SPECIFICATION Spec
CONSTANTS
  m1 = m1
  m2 = m2
  m3 = m3
  m4 = m4
  Msg = {m1, m2, m3, m4}
  Unparsable = {m3}
  Keyless = {m4}
  MaxFault = 2
  MaxCut = 2
INVARIANTS TypeOK DeliveredIsStored NotDroppedUnsent SentOnce
PROPERTIES ImplementsMailbox RetriesUntilSent
