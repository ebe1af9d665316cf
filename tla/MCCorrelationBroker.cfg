SPECIFICATION FairSpec
CONSTANTS
  w1 = w1
  w2 = w2
  m1 = m1
  m2 = m2
  c1 = c1
  Waits <- MCWaits
  Messages <- MCMessages
  Calls <- MCCalls
  AlarmCall = AlarmCall
  None = None
  TTL = 1
  LastSend = 2
  MaxTime = 3
  MaxFaults = 1
INVARIANTS
  TypeOK
  BufferedIffKept
  HandedOnce
  NoMissedRendezvous
  AlarmCoversBuffer
PROPERTIES
  NoResurrection
  BufferDrains
  ExpiryReachesD1
  ImplementsRendezvous
CHECK_DEADLOCK FALSE
