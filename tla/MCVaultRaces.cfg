\* Two requests at a time, with crashes, failing writes and an altered file.
SPECIFICATION Spec
CONSTANTS
  u1 = u1
  t1 = t1
  t2 = t2
  i1 = i1
  i2 = i2
  i3 = i3
  i4 = i4
  i5 = i5
  r1 = r1
  Original = Original
  Altered = Altered
  Partial = Partial
  Idle = Idle
  NoId = NoId
  Users <- OneUser
  Threads <- TwoThreads
  Ids <- FourIds
  Recordings <- OneRecording
  MaxAlterations = 1
INVARIANTS FilesMatchRows AtMostOnce LineageHolds
PROPERTIES ImplementsLineage
VIEW VaultView
SYMMETRY Interchangeable
CHECK_DEADLOCK FALSE
