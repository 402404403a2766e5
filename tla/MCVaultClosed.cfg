\* A case closed while a recording is being registered.
SPECIFICATION Spec
CONSTANTS
  u1 = u1
  t1 = t1
  t2 = t2
  i1 = i1
  i2 = i2
  i3 = i3
  i4 = i4
  i5 = i5
  r1 = r1
  Original = Original
  Altered = Altered
  Partial = Partial
  Idle = Idle
  NoId = NoId
  Users <- OneUser
  Threads <- OneThread
  Ids <- FiveIds
  Recordings <- OneRecording
  MaxAlterations = 0
PROPERTIES RecoveryWritesInActiveCase
SYMMETRY Interchangeable
CHECK_DEADLOCK FALSE
