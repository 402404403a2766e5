\* Whole case lives, and two users racing on a case.
SPECIFICATION SceneSpec
CONSTANTS
  Scenes = {"life", "races"}
  c1 = c1
  admin = admin
  supervisor = supervisor
  examiner = examiner
  x1 = x1
  w1 = w1
  w2 = w2
  NotRevoked = NotRevoked
  Idle = Idle
  RoleOf <- Roles
  Cases = {c1}
  Users = {admin, supervisor, examiner}
  Workers = {w1, w2}
  Exhibits = {x1}
  OtherActions = {"scan"}
  MaxVersion = 9
  MaxTrail = 10
  MaxGrants = 6
  Suspendable = {admin, supervisor, examiner}
INVARIANTS
  TrailTellsStatus ClosedOnCurrentApproval TrailActorsAllowed
  LateWritesBounded TrailTellsAccess
PROPERTIES ImplementsLifecycle ChangesWhatWasSeen HistoryOnlyGrows
SYMMETRY Interchangeable
CHECK_DEADLOCK FALSE
