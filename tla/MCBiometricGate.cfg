\* Two requests at a time, two authorizations, two detection runs, one tracking run.
CONSTANTS
  t1 = t1  t2 = t2
  a1 = a1  a2 = a2
  r1 = r1  r2 = r2
  k1 = k1
  Threads = {t1, t2}
  AuthIds = {a1, a2}
  RunIds = {r1, r2}
  TrackIds = {k1}
  Frames = {1, 2}
  Idle = Idle
  NoId = NoId
  MaxTime = 1
  MaxMoves = 2
SPECIFICATION Spec
VIEW GateView
SYMMETRY GateSymmetry
CHECK_DEADLOCK FALSE
INVARIANTS AnalysesInsideWindow PreviewsMatchRuns TracksRestOnRuns
PROPERTY NothingAfterClosing
