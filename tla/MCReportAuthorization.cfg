\* An authorization is granted and used while one report is being read together.
CONSTANTS
  t1 = t1
  e1 = e1  e2 = e2
  a1 = a1
  r1 = r1
  p1 = p1  p2 = p2
  key1 = key1  key2 = key2
  Threads = {t1}
  AuthIds = {a1}
  RunIds = {r1}
  TrackIds = {}
  Frames = {1}
  Idle = Idle
  NoId = NoId
  NoKey = NoKey
  MaxTime = 0
  MaxMoves = 1
  Exporters = {e1, e2}
  PackageIds = {p1, p2}
  Keys = {key1, key2}
SPECIFICATION ExportSpec
SYMMETRY ExportSymmetry
CHECK_DEADLOCK FALSE
INVARIANT DetectionsWithAuthorization
