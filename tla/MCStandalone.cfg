\* One machine at a time; see MCStandalone for what each is started with.
CONSTANTS
  Machines = {"package", "media", "search", "tree", "nal", "tracking", "suppression", "probe"}
  p1 = p1  p2 = p2
  k1 = k1  k2 = k2
  r1 = r1
  PackageIds = {p1, p2}
  Reports = {r1}
  Keys = {k1, k2}
  Trusted = k1
  Altered = Altered
  MaxCustody = 3
  MaxControl = 5
  FixedSize = 1
  EventSize = 2
  MaxEvents = 4
  MaxDamage = 2
  Bytes = {1, 2}
  Signature <- SearchSignature
  Images <- SearchImages
  Limits = {1, 5, 9}
  ChunkSizes = {3, 4, 7}
  far = far
  none = none
  Pages = {0, 3, 11}
  PageLength = 11
  Outside = far
  NoPage = none
  Trees <- DiskTrees
  MaxPages = 3
  MaxEntries = 5
  Streams <- Blocks
  Clips <- Footage
  MaxGap = 2
  ThresholdNum = 3
  ThresholdDen = 10
  Crowds <- DetectorOutputs
  NmsNum = 3
  NmsDen = 10
  MaxFaces = 2
  MaxCandidates = 3
  Adapters = {1, 2, 3}
  Confidences = {0, 49, 50, 55, 60}
  Failed = Failed
  Minimum = 50
  Margin = 5
  e1 = e1  e2 = e2
  Examiners = {e1, e2}
  RowIds = {1, 2, 3}
  Durations = {5}
  Unknown = Unknown
  Timestamps = {3, 7}
  Resting = Resting
  MaxMediaTime = 1
SPECIFICATION StandaloneSpec
CHECK_DEADLOCK FALSE
INVARIANTS
  AcceptedTrailAsWritten AcceptedPackageAsBuilt UndamagedAccepted
  MediaAccounted
  FirstSignatureFound DirectoryRead UnitsRecognized TracksAssociated
  OneBoxForEachFace ChoiceOfTheLeader
