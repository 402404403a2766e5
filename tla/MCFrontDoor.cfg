\* Two servers started at the same time, two operators, two login requests.
CONSTANTS
  l1 = l1  l2 = l2
  o1 = o1  o2 = o2
  c1 = c1  c2 = c2
  q1 = q1  q2 = q2
  Launches = {l1, l2}
  Settings <- OneOrTwoPorts
  Operators = {o1, o2}
  NoCode = NoCode
  NoFile = NoFile
  EmptyFile = EmptyFile
  Challenges = {c1, c2}
  Requests = {q1, q2}
  NoChallenge = NoChallenge
  Outstanding = 1
  Validity = 2
  MaxLag = 1
  NoServer = NoServer
SPECIFICATION FrontSpec
INVARIANTS OneGuessPerChallenge OneInstallation
PROPERTIES RoomReturns RetryServes
