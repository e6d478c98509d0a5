CONSTANTS
  m1 = m1  m2 = m2  s1 = s1  s2 = s2
  Masternodes <- MCMasternodes
  MNOrder <- MCOrder
  Payees <- MCPayees
  Score <- MCScore
  ScoreLag = 2
  HashLag = 1
  VoteAhead = 1
  LimitFloor = 1
  MaxHeight = 5
  MaxVotes = 1
SPECIFICATION Spec
INVARIANTS TypeOK OneWinnerPerHeight WinnerHasBestScore
CHECK_DEADLOCK FALSE
