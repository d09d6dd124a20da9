SPECIFICATION FairSpec
CONSTANTS
  d1 = d1
  k1 = k1
  Members = 2
  Client = {c1}
  Digest = {d1}
  Key = {k1}
  ContentOf <- MCContentOf
  Rank <- UpRank
  PutRank <- DownRank
  Replicas = 2
  Joins = 2
  Pending = 4
  Sids = 1
  Wids = 1
  Fleets <- MCFleets
  Configs <- MCConfigs
INVARIANTS AckedReplicated AnswersRight

PROPERTIES RequestAnswered ScrubHeals
CHECK_DEADLOCK FALSE
