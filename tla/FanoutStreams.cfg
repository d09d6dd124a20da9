SPECIFICATION Spec
CONSTANTS
  d1 = d1
  k1 = k1
  Members = 1
  Client = {c1, c2}
  Digest = {d1, d2}
  Key = {}
  ContentOf <- StreamContent
  Rank <- StreamRank
  PutRank <- StreamRank
  Replicas = 1
  Joins = 3
  Pending = 6
  Sids = 2
  Wids = 2
  Fleets = {}
  Configs <- MCStreams
SYMMETRY StreamSym
INVARIANTS AckedReplicated
CHECK_DEADLOCK FALSE
