SPECIFICATION FairSpec
CONSTANTS
  r1 = r1
  r2 = r2
  r3 = r3
  Requests <- ThreeRequests
  PoolSize = 2
INVARIANTS
  PoolTypeOK
  NoneLeaked
  FullPoolMovesOn
PROPERTIES
  RequestsAnswered
  PoolRecovers
