SPECIFICATION Spec
CONSTANTS
  s1 = s1
  s2 = s2
  s3 = s3
  f1 = f1
  Sessions <- ThreeSessions
  Files <- OneFile
  MaxTroubles = 2
  None = None
INVARIANTS
  SchemaTypeOK
  HeadIsTheModel
  NoCircle
PROPERTIES
  LostByDowngradeOnly
  AnsweredUnlessDownload
  UpgradeReachesHead
