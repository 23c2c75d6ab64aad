SPECIFICATION Spec

CONSTANTS
  None = None
  f1 = f1
  f2 = f2
  r1 = r1
  r2 = r2
  w1 = w1
  w2 = w2
  Files <- OneFile
  Requests <- TwoRequests
  Workers <- TwoWorkers
  Uploads <- AnyUploads
  Titles <- AnyTitles
  LongTitles <- MCLongTitles
  MaxSafeSize <- MCMaxSafeSize
  IntMax <- MCIntMax
  Faults <- EveryFault
  MaxRedeliveries = 1

SYMMETRY Symmetry

INVARIANTS
  TypeOK
  LossMeansDelete
  DeletedIsGone
  StatusMatchesAlerts
  MissingRowMeansDeleted
  CreatedIsUploaded
  OneCoherentOutcome
  OneTaskPerUpload

PROPERTIES
  TitleChangesByPatch
  ImplementsLifecycle
