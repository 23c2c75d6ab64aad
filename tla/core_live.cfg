SPECIFICATION FairSpec

CONSTANTS
  None = None
  f1 = f1
  f2 = f2
  r1 = r1
  r2 = r2
  w1 = w1
  w2 = w2
  Files <- OneFile
  Requests <- TwoRequests
  Workers <- TwoWorkers
  Uploads <- TextOrEmpty
  Titles <- GoodTitles
  LongTitles <- MCLongTitles
  MaxSafeSize <- MCMaxSafeSize
  IntMax <- MCIntMax
  Faults <- NoFaults
  MaxRedeliveries = 1

INVARIANTS
  UploadedIsPending
  NoOrphan
  PatchFailsByDelete

PROPERTY UploadsSettle
