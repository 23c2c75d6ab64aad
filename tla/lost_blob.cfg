SPECIFICATION Spec

CONSTANTS
  None = None
  f1 = f1
  f2 = f2
  r1 = r1
  r2 = r2
  w1 = w1
  w2 = w2
  Files <- OneFile
  Requests <- TwoRequests
  Workers <- TwoWorkers
  Uploads <- TextOrEmpty
  Titles <- OneTitle
  LongTitles <- MCLongTitles
  MaxSafeSize <- MCMaxSafeSize
  IntMax <- MCIntMax
  Faults <- NoFaults
  MaxRedeliveries = 0

INVARIANT RowHasBlob
