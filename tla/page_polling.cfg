SPECIFICATION Spec
CONSTANTS
  Files = {f1, f2}
  Outcomes <- MCOneOutcome
  MaxTroubles = 1
  None = None
INVARIANTS
  PageTypeOK
  QuietMeansSettled
PROPERTIES
  UploadReachesList
  RefocusCatchesUp
