SPECIFICATION Spec
CONSTANTS
  Files = {f1}
  Outcomes <- MCOneOutcome
  MaxTroubles = 0
  None = None
PROPERTIES
  AlertFollowsUpload
