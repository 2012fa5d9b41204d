SPECIFICATION FairSpec
CONSTANTS
  MaxText = 6
  Accounts <- MCAccounts
  Plans <- MCPlans
  Raws <- MCRaws
  Strict = FALSE
  Retries = 1
  Key <- MCKey
  Ratio <- MCRatio
  Threshold = 65
  None = "none"
  Always = "taskhog"
  Review = "revisar"
  MaxEdits = 1
  MaxFaults = 1
  MaxCrashes = 1
INVARIANTS
  ExtractionIsRight
  RecordIsTrue
PROPERTY JobEnds
CHECK_DEADLOCK FALSE
