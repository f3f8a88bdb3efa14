SPECIFICATION FairSpec
CONSTANTS
  Takes <- TheOptions
  MergeMax = 3
  MaxRetry = 5
  Scenarios <- TheScenarios
  Files <- TheFiles
  Images <- TheImages
  Ram <- TheRam
  MaxKills = 1
INVARIANTS ArgumentsMeant RunsWhole ReadsFile
PROPERTIES LastAsked Ends
CHECK_DEADLOCK FALSE
