SPECIFICATION WorkflowSpec
CONSTANTS
  k1 = k1
  c1 = c1
  c2 = c2
  Keys <- OneKey
  Commands <- GateCommands
  MaxJobs = 2
  Configs <- TwoConfigs
  CliRows <- OutOfTurn
  MaxCliRows = 1
  DaysRequired = 1
  MinPaperDays = 1
  JobWindow = 1
  MaxDay = 3
  MaxRows = 8
SYMMETRY ConfigSymmetry
VIEW Seen
INVARIANTS
  WorkflowTypeOK
  GoIsEarned
  GreenPanelOpensGate
  OnlyCommandLineStrandsPanel
PROPERTIES
  OnlyShortPassLosesEvidence
