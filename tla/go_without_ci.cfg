SPECIFICATION WorkflowSpec
CONSTANTS
  k1 = k1
  c1 = c1
  c2 = c2
  Keys <- OneKey
  Commands <- GateCommands
  MaxJobs = 2
  Configs <- OneConfig
  CliRows <- NoCli
  DaysRequired = 2
  MinPaperDays = 2
  JobWindow = 50
  MaxDay = 3
  MaxRows = 6
  MaxCliRows = 1
INVARIANTS
  GoNeedsCi
