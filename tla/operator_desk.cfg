SPECIFICATION Spec
CONSTANTS
  Universe = 2
  Burst = 7
  Chosen <- NearReady
  Keys = {k1}
  Actions = {"DISABLE_TRADING", "ACTIVATE_CONFIG", "OPEN_POSITION"}
  Mixed = FALSE
INVARIANTS
  OpenMeansReady
  OldIncidentBlocks
  BlockedIsExplained
  LimiterSparesTheGate
  DeskTypeOK
  AcceptedKeepsRisk
  AnsweredIsAudited
PROPERTY
  AnsweredKeyIsQuiet
