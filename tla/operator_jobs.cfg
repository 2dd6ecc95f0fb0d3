SPECIFICATION FairSpec
CONSTANTS
  k1 = k1
  k2 = k2
  Keys <- TwoKeys
  Commands <- TwoCommands
  MaxJobs = 2
INVARIANTS
  OneJobPerRequest
  WeakTriggerHasCulprit
PROPERTIES
  EndedStaysEnded
  EveryJobEnds
