SPECIFICATION FairSpec
CONSTANTS
  btc = btc
  None = None
  Symbols <- One
  Readings <- ThresholdReadings
  Phase = 2
  HysteresisBars = 3
  CooldownSeconds = 2
  PerRequest = FALSE
INVARIANTS
  TypeOK
  EntriesOnlyInCalm
  RestAfterStop
PROPERTIES
  NoHastyFlip
  SteadyRegimeReturned
