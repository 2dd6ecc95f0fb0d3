SPECIFICATION UndisturbedSpec
CONSTANTS
  w1 = w1
  w2 = w2
  k1 = k1
  k2 = k2
  s1 = s1
  s2 = s2
  d1 = d1
  d2 = d2
  x = x
  Workers <- MCWorkers
  Keys <- MCKeys
  Signals <- MCSignals
  Decisions <- MCDecisions
  Symbols <- MCSymbols
  SignalOf <- MCSignalOf
  SymbolOf <- MCSymbolOf
  HardInvariants = TRUE
INVARIANT
  UncertainOrderMarked
