SPECIFICATION Spec
CONSTANTS
  w1 = w1
  w2 = w2
  k1 = k1
  btc = btc
  eth = eth
  Workers <- OneWorker
  Keys <- OneKey
  Symbols <- MCSymbols
  Candidates <- MCCandidates
  Specs <- MCSpecs
  Markets <- MCMarkets
  Policy <- MCPolicy
  Deposit = 5000
  Results <- Drop
  Remains <- Used
PROPERTIES DailyCapIsHard
