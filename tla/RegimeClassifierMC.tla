------------------------ MODULE RegimeClassifierMC ------------------------
(***************************************************************************)
(* Small instances of RegimeClassifier: readings at the thresholds of      *)
(* _raw_candidates, on either side of each.                                *)
(***************************************************************************)
EXTENDS RegimeClassifier

CONSTANT btc

Quiet == [stop |-> FALSE, news |-> FALSE, fresh |-> TRUE, oi |-> 0,
          volatility |-> 0, atr |-> 15, volume_z |-> 4, btc |-> TRUE,
          spread |-> 30]                                      \* RANGE

Rising == [Quiet EXCEPT !.atr = 19, !.volume_z = 20]          \* TREND_UP
Stormy == [Quiet EXCEPT !.volatility = 251]                   \* HIGH_VOL
Still == [Quiet EXCEPT !.atr = 6, !.spread = 31]              \* LOW_VOL

MCReadings ==
    {Quiet, Rising, Stormy, Still,
     [Rising EXCEPT !.btc = FALSE],                           \* no candidate
     [Quiet EXCEPT !.stop = TRUE],
     [Quiet EXCEPT !.fresh = FALSE],
     [Rising EXCEPT !.news = TRUE, !.fresh = FALSE],
     [Stormy EXCEPT !.oi = -12]}                              \* LIQUIDATION

ThresholdReadings ==
    MCReadings \cup
    {[Quiet EXCEPT !.volume_z = 20],                          \* RANGE and TREND_UP
     [Rising EXCEPT !.atr = 41],                              \* HIGH_VOL and TREND_UP
     [Rising EXCEPT !.atr = 40],
     [Still EXCEPT !.atr = 7],                                \* no candidate
     [Still EXCEPT !.volume_z = 5],                           \* no candidate
     [Quiet EXCEPT !.atr = 18],
     [Quiet EXCEPT !.oi = -12, !.volatility = 120],
     [Quiet EXCEPT !.oi = -11, !.volatility = 250],
     [Quiet EXCEPT !.oi = -12, !.volatility = 121],
     [Quiet EXCEPT !.news = TRUE, !.stop = TRUE]}

One == {btc}
=============================================================================
