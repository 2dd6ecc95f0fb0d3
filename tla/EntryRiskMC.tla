---------------------------- MODULE EntryRiskMC -----------------------------
(***************************************************************************)
(* Small instances of EntryRisk.  The unit of money is 0.1 USDT, so the    *)
(* deposit is 500 USDT; limits and costs are those of config/risk.yaml.    *)
(***************************************************************************)
EXTENDS EntryRisk, TLC

CONSTANTS w1, w2, k1, btc, eth

OneWorker == {w1}
TwoWorkers == {w1, w2}
OneKey == {k1}
MCSymbols == {btc, eth}
MCPolicy == [risk |-> 100, leverage |-> 3, reserve |-> 2000, daily |-> 300,
             weekly |-> 600, min_liq |-> 500, max_spread |-> 8, min_edge |-> 2,
             maker |-> 2, slippage |-> 2, funding_buffer |-> 1, safety |-> 2]
MCSpecs == btc :> [step |-> 4, min_qty |-> 4, min_notional |-> 50, max_leverage |-> 100]
        @@ eth :> [step |-> 1, min_qty |-> 1, min_notional |-> 50, max_leverage |-> 50]

\* Two steps of btc, 800 USDT.
Tight == [symbol |-> btc, entry |-> 1000, dist |-> 5, edge |-> 60,
          sound |-> TRUE, permitted |-> TRUE, requires_ml |-> FALSE]
\* Four steps of eth when the equity is 4900, and approved; five when it is
\* 5500, and rejected, because the costs of five do not fit.
Edge == [Tight EXCEPT !.symbol = eth, !.entry = 2390, !.dist = 10]
\* A strategy this phase only watches.
Carry == [Tight EXCEPT !.permitted = FALSE]
MCCandidates == {Tight, Edge}
AllCandidates == {Tight, Edge, Carry}

MCMarkets == {[spread |-> 0, funding |-> 0, deep |-> TRUE],
              [spread |-> 2, funding |-> -40, deep |-> TRUE]}

\* Nothing, which the code reads as everything.
Used == {0}
Gain == {600}
Drop == {-200}
Symmetry == Permutations(TwoWorkers)
=============================================================================
