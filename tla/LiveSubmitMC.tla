---------------------------- MODULE LiveSubmitMC ----------------------------
(***************************************************************************)
(* Instances of LiveSubmit for TLC.                                        *)
(***************************************************************************)
EXTENDS LiveSubmit, TLC

CONSTANTS w1, w2, k1, k2, s1, s2, d1, d2, x

\* Two signals of one symbol, each with one decision.
MCWorkers == {w1, w2}
MCKeys == {k1, k2}
MCSignals == {s1, s2}
MCDecisions == {d1, d2}
MCSymbols == {x}
MCSignalOf == d1 :> s1 @@ d2 :> s2
MCSymbolOf == [s \in MCSignals |-> x]

\* One signal that was evaluated twice.
MCReapprovedOf == [d \in MCDecisions |-> s1]
MCOneSignal == {s1}
MCReapprovedSymbolOf == [s \in MCOneSignal |-> x]

Symmetry == Permutations(MCWorkers) \union Permutations(MCKeys)

\* No crash, no failing statement, no paper submit: what remains is what the
\* code does by itself.
Undisturbed ==
  \/ \E w \in Workers : Submit(w)
  \/ \E d \in Decisions : Approve(d) \/ Expire(d)
  \/ \E s \in Signals : RiskReject(s)
UndisturbedSpec == Init /\ [][Undisturbed]_vars
=============================================================================
