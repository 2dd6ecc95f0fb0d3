--------------------------- MODULE ManualActionsMC ---------------------------
(***************************************************************************)
(* The preflight with two symbols and the least burst that suffices for    *)
(* them, and manual actions under one key: keys do not meet.               *)
(***************************************************************************)
EXTENDS ManualActions

LiveReady ==
  [trading |-> TRUE, enable |-> TRUE, confirm |-> TRUE, keys |-> TRUE,
   testnet |-> FALSE, demo |-> FALSE, demoMl |-> FALSE, requireDb |-> TRUE,
   requirePreflight |-> TRUE, requireGo |-> TRUE, goEnv |-> TRUE,
   local |-> FALSE]

\* One switch away from it, and one that trusts neither database nor evidence.
NearReady ==
  {LiveReady} \union {[LiveReady EXCEPT ![f] = ~@] : f \in DOMAIN LiveReady}
  \union {[LiveReady EXCEPT !.requireGo = FALSE, !.requireDb = FALSE]}

=============================================================================
