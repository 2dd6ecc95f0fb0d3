----------------------------- MODULE EntryGuard -----------------------------
(***************************************************************************)
(* What live order submission promises, without workers, memory, rows or   *)
(* HTTP answers.  An entry is opened for an approved risk decision.  Its   *)
(* decision is reserved first, while it is still valid and while no other  *)
(* decision of the symbol is reserved; only a reserved decision is sent    *)
(* to the exchange, and it is sent at most once.  LiveSubmit implements    *)
(* this specification for the symbols (RefinesEntryGuard) and on either    *)
(* schema for each decision by itself (RefinesDecisionGuard).              *)
(***************************************************************************)
EXTENDS Naturals

CONSTANTS
  Decisions,    \* approved risk decisions
  SymbolFor     \* the symbol a decision opens an entry on

VARIABLES
  valid,        \* decisions the database would accept now
  reserved,     \* decisions with an entry in the order table
  calls         \* number of order/create calls made for each decision

vars == <<valid, reserved, calls>>

Init ==
  /\ valid \subseteq Decisions
  /\ reserved = {}
  /\ calls = [d \in Decisions |-> 0]

\* Approval, expiry and re-evaluation change what is valid at any time.
Revalue ==
  /\ valid' \in SUBSET Decisions
  /\ UNCHANGED <<reserved, calls>>

Reserve(d) ==
  /\ d \in valid
  /\ \A e \in reserved : SymbolFor[e] # SymbolFor[d]
  /\ reserved' = reserved \union {d}
  /\ UNCHANGED <<valid, calls>>

Call(d) ==
  /\ d \in reserved
  /\ calls[d] = 0
  /\ calls' = [calls EXCEPT ![d] = 1]
  /\ UNCHANGED <<valid, reserved>>

Next ==
  \/ Revalue
  \/ \E d \in Decisions : Reserve(d) \/ Call(d)

Spec == Init /\ [][Next]_vars
=============================================================================
