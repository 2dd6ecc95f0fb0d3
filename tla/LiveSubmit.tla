----------------------------- MODULE LiveSubmit -----------------------------
(***************************************************************************)
(* Live order submission, POST /api/execution/live-submit, served by       *)
(* several backend processes over one PostgreSQL database and one Bybit    *)
(* account.  A handler has no await: inside its process it is atomic, so a *)
(* process runs at most one request and its in-memory order router is      *)
(* never shared.  Processes interleave at every database statement and at  *)
(* the exchange call, and a process may die between any two of them.       *)
(*                                                                         *)
(* Abstracted: the payload checks that no property tells apart (strategy   *)
(* names, lineage, sizing), which hold or fail for a signal once and for   *)
(* all; a request here is one that passes them.  The settings flags, the   *)
(* evidence rows and the runtime checks of the live gate are one           *)
(* nondeterministic answer, except for the incidents, which this very      *)
(* handler writes.                                                         *)
(***************************************************************************)
EXTENDS Naturals, FiniteSets

CONSTANTS
  Workers,          \* backend processes
  Keys,             \* idempotency keys clients send
  Signals,          \* signal candidates
  Decisions,        \* approved risk decisions
  Symbols,
  SignalOf,         \* decision -> its signal
  SymbolOf,         \* signal -> its symbol
  HardInvariants    \* TRUE iff migration 0003 is applied on top of 0001

ASSUME SignalOfAssumption == SignalOf \in [Decisions -> Signals]
ASSUME SymbolOfAssumption == SymbolOf \in [Signals -> Symbols]
ASSUME HardInvariantsAssumption == HardInvariants \in BOOLEAN

VARIABLES
  handler,          \* process -> the request it runs or has answered last
  intents,          \* process -> OrderIntents of its idempotency store
  locks,            \* process -> symbol locks of its idempotency store
  decisions,        \* table risk_decisions: approved decisions and expiry
  signals,          \* table signals: status
  orders,           \* table orders
  incidents,        \* table incidents: OPEN HIGH ones of a failed submit
  calls,            \* order/create calls made per decision
  live              \* decisions whose order the exchange has accepted

memory    == <<intents, locks>>
approvals == <<decisions, signals>>
exchange  == <<calls, live>>
vars == <<handler, memory, approvals, orders, incidents, exchange>>

-----------------------------------------------------------------------------
(* Rows, intents and handlers                                              *)

Request == [key : Keys, sig : Signals, dec : Decisions]
OrderState == {"APPROVED", "ORDER_SUBMITTED", "ERROR_RECONCILIATION_REQUIRED"}
Row == [key : Keys, sig : Signals, dec : Decisions, state : OrderState]
Lock == [symbol : Symbols, key : Keys]

\* The statement a running handler executes next ...
Steps == {"verify", "build", "reserve", "insert", "place", "record", "mark",
          "incident"}
\* ... or how it ended: 200 after a submit, 200 replay, 502, and the 500s of
\* a failed reservation, a failed record of the ack, a failed error marking.
Answers == {"ok", "replay", "uncertain", "unreserved", "unrecorded",
            "unmarked"}
Idle == [pc |-> "idle"]
Running(w) == handler[w].pc \in Steps

Handling(step, r) == [pc |-> step, key |-> r.key, sig |-> r.sig, dec |-> r.dec]
Goto(w, step) == handler' = [handler EXCEPT ![w].pc = step]
Refuse(w) == handler' = [handler EXCEPT ![w] = Idle]

TypeOK ==
  /\ handler \in [Workers -> {Idle} \union
                  [pc : Steps \union Answers, key : Keys, sig : Signals,
                   dec : Decisions]]
  /\ intents \in [Workers -> SUBSET Request]
  /\ locks \in [Workers -> SUBSET Lock]
  /\ decisions \in [Decisions -> {"absent", "fresh", "expired"}]
  /\ signals \in [Signals -> {"absent", "APPROVED", "RISK_REJECTED"}]
  /\ orders \subseteq Row
  /\ incidents \subseteq Decisions
  /\ calls \in [Decisions -> Nat]
  /\ live \subseteq Decisions

Init ==
  /\ handler = [w \in Workers |-> Idle]
  /\ intents = [w \in Workers |-> {}]
  /\ locks = [w \in Workers |-> {}]
  /\ decisions = [d \in Decisions |-> "absent"]
  /\ signals = [s \in Signals |-> "absent"]
  /\ orders = {}
  /\ incidents = {}
  /\ calls = [d \in Decisions |-> 0]
  /\ live = {}

-----------------------------------------------------------------------------
(* PostgreSQL: the trigger and the unique indexes of table orders          *)

\* Entry rows the partial index one_pending_entry_per_symbol covers.
Pending(row) == row.state \in {"APPROVED", "ORDER_SUBMITTED"}

\* Faulty trigger: trusts that the handler has looked at expires_at.
TriggerIgnoresExpiry(sig, dec, state) ==
  /\ SignalOf[dec] = sig
  /\ HardInvariants => signals[sig] # "RISK_REJECTED"
  /\ state \in {"APPROVED", "ORDER_SUBMITTED"}

\* Faulty trigger: lets an entry row take any state.
TriggerTakesAnyState(sig, dec, state) ==
  /\ decisions[dec] = "fresh"
  /\ SignalOf[dec] = sig
  /\ HardInvariants => signals[sig] # "RISK_REJECTED"

\* validate_order_risk_decision(), run before every INSERT.  Migration 0003
\* added the test of the signal's status.
TriggerAccepts(sig, dec, state) ==
  /\ decisions[dec] = "fresh"
  /\ SignalOf[dec] = sig
  /\ HardInvariants => signals[sig] # "RISK_REJECTED"
  /\ state \in {"APPROVED", "ORDER_SUBMITTED"}

\* Migration 0003 also made the trigger run on an UPDATE of state.
UpdateAccepted(sig, dec, state) ==
  HardInvariants => TriggerAccepts(sig, dec, state)

SameClientOrderId(row, r) == row.sig = r.sig /\ row.dec = r.dec

\* Faulty schema: client_order_id is not UNIQUE.
NoUniqueClientOrderId(r) ==
  \A row \in orders : Pending(row) => SymbolOf[row.sig] # SymbolOf[r.sig]

UniqueIndexesAccept(r) ==
  \A row \in orders :
    /\ ~SameClientOrderId(row, r)
    /\ Pending(row) => SymbolOf[row.sig] # SymbolOf[r.sig]

\* Faulty update: writes a state that is not in the enum order_state.
SetStateOutsideEnum(r, state) ==
  orders' = { IF SameClientOrderId(row, r)
                THEN [row EXCEPT !.state = "SUBMITTED"] ELSE row : row \in orders }

\* UPDATE orders SET state = ... WHERE client_order_id = ...
SetState(r, state) ==
  orders' = { IF SameClientOrderId(row, r)
                THEN [row EXCEPT !.state = state] ELSE row : row \in orders }

-----------------------------------------------------------------------------
(* The order router of one process                                         *)

\* Faulty lock: a symbol that is taken is refused to its own key, too, but a
\* new key takes it over.
LockTakenOver(w, r) ==
  \A l \in locks[w] : l.symbol = SymbolOf[r.sig] => l.key # r.key

\* lock_symbol: only the key that holds the symbol may take it again.
LockFree(w, r) ==
  \A l \in locks[w] : l.symbol = SymbolOf[r.sig] => l.key = r.key

\* A repeated key answers its cached intent before any other check, and is
\* refused for another signal or decision.
CacheHit(w, r) == r \in intents[w]

NewIntent(w, r) ==
  /\ \A i \in intents[w] : i.key # r.key
  /\ decisions[r.dec] # "expired"
  /\ SignalOf[r.dec] = r.sig
  /\ LockFree(w, r)

\* build_intent: every refusal raises before anything is written.
CanBuild(w, r) == CacheHit(w, r) \/ NewIntent(w, r)

BuildIntent(w, r) ==
  IF CacheHit(w, r) THEN UNCHANGED memory
  ELSE /\ locks' = [locks EXCEPT ![w] =
                      @ \union {[symbol |-> SymbolOf[r.sig], key |-> r.key]}]
       /\ intents' = [intents EXCEPT ![w] = @ \union {r}]

RequestOf(w) == [key |-> handler[w].key, sig |-> handler[w].sig,
                 dec |-> handler[w].dec]

-----------------------------------------------------------------------------
(* The handler of live-submit, one action per statement                    *)

\* assert_live_submit_allowed: every gate passes, in particular no OPEN
\* HIGH incident.  A refusal (423) changes nothing and is not an action.
PassGate(w, r) ==
  /\ ~Running(w)
  /\ incidents = {}
  /\ handler' = [handler EXCEPT ![w] = Handling("verify", r)]
  /\ UNCHANGED <<memory, approvals, orders, incidents, exchange>>

\* verify_live_risk_decision, else 423.
Verify(w) ==
  /\ handler[w].pc = "verify"
  /\ IF decisions[handler[w].dec] = "fresh"
       THEN Goto(w, "build") ELSE Refuse(w)
  /\ UNCHANGED <<memory, approvals, orders, incidents, exchange>>

\* order_router.build_intent, or its ValueError.
Build(w) ==
  /\ handler[w].pc = "build"
  /\ IF CanBuild(w, RequestOf(w))
       THEN BuildIntent(w, RequestOf(w)) /\ Goto(w, "reserve")
       ELSE UNCHANGED memory /\ Refuse(w)
  /\ UNCHANGED <<approvals, orders, incidents, exchange>>

\* Faulty replay: a row that is still APPROVED is submitted again.
ReplayResubmits(w, row) ==
  IF SameClientOrderId(row, handler[w])
    THEN Goto(w, IF row.state = "APPROVED" THEN "place" ELSE "replay")
    ELSE Refuse(w)

\* Faulty replay: the stored order is not compared with the request.
ReplayUnchecked(w, row) == Goto(w, "replay")

\* The key has a row: a replay of the same order, or 409.
AnswerExisting(w, row) ==
  IF SameClientOrderId(row, handler[w])
    THEN Goto(w, "replay") ELSE Refuse(w)

\* reserve_order_intent, the SELECT.
LookUp(w) ==
  /\ handler[w].pc = "reserve"
  /\ \/ \E row \in orders : row.key = handler[w].key /\ AnswerExisting(w, row)
     \/ /\ \A row \in orders : row.key # handler[w].key
        /\ Goto(w, "insert")
  /\ UNCHANGED <<memory, approvals, orders, incidents, exchange>>

\* reserve_order_intent, the INSERT .. ON CONFLICT (idempotency_key) DO
\* NOTHING with the SELECT that follows a conflict.  The trigger runs first;
\* the conflict on the key hides a conflict on the other indexes.
InsertConflict(w) ==
  /\ handler[w].pc = "insert"
  /\ TriggerAccepts(handler[w].sig, handler[w].dec, "APPROVED")
  /\ \E row \in orders : row.key = handler[w].key /\ AnswerExisting(w, row)
  /\ UNCHANGED <<memory, approvals, orders, incidents, exchange>>

InsertRefused(w) ==
  /\ handler[w].pc = "insert"
  /\ \/ ~TriggerAccepts(handler[w].sig, handler[w].dec, "APPROVED")
     \/ /\ \A row \in orders : row.key # handler[w].key
        /\ ~UniqueIndexesAccept(handler[w])
  /\ Goto(w, "unreserved")
  /\ UNCHANGED <<memory, approvals, orders, incidents, exchange>>

\* The row is committed; the commit's acknowledgement may still be lost.
Insert(w) ==
  /\ handler[w].pc = "insert"
  /\ TriggerAccepts(handler[w].sig, handler[w].dec, "APPROVED")
  /\ \A row \in orders : row.key # handler[w].key
  /\ UniqueIndexesAccept(handler[w])
  /\ orders' = orders \union
       {[key |-> handler[w].key, sig |-> handler[w].sig,
         dec |-> handler[w].dec, state |-> "APPROVED"]}
  /\ \E answer \in {"place", "unreserved"} : Goto(w, answer)
  /\ UNCHANGED <<memory, approvals, incidents, exchange>>

\* adapter.place_order: no exception only if the exchange accepted the order.
\* An exception can come before the POST, or after it with either outcome.
PlaceAcked(w) ==
  /\ handler[w].pc = "place"
  /\ calls' = [calls EXCEPT ![handler[w].dec] = @ + 1]
  /\ live' = live \union {handler[w].dec}
  /\ Goto(w, "record")
  /\ UNCHANGED <<memory, approvals, orders, incidents>>

PlaceRaises(w) ==
  /\ handler[w].pc = "place"
  /\ \/ UNCHANGED exchange
     \/ /\ calls' = [calls EXCEPT ![handler[w].dec] = @ + 1]
        /\ live' \in {live, live \union {handler[w].dec}}
  /\ Goto(w, "mark")
  /\ UNCHANGED <<memory, approvals, orders, incidents>>

\* update_order_submitted, outside the try block: a refusal by the trigger
\* is a plain 500.
Record(w) ==
  /\ handler[w].pc = "record"
  /\ IF UpdateAccepted(handler[w].sig, handler[w].dec, "ORDER_SUBMITTED")
       THEN SetState(handler[w], "ORDER_SUBMITTED") /\ Goto(w, "ok")
       ELSE UNCHANGED orders /\ Goto(w, "unrecorded")
  /\ UNCHANGED <<memory, approvals, incidents, exchange>>

\* mark_order_error, then create_incident; a refusal of the first skips the
\* second.
MarkError(w) ==
  /\ handler[w].pc = "mark"
  /\ IF UpdateAccepted(handler[w].sig, handler[w].dec,
                       "ERROR_RECONCILIATION_REQUIRED")
       THEN /\ SetState(handler[w], "ERROR_RECONCILIATION_REQUIRED")
            /\ Goto(w, "incident")
       ELSE UNCHANGED orders /\ Goto(w, "unmarked")
  /\ UNCHANGED <<memory, approvals, incidents, exchange>>

\* Faulty error path: the failure of create_incident is swallowed.
IncidentSwallowed(w) ==
  /\ handler[w].pc = "incident"
  /\ incidents' \in {incidents, incidents \union {handler[w].dec}}
  /\ Goto(w, "uncertain")
  /\ UNCHANGED <<memory, approvals, orders, exchange>>

CreateIncident(w) ==
  /\ handler[w].pc = "incident"
  /\ incidents' = incidents \union {handler[w].dec}
  /\ Goto(w, "uncertain")
  /\ UNCHANGED <<memory, approvals, orders, exchange>>

-----------------------------------------------------------------------------
(* What else happens to the state                                          *)

\* A database statement fails before it takes effect.
DbFails(w) ==
  /\ \/ handler[w].pc = "verify" /\ Refuse(w)
     \/ handler[w].pc \in {"reserve", "insert"} /\ Goto(w, "unreserved")
     \/ handler[w].pc = "record" /\ Goto(w, "unrecorded")
     \/ handler[w].pc \in {"mark", "incident"} /\ Goto(w, "unmarked")
  /\ UNCHANGED <<memory, approvals, orders, incidents, exchange>>

\* The process dies, and with it its request and its idempotency store; its
\* replacement starts empty.
Crash(w) ==
  /\ Refuse(w)
  /\ intents' = [intents EXCEPT ![w] = {}]
  /\ locks' = [locks EXCEPT ![w] = {}]
  /\ UNCHANGED <<approvals, orders, incidents, exchange>>

\* POST /paper-submit shares the order router but neither reads the database
\* nor reaches the exchange.
PaperSubmit(w, r) ==
  /\ ~Running(w)
  /\ CanBuild(w, r)
  /\ BuildIntent(w, r)
  /\ Refuse(w)
  /\ UNCHANGED <<approvals, orders, incidents, exchange>>

\* POST /api/risk/approve persists a decision, or rejects the signal; it may
\* evaluate a signal again under another idempotency key.
Approve(d) ==
  /\ decisions[d] = "absent"
  /\ decisions' = [decisions EXCEPT ![d] = "fresh"]
  /\ signals' = [signals EXCEPT ![SignalOf[d]] = "APPROVED"]
  /\ UNCHANGED <<handler, memory, orders, incidents, exchange>>

RiskReject(s) ==
  /\ signals' = [signals EXCEPT ![s] = "RISK_REJECTED"]
  /\ UNCHANGED <<handler, memory, decisions, orders, incidents, exchange>>

\* expires_at passes.
Expire(d) ==
  /\ decisions[d] = "fresh"
  /\ decisions' = [decisions EXCEPT ![d] = "expired"]
  /\ UNCHANGED <<handler, memory, signals, orders, incidents, exchange>>

Submit(w) ==
  \/ \E r \in Request : PassGate(w, r)
  \/ Verify(w)
  \/ Build(w)
  \/ LookUp(w)
  \/ InsertConflict(w)
  \/ InsertRefused(w)
  \/ Insert(w)
  \/ PlaceAcked(w)
  \/ PlaceRaises(w)
  \/ Record(w)
  \/ MarkError(w)
  \/ CreateIncident(w)

Environment ==
  \/ \E w \in Workers : DbFails(w) \/ Crash(w)
  \/ \E w \in Workers, r \in Request : PaperSubmit(w, r)
  \/ \E d \in Decisions : Approve(d) \/ Expire(d)
  \/ \E s \in Signals : RiskReject(s)

Next == Environment \/ \E w \in Workers : Submit(w)

Spec == Init /\ [][Next]_vars

-----------------------------------------------------------------------------
(* Properties                                                              *)

\* Whatever processes, retries and restarts do, no decision is POSTed to
\* /v5/order/create twice (execution.py: "a replay makes no second call").
OncePerDecision == \A d \in Decisions : calls[d] <= 1

\* The row is committed before the exchange hears of the order, so after a
\* crash every order the exchange may hold is found in table orders.
ReservedBeforeCall ==
  \A d \in Decisions : calls[d] > 0 => \E row \in orders : row.dec = d

\* Two processes, two keys or two decisions never open two entries on one
\* symbol (one_pending_entry_per_symbol).
OneEntryPerSymbol ==
  \A d, e \in Decisions :
    /\ calls[d] > 0 /\ calls[e] > 0
    /\ SymbolOf[SignalOf[d]] = SymbolOf[SignalOf[e]]
    => d = e

\* A 200 is true: "ok" means that the exchange holds this very order and the
\* row says so, "replay" that the row of the caller's key is the caller's
\* order.
AnswersAreTrue ==
  \A w \in Workers :
    LET h == handler[w]
        Mine(row) == row.key = h.key /\ row.sig = h.sig /\ row.dec = h.dec
    IN  /\ h.pc = "ok" => /\ h.dec \in live
                          /\ \E row \in orders :
                               Mine(row) /\ row.state = "ORDER_SUBMITTED"
        /\ h.pc = "replay" => \E row \in orders : Mine(row)

\* In one process all intents of a symbol have one key: neither the cache
\* nor a paper submit gets around the symbol lock.
SymbolLockHolds ==
  \A w \in Workers : \A i, j \in intents[w] :
    SymbolOf[i.sig] = SymbolOf[j.sig] => i.key = j.key

\* Live submission implements EntryGuard: the row is the reservation, and it
\* is made only while the decision has not expired and the signal is not
\* rejected, however long ago the handler verified them.
Valid == {d \in Decisions : /\ decisions[d] = "fresh"
                            /\ signals[SignalOf[d]] # "RISK_REJECTED"}
Reserved == {d \in Decisions : \E row \in orders : row.dec = d}
Guard == INSTANCE EntryGuard WITH
           SymbolFor <- [d \in Decisions |-> SymbolOf[SignalOf[d]]],
           valid <- Valid, reserved <- Reserved
RefinesEntryGuard == Guard!Spec

\* On either schema every decision by itself is guarded like that: without
\* migration 0003 a symbol may see a second entry once the row of the first
\* has left the index, but a decision is reserved before it expires, and
\* sent once.
DecisionGuard == INSTANCE EntryGuard WITH
                   SymbolFor <- [d \in Decisions |-> d],
                   valid <- {d \in Decisions : decisions[d] = "fresh"},
                   reserved <- Reserved
RefinesDecisionGuard == DecisionGuard!Spec

\* Nobody takes a row back: it stays, for the request it was written for, and
\* its state is written once more at most.  An acknowledgement does not cover
\* an order that waits for reconciliation, however requests are repeated
\* (update_order_submitted, mark_order_error).
RowsMoveForward ==
  [][\A row \in orders : \E new \in orders' :
       /\ new.key = row.key /\ new.sig = row.sig /\ new.dec = row.dec
       /\ row.state # "APPROVED" => new.state = row.state]_vars

\* RUNBOOK.md: after an ambiguous REST failure the order "is moved to
\* ERROR_RECONCILIATION_REQUIRED".
UncertainOrderMarked ==
  \A w \in Workers : handler[w].pc = "unmarked" =>
    \E row \in orders : /\ SameClientOrderId(row, handler[w])
                        /\ row.state = "ERROR_RECONCILIATION_REQUIRED"

\* A 502 is true: the row waits for reconciliation and an incident is open,
\* so that no later request passes the live gate.
UncertainIsReported ==
  \A w \in Workers : handler[w].pc = "uncertain" =>
    /\ handler[w].dec \in incidents
    /\ \E row \in orders : /\ SameClientOrderId(row, handler[w])
                           /\ row.state = "ERROR_RECONCILIATION_REQUIRED"
=============================================================================
