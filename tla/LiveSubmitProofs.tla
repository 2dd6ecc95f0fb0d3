-------------------------- MODULE LiveSubmitProofs --------------------------
(***************************************************************************)
(* What TLAPS proves of LiveSubmit, for every number of processes, keys,   *)
(* signals, decisions and symbols.                                         *)
(***************************************************************************)
EXTENDS LiveSubmit, TLAPS

USE SignalOfAssumption, SymbolOfAssumption, HardInvariantsAssumption

\* Every action keeps the types.
LEMMA TypeStep == TypeOK /\ [Next]_vars => TypeOK'
<1> SUFFICES ASSUME TypeOK, [Next]_vars
             PROVE  TypeOK'
  OBVIOUS
<1> USE DEF TypeOK, Idle, Steps, Answers, memory, approvals, exchange,
            Goto, Refuse, RequestOf
<1>1. ASSUME NEW w \in Workers, NEW r \in Request, PassGate(w, r)
      PROVE  TypeOK'
  BY <1>1 DEF PassGate, Handling, Request
<1>2. ASSUME NEW w \in Workers, Verify(w)
      PROVE  TypeOK'
  BY <1>2 DEF Verify
<1>3. ASSUME NEW w \in Workers, Build(w)
      PROVE  TypeOK'
  BY <1>3 DEF Build, BuildIntent, Request, Lock
<1>4. ASSUME NEW w \in Workers, LookUp(w)
      PROVE  TypeOK'
  BY <1>4 DEF LookUp, AnswerExisting
<1>5. ASSUME NEW w \in Workers, InsertConflict(w)
      PROVE  TypeOK'
  BY <1>5 DEF InsertConflict, AnswerExisting
<1>6. ASSUME NEW w \in Workers, InsertRefused(w)
      PROVE  TypeOK'
  BY <1>6 DEF InsertRefused
<1>7. ASSUME NEW w \in Workers, Insert(w)
      PROVE  TypeOK'
  BY <1>7 DEF Insert, Row, OrderState
<1>8. ASSUME NEW w \in Workers, PlaceAcked(w)
      PROVE  TypeOK'
  BY <1>8 DEF PlaceAcked
<1>9. ASSUME NEW w \in Workers, PlaceRaises(w)
      PROVE  TypeOK'
  BY <1>9 DEF PlaceRaises
<1>10. ASSUME NEW w \in Workers, Record(w)
       PROVE  TypeOK'
  BY <1>10 DEF Record, SetState, Row, OrderState
<1>11. ASSUME NEW w \in Workers, MarkError(w)
       PROVE  TypeOK'
  BY <1>11 DEF MarkError, SetState, Row, OrderState
<1>12. ASSUME NEW w \in Workers, CreateIncident(w)
       PROVE  TypeOK'
  BY <1>12 DEF CreateIncident
<1>13. ASSUME NEW w \in Workers, DbFails(w)
       PROVE  TypeOK'
  BY <1>13 DEF DbFails
<1>14. ASSUME NEW w \in Workers, Crash(w)
       PROVE  TypeOK'
  BY <1>14 DEF Crash
<1>15. ASSUME NEW w \in Workers, NEW r \in Request, PaperSubmit(w, r)
       PROVE  TypeOK'
  BY <1>15 DEF PaperSubmit, BuildIntent, Request, Lock
<1>16. ASSUME NEW d \in Decisions, Approve(d)
       PROVE  TypeOK'
  BY <1>16 DEF Approve
<1>17. ASSUME NEW s \in Signals, RiskReject(s)
       PROVE  TypeOK'
  BY <1>17 DEF RiskReject
<1>18. ASSUME NEW d \in Decisions, Expire(d)
       PROVE  TypeOK'
  BY <1>18 DEF Expire
<1>19. CASE UNCHANGED vars
  BY <1>19 DEF vars
<1>20. QED
  BY <1>1, <1>2, <1>3, <1>4, <1>5, <1>6, <1>7, <1>8, <1>9, <1>10, <1>11,
     <1>12, <1>13, <1>14, <1>15, <1>16, <1>17, <1>18, <1>19
  DEF Next, Submit, Environment

\* Every variable has its type in every reachable state: in particular the
\* handlers, the rows and the order router's memory stay well formed through
\* crashes and failed statements.
THEOREM TypeCorrect == Spec => []TypeOK
<1>1. Init => TypeOK
  BY DEF Init, TypeOK, Idle
<1>2. QED
  BY <1>1, TypeStep, PTL DEF Spec

-----------------------------------------------------------------------------
(* The inductive invariant.  A handler that has inserted its row owns the  *)
(* decision until its next request: the row is there, no other handler     *)
(* owns the decision, and the exchange has not heard of it before "place". *)

Owning == {"place", "record", "mark", "incident", "ok", "uncertain",
           "unrecorded", "unmarked"}
Owns(w, d) == handler[w].pc \in Owning /\ handler[w].dec = d

RowsAreUnique ==
  /\ \A row \in orders : row.sig = SignalOf[row.dec]
  /\ \A p, q \in orders : p.key = q.key => p = q
  /\ \A p, q \in orders : p.dec = q.dec => p = q

OwnersHaveRows ==
  \A w \in Workers : handler[w].pc \in Owning =>
    \E row \in orders : /\ row.key = handler[w].key
                        /\ row.sig = handler[w].sig
                        /\ row.dec = handler[w].dec

OwnersDiffer ==
  \A v, w \in Workers : \A d \in Decisions : Owns(v, d) /\ Owns(w, d) => v = w

NotYetCalled ==
  \A w \in Workers : handler[w].pc = "place" => calls[handler[w].dec] = 0

AckedIsLive ==
  \A w \in Workers : handler[w].pc = "record" => handler[w].dec \in live

Inv == /\ TypeOK
       /\ RowsAreUnique
       /\ OwnersHaveRows
       /\ OwnersDiffer
       /\ NotYetCalled
       /\ AckedIsLive
       /\ OncePerDecision
       /\ ReservedBeforeCall
       /\ AnswersAreTrue

\* A step that touches neither the rows nor the exchange keeps Inv, if each
\* handler stays, gives its ownership up, ends with an error, or answers a
\* replay of its row.
GivesUp(v) == handler'[v].pc \notin Owning \union {"replay"}
EndsInError(v) ==
  /\ handler[v].pc \in Owning
  /\ handler'[v] = [handler[v] EXCEPT !.pc = handler'[v].pc]
  /\ handler'[v].pc \in {"uncertain", "unrecorded", "unmarked"}
AnswersReplay(v) ==
  /\ handler'[v].pc = "replay"
  /\ \E row \in orders : /\ row.key = handler'[v].key
                         /\ row.sig = handler'[v].sig
                         /\ row.dec = handler'[v].dec

LEMMA QuietStep ==
  ASSUME Inv, TypeOK', UNCHANGED <<orders, calls, live>>,
         \A v \in Workers : \/ handler'[v] = handler[v]
                            \/ GivesUp(v)
                            \/ EndsInError(v)
                            \/ AnswersReplay(v)
  PROVE  Inv'
<1> USE DEF Inv, GivesUp, EndsInError, AnswersReplay, Owning
<1>1. RowsAreUnique'
  BY DEF RowsAreUnique
<1>2. OwnersHaveRows'
  BY DEF OwnersHaveRows, TypeOK, Idle, Steps, Answers
<1>3. OwnersDiffer'
  BY DEF OwnersDiffer, Owns, TypeOK, Idle, Steps, Answers
<1>4. NotYetCalled'
  BY DEF NotYetCalled
<1>5. AckedIsLive'
  BY DEF AckedIsLive
<1>6. OncePerDecision' /\ ReservedBeforeCall'
  BY DEF OncePerDecision, ReservedBeforeCall
<1>7. AnswersAreTrue'
  <2>1. ASSUME NEW v \in Workers, handler'[v].pc = "ok"
        PROVE  handler'[v] = handler[v]
    BY <2>1
  <2>2. ASSUME NEW v \in Workers, handler'[v].pc = "replay"
        PROVE  handler'[v] = handler[v] \/ AnswersReplay(v)
    BY <2>2
  <2>3. QED
    BY <2>1, <2>2 DEF AnswersAreTrue
<1>8. QED
  BY <1>1, <1>2, <1>3, <1>4, <1>5, <1>6, <1>7

\* SetState rewrites states only: the same rows are there afterwards, and
\* those of other orders are untouched.
LEMMA SetStateKeepsRows ==
  ASSUME TypeOK, RowsAreUnique, NEW w \in Workers, handler[w].pc \in Owning,
         NEW state \in OrderState, SetState(handler[w], state)
  PROVE  /\ RowsAreUnique'
         /\ \A row \in orders : \E new \in orders' :
              /\ new.key = row.key /\ new.sig = row.sig /\ new.dec = row.dec
              /\ SameClientOrderId(row, handler[w]) => new.state = state
              /\ ~SameClientOrderId(row, handler[w]) => new = row
         /\ \A new \in orders' : \E row \in orders :
              /\ new.key = row.key /\ new.sig = row.sig /\ new.dec = row.dec
              /\ new.state \in {row.state, state}
<1> DEFINE f(row) == IF SameClientOrderId(row, handler[w])
                       THEN [row EXCEPT !.state = state] ELSE row
<1>1. orders' = {f(row) : row \in orders}
  BY DEF SetState
<1>2. ASSUME NEW row \in orders
      PROVE  /\ f(row).key = row.key /\ f(row).sig = row.sig
             /\ f(row).dec = row.dec
             /\ SameClientOrderId(row, handler[w]) => f(row).state = state
             /\ ~SameClientOrderId(row, handler[w]) => f(row) = row
             /\ f(row).state \in {row.state, state}
  BY DEF TypeOK, Row
<1> HIDE DEF f
<1>3. RowsAreUnique'
  BY <1>1, <1>2 DEF RowsAreUnique
<1>4. QED
  BY <1>1, <1>2, <1>3

\* Init and every step of LiveSubmit keep Inv.
LEMMA InvInit == Init => Inv
BY DEF Init, Inv, TypeOK, Idle, Owning, Owns, RowsAreUnique, OwnersHaveRows,
       OwnersDiffer, NotYetCalled, AckedIsLive, OncePerDecision,
       ReservedBeforeCall, AnswersAreTrue

LEMMA InvStep == Inv /\ [Next]_vars => Inv'
<1> SUFFICES ASSUME Inv, [Next]_vars
             PROVE  Inv'
  OBVIOUS
<1>0. TypeOK /\ TypeOK'
  BY TypeStep DEF Inv
<1> USE DEF memory, approvals, exchange
\* Steps of a handler that does not own a row afterwards, or still owns its own.
<1>1. ASSUME NEW w \in Workers, NEW r \in Request, PassGate(w, r)
      PROVE  Inv'
  BY <1>0, <1>1, QuietStep DEF PassGate, Handling, TypeOK, GivesUp, Owning
<1>2. ASSUME NEW w \in Workers, Verify(w) \/ Build(w) \/ Crash(w)
      PROVE  Inv'
  BY <1>0, <1>2, QuietStep
  DEF Verify, Build, Crash, Goto, Refuse, TypeOK, GivesUp, Owning, Idle, Steps
<1>3. ASSUME NEW w \in Workers, LookUp(w) \/ InsertConflict(w)
      PROVE  Inv'
  BY <1>0, <1>3, QuietStep
  DEF LookUp, InsertConflict, AnswerExisting, SameClientOrderId, Goto, Refuse,
      TypeOK, GivesUp, AnswersReplay, Owning, Idle
<1>4. ASSUME NEW w \in Workers, InsertRefused(w)
      PROVE  Inv'
  BY <1>0, <1>4, QuietStep DEF InsertRefused, Goto, TypeOK, GivesUp, Owning, Idle
<1>5. ASSUME NEW w \in Workers, CreateIncident(w) \/ DbFails(w)
      PROVE  Inv'
  BY <1>0, <1>5, QuietStep
  DEF CreateIncident, DbFails, Goto, Refuse, TypeOK, GivesUp, EndsInError,
      Owning, Idle
<1>6. ASSUME NEW w \in Workers, NEW r \in Request, PaperSubmit(w, r)
      PROVE  Inv'
  BY <1>0, <1>6, QuietStep DEF PaperSubmit, Refuse, TypeOK, GivesUp, Owning, Idle
<1>7. ASSUME \/ \E d \in Decisions : Approve(d) \/ Expire(d)
             \/ \E s \in Signals : RiskReject(s)
             \/ UNCHANGED vars
      PROVE  Inv'
  BY <1>0, <1>7, QuietStep DEF Approve, Expire, RiskReject, vars
\* A new row: its decision has no row, so nobody owns it or has called it.
<1>8. ASSUME NEW w \in Workers, Insert(w)
      PROVE  Inv'
  <2> DEFINE h == handler[w]
  <2> DEFINE new == [key |-> h.key, sig |-> h.sig, dec |-> h.dec,
                     state |-> "APPROVED"]
  <2> DEFINE h2 == handler'[w]
  <2>1. /\ orders' = orders \union {new}
        /\ UNCHANGED <<calls, live>>
        /\ \A v \in Workers \ {w} : handler'[v] = handler[v]
        /\ h.pc = "insert"
        /\ h2.pc \in {"place", "unreserved"}
        /\ h2.key = h.key /\ h2.sig = h.sig /\ h2.dec = h.dec
        /\ h.dec \in Decisions /\ h.sig = SignalOf[h.dec]
    BY <1>0, <1>8 DEF Insert, Goto, TypeOK, TriggerAccepts, Idle
  <2>2. \A row \in orders : row.key # h.key /\ row.dec # h.dec
    BY <1>0, <1>8, <2>1
    DEF Insert, UniqueIndexesAccept, SameClientOrderId, Inv, RowsAreUnique
  <2> HIDE DEF h, h2
  <2>3. RowsAreUnique'
    BY <2>1, <2>2 DEF Inv, RowsAreUnique
  <2>4. OwnersHaveRows'
    <3>1. new \in orders' /\ new.key = h2.key /\ new.sig = h2.sig /\ new.dec = h2.dec
      BY <2>1
    <3>2. \A v \in Workers \ {w} : handler'[v].pc \in Owning =>
            \E row \in orders' : /\ row.key = handler'[v].key
                                 /\ row.sig = handler'[v].sig
                                 /\ row.dec = handler'[v].dec
      BY <2>1 DEF Inv, OwnersHaveRows
    <3>3. QED
      BY <3>1, <3>2 DEF OwnersHaveRows, h2
  <2>5. OwnersDiffer'
    <3>1. \A v \in Workers \ {w} : handler'[v].pc \in Owning =>
            handler'[v].dec # h.dec
      BY <2>1, <2>2 DEF Inv, OwnersHaveRows
    <3>2. handler'[w].dec = h.dec
      BY <2>1 DEF h2
    <3>3. QED
      BY <2>1, <3>1, <3>2 DEF Inv, OwnersDiffer, Owns
  <2>6. NotYetCalled'
    BY <1>0, <2>1, <2>2
    DEF Inv, NotYetCalled, ReservedBeforeCall, TypeOK, h2
  <2>7. AckedIsLive' /\ OncePerDecision' /\ ReservedBeforeCall'
    BY <2>1 DEF Inv, AckedIsLive, OncePerDecision, ReservedBeforeCall, h2
  <2>8. AnswersAreTrue'
    BY <2>1 DEF Inv, AnswersAreTrue, h2
  <2>9. QED
    BY <1>0, <2>3, <2>4, <2>5, <2>6, <2>7, <2>8 DEF Inv
\* The call: the caller owns the decision, so it is the first call.
<1>9. ASSUME NEW w \in Workers, PlaceAcked(w) \/ PlaceRaises(w)
      PROVE  Inv'
  <2> DEFINE h == handler[w]
  <2> DEFINE h2 == handler'[w]
  <2>1. /\ UNCHANGED orders
        /\ \A v \in Workers \ {w} : handler'[v] = handler[v]
        /\ h.pc = "place" /\ h.dec \in Decisions
        /\ h2.key = h.key /\ h2.sig = h.sig /\ h2.dec = h.dec
        /\ \/ h2.pc = "record" /\ h.dec \in live'
           \/ h2.pc = "mark"
        /\ live \subseteq live'
        /\ calls' \in {calls, [calls EXCEPT ![h.dec] = @ + 1]}
    BY <1>0, <1>9 DEF PlaceAcked, PlaceRaises, Goto, TypeOK, Idle
  <2>2. calls[h.dec] = 0 /\ Owns(w, h.dec)
    BY <2>1 DEF Inv, NotYetCalled, Owns, Owning
  <2> HIDE DEF h, h2
  <2>3. RowsAreUnique' /\ OwnersHaveRows'
    BY <2>1 DEF Inv, RowsAreUnique, OwnersHaveRows, Owning, h, h2
  <2>4. OwnersDiffer'
    BY <2>1, <2>2 DEF Inv, OwnersDiffer, Owns, Owning, h, h2
  <2>5. NotYetCalled'
    <3> SUFFICES ASSUME NEW v \in Workers, handler'[v].pc = "place"
                 PROVE  calls'[handler'[v].dec] = 0
      BY DEF NotYetCalled
    <3>1. v # w /\ handler'[v] = handler[v]
      BY <2>1 DEF h2
    <3>2. handler[v].dec \in Decisions /\ handler[v].dec # h.dec
      BY <1>0, <2>1, <2>2, <3>1 DEF Inv, OwnersDiffer, Owns, Owning, TypeOK, Idle
    <3>3. QED
      BY <1>0, <2>1, <3>1, <3>2 DEF Inv, NotYetCalled, TypeOK
  <2>6. AckedIsLive'
    BY <2>1 DEF Inv, AckedIsLive, h2
  <2>7. OncePerDecision'
    BY <1>0, <2>1, <2>2 DEF Inv, OncePerDecision, TypeOK
  <2>8. ReservedBeforeCall'
    BY <1>0, <2>1, <2>2
    DEF Inv, ReservedBeforeCall, OwnersHaveRows, Owns, TypeOK, h
  <2>9. AnswersAreTrue'
    BY <2>1 DEF Inv, AnswersAreTrue, h2
  <2>10. QED
    BY <1>0, <2>3, <2>4, <2>5, <2>6, <2>7, <2>8, <2>9 DEF Inv
\* The two updates of a row by its owner.
<1>10. ASSUME NEW w \in Workers, Record(w) \/ MarkError(w)
       PROVE  Inv'
  <2> DEFINE h == handler[w]
  <2> DEFINE h2 == handler'[w]
  <2>1. CASE h2.pc \in {"unrecorded", "unmarked"}
    <3>1. EndsInError(w) /\ UNCHANGED orders
      BY <1>0, <1>10, <2>1
      DEF Record, MarkError, Goto, TypeOK, EndsInError, Owning, Idle
    <3>2. QED
      BY <1>0, <1>10, <3>1, QuietStep DEF Record, MarkError, Goto, TypeOK
  <2>2. CASE h2.pc \notin {"unrecorded", "unmarked"}
    <3>1. PICK state \in OrderState :
            /\ SetState(h, state)
            /\ \/ h.pc = "record" /\ h2.pc = "ok" /\ state = "ORDER_SUBMITTED"
               \/ h.pc = "mark" /\ h2.pc = "incident"
      BY <1>0, <1>10, <2>2 DEF Record, MarkError, Goto, TypeOK, OrderState, Idle
    <3>2. /\ UNCHANGED <<calls, live>>
          /\ \A v \in Workers \ {w} : handler'[v] = handler[v]
          /\ h.dec \in Decisions
          /\ h2.key = h.key /\ h2.sig = h.sig /\ h2.dec = h.dec
          /\ h.pc \in Owning /\ h2.pc \in Owning
      BY <1>0, <1>10, <3>1
      DEF Record, MarkError, Goto, TypeOK, Owning, Steps, Answers, Idle
    <3>3. /\ RowsAreUnique'
          /\ \A row \in orders : \E new \in orders' :
               /\ new.key = row.key /\ new.sig = row.sig /\ new.dec = row.dec
               /\ SameClientOrderId(row, h) => new.state = state
               /\ ~SameClientOrderId(row, h) => new = row
      BY <1>0, <3>1, <3>2, SetStateKeepsRows DEF Inv
    <3> HIDE DEF h, h2
    <3>4. OwnersHaveRows'
      BY <3>2, <3>3 DEF Inv, OwnersHaveRows, h, h2
    <3>5. OwnersDiffer'
      BY <3>2 DEF Inv, OwnersDiffer, Owns, h, h2
    <3>6. NotYetCalled' /\ AckedIsLive'
      BY <3>1, <3>2 DEF Inv, NotYetCalled, AckedIsLive, h, h2
    <3>7. OncePerDecision' /\ ReservedBeforeCall'
      BY <3>2, <3>3 DEF Inv, OncePerDecision, ReservedBeforeCall
    <3>8. AnswersAreTrue'
      <4> DEFINE Mine(g, row) == row.key = g.key /\ row.sig = g.sig /\ row.dec = g.dec
      <4>1. ASSUME NEW v \in Workers, handler'[v].pc = "replay"
            PROVE  \E row \in orders' : Mine(handler'[v], row)
        BY <3>1, <3>2, <3>3, <4>1 DEF Inv, AnswersAreTrue, h2
      <4>2. ASSUME NEW v \in Workers \ {w}, handler'[v].pc = "ok"
            PROVE  /\ handler'[v].dec \in live'
                   /\ \E row \in orders' : Mine(handler'[v], row)
                                         /\ row.state = "ORDER_SUBMITTED"
        <5>1. handler'[v] = handler[v] /\ handler[v].dec \in Decisions
          BY <1>0, <3>2, <4>2 DEF TypeOK, Idle
        <5>2. handler[v].dec # h.dec
          BY <3>2, <4>2, <5>1 DEF Inv, OwnersDiffer, Owns, Owning, h
        <5>3. QED
          BY <3>2, <3>3, <4>2, <5>1, <5>2
          DEF Inv, AnswersAreTrue, SameClientOrderId
      <4>3. ASSUME h2.pc = "ok"
            PROVE  /\ h2.dec \in live'
                   /\ \E row \in orders' : Mine(h2, row)
                                         /\ row.state = "ORDER_SUBMITTED"
        BY <3>1, <3>2, <3>3, <4>3
        DEF Inv, AckedIsLive, OwnersHaveRows, SameClientOrderId, h
      <4>4. QED
        BY <4>1, <4>2, <4>3 DEF AnswersAreTrue, h2
    <3>9. QED
      BY <1>0, <3>3, <3>4, <3>5, <3>6, <3>7, <3>8 DEF Inv
  <2>3. QED
    BY <2>1, <2>2
<1>11. QED
  BY <1>1, <1>2, <1>3, <1>4, <1>5, <1>6, <1>7, <1>8, <1>9, <1>10
  DEF Next, Submit, Environment

\* Whatever processes, retries, crashes and failed statements do, with or
\* without migration 0003, no decision is sent to the exchange twice.
THEOREM AtMostOneCall == Spec => []OncePerDecision
<1>1. Inv => OncePerDecision
  BY DEF Inv
<1>2. QED
  BY InvInit, InvStep, <1>1, PTL DEF Spec

\* The order row is written ahead of the exchange call and never lost.
THEOREM WriteAhead == Spec => []ReservedBeforeCall
<1>1. Inv => ReservedBeforeCall
  BY DEF Inv
<1>2. QED
  BY InvInit, InvStep, <1>1, PTL DEF Spec

\* A 200 answer, of a submit or of a replay, is true for as long as it is the
\* handler's last answer.
THEOREM TrueAnswers == Spec => []AnswersAreTrue
<1>1. Inv => AnswersAreTrue
  BY DEF Inv
<1>2. QED
  BY InvInit, InvStep, <1>1, PTL DEF Spec

-----------------------------------------------------------------------------
(* With migration 0003 no entry row ever leaves the partial index, so its  *)
(* uniqueness makes the symbol exclusive and the rows reservations.        *)

SymbolsAreReserved ==
  /\ \A row \in orders : Pending(row)
  /\ \A p, q \in orders : SymbolOf[p.sig] = SymbolOf[q.sig] => p = q

\* How a step of LiveSubmit changes the table orders.
LEMMA RowSteps ==
  ASSUME Inv, HardInvariants, [Next]_vars
  PROVE  \/ UNCHANGED orders
         \/ \E w \in Workers : Insert(w)
         \/ \E w \in Workers : /\ handler[w].pc \in Owning
                              /\ SetState(handler[w], "ORDER_SUBMITTED")
<1>1. ASSUME NEW w \in Workers, MarkError(w)
      PROVE  UNCHANGED orders
  BY <1>1 DEF MarkError, UpdateAccepted, TriggerAccepts
<1>2. ASSUME NEW w \in Workers, Record(w)
      PROVE  \/ UNCHANGED orders
             \/ /\ handler[w].pc \in Owning
                /\ SetState(handler[w], "ORDER_SUBMITTED")
  BY <1>2 DEF Record, Owning
<1>3. QED
  BY <1>1, <1>2
  DEF Next, Submit, Environment, vars, PassGate, Verify, Build, LookUp,
      InsertConflict, InsertRefused, PlaceAcked, PlaceRaises, CreateIncident,
      DbFails, Crash, PaperSubmit, Approve, RiskReject, Expire

LEMMA SymbolStep ==
  ASSUME Inv, HardInvariants, SymbolsAreReserved, [Next]_vars
  PROVE  SymbolsAreReserved'
<1>1. CASE UNCHANGED orders
  BY <1>1 DEF SymbolsAreReserved, Pending
<1>2. ASSUME NEW w \in Workers, Insert(w)
      PROVE  SymbolsAreReserved'
  BY <1>2 DEF SymbolsAreReserved, Pending, Insert, UniqueIndexesAccept
<1>3. ASSUME NEW w \in Workers, handler[w].pc \in Owning,
             SetState(handler[w], "ORDER_SUBMITTED")
      PROVE  SymbolsAreReserved'
  <2>1. \A new \in orders' : \E row \in orders :
          /\ new.key = row.key /\ new.sig = row.sig
          /\ new.state \in {row.state, "ORDER_SUBMITTED"}
    BY <1>3, SetStateKeepsRows DEF Inv, OrderState
  <2>2. \A p, q \in orders' : p.key = q.key => p = q
    BY <1>3, SetStateKeepsRows DEF Inv, OrderState, RowsAreUnique
  <2>3. QED
    BY <2>1, <2>2 DEF SymbolsAreReserved, Pending
<1>4. QED
  BY <1>1, <1>2, <1>3, RowSteps

\* On the deployed schema two processes, keys or decisions never open two
\* entries on one symbol.
THEOREM OneEntry ==
  ASSUME HardInvariants
  PROVE  Spec => []OneEntryPerSymbol
<1>1. Init => Inv /\ SymbolsAreReserved
  BY InvInit DEF Init, SymbolsAreReserved
<1>2. Inv /\ SymbolsAreReserved /\ [Next]_vars => (Inv /\ SymbolsAreReserved)'
  BY InvStep, SymbolStep
<1>3. Inv /\ SymbolsAreReserved => OneEntryPerSymbol
  BY DEF Inv, SymbolsAreReserved, OneEntryPerSymbol, ReservedBeforeCall,
         RowsAreUnique
<1>4. QED
  BY <1>1, <1>2, <1>3, PTL DEF Spec

\* What a step does to reservations and calls, on either schema: a new row,
\* the first call for a row, or nothing.
Reserves(d) ==
  /\ d \in Decisions \ Reserved
  /\ Reserved' = Reserved \union {d}
  /\ decisions[d] = "fresh"
  /\ HardInvariants => signals[SignalOf[d]] # "RISK_REJECTED"
  /\ \A row \in orders : Pending(row) => SymbolOf[row.sig] # SymbolOf[SignalOf[d]]
  /\ UNCHANGED <<decisions, signals, calls>>
FirstCall(d) ==
  /\ d \in Reserved
  /\ calls[d] = 0
  /\ calls' = [calls EXCEPT ![d] = 1]
  /\ UNCHANGED <<decisions, signals, Reserved>>

LEMMA OrderSteps ==
  ASSUME Inv, [Next]_vars
  PROVE  \/ \E d \in Decisions : Reserves(d) \/ FirstCall(d)
         \/ UNCHANGED <<Reserved, calls>>
<1> USE DEF memory, approvals, exchange
<1>1. ASSUME NEW w \in Workers, Insert(w)
      PROVE  \E d \in Decisions : Reserves(d)
  <2> DEFINE d == handler[w].dec
             new == [key |-> handler[w].key, sig |-> handler[w].sig,
                     dec |-> d, state |-> "APPROVED"]
  <2>1. /\ d \in Decisions /\ SignalOf[d] = handler[w].sig /\ decisions[d] = "fresh"
        /\ HardInvariants => signals[SignalOf[d]] # "RISK_REJECTED"
    BY <1>1 DEF Insert, TriggerAccepts, Inv, TypeOK, Idle
  <2>2. /\ \A row \in orders : row.dec # d
        /\ \A row \in orders : Pending(row) => SymbolOf[row.sig] # SymbolOf[SignalOf[d]]
    BY <1>1, <2>1
    DEF Insert, UniqueIndexesAccept, SameClientOrderId, Inv, RowsAreUnique
  <2>3. Reserved' = Reserved \union {d}
    <3>1. orders' = orders \union {new} /\ new.dec = d
      BY <1>1 DEF Insert
    <3> HIDE DEF new, d
    <3>2. QED
      BY <2>1, <3>1 DEF Reserved
  <2>4. UNCHANGED <<decisions, signals, calls>>
    BY <1>1 DEF Insert
  <2> HIDE DEF d
  <2>5. QED
    BY <2>1, <2>2, <2>3, <2>4 DEF Reserves, Reserved
<1>2. ASSUME NEW w \in Workers, PlaceAcked(w) \/ PlaceRaises(w)
      PROVE  \/ \E d \in Decisions : FirstCall(d)
             \/ UNCHANGED <<Reserved, calls>>
  <2> DEFINE d == handler[w].dec
  <2>1. /\ UNCHANGED <<decisions, signals, orders>>
        /\ calls' \in {calls, [calls EXCEPT ![d] = @ + 1]}
    BY <1>2 DEF PlaceAcked, PlaceRaises
  <2>2. d \in Reserved /\ calls[d] = 0 /\ d \in Decisions
    BY <1>2
    DEF PlaceAcked, PlaceRaises, Inv, TypeOK, Idle, NotYetCalled,
        OwnersHaveRows, Owning, Reserved
  <2>3. UNCHANGED Reserved
    BY <2>1 DEF Reserved
  <2>4. CASE calls' = [calls EXCEPT ![d] = @ + 1]
    <3>1. calls' = [calls EXCEPT ![d] = 1]
      BY <2>2, <2>4
    <3>2. FirstCall(d)
      BY <2>1, <2>2, <2>3, <3>1 DEF FirstCall
    <3>3. QED
      BY <2>2, <3>2
  <2>5. QED
    BY <2>1, <2>3, <2>4
<1>3. ASSUME NEW w \in Workers, Record(w) \/ MarkError(w)
      PROVE  UNCHANGED <<Reserved, calls>>
  <2>1. UNCHANGED calls
    BY <1>3 DEF Record, MarkError
  <2>2. CASE UNCHANGED orders
    BY <2>1, <2>2 DEF Reserved
  <2>3. ASSUME NEW state \in OrderState, SetState(handler[w], state)
        PROVE  UNCHANGED Reserved
    <3>1. handler[w].pc \in Owning
      BY <1>3 DEF Record, MarkError, Owning
    <3>2. /\ \A row \in orders : \E new \in orders' : new.dec = row.dec
          /\ \A new \in orders' : \E row \in orders : new.dec = row.dec
      BY <2>3, <3>1, SetStateKeepsRows DEF Inv
    <3>3. QED
      BY <3>2 DEF Reserved
  <2>4. QED
    BY <1>3, <2>1, <2>2, <2>3 DEF Record, MarkError, OrderState
<1>4. ASSUME UNCHANGED <<orders, calls>>
      PROVE  UNCHANGED <<Reserved, calls>>
  BY <1>4 DEF Reserved
<1>5. QED
  BY <1>1, <1>2, <1>3, <1>4
  DEF Next, Submit, Environment, vars, PassGate, Verify, Build, LookUp,
      InsertConflict, InsertRefused, CreateIncident, DbFails, Crash,
      PaperSubmit, Approve, RiskReject, Expire

\* On the deployed schema live submission implements EntryGuard: an INSERT is
\* the reservation, an exchange call the call, all else stutters or changes
\* which decisions are valid.
THEOREM Refinement ==
  ASSUME HardInvariants
  PROVE  Spec => RefinesEntryGuard
<1> DEFINE IInv == Inv /\ SymbolsAreReserved
<1>1. Init => IInv
  BY InvInit DEF Init, SymbolsAreReserved
<1>2. IInv /\ [Next]_vars => IInv'
  BY InvStep, SymbolStep
<1>3. Init => Guard!Init
  BY DEF Init, Guard!Init, Valid, Reserved
<1>4. IInv /\ [Next]_vars => [Guard!Next]_(Guard!vars)
  <2> SUFFICES ASSUME IInv, [Next]_vars
               PROVE  Guard!Next
    OBVIOUS
  <2>1. ASSUME NEW d \in Decisions, Reserves(d)
        PROVE  Guard!Reserve(d)
    <3>1. d \in Valid /\ Valid' = Valid
      BY <2>1 DEF Reserves, Valid
    <3>2. \A e \in Reserved : SymbolOf[SignalOf[e]] # SymbolOf[SignalOf[d]]
      BY <2>1 DEF Reserves, Reserved, SymbolsAreReserved, Inv, RowsAreUnique
    <3>3. QED
      BY <2>1, <3>1, <3>2 DEF Reserves, Guard!Reserve, Reserved
  <2>2. ASSUME NEW d \in Decisions, FirstCall(d)
        PROVE  Guard!Call(d)
    BY <2>2 DEF FirstCall, Guard!Call, Valid
  <2>3. ASSUME UNCHANGED <<Reserved, calls>>
        PROVE  Guard!Revalue
    BY <2>3 DEF Guard!Revalue, Valid
  <2>4. QED
    BY <2>1, <2>2, <2>3, OrderSteps DEF Guard!Next
<1>5. QED
  BY <1>1, <1>2, <1>3, <1>4, PTL DEF Spec, RefinesEntryGuard, Guard!Spec

\* On either schema, also on a database that stopped at 0001, each decision
\* by itself is reserved before it expires and sent once.
THEOREM DecisionsAreGuarded == Spec => RefinesDecisionGuard
<1>1. Init => DecisionGuard!Init
  BY DEF Init, DecisionGuard!Init, Reserved
<1>2. Inv /\ [Next]_vars => [DecisionGuard!Next]_(DecisionGuard!vars)
  <2> SUFFICES ASSUME Inv, [Next]_vars
               PROVE  DecisionGuard!Next
    OBVIOUS
  <2>1. ASSUME NEW d \in Decisions, Reserves(d)
        PROVE  DecisionGuard!Reserve(d)
    BY <2>1 DEF Reserves, DecisionGuard!Reserve, Reserved
  <2>2. ASSUME NEW d \in Decisions, FirstCall(d)
        PROVE  DecisionGuard!Call(d)
    BY <2>2 DEF FirstCall, DecisionGuard!Call
  <2>3. ASSUME UNCHANGED <<Reserved, calls>>
        PROVE  DecisionGuard!Revalue
    BY <2>3 DEF DecisionGuard!Revalue
  <2>4. QED
    BY <2>1, <2>2, <2>3, OrderSteps DEF DecisionGuard!Next
<1>3. QED
  BY InvInit, InvStep, <1>1, <1>2, PTL
  DEF Spec, RefinesDecisionGuard, DecisionGuard!Spec

-----------------------------------------------------------------------------
(* The life of a row.  While its owner has not written the outcome, a row  *)
(* is APPROVED, and only its owner writes it.                              *)

OutcomeIsOpen ==
  \A w \in Workers : handler[w].pc \in {"place", "record", "mark"} =>
    \A row \in orders : row.dec = handler[w].dec => row.state = "APPROVED"

\* A step that writes no row, and takes no handler to a row but on its way
\* from the call to the outcome.
LEMMA OpenKept ==
  ASSUME OutcomeIsOpen, UNCHANGED orders,
         \A w \in Workers : handler'[w].pc \in {"place", "record", "mark"} =>
           \/ handler'[w] = handler[w]
           \/ handler[w].pc = "place" /\ handler'[w].dec = handler[w].dec
  PROVE  OutcomeIsOpen'
BY DEF OutcomeIsOpen

LEMMA OpenStep ==
  ASSUME Inv, OutcomeIsOpen, [Next]_vars
  PROVE  OutcomeIsOpen'
<1>0. TypeOK
  BY DEF Inv
<1> USE DEF memory, approvals, exchange
<1>1. ASSUME NEW w \in Workers,
             \/ \E r \in Request : PassGate(w, r) \/ PaperSubmit(w, r)
             \/ Verify(w) \/ Build(w) \/ LookUp(w) \/ InsertConflict(w)
             \/ InsertRefused(w) \/ CreateIncident(w) \/ DbFails(w) \/ Crash(w)
      PROVE  OutcomeIsOpen'
  BY <1>0, <1>1, OpenKept
  DEF PassGate, PaperSubmit, Verify, Build, LookUp, InsertConflict, InsertRefused,
      CreateIncident, DbFails, Crash, AnswerExisting, Handling, Goto, Refuse,
      Idle, TypeOK
<1>2. ASSUME NEW w \in Workers, PlaceAcked(w) \/ PlaceRaises(w)
      PROVE  OutcomeIsOpen'
  BY <1>0, <1>2, OpenKept DEF PlaceAcked, PlaceRaises, Goto, Idle, TypeOK
<1>3. ASSUME NEW w \in Workers, Insert(w)
      PROVE  OutcomeIsOpen'
  <2> DEFINE new == [key |-> handler[w].key, sig |-> handler[w].sig,
                     dec |-> handler[w].dec, state |-> "APPROVED"]
  <2>1. /\ orders' = orders \union {new}
        /\ new.state = "APPROVED" /\ new.dec = handler[w].dec
        /\ \A row \in orders : row.dec # handler[w].dec
        /\ \A v \in Workers \ {w} : handler'[v] = handler[v]
        /\ handler'[w].dec = handler[w].dec
    BY <1>0, <1>3
    DEF Insert, TriggerAccepts, UniqueIndexesAccept, SameClientOrderId, Inv,
        RowsAreUnique, Goto, Idle, TypeOK
  <2> HIDE DEF new
  <2>2. \A v \in Workers \ {w} : handler[v].pc \in Owning =>
          handler[v].dec # handler[w].dec
    BY <2>1 DEF Inv, OwnersHaveRows
  <2>3. QED
    BY <2>1, <2>2 DEF OutcomeIsOpen, Owning
<1>4. ASSUME NEW w \in Workers, Record(w) \/ MarkError(w)
      PROVE  OutcomeIsOpen'
  <2>1. /\ handler[w].pc \in Owning /\ handler[w].dec \in Decisions
        /\ handler'[w].pc \notin {"place", "record", "mark"}
        /\ \A v \in Workers \ {w} : handler'[v] = handler[v]
    BY <1>0, <1>4 DEF Record, MarkError, Owning, Goto, Idle, TypeOK
  <2>2. \A v \in Workers \ {w} : handler[v].pc \in {"place", "record", "mark"} =>
          handler[v].dec # handler[w].dec
    BY <1>0, <2>1 DEF Inv, OwnersDiffer, Owns, Owning, TypeOK, Idle
  <2>3. CASE UNCHANGED orders
    BY <2>1, <2>3 DEF OutcomeIsOpen
  <2>4. ASSUME NEW state \in OrderState, SetState(handler[w], state)
        PROVE  OutcomeIsOpen'
    <3>1. \A new \in orders' : new \in orders \/ new.dec = handler[w].dec
      BY <1>0, <2>4 DEF SetState, SameClientOrderId, TypeOK, Row
    <3>2. QED
      BY <2>1, <2>2, <3>1 DEF OutcomeIsOpen
  <2>5. QED
    BY <1>4, <2>3, <2>4 DEF Record, MarkError, OrderState
<1>5. ASSUME \/ \E d \in Decisions : Approve(d) \/ Expire(d)
             \/ \E s \in Signals : RiskReject(s)
             \/ UNCHANGED vars
      PROVE  OutcomeIsOpen'
  BY <1>5, OpenKept DEF Approve, Expire, RiskReject, vars
<1>6. QED
  BY <1>1, <1>2, <1>3, <1>4, <1>5 DEF Next, Submit, Environment

\* A row stays, for its request, and what was written of its order is final:
\* on either schema, for every number of processes, keys and decisions.
THEOREM RowsAreFinal == Spec => RowsMoveForward
<1> DEFINE IInv == Inv /\ OutcomeIsOpen
           Forward == \A row \in orders : \E new \in orders' :
             /\ new.key = row.key /\ new.sig = row.sig /\ new.dec = row.dec
             /\ row.state # "APPROVED" => new.state = row.state
<1>1. Init => IInv
  BY InvInit DEF Init, OutcomeIsOpen, Idle
<1>2. IInv /\ [Next]_vars => IInv'
  BY InvStep, OpenStep
<1>3. IInv /\ [Next]_vars => Forward
  <2> SUFFICES ASSUME IInv, [Next]_vars
               PROVE  Forward
    OBVIOUS
  <2> USE DEF memory, approvals, exchange
  <2>1. CASE orders \subseteq orders'
    BY <2>1
  <2>2. ASSUME NEW w \in Workers, handler[w].pc \in {"record", "mark"},
               NEW state \in OrderState, SetState(handler[w], state)
        PROVE  Forward
    <3>1. \A row \in orders : SameClientOrderId(row, handler[w]) =>
            row.state = "APPROVED"
      BY <2>2 DEF OutcomeIsOpen, SameClientOrderId
    <3>2. QED
      BY <2>2, <3>1, SetStateKeepsRows DEF Inv, Owning
  <2>3. ASSUME NEW w \in Workers, Record(w) \/ MarkError(w)
        PROVE  Forward
    <3>1. CASE UNCHANGED orders
      BY <2>1, <3>1
    <3>2. CASE \E state \in OrderState : SetState(handler[w], state)
      BY <2>2, <2>3, <3>2 DEF Record, MarkError
    <3>3. QED
      BY <2>3, <3>1, <3>2 DEF Record, MarkError, OrderState
  <2>4. QED
    <3> HIDE DEF Forward
    <3>1. QED
      BY <2>1, <2>3
      DEF Next, Submit, Environment, vars, PassGate, Verify, Build, LookUp,
          InsertConflict, InsertRefused, Insert, PlaceAcked, PlaceRaises,
          CreateIncident, DbFails, Crash, PaperSubmit, Approve, RiskReject, Expire
<1>4. QED
  BY <1>1, <1>2, <1>3, PTL DEF Spec, RowsMoveForward

-----------------------------------------------------------------------------
(* The 502.  Once a row waits for reconciliation no other handler owns its *)
(* decision, so nobody writes it again while the answer stands.            *)

Marked(w) ==
  \E row \in orders : /\ SameClientOrderId(row, handler[w])
                     /\ row.state = "ERROR_RECONCILIATION_REQUIRED"
Reported ==
  \A w \in Workers :
    /\ handler[w].pc \in {"incident", "uncertain"} => Marked(w)
    /\ handler[w].pc = "uncertain" => handler[w].dec \in incidents

\* A step that keeps the rows there are and leaves each handler alone, takes
\* it elsewhere, or opens its incident.
LEMMA ReportKept ==
  ASSUME Reported, orders \subseteq orders', incidents \subseteq incidents',
         \A v \in Workers :
           \/ handler'[v] = handler[v]
           \/ handler'[v].pc \notin {"incident", "uncertain"}
           \/ /\ handler[v].pc = "incident" /\ handler'[v].dec \in incidents'
              /\ handler'[v].sig = handler[v].sig /\ handler'[v].dec = handler[v].dec
  PROVE  Reported'
<1> SUFFICES ASSUME NEW v \in Workers, handler'[v].pc \in {"incident", "uncertain"}
             PROVE  /\ \E row \in orders' :
                         /\ SameClientOrderId(row, handler'[v])
                         /\ row.state = "ERROR_RECONCILIATION_REQUIRED"
                    /\ handler'[v].pc = "uncertain" => handler'[v].dec \in incidents'
  BY DEF Reported, Marked, SameClientOrderId
<1>1. Marked(v) /\ (handler[v].pc = "uncertain" => handler[v].dec \in incidents)
  BY DEF Reported
<1> QED
  BY <1>1 DEF Marked, SameClientOrderId

LEMMA ReportedStep ==
  ASSUME Inv, Reported, [Next]_vars
  PROVE  Reported'
<1>0. TypeOK
  BY DEF Inv
<1> USE DEF memory, approvals, exchange
<1>1. ASSUME NEW w \in Workers, NEW r \in Request, PassGate(w, r) \/ PaperSubmit(w, r)
      PROVE  Reported'
  BY <1>0, <1>1, ReportKept DEF PassGate, PaperSubmit, Handling, Refuse, Idle, TypeOK
<1>2. ASSUME NEW w \in Workers, Verify(w) \/ Build(w) \/ Crash(w) \/ DbFails(w)
      PROVE  Reported'
  BY <1>0, <1>2, ReportKept
  DEF Verify, Build, Crash, DbFails, Goto, Refuse, Idle, TypeOK
<1>3. ASSUME NEW w \in Workers, LookUp(w) \/ InsertConflict(w) \/ InsertRefused(w)
      PROVE  Reported'
  BY <1>0, <1>3, ReportKept
  DEF LookUp, InsertConflict, InsertRefused, AnswerExisting, Goto, Refuse, Idle, TypeOK
<1>4. ASSUME NEW w \in Workers, Insert(w) \/ PlaceAcked(w) \/ PlaceRaises(w)
      PROVE  Reported'
  BY <1>0, <1>4, ReportKept DEF Insert, PlaceAcked, PlaceRaises, Goto, Idle, TypeOK
<1>5. ASSUME NEW w \in Workers, CreateIncident(w)
      PROVE  Reported'
  BY <1>0, <1>5, ReportKept DEF CreateIncident, Goto, Idle, TypeOK
<1>6. ASSUME \/ \E d \in Decisions : Approve(d) \/ Expire(d)
             \/ \E s \in Signals : RiskReject(s)
             \/ UNCHANGED vars
      PROVE  Reported'
  BY <1>6, ReportKept DEF Approve, Expire, RiskReject, vars
\* A row is rewritten by its owner: its own row if it ends in "incident", and
\* no row of another answer.
<1>7. ASSUME NEW w \in Workers, Record(w) \/ MarkError(w)
      PROVE  Reported'
  <2>1. CASE UNCHANGED orders /\ handler'[w].pc \in {"unrecorded", "unmarked"}
    BY <1>0, <1>7, <2>1, ReportKept DEF Record, MarkError, Goto, TypeOK
  <2>2. CASE \E state \in OrderState :
               /\ SetState(handler[w], state) /\ handler[w].pc \in {"record", "mark"}
               /\ handler'[w].pc = "ok" \/ (handler'[w].pc = "incident"
                                           /\ state = "ERROR_RECONCILIATION_REQUIRED")
    <3>1. PICK state \in OrderState :
               /\ SetState(handler[w], state) /\ handler[w].pc \in {"record", "mark"}
               /\ handler'[w].pc = "ok" \/ (handler'[w].pc = "incident"
                                           /\ state = "ERROR_RECONCILIATION_REQUIRED")
      BY <2>2
    <3>2. /\ handler[w].pc \in Owning /\ incidents' = incidents
          /\ \A v \in Workers \ {w} : handler'[v] = handler[v]
          /\ handler'[w].sig = handler[w].sig /\ handler'[w].dec = handler[w].dec
          /\ handler[w].dec \in Decisions
      BY <1>0, <1>7, <3>1 DEF Record, MarkError, Goto, Owning, TypeOK, Idle
    <3>3. \A row \in orders : \E new \in orders' :
              /\ new.key = row.key /\ new.sig = row.sig /\ new.dec = row.dec
              /\ SameClientOrderId(row, handler[w]) => new.state = state
              /\ ~SameClientOrderId(row, handler[w]) => new = row
      BY <3>1, <3>2, SetStateKeepsRows DEF Inv
    <3>4. ASSUME NEW v \in Workers \ {w}, handler'[v].pc \in {"incident", "uncertain"}
          PROVE  /\ \E row \in orders' :
                      /\ SameClientOrderId(row, handler'[v])
                      /\ row.state = "ERROR_RECONCILIATION_REQUIRED"
                 /\ handler'[v].pc = "uncertain" => handler'[v].dec \in incidents'
      <4>1. handler'[v] = handler[v] /\ handler[v].dec \in Decisions
        BY <1>0, <3>2, <3>4 DEF TypeOK, Idle
      <4>2. handler[v].dec # handler[w].dec
        BY <3>2, <3>4, <4>1 DEF Inv, OwnersDiffer, Owns, Owning
      <4>3. PICK row \in orders : /\ SameClientOrderId(row, handler[v])
                                  /\ row.state = "ERROR_RECONCILIATION_REQUIRED"
        BY <3>4, <4>1 DEF Reported, Marked
      <4>4. row \in orders'
        BY <3>3, <4>2, <4>3 DEF SameClientOrderId
      <4> QED
        BY <3>2, <3>4, <4>1, <4>3, <4>4 DEF Reported
    <3>5. handler'[w].pc = "incident" =>
            \E row \in orders' : /\ SameClientOrderId(row, handler'[w])
                                 /\ row.state = "ERROR_RECONCILIATION_REQUIRED"
      <4>1. PICK row \in orders : row.sig = handler[w].sig /\ row.dec = handler[w].dec
        BY <3>2 DEF Inv, OwnersHaveRows
      <4> QED
        BY <3>1, <3>2, <3>3, <4>1 DEF SameClientOrderId
    <3> QED
      BY <3>1, <3>4, <3>5 DEF Reported, Marked, SameClientOrderId
  <2> QED
    <3>1. CASE Record(w)
      <4>1. CASE UpdateAccepted(handler[w].sig, handler[w].dec, "ORDER_SUBMITTED")
        <5>1. SetState(handler[w], "ORDER_SUBMITTED") /\ handler'[w].pc = "ok"
              /\ handler[w].pc = "record" /\ "ORDER_SUBMITTED" \in OrderState
          BY <1>0, <3>1, <4>1 DEF Record, Goto, TypeOK, OrderState, Idle
        <5> QED
          BY <2>2, <5>1
      <4>2. CASE ~UpdateAccepted(handler[w].sig, handler[w].dec, "ORDER_SUBMITTED")
        BY <1>0, <3>1, <4>2, <2>1 DEF Record, Goto, TypeOK, Idle
      <4> QED
        BY <4>1, <4>2
    <3>2. CASE MarkError(w)
      <4> DEFINE error == "ERROR_RECONCILIATION_REQUIRED"
      <4>1. CASE UpdateAccepted(handler[w].sig, handler[w].dec, error)
        <5>1. SetState(handler[w], error) /\ handler'[w].pc = "incident"
              /\ handler[w].pc = "mark" /\ error \in OrderState
          BY <1>0, <3>2, <4>1 DEF MarkError, Goto, TypeOK, OrderState, Idle
        <5> QED
          BY <2>2, <5>1
      <4>2. CASE ~UpdateAccepted(handler[w].sig, handler[w].dec, error)
        BY <1>0, <3>2, <4>2, <2>1 DEF MarkError, Goto, TypeOK, Idle
      <4> QED
        BY <4>1, <4>2
    <3> QED
      BY <1>7, <3>1, <3>2
<1> QED
  BY <1>1, <1>2, <1>3, <1>4, <1>5, <1>6, <1>7 DEF Next, Submit, Environment

\* A 502 is true on either schema: the row waits for reconciliation and the
\* incident that closes the live gate is open (live_submit, its except branch).
THEOREM TrueAlarm == Spec => []UncertainIsReported
<1>1. Init => Inv /\ Reported
  BY InvInit DEF Init, Reported, Idle
<1>2. Inv /\ Reported /\ [Next]_vars => (Inv /\ Reported)'
  BY InvStep, ReportedStep
<1>3. Reported => UncertainIsReported
  BY DEF Reported, Marked, UncertainIsReported
<1>4. QED
  BY <1>1, <1>2, <1>3, PTL DEF Spec

-----------------------------------------------------------------------------
(* The symbol lock of one process.                                         *)

LocksCoverIntents ==
  \A w \in Workers :
    /\ \A i \in intents[w] : \E l \in locks[w] :
         l.symbol = SymbolOf[i.sig] /\ l.key = i.key
    /\ \A l, m \in locks[w] : l.symbol = m.symbol => l.key = m.key

LEMMA BuildKeepsLocks ==
  ASSUME TypeOK, LocksCoverIntents, NEW w \in Workers, NEW r \in Request,
         CanBuild(w, r), BuildIntent(w, r)
  PROVE  LocksCoverIntents'
<1> USE DEF memory
<1>1. CASE CacheHit(w, r)
  BY <1>1 DEF BuildIntent, LocksCoverIntents
<1>2. CASE ~CacheHit(w, r)
  <2> DEFINE lock == [symbol |-> SymbolOf[r.sig], key |-> r.key]
  <2>1. /\ intents'[w] = intents[w] \union {r}
        /\ locks'[w] = locks[w] \union {lock}
        /\ lock.symbol = SymbolOf[r.sig] /\ lock.key = r.key
        /\ \A v \in Workers \ {w} : intents'[v] = intents[v] /\ locks'[v] = locks[v]
    BY <1>2 DEF BuildIntent, TypeOK
  <2>2. \A l \in locks[w] : l.symbol = lock.symbol => l.key = lock.key
    BY <1>2 DEF CanBuild, NewIntent, LockFree
  <2> HIDE DEF lock
  <2>3. QED
    BY <2>1, <2>2 DEF LocksCoverIntents
<1>3. QED
  BY <1>1, <1>2

\* In one process all intents of a symbol have one idempotency key: the cache
\* and the paper route respect the symbol lock.
THEOREM SymbolLock == Spec => []SymbolLockHolds
<1>1. Init => TypeOK /\ LocksCoverIntents
  BY DEF Init, TypeOK, Idle, LocksCoverIntents
<1>2. TypeOK /\ LocksCoverIntents /\ [Next]_vars => (TypeOK /\ LocksCoverIntents)'
  <2> SUFFICES ASSUME TypeOK, LocksCoverIntents, [Next]_vars
               PROVE  TypeOK' /\ LocksCoverIntents'
    OBVIOUS
  <2> USE DEF memory
  <2>1. TypeOK'
    BY TypeStep
  <2>2. ASSUME UNCHANGED memory
        PROVE  LocksCoverIntents'
    BY <2>2 DEF LocksCoverIntents
  <2>3. ASSUME NEW w \in Workers, Build(w)
        PROVE  LocksCoverIntents'
    <3>1. RequestOf(w) \in Request
      BY <2>3 DEF Build, RequestOf, Request, TypeOK, Idle
    <3>2. QED
      BY <2>2, <2>3, <3>1, BuildKeepsLocks DEF Build
  <2>4. ASSUME NEW w \in Workers, NEW r \in Request, PaperSubmit(w, r)
        PROVE  LocksCoverIntents'
    BY <2>4, BuildKeepsLocks DEF PaperSubmit
  <2>5. ASSUME NEW w \in Workers, Crash(w)
        PROVE  LocksCoverIntents'
    <3>1. intents'[w] = {} /\ locks'[w] = {}
      BY <2>5 DEF Crash, TypeOK
    <3>2. \A v \in Workers \ {w} : intents'[v] = intents[v] /\ locks'[v] = locks[v]
      BY <2>5 DEF Crash, TypeOK
    <3>3. QED
      BY <3>1, <3>2 DEF LocksCoverIntents
  <2>6. QED
    BY <2>1, <2>2, <2>3, <2>4, <2>5
    DEF Next, Submit, Environment, vars, PassGate, Verify, LookUp,
        InsertConflict, InsertRefused, Insert, PlaceAcked, PlaceRaises, Record,
        MarkError, CreateIncident, DbFails, Approve, RiskReject, Expire
<1>3. TypeOK /\ LocksCoverIntents => SymbolLockHolds
  BY DEF LocksCoverIntents, SymbolLockHolds
<1>4. QED
  BY <1>1, <1>2, <1>3, PTL DEF Spec
=============================================================================
