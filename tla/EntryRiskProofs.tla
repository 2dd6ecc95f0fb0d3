-------------------------- MODULE EntryRiskProofs ---------------------------
(***************************************************************************)
(* What TLAPS proves of EntryRisk, for every number of processes, keys,    *)
(* candidates and symbols, and for every policy, market and deposit.       *)
(***************************************************************************)
EXTENDS EntryRisk, TLAPS

-----------------------------------------------------------------------------
(***************************************************************************)
(* Arithmetic.                                                             *)
(***************************************************************************)
LEMMA DivBounds ==
  ASSUME NEW a \in Nat, NEW b \in Nat \ {0}
  PROVE  /\ a \div b \in Nat
         /\ b * (a \div b) <= a
         /\ a < b * (a \div b) + b
BY SMT

LEMMA Cancel ==
  ASSUME NEW s \in Nat \ {0}, NEW x \in Int, NEW y \in Int, s * x < s * y
  PROVE  x < y
BY SMT

LEMMA Monotone ==
  ASSUME NEW z \in Nat, NEW x \in Int, NEW y \in Int, x <= y
  PROVE  z * x <= z * y
BY SMT

LEMMA PositiveProduct ==
  ASSUME NEW x \in Nat \ {0}, NEW y \in Nat \ {0}
  PROVE  x * y \in Nat \ {0}
BY SMT

\* If n steps of size s lose d each and cost p * c each, and n + 1 of them
\* would lose more than the budget b, then the costs of n units fit into one d.
LEMMA CostsFitIntoOneStep ==
  ASSUME NEW b \in Nat, NEW n \in Nat, NEW s \in Nat \ {0}, NEW d \in Nat \ {0},
         NEW p \in Nat, NEW c \in Nat,
         b < (10000 * d * s) * n + 10000 * d * s,
         (n * s) * d * 10000 + ((n * s) * p) * c <= b
  PROVE  n * p * c < 10000 * d
<1>1. (10000 * d * s) * n = (n * s) * d * 10000
  BY SMT
<1>2. ((n * s) * p) * c < 10000 * d * s
  BY <1>1, SMT
<1>3. s * (n * p * c) < s * (10000 * d)
  BY <1>2, SMT
<1>4. QED
  BY <1>3, Cancel

-----------------------------------------------------------------------------
(***************************************************************************)
(* Sizing.                                                                 *)
(***************************************************************************)
LEMMA SpecOf ==
  ASSUME NEW c \in Candidates
  PROVE  /\ c \in Candidate
         /\ c.symbol \in Symbols
         /\ c.entry \in Nat \ {0}
         /\ c.dist \in Nat \ {0}
         /\ Specs[c.symbol].step \in Nat \ {0}
BY CandidatesAssumption, SpecsAssumption DEF Candidate

\* The quantity is a whole number of steps, the largest whose loss at the
\* stop, costs apart, stays within the budget.
LEMMA LotsBounds ==
  ASSUME NEW c \in Candidates, NEW e \in Nat
  PROVE  /\ Lots(c, e) \in Nat
         /\ e * Policy.risk \in Nat
         /\ e * Policy.risk < (10000 * c.dist * Specs[c.symbol].step) * Lots(c, e)
                                + 10000 * c.dist * Specs[c.symbol].step
<1> DEFINE unit == 10000 * c.dist * Specs[c.symbol].step
           budget == e * Policy.risk
<1>1. budget \in Nat
  BY PolicyAssumption, SMT
<1>2. 10000 * c.dist \in Nat \ {0}
  BY SpecOf, PositiveProduct
<1>3. unit \in Nat \ {0}
  BY <1>2, SpecOf, PositiveProduct
<1>4. Lots(c, e) = budget \div unit
  BY DEF Lots
<1> HIDE DEF unit, budget
<1>5. /\ budget \div unit \in Nat
      /\ budget < unit * (budget \div unit) + unit
  BY <1>1, <1>3, DivBounds
<1>6. QED
  BY <1>1, <1>4, <1>5 DEF unit, budget

LEMMA NotionalIsNat ==
  ASSUME NEW c \in Candidates, NEW e \in Nat
  PROVE  Notional(c, e) \in Nat
<1>1. Lots(c, e) \in Nat
  BY LotsBounds
<1>2. Qty(c, e) \in Nat
  BY <1>1, SpecOf, SMT DEF Qty
<1>3. QED
  BY <1>2, SpecOf, SMT DEF Notional

LEMMA CostsAreBounded ==
  ASSUME NEW m \in Markets
  PROVE  BaseCost \in Nat /\ Cost(m) \in Nat /\ BaseCost <= Cost(m)
<1>1. m.spread \in Nat /\ Abs(m.funding) \in Nat
  BY MarketsAssumption, SMT DEF Abs
<1>2. QED
  BY <1>1, PolicyAssumption, SMT DEF BaseCost, Cost

CostsFit(c, e) == Lots(c, e) * c.entry * BaseCost < 10000 * c.dist

\* Whatever is approved pays its costs out of what rounding has left over.
LEMMA ApprovedCostsFit ==
  ASSUME NEW c \in Candidates, NEW m \in Markets, NEW r, r.equity \in Nat,
         NEW fresh, NEW ml_ready, Approves(c, r, m, fresh, ml_ready)
  PROVE  CostsFit(c, r.equity)
<1> DEFINE n == Lots(c, r.equity)
           s == Specs[c.symbol].step
           d == c.dist
           p == c.entry
           b == r.equity * Policy.risk
<1>1. Loss(c, r.equity, Cost(m)) <= b
  BY DEF Approves, WithinLimits
<1>2. (n * s) * d * 10000 + ((n * s) * p) * Cost(m) <= b
  BY <1>1 DEF Loss, Notional, Qty
<1>3. /\ n \in Nat /\ s \in Nat \ {0} /\ d \in Nat \ {0} /\ p \in Nat /\ b \in Nat
      /\ Cost(m) \in Nat /\ BaseCost \in Nat /\ BaseCost <= Cost(m)
  BY SpecOf, LotsBounds, CostsAreBounded
<1>4. b < (10000 * d * s) * n + 10000 * d * s
  BY LotsBounds
<1> HIDE DEF n, s, d, p, b
<1>5. n * p * Cost(m) < 10000 * d
  BY <1>2, <1>3, <1>4, CostsFitIntoOneStep
<1>6. n * p \in Nat
  BY <1>3, SMT
<1>7. (n * p) * BaseCost <= (n * p) * Cost(m)
  BY <1>3, <1>6, Monotone
<1>8. n * p * BaseCost < 10000 * d
  BY <1>3, <1>5, <1>6, <1>7, SMT
<1>9. QED
  BY <1>8 DEF CostsFit, n, p, d

\* ... and stays within the budget and the leverage cap, whatever the market
\* showed at the moment of the approval.
LEMMA ApprovedBudgeted ==
  ASSUME NEW c \in Candidates, NEW m \in Markets, NEW r, r.equity \in Nat,
         NEW fresh, NEW ml_ready, Approves(c, r, m, fresh, ml_ready)
  PROVE  Budgeted(c, r.equity)
<1>1. /\ Loss(c, r.equity, Cost(m)) <= r.equity * Policy.risk
      /\ Notional(c, r.equity) <= Policy.leverage * r.equity
  BY DEF Approves, WithinLimits
<1>2. Notional(c, r.equity) * BaseCost <= Notional(c, r.equity) * Cost(m)
  BY NotionalIsNat, CostsAreBounded, Monotone
<1>3. /\ Qty(c, r.equity) * c.dist * 10000 \in Int
      /\ Notional(c, r.equity) * BaseCost \in Int
      /\ Notional(c, r.equity) * Cost(m) \in Int
      /\ r.equity * Policy.risk \in Int
  <2>1. Qty(c, r.equity) \in Nat
    BY LotsBounds, SpecOf, SMT DEF Qty
  <2>2. Notional(c, r.equity) \in Nat /\ BaseCost \in Nat /\ Cost(m) \in Nat
    BY NotionalIsNat, CostsAreBounded
  <2>3. QED
    BY <2>1, <2>2, SpecOf, PolicyAssumption, SMT
<1>4. Loss(c, r.equity, BaseCost) <= Loss(c, r.equity, Cost(m))
  BY <1>2, <1>3, SMT DEF Loss
<1>5. /\ Loss(c, r.equity, BaseCost) \in Int /\ Loss(c, r.equity, Cost(m)) \in Int
  BY <1>3, SMT DEF Loss
<1>6. QED
  BY <1>1, <1>3, <1>4, <1>5, SMT DEF Budgeted

\* What every approval keeps when it becomes an entry.
Affordable(c, e) == CostsFit(c, e) /\ Budgeted(c, e)

-----------------------------------------------------------------------------
(***************************************************************************)
(* Types.                                                                  *)
(***************************************************************************)
LEMMA TypeStep == TypeOK /\ [Next]_vars => TypeOK'
<1> SUFFICES ASSUME TypeOK, [Next]_vars
             PROVE  TypeOK'
  OBVIOUS
<1> USE MoneyAssumption DEF TypeOK, Idle, Begun, WalletRead, AccountRead, Decided,
            database, exchange, Answer, Statuses
<1>1. ASSUME NEW w \in Workers, NEW k \in Keys, NEW c \in Candidates,
             BlockEarly(w, k, c)
      PROVE  TypeOK'
  BY <1>1 DEF BlockEarly, AnswerWith, Remember
<1>2. ASSUME NEW w \in Workers, NEW k \in Keys, NEW c \in Candidates,
             Begin(w, k, c)
      PROVE  TypeOK'
  BY <1>2 DEF Begin, Open
<1>3. ASSUME NEW w \in Workers, ReadWallet(w)
      PROVE  TypeOK'
  <2>1. PICK n \in Reported :
          handler' = [handler EXCEPT ![w] =
            [pc |-> "positions", key |-> @.key, cand |-> @.cand, held |-> @.held,
             equity |-> equity, available |-> Available(n)]]
    BY <1>3 DEF ReadWallet
  <2>2. Available(n) \in Nat
    BY DEF Available, Reported
  <2>3. QED
    BY <1>3, <2>1, <2>2 DEF ReadWallet
<1>4. ASSUME NEW w \in Workers, ReadPositions(w)
      PROVE  TypeOK'
  BY <1>4 DEF ReadPositions, Mismatch
<1>5. ASSUME NEW w \in Workers, DataUnavailable(w)
      PROVE  TypeOK'
  BY <1>5 DEF DataUnavailable, AnswerWith, Remember
<1>6. ASSUME NEW w \in Workers, Decide(w)
      PROVE  TypeOK'
  <2>1. PICK approved \in BOOLEAN :
          /\ handler' = [handler EXCEPT ![w] =
               [pc |-> "decision", key |-> @.key, cand |-> @.cand, held |-> @.held,
                equity |-> @.equity, approved |-> approved]]
          /\ signals' = [signals EXCEPT ![handler[w].cand] = Verdict(approved)]
    BY <1>6 DEF Decide
  <2>2. QED
    BY <1>6, <2>1 DEF Decide, Verdict
<1>7. ASSUME NEW w \in Workers, Persist(w)
      PROVE  TypeOK'
  BY <1>7 DEF Persist, AnswerWith, Remember, Decision
<1>8. ASSUME NEW w \in Workers, IncidentFails(w)
      PROVE  TypeOK'
  BY <1>8 DEF IncidentFails
<1>9. ASSUME NEW w \in Workers, StatementFails(w)
      PROVE  TypeOK'
  BY <1>9 DEF StatementFails
<1>10. ASSUME NEW w \in Workers, Crash(w)
       PROVE  TypeOK'
  BY <1>10 DEF Crash
<1>11. ASSUME NEW d \in approvals, Expire(d)
       PROVE  TypeOK'
  BY <1>11 DEF Expire
<1>12. ASSUME NEW d \in approvals, Reserve(d)
       PROVE  TypeOK'
  BY <1>12 DEF Reserve, Entry
<1>13. ASSUME NEW e \in entries, Send(e) \/ CancelByExchange(e)
       PROVE  TypeOK'
  BY <1>13 DEF Send, CancelByExchange, Become, Entry
<1>14. ASSUME NEW e \in entries, Fill(e)
       PROVE  TypeOK'
  <2>1. NotionalOf(e) \in Nat /\ SymbolOf(e) \in Symbols
    BY NotionalIsNat, SpecOf DEF Entry, Decision, NotionalOf, SymbolOf
  <2>2. [e EXCEPT !.state = "filled"] \in Entry
    BY DEF Entry
  <2>3. QED
    BY <1>14, <2>1, <2>2 DEF Fill, Become
<1>15. ASSUME NEW s \in Symbols, NEW result \in Results, Close(s, result)
       PROVE  TypeOK'
  <2> DEFINE Less(h) == [h EXCEPT !.held = @ \ {s}]
  <2>1. \A h \in Begun : Less(h) \in Begun
    OBVIOUS
  <2>2. \A h \in WalletRead : Less(h) \in WalletRead
    OBVIOUS
  <2>3. \A h \in AccountRead : Less(h) \in AccountRead
    OBVIOUS
  <2>4. \A h \in Decided : Less(h) \in Decided
    OBVIOUS
  <2>5. handler' = [w \in Workers |->
          IF handler[w] = Idle THEN Idle ELSE Less(handler[w])]
    BY <1>15 DEF Close
  <2>6. handler' \in [Workers -> {Idle} \union Begun \union WalletRead
                                \union AccountRead \union Decided]
    <3> HIDE DEF Less, Begun, WalletRead, AccountRead, Decided, Idle
    <3>1. QED
      BY <2>1, <2>2, <2>3, <2>4, <2>5
  <2>7. QED
    <3> HIDE DEF Less, Begun, WalletRead, AccountRead, Decided, Idle
    <3>1. QED
      BY <1>15, <2>6 DEF Close
<1>16. CASE UNCHANGED vars
  BY <1>16 DEF vars
<1>17. QED
  BY <1>1, <1>2, <1>3, <1>4, <1>5, <1>6, <1>7, <1>8, <1>9, <1>10, <1>11,
     <1>12, <1>13, <1>14, <1>15, <1>16
  DEF Next, Approval, Trading

LEMMA TypeInit == Init => TypeOK
<1> SUFFICES ASSUME Init
             PROVE  TypeOK
  OBVIOUS
<1>1. handler \in [Workers -> {Idle} \union Begun \union WalletRead
                              \union AccountRead \union Decided]
  BY DEF Init
<1>2. memory \in [Workers -> SUBSET Answer] /\ told \in [Workers -> SUBSET Answer]
  BY DEF Init
<1>3. /\ signals \in [Candidates -> {"absent", "APPROVED", "RISK_REJECTED", "BLOCKED"}]
      /\ positions \in [Symbols -> Nat]
  BY DEF Init
<1>4. /\ approvals \subseteq Decision /\ entries \subseteq Entry
      /\ incident \in BOOLEAN /\ equity \in Nat \ {0} /\ lost \in Nat
  BY MoneyAssumption DEF Init
<1>5. QED
  BY <1>1, <1>2, <1>3, <1>4 DEF TypeOK

\* Every variable has its type in every reachable state: equity stays
\* positive and what a handler has read of the account is never negative,
\* whatever the exchange reports (fetch_account_snapshot).
THEOREM TypeCorrect == Spec => []TypeOK
BY TypeInit, TypeStep, PTL DEF Spec

-----------------------------------------------------------------------------
(***************************************************************************)
(* The inductive invariant.                                                *)
(***************************************************************************)
\* held only shrinks when the position of a symbol closes.
HeldIsOpen ==
  \A w \in Workers : handler[w] # Idle => handler[w].held \subseteq Open

\* Nothing held is what an account without mismatch means.
FlatWhenMatched ==
  \A w \in Workers :
    (handler[w].pc = "decide" /\ ~handler[w].mismatch) => handler[w].held = {}

\* One answer for a key, and none for the key of a request under way.
AnsweredOnce ==
  /\ told = memory
  /\ \A w \in Workers : \A a, b \in memory[w] : a.key = b.key => a = b
  /\ \A w \in Workers : handler[w] # Idle =>
       \A a \in memory[w] : a.key # handler[w].key

ApprovalsFit ==
  /\ \A d \in approvals : Affordable(d.cand, d.equity)
  /\ \A e \in entries : Affordable(e.dec.cand, e.dec.equity)
  /\ \A w \in Workers : (handler[w].pc = "decision" /\ handler[w].approved)
       => Affordable(handler[w].cand, handler[w].equity)

\* one_pending_entry_per_symbol: no row leaves the index.
OnePerSymbol == \A e, f \in entries : SymbolOf(e) = SymbolOf(f) => e = f

\* The open position of a symbol is its filled entry, so that a symbol whose
\* entry has not filled is flat, and a fill adds to nothing.
PositionsAreEntries ==
  \A s \in Open : \E e \in entries :
    e.state = "filled" /\ SymbolOf(e) = s /\ positions[s] = NotionalOf(e)

Inv == /\ TypeOK
       /\ HeldIsOpen
       /\ FlatWhenMatched
       /\ ApprovalSawFlat
       /\ AnsweredOnce
       /\ ApprovalsFit
       /\ OnePerSymbol
       /\ PositionsAreEntries

LEMMA InvInit == Init => Inv
<1> SUFFICES ASSUME Init
             PROVE  Inv
  OBVIOUS
<1>1. TypeOK
  BY TypeInit
<1>2. HeldIsOpen /\ FlatWhenMatched /\ ApprovalSawFlat
  BY DEF Init, HeldIsOpen, FlatWhenMatched, ApprovalSawFlat, Idle
<1>3. AnsweredOnce
  BY DEF Init, AnsweredOnce
<1>4. ApprovalsFit /\ OnePerSymbol /\ PositionsAreEntries
  BY DEF Init, ApprovalsFit, OnePerSymbol, PositionsAreEntries, Open, Idle
<1>5. QED
  BY <1>1, <1>2, <1>3, <1>4 DEF Inv

\* A request ends with one answer or none, and only an unanswered key begins.
LEMMA AnswersStep == Inv /\ [Next]_vars => AnsweredOnce'
<1> SUFFICES ASSUME Inv, [Next]_vars
             PROVE  AnsweredOnce'
  OBVIOUS
<1> USE DEF Inv, TypeOK, AnsweredOnce
<1>1. ASSUME NEW w \in Workers, NEW k \in Keys, NEW c \in Candidates, NEW status,
             \A a \in memory[w] : a.key # k, AnswerWith(w, k, c, status)
      PROVE  AnsweredOnce'
  BY <1>1 DEF AnswerWith, Remember
<1>2. ASSUME NEW w \in Workers, NEW k \in Keys, NEW c \in Candidates,
             BlockEarly(w, k, c)
      PROVE  AnsweredOnce'
  BY <1>1, <1>2 DEF BlockEarly, NewKey
<1>3. ASSUME NEW w \in Workers, NEW k \in Keys, NEW c \in Candidates,
             Begin(w, k, c)
      PROVE  AnsweredOnce'
  BY <1>3 DEF Begin, NewKey
<1>4. ASSUME NEW w \in Workers, handler[w] # Idle
      PROVE  /\ handler[w].key \in Keys /\ handler[w].cand \in Candidates
             /\ \A a \in memory[w] : a.key # handler[w].key
  BY <1>4 DEF Begun, WalletRead, AccountRead, Decided
<1>5. ASSUME NEW w \in Workers, DataUnavailable(w)
      PROVE  AnsweredOnce'
  <2>1. handler[w] # Idle
    BY <1>5 DEF DataUnavailable, Idle
  <2>2. QED
    BY <1>1, <1>4, <1>5, <2>1 DEF DataUnavailable
<1>6. ASSUME NEW w \in Workers, Persist(w)
      PROVE  AnsweredOnce'
  <2>1. handler[w] # Idle
    BY <1>6 DEF Persist, Idle
  <2>2. QED
    BY <1>1, <1>4, <1>6, <2>1 DEF Persist
<1>7. ASSUME NEW w \in Workers, ReadWallet(w)
      PROVE  AnsweredOnce'
  <2>1. handler[w] # Idle /\ handler'[w].key = handler[w].key
    BY <1>7 DEF ReadWallet, Idle
  <2>2. \A u \in Workers \ {w} : handler'[u] = handler[u]
    BY <1>7 DEF ReadWallet
  <2>3. memory' = memory /\ told' = told
    BY <1>7 DEF ReadWallet
  <2>4. QED
    BY <2>1, <2>2, <2>3
<1>8. ASSUME NEW w \in Workers, ReadPositions(w)
      PROVE  AnsweredOnce'
  <2>1. handler[w] # Idle /\ handler'[w].key = handler[w].key
    BY <1>8 DEF ReadPositions, Idle
  <2>2. \A u \in Workers \ {w} : handler'[u] = handler[u]
    BY <1>8 DEF ReadPositions
  <2>3. memory' = memory /\ told' = told
    BY <1>8 DEF ReadPositions
  <2>4. QED
    BY <2>1, <2>2, <2>3
<1>9. ASSUME NEW w \in Workers, Decide(w)
      PROVE  AnsweredOnce'
  <2>1. handler[w] # Idle /\ handler'[w].key = handler[w].key
    BY <1>9 DEF Decide, Idle
  <2>2. \A u \in Workers \ {w} : handler'[u] = handler[u]
    BY <1>9 DEF Decide
  <2>3. memory' = memory /\ told' = told
    BY <1>9 DEF Decide
  <2>4. QED
    BY <2>1, <2>2, <2>3
<1>10. ASSUME NEW w \in Workers, IncidentFails(w) \/ StatementFails(w) \/ Crash(w)
       PROVE  AnsweredOnce'
  BY <1>10 DEF IncidentFails, StatementFails, Crash
<1>11. ASSUME NEW s \in Symbols, NEW result \in Results, Close(s, result)
       PROVE  AnsweredOnce'
  <2>1. memory' = memory /\ told' = told
    BY <1>11 DEF Close
  <2>2. \A w \in Workers : handler'[w] # Idle =>
          handler[w] # Idle /\ handler'[w].key = handler[w].key
    BY <1>11 DEF Close, Begun, WalletRead, AccountRead, Decided
  <2>3. QED
    BY <2>1, <2>2
<1>12. CASE UNCHANGED <<handler, memory, told>>
  BY <1>12
<1>13. QED
  BY <1>2, <1>3, <1>5, <1>6, <1>7, <1>8, <1>9, <1>10, <1>11, <1>12
  DEF Next, Approval, Trading, Expire, Reserve, Send, Fill, CancelByExchange, vars

\* What a process reads and remembers of a request when it moves on.
LEMMA HandlerStep ==
  ASSUME TypeOK, NEW w \in Workers
  PROVE  /\ ReadWallet(w) => /\ handler[w] # Idle
                             /\ handler'[w].pc = "positions"
                             /\ handler'[w].held = handler[w].held
         /\ ReadPositions(w) => /\ handler[w] # Idle
                                /\ handler'[w].pc = "decide"
                                /\ handler'[w].held = handler[w].held
                                /\ handler'[w].mismatch = (Open # {})
         /\ Decide(w) =>
              /\ handler[w] # Idle /\ handler[w].pc = "decide"
              /\ handler'[w].pc = "decision"
              /\ handler'[w].held = handler[w].held
              /\ handler'[w].cand = handler[w].cand
              /\ handler'[w].equity = handler[w].equity
              /\ \E m \in Markets, fresh, ml_ready \in BOOLEAN :
                   handler'[w].approved
                     = Approves(handler[w].cand, handler[w], m, fresh, ml_ready)
         /\ ReadWallet(w) \/ ReadPositions(w) \/ Decide(w) =>
              \A u \in Workers \ {w} : handler'[u] = handler[u]
<1>1. ASSUME ReadWallet(w)
      PROVE  /\ handler[w] # Idle /\ handler'[w].pc = "positions"
             /\ handler'[w].held = handler[w].held
             /\ \A u \in Workers \ {w} : handler'[u] = handler[u]
  BY <1>1 DEF TypeOK, ReadWallet, Idle
<1>2. ASSUME ReadPositions(w)
      PROVE  /\ handler[w] # Idle /\ handler'[w].pc = "decide"
             /\ handler'[w].held = handler[w].held
             /\ handler'[w].mismatch = (Open # {})
             /\ \A u \in Workers \ {w} : handler'[u] = handler[u]
  BY <1>2 DEF TypeOK, ReadPositions, Mismatch, Idle
<1>3. ASSUME Decide(w)
      PROVE  /\ handler[w] # Idle /\ handler[w].pc = "decide"
             /\ handler'[w].pc = "decision"
             /\ handler'[w].held = handler[w].held
             /\ handler'[w].cand = handler[w].cand
             /\ handler'[w].equity = handler[w].equity
             /\ \E m \in Markets, fresh, ml_ready \in BOOLEAN :
                  handler'[w].approved
                    = Approves(handler[w].cand, handler[w], m, fresh, ml_ready)
             /\ \A u \in Workers \ {w} : handler'[u] = handler[u]
  BY <1>3 DEF TypeOK, Decide, Idle
<1>4. QED
  BY <1>1, <1>2, <1>3

\* Steps after which every handler is as it was, or idle, or has just begun.
Quiet(w) == \A u \in Workers : handler'[u] # handler[u] =>
              u = w /\ (handler'[u] = Idle \/ handler'[u].pc = "wallet")

LEMMA QuietSteps ==
  ASSUME TypeOK, NEW w \in Workers,
         \/ \E k \in Keys, c \in Candidates : BlockEarly(w, k, c) \/ Begin(w, k, c)
         \/ DataUnavailable(w) \/ Persist(w) \/ IncidentFails(w)
         \/ StatementFails(w) \/ Crash(w)
  PROVE  /\ Quiet(w)
         /\ UNCHANGED positions
         /\ handler'[w] # Idle => handler'[w].held \subseteq Open
<1> USE DEF TypeOK, Quiet, exchange
<1>1. ASSUME NEW k \in Keys, NEW c \in Candidates, Begin(w, k, c)
      PROVE  /\ Quiet(w) /\ UNCHANGED positions
             /\ handler'[w] # Idle => handler'[w].held \subseteq Open
  BY <1>1 DEF Begin
<1>2. ASSUME \/ \E k \in Keys, c \in Candidates : BlockEarly(w, k, c)
             \/ DataUnavailable(w) \/ Persist(w) \/ IncidentFails(w)
             \/ StatementFails(w) \/ Crash(w)
      PROVE  handler' = [handler EXCEPT ![w] = Idle] /\ UNCHANGED positions
  BY <1>2 DEF BlockEarly, DataUnavailable, Persist, IncidentFails,
              StatementFails, Crash, AnswerWith
<1>3. QED
  BY <1>1, <1>2

\* Positions open while a request runs are open still, or were closed and
\* dropped from held.
LEMMA HeldStep == Inv /\ [Next]_vars => HeldIsOpen'
<1> SUFFICES ASSUME Inv, [Next]_vars
             PROVE  HeldIsOpen'
  OBVIOUS
<1> USE DEF Inv, HeldIsOpen
<1>1. ASSUME NEW w \in Workers,
             \/ \E k \in Keys, c \in Candidates : BlockEarly(w, k, c) \/ Begin(w, k, c)
             \/ DataUnavailable(w) \/ Persist(w) \/ IncidentFails(w)
             \/ StatementFails(w) \/ Crash(w)
      PROVE  HeldIsOpen'
  <2>1. Quiet(w) /\ UNCHANGED positions
        /\ (handler'[w] # Idle => handler'[w].held \subseteq Open)
    BY <1>1, QuietSteps
  <2>2. QED
    BY <2>1 DEF Quiet, Open
<1>2. ASSUME NEW w \in Workers, ReadWallet(w) \/ ReadPositions(w) \/ Decide(w)
      PROVE  HeldIsOpen'
  <2>1. UNCHANGED positions
    BY <1>2 DEF ReadWallet, ReadPositions, Decide, exchange
  <2>2. QED
    BY <1>2, <2>1, HandlerStep DEF Open
<1>3. ASSUME NEW e \in entries, Fill(e)
      PROVE  HeldIsOpen'
  <2>1. NotionalOf(e) \in Nat /\ SymbolOf(e) \in Symbols
    BY NotionalIsNat, SpecOf DEF TypeOK, Entry, Decision, NotionalOf, SymbolOf
  <2>2. Open \subseteq Open'
    BY <1>3, <2>1 DEF Fill, Open, TypeOK
  <2>3. handler' = handler
    BY <1>3 DEF Fill
  <2>4. QED
    BY <2>2, <2>3
<1>4. ASSUME NEW s \in Symbols, NEW result \in Results, Close(s, result)
      PROVE  HeldIsOpen'
  <2>1. Open \ {s} \subseteq Open'
    BY <1>4 DEF Close, Open, TypeOK
  <2>2. \A w \in Workers : handler'[w] # Idle =>
          handler[w] # Idle /\ handler'[w].held = handler[w].held \ {s}
    BY <1>4 DEF Close, TypeOK, Begun, WalletRead, AccountRead, Decided
  <2>3. QED
    BY <2>1, <2>2
<1>5. CASE UNCHANGED <<handler, positions>>
  BY <1>5 DEF Open
<1>6. QED
  BY <1>1, <1>2, <1>3, <1>4, <1>5
  DEF Next, Approval, Trading, Expire, Reserve, Send, CancelByExchange, vars, exchange

\* A handler that read no position holds none, and only such a handler
\* approves.
LEMMA FlatStep == Inv /\ [Next]_vars => (FlatWhenMatched /\ ApprovalSawFlat)'
<1> SUFFICES ASSUME Inv, [Next]_vars
             PROVE  (FlatWhenMatched /\ ApprovalSawFlat)'
  OBVIOUS
<1> USE DEF Inv, FlatWhenMatched, ApprovalSawFlat
<1>1. ASSUME NEW w \in Workers,
             \/ \E k \in Keys, c \in Candidates : BlockEarly(w, k, c) \/ Begin(w, k, c)
             \/ DataUnavailable(w) \/ Persist(w) \/ IncidentFails(w)
             \/ StatementFails(w) \/ Crash(w)
      PROVE  (FlatWhenMatched /\ ApprovalSawFlat)'
  BY <1>1, QuietSteps DEF Quiet, Idle
<1>2. ASSUME NEW w \in Workers, ReadWallet(w)
      PROVE  (FlatWhenMatched /\ ApprovalSawFlat)'
  BY <1>2, HandlerStep
<1>3. ASSUME NEW w \in Workers, ReadPositions(w)
      PROVE  (FlatWhenMatched /\ ApprovalSawFlat)'
  <2>1. handler'[w].mismatch = (Open # {}) /\ handler'[w].held \subseteq Open
    BY <1>3, HandlerStep DEF HeldIsOpen
  <2>2. QED
    BY <1>3, <2>1, HandlerStep
<1>4. ASSUME NEW w \in Workers, Decide(w)
      PROVE  (FlatWhenMatched /\ ApprovalSawFlat)'
  <2>1. handler'[w].approved => ~handler[w].mismatch
    BY <1>4, HandlerStep DEF Approves
  <2>2. QED
    BY <1>4, <2>1, HandlerStep
<1>5. ASSUME NEW s \in Symbols, NEW result \in Results, Close(s, result)
      PROVE  (FlatWhenMatched /\ ApprovalSawFlat)'
  <2>1. \A w \in Workers : handler[w] = Idle => handler'[w] = Idle
    BY <1>5 DEF Close
  <2>2. \A w \in Workers : handler[w] # Idle =>
          /\ handler'[w].pc = handler[w].pc
          /\ handler'[w].held = handler[w].held \ {s}
          /\ handler[w].pc = "decide" => handler'[w].mismatch = handler[w].mismatch
          /\ handler[w].pc = "decision" => handler'[w].approved = handler[w].approved
    BY <1>5 DEF Close, TypeOK, Begun, WalletRead, AccountRead, Decided
  <2>3. QED
    BY <2>1, <2>2 DEF Idle
<1>6. CASE UNCHANGED handler
  BY <1>6
<1>7. QED
  BY <1>1, <1>2, <1>3, <1>4, <1>5, <1>6
  DEF Next, Approval, Trading, Expire, Reserve, Send, Fill, CancelByExchange, vars

\* How a step changes the rows: not at all, by a new row for an approval, or
\* by a new state of one row.
LEMMA EntriesStep ==
  ASSUME TypeOK, [Next]_vars
  PROVE  \/ entries' = entries
         \/ \E d \in approvals : Reserve(d)
         \/ \E e \in entries, state \in {"sent", "filled", "done"} : Become(e, state)
<1>1. ASSUME NEW e \in entries, Send(e) \/ Fill(e) \/ CancelByExchange(e)
      PROVE  \E f \in entries, state \in {"sent", "filled", "done"} : Become(f, state)
  BY <1>1 DEF Send, Fill, CancelByExchange
<1>2. QED
  BY <1>1
  DEF Next, Approval, Trading, vars, database, BlockEarly, Begin, ReadWallet,
      ReadPositions, DataUnavailable, Decide, Persist, IncidentFails,
      StatementFails, Crash, Expire, Close

\* A row keeps its decision.
LEMMA Becoming ==
  ASSUME TypeOK, NEW e \in entries, NEW state, Become(e, state)
  PROVE  \A f \in entries' :
           \/ f \in entries \ {e}
           \/ f.dec = e.dec /\ f.state = state /\ SymbolOf(f) = SymbolOf(e)
<1>1. [e EXCEPT !.state = state].dec = e.dec /\ [e EXCEPT !.state = state].state = state
  BY DEF TypeOK, Entry
<1>2. QED
  BY <1>1 DEF Become, SymbolOf

\* An approval that is persisted, and an entry, is one whose costs fit.
LEMMA FitStep == Inv /\ [Next]_vars => ApprovalsFit'
<1> SUFFICES ASSUME Inv, [Next]_vars
             PROVE  ApprovalsFit'
  OBVIOUS
<1> DEFINE Fits == \A d \in approvals : Affordable(d.cand, d.equity)
           Rows == \A e \in entries : Affordable(e.dec.cand, e.dec.equity)
           Deciding == \A w \in Workers :
             (handler[w].pc = "decision" /\ handler[w].approved)
               => Affordable(handler[w].cand, handler[w].equity)
<1>1. Fits /\ Rows /\ Deciding
  BY DEF Inv, ApprovalsFit
<1>2. \A c, e : Affordable(c, e)' = Affordable(c, e)
  BY DEF Affordable, CostsFit, Budgeted, Loss, Notional, Qty, Lots, BaseCost
<1>3. Fits'
  <2>1. ASSUME NEW w \in Workers, Persist(w)
        PROVE  Fits'
    <3>1. \A d \in approvals' : \/ d \in approvals
                               \/ /\ d = [cand |-> handler[w].cand,
                                          equity |-> handler[w].equity]
                                  /\ handler[w].approved
      BY <2>1 DEF Persist
    <3>2. handler[w].pc = "decision"
      BY <2>1 DEF Persist
    <3>3. \A d \in approvals' : Affordable(d.cand, d.equity)
      BY <1>1, <3>1, <3>2
    <3>4. QED
      BY <1>2, <3>3
  <2>2. ASSUME approvals' \subseteq approvals
        PROVE  Fits'
    BY <1>1, <1>2, <2>2
  <2>3. QED
    BY <2>1, <2>2
    DEF Next, Approval, Trading, vars, database, BlockEarly, Begin, ReadWallet,
        ReadPositions, DataUnavailable, Decide, IncidentFails, StatementFails,
        Crash, Expire, Reserve, Send, Fill, CancelByExchange, Close
<1>4. Rows'
  <2>1. \A e \in entries' : \/ \E d \in approvals : e.dec = d
                            \/ \E f \in entries : e.dec = f.dec
    <3>1. ASSUME NEW d \in approvals, Reserve(d)
          PROVE  \A e \in entries' : e.dec = d \/ e \in entries
      BY <3>1 DEF Reserve
    <3>2. QED
      BY <3>1, EntriesStep, Becoming DEF Inv
  <2>2. \A e \in entries' : Affordable(e.dec.cand, e.dec.equity)
    BY <1>1, <2>1
  <2>3. QED
    BY <1>2, <2>2
<1>5. Deciding'
  <2>1. ASSUME NEW w \in Workers,
               \/ \E k \in Keys, c \in Candidates : BlockEarly(w, k, c) \/ Begin(w, k, c)
               \/ DataUnavailable(w) \/ Persist(w) \/ IncidentFails(w)
               \/ StatementFails(w) \/ Crash(w)
        PROVE  Deciding'
    BY <1>1, <1>2, <2>1, QuietSteps DEF Quiet, Idle, Inv
  <2>2. ASSUME NEW w \in Workers, ReadWallet(w) \/ ReadPositions(w)
        PROVE  Deciding'
    BY <1>1, <1>2, <2>2, HandlerStep DEF Inv
  <2>3. ASSUME NEW w \in Workers, Decide(w)
        PROVE  Deciding'
    <3>1. handler[w].cand \in Candidates /\ handler[w].equity \in Nat
      BY <2>3, HandlerStep DEF Inv, TypeOK, Begun, WalletRead, AccountRead, Decided
    <3>2. handler'[w].approved => Affordable(handler[w].cand, handler[w].equity)
      BY <2>3, <3>1, HandlerStep, ApprovedCostsFit, ApprovedBudgeted
      DEF Inv, Affordable
    <3>3. handler'[w].approved => Affordable(handler'[w].cand, handler'[w].equity)
      BY <2>3, <3>2, HandlerStep DEF Inv
    <3>4. QED
      BY <1>1, <1>2, <2>3, <3>3, HandlerStep DEF Inv
  <2>4. ASSUME NEW s \in Symbols, NEW result \in Results, Close(s, result)
        PROVE  Deciding'
    <3>1. \A w \in Workers : handler[w] = Idle => handler'[w] = Idle
      BY <2>4 DEF Close
    <3>2. \A w \in Workers : handler[w] # Idle =>
            /\ handler'[w].pc = handler[w].pc
            /\ handler[w].pc = "decision" =>
                 /\ handler'[w].approved = handler[w].approved
                 /\ handler'[w].cand = handler[w].cand
                 /\ handler'[w].equity = handler[w].equity
      BY <2>4 DEF Close, Inv, TypeOK, Begun, WalletRead, AccountRead, Decided
    <3>3. QED
      BY <1>1, <1>2, <3>1, <3>2 DEF Idle
  <2>5. CASE UNCHANGED handler
    BY <1>1, <1>2, <2>5
  <2>6. QED
    BY <2>1, <2>2, <2>3, <2>4, <2>5
    DEF Next, Approval, Trading, Expire, Reserve, Send, Fill, CancelByExchange, vars
<1>6. QED
  BY <1>3, <1>4, <1>5 DEF ApprovalsFit

\* A row is written when its symbol has none, and its symbol is not changed.
LEMMA SymbolStep == Inv /\ [Next]_vars => OnePerSymbol'
<1> SUFFICES ASSUME Inv, [Next]_vars
             PROVE  OnePerSymbol'
  OBVIOUS
<1> USE DEF Inv
<1>1. \A e, f \in entries : SymbolOf(e) = SymbolOf(f) => e = f
  BY DEF OnePerSymbol
<1>2. \A e : SymbolOf(e)' = SymbolOf(e)
  BY DEF SymbolOf
<1>3. SUFFICES \A e, f \in entries' : SymbolOf(e) = SymbolOf(f) => e = f
  BY <1>2 DEF OnePerSymbol
<1>4. ASSUME NEW d \in approvals, Reserve(d)
      PROVE  \A e, f \in entries' : SymbolOf(e) = SymbolOf(f) => e = f
  <2> DEFINE new == [dec |-> d, state |-> "reserved"]
  <2>1. entries' = entries \union {new} /\ \A e \in entries : SymbolOf(e) # SymbolOf(new)
    BY <1>4 DEF Reserve, SymbolOf
  <2>2. QED
    BY <1>1, <2>1
<1>5. ASSUME NEW e \in entries, NEW state, Become(e, state)
      PROVE  \A f, g \in entries' : SymbolOf(f) = SymbolOf(g) => f = g
  <2> DEFINE new == [e EXCEPT !.state = state]
  <2>1. entries' = (entries \ {e}) \union {new} /\ SymbolOf(new) = SymbolOf(e)
    BY <1>5 DEF Become, SymbolOf, TypeOK, Entry
  <2>2. \A f \in entries \ {e} : SymbolOf(f) # SymbolOf(new)
    BY <1>1, <2>1
  <2>3. QED
    BY <1>1, <2>1, <2>2
<1>6. QED
  BY <1>1, <1>4, <1>5, EntriesStep

\* A fill opens a position that was flat; closing one leaves its row.
LEMMA PositionStep == Inv /\ [Next]_vars => PositionsAreEntries'
<1> SUFFICES ASSUME Inv, [Next]_vars
             PROVE  PositionsAreEntries'
  OBVIOUS
<1> USE DEF Inv
<1> DEFINE Backed(p, rows, s) == \E e \in rows :
      e.state = "filled" /\ SymbolOf(e) = s /\ p[s] = NotionalOf(e)
<1>1. \A s \in Symbols : positions[s] > 0 => Backed(positions, entries, s)
  BY DEF PositionsAreEntries, Open
<1>2. \A e : SymbolOf(e)' = SymbolOf(e) /\ NotionalOf(e)' = NotionalOf(e)
  BY DEF SymbolOf, NotionalOf, Notional, Qty, Lots
<1>3. SUFFICES \A s \in Symbols : positions'[s] > 0 => Backed(positions', entries', s)
  BY <1>2 DEF PositionsAreEntries, Open
<1>4. ASSUME NEW e \in entries, e.state \in {"reserved", "sent"},
             NEW state, Become(e, state)
      PROVE  \A s \in Symbols :
               (s # SymbolOf(e) /\ positions'[s] = positions[s] /\ positions'[s] > 0)
                 => Backed(positions', entries', s)
  <2>1. \A f \in entries : f.state = "filled" => f \in entries'
    BY <1>4 DEF Become
  <2>2. QED
    BY <1>1, <2>1
<1>5. ASSUME NEW e \in entries, e.state \in {"reserved", "sent"}
      PROVE  positions[SymbolOf(e)] = 0 /\ SymbolOf(e) \in Symbols
  <2>1. SymbolOf(e) \in Symbols
    BY SpecOf DEF SymbolOf, TypeOK, Entry, Decision
  <2>2. ~Backed(positions, entries, SymbolOf(e))
    BY <1>5 DEF OnePerSymbol
  <2>3. QED
    BY <1>1, <2>1, <2>2 DEF TypeOK
<1>6. ASSUME NEW e \in entries, Send(e) \/ CancelByExchange(e)
      PROVE  \A s \in Symbols : positions'[s] > 0 => Backed(positions', entries', s)
  <2>1. /\ e.state \in {"reserved", "sent"} /\ positions' = positions
        /\ \E state \in {"sent", "done"} : Become(e, state)
    BY <1>6 DEF Send, CancelByExchange, exchange
  <2>2. QED
    BY <1>4, <1>5, <2>1
<1>7. ASSUME NEW e \in entries, Fill(e)
      PROVE  \A s \in Symbols : positions'[s] > 0 => Backed(positions', entries', s)
  <2> DEFINE new == [e EXCEPT !.state = "filled"]
  <2>1. /\ e.state = "sent" /\ Become(e, "filled")
        /\ positions' = [positions EXCEPT ![SymbolOf(e)] = @ + NotionalOf(e)]
    BY <1>7 DEF Fill
  <2>2. positions[SymbolOf(e)] = 0 /\ SymbolOf(e) \in Symbols
    BY <1>5, <2>1
  <2>3. /\ new \in entries' /\ new.state = "filled"
        /\ SymbolOf(new) = SymbolOf(e) /\ NotionalOf(new) = NotionalOf(e)
    BY <2>1 DEF Become, SymbolOf, NotionalOf, TypeOK, Entry
  <2>4. NotionalOf(e) \in Nat
    BY NotionalIsNat DEF TypeOK, Entry, Decision, NotionalOf
  <2>5. positions'[SymbolOf(e)] = NotionalOf(new)
    BY <2>1, <2>2, <2>3, <2>4 DEF TypeOK
  <2>6. Backed(positions', entries', SymbolOf(e))
    BY <2>3, <2>5
  <2>7. \A s \in Symbols \ {SymbolOf(e)} : positions'[s] = positions[s]
    BY <2>1 DEF TypeOK
  <2>8. QED
    BY <1>4, <2>1, <2>6, <2>7
<1>8. ASSUME entries \subseteq entries',
             \A s \in Symbols : positions'[s] > 0 => positions'[s] = positions[s]
      PROVE  \A s \in Symbols : positions'[s] > 0 => Backed(positions', entries', s)
  BY <1>1, <1>8
<1>9. ASSUME NEW s \in Symbols, NEW result \in Results, Close(s, result)
      PROVE  /\ entries \subseteq entries'
             /\ \A t \in Symbols : positions'[t] > 0 => positions'[t] = positions[t]
  BY <1>9 DEF Close, TypeOK, database
<1>10. ASSUME NEW d \in approvals, Reserve(d)
       PROVE  entries \subseteq entries' /\ positions' = positions
  BY <1>10 DEF Reserve, exchange
<1>11. CASE UNCHANGED <<entries, positions>>
  BY <1>8, <1>11
<1>12. QED
  <2> HIDE DEF Backed
  <2>1. QED
    BY <1>6, <1>7, <1>8, <1>9, <1>10, <1>11
    DEF Next, Approval, Trading, vars, database, exchange, BlockEarly, Begin,
        ReadWallet, ReadPositions, DataUnavailable, Decide, Persist, IncidentFails,
        StatementFails, Crash, Expire

LEMMA InvStep == Inv /\ [Next]_vars => Inv'
BY TypeStep, HeldStep, FlatStep, AnswersStep, FitStep, SymbolStep, PositionStep
DEF Inv

\* The inductive invariant holds in every reachable state.
THEOREM Invariant == Spec => []Inv
BY InvInit, InvStep, PTL DEF Spec

\* No approval is given by a handler while a position that it should have
\* seen is open, in whatever order reads, fills and closes come.
THEOREM FlatApprovals == Spec => []ApprovalSawFlat
<1>1. Inv => ApprovalSawFlat
  BY DEF Inv
<1>2. QED
  BY <1>1, Invariant, PTL

\* A process that lives gives one verdict per key and candidate.
THEOREM OneVerdict == Spec => []OneVerdictPerRequest
<1>1. Inv => OneVerdictPerRequest
  BY DEF Inv, AnsweredOnce, OneVerdictPerRequest
<1>2. QED
  BY <1>1, Invariant, PTL

\* For every policy with non-negative costs: the base costs of an approved
\* trade, spread and funding left out, are less than one stop distance per
\* unit (compute_sizing_after_rounding against risk_budget_exceeded).
THEOREM RoundingPays == Spec => []CostsComeOutOfRounding
<1>1. Inv => CostsComeOutOfRounding
  BY DEF Inv, ApprovalsFit, Affordable, CostsFit, CostsComeOutOfRounding
<1>2. QED
  BY <1>1, Invariant, PTL

\* What holds in place of the caps of a day and of one position: for every
\* policy, an open position is one approved entry, no larger than sized, and
\* inside the risk budget, base costs included, and the leverage cap of the
\* equity it was sized by (approve_signal, reserve_order_intent).
THEOREM PositionBudget == Spec => []PositionsAreBudgeted
<1>1. Inv => PositionsAreBudgeted
  BY DEF Inv, PositionsAreEntries, ApprovalsFit, Affordable, PositionsAreBudgeted
<1>2. QED
  BY <1>1, Invariant, PTL

=============================================================================
