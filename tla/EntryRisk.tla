----------------------------- MODULE EntryRisk -----------------------------
(***************************************************************************)
(* How an entry gets its risk decision: POST /api/risk/approve with live   *)
(* data (app/api/routes/risk.py), the account it reads from the exchange   *)
(* in two calls (app/market_data/bybit_ingestion.py), sizing and approval  *)
(* (app/risk_engine), and what becomes of the decisions: live submission,  *)
(* two steps here and modelled in LiveSubmit, fills and closed positions.  *)
(*                                                                         *)
(* A process serves one request at a time, its handlers contain no await.  *)
(* Amounts, quantities and prices are integers, percentages are basis      *)
(* points (1/10000), and inequalities are multiplied out.                  *)
(***************************************************************************)
EXTENDS Integers

CONSTANTS
  Workers,      \* backend processes
  Keys,         \* values of the X-Idempotency-Key header
  Symbols,
  Candidates,   \* signal candidates an operator submits for approval
  Specs,        \* instrument rules of each symbol
  Markets,      \* what the order book and the funding history may show
  Policy,       \* RiskConfig and CostModel
  Deposit,      \* equity at the start of the day
  Results,      \* what closing a position may add to the equity
  Remains       \* what may be available beside positions and resting orders

\* sound: stop on the right side, invalidator, lineage and evidence are
\* there, no shadow or forbidden strategy.  permitted: symbol and strategy
\* are live in this phase.  dist: distance of entry and stop price.
Candidate == [symbol : Symbols, entry : Nat \ {0}, dist : Nat \ {0},
              edge : Int, sound : BOOLEAN, permitted : BOOLEAN,
              requires_ml : BOOLEAN]

ASSUME CandidatesAssumption == Candidates \subseteq Candidate

ASSUME SpecsAssumption ==
  Specs \in [Symbols -> [step : Nat \ {0}, min_qty : Nat \ {0},
                         min_notional : Nat \ {0}, max_leverage : Nat \ {0}]]

ASSUME MarketsAssumption == Markets \subseteq [spread : Nat, funding : Int, deep : BOOLEAN]

ASSUME PolicyAssumption ==
  Policy \in [risk : Nat \ {0}, leverage : Nat \ {0}, reserve : Nat,
              daily : Nat, weekly : Nat, min_liq : Nat, max_spread : Nat,
              min_edge : Nat, maker : Nat, slippage : Nat,
              funding_buffer : Nat, safety : Nat]

ASSUME MoneyAssumption ==
  Deposit \in Nat \ {0} /\ Results \subseteq Int /\ Remains \subseteq Int

VARIABLES
  handler,     \* the approval each process works on
  memory,      \* InMemoryIdempotencyStore of each process: answers by key
  told,        \* history: the answers each process has given since it started
  signals,     \* signals.status
  approvals,   \* risk_decisions: the approved rows that have not expired
  entries,     \* orders: the rows, and what the exchange knows of them
  incident,    \* an OPEN HIGH incident: the live gate is closed
  positions,   \* exchange: notional of the open position, 0 when flat
  equity,      \* exchange: equity of the account
  lost         \* exchange: losses realised today

database == <<signals, approvals, entries, incident>>
exchange == <<positions, equity, lost>>
vars == <<handler, memory, told, database, exchange>>

Idle == [pc |-> "idle"]
Statuses == {"ok", "rejected", "blocked"}
Answer == [key : Keys, cand : Candidates, status : Statuses]
\* A rejected or an expired row has no effect on anything any more.
Decision == [cand : Candidates, equity : Nat]
\* reserved: the row is there, and the exchange has not been asked yet.
Entry == [dec : Decision, state : {"reserved", "sent", "filled", "done"}]

-----------------------------------------------------------------------------
(***************************************************************************)
(* compute_sizing_after_rounding and CostModel.                            *)
(***************************************************************************)
Abs(n) == IF n < 0 THEN -n ELSE n

\* round_trip_cost_bps of a maker order.
Cost(m) == 2 * Policy.maker + m.spread + Policy.slippage + Abs(m.funding)
             + Policy.funding_buffer + Policy.safety

\* What every trade costs, whatever the market shows.
BaseCost == 2 * Policy.maker + Policy.slippage + Policy.funding_buffer
              + Policy.safety

\* floor_to_step(equity * risk_pct / dist, qty_step), in steps.
Lots(c, e) == (e * Policy.risk) \div (10000 * c.dist * Specs[c.symbol].step)
Qty(c, e) == Lots(c, e) * Specs[c.symbol].step
Notional(c, e) == Qty(c, e) * c.entry

\* Faulty: max_loss_if_stop leaves the exit costs out.
LossAtStopOnly(c, e, cost) == Qty(c, e) * c.dist * 10000

\* max_loss_if_stop, in 1/10000.
Loss(c, e, cost) == Qty(c, e) * c.dist * 10000 + Notional(c, e) * cost

\* The positions an approval counts are none, see Mismatch: portfolio and
\* beta exposure after the trade are its notional.
ReserveShort(c, e, available, cost) ==
  /\ Policy.reserve > 0
  /\ Policy.leverage * (available * 10000 - Notional(c, e) * cost)
       - Notional(c, e) * 10000
     < Policy.reserve * e * Policy.leverage

\* 1 / leverage - 1% against min_liq_distance_pct and 2.5 stop distances.
LiquidationClose(c, e) ==
  \/ 10000 * e < (Policy.min_liq + 100) * Notional(c, e)
  \/ 100 * e * c.entry < (c.entry + 250 * c.dist) * Notional(c, e)

\* realized_negative_today_usdt and .._week_usdt of a live snapshot: the
\* ingestion leaves them at their default.
Realized == 0

(***************************************************************************)
(* approve_signal, positively: no reason against candidate c is found.  r  *)
(* is what the handler has read of the account, m the market.              *)
(***************************************************************************)
WithinLimits(c, r, cost) ==
  /\ Qty(c, r.equity) >= Specs[c.symbol].min_qty
  /\ Notional(c, r.equity) >= Specs[c.symbol].min_notional
  /\ Loss(c, r.equity, cost) <= r.equity * Policy.risk
  /\ \A limit \in {Policy.daily, Policy.weekly} :
       /\ r.equity * limit > 10000 * Realized
       /\ Loss(c, r.equity, cost) <= r.equity * limit - 10000 * Realized
  /\ Notional(c, r.equity) <= Policy.leverage * r.equity
  /\ Notional(c, r.equity) <= Specs[c.symbol].max_leverage * r.equity
  /\ ~ReserveShort(c, r.equity, r.available, cost)
  /\ ~LiquidationClose(c, r.equity)
  /\ c.edge - cost > Policy.min_edge

\* fresh: nothing read has expired.  ml_ready: the model of the strategy is
\* there and healthy.
Approves(c, r, m, fresh, ml_ready) ==
  /\ fresh
  /\ c.sound
  /\ m.deep
  /\ m.spread <= Policy.max_spread
  /\ ~r.mismatch
  /\ c.requires_ml => ml_ready
  /\ WithinLimits(c, r, Cost(m))

-----------------------------------------------------------------------------
(***************************************************************************)
(* The handler of risk/approve.                                            *)
(***************************************************************************)
Open == {s \in Symbols : positions[s] > 0}

\* Faulty: positions of other symbols are not looked at.
MismatchOfSymbol(c) == c.symbol \in Open

\* position_mismatch: any open position, until reconciliation.
Mismatch(c) == Open # {}

Init ==
  /\ handler = [w \in Workers |-> Idle]
  /\ memory = [w \in Workers |-> {}]
  /\ told = [w \in Workers |-> {}]
  /\ signals = [c \in Candidates |-> "absent"]
  /\ approvals = {}
  /\ entries = {}
  /\ incident = FALSE
  /\ positions = [s \in Symbols |-> 0]
  /\ equity = Deposit
  /\ lost = 0

\* The request reaches the handler with a key this process has not answered.
\* An answered key is answered from memory, or refused for another candidate.
NewKey(w, k) ==
  /\ handler[w] = Idle
  /\ \A a \in memory[w] : a.key # k

\* Faulty: only what was approved is remembered.
RememberApproved(w, answer) ==
  memory' = [memory EXCEPT ![w] =
    IF answer.status = "ok" THEN @ \union {answer} ELSE @]

\* _remember_and_return.
Remember(w, answer) == memory' = [memory EXCEPT ![w] = @ \union {answer}]

AnswerWith(w, k, c, status) ==
  LET answer == [key |-> k, cand |-> c, status |-> status]
  IN  /\ Remember(w, answer)
      /\ told' = [told EXCEPT ![w] = @ \union {answer}]
      /\ handler' = [handler EXCEPT ![w] = Idle]

\* The phase forbids the candidate.  There is a repository: a live process
\* does not start without one.
BlockEarly(w, k, c) ==
  /\ NewKey(w, k)
  /\ ~c.permitted
  /\ AnswerWith(w, k, c, "blocked")
  /\ UNCHANGED <<database, exchange>>

\* held: history, the symbols whose position has been open ever since.
Begin(w, k, c) ==
  /\ NewKey(w, k)
  /\ c.permitted
  /\ handler' = [handler EXCEPT ![w] =
       [pc |-> "wallet", key |-> k, cand |-> c, held |-> Open]]
  /\ UNCHANGED <<memory, told, database, exchange>>

\* totalAvailableBalance.
Reported ==
  IF Open = {} /\ \A e \in entries : e.state # "sent"
    THEN {equity} ELSE Remains

\* Zero counts as missing, and what is missing is read as the equity.
Available(n) == IF n = 0 THEN equity ELSE IF n < 0 THEN 0 ELSE n

\* get_wallet_balance.
ReadWallet(w) ==
  /\ handler[w].pc = "wallet"
  /\ \E n \in Reported :
       handler' = [handler EXCEPT ![w] =
         [pc |-> "positions", key |-> @.key, cand |-> @.cand, held |-> @.held,
          equity |-> equity, available |-> Available(n)]]
  /\ UNCHANGED <<memory, told, database, exchange>>

\* get_positions.
ReadPositions(w) ==
  /\ handler[w].pc = "positions"
  /\ handler' = [handler EXCEPT ![w] =
       [pc |-> "decide", key |-> @.key, cand |-> @.cand, held |-> @.held,
        equity |-> @.equity, available |-> @.available,
        mismatch |-> Mismatch(@.cand)]]
  /\ UNCHANGED <<memory, told, database, exchange>>

\* A call to the exchange, or writing down what it said, has failed.
DataUnavailable(w) ==
  /\ handler[w].pc \in {"wallet", "positions", "decide"}
  /\ signals' = [signals EXCEPT ![handler[w].cand] = "BLOCKED"]
  /\ incident' = TRUE
  /\ AnswerWith(w, handler[w].key, handler[w].cand, "blocked")
  /\ UNCHANGED <<approvals, entries, exchange>>

\* Faulty: a status that the trigger of table orders does not refuse.
VerdictUnknown(approved) == IF approved THEN "APPROVED" ELSE "RISK_DENIED"

Verdict(approved) == IF approved THEN "APPROVED" ELSE "RISK_REJECTED"

\* approve_signal, then persist_signal.
Decide(w) ==
  /\ handler[w].pc = "decide"
  /\ \E approved \in BOOLEAN :
       /\ \E m \in Markets, fresh, ml_ready \in BOOLEAN :
            approved = Approves(handler[w].cand, handler[w], m, fresh, ml_ready)
       /\ handler' = [handler EXCEPT ![w] =
            [pc |-> "decision", key |-> @.key, cand |-> @.cand, held |-> @.held,
             equity |-> @.equity, approved |-> approved]]
       /\ signals' = [signals EXCEPT ![handler[w].cand] = Verdict(approved)]
  /\ UNCHANGED <<memory, told, approvals, entries, incident, exchange>>

\* persist_risk_decision, and the answer.
Persist(w) ==
  /\ handler[w].pc = "decision"
  /\ approvals' = approvals \union
       {d \in {[cand |-> handler[w].cand, equity |-> handler[w].equity]} :
          handler[w].approved}
  /\ AnswerWith(w, handler[w].key, handler[w].cand,
                IF handler[w].approved THEN "ok" ELSE "rejected")
  /\ UNCHANGED <<signals, entries, incident, exchange>>

\* Neither what has been read nor the incident could be written down: 500.
IncidentFails(w) ==
  /\ handler[w].pc \in {"wallet", "positions", "decide"}
  /\ signals' = [signals EXCEPT ![handler[w].cand] = "BLOCKED"]
  /\ handler' = [handler EXCEPT ![w] = Idle]
  /\ UNCHANGED <<memory, told, approvals, entries, incident, exchange>>

\* A statement fails where nobody catches it: 500, and nothing remembered.
StatementFails(w) ==
  /\ handler[w] # Idle
  /\ handler' = [handler EXCEPT ![w] = Idle]
  /\ UNCHANGED <<memory, told, database, exchange>>

Crash(w) ==
  /\ handler' = [handler EXCEPT ![w] = Idle]
  /\ memory' = [memory EXCEPT ![w] = {}]
  /\ told' = [told EXCEPT ![w] = {}]
  /\ UNCHANGED <<database, exchange>>

-----------------------------------------------------------------------------
(***************************************************************************)
(* What becomes of a decision, and the exchange.                           *)
(***************************************************************************)
Expire(d) ==
  /\ d \in approvals
  /\ approvals' = approvals \ {d}
  /\ UNCHANGED <<handler, memory, told, signals, entries, incident, exchange>>

SymbolOf(e) == e.dec.cand.symbol
NotionalOf(e) == Notional(e.dec.cand, e.dec.equity)
Become(e, state) == entries' = (entries \ {e}) \union {[e EXCEPT !.state = state]}

\* Faulty: the unique index of one pending entry per symbol is missing.
ReserveAnother(d) ==
  /\ d \in approvals
  /\ signals[d.cand] # "RISK_REJECTED"
  /\ ~incident
  /\ entries' = entries \union {[dec |-> d, state |-> "reserved"]}
  /\ UNCHANGED <<handler, memory, told, signals, approvals, incident, exchange>>

\* live-submit on the deployed schema, one step of the surroundings here; how
\* its gate, reads and INSERT interleave is what LiveSubmit is about.  The row of a symbol keeps every other one out.
Reserve(d) ==
  /\ d \in approvals
  /\ signals[d.cand] # "RISK_REJECTED"
  /\ ~incident
  /\ \A e \in entries : SymbolOf(e) # d.cand.symbol
  /\ entries' = entries \union {[dec |-> d, state |-> "reserved"]}
  /\ UNCHANGED <<handler, memory, told, signals, approvals, incident, exchange>>

\* place_order, if it reaches the exchange: the decision is not looked at
\* again.
Send(e) ==
  /\ e \in entries /\ e.state = "reserved"
  /\ Become(e, "sent")
  /\ UNCHANGED <<handler, memory, told, signals, approvals, incident, exchange>>

\* The exchange fills the resting order, or cancels it (PostOnly).
Fill(e) ==
  /\ e \in entries /\ e.state = "sent"
  /\ positions' = [positions EXCEPT ![SymbolOf(e)] = @ + NotionalOf(e)]
  /\ Become(e, "filled")
  /\ UNCHANGED <<handler, memory, told, signals, approvals, incident, equity, lost>>

CancelByExchange(e) ==
  /\ e \in entries /\ e.state = "sent"
  /\ Become(e, "done")
  /\ UNCHANGED <<handler, memory, told, signals, approvals, incident, exchange>>

\* Somebody closes the position: the operator, or the exchange.
Close(s, result) ==
  /\ positions[s] > 0
  /\ equity + result > 0
  /\ positions' = [positions EXCEPT ![s] = 0]
  /\ equity' = equity + result
  /\ lost' = IF result < 0 THEN lost - result ELSE lost
  /\ handler' = [w \in Workers |->
       IF handler[w] = Idle THEN Idle ELSE [handler[w] EXCEPT !.held = @ \ {s}]]
  /\ UNCHANGED <<memory, told, database>>

Approval ==
  \E w \in Workers :
    \/ \E k \in Keys, c \in Candidates : BlockEarly(w, k, c) \/ Begin(w, k, c)
    \/ ReadWallet(w)
    \/ ReadPositions(w)
    \/ DataUnavailable(w)
    \/ Decide(w)
    \/ Persist(w)
    \/ IncidentFails(w)
    \/ StatementFails(w)
    \/ Crash(w)

Trading ==
  \/ \E d \in approvals : Expire(d) \/ Reserve(d)
  \/ \E e \in entries : Send(e) \/ Fill(e) \/ CancelByExchange(e)
  \/ \E s \in Symbols, result \in Results : Close(s, result)

Next == Approval \/ Trading

Spec == Init /\ [][Next]_vars

-----------------------------------------------------------------------------
(***************************************************************************)
(* Properties.                                                             *)
(***************************************************************************)
Begun == [pc : {"wallet"}, key : Keys, cand : Candidates, held : SUBSET Symbols]
WalletRead ==
  [pc : {"positions"}, key : Keys, cand : Candidates, held : SUBSET Symbols,
   equity : Nat, available : Nat]
AccountRead ==
  [pc : {"decide"}, key : Keys, cand : Candidates, held : SUBSET Symbols,
   equity : Nat, available : Nat, mismatch : BOOLEAN]
Decided ==
  [pc : {"decision"}, key : Keys, cand : Candidates, held : SUBSET Symbols,
   equity : Nat, approved : BOOLEAN]

TypeOK ==
  /\ handler \in [Workers -> {Idle} \union Begun \union WalletRead
                            \union AccountRead \union Decided]
  /\ memory \in [Workers -> SUBSET Answer]
  /\ told \in [Workers -> SUBSET Answer]
  /\ signals \in [Candidates -> {"absent", "APPROVED", "RISK_REJECTED", "BLOCKED"}]
  /\ approvals \subseteq Decision
  /\ entries \subseteq Entry
  /\ incident \in BOOLEAN
  /\ positions \in [Symbols -> Nat]
  /\ equity \in Nat \ {0}
  /\ lost \in Nat

\* An approval never overlooks a position: no position that was open when
\* the request began and is still open when its decision is made lets the
\* decision be an approval, however the two reads of the account interleave
\* with fills and closes (fetch_account_snapshot, approve_signal).
ApprovalSawFlat ==
  \A w \in Workers :
    (handler[w].pc = "decision" /\ handler[w].approved)
      => handler[w].held = {}

\* While a process lives, a request it has answered gets the same answer
\* under the same key: a rejected candidate cannot be asked for until the
\* exchange looks better (approve, the cached envelope).
OneVerdictPerRequest ==
  \A w \in Workers : \A a, b \in told[w] :
    (a.key = b.key /\ a.cand = b.cand) => a.status = b.status

\* The sizing spends the whole risk budget on the distance to the stop, so
\* the costs have to fit into what rounding down to the step leaves over:
\* an approved trade has fewer steps than stop distances fit into the base
\* costs of one unit, those of every market; spread and funding come on top
\* (compute_sizing_after_rounding against risk_budget_exceeded).
CostsComeOutOfRounding ==
  \A d \in approvals :
    Lots(d.cand, d.equity) * d.cand.entry * BaseCost < 10000 * d.cand.dist

\* Whatever was approved, sent and filled in between, an open position is
\* one approved entry of its symbol, no larger than it was sized: what it
\* loses between entry and stop, base costs included (spread and funding are
\* not), is inside the risk budget of the equity its approval read, and its
\* notional inside the leverage cap (approve_signal, reserve_order_intent,
\* one_pending_entry_per_symbol).
Budgeted(c, e) ==
  /\ Loss(c, e, BaseCost) <= e * Policy.risk
  /\ Notional(c, e) <= Policy.leverage * e
PositionsAreBudgeted ==
  \A s \in Open : \E e \in entries :
    /\ e.state = "filled" /\ SymbolOf(e) = s
    /\ positions[s] = NotionalOf(e)
    /\ Budgeted(e.dec.cand, e.dec.equity)

\* config/account_phase.yaml, max_risk_positions: 1.
OnePositionAtRisk ==
  \A s, t \in Open : s = t

\* The daily cap as the documents state it: no approval whose loss would
\* take the losses of the day over the cap.
DailyCapIsHard ==
  [][\A d \in approvals' \ approvals : d.equity = equity =>
       lost * 10000 + Loss(d.cand, d.equity, BaseCost)
         <= d.equity * Policy.daily]_vars
=============================================================================
