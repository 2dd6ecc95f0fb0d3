-------------------------- MODULE RegimeClassifier --------------------------
(***************************************************************************)
(* The regime classifier (app/regime/classifier.py): one reading of market *)
(* and account becomes a set of candidate regimes, the safest candidate is *)
(* taken, and a per-symbol memory (cooldown after DE_RISK, hysteresis      *)
(* towards less safe regimes) decides which regime is returned.            *)
(*                                                                         *)
(* Time is counted down: cooldown[s] is max(cooldown_until - now, 0), in   *)
(* ticks. PerRequest is TRUE for the classifier as the routes use it: a    *)
(* new RegimeClassifier, with an empty memory, for every request.          *)
(***************************************************************************)
EXTENDS Integers, FiniteSets

CONSTANTS Symbols,          \* the symbols classified
          Readings,         \* the market and account readings offered
          Phase,            \* account.phase
          HysteresisBars,   \* hysteresis_bars
          CooldownSeconds,  \* cooldown_seconds, in ticks
          PerRequest,       \* TRUE: a new classifier for every call
          None              \* no regime, no reading yet

\* priority: a smaller rank is a safer regime
Rank == [DE_RISK |-> 0, NO_TRADE |-> 1, NEWS_RISK |-> 2, LIQUIDATION |-> 3,
         HIGH_VOL |-> 4, TREND_UP |-> 5, TREND_DOWN |-> 6, RANGE |-> 7,
         LOW_VOL |-> 8]
Regimes == DOMAIN Rank
IMMEDIATE == {"DE_RISK", "NO_TRADE", "NEWS_RISK", "LIQUIDATION"}
NORMAL == {"HIGH_VOL", "TREND_UP", "TREND_DOWN", "RANGE", "LOW_VOL"}

\* oi in percent, volatility in bps, atr in thousandths, volume_z and spread
\* in tenths (of a bps); stop is kill_switch or a loss limit hit, fresh is
\* market.fresh and account.fresh and market.funding_fresh
Reading == [stop : BOOLEAN, news : BOOLEAN, fresh : BOOLEAN, oi : Int,
            volatility : Int, atr : Int, volume_z : Int, btc : BOOLEAN,
            spread : Int]

ASSUME ConstantsAssumption ==
    /\ Readings \subseteq Reading
    /\ HysteresisBars \in Nat \ {0}
    /\ CooldownSeconds \in Nat
    /\ Phase \in Nat
    /\ PerRequest \in BOOLEAN
    /\ None \notin Regimes
    /\ None \notin [reading : Readings, raw : Regimes, regime : Regimes, calm : Nat]

-----------------------------------------------------------------------------
safer_regime(regimes) ==
    CHOOSE r \in regimes : \A q \in regimes : Rank[r] <= Rank[q]

\* seeded fault: the reading's freshness is not looked at
SignIgnoresFreshness(r, m) ==
    \/ r = "DE_RISK" /\ m.stop
    \/ r = "NEWS_RISK" /\ m.news
    \/ r = "LIQUIDATION" /\ m.oi <= -12 /\ m.volatility > 120
    \/ r = "HIGH_VOL" /\ (m.volatility > 250 \/ m.atr > 40)
    \/ r = "TREND_UP" /\ m.volume_z >= 20 /\ m.atr >= 12 /\ m.btc
    \/ r = "RANGE" /\ m.atr <= 18 /\ m.spread <= 30
    \/ r = "LOW_VOL" /\ m.atr <= 6 /\ m.volume_z < 5

\* the reading shows a sign of regime r; nothing shows TREND_DOWN
Sign(r, m) ==
    \/ r = "DE_RISK" /\ m.stop
    \/ r = "NEWS_RISK" /\ m.news
    \/ r = "NO_TRADE" /\ ~m.fresh
    \/ r = "LIQUIDATION" /\ m.oi <= -12 /\ m.volatility > 120
    \/ r = "HIGH_VOL" /\ (m.volatility > 250 \/ m.atr > 40)
    \/ r = "TREND_UP" /\ m.volume_z >= 20 /\ m.atr >= 12 /\ m.btc
    \/ r = "RANGE" /\ m.atr <= 18 /\ m.spread <= 30
    \/ r = "LOW_VOL" /\ m.atr <= 6 /\ m.volume_z < 5

raw_candidates(m) ==
    LET found == {r \in Regimes : Sign(r, m)}
    IN  IF found = {} THEN {"NO_TRADE"} ELSE found

Raw(m) == safer_regime(raw_candidates(m))

ShadowStrategies == {"carry", "pair_statarb"}   \* shadow-only in phases 0, 1
Strategies == {"breakout", "micro_grid", "no_trade", "de_risk"}
                  \cup ShadowStrategies
Entries == Strategies \ {"no_trade", "de_risk"}

strategy_allowed(strategy, regime) ==
    /\ ~(strategy \in ShadowStrategies /\ Phase <= 1)
    /\ strategy = "micro_grid" => regime = "RANGE"
    /\ strategy = "breakout" => regime \in {"TREND_UP", "TREND_DOWN", "HIGH_VOL"}
    /\ regime \in IMMEDIATE => strategy \notin Entries

-----------------------------------------------------------------------------
VARIABLES last_regime,   \* the regime remembered for each symbol
          pending,       \* pending_regime and pending_count
          cooldown,      \* ticks until cooldown_until, 0 when over
          log,           \* history: the last call's reading, raw and returned
                         \* regime, and calm at that time
          streak,        \* history: calls in a row with the same raw regime
          calm           \* history: ticks since the last call that saw a stop

memory == <<last_regime, pending, cooldown>>
vars == <<last_regime, pending, cooldown, log, streak, calm>>

NoPending == [regime |-> None, count |-> 0]
Call == [reading : Readings, raw : Regimes, regime : Regimes,
         calm : 0..CooldownSeconds]

Init ==
    /\ last_regime = [s \in Symbols |-> None]
    /\ pending = [s \in Symbols |-> NoPending]
    /\ cooldown = [s \in Symbols |-> 0]
    /\ log = [s \in Symbols |-> None]
    /\ streak = [s \in Symbols |-> 0]
    /\ calm = [s \in Symbols |-> CooldownSeconds]

\* the memory a call starts from
Previous(s) == IF PerRequest THEN None ELSE last_regime[s]
PendingOf(s) == IF PerRequest THEN NoPending ELSE pending[s]
CooldownOf(s) == IF PerRequest THEN 0 ELSE cooldown[s]

\* seeded fault: cooldown_until is not consulted
NeverResting(s, c) == FALSE

Resting(s, c) == c \in NORMAL /\ CooldownOf(s) > 0

\* a change to a less safe normal regime
Flip(s, c) ==
    /\ Previous(s) \in NORMAL
    /\ c \in NORMAL
    /\ Rank[c] > Rank[Previous(s)]

\* seeded fault: the count runs on whatever the pending regime is
CountsAnyRegime(s, c) == PendingOf(s).count + 1

\* seeded fault: the count starts again with every call
CountsNothing(s, c) == 1

\* pending_count after this call, if the flip is not taken
Count(s, c) == IF PendingOf(s).regime = c THEN PendingOf(s).count + 1 ELSE 1

\* seeded fault: one bar too many
HeldOneMore(s, c) ==
    Flip(s, c) /\ HysteresisBars > 1 /\ Count(s, c) <= HysteresisBars

Held(s, c) == Flip(s, c) /\ HysteresisBars > 1 /\ Count(s, c) < HysteresisBars

\* what the memory becomes and which regime is returned
Rest(s, c) ==
    /\ Resting(s, c)
    /\ last_regime' = [last_regime EXCEPT ![s] = "NO_TRADE"]
    /\ pending' = [pending EXCEPT ![s] = PendingOf(s)]

Hold(s, c) ==
    /\ ~Resting(s, c) /\ Held(s, c)
    /\ pending' = [pending EXCEPT ![s] = [regime |-> c, count |-> Count(s, c)]]
    /\ last_regime' = [last_regime EXCEPT ![s] = safer_regime({Previous(s), c})]

Adopt(s, c) ==
    /\ ~Resting(s, c) /\ ~Held(s, c)
    /\ last_regime' = [last_regime EXCEPT ![s] = c]
    /\ pending' = [pending EXCEPT ![s] = NoPending]

StartCooldown(s, c) ==
    cooldown' = [cooldown EXCEPT ![s] =
                    IF c = "DE_RISK" THEN CooldownSeconds ELSE CooldownOf(s)]

Remember(s, m, c) ==
    /\ calm' = [calm EXCEPT ![s] = IF m.stop THEN 0 ELSE calm[s]]
    /\ log' = [log EXCEPT ![s] =
                  [reading |-> m, raw |-> c, regime |-> last_regime'[s],
                   calm |-> calm'[s]]]
    /\ streak' = [streak EXCEPT ![s] =
                     IF log[s] = None \/ log[s].raw # c THEN 1
                     ELSE IF streak[s] < HysteresisBars THEN streak[s] + 1
                     ELSE streak[s]]

\* classify(market, account) for one symbol
Classify(s, m) ==
    LET c == Raw(m)
    IN  /\ StartCooldown(s, c)
        /\ Rest(s, c) \/ Hold(s, c) \/ Adopt(s, c)
        /\ Remember(s, m, c)

Tick ==
    /\ \E s \in Symbols : cooldown[s] > 0 \/ calm[s] < CooldownSeconds
    /\ cooldown' = [s \in Symbols |-> IF cooldown[s] > 0 THEN cooldown[s] - 1 ELSE 0]
    /\ calm' = [s \in Symbols |-> IF calm[s] < CooldownSeconds THEN calm[s] + 1
                                  ELSE calm[s]]
    /\ UNCHANGED <<last_regime, pending, log, streak>>

Next == Tick \/ \E s \in Symbols, m \in Readings : Classify(s, m)

Spec == Init /\ [][Next]_vars

\* callers keep asking about every symbol, and time passes
Fairness ==
    /\ WF_vars(Tick)
    /\ \A s \in Symbols : WF_vars(\E m \in Readings : Classify(s, m))
FairSpec == Spec /\ Fairness

-----------------------------------------------------------------------------
\* The memory keeps its shape: a pending regime is a normal one whose count
\* has not reached hysteresis_bars.
TypeOK ==
    /\ last_regime \in [Symbols -> Regimes \cup {None}]
    /\ pending \in [Symbols -> [regime : NORMAL \cup {None},
                                count : 0..(HysteresisBars - 1)]]
    /\ cooldown \in [Symbols -> 0..CooldownSeconds]
    /\ log \in [Symbols -> Call \cup {None}]
    /\ streak \in [Symbols -> 0..HysteresisBars]
    /\ calm \in [Symbols -> 0..CooldownSeconds]

EntryPermitted(s) ==
    /\ log[s] # None
    /\ \E e \in Entries : strategy_allowed(e, log[s].regime)

\* An entry strategy is permitted only by a regime returned for a fresh
\* reading without stop, news risk or open-interest flush, whatever the memory
\* held (_raw_candidates, safer_regime, hysteresis and strategy_allowed).
EntriesOnlyInCalm ==
    \A s \in Symbols : EntryPermitted(s) =>
        LET m == log[s].reading
        IN  m.fresh /\ ~m.stop /\ ~m.news /\ (m.oi > -12 \/ m.volatility <= 120)

\* After a call that saw a stop no entry is permitted until the cooldown has
\* passed, whatever the calls in between have seen (_apply_cooldown_and_hysteresis).
RestAfterStop ==
    \A s \in Symbols : EntryPermitted(s) => log[s].calm = CooldownSeconds

\* Between two normal regimes the returned regime becomes less safe only after
\* hysteresis_bars calls in a row with that raw regime (no flip-flop).
NoHastyFlip ==
    [][\A s \in Symbols :
          (/\ log[s] # None /\ log[s].regime \in NORMAL
           /\ log'[s].regime \in NORMAL
           /\ Rank[log'[s].regime] > Rank[log[s].regime]) =>
              streak'[s] = HysteresisBars]_vars

\* A raw regime that stays is returned in the end: neither the cooldown nor the
\* hysteresis holds a steady market back for ever.
SteadyRegimeReturned ==
    \A s \in Symbols : \A c \in NORMAL :
        <>[](log[s] # None /\ log[s].raw = c) =>
            <>[](log[s] # None /\ log[s].regime = c)

=============================================================================
