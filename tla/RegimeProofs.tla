---------------------------- MODULE RegimeProofs ----------------------------
(***************************************************************************)
(* Proofs about RegimeClassifier for any set of symbols and readings, any  *)
(* hysteresis_bars >= 1 and any cooldown. The invariants about the memory  *)
(* are those of a classifier that is kept between calls; what holds of one *)
(* made for every request as well follows from a smaller invariant.        *)
(***************************************************************************)
EXTENDS RegimeClassifier, TLAPS

\* The fields of a reading, without the record's set.
LEMMA ReadingFields ==
    ASSUME NEW m \in Readings
    PROVE  /\ m.stop \in BOOLEAN /\ m.news \in BOOLEAN /\ m.fresh \in BOOLEAN
           /\ m.oi \in Int /\ m.volatility \in Int
BY ConstantsAssumption DEF Reading

\* The regimes are immediate or normal, never both.
LEMMA RegimeKinds ==
    /\ Regimes = IMMEDIATE \cup NORMAL
    /\ IMMEDIATE \cap NORMAL = {}
    /\ \A r \in Regimes : Rank[r] \in Nat
    /\ None \notin Regimes
BY ConstantsAssumption DEF Regimes, Rank, IMMEDIATE, NORMAL

\* safer_regime: a member of the set that no member precedes.
LEMMA SaferIsLeast ==
    ASSUME NEW R \in SUBSET Regimes, R # {}
    PROVE  /\ safer_regime(R) \in R
           /\ \A q \in R : Rank[safer_regime(R)] <= Rank[q]
<1>1. \E r \in R : \A q \in R : Rank[r] <= Rank[q]
  BY DEF Regimes, Rank
<1>. QED
  BY <1>1 DEF safer_regime

\* What a reading's raw regime says of the reading.
LEMMA RawSays ==
    ASSUME NEW m \in Readings
    PROVE  /\ Raw(m) \in Regimes
           /\ m.stop => Raw(m) = "DE_RISK"
           /\ Raw(m) = "DE_RISK" => m.stop
           /\ Raw(m) \in NORMAL =>
                 m.fresh /\ ~m.stop /\ ~m.news /\ (m.oi > -12 \/ m.volatility <= 120)
<1>. DEFINE R == raw_candidates(m)
<1>1. R \in SUBSET Regimes /\ R # {}
  BY DEF raw_candidates, Regimes, Rank
<1>2. /\ m.stop => "DE_RISK" \in R
      /\ "DE_RISK" \in R => m.stop
      /\ m.news => "NEWS_RISK" \in R
      /\ ~m.fresh => "NO_TRADE" \in R
      /\ m.oi <= -12 /\ m.volatility > 120 => "LIQUIDATION" \in R
  BY ReadingFields DEF raw_candidates, Sign, Regimes, Rank
<1>. HIDE DEF R
<1>3. /\ safer_regime(R) \in R
      /\ \A q \in R : Rank[safer_regime(R)] <= Rank[q]
  BY <1>1, SaferIsLeast
<1>4. /\ m.stop => Raw(m) = "DE_RISK"
      /\ Raw(m) = "DE_RISK" => m.stop
      /\ Raw(m) \in Regimes
  BY <1>1, <1>2, <1>3, ReadingFields DEF Raw, R, Rank, Regimes
<1>5. ASSUME Raw(m) \in NORMAL, NEW q \in IMMEDIATE PROVE q \notin R
  BY <1>1, <1>3, <1>5 DEF Raw, R, Rank, NORMAL, IMMEDIATE, Regimes
<1>. QED
  BY <1>2, <1>4, <1>5, ReadingFields DEF IMMEDIATE

-----------------------------------------------------------------------------
\* The cooldown and the time since the last stop measure the same interval.
CooldownMeasures == \A s \in Symbols : cooldown[s] = CooldownSeconds - calm[s]

\* The memory agrees with what was returned.
MemoryIsLog ==
    \A s \in Symbols : /\ last_regime[s] = None <=> log[s] = None
                       /\ log[s] # None => last_regime[s] = log[s].regime

\* The pending count is the number of calls in a row with the pending regime.
PendingIsStreak ==
    \A s \in Symbols :
        pending[s].regime # None => /\ log[s] # None
                                    /\ log[s].raw = pending[s].regime
                                    /\ pending[s].count = streak[s]

\* Nothing is pending during a cooldown.
NothingPendingInRest ==
    \A s \in Symbols : cooldown[s] > 0 => pending[s] = NoPending

\* A normal regime that is not the raw one is a flip being counted.
HeldIsPending ==
    \A s \in Symbols :
        (log[s] # None /\ log[s].regime \in NORMAL /\ log[s].regime # log[s].raw) =>
            pending[s].regime = log[s].raw

\* A normal regime is only returned for a normal raw regime, after the rest.
NormalIsCalm ==
    \A s \in Symbols :
        (log[s] # None /\ log[s].regime \in NORMAL) =>
            /\ log[s].raw \in NORMAL
            /\ log[s].raw = Raw(log[s].reading)
            /\ log[s].calm = CooldownSeconds

Inv == /\ TypeOK /\ CooldownMeasures /\ MemoryIsLog /\ PendingIsStreak
       /\ NothingPendingInRest /\ HeldIsPending /\ NormalIsCalm

LEMMA InitInv == Init => Inv
BY ConstantsAssumption, RegimeKinds
   DEF Init, Inv, TypeOK, CooldownMeasures, MemoryIsLog, PendingIsStreak,
       NothingPendingInRest, HeldIsPending, NormalIsCalm, NoPending

\* One call, seen from its symbol: all the memory it leaves, of a classifier
\* that is kept or not.
LEMMA CallOutcome ==
    ASSUME TypeOK, NEW s \in Symbols, NEW m \in Readings, Classify(s, m)
    PROVE  /\ Raw(m) \in Regimes
           /\ last_regime' = [last_regime EXCEPT ![s] = last_regime'[s]]
           /\ last_regime'[s] \in Regimes
           /\ pending' = [pending EXCEPT ![s] = pending'[s]]
           /\ pending'[s] \in [regime : NORMAL \cup {None},
                               count : 0..(HysteresisBars - 1)]
           /\ last_regime'[s] \in NORMAL =>
                 /\ Raw(m) \in NORMAL
                 /\ CooldownOf(s) = 0
           /\ \/ last_regime'[s] = Raw(m) /\ ~Held(s, Raw(m))
                 /\ pending'[s] = NoPending
              \/ last_regime'[s] = "NO_TRADE" /\ pending'[s] = PendingOf(s)
                 /\ Raw(m) \in NORMAL /\ CooldownOf(s) > 0
              \/ last_regime'[s] = Previous(s) /\ Held(s, Raw(m))
                 /\ pending'[s] = [regime |-> Raw(m), count |-> Count(s, Raw(m))]
<1>. DEFINE c == Raw(m)
<1>1. c \in Regimes
  BY RawSays
<1>. HIDE DEF c
<1>2. /\ Previous(s) \in Regimes \cup {None}
      /\ PendingOf(s) \in [regime : NORMAL \cup {None},
                           count : 0..(HysteresisBars - 1)]
      /\ CooldownOf(s) \in Nat
  BY ConstantsAssumption DEF TypeOK, Previous, PendingOf, CooldownOf, NoPending
<1>3. /\ last_regime \in [Symbols -> Regimes \cup {None}]
      /\ pending \in [Symbols -> [regime : NORMAL \cup {None},
                                  count : 0..(HysteresisBars - 1)]]
      /\ HysteresisBars \in Nat \ {0}
  BY ConstantsAssumption DEF TypeOK
<1>4. CASE Rest(s, c)
  <2>1. /\ last_regime' = [last_regime EXCEPT ![s] = "NO_TRADE"]
        /\ pending' = [pending EXCEPT ![s] = PendingOf(s)]
        /\ c \in NORMAL /\ CooldownOf(s) > 0
    BY <1>2, <1>4 DEF Rest, Resting
  <2>2. "NO_TRADE" \in Regimes \ NORMAL
    BY DEF Regimes, Rank, NORMAL
  <2>. QED
    BY <1>1, <1>2, <1>3, <2>1, <2>2 DEF c
<1>5. CASE Hold(s, c)
  <2>1. /\ last_regime' = [last_regime EXCEPT ![s] = safer_regime({Previous(s), c})]
        /\ pending' = [pending EXCEPT ![s] = [regime |-> c, count |-> Count(s, c)]]
        /\ ~(c \in NORMAL /\ CooldownOf(s) > 0)
        /\ Previous(s) \in NORMAL /\ c \in NORMAL
        /\ Rank[c] > Rank[Previous(s)]
        /\ Held(s, c) /\ Count(s, c) < HysteresisBars
    BY <1>2, <1>5 DEF Hold, Resting, Held, Flip
  <2>2. safer_regime({Previous(s), c}) = Previous(s)
    BY <2>1, RegimeKinds, SaferIsLeast
  <2>3. Count(s, c) \in 0..(HysteresisBars - 1)
    BY <1>2, <1>3, <2>1 DEF Count
  <2>. QED
    BY <1>1, <1>2, <1>3, <2>1, <2>2, <2>3, RegimeKinds DEF c
<1>6. CASE Adopt(s, c)
  <2>1. /\ last_regime' = [last_regime EXCEPT ![s] = c]
        /\ pending' = [pending EXCEPT ![s] = NoPending]
        /\ ~(c \in NORMAL /\ CooldownOf(s) > 0)
        /\ ~Held(s, c)
    BY <1>2, <1>6 DEF Adopt, Resting
  <2>2. NoPending \in [regime : NORMAL \cup {None}, count : 0..(HysteresisBars - 1)]
    BY <1>3 DEF NoPending
  <2>. QED
    BY <1>1, <1>2, <1>3, <2>1, <2>2 DEF c
<1>. QED
  BY <1>4, <1>5, <1>6 DEF Classify, c

\* The same of a classifier that is kept.
LEMMA CallEffect ==
    ASSUME ~PerRequest, Inv, NEW s \in Symbols, NEW m \in Readings, Classify(s, m)
    PROVE  /\ Raw(m) \in Regimes
           /\ last_regime' = [last_regime EXCEPT ![s] = last_regime'[s]]
           /\ last_regime'[s] \in Regimes
           /\ pending' = [pending EXCEPT ![s] = pending'[s]]
           /\ pending'[s] \in [regime : NORMAL \cup {None},
                               count : 0..(HysteresisBars - 1)]
           /\ last_regime'[s] \in NORMAL =>
                 /\ Raw(m) \in NORMAL
                 /\ cooldown[s] = 0
           /\ \/ last_regime'[s] = Raw(m) /\ ~Held(s, Raw(m))
                 /\ pending'[s] = NoPending
              \/ last_regime'[s] = "NO_TRADE" /\ pending'[s] = pending[s]
                 /\ Raw(m) \in NORMAL /\ cooldown[s] > 0
              \/ last_regime'[s] = last_regime[s] /\ Held(s, Raw(m))
                 /\ pending'[s] = [regime |-> Raw(m), count |-> Count(s, Raw(m))]
<1>1. TypeOK
  BY DEF Inv
<1>2. /\ Previous(s) = last_regime[s] /\ PendingOf(s) = pending[s]
      /\ CooldownOf(s) = cooldown[s]
  BY DEF Previous, PendingOf, CooldownOf
<1>. QED
  BY <1>1, <1>2, CallOutcome

\* A call keeps the invariant.
LEMMA ClassifyInv ==
    ASSUME ~PerRequest, Inv, NEW s \in Symbols, NEW m \in Readings, Classify(s, m)
    PROVE  Inv'
<1>. DEFINE c == Raw(m)
<1>0. /\ c \in Regimes
      /\ m.stop => c = "DE_RISK"
      /\ c = "DE_RISK" => m.stop
      /\ m.stop \in BOOLEAN
      /\ c \in NORMAL => ~m.stop
  BY RawSays, ReadingFields
<1>. HIDE DEF c
<1>1. /\ CooldownSeconds \in Nat /\ HysteresisBars \in Nat \ {0}
      /\ None \notin Regimes
      /\ "DE_RISK" \notin NORMAL /\ "NO_TRADE" \notin NORMAL
  BY ConstantsAssumption DEF Regimes, Rank, NORMAL
<1>2. cooldown' = [cooldown EXCEPT ![s] =
                      IF c = "DE_RISK" THEN CooldownSeconds ELSE cooldown[s]]
  BY DEF Classify, StartCooldown, CooldownOf, c
<1>3. /\ calm' = [calm EXCEPT ![s] = IF m.stop THEN 0 ELSE calm[s]]
      /\ log' = [log EXCEPT ![s] =
                    [reading |-> m, raw |-> c, regime |-> last_regime'[s],
                     calm |-> calm'[s]]]
      /\ streak' = [streak EXCEPT ![s] =
                       IF log[s] = None \/ log[s].raw # c THEN 1
                       ELSE IF streak[s] < HysteresisBars THEN streak[s] + 1
                       ELSE streak[s]]
  BY DEF Classify, Remember, c
<1>4. /\ last_regime' = [last_regime EXCEPT ![s] = last_regime'[s]]
      /\ last_regime'[s] \in Regimes
      /\ pending' = [pending EXCEPT ![s] = pending'[s]]
      /\ pending'[s] \in [regime : NORMAL \cup {None},
                          count : 0..(HysteresisBars - 1)]
      /\ last_regime'[s] \in NORMAL => c \in NORMAL /\ cooldown[s] = 0
  BY CallEffect DEF c
<1>5. \/ last_regime'[s] = c /\ ~Held(s, c) /\ pending'[s] = NoPending
      \/ last_regime'[s] = "NO_TRADE" /\ pending'[s] = pending[s]
         /\ c \in NORMAL /\ cooldown[s] > 0
      \/ last_regime'[s] = last_regime[s] /\ Held(s, c)
         /\ pending'[s] = [regime |-> c, count |-> Count(s, c)]
  BY CallEffect DEF c
<1>6. TypeOK
  BY DEF Inv
<1>7. log'[s] = [reading |-> m, raw |-> c, regime |-> last_regime'[s], calm |-> calm'[s]]
      /\ log'[s] # None
  BY <1>3, <1>6, <1>4, <1>0, ConstantsAssumption DEF TypeOK
<1>8. TypeOK'
  <2>1. calm' \in [Symbols -> 0..CooldownSeconds] /\ calm'[s] \in 0..CooldownSeconds
    BY <1>1, <1>3, <1>6 DEF TypeOK
  <2>2. cooldown' \in [Symbols -> 0..CooldownSeconds]
    BY <1>1, <1>2, <1>6 DEF TypeOK
  <2>3. streak' \in [Symbols -> 0..HysteresisBars]
    BY <1>1, <1>3, <1>6 DEF TypeOK
  <2>4. log' \in [Symbols -> Call \cup {None}]
    <3>1. log'[s] \in Call
      BY <1>7, <1>0, <1>4, <2>1 DEF Call
    <3>. QED
      BY <1>3, <1>6, <3>1 DEF TypeOK
  <2>. QED
    BY <1>4, <1>6, <2>1, <2>2, <2>3, <2>4 DEF TypeOK
<1>9. CooldownMeasures'
  BY <1>0, <1>1, <1>2, <1>3, <1>6 DEF Inv, TypeOK, CooldownMeasures
<1>10. MemoryIsLog'
  BY <1>1, <1>3, <1>4, <1>6, <1>7 DEF Inv, TypeOK, MemoryIsLog
<1>11. \A t \in Symbols \ {s} : /\ log'[t] = log[t] /\ pending'[t] = pending[t]
                                /\ streak'[t] = streak[t]
  BY <1>3, <1>4, <1>6 DEF TypeOK
<1>12. PendingIsStreak'
  <2>1. ASSUME pending'[s].regime # None
        PROVE  log'[s].raw = pending'[s].regime /\ pending'[s].count = streak'[s]
    <3>1. CASE pending'[s] = NoPending
      BY <2>1, <3>1 DEF NoPending
    <3>2. CASE last_regime'[s] = "NO_TRADE" /\ pending'[s] = pending[s] /\ cooldown[s] > 0
      BY <2>1, <3>2 DEF Inv, NothingPendingInRest, NoPending
    <3>3. CASE Held(s, c) /\ pending'[s] = [regime |-> c, count |-> Count(s, c)]
      <4>1. c \in NORMAL /\ PendingOf(s) = pending[s]
        BY <3>3 DEF Held, Flip, PendingOf
      <4>2. pending'[s].regime = c /\ pending'[s].count = Count(s, c)
        BY <3>3
      <4>3. Count(s, c) < HysteresisBars
        BY <3>3 DEF Held
      <4>4. CASE pending[s].regime = c
        <5>1. /\ log[s] # None /\ log[s].raw = c
              /\ pending[s].count = streak[s]
          BY <1>1, <4>1, <4>4, RegimeKinds DEF Inv, PendingIsStreak
        <5>. QED
          BY <1>1, <1>3, <1>6, <1>7, <4>1, <4>2, <4>3, <4>4, <5>1 DEF Count, TypeOK
      <4>5. CASE pending[s].regime # c
        <5>1. log[s] # None /\ log[s].regime = last_regime[s]
          BY <3>3, RegimeKinds DEF Inv, MemoryIsLog, Held, Flip, Previous
        <5>2. last_regime[s] \in NORMAL /\ last_regime[s] # c
          <6>1. last_regime[s] \in NORMAL /\ Rank[c] > Rank[last_regime[s]]
            BY <3>3 DEF Held, Flip, Previous
          <6>. QED
            BY <6>1, RegimeKinds
        <5>3. log[s].raw # c
          BY <4>5, <5>1, <5>2 DEF Inv, HeldIsPending
        <5>. QED
          BY <1>3, <1>6, <1>7, <4>1, <4>2, <4>5, <5>3 DEF Count, TypeOK
      <4>. QED
        BY <4>4, <4>5
    <3>. QED
      BY <1>5, <3>1, <3>2, <3>3
  <2>. QED
    BY <1>7, <1>11, <2>1 DEF Inv, PendingIsStreak
<1>13. HeldIsPending'
  <2>1. ASSUME log'[s].regime \in NORMAL, log'[s].regime # log'[s].raw
        PROVE  pending'[s].regime = log'[s].raw
    BY <1>1, <1>5, <1>7, <2>1
  <2>. QED
    BY <1>11, <2>1 DEF Inv, HeldIsPending
<1>14. NormalIsCalm'
  <2>1. ASSUME log'[s].regime \in NORMAL
        PROVE  /\ log'[s].raw \in NORMAL
               /\ log'[s].raw = Raw(log'[s].reading)
               /\ log'[s].calm = CooldownSeconds
    <3>1. c \in NORMAL /\ cooldown[s] = 0
      BY <1>4, <1>7, <2>1
    <3>2. calm'[s] = CooldownSeconds
      <4>1. calm'[s] = calm[s]
        BY <1>0, <1>3, <1>6, <3>1 DEF TypeOK
      <4>2. cooldown[s] = CooldownSeconds - calm[s] /\ calm[s] \in Int
        BY <1>1, <1>6 DEF Inv, TypeOK, CooldownMeasures
      <4>. QED
        BY <1>1, <3>1, <4>1, <4>2
    <3>. QED
      BY <1>7, <3>1, <3>2 DEF c
  <2>. QED
    BY <1>11, <2>1 DEF Inv, NormalIsCalm
<1>15. NothingPendingInRest'
  <2>1. ASSUME cooldown'[s] > 0 PROVE pending'[s] = NoPending
    <3>1. CASE cooldown[s] > 0
      BY <1>5, <1>4, <3>1, RegimeKinds
         DEF Inv, NothingPendingInRest, Held, Flip, Previous, Resting
    <3>2. CASE ~(cooldown[s] > 0)
      <4>1. c = "DE_RISK"
        BY <1>1, <1>2, <1>6, <2>1, <3>2 DEF TypeOK
      <4>. QED
        BY <1>1, <1>5, <4>1 DEF Held, Flip
    <3>. QED
      BY <3>1, <3>2
  <2>. QED
    BY <1>2, <1>11, <1>6, <2>1 DEF Inv, TypeOK, NothingPendingInRest
<1>. QED
  BY <1>8, <1>9, <1>10, <1>12, <1>13, <1>14, <1>15 DEF Inv

\* The passing of time keeps it too.
LEMMA TickInv == ASSUME Inv, Tick PROVE Inv'
<1>1. /\ CooldownSeconds \in Nat
      /\ UNCHANGED <<last_regime, pending, log, streak>>
      /\ cooldown' = [s \in Symbols |-> IF cooldown[s] > 0 THEN cooldown[s] - 1 ELSE 0]
      /\ calm' = [s \in Symbols |-> IF calm[s] < CooldownSeconds THEN calm[s] + 1
                                    ELSE calm[s]]
  BY ConstantsAssumption DEF Tick
<1>2. TypeOK'
  BY <1>1 DEF Inv, TypeOK
<1>3. CooldownMeasures' /\ NothingPendingInRest'
  BY <1>1 DEF Inv, TypeOK, CooldownMeasures, NothingPendingInRest
<1>. QED
  BY <1>1, <1>2, <1>3
     DEF Inv, MemoryIsLog, PendingIsStreak, HeldIsPending, NormalIsCalm

LEMMA StepInv == ASSUME ~PerRequest, Inv, [Next]_vars PROVE Inv'
<1>1. CASE UNCHANGED vars
  BY <1>1 DEF vars, Inv, TypeOK, CooldownMeasures, MemoryIsLog, PendingIsStreak,
              NothingPendingInRest, HeldIsPending, NormalIsCalm
<1>2. CASE Tick
  BY <1>2, TickInv
<1>3. CASE \E s \in Symbols, m \in Readings : Classify(s, m)
  BY <1>3, ClassifyInv
<1>. QED
  BY <1>1, <1>2, <1>3 DEF Next

LEMMA Invariance == ASSUME ~PerRequest PROVE Spec => []Inv
<1>1. Init => Inv
  BY InitInv
<1>2. Inv /\ [Next]_vars => Inv'
  BY StepInv
<1>. QED
  BY <1>1, <1>2, PTL DEF Spec

-----------------------------------------------------------------------------
\* What holds of a classifier whether or not it is kept: a normal regime is
\* only returned for a reading that shows one, and one that is made for the
\* call returns what the reading shows.
NormalIsShown ==
    \A s \in Symbols : log[s] # None =>
        /\ log[s].raw = Raw(log[s].reading)
        /\ log[s].regime \in NORMAL => log[s].raw \in NORMAL
        /\ PerRequest => log[s].regime = log[s].raw

AnyInv == TypeOK /\ NormalIsShown

LEMMA ClassifyAny ==
    ASSUME AnyInv, NEW s \in Symbols, NEW m \in Readings, Classify(s, m)
    PROVE  AnyInv'
<1>. DEFINE c == Raw(m)
<1>1. /\ c \in Regimes /\ m.stop \in BOOLEAN
      /\ CooldownSeconds \in Nat /\ HysteresisBars \in Nat \ {0}
  BY RawSays, ReadingFields, ConstantsAssumption
<1>2. /\ last_regime' = [last_regime EXCEPT ![s] = last_regime'[s]]
      /\ last_regime'[s] \in Regimes
      /\ pending' = [pending EXCEPT ![s] = pending'[s]]
      /\ pending'[s] \in [regime : NORMAL \cup {None},
                          count : 0..(HysteresisBars - 1)]
      /\ last_regime'[s] \in NORMAL => c \in NORMAL
      /\ \/ last_regime'[s] = c
         \/ CooldownOf(s) > 0
         \/ Held(s, c)
  BY CallOutcome DEF AnyInv
<1>3. PerRequest => last_regime'[s] = c
  BY <1>2, RegimeKinds DEF CooldownOf, Held, Flip, Previous
<1>. HIDE DEF c
<1>4. /\ cooldown' = [cooldown EXCEPT ![s] =
                        IF c = "DE_RISK" THEN CooldownSeconds ELSE CooldownOf(s)]
      /\ calm' = [calm EXCEPT ![s] = IF m.stop THEN 0 ELSE calm[s]]
      /\ log' = [log EXCEPT ![s] =
                    [reading |-> m, raw |-> c, regime |-> last_regime'[s],
                     calm |-> calm'[s]]]
      /\ streak' = [streak EXCEPT ![s] =
                       IF log[s] = None \/ log[s].raw # c THEN 1
                       ELSE IF streak[s] < HysteresisBars THEN streak[s] + 1
                       ELSE streak[s]]
  BY DEF Classify, StartCooldown, Remember, c
<1>5. CooldownOf(s) \in 0..CooldownSeconds
  BY <1>1 DEF AnyInv, TypeOK, CooldownOf
<1>6. calm' \in [Symbols -> 0..CooldownSeconds] /\ calm'[s] \in 0..CooldownSeconds
  BY <1>1, <1>4 DEF AnyInv, TypeOK
<1>7. [reading |-> m, raw |-> c, regime |-> last_regime'[s], calm |-> calm'[s]] \in Call
  BY <1>1, <1>2, <1>6 DEF Call
<1>8. TypeOK'
  <2>1. cooldown' \in [Symbols -> 0..CooldownSeconds]
    BY <1>1, <1>4, <1>5 DEF AnyInv, TypeOK
  <2>2. streak' \in [Symbols -> 0..HysteresisBars]
    BY <1>1, <1>4 DEF AnyInv, TypeOK
  <2>3. log' \in [Symbols -> Call \cup {None}]
    BY <1>4, <1>7 DEF AnyInv, TypeOK
  <2>. QED
    BY <1>2, <1>6, <2>1, <2>2, <2>3 DEF AnyInv, TypeOK
<1>9. NormalIsShown'
  <2>1. \A t \in Symbols \ {s} : log'[t] = log[t]
    BY <1>4 DEF AnyInv, TypeOK
  <2>2. /\ log'[s].raw = c /\ log'[s].reading = m
        /\ log'[s].regime = last_regime'[s]
    BY <1>4 DEF AnyInv, TypeOK
  <2>3. log'[s].raw = Raw(log'[s].reading)
    BY <2>2 DEF c
  <2>. QED
    BY <1>2, <1>3, <2>1, <2>2, <2>3 DEF AnyInv, NormalIsShown
<1>. QED
  BY <1>8, <1>9 DEF AnyInv

LEMMA AnyInvariance == Spec => []AnyInv
<1>1. Init => AnyInv
  BY ConstantsAssumption, RegimeKinds DEF Init, AnyInv, TypeOK, NormalIsShown, NoPending
<1>2. ASSUME AnyInv, Tick PROVE AnyInv'
  <2>1. /\ CooldownSeconds \in Nat
        /\ UNCHANGED <<last_regime, pending, log, streak>>
        /\ cooldown' = [s \in Symbols |-> IF cooldown[s] > 0 THEN cooldown[s] - 1 ELSE 0]
        /\ calm' = [s \in Symbols |-> IF calm[s] < CooldownSeconds THEN calm[s] + 1
                                      ELSE calm[s]]
    BY <1>2, ConstantsAssumption DEF Tick
  <2>2. TypeOK'
    BY <1>2, <2>1 DEF AnyInv, TypeOK
  <2>. QED
    BY <1>2, <2>1, <2>2 DEF AnyInv, NormalIsShown
<1>3. AnyInv /\ [Next]_vars => AnyInv'
  <2>1. ASSUME AnyInv, UNCHANGED vars PROVE AnyInv'
    BY <2>1 DEF vars, AnyInv, TypeOK, NormalIsShown
  <2>. QED
    BY <1>2, <2>1, ClassifyAny DEF Next
<1>. QED
  BY <1>1, <1>3, PTL DEF Spec

-----------------------------------------------------------------------------
\* A symbol for which an entry is permitted was given a normal regime.
LEMMA EntriesAreNormal ==
    ASSUME TypeOK, NEW s \in Symbols, EntryPermitted(s)
    PROVE  log[s] # None /\ log[s] \in Call /\ log[s].regime \in NORMAL
BY RegimeKinds DEF TypeOK, EntryPermitted, strategy_allowed, Call

\* The memory and the history of a classifier keep their types, kept or not.
THEOREM TypeCorrect == Spec => []TypeOK
<1>1. AnyInv => TypeOK
  BY DEF AnyInv
<1>. QED
  BY <1>1, AnyInvariance, PTL

\* A classifier, kept or made for every request as the routes do, permits an
\* entry only for a calm reading, whatever its memory holds (_raw_candidates,
\* safer_regime, strategy_allowed).
THEOREM CalmEntries == Spec => []EntriesOnlyInCalm
<1>1. ASSUME AnyInv PROVE EntriesOnlyInCalm
  <2>1. SUFFICES ASSUME NEW s \in Symbols, EntryPermitted(s)
                 PROVE  LET m == log[s].reading
                        IN  m.fresh /\ ~m.stop /\ ~m.news
                            /\ (m.oi > -12 \/ m.volatility <= 120)
    BY DEF EntriesOnlyInCalm
  <2>2. /\ log[s] # None /\ log[s].regime \in NORMAL
        /\ log[s].reading \in Readings
    BY <1>1, <2>1, EntriesAreNormal DEF AnyInv, Call
  <2>3. Raw(log[s].reading) \in NORMAL
    BY <1>1, <2>2 DEF AnyInv, NormalIsShown
  <2>. QED
    BY <2>2, <2>3, RawSays
<1>. QED
  BY <1>1, AnyInvariance, PTL

\* What one reading shows is what a classifier made for the request returns:
\* neither cooldown nor hysteresis has a part in it (the routes make a new
\* RegimeClassifier for every request).
ReturnsWhatIsShown ==
    \A s \in Symbols : log[s] # None => log[s].regime = Raw(log[s].reading)

THEOREM RequestsForget == ASSUME PerRequest PROVE Spec => []ReturnsWhatIsShown
<1>1. PerRequest /\ AnyInv => ReturnsWhatIsShown
  BY DEF AnyInv, NormalIsShown, ReturnsWhatIsShown
<1>. QED
  BY <1>1, AnyInvariance, PTL

\* A kept classifier permits no entry before the cooldown after the last stop
\* is over (the cooldown branch of _apply_cooldown_and_hysteresis).
THEOREM RestedEntries == ASSUME ~PerRequest PROVE Spec => []RestAfterStop
<1>1. ASSUME Inv PROVE RestAfterStop
  BY <1>1, EntriesAreNormal DEF Inv, NormalIsCalm, RestAfterStop
<1>. QED
  BY <1>1, Invariance, PTL

\* A kept classifier moves to a less safe normal regime only after
\* hysteresis_bars calls in a row that saw it.
THEOREM NoFlipFlop == ASSUME ~PerRequest PROVE Spec => NoHastyFlip
<1>. DEFINE Hasty(s) == /\ log[s] # None /\ log[s].regime \in NORMAL
                        /\ log'[s].regime \in NORMAL
                        /\ Rank[log'[s].regime] > Rank[log[s].regime]
<1>1. ASSUME ~PerRequest, Inv, [Next]_vars, NEW s \in Symbols, Hasty(s)
      PROVE  streak'[s] = HysteresisBars
  <2>1. log'[s] # log[s]
    BY <1>1, RegimeKinds
  <2>2. PICK m \in Readings : Classify(s, m)
    <3>1. PICK t \in Symbols, m \in Readings : Classify(t, m)
      BY <1>1, <2>1 DEF Next, vars, Tick
    <3>2. t = s
      BY <1>1, <2>1, <3>1 DEF Classify, Remember, Inv, TypeOK
    <3>. QED
      BY <3>1, <3>2
  <2>. DEFINE c == Raw(m)
  <2>3. /\ c \in Regimes
        /\ last_regime'[s] \in NORMAL => c \in NORMAL /\ cooldown[s] = 0
        /\ \/ last_regime'[s] = c /\ ~Held(s, c)
           \/ last_regime'[s] = "NO_TRADE"
           \/ last_regime'[s] = last_regime[s]
    BY <1>1, <2>2, CallEffect
  <2>4. /\ log'[s].regime = last_regime'[s]
        /\ streak'[s] = IF log[s] = None \/ log[s].raw # c THEN 1
                        ELSE IF streak[s] < HysteresisBars THEN streak[s] + 1
                        ELSE streak[s]
    BY <1>1, <2>2 DEF Classify, Remember, Inv, TypeOK
  <2>. HIDE DEF c
  <2>5. last_regime[s] = log[s].regime /\ log[s] # None
    BY <1>1 DEF Inv, MemoryIsLog
  <2>6. last_regime'[s] = c /\ ~Held(s, c) /\ c \in NORMAL
    <3>1. "NO_TRADE" \notin NORMAL
      BY DEF NORMAL
    <3>. QED
      BY <1>1, <2>3, <2>4, <2>5, <3>1, RegimeKinds
  <2>7. Flip(s, c)
    BY <1>1, <2>4, <2>5, <2>6 DEF Flip, Previous
  <2>8. /\ HysteresisBars \in Nat \ {0} /\ streak[s] \in 0..HysteresisBars
        /\ pending[s].count \in 0..(HysteresisBars - 1)
    BY <1>1, ConstantsAssumption DEF Inv, TypeOK
  <2>9. HysteresisBars = 1 \/ Count(s, c) >= HysteresisBars
    BY <1>1, <2>6, <2>7, <2>8 DEF Held, Count, PendingOf
  <2>10. CASE pending[s].regime = c
    <3>1. log[s].raw = c /\ pending[s].count = streak[s]
      BY <1>1, <2>6, <2>10, RegimeKinds DEF Inv, PendingIsStreak
    <3>. QED
      BY <1>1, <2>4, <2>5, <2>8, <2>9, <2>10, <3>1 DEF Count, PendingOf
  <2>11. CASE pending[s].regime # c
    <3>1. HysteresisBars = 1
      BY <1>1, <2>8, <2>9, <2>11 DEF Count, PendingOf
    <3>2. log[s].raw # c
      <4>1. log[s].regime \in NORMAL /\ log[s].regime # c
        BY <1>1, <2>4, <2>6, RegimeKinds
      <4>. QED
        BY <1>1, <2>5, <2>11, <4>1 DEF Inv, HeldIsPending
    <3>. QED
      BY <2>4, <3>1, <3>2
  <2>. QED
    BY <2>10, <2>11
<1>2. ASSUME ~PerRequest, Inv, [Next]_vars
      PROVE  [\A s \in Symbols : Hasty(s) => streak'[s] = HysteresisBars]_vars
  BY <1>1, <1>2
<1>3. ~PerRequest /\ Inv /\ [Next]_vars =>
          [\A s \in Symbols : Hasty(s) => streak'[s] = HysteresisBars]_vars
  BY <1>2
<1>. QED
  BY <1>3, Invariance, PTL DEF Spec, NoHastyFlip

-----------------------------------------------------------------------------
\* A regime that is held back: the reading shows a normal one, and either a
\* stop was seen within the cooldown, and NO_TRADE is returned, or a safer
\* normal regime is, for fewer than hysteresis_bars calls in a row.  It is the
\* safety in SteadyRegimeReturned, and it says that an immediate regime is
\* returned at once (_apply_cooldown_and_hysteresis).
HeldBackBriefly ==
    \A s \in Symbols :
        (log[s] # None /\ log[s].regime # log[s].raw) =>
            /\ log[s].raw \in NORMAL
            /\ \/ log[s].regime = "NO_TRADE" /\ log[s].calm < CooldownSeconds
               \/ log[s].regime \in NORMAL /\ streak[s] < HysteresisBars

\* What is returned in a rest.
RestIsShort ==
    \A s \in Symbols :
        (log[s] # None /\ log[s].regime # log[s].raw /\ log[s].regime \notin NORMAL) =>
            /\ log[s].raw \in NORMAL
            /\ log[s].regime = "NO_TRADE" /\ log[s].calm < CooldownSeconds

LEMMA RestStep ==
    ASSUME ~PerRequest, Inv, RestIsShort, [Next]_vars PROVE RestIsShort'
<1>1. CASE UNCHANGED log
  BY <1>1 DEF RestIsShort
<1>2. ASSUME NEW s \in Symbols, NEW m \in Readings, Classify(s, m) PROVE RestIsShort'
  <2>. DEFINE c == Raw(m)
  <2>1. \/ last_regime'[s] = c
        \/ last_regime'[s] = "NO_TRADE" /\ c \in NORMAL /\ cooldown[s] > 0
        \/ last_regime'[s] = last_regime[s] /\ Held(s, c)
    BY <1>2, CallEffect
  <2>2. c \in NORMAL => ~m.stop
    BY RawSays, ReadingFields
  <2>3. /\ log'[s].raw = c /\ log'[s].regime = last_regime'[s]
        /\ log'[s].calm = calm'[s]
        /\ calm' = [calm EXCEPT ![s] = IF m.stop THEN 0 ELSE calm[s]]
        /\ \A t \in Symbols \ {s} : log'[t] = log[t]
    BY <1>2 DEF Classify, Remember, Inv, TypeOK
  <2>. HIDE DEF c
  <2>4. CASE last_regime'[s] = c
    BY <2>3, <2>4 DEF RestIsShort
  <2>5. CASE last_regime'[s] = "NO_TRADE" /\ c \in NORMAL /\ cooldown[s] > 0
    <3>1. calm'[s] = calm[s]
      BY <2>2, <2>3, <2>5 DEF Inv, TypeOK
    <3>2. calm[s] < CooldownSeconds
      BY <2>5, ConstantsAssumption DEF Inv, TypeOK, CooldownMeasures
    <3>. QED
      BY <2>3, <2>5, <3>1, <3>2 DEF RestIsShort
  <2>6. CASE last_regime'[s] = last_regime[s] /\ Held(s, c)
    <3>1. last_regime'[s] \in NORMAL
      BY <2>6 DEF Held, Flip, Previous
    <3>. QED
      BY <2>3, <3>1 DEF RestIsShort
  <2>. QED
    BY <2>1, <2>4, <2>5, <2>6
<1>. QED
  BY <1>1, <1>2 DEF Next, Tick, vars

LEMMA FlipIsCounted == ASSUME Inv, RestIsShort PROVE HeldBackBriefly
<1>. SUFFICES ASSUME NEW s \in Symbols, log[s] # None, log[s].regime # log[s].raw
              PROVE  /\ log[s].raw \in NORMAL
                     /\ \/ log[s].regime = "NO_TRADE" /\ log[s].calm < CooldownSeconds
                        \/ log[s].regime \in NORMAL /\ streak[s] < HysteresisBars
  BY DEF HeldBackBriefly
<1>1. CASE log[s].regime \notin NORMAL
  BY <1>1 DEF RestIsShort
<1>2. CASE log[s].regime \in NORMAL
  <2>1. log[s].raw \in NORMAL /\ pending[s].regime = log[s].raw
    BY <1>2 DEF Inv, NormalIsCalm, HeldIsPending
  <2>2. pending[s].count = streak[s]
    BY <2>1, RegimeKinds DEF Inv, PendingIsStreak
  <2>3. pending[s].count < HysteresisBars
    BY ConstantsAssumption DEF Inv, TypeOK
  <2>. QED
    BY <1>2, <2>1, <2>2, <2>3
<1>. QED
  BY <1>1, <1>2

\* A classifier, kept or not, returns something else than the reading shows
\* only in the cooldown after a stop or while it counts a flip.
THEOREM HeldBack == Spec => []HeldBackBriefly
<1>1. ASSUME PerRequest PROVE Spec => []HeldBackBriefly
  <2>1. PerRequest /\ AnyInv => HeldBackBriefly
    BY DEF AnyInv, NormalIsShown, HeldBackBriefly
  <2>. QED
    BY <1>1, <2>1, AnyInvariance, PTL
<1>2. ASSUME ~PerRequest PROVE Spec => []HeldBackBriefly
  <2>1. Init => RestIsShort
    BY DEF Init, RestIsShort
  <2>2. ~PerRequest /\ Inv /\ RestIsShort /\ [Next]_vars => RestIsShort'
    BY RestStep
  <2>3. Inv /\ RestIsShort => HeldBackBriefly
    BY FlipIsCounted
  <2>. QED
    BY <1>2, <2>1, <2>2, <2>3, Invariance, PTL DEF Spec
<1>. QED
  BY <1>1, <1>2

=============================================================================
