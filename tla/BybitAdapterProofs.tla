------------------------- MODULE BybitAdapterProofs -------------------------
(***************************************************************************)
(* What TLAPS proves of BybitAdapter, for every number of adapters and     *)
(* every size of the window, the bucket and the bounds on time.            *)
(***************************************************************************)
EXTENDS BybitAdapter, TLAPS

USE WindowAssumption, LimiterAssumption, TimeAssumption

\* The fields of an exchange under way, by how far it is.
LEMMA CallFields ==
  ASSUME NEW c \in Call
  PROVE  /\ c # NoCall => c.sent \in Int
         /\ c.at \in {"asked", "stamped"} =>
              c.then \in {"return", "sign"} /\ c.before \in Int
         /\ c.at = "stamped" => c.server \in Int
         /\ c.at = "signed" => c.timestamp \in Int
         /\ c.at = "none" => c = NoCall
  BY DEF Call, NoCall

\* What the actions put under way is an exchange.
LEMMA AskingCall ==
  ASSUME now \in Int, skew \in Int, NEW then \in {"return", "sign"}
  PROVE  Asking(then) \in Call
  BY DEF Asking, Call, Local

LEMMA SignedCall ==
  ASSUME now \in Int, skew \in Int, NEW c \in Clock
  PROVE  Signed(c) \in Call
  BY DEF Signed, Call, Clock, Local

LEMMA LearnedClock ==
  ASSUME now \in Int, skew \in Int, NEW c \in Call, c.at = "stamped"
  PROVE  /\ Learned(c) \in Clock
         /\ Learned(c).known
         /\ Learned(c).offset = c.server - (c.before + Local) \div 2
         /\ Learned(c).at = Local
<1>1. c.server \in Int /\ c.before \in Int
  BY CallFields
<1>2. (c.before + Local) \div 2 \in Int
  BY <1>1, SMT DEF Local
<1>3. QED
  BY <1>1, <1>2 DEF Learned, Clock, Local

LEMMA RefilledType ==
  ASSUME now \in Nat, bucket \in [Adapters -> Bucket], NEW a \in Adapters
  PROVE  Refilled(a) \in Int /\ Refilled(a) <= Burst
  BY DEF Refilled, Bucket

LEMMA AllowType ==
  ASSUME now \in Nat, bucket \in [Adapters -> Bucket],
         granted \in [Adapters -> Nat],
         NEW a \in Adapters, NEW n \in 0 .. 2, Allow(a, n)
  PROVE  bucket' \in [Adapters -> Bucket] /\ granted' \in [Adapters -> Nat]
<1>1. Refilled(a) \in Int
  BY RefilledType
<1>2. Refilled(a) - n * Cost \in Int
  BY <1>1
<1>3. QED
  BY <1>1, <1>2 DEF Allow, Bucket

-----------------------------------------------------------------------------
(* Types                                                                   *)

LEMMA TypeStep == TypeOK /\ [Next]_vars => TypeOK'
<1> SUFFICES ASSUME TypeOK, [Next]_vars
             PROVE  TypeOK'
  OBVIOUS
<1>0. /\ now \in Nat /\ base \in Int /\ skew \in Int
      /\ clock \in [Adapters -> Clock] /\ bucket \in [Adapters -> Bucket]
      /\ call \in [Adapters -> Call] /\ verdict \in [Adapters -> Verdicts]
      /\ born \in [Adapters -> Nat] /\ granted \in [Adapters -> Nat]
      /\ heard \in [Adapters -> Nat] /\ NoCall \in Call
  BY DEF TypeOK, Call
<1> USE DEF TypeOK, timing, limiter, synced
<1>1. ASSUME NEW a \in Adapters, New(a)
      PROVE  TypeOK'
  BY <1>0, <1>1 DEF New, Verdicts
<1>2. ASSUME NEW a \in Adapters, SyncTime(a)
      PROVE  TypeOK'
  BY <1>0, <1>2, AskingCall, AllowType DEF SyncTime
<1>3. ASSUME NEW a \in Adapters, PublicGet(a)
      PROVE  TypeOK'
  BY <1>0, <1>3, AllowType DEF PublicGet, Verdicts
<1>4. ASSUME NEW a \in Adapters, SignAtOnce(a)
      PROVE  TypeOK'
  BY <1>0, <1>4, SignedCall, AllowType DEF SignAtOnce
<1>5. ASSUME NEW a \in Adapters, SignAfterSync(a)
      PROVE  TypeOK'
  BY <1>0, <1>5, AskingCall, AllowType DEF SignAfterSync
<1>6. ASSUME NEW a \in Adapters, Limited(a)
      PROVE  TypeOK'
  BY <1>0, <1>6, AllowType DEF Limited, Verdicts
<1>7. ASSUME NEW a \in Adapters, ServerTime(a)
      PROVE  TypeOK'
  <2>1. PICK server \in {now, now - (now % Second)} :
          call' = [call EXCEPT ![a] =
                     [at |-> "stamped", then |-> call[a].then,
                      sent |-> call[a].sent, before |-> call[a].before,
                      server |-> server]]
    BY <1>7 DEF ServerTime
  <2>2. server \in Int
    BY <1>0
  <2>3. call[a] # NoCall /\ call[a].at = "asked"
    BY <1>7 DEF ServerTime, NoCall
  <2>4. [at |-> "stamped", then |-> call[a].then, sent |-> call[a].sent,
         before |-> call[a].before, server |-> server] \in Call
    BY <1>0, <2>2, <2>3, CallFields DEF Call
  <2>5. QED
    BY <1>0, <1>7, <2>1, <2>4 DEF ServerTime
<1>8. ASSUME NEW a \in Adapters, Synchronised(a)
      PROVE  TypeOK'
  <2>1. Learned(call[a]) \in Clock
    BY <1>0, <1>8, LearnedClock DEF Synchronised
  <2>2. Signed(Learned(call[a])) \in Call
    BY <1>0, <2>1, SignedCall
  <2>3. QED
    BY <1>0, <1>8, <2>1, <2>2 DEF Synchronised
<1>9. ASSUME NEW a \in Adapters, Judged(a)
      PROVE  TypeOK'
  BY <1>0, <1>9 DEF Judged, Verdicts
<1>10. ASSUME NEW a \in Adapters, Failed(a)
       PROVE  TypeOK'
  BY <1>0, <1>10 DEF Failed, Verdicts
<1>11. CASE Tick
  BY <1>0, <1>11 DEF Tick
<1>12. CASE CorrectClock
  BY <1>0, <1>12 DEF CorrectClock
<1>13. CASE UNCHANGED vars
  BY <1>0, <1>13 DEF vars
<1>14. QED
  BY <1>1, <1>2, <1>3, <1>4, <1>5, <1>6, <1>7, <1>8, <1>9, <1>10, <1>11,
     <1>12, <1>13 DEF Next, Step

LEMMA TypeInit == Init => TypeOK
  BY DEF Init, TypeOK, NoClock, Clock, NewBucket, Bucket, Call, Verdicts

\* Every variable has its type in every reachable state.
THEOREM TypeCorrect == Spec => []TypeOK
  BY TypeInit, TypeStep, PTL DEF Spec

-----------------------------------------------------------------------------
(* The window.  Twice the error of an offset is at most what the round     *)
(* trip and the corrections of the local clock account for, and a          *)
(* timestamp inherits it.                                                  *)

Apart(local, true) == local - true \in base .. base + Wander

\* How far the exchange with the server has come and what it carries.
OnTime(a) ==
  call[a] # NoCall => call[a].sent <= now /\ now <= call[a].sent + MaxTrip
AskedRight(a) ==
  call[a].at \in {"asked", "stamped"} => Apart(call[a].before, call[a].sent)
StampedRight(a) ==
  call[a].at = "stamped" =>
    call[a].sent - Second < call[a].server /\ call[a].server <= now
OffsetRight(a) ==
  clock[a].known =>
    /\ 2 * (clock[a].offset + base) <= MaxTrip + 1
    /\ -MaxTrip - 2 * Second - 2 * Wander <= 2 * (clock[a].offset + base)
SignedRight(a) ==
  call[a].at = "signed" =>
    /\ 2 * (call[a].timestamp - call[a].sent)
         <= MaxTrip + 1 + 2 * Wander - 2 * Margin
    /\ -MaxTrip - 2 * Second - 2 * Wander - 2 * Margin
         <= 2 * (call[a].timestamp - call[a].sent)

ClockInv ==
  /\ TypeOK
  /\ Apart(Local, now)
  /\ \A a \in Adapters : /\ OnTime(a) /\ AskedRight(a) /\ StampedRight(a)
                         /\ OffsetRight(a) /\ SignedRight(a)

\* The offset of a synchronisation that took at most MaxTrip.
LEMMA OffsetBounds ==
  ASSUME NEW sent \in Int, NEW received \in Int, NEW before \in Int,
         NEW after \in Int, NEW server \in Int, NEW b \in Int,
         sent <= received, received <= sent + MaxTrip,
         before - sent \in b .. b + Wander,
         after - received \in b .. b + Wander,
         sent - Second < server, server <= received
  PROVE  LET offset == server - (before + after) \div 2
         IN  /\ 2 * (offset + b) <= MaxTrip + 1
             /\ -MaxTrip - 2 * Second - 2 * Wander <= 2 * (offset + b)
<1> DEFINE mid == (before + after) \div 2
<1>1. mid \in Int /\ before + after - 1 <= 2 * mid /\ 2 * mid <= before + after
  BY SMT
<1> HIDE DEF mid
<1>2. /\ 2 * (server - mid + b) <= MaxTrip + 1
      /\ -MaxTrip - 2 * Second - 2 * Wander <= 2 * (server - mid + b)
  BY <1>1, SMT
<1>3. QED
  BY <1>2 DEF mid

\* A timestamp made with an offset that is right is right.
LEMMA SignedBounds ==
  ASSUME now \in Nat, base \in Int, skew \in Int, Apart(Local, now),
         NEW c \in Clock,
         2 * (c.offset + base) <= MaxTrip + 1,
         -MaxTrip - 2 * Second - 2 * Wander <= 2 * (c.offset + base)
  PROVE  /\ Signed(c).sent = now /\ Signed(c).at = "signed"
         /\ Signed(c).timestamp \in Int
         /\ 2 * (Signed(c).timestamp - now)
              <= MaxTrip + 1 + 2 * Wander - 2 * Margin
         /\ -MaxTrip - 2 * Second - 2 * Wander - 2 * Margin
              <= 2 * (Signed(c).timestamp - now)
  BY DEF Signed, Apart, Local, Clock

LEMMA Cancels ==
  ASSUME NEW x \in Int, NEW y \in Int
  PROVE  (x + y) - x = y
  OBVIOUS

LEMMA ClockStep == ClockInv /\ [Next]_vars => ClockInv'
<1> SUFFICES ASSUME ClockInv, [Next]_vars
             PROVE  ClockInv'
  OBVIOUS
<1>0. /\ now \in Nat /\ base \in Int /\ skew \in Int
      /\ clock \in [Adapters -> Clock] /\ call \in [Adapters -> Call]
      /\ TypeOK' /\ TypeOK
  BY TypeStep DEF ClockInv, TypeOK
<1>i. /\ Apart(Local, now)
      /\ \A b \in Adapters : /\ OnTime(b) /\ AskedRight(b) /\ StampedRight(b)
                             /\ OffsetRight(b) /\ SignedRight(b)
  BY DEF ClockInv
<1>t. UNCHANGED timing => Apart(Local, now)'
  BY <1>i DEF timing, Apart, Local
\* A step that leaves time and an adapter's clock alone keeps the facts of
\* that adapter when its exchange ends or goes on as it was.
<1>q. ASSUME NEW b \in Adapters, UNCHANGED timing, clock'[b] = clock[b],
             call'[b] \in {call[b], NoCall}
      PROVE  (/\ OnTime(b) /\ AskedRight(b) /\ StampedRight(b)
              /\ OffsetRight(b) /\ SignedRight(b))'
  BY <1>i, <1>q DEF timing, OnTime, AskedRight, StampedRight, OffsetRight,
                    SignedRight, Apart, NoCall
<1>1. ASSUME NEW a \in Adapters, New(a)
      PROVE  ClockInv'
  BY <1>0, <1>t, <1>q, <1>1 DEF New, ClockInv, synced
<1>2. ASSUME NEW a \in Adapters, SyncTime(a) \/ SignAfterSync(a)
      PROVE  ClockInv'
  <2>1. PICK then \in {"return", "sign"} :
          call' = [call EXCEPT ![a] = Asking(then)]
    BY <1>2 DEF SyncTime, SignAfterSync
  <2>2. UNCHANGED timing /\ UNCHANGED clock
    BY <1>2 DEF SyncTime, SignAfterSync, synced
  <2>3. call'[a] = Asking(then)
    BY <2>1, <1>0
  <2>4. (/\ OnTime(a) /\ AskedRight(a) /\ StampedRight(a)
         /\ OffsetRight(a) /\ SignedRight(a))'
    BY <1>0, <1>i, <2>2, <2>3
    DEF timing, Asking, OnTime, AskedRight, StampedRight, OffsetRight,
        SignedRight, Apart, Local
  <2>5. QED
    BY <1>0, <1>t, <1>q, <2>1, <2>2, <2>4 DEF ClockInv
<1>3. ASSUME NEW a \in Adapters, PublicGet(a) \/ Limited(a)
      PROVE  ClockInv'
  BY <1>0, <1>t, <1>q, <1>3 DEF PublicGet, Limited, ClockInv, synced
<1>4. ASSUME NEW a \in Adapters, SignAtOnce(a)
      PROVE  ClockInv'
  <2>1. UNCHANGED timing /\ UNCHANGED clock /\ clock[a].known
        /\ call' = [call EXCEPT ![a] = Signed(clock[a])]
    BY <1>4 DEF SignAtOnce, synced, Fresh
  <2>2. call'[a] = Signed(clock[a])
    BY <2>1, <1>0
  <2>3. /\ Signed(clock[a]).sent = now /\ Signed(clock[a]).at = "signed"
        /\ Signed(clock[a]).timestamp \in Int
        /\ 2 * (Signed(clock[a]).timestamp - now)
             <= MaxTrip + 1 + 2 * Wander - 2 * Margin
        /\ -MaxTrip - 2 * Second - 2 * Wander - 2 * Margin
             <= 2 * (Signed(clock[a]).timestamp - now)
    BY <1>0, <1>i, <2>1, SignedBounds DEF OffsetRight
  <2>4. (/\ OnTime(a) /\ AskedRight(a) /\ StampedRight(a)
         /\ OffsetRight(a) /\ SignedRight(a))'
    BY <1>0, <1>i, <2>1, <2>2, <2>3
    DEF timing, OnTime, AskedRight, StampedRight, OffsetRight, SignedRight
  <2>5. QED
    BY <1>0, <1>t, <1>q, <2>1, <2>4 DEF ClockInv
<1>5. ASSUME NEW a \in Adapters, ServerTime(a)
      PROVE  ClockInv'
  <2>1. PICK server \in {now, now - (now % Second)} :
          call' = [call EXCEPT ![a] =
                     [at |-> "stamped", then |-> call[a].then,
                      sent |-> call[a].sent, before |-> call[a].before,
                      server |-> server]]
    BY <1>5 DEF ServerTime
  <2>2. now % Second \in 0 .. Second - 1
    BY <1>0, SMT
  <2>3. server \in Int /\ now - Second < server /\ server <= now
    BY <1>0, <2>2
  <2>4. /\ UNCHANGED timing /\ UNCHANGED clock
        /\ call[a].at = "asked" /\ call[a] # NoCall
    BY <1>5 DEF ServerTime, synced, NoCall
  <2>5. call[a].sent \in Int /\ call[a].before \in Int
    BY <1>0, <2>4, CallFields
  <2>6. /\ call'[a].at = "stamped" /\ call'[a].sent = call[a].sent
        /\ call'[a].before = call[a].before /\ call'[a].server = server
    BY <1>0, <2>1
  <2>7. (/\ OnTime(a) /\ AskedRight(a) /\ StampedRight(a)
         /\ OffsetRight(a) /\ SignedRight(a))'
    BY <1>0, <1>i, <2>3, <2>4, <2>5, <2>6
    DEF timing, OnTime, AskedRight, StampedRight, OffsetRight, SignedRight,
        Apart
  <2>8. QED
    BY <1>0, <1>t, <1>q, <2>1, <2>4, <2>7 DEF ClockInv
<1>6. ASSUME NEW a \in Adapters, Synchronised(a)
      PROVE  ClockInv'
  <2>1. /\ UNCHANGED timing
        /\ clock' = [clock EXCEPT ![a] = Learned(call[a])]
        /\ call[a].at = "stamped" /\ call[a] # NoCall
    BY <1>6 DEF Synchronised, NoCall
  <2>2. /\ call[a].sent \in Int /\ call[a].before \in Int
        /\ call[a].server \in Int
    BY <1>0, <2>1, CallFields
  <2>3. /\ Learned(call[a]) \in Clock /\ Learned(call[a]).known
        /\ Learned(call[a]).offset
             = call[a].server - (call[a].before + Local) \div 2
    BY <1>0, <2>1, LearnedClock
  <2>4. /\ call[a].sent <= now /\ now <= call[a].sent + MaxTrip
        /\ call[a].before - call[a].sent \in base .. base + Wander
        /\ Local - now \in base .. base + Wander
        /\ call[a].sent - Second < call[a].server /\ call[a].server <= now
    BY <1>i, <2>1 DEF OnTime, AskedRight, StampedRight, Apart
  <2>5. /\ 2 * (Learned(call[a]).offset + base) <= MaxTrip + 1
        /\ -MaxTrip - 2 * Second - 2 * Wander
             <= 2 * (Learned(call[a]).offset + base)
    <3>1. Local \in Int
      BY <1>0 DEF Local
    <3>2. QED
      BY <1>0, <2>2, <2>3, <2>4, <3>1, OffsetBounds
  <2>6. /\ Signed(Learned(call[a])).sent = now
        /\ Signed(Learned(call[a])).at = "signed"
        /\ Signed(Learned(call[a])).timestamp \in Int
        /\ 2 * (Signed(Learned(call[a])).timestamp - now)
             <= MaxTrip + 1 + 2 * Wander - 2 * Margin
        /\ -MaxTrip - 2 * Second - 2 * Wander - 2 * Margin
             <= 2 * (Signed(Learned(call[a])).timestamp - now)
    BY <1>0, <1>i, <2>3, <2>5, SignedBounds
  <2>7. clock'[a] = Learned(call[a])
    BY <1>0, <2>1
  <2>8. call'[a] \in {Signed(Learned(call[a])), NoCall}
    BY <1>0, <1>6 DEF Synchronised
  <2>9. (/\ OnTime(a) /\ AskedRight(a) /\ StampedRight(a)
         /\ OffsetRight(a) /\ SignedRight(a))'
    BY <1>0, <2>1, <2>5, <2>6, <2>7, <2>8
    DEF timing, OnTime, AskedRight, StampedRight, OffsetRight, SignedRight,
        NoCall
  <2>10. \A b \in Adapters \ {a} : clock'[b] = clock[b] /\ call'[b] = call[b]
    BY <1>0, <1>6 DEF Synchronised
  <2>11. QED
    BY <1>0, <1>t, <1>q, <2>1, <2>9, <2>10 DEF ClockInv
<1>7. ASSUME NEW a \in Adapters, Judged(a) \/ Failed(a)
      PROVE  ClockInv'
  BY <1>0, <1>t, <1>q, <1>7 DEF Judged, Failed, ClockInv, synced
<1>8. CASE Tick
  <2>1. \A b \in Adapters : call[b] # NoCall => call[b].sent \in Int
    BY <1>0, CallFields
  <2>2. \A b \in Adapters : call[b].at = "stamped" => call[b].server \in Int
    BY <1>0, CallFields
  <2>3. /\ now' = now + 1 /\ UNCHANGED <<base, skew, clock, call>>
        /\ \A b \in Adapters :
             call[b] # NoCall => now < call[b].sent + MaxTrip
    BY <1>8 DEF Tick, synced
  <2>4. Apart(Local, now)'
    BY <1>0, <1>i, <2>3 DEF Apart, Local
  <2>5. \A b \in Adapters : OnTime(b)'
    BY <1>0, <1>i, <2>1, <2>3 DEF OnTime
  <2>6. \A b \in Adapters : StampedRight(b)'
    BY <1>0, <1>i, <2>2, <2>3 DEF StampedRight
  <2>7. \A b \in Adapters : (AskedRight(b) /\ OffsetRight(b) /\ SignedRight(b))'
    BY <1>i, <2>3 DEF AskedRight, OffsetRight, SignedRight, Apart
  <2>8. QED
    BY <1>0, <2>4, <2>5, <2>6, <2>7 DEF ClockInv
<1>9. CASE CorrectClock
  <2>1. skew' \in base .. base + Wander /\ UNCHANGED <<now, base, clock, call>>
    BY <1>9 DEF CorrectClock, synced
  <2>2. Apart(Local, now)'
    <3>1. PICK z \in Int : z = skew'
      BY <1>0, <2>1
    <3>2. (now + z) - now = z
      <4>1. now \in Int
        BY <1>0
      <4>2. QED
        BY <4>1, Cancels
    <3>3. now' = now /\ base' = base /\ Local' = now + z
      BY <2>1, <3>1 DEF Local
    <3>4. Local' - now' \in base' .. base' + Wander
      BY <2>1, <3>1, <3>2, <3>3
    <3>5. QED
      BY <3>4 DEF Apart
  <2>3. \A b \in Adapters : (/\ OnTime(b) /\ AskedRight(b) /\ StampedRight(b)
                             /\ OffsetRight(b) /\ SignedRight(b))'
    BY <1>i, <2>1 DEF OnTime, AskedRight, StampedRight, OffsetRight,
                      SignedRight, Apart
  <2>4. QED
    BY <1>0, <2>2, <2>3 DEF ClockInv
<1>10. CASE UNCHANGED vars
  BY <1>0, <1>t, <1>q, <1>10 DEF vars, ClockInv, synced
<1>11. QED
  BY <1>1, <1>2, <1>3, <1>4, <1>5, <1>6, <1>7, <1>8, <1>9, <1>10
  DEF Next, Step

LEMMA ClockHolds == Spec => []ClockInv
<1>1. Init => ClockInv
  <2> SUFFICES ASSUME Init
               PROVE  ClockInv
    OBVIOUS
  <2>1. TypeOK
    BY TypeInit
  <2>2. Apart(Local, now)
    BY <2>1 DEF Init, Apart, Local, TypeOK
  <2>3. \A a \in Adapters : /\ OnTime(a) /\ AskedRight(a) /\ StampedRight(a)
                            /\ OffsetRight(a) /\ SignedRight(a)
    BY DEF Init, OnTime, AskedRight, StampedRight, OffsetRight, SignedRight,
           NoCall, NoClock
  <2>4. QED
    BY <2>1, <2>2, <2>3 DEF ClockInv
<1>2. QED
  BY <1>1, ClockStep, PTL DEF Spec

\* When network and clock are calibrated, no private call is ever refused for
\* its timestamp, for every difference of the clocks and every way in which
\* the legs of the two exchanges share their time.
THEOREM WindowHolds ==
  ASSUME Calibrated
  PROVE  Spec => []NeverOutsideWindow
<1>1. Init => NeverOutsideWindow
  BY DEF Init, NeverOutsideWindow
<1>2. ClockInv /\ NeverOutsideWindow /\ [Next]_vars => NeverOutsideWindow'
  <2> SUFFICES ASSUME ClockInv, NeverOutsideWindow, [Next]_vars
               PROVE  NeverOutsideWindow'
    OBVIOUS
  <2>0. /\ now \in Nat /\ call \in [Adapters -> Call]
        /\ verdict \in [Adapters -> Verdicts]
    BY DEF ClockInv, TypeOK
  <2>1. ASSUME NEW a \in Adapters, Judged(a)
        PROVE  NeverOutsideWindow'
    <3>1. /\ call[a].at = "signed" /\ call[a] # NoCall
          /\ OnTime(a) /\ SignedRight(a)
      BY <2>1 DEF Judged, NoCall, ClockInv
    <3>2. call[a].timestamp \in Int /\ call[a].sent \in Int
      BY <2>0, <3>1, CallFields
    <3>3. InWindow(call[a].timestamp)
      BY <2>0, <3>1, <3>2, Calibrated
      DEF Calibrated, OnTime, SignedRight, InWindow
    <3>4. verdict' = [verdict EXCEPT ![a] = "ok"]
      BY <2>1, <3>3 DEF Judged
    <3>5. QED
      BY <2>0, <3>4 DEF NeverOutsideWindow
  <2>2. ASSUME NEW a \in Adapters,
               New(a) \/ SyncTime(a) \/ PublicGet(a) \/ SignAtOnce(a)
                 \/ SignAfterSync(a) \/ Limited(a) \/ ServerTime(a)
                 \/ Synchronised(a) \/ Failed(a)
        PROVE  NeverOutsideWindow'
    BY <2>0, <2>2 DEF New, SyncTime, PublicGet, SignAtOnce, SignAfterSync,
      Limited, ServerTime, Synchronised, Failed, NeverOutsideWindow
  <2>3. CASE Tick \/ CorrectClock \/ UNCHANGED vars
    BY <2>3 DEF Tick, CorrectClock, vars, NeverOutsideWindow
  <2>4. QED
    BY <2>1, <2>2, <2>3 DEF Next, Step
<1>3. QED
  BY <1>1, <1>2, ClockHolds, PTL DEF Spec

\* The numbers of BybitConfig, in milliseconds: if the longest round trip and
\* two corrections of the local clock stay within 2498 ms, no private call is
\* refused for its timestamp.
THEOREM DefaultsHold ==
  ASSUME RecvWindow = 8000, ServerAhead = 1000, Second = 1000, Margin = 250,
         2 * Wander + MaxTrip <= 2498
  PROVE  Spec => []NeverOutsideWindow
<1>1. Calibrated
  BY TimeAssumption DEF Calibrated
<1>2. QED
  BY <1>1, WindowHolds

-----------------------------------------------------------------------------
(* The lifetime of an offset.                                              *)

HeardRight(a) ==
  clock[a].known => Apart(clock[a].at, heard[a]) /\ heard[a] <= now

LifetimeInv == SignedSoonAfterSync /\ \A a \in Adapters : HeardRight(a)

LEMMA LifetimeStep ==
  ClockInv /\ LifetimeInv /\ [Next]_vars => LifetimeInv'
<1> SUFFICES ASSUME ClockInv, LifetimeInv, [Next]_vars
             PROVE  LifetimeInv'
  OBVIOUS
<1>0. /\ now \in Nat /\ base \in Int /\ skew \in Int
      /\ clock \in [Adapters -> Clock] /\ call \in [Adapters -> Call]
      /\ heard \in [Adapters -> Nat] /\ Apart(Local, now)
  BY DEF ClockInv, TypeOK
<1>i. \A b \in Adapters :
        /\ HeardRight(b)
        /\ call[b].at = "signed" => call[b].sent - heard[b] <= Ttl + Wander
  BY DEF LifetimeInv, SignedSoonAfterSync
\* Steps that learn no offset and sign nothing.
<1>q. ASSUME base' = base, now' \in {now, now + 1}, UNCHANGED synced,
             \A b \in Adapters :
               call'[b] = call[b] \/ call'[b].at # "signed"
      PROVE  LifetimeInv'
  BY <1>0, <1>i, <1>q
  DEF synced, LifetimeInv, SignedSoonAfterSync, HeardRight, Apart
<1>1. ASSUME NEW a \in Adapters,
             New(a) \/ PublicGet(a) \/ Limited(a) \/ SyncTime(a)
               \/ SignAfterSync(a) \/ ServerTime(a) \/ Judged(a) \/ Failed(a)
      PROVE  LifetimeInv'
  <2>1. base' = base /\ now' = now /\ UNCHANGED synced
    BY <1>1 DEF New, PublicGet, Limited, SyncTime, SignAfterSync, ServerTime,
                Judged, Failed, timing
  <2>2. \A b \in Adapters : call'[b] = call[b] \/ call'[b].at # "signed"
    BY <1>0, <1>1 DEF New, PublicGet, Limited, SyncTime, SignAfterSync,
      ServerTime, Judged, Failed, Asking, NoCall
  <2>3. QED
    BY <1>q, <2>1, <2>2
<1>2. ASSUME NEW a \in Adapters, SignAtOnce(a)
      PROVE  LifetimeInv'
  <2>1. /\ UNCHANGED timing /\ UNCHANGED synced /\ Fresh(a)
        /\ call' = [call EXCEPT ![a] = Signed(clock[a])]
    BY <1>2 DEF SignAtOnce
  <2>2. clock[a].at \in Int /\ heard[a] \in Nat /\ clock[a].known
    BY <1>0, <2>1 DEF Clock, Fresh
  <2>3. now - heard[a] <= Ttl + Wander
    BY <1>0, <1>i, <2>1, <2>2 DEF Fresh, HeardRight, Apart, Local
  <2>4. Signed(clock[a]).sent = now
    BY DEF Signed
  <2>5. QED
    BY <1>0, <1>i, <2>1, <2>3, <2>4
    DEF timing, synced, LifetimeInv, SignedSoonAfterSync, HeardRight, Apart
<1>3. ASSUME NEW a \in Adapters, Synchronised(a)
      PROVE  LifetimeInv'
  <2>1. /\ UNCHANGED timing
        /\ clock' = [clock EXCEPT ![a] = Learned(call[a])]
        /\ heard' = [heard EXCEPT ![a] = now]
        /\ call[a].at = "stamped"
    BY <1>3 DEF Synchronised
  <2>2. clock'[a].at = Local /\ heard'[a] = now
    BY <1>0, <2>1, LearnedClock
  <2>3. HeardRight(a)'
    BY <1>0, <2>1, <2>2 DEF timing, HeardRight, Apart
  <2>4. call'[a] \in {Signed(Learned(call[a])), NoCall}
    BY <1>0, <1>3 DEF Synchronised
  <2>5. call'[a].at = "signed" => call'[a].sent - heard'[a] <= Ttl + Wander
    BY <1>0, <2>2, <2>4 DEF Signed, NoCall
  <2>6. \A b \in Adapters \ {a} : /\ clock'[b] = clock[b] /\ call'[b] = call[b]
                                 /\ heard'[b] = heard[b]
    BY <1>0, <1>3 DEF Synchronised
  <2>7. QED
    BY <1>i, <2>1, <2>3, <2>5, <2>6
    DEF timing, LifetimeInv, SignedSoonAfterSync, HeardRight, Apart
<1>4. CASE Tick \/ CorrectClock \/ UNCHANGED vars
  BY <1>0, <1>q, <1>4 DEF Tick, CorrectClock, vars, timing
<1>5. QED
  BY <1>1, <1>2, <1>3, <1>4 DEF Next, Step

\* A private call is never signed with an offset older than its lifetime and
\* what a correction of the local clock can hide of it.
THEOREM SignedSoon == Spec => []SignedSoonAfterSync
<1>1. Init => LifetimeInv
  BY DEF Init, LifetimeInv, SignedSoonAfterSync, HeardRight, NoClock, NoCall
<1>2. QED
  BY <1>1, LifetimeStep, ClockHolds, PTL DEF Spec, LifetimeInv

-----------------------------------------------------------------------------
(* The limiter.  Once an adapter has counted its tokens, what it has let   *)
(* through and what is left are within the allowance up to that moment.    *)

BucketRight(a) ==
  /\ 0 <= bucket[a].at /\ bucket[a].at <= now
  /\ 0 <= bucket[a].tokens /\ bucket[a].tokens <= Burst

Allowance(a) ==
  IF verdict[a] = "unused" THEN granted[a] = 0 /\ call[a] = NoCall
  ELSE /\ born[a] <= now
       /\ bucket[a].at < born[a] => granted[a] = 0
       /\ bucket[a].at >= born[a] =>
            granted[a] * Cost + bucket[a].tokens
              <= Burst + Rate * (bucket[a].at - born[a])

LimitInv ==
  /\ TypeOK
  /\ \A a \in Adapters : BucketRight(a) /\ Allowance(a)

\* Products of the limiter.
LEMMA Grows ==
  ASSUME NEW m \in Nat, NEW n \in Nat, m <= n
  PROVE  Rate * m \in Nat /\ Rate * n \in Nat /\ Rate * m <= Rate * n
<1>1. PICK d \in Nat : n = m + d
  <2>1. n - m \in Nat /\ n = m + (n - m)
    OBVIOUS
  <2>2. QED
    BY <2>1
<1>2. Rate * (m + d) = Rate * m + Rate * d
  BY SMT
<1>3. Rate * m \in Nat /\ Rate * d \in Nat
  BY SMT
<1>4. QED
  BY <1>1, <1>2, <1>3

LEMMA Splits ==
  ASSUME NEW x \in Int, NEW y \in Int, NEW z \in Int
  PROVE  /\ Rate * (x - y) + Rate * (y - z) = Rate * (x - z)
         /\ Rate * (x - y) \in Int
  BY SMT

LEMMA Spends ==
  ASSUME NEW x \in Nat, NEW y \in Nat
  PROVE  /\ (x + y) * Cost = x * Cost + y * Cost
         /\ x * Cost \in Nat /\ y * Cost \in Nat
  BY SMT

LEMMA AllowKeeps ==
  ASSUME LimitInv, NEW a \in Adapters, NEW n \in 0 .. 2, Allow(a, n),
         verdict[a] # "unused", verdict'[a] # "unused", born' = born,
         now' = now
  PROVE  (BucketRight(a) /\ Allowance(a))'
<1>0. /\ now \in Nat /\ bucket \in [Adapters -> Bucket]
      /\ granted \in [Adapters -> Nat] /\ born[a] \in Nat /\ granted[a] \in Nat
      /\ bucket[a].tokens \in Int /\ bucket[a].at \in Int
  BY DEF LimitInv, TypeOK, Bucket
<1> DEFINE R == Refilled(a)
           t == bucket[a].tokens
           s == bucket[a].at
           g == granted[a]
<1>1. R \in Int /\ R <= Burst /\ n * Cost <= R
  BY <1>0, RefilledType DEF Allow
<1>2. R <= t + Rate * (now - s)
  BY <1>0, Splits DEF Refilled
<1>3. /\ bucket'[a].tokens = R - n * Cost /\ bucket'[a].at = now
      /\ granted'[a] = g + n
  BY <1>0 DEF Allow
<1>4. /\ 0 <= s /\ s <= now /\ 0 <= t /\ t <= Burst /\ born[a] <= now
      /\ s < born[a] => g = 0
      /\ s >= born[a] => g * Cost + t <= Burst + Rate * (s - born[a])
  BY DEF LimitInv, BucketRight, Allowance
<1>5. (g + n) * Cost = g * Cost + n * Cost /\ n * Cost \in Nat /\ g * Cost \in Nat
  <2>1. g \in Nat /\ n \in Nat
    BY <1>0
  <2>2. QED
    BY <2>1, Spends
<1>6. g * Cost + R <= Burst + Rate * (now - born[a])
  <2>1. CASE s < born[a]
    <3>1. g * Cost = 0
      BY <1>4, <2>1
    <3>2. Rate * (now - born[a]) \in Nat
      BY <1>0, <1>4, Grows
    <3>3. QED
      BY <1>1, <3>1, <3>2
  <2>2. CASE s >= born[a]
    <3>1. Rate * (now - s) + Rate * (s - born[a]) = Rate * (now - born[a])
      BY <1>0, Splits
    <3>2. /\ Rate * (now - s) \in Int /\ Rate * (s - born[a]) \in Int
          /\ Rate * (now - born[a]) \in Int
      BY <1>0, Splits
    <3> HIDE DEF R
    <3>3. QED
      BY <1>0, <1>1, <1>2, <1>4, <1>5, <2>2, <3>1, <3>2
  <2>3. QED
    BY <1>0, <2>1, <2>2
<1>7. Rate * (now - born[a]) \in Int
  BY <1>0, Splits
<1> HIDE DEF R
<1>8. BucketRight(a)'
  BY <1>0, <1>1, <1>3, <1>5 DEF BucketRight
<1>9. Allowance(a)'
  <2>1. granted'[a] * Cost = g * Cost + n * Cost
    BY <1>3, <1>5
  <2>2. granted'[a] * Cost + bucket'[a].tokens = g * Cost + R
    BY <1>1, <1>3, <1>5, <2>1
  <2>3. /\ bucket'[a].at = now /\ born'[a] = born[a] /\ born[a] <= now
        /\ now' = now
    BY <1>3, <1>4
  <2>4. granted'[a] * Cost + bucket'[a].tokens
          <= Burst + Rate * (bucket'[a].at - born'[a])
    BY <1>6, <2>2, <2>3
  <2>5. born'[a] <= now' /\ ~(bucket'[a].at < born'[a])
    BY <1>0, <2>3
  <2>6. QED
    BY <2>4, <2>5 DEF Allowance
<1>10. QED
  BY <1>8, <1>9

LEMMA LimitStep == LimitInv /\ [Next]_vars => LimitInv'
<1> SUFFICES ASSUME LimitInv, [Next]_vars
             PROVE  LimitInv'
  OBVIOUS
<1>0. /\ now \in Nat /\ bucket \in [Adapters -> Bucket]
      /\ call \in [Adapters -> Call] /\ verdict \in [Adapters -> Verdicts]
      /\ born \in [Adapters -> Nat] /\ granted \in [Adapters -> Nat]
      /\ TypeOK' /\ TypeOK
  BY TypeStep DEF LimitInv, TypeOK
<1>i. \A b \in Adapters : BucketRight(b) /\ Allowance(b)
  BY DEF LimitInv
\* A step that takes no token and wakes no adapter.
<1>q. ASSUME NEW b \in Adapters, now' \in {now, now + 1},
             bucket'[b] = bucket[b], granted'[b] = granted[b],
             born'[b] = born[b],
             \/ verdict'[b] = verdict[b] /\ call'[b] = call[b]
             \/ verdict[b] # "unused" /\ verdict'[b] # "unused"
      PROVE  (BucketRight(b) /\ Allowance(b))'
  <2>1. bucket[b].at \in Int /\ born[b] \in Nat
    BY <1>0 DEF Bucket
  <2>2. BucketRight(b)'
    BY <1>0, <1>i, <1>q, <2>1 DEF BucketRight
  <2>3. Allowance(b)'
    BY <1>0, <1>i, <1>q, <2>1 DEF Allowance
  <2>4. QED
    BY <2>2, <2>3
<1>1. ASSUME NEW a \in Adapters, New(a)
      PROVE  LimitInv'
  <2>1. /\ verdict[a] = "unused" /\ verdict'[a] # "unused" /\ born'[a] = now
        /\ UNCHANGED <<now, bucket, granted, call>>
        /\ \A b \in Adapters \ {a} : verdict'[b] = verdict[b] /\ born'[b] = born[b]
    BY <1>0, <1>1 DEF New, timing, limiter
  <2>2. granted[a] = 0 /\ BucketRight(a)
    BY <1>i, <2>1 DEF Allowance
  <2>3. bucket[a].at \in Int /\ bucket[a].tokens \in Int
    BY <1>0 DEF Bucket
  <2>4. Rate * (bucket[a].at - now) = 0 \/ bucket[a].at < now
    BY <1>0, <2>2, <2>3 DEF BucketRight
  <2>5. (BucketRight(a) /\ Allowance(a))'
    BY <1>0, <2>1, <2>2, <2>3, <2>4 DEF BucketRight, Allowance
  <2>6. QED
    BY <1>0, <1>q, <2>1, <2>5 DEF LimitInv
<1>2. ASSUME NEW a \in Adapters,
             SyncTime(a) \/ PublicGet(a) \/ SignAtOnce(a) \/ SignAfterSync(a)
               \/ Limited(a)
      PROVE  LimitInv'
  <2>1. PICK n \in 0 .. 2 : Allow(a, n)
    BY <1>2 DEF SyncTime, PublicGet, SignAtOnce, SignAfterSync, Limited
  <2>2. /\ verdict[a] # "unused" /\ verdict'[a] # "unused"
        /\ UNCHANGED <<now, born>>
    BY <1>0, <1>2 DEF SyncTime, PublicGet, SignAtOnce, SignAfterSync, Limited,
      Ready, timing
  <2>3. \A b \in Adapters \ {a} : /\ call'[b] = call[b]
                                 /\ verdict'[b] = verdict[b]
    BY <1>0, <1>2 DEF SyncTime, PublicGet, SignAtOnce, SignAfterSync, Limited
  <2>4. \A b \in Adapters \ {a} : /\ bucket'[b] = bucket[b]
                                 /\ granted'[b] = granted[b]
    BY <1>0, <2>1 DEF Allow
  <2>5. (BucketRight(a) /\ Allowance(a))'
    BY <2>1, <2>2, AllowKeeps
  <2>6. QED
    BY <1>0, <1>q, <2>2, <2>3, <2>4, <2>5 DEF LimitInv
<1>3. ASSUME NEW a \in Adapters,
             ServerTime(a) \/ Synchronised(a) \/ Judged(a) \/ Failed(a)
      PROVE  LimitInv'
  <2>1. verdict[a] # "unused"
    <3>1. call[a] # NoCall
      BY <1>3 DEF ServerTime, Synchronised, Judged, Failed, NoCall
    <3>2. QED
      BY <1>i, <3>1 DEF Allowance
  <2>2. verdict'[a] # "unused" /\ UNCHANGED <<now, born, bucket, granted>>
    BY <1>0, <1>3, <2>1 DEF ServerTime, Synchronised, Judged, Failed, timing,
      limiter
  <2>3. \A b \in Adapters \ {a} : /\ call'[b] = call[b]
                                 /\ verdict'[b] = verdict[b]
    BY <1>0, <1>3 DEF ServerTime, Synchronised, Judged, Failed
  <2>4. QED
    BY <1>0, <1>q, <2>1, <2>2, <2>3 DEF LimitInv
<1>4. CASE Tick \/ CorrectClock \/ UNCHANGED vars
  BY <1>0, <1>q, <1>4 DEF Tick, CorrectClock, vars, timing, limiter, LimitInv
<1>5. QED
  BY <1>1, <1>2, <1>3, <1>4 DEF Next, Step

\* No adapter lets through more calls than its burst and its rate allow since
\* it was made, whatever the age of its bucket.
THEOREM LimitHolds == Spec => []LimiterHolds
<1>1. Init => LimitInv
  <2> SUFFICES ASSUME Init
               PROVE  LimitInv
    OBVIOUS
  <2>1. ASSUME NEW a \in Adapters
        PROVE  BucketRight(a) /\ Allowance(a)
    <3>1. /\ now = 0 /\ bucket[a].at = 0 /\ bucket[a].tokens = Burst
          /\ verdict[a] = "unused" /\ granted[a] = 0 /\ call[a] = NoCall
      BY DEF Init, NewBucket
    <3>2. QED
      BY <3>1 DEF BucketRight, Allowance
  <2>2. QED
    BY <2>1, TypeInit DEF LimitInv
<1>2. LimitInv => LimiterHolds
  <2> SUFFICES ASSUME LimitInv, NEW a \in Adapters, verdict[a] # "unused"
               PROVE  granted[a] * Cost <= Burst + Rate * (now - born[a])
    BY DEF LimiterHolds
  <2>1. /\ now \in Nat /\ born[a] \in Nat /\ granted[a] \in Nat
        /\ bucket[a].at \in Int /\ bucket[a].tokens \in Int
    BY DEF LimitInv, TypeOK, Bucket
  <2>2. granted[a] * Cost \in Nat
    BY <2>1, SMT
  <2>3. /\ born[a] <= now /\ bucket[a].at <= now /\ 0 <= bucket[a].tokens
        /\ bucket[a].at < born[a] => granted[a] = 0
        /\ bucket[a].at >= born[a] =>
             granted[a] * Cost + bucket[a].tokens
               <= Burst + Rate * (bucket[a].at - born[a])
    BY DEF LimitInv, BucketRight, Allowance
  <2>4. Rate * (now - born[a]) \in Nat
    BY <2>1, <2>3, Grows
  <2>5. CASE bucket[a].at < born[a]
    <3>1. granted[a] * Cost = 0
      BY <2>3, <2>5
    <3>2. QED
      BY <2>4, <3>1
  <2>6. CASE bucket[a].at >= born[a]
    <3>1. /\ Rate * (bucket[a].at - born[a]) \in Nat
          /\ Rate * (bucket[a].at - born[a]) <= Rate * (now - born[a])
      BY <2>1, <2>3, <2>6, Grows
    <3>2. QED
      BY <2>1, <2>2, <2>3, <2>4, <2>6, <3>1
  <2>7. QED
    BY <2>1, <2>5, <2>6
<1>3. QED
  BY <1>1, <1>2, LimitStep, PTL DEF Spec
=============================================================================
