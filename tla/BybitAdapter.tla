---------------------------- MODULE BybitAdapter ----------------------------
(***************************************************************************)
(* The clock and the rate limiter of the Bybit adapter.  An adapter object *)
(* is made for one request of the backend and makes its calls one after    *)
(* the other.  It signs private calls with the local clock corrected by an *)
(* offset it once learned from the exchange; the exchange refuses          *)
(* (retCode 10002) a timestamp outside                                     *)
(*     server time - recv_window <= timestamp < server time + 1000 ms.     *)
(* There is no retry: a refused call is an exception for the caller.       *)
(*                                                                         *)
(* Time is an integer, in any unit.  The clock of the exchange is taken as *)
(* the true one.  The local clock differs from it by skew: an arbitrary    *)
(* amount, base, and corrections of at most Wander while the adapter       *)
(* lives.  Tokens are counted in Cost-ths of a call, so that a refill is   *)
(* an integer.  Payloads, signatures and the wording of errors are left    *)
(* out.                                                                    *)
(***************************************************************************)
EXTENDS Integers

CONSTANTS
  Adapters,      \* adapter objects of one process
  RecvWindow,    \* recv_window_ms
  ServerAhead,   \* the 1000 ms by which a timestamp may lie ahead
  Second,        \* what a server time given in seconds is rounded down to
  Margin,        \* time_safety_margin_ms
  Ttl,           \* time_sync_ttl_sec
  Burst,         \* burst, times Cost
  Rate,          \* rate_per_second: tokens that come in per unit of time
  Cost,          \* one call
  MaxTrip,       \* bound: the longest a call is under way
  Wander,        \* bound: corrections of the local clock
  Bases,         \* bound: initial differences of the two clocks
  MaxTime        \* bound: when the model's time ends

ASSUME WindowAssumption ==
  /\ RecvWindow \in Nat /\ ServerAhead \in Nat /\ Margin \in Nat
  /\ Second \in Nat \ {0} /\ Ttl \in Nat
ASSUME LimiterAssumption == Burst \in Nat /\ Rate \in Nat /\ Cost \in Nat \ {0}
ASSUME TimeAssumption ==
  /\ MaxTrip \in Nat /\ Wander \in Nat /\ MaxTime \in Nat
  /\ Bases \subseteq Int

VARIABLES
  now,           \* time of the exchange
  base, skew,    \* local clock minus now: at the start, and now
  clock,         \* adapter -> offset learned, and local time it was learned
  bucket,        \* adapter -> tokens, and the time they were last counted
  call,          \* adapter -> the HTTP exchange under way
  verdict,       \* adapter -> how its last call ended
  born,          \* history: adapter -> when it was made
  granted,       \* history: adapter -> calls its limiter let through
  heard          \* history: adapter -> when its offset was learned

timing  == <<now, base, skew>>
limiter == <<bucket, granted>>
synced  == <<clock, heard>>
vars == <<timing, limiter, synced, call, verdict, born>>

Local == now + skew

-----------------------------------------------------------------------------
(* The parts of an adapter                                                 *)

\* _server_time_offset_ms and _server_time_synced_at_ms, None at first.
NoClock == [known |-> FALSE, offset |-> 0, at |-> 0]
Clock == [known : BOOLEAN, offset : Int, at : Int]

\* _updated_at of the dataclass is the time of the import: time 0.
NewBucket == [tokens |-> Burst, at |-> 0]
Bucket == [tokens : Int, at : Int]

\* A time request that waits for the server, its answer on the way back, and
\* a signed request on its way.  then: what sync_time was called for.
NoCall == [at |-> "none"]
Asking(then) == [at |-> "asked", then |-> then, sent |-> now, before |-> Local]
Call ==
  {NoCall}
  \union [at : {"asked"}, then : {"return", "sign"}, sent : Int, before : Int]
  \union [at : {"stamped"}, then : {"return", "sign"}, sent : Int,
          before : Int, server : Int]
  \union [at : {"signed"}, sent : Int, timestamp : Int]

Verdicts == {"unused", "none", "ok", "10002", "failed", "limited"}

TypeOK ==
  /\ now \in Nat /\ base \in Int /\ skew \in Int
  /\ clock \in [Adapters -> Clock]
  /\ bucket \in [Adapters -> Bucket]
  /\ call \in [Adapters -> Call]
  /\ verdict \in [Adapters -> Verdicts]
  /\ born \in [Adapters -> Nat]
  /\ granted \in [Adapters -> Nat]
  /\ heard \in [Adapters -> Nat]

Init ==
  /\ now = 0
  /\ base \in Bases
  /\ skew = base
  /\ clock = [a \in Adapters |-> NoClock]
  /\ bucket = [a \in Adapters |-> NewBucket]
  /\ call = [a \in Adapters |-> NoCall]
  /\ verdict = [a \in Adapters |-> "unused"]
  /\ born = [a \in Adapters |-> 0]
  /\ granted = [a \in Adapters |-> 0]
  /\ heard = [a \in Adapters |-> 0]

Ready(a) == call[a] = NoCall /\ verdict[a] # "unused"

-----------------------------------------------------------------------------
(* TokenBucketRateLimiter                                                  *)

\* Faulty refill: more tokens than the bucket holds.
RefilledUncapped(a) == bucket[a].tokens + Rate * (now - bucket[a].at)

Refilled(a) ==
  LET tokens == bucket[a].tokens + Rate * (now - bucket[a].at)
  IN  IF tokens < Burst THEN tokens ELSE Burst

\* Faulty allow: a token is taken and the clock of the bucket left alone.
AllowKeepsInstant(a, n) ==
  /\ Refilled(a) >= n * Cost
  /\ bucket' = [bucket EXCEPT ![a].tokens = Refilled(a) - n * Cost]
  /\ granted' = [granted EXCEPT ![a] = @ + n]

\* n calls of allow() at once, all of them true.
Allow(a, n) ==
  /\ Refilled(a) >= n * Cost
  /\ bucket' = [bucket EXCEPT ![a] =
                  [tokens |-> Refilled(a) - n * Cost, at |-> now]]
  /\ granted' = [granted EXCEPT ![a] = @ + n]

-----------------------------------------------------------------------------
(* Time synchronisation and signing                                        *)

\* Faulty lifetime: an offset once learned is kept.
FreshForever(a) == clock[a].known

\* _ensure_time_sync finds an offset that has not outlived its time.
Fresh(a) == clock[a].known /\ Local - clock[a].at <= Ttl

\* Faulty offset: the way to the server and back counts in full.
LearnedFromSending(c) ==
  [known |-> TRUE, offset |-> c.server - c.before, at |-> Local]

\* Faulty offset: the time it was learned is not kept.
LearnedWithoutInstant(c) ==
  [known |-> TRUE, offset |-> c.server - (c.before + Local) \div 2]

\* The server's time is that of the middle of the exchange.
Learned(c) ==
  [known |-> TRUE, offset |-> c.server - (c.before + Local) \div 2,
   at |-> Local]

\* _timestamp_for_private_ms with the offset of clock c.
Signed(c) ==
  [at |-> "signed", sent |-> now, timestamp |-> Local + c.offset - Margin]

-----------------------------------------------------------------------------
(* One action per call of the adapter and per message of the exchange      *)

\* BybitAdapter(...) for a new request.
New(a) ==
  /\ verdict[a] = "unused"
  /\ verdict' = [verdict EXCEPT ![a] = "none"]
  /\ born' = [born EXCEPT ![a] = now]
  /\ UNCHANGED <<timing, limiter, synced, call>>

\* sync_time, called for its own sake (the preflight does).
SyncTime(a) ==
  /\ Ready(a)
  /\ Allow(a, 1)
  /\ call' = [call EXCEPT ![a] = Asking("return")]
  /\ UNCHANGED <<timing, synced, verdict, born>>

\* _public_get, which needs neither clock nor signature.
PublicGet(a) ==
  /\ Ready(a)
  /\ Allow(a, 1)
  /\ verdict' = [verdict EXCEPT ![a] = "ok"]
  /\ UNCHANGED <<timing, synced, call, born>>

\* _private_get and _private_post: a token, then the headers, with the
\* offset at hand ...
SignAtOnce(a) ==
  /\ Ready(a)
  /\ Fresh(a)
  /\ Allow(a, 1)
  /\ call' = [call EXCEPT ![a] = Signed(clock[a])]
  /\ UNCHANGED <<timing, synced, verdict, born>>

\* ... or after a time request, which takes a token of its own.
SignAfterSync(a) ==
  /\ Ready(a)
  /\ ~Fresh(a)
  /\ Allow(a, 2)
  /\ call' = [call EXCEPT ![a] = Asking("sign")]
  /\ UNCHANGED <<timing, synced, verdict, born>>

\* _guard_rate_limit raises: at the first token, or, for a private call
\* without a fresh offset, at the second.
Limited(a) ==
  /\ Ready(a)
  /\ \/ Refilled(a) < Cost /\ Allow(a, 0)
     \/ ~Fresh(a) /\ Refilled(a) < 2 * Cost /\ Allow(a, 1)
  /\ verdict' = [verdict EXCEPT ![a] = "limited"]
  /\ UNCHANGED <<timing, synced, call, born>>

\* The exchange answers /v5/market/time: in milliseconds, or in whole seconds
\* when timeSecond is all that _extract_server_time_ms finds.
ServerTime(a) ==
  /\ call[a].at = "asked"
  /\ \E server \in {now, now - (now % Second)} :
       call' = [call EXCEPT ![a] =
                  [at |-> "stamped", then |-> call[a].then,
                   sent |-> call[a].sent, before |-> call[a].before,
                   server |-> server]]
  /\ UNCHANGED <<timing, limiter, synced, verdict, born>>

\* sync_time ends: the offset is kept, and the call it was made for signed.
Synchronised(a) ==
  /\ call[a].at = "stamped"
  /\ clock' = [clock EXCEPT ![a] = Learned(call[a])]
  /\ heard' = [heard EXCEPT ![a] = now]
  /\ call' = [call EXCEPT ![a] =
                IF call[a].then = "sign" THEN Signed(Learned(call[a]))
                ELSE NoCall]
  /\ UNCHANGED <<timing, limiter, verdict, born>>

\* The exchange's rule for the timestamp of a private call.
InWindow(timestamp) ==
  now - RecvWindow <= timestamp /\ timestamp < now + ServerAhead

\* The exchange judges a private call and answers.  A timestamp error is
\* noted for the operator; the offset stays as it is.
Judged(a) ==
  /\ call[a].at = "signed"
  /\ verdict' = [verdict EXCEPT ![a] =
                   IF InWindow(call[a].timestamp) THEN "ok" ELSE "10002"]
  /\ call' = [call EXCEPT ![a] = NoCall]
  /\ UNCHANGED <<timing, limiter, synced, born>>

\* Any other exception: connection, timeout, status, retCode, or a server
\* time that cannot be read.  A private call ends with its time request.
Failed(a) ==
  /\ call[a] # NoCall
  /\ call' = [call EXCEPT ![a] = NoCall]
  /\ verdict' = [verdict EXCEPT ![a] = "failed"]
  /\ UNCHANGED <<timing, limiter, synced, born>>

\* Time passes, though no call is under way for longer than MaxTrip.
Tick ==
  /\ now < MaxTime
  /\ \A a \in Adapters : call[a] # NoCall => now < call[a].sent + MaxTrip
  /\ now' = now + 1
  /\ UNCHANGED <<base, skew, limiter, synced, call, verdict, born>>

\* The local clock is set or slewed.
CorrectClock ==
  /\ skew' \in base .. base + Wander
  /\ UNCHANGED <<now, base, limiter, synced, call, verdict, born>>

Step(a) ==
  \/ New(a) \/ SyncTime(a) \/ PublicGet(a) \/ SignAtOnce(a)
  \/ SignAfterSync(a) \/ Limited(a) \/ ServerTime(a) \/ Synchronised(a)
  \/ Judged(a) \/ Failed(a)

Next == Tick \/ CorrectClock \/ \E a \in Adapters : Step(a)

Spec == Init /\ [][Next]_vars

-----------------------------------------------------------------------------
(* Properties                                                              *)

\* What must hold of the network and the local clock for the offset, the
\* margin and the window to be enough.  With the defaults of the code
\* (8000, 1000 and 250 ms) and a clock that is not corrected the longest
\* round trip is 2498 ms, while httpx waits 10 s for each part of an answer.
Calibrated ==
  /\ 2 * Wander + MaxTrip + 1 < 2 * (ServerAhead + Margin)
  /\ 2 * Wander + 3 * MaxTrip + 2 * Second + 2 * Margin <= 2 * RecvWindow

\* No private call is refused for its timestamp (sync_time: "so as not to
\* get retCode=10002"), however the legs of the two exchanges share their
\* time, whenever the clock is corrected, and for every difference of the
\* clocks.
NeverOutsideWindow == \A a \in Adapters : verdict[a] # "10002"

\* The limiter lets an adapter make its burst and Rate calls per unit of time
\* after that, although its bucket is as old as the import of the module.
LimiterHolds ==
  \A a \in Adapters :
    verdict[a] # "unused" =>
      granted[a] * Cost <= Burst + Rate * (now - born[a])

\* A call is signed with an offset that is no older than its lifetime, plus
\* what a local clock that was set back hides of it.
SignedSoonAfterSync ==
  \A a \in Adapters :
    call[a].at = "signed" => call[a].sent - heard[a] <= Ttl + Wander
=============================================================================
