------------------------- MODULE LivePreflightProofs -------------------------
(***************************************************************************)
(* Proofs about LivePreflight, for every universe, burst and set of        *)
(* settings.  The inductive invariant says, for each stage of a run, how   *)
(* many questions were answered well, what the limiter still holds, that   *)
(* what the flags and the incidents refuse stays refused, and that nothing *)
(* else is refused.                                                        *)
(***************************************************************************)
EXTENDS LivePreflight, TLAPS

\* Questions a run has asked the exchange when it is at its stage, the
\* fallback of the wallet counted once.
Due ==
  IF stage \in {"idle", "incidents", "evidence", "time"} THEN 0
  ELSE IF stage = "specs" THEN 1 + Universe - left
  ELSE IF stage = "key" THEN Universe + 1
  ELSE IF stage \in {"wallet", "contract"} THEN Universe + 2
  ELSE IF stage = "positions" THEN Universe + 3
  ELSE Universe + 4

\* No more good answers than questions; as many, if nothing has failed.
Counted ==
  /\ good <= Due
  /\ stage = "specs" => left >= 1
  /\ stage \in {"incidents", "evidence", "time"} => left = Universe
  /\ failed = {} /\ (stage = "done" => Asks) => good = Due

FlagsKept ==
  stage # "idle" => FlagsDown(subject.mode, subject.used, subject.db) \subseteq failed

IncidentSeen ==
  /\ openAlong => incident
  /\ stage \notin {"idle", "incidents"} /\ openAlong
       /\ (subject.repo \/ subject.used.requireDb) => "incidents" \in failed

Explained == (failed # {} => reasons # {}) /\ reasons \subseteq failed

Asking == {"time", "specs", "key", "wallet", "contract", "positions"}

\* How a run came to its stage, and with whose settings.
Path ==
  /\ stage = "evidence" => WantsEvidence(subject.mode, subject.used)
  /\ stage \in Asking => Asks
  /\ subject.caller # "script" => subject.mode = "live" /\ subject.used = settings

\* As long as the database holds nothing against the run, and the exchange
\* has answered all it was asked, only flags are down.
Justified ==
  /\ calm /\ stage \in {"incidents", "evidence"}
       => Clear(subject.mode, subject.used, subject.repo)
  /\ stage # "idle" /\ calm /\ (good = Due \/ (stage = "done" /\ ~Asks))
       => failed = FlagsDown(subject.mode, subject.used, subject.db)

Inv ==
  /\ PreflightTypeOK
  /\ Counted
  /\ FlagsKept
  /\ IncidentSeen
  /\ Explained
  /\ Path
  /\ Justified
  /\ StartsUp(settings)

-----------------------------------------------------------------------------
(* Lemmas about the settings and the steps of a run                        *)

LEMMA FlagsAreChecks ==
  ASSUME NEW mode, NEW s, NEW db
  PROVE  FlagsDown(mode, s, db) \subseteq Checks
BY DEF FlagsDown, Flags, Checks

LEMMA FlagsSame ==
  ASSUME UNCHANGED subject
  PROVE  FlagsDown(subject.mode, subject.used, subject.db)'
           = FlagsDown(subject.mode, subject.used, subject.db)
BY DEF FlagsDown, Flags

\* What the startup guard lets through with trading on has no flag of the
\* gate down but the one of the database.
LEMMA GuardCoversFlags ==
  ASSUME NEW s \in Settings, StartsUp(s), s.trading, NEW db
  PROVE  FlagsDown("live", s, db) \subseteq {"database"}
BY DEF Settings, FlagsDown, Flags, StartsUp, LiveRequested, CanLiveTrade

LEMMA ClearType ==
  ASSUME PreflightTypeOK, NEW mode, NEW s \in Settings, NEW repo \in BOOLEAN
  PROVE  Clear(mode, s, repo) \in BOOLEAN
BY DEF Clear, WantsEvidence, PreflightTypeOK, Settings

LEMMA ClearSame ==
  ASSUME UNCHANGED <<subject, up, schema, incident, evidence>>
  PROVE  Clear(subject.mode, subject.used, subject.repo)'
           = Clear(subject.mode, subject.used, subject.repo)
BY DEF Clear, WantsEvidence

LEMMA NoSubjectType == ASSUME NEW s \in Settings PROVE NoSubject(s) \in Subject
BY DEF NoSubject, Subject

LEMMA InstalledType ==
  ASSUME schema \in BOOLEAN, NEW s PROVE Installed(s) \in App
BY DEF Installed, NoDatabase, App

LEMMA StagesOfAfter == AfterDatabase \in {"time", "done"}
BY DEF AfterDatabase

LEMMA BlocksType ==
  ASSUME PreflightTypeOK, NEW c \in Checks, Blocks(c)
  PROVE  reasons' \subseteq Checks /\ failed' \subseteq Checks
BY DEF Blocks, PreflightTypeOK

LEMMA CallType ==
  ASSUME PreflightTypeOK, NEW end, NEW cost \in {1, 2}, Call(end, cost)
  PROVE  /\ tokens' \in 0 .. Burst
         /\ limited' \in BOOLEAN
         /\ good' = good \/ good' = good + 1
         /\ end = "good" <=> good' = good + 1
BY PreflightAssumption DEF PreflightTypeOK, Call

LEMMA PrivateCallType ==
  ASSUME PreflightTypeOK, NEW end, PrivateCall(end)
  PROVE  /\ tokens' \in 0 .. Burst
         /\ limited' \in BOOLEAN
         /\ synced' \in BOOLEAN
         /\ good' = good \/ good' = good + 1
         /\ end = "good" <=> good' = good + 1
<1>1. synced' \in BOOLEAN
  BY DEF PrivateCall, PreflightTypeOK
<1>2. PICK cost \in {1, 2} : Call(end, cost)
  BY DEF PrivateCall
<1> QED
  BY <1>1, <1>2, CallType

-----------------------------------------------------------------------------
(* The initial state                                                       *)

LEMMA InitInv == PreflightInit => Inv
<1> SUFFICES ASSUME PreflightInit PROVE Inv
  OBVIOUS
<1>1. settings \in Settings /\ StartsUp(settings)
  BY PreflightAssumption DEF PreflightInit
<1>2. app \in App
  <2>1. schema \in BOOLEAN /\ app = Installed(settings)
    BY DEF PreflightInit
  <2> QED
    BY <2>1, InstalledType
<1>3. subject \in Subject
  BY <1>1, NoSubjectType DEF PreflightInit
<1>4. PreflightTypeOK
  <2>1. left \in 0 .. Universe /\ tokens \in 0 .. Burst /\ good \in 0 .. Universe + 4
    BY PreflightAssumption DEF PreflightInit
  <2>2. reasons = {} /\ failed = {} /\ stage \in Stages
    BY DEF PreflightInit, Stages
  <2>3. /\ synced = FALSE /\ limited = FALSE
        /\ openAlong = FALSE /\ calm = FALSE
    BY DEF PreflightInit
  <2>4. /\ up \in BOOLEAN /\ schema \in BOOLEAN
        /\ incident \in BOOLEAN /\ evidence \in BOOLEAN
    BY DEF PreflightInit
  <2> QED
    BY <1>1, <1>2, <1>3, <2>1, <2>2, <2>3, <2>4 DEF PreflightTypeOK
<1>5. Counted
  BY PreflightAssumption DEF PreflightInit, Counted, Due
<1>6. FlagsKept /\ IncidentSeen /\ Explained
  BY DEF PreflightInit, FlagsKept, IncidentSeen, Explained
<1>7. Path /\ Justified
  BY DEF PreflightInit, Path, Justified, Asking, NoSubject
<1> QED
  BY <1>1, <1>4, <1>5, <1>6, <1>7 DEF Inv

-----------------------------------------------------------------------------
(* A run begins                                                            *)

LEMMA BeginInv ==
  ASSUME Inv, NEW caller \in {"gate", "panel", "script"},
         NEW mode \in {"live", "testnet"}, NEW s \in Settings,
         NEW db \in BOOLEAN, NEW repo \in BOOLEAN,
         caller # "script" => mode = "live" /\ s = settings,
         Begin(caller, mode, s, db, repo), UNCHANGED <<settings, world>>,
         app' \in App
  PROVE  Inv'
<1>1. subject' \in Subject
  BY DEF Begin, Subject
<1>2. reasons' \subseteq Checks /\ failed' \subseteq Checks
  BY FlagsAreChecks DEF Begin
<1>3. PreflightTypeOK'
  <2>1. UNCHANGED <<settings, up, schema, incident, evidence>>
    BY DEF world
  <2>2. left' \in 0 .. Universe /\ tokens' \in 0 .. Burst /\ good' \in 0 .. Universe + 4
    BY PreflightAssumption DEF Begin
  <2>3. stage' \in Stages
    BY DEF Begin, Stages
  <2>4. /\ synced' \in BOOLEAN /\ limited' \in BOOLEAN
        /\ openAlong' \in BOOLEAN /\ calm' \in BOOLEAN
    BY ClearType DEF Begin, Inv, PreflightTypeOK
  <2> QED
    BY <1>1, <1>2, <2>1, <2>2, <2>3, <2>4 DEF Inv, PreflightTypeOK
<1>4. Counted'
  BY PreflightAssumption DEF Begin, Counted, Due
<1>5. FlagsKept'
  BY DEF Begin, FlagsKept, FlagsDown, Flags
<1>6. IncidentSeen' /\ Explained'
  BY DEF Begin, IncidentSeen, Explained, world
<1>7. StartsUp(settings)'
  BY DEF Inv, StartsUp, LiveRequested, CanLiveTrade
<1>8. Path'
  BY DEF Begin, Path, Asking
<1>9. Justified'
  <2>1. calm' = Clear(mode, s, repo) /\ UNCHANGED <<up, schema, incident, evidence>>
    BY DEF Begin, world
  <2>2. /\ subject'.mode = mode /\ subject'.used = s /\ subject'.db = db
        /\ subject'.repo = repo /\ failed' = FlagsDown(mode, s, db)
    BY DEF Begin
  <2> QED
    BY <2>1, <2>2 DEF Justified, Clear, WantsEvidence, FlagsDown, Flags
<1> QED
  BY <1>3, <1>4, <1>5, <1>6, <1>7, <1>8, <1>9 DEF Inv

LEMMA GateInv == ASSUME Inv, Gate PROVE Inv'
<1>1. app.available \in BOOLEAN /\ app.repo \in BOOLEAN /\ settings \in Settings
  BY DEF Inv, PreflightTypeOK, App
<1>2. app' \in App /\ UNCHANGED <<settings, world>>
  BY DEF Gate, server, Inv, PreflightTypeOK
<1> QED
  BY <1>1, <1>2, BeginInv DEF Gate

LEMMA EnsuredType ==
  ASSUME app \in App, up \in BOOLEAN, schema \in BOOLEAN, NEW kept \in BOOLEAN
  PROVE  Ensured(app, kept) \in App
BY DEF Ensured, NoDatabase, App

LEMMA LookInv == ASSUME Inv, Idle, \E kept \in BOOLEAN : app' = Ensured(app, kept),
                        UNCHANGED <<settings, world, runVars>>
                 PROVE  Inv'
<1>1. app' \in App
  BY EnsuredType DEF Inv, PreflightTypeOK
<1>2. PreflightTypeOK'
  BY <1>1 DEF Inv, PreflightTypeOK, world, runVars, judged, calls, seen
<1>3. Counted' /\ IncidentSeen' /\ Explained' /\ Path'
  BY DEF Inv, Counted, Due, Asks, IncidentSeen, Explained, Path, Asking,
         WantsEvidence, world, runVars, judged, calls, seen
<1>6. Justified'
  <2>1. /\ UNCHANGED <<subject, stage, failed, left, good, calm>>
        /\ UNCHANGED <<up, schema, incident, evidence>>
    BY DEF runVars, judged, calls, seen, world
  <2> QED
    BY <2>1, FlagsSame, ClearSame DEF Inv, Justified, Due, Asks
<1>5. FlagsKept'
  <2>1. UNCHANGED <<stage, subject, failed>>
    BY DEF runVars, judged
  <2> QED
    BY <2>1 DEF Inv, FlagsKept, FlagsDown, Flags
<1>4. StartsUp(settings)'
  BY DEF Inv, StartsUp, LiveRequested, CanLiveTrade
<1> QED
  BY <1>2, <1>3, <1>4, <1>5, <1>6 DEF Inv

LEMMA PanelInv == ASSUME Inv, Panel PROVE Inv'
<1>1. app' \in App
  BY EnsuredType DEF Inv, PreflightTypeOK, Panel
<1>2. CASE LiveRequested(settings)
  <2> DEFINE db == app'.available /\ app'.ready
  <2>1. db \in BOOLEAN /\ app'.repo \in BOOLEAN /\ settings \in Settings
    BY <1>1 DEF App, Inv, PreflightTypeOK
  <2>2. Begin("panel", "live", settings, db, app'.repo)
    BY <1>2 DEF Panel
  <2>3. UNCHANGED <<settings, world>>
    BY DEF Panel
  <2> HIDE DEF db
  <2> QED
    BY <1>1, <2>1, <2>2, <2>3, BeginInv
<1>3. CASE ~LiveRequested(settings)
  BY <1>3, LookInv DEF Panel
<1> QED
  BY <1>2, <1>3

LEMMA ScriptInv ==
  ASSUME Inv, NEW mode \in {"live", "testnet"}, Script(mode)
  PROVE  Inv'
<1> DEFINE s == IF mode = "testnet" THEN [settings EXCEPT !.testnet = TRUE]
                ELSE [settings EXCEPT !.testnet = FALSE, !.local = FALSE]
           opened == up /\ (s.requireDb \/ LiveRequested(s))
<1>1. s \in Settings
  BY DEF Inv, PreflightTypeOK, Settings
<1>2. opened \in BOOLEAN
  BY <1>1 DEF Inv, PreflightTypeOK
<1>3. app' \in App /\ UNCHANGED <<settings, world>>
  BY DEF Script, server, Inv, PreflightTypeOK
<1>4. Begin("script", mode, s, opened, opened)
  BY DEF Script
<1> HIDE DEF s, opened
<1> QED
  BY <1>1, <1>2, <1>3, <1>4, BeginInv

-----------------------------------------------------------------------------
(* A run goes on                                                           *)

\* What a step of a run does to its verdict.
Grows ==
  /\ failed \subseteq failed' /\ reasons \subseteq reasons'
  /\ failed' \subseteq Checks /\ reasons' \subseteq Checks
  /\ failed' # failed => reasons' # {}
  /\ reasons \subseteq failed => reasons' \subseteq failed'

LEMMA BlocksGrows ==
  ASSUME PreflightTypeOK, NEW c \in Checks, Blocks(c)
  PROVE  Grows /\ failed' # {}
BY BlocksType DEF Blocks, Grows

LEMMA JudgedGrows ==
  ASSUME PreflightTypeOK, UNCHANGED judged PROVE Grows /\ failed' = failed
BY DEF judged, Grows, PreflightTypeOK

LEMMA KeepsRest ==
  ASSUME Inv, Grows, stage \notin {"idle", "incidents"},
         UNCHANGED <<server, world, subject, seen>>
  PROVE  FlagsKept' /\ IncidentSeen' /\ Explained' /\ StartsUp(settings)'
<1>1. FlagsKept'
  BY DEF Inv, Grows, FlagsKept, FlagsDown, Flags
<1>2. IncidentSeen'
  BY DEF Inv, Grows, IncidentSeen, world, seen
<1>3. Explained'
  BY DEF Inv, Grows, Explained
<1>4. StartsUp(settings)'
  BY DEF Inv, StartsUp, LiveRequested, CanLiveTrade, server
<1> QED
  BY <1>1, <1>2, <1>3, <1>4

LEMMA KeepsType ==
  ASSUME Inv, Grows, UNCHANGED <<server, world, subject, seen>>,
         stage' \in Stages, left' \in 0 .. Universe, tokens' \in 0 .. Burst,
         good' \in 0 .. Universe + 4, synced' \in BOOLEAN, limited' \in BOOLEAN
  PROVE  PreflightTypeOK'
BY DEF Inv, PreflightTypeOK, Grows, server, world, seen

\* A question keeps the run on its path; one that leaves every answer good
\* so far was answered well, or asked again of the wallet.
LEMMA KeepsPath ==
  ASSUME Inv, stage \in Asking, stage' \in Asking \union {"done"},
         UNCHANGED <<server, world, subject, seen>>,
         good' = Due' => good = Due /\ failed' = failed
  PROVE  Path' /\ Justified'
<1>1. UNCHANGED <<settings, calm>> /\ Asks' = Asks
  BY DEF server, seen, Asks
<1>2. stage # "idle" /\ stage' \notin {"idle", "incidents", "evidence"}
  BY DEF Asking
<1>3. Path'
  BY <1>1, <1>2 DEF Inv, Path
<1>4. Justified'
  BY <1>1, <1>2, FlagsSame DEF Inv, Path, Justified
<1> QED
  BY <1>3, <1>4

LEMMA IncidentsInv == ASSUME Inv, CheckIncidents PROVE Inv'
<1>1. PICK check : check = "incidents" /\ check \in Checks
  BY DEF Checks
<1>2. Grows
  BY <1>1, BlocksGrows, JudgedGrows DEF CheckIncidents, Inv
<1>3. stage' \in {"evidence", "time", "done"}
  BY StagesOfAfter DEF CheckIncidents
<1>4. stage' = "done" => ~Asks
  BY DEF CheckIncidents, AfterDatabase
<1>5. PreflightTypeOK'
  BY <1>2, <1>3, KeepsType DEF CheckIncidents, calls, Stages, Inv, PreflightTypeOK
<1>6. Counted'
  <2>1. stage = "incidents" /\ UNCHANGED <<subject, left, good>>
    BY DEF CheckIncidents, calls
  <2>2. good = 0 /\ left = Universe
    BY <2>1 DEF Inv, PreflightTypeOK, Counted, Due
  <2>3. good' <= Due'
    BY <1>3, <2>1, <2>2, PreflightAssumption DEF Due
  <2>4. stage' # "done" => good' = Due'
    BY <1>3, <2>1, <2>2 DEF Due
  <2>5. Asks' = Asks
    BY <2>1 DEF Asks
  <2> QED
    BY <1>3, <1>4, <2>1, <2>2, <2>3, <2>4, <2>5 DEF Counted
<1>7. FlagsKept'
  <2>1. stage # "idle" /\ UNCHANGED subject
    BY DEF CheckIncidents
  <2> QED
    BY <1>2, <2>1 DEF Inv, Grows, FlagsKept, FlagsDown, Flags
<1>8. IncidentSeen'
  <2>1. UNCHANGED <<openAlong, incident, subject>>
    BY DEF CheckIncidents, world, seen
  <2>2. openAlong /\ (subject.repo \/ subject.used.requireDb) => "incidents" \in failed'
    BY DEF CheckIncidents, Blocks, Inv, IncidentSeen
  <2> QED
    BY <2>1, <2>2 DEF Inv, IncidentSeen
<1>9. Explained' /\ StartsUp(settings)'
  BY <1>2 DEF Inv, Grows, Explained, StartsUp, LiveRequested, CanLiveTrade,
              CheckIncidents, server
<1>10. Path'
  <2>1. UNCHANGED <<settings, subject>> /\ Asks' = Asks
    BY DEF CheckIncidents, server, Asks
  <2>2. /\ stage' = "evidence" => WantsEvidence(subject.mode, subject.used)
        /\ stage' = "time" => Asks
    BY DEF CheckIncidents, AfterDatabase
  <2> QED
    BY <1>3, <2>1, <2>2 DEF Inv, Path, Asking, WantsEvidence
<1>11. Justified'
  <2>1. /\ stage = "incidents"
        /\ UNCHANGED <<subject, up, schema, incident, evidence, calm, good>>
    BY DEF CheckIncidents, world, seen, calls
  <2>2. calm => Clear(subject.mode, subject.used, subject.repo)
    BY <2>1 DEF Inv, Justified
  <2>3. calm => failed' = failed
    BY <2>2 DEF CheckIncidents, Clear, judged
  <2>4. good = Due
    BY <2>1 DEF Inv, PreflightTypeOK, Counted, Due
  <2>5. calm => failed = FlagsDown(subject.mode, subject.used, subject.db)
    BY <2>1, <2>4 DEF Inv, Justified
  <2> QED
    BY <2>1, <2>2, <2>3, <2>5, FlagsSame, ClearSame DEF Justified
<1> QED
  BY <1>5, <1>6, <1>7, <1>8, <1>9, <1>10, <1>11 DEF Inv

LEMMA EvidenceInv == ASSUME Inv, CheckEvidence PROVE Inv'
<1>1. PICK check : check = "evidence" /\ check \in Checks
  BY DEF Checks
<1>2. Grows
  BY <1>1, BlocksGrows, JudgedGrows DEF CheckEvidence, Inv
<1>3. stage' \in {"time", "done"} /\ (stage' = "done" <=> ~Asks)
  BY DEF CheckEvidence, AfterDatabase
<1>4. PreflightTypeOK'
  BY <1>2, <1>3, KeepsType DEF CheckEvidence, calls, Stages, Inv, PreflightTypeOK
<1>5. Counted'
  <2>1. stage = "evidence" /\ UNCHANGED <<subject, left, good>>
    BY DEF CheckEvidence, calls
  <2>2. good = 0 /\ left = Universe
    BY <2>1 DEF Inv, PreflightTypeOK, Counted, Due
  <2>3. good' <= Due'
    BY <1>3, <2>1, <2>2, PreflightAssumption DEF Due
  <2>4. stage' # "done" => good' = Due'
    BY <1>3, <2>1, <2>2 DEF Due
  <2>5. Asks' = Asks
    BY <2>1 DEF Asks
  <2> QED
    BY <1>3, <2>1, <2>2, <2>3, <2>4, <2>5 DEF Counted
<1>6. FlagsKept' /\ IncidentSeen' /\ Explained' /\ StartsUp(settings)'
  BY <1>2, KeepsRest DEF CheckEvidence
<1>7. Path'
  <2>1. UNCHANGED <<settings, subject>> /\ Asks' = Asks
    BY DEF CheckEvidence, server, Asks
  <2> QED
    BY <1>3, <2>1 DEF Inv, Path, Asking
<1>8. Justified'
  <2>1. stage = "evidence" /\ UNCHANGED <<subject, calm, good>>
    BY DEF CheckEvidence, seen, calls
  <2>2. calm => failed' = failed
    BY <2>1 DEF CheckEvidence, Inv, Justified, Path, Clear, judged
  <2>3. good = Due
    BY <2>1 DEF Inv, PreflightTypeOK, Counted, Due
  <2>4. calm => failed = FlagsDown(subject.mode, subject.used, subject.db)
    BY <2>1, <2>3 DEF Inv, Justified
  <2> QED
    BY <1>3, <2>1, <2>2, <2>4, FlagsSame DEF Justified
<1> QED
  BY <1>4, <1>5, <1>6, <1>7, <1>8 DEF Inv

LEMMA TimeInv == ASSUME Inv, AskTime PROVE Inv'
<1>1. PICK check : check = "time" /\ check \in Checks
  BY DEF Checks
<1>2. PICK end \in Ends \ {"unfit"} :
        /\ Call(end, 1)
        /\ synced' = (end = "good")
        /\ IF end = "good" THEN UNCHANGED judged ELSE Blocks(check)
  BY <1>1 DEF AskTime
<1>3. /\ stage = "time" /\ stage' = "specs"
      /\ UNCHANGED <<server, world, subject, left, seen>>
  BY DEF AskTime
<1>4. /\ Grows /\ (end # "good" => failed' # {})
      /\ end = "good" => failed' = failed
  BY <1>1, <1>2, BlocksGrows, JudgedGrows DEF Inv
<1>5. good = 0 /\ left = Universe
  BY <1>3 DEF Inv, PreflightTypeOK, Counted, Due
<1>6. /\ tokens' \in 0 .. Burst /\ limited' \in BOOLEAN
      /\ good' \in {0, 1} /\ (end = "good" <=> good' = 1)
  BY <1>2, <1>5, CallType DEF Inv
<1>7. PreflightTypeOK'
  BY <1>2, <1>3, <1>4, <1>5, <1>6, KeepsType, PreflightAssumption DEF Stages
<1>8. Counted'
  BY <1>3, <1>4, <1>5, <1>6, PreflightAssumption DEF Counted, Due
<1>9. FlagsKept' /\ IncidentSeen' /\ Explained' /\ StartsUp(settings)'
  BY <1>3, <1>4, KeepsRest
<1>10. Path' /\ Justified'
  <2>1. good' = Due' => good = Due /\ failed' = failed
    BY <1>3, <1>4, <1>5, <1>6, PreflightAssumption DEF Due
  <2>2. stage \in Asking /\ stage' \in Asking \union {"done"}
    BY <1>3, <1>4 DEF Asking
  <2> QED
    BY <1>3, <2>1, <2>2, KeepsPath
<1> QED
  BY <1>7, <1>8, <1>9, <1>10 DEF Inv

LEMMA SpecInv == ASSUME Inv, AskSpec PROVE Inv'
<1>1. PICK check : check = "specs" /\ check \in Checks
  BY DEF Checks
<1>2. PICK end \in Ends :
        /\ Call(end, 1)
        /\ IF end = "good" THEN UNCHANGED judged ELSE Blocks(check)
  BY <1>1 DEF AskSpec
<1>3. /\ stage = "specs" /\ stage' = IF left = 1 THEN "key" ELSE "specs"
      /\ left' = left - 1 /\ UNCHANGED <<server, world, subject, synced, seen>>
  BY DEF AskSpec
<1>4. /\ Grows /\ (end # "good" => failed' # {}) /\ (failed' = {} => failed = {})
      /\ end = "good" => failed' = failed
  BY <1>1, <1>2, BlocksGrows, JudgedGrows DEF Inv, Grows
<1>5. /\ left \in 1 .. Universe /\ good \in 0 .. 1 + Universe - left
      /\ failed = {} => good = 1 + Universe - left
  BY <1>3, PreflightAssumption DEF Inv, PreflightTypeOK, Counted, Due
<1>6. /\ tokens' \in 0 .. Burst /\ limited' \in BOOLEAN
      /\ good' = good \/ good' = good + 1
      /\ end = "good" <=> good' = good + 1
  BY <1>2, CallType DEF Inv
<1>7. PreflightTypeOK'
  <2>1. left' \in 0 .. Universe /\ good' \in 0 .. Universe + 4
    BY <1>3, <1>5, <1>6, PreflightAssumption
  <2>2. stage' \in Stages /\ synced' \in BOOLEAN
    BY <1>3 DEF Stages, Inv, PreflightTypeOK
  <2> QED
    BY <1>3, <1>4, <1>6, <2>1, <2>2, KeepsType
<1>8. Counted'
  <2>1. CASE left = 1
    BY <1>3, <1>4, <1>5, <1>6, <2>1, PreflightAssumption DEF Counted, Due
  <2>2. CASE left # 1
    BY <1>3, <1>4, <1>5, <1>6, <2>2, PreflightAssumption DEF Counted, Due
  <2> QED
    BY <2>1, <2>2
<1>9. FlagsKept' /\ IncidentSeen' /\ Explained' /\ StartsUp(settings)'
  BY <1>3, <1>4, KeepsRest
<1>10. Path' /\ Justified'
  <2>1. good' = Due' => good = Due /\ failed' = failed
    BY <1>3, <1>4, <1>5, <1>6, PreflightAssumption DEF Due
  <2>2. stage \in Asking /\ stage' \in Asking \union {"done"}
    BY <1>3, <1>4 DEF Asking
  <2> QED
    BY <1>3, <2>1, <2>2, KeepsPath
<1> QED
  BY <1>7, <1>8, <1>9, <1>10 DEF Inv

LEMMA KeyInv == ASSUME Inv, AskKey PROVE Inv'
<1>1. PICK end \in Ends :
        /\ PrivateCall(end)
        /\ CASE end = "good"  -> UNCHANGED judged
             [] end = "unfit" -> Blocks("permission")
             [] OTHER         -> /\ failed' = failed \union {"private_api", "permission"}
                                 /\ reasons' = reasons \union {"private_api"}
  BY DEF AskKey
<1>2. /\ stage = "key" /\ stage' = "wallet"
      /\ UNCHANGED <<server, world, subject, left, seen>>
  BY DEF AskKey
<1>3. /\ Grows /\ (end # "good" => failed' # {}) /\ (failed' = {} => failed = {})
      /\ end = "good" => failed' = failed
  <2>1. CASE end = "good"
    BY <1>1, <2>1, JudgedGrows DEF Inv
  <2>2. CASE end = "unfit"
    <3>1. PICK check : check = "permission" /\ check \in Checks
      BY DEF Checks
    <3> QED
      BY <1>1, <2>2, <3>1, BlocksGrows DEF Inv, Grows
  <2>3. CASE end \notin {"good", "unfit"}
    <3>1. /\ failed' = failed \union {"private_api", "permission"}
          /\ reasons' = reasons \union {"private_api"}
      BY <1>1, <2>3
    <3>2. Grows
      <4>1. reasons \subseteq failed => reasons' \subseteq failed'
        BY <3>1
      <4>2. /\ failed \subseteq failed' /\ reasons \subseteq reasons'
            /\ failed' \subseteq Checks /\ reasons' \subseteq Checks
            /\ reasons' # {}
        BY <3>1 DEF Inv, PreflightTypeOK, Checks
      <4> QED
        BY <4>1, <4>2 DEF Grows
    <3> QED
      BY <2>3, <3>1, <3>2
  <2> QED
    BY <2>1, <2>2, <2>3
<1>4. good \in 0 .. Universe + 1 /\ (failed = {} => good = Universe + 1)
  BY <1>2, PreflightAssumption DEF Inv, PreflightTypeOK, Counted, Due
<1>5. /\ tokens' \in 0 .. Burst /\ limited' \in BOOLEAN /\ synced' \in BOOLEAN
      /\ good' = good \/ good' = good + 1
      /\ end = "good" <=> good' = good + 1
  BY <1>1, PrivateCallType DEF Inv
<1>6. PreflightTypeOK'
  <2>1. left' \in 0 .. Universe /\ good' \in 0 .. Universe + 4
    BY <1>2, <1>4, <1>5, PreflightAssumption DEF Inv, PreflightTypeOK
  <2> QED
    BY <1>2, <1>3, <1>5, <2>1, KeepsType DEF Stages
<1>7. Counted'
  BY <1>2, <1>3, <1>4, <1>5, PreflightAssumption DEF Counted, Due
<1>8. FlagsKept' /\ IncidentSeen' /\ Explained' /\ StartsUp(settings)'
  BY <1>2, <1>3, KeepsRest
<1>9. Path' /\ Justified'
  <2>1. good' = Due' => good = Due /\ failed' = failed
    BY <1>2, <1>3, <1>4, <1>5, PreflightAssumption DEF Due
  <2>2. stage \in Asking /\ stage' \in Asking \union {"done"}
    BY <1>2 DEF Asking
  <2> QED
    BY <1>2, <2>1, <2>2, KeepsPath
<1> QED
  BY <1>6, <1>7, <1>8, <1>9 DEF Inv

LEMMA WalletInv == ASSUME Inv, AskWallet PROVE Inv'
<1>1. PICK check : check = "wallet" /\ check \in Checks
  BY DEF Checks
<1>2. PICK end \in Ends :
        /\ PrivateCall(end)
        /\ IF stage = "wallet" /\ end \in {"raises", "limited"}
           THEN stage' = "contract" /\ UNCHANGED judged
           ELSE /\ stage' = "positions"
                /\ IF end = "good" THEN UNCHANGED judged ELSE Blocks(check)
  BY <1>1 DEF AskWallet
<1>3. /\ stage \in {"wallet", "contract"}
      /\ UNCHANGED <<server, world, subject, left, seen>>
  BY DEF AskWallet
<1>4. /\ Grows /\ (failed' = {} => failed = {})
      /\ \/ stage' = "contract" /\ end # "good"
         \/ stage' = "positions" /\ (end # "good" => failed' # {})
      /\ stage' = "contract" \/ end = "good" => failed' = failed
  BY <1>1, <1>2, BlocksGrows, JudgedGrows DEF Inv, Grows
<1>5. good \in 0 .. Universe + 2 /\ (failed = {} => good = Universe + 2)
  BY <1>3, PreflightAssumption DEF Inv, PreflightTypeOK, Counted, Due
<1>6. /\ tokens' \in 0 .. Burst /\ limited' \in BOOLEAN /\ synced' \in BOOLEAN
      /\ good' = good \/ good' = good + 1
      /\ end = "good" <=> good' = good + 1
  BY <1>2, PrivateCallType DEF Inv
<1>7. PreflightTypeOK'
  <2>1. left' \in 0 .. Universe /\ good' \in 0 .. Universe + 4
    BY <1>3, <1>5, <1>6, PreflightAssumption DEF Inv, PreflightTypeOK
  <2> QED
    BY <1>3, <1>4, <1>6, <2>1, KeepsType DEF Stages
<1>8. Counted'
  BY <1>4, <1>5, <1>6, PreflightAssumption DEF Counted, Due
<1>9. FlagsKept' /\ IncidentSeen' /\ Explained' /\ StartsUp(settings)'
  BY <1>3, <1>4, KeepsRest
<1>10. Path' /\ Justified'
  <2>1. good' = Due' => good = Due /\ failed' = failed
    BY <1>3, <1>4, <1>5, <1>6, PreflightAssumption DEF Due
  <2>2. stage \in Asking /\ stage' \in Asking \union {"done"}
    BY <1>3, <1>4 DEF Asking
  <2> QED
    BY <1>3, <2>1, <2>2, KeepsPath
<1> QED
  BY <1>7, <1>8, <1>9, <1>10 DEF Inv

LEMMA PositionsInv == ASSUME Inv, AskPositions PROVE Inv'
<1>1. PICK check : check = "positions" /\ check \in Checks
  BY DEF Checks
<1>2. PICK end \in Ends :
        /\ PrivateCall(end)
        /\ IF end = "good" THEN UNCHANGED judged ELSE Blocks(check)
  BY <1>1 DEF AskPositions
<1>3. /\ stage = "positions" /\ stage' = "done"
      /\ UNCHANGED <<server, world, subject, left, seen>>
  BY DEF AskPositions
<1>4. /\ Grows /\ (end # "good" => failed' # {}) /\ (failed' = {} => failed = {})
      /\ end = "good" => failed' = failed
  BY <1>1, <1>2, BlocksGrows, JudgedGrows DEF Inv, Grows
<1>5. good \in 0 .. Universe + 3 /\ (failed = {} => good = Universe + 3)
  BY <1>3, PreflightAssumption DEF Inv, PreflightTypeOK, Counted, Due
<1>6. /\ tokens' \in 0 .. Burst /\ limited' \in BOOLEAN /\ synced' \in BOOLEAN
      /\ good' = good \/ good' = good + 1
      /\ end = "good" <=> good' = good + 1
  BY <1>2, PrivateCallType DEF Inv
<1>7. PreflightTypeOK'
  <2>1. left' \in 0 .. Universe /\ good' \in 0 .. Universe + 4
    BY <1>3, <1>5, <1>6, PreflightAssumption DEF Inv, PreflightTypeOK
  <2> QED
    BY <1>3, <1>4, <1>6, <2>1, KeepsType DEF Stages
<1>8. Counted'
  BY <1>3, <1>4, <1>5, <1>6, PreflightAssumption DEF Counted, Due
<1>9. FlagsKept' /\ IncidentSeen' /\ Explained' /\ StartsUp(settings)'
  BY <1>3, <1>4, KeepsRest
<1>10. Path' /\ Justified'
  <2>1. good' = Due' => good = Due /\ failed' = failed
    BY <1>3, <1>4, <1>5, <1>6, PreflightAssumption DEF Due
  <2>2. stage \in Asking /\ stage' \in Asking \union {"done"}
    BY <1>3, <1>4 DEF Asking
  <2> QED
    BY <1>3, <2>1, <2>2, KeepsPath
<1> QED
  BY <1>7, <1>8, <1>9, <1>10 DEF Inv

-----------------------------------------------------------------------------
(* The server and the world around a run                                   *)

LEMMA RestartInv == ASSUME Inv, Restart PROVE Inv'
<1>1. settings' \in Settings /\ StartsUp(settings)'
  BY PreflightAssumption
  DEF Restart, StartsUp, LiveRequested, CanLiveTrade
<1>2. UNCHANGED <<up, schema, incident, evidence>>
  BY DEF Restart, world
<1>3. app' \in App
  BY InstalledType DEF Restart, Inv, PreflightTypeOK
<1>4. subject' \in Subject
  BY <1>1, NoSubjectType DEF Restart
<1>5. /\ stage' = "idle" /\ reasons' = {} /\ failed' = {}
      /\ left' = 0 /\ tokens' = 0 /\ good' = 0
      /\ synced' = FALSE /\ limited' = FALSE
      /\ openAlong' = FALSE /\ calm' = FALSE
  BY DEF Restart
<1>6. PreflightTypeOK'
  <2>1. left' \in 0 .. Universe /\ tokens' \in 0 .. Burst /\ good' \in 0 .. Universe + 4
    BY <1>5, PreflightAssumption
  <2>2. stage' \in Stages
    BY <1>5 DEF Stages
  <2> QED
    BY <1>1, <1>2, <1>3, <1>4, <1>5, <2>1, <2>2 DEF Inv, PreflightTypeOK
<1>7. Counted' /\ FlagsKept' /\ IncidentSeen' /\ Explained'
  BY <1>5, PreflightAssumption DEF Counted, Due, FlagsKept, IncidentSeen, Explained
<1>8. Path' /\ Justified'
  BY <1>5 DEF Restart, Path, Justified, Asking, NoSubject
<1> QED
  BY <1>1, <1>6, <1>7, <1>8 DEF Inv

LEMMA WorldInv == ASSUME Inv, World PROVE Inv'
<1>1. UNCHANGED <<settings, app, subject, stage, reasons, failed, left, tokens,
                  synced, good, limited>>
  BY DEF World, server, judged, calls
<1>2. /\ up' \in BOOLEAN /\ schema' \in BOOLEAN
      /\ incident' \in BOOLEAN /\ evidence' \in BOOLEAN
  BY DEF World, Inv, PreflightTypeOK
<1>3. /\ openAlong' \in BOOLEAN /\ (openAlong' => openAlong /\ incident')
      /\ calm' \in BOOLEAN /\ (calm' => calm)
      /\ calm' /\ stage \in {"incidents", "evidence"}
           => Clear(subject.mode, subject.used, subject.repo)'
  BY DEF World, Inv, PreflightTypeOK
<1>4. PreflightTypeOK'
  BY <1>1, <1>2, <1>3 DEF Inv, PreflightTypeOK
<1>5. Counted' /\ Explained' /\ Path'
  BY <1>1 DEF Inv, Counted, Due, Asks, Explained, Path, Asking, WantsEvidence
<1>6. FlagsKept'
  BY <1>1 DEF Inv, FlagsKept, FlagsDown, Flags
<1>7. IncidentSeen'
  BY <1>1, <1>3 DEF Inv, IncidentSeen
<1>8. StartsUp(settings)'
  BY <1>1 DEF Inv, StartsUp, LiveRequested, CanLiveTrade
<1>9. Justified'
  <2>1. Due' = Due /\ Asks' = Asks
    BY <1>1 DEF Due, Asks
  <2> QED
    BY <1>1, <1>3, <2>1, FlagsSame DEF Inv, Justified
<1> QED
  BY <1>4, <1>5, <1>6, <1>7, <1>8, <1>9 DEF Inv

LEMMA StutterInv == ASSUME Inv, UNCHANGED preflightVars PROVE Inv'
<1>1. UNCHANGED <<settings, app, up, schema, incident, evidence, subject, stage,
                  reasons, failed, left, tokens, synced, good, limited, openAlong,
                  calm>>
  BY DEF preflightVars, server, world, runVars, judged, calls, seen
<1>2. PreflightTypeOK' /\ Counted' /\ Explained' /\ IncidentSeen' /\ Path'
  BY <1>1 DEF Inv, PreflightTypeOK, Counted, Due, Asks, Explained,
              IncidentSeen, Path, Asking, WantsEvidence
<1>5. Justified'
  BY <1>1, FlagsSame, ClearSame DEF Inv, Justified, Due, Asks
<1>3. FlagsKept'
  BY <1>1 DEF Inv, FlagsKept, FlagsDown, Flags
<1>4. StartsUp(settings)'
  BY <1>1 DEF Inv, StartsUp, LiveRequested, CanLiveTrade
<1> QED
  BY <1>2, <1>3, <1>4, <1>5 DEF Inv

LEMMA StepInv == ASSUME Inv, [PreflightNext]_preflightVars PROVE Inv'
<1>1. CASE Gate
  BY <1>1, GateInv
<1>2. CASE Panel
  BY <1>2, PanelInv
<1>3. CASE Look
  BY <1>3, LookInv DEF Look
<1>4. ASSUME NEW mode \in {"live", "testnet"}, Script(mode) PROVE Inv'
  BY <1>4, ScriptInv
<1>5. CASE Proceed
  BY <1>5, IncidentsInv, EvidenceInv, TimeInv, SpecInv, KeyInv, WalletInv,
     PositionsInv DEF Proceed
<1>6. CASE Restart
  BY <1>6, RestartInv
<1>7. CASE World
  BY <1>7, WorldInv
<1>8. CASE UNCHANGED preflightVars
  BY <1>8, StutterInv
<1> QED
  BY <1>1, <1>2, <1>3, <1>4, <1>5, <1>6, <1>7, <1>8 DEF PreflightNext

LEMMA Invariance == PreflightSpec => []Inv
<1> QED
  BY InitInv, StepInv, PTL DEF PreflightSpec

-----------------------------------------------------------------------------
(* What follows                                                            *)

\* Every variable of the server and of its run keeps its type
\* (run_live_preflight, app.state).
THEOREM TypeCorrect == PreflightSpec => []PreflightTypeOK
<1>1. Inv => PreflightTypeOK
  BY DEF Inv
<1> QED
  BY <1>1, Invariance, PTL

\* A gate that opens has its switches on, and the exchange answered each of
\* its questions (run_live_preflight).
THEOREM OpenIsReady == PreflightSpec => []OpenMeansReady
<1>1. ASSUME Inv, Ok PROVE OpenMeansReady
  <2>1. stage = "done" /\ failed = {} /\ FlagsDown(subject.mode, subject.used, subject.db) = {}
    BY <1>1 DEF Ok, Inv, FlagsKept
  <2>2. ASSUME Asks PROVE good = Universe + 4
    BY <1>1, <2>1, <2>2 DEF Inv, Counted, Due
  <2>3. ASSUME subject.mode = "live" PROVE CanLiveTrade(subject.used)
    <3>1. Flags("live", subject.used, subject.db).enabled = subject.used.enable
      BY DEF Flags
    <3>2. Flags("live", subject.used, subject.db).confirmed
            = (subject.used.trading /\ subject.used.confirm /\ subject.used.keys)
      BY DEF Flags
    <3>3. \A c \in {"enabled", "confirmed"} : Flags("live", subject.used, subject.db)[c]
      BY <2>1, <2>3 DEF FlagsDown, Flags
    <3> QED
      BY <3>1, <3>2, <3>3 DEF CanLiveTrade
  <2> QED
    BY <2>2, <2>3 DEF OpenMeansReady
<1>2. Inv => OpenMeansReady
  BY <1>1 DEF OpenMeansReady
<1> QED
  BY <1>2, Invariance, PTL

\* An incident that was open all along blocks every run that can look for it
\* or has to (_check_unresolved_incidents).
THEOREM IncidentBlocks == PreflightSpec => []OldIncidentBlocks
<1>1. Inv => OldIncidentBlocks
  BY DEF Inv, IncidentSeen, Ok, OldIncidentBlocks
<1> QED
  BY <1>1, Invariance, PTL

\* A run that blocks gives a reason and has one: the database, the exchange
\* or a flag; behind the startup guard the flag of the database only
\* (run_live_preflight, validate_startup_security).
THEOREM BlockExplained == PreflightSpec => []BlockedIsExplained
<1>1. ASSUME Inv, Blocked, calm, ~(Asks /\ good < Universe + 4)
      PROVE  IF subject.caller # "script" /\ subject.used.trading
             THEN subject.used.requireDb /\ ~subject.db
             ELSE FlagsDown(subject.mode, subject.used, subject.db) # {}
  <2>1. stage = "done" /\ failed # {}
    BY <1>1 DEF Inv, Explained, Ok, Blocked
  <2>2. good = Due \/ ~Asks
    BY <1>1, <2>1, PreflightAssumption DEF Inv, PreflightTypeOK, Counted, Due
  <2>3. FlagsDown(subject.mode, subject.used, subject.db) # {}
    BY <1>1, <2>1, <2>2 DEF Inv, Justified
  <2>4. ASSUME subject.caller # "script", subject.used.trading
        PROVE  subject.used.requireDb /\ ~subject.db
    <3>1. /\ subject.mode = "live" /\ subject.used = settings
          /\ settings \in Settings /\ StartsUp(settings)
      BY <1>1, <2>4 DEF Inv, Path, PreflightTypeOK
    <3>2. "database" \in FlagsDown("live", subject.used, subject.db)
      BY <2>3, <2>4, <3>1, GuardCoversFlags
    <3>3. Flags("live", subject.used, subject.db).database
            = (subject.used.requireDb => subject.db)
      BY DEF Flags
    <3> QED
      BY <3>2, <3>3 DEF FlagsDown
  <2> QED
    BY <2>3, <2>4
<1>2. Inv /\ Blocked => reasons # {}
  BY DEF Inv, Explained, Ok, Blocked
<1>3. Inv => BlockedIsExplained
  BY <1>1, <1>2 DEF BlockedIsExplained
<1> QED
  BY <1>3, Invariance, PTL

-----------------------------------------------------------------------------
(* The limiter                                                             *)

\* Tokens a run must find at its stage, when a new adapter starts with
\* the burst and one call has been made for every question.
Enough ==
  /\ stage = "specs" => tokens >= Burst - 1 - (Universe - left)
  /\ stage = "key" => tokens >= Burst - 1 - Universe
  /\ stage = "wallet" => tokens >= Burst - 2 - Universe
  /\ stage = "contract" => tokens >= Burst - 3 - Universe
  /\ stage = "positions" => tokens >= Burst - 4 - Universe

Spared ==
  /\ stage \in {"incidents", "evidence", "time"} => tokens = Burst /\ ~limited
  /\ "time" \notin failed => ~limited
  /\ stage \in {"specs", "key", "wallet", "contract", "positions"}
       /\ "time" \notin failed => synced /\ Enough

LEMMA InitSpared == PreflightInit => Spared
BY DEF PreflightInit, Spared

LEMMA CallSpared ==
  ASSUME PreflightTypeOK, ~limited, tokens >= 1, NEW end, Call(end, 1)
  PROVE  ~limited' /\ tokens' = tokens - 1
BY DEF PreflightTypeOK, Call

LEMMA PrivateCallSpared ==
  ASSUME PreflightTypeOK, ~limited, tokens >= 1, synced, NEW end, PrivateCall(end)
  PROVE  ~limited' /\ tokens' = tokens - 1 /\ synced'
<1>1. Call(end, 1)
  BY DEF PrivateCall
<1>2. synced'
  BY DEF PrivateCall
<1> QED
  BY <1>1, <1>2, CallSpared

LEMMA StepSpared ==
  ASSUME Universe + 5 <= Burst, Inv, Spared, [PreflightNext]_preflightVars
  PROVE  Spared'
<1>1. ASSUME NEW caller, NEW mode, NEW s, NEW db, NEW repo,
             Begin(caller, mode, s, db, repo)
      PROVE  Spared'
  BY <1>1 DEF Begin, Spared
<1>2. ASSUME UNCHANGED runVars \/ World PROVE Spared'
  <2>1. UNCHANGED <<stage, failed, left, tokens, synced, limited>>
    BY <1>2 DEF runVars, World, judged, calls
  <2> QED
    BY <2>1 DEF Spared, Enough
<1>3. CASE Gate \/ Panel \/ Look \/ \E mode \in {"live", "testnet"} : Script(mode)
  BY <1>1, <1>2, <1>3 DEF Gate, Panel, Look, Script
<1>4. CASE Restart
  BY <1>4 DEF Restart, Spared
<1>5. CASE CheckIncidents \/ CheckEvidence
  <2>1. /\ stage \in {"incidents", "evidence"} /\ UNCHANGED <<tokens, limited>>
        /\ stage' \in {"evidence", "time", "done"}
    BY <1>5, StagesOfAfter DEF CheckIncidents, CheckEvidence, calls
  <2> QED
    BY <2>1 DEF Spared
<1>6. CASE AskTime
  <2>1. PICK end \in Ends \ {"unfit"} :
          /\ Call(end, 1)
          /\ synced' = (end = "good")
          /\ IF end = "good" THEN UNCHANGED judged ELSE Blocks("time")
    BY <1>6 DEF AskTime
  <2>2. stage = "time" /\ stage' = "specs" /\ left' = left
    BY <1>6 DEF AskTime
  <2>3. ~limited /\ tokens = Burst /\ left = Universe
    BY <2>2 DEF Spared, Inv, Counted
  <2>4. ~limited' /\ tokens' = tokens - 1
    BY <2>1, <2>3, CallSpared, PreflightAssumption DEF Inv
  <2>5. "time" \notin failed' => synced'
    BY <2>1 DEF Blocks
  <2>6. Enough'
    BY <2>2, <2>3, <2>4, PreflightAssumption DEF Enough
  <2> QED
    BY <2>2, <2>4, <2>5, <2>6 DEF Spared
<1>7. CASE AskSpec
  <2>1. PICK end \in Ends : Call(end, 1)
    BY <1>7 DEF AskSpec
  <2>2. /\ stage = "specs" /\ stage' = IF left = 1 THEN "key" ELSE "specs"
        /\ left' = left - 1 /\ synced' = synced
    BY <1>7 DEF AskSpec
  <2>3. "time" \notin failed' => "time" \notin failed
    BY <1>7 DEF AskSpec, Blocks, judged
  <2>4. left \in 1 .. Universe /\ Universe \in Nat /\ Burst \in Nat /\ tokens \in Nat
    BY <2>2, PreflightAssumption DEF Inv, PreflightTypeOK, Counted
  <2>5. ASSUME "time" \notin failed' PROVE ~limited' /\ synced' /\ Enough'
    <3>1. ~limited /\ synced /\ tokens >= Burst - 1 - (Universe - left)
      BY <2>2, <2>3, <2>5 DEF Spared, Enough
    <3>2. ~limited' /\ tokens' = tokens - 1
      BY <2>1, <2>4, <3>1, CallSpared DEF Inv
    <3>3. CASE left = 1
      BY <2>2, <2>4, <3>1, <3>2, <3>3 DEF Enough
    <3>4. CASE left # 1
      BY <2>2, <2>4, <3>1, <3>2, <3>4 DEF Enough
    <3> QED
      BY <2>2, <3>1, <3>2, <3>3, <3>4
  <2> QED
    BY <2>2, <2>5 DEF Spared
<1>8. CASE AskKey \/ AskWallet \/ AskPositions
  <2>1. PICK end \in Ends : PrivateCall(end)
    BY <1>8 DEF AskKey, AskWallet, AskPositions
  <2>2. \/ stage = "key" /\ stage' = "wallet"
        \/ stage = "wallet" /\ stage' \in {"contract", "positions"}
        \/ stage = "contract" /\ stage' = "positions"
        \/ stage = "positions" /\ stage' = "done"
    BY <1>8 DEF AskKey, AskWallet, AskPositions
  <2>3. "time" \notin failed' => "time" \notin failed
    BY <1>8 DEF AskKey, AskWallet, AskPositions, Blocks, judged
  <2>4. Universe \in Nat /\ Burst \in Nat /\ tokens \in Nat
    BY PreflightAssumption DEF Inv, PreflightTypeOK
  <2>5. ASSUME "time" \notin failed' PROVE ~limited' /\ synced' /\ Enough'
    <3>1. ~limited /\ synced /\ Enough
      BY <2>2, <2>3, <2>5 DEF Spared
    <3>2. tokens >= 1
      BY <2>2, <2>4, <3>1 DEF Enough
    <3>3. ~limited' /\ tokens' = tokens - 1 /\ synced'
      BY <2>1, <3>1, <3>2, PrivateCallSpared DEF Inv
    <3> QED
      BY <2>2, <2>4, <3>1, <3>3 DEF Enough
  <2> QED
    BY <2>2, <2>5 DEF Spared
<1>9. CASE UNCHANGED preflightVars
  BY <1>2, <1>9 DEF preflightVars
<1>10. CASE World
  BY <1>2, <1>10
<1> QED
  BY <1>3, <1>4, <1>5, <1>6, <1>7, <1>8, <1>9, <1>10 DEF PreflightNext, Proceed

\* Where the burst covers a call for every symbol and five more, the limiter
\* refuses nothing to a run that learned the time
\* (_run_bybit_runtime_checks, TokenBucketRateLimiter).
THEOREM LimiterSpares ==
  ASSUME Universe + 5 <= Burst PROVE PreflightSpec => []LimiterSparesTheGate
<1>1. Inv /\ Spared /\ [PreflightNext]_preflightVars => Spared'
  BY StepSpared
<1>2. Spared => LimiterSparesTheGate
  BY DEF Spared, LimiterSparesTheGate
<1> QED
  BY <1>1, <1>2, InitSpared, Invariance, PTL DEF PreflightSpec
=============================================================================
