---------------------------- MODULE LivePreflight ----------------------------
(***************************************************************************)
(* The live preflight: the run of checks that opens or shuts the gate of   *)
(* the live submit (gate.py), fills the operator's panel (runtime.py,      *)
(* operator.py) and is started by hand or as a job (live_preflight.py).    *)
(* A run reads the settings, the database and the exchange one after the   *)
(* other, while all of them may change; it writes nothing.  Handlers are   *)
(* async functions that block, so the server works on one run at a time;   *)
(* runs of other processes only read, so that one run at a time shows all  *)
(* that any of them can do.                                                *)
(*                                                                         *)
(* Abstracted: answers of the exchange are good, unfit or an exception;    *)
(* the evidence is there or not (OperatorWorkflow has its rows); names of  *)
(* reasons that come with the text of an error are one name.  Checks that  *)
(* repeat the conjunction of others are left out.                          *)
(***************************************************************************)
EXTENDS Integers

CONSTANTS
  Universe,      \* number of symbols of live_universe
  Burst,         \* calls the limiter of a new adapter lets through at once
  Chosen         \* bound: the settings the environment may hold

\* What an environment can hold; local: APP_ENV is local, goEnv: Go/No-Go
\* passed and approver named, keys: key and secret of the exchange.
Settings ==
  [trading : BOOLEAN, enable : BOOLEAN, confirm : BOOLEAN, keys : BOOLEAN,
   testnet : BOOLEAN, demo : BOOLEAN, demoMl : BOOLEAN, requireDb : BOOLEAN,
   requirePreflight : BOOLEAN, requireGo : BOOLEAN, goEnv : BOOLEAN,
   local : BOOLEAN]

ASSUME PreflightAssumption ==
  Universe \in Nat \ {0} /\ Burst \in Nat /\ Chosen \subseteq Settings

VARIABLES
  settings,      \* app.state.settings, read once at the start
  app,           \* app.state: db, repository, db_available, db_schema_ready
  up, schema,    \* PostgreSQL answers, and has its tables
  incident,      \* a CRITICAL or HIGH incident is open
  evidence,      \* all rows the live gate asks for exist
  subject,       \* what the run was called with
  stage,         \* what the run does next
  reasons,       \* the list of reasons
  failed,        \* checks that are false
  left,          \* symbols whose specification is still to be read
  tokens,        \* a lower bound of what the limiter holds
  synced,        \* the adapter knows the offset of its clock
  good,          \* history: questions the exchange answered as it should
  limited,       \* history: the limiter refused a call
  openAlong,     \* history: an incident has been open since the run began
  calm           \* history: until the run had looked at the database, that
                 \* held nothing against it

server == <<settings, app>>
world  == <<up, schema, incident, evidence>>
judged == <<reasons, failed>>
calls  == <<left, tokens, synced, good, limited>>
seen   == <<openAlong, calm>>
runVars == <<subject, stage, judged, calls, seen>>
preflightVars == <<server, world, runVars>>

-----------------------------------------------------------------------------
(* Settings and the startup guard                                          *)

LiveRequested(s) == s.trading \/ s.enable \/ s.confirm \/ ~s.testnet

CanLiveTrade(s) == s.trading /\ s.confirm /\ s.keys /\ s.enable

\* validate_startup_security finds nothing against s.
StartsUp(s) ==
  /\ LiveRequested(s) =>
       /\ s.keys /\ s.confirm /\ ~s.demo /\ ~s.demoMl
       /\ s.trading => s.enable
       /\ s.enable /\ s.requireGo => s.goEnv
       /\ ~s.testnet => s.trading
  /\ s.trading => CanLiveTrade(s)

-----------------------------------------------------------------------------
(* The database as the server knows it                                     *)

App == [db : BOOLEAN, repo : BOOLEAN, available : BOOLEAN, ready : BOOLEAN]

NoDatabase == [db |-> FALSE, repo |-> FALSE, available |-> FALSE, ready |-> FALSE]

\* ensure_database_ready.  A pool that still works keeps its repository, even
\* without tables; one that is opened anew gets a repository with the tables.
Ensured(a, kept) ==
  IF up THEN [db |-> TRUE, repo |-> schema \/ (kept /\ a.db /\ a.repo),
              available |-> TRUE, ready |-> schema]
  ELSE NoDatabase

MustOpen(s) == s.requireDb /\ LiveRequested(s)

\* _install_database: a server that must have the database does not start
\* without it, and a local one does not even try.
Installs(s) == MustOpen(s) => up
Installed(s) ==
  IF up /\ (MustOpen(s) \/ ~s.local)
  THEN [db |-> TRUE, repo |-> TRUE, available |-> TRUE, ready |-> schema]
  ELSE NoDatabase

-----------------------------------------------------------------------------
(* A run                                                                   *)

Stages ==
  {"idle", "incidents", "evidence", "time", "specs", "key", "wallet",
   "contract", "positions", "done"}
\* The names of the checks; reasons go by the same names.
Checks ==
  {"testnet_endpoint", "demo", "demo_ml", "database", "credentials", "enabled",
   "confirmed", "go_env", "incidents", "evidence", "time", "specs",
   "private_api", "permission", "wallet", "positions"}
Subject ==
  [caller : {"gate", "panel", "script"}, mode : {"live", "testnet"},
   used : Settings, db : BOOLEAN, repo : BOOLEAN]

Idle == stage \in {"idle", "done"}

\* The checks of the settings alone.
Flags(mode, s, db) ==
  IF mode = "testnet"
  THEN [testnet_endpoint |-> s.testnet, demo |-> ~s.demo,
        demo_ml |-> ~s.demoMl, database |-> s.requireDb => db,
        credentials |-> s.keys]
  ELSE [enabled |-> s.enable, confirmed |-> s.trading /\ s.confirm /\ s.keys,
        demo |-> ~s.demo, demo_ml |-> ~s.demoMl,
        database |-> s.requireDb => db, go_env |-> s.requireGo => s.goEnv]
FlagsDown(mode, s, db) ==
  {c \in DOMAIN Flags(mode, s, db) : ~Flags(mode, s, db)[c]}

WantsEvidence(mode, s) == mode = "live" /\ s.requireGo

\* The database holds nothing against a run.
Clear(mode, s, repo) ==
  IF repo THEN up /\ schema /\ ~incident /\ (WantsEvidence(mode, s) => evidence)
  ELSE ~s.requireDb /\ ~WantsEvidence(mode, s)

\* run_live_preflight is called.
Begin(caller, mode, s, db, repo) ==
  /\ subject' = [caller |-> caller, mode |-> mode, used |-> s, db |-> db,
                 repo |-> repo]
  /\ failed' = FlagsDown(mode, s, db)
  /\ reasons' = FlagsDown(mode, s, db)
  /\ stage' = "incidents"
  /\ left' = Universe
  /\ tokens' = Burst
  /\ synced' = FALSE
  /\ good' = 0
  /\ limited' = FALSE
  /\ openAlong' = incident
  /\ calm' = Clear(mode, s, repo)

\* Whether this run asks the exchange: _run_bybit_runtime_checks is called.
Asks ==
  LET s == subject.used
  IN  IF subject.mode = "testnet" THEN s.keys
      ELSE s.requirePreflight /\ s.trading /\ s.confirm /\ s.keys
AfterDatabase == IF Asks THEN "time" ELSE "done"

\* A check that is false, with its reason.
Blocks(check) ==
  /\ failed' = failed \union {check}
  /\ reasons' = reasons \union {check}

\* Faulty check: what cannot be read counts as no incident.
CheckIncidentsOpen ==
  /\ stage = "incidents"
  /\ \/ subject.repo /\ up /\ schema /\ incident /\ Blocks("incidents")
     \/ subject.repo /\ (up /\ schema => ~incident) /\ UNCHANGED judged
     \/ ~subject.repo /\ subject.used.requireDb /\ Blocks("incidents")
     \/ ~subject.repo /\ ~subject.used.requireDb /\ UNCHANGED judged
  /\ stage' = IF WantsEvidence(subject.mode, subject.used)
              THEN "evidence" ELSE AfterDatabase
  /\ UNCHANGED <<server, world, subject, calls, seen>>

\* _check_unresolved_incidents: without a repository the check holds if none
\* is required, with one it fails when the table cannot be read.
CheckIncidents ==
  /\ stage = "incidents"
  /\ \/ /\ IF subject.repo THEN up /\ schema => incident
           ELSE subject.used.requireDb
        /\ Blocks("incidents")
     \/ /\ IF subject.repo THEN up /\ schema /\ ~incident
           ELSE ~subject.used.requireDb
        /\ UNCHANGED judged
  /\ stage' = IF WantsEvidence(subject.mode, subject.used)
              THEN "evidence" ELSE AfterDatabase
  /\ UNCHANGED <<server, world, subject, calls, seen>>

\* live_evidence_status, which needs a repository and its tables.
CheckEvidence ==
  /\ stage = "evidence"
  /\ IF subject.repo /\ up /\ schema /\ evidence THEN UNCHANGED judged
     ELSE Blocks("evidence")
  /\ stage' = AfterDatabase
  /\ UNCHANGED <<server, world, subject, calls, seen>>

-----------------------------------------------------------------------------
(* Calls of the adapter.  How a call ends: good, unfit (answered, but not  *)
(* what is needed), an exception, or refused by the limiter, which cannot  *)
(* happen while the tokens of the burst suffice.                           *)

Ends == {"good", "unfit", "raises", "limited"}

Call(end, cost) ==
  /\ end = "limited" => tokens < cost
  /\ tokens' = IF tokens > cost THEN tokens - cost ELSE 0
  /\ limited' = (limited \/ end = "limited")
  /\ good' = IF end = "good" THEN good + 1 ELSE good

\* Faulty call: the offset that was learned is not used.
PrivateCallUnsynced(end) ==
  /\ Call(end, 2)
  /\ synced' \in BOOLEAN

\* A private call of an adapter without an offset synchronises first, which
\* takes a token of its own.
PrivateCall(end) ==
  /\ Call(end, IF synced THEN 1 ELSE 2)
  /\ \/ synced' = synced /\ (end \in {"good", "unfit"} => synced)
     \/ synced' = TRUE /\ end # "limited"

\* sync_time; what it answers is not looked at.
AskTime ==
  /\ stage = "time"
  /\ \E end \in Ends \ {"unfit"} :
       /\ Call(end, 1)
       /\ synced' = (end = "good")
       /\ IF end = "good" THEN UNCHANGED judged ELSE Blocks("time")
  /\ stage' = "specs"
  /\ UNCHANGED <<server, world, subject, left, seen>>

\* runtime_instruments_info of one symbol.
AskSpec ==
  /\ stage = "specs"
  /\ \E end \in Ends :
       /\ Call(end, 1)
       /\ IF end = "good" THEN UNCHANGED judged ELSE Blocks("specs")
  /\ left' = left - 1
  /\ stage' = IF left = 1 THEN "key" ELSE "specs"
  /\ UNCHANGED <<server, world, subject, synced, seen>>

\* get_api_key_info; a key that could not be read has no permission either,
\* for which no second reason is given.
AskKey ==
  /\ stage = "key"
  /\ \E end \in Ends :
       /\ PrivateCall(end)
       /\ CASE end = "good"  -> UNCHANGED judged
            [] end = "unfit" -> Blocks("permission")
            [] OTHER         -> /\ failed' = failed \union {"private_api", "permission"}
                                /\ reasons' = reasons \union {"private_api"}
  /\ stage' = "wallet"
  /\ UNCHANGED <<server, world, subject, left, seen>>

\* Faulty fallback: the first exception counts although CONTRACT answers.
AskWalletTwice ==
  /\ stage \in {"wallet", "contract"}
  /\ \E end \in Ends :
       /\ PrivateCall(end)
       /\ stage' = IF stage = "wallet" /\ end \in {"raises", "limited"}
                   THEN "contract" ELSE "positions"
       /\ IF end = "good" THEN UNCHANGED judged ELSE Blocks("wallet")
  /\ UNCHANGED <<server, world, subject, left, seen>>

\* _try_wallet_balance: UNIFIED first, and CONTRACT when that raises.
AskWallet ==
  /\ stage \in {"wallet", "contract"}
  /\ \E end \in Ends :
       /\ PrivateCall(end)
       /\ IF stage = "wallet" /\ end \in {"raises", "limited"}
          THEN stage' = "contract" /\ UNCHANGED judged
          ELSE /\ stage' = "positions"
               /\ IF end = "good" THEN UNCHANGED judged ELSE Blocks("wallet")
  /\ UNCHANGED <<server, world, subject, left, seen>>

\* Faulty check: an answer is taken for a good one.
AskPositionsLeniently ==
  /\ stage = "positions"
  /\ \E end \in Ends :
       /\ PrivateCall(end)
       /\ IF end \in {"good", "unfit"} THEN UNCHANGED judged
          ELSE Blocks("positions")
  /\ stage' = "done"
  /\ UNCHANGED <<server, world, subject, left, seen>>

AskPositions ==
  /\ stage = "positions"
  /\ \E end \in Ends :
       /\ PrivateCall(end)
       /\ IF end = "good" THEN UNCHANGED judged ELSE Blocks("positions")
  /\ stage' = "done"
  /\ UNCHANGED <<server, world, subject, left, seen>>

Proceed ==
  \/ CheckIncidents \/ CheckEvidence \/ AskTime \/ AskSpec \/ AskKey
  \/ AskWallet \/ AskPositions

\* The result of a run that is over.
Ok == stage = "done" /\ reasons = {} /\ failed = {}
Blocked == stage = "done" /\ ~Ok

-----------------------------------------------------------------------------
(* Callers                                                                 *)

\* assert_live_submit_allowed takes app.state as it is.
Gate ==
  /\ Idle
  /\ Begin("gate", "live", settings, app.available, app.repo)
  /\ UNCHANGED <<server, world>>

\* The routes of the panel look at the database first; without live settings
\* they read demo data only.
Panel ==
  /\ Idle
  /\ \E kept \in BOOLEAN : app' = Ensured(app, kept)
  /\ IF LiveRequested(settings)
     THEN Begin("panel", "live", settings, app'.available /\ app'.ready, app'.repo)
     ELSE UNCHANGED runVars
  /\ UNCHANGED <<settings, world>>

\* The workflow page looks at the database and runs nothing.
Look ==
  /\ Idle
  /\ \E kept \in BOOLEAN : app' = Ensured(app, kept)
  /\ UNCHANGED <<settings, world, runVars>>

\* The command line, in its environment the switches of its mode.  It opens
\* the database itself and does not look for tables.
Script(mode) ==
  LET s == IF mode = "testnet" THEN [settings EXCEPT !.testnet = TRUE]
           ELSE [settings EXCEPT !.testnet = FALSE, !.local = FALSE]
      opened == up /\ (s.requireDb \/ LiveRequested(s))
  IN  /\ Idle
      /\ Begin("script", mode, s, opened, opened)
      /\ UNCHANGED <<server, world>>

NoSubject(s) ==
  [caller |-> "panel", mode |-> "live", used |-> s, db |-> FALSE, repo |-> FALSE]

\* The process ends and starts again, perhaps with other settings.
Restart ==
  /\ settings' \in {s \in Chosen : StartsUp(s) /\ Installs(s)}
  /\ app' = Installed(settings')
  /\ subject' = NoSubject(settings')
  /\ stage' = "idle"
  /\ reasons' = {} /\ failed' = {}
  /\ left' = 0 /\ tokens' = 0 /\ good' = 0
  /\ synced' = FALSE /\ limited' = FALSE
  /\ openAlong' = FALSE /\ calm' = FALSE
  /\ UNCHANGED world

\* The database goes and comes back; migrations are applied; incidents and
\* evidence are recorded, and incidents resolved, by others.
World ==
  /\ \/ up' = ~up /\ UNCHANGED <<schema, incident, evidence>>
     \/ schema' = TRUE /\ UNCHANGED <<up, incident, evidence>>
     \/ incident' = ~incident /\ UNCHANGED <<up, schema, evidence>>
     \/ evidence' = TRUE /\ UNCHANGED <<up, schema, incident>>
  /\ UNCHANGED <<server, subject, stage, judged, calls>>
  /\ openAlong' = (openAlong /\ incident')
  /\ calm' = (calm /\ (stage \in {"incidents", "evidence"} =>
                         Clear(subject.mode, subject.used, subject.repo)'))

PreflightInit ==
  /\ up \in BOOLEAN /\ schema \in BOOLEAN
  /\ incident \in BOOLEAN /\ evidence \in BOOLEAN
  /\ settings \in {s \in Chosen : StartsUp(s) /\ Installs(s)}
  /\ app = Installed(settings)
  /\ subject = NoSubject(settings)
  /\ stage = "idle"
  /\ reasons = {} /\ failed = {}
  /\ left = 0 /\ tokens = 0 /\ good = 0
  /\ synced = FALSE /\ limited = FALSE
  /\ openAlong = FALSE /\ calm = FALSE

PreflightNext ==
  \/ Gate \/ Panel \/ Look \/ (\E mode \in {"live", "testnet"} : Script(mode))
  \/ Proceed \/ Restart \/ World

PreflightSpec == PreflightInit /\ [][PreflightNext]_preflightVars

-----------------------------------------------------------------------------
(* Properties                                                              *)

PreflightTypeOK ==
  /\ settings \in Settings /\ app \in App
  /\ up \in BOOLEAN /\ schema \in BOOLEAN
  /\ incident \in BOOLEAN /\ evidence \in BOOLEAN
  /\ subject \in Subject /\ stage \in Stages
  /\ reasons \subseteq Checks /\ failed \subseteq Checks
  /\ left \in 0 .. Universe /\ tokens \in 0 .. Burst
  /\ good \in 0 .. Universe + 4
  /\ synced \in BOOLEAN /\ limited \in BOOLEAN
  /\ openAlong \in BOOLEAN /\ calm \in BOOLEAN

\* An open gate means that everything it stands for was there: the adapter's
\* own switches are on, and every question to the exchange was answered well
\* in this very run.
OpenMeansReady ==
  Ok =>
    /\ subject.mode = "live" => CanLiveTrade(subject.used)
    /\ Asks => good = Universe + 4

\* An incident that was open all along blocks the run, whatever becomes of
\* the database meanwhile, unless the settings do without one.
OldIncidentBlocks ==
  Ok /\ openAlong => ~subject.repo /\ ~subject.used.requireDb

\* A run that blocks names a reason, and has one: the database held something
\* against it, or the exchange left a question without a good answer, or a
\* flag is down.  For a server with trading on, which its startup guard let
\* through, that flag can only be the database.
BlockedIsExplained ==
  Blocked =>
    /\ reasons # {}
    /\ \/ ~calm
       \/ Asks /\ good < Universe + 4
       \/ IF subject.caller # "script" /\ subject.used.trading
          THEN subject.used.requireDb /\ ~subject.db
          ELSE FlagsDown(subject.mode, subject.used, subject.db) # {}

\* The limiter does not shut the gate of an exchange that answers: once the
\* time is known, the burst of a new adapter suffices for a whole run.
LimiterSparesTheGate == limited => "time" \in failed
=============================================================================
