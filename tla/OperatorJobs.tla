---------------------------- MODULE OperatorJobs ----------------------------
(***************************************************************************)
(* The jobs of the operator panel: app/services/operator_jobs.py, the      *)
(* route operator_jobs.py, the child process scripts/bootstrap_db.py and   *)
(* the database it changes, and the readiness the panel derives from it    *)
(* (app/db/availability.py).                                               *)
(*                                                                         *)
(* One backend process serves the panel.  Its handlers contain no await,   *)
(* so a request is one step; the thread of a job and the child process it  *)
(* waits for take their steps in between.  A restart forgets the jobs and  *)
(* the cached answers; a child process may survive it.                     *)
(***************************************************************************)
EXTENDS Naturals, Sequences

CONSTANTS
  Keys,       \* values of the X-Idempotency-Key header
  Commands,   \* the commands of the allowlist the panel uses
  MaxJobs     \* bound: jobs started over all restarts

Allowlist == {"validate", "preflight_testnet", "bootstrap_db", "preflight_live"}

ASSUME CommandsAssumption == Commands \subseteq Allowlist
ASSUME MaxJobsAssumption == MaxJobs \in Nat

VARIABLES
  jobs,      \* every job ever started, oldest first
  known,     \* OperatorJobRunner._jobs: the jobs this process remembers
  answers,   \* InMemoryIdempotencyStore._responses: the answered requests
  schema,    \* what the migrations have left in the database
  dbUp,      \* PostgreSQL accepts connections
  repo       \* app.state.repository is not None

jobVars == <<jobs, known, answers, schema, dbUp, repo>>

Pending == {"queued", "running"}
Ended == {"ok", "blocked", "error", "timeout"}

\* A request is remembered under its namespace: the command route has one,
\* the workflow route one for each action.
Namespaces == {"operator-command",
               "run_bootstrap_db", "run_validate",
               "run_testnet_preflight", "run_live_preflight",
               "record_ci_pass", "start_phase0_paper",
               "record_phase0_paper_pass", "record_security_pass",
               "record_reconciliation_pass", "record_go_no_go_pass"}

\* child: the subprocess lives.  next: the migration it applies next.
Job == [command: Commands, ask: Namespaces \X Keys,
        status: Pending \union Ended, audited: BOOLEAN,
        child: BOOLEAN, next: 1 .. 5]

(***************************************************************************)
(* The migrations, each one transaction, all of them safe to repeat.       *)
(* 0001 creates the tables if they are missing and replaces the function   *)
(* and the trigger on orders every time; 0003 replaces both by the strict  *)
(* ones.  0002 is demo data and is left out unless asked for.              *)
(***************************************************************************)
Schema == [tables: BOOLEAN, trigger: {"none", "0001", "0003"},
           commandAudit: BOOLEAN, positiveSpecs: BOOLEAN]
Empty == [tables |-> FALSE, trigger |-> "none",
          commandAudit |-> FALSE, positiveSpecs |-> FALSE]
Complete == [tables |-> TRUE, trigger |-> "0003",
             commandAudit |-> TRUE, positiveSpecs |-> TRUE]

Migrations == <<"0001", "0003", "0004", "0005">>

Migrated(s, m) ==
  [tables        |-> s.tables \/ m = "0001",
   trigger       |-> IF m \in {"0001", "0003"} THEN m ELSE s.trigger,
   commandAudit  |-> s.commandAudit \/ m = "0004",
   positiveSpecs |-> s.positiveSpecs \/ m = "0005"]

\* _tables_ready: the tables the panel asks for are all made by 0001.
SchemaReady == schema.tables

\* The repository after ensure_database_ready: dropped when the database is
\* away, made when the tables are there, otherwise what startup left.
Ensured == dbUp /\ (SchemaReady \/ repo)

\* log_manual_action reaches a table whose CHECK knows RUN_OPERATOR_COMMAND.
AuditAccepted == repo /\ dbUp /\ schema.commandAudit

Init ==
  /\ jobs = <<>>
  /\ known = {}
  /\ answers = {}
  /\ schema \in {Empty, Complete}
  /\ dbUp \in BOOLEAN
  /\ repo \in {FALSE, dbUp}

NewJob(c, ask, audited) ==
  [command |-> c, ask |-> ask, status |-> "queued", audited |-> audited,
   child |-> FALSE, next |-> 1]

\* Faulty: start forgets to remember the answer.
StartUnremembered(c, ask, audited) ==
  /\ Len(jobs) < MaxJobs
  /\ jobs' = Append(jobs, NewJob(c, ask, audited))
  /\ known' = known \union {Len(jobs) + 1}
  /\ answers' = answers

\* OperatorJobRunner.start and the answer the route remembers.
Start(c, ask, audited) ==
  /\ Len(jobs) < MaxJobs
  /\ jobs' = Append(jobs, NewJob(c, ask, audited))
  /\ known' = known \union {Len(jobs) + 1}
  /\ answers' = answers \union {ask}

\* POST /commands/{c}/run.  A key that was answered starts nothing, so the
\* request that does has a new key.  The audit row is written if it can be;
\* the job is started all the same.
RunCommand(c, k) ==
  LET ask == <<"operator-command", k>>
  IN  /\ ask \notin answers
      /\ Start(c, ask, AuditAccepted)
      /\ UNCHANGED <<schema, dbUp, repo>>

\* The thread of job j begins and spawns the child process.
RunJob(j) ==
  /\ j \in known
  /\ jobs[j].status = "queued"
  /\ jobs' = [jobs EXCEPT ![j].status = "running", ![j].child = TRUE]
  /\ UNCHANGED <<known, answers, schema, dbUp, repo>>

\* Faulty: bootstrap_db goes on after a migration that failed.
MigrateSkipping(j) ==
  /\ jobs[j].child
  /\ jobs[j].command = "bootstrap_db"
  /\ jobs[j].next <= Len(Migrations)
  /\ schema' = IF dbUp THEN Migrated(schema, Migrations[jobs[j].next])
                       ELSE schema
  /\ jobs' = [jobs EXCEPT ![j].next = @ + 1]
  /\ UNCHANGED <<known, answers, dbUp, repo>>

\* The child process of a bootstrap job commits its next migration.
Migrate(j) ==
  /\ jobs[j].child
  /\ jobs[j].command = "bootstrap_db"
  /\ jobs[j].next <= Len(Migrations)
  /\ dbUp
  /\ schema' = Migrated(schema, Migrations[jobs[j].next])
  /\ jobs' = [jobs EXCEPT ![j].next = @ + 1]
  /\ UNCHANGED <<known, answers, dbUp, repo>>

\* What _derive_status can make of the end of the child.  bootstrap_db
\* prints ok after the last migration, and blocked as soon as one fails.
Outcomes(j) ==
  IF jobs[j].command # "bootstrap_db" THEN {"ok", "blocked", "error"}
  ELSE IF jobs[j].next > Len(Migrations) THEN {"ok"}
  ELSE {"blocked"}

\* What the thread writes, if this process still knows the job.
Told(j, outcome) == IF j \in known THEN outcome ELSE jobs[j].status

Exit(j, outcome) ==
  /\ jobs[j].child
  /\ outcome \in Outcomes(j)
  /\ jobs' = [jobs EXCEPT ![j].child = FALSE, ![j].status = Told(j, outcome)]
  /\ UNCHANGED <<known, answers, schema, dbUp, repo>>

\* Faulty: the handler of TimeoutExpired writes the error text but not the status.
RaiseWithoutStatus(j, status) ==
  /\ j \in known
  /\ jobs[j].status = "running"
  /\ jobs' = [jobs EXCEPT ![j].child = FALSE]
  /\ UNCHANGED <<known, answers, schema, dbUp, repo>>

\* Faulty: the thread gives the child up and does not kill it.
RaiseLeavingChild(j, status) ==
  /\ j \in known
  /\ jobs[j].status = "running"
  /\ jobs' = [jobs EXCEPT ![j].status = status]
  /\ UNCHANGED <<known, answers, schema, dbUp, repo>>

\* subprocess.run raises: after timeout_sec it has killed the child, or it
\* could not run it at all.  A migration that is half done is rolled back.
Raise(j, status) ==
  /\ j \in known
  /\ jobs[j].status = "running"
  /\ jobs' = [jobs EXCEPT ![j].child = FALSE, ![j].status = status]
  /\ UNCHANGED <<known, answers, schema, dbUp, repo>>
TimeOut(j) == Raise(j, "timeout")
Fail(j) == jobs[j].next = 1 /\ Raise(j, "error")

\* The process ends, its daemon threads with it, and starts again.  The
\* children in survivors go on without anybody waiting for them.
Restart(survivors) ==
  /\ known' = {}
  /\ answers' = {}
  /\ jobs' = [j \in DOMAIN jobs |->
                [jobs[j] EXCEPT !.child = @ /\ j \in survivors]]
  /\ repo' \in {FALSE, dbUp}
  /\ UNCHANGED <<schema, dbUp>>

\* Any request that asks ensure_database_ready and changes nothing else.
ReadPanel ==
  /\ repo' = Ensured
  /\ UNCHANGED <<jobs, known, answers, schema, dbUp>>

Database ==
  /\ dbUp' = ~dbUp
  /\ UNCHANGED <<jobs, known, answers, schema, repo>>

Threads ==
  \E j \in DOMAIN jobs :
    \/ RunJob(j)
    \/ Migrate(j)
    \/ TimeOut(j)
    \/ Fail(j)

Next ==
  \/ \E c \in Commands, k \in Keys : RunCommand(c, k)
  \/ \E j \in DOMAIN jobs, o \in Ended : Exit(j, o)
  \/ Threads
  \/ \E survivors \in SUBSET DOMAIN jobs : Restart(survivors)
  \/ ReadPanel
  \/ Database

Spec == Init /\ [][Next]_jobVars

\* A thread that was started runs, and subprocess.run's timeout elapses.
ThreadFairness ==
  \A j \in 1 .. MaxJobs :
    /\ WF_jobVars(j \in DOMAIN jobs /\ RunJob(j))
    /\ WF_jobVars(j \in DOMAIN jobs /\ TimeOut(j))

FairSpec == Spec /\ ThreadFairness

-----------------------------------------------------------------------------
(***************************************************************************)
(* Properties.                                                             *)
(***************************************************************************)
TypeOK ==
  /\ jobs \in Seq(Job)
  /\ Len(jobs) <= MaxJobs
  /\ known \subseteq DOMAIN jobs
  /\ answers \subseteq Namespaces \X Keys
  /\ schema \in Schema
  /\ dbUp \in BOOLEAN
  /\ repo \in BOOLEAN

\* A request that is repeated with its key starts no second job while the
\* process lives (run_operator_command, the cached answer).
OneJobPerRequest ==
  \A i, j \in known : jobs[i].ask = jobs[j].ask => i = j

\* A job that repeats migration 0001 weakens the trigger of a complete
\* schema until it repeats 0003.  Whenever the weak trigger is in the
\* database, some bootstrap job is between the two: it is still running, or
\* it was stopped there and the panel does not show it as ok.  Two
\* bootstrap jobs at once do not change that (apply_migrations).
WeakTriggerHasCulprit ==
  schema.trigger = "0001" =>
    \E j \in DOMAIN jobs :
      /\ jobs[j].command = "bootstrap_db"
      /\ jobs[j].next = 2
      /\ jobs[j].status # "ok"

\* A job that has ended stays as it ended: no child of it works on in the
\* database, no late end of one changes what the panel shows, not even after
\* a restart that the child survives (OperatorJobRunner._run_job).
EndedStaysEnded ==
  [][\A j \in DOMAIN jobs :
       jobs[j].status \in Ended => j \in DOMAIN jobs' /\ jobs'[j] = jobs[j]]_jobVars

\* Every job the panel shows as queued or running ends, unless the process
\* forgets it (OperatorJobRunner._run_job, its timeouts).
EveryJobEnds ==
  \A j \in 1 .. MaxJobs :
    (j \in known /\ jobs[j].status \in Pending)
      ~> (j \notin known \/ jobs[j].status \in Ended)
=============================================================================
