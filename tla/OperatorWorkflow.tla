-------------------------- MODULE OperatorWorkflow --------------------------
(***************************************************************************)
(* The operator workflow: app/api/routes/operator_workflow.py derives the  *)
(* eight steps of the panel from the jobs of this process (OperatorJobs)   *)
(* and from the rows of go_no_go_evidence, offers the action of the step   *)
(* that is next, and records evidence.  Beside it the command line records *)
(* evidence (scripts/record_go_no_go_evidence.py), files are edited, and   *)
(* days pass.  The live gate reads the rows its own way                    *)
(* (Repository.live_evidence_status).                                      *)
(***************************************************************************)
EXTENDS OperatorJobs, FiniteSets

CONSTANTS
  Configs,       \* configuration hashes
  CliRows,       \* what the command line records: type, status and dates
  DaysRequired,  \* 14: the paper period the panel asks for
  MinPaperDays,  \* CAS_MIN_PAPER_DAYS, 14: the one the live gate asks for
  JobWindow,     \* 50: the jobs _job_status looks at
  MaxDay,        \* bound: days that pass
  MaxRows,       \* bound: rows of evidence
  MaxCliRows     \* bound: rows the command line records

EvidenceTypes == {"PHASE0_PAPER", "RECONCILIATION", "SECURITY", "CI", "GO_NO_GO"}
Statuses == {"PASS", "FAIL", "PENDING"}
Null == 0    \* no date

ASSUME CliRowsAssumption ==
  CliRows \subseteq [type: EvidenceTypes, status: Statuses, started: Nat, ended: Nat]
ASSUME DaysAssumption ==
  DaysRequired \in Nat \ {0} /\ MinPaperDays \in Nat /\ MaxDay \in Nat \ {0}
ASSUME WindowAssumption == JobWindow \in Nat \ {0} /\ MaxRows \in Nat /\ MaxCliRows \in Nat

VARIABLES
  evidence,   \* rows of go_no_go_evidence in the order of created_at
  today,      \* the day, from 1
  config,     \* runtime_config.config_hash, computed when the process starts
  files       \* the hash of the configuration files as they are now

vars == <<jobVars, evidence, today, config, files>>
workflowVars == <<evidence, today, config, files>>

\* at: the day the row was created.  by: who recorded it.
Row == [type: EvidenceTypes, status: Statuses,
        config: Configs, started: Nat, ended: Nat,
        at: Nat, by: {"panel", "cli"}]

-----------------------------------------------------------------------------
(***************************************************************************)
(* What the panel derives.                                                 *)
(***************************************************************************)
DbOk == dbUp /\ SchemaReady

\* Indexes of the rows of a type that belong to a configuration.
RowsOf(t, c) ==
  {i \in DOMAIN evidence : evidence[i].type = t /\ evidence[i].config = c}

\* evidence_summary: the newest row of a type for the running configuration.
NewestIs(t, i) ==
  /\ DbOk
  /\ i \in RowsOf(t, config)
  /\ \A k \in RowsOf(t, config) : k <= i

Passed(t) == \E i \in DOMAIN evidence : NewestIs(t, i) /\ evidence[i].status = "PASS"

\* Faulty: counts the day of the start as well.
PaperDaysInclusive(r) ==
  LET end == IF r.ended = Null THEN today ELSE r.ended
  IN  IF r.started = Null \/ end < r.started THEN 0 ELSE end - r.started + 1

\* paper_days of the query, and the same sum in _paper_days.
PaperDays(r) ==
  LET end == IF r.ended = Null THEN today ELSE r.ended
  IN  IF r.started = Null \/ end < r.started THEN 0 ELSE end - r.started

\* _job_status: the newest job of a command among the last JobWindow.
Listed == {j \in known : j + JobWindow > Len(jobs)}
JobOk(c) ==
  \E j \in Listed :
    /\ jobs[j].command = c
    /\ jobs[j].status = "ok"
    /\ \A k \in Listed : k > j => jobs[k].command # c

CiOk == Passed("CI")
ValidateOk == JobOk("validate") \/ CiOk
TestnetOk == JobOk("preflight_testnet")
PaperStarted == \E i \in DOMAIN evidence : NewestIs("PHASE0_PAPER", i)

\* Faulty: takes a started paper period for a finished one.
PaperPassIfStarted == PaperStarted

PaperPass == Passed("PHASE0_PAPER")

PaperDone ==
  \E i \in DOMAIN evidence :
    NewestIs("PHASE0_PAPER", i) /\ PaperDays(evidence[i]) >= DaysRequired
SecurityOk == Passed("SECURITY")
RecOk == Passed("RECONCILIATION")
GoOk == Passed("GO_NO_GO")

\* The last step shows ok (live flags set).
LiveStepOk == GoOk /\ JobOk("preflight_live")

\* build_workflow: the actions that appear in a step or in a substep.
Offers(a) ==
  \/ a = "run_bootstrap_db" /\ ~DbOk
  \/ a = "run_validate" /\ DbOk /\ ~ValidateOk
  \/ a = "record_ci_pass" /\ DbOk /\ ValidateOk /\ ~CiOk
  \/ a = "run_testnet_preflight" /\ ValidateOk /\ CiOk /\ ~TestnetOk
  \/ a = "start_phase0_paper" /\ TestnetOk /\ ~PaperStarted
  \/ a = "record_phase0_paper_pass" /\ PaperDone /\ ~PaperPass
  \/ a = "record_security_pass" /\ PaperPass /\ ~SecurityOk
  \/ a = "record_reconciliation_pass" /\ SecurityOk /\ ~RecOk
  \/ a = "record_go_no_go_pass" /\ RecOk /\ ~GoOk
  \/ a = "run_live_preflight" /\ GoOk

\* Faulty: asks for the validate job where the step is content with CI.
PrerequisitesByJob ==
  DbOk /\ JobOk("validate") /\ TestnetOk /\ PaperPass /\ SecurityOk /\ RecOk

\* The second look record_go_no_go_pass takes at the earlier steps.
Prerequisites == DbOk /\ ValidateOk /\ TestnetOk /\ PaperPass /\ SecurityOk /\ RecOk

-----------------------------------------------------------------------------
(***************************************************************************)
(* Repository.live_evidence_status for a configuration: the paper row with *)
(* the latest end among those that passed, and any passed row of the other *)
(* types.  A later row that did not pass is not looked at.  Without a paper *)
(* row there are 0 days, which is enough if 0 days are asked for.          *)
(***************************************************************************)
\* Faulty: only the newest row of the type may speak for it.
PassedNewest(t, c) ==
  {i \in RowsOf(t, c) : evidence[i].status = "PASS" /\ \A k \in RowsOf(t, c) : k <= i}

PassedRows(t, c) == {i \in RowsOf(t, c) : evidence[i].status = "PASS"}

PaperVerified(c) ==
  LET dated == {i \in PassedRows("PHASE0_PAPER", c) :
                  evidence[i].started # Null /\ evidence[i].ended # Null}
  IN  \/ dated = {} /\ MinPaperDays = 0
      \/ \E i \in dated :
           /\ \A k \in dated : evidence[k].ended <= evidence[i].ended
           /\ evidence[i].ended >= evidence[i].started + MinPaperDays

LiveEvidence(c) ==
  /\ \A t \in EvidenceTypes \ {"PHASE0_PAPER"} : PassedRows(t, c) # {}
  /\ PaperVerified(c)

-----------------------------------------------------------------------------
(***************************************************************************)
(* Actions.                                                                *)
(***************************************************************************)
WorkflowInit ==
  /\ Init
  /\ evidence = <<>>
  /\ today = 1
  /\ files \in Configs
  /\ config = files

CommandOf ==
  [a \in {"run_bootstrap_db", "run_validate",
          "run_testnet_preflight", "run_live_preflight"} |->
     CASE a = "run_bootstrap_db" -> "bootstrap_db"
       [] a = "run_validate" -> "validate"
       [] a = "run_testnet_preflight" -> "preflight_testnet"
       [] a = "run_live_preflight" -> "preflight_live"]

\* A button that starts a job.  Nothing is written to manual_request_log.
PressRun(a, k) ==
  /\ <<a, k>> \notin answers
  /\ Offers(a)
  /\ CommandOf[a] \in Commands
  /\ Start(CommandOf[a], <<a, k>>, FALSE)
  /\ repo' = Ensured
  /\ UNCHANGED <<schema, dbUp, workflowVars>>

\* Faulty: the row has the operator's name where its source belongs.
InsertUnattributed(type, status, c, started, ended, by) ==
  /\ Len(evidence) < MaxRows
  /\ evidence' = Append(evidence,
       [type |-> type, status |-> status, config |-> c,
        started |-> started, ended |-> ended, at |-> today, by |-> "operator"])

\* record_go_no_go_evidence.
Insert(type, status, c, started, ended, by) ==
  /\ Len(evidence) < MaxRows
  /\ evidence' = Append(evidence,
       [type |-> type, status |-> status, config |-> c,
        started |-> started, ended |-> ended, at |-> today, by |-> by])

\* A button that records evidence of the running configuration.  Without a
\* database the answer is an error and nothing is remembered.
PressRecord(a, k, type, status, started, ended) ==
  /\ <<a, k>> \notin answers
  /\ Offers(a)
  /\ DbOk
  /\ Insert(type, status, config, started, ended, "panel")
  /\ answers' = answers \union {<<a, k>>}
  /\ repo' = Ensured
  /\ UNCHANGED <<jobs, known, schema, dbUp, today, config, files>>

RecordCi(k) == PressRecord("record_ci_pass", k, "CI", "PASS", Null, Null)

StartPaper(k) ==
  PressRecord("start_phase0_paper", k, "PHASE0_PAPER", "PENDING", today, Null)

\* The period that passes is the one of the newest paper row.
RecordPaperPass(k) ==
  \E i \in DOMAIN evidence :
    /\ NewestIs("PHASE0_PAPER", i)
    /\ PaperDays(evidence[i]) >= DaysRequired
    /\ PressRecord("record_phase0_paper_pass", k, "PHASE0_PAPER", "PASS",
                   evidence[i].started, today)

RecordSecurity(k) ==
  PressRecord("record_security_pass", k, "SECURITY", "PASS", Null, Null)

RecordReconciliation(k) ==
  PressRecord("record_reconciliation_pass", k, "RECONCILIATION", "PASS", Null, Null)

\* With approved_by, which both the handler and the table insist on.
RecordGo(k) ==
  /\ Prerequisites
  /\ PressRecord("record_go_no_go_pass", k, "GO_NO_GO", "PASS", Null, Null)

\* The child processes of the two preflights read the database, the live
\* one with the configuration files as they are when it runs.
Plausible(j, outcome) ==
  outcome = "ok" =>
    /\ jobs[j].command = "preflight_testnet" => DbOk
    /\ jobs[j].command = "preflight_live" => DbOk /\ LiveEvidence(files)

\* scripts/record_go_no_go_evidence.py on the files as they are.
CliRecord(r) ==
  /\ DbOk
  /\ Cardinality({i \in DOMAIN evidence : evidence[i].by = "cli"}) < MaxCliRows
  /\ Insert(r.type, r.status, files, r.started, r.ended, "cli")
  /\ UNCHANGED <<jobVars, today, config, files>>

DayPasses ==
  /\ today < MaxDay
  /\ today' = today + 1
  /\ UNCHANGED <<jobVars, evidence, config, files>>

EditFiles ==
  /\ files' \in Configs \ {files}
  /\ UNCHANGED <<jobVars, evidence, today, config>>

\* The jobs run as OperatorJobs says; a process that starts computes the
\* hash of the files it finds.
JobStep ==
  /\ \/ \E c \in Commands, k \in Keys : RunCommand(c, k)
     \/ \E j \in DOMAIN jobs, o \in Ended : Plausible(j, o) /\ Exit(j, o)
     \/ Threads
     \/ ReadPanel
     \/ Database
  /\ UNCHANGED workflowVars

RestartBackend ==
  /\ \E survivors \in SUBSET DOMAIN jobs : Restart(survivors)
  /\ config' = files
  /\ UNCHANGED <<evidence, today, files>>

Press(k) ==
  \/ \E a \in DOMAIN CommandOf : PressRun(a, k)
  \/ RecordCi(k)
  \/ StartPaper(k)
  \/ RecordPaperPass(k)
  \/ RecordSecurity(k)
  \/ RecordReconciliation(k)
  \/ RecordGo(k)

WorkflowNext ==
  \/ \E k \in Keys : Press(k)
  \/ \E r \in CliRows : CliRecord(r)
  \/ JobStep
  \/ RestartBackend
  \/ DayPasses
  \/ EditFiles

WorkflowSpec == WorkflowInit /\ [][WorkflowNext]_vars

-----------------------------------------------------------------------------
(***************************************************************************)
(* Properties.                                                             *)
(***************************************************************************)
WorkflowTypeOK ==
  /\ TypeOK
  /\ evidence \in Seq(Row)
  /\ today \in 1 .. MaxDay
  /\ config \in Configs
  /\ files \in Configs

\* All evidence of a configuration was recorded by the panel.
PanelOnly(c) ==
  \A i \in DOMAIN evidence : evidence[i].config = c => evidence[i].by = "panel"

\* A GO_NO_GO the panel recorded was earned in order and in time: behind it
\* are, in this order and all of the same configuration, the start of a paper
\* period, its pass at least DaysRequired days later and for that period,
\* the security pass and the reconciliation pass (run_workflow_action).
\* Restarts, edited files and forgotten jobs do not shorten the way.
GoIsEarned ==
  \A c \in Configs : PanelOnly(c) =>
    \A g \in PassedRows("GO_NO_GO", c) :
      \E p \in RowsOf("PHASE0_PAPER", c), q \in PassedRows("PHASE0_PAPER", c),
         s \in PassedRows("SECURITY", c), r \in PassedRows("RECONCILIATION", c) :
        /\ p < q /\ q < s /\ s < r /\ r < g
        /\ evidence[p].status = "PENDING"
        /\ evidence[q].started = evidence[p].at
        /\ evidence[q].at >= evidence[p].at + DaysRequired

\* The panel and the live gate read the same rows by different rules: the one
\* takes the newest row of a type, the other any passed row and, of the paper
\* periods, the one that ended last, which it measures again.  If the panel
\* kept the paper rows itself and shows all five kinds of evidence as passed,
\* the gate finds its evidence complete (live_evidence_status).
GreenPanelOpensGate ==
  /\ \A t \in EvidenceTypes : Passed(t)
  /\ \A i \in RowsOf("PHASE0_PAPER", config) : evidence[i].by = "panel"
  => LiveEvidence(config)

\* A passed paper row that the gate measures and finds too short.
ShortPass(r) ==
  /\ r.type = "PHASE0_PAPER" /\ r.status = "PASS"
  /\ r.started # Null /\ r.ended # Null
  /\ r.ended < r.started + MinPaperDays

\* A paper row of the command line that claims an end still ahead.
EndsAhead(r) == r.type = "PHASE0_PAPER" /\ r.by = "cli" /\ r.ended > today

\* Evidence that was complete for the live gate is taken away by one kind of
\* row only: a passed paper period too short for the gate that ends no
\* earlier than the ones before it.  The command line writes such a row, or
\* the panel when it passes a period whose end the command line has claimed
\* ahead of time: it counts the days to that end and writes today's.  A FAIL,
\* a new period and a repeated pass take nothing away (live_evidence_status,
\* record_phase0_paper_pass).
OnlyShortPassLosesEvidence ==
  [][\A c \in Configs : LiveEvidence(c) /\ ~LiveEvidence(c)' =>
       LET new == evidence'[Len(evidence')]
       IN  /\ ShortPass(new) /\ new.config = c
           /\ \A i \in PassedRows("PHASE0_PAPER", c) :
                evidence[i].started # Null => evidence[i].ended <= new.ended
           /\ \/ new.by = "cli"
              \/ \E i \in RowsOf("PHASE0_PAPER", c) :
                   EndsAhead(evidence[i]) /\ evidence[i].started = new.started]_vars

\* An action is offered and, if it is GO/NO-GO, its second look succeeds.
Accepts(a) ==
  /\ Offers(a)
  /\ a = "record_go_no_go_pass" => Prerequisites

PaperRuns ==
  \E i \in DOMAIN evidence :
    /\ NewestIs("PHASE0_PAPER", i)
    /\ evidence[i].started # Null
    /\ evidence[i].ended = Null

\* Forgotten jobs, restarts, edited files and rows in any order leave the
\* panel with an action it accepts (run_paper_once, which records nothing,
\* aside) or with a paper period whose days still count.  One thing alone
\* strands it: the newest paper row is one the command line recorded without a
\* pass and without enough days, say an undated FAIL; then the period counts
\* as started and can neither start nor pass (build_workflow, paper_started
\* and paper_days).
OnlyCommandLineStrandsPanel ==
  DbOk /\ ~PaperRuns /\ (\A a \in Namespaces : ~Accepts(a)) =>
    \E i \in DOMAIN evidence :
      /\ NewestIs("PHASE0_PAPER", i)
      /\ evidence[i].by = "cli" /\ evidence[i].status # "PASS"
      /\ PaperDays(evidence[i]) < DaysRequired

\* What the hero of the panel says: the next gate is closed until the
\* substeps before it are done.  One of them is the CI evidence.
GoNeedsCi ==
  \A c \in Configs : \A g \in PassedRows("GO_NO_GO", c) :
    evidence[g].by = "panel" => \E i \in PassedRows("CI", c) : i < g
=============================================================================
