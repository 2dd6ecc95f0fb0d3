-------------------------- MODULE OperatorWorkflowMC ------------------------
\* Constants for checking OperatorWorkflow with TLC.
EXTENDS OperatorWorkflow, TLC

CONSTANTS k1, c1, c2

OneKey == {k1}
OneConfig == {c1}
TwoConfigs == {c1, c2}

\* The jobs the gates before GO/NO-GO wait for.
GateCommands == {"validate", "preflight_testnet"}

\* The command line is not used.
NoCli == {}

\* What the command line records out of turn: a paper period that failed,
\* without dates; one of no days that is passed and ends last; one that is
\* opened anew and claims an end still ahead.
CliRow(type, status, started, ended) ==
  [type |-> type, status |-> status, started |-> started, ended |-> ended]
OutOfTurn ==
  {CliRow("PHASE0_PAPER", "FAIL", Null, Null),
   CliRow("PHASE0_PAPER", "PASS", 3, 3),
   CliRow("PHASE0_PAPER", "PENDING", 3, 4)}

ConfigSymmetry == Permutations(TwoConfigs)

\* States that differ in nothing an action or a property of OperatorWorkflow
\* reads are one: forgotten jobs (no child migrates here, bootstrap_db is not
\* among the commands), who asked for a job and whether that was audited, in
\* what way it failed, the repository, the day of a row that is no paper row.
JobSeen(j) ==
  <<jobs[j].command, jobs[j].child,
    IF jobs[j].status \in Pending \union {"ok"} THEN jobs[j].status ELSE "failed">>
RowSeen(r) == IF r.type = "PHASE0_PAPER" THEN r ELSE [r EXCEPT !.at = Null]
Seen ==
  <<Len(jobs), [j \in known |-> JobSeen(j)], answers, schema, dbUp,
    [i \in DOMAIN evidence |-> RowSeen(evidence[i])], today, config, files>>
=============================================================================
