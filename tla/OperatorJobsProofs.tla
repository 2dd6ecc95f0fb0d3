------------------------- MODULE OperatorJobsProofs -------------------------
(***************************************************************************)
(* Proofs about OperatorJobs, for every set of keys and commands and any   *)
(* number of jobs.  A child process belongs to a running job and ok means  *)
(* that all migrations are done: hence whoever weakened the trigger and    *)
(* did not restore it is not shown as ok.                                  *)
(***************************************************************************)
EXTENDS OperatorJobs, TLAPS

Status == Pending \union Ended

\* A remembered job has its answer; a child belongs to a running job; ok
\* means that no migration is left.
Answered == \A j \in known : jobs[j].ask \in answers
ChildRuns == \A j \in DOMAIN jobs : jobs[j].child => jobs[j].status = "running"
OkIsDone ==
  \A j \in DOMAIN jobs :
    jobs[j].command = "bootstrap_db" /\ jobs[j].status = "ok" => jobs[j].next = 5

JobsInv ==
  /\ TypeOK
  /\ Answered /\ OneJobPerRequest
  /\ ChildRuns /\ OkIsDone /\ WeakTriggerHasCulprit

-----------------------------------------------------------------------------
(* Steps on the list of jobs                                               *)

\* Job j changes its status, child and migration, and nothing else does.
Turns(j, status, child, next) ==
  /\ jobs' \in Seq(Job) /\ Len(jobs') = Len(jobs)
  /\ \A i \in DOMAIN jobs : i # j => jobs'[i] = jobs[i]
  /\ jobs'[j].command = jobs[j].command /\ jobs'[j].ask = jobs[j].ask
  /\ jobs'[j].status = status /\ jobs'[j].child = child /\ jobs'[j].next = next

LEMMA JobFields ==
  ASSUME jobs \in Seq(Job), NEW j \in DOMAIN jobs
  PROVE  /\ jobs[j] \in Job /\ jobs[j].command \in Commands
         /\ jobs[j].ask \in Namespaces \X Keys /\ jobs[j].status \in Status
         /\ jobs[j].audited \in BOOLEAN /\ jobs[j].child \in BOOLEAN
         /\ jobs[j].next \in 1 .. 5
<1>1. jobs[j] \in Job
  OBVIOUS
<1> QED
  BY <1>1 DEF Job, Status

LEMMA TurnsBy ==
  ASSUME jobs \in Seq(Job), NEW j \in DOMAIN jobs, NEW job \in Job,
         jobs' = [jobs EXCEPT ![j] = job],
         job.command = jobs[j].command, job.ask = jobs[j].ask
  PROVE  Turns(j, job.status, job.child, job.next)
<1>1. jobs' \in Seq(Job) /\ Len(jobs') = Len(jobs)
  OBVIOUS
<1> QED
  BY <1>1 DEF Turns

LEMMA RunJobTurns ==
  ASSUME jobs \in Seq(Job), NEW j \in DOMAIN jobs, RunJob(j)
  PROVE  Turns(j, "running", TRUE, jobs[j].next)
<1> DEFINE job == [jobs[j] EXCEPT !.status = "running", !.child = TRUE]
<1>1. job \in Job /\ job.command = jobs[j].command /\ job.ask = jobs[j].ask
      /\ job.status = "running" /\ job.child = TRUE /\ job.next = jobs[j].next
  BY JobFields DEF Job, Pending
<1>2. jobs' = [jobs EXCEPT ![j] = job]
  BY DEF RunJob
<1> HIDE DEF job
<1> QED
  BY <1>1, <1>2, TurnsBy

LEMMA MigrateTurns ==
  ASSUME jobs \in Seq(Job), NEW j \in DOMAIN jobs, Migrate(j)
  PROVE  Turns(j, jobs[j].status, jobs[j].child, jobs[j].next + 1)
<1> DEFINE job == [jobs[j] EXCEPT !.next = jobs[j].next + 1]
<1>1. jobs[j].next \in 1 .. 4
  BY JobFields DEF Migrate, Migrations
<1>2. job \in Job /\ job.command = jobs[j].command /\ job.ask = jobs[j].ask
      /\ job.status = jobs[j].status /\ job.child = jobs[j].child
      /\ job.next = jobs[j].next + 1
  BY <1>1, JobFields DEF Job
<1>3. jobs' = [jobs EXCEPT ![j] = job]
  BY DEF Migrate
<1> HIDE DEF job
<1> QED
  BY <1>2, <1>3, TurnsBy

LEMMA StopTurns ==
  ASSUME jobs \in Seq(Job), NEW j \in DOMAIN jobs, NEW status \in Status,
         jobs' = [jobs EXCEPT ![j].child = FALSE, ![j].status = status]
  PROVE  Turns(j, status, FALSE, jobs[j].next)
<1> DEFINE job == [jobs[j] EXCEPT !.child = FALSE, !.status = status]
<1>1. job \in Job /\ job.command = jobs[j].command /\ job.ask = jobs[j].ask
      /\ job.status = status /\ job.child = FALSE /\ job.next = jobs[j].next
  BY JobFields DEF Job, Status
<1>2. jobs' = [jobs EXCEPT ![j] = job]
  OBVIOUS
<1> HIDE DEF job
<1>3. Turns(j, job.status, job.child, job.next)
  BY <1>1, <1>2, TurnsBy
<1> QED
  BY <1>1, <1>3

LEMMA TurnsKeeps ==
  ASSUME JobsInv, NEW j \in DOMAIN jobs, NEW status, NEW child, NEW next,
         Turns(j, status, child, next), UNCHANGED <<known, answers>>
  PROVE  /\ known' \subseteq DOMAIN jobs' /\ Len(jobs') <= MaxJobs
         /\ Answered' /\ OneJobPerRequest'
<1>1. DOMAIN jobs' = DOMAIN jobs
  BY DEF Turns, JobsInv, TypeOK
<1>2. \A i \in DOMAIN jobs : jobs'[i].ask = jobs[i].ask
  BY DEF Turns
<1> QED
  BY <1>1, <1>2 DEF Turns, JobsInv, TypeOK, Answered, OneJobPerRequest

-----------------------------------------------------------------------------
(* The actions                                                             *)

LEMMA InitJobs == Init => JobsInv
<1> SUFFICES ASSUME Init PROVE JobsInv
  OBVIOUS
<1>1. TypeOK
  <2>1. schema \in Schema
    <3>1. Empty \in Schema /\ Complete \in Schema
      BY DEF Schema, Empty, Complete
    <3> QED
      BY <3>1 DEF Init
  <2>2. jobs \in Seq(Job) /\ Len(jobs) <= MaxJobs /\ known \subseteq DOMAIN jobs
    BY MaxJobsAssumption DEF Init
  <2>3. dbUp \in BOOLEAN /\ repo \in BOOLEAN /\ answers \subseteq Namespaces \X Keys
    BY DEF Init
  <2> QED
    BY <2>1, <2>2, <2>3 DEF TypeOK
<1>2. WeakTriggerHasCulprit
  BY DEF Init, WeakTriggerHasCulprit, Empty, Complete
<1>3. Answered /\ OneJobPerRequest /\ ChildRuns /\ OkIsDone
  BY DEF Init, Answered, OneJobPerRequest, ChildRuns, OkIsDone
<1> QED
  BY <1>1, <1>2, <1>3 DEF JobsInv

LEMMA StartAdds ==
  ASSUME jobs \in Seq(Job), NEW c \in Commands, NEW ask \in Namespaces \X Keys,
         NEW audited \in BOOLEAN, Start(c, ask, audited)
  PROVE  /\ jobs' \in Seq(Job) /\ Len(jobs') = Len(jobs) + 1
         /\ \A i \in DOMAIN jobs : jobs'[i] = jobs[i]
         /\ jobs'[Len(jobs) + 1] = NewJob(c, ask, audited)
<1>1. NewJob(c, ask, audited) \in Job
  BY DEF NewJob, Job, Pending
<1> QED
  BY <1>1 DEF Start

LEMMA StartType ==
  ASSUME TypeOK, NEW c \in Commands, NEW ask \in Namespaces \X Keys,
         NEW audited \in BOOLEAN, Start(c, ask, audited),
         UNCHANGED <<schema, dbUp>>, repo' \in BOOLEAN
  PROVE  TypeOK'
<1>1. jobs' \in Seq(Job) /\ Len(jobs') = Len(jobs) + 1 /\ Len(jobs) < MaxJobs
  BY StartAdds DEF TypeOK, Start
<1>2. known' \subseteq DOMAIN jobs' /\ answers' \subseteq Namespaces \X Keys
  BY <1>1 DEF TypeOK, Start
<1> QED
  BY <1>1, <1>2, MaxJobsAssumption DEF TypeOK

LEMMA AuditType == ASSUME TypeOK PROVE AuditAccepted \in BOOLEAN
BY DEF TypeOK, AuditAccepted, Schema

\* A request with a new key, from whichever route, starts a job.
LEMMA StartInv ==
  ASSUME JobsInv, NEW c \in Commands, NEW ask \in Namespaces \X Keys,
         NEW audited \in BOOLEAN, ask \notin answers, Start(c, ask, audited),
         UNCHANGED <<schema, dbUp>>, repo' \in BOOLEAN
  PROVE  JobsInv'
<1>1. TypeOK'
  BY StartType DEF JobsInv
<1>2. /\ DOMAIN jobs = 1 .. Len(jobs) /\ Len(jobs) \in Nat
      /\ DOMAIN jobs' = DOMAIN jobs \union {Len(jobs) + 1}
      /\ Len(jobs) + 1 \notin DOMAIN jobs
      /\ \A i \in DOMAIN jobs : jobs'[i] = jobs[i]
      /\ jobs'[Len(jobs) + 1] = NewJob(c, ask, audited)
  <2>1. jobs \in Seq(Job)
    BY DEF JobsInv, TypeOK
  <2>2. /\ jobs' \in Seq(Job) /\ Len(jobs') = Len(jobs) + 1
        /\ \A i \in DOMAIN jobs : jobs'[i] = jobs[i]
        /\ jobs'[Len(jobs) + 1] = NewJob(c, ask, audited)
    BY <2>1, StartAdds
  <2>3. DOMAIN jobs = 1 .. Len(jobs) /\ Len(jobs) \in Nat
    BY <2>1
  <2>4. DOMAIN jobs' = 1 .. Len(jobs) + 1
    BY <2>2
  <2>5. 1 .. Len(jobs) + 1 = 1 .. Len(jobs) \union {Len(jobs) + 1}
    BY <2>3
  <2> QED
    BY <2>2, <2>3, <2>4, <2>5
<1>3. known' = known \union {Len(jobs) + 1} /\ answers' = answers \union {ask}
      /\ known \subseteq DOMAIN jobs
  BY DEF Start, JobsInv, TypeOK
<1>4. Answered'
  BY <1>2, <1>3 DEF JobsInv, Answered, NewJob
<1>5. OneJobPerRequest'
  <2>1. \A i \in known : jobs'[i].ask = jobs[i].ask /\ jobs[i].ask # ask
    BY <1>2, <1>3 DEF JobsInv, Answered
  <2>2. jobs'[Len(jobs) + 1].ask = ask
    BY <1>2 DEF NewJob
  <2> QED
    BY <1>3, <2>1, <2>2 DEF JobsInv, OneJobPerRequest
<1>6. ChildRuns' /\ OkIsDone'
  BY <1>2 DEF JobsInv, ChildRuns, OkIsDone, NewJob
<1>7. WeakTriggerHasCulprit'
  BY <1>2 DEF JobsInv, WeakTriggerHasCulprit
<1> QED
  BY <1>1, <1>4, <1>5, <1>6, <1>7 DEF JobsInv

LEMMA RunCommandInv ==
  ASSUME JobsInv, NEW c \in Commands, NEW k \in Keys, RunCommand(c, k)
  PROVE  JobsInv'
<1> DEFINE ask == <<"operator-command", k>>
<1>1. ask \in Namespaces \X Keys /\ ask \notin answers
  BY DEF Namespaces, RunCommand
<1>2. PICK audited \in BOOLEAN : audited = AuditAccepted
  BY AuditType DEF JobsInv
<1>3. Start(c, ask, audited) /\ UNCHANGED <<schema, dbUp, repo>>
  BY <1>2 DEF RunCommand
<1> HIDE DEF ask
<1> QED
  BY <1>1, <1>3, StartInv DEF JobsInv, TypeOK

\* A step of a job that is not a migration: the trigger stays, and the
\* culprit, if it is this job, is not shown as ok.
LEMMA TurnInv ==
  ASSUME JobsInv, NEW j \in DOMAIN jobs, NEW status \in Status,
         NEW child \in BOOLEAN, Turns(j, status, child, jobs[j].next),
         UNCHANGED <<known, answers, schema, dbUp, repo>>,
         child => status = "running",
         jobs[j].command = "bootstrap_db" /\ status = "ok" => jobs[j].next = 5
  PROVE  JobsInv'
<1>1. DOMAIN jobs' = DOMAIN jobs
  BY DEF Turns, JobsInv, TypeOK
<1>2. Answered' /\ OneJobPerRequest'
  BY TurnsKeeps
<1>3. TypeOK'
  BY TurnsKeeps DEF Turns, JobsInv, TypeOK
<1>4. ChildRuns' /\ OkIsDone'
  BY <1>1 DEF Turns, JobsInv, ChildRuns, OkIsDone
<1>5. WeakTriggerHasCulprit'
  <2> SUFFICES ASSUME schema.trigger = "0001" PROVE WeakTriggerHasCulprit'
    BY DEF WeakTriggerHasCulprit
  <2>1. PICK i \in DOMAIN jobs : /\ jobs[i].command = "bootstrap_db"
                                 /\ jobs[i].next = 2 /\ jobs[i].status # "ok"
    BY DEF JobsInv, WeakTriggerHasCulprit
  <2>2. jobs'[i].command = "bootstrap_db" /\ jobs'[i].next = 2 /\ jobs'[i].status # "ok"
    BY <2>1 DEF Turns
  <2> QED
    BY <1>1, <2>1, <2>2 DEF WeakTriggerHasCulprit
<1> QED
  BY <1>2, <1>3, <1>4, <1>5 DEF JobsInv

LEMMA MigratedTrigger ==
  ASSUME NEW s \in Schema, NEW n \in 1 .. 4
  PROVE  /\ Migrated(s, Migrations[n]) \in Schema
         /\ n = 1 => Migrated(s, Migrations[n]).trigger = "0001"
         /\ n = 2 => Migrated(s, Migrations[n]).trigger = "0003"
         /\ n \in {3, 4} => Migrated(s, Migrations[n]).trigger = s.trigger
<1>1. CASE n = 1
  BY <1>1 DEF Migrated, Migrations, Schema
<1>2. CASE n = 2
  BY <1>2 DEF Migrated, Migrations, Schema
<1>3. CASE n = 3
  BY <1>3 DEF Migrated, Migrations, Schema
<1>4. CASE n = 4
  BY <1>4 DEF Migrated, Migrations, Schema
<1> QED
  BY <1>1, <1>2, <1>3, <1>4

LEMMA MigrateInv ==
  ASSUME JobsInv, NEW j \in DOMAIN jobs, Migrate(j) PROVE JobsInv'
<1>1. Turns(j, jobs[j].status, jobs[j].child, jobs[j].next + 1)
  BY MigrateTurns DEF JobsInv, TypeOK
<1>2. /\ jobs[j].child /\ jobs[j].command = "bootstrap_db" /\ jobs[j].status = "running"
      /\ jobs[j].next \in 1 .. 4
      /\ schema' = Migrated(schema, Migrations[jobs[j].next])
      /\ UNCHANGED <<known, answers, dbUp, repo>>
  BY JobFields DEF Migrate, Migrations, JobsInv, TypeOK, ChildRuns
<1>3. DOMAIN jobs' = DOMAIN jobs
  BY <1>1 DEF Turns, JobsInv, TypeOK
<1>4. Answered' /\ OneJobPerRequest'
  BY <1>1, <1>2, TurnsKeeps
<1>5. schema' \in Schema
  BY <1>2, MigratedTrigger DEF JobsInv, TypeOK
<1>6. TypeOK'
  BY <1>1, <1>2, <1>5, TurnsKeeps DEF Turns, JobsInv, TypeOK
<1>7. ChildRuns' /\ OkIsDone'
  BY <1>1, <1>2, <1>3 DEF Turns, JobsInv, ChildRuns, OkIsDone
<1>8. WeakTriggerHasCulprit'
  <2>1. CASE jobs[j].next = 1
    BY <1>1, <1>2, <1>3, <2>1 DEF Turns, WeakTriggerHasCulprit
  <2>2. CASE jobs[j].next = 2
    BY <1>2, <2>2, MigratedTrigger DEF WeakTriggerHasCulprit, JobsInv, TypeOK
  <2>3. CASE jobs[j].next \in {3, 4}
    <3> SUFFICES ASSUME schema'.trigger = "0001" PROVE WeakTriggerHasCulprit'
      BY DEF WeakTriggerHasCulprit
    <3>1. schema.trigger = "0001"
      BY <1>2, <2>3, MigratedTrigger DEF JobsInv, TypeOK
    <3>2. PICK i \in DOMAIN jobs : /\ jobs[i].command = "bootstrap_db"
                                   /\ jobs[i].next = 2 /\ jobs[i].status # "ok"
      BY <3>1 DEF JobsInv, WeakTriggerHasCulprit
    <3>3. jobs'[i] = jobs[i]
      BY <1>1, <2>3, <3>2 DEF Turns
    <3> QED
      BY <1>3, <3>2, <3>3 DEF WeakTriggerHasCulprit
  <2> QED
    BY <1>2, <2>1, <2>2, <2>3
<1> QED
  BY <1>4, <1>6, <1>7, <1>8 DEF JobsInv

LEMMA ExitInv ==
  ASSUME JobsInv, NEW j \in DOMAIN jobs, NEW outcome \in Ended, Exit(j, outcome)
  PROVE  JobsInv'
<1>1. Told(j, outcome) \in Status
  BY JobFields DEF Told, Status, JobsInv, TypeOK
<1>2. Turns(j, Told(j, outcome), FALSE, jobs[j].next)
  BY <1>1, StopTurns DEF Exit, JobsInv, TypeOK
<1>3. jobs[j].command = "bootstrap_db" /\ Told(j, outcome) = "ok" => jobs[j].next = 5
  <2>1. jobs[j].next \in 1 .. 5 /\ jobs[j].status = "running"
    BY JobFields DEF Exit, JobsInv, TypeOK, ChildRuns
  <2>2. jobs[j].command = "bootstrap_db" /\ outcome = "ok" => jobs[j].next > 4
    BY DEF Exit, Outcomes, Migrations
  <2> QED
    BY <2>1, <2>2 DEF Told
<1> QED
  BY <1>1, <1>2, <1>3, TurnInv DEF Exit

LEMMA RaiseInv ==
  ASSUME JobsInv, NEW j \in DOMAIN jobs, NEW status \in {"timeout", "error"},
         Raise(j, status)
  PROVE  JobsInv'
<1>1. status \in Status
  BY DEF Status, Ended
<1>2. Turns(j, status, FALSE, jobs[j].next)
  BY <1>1, StopTurns DEF Raise, JobsInv, TypeOK
<1> QED
  BY <1>1, <1>2, TurnInv DEF Raise

LEMMA RunJobInv ==
  ASSUME JobsInv, NEW j \in DOMAIN jobs, RunJob(j) PROVE JobsInv'
<1>1. Turns(j, "running", TRUE, jobs[j].next) /\ "running" \in Status
  BY RunJobTurns DEF JobsInv, TypeOK, Status, Pending
<1> QED
  BY <1>1, TurnInv DEF RunJob

LEMMA RestartJobs ==
  ASSUME jobs \in Seq(Job), NEW survivors, Restart(survivors)
  PROVE  /\ jobs' \in Seq(Job) /\ Len(jobs') = Len(jobs)
         /\ \A j \in DOMAIN jobs :
              /\ jobs'[j].command = jobs[j].command /\ jobs'[j].status = jobs[j].status
              /\ jobs'[j].next = jobs[j].next
              /\ jobs'[j].child => jobs[j].child
<1>1. DOMAIN jobs' = 1 .. Len(jobs) /\ Len(jobs) \in Nat
  BY DEF Restart
<1>2. ASSUME NEW j \in DOMAIN jobs
      PROVE  /\ jobs'[j] \in Job
             /\ jobs'[j].command = jobs[j].command /\ jobs'[j].status = jobs[j].status
             /\ jobs'[j].next = jobs[j].next
             /\ jobs'[j].child => jobs[j].child
  <2>1. jobs'[j] = [jobs[j] EXCEPT !.child = jobs[j].child /\ j \in survivors]
    BY DEF Restart
  <2>2. (jobs[j].child /\ j \in survivors) \in BOOLEAN
    OBVIOUS
  <2> QED
    BY <2>1, <2>2, JobFields DEF Job
<1>3. jobs' \in Seq(Job)
  <2>1. jobs' = [j \in 1 .. Len(jobs) |-> jobs'[j]]
    BY <1>1 DEF Restart
  <2> QED
    BY <1>1, <1>2, <2>1
<1> QED
  BY <1>1, <1>2, <1>3

LEMMA RestartType ==
  ASSUME TypeOK, NEW survivors, Restart(survivors) PROVE TypeOK'
<1>1. jobs' \in Seq(Job) /\ Len(jobs') = Len(jobs)
  BY RestartJobs DEF TypeOK
<1> QED
  BY <1>1 DEF TypeOK, Restart

LEMMA RestartInv ==
  ASSUME JobsInv, NEW survivors, Restart(survivors) PROVE JobsInv'
<1>1. DOMAIN jobs' = DOMAIN jobs
  BY RestartJobs DEF JobsInv, TypeOK
<1>2. TypeOK'
  BY RestartType DEF JobsInv
<1>3. Answered' /\ OneJobPerRequest'
  BY DEF Restart, Answered, OneJobPerRequest
<1>4. ChildRuns' /\ OkIsDone' /\ WeakTriggerHasCulprit'
  <2>1. \A j \in DOMAIN jobs :
          /\ jobs'[j].command = jobs[j].command /\ jobs'[j].status = jobs[j].status
          /\ jobs'[j].next = jobs[j].next
          /\ jobs'[j].child => jobs[j].child
    BY RestartJobs DEF JobsInv, TypeOK
  <2>2. schema' = schema
    BY DEF Restart
  <2>3. ChildRuns' /\ OkIsDone'
    BY <1>1, <2>1 DEF JobsInv, ChildRuns, OkIsDone
  <2>4. WeakTriggerHasCulprit'
    BY <1>1, <2>1, <2>2 DEF JobsInv, WeakTriggerHasCulprit
  <2> QED
    BY <2>3, <2>4
<1> QED
  BY <1>2, <1>3, <1>4 DEF JobsInv

LEMMA OthersInv ==
  ASSUME JobsInv, UNCHANGED <<jobs, known, answers, schema>>,
         dbUp' \in BOOLEAN, repo' \in BOOLEAN
  PROVE  JobsInv'
BY DEF JobsInv, TypeOK, Answered, OneJobPerRequest, ChildRuns, OkIsDone,
       WeakTriggerHasCulprit

LEMMA ThreadsInv == ASSUME JobsInv, Threads PROVE JobsInv'
<1>1. PICK j \in DOMAIN jobs : RunJob(j) \/ Migrate(j) \/ TimeOut(j) \/ Fail(j)
  BY DEF Threads
<1>2. CASE RunJob(j)
  BY <1>2, RunJobInv
<1>3. CASE Migrate(j)
  BY <1>3, MigrateInv
<1>4. CASE TimeOut(j) \/ Fail(j)
  BY <1>4, RaiseInv DEF TimeOut, Fail
<1> QED
  BY <1>1, <1>2, <1>3, <1>4

LEMMA EnsuredBool == ASSUME TypeOK PROVE Ensured \in BOOLEAN
BY DEF TypeOK, Ensured, SchemaReady, Schema

LEMMA StepJobs == ASSUME JobsInv, [Next]_jobVars PROVE JobsInv'
<1>1. CASE \E c \in Commands, k \in Keys : RunCommand(c, k)
  BY <1>1, RunCommandInv
<1>2. CASE \E j \in DOMAIN jobs, o \in Ended : Exit(j, o)
  BY <1>2, ExitInv
<1>3. CASE Threads
  BY <1>3, ThreadsInv
<1>4. CASE \E survivors \in SUBSET DOMAIN jobs : Restart(survivors)
  BY <1>4, RestartInv
<1>5. CASE ReadPanel
  BY <1>5, OthersInv, EnsuredBool DEF ReadPanel, JobsInv, TypeOK
<1>6. CASE Database
  BY <1>6, OthersInv DEF Database, JobsInv, TypeOK
<1>7. CASE UNCHANGED jobVars
  BY <1>7, OthersInv DEF jobVars, JobsInv, TypeOK
<1> QED
  BY <1>1, <1>2, <1>3, <1>4, <1>5, <1>6, <1>7 DEF Next

LEMMA JobsInvariance == Spec => []JobsInv
<1> QED
  BY InitJobs, StepJobs, PTL DEF Spec

-----------------------------------------------------------------------------
(* What has ended                                                          *)

\* A step that turns a job which has not ended, and no other, keeps what has.
LEMMA TurnKeepsEnded ==
  ASSUME JobsInv, NEW j \in DOMAIN jobs, jobs[j].status \in Pending,
         NEW status, NEW child, NEW next, Turns(j, status, child, next)
  PROVE  \A i \in DOMAIN jobs :
           jobs[i].status \in Ended => i \in DOMAIN jobs' /\ jobs'[i] = jobs[i]
<1>1. DOMAIN jobs' = DOMAIN jobs
  BY DEF Turns, JobsInv, TypeOK
<1> QED
  BY <1>1 DEF Turns, Pending, Ended

LEMMA ThreadsKeepEnded ==
  ASSUME JobsInv, NEW j \in DOMAIN jobs,
         RunJob(j) \/ Migrate(j) \/ TimeOut(j) \/ Fail(j)
         \/ \E outcome \in Ended : Exit(j, outcome)
  PROVE  \A i \in DOMAIN jobs :
           jobs[i].status \in Ended => i \in DOMAIN jobs' /\ jobs'[i] = jobs[i]
\* Its child lives, so the job still runs.
<1>1. jobs[j].child => jobs[j].status \in Pending
  BY DEF JobsInv, ChildRuns, Pending
<1>2. CASE RunJob(j)
  <2>1. jobs[j].status \in Pending /\ Turns(j, "running", TRUE, jobs[j].next)
    BY <1>2, RunJobTurns DEF RunJob, Pending, JobsInv, TypeOK
  <2> QED
    BY <2>1, TurnKeepsEnded
<1>3. CASE Migrate(j)
  <2>1. jobs[j].status \in Pending
        /\ Turns(j, jobs[j].status, jobs[j].child, jobs[j].next + 1)
    BY <1>1, <1>3, MigrateTurns DEF Migrate, JobsInv, TypeOK
  <2> QED
    BY <2>1, TurnKeepsEnded
<1>4. CASE TimeOut(j) \/ Fail(j)
  <2>1. PICK status \in Status : Raise(j, status)
    BY <1>4 DEF TimeOut, Fail, Status, Ended
  <2>2. jobs[j].status \in Pending /\ Turns(j, status, FALSE, jobs[j].next)
    BY <2>1, StopTurns DEF Raise, Pending, JobsInv, TypeOK
  <2> QED
    BY <2>2, TurnKeepsEnded
<1>5. CASE \E outcome \in Ended : Exit(j, outcome)
  <2>1. PICK outcome \in Ended : Exit(j, outcome)
    BY <1>5
  <2>2. Told(j, outcome) \in Status
    BY JobFields DEF Told, Status, JobsInv, TypeOK
  <2>3. jobs[j].status \in Pending /\ Turns(j, Told(j, outcome), FALSE, jobs[j].next)
    BY <1>1, <2>1, <2>2, StopTurns DEF Exit, JobsInv, TypeOK
  <2> QED
    BY <2>3, TurnKeepsEnded
<1> QED
  BY <1>2, <1>3, <1>4, <1>5

\* A restart stops children, and a job that has ended has none.
LEMMA RestartKeepsEnded ==
  ASSUME JobsInv, NEW survivors, Restart(survivors)
  PROVE  \A i \in DOMAIN jobs :
           jobs[i].status \in Ended => i \in DOMAIN jobs' /\ jobs'[i] = jobs[i]
<1> SUFFICES ASSUME NEW i \in DOMAIN jobs, jobs[i].status \in Ended
             PROVE  i \in DOMAIN jobs' /\ jobs'[i] = jobs[i]
  OBVIOUS
<1>1. jobs[i] \in Job /\ jobs[i].child = FALSE
  BY JobFields DEF JobsInv, TypeOK, ChildRuns, Ended
<1>2. i \in DOMAIN jobs'
      /\ jobs'[i] = [jobs[i] EXCEPT !.child = jobs[i].child /\ i \in survivors]
  BY DEF Restart
<1>3. (jobs[i].child /\ i \in survivors) = jobs[i].child
  BY <1>1
<1> QED
  BY <1>1, <1>2, <1>3 DEF Job

LEMMA StartKeepsEnded ==
  ASSUME JobsInv, NEW c \in Commands, NEW ask \in Namespaces \X Keys,
         NEW audited \in BOOLEAN, Start(c, ask, audited)
  PROVE  \A i \in DOMAIN jobs : i \in DOMAIN jobs' /\ jobs'[i] = jobs[i]
<1>1. jobs \in Seq(Job)
  BY DEF JobsInv, TypeOK
<1>2. jobs' \in Seq(Job) /\ Len(jobs') = Len(jobs) + 1
      /\ \A i \in DOMAIN jobs : jobs'[i] = jobs[i]
  BY <1>1, StartAdds
<1> QED
  BY <1>1, <1>2

LEMMA StepKeepsEnded ==
  ASSUME JobsInv, [Next]_jobVars
  PROVE  \A i \in DOMAIN jobs :
           jobs[i].status \in Ended => i \in DOMAIN jobs' /\ jobs'[i] = jobs[i]
<1>1. CASE \E c \in Commands, k \in Keys : RunCommand(c, k)
  <2>1. PICK c \in Commands, k \in Keys : RunCommand(c, k)
    BY <1>1
  <2>2. PICK ask \in Namespaces \X Keys, audited \in BOOLEAN : Start(c, ask, audited)
    BY <2>1, AuditType DEF RunCommand, Namespaces, JobsInv
  <2> QED
    BY <2>2, StartKeepsEnded
<1>2. CASE \E j \in DOMAIN jobs, o \in Ended : Exit(j, o)
  BY <1>2, ThreadsKeepEnded
<1>3. CASE Threads
  BY <1>3, ThreadsKeepEnded DEF Threads
<1>4. CASE \E survivors \in SUBSET DOMAIN jobs : Restart(survivors)
  BY <1>4, RestartKeepsEnded
<1>5. CASE ReadPanel \/ Database \/ UNCHANGED jobVars
  BY <1>5 DEF ReadPanel, Database, jobVars
<1> QED
  BY <1>1, <1>2, <1>3, <1>4, <1>5 DEF Next

-----------------------------------------------------------------------------
(* What follows                                                            *)

\* Jobs, answers and schema keep their types (OperatorJobRunner).
THEOREM JobTypes == Spec => []TypeOK
<1>1. JobsInv => TypeOK
  BY DEF JobsInv
<1> QED
  BY <1>1, JobsInvariance, PTL

\* A repeated request starts no second job in the life of a process
\* (run_operator_command).
THEOREM OneJob == Spec => []OneJobPerRequest
<1>1. JobsInv => OneJobPerRequest
  BY DEF JobsInv
<1> QED
  BY <1>1, JobsInvariance, PTL

\* Behind a weakened trigger is a bootstrap job between two migrations that
\* is not shown as ok, however many run at once (apply_migrations).
THEOREM WeakTrigger == Spec => []WeakTriggerHasCulprit
<1>1. JobsInv => WeakTriggerHasCulprit
  BY DEF JobsInv
<1> QED
  BY <1>1, JobsInvariance, PTL

\* A job that has ended stays as it ended, across restarts and whatever the
\* other jobs do (OperatorJobRunner._run_job).
THEOREM EndedIsFinal == Spec => EndedStaysEnded
<1>1. JobsInv /\ [Next]_jobVars =>
        [\A j \in DOMAIN jobs : jobs[j].status \in Ended =>
           j \in DOMAIN jobs' /\ jobs'[j] = jobs[j]]_jobVars
  BY StepKeepsEnded
<1> QED
  BY <1>1, JobsInvariance, PTL DEF Spec, EndedStaysEnded
=============================================================================
