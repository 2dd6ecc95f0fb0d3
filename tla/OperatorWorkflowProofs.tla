----------------------- MODULE OperatorWorkflowProofs -----------------------
(***************************************************************************)
(* Proofs about OperatorWorkflow, for all configurations, rows of the      *)
(* command line, job windows, periods and bounds.  The rows are only ever  *)
(* appended to; what is proved of each row is which rows stood before it   *)
(* when it was written, and that stays true.                               *)
(***************************************************************************)
EXTENDS OperatorWorkflow, OperatorJobsProofs

\* Row i stands behind a passed row of type t of its configuration.
After(e, i, t) ==
  \E k \in DOMAIN e :
    k < i /\ e[k].type = t /\ e[k].status = "PASS" /\ e[k].config = e[i].config

Opens(e, i) ==
  e[i].status = "PENDING" /\ e[i].started = e[i].at /\ e[i].started # Null
  /\ e[i].ended = Null

\* Row i passes the period of an earlier paper row; if the panel wrote that
\* one as well, it opened the period and the days have passed.
Closes(e, i) ==
  \E p \in DOMAIN e :
    /\ p < i /\ e[p].type = "PHASE0_PAPER" /\ e[p].config = e[i].config
    /\ e[i].started = e[p].started /\ e[i].ended = e[i].at
    /\ e[p].by = "panel" =>
         e[p].status = "PENDING" /\ e[p].started = e[p].at
         /\ e[i].at >= e[p].at + DaysRequired

\* What stood before a row of the panel when it was written.
Earned(e, i) ==
  e[i].by = "panel" =>
    /\ e[i].type = "PHASE0_PAPER" => Opens(e, i) \/ (e[i].status = "PASS" /\ Closes(e, i))
    /\ e[i].type = "SECURITY" => After(e, i, "PHASE0_PAPER")
    /\ e[i].type = "RECONCILIATION" => After(e, i, "SECURITY")
    /\ e[i].type = "GO_NO_GO" => After(e, i, "RECONCILIATION")

NotLater == \A i \in DOMAIN evidence : evidence[i].at <= today
InOrder == \A i, k \in DOMAIN evidence : k <= i => evidence[k].at <= evidence[i].at
AllEarned == \A i \in DOMAIN evidence : Earned(evidence, i)

WorkflowInv == JobsInv /\ WorkflowTypeOK /\ NotLater /\ InOrder /\ AllEarned

-----------------------------------------------------------------------------
(* The rows                                                                *)

LEMMA RowFields ==
  ASSUME NEW e \in Seq(Row), NEW i \in DOMAIN e
  PROVE  /\ e[i] \in Row /\ e[i].type \in EvidenceTypes /\ e[i].status \in Statuses
         /\ e[i].config \in Configs /\ e[i].started \in Nat /\ e[i].ended \in Nat
         /\ e[i].at \in Nat /\ e[i].by \in {"panel", "cli"} /\ i \in Nat
<1>1. e[i] \in Row /\ i \in Nat
  OBVIOUS
<1> QED
  BY <1>1 DEF Row

LEMMA Appended ==
  ASSUME NEW e \in Seq(Row), NEW row \in Row, NEW f, f = Append(e, row)
  PROVE  /\ f \in Seq(Row) /\ Len(f) = Len(e) + 1
         /\ DOMAIN f = DOMAIN e \union {Len(e) + 1}
         /\ Len(e) + 1 \notin DOMAIN e
         /\ \A i \in DOMAIN e : f[i] = e[i] /\ i < Len(e) + 1
         /\ f[Len(e) + 1] = row
<1>1. f \in Seq(Row) /\ Len(f) = Len(e) + 1 /\ f[Len(e) + 1] = row
      /\ \A i \in DOMAIN e : f[i] = e[i]
  OBVIOUS
<1>2. DOMAIN e = 1 .. Len(e) /\ DOMAIN f = 1 .. Len(e) + 1 /\ Len(e) \in Nat
  BY <1>1
<1>3. 1 .. Len(e) + 1 = 1 .. Len(e) \union {Len(e) + 1}
  BY <1>2
<1> QED
  BY <1>1, <1>2, <1>3

\* What stood before a row still stands before it.
LEMMA EarnedStays ==
  ASSUME NEW e \in Seq(Row), NEW row \in Row, NEW f, f = Append(e, row),
         NEW i \in DOMAIN e, Earned(e, i)
  PROVE  Earned(f, i)
<1>1. DOMAIN e \subseteq DOMAIN f /\ \A k \in DOMAIN e : f[k] = e[k]
  BY Appended
<1>2. ASSUME NEW t, After(e, i, t) PROVE After(f, i, t)
  BY <1>1, <1>2 DEF After
<1>3. Opens(e, i) => Opens(f, i)
  BY <1>1 DEF Opens
<1>4. Closes(e, i) => Closes(f, i)
  BY <1>1 DEF Closes
<1>5. f[i] = e[i]
  BY <1>1
<1> QED
  BY <1>2, <1>3, <1>4, <1>5 DEF Earned

LEMMA InsertRow ==
  ASSUME WorkflowTypeOK, NotLater, InOrder, AllEarned, today' = today,
         NEW type \in EvidenceTypes, NEW status \in Statuses, NEW c \in Configs,
         NEW started \in Nat, NEW ended \in Nat, NEW by \in {"panel", "cli"},
         Insert(type, status, c, started, ended, by)
  PROVE  LET n == Len(evidence) + 1
         IN  /\ evidence' \in Seq(Row)
             /\ DOMAIN evidence' = DOMAIN evidence \union {n} /\ n \notin DOMAIN evidence
             /\ \A i \in DOMAIN evidence : evidence'[i] = evidence[i] /\ i < n
             /\ evidence'[n].type = type /\ evidence'[n].status = status
             /\ evidence'[n].config = c /\ evidence'[n].at = today
             /\ evidence'[n].started = started /\ evidence'[n].ended = ended
             /\ evidence'[n].by = by
             /\ NotLater' /\ InOrder'
             /\ \A i \in DOMAIN evidence : Earned(evidence', i)
<1> DEFINE row == [type |-> type, status |-> status, config |-> c, started |-> started,
                   ended |-> ended, at |-> today, by |-> by]
<1>1. today \in Nat /\ evidence \in Seq(Row)
  BY DEF WorkflowTypeOK
<1>2. row \in Row
  BY <1>1 DEF Row
<1>3. evidence' = Append(evidence, row)
  BY DEF Insert
<1>4. /\ row.type = type /\ row.status = status /\ row.config = c /\ row.at = today
      /\ row.started = started /\ row.ended = ended /\ row.by = by
  OBVIOUS
<1> HIDE DEF row
<1>5. /\ evidence' \in Seq(Row) /\ DOMAIN evidence' = DOMAIN evidence \union {Len(evidence) + 1}
      /\ Len(evidence) + 1 \notin DOMAIN evidence
      /\ \A i \in DOMAIN evidence : evidence'[i] = evidence[i] /\ i < Len(evidence) + 1
      /\ evidence'[Len(evidence) + 1] = row
  BY <1>1, <1>2, <1>3, Appended
<1>6. NotLater'
  BY <1>1, <1>4, <1>5 DEF NotLater
<1>7. \A i \in DOMAIN evidence : Earned(evidence', i)
  BY <1>1, <1>2, <1>3, EarnedStays DEF AllEarned
<1>8. InOrder'
  <2>1. \A i \in DOMAIN evidence : evidence[i].at <= today
    BY DEF NotLater
  <2>2. evidence'[Len(evidence) + 1].at = today /\ today <= today
    BY <1>1, <1>4, <1>5
  <2>3. \A i \in DOMAIN evidence : i \in Nat /\ ~(Len(evidence) + 1 <= i)
    BY <1>1, <1>5
  <2> QED
    BY <1>5, <2>1, <2>2, <2>3 DEF InOrder
<1> QED
  BY <1>4, <1>5, <1>6, <1>7, <1>8

-----------------------------------------------------------------------------
(* The buttons that record                                                 *)

\* The part of a recording button that is the same for all of them.
LEMMA PressCommon ==
  ASSUME WorkflowInv, NEW a \in Namespaces, NEW k \in Keys,
         NEW type \in EvidenceTypes, NEW status \in Statuses,
         NEW started \in Nat, NEW ended \in Nat,
         PressRecord(a, k, type, status, started, ended),
         Earned(evidence', Len(evidence) + 1)
  PROVE  WorkflowInv'
<1>1. /\ UNCHANGED <<jobs, known, schema, dbUp, today, config, files>>
      /\ answers' = answers \union {<<a, k>>} /\ repo' = Ensured
      /\ Insert(type, status, config, started, ended, "panel")
  BY DEF PressRecord
<1>2. JobsInv'
  <2>1. TypeOK'
    BY <1>1, EnsuredBool DEF WorkflowInv, JobsInv, TypeOK
  <2>2. Answered' /\ OneJobPerRequest' /\ ChildRuns' /\ OkIsDone' /\ WeakTriggerHasCulprit'
    BY <1>1 DEF WorkflowInv, JobsInv, Answered, OneJobPerRequest, ChildRuns, OkIsDone,
                WeakTriggerHasCulprit
  <2> QED
    BY <2>1, <2>2 DEF JobsInv
<1>3. /\ evidence' \in Seq(Row) /\ NotLater' /\ InOrder'
      /\ DOMAIN evidence' = DOMAIN evidence \union {Len(evidence) + 1}
      /\ \A i \in DOMAIN evidence : Earned(evidence', i)
  BY <1>1, InsertRow DEF WorkflowInv, WorkflowTypeOK
<1>4. WorkflowTypeOK'
  BY <1>1, <1>2, <1>3 DEF WorkflowInv, WorkflowTypeOK, JobsInv
<1>5. AllEarned'
  BY <1>3 DEF AllEarned
<1> QED
  BY <1>2, <1>3, <1>4, <1>5 DEF WorkflowInv

\* The new row, and the old ones as they were.
Written(n, type, status, started, ended) ==
  /\ DOMAIN evidence' = DOMAIN evidence \union {n}
  /\ \A i \in DOMAIN evidence : evidence'[i] = evidence[i] /\ i < n
  /\ evidence'[n].type = type /\ evidence'[n].status = status
  /\ evidence'[n].config = config /\ evidence'[n].at = today
  /\ evidence'[n].started = started /\ evidence'[n].ended = ended
  /\ evidence'[n].by = "panel"

LEMMA PressWrites ==
  ASSUME WorkflowInv, NEW a, NEW k,
         NEW type \in EvidenceTypes, NEW status \in Statuses,
         NEW started \in Nat, NEW ended \in Nat,
         PressRecord(a, k, type, status, started, ended)
  PROVE  Written(Len(evidence) + 1, type, status, started, ended)
<1>1. Insert(type, status, config, started, ended, "panel") /\ today' = today
      /\ config \in Configs
  BY DEF PressRecord, WorkflowInv, WorkflowTypeOK
<1> QED
  BY <1>1, InsertRow DEF WorkflowInv, Written

\* A step that is passed has its passed row.
LEMMA PassedRow ==
  ASSUME NEW t, Passed(t)
  PROVE  \E k \in DOMAIN evidence : /\ evidence[k].type = t /\ evidence[k].status = "PASS"
                                    /\ evidence[k].config = config
BY DEF Passed, NewestIs, RowsOf

LEMMA RecordCiInv ==
  ASSUME WorkflowInv, NEW k \in Keys, RecordCi(k) PROVE WorkflowInv'
<1>1. PressRecord("record_ci_pass", k, "CI", "PASS", 0, 0)
  BY DEF RecordCi, Null
<1>2. "CI" \in EvidenceTypes /\ "PASS" \in Statuses /\ "record_ci_pass" \in Namespaces
  BY DEF EvidenceTypes, Statuses, Namespaces
<1>3. evidence'[Len(evidence) + 1].type = "CI"
  BY <1>1, <1>2, PressWrites DEF Written
<1>4. Earned(evidence', Len(evidence) + 1)
  BY <1>3 DEF Earned
<1> QED
  BY <1>1, <1>2, <1>4, PressCommon

LEMMA StartPaperInv ==
  ASSUME WorkflowInv, NEW k \in Keys, StartPaper(k) PROVE WorkflowInv'
<1>1. PressRecord("start_phase0_paper", k, "PHASE0_PAPER", "PENDING", today, 0)
  BY DEF StartPaper, Null
<1>2. "PHASE0_PAPER" \in EvidenceTypes /\ "PENDING" \in Statuses
      /\ "start_phase0_paper" \in Namespaces
  BY DEF EvidenceTypes, Statuses, Namespaces
<1>3. today \in Nat /\ today # 0
  BY DEF WorkflowInv, WorkflowTypeOK
<1>4. /\ evidence'[Len(evidence) + 1].type = "PHASE0_PAPER"
      /\ evidence'[Len(evidence) + 1].status = "PENDING"
      /\ evidence'[Len(evidence) + 1].started = today
      /\ evidence'[Len(evidence) + 1].ended = 0
      /\ evidence'[Len(evidence) + 1].at = today
  BY <1>1, <1>2, <1>3, PressWrites DEF Written
<1>5. Earned(evidence', Len(evidence) + 1)
  BY <1>3, <1>4 DEF Earned, Opens, Null
<1> QED
  BY <1>1, <1>2, <1>3, <1>5, PressCommon

\* The newest paper row is not passed when this button is offered: if the
\* panel wrote it, it opened the period that is passed now.
LEMMA RecordPaperInv ==
  ASSUME WorkflowInv, NEW k \in Keys, RecordPaperPass(k) PROVE WorkflowInv'
<1>1. PICK p \in DOMAIN evidence :
        /\ NewestIs("PHASE0_PAPER", p) /\ PaperDays(evidence[p]) >= DaysRequired
        /\ PressRecord("record_phase0_paper_pass", k, "PHASE0_PAPER", "PASS",
                       evidence[p].started, today)
  BY DEF RecordPaperPass
<1>2. "PHASE0_PAPER" \in EvidenceTypes /\ "PASS" \in Statuses
      /\ "record_phase0_paper_pass" \in Namespaces
  BY DEF EvidenceTypes, Statuses, Namespaces
<1>3. today \in Nat /\ evidence[p].started \in Nat /\ evidence[p].at \in Nat
      /\ evidence[p].status \in Statuses /\ evidence[p].at <= today
  BY RowFields DEF WorkflowInv, WorkflowTypeOK, NotLater
<1>4. evidence[p].type = "PHASE0_PAPER" /\ evidence[p].config = config
      /\ evidence[p].status # "PASS"
  <2>1. Offers("record_phase0_paper_pass")
    BY <1>1 DEF PressRecord
  <2>2. ~PaperPass
    BY <2>1 DEF Offers
  <2> QED
    BY <1>1, <2>2 DEF PaperPass, Passed, NewestIs, RowsOf
<1> DEFINE n == Len(evidence) + 1
<1>5. /\ DOMAIN evidence' = DOMAIN evidence \union {n}
      /\ evidence'[p] = evidence[p] /\ p < n
      /\ evidence'[n].type = "PHASE0_PAPER" /\ evidence'[n].status = "PASS"
      /\ evidence'[n].config = config /\ evidence'[n].at = today
      /\ evidence'[n].started = evidence[p].started /\ evidence'[n].ended = today
  <2>1. PICK since \in Nat : since = evidence[p].started
    BY <1>3
  <2>2. PressRecord("record_phase0_paper_pass", k, "PHASE0_PAPER", "PASS", since, today)
    BY <1>1, <2>1
  <2>3. Written(Len(evidence) + 1, "PHASE0_PAPER", "PASS", since, today)
    BY <1>2, <1>3, <2>2, PressWrites
  <2> QED
    BY <2>1, <2>3 DEF Written
<1>6. evidence[p].by = "panel" =>
        evidence[p].status = "PENDING" /\ evidence[p].started = evidence[p].at
        /\ today >= evidence[p].at + DaysRequired
  <2> SUFFICES ASSUME evidence[p].by = "panel"
               PROVE  evidence[p].status = "PENDING" /\ evidence[p].started = evidence[p].at
                      /\ today >= evidence[p].at + DaysRequired
    OBVIOUS
  <2>1. Opens(evidence, p)
    BY <1>4 DEF WorkflowInv, AllEarned, Earned
  <2>2. evidence[p].ended = Null
    BY <2>1 DEF Opens
  <2> QED
    BY <1>1, <1>3, <2>1, <2>2, DaysAssumption DEF Opens, PaperDays
<1> HIDE DEF n
<1>7. Closes(evidence', n)
  BY <1>4, <1>5, <1>6 DEF Closes
<1>8. Earned(evidence', n)
  BY <1>5, <1>7 DEF Earned
<1> QED
  BY <1>1, <1>2, <1>3, <1>8, PressCommon DEF n

\* The three buttons that only ask for the step before them.
LEMMA RecordNextInv ==
  ASSUME WorkflowInv, NEW a \in Namespaces, NEW k \in Keys,
         NEW type \in {"SECURITY", "RECONCILIATION", "GO_NO_GO"}, NEW t,
         t = IF type = "SECURITY" THEN "PHASE0_PAPER"
             ELSE IF type = "RECONCILIATION" THEN "SECURITY" ELSE "RECONCILIATION",
         Passed(t), PressRecord(a, k, type, "PASS", Null, Null)
  PROVE  WorkflowInv'
<1>1. type \in EvidenceTypes /\ "PASS" \in Statuses /\ Null \in Nat
  BY DEF EvidenceTypes, Statuses, Null
<1> DEFINE n == Len(evidence) + 1
<1>2. /\ DOMAIN evidence' = DOMAIN evidence \union {n}
      /\ \A i \in DOMAIN evidence : evidence'[i] = evidence[i] /\ i < n
      /\ evidence'[n].type = type /\ evidence'[n].config = config
  BY <1>1, PressWrites DEF Written
<1>3. PICK q \in DOMAIN evidence : /\ evidence[q].type = t /\ evidence[q].status = "PASS"
                                   /\ evidence[q].config = config
  BY PassedRow
<1> HIDE DEF n
<1>4. After(evidence', n, t)
  BY <1>2, <1>3 DEF After
<1>5. Earned(evidence', n)
  BY <1>2, <1>4 DEF Earned
<1> QED
  BY <1>1, <1>5, PressCommon DEF n

LEMMA EvidenceKept ==
  ASSUME NotLater, AllEarned, evidence' = evidence, today \in Nat, today' \in Nat,
         today' >= today, evidence \in Seq(Row)
  PROVE  NotLater' /\ AllEarned' /\ (InOrder => InOrder')
<1>1. \A i \in DOMAIN evidence : evidence[i].at \in Nat
  BY RowFields
<1>2. NotLater'
  BY <1>1 DEF NotLater
<1>3. AllEarned' /\ (InOrder => InOrder')
  BY DEF AllEarned, InOrder
<1> QED
  BY <1>2, <1>3

LEMMA RowsKept ==
  ASSUME WorkflowInv, JobsInv', UNCHANGED workflowVars PROVE WorkflowInv'
<1>1. UNCHANGED <<evidence, today, config, files>>
  BY DEF workflowVars
<1>2. WorkflowTypeOK'
  BY <1>1 DEF WorkflowInv, JobsInv, WorkflowTypeOK
<1>3. NotLater' /\ InOrder' /\ AllEarned'
  BY <1>1 DEF WorkflowInv, NotLater, InOrder, AllEarned
<1> QED
  BY <1>2, <1>3 DEF WorkflowInv

LEMMA PressInv ==
  ASSUME WorkflowInv, NEW k \in Keys, Press(k) PROVE WorkflowInv'
<1>1. CASE \E a \in DOMAIN CommandOf : PressRun(a, k)
  <2>1. PICK a \in DOMAIN CommandOf : PressRun(a, k)
    BY <1>1
  <2>2. a \in Namespaces
    BY DEF CommandOf, Namespaces
  <2>3. PICK c \in Commands : c = CommandOf[a] /\ Start(c, <<a, k>>, FALSE)
    BY <2>1 DEF PressRun
  <2>4. /\ <<a, k>> \in Namespaces \X Keys /\ <<a, k>> \notin answers
        /\ UNCHANGED <<schema, dbUp, workflowVars>> /\ repo' = Ensured
    BY <2>1, <2>2 DEF PressRun
  <2>5. JobsInv'
    BY <2>3, <2>4, StartInv, EnsuredBool DEF WorkflowInv, JobsInv
  <2> QED
    BY <2>4, <2>5, RowsKept
<1>2. CASE RecordCi(k)
  BY <1>2, RecordCiInv
<1>3. CASE StartPaper(k)
  BY <1>3, StartPaperInv
<1>4. CASE RecordPaperPass(k)
  BY <1>4, RecordPaperInv
<1>5. CASE RecordSecurity(k)
  <2>1. PressRecord("record_security_pass", k, "SECURITY", "PASS", Null, Null)
        /\ "record_security_pass" \in Namespaces
    BY <1>5 DEF RecordSecurity, Namespaces
  <2>2. Passed("PHASE0_PAPER")
    BY <2>1 DEF PressRecord, Offers, PaperPass
  <2> QED
    BY <2>1, <2>2, RecordNextInv
<1>6. CASE RecordReconciliation(k)
  <2>1. PressRecord("record_reconciliation_pass", k, "RECONCILIATION", "PASS", Null, Null)
        /\ "record_reconciliation_pass" \in Namespaces
    BY <1>6 DEF RecordReconciliation, Namespaces
  <2>2. Passed("SECURITY")
    BY <2>1 DEF PressRecord, Offers, SecurityOk
  <2> QED
    BY <2>1, <2>2, RecordNextInv
<1>7. CASE RecordGo(k)
  <2>1. PressRecord("record_go_no_go_pass", k, "GO_NO_GO", "PASS", Null, Null)
        /\ "record_go_no_go_pass" \in Namespaces
    BY <1>7 DEF RecordGo, Namespaces
  <2>2. Passed("RECONCILIATION")
    BY <1>7 DEF RecordGo, Prerequisites, RecOk
  <2> QED
    BY <2>1, <2>2, RecordNextInv
<1> QED
  BY <1>1, <1>2, <1>3, <1>4, <1>5, <1>6, <1>7 DEF Press

-----------------------------------------------------------------------------
(* The other steps                                                         *)

LEMMA CliRecordInv ==
  ASSUME WorkflowInv, NEW r \in CliRows, CliRecord(r) PROVE WorkflowInv'
<1>1. /\ r.type \in EvidenceTypes /\ r.status \in Statuses
      /\ r.started \in Nat /\ r.ended \in Nat /\ files \in Configs
  BY CliRowsAssumption DEF WorkflowInv, WorkflowTypeOK
<1>2. Insert(r.type, r.status, files, r.started, r.ended, "cli")
      /\ UNCHANGED <<jobVars, today, config, files>>
  BY DEF CliRecord
<1>3. /\ evidence' \in Seq(Row) /\ NotLater' /\ InOrder'
      /\ DOMAIN evidence' = DOMAIN evidence \union {Len(evidence) + 1}
      /\ evidence'[Len(evidence) + 1].by = "cli"
      /\ \A i \in DOMAIN evidence : Earned(evidence', i)
  BY <1>1, <1>2, InsertRow DEF WorkflowInv
<1>4. Earned(evidence', Len(evidence) + 1)
  BY <1>3 DEF Earned
<1>5. AllEarned'
  BY <1>3, <1>4 DEF AllEarned
<1>6. JobsInv'
  BY <1>2, StepJobs DEF WorkflowInv, jobVars
<1>7. WorkflowTypeOK'
  BY <1>2, <1>3, <1>6 DEF WorkflowInv, WorkflowTypeOK, JobsInv
<1> QED
  BY <1>3, <1>5, <1>6, <1>7 DEF WorkflowInv

LEMMA InitWorkflow == WorkflowInit => WorkflowInv
<1> SUFFICES ASSUME WorkflowInit PROVE WorkflowInv
  OBVIOUS
<1>1. JobsInv
  BY InitJobs DEF WorkflowInit
<1>2. evidence = <<>> /\ today = 1 /\ files \in Configs /\ config \in Configs
  BY DEF WorkflowInit
<1>3. WorkflowTypeOK
  BY <1>1, <1>2, DaysAssumption DEF JobsInv, WorkflowTypeOK
<1>4. NotLater /\ InOrder /\ AllEarned
  BY <1>2 DEF NotLater, InOrder, AllEarned
<1> QED
  BY <1>1, <1>3, <1>4 DEF WorkflowInv

LEMMA StepWorkflow == ASSUME WorkflowInv, [WorkflowNext]_vars PROVE WorkflowInv'
<1>1. CASE \E k \in Keys : Press(k)
  BY <1>1, PressInv
<1>2. CASE \E r \in CliRows : CliRecord(r)
  BY <1>2, CliRecordInv
<1>3. CASE JobStep
  <2>1. Next
    BY <1>3 DEF JobStep, Next
  <2>2. JobsInv'
    BY <2>1, StepJobs DEF WorkflowInv
  <2> QED
    BY <1>3, <2>2, RowsKept DEF JobStep
<1>4. CASE RestartBackend
  <2>1. Next
    BY <1>4 DEF RestartBackend, Next
  <2>2. JobsInv'
    BY <2>1, StepJobs DEF WorkflowInv
  <2>3. UNCHANGED <<evidence, today, files>> /\ config' = files
    BY <1>4 DEF RestartBackend
  <2>4. WorkflowTypeOK'
    BY <2>2, <2>3 DEF WorkflowInv, JobsInv, WorkflowTypeOK
  <2>5. NotLater' /\ InOrder' /\ AllEarned'
    BY <2>3, EvidenceKept DEF WorkflowInv, WorkflowTypeOK
  <2> QED
    BY <2>2, <2>4, <2>5 DEF WorkflowInv
<1>5. CASE DayPasses
  <2>1. UNCHANGED <<jobVars, evidence, config, files>> /\ today' = today + 1
        /\ today < MaxDay
    BY <1>5 DEF DayPasses
  <2>2. JobsInv'
    BY <2>1, StepJobs DEF WorkflowInv
  <2>3. WorkflowTypeOK'
    BY <2>1, <2>2, DaysAssumption DEF WorkflowInv, JobsInv, WorkflowTypeOK
  <2>4. today \in Nat /\ today' >= today
    BY <2>1 DEF WorkflowInv, WorkflowTypeOK
  <2>5. NotLater' /\ InOrder' /\ AllEarned'
    BY <2>1, <2>4, EvidenceKept DEF WorkflowInv, WorkflowTypeOK
  <2> QED
    BY <2>2, <2>3, <2>5 DEF WorkflowInv
<1>6. CASE EditFiles
  <2>1. UNCHANGED <<jobVars, evidence, today, config>> /\ files' \in Configs
    BY <1>6 DEF EditFiles
  <2>2. JobsInv'
    BY <2>1, StepJobs DEF WorkflowInv
  <2>3. WorkflowTypeOK'
    BY <2>1, <2>2 DEF WorkflowInv, JobsInv, WorkflowTypeOK
  <2>4. NotLater' /\ InOrder' /\ AllEarned'
    BY <2>1, EvidenceKept DEF WorkflowInv, WorkflowTypeOK
  <2> QED
    BY <2>2, <2>3, <2>4 DEF WorkflowInv
<1>7. CASE UNCHANGED vars
  <2>1. UNCHANGED jobVars /\ UNCHANGED workflowVars
    BY <1>7 DEF vars, workflowVars
  <2>2. JobsInv'
    BY <2>1, StepJobs DEF WorkflowInv
  <2> QED
    BY <2>1, <2>2, RowsKept
<1> QED
  BY <1>1, <1>2, <1>3, <1>4, <1>5, <1>6, <1>7 DEF WorkflowNext

LEMMA WorkflowInvariance == WorkflowSpec => []WorkflowInv
<1> QED
  BY InitWorkflow, StepWorkflow, PTL DEF WorkflowSpec

-----------------------------------------------------------------------------
(* What follows                                                            *)

\* Rows, dates and hashes keep their types (run_workflow_action).
THEOREM WorkflowTypes == WorkflowSpec => []WorkflowTypeOK
<1>1. WorkflowInv => WorkflowTypeOK
  BY DEF WorkflowInv
<1> QED
  BY <1>1, WorkflowInvariance, PTL

\* What is proved of the jobs alone stays true beside the panel, whose
\* buttons share the answered keys with the command route (IDEMPOTENCY).
THEOREM JobsBesideWorkflow == WorkflowSpec => [](OneJobPerRequest /\ WeakTriggerHasCulprit)
<1>1. WorkflowInv => OneJobPerRequest /\ WeakTriggerHasCulprit
  BY DEF WorkflowInv, JobsInv
<1> QED
  BY <1>1, WorkflowInvariance, PTL

\* A job that has ended stays as it ended beside the panel too
\* (OperatorJobRunner._run_job).
THEOREM EndedBesideWorkflow == WorkflowSpec => EndedStaysEnded
<1>1. WorkflowInv /\ [WorkflowNext]_vars =>
        [\A j \in DOMAIN jobs : jobs[j].status \in Ended =>
           j \in DOMAIN jobs' /\ jobs'[j] = jobs[j]]_jobVars
  <2> SUFFICES ASSUME WorkflowInv, [WorkflowNext]_vars
               PROVE  \A j \in DOMAIN jobs : jobs[j].status \in Ended =>
                        j \in DOMAIN jobs' /\ jobs'[j] = jobs[j]
    OBVIOUS
  <2>1. CASE [Next]_jobVars
    BY <2>1, StepKeepsEnded DEF WorkflowInv
  <2>2. CASE \E k \in Keys, a \in DOMAIN CommandOf : PressRun(a, k)
    <3>1. PICK k \in Keys, a \in DOMAIN CommandOf : PressRun(a, k)
      BY <2>2
    <3>2. PICK c \in Commands : Start(c, <<a, k>>, FALSE)
      BY <3>1 DEF PressRun
    <3>3. <<a, k>> \in Namespaces \X Keys
      BY DEF CommandOf, Namespaces
    <3> QED
      BY <3>2, <3>3, StartKeepsEnded DEF WorkflowInv
  <2>3. CASE jobs' = jobs
    BY <2>3
  <2>4. JobStep \/ RestartBackend => Next
    BY DEF JobStep, RestartBackend, Next
  <2>5. DayPasses \/ EditFiles \/ (\E r \in CliRows : CliRecord(r)) \/ UNCHANGED vars
          => jobs' = jobs
    BY DEF DayPasses, EditFiles, CliRecord, vars, jobVars
  <2>6. ASSUME NEW k \in Keys, Press(k)
        PROVE  jobs' = jobs \/ \E a \in DOMAIN CommandOf : PressRun(a, k)
    BY <2>6 DEF Press, PressRecord, RecordCi, StartPaper, RecordPaperPass, RecordSecurity,
       RecordReconciliation, RecordGo
  <2> QED
    BY <2>1, <2>2, <2>3, <2>4, <2>5, <2>6 DEF WorkflowNext
<1> QED
  BY <1>1, WorkflowInvariance, PTL DEF WorkflowSpec, EndedStaysEnded

LEMMA EarnedChain == ASSUME WorkflowInv PROVE GoIsEarned
<1> SUFFICES ASSUME NEW c \in Configs, PanelOnly(c), NEW g \in PassedRows("GO_NO_GO", c)
             PROVE  \E p \in RowsOf("PHASE0_PAPER", c), q \in PassedRows("PHASE0_PAPER", c),
                       s \in PassedRows("SECURITY", c), r \in PassedRows("RECONCILIATION", c) :
                      /\ p < q /\ q < s /\ s < r /\ r < g
                      /\ evidence[p].status = "PENDING"
                      /\ evidence[q].started = evidence[p].at
                      /\ evidence[q].at >= evidence[p].at + DaysRequired
  BY DEF GoIsEarned
<1>1. ASSUME NEW i \in DOMAIN evidence, evidence[i].config = c
      PROVE  evidence[i].by = "panel" /\ Earned(evidence, i)
  BY <1>1 DEF PanelOnly, WorkflowInv, AllEarned
<1>2. g \in DOMAIN evidence /\ evidence[g].type = "GO_NO_GO" /\ evidence[g].config = c
  BY DEF PassedRows, RowsOf
<1>3. PICK r \in DOMAIN evidence : r < g /\ evidence[r].type = "RECONCILIATION"
                                   /\ evidence[r].status = "PASS" /\ evidence[r].config = c
  BY <1>1, <1>2 DEF Earned, After
<1>4. PICK s \in DOMAIN evidence : s < r /\ evidence[s].type = "SECURITY"
                                   /\ evidence[s].status = "PASS" /\ evidence[s].config = c
  BY <1>1, <1>3 DEF Earned, After
<1>5. PICK q \in DOMAIN evidence : q < s /\ evidence[q].type = "PHASE0_PAPER"
                                   /\ evidence[q].status = "PASS" /\ evidence[q].config = c
  BY <1>1, <1>4 DEF Earned, After
<1>6. Closes(evidence, q)
  BY <1>1, <1>5 DEF Earned, Opens
<1>7. PICK p \in DOMAIN evidence :
        /\ p < q /\ evidence[p].type = "PHASE0_PAPER" /\ evidence[p].config = c
        /\ evidence[q].started = evidence[p].started
        /\ evidence[p].by = "panel" =>
             evidence[p].status = "PENDING" /\ evidence[p].started = evidence[p].at
             /\ evidence[q].at >= evidence[p].at + DaysRequired
  BY <1>5, <1>6 DEF Closes
<1>8. evidence[p].by = "panel"
  BY <1>1, <1>7
<1>9. /\ p \in RowsOf("PHASE0_PAPER", c) /\ q \in PassedRows("PHASE0_PAPER", c)
      /\ s \in PassedRows("SECURITY", c) /\ r \in PassedRows("RECONCILIATION", c)
  BY <1>3, <1>4, <1>5, <1>7 DEF RowsOf, PassedRows
<1> QED
  BY <1>3, <1>4, <1>5, <1>7, <1>8, <1>9

\* A GO/NO-GO of the panel has behind it, in order and of one configuration,
\* a whole paper period, security and reconciliation (run_workflow_action).
THEOREM GoEarned == WorkflowSpec => []GoIsEarned
<1>1. WorkflowInv => GoIsEarned
  BY EarnedChain
<1> QED
  BY <1>1, WorkflowInvariance, PTL

-----------------------------------------------------------------------------
(* The two readings of the rows                                            *)

LEMMA SameReading ==
  ASSUME WorkflowInv, MinPaperDays <= DaysRequired PROVE GreenPanelOpensGate
<1> SUFFICES ASSUME \A t \in EvidenceTypes : Passed(t),
                    \A i \in RowsOf("PHASE0_PAPER", config) : evidence[i].by = "panel"
             PROVE  LiveEvidence(config)
  BY DEF GreenPanelOpensGate
<1>1. \A t \in EvidenceTypes : PassedRows(t, config) # {}
  BY DEF Passed, NewestIs, PassedRows
<1>2. PICK i \in DOMAIN evidence : /\ NewestIs("PHASE0_PAPER", i)
                                   /\ evidence[i].status = "PASS"
  BY DEF Passed, EvidenceTypes
\* Every passed paper row closes a period of the panel.
<1>3. ASSUME NEW k \in PassedRows("PHASE0_PAPER", config)
      PROVE  /\ k \in DOMAIN evidence /\ evidence[k].ended = evidence[k].at
             /\ evidence[k].started # Null
             /\ evidence[k].at >= evidence[k].started + DaysRequired
  <2>1. /\ k \in RowsOf("PHASE0_PAPER", config) /\ k \in DOMAIN evidence
        /\ evidence[k].status = "PASS" /\ evidence[k].type = "PHASE0_PAPER"
        /\ evidence[k].config = config
    BY DEF PassedRows, RowsOf
  <2>2. Closes(evidence, k)
    BY <2>1 DEF WorkflowInv, AllEarned, Earned, Opens
  <2>3. PICK p \in DOMAIN evidence :
          /\ evidence[p].type = "PHASE0_PAPER" /\ evidence[p].config = config
          /\ evidence[k].started = evidence[p].started /\ evidence[k].ended = evidence[k].at
          /\ evidence[p].by = "panel" =>
               evidence[p].status = "PENDING" /\ evidence[p].started = evidence[p].at
               /\ evidence[k].at >= evidence[p].at + DaysRequired
    BY <2>1, <2>2 DEF Closes
  <2>4. evidence[p].by = "panel"
    BY <2>3 DEF RowsOf
  <2>5. Opens(evidence, p)
    BY <2>3, <2>4 DEF WorkflowInv, AllEarned, Earned
  <2> QED
    BY <2>1, <2>3, <2>4, <2>5 DEF Opens
<1>4. i \in PassedRows("PHASE0_PAPER", config)
  BY <1>2 DEF NewestIs, PassedRows
<1>5. \A k \in PassedRows("PHASE0_PAPER", config) : evidence[k].at <= evidence[i].at
  BY <1>2, <1>3 DEF NewestIs, PassedRows, WorkflowInv, InOrder
<1>6. evidence[i].ended # Null
      /\ evidence[i].ended >= evidence[i].started + MinPaperDays
  <2>1. evidence[i].at \in Nat /\ evidence[i].started \in Nat
    BY <1>2, RowFields DEF WorkflowInv, WorkflowTypeOK
  <2> QED
    BY <1>3, <1>4, <2>1, DaysAssumption DEF Null
<1>7. PaperVerified(config)
  BY <1>3, <1>4, <1>5, <1>6 DEF PaperVerified
<1> QED
  BY <1>1, <1>7 DEF LiveEvidence

\* If the gate asks for no longer period than the panel, a green panel means
\* complete evidence at the gate (live_evidence_status).
THEOREM GreenIsOpen ==
  ASSUME MinPaperDays <= DaysRequired
  PROVE  WorkflowSpec => []GreenPanelOpensGate
<1>1. WorkflowInv => GreenPanelOpensGate
  BY SameReading
<1> QED
  BY <1>1, WorkflowInvariance, PTL

-----------------------------------------------------------------------------
(* What the gate has accepted                                              *)

\* A row that takes evidence away is a passed period the gate finds short, and
\* none ended later: otherwise the row that ended last stays the measured one,
\* or the new one is measured and long enough.
LEMMA RowTakesAway ==
  ASSUME evidence \in Seq(Row), NEW row \in Row, evidence' = Append(evidence, row),
         NEW c \in Configs, LiveEvidence(c), ~LiveEvidence(c)'
  PROVE  /\ evidence'[Len(evidence')] = row /\ ShortPass(row) /\ row.config = c
         /\ \A k \in PassedRows("PHASE0_PAPER", c) :
              evidence[k].started # Null => evidence[k].ended <= row.ended
<1> DEFINE n == Len(evidence) + 1
           dated == {i \in PassedRows("PHASE0_PAPER", c) :
                       evidence[i].started # Null /\ evidence[i].ended # Null}
           datedNext == {i \in PassedRows("PHASE0_PAPER", c)' :
                           evidence'[i].started # Null /\ evidence'[i].ended # Null}
<1>1. /\ evidence' \in Seq(Row) /\ DOMAIN evidence' = DOMAIN evidence \union {n}
      /\ n \notin DOMAIN evidence /\ evidence'[n] = row /\ Len(evidence') = n
      /\ \A i \in DOMAIN evidence : evidence'[i] = evidence[i]
  BY Appended
<1> HIDE DEF n
<1>2. \A t \in EvidenceTypes : PassedRows(t, c) \subseteq PassedRows(t, c)'
  BY <1>1 DEF PassedRows, RowsOf
<1>3. ~PaperVerified(c)'
  BY <1>2 DEF LiveEvidence
<1>4. dated \subseteq DOMAIN evidence /\ dated \subseteq datedNext
      /\ datedNext \subseteq dated \union {n}
  BY <1>1 DEF PassedRows, RowsOf
<1>5. \A k \in dated : evidence'[k] = evidence[k]
  BY <1>1, <1>4
<1>6. /\ row.ended \in Nat /\ row.started \in Nat /\ MinPaperDays \in Nat
      /\ \A k \in dated : evidence[k].ended \in Nat
      /\ \A k \in PassedRows("PHASE0_PAPER", c) : evidence[k].ended \in Nat
  BY <1>1, <1>4, RowFields, DaysAssumption DEF Row, PassedRows, RowsOf
<1>7. ~\E m \in datedNext :
        /\ \A k \in datedNext : evidence'[k].ended <= evidence'[m].ended
        /\ evidence'[m].ended >= evidence'[m].started + MinPaperDays
  BY <1>3 DEF PaperVerified
<1>8. datedNext = {} => MinPaperDays # 0
  BY <1>3 DEF PaperVerified
<1>9. \/ dated = {} /\ MinPaperDays = 0
      \/ \E i \in dated : /\ \A k \in dated : evidence[k].ended <= evidence[i].ended
                          /\ evidence[i].ended >= evidence[i].started + MinPaperDays
  BY DEF LiveEvidence, PaperVerified
<1>10. n \in datedNext /\ \A k \in dated : evidence[k].ended <= row.ended
  <2> HIDE DEF dated, datedNext
  <2>1. ASSUME NEW i \in dated, \A k \in dated : evidence[k].ended <= evidence[i].ended,
               evidence[i].ended >= evidence[i].started + MinPaperDays
        PROVE  n \in datedNext /\ row.ended > evidence[i].ended
    <3>1. SUFFICES ASSUME ~(n \in datedNext /\ row.ended > evidence[i].ended) PROVE FALSE
      OBVIOUS
    <3>2. \A k \in datedNext : evidence'[k].ended <= evidence'[i].ended
      BY <1>1, <1>4, <1>5, <1>6, <2>1, <3>1
    <3> QED
      BY <1>4, <1>5, <1>7, <2>1, <3>2
  <2>2. CASE \E i \in dated : /\ \A k \in dated : evidence[k].ended <= evidence[i].ended
                              /\ evidence[i].ended >= evidence[i].started + MinPaperDays
    <3>1. PICK i \in dated : n \in datedNext /\ row.ended > evidence[i].ended
                            /\ \A k \in dated : evidence[k].ended <= evidence[i].ended
      BY <2>1, <2>2
    <3> QED
      BY <1>6, <3>1
  <2>3. CASE dated = {} /\ MinPaperDays = 0
    BY <1>4, <1>8, <2>3
  <2> QED
    BY <1>9, <2>2, <2>3
<1>11. /\ row.type = "PHASE0_PAPER" /\ row.status = "PASS" /\ row.config = c
       /\ row.started # Null /\ row.ended # Null
  BY <1>1, <1>10 DEF PassedRows, RowsOf
<1>12. row.ended < row.started + MinPaperDays
  <2> HIDE DEF dated, datedNext
  <2>1. \A k \in datedNext : evidence'[k].ended <= evidence'[n].ended
    BY <1>1, <1>4, <1>5, <1>6, <1>10
  <2>2. ~(evidence'[n].ended >= evidence'[n].started + MinPaperDays)
    BY <1>7, <1>10, <2>1
  <2>3. ~(row.ended >= row.started + MinPaperDays)
    BY <1>1, <2>2
  <2>4. PICK e \in Nat, b \in Nat, d \in Nat :
          e = row.ended /\ b = row.started /\ d = MinPaperDays
    BY <1>6
  <2>5. ~(e >= b + d)
    BY <2>3, <2>4
  <2>6. e < b + d
    BY <2>5
  <2> QED
    BY <2>4, <2>6
<1>13. ASSUME NEW k \in PassedRows("PHASE0_PAPER", c), evidence[k].started # Null
       PROVE  evidence[k].ended <= row.ended
  BY <1>6, <1>10, <1>13 DEF Null
<1> QED
  BY <1>1, <1>11, <1>12, <1>13 DEF ShortPass

\* The period the panel passes is long for the gate as well, unless the
\* command line claimed its end ahead of time: it runs until today, and what
\* it was measured by is no later.
LEMMA PassedIsLong ==
  ASSUME WorkflowInv, MinPaperDays <= DaysRequired,
         NEW p \in DOMAIN evidence, evidence[p].type = "PHASE0_PAPER",
         evidence[p].status # "PASS", PaperDays(evidence[p]) >= DaysRequired
  PROVE  EndsAhead(evidence[p]) \/ today >= evidence[p].started + MinPaperDays
<1> SUFFICES ASSUME ~EndsAhead(evidence[p])
             PROVE  today >= evidence[p].started + MinPaperDays
  OBVIOUS
<1>1. /\ today \in Nat /\ evidence[p].started \in Nat /\ evidence[p].ended \in Nat
      /\ evidence[p].by \in {"panel", "cli"}
  BY RowFields DEF WorkflowInv, WorkflowTypeOK
<1>2. evidence[p].ended <= today
  <2>1. CASE evidence[p].by = "panel"
    BY <1>1, <2>1 DEF WorkflowInv, AllEarned, Earned, Opens, Null
  <2>2. CASE evidence[p].by = "cli"
    BY <1>1, <2>2 DEF EndsAhead
  <2> QED
    BY <1>1, <2>1, <2>2
<1> QED
  BY <1>1, <1>2, DaysAssumption DEF PaperDays

LEMMA EvidenceLost ==
  ASSUME WorkflowInv, MinPaperDays <= DaysRequired, [WorkflowNext]_vars,
         NEW c \in Configs, LiveEvidence(c), ~LiveEvidence(c)'
  PROVE  LET new == evidence'[Len(evidence')]
         IN  /\ ShortPass(new) /\ new.config = c
             /\ \A i \in PassedRows("PHASE0_PAPER", c) :
                  evidence[i].started # Null => evidence[i].ended <= new.ended
             /\ \/ new.by = "cli"
                \/ \E i \in RowsOf("PHASE0_PAPER", c) :
                     EndsAhead(evidence[i]) /\ evidence[i].started = new.started
<1> DEFINE Lost ==
      LET new == evidence'[Len(evidence')]
      IN  /\ ShortPass(new) /\ new.config = c
          /\ \A i \in PassedRows("PHASE0_PAPER", c) :
               evidence[i].started # Null => evidence[i].ended <= new.ended
          /\ \/ new.by = "cli"
             \/ \E i \in RowsOf("PHASE0_PAPER", c) :
                  EndsAhead(evidence[i]) /\ evidence[i].started = new.started
<1> SUFFICES Lost
  OBVIOUS
<1>1. evidence \in Seq(Row) /\ today \in Nat /\ config \in Configs /\ files \in Configs
  BY DEF WorkflowInv, WorkflowTypeOK
<1>2. ~UNCHANGED evidence
  BY DEF LiveEvidence, PaperVerified, PassedRows, RowsOf
\* What a step that inserts has to show of its row.
<1>3. ASSUME NEW type \in EvidenceTypes, NEW status \in Statuses, NEW d \in Configs,
             NEW started \in Nat, NEW ended \in Nat, NEW by \in {"panel", "cli"},
             Insert(type, status, d, started, ended, by),
             \/ ended = Null
             \/ ended >= started + MinPaperDays
             \/ by = "cli"
             \/ d = c => \E i \in RowsOf("PHASE0_PAPER", c) :
                          EndsAhead(evidence[i]) /\ evidence[i].started = started
      PROVE  Lost
  <2> DEFINE row == [type |-> type, status |-> status, config |-> d, started |-> started,
                     ended |-> ended, at |-> today, by |-> by]
  <2>1. /\ row \in Row /\ row.started = started /\ row.ended = ended
        /\ row.config = d /\ row.by = by
    BY <1>1 DEF Row
  <2>2. evidence' = Append(evidence, row)
    BY <1>3 DEF Insert
  <2> HIDE DEF row
  <2>3. /\ evidence'[Len(evidence')] = row /\ ShortPass(row) /\ row.config = c
        /\ \A k \in PassedRows("PHASE0_PAPER", c) :
             evidence[k].started # Null => evidence[k].ended <= row.ended
    BY <1>1, <2>1, <2>2, RowTakesAway
  <2>4. \/ row.by = "cli"
        \/ \E i \in RowsOf("PHASE0_PAPER", c) :
             EndsAhead(evidence[i]) /\ evidence[i].started = row.started
    BY <1>3, <2>1, <2>3, DaysAssumption DEF ShortPass
  <2> QED
    BY <2>3, <2>4
<1> HIDE DEF Lost
<1>4. CASE \E r \in CliRows : CliRecord(r)
  <2>1. PICK r \in CliRows : Insert(r.type, r.status, files, r.started, r.ended, "cli")
    BY <1>4 DEF CliRecord
  <2>2. /\ r.type \in EvidenceTypes /\ r.status \in Statuses
        /\ r.started \in Nat /\ r.ended \in Nat
    BY CliRowsAssumption
  <2> QED
    BY <1>1, <1>3, <2>1, <2>2
<1>5. CASE \E k \in Keys : RecordPaperPass(k)
  <2>1. PICK k \in Keys, p \in DOMAIN evidence :
          /\ NewestIs("PHASE0_PAPER", p) /\ PaperDays(evidence[p]) >= DaysRequired
          /\ PressRecord("record_phase0_paper_pass", k, "PHASE0_PAPER", "PASS",
                         evidence[p].started, today)
    BY <1>5 DEF RecordPaperPass
  <2>2. Offers("record_phase0_paper_pass") /\ evidence[p].started \in Nat
        /\ Insert("PHASE0_PAPER", "PASS", config, evidence[p].started, today, "panel")
    BY <1>1, <2>1, RowFields DEF PressRecord
  <2>3. evidence[p].type = "PHASE0_PAPER" /\ evidence[p].status # "PASS"
        /\ p \in RowsOf("PHASE0_PAPER", config)
    BY <2>1, <2>2 DEF Offers, PaperPass, Passed, NewestIs, RowsOf
  <2>4. EndsAhead(evidence[p]) \/ today >= evidence[p].started + MinPaperDays
    BY <2>1, <2>3, PassedIsLong
  <2> QED
    BY <1>1, <1>3, <2>2, <2>3, <2>4 DEF EvidenceTypes, Statuses
<1>6. CASE \E a, k, started, ended : \E type \in EvidenceTypes, status \in Statuses :
               /\ PressRecord(a, k, type, status, started, ended)
               /\ started \in Nat /\ ended = Null
  <2>1. PICK started \in Nat, type \in EvidenceTypes, status \in Statuses :
               Insert(type, status, config, started, Null, "panel")
    BY <1>6 DEF PressRecord
  <2> QED
    BY <1>1, <1>3, <2>1 DEF Null
<1>7. ASSUME NEW k \in Keys,
             RecordCi(k) \/ StartPaper(k) \/ RecordSecurity(k) \/ RecordReconciliation(k)
             \/ RecordGo(k)
      PROVE  Lost
  BY <1>1, <1>6, <1>7 DEF RecordCi, StartPaper, RecordSecurity, RecordReconciliation,
     RecordGo, EvidenceTypes, Statuses, Null
<1>8. ASSUME NEW k \in Keys, NEW a \in DOMAIN CommandOf, PressRun(a, k)
      PROVE  UNCHANGED evidence
  BY <1>8 DEF PressRun, workflowVars
<1>9. JobStep \/ RestartBackend \/ DayPasses \/ EditFiles \/ UNCHANGED vars
        => UNCHANGED evidence
  BY DEF JobStep, RestartBackend, DayPasses, EditFiles, vars, workflowVars
<1> QED
  BY <1>2, <1>4, <1>5, <1>7, <1>8, <1>9 DEF WorkflowNext, Press

\* If the gate asks for no longer period than the panel, complete evidence is
\* taken away by a short passed period only, and the command line has a hand
\* in it (live_evidence_status, record_phase0_paper_pass).
THEOREM EvidenceLostByShortPass ==
  ASSUME MinPaperDays <= DaysRequired
  PROVE  WorkflowSpec => OnlyShortPassLosesEvidence
<1>1. ASSUME WorkflowInv, [WorkflowNext]_vars
      PROVE  [\A c \in Configs : LiveEvidence(c) /\ ~LiveEvidence(c)' =>
                LET new == evidence'[Len(evidence')]
                IN  /\ ShortPass(new) /\ new.config = c
                    /\ \A i \in PassedRows("PHASE0_PAPER", c) :
                         evidence[i].started # Null => evidence[i].ended <= new.ended
                    /\ \/ new.by = "cli"
                       \/ \E i \in RowsOf("PHASE0_PAPER", c) :
                            EndsAhead(evidence[i]) /\ evidence[i].started = new.started]_vars
  BY <1>1, EvidenceLost
<1> QED
  BY <1>1, WorkflowInvariance, PTL DEF WorkflowSpec, OnlyShortPassLosesEvidence

-----------------------------------------------------------------------------
(* The way forward                                                         *)

LEMMA ForwardStep ==
  ASSUME WorkflowInv PROVE OnlyCommandLineStrandsPanel
<1> DEFINE Stranding(i) ==
      /\ NewestIs("PHASE0_PAPER", i)
      /\ evidence[i].by = "cli" /\ evidence[i].status # "PASS"
      /\ PaperDays(evidence[i]) < DaysRequired
<1> SUFFICES ASSUME DbOk, ~PaperRuns, ~\E i \in DOMAIN evidence : Stranding(i)
             PROVE  \E a \in Namespaces : Accepts(a)
  BY DEF OnlyCommandLineStrandsPanel
<1>1. CASE ~ValidateOk
  <2>1. Accepts("run_validate") /\ "run_validate" \in Namespaces
    BY <1>1 DEF Accepts, Offers, Namespaces
  <2> QED
    BY <2>1
<1>2. CASE ValidateOk /\ ~CiOk
  <2>1. Accepts("record_ci_pass") /\ "record_ci_pass" \in Namespaces
    BY <1>2 DEF Accepts, Offers, Namespaces
  <2> QED
    BY <2>1
<1>3. CASE ValidateOk /\ CiOk /\ ~TestnetOk
  <2>1. Accepts("run_testnet_preflight") /\ "run_testnet_preflight" \in Namespaces
    BY <1>3 DEF Accepts, Offers, Namespaces
  <2> QED
    BY <2>1
<1>4. CASE TestnetOk /\ ~PaperStarted
  <2>1. Accepts("start_phase0_paper") /\ "start_phase0_paper" \in Namespaces
    BY <1>4 DEF Accepts, Offers, Namespaces
  <2> QED
    BY <2>1
\* A paper row of the panel that is not passed runs; one of the command line
\* has days enough.
<1>5. PaperStarted /\ ~PaperPass => PaperDone
  <2> SUFFICES ASSUME PaperStarted, ~PaperPass PROVE PaperDone
    OBVIOUS
  <2>1. PICK i \in DOMAIN evidence : NewestIs("PHASE0_PAPER", i)
    BY DEF PaperStarted
  <2>2. evidence[i].status # "PASS" /\ evidence[i].type = "PHASE0_PAPER"
    BY <2>1 DEF PaperPass, Passed, NewestIs, RowsOf
  <2>3. evidence[i].by \in {"panel", "cli"} /\ PaperDays(evidence[i]) \in Nat
    <3>1. /\ evidence[i].started \in Nat /\ evidence[i].ended \in Nat
          /\ today \in Nat /\ evidence[i].by \in {"panel", "cli"}
      BY RowFields DEF WorkflowInv, WorkflowTypeOK
    <3> QED
      BY <3>1 DEF PaperDays
  <2>4. evidence[i].by # "panel"
    BY <2>1, <2>2 DEF WorkflowInv, AllEarned, Earned, Opens, PaperRuns
  <2> QED
    BY <2>1, <2>2, <2>3, <2>4, DaysAssumption DEF PaperDone
<1>10. CASE PaperStarted /\ ~PaperPass
  <2>1. Accepts("record_phase0_paper_pass") /\ "record_phase0_paper_pass" \in Namespaces
    BY <1>5, <1>10 DEF Accepts, Offers, Namespaces
  <2> QED
    BY <2>1
<1>6. CASE PaperPass /\ ~SecurityOk
  <2>1. Accepts("record_security_pass") /\ "record_security_pass" \in Namespaces
    BY <1>6 DEF Accepts, Offers, Namespaces
  <2> QED
    BY <2>1
<1>7. CASE SecurityOk /\ ~RecOk
  <2>1. Accepts("record_reconciliation_pass") /\ "record_reconciliation_pass" \in Namespaces
    BY <1>7 DEF Accepts, Offers, Namespaces
  <2> QED
    BY <2>1
<1>8. CASE ValidateOk /\ TestnetOk /\ PaperPass /\ SecurityOk /\ RecOk /\ ~GoOk
  <2>1. Accepts("record_go_no_go_pass") /\ "record_go_no_go_pass" \in Namespaces
    BY <1>8 DEF Accepts, Offers, Namespaces, Prerequisites
  <2> QED
    BY <2>1
<1>9. CASE GoOk
  <2>1. Accepts("run_live_preflight") /\ "run_live_preflight" \in Namespaces
    BY <1>9 DEF Accepts, Offers, Namespaces
  <2> QED
    BY <2>1
<1> QED
  BY <1>1, <1>2, <1>3, <1>4, <1>6, <1>7, <1>8, <1>9, <1>10

\* The panel is stranded by a paper row of the command line and by nothing
\* else, for all rows the command line may record (build_workflow).
THEOREM StrandedByCommandLine == WorkflowSpec => []OnlyCommandLineStrandsPanel
<1>1. WorkflowInv => OnlyCommandLineStrandsPanel
  BY ForwardStep
<1> QED
  BY <1>1, WorkflowInvariance, PTL

-----------------------------------------------------------------------------
(* GO/NO-GO and the CI evidence                                            *)

\* Whoever presses the panel's testnet button has the CI evidence of the
\* configuration this process runs with.
CiAsked ==
  \A j \in known :
    jobs[j].command = "preflight_testnet" /\ jobs[j].ask[1] # "operator-command" =>
      PassedRows("CI", config) # {}

\* The command route, which asks for nothing, was not used for it.
TestnetByPanel ==
  \A j \in known :
    jobs[j].command = "preflight_testnet" => jobs[j].ask[1] # "operator-command"

LEMMA PassedStay ==
  ASSUME WorkflowInv, [WorkflowNext]_vars, NEW t, NEW c
  PROVE  PassedRows(t, c) \subseteq PassedRows(t, c)'
<1>1. evidence \in Seq(Row)
  BY DEF WorkflowInv, WorkflowTypeOK
<1>2. CASE UNCHANGED evidence
  BY <1>2 DEF PassedRows, RowsOf
<1>3. CASE \E type, status, d, started, ended, by : Insert(type, status, d, started, ended, by)
  <2>1. PICK row : evidence' = Append(evidence, row)
    BY <1>3 DEF Insert
  <2>2. DOMAIN evidence \subseteq DOMAIN evidence'
        /\ \A i \in DOMAIN evidence : evidence'[i] = evidence[i]
    BY <1>1, <2>1
  <2> QED
    BY <2>2 DEF PassedRows, RowsOf
<1> QED
  BY <1>2, <1>3 DEF WorkflowNext, Press, PressRun, JobStep, RestartBackend, DayPasses,
     EditFiles, CliRecord, vars, workflowVars, PressRecord, RecordCi, StartPaper,
     RecordPaperPass, RecordSecurity, RecordReconciliation, RecordGo

\* The jobs run without changing what they were asked for; one the command
\* route starts carries its name.
LEMMA AsksStay ==
  ASSUME JobsInv, JobStep
  PROVE  \A j \in known' :
           \/ /\ j \in known
              /\ jobs'[j].command = jobs[j].command /\ jobs'[j].ask = jobs[j].ask
           \/ jobs'[j].ask[1] = "operator-command"
<1>1. jobs \in Seq(Job) /\ known \subseteq DOMAIN jobs
  BY DEF JobsInv, TypeOK
<1>2. CASE \E c \in Commands, k \in Keys : RunCommand(c, k)
  <2>1. PICK c \in Commands, k \in Keys : RunCommand(c, k)
    BY <1>2
  <2>2. PICK ask \in Namespaces \X Keys, audited \in BOOLEAN :
          ask[1] = "operator-command" /\ Start(c, ask, audited)
    BY <2>1, AuditType DEF RunCommand, Namespaces, JobsInv
  <2>3. /\ \A i \in DOMAIN jobs : jobs'[i] = jobs[i]
        /\ jobs'[Len(jobs) + 1] = NewJob(c, ask, audited)
    BY <1>1, <2>2, StartAdds
  <2>4. NewJob(c, ask, audited).ask = ask
    BY DEF NewJob
  <2> QED
    BY <1>1, <2>2, <2>3, <2>4 DEF Start
<1>3. ASSUME NEW j \in DOMAIN jobs, NEW status, NEW child, NEW next,
             Turns(j, status, child, next), known' = known
      PROVE  \A i \in known' :
               i \in known /\ jobs'[i].command = jobs[i].command /\ jobs'[i].ask = jobs[i].ask
  BY <1>1, <1>3 DEF Turns
<1>4. CASE \E j \in DOMAIN jobs, o \in Ended : Exit(j, o)
  <2>1. PICK j \in DOMAIN jobs, o \in Ended : Exit(j, o)
    BY <1>4
  <2>2. Told(j, o) \in Status
    BY <1>1, JobFields DEF Told, Status
  <2>3. Turns(j, Told(j, o), FALSE, jobs[j].next) /\ known' = known
    BY <1>1, <2>1, <2>2, StopTurns DEF Exit
  <2> QED
    BY <1>3, <2>3
<1>5. CASE Threads
  <2>1. PICK j \in DOMAIN jobs : RunJob(j) \/ Migrate(j) \/ TimeOut(j) \/ Fail(j)
    BY <1>5 DEF Threads
  <2>2. CASE RunJob(j)
    BY <1>1, <1>3, <2>2, RunJobTurns DEF RunJob
  <2>3. CASE Migrate(j)
    BY <1>1, <1>3, <2>3, MigrateTurns DEF Migrate
  <2>4. CASE TimeOut(j) \/ Fail(j)
    <3>1. PICK status \in Status : Raise(j, status)
      BY <2>4 DEF TimeOut, Fail, Status, Ended
    <3>2. Turns(j, status, FALSE, jobs[j].next) /\ known' = known
      BY <1>1, <3>1, StopTurns DEF Raise
    <3> QED
      BY <1>3, <3>2
  <2> QED
    BY <2>1, <2>2, <2>3, <2>4
<1>6. CASE ReadPanel \/ Database
  BY <1>6 DEF ReadPanel, Database
<1> QED
  BY <1>2, <1>4, <1>5, <1>6 DEF JobStep

LEMMA CiAskedStep ==
  ASSUME WorkflowInv, CiAsked, [WorkflowNext]_vars PROVE CiAsked'
<1>1. PassedRows("CI", config) \subseteq PassedRows("CI", config)'
      \/ config' # config
  <2>1. \A c : PassedRows("CI", c) \subseteq PassedRows("CI", c)'
    BY PassedStay
  <2> QED
    BY <2>1
<1>2. jobs \in Seq(Job) /\ known \subseteq DOMAIN jobs
  BY DEF WorkflowInv, JobsInv, TypeOK
<1>3. CASE JobStep
  <2>1. config' = config
    BY <1>3 DEF JobStep, workflowVars
  <2> QED
    BY <1>1, <1>3, <2>1, AsksStay DEF CiAsked, WorkflowInv
<1>4. CASE RestartBackend
  BY <1>4 DEF RestartBackend, Restart, CiAsked
<1>5. CASE \E k \in Keys, a \in DOMAIN CommandOf : PressRun(a, k)
  <2>1. PICK k \in Keys, a \in DOMAIN CommandOf : PressRun(a, k)
    BY <1>5
  <2>2. PICK c \in Commands : c = CommandOf[a] /\ Start(c, <<a, k>>, FALSE)
    BY <2>1 DEF PressRun
  <2>3. <<a, k>> \in Namespaces \X Keys /\ config' = config
    BY <2>1 DEF CommandOf, Namespaces, PressRun, workflowVars
  <2>4. /\ \A i \in DOMAIN jobs : jobs'[i] = jobs[i]
        /\ jobs'[Len(jobs) + 1].command = c
        /\ known' = known \union {Len(jobs) + 1}
    BY <1>2, <2>2, <2>3, StartAdds DEF NewJob, Start
  <2>5. c = "preflight_testnet" => PassedRows("CI", config) # {}
    <3>1. c = "preflight_testnet" => a = "run_testnet_preflight"
      BY <2>2 DEF CommandOf
    <3>2. Offers(a) /\ (Offers("run_testnet_preflight") => CiOk)
      BY <2>1 DEF PressRun, Offers
    <3>3. CiOk => PassedRows("CI", config) # {}
      BY PassedRow DEF CiOk, PassedRows, RowsOf
    <3> QED
      BY <3>1, <3>2, <3>3
  <2> QED
    BY <1>1, <1>2, <2>3, <2>4, <2>5 DEF CiAsked
<1>6. CASE UNCHANGED <<jobs, known, config>>
  BY <1>1, <1>6 DEF CiAsked
<1>7. DayPasses \/ EditFiles \/ (\E r \in CliRows : CliRecord(r)) \/ UNCHANGED vars
        => UNCHANGED <<jobs, known, config>>
  BY DEF DayPasses, EditFiles, CliRecord, vars, jobVars, workflowVars
<1>8. ASSUME NEW k \in Keys, Press(k)
      PROVE  UNCHANGED <<jobs, known, config>> \/ \E a \in DOMAIN CommandOf : PressRun(a, k)
  BY <1>8 DEF Press, PressRecord, RecordCi, StartPaper, RecordPaperPass, RecordSecurity,
     RecordReconciliation, RecordGo
<1> QED
  BY <1>3, <1>4, <1>5, <1>6, <1>7, <1>8 DEF WorkflowNext

LEMMA GoNeedsCiStep ==
  ASSUME WorkflowInv, CiAsked, TestnetByPanel, GoNeedsCi, [WorkflowNext]_vars
  PROVE  GoNeedsCi'
<1>1. evidence \in Seq(Row)
  BY DEF WorkflowInv, WorkflowTypeOK
<1>2. CASE UNCHANGED evidence
  BY <1>2 DEF GoNeedsCi, PassedRows, RowsOf
\* A new row disturbs nothing unless it is a GO/NO-GO of the panel.
<1>3. ASSUME NEW row, evidence' = Append(evidence, row),
             row.type = "GO_NO_GO" /\ row.by = "panel" =>
               PassedRows("CI", row.config) # {}
      PROVE  GoNeedsCi'
  <2> DEFINE n == Len(evidence) + 1
  <2>1. /\ n \in Nat /\ DOMAIN evidence = 1 .. Len(evidence) /\ DOMAIN evidence' = 1 .. n
        /\ evidence'[n] = row
        /\ \A i \in DOMAIN evidence : evidence'[i] = evidence[i] /\ i < n
    BY <1>1, <1>3
  <2>2. DOMAIN evidence' = DOMAIN evidence \union {n}
    BY <1>1, <2>1
  <2> HIDE DEF n
  <2>3. \A c : PassedRows("CI", c) \subseteq PassedRows("CI", c)'
    BY <2>1, <2>2 DEF PassedRows, RowsOf
  <2>4. \A c : PassedRows("CI", c) \subseteq DOMAIN evidence
    BY DEF PassedRows, RowsOf
  <2> SUFFICES ASSUME NEW c \in Configs, NEW g \in PassedRows("GO_NO_GO", c)',
                      evidence'[g].by = "panel"
               PROVE  \E i \in PassedRows("CI", c)' : i < g
    BY DEF GoNeedsCi
  <2>5. CASE g = n
    <3>1. row.type = "GO_NO_GO" /\ row.config = c
      BY <2>1, <2>5 DEF PassedRows, RowsOf
    <3>2. PICK i \in PassedRows("CI", c) : TRUE
      BY <1>3, <2>1, <2>5, <3>1
    <3> QED
      BY <2>1, <2>3, <2>4, <2>5, <3>2
  <2>6. CASE g # n
    <3>1. g \in DOMAIN evidence /\ evidence'[g] = evidence[g]
      BY <2>1, <2>2, <2>6 DEF PassedRows, RowsOf
    <3>2. g \in PassedRows("GO_NO_GO", c)
      BY <3>1 DEF PassedRows, RowsOf
    <3> QED
      BY <2>3, <3>1, <3>2 DEF GoNeedsCi
  <2> QED
    BY <2>5, <2>6
<1>4. CASE \E r \in CliRows : CliRecord(r)
  <2>1. PICK r \in CliRows : Insert(r.type, r.status, files, r.started, r.ended, "cli")
    BY <1>4 DEF CliRecord
  <2>2. PICK row : evidence' = Append(evidence, row) /\ row.by = "cli"
    BY <2>1 DEF Insert
  <2> QED
    BY <1>3, <2>2
<1>5. CASE \E k \in Keys : RecordGo(k)
  <2>1. PICK k \in Keys : /\ Prerequisites
                          /\ Insert("GO_NO_GO", "PASS", config, Null, Null, "panel")
    BY <1>5 DEF RecordGo, PressRecord
  <2>2. PICK j \in known : jobs[j].command = "preflight_testnet"
    BY <2>1 DEF Prerequisites, TestnetOk, JobOk, Listed
  <2>3. PassedRows("CI", config) # {}
    BY <2>2 DEF CiAsked, TestnetByPanel
  <2>4. PICK row : evidence' = Append(evidence, row) /\ row.config = config
    BY <2>1 DEF Insert
  <2> QED
    BY <1>3, <2>3, <2>4
<1>6. CASE \E type, status, started, ended :
               type # "GO_NO_GO" /\ Insert(type, status, config, started, ended, "panel")
  <2>1. PICK row : evidence' = Append(evidence, row) /\ row.type # "GO_NO_GO"
    BY <1>6 DEF Insert
  <2> QED
    BY <1>3, <2>1
<1>7. ASSUME NEW k \in Keys,
             RecordCi(k) \/ StartPaper(k) \/ RecordPaperPass(k) \/ RecordSecurity(k)
             \/ RecordReconciliation(k)
      PROVE  GoNeedsCi'
  BY <1>6, <1>7 DEF RecordCi, StartPaper, RecordPaperPass, RecordSecurity,
     RecordReconciliation, PressRecord
<1>8. ASSUME NEW k \in Keys, NEW a \in DOMAIN CommandOf, PressRun(a, k)
      PROVE  UNCHANGED evidence
  BY <1>8 DEF PressRun, workflowVars
<1>9. JobStep \/ RestartBackend \/ DayPasses \/ EditFiles \/ UNCHANGED vars
        => UNCHANGED evidence
  BY DEF JobStep, RestartBackend, DayPasses, EditFiles, vars, workflowVars
<1> QED
  BY <1>2, <1>4, <1>5, <1>7, <1>8, <1>9 DEF WorkflowNext, Press

\* The command route is the only way around the CI evidence: as long as the
\* testnet preflights were started by the panel's button, a GO/NO-GO of the
\* panel has the CI evidence of its configuration behind it (build_workflow).
THEOREM CiBeforeGo == WorkflowSpec /\ []TestnetByPanel => []GoNeedsCi
<1>1. WorkflowInit => CiAsked /\ GoNeedsCi
  BY DEF WorkflowInit, Init, CiAsked, GoNeedsCi, PassedRows, RowsOf
<1>2. WorkflowInv /\ CiAsked /\ [WorkflowNext]_vars => CiAsked'
  BY CiAskedStep
<1>3. WorkflowInv /\ CiAsked /\ TestnetByPanel /\ GoNeedsCi /\ [WorkflowNext]_vars
        => GoNeedsCi'
  BY GoNeedsCiStep
<1> QED
  BY <1>1, <1>2, <1>3, WorkflowInvariance, PTL DEF WorkflowSpec
=============================================================================
