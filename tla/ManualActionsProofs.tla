------------------------- MODULE ManualActionsProofs -------------------------
(***************************************************************************)
(* Proofs about ManualActions: the requests of the operator leave the      *)
(* preflight as it is specified on its own, so that what is proved of it   *)
(* holds of the server that handles both; and the log of manual actions    *)
(* agrees with the answers, for every set of keys and actions.             *)
(***************************************************************************)
EXTENDS ManualActions, LivePreflightProofs

\* What the handler has written agrees with the request it still works on.
Written(r) ==
  \E row \in log : /\ row.key = r.key
                   /\ row.accepted = r.accepted
                   /\ row.increase = r.increase
                   /\ r.accepted => row.action = r.action

InProgress ==
  request # NoRequest =>
    /\ request.accepted =>
         /\ request.action \in Allowed
         /\ request.action \in Config => request.increase # "yes"
    /\ request.at = "insert" => request.repo
    /\ request.at = "answer" /\ request.repo => Written(request)
    /\ ~told[request.key].given

\* The constraint of migration 0003 holds of the rows it found as well.
LogIsSafe == hard => \A row \in log : SafeRow(row)

\* What the handler itself keeps out of its answers.
AnsweredNoTrue ==
  \A k \in Keys :
    told[k].given /\ told[k].accepted /\ told[k].action \in Config =>
      told[k].increase # "yes"

DeskInv ==
  /\ RequestTypeOK
  /\ InProgress
  /\ LogIsSafe
  /\ AnsweredNoTrue
  /\ AnsweredIsAudited

-----------------------------------------------------------------------------
(* The preflight goes its own way                                          *)

LEMMA NextIsPreflight == ASSUME Next PROVE [PreflightNext]_preflightVars
<1>1. CASE Run
  BY <1>1 DEF Run, PreflightNext
<1>2. CASE Handle
  BY <1>2 DEF Handle, Receive, Insert, InsertRaises, Reply
<1>3. CASE Crash
  BY <1>3 DEF Crash, PreflightNext
<1>4. CASE Others
  BY <1>4 DEF Others, PreflightNext
<1>5. CASE Harden
  BY <1>5 DEF Harden
<1> QED
  BY <1>1, <1>2, <1>3, <1>4, <1>5 DEF Next

\* The server with manual actions implements the preflight alone: none of
\* them changes what a run of the preflight reads or decides (actions.py).
THEOREM ImplementsPreflight == Spec => PreflightSpec
<1>1. Init => PreflightInit
  BY DEF Init
<1>2. [Next]_vars => [PreflightNext]_preflightVars
  BY NextIsPreflight DEF vars
<1> QED
  BY <1>1, <1>2, PTL DEF Spec, PreflightSpec

-----------------------------------------------------------------------------
(* The invariant of the log                                                *)

LEMMA RequestFields ==
  ASSUME request \in Request, request # NoRequest
  PROVE  /\ request.at \in {"insert", "answer"} /\ request.key \in Keys
         /\ request.action \in Actions /\ request.increase \in Increases
         /\ request.accepted \in BOOLEAN /\ request.repo \in BOOLEAN
BY DEF Request

LEMMA NotAtNone ==
  ASSUME request \in Request, request.at \in {"insert", "answer"}
  PROVE  request # NoRequest
BY DEF NoRequest

LEMMA RowOfType ==
  ASSUME request \in Request, request # NoRequest
  PROVE  RowOf(request) \in Row
BY RequestFields DEF RowOf, Row, Marker

LEMMA InitDesk == Init => DeskInv
<1> SUFFICES ASSUME Init PROVE DeskInv
  OBVIOUS
<1>1. RequestTypeOK
  <2>1. schema \in BOOLEAN /\ hard \in {FALSE, schema}
    BY DEF Init, PreflightInit
  <2> QED
    BY <2>1 DEF Init, RequestTypeOK, Request, Answer
<1>2. InProgress /\ LogIsSafe
  BY DEF Init, InProgress, LogIsSafe
<1>3. AnsweredIsAudited /\ AnsweredNoTrue
  BY DEF Init, AnsweredIsAudited, AnsweredNoTrue, NoAnswer
<1> QED
  BY <1>1, <1>2, <1>3 DEF DeskInv

LEMMA ReceiveDesk ==
  ASSUME DeskInv, PreflightTypeOK, NEW k \in Keys, NEW action \in Actions,
         NEW reason \in BOOLEAN, NEW safe \in BOOLEAN, NEW increase \in Increases,
         Receive(k, action, reason, safe, increase)
  PROVE  DeskInv'
<1>1. UNCHANGED <<told, log, hard>> /\ told[k] = NoAnswer
  BY DEF Receive
<1>2. PICK ok \in BOOLEAN : ok = Accepted(action, reason, safe, increase)
  BY DEF Accepted
<1>3. app.repo \in BOOLEAN
  BY DEF PreflightTypeOK, App
<1>4. request' = [at |-> IF app.repo THEN "insert" ELSE "answer", key |-> k,
                  action |-> action, increase |-> increase, accepted |-> ok,
                  repo |-> app.repo]
  BY <1>2 DEF Receive
<1>5. request' \in Request
  BY <1>3, <1>4 DEF Request
<1>6. RequestTypeOK'
  BY <1>1, <1>5 DEF DeskInv, RequestTypeOK
<1>7. InProgress'
  <2>1. ok => action \in Allowed /\ (action \in Config => increase # "yes")
    BY <1>2 DEF Accepted
  <2>2. ~told'[request'.key].given
    BY <1>1, <1>4 DEF NoAnswer
  <2> QED
    BY <1>3, <1>4, <2>1, <2>2 DEF InProgress
<1>8. LogIsSafe' /\ AnsweredNoTrue' /\ AnsweredIsAudited'
  BY <1>1 DEF DeskInv, LogIsSafe, AnsweredNoTrue, AnsweredIsAudited, SafeRow
<1> QED
  BY <1>6, <1>7, <1>8 DEF DeskInv

LEMMA RowIsAsked ==
  ASSUME DeskInv, request.at = "insert"
  PROVE  LET row == RowOf(request)
         IN  /\ row \in Row
             /\ row.key = request.key /\ row.accepted = request.accepted
             /\ row.increase = request.increase
             /\ request.accepted => row.action = request.action
<1>1. request \in Request /\ request # NoRequest
  BY NotAtNone DEF DeskInv, RequestTypeOK
<1>2. RowOf(request) \in Row
  BY <1>1, RowOfType
<1>3. request.accepted => request.action \in Allowed
  BY <1>1 DEF DeskInv, InProgress
<1> QED
  BY <1>2, <1>3 DEF RowOf

\* The log grows by the row of the request, which the constraint was asked
\* about, or not at all; answers stay.
LEMMA LogGrows ==
  ASSUME DeskInv, request.at = "insert", UNCHANGED <<told, hard>>,
         \/ UNCHANGED log
         \/ CheckAllows(RowOf(request)) /\ log' = log \union {RowOf(request)}
  PROVE  /\ log \subseteq log' /\ log' \subseteq Row
         /\ LogIsSafe' /\ AnsweredNoTrue' /\ AnsweredIsAudited'
<1>1. log \subseteq log' /\ log' \subseteq Row
  BY RowIsAsked DEF DeskInv, RequestTypeOK
<1>2. LogIsSafe'
  BY DEF DeskInv, LogIsSafe, CheckAllows, SafeRow
<1>3. AnsweredNoTrue'
  BY DEF DeskInv, AnsweredNoTrue
<1>4. AnsweredIsAudited'
  BY <1>1 DEF DeskInv, AnsweredIsAudited
<1> QED
  BY <1>1, <1>2, <1>3, <1>4

LEMMA InsertDesk == ASSUME DeskInv, Insert PROVE DeskInv'
<1>1. /\ request.at = "insert" /\ UNCHANGED <<told, hard>>
      /\ CheckAllows(RowOf(request))
      /\ log' = log \union {RowOf(request)}
      /\ request' = [request EXCEPT !.at = "answer"]
  BY DEF Insert
<1>2. request \in Request /\ request # NoRequest
  BY <1>1, NotAtNone DEF DeskInv, RequestTypeOK
<1>3. /\ request' \in Request /\ request'.at = "answer"
      /\ request'.key = request.key /\ request'.action = request.action
      /\ request'.increase = request.increase
      /\ request'.accepted = request.accepted /\ request'.repo = request.repo
  BY <1>1, <1>2 DEF Request
<1>4. log' \subseteq Row /\ LogIsSafe' /\ AnsweredNoTrue' /\ AnsweredIsAudited'
  BY <1>1, LogGrows
<1>5. RequestTypeOK'
  BY <1>1, <1>3, <1>4 DEF DeskInv, RequestTypeOK
<1>6. InProgress'
  <2>1. \E row \in log' : /\ row.key = request'.key
                          /\ row.accepted = request'.accepted
                          /\ row.increase = request'.increase
                          /\ request'.accepted => row.action = request'.action
    <3>1. RowOf(request) \in log'
      BY <1>1
    <3> QED
      BY <1>1, <1>3, <3>1, RowIsAsked
  <2>2. ~told'[request'.key].given
    BY <1>1, <1>2, <1>3 DEF DeskInv, InProgress
  <2> QED
    BY <1>2, <1>3, <2>1, <2>2 DEF DeskInv, InProgress, Written
<1> QED
  BY <1>4, <1>5, <1>6 DEF DeskInv

LEMMA RaisesDesk == ASSUME DeskInv, InsertRaises PROVE DeskInv'
<1>1. /\ request.at = "insert" /\ UNCHANGED <<told, hard>> /\ request' = NoRequest
      /\ \/ UNCHANGED log
         \/ CheckAllows(RowOf(request)) /\ log' = log \union {RowOf(request)}
  BY DEF InsertRaises
<1>2. log' \subseteq Row /\ LogIsSafe' /\ AnsweredNoTrue' /\ AnsweredIsAudited'
  BY <1>1, LogGrows
<1>3. RequestTypeOK'
  BY <1>1, <1>2 DEF DeskInv, RequestTypeOK, Request
<1> QED
  BY <1>1, <1>2, <1>3 DEF DeskInv, InProgress

LEMMA ReplyDesk == ASSUME DeskInv, Reply PROVE DeskInv'
<1> DEFINE answer == [given |-> TRUE, action |-> request.action,
                      increase |-> request.increase,
                      accepted |-> request.accepted, repo |-> request.repo]
<1>1. /\ request.at = "answer" /\ UNCHANGED <<log, hard>> /\ request' = NoRequest
      /\ told' = [told EXCEPT ![request.key] = answer]
  BY DEF Reply
<1>2. request \in Request /\ request # NoRequest
  BY <1>1, NotAtNone DEF DeskInv, RequestTypeOK
<1>3. answer \in Answer
  BY <1>2, RequestFields DEF Answer
<1>4. RequestTypeOK'
  BY <1>1, <1>3 DEF DeskInv, RequestTypeOK, Request
<1>5. LogIsSafe'
  BY <1>1 DEF DeskInv, LogIsSafe, SafeRow
<1>6. AnsweredNoTrue'
  <2> SUFFICES ASSUME NEW k \in Keys, told'[k].given, told'[k].accepted,
                      told'[k].action \in Config
               PROVE  told'[k].increase # "yes"
    BY DEF AnsweredNoTrue
  <2>1. CASE k = request.key
    <3>1. told'[k] = answer
      BY <1>1, <2>1 DEF DeskInv, RequestTypeOK
    <3> QED
      BY <1>2, <3>1 DEF DeskInv, InProgress
  <2>2. CASE k # request.key
    BY <1>1, <2>2 DEF DeskInv, RequestTypeOK, AnsweredNoTrue
  <2> QED
    BY <2>1, <2>2
<1>7. AnsweredIsAudited'
  <2> SUFFICES ASSUME NEW k \in Keys, told'[k].given, told'[k].repo
               PROVE  \E row \in log' : /\ row.key = k
                                        /\ row.accepted = told'[k].accepted
                                        /\ row.increase = told'[k].increase
                                        /\ told'[k].accepted => row.action = told'[k].action
    BY DEF AnsweredIsAudited
  <2>1. CASE k = request.key
    <3>1. told'[k] = answer
      BY <1>1, <2>1 DEF DeskInv, RequestTypeOK
    <3>2. Written(request)
      BY <1>1, <1>2, <3>1 DEF DeskInv, InProgress
    <3> QED
      BY <1>1, <2>1, <3>1, <3>2 DEF Written
  <2>2. CASE k # request.key
    BY <1>1, <2>2 DEF DeskInv, RequestTypeOK, AnsweredIsAudited
  <2> QED
    BY <2>1, <2>2
<1> QED
  BY <1>1, <1>4, <1>5, <1>6, <1>7 DEF DeskInv, InProgress

LEMMA CrashDesk == ASSUME DeskInv, Crash PROVE DeskInv'
<1>1. request' = NoRequest /\ told' = [k \in Keys |-> NoAnswer] /\ UNCHANGED <<log, hard>>
  BY DEF Crash
<1>2. RequestTypeOK'
  BY <1>1 DEF DeskInv, RequestTypeOK, Request, Answer
<1>3. InProgress' /\ LogIsSafe'
  BY <1>1 DEF DeskInv, InProgress, LogIsSafe, SafeRow
<1>4. AnsweredIsAudited' /\ AnsweredNoTrue'
  BY <1>1 DEF AnsweredIsAudited, AnsweredNoTrue, NoAnswer
<1> QED
  BY <1>2, <1>3, <1>4 DEF DeskInv

\* The migration looks at the rows that are there before it adds the constraint.
LEMMA HardenDesk == ASSUME DeskInv, Harden PROVE DeskInv'
<1>1. /\ UNCHANGED <<request, told, log>> /\ hard' = TRUE
      /\ \A row \in log : SafeRow(row)
  BY DEF Harden
<1>2. LogIsSafe'
  BY <1>1 DEF LogIsSafe, SafeRow
<1> QED
  BY <1>1, <1>2 DEF DeskInv, RequestTypeOK, InProgress, Written, AnsweredNoTrue,
                    AnsweredIsAudited

LEMMA SameDesk == ASSUME DeskInv, UNCHANGED desk PROVE DeskInv'
BY DEF DeskInv, RequestTypeOK, InProgress, Written, LogIsSafe, SafeRow, AnsweredNoTrue,
       AnsweredIsAudited, desk

LEMMA StepDesk == ASSUME DeskInv, PreflightTypeOK, [Next]_vars PROVE DeskInv'
<1>1. CASE Run \/ Others
  BY <1>1, SameDesk DEF Run, Others
<1>2. CASE Handle
  <2>1. ASSUME NEW k \in Keys, NEW action \in Actions, NEW reason \in BOOLEAN,
               NEW safe \in BOOLEAN, NEW increase \in Increases,
               Receive(k, action, reason, safe, increase)
        PROVE  DeskInv'
    BY <2>1, ReceiveDesk
  <2> QED
    BY <1>2, <2>1, InsertDesk, RaisesDesk, ReplyDesk DEF Handle
<1>3. CASE Crash
  BY <1>3, CrashDesk
<1>4. CASE Harden
  BY <1>4, HardenDesk
<1>5. CASE UNCHANGED vars
  BY <1>5, SameDesk DEF vars
<1> QED
  BY <1>1, <1>2, <1>3, <1>4, <1>5 DEF Next

LEMMA DeskInvariance == Spec => [](DeskInv /\ PreflightTypeOK)
<1>1. Spec => []PreflightTypeOK
  BY ImplementsPreflight, TypeCorrect, PTL
<1>2. DeskInv /\ PreflightTypeOK /\ [Next]_vars => DeskInv'
  BY StepDesk
<1> QED
  BY <1>1, <1>2, InitDesk, PTL DEF Spec

-----------------------------------------------------------------------------
(* What follows                                                            *)

\* Requests, answers and rows keep their types, beside the preflight
\* (POST /api/actions).
THEOREM DeskTypes == Spec => []DeskTypeOK
<1>1. DeskInv /\ PreflightTypeOK => DeskTypeOK
  BY DEF DeskInv, DeskTypeOK
<1> QED
  BY <1>1, DeskInvariance, PTL

\* An accepted configuration change does not raise the risk, unless its
\* risk_increase is a text that means true, and then not with a row in a database
\* with migration 0003, in whatever order the change and the migration came
\* (manual_config_change_reduce_only).
THEOREM AcceptedKeepRisk == Spec => []AcceptedKeepsRisk
<1>1. ASSUME DeskInv PROVE AcceptedKeepsRisk
  <2> SUFFICES ASSUME NEW k \in Keys, told[k].given, told[k].accepted,
                      told[k].action \in Config
               PROVE  \/ told[k].increase = "no"
                      \/ told[k].increase = "text" /\ ~(hard /\ told[k].repo)
    BY DEF AcceptedKeepsRisk
  <2>1. told[k].increase \in {"no", "text"}
    <3>1. told[k] \in Answer \ {NoAnswer}
      BY <1>1 DEF DeskInv, RequestTypeOK, NoAnswer
    <3>2. told[k].increase \in Increases
      BY <3>1 DEF Answer
    <3>3. told[k].increase # "yes"
      BY <1>1 DEF DeskInv, AnsweredNoTrue
    <3> QED
      BY <3>2, <3>3 DEF Increases
  <2>2. ASSUME hard, told[k].repo PROVE told[k].increase = "no"
    <3>1. PICK row \in log : row.increase = told[k].increase /\ row.action = told[k].action
      BY <1>1, <2>2 DEF DeskInv, AnsweredIsAudited
    <3> QED
      BY <1>1, <2>2, <3>1 DEF DeskInv, LogIsSafe, SafeRow
  <2> QED
    BY <2>1, <2>2
<1> QED
  BY <1>1, DeskInvariance, PTL

\* Every answer given with a repository has its row (log_manual_action).
THEOREM Audited == Spec => []AnsweredIsAudited
<1>1. DeskInv => AnsweredIsAudited
  BY DEF DeskInv
<1> QED
  BY <1>1, DeskInvariance, PTL

\* An answered key writes nothing and keeps its answer
\* (InMemoryIdempotencyStore).
THEOREM QuietKeys == Spec => AnsweredKeyIsQuiet
<1> DEFINE Quiet ==
      \A k \in Keys :
        told[k].given => /\ \A row \in log' \ log : row.key # k
                         /\ told'[k] \in {told[k], NoAnswer}
<1>1. ASSUME DeskInv, Next PROVE Quiet
  <2>1. CASE Run \/ Others
    BY <1>1, <2>1 DEF Run, Others, desk
  <2>2. CASE Crash
    BY <1>1, <2>2 DEF Crash
  <2>6. CASE Harden
    BY <2>6 DEF Harden
  <2>3. CASE \E k \in Keys, action \in Actions, reason \in BOOLEAN,
                safe \in BOOLEAN, increase \in Increases :
               Receive(k, action, reason, safe, increase)
    BY <2>3 DEF Receive
  <2>4. CASE Insert \/ InsertRaises
    <3>1. /\ request.at = "insert" /\ UNCHANGED told
          /\ log' \subseteq log \union {RowOf(request)}
      BY <2>4 DEF Insert, InsertRaises
    <3>2. request # NoRequest
      BY <1>1, <3>1, NotAtNone DEF DeskInv, RequestTypeOK
    <3>3. ~told[request.key].given /\ RowOf(request).key = request.key
      BY <1>1, <3>2 DEF DeskInv, InProgress, RowOf
    <3> QED
      BY <3>1, <3>3
  <2>5. CASE Reply
    <3>1. /\ request.at = "answer" /\ UNCHANGED log
          /\ \A k \in Keys : k # request.key => told'[k] = told[k]
      BY <1>1, <2>5 DEF Reply, DeskInv, RequestTypeOK
    <3>2. request # NoRequest
      BY <1>1, <3>1, NotAtNone DEF DeskInv, RequestTypeOK
    <3>3. ~told[request.key].given
      BY <1>1, <3>2 DEF DeskInv, InProgress
    <3> QED
      BY <3>1, <3>3
  <2> QED
    BY <1>1, <2>1, <2>2, <2>3, <2>4, <2>5, <2>6 DEF Next, Handle
<1>2. ASSUME UNCHANGED vars PROVE Quiet
  BY <1>2 DEF vars, desk
<1>3. DeskInv /\ [Next]_vars => [Quiet]_vars
  BY <1>1, <1>2
<1> QED
  BY <1>3, DeskInvariance, PTL DEF Spec, AnsweredKeyIsQuiet
=============================================================================
