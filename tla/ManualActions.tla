---------------------------- MODULE ManualActions ----------------------------
(***************************************************************************)
(* The manual actions of the operator (POST /api/actions), beside the      *)
(* preflight runs of the same server.  An action is checked against an     *)
(* allowlist, written to manual_request_log and answered; the answer is    *)
(* kept for the key of the request.  None of them changes anything else.   *)
(*                                                                         *)
(* Of a target only what the two guards look at is kept: risk_change       *)
(* (among the safe words or not) and risk_increase ("yes": JSON true;      *)
(* "text": a string or number the CHECK of migration 0003 reads as true).  *)
(* A failed statement ends the handler with an error, without an answer.   *)
(* That the tables are there (schema) takes migration 0001, the CHECK on   *)
(* configuration changes (hard) takes 0003 as well.                        *)
(***************************************************************************)
EXTENDS LivePreflight

CONSTANTS
  Keys,          \* idempotency keys of manual actions
  Actions,       \* names a client sends
  Mixed          \* bound: runs and requests happen in one behaviour

Allowed ==
  {"DISABLE_TRADING", "CANCEL_OPEN_ENTRIES", "FLATTEN_REDUCE",
   "RESOLVE_INCIDENT", "PROPOSE_CONFIG", "ACTIVATE_CONFIG"}
Config == {"PROPOSE_CONFIG", "ACTIVATE_CONFIG"}
Marker == "REJECTED_UNSAFE_ACTION"

ASSUME ActionsAssumption == Actions \subseteq STRING /\ Mixed \in BOOLEAN

VARIABLES
  request,       \* the request the server works on
  told,          \* key -> the answer kept for it; increase: history
  log,           \* rows of manual_request_log; key: history
  hard           \* migration 0003 is applied

desk == <<request, told, log, hard>>
vars == <<preflightVars, desk>>

Increases == {"no", "yes", "text"}
NoRequest == [at |-> "none"]
Request ==
  {NoRequest}
  \union [at : {"insert", "answer"}, key : Keys, action : Actions,
          increase : Increases, accepted : BOOLEAN, repo : BOOLEAN]
NoAnswer == [given |-> FALSE]
Answer ==
  {NoAnswer}
  \union [given : {TRUE}, action : Actions, increase : Increases,
          accepted : BOOLEAN, repo : BOOLEAN]
Row ==
  [key : Keys, action : Actions \union {Marker}, accepted : BOOLEAN,
   increase : Increases]

Untouched ==
  request = NoRequest /\ log = {} /\ ~hard /\ \A k \in Keys : told[k] = NoAnswer

-----------------------------------------------------------------------------
(* The two guards                                                          *)

\* The handler's own: an allowed action with a reason, and for configuration
\* changes a safe word and no JSON true.
Accepted(action, reason, safe, increase) ==
  /\ action \in Allowed
  /\ reason
  /\ action \in Config => safe /\ increase # "yes"

\* manual_config_change_reduce_only, of migration 0003; its clause on
\* risk_change never bites behind the handler's own.
SafeRow(row) == row.action \in Config => row.increase = "no"

\* manual_reduce_only, which comes with the table, and the constraint above.
CheckAllows(row) ==
  row.action \in Allowed \union {Marker} /\ (hard => SafeRow(row))

\* What is written: a refused configuration change, and an action that is not
\* allowed, under the name of a marker.
RowOf(r) ==
  [key |-> r.key, accepted |-> r.accepted, increase |-> r.increase,
   action |-> IF r.action \in Allowed /\ (r.action \in Config => r.accepted)
              THEN r.action ELSE Marker]

-----------------------------------------------------------------------------
(* The handler                                                             *)

\* Faulty handler: the kept answer is not looked for.
ReceiveAnew(k, action, reason, safe, increase) ==
  /\ Idle /\ request = NoRequest
  /\ request' = [at |-> IF app.repo THEN "insert" ELSE "answer",
                 key |-> k, action |-> action, increase |-> increase,
                 accepted |-> Accepted(action, reason, safe, increase),
                 repo |-> app.repo]
  /\ UNCHANGED <<preflightVars, told, log, hard>>

\* A request under a key without an answer; one with an answer gets it again,
\* whatever it asks for.
Receive(k, action, reason, safe, increase) ==
  /\ Idle /\ request = NoRequest
  /\ told[k] = NoAnswer
  /\ request' = [at |-> IF app.repo THEN "insert" ELSE "answer",
                 key |-> k, action |-> action, increase |-> increase,
                 accepted |-> Accepted(action, reason, safe, increase),
                 repo |-> app.repo]
  /\ UNCHANGED <<preflightVars, told, log, hard>>

\* Faulty statement: what the database refuses is passed over.
InsertOrSkip ==
  /\ request.at = "insert"
  /\ log' = IF up /\ schema /\ CheckAllows(RowOf(request))
            THEN log \union {RowOf(request)} ELSE log
  /\ request' = [request EXCEPT !.at = "answer"]
  /\ UNCHANGED <<preflightVars, told, hard>>

\* log_manual_action.
Insert ==
  /\ request.at = "insert"
  /\ up /\ schema /\ CheckAllows(RowOf(request))
  /\ log' = log \union {RowOf(request)}
  /\ request' = [request EXCEPT !.at = "answer"]
  /\ UNCHANGED <<preflightVars, told, hard>>

\* The statement raises, perhaps only after it was committed.
InsertRaises ==
  /\ request.at = "insert"
  /\ \/ UNCHANGED log
     \/ /\ up /\ schema /\ CheckAllows(RowOf(request))
        /\ log' = log \union {RowOf(request)}
  /\ request' = NoRequest
  /\ UNCHANGED <<preflightVars, told, hard>>

\* Faulty answer: what it was given for is not kept.
ReplyBare ==
  /\ request.at = "answer"
  /\ told' = [told EXCEPT ![request.key] =
                [given |-> TRUE, increase |-> request.increase,
                 accepted |-> request.accepted, repo |-> request.repo]]
  /\ request' = NoRequest
  /\ UNCHANGED <<preflightVars, log, hard>>

\* The answer is kept and given.
Reply ==
  /\ request.at = "answer"
  /\ told' = [told EXCEPT ![request.key] =
                [given |-> TRUE, action |-> request.action,
                 increase |-> request.increase,
                 accepted |-> request.accepted, repo |-> request.repo]]
  /\ request' = NoRequest
  /\ UNCHANGED <<preflightVars, log, hard>>

\* The server forgets its answers, in the middle of a request or not.
Crash ==
  /\ Restart
  /\ request' = NoRequest
  /\ told' = [k \in Keys |-> NoAnswer]
  /\ UNCHANGED <<log, hard>>

\* Faulty migration: the rows that are there are not looked at (NOT VALID).
HardenUnvalidated ==
  /\ up /\ schema /\ ~hard
  /\ ~Mixed => stage = "idle"
  /\ hard' = TRUE
  /\ UNCHANGED <<preflightVars, request, told, log>>

\* Migration 0003 is applied beside the server.  It adds the constraint to a
\* table with rows: one row against it, and nothing of the migration is done.
Harden ==
  /\ up /\ schema /\ ~hard
  /\ ~Mixed => stage = "idle"
  /\ \A row \in log : SafeRow(row)
  /\ hard' = TRUE
  /\ UNCHANGED <<preflightVars, request, told, log>>

\* The preflight of the same server, which works on one request at a time.
Run ==
  /\ request = NoRequest
  /\ ~Mixed => Untouched
  /\ Gate \/ Panel \/ Proceed \/ \E mode \in {"live", "testnet"} : Script(mode)
  /\ UNCHANGED desk

Others ==
  /\ World \/ (request = NoRequest /\ Look)
  /\ UNCHANGED desk

Handle ==
  \/ /\ ~Mixed => stage = "idle"
     /\ \E k \in Keys, action \in Actions, reason \in BOOLEAN,
           safe \in BOOLEAN, increase \in Increases :
          /\ action \in Config \/ (safe /\ increase = "no")
          /\ Receive(k, action, reason, safe, increase)
  \/ Insert \/ InsertRaises \/ Reply

Init ==
  /\ PreflightInit
  /\ request = NoRequest
  /\ told = [k \in Keys |-> NoAnswer]
  /\ log = {}
  /\ hard \in {FALSE, schema}

Next == Run \/ Handle \/ Crash \/ Harden \/ Others

Spec == Init /\ [][Next]_vars

-----------------------------------------------------------------------------
(* Properties                                                              *)

RequestTypeOK ==
  /\ request \in Request
  /\ told \in [Keys -> Answer]
  /\ log \subseteq Row
  /\ hard \in BOOLEAN

DeskTypeOK == PreflightTypeOK /\ RequestTypeOK

\* What an answer that accepts a configuration change may have let through.
\* JSON true never.  A text that means true only if no row was written for it,
\* or if migration 0003 is not applied, and then cannot be applied any more:
\* the row the change left in the log stands against the constraint.  (Once it
\* is applied, the change ends in a 500 with no row at all, neither under its
\* name nor under the marker.)
AcceptedKeepsRisk ==
  \A k \in Keys :
    told[k].given /\ told[k].accepted /\ told[k].action \in Config =>
      \/ told[k].increase = "no"
      \/ told[k].increase = "text" /\ ~(hard /\ told[k].repo)

\* An answer given while the server had its repository is in the log as it
\* was given, through failing statements, crashes and repeated keys.
AnsweredIsAudited ==
  \A k \in Keys :
    told[k].given /\ told[k].repo =>
      \E row \in log : /\ row.key = k
                       /\ row.accepted = told[k].accepted
                       /\ row.increase = told[k].increase
                       /\ told[k].accepted => row.action = told[k].action

\* A key that has its answer writes no more rows and keeps the answer for the
\* life of the process.  (Before that a retry may write a row again: of a
\* statement that was committed and then raised, or of a crash before the
\* answer.)
AnsweredKeyIsQuiet ==
  [][\A k \in Keys :
       told[k].given =>
         /\ \A row \in log' \ log : row.key # k
         /\ told'[k] \in {told[k], NoAnswer}]_vars

=============================================================================
