--------------------------- MODULE RecoveryPipeline ---------------------------
(***************************************************************************)
(* One POST /broker/execute per member of Requests, running concurrently:  *)
(* api/v1/broker.py (the handler), database.py (one session and one        *)
(* transaction per request), recovery/orchestrator.py (the recovery        *)
(* pipeline).  A step of a request is the code between two awaits whose    *)
(* result another request, an administrator or a failure can influence.    *)
(*                                                                         *)
(* Rows a request adds belong to its own transaction: nobody else sees     *)
(* them before its commit, and its rollback removes them.  So there is no  *)
(* separate database state: the rows of r are in the database exactly when *)
(* session[r] = "committed".                                               *)
(***************************************************************************)
EXTENDS Integers, Sequences, SafetyValidator, CandidateSelection

CONSTANTS
  Requests,             \* the broker requests
  Correlations,         \* correlation IDs; a client may send its own
  Inputs,               \* the request payloads considered
  UpstreamFailures,     \* the failures the first execution may meet
  ActionTypes,          \* the action types with or without a policy row
  LlmAnswers,           \* what the model's parsed answer may be
  RetrievedCases,       \* the recovery cases the memory queries return, in order
  InitialPolicies,      \* the active policy rows at the start
  PolicyEdits,          \* the <<type, tier>> an administrator may write
  RequestEventRequired, \* failure_events.request_event_id is NOT NULL
  MaxFaults, MaxEdits   \* bounds on crashes and lost connections, on edits

None == "none"
Modes == {"auto", "manual", "disabled"}
Input == [corr : Correlations, method : Methods, mode : Modes]
Candidates == [type : ActionTypes, changes : ChangeKinds, confidence : 0..100,
               source : {Deterministic, Llm}]
\* PROPOSED cases are never retrieved.
RecoveryCases == [type : ActionTypes, changes : ChangeKinds, confidence : 0..100,
                  maturity : {"VALIDATED", "ESTABLISHED"}]

\* What _parse_candidates keeps of a model answer: the types the system knows.
LlmCandidates == {c \in Candidates : c.source = Llm /\ c.type \in SafeActionTypes}

ASSUME PipelineAssumption ==
  /\ Inputs \subseteq Input
  /\ UpstreamFailures \subseteq Failure
  /\ "retry_after" \in ActionTypes
  /\ LlmAnswers \subseteq Seq(LlmCandidates)
  /\ RetrievedCases \in Seq(RecoveryCases)
  /\ InitialPolicies \in [ActionTypes -> Tiers \cup {NoPolicy}]
  /\ PolicyEdits \subseteq ActionTypes \X (Tiers \cup {NoPolicy})
  /\ RequestEventRequired \in BOOLEAN
  /\ MaxFaults \in Nat /\ MaxEdits \in Nat

MaxUpstreamAttempts == 2

VARIABLES
  req,       \* [Requests -> Inputs], fixed: what the client sent
  pc,        \* where the handler of the request is
  session,   \* the request's database session
  calls,     \* upstream executions the request has made (never rolled back)
  failure,   \* how the first execution failed
  attempt,   \* the recovery_attempts row; count = 0 while there is none; executed
             \* is the selected candidate's was_executed
  node,      \* the request has inserted the graph rows of its API
  queue,     \* candidates not vetted yet
  vetted,    \* correction_candidates rows, in insertion order
  best,      \* index in vetted of the selected candidate, 0 if none
  reply,     \* what the corrected execution came to
  case,      \* the recovery_cases row the success wrote
  audit,     \* audit_events rows: <<event type, candidate index or 0>>
  result,    \* the status the handler returned
  answer,    \* the status the client received
  policies,  \* the policies table, active rows
  faults, edits

rows == <<attempt, node, queue, vetted, best, case, audit>>
vars == <<req, pc, session, calls, failure, rows, reply, result, answer,
          policies, faults, edits>>

PipelineStages ==
  {"attempt", "classify", "graph", "insert_node", "memory", "llm", "vet",
   "execute", "record"}
Stages == {"idle", "original", "finish", "closed"} \cup PipelineStages

Outcomes == {"SUCCESS", "FAILURE", "TERMINAL_FAILURE"}
Results  == {"success", "failure", "recovered", "recovery_failed"}
Answers  == Results \cup {"rejected", "forbidden", "server_error"}
Replies  == {"ok", "http_error", "transport_error", "blocked", "redirect_blocked"}
EventTypes == {"FAILURE_NOT_RECOVERABLE", "CANDIDATE_REJECTED",
               "RETRY_BUDGET_EXHAUSTED", "CANDIDATE_SELECTED",
               "RECOVERY_SUCCESS", "RECOVERY_FAILURE", "PIPELINE_ERROR"}
Vetted == [cand : Candidates, tier : Tiers, passed : BOOLEAN]

NoFailure == [kind |-> None, status |-> 0, hint |-> "other"]
NoAttempt == [count |-> 0, outcome |-> None, llm |-> FALSE, executed |-> FALSE]

TypeOK ==
  /\ req \in [Requests -> Inputs]
  /\ pc \in [Requests -> Stages]
  /\ session \in [Requests -> {"none", "active", "committed", "rolledback"}]
  /\ calls \in [Requests -> 0..2]
  /\ failure \in [Requests -> UpstreamFailures \cup {NoFailure}]
  /\ attempt \in [Requests -> [count : 0..2, outcome : Outcomes \cup {None},
                               llm : BOOLEAN, executed : BOOLEAN]]
  /\ node \in [Requests -> BOOLEAN]
  /\ queue \in [Requests -> Seq(Candidates)]
  /\ vetted \in [Requests -> Seq(Vetted)]
  /\ best \in [Requests -> Nat]
  /\ reply \in [Requests -> Replies \cup {None}]
  /\ case \in [Requests -> {None, "new", "reused"}]
  /\ audit \in [Requests -> SUBSET (EventTypes \X Nat)]
  /\ result \in [Requests -> Results \cup {None}]
  /\ answer \in [Requests -> Answers \cup {None}]
  /\ policies \in [ActionTypes -> Tiers \cup {NoPolicy}]
  /\ faults \in 0..MaxFaults
  /\ edits \in 0..MaxEdits

Init ==
  /\ req \in [Requests -> Inputs]
  /\ pc = [r \in Requests |-> "idle"]
  /\ session = [r \in Requests |-> "none"]
  /\ calls = [r \in Requests |-> 0]
  /\ failure = [r \in Requests |-> NoFailure]
  /\ attempt = [r \in Requests |-> NoAttempt]
  /\ node = [r \in Requests |-> FALSE]
  /\ queue = [r \in Requests |-> <<>>]
  /\ vetted = [r \in Requests |-> <<>>]
  /\ best = [r \in Requests |-> 0]
  /\ reply = [r \in Requests |-> None]
  /\ case = [r \in Requests |-> None]
  /\ audit = [r \in Requests |-> {}]
  /\ result = [r \in Requests |-> None]
  /\ answer = [r \in Requests |-> None]
  /\ policies = InitialPolicies
  /\ faults = 0
  /\ edits = 0

-------------------------------------------------------------------------------
(* Ways a handler moves on *)

Goto(r, stage) == pc' = [pc EXCEPT ![r] = stage]

Finish(r, status) ==
  /\ Goto(r, "finish")
  /\ result' = [result EXCEPT ![r] = status]

\* Mutated form: get_db commits whatever was flushed before the exception.
SessionAfterError_Committed == "committed"

SessionAfterError == "rolledback"

\* The request ends without the handler returning: get_db rolls back.
CloseWith(r, status) ==
  /\ Goto(r, "closed")
  /\ session' = [session EXCEPT ![r] = SessionAfterError]
  /\ answer' = [answer EXCEPT ![r] = IF @ = None THEN status ELSE @]

\* A failed flush deactivates the session; run()'s except branch then raises
\* again from its own audit event, so the exception leaves the handler.
Abort(r) ==
  /\ CloseWith(r, "server_error")
  /\ UNCHANGED <<req, calls, failure, rows, reply, result, policies, faults, edits>>

Record(r, events) == audit' = [audit EXCEPT ![r] = @ \cup events]

\* run()'s except branch with the session still usable.
PipelineError(r) ==
  /\ attempt' = [attempt EXCEPT ![r].outcome = "TERMINAL_FAILURE", ![r].llm = FALSE]
  /\ Record(r, {<<"PIPELINE_ERROR", 0>>})
  /\ Finish(r, "recovery_failed")
  /\ UNCHANGED <<req, session, calls, failure, node, queue, vetted, best, case,
                 answer, policies, faults, edits>>

\* A pipeline stage returns a result that is not a success.
Fails(r, outcome, events) ==
  /\ attempt' = [attempt EXCEPT ![r].outcome = outcome]
  /\ Record(r, events)
  /\ Finish(r, "recovery_failed")
  /\ UNCHANGED <<req, session, calls, failure, node, queue, vetted, best, reply,
                 case, answer, policies, faults, edits>>

-------------------------------------------------------------------------------
(* broker_execute *)

Receive(r) ==
  /\ pc[r] = "idle"
  /\ Goto(r, "original")
  /\ session' = [session EXCEPT ![r] = "active"]
  /\ UNCHANGED <<req, calls, failure, rows, reply, result, answer, policies,
                 faults, edits>>

\* Unknown (404) or deactivated (409) API: nothing is executed.
RejectApi(r) ==
  /\ pc[r] = "idle"
  /\ CloseWith(r, "rejected")
  /\ UNCHANGED <<req, calls, failure, rows, reply, result, policies, faults, edits>>

OriginalSucceeds(r) ==
  /\ pc[r] = "original"
  /\ calls' = [calls EXCEPT ![r] = @ + 1]
  /\ Finish(r, "success")
  /\ UNCHANGED <<req, session, failure, rows, reply, answer, policies, faults, edits>>

\* SSRFError, before anything was sent or at a redirect of a sent request.
OriginalBlocked(r) ==
  /\ pc[r] = "original"
  /\ \E sent \in 0..1 : calls' = [calls EXCEPT ![r] = @ + sent]
  /\ CloseWith(r, "forbidden")
  /\ UNCHANGED <<req, failure, rows, reply, result, policies, faults, edits>>

OriginalFails(r) ==
  /\ pc[r] = "original"
  /\ calls' = [calls EXCEPT ![r] = @ + 1]
  /\ \E f \in UpstreamFailures : failure' = [failure EXCEPT ![r] = f]
  /\ IF req[r].mode = "disabled"
     THEN Finish(r, "failure")
     ELSE Goto(r, "attempt") /\ UNCHANGED result
  /\ UNCHANGED <<req, session, rows, reply, answer, policies, faults, edits>>

-------------------------------------------------------------------------------
(* RecoveryOrchestrator.run and _pipeline *)

Competes(q, r) == q # r /\ req[q].corr = req[r].corr /\ attempt[q].count > 0

\* Mutated form: correlation_id is not unique.
CorrelationTaken_NotUnique(r) == FALSE

\* Another transaction holds the unique correlation_id: the insert waits.
CorrelationHeld(r)  == \E q \in Requests : Competes(q, r) /\ session[q] = "active"
\* The unique correlation_id is in the table: the insert fails.
CorrelationTaken(r) == \E q \in Requests : Competes(q, r) /\ session[q] = "committed"

InsertAttempt(r) ==
  /\ pc[r] = "attempt"
  /\ ~CorrelationHeld(r)
  /\ IF CorrelationTaken(r)
     THEN Abort(r)
     ELSE /\ attempt' = [attempt EXCEPT ![r].count = 1]
          /\ Goto(r, "classify")
          /\ UNCHANGED <<req, session, calls, failure, node, queue, vetted, best,
                         case, audit, reply, result, answer, policies, faults, edits>>

NotRecoverable(r) ==
  /\ pc[r] = "classify"
  /\ ~IsRecoverable(failure[r])
  /\ Fails(r, "TERMINAL_FAILURE", {<<"FAILURE_NOT_RECOVERABLE", 0>>})

\* The failure event is inserted without a request_event_id.
RecordFailure(r) ==
  /\ pc[r] = "classify"
  /\ IsRecoverable(failure[r])
  /\ IF RequestEventRequired
     THEN Abort(r)
     ELSE /\ Goto(r, "graph")
          /\ UNCHANGED <<req, session, calls, failure, rows, reply, result, answer,
                         policies, faults, edits>>

\* The graph rows of the API: seen once their writer has committed.
GraphVisible == \E q \in Requests : node[q] /\ session[q] = "committed"
GraphHeld(r) == \E q \in Requests \ {r} : node[q] /\ session[q] = "active"

LookUpNode(r) ==
  /\ pc[r] = "graph"
  /\ Goto(r, IF GraphVisible THEN "memory" ELSE "insert_node")
  /\ UNCHANGED <<req, session, calls, failure, rows, reply, result, answer,
                 policies, faults, edits>>

\* The insert waits for another writer of the same rows.  If that one commits,
\* the insert fails; the orchestrator swallows the exception, and its next
\* query raises on the deactivated session.
InsertNode(r) ==
  /\ pc[r] = "insert_node"
  /\ ~GraphHeld(r)
  /\ IF GraphVisible
     THEN Abort(r)
     ELSE /\ node' = [node EXCEPT ![r] = TRUE]
          /\ Goto(r, "memory")
          /\ UNCHANGED <<req, session, calls, failure, attempt, queue, vetted, best,
                         case, audit, reply, result, answer, policies, faults, edits>>

DeterministicCandidates(f) == FromCases(RetrievedCases) \o RetryCandidates(f)

RetrieveMemory(r) ==
  /\ pc[r] = "memory"
  /\ LET cands == DeterministicCandidates(failure[r])
     IN  /\ queue' = [queue EXCEPT ![r] = cands]
         /\ Goto(r, IF GateSufficient(cands, failure[r]) THEN "vet" ELSE "llm")
  /\ UNCHANGED <<req, session, calls, failure, attempt, node, vetted, best, case,
                 audit, reply, result, answer, policies, faults, edits>>

EscalateToLlm(r) ==
  /\ pc[r] = "llm"
  /\ attempt' = [attempt EXCEPT ![r].llm = TRUE]
  /\ \E found \in LlmAnswers : queue' = [queue EXCEPT ![r] = @ \o found]
  /\ Goto(r, "vet")
  /\ UNCHANGED <<req, session, calls, failure, node, vetted, best, case, audit,
                 reply, result, answer, policies, faults, edits>>

\* Rendering the prompt raises on a secret-like key in the error summary.
LlmRaises(r) ==
  /\ pc[r] = "llm"
  /\ PipelineError(r)
  /\ UNCHANGED reply

\* Mutated form: only the candidate row tells of a rejection.
VettingEvents_Silent(passed, index) == {}

VettingEvents(passed, index) ==
  IF passed THEN {} ELSE {<<"CANDIDATE_REJECTED", index>>}

\* One turn of the policy and safety loop, under the policies of this moment.
VetCandidate(r) ==
  /\ pc[r] = "vet"
  /\ queue[r] # <<>>
  /\ LET cand   == Head(queue[r])
         tier   == ClassifyAction(cand.type, policies)
         passed == Validate(cand, tier, req[r].method, attempt[r].count,
                            MaxUpstreamAttempts)
         index  == Len(vetted[r]) + 1
     IN  /\ ~ValidationRaises(cand, tier)
         /\ vetted' = [vetted EXCEPT ![r] =
                         Append(@, [cand |-> cand, tier |-> tier, passed |-> passed])]
         /\ Record(r, VettingEvents(passed, index))
  /\ queue' = [queue EXCEPT ![r] = Tail(@)]
  /\ UNCHANGED <<req, pc, session, calls, failure, attempt, node, best, case,
                 reply, result, answer, policies, faults, edits>>

VettingRaises(r) ==
  /\ pc[r] = "vet"
  /\ queue[r] # <<>>
  /\ LET cand == Head(queue[r])
     IN  ValidationRaises(cand, ClassifyAction(cand.type, policies))
  /\ PipelineError(r)
  /\ UNCHANGED reply

\* Mutated form: rejected candidates stay in the ranking.
Safe_All(cands) == DOMAIN cands

Safe(cands) == {i \in DOMAIN cands : cands[i].passed}

Selects(r, i) ==
  /\ i \in Safe(vetted[r])
  /\ RankedFirst(i, Safe(vetted[r]), [j \in DOMAIN vetted[r] |-> vetted[r][j].cand],
                 failure[r])

NoSafeCandidate(r) ==
  /\ pc[r] = "vet"
  /\ queue[r] = <<>>
  /\ Safe(vetted[r]) = {}
  /\ Fails(r, "TERMINAL_FAILURE", {})

\* Applying the selected candidate raises before the attempt is counted.
ApplyRaises(r) ==
  /\ pc[r] = "vet"
  /\ queue[r] = <<>>
  /\ \E i \in DOMAIN vetted[r] :
       /\ Selects(r, i)
       /\ vetted[r][i].cand.changes = "null_wait"
  /\ attempt[r].count < MaxUpstreamAttempts
  /\ PipelineError(r)
  /\ UNCHANGED reply

\* Mutated forms: the corrected execution is not counted, or counted twice.
CountAfterSelection_Forgotten(count) == count
CountAfterSelection_Twice(count) == count + 2

CountAfterSelection(count) == count + 1

\* The best safe candidate is applied, counted and audited before it is sent.
SelectCandidate(r) ==
  /\ pc[r] = "vet"
  /\ queue[r] = <<>>
  /\ \E i \in DOMAIN vetted[r] :
       /\ Selects(r, i)
       /\ IF attempt[r].count >= MaxUpstreamAttempts
          THEN Fails(r, "TERMINAL_FAILURE", {<<"RETRY_BUDGET_EXHAUSTED", 0>>})
          ELSE /\ vetted[r][i].cand.changes # "null_wait"
               /\ attempt' = [attempt EXCEPT ![r].count = CountAfterSelection(@)]
               /\ best' = [best EXCEPT ![r] = i]
               /\ Record(r, {<<"CANDIDATE_SELECTED", i>>})
               /\ Goto(r, "execute")
               /\ UNCHANGED <<req, session, calls, failure, node, queue, vetted,
                              case, reply, result, answer, policies, faults, edits>>

\* The corrected request; "blocked" is an SSRFError before anything was sent,
\* "redirect_blocked" one at a redirect of a request that was.
ExecuteCorrected(r) ==
  /\ pc[r] = "execute"
  /\ \E outcome \in Replies :
       /\ reply' = [reply EXCEPT ![r] = outcome]
       /\ calls' = [calls EXCEPT ![r] = IF outcome = "blocked" THEN @ ELSE @ + 1]
  /\ Goto(r, "record")
  /\ UNCHANGED <<req, session, failure, rows, result, answer, policies, faults, edits>>

\* Rows with the same signatures, written by the model's earlier successes.
SavedCases(r) ==
  {q \in Requests : session[q] = "committed" /\ case[q] = "new"
                    /\ Signature(failure[q]) = Signature(failure[r])}

\* create_from_llm_success; two rows where one is expected raise, and the
\* orchestrator swallows that.  A deterministic success writes nothing: the
\* candidate rows of the pipeline carry no recovery_case_id.
CaseWritten(r) ==
  IF vetted[r][best[r]].cand.source # Llm THEN None
  ELSE IF SavedCases(r) = {} THEN "new"
  ELSE IF \E q \in SavedCases(r) : SavedCases(r) = {q} THEN "reused"
  ELSE None

RecordSuccess(r) ==
  /\ pc[r] = "record"
  /\ reply[r] = "ok"
  /\ attempt' = [attempt EXCEPT ![r].outcome = "SUCCESS", ![r].executed = TRUE]
  /\ case' = [case EXCEPT ![r] = CaseWritten(r)]
  /\ Record(r, {<<"RECOVERY_SUCCESS", best[r]>>})
  /\ Finish(r, "recovered")
  /\ UNCHANGED <<req, session, calls, failure, node, queue, vetted, best, reply,
                 answer, policies, faults, edits>>

\* Mutated forms: the next candidate is tried; the bookkeeping is done over.
AfterFailedCorrection_NextCandidate == "vet"
AfterFailedCorrection_Again == "record"

\* Where the handler goes after a corrected request that failed.
AfterFailedCorrection == "finish"

\* Mutated form: no failed correction is audited.
CorrectionEvents_Silent(outcome, index) == {}

\* A failing HTTP reply is audited, a transport error is not.
CorrectionEvents(outcome, index) ==
  IF outcome = "http_error" THEN {<<"RECOVERY_FAILURE", index>>} ELSE {}

RecordFailedCorrection(r) ==
  /\ pc[r] = "record"
  /\ reply[r] \in {"http_error", "transport_error"}
  /\ attempt' = [attempt EXCEPT ![r].outcome = "FAILURE", ![r].executed = TRUE]
  /\ Record(r, CorrectionEvents(reply[r], best[r]))
  /\ Goto(r, AfterFailedCorrection)
  /\ result' = [result EXCEPT ![r] = "recovery_failed"]
  /\ UNCHANGED <<req, session, calls, failure, node, queue, vetted, best, case,
                 reply, answer, policies, faults, edits>>

CorrectionBlocked(r) ==
  /\ pc[r] = "record"
  /\ reply[r] \in {"blocked", "redirect_blocked"}
  /\ PipelineError(r)
  /\ UNCHANGED reply

-------------------------------------------------------------------------------
(* get_db's commit, the response, and what may go wrong.  Whether the      *)
(* commit precedes the response depends on the FastAPI release, and the    *)
(* requirement (fastapi>=0.115) admits both orders.                        *)

Commit(r) ==
  /\ pc[r] = "finish"
  /\ session[r] = "active"
  /\ session' = [session EXCEPT ![r] = "committed"]
  /\ UNCHANGED <<req, pc, calls, failure, rows, reply, result, answer, policies,
                 faults, edits>>

Respond(r) ==
  /\ pc[r] = "finish"
  /\ answer[r] = None
  /\ answer' = [answer EXCEPT ![r] = result[r]]
  /\ UNCHANGED <<req, pc, session, calls, failure, rows, reply, result, policies,
                 faults, edits>>

\* The stages whose next step issues SQL.
DatabaseStages ==
  {"attempt", "classify", "graph", "insert_node", "memory", "vet", "record", "finish"}

LoseConnection(r) ==
  /\ faults < MaxFaults
  /\ pc[r] \in DatabaseStages
  /\ session[r] = "active"
  /\ faults' = faults + 1
  /\ CloseWith(r, "server_error")
  /\ UNCHANGED <<req, calls, failure, rows, reply, result, policies, edits>>

\* The process dies; the database rolls back what it had not committed.
Crash(r) ==
  /\ faults < MaxFaults
  /\ pc[r] \notin {"idle", "closed"}
  /\ \/ session[r] = "active"
     \/ answer[r] = None
  /\ faults' = faults + 1
  /\ Goto(r, "closed")
  /\ session' = [session EXCEPT ![r] = IF @ = "active" THEN "rolledback" ELSE @]
  /\ UNCHANGED <<req, calls, failure, rows, reply, result, answer, policies, edits>>

\* The policy endpoints, as far as the pipeline sees them.
EditPolicy ==
  /\ edits < MaxEdits
  /\ \E edit \in PolicyEdits :
       /\ policies[edit[1]] # edit[2]
       /\ policies' = [policies EXCEPT ![edit[1]] = edit[2]]
  /\ edits' = edits + 1
  /\ UNCHANGED <<req, pc, session, calls, failure, rows, reply, result, answer, faults>>

-------------------------------------------------------------------------------
Settled(r) ==
  \/ pc[r] = "closed"
  \/ pc[r] = "finish" /\ session[r] = "committed" /\ answer[r] # None

\* Every step the handler itself takes once the request has arrived.
Handle(r) ==
  \/ OriginalSucceeds(r) \/ OriginalBlocked(r) \/ OriginalFails(r)
  \/ InsertAttempt(r) \/ NotRecoverable(r) \/ RecordFailure(r)
  \/ LookUpNode(r) \/ InsertNode(r) \/ RetrieveMemory(r)
  \/ EscalateToLlm(r) \/ LlmRaises(r)
  \/ VetCandidate(r) \/ VettingRaises(r)
  \/ NoSafeCandidate(r) \/ ApplyRaises(r) \/ SelectCandidate(r)
  \/ ExecuteCorrected(r)
  \/ RecordSuccess(r) \/ RecordFailedCorrection(r) \/ CorrectionBlocked(r)
  \/ Commit(r) \/ Respond(r)

\* All requests are served: the bounded system stops.
Quiescent == (\A r \in Requests : Settled(r)) /\ UNCHANGED vars

Next ==
  \/ \E r \in Requests :
       Receive(r) \/ RejectApi(r) \/ Handle(r) \/ LoseConnection(r) \/ Crash(r)
  \/ EditPolicy
  \/ Quiescent

Spec == Init /\ [][Next]_vars

(* A request that has arrived keeps being scheduled: the event loop runs   *)
(* every ready coroutine, and the upstream, the model and the database     *)
(* answer or time out.  Arrivals, faults and edits are not fair.           *)
FairSpec == Spec /\ \A r \in Requests : WF_vars(Handle(r))

-------------------------------------------------------------------------------
(* Properties *)

\* The attempt row's count never lags behind the executions: while there is no
\* row at most the original was executed, and with a row every execution, the
\* one in flight included, is counted, and there are at most two.  (run inserts
\* the row with 1 after the original; _pipeline counts before it sends.)
CountCoversExecutions ==
  \A r \in Requests :
    IF attempt[r].count = 0 THEN calls[r] <= 1 ELSE calls[r] <= attempt[r].count

\* A correction that was sent is one that passed all checks, under the tier in
\* force when it was vetted: no NEVER_AUTOMATIC or hardcoded type, no secret and
\* no host change, and without approval only a safe type on an idempotent method.
\* (the filter, ranking and selection of _pipeline between vetting and sending)
OnlyClearedCorrectionRuns ==
  \A r \in Requests :
    reply[r] # None =>
      LET chosen == vetted[r][best[r]]
      IN  /\ best[r] \in DOMAIN vetted[r]
          /\ chosen.tier # NeverAutomatic
          /\ chosen.cand.type \notin HardcodedNeverAutomatic
          /\ chosen.cand.changes \notin {"secret", "host_replace", "not_iterable"}
          /\ chosen.tier = AutoEligible =>
               chosen.cand.type \in SafeActionTypes /\ req[r].method \in IdempotentMethods

\* What a committed transaction says happened is what happened: every rejected
\* candidate has its CANDIDATE_REJECTED event, a second execution has the
\* CANDIDATE_SELECTED event of the candidate that was sent, RECOVERY_SUCCESS is
\* there exactly when the upstream accepted the correction, RECOVERY_FAILURE exactly
\* when it answered with an error status, and a correction that was blocked has left
\* a PIPELINE_ERROR.  (_pipeline's audit calls, run's except branch)
CommittedTrail ==
  \A r \in Requests :
    session[r] = "committed" =>
      /\ \A i \in DOMAIN vetted[r] :
           ~vetted[r][i].passed <=> <<"CANDIDATE_REJECTED", i>> \in audit[r]
      /\ calls[r] = 2 => <<"CANDIDATE_SELECTED", best[r]>> \in audit[r]
      /\ reply[r] = "ok" <=> <<"RECOVERY_SUCCESS", best[r]>> \in audit[r]
      /\ reply[r] = "http_error" <=> <<"RECOVERY_FAILURE", best[r]>> \in audit[r]
      /\ reply[r] \in {"blocked", "redirect_blocked"} => <<"PIPELINE_ERROR", 0>> \in audit[r]

\* Of the requests that share a correlation ID, and whose transactions were not
\* rolled back, at most one executed a correction: the unique attempt row that
\* is taken before the pipeline starts makes the second one wait and then fail.
CorrectedOncePerCorrelation ==
  \A q, r \in Requests :
    /\ req[q].corr = req[r].corr
    /\ calls[q] = 2 /\ session[q] # "rolledback"
    /\ calls[r] = 2 /\ session[r] # "rolledback"
    => q = r

\* The client and the database are never told different stories: an error answer
\* leaves no rows, and a committed attempt has the outcome that the handler's
\* status, and the executions made, stand for.  (broker_execute's mapping of
\* RecoveryResult, run's two exits, get_db's two)
AnswerMatchesRecord ==
  \A r \in Requests :
    /\ answer[r] \in {"server_error", "forbidden", "rejected"} => session[r] = "rolledback"
    /\ session[r] = "committed" =>
         /\ answer[r] \in {None, result[r]}
         /\ result[r] = "recovered" <=> attempt[r].outcome = "SUCCESS"
         /\ result[r] = "recovery_failed" <=>
              attempt[r].outcome \in {"FAILURE", "TERMINAL_FAILURE"}
         /\ result[r] = "recovered" => calls[r] = 2 /\ attempt[r].executed

\* Above 40 hundredths no evidence ever spares the model: of the five weights of the
\* gate the orchestrator feeds two, which come to 40, so whatever cases are stored a
\* candidate is vetted and executed only after the model has been asked.  The shipped
\* threshold is 65.  (evaluate_confidence as _pipeline calls it)
EvidenceNeverSuffices ==
  ConfidenceThreshold > WeightHistorical + WeightFailureMatch =>
    \A r \in Requests : pc[r] \in {"vet", "execute", "record"} => attempt[r].llm

\* The refinement mapping: a request is open until its candidate is selected, and
\* holds the claim while its attempt row is in an open or committed transaction.
PhaseOf(stage) ==
  CASE stage = "idle" -> "idle"
    [] stage = "execute" -> "cleared"
    [] stage \in {"record", "finish", "closed"} -> "closed"
    [] OTHER -> "open"

HoldsAttempt(r) == attempt[r].count > 0 /\ session[r] \in {"active", "committed"}

Budget == INSTANCE ExecutionBudget WITH
  corr    <- [r \in Requests |-> req[r].corr],
  phase   <- [r \in Requests |-> PhaseOf(pc[r])],
  claimed <- {r \in Requests : HoldsAttempt(r)}

\* The pipeline implements the abstract promise about upstream executions: one
\* original, a claim on the correlation ID, one clearance, one correction, and
\* nothing after it, across rollbacks, crashes and concurrent requests.
ImplementsBudget == Budget!Spec

\* Every request whose upstream call has been started is eventually answered or
\* aborted, with its transaction ended: the waits for the attempt row and the
\* graph rows of other transactions never form a cycle.
EveryRequestSettles == \A r \in Requests : pc[r] = "original" ~> Settled(r)
===============================================================================
