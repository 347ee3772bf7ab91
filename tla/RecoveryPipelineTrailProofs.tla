---------------------- MODULE RecoveryPipelineTrailProofs ----------------------
(***************************************************************************)
(* What a committed transaction of RecoveryPipeline says is what happened, *)
(* and what the client is told: CommittedTrail and AnswerMatchesRecord,    *)
(* for every value of the constants.  The invariant of                     *)
(* RecoveryPipelineProofs is extended by what the audit rows, the outcome  *)
(* and the answer of a request are at each stage, before the commit too.   *)
(***************************************************************************)
EXTENDS RecoveryPipelineProofs

\* The audit rows of the request: of rejections exactly those of the rejected
\* candidates vetted so far, the selection from before the corrected call on, and
\* what the call came to once that is known.
AuditOK(r) ==
  /\ \A e \in audit[r] : e[1] = "CANDIDATE_REJECTED" =>
       e[2] \in DOMAIN vetted[r] /\ ~vetted[r][e[2]].passed
  /\ \A i \in DOMAIN vetted[r] :
       ~vetted[r][i].passed => <<"CANDIDATE_REJECTED", i>> \in audit[r]
  /\ pc[r] = "execute" \/ reply[r] # None => <<"CANDIDATE_SELECTED", best[r]>> \in audit[r]
  /\ \A e \in audit[r] :
       /\ e[1] = "RECOVERY_SUCCESS" => reply[r] = "ok" /\ pc[r] \in {"finish", "closed"}
       /\ e[1] = "RECOVERY_FAILURE" =>
            reply[r] = "http_error" /\ pc[r] \in {"finish", "closed"}
  /\ pc[r] = "finish" \/ session[r] = "committed" =>
       /\ reply[r] = "ok" => <<"RECOVERY_SUCCESS", best[r]>> \in audit[r]
       /\ reply[r] = "http_error" => <<"RECOVERY_FAILURE", best[r]>> \in audit[r]
       /\ reply[r] \in {"blocked", "redirect_blocked"} => <<"PIPELINE_ERROR", 0>> \in audit[r]

\* The corrected call's reply, and whether it was sent.
ReplyOK(r) ==
  /\ calls[r] = 2 => reply[r] # None
  /\ pc[r] = "record" => reply[r] # None
  /\ reply[r] \notin {None, "blocked"} => calls[r] = 2

\* The row's outcome is the one that the handler's status stands for.
OutcomeMatches(r) ==
  /\ result[r] = "recovered" <=> attempt[r].outcome = "SUCCESS"
  /\ result[r] = "recovery_failed" <=>
       attempt[r].outcome \in {"FAILURE", "TERMINAL_FAILURE"}
  /\ result[r] = "recovered" => calls[r] = 2 /\ attempt[r].executed

\* Nothing is concluded before the end; then the outcome and the answer agree.
OutcomeOK(r) ==
  /\ pc[r] \notin {"finish", "closed"} =>
       answer[r] = None /\ result[r] = None /\ attempt[r].outcome = None
  /\ session[r] # "rolledback" => OutcomeMatches(r) /\ answer[r] \in {None, result[r]}

TrailOK(r) == AuditOK(r) /\ ReplyOK(r) /\ OutcomeOK(r)

TrailInv == IInv /\ \A r \in Requests : TrailOK(r)

-------------------------------------------------------------------------------
(* What a step of another request leaves alone *)

Untouched(q) ==
  /\ pc'[q] = pc[q] /\ session'[q] = session[q] /\ calls'[q] = calls[q]
  /\ attempt'[q] = attempt[q] /\ vetted'[q] = vetted[q] /\ best'[q] = best[q]
  /\ reply'[q] = reply[q] /\ audit'[q] = audit[q] /\ result'[q] = result[q]
  /\ answer'[q] = answer[q]

LEMMA UntouchedTrail ==
  ASSUME NEW q \in Requests, TrailOK(q), Untouched(q)
  PROVE  TrailOK(q)'
  BY DEF Untouched, TrailOK, AuditOK, ReplyOK, OutcomeOK, OutcomeMatches

LEMMA InitTrail == Init => \A r \in Requests : TrailOK(r)
  BY DEF Init, TrailOK, AuditOK, ReplyOK, OutcomeOK, OutcomeMatches, NoAttempt, None

\* The steps of one request touch no other.
LEMMA OthersUntouched ==
  ASSUME IInv, NEW r \in Requests,
         Receive(r) \/ RejectApi(r) \/ Handle(r) \/ LoseConnection(r) \/ Crash(r)
  PROVE  \A q \in Requests \ {r} : Untouched(q)
<1> USE DEF Untouched, IInv, TypeOK, rows, Goto
<1>1. CASE Receive(r) \/ RejectApi(r) \/ LoseConnection(r) \/ Crash(r)
  BY <1>1 DEF Receive, RejectApi, LoseConnection, Crash, CloseWith
<1>2. CASE OriginalSucceeds(r) \/ OriginalBlocked(r) \/ OriginalFails(r)
  BY <1>2 DEF OriginalSucceeds, OriginalBlocked, OriginalFails, CloseWith, Finish
<1>3. CASE InsertAttempt(r)
  BY <1>3 DEF InsertAttempt, Abort, CloseWith
<1>4. CASE RecordFailure(r) \/ LookUpNode(r) \/ RetrieveMemory(r)
  BY <1>4 DEF RecordFailure, LookUpNode, RetrieveMemory, Abort, CloseWith
<1>5. CASE InsertNode(r)
  BY <1>5 DEF InsertNode, Abort, CloseWith
<1>6. CASE NotRecoverable(r) \/ NoSafeCandidate(r)
  BY <1>6 DEF NotRecoverable, NoSafeCandidate, Fails, Finish, Record
<1>7. CASE LlmRaises(r) \/ VettingRaises(r) \/ ApplyRaises(r) \/ CorrectionBlocked(r)
  BY <1>7 DEF LlmRaises, VettingRaises, ApplyRaises, CorrectionBlocked, PipelineError,
     Finish, Record
<1>8. CASE EscalateToLlm(r)
  BY <1>8 DEF EscalateToLlm
<1>9. CASE VetCandidate(r)
  BY <1>9 DEF VetCandidate, Record
<1>10. CASE SelectCandidate(r)
  BY <1>10 DEF SelectCandidate, Fails, Finish, Record
<1>11. CASE ExecuteCorrected(r) \/ Commit(r) \/ Respond(r)
  BY <1>11 DEF ExecuteCorrected, Commit, Respond
<1>12. CASE RecordSuccess(r) \/ RecordFailedCorrection(r)
  BY <1>12 DEF RecordSuccess, RecordFailedCorrection, Finish, Record
<1>13. QED
  BY <1>1, <1>2, <1>3, <1>4, <1>5, <1>6, <1>7, <1>8, <1>9, <1>10, <1>11, <1>12 DEF Handle

-------------------------------------------------------------------------------
(* The ways out of the pipeline *)

\* A request that ends in a rollback keeps its trail, which nobody will read.
LEMMA RolledBackTrail ==
  ASSUME IInv, NEW r \in Requests, TrailOK(r),
         pc'[r] = "closed", session'[r] = "rolledback",
         UNCHANGED <<attempt, vetted, best, reply, audit, result>>,
         calls'[r] = calls[r] \/ (calls'[r] \in 0..1 /\ reply[r] = None)
  PROVE  TrailOK(r)'
  BY DEF TrailOK, AuditOK, ReplyOK, OutcomeOK, OutcomeMatches, IInv, TypeOK

\* What is rolled back needs no trail.
LEMMA AbortTrail ==
  ASSUME IInv, NEW r \in Requests, TrailOK(r), Abort(r)
  PROVE  TrailOK(r)'
  BY RolledBackTrail DEF Abort, CloseWith, SessionAfterError, Goto, rows, IInv, TypeOK

\* A stage that fails concludes with an outcome that is not a success, before or
\* without an accepted correction.
LEMMA FailsTrail ==
  ASSUME IInv, NEW r \in Requests, TrailOK(r), pc[r] \in PipelineInside,
         NEW outcome \in {"FAILURE", "TERMINAL_FAILURE"}, NEW events,
         \A e \in events : e[1] \notin {"CANDIDATE_REJECTED", "RECOVERY_SUCCESS", "RECOVERY_FAILURE"},
         Fails(r, outcome, events)
  PROVE  TrailOK(r)'
<1>1. attempt \in [Requests -> AttemptRows]
  BY DEF IInv, TypeOK, AttemptRows
<1>2. /\ attempt'[r].outcome = outcome /\ audit'[r] = audit[r] \cup events
      /\ pc'[r] = "finish" /\ result'[r] = "recovery_failed"
      /\ UNCHANGED <<session, calls, vetted, best, reply, answer>>
  BY <1>1 DEF Fails, Finish, Goto, Record, IInv, TypeOK, AttemptRows
<1>3. reply[r] = None /\ session[r] = "active" /\ calls[r] = 1
  BY DEF IInv, RequestsOK, StageOK, ChoiceOK
<1>4. answer[r] = None
  BY DEF TrailOK, OutcomeOK, PipelineInside
<1>5. AuditOK(r)'
  BY <1>2, <1>3 DEF TrailOK, AuditOK, None, PipelineInside
<1>6. ReplyOK(r)' /\ OutcomeOK(r)'
  BY <1>2, <1>3, <1>4 DEF TrailOK, ReplyOK, OutcomeOK, OutcomeMatches, None
<1>7. QED
  BY <1>5, <1>6 DEF TrailOK

\* The except branch of run concludes with an outcome that the client is told.
LEMMA PipelineErrorTrail ==
  ASSUME IInv, NEW r \in Requests, TrailOK(r),
         pc[r] \in PipelineInside \cup {"record"}, reply[r] \notin {"ok", "http_error"},
         PipelineError(r), UNCHANGED reply
  PROVE  TrailOK(r)'
<1>1. attempt \in [Requests -> AttemptRows]
  BY DEF IInv, TypeOK, AttemptRows
<1>2. /\ attempt'[r].outcome = "TERMINAL_FAILURE"
      /\ audit'[r] = audit[r] \cup {<<"PIPELINE_ERROR", 0>>}
      /\ pc'[r] = "finish" /\ result'[r] = "recovery_failed"
      /\ UNCHANGED <<session, calls, vetted, best, reply, answer>>
  BY <1>1 DEF PipelineError, Finish, Goto, Record, IInv, TypeOK, AttemptRows
<1>3. answer[r] = None
  BY DEF TrailOK, OutcomeOK, PipelineInside
<1>4. AuditOK(r)'
  BY <1>2 DEF TrailOK, AuditOK, PipelineInside
<1>5. ReplyOK(r)' /\ OutcomeOK(r)'
  BY <1>2, <1>3 DEF TrailOK, ReplyOK, OutcomeOK, OutcomeMatches, None
<1>6. QED
  BY <1>4, <1>5 DEF TrailOK

-------------------------------------------------------------------------------
(* One lemma per action that concludes, audits or answers *)

\* The steps before anything is vetted, and those that only move on.
QuietStep(r) ==
  \/ Receive(r) \/ LookUpNode(r) \/ RetrieveMemory(r) \/ EscalateToLlm(r)
  \/ InsertAttempt(r) \/ RecordFailure(r) \/ InsertNode(r)

\* A step that neither writes an event nor gives an outcome, or else aborts.
LEMMA QuietTrail ==
  ASSUME IInv, NEW r \in Requests, TrailOK(r), QuietStep(r)
  PROVE  TrailOK(r)'
<1>0. attempt \in [Requests -> AttemptRows]
  BY DEF IInv, TypeOK, AttemptRows
<1>1. CASE Abort(r)
  BY <1>1, AbortTrail
<1>2. CASE ~Abort(r)
  <2>1. /\ attempt'[r].outcome = attempt[r].outcome
        /\ UNCHANGED <<calls, vetted, best, reply, audit, result, answer>>
        /\ pc[r] \in {"idle", "attempt"} \cup PipelineInside
        /\ pc'[r] \in {"original"} \cup PipelineInside
        /\ session'[r] = "active" /\ session[r] # "rolledback"
    <3>1. CASE Receive(r)
      BY <3>1 DEF Receive, Goto, rows, IInv, TypeOK, RequestsOK, StageOK
    <3>2. CASE LookUpNode(r) \/ RetrieveMemory(r)
      BY <3>2 DEF LookUpNode, RetrieveMemory, Goto, rows, IInv, TypeOK, RequestsOK, StageOK,
         PipelineInside
    <3>3. CASE EscalateToLlm(r)
      BY <1>0, <3>3 DEF EscalateToLlm, Goto, IInv, TypeOK, RequestsOK, StageOK,
         PipelineInside, AttemptRows
    <3>4. CASE InsertAttempt(r)
      BY <1>0, <1>2, <3>4 DEF InsertAttempt, Goto, IInv, TypeOK, RequestsOK, StageOK,
         PipelineInside, AttemptRows, NoAttempt
    <3>5. CASE RecordFailure(r) \/ InsertNode(r)
      BY <1>2, <3>5 DEF RecordFailure, InsertNode, Goto, rows, IInv, TypeOK, RequestsOK,
         StageOK, PipelineInside
    <3>6. QED
      BY <3>1, <3>2, <3>3, <3>4, <3>5 DEF QuietStep
  <2>2. AuditOK(r)'
    BY <2>1 DEF TrailOK, AuditOK, PipelineInside
  <2>3. ReplyOK(r)'
    BY <2>1 DEF TrailOK, ReplyOK, PipelineInside
  <2>4. OutcomeOK(r)'
    BY <2>1 DEF TrailOK, OutcomeOK, OutcomeMatches, PipelineInside, None
  <2>5. QED
    BY <2>2, <2>3, <2>4 DEF TrailOK
<1>3. QED
  BY <1>1, <1>2

\* The original execution: a success is concluded at once, an SSRF error rolls back.
LEMMA OriginalTrail ==
  ASSUME IInv, NEW r \in Requests, TrailOK(r),
         OriginalSucceeds(r) \/ OriginalBlocked(r) \/ OriginalFails(r)
  PROVE  TrailOK(r)'
<1>1. pc[r] = "original" /\ session[r] = "active" /\ calls[r] = 0 /\ reply[r] = None
  BY DEF OriginalSucceeds, OriginalBlocked, OriginalFails, IInv, RequestsOK, StageOK, ChoiceOK
<1>2. answer[r] = None /\ result[r] = None /\ attempt[r].outcome = None
  BY <1>1 DEF TrailOK, OutcomeOK
<1>3. CASE OriginalBlocked(r)
  <2>1. calls'[r] \in 0..1
    BY <1>1, <1>3 DEF OriginalBlocked, IInv, TypeOK
  <2>2. QED
    BY <1>1, <1>3, <2>1, RolledBackTrail DEF OriginalBlocked, CloseWith, SessionAfterError,
       Goto, rows, IInv, TypeOK
<1>4. CASE OriginalSucceeds(r) \/ OriginalFails(r)
  <2>1. /\ calls'[r] = 1 /\ UNCHANGED <<session, attempt, vetted, best, reply, audit, answer>>
        /\ \/ pc'[r] = "attempt" /\ result'[r] = None
           \/ pc'[r] = "finish" /\ result'[r] \in {"success", "failure"}
    BY <1>1, <1>2, <1>4 DEF OriginalSucceeds, OriginalFails, Finish, Goto, rows, IInv, TypeOK
  <2>2. QED
    BY <1>1, <1>2, <2>1 DEF TrailOK, AuditOK, ReplyOK, OutcomeOK, OutcomeMatches, None
<1>5. QED
  BY <1>3, <1>4

\* A vetted candidate's row and its rejection event come together.
LEMMA VetTrail ==
  ASSUME IInv, NEW r \in Requests, TrailOK(r), VetCandidate(r)
  PROVE  TrailOK(r)'
<1> DEFINE cand   == Head(queue[r])
           tier   == ClassifyAction(cand.type, policies)
           passed == Validate(cand, tier, req[r].method, attempt[r].count, MaxUpstreamAttempts)
           row    == [cand |-> cand, tier |-> tier, passed |-> passed]
           n      == Len(vetted[r]) + 1
<1>1. /\ vetted' = [vetted EXCEPT ![r] = Append(@, row)]
      /\ audit' = [audit EXCEPT ![r] = @ \cup VettingEvents(passed, n)]
  BY DEF VetCandidate, Record
<1>2. row.passed = passed
  OBVIOUS
<1> HIDE DEF row, passed
<1>3. vetted[r] \in Seq(Vetted)
  BY DEF IInv, TypeOK
<1>4. vetted'[r] = Append(vetted[r], row) /\ audit'[r] = audit[r] \cup VettingEvents(passed, n)
  BY <1>1 DEF IInv, TypeOK
<1>5. /\ Len(vetted[r]) \in Nat
      /\ DOMAIN vetted[r] = 1..Len(vetted[r]) /\ DOMAIN vetted'[r] = 1..n
      /\ vetted'[r][n] = row
      /\ \A i \in DOMAIN vetted[r] : vetted'[r][i] = vetted[r][i]
  BY <1>3, <1>4
<1>6. UNCHANGED <<pc, session, calls, attempt, best, reply, result, answer>>
  BY DEF VetCandidate
<1>7. pc[r] = "vet" /\ reply[r] = None
  BY DEF VetCandidate, IInv, RequestsOK, ChoiceOK, PipelineInside
<1>8. VettingEvents(passed, n) = IF passed THEN {} ELSE {<<"CANDIDATE_REJECTED", n>>}
  BY DEF VettingEvents
<1>9. AuditOK(r)'
  <2>1. ASSUME NEW e \in audit'[r], e[1] = "CANDIDATE_REJECTED"
        PROVE  e[2] \in DOMAIN vetted'[r] /\ ~vetted'[r][e[2]].passed
    <3>1. CASE e \in audit[r]
      <4>1. e[2] \in DOMAIN vetted[r] /\ ~vetted[r][e[2]].passed
        BY <2>1, <3>1 DEF TrailOK, AuditOK
      <4>2. QED
        BY <4>1, <1>5
    <3>2. CASE e \notin audit[r]
      <4>1. e[2] = n /\ ~passed
        BY <1>4, <1>8, <2>1, <3>2
      <4>2. QED
        BY <4>1, <1>2, <1>5
    <3>3. QED
      BY <3>1, <3>2
  <2>2. ASSUME NEW i \in DOMAIN vetted'[r], ~vetted'[r][i].passed
        PROVE  <<"CANDIDATE_REJECTED", i>> \in audit'[r]
    <3>1. CASE i = n
      BY <1>2, <1>4, <1>5, <1>8, <2>2, <3>1
    <3>2. CASE i # n
      <4>1. i \in DOMAIN vetted[r] /\ ~vetted[r][i].passed
        BY <1>5, <2>2, <3>2
      <4>2. QED
        BY <1>4, <4>1 DEF TrailOK, AuditOK
    <3>3. QED
      BY <3>1, <3>2
  <2>3. \A e \in audit'[r] : e[1] \in {"RECOVERY_SUCCESS", "RECOVERY_FAILURE"} => e \in audit[r]
    BY <1>4, <1>8
  <2>4. QED
    BY <1>6, <1>7, <2>1, <2>2, <2>3 DEF TrailOK, AuditOK, None
<1>10. ReplyOK(r)' /\ OutcomeOK(r)'
  BY <1>6 DEF TrailOK, ReplyOK, OutcomeOK, OutcomeMatches
<1>11. QED
  BY <1>9, <1>10 DEF TrailOK

\* The selection is audited before the corrected request is sent.
LEMMA SelectTrail ==
  ASSUME IInv, NEW r \in Requests, TrailOK(r), SelectCandidate(r)
  PROVE  TrailOK(r)'
<1>1. pc[r] = "vet" /\ reply[r] = None /\ attempt[r].count = 1
  BY DEF SelectCandidate, IInv, RequestsOK, StageOK, ChoiceOK, PipelineInside
<1>2. PICK i \in DOMAIN vetted[r] :
        /\ attempt' = [attempt EXCEPT ![r].count = CountAfterSelection(@)]
        /\ best' = [best EXCEPT ![r] = i]
        /\ Record(r, {<<"CANDIDATE_SELECTED", i>>})
        /\ Goto(r, "execute")
        /\ UNCHANGED <<req, session, calls, failure, node, queue, vetted, case, reply,
                       result, answer, policies, faults, edits>>
  <2>1. ~(attempt[r].count >= MaxUpstreamAttempts)
    BY <1>1 DEF MaxUpstreamAttempts
  <2>2. QED
    BY <2>1, Zenon DEF SelectCandidate
<1>3. attempt \in [Requests -> AttemptRows]
  BY DEF IInv, TypeOK, AttemptRows
<1>4. /\ attempt'[r].outcome = attempt[r].outcome
      /\ audit'[r] = audit[r] \cup {<<"CANDIDATE_SELECTED", i>>}
      /\ best'[r] = i /\ pc'[r] = "execute"
  BY <1>2, <1>3 DEF IInv, TypeOK, AttemptRows, Record, Goto
<1>5. AuditOK(r)'
  BY <1>1, <1>2, <1>4 DEF TrailOK, AuditOK, None
<1>6. ReplyOK(r)' /\ OutcomeOK(r)'
  BY <1>1, <1>2, <1>4 DEF TrailOK, ReplyOK, OutcomeOK, OutcomeMatches
<1>7. QED
  BY <1>5, <1>6 DEF TrailOK

\* The corrected call: count, reply and selection event go together.
LEMMA ExecuteTrail ==
  ASSUME IInv, NEW r \in Requests, TrailOK(r), ExecuteCorrected(r)
  PROVE  TrailOK(r)'
<1>1. pc[r] = "execute" /\ calls[r] = 1 /\ reply[r] = None /\ session[r] = "active"
  BY DEF ExecuteCorrected, IInv, RequestsOK, StageOK, ChoiceOK
<1>2. PICK outcome \in Replies :
        /\ reply' = [reply EXCEPT ![r] = outcome]
        /\ calls' = [calls EXCEPT ![r] = IF outcome = "blocked" THEN @ ELSE @ + 1]
  BY DEF ExecuteCorrected
<1>3. /\ reply'[r] = outcome /\ pc'[r] = "record"
      /\ calls'[r] = (IF outcome = "blocked" THEN 1 ELSE 2)
      /\ UNCHANGED <<session, attempt, vetted, best, audit, result, answer>>
  BY <1>1, <1>2 DEF ExecuteCorrected, Goto, rows, IInv, TypeOK
<1>4. AuditOK(r)'
  BY <1>1, <1>3 DEF TrailOK, AuditOK, None
<1>5. ReplyOK(r)' /\ OutcomeOK(r)'
  BY <1>1, <1>3 DEF TrailOK, ReplyOK, OutcomeOK, OutcomeMatches, Replies, None
<1>6. QED
  BY <1>4, <1>5 DEF TrailOK

\* The two conclusions after a corrected request that was answered.
LEMMA RecordTrail ==
  ASSUME IInv, NEW r \in Requests, TrailOK(r), RecordSuccess(r) \/ RecordFailedCorrection(r)
  PROVE  TrailOK(r)'
<1>0. attempt \in [Requests -> AttemptRows]
  BY DEF IInv, TypeOK, AttemptRows
<1>1. pc[r] = "record" /\ session[r] = "active" /\ reply[r] \notin {None, "blocked"}
  BY DEF RecordSuccess, RecordFailedCorrection, IInv, RequestsOK, StageOK, None
<1>2. answer[r] = None /\ calls[r] = 2
  BY <1>1 DEF TrailOK, OutcomeOK, ReplyOK
<1>3. UNCHANGED <<session, calls, vetted, best, reply, answer>> /\ pc'[r] = "finish"
  BY DEF RecordSuccess, RecordFailedCorrection, Finish, Goto, AfterFailedCorrection, IInv,
     TypeOK
<1>4. CASE RecordSuccess(r)
  <2>1. /\ attempt'[r].outcome = "SUCCESS" /\ attempt'[r].executed = TRUE
        /\ audit'[r] = audit[r] \cup {<<"RECOVERY_SUCCESS", best[r]>>}
        /\ result'[r] = "recovered" /\ reply[r] = "ok"
    BY <1>0, <1>4 DEF RecordSuccess, Finish, Record, IInv, TypeOK, AttemptRows
  <2>2. AuditOK(r)'
    BY <1>1, <1>3, <2>1 DEF TrailOK, AuditOK, None
  <2>3. ReplyOK(r)' /\ OutcomeOK(r)'
    BY <1>1, <1>2, <1>3, <2>1 DEF TrailOK, ReplyOK, OutcomeOK, OutcomeMatches
  <2>4. QED
    BY <2>2, <2>3 DEF TrailOK
<1>5. CASE RecordFailedCorrection(r)
  <2>1. PICK events :
          /\ events = IF reply[r] = "http_error" THEN {<<"RECOVERY_FAILURE", best[r]>>} ELSE {}
          /\ audit' = [audit EXCEPT ![r] = @ \cup events]
    BY <1>5 DEF RecordFailedCorrection, Record, CorrectionEvents
  <2>2. /\ attempt'[r].outcome = "FAILURE" /\ audit'[r] = audit[r] \cup events
        /\ result'[r] = "recovery_failed"
      /\ reply[r] \in {"http_error", "transport_error"}
    BY <1>0, <1>5, <2>1 DEF RecordFailedCorrection, IInv, TypeOK, AttemptRows
  <2>3. AuditOK(r)'
    BY <1>1, <1>3, <2>1, <2>2 DEF TrailOK, AuditOK, None
  <2>4. ReplyOK(r)' /\ OutcomeOK(r)'
    BY <1>1, <1>2, <1>3, <2>2 DEF TrailOK, ReplyOK, OutcomeOK, OutcomeMatches
  <2>5. QED
    BY <2>3, <2>4 DEF TrailOK
<1>6. QED
  BY <1>4, <1>5

\* The ends of a pipeline without an accepted correction.
LEMMA EndTrail ==
  ASSUME IInv, NEW r \in Requests, TrailOK(r),
         \/ NotRecoverable(r) \/ NoSafeCandidate(r) \/ LlmRaises(r) \/ VettingRaises(r)
         \/ ApplyRaises(r) \/ CorrectionBlocked(r)
  PROVE  TrailOK(r)'
<1>1. CASE NotRecoverable(r)
  BY <1>1, FailsTrail DEF NotRecoverable, PipelineInside
<1>2. CASE NoSafeCandidate(r)
  BY <1>2, FailsTrail DEF NoSafeCandidate, PipelineInside
<1>3. CASE LlmRaises(r) \/ VettingRaises(r) \/ ApplyRaises(r)
  <2>1. pc[r] \in PipelineInside /\ PipelineError(r) /\ UNCHANGED reply
    BY <1>3 DEF LlmRaises, VettingRaises, ApplyRaises, PipelineInside
  <2>2. reply[r] \notin {"ok", "http_error"}
    BY <2>1 DEF IInv, RequestsOK, ChoiceOK, None
  <2>3. QED
    BY <2>1, <2>2, PipelineErrorTrail
<1>4. CASE CorrectionBlocked(r)
  BY <1>4, PipelineErrorTrail DEF CorrectionBlocked
<1>5. QED
  BY <1>1, <1>2, <1>3, <1>4

\* The commit, the response and the faults.
LEMMA CloseTrail ==
  ASSUME IInv, NEW r \in Requests, TrailOK(r),
         \/ Commit(r) \/ Respond(r) \/ RejectApi(r) \/ LoseConnection(r) \/ Crash(r)
  PROVE  TrailOK(r)'
<1>1. CASE Commit(r)
  BY <1>1 DEF Commit, rows, IInv, TypeOK, TrailOK, AuditOK, ReplyOK, OutcomeOK,
     OutcomeMatches
<1>2. CASE Respond(r)
  BY <1>2 DEF Respond, rows, IInv, TypeOK, TrailOK, AuditOK, ReplyOK, OutcomeOK,
     OutcomeMatches
<1>3. CASE RejectApi(r) \/ LoseConnection(r)
  BY <1>3, RolledBackTrail DEF RejectApi, LoseConnection, CloseWith, SessionAfterError, Goto,
     rows, IInv, TypeOK
<1>4. CASE Crash(r)
  <2>1. UNCHANGED <<calls, attempt, vetted, best, reply, audit, result, answer>>
        /\ pc'[r] = "closed"
    BY <1>4 DEF Crash, Goto, rows, IInv, TypeOK
  <2>2. CASE session[r] = "active"
    BY <1>4, <2>1, <2>2, RolledBackTrail DEF Crash, IInv, TypeOK
  <2>3. CASE session[r] # "active"
    <3>1. pc[r] = "finish" /\ session[r] = "committed" /\ session'[r] = "committed"
      BY <1>4, <2>3 DEF Crash, IInv, TypeOK, RequestsOK, StageOK, Stages, PipelineStages,
         PipelineInside
    <3>2. QED
      BY <2>1, <3>1 DEF TrailOK, AuditOK, ReplyOK, OutcomeOK, OutcomeMatches
  <2>4. QED
    BY <2>2, <2>3
<1>5. QED
  BY <1>1, <1>2, <1>3, <1>4

-------------------------------------------------------------------------------
(* The theorems *)

\* The invariant is inductive.
LEMMA NextTrail == TrailInv /\ [Next]_vars => TrailInv'
<1> SUFFICES ASSUME TrailInv, [Next]_vars PROVE TrailInv'
  OBVIOUS
<1>1. IInv /\ IInv'
  BY NextIInv DEF TrailInv
<1>2. CASE UNCHANGED vars
  <2>1. \A q \in Requests : Untouched(q)
    BY <1>2 DEF vars, rows, Untouched
  <2>2. QED
    BY <1>1, <2>1, UntouchedTrail DEF TrailInv
<1>3. CASE EditPolicy
  <2>1. \A q \in Requests : Untouched(q)
    BY <1>3 DEF EditPolicy, rows, Untouched
  <2>2. QED
    BY <1>1, <2>1, UntouchedTrail DEF TrailInv
<1>4. ASSUME NEW r \in Requests,
             Receive(r) \/ RejectApi(r) \/ Handle(r) \/ LoseConnection(r) \/ Crash(r)
      PROVE  TrailInv'
  <2>1. \A q \in Requests \ {r} : TrailOK(q)'
    BY <1>1, <1>4, OthersUntouched, UntouchedTrail DEF TrailInv
  <2>2. TrailOK(r)
    BY DEF TrailInv
  <2>3. TrailOK(r)'
    BY <1>1, <1>4, <2>2, QuietTrail, OriginalTrail, VetTrail, SelectTrail, ExecuteTrail,
       RecordTrail, EndTrail, CloseTrail DEF Handle, QuietStep
  <2>4. QED
    BY <1>1, <2>1, <2>3 DEF TrailInv
<1>5. QED
  BY <1>2, <1>3, <1>4 DEF Next, Quiescent

\* At every stage of a request, its audit rows, its outcome and its answer are what
\* the executions made and the candidates vetted so far stand for.
THEOREM TrailHolds == Spec => []TrailInv
<1>1. Init => TrailInv
  BY InitIInv, InitTrail DEF TrailInv
<1>2. QED
  BY <1>1, NextTrail, PTL DEF Spec

\* What a committed transaction says happened is what happened: the rejections, the
\* selection of the correction that was sent, and what it came to, for every set of
\* requests, candidates, policies, crashes and edits (orchestrator._pipeline's
\* _audit calls between its flushes, and get_db's one commit).
THEOREM CommittedTrailHolds == Spec => []CommittedTrail
<1>1. TrailInv => CommittedTrail
  <2> SUFFICES ASSUME TrailInv, NEW r \in Requests, session[r] = "committed"
               PROVE  /\ \A i \in DOMAIN vetted[r] :
                           ~vetted[r][i].passed <=> <<"CANDIDATE_REJECTED", i>> \in audit[r]
                      /\ calls[r] = 2 => <<"CANDIDATE_SELECTED", best[r]>> \in audit[r]
                      /\ reply[r] = "ok" <=> <<"RECOVERY_SUCCESS", best[r]>> \in audit[r]
                      /\ reply[r] = "http_error" <=>
                           <<"RECOVERY_FAILURE", best[r]>> \in audit[r]
                      /\ reply[r] \in {"blocked", "redirect_blocked"} =>
                           <<"PIPELINE_ERROR", 0>> \in audit[r]
    BY DEF CommittedTrail
  <2>1. AuditOK(r) /\ ReplyOK(r)
    BY DEF TrailInv, TrailOK
  <2>2. QED
    BY <2>1 DEF AuditOK, ReplyOK
<1>2. QED
  BY <1>1, TrailHolds, PTL

\* The client and the database are never told different stories, whether the commit
\* comes before the response or after it (broker_execute, run, get_db).
THEOREM AnswersMatch == Spec => []AnswerMatchesRecord
<1>1. TrailInv => AnswerMatchesRecord
  <2> SUFFICES ASSUME TrailInv, NEW r \in Requests
               PROVE  /\ answer[r] \in {"server_error", "forbidden", "rejected"}
                           => session[r] = "rolledback"
                      /\ session[r] = "committed" =>
                           OutcomeMatches(r) /\ answer[r] \in {None, result[r]}
    BY DEF AnswerMatchesRecord, OutcomeMatches
  <2>1. OutcomeOK(r) /\ result[r] \in Results \cup {None}
    BY DEF TrailInv, TrailOK, IInv, TypeOK
  <2>2. QED
    BY <2>1 DEF OutcomeOK, Results, None
<1>2. QED
  BY <1>1, TrailHolds, PTL

-------------------------------------------------------------------------------
(* The gate *)

OutOfReach == ConfidenceThreshold > WeightHistorical + WeightFailureMatch

LEMMA SequenceElements ==
  ASSUME NEW S, NEW s \in Seq(S)
  PROVE  \A i \in DOMAIN s : s[i] \in S
  OBVIOUS

\* The best score of the two inputs the gate is given is below such a threshold.
LEMMA GateInsufficient ==
  ASSUME OutOfReach, NEW f, NEW cands \in Seq(Candidates)
  PROVE  ~GateSufficient(cands, f)
<1>1. ClassifierConfidence(f) \in 0..100
  BY DEF ClassifierConfidence
<1>2. ConfidenceThreshold \in 0..100 /\ ConfidenceThreshold > 40
  BY ThresholdsAssumption DEF OutOfReach, WeightHistorical, WeightFailureMatch
<1>3. \A i \in DOMAIN cands : cands[i].confidence \in 0..100
  <2>1. \A i \in DOMAIN cands : cands[i] \in Candidates
    BY SequenceElements
  <2>2. \A c \in Candidates : c.confidence \in 0..100
    BY DEF Candidates
  <2>3. QED
    BY <2>1, <2>2
<1>4. ~ScoreReaches(cands, f, ConfidenceThreshold)
  <2>1. \A h, c \in 0..100 : 25 * h + 15 * c < 100 * ConfidenceThreshold
    BY <1>2
  <2>2. \A c \in 0..100 : ~(15 * c >= 100 * ConfidenceThreshold)
    BY <1>2
  <2>3. \A h, c \in 0..100 : ~(25 * h + 15 * c >= 100 * ConfidenceThreshold)
    BY <2>1, <1>2
  <2> HIDE DEF ClassifierConfidence
  <2>4. QED
    BY <1>1, <1>3, <2>2, <2>3, Zenon DEF ScoreReaches, WeightHistorical, WeightFailureMatch
<1>5. QED
  BY <1>4 DEF GateSufficient

AskedOK(r) == pc[r] \in {"vet", "execute", "record"} => attempt[r].llm

\* The only way into vetting is then through the model, and no step in between takes
\* back that it was asked.
LEMMA AskedStep ==
  ASSUME OutOfReach, IInv, NEW r \in Requests, AskedOK(r),
         Receive(r) \/ RejectApi(r) \/ Handle(r) \/ LoseConnection(r) \/ Crash(r)
  PROVE  AskedOK(r)'
<1> USE DEF AskedOK, IInv, TypeOK, Goto
<1>1. CASE RetrieveMemory(r)
  <2>1. ~GateSufficient(DeterministicCandidates(failure[r]), failure[r])
    BY GateInsufficient, DeterministicCandidatesType
  <2>2. pc'[r] = "llm"
    BY <1>1, <2>1 DEF RetrieveMemory
  <2>3. QED
    BY <2>2
<1>2. CASE EscalateToLlm(r)
  BY <1>2 DEF EscalateToLlm
<1>3. CASE VetCandidate(r)
  <2>1. pc' = pc /\ attempt' = attempt
    BY <1>3, Zenon DEF VetCandidate
  <2>2. pc[r] = "vet"
    BY <1>3, Zenon DEF VetCandidate
  <2>3. QED
    BY <2>1, <2>2
<1>4. CASE SelectCandidate(r)
  <2>1. attempt[r].llm
    <3>1. pc[r] = "vet"
      BY <1>4, Zenon DEF SelectCandidate
    <3>2. QED
      BY <3>1
  <2>2. \/ pc' = [pc EXCEPT ![r] = "finish"]
        \/ attempt' = [attempt EXCEPT ![r].count = CountAfterSelection(@)]
    BY <1>4, Zenon DEF SelectCandidate, Fails, Finish
  <2>3. CASE pc' = [pc EXCEPT ![r] = "finish"]
    <3>1. pc'[r] = "finish"
      BY <2>3
    <3>2. QED
      BY <3>1
  <2>4. CASE attempt' = [attempt EXCEPT ![r].count = CountAfterSelection(@)]
    <3>1. attempt'[r] = [attempt[r] EXCEPT !.count = CountAfterSelection(@)]
      BY <2>4
    <3>2. QED
      BY <2>1, <3>1
  <2>5. QED
    BY <2>2, <2>3, <2>4
<1>5. CASE ExecuteCorrected(r)
  BY <1>5 DEF ExecuteCorrected, rows
<1>6. CASE Receive(r) \/ RejectApi(r) \/ LoseConnection(r) \/ Crash(r)
  BY <1>6 DEF Receive, RejectApi, LoseConnection, Crash, CloseWith
<1>7. CASE OriginalSucceeds(r) \/ OriginalBlocked(r) \/ OriginalFails(r)
  BY <1>7 DEF OriginalSucceeds, OriginalBlocked, OriginalFails, CloseWith, Finish
<1>8. CASE InsertAttempt(r) \/ RecordFailure(r) \/ LookUpNode(r) \/ InsertNode(r)
  BY <1>8 DEF InsertAttempt, RecordFailure, LookUpNode, InsertNode, Abort, CloseWith
<1>9. CASE NotRecoverable(r) \/ NoSafeCandidate(r)
  BY <1>9 DEF NotRecoverable, NoSafeCandidate, Fails, Finish
<1>10. CASE LlmRaises(r) \/ VettingRaises(r) \/ ApplyRaises(r) \/ CorrectionBlocked(r)
  BY <1>10 DEF LlmRaises, VettingRaises, ApplyRaises, CorrectionBlocked, PipelineError,
     Finish
<1>11. CASE RecordSuccess(r) \/ RecordFailedCorrection(r)
  BY <1>11 DEF RecordSuccess, RecordFailedCorrection, AfterFailedCorrection, Finish
<1>12. CASE Commit(r) \/ Respond(r)
  BY <1>12 DEF Commit, Respond, rows
<1>13. QED
  BY <1>1, <1>2, <1>3, <1>4, <1>5, <1>6, <1>7, <1>8, <1>9, <1>10, <1>11, <1>12 DEF Handle

\* With a threshold above 40 hundredths, the shipped 65 included, the model is asked
\* before any candidate is vetted or executed, whatever cases are stored and however
\* sure the classifier is (evaluate_confidence, _pipeline).
THEOREM ModelIsAlwaysAsked == Spec => []EvidenceNeverSuffices
<1>1. CASE OutOfReach
  <2>1. Init => \A r \in Requests : AskedOK(r)
    BY DEF Init, AskedOK
  <2>2. IInv /\ (\A r \in Requests : AskedOK(r)) /\ [Next]_vars
          => (\A r \in Requests : AskedOK(r))'
    <3> SUFFICES ASSUME IInv, \A r \in Requests : AskedOK(r), [Next]_vars,
                        NEW q \in Requests
                 PROVE  AskedOK(q)'
      OBVIOUS
    <3>1. CASE UNCHANGED vars \/ EditPolicy
      BY <3>1 DEF vars, rows, EditPolicy, AskedOK
    <3>2. ASSUME NEW r \in Requests,
                 Receive(r) \/ RejectApi(r) \/ Handle(r) \/ LoseConnection(r) \/ Crash(r)
          PROVE  AskedOK(q)'
      <4>1. CASE q = r
        BY <1>1, <3>2, <4>1, AskedStep
      <4>2. CASE q # r
        BY <3>2, <4>2, OthersUntouched DEF Untouched, AskedOK
      <4>3. QED
        BY <4>1, <4>2
    <3>3. QED
      BY <3>1, <3>2 DEF Next, Quiescent
  <2>3. (\A r \in Requests : AskedOK(r)) => EvidenceNeverSuffices
    BY DEF AskedOK, EvidenceNeverSuffices
  <2>4. QED
    BY <2>1, <2>2, <2>3, StagesHold, PTL DEF Spec
<1>2. CASE ~OutOfReach
  <2>1. EvidenceNeverSuffices
    BY <1>2 DEF OutOfReach, EvidenceNeverSuffices
  <2>2. QED
    BY <2>1, PTL
<1>3. QED
  BY <1>1, <1>2
===============================================================================
