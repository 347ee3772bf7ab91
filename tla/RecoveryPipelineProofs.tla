------------------------ MODULE RecoveryPipelineProofs ------------------------
(***************************************************************************)
(* Theorems about RecoveryPipeline, for every value of its constants.      *)
(***************************************************************************)
EXTENDS RecoveryPipeline, TLAPS

-------------------------------------------------------------------------------
(* What the helpers of the model return *)

\* The policy engine answers with a tier, and with NEVER_AUTOMATIC for every
\* hardcoded type, whatever row an administrator gave it.
LEMMA ClassifyActionTier ==
  ASSUME NEW table \in [ActionTypes -> Tiers \cup {NoPolicy}], NEW action \in ActionTypes
  PROVE  /\ ClassifyAction(action, table) \in Tiers
         /\ action \in HardcodedNeverAutomatic
              => ClassifyAction(action, table) = NeverAutomatic
  BY DEF ClassifyAction, Tiers, NeverAutomatic, ApprovalRequired, AutoEligible, NoPolicy

\* A candidate built from a stored case keeps within the range of confidences.
LEMMA FromCaseType ==
  ASSUME NEW c \in RecoveryCases
  PROVE  FromCase(c) \in Candidates
<1>1. c.confidence \in 0..100 /\ c.type \in ActionTypes /\ c.changes \in ChangeKinds
  BY DEF RecoveryCases
<1>2. CaseConfidence(c) \in 0..100
  BY <1>1 DEF CaseConfidence
<1>3. QED
  BY <1>1, <1>2 DEF FromCase, Candidate, Candidates, Deterministic

LEMMA RetryConfidenceRange ==
  ASSUME NEW f
  PROVE  RetryConfidence(f) \in 0..100
  BY DEF RetryConfidence

\* The candidates built without the model are candidates, whatever failed.
LEMMA DeterministicCandidatesType ==
  ASSUME NEW f
  PROVE  DeterministicCandidates(f) \in Seq(Candidates)
<1>1. FromCases(RetrievedCases) \in Seq(Candidates)
  <2>1. RetrievedCases \in Seq(RecoveryCases)
    BY PipelineAssumption
  <2>2. \A i \in DOMAIN RetrievedCases : FromCase(RetrievedCases[i]) \in Candidates
    BY <2>1, FromCaseType
  <2>3. QED
    BY <2>1, <2>2 DEF FromCases
<1>2. RetryCandidates(f) \in Seq(Candidates)
  <2>1. "retry_after" \in ActionTypes
    BY PipelineAssumption
  <2>2. Candidate("retry_after", "clean", RetryConfidence(f), Deterministic) \in Candidates
    BY <2>1, RetryConfidenceRange DEF Candidate, Candidates, ChangeKinds, Deterministic
  <2>3. QED
    BY <2>2 DEF RetryCandidates
<1>3. QED
  BY <1>1, <1>2 DEF DeterministicCandidates

LEMMA LlmAnswersType == \A found \in LlmAnswers : found \in Seq(Candidates)
<1>1. \A c \in LlmCandidates : c \in Candidates
  BY DEF LlmCandidates
<1>2. LlmAnswers \subseteq Seq(LlmCandidates)
  BY PipelineAssumption
<1>3. SUFFICES ASSUME NEW found \in LlmAnswers
               PROVE  found \in Seq(Candidates)
  OBVIOUS
<1>4. found \in Seq(LlmCandidates)
  BY <1>2
<1>5. QED
  BY <1>1, <1>4

-------------------------------------------------------------------------------
(* The inductive invariant *)

PipelineInside == {"classify", "graph", "insert_node", "memory", "llm", "vet"}

\* At each stage, how far the counter, the executions and the session have got.
StageOK(r) ==
  /\ pc[r] = "idle" => session[r] = "none" /\ calls[r] = 0 /\ attempt[r].count = 0
  /\ pc[r] = "original" => session[r] = "active" /\ calls[r] = 0 /\ attempt[r].count = 0
  /\ pc[r] = "attempt" => session[r] = "active" /\ calls[r] = 1 /\ attempt[r].count = 0
  /\ pc[r] \in PipelineInside =>
       session[r] = "active" /\ calls[r] = 1 /\ attempt[r].count = 1
  /\ pc[r] = "execute" => session[r] = "active" /\ calls[r] = 1 /\ attempt[r].count = 2
  /\ pc[r] = "record" => session[r] = "active" /\ attempt[r].count = 2
  /\ pc[r] = "finish" => session[r] \in {"active", "committed"}
  /\ pc[r] = "closed" => session[r] \in {"committed", "rolledback"}
  /\ IF attempt[r].count = 0 THEN calls[r] <= 1 ELSE calls[r] <= attempt[r].count

\* Once a candidate is selected it is one that passed; nothing is sent before.
ChoiceOK(r) ==
  /\ pc[r] \in {"idle", "original", "attempt"} \cup PipelineInside \cup {"execute"}
       => reply[r] = None
  /\ pc[r] = "execute" \/ reply[r] # None => best[r] \in Safe(vetted[r])

\* What a passed row of correction_candidates has been through.
ClearedFor(row, method) ==
  row.passed =>
    /\ row.tier # NeverAutomatic
    /\ row.cand.type \notin HardcodedNeverAutomatic
    /\ row.cand.changes \notin {"secret", "host_replace", "not_iterable"}
    /\ row.tier = AutoEligible =>
         row.cand.type \in SafeActionTypes /\ method \in IdempotentMethods

VettedOK(r) == \A i \in DOMAIN vetted[r] : ClearedFor(vetted[r][i], req[r].method)

\* The unique attempt row of a correlation ID.
AttemptUnique ==
  \A q, r \in Requests :
    req[q].corr = req[r].corr /\ HoldsAttempt(q) /\ HoldsAttempt(r) => q = r

RequestsOK == \A r \in Requests : StageOK(r) /\ ChoiceOK(r) /\ VettedOK(r)

IInv == TypeOK /\ RequestsOK /\ AttemptUnique

LEMMA InitIInv == Init => IInv
<1> SUFFICES ASSUME Init PROVE IInv
  OBVIOUS
<1>1. TypeOK
  BY PipelineAssumption DEF Init, TypeOK, Stages, PipelineStages, Outcomes, Results, Answers,
     Replies, NoAttempt, None
<1>2. RequestsOK
  BY DEF Init, RequestsOK, StageOK, ChoiceOK, VettedOK, PipelineInside, NoAttempt, None
<1>3. AttemptUnique
  BY DEF Init, AttemptUnique, HoldsAttempt, NoAttempt
<1>4. QED
  BY <1>1, <1>2, <1>3 DEF IInv

-------------------------------------------------------------------------------
(* The three ways out of the pipeline *)

AttemptRows == [count : 0..2, outcome : Outcomes \cup {None}, llm : BOOLEAN,
                executed : BOOLEAN]

LEMMA EventUnion ==
  ASSUME NEW trail \in [Requests -> SUBSET (EventTypes \X Nat)], NEW r \in Requests,
         NEW events \in SUBSET (EventTypes \X Nat)
  PROVE  [trail EXCEPT ![r] = @ \cup events] \in [Requests -> SUBSET (EventTypes \X Nat)]
  OBVIOUS

LEMMA AbortStep ==
  ASSUME IInv, NEW r \in Requests, Abort(r)
  PROVE  TypeOK' /\ RequestsOK'
<1> USE DEF IInv, Abort, CloseWith, SessionAfterError, Goto, rows
<1>1. TypeOK'
  BY DEF TypeOK, Stages, Answers, None
<1>2. RequestsOK'
  BY DEF TypeOK, RequestsOK, StageOK, ChoiceOK, VettedOK,
     PipelineInside, None
<1>3. QED
  BY <1>1, <1>2

LEMMA FailsStep ==
  ASSUME IInv, NEW r \in Requests, NEW outcome \in Outcomes,
         NEW events \in SUBSET (EventTypes \X Nat), pc[r] \in PipelineInside,
         Fails(r, outcome, events)
  PROVE  TypeOK' /\ RequestsOK'
<1> USE DEF IInv, Fails, Finish, Goto
<1>1. attempt \in [Requests -> AttemptRows]
  BY DEF TypeOK, AttemptRows
<1>2. /\ attempt' \in [Requests -> AttemptRows]
      /\ \A q \in Requests : attempt'[q].count = attempt[q].count
  BY <1>1 DEF AttemptRows
<1>3. audit' \in [Requests -> SUBSET (EventTypes \X Nat)]
  BY EventUnion DEF TypeOK, Record
<1>4. TypeOK'
  BY <1>2, <1>3 DEF TypeOK, AttemptRows, Stages, Results
<1>5. RequestsOK'
  BY <1>2 DEF TypeOK, RequestsOK, StageOK, ChoiceOK, VettedOK,
     PipelineInside, None
<1>6. QED
  BY <1>4, <1>5

LEMMA PipelineErrorStep ==
  ASSUME IInv, NEW r \in Requests, pc[r] \in PipelineInside \cup {"record"},
         PipelineError(r), UNCHANGED reply
  PROVE  TypeOK' /\ RequestsOK'
<1> USE DEF IInv, PipelineError, Finish, Goto
<1>1. attempt \in [Requests -> AttemptRows]
  BY DEF TypeOK, AttemptRows
<1>2. /\ attempt' \in [Requests -> AttemptRows]
      /\ \A q \in Requests : attempt'[q].count = attempt[q].count
  BY <1>1 DEF AttemptRows, Outcomes
<1>3. audit' \in [Requests -> SUBSET (EventTypes \X Nat)]
  BY EventUnion DEF TypeOK, Record, EventTypes
<1>4. TypeOK'
  BY <1>2, <1>3 DEF TypeOK, AttemptRows, Stages, Results
<1>5. RequestsOK'
  BY <1>2 DEF TypeOK, RequestsOK, StageOK, ChoiceOK, VettedOK,
     PipelineInside, None
<1>6. QED
  BY <1>4, <1>5

-------------------------------------------------------------------------------
(* One lemma per action *)

LEMMA ReceiveStep ==
  ASSUME IInv, NEW r \in Requests, Receive(r)
  PROVE  TypeOK' /\ RequestsOK'
<1> USE DEF IInv, Receive, Goto, rows
<1>1. TypeOK'
  BY DEF TypeOK, Stages
<1>2. RequestsOK'
  BY DEF TypeOK, RequestsOK, StageOK, ChoiceOK, VettedOK, PipelineInside, None
<1>3. QED
  BY <1>1, <1>2

LEMMA RejectApiStep ==
  ASSUME IInv, NEW r \in Requests, RejectApi(r)
  PROVE  TypeOK' /\ RequestsOK'
<1> USE DEF IInv, RejectApi, CloseWith, SessionAfterError, Goto, rows
<1>1. TypeOK'
  BY DEF TypeOK, Stages, Answers, None
<1>2. RequestsOK'
  BY DEF TypeOK, RequestsOK, StageOK, ChoiceOK, VettedOK, PipelineInside, None
<1>3. QED
  BY <1>1, <1>2

LEMMA OriginalSucceedsStep ==
  ASSUME IInv, NEW r \in Requests, OriginalSucceeds(r)
  PROVE  TypeOK' /\ RequestsOK'
<1> USE DEF IInv, OriginalSucceeds, Finish, Goto, rows
<1>1. TypeOK'
  BY DEF TypeOK, Stages, Results, RequestsOK, StageOK
<1>2. RequestsOK'
  BY DEF TypeOK, RequestsOK, StageOK, ChoiceOK, VettedOK, PipelineInside, None
<1>3. QED
  BY <1>1, <1>2

LEMMA OriginalBlockedStep ==
  ASSUME IInv, NEW r \in Requests, OriginalBlocked(r)
  PROVE  TypeOK' /\ RequestsOK'
<1> USE DEF IInv, OriginalBlocked, CloseWith, SessionAfterError, Goto, rows
<1>1. TypeOK'
  BY DEF TypeOK, Stages, Answers, None, RequestsOK, StageOK
<1>2. RequestsOK'
  BY DEF TypeOK, RequestsOK, StageOK, ChoiceOK, VettedOK, PipelineInside, None
<1>3. QED
  BY <1>1, <1>2

LEMMA OriginalFailsStep ==
  ASSUME IInv, NEW r \in Requests, OriginalFails(r)
  PROVE  TypeOK' /\ RequestsOK'
<1> USE DEF IInv, OriginalFails, Finish, Goto, rows
<1>1. failure' \in [Requests -> UpstreamFailures \cup {NoFailure}]
  BY DEF TypeOK
<1>2. calls' \in [Requests -> 0..2]
  BY DEF TypeOK, RequestsOK, StageOK
<1>3. /\ pc' \in [Requests -> Stages]
      /\ result' \in [Requests -> Results \cup {None}]
  BY DEF TypeOK, Stages, PipelineStages, Results
<1>4. TypeOK'
  BY <1>1, <1>2, <1>3 DEF TypeOK
<1>5. RequestsOK'
  BY DEF TypeOK, RequestsOK, StageOK, ChoiceOK, VettedOK, PipelineInside, None
<1>6. QED
  BY <1>4, <1>5

LEMMA InsertAttemptStep ==
  ASSUME IInv, NEW r \in Requests, InsertAttempt(r)
  PROVE  TypeOK' /\ RequestsOK'
<1>1. CASE CorrelationTaken(r)
  BY <1>1, AbortStep DEF InsertAttempt
<1>2. CASE ~CorrelationTaken(r)
  <2> USE <1>2 DEF IInv, InsertAttempt, Goto
  <2>1. attempt \in [Requests -> AttemptRows]
    BY DEF TypeOK, AttemptRows
  <2>2. /\ attempt' \in [Requests -> AttemptRows]
        /\ attempt'[r].count = 1
        /\ \A q \in Requests \ {r} : attempt'[q] = attempt[q]
    BY <2>1 DEF AttemptRows
  <2>3. TypeOK'
    BY <2>2 DEF TypeOK, AttemptRows, Stages, PipelineStages
  <2>4. RequestsOK'
    BY <2>2 DEF TypeOK, RequestsOK, StageOK, ChoiceOK, VettedOK, PipelineInside, None
  <2>5. QED
    BY <2>3, <2>4
<1>3. QED
  BY <1>1, <1>2

LEMMA NotRecoverableStep ==
  ASSUME IInv, NEW r \in Requests, NotRecoverable(r)
  PROVE  TypeOK' /\ RequestsOK'
<1>1. {<<"FAILURE_NOT_RECOVERABLE", 0>>} \in SUBSET (EventTypes \X Nat)
  BY DEF EventTypes
<1>2. QED
  BY <1>1, FailsStep DEF NotRecoverable, PipelineInside, Outcomes

LEMMA RecordFailureStep ==
  ASSUME IInv, NEW r \in Requests, RecordFailure(r)
  PROVE  TypeOK' /\ RequestsOK'
<1>1. CASE RequestEventRequired
  BY <1>1, AbortStep DEF RecordFailure
<1>2. CASE ~RequestEventRequired
  <2> USE <1>2 DEF IInv, RecordFailure, Goto, rows
  <2>1. TypeOK'
    BY DEF TypeOK, Stages, PipelineStages
  <2>2. RequestsOK'
    BY DEF TypeOK, RequestsOK, StageOK, ChoiceOK, VettedOK, PipelineInside, None
  <2>3. QED
    BY <2>1, <2>2
<1>3. QED
  BY <1>1, <1>2

LEMMA LookUpNodeStep ==
  ASSUME IInv, NEW r \in Requests, LookUpNode(r)
  PROVE  TypeOK' /\ RequestsOK'
<1> USE DEF IInv, LookUpNode, Goto, rows
<1>1. TypeOK'
  BY DEF TypeOK, Stages, PipelineStages
<1>2. RequestsOK'
  BY DEF TypeOK, RequestsOK, StageOK, ChoiceOK, VettedOK, PipelineInside, None
<1>3. QED
  BY <1>1, <1>2

LEMMA InsertNodeStep ==
  ASSUME IInv, NEW r \in Requests, InsertNode(r)
  PROVE  TypeOK' /\ RequestsOK'
<1>1. CASE GraphVisible
  BY <1>1, AbortStep DEF InsertNode
<1>2. CASE ~GraphVisible
  <2> USE <1>2 DEF IInv, InsertNode, Goto
  <2>1. TypeOK'
    BY DEF TypeOK, Stages, PipelineStages
  <2>2. RequestsOK'
    BY DEF TypeOK, RequestsOK, StageOK, ChoiceOK, VettedOK, PipelineInside, None
  <2>3. QED
    BY <2>1, <2>2
<1>3. QED
  BY <1>1, <1>2

LEMMA RetrieveMemoryStep ==
  ASSUME IInv, NEW r \in Requests, RetrieveMemory(r)
  PROVE  TypeOK' /\ RequestsOK'
<1> USE DEF IInv, RetrieveMemory, Goto
<1>1. queue' \in [Requests -> Seq(Candidates)]
  BY DeterministicCandidatesType DEF TypeOK
<1>2. TypeOK'
  BY <1>1 DEF TypeOK, Stages, PipelineStages
<1>3. RequestsOK'
  BY DEF TypeOK, RequestsOK, StageOK, ChoiceOK, VettedOK, PipelineInside, None
<1>4. QED
  BY <1>2, <1>3

LEMMA EscalateToLlmStep ==
  ASSUME IInv, NEW r \in Requests, EscalateToLlm(r)
  PROVE  TypeOK' /\ RequestsOK'
<1> USE DEF IInv, EscalateToLlm, Goto
<1>1. attempt \in [Requests -> AttemptRows]
  BY DEF TypeOK, AttemptRows
<1>2. /\ attempt' \in [Requests -> AttemptRows]
      /\ \A q \in Requests : attempt'[q].count = attempt[q].count
  BY <1>1 DEF AttemptRows
<1>3. queue' \in [Requests -> Seq(Candidates)]
  <2>1. PICK found \in LlmAnswers : queue' = [queue EXCEPT ![r] = @ \o found]
    OBVIOUS
  <2>2. found \in Seq(Candidates)
    BY LlmAnswersType
  <2>3. queue[r] \o found \in Seq(Candidates)
    BY <2>2 DEF TypeOK
  <2>4. QED
    BY <2>1, <2>3 DEF TypeOK
<1>4. TypeOK'
  BY <1>2, <1>3 DEF TypeOK, AttemptRows, Stages, PipelineStages
<1>5. RequestsOK'
  BY <1>2 DEF TypeOK, RequestsOK, StageOK, ChoiceOK, VettedOK, PipelineInside, None
<1>6. QED
  BY <1>4, <1>5

LEMMA LlmRaisesStep ==
  ASSUME IInv, NEW r \in Requests, LlmRaises(r)
  PROVE  TypeOK' /\ RequestsOK'
  BY PipelineErrorStep DEF LlmRaises, PipelineInside

LEMMA VettingRaisesStep ==
  ASSUME IInv, NEW r \in Requests, VettingRaises(r)
  PROVE  TypeOK' /\ RequestsOK'
  BY PipelineErrorStep DEF VettingRaises, PipelineInside

LEMMA ApplyRaisesStep ==
  ASSUME IInv, NEW r \in Requests, ApplyRaises(r)
  PROVE  TypeOK' /\ RequestsOK'
  BY PipelineErrorStep DEF ApplyRaises, PipelineInside

LEMMA CorrectionBlockedStep ==
  ASSUME IInv, NEW r \in Requests, CorrectionBlocked(r)
  PROVE  TypeOK' /\ RequestsOK'
  BY PipelineErrorStep DEF CorrectionBlocked

LEMMA NoSafeCandidateStep ==
  ASSUME IInv, NEW r \in Requests, NoSafeCandidate(r)
  PROVE  TypeOK' /\ RequestsOK'
<1>1. {} \in SUBSET (EventTypes \X Nat)
  OBVIOUS
<1>2. QED
  BY <1>1, FailsStep DEF NoSafeCandidate, PipelineInside, Outcomes

\* Validation under the tier in force clears the candidate for the method.
LEMMA VetCandidateStep ==
  ASSUME IInv, NEW r \in Requests, VetCandidate(r)
  PROVE  TypeOK' /\ RequestsOK'
<1> DEFINE cand   == Head(queue[r])
           tier   == ClassifyAction(cand.type, policies)
           passed == Validate(cand, tier, req[r].method, attempt[r].count, MaxUpstreamAttempts)
           row    == [cand |-> cand, tier |-> tier, passed |-> passed]
<1>1. cand \in Candidates /\ Tail(queue[r]) \in Seq(Candidates)
  BY DEF IInv, TypeOK, VetCandidate
<1>2. cand.type \in ActionTypes
  BY <1>1 DEF Candidates
<1>3. tier \in Tiers /\ (cand.type \in HardcodedNeverAutomatic => tier = NeverAutomatic)
  BY <1>2, ClassifyActionTier DEF IInv, TypeOK
<1>4. passed \in BOOLEAN
  BY DEF Validate
<1>5. row \in Vetted
  BY <1>1, <1>3, <1>4 DEF Vetted
<1>6. vetted' = [vetted EXCEPT ![r] = Append(@, row)]
  BY DEF VetCandidate
<1>7. ClearedFor(row, req[r].method)
  BY <1>3 DEF ClearedFor, Validate, ValidationRaises, SafeForTier, RepeatableForTier,
     VetCandidate
<1>8. vetted[r] \in Seq(Vetted)
  BY DEF IInv, TypeOK
<1>9. vetted' \in [Requests -> Seq(Vetted)]
  BY <1>5, <1>6, <1>8 DEF IInv, TypeOK
<1>10. audit' \in [Requests -> SUBSET (EventTypes \X Nat)]
  <2>1. Len(vetted[r]) + 1 \in Nat
    BY <1>8
  <2>2. VettingEvents(passed, Len(vetted[r]) + 1) \in SUBSET (EventTypes \X Nat)
    BY <2>1 DEF VettingEvents, EventTypes
  <2>3. audit' = [audit EXCEPT ![r] = @ \cup VettingEvents(passed, Len(vetted[r]) + 1)]
    BY DEF VetCandidate, Record
  <2>4. QED
    BY <2>2, <2>3, EventUnion DEF IInv, TypeOK
<1>11. queue' \in [Requests -> Seq(Candidates)]
  BY <1>1 DEF IInv, TypeOK, VetCandidate
<1>12. TypeOK'
  BY <1>9, <1>10, <1>11 DEF IInv, TypeOK, VetCandidate
<1>13. \A q \in Requests : VettedOK(q)'
  <2> SUFFICES ASSUME NEW q \in Requests
               PROVE  VettedOK(q)'
    OBVIOUS
  <2>1. VettedOK(q) /\ req' = req
    BY DEF IInv, RequestsOK, VetCandidate
  <2>2. CASE q # r
    <3>1. vetted'[q] = vetted[q]
      BY <1>6, <2>2
    <3>2. QED
      BY <2>1, <3>1 DEF VettedOK
  <2>3. CASE q = r
    <3>1. vetted'[r] = Append(vetted[r], row)
      BY <1>6 DEF IInv, TypeOK
    <3>2. /\ DOMAIN vetted'[r] = 1..(Len(vetted[r]) + 1)
          /\ DOMAIN vetted[r] = 1..Len(vetted[r])
          /\ Len(vetted[r]) \in Nat
          /\ vetted'[r][Len(vetted[r]) + 1] = row
          /\ \A i \in 1..Len(vetted[r]) : vetted'[r][i] = vetted[r][i]
      BY <1>5, <1>8, <3>1
    <3>3. SUFFICES ASSUME NEW i \in DOMAIN vetted'[r]
                   PROVE  ClearedFor(vetted'[r][i], req[r].method)
      BY <2>1, <2>3 DEF VettedOK
    <3>4. CASE i = Len(vetted[r]) + 1
      BY <1>7, <3>2, <3>4
    <3>5. CASE i # Len(vetted[r]) + 1
      <4>1. i \in DOMAIN vetted[r] /\ vetted'[r][i] = vetted[r][i]
        BY <3>2, <3>5
      <4>2. QED
        BY <2>1, <2>3, <4>1 DEF VettedOK
    <3>6. QED
      BY <3>4, <3>5
  <2>4. QED
    BY <2>2, <2>3
<1>14. \A q \in Requests : StageOK(q)' /\ ChoiceOK(q)'
  <2>1. pc[r] = "vet" /\ pc' = pc /\ reply' = reply /\ best' = best
    BY DEF VetCandidate
  <2>2. reply[r] = None
    BY <2>1 DEF IInv, RequestsOK, ChoiceOK, PipelineInside
  <2>3. \A q \in Requests : q # r => vetted'[q] = vetted[q]
    BY <1>6
  <2>4. QED
    BY <2>1, <2>2, <2>3 DEF IInv, RequestsOK, StageOK, ChoiceOK, VetCandidate
<1>15. QED
  BY <1>12, <1>13, <1>14 DEF RequestsOK

\* The selected candidate is among the safe ones and is counted at once.
LEMMA SelectCandidateStep ==
  ASSUME IInv, NEW r \in Requests, SelectCandidate(r)
  PROVE  TypeOK' /\ RequestsOK'
<1>1. pc[r] \in PipelineInside
  BY DEF SelectCandidate, PipelineInside
<1>2. attempt[r].count = 1
  BY <1>1 DEF IInv, RequestsOK, StageOK
<1>3. PICK i \in DOMAIN vetted[r] :
        /\ i \in Safe(vetted[r])
        /\ attempt' = [attempt EXCEPT ![r].count = CountAfterSelection(@)]
        /\ best' = [best EXCEPT ![r] = i]
        /\ Record(r, {<<"CANDIDATE_SELECTED", i>>})
        /\ Goto(r, "execute")
        /\ UNCHANGED <<req, session, calls, failure, node, queue, vetted, case, reply,
                       result, answer, policies, faults, edits>>
  <2>1. ~(attempt[r].count >= MaxUpstreamAttempts)
    BY <1>2 DEF MaxUpstreamAttempts
  <2>2. QED
    BY <2>1, Zenon DEF SelectCandidate, Selects
<1>4. attempt \in [Requests -> AttemptRows]
  BY DEF IInv, TypeOK, AttemptRows
<1>5. /\ attempt' \in [Requests -> AttemptRows]
      /\ attempt'[r].count = 2
      /\ \A q \in Requests \ {r} : attempt'[q] = attempt[q]
  BY <1>2, <1>3, <1>4 DEF AttemptRows, CountAfterSelection
<1>6. i \in Nat
  BY DEF IInv, TypeOK
<1>7. audit' \in [Requests -> SUBSET (EventTypes \X Nat)]
  <2>1. {<<"CANDIDATE_SELECTED", i>>} \in SUBSET (EventTypes \X Nat)
    BY <1>6 DEF EventTypes
  <2>2. QED
    BY <1>3, <2>1, EventUnion DEF IInv, TypeOK, Record
<1>8. TypeOK'
  BY <1>3, <1>5, <1>6, <1>7 DEF IInv, TypeOK, AttemptRows, Goto, Stages, PipelineStages
<1>9. RequestsOK'
  BY <1>1, <1>3, <1>5 DEF IInv, TypeOK, RequestsOK, StageOK, ChoiceOK, VettedOK, Goto,
     PipelineInside, None
<1>10. QED
  BY <1>8, <1>9

LEMMA ExecuteCorrectedStep ==
  ASSUME IInv, NEW r \in Requests, ExecuteCorrected(r)
  PROVE  TypeOK' /\ RequestsOK'
<1> USE DEF IInv, ExecuteCorrected, Goto, rows
<1>1. calls[r] = 1 /\ pc[r] = "execute"
  BY DEF RequestsOK, StageOK
<1>2. /\ calls' \in [Requests -> 0..2]
      /\ reply' \in [Requests -> Replies \cup {None}]
      /\ pc' \in [Requests -> Stages]
  BY <1>1 DEF TypeOK, Stages, PipelineStages
<1>3. TypeOK'
  BY <1>2 DEF TypeOK
<1>4. RequestsOK'
  BY <1>1 DEF TypeOK, RequestsOK, StageOK, ChoiceOK, VettedOK, PipelineInside, None
<1>5. QED
  BY <1>3, <1>4

LEMMA RecordSuccessStep ==
  ASSUME IInv, NEW r \in Requests, RecordSuccess(r)
  PROVE  TypeOK' /\ RequestsOK'
<1> USE DEF IInv, RecordSuccess, Finish, Goto
<1>1. attempt \in [Requests -> AttemptRows]
  BY DEF TypeOK, AttemptRows
<1>2. /\ attempt' \in [Requests -> AttemptRows]
      /\ \A q \in Requests : attempt'[q].count = attempt[q].count
  BY <1>1 DEF AttemptRows, Outcomes
<1>3. audit' \in [Requests -> SUBSET (EventTypes \X Nat)]
  <2>1. {<<"RECOVERY_SUCCESS", best[r]>>} \in SUBSET (EventTypes \X Nat)
    BY DEF TypeOK, EventTypes
  <2>2. QED
    BY <2>1, EventUnion DEF TypeOK, Record
<1>4. case' \in [Requests -> {None, "new", "reused"}]
  <2>1. CaseWritten(r) \in {None, "new", "reused"}
    BY DEF CaseWritten
  <2>2. QED
    BY <2>1 DEF TypeOK
<1>5. TypeOK'
  BY <1>2, <1>3, <1>4 DEF TypeOK, AttemptRows, Stages, Results
<1>6. RequestsOK'
  BY <1>2 DEF TypeOK, RequestsOK, StageOK, ChoiceOK, VettedOK, PipelineInside, None
<1>7. QED
  BY <1>5, <1>6

LEMMA RecordFailedCorrectionStep ==
  ASSUME IInv, NEW r \in Requests, RecordFailedCorrection(r)
  PROVE  TypeOK' /\ RequestsOK'
<1> USE DEF IInv, RecordFailedCorrection, Goto, AfterFailedCorrection
<1>1. attempt \in [Requests -> AttemptRows]
  BY DEF TypeOK, AttemptRows
<1>2. /\ attempt' \in [Requests -> AttemptRows]
      /\ \A q \in Requests : attempt'[q].count = attempt[q].count
  BY <1>1 DEF AttemptRows, Outcomes
<1>3. audit' \in [Requests -> SUBSET (EventTypes \X Nat)]
  <2>1. CorrectionEvents(reply[r], best[r]) \in SUBSET (EventTypes \X Nat)
    BY DEF TypeOK, EventTypes, CorrectionEvents
  <2>2. QED
    BY <2>1, EventUnion DEF TypeOK, Record
<1>4. TypeOK'
  BY <1>2, <1>3 DEF TypeOK, AttemptRows, Stages, Results
<1>5. RequestsOK'
  BY <1>2 DEF TypeOK, RequestsOK, StageOK, ChoiceOK, VettedOK, PipelineInside, None
<1>6. QED
  BY <1>4, <1>5

LEMMA CommitStep ==
  ASSUME IInv, NEW r \in Requests, Commit(r)
  PROVE  TypeOK' /\ RequestsOK'
<1> USE DEF IInv, Commit, rows
<1>1. TypeOK'
  BY DEF TypeOK
<1>2. RequestsOK'
  BY DEF TypeOK, RequestsOK, StageOK, ChoiceOK, VettedOK, PipelineInside
<1>3. QED
  BY <1>1, <1>2

LEMMA RespondStep ==
  ASSUME IInv, NEW r \in Requests, Respond(r)
  PROVE  TypeOK' /\ RequestsOK'
<1> USE DEF IInv, Respond, rows
<1>1. TypeOK'
  BY DEF TypeOK, Answers
<1>2. RequestsOK'
  BY DEF RequestsOK, StageOK, ChoiceOK, VettedOK
<1>3. QED
  BY <1>1, <1>2

LEMMA LoseConnectionStep ==
  ASSUME IInv, NEW r \in Requests, LoseConnection(r)
  PROVE  TypeOK' /\ RequestsOK'
<1> USE DEF IInv, LoseConnection, CloseWith, SessionAfterError, Goto, rows
<1>1. TypeOK'
  BY PipelineAssumption DEF TypeOK, Stages, Answers, None
<1>2. RequestsOK'
  BY DEF TypeOK, RequestsOK, StageOK, ChoiceOK, VettedOK, PipelineInside, None
<1>3. QED
  BY <1>1, <1>2

LEMMA CrashStep ==
  ASSUME IInv, NEW r \in Requests, Crash(r)
  PROVE  TypeOK' /\ RequestsOK'
<1> USE DEF IInv, Crash, Goto, rows
<1>1. TypeOK'
  BY PipelineAssumption DEF TypeOK, Stages
<1>2. RequestsOK'
  BY DEF TypeOK, RequestsOK, StageOK, ChoiceOK, VettedOK, PipelineInside, Stages,
     PipelineStages, None
<1>3. QED
  BY <1>1, <1>2

LEMMA EditPolicyStep ==
  ASSUME IInv, EditPolicy
  PROVE  TypeOK' /\ RequestsOK'
<1> USE DEF IInv, EditPolicy, rows
<1>1. PICK edit \in PolicyEdits : policies' = [policies EXCEPT ![edit[1]] = edit[2]]
  OBVIOUS
<1>2. edit[1] \in ActionTypes /\ edit[2] \in Tiers \cup {NoPolicy}
  BY PipelineAssumption
<1>3. TypeOK'
  BY <1>1, <1>2, PipelineAssumption DEF TypeOK
<1>4. RequestsOK'
  BY DEF RequestsOK, StageOK, ChoiceOK, VettedOK
<1>5. QED
  BY <1>3, <1>4

-------------------------------------------------------------------------------
(* The attempt row of a correlation ID stays unique *)

\* The counter of a row never returns to 0, and a transaction that has ended does
\* not come back: no request but one inserting its row starts to hold one.
LEMMA KeepsUnique ==
  ASSUME AttemptUnique, UNCHANGED req,
         \A r \in Requests : HoldsAttempt(r)' => HoldsAttempt(r)
  PROVE  AttemptUnique'
  BY DEF AttemptUnique

\* A request inserts its row only when no other transaction that is open or
\* committed has the row of its correlation ID.
LEMMA InsertAttemptUnique ==
  ASSUME IInv, NEW r \in Requests, InsertAttempt(r)
  PROVE  AttemptUnique'
<1>1. CASE CorrelationTaken(r)
  <2>1. UNCHANGED <<req, attempt>> /\ session' = [session EXCEPT ![r] = "rolledback"]
    BY <1>1 DEF InsertAttempt, Abort, CloseWith, SessionAfterError, rows
  <2>2. \A q \in Requests : HoldsAttempt(q)' => HoldsAttempt(q)
    BY <2>1 DEF IInv, TypeOK, HoldsAttempt
  <2>3. QED
    BY <2>1, <2>2, KeepsUnique DEF IInv
<1>2. CASE ~CorrelationTaken(r)
  <2>1. /\ UNCHANGED <<req, session>>
        /\ \A q \in Requests \ {r} : attempt'[q] = attempt[q]
    BY <1>2 DEF InsertAttempt, IInv, TypeOK
  <2>2. \A q \in Requests \ {r} : HoldsAttempt(q)' <=> HoldsAttempt(q)
    BY <2>1 DEF HoldsAttempt
  <2>3. \A q \in Requests \ {r} : req[q].corr = req[r].corr => ~HoldsAttempt(q)
    BY <1>2 DEF InsertAttempt, CorrelationTaken, CorrelationHeld, Competes, HoldsAttempt
  <2>4. SUFFICES ASSUME NEW p \in Requests, NEW q \in Requests,
                        req[p].corr = req[q].corr, HoldsAttempt(p)', HoldsAttempt(q)'
                 PROVE  p = q
    BY <2>1 DEF AttemptUnique
  <2>5. CASE p = r \/ q = r
    BY <2>2, <2>3, <2>4, <2>5
  <2>6. CASE p # r /\ q # r
    BY <2>2, <2>4, <2>6 DEF AttemptUnique, IInv
  <2>7. QED
    BY <2>5, <2>6
<1>3. QED
  BY <1>1, <1>2


\* A step that leaves the attempt rows' counts, and opens no session of a request
\* that has a row, takes no row.
LEMMA SameCountsUnique ==
  ASSUME IInv, UNCHANGED req,
         \A q \in Requests :
           /\ attempt'[q].count > 0 => attempt[q].count > 0
           /\ session'[q] \in {"active", "committed"} =>
                session[q] \in {"active", "committed"} \/ attempt[q].count = 0
  PROVE  AttemptUnique'
<1>1. \A q \in Requests : HoldsAttempt(q)' => HoldsAttempt(q)
  BY DEF HoldsAttempt, IInv, TypeOK
<1>2. QED
  BY <1>1, KeepsUnique DEF IInv

\* The steps inside the pipeline that leave the session and the counts alone.
InsideStep(r) ==
  \/ NotRecoverable(r) \/ NoSafeCandidate(r) \/ LookUpNode(r) \/ RetrieveMemory(r)
  \/ EscalateToLlm(r) \/ LlmRaises(r) \/ VetCandidate(r) \/ VettingRaises(r)
  \/ ApplyRaises(r) \/ CorrectionBlocked(r) \/ RecordSuccess(r)
  \/ RecordFailedCorrection(r)

LEMMA InsideKeeps ==
  ASSUME IInv, NEW r \in Requests, InsideStep(r)
  PROVE  /\ UNCHANGED <<req, session, calls>>
         /\ \A q \in Requests : attempt'[q].count = attempt[q].count
         /\ \A q \in Requests : HoldsAttempt(q)' <=> HoldsAttempt(q)
<1>0. attempt \in [Requests -> AttemptRows]
  BY DEF IInv, TypeOK, AttemptRows
<1>1. UNCHANGED <<req, session, calls>>
  BY DEF InsideStep, NotRecoverable, NoSafeCandidate, Fails, LookUpNode, RetrieveMemory,
     EscalateToLlm, VetCandidate, LlmRaises, VettingRaises, ApplyRaises, CorrectionBlocked,
     PipelineError, RecordSuccess, RecordFailedCorrection
<1>2. \A q \in Requests : attempt'[q].count = attempt[q].count
  <2>1. CASE NotRecoverable(r) \/ NoSafeCandidate(r)
    BY <1>0, <2>1 DEF NotRecoverable, NoSafeCandidate, Fails, AttemptRows
  <2>2. CASE LookUpNode(r) \/ RetrieveMemory(r) \/ EscalateToLlm(r) \/ VetCandidate(r)
    BY <1>0, <2>2 DEF LookUpNode, RetrieveMemory, EscalateToLlm, VetCandidate, rows,
       AttemptRows
  <2>3. CASE LlmRaises(r) \/ VettingRaises(r) \/ ApplyRaises(r) \/ CorrectionBlocked(r)
    BY <1>0, <2>3 DEF LlmRaises, VettingRaises, ApplyRaises, CorrectionBlocked,
       PipelineError, AttemptRows
  <2>4. CASE RecordSuccess(r) \/ RecordFailedCorrection(r)
    BY <1>0, <2>4 DEF RecordSuccess, RecordFailedCorrection, AttemptRows
  <2>5. QED
    BY <2>1, <2>2, <2>3, <2>4 DEF InsideStep
<1>3. QED
  BY <1>1, <1>2 DEF HoldsAttempt

LEMMA HandleUnique ==
  ASSUME IInv, NEW r \in Requests, Handle(r)
  PROVE  AttemptUnique'
<1>1. CASE InsertAttempt(r)
  BY <1>1, InsertAttemptUnique
<1>2. CASE OriginalSucceeds(r) \/ OriginalBlocked(r) \/ OriginalFails(r)
  BY <1>2, SameCountsUnique DEF OriginalSucceeds, OriginalBlocked, OriginalFails, CloseWith,
     SessionAfterError, rows, IInv, TypeOK
<1>3. CASE InsideStep(r)
  BY <1>3, InsideKeeps, KeepsUnique DEF IInv
<1>4. CASE RecordFailure(r)
  BY <1>4, SameCountsUnique DEF RecordFailure, Abort, CloseWith, SessionAfterError, rows,
     IInv, TypeOK
<1>5. CASE InsertNode(r)
  BY <1>5, SameCountsUnique DEF InsertNode, Abort, CloseWith, SessionAfterError, rows, IInv,
     TypeOK
<1>6. CASE SelectCandidate(r)
  <2>1. attempt[r].count = 1
    BY <1>6 DEF IInv, SelectCandidate, RequestsOK, StageOK, PipelineInside
  <2>2. attempt \in [Requests -> AttemptRows]
    BY DEF IInv, TypeOK, AttemptRows
  <2>3. UNCHANGED <<req, session>> /\ \A q \in Requests \ {r} : attempt'[q] = attempt[q]
    BY <1>6, <2>2 DEF SelectCandidate, Fails, AttemptRows
  <2>4. \A q \in Requests : attempt'[q].count > 0 => attempt[q].count > 0
    BY <2>1, <2>3
  <2>5. QED
    BY <2>3, <2>4, SameCountsUnique
<1>7. CASE ExecuteCorrected(r) \/ Commit(r) \/ Respond(r)
  BY <1>7, SameCountsUnique DEF ExecuteCorrected, Commit, Respond, rows, IInv, TypeOK
<1>8. QED
  BY <1>1, <1>2, <1>3, <1>4, <1>5, <1>6, <1>7 DEF Handle, InsideStep

LEMMA OtherStepsUnique ==
  ASSUME IInv, NEW r \in Requests,
         Receive(r) \/ RejectApi(r) \/ LoseConnection(r) \/ Crash(r)
  PROVE  AttemptUnique'
<1> USE DEF IInv, TypeOK
<1>1. CASE Receive(r)
  BY <1>1, SameCountsUnique DEF Receive, RequestsOK, StageOK, rows
<1>2. CASE RejectApi(r) \/ LoseConnection(r)
  BY <1>2, SameCountsUnique DEF RejectApi, LoseConnection, CloseWith, SessionAfterError, rows
<1>3. CASE Crash(r)
  BY <1>3, SameCountsUnique DEF Crash, rows
<1>4. QED
  BY <1>1, <1>2, <1>3

-------------------------------------------------------------------------------
(* The theorems *)

LEMMA HandleIInv ==
  ASSUME IInv, NEW r \in Requests, Handle(r)
  PROVE  IInv'
<1>1. TypeOK' /\ RequestsOK'
  <2>1. CASE OriginalSucceeds(r)
    BY <2>1, OriginalSucceedsStep
  <2>2. CASE OriginalBlocked(r)
    BY <2>2, OriginalBlockedStep
  <2>3. CASE OriginalFails(r)
    BY <2>3, OriginalFailsStep
  <2>4. CASE InsertAttempt(r)
    BY <2>4, InsertAttemptStep
  <2>5. CASE NotRecoverable(r)
    BY <2>5, NotRecoverableStep
  <2>6. CASE RecordFailure(r)
    BY <2>6, RecordFailureStep
  <2>7. CASE LookUpNode(r)
    BY <2>7, LookUpNodeStep
  <2>8. CASE InsertNode(r)
    BY <2>8, InsertNodeStep
  <2>9. CASE RetrieveMemory(r)
    BY <2>9, RetrieveMemoryStep
  <2>10. CASE EscalateToLlm(r)
    BY <2>10, EscalateToLlmStep
  <2>11. CASE LlmRaises(r)
    BY <2>11, LlmRaisesStep
  <2>12. CASE VetCandidate(r)
    BY <2>12, VetCandidateStep
  <2>13. CASE VettingRaises(r)
    BY <2>13, VettingRaisesStep
  <2>14. CASE NoSafeCandidate(r)
    BY <2>14, NoSafeCandidateStep
  <2>15. CASE ApplyRaises(r)
    BY <2>15, ApplyRaisesStep
  <2>16. CASE SelectCandidate(r)
    BY <2>16, SelectCandidateStep
  <2>17. CASE ExecuteCorrected(r)
    BY <2>17, ExecuteCorrectedStep
  <2>18. CASE RecordSuccess(r)
    BY <2>18, RecordSuccessStep
  <2>19. CASE RecordFailedCorrection(r)
    BY <2>19, RecordFailedCorrectionStep
  <2>20. CASE CorrectionBlocked(r)
    BY <2>20, CorrectionBlockedStep
  <2>21. CASE Commit(r)
    BY <2>21, CommitStep
  <2>22. CASE Respond(r)
    BY <2>22, RespondStep
  <2>23. QED
    BY <2>1, <2>2, <2>3, <2>4, <2>5, <2>6, <2>7, <2>8, <2>9, <2>10, <2>11, <2>12,
       <2>13, <2>14, <2>15, <2>16, <2>17, <2>18, <2>19, <2>20, <2>21, <2>22 DEF Handle
<1>2. AttemptUnique'
  BY HandleUnique
<1>3. QED
  BY <1>1, <1>2 DEF IInv

LEMMA NextIInv == IInv /\ [Next]_vars => IInv'
<1> SUFFICES ASSUME IInv, [Next]_vars
             PROVE  IInv'
  OBVIOUS
<1>1. ASSUME NEW r \in Requests, Receive(r)
      PROVE  IInv'
  BY <1>1, ReceiveStep, OtherStepsUnique DEF IInv
<1>2. ASSUME NEW r \in Requests, RejectApi(r)
      PROVE  IInv'
  BY <1>2, RejectApiStep, OtherStepsUnique DEF IInv
<1>3. ASSUME NEW r \in Requests, Handle(r)
      PROVE  IInv'
  BY <1>3, HandleIInv
<1>4. ASSUME NEW r \in Requests, LoseConnection(r)
      PROVE  IInv'
  BY <1>4, LoseConnectionStep, OtherStepsUnique DEF IInv
<1>5. ASSUME NEW r \in Requests, Crash(r)
      PROVE  IInv'
  BY <1>5, CrashStep, OtherStepsUnique DEF IInv
<1>6. CASE EditPolicy
  <2>1. TypeOK' /\ RequestsOK'
    BY <1>6, EditPolicyStep
  <2>2. AttemptUnique'
    <3>1. UNCHANGED <<req, session, attempt>>
      BY <1>6 DEF EditPolicy, rows
    <3>2. QED
      BY <3>1, KeepsUnique DEF IInv, HoldsAttempt
  <2>3. QED
    BY <2>1, <2>2 DEF IInv
<1>7. CASE UNCHANGED vars
  <2>1. TypeOK' /\ RequestsOK'
    BY <1>7 DEF vars, rows, IInv, TypeOK, RequestsOK, StageOK, ChoiceOK, VettedOK
  <2>2. AttemptUnique'
    BY <1>7 DEF vars, rows, IInv, AttemptUnique, HoldsAttempt
  <2>3. QED
    BY <2>1, <2>2 DEF IInv
<1>8. QED
  BY <1>1, <1>2, <1>3, <1>4, <1>5, <1>6, <1>7 DEF Next, Quiescent

\* The inductive invariant holds in every behaviour of the pipeline.
THEOREM StagesHold == Spec => []IInv
<1>1. Init => IInv
  BY InitIInv
<1>2. IInv /\ [Next]_vars => IInv'
  BY NextIInv
<1>3. QED
  BY <1>1, <1>2, PTL DEF Spec

\* Every variable keeps its type; in particular no attempt row ever counts, and no
\* request ever makes, more than two executions (MAX_UPSTREAM_ATTEMPTS).
THEOREM TypeCorrect == Spec => []TypeOK
<1>1. IInv => TypeOK
  BY DEF IInv
<1>2. QED
  BY <1>1, StagesHold, PTL

\* However requests, crashes and lost connections interleave, the count of an
\* attempt row is never behind the executions made.
THEOREM CountNeverLags == Spec => []CountCoversExecutions
<1>1. IInv => CountCoversExecutions
  BY DEF IInv, RequestsOK, StageOK, CountCoversExecutions
<1>2. QED
  BY <1>1, StagesHold, PTL

\* Whatever the model answers, memory holds and administrators write, only a
\* candidate that passed every check is ever sent.
THEOREM OnlyClearedSent == Spec => []OnlyClearedCorrectionRuns
<1>1. ASSUME IInv, NEW r \in Requests, reply[r] # None
      PROVE  best[r] \in DOMAIN vetted[r] /\ ClearedFor(vetted[r][best[r]], req[r].method)
             /\ vetted[r][best[r]].passed
  BY <1>1 DEF IInv, RequestsOK, ChoiceOK, VettedOK, Safe
<1>2. IInv => OnlyClearedCorrectionRuns
  BY <1>1 DEF OnlyClearedCorrectionRuns, ClearedFor
<1>3. QED
  BY <1>2, StagesHold, PTL

\* For any number of requests that share a correlation ID, at most one of those
\* not rolled back has executed a correction.
THEOREM OneCorrectionPerId == Spec => []CorrectedOncePerCorrelation
<1>1. ASSUME IInv, NEW r \in Requests, calls[r] = 2, session[r] # "rolledback"
      PROVE  HoldsAttempt(r)
  <2>1. StageOK(r) /\ session[r] \in {"none", "active", "committed", "rolledback"}
        /\ attempt[r].count \in 0..2 /\ pc[r] \in Stages
    BY <1>1 DEF IInv, TypeOK, RequestsOK
  <2>2. attempt[r].count > 0
    BY <1>1, <2>1 DEF StageOK
  <2>3. session[r] # "none"
    BY <1>1, <2>1 DEF StageOK, Stages, PipelineStages, PipelineInside
  <2>4. QED
    BY <1>1, <2>1, <2>2, <2>3 DEF HoldsAttempt
<1>2. IInv => CorrectedOncePerCorrelation
  BY <1>1 DEF IInv, AttemptUnique, CorrectedOncePerCorrelation
<1>3. QED
  BY <1>2, StagesHold, PTL

-------------------------------------------------------------------------------
(* The refinement *)

\* What the abstract variables are at each stage.
Open(stage) == stage \in {"original", "attempt"} \cup PipelineInside
Done(stage) == stage \in {"record", "finish", "closed"}

LEMMA Phases ==
  /\ PhaseOf("idle") = "idle" /\ PhaseOf("execute") = "cleared"
  /\ \A stage : Open(stage) => PhaseOf(stage) = "open"
  /\ \A stage : Done(stage) => PhaseOf(stage) = "closed"
  BY DEF PhaseOf, Open, Done, PipelineInside

\* The steps of a request that leave its executions and its row alone.
LEMMA Stutters ==
  ASSUME UNCHANGED <<req, calls>>, \A q \in Requests : PhaseOf(pc'[q]) = PhaseOf(pc[q]),
         \A q \in Requests : HoldsAttempt(q)' <=> HoldsAttempt(q)
  PROVE  UNCHANGED Budget!vars
  BY DEF Budget!vars

LEMMA Closes ==
  ASSUME IInv, NEW r \in Requests, UNCHANGED <<req, calls>>,
         Open(pc[r]), pc' = [pc EXCEPT ![r] = "finish"],
         \A q \in Requests : HoldsAttempt(q)' <=> HoldsAttempt(q)
  PROVE  Budget!Close(r)
  BY Phases DEF Budget!Close, Budget!Move, Done, IInv, TypeOK

LEMMA Drops ==
  ASSUME IInv, NEW r \in Requests, UNCHANGED <<req, calls>>, pc[r] # "idle",
         pc' = [pc EXCEPT ![r] = "closed"],
         ~HoldsAttempt(r)',
         \A q \in Requests \ {r} : HoldsAttempt(q)' <=> HoldsAttempt(q)
  PROVE  Budget!Drop(r)
  BY Phases DEF Budget!Drop, Budget!Move, Done, Open, PipelineInside, IInv, TypeOK, Stages,
     PipelineStages

LEMMA OriginalRefines ==
  ASSUME IInv, NEW r \in Requests,
         OriginalSucceeds(r) \/ OriginalBlocked(r) \/ OriginalFails(r)
  PROVE  Budget!CallOriginal(r)
<1>1. calls[r] = 0 /\ attempt[r].count = 0 /\ pc[r] = "original"
  BY DEF IInv, RequestsOK, StageOK, OriginalSucceeds, OriginalBlocked, OriginalFails
<1>2. UNCHANGED <<req, attempt>> /\ \A q \in Requests \ {r} : session'[q] = session[q]
  BY DEF OriginalSucceeds, OriginalBlocked, OriginalFails, CloseWith, rows, IInv, TypeOK
<1>3. \A q \in Requests : HoldsAttempt(q)' <=> HoldsAttempt(q)
  BY <1>1, <1>2 DEF HoldsAttempt
<1>4. PICK to \in {"attempt", "finish", "closed"}, sent \in 0..1 :
        /\ to = "attempt" => sent = 1
        /\ pc' = [pc EXCEPT ![r] = to]
        /\ calls' = [calls EXCEPT ![r] = sent]
  BY <1>1 DEF OriginalSucceeds, OriginalBlocked, OriginalFails, Finish, CloseWith, Goto, IInv,
     TypeOK
<1>5. PhaseOf(to) \in {"open", "closed"} /\ (PhaseOf(to) = "open" => to = "attempt")
  BY Phases DEF Open, Done
<1>6. PhaseOf(pc[r]) = "open"
  BY <1>1, Phases DEF Open
<1>7. [q \in Requests |-> PhaseOf(pc[q])]' =
        [[q \in Requests |-> PhaseOf(pc[q])] EXCEPT ![r] = PhaseOf(to)]
  BY <1>4 DEF IInv, TypeOK
<1>8. QED
  BY <1>1, <1>2, <1>3, <1>4, <1>5, <1>6, <1>7 DEF Budget!CallOriginal, Budget!Move

LEMMA ArrivalRefines ==
  ASSUME IInv, NEW r \in Requests, Receive(r) \/ RejectApi(r)
  PROVE  Budget!Open(r)
<1>1. attempt[r].count = 0 /\ pc[r] = "idle"
  BY DEF IInv, RequestsOK, StageOK, Receive, RejectApi
<1>2. UNCHANGED <<req, attempt, calls>> /\ \A q \in Requests \ {r} : session'[q] = session[q]
  BY DEF Receive, RejectApi, CloseWith, rows, IInv, TypeOK
<1>3. \A q \in Requests : HoldsAttempt(q)' <=> HoldsAttempt(q)
  BY <1>1, <1>2 DEF HoldsAttempt
<1>4. PICK to \in {"original", "closed"} : pc' = [pc EXCEPT ![r] = to]
  BY DEF Receive, RejectApi, CloseWith, Goto
<1>5. PhaseOf(to) \in {"open", "closed"} /\ PhaseOf(pc[r]) = "idle"
  BY <1>1, Phases DEF Open, Done
<1>6. [q \in Requests |-> PhaseOf(pc[q])]' =
        [[q \in Requests |-> PhaseOf(pc[q])] EXCEPT ![r] = PhaseOf(to)]
  BY <1>4 DEF IInv, TypeOK
<1>7. QED
  BY <1>2, <1>3, <1>5, <1>6 DEF Budget!Open, Budget!Move

LEMMA AbortRefines ==
  ASSUME IInv, NEW r \in Requests, Abort(r), pc[r] # "idle"
  PROVE  Budget!Drop(r)
  BY Drops DEF Abort, CloseWith, SessionAfterError, Goto, rows, HoldsAttempt, IInv, TypeOK

LEMMA InsertAttemptRefines ==
  ASSUME IInv, NEW r \in Requests, InsertAttempt(r)
  PROVE  Budget!Claim(r) \/ Budget!Drop(r)
<1>1. CASE CorrelationTaken(r)
  BY <1>1, AbortRefines DEF InsertAttempt
<1>2. CASE ~CorrelationTaken(r)
  <2>1. pc[r] = "attempt" /\ session[r] = "active" /\ calls[r] = 1
    BY DEF InsertAttempt, IInv, RequestsOK, StageOK
  <2>2. /\ UNCHANGED <<req, session, calls>> /\ pc' = [pc EXCEPT ![r] = "classify"]
        /\ \A q \in Requests \ {r} : attempt'[q] = attempt[q]
        /\ attempt'[r].count = 1
    <3>1. attempt \in [Requests -> AttemptRows]
      BY DEF IInv, TypeOK, AttemptRows
    <3>2. QED
      BY <1>2, <3>1 DEF InsertAttempt, Goto, AttemptRows
  <2>3. HoldsAttempt(r)' /\ \A q \in Requests \ {r} : HoldsAttempt(q)' <=> HoldsAttempt(q)
    BY <2>1, <2>2 DEF HoldsAttempt
  <2>4. \A q \in Requests : HoldsAttempt(q) => req[q].corr # req[r].corr
    <3>1. ~HoldsAttempt(r)
      BY <2>1 DEF HoldsAttempt, IInv, RequestsOK, StageOK
    <3>2. QED
      BY <1>2, <3>1 DEF InsertAttempt, CorrelationTaken, CorrelationHeld, Competes, HoldsAttempt
  <2>5. \A q \in Requests : PhaseOf(pc'[q]) = PhaseOf(pc[q])
    BY <2>1, <2>2, Phases DEF Open, PipelineInside, IInv, TypeOK
  <2>6. PhaseOf(pc[r]) = "open"
    BY <2>1, Phases DEF Open
  <2>7. QED
    BY <2>1, <2>2, <2>3, <2>4, <2>5, <2>6 DEF Budget!Claim
<1>3. QED
  BY <1>1, <1>2

\* Inside the pipeline a request stays open or is closed; after the corrected call
\* it is closed already.
LEMMA InsideRefines ==
  ASSUME IInv, NEW r \in Requests, InsideStep(r)
  PROVE  Budget!Close(r) \/ UNCHANGED Budget!vars
<1>1. /\ UNCHANGED <<req, session, calls>>
      /\ \A q \in Requests : HoldsAttempt(q)' <=> HoldsAttempt(q)
  BY InsideKeeps
<1>2. CASE pc[r] \in PipelineInside /\ pc' = [pc EXCEPT ![r] = "finish"]
  BY <1>1, <1>2, Closes DEF Open
<1>3. CASE pc[r] \in PipelineInside /\ \E to \in PipelineInside : pc' = [pc EXCEPT ![r] = to]
  <2>1. \A q \in Requests : PhaseOf(pc'[q]) = PhaseOf(pc[q])
    BY <1>3, Phases DEF Open, IInv, TypeOK
  <2>2. QED
    BY <1>1, <2>1, Stutters
<1>4. CASE pc[r] = "record" /\ pc' = [pc EXCEPT ![r] = "finish"]
  <2>1. \A q \in Requests : PhaseOf(pc'[q]) = PhaseOf(pc[q])
    BY <1>4, Phases DEF Done, IInv, TypeOK
  <2>2. QED
    BY <1>1, <2>1, Stutters
<1>5. \/ pc[r] \in PipelineInside /\ pc' = [pc EXCEPT ![r] = "finish"]
      \/ pc[r] \in PipelineInside /\ \E to \in PipelineInside : pc' = [pc EXCEPT ![r] = to]
      \/ pc[r] = "record" /\ pc' = [pc EXCEPT ![r] = "finish"]
  <2>1. CASE NotRecoverable(r) \/ NoSafeCandidate(r)
    BY <2>1 DEF NotRecoverable, NoSafeCandidate, Fails, Finish, Goto, PipelineInside
  <2>2. CASE LookUpNode(r) \/ RetrieveMemory(r) \/ EscalateToLlm(r)
    BY <2>2 DEF LookUpNode, RetrieveMemory, EscalateToLlm, Goto, PipelineInside
  <2>3. CASE VetCandidate(r)
    <3>1. pc' = [pc EXCEPT ![r] = "vet"] /\ pc[r] = "vet"
      BY <2>3 DEF VetCandidate, IInv, TypeOK
    <3>2. QED
      BY <3>1 DEF PipelineInside
  <2>4. CASE LlmRaises(r) \/ VettingRaises(r) \/ ApplyRaises(r) \/ CorrectionBlocked(r)
    BY <2>4 DEF LlmRaises, VettingRaises, ApplyRaises, CorrectionBlocked, PipelineError,
       Finish, Goto, PipelineInside
  <2>5. CASE RecordSuccess(r) \/ RecordFailedCorrection(r)
    BY <2>5 DEF RecordSuccess, RecordFailedCorrection, AfterFailedCorrection, Finish, Goto
  <2>6. QED
    BY <2>1, <2>2, <2>3, <2>4, <2>5 DEF InsideStep
<1>6. QED
  BY <1>2, <1>3, <1>4, <1>5

\* Steps that stay open with every row and session as it was.
LEMMA OpenStutter ==
  ASSUME IInv, NEW r \in Requests, NEW to, Open(pc[r]), Open(to),
         UNCHANGED <<req, calls, session, attempt>>, pc' = [pc EXCEPT ![r] = to]
  PROVE  UNCHANGED Budget!vars
<1>1. \A q \in Requests : PhaseOf(pc'[q]) = PhaseOf(pc[q])
  BY Phases DEF IInv, TypeOK
<1>2. \A q \in Requests : HoldsAttempt(q)' <=> HoldsAttempt(q)
  BY DEF HoldsAttempt
<1>3. QED
  BY <1>1, <1>2, Stutters

LEMMA RecordFailureRefines ==
  ASSUME IInv, NEW r \in Requests, RecordFailure(r) \/ InsertNode(r)
  PROVE  Budget!Drop(r) \/ UNCHANGED Budget!vars
<1>1. pc[r] # "idle" /\ Open(pc[r])
  BY DEF RecordFailure, InsertNode, Open, PipelineInside
<1>2. CASE Abort(r)
  BY <1>1, <1>2, AbortRefines
<1>3. CASE ~Abort(r)
  <2>1. PICK to \in {"graph", "memory"} : pc' = [pc EXCEPT ![r] = to]
    BY <1>3 DEF RecordFailure, InsertNode, Goto
  <2>2. UNCHANGED <<req, calls, session, attempt>>
    BY <1>3 DEF RecordFailure, InsertNode, rows
  <2>3. Open(to)
    BY DEF Open, PipelineInside
  <2>4. QED
    BY <1>1, <2>1, <2>2, <2>3, OpenStutter
<1>4. QED
  BY <1>2, <1>3

LEMMA SelectRefines ==
  ASSUME IInv, NEW r \in Requests, SelectCandidate(r)
  PROVE  Budget!Clear(r)
<1>1. pc[r] = "vet" /\ session[r] = "active" /\ attempt[r].count = 1
  BY DEF SelectCandidate, IInv, RequestsOK, StageOK, PipelineInside
<1>2. /\ UNCHANGED <<req, session, calls>>
      /\ pc' = [pc EXCEPT ![r] = "execute"]
      /\ attempt' = [attempt EXCEPT ![r].count = CountAfterSelection(@)]
  <2>1. ~(attempt[r].count >= MaxUpstreamAttempts)
    BY <1>1 DEF MaxUpstreamAttempts
  <2>2. QED
    BY <2>1, Zenon DEF SelectCandidate, Goto
<1>3. HoldsAttempt(r) /\ HoldsAttempt(r)'
      /\ \A q \in Requests \ {r} : HoldsAttempt(q)' <=> HoldsAttempt(q)
  <2>1. attempt \in [Requests -> AttemptRows]
    BY DEF IInv, TypeOK, AttemptRows
  <2>2. attempt'[r].count = 2 /\ \A q \in Requests \ {r} : attempt'[q] = attempt[q]
    BY <1>1, <1>2, <2>1 DEF AttemptRows, CountAfterSelection
  <2>3. QED
    BY <1>1, <1>2, <2>2 DEF HoldsAttempt
<1>4. PhaseOf(pc[r]) = "open" /\ PhaseOf("execute") = "cleared"
  BY <1>1, Phases DEF Open, PipelineInside
<1>5. [q \in Requests |-> PhaseOf(pc[q])]' =
        [[q \in Requests |-> PhaseOf(pc[q])] EXCEPT ![r] = "cleared"]
  BY <1>2, <1>4 DEF IInv, TypeOK
<1>6. QED
  BY <1>2, <1>3, <1>4, <1>5 DEF Budget!Clear, Budget!Move

LEMMA ExecuteRefines ==
  ASSUME IInv, NEW r \in Requests, ExecuteCorrected(r)
  PROVE  Budget!CallCorrected(r)
<1>1. pc[r] = "execute" /\ calls[r] = 1
  BY DEF ExecuteCorrected, IInv, RequestsOK, StageOK
<1>2. UNCHANGED <<req, session, attempt>> /\ pc' = [pc EXCEPT ![r] = "record"]
  BY DEF ExecuteCorrected, Goto, rows
<1>3. \A q \in Requests : HoldsAttempt(q)' <=> HoldsAttempt(q)
  BY <1>2 DEF HoldsAttempt
<1>4. \E sent \in 0..1 : calls' = [calls EXCEPT ![r] = @ + sent]
  <2>1. PICK outcome \in Replies :
          calls' = [calls EXCEPT ![r] = IF outcome = "blocked" THEN @ ELSE @ + 1]
    BY DEF ExecuteCorrected
  <2>2. CASE outcome = "blocked"
    <3>1. calls' = [calls EXCEPT ![r] = @ + 0]
      BY <1>1, <2>1, <2>2 DEF IInv, TypeOK
    <3>2. QED
      BY <3>1
  <2>3. CASE outcome # "blocked"
    <3>1. calls' = [calls EXCEPT ![r] = @ + 1]
      BY <2>1, <2>3
    <3>2. QED
      BY <3>1
  <2>4. QED
    BY <2>2, <2>3
<1>5. PhaseOf(pc[r]) = "cleared" /\ PhaseOf("record") = "closed"
  BY <1>1, Phases DEF Done
<1>6. [q \in Requests |-> PhaseOf(pc[q])]' =
        [[q \in Requests |-> PhaseOf(pc[q])] EXCEPT ![r] = "closed"]
  BY <1>2, <1>5 DEF IInv, TypeOK
<1>7. QED
  BY <1>2, <1>3, <1>4, <1>5, <1>6 DEF Budget!CallCorrected, Budget!Move

LEMMA EndRefines ==
  ASSUME IInv, NEW r \in Requests, Commit(r) \/ Respond(r)
  PROVE  UNCHANGED Budget!vars
<1>1. UNCHANGED <<req, calls, pc, attempt>>
  BY DEF Commit, Respond, rows
<1>2. \A q \in Requests : HoldsAttempt(q)' <=> HoldsAttempt(q)
  BY DEF Commit, Respond, HoldsAttempt, rows, IInv, TypeOK
<1>3. QED
  BY <1>1, <1>2, Stutters

LEMMA FaultRefines ==
  ASSUME IInv, NEW r \in Requests, LoseConnection(r) \/ Crash(r)
  PROVE  Budget!Drop(r) \/ UNCHANGED Budget!vars
<1>1. /\ UNCHANGED <<req, calls, attempt>> /\ pc' = [pc EXCEPT ![r] = "closed"]
      /\ pc[r] # "idle"
  BY DEF LoseConnection, DatabaseStages, Crash, CloseWith, Goto, rows
<1>2. CASE session[r] = "active"
  <2>1. session' = [session EXCEPT ![r] = "rolledback"]
    BY <1>2 DEF LoseConnection, Crash, CloseWith, SessionAfterError
  <2>2. ~HoldsAttempt(r)' /\ \A q \in Requests \ {r} : HoldsAttempt(q)' <=> HoldsAttempt(q)
    BY <1>1, <2>1 DEF HoldsAttempt, IInv, TypeOK
  <2>3. QED
    BY <1>1, <2>2, Drops
<1>3. CASE session[r] # "active"
  <2>1. pc[r] = "finish" /\ session' = session
    BY <1>3 DEF LoseConnection, Crash, IInv, TypeOK, RequestsOK, StageOK, Stages,
       PipelineStages, PipelineInside
  <2>2. \A q \in Requests : PhaseOf(pc'[q]) = PhaseOf(pc[q])
    BY <1>1, <2>1, Phases DEF Done, IInv, TypeOK
  <2>3. \A q \in Requests : HoldsAttempt(q)' <=> HoldsAttempt(q)
    BY <1>1, <2>1 DEF HoldsAttempt
  <2>4. QED
    BY <1>1, <2>2, <2>3, Stutters
<1>4. QED
  BY <1>2, <1>3

LEMMA InitRefines == Init => Budget!Init
<1> SUFFICES ASSUME Init PROVE Budget!Init
  OBVIOUS
<1>1. \A r \in Requests : req[r].corr \in Correlations
  BY PipelineAssumption DEF Init, Input
<1>2. \A r \in Requests : PhaseOf(pc[r]) = "idle" /\ ~HoldsAttempt(r)
  BY Phases DEF Init, HoldsAttempt, NoAttempt
<1>3. calls = [r \in Requests |-> 0]
  BY DEF Init
<1>4. QED
  BY <1>1, <1>2, <1>3 DEF Budget!Init

LEMMA NextRefines == IInv /\ [Next]_vars => [Budget!Next]_(Budget!vars)
<1> SUFFICES ASSUME IInv, [Next]_vars
             PROVE  Budget!Next \/ UNCHANGED Budget!vars
  OBVIOUS
<1>1. ASSUME NEW r \in Requests, Receive(r) \/ RejectApi(r)
      PROVE  Budget!Next
  BY <1>1, ArrivalRefines DEF Budget!Next
<1>2. ASSUME NEW r \in Requests, Handle(r)
      PROVE  Budget!Next \/ UNCHANGED Budget!vars
  <2>1. CASE OriginalSucceeds(r) \/ OriginalBlocked(r) \/ OriginalFails(r)
    BY <2>1, OriginalRefines DEF Budget!Next
  <2>2. CASE InsertAttempt(r)
    BY <2>2, InsertAttemptRefines DEF Budget!Next
  <2>3. CASE InsideStep(r)
    BY <2>3, InsideRefines DEF Budget!Next
  <2>4. CASE RecordFailure(r) \/ InsertNode(r)
    BY <2>4, RecordFailureRefines DEF Budget!Next
  <2>5. CASE SelectCandidate(r)
    BY <2>5, SelectRefines DEF Budget!Next
  <2>6. CASE ExecuteCorrected(r)
    BY <2>6, ExecuteRefines DEF Budget!Next
  <2>7. CASE Commit(r) \/ Respond(r)
    BY <2>7, EndRefines
  <2>8. QED
    BY <1>2, <2>1, <2>2, <2>3, <2>4, <2>5, <2>6, <2>7 DEF Handle, InsideStep
<1>3. ASSUME NEW r \in Requests, LoseConnection(r) \/ Crash(r)
      PROVE  Budget!Next \/ UNCHANGED Budget!vars
  BY <1>3, FaultRefines DEF Budget!Next
<1>4. CASE EditPolicy \/ UNCHANGED vars
  <2>1. UNCHANGED <<req, calls, pc, session, attempt>>
    BY <1>4 DEF EditPolicy, vars, rows
  <2>2. \A q \in Requests : HoldsAttempt(q)' <=> HoldsAttempt(q)
    BY <2>1 DEF HoldsAttempt
  <2>3. QED
    BY <2>1, <2>2, Stutters
<1>5. QED
  BY <1>1, <1>2, <1>3, <1>4 DEF Next, Quiescent

\* The pipeline keeps the abstract promise about upstream executions for any number
\* of requests, correlation IDs, faults and policy edits.
THEOREM PipelineRefinesBudget == Spec => ImplementsBudget
<1>1. Init => Budget!Init
  BY InitRefines
<1>2. IInv /\ [Next]_vars => [Budget!Next]_(Budget!vars)
  BY NextRefines
<1>3. QED
  BY <1>1, <1>2, StagesHold, PTL DEF Spec, ImplementsBudget, Budget!Spec
===============================================================================
