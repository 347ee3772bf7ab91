-------------------------- MODULE DocumentedPromises --------------------------
(***************************************************************************)
(* What the repository's documents and comments say of the recovery        *)
(* pipeline and its code does not keep.  Each promise quotes its source.   *)
(***************************************************************************)
EXTENDS RecoveryPipeline

\* run returns a RecoveryResult for every failed request (orchestrator.py:130
\* "Returns RecoveryResult with outcome and response data.").  While nothing
\* crashes, no handler ends in a server error.
RunReturnsResult == \A r \in Requests : answer[r] = "server_error" => faults > 0

\* SECURITY_ACCESS.md:96, of the APPROVAL_REQUIRED tier: "Requires explicit human
\* approval."  The pipeline never asks for one, so none may be executed.
ApprovalBeforeExecution ==
  \A r \in Requests : reply[r] # None => vetted[r][best[r]].tier = AutoEligible

\* memory/service.py:119 "Check if a case with this signature+context already
\* exists": two committed cases never have the same signatures.
OneCasePerSignature ==
  \A q, r \in Requests :
    /\ session[q] = "committed" /\ case[q] = "new"
    /\ session[r] = "committed" /\ case[r] = "new"
    /\ Signature(failure[q]) = Signature(failure[r])
    => q = r

\* docs/PRD.md:160 "If at least one candidate meets configured minimum thresholds,
\* the LLM is not invoked."  Both thresholds that are configured are met here: the
\* confidence, and the number of candidates that have it.
StrongCandidateSparesModel ==
  \A r \in Requests :
    attempt[r].llm =>
      LET cands == DeterministicCandidates(failure[r])
      IN  Cardinality({i \in DOMAIN cands :
                         cands[i].confidence >= ConfidenceThreshold}) < MinEvidenceCount
===============================================================================
