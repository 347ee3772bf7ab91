-------------------------- MODULE CandidateSelection --------------------------
(***************************************************************************)
(* recovery/deterministic/templates.py, deterministic/confidence_gate.py   *)
(* and ranking/ranker.py: the candidates built without the model, whether  *)
(* they suffice, and the order in which safe candidates are preferred.     *)
(* Confidences, weights and penalties are in hundredths, scores in         *)
(* ten-thousandths.                                                        *)
(***************************************************************************)
EXTENDS Naturals, Sequences, FiniteSets, FailureClassifier

CONSTANTS
  ConfidenceThreshold, \* settings.confidence_threshold, in hundredths
  MinEvidenceCount     \* settings.min_evidence_count

ASSUME ThresholdsAssumption ==
  ConfidenceThreshold \in 0..100 /\ MinEvidenceCount \in Nat

Deterministic == "DETERMINISTIC"
Llm           == "LLM"

Candidate(type, changes, confidence, source) ==
  [type |-> type, changes |-> changes, confidence |-> confidence, source |-> source]

(* templates.py: the retry candidate exists for three failure classes only *)

RetryConfidence(f) ==
  CASE FailureClass(f) = "RATE_LIMIT"         -> 80
    [] FailureClass(f) = "CONNECTION_FAILURE" -> 60
    [] FailureClass(f) = "UPSTREAM_5XX"       -> 55
    [] OTHER                                  -> 0

RetryCandidates(f) ==
  IF RetryConfidence(f) = 0 THEN <<>>
  ELSE <<Candidate("retry_after", "clean", RetryConfidence(f), Deterministic)>>

\* A stored case gains 15 hundredths if ESTABLISHED and 5 if VALIDATED.
CaseConfidence(case) ==
  LET boosted == case.confidence + IF case.maturity = "ESTABLISHED" THEN 15
                                   ELSE IF case.maturity = "VALIDATED" THEN 5 ELSE 0
  IN  IF boosted > 100 THEN 100 ELSE boosted

FromCase(case) ==
  Candidate(case.type, case.changes, CaseConfidence(case), Deterministic)

FromCases(cases) == [i \in DOMAIN cases |-> FromCase(cases[i])]

(* confidence_gate.py, as the orchestrator calls it: only failure_match    *)
(* (weight 15) and historical_success_rate (weight 25) are ever non-zero.  *)

WeightHistorical   == 25
WeightFailureMatch == 15

ScoreReaches(cands, f, threshold) ==
  \/ WeightFailureMatch * ClassifierConfidence(f) >= 100 * threshold
  \/ \E i \in DOMAIN cands :
       WeightHistorical * cands[i].confidence
         + WeightFailureMatch * ClassifierConfidence(f) >= 100 * threshold

HighConfidence(cands) ==
  {i \in DOMAIN cands : 10 * cands[i].confidence >= 7 * ConfidenceThreshold}

\* Mutated form: one strong candidate suffices, whatever the score.
GateSufficient_OneStrong(cands, f) == HighConfidence(cands) # {}

GateSufficient(cands, f) ==
  /\ ScoreReaches(cands, f, ConfidenceThreshold)
  /\ Cardinality(HighConfidence(cands)) >= MinEvidenceCount

(* ranker.py: provenance_quality is 0 in the orchestrator's call, so the   *)
(* score is the weighted failure match less the penalty of the type,       *)
(* floored at 0; the sort is stable and descending.                        *)

RiskPenalty(action) ==
  CASE action \in { "retry_after", "parameter_rename", "remove_optional_field",
                    "schema_field_mapping", "add_missing_optional_field" } -> 0
    [] action = "credential_refresh"     -> 15
    [] action = "endpoint_migration"     -> 20
    [] action = "payload_transformation" -> 10
    [] OTHER                             -> 5

RankScore(candidate, f) ==
  LET raw == WeightFailureMatch * ClassifierConfidence(f)
      cut == 100 * RiskPenalty(candidate.type)
  IN  IF raw > cut THEN raw - cut ELSE 0

\* i heads the ranking of the candidates at the indices in S.
RankedFirst(i, S, cands, f) ==
  \A j \in S :
    \/ RankScore(cands[j], f) < RankScore(cands[i], f)
    \/ RankScore(cands[j], f) = RankScore(cands[i], f) /\ i <= j
===============================================================================
