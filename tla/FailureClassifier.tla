--------------------------- MODULE FailureClassifier ---------------------------
(***************************************************************************)
(* failures/classifier.py: how the first, failed upstream execution is     *)
(* classified.  A failure is a transport error or an HTTP reply; of the    *)
(* body of a 400 or 422 only the keyword group it matches is kept.         *)
(***************************************************************************)
EXTENDS Naturals

BodyHints == {"unknown_field", "invalid", "schema", "other"}

Failure ==
  [kind : {"timeout", "connection"}, status : {0}, hint : {"other"}] \cup
  [kind : {"http"}, status : 400..599, hint : BodyHints]

\* A 400 or 422 is told apart by the keywords in its body.
BadRequestClass(hint) ==
  CASE hint = "unknown_field" -> "UNKNOWN_PARAMETER"
    [] hint = "schema"        -> "SCHEMA_MISMATCH"
    [] OTHER                  -> "INVALID_PARAMETER"

FailureClass(f) ==
  CASE f.kind = "timeout"          -> "TIMEOUT"
    [] f.kind = "connection"       -> "CONNECTION_FAILURE"
    [] f.status = 429              -> "RATE_LIMIT"
    [] f.status = 401              -> "AUTHENTICATION_FAILURE"
    [] f.status = 403              -> "AUTHORIZATION_FAILURE"
    [] f.status = 404              -> "ENDPOINT_NOT_FOUND"
    [] f.status \in {400, 422}     -> BadRequestClass(f.hint)
    [] f.status >= 500             -> "UPSTREAM_5XX"
    [] OTHER                       -> "UNKNOWN"

\* classifier_confidence in hundredths.
ClassifierConfidence(f) ==
  IF FailureClass(f) = "UNKNOWN" THEN 50
  ELSE IF f.kind = "http" /\ f.status \in {400, 422}
    THEN CASE f.hint \in {"unknown_field", "invalid"} -> 90
           [] f.hint = "schema"                       -> 85
           [] OTHER                                   -> 75
    ELSE 100

\* What the stored signatures tell apart.
Signature(f) == <<FailureClass(f), f.status>>

RecoverableClasses ==
  { "UNKNOWN_PARAMETER", "INVALID_PARAMETER", "SCHEMA_MISMATCH",
    "ENDPOINT_NOT_FOUND", "VERSION_MISMATCH", "RATE_LIMIT", "TIMEOUT",
    "CONNECTION_FAILURE", "UPSTREAM_5XX", "MALFORMED_RESPONSE" }

IsRecoverable(f) == FailureClass(f) \in RecoverableClasses
===============================================================================
