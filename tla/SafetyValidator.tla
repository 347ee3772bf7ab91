---------------------------- MODULE SafetyValidator ----------------------------
(***************************************************************************)
(* recovery/safety/validator.py: the deterministic checks a candidate must *)
(* all pass before it may be executed.                                     *)
(*                                                                         *)
(* A candidate's list of changes is one of a few kinds, told apart only by *)
(* what the checks and the application of the changes do with them:        *)
(*   "clean"         nothing to object to                                  *)
(*   "secret"        a change holds a secret-like key                      *)
(*   "host_replace"  a change replaces a host or URL field                 *)
(*   "not_iterable"  a model answer whose changes are no list: the checks  *)
(*                   that walk the list raise, if they are reached         *)
(*   "null_wait"     a wait_and_retry whose duration is null, or no list   *)
(*                   at all (null): passes every check and raises when the *)
(*                   changes are applied                                   *)
(***************************************************************************)
EXTENDS Naturals, PolicyEngine

ChangeKinds == {"clean", "secret", "host_replace", "not_iterable", "null_wait"}

SafeActionTypes ==
  { "parameter_rename", "remove_optional_field", "retry_after",
    "schema_field_mapping", "add_missing_optional_field",
    "normalize_field_type" }

Methods           == {"GET", "HEAD", "OPTIONS", "PUT", "DELETE", "POST", "PATCH"}
IdempotentMethods == {"GET", "HEAD", "OPTIONS", "PUT", "DELETE"}

\* Check 2 binds the AUTO_ELIGIBLE tier only.
SafeForTier(action, tier) == tier = AutoEligible => action \in SafeActionTypes

\* Check 6 binds the AUTO_ELIGIBLE tier only.  The broker never passes the
\* explicit is_idempotent flag, so the method alone decides.
RepeatableForTier(method, tier) == tier = AutoEligible => method \in IdempotentMethods

\* The walk over the changes (checks 3 and 4) comes after checks 1 and 2.
ValidationRaises(candidate, tier) ==
  /\ tier # NeverAutomatic
  /\ SafeForTier(candidate.type, tier)
  /\ candidate.changes = "not_iterable"

Validate(candidate, tier, method, attemptCount, maxAttempts) ==
  /\ tier # NeverAutomatic
  /\ SafeForTier(candidate.type, tier)
  /\ candidate.changes # "secret"
  /\ candidate.changes # "host_replace"
  /\ RepeatableForTier(method, tier)
  /\ attemptCount < maxAttempts
===============================================================================
