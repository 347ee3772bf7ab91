----------------------------- MODULE PolicyEngine -----------------------------
(***************************************************************************)
(* recovery/policy/engine.py: which of the three tiers a correction's      *)
(* action type falls into.  `policies` is the table of ACTIVE policy rows, *)
(* a function from action types to a tier or NoPolicy.                     *)
(***************************************************************************)

AutoEligible     == "AUTO_ELIGIBLE"
ApprovalRequired == "APPROVAL_REQUIRED"
NeverAutomatic   == "NEVER_AUTOMATIC"

Tiers    == {AutoEligible, ApprovalRequired, NeverAutomatic}
NoPolicy == "no policy"

\* Action types that no policy row can ever make executable.
HardcodedNeverAutomatic ==
  { "destination_host_change", "disable_tls_verification",
    "credential_disclosure", "authorization_scope_expansion",
    "arbitrary_code_execution", "unregistered_endpoint_redirect",
    "host_change", "tls_bypass", "credential_leak", "scope_expansion",
    "code_execution" }

\* Hardcoded list first, then the active row, then the default tier.
ClassifyAction(action, policies) ==
  IF action \in HardcodedNeverAutomatic THEN NeverAutomatic
  ELSE IF policies[action] # NoPolicy THEN policies[action]
  ELSE ApprovalRequired
===============================================================================
