-------------------------- MODULE MCRecoveryPipeline --------------------------
(***************************************************************************)
(* Small instances of RecoveryPipeline for TLC.                            *)
(***************************************************************************)
EXTENDS DocumentedPromises, TLC

CONSTANTS r1, r2, r3, c1, c2, c3

BothRequests == {r1, r2}
OneRequest   == {r1}
ThreeRequests == {r1, r2, r3}
TwoIds       == {c1, c2}
ThreeIds     == {c1, c2, c3}

Payload(corr, method, mode) == [corr |-> corr, method |-> method, mode |-> mode]

\* Two clients that may have chosen the same correlation ID, or not.
MixedInputs == {Payload(c1, "GET", "auto"), Payload(c1, "POST", "auto"),
                Payload(c2, "GET", "auto")}
ManyIdInputs == {Payload(c, "GET", "auto") : c \in ThreeIds}
DistinctInputs == {Payload(c, "GET", "auto") : c \in TwoIds}
EveryMode == {Payload(c1, m, mode) : m \in {"GET", "POST"}, mode \in Modes}

Timeout   == [kind |-> "timeout", status |-> 0, hint |-> "other"]
Http(status, hint) == [kind |-> "http", status |-> status, hint |-> hint]

RateLimited  == Http(429, "other")
Unauthorized == Http(401, "other")
UnknownField == Http(422, "unknown_field")

FewFailures  == {RateLimited, Unauthorized}
BodyFailures == {UnknownField, Timeout}
OneFailure   == {UnknownField}

Types == {"retry_after", "parameter_rename", "normalize_field_type"}
TypesWithHost == Types \cup {"host_change", "endpoint_migration"}

FromModel(type, changes) == Candidate(type, changes, 70, Llm)
Rename    == FromModel("parameter_rename", "clean")
Normalize == FromModel("normalize_field_type", "clean")
Leaky     == FromModel("parameter_rename", "secret")
Rehosted  == FromModel("parameter_rename", "host_replace")
Malformed == FromModel("parameter_rename", "not_iterable")
NullWait  == FromModel("retry_after", "null_wait")

\* No answer, a good one, one with a rejected and an unseeded type.
FewAnswers  == {<<>>, <<Leaky, Normalize>>}
GoodAnswers == {<<Rename>>}
AllAnswers  == {<<>>, <<Rename>>, <<Leaky, Normalize>>, <<Rehosted>>,
                <<Rename, Malformed>>, <<NullWait>>}

NoCases == <<>>
StoredCase(type, changes, maturity) ==
  [type |-> type, changes |-> changes, confidence |-> 90, maturity |-> maturity]
StoredCases == << StoredCase("host_change", "clean", "ESTABLISHED"),
                  StoredCase("endpoint_migration", "clean", "VALIDATED"),
                  StoredCase("parameter_rename", "clean", "VALIDATED") >>

\* The shipped database: its seeded policies and what it requires of a failure event.
DB == INSTANCE Schema
Seeded(types) == [t \in types |-> IF t \in DOMAIN DB!SeededTiers THEN DB!SeededTiers[t] ELSE NoPolicy]
ShippedSchema == DB!FailureEventIsRefused
SeededPolicies     == Seeded(Types)
SeededHostPolicies == Seeded(TypesWithHost)

NoEdits  == {}
Forbid   == {<<"parameter_rename", NeverAutomatic>>, <<"retry_after", NoPolicy>>}
Widen    == {<<"host_change", AutoEligible>>, <<"endpoint_migration", AutoEligible>>}
Everywhere == Forbid \cup Widen
===============================================================================
