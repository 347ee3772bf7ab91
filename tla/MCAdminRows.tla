------------------------------ MODULE MCAdminRows ------------------------------
(***************************************************************************)
(* Small instances of AdminRows for TLC.                                   *)
(***************************************************************************)
EXTENDS AdminRows, TLC

CONSTANTS t1, t2, t3, seed, run, candidate

ThreeTasks == {t1, t2, t3}
TwoRows    == {seed, run}
OneCandidate == {candidate}

\* A seeded policy and a run that nobody has executed yet.
OneOfEach ==
  (seed :> [table |-> "policies", action_type |-> "parameter_rename",
            tier |-> SeededTiers["parameter_rename"], is_active |-> TRUE])
  @@ (run :> [table |-> "evaluation_runs", baseline |-> "B3", status |-> "PENDING",
              results |-> NoResults])

SomeNames == {"alice", "a@x", "b@x", "orders", "parameter_rename", "retry_after"}

Make(given)    == [op |-> "create", given |-> given]
Change(table_, id, set) == [op |-> "patch", table |-> table_, id |-> id, set |-> set]
Execute(id) == [op |-> "execute", table |-> "evaluation_runs", id |-> id]

User(name, mail) == [table |-> "users", username |-> name, email |-> mail]
PolicyOf(type, tier, active) ==
  [table |-> "policies", action_type |-> type, tier |-> tier, is_active |-> active]

SomeJobs ==
  {Make(User("alice", "a@x")), Make(User("orders", "a@x")),
   Make([table |-> "apis", name |-> "orders"]),
   Make(PolicyOf("parameter_rename", "NEVER_AUTOMATIC", TRUE)),
   Make(PolicyOf("retry_after", "AUTO_ELIGIBLE", FALSE)),
   Make(PolicyOf("retry_after", UnknownTier, TRUE)),
   Make([table |-> "approval_requests", candidate_id |-> candidate]),
   Make([table |-> "approval_requests", candidate_id |-> UnknownId]),
   Make([table |-> "evaluation_runs", baseline |-> "P1"]),
   Change("policies", seed, [is_active |-> FALSE]),
   Change("policies", seed, [tier |-> "APPROVAL_REQUIRED"]),
   Change("policies", seed, [tier |-> UnknownTier]),
   Change("policies", t1, [is_active |-> TRUE]),
   Change("apis", t1, [is_active |-> FALSE]),
   [op |-> "resolve", table |-> "approval_requests", id |-> t1,
    set |-> [status |-> "APPROVED"]],
   Execute(run), Execute(t1)}
===============================================================================
