------------------------------- MODULE AdminRows -------------------------------
(***************************************************************************)
(* The endpoints that keep users, APIs, policies, approval requests and    *)
(* evaluation runs: api/v1/auth.py, registry.py, approvals.py,             *)
(* evaluation.py with evaluation/runner.py.  A task is one request in a    *)
(* session of its own; requests overlap.  A row is named by the task that  *)
(* creates it, and keeps the columns the properties are about.             *)
(***************************************************************************)
EXTENDS Integers, FiniteSets, Schema

CONSTANTS
  Tasks,
  OldRows,          \* rows present at the start
  InitialRows,      \* what is in them
  KnownCandidates,  \* the stored correction candidates
  Names,            \* user names, e-mail addresses, API names, action types
  Jobs              \* what the tasks may be asked to do

RowIds == Tasks \cup OldRows
NoRow  == [table |-> "none"]

Tiers     == {"AUTO_ELIGIBLE", "APPROVAL_REQUIRED", "NEVER_AUTOMATIC"}
Baselines == {"B0", "B1", "B2", "B3", "P1", "other"}
Counts    == [recovered : Nat, deterministic : Nat, llm : Nat, unsafe : Nat, memory : Nat]
NoResults == << >>

Row ==
       [table : {"users"}, username : Names, email : Names]
  \cup [table : {"apis"}, name : Names, is_active : BOOLEAN]
  \cup [table : {"policies"}, action_type : Names, tier : Tiers, is_active : BOOLEAN]
  \cup [table : {"approval_requests"}, candidate_id : KnownCandidates,
        status : {"PENDING", "APPROVED", "REJECTED"}]
  \cup [table : {"evaluation_runs"}, baseline : Baselines,
        status : {"PENDING", "COMPLETED"}, results : Counts \cup {NoResults}]

\* What the bodies of the requests may give and set: an action tier or a candidate
\* may be unknown, and a PATCH may leave the columns kept here alone.
UnknownTier == "SOMETIMES"
UnknownId   == "unknown"
TierInputs  == Tiers \cup {UnknownTier}
NoColumns   == << >>

Given ==
       [table : {"users"}, username : Names, email : Names]
  \cup [table : {"apis"}, name : Names]
  \cup [table : {"policies"}, action_type : Names, tier : TierInputs, is_active : BOOLEAN]
  \cup [table : {"approval_requests"}, candidate_id : KnownCandidates \cup {UnknownId}]
  \cup [table : {"evaluation_runs"}, baseline : Baselines]

PolicySets ==
  [tier : TierInputs, is_active : BOOLEAN] \cup [tier : TierInputs]
  \cup [is_active : BOOLEAN] \cup {NoColumns}
ApiSets == [is_active : BOOLEAN] \cup {NoColumns}

\* A job creates a row with given columns, sets columns of a row (PATCH and
\* DELETE), resolves an approval request, or executes an evaluation run.
Job ==
       [op : {"create"}, given : Given]
  \cup [op : {"patch"}, table : {"policies"}, id : RowIds, set : PolicySets]
  \cup [op : {"patch"}, table : {"apis"}, id : RowIds, set : ApiSets]
  \cup [op : {"resolve"}, table : {"approval_requests"}, id : RowIds,
        set : [status : {"APPROVED", "REJECTED"}]]
  \cup [op : {"execute"}, table : {"evaluation_runs"}, id : RowIds]

ASSUME AdminAssumption ==
  /\ Tasks \cap OldRows = {}
  /\ InitialRows \in [OldRows -> Row]
  /\ Jobs \subseteq Job

VARIABLES
  table,     \* all rows, as committed
  job, pc,
  copy,      \* the row as the task read it
  draft,     \* the row as the task's session has it now
  answer,
  promised,  \* ghost: each row as the requests committed so far describe it
  setters,   \* ghost: values that committed changes gave each column of a row
  raced      \* ghost: rows changed between a task's read and its commit

vars == <<table, job, pc, copy, draft, answer, promised, setters, raced>>

Columns == {"username", "email", "name", "is_active", "action_type", "tier",
            "candidate_id", "status", "baseline", "results"}
Answers == {"created", "ok", "not_found", "conflict", "invalid", "server_error"}

TypeOK ==
  /\ table \in [RowIds -> Row \cup {NoRow}]
  /\ job \in [Tasks -> Jobs]
  /\ pc \in [Tasks -> {"start", "insert", "update", "flushed", "answered", "committed",
                     "done", "lost"}]
  /\ copy \in [Tasks -> Row \cup {NoRow}]
  /\ draft \in [Tasks -> Row \cup {NoRow}]
  /\ answer \in [Tasks -> Answers \cup {"none"}]
  /\ promised \in [RowIds -> Row \cup {NoRow}]
  /\ DOMAIN setters = RowIds \X Columns
  /\ raced \subseteq RowIds

Init ==
  /\ table = [id \in RowIds |-> IF id \in OldRows THEN InitialRows[id] ELSE NoRow]
  /\ job \in [Tasks -> Jobs]
  /\ pc = [t \in Tasks |-> "start"]
  /\ copy = [t \in Tasks |-> NoRow]
  /\ draft = [t \in Tasks |-> NoRow]
  /\ answer = [t \in Tasks |-> "none"]
  /\ promised = table
  /\ setters = [x \in RowIds \X Columns |-> {}]
  /\ raced = {}

-------------------------------------------------------------------------------
(* An evaluation run: five fixed scenarios, judged by the baseline's name *)

Scenarios ==
  {[class |-> "UNKNOWN_PARAMETER", recoverable |-> TRUE],
   [class |-> "RATE_LIMIT", recoverable |-> TRUE],
   [class |-> "SCHEMA_MISMATCH", recoverable |-> TRUE],
   [class |-> "AUTHENTICATION_FAILURE", recoverable |-> FALSE],
   [class |-> "ENDPOINT_NOT_FOUND", recoverable |-> FALSE]}

Ruled(s) == s.class \in {"UNKNOWN_PARAMETER", "RATE_LIMIT"}

\* How a baseline deals with a scenario.
Verdict(baseline, s) ==
  CASE baseline = "B1" /\ s.class = "RATE_LIMIT"     -> "retried"
    [] baseline = "B2" /\ s.recoverable /\ Ruled(s)  -> "rule"
    [] baseline = "B3" /\ s.recoverable              -> "llm"
    [] baseline = "B3" /\ s.class = "ENDPOINT_NOT_FOUND" -> "unsafe"
    [] baseline = "P1" /\ s.recoverable /\ Ruled(s)  -> "rule_and_memory"
    [] baseline = "P1" /\ s.recoverable /\ ~Ruled(s) -> "llm"
    [] OTHER -> "nothing"

\* Mutated form: whatever is not left alone counts as recovered.
Results_AllCount(baseline) ==
  LET count(verdicts) ==
        Cardinality({s \in Scenarios : Verdict(baseline, s) \in verdicts})
  IN  [recovered     |-> count({"retried", "rule", "llm", "unsafe", "rule_and_memory"}),
       deterministic |-> count({"rule", "rule_and_memory"}),
       llm |-> count({"llm"}), unsafe |-> count({"unsafe"}),
       memory |-> count({"rule_and_memory"})]

Results(baseline) ==
  LET count(verdicts) ==
        Cardinality({s \in Scenarios : Verdict(baseline, s) \in verdicts})
  IN  [recovered     |-> count({"retried", "rule", "llm", "rule_and_memory"}),
       deterministic |-> count({"rule", "rule_and_memory"}),
       llm |-> count({"llm"}), unsafe |-> count({"unsafe"}),
       memory |-> count({"rule_and_memory"})]

\* A run's row has results exactly when it is completed; no recovery in them is
\* counted as both a rule's and the model's, or is of an unrecoverable scenario.
Whole(row) ==
  /\ row.status = "COMPLETED" <=> row.results # NoResults
  /\ row.results # NoResults =>
       /\ row.results.deterministic + row.results.llm <= row.results.recovered
       /\ row.results.memory <= row.results.deterministic
       /\ row.results.recovered <= Cardinality({s \in Scenarios : s.recoverable})

\* The rows present at the start are what the unique constraints and these very
\* endpoints leave behind.
ASSUME InitialRowsAssumption ==
  /\ \A a \in OldRows :
       InitialRows[a].table = "evaluation_runs" => Whole(InitialRows[a])
  /\ \A a, b \in OldRows :
       a # b /\ InitialRows[a].table = InitialRows[b].table =>
         ~Clash(InitialRows[a].table, InitialRows[a], InitialRows[b])

-------------------------------------------------------------------------------
(* What a request does to a row *)

\* Mutated form: the columns with a default are left to the database.
NewRow_NoDefaults(given) == given

\* The columns given, and the defaults of those left out.
NewRow(given) ==
  Merged(given,
         CASE given.table = "evaluation_runs" -> [status |-> "PENDING", results |-> NoResults]
           [] given.table = "apis" -> [is_active |-> TRUE]
           [] given.table = "approval_requests" -> [status |-> "PENDING"]
           [] OTHER -> NoColumns)

\* Mutated form: a column is set when its new value is truthy.
Patched_Truthy(row, set) ==
  [column \in DOMAIN row |->
     IF column \in DOMAIN set /\ (column = "is_active" => set[column])
     THEN set[column] ELSE row[column]]

Patched(row, set) ==
  [column \in DOMAIN row |-> IF column \in DOMAIN set THEN set[column] ELSE row[column]]

\* What the task sets in the row it has read.
SetBy(j, row) ==
  IF j.op = "execute" THEN [status |-> "COMPLETED", results |-> Results(row.baseline)]
                      ELSE j.set

Stored == {id \in RowIds : table[id] # NoRow}
In(name) == {id \in Stored : table[id].table = name}

\* The rows a creating handler's own query finds; registration looks at the user
\* name only, policies at active rows only.
Duplicates(given) ==
  CASE given.table = "users" -> {id \in In("users") : table[id].username = given.username}
    [] given.table = "apis"  -> {id \in In("apis") : table[id].name = given.name}
    [] given.table = "policies" ->
         {id \in In("policies") : table[id].action_type = given.action_type /\ table[id].is_active}
    [] given.table = "approval_requests" ->
         {id \in In("approval_requests") : /\ table[id].candidate_id = given.candidate_id
                                           /\ table[id].status = "PENDING"}
    [] OTHER -> {}

ValidTier(columns) == "tier" \in DOMAIN columns => columns.tier \in Tiers

\* submit_for_approval names a column the model does not have, and the constructor
\* raises.
Constructible(given) ==
  given.table = "approval_requests" => Fits("approval_requests", ApprovalColumns)

\* Mutated form: only what the handler has looked for is refused.
Refused_Checked(row) == Duplicates(row) # {}

\* The committed rows a unique constraint compares with.
Refused(row) == \E id \in In(row.table) : Clash(row.table, table[id], row)

-------------------------------------------------------------------------------
(* The steps of a request *)

Goto(t, stage) == pc' = [pc EXCEPT ![t] = stage]
Ends(t, reply) == Goto(t, "done") /\ answer' = [answer EXCEPT ![t] = reply]
NoEffect == UNCHANGED <<table, job, copy, draft, promised, setters, raced>>

Creating(t) == job[t].op = "create"

\* The handler has flushed what it writes, and its transaction is open: its response
\* may have been sent already.
Open(t) == pc[t] \in {"flushed", "answered"}

CreateInvalid(t) ==
  /\ pc[t] = "start" /\ Creating(t)
  /\ ~ValidTier(job[t].given)
  /\ Ends(t, "invalid") /\ NoEffect

UnknownCandidate(given) ==
  given.table = "approval_requests" /\ given.candidate_id \notin KnownCandidates

CreateRefused(t) ==
  /\ pc[t] = "start" /\ Creating(t) /\ ValidTier(job[t].given)
  /\ IF UnknownCandidate(job[t].given)
     THEN Ends(t, "not_found")
     ELSE Duplicates(job[t].given) # {} /\ Ends(t, "conflict")
  /\ NoEffect

Create(t) ==
  LET given == job[t].given
  IN  /\ pc[t] = "start" /\ Creating(t) /\ ValidTier(given)
      /\ ~UnknownCandidate(given)
      /\ Duplicates(given) = {}
      /\ IF Constructible(given)
         THEN /\ Goto(t, "insert")
              /\ draft' = [draft EXCEPT ![t] = NewRow(given)]
              /\ UNCHANGED <<table, job, copy, answer, promised, setters, raced>>
         ELSE Ends(t, "server_error") /\ NoEffect

\* Another request's uncommitted row with the same unique columns.
KeyHeld(t) ==
  \E u \in Tasks \ {t} : /\ Open(u) /\ Creating(u)
                         /\ draft[u].table = draft[t].table
                         /\ Clash(draft[t].table, draft[u], draft[t])

InsertRefused(t) ==
  /\ pc[t] = "insert" /\ ~KeyHeld(t)
  /\ Refused(draft[t])
  /\ Ends(t, "server_error") /\ NoEffect

Insert(t) ==
  /\ pc[t] = "insert" /\ ~KeyHeld(t)
  /\ ~Refused(draft[t])
  /\ Goto(t, "flushed")
  /\ UNCHANGED answer /\ NoEffect

\* get_db commits after the handler has returned: before the response is sent, or
\* after it, as the release of the framework has it.
Commits(t) == Open(t) /\ Goto(t, IF pc[t] = "flushed" THEN "committed" ELSE "done")

CommitInsert(t) ==
  /\ Commits(t) /\ Creating(t)
  /\ table' = [table EXCEPT ![t] = draft[t]]
  /\ promised' = [promised EXCEPT ![t] = NewRow(job[t].given)]
  /\ UNCHANGED <<job, copy, draft, answer, setters, raced>>

Found(t) == job[t].id \in In(job[t].table)
Pending(t) == job[t].op = "resolve" => table[job[t].id].status = "PENDING"
ValidSet(t) == job[t].op = "patch" => ValidTier(job[t].set)

\* No such row, an approval request that is resolved, or a bad tier.
LoadRefused(t) ==
  /\ pc[t] = "start" /\ ~Creating(t)
  /\ CASE ~Found(t)   -> Ends(t, "not_found")
       [] Found(t) /\ ~Pending(t) -> Ends(t, "conflict")
       [] OTHER        -> ~ValidSet(t) /\ Ends(t, "invalid")
  /\ NoEffect

Load(t) ==
  LET row == table[job[t].id]
  IN  /\ pc[t] = "start" /\ ~Creating(t)
      /\ Found(t) /\ Pending(t) /\ ValidSet(t)
      /\ Goto(t, "update")
      /\ copy' = [copy EXCEPT ![t] = row]
      /\ draft' = [draft EXCEPT ![t] = Patched(row, SetBy(job[t], row))]
      /\ UNCHANGED <<table, job, answer, promised, setters, raced>>

\* Without a changed column there is no UPDATE; an execution has already written
\* that the run is running.
Writes(t) == job[t].op = "execute" \/ draft[t] # copy[t]

RowLocked(t) ==
  \E u \in Tasks \ {t} : /\ Open(u) /\ ~Creating(u)
                         /\ job[u].id = job[t].id /\ Writes(u)

Update(t) ==
  /\ pc[t] = "update"
  /\ Writes(t) => ~RowLocked(t)
  /\ Goto(t, "flushed")
  /\ UNCHANGED answer /\ NoEffect

\* Mutated form: the whole row is written back.
Written_Whole(row, old, new) == new

\* The ORM writes the columns whose value differs from the one it read.
Written(row, old, new) ==
  [column \in DOMAIN row |-> IF new[column] # old[column] THEN new[column]
                                                          ELSE row[column]]

\* What ApprovalResponse reads off the row; reviewer_note is set by the handler.
ApprovalResponseColumns ==
  {"id", "candidate_id", "status", "justification", "reviewer_id", "created_at",
   "resolved_at"}

\* The response is made from the row before the commit and before it is sent; a row
\* that none can be made from is rolled back.
Answerable(t) ==
  job[t].op = "resolve" =>
    ApprovalResponseColumns \subseteq
      Tables["approval_requests"].required \cup Tables["approval_requests"].optional

CommitUpdate(t) ==
  /\ Commits(t) /\ ~Creating(t) /\ Answerable(t)
  /\ LET id == job[t].id
         set == SetBy(job[t], copy[t])
     IN  /\ table' = [table EXCEPT ![id] = Written(@, copy[t], draft[t])]
         /\ promised' = [promised EXCEPT ![id] = Merged(set, @)]
         /\ setters' = [x \in DOMAIN setters |->
                          IF x[1] = id /\ x[2] \in DOMAIN set
                          THEN setters[x] \cup {set[x[2]]} ELSE setters[x]]
         /\ raced' = IF table[id] = copy[t] THEN raced ELSE raced \cup {id}
  /\ UNCHANGED <<job, copy, draft, answer>>

\* The response is sent, after the commit or before it.
Answer(t) ==
  /\ pc[t] \in {"flushed", "committed"} /\ Answerable(t)
  /\ answer' = [answer EXCEPT ![t] = IF Creating(t) THEN "created" ELSE "ok"]
  /\ Goto(t, IF pc[t] = "committed" THEN "done" ELSE "answered")
  /\ NoEffect

\* The connection is lost before the commit, or the answer cannot be made.
Rollback(t) ==
  /\ pc[t] \in {"insert", "update", "flushed"}
  /\ Ends(t, "server_error") /\ NoEffect

\* The commit fails when the client has its answer.
CommitFails(t) ==
  /\ pc[t] = "answered"
  /\ Goto(t, "lost")
  /\ UNCHANGED answer /\ NoEffect

Quiescent == (\A t \in Tasks : pc[t] \in {"done", "lost"}) /\ UNCHANGED vars

Next ==
  \/ \E t \in Tasks :
       \/ CreateInvalid(t) \/ CreateRefused(t) \/ Create(t)
       \/ InsertRefused(t) \/ Insert(t) \/ CommitInsert(t)
       \/ LoadRefused(t) \/ Load(t) \/ Update(t) \/ CommitUpdate(t)
       \/ Answer(t) \/ Rollback(t) \/ CommitFails(t)
  \/ Quiescent

Spec == Init /\ [][Next]_vars

-------------------------------------------------------------------------------
(* Properties *)

\* The queries that expect at most one row find at most one: the check of every
\* creating handler, the log-in, and the policy engine's lookup of the active
\* policy, however creations, deactivations and reactivations overlap.
LookupsAreUnambiguous ==
  \A a, b \in Stored :
    a # b /\ table[a].table = table[b].table => ~Clash(table[a].table, table[a], table[b])

\* A client was told of success and the commit is not outstanding, or only the answer is.
Kept(t) == pc[t] = "committed" \/ (pc[t] = "done" /\ answer[t] \in {"created", "ok"})

\* The row of a creation is there exactly if the creation is kept; the values of a
\* change that is kept are among those its row was given.
Recorded(t) ==
  IF Creating(t)
  THEN table[t] # NoRow <=> Kept(t)
  ELSE LET set == SetBy(job[t], copy[t])
       IN  Kept(t) => \A column \in DOMAIN set :
                        set[column] \in setters[<<job[t].id, column>>]

\* A row that was not changed between the read and the commit of a request that changed
\* it is what the committed requests asked for, in the order of their commits.  A client
\* that was told of its row or its change finds it committed, unless the commit is
\* still to come or has failed behind the answer; one that was refused, or told of an
\* error, left no row.
UnracedRowsAreAnswered ==
  /\ \A id \in RowIds \ raced : table[id] = promised[id]
  /\ \A t \in Tasks : Recorded(t)

\* Overlapping changes of different columns of a row do not undo each other: a
\* column that all committed changes gave the same value has that value.
PatchesCompose ==
  \A id \in Stored : \A column \in DOMAIN table[id] \ {"table"} :
    \A v \in setters[<<id, column>>] :
      setters[<<id, column>>] = {v} => table[id][column] = v

\* A run's row has results exactly when it is completed, also after executing it
\* again; no recovery in them is counted as both a rule's and the model's, or is
\* of a scenario that was executed unsafely.
EvaluationIsWhole == \A id \in In("evaluation_runs") : Whole(table[id])
===============================================================================
