--------------------------- MODULE AdminRowsProofs ----------------------------
(***************************************************************************)
(* Theorems about AdminRows, for every value of its constants: any number  *)
(* of overlapping requests, any old rows, names and jobs.                  *)
(***************************************************************************)
EXTENDS AdminRows, FiniteSetTheorems, TLAPS

TableNames == {"users", "apis", "policies", "approval_requests", "evaluation_runs"}

-------------------------------------------------------------------------------
(* The inductive invariant *)

\* A task before its commit: what it has read, and what its session holds.
InserterOK(t) ==
  /\ draft[t] = NewRow(job[t].given) /\ draft[t] \in Row
  /\ draft[t].table = "evaluation_runs" => Whole(draft[t])

ReaderOK(t) ==
  LET id == job[t].id
  IN  /\ id \in Stored /\ ValidSet(t)
      /\ copy[t] \in Row
      /\ copy[t].table = job[t].table /\ table[id].table = job[t].table
      /\ draft[t] = Patched(copy[t], SetBy(job[t], copy[t]))
      /\ job[t].table = "evaluation_runs" =>
           /\ Whole(copy[t])
           /\ copy[t].status = "COMPLETED" => table[id].status = "COMPLETED"
      /\ \A column \in DOMAIN copy[t] \ {"table"} :
           setters[<<id, column>>] = {} => table[id][column] = copy[t][column]

TaskOK(t) ==
  /\ pc[t] \in {"start", "insert", "update", "flushed", "committed"} => answer[t] = "none"
  /\ pc[t] \in {"answered", "lost"} => answer[t] = IF Creating(t) THEN "created" ELSE "ok"
  /\ pc[t] = "insert" => Creating(t)
  /\ pc[t] = "update" => ~Creating(t)
  /\ (pc[t] = "insert" \/ Open(t)) /\ Creating(t) => InserterOK(t)
  /\ (pc[t] = "update" \/ Open(t)) /\ ~Creating(t) => ReaderOK(t)
  /\ Recorded(t)

\* A row, and what has been said of it.
RowOK(id) ==
  /\ table[id] = NoRow =>
       /\ promised[id] = NoRow /\ id \notin raced
       /\ \A column \in Columns : setters[<<id, column>>] = {}
  /\ table[id] # NoRow =>
       /\ table[id] \in Row /\ promised[id] \in Row
       /\ promised[id].table = table[id].table
       /\ table[id].table = "evaluation_runs" => Whole(table[id])
  /\ id \notin raced => table[id] = promised[id]

\* No two rows, committed or about to be, have the same unique columns.
KeysOK ==
  /\ LookupsAreUnambiguous
  /\ \A t \in Tasks : Open(t) /\ Creating(t) =>
       /\ ~Refused(draft[t])
       /\ \A u \in Tasks \ {t} :
            Open(u) /\ Creating(u) /\ draft[u].table = draft[t].table =>
              ~Clash(draft[t].table, draft[u], draft[t])

IInv ==
  /\ TypeOK /\ (\A t \in Tasks : TaskOK(t)) /\ (\A id \in RowIds : RowOK(id))
  /\ KeysOK /\ PatchesCompose

-------------------------------------------------------------------------------
(* Lemmas about rows *)

\* The columns of each table's rows.
ColumnsOf(name) ==
  CASE name = "users"    -> {"table", "username", "email"}
    [] name = "apis"     -> {"table", "name", "is_active"}
    [] name = "policies" -> {"table", "action_type", "tier", "is_active"}
    [] name = "approval_requests" -> {"table", "candidate_id", "status"}
    [] name = "evaluation_runs" -> {"table", "baseline", "status", "results"}

\* A row has the columns of its table, and is not the missing row.
LEMMA RowShape ==
  ASSUME NEW r \in Row
  PROVE  /\ r.table \in TableNames /\ r # NoRow
         /\ DOMAIN r = ColumnsOf(r.table)
         /\ DOMAIN r \subseteq Columns \cup {"table"}
BY DEF Row, NoRow, TableNames, ColumnsOf, Columns

\* Each column from one of two rows of a table makes a row of that table.
LEMMA Overlay ==
  ASSUME NEW r \in Row, NEW s \in Row, r.table = s.table,
         NEW g, g = [column \in DOMAIN r |-> g[column]],
         \A column \in DOMAIN r : g[column] \in {r[column], s[column]}
  PROVE  g \in Row /\ g.table = r.table
<1>0. r.table \in TableNames /\ DOMAIN r = ColumnsOf(r.table) /\ DOMAIN g = DOMAIN r
  BY RowShape
<1>1. CASE r.table = "users"
  BY <1>0, <1>1 DEF Row, ColumnsOf
<1>2. CASE r.table = "apis"
  BY <1>0, <1>2 DEF Row, ColumnsOf
<1>3. CASE r.table = "policies"
  BY <1>0, <1>3 DEF Row, ColumnsOf
<1>4. CASE r.table = "approval_requests"
  BY <1>0, <1>4 DEF Row, ColumnsOf
<1>5. CASE r.table = "evaluation_runs"
  BY <1>0, <1>5 DEF Row, ColumnsOf
<1>q. QED
  BY <1>0, <1>1, <1>2, <1>3, <1>4, <1>5 DEF TableNames

\* A merge of two functions: its domain and its values.
LEMMA MergedValues ==
  ASSUME NEW f, NEW g
  PROVE  /\ DOMAIN Merged(f, g) = DOMAIN f \cup DOMAIN g
         /\ \A x \in DOMAIN f : Merged(f, g)[x] = f[x]
         /\ \A x \in DOMAIN g \ DOMAIN f : Merged(f, g)[x] = g[x]
BY DEF Merged

KeyColumns == {"username", "email", "name", "action_type"}

\* The unique constraints of these tables are on single columns.
LEMMA UniqueKeys ==
  ASSUME NEW name \in TableNames, NEW key \in Tables[name].unique
  PROVE  key = {"id"} \/ \E column \in KeyColumns : key = {column}
<1> DEFINE others == Merged(EventTables, Merged(GraphTables, RecoveryTables))
           rest   == Merged(RegistryTables, others)
<1>1. Tables = Merged(GovernanceTables, rest)
  BY DEF Tables
<1>b. /\ DOMAIN rest = DOMAIN RegistryTables \cup DOMAIN others
      /\ \A x \in DOMAIN RegistryTables : rest[x] = RegistryTables[x]
  BY MergedValues
<1> HIDE DEF others, rest
<1>a. /\ \A x \in DOMAIN GovernanceTables : Tables[x] = GovernanceTables[x]
      /\ \A x \in DOMAIN rest \ DOMAIN GovernanceTables : Tables[x] = rest[x]
  BY <1>1 DEF Merged
<1>2. /\ DOMAIN GovernanceTables = {"policies", "approval_requests", "audit_events",
                                     "model_runs", "evaluation_runs"}
      /\ DOMAIN RegistryTables = {"users", "apis", "api_endpoints", "api_versions",
                                   "api_parameters"}
  BY DEF GovernanceTables, RegistryTables
<1>3. CASE name \in {"policies", "approval_requests", "evaluation_runs"}
  <2>1. Tables[name] = GovernanceTables[name]
    BY <1>2, <1>3, <1>a
  <2>2. QED
    BY <2>1, <1>3 DEF GovernanceTables, Table, KeyColumns
<1>4. CASE name \in {"users", "apis"}
  <2>1. Tables[name] = RegistryTables[name]
    BY <1>2, <1>4, <1>a, <1>b
  <2>2. QED
    BY <2>1, <1>4 DEF RegistryTables, Table, KeyColumns
<1>q. QED
  BY <1>3, <1>4 DEF TableNames

\* Rows with the same columns, equal in the unique ones, clash with the same rows.
LEMMA ClashByKeys ==
  ASSUME NEW name \in TableNames, NEW a, NEW b, NEW c, DOMAIN a = DOMAIN b,
         "id" \notin DOMAIN a,
         \A column \in KeyColumns \cap DOMAIN a : a[column] = b[column]
  PROVE  (Clash(name, a, c) <=> Clash(name, b, c)) /\ (Clash(name, c, a) <=> Clash(name, c, b))
BY UniqueKeys DEF Clash

LEMMA ClashSymmetric ==
  ASSUME NEW name, NEW a, NEW b
  PROVE  Clash(name, a, b) <=> Clash(name, b, a)
BY DEF Clash

-------------------------------------------------------------------------------
(* Lemmas about evaluation runs *)

\* The runner's scenarios can be counted, so its numbers add up.
LEMMA ScenariosFinite == IsFiniteSet(Scenarios)
<1> DEFINE a == [class |-> "UNKNOWN_PARAMETER", recoverable |-> TRUE]
           b == [class |-> "RATE_LIMIT", recoverable |-> TRUE]
           c == [class |-> "SCHEMA_MISMATCH", recoverable |-> TRUE]
           d == [class |-> "AUTHENTICATION_FAILURE", recoverable |-> FALSE]
           e == [class |-> "ENDPOINT_NOT_FOUND", recoverable |-> FALSE]
<1>1. Scenarios = ((({a} \cup {b}) \cup {c}) \cup {d}) \cup {e}
  BY DEF Scenarios
<1> HIDE DEF a, b, c, d, e
<1>2. IsFiniteSet({a}) /\ IsFiniteSet({b}) /\ IsFiniteSet({c}) /\ IsFiniteSet({d})
      /\ IsFiniteSet({e})
  BY FS_Singleton
<1>3. IsFiniteSet({a} \cup {b})
  BY <1>2, FS_Union
<1>4. IsFiniteSet(({a} \cup {b}) \cup {c})
  BY <1>2, <1>3, FS_Union
<1>5. IsFiniteSet((({a} \cup {b}) \cup {c}) \cup {d})
  BY <1>2, <1>4, FS_Union
<1>6. IsFiniteSet(((({a} \cup {b}) \cup {c}) \cup {d}) \cup {e})
  BY <1>2, <1>5, FS_Union
<1>q. QED
  BY <1>1, <1>6

\* The numbers an execution stores are those of a whole row.
LEMMA ResultsAddUp ==
  ASSUME NEW baseline
  PROVE  /\ Results(baseline) \in Counts
         /\ Results(baseline).deterministic + Results(baseline).llm <= Results(baseline).recovered
         /\ Results(baseline).memory <= Results(baseline).deterministic
         /\ Results(baseline).recovered <= Cardinality({s \in Scenarios : s.recoverable})
<1> DEFINE With(verdicts) == {s \in Scenarios : Verdict(baseline, s) \in verdicts}
           recovered == With({"retried", "rule", "llm", "rule_and_memory"})
           rules  == With({"rule", "rule_and_memory"})
           llm    == With({"llm"})
           unsafe == With({"unsafe"})
           memory == With({"rule_and_memory"})
           possible == {s \in Scenarios : s.recoverable}
<1>1. Results(baseline) = [recovered |-> Cardinality(recovered),
                           deterministic |-> Cardinality(rules), llm |-> Cardinality(llm),
                           unsafe |-> Cardinality(unsafe), memory |-> Cardinality(memory)]
  BY DEF Results
<1>2. /\ recovered \subseteq Scenarios /\ rules \subseteq Scenarios /\ llm \subseteq Scenarios
      /\ unsafe \subseteq Scenarios /\ memory \subseteq Scenarios /\ possible \subseteq Scenarios
  OBVIOUS
<1>3. memory \subseteq rules /\ rules \cup llm \subseteq recovered /\ rules \cap llm = {}
  OBVIOUS
<1>4. recovered \subseteq possible
  BY DEF Verdict, Ruled, Scenarios
<1>9. {s \in Scenarios : s.recoverable} = possible
  OBVIOUS
<1> HIDE DEF recovered, rules, llm, unsafe, memory, possible
<1>5. /\ IsFiniteSet(recovered) /\ IsFiniteSet(rules) /\ IsFiniteSet(llm)
      /\ IsFiniteSet(unsafe) /\ IsFiniteSet(memory) /\ IsFiniteSet(possible)
  BY <1>2, ScenariosFinite, FS_Subset
<1>6. /\ Cardinality(recovered) \in Nat /\ Cardinality(rules) \in Nat
      /\ Cardinality(llm) \in Nat /\ Cardinality(unsafe) \in Nat
      /\ Cardinality(memory) \in Nat /\ Cardinality(possible) \in Nat
  BY <1>5, FS_CardinalityType
<1>7. /\ Cardinality(memory) <= Cardinality(rules)
      /\ Cardinality(recovered) <= Cardinality(possible)
      /\ Cardinality(rules \cup llm) <= Cardinality(recovered)
  BY <1>3, <1>4, <1>5, FS_Subset
<1>8. Cardinality(rules \cup llm) = Cardinality(rules) + Cardinality(llm)
  <2>1. Cardinality(rules \cap llm) = 0
    <3>1. Cardinality({}) = 0
      BY FS_EmptySet
    <3>2. QED
      BY <1>3, <3>1, Zenon
  <2>2. Cardinality(rules \cup llm)
          = Cardinality(rules) + Cardinality(llm) - Cardinality(rules \cap llm)
    BY <1>5, FS_Union
  <2>3. QED
    BY <1>6, <2>1, <2>2
<1>q. QED
  <2>1. Results(baseline) \in Counts
    BY <1>1, <1>6 DEF Counts
  <2>2. Cardinality({s \in Scenarios : s.recoverable}) = Cardinality(possible)
    BY <1>9, Zenon
  <2>3. QED
    BY <1>1, <1>6, <1>7, <1>8, <2>1, <2>2

\* An executed row is whole, whatever its baseline.
LEMMA ExecutedIsWhole ==
  ASSUME NEW row, NEW baseline, row.status = "COMPLETED", row.results = Results(baseline)
  PROVE  Whole(row)
<1>1. Results(baseline) # NoResults
  <2>0. Results(baseline) \in Counts
    BY ResultsAddUp
  <2>1. "memory" \in DOMAIN Results(baseline)
    BY <2>0 DEF Counts
  <2>2. DOMAIN NoResults = {}
    BY DEF NoResults
  <2>3. QED
    BY <2>1, <2>2
<1>q. QED
  BY <1>1, ResultsAddUp DEF Whole

-------------------------------------------------------------------------------
(* Lemmas about requests *)

\* What a well-formed creation makes.
LEMMA NewRowIsRow ==
  ASSUME NEW given \in Given, ValidTier(given), ~UnknownCandidate(given)
  PROVE  /\ NewRow(given) \in Row /\ NewRow(given).table = given.table
         /\ given.table = "evaluation_runs" => Whole(NewRow(given))
<1>0. given.table \in TableNames
  BY DEF Given, TableNames
<1>1. CASE given.table = "users"
  BY <1>1 DEF Given, NewRow, Merged, NoColumns, Row
<1>2. CASE given.table = "apis"
  BY <1>2 DEF Given, NewRow, Merged, Row
<1>3. CASE given.table = "policies"
  BY <1>3 DEF Given, NewRow, Merged, NoColumns, Row, ValidTier, Tiers, UnknownTier, TierInputs
<1>4. CASE given.table = "approval_requests"
  BY <1>4 DEF Given, NewRow, Merged, Row, UnknownCandidate
<1>5. CASE given.table = "evaluation_runs"
  BY <1>5 DEF Given, NewRow, Merged, Row, Whole
<1>q. QED
  BY <1>0, <1>1, <1>2, <1>3, <1>4, <1>5 DEF TableNames

SetColumns == {"tier", "is_active", "status", "results"}

\* The columns that changes set are not those of the unique constraints.
LEMMA SetsSpareKeys == SetColumns \cap (KeyColumns \cup {"table", "id", "baseline"}) = {}
BY DEF SetColumns, KeyColumns

\* What a request that has found its row sets in it.
LEMMA PatchedIsRow ==
  ASSUME NEW j \in Job, j.op # "create", NEW row \in Row, row.table = j.table,
         j.op = "patch" => ValidTier(j.set)
  PROVE  /\ Patched(row, SetBy(j, row)) \in Row
         /\ Patched(row, SetBy(j, row)).table = row.table
         /\ DOMAIN SetBy(j, row) \subseteq SetColumns \cap DOMAIN row
         /\ j.table = "evaluation_runs" => j.op = "execute"
<1> DEFINE set == SetBy(j, row)
<1>0. DOMAIN row = ColumnsOf(row.table)
  BY RowShape
<1>1. CASE j.op = "patch" /\ j.table = "policies"
  <2>1. set \in PolicySets /\ ValidTier(set)
    BY <1>1 DEF Job, SetBy
  <2>2. DOMAIN set \subseteq {"tier", "is_active"}
    BY <2>1 DEF PolicySets, NoColumns
  <2>3. /\ "tier" \in DOMAIN set => set["tier"] \in Tiers
        /\ "is_active" \in DOMAIN set => set["is_active"] \in BOOLEAN
    BY <2>1 DEF PolicySets, NoColumns, ValidTier
  <2> HIDE DEF set
  <2>4. row \in [table : {"policies"}, action_type : Names, tier : Tiers, is_active : BOOLEAN]
    BY <1>1 DEF Row
  <2>5. Patched(row, set) \in
          [table : {"policies"}, action_type : Names, tier : Tiers, is_active : BOOLEAN]
    BY <2>2, <2>3, <2>4 DEF Patched
  <2>6. QED
    BY <1>0, <1>1, <2>2, <2>4, <2>5 DEF Row, SetColumns, set, ColumnsOf
<1>2. CASE j.op = "patch" /\ j.table = "apis"
  <2>1. set \in ApiSets
    BY <1>2 DEF Job, SetBy
  <2>2. DOMAIN set \subseteq {"is_active"}
    BY <2>1 DEF ApiSets, NoColumns
  <2>3. "is_active" \in DOMAIN set => set["is_active"] \in BOOLEAN
    BY <2>1 DEF ApiSets, NoColumns
  <2> HIDE DEF set
  <2>4. row \in [table : {"apis"}, name : Names, is_active : BOOLEAN]
    BY <1>2 DEF Row
  <2>5. Patched(row, set) \in [table : {"apis"}, name : Names, is_active : BOOLEAN]
    BY <2>2, <2>3, <2>4 DEF Patched
  <2>6. QED
    BY <1>0, <1>2, <2>2, <2>4, <2>5 DEF Row, SetColumns, set, ColumnsOf
<1>3. CASE j.op = "resolve"
  <2>1. set \in [status : {"APPROVED", "REJECTED"}] /\ j.table = "approval_requests"
    BY <1>3 DEF Job, SetBy
  <2> HIDE DEF set
  <2>2. row \in [table : {"approval_requests"}, candidate_id : KnownCandidates,
                 status : {"PENDING", "APPROVED", "REJECTED"}]
    BY <2>1 DEF Row
  <2>3. Patched(row, set) \in
          [table : {"approval_requests"}, candidate_id : KnownCandidates,
           status : {"PENDING", "APPROVED", "REJECTED"}]
    BY <2>1, <2>2 DEF Patched
  <2>4. QED
    BY <1>0, <2>1, <2>2, <2>3 DEF Row, SetColumns, set, ColumnsOf
<1>4. CASE j.op = "execute"
  <2>1. /\ set = [status |-> "COMPLETED", results |-> Results(row.baseline)]
        /\ j.table = "evaluation_runs"
    BY <1>4 DEF Job, SetBy
  <2> HIDE DEF set
  <2>2. row \in [table : {"evaluation_runs"}, baseline : Baselines,
                 status : {"PENDING", "COMPLETED"}, results : Counts \cup {NoResults}]
    BY <2>1 DEF Row
  <2>3. Patched(row, set) \in
          [table : {"evaluation_runs"}, baseline : Baselines,
           status : {"PENDING", "COMPLETED"}, results : Counts \cup {NoResults}]
    BY <2>1, <2>2, ResultsAddUp DEF Patched
  <2>4. QED
    BY <1>0, <1>4, <2>1, <2>2, <2>3 DEF Row, SetColumns, set, ColumnsOf
<1>q. QED
  BY <1>1, <1>2, <1>3, <1>4 DEF Job

LEMMA JobShape ==
  ASSUME NEW j \in Job
  PROVE  /\ j.op = "create" => j.given \in Given
         /\ j.op # "create" => j.id \in RowIds
BY DEF Job

\* A change sets columns of rows, whatever it has read.
LEMMA SetByColumns ==
  ASSUME NEW j \in Job, j.op # "create", NEW row
  PROVE  DOMAIN SetBy(j, row) \subseteq Columns
<1>1. CASE j.op = "patch"
  <2>1. SetBy(j, row) \in PolicySets \cup ApiSets
    BY <1>1 DEF Job, SetBy
  <2>2. QED
    BY <2>1 DEF PolicySets, ApiSets, NoColumns, Columns
<1>2. CASE j.op = "resolve"
  <2>1. SetBy(j, row) \in [status : {"APPROVED", "REJECTED"}]
    BY <1>2 DEF Job, SetBy
  <2>2. QED
    BY <2>1 DEF Columns
<1>3. CASE j.op = "execute"
  BY <1>3 DEF SetBy, Columns
<1>q. QED
  BY <1>1, <1>2, <1>3 DEF Job

\* What writing the changed columns of a row over the row as it now is makes, and
\* what the answers make of it: nothing but the columns set differs, a set column
\* that was not written had its value when read, and without a change in between
\* both are the same.
LEMMA Overwritten ==
  ASSUME NEW j \in Job, j.op # "create", j.op = "patch" => ValidTier(j.set),
         NEW row \in Row, NEW old \in Row, NEW said \in Row,
         row.table = j.table, old.table = j.table, said.table = j.table
  PROVE  LET set == SetBy(j, old)
             new == Written(row, old, Patched(old, set))
             now == Merged(set, said)
         IN  /\ new \in Row /\ new.table = row.table /\ DOMAIN new = DOMAIN row
             /\ \A column \in DOMAIN row \ DOMAIN set : new[column] = row[column]
             /\ \A column \in DOMAIN set :
                  new[column] = IF set[column] # old[column] THEN set[column] ELSE row[column]
             /\ DOMAIN set \subseteq SetColumns \cap DOMAIN row
             /\ now \in Row /\ now.table = said.table
             /\ row = old /\ said = row => new = now
<1> DEFINE set == SetBy(j, old)
           patched == Patched(old, set)
           new == Written(row, old, patched)
           now == Merged(set, said)
<1>1. /\ patched \in Row /\ patched.table = old.table
      /\ DOMAIN set \subseteq SetColumns \cap DOMAIN old
  BY PatchedIsRow
<1>2. DOMAIN row = DOMAIN old /\ DOMAIN said = DOMAIN old /\ DOMAIN patched = DOMAIN old
  BY <1>1, RowShape
<1> HIDE DEF set
<1>3. \A column \in DOMAIN old :
        patched[column] = IF column \in DOMAIN set THEN set[column] ELSE old[column]
  BY DEF Patched
<1> HIDE DEF patched
<1>4. new = [column \in DOMAIN row |->
               IF patched[column] # old[column] THEN patched[column] ELSE row[column]]
  BY DEF Written
<1>5. now = [column \in DOMAIN said |->
               IF column \in DOMAIN set THEN set[column] ELSE said[column]]
  <2>1. DOMAIN set \cup DOMAIN said = DOMAIN said
    BY <1>1, <1>2
  <2>2. QED
    BY <2>1 DEF Merged
<1> HIDE DEF new, now
<1>6. new \in Row /\ new.table = row.table
  <2>1. /\ new = [column \in DOMAIN row |-> new[column]]
        /\ \A column \in DOMAIN row : new[column] \in {row[column], patched[column]}
    BY <1>4
  <2>2. QED
    BY <1>1, <2>1, Overlay
<1>7. now \in Row /\ now.table = said.table
  <2>1. /\ now = [column \in DOMAIN said |-> now[column]]
        /\ \A column \in DOMAIN said : now[column] \in {said[column], patched[column]}
    BY <1>2, <1>3, <1>5
  <2>2. QED
    BY <1>1, <2>1, Overlay
<1>8. /\ DOMAIN new = DOMAIN row
      /\ \A column \in DOMAIN row \ DOMAIN set : new[column] = row[column]
      /\ \A column \in DOMAIN set :
           new[column] = IF set[column] # old[column] THEN set[column] ELSE row[column]
  BY <1>1, <1>2, <1>3, <1>4
<1>9. ASSUME row = old, said = row  PROVE new = now
  BY <1>2, <1>3, <1>4, <1>5, <1>9
<1>q. QED
  BY <1>1, <1>2, <1>6, <1>7, <1>8, <1>9 DEF set, new, now, patched

\* An execution over an execution leaves a whole, completed row.
LEMMA ExecutedOver ==
  ASSUME NEW row, NEW old, NEW new, NEW set, NEW baseline,
         set = [status |-> "COMPLETED", results |-> Results(baseline)],
         Whole(row), Whole(old), old.status = "COMPLETED" => row.status = "COMPLETED",
         \A column \in DOMAIN set :
           new[column] = IF set[column] # old[column] THEN set[column] ELSE row[column]
  PROVE  Whole(new) /\ new.status = "COMPLETED"
<1>1. new.status = "COMPLETED"
  OBVIOUS
<1>2. new.results = IF Results(baseline) # old.results THEN Results(baseline) ELSE row.results
  OBVIOUS
<1>3. CASE Results(baseline) # old.results
  BY <1>1, <1>2, <1>3, ExecutedIsWhole
<1>4. CASE Results(baseline) = old.results
  <2>1. old.results # NoResults
    <3>1. Whole([status |-> "COMPLETED", results |-> Results(baseline)])
      BY ExecutedIsWhole
    <3>2. QED
      BY <1>4, <3>1 DEF Whole
  <2>2. row.status = "COMPLETED"
    BY <2>1 DEF Whole
  <2>3. QED
    BY <1>1, <1>2, <1>4, <2>2 DEF Whole
<1>q. QED
  BY <1>3, <1>4

-------------------------------------------------------------------------------
(* The steps *)

\* The invariant holds of the rows stored at the start.
LEMMA InitEstablishes == Init => IInv
<1> SUFFICES ASSUME Init  PROVE IInv
  OBVIOUS
<1> USE AdminAssumption
<1>1. TypeOK
  BY DEF Init, TypeOK, RowIds
<1>2. ASSUME NEW id \in RowIds, table[id] # NoRow
      PROVE  id \in OldRows /\ table[id] = InitialRows[id] /\ table[id] \in Row
  BY <1>2 DEF Init, RowIds
<1>3. ASSUME NEW t \in Tasks  PROVE TaskOK(t)
  <2>1. pc[t] = "start" /\ answer[t] = "none" /\ ~Open(t) /\ ~Kept(t)
    BY DEF Init, Open, Kept
  <2>2. t \in RowIds /\ t \notin OldRows
    BY DEF RowIds
  <2>3. table[t] = NoRow
    BY <1>2, <2>2
  <2>4. QED
    BY <2>1, <2>3 DEF TaskOK, Recorded
<1>4. ASSUME NEW id \in RowIds  PROVE RowOK(id)
  BY <1>2, <1>4, InitialRowsAssumption DEF Init, RowOK
<1>5. KeysOK
  BY <1>2, InitialRowsAssumption DEF Init, KeysOK, LookupsAreUnambiguous, Stored, Open
<1>6. PatchesCompose
  <2>1. ASSUME NEW id \in Stored, NEW column \in DOMAIN table[id] \ {"table"}
        PROVE  setters[<<id, column>>] = {}
    BY <1>2, RowShape DEF Init, Stored
  <2>2. QED
    BY <2>1 DEF PatchesCompose
<1>q. QED
  BY <1>1, <1>3, <1>4, <1>5, <1>6 DEF IInv

\* A request that ends without an effect.
LEMMA EndsStep ==
  ASSUME IInv, NEW t \in Tasks, NEW reply \in Answers \ {"created", "ok"},
         pc[t] \in {"start", "insert", "update", "flushed"},
         Ends(t, reply), NoEffect
  PROVE  IInv'
<1> USE DEF Ends, Goto, NoEffect
<1>1. TypeOK'
  BY DEF IInv, TypeOK
<1>2. ASSUME NEW u \in Tasks  PROVE TaskOK(u)'
  BY DEF IInv, TypeOK, TaskOK, Open, Recorded, Kept, Creating, InserterOK, ReaderOK, Stored,
         ValidSet
<1>3. ASSUME NEW id \in RowIds  PROVE RowOK(id)'
  BY DEF IInv, RowOK
<1>4. KeysOK'
  BY DEF IInv, TypeOK, KeysOK, LookupsAreUnambiguous, Stored, In, Refused, Creating, Open
<1>5. PatchesCompose'
  BY DEF IInv, PatchesCompose, Stored
<1>q. QED
  BY <1>1, <1>2, <1>3, <1>4, <1>5 DEF IInv

\* A creating handler reads the committed rows and refuses, fails or builds its row.
LEMMA CreateStep ==
  ASSUME IInv, NEW t \in Tasks, Create(t)
  PROVE  IInv'
<1> DEFINE given == job[t].given
<1>1. CASE Constructible(given)
  <2> USE DEF Goto
  <2>1. job[t] \in Job /\ given \in Given
    BY <1>1, AdminAssumption, JobShape DEF IInv, TypeOK, Create, Creating
  <2>2. /\ NewRow(given) \in Row
        /\ NewRow(given).table = "evaluation_runs" => Whole(NewRow(given))
    BY <2>1, NewRowIsRow DEF Create
  <2>3. /\ pc[t] = "start" /\ Creating(t)
        /\ pc' = [pc EXCEPT ![t] = "insert"]
        /\ draft' = [draft EXCEPT ![t] = NewRow(given)]
        /\ UNCHANGED <<table, job, copy, answer, promised, setters, raced>>
    BY <1>1 DEF Create
  <2> HIDE DEF given
  <2>4. TypeOK'
    BY <2>2, <2>3 DEF IInv, TypeOK
  <2>5. ASSUME NEW u \in Tasks  PROVE TaskOK(u)'
    BY <2>2, <2>3
       DEF IInv, TypeOK, TaskOK, Open, Recorded, Kept, Creating, InserterOK, ReaderOK, Stored,
           ValidSet, given
  <2>6. ASSUME NEW id \in RowIds  PROVE RowOK(id)'
    BY <2>3 DEF IInv, RowOK
  <2>7. KeysOK'
    BY <2>3 DEF IInv, TypeOK, KeysOK, LookupsAreUnambiguous, Stored, In, Refused, Creating, Open
  <2>8. PatchesCompose'
    BY <2>3 DEF IInv, PatchesCompose, Stored
  <2>q. QED
    BY <2>4, <2>5, <2>6, <2>7, <2>8 DEF IInv
<1>2. CASE ~Constructible(given)
  BY <1>2, EndsStep DEF Create, Answers
<1>q. QED
  BY <1>1, <1>2

\* The flush of a new row succeeds only if nobody, committed or open, has its key.
LEMMA InsertStep ==
  ASSUME IInv, NEW t \in Tasks, Insert(t)
  PROVE  IInv'
<1> USE DEF Insert, Goto, NoEffect
<1>1. TypeOK'
  BY DEF IInv, TypeOK
<1>2. ASSUME NEW u \in Tasks  PROVE TaskOK(u)'
  BY DEF IInv, TypeOK, TaskOK, Open, Recorded, Kept, Creating, InserterOK, ReaderOK, Stored,
         ValidSet
<1>3. ASSUME NEW id \in RowIds  PROVE RowOK(id)'
  BY DEF IInv, RowOK
<1>4. KeysOK'
  BY ClashSymmetric
     DEF IInv, TypeOK, KeysOK, KeyHeld, LookupsAreUnambiguous, Stored, In, Refused, Creating,
         Open
<1>5. PatchesCompose'
  BY DEF IInv, PatchesCompose, Stored
<1>q. QED
  BY <1>1, <1>2, <1>3, <1>4, <1>5 DEF IInv

\* The flush of a change, once no lock is in its way, keeps the copy and the draft.
LEMMA UpdateStep ==
  ASSUME IInv, NEW t \in Tasks, Update(t)
  PROVE  IInv'
<1> USE DEF Update, Goto, NoEffect
<1>1. TypeOK'
  BY DEF IInv, TypeOK
<1>2. ASSUME NEW u \in Tasks  PROVE TaskOK(u)'
  BY DEF IInv, TypeOK, TaskOK, Open, Recorded, Kept, Creating, InserterOK, ReaderOK, Stored,
         ValidSet
<1>3. ASSUME NEW id \in RowIds  PROVE RowOK(id)'
  BY DEF IInv, RowOK
<1>4. KeysOK'
  BY DEF IInv, TypeOK, TaskOK, KeysOK, LookupsAreUnambiguous, Stored, In, Refused, Creating, Open
<1>5. PatchesCompose'
  BY DEF IInv, PatchesCompose, Stored
<1>q. QED
  BY <1>1, <1>2, <1>3, <1>4, <1>5 DEF IInv

\* A request reads the committed row it is to change.
LEMMA LoadStep ==
  ASSUME IInv, NEW t \in Tasks, Load(t)
  PROVE  IInv'
<1> DEFINE id == job[t].id
           row == table[id]
           patched == Patched(row, SetBy(job[t], row))
<1>1. job[t] \in Job /\ job[t].op # "create" /\ id \in RowIds
  BY AdminAssumption, JobShape DEF IInv, TypeOK, Load, Creating
<1>2. id \in Stored /\ row \in Row /\ row.table = job[t].table /\ ValidSet(t)
  BY <1>1 DEF IInv, RowOK, Load, Found, In, Stored
<1>3. patched \in Row
  BY <1>1, <1>2, PatchedIsRow DEF ValidSet
<1>4. row.table = "evaluation_runs" => Whole(row)
  BY <1>1, <1>2 DEF IInv, RowOK, Stored
<1>5. /\ pc[t] = "start" /\ ~Creating(t)
      /\ pc' = [pc EXCEPT ![t] = "update"]
      /\ copy' = [copy EXCEPT ![t] = row] /\ draft' = [draft EXCEPT ![t] = patched]
      /\ UNCHANGED <<table, job, answer, promised, setters, raced>>
  BY DEF Load, Goto
<1>6. TypeOK'
  BY <1>2, <1>3, <1>5 DEF IInv, TypeOK
<1>7. ASSUME NEW u \in Tasks  PROVE TaskOK(u)'
  <2>1. CASE u = t
    <3>1. copy'[t] = row /\ draft'[t] = patched /\ pc'[t] = "update"
      BY <1>5 DEF IInv, TypeOK
    <3>2. ReaderOK(t)'
      BY <1>2, <1>4, <1>5, <3>1 DEF ReaderOK, Stored, ValidSet
    <3>3. /\ ~Open(t)' /\ ~Kept(t)' /\ ~Creating(t)' /\ answer'[t] = "none"
      BY <1>5, <3>1 DEF IInv, TaskOK, Open, Kept, Creating
    <3>4. QED
      BY <2>1, <3>1, <3>2, <3>3 DEF TaskOK, Recorded
  <2>2. CASE u # t
    BY <1>5, <2>2
       DEF IInv, TypeOK, TaskOK, Open, Recorded, Kept, Creating, InserterOK, ReaderOK, Stored,
           ValidSet
  <2>3. QED
    BY <2>1, <2>2
<1>8. ASSUME NEW i \in RowIds  PROVE RowOK(i)'
  BY <1>5 DEF IInv, RowOK
<1>9. KeysOK'
  BY <1>5 DEF IInv, TypeOK, KeysOK, LookupsAreUnambiguous, Stored, In, Refused, Creating, Open
<1>10. PatchesCompose'
  BY <1>5 DEF IInv, PatchesCompose, Stored
<1>q. QED
  BY <1>6, <1>7, <1>8, <1>9, <1>10 DEF IInv

\* The new row clashes neither with the committed rows nor with those in flight.
LEMMA CommitInsertStep ==
  ASSUME IInv, NEW t \in Tasks, CommitInsert(t)
  PROVE  IInv'
<1> DEFINE row == draft[t]
<1>0. /\ Open(t) /\ Creating(t) /\ t \in RowIds /\ table[t] = NoRow
      /\ pc[t] = "flushed" => answer[t] = "none"
      /\ pc[t] = "answered" => answer[t] = "created"
  BY DEF IInv, TaskOK, Recorded, Kept, CommitInsert, Commits, Open, RowIds
<1>1. /\ row = NewRow(job[t].given) /\ row \in Row
      /\ Open(t) /\ Creating(t) /\ table[t] = NoRow /\ t \in RowIds /\ t \notin raced
  BY <1>0 DEF IInv, TaskOK, RowOK, InserterOK
<1>2. row.table = "evaluation_runs" => Whole(row)
  BY <1>1 DEF IInv, TaskOK, InserterOK
<1>3. /\ table' = [table EXCEPT ![t] = row] /\ promised' = [promised EXCEPT ![t] = row]
      /\ pc' = [pc EXCEPT ![t] = IF pc[t] = "flushed" THEN "committed" ELSE "done"]
      /\ UNCHANGED <<job, copy, draft, answer, setters, raced>>
  BY <1>1 DEF CommitInsert, Commits, Goto
<1>4. row # NoRow
  BY <1>1, RowShape
<1> HIDE DEF row
<1>5. TypeOK'
  BY <1>1, <1>3 DEF IInv, TypeOK, Answers
<1>6. /\ \A i \in RowIds \ {t} : table'[i] = table[i]
      /\ table'[t] = row
      /\ Stored' = Stored \cup {t} /\ t \notin Stored
  BY <1>1, <1>3, <1>4 DEF IInv, TypeOK, Stored
<1>7. ASSUME NEW u \in Tasks  PROVE TaskOK(u)'
  <2>1. CASE u = t
    <3>1. /\ pc'[t] \in {"committed", "done"} /\ answer'[t] = answer[t] /\ Creating(t)'
          /\ pc'[t] = "committed" => answer[t] = "none"
          /\ pc'[t] = "done" => answer[t] = "created"
      BY <1>0, <1>3 DEF IInv, TypeOK, Open, Creating
    <3>2. Recorded(t)'
      BY <1>4, <1>6, <3>1 DEF Recorded, Kept
    <3>3. QED
      BY <2>1, <3>1, <3>2 DEF TaskOK, Open
  <2>2. CASE u # t
    <3>1. /\ pc'[u] = pc[u] /\ table'[u] = table[u] /\ TaskOK(u)
      BY <1>3, <2>2 DEF IInv, TypeOK, RowIds
    <3>2. InserterOK(u)' <=> InserterOK(u)
      BY <1>3 DEF InserterOK
    <3>3. ReaderOK(u) => ReaderOK(u)'
      BY <1>3, <1>6 DEF ReaderOK, Stored, ValidSet
    <3>4. Recorded(u)'
      BY <1>3, <3>1 DEF TaskOK, Recorded, Kept, Creating
    <3>5. QED
      BY <1>3, <3>1, <3>2, <3>3, <3>4 DEF TaskOK, Open, Creating
  <2>3. QED
    BY <2>1, <2>2
<1>8. ASSUME NEW i \in RowIds  PROVE RowOK(i)'
  BY <1>1, <1>2, <1>3, <1>4 DEF IInv, TypeOK, RowOK
<1>9. KeysOK'
  <2>1. ASSUME NEW a \in Stored, table[a].table = row.table
        PROVE  ~Clash(row.table, table[a], row)
    BY <1>1, <2>1 DEF IInv, KeysOK, Refused, In, row
  <2>2. LookupsAreUnambiguous'
    BY <1>6, <2>1, ClashSymmetric DEF IInv, KeysOK, LookupsAreUnambiguous, Stored
  <2>3. ASSUME NEW u \in Tasks, Open(u)', Creating(u)'
        PROVE  /\ ~Refused(draft[u])'
               /\ \A v \in Tasks \ {u} :
                    Open(v)' /\ Creating(v)' /\ draft'[v].table = draft'[u].table =>
                      ~Clash(draft'[u].table, draft'[v], draft'[u])
    <3>1. u # t /\ Open(u) /\ Creating(u) /\ draft' = draft
      BY <1>3, <2>3 DEF IInv, TypeOK, Creating, Open
    <3>2. row.table = draft[u].table => ~Clash(draft[u].table, row, draft[u])
      BY <1>1, <3>1 DEF IInv, KeysOK, row
    <3>3. ~Refused(draft[u])
      BY <3>1 DEF IInv, KeysOK
    <3>4. ~Refused(draft[u])'
      BY <1>6, <3>1, <3>2, <3>3 DEF Refused, In, Stored
    <3>5. QED
      BY <1>3, <3>1, <3>4 DEF IInv, TypeOK, KeysOK, Creating, Open
  <2>4. QED
    BY <2>2, <2>3 DEF KeysOK
<1>10. PatchesCompose'
  <2>1. \A column \in Columns : setters[<<t, column>>] = {}
    BY <1>1 DEF IInv, RowOK
  <2>2. DOMAIN row \ {"table"} \subseteq Columns
    BY <1>1, RowShape
  <2>3. QED
    BY <1>3, <1>6, <2>1, <2>2 DEF IInv, PatchesCompose, Stored
<1>q. QED
  BY <1>5, <1>7, <1>8, <1>9, <1>10 DEF IInv

\* The columns written over a row that others may have changed since it was read.
LEMMA CommitUpdateStep ==
  ASSUME IInv, NEW t \in Tasks, CommitUpdate(t)
  PROVE  IInv'
<1> DEFINE id  == job[t].id
           row == table[id]
           old == copy[t]
           set == SetBy(job[t], old)
           new == Written(row, old, draft[t])
           now == Merged(set, promised[id])
<1>1. /\ job[t] \in Job /\ job[t].op # "create" /\ id \in RowIds
      /\ Open(t) /\ ~Creating(t)
      /\ pc[t] = "flushed" => answer[t] = "none"
      /\ pc[t] = "answered" => answer[t] = "ok"
  BY AdminAssumption, JobShape
     DEF IInv, TypeOK, TaskOK, CommitUpdate, Commits, Creating
<1>2. ReaderOK(t)
  BY <1>1 DEF IInv, TaskOK
<1>3. /\ id \in Stored /\ row \in Row /\ old \in Row /\ promised[id] \in Row
      /\ row.table = job[t].table /\ old.table = job[t].table
      /\ promised[id].table = job[t].table
      /\ draft[t] = Patched(old, set) /\ (job[t].op = "patch" => ValidTier(job[t].set))
  BY <1>1, <1>2 DEF IInv, ReaderOK, RowOK, Stored, ValidSet
<1>4. /\ new \in Row /\ new.table = row.table /\ DOMAIN new = DOMAIN row
      /\ \A column \in DOMAIN row \ DOMAIN set : new[column] = row[column]
      /\ \A column \in DOMAIN set :
           new[column] = IF set[column] # old[column] THEN set[column] ELSE row[column]
      /\ DOMAIN set \subseteq SetColumns \cap DOMAIN row
      /\ now \in Row /\ now.table = promised[id].table
      /\ row = old /\ promised[id] = row => new = now
  BY <1>1, <1>3, Overwritten
<1>5. row.table = "evaluation_runs" => Whole(new) /\ new.status = "COMPLETED"
  <2> SUFFICES ASSUME row.table = "evaluation_runs"
               PROVE  Whole(new) /\ new.status = "COMPLETED"
    OBVIOUS
  <2>1. job[t].op = "execute"
    BY <1>1, <1>3, PatchedIsRow
  <2>2. set = [status |-> "COMPLETED", results |-> Results(old.baseline)]
    BY <2>1 DEF SetBy
  <2>3. Whole(row) /\ Whole(old) /\ (old.status = "COMPLETED" => row.status = "COMPLETED")
    BY <1>1, <1>2, <1>3 DEF IInv, RowOK, ReaderOK, Stored
  <2> HIDE DEF set, new, row, old
  <2>4. QED
    BY <1>4, <2>2, <2>3, ExecutedOver
<1>6. /\ table' = [table EXCEPT ![id] = new] /\ promised' = [promised EXCEPT ![id] = now]
      /\ setters' = [x \in DOMAIN setters |->
                       IF x[1] = id /\ x[2] \in DOMAIN set
                       THEN setters[x] \cup {set[x[2]]} ELSE setters[x]]
      /\ raced' = IF row = old THEN raced ELSE raced \cup {id}
      /\ pc' = [pc EXCEPT ![t] = IF pc[t] = "flushed" THEN "committed" ELSE "done"]
      /\ UNCHANGED <<job, copy, draft, answer>>
  BY <1>1 DEF CommitUpdate, Commits, Goto, IInv, TypeOK
<1>7. new # NoRow /\ now # NoRow /\ row # NoRow /\ "id" \notin DOMAIN row
  BY <1>3, <1>4, RowShape DEF Columns
<1>8. \A column \in DOMAIN row \ {"table"} : <<id, column>> \in DOMAIN setters
  BY <1>1, <1>3, RowShape DEF IInv, TypeOK
<1>9. DOMAIN old = DOMAIN row
  BY <1>3, RowShape
<1>10. \A column \in DOMAIN row \ {"table"} :
          setters[<<id, column>>] = {} => row[column] = old[column]
  BY <1>2, <1>9 DEF ReaderOK
<1> HIDE DEF new, now, set
<1>11. TypeOK'
  BY <1>1, <1>4, <1>6 DEF IInv, TypeOK, Answers
<1>12. /\ \A i \in RowIds \ {id} : table'[i] = table[i]
       /\ table'[id] = new /\ Stored' = Stored
  BY <1>1, <1>3, <1>6, <1>7 DEF IInv, TypeOK, Stored
<1>13. ASSUME NEW u \in Tasks  PROVE TaskOK(u)'
  <2>1. ASSUME ReaderOK(u), job[u].id = id
        PROVE  ReaderOK(u)'
    <3>1. DOMAIN copy[u] = DOMAIN row
      BY <1>3, <2>1, RowShape DEF ReaderOK
    <3>2. ASSUME NEW column \in DOMAIN copy[u] \ {"table"}, setters'[<<id, column>>] = {}
          PROVE  new[column] = copy[u][column]
      <4>1. column \notin DOMAIN set /\ setters[<<id, column>>] = {}
        BY <1>6, <1>8, <3>1, <3>2
      <4>2. new[column] = row[column] /\ row[column] = copy[u][column]
        BY <1>4, <2>1, <3>1, <3>2, <4>1 DEF ReaderOK
      <4>3. QED
        BY <4>2
    <3>3. /\ UNCHANGED <<job, copy, draft>> /\ table'[id] = new /\ id \in Stored'
          /\ new.table = row.table
      BY <1>3, <1>4, <1>6, <1>12
    <3>4. ValidSet(u)' <=> ValidSet(u)
      BY <3>3 DEF ValidSet
    <3>5. QED
      BY <1>5, <2>1, <3>2, <3>3, <3>4 DEF ReaderOK
  <2>2. ASSUME ReaderOK(u), job[u].id # id
        PROVE  ReaderOK(u)'
    <3>1. job[u].id \in RowIds
      BY <2>2 DEF ReaderOK, Stored
    <3>2. ASSUME NEW column \in DOMAIN copy[u] \ {"table"}
          PROVE  setters'[<<job[u].id, column>>] = setters[<<job[u].id, column>>]
      <4>1. <<job[u].id, column>> \in DOMAIN setters
        BY <2>2, <3>1, RowShape DEF ReaderOK, IInv, TypeOK
      <4>2. QED
        BY <1>6, <2>2, <4>1
    <3>3. /\ job' = job /\ copy' = copy /\ draft' = draft /\ Stored' = Stored
          /\ table'[job[u].id] = table[job[u].id]
      BY <1>6, <1>12, <2>2, <3>1
    <3>4. ValidSet(u)' <=> ValidSet(u)
      BY <3>3 DEF ValidSet
    <3>5. QED
      BY <2>2, <3>2, <3>3, <3>4 DEF ReaderOK
  <2>3. table'[u] # NoRow <=> table[u] # NoRow
    BY <1>7, <1>12 DEF RowIds
  <2>4. ASSUME ~Creating(u), NEW column \in DOMAIN SetBy(job[u], copy[u])
        PROVE  /\ setters[<<job[u].id, column>>] \subseteq setters'[<<job[u].id, column>>]
               /\ u = t => set[column] \in setters'[<<id, column>>]
    <3>1. job[u] \in Job /\ job[u].op # "create" /\ job[u].id \in RowIds
      BY <2>4, AdminAssumption, JobShape DEF IInv, TypeOK, Creating
    <3>2. <<job[u].id, column>> \in DOMAIN setters
      BY <2>4, <3>1, SetByColumns DEF IInv, TypeOK
    <3>3. u = t => column \in DOMAIN set
      BY <2>4 DEF set
    <3>4. QED
      BY <1>6, <3>2, <3>3
  <2>5. Recorded(u)'
    <3>1. CASE Creating(u)
      <4>1. u # t
        BY <1>1, <3>1
      <4>2. pc'[u] = pc[u] /\ answer'[u] = answer[u] /\ job'[u] = job[u]
        BY <1>6, <4>1 DEF IInv, TypeOK
      <4>3. QED
        BY <2>3, <3>1, <4>2 DEF IInv, TaskOK, Recorded, Kept, Creating
    <3>2. CASE ~Creating(u)
      <4>1. job' = job /\ copy' = copy /\ ~Creating(u)'
        BY <1>6, <3>2 DEF Creating
      <4>2. CASE u = t
        BY <2>4, <3>2, <4>1, <4>2 DEF Recorded, set
      <4>3. CASE u # t
        <5>1. Kept(u)' <=> Kept(u)
          BY <1>6, <4>3 DEF IInv, TypeOK, Kept
        <5>2. Recorded(u)
          BY DEF IInv, TaskOK
        <5>3. QED
          BY <2>4, <3>2, <4>1, <5>1, <5>2 DEF Recorded
      <4>4. QED
        BY <4>2, <4>3
    <3>3. QED
      BY <3>1, <3>2
  <2>6. QED
    BY <1>1, <1>6, <2>1, <2>2, <2>5 DEF IInv, TypeOK, TaskOK, Open, Creating, InserterOK
<1>14. ASSUME NEW i \in RowIds  PROVE RowOK(i)'
  <2>1. CASE i = id
    <3>1. id \notin raced' => row = old /\ id \notin raced
      BY <1>6
    <3>2. table'[id] = new /\ promised'[id] = now
      BY <1>1, <1>6 DEF IInv, TypeOK
    <3>3. id \notin raced => row = promised[id]
      BY <1>1, <1>7 DEF IInv, RowOK
    <3>4. QED
      BY <1>3, <1>4, <1>5, <1>7, <2>1, <3>1, <3>2, <3>3 DEF RowOK
  <2>2. CASE i # id
    <3>1. /\ table'[i] = table[i] /\ promised'[i] = promised[i]
          /\ i \in raced' <=> i \in raced
      BY <1>6, <2>2 DEF IInv, TypeOK
    <3>2. ASSUME NEW column \in Columns
          PROVE  setters'[<<i, column>>] = setters[<<i, column>>]
      <4>1. <<i, column>> \in DOMAIN setters
        BY DEF IInv, TypeOK
      <4>2. QED
        BY <1>6, <2>2, <4>1
    <3>3. QED
      BY <3>1, <3>2 DEF IInv, RowOK
  <2>3. QED
    BY <2>1, <2>2
<1>15. KeysOK'
  <2>1. ASSUME NEW a \in Stored, NEW c, NEW name, name = table[a].table
        PROVE  /\ table'[a].table = table[a].table /\ name \in TableNames
               /\ Clash(name, table'[a], c) <=> Clash(name, table[a], c)
               /\ Clash(name, c, table'[a]) <=> Clash(name, c, table[a])
    <3>1. table[a] \in Row /\ table[a].table \in TableNames
      BY RowShape DEF IInv, RowOK, Stored
    <3>2. CASE a = id
      <4>1. DOMAIN table'[a] = DOMAIN table[a] /\ "id" \notin DOMAIN table'[a]
            /\ table'[a].table = table[a].table
        BY <1>4, <1>7, <1>12, <3>2
      <4>2. \A column \in KeyColumns \cap DOMAIN table'[a] : table'[a][column] = table[a][column]
        BY <1>4, <1>12, <3>2, SetsSpareKeys
      <4>3. QED
        BY <2>1, <3>1, <4>1, <4>2, ClashByKeys
    <3>3. CASE a # id
      BY <1>12, <2>1, <3>1, <3>3 DEF Stored
    <3>4. QED
      BY <3>2, <3>3
  <2>2. LookupsAreUnambiguous'
    <3>1. ASSUME NEW a \in Stored, NEW b \in Stored, a # b,
                 table'[a].table = table'[b].table,
                 Clash(table'[a].table, table'[a], table'[b])
          PROVE  FALSE
      <4>1. table[a].table = table[b].table /\ table'[a].table = table[a].table
        BY <2>1, <3>1
      <4>2. Clash(table[a].table, table[a], table[b])
        BY <2>1, <3>1, <4>1
      <4>3. QED
        BY <3>1, <4>1, <4>2 DEF IInv, KeysOK, LookupsAreUnambiguous
    <3>2. QED
      BY <1>12, <3>1 DEF LookupsAreUnambiguous
  <2>3. ASSUME NEW u \in Tasks, Open(u)', Creating(u)'
        PROVE  /\ ~Refused(draft[u])'
               /\ \A v \in Tasks \ {u} :
                    Open(v)' /\ Creating(v)' /\ draft'[v].table = draft'[u].table =>
                      ~Clash(draft'[u].table, draft'[v], draft'[u])
    <3>1. u # t /\ Open(u) /\ Creating(u) /\ draft' = draft
      BY <1>1, <1>6, <2>3 DEF IInv, TypeOK, Creating, Open
    <3>2. ~Refused(draft[u])
      BY <3>1 DEF IInv, KeysOK
    <3>3. ~Refused(draft[u])'
      BY <1>12, <2>1, <3>1, <3>2 DEF Refused, In
    <3>4. QED
      BY <1>1, <1>6, <3>1, <3>3 DEF IInv, TypeOK, KeysOK, Creating, Open
  <2>4. QED
    BY <2>2, <2>3 DEF KeysOK
<1>16. PatchesCompose'
  <2> SUFFICES ASSUME NEW i \in Stored, NEW column \in DOMAIN table'[i] \ {"table"},
                      NEW v \in setters'[<<i, column>>], setters'[<<i, column>>] = {v}
               PROVE  table'[i][column] = v
    BY <1>12 DEF PatchesCompose
  <2>1. i \in RowIds /\ table[i] \in Row /\ DOMAIN table'[i] = DOMAIN table[i]
    BY <1>4, <1>12 DEF IInv, RowOK, Stored
  <2>2. <<i, column>> \in DOMAIN setters
    BY <2>1, RowShape DEF IInv, TypeOK
  <2>3. CASE i = id /\ column \in DOMAIN set
    <3>1. setters'[<<i, column>>] = setters[<<i, column>>] \cup {set[column]}
      BY <1>6, <2>2, <2>3
    <3>2. v = set[column] /\ (setters[<<i, column>>] = {} \/ setters[<<i, column>>] = {v})
      BY <3>1
    <3>3. CASE set[column] # old[column]
      BY <1>4, <1>12, <2>3, <3>2, <3>3
    <3>4. CASE set[column] = old[column]
      <4>1. table'[i][column] = row[column]
        BY <1>4, <1>12, <2>3, <3>4
      <4>2. setters[<<i, column>>] = {} => row[column] = v
        BY <1>10, <2>1, <2>3, <3>2, <3>4
      <4>3. setters[<<i, column>>] = {v} => row[column] = v
        BY <2>1, <2>3 DEF IInv, PatchesCompose
      <4>4. QED
        BY <3>2, <4>1, <4>2, <4>3
    <3>5. QED
      BY <3>3, <3>4
  <2>4. CASE ~(i = id /\ column \in DOMAIN set)
    <3>1. setters'[<<i, column>>] = setters[<<i, column>>]
      BY <1>6, <2>2, <2>4
    <3>2. table'[i][column] = table[i][column]
      BY <1>4, <1>12, <2>1, <2>4
    <3>3. QED
      BY <2>1, <3>1, <3>2 DEF IInv, PatchesCompose
  <2>5. QED
    BY <2>3, <2>4
<1>q. QED
  BY <1>11, <1>13, <1>14, <1>15, <1>16 DEF IInv

\* A response, or a commit that fails behind it, changes no row and opens nothing.
LEMMA AnswerStep ==
  ASSUME IInv, NEW t \in Tasks, Answer(t) \/ CommitFails(t)
  PROVE  IInv'
<1> DEFINE told == IF Creating(t) THEN "created" ELSE "ok"
<1>1. NoEffect /\ told \in Answers
  BY DEF Answer, CommitFails, Answers
<1>2. PICK stage \in {"done", "answered", "lost"} :
        /\ pc' = [pc EXCEPT ![t] = stage] /\ answer' = [answer EXCEPT ![t] = told]
        /\ stage = "done" => pc[t] = "committed"
        /\ stage = "answered" => pc[t] = "flushed"
        /\ stage = "lost" => pc[t] = "answered"
  <2>1. CASE Answer(t)
    BY <2>1 DEF Answer, Goto
  <2>2. CASE CommitFails(t)
    <3>1. answer[t] = told /\ answer' = answer
      BY <2>2 DEF CommitFails, IInv, TaskOK
    <3>2. answer' = [answer EXCEPT ![t] = told]
      BY <3>1 DEF IInv, TypeOK
    <3>3. QED
      BY <2>2, <3>2 DEF CommitFails, Goto
  <2>3. QED
    BY <2>1, <2>2
<1> HIDE DEF told
<1>3. TypeOK'
  BY <1>1, <1>2 DEF IInv, TypeOK, NoEffect
<1>4. \A u \in Tasks \ {t} : pc'[u] = pc[u] /\ answer'[u] = answer[u]
  BY <1>2 DEF IInv, TypeOK
<1>5. /\ pc'[t] = stage /\ answer'[t] = told
      /\ Open(t)' => Open(t)
      /\ Kept(t)' <=> Kept(t)
  BY <1>2 DEF IInv, TypeOK, Open, Kept, told
<1>6. ASSUME NEW u \in Tasks
      PROVE  /\ Creating(u)' <=> Creating(u)
             /\ InserterOK(u)' <=> InserterOK(u)
             /\ ReaderOK(u)' <=> ReaderOK(u)
             /\ Recorded(u)' <=> Recorded(u)
  <2>1. Kept(u)' <=> Kept(u)
    BY <1>4, <1>5 DEF Kept
  <2>2. QED
    BY <1>1, <2>1
       DEF NoEffect, Creating, InserterOK, ReaderOK, Recorded, Stored, ValidSet
<1>7. ASSUME NEW u \in Tasks  PROVE TaskOK(u)'
  <2>1. CASE u = t
    BY <1>2, <1>5, <1>6, <2>1 DEF IInv, TaskOK, Open, told
  <2>2. CASE u # t
    BY <1>4, <1>6, <2>2 DEF IInv, TaskOK, Open
  <2>3. QED
    BY <2>1, <2>2
<1>8. ASSUME NEW id \in RowIds  PROVE RowOK(id)'
  BY <1>1 DEF IInv, RowOK, NoEffect
<1>9. KeysOK'
  <2>1. \A u \in Tasks : Open(u)' => Open(u)
    BY <1>4, <1>5 DEF Open
  <2>2. QED
    BY <1>1, <1>6, <2>1
       DEF IInv, KeysOK, LookupsAreUnambiguous, Stored, In, Refused, NoEffect
<1>10. PatchesCompose'
  BY <1>1 DEF IInv, PatchesCompose, Stored, NoEffect
<1>q. QED
  BY <1>3, <1>7, <1>8, <1>9, <1>10 DEF IInv

\* Every step keeps the invariant.
LEMMA StepPreserves == IInv /\ [Next]_vars => IInv'
<1> SUFFICES ASSUME IInv, [Next]_vars  PROVE IInv'
  OBVIOUS
<1>1. ASSUME NEW t \in Tasks, CreateInvalid(t)  PROVE IInv'
  BY <1>1, EndsStep DEF CreateInvalid, Answers
<1>2. ASSUME NEW t \in Tasks, CreateRefused(t)  PROVE IInv'
  BY <1>2, EndsStep DEF CreateRefused, Answers
<1>3. ASSUME NEW t \in Tasks, InsertRefused(t)  PROVE IInv'
  BY <1>3, EndsStep DEF InsertRefused, Answers
<1>4. ASSUME NEW t \in Tasks, LoadRefused(t)  PROVE IInv'
  <2>1. PICK reply \in {"not_found", "conflict", "invalid"} : Ends(t, reply)
    BY <1>4 DEF LoadRefused
  <2>2. pc[t] = "start" /\ NoEffect
    BY <1>4 DEF LoadRefused
  <2>3. QED
    BY <2>1, <2>2, EndsStep DEF Answers
<1>5. ASSUME NEW t \in Tasks, Rollback(t)  PROVE IInv'
  BY <1>5, EndsStep DEF Rollback, Answers
<1>6. CASE UNCHANGED vars
  BY <1>6
     DEF vars, IInv, TypeOK, TaskOK, RowOK, KeysOK, PatchesCompose, LookupsAreUnambiguous,
         InserterOK, ReaderOK, Recorded, Kept, Open, Creating, Stored, In, Refused, ValidSet
<1>q. QED
  BY <1>1, <1>2, <1>3, <1>4, <1>5, <1>6, CreateStep, InsertStep, UpdateStep, LoadStep,
     CommitInsertStep, CommitUpdateStep, AnswerStep
     DEF Next, Quiescent

-------------------------------------------------------------------------------
(* The theorems *)

\* The inductive invariant holds: what overlapping requests have read and hold in
\* their sessions fits the committed rows at every moment.
THEOREM RowsHold == Spec => []IInv
<1>1. Init => IInv
  BY InitEstablishes
<1>2. IInv /\ [Next]_vars => IInv'
  BY StepPreserves
<1>q. QED
  BY <1>1, <1>2, PTL DEF Spec

\* The rows, the sessions' copies and drafts are rows of their tables throughout.
THEOREM TypeCorrect == Spec => []TypeOK
<1>1. IInv => TypeOK
  BY DEF IInv
<1>q. QED
  BY <1>1, RowsHold, PTL

\* Whatever overlaps, log-in, the creating handlers' checks and the policy engine's
\* lookup find at most one row (auth.py, registry.py, approvals.py).
THEOREM LookupsStayUnambiguous == Spec => []LookupsAreUnambiguous
<1>1. IInv => LookupsAreUnambiguous
  BY DEF IInv, KeysOK
<1>q. QED
  BY <1>1, RowsHold, PTL

\* Whether the answer precedes the commit or follows it: a row is what the committed
\* requests asked for unless changes of it overlapped, and whoever was told of success
\* finds it, unless the commit is outstanding or has failed behind the answer.
THEOREM AnswersAreTrue == Spec => []UnracedRowsAreAnswered
<1>1. IInv => UnracedRowsAreAnswered
  BY DEF IInv, RowOK, TaskOK, UnracedRowsAreAnswered
<1>q. QED
  BY <1>1, RowsHold, PTL

\* Overlapping PATCHes of different columns compose, because the session writes
\* only the columns that changed.
THEOREM PatchesDoCompose == Spec => []PatchesCompose
<1>1. IInv => PatchesCompose
  BY DEF IInv
<1>q. QED
  BY <1>1, RowsHold, PTL

\* Every evaluation run's row is whole, however executions of it overlap.
THEOREM EvaluationsAreWhole == Spec => []EvaluationIsWhole
<1>1. IInv => EvaluationIsWhole
  BY DEF IInv, RowOK, EvaluationIsWhole, In, Stored
<1>q. QED
  BY <1>1, RowsHold, PTL
=============================================================================
