---------------------------- MODULE RecoveryMemory ----------------------------
(***************************************************************************)
(* memory/service.py: the recovery cases, written by concurrent database   *)
(* transactions.  A task is one call of the service in a session of its    *)
(* own: it reads a row into the session, changes the copy, flushes the     *)
(* columns that changed as absolute values, and commits.                   *)
(*                                                                         *)
(* Isolation is READ COMMITTED: a read sees committed rows, an UPDATE      *)
(* waits for another transaction's uncommitted UPDATE of the row and then  *)
(* overwrites it.  Nothing makes (signature, source) unique.               *)
(***************************************************************************)
EXTENDS Integers, FiniteSets

CONSTANTS
  Tasks,            \* calls of the service; a created case is named by its task
  OldCases,         \* cases stored earlier
  Failures,         \* failure signatures
  Contexts,         \* context signatures
  InitialRows,      \* the rows of OldCases
  Jobs,             \* what the tasks may be asked to do
  NewConfidence,    \* the confidence of a candidate whose case is created
  ValidatedSuccessThreshold, EstablishedSuccessThreshold

Llm           == "LLM"
Deterministic == "DETERMINISTIC"
Sources       == {Llm, Deterministic}
Maturities    == {"PROPOSED", "VALIDATED", "ESTABLISHED"}
Creations     == {"create_llm", "create_deterministic"}
Outcomes      == {"success", "failure"}

Cases == Tasks \cup OldCases
NoRow == [source |-> "none"]
Row   == [failure : Failures, context : Contexts, source : Sources,
          maturity : Maturities, successes : Nat, failures : Nat, reuses : Nat,
          confidence : Nat]
Job   == [op : Creations \cup Outcomes, failure : Failures, context : Contexts]

ASSUME MemoryAssumption ==
  /\ Tasks \cap OldCases = {}
  /\ InitialRows \in [OldCases -> Row]
  /\ Jobs \subseteq Job
  /\ NewConfidence \in Nat
  /\ ValidatedSuccessThreshold \in Nat
  /\ EstablishedSuccessThreshold \in Nat

Evidence == [successes : Nat, failures : Nat, reuses : Nat]
NoEvidence == [successes |-> 0, failures |-> 0, reuses |-> 0]
EvidenceOf(row) == [successes |-> row.successes, failures |-> row.failures,
                    reuses |-> row.reuses]

\* The row counts nothing that the evidence does not have.
Backed(row, evidence) ==
  /\ row.successes <= evidence.successes
  /\ row.failures <= evidence.failures
  /\ row.reuses <= evidence.reuses

\* The evidence has the successes that the row's maturity stands for.
Earned(row, evidence) ==
  /\ row.maturity = "ESTABLISHED" => evidence.successes >= EstablishedSuccessThreshold
  /\ row.maturity = "VALIDATED" /\ row.source = Llm =>
       evidence.successes >= ValidatedSuccessThreshold

\* The thresholds are 2 and 5, and what is stored at the start was not raced for.
ASSUME PromotionAssumption ==
  /\ 1 < ValidatedSuccessThreshold
  /\ ValidatedSuccessThreshold < EstablishedSuccessThreshold
  /\ \A c \in OldCases :
       /\ Earned(InitialRows[c], EvidenceOf(InitialRows[c]))
       /\ InitialRows[c].maturity = "PROPOSED" =>
            InitialRows[c].successes < ValidatedSuccessThreshold

VARIABLES
  table,     \* recovery_cases, as committed
  job,       \* what each task does
  pc,        \* how far it has come
  target,    \* the row the task works on
  copy,      \* the row as the task's session read it
  draft,     \* the row as the task's session has it now
  recorded,  \* ghost: the outcomes and reuses committed for each case
  raced      \* ghost: cases overwritten by a task that had read an older row

vars == <<table, job, pc, target, copy, draft, recorded, raced>>

TypeOK ==
  /\ table \in [Cases -> Row \cup {NoRow}]
  /\ job \in [Tasks -> Jobs]
  /\ pc \in [Tasks -> {"idle", "insert", "update", "flushed", "committed", "failed"}]
  /\ target \in [Tasks -> Cases]
  /\ copy \in [Tasks -> Row \cup {NoRow}]
  /\ draft \in [Tasks -> Row \cup {NoRow}]
  /\ recorded \in [Cases -> Evidence]
  /\ raced \subseteq Cases

Init ==
  /\ table = [c \in Cases |-> IF c \in OldCases THEN InitialRows[c] ELSE NoRow]
  /\ job \in [Tasks -> Jobs]
  /\ pc = [t \in Tasks |-> "idle"]
  /\ target = [t \in Tasks |-> t]
  /\ copy = [t \in Tasks |-> NoRow]
  /\ draft = [t \in Tasks |-> NoRow]
  /\ recorded = [c \in Cases |-> IF c \in OldCases THEN EvidenceOf(InitialRows[c])
                                                   ELSE NoEvidence]
  /\ raced = {}

-------------------------------------------------------------------------------
(* What the service computes *)

\* Mutated form: failures are subtracted from the successes.
Confidence_Difference(s, f) == (s - f) * 1000

\* Laplace smoothing, in thousandths.
Confidence(s, f) == ((s + 1) * 1000) \div (s + f + 2)

\* Mutated form: a single call may jump over VALIDATED.
ComputeMaturity_Jump(row) ==
  IF row.successes >= ValidatedSuccessThreshold THEN "ESTABLISHED" ELSE row.maturity

\* At most one promotion per call, no demotion; failures at most 20% of successes.
ComputeMaturity(row) ==
  CASE /\ row.maturity = "PROPOSED"
       /\ row.successes >= ValidatedSuccessThreshold -> "VALIDATED"
    [] /\ row.maturity = "VALIDATED"
       /\ row.successes >= EstablishedSuccessThreshold
       /\ row.successes > 0
       /\ 5 * row.failures <= row.successes -> "ESTABLISHED"
    [] OTHER -> row.maturity

\* Mutated form: the promotion is decided before the outcome is counted.
WithOutcome_PromotesFirst(row, outcome) ==
  LET s == row.successes + (IF outcome = "success" THEN 1 ELSE 0)
      f == row.failures + (IF outcome = "failure" THEN 1 ELSE 0)
  IN  [row EXCEPT !.successes = s, !.failures = f, !.confidence = Confidence(s, f),
                  !.maturity = ComputeMaturity(row)]

WithOutcome(row, outcome) ==
  LET s == row.successes + (IF outcome = "success" THEN 1 ELSE 0)
      f == row.failures + (IF outcome = "failure" THEN 1 ELSE 0)
      counted == [row EXCEPT !.successes = s, !.failures = f,
                             !.confidence = Confidence(s, f)]
  IN  [counted EXCEPT !.maturity = ComputeMaturity(counted)]

\* Mutated form: finding the case again is counted as another success.
Reused_AsSuccess(row) == [row EXCEPT !.successes = @ + 1]

Reused(row) == [row EXCEPT !.reuses = @ + 1]

SourceOf(op) == IF op = "create_llm" THEN Llm ELSE Deterministic

\* A case starts with the success that created it.
NewCase(j) ==
  [failure |-> j.failure, context |-> j.context, source |-> SourceOf(j.op),
   maturity |-> IF j.op = "create_llm" THEN "PROPOSED" ELSE "VALIDATED",
   successes |-> 1, failures |-> 0, reuses |-> 0, confidence |-> NewConfidence]

Stored == {c \in Cases : table[c] # NoRow}

\* A deterministic case is looked up without its context.
Existing(j) ==
  {c \in Stored : /\ table[c].failure = j.failure
                  /\ table[c].source = SourceOf(j.op)
                  /\ j.op = "create_llm" => table[c].context = j.context}

-------------------------------------------------------------------------------
(* The steps of a task *)

Goto(t, stage) == pc' = [pc EXCEPT ![t] = stage]

Reads(t, c) ==
  /\ target' = [target EXCEPT ![t] = c]
  /\ copy' = [copy EXCEPT ![t] = table[c]]
  /\ Goto(t, "update")

\* create_from_llm_success, create_from_deterministic: none found.
FindNone(t) ==
  /\ pc[t] = "idle" /\ job[t].op \in Creations
  /\ Existing(job[t]) = {}
  /\ draft' = [draft EXCEPT ![t] = NewCase(job[t])]
  /\ Goto(t, "insert")
  /\ UNCHANGED <<table, job, target, copy, recorded, raced>>

FindOne(t) ==
  /\ pc[t] = "idle" /\ job[t].op \in Creations
  /\ \E c \in Existing(job[t]) :
       /\ Existing(job[t]) = {c}
       /\ Reads(t, c)
       /\ draft' = [draft EXCEPT ![t] = Reused(table[c])]
  /\ UNCHANGED <<table, job, recorded, raced>>

\* scalar_one_or_none raises on two rows.
FindSeveral(t) ==
  /\ pc[t] = "idle" /\ job[t].op \in Creations
  /\ Cardinality(Existing(job[t])) > 1
  /\ Goto(t, "failed")
  /\ UNCHANGED <<table, job, target, copy, draft, recorded, raced>>

\* record_outcome of a case of the job's failure.
LoadForOutcome(t) ==
  /\ pc[t] = "idle" /\ job[t].op \in Outcomes
  /\ \E c \in Stored :
       /\ table[c].failure = job[t].failure
       /\ Reads(t, c)
       /\ draft' = [draft EXCEPT ![t] = WithOutcome(table[c], job[t].op)]
  /\ UNCHANGED <<table, job, recorded, raced>>

\* record_outcome of a case that is not stored raises.
UnknownCase(t) ==
  /\ pc[t] = "idle" /\ job[t].op \in Outcomes
  /\ Goto(t, "failed")
  /\ UNCHANGED <<table, job, target, copy, draft, recorded, raced>>

Insert(t) ==
  /\ pc[t] = "insert"
  /\ Goto(t, "flushed")
  /\ UNCHANGED <<table, job, target, copy, draft, recorded, raced>>

RowLocked(t) == \E u \in Tasks \ {t} : pc[u] = "flushed" /\ target[u] = target[t]

\* The flush waits for the row lock and does not read the row again.
Update(t) ==
  /\ pc[t] = "update"
  /\ ~RowLocked(t)
  /\ Goto(t, "flushed")
  /\ UNCHANGED <<table, job, target, copy, draft, recorded, raced>>

\* The ORM writes the columns whose value differs from the one it read.
Written(row, old, new) ==
  [column \in DOMAIN row |-> IF new[column] # old[column] THEN new[column]
                                                          ELSE row[column]]

EffectOf(op) ==
  CASE op = "success" -> [successes |-> 1, failures |-> 0, reuses |-> 0]
    [] op = "failure" -> [successes |-> 0, failures |-> 1, reuses |-> 0]
    [] OTHER          -> [successes |-> 0, failures |-> 0, reuses |-> 1]

Plus(e, d) == [successes |-> e.successes + d.successes,
               failures |-> e.failures + d.failures, reuses |-> e.reuses + d.reuses]

CommitInsert(t) ==
  /\ pc[t] = "flushed" /\ copy[t] = NoRow
  /\ table' = [table EXCEPT ![t] = draft[t]]
  /\ recorded' = [recorded EXCEPT ![t] = EvidenceOf(draft[t])]
  /\ Goto(t, "committed")
  /\ UNCHANGED <<job, target, copy, draft, raced>>

CommitUpdate(t) ==
  /\ pc[t] = "flushed" /\ copy[t] # NoRow
  /\ LET c == target[t]
     IN  /\ table' = [table EXCEPT ![c] = Written(@, copy[t], draft[t])]
         /\ recorded' = [recorded EXCEPT ![c] = Plus(@, EffectOf(job[t].op))]
         /\ raced' = IF table[c] = copy[t] THEN raced ELSE raced \cup {c}
  /\ Goto(t, "committed")
  /\ UNCHANGED <<job, target, copy, draft>>

\* The request around the task fails; its transaction is rolled back.
Rollback(t) ==
  /\ pc[t] \in {"insert", "update", "flushed"}
  /\ Goto(t, "failed")
  /\ UNCHANGED <<table, job, target, copy, draft, recorded, raced>>

Quiescent ==
  /\ \A t \in Tasks : pc[t] \in {"committed", "failed"}
  /\ UNCHANGED vars

Next ==
  \/ \E t \in Tasks :
       \/ FindNone(t) \/ FindOne(t) \/ FindSeveral(t)
       \/ LoadForOutcome(t) \/ UnknownCase(t)
       \/ Insert(t) \/ Update(t) \/ CommitInsert(t) \/ CommitUpdate(t) \/ Rollback(t)
  \/ Quiescent

Spec == Init /\ [][Next]_vars

-------------------------------------------------------------------------------
(* Properties *)

\* Whatever overlaps, a stored count is never more than the outcomes that were
\* committed for the case: a lost update loses evidence and never invents any.
\* (record_outcome's copy is at most as new as the row it overwrites)
EvidenceIsReal ==
  \A c \in Stored : Backed(table[c], recorded[c])

\* A model's case that may be reused automatically has really succeeded as often
\* as its maturity stands for, also when counts and promotions were computed
\* from rows that were out of date.
PromotionIsEarned ==
  \A c \in Stored : Earned(table[c], recorded[c])

OutcomesOf(e) == e.successes + e.failures

BaseEvidence(c) == IF c \in OldCases THEN EvidenceOf(InitialRows[c])
                   ELSE [NoEvidence EXCEPT !.successes = 1]

\* Without overlapping calls the row is what its history makes it: every outcome
\* and reuse is counted, the confidence is that of the counts, and a promotion
\* that is due has been made.
UnracedCaseIsExact ==
  \A c \in Stored \ raced :
    LET row == table[c]
    IN  /\ EvidenceOf(row) = recorded[c]
        /\ OutcomesOf(recorded[c]) > OutcomesOf(BaseEvidence(c)) =>
             /\ row.confidence = Confidence(row.successes, row.failures)
             /\ ComputeMaturity(row) = row.maturity
===============================================================================
