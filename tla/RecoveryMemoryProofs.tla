------------------------- MODULE RecoveryMemoryProofs -------------------------
(***************************************************************************)
(* Proofs about RecoveryMemory, for any calls, cases, jobs and thresholds. *)
(* The invariant says what a task knows: the row it has read is backed by  *)
(* what has been recorded for the case by then, and its draft is one step  *)
(* from that row.                                                          *)
(***************************************************************************)
EXTENDS RecoveryMemory, TLAPS

\* What a call that has found its row makes of it.
AfterJob(row, op) == IF op \in Creations THEN Reused(row) ELSE WithOutcome(row, op)

\* A task that creates a case: its draft is the new case.
CreatorOK(t) ==
  pc[t] \in {"insert", "flushed"} /\ copy[t] = NoRow =>
    /\ job[t].op \in Creations
    /\ draft[t] = NewCase(job[t])

\* A task that has read a row.
ReaderOK(t) ==
  pc[t] \in {"update", "flushed"} /\ copy[t] # NoRow =>
    /\ target[t] \in Stored
    /\ copy[t].source = table[target[t]].source
    /\ Backed(copy[t], recorded[target[t]])
    /\ Earned(copy[t], recorded[target[t]])
    /\ draft[t] = AfterJob(copy[t], job[t].op)

CopyOK(t) ==
  /\ pc[t] \in {"idle", "insert"} => copy[t] = NoRow
  /\ pc[t] = "update" => copy[t] # NoRow

CreatedByCommit(t) == table[t] # NoRow => pc[t] = "committed"

\* A row that nobody has overwritten with an older one.
Exact(row, evidence, base) ==
  /\ EvidenceOf(row) = evidence
  /\ row.maturity = "PROPOSED" => row.successes < ValidatedSuccessThreshold
  /\ OutcomesOf(evidence) > OutcomesOf(base) =>
       /\ row.confidence = Confidence(row.successes, row.failures)
       /\ ComputeMaturity(row) = row.maturity

ExactRows == \A c \in Stored \ raced : Exact(table[c], recorded[c], BaseEvidence(c))

IInv ==
  /\ TypeOK
  /\ EvidenceIsReal
  /\ PromotionIsEarned
  /\ ExactRows
  /\ \A t \in Tasks : CopyOK(t) /\ CreatorOK(t) /\ ReaderOK(t) /\ CreatedByCommit(t)

-------------------------------------------------------------------------------
(* What the service computes *)

\* Laplace smoothing stays within the naturals.
LEMMA ConfidenceIsNat ==
  ASSUME NEW s \in Nat, NEW f \in Nat
  PROVE  Confidence(s, f) \in Nat
<1>1. (s + 1) * 1000 \in Nat /\ s + f + 2 \in Nat \ {0}
  OBVIOUS
<1>2. \A a \in Nat, b \in Nat \ {0} : a \div b \in Nat
  OBVIOUS
<1> QED
  BY <1>1, <1>2 DEF Confidence

\* A call adds to the row it read exactly what it records.
LEMMA AfterJobStep ==
  ASSUME NEW row \in Row, NEW op \in Creations \cup Outcomes
  PROVE  LET new == AfterJob(row, op)
         IN  /\ new \in Row
             /\ new.source = row.source
             /\ EvidenceOf(new) = Plus(EvidenceOf(row), EffectOf(op))
<1>1. CASE op \in Creations
  BY <1>1 DEF AfterJob, Reused, Row, EvidenceOf, Plus, EffectOf, Creations, Outcomes
<1>2. CASE op \in Outcomes
  <2> DEFINE s == row.successes + (IF op = "success" THEN 1 ELSE 0)
             f == row.failures + (IF op = "failure" THEN 1 ELSE 0)
             counted == [row EXCEPT !.successes = s, !.failures = f,
                                    !.confidence = Confidence(s, f)]
  <2>1. s \in Nat /\ f \in Nat
    BY DEF Row
  <2>2. Confidence(s, f) \in Nat
    BY <2>1, ConfidenceIsNat
  <2> HIDE DEF s, f
  <2>3. /\ counted \in Row
        /\ counted.source = row.source
        /\ EvidenceOf(counted) = [successes |-> s, failures |-> f, reuses |-> row.reuses]
    BY <2>1, <2>2 DEF Row, EvidenceOf
  <2> HIDE DEF counted
  <2>4. ComputeMaturity(counted) \in Maturities
    BY <2>3 DEF ComputeMaturity, Row, Maturities
  <2>5. AfterJob(row, op) = [counted EXCEPT !.maturity = ComputeMaturity(counted)]
    BY <1>2 DEF AfterJob, WithOutcome, counted, s, f, Creations, Outcomes
  <2>6. /\ AfterJob(row, op) \in Row
        /\ AfterJob(row, op).source = row.source
        /\ EvidenceOf(AfterJob(row, op)) = EvidenceOf(counted)
    BY <2>3, <2>4, <2>5 DEF Row, EvidenceOf
  <2>7. [successes |-> s, failures |-> f, reuses |-> row.reuses]
          = Plus(EvidenceOf(row), EffectOf(op))
    BY <1>2 DEF s, f, Plus, EvidenceOf, EffectOf, Outcomes, Row
  <2> QED
    BY <2>3, <2>6, <2>7
<1> QED
  BY <1>1, <1>2

\* The maturity after a call is that of the row, or one promotion that its counts allow.
LEMMA MaturityStep ==
  ASSUME NEW row \in Row, NEW op \in Creations \cup Outcomes
  PROVE  LET new == AfterJob(row, op)
         IN  /\ op \in Creations => new.maturity = row.maturity /\ new.confidence = row.confidence
             /\ op \in Outcomes =>
                  /\ new.confidence = Confidence(new.successes, new.failures)
                  /\ new.maturity = ComputeMaturity([new EXCEPT !.maturity = row.maturity])
<1>1. CASE op \in Creations
  BY <1>1 DEF AfterJob, Reused, Row, Creations, Outcomes
<1>2. CASE op \in Outcomes
  <2> DEFINE s == row.successes + (IF op = "success" THEN 1 ELSE 0)
             f == row.failures + (IF op = "failure" THEN 1 ELSE 0)
             counted == [row EXCEPT !.successes = s, !.failures = f,
                                    !.confidence = Confidence(s, f)]
  <2> HIDE DEF s, f
  <2>1. AfterJob(row, op) = [counted EXCEPT !.maturity = ComputeMaturity(counted)]
    BY <1>2 DEF AfterJob, WithOutcome, s, f, Creations, Outcomes
  <2>2. /\ counted.successes = s /\ counted.failures = f
        /\ counted.confidence = Confidence(s, f)
        /\ counted.maturity = row.maturity
        /\ DOMAIN counted = DOMAIN row
        /\ "maturity" \in DOMAIN row
    BY DEF Row
  <2>3. [AfterJob(row, op) EXCEPT !.maturity = row.maturity] = counted
    BY <2>1, <2>2 DEF Row
  <2> QED
    BY <1>2, <2>1, <2>2, <2>3 DEF Row, Creations, Outcomes
<1> QED
  BY <1>1, <1>2

\* The kinds of value do not overlap.
LEMMA Distinct ==
  /\ NoRow \notin Row
  /\ Creations \cap Outcomes = {}
<1>1. \A row \in Row : "failure" \in DOMAIN row
  BY DEF Row
<1>2. "failure" \notin DOMAIN NoRow
  BY DEF NoRow
<1> QED
  BY <1>1, <1>2 DEF Creations, Outcomes

\* What a call records is evidence, and evidence only grows.
LEMMA PlusGrows ==
  ASSUME NEW e \in Evidence, NEW op \in Creations \cup Outcomes
  PROVE  LET more == Plus(e, EffectOf(op))
         IN  /\ more \in Evidence
             /\ more.successes >= e.successes
             /\ more.failures >= e.failures
             /\ more.reuses >= e.reuses
BY DEF Evidence, Plus, EffectOf

\* More evidence backs what less evidence backed.
LEMMA Monotone ==
  ASSUME NEW row \in Row, NEW e \in Evidence, NEW more \in Evidence,
         more.successes >= e.successes, more.failures >= e.failures,
         more.reuses >= e.reuses
  PROVE  /\ Backed(row, e) => Backed(row, more)
         /\ Earned(row, e) => Earned(row, more)
BY MemoryAssumption DEF Backed, Earned, Row, Evidence

\* A call on a backed row makes a backed row, and promotes it on evidence only.
LEMMA AfterJobEarned ==
  ASSUME NEW row \in Row, NEW op \in Creations \cup Outcomes, NEW e \in Evidence,
         Backed(row, e), Earned(row, e)
  PROVE  /\ Backed(AfterJob(row, op), Plus(e, EffectOf(op)))
         /\ Earned(AfterJob(row, op), Plus(e, EffectOf(op)))
<1> DEFINE new  == AfterJob(row, op)
           more == Plus(e, EffectOf(op))
<1>1. /\ new \in Row
      /\ new.source = row.source
      /\ EvidenceOf(new) = Plus(EvidenceOf(row), EffectOf(op))
  BY AfterJobStep
<1>2. /\ more \in Evidence
      /\ more.successes >= e.successes
      /\ more.failures >= e.failures
      /\ more.reuses >= e.reuses
  BY PlusGrows
<1>3. Backed(new, more)
  <2>1. EffectOf(op) \in Evidence
    BY DEF EffectOf, Evidence
  <2>2. /\ new.successes = row.successes + EffectOf(op).successes
        /\ new.failures = row.failures + EffectOf(op).failures
        /\ new.reuses = row.reuses + EffectOf(op).reuses
    <3> HIDE DEF new
    <3> QED BY <1>1 DEF EvidenceOf, Plus
  <2> HIDE DEF new
  <2> QED
    BY <2>1, <2>2, <1>1 DEF Backed, Plus, Row, Evidence
<1>4. \/ new.maturity = row.maturity
      \/ new.maturity = "VALIDATED" /\ new.successes >= ValidatedSuccessThreshold
      \/ new.maturity = "ESTABLISHED" /\ new.successes >= EstablishedSuccessThreshold
  <2>1. CASE op \in Creations
    BY <2>1, MaturityStep
  <2>2. CASE op \in Outcomes
    <3>1. new.maturity = ComputeMaturity([new EXCEPT !.maturity = row.maturity])
      BY <2>2, MaturityStep
    <3> HIDE DEF new
    <3> QED
      BY <3>1, <1>1 DEF ComputeMaturity, Row
  <2> QED
    BY <2>1, <2>2
<1> HIDE DEF new, more
<1>5. Earned(new, more)
  BY <1>1, <1>2, <1>3, <1>4, MemoryAssumption DEF Earned, Backed, Row, Evidence
<1> QED
  BY <1>3, <1>5 DEF new, more

-------------------------------------------------------------------------------
(* What the flush writes *)

\* Column by column, the row a flush leaves has the draft's value or the table's.
LEMMA WrittenColumns ==
  ASSUME NEW row \in Row, NEW old \in Row, NEW new \in Row
  PROVE  LET w == Written(row, old, new)
         IN  /\ w \in Row
             /\ w.failure \in {row.failure, new.failure}
             /\ w.source = IF new.source # old.source THEN new.source ELSE row.source
             /\ w.maturity \in {row.maturity, new.maturity}
             /\ w.successes \in {row.successes, new.successes}
             /\ w.failures \in {row.failures, new.failures}
             /\ w.reuses \in {row.reuses, new.reuses}
<1> DEFINE Value(k) == IF new[k] # old[k] THEN new[k] ELSE row[k]
<1>1. DOMAIN row = {"failure", "context", "source", "maturity", "successes",
                    "failures", "reuses", "confidence"}
  BY DEF Row
<1>2. Written(row, old, new) =
        [failure |-> Value("failure"), context |-> Value("context"),
         source |-> Value("source"), maturity |-> Value("maturity"),
         successes |-> Value("successes"), failures |-> Value("failures"),
         reuses |-> Value("reuses"), confidence |-> Value("confidence")]
  BY <1>1 DEF Written
<1>3. /\ Value("failure") \in {row.failure, new.failure}
      /\ Value("context") \in {row.context, new.context}
      /\ Value("source") = IF new.source # old.source THEN new.source ELSE row.source
      /\ Value("maturity") \in {row.maturity, new.maturity}
      /\ Value("successes") \in {row.successes, new.successes}
      /\ Value("failures") \in {row.failures, new.failures}
      /\ Value("reuses") \in {row.reuses, new.reuses}
      /\ Value("confidence") \in {row.confidence, new.confidence}
  OBVIOUS
<1> HIDE DEF Value
<1> QED
  BY <1>2, <1>3 DEF Row

\* Nobody wrote the row since it was read: the flush leaves the draft.
LEMMA WrittenUnraced ==
  ASSUME NEW row \in Row, NEW new \in Row
  PROVE  Written(row, row, new) = new
<1>1. DOMAIN row = DOMAIN new /\ new = [k \in DOMAIN new |-> new[k]]
  BY DEF Row
<1>2. Written(row, row, new) = [k \in DOMAIN row |-> new[k]]
  BY DEF Written
<1> QED
  BY <1>1, <1>2

\* However old the row that was read, the flush leaves a backed and earned row.
LEMMA WrittenBacked ==
  ASSUME NEW row \in Row, NEW old \in Row, NEW op \in Creations \cup Outcomes,
         NEW e \in Evidence, row.source = old.source,
         Backed(row, e), Earned(row, e), Backed(old, e), Earned(old, e)
  PROVE  LET w == Written(row, old, AfterJob(old, op))
         IN  /\ w \in Row
             /\ w.source = row.source
             /\ Backed(w, Plus(e, EffectOf(op)))
             /\ Earned(w, Plus(e, EffectOf(op)))
<1> DEFINE new  == AfterJob(old, op)
           more == Plus(e, EffectOf(op))
           w    == Written(row, old, new)
<1>1. new \in Row /\ new.source = old.source
  BY AfterJobStep
<1>2. Backed(new, more) /\ Earned(new, more)
  BY AfterJobEarned
<1>3. /\ more \in Evidence
      /\ more.successes >= e.successes
      /\ more.failures >= e.failures
      /\ more.reuses >= e.reuses
  BY PlusGrows
<1> HIDE DEF new, more
<1>4. Backed(row, more) /\ Earned(row, more)
  BY <1>3, Monotone
<1>5. /\ w \in Row
      /\ w.source = row.source
      /\ w.maturity \in {row.maturity, new.maturity}
      /\ w.successes \in {row.successes, new.successes}
      /\ w.failures \in {row.failures, new.failures}
      /\ w.reuses \in {row.reuses, new.reuses}
  BY <1>1, WrittenColumns
<1> HIDE DEF w
<1>6. Backed(w, more)
  BY <1>2, <1>4, <1>5 DEF Backed
<1>7. Earned(w, more)
  BY <1>1, <1>2, <1>4, <1>5 DEF Earned
<1> QED
  BY <1>5, <1>6, <1>7 DEF w, new, more

\* A call on the row as it is leaves it what its history makes it.  One call makes
\* one promotion; a second is never due, because the thresholds are apart.
LEMMA ExactStep ==
  ASSUME NEW row \in Row, NEW op \in Creations \cup Outcomes,
         NEW base \in Evidence, NEW e \in Evidence, Exact(row, e, base)
  PROVE  Exact(AfterJob(row, op), Plus(e, EffectOf(op)), base)
<1> DEFINE new  == AfterJob(row, op)
           more == Plus(e, EffectOf(op))
<1>1. new \in Row /\ EvidenceOf(new) = more
  BY AfterJobStep DEF Exact
<1>2. CASE op \in Creations
  <2>1. new.maturity = row.maturity /\ new.confidence = row.confidence
    BY <1>2, MaturityStep
  <2>2. new.successes = row.successes /\ new.failures = row.failures
    BY <1>2 DEF AfterJob, Reused, Row
  <2>3. OutcomesOf(more) = OutcomesOf(e)
    BY <1>2 DEF OutcomesOf, Plus, EffectOf, Creations, Evidence
  <2>4. ComputeMaturity(new) = ComputeMaturity(row)
    <3> HIDE DEF new
    <3> QED BY <2>1, <2>2 DEF ComputeMaturity
  <2> HIDE DEF new, more
  <2>5. Exact(new, more, base)
    BY <1>1, <2>1, <2>2, <2>3, <2>4 DEF Exact
  <2> QED
    BY <2>5 DEF new, more
<1>3. CASE op \in Outcomes
  <2>1. /\ new.confidence = Confidence(new.successes, new.failures)
        /\ new.maturity = ComputeMaturity([new EXCEPT !.maturity = row.maturity])
    BY <1>3, MaturityStep
  <2>2. row.maturity = "PROPOSED" => new.successes <= ValidatedSuccessThreshold
    <3>1. EffectOf(op).successes \in {0, 1}
      BY DEF EffectOf
    <3>2. new.successes = row.successes + EffectOf(op).successes
      <4>1. EvidenceOf(new) = Plus(EvidenceOf(row), EffectOf(op))
        BY AfterJobStep
      <4> HIDE DEF new
      <4> QED BY <4>1 DEF EvidenceOf, Plus
    <3> HIDE DEF new
    <3> QED
      BY <3>1, <3>2, MemoryAssumption DEF Exact, Row
  <2> SUFFICES Exact(new, more, base)
    OBVIOUS
  <2> HIDE DEF new, more
  <2> DEFINE before == [new EXCEPT !.maturity = row.maturity]
  <2>3. /\ before.maturity = row.maturity
        /\ before.successes = new.successes
        /\ before.failures = new.failures
    BY <1>1 DEF Row
  <2>4. /\ row.maturity \in Maturities
        /\ new.successes \in Nat /\ new.failures \in Nat
    BY <1>1 DEF Row
  <2>5. new.maturity = ComputeMaturity(before)
    BY <2>1
  <2> HIDE DEF before
  <2>6. CASE row.maturity = "PROPOSED"
    <3>1. CASE new.successes >= ValidatedSuccessThreshold
      <4>1. new.maturity = "VALIDATED"
        BY <2>3, <2>5, <2>6, <3>1 DEF ComputeMaturity
      <4>2. ComputeMaturity(new) = new.maturity
        BY <4>1, <2>2, <2>4, <2>6, MemoryAssumption, PromotionAssumption
           DEF ComputeMaturity
      <4> QED
        BY <4>1, <4>2, <1>1, <2>1 DEF Exact
    <3>2. CASE ~(new.successes >= ValidatedSuccessThreshold)
      <4>1. new.maturity = "PROPOSED"
        BY <2>3, <2>5, <2>6, <3>2 DEF ComputeMaturity
      <4>2. ComputeMaturity(new) = new.maturity
        BY <4>1, <3>2 DEF ComputeMaturity
      <4> QED
        BY <4>1, <4>2, <1>1, <2>1, <2>4, <3>2, MemoryAssumption DEF Exact
    <3> QED
      BY <3>1, <3>2
  <2>7. CASE row.maturity # "PROPOSED"
    <3>1. new.maturity \in {"VALIDATED", "ESTABLISHED"}
      BY <2>3, <2>4, <2>5, <2>7 DEF ComputeMaturity, Maturities
    <3>2. ComputeMaturity(new) = new.maturity
      BY <2>3, <2>4, <2>5, <2>7 DEF ComputeMaturity, Maturities
    <3> QED
      BY <3>1, <3>2, <1>1, <2>1 DEF Exact
  <2> QED
    BY <2>6, <2>7
<1> QED
  BY <1>2, <1>3

-------------------------------------------------------------------------------
(* The initial states *)

\* A created case starts backed and earned, and is what its history makes it.
LEMMA NewCaseOK ==
  ASSUME NEW j \in Jobs, j.op \in Creations
  PROVE  LET row == NewCase(j)
         IN  /\ row \in Row
             /\ EvidenceOf(row) = [NoEvidence EXCEPT !.successes = 1]
             /\ EvidenceOf(row) \in Evidence
             /\ Backed(row, EvidenceOf(row))
             /\ Earned(row, EvidenceOf(row))
             /\ Exact(row, EvidenceOf(row), [NoEvidence EXCEPT !.successes = 1])
<1> DEFINE row == NewCase(j)
<1>1. j \in Job
  BY MemoryAssumption
<1>2. /\ row \in Row
      /\ row.source = SourceOf(j.op)
      /\ row.maturity = IF j.op = "create_llm" THEN "PROPOSED" ELSE "VALIDATED"
      /\ row.successes = 1 /\ row.failures = 0 /\ row.reuses = 0
  BY <1>1, MemoryAssumption
     DEF NewCase, Row, Job, SourceOf, Sources, Maturities, Llm, Deterministic
<1> HIDE DEF row
<1>3. EvidenceOf(row) = [successes |-> 1, failures |-> 0, reuses |-> 0]
  BY <1>2 DEF EvidenceOf
<1>4. [NoEvidence EXCEPT !.successes = 1] = [successes |-> 1, failures |-> 0, reuses |-> 0]
  BY DEF NoEvidence
<1>5. EvidenceOf(row) \in Evidence
  BY <1>3 DEF Evidence
<1>6. Backed(row, EvidenceOf(row))
  BY <1>2, <1>3 DEF Backed
<1>7. Earned(row, EvidenceOf(row))
  BY <1>2 DEF Earned, SourceOf, Llm, Deterministic
<1>8. Exact(row, EvidenceOf(row), EvidenceOf(row))
  <2>1. ~(OutcomesOf(EvidenceOf(row)) > OutcomesOf(EvidenceOf(row)))
    BY <1>3 DEF OutcomesOf
  <2> QED
    BY <1>2, <2>1, MemoryAssumption, PromotionAssumption DEF Exact
<1> QED
  BY <1>2, <1>3, <1>4, <1>5, <1>6, <1>7, <1>8 DEF row

\* The base of a case's evidence.
LEMMA BaseIsEvidence ==
  ASSUME NEW c \in Cases
  PROVE  BaseEvidence(c) \in Evidence
<1>1. CASE c \in OldCases
  <2>1. InitialRows[c] \in Row
    BY <1>1, MemoryAssumption
  <2>2. EvidenceOf(InitialRows[c]) \in Evidence
    BY <2>1 DEF Row, EvidenceOf, Evidence
  <2> QED
    BY <1>1, <2>2 DEF BaseEvidence
<1>2. CASE c \notin OldCases
  BY <1>2 DEF BaseEvidence, NoEvidence, Evidence
<1> QED
  BY <1>1, <1>2

\* The stored cases satisfy the invariant when the service starts.
LEMMA InitInvariant == Init => IInv
<1> SUFFICES ASSUME Init PROVE IInv
  OBVIOUS
<1> USE DEF Init
<1>1. \A c \in OldCases : /\ InitialRows[c] \in Row
                          /\ EvidenceOf(InitialRows[c]) \in Evidence
                          /\ Backed(InitialRows[c], EvidenceOf(InitialRows[c]))
  <2> TAKE c \in OldCases
  <2>1. InitialRows[c] \in Row
    BY MemoryAssumption
  <2> QED
    BY <2>1 DEF Row, EvidenceOf, Evidence, Backed
<1>2. NoEvidence \in Evidence
  BY DEF NoEvidence, Evidence
<1>3. TypeOK
  BY <1>1, <1>2 DEF TypeOK, Cases
<1>4. \A c \in Stored : /\ c \in OldCases
                        /\ table[c] = InitialRows[c]
                        /\ recorded[c] = EvidenceOf(InitialRows[c])
  BY DEF Stored, Cases
<1>5. EvidenceIsReal /\ PromotionIsEarned
  BY <1>1, <1>4, PromotionAssumption DEF EvidenceIsReal, PromotionIsEarned
<1>6. ExactRows
  <2> SUFFICES ASSUME NEW c \in Stored
               PROVE  Exact(table[c], recorded[c], BaseEvidence(c))
    BY DEF ExactRows
  <2>1. recorded[c] = BaseEvidence(c) /\ BaseEvidence(c) \in Evidence
    BY <1>1, <1>4 DEF BaseEvidence
  <2>2. ~(OutcomesOf(recorded[c]) > OutcomesOf(BaseEvidence(c)))
    BY <2>1 DEF OutcomesOf, Evidence
  <2> QED
    BY <1>4, <2>2, PromotionAssumption DEF Exact
<1>7. ASSUME NEW t \in Tasks
      PROVE  CopyOK(t) /\ CreatorOK(t) /\ ReaderOK(t) /\ CreatedByCommit(t)
  <2>1. pc[t] = "idle" /\ copy[t] = NoRow
    OBVIOUS
  <2>2. table[t] = NoRow
    BY MemoryAssumption DEF Cases
  <2> QED
    BY <2>1, <2>2 DEF CopyOK, CreatorOK, ReaderOK, CreatedByCommit
<1> QED
  BY <1>3, <1>5, <1>6, <1>7 DEF IInv

-------------------------------------------------------------------------------
(* The steps *)

TaskOK(t) == CopyOK(t) /\ CreatorOK(t) /\ ReaderOK(t) /\ CreatedByCommit(t)

\* What task t keeps to itself.
Local(t) == <<pc[t], target[t], copy[t], draft[t]>>

\* A step inside a task's session disturbs no stored row and no other task.
LEMMA LocalStep ==
  ASSUME IInv, NEW t \in Tasks, TypeOK',
         UNCHANGED <<table, job, recorded, raced>>,
         \A u \in Tasks \ {t} : UNCHANGED Local(u),
         pc[t] # "committed",
         CopyOK(t)', CreatorOK(t)', ReaderOK(t)'
  PROVE  IInv'
<1>1. (EvidenceIsReal /\ PromotionIsEarned /\ ExactRows)'
  BY DEF IInv, EvidenceIsReal, PromotionIsEarned, ExactRows, Stored
<1>2. ASSUME NEW u \in Tasks, u # t
      PROVE  (CopyOK(u) /\ CreatorOK(u) /\ ReaderOK(u) /\ CreatedByCommit(u))'
  <2>1. /\ pc'[u] = pc[u] /\ target'[u] = target[u]
        /\ copy'[u] = copy[u] /\ draft'[u] = draft[u]
    BY <1>2 DEF Local
  <2>2. CopyOK(u) /\ CreatorOK(u) /\ ReaderOK(u) /\ CreatedByCommit(u)
    BY DEF IInv
  <2> QED
    BY <2>1, <2>2 DEF CopyOK, CreatorOK, ReaderOK, CreatedByCommit, Stored
<1>3. CreatedByCommit(t)'
  BY DEF IInv, CreatedByCommit
<1> QED
  BY <1>1, <1>2, <1>3 DEF IInv

\* A task that reads a stored case and makes its draft from it.
LEMMA ReadStep ==
  ASSUME IInv, NEW t \in Tasks, NEW c \in Stored,
         pc[t] = "idle",
         Reads(t, c),
         draft' = [draft EXCEPT ![t] = AfterJob(table[c], job[t].op)],
         UNCHANGED <<table, job, recorded, raced>>
  PROVE  IInv'
<1> USE DEF Reads, Goto
<1>1. /\ c \in Cases /\ table[c] \in Row /\ recorded[c] \in Evidence
      /\ job[t] \in Job
  BY MemoryAssumption DEF IInv, TypeOK, Stored
<1>2. AfterJob(table[c], job[t].op) \in Row
  BY <1>1, AfterJobStep DEF Job
<1>3. TypeOK'
  BY <1>1, <1>2 DEF IInv, TypeOK
<1>4. /\ pc'[t] = "update" /\ target'[t] = c /\ copy'[t] = table[c]
      /\ draft'[t] = AfterJob(table[c], job[t].op)
  BY DEF IInv, TypeOK
<1>5. CopyOK(t)' /\ CreatorOK(t)'
  BY <1>1, <1>4, Distinct DEF CopyOK, CreatorOK
<1>6. ReaderOK(t)'
  BY <1>4 DEF IInv, ReaderOK, EvidenceIsReal, PromotionIsEarned, Stored
<1>7. \A u \in Tasks \ {t} : UNCHANGED Local(u)
  BY DEF IInv, TypeOK, Local
<1> QED
  BY <1>3, <1>5, <1>6, <1>7, LocalStep

\* A task that finds no case drafts a new one.
LEMMA FindNoneStep ==
  ASSUME IInv, NEW t \in Tasks, FindNone(t)
  PROVE  IInv'
<1> USE DEF FindNone, Goto
<1>1. /\ pc'[t] = "insert" /\ copy'[t] = NoRow
      /\ draft'[t] = NewCase(job[t]) /\ job[t].op \in Creations
  BY DEF IInv, TypeOK, CopyOK
<1>2. NewCase(job[t]) \in Row
  BY <1>1, NewCaseOK DEF IInv, TypeOK
<1>3. TypeOK'
  BY <1>2 DEF IInv, TypeOK
<1>4. CopyOK(t)' /\ CreatorOK(t)' /\ ReaderOK(t)'
  BY <1>1 DEF CopyOK, CreatorOK, ReaderOK
<1>5. \A u \in Tasks \ {t} : UNCHANGED Local(u)
  BY DEF IInv, TypeOK, Local
<1> QED
  BY <1>3, <1>4, <1>5, LocalStep

\* A task that flushes keeps its draft, and one that fails keeps nothing to commit.
LEMMA StageStep ==
  ASSUME IInv, NEW t \in Tasks,
         \/ FindSeveral(t) \/ UnknownCase(t)
         \/ Insert(t) \/ Update(t) \/ Rollback(t)
  PROVE  IInv'
<1> USE DEF FindSeveral, UnknownCase, Insert, Update, Rollback, Goto
<1>1. /\ \/ pc'[t] = "failed"
         \/ pc[t] = "insert" /\ pc'[t] = "flushed"
         \/ pc[t] = "update" /\ pc'[t] = "flushed"
      /\ pc[t] # "committed"
      /\ UNCHANGED <<table, job, target, copy, draft, recorded, raced>>
  BY DEF IInv, TypeOK
<1>2. TypeOK'
  BY DEF IInv, TypeOK
<1>3. CopyOK(t) /\ CreatorOK(t) /\ ReaderOK(t)
  BY DEF IInv
<1>4. CopyOK(t)' /\ CreatorOK(t)' /\ ReaderOK(t)'
  BY <1>1, <1>3 DEF CopyOK, CreatorOK, ReaderOK, Stored
<1>5. \A u \in Tasks \ {t} : UNCHANGED Local(u)
  BY DEF IInv, TypeOK, Local
<1> QED
  BY <1>1, <1>2, <1>4, <1>5, LocalStep

\* A committed insert stores a case that no task can have read before.
LEMMA CommitInsertStep ==
  ASSUME IInv, NEW t \in Tasks, CommitInsert(t)
  PROVE  IInv'
<1> USE DEF CommitInsert, Goto
<1> DEFINE row == NewCase(job[t])
<1>1. /\ draft[t] = row /\ job[t].op \in Creations /\ job[t] \in Jobs
      /\ t \notin Stored /\ t \in Cases
  BY DEF IInv, TypeOK, CreatorOK, CreatedByCommit, Stored, Cases
<1>2. t \notin OldCases
  BY MemoryAssumption
<1>3. /\ row \in Row
      /\ EvidenceOf(row) \in Evidence
      /\ Backed(row, EvidenceOf(row))
      /\ Earned(row, EvidenceOf(row))
      /\ Exact(row, EvidenceOf(row), BaseEvidence(t))
  BY <1>1, <1>2, NewCaseOK DEF BaseEvidence
<1> HIDE DEF row
<1>4. /\ table'[t] = row /\ recorded'[t] = EvidenceOf(row)
      /\ \A c \in Cases \ {t} : table'[c] = table[c] /\ recorded'[c] = recorded[c]
      /\ pc'[t] = "committed"
      /\ \A u \in Tasks \ {t} : pc'[u] = pc[u]
  BY <1>1 DEF IInv, TypeOK
<1>5. Stored' = Stored \cup {t}
  BY <1>1, <1>3, <1>4, Distinct DEF Stored
<1>6. TypeOK'
  BY <1>1, <1>3 DEF IInv, TypeOK
<1>7. (EvidenceIsReal /\ PromotionIsEarned)'
  BY <1>3, <1>4, <1>5 DEF IInv, EvidenceIsReal, PromotionIsEarned, Stored
<1>8. ExactRows'
  BY <1>3, <1>4, <1>5 DEF IInv, ExactRows, Stored
<1>9. ASSUME NEW u \in Tasks
      PROVE  (CopyOK(u) /\ CreatorOK(u) /\ ReaderOK(u) /\ CreatedByCommit(u))'
  <2>1. CASE u = t
    BY <1>4, <2>1 DEF CopyOK, CreatorOK, ReaderOK, CreatedByCommit
  <2>2. CASE u # t
    <3>1. pc'[u] = pc[u] /\ table'[u] = table[u]
      BY <1>4, <2>2 DEF Cases
    <3>2. CopyOK(u) /\ CreatorOK(u) /\ ReaderOK(u) /\ CreatedByCommit(u)
      BY DEF IInv
    <3>3. (CopyOK(u) /\ CreatorOK(u) /\ CreatedByCommit(u))'
      BY <3>1, <3>2 DEF CopyOK, CreatorOK, CreatedByCommit
    <3>4. ReaderOK(u)'
      BY <1>1, <1>4, <1>5, <3>1, <3>2 DEF ReaderOK, Stored
    <3> QED
      BY <3>3, <3>4
  <2> QED
    BY <2>1, <2>2
<1> QED
  BY <1>6, <1>7, <1>8, <1>9 DEF IInv

\* A committed update, from a row as old as it may be, leaves the row backed and
\* earned; from the row as it is, it leaves the row exact.
LEMMA CommitUpdateStep ==
  ASSUME IInv, NEW t \in Tasks, CommitUpdate(t)
  PROVE  IInv'
<1> USE DEF CommitUpdate, Goto
<1> DEFINE c    == target[t]
           op   == job[t].op
           row  == table[c]
           more == Plus(recorded[c], EffectOf(op))
           w    == Written(row, copy[t], draft[t])
<1>1. /\ c \in Stored /\ c \in Cases /\ row \in Row /\ copy[t] \in Row
      /\ recorded[c] \in Evidence
      /\ op \in Creations \cup Outcomes
  BY MemoryAssumption DEF IInv, TypeOK, ReaderOK, Stored, Job
<1>2. /\ copy[t].source = row.source
      /\ Backed(copy[t], recorded[c]) /\ Earned(copy[t], recorded[c])
      /\ draft[t] = AfterJob(copy[t], op)
  BY DEF IInv, ReaderOK
<1>3. Backed(row, recorded[c]) /\ Earned(row, recorded[c])
  BY <1>1 DEF IInv, EvidenceIsReal, PromotionIsEarned
<1>4. w \in Row /\ w.source = row.source /\ Backed(w, more) /\ Earned(w, more)
  <2> HIDE DEF c, op, row
  <2> QED BY <1>1, <1>2, <1>3, WrittenBacked
<1>5. /\ more \in Evidence
      /\ more.successes >= recorded[c].successes
      /\ more.failures >= recorded[c].failures
      /\ more.reuses >= recorded[c].reuses
  BY <1>1, PlusGrows
<1>6. c \in Stored \ raced' => Exact(w, more, BaseEvidence(c))
  <2> SUFFICES ASSUME c \notin raced'
               PROVE  Exact(w, more, BaseEvidence(c))
    OBVIOUS
  <2>1. row = copy[t] /\ c \notin raced
    OBVIOUS
  <2>2. Exact(row, recorded[c], BaseEvidence(c))
    BY <1>1, <2>1 DEF IInv, ExactRows
  <2>3. AfterJob(row, op) \in Row
    BY <1>1, AfterJobStep
  <2>4. w = AfterJob(row, op)
    BY <1>1, <1>2, <2>1, <2>3, WrittenUnraced
  <2>5. BaseEvidence(c) \in Evidence
    BY <1>1, BaseIsEvidence
  <2> HIDE DEF c, op, row, w
  <2> QED
    BY <1>1, <2>2, <2>4, <2>5, ExactStep
<1>7. /\ table'[c] = w /\ recorded'[c] = more
      /\ \A d \in Cases \ {c} : table'[d] = table[d] /\ recorded'[d] = recorded[d]
      /\ pc'[t] = "committed"
      /\ \A u \in Tasks \ {t} : pc'[u] = pc[u]
      /\ raced \subseteq raced'
      /\ UNCHANGED <<job, target, copy, draft>>
  BY <1>1 DEF IInv, TypeOK
<1>8. TypeOK'
  BY <1>1, <1>4, <1>5 DEF IInv, TypeOK
<1> HIDE DEF CommitUpdate, Goto
<1> HIDE DEF c, op, row, more, w
<1>9. Stored' = Stored
  BY <1>1, <1>4, <1>7, Distinct DEF Stored
<1>10. (EvidenceIsReal /\ PromotionIsEarned)'
  <2> SUFFICES ASSUME NEW d \in Stored
               PROVE  Backed(table'[d], recorded'[d]) /\ Earned(table'[d], recorded'[d])
    BY <1>9 DEF EvidenceIsReal, PromotionIsEarned
  <2> QED
    BY <1>4, <1>7 DEF IInv, EvidenceIsReal, PromotionIsEarned, Stored
<1>11. ExactRows'
  <2> SUFFICES ASSUME NEW d \in Stored \ raced'
               PROVE  Exact(table'[d], recorded'[d], BaseEvidence(d))
    BY <1>9 DEF ExactRows
  <2> QED
    BY <1>6, <1>7 DEF IInv, ExactRows, Stored
<1>12. ASSUME NEW u \in Tasks
       PROVE  (CopyOK(u) /\ CreatorOK(u) /\ ReaderOK(u) /\ CreatedByCommit(u))'
  <2>1. CASE u = t
    <3>1. pc'[u] = "committed"
      BY <1>7, <2>1
    <3> QED
      BY <3>1 DEF CopyOK, CreatorOK, ReaderOK, CreatedByCommit
  <2>2. CASE u # t
    <3>1. pc'[u] = pc[u]
      BY <1>7, <2>2
    <3>2. CopyOK(u) /\ CreatorOK(u) /\ ReaderOK(u) /\ CreatedByCommit(u)
      BY DEF IInv
    <3>3. (CopyOK(u) /\ CreatorOK(u))'
      BY <1>7, <3>1, <3>2 DEF CopyOK, CreatorOK
    <3>4. CreatedByCommit(u)'
      <4>1. u \in Cases
        BY DEF Cases
      <4>2. u \in Stored' => u \in Stored
        BY <1>9
      <4> QED
        BY <3>1, <3>2, <4>1, <4>2 DEF CreatedByCommit, Stored
    <3>5. ReaderOK(u)'
      <4> SUFFICES ASSUME pc[u] \in {"update", "flushed"}, copy[u] # NoRow
                   PROVE  /\ target[u] \in Stored
                          /\ copy[u].source = table'[target[u]].source
                          /\ Backed(copy[u], recorded'[target[u]])
                          /\ Earned(copy[u], recorded'[target[u]])
                          /\ draft[u] = AfterJob(copy[u], job[u].op)
        BY <1>7, <1>9, <3>1 DEF ReaderOK
      <4>1. /\ target[u] \in Stored
            /\ copy[u].source = table[target[u]].source
            /\ Backed(copy[u], recorded[target[u]])
            /\ Earned(copy[u], recorded[target[u]])
            /\ draft[u] = AfterJob(copy[u], job[u].op)
        BY <3>2 DEF ReaderOK
      <4>2. CASE target[u] # c
        BY <1>7, <4>1, <4>2 DEF Stored
      <4>3. CASE target[u] = c
        <5>1. copy[u] \in Row
          BY DEF IInv, TypeOK
        <5>2. Backed(copy[u], more) /\ Earned(copy[u], more)
          BY <1>1, <1>5, <4>1, <4>3, <5>1, Monotone
        <5>3. w.source = table[c].source
          BY <1>4 DEF row
        <5> QED
          BY <1>7, <4>1, <4>3, <5>2, <5>3
      <4> QED
        BY <4>2, <4>3
    <3> QED
      BY <3>3, <3>4, <3>5
  <2> QED
    BY <2>1, <2>2
<1> QED
  BY <1>8, <1>10, <1>11, <1>12 DEF IInv

\* Every step of the service keeps the invariant.
LEMMA NextInvariant == IInv /\ [Next]_vars => IInv'
<1> SUFFICES ASSUME IInv, [Next]_vars PROVE IInv'
  OBVIOUS
<1>1. ASSUME NEW t \in Tasks, FindOne(t)
      PROVE  IInv'
  <2>1. PICK c \in Stored : /\ Reads(t, c)
                            /\ draft' = [draft EXCEPT ![t] = Reused(table[c])]
    BY <1>1 DEF FindOne, Existing
  <2>2. pc[t] = "idle" /\ job[t].op \in Creations
    BY <1>1 DEF FindOne
  <2>3. Reused(table[c]) = AfterJob(table[c], job[t].op)
    BY <2>2 DEF AfterJob
  <2>4. UNCHANGED <<table, job, recorded, raced>>
    BY <1>1 DEF FindOne
  <2> QED
    BY <2>1, <2>2, <2>3, <2>4, ReadStep
<1>2. ASSUME NEW t \in Tasks, LoadForOutcome(t)
      PROVE  IInv'
  <2>1. PICK c \in Stored :
          /\ Reads(t, c)
          /\ draft' = [draft EXCEPT ![t] = WithOutcome(table[c], job[t].op)]
    BY <1>2 DEF LoadForOutcome
  <2>2. pc[t] = "idle" /\ job[t].op \in Outcomes
    BY <1>2 DEF LoadForOutcome
  <2>3. WithOutcome(table[c], job[t].op) = AfterJob(table[c], job[t].op)
    BY <2>2, Distinct DEF AfterJob
  <2>4. UNCHANGED <<table, job, recorded, raced>>
    BY <1>2 DEF LoadForOutcome
  <2> QED
    BY <2>1, <2>2, <2>3, <2>4, ReadStep
<1>3. CASE UNCHANGED vars
  BY <1>3 DEF vars, IInv, TypeOK, EvidenceIsReal, PromotionIsEarned, ExactRows, Stored,
              CopyOK, CreatorOK, ReaderOK, CreatedByCommit
<1> QED
  BY <1>1, <1>2, <1>3, FindNoneStep, StageStep, CommitInsertStep, CommitUpdateStep
     DEF Next, Quiescent

-------------------------------------------------------------------------------
(* Theorems *)

\* Every state the service reaches satisfies the inductive invariant.
THEOREM Invariance == Spec => []IInv
BY InitInvariant, NextInvariant, PTL DEF Spec

\* Type correctness of the recovery cases and of the sessions.
THEOREM TypeCorrectness == Spec => []TypeOK
<1>1. IInv => TypeOK
  BY DEF IInv
<1> QED
  BY <1>1, Invariance, PTL

\* A lost update loses evidence and never invents any, for any number of calls.
THEOREM CountsAreReal == Spec => []EvidenceIsReal
<1>1. IInv => EvidenceIsReal
  BY DEF IInv
<1> QED
  BY <1>1, Invariance, PTL

\* No maturity is reached without the successes it stands for, however old the
\* rows from which the promotions were computed.
THEOREM PromotionsAreEarned == Spec => []PromotionIsEarned
<1>1. IInv => PromotionIsEarned
  BY DEF IInv
<1> QED
  BY <1>1, Invariance, PTL

\* A case that no two calls raced for is what its history makes it.
THEOREM UnracedCasesAreExact == Spec => []UnracedCaseIsExact
<1>1. IInv => UnracedCaseIsExact
  BY DEF IInv, ExactRows, Exact, UnracedCaseIsExact
<1> QED
  BY <1>1, Invariance, PTL
===============================================================================
