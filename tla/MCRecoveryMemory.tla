--------------------------- MODULE MCRecoveryMemory ---------------------------
(***************************************************************************)
(* Small instances of RecoveryMemory for TLC.                              *)
(***************************************************************************)
EXTENDS RecoveryMemory, TLC

CONSTANTS t1, t2, t3, t4, proposed, validated, f1, x1, x2

FourTasks  == {t1, t2, t3, t4}
TwoCases   == {proposed, validated}
OneFailure == {f1}
TwoContexts == {x1, x2}

OldRow(source, maturity, successes, confidence) ==
  [failure |-> f1, context |-> x1, source |-> source, maturity |-> maturity,
   successes |-> successes, failures |-> 0, reuses |-> 0, confidence |-> confidence]

\* A model's case and one just short of the promotion to ESTABLISHED.
SeededRows == (proposed :> OldRow(Llm, "PROPOSED", 1, 700))
           @@ (validated :> OldRow(Deterministic, "VALIDATED", 4, 833))

Order(op, context) == [op |-> op, failure |-> f1, context |-> context]
AllJobs == {Order("create_llm", x1), Order("create_llm", x2),
            Order("create_deterministic", x2),
            Order("success", x1), Order("failure", x1)}

Symmetry == Permutations(FourTasks)
===============================================================================
