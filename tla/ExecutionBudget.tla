---------------------------- MODULE ExecutionBudget ----------------------------
(***************************************************************************)
(* What the broker promises about upstream executions, whatever its        *)
(* pipeline does in between: a request is executed once as the client sent *)
(* it; it may then claim the right to correct its correlation ID, have one *)
(* correction cleared and execute that one once; nothing follows.  A claim *)
(* is exclusive and lasts as long as the claimant's transaction is not     *)
(* rolled back.                                                            *)
(***************************************************************************)
EXTENDS Naturals

CONSTANTS Requests, Correlations

VARIABLES
  corr,    \* the correlation ID of each request, fixed
  phase,   \* how far the request is
  calls,   \* upstream executions made for it
  claimed  \* the requests that hold the claim on their correlation ID

vars == <<corr, phase, calls, claimed>>

Phases == {"idle", "open", "cleared", "closed"}

Init ==
  /\ corr \in [Requests -> Correlations]
  /\ phase = [r \in Requests |-> "idle"]
  /\ calls = [r \in Requests |-> 0]
  /\ claimed = {}

Move(r, from, to) ==
  /\ phase[r] \in from
  /\ phase' = [phase EXCEPT ![r] = to]

Open(r) ==
  /\ \E to \in {"open", "closed"} : Move(r, {"idle"}, to)
  /\ UNCHANGED <<corr, calls, claimed>>

\* A request that may go on has been sent; one that may not, perhaps.
CallOriginal(r) ==
  /\ calls[r] = 0
  /\ \E to \in {"open", "closed"}, sent \in 0..1 :
       /\ to = "open" => sent = 1
       /\ Move(r, {"open"}, to)
       /\ calls' = [calls EXCEPT ![r] = sent]
  /\ UNCHANGED <<corr, claimed>>

Claim(r) ==
  /\ phase[r] = "open"
  /\ calls[r] = 1
  /\ \A q \in claimed : corr[q] # corr[r]
  /\ claimed' = claimed \cup {r}
  /\ UNCHANGED <<corr, phase, calls>>

Clear(r) ==
  /\ r \in claimed
  /\ Move(r, {"open"}, "cleared")
  /\ UNCHANGED <<corr, calls, claimed>>

\* The corrected execution, unless it is stopped before it is sent.
CallCorrected(r) ==
  /\ Move(r, {"cleared"}, "closed")
  /\ \E sent \in 0..1 : calls' = [calls EXCEPT ![r] = @ + sent]
  /\ UNCHANGED <<corr, claimed>>

Close(r) ==
  /\ Move(r, {"open"}, "closed")
  /\ UNCHANGED <<corr, calls, claimed>>

\* A rollback takes the claim back, even when all executions are done.
Drop(r) ==
  /\ Move(r, {"open", "cleared", "closed"}, "closed")
  /\ claimed' = claimed \ {r}
  /\ UNCHANGED <<corr, calls>>

Next ==
  \E r \in Requests :
    \/ Open(r) \/ CallOriginal(r) \/ Claim(r) \/ Clear(r) \/ CallCorrected(r)
    \/ Close(r) \/ Drop(r)

Spec == Init /\ [][Next]_vars
===============================================================================
