------------------------------ MODULE RateLimiter ------------------------------
(***************************************************************************)
(* auth/middleware.py: the sliding window over the requests of a client    *)
(* address, in the memory of one process.  is_allowed has no await, so a   *)
(* request is one step; the clock (time.monotonic) never goes back, and    *)
(* several requests may come at one instant.                               *)
(***************************************************************************)
EXTENDS Integers, Sequences

CONSTANTS
  Clients,     \* the senders of requests
  Addresses,
  AddressOf,   \* clients without an address share "unknown"
  MaxRequests, \* _RATE_LIMIT_REQUESTS
  Window,      \* _RATE_LIMIT_WINDOW_SECONDS
  MaxTime      \* bound on the clock

ASSUME LimiterAssumption ==
  /\ AddressOf \in [Clients -> Addresses]
  /\ MaxRequests \in Nat \ {0}
  /\ Window \in Nat
  /\ MaxTime \in Nat

VARIABLES
  now,
  bucket,    \* [address -> the times of the requests still counted]
  admitted,  \* ghost: [address -> the times of all requests admitted]
  verdict    \* the last answer

vars == <<now, bucket, admitted, verdict>>

Times == Seq(Nat)
Verdict == [address : Addresses, at : Nat, answer : {"allowed", "refused"}, remaining : Nat]
NoVerdict == [answer |-> "none"]

TypeOK ==
  /\ now \in Nat
  /\ bucket \in [Addresses -> Times]
  /\ admitted \in [Addresses -> Times]
  /\ verdict \in Verdict \cup {NoVerdict}

Init ==
  /\ now = 0
  /\ bucket = [a \in Addresses |-> <<>>]
  /\ admitted = [a \in Addresses |-> <<>>]
  /\ verdict = NoVerdict

Tick ==
  /\ now < MaxTime
  /\ now' = now + 1
  /\ UNCHANGED <<bucket, admitted, verdict>>

\* Mutated form: a request exactly one window old is evicted.
Expired_AtBoundary(time) == time <= now - Window

Expired(time) == time < now - Window

\* How many the eviction loop removes: it stops at the first that has not expired.
EvictCount(times) ==
  CHOOSE k \in 0..Len(times) :
    /\ \A i \in 1..k : Expired(times[i])
    /\ k < Len(times) => ~Expired(times[k + 1])

Evicted(times) == SubSeq(times, EvictCount(times) + 1, Len(times))

\* Mutated form: what was left before this request.
Remaining_Before(kept) == MaxRequests - Len(kept)

Remaining(kept) == MaxRequests - (Len(kept) + 1)

\* Mutated form: one request more.
Full_Late(kept) == Len(kept) > MaxRequests

Full(kept) == Len(kept) >= MaxRequests

Admit(c) ==
  LET a == AddressOf[c]
      kept == Evicted(bucket[a])
  IN  /\ ~Full(kept)
      /\ bucket' = [bucket EXCEPT ![a] = Append(kept, now)]
      /\ admitted' = [admitted EXCEPT ![a] = Append(@, now)]
      /\ verdict' = [address |-> a, at |-> now, answer |-> "allowed",
                     remaining |-> Remaining(kept)]
      /\ UNCHANGED now

\* Mutated form: a refused request is counted as well.
AfterRefusal_Counted(kept) == Append(kept, now)

AfterRefusal(kept) == kept

\* Status 429: the request is not counted.
Refuse(c) ==
  LET a == AddressOf[c]
      kept == Evicted(bucket[a])
  IN  /\ Full(kept)
      /\ bucket' = [bucket EXCEPT ![a] = AfterRefusal(kept)]
      /\ verdict' = [address |-> a, at |-> now, answer |-> "refused", remaining |-> 0]
      /\ UNCHANGED <<now, admitted>>

Next == Tick \/ \E c \in Clients : Admit(c) \/ Refuse(c)

Spec == Init /\ [][Next]_vars

-------------------------------------------------------------------------------
(* Properties *)

\* No window holds more admitted requests than allowed, wherever it begins: the
\* request MaxRequests after another comes more than a window later.
WindowBounded ==
  \A a \in Addresses : \A i, j \in DOMAIN admitted[a] :
    j = i + MaxRequests => admitted[a][j] > admitted[a][i] + Window

\* A refused client has MaxRequests admitted requests in the window that ends with
\* its request, so waiting longer than a window without requests is enough.
RefusalIsJustified ==
  verdict.answer = "refused" =>
    LET times == admitted[verdict.address]
    IN  /\ Len(times) >= MaxRequests
        /\ times[Len(times) - MaxRequests + 1] + Window >= verdict.at

\* The remaining count an answer carries is what the window still admits: with so
\* many more at that instant it is full, none of them is refused.
RemainingIsExact ==
  verdict.answer = "allowed" =>
    LET times == admitted[verdict.address]
        counted == {i \in DOMAIN times : times[i] + Window >= verdict.at}
    IN  \E first \in DOMAIN times :
          /\ counted = first .. Len(times)
          /\ verdict.remaining = MaxRequests - (Len(times) - first + 1)
===============================================================================
