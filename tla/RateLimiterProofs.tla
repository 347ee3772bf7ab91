--------------------------- MODULE RateLimiterProofs ---------------------------
(***************************************************************************)
(* The window of the rate limiter bounds and explains its answers, for     *)
(* every set of clients, every limit and every window.                     *)
(***************************************************************************)
EXTENDS RateLimiter, SequenceTheorems, WellFoundedInduction, TLAPS

-------------------------------------------------------------------------------
(* The eviction loop *)

\* A non-empty set of naturals has a least element (where the loop stops).
LEMMA LeastElement ==
  ASSUME NEW T \in SUBSET Nat, T # {}
  PROVE  \E m \in T : \A k \in T : m <= k
<1> DEFINE R == OpToRel(<, Nat)
<1>1. IsWellFoundedOn(R, Nat)
  BY NatLessThanWellFounded
<1>2. \A x, y \in Nat : x < y => <<x, y>> \in R
  BY DEF OpToRel
<1> HIDE DEF R
<1>3. PICK x \in T : \A y \in T : ~ (<<y, x>> \in R)
  BY <1>1, WFMin
<1>4. ASSUME NEW k \in T
      PROVE  x <= k
  <2>1. x \in Nat /\ k \in Nat
    OBVIOUS
  <2>2. ~ (k < x)
    BY <1>2, <1>3, <2>1
  <2> QED BY <2>1, <2>2
<1> QED BY <1>4

\* Where the number of evicted times is a stop of the loop of is_allowed.
StopsAt(times, k) ==
  /\ k \in 0..Len(times)
  /\ \A i \in 1..k : Expired(times[i])
  /\ k < Len(times) => ~Expired(times[k + 1])

\* The eviction loop stops, and EvictCount is where.
LEMMA EvictionStops ==
  ASSUME NEW times \in Times
  PROVE  StopsAt(times, EvictCount(times))
<1> DEFINE Stops == {k \in 0..Len(times) : k < Len(times) => ~Expired(times[k + 1])}
<1>1. Len(times) \in Nat
  BY DEF Times
<1>2. Stops \in SUBSET Nat /\ Len(times) \in Stops
  BY <1>1
<1>3. PICK m \in Stops : \A k \in Stops : m <= k
  BY <1>2, LeastElement
<1>4. ASSUME NEW i \in 1..m
      PROVE  Expired(times[i])
  <2>1. i - 1 \in 0..Len(times) /\ i - 1 < m /\ i - 1 < Len(times) /\ (i - 1) + 1 = i
    BY <1>1
  <2>2. i - 1 \notin Stops
    BY <1>2, <1>3, <2>1
  <2> QED BY <2>1, <2>2
<1>5. StopsAt(times, m)
  BY <1>1, <1>3, <1>4 DEF StopsAt
<1>6. \E k \in 0..Len(times) :
        /\ \A i \in 1..k : Expired(times[i])
        /\ k < Len(times) => ~Expired(times[k + 1])
  BY <1>5 DEF StopsAt
<1> QED BY <1>6 DEF EvictCount, StopsAt

\* What the eviction leaves is the rest of the window after the stop.
LEMMA EvictedIsSuffix ==
  ASSUME NEW times \in Times
  PROVE  /\ Evicted(times) \in Times
         /\ Len(Evicted(times)) = Len(times) - EvictCount(times)
         /\ \A i \in 1..Len(Evicted(times)) :
              Evicted(times)[i] = times[EvictCount(times) + i]
<1> DEFINE k == EvictCount(times)
<1>1. k \in 0..Len(times) /\ Len(times) \in Nat
  BY EvictionStops DEF StopsAt, Times
<1> HIDE DEF k
<1>2. \A i \in k + 1 .. Len(times) : times[i] \in Nat
  BY <1>1 DEF Times
<1>3. /\ SubSeq(times, k + 1, Len(times)) \in Seq(Nat)
      /\ Len(SubSeq(times, k + 1, Len(times)))
           = IF k + 1 <= Len(times) THEN Len(times) - (k + 1) + 1 ELSE 0
      /\ \A i \in 1 .. Len(times) - (k + 1) + 1 :
           SubSeq(times, k + 1, Len(times))[i] = times[(k + 1) + i - 1]
  <2>1. k + 1 \in Int /\ Len(times) \in Int
    BY <1>1
  <2> QED BY <1>2, <2>1, SubSeqProperties
<1>4. Len(SubSeq(times, k + 1, Len(times))) = Len(times) - k
  BY <1>1, <1>3
<1>5. ASSUME NEW i \in 1..(Len(times) - k)
      PROVE  SubSeq(times, k + 1, Len(times))[i] = times[k + i]
  <2>1. (k + 1) + i - 1 = k + i /\ i \in 1..(Len(times) - (k + 1) + 1)
    BY <1>1
  <2> QED BY <1>3, <2>1
<1> QED BY <1>3, <1>4, <1>5 DEF Evicted, Times, k

-------------------------------------------------------------------------------
(* The inductive invariant *)

\* The requests admitted are in the order of their times, none in the future.
AdmittedInOrder ==
  \A a \in Addresses :
    /\ \A i \in 1..Len(admitted[a]) : admitted[a][i] <= now
    /\ \A i, j \in 1..Len(admitted[a]) : i <= j => admitted[a][i] <= admitted[a][j]

\* A window lists all admitted requests but the first k, which expired before t.
ListsFrom(kept, times, k, t) ==
  /\ k \in 0..Len(times)
  /\ Len(kept) = Len(times) - k
  /\ \A i \in 1..Len(kept) : kept[i] = times[k + i]
  /\ \A i \in 1..k : times[i] + Window < t

\* The buckets hold what their requests left, at most MaxRequests each.
BucketsListAdmitted ==
  \A a \in Addresses :
    /\ Len(bucket[a]) <= MaxRequests
    /\ \E k \in Nat : ListsFrom(bucket[a], admitted[a], k, now)

IInv ==
  /\ TypeOK
  /\ AdmittedInOrder
  /\ BucketsListAdmitted
  /\ WindowBounded
  /\ RefusalIsJustified
  /\ RemainingIsExact

\* What is kept after the eviction is exactly what the window still counts.
LEMMA KeptIsTheWindow ==
  ASSUME LimiterAssumption, TypeOK, AdmittedInOrder, BucketsListAdmitted,
         NEW a \in Addresses
  PROVE  /\ Evicted(bucket[a]) \in Times
         /\ Len(Evicted(bucket[a])) <= MaxRequests
         /\ \E k \in Nat :
              /\ ListsFrom(Evicted(bucket[a]), admitted[a], k, now)
              /\ \A i \in 1..Len(admitted[a]) :
                   i > k => admitted[a][i] + Window >= now
<1> DEFINE times == admitted[a]
           old == bucket[a]
           e == EvictCount(old)
           kept == Evicted(old)
<1>1. times \in Times /\ old \in Times /\ now \in Nat
  BY DEF TypeOK
<1>2. Len(times) \in Nat /\ Len(old) \in Nat /\ \A i \in 1..Len(times) : times[i] \in Nat
  BY <1>1 DEF Times
<1>3. Window \in Nat /\ MaxRequests \in Nat
  BY DEF LimiterAssumption
<1>4. PICK k \in Nat : ListsFrom(old, times, k, now)
  BY DEF BucketsListAdmitted
<1>5. Len(old) <= MaxRequests
  BY DEF BucketsListAdmitted
<1>6. StopsAt(old, e)
  BY <1>1, EvictionStops
<1>7. /\ kept \in Times
      /\ Len(kept) = Len(old) - e
      /\ \A i \in 1..Len(kept) : kept[i] = old[e + i]
  BY <1>1, EvictedIsSuffix
<1>8. \A i, j \in 1..Len(times) : i <= j => times[i] <= times[j]
  BY DEF AdmittedInOrder
<1> HIDE DEF times, old, e, kept
<1>9. k + e \in Nat /\ k + e \in 0..Len(times) /\ Len(kept) = Len(times) - (k + e)
  BY <1>2, <1>4, <1>6, <1>7 DEF ListsFrom, StopsAt
<1>10. ASSUME NEW i \in 1..Len(kept)
       PROVE  kept[i] = times[(k + e) + i]
  <2>1. e + i \in 1..Len(old) /\ k + (e + i) = (k + e) + i
    BY <1>2, <1>6, <1>7, <1>9 DEF StopsAt
  <2> QED BY <1>4, <1>7, <2>1 DEF ListsFrom
<1>11. ASSUME NEW i \in 1..(k + e)
       PROVE  times[i] + Window < now
  <2>1. CASE i <= k
    BY <1>4, <2>1 DEF ListsFrom
  <2>2. CASE i > k
    <3>1. i - k \in 1..e /\ i - k \in 1..Len(old) /\ k + (i - k) = i
      BY <1>2, <1>6, <2>2 DEF StopsAt
    <3>2. Expired(old[i - k]) /\ old[i - k] = times[i]
      BY <1>4, <1>6, <3>1 DEF StopsAt, ListsFrom
    <3>3. times[i] \in Nat
      BY <1>2, <1>9
    <3> QED BY <1>1, <1>3, <3>2, <3>3 DEF Expired
  <2> QED BY <2>1, <2>2
<1>12. ASSUME NEW i \in 1..Len(times), i > k + e
       PROVE  times[i] + Window >= now
  <2>1. e < Len(old) /\ e + 1 \in 1..Len(old) /\ k + (e + 1) \in 1..Len(times) /\ k + (e + 1) <= i
    BY <1>2, <1>4, <1>6, <1>9, <1>12 DEF StopsAt, ListsFrom
  <2>2. ~Expired(old[e + 1]) /\ old[e + 1] = times[k + (e + 1)]
    BY <1>4, <1>6, <2>1 DEF StopsAt, ListsFrom
  <2>3. times[k + (e + 1)] <= times[i] /\ times[i] \in Nat /\ times[k + (e + 1)] \in Nat
    BY <1>2, <1>8, <2>1
  <2> QED BY <1>1, <1>3, <2>2, <2>3 DEF Expired
<1>13. ListsFrom(kept, times, k + e, now)
  BY <1>9, <1>10, <1>11 DEF ListsFrom
<1>14. Len(kept) <= MaxRequests
  BY <1>2, <1>3, <1>5, <1>6, <1>7 DEF StopsAt
<1> QED BY <1>7, <1>9, <1>12, <1>13, <1>14 DEF times, old, kept

-------------------------------------------------------------------------------
(* The invariant holds initially and is kept *)

\* A fresh process has admitted nothing.
LEMMA InitIInv ==
  ASSUME LimiterAssumption, Init
  PROVE  IInv
<1>1. <<>> \in Times /\ Len(<<>>) = 0
  BY DEF Times
<1>2. TypeOK
  BY <1>1 DEF Init, TypeOK
<1>3. \A a \in Addresses : bucket[a] = <<>> /\ admitted[a] = <<>>
  BY DEF Init
<1>4. AdmittedInOrder
  BY <1>3 DEF AdmittedInOrder
<1>5. BucketsListAdmitted
  <2>1. ASSUME NEW a \in Addresses
        PROVE  ListsFrom(bucket[a], admitted[a], 0, now)
    BY <1>1, <1>3 DEF ListsFrom
  <2> QED BY <1>1, <1>3, <2>1 DEF BucketsListAdmitted, LimiterAssumption
<1>6. WindowBounded
  BY <1>3 DEF WindowBounded
<1>7. RefusalIsJustified /\ RemainingIsExact
  BY DEF Init, NoVerdict, RefusalIsJustified, RemainingIsExact
<1> QED BY <1>2, <1>4, <1>5, <1>6, <1>7 DEF IInv

\* Time passes: what has expired stays expired.
LEMMA TickIInv ==
  ASSUME LimiterAssumption, IInv, Tick
  PROVE  IInv'
<1>1. /\ now \in Nat /\ now' = now + 1 /\ Window \in Nat
      /\ bucket' = bucket /\ admitted' = admitted /\ verdict' = verdict
  BY DEF IInv, TypeOK, Tick, LimiterAssumption
<1>2. TypeOK'
  BY <1>1 DEF IInv, TypeOK
<1>3. \A a \in Addresses : admitted[a] \in Times
  BY DEF IInv, TypeOK
<1>4. \A a \in Addresses : /\ Len(admitted[a]) \in Nat
                           /\ \A i \in 1..Len(admitted[a]) : admitted[a][i] \in Nat
  BY <1>3 DEF Times
<1>5. AdmittedInOrder'
  BY <1>1, <1>4 DEF IInv, AdmittedInOrder
<1>6. BucketsListAdmitted'
  <2>1. ASSUME NEW a \in Addresses, NEW k \in Nat, ListsFrom(bucket[a], admitted[a], k, now)
        PROVE  ListsFrom(bucket[a], admitted[a], k, now)'
    BY <1>1, <1>4, <2>1 DEF ListsFrom
  <2> QED BY <1>1, <2>1 DEF IInv, BucketsListAdmitted
<1>7. WindowBounded' /\ RefusalIsJustified' /\ RemainingIsExact'
  BY <1>1 DEF IInv, WindowBounded, RefusalIsJustified, RemainingIsExact
<1> QED BY <1>2, <1>5, <1>6, <1>7 DEF IInv

\* A request is admitted: it joins its bucket and the requests of its address.
LEMMA AdmitIInv ==
  ASSUME LimiterAssumption, IInv, NEW c \in Clients, Admit(c)
  PROVE  IInv'
<1>1. MaxRequests \in Nat \ {0} /\ Window \in Nat
  BY DEF LimiterAssumption
<1>2. PICK a \in Addresses, times \in Seq(Nat), kept \in Seq(Nat), t \in Nat :
        a = AddressOf[c] /\ times = admitted[a] /\ kept = Evicted(bucket[a]) /\ t = now
  <2>1. AddressOf[c] \in Addresses
    BY DEF LimiterAssumption
  <2> QED BY <2>1, KeptIsTheWindow DEF IInv, TypeOK, Times
<1>3. PICK k \in Nat : /\ ListsFrom(kept, times, k, t)
                       /\ \A i \in 1..Len(times) : i > k => times[i] + Window >= t
  BY <1>2, KeptIsTheWindow DEF IInv
<1>4. PICK n \in Nat : n = Len(times)
  OBVIOUS
<1>5. Len(kept) \in Nat /\ Len(kept) < MaxRequests /\ k \in 0..n /\ Len(kept) = n - k
  <2>1. Len(kept) \in Nat /\ k \in 0..n /\ Len(kept) = n - k
    BY <1>3, <1>4 DEF ListsFrom
  <2>2. ~(Len(kept) >= MaxRequests)
    BY <1>2 DEF Admit, Full
  <2> QED BY <1>1, <2>1, <2>2
<1>6. PICK times2 \in Seq(Nat), kept2 \in Seq(Nat) :
        times2 = Append(times, t) /\ kept2 = Append(kept, t)
  BY AppendProperties
<1>7. /\ bucket' = [bucket EXCEPT ![a] = kept2]
      /\ admitted' = [admitted EXCEPT ![a] = times2]
      /\ verdict' = [address |-> a, at |-> t, answer |-> "allowed",
                     remaining |-> Remaining(kept)]
      /\ now' = t
  BY <1>2, <1>6 DEF Admit
<1>8. /\ Len(times2) = n + 1 /\ times2[n + 1] = t
      /\ \A i \in 1..n : times2[i] = times[i]
      /\ \A i \in 1..n : times[i] \in Nat
  BY <1>4, <1>6, AppendProperties
<1>9. /\ Len(kept2) = Len(kept) + 1 /\ kept2[Len(kept) + 1] = t
      /\ \A i \in 1..Len(kept) : kept2[i] = kept[i]
  BY <1>6, AppendProperties
<1>10. /\ admitted'[a] = times2 /\ bucket'[a] = kept2
       /\ \A b \in Addresses : b # a => admitted'[b] = admitted[b] /\ bucket'[b] = bucket[b]
  BY <1>7 DEF IInv, TypeOK
<1>11. TypeOK'
  <2>1. Remaining(kept) \in Nat
    BY <1>1, <1>5 DEF Remaining
  <2>2. verdict' \in Verdict
    BY <1>7, <2>1 DEF Verdict
  <2>3. bucket' \in [Addresses -> Times] /\ admitted' \in [Addresses -> Times]
    BY <1>7 DEF IInv, TypeOK, Times
  <2> QED BY <1>7, <2>2, <2>3 DEF TypeOK
<1>12. AdmittedInOrder'
  <2>1. /\ \A i \in 1..n : times[i] <= t
        /\ \A i, j \in 1..n : i <= j => times[i] <= times[j]
    BY <1>2, <1>4 DEF IInv, AdmittedInOrder
  <2>2. \A i \in 1..n + 1 : times2[i] <= t
    BY <1>8, <2>1
  <2>3. ASSUME NEW i \in 1..n + 1, NEW j \in 1..n + 1, i <= j
        PROVE  times2[i] <= times2[j]
    <3>1. CASE j = n + 1
      BY <1>8, <2>2, <3>1
    <3>2. CASE j \in 1..n /\ i \in 1..n
      BY <1>8, <2>1, <2>3, <3>2
    <3> QED BY <2>3, <3>1, <3>2
  <2>4. ASSUME NEW b \in Addresses
        PROVE  /\ \A i \in 1..Len(admitted'[b]) : admitted'[b][i] <= now'
               /\ \A i, j \in 1..Len(admitted'[b]) : i <= j => admitted'[b][i] <= admitted'[b][j]
    <3>1. CASE b = a
      BY <1>7, <1>8, <1>10, <2>2, <2>3, <3>1
    <3>2. CASE b # a
      BY <1>2, <1>7, <1>10, <3>2 DEF IInv, AdmittedInOrder
    <3> QED BY <3>1, <3>2
  <2> QED BY <2>4 DEF AdmittedInOrder
<1>13. BucketsListAdmitted'
  <2>1. ListsFrom(kept2, times2, k, t)
    <3>1. \A i \in 1..Len(kept) : kept[i] = times[k + i] /\ k + i \in 1..n
      BY <1>3, <1>5 DEF ListsFrom
    <3>2. ASSUME NEW i \in 1..Len(kept) + 1
          PROVE  kept2[i] = times2[k + i]
      <4>1. CASE i = Len(kept) + 1
        <5>1. k + i = n + 1
          BY <1>5, <4>1
        <5> QED BY <1>8, <1>9, <4>1, <5>1
      <4>2. CASE i \in 1..Len(kept)
        BY <1>8, <1>9, <3>1, <4>2
      <4> QED BY <1>5, <4>1, <4>2
    <3>3. ASSUME NEW i \in 1..k
          PROVE  times2[i] + Window < t
      <4>1. i \in 1..n /\ times[i] + Window < t
        BY <1>3, <1>5 DEF ListsFrom
      <4> QED BY <1>8, <4>1
    <3> QED BY <1>5, <1>8, <1>9, <3>2, <3>3 DEF ListsFrom
  <2>2. Len(kept2) <= MaxRequests
    BY <1>1, <1>5, <1>9
  <2>3. ASSUME NEW b \in Addresses
        PROVE  Len(bucket'[b]) <= MaxRequests /\ \E m \in Nat : ListsFrom(bucket'[b], admitted'[b], m, t)
    <3>1. CASE b = a
      BY <1>10, <2>1, <2>2, <3>1
    <3>2. CASE b # a
      BY <1>2, <1>10, <3>2 DEF IInv, BucketsListAdmitted
    <3> QED BY <3>1, <3>2
  <2> QED BY <1>7, <2>3 DEF BucketsListAdmitted
<1>14. WindowBounded'
  <2>1. ASSUME NEW i \in 1..n + 1, NEW j \in 1..n + 1, j = i + MaxRequests
        PROVE  times2[j] > times2[i] + Window
    <3>1. CASE j <= n
      <4>1. i \in 1..n /\ j \in 1..n
        BY <1>1, <2>1, <3>1
      <4>2. \A x, y \in DOMAIN admitted[a] :
              y = x + MaxRequests => admitted[a][y] > admitted[a][x] + Window
        BY DEF IInv, WindowBounded
      <4>3. DOMAIN admitted[a] = 1..n
        BY <1>2, <1>4
      <4>4. times[j] > times[i] + Window
        BY <1>2, <2>1, <4>1, <4>2, <4>3
      <4> QED BY <1>8, <4>1, <4>4
    <3>2. CASE j = n + 1
      <4>1. i \in 1..k /\ i \in 1..n
        BY <1>1, <1>5, <2>1, <3>2
      <4>2. times[i] + Window < t
        BY <1>3, <4>1 DEF ListsFrom
      <4> QED BY <1>1, <1>8, <3>2, <4>1, <4>2
    <3> QED BY <3>1, <3>2
  <2>2. ASSUME NEW b \in Addresses
        PROVE  \A i, j \in DOMAIN admitted'[b] :
                 j = i + MaxRequests => admitted'[b][j] > admitted'[b][i] + Window
    <3>1. CASE b = a
      BY <1>8, <1>10, <2>1, <3>1
    <3>2. CASE b # a
      BY <1>10, <3>2 DEF IInv, WindowBounded
    <3> QED BY <3>1, <3>2
  <2> QED BY <2>2 DEF WindowBounded
<1>15. RefusalIsJustified'
  BY <1>7 DEF RefusalIsJustified
<1>16. RemainingIsExact'
  <2>1. DOMAIN times2 = 1..n + 1 /\ k + 1 \in 1..n + 1
    BY <1>5, <1>8
  <2>2. ASSUME NEW i \in 1..n + 1
        PROVE  times2[i] + Window >= t <=> i > k
    <3>1. CASE i = n + 1
      BY <1>1, <1>5, <1>8, <3>1
    <3>2. CASE i \in 1..n /\ i <= k
      <4>1. times[i] + Window < t
        BY <1>3, <3>2 DEF ListsFrom
      <4> QED BY <1>1, <1>8, <3>2, <4>1
    <3>3. CASE i \in 1..n /\ i > k
      BY <1>3, <1>4, <1>8, <3>3
    <3> QED BY <1>5, <3>1, <3>2, <3>3
  <2>3. {i \in 1..n + 1 : times2[i] + Window >= t} = k + 1 .. n + 1
    BY <1>5, <2>2
  <2>4. Remaining(kept) = MaxRequests - (Len(times2) - (k + 1) + 1)
    BY <1>1, <1>5, <1>8 DEF Remaining
  <2> QED BY <1>7, <1>8, <1>10, <2>1, <2>3, <2>4 DEF RemainingIsExact
<1> QED BY <1>11, <1>12, <1>13, <1>14, <1>15, <1>16 DEF IInv

\* A request is refused: its bucket only loses what has expired.
LEMMA RefuseIInv ==
  ASSUME LimiterAssumption, IInv, NEW c \in Clients, Refuse(c)
  PROVE  IInv'
<1>1. MaxRequests \in Nat \ {0} /\ Window \in Nat
  BY DEF LimiterAssumption
<1>2. PICK a \in Addresses, times \in Seq(Nat), kept \in Seq(Nat), t \in Nat :
        a = AddressOf[c] /\ times = admitted[a] /\ kept = Evicted(bucket[a]) /\ t = now
  <2>1. AddressOf[c] \in Addresses
    BY DEF LimiterAssumption
  <2> QED BY <2>1, KeptIsTheWindow DEF IInv, TypeOK, Times
<1>3. PICK k \in Nat : /\ ListsFrom(kept, times, k, t)
                       /\ \A i \in 1..Len(times) : i > k => times[i] + Window >= t
  BY <1>2, KeptIsTheWindow DEF IInv
<1>4. Len(kept) <= MaxRequests /\ Len(kept) >= MaxRequests
  BY <1>2, KeptIsTheWindow DEF IInv, Refuse, Full
<1>5. /\ bucket' = [bucket EXCEPT ![a] = kept]
      /\ verdict' = [address |-> a, at |-> t, answer |-> "refused", remaining |-> 0]
      /\ now' = now /\ admitted' = admitted
  BY <1>2 DEF Refuse, AfterRefusal
<1>6. bucket'[a] = kept /\ \A b \in Addresses : b # a => bucket'[b] = bucket[b]
  BY <1>5 DEF IInv, TypeOK
<1>7. TypeOK'
  <2>1. verdict' \in Verdict
    BY <1>5 DEF Verdict
  <2> QED BY <1>5, <2>1 DEF IInv, TypeOK, Times
<1>8. AdmittedInOrder' /\ WindowBounded'
  BY <1>5 DEF IInv, AdmittedInOrder, WindowBounded
<1>9. BucketsListAdmitted'
  <2>1. ASSUME NEW b \in Addresses
        PROVE  /\ Len(bucket'[b]) <= MaxRequests
               /\ \E m \in Nat : ListsFrom(bucket'[b], admitted[b], m, now)
    <3>1. CASE b = a
      BY <1>2, <1>3, <1>4, <1>6, <3>1
    <3>2. CASE b # a
      BY <1>6, <3>2 DEF IInv, BucketsListAdmitted
    <3> QED BY <3>1, <3>2
  <2> QED BY <1>5, <2>1 DEF BucketsListAdmitted
<1>10. RefusalIsJustified'
  <2>1. /\ Len(times) >= MaxRequests
        /\ Len(times) - MaxRequests + 1 \in 1..Len(times)
        /\ Len(times) - MaxRequests + 1 > k
    BY <1>1, <1>3, <1>4 DEF ListsFrom
  <2>2. times[Len(times) - MaxRequests + 1] + Window >= t
    BY <1>3, <2>1
  <2> QED BY <1>2, <1>5, <2>1, <2>2 DEF RefusalIsJustified
<1>11. RemainingIsExact'
  BY <1>5 DEF RemainingIsExact
<1> QED BY <1>7, <1>8, <1>9, <1>10, <1>11 DEF IInv

-------------------------------------------------------------------------------
(* The theorems *)

\* Every reachable state satisfies the inductive invariant.
LEMMA Invariant == Spec => []IInv
<1>1. Init => IInv
  BY InitIInv, LimiterAssumption
<1>2. IInv /\ [Next]_vars => IInv'
  <2>1. SUFFICES ASSUME IInv, [Next]_vars PROVE IInv'
    OBVIOUS
  <2>2. CASE Tick
    BY <2>1, <2>2, TickIInv, LimiterAssumption
  <2>3. ASSUME NEW c \in Clients, Admit(c) PROVE IInv'
    BY <2>1, <2>3, AdmitIInv, LimiterAssumption
  <2>4. ASSUME NEW c \in Clients, Refuse(c) PROVE IInv'
    BY <2>1, <2>4, RefuseIInv, LimiterAssumption
  <2>5. CASE UNCHANGED vars
    BY <2>1, <2>5 DEF vars, IInv, TypeOK, AdmittedInOrder, BucketsListAdmitted, ListsFrom,
                      WindowBounded, RefusalIsJustified, RemainingIsExact
  <2> QED BY <2>1, <2>2, <2>3, <2>4, <2>5 DEF Next
<1> QED BY <1>1, <1>2, PTL DEF Spec

\* Every state of the limiter has the types of TypeOK (auth/middleware.py).
THEOREM TypeCorrectness == Spec => []TypeOK
BY Invariant, PTL DEF IInv

\* is_allowed never admits more than MaxRequests requests of an address within a
\* window, wherever the window begins.
THEOREM WindowIsBounded == Spec => []WindowBounded
BY Invariant, PTL DEF IInv

\* A 429 answer always has MaxRequests admitted requests of its address within the
\* last window: refused requests never count against a client.
THEOREM RefusalsAreJustified == Spec => []RefusalIsJustified
BY Invariant, PTL DEF IInv

\* The X-RateLimit-Remaining value is what the window still admits.
THEOREM RemainingCountIsExact == Spec => []RemainingIsExact
BY Invariant, PTL DEF IInv
===============================================================================
