------------------------ MODULE UpstreamExecutionProofs ------------------------
(***************************************************************************)
(* Theorems about UpstreamExecution, for every value of its constants: any *)
(* clients, URLs, hosts, corrections and redirect limit.                   *)
(***************************************************************************)
EXTENDS UpstreamExecution, FiniteSetTheorems, TLAPS

-------------------------------------------------------------------------------
(* The inductive invariant *)

Failures == {"http_error", "transport_error"}

\* What each stage says of the attempt, the loop variables and the replies.
StageOK ==
  /\ pc = "normalize" => attempt = 1
  /\ pc \in {"normalize", "check"} =>
       left = MaxRedirects /\ ~stripped /\ method = client.method
  /\ pc = "apply" => attempt = 1
  /\ pc \in {"normalize", "check", "send"} => replies[attempt] = None
  /\ pc \in {"failed", "apply"} => replies[attempt] \in Failures
  /\ attempt = 1 => replies[2] = None
  /\ attempt = 2 => replies[1] \in Failures

\* How many requests each execution has sent.
CountOK ==
  /\ \A a \in 1..2 : Cardinality(SentBy(a)) <= MaxRedirects + 1
  /\ pc \in {"normalize", "check", "send"} =>
       Cardinality(SentBy(attempt)) = MaxRedirects - left
  /\ \A i \in DOMAIN sent : sent[i].attempt <= attempt
  /\ \A a \in 1..2 :
       /\ replies[a] = "blocked" => SentBy(a) = {}
       /\ replies[a] \in Replies \ {"blocked"} => SentBy(a) # {}

\* Every URL that was sent to, or is about to be, has been validated.
DestinationOK ==
  /\ \A i \in DOMAIN sent : HostAccepted(sent[i].url)
  /\ \A i \in DOMAIN sent : sent[i].attempt = attempt => sent[i].url \in cleared
  /\ \A u \in cleared : HostAccepted(u)
  /\ pc = "send" => url \in cleared

Normal == Normalized(client.fields)

\* A part after the first k changes: it is made of what normalization left.
MadeBy(f, p, k) ==
  /\ Range(f) \subseteq Range(Normal[p])
  /\ IsFiniteSet(DOMAIN f)
  /\ Cardinality(DOMAIN f) <= Cardinality(DOMAIN Normal[p])
  /\ DOMAIN Normal[p] \ DOMAIN f \subseteq
       {changes[i].field : i \in {j \in 1..k : changes[j].place = p}}

FieldsOK ==
  /\ pc # "normalize" /\ attempt = 1 => fields = Normal
  /\ pc = "apply" => \A p \in Places : MadeBy(draft[p], p, turn)
  /\ attempt = 2 => \A p \in Places : MadeBy(fields[p], p, Len(changes))

\* What the current execution has sent up to now, against what it sends next.
PayloadOK ==
  /\ stripped => method = "GET"
  /\ ~stripped => method = client.method
  /\ \A i \in DOMAIN sent :
       /\ sent[i].attempt = attempt =>
            /\ sent[i].fields["headers"] = fields["headers"]
            /\ ~stripped => sent[i].fields = fields /\ sent[i].method = method
       /\ sent[i].method # client.method => WithoutPayload(sent[i].fields)

IInv ==
  /\ TypeOK /\ StageOK /\ CountOK /\ DestinationOK /\ FieldsOK /\ PayloadOK
  /\ PayloadNeverComesBack /\ SecretsStayOut

-------------------------------------------------------------------------------
(* The operators on the parts of a request *)

Marked == Values \cup {Redacted}

\* A part of a request is a function from some names to values or the mark.
LEMMA FieldsOverIn ==
  ASSUME NEW S \in SUBSET Names, NEW f \in [S -> Marked]
  PROVE  f \in FieldsOver(Names)
  BY DEF FieldsOver, Marked

LEMMA FieldsOverOut ==
  ASSUME NEW f \in FieldsOver(Names)
  PROVE  f \in [DOMAIN f -> Marked] /\ DOMAIN f \in SUBSET Names
  BY DEF FieldsOver, Marked

LEMMA EmptyType == Empty \in FieldsOver(Names)
<1>1. Empty \in [{} -> Marked]
  BY DEF Empty
<1>2. QED
  BY <1>1, FieldsOverIn

\* Redaction keeps the names and leaves the mark or a value that is not secret.
LEMMA RedactKeeps ==
  ASSUME NEW f \in FieldsOver(Names), NEW secrets
  PROVE  /\ Redact(f, secrets) \in FieldsOver(Names)
         /\ DOMAIN Redact(f, secrets) = DOMAIN f
         /\ Range(Redact(f, secrets)) \subseteq
              {Redacted} \cup {f[n] : n \in DOMAIN f \ secrets}
<1>1. f \in [DOMAIN f -> Marked] /\ DOMAIN f \in SUBSET Names
  BY FieldsOverOut
<1>2. Redact(f, secrets) \in [DOMAIN f -> Marked]
  BY <1>1 DEF Redact, Marked
<1>3. Redact(f, secrets) \in FieldsOver(Names)
  BY <1>1, <1>2, FieldsOverIn
<1>4. QED
  BY <1>3 DEF Redact, Range

\* Renaming a field moves its value; it may overwrite the field of the new name.
LEMMA RenamedKeeps ==
  ASSUME NEW f \in FieldsOver(Names), NEW old \in DOMAIN f, NEW new \in Names
  PROVE  /\ Renamed(f, old, new) \in FieldsOver(Names)
         /\ DOMAIN Renamed(f, old, new) = (DOMAIN f \ {old}) \cup {new}
         /\ Range(Renamed(f, old, new)) \subseteq Range(f)
<1>1. f \in [DOMAIN f -> Marked] /\ DOMAIN f \in SUBSET Names
  BY FieldsOverOut
<1>2. Renamed(f, old, new) \in [(DOMAIN f \ {old}) \cup {new} -> Marked]
  BY <1>1 DEF Renamed
<1>3. (DOMAIN f \ {old}) \cup {new} \in SUBSET Names
  BY <1>1
<1>4. Renamed(f, old, new) \in FieldsOver(Names)
  BY <1>2, <1>3, FieldsOverIn
<1>5. QED
  BY <1>4 DEF Renamed, Range

\* Removing fields leaves a part, with the remaining values.
LEMMA RestrictKeeps ==
  ASSUME NEW f \in FieldsOver(Names), NEW S \in SUBSET DOMAIN f
  PROVE  /\ Restrict(f, S) \in FieldsOver(Names)
         /\ DOMAIN Restrict(f, S) = S
         /\ Range(Restrict(f, S)) \subseteq Range(f)
<1>1. f \in [DOMAIN f -> Marked] /\ DOMAIN f \in SUBSET Names
  BY FieldsOverOut
<1>2. Restrict(f, S) \in [S -> Marked] /\ S \in SUBSET Names
  BY <1>1 DEF Restrict
<1>3. Restrict(f, S) \in FieldsOver(Names)
  BY <1>2, FieldsOverIn
<1>4. QED
  BY <1>3 DEF Restrict, Range

\* A part that has lost a field, and has gained at most one with a value it had.
Exchanged(before, after, field) ==
  /\ field \in DOMAIN before
  /\ Range(after) \subseteq Range(before)
  /\ \E extra \in SUBSET Names :
       /\ extra = {} \/ \E n \in Names : extra = {n}
       /\ DOMAIN after = (DOMAIN before \ {field}) \cup extra

\* One turn of _apply_candidate's loop changes at most the part the change names:
\* it drops the field and may write one more name, with a value that was there.
LEMMA ApplyChangeKeeps ==
  ASSUME NEW parts \in [Places -> FieldsOver(Names)], NEW c \in Change
  PROVE  /\ ApplyChange(parts, c) \in [Places -> FieldsOver(Names)]
         /\ \A p \in Places :
              \/ ApplyChange(parts, c)[p] = parts[p]
              \/ p = c.place /\ Exchanged(parts[p], ApplyChange(parts, c)[p], c.field)
<1> DEFINE p == c.place
           renames == /\ c.action = "parameter_rename" /\ c.to # None
                      /\ c.field \in DOMAIN parts[p]
           removes == /\ c.action = "remove_optional_field" /\ p # "headers"
                      /\ c.field \in DOMAIN parts[p]
<1>1. p \in Places /\ parts[p] \in FieldsOver(Names) /\ c.to \in Names \cup {None}
  BY DEF Change
<1>2. CASE renames
  <2>1. ApplyChange(parts, c) = [parts EXCEPT ![p] = Renamed(@, c.field, c.to)]
    BY <1>2 DEF ApplyChange
  <2>2. c.to \in Names
    BY <1>1, <1>2
  <2>3. /\ Renamed(parts[p], c.field, c.to) \in FieldsOver(Names)
        /\ DOMAIN Renamed(parts[p], c.field, c.to) = (DOMAIN parts[p] \ {c.field}) \cup {c.to}
        /\ Range(Renamed(parts[p], c.field, c.to)) \subseteq Range(parts[p])
    BY <1>1, <1>2, <2>2, RenamedKeeps
  <2>4. /\ {c.to} \in SUBSET Names
        /\ ApplyChange(parts, c)[p] = Renamed(parts[p], c.field, c.to)
        /\ \A q \in Places \ {p} : ApplyChange(parts, c)[q] = parts[q]
    BY <1>1, <2>1, <2>2
  <2>5. ApplyChange(parts, c) \in [Places -> FieldsOver(Names)]
    BY <2>1, <2>3
  <2>6. Exchanged(parts[p], ApplyChange(parts, c)[p], c.field)
    BY <1>2, <2>2, <2>3, <2>4 DEF Exchanged
  <2>7. QED
    BY <2>4, <2>5, <2>6
<1>3. CASE ~renames /\ removes
  <2> DEFINE S == DOMAIN parts[p] \ {c.field}
  <2>1. ApplyChange(parts, c) = [parts EXCEPT ![p] = Restrict(@, DOMAIN @ \ {c.field})]
    BY <1>3 DEF ApplyChange
  <2>2. S \in SUBSET DOMAIN parts[p]
    OBVIOUS
  <2>3. /\ Restrict(parts[p], S) \in FieldsOver(Names)
        /\ DOMAIN Restrict(parts[p], S) = S
        /\ Range(Restrict(parts[p], S)) \subseteq Range(parts[p])
    BY <1>1, <2>2, RestrictKeeps
  <2>4. /\ ApplyChange(parts, c)[p] = Restrict(parts[p], S)
        /\ \A q \in Places \ {p} : ApplyChange(parts, c)[q] = parts[q]
    BY <1>1, <2>1
  <2>5. ApplyChange(parts, c) \in [Places -> FieldsOver(Names)]
    BY <2>1, <2>3
  <2>6. S = S \cup {} /\ {} \in SUBSET Names
    OBVIOUS
  <2>7. Exchanged(parts[p], ApplyChange(parts, c)[p], c.field)
    BY <1>3, <2>3, <2>4, <2>6 DEF Exchanged
  <2>8. QED
    BY <2>4, <2>5, <2>7
<1>4. CASE ~renames /\ ~removes
  <2>1. ApplyChange(parts, c) = parts
    BY <1>4 DEF ApplyChange
  <2>2. QED
    BY <2>1
<1>5. QED
  BY <1>2, <1>3, <1>4

\* Dropping one name and adding at most one does not make a finite set larger.
LEMMA ExchangeCardinality ==
  ASSUME NEW D, NEW x \in D, NEW extra, IsFiniteSet(D), extra = {} \/ \E n : extra = {n}
  PROVE  /\ IsFiniteSet((D \ {x}) \cup extra)
         /\ Cardinality((D \ {x}) \cup extra) <= Cardinality(D)
<1>1. /\ IsFiniteSet(D \ {x}) /\ Cardinality(D \ {x}) = Cardinality(D) - 1
      /\ Cardinality(D) \in Nat
  BY FS_RemoveElement, FS_CardinalityType
<1>2. CASE extra = {}
  <2>1. (D \ {x}) \cup extra = D \ {x}
    BY <1>2
  <2>2. QED
    BY <1>1, <2>1
<1>3. CASE \E n : extra = {n}
  <2>1. PICK n : extra = {n}
    BY <1>3
  <2>2. /\ IsFiniteSet((D \ {x}) \cup {n})
        /\ Cardinality((D \ {x}) \cup {n}) =
             IF n \in D \ {x} THEN Cardinality(D \ {x}) ELSE Cardinality(D \ {x}) + 1
    BY <1>1, FS_AddElement
  <2>3. QED
    BY <1>1, <2>1, <2>2
<1>4. QED
  BY <1>2, <1>3

-------------------------------------------------------------------------------
(* What normalization leaves *)

SecretsOf(p) == IF p = "headers" THEN SecretHeaders ELSE SecretParams

\* The mark, and what the client gave to names that are not secret.
Plain(p) ==
  {Redacted} \cup {client.fields[p][n] : n \in DOMAIN client.fields[p] \ SecretsOf(p)}

\* Normalization leaves only the mark and values of names that are not secret.
LEMMA NormalKeeps ==
  ASSUME client \in ClientRequests
  PROVE  /\ client.fields \in [Places -> FieldsOver(Names)] /\ client.method \in Methods
         /\ Normal \in [Places -> FieldsOver(Names)]
         /\ \A p \in Places : /\ IsFiniteSet(DOMAIN Normal[p])
                              /\ Range(Normal[p]) \subseteq Plain(p)
<1>1. client.fields \in [Places -> FieldsOver(Names)] /\ client.method \in Methods
  BY ExecutionAssumption
<1>2. \A p \in Places : Normal[p] = Redact(client.fields[p], SecretsOf(p))
  BY DEF Normal, Normalized, SecretsOf
<1>3. ASSUME NEW p \in Places
      PROVE  /\ Normal[p] \in FieldsOver(Names)
             /\ IsFiniteSet(DOMAIN Normal[p]) /\ Range(Normal[p]) \subseteq Plain(p)
  <2>1. client.fields[p] \in FieldsOver(Names)
    BY <1>1
  <2>2. IsFiniteSet(DOMAIN client.fields[p])
    BY ExecutionAssumption
  <2>3. QED
    BY <1>2, <2>1, <2>2, RedactKeeps DEF Plain
<1>4. Normal = [p \in Places |-> Normal[p]]
  BY DEF Normal, Normalized
<1>5. QED
  BY <1>1, <1>3, <1>4

\* Before any change a part is what normalization left.
LEMMA MadeByNothing ==
  ASSUME NEW p \in Places, client \in ClientRequests
  PROVE  MadeBy(Normal[p], p, 0)
<1>1. IsFiniteSet(DOMAIN Normal[p]) /\ Cardinality(DOMAIN Normal[p]) \in Nat
  BY NormalKeeps, FS_CardinalityType
<1>2. QED
  BY <1>1 DEF MadeBy

\* Each further change keeps a part made of what normalization left.
LEMMA MadeByNext ==
  ASSUME NEW p \in Places, client \in ClientRequests, NEW k \in Nat,
         changes \in Seq(Change), k < Len(changes),
         NEW parts \in [Places -> FieldsOver(Names)], MadeBy(parts[p], p, k)
  PROVE  MadeBy(ApplyChange(parts, changes[k + 1])[p], p, k + 1)
<1> DEFINE c     == changes[k + 1]
           after == ApplyChange(parts, c)[p]
           lost(n) == {changes[i].field : i \in {j \in 1..n : changes[j].place = p}}
<1>1. c \in Change
  OBVIOUS
<1>2. lost(k) \subseteq lost(k + 1) /\ (p = c.place => c.field \in lost(k + 1))
  OBVIOUS
<1>3. CASE after = parts[p]
  BY <1>2, <1>3 DEF MadeBy
<1>4. CASE p = c.place /\ Exchanged(parts[p], after, c.field)
  <2>1. PICK extra \in SUBSET Names :
          /\ extra = {} \/ \E n \in Names : extra = {n}
          /\ DOMAIN after = (DOMAIN parts[p] \ {c.field}) \cup extra
    BY <1>4 DEF Exchanged
  <2> HIDE DEF c, after
  <2>2. IsFiniteSet(DOMAIN parts[p]) /\ Cardinality(DOMAIN parts[p]) \in Nat
    BY FS_CardinalityType DEF MadeBy
  <2>3. IsFiniteSet(DOMAIN after) /\ Cardinality(DOMAIN after) <= Cardinality(DOMAIN parts[p])
    <3>1. extra = {} \/ \E n : extra = {n}
      BY <2>1
    <3>2. c.field \in DOMAIN parts[p]
      BY <1>4 DEF Exchanged
    <3>3. /\ IsFiniteSet((DOMAIN parts[p] \ {c.field}) \cup extra)
          /\ Cardinality((DOMAIN parts[p] \ {c.field}) \cup extra)
               <= Cardinality(DOMAIN parts[p])
      BY <2>2, <3>1, <3>2, ExchangeCardinality
    <3>4. QED
      BY <2>1, <3>3
  <2>4. Cardinality(DOMAIN after) \in Nat /\ Cardinality(DOMAIN Normal[p]) \in Nat
    BY <2>3, NormalKeeps, FS_CardinalityType
  <2>5. Cardinality(DOMAIN after) <= Cardinality(DOMAIN Normal[p])
    BY <2>2, <2>3, <2>4 DEF MadeBy
  <2>6. Range(after) \subseteq Range(Normal[p])
    BY <1>4 DEF MadeBy, Exchanged
  <2>7. DOMAIN Normal[p] \ DOMAIN after \subseteq lost(k + 1)
    <3>1. DOMAIN Normal[p] \ DOMAIN parts[p] \subseteq lost(k)
      BY DEF MadeBy
    <3>2. DOMAIN parts[p] \ DOMAIN after \subseteq {c.field}
      BY <2>1
    <3>3. QED
      BY <1>2, <1>4, <3>1, <3>2
  <2>8. QED
    BY <2>3, <2>5, <2>6, <2>7 DEF MadeBy, after, c
<1>5. after = parts[p] \/ (p = c.place /\ Exchanged(parts[p], after, c.field))
  BY <1>1, ApplyChangeKeeps
<1>6. QED
  BY <1>3, <1>4, <1>5

LEMMA ChangesType == changes \in Corrections \cup {Empty} => changes \in Seq(Change)
<1>1. Empty \in Seq(Change)
  BY DEF Empty
<1>2. QED
  BY <1>1, ExecutionAssumption

-------------------------------------------------------------------------------
(* The initial states *)

LEMMA InitIInv == Init => IInv
<1> SUFFICES ASSUME Init PROVE IInv
  OBVIOUS
<1>0. /\ client.fields \in [Places -> FieldsOver(Names)] /\ client.method \in Methods
      /\ Len(Empty) = 0 /\ DOMAIN sent = {}
  BY NormalKeeps DEF Init, Empty
<1>1. TypeOK
  <2>1. changes \in Corrections \cup {Empty} /\ turn \in 0..Len(changes)
    BY <1>0 DEF Init
  <2>2. draft \in [Places -> FieldsOver(Names)]
    BY EmptyType DEF Init
  <2>3. url \in Urls /\ left \in 0..MaxRedirects /\ cleared \subseteq Urls
    BY ExecutionAssumption DEF Init
  <2>4. sent \in Seq(Sent) /\ replies \in [1..2 -> Replies \cup {None}]
    BY DEF Init
  <2>5. QED
    <3>1. method \in Methods \cup {"GET"} /\ fields \in [Places -> FieldsOver(Names)]
      BY <1>0 DEF Init
    <3>2. attempt \in 1..2 /\ client \in ClientRequests /\ pc = "normalize"
      BY DEF Init
    <3>3. stripped \in BOOLEAN
      BY Zenon DEF Init
    <3>4. QED
      BY <2>1, <2>2, <2>3, <2>4, <3>1, <3>2, <3>3 DEF TypeOK
<1>2. \A a \in 1..2 : SentBy(a) = {}
  BY <1>0 DEF SentBy
<1>3. CountOK
  <2>1. /\ \A a \in 1..2 : Cardinality(SentBy(a)) = 0
        /\ attempt \in 1..2 /\ left = MaxRedirects /\ MaxRedirects \in Nat
    <3>1. \A a \in 1..2 : Cardinality(SentBy(a)) = 0
      BY <1>2, FS_EmptySet
    <3>2. QED
      BY <3>1, ExecutionAssumption DEF Init
  <2>2. \A a \in 1..2 : replies[a] \notin Replies /\ replies[a] # "blocked"
    BY DEF Init, Replies, None
  <2>3. QED
    BY <1>0, <1>2, <2>1, <2>2 DEF CountOK
<1>4. StageOK /\ DestinationOK /\ FieldsOK /\ PayloadOK
  BY <1>0 DEF Init, StageOK, DestinationOK, FieldsOK, PayloadOK
<1>5. PayloadNeverComesBack /\ SecretsStayOut
  BY <1>0 DEF PayloadNeverComesBack, SecretsStayOut
<1>6. QED
  BY <1>1, <1>3, <1>4, <1>5 DEF IInv

-------------------------------------------------------------------------------
(* The steps that send nothing *)

\* The requests an execution has sent can be counted.
LEMMA SentFinite ==
  ASSUME TypeOK, NEW a \in 1..2
  PROVE  /\ IsFiniteSet(SentBy(a)) /\ Cardinality(SentBy(a)) \in Nat
         /\ SentBy(a) \subseteq 1..Len(sent)
<1>1. SentBy(a) \in SUBSET (1..Len(sent)) /\ Len(sent) \in Nat
  BY DEF TypeOK, SentBy
<1>2. IsFiniteSet(1..Len(sent))
  BY <1>1, FS_Interval
<1>3. QED
  BY <1>1, <1>2, FS_Subset, FS_CardinalityType

\* Until the correction is sent every request belongs to the first execution.
LEMMA SentFirst ==
  ASSUME IInv, attempt = 1
  PROVE  /\ \A i \in DOMAIN sent : sent[i].attempt = 1
         /\ SentBy(2) = {}
<1>1. \A i \in DOMAIN sent : sent[i] \in Sent
  BY DEF IInv, TypeOK
<1>2. \A i \in DOMAIN sent : sent[i].attempt \in 1..2
  BY <1>1 DEF Sent
<1>3. \A i \in DOMAIN sent : sent[i].attempt <= 1
  BY DEF IInv, CountOK
<1>4. \A i \in DOMAIN sent : sent[i].attempt = 1
  BY <1>2, <1>3
<1>5. QED
  BY <1>4 DEF SentBy

\* A step that sends nothing leaves all that is said of the requests sent.
LEMMA NothingSent ==
  ASSUME IInv, UNCHANGED <<client, sent>>
  PROVE  /\ PayloadNeverComesBack' /\ SecretsStayOut'
         /\ \A a \in 1..2 : SentBy(a)' = SentBy(a)
         /\ Normal' = Normal
  BY SMTT(30) DEF IInv, PayloadNeverComesBack, SecretsStayOut, SentBy, Normal, Normalized, Redact,
     WithoutPayload, Range

\* normalize_request comes before anything is sent.
LEMMA NormalizeStep ==
  ASSUME IInv, Normalize
  PROVE  IInv'
<1>0. /\ TypeOK /\ UNCHANGED <<client, attempt, correction, loop, cleared, sent, replies>>
      /\ pc = "normalize" /\ pc' = "check" /\ fields' = Normal
  BY DEF IInv, Normalize, Normal
<1>1. /\ PayloadNeverComesBack' /\ SecretsStayOut' /\ Normal' = Normal
      /\ \A a \in 1..2 : SentBy(a)' = SentBy(a)
  BY <1>0, NothingSent DEF IInv
<1>2. attempt = 1 /\ Cardinality(SentBy(1)) = 0
  BY <1>0, ExecutionAssumption DEF IInv, StageOK, CountOK
<1>3. DOMAIN sent = {}
  <2>1. SentBy(1) = {}
    BY <1>0, <1>2, SentFinite, FS_EmptySet
  <2>2. \A i \in DOMAIN sent : sent[i].attempt = 1
    BY <1>2, SentFirst
  <2>3. QED
    BY <2>1, <2>2 DEF SentBy
<1>4. TypeOK'
  BY <1>0, NormalKeeps DEF TypeOK, loop, correction
<1>5. StageOK' /\ DestinationOK'
  BY <1>0 DEF IInv, StageOK, DestinationOK, HostAccepted, loop
<1>6. CountOK'
  BY <1>0, <1>1 DEF IInv, CountOK, TypeOK, loop
<1>7. FieldsOK'
  BY <1>0, <1>1, <1>2 DEF FieldsOK
<1>8. PayloadOK'
  BY <1>0, <1>3 DEF IInv, PayloadOK, loop
<1>9. QED
  BY <1>1, <1>4, <1>5, <1>6, <1>7, <1>8 DEF IInv

\* The steps that leave the fields and the loop alone, too.
LEMMA PauseStep ==
  ASSUME IInv, GiveUp \/ CheckStart \/ CheckRefuses
  PROVE  IInv'
<1>0. /\ TypeOK /\ UNCHANGED <<client, attempt, changes, turn, draft, fields, url, method,
                               stripped, left, sent>>
  BY DEF IInv, GiveUp, CheckStart, CheckRefuses, loop, correction
<1>1. /\ PayloadNeverComesBack' /\ SecretsStayOut' /\ Normal' = Normal
      /\ \A a \in 1..2 : SentBy(a)' = SentBy(a)
  BY <1>0, NothingSent DEF IInv
<1>2. PayloadOK'
  BY <1>0 DEF IInv, PayloadOK, WithoutPayload
<1>3. FieldsOK'
  BY <1>0, <1>1 DEF IInv, FieldsOK, MadeBy, GiveUp, CheckStart, CheckRefuses, Ends
<1>4. CASE GiveUp \/ CheckStart
  <2>1. TypeOK'
    BY <1>0, <1>4 DEF TypeOK, GiveUp, CheckStart
  <2>2. StageOK'
    BY <1>0, <1>4 DEF IInv, StageOK, GiveUp, CheckStart
  <2>3. CountOK'
    BY <1>0, <1>1, <1>4 DEF IInv, CountOK, TypeOK, GiveUp, CheckStart
  <2>4. DestinationOK'
    BY <1>0, <1>4 DEF IInv, DestinationOK, HostAccepted, GiveUp, CheckStart
  <2>5. QED
    BY <1>1, <1>2, <1>3, <2>1, <2>2, <2>3, <2>4 DEF IInv
<1>5. CASE CheckRefuses
  <2>1. /\ pc = "check" /\ pc' = "done" /\ UNCHANGED cleared
        /\ replies' = [replies EXCEPT ![attempt] = "blocked"]
    BY <1>5 DEF CheckRefuses, Ends
  <2>2. TypeOK'
    BY <1>0, <2>1 DEF TypeOK, Replies
  <2>3. StageOK'
    BY <1>0, <2>1 DEF IInv, StageOK, TypeOK
  <2>4. SentBy(attempt) = {}
    <3>1. Cardinality(SentBy(attempt)) = 0
      BY <2>1, ExecutionAssumption DEF IInv, StageOK, CountOK
    <3>2. QED
      BY <1>0, <3>1, SentFinite, FS_EmptySet DEF TypeOK
  <2>5. \A a \in 1..2 : replies'[a] = IF a = attempt THEN "blocked" ELSE replies[a]
    BY <1>0, <2>1 DEF TypeOK
  <2>6. CountOK'
    BY <1>0, <1>1, <2>1, <2>4, <2>5 DEF IInv, CountOK, TypeOK
  <2>7. DestinationOK'
    BY <1>0, <2>1 DEF IInv, DestinationOK, HostAccepted
  <2>8. QED
    BY <1>1, <1>2, <1>3, <2>2, <2>3, <2>6, <2>7 DEF IInv
<1>6. QED
  BY <1>4, <1>5

\* The copies that the changes start from are what was sent before.
LEMMA CorrectStep ==
  ASSUME IInv, Correct
  PROVE  IInv'
<1>0. /\ TypeOK /\ UNCHANGED <<client, attempt, fields, url, method, stripped, left,
                               cleared, sent, replies>>
      /\ pc = "failed" /\ attempt = 1 /\ pc' = "apply" /\ changes' \in Corrections
      /\ turn' = 0 /\ draft' = fields
  BY DEF IInv, Correct, MayCorrect, loop
<1>1. /\ PayloadNeverComesBack' /\ SecretsStayOut' /\ Normal' = Normal
      /\ \A a \in 1..2 : SentBy(a)' = SentBy(a)
  BY <1>0, NothingSent DEF IInv
<1>2. TypeOK'
  <2>1. changes' \in Seq(Change)
    BY <1>0, ExecutionAssumption
  <2>2. Len(changes') \in Nat
    BY <2>1
  <2>3. turn' \in 0..Len(changes')
    BY <1>0, <2>2
  <2>4. QED
    BY <1>0, <2>3 DEF TypeOK
<1>3. StageOK' /\ DestinationOK'
  BY <1>0 DEF IInv, StageOK, DestinationOK, HostAccepted
<1>4. CountOK'
  BY <1>0, <1>1 DEF IInv, CountOK, TypeOK
<1>5. FieldsOK'
  <2>1. fields = Normal /\ fields' = Normal'
    BY <1>0, <1>1 DEF IInv, FieldsOK
  <2>2. ASSUME NEW p \in Places
        PROVE  MadeBy(draft[p], p, turn)'
    <3>1. IsFiniteSet(DOMAIN Normal[p]) /\ Cardinality(DOMAIN Normal[p]) \in Nat
      BY <1>0, NormalKeeps, FS_CardinalityType DEF TypeOK
    <3>2. QED
      BY <1>0, <1>1, <2>1, <3>1 DEF MadeBy
  <2>3. QED
    BY <1>0, <2>1, <2>2 DEF FieldsOK
<1>6. PayloadOK'
  BY <1>0 DEF IInv, PayloadOK, WithoutPayload
<1>7. QED
  BY <1>1, <1>2, <1>3, <1>4, <1>5, <1>6 DEF IInv

\* One change more: renamed and removed fields are among those it names.
LEMMA ApplyNextStep ==
  ASSUME IInv, ApplyNext
  PROVE  IInv'
<1>0. /\ TypeOK /\ UNCHANGED <<client, attempt, changes, fields, url, method, stripped, left,
                               cleared, sent, replies>>
      /\ pc = "apply" /\ pc' = "apply" /\ turn < Len(changes) /\ turn' = turn + 1
      /\ draft' = ApplyChange(draft, changes[turn + 1])
  BY DEF IInv, ApplyNext, loop
<1>1. /\ PayloadNeverComesBack' /\ SecretsStayOut' /\ Normal' = Normal
      /\ \A a \in 1..2 : SentBy(a)' = SentBy(a)
  BY <1>0, NothingSent DEF IInv
<1>2. /\ changes \in Seq(Change) /\ turn \in Nat /\ Len(changes) \in Nat
      /\ turn + 1 \in 1..Len(changes) /\ changes[turn + 1] \in Change
  <2>1. changes \in Seq(Change)
    BY <1>0, ChangesType DEF TypeOK
  <2>2. turn \in Nat /\ Len(changes) \in Nat
    BY <1>0, <2>1 DEF TypeOK
  <2>3. turn + 1 \in 1..Len(changes)
    BY <1>0, <2>2
  <2>4. QED
    BY <2>1, <2>2, <2>3
<1>3. draft' \in [Places -> FieldsOver(Names)]
  BY <1>0, <1>2, ApplyChangeKeeps DEF TypeOK
<1>4. TypeOK'
  BY <1>0, <1>2, <1>3 DEF TypeOK
<1>5. StageOK' /\ DestinationOK'
  BY <1>0 DEF IInv, StageOK, DestinationOK, HostAccepted
<1>6. CountOK'
  BY <1>0, <1>1 DEF IInv, CountOK, TypeOK
<1>7. FieldsOK'
  <2>1. ASSUME NEW p \in Places
        PROVE  MadeBy(draft[p], p, turn)'
    <3>1. MadeBy(draft[p], p, turn)
      BY <1>0 DEF IInv, FieldsOK
    <3>2. MadeBy(ApplyChange(draft, changes[turn + 1])[p], p, turn + 1)
      BY <1>0, <1>2, <3>1, MadeByNext DEF TypeOK
    <3>3. QED
      BY <1>0, <1>1, <3>2 DEF MadeBy
  <2>2. attempt = 1
    BY <1>0 DEF IInv, StageOK
  <2>3. QED
    BY <1>0, <1>1, <2>1, <2>2 DEF IInv, FieldsOK
<1>8. PayloadOK'
  BY <1>0 DEF IInv, PayloadOK, WithoutPayload
<1>9. QED
  BY <1>1, <1>4, <1>5, <1>6, <1>7, <1>8 DEF IInv

\* The corrected execution starts over: nothing of it has been sent, and each part
\* is the draft or, where that is empty, what the first execution had.
LEMMA SendCorrectedStep ==
  ASSUME IInv, SendCorrected
  PROVE  IInv'
<1>0. /\ TypeOK /\ UNCHANGED <<client, changes, turn, draft, sent, replies>>
      /\ pc = "apply" /\ turn = Len(changes) /\ pc' = "check" /\ attempt' = 2
      /\ fields' = [p \in Places |-> IF draft[p] = Empty THEN fields[p] ELSE draft[p]]
      /\ url' = StartUrl /\ method' = client.method /\ stripped' = FALSE
      /\ left' = MaxRedirects /\ cleared' = {}
  BY DEF IInv, SendCorrected, correction
<1>1. /\ PayloadNeverComesBack' /\ SecretsStayOut' /\ Normal' = Normal
      /\ \A a \in 1..2 : SentBy(a)' = SentBy(a)
  BY <1>0, NothingSent DEF IInv
<1>2. attempt = 1 /\ replies[1] \in Failures /\ replies[2] = None
  BY <1>0 DEF IInv, StageOK
<1>3. fields = Normal
  BY <1>0, <1>2 DEF IInv, FieldsOK
<1>4. SentBy(2) = {} /\ \A i \in DOMAIN sent : sent[i].attempt = 1
  BY <1>2, SentFirst
<1>5. TypeOK'
  <2>1. client.method \in Methods
    BY <1>0, NormalKeeps DEF TypeOK
  <2>2. fields' \in [Places -> FieldsOver(Names)]
    BY <1>0 DEF TypeOK
  <2>3. stripped' \in BOOLEAN
    BY <1>0, Zenon
  <2>4. QED
    BY <1>0, <2>1, <2>2, <2>3, ExecutionAssumption DEF TypeOK
<1>6. StageOK'
  BY <1>0, <1>2 DEF StageOK
<1>7. CountOK'
  <2>1. Cardinality(SentBy(2)) = 0
    BY <1>4, FS_EmptySet
  <2>2. \A i \in DOMAIN sent' : sent'[i].attempt <= attempt'
    BY <1>0, <1>4
  <2>3. QED
    BY <1>0, <1>1, <2>1, <2>2, ExecutionAssumption DEF IInv, CountOK
<1>8. DestinationOK'
  <2>1. \A i \in DOMAIN sent : sent[i].attempt # 2
    BY <1>2 DEF IInv, CountOK
  <2>2. \A i \in DOMAIN sent : HostAccepted(sent[i].url)'
    BY <1>0 DEF IInv, DestinationOK, HostAccepted
  <2>3. QED
    BY <1>0, <2>1, <2>2 DEF DestinationOK
<1>9. FieldsOK'
  <2>1. ASSUME NEW p \in Places
        PROVE  MadeBy(fields[p], p, Len(changes))'
    <3>1. MadeBy(draft[p], p, Len(changes))
      BY <1>0 DEF IInv, FieldsOK
    <3>2. CASE draft[p] # Empty
      BY <1>0, <1>1, <3>1, <3>2 DEF MadeBy
    <3>3. CASE draft[p] = Empty
      <4>1. fields'[p] = Normal[p]
        BY <1>0, <1>3, <3>3
      <4>2. IsFiniteSet(DOMAIN Normal[p]) /\ Cardinality(DOMAIN Normal[p]) \in Nat
        BY <1>0, NormalKeeps, FS_CardinalityType DEF TypeOK
      <4>3. QED
        BY <1>0, <1>1, <4>1, <4>2 DEF MadeBy
    <3>4. QED
      BY <3>2, <3>3
  <2>2. QED
    BY <1>0, <2>1 DEF FieldsOK
<1>10. PayloadOK'
  BY <1>0, <1>4 DEF IInv, PayloadOK, WithoutPayload
<1>11. QED
  BY <1>1, <1>5, <1>6, <1>7, <1>8, <1>9, <1>10 DEF IInv

-------------------------------------------------------------------------------
(* The steps that send *)

Request == [attempt |-> attempt, url |-> url, method |-> method, fields |-> Payload]

\* What is sent is the parts, or the headers alone after a 303.
LEMMA PayloadType ==
  ASSUME IInv
  PROVE  /\ Payload \in [Places -> FieldsOver(Names)]
         /\ Payload["headers"] = fields["headers"]
         /\ ~stripped => Payload = fields
         /\ stripped => WithoutPayload(Payload)
<1>1. fields \in [Places -> FieldsOver(Names)]
  BY DEF IInv, TypeOK
<1>2. CASE stripped
  <2>1. Payload = [p \in Places |-> IF p = "headers" THEN fields[p] ELSE Empty]
    BY <1>2 DEF Payload
  <2>2. Payload \in [Places -> FieldsOver(Names)]
    BY <1>1, <2>1, EmptyType
  <2>3. /\ Payload["headers"] = fields["headers"]
        /\ Payload["query"] = Empty /\ Payload["body"] = Empty
    BY <2>1 DEF Places
  <2>4. QED
    BY <1>2, <2>2, <2>3 DEF WithoutPayload
<1>3. CASE ~stripped
  BY <1>1, <1>3 DEF Payload
<1>4. QED
  BY <1>2, <1>3

\* The values sent are the mark and what the client gave to other names.
LEMMA PayloadPlain ==
  ASSUME IInv, pc # "normalize", NEW p \in Places
  PROVE  Range(Payload[p]) \subseteq Plain(p)
<1>1. Range(fields[p]) \subseteq Plain(p)
  <2>1. Range(Normal[p]) \subseteq Plain(p)
    BY NormalKeeps DEF IInv, TypeOK
  <2>2. CASE attempt = 1
    BY <2>1, <2>2 DEF IInv, FieldsOK
  <2>3. CASE attempt = 2
    BY <2>1, <2>3 DEF IInv, FieldsOK, MadeBy
  <2>4. QED
    BY <2>2, <2>3 DEF IInv, TypeOK
<1>2. CASE stripped
  <2>1. Payload[p] = IF p = "headers" THEN fields[p] ELSE Empty
    BY <1>2 DEF Payload
  <2>2. Range(Empty) = {}
    BY DEF Range, Empty
  <2>3. QED
    BY <1>1, <2>1, <2>2
<1>3. CASE ~stripped
  BY <1>1, <1>3 DEF Payload
<1>4. QED
  BY <1>2, <1>3

\* A transmission adds one request at the end.
LEMMA SentGrows ==
  ASSUME IInv, Transmit
  PROVE  LET n == Len(sent) + 1
         IN  /\ sent' \in Seq(Sent) /\ n \in Nat
             /\ DOMAIN sent = 1..Len(sent) /\ DOMAIN sent' = DOMAIN sent \cup {n}
             /\ n \notin DOMAIN sent /\ \A i \in DOMAIN sent : i < n
             /\ sent'[n] = Request
             /\ \A i \in DOMAIN sent : sent'[i] = sent[i]
<1>1. sent \in Seq(Sent) /\ attempt \in 1..2 /\ url \in Urls /\ method \in Methods \cup {"GET"}
  BY DEF IInv, TypeOK
<1>2. Request \in Sent
  BY <1>1, PayloadType DEF Request, Sent
<1>3. sent' = Append(sent, Request)
  BY DEF Transmit, Request
<1>4. QED
  BY <1>1, <1>2, <1>3

\* What a transmission adds, whatever comes back.
LEMMA TransmitKeeps ==
  ASSUME IInv, Transmit, UNCHANGED <<client, attempt, fields>>
  PROVE  /\ sent' \in Seq(Sent)
         /\ SentBy(attempt)' # {}
         /\ Cardinality(SentBy(attempt))' = MaxRedirects - left + 1
         /\ \A a \in 1..2 : a # attempt => SentBy(a)' = SentBy(a)
         /\ \A i \in DOMAIN sent' :
              /\ sent'[i].attempt <= attempt /\ HostAccepted(sent'[i].url)
              /\ sent'[i].attempt = attempt => sent'[i].url \in cleared
         /\ \A i \in DOMAIN sent' :
              /\ sent'[i].attempt = attempt =>
                   /\ sent'[i].fields["headers"] = fields["headers"]
                   /\ ~stripped => sent'[i].fields = fields /\ sent'[i].method = method
              /\ sent'[i].method # client.method => WithoutPayload(sent'[i].fields)
         /\ PayloadNeverComesBack' /\ SecretsStayOut' /\ Normal' = Normal
<1> DEFINE n == Len(sent) + 1
<1>1. /\ sent' \in Seq(Sent) /\ n \in Nat
      /\ DOMAIN sent = 1..Len(sent) /\ DOMAIN sent' = DOMAIN sent \cup {n}
      /\ n \notin DOMAIN sent /\ \A i \in DOMAIN sent : i < n
      /\ sent'[n] = Request
      /\ \A i \in DOMAIN sent : sent'[i] = sent[i]
  BY SentGrows
<1> HIDE DEF n
<1>2. /\ Request.attempt = attempt /\ Request.url = url /\ Request.method = method
      /\ Request.fields = Payload
  BY DEF Request
<1>3. pc = "send" /\ attempt \in 1..2
  BY DEF Transmit, IInv, TypeOK
<1>4. SentBy(attempt)' = SentBy(attempt) \cup {n} /\ n \notin SentBy(attempt)
  BY <1>1, <1>2 DEF SentBy
<1>5. \A a \in 1..2 : a # attempt => SentBy(a)' = SentBy(a)
  BY <1>1, <1>2 DEF SentBy
<1>6. Cardinality(SentBy(attempt))' = MaxRedirects - left + 1
  <2>1. IsFiniteSet(SentBy(attempt)) /\ Cardinality(SentBy(attempt)) = MaxRedirects - left
    BY <1>3, SentFinite DEF IInv, CountOK
  <2>2. Cardinality(SentBy(attempt) \cup {n}) = Cardinality(SentBy(attempt)) + 1
    BY <1>4, <2>1, FS_AddElement
  <2>3. QED
    BY <1>4, <2>1, <2>2
<1>7. \A i \in DOMAIN sent' :
        /\ sent'[i].attempt <= attempt /\ HostAccepted(sent'[i].url)
        /\ sent'[i].attempt = attempt => sent'[i].url \in cleared
  BY <1>1, <1>2, <1>3 DEF IInv, CountOK, DestinationOK
<1>8. ASSUME NEW i \in DOMAIN sent'
      PROVE  /\ sent'[i].attempt = attempt =>
                  /\ sent'[i].fields["headers"] = fields["headers"]
                  /\ ~stripped => sent'[i].fields = fields /\ sent'[i].method = method
             /\ sent'[i].method # client.method => WithoutPayload(sent'[i].fields)
  <2>1. CASE i \in DOMAIN sent
    BY <1>1, <2>1 DEF IInv, PayloadOK
  <2>2. CASE i = n
    <3>1. method # client.method => stripped
      BY DEF IInv, PayloadOK
    <3>2. QED
      BY <1>1, <1>2, <2>2, <3>1, PayloadType
  <2>3. QED
    BY <1>1, <2>1, <2>2
<1>9. PayloadNeverComesBack'
  <2> SUFFICES ASSUME NEW i \in DOMAIN sent', NEW j \in DOMAIN sent',
                      i < j, sent'[i].attempt = sent'[j].attempt
               PROVE  /\ sent'[j].fields["headers"] = sent'[i].fields["headers"]
                      /\ \/ sent'[j].fields = sent'[i].fields
                            /\ sent'[j].method = sent'[i].method
                         \/ WithoutPayload(sent'[j].fields) /\ sent'[j].method = "GET"
    BY <1>8 DEF PayloadNeverComesBack, WithoutPayload
  <2>1. CASE j \in DOMAIN sent
    <3>1. i \in DOMAIN sent
      BY <1>1, <2>1
    <3>2. QED
      BY <1>1, <2>1, <3>1 DEF IInv, PayloadNeverComesBack
  <2>2. CASE j = n
    <3>1. i \in DOMAIN sent /\ sent'[i].attempt = attempt /\ sent'[j] = Request
      BY <1>1, <1>2, <2>2
    <3>2. sent'[j].fields["headers"] = sent'[i].fields["headers"]
      BY <1>8, <1>2, <3>1
    <3>3. CASE stripped
      <4>1. method = "GET" /\ WithoutPayload(Payload)
        BY <3>3, PayloadType DEF IInv, PayloadOK
      <4>2. QED
        BY <1>2, <3>1, <3>2, <4>1
    <3>4. CASE ~stripped
      BY <1>2, <1>8, <3>1, <3>2, <3>4, PayloadType
    <3>5. QED
      BY <3>3, <3>4
  <2>3. QED
    BY <1>1, <2>1, <2>2
<1>10. SecretsStayOut'
  <2>1. \A i \in DOMAIN sent : \A p \in Places : Range(sent[i].fields[p]) \subseteq Plain(p)
    BY DEF IInv, SecretsStayOut, Plain, SecretsOf
  <2>2. \A p \in Places : Range(Request.fields[p]) \subseteq Plain(p)
    BY <1>2, <1>3, PayloadPlain
  <2>3. \A i \in DOMAIN sent' : \A p \in Places : Range(sent'[i].fields[p]) \subseteq Plain(p)
    BY <1>1, <2>1, <2>2
  <2>4. QED
    BY <2>3 DEF SecretsStayOut, Plain, SecretsOf, Range
<1>11. Normal' = Normal
  BY DEF Normal, Normalized, Redact
<1>12. QED
  BY <1>1, <1>4, <1>5, <1>6, <1>7, <1>8, <1>9, <1>10, <1>11

\* An execution that ends with a reply after it has sent something.
LEMMA EndStep ==
  ASSUME IInv, Transmit, NEW reply \in Replies \ {"blocked"}, Ends(reply),
         UNCHANGED <<client, attempt, correction, fields, loop, cleared>>
  PROVE  IInv'
<1>0. /\ UNCHANGED <<client, attempt, changes, turn, draft, fields, url, method, stripped,
                     left, cleared>>
      /\ TypeOK /\ pc = "send" /\ attempt \in 1..2 /\ left \in 0..MaxRedirects
      /\ MaxRedirects \in Nat
  BY ExecutionAssumption DEF loop, correction, IInv, TypeOK, Transmit
<1>1. /\ sent' \in Seq(Sent)
      /\ SentBy(attempt)' # {}
      /\ Cardinality(SentBy(attempt))' = MaxRedirects - left + 1
      /\ \A a \in 1..2 : a # attempt => SentBy(a)' = SentBy(a)
      /\ \A i \in DOMAIN sent' :
           /\ sent'[i].attempt <= attempt /\ HostAccepted(sent'[i].url)
           /\ sent'[i].attempt = attempt => sent'[i].url \in cleared
      /\ \A i \in DOMAIN sent' :
           /\ sent'[i].attempt = attempt =>
                /\ sent'[i].fields["headers"] = fields["headers"]
                /\ ~stripped => sent'[i].fields = fields /\ sent'[i].method = method
           /\ sent'[i].method # client.method => WithoutPayload(sent'[i].fields)
      /\ PayloadNeverComesBack' /\ SecretsStayOut' /\ Normal' = Normal
  BY <1>0, TransmitKeeps
<1>2. \A a \in 1..2 : replies'[a] = IF a = attempt THEN reply ELSE replies[a]
  BY <1>0 DEF Ends, TypeOK
<1>3. pc' \in {"failed", "done"} /\ (pc' = "failed" => reply \in Failures)
  BY DEF Ends, Failures
<1>4. TypeOK'
  <2>1. replies' \in [1..2 -> Replies \cup {None}]
    BY <1>0 DEF Ends, TypeOK
  <2>2. QED
    BY <1>0, <1>1, <1>3, <2>1 DEF TypeOK
<1>5. StageOK'
  BY <1>0, <1>2, <1>3 DEF IInv, StageOK
<1>6. CountOK'
  <2>1. \A a \in 1..2 : Cardinality(SentBy(a))' <= MaxRedirects + 1
    BY <1>0, <1>1 DEF IInv, CountOK
  <2>2. \A i \in DOMAIN sent' : sent'[i].attempt <= attempt'
    BY <1>0, <1>1
  <2>3. \A a \in 1..2 :
          /\ replies'[a] = "blocked" => SentBy(a)' = {}
          /\ replies'[a] \in Replies \ {"blocked"} => SentBy(a)' # {}
    BY <1>0, <1>1, <1>2 DEF IInv, CountOK
  <2>4. QED
    BY <1>3, <2>1, <2>2, <2>3 DEF CountOK
<1>7. DestinationOK'
  BY <1>0, <1>1, <1>3 DEF IInv, DestinationOK, HostAccepted
<1>8. FieldsOK'
  BY <1>0, <1>1, <1>3, SMTT(30) DEF IInv, FieldsOK, MadeBy
<1>9. PayloadOK'
  BY <1>0, <1>1 DEF IInv, PayloadOK, WithoutPayload
<1>10. QED
  BY <1>1, <1>4, <1>5, <1>6, <1>7, <1>8, <1>9 DEF IInv

\* A redirect that is followed: the same execution sends once more.
LEMMA FollowStep ==
  ASSUME IInv, RedirectFollowed
  PROVE  IInv'
<1>0. /\ UNCHANGED <<client, pc, attempt, changes, turn, draft, fields, replies>>
      /\ TypeOK /\ pc = "send" /\ attempt \in 1..2 /\ left \in 1..MaxRedirects
      /\ left' = left - 1 /\ MaxRedirects \in Nat /\ Transmit
  BY ExecutionAssumption DEF RedirectFollowed, RedirectsExhausted, LeftAfterHop, correction,
     IInv, TypeOK, Transmit
<1>1. /\ sent' \in Seq(Sent)
      /\ SentBy(attempt)' # {}
      /\ Cardinality(SentBy(attempt))' = MaxRedirects - left + 1
      /\ \A a \in 1..2 : a # attempt => SentBy(a)' = SentBy(a)
      /\ \A i \in DOMAIN sent' :
           /\ sent'[i].attempt <= attempt /\ HostAccepted(sent'[i].url)
           /\ sent'[i].attempt = attempt => sent'[i].url \in cleared
      /\ \A i \in DOMAIN sent' :
           /\ sent'[i].attempt = attempt =>
                /\ sent'[i].fields["headers"] = fields["headers"]
                /\ ~stripped => sent'[i].fields = fields /\ sent'[i].method = method
           /\ sent'[i].method # client.method => WithoutPayload(sent'[i].fields)
      /\ PayloadNeverComesBack' /\ SecretsStayOut' /\ Normal' = Normal
  BY <1>0, TransmitKeeps
<1>2. /\ url' \in Urls /\ HostAccepted(url') /\ cleared' = cleared \cup {url'}
  BY DEF RedirectFollowed
<1>3. PICK status \in {"see_other", "moved"} :
        /\ stripped' = (stripped \/ status = "see_other")
        /\ method' = IF status = "see_other" THEN "GET" ELSE method
  BY DEF RedirectFollowed
<1>4. stripped' \in BOOLEAN /\ (stripped => stripped')
  BY <1>3, Zenon
<1>5. stripped' \/ (~stripped /\ method' = method)
  BY <1>3
<1>6. method' \in Methods \cup {"GET"} /\ (stripped' => method' = "GET")
  BY <1>3 DEF IInv, TypeOK, PayloadOK
<1>7. TypeOK'
  <2>1. left' \in 0..MaxRedirects /\ cleared' \subseteq Urls
    BY <1>0, <1>2 DEF TypeOK
  <2>2. QED
    BY <1>0, <1>1, <1>2, <1>4, <1>6, <2>1 DEF TypeOK
<1>8. StageOK'
  BY <1>0 DEF IInv, StageOK
<1>9. CountOK'
  <2>1. \A a \in 1..2 : Cardinality(SentBy(a))' <= MaxRedirects + 1
    BY <1>0, <1>1 DEF IInv, CountOK
  <2>2. Cardinality(SentBy(attempt))' = MaxRedirects - left'
    BY <1>0, <1>1
  <2>3. \A i \in DOMAIN sent' : sent'[i].attempt <= attempt'
    BY <1>0, <1>1
  <2>4. replies[attempt] = None
    BY <1>0 DEF IInv, StageOK
  <2>5. \A a \in 1..2 :
          /\ replies'[a] = "blocked" => SentBy(a)' = {}
          /\ replies'[a] \in Replies \ {"blocked"} => SentBy(a)' # {}
    BY <1>0, <1>1, <2>4 DEF IInv, CountOK, None, Replies
  <2>6. QED
    BY <2>1, <2>2, <2>3, <2>5 DEF CountOK
<1>10. DestinationOK'
  BY <1>0, <1>1, <1>2 DEF IInv, DestinationOK, HostAccepted
<1>11. FieldsOK'
  BY <1>0, <1>1 DEF IInv, FieldsOK, MadeBy
<1>12. PayloadOK'
  <2>1. ~stripped' => method' = client.method
    BY <1>4, <1>5 DEF IInv, PayloadOK
  <2>2. \A i \in DOMAIN sent' :
          /\ sent'[i].attempt = attempt =>
               /\ sent'[i].fields["headers"] = fields["headers"]
               /\ ~stripped' => sent'[i].fields = fields /\ sent'[i].method = method'
          /\ sent'[i].method # client.method => WithoutPayload(sent'[i].fields)
    BY <1>1, <1>4, <1>5
  <2>3. QED
    BY <1>0, <1>6, <2>1, <2>2 DEF PayloadOK, WithoutPayload
<1>13. QED
  BY <1>1, <1>7, <1>8, <1>9, <1>10, <1>11, <1>12 DEF IInv

-------------------------------------------------------------------------------
(* The theorems *)

\* The invariant is inductive.
LEMMA NextIInv == IInv /\ [Next]_vars => IInv'
<1> SUFFICES ASSUME IInv, [Next]_vars PROVE IInv'
  OBVIOUS
<1>1. CASE UNCHANGED vars
  <2> USE <1>1 DEF vars, loop, correction
  <2>1. /\ PayloadNeverComesBack' /\ SecretsStayOut' /\ Normal' = Normal
        /\ \A a \in 1..2 : SentBy(a)' = SentBy(a)
    BY NothingSent
  <2>2. TypeOK' /\ StageOK'
    BY DEF IInv, TypeOK, StageOK
  <2>3. CountOK'
    BY <2>1 DEF IInv, TypeOK, CountOK
  <2>4. DestinationOK'
    BY DEF IInv, DestinationOK, HostAccepted
  <2>5. PayloadOK'
    BY DEF IInv, PayloadOK, WithoutPayload
  <2>6. FieldsOK'
    <3>1. UNCHANGED <<pc, attempt, changes, turn, draft, fields>>
      OBVIOUS
    <3>2. \A f, p, k : MadeBy(f, p, k)' = MadeBy(f, p, k)
      BY <2>1, <3>1 DEF MadeBy
    <3>3. QED
      BY <2>1, <3>1, <3>2 DEF IInv, FieldsOK
  <2>7. QED
    BY <2>1, <2>2, <2>3, <2>4, <2>5, <2>6 DEF IInv
<1>2. CASE TransportError
  BY <1>2, EndStep DEF TransportError, Replies
<1>3. CASE Answered
  BY <1>3, EndStep DEF Answered, Replies
<1>4. CASE RedirectReturned
  BY <1>4, EndStep DEF RedirectReturned, Replies
<1>5. CASE RedirectRefused
  BY <1>5, EndStep DEF RedirectRefused, Replies
<1>6. CASE Normalize \/ GiveUp \/ CheckStart \/ CheckRefuses
  BY <1>6, NormalizeStep, PauseStep
<1>7. CASE Correct \/ ApplyNext \/ SendCorrected
  BY <1>7, CorrectStep, ApplyNextStep, SendCorrectedStep
<1>8. CASE RedirectFollowed
  BY <1>8, FollowStep
<1>9. QED
  BY <1>1, <1>2, <1>3, <1>4, <1>5, <1>6, <1>7, <1>8 DEF Next, Quiescent

\* The stages of the two executions, what each has sent and what it is made of.
THEOREM ExecutionHolds == Spec => []IInv
  BY InitIInv, NextIInv, PTL DEF Spec

\* Every variable keeps its type, for any fields, values and URLs.
THEOREM TypeCorrect == Spec => []TypeOK
<1>1. IInv => TypeOK
  BY DEF IInv
<1>2. QED
  BY <1>1, ExecutionHolds, PTL

\* An execution sends at most one request more than the redirect limit, and the
\* reply it is recorded with says whether it sent any (execute_upstream's loop).
THEOREM SendsStayBounded == Spec => []SendsBounded
<1>1. IInv => SendsBounded
  <2> SUFFICES ASSUME IInv PROVE SendsBounded
    OBVIOUS
  <2>1. SentBy(2) # {} => replies[1] \in Failures
    BY SentFirst DEF IInv, StageOK, TypeOK
  <2>2. QED
    BY <2>1 DEF IInv, CountOK, SendsBounded, Failures
<1>2. QED
  BY <1>1, ExecutionHolds, PTL

\* Every request goes to a URL validated in this execution, at the registered host if
\* the API has one and at an allowed one if hosts are restricted, for every set of URLs
\* and hosts and however many redirects (_validate_host_ssrf and its two callers).
THEOREM OnlyValidated == Spec => []OnlyValidatedDestinations
<1>1. IInv => OnlyValidatedDestinations
  BY DEF IInv, DestinationOK, HostAccepted, OnlyValidatedDestinations
<1>2. QED
  BY <1>1, ExecutionHolds, PTL

\* After a 303 neither payload nor method comes back (the redirect loop's
\* current_method, current_body and current_params).
THEOREM PayloadStaysAway == Spec => []PayloadNeverComesBack
<1>1. IInv => PayloadNeverComesBack
  BY DEF IInv
<1>2. QED
  BY <1>1, ExecutionHolds, PTL

\* A candidate's changes, however many, invent no value, never make a part larger
\* and lose only the fields they name (_apply_candidate and its call).
THEOREM NothingInvented == Spec => []CorrectionInventsNothing
<1>1. IInv => CorrectionInventsNothing
  <2> SUFFICES ASSUME IInv, attempt = 2, NEW p \in Places
               PROVE  /\ Range(fields[p]) \subseteq Range(Normal[p])
                      /\ Cardinality(DOMAIN fields[p]) <= Cardinality(DOMAIN Normal[p])
                      /\ DOMAIN Normal[p] \ DOMAIN fields[p] \subseteq
                           {changes[i].field : i \in {k \in DOMAIN changes :
                                                        changes[k].place = p}}
    BY DEF CorrectionInventsNothing, Normal
  <2>1. MadeBy(fields[p], p, Len(changes))
    BY DEF IInv, FieldsOK
  <2>2. DOMAIN changes = 1..Len(changes)
    BY ChangesType DEF IInv, TypeOK
  <2>3. QED
    BY <2>1, <2>2 DEF MadeBy
<1>2. QED
  BY <1>1, ExecutionHolds, PTL

\* What is sent is the mark and values the client gave to names that are not secret,
\* also after a candidate has renamed a field (normalize_request comes first).
THEOREM SecretsNeverSent == Spec => []SecretsStayOut
<1>1. IInv => SecretsStayOut
  BY DEF IInv
<1>2. QED
  BY <1>1, ExecutionHolds, PTL

-------------------------------------------------------------------------------
(* The promise about executions *)

TheRequest == "request"

\* What counts as an execution, by the reply it is recorded with.
LEMMA ExecutedIs ==
  ASSUME IInv
  PROVE  /\ \A a \in 1..2 : Executed(a) \in 0..1
         /\ \A a \in 1..2 : replies[a] = None => Executed(a) = 0
         /\ \A a \in 1..2 : replies[a] \in Failures => Executed(a) = 1
         /\ attempt = 1 => Executed(2) = 0
<1>1. \A a \in 1..2 : replies[a] \in Failures => replies[a] # None /\ SentBy(a) # {}
  BY DEF IInv, CountOK, Failures, Replies, None
<1>2. attempt = 1 => replies[2] = None
  BY DEF IInv, StageOK
<1>3. QED
  BY <1>1, <1>2 DEF Executed

\* Nothing of the mapped state but the phase depends on the steps that send nothing.
LEMMA ExecutedKept ==
  ASSUME UNCHANGED <<sent, replies>>
  PROVE  \A a \in 1..2 : Executed(a)' = Executed(a)
  BY DEF Executed, SentBy

LEMMA NormalizeRefines ==
  ASSUME IInv, Normalize
  PROVE  Budget!Open(TheRequest)
<1>1. /\ pc = "normalize" /\ pc' = "check" /\ attempt = 1 /\ attempt' = 1
      /\ UNCHANGED <<sent, replies>>
  BY DEF Normalize, IInv, StageOK
<1>2. Phase = "idle" /\ Phase' = "open"
  BY <1>1 DEF Phase
<1>3. QED
  BY <1>1, <1>2, ExecutedKept DEF Budget!Open, Budget!Move, TheRequest

LEMMA CorrectRefines ==
  ASSUME IInv, Correct
  PROVE  Budget!Claim(TheRequest)
<1>1. /\ pc = "failed" /\ pc' = "apply" /\ attempt = 1 /\ attempt' = 1
      /\ UNCHANGED <<sent, replies>>
  BY DEF Correct, MayCorrect
<1>2. Phase = "open" /\ Phase' = "open"
  BY <1>1 DEF Phase
<1>3. Executed(1) = 1 /\ Executed(2) = 0
  BY <1>1, ExecutedIs DEF IInv, StageOK
<1>4. QED
  BY <1>1, <1>2, <1>3, ExecutedKept DEF Budget!Claim, TheRequest

LEMMA SendCorrectedRefines ==
  ASSUME IInv, SendCorrected
  PROVE  Budget!Clear(TheRequest)
<1>1. /\ pc = "apply" /\ pc' = "check" /\ attempt = 1 /\ attempt' = 2
      /\ UNCHANGED <<sent, replies>>
  BY DEF SendCorrected, IInv, StageOK
<1>2. Phase = "open" /\ Phase' = "cleared"
  BY <1>1 DEF Phase
<1>3. QED
  BY <1>1, <1>2, ExecutedKept DEF Budget!Clear, Budget!Move, TheRequest

LEMMA GiveUpRefines ==
  ASSUME IInv, GiveUp
  PROVE  Budget!Close(TheRequest) \/ UNCHANGED Budget!vars
<1>1. pc = "failed" /\ pc' = "done" /\ UNCHANGED <<attempt, sent, replies>>
  BY DEF GiveUp
<1>2. Phase' = "closed" /\ (attempt = 1 => Phase = "open") /\ (attempt = 2 => Phase = "closed")
  BY <1>1 DEF Phase
<1>3. attempt \in 1..2
  BY DEF IInv, TypeOK
<1>4. QED
  BY <1>1, <1>2, <1>3, ExecutedKept DEF Budget!Close, Budget!Move, Budget!vars, TheRequest

\* A change, a cleared URL and a hop are invisible.
LEMMA WithinRefines ==
  ASSUME IInv, ApplyNext \/ CheckStart \/ RedirectFollowed \/ UNCHANGED vars
  PROVE  UNCHANGED Budget!vars
<1>1. /\ UNCHANGED <<attempt, replies>> /\ attempt \in 1..2
      /\ \/ pc' = pc
         \/ pc = "check" /\ pc' = "send"
  BY DEF ApplyNext, CheckStart, RedirectFollowed, vars, correction, IInv, TypeOK
<1>2. Phase' = Phase
  BY <1>1 DEF Phase
<1>3. \A a \in 1..2 : Executed(a)' = Executed(a)
  <2>1. CASE RedirectFollowed
    <3>1. UNCHANGED <<client, attempt, fields>> /\ Transmit
      BY <2>1 DEF RedirectFollowed, correction
    <3>2. \A a \in 1..2 : a # attempt => SentBy(a)' = SentBy(a)
      BY <3>1, TransmitKeeps
    <3>3. replies[attempt] = None
      BY <3>1 DEF Transmit, IInv, StageOK
    <3>4. QED
      BY <1>1, <3>2, <3>3 DEF Executed
  <2>2. CASE ~RedirectFollowed
    BY <2>2, ExecutedKept DEF ApplyNext, CheckStart, vars
  <2>3. QED
    BY <2>1, <2>2
<1>4. (pc' = "apply" \/ attempt' = 2) <=> (pc = "apply" \/ attempt = 2)
  BY <1>1
<1>5. QED
  BY <1>2, <1>3, <1>4 DEF Budget!vars

\* The end of an execution is one call, sent or stopped before.
LEMMA EndRefines ==
  ASSUME IInv, NEW reply \in Replies, Ends(reply), pc \in {"check", "send"},
         UNCHANGED attempt,
         \A a \in 1..2 : a # attempt => SentBy(a)' = SentBy(a),
         reply # "blocked" => SentBy(attempt)' # {}
  PROVE  Budget!CallOriginal(TheRequest) \/ Budget!CallCorrected(TheRequest)
<1>1. attempt \in 1..2 /\ reply # None /\ replies[attempt] = None
  BY DEF IInv, TypeOK, StageOK, Replies, None
<1>2. /\ \A a \in 1..2 : replies'[a] = IF a = attempt THEN reply ELSE replies[a]
      /\ pc' = IF reply \in Failures THEN "failed" ELSE "done"
  BY DEF Ends, IInv, TypeOK, Failures
<1>3. /\ Executed(attempt)' \in 0..1
      /\ reply # "blocked" => Executed(attempt)' = 1
      /\ \A a \in 1..2 : a # attempt => Executed(a)' = Executed(a)
  BY <1>1, <1>2 DEF Executed
<1>4. CASE attempt = 1
  <2>1. Phase = "open" /\ Phase' = IF reply \in Failures THEN "open" ELSE "closed"
    BY <1>2, <1>4 DEF Phase
  <2>2. Executed(1) = 0 /\ Executed(2) = 0
    BY <1>1, <1>4, ExecutedIs
  <2>3. /\ Executed(1)' + Executed(2)' \in 0..1
        /\ Phase' = "open" => Executed(1)' + Executed(2)' = 1
    BY <1>3, <1>4, <2>1, <2>2 DEF Failures
  <2>4. pc # "apply" /\ pc' # "apply"
    BY <1>2
  <2>5. PICK to \in {"open", "closed"}, n \in 0..1 :
          to = Phase' /\ n = Executed(1)' + Executed(2)' /\ (to = "open" => n = 1)
    BY <2>1, <2>3
  <2>6. Budget!Move(TheRequest, {"open"}, to)
    BY <2>1, <2>5 DEF Budget!Move, TheRequest
  <2>7. /\ [r \in {"request"} |-> Executed(1) + Executed(2)][TheRequest] = 0
        /\ [r \in {"request"} |-> Executed(1) + Executed(2)]'
             = [[r \in {"request"} |-> Executed(1) + Executed(2)] EXCEPT ![TheRequest] = n]
    BY <2>2, <2>5 DEF TheRequest
  <2>8. QED
    BY <1>4, <2>4, <2>5, <2>6, <2>7, Zenon DEF Budget!CallOriginal
<1>5. CASE attempt = 2
  <2>1. Phase = "cleared" /\ Phase' = "closed"
    BY <1>2, <1>5 DEF Phase
  <2>2. Executed(1)' = Executed(1) /\ Executed(2) = 0 /\ Executed(2)' \in 0..1
        /\ Executed(1) \in 0..1
    BY <1>1, <1>3, <1>5, ExecutedIs
  <2>3. Budget!Move(TheRequest, {"cleared"}, "closed")
    BY <2>1 DEF Budget!Move, TheRequest
  <2>4. PICK n \in 0..1 : n = Executed(2)'
    BY <2>2
  <2>5. [r \in {"request"} |-> Executed(1) + Executed(2)]'
          = [[r \in {"request"} |-> Executed(1) + Executed(2)] EXCEPT ![TheRequest] = @ + n]
    BY <2>2, <2>4 DEF TheRequest
  <2>6. QED
    BY <1>5, <2>3, <2>4, <2>5, Zenon DEF Budget!CallCorrected
<1>6. QED
  BY <1>1, <1>4, <1>5

LEMMA RefusedRefines ==
  ASSUME IInv, CheckRefuses
  PROVE  Budget!CallOriginal(TheRequest) \/ Budget!CallCorrected(TheRequest)
<1>1. pc = "check" /\ Ends("blocked") /\ UNCHANGED <<attempt, sent>> /\ "blocked" \in Replies
  BY DEF CheckRefuses, Replies
<1>2. \A a \in 1..2 : SentBy(a)' = SentBy(a)
  BY <1>1 DEF SentBy
<1>3. QED
  BY <1>1, <1>2, EndRefines

LEMMA TransmittedRefines ==
  ASSUME IInv, TransportError \/ Answered \/ RedirectReturned \/ RedirectRefused
  PROVE  Budget!CallOriginal(TheRequest) \/ Budget!CallCorrected(TheRequest)
<1>1. /\ Transmit /\ UNCHANGED <<client, attempt, fields>> /\ pc = "send"
      /\ \E reply \in Replies \ {"blocked"} : Ends(reply)
  BY DEF TransportError, Answered, RedirectReturned, RedirectRefused, correction, Transmit,
     Replies
<1>2. PICK reply \in Replies \ {"blocked"} : Ends(reply)
  BY <1>1
<1>3. /\ SentBy(attempt)' # {}
      /\ \A a \in 1..2 : a # attempt => SentBy(a)' = SentBy(a)
  BY <1>1, TransmitKeeps
<1>4. QED
  BY <1>1, <1>2, <1>3, EndRefines

\* The executions as they are sent implement the abstract promise, whatever redirects,
\* refusals and changes there are.
THEOREM ExecutionRefinesBudget == Spec => ImplementsBudget
<1>1. Init => Budget!Init
  <2> SUFFICES ASSUME Init PROVE Budget!Init
    OBVIOUS
  <2>1. /\ pc = "normalize" /\ attempt = 1 /\ \A a \in 1..2 : replies[a] = None
    BY DEF Init
  <2>2. Phase = "idle" /\ Executed(1) = 0 /\ Executed(2) = 0
    BY <2>1 DEF Phase, Executed
  <2>3. QED
    BY <2>1, <2>2 DEF Budget!Init
<1>2. IInv /\ [Next]_vars => [Budget!Next]_(Budget!vars)
  <2> SUFFICES ASSUME IInv, [Next]_vars
               PROVE  Budget!Next \/ UNCHANGED Budget!vars
    OBVIOUS
  <2>1. CASE ApplyNext \/ CheckStart \/ RedirectFollowed \/ Quiescent \/ UNCHANGED vars
    BY <2>1, WithinRefines DEF Quiescent
  <2>2. CASE Normalize \/ Correct \/ SendCorrected \/ GiveUp
    BY <2>2, NormalizeRefines, CorrectRefines, SendCorrectedRefines, GiveUpRefines
       DEF Budget!Next, TheRequest
  <2>3. CASE CheckRefuses \/ TransportError \/ Answered \/ RedirectReturned \/ RedirectRefused
    BY <2>3, RefusedRefines, TransmittedRefines DEF Budget!Next, TheRequest
  <2>4. QED
    BY <2>1, <2>2, <2>3 DEF Next
<1>3. QED
  BY <1>1, <1>2, ExecutionHolds, PTL DEF Spec, ImplementsBudget, Budget!Spec
===============================================================================
