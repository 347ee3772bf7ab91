--------------------------- MODULE UpstreamExecution ---------------------------
(***************************************************************************)
(* What a broker request sends: broker/normalization.py prepares it,       *)
(* broker/upstream.py sends it and follows redirects, and the              *)
(* orchestrator applies the selected candidate's changes and sends the     *)
(* result once more.  RecoveryPipeline takes each of the two executions as *)
(* one step with one of the replies used here.                             *)
(***************************************************************************)
EXTENDS Integers, Sequences, FiniteSets, Functions

CONSTANTS
  ClientRequests,  \* what clients may send, and the restrictions it meets
  Methods,
  Names,           \* names of headers, parameters and body fields
  SecretHeaders,   \* names in _SECRET_HEADERS
  SecretParams,    \* names that match _SECRET_PARAM_PATTERNS
  Values,
  Urls,
  StartUrl,        \* the registered base URL with the endpoint's path
  HostOf,          \* host of each URL, or NoHost for a relative one
  Corrections,     \* the changes of the candidates that may be selected
  MaxRedirects

Redacted == "[REDACTED]"
NoHost   == "no host"
None     == "none"

Places == {"headers", "query", "body"}
FieldsOver(names) == UNION {[S -> Values \cup {Redacted}] : S \in SUBSET names}
Empty == << >>

Actions == {"parameter_rename", "remove_optional_field", "wait_and_retry"}
Change  == [action : Actions, place : Places, field : Names, to : Names \cup {None}]

Hosts == {HostOf[u] : u \in Urls} \ {NoHost}

\* A request, the registered_host of the API it names (which may be empty) and
\* settings.allowed_upstream_hosts (empty: no restriction).
ASSUME ExecutionAssumption ==
  /\ ClientRequests \subseteq [method : Methods, fields : [Places -> FieldsOver(Names)],
                              host : Hosts \cup {NoHost}, allowed : SUBSET Hosts]
  /\ \A c \in ClientRequests : \A p \in Places : IsFiniteSet(DOMAIN c.fields[p])
  /\ SecretHeaders \subseteq Names /\ SecretParams \subseteq Names
  /\ StartUrl \in Urls
  /\ Corrections \subseteq Seq(Change)
  /\ MaxRedirects \in Nat

VARIABLES
  client,    \* the request as received
  pc,
  attempt,   \* 1: the request, 2: the corrected request
  changes,   \* the changes of the selected candidate
  turn,      \* how many of them _apply_candidate has been through
  draft,     \* its copies of the headers, query parameters and body
  fields,    \* headers, query parameters and body of the current execution
  url, method, stripped, left,  \* the redirect loop's variables
  cleared,   \* ghost: URLs validated in the current execution
  sent,      \* HTTP requests sent so far
  replies    \* what each execution came to

loop == <<url, method, stripped, left>>
correction == <<changes, turn, draft>>
vars == <<client, pc, attempt, correction, fields, loop, cleared, sent, replies>>

Replies == {"ok", "http_error", "transport_error", "blocked", "redirect_blocked"}
Sent == [attempt : 1..2, url : Urls, method : Methods \cup {"GET"},
         fields : [Places -> FieldsOver(Names)]]

TypeOK ==
  /\ client \in ClientRequests
  /\ pc \in {"normalize", "check", "send", "failed", "apply", "done"}
  /\ attempt \in 1..2
  /\ changes \in Corrections \cup {Empty}
  /\ turn \in 0..Len(changes)
  /\ draft \in [Places -> FieldsOver(Names)]
  /\ fields \in [Places -> FieldsOver(Names)]
  /\ url \in Urls /\ method \in Methods \cup {"GET"} /\ stripped \in BOOLEAN
  /\ left \in 0..MaxRedirects
  /\ cleared \subseteq Urls
  /\ sent \in Seq(Sent)
  /\ replies \in [1..2 -> Replies \cup {None}]

Init ==
  /\ client \in ClientRequests
  /\ pc = "normalize"
  /\ attempt = 1
  /\ changes = Empty
  /\ turn = 0
  /\ draft = [p \in Places |-> Empty]
  /\ fields = client.fields
  /\ url = StartUrl /\ method = client.method /\ stripped = FALSE /\ left = MaxRedirects
  /\ cleared = {}
  /\ sent = <<>>
  /\ replies = [a \in 1..2 |-> None]

-------------------------------------------------------------------------------
(* Request data *)

Redact(f, secrets) == [n \in DOMAIN f |-> IF n \in secrets THEN Redacted ELSE f[n]]

\* Mutated form: the body is kept as it came.
Normalized_BodyKept(f) ==
  [f EXCEPT !["headers"] = Redact(@, SecretHeaders), !["query"] = Redact(@, SecretParams)]

\* normalize_request; an empty body is no body.
Normalized(f) ==
  [p \in Places |-> Redact(f[p], IF p = "headers" THEN SecretHeaders ELSE SecretParams)]

\* Mutated form: the renamed field is copied.
Renamed_Copied(f, old, new) ==
  [n \in DOMAIN f \cup {new} |-> IF n = new THEN f[old] ELSE f[n]]

Renamed(f, old, new) ==
  [n \in (DOMAIN f \ {old}) \cup {new} |-> IF n = new THEN f[old] ELSE f[n]]

\* One turn of _apply_candidate's loop; headers cannot be removed.
ApplyChange(f, c) ==
  LET p == c.place
  IN  CASE /\ c.action = "parameter_rename" /\ c.to # None
           /\ c.field \in DOMAIN f[p] -> [f EXCEPT ![p] = Renamed(@, c.field, c.to)]
        [] /\ c.action = "remove_optional_field" /\ p # "headers"
           /\ c.field \in DOMAIN f[p] -> [f EXCEPT ![p] = Restrict(@, DOMAIN @ \ {c.field})]
        [] OTHER -> f

-------------------------------------------------------------------------------
(* broker_execute and _pipeline around the executions *)

Normalize ==
  /\ pc = "normalize"
  /\ pc' = "check"
  /\ fields' = Normalized(client.fields)
  /\ UNCHANGED <<client, attempt, correction, loop, cleared, sent, replies>>

\* Mutated form: the corrected request's own failure starts another correction.
MayCorrect_Again == pc = "failed"

MayCorrect == pc = "failed" /\ attempt = 1

\* The first execution failed with a response or without, and a candidate with
\* these changes has been selected.  (One without is RecoveryPipeline's concern.)
\* _apply_candidate takes its copies of the parts.
Correct ==
  /\ MayCorrect
  /\ pc' = "apply"
  /\ changes' \in Corrections
  /\ turn' = 0
  /\ draft' = fields
  /\ UNCHANGED <<client, attempt, fields, loop, cleared, sent, replies>>

\* The loop over the changes; a wait sleeps here.
ApplyNext ==
  /\ pc = "apply"
  /\ turn < Len(changes)
  /\ turn' = turn + 1
  /\ draft' = ApplyChange(draft, changes[turn + 1])
  /\ UNCHANGED <<client, pc, attempt, changes, fields, loop, cleared, sent, replies>>

\* The corrected request is sent with `corrected or original`: a part that the
\* changes have emptied is sent as it was.
SendCorrected ==
  /\ pc = "apply"
  /\ turn = Len(changes)
  /\ pc' = "check"
  /\ attempt' = 2
  /\ fields' = [p \in Places |-> IF draft[p] = Empty THEN fields[p] ELSE draft[p]]
  /\ url' = StartUrl /\ method' = client.method /\ stripped' = FALSE
  /\ left' = MaxRedirects
  /\ cleared' = {}
  /\ UNCHANGED <<client, correction, sent, replies>>

GiveUp ==
  /\ pc = "failed"
  /\ pc' = "done"
  /\ UNCHANGED <<client, attempt, correction, fields, loop, cleared, sent, replies>>

-------------------------------------------------------------------------------
(* execute_upstream *)

\* Mutated form: the list of allowed hosts stands in for the registered host.
HostAccepted_Either(u) ==
  /\ HostOf[u] # NoHost
  /\ client.allowed = {} /\ client.host # NoHost => HostOf[u] = client.host
  /\ client.allowed # {} => HostOf[u] \in client.allowed

\* Without a registered host only the list of allowed hosts, if there is one, limits
\* where the request may go.
HostAccepted(u) ==
  /\ HostOf[u] # NoHost
  /\ client.host # NoHost => HostOf[u] = client.host
  /\ client.allowed # {} => HostOf[u] \in client.allowed

Ends(reply) ==
  /\ replies' = [replies EXCEPT ![attempt] = reply]
  /\ pc' = IF reply \in {"http_error", "transport_error"} THEN "failed" ELSE "done"

\* The host resolves to public addresses only, at this moment.
CheckStart ==
  /\ pc = "check"
  /\ HostAccepted(url)
  /\ pc' = "send"
  /\ cleared' = cleared \cup {url}
  /\ UNCHANGED <<client, attempt, correction, fields, loop, sent, replies>>

\* The host is not accepted, does not resolve, or has a private address.
CheckRefuses ==
  /\ pc = "check"
  /\ Ends("blocked")
  /\ UNCHANGED <<client, attempt, correction, fields, loop, cleared, sent>>

\* Mutated form: the body is sent again after a redirect.
Payload_Original == fields

Payload == IF stripped THEN [p \in Places |-> IF p = "headers" THEN fields[p] ELSE Empty]
                       ELSE fields

Transmit ==
  /\ pc = "send"
  /\ sent' = Append(sent, [attempt |-> attempt, url |-> url, method |-> method,
                           fields |-> Payload])

TransportError ==
  /\ Transmit
  /\ Ends("transport_error")
  /\ UNCHANGED <<client, attempt, correction, fields, loop, cleared>>

Answered ==
  /\ Transmit
  /\ \E reply \in {"ok", "http_error"} : Ends(reply)
  /\ UNCHANGED <<client, attempt, correction, fields, loop, cleared>>

\* Mutated form: the last redirect is followed as well.
RedirectsExhausted_Late == left < 0

RedirectsExhausted == left <= 0

\* A redirect without Location, or one too many: the 3xx response is the answer,
\* and counts as a success.
RedirectReturned ==
  /\ Transmit
  /\ Ends("ok")
  /\ UNCHANGED <<client, attempt, correction, fields, loop, cleared>>

\* Mutated form: the hops are counted from the last redirect.
LeftAfterHop_Fresh == MaxRedirects

LeftAfterHop == left - 1

RedirectFollowed ==
  /\ Transmit
  /\ ~RedirectsExhausted
  /\ \E u \in Urls :
       /\ HostAccepted(u)
       /\ url' = u
       /\ cleared' = cleared \cup {u}
  /\ left' = LeftAfterHop
  /\ \E status \in {"see_other", "moved"} :
       /\ stripped' = (stripped \/ status = "see_other")
       /\ method' = IF status = "see_other" THEN "GET" ELSE method
  /\ UNCHANGED <<client, pc, attempt, correction, fields, replies>>

\* A relative location has no host; an accepted one may resolve badly.
RedirectRefused ==
  /\ Transmit
  /\ ~RedirectsExhausted
  /\ Ends("redirect_blocked")
  /\ UNCHANGED <<client, attempt, correction, fields, loop, cleared>>

Quiescent == pc = "done" /\ UNCHANGED vars

Next ==
  \/ Normalize \/ GiveUp
  \/ Correct \/ ApplyNext \/ SendCorrected
  \/ CheckStart \/ CheckRefuses
  \/ TransportError \/ Answered
  \/ RedirectReturned \/ RedirectFollowed \/ RedirectRefused
  \/ Quiescent

Spec == Init /\ [][Next]_vars

-------------------------------------------------------------------------------
(* Properties *)

SentBy(a) == {i \in DOMAIN sent : sent[i].attempt = a}

\* An execution sends at most one request more than the redirect limit, in one
\* run of consecutive requests, and the reply it is recorded with says whether
\* anything was sent at all: that is what RecoveryPipeline counts on.
SendsBounded ==
  \A a \in 1..2 :
    /\ Cardinality(SentBy(a)) <= MaxRedirects + 1
    /\ replies[a] = "blocked" => SentBy(a) = {}
    /\ replies[a] \in Replies \ {"blocked"} => SentBy(a) # {}
    /\ SentBy(2) # {} => replies[1] \in {"http_error", "transport_error"}

\* Every request went to a URL with a host, the registered one if the API has one and
\* an allowed one if hosts are restricted, also both; it was validated for this very
\* execution, however many redirects led there.
OnlyValidatedDestinations ==
  /\ \A i \in DOMAIN sent :
       LET host == HostOf[sent[i].url]
       IN  /\ host # NoHost
           /\ client.host \in {host, NoHost}
           /\ client.allowed = {} \/ host \in client.allowed
           /\ sent[i].attempt = attempt => sent[i].url \in cleared
  /\ pc = "send" => url \in cleared

WithoutPayload(f) == f["query"] = Empty /\ f["body"] = Empty

\* Within an execution the payload is sent unchanged until a 303, and never after
\* it, whatever redirects follow; every further request is then a GET.  The
\* corrected execution starts again with the client's method.
PayloadNeverComesBack ==
  \A i, j \in DOMAIN sent :
    /\ i < j /\ sent[i].attempt = sent[j].attempt =>
         /\ sent[j].fields["headers"] = sent[i].fields["headers"]
         /\ \/ sent[j].fields = sent[i].fields /\ sent[j].method = sent[i].method
            \/ WithoutPayload(sent[j].fields) /\ sent[j].method = "GET"
    /\ sent[i].method # client.method => WithoutPayload(sent[i].fields)

\* Applying a candidate's changes in order, later ones to the results of earlier
\* ones, invents no value, never makes a part larger, and loses only fields that a
\* change names as its source.
CorrectionInventsNothing ==
  attempt = 2 =>
    LET before == Normalized(client.fields)
    IN  \A p \in Places :
          /\ Range(fields[p]) \subseteq Range(before[p])
          /\ Cardinality(DOMAIN fields[p]) <= Cardinality(DOMAIN before[p])
          /\ DOMAIN before[p] \ DOMAIN fields[p] \subseteq
               {changes[i].field : i \in {k \in DOMAIN changes : changes[k].place = p}}

\* What is sent is made of the mark and of values the client gave to fields that
\* are not secret: redaction comes before the first execution and renames, also to
\* names that are not secret, only move what it left.
SecretsStayOut ==
  \A i \in DOMAIN sent : \A p \in Places :
    LET secrets == IF p = "headers" THEN SecretHeaders ELSE SecretParams
        given == client.fields[p]
    IN  Range(sent[i].fields[p]) \subseteq
          {Redacted} \cup {given[n] : n \in DOMAIN given \ secrets}

\* The refinement mapping, for the one request the module follows: its correction is
\* claimed while it is prepared and cleared when the result replaces the request's
\* parts.  An execution counts once it is over, if it sent anything at all, however
\* many requests its redirects made of it.
Executed(a) == IF replies[a] # None /\ SentBy(a) # {} THEN 1 ELSE 0

Phase ==
  CASE pc = "normalize" -> "idle"
    [] attempt = 2 /\ pc \in {"check", "send"} -> "cleared"
    [] pc = "done" \/ (attempt = 2 /\ pc = "failed") -> "closed"
    [] OTHER -> "open"

Budget == INSTANCE ExecutionBudget WITH
  Requests     <- {"request"},
  Correlations <- {"id"},
  corr    <- [r \in {"request"} |-> "id"],
  phase   <- [r \in {"request"} |-> Phase],
  calls   <- [r \in {"request"} |-> Executed(1) + Executed(2)],
  claimed <- IF pc = "apply" \/ attempt = 2 THEN {"request"} ELSE {}

\* The executions as they are sent keep the promise that RecoveryPipeline keeps with
\* executions taken whole: one of the request as it came, one of a correction that
\* was claimed and cleared in between, and nothing after it.  (execute_upstream,
\* _apply_candidate and the calls of both)
ImplementsBudget == Budget!Spec

\* README.md:72 "Attempt 2: one approved corrected request".
CorrectedRequestIsSent == attempt = 2 => fields = draft
===============================================================================
