-------------------------- MODULE MCUpstreamExecution --------------------------
(***************************************************************************)
(* A small instance of UpstreamExecution for TLC: a few requests with a    *)
(* secret among their fields, APIs with and without a registered host, a   *)
(* list of allowed hosts or none, candidates whose changes build on each   *)
(* other.                                                                  *)
(***************************************************************************)
EXTENDS UpstreamExecution, TLC

CONSTANTS plain, secret, other

TheValues == {plain, secret, other}
TheNames  == {"amount", "note", "token"}
TheUrls   == {"start", "partner", "foreign", "relative"}
TheHosts  == [u \in TheUrls |-> CASE u = "start" -> "api"
                                  [] u \in {"partner", "foreign"} -> u
                                  [] OTHER -> NoHost]

OneHeader == "token" :> secret
Client(verb, body, query, host, allowed) ==
  [method |-> verb, host |-> host, allowed |-> allowed,
   fields |-> [p \in Places |-> CASE p = "headers" -> OneHeader
                                  [] p = "query" -> query
                                  [] OTHER -> body]]

\* One field, two fields, a field with a secret name; with and without a query.
FixedHost ==
  {Client("POST", "amount" :> plain, Empty, "api", {}),
   Client("PUT", ("amount" :> plain) @@ ("note" :> other), "note" :> plain, "api", {}),
   Client("POST", ("amount" :> plain) @@ ("token" :> secret), Empty, "api", {}),
   Client("GET", Empty, ("note" :> other) @@ ("token" :> secret), "api", {})}

\* A registered host on a list of several, and off the list; no registered host, with
\* a list and without.
OtherHosts ==
  {Client("POST", "amount" :> plain, Empty, "api", {"api", "partner"}),
   Client("POST", "amount" :> plain, Empty, "api", {"partner"}),
   Client("GET", Empty, "note" :> other, NoHost, {"api", "partner"}),
   Client("GET", Empty, "note" :> other, NoHost, {})}

SomeClients == FixedHost \cup OtherHosts

Do(action, place, field, to) ==
  [action |-> action, place |-> place, field |-> field, to |-> to]
RenameField(place, field, to) == Do("parameter_rename", place, field, to)
DropField(place, field) == Do("remove_optional_field", place, field, None)
Wait == Do("wait_and_retry", "body", "amount", None)

\* A rename, one onto another field, a chain, a removal, a wait, a mixture.
SomeCorrections ==
  {<<RenameField("body", "amount", "note")>>,
   <<RenameField("body", "amount", "note"), RenameField("body", "note", "token")>>,
   <<DropField("body", "amount")>>,
   <<Wait>>,
   <<DropField("headers", "token"), RenameField("query", "token", "note")>>}
===============================================================================
