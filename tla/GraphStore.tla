------------------------------ MODULE GraphStore ------------------------------
(***************************************************************************)
(* graph/service.py: the context graph, written by the recovery pipeline   *)
(* of concurrent requests.  A builder is one request's transaction: for    *)
(* every node and edge of its failure context, in a fixed order, it looks  *)
(* the row up and inserts it when it finds none.                           *)
(*                                                                         *)
(* RecoveryPipeline takes the whole construction for one look-up and one   *)
(* insert; here is what happens in between.                                *)
(***************************************************************************)
EXTENDS Integers, Sequences, FiniteSets, Functions

CONSTANTS
  Builders,
  Contexts   \* what the builders' failures are

Context == [api : STRING, endpoint : STRING, class : STRING, signature : STRING,
            context : STRING]

ASSUME GraphAssumption == Contexts \subseteq Context

VARIABLES
  graph,    \* the committed rows: <<row's key, the builder that inserted it>>
  context,  \* each builder's failure context
  stage,    \* "look", "insert", "committed", "failed"
  item,     \* which of its rows the builder is at
  own       \* the rows it has inserted and not committed

graphVars == <<graph, context, stage, item, own>>

-------------------------------------------------------------------------------
(* The rows of a failure context *)

NodeRow(type, external) == [node |-> type, id |-> external]
EdgeRow(source, target, type) == [source |-> source, target |-> target, type |-> type]

IsNode(row) == DOMAIN row = {"node", "id"}

ApiNode(c)       == NodeRow("API", <<c.api>>)
EndpointNode(c)  == NodeRow("ENDPOINT", <<c.api, c.endpoint>>)
ErrorTypeNode(c) == NodeRow("ERROR_TYPE", <<c.class>>)
SignatureNode(c) == NodeRow("ERROR_SIGNATURE", <<c.signature>>)
ContextNode(c)   == NodeRow("REQUEST_CONTEXT", <<c.context>>)

RowsOf(c) ==
  << ApiNode(c), EndpointNode(c), EdgeRow(ApiNode(c), EndpointNode(c), "HAS_ENDPOINT"),
     ErrorTypeNode(c), SignatureNode(c),
     EdgeRow(SignatureNode(c), ErrorTypeNode(c), "HAS_SCHEMA_FIELD"),
     ContextNode(c), EdgeRow(EndpointNode(c), ContextNode(c), "PRODUCES_ERROR"),
     EdgeRow(ContextNode(c), SignatureNode(c), "PRODUCES_ERROR") >>

Rows  == {entry[1] : entry \in graph}
Nodes == {row \in Rows : IsNode(row)}
Edges == {row \in Rows : ~IsNode(row)}

AllRows == UNION {Range(RowsOf(c)) : c \in Contexts}

GraphTypeOK ==
  /\ graph \subseteq AllRows \X Builders
  /\ context \in [Builders -> Contexts]
  /\ stage \in [Builders -> {"look", "insert", "committed", "failed"}]
  /\ item \in [Builders -> 1 .. 10]
  /\ own \in [Builders -> SUBSET AllRows]

GraphInit ==
  /\ graph = {}
  /\ context \in [Builders -> Contexts]
  /\ stage = [b \in Builders |-> "look"]
  /\ item = [b \in Builders |-> 1]
  /\ own = [b \in Builders |-> {}]

-------------------------------------------------------------------------------
(* build_failure_context_graph *)

Enter(b, next) == stage' = [stage EXCEPT ![b] = next]
Current(b) == RowsOf(context[b])[item[b]]
Built(b) == item[b] > Len(RowsOf(context[b]))

\* Mutated form: rows of other open transactions are found as well.
Visible_Dirty(b) == Rows \cup UNION {own[a] : a \in Builders}

\* READ COMMITTED, and the transaction's own rows.
Visible(b) == Rows \cup own[b]

LookUpFinds(b) ==
  /\ stage[b] = "look" /\ ~Built(b)
  /\ Current(b) \in Visible(b)
  /\ item' = [item EXCEPT ![b] = @ + 1]
  /\ UNCHANGED <<graph, context, stage, own>>

LookUpMisses(b) ==
  /\ stage[b] = "look" /\ ~Built(b)
  /\ Current(b) \notin Visible(b)
  /\ Enter(b, "insert")
  /\ UNCHANGED <<graph, context, item, own>>

Open(b) == stage[b] \in {"look", "insert"}
Held(b) == \E a \in Builders \ {b} : Open(a) /\ Current(b) \in own[a]

\* Mutated form: without the unique constraints.
KeyTaken_Never(b) == FALSE

\* uq_graph_node_type_external_id, uq_graph_edge_src_tgt_type
KeyTaken(b) == Current(b) \in Rows

InsertRow(b) ==
  /\ stage[b] = "insert" /\ ~Held(b)
  /\ ~KeyTaken(b)
  /\ own' = [own EXCEPT ![b] = @ \cup {Current(b)}]
  /\ item' = [item EXCEPT ![b] = @ + 1]
  /\ Enter(b, "look")
  /\ UNCHANGED <<graph, context>>

Undo(b) == own' = [own EXCEPT ![b] = {}]

\* The row was committed since the look-up.  The orchestrator swallows the error,
\* but its session is deactivated: nothing of the request is kept.
InsertFails(b) ==
  /\ stage[b] = "insert" /\ ~Held(b)
  /\ KeyTaken(b)
  /\ Enter(b, "failed") /\ Undo(b)
  /\ UNCHANGED <<graph, context, item>>

\* The end of the request, long after the construction.
CommitRows(b) ==
  /\ stage[b] = "look" /\ Built(b)
  /\ graph' = graph \cup (own[b] \X {b})
  /\ Enter(b, "committed") /\ Undo(b)
  /\ UNCHANGED <<context, item>>

RollbackRows(b) ==
  /\ Open(b)
  /\ Enter(b, "failed") /\ Undo(b)
  /\ UNCHANGED <<graph, context, item>>

GraphNext ==
  \E b \in Builders :
    \/ LookUpFinds(b) \/ LookUpMisses(b) \/ InsertRow(b) \/ InsertFails(b)
    \/ CommitRows(b) \/ RollbackRows(b)

-------------------------------------------------------------------------------
(* Properties *)

\* Look-ups by key find at most one row, whichever transactions overlap:
\* scalar_one_or_none never raises.
OneRowPerKey ==
  \A x, y \in graph : x[1] = y[1] => x = y

\* A committed request finds its whole context in the graph: the chain of edges
\* from the API to the signature and the type of the error, although rows of the
\* chain came from requests of which some were rolled back.
CommittedContextIsWhole ==
  /\ \A b \in Builders : stage[b] = "committed" => Range(RowsOf(context[b])) \subseteq Rows
  /\ \A edge \in Edges : {edge.source, edge.target} \subseteq Nodes
===============================================================================
