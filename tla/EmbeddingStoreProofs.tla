------------------------- MODULE EmbeddingStoreProofs -------------------------
(***************************************************************************)
(* Theorems about GraphStore and EmbeddingStore, for every value of the    *)
(* constants: any number of builders, failure contexts and embedding runs. *)
(***************************************************************************)
EXTENDS EmbeddingStore, FiniteSetTheorems, TLAPS

-------------------------------------------------------------------------------
(* The inductive invariant *)

\* What a builder has done: the rows before its place can be seen by it, those of
\* its own are not committed, and nobody else has inserted them.
BuilderOK(b) ==
  /\ ~Open(b) => own[b] = {}
  /\ Open(b) => \A i \in 1 .. item[b] - 1 : RowsOf(context[b])[i] \in Visible(b)
  /\ \A row \in own[b] : \E i \in 1 .. item[b] - 1 : row = RowsOf(context[b])[i]
  /\ stage[b] = "insert" => item[b] <= 9
  /\ own[b] \cap Rows = {}
  /\ \A a \in Builders \ {b} : own[a] \cap own[b] = {}
  /\ IsFiniteSet(own[b])

\* Every committed node is an end of a committed edge to another node.
Connected(n) == \E e \in Edges : n \in Ends(e) /\ e.source # e.target

GraphOK ==
  /\ \A b \in Builders : BuilderOK(b)
  /\ OneRowPerKey /\ CommittedContextIsWhole
  /\ \A n \in Nodes : Connected(n)
  /\ IsFiniteSet(Rows)

\* What a run has loaded, and which vectors are its own.
RunOK(r) ==
  /\ IsFiniteSet(loaded[r])
  /\ phase[r] = "edges" /\ r \in IncrementalRuns => \E m, n \in loaded[r] : m # n
  /\ \A u \in Runs : <<u, r>> \in before => phase[u] = "committed" /\ phase[r] # "idle"
  /\ \A rec \in records : rec[2] = r => phase[r] = "committed"
  /\ <<r, r>> \notin before

IInv ==
  /\ TypeOK /\ GraphOK
  /\ \A r \in Runs : RunOK(r)
  /\ RunsCoverTheirNodes /\ StaleOnlyByOverlap

-------------------------------------------------------------------------------
(* Lemmas about the rows of a context *)

\* The nine rows of a context, in the order in which they are looked up.
LEMMA RowsListed ==
  ASSUME NEW c
  PROVE  /\ Len(RowsOf(c)) = 9 /\ DOMAIN RowsOf(c) = 1..9
         /\ RowsOf(c)[1] = ApiNode(c) /\ RowsOf(c)[2] = EndpointNode(c)
         /\ RowsOf(c)[3] = EdgeRow(ApiNode(c), EndpointNode(c), "HAS_ENDPOINT")
         /\ RowsOf(c)[4] = ErrorTypeNode(c) /\ RowsOf(c)[5] = SignatureNode(c)
         /\ RowsOf(c)[6] = EdgeRow(SignatureNode(c), ErrorTypeNode(c), "HAS_SCHEMA_FIELD")
         /\ RowsOf(c)[7] = ContextNode(c)
         /\ RowsOf(c)[8] = EdgeRow(EndpointNode(c), ContextNode(c), "PRODUCES_ERROR")
         /\ RowsOf(c)[9] = EdgeRow(ContextNode(c), SignatureNode(c), "PRODUCES_ERROR")
BY DEF RowsOf

\* Nodes and edges differ, and an edge names its ends.
LEMMA RowKinds ==
  ASSUME NEW x, NEW y, NEW z
  PROVE  /\ IsNode(NodeRow(x, y)) /\ ~IsNode(EdgeRow(x, y, z))
         /\ NodeRow(x, y).node = x
         /\ EdgeRow(x, y, z).source = x /\ EdgeRow(x, y, z).target = y
<1>1. IsNode(NodeRow(x, y)) /\ NodeRow(x, y).node = x
  BY DEF IsNode, NodeRow
<1>2. EdgeRow(x, y, z).source = x /\ EdgeRow(x, y, z).target = y
  BY DEF EdgeRow
<1>3. ~IsNode(EdgeRow(x, y, z))
  <2>1. "source" \in DOMAIN EdgeRow(x, y, z)
    BY DEF EdgeRow
  <2>2. QED
    BY <2>1 DEF IsNode
<1>q. QED
  BY <1>1, <1>2, <1>3

\* The five nodes of a context are nodes, and no two neighbours are the same.
LEMMA ContextNodes ==
  ASSUME NEW c
  PROVE  /\ IsNode(ApiNode(c)) /\ IsNode(EndpointNode(c)) /\ IsNode(ErrorTypeNode(c))
         /\ IsNode(SignatureNode(c)) /\ IsNode(ContextNode(c))
         /\ ApiNode(c) # EndpointNode(c) /\ SignatureNode(c) # ErrorTypeNode(c)
         /\ EndpointNode(c) # ContextNode(c) /\ ContextNode(c) # SignatureNode(c)
<1>1. /\ IsNode(ApiNode(c)) /\ ApiNode(c).node = "API"
      /\ IsNode(EndpointNode(c)) /\ EndpointNode(c).node = "ENDPOINT"
      /\ IsNode(ErrorTypeNode(c)) /\ ErrorTypeNode(c).node = "ERROR_TYPE"
      /\ IsNode(SignatureNode(c)) /\ SignatureNode(c).node = "ERROR_SIGNATURE"
      /\ IsNode(ContextNode(c)) /\ ContextNode(c).node = "REQUEST_CONTEXT"
  BY RowKinds DEF ApiNode, EndpointNode, ErrorTypeNode, SignatureNode, ContextNode
<1>q. QED
  BY <1>1

\* The ends of an edge come before it.
LEMMA EndsComeFirst ==
  ASSUME NEW c, NEW i \in 1..9, ~IsNode(RowsOf(c)[i])
  PROVE  /\ \E j \in 1 .. i - 1 : RowsOf(c)[i].source = RowsOf(c)[j] /\ IsNode(RowsOf(c)[j])
         /\ \E j \in 1 .. i - 1 : RowsOf(c)[i].target = RowsOf(c)[j] /\ IsNode(RowsOf(c)[j])
<1>1. i \in {3, 6, 8, 9}
  BY RowsListed, ContextNodes
<1>2. CASE i = 3
  <2>1. /\ RowsOf(c)[3].source = RowsOf(c)[1] /\ IsNode(RowsOf(c)[1])
        /\ RowsOf(c)[3].target = RowsOf(c)[2] /\ IsNode(RowsOf(c)[2])
    BY RowsListed, RowKinds, ContextNodes
  <2>2. QED
    BY <1>2, <2>1
<1>3. CASE i = 6
  <2>1. /\ RowsOf(c)[6].source = RowsOf(c)[5] /\ IsNode(RowsOf(c)[5])
        /\ RowsOf(c)[6].target = RowsOf(c)[4] /\ IsNode(RowsOf(c)[4])
    BY RowsListed, RowKinds, ContextNodes
  <2>2. QED
    BY <1>3, <2>1
<1>4. CASE i = 8
  <2>1. /\ RowsOf(c)[8].source = RowsOf(c)[2] /\ IsNode(RowsOf(c)[2])
        /\ RowsOf(c)[8].target = RowsOf(c)[7] /\ IsNode(RowsOf(c)[7])
    BY RowsListed, RowKinds, ContextNodes
  <2>2. QED
    BY <1>4, <2>1
<1>5. CASE i = 9
  <2>1. /\ RowsOf(c)[9].source = RowsOf(c)[7] /\ IsNode(RowsOf(c)[7])
        /\ RowsOf(c)[9].target = RowsOf(c)[5] /\ IsNode(RowsOf(c)[5])
    BY RowsListed, RowKinds, ContextNodes
  <2>2. QED
    BY <1>5, <2>1
<1>q. QED
  BY <1>1, <1>2, <1>3, <1>4, <1>5

\* Every node of a context is the end of one of its edges, and not both ends.
LEMMA NodesAreLinked ==
  ASSUME NEW c, NEW i \in 1..9, IsNode(RowsOf(c)[i])
  PROVE  \E j \in 1..9 : /\ ~IsNode(RowsOf(c)[j]) /\ RowsOf(c)[i] \in Ends(RowsOf(c)[j])
                          /\ RowsOf(c)[j].source # RowsOf(c)[j].target
<1>1. i \in {1, 2, 4, 5, 7}
  BY RowsListed, RowKinds
<1>2. /\ ~IsNode(RowsOf(c)[3]) /\ RowsOf(c)[3].source # RowsOf(c)[3].target
      /\ Ends(RowsOf(c)[3]) = {RowsOf(c)[1], RowsOf(c)[2]}
  BY RowsListed, RowKinds, ContextNodes DEF Ends
<1>3. /\ ~IsNode(RowsOf(c)[6]) /\ RowsOf(c)[6].source # RowsOf(c)[6].target
      /\ Ends(RowsOf(c)[6]) = {RowsOf(c)[5], RowsOf(c)[4]}
  BY RowsListed, RowKinds, ContextNodes DEF Ends
<1>4. /\ ~IsNode(RowsOf(c)[8]) /\ RowsOf(c)[8].source # RowsOf(c)[8].target
      /\ Ends(RowsOf(c)[8]) = {RowsOf(c)[2], RowsOf(c)[7]}
  BY RowsListed, RowKinds, ContextNodes DEF Ends
<1>q. QED
  BY <1>1, <1>2, <1>3, <1>4

-------------------------------------------------------------------------------
(* The steps of a builder *)

\* Where a builder is at.
LEMMA CurrentRow ==
  ASSUME TypeOK, NEW b \in Builders
  PROVE  /\ Built(b) <=> item[b] = 10
         /\ ~Built(b) => item[b] \in 1..9 /\ Current(b) \in AllRows
<1>1. item[b] \in 1..10 /\ context[b] \in Contexts
  BY DEF TypeOK, GraphTypeOK
<1>2. Built(b) <=> item[b] = 10
  <2>1. Len(RowsOf(context[b])) = 9
    BY RowsListed
  <2>2. item[b] > 9 <=> item[b] = 10
    BY <1>1
  <2>3. QED
    BY <2>1, <2>2 DEF Built
<1>3. ASSUME item[b] \in 1..9  PROVE Current(b) \in Range(RowsOf(context[b]))
  BY <1>3, RowsListed DEF Current, Range
<1>q. QED
  BY <1>1, <1>2, <1>3 DEF AllRows

\* A step that commits nothing keeps all but what is said of the builders.
LEMMA UncommittedStep ==
  ASSUME IInv, GraphTypeOK', UNCHANGED <<graph, context>>, UNCHANGED embVars,
         \A b \in Builders : BuilderOK(b)',
         \A b \in Builders : stage'[b] = "committed" => stage[b] = "committed"
  PROVE  IInv'
<1>1. Rows' = Rows /\ Nodes' = Nodes /\ Edges' = Edges
  BY DEF Rows, Nodes, Edges
<1>2. TypeOK'
  BY <1>1 DEF IInv, TypeOK, embVars
<1>3. GraphOK'
  <2>1. OneRowPerKey'
    BY DEF IInv, GraphOK, OneRowPerKey
  <2>2. CommittedContextIsWhole'
    BY <1>1 DEF IInv, GraphOK, CommittedContextIsWhole
  <2>3. \A n \in Nodes : Connected(n)' <=> Connected(n)
    BY <1>1 DEF Connected
  <2>4. QED
    BY <1>1, <2>1, <2>2, <2>3 DEF IInv, GraphOK
<1>4. ASSUME NEW r \in Runs  PROVE RunOK(r)'
  BY DEF IInv, RunOK, embVars
<1>5. RunsCoverTheirNodes' /\ StaleOnlyByOverlap'
  BY DEF IInv, RunsCoverTheirNodes, StaleOnlyByOverlap, Embedded, embVars
<1>q. QED
  BY <1>2, <1>3, <1>4, <1>5 DEF IInv

\* A builder that sees the row goes on to the next.
LEMMA LookUpFindsStep ==
  ASSUME IInv, NEW b \in Builders, LookUpFinds(b), UNCHANGED embVars
  PROVE  IInv'
<1>1. TypeOK /\ item[b] \in 1..9
  BY CurrentRow DEF IInv, LookUpFinds
<1>2. /\ stage[b] = "look" /\ Current(b) \in Visible(b)
      /\ item' = [item EXCEPT ![b] = @ + 1] /\ UNCHANGED <<graph, context, stage, own>>
  BY DEF LookUpFinds
<1>3. GraphTypeOK'
  BY <1>1, <1>2 DEF TypeOK, GraphTypeOK
<1>4. ASSUME NEW a \in Builders  PROVE BuilderOK(a)'
  <2>0. /\ BuilderOK(a) /\ Rows' = Rows /\ Visible(a)' = Visible(a) /\ (Open(a)' <=> Open(a))
    BY <1>2 DEF IInv, GraphOK, Rows, Visible, Open
  <2>1. CASE a = b
    <3>1. item'[a] = item[a] + 1 /\ item[a] \in 1..9 /\ own' = own
      BY <1>1, <1>2, <2>1 DEF TypeOK, GraphTypeOK
    <3>2. RowsOf(context[a])[item[a]] \in Visible(a)
      BY <1>2, <2>1 DEF Current
    <3>3. Open(a) => \A i \in 1 .. item'[a] - 1 : RowsOf(context[a])[i] \in Visible(a)
      BY <2>0, <3>1, <3>2 DEF BuilderOK
    <3>4. \A row \in own[a] : \E i \in 1 .. item'[a] - 1 : row = RowsOf(context[a])[i]
      <4> SUFFICES ASSUME NEW row \in own[a]
                   PROVE  \E i \in 1 .. item'[a] - 1 : row = RowsOf(context[a])[i]
        OBVIOUS
      <4>1. PICK i \in 1 .. item[a] - 1 : row = RowsOf(context[a])[i]
        BY <2>0 DEF BuilderOK
      <4>2. i \in 1 .. item'[a] - 1
        BY <3>1
      <4>3. QED
        BY <4>1, <4>2
    <3>5. stage'[a] # "insert"
      BY <1>2, <2>1
    <3>6. QED
      BY <1>2, <2>0, <3>3, <3>4, <3>5 DEF BuilderOK
  <2>2. CASE a # b
    <3>1. item'[a] = item[a]
      BY <1>2, <2>2 DEF IInv, TypeOK, GraphTypeOK
    <3>2. QED
      BY <1>2, <2>0, <3>1 DEF BuilderOK
  <2>3. QED
    BY <2>1, <2>2
<1>q. QED
  BY <1>2, <1>3, <1>4, UncommittedStep

\* A builder that does not see the row is about to insert it.
LEMMA LookUpMissesStep ==
  ASSUME IInv, NEW b \in Builders, LookUpMisses(b), UNCHANGED embVars
  PROVE  IInv'
<1>1. TypeOK /\ item[b] \in 1..9
  BY CurrentRow DEF IInv, LookUpMisses
<1>2. /\ stage[b] = "look" /\ stage' = [stage EXCEPT ![b] = "insert"]
      /\ UNCHANGED <<graph, context, item, own>>
  BY DEF LookUpMisses, Enter
<1>3. GraphTypeOK'
  BY <1>1, <1>2 DEF TypeOK, GraphTypeOK
<1>4. ASSUME NEW a \in Builders  PROVE BuilderOK(a)'
  <2>1. /\ BuilderOK(a) /\ Rows' = Rows /\ Visible(a)' = Visible(a) /\ (Open(a)' <=> Open(a))
    BY <1>1, <1>2 DEF IInv, GraphOK, Rows, Visible, Open, TypeOK, GraphTypeOK
  <2>2. stage'[a] = "insert" => item[a] <= 9
    BY <1>1, <1>2, <2>1 DEF BuilderOK, TypeOK, GraphTypeOK
  <2>3. QED
    BY <1>2, <2>1, <2>2 DEF BuilderOK
<1>5. \A a \in Builders : stage'[a] = "committed" => stage[a] = "committed"
  BY <1>1, <1>2 DEF TypeOK, GraphTypeOK
<1>q. QED
  BY <1>2, <1>3, <1>4, <1>5, UncommittedStep

\* The row is new, also to the other open transactions.
LEMMA InsertRowStep ==
  ASSUME IInv, NEW b \in Builders, InsertRow(b), UNCHANGED embVars
  PROVE  IInv'
<1> DEFINE new == Current(b)
<1>1. TypeOK /\ BuilderOK(b)
  BY DEF IInv, GraphOK
<1>2. /\ stage[b] = "insert" /\ ~Held(b) /\ new \notin Rows
      /\ own' = [own EXCEPT ![b] = @ \cup {new}] /\ item' = [item EXCEPT ![b] = @ + 1]
      /\ stage' = [stage EXCEPT ![b] = "look"] /\ UNCHANGED <<graph, context>>
  BY DEF InsertRow, KeyTaken, Enter
<1>3. item[b] \in 1..9 /\ new \in AllRows /\ new = RowsOf(context[b])[item[b]]
  <2>1. item[b] \in 1..9
    BY <1>1, <1>2 DEF BuilderOK, TypeOK, GraphTypeOK
  <2>2. QED
    BY <1>1, <2>1, CurrentRow DEF Current
<1>4. \A a \in Builders \ {b} : new \notin own[a]
  BY <1>2 DEF Held, IInv, GraphOK, BuilderOK
<1>5. /\ own'[b] = own[b] \cup {new} /\ item'[b] = item[b] + 1
      /\ \A a \in Builders \ {b} : own'[a] = own[a] /\ item'[a] = item[a]
      /\ \A a \in Builders : Open(a)' <=> Open(a)
      /\ Rows' = Rows
  BY <1>1, <1>2 DEF TypeOK, GraphTypeOK, Open, Rows
<1> HIDE DEF new
<1>6. GraphTypeOK'
  BY <1>1, <1>2, <1>3 DEF TypeOK, GraphTypeOK
<1>7. BuilderOK(b)'
  <2>1. ~Open(b)' => own'[b] = {}
    BY <1>2, <1>5 DEF Open
  <2>2. \A i \in 1 .. item'[b] - 1 : RowsOf(context[b])[i] \in Visible(b)'
    <3> SUFFICES ASSUME NEW i \in 1 .. item'[b] - 1
                 PROVE  RowsOf(context[b])[i] \in Visible(b)'
      OBVIOUS
    <3>1. i \in 1 .. item[b] - 1 \/ i = item[b]
      BY <1>3, <1>5
    <3>2. Visible(b)' = Visible(b) \cup {new} /\ Open(b)
      BY <1>2, <1>5 DEF Visible, Open
    <3>3. QED
      BY <1>1, <1>3, <3>1, <3>2 DEF BuilderOK
  <2>3. \A row \in own'[b] : \E i \in 1 .. item'[b] - 1 : row = RowsOf(context[b])[i]
    <3> SUFFICES ASSUME NEW row \in own'[b]
                 PROVE  \E i \in 1 .. item'[b] - 1 : row = RowsOf(context[b])[i]
      OBVIOUS
    <3>1. CASE row \in own[b]
      <4>1. PICK i \in 1 .. item[b] - 1 : row = RowsOf(context[b])[i]
        BY <1>1, <3>1 DEF BuilderOK
      <4>2. i \in 1 .. item'[b] - 1
        BY <1>3, <1>5
      <4>3. QED
        BY <4>1, <4>2
    <3>2. CASE row = new
      <4>1. item[b] \in 1 .. item'[b] - 1
        BY <1>3, <1>5
      <4>2. QED
        BY <1>3, <3>2, <4>1
    <3>3. QED
      BY <1>5, <3>1, <3>2
  <2>4. stage'[b] # "insert"
    BY <1>1, <1>2 DEF TypeOK, GraphTypeOK
  <2>5. own'[b] \cap Rows' = {} /\ \A a \in Builders \ {b} : own'[a] \cap own'[b] = {}
    BY <1>1, <1>2, <1>4, <1>5 DEF BuilderOK
  <2>6. IsFiniteSet(own'[b])
    BY <1>1, <1>5, FS_AddElement DEF BuilderOK
  <2>7. QED
    BY <1>2, <2>1, <2>2, <2>3, <2>4, <2>5, <2>6 DEF BuilderOK
<1>8. ASSUME NEW a \in Builders \ {b}  PROVE BuilderOK(a)'
  <2>1. BuilderOK(a) /\ stage'[a] = stage[a] /\ Visible(a)' = Visible(a)
    BY <1>1, <1>2, <1>5 DEF IInv, GraphOK, TypeOK, GraphTypeOK, Visible
  <2>2. \A u \in Builders \ {a} : own'[u] \cap own'[a] = {}
    BY <1>4, <1>5, <2>1 DEF BuilderOK
  <2>3. QED
    BY <1>2, <1>5, <2>1, <2>2 DEF BuilderOK
<1>9. \A a \in Builders : stage'[a] = "committed" => stage[a] = "committed"
  BY <1>1, <1>2 DEF TypeOK, GraphTypeOK
<1>q. QED
  BY <1>2, <1>6, <1>7, <1>8, <1>9, UncommittedStep

\* An end without a commit takes the builder's rows along.
LEMMA UndoStep ==
  ASSUME IInv, NEW b \in Builders, Enter(b, "failed"), Undo(b),
         UNCHANGED <<graph, context, item>>, UNCHANGED embVars
  PROVE  IInv'
<1>1. /\ TypeOK /\ own' = [own EXCEPT ![b] = {}] /\ stage' = [stage EXCEPT ![b] = "failed"]
  BY DEF IInv, Undo, Enter
<1>2. GraphTypeOK'
  BY <1>1 DEF TypeOK, GraphTypeOK
<1>3. ASSUME NEW a \in Builders  PROVE BuilderOK(a)'
  <2>0. /\ BuilderOK(a) /\ Rows' = Rows /\ own'[b] = {} /\ stage'[b] = "failed"
        /\ \A u \in Builders \ {b} : own'[u] = own[u] /\ stage'[u] = stage[u]
    BY <1>1 DEF IInv, GraphOK, TypeOK, GraphTypeOK, Rows
  <2>1. CASE a = b
    <3>1. IsFiniteSet(own'[a])
      BY <2>0, <2>1, FS_EmptySet
    <3>2. QED
      BY <2>0, <2>1, <3>1 DEF BuilderOK, Open
  <2>2. CASE a # b
    <3>1. own'[a] = own[a] /\ stage'[a] = stage[a] /\ Visible(a)' = Visible(a)
      BY <2>0, <2>2 DEF Visible
    <3>2. \A u \in Builders \ {a} : own'[u] \cap own'[a] = {}
      BY <2>0, <3>1 DEF BuilderOK
    <3>3. QED
      BY <2>0, <3>1, <3>2 DEF BuilderOK, Open
  <2>3. QED
    BY <2>1, <2>2
<1>4. \A a \in Builders : stage'[a] = "committed" => stage[a] = "committed"
  BY <1>1 DEF TypeOK, GraphTypeOK
<1>q. QED
  BY <1>2, <1>3, <1>4, UncommittedStep

\* A commit brings whole contexts: the edges' ends come along or were there, and
\* no row that was.
LEMMA CommitRowsStep ==
  ASSUME IInv, NEW b \in Builders, CommitRows(b), UNCHANGED embVars
  PROVE  IInv'
<1> DEFINE c == context[b]
<1>1. /\ TypeOK /\ BuilderOK(b) /\ item[b] = 10 /\ Open(b)
  BY CurrentRow DEF IInv, GraphOK, CommitRows, Open
<1>2. /\ graph' = graph \cup (own[b] \X {b}) /\ own' = [own EXCEPT ![b] = {}]
      /\ stage' = [stage EXCEPT ![b] = "committed"] /\ UNCHANGED <<context, item>>
  BY DEF CommitRows, Enter, Undo
<1>3. Rows' = Rows \cup own[b]
  <2>1. \A row : row \in Rows <=> \E entry \in graph : row = entry[1]
    BY DEF Rows
  <2>2. \A row : row \in Rows' <=> \E entry \in graph' : row = entry[1]
    BY DEF Rows
  <2>3. ASSUME NEW row \in own[b]  PROVE row \in Rows'
    <3>1. <<row, b>> \in graph' /\ <<row, b>>[1] = row
      BY <1>2
    <3>2. QED
      BY <2>2, <3>1
  <2>4. ASSUME NEW row \in Rows  PROVE row \in Rows'
    BY <1>2, <2>1, <2>2
  <2>5. ASSUME NEW row \in Rows'  PROVE row \in Rows \cup own[b]
    <3>1. PICK entry \in graph' : row = entry[1]
      BY <2>2
    <3>2. CASE entry \in graph
      BY <2>1, <3>1, <3>2
    <3>3. CASE entry \in own[b] \X {b}
      BY <3>1, <3>3
    <3>4. QED
      BY <1>2, <3>1, <3>2, <3>3
  <2>6. QED
    BY <2>3, <2>4, <2>5
<1>4. Nodes \subseteq Nodes' /\ Edges \subseteq Edges'
  BY <1>3 DEF Nodes, Edges
<1>5. \A i \in 1..9 : RowsOf(c)[i] \in Rows'
  BY <1>1, <1>3 DEF BuilderOK, Visible
<1>6. \A row \in own[b] : \E i \in 1..9 : row = RowsOf(c)[i]
  BY <1>1 DEF BuilderOK
<1>7. GraphTypeOK'
  BY <1>1, <1>2 DEF TypeOK, GraphTypeOK
<1>8. TypeOK'
  <2>1. /\ loaded' \in [Runs -> SUBSET Nodes'] /\ linked' \in [Runs -> SUBSET Edges']
        /\ records' \subseteq Nodes' \X Runs
    BY <1>1, <1>4 DEF TypeOK, embVars
  <2>2. QED
    BY <1>1, <1>7, <2>1 DEF TypeOK, embVars
<1>9. ASSUME NEW a \in Builders  PROVE BuilderOK(a)'
  <2>0. /\ BuilderOK(a) /\ own'[b] = {} /\ stage'[b] = "committed"
        /\ \A u \in Builders \ {b} : own'[u] = own[u] /\ stage'[u] = stage[u]
    BY <1>1, <1>2 DEF IInv, GraphOK, TypeOK, GraphTypeOK
  <2>1. CASE a = b
    <3>1. IsFiniteSet(own'[a])
      BY <2>0, <2>1, FS_EmptySet
    <3>2. QED
      BY <2>0, <2>1, <3>1 DEF BuilderOK, Open
  <2>2. CASE a # b
    <3>1. own'[a] = own[a] /\ stage'[a] = stage[a] /\ Visible(a) \subseteq Visible(a)'
      BY <1>3, <2>0, <2>2 DEF Visible
    <3>2. \A u \in Builders \ {a} : own'[u] \cap own'[a] = {}
      BY <2>0, <3>1 DEF BuilderOK
    <3>3. own'[a] \cap Rows' = {}
      BY <1>3, <2>0, <2>2, <3>1 DEF BuilderOK
    <3>4. (Open(a)' <=> Open(a)) /\ item' = item /\ context' = context
      BY <1>2, <3>1 DEF Open
    <3>5. QED
      BY <2>0, <3>1, <3>2, <3>3, <3>4 DEF BuilderOK
  <2>3. QED
    BY <2>1, <2>2
<1>10. OneRowPerKey'
  <2> SUFFICES ASSUME NEW x \in graph', NEW y \in graph', x[1] = y[1]
               PROVE  x = y
    BY DEF OneRowPerKey
  <2>1. \A z \in graph : z[1] \in Rows
    BY DEF Rows
  <2>2. own[b] \cap Rows = {}
    BY <1>1 DEF BuilderOK
  <2>3. \A z \in own[b] \X {b} : z = <<z[1], b>> /\ z[1] \in own[b]
    OBVIOUS
  <2>4. CASE x \in graph /\ y \in graph
    BY <2>4 DEF IInv, GraphOK, OneRowPerKey
  <2>5. CASE x \in own[b] \X {b} /\ y \in own[b] \X {b}
    BY <2>3, <2>5
  <2>6. QED
    BY <1>2, <2>1, <2>2, <2>3, <2>4, <2>5
<1>11. CommittedContextIsWhole'
  <2>1. ASSUME NEW a \in Builders, stage'[a] = "committed"
        PROVE  Range(RowsOf(context[a])) \subseteq Rows'
    <3>1. CASE a = b
      BY <1>5, <3>1, RowsListed DEF Range
    <3>2. CASE a # b
      <4>1. stage[a] = "committed"
        BY <1>1, <1>2, <2>1, <3>2 DEF TypeOK, GraphTypeOK
      <4>2. QED
        BY <1>3, <4>1 DEF IInv, GraphOK, CommittedContextIsWhole
    <3>3. QED
      BY <3>1, <3>2
  <2>2. ASSUME NEW edge \in Edges'  PROVE {edge.source, edge.target} \subseteq Nodes'
    <3>1. CASE edge \in Edges
      BY <1>4, <3>1 DEF IInv, GraphOK, CommittedContextIsWhole
    <3>2. CASE edge \in own[b]
      <4>1. PICK i \in 1..9 : edge = RowsOf(c)[i]
        BY <1>6, <3>2
      <4>2. ~IsNode(RowsOf(c)[i])
        BY <4>1 DEF Edges
      <4>3. \A j \in 1 .. i - 1 : RowsOf(c)[j] \in Rows'
        BY <1>5
      <4>4. edge.source \in Nodes' /\ edge.target \in Nodes'
        BY <4>1, <4>2, <4>3, EndsComeFirst DEF Nodes
      <4>5. QED
        BY <4>4
    <3>3. QED
      BY <1>3, <3>1, <3>2 DEF Edges
  <2>3. QED
    BY <1>2, <2>1, <2>2 DEF CommittedContextIsWhole
<1>12. ASSUME NEW n \in Nodes'  PROVE Connected(n)'
  <2>1. CASE n \in Nodes
    BY <1>4, <2>1 DEF IInv, GraphOK, Connected
  <2>2. CASE n \in own[b]
    <3>1. PICK i \in 1..9 : n = RowsOf(c)[i]
      BY <1>6, <2>2
    <3>2. IsNode(RowsOf(c)[i])
      BY <3>1 DEF Nodes
    <3>3. PICK j \in 1..9 : /\ ~IsNode(RowsOf(c)[j]) /\ RowsOf(c)[i] \in Ends(RowsOf(c)[j])
                            /\ RowsOf(c)[j].source # RowsOf(c)[j].target
      BY <3>2, NodesAreLinked
    <3>4. RowsOf(c)[j] \in Edges'
      BY <1>5, <3>3 DEF Edges
    <3>5. QED
      BY <3>1, <3>3, <3>4 DEF Connected
  <2>3. QED
    BY <1>3, <2>1, <2>2 DEF Nodes
<1>13. IsFiniteSet(Rows')
  BY <1>1, <1>3, FS_Union DEF IInv, GraphOK, BuilderOK
<1>14. GraphOK'
  BY <1>9, <1>10, <1>11, <1>12, <1>13 DEF GraphOK
<1>15. ASSUME NEW r \in Runs  PROVE RunOK(r)'
  BY DEF IInv, RunOK, embVars
<1>16. RunsCoverTheirNodes' /\ StaleOnlyByOverlap'
  BY DEF IInv, RunsCoverTheirNodes, StaleOnlyByOverlap, Embedded, embVars
<1>q. QED
  BY <1>8, <1>14, <1>15, <1>16 DEF IInv

\* A builder's step leaves runs and records alone and only adds to the graph.
LEMMA GraphStep ==
  ASSUME IInv, GraphNext, UNCHANGED embVars
  PROVE  IInv'
<1>1. ASSUME NEW b \in Builders, InsertFails(b) \/ RollbackRows(b)  PROVE IInv'
  BY <1>1, UndoStep DEF InsertFails, RollbackRows
<1>q. QED
  BY <1>1, LookUpFindsStep, LookUpMissesStep, InsertRowStep, CommitRowsStep DEF GraphNext

-------------------------------------------------------------------------------
(* The steps of a run *)

\* A run's step leaves the graph as it is.
LEMMA GraphKept ==
  ASSUME IInv, UNCHANGED graphVars
  PROVE  /\ GraphTypeOK' /\ GraphOK'
         /\ Rows' = Rows /\ Nodes' = Nodes /\ Edges' = Edges
<1>1. /\ graph' = graph /\ context' = context /\ stage' = stage /\ item' = item /\ own' = own
  BY DEF graphVars
<1>2. Rows' = Rows /\ Nodes' = Nodes /\ Edges' = Edges
  BY <1>1 DEF Rows, Nodes, Edges
<1>3. GraphTypeOK'
  BY <1>1 DEF IInv, TypeOK, GraphTypeOK
<1>4. \A b \in Builders : BuilderOK(b)'
  BY <1>1, <1>2 DEF IInv, GraphOK, BuilderOK, Open, Visible
<1>5. OneRowPerKey' /\ CommittedContextIsWhole'
  BY <1>1, <1>2 DEF IInv, GraphOK, OneRowPerKey, CommittedContextIsWhole
<1>6. \A n \in Nodes : Connected(n)' <=> Connected(n)
  BY <1>2 DEF Connected
<1>q. QED
  BY <1>2, <1>3, <1>4, <1>5, <1>6 DEF IInv, GraphOK

LEMMA NodesFinite ==
  ASSUME IInv, NEW S, S \subseteq Nodes
  PROVE  IsFiniteSet(S)
<1>1. S \subseteq Rows
  BY DEF Nodes
<1>q. QED
  BY <1>1, FS_Subset DEF IInv, GraphOK

LEMMA TwoElements ==
  ASSUME NEW S, IsFiniteSet(S), NEW m \in S, NEW n \in S, m # n
  PROVE  ~(Cardinality(S) < 2)
<1>1. IsFiniteSet({m}) /\ Cardinality({m}) = 1
  BY FS_Singleton
<1>2. Cardinality({m} \cup {n}) = 2
  BY <1>1, FS_AddElement
<1>3. {m} \cup {n} \in SUBSET S
  OBVIOUS
<1>4. Cardinality({m} \cup {n}) <= Cardinality(S)
  BY <1>3, FS_Subset
<1>5. Cardinality(S) \in Nat
  BY FS_CardinalityType
<1>q. QED
  BY <1>2, <1>4, <1>5

\* A run that begins: what has been committed before, it comes after.
LEMMA BeginStep ==
  ASSUME IInv, NEW r \in Runs, NEW nodes, nodes \subseteq Nodes,
         NEW next \in {"edges", "committed"},
         phase[r] = "idle", next = "committed" => nodes = {},
         next = "edges" /\ r \in IncrementalRuns => \E m, n \in nodes : m # n,
         loaded' = [loaded EXCEPT ![r] = nodes], Proceed(r, next), Began(r),
         UNCHANGED <<graphVars, linked, records>>
  PROVE  IInv'
<1>1. /\ phase' = [phase EXCEPT ![r] = next] /\ linked' = linked /\ records' = records
      /\ before' = before \cup ({u \in Runs : phase[u] = "committed"} \X {r})
      /\ UNCHANGED graphVars
  BY DEF Proceed, Began
<1>2. GraphTypeOK' /\ GraphOK' /\ Nodes' = Nodes /\ Edges' = Edges
  BY <1>1, GraphKept
<1>3. TypeOK /\ TypeOK'
  BY <1>1, <1>2 DEF IInv, TypeOK
<1>4. /\ phase'[r] = next /\ loaded'[r] = nodes
      /\ \A u \in Runs \ {r} : phase'[u] = phase[u] /\ loaded'[u] = loaded[u]
  BY <1>1, <1>3 DEF TypeOK
<1>5. \A rec \in records : rec[2] # r
  BY DEF IInv, RunOK
<1>6. ASSUME NEW u \in Runs, NEW v \in Runs, <<u, v>> \in before'
      PROVE  /\ v # r => <<u, v>> \in before
             /\ u # r /\ phase[u] = "committed"
  <2>1. CASE <<u, v>> \in before
    BY <2>1 DEF IInv, RunOK
  <2>2. CASE <<u, v>> \in {w \in Runs : phase[w] = "committed"} \X {r}
    BY <2>2
  <2>3. QED
    BY <1>1, <1>6, <2>1, <2>2
<1>7. ASSUME NEW u \in Runs  PROVE RunOK(u)'
  <2>1. IsFiniteSet(loaded'[u])
    BY <1>3, <1>4, NodesFinite DEF IInv, RunOK
  <2>2. phase'[u] = "edges" /\ u \in IncrementalRuns => \E m, n \in loaded'[u] : m # n
    <3> SUFFICES ASSUME phase'[u] = "edges", u \in IncrementalRuns
                 PROVE  \E m, n \in loaded'[u] : m # n
      OBVIOUS
    <3>1. CASE u = r
      <4>1. PICK m \in nodes, n \in nodes : m # n
        BY <1>4, <3>1
      <4>2. m \in loaded'[u] /\ n \in loaded'[u]
        BY <1>4, <3>1
      <4>3. QED
        BY <4>1, <4>2
    <3>2. CASE u # r
      <4>1. phase[u] = "edges" /\ loaded'[u] = loaded[u]
        BY <1>4, <3>2
      <4>2. PICK m \in loaded[u], n \in loaded[u] : m # n
        BY <4>1 DEF IInv, RunOK
      <4>3. QED
        BY <4>1, <4>2
    <3>3. QED
      BY <3>1, <3>2
  <2>3. \A w \in Runs : <<w, u>> \in before' => phase'[w] = "committed" /\ phase'[u] # "idle"
    <3> SUFFICES ASSUME NEW w \in Runs, <<w, u>> \in before'
                 PROVE  phase'[w] = "committed" /\ phase'[u] # "idle"
      OBVIOUS
    <3>1. w # r /\ phase[w] = "committed" /\ (u # r => <<w, u>> \in before)
      BY <1>6
    <3>2. CASE u = r
      BY <1>4, <3>1, <3>2
    <3>3. CASE u # r
      BY <1>4, <3>1, <3>3 DEF IInv, RunOK
    <3>4. QED
      BY <3>2, <3>3
  <2>4. \A rec \in records' : rec[2] = u => phase'[u] = "committed"
    BY <1>1, <1>4, <1>5 DEF IInv, RunOK
  <2>5. <<u, u>> \notin before'
    <3> SUFFICES ASSUME <<u, u>> \in before'  PROVE FALSE
      OBVIOUS
    <3>1. u # r /\ (u # r => <<u, u>> \in before)
      BY <1>6
    <3>2. QED
      BY <3>1 DEF IInv, RunOK
  <2>6. QED
    BY <2>1, <2>2, <2>3, <2>4, <2>5 DEF RunOK
<1>8. RunsCoverTheirNodes'
  <2> SUFFICES ASSUME NEW u \in Runs
               PROVE  /\ u \in FullRuns /\ phase'[u] = "committed" =>
                           loaded'[u] \subseteq {rec[1] : rec \in records'}
                      /\ \A rec \in records' : rec[2] = u => rec[1] \in loaded'[u]
    BY DEF RunsCoverTheirNodes
  <2>1. CASE u = r
    BY <1>1, <1>4, <1>5, <2>1
  <2>2. CASE u # r
    BY <1>1, <1>4, <2>2 DEF IInv, RunsCoverTheirNodes
  <2>3. QED
    BY <2>1, <2>2
<1>9. StaleOnlyByOverlap'
  <2>1. ASSUME NEW rec \in records, NEW u \in Runs, <<rec[2], u>> \in before',
               phase'[u] = "committed"
        PROVE  rec[1] \notin Embedded(u)'
    <3>1. CASE u = r
      <4>1. loaded'[u] = {}
        BY <1>4, <2>1, <3>1
      <4>2. QED
        BY <4>1 DEF Embedded
    <3>2. CASE u # r
      <4>1. rec[2] \in Runs
        BY <1>3 DEF TypeOK
      <4>2. <<rec[2], u>> \in before /\ phase[u] = "committed"
        BY <1>4, <1>6, <2>1, <3>2, <4>1
      <4>3. Embedded(u)' = Embedded(u)
        BY <1>1, <1>4, <3>2 DEF Embedded
      <4>4. QED
        BY <4>2, <4>3 DEF IInv, StaleOnlyByOverlap
    <3>3. QED
      BY <3>1, <3>2
  <2>2. \A x, y \in records : x[1] = y[1] => x = y
    BY DEF IInv, StaleOnlyByOverlap
  <2>3. QED
    BY <1>1, <2>1, <2>2 DEF StaleOnlyByOverlap
<1>q. QED
  BY <1>2, <1>3, <1>7, <1>8, <1>9 DEF IInv

\* A run loads nodes; an incremental one never loads a node alone.
LEMMA LoadStep ==
  ASSUME IInv, NEW r \in Runs, LoadAllNodes(r) \/ LoadNear(r)
  PROVE  IInv'
<1>1. CASE LoadAllNodes(r)
  <2>1. r \notin IncrementalRuns
    BY <1>1, EmbeddingAssumption DEF LoadAllNodes
  <2>2. CASE Nodes = {}
    BY <1>1, <2>1, <2>2, BeginStep DEF LoadAllNodes
  <2>3. CASE Nodes # {}
    BY <1>1, <2>1, <2>3, BeginStep DEF LoadAllNodes
  <2>4. QED
    BY <2>2, <2>3
<1>2. CASE LoadNear(r)
  <2> DEFINE near(n) == {n} \cup UNION {Ends(edge) : edge \in {e \in Edges : n \in Ends(e)}}
  <2>1. PICK n \in Nodes : loaded' = [loaded EXCEPT ![r] = near(n)]
    BY <1>2 DEF LoadNear
  <2>2. near(n) \subseteq Nodes
    BY DEF IInv, GraphOK, CommittedContextIsWhole, Ends
  <2>3. \E k, m \in near(n) : k # m
    <3>1. PICK e \in Edges : n \in Ends(e) /\ e.source # e.target
      BY DEF IInv, GraphOK, Connected
    <3>2. e.source \in near(n) /\ e.target \in near(n)
      BY <3>1 DEF Ends
    <3>3. QED
      BY <3>1, <3>2
  <2> HIDE DEF near
  <2>4. QED
    BY <1>2, <2>1, <2>2, <2>3, BeginStep DEF LoadNear
<1>q. QED
  BY <1>1, <1>2

\* A run always goes on to store: no node that it can load stands alone.
LEMMA LoadEdgesStep ==
  ASSUME IInv, NEW r \in Runs, LoadEdges(r)
  PROVE  IInv'
<1>1. ~(r \in IncrementalRuns /\ Cardinality(loaded[r]) < 2)
  BY TwoElements DEF IInv, RunOK, LoadEdges
<1>2. /\ phase[r] = "edges" /\ phase' = [phase EXCEPT ![r] = "store"]
      /\ linked' = [linked EXCEPT ![r] = EdgesFor(r)]
      /\ loaded' = loaded /\ records' = records /\ before' = before /\ UNCHANGED graphVars
  BY <1>1 DEF LoadEdges, Proceed
<1>3. GraphTypeOK' /\ GraphOK' /\ Nodes' = Nodes /\ Edges' = Edges
  BY <1>2, GraphKept
<1>4. EdgesFor(r) \subseteq Edges
  BY DEF EdgesFor
<1>5. TypeOK /\ TypeOK'
  BY <1>2, <1>3, <1>4 DEF IInv, TypeOK
<1>6. /\ phase'[r] = "store"
      /\ \A u \in Runs \ {r} : phase'[u] = phase[u] /\ linked'[u] = linked[u]
  BY <1>2, <1>5 DEF TypeOK
<1>7. ASSUME NEW u \in Runs  PROVE phase'[u] = "committed" <=> phase[u] = "committed"
  BY <1>2, <1>6
<1>8. ASSUME NEW u \in Runs  PROVE RunOK(u)'
  BY <1>2, <1>6, <1>7 DEF IInv, RunOK
<1>9. RunsCoverTheirNodes'
  BY <1>2, <1>7 DEF IInv, RunsCoverTheirNodes
<1>10. StaleOnlyByOverlap'
  <2>1. ASSUME NEW u \in Runs, phase'[u] = "committed"
        PROVE  phase[u] = "committed" /\ Embedded(u)' = Embedded(u)
    <3>1. u # r /\ phase[u] = "committed"
      BY <1>2, <1>6, <1>7, <2>1
    <3>2. QED
      BY <1>2, <1>6, <3>1 DEF Embedded
  <2>2. QED
    BY <1>2, <2>1 DEF IInv, StaleOnlyByOverlap
<1>q. QED
  BY <1>3, <1>5, <1>8, <1>9, <1>10 DEF IInv

\* The vectors of a run replace those of its nodes, and no others.
LEMMA StoreVectorsStep ==
  ASSUME IInv, NEW r \in Runs, StoreVectors(r)
  PROVE  IInv'
<1> DEFINE nodes == Embedded(r)
<1>1. /\ phase[r] = "store" /\ phase' = [phase EXCEPT ![r] = "committed"]
      /\ records' = {rec \in records : rec[1] \notin nodes} \cup (nodes \X {r})
      /\ loaded' = loaded /\ linked' = linked /\ before' = before /\ UNCHANGED graphVars
  BY DEF StoreVectors, Proceed, Upserted
<1>2. GraphTypeOK' /\ GraphOK' /\ Nodes' = Nodes /\ Edges' = Edges
  BY <1>1, GraphKept
<1>3. nodes = loaded[r] /\ \A u \in Runs : Embedded(u)' = Embedded(u)
  BY <1>1 DEF Embedded
<1> HIDE DEF nodes
<1>4. TypeOK
  BY DEF IInv
<1>5. nodes \subseteq Nodes
  BY <1>3, <1>4 DEF TypeOK
<1>6. TypeOK'
  BY <1>1, <1>2, <1>4, <1>5 DEF TypeOK
<1>7. /\ phase'[r] = "committed" /\ \A u \in Runs \ {r} : phase'[u] = phase[u]
  BY <1>1, <1>4 DEF TypeOK
<1>8. ASSUME NEW rec \in records'
      PROVE  \/ rec \in records /\ rec[1] \notin nodes
             \/ rec[1] \in nodes /\ rec[2] = r /\ rec = <<rec[1], rec[2]>>
  BY <1>1
<1>9. \A rec \in records : rec[2] # r
  BY <1>1 DEF IInv, RunOK
<1>10. ASSUME NEW u \in Runs  PROVE RunOK(u)'
  <2>1. phase'[u] = "edges" => phase[u] = "edges"
    BY <1>7
  <2>2. \A w \in Runs : <<w, u>> \in before' => phase'[w] = "committed" /\ phase'[u] # "idle"
    BY <1>1, <1>7 DEF IInv, RunOK
  <2>3. \A rec \in records' : rec[2] = u => phase'[u] = "committed"
    BY <1>7, <1>8 DEF IInv, RunOK
  <2>4. QED
    BY <1>1, <2>1, <2>2, <2>3 DEF IInv, RunOK
<1>11. RunsCoverTheirNodes'
  <2>1. ASSUME NEW n \in nodes  PROVE \E rec \in records' : rec[1] = n
    <3>1. <<n, r>> \in records' /\ <<n, r>>[1] = n
      BY <1>1
    <3>2. QED
      BY <3>1
  <2>2. ASSUME NEW rec \in records  PROVE \E new \in records' : new[1] = rec[1]
    <3>1. CASE rec[1] \in nodes
      BY <2>1, <3>1
    <3>2. CASE rec[1] \notin nodes
      BY <1>1, <3>2
    <3>3. QED
      BY <3>1, <3>2
  <2>3. ASSUME NEW u \in Runs, u \in FullRuns, phase'[u] = "committed", NEW n \in loaded'[u]
        PROVE  \E new \in records' : new[1] = n
    <3>1. CASE u = r
      BY <1>1, <1>3, <2>1, <2>3, <3>1
    <3>2. CASE u # r
      <4>1. n \in {rec[1] : rec \in records}
        BY <1>1, <1>7, <2>3, <3>2 DEF IInv, RunsCoverTheirNodes
      <4>2. QED
        BY <2>2, <4>1
    <3>3. QED
      BY <3>1, <3>2
  <2>4. ASSUME NEW u \in Runs, NEW rec \in records', rec[2] = u  PROVE rec[1] \in loaded'[u]
    BY <1>1, <1>3, <1>8, <2>4 DEF IInv, RunsCoverTheirNodes
  <2>5. QED
    BY <2>3, <2>4 DEF RunsCoverTheirNodes
<1>12. StaleOnlyByOverlap'
  <2>1. ASSUME NEW x \in records', NEW y \in records', x[1] = y[1]  PROVE x = y
    BY <1>8, <2>1 DEF IInv, StaleOnlyByOverlap
  <2>2. ASSUME NEW rec \in records', NEW u \in Runs, <<rec[2], u>> \in before',
               phase'[u] = "committed"
        PROVE  rec[1] \notin Embedded(u)'
    <3>1. CASE rec \in records /\ rec[1] \notin nodes
      <4>1. CASE u = r
        BY <1>3, <3>1, <4>1 DEF nodes
      <4>2. CASE u # r
        BY <1>1, <1>3, <1>7, <2>2, <3>1, <4>2 DEF IInv, StaleOnlyByOverlap
      <4>3. QED
        BY <4>1, <4>2
    <3>2. CASE rec[2] = r
      BY <1>1, <2>2, <3>2 DEF IInv, RunOK
    <3>3. QED
      BY <1>8, <3>1, <3>2
  <2>3. QED
    BY <2>1, <2>2 DEF StaleOnlyByOverlap
<1>q. QED
  BY <1>2, <1>6, <1>10, <1>11, <1>12 DEF IInv

\* A run that fails leaves no vector.
LEMMA RunFailsStep ==
  ASSUME IInv, NEW r \in Runs, RunFails(r)
  PROVE  IInv'
<1>1. /\ phase[r] \in {"edges", "store"} /\ phase' = [phase EXCEPT ![r] = "failed"]
      /\ loaded' = loaded /\ linked' = linked /\ records' = records /\ before' = before
      /\ UNCHANGED graphVars
  BY DEF RunFails, Proceed
<1>2. GraphTypeOK' /\ GraphOK' /\ Nodes' = Nodes /\ Edges' = Edges
  BY <1>1, GraphKept
<1>3. TypeOK /\ TypeOK'
  BY <1>1, <1>2 DEF IInv, TypeOK
<1>4. phase'[r] = "failed" /\ \A u \in Runs \ {r} : phase'[u] = phase[u]
  BY <1>1, <1>3 DEF TypeOK
<1>5. ASSUME NEW u \in Runs  PROVE phase'[u] = "committed" <=> phase[u] = "committed"
  BY <1>1, <1>4
<1>6. ASSUME NEW u \in Runs  PROVE RunOK(u)'
  BY <1>1, <1>4, <1>5 DEF IInv, RunOK
<1>7. RunsCoverTheirNodes'
  BY <1>1, <1>5 DEF IInv, RunsCoverTheirNodes
<1>8. StaleOnlyByOverlap'
  BY <1>1, <1>5 DEF IInv, StaleOnlyByOverlap, Embedded
<1>q. QED
  BY <1>2, <1>3, <1>6, <1>7, <1>8 DEF IInv

-------------------------------------------------------------------------------
(* The theorems *)

\* The invariant holds of the empty graph.
LEMMA InitEstablishes == Init => IInv
<1> SUFFICES ASSUME Init  PROVE IInv
  OBVIOUS
<1>1. Rows = {} /\ Nodes = {} /\ Edges = {} /\ IsFiniteSet({})
  BY FS_EmptySet DEF Init, GraphInit, Rows, Nodes, Edges
<1>2. TypeOK
  BY DEF Init, GraphInit, TypeOK, GraphTypeOK
<1>3. GraphOK
  <2>1. \A b \in Builders : BuilderOK(b)
    BY <1>1 DEF Init, GraphInit, BuilderOK
  <2>2. OneRowPerKey /\ CommittedContextIsWhole
    BY <1>1 DEF Init, GraphInit, OneRowPerKey, CommittedContextIsWhole
  <2>3. QED
    BY <1>1, <2>1, <2>2 DEF GraphOK
<1>4. \A r \in Runs : RunOK(r)
  BY <1>1 DEF Init, RunOK
<1>5. RunsCoverTheirNodes /\ StaleOnlyByOverlap
  BY DEF Init, RunsCoverTheirNodes, StaleOnlyByOverlap
<1>q. QED
  BY <1>2, <1>3, <1>4, <1>5 DEF IInv

\* The invariant is inductive.
LEMMA StepPreserves == IInv /\ [Next]_vars => IInv'
<1> SUFFICES ASSUME IInv, [Next]_vars  PROVE IInv'
  OBVIOUS
<1>1. CASE UNCHANGED vars
  <2>1. UNCHANGED graphVars /\ UNCHANGED embVars
    BY <1>1 DEF vars
  <2>2. GraphTypeOK' /\ GraphOK' /\ Nodes' = Nodes /\ Edges' = Edges
    BY <2>1, GraphKept
  <2>3. TypeOK'
    BY <2>1, <2>2 DEF IInv, TypeOK, embVars
  <2>4. \A r \in Runs : RunOK(r)'
    BY <2>1 DEF IInv, RunOK, embVars
  <2>5. RunsCoverTheirNodes' /\ StaleOnlyByOverlap'
    BY <2>1 DEF IInv, RunsCoverTheirNodes, StaleOnlyByOverlap, Embedded, embVars
  <2>6. QED
    BY <2>2, <2>3, <2>4, <2>5 DEF IInv
<1>2. CASE GraphNext /\ UNCHANGED embVars
  BY <1>2, GraphStep
<1>3. CASE RunNext
  BY <1>3, LoadStep, LoadEdgesStep, StoreVectorsStep, RunFailsStep DEF RunNext
<1>q. QED
  BY <1>1, <1>2, <1>3 DEF Next, Quiescent

\* The inductive invariant holds: what open builders and runs have seen fits the
\* committed graph at every moment.
THEOREM StoreHolds == Spec => []IInv
<1>1. Init => IInv
  BY InitEstablishes
<1>2. IInv /\ [Next]_vars => IInv'
  BY StepPreserves
<1>q. QED
  BY <1>1, <1>2, PTL DEF Spec

\* The stores are well typed; a run's nodes, edges and vectors are in the graph.
THEOREM TypeCorrect == Spec => []TypeOK
<1>1. IInv => TypeOK
  BY DEF IInv
<1>q. QED
  BY <1>1, StoreHolds, PTL

\* However builders overlap, a look-up by key finds at most one committed row
\* (graph/service.py, _get_or_create_node and _get_or_create_edge).
THEOREM RowsStayUnique == Spec => []OneRowPerKey
<1>1. IInv => OneRowPerKey
  BY DEF IInv, GraphOK
<1>q. QED
  BY <1>1, StoreHolds, PTL

\* A committed request's nine rows are all in the graph, and every edge has its ends.
THEOREM ContextsAreWhole == Spec => []CommittedContextIsWhole
<1>1. IInv => CommittedContextIsWhole
  BY DEF IInv, GraphOK
<1>q. QED
  BY <1>1, StoreHolds, PTL

\* A full run leaves a vector for each node it began with, and no run one for a node
\* it did not load (embeddings/pipeline.py).
THEOREM RunsCover == Spec => []RunsCoverTheirNodes
<1>1. IInv => RunsCoverTheirNodes
  BY DEF IInv
<1>q. QED
  BY <1>1, StoreHolds, PTL

\* A node has one vector, and none older than a run that has embedded it since.
THEOREM NoVectorIsOutlasted == Spec => []StaleOnlyByOverlap
<1>1. IInv => StaleOnlyByOverlap
  BY DEF IInv
<1>q. QED
  BY <1>1, StoreHolds, PTL
===============================================================================
