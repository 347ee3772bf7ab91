-------------------------- MODULE GraphQueriesProofs --------------------------
(***************************************************************************)
(* Theorems about GraphQueries, for every value of its constants: any      *)
(* limits of the walk and the search, any distances, and any number of     *)
(* builders and runs that write while a builder reads.                     *)
(***************************************************************************)
EXTENDS GraphQueries, EmbeddingStoreProofs, SequenceTheorems

-------------------------------------------------------------------------------
(* Reading leaves the stores alone *)

\* The stores behave under the queries as they do without: what is proved of
\* EmbeddingStore holds here too.
THEOREM QueriesKeepStores == QuerySpec => Spec
<1>1. QueryInit => Init
  BY DEF QueryInit
<1>2. [QueryNext]_allVars => [Next]_vars
  BY DEF QueryNext, allVars
<1>3. QED
  BY <1>1, <1>2, PTL DEF QuerySpec, Spec

\* What a builder sees only grows until it is rolled back.
LEMMA VisibleGrows ==
  ASSUME TypeOK, [Next]_vars, NEW b \in Builders, stage'[b] # "failed"
  PROVE  VisibleEdges(b) \subseteq VisibleEdges(b)' /\ context' = context
<1> USE DEF TypeOK, GraphTypeOK
<1>2. ASSUME UNCHANGED graphVars
      PROVE  Visible(b) \subseteq Visible(b)' /\ context' = context
  BY <1>2 DEF graphVars, Visible, Rows
<1>3. ASSUME NEW c \in Builders, LookUpFinds(c) \/ LookUpMisses(c) \/ InsertRow(c)
      PROVE  Visible(b) \subseteq Visible(b)' /\ context' = context
  <2>1. graph' = graph /\ context' = context /\ own[b] \subseteq own'[b]
    BY <1>3 DEF LookUpFinds, LookUpMisses, InsertRow
  <2>2. QED
    BY <2>1 DEF Visible, Rows
<1>4. ASSUME NEW c \in Builders, InsertFails(c) \/ RollbackRows(c)
      PROVE  Visible(b) \subseteq Visible(b)' /\ context' = context
  <2>1. graph' = graph /\ context' = context /\ stage'[c] = "failed"
        /\ own' = [own EXCEPT ![c] = {}]
    BY <1>4 DEF InsertFails, RollbackRows, Enter, Undo
  <2>2. own'[b] = own[b]
    BY <2>1
  <2>3. QED
    BY <2>1, <2>2 DEF Visible, Rows
<1>5. ASSUME NEW c \in Builders, CommitRows(c)
      PROVE  Visible(b) \subseteq Visible(b)' /\ context' = context
  <2>1. graph' = graph \cup (own[c] \X {c}) /\ context' = context
        /\ own' = [own EXCEPT ![c] = {}]
    BY <1>5 DEF CommitRows, Undo
  <2>2. Rows \subseteq Rows' /\ own[c] \subseteq Rows'
    <3>1. \A row \in own[c] : <<row, c>> \in graph' /\ <<row, c>>[1] = row
      BY <2>1
    <3>2. QED
      BY <2>1, <3>1 DEF Rows
  <2>3. QED
    BY <2>1, <2>2 DEF Visible
<1>6. Visible(b) \subseteq Visible(b)' /\ context' = context
  <2>1. CASE UNCHANGED vars \/ Quiescent \/ RunNext
    <3>1. UNCHANGED graphVars
      BY <2>1 DEF vars, Quiescent, RunNext, LoadAllNodes, LoadNear, LoadEdges,
         StoreVectors, RunFails
    <3>2. QED
      BY <1>2, <3>1
  <2>2. CASE GraphNext
    BY <1>3, <1>4, <1>5, <2>2 DEF GraphNext
  <2>3. QED
    BY <2>1, <2>2 DEF Next
<1>7. QED
  BY <1>6 DEF VisibleEdges

\* Nothing brings a builder back that was rolled back.
LEMMA StageAndContext ==
  ASSUME TypeOK, [Next]_vars, NEW b \in Builders
  PROVE  context' = context /\ (stage[b] = "failed" => stage'[b] = "failed")
<1> USE DEF TypeOK, GraphTypeOK
<1>1. ASSUME UNCHANGED graphVars
      PROVE  context' = context /\ stage' = stage
  BY <1>1 DEF graphVars
<1>2. ASSUME NEW c \in Builders,
             LookUpFinds(c) \/ LookUpMisses(c) \/ InsertRow(c) \/ InsertFails(c)
               \/ CommitRows(c) \/ RollbackRows(c)
      PROVE  context' = context /\ (stage[b] = "failed" => stage'[b] = "failed")
  <2>1. /\ context' = context /\ stage[c] # "failed"
        /\ stage' = stage \/ \E next : stage' = [stage EXCEPT ![c] = next]
    BY <1>2 DEF LookUpFinds, LookUpMisses, InsertRow, InsertFails, CommitRows, RollbackRows,
       Enter, Open
  <2>2. QED
    BY <2>1
<1>3. UNCHANGED vars \/ Quiescent \/ RunNext => UNCHANGED graphVars
  BY DEF vars, Quiescent, RunNext, LoadAllNodes, LoadNear, LoadEdges, StoreVectors, RunFails
<1>4. QED
  BY <1>1, <1>2, <1>3 DEF Next, GraphNext

-------------------------------------------------------------------------------
(* Chains of edges *)

LEMMA ChainGrows ==
  ASSUME NEW from, NEW to, NEW k \in Nat, NEW S, NEW T, S \subseteq T, Chain(from, to, k, S)
  PROVE  Chain(from, to, k, T)
<1>1. CASE k = 0
  BY <1>1 DEF Chain
<1>2. CASE k # 0
  <2>1. PICK p \in [1..k -> S] : /\ p[1].source = from /\ p[k].target = to
                                 /\ \A i \in 1 .. k - 1 : p[i].target = p[i + 1].source
    BY <1>2 DEF Chain
  <2>2. p \in [1..k -> T]
    OBVIOUS
  <2>3. QED
    BY <1>2, <2>1, <2>2 DEF Chain
<1>3. QED
  BY <1>1, <1>2

\* One edge more.
LEMMA ChainExtends ==
  ASSUME NEW from, NEW k \in Nat, NEW S, NEW e \in S, Chain(from, e.source, k, S)
  PROVE  Chain(from, e.target, k + 1, S)
<1>1. CASE k = 0
  <2> DEFINE p == [i \in 1..1 |-> e]
  <2>1. p \in [1..1 -> S] /\ p[1].source = from /\ p[1].target = e.target
    BY <1>1 DEF Chain
  <2>2. \A i \in 1 .. 1 - 1 : p[i].target = p[i + 1].source
    OBVIOUS
  <2> HIDE DEF p
  <2>3. QED
    BY <1>1, <2>1, <2>2 DEF Chain
<1>2. CASE k # 0
  <2>1. PICK p \in [1..k -> S] : /\ p[1].source = from /\ p[k].target = e.source
                                 /\ \A i \in 1 .. k - 1 : p[i].target = p[i + 1].source
    BY <1>2 DEF Chain
  <2> DEFINE q == [i \in 1 .. k + 1 |-> IF i <= k THEN p[i] ELSE e]
  <2>2. q \in [1 .. k + 1 -> S] /\ q[1].source = from /\ q[k + 1].target = e.target
    BY <1>2, <2>1
  <2>3. \A i \in 1..k : q[i].target = q[i + 1].source
    <3> TAKE i \in 1..k
    <3>1. CASE i = k
      <4>1. q[i] = p[k] /\ q[i + 1] = e
        BY <3>1
      <4>2. QED
        BY <2>1, <4>1
    <3>2. CASE i # k
      <4>1. i \in 1 .. k - 1 /\ i + 1 \in 1..k
        BY <3>2
      <4>2. q[i] = p[i] /\ q[i + 1] = p[i + 1]
        BY <4>1
      <4>3. QED
        BY <2>1, <4>1, <4>2
    <3>3. QED
      BY <3>1, <3>2
  <2> HIDE DEF q
  <2>4. k + 1 # 0 /\ (k + 1) - 1 = k
    OBVIOUS
  <2>5. QED
    BY <2>2, <2>3, <2>4 DEF Chain
<1>3. QED
  BY <1>1, <1>2

\* The edges of contexts lead from a context to its signature and from there to the
\* type of the error, which has none.
LEMMA EdgesOfContexts ==
  ASSUME NEW e \in AllRows, ~IsNode(e)
  PROVE  /\ e.source \in AllNodes /\ e.target \in AllNodes
         /\ e.source.node \in {"REQUEST_CONTEXT", "ERROR_SIGNATURE", "ERROR_TYPE"} =>
              e.target.node \in {"ERROR_SIGNATURE", "ERROR_TYPE"}
<1>1. PICK c \in Contexts : e \in Range(RowsOf(c))
  BY DEF AllRows
<1>2. PICK i \in 1..9 : e = RowsOf(c)[i]
  BY <1>1, RowsListed DEF Range
<1>3. \A j \in 1..9 : RowsOf(c)[j] \in AllRows
  <2>1. \A j \in 1..9 : RowsOf(c)[j] \in Range(RowsOf(c))
    BY RowsListed DEF Range
  <2>2. QED
    BY <2>1 DEF AllRows
<1>4. e.source \in AllNodes /\ e.target \in AllNodes
  <2>1. /\ \E j \in 1 .. i - 1 : e.source = RowsOf(c)[j] /\ IsNode(RowsOf(c)[j])
        /\ \E j \in 1 .. i - 1 : e.target = RowsOf(c)[j] /\ IsNode(RowsOf(c)[j])
    BY <1>2, EndsComeFirst
  <2>2. QED
    BY <1>3, <2>1 DEF AllNodes
<1>5. /\ ApiNode(c).node = "API" /\ EndpointNode(c).node = "ENDPOINT"
      /\ ErrorTypeNode(c).node = "ERROR_TYPE"
      /\ SignatureNode(c).node = "ERROR_SIGNATURE"
      /\ ContextNode(c).node = "REQUEST_CONTEXT"
  BY RowKinds DEF ApiNode, EndpointNode, ErrorTypeNode, SignatureNode, ContextNode
<1>6. i \in {3, 6, 8, 9}
  BY <1>2, RowsListed, ContextNodes
<1>7. CASE i \in {3, 8}
  <2>1. e.source \in {ApiNode(c), EndpointNode(c)}
    BY <1>2, <1>7, RowsListed, RowKinds
  <2>2. QED
    BY <1>4, <1>5, <2>1
<1>8. CASE i \in {6, 9}
  <2>1. e.target \in {ErrorTypeNode(c), SignatureNode(c)}
    BY <1>2, <1>8, RowsListed, RowKinds
  <2>2. QED
    BY <1>4, <1>5, <2>1
<1>9. QED
  BY <1>6, <1>7, <1>8

\* A builder's own node is a node of the contexts.
LEMMA SelfIsNode ==
  ASSUME TypeOK, NEW b \in Builders
  PROVE  Self(b) \in AllNodes /\ Self(b).node = "REQUEST_CONTEXT"
<1>1. context[b] \in Contexts
  BY DEF TypeOK, GraphTypeOK
<1>2. ContextNode(context[b]) \in Range(RowsOf(context[b]))
  BY RowsListed DEF Range
<1>3. IsNode(Self(b)) /\ Self(b).node = "REQUEST_CONTEXT"
  BY RowKinds DEF Self, ContextNode
<1>4. Self(b) \in AllRows
  BY <1>1, <1>2 DEF Self, AllRows
<1>5. QED
  BY <1>3, <1>4 DEF AllNodes

\* What a builder sees are rows of contexts.
LEMMA VisibleAreRows ==
  ASSUME TypeOK, NEW b \in Builders
  PROVE  VisibleEdges(b) \subseteq AllRows
<1>1. Rows \subseteq AllRows /\ own[b] \subseteq AllRows
  BY DEF TypeOK, GraphTypeOK, Rows
<1>2. QED
  BY <1>1 DEF VisibleEdges, Visible

-------------------------------------------------------------------------------
(* The queue *)

LEMMA TailIs ==
  ASSUME NEW T, NEW q \in Seq(T), q # <<>>
  PROVE  /\ Len(q) \in Nat \ {0} /\ DOMAIN q = 1 .. Len(q)
         /\ DOMAIN Tail(q) = 1 .. Len(q) - 1
         /\ \A i \in 1 .. Len(q) - 1 : Tail(q)[i] = q[i + 1] /\ i + 1 \in DOMAIN q
  OBVIOUS

\* Appending what was found to the rest of the queue.
Joined(q, found, d) == Tail(q) \o [i \in DOMAIN found |-> <<found[i], d>>]

HasBoth(joined, q, found, d) ==
  /\ Len(joined) = Len(q) - 1 + Len(found)
  /\ \A i \in 1 .. Len(q) - 1 : joined[i] = q[i + 1]
  /\ \A i \in 1 .. Len(found) : joined[Len(q) - 1 + i] = <<found[i], d>>

LEMMA JoinedIs ==
  ASSUME NEW S, NEW q \in Seq(S \X Nat), q # <<>>, NEW found \in Seq(S), NEW d \in Nat
  PROVE  /\ Joined(q, found, d) \in Seq(S \X Nat)
         /\ HasBoth(Joined(q, found, d), q, found, d)
<1> DEFINE new == [i \in DOMAIN found |-> <<found[i], d>>]
<1>1. new \in Seq(S \X Nat) /\ Len(new) = Len(found)
      /\ \A i \in 1 .. Len(found) : new[i] = <<found[i], d>>
  <2>1. DOMAIN found = 1 .. Len(found) /\ Len(found) \in Nat
    OBVIOUS
  <2>2. \A i \in 1 .. Len(found) : found[i] \in S
    OBVIOUS
  <2>3. new \in [1 .. Len(found) -> S \X Nat]
    BY <2>1, <2>2
  <2>4. QED
    BY <2>1, <2>3
<1> DEFINE rest == Tail(q)
<1>2. rest \in Seq(S \X Nat) /\ Len(rest) = Len(q) - 1
      /\ \A i \in 1 .. Len(q) - 1 : rest[i] = q[i + 1]
  OBVIOUS
<1> DEFINE Entries == S \X Nat
<1>5. rest \in Seq(Entries) /\ new \in Seq(Entries)
  BY <1>1, <1>2
<1> HIDE DEF new, rest, Entries
<1>3. /\ rest \o new \in Seq(Entries) /\ Len(rest \o new) = Len(rest) + Len(new)
      /\ \A i \in 1 .. Len(rest) : (rest \o new)[i] = rest[i]
      /\ \A i \in 1 .. Len(new) : (rest \o new)[Len(rest) + i] = new[i]
  BY ONLY <1>5
<1>4. /\ rest \o new \in Seq(S \X Nat)
      /\ Len(rest \o new) = Len(q) - 1 + Len(found)
      /\ \A i \in 1 .. Len(q) - 1 : (rest \o new)[i] = q[i + 1]
      /\ \A i \in 1 .. Len(found) : (rest \o new)[Len(q) - 1 + i] = <<found[i], d>>
  BY <1>1, <1>2, <1>3 DEF Entries
<1>6. QED
  BY <1>4 DEF HasBoth, Joined, new, rest

-------------------------------------------------------------------------------
(* The invariant of the walk *)

\* What each stage of reading leaves in the variables.
StepOK(b) ==
  /\ reading[b] \in {"no", "search"} =>
       visited[b] = {} /\ queue[b] = <<>> /\ answer[b] = <<>> /\ scanned[b] = {}
  /\ reading[b] = "search" => vector[b] \in AllRecords /\ vector[b][1] = Self(b)
  /\ reading[b] = "done" => queue[b] = <<>>

SizeOK(b) ==
  /\ IsFiniteSet(visited[b]) /\ Cardinality(visited[b]) <= MaxNodes
  /\ reading[b] = "walk" => Cardinality(visited[b]) < MaxNodes

\* What has been visited or will be is the context itself or one of its errors.
OfFailure(b, n) == n = Self(b) \/ n.node \in {"ERROR_SIGNATURE", "ERROR_TYPE"}

KindOK(b) ==
  /\ \A n \in visited[b] : OfFailure(b, n)
  /\ \A i \in DOMAIN queue[b] : OfFailure(b, queue[b][i][1])

\* A depth is the length of a chain of edges that can be seen now.
ReachOK(b) ==
  stage[b] # "failed" =>
    /\ \A n \in visited[b] : Chain(Self(b), n, depth[b][n], VisibleEdges(b))
    /\ \A i \in DOMAIN queue[b] :
         Chain(Self(b), queue[b][i][1], queue[b][i][2], VisibleEdges(b))

\* The queue is ordered by depth, spans two depths at most, and comes after all
\* that has been visited.
OrderOK(b) ==
  /\ \A i, j \in DOMAIN queue[b] : /\ i < j => queue[b][i][2] <= queue[b][j][2]
                                   /\ queue[b][j][2] <= queue[b][i][2] + 1
  /\ \A n \in visited[b] : \A i \in DOMAIN queue[b] : depth[b][n] <= queue[b][i][2]

\* A node that can be reached at depth d has been, or waits, or is too deep.
Handled(b, m, d) ==
  \/ m \in visited[b] /\ depth[b][m] <= d
  \/ d > MaxDepth
  \/ \E i \in DOMAIN queue[b] : queue[b][i] = <<m, d>>

StartOK(b) ==
  /\ reading[b] = "walk" =>
       \/ visited[b] = {} /\ queue[b] = << <<Self(b), 0>> >>
       \/ Self(b) \in visited[b] /\ depth[b][Self(b)] = 0
  /\ reading[b] = "done" /\ visited[b] # {} => Self(b) \in visited[b] /\ depth[b][Self(b)] = 0

\* What the edges of the beginning lead to is handled, unless the walk was cut off.
FrontierOK(b) ==
  /\ stage[b] # "failed" => seen[b] \subseteq VisibleEdges(b)
  /\ reading[b] = "walk" \/ Cardinality(visited[b]) < MaxNodes =>
       \A n \in visited[b] : \A e \in seen[b] :
         e.source = n => Handled(b, e.target, depth[b][n] + 1)

WalkOK(b) ==
  /\ StepOK(b) /\ SizeOK(b) /\ KindOK(b) /\ ReachOK(b) /\ OrderOK(b) /\ StartOK(b)
  /\ FrontierOK(b)

\* What the types say of one builder's variables.
LEMMA WalkTypes ==
  ASSUME QueryTypeOK, NEW b \in Builders
  PROVE  /\ queue[b] \in Seq(AllNodes \X Nat) /\ queue[b] \in Seq(AllNodes \X (0 .. MaxDepth + 1))
         /\ \A i \in DOMAIN queue[b] : queue[b][i][1] \in AllNodes /\ queue[b][i][2] \in Nat
         /\ visited[b] \subseteq AllNodes /\ depth[b] \in [AllNodes -> 0..MaxDepth]
         /\ \A n \in visited[b] : depth[b][n] \in 0..MaxDepth /\ depth[b][n] \in Nat
<1>1. queue[b] \in Seq(AllNodes \X (0 .. MaxDepth + 1)) /\ visited[b] \subseteq AllNodes
      /\ depth[b] \in [AllNodes -> 0..MaxDepth]
  BY DEF QueryTypeOK
<1>2. \A i \in DOMAIN queue[b] : queue[b][i] \in AllNodes \X (0 .. MaxDepth + 1)
  BY <1>1
<1>3. \A i \in DOMAIN queue[b] : queue[b][i] \in AllNodes \X Nat
  BY <1>2
<1>4. queue[b] \in Seq(AllNodes \X Nat)
  BY <1>1, <1>3
<1>5. QED
  BY <1>1, <1>3, <1>4

\* While the stores change and nothing is read, chains only get more edges.
LEMMA StoreStepWalk ==
  ASSUME TypeOK, QueryTypeOK, [Next]_vars, UNCHANGED readVars, NEW b \in Builders, WalkOK(b)
  PROVE  WalkOK(b)'
<1>1. /\ reading' = reading /\ vector' = vector /\ answer' = answer /\ queue' = queue
      /\ visited' = visited /\ depth' = depth /\ seen' = seen /\ scanned' = scanned
  BY DEF readVars
<1>2. context' = context /\ (stage[b] = "failed" => stage'[b] = "failed")
  BY StageAndContext
<1>3. Self(b)' = Self(b)
  BY <1>2 DEF Self
<1>4. StepOK(b)' /\ SizeOK(b)' /\ KindOK(b)' /\ OrderOK(b)' /\ StartOK(b)'
  BY <1>1, <1>3 DEF WalkOK, StepOK, SizeOK, KindOK, OrderOK, StartOK, OfFailure
<1>5. ReachOK(b)'
  <2> SUFFICES ASSUME stage'[b] # "failed"
               PROVE  /\ \A n \in visited[b] :
                           Chain(Self(b), n, depth[b][n], VisibleEdges(b)')
                      /\ \A i \in DOMAIN queue[b] :
                           Chain(Self(b), queue[b][i][1], queue[b][i][2], VisibleEdges(b)')
    BY <1>1, <1>3 DEF ReachOK
  <2>1. VisibleEdges(b) \subseteq VisibleEdges(b)'
    BY VisibleGrows
  <2>2. /\ \A n \in visited[b] : depth[b][n] \in Nat
        /\ \A i \in DOMAIN queue[b] : queue[b][i][2] \in Nat
    BY WalkTypes
  <2>3. QED
    BY <1>2, <2>1, <2>2, ChainGrows DEF WalkOK, ReachOK
<1>6. FrontierOK(b)'
  <2>1. stage'[b] # "failed" => VisibleEdges(b) \subseteq VisibleEdges(b)' /\ stage[b] # "failed"
    BY <1>2, VisibleGrows
  <2>2. QED
    BY <1>1, <2>1 DEF WalkOK, FrontierOK, Handled
<1>7. QED
  BY <1>4, <1>5, <1>6 DEF WalkOK

\* What the stores say of a builder while nothing is written.
LEMMA StoresKept ==
  ASSUME UNCHANGED vars, NEW b \in Builders
  PROVE  Self(b)' = Self(b) /\ VisibleEdges(b)' = VisibleEdges(b) /\ stage' = stage
<1>1. graph' = graph /\ context' = context /\ stage' = stage /\ own' = own
  BY DEF vars, graphVars
<1>2. QED
  BY <1>1 DEF Self, VisibleEdges, Visible, Rows

Untouched(b) ==
  /\ reading'[b] = reading[b] /\ vector'[b] = vector[b] /\ answer'[b] = answer[b]
  /\ queue'[b] = queue[b] /\ visited'[b] = visited[b] /\ depth'[b] = depth[b]
  /\ seen'[b] = seen[b] /\ scanned'[b] = scanned[b]

\* A turn of another builder changes nothing of this one's.
LEMMA OtherTurnWalk ==
  ASSUME QueryTypeOK, UNCHANGED vars, NEW b \in Builders, WalkOK(b), NEW c \in Builders, c # b,
         LookUpVector(c) \/ Search(c) \/ Skip(c) \/ Visit(c) \/ EndWalk(c)
  PROVE  WalkOK(b)' /\ Untouched(b)
<1>1. Untouched(b)
  <2> USE DEF QueryTypeOK, Untouched
  <2>1. StartWalk(c) \/ UNCHANGED <<queue, seen>> => queue'[b] = queue[b] /\ seen'[b] = seen[b]
    BY DEF StartWalk
  <2>2. CASE LookUpVector(c)
    <3>1. /\ StartWalk(c) \/ (Turn(c, "search") /\ UNCHANGED <<queue, seen>>)
          /\ vector' = vector \/ \E rec : vector' = [vector EXCEPT ![c] = rec]
          /\ UNCHANGED <<answer, visited, depth, scanned>>
      BY <2>2, Zenon DEF LookUpVector
    <3>2. QED
      BY <2>1, <3>1 DEF Turn, StartWalk
  <2>3. CASE Search(c)
    <3>1. /\ StartWalk(c) \/ (Turn(c, "done") /\ UNCHANGED <<queue, seen>>)
          /\ \E part : scanned' = [scanned EXCEPT ![c] = part]
          /\ \E found : answer' = [answer EXCEPT ![c] = found]
          /\ UNCHANGED <<vector, visited, depth>>
      BY <2>3, Zenon DEF Search
    <3>2. QED
      BY <2>1, <3>1 DEF Turn, StartWalk
  <2>4. CASE Skip(c) \/ EndWalk(c)
    BY <2>4 DEF Skip, EndWalk, Turn
  <2>5. CASE Visit(c)
    <3>1. /\ \E nodes : visited' = [visited EXCEPT ![c] = nodes]
          /\ \E n, d : depth' = [depth EXCEPT ![c][n] = d]
          /\ Turn(c, "done") \/ UNCHANGED reading
          /\ \E q : queue' = [queue EXCEPT ![c] = q]
          /\ UNCHANGED <<vector, answer, seen, scanned>>
      BY <2>5, Zenon DEF Visit
    <3>2. QED
      BY <3>1 DEF Turn
  <2>6. QED
    BY <2>2, <2>3, <2>4, <2>5
<1>2. Self(b)' = Self(b) /\ VisibleEdges(b)' = VisibleEdges(b) /\ stage' = stage
  BY StoresKept
<1> USE <1>1, <1>2 DEF WalkOK, Untouched
<1>3. StepOK(b)' /\ SizeOK(b)' /\ StartOK(b)'
  BY DEF StepOK, SizeOK, StartOK
<1>4. KindOK(b)' /\ OrderOK(b)'
  BY DEF KindOK, OrderOK, OfFailure
<1>5. ReachOK(b)'
  BY DEF ReachOK
<1>6. FrontierOK(b)'
  BY DEF FrontierOK, Handled
<1>7. QED
  BY <1>3, <1>4, <1>5, <1>6

\* A walk that begins at a builder's own context.
LEMMA StartStep ==
  ASSUME TypeOK, QueryTypeOK, UNCHANGED vars, NEW b \in Builders, WalkOK(b), StartWalk(b),
         UNCHANGED <<visited, depth>>, reading[b] \in {"no", "search"}
  PROVE  WalkOK(b)'
<1>1. /\ reading'[b] = "walk" /\ queue'[b] = << <<Self(b), 0>> >>
      /\ seen'[b] = VisibleEdges(b) /\ visited'[b] = {}
  BY DEF StartWalk, Turn, QueryTypeOK, WalkOK, StepOK
<1>2. Self(b)' = Self(b) /\ VisibleEdges(b)' = VisibleEdges(b) /\ stage' = stage
  BY StoresKept
<1>3. DOMAIN queue'[b] = {1} /\ queue'[b][1][1] = Self(b) /\ queue'[b][1][2] = 0
  BY <1>1
<1>4. SizeOK(b)'
  BY <1>1, FS_EmptySet, QueryAssumption DEF SizeOK
<1>5. ReachOK(b)'
  <2>1. Chain(Self(b), Self(b), 0, VisibleEdges(b))
    BY DEF Chain
  <2>2. QED
    BY <1>1, <1>2, <1>3, <2>1 DEF ReachOK
<1>6. StepOK(b)' /\ KindOK(b)' /\ OrderOK(b)' /\ StartOK(b)' /\ FrontierOK(b)'
  BY <1>1, <1>2, <1>3 DEF StepOK, KindOK, OrderOK, StartOK, FrontierOK, OfFailure
<1>7. QED
  BY <1>4, <1>5, <1>6 DEF WalkOK

\* A node that was visited before, or is too deep, is dropped.
LEMMA SkipStep ==
  ASSUME TypeOK, QueryTypeOK, UNCHANGED vars, NEW b \in Builders, WalkOK(b), Skip(b)
  PROVE  WalkOK(b)'
<1> DEFINE q == queue[b]
           n == q[1][1]
           d == q[1][2]
<1>1. /\ reading'[b] = "walk" /\ reading[b] = "walk" /\ queue'[b] = Tail(q)
      /\ visited'[b] = visited[b] /\ depth'[b] = depth[b] /\ seen'[b] = seen[b]
      /\ q # <<>> /\ (n \in visited[b] \/ d > MaxDepth)
  BY DEF Skip, At, QueryTypeOK, TooDeep
<1>2. Self(b)' = Self(b) /\ VisibleEdges(b)' = VisibleEdges(b) /\ stage' = stage
  BY StoresKept
<1>3. /\ q \in Seq(AllNodes \X Nat) /\ Len(q) \in Nat \ {0} /\ DOMAIN q = 1 .. Len(q)
      /\ DOMAIN queue'[b] = 1 .. Len(q) - 1
      /\ \A i \in 1 .. Len(q) - 1 : queue'[b][i] = q[i + 1] /\ i + 1 \in DOMAIN q
  <2>1. q \in Seq(AllNodes \X Nat) /\ q # <<>>
    BY <1>1, WalkTypes
  <2>2. QED
    BY <1>1, <2>1, TailIs
<1>4. \A i \in DOMAIN q : q[i][2] \in Nat /\ q[i] = <<q[i][1], q[i][2]>>
  BY <1>3, WalkTypes
<1> HIDE DEF q, n, d
<1>5. StepOK(b)' /\ SizeOK(b)'
  BY <1>1 DEF WalkOK, StepOK, SizeOK
<1>6. KindOK(b)' /\ ReachOK(b)'
  <2>1. \A i \in DOMAIN queue'[b] : \E j \in DOMAIN q : queue'[b][i] = q[j]
    BY <1>3
  <2>2. KindOK(b)'
    BY <1>1, <1>2, <2>1 DEF WalkOK, KindOK, OfFailure, q
  <2>3. ReachOK(b)'
    BY <1>1, <1>2, <2>1 DEF WalkOK, ReachOK, q
  <2>4. QED
    BY <2>2, <2>3
<1>7. OrderOK(b)'
  <2>1. \A i, j \in DOMAIN queue'[b] :
          /\ i < j => queue'[b][i][2] <= queue'[b][j][2]
          /\ queue'[b][j][2] <= queue'[b][i][2] + 1
    <3> SUFFICES ASSUME NEW i \in DOMAIN queue'[b], NEW j \in DOMAIN queue'[b]
                 PROVE  /\ i < j => queue'[b][i][2] <= queue'[b][j][2]
                        /\ queue'[b][j][2] <= queue'[b][i][2] + 1
      OBVIOUS
    <3>1. i + 1 \in DOMAIN q /\ j + 1 \in DOMAIN q /\ (i < j => i + 1 < j + 1)
      BY <1>3
    <3>2. queue'[b][i] = q[i + 1] /\ queue'[b][j] = q[j + 1]
      BY <1>3
    <3>3. QED
      BY <3>1, <3>2 DEF WalkOK, OrderOK, q
  <2>2. \A m \in visited[b] : \A i \in DOMAIN queue'[b] : depth[b][m] <= queue'[b][i][2]
    BY <1>3 DEF WalkOK, OrderOK, q
  <2>3. QED
    BY <1>1, <2>1, <2>2 DEF OrderOK
<1>8. n \in visited[b] => depth[b][n] <= d
  BY <1>3 DEF WalkOK, OrderOK, q, n, d
<1>9. StartOK(b)'
  <2>1. CASE visited[b] = {} /\ q = << <<Self(b), 0>> >>
    <3>1. d = 0 /\ n \notin visited[b]
      BY <2>1 DEF d
    <3>2. QED
      BY <1>1, <3>1, QueryAssumption
  <2>2. CASE Self(b) \in visited[b] /\ depth[b][Self(b)] = 0
    BY <1>1, <1>2, <2>2 DEF StartOK
  <2>3. QED
    BY <1>1, <2>1, <2>2 DEF WalkOK, StartOK, q
<1>10. ASSUME NEW m, NEW e \in Nat, Handled(b, m, e)
       PROVE  Handled(b, m, e)'
  <2>1. CASE (m \in visited[b] /\ depth[b][m] <= e) \/ e > MaxDepth
    BY <1>1, <2>1 DEF Handled
  <2>2. ASSUME NEW i \in DOMAIN q, q[i] = <<m, e>>
        PROVE  Handled(b, m, e)'
    <3>1. CASE i = 1
      <4>1. n = m /\ d = e
        BY <2>2, <3>1 DEF n, d
      <4>2. QED
        BY <1>1, <1>8, <4>1 DEF Handled
    <3>2. CASE i # 1
      <4>1. i - 1 \in DOMAIN queue'[b] /\ queue'[b][i - 1] = q[i]
        <5>1. i - 1 \in 1 .. Len(q) - 1 /\ (i - 1) + 1 = i
          BY <1>3, <3>2
        <5>2. QED
          BY <1>3, <5>1
      <4>2. QED
        BY <2>2, <4>1 DEF Handled
    <3>3. QED
      BY <3>1, <3>2
  <2>3. QED
    BY <1>10, <2>1, <2>2 DEF Handled, q
<1>11. FrontierOK(b)'
  <2>1. \A m \in visited[b] : depth[b][m] + 1 \in Nat
    BY WalkTypes
  <2>2. \A m \in visited[b] : \A e \in seen[b] :
          e.source = m => Handled(b, e.target, depth[b][m] + 1)'
    BY <1>1, <1>10, <2>1 DEF WalkOK, FrontierOK
  <2>3. QED
    BY <1>1, <1>2, <2>2 DEF FrontierOK, WalkOK
<1>12. QED
  BY <1>5, <1>6, <1>7, <1>9, <1>11 DEF WalkOK

\* The queue is empty: what was to be handled has been.
LEMMA EndWalkStep ==
  ASSUME TypeOK, QueryTypeOK, UNCHANGED vars, NEW b \in Builders, WalkOK(b), EndWalk(b)
  PROVE  WalkOK(b)'
<1>1. /\ reading'[b] = "done" /\ reading[b] = "walk" /\ queue[b] = <<>> /\ queue'[b] = <<>>
      /\ visited'[b] = visited[b] /\ depth'[b] = depth[b] /\ seen'[b] = seen[b]
  BY DEF EndWalk, At, Turn, QueryTypeOK
<1>2. Self(b)' = Self(b) /\ VisibleEdges(b)' = VisibleEdges(b) /\ stage' = stage
  BY StoresKept
<1>3. Self(b) \in visited[b] /\ depth[b][Self(b)] = 0
  BY <1>1 DEF WalkOK, StartOK
<1>4. QED
  BY <1>1, <1>2, <1>3 DEF WalkOK, StepOK, SizeOK, KindOK, ReachOK, OrderOK, StartOK,
     FrontierOK, OfFailure, Handled

\* What the targets of a node are put in order as.
Lists(found, b, n, nodes) ==
  /\ found \in Seq(AllNodes) /\ DOMAIN found = 1 .. Len(found) /\ Len(found) \in Nat
  /\ \A i \in 1 .. Len(found) : \E e \in VisibleEdges(b) : e.source = n /\ e.target = found[i]
  /\ \A m \in Targets(b, n) \ nodes : \E i \in 1 .. Len(found) : found[i] = m

LEMMA OrdersType ==
  ASSUME IInv, NEW b \in Builders, NEW n, NEW nodes,
         NEW found \in Orders(Targets(b, n) \ nodes)
  PROVE  Lists(found, b, n, nodes)
<1>1. Targets(b, n) \ nodes \subseteq AllNodes
  BY VisibleAreRows, EdgesOfContexts DEF Targets, VisibleEdges, IInv
<1>2. /\ found \in [1 .. Cardinality(Targets(b, n) \ nodes) -> Targets(b, n) \ nodes]
      /\ Range(found) = Targets(b, n) \ nodes
  BY DEF Orders
<1>3. Cardinality(Targets(b, n) \ nodes) \in Nat
  <2>1. VisibleEdges(b) \subseteq Rows \cup own[b]
    BY DEF VisibleEdges, Visible
  <2>2. IsFiniteSet(Rows \cup own[b])
    BY FS_Union DEF IInv, GraphOK, BuilderOK
  <2>3. IsFiniteSet({e \in VisibleEdges(b) : e.source = n})
    BY <2>1, <2>2, FS_Subset
  <2> DEFINE from == {e \in VisibleEdges(b) : e.source = n}
             end == [e \in from |-> e.target]
  <2>4. IsFiniteSet(Targets(b, n))
    <3>1. end \in Surjection(from, Targets(b, n))
      BY DEF Surjection, Targets
    <3>2. QED
      BY <2>3, <3>1, FS_Surjection
  <2>5. QED
    BY <2>4, FS_Subset, FS_CardinalityType
<1> DEFINE others == Targets(b, n) \ nodes
<1>4. /\ found \in [1 .. Cardinality(others) -> AllNodes] /\ DOMAIN found = 1 .. Cardinality(others)
      /\ \A i \in 1 .. Cardinality(others) : found[i] \in others
      /\ \A m \in others : \E i \in DOMAIN found : found[i] = m
  <2>1. \A m \in Range(found) : \E i \in DOMAIN found : found[i] = m
    BY Zenon DEF Range
  <2>2. QED
    BY <1>1, <1>2, <2>1
<1>5. \A m \in others : \E e \in VisibleEdges(b) : e.source = n /\ e.target = m
  BY DEF Targets
<1> HIDE DEF others
<1>6. Cardinality(others) \in Nat
  BY <1>3 DEF others
<1>7. found \in Seq(AllNodes) /\ Len(found) = Cardinality(others)
  BY <1>4, <1>6
<1>8. QED
  BY <1>4, <1>5, <1>6, <1>7 DEF others, Lists

\* What Handled says of the next state.
HandledNext(b, m, d) ==
  \/ m \in visited'[b] /\ depth'[b][m] <= d
  \/ d > MaxDepth
  \/ \E i \in DOMAIN queue'[b] : queue'[b][i] = <<m, d>>

\* A node is visited and, unless that is the last, its targets wait one level deeper.
LEMMA VisitStep ==
  ASSUME IInv, QueryTypeOK, UNCHANGED vars, NEW b \in Builders, WalkOK(b), Visit(b)
  PROVE  WalkOK(b)'
<1> DEFINE q == queue[b]
           n == q[1][1]
           d == q[1][2]
           nodes == visited[b] \cup {n}
<1>0. TypeOK
  BY DEF IInv
<1>1. /\ reading[b] = "walk" /\ q # <<>> /\ n \notin visited[b] /\ ~(d > MaxDepth)
      /\ visited'[b] = nodes /\ depth' = [depth EXCEPT ![b][n] = d] /\ seen'[b] = seen[b]
      /\ IF Cardinality(nodes) >= MaxNodes
         THEN reading'[b] = "done" /\ queue'[b] = <<>>
         ELSE /\ \E found \in Orders(Targets(b, n) \ nodes) : queue'[b] = Joined(q, found, d + 1)
              /\ reading'[b] = "walk"
  <2>1. /\ queue \in [Builders -> Seq(AllNodes \X (0 .. MaxDepth + 1))]
        /\ reading \in [Builders -> {"no", "search", "walk", "done"}]
        /\ visited \in [Builders -> SUBSET AllNodes]
    BY DEF QueryTypeOK
  <2>2. /\ reading[b] = "walk" /\ q # <<>> /\ seen' = seen
        /\ Head(q)[1] \notin visited[b] /\ ~(Head(q)[2] > MaxDepth)
        /\ visited' = [visited EXCEPT ![b] = visited[b] \cup {Head(q)[1]}]
        /\ depth' = [depth EXCEPT ![b][Head(q)[1]] = Head(q)[2]]
    BY DEF Visit, At, TooDeep
  <2>3. Head(q) = q[1]
    BY <2>1, <2>2
  <2>4. IF Cardinality(nodes) >= MaxNodes
        THEN reading'[b] = "done" /\ queue'[b] = <<>>
        ELSE /\ \E found \in Orders(Targets(b, n) \ nodes) : queue'[b] = Joined(q, found, d + 1)
             /\ reading'[b] = "walk"
    <3>1. CASE Cardinality(nodes) >= MaxNodes
      <4>1. Turn(b, "done") /\ queue' = [queue EXCEPT ![b] = <<>>]
        BY <2>3, <3>1 DEF Visit
      <4>2. QED
        BY <2>1, <3>1, <4>1 DEF Turn
    <3>2. CASE ~(Cardinality(nodes) >= MaxNodes)
      <4>1. /\ \E found \in Orders(Targets(b, n) \ nodes) :
                  queue' = [queue EXCEPT ![b] = Joined(q, found, d + 1)]
            /\ reading' = reading
        BY <2>3, <3>2 DEF Visit, Joined
      <4>2. QED
        BY <2>1, <2>2, <3>2, <4>1
    <3>3. QED
      BY <3>1, <3>2
  <2>5. QED
    BY <2>1, <2>2, <2>3, <2>4
<1>2. Self(b)' = Self(b) /\ VisibleEdges(b)' = VisibleEdges(b) /\ stage' = stage
  BY StoresKept
<1>3. /\ q \in Seq(AllNodes \X Nat) /\ Len(q) \in Nat \ {0} /\ DOMAIN q = 1 .. Len(q)
      /\ n \in AllNodes /\ d \in Nat /\ q[1] = <<n, d>> /\ 1 \in DOMAIN q
      /\ \A i \in DOMAIN q : q[i] \in AllNodes \X Nat
  <2>1. q \in Seq(AllNodes \X Nat) /\ q # <<>>
    BY <1>1, WalkTypes
  <2>2. Len(q) \in Nat \ {0} /\ DOMAIN q = 1 .. Len(q)
    BY <2>1, TailIs
  <2>3. \A i \in DOMAIN q : q[i] \in AllNodes \X Nat
    BY <2>1, <2>2
  <2>4. q[1] \in AllNodes \X Nat
    BY <2>2, <2>3
  <2>5. QED
    BY <2>1, <2>2, <2>3, <2>4
<1>4. depth'[b][n] = d /\ \A m \in visited[b] : depth'[b][m] = depth[b][m]
  BY <1>1, <1>3, WalkTypes DEF QueryTypeOK
<1>5. /\ \A m \in visited[b] : depth[b][m] <= d /\ depth[b][m] \in Nat
      /\ \A i \in DOMAIN q : d <= q[i][2] /\ q[i][2] <= d + 1
  <2>1. \A m \in visited[b] : depth[b][m] <= d /\ depth[b][m] \in Nat
    BY <1>3, WalkTypes DEF WalkOK, OrderOK
  <2>2. \A i \in DOMAIN q : q[i][2] <= d + 1
    BY <1>3 DEF WalkOK, OrderOK
  <2>3. \A i \in DOMAIN q : d <= q[i][2]
    <3> SUFFICES ASSUME NEW i \in DOMAIN q PROVE d <= q[i][2]
      OBVIOUS
    <3>1. CASE i = 1
      BY <1>3, <3>1
    <3>2. CASE i # 1
      <4>1. 1 \in DOMAIN q /\ i \in DOMAIN q /\ 1 < i
        BY <1>3, <3>2
      <4>2. QED
        BY <4>1 DEF WalkOK, OrderOK
    <3>3. QED
      BY <3>1, <3>2
  <2>4. QED
    BY <2>1, <2>2, <2>3
<1>6. OfFailure(b, n) /\ (stage[b] # "failed" => Chain(Self(b), n, d, VisibleEdges(b)))
  BY <1>3 DEF WalkOK, KindOK, ReachOK
<1> HIDE DEF q, n, d, nodes
<1>7. SizeOK(b)'
  <2>1. IsFiniteSet(nodes) /\ Cardinality(nodes) = Cardinality(visited[b]) + 1
    BY <1>1, FS_AddElement DEF WalkOK, SizeOK, nodes
  <2>2. Cardinality(visited[b]) \in Nat /\ Cardinality(visited[b]) < MaxNodes
    BY <1>1, FS_CardinalityType DEF WalkOK, SizeOK
  <2>3. QED
    BY <1>1, <2>1, <2>2, QueryAssumption DEF SizeOK
<1>8. StepOK(b)' /\ StartOK(b)'
  <2>1. Self(b) \in nodes /\ depth'[b][Self(b)] = 0
    <3>1. CASE visited[b] = {} /\ q = << <<Self(b), 0>> >>
      BY <1>4, <3>1 DEF nodes, n, d
    <3>2. CASE Self(b) \in visited[b] /\ depth[b][Self(b)] = 0
      BY <1>4, <3>2 DEF nodes
    <3>3. QED
      BY <1>1, <3>1, <3>2 DEF WalkOK, StartOK, q
  <2>2. QED
    BY <1>1, <1>2, <2>1 DEF StepOK, StartOK
<1>9. \A m \in nodes : /\ OfFailure(b, m)
                       /\ depth'[b][m] \in Nat /\ depth'[b][m] <= d
                       /\ stage[b] # "failed" => Chain(Self(b), m, depth'[b][m], VisibleEdges(b))
  BY <1>3, <1>4, <1>5, <1>6 DEF WalkOK, KindOK, ReachOK, nodes
<1>10. CASE Cardinality(nodes) >= MaxNodes
  <2>1. KindOK(b)' /\ ReachOK(b)' /\ OrderOK(b)'
    BY <1>1, <1>2, <1>9, <1>10 DEF KindOK, ReachOK, OrderOK, OfFailure
  <2>2. FrontierOK(b)'
    <3>1. IsFiniteSet(nodes) /\ Cardinality(nodes) \in Nat
      BY <1>1, FS_AddElement, FS_CardinalityType DEF WalkOK, SizeOK, nodes
    <3>2. QED
      BY <1>1, <1>2, <1>10, <3>1, QueryAssumption DEF WalkOK, FrontierOK
  <2>3. QED
    BY <1>7, <1>8, <2>1, <2>2 DEF WalkOK
<1>11. CASE ~(Cardinality(nodes) >= MaxNodes)
  <2>1. PICK found \in Orders(Targets(b, n) \ nodes) : queue'[b] = Joined(q, found, d + 1)
    BY <1>1, <1>11
  <2>2. /\ found \in Seq(AllNodes) /\ Len(found) \in Nat
        /\ \A i \in 1 .. Len(found) :
             \E e \in VisibleEdges(b) : e.source = n /\ e.target = found[i]
        /\ \A m \in Targets(b, n) \ nodes : \E i \in 1 .. Len(found) : found[i] = m
    <3>1. Lists(found, b, n, nodes)
      BY <2>1, OrdersType, Zenon
    <3>2. QED
      BY <3>1 DEF Lists
  <2> DEFINE k == Len(q) - 1
             new == queue'[b]
  <2>3. /\ k \in Nat /\ DOMAIN new = 1 .. k + Len(found)
        /\ \A i \in 1..k : new[i] = q[i + 1] /\ i + 1 \in DOMAIN q
        /\ \A i \in 1 .. Len(found) : new[k + i] = <<found[i], d + 1>>
    <3>1. /\ new \in Seq(AllNodes \X Nat) /\ Len(new) = Len(q) - 1 + Len(found)
          /\ \A i \in 1 .. Len(q) - 1 : new[i] = q[i + 1]
          /\ \A i \in 1 .. Len(found) : new[Len(q) - 1 + i] = <<found[i], d + 1>>
      <4>1. /\ q \in Seq(AllNodes \X Nat) /\ q # <<>>
            /\ found \in Seq(AllNodes) /\ d + 1 \in Nat
        BY <1>1, <1>3, <2>2
      <4>2. /\ Joined(q, found, d + 1) \in Seq(AllNodes \X Nat)
            /\ HasBoth(Joined(q, found, d + 1), q, found, d + 1)
        BY <4>1, JoinedIs
      <4>3. QED
        BY <2>1, <4>2 DEF HasBoth
    <3>2. DOMAIN new = 1 .. Len(new)
      BY <3>1
    <3>3. DOMAIN q = 1 .. Len(q) /\ Len(q) \in Nat \ {0}
      BY <1>3
    <3>4. k \in Nat /\ \A i \in 1..k : i + 1 \in DOMAIN q
      BY <3>3
    <3>5. DOMAIN new = 1 .. k + Len(found)
      BY <3>1, <3>2
    <3>6. QED
      BY <3>1, <3>4, <3>5
  <2> HIDE DEF k, new
  <2>4. \A i \in DOMAIN new :
          \/ i \in 1..k /\ i + 1 \in DOMAIN q /\ new[i] = q[i + 1]
          \/ i \in k + 1 .. k + Len(found) /\ \E e \in VisibleEdges(b) :
               e.source = n /\ new[i][1] = e.target /\ new[i][2] = d + 1
    <3> SUFFICES ASSUME NEW i \in DOMAIN new, ~(i \in 1..k)
                 PROVE  i \in k + 1 .. k + Len(found) /\ \E e \in VisibleEdges(b) :
                          e.source = n /\ new[i][1] = e.target /\ new[i][2] = d + 1
      BY <2>3
    <3>1. i \in k + 1 .. k + Len(found) /\ i - k \in 1 .. Len(found) /\ k + (i - k) = i
      BY <2>2, <2>3
    <3>2. new[i] = <<found[i - k], d + 1>>
      BY <2>3, <3>1
    <3>3. QED
      BY <2>2, <3>1, <3>2
  <2>5. KindOK(b)'
    <3>1. \A e \in VisibleEdges(b) : e.source = n => OfFailure(b, e.target)
      <4>1. n.node \in {"REQUEST_CONTEXT", "ERROR_SIGNATURE", "ERROR_TYPE"}
        BY <1>0, <1>6, SelfIsNode DEF OfFailure
      <4>2. QED
        BY <1>0, <4>1, VisibleAreRows, EdgesOfContexts DEF VisibleEdges, OfFailure
    <3>2. \A i \in DOMAIN new : OfFailure(b, new[i][1])
      BY <2>4, <3>1 DEF WalkOK, KindOK, q
    <3>3. QED
      BY <1>1, <1>2, <1>9, <3>2 DEF KindOK, OfFailure, new
  <2>6. ReachOK(b)'
    <3>1. ASSUME stage[b] # "failed", NEW i \in DOMAIN new
          PROVE  Chain(Self(b), new[i][1], new[i][2], VisibleEdges(b))
      <4>1. \A e \in VisibleEdges(b) :
              e.source = n => Chain(Self(b), e.target, d + 1, VisibleEdges(b))
        BY <1>3, <1>6, <3>1, ChainExtends
      <4>2. QED
        BY <2>4, <3>1, <4>1 DEF WalkOK, ReachOK, q
    <3>2. QED
      BY <1>1, <1>2, <1>9, <3>1 DEF ReachOK, new
  <2>7. OrderOK(b)'
    <3>1. \A i \in DOMAIN new : new[i][2] \in Nat /\ d <= new[i][2] /\ new[i][2] <= d + 1
      BY <1>3, <1>5, <2>4
    <3>2. \A i, j \in DOMAIN new : i < j => new[i][2] <= new[j][2]
      <4> SUFFICES ASSUME NEW i \in DOMAIN new, NEW j \in DOMAIN new, i < j
                   PROVE  new[i][2] <= new[j][2]
        OBVIOUS
      <4>1. CASE j \in 1..k
        <5>1. i \in 1..k /\ i + 1 < j + 1
          BY <2>3, <4>1
        <5>2. i + 1 \in DOMAIN q /\ j + 1 \in DOMAIN q /\ new[i] = q[i + 1] /\ new[j] = q[j + 1]
          BY <2>3, <4>1, <5>1
        <5>3. QED
          BY <5>1, <5>2 DEF WalkOK, OrderOK, q
      <4>2. CASE ~(j \in 1..k)
        BY <2>4, <3>1, <4>2
      <4>3. QED
        BY <4>1, <4>2
    <3>3. \A i, j \in DOMAIN new : new[j][2] <= new[i][2] + 1
      BY <1>3, <3>1
    <3>4. \A m \in nodes : \A i \in DOMAIN new : depth'[b][m] <= new[i][2]
      BY <1>3, <1>9, <3>1
    <3>5. QED
      BY <1>1, <3>2, <3>3, <3>4 DEF OrderOK, new
  <2>8. \A e \in Nat : \A t : Handled(b, t, e) => HandledNext(b, t, e)
    <3> SUFFICES ASSUME NEW e \in Nat, NEW t, Handled(b, t, e)
                 PROVE  HandledNext(b, t, e)
      OBVIOUS
    <3>1. CASE (t \in visited[b] /\ depth[b][t] <= e) \/ e > MaxDepth
      BY <1>1, <1>4, <3>1 DEF HandledNext, nodes
    <3>2. ASSUME NEW i \in DOMAIN q, q[i] = <<t, e>>
          PROVE  HandledNext(b, t, e)
      <4>1. CASE i = 1
        <5>1. t = n /\ e = d
          BY <1>3, <3>2, <4>1
        <5>2. QED
          BY <1>1, <1>3, <1>4, <5>1 DEF HandledNext, nodes
      <4>2. CASE i # 1
        <5>1. i \in 1 .. Len(q) /\ k = Len(q) - 1 /\ Len(q) \in Nat
          BY <1>3 DEF k
        <5>2. i - 1 \in 1..k /\ (i - 1) + 1 = i
          BY <4>2, <5>1
        <5>3. i - 1 \in DOMAIN new /\ new[i - 1] = <<t, e>>
          BY <2>2, <2>3, <3>2, <5>2
        <5>4. QED
          BY <5>3 DEF HandledNext, new
      <4>3. QED
        BY <4>1, <4>2
    <3>3. QED
      BY <3>1, <3>2 DEF Handled, q
  <2>9. \A e \in VisibleEdges(b) : e.source = n => HandledNext(b, e.target, d + 1)
    <3> SUFFICES ASSUME NEW e \in VisibleEdges(b), e.source = n
                 PROVE  HandledNext(b, e.target, d + 1)
      OBVIOUS
    <3>1. CASE e.target \in nodes
      BY <1>1, <1>3, <1>9, <3>1 DEF HandledNext
    <3>2. CASE e.target \notin nodes
      <4>1. PICK i \in 1 .. Len(found) : found[i] = e.target
        BY <2>2, <3>2 DEF Targets
      <4>2. k \in Nat /\ Len(found) \in Nat
        BY <2>2, <2>3
      <4>3. k + i \in 1 .. k + Len(found)
        BY <4>2
      <4>4. k + i \in DOMAIN new /\ new[k + i] = <<found[i], d + 1>>
        BY <2>3, <4>3
      <4>5. QED
        BY <4>1, <4>4 DEF HandledNext, new
    <3>3. QED
      BY <3>1, <3>2
  <2>10. FrontierOK(b)'
    <3>1. seen[b] \subseteq VisibleEdges(b) \/ stage[b] = "failed"
      BY DEF WalkOK, FrontierOK
    <3>2. stage[b] # "failed"
      BY DEF Visit, At
    <3>3. \A m \in nodes : \A e \in seen[b] :
            e.source = m => HandledNext(b, e.target, depth'[b][m] + 1)
      <4> SUFFICES ASSUME NEW m \in nodes, NEW e \in seen[b], e.source = m
                   PROVE  HandledNext(b, e.target, depth'[b][m] + 1)
        OBVIOUS
      <4>1. CASE m = n
        BY <1>4, <2>9, <3>1, <3>2, <4>1
      <4>2. CASE m # n
        <5>1. m \in visited[b] /\ depth'[b][m] = depth[b][m] /\ depth[b][m] + 1 \in Nat
          BY <1>4, <1>5, <4>2 DEF nodes
        <5>2. Handled(b, e.target, depth[b][m] + 1)
          BY <1>1, <5>1 DEF WalkOK, FrontierOK
        <5>3. QED
          BY <2>8, <5>1, <5>2
      <4>3. QED
        BY <4>1, <4>2
    <3>4. QED
      BY <1>1, <1>2, <3>1, <3>2, <3>3 DEF FrontierOK, Handled, HandledNext
  <2>11. QED
    BY <1>7, <1>8, <2>5, <2>6, <2>7, <2>10 DEF WalkOK
<1>12. QED
  BY <1>10, <1>11

-------------------------------------------------------------------------------
(* The answer of a search *)

\* Places of the one sequence are places of the other, in order, and none is left
\* out but those of n.
Leaves(w, len, g, f, m, n) ==
  /\ g \in [1..len -> 1..m]
  /\ \A i \in 1..len : w[i] = f[g[i]] /\ f[g[i]][1] # n
  /\ \A i, j \in 1..len : i < j => g[i] < g[j]
  /\ \A j \in 1..m : f[j][1] # n => \E i \in 1..len : g[i] = j

\* Nothing is left out, or the one place of n.
Shortened(len, f, m, n) ==
  \/ len = m /\ \A i \in 1..m : f[i][1] # n
  \/ len = m - 1 /\ \E i \in 1..m : f[i][1] = n

LeavesOut(w, S, f, m, n) ==
  \E len \in Nat : \E g \in [1..len -> 1..m] :
    /\ w \in Seq(S) /\ Len(w) = len
    /\ Leaves(w, len, g, f, m, n) /\ Shortened(len, f, m, n)

LEMMA WithoutSelfIs ==
  ASSUME NEW S, NEW m \in Nat, NEW f \in [1..m -> S], NEW n,
         \A i, j \in 1..m : f[i][1] = n /\ f[j][1] = n => i = j
  PROVE  LeavesOut(WithoutSelf(n, f), S, f, m, n)
<1> DEFINE w == WithoutSelf(n, f)
<1>1. f \in Seq(S) /\ Len(f) = m /\ DOMAIN f = 1..m /\ \A i \in 1..m : f[i] \in S
  OBVIOUS
<1>2. CASE \A i \in 1..m : f[i][1] # n
  <2>1. w = f
    BY <1>1, <1>2 DEF WithoutSelf
  <2> DEFINE g == [i \in 1..m |-> i]
  <2>2. g \in [1..m -> 1..m] /\ Leaves(f, m, g, f, m, n)
    BY <1>2 DEF Leaves
  <2>3. Shortened(m, f, m, n)
    BY <1>2 DEF Shortened
  <2>4. QED
    BY <1>1, <2>1, <2>2, <2>3 DEF LeavesOut
<1>3. ASSUME NEW p \in 1..m, f[p][1] = n
      PROVE  LeavesOut(w, S, f, m, n)
  <2>1. \A i \in 1..m : f[i][1] = n <=> i = p
    BY <1>3
  <2>2. {i \in DOMAIN f : f[i][1] = n} = {p}
    BY <1>1, <2>1
  <2>3. w = RemoveAt(f, p)
    BY <2>2 DEF WithoutSelf
  <2> DEFINE s == SubSeq(f, 1, p - 1)
             t == SubSeq(f, p + 1, m)
  <2>4. s \in Seq(S) /\ Len(s) = p - 1 /\ \A i \in 1 .. p - 1 : s[i] = f[i]
    <3>1. \A i \in 1 .. p - 1 : f[i] \in S
      BY <1>1
    <3>2. /\ s \in Seq(S) /\ Len(s) = IF 1 <= p - 1 THEN (p - 1) - 1 + 1 ELSE 0
          /\ \A i \in 1 .. (p - 1) - 1 + 1 : s[i] = f[1 + i - 1]
      BY <3>1, SubSeqProperties
    <3>3. QED
      BY <3>2
  <2>5. t \in Seq(S) /\ Len(t) = m - p /\ \A i \in 1 .. m - p : t[i] = f[p + i]
    <3>1. \A i \in p + 1 .. m : f[i] \in S
      BY <1>1
    <3>2. /\ t \in Seq(S) /\ Len(t) = IF p + 1 <= m THEN m - (p + 1) + 1 ELSE 0
          /\ \A i \in 1 .. m - (p + 1) + 1 : t[i] = f[(p + 1) + i - 1]
      BY <3>1, SubSeqProperties
    <3>3. QED
      BY <3>2
  <2>6. w = s \o t
    BY <1>1, <2>3 DEF RemoveAt
  <2> HIDE DEF s, t, w
  <2>7. /\ w \in Seq(S) /\ Len(w) = m - 1
        /\ \A i \in 1 .. m - 1 : w[i] = IF i <= p - 1 THEN f[i] ELSE f[i + 1]
    <3>1. s \in Seq(S) /\ t \in Seq(S)
      BY <2>4, <2>5
    <3>2. /\ w \in Seq(S) /\ Len(w) = Len(s) + Len(t)
          /\ \A i \in 1 .. Len(s) + Len(t) :
               w[i] = IF i <= Len(s) THEN s[i] ELSE t[i - Len(s)]
      BY ONLY <2>6, <3>1, ConcatProperties, Zenon
    <3>3. Len(w) = m - 1
      BY <2>4, <2>5, <3>2
    <3>4. ASSUME NEW i \in 1 .. m - 1
          PROVE  w[i] = IF i <= p - 1 THEN f[i] ELSE f[i + 1]
      <4>1. w[i] = IF i <= p - 1 THEN s[i] ELSE t[i - (p - 1)]
        BY <2>4, <2>5, <3>2
      <4>2. CASE i <= p - 1
        BY <2>4, <4>1, <4>2
      <4>3. CASE ~(i <= p - 1)
        <5>1. i - (p - 1) \in 1 .. m - p /\ p + (i - (p - 1)) = i + 1
          BY <4>3
        <5>2. QED
          BY <2>5, <4>1, <4>3, <5>1
      <4>4. QED
        BY <4>2, <4>3
    <3>5. QED
      BY <3>2, <3>3, <3>4
  <2> DEFINE g == [i \in 1 .. m - 1 |-> IF i <= p - 1 THEN i ELSE i + 1]
  <2>8. g \in [1 .. m - 1 -> 1..m] /\ Leaves(w, m - 1, g, f, m, n)
    <3>1. g \in [1 .. m - 1 -> 1..m] /\ \A i \in 1 .. m - 1 : g[i] # p
      OBVIOUS
    <3>2. \A i \in 1 .. m - 1 : w[i] = f[g[i]] /\ f[g[i]][1] # n
      BY <2>1, <2>7, <3>1
    <3>3. \A i, j \in 1 .. m - 1 : i < j => g[i] < g[j]
      OBVIOUS
    <3>4. ASSUME NEW j \in 1..m, f[j][1] # n
          PROVE  \E i \in 1 .. m - 1 : g[i] = j
      <4>1. CASE j < p
        <5>1. j \in 1 .. m - 1 /\ g[j] = j
          BY <4>1
        <5>2. QED
          BY <5>1
      <4>2. CASE j > p
        <5>1. j - 1 \in 1 .. m - 1 /\ g[j - 1] = j
          BY <4>2
        <5>2. QED
          BY <5>1
      <4>3. QED
        BY <2>1, <3>4, <4>1, <4>2
    <3>5. QED
      BY <3>1, <3>2, <3>3, <3>4 DEF Leaves
  <2> HIDE DEF g
  <2>9. m - 1 \in Nat /\ Shortened(m - 1, f, m, n)
    BY <1>3 DEF Shortened
  <2>10. QED
    BY <2>7, <2>8, <2>9 DEF LeavesOut
<1>4. QED
  BY <1>2, <1>3, Zenon

Others(near, n) == {other \in near : other[1] # n}

\* What SearchIsExact says of one answer.
Nearest(a, n, rec, part) ==
  LET others == Others(Near(rec, part), n)
      found  == Range(a)
  IN  /\ found \subseteq others /\ IsInjective(a)
      /\ Len(a) = AtMost(Cardinality(others), Limit)
      /\ \A other \in others \ found : \A x \in found : Distance[x, rec] <= Distance[other, rec]

\* Room for one more is enough, since one record at most is the node's own.
RightLength(len, near, n) == AtMost(len, Limit) = AtMost(Cardinality(Others(near, n)), Limit)

LEMMA AnswerLength ==
  ASSUME NEW near, IsFiniteSet(near), NEW n, \A x, y \in near : x[1] = n /\ y[1] = n => x = y,
         NEW m \in Nat, m = AtMost(Cardinality(near), Limit + 1),
         NEW f \in [1..m -> near], IsInjective(f), NEW len \in Nat, Shortened(len, f, m, n)
  PROVE  RightLength(len, near, n)
<1> DEFINE others == Others(near, n)
<1>1. /\ IsFiniteSet(others) /\ Cardinality(others) \in Nat /\ Cardinality(near) \in Nat
      /\ Cardinality(others) <= Cardinality(near)
  BY FS_Subset, FS_CardinalityType DEF Others
<1>2. Limit \in Nat \ {0}
  BY QueryAssumption
<1> HIDE DEF others
<1>3. CASE len = m /\ \A i \in 1..m : f[i][1] # n
  <2>1. f \in Injection(1..m, others)
    BY <1>3 DEF Injection, others, Others
  <2>2. Cardinality(1..m) = m
    BY FS_Interval
  <2>3. m <= Cardinality(others)
    BY <1>1, <2>1, <2>2, FS_Injection
  <2>4. QED
    BY <1>1, <1>2, <1>3, <2>3 DEF AtMost, RightLength, others
<1>4. ASSUME len = m - 1, NEW i \in 1..m, f[i][1] = n
      PROVE  RightLength(len, near, n)
  <2>1. others = near \ {f[i]} /\ f[i] \in near
    BY <1>4 DEF others, Others
  <2>2. Cardinality(others) = Cardinality(near) - 1
    BY <2>1, FS_RemoveElement
  <2>3. QED
    BY <1>1, <1>2, <1>4, <2>2 DEF AtMost, RightLength, others
<1>5. QED
  BY <1>3, <1>4 DEF Shortened

LEMMA AnswerIsNearest ==
  ASSUME NEW rec \in AllRecords, NEW part, part \subseteq AllRecords, IsFiniteSet(part),
         \A x, y \in part : x[1] = y[1] => x = y,
         NEW a \in SearchByNode(rec, part)
  PROVE  a \in Seq(AllRecords) /\ Nearest(a, rec[1], rec, part)
<1> DEFINE n == rec[1]
           near == Near(rec, part)
           m == AtMost(Cardinality(near), Limit + 1)
           others == Others(near, n)
<1>1. /\ near \subseteq AllRecords /\ IsFiniteSet(near)
      /\ \A x, y \in near : x[1] = n /\ y[1] = n => x = y
  BY FS_Subset DEF Near
<1>2. /\ Cardinality(near) \in Nat /\ Limit \in Nat \ {0} /\ m \in Nat
      /\ IsFiniteSet(others) /\ Cardinality(others) \in Nat
      /\ m = AtMost(Cardinality(near), Limit + 1)
  BY <1>1, FS_CardinalityType, FS_Subset, QueryAssumption DEF AtMost, Others
<1>3. \A x \in near : Distance[x, rec] \in Nat
  BY <1>1, QueryAssumption
<1>4. PICK f \in SearchByVector(rec, Limit + 1, part) : a = Cut(WithoutSelf(n, f))
  BY DEF SearchByNode
<1>5. /\ f \in [1..m -> near] /\ IsInjective(f)
      /\ \A i \in 1..m : \A other \in near :
           \/ \E k \in 1..i : f[k] = other
           \/ Distance[f[i], rec] <= Distance[other, rec]
  BY <1>4 DEF SearchByVector
<1> HIDE DEF m, near, others
<1>6. \A i, j \in 1..m : f[i][1] = n /\ f[j][1] = n => i = j
  <2> SUFFICES ASSUME NEW i \in 1..m, NEW j \in 1..m, f[i][1] = n, f[j][1] = n
               PROVE  i = j
    OBVIOUS
  <2>1. f[i] = f[j]
    BY <1>1, <1>5
  <2>2. QED
    BY <1>5, <2>1 DEF IsInjective
<1> DEFINE w == WithoutSelf(n, f)
<1>7. LeavesOut(w, near, f, m, n)
  BY <1>2, <1>5, <1>6, WithoutSelfIs, Zenon
<1>8. PICK len, g :
        /\ len \in Nat /\ g \in [1..len -> 1..m] /\ w \in Seq(near) /\ Len(w) = len
        /\ Leaves(w, len, g, f, m, n) /\ Shortened(len, f, m, n)
  BY <1>7, Zenon DEF LeavesOut
<1> HIDE DEF w, n
<1> DEFINE c == AtMost(len, Limit)
<1>9. c \in 0..len /\ c = AtMost(Cardinality(others), Limit)
  <2>1. RightLength(len, near, n)
    BY <1>1, <1>2, <1>5, <1>8, AnswerLength, Zenon
  <2>2. AtMost(len, Limit) \in 0..len
    BY <1>2, <1>8 DEF AtMost
  <2>3. QED
    BY <2>1, <2>2 DEF RightLength, others
<1>10. /\ a \in Seq(near) /\ Len(a) = c /\ DOMAIN a = 1..c
       /\ \A i \in 1..c : a[i] = f[g[i]] /\ f[g[i]][1] # n /\ g[i] \in 1..m
  <2>1. a = SubSeq(w, 1, c)
    BY <1>4, <1>8 DEF Cut, w
  <2> HIDE DEF c
  <2>2. \A i \in 1..c : w[i] \in near
    BY <1>8, <1>9
  <2>3. /\ a \in Seq(near) /\ Len(a) = c
        /\ \A i \in 1..c : a[i] = w[i]
    <3>1. /\ SubSeq(w, 1, c) \in Seq(near)
          /\ Len(SubSeq(w, 1, c)) = IF 1 <= c THEN c - 1 + 1 ELSE 0
          /\ \A i \in 1 .. c - 1 + 1 : SubSeq(w, 1, c)[i] = w[1 + i - 1]
      BY <1>9, <2>2, SubSeqProperties
    <3>2. QED
      BY <1>9, <2>1, <3>1
  <2>4. DOMAIN a = 1..c
    BY <2>3
  <2>5. \A i \in 1..c : i \in 1..len
    BY <1>8, <1>9
  <2>6. QED
    BY <1>8, <2>3, <2>4, <2>5 DEF Leaves
<1> HIDE DEF c
<1>11. \A i \in 1..c : a[i] \in others
  BY <1>5, <1>10 DEF others, Others
<1>12. \A i, j \in 1..c : a[i] = a[j] => i = j
  <2> SUFFICES ASSUME NEW i \in 1..c, NEW j \in 1..c, a[i] = a[j]
               PROVE  i = j
    OBVIOUS
  <2>1. g[i] = g[j]
    <3>1. f[g[i]] = f[g[j]] /\ g[i] \in DOMAIN f /\ g[j] \in DOMAIN f
      BY <1>5, <1>10
    <3>2. QED
      BY <1>5, <3>1, Zenon DEF IsInjective
  <2>2. i \in 1..len /\ j \in 1..len
    BY <1>8, <1>9
  <2>3. QED
    BY <1>8, <2>1, <2>2 DEF Leaves
<1>13. ASSUME NEW other \in others, \A i \in 1..c : a[i] # other, NEW i \in 1..c
       PROVE  Distance[a[i], rec] <= Distance[other, rec]
  <2>1. \/ \E k \in 1..g[i] : f[k] = other
        \/ Distance[f[g[i]], rec] <= Distance[other, rec]
    BY <1>5, <1>10, <1>13 DEF others, Others
  <2>2. ASSUME NEW k \in 1..g[i], f[k] = other
        PROVE  FALSE
    <3>1. k \in 1..m /\ f[k][1] # n
      <4>1. g[i] \in 1..m /\ m \in Nat /\ other[1] # n
        BY <1>2, <1>10, <1>13 DEF others, Others
      <4>2. QED
        BY <2>2, <4>1
    <3>2. PICK j \in 1..len : g[j] = k
      BY <1>8, <3>1 DEF Leaves
    <3>3. j \in 1..c
      <4>1. i \in 1..len /\ ~(i < j)
        BY <1>8, <1>9, <2>2, <3>2 DEF Leaves
      <4>2. QED
        BY <1>9, <4>1
    <3>4. QED
      BY <1>10, <1>13, <2>2, <3>2, <3>3
  <2>3. QED
    BY <1>10, <2>1, <2>2
<1>14. Range(a) = {a[i] : i \in 1..c}
  BY <1>10 DEF Range
<1>15. /\ Range(a) \subseteq others /\ IsInjective(a)
       /\ Len(a) = AtMost(Cardinality(others), Limit)
       /\ \A other \in others \ Range(a) : \A x \in Range(a) :
            Distance[x, rec] <= Distance[other, rec]
  <2>1. \A other \in others \ Range(a) : \A x \in Range(a) :
          Distance[x, rec] <= Distance[other, rec]
    BY <1>13, <1>14
  <2>2. Range(a) \subseteq others
    BY <1>11, <1>14
  <2>3. IsInjective(a)
    BY <1>10, <1>12 DEF IsInjective
  <2>4. QED
    BY <1>9, <1>10, <2>1, <2>2, <2>3
<1>16. a \in Seq(AllRecords)
  BY <1>1, <1>10
<1>17. Nearest(a, n, rec, part)
  BY <1>15, Zenon DEF Nearest, others, near
<1>18. QED
  BY <1>16, <1>17 DEF n

-------------------------------------------------------------------------------
(* The inductive invariant *)

SearchOK(b) == Nearest(answer[b], Self(b), vector[b], scanned[b])

QueryInv == QueryTypeOK /\ \A b \in Builders : WalkOK(b) /\ SearchOK(b)

\* The records are finitely many, and at most one of each node.
LEMMA RecordsAre ==
  ASSUME IInv, NEW part, part \subseteq records
  PROVE  /\ part \subseteq AllRecords /\ IsFiniteSet(part)
         /\ \A x, y \in part : x[1] = y[1] => x = y
<1>1. \A x, y \in records : x[1] = y[1] => x = y
  BY DEF IInv, StaleOnlyByOverlap
<1>2. records \subseteq Nodes \X Runs /\ Nodes \subseteq AllNodes
  <2>1. records \subseteq Nodes \X Runs /\ graph \subseteq AllRows \X Builders
    BY DEF IInv, TypeOK, GraphTypeOK
  <2>2. Rows \subseteq AllRows
    BY <2>1 DEF Rows
  <2>3. QED
    BY <2>1, <2>2 DEF Nodes, AllNodes
<1>3. IsFiniteSet(Nodes)
  BY NodesFinite
<1> DEFINE of == [rec \in part |-> rec[1]]
<1>4. of \in Injection(part, Nodes)
  <2>1. of \in [part -> Nodes]
    BY <1>2
  <2>2. IsInjective(of)
    BY <1>1 DEF IsInjective
  <2>3. QED
    BY <2>1, <2>2 DEF Injection
<1>5. IsFiniteSet(part)
  BY <1>3, <1>4, FS_Injection
<1>6. QED
  BY <1>1, <1>2, <1>5 DEF AllRecords

LEMMA NothingFound ==
  ASSUME NEW n, NEW rec
  PROVE  Nearest(<<>>, n, rec, {})
<1>1. Others(Near(rec, {}), n) = {} /\ Range(<<>>) = {} /\ DOMAIN <<>> = {}
  BY DEF Others, Near, Range
<1>2. Cardinality({}) = 0 /\ AtMost(0, Limit) = 0
  BY FS_EmptySet, QueryAssumption DEF AtMost
<1>3. QED
  BY <1>1, <1>2 DEF Nearest, IsInjective

LEMMA QueryInitEstablishes == ASSUME QueryInit PROVE QueryInv
<1> USE DEF QueryInit, NothingRead
<1>1. QueryTypeOK
  BY QueryAssumption DEF QueryTypeOK
<1>2. ASSUME NEW b \in Builders
      PROVE  WalkOK(b) /\ SearchOK(b)
  <2>1. /\ reading[b] = "no" /\ visited[b] = {} /\ queue[b] = <<>> /\ seen[b] = {}
        /\ answer[b] = <<>> /\ scanned[b] = {}
    OBVIOUS
  <2>2. SizeOK(b)
    BY <2>1, FS_EmptySet, QueryAssumption DEF SizeOK
  <2>3. StepOK(b) /\ KindOK(b) /\ ReachOK(b) /\ OrderOK(b) /\ StartOK(b) /\ FrontierOK(b)
    BY <2>1 DEF StepOK, KindOK, ReachOK, OrderOK, StartOK, FrontierOK
  <2>4. QED
    BY <2>1, <2>2, <2>3, NothingFound DEF WalkOK, SearchOK
<1>3. QED
  BY <1>1, <1>2 DEF QueryInv

\* The first query finds a vector, or the walk begins.
LEMMA LookUpVectorStep ==
  ASSUME IInv, QueryInv, UNCHANGED vars, NEW b \in Builders, LookUpVector(b)
  PROVE  QueryTypeOK' /\ WalkOK(b)' /\ SearchOK(b)'
<1> USE DEF QueryInv
<1>1. /\ reading[b] = "no" /\ WalkOK(b) /\ TypeOK
      /\ answer' = answer /\ visited' = visited /\ depth' = depth /\ scanned' = scanned
  BY DEF LookUpVector, At, IInv
<1>2. Self(b)' = Self(b) /\ VisibleEdges(b)' = VisibleEdges(b) /\ stage' = stage
  BY StoresKept
<1>3. visited[b] = {} /\ queue[b] = <<>> /\ answer[b] = <<>> /\ scanned[b] = {}
  BY <1>1 DEF WalkOK, StepOK
<1>4. SearchOK(b)'
  BY <1>1, <1>3, NothingFound DEF SearchOK
<1>5. CASE StartWalk(b) /\ UNCHANGED vector
  <2>1. WalkOK(b)'
    BY <1>1, <1>5, StartStep
  <2>2. QueryTypeOK'
    <3>1. << <<Self(b), 0>> >> \in Seq(AllNodes \X (0 .. MaxDepth + 1))
      BY <1>1, SelfIsNode, QueryAssumption
    <3>2. VisibleEdges(b) \in SUBSET AllRows
      BY <1>1, VisibleAreRows
    <3>3. QED
      BY <1>1, <1>5, <3>1, <3>2 DEF StartWalk, Turn, QueryTypeOK
  <2>3. QED
    BY <1>4, <2>1, <2>2
<1>6. ASSUME NEW rec \in records, rec[1] = Self(b), vector' = [vector EXCEPT ![b] = rec],
             Turn(b, "search"), UNCHANGED <<queue, seen>>
      PROVE  QueryTypeOK' /\ WalkOK(b)' /\ SearchOK(b)'
  <2>1. rec \in AllRecords
    BY RecordsAre
  <2>2. QueryTypeOK'
    BY <1>1, <1>6, <2>1 DEF QueryTypeOK, Turn
  <2>3. reading'[b] = "search" /\ vector'[b] = rec
    BY <1>6 DEF QueryTypeOK, Turn
  <2>4. WalkOK(b)'
    <3>1. SizeOK(b)'
      BY <1>1, <1>3, <2>3, FS_EmptySet, QueryAssumption DEF SizeOK
    <3>2. StepOK(b)' /\ KindOK(b)' /\ ReachOK(b)' /\ OrderOK(b)' /\ StartOK(b)'
      BY <1>1, <1>2, <1>3, <1>6, <2>1, <2>3 DEF StepOK, KindOK, ReachOK, OrderOK, StartOK
    <3>3. FrontierOK(b)'
      BY <1>1, <1>2, <1>3, <1>6 DEF WalkOK, FrontierOK
    <3>4. QED
      BY <3>1, <3>2, <3>3 DEF WalkOK
  <2>5. QED
    BY <1>4, <2>2, <2>4
<1>7. QED
  BY <1>5, <1>6 DEF LookUpVector

\* The second query answers, or the walk begins.
LEMMA SearchStep ==
  ASSUME IInv, QueryInv, UNCHANGED vars, NEW b \in Builders, Search(b)
  PROVE  QueryTypeOK' /\ WalkOK(b)' /\ SearchOK(b)'
<1> USE DEF QueryInv
<1>1. /\ reading[b] = "search" /\ WalkOK(b) /\ TypeOK
      /\ vector' = vector /\ visited' = visited /\ depth' = depth
  BY DEF Search, At, IInv
<1>2. Self(b)' = Self(b) /\ VisibleEdges(b)' = VisibleEdges(b) /\ stage' = stage
  BY StoresKept
<1>3. /\ visited[b] = {} /\ queue[b] = <<>>
      /\ vector[b] \in AllRecords /\ vector[b][1] = Self(b)
  BY <1>1 DEF WalkOK, StepOK
<1>4. PICK part, found :
        /\ part \subseteq records
        /\ found \in SearchByNode(vector[b], part)
        /\ scanned' = [scanned EXCEPT ![b] = part]
        /\ answer' = [answer EXCEPT ![b] = found]
        /\ IF found = <<>> THEN StartWalk(b) ELSE Turn(b, "done") /\ UNCHANGED <<queue, seen>>
  <2>1. {rec \in records : rec[1].node = "REQUEST_CONTEXT"} \subseteq records
    OBVIOUS
  <2>2. QED
    BY <2>1 DEF Search
<1>5. /\ part \subseteq AllRecords /\ IsFiniteSet(part)
      /\ \A x, y \in part : x[1] = y[1] => x = y
  BY <1>4, RecordsAre
<1>6. found \in Seq(AllRecords) /\ Nearest(found, vector[b][1], vector[b], part)
  BY <1>3, <1>4, <1>5, AnswerIsNearest
<1>7. scanned'[b] = part /\ answer'[b] = found
  BY <1>4 DEF QueryTypeOK
<1>8. SearchOK(b)'
  BY <1>1, <1>2, <1>3, <1>6, <1>7 DEF SearchOK
<1>9. CASE StartWalk(b)
  <2>1. WalkOK(b)'
    BY <1>1, <1>9, StartStep
  <2>2. QueryTypeOK'
    <3>1. << <<Self(b), 0>> >> \in Seq(AllNodes \X (0 .. MaxDepth + 1))
      BY <1>1, SelfIsNode, QueryAssumption
    <3>2. VisibleEdges(b) \in SUBSET AllRows
      BY <1>1, VisibleAreRows
    <3>3. QED
      BY <1>1, <1>4, <1>5, <1>6, <1>9, <3>1, <3>2 DEF StartWalk, Turn, QueryTypeOK
  <2>3. QED
    BY <1>8, <2>1, <2>2
<1>10. CASE Turn(b, "done") /\ UNCHANGED <<queue, seen>>
  <2>1. QueryTypeOK'
    BY <1>1, <1>4, <1>5, <1>6, <1>10 DEF Turn, QueryTypeOK
  <2>2. reading'[b] = "done"
    BY <1>10 DEF QueryTypeOK, Turn
  <2>3. WalkOK(b)'
    <3>1. SizeOK(b)'
      BY <1>1, <1>3, <2>2, FS_EmptySet, QueryAssumption DEF SizeOK
    <3>2. StepOK(b)' /\ KindOK(b)' /\ ReachOK(b)' /\ OrderOK(b)' /\ StartOK(b)'
      BY <1>1, <1>2, <1>3, <1>10, <2>2 DEF StepOK, KindOK, ReachOK, OrderOK, StartOK
    <3>3. FrontierOK(b)'
      BY <1>1, <1>2, <1>3, <1>10 DEF WalkOK, FrontierOK
    <3>4. QED
      BY <3>1, <3>2, <3>3 DEF WalkOK
  <2>4. QED
    BY <1>8, <2>1, <2>3
<1>11. QED
  BY <1>4, <1>9, <1>10

\* The walk keeps the types: what is appended is one level below a node that is
\* not too deep.
LEMMA WalkKeepsTypes ==
  ASSUME IInv, QueryTypeOK, NEW b \in Builders, Skip(b) \/ Visit(b) \/ EndWalk(b)
  PROVE  QueryTypeOK'
<1> DEFINE q == queue[b]
           n == q[1][1]
           d == q[1][2]
           nodes == visited[b] \cup {n}
           Entries == AllNodes \X (0 .. MaxDepth + 1)
<1>1. /\ q \in Seq(Entries) /\ visited[b] \in SUBSET AllNodes /\ MaxDepth \in Nat
      /\ depth[b] \in [AllNodes -> 0..MaxDepth]
  BY QueryAssumption DEF QueryTypeOK
<1>2. CASE EndWalk(b)
  BY <1>2 DEF EndWalk, Turn, QueryTypeOK
<1>3. CASE Skip(b)
  <2>1. Tail(q) \in Seq(Entries)
    BY <1>1, <1>3 DEF Skip
  <2>2. QED
    BY <1>3, <2>1 DEF Skip, QueryTypeOK
<1>4. CASE Visit(b)
  <2>1. q # <<>> /\ Head(q) = q[1] /\ q[1] \in Entries
    BY <1>1, <1>4 DEF Visit
  <2>2. n \in AllNodes /\ d \in 0 .. MaxDepth
    <3>1. n \in AllNodes /\ d \in 0 .. MaxDepth + 1
      BY <2>1
    <3>2. ~(d > MaxDepth)
      BY <1>4, <2>1 DEF Visit, TooDeep
    <3>3. QED
      BY <1>1, <3>1, <3>2
  <2>3. /\ visited' = [visited EXCEPT ![b] = nodes]
        /\ depth' = [depth EXCEPT ![b][n] = d]
        /\ UNCHANGED <<vector, answer, seen, scanned>>
    BY <1>4, <2>1 DEF Visit
  <2>4. \/ Turn(b, "done") /\ queue' = [queue EXCEPT ![b] = <<>>]
        \/ /\ \E found \in Orders(Targets(b, n) \ nodes) :
                queue' = [queue EXCEPT ![b] = Joined(q, found, d + 1)]
           /\ UNCHANGED reading
    BY <1>4, <2>1, ZenonT(60) DEF Visit, Joined
  <2>5. ASSUME NEW found \in Orders(Targets(b, n) \ nodes)
        PROVE  Joined(q, found, d + 1) \in Seq(Entries)
    <3> DEFINE joined == Joined(q, found, d + 1)
    <3>1. Lists(found, b, n, nodes)
      BY OrdersType, Zenon
    <3>2. found \in Seq(AllNodes) /\ Len(found) \in Nat /\ DOMAIN found = 1 .. Len(found)
      BY <3>1 DEF Lists
    <3>3. q \in Seq(AllNodes \X Nat) /\ d + 1 \in Nat /\ d + 1 \in 0 .. MaxDepth + 1
      BY <1>1, <2>2, WalkTypes
    <3>4. joined \in Seq(AllNodes \X Nat) /\ HasBoth(joined, q, found, d + 1)
      BY <2>1, <3>2, <3>3, JoinedIs
    <3> HIDE DEF joined, q, d
    <3>5. \A i \in 1 .. Len(q) : q[i] \in Entries
      BY <1>1
    <3>6. Len(q) \in Nat \ {0}
      BY <1>1, <2>1
    <3>7. ASSUME NEW i \in 1 .. Len(joined)
          PROVE  joined[i] \in Entries
      <4>1. CASE i <= Len(q) - 1
        BY <3>4, <3>5, <3>6, <4>1 DEF HasBoth
      <4>2. CASE ~(i <= Len(q) - 1)
        <5>1. i - (Len(q) - 1) \in 1 .. Len(found) /\ Len(q) - 1 + (i - (Len(q) - 1)) = i
          BY <3>2, <3>4, <3>6, <4>2 DEF HasBoth
        <5>2. joined[i] = <<found[i - (Len(q) - 1)], d + 1>>
          BY <3>4, <5>1 DEF HasBoth
        <5>3. QED
          BY <3>2, <3>3, <5>1, <5>2
      <4>3. QED
        BY <4>1, <4>2
    <3>8. QED
      BY <3>4, <3>7 DEF joined
  <2>6. queue' \in [Builders -> Seq(Entries)] /\ reading' \in [Builders -> {"no", "search", "walk", "done"}]
    <3>1. queue \in [Builders -> Seq(Entries)] /\ <<>> \in Seq(Entries)
          /\ reading \in [Builders -> {"no", "search", "walk", "done"}]
      BY DEF QueryTypeOK
    <3>2. QED
      BY <2>4, <2>5, <3>1 DEF Turn
  <2>7. visited' \in [Builders -> SUBSET AllNodes]
        /\ depth' \in [Builders -> [AllNodes -> 0..MaxDepth]]
    <3>1. visited \in [Builders -> SUBSET AllNodes]
          /\ depth \in [Builders -> [AllNodes -> 0..MaxDepth]]
      BY DEF QueryTypeOK
    <3>2. QED
      BY <2>2, <2>3, <3>1
  <2>8. QED
    BY <2>3, <2>6, <2>7 DEF QueryTypeOK
<1>5. QED
  BY <1>2, <1>3, <1>4

LEMMA ReadStepPreserves ==
  ASSUME IInv, QueryInv, ReadNext, UNCHANGED vars
  PROVE  QueryInv'
<1>1. PICK c \in Builders : LookUpVector(c) \/ Search(c) \/ Skip(c) \/ Visit(c) \/ EndWalk(c)
  BY DEF ReadNext
<1>2. TypeOK /\ QueryTypeOK /\ \A b \in Builders : WalkOK(b) /\ SearchOK(b)
  BY DEF IInv, QueryInv
<1>3. QueryTypeOK'
  BY <1>1, <1>2, LookUpVectorStep, SearchStep, WalkKeepsTypes
<1>4. WalkOK(c)'
  BY <1>1, <1>2, LookUpVectorStep, SearchStep, SkipStep, VisitStep, EndWalkStep
<1>5. SearchOK(c)'
  <2>1. CASE Skip(c) \/ Visit(c) \/ EndWalk(c)
    <3>1. answer' = answer /\ vector' = vector /\ scanned' = scanned
      BY <2>1 DEF Skip, Visit, EndWalk
    <3>2. QED
      BY <1>2, <3>1, StoresKept DEF SearchOK
  <2>2. QED
    BY <1>1, <2>1, LookUpVectorStep, SearchStep
<1>6. ASSUME NEW b \in Builders, b # c
      PROVE  WalkOK(b)' /\ SearchOK(b)'
  <2>1. WalkOK(b)' /\ Untouched(b)
    BY <1>1, <1>2, <1>6, OtherTurnWalk
  <2>2. Self(b)' = Self(b)
    BY StoresKept
  <2>3. QED
    BY <1>2, <2>1, <2>2 DEF SearchOK, Untouched
<1>7. QED
  BY <1>3, <1>4, <1>5, <1>6 DEF QueryInv

LEMMA QueryStepPreserves ==
  ASSUME IInv, QueryInv, [QueryNext]_allVars
  PROVE  QueryInv'
<1>1. CASE ReadNext /\ UNCHANGED vars
  BY <1>1, ReadStepPreserves
<1>2. CASE [Next]_vars /\ UNCHANGED readVars
  <2>1. TypeOK /\ QueryTypeOK /\ \A b \in Builders : WalkOK(b) /\ SearchOK(b)
    BY DEF IInv, QueryInv
  <2>2. QueryTypeOK'
    BY <1>2, <2>1 DEF QueryTypeOK, readVars
  <2>3. ASSUME NEW b \in Builders
        PROVE  WalkOK(b)' /\ SearchOK(b)'
    <3>1. WalkOK(b)'
      BY <1>2, <2>1, StoreStepWalk
    <3>2. Self(b)' = Self(b)
      BY <1>2, <2>1, StageAndContext DEF Self
    <3>3. SearchOK(b)'
      BY <1>2, <2>1, <3>2 DEF SearchOK, readVars
    <3>4. QED
      BY <3>1, <3>3
  <2>4. QED
    BY <2>2, <2>3 DEF QueryInv
<1>3. QED
  BY <1>1, <1>2 DEF QueryNext, allVars

\* The invariant of the stores and that of the readers hold together, whatever is
\* written between two queries.
THEOREM QueriesHold == QuerySpec => [](IInv /\ QueryInv)
<1>1. QueryInit => QueryInv
  BY QueryInitEstablishes
<1>2. IInv /\ QueryInv /\ [QueryNext]_allVars => QueryInv'
  BY QueryStepPreserves
<1>3. QuerySpec => []IInv
  BY QueriesKeepStores, StoreHolds, PTL
<1>4. QED
  BY <1>1, <1>2, <1>3, PTL DEF QuerySpec

-------------------------------------------------------------------------------
(* What follows from it *)

\* The readers' variables keep their types; the queue never holds a node that is
\* more than one level below the greatest depth.  (get_neighborhood)
THEOREM QueryTypeCorrect == QuerySpec => []QueryTypeOK
<1>1. IInv /\ QueryInv => QueryTypeOK
  BY DEF QueryInv
<1>2. QED
  BY <1>1, QueriesHold, PTL

\* A non-empty set of naturals has a least element.
LEMMA LeastIndex ==
  ASSUME NEW T \in SUBSET Nat, T # {}
  PROVE  \E least \in T : \A i \in T : least <= i
<1> DEFINE R == OpToRel(<, Nat)
<1>1. IsWellFoundedOn(R, Nat)
  BY NatLessThanWellFounded
<1>2. \A i, j \in Nat : i < j => <<i, j>> \in R
  BY DEF OpToRel
<1> HIDE DEF R
<1>3. PICK least \in T : \A i \in T : ~ (<<i, least>> \in R)
  BY <1>1, WFMin
<1>4. \A i \in T : ~ (i < least) /\ i \in Nat /\ least \in Nat
  BY <1>2, <1>3
<1>5. QED
  BY <1>4

\* A walk that came to an end has passed every edge of a chain of the beginning that
\* is not too long: the first place it had not reached would have been handled.
LEMMA ChainIsWalked ==
  ASSUME QueryInv, NEW b \in Builders, reading[b] = "done",
         Self(b) \in visited[b], depth[b][Self(b)] = 0, Cardinality(visited[b]) < MaxNodes,
         NEW k \in 0..MaxDepth, NEW n, Chain(Self(b), n, k, seen[b])
  PROVE  n \in visited[b]
<1>1. WalkOK(b) /\ QueryTypeOK /\ queue[b] = <<>> /\ MaxDepth \in Nat
  BY QueryAssumption DEF QueryInv, WalkOK, StepOK
<1>2. \A m \in visited[b] : depth[b][m] \in Nat
  BY <1>1, WalkTypes
<1>3. \A m \in visited[b] : \A e \in seen[b] :
        e.source = m /\ depth[b][m] + 1 <= MaxDepth =>
          e.target \in visited[b] /\ depth[b][e.target] <= depth[b][m] + 1
  <2>1. \A m \in visited[b] : \A e \in seen[b] :
          e.source = m => Handled(b, e.target, depth[b][m] + 1)
    BY <1>1 DEF WalkOK, FrontierOK
  <2>2. DOMAIN queue[b] = {}
    BY <1>1
  <2>3. QED
    BY <1>1, <1>2, <2>1, <2>2 DEF Handled
<1>4. CASE k = 0
  BY <1>4 DEF Chain
<1>5. CASE k # 0
  <2>1. PICK p \in [1..k -> seen[b]] :
          /\ p[1].source = Self(b) /\ p[k].target = n
          /\ \A i \in 1 .. k - 1 : p[i].target = p[i + 1].source
    BY <1>5 DEF Chain
  <2> DEFINE Reached(i) == p[i].target \in visited[b] /\ depth[b][p[i].target] <= i
             T == {i \in 1..k : ~Reached(i)}
  <2>2. \A i \in 1..k : p[i] \in seen[b] /\ i \in Nat /\ i <= MaxDepth
    BY <1>1, <2>1
  <2>3. Reached(1)
    BY <1>3, <1>5, <2>1, <2>2
  <2>4. ASSUME NEW i \in 1 .. k - 1, Reached(i)
        PROVE  Reached(i + 1)
    <3>1. /\ p[i + 1].source = p[i].target /\ p[i].target \in visited[b]
          /\ depth[b][p[i].target] \in Nat /\ depth[b][p[i].target] <= i
          /\ i + 1 \in 1..k
      BY <1>2, <2>1, <2>4
    <3>2. depth[b][p[i].target] + 1 <= MaxDepth /\ p[i + 1] \in seen[b]
      BY <1>1, <2>2, <3>1
    <3>3. /\ p[i + 1].target \in visited[b]
          /\ depth[b][p[i + 1].target] <= depth[b][p[i].target] + 1
      BY <1>3, <3>1, <3>2
    <3>4. depth[b][p[i + 1].target] \in Nat
      BY <1>2, <3>3
    <3>5. QED
      BY <3>1, <3>3, <3>4
  <2> HIDE DEF Reached
  <2>5. T = {}
    <3> SUFFICES ASSUME T # {} PROVE FALSE
      OBVIOUS
    <3>1. PICK least \in T : \A i \in T : least <= i
      <4>1. T \in SUBSET Nat
        BY <2>2
      <4>2. QED
        BY <4>1, LeastIndex
    <3>2. least - 1 \in 1 .. k - 1 /\ least - 1 \notin T /\ (least - 1) + 1 = least
      BY <2>3, <3>1
    <3>3. QED
      BY <2>4, <3>1, <3>2
  <2>6. Reached(k)
    BY <1>5, <2>5
  <2>7. QED
    BY <2>1, <2>6 DEF Reached
<1>6. QED
  BY <1>4, <1>5

\* A walk visits only what is within MaxDepth edges of the graph as it is now, and in
\* the end all that was within MaxDepth edges when it began, unless MaxNodes stop it,
\* however the graph grows under it.  (get_neighborhood)
THEOREM WalksAreExact == QuerySpec => []NeighborhoodIsExact
<1>1. ASSUME IInv, QueryInv
      PROVE  NeighborhoodIsExact
  <2> SUFFICES ASSUME NEW b \in Builders
               PROVE  /\ Cardinality(visited[b]) <= MaxNodes
                      /\ \A n \in visited[b] \ {Self(b)} :
                           n.node \in {"ERROR_SIGNATURE", "ERROR_TYPE"}
                      /\ stage[b] # "failed" =>
                           \A n \in visited[b] : Within(Self(b), n, VisibleEdges(b))
                      /\ reading[b] = "done" /\ Cardinality(visited[b]) \in 1 .. MaxNodes - 1 =>
                           \A n \in AllNodes : Within(Self(b), n, seen[b]) => n \in visited[b]
    BY DEF NeighborhoodIsExact
  <2>1. WalkOK(b) /\ QueryTypeOK /\ MaxNodes \in Nat \ {0}
    BY <1>1, QueryAssumption DEF QueryInv
  <2>2. Cardinality(visited[b]) <= MaxNodes
    BY <2>1 DEF WalkOK, SizeOK
  <2>3. \A n \in visited[b] \ {Self(b)} : n.node \in {"ERROR_SIGNATURE", "ERROR_TYPE"}
    BY <2>1 DEF WalkOK, KindOK, OfFailure
  <2>4. stage[b] # "failed" => \A n \in visited[b] : Within(Self(b), n, VisibleEdges(b))
    <3>1. \A n \in visited[b] : depth[b][n] \in 0..MaxDepth
      BY <2>1, WalkTypes
    <3>2. QED
      BY <2>1, <3>1 DEF WalkOK, ReachOK, Within
  <2>5. ASSUME reading[b] = "done", Cardinality(visited[b]) \in 1 .. MaxNodes - 1
        PROVE  \A n \in AllNodes : Within(Self(b), n, seen[b]) => n \in visited[b]
    <3>1. visited[b] # {} /\ Cardinality(visited[b]) < MaxNodes
      <4>1. Cardinality(visited[b]) # 0 /\ Cardinality(visited[b]) < MaxNodes
        BY <2>1, <2>5
      <4>2. QED
        BY <4>1, FS_EmptySet
    <3>2. Self(b) \in visited[b] /\ depth[b][Self(b)] = 0
      BY <2>1, <2>5, <3>1 DEF WalkOK, StartOK
    <3>3. ASSUME NEW n, Within(Self(b), n, seen[b])
          PROVE  n \in visited[b]
      <4>1. PICK k \in 0..MaxDepth : Chain(Self(b), n, k, seen[b])
        BY <3>3 DEF Within
      <4>2. QED
        BY <1>1, <2>5, <3>1, <3>2, <4>1, ChainIsWalked
    <3>4. QED
      BY <3>3
  <2>6. QED
    BY <2>2, <2>3, <2>4, <2>5
<1>2. QED
  BY <1>1, QueriesHold, PTL

\* A search answers with the nearest other contexts of what the index visited, each
\* once, as many as there are up to the limit, and never with the context itself.
\* (search_by_node_id, search_by_vector)
THEOREM SearchesAreExact == QuerySpec => []SearchIsExact
<1>1. IInv /\ QueryInv => SearchIsExact
  BY DEF QueryInv, SearchOK, Nearest, Others, SearchIsExact
<1>2. QED
  BY <1>1, QueriesHold, PTL
===============================================================================
