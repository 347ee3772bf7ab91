----------------------------- MODULE GraphQueries -----------------------------
(***************************************************************************)
(* What a builder reads before the model is asked, of the stores that      *)
(* others go on writing: the vector search of embeddings/search.py for     *)
(* contexts like its own, and when that finds none the walk of             *)
(* graph/service.py from its own context.  Every query sees what is        *)
(* committed when it runs, and the rows of its own transaction.            *)
(***************************************************************************)
EXTENDS EmbeddingStore, SequencesExt

CONSTANTS
  MaxDepth, MaxNodes,  \* the limits of get_neighborhood
  Distance,            \* between the vectors of two records
  MaxDistance,         \* 1 - min_similarity
  Limit

AllNodes   == {row \in AllRows : IsNode(row)}
AllRecords == AllNodes \X Runs

ASSUME QueryAssumption ==
  /\ MaxDepth \in Nat /\ MaxNodes \in Nat \ {0}
  /\ Distance \in [AllRecords \X AllRecords -> Nat]
  /\ MaxDistance \in Nat /\ Limit \in Nat \ {0}

VARIABLES
  reading,  \* "no", "search", "walk", "done"
  vector,   \* the record that was found for a builder's own context
  answer,   \* the records of similar contexts
  queue,    \* <<node, depth>> still to be looked at by the walk
  visited,  \* the nodes it has visited
  depth,    \* ghost: at which depth
  seen,     \* ghost: the edges that could be seen when the walk began
  scanned   \* ghost: the records of contexts that the search came across

readVars == <<reading, vector, answer, queue, visited, depth, seen, scanned>>
allVars  == <<vars, readVars>>

NoRecord == <<>>

QueryTypeOK ==
  /\ reading \in [Builders -> {"no", "search", "walk", "done"}]
  /\ vector \in [Builders -> AllRecords \cup {NoRecord}]
  /\ answer \in [Builders -> Seq(AllRecords)]
  /\ queue \in [Builders -> Seq(AllNodes \X (0 .. MaxDepth + 1))]
  /\ visited \in [Builders -> SUBSET AllNodes]
  /\ depth \in [Builders -> [AllNodes -> 0..MaxDepth]]
  /\ seen \in [Builders -> SUBSET AllRows]
  /\ scanned \in [Builders -> SUBSET AllRecords]

NothingRead ==
  /\ reading = [b \in Builders |-> "no"]
  /\ vector = [b \in Builders |-> NoRecord]
  /\ answer = [b \in Builders |-> <<>>]
  /\ queue = [b \in Builders |-> <<>>]
  /\ visited = [b \in Builders |-> {}]
  /\ depth = [b \in Builders |-> [n \in AllNodes |-> 0]]
  /\ seen = [b \in Builders |-> {}]
  /\ scanned = [b \in Builders |-> {}]

QueryInit == Init /\ NothingRead

Self(b) == ContextNode(context[b])
At(b, step) == stage[b] = "look" /\ Built(b) /\ reading[b] = step
Turn(b, next) == reading' = [reading EXCEPT ![b] = next]

-------------------------------------------------------------------------------
(* get_neighborhood *)

VisibleEdges(b) == {row \in Visible(b) : ~IsNode(row)}
Targets(b, n) == {edge.target : edge \in {e \in VisibleEdges(b) : e.source = n}}

StartWalk(b) ==
  /\ Turn(b, "walk")
  /\ queue' = [queue EXCEPT ![b] = << <<Self(b), 0>> >>]
  /\ seen' = [seen EXCEPT ![b] = VisibleEdges(b)]

\* Mutated form: without the limit.
TooDeep_Never(d) == FALSE

\* Mutated form: the nodes at the greatest depth are left out.
TooDeep_Early(d) == d >= MaxDepth

TooDeep(d) == d > MaxDepth

Skip(b) ==
  /\ At(b, "walk") /\ queue[b] # <<>>
  /\ Head(queue[b])[1] \in visited[b] \/ TooDeep(Head(queue[b])[2])
  /\ queue' = [queue EXCEPT ![b] = Tail(@)]
  /\ UNCHANGED <<reading, vector, answer, visited, depth, seen, scanned>>

\* The edges of a query come in any order.
Orders(nodes) == {s \in [1 .. Cardinality(nodes) -> nodes] : Range(s) = nodes}

\* One turn of the loop, with its query of the node's edges unless the limit is
\* reached; the node itself is in the session or committed, and is never deleted.
Visit(b) ==
  /\ At(b, "walk") /\ queue[b] # <<>>
  /\ LET n == Head(queue[b])[1]
         d == Head(queue[b])[2]
         nodes == visited[b] \cup {n}
     IN  /\ n \notin visited[b] /\ ~TooDeep(d)
         /\ visited' = [visited EXCEPT ![b] = nodes]
         /\ depth' = [depth EXCEPT ![b][n] = d]
         /\ IF Cardinality(nodes) >= MaxNodes
            THEN Turn(b, "done") /\ queue' = [queue EXCEPT ![b] = <<>>]
            ELSE /\ \E found \in Orders(Targets(b, n) \ nodes) :
                      queue' = [queue EXCEPT
                        ![b] = Tail(@) \o [i \in DOMAIN found |-> <<found[i], d + 1>>]]
                 /\ UNCHANGED reading
  /\ UNCHANGED <<vector, answer, seen, scanned>>

EndWalk(b) ==
  /\ At(b, "walk") /\ queue[b] = <<>>
  /\ Turn(b, "done")
  /\ UNCHANGED <<vector, answer, queue, visited, depth, seen, scanned>>

-------------------------------------------------------------------------------
(* search_by_node_id *)

\* The first query: the vector of the builder's own context, when another has
\* committed that context before and a run has come by.
LookUpVector(b) ==
  /\ At(b, "no")
  /\ LET mine == {rec \in records : rec[1] = Self(b)}
     IN  \/ /\ \E rec \in mine : vector' = [vector EXCEPT ![b] = rec]
            /\ Turn(b, "search")
            /\ UNCHANGED <<queue, seen>>
         \/ mine = {} /\ StartWalk(b) /\ UNCHANGED vector
  /\ UNCHANGED <<answer, visited, depth, scanned>>

Near(rec, part) == {other \in part : Distance[other, rec] <= MaxDistance}

AtMost(n, limit) == IF n < limit THEN n ELSE limit

\* The answers to search_by_vector, nearest first; ties come in any order.
SearchByVector(rec, limit, part) ==
  LET near == Near(rec, part)
  IN  {found \in [1 .. AtMost(Cardinality(near), limit) -> near] :
         /\ IsInjective(found)
         /\ \A i \in DOMAIN found : \A other \in near :
              \/ \E k \in 1..i : found[k] = other
              \/ Distance[found[i], rec] <= Distance[other, rec]}

\* A node has one record: there is one place at most to leave out.
WithoutSelf(n, found) ==
  LET places == {i \in DOMAIN found : found[i][1] = n}
  IN  IF places = {} THEN found ELSE RemoveAt(found, CHOOSE i \in places : TRUE)

Cut(found) == SubSeq(found, 1, AtMost(Len(found), Limit))

\* Mutated form: no room is made for the node itself.
SearchByNode_NoExtra(rec, part) ==
  {Cut(WithoutSelf(rec[1], found)) : found \in SearchByVector(rec, Limit, part)}

SearchByNode(rec, part) ==
  {Cut(WithoutSelf(rec[1], found)) : found \in SearchByVector(rec, Limit + 1, part)}

\* The second query.  The IVFFlat index of the migration is approximate: any part of
\* the contexts' records may be visited.  A run may have replaced vectors since the
\* first query, the builder's own too.
Search(b) ==
  /\ At(b, "search")
  /\ \E part \in SUBSET {rec \in records : rec[1].node = "REQUEST_CONTEXT"} :
       \E found \in SearchByNode(vector[b], part) :
         /\ scanned' = [scanned EXCEPT ![b] = part]
         /\ answer' = [answer EXCEPT ![b] = found]
         /\ IF found = <<>> THEN StartWalk(b) ELSE Turn(b, "done") /\ UNCHANGED <<queue, seen>>
  /\ UNCHANGED <<vector, visited, depth>>

-------------------------------------------------------------------------------

\* A builder's own transaction goes on when it has read, or without reading.
InOrder == \A b \in Builders : reading[b] \in {"search", "walk"} => stage'[b] # "committed"

ReadNext ==
  \E b \in Builders : LookUpVector(b) \/ Search(b) \/ Skip(b) \/ Visit(b) \/ EndWalk(b)

QueryNext ==
  \/ Next /\ InOrder /\ UNCHANGED readVars
  \/ ReadNext /\ UNCHANGED vars

QuerySpec == QueryInit /\ [][QueryNext]_allVars

-------------------------------------------------------------------------------
(* Properties *)

\* k edges lead from one node to the other.
Chain(from, to, k, edges) ==
  IF k = 0 THEN to = from
  ELSE \E p \in [1..k -> edges] : /\ p[1].source = from /\ p[k].target = to
                                  /\ \A i \in 1 .. k - 1 : p[i].target = p[i + 1].source

Within(from, to, edges) == \E k \in 0..MaxDepth : Chain(from, to, k, edges)

\* A walk over a graph that grows under it visits only nodes within MaxDepth edges of
\* the graph as it is now, and in the end every node within MaxDepth edges of the
\* graph as it was at the start, unless MaxNodes stop it.  From a request's context
\* these are its signatures and their type only: the edges lead away from the
\* endpoints, so the fallback never retrieves another context.  (get_neighborhood)
NeighborhoodIsExact ==
  \A b \in Builders :
    /\ Cardinality(visited[b]) <= MaxNodes
    /\ \A n \in visited[b] \ {Self(b)} : n.node \in {"ERROR_SIGNATURE", "ERROR_TYPE"}
    /\ stage[b] # "failed" => \A n \in visited[b] : Within(Self(b), n, VisibleEdges(b))
    /\ reading[b] = "done" /\ Cardinality(visited[b]) \in 1 .. MaxNodes - 1 =>
         \A n \in AllNodes : Within(Self(b), n, seen[b]) => n \in visited[b]

\* The answer has the nearest other contexts of the part that the index visited, each
\* once, as many as there are within the distance up to the limit, and never the
\* context itself, even when its vector was replaced between the two queries.
\* (search_by_node_id, search_by_vector)
SearchIsExact ==
  \A b \in Builders :
    LET others == {rec \in Near(vector[b], scanned[b]) : rec[1] # Self(b)}
        found  == Range(answer[b])
    IN  /\ found \subseteq others /\ IsInjective(answer[b])
        /\ Len(answer[b]) = AtMost(Cardinality(others), Limit)
        /\ \A rec \in others \ found : \A f \in found :
             Distance[f, vector[b]] <= Distance[rec, vector[b]]
===============================================================================
