---------------------------- MODULE EmbeddingStore ----------------------------
(***************************************************************************)
(* embeddings/pipeline.py on the graph of GraphStore: runs load nodes and  *)
(* edges, compute a vector for each node and upsert it, while builders     *)
(* extend the graph.                                                       *)
(*                                                                         *)
(* node2vec is external: a vector is named by the run that computed it.    *)
(* The upserts of a run are seen at its commit and are one step here; a    *)
(* deadlock of two runs over record locks ends as a rollback of one.       *)
(***************************************************************************)
EXTENDS GraphStore

CONSTANTS
  FullRuns, IncrementalRuns

Runs == FullRuns \cup IncrementalRuns

ASSUME EmbeddingAssumption == FullRuns \cap IncrementalRuns = {}

VARIABLES
  phase,    \* "idle", "edges", "store", "committed", "failed"
  loaded,   \* the nodes a run has loaded
  linked,   \* the edges it has loaded
  records,  \* set of <<node, run>>: the node's vector is that run's
  before    \* ghost: <<u, v>> when u committed before v began

embVars == <<phase, loaded, linked, records, before>>
vars    == <<graphVars, embVars>>

TypeOK ==
  /\ GraphTypeOK
  /\ phase \in [Runs -> {"idle", "edges", "store", "committed", "failed"}]
  /\ loaded \in [Runs -> SUBSET Nodes]
  /\ linked \in [Runs -> SUBSET Edges]
  /\ records \subseteq Nodes \X Runs
  /\ before \subseteq Runs \X Runs

Init ==
  /\ GraphInit
  /\ phase = [r \in Runs |-> "idle"]
  /\ loaded = [r \in Runs |-> {}]
  /\ linked = [r \in Runs |-> {}]
  /\ records = {}
  /\ before = {}

-------------------------------------------------------------------------------
(* The runs *)

Proceed(r, next) == phase' = [phase EXCEPT ![r] = next]

Began(r) == before' = before \cup ({u \in Runs : phase[u] = "committed"} \X {r})

Ends(edge) == {edge.source, edge.target}

\* Without nodes there is nothing to do.
LoadAllNodes(r) ==
  /\ r \in FullRuns /\ phase[r] = "idle"
  /\ loaded' = [loaded EXCEPT ![r] = Nodes]
  /\ Proceed(r, IF Nodes = {} THEN "committed" ELSE "edges")
  /\ Began(r)
  /\ UNCHANGED <<graphVars, linked, records>>

\* run_incremental: the given nodes and the ends of their edges, one hop away.
LoadNear(r) ==
  /\ r \in IncrementalRuns /\ phase[r] = "idle"
  /\ \E n \in Nodes :
       loaded' = [loaded EXCEPT
         ![r] = {n} \cup UNION {Ends(edge) : edge \in {e \in Edges : n \in Ends(e)}}]
  /\ Proceed(r, "edges")
  /\ Began(r)
  /\ UNCHANGED <<graphVars, linked, records>>

\* Mutated form: edges of open transactions are read as well.
EdgesFor_Dirty(r) == Edges \cup {row \in UNION Range(own) : ~IsNode(row)}

EdgesFor(r) == IF r \in FullRuns THEN Edges ELSE {e \in Edges : e.source \in loaded[r]}

\* A second query, after which the graph may hold edges of nodes not loaded.
LoadEdges(r) ==
  /\ phase[r] = "edges"
  /\ linked' = [linked EXCEPT ![r] = EdgesFor(r)]
  /\ Proceed(r, IF r \in IncrementalRuns /\ Cardinality(loaded[r]) < 2
                THEN "committed" ELSE "store")
  /\ UNCHANGED <<graphVars, loaded, records, before>>

\* Mutated form: every node of the computed graph is stored.
Embedded_All(r) == loaded[r] \cup UNION {Ends(e) : e \in linked[r]}

\* Edges bring nodes into the computed graph that were not loaded: skipped.
Embedded(r) == (loaded[r] \cup UNION {Ends(e) : e \in linked[r]}) \cap loaded[r]

\* Mutated form: ON CONFLICT DO NOTHING.
Upserted_Kept(old, nodes, r) ==
  old \cup {<<n, r>> : n \in {m \in nodes : \A u \in Runs : <<m, u>> \notin old}}

Upserted(old, nodes, r) == {rec \in old : rec[1] \notin nodes} \cup (nodes \X {r})

StoreVectors(r) ==
  /\ phase[r] = "store"
  /\ records' = Upserted(records, Embedded(r), r)
  /\ Proceed(r, "committed")
  /\ UNCHANGED <<graphVars, loaded, linked, before>>

RunFails(r) ==
  /\ phase[r] \in {"edges", "store"}
  /\ Proceed(r, "failed")
  /\ UNCHANGED <<graphVars, loaded, linked, records, before>>

RunNext ==
  \E r \in Runs :
    \/ LoadAllNodes(r) \/ LoadNear(r) \/ LoadEdges(r) \/ StoreVectors(r) \/ RunFails(r)

Quiescent ==
  /\ \A b \in Builders : ~Open(b)
  /\ \A r \in Runs : \/ phase[r] \in {"committed", "failed"}
                     \/ r \in IncrementalRuns /\ Nodes = {}
  /\ UNCHANGED vars

Next ==
  \/ GraphNext /\ UNCHANGED embVars
  \/ RunNext
  \/ Quiescent

Spec == Init /\ [][Next]_vars

-------------------------------------------------------------------------------
(* Properties *)

\* A full run leaves a vector for each node that was there when it began, and no
\* run leaves one for a node it did not load, although its two queries see two
\* states of the graph.
RunsCoverTheirNodes ==
  \A r \in Runs :
    /\ r \in FullRuns /\ phase[r] = "committed" =>
         loaded[r] \subseteq {rec[1] : rec \in records}
    /\ \A rec \in records : rec[2] = r => rec[1] \in loaded[r]

\* A node has one vector, and none that was computed before a run began that has
\* embedded it since: an old computation outlasts a new one only when they overlap.
StaleOnlyByOverlap ==
  /\ \A x, y \in records : x[1] = y[1] => x = y
  /\ \A rec \in records : \A r \in Runs :
       <<rec[2], r>> \in before /\ phase[r] = "committed" => rec[1] \notin Embedded(r)
===============================================================================
