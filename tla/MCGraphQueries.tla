---------------------------- MODULE MCGraphQueries ----------------------------
(***************************************************************************)
(* A small instance of GraphQueries, and with it of EmbeddingStore and     *)
(* GraphStore, for TLC.  Two builders and the runs begin in one of two     *)
(* states in which three earlier requests have ended: all were rolled      *)
(* back, or they were recorded and embedded, so that there is something to *)
(* read.                                                                   *)
(***************************************************************************)
EXTENDS GraphQueries, TLC

CONSTANTS b1, b2, p1, p2, p3, f1, i1

Failure(endpoint, class, signature, ctx) ==
  [api |-> "api", endpoint |-> endpoint, class |-> class, signature |-> signature,
   context |-> ctx]

Earlier == [p \in {p1, p2, p3} |->
              Failure(CASE p = p1 -> "GET /a" [] p = p2 -> "GET /b" [] OTHER -> "GET /c",
                      "422", "s1",
                      CASE p = p1 -> "x1" [] p = p2 -> "x2" [] OTHER -> "x3")]

\* The first again, a second signature of its context, and one with another endpoint
\* and its context (the method is in the endpoint's key, not the context's).
Again        == {Earlier[p1], Failure("GET /a", "422", "s2", "x1")}
NewContexts  == Again \cup {Failure("POST /a", "422", "s1", "x1")}
SomeContexts == Range(Earlier) \cup NewContexts

TheBuilders == {b1, b2, p1, p2, p3}
BuilderSymmetry == Permutations({b1, b2})

RowsAfter(p) ==
  UNION {Range(RowsOf(Earlier[q])) : q \in CASE p = p1 -> {} [] p = p2 -> {p1}
                                             [] OTHER -> {p1, p2}}

TheGraph == UNION {(Range(RowsOf(Earlier[p])) \ RowsAfter(p)) \X {p} : p \in DOMAIN Earlier}

\* The builders p1, p2, p3 have ended, and b1 and b2 are to begin.
Begin(past, last, new) ==
  /\ \E c1, c2 \in new :
       context = [b \in Builders |-> IF b = b1 THEN c1 ELSE IF b = b2 THEN c2 ELSE Earlier[b]]
  /\ stage = [b \in Builders |-> IF b \in {b1, b2} THEN "look" ELSE past]
  /\ item = [b \in Builders |-> IF b \in {b1, b2} THEN 1 ELSE last]
  /\ own = [b \in Builders |-> {}]
  /\ before = {}
  /\ NothingRead

\* Nothing of them was committed, and no run has begun.
MCInitEmpty ==
  /\ Begin("failed", 1, NewContexts)
  /\ graph = {} /\ records = {}
  /\ phase = [r \in Runs |-> "idle"]
  /\ loaded = [r \in Runs |-> {}]
  /\ linked = [r \in Runs |-> {}]

\* All three are committed, and the full run after them.
MCInitEmbedded ==
  /\ Begin("committed", 10, Again)
  /\ graph = TheGraph /\ records = Nodes \X FullRuns
  /\ phase = [r \in Runs |-> IF r = f1 THEN "committed" ELSE "idle"]
  /\ loaded = [r \in Runs |-> IF r = f1 THEN Nodes ELSE {}]
  /\ linked = [r \in Runs |-> IF r = f1 THEN Edges ELSE {}]

MCSpec == (MCInitEmpty \/ MCInitEmbedded) /\ [][QueryNext]_allVars

\* Where the vectors of the contexts lie, on a line: the runs disagree.
Places(run, id) ==
  IF run = f1 THEN CASE id = <<"x1">> -> 0 [] id = <<"x2">> -> 1 [] OTHER -> 2
              ELSE CASE id = <<"x1">> -> 3 [] id = <<"x2">> -> 1 [] OTHER -> 3
Apart(v, w) == IF v < w THEN w - v ELSE v - w
SomeDistances ==
  [pair \in AllRecords \X AllRecords |->
     Apart(Places(pair[1][2], pair[1][1].id), Places(pair[2][2], pair[2][1].id))]
===============================================================================
