# Verification of the self-correcting API broker

The broker executes a client's HTTP request against a registered upstream API.
If the upstream fails, a recovery pipeline classifies the failure, collects
correction candidates from stored cases, from fixed templates and from a
language model, vets them against policies and safety rules, and sends at most
one corrected request. This directory holds TLA+ models of that program, the TLC
configurations that check them on small instances, and proofs checked by TLAPS.

Paths below are relative to `src/backend/app/` unless they start otherwise.

## 1. Inventory

| component | state it keeps | operations | what makes it correct |
|---|---|---|---|
| Broker endpoint (`api/v1/broker.py`, `database.py`, `main.py`) | one database session and transaction per request; the correlation ID, possibly sent by the client | `broker_execute`; `get_db` commits or rolls back | the answer and the committed rows tell the same story; a request always ends |
| Recovery orchestrator (`recovery/orchestrator.py`) | `recovery_attempts`, `correction_candidates`, `model_runs`, `audit_events`, `failure_events` | `run`, `_pipeline`, `_apply_candidate` | one correction per correlation ID, counted and audited before it is sent; only vetted corrections are sent |
| Failure classifier (`failures/classifier.py`) | none | `classify_failure` | class, confidence, recoverability |
| Policy engine (`recovery/policy/engine.py`) | reads `policies` | `classify_action` | hardcoded types stay NEVER_AUTOMATIC |
| Safety validator (`recovery/safety/validator.py`) | none | `validate` | fail closed |
| Deterministic templates, confidence gate, ranker | none | candidates, gate decision, order | the model is asked only when needed; ranking never admits a rejected candidate |
| Model providers and prompts (`recovery/llm/`) | none | `generate_candidates` | a bad answer is never executed and never breaks the bookkeeping |
| Upstream executor (`broker/upstream.py`) | none | `execute_upstream`, redirects | every destination validated when it is sent to; bounded redirects |
| Request normalization (`broker/normalization.py`) | none | redaction of headers, parameters and body | a secret is redacted before anything is sent, renamed or stored |
| Recovery memory (`memory/service.py`) | `recovery_cases` | retrieval, creation, outcome recording, promotion | one case per failure, no invented outcome, a promotion is earned |
| Context graph (`graph/service.py`, `context/builder.py`) | `graph_nodes`, `graph_edges` | get or create, neighbourhood | unique rows, no failure of the request on a race |
| Policies and approvals (`api/v1/approvals.py`) | `policies`, `approval_requests` | create, update, deactivate; submit, approve, reject | one active policy per type; overlapping changes compose |
| Auth and rate limiter (`auth/`, `api/v1/auth.py`) | `users`; request times per address, in the memory of one process | register, login; admit or refuse, before every request (`main.py:56`) | at most the limit in any window, no refusal without cause; `get_current_user` guards `/auth/me` only, `require_role` is used nowhere |
| API registry (`api/v1/registry.py`) | `apis` | create, update, list | unique names; what was answered is what is stored |
| Embeddings (`embeddings/`) | `embedding_records` | full and incremental runs, search by node | one record per node, of the newest run unless runs overlap; a search never answers the node itself. The pipeline searches before it asks the model, but only the integration tests run the embedding: in production the table stays empty and the fallback is the graph walk |
| Evaluation runner (`evaluation/runner.py`) | `evaluation_runs` | create a run, execute it, execute it again | results exactly when completed, and consistent |
| Tables (`alembic/versions/0001_initial_schema.py`, `models/`) | the schema | migration | every INSERT gives what its table requires |
| Read endpoints, logging, frontend | none of their own | queries, pages | - |

How they interact. Everything a broker request does is one coroutine with one
database session: `broker_execute` calls `execute_upstream`, then
`RecoveryOrchestrator.run`, which calls the classifier, the graph and memory
services, the providers, the policy engine and the validator in turn. Requests
meet only in the database, which runs at PostgreSQL's default isolation level
(READ COMMITTED): through unique rows (attempt, graph nodes), through committed
policies and cases. Administrators change policies through their own requests.
The upstream, the model and the database are the environment.

What is hard: two requests with one correlation ID; rows that only exist once a
transaction commits, while the upstream execution cannot be taken back; the
exception paths of `run` that write through the session that failed; waits for
unique rows; policies that change between vetting and sending; answers of the
model that break the code that walks them. `PROJECT.json` lists these hazards at
their lines with the properties that cover them.

## 2. Modules

| module | models | kind |
|---|---|---|
| `FailureClassifier` | `failures/classifier.py` | operators |
| `PolicyEngine` | `recovery/policy/engine.py` | operators |
| `SafetyValidator` | `recovery/safety/validator.py` | operators, extends `PolicyEngine` |
| `CandidateSelection` | `deterministic/templates.py`, `confidence_gate.py`, `ranking/ranker.py` | operators, extends `FailureClassifier` |
| `RecoveryPipeline` | `api/v1/broker.py`, `database.py`, `recovery/orchestrator.py` and what they use | state machine, extends the operators |
| `ExecutionBudget` | the promise about upstream executions | abstract specification |
| `Schema` | `alembic/versions/0001_initial_schema.py` | operators: required and unique columns, seeded policies |
| `UpstreamExecution` | `broker/normalization.py`, `broker/upstream.py`, `_apply_candidate` | state machine, one execution of `RecoveryPipeline` hop by hop |
| `RecoveryMemory` | `memory/service.py` | state machine over overlapping transactions |
| `AdminRows` | `api/v1/auth.py`, `registry.py`, `approvals.py`, `evaluation.py`, `evaluation/runner.py` | state machine, extends `Schema` |
| `GraphStore` | `graph/service.py` | the part of a state machine that builds the graph |
| `EmbeddingStore` | `embeddings/pipeline.py` | state machine, extends `GraphStore` |
| `GraphQueries` | `graph/service.py` (the walk), `embeddings/search.py`, and their caller in `recovery/orchestrator.py` | state machine of readers over both stores, extends `EmbeddingStore` |
| `RateLimiter` | `auth/middleware.py` | state machine |
| `DocumentedPromises` | what documents and comments say and the code does not do | properties over `RecoveryPipeline` |
| `MC...` | small instances of each for TLC | model-checking modules |
| `RecoveryPipelineProofs`, `RateLimiterProofs`, `RecoveryMemoryProofs`, `UpstreamExecutionProofs`, `AdminRowsProofs`, `EmbeddingStoreProofs` | theorems of the module each is named after | proofs |
| `RecoveryPipelineTrailProofs` | theorems on audit rows, answers and the gate, extends `RecoveryPipelineProofs` | proofs |
| `GraphQueriesProofs` | theorems on what is read, extends `EmbeddingStoreProofs` | proofs |

How they fit together. `RecoveryPipeline` keeps every part of a broker request at
the size its own properties need. Three of its steps are opened up elsewhere: an
execution, with the replies it may have, by `UpstreamExecution`; the graph
construction, there one contested row, by `GraphStore`; the case a success writes
by `RecoveryMemory`. What the pipeline reads for its prompt, there left out, is
`GraphQueries`. `Schema` is shared: `MCRecoveryPipeline` takes the seeded
policies from it, and whether the failure event can be stored
(`FailureEventIsRefused`); `AdminRows` takes the unique columns, and whether an
approval request can.

### RecoveryPipeline

One member of `Requests` is one POST to `/broker/execute`. A step is the code
between two awaits whose results another actor or a failure can influence.

| variable | code |
|---|---|
| `req` | the payload: correlation ID, method, recovery mode |
| `pc` | how far the handler has come |
| `session` | the request's session: `active`, `committed`, `rolledback` |
| `calls` | calls of `execute_upstream` that sent something; never undone |
| `failure` | arguments of `classify_failure` |
| `attempt` | the `recovery_attempts` row (count, outcome, `llm_invoked`), and `was_executed` of the selected candidate |
| `node` | whether the request inserted graph rows |
| `queue`, `vetted`, `best` | the loop over raw candidates, the `correction_candidates` rows, the selected one |
| `reply` | what the corrected execution came to |
| `case` | whether the success wrote or reused a `recovery_cases` row |
| `audit` | `audit_events` rows |
| `result`, `answer` | the status the handler returned, the status the client got |
| `policies` | active rows of `policies` |

A request's rows are visible to others exactly when its session is committed, so
there is no second copy of the database. The actions follow the handler from top
to bottom (`Receive` ... `RecordSuccess`, `Commit`, `Respond`) and carry the
names of what the code does there; `PROJECT.json` gives each its lines. Points
where a reader may stumble:

* **Exceptions.** `PipelineError` is the `except` branch of `run` with a usable
  session; `Abort` is the case in which a flush has failed: SQLAlchemy refuses
  further statements until a rollback, so that branch raises from its own flush
  and the exception reaches `get_db`.
* **Waits.** An insert of a unique key that another open transaction has
  inserted waits for that transaction (`CorrelationHeld`, `GraphHeld`), then
  fails if it committed or goes on if it rolled back.
* **Graph rows.** `node` stands for the first row (API, endpoint, error type,
  signature, context) that the request finds missing. All requests take these
  rows in the same order, so one contested row is enough for the races and for
  the question whether waits can form a cycle.
* **Commit and response.** Whether FastAPI runs the code after `yield` before or
  after it sends the response changed within the range the requirement
  (`fastapi>=0.115`) admits; `Commit` and `Respond` may happen in either order.
* **Faults.** `LoseConnection` makes the next SQL statement raise. `Crash` stops
  one handler, as a cancelled request or a dying worker does; a process that
  dies with several requests in flight is several such steps. Both roll an open
  transaction back.
* **Corrections.** A candidate's `changes` is one of five kinds that the checks
  and the application tell apart. A model answer is any of the configured
  sequences of such candidates, of the types `_parse_candidates` lets through.
* **`RequestEventRequired`.** With the shipped schema the failure event can
  never be stored (it lacks the required `request_event_id`), so no recoverable
  failure gets past `RecordFailure`. `ClaimRunReturns` shows that with `TRUE`; the
  other runs have `FALSE` and check the pipeline behind that line, as it runs
  once the event can be stored. The theorems hold for both.
* **The budget branch.** `RETRY_BUDGET_EXHAUSTED` is modelled and cannot be
  reached: the count is 1 whenever a candidate is selected.

### ExecutionBudget

The abstract machine knows four phases of a request, its upstream executions and
who holds the claim on a correlation ID. `RecoveryPipeline!Budget` instantiates
it with a refinement mapping: a request is open until its candidate is selected,
cleared until the corrected request is sent, closed afterwards; it holds the
claim while its attempt row is in an open or committed transaction.
`UpstreamExecution!Budget` instantiates the same machine for its one request: it is
open while the first execution runs, cleared once a correction has begun, closed with
the last reply, and an execution counts when it has its reply and has sent something.
So what `RecoveryPipeline` counts on and what the loop of hops does meet in one
specification.

### UpstreamExecution

One broker request: it is normalized (`Normalize`), the start URL is checked, and
each further step is one HTTP request with its answer. When the first execution has
failed, `Correct` picks the changes of some candidate and copies the parts (`draft`),
`ApplyNext` applies one change at a time, as the loop of `_apply_candidate` does with
a sleep for a wait, and `SendCorrected` starts the loop of hops again with what is
left, or with the original part where nothing is left. `fields` holds headers, query parameters and body as functions from
field names to values; `url`, `method`, `stripped` (no payload after a 303) and
`left` are the loop's local variables. DNS answers are a choice at each check, so an
accepted host may be refused at any hop. `HostAccepted` is the part of the check that
does not depend on DNS: the host must be the registered one if the API has one, and
allowed if `allowed_upstream_hosts` lists any (`upstream.py:97`, `:103`). The registry
accepts an empty `registered_host` (`registry.py:32`); for such an API only that list
limits which public hosts a redirect may lead to, and the list is empty by default. A
client of the model therefore carries the API's host, or none, and the list, or an empty
one. What is sent upstream is the normalized
request (`broker.py:97`): redacted headers and fields go out as `[REDACTED]`,
although README.md:71 calls attempt 1 the original request; `SecretsStayOut`
depends on it.

### RecoveryMemory and AdminRows

Both model what the ORM does at READ COMMITTED: a call reads a committed row into
its session (`copy`), changes it (`draft`), writes at the flush only the columns
whose value changed, with their new absolute values, after waiting for the row lock
(`Update`), and the rest of the row stays as it is by then (`Written`). Commit and
rollback are separate steps. A request of `AdminRows` is answered in a step of its own
(`Answer`), before the commit or after it, as for the pipeline's `Commit` and `Respond`:
`flushed` is neither, `answered` and `committed` one of the two. A commit that fails
behind a success answer ends in `lost` (`CommitFails`): the client has been told of a row
or a change that is not there. The code allows that wherever the response goes first, so
no property forbids it; `UnracedRowsAreAnswered` says that nothing of such a request
stays, and that every other answer is kept. Ghost variables record what the answers and commits
add up to (`recorded`, `promised`, `setters`) and which rows were changed by a call
that had read an older version (`raced`).

A row of `RecoveryMemory` may stay ESTABLISHED with smaller counts than it was
promoted with, when an older copy is written back: the guarantee is about the
outcomes that were recorded, not about the counts left in the row. The pipeline
itself never passes a case ID, so only tests reach `record_outcome`; `last_used_at`
is left out.

A task of `AdminRows` is one request; its job is any member of `Job`, the inputs the
handlers' schemas let through. `InitialRowsAssumption` says of the rows stored at the
start what the constraints and the endpoints leave: no clashing keys, and whole
evaluation runs.

In `AdminRows` an e-mail that is taken, or the action type of a deactivated policy,
passes the handler's own check and fails at the unique constraint: status 500
instead of 409. Such a policy can only be reactivated by PATCH. `submit_for_approval`
names a column (`justification`) that the table does not have and leaves out
`correlation_id`: the constructor raises for every known candidate, the endpoint answers
500 where `approvals.py:98` declares 201, and the workflow of `docs/SECURITY_ACCESS.md`
§16 stores nothing that `approve` and `reject` could find. That follows from the columns
alone (`Constructible`) and is no property of a run. RUNNING is never visible to others, because the
execution of an evaluation run is one transaction; a run with an unknown baseline
completes with zeros.

### GraphStore and EmbeddingStore

A builder is one request's `build_failure_context_graph`: nine rows, each looked up
and then inserted if missing. Unlike `RecoveryPipeline`, which keeps one contested
row, all of them are rows here, with the builders that inserted them.
`get_similar_contexts` is called from nowhere and left out.

An embedding run reads nodes and edges in two queries, between which builders may
commit, computes vectors and upserts them; the upserts become visible at its commit
and are one step. `run_incremental` loads the nodes one hop away, where its comment
says two. Its early commit with fewer than two nodes is never taken: every committed
node has a committed edge to another node, so one new node brings a second
(`Connected` in the proofs). A vector is named by the run that computed it. Two runs
that lock records in different orders may deadlock in the database: one of them
then ends as `RunFails`.

### GraphQueries

A builder that has built its rows reads before the model is asked
(`_get_neighborhood_summary`): the vector search for contexts like its own, and when
that gives nothing the walk from its own context. Each query is a step, and sees what
is committed when it runs, with the rows of the builder's own transaction (READ
COMMITTED): builders and runs write between any two of them.

| variable | code |
|---|---|
| `reading` | how far the builder has come: not begun, between the two queries of the search, in the walk, done |
| `vector` | the record the first query of `search_by_node_id` found for the own context |
| `answer` | its result |
| `queue`, `visited` | the locals of `get_neighborhood` |
| `depth`, `seen`, `scanned` | ghosts: the depth of each visited node, the edges visible when the walk began, the records the index came across |

`LookUpVector` and `Search` are the two queries of the search, `StartWalk` is the part
of both that goes over to the walk, `Skip` and `Visit` are one turn of its loop, with
its query of one node's edges, and `EndWalk` is its end. The edges of a query and
records at equal distance come in any order (`Orders`, `SearchByVector`). The index of
the migration is approximate (IVFFlat), so a search may visit any part of the
contexts' records. The walk is modelled by the nodes it visits; the returned graph
also names, as bare ends of edges, targets one hop further. A builder commits when it
has read, or without reading (`InOrder`); that an SQL error may end either query is one
of the faults of `RecoveryPipeline` and here a rollback.

### RateLimiter

`is_allowed` has no await, so a request is one step of one process. The clock never
goes back and several requests may come at one instant.

## 3. Runs

Deadlock is checked in every run; `Quiescent` is the stuttering of a system whose
requests are all settled.

| run | instance | question |
|---|---|---|
| `PipelineFaults` | 2 requests, 1 or 2 correlation IDs, GET and POST, the shipped gate, 2 faults, fair handlers | does the bookkeeping survive concurrency and faults, does the pipeline implement `ExecutionBudget`, is the model always asked, and does every request end? |
| `PipelineCandidates` | 1 request in every mode, stored cases, six model answers, 2 policy edits, 1 fault | is only what was cleared sent, and is the trail complete? |
| `UpstreamRedirects` | 8 requests, of an API with a registered host or none, with hosts restricted or not, 5 corrections, 4 URLs of 3 hosts and none, 3 redirects | what is sent, where, how often, and with what, and are these the executions of `ExecutionBudget`? |
| `MemoryOutcomes` | 4 calls of 5 kinds over 2 stored cases | what do overlapping outcomes and reuses leave? |
| `AdminRequests` | 3 requests of 17 kinds over 2 stored rows | do look-ups, answers and rows agree, with the answer before the commit or after it? |
| `ContextGraph` | 2 builders of 3 failures over an empty graph, or of 2 over 3 recorded and embedded ones, one full and one incremental run | is the graph whole, do records follow it, and what is read while both grow? |
| `RateLimit` | 3 clients, 2 addresses, 2 requests per window of 2, 8 instants | is the window kept, and are the answers true? |

Properties of the passing runs:

* `TypeOK` - the types of all variables, one per module.
* `CountCoversExecutions` - the stored count never lags behind the executions.
* `OnlyClearedCorrectionRuns` - what was sent passed every check under the tier
  in force when it was vetted, whatever was edited in between.
* `CommittedTrail` - a committed transaction has exactly the rejection events of the
  candidates vetted, the selection event of the correction sent, and of its outcome the
  event that the code writes for it: success, failing status, or blocked.
* `CorrectedOncePerCorrelation` - among requests of one correlation ID that are
  not rolled back, at most one executed a correction.
* `EvidenceNeverSuffices` - with a threshold above what the two inputs the gate is given
  can reach, as shipped, no candidate is vetted before the model has been asked.
* `AnswerMatchesRecord` - an error answer leaves no rows; a committed outcome is
  the outcome the client is told and the executions stand for.
* `ImplementsBudget` - refinement of `ExecutionBudget`, by the pipeline and by the
  executions opened up.
* `EveryRequestSettles` - a started request is answered or aborted, and its
  transaction ends.
* `SendsBounded` - one more HTTP request than redirects per execution, and the
  reply tells whether anything was sent: what `RecoveryPipeline` counts on.
* `OnlyValidatedDestinations` - every hop goes to a URL checked in this execution: at
  the registered host if the API has one, at an allowed host if hosts are restricted.
* `PayloadNeverComesBack` - after a 303 the rest of the execution is GETs without
  query or body; before it everything is sent unchanged.
* `CorrectionInventsNothing` - changes applied in order move or drop fields and
  never add a value or lose one that no change names.
* `SecretsStayOut` - no value of a secret field is sent, whatever is renamed.
* `EvidenceIsReal` - lost updates lose outcomes and never invent any.
* `PromotionIsEarned` - a promoted case has had as many recorded successes as its
  maturity stands for, also when the promotion came from an old copy.
* `UnracedCaseIsExact` - without overlap counts, confidence and maturity are what
  the history makes them.
* `LookupsAreUnambiguous` - queries that expect one row find at most one.
* `UnracedRowsAreAnswered` - rows are what the committed requests asked for; what a
  client was told is there, unless its commit is outstanding or has failed; errors left
  nothing.
* `PatchesCompose` - overlapping changes of different columns do not undo each
  other.
* `EvaluationIsWhole` - results exactly when completed, with consistent counts.
* `OneRowPerKey`, `CommittedContextIsWhole` - unique graph rows, and the whole
  chain from API to error for every committed request.
* `QueryTypeOK` - the types of what is read; that no node is visited beyond the depth.
* `NeighborhoodIsExact` - a walk visits only what lies within its bounds of the graph as
  it is, and in the end all that did when it began unless it is full; from a request's
  context that is never another context, so the fallback shows the model none.
* `RunsCoverTheirNodes`, `StaleOnlyByOverlap` - vectors for the nodes a run loaded
  and no others, and an old one outlasts a newer run only when the two overlap.
* `SearchIsExact` - the nearest others of what the index visited, up to the limit and
  never the node itself, although its vector may be replaced between the two queries.
* `WindowBounded`, `RefusalIsJustified`, `RemainingIsExact` - the limiter admits at
  most the limit in any window, refuses only then, and tells the truth.

Runs that TLC finds violated, each on one sentence of the repository:

| run | sentence | what the code does |
|---|---|---|
| `ClaimRunReturns` | `orchestrator.py:130` | shipped schema: the handler raises for every recoverable failure |
| `ClaimApproval` | `docs/SECURITY_ACCESS.md:96` | APPROVAL_REQUIRED candidates are executed without approval |
| `ClaimModelSpared` | `docs/PRD.md:160` | the model is asked although enough stored candidates have the configured confidence |
| `ClaimOneCase` | `memory/service.py:119` | concurrent successes both create a case |
| `ClaimCorrectedRequest` | `README.md:72` | a part that the changes have emptied is sent as it was |

Observations without a run of their own. Two requests with one correlation ID
execute three times between them, where `orchestrator.py:21` allows two: the count
starts with the attempt row, after the original. The events of an executed
correction are lost when its transaction is (`models/recovery.py:213` promises one
for each); a transport error of the corrected request, or a failure without safe
candidates, writes no final event (`docs/PRD.md:101`). The check that lets
APPROVAL_REQUIRED through also skips the idempotency rule of
`docs/SECURITY_ACCESS.md:103`: a POST is corrected and sent again.

**Bounds.** Two requests are what every race of the pipeline needs: one holds or
has committed the row the other wants; `ClaimOneCase` takes a third that has
committed the graph rows, so that the other two do not wait for each other.
`MaxFaults` = 2 lets each request fail once, or a fault hit the transaction
another request waits for. `MaxEdits` = 2 lets a type be forbidden and another
widened around the vetting loop. The failures in use cover an unrecoverable
class, a class with a retry candidate and one that only the model can correct.
In `PipelineCandidates` the threshold is 39 instead of 65 hundredths, because
the two inputs the orchestrator gives the gate weigh 40 together and with the
default the branch "sufficient" would never be taken (`EvidenceNeverSuffices`, which
`PipelineFaults` checks with the shipped 65; `ClaimModelSpared` has the same cases and
the shipped 65).

`UpstreamRedirects` uses the shipped limit of three redirects, requests with one
field, two fields and a secret one, each case of the host check (a registered host on
the list, off it, or without a list; no registered host, with a list and without), and
corrections with a rename, a chain, a removal that empties a part, and a wait. In `MemoryOutcomes` one case is one success
short of VALIDATED and one is one short of ESTABLISHED, so four calls suffice for a
promotion between the read and the write of another call; thresholds are the shipped
ones, and the tasks, which choose their jobs from one set, are permuted
(`Symmetry`). Three tasks in `AdminRequests` allow a creation, a
change of the created row and a third request around both. `ContextGraph`
has contexts that share all, some or no rows. It begins in one of two states that the
specification reaches: nothing is committed, which lets rows race from the first on; or
three failures are recorded and embedded, so that a search has others to find and, when
the index comes across none of them, the walk begins after it. Two contexts of one
request with two signatures make walks meet both `MaxDepth` = 1 and `MaxNodes` = 3, the
search limit is one, and the vectors of the two runs disagree about what is near; the two
builders are permuted (`BuilderSymmetry`). In `RateLimit` eight
instants are four windows, and a limit of two tells the first admitted from the
last; the clock is the only bound (`MaxTime`).

**Fairness.** `FairSpec` is weakly fair to each handler: the event loop runs
every ready coroutine, calls of the upstream and the model have timeouts, and a
statement that waits for a lock proceeds when the lock is free. Arrivals, faults
and policy edits are not fair. The other modules state safety only: their steps
have no waits other than row locks and unique keys, of which a transaction there
waits for one at a time.

## 4. Proofs

`RecoveryPipelineProofs` proves, for any sets of requests, correlation IDs,
failures, answers, stored cases, policies, and any bounds on faults and edits:

| theorem | statement |
|---|---|
| `StagesHold` | `Spec => []IInv` |
| `TypeCorrect` | `Spec => []TypeOK` |
| `CountNeverLags` | `Spec => []CountCoversExecutions` |
| `OnlyClearedSent` | `Spec => []OnlyClearedCorrectionRuns` |
| `OneCorrectionPerId` | `Spec => []CorrectedOncePerCorrelation` |
| `PipelineRefinesBudget` | `Spec => ImplementsBudget` |

Assumptions: `PipelineAssumption` and `ThresholdsAssumption`, which only type the
constants; TLC evaluates both in every run.

The safety properties are not inductive. "The count covers the executions" says
nothing of where the handler is, and from a state in which it holds a step may
send before it counts. `IInv` adds what each stage has done: `StageOK` gives
session, count and executions for each value of `pc`; `ChoiceOK` says that the
selected candidate is one that passed and that nothing was sent before the
selection; `VettedOK` says what a row that passed has been through; and
`AttemptUnique` that two requests with one correlation ID never both hold an
attempt row. The preservation proof goes action by action, with lemmas for the
exits (`AbortStep`, `FailsStep`, ...) that several actions share.
`CorrectedOncePerCorrelation` follows because a second execution needs count 2
and a session not rolled back, which is a held attempt row. The refinement
proof maps each action to one abstract action or a stutter: arrivals to `Open`,
the original to `CallOriginal`, the insert of the attempt to `Claim`, selection
to `Clear`, the corrected request to `CallCorrected`, the other ends to `Close`,
aborts and faults to `Drop`. It uses `IInv` for the guards of the abstract actions.

`RateLimiterProofs` proves, for any clients and addresses, any limit above zero, any
window and any length of time:

| theorem | statement |
|---|---|
| `TypeCorrectness` | `Spec => []TypeOK` |
| `WindowIsBounded` | `Spec => []WindowBounded` |
| `RefusalsAreJustified` | `Spec => []RefusalIsJustified` |
| `RemainingCountIsExact` | `Spec => []RemainingIsExact` |

from `LimiterAssumption` alone. The properties speak of all requests ever admitted,
the code keeps a bucket. The invariant ties the two together: the admitted times are
in order and not in the future, and the bucket lists them all but the first `k`,
each of which is more than a window old. Where the eviction loop stops is a
`CHOOSE`; that there is such a place is the lemma `LeastElement` (a non-empty set of
naturals has a least element, from the library's well-founded induction). A full
bucket then holds the last `MaxRequests` admitted times, which gives
`RefusalIsJustified`; an admission after eviction leaves the time `MaxRequests`
places earlier among those evicted, which gives `WindowBounded`.

`RecoveryMemoryProofs` proves, for any calls, cases, jobs and thresholds:

| theorem | statement |
|---|---|
| `Invariance` | `Spec => []IInv` |
| `TypeCorrectness` | `Spec => []TypeOK` |
| `CountsAreReal` | `Spec => []EvidenceIsReal` |
| `PromotionsAreEarned` | `Spec => []PromotionIsEarned` |
| `UnracedCasesAreExact` | `Spec => []UnracedCaseIsExact` |

from `MemoryAssumption`, which types the constants, and `PromotionAssumption`: the
threshold of VALIDATED is above one, that of ESTABLISHED is above it, and the cases
stored at the start have the successes their maturity stands for. The properties
speak of committed rows; a step that commits writes a draft made from a row read any
time before. `IInv` says what such a task still knows (`ReaderOK`): the row it read
has the source of the stored one, is backed by what has been recorded since, and the
draft is one call away from it. `WrittenBacked` shows that a flush, which takes each
column from the draft or from the table, then leaves a backed and earned row however
old the copy was; `ExactStep` that from the current row it leaves an exact one, where
the thresholds being apart means that no second promotion is due.

`RecoveryPipelineTrailProofs` proves, under the assumptions of
`RecoveryPipelineProofs`:

| theorem | statement |
|---|---|
| `TrailHolds` | `Spec => []TrailInv` |
| `CommittedTrailHolds` | `Spec => []CommittedTrail` |
| `AnswersMatch` | `Spec => []AnswerMatchesRecord` |
| `ModelIsAlwaysAsked` | `Spec => []EvidenceNeverSuffices` |

Both properties are about committed transactions and given answers, and what commits
was written many steps earlier. `TrailInv` adds to `IInv` what is true before the
commit: `AuditOK`, which events stand in the open transaction while the loop over
candidates runs, between selection and execution, and after the reply; `ReplyOK`,
which reply goes with which count of executions; and `OutcomeOK`, that no stage but
the last has an outcome and that from there the row's outcome, the handler's status
and the client's answer are one. No step of one request touches the trail of another
(`UntouchedTrail`), so each action is proved for the request that takes it.
`ModelIsAlwaysAsked` is about numbers: `GateInsufficient` shows that whatever the confidence of
the classifier and of a stored case, the score stays below the threshold, so the action
that asks the model is the only way on to vetting.

`UpstreamExecutionProofs` proves, for any clients, names and values, URLs, hosts,
corrections and any redirect limit:

| theorem | statement |
|---|---|
| `ExecutionHolds` | `Spec => []IInv` |
| `TypeCorrect` | `Spec => []TypeOK` |
| `SendsStayBounded` | `Spec => []SendsBounded` |
| `OnlyValidated` | `Spec => []OnlyValidatedDestinations` |
| `PayloadStaysAway` | `Spec => []PayloadNeverComesBack` |
| `NothingInvented` | `Spec => []CorrectionInventsNothing` |
| `SecretsNeverSent` | `Spec => []SecretsStayOut` |
| `ExecutionRefinesBudget` | `Spec => ImplementsBudget` |

from `ExecutionAssumption`, which types the constants and says that a client sends
finitely many fields. `CountOK` ties the number of requests sent to the redirects
left; `DestinationOK` says that what is about to be sent to has been validated;
`PayloadOK` compares everything sent in this execution with what would be sent next.
`FieldsOK` is the invariant of the loop over changes: after the first `turn` of them
the draft of each part is made of what normalization left (`MadeBy`). That a change
keeps this is lemma by lemma about renaming, removing and the fallback to the
original; `SecretsStayOut` follows because normalization has replaced the values of
secret names before any of it. `ExecutionRefinesBudget` maps the reply that ends an
execution to a call of the abstract machine when the execution has sent something, which
`CountOK` tells, and hops in between to stutters; that a correction begins only after a
failed first execution and never twice is `StageOK`.

`AdminRowsProofs` proves, for any number of requests, jobs, names and old rows:

| theorem | statement |
|---|---|
| `RowsHold` | `Spec => []IInv` |
| `TypeCorrect` | `Spec => []TypeOK` |
| `LookupsStayUnambiguous` | `Spec => []LookupsAreUnambiguous` |
| `AnswersAreTrue` | `Spec => []UnracedRowsAreAnswered` |
| `PatchesDoCompose` | `Spec => []PatchesCompose` |
| `EvaluationsAreWhole` | `Spec => []EvaluationIsWhole` |

from `AdminAssumption` and `InitialRowsAssumption`. `KeysOK` extends the uniqueness
of committed rows to those that open transactions have flushed, which is what makes
the wait for a unique key enough. `ReaderOK` says of a request that has read a row
how its copy may differ from the table: only in columns that somebody has set since,
and a completed run stays completed. With it `Overwritten` shows that an update of
the changed columns alone leaves the others' changes, and `ExecutedOver` that an
evaluation run executed by two requests at once is whole whichever commits last.

`EmbeddingStoreProofs` proves, for any builders, contexts and runs:

| theorem | statement |
|---|---|
| `StoreHolds` | `Spec => []IInv` |
| `TypeCorrect` | `Spec => []TypeOK`, of both stores |
| `RowsStayUnique` | `Spec => []OneRowPerKey` |
| `ContextsAreWhole` | `Spec => []CommittedContextIsWhole` |
| `RunsCover` | `Spec => []RunsCoverTheirNodes` |
| `NoVectorIsOutlasted` | `Spec => []StaleOnlyByOverlap` |

from `GraphAssumption` (contexts are contexts) and `EmbeddingAssumption` (a run is
full or incremental). `BuilderOK` says that a builder sees all rows before its place,
and that rows of its own are nobody else's and not committed. `StaleOnlyByOverlap`
forbids that a vector stays which a later run, begun after the vector's run had
committed, was to replace; it needs that such a run has replaced the vector of every
node it loaded, hence that it never stops early with nodes in hand, hence `Connected`, an invariant of the graph: the proof
reaches from the order of inserts in the graph builder to the age of vectors.

`GraphQueriesProofs` proves, for any builders, contexts and runs, any depth, any limits
and any distance:

| theorem | statement |
|---|---|
| `QueriesKeepStores` | `QuerySpec => Spec`: reading leaves all that is proved of the stores |
| `QueriesHold` | `QuerySpec => [](IInv /\ QueryInv)` |
| `QueryTypeCorrect` | `QuerySpec => []QueryTypeOK` |
| `WalksAreExact` | `QuerySpec => []NeighborhoodIsExact` |
| `SearchesAreExact` | `QuerySpec => []SearchIsExact` |

from the assumptions of `EmbeddingStoreProofs` and `QueryAssumption`, which types the
constants. The walk is an algorithm whose graph grows between its steps, so its
invariant speaks of two graphs. Upwards, in the graph as it is: what is visited or queued
at a depth is at the end of a chain of that many visible edges (`ReachOK`), and since
visible edges only become more (`VisibleGrows`) a chain once found stays one. Downwards,
in the graph as it was at the start: the target of each edge seen then whose source has
been visited is visited, queued one deeper, or too deep (`FrontierOK`), and the queue is in
order of depth and spans two depths (`OrderOK`), so that a node is visited first at its
least depth and the depth limit cuts off nothing that is nearer. When the queue is empty,
a chain from the own context to a node that was not visited would have a first place not
visited at its depth or above (`LeastIndex`); the place before it contradicts `FrontierOK`
(`ChainIsWalked`).
`KindOK` keeps the walk among the signatures and their types, because of where the edges
of a context lead (`EdgesOfContexts`). For the search, that one place more than the limit
is enough rests on `StaleOnlyByOverlap`, by which a node has one record
(`AnswerIsNearest`).

Only model-checked: `EveryRequestSettles`, because liveness under fairness is out of the
prover's reach. Every other property of the passing runs is stated by a theorem.

## 5. Not modelled, and the plan

Abstracted on purpose: contents of requests, bodies and prompts, latencies,
token counts and logs; rows the pipeline writes and never reads back
(`model_runs`, the explanation columns of candidates); hashing of signatures,
which are modelled by the class and status they tell apart; check 5 of the
validator, which the broker never reaches; column types, lengths and indexes. The
read endpoints and the frontend change no state. Password hashing, tokens, Node2Vec
and pgvector are library code; so is the connection pool, from which a request holds
one connection throughout both executions (`database.py:46`).

Next:

1. Theorems about the operators alone: ranking permutes the candidates that passed, and
   the validator accepts nothing of a type that is NEVER_AUTOMATIC.
2. `RecoveryPipeline` with the steps of `UpstreamExecution` in place of its replies,
   for one request, as a refinement; so far the two meet in `ExecutionBudget`.
