-------------------------------- MODULE Schema --------------------------------
(***************************************************************************)
(* The tables of alembic/versions/0001_initial_schema.py: which columns an *)
(* INSERT has to give, which it may give, which combinations are unique,   *)
(* and which columns refer to another table.  Column types, lengths and    *)
(* indexes are left out.                                                   *)
(***************************************************************************)
EXTENDS Sequences

\* f and, where f has no value, g: TLC's f @@ g in a form the provers expand.
Merged(f, g) ==
  [x \in DOMAIN f \cup DOMAIN g |-> IF x \in DOMAIN f THEN f[x] ELSE g[x]]

\* required: NOT NULL without a default.  optional: the other columns.
Table(required, optional, unique, references) ==
  [required |-> required, optional |-> optional \cup {"id", "created_at"},
   unique |-> unique \cup {{"id"}}, references |-> references]

NoReferences == << >>

RegistryTables ==
  [users |->
     Table({"username", "email", "hashed_password"}, {"role", "is_active", "updated_at"},
           {{"username"}, {"email"}}, NoReferences),
   apis |->
     Table({"name", "base_url", "registered_host"},
           {"description", "is_active", "updated_at"}, {{"name"}}, NoReferences),
   api_endpoints |->
     Table({"api_id", "path", "method"}, {"description", "is_idempotent", "is_active"},
           {}, [api_id |-> "apis"]),
   api_versions |->
     Table({"endpoint_id", "version_string"},
           {"schema_snapshot", "is_current", "deprecated_at"},
           {}, [endpoint_id |-> "api_endpoints"]),
   api_parameters |->
     Table({"endpoint_id", "name", "location", "data_type"},
           {"is_required", "description", "known_aliases", "version_introduced",
            "version_deprecated"},
           {}, [endpoint_id |-> "api_endpoints"])]

EventTables ==
  [request_events |->
     Table({"correlation_id", "method", "url"},
           {"api_id", "endpoint_id", "attempt_number", "request_context", "http_status",
            "response_summary", "upstream_latency_ms", "is_success", "actor_id"},
           {}, [api_id |-> "apis", endpoint_id |-> "api_endpoints"]),
   failure_events |->
     Table({"request_event_id", "correlation_id", "failure_class", "failure_signature"},
           {"http_status", "error_detail", "classifier_confidence", "is_recoverable"},
           {{"request_event_id"}}, [request_event_id |-> "request_events"])]

GraphTables ==
  [graph_nodes |->
     Table({"node_type", "external_id", "label"}, {"attributes", "updated_at"},
           {{"node_type", "external_id"}}, NoReferences),
   graph_edges |->
     Table({"source_node_id", "target_node_id", "edge_type"}, {"weight", "attributes"},
           {{"source_node_id", "target_node_id", "edge_type"}},
           [source_node_id |-> "graph_nodes", target_node_id |-> "graph_nodes"]),
   embedding_records |->
     Table({"graph_node_id", "model_name", "model_version", "dimension"}, {"embedding"},
           {{"graph_node_id", "model_name", "model_version"}},
           [graph_node_id |-> "graph_nodes"])]

RecoveryTables ==
  [recovery_cases |->
     Table({"failure_signature", "context_signature", "correction", "source"},
           {"api_id", "endpoint_id", "version_id", "graph_node_id", "model_provider",
            "model_version", "maturity", "confidence", "success_count", "failure_count",
            "reuse_count", "last_used_at"},
           {}, [api_id |-> "apis", endpoint_id |-> "api_endpoints",
                version_id |-> "api_versions", graph_node_id |-> "graph_nodes"]),
   correction_candidates |->
     Table({"correlation_id", "action_type", "provenance"},
           {"recovery_case_id", "changes", "reason", "source_detail", "confidence",
            "rank_score", "policy_tier", "safety_passed", "safety_detail", "was_executed",
            "was_rejected", "rejection_reason"},
           {}, [recovery_case_id |-> "recovery_cases"]),
   recovery_attempts |->
     Table({"correlation_id"},
           {"original_request_event_id", "corrected_request_event_id",
            "upstream_attempt_count", "failure_event_id", "selected_candidate_id",
            "recovery_case_id", "deterministic_sufficient", "llm_invoked", "outcome",
            "completed_at"},
           {{"correlation_id"}},
           [original_request_event_id |-> "request_events",
            corrected_request_event_id |-> "request_events",
            failure_event_id |-> "failure_events",
            selected_candidate_id |-> "correction_candidates",
            recovery_case_id |-> "recovery_cases"])]

GovernanceTables ==
  [policies |->
     Table({"action_type", "tier"}, {"description", "is_active", "updated_at"},
           {{"action_type"}}, NoReferences),
   approval_requests |->
     Table({"candidate_id", "correlation_id"},
           {"status", "reviewer_id", "review_note", "resolved_at"},
           {}, [candidate_id |-> "correction_candidates"]),
   audit_events |->
     Table({"event_type"},
           {"actor_id", "correlation_id", "candidate_id", "recovery_case_id",
            "policy_decision", "safety_decision", "detail"}, {}, NoReferences),
   model_runs |->
     Table({"correlation_id", "provider", "model"},
           {"model_version", "prompt_tokens", "completion_tokens", "estimated_cost_usd",
            "latency_ms", "was_successful", "error_detail"}, {}, NoReferences),
   evaluation_runs |->
     Table({"name", "baseline", "scenario_set"},
           {"model_version", "graph_version", "confidence_threshold", "ranking_weights",
            "results", "status", "completed_at"}, {}, NoReferences)]

Tables ==
  Merged(GovernanceTables, Merged(RegistryTables,
         Merged(EventTables, Merged(GraphTables, RecoveryTables))))

\* The tiers the migration seeds, of every action type it names.
SeededTiers ==
  LET seeded(tier, types) == [type \in types |-> tier]
  IN  Merged(seeded("NEVER_AUTOMATIC",
                    {"destination_host_change", "disable_tls_verification",
                     "credential_disclosure", "authorization_scope_expansion",
                     "arbitrary_code_execution", "unregistered_endpoint_redirect"}),
      Merged(seeded("AUTO_ELIGIBLE",
                    {"parameter_rename", "remove_optional_field", "retry_after",
                     "schema_field_mapping"}),
             seeded("APPROVAL_REQUIRED",
                    {"credential_refresh", "endpoint_migration", "payload_transformation"})))

\* Every reference is to a table of the schema.
ASSUME ReferencesExist ==
  \A name \in DOMAIN Tables :
    LET references == Tables[name].references
    IN  /\ DOMAIN references \subseteq Tables[name].required \cup Tables[name].optional
        /\ \A column \in DOMAIN references : references[column] \in DOMAIN Tables

-------------------------------------------------------------------------------
(* INSERTs *)

\* A row object with these columns can be made, and the INSERT gives all it must.
Fits(table, columns) ==
  /\ columns \subseteq Tables[table].required \cup Tables[table].optional
  /\ Tables[table].required \subseteq columns

\* What the handlers give; defaults of the models are not repeated here.
ApprovalColumns == {"candidate_id", "justification", "status"}

FailureEventColumns ==
  {"correlation_id", "failure_class", "failure_signature", "http_status", "error_detail",
   "classifier_confidence", "is_recoverable"}

\* An INSERT of the pipeline's failure event fails for want of its request event.
FailureEventIsRefused == ~Fits("failure_events", FailureEventColumns)

Clash(table, a, b) ==
  \E key \in Tables[table].unique :
    key \subseteq DOMAIN a \cap DOMAIN b /\ \A column \in key : a[column] = b[column]
===============================================================================
