------------------------------- MODULE ToolRegistry -------------------------------
(***************************************************************************)
(* What rca-api may ask of the MCP servers (tools/registry.py) and what it *)
(* reads out of their answers (tools/adapters/base.py, normalizer.py):     *)
(* the table of tools, the verdict on a call, the widening of its window,  *)
(* the class of an answer and the pieces of evidence an answer holds.      *)
(*                                                                         *)
(* Pure definitions.  The arguments of a call are which of them are given, *)
(* whether those the registry looks into have the form it asks for, what   *)
(* the window spans, and what the call is about; an answer is its outer    *)
(* shape, what it says of its own quality, and the rows it holds.          *)
(***************************************************************************)
EXTENDS Naturals, FiniteSets

CONSTANTS
  MaxToolCalls,   \* limits.max_tool_calls
  CurrentOnly,    \* the tools that the live catalog marks current_only
  WindowPolicy,   \* collection.window.policy of the selected template
  Hosts,          \* the names of the resolved hosts
  NoHost,         \* a call that names no host
  Rows,           \* events, items and other rows a server can return
  Subjects,       \* what the arguments of a call can be about
  Readings        \* what the same row can say at different moments

ASSUME RegistryAssumption ==
  /\ MaxToolCalls \in Nat \ {0}
  /\ NoHost \notin Hosts
  /\ IsFiniteSet(Rows)

Tool(source, kind, requires, requiresAny, lists) ==
  [source |-> source, kind |-> kind, requires |-> requires,
   requiresAny |-> requiresAny, lists |-> lists]

Zabbix(requires, requiresAny, lists) == Tool("zabbix", "structured", requires, requiresAny, lists)
Wazuh(requires, lists) == Tool("wazuh", "structured", requires, {}, lists)

Span == {"time_from", "time_to"}

\* DEFAULT_TOOL_REGISTRY
Registry ==
  [find_hosts                |-> Zabbix({}, {"query", "group_ids"}, {"hosts"}),
   get_incident_events       |-> Zabbix(Span, {}, {"events"}),
   get_trigger_details       |-> Zabbix({"trigger_id"}, {}, {}),
   get_related_events        |-> Zabbix(Span, {"trigger_ids", "tags"}, {"events"}),
   list_relevant_metrics     |-> Zabbix({"keywords"}, {}, {"metrics"}),
   get_metric_summary        |-> Zabbix(Span \union {"item_ids", "aggregation"}, {}, {"series", "metrics"}),
   get_metric_history        |-> Zabbix(Span \union {"item_id", "aggregation"}, {}, {"points"}),
   query_zabbix              |-> Tool("zabbix", "generic", {"method"}, {}, {"rows"}),
   search                    |-> Tool("elasticsearch", "generic", {"index", "query_body"}, {}, {"hits"}),
   esql                      |-> Tool("elasticsearch", "generic", {"query"}, {}, {}),
   get_mappings              |-> Tool("elasticsearch", "inventory", {"index"}, {}, {}),
   list_indices              |-> Tool("elasticsearch", "inventory", {"index_pattern"}, {}, {}),
   get_shards                |-> Tool("elasticsearch", "inventory", {}, {}, {}),
   get_wazuh_alert_summary   |-> Wazuh(Span, {"alerts"}),
   get_wazuh_agents          |-> Wazuh({}, {"agents"}),
   get_wazuh_agent_processes |-> Wazuh({"agent_id"}, {"processes"}),
   get_wazuh_agent_ports     |-> Wazuh({"agent_id", "protocol", "state"}, {"ports"})]

Tools == DOMAIN Registry
BlockedTools == {"get_mappings"}
TakesPolicy == {"get_incident_events", "get_related_events", "get_metric_summary"}
EventTools == {"get_incident_events", "get_related_events"}

ArgumentNames ==
  UNION {Registry[tool].requires \union Registry[tool].requiresAny : tool \in Tools}
    \union {"policy"}

Arguments ==
  [given : SUBSET ArgumentNames, wellFormed : BOOLEAN,
   span : {"none", "short", "long", "mixed"}, about : Subjects]

Contexts == [scope : {"historical", "current", "timeless"}, generic : BOOLEAN, calls : Nat]

-----------------------------------------------------------------------------
(* The verdict on a call. *)

\* Refusals that no other plan for the same call could overcome.
Refused(tool, context, declaredScope) ==
  \/ tool \in BlockedTools
  \/ context.calls >= MaxToolCalls
  \/ declaredScope = "current_only" /\ context.scope = "historical"
  \/ Registry[tool].kind = "generic" /\ ~context.generic

\* What the registry asks of the arguments themselves.
Complete(tool, arguments) ==
  /\ Registry[tool].requires \subseteq arguments.given
  /\ Registry[tool].requiresAny = {} \/ Registry[tool].requiresAny \intersect arguments.given # {}
  /\ arguments.wellFormed

\* validate_call: "retryable" and "refused" are the two kinds of ToolPolicyError.
Verdict(tool, arguments, context, declaredScope) ==
  IF tool \notin Tools THEN "retryable"
  ELSE IF Refused(tool, context, declaredScope) THEN "refused"
  ELSE IF Complete(tool, arguments) THEN "allowed"
  ELSE "retryable"

\* _catalog_scope: a tool that the catalog says nothing of gets the default.
CatalogScope(tool) == IF tool \in CurrentOnly THEN "current_only" ELSE "any"

\* apply_window_policy.  A window of one naive and one aware timestamp cannot be
\* measured: the subtraction raises what nobody around it expects.
Unwidened(tool, arguments) == tool \in TakesPolicy /\ "policy" \notin arguments.given
Clashes(tool, arguments) ==
  Unwidened(tool, arguments) /\ WindowPolicy # "long_term_capacity" /\ arguments.span = "mixed"
Widened(tool, arguments) ==
  IF Unwidened(tool, arguments) /\ (WindowPolicy = "long_term_capacity" \/ arguments.span = "long")
    THEN [arguments EXCEPT !.given = @ \union {"policy"}]
    ELSE arguments

-----------------------------------------------------------------------------
(* What an answer is, and what evidence it holds. *)

\* field is where an object keeps its rows, and says what it tells of its own
\* quality; valid is whether the evidence schema accepts what the rows hold.
Responses ==
  [shape : {"object", "list", "text", "nothing"},
   field : {"events", "series", "metrics", "hits", "other"},
   says : SUBSET {"error", "filtered", "partial"},
   rows : SUBSET Rows, reading : Readings,
   valid : BOOLEAN, oversized : BOOLEAN]

Statuses == {"ok", "empty", "filtered_empty", "partial", "error"}

\* classify_result
Classified(tool, response) ==
  LET says(word) == response.shape = "object" /\ word \in response.says
      listed == response.shape # "object" \/ response.field \in Registry[tool].lists
  IN  IF says("error") THEN "error"
      ELSE IF says("filtered") THEN "filtered_empty"
      ELSE IF says("partial") THEN "partial"
      ELSE IF response.shape = "nothing" \/ (listed /\ response.rows = {}) THEN "empty"
      ELSE "ok"

\* The id of whatever no dedicated normalizer reads: the host, the arguments
\* and the whole answer.
GenericId(host, arguments, response) ==
  <<"generic", host, arguments, <<response.rows, response.reading>>>>

\* An event keeps the id its server gave it.  An answer without events is
\* evidence of their absence.
EventIds(response, request) ==
  IF response.field = "events" /\ response.rows # {}
    THEN {<<"event", row>> : row \in response.rows}
    ELSE {<<"none", request>>}

TriggerId(arguments) == <<"trigger", arguments.about>>

\* A series is told apart by its item and the request.
SeriesIds(response, request) ==
  {<<"metric", row, request>> : row \in {r \in response.rows : response.field = "series"}}
HistoryId(arguments, request) == <<"metric", arguments.about, request>>

\* normalize_observation: the ids of the pieces of evidence in an answer.
ItemIds(tool, status, response, host, arguments) ==
  LET request == Widened(tool, arguments)
  IN  CASE status = "error" -> {}
        [] status # "error" /\ response.shape # "object" -> {GenericId(host, arguments, response)}
        [] OTHER ->
             CASE tool \in EventTools -> EventIds(response, request)
               [] tool = "get_trigger_details" -> {TriggerId(arguments)}
               [] tool = "get_metric_summary" -> SeriesIds(response, request)
               [] tool = "get_metric_history" -> {HistoryId(arguments, request)}
               [] OTHER -> {GenericId(host, arguments, response)}
=============================================================================
