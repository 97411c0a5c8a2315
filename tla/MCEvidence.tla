--------------------------------- MODULE MCEvidence ---------------------------------
(* EvidenceTrail for TLC: two hosts, a few questions and a few answers; the     *)
(* cfg gives the limits.                                                        *)
EXTENDS EvidenceInvariants

CONSTANTS h1, h2, r1, r2, s1

Window == {"time_from", "time_to"}

Asks(given, span) == [given |-> given, wellFormed |-> TRUE, span |-> span, about |-> s1]

Asking(tool, text, host, generic, arguments) ==
  [tool |-> tool, text |-> text, host |-> host, scope |-> "historical",
   generic |-> generic, arguments |-> arguments]

\* Events of one host and of no host; a window nobody can measure; a log search
\* that is allowed, one that is not and shares its text, and one that is not; a
\* question that is too long.
MCProposals ==
  {Asking("get_incident_events", "what happened", h1, FALSE, Asks(Window, "short")),
   Asking("get_incident_events", "what happened before", h2, FALSE, Asks(Window, "mixed")),
   Asking("get_incident_events", "what happened anywhere", NoHost, FALSE, Asks(Window, "long")),
   Asking("search", "what was logged", h2, TRUE, Asks({"index", "query_body"}, "none")),
   Asking("search", "what was logged", h1, FALSE, Asks({"index"}, "none")),
   Asking("search", "what else was logged", h1, FALSE, Asks({"index"}, "none")),
   Asking("list_indices", "a long question", h1, FALSE, Asks({"index_pattern"}, "none"))}

\* A scan of a host, which may use a generic tool; one over a whole month.
MCScans ==
  {Asking("search", "scan of h2", h2, TRUE, Asks({"index", "query_body"}, "none")),
   Asking("get_incident_events", "scan of h1", h1, TRUE, Asks(Window, "mixed")),
   Asking("get_incident_events", "scan of h1", h1, TRUE, Asks(Window, "long")),
   Asking("get_metric_summary", "scan of h1", h1, TRUE, Asks(Window, "long"))}

Answer(shape, field, says, rows) ==
  [shape |-> shape, field |-> field, says |-> says, rows |-> rows, reading |-> 1,
   valid |-> TRUE, oversized |-> FALSE]

MCAnswers ==
  {Answer("object", "events", {}, {r1}),
   Answer("object", "events", {"partial"}, {r1, r2}),
   Answer("text", "other", {}, {r1}),
   [Answer("object", "hits", {}, {r2}) EXCEPT !.valid = FALSE, !.oversized = TRUE]}
=============================================================================
