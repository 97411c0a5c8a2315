--------------------------------- MODULE ToolCalls ---------------------------------
(***************************************************************************)
(* The calls of one turn on their way to the MCP servers                   *)
(* (tools/executor.py, tools/adapters/base.py, streamable_http.py).  They  *)
(* run together, one coroutine each: the adapter judges the call a second  *)
(* time, sends it, repeats it after a transport failure, and bounds all    *)
(* attempts with one wait_for.  A server answers when and as it likes; a   *)
(* connection may break before or after the request is served.             *)
(*                                                                         *)
(* flight maps a slot of the plan to its call.                             *)
(***************************************************************************)
EXTENDS ToolRegistry

CONSTANTS
  RetryAttempts,  \* retry_attempts of the transport
  Answers,        \* what servers answer, a set of Responses
  ToolError,      \* an answer that is an error of the tool itself
  Unanswered      \* no answer is held

ASSUME CallsAssumption ==
  /\ RetryAttempts \in Nat \ {0}
  /\ Answers \subseteq Responses
  /\ ToolError \notin Responses
  /\ Unanswered \notin Responses \union {ToolError}

VARIABLE flight

\* answered and failed are the results a call returns; verbose is one whose error
\* is too long for an entry.  unrecorded is an error too long for a result: the
\* call raises, as refused and clashed ones do before they are sent.
UnderWay == {"sent", "served", "backoff"}
Returned == {"answered", "failed"}
Unsent == {"refused", "clashed"}
Raised == Unsent \union {"unrecorded"}
Phases == UnderWay \union Returned \union Raised \union {"verbose"}

\* The text of an error comes from the server or the transport as long as it is.
Worded(phase) == {phase, "verbose", "unrecorded"}

\* attempt counts the requests of the call and served those a server worked on.
Calls ==
  [phase : Phases, attempt : Nat, served : Nat,
   answer : Responses \union {ToolError, Unanswered}]

Settled(slot) == flight[slot].phase \notin UnderWay

\* McpAdapter.execute up to the request: the server's scope is not looked at again.
Started(tool, arguments, context) ==
  [phase |-> IF Verdict(tool, arguments, context, "any") # "allowed" THEN "refused"
             ELSE IF Clashes(tool, arguments) THEN "clashed"
             ELSE "sent",
   attempt |-> 1, served |-> 0, answer |-> Unanswered]

\* A server answers a tool in the fields that tool has.
Answerable(tool) ==
  {answer \in Answers : answer.shape = "object" => answer.field \in Registry[tool].lists \union {"other"}}

Serve(slot, tool) ==
  /\ flight[slot].phase = "sent"
  /\ \E answer \in Answerable(tool) \union {ToolError} :
       flight' = [flight EXCEPT ![slot] =
         [phase |-> "served", attempt |-> @.attempt, served |-> @.served + 1, answer |-> answer]]

\* The answer of a tool, an error of its own among them, ends the call.
Return(slot, tool) ==
  /\ flight[slot].phase = "served"
  /\ LET answer == flight[slot].answer
         ended == IF answer = ToolError THEN Worded("failed")
                  ELSE IF Classified(tool, answer) = "error" THEN Worded("answered")
                  ELSE {"answered"}
     IN  \E phase \in ended : flight' = [flight EXCEPT ![slot].phase = phase]

\* How often the server may have worked on the call when its connection is given
\* up: a request under way may or may not have arrived.
ServedAtLast(slot) ==
  {flight[slot].served} \union (IF flight[slot].phase = "sent" THEN {flight[slot].served + 1} ELSE {})

\* Altered: one attempt more, as when the attempts so far were compared.
Break_OneMore(slot) ==
  /\ flight[slot].phase \in {"sent", "served"}
  /\ \E served \in ServedAtLast(slot),
        phase \in IF flight[slot].attempt <= RetryAttempts THEN {"backoff"} ELSE Worded("failed") :
       flight' = [flight EXCEPT ![slot] =
         [phase |-> phase, attempt |-> @.attempt, served |-> served, answer |-> Unanswered]]

\* The connection fails, before or after the server has worked on the request.
\* The call waits for its next attempt, or has had its last.
Break(slot) ==
  /\ flight[slot].phase \in {"sent", "served"}
  /\ \E served \in ServedAtLast(slot),
        phase \in IF flight[slot].attempt < RetryAttempts THEN {"backoff"} ELSE Worded("failed") :
       flight' = [flight EXCEPT ![slot] =
         [phase |-> phase, attempt |-> @.attempt, served |-> served, answer |-> Unanswered]]

Retry(slot) ==
  /\ flight[slot].phase = "backoff"
  /\ flight' = [flight EXCEPT ![slot] =
       [phase |-> "sent", attempt |-> @.attempt + 1, served |-> @.served, answer |-> @.answer]]

\* Altered: the clock only covers the reading of an answer.
Timeout_OfReading(slot) ==
  /\ flight[slot].phase = "served"
  /\ flight' = [flight EXCEPT ![slot] =
       [phase |-> "failed", attempt |-> @.attempt, served |-> @.served, answer |-> Unanswered]]

\* wait_for ends the call wherever it is, its answer on the way included.
Timeout(slot) ==
  /\ flight[slot].phase \in UnderWay
  /\ \E served \in ServedAtLast(slot) :
       flight' = [flight EXCEPT ![slot] =
         [phase |-> "failed", attempt |-> @.attempt, served |-> served, answer |-> Unanswered]]

\* The status of the result of a call that returned.
StatusOf(slot, tool) ==
  IF flight[slot].phase = "answered" THEN Classified(tool, flight[slot].answer) ELSE "error"
=============================================================================
