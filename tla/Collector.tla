--------------------------------- MODULE Collector ---------------------------------
(***************************************************************************)
(* One investigation of rca-api: InvestigationService.investigate          *)
(* (services/investigation.py) and the collector graph it runs             *)
(* (graph/builder.py, routing.py, deterministic_nodes.py, live_nodes.py,   *)
(* report_nodes.py).  A node runs to its end and returns an update; the    *)
(* next node starts by rebuilding InvestigationState from the sum of the   *)
(* updates, which is where a value past its declared bound is noticed.     *)
(*                                                                         *)
(* What models and tools answer is chosen freely within their contracts.   *)
(* Lists are represented by their lengths: what the graph decides on is    *)
(* how many hosts, questions, calls and refusals there are.                *)
(***************************************************************************)
EXTENDS Naturals

CONSTANTS
  MaxIterations,       \* limits.max_iterations
  MaxToolCalls,        \* limits.max_tool_calls
  MaxRoutingAttempts,  \* MAX_ROUTING_ATTEMPTS
  HostSearchTurns,     \* MAX_HOST_SEARCH_TURNS
  HostsFound,          \* how many hosts the search can come back with
  ScansPlanned,        \* how many scans a plan may hold
  NewHypotheses,       \* how many hypotheses one judgement may add
  BatchCapacity,       \* InvestigationState: questions, calls, observations
  HostCapacity,        \*   hosts
  HypothesisCapacity,  \*   hypotheses
  RejectionCapacity,   \*   routing_rejections
  IterationCapacity    \*   iteration_count

ASSUME CollectorAssumption ==
  /\ MaxIterations \in Nat \ {0}
  /\ MaxToolCalls \in Nat \ {0}
  /\ MaxRoutingAttempts \in Nat
  /\ HostSearchTurns \in Nat
  /\ HostsFound \in Nat
  /\ ScansPlanned \in Nat
  /\ NewHypotheses \in Nat
  /\ BatchCapacity \in Nat \ {0}
  /\ HostCapacity \in Nat
  /\ HypothesisCapacity \in Nat
  /\ RejectionCapacity \in Nat
  /\ IterationCapacity \in Nat

VARIABLES
  node,          \* the node that runs next, or how the investigation ended
  steps,         \* how many nodes the graph has run
  hosts,         \* how many hosts were resolved
  hypotheses,    \* how many hypotheses are held
  questions,     \* next_questions, by what the registry will say of them
  planned,       \* how many planned_tool_calls
  observations,  \* how many last_observations
  toolCalls,     \* tool_call_count, which is the length of tool_results
  iterations,    \* iteration_count
  rejections,    \* how many routing_rejections
  attempts,      \* routing_attempts
  stop,          \* which statement set stop_reason, or "none"
  limitReached,  \* limit_reached
  fatal,         \* fatal_error is set
  package        \* evidence_package is set, and with it the report

collected == <<hosts, hypotheses, observations, toolCalls>>
routing == <<questions, planned, iterations, rejections, attempts>>
verdict == <<stop, limitReached, fatal, package>>
vars == <<node, steps, collected, routing, verdict>>

GraphNodes ==
  {"resolve_hosts", "establish_phenomenon", "hypothesis_planner", "observation_planner",
   "tool_router", "tool_executor", "evidence_normalizer", "hypothesis_updater",
   "stop_guard", "evidence_package_builder", "report_writer", "report_eval"}

\* Statuses of the answer, and the ways in which there is none.
Answers == {"completed", "needs_clarification", "unsupported"}
Failures == {"raised", "invalid", "out_of_steps"}

StopReasons ==
  {"no_host", "no_hypotheses", "no_observation", "no_usable_observation",
   "nothing_to_route", "unroutable", "judged", "fatal",
   "tool_calls", "iterations", "duration"}

\* Calls the registry allows, refusals worth another plan, and final refusals.
Batches == [allowed : Nat, retryable : Nat, refused : Nat]
NoQuestions == [allowed |-> 0, retryable |-> 0, refused |-> 0]
Size(batch) == batch.allowed + batch.retryable + batch.refused

TypeOK ==
  /\ node \in {"analyze", "answer"} \union GraphNodes \union Answers \union Failures
  /\ steps \in Nat
  /\ hosts \in Nat
  /\ hypotheses \in Nat
  /\ questions \in Batches
  /\ planned \in Nat
  /\ observations \in Nat
  /\ toolCalls \in Nat
  /\ iterations \in Nat
  /\ rejections \in Nat
  /\ attempts \in Nat
  /\ stop \in StopReasons \union {"none"}
  /\ limitReached \in BOOLEAN
  /\ fatal \in BOOLEAN
  /\ package \in BOOLEAN

Init ==
  /\ node = "analyze"
  /\ steps = 0
  /\ hosts = 0
  /\ hypotheses = 0
  /\ questions = NoQuestions
  /\ planned = 0
  /\ observations = 0
  /\ toolCalls = 0
  /\ iterations = 0
  /\ rejections = 0
  /\ attempts = 0
  /\ stop = "none"
  /\ limitReached = FALSE
  /\ fatal = FALSE
  /\ package = FALSE

-----------------------------------------------------------------------------
(* The graph runtime. *)

RecursionLimit == 8 + 6 * MaxIterations

\* What InvestigationState accepts of the lists the graph decides on.  Unknowns,
\* facts and evidence are trimmed to their bounds and are always accepted; the
\* bounds of texts and of report_findings are left out.
Fits ==
  /\ hosts <= HostCapacity
  /\ hypotheses <= HypothesisCapacity
  /\ observations <= BatchCapacity
  /\ rejections <= RejectionCapacity
  /\ iterations <= IterationCapacity

Run(n) ==
  /\ node = n
  /\ Fits
  /\ steps < RecursionLimit
  /\ steps' = steps + 1

\* A node, or the state of the finished run, that cannot be validated.
FailValidation ==
  /\ \/ node \in GraphNodes /\ steps < RecursionLimit
     \/ node = "answer"
  /\ ~Fits
  /\ node' = "invalid"
  /\ UNCHANGED <<steps, collected, routing, verdict>>

RunOutOfSteps ==
  /\ node \in GraphNodes
  /\ steps >= RecursionLimit
  /\ node' = "out_of_steps"
  /\ UNCHANGED <<steps, collected, routing, verdict>>

\* A model call that times out or breaks its contract leaves the graph as an
\* exception, as does a draft that fails _validate_report.
Raise ==
  /\ node \in {"analyze"} \union GraphNodes
  /\ node' = "raised"
  /\ UNCHANGED <<steps, collected, routing, verdict>>

-----------------------------------------------------------------------------
(* Before and after the graph. *)

Analyze ==
  /\ node = "analyze"
  /\ node' \in {"resolve_hosts", "needs_clarification", "unsupported"}
  /\ UNCHANGED <<steps, collected, routing, verdict>>

\* Altered: a status the response contract does not have.
Answer_Failed ==
  /\ node = "answer"
  /\ Fits
  /\ node' = IF package THEN "completed" ELSE "failed"
  /\ UNCHANGED <<steps, collected, routing, verdict>>

Answer ==
  /\ node = "answer"
  /\ Fits
  /\ node' = IF package THEN "completed" ELSE "needs_clarification"
  /\ UNCHANGED <<steps, collected, routing, verdict>>

-----------------------------------------------------------------------------
(* The nodes. *)

\* Altered: the budget of a batch, not of the investigation.
Remaining_PerBatch == MaxToolCalls

\* What is left of the tool-call budget.
Remaining == IF toolCalls < MaxToolCalls THEN MaxToolCalls - toolCalls ELSE 0

AtMost(a, b) == IF a < b THEN a ELSE b

ResolveHosts ==
  /\ Run("resolve_hosts")
  /\ \E found \in 0..HostsFound, lookups \in 0..AtMost(HostSearchTurns, Remaining) :
       /\ hosts' = found
       /\ observations' = lookups
       /\ toolCalls' = toolCalls + lookups
       /\ stop' = IF found = 0 THEN "no_host" ELSE stop
       /\ node' = IF found = 0 THEN "evidence_package_builder" ELSE "establish_phenomenon"
  /\ UNCHANGED <<hypotheses, routing, limitReached, fatal, package>>

\* Every scan of the plan that names a resolved host and is allowed, as far as
\* the budget goes, is this node's observation.
EstablishPhenomenon ==
  /\ Run("establish_phenomenon")
  /\ \E scans \in 0..AtMost(ScansPlanned, Remaining) :
       /\ observations' = scans
       /\ toolCalls' = toolCalls + scans
  /\ node' = "hypothesis_planner"
  /\ UNCHANGED <<hosts, hypotheses, routing, verdict>>

\* A stop reason counts only when there is nothing to discriminate.
PlanHypotheses ==
  /\ Run("hypothesis_planner")
  /\ hypotheses' \in 0..HypothesisCapacity
  /\ stop' = IF hypotheses' = 0 THEN "no_hypotheses" ELSE "none"
  /\ node' = "observation_planner"
  /\ UNCHANGED <<hosts, observations, toolCalls, routing, limitReached, fatal, package>>

\* Altered: the turn is not counted.
PlanObservations_Uncounted ==
  /\ Run("observation_planner")
  /\ node' = "tool_router"
  /\ \/ /\ stop # "none"
        /\ UNCHANGED <<questions, planned, iterations, stop>>
     \/ /\ stop = "none"
        /\ UNCHANGED iterations
        /\ planned' = 0
        /\ \E batch \in [allowed : 0..BatchCapacity, retryable : 0..BatchCapacity, refused : 0..BatchCapacity] :
             /\ Size(batch) <= AtMost(BatchCapacity, Remaining)
             /\ hypotheses = 0 => Size(batch) = 0
             /\ questions' = batch
             /\ IF Size(batch) > 0 THEN stop' = stop ELSE stop' = "no_observation"
  /\ UNCHANGED <<collected, rejections, attempts, limitReached, fatal, package>>

\* Proposals that are anchored to a hypothesis and readable, as many as the
\* budget holds.  Without any, the planner's own reason or a default ends the run.
PlanObservations ==
  /\ Run("observation_planner")
  /\ node' = "tool_router"
  /\ \/ /\ stop # "none"
        /\ UNCHANGED <<questions, planned, iterations, stop>>
     \/ /\ stop = "none"
        /\ iterations' = iterations + 1
        /\ planned' = 0
        /\ \E batch \in [allowed : 0..BatchCapacity, retryable : 0..BatchCapacity, refused : 0..BatchCapacity] :
             /\ Size(batch) <= AtMost(BatchCapacity, Remaining)
             /\ hypotheses = 0 => Size(batch) = 0
             /\ questions' = batch
             /\ IF Size(batch) > 0
                  THEN stop' = stop
                  ELSE stop' \in {"no_observation", "no_usable_observation"}
  /\ UNCHANGED <<collected, rejections, attempts, limitReached, fatal, package>>

\* route_after_tool_router, on what the router has just returned.
AfterRouter(calls, reason, refusals) ==
  IF fatal THEN "evidence_package_builder"
  ELSE IF calls > 0 THEN "tool_executor"
  ELSE IF reason # "none" THEN "evidence_package_builder"
  ELSE IF refusals > 0 THEN "observation_planner"
  ELSE "evidence_package_builder"

\* Nothing to route: the router's reason replaces whatever reason was given.
RouteNothing ==
  /\ Run("tool_router")
  /\ Size(questions) = 0
  /\ stop' = "nothing_to_route"
  /\ planned' = 0
  /\ node' = AfterRouter(0, stop', rejections)
  /\ UNCHANGED <<collected, questions, iterations, rejections, attempts, limitReached, fatal, package>>

\* Altered: the attempts spent on a plan that was refused are not given back.
RouteCalls_KeepsAttempts ==
  /\ Run("tool_router")
  /\ questions.allowed > 0
  /\ planned' = AtMost(questions.allowed, Remaining)
  /\ rejections' = 0
  /\ node' = AfterRouter(planned', stop, rejections')
  /\ UNCHANGED <<collected, questions, iterations, attempts, verdict>>

\* Whatever the registry allows is called, and earlier refusals are forgotten.
RouteCalls ==
  /\ Run("tool_router")
  /\ AtMost(questions.allowed, Remaining) > 0
  /\ planned' = AtMost(questions.allowed, Remaining)
  /\ rejections' = 0
  /\ attempts' = 0
  /\ node' = AfterRouter(planned', stop, rejections')
  /\ UNCHANGED <<collected, questions, iterations, verdict>>

Refused == Size(questions) > 0 /\ AtMost(questions.allowed, Remaining) = 0

\* A refused plan goes back to the planner with the reasons.
SendBack ==
  /\ Run("tool_router")
  /\ Refused
  /\ questions.retryable > 0
  /\ attempts + 1 <= MaxRoutingAttempts
  /\ planned' = 0
  /\ questions' = NoQuestions
  /\ rejections' = rejections + questions.retryable
  /\ attempts' = attempts + 1
  /\ node' = AfterRouter(0, stop, rejections')
  /\ UNCHANGED <<collected, iterations, verdict>>

\* Altered: the run is ended without a reason.
GiveUp_Silent ==
  /\ Run("tool_router")
  /\ Refused
  /\ questions.retryable = 0 \/ attempts + 1 > MaxRoutingAttempts
  /\ planned' = 0
  /\ rejections' = 0
  /\ attempts' = attempts + 1
  /\ node' = AfterRouter(0, stop, rejections')
  /\ UNCHANGED <<collected, questions, iterations, verdict>>

GiveUp ==
  /\ Run("tool_router")
  /\ Refused
  /\ questions.retryable = 0 \/ attempts + 1 > MaxRoutingAttempts
  /\ stop' = "unroutable"
  /\ planned' = 0
  /\ rejections' = rejections + questions.retryable
  /\ attempts' = attempts + 1
  /\ node' = AfterRouter(0, stop', rejections')
  /\ UNCHANGED <<collected, questions, iterations, limitReached, fatal, package>>

\* The calls of a turn run together.  One that raises leaves no result; the
\* others are kept and counted.
ExecuteTools ==
  /\ Run("tool_executor")
  /\ IF planned = 0
       THEN fatal' = TRUE /\ UNCHANGED <<observations, toolCalls>>
       ELSE /\ \E answered \in 0..planned :
                 /\ observations' = answered
                 /\ toolCalls' = toolCalls + answered
            /\ UNCHANGED fatal
  /\ node' = "evidence_normalizer"
  /\ UNCHANGED <<hosts, hypotheses, routing, stop, limitReached, package>>

NormalizeEvidence ==
  /\ Run("evidence_normalizer")
  /\ fatal' = (fatal \/ observations = 0 \/ planned = 0)
  /\ node' = IF fatal' \/ observations = 0 THEN "stop_guard" ELSE "hypothesis_updater"
  /\ UNCHANGED <<collected, routing, stop, limitReached, package>>

UpdateHypotheses ==
  /\ Run("hypothesis_updater")
  /\ \E added \in 0..NewHypotheses : hypotheses' = hypotheses + added
  /\ stop' \in {"none", "judged"}
  /\ node' = "stop_guard"
  /\ UNCHANGED <<hosts, observations, toolCalls, routing, limitReached, fatal, package>>

\* hard_stop_update: the first limit that is reached names the reason, in place
\* of the one the judgement gave; late is what the clock says.
HardStop(late) ==
  IF fatal THEN "fatal"
  ELSE IF hosts = 0 THEN "no_host"
  ELSE IF toolCalls >= MaxToolCalls THEN "tool_calls"
  ELSE IF iterations >= MaxIterations THEN "iterations"
  ELSE IF late THEN "duration"
  ELSE stop

\* Altered: only a limit ends the loop, whatever the judgement said.
AfterGuard_LimitsOnly(reason) ==
  IF reason \in {"tool_calls", "iterations", "duration", "fatal"}
    THEN "evidence_package_builder"
    ELSE "observation_planner"

AfterGuard(reason) ==
  IF reason = "none" THEN "observation_planner" ELSE "evidence_package_builder"

StopGuard ==
  /\ Run("stop_guard")
  /\ \E late \in BOOLEAN : stop' = HardStop(late)
  /\ limitReached' = (limitReached \/ stop' \in {"tool_calls", "iterations", "duration"})
  /\ node' = AfterGuard(stop')
  /\ UNCHANGED <<collected, routing, fatal, package>>

BuildPackage ==
  /\ Run("evidence_package_builder")
  /\ IF hosts = 0 THEN package' = FALSE ELSE package' = TRUE
  /\ node' = "report_writer"
  /\ UNCHANGED <<collected, routing, stop, limitReached, fatal>>

\* The writer does nothing without a package, and the checks send nothing back.
WriteReport ==
  /\ Run("report_writer")
  /\ node' = "report_eval"
  /\ UNCHANGED <<collected, routing, verdict>>

EvalReport ==
  /\ Run("report_eval")
  /\ node' = "answer"
  /\ UNCHANGED <<collected, routing, verdict>>

Done == node \in Answers \union Failures /\ UNCHANGED vars

Next ==
  \/ Analyze \/ Answer \/ Raise \/ FailValidation \/ RunOutOfSteps
  \/ ResolveHosts \/ EstablishPhenomenon \/ PlanHypotheses \/ PlanObservations
  \/ RouteNothing \/ RouteCalls \/ SendBack \/ GiveUp
  \/ ExecuteTools \/ NormalizeEvidence \/ UpdateHypotheses \/ StopGuard
  \/ BuildPackage \/ WriteReport \/ EvalReport
  \/ Done

Spec == Init /\ [][Next]_vars

-----------------------------------------------------------------------------
(* Safety. *)

\* Host lookups, scans and batches of parallel calls together never make more
\* calls than the investigation's budget.
BudgetKept == toolCalls <= MaxToolCalls

\* The iteration limit is only passed by plans that were refused: the retries
\* of the router go round the stop guard, MaxRoutingAttempts times at most.
IterationsBounded == iterations <= MaxIterations + MaxRoutingAttempts

\* The recursion limit covers every run that keeps its iteration limit.
OutOfStepsMeansOverrun == node = "out_of_steps" => iterations > MaxIterations

\* No package is built, and nobody is asked for hosts, without a reason why the
\* collection ended there.
EndsExplained ==
  node \in {"evidence_package_builder", "report_writer", "report_eval", "answer", "completed"}
    => stop # "none"

\* A planner that is asked again is told why, and one that is not retrying is
\* told of no refusal and has all its attempts.
RetryKnowsWhy == node = "observation_planner" => (attempts > 0 <=> rejections > 0)

\* An investigation that has a reason to stop keeps one, and makes no more calls.
StopIsFinal == [][stop # "none" => stop' # "none" /\ toolCalls' = toolCalls]_vars

-----------------------------------------------------------------------------
(* The loop this implements. *)

\* What the graph does at a node: once there is a reason to stop, the planner
\* and the router only pass it on.
LoopPhase ==
  IF node \in {"analyze", "resolve_hosts", "establish_phenomenon", "hypothesis_planner"} THEN "preparing"
  ELSE IF node = "observation_planner" /\ stop = "none" THEN "planning"
  ELSE IF node = "tool_router" /\ stop = "none" THEN "routing"
  ELSE IF node = "tool_executor" THEN "calling"
  ELSE IF node \in {"evidence_normalizer", "hypothesis_updater", "stop_guard"} THEN "judging"
  ELSE "ended"

Loop == INSTANCE CollectionLoop WITH
  MaxTurns <- MaxIterations, MaxCalls <- MaxToolCalls, MaxRetries <- MaxRoutingAttempts,
  phase <- LoopPhase, turns <- iterations, retries <- attempts, calls <- toolCalls

\* Whatever the models plan and judge and however nodes end, the graph is a loop
\* of bounded turns on one budget: no turn is judged beyond the limits, only
\* refused plans pass the limit of turns, and once ended it calls no tool.
ImplementsLoop == Loop!LoopSpec

-----------------------------------------------------------------------------
(* What the documentation says and the code does not always do. *)

\* state.py: reaching the end of a list never costs the whole investigation.
NeverDiscarded == node # "invalid"
=============================================================================
