--------------------------- MODULE CollectorInvariants ---------------------------
(***************************************************************************)
(* Why an investigation keeps its limits: what is true at each node of the *)
(* collector graph, strengthened until it is inductive.                    *)
(***************************************************************************)
EXTENDS Collector

Preparing == {"analyze", "resolve_hosts", "establish_phenomenon", "hypothesis_planner"}
Observing == {"tool_executor", "evidence_normalizer", "hypothesis_updater"}
Concluding == {"evidence_package_builder", "report_writer", "report_eval", "answer", "completed"}

\* Nothing is planned or counted before the loop is entered.
Prepared ==
  node \in Preparing =>
    /\ Size(questions) = 0
    /\ iterations = 0 /\ rejections = 0 /\ attempts = 0
    /\ stop = "none"

\* The call budget, of which a plan under way takes its part.
Budgeted ==
  /\ toolCalls <= MaxToolCalls
  /\ node = "tool_executor" => planned > 0 /\ toolCalls + planned <= MaxToolCalls

\* How far the iterations can be, by the attempts that were spent on retries.
Counted ==
  /\ iterations <= MaxIterations + MaxRoutingAttempts
  /\ node \in {"observation_planner", "tool_router"} =>
       /\ attempts <= MaxRoutingAttempts
       /\ iterations <= MaxIterations + attempts
       /\ attempts > 0 <=> rejections > 0
  /\ node = "observation_planner" /\ stop = "none" => iterations < MaxIterations + attempts
  /\ node \in Observing \union {"stop_guard"} => attempts = 0 /\ rejections = 0

\* Who can hold a reason to stop, and who must.
Explained ==
  /\ stop # "none" => node \notin Preparing \union Observing
  /\ stop # "none" /\ node \in {"observation_planner", "tool_router"} => Size(questions) = 0
  /\ node \in Concluding => stop # "none"
  /\ fatal => node \notin Preparing \union {"observation_planner", "tool_router", "tool_executor"}

\* How many nodes can have run before this one: six for each iteration, and a
\* few around the loop.
Paced ==
  /\ node \in {"analyze", "resolve_hosts"} => steps = 0
  /\ node = "establish_phenomenon" => steps <= 1
  /\ node = "hypothesis_planner" => steps <= 2
  /\ node = "observation_planner" => steps <= 6 * iterations + 3
  /\ node = "tool_router" =>
       /\ steps <= 6 * iterations + 4
       /\ Size(questions) > 0 => steps + 2 <= 6 * iterations
  /\ node = "tool_executor" => steps + 1 <= 6 * iterations
  /\ node = "evidence_normalizer" => steps <= 6 * iterations
  /\ node = "hypothesis_updater" => steps <= 6 * iterations + 1
  /\ node = "stop_guard" => steps <= 6 * iterations + 2
  /\ node = "evidence_package_builder" => steps <= 6 * iterations + 5
  /\ node = "report_writer" => steps <= 6 * iterations + 6
  /\ node = "report_eval" => steps <= 6 * iterations + 7

Steered ==
  /\ TypeOK
  /\ Prepared
  /\ Budgeted
  /\ Counted
  /\ Explained
  /\ Paced
  /\ OutOfStepsMeansOverrun

-----------------------------------------------------------------------------
(* Why an investigation can be discarded at all. *)

\* How long the lists can get, whatever they may hold.
Sized ==
  /\ hosts <= HostsFound
  /\ Size(questions) <= BatchCapacity /\ planned <= BatchCapacity
  /\ observations <= BatchCapacity \/ observations <= HostSearchTurns \/ observations <= ScansPlanned
  /\ attempts <= MaxRoutingAttempts + 1
  /\ rejections <= BatchCapacity * attempts
  /\ node = "invalid" => ~Fits

\* No order of answers and failures discards an investigation, only two bounds
\* that disagree: more hosts, scans or lookups may come than the state holds, more
\* turns or refusals than it counts, or the judgements have added hypotheses to a
\* full list.
DiscardHasCause ==
  node = "invalid" =>
    \/ HostsFound > HostCapacity
    \/ ScansPlanned > BatchCapacity \/ HostSearchTurns > BatchCapacity
    \/ MaxIterations + MaxRoutingAttempts > IterationCapacity
    \/ BatchCapacity * (MaxRoutingAttempts + 1) > RejectionCapacity
    \/ hypotheses > HypothesisCapacity
=============================================================================
