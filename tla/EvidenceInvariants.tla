----------------------------- MODULE EvidenceInvariants -----------------------------
(***************************************************************************)
(* Why the properties of EvidenceTrail hold: what is true of a call at     *)
(* each point of its way, of the plan between router and executor, and of  *)
(* the entries a loss leaves behind.                                       *)
(***************************************************************************)
EXTENDS EvidenceTrail

\* How often a server can have worked on a call, by where the call is.
CallOk(call) ==
  /\ call.attempt <= RetryAttempts
  /\ call.phase = "sent" => call.served < call.attempt
  /\ call.phase \in {"served", "backoff", "verbose", "unrecorded"} \union Returned => call.served <= call.attempt
  /\ call.phase = "backoff" => call.attempt < RetryAttempts
  /\ call.phase \in Unsent => call.served = 0
  /\ call.phase = "served" => call.answer \in Responses \union {ToolError}
  /\ call.phase = "answered" => call.answer \in Responses

CallInv == \A slot \in DOMAIN flight : CallOk(flight[slot])

\* What a plan went through: between turns nothing is left of it, and what the
\* executor starts is what the router allowed with the same calls spent.
PlanInv ==
  /\ node = "tool_router" => planned = {} /\ flight = <<>> /\ filed = {}
  /\ node = "observation_planner" /\ stop =>
       planned = {} /\ flight = <<>> /\ filed = {} /\ questions = <<>>
  /\ node = "establish_phenomenon" => flight = <<>> /\ filed = {} /\ planned = {}
  /\ node = "tool_executor" /\ flight = <<>> => Routed(planned)
  /\ node \in {"establish_phenomenon", "scanning"} => iterations = 0

\* An answer that was cut is an entry before it becomes evidence.
CutInv ==
  node = "evidence_normalizer" =>
    \A slot \in Answered : Partial(slot) => Admitted(Truncated(CallId(slot)))

\* The scans are taken in order, and one under way is paid for.
ScanInv ==
  node = "scanning" =>
    /\ filed = 1..Cardinality(filed)
    /\ DOMAIN flight \subseteq filed \union {NextScan}
    /\ NextScan \in DOMAIN flight => toolCalls < MaxToolCalls

\* Between the planner and the executor the batch is within the budget, and each
\* plan beyond the limit of turns answers a refusal.
TurnInv ==
  /\ toolCalls <= MaxToolCalls
  /\ node \in {"establish_phenomenon", "scanning"} => attempts = 0
  /\ node \in {"evidence_normalizer", "hypothesis_updater", "stop_guard"} => attempts = 0
  /\ node = "observation_planner" /\ ~stop =>
       attempts <= MaxRoutingAttempts /\ iterations < MaxIterations + attempts
  /\ node = "tool_router" /\ ~stop =>
       attempts <= MaxRoutingAttempts /\ iterations <= MaxIterations + attempts
  /\ node = "tool_router" => (stop <=> questions = <<>>)
  /\ node \in {"tool_router", "tool_executor"} => toolCalls + Len(questions) <= MaxToolCalls
  /\ node = "tool_executor" => attempts = 0

IInv == TypeOK /\ CallInv /\ PlanInv /\ CutInv /\ AllowedIsCalled /\ EvidenceStands /\ LossesAdmitted

-----------------------------------------------------------------------------
(* How a call ends. *)

\* How many steps a call has left at most: three for each attempt.
StepsOfCall(call) ==
  3 * (RetryAttempts - call.attempt)
    + (IF call.phase = "sent" THEN 3 ELSE IF call.phase = "served" THEN 2
       ELSE IF call.phase = "backoff" THEN 1 ELSE 0)

\* Answers, broken connections, retries and the timeout may cross as they like:
\* each of them brings the call nearer to its end, and once it has its result no
\* late answer changes that.
CallsRunDown ==
  [][\A slot \in DOMAIN flight \intersect DOMAIN flight' :
       flight'[slot] # flight[slot] =>
         /\ flight[slot].phase \in UnderWay
         /\ StepsOfCall(flight'[slot]) < StepsOfCall(flight[slot])]_vars
=============================================================================
