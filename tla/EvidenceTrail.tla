------------------------------- MODULE EvidenceTrail -------------------------------
(***************************************************************************)
(* From the first scan to the evidence package: the scans, one after the   *)
(* other; in each turn the planner's batch, the router's verdicts, the     *)
(* parallel calls, their answers merged into the evidence, the judgement   *)
(* that cites it; and the package that is built at the end                 *)
(* (graph/deterministic_nodes.py, graph/live_nodes.py, graph/state.py,     *)
(* tools/normalizer.py, schemas/evidence_package.py).                      *)
(*                                                                         *)
(* A node of the graph is one action, except where it awaits (the calls of *)
(* a turn, see ToolCalls) or loops (one answer is normalized per step).    *)
(* Collector has the limits of the graph; here is what the calls hold.     *)
(***************************************************************************)
EXTENDS ToolCalls, Sequences

CONSTANTS
  Scans,               \* the scans a plan may hold, as questions
  ScansPlanned,        \* how many
  Proposals,           \* the questions a planner may ask
  LongTexts,           \* the texts of questions that are too long for a purpose
  UnusableProposals,   \* how many items of a plan, or of a judgement, may be dropped
  Citations,           \* how many pieces of evidence one judgement cites
  MaxIterations,       \* limits.max_iterations
  MaxRoutingAttempts,  \* MAX_ROUTING_ATTEMPTS
  BatchCapacity,       \* InvestigationState: questions, calls, observations
  EvidenceCapacity,    \* EVIDENCE_CAPACITY
  UnknownsCapacity,    \* UNKNOWNS_CAPACITY
  FactsCapacity        \* KNOWN_FACTS_CAPACITY

\* An observation question; its text is the purpose of the call that answers it.
\* generic is generic_fallback_allowed, which is only kept for generic tools.
Questions(texts) ==
  [tool : Tools, text : texts, host : Hosts \union {NoHost},
   scope : {"historical", "current", "timeless"}, generic : BOOLEAN, arguments : Arguments]

Texts == {proposal.text : proposal \in Proposals \union Scans}

ASSUME EvidenceAssumption ==
  /\ IsFiniteSet(Hosts)
  /\ Proposals \subseteq Questions(Texts)
  /\ Scans \subseteq Questions(Texts)
  /\ ScansPlanned \in Nat
  /\ UnusableProposals \in Nat
  /\ Citations \in Nat
  /\ MaxIterations \in Nat \ {0}
  /\ MaxRoutingAttempts \in Nat
  /\ BatchCapacity \in Nat \ {0}
  /\ EvidenceCapacity \in Nat \ {0}
  /\ UnknownsCapacity \in Nat \ {0}
  /\ FactsCapacity \in Nat

VARIABLES
  node,        \* the node that runs next, or how the collection ended
  iterations,  \* iteration_count
  attempts,    \* routing_attempts
  stop,        \* a reason to stop is known
  toolCalls,   \* tool_call_count, which is the length of tool_results
  questions,   \* next_questions; while it scans, the scans of the plan
  planned,     \* the questions that planned_tool_calls holds a call for
  filed,       \* the answers of this turn that are normalized, the scans done
  evidence,    \* evidence: an id's latest reading
  facts,       \* known_facts: the readings each was stated on
  support,     \* the readings a hypothesis was last judged on
  unknowns,    \* the entries of unknowns
  dropped      \* evidence was turned away, a history variable

routing == <<iterations, attempts, questions, planned>>
record == <<evidence, facts, support, unknowns, dropped>>
vars == <<node, stop, toolCalls, filed, flight, routing, record>>

\* scanning is establish_phenomenon once it has its plan.
GraphNodes ==
  {"establish_phenomenon", "scanning", "observation_planner", "tool_router", "tool_executor", "evidence_normalizer",
   "hypothesis_updater", "stop_guard", "evidence_package_builder"}
Ends == {"report_writer", "raised", "invalid"}

\* A call's id: the turn it was made in, 0 for the scan, and its place in the plan.
CallIds == Nat \X (Nat \ {0})
CallId(slot) == <<iterations, slot>>

\* Where a piece of evidence came from: its call, the host it is filed under,
\* and whether the answer it was part of is known to be cut.
Items == [call : CallIds, host : Hosts, partial : BOOLEAN]

\* The entries the properties tell apart; the others are only counted.
Superseded(id) == <<"evidence_superseded", id>>
Truncated(call) == <<"result_truncated", call>>
AtCapacity == <<"evidence_capacity_reached">>

TypeOK ==
  /\ node \in GraphNodes \union Ends
  /\ iterations \in Nat /\ attempts \in Nat /\ toolCalls \in Nat
  /\ stop \in BOOLEAN /\ dropped \in BOOLEAN
  /\ questions \in Seq(Proposals \union Scans) /\ planned \subseteq DOMAIN questions
  /\ DOMAIN flight \subseteq planned /\ \A slot \in DOMAIN flight : flight[slot] \in Calls
  /\ filed \subseteq DOMAIN questions
  /\ IsFiniteSet(DOMAIN evidence) /\ Cardinality(DOMAIN evidence) <= EvidenceCapacity
  /\ \A id \in DOMAIN evidence : evidence[id] \in Items
  /\ DOMAIN unknowns = {"notes", "entries", "notice"}
  /\ unknowns.entries \in 0..UnknownsCapacity - 1 /\ unknowns.notice \in BOOLEAN

\* The hosts are resolved; some of the budget may be spent on looking for them.
Init ==
  /\ node = "establish_phenomenon"
  /\ iterations = 0 /\ attempts = 0 /\ toolCalls \in 0..MaxToolCalls
  /\ stop = FALSE /\ dropped = FALSE
  /\ questions = <<>> /\ planned = {} /\ flight = <<>> /\ filed = {}
  /\ evidence = <<>> /\ facts = {} /\ support = <<>>
  /\ unknowns = [notes |-> {}, entries |-> 0, notice |-> FALSE]
-----------------------------------------------------------------------------
(* The unknowns. *)

\* Altered: the list is filled before the notice is added.
Noted_NoticeOnTop(notes, others) ==
  LET room == UnknownsCapacity - unknowns.entries
      added == Cardinality(notes) + others
  IN  IF added <= room
        THEN {[unknowns EXCEPT !.notes = @ \union notes, !.entries = @ + added]}
        ELSE {[notes |-> unknowns.notes \union kept, entries |-> UnknownsCapacity, notice |-> TRUE] :
                kept \in {some \in SUBSET notes :
                            Cardinality(some) <= room /\ room <= Cardinality(some) + others}}

\* Altered: rebuilding a list that fits takes an earlier notice away.
Noted_NoticeLost(notes, others) ==
  LET room == UnknownsCapacity - 1 - unknowns.entries
      added == Cardinality(notes) + others
  IN  IF added <= room
        THEN {[notes |-> unknowns.notes \union notes, entries |-> unknowns.entries + added, notice |-> FALSE]}
        ELSE {[notes |-> unknowns.notes \union kept, entries |-> UnknownsCapacity - 1, notice |-> TRUE] :
                kept \in {some \in SUBSET notes :
                            Cardinality(some) <= room /\ room <= Cardinality(some) + others}}

\* What unknowns can be once these notes and so many other entries are appended.
\* The next node rebuilds the state: it keeps what came first, one entry short
\* of the capacity, and ends the list with a notice.
Noted(notes, others) ==
  LET room == UnknownsCapacity - 1 - unknowns.entries
      added == Cardinality(notes) + others
  IN  IF added <= room
        THEN {[unknowns EXCEPT !.notes = @ \union notes, !.entries = @ + added]}
        ELSE {[notes |-> unknowns.notes \union kept, entries |-> UnknownsCapacity - 1, notice |-> TRUE] :
                kept \in {some \in SUBSET notes :
                            Cardinality(some) <= room /\ room <= Cardinality(some) + others}}

-----------------------------------------------------------------------------
(* Planning and routing. *)

AtMost(a, b) == IF a < b THEN a ELSE b

Batches(choices, size) == UNION {[1..n -> choices] : n \in 0..size}

\* Proposals that name no hypothesis or cannot be read are dropped with an entry
\* each; the others become questions, as many as the budget holds.  With a
\* reason to stop nothing is asked.
PlanObservations ==
  /\ node = "observation_planner"
  /\ node' = "tool_router"
  /\ \/ /\ stop
        /\ UNCHANGED <<iterations, stop, questions, planned, flight, filed, unknowns>>
     \/ /\ ~stop
        /\ iterations' = iterations + 1
        /\ questions' \in Batches(Proposals, AtMost(BatchCapacity, MaxToolCalls - toolCalls))
        /\ \E unusable \in 0..UnusableProposals : unknowns' \in Noted({}, unusable)
        /\ stop' = (questions' = <<>>)
        /\ planned' = {} /\ flight' = <<>> /\ filed' = {}
  /\ UNCHANGED <<attempts, toolCalls, evidence, facts, support, dropped>>

\* The context of a question, given how many calls come before its own.
ContextOf(question, before) ==
  [scope |-> question.scope, generic |-> question.generic, calls |-> toolCalls + before]

Before(slot, slots) == Cardinality({other \in slots : other < slot})

\* Which questions get a call: each is judged with the calls planned before it
\* already spent.
Routed(slots) ==
  slots = {slot \in DOMAIN questions :
             LET question == questions[slot]
             IN  Verdict(question.tool, question.arguments,
                         ContextOf(question, Before(slot, slots)),
                         CatalogScope(question.tool)) = "allowed"}

Retryable(slot) ==
  LET question == questions[slot]
  IN  Verdict(question.tool, question.arguments, ContextOf(question, 0),
              CatalogScope(question.tool)) = "retryable"

RouteCalls ==
  /\ node = "tool_router"
  /\ planned' \in {slots \in SUBSET DOMAIN questions : Routed(slots)}
  /\ planned' # {}
  /\ \A slot \in planned' : questions[slot].text \notin LongTexts
  /\ attempts' = 0
  /\ unknowns' \in Noted({}, Cardinality(DOMAIN questions \ planned'))
  /\ node' = "tool_executor"
  /\ UNCHANGED <<iterations, stop, toolCalls, questions, flight, filed, evidence, facts, support, dropped>>

\* A question may be longer than the purpose of a call: planning it raises.
RouteTooLong ==
  /\ node = "tool_router"
  /\ \E slots \in SUBSET DOMAIN questions :
       Routed(slots) /\ \E slot \in slots : questions[slot].text \in LongTexts
  /\ node' = "raised"
  /\ UNCHANGED <<stop, toolCalls, filed, flight, routing, record>>

\* A plan without a call goes back to the planner if a better one could be made
\* of a refused question, MaxRoutingAttempts times in a row.
RouteNothing ==
  /\ node = "tool_router"
  /\ Routed({})
  /\ LET again == /\ \E slot \in DOMAIN questions : Retryable(slot)
                  /\ attempts < MaxRoutingAttempts
     IN  /\ attempts' = IF questions = <<>> THEN attempts ELSE attempts + 1
         /\ stop' = ~again
         /\ questions' = IF again THEN <<>> ELSE questions
         /\ node' = IF again THEN "observation_planner" ELSE "evidence_package_builder"
  /\ unknowns' \in Noted({}, Len(questions))
  /\ UNCHANGED <<iterations, toolCalls, planned, flight, filed, evidence, facts, support, dropped>>

-----------------------------------------------------------------------------
(* The calls. *)

SamePair(slot, other) ==
  /\ questions[slot].tool = questions[other].tool
  /\ questions[slot].text = questions[other].text

\* Altered: keyed by the tool alone, as it once was.
Asked_ByTool(slot) ==
  LET alike == {other \in DOMAIN questions : questions[slot].tool = questions[other].tool}
  IN  questions[CHOOSE last \in alike : \A other \in alike : other <= last]

\* The dictionary of what was asked: of two questions with the same tool and
\* text the last one stays, whichever of them was allowed.
Asked(slot) ==
  LET alike == {other \in DOMAIN questions : SamePair(slot, other)}
  IN  questions[CHOOSE last \in alike : \A other \in alike : other <= last]

\* gather starts every planned call, in its own question's context.
StartCalls ==
  /\ node = "tool_executor"
  /\ flight = <<>>
  /\ flight' = [slot \in planned |->
       Started(questions[slot].tool, questions[slot].arguments,
               ContextOf(Asked(slot), Before(slot, planned)))]
  /\ UNCHANGED <<node, stop, toolCalls, filed, routing, record>>

InFlight(slot) == node \in {"scanning", "tool_executor"} /\ slot \in DOMAIN flight

Elsewhere == <<node, stop, toolCalls, filed, routing, record>>

ServeCall == \E slot \in DOMAIN flight :
  InFlight(slot) /\ Serve(slot, questions[slot].tool) /\ UNCHANGED Elsewhere
ReturnCall == \E slot \in DOMAIN flight : 
  InFlight(slot) /\ Return(slot, questions[slot].tool) /\ UNCHANGED Elsewhere
BreakCall == \E slot \in DOMAIN flight : InFlight(slot) /\ Break(slot) /\ UNCHANGED Elsewhere
RetryCall == \E slot \in DOMAIN flight : InFlight(slot) /\ Retry(slot) /\ UNCHANGED Elsewhere
TimeoutCall == \E slot \in DOMAIN flight : InFlight(slot) /\ Timeout(slot) /\ UNCHANGED Elsewhere

Answered == {slot \in DOMAIN flight : flight[slot].phase \in Returned}
Status(slot) == StatusOf(slot, questions[slot].tool)
Partial(slot) == Status(slot) = "partial"

\* All calls are over: what returned is counted and kept, what raised or went
\* wrong is an entry, and an answer that was cut is marked as such.
CollectAnswers ==
  /\ node = "tool_executor"
  /\ DOMAIN flight = planned
  /\ \A slot \in planned : Settled(slot) /\ flight[slot].phase # "verbose"
  /\ toolCalls' = toolCalls + Cardinality(Answered)
  /\ LET cut == {slot \in Answered : Partial(slot)}
         wrong == {slot \in planned : slot \notin Answered \/ Status(slot) = "error"}
         oversized == {slot \in Answered :
                         flight[slot].phase = "answered" /\ flight[slot].answer.oversized}
     IN  unknowns' \in Noted({Truncated(CallId(slot)) : slot \in cut},
                             Cardinality(wrong) + Cardinality(oversized))
  /\ node' = "evidence_normalizer"
  /\ UNCHANGED <<stop, filed, flight, routing, evidence, facts, support, dropped>>

\* One error that no entry holds raises out of the node: the other answers of
\* the turn are lost with it.
LoseAnswers ==
  /\ node = "tool_executor"
  /\ DOMAIN flight = planned
  /\ \A slot \in planned : Settled(slot)
  /\ \E slot \in planned : flight[slot].phase = "verbose"
  /\ node' = "raised"
  /\ UNCHANGED <<stop, toolCalls, filed, flight, routing, record>>

-----------------------------------------------------------------------------
(* The evidence. *)

\* Altered: the k-th answer belongs to the k-th call, although one that raised
\* left no answer.
PlanFor_ByPosition(slot) ==
  CHOOSE plan \in planned : Before(plan, planned) = Before(slot, Answered)

\* The first call of the plan with the tool and the text of the answer's own.
PlanFor(slot) ==
  LET alike == {other \in planned : SamePair(slot, other)}
  IN  CHOOSE first \in alike : \A other \in alike : first <= other

\* The host an answer is filed under: the one its question names, or the only one.
HostFor(plan) ==
  IF questions[plan].host = NoHost /\ Cardinality(Hosts) = 1
    THEN CHOOSE host \in Hosts : TRUE
    ELSE questions[plan].host

\* Altered: at the capacity the newest evidence is kept.
Merge_Evicts(ids, item, others) ==
  LET held == DOMAIN evidence
      room == EvidenceCapacity - Cardinality(ids)
  IN  \E kept \in SUBSET (held \ ids) :
        /\ Cardinality(kept) = AtMost(room, Cardinality(held \ ids))
        /\ evidence' = [id \in kept \union ids |-> IF id \in ids THEN item ELSE evidence[id]]
        /\ dropped' = (dropped \/ kept # held \ ids)
        /\ unknowns' \in Noted({Superseded(id) : id \in ids \intersect held}
                                 \union (IF kept # held \ ids THEN {AtCapacity} ELSE {}), others)

\* merge_evidence.  An id that is there is overwritten with an entry that says
\* so; of the new ones only those that fit are kept, with one entry for the rest.
Merge(ids, item, others) ==
  LET held == DOMAIN evidence
      fresh == ids \ held
      room == EvidenceCapacity - Cardinality(held)
  IN  \E kept \in SUBSET fresh :
        /\ Cardinality(kept) = AtMost(room, Cardinality(fresh))
        /\ evidence' = [id \in held \union kept |-> IF id \in ids THEN item ELSE evidence[id]]
        /\ dropped' = (dropped \/ kept # fresh)
        /\ unknowns' \in Noted({Superseded(id) : id \in ids \intersect held}
                                 \union (IF kept # fresh THEN {AtCapacity} ELSE {}), others)

\* The answer that is normalized next.
NextAnswer == CHOOSE slot \in Answered \ filed : \A other \in Answered \ filed : slot <= other

\* One answer becomes evidence, under the plan and the host it is matched to.
\* An answer the evidence schema does not accept raises out of the node.
FileAnswer(slot, plan, others) ==
  LET answer == flight[slot].answer
      host == HostFor(plan)
      ids == IF flight[slot].phase = "failed" THEN {}
             ELSE ItemIds(questions[slot].tool, Status(slot), answer, host, questions[plan].arguments)
  IN  IF host = NoHost
        THEN /\ unknowns' \in Noted({}, 1)
             /\ UNCHANGED <<node, evidence, dropped>>
        ELSE IF ids # {} /\ ~answer.valid
        THEN /\ node' = "raised"
             /\ UNCHANGED <<evidence, unknowns, dropped>>
        ELSE /\ Merge(ids, [call |-> CallId(slot), host |-> host, partial |-> Partial(slot)], others)
             /\ UNCHANGED node

\* The node takes the answers in the order of the plan.
NormalizeAnswer ==
  /\ node = "evidence_normalizer"
  /\ Answered \ filed # {}
  /\ FileAnswer(NextAnswer, PlanFor(NextAnswer), 0)
  /\ filed' = filed \union {NextAnswer}
  /\ UNCHANGED <<stop, toolCalls, flight, routing, facts, support>>

\* The last answer is in; a turn without any ends the loop with a fatal error.
FinishEvidence ==
  /\ node = "evidence_normalizer"
  /\ Answered \subseteq filed
  /\ stop' = (Answered = {})
  /\ node' = IF Answered = {} THEN "stop_guard" ELSE "hypothesis_updater"
  /\ UNCHANGED <<toolCalls, filed, flight, routing, record>>

\* Pieces of evidence as they are now.
Read(ids) == [id \in ids |-> evidence[id].call]

\* The judgement cites evidence of any turn: as what a hypothesis rests on, and
\* for a new fact, which is kept while there is room for it.  Its updates of no
\* hypothesis, ids used again and facts without evidence are dropped with an
\* entry each; a fact that does not fit leaves the notice.
UpdateHypotheses ==
  /\ node = "hypothesis_updater"
  /\ \E cited \in {some \in SUBSET DOMAIN evidence : Cardinality(some) <= Citations},
        noted \in UNION {Noted({}, unusable) : unusable \in 0..UnusableProposals} :
       /\ support' \in {support, Read(cited)}
       /\ LET fact == Read(cited)
              fits == Cardinality(facts) < FactsCapacity
          IN  \/ /\ UNCHANGED facts
                 /\ unknowns' = noted
              \/ /\ cited # {} /\ fits
                 /\ facts' = facts \union {fact}
                 /\ unknowns' = noted
              \/ /\ cited # {} /\ ~fits /\ fact \notin facts
                 /\ UNCHANGED facts
                 /\ unknowns' = [noted EXCEPT !.notice = TRUE]
  /\ stop' \in BOOLEAN
  /\ node' = "stop_guard"
  /\ UNCHANGED <<toolCalls, filed, flight, routing, evidence, dropped>>

\* Altered: a limit has to be passed.
StopGuard_Passed ==
  /\ node = "stop_guard"
  /\ \E late \in BOOLEAN :
       stop' = (stop \/ toolCalls > MaxToolCalls \/ iterations > MaxIterations \/ late)
  /\ node' = IF stop' THEN "evidence_package_builder" ELSE "observation_planner"
  /\ UNCHANGED <<toolCalls, filed, flight, routing, record>>

\* A limit that is reached, the clock's among them, is a reason to stop.
StopGuard ==
  /\ node = "stop_guard"
  /\ \E late \in BOOLEAN :
       stop' = (stop \/ toolCalls >= MaxToolCalls \/ iterations >= MaxIterations \/ late)
  /\ node' = IF stop' THEN "evidence_package_builder" ELSE "observation_planner"
  /\ UNCHANGED <<toolCalls, filed, flight, routing, record>>

\* The package refuses references to evidence it does not hold.
BuildPackage ==
  /\ node = "evidence_package_builder"
  /\ LET cited == DOMAIN support \union UNION {DOMAIN fact : fact \in facts}
     IN  node' = IF cited \subseteq DOMAIN evidence THEN "report_writer" ELSE "invalid"
  /\ UNCHANGED <<stop, toolCalls, filed, flight, routing, record>>

-----------------------------------------------------------------------------
(* The scan. *)

PlanScans ==
  /\ node = "establish_phenomenon"
  /\ questions' \in Batches(Scans, ScansPlanned)
  /\ node' = "scanning"
  /\ UNCHANGED <<iterations, attempts, planned, stop, toolCalls, filed, flight, record>>

\* The scan whose turn it is: they are taken in order, and each is done before
\* the next one starts.
NextScan == Cardinality(filed) + 1
Scanning == node = "scanning" /\ NextScan \in DOMAIN questions /\ NextScan \notin DOMAIN flight

\* A scan names a host nobody resolved, or its arguments cannot be read.
SkipScan ==
  /\ Scanning
  /\ filed' = filed \union {NextScan}
  /\ unknowns' \in Noted({}, 1)
  /\ UNCHANGED <<node, stop, toolCalls, flight, routing, evidence, facts, support, dropped>>

\* The budget is spent: the scans that are left are not made.
EndScans ==
  /\ Scanning
  /\ questions[NextScan].host \in Hosts
  /\ toolCalls >= MaxToolCalls
  /\ filed' = DOMAIN questions
  /\ unknowns' \in Noted({}, 1)
  /\ UNCHANGED <<node, stop, toolCalls, flight, routing, evidence, facts, support, dropped>>

\* Generic tools are free to a scan.  A refusal is an entry; anything else the
\* adapter raises leaves the graph.
StartScan ==
  /\ Scanning
  /\ toolCalls < MaxToolCalls
  /\ LET scan == questions[NextScan]
         call == Started(scan.tool, scan.arguments,
                         [scope |-> "timeless", generic |-> TRUE, calls |-> toolCalls])
     IN  /\ scan.host \in Hosts
         /\ \/ /\ call.phase = "refused"
               /\ filed' = filed \union {NextScan}
               /\ unknowns' \in Noted({}, 1)
               /\ UNCHANGED <<node, planned, flight>>
            \/ /\ call.phase = "clashed"
               /\ node' = "raised"
               /\ UNCHANGED <<planned, filed, unknowns, flight>>
            \/ /\ call.phase = "sent"
               /\ planned' = {NextScan}
               /\ flight' = [slot \in {NextScan} |-> call]
               /\ UNCHANGED <<node, filed, unknowns>>
  /\ UNCHANGED <<iterations, attempts, questions, stop, toolCalls, evidence, facts, support, dropped>>

\* Each scan is counted and merged before the next is made.
FileScan ==
  /\ node = "scanning"
  /\ \E slot \in DOMAIN flight :
       /\ slot = NextScan
       /\ flight[slot].phase \in Returned
       /\ toolCalls' = toolCalls + 1
       /\ filed' = filed \union {slot}
       /\ FileAnswer(slot, slot, IF Status(slot) = "error" THEN 1 ELSE 0)
  /\ UNCHANGED <<stop, flight, routing, facts, support>>

\* An error that no result or no entry holds raises here, too.
LoseScan ==
  /\ node = "scanning"
  /\ NextScan \in DOMAIN flight
  /\ flight[NextScan].phase \in {"verbose", "unrecorded"}
  /\ node' = "raised"
  /\ UNCHANGED <<stop, toolCalls, filed, flight, routing, record>>

\* The hypotheses are planned on what the scans brought; without any there is
\* a reason to stop.
FinishScan ==
  /\ node = "scanning"
  /\ DOMAIN questions \subseteq filed
  /\ stop' \in BOOLEAN
  /\ questions' = <<>> /\ planned' = {} /\ flight' = <<>> /\ filed' = {}
  /\ node' = "observation_planner"
  /\ UNCHANGED <<iterations, attempts, toolCalls, record>>

-----------------------------------------------------------------------------

Done == node \in Ends /\ UNCHANGED vars

Next ==
  \/ PlanScans \/ SkipScan \/ EndScans \/ StartScan \/ FileScan \/ LoseScan \/ FinishScan
  \/ PlanObservations \/ RouteCalls \/ RouteTooLong \/ RouteNothing
  \/ StartCalls \/ ServeCall \/ ReturnCall \/ BreakCall \/ RetryCall \/ TimeoutCall
  \/ CollectAnswers \/ LoseAnswers
  \/ NormalizeAnswer \/ FinishEvidence \/ UpdateHypotheses \/ StopGuard \/ BuildPackage
  \/ Done

Spec == Init /\ [][Next]_vars

\* What the event loop keeps running: every node, and the clock of every call
\* under way.  Servers and connections owe nothing.
NodeStep ==
  \/ PlanScans \/ SkipScan \/ EndScans \/ StartScan \/ FileScan \/ LoseScan \/ FinishScan
  \/ PlanObservations \/ RouteCalls \/ RouteTooLong \/ RouteNothing
  \/ StartCalls \/ CollectAnswers \/ LoseAnswers
  \/ NormalizeAnswer \/ FinishEvidence \/ UpdateHypotheses \/ StopGuard \/ BuildPackage

LiveSpec == Spec /\ WF_vars(NodeStep) /\ WF_vars(TimeoutCall)

-----------------------------------------------------------------------------
(* Safety. *)

\* A question is told apart by its tool and its text.
Unambiguous(slot) == \A other \in DOMAIN questions : SamePair(slot, other) => other = slot

\* What the router allowed is called: the adapter, which judges the call once
\* more with the context the executor finds for it, does not refuse it, unless
\* two questions of the batch share their tool and their text.
AllowedIsCalled ==
  \A slot \in DOMAIN flight : Unambiguous(slot) => flight[slot].phase # "refused"

\* However requests, answers, broken connections and timeouts cross, a server
\* works on one planned call at most RetryAttempts times, and not at all on one
\* that the adapter stopped before it was sent.
ServedBounded ==
  \A slot \in DOMAIN flight :
    /\ flight[slot].served <= RetryAttempts
    /\ flight[slot].phase \in Unsent => flight[slot].served = 0

\* Nothing a fact or a hypothesis rests on ever leaves the evidence, whatever
\* the capacity does to later answers: the package can always be built.
EvidenceStands ==
  /\ DOMAIN support \subseteq DOMAIN evidence
  /\ \A fact \in facts : DOMAIN fact \subseteq DOMAIN evidence
  /\ node # "invalid"

Admitted(note) == note \in unknowns.notes \/ unknowns.notice

\* What was lost is said: evidence that did not fit, a reading replaced after a
\* fact or a hypothesis was stated on it, an answer of a turn that was cut.  Where
\* the unknowns themselves overflowed, their notice says so instead.
LossesAdmitted ==
  /\ dropped => Admitted(AtCapacity)
  /\ \A reading \in facts \union {support} : \A id \in DOMAIN reading \intersect DOMAIN evidence :
       reading[id] # evidence[id].call => Admitted(Superseded(id))
  /\ \A id \in DOMAIN evidence :
       evidence[id].partial /\ evidence[id].call[1] > 0 => Admitted(Truncated(evidence[id].call))

\* An answer is filed under the host its own question named, though calls that
\* raised leave gaps among the answers.
FiledUnderItsHost ==
  [][\A id \in DOMAIN evidence' :
       id \notin DOMAIN evidence \/ evidence'[id] # evidence[id] =>
         LET slot == evidence'[id].call[2]
         IN  Unambiguous(slot) => evidence'[id].host = HostFor(slot)]_vars

-----------------------------------------------------------------------------
(* The loop this implements. *)

LoopPhase ==
  IF node \in {"establish_phenomenon", "scanning"} THEN "preparing"
  ELSE IF node = "observation_planner" /\ ~stop THEN "planning"
  ELSE IF node = "tool_router" /\ ~stop THEN "routing"
  ELSE IF node = "tool_executor" THEN "calling"
  ELSE IF node \in {"evidence_normalizer", "hypothesis_updater", "stop_guard"} THEN "judging"
  ELSE "ended"

Loop == INSTANCE CollectionLoop WITH
  MaxTurns <- MaxIterations, MaxCalls <- MaxToolCalls, MaxRetries <- MaxRoutingAttempts,
  phase <- LoopPhase, turns <- iterations, retries <- attempts, calls <- toolCalls

\* However calls are scanned, routed, sent, served, broken and answered, they are
\* steps of the loop that Collector takes: the answers of a batch never pass the
\* budget it was planned on, and no turn is added by a call that fails.
ImplementsLoop == Loop!LoopSpec

-----------------------------------------------------------------------------
(* Liveness. *)

\* The collection ends, though servers may never answer.
CollectionEnds == <>(node \in Ends)
=============================================================================
