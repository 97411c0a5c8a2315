------------------------------- MODULE EvidenceProofs -------------------------------
(***************************************************************************)
(* Theorems about EvidenceTrail, for any questions, answers and limits.    *)
(***************************************************************************)
EXTENDS EvidenceInvariants, FiniteSetTheorems, WellFoundedInduction, TLAPS

-----------------------------------------------------------------------------
(* Numbers and finite sets. *)

LEMMA Smallest ==
  ASSUME NEW S, S \subseteq Nat, S # {}
  PROVE  \E x \in S : \A y \in S : x <= y
PROOF
  <1>1. PICK x \in S : \A y \in S : <<y, x>> \notin OpToRel(<, Nat)
    BY NatLessThanWellFounded, WFMin
  <1>2. \A y \in S : ~(y < x)
    BY <1>1 DEF OpToRel
  <1> QED BY <1>2

LEMMA ImageFinite ==
  ASSUME NEW S, IsFiniteSet(S), NEW f, DOMAIN f = S
  PROVE  IsFiniteSet({f[x] : x \in S})
PROOF
  <1> DEFINE T == {f[x] : x \in S}
             g == [x \in S |-> f[x]]
  <1>1. g \in Surjection(S, T)
    BY DEF Surjection
  <1> QED BY <1>1, FS_Surjection

LEMMA ItemIdsFinite ==
  ASSUME NEW tool, NEW status, NEW response, NEW host, NEW arguments,
         response.rows \subseteq Rows
  PROVE  IsFiniteSet(ItemIds(tool, status, response, host, arguments))
PROOF
  <1> DEFINE ids == ItemIds(tool, status, response, host, arguments)
             request == Widened(tool, arguments)
  <1>1. IsFiniteSet(response.rows)
    BY RegistryAssumption, FS_Subset
  <1>2. \/ ids = {} \/ \E id : ids = {id}
        \/ ids = {<<"event", row>> : row \in response.rows}
        \/ ids = {<<"metric", row, request>> : row \in {r \in response.rows : response.field = "series"}}
    <2>1. CASE status = "error"
      BY <2>1 DEF ItemIds
    <2>2. CASE status # "error" /\ response.shape # "object"
      BY <2>2 DEF ItemIds
    <2>3. CASE status # "error" /\ response.shape = "object"
      <3> DEFINE listed == response.field = "events" /\ response.rows # {}
      <3>1. CASE tool \in EventTools /\ listed
        BY <2>3, <3>1 DEF ItemIds, EventIds, EventTools
      <3>2. CASE tool \in EventTools /\ ~listed
        BY <2>3, <3>2 DEF ItemIds, EventIds, EventTools
      <3>3. CASE tool \notin EventTools
        BY <2>3, <3>3 DEF ItemIds, SeriesIds, EventTools
      <3> QED BY <3>1, <3>2, <3>3
    <2> QED BY <2>1, <2>2, <2>3
  <1>3. IsFiniteSet({<<"event", row>> : row \in response.rows})
    <2> DEFINE f == [row \in response.rows |-> <<"event", row>>]
    <2>1. IsFiniteSet({f[row] : row \in response.rows})
      BY <1>1, ImageFinite
    <2> QED BY <2>1
  <1>4. IsFiniteSet({<<"metric", row, request>> : row \in {r \in response.rows : response.field = "series"}})
    <2> DEFINE rows == {r \in response.rows : response.field = "series"}
               f == [row \in rows |-> <<"metric", row, request>>]
    <2>1. IsFiniteSet(rows)
      BY <1>1, FS_Subset
    <2>2. IsFiniteSet({f[row] : row \in rows})
      BY <2>1, ImageFinite
    <2> QED BY <2>2
  <1> QED BY <1>2, <1>3, <1>4, FS_EmptySet, FS_Singleton

-----------------------------------------------------------------------------
(* Questions and slots. *)

LEMMA SlotsFinite ==
  ASSUME TypeOK, NEW slots, slots \subseteq DOMAIN questions
  PROVE  IsFiniteSet(slots) /\ Cardinality(slots) \in Nat
PROOF
  <1>1. DOMAIN questions = 1..Len(questions) /\ Len(questions) \in Nat
    BY DEF TypeOK
  <1>2. IsFiniteSet(slots)
    <2>1. IsFiniteSet(1..Len(questions))
      BY <1>1, FS_Interval
    <2> QED BY <1>1, <2>1, FS_Subset
  <1> QED BY <1>2, FS_CardinalityType

LEMMA QuestionTypes ==
  ASSUME TypeOK, NEW slot \in DOMAIN questions
  PROVE  /\ slot \in Nat \ {0}
         /\ questions[slot].tool \in Tools
         /\ questions[slot].host \in Hosts \union {NoHost}
PROOF
  <1>1. questions[slot] \in Proposals \union Scans /\ slot \in Nat \ {0}
    BY DEF TypeOK
  <1>2. questions[slot] \in Questions(Texts)
    BY <1>1, EvidenceAssumption
  <1> QED BY <1>1, <1>2 DEF Questions

LEMMA BatchTypes ==
  ASSUME NEW choices, NEW size, NEW batch \in Batches(choices, size)
  PROVE  batch \in Seq(choices)
BY DEF Batches

LEMMA PlanForSlot ==
  ASSUME TypeOK, NEW slot \in planned
  PROVE  PlanFor(slot) \in planned /\ (Unambiguous(slot) => PlanFor(slot) = slot)
PROOF
  <1> DEFINE alike == {other \in planned : SamePair(slot, other)}
  <1>1. alike \subseteq Nat /\ slot \in alike
    BY QuestionTypes DEF TypeOK, SamePair
  <1>2. \E first \in alike : \A other \in alike : first <= other
    BY <1>1, Smallest
  <1>3. PlanFor(slot) \in alike
    BY <1>2 DEF PlanFor
  <1>4. Unambiguous(slot) => \A other \in alike : other = slot
    BY DEF Unambiguous, TypeOK
  <1> QED BY <1>3, <1>4

LEMMA NextAnswerIs ==
  ASSUME TypeOK, Answered \ filed # {}
  PROVE  NextAnswer \in Answered \ filed
PROOF
  <1>1. Answered \ filed \subseteq Nat
    BY QuestionTypes DEF TypeOK, Answered
  <1>2. \E slot \in Answered \ filed : \A other \in Answered \ filed : slot <= other
    BY <1>1, Smallest
  <1> QED BY <1>2 DEF NextAnswer

LEMMA HostForPlan ==
  ASSUME TypeOK, NEW plan \in planned, HostFor(plan) # NoHost
  PROVE  HostFor(plan) \in Hosts
PROOF
  <1>1. questions[plan].host \in Hosts \union {NoHost}
    BY QuestionTypes DEF TypeOK
  <1>2. Cardinality(Hosts) = 1 => Hosts # {}
    BY FS_EmptySet
  <1> QED BY <1>1, <1>2 DEF HostFor

LEMMA AskedIsOwn ==
  ASSUME TypeOK, NEW slot \in DOMAIN questions, Unambiguous(slot)
  PROVE  Asked(slot) = questions[slot]
PROOF
  <1> DEFINE alike == {other \in DOMAIN questions : SamePair(slot, other)}
  <1>1. alike = {slot}
    BY DEF Unambiguous, SamePair
  <1>2. \A other \in alike : other <= slot
    BY <1>1, QuestionTypes
  <1>3. (CHOOSE last \in alike : \A other \in alike : other <= last) = slot
    BY <1>1, <1>2
  <1> QED BY <1>3 DEF Asked

-----------------------------------------------------------------------------
(* The unknowns. *)

UnknownsOk ==
  /\ DOMAIN unknowns = {"notes", "entries", "notice"}
  /\ unknowns.entries \in 0..UnknownsCapacity - 1 /\ unknowns.notice \in BOOLEAN

\* What was admitted stays admitted.
UnknownsGrow == \A note : Admitted(note) => Admitted(note)'

LEMMA NotedKeeps ==
  ASSUME UnknownsOk, NEW notes, IsFiniteSet(notes), NEW others \in Nat,
         unknowns' \in Noted(notes, others)
  PROVE  /\ UnknownsOk'
         /\ UnknownsGrow
         /\ \A note \in notes : Admitted(note)'
PROOF
  <1> DEFINE room == UnknownsCapacity - 1 - unknowns.entries
             added == Cardinality(notes) + others
  <1>1. room \in Nat /\ added \in Nat /\ UnknownsCapacity - 1 \in Nat
    BY EvidenceAssumption, FS_CardinalityType DEF UnknownsOk
  <1>2. CASE added <= room
    <2>1. unknowns' = [unknowns EXCEPT !.notes = @ \union notes, !.entries = @ + added]
      BY <1>2 DEF Noted
    <2>2. /\ unknowns'.notes = unknowns.notes \union notes
          /\ unknowns'.entries = unknowns.entries + added
          /\ unknowns'.notice = unknowns.notice
          /\ DOMAIN unknowns' = DOMAIN unknowns
      BY <2>1 DEF UnknownsOk
    <2>3. unknowns'.entries \in 0..UnknownsCapacity - 1
      BY <1>1, <1>2, <2>2 DEF UnknownsOk
    <2> QED BY <2>2, <2>3 DEF UnknownsOk, UnknownsGrow, Admitted
  <1>3. CASE ~(added <= room)
    <2>1. PICK kept \in SUBSET notes :
            unknowns' = [notes |-> unknowns.notes \union kept, entries |-> UnknownsCapacity - 1, notice |-> TRUE]
      BY <1>3 DEF Noted
    <2> QED BY <1>1, <2>1 DEF UnknownsOk, UnknownsGrow, Admitted
  <1> QED BY <1>2, <1>3

\* The same of entries that are only counted, whether or not something else that
\* did not fit adds the notice.
LEMMA NoticeKeeps ==
  ASSUME UnknownsOk, NEW others \in Nat, NEW noted \in Noted({}, others),
         unknowns' \in {noted, [noted EXCEPT !.notice = TRUE]}
  PROVE  UnknownsOk' /\ UnknownsGrow
PROOF
  <1>1. /\ DOMAIN noted = {"notes", "entries", "notice"}
        /\ noted.entries \in 0..UnknownsCapacity - 1 /\ noted.notice \in BOOLEAN
        /\ noted.notes = unknowns.notes
        /\ unknowns.notice => noted.notice
    <2> DEFINE room == UnknownsCapacity - 1 - unknowns.entries
    <2>1. room \in Nat /\ UnknownsCapacity - 1 \in Nat /\ unknowns.entries \in Nat
      BY EvidenceAssumption DEF UnknownsOk
    <2>2. Cardinality({}) + others = others
      BY FS_EmptySet
    <2>3. CASE others <= room
      <3>1. noted = [unknowns EXCEPT !.notes = @ \union {}, !.entries = @ + (Cardinality({}) + others)]
        BY <2>2, <2>3 DEF Noted
      <3> QED BY <2>1, <2>2, <2>3, <3>1 DEF UnknownsOk
    <2>4. CASE ~(others <= room)
      <3>1. PICK kept \in SUBSET {} :
              noted = [notes |-> unknowns.notes \union kept, entries |-> UnknownsCapacity - 1, notice |-> TRUE]
        BY <2>2, <2>4 DEF Noted
      <3>2. kept = {}
        BY <3>1
      <3> QED BY <2>1, <3>1, <3>2
    <2> QED BY <2>3, <2>4
  <1> QED BY <1>1 DEF UnknownsOk, UnknownsGrow, Admitted

-----------------------------------------------------------------------------
(* The calls. *)

LEMMA StartedOk ==
  ASSUME NEW tool, NEW arguments, NEW context
  PROVE  LET call == Started(tool, arguments, context)
         IN  /\ call \in Calls /\ CallOk(call)
             /\ call.phase \in {"refused", "clashed", "sent"}
             /\ call.phase = "refused" <=> Verdict(tool, arguments, context, "any") # "allowed"
BY CallsAssumption DEF Started, Calls, CallOk, Phases, UnderWay, Returned, Raised, Unsent

\* Every step of a call under way leaves a call in order that was sent.
LEMMA CallStepOk ==
  ASSUME TypeOK, CallInv, NEW slot \in DOMAIN flight, NEW tool,
         Serve(slot, tool) \/ Return(slot, tool) \/ Break(slot) \/ Retry(slot) \/ Timeout(slot)
  PROVE  \E call \in Calls :
           CallOk(call) /\ call.phase \notin Unsent /\ flight' = [flight EXCEPT ![slot] = call]
PROOF
  <1> DEFINE old == flight[slot]
  <1>1. /\ old = [phase |-> old.phase, attempt |-> old.attempt, served |-> old.served, answer |-> old.answer]
        /\ old.phase \in Phases /\ old.attempt \in Nat /\ old.served \in Nat
        /\ old.answer \in Responses \union {ToolError, Unanswered}
        /\ CallOk(old)
    BY DEF TypeOK, Calls, CallInv
  <1>2. RetryAttempts \in Nat \ {0}
    BY CallsAssumption
  <1> USE DEF Phases, UnderWay, Returned, Raised, Unsent, Worded
  <1>4. CASE Serve(slot, tool)
    <2>1. PICK answer \in Answerable(tool) \union {ToolError} :
            flight' = [flight EXCEPT ![slot] =
              [phase |-> "served", attempt |-> old.attempt, served |-> old.served + 1, answer |-> answer]]
      BY <1>4 DEF Serve
    <2> DEFINE call == [phase |-> "served", attempt |-> old.attempt, served |-> old.served + 1, answer |-> answer]
    <2>2. answer \in Responses \union {ToolError}
      BY CallsAssumption DEF Answerable
    <2>3. old.phase = "sent"
      BY <1>4 DEF Serve
    <2>4. call \in Calls /\ call.phase \notin Unsent
      BY <1>1, <2>2 DEF Calls
    <2>5. CallOk(call)
      <3>1. old.served + 1 <= old.attempt /\ old.attempt <= RetryAttempts
        BY <1>1, <2>3 DEF CallOk
      <3> QED BY <2>2, <3>1 DEF CallOk
    <2> QED BY <2>1, <2>4, <2>5
  <1>5. CASE Return(slot, tool)
    <2>1. PICK phase \in {"answered", "failed", "verbose", "unrecorded"} :
            /\ flight' = [flight EXCEPT ![slot].phase = phase]
            /\ phase = "answered" => old.answer # ToolError
      BY <1>5 DEF Return
    <2> DEFINE call == [phase |-> phase, attempt |-> old.attempt, served |-> old.served, answer |-> old.answer]
    <2>2. old.phase = "served"
      BY <1>5 DEF Return
    <2>3. call \in Calls /\ CallOk(call) /\ call.phase \notin Unsent
      BY <1>1, <1>2, <2>1, <2>2 DEF Calls, CallOk
    <2>4. [old EXCEPT !.phase = phase] = call
      BY <1>1
    <2>5. flight' = [flight EXCEPT ![slot] = call]
      BY <2>1, <2>4
    <2> QED BY <2>3, <2>5
  <1>6. ASSUME NEW served \in ServedAtLast(slot), old.phase \in UnderWay
        PROVE  served \in Nat /\ served <= RetryAttempts /\ served <= old.attempt
    BY <1>1, <1>2, <1>6 DEF ServedAtLast, CallOk
  <1>7. CASE Break(slot)
    <2>1. PICK served \in ServedAtLast(slot), phase \in {"backoff", "failed", "verbose", "unrecorded"} :
            /\ flight' = [flight EXCEPT ![slot] =
                 [phase |-> phase, attempt |-> old.attempt, served |-> served, answer |-> Unanswered]]
            /\ phase = "backoff" => old.attempt < RetryAttempts
      BY <1>7 DEF Break
    <2> DEFINE call == [phase |-> phase, attempt |-> old.attempt, served |-> served, answer |-> Unanswered]
    <2>2. old.phase \in UnderWay
      BY <1>7 DEF Break
    <2>3. call \in Calls /\ CallOk(call) /\ call.phase \notin Unsent
      BY <1>1, <1>2, <1>6, <2>1, <2>2 DEF Calls, CallOk
    <2> QED BY <2>1, <2>3
  <1>8. CASE Retry(slot)
    <2> DEFINE call == [phase |-> "sent", attempt |-> old.attempt + 1, served |-> old.served, answer |-> old.answer]
    <2>1. call \in Calls /\ CallOk(call) /\ call.phase \notin Unsent
      BY <1>1, <1>2, <1>8 DEF Retry, Calls, CallOk
    <2>2. flight' = [flight EXCEPT ![slot] = call]
      BY <1>8 DEF Retry
    <2> QED BY <2>1, <2>2
  <1>9. CASE Timeout(slot)
    <2>1. PICK served \in ServedAtLast(slot) :
            flight' = [flight EXCEPT ![slot] =
              [phase |-> "failed", attempt |-> old.attempt, served |-> served, answer |-> Unanswered]]
      BY <1>9 DEF Timeout
    <2> DEFINE call == [phase |-> "failed", attempt |-> old.attempt, served |-> served, answer |-> Unanswered]
    <2>2. call \in Calls /\ CallOk(call) /\ call.phase \notin Unsent
      BY <1>1, <1>2, <1>6, <1>9 DEF Timeout, Calls, CallOk
    <2> QED BY <2>1, <2>2
  <1> QED BY <1>4, <1>5, <1>7, <1>8, <1>9

-----------------------------------------------------------------------------
(* The evidence. *)

EvidenceOk ==
  /\ IsFiniteSet(DOMAIN evidence) /\ Cardinality(DOMAIN evidence) <= EvidenceCapacity
  /\ \A id \in DOMAIN evidence : evidence[id] \in Items

\* Evidence is only added, or replaced with an entry that says so.
EvidenceGrows(item) ==
  /\ DOMAIN evidence \subseteq DOMAIN evidence'
  /\ \A id \in DOMAIN evidence' :
       \/ id \in DOMAIN evidence /\ evidence'[id] = evidence[id]
       \/ /\ evidence'[id] = item /\ item \in Items
          /\ id \in DOMAIN evidence => Admitted(Superseded(id))'
  /\ dropped' \in BOOLEAN
  /\ dropped' => dropped \/ Admitted(AtCapacity)'

LEMMA MergeGrows ==
  ASSUME UnknownsOk, EvidenceOk, dropped \in BOOLEAN,
         NEW ids, IsFiniteSet(ids), NEW item \in Items, NEW others \in Nat, Merge(ids, item, others)
  PROVE  UnknownsOk' /\ UnknownsGrow /\ EvidenceOk' /\ EvidenceGrows(item)
PROOF
  <1> DEFINE held == DOMAIN evidence
             fresh == ids \ held
             room == EvidenceCapacity - Cardinality(held)
  <1>1. PICK kept \in SUBSET fresh :
          /\ Cardinality(kept) = AtMost(room, Cardinality(fresh))
          /\ evidence' = [id \in held \union kept |-> IF id \in ids THEN item ELSE evidence[id]]
          /\ dropped' = (dropped \/ kept # fresh)
          /\ unknowns' \in Noted({Superseded(id) : id \in ids \intersect held}
                                   \union (IF kept # fresh THEN {AtCapacity} ELSE {}), others)
    BY DEF Merge
  <1>2. IsFiniteSet(fresh) /\ IsFiniteSet(kept) /\ IsFiniteSet(held) /\ IsFiniteSet(ids \intersect held)
    BY FS_Subset DEF EvidenceOk
  <1> DEFINE notes == {Superseded(id) : id \in ids \intersect held}
                        \union (IF kept # fresh THEN {AtCapacity} ELSE {})
  <1>3. IsFiniteSet(notes)
    <2> DEFINE f == [id \in ids \intersect held |-> Superseded(id)]
    <2>1. IsFiniteSet({f[id] : id \in ids \intersect held})
      BY <1>2, ImageFinite
    <2>2. IsFiniteSet({Superseded(id) : id \in ids \intersect held})
      BY <2>1
    <2>3. IsFiniteSet(IF kept # fresh THEN {AtCapacity} ELSE {})
      BY FS_EmptySet, FS_Singleton
    <2> QED BY <2>2, <2>3, FS_Union
  <1>4. UnknownsOk' /\ UnknownsGrow /\ \A note \in notes : Admitted(note)'
    <2> HIDE DEF notes
    <2>1. unknowns' \in Noted(notes, others)
      BY <1>1 DEF notes
    <2> QED BY <1>3, <2>1, NotedKeeps
  <1>5. DOMAIN evidence' = held \union kept
    BY <1>1
  <1>6. IsFiniteSet(held \union kept) /\ Cardinality(held \union kept) <= EvidenceCapacity
    <2>1. held \intersect kept = {}
      OBVIOUS
    <2>2. Cardinality(held \union kept) = Cardinality(held) + Cardinality(kept) - 0
      BY <1>2, <2>1, FS_Union, FS_EmptySet
    <2>3. Cardinality(held) \in Nat /\ Cardinality(kept) \in Nat /\ Cardinality(fresh) \in Nat
      BY <1>2, FS_CardinalityType
    <2>4. Cardinality(kept) <= room
      BY <1>1, <2>3, EvidenceAssumption DEF AtMost
    <2>5. EvidenceCapacity \in Nat
      BY EvidenceAssumption
    <2>6. Cardinality(held \union kept) <= EvidenceCapacity
      <3> HIDE DEF held
      <3> QED BY <2>2, <2>3, <2>4, <2>5
    <2> QED BY <1>2, <2>6, FS_Union
  <1>7. \A id \in DOMAIN evidence' : evidence'[id] \in Items
    BY <1>1 DEF EvidenceOk
  <1>8. ASSUME NEW id \in DOMAIN evidence'
        PROVE  \/ id \in DOMAIN evidence /\ evidence'[id] = evidence[id]
               \/ evidence'[id] = item /\ (id \in DOMAIN evidence => Admitted(Superseded(id))')
    <2>1. CASE id \in ids
      <3>1. evidence'[id] = item
        BY <1>1, <1>8, <2>1
      <3>2. id \in DOMAIN evidence => Superseded(id) \in notes
        BY <2>1
      <3> QED BY <1>4, <3>1, <3>2
    <2>2. CASE id \notin ids
      BY <1>1, <1>8, <2>2
    <2> QED BY <2>1, <2>2
  <1>9. dropped' => dropped \/ Admitted(AtCapacity)'
    BY <1>1, <1>4
  <1> QED BY <1>1, <1>4, <1>5, <1>6, <1>7, <1>8, <1>9 DEF EvidenceOk, EvidenceGrows

Filed(slot, plan) == [call |-> CallId(slot), host |-> HostFor(plan), partial |-> Partial(slot)]

LEMMA FileAnswerGrows ==
  ASSUME TypeOK, CallInv, NEW slot \in Answered, NEW plan \in planned, NEW others \in Nat,
         FileAnswer(slot, plan, others)
  PROVE  /\ UnknownsOk' /\ UnknownsGrow /\ EvidenceOk' /\ EvidenceGrows(Filed(slot, plan))
         /\ node' \in {node, "raised"}
PROOF
  <1> DEFINE answer == flight[slot].answer
             host == HostFor(plan)
             ids == IF flight[slot].phase = "failed" THEN {}
                    ELSE ItemIds(questions[slot].tool, Status(slot), answer, host, questions[plan].arguments)
  <1>1. UnknownsOk /\ EvidenceOk /\ dropped \in BOOLEAN
    BY DEF TypeOK, UnknownsOk, EvidenceOk
  <1>2. CASE host = NoHost
    <2>1. unknowns' \in Noted({}, 1) /\ UNCHANGED <<node, evidence, dropped>>
      BY <1>2 DEF FileAnswer
    <2>2. UnknownsOk' /\ UnknownsGrow
      BY <1>1, <2>1, FS_EmptySet, NotedKeeps
    <2> QED BY <1>1, <2>1, <2>2 DEF EvidenceOk, EvidenceGrows
  <1>3. CASE host # NoHost /\ ids # {} /\ ~answer.valid
    <2>1. node' = "raised" /\ UNCHANGED <<evidence, unknowns, dropped>>
      BY <1>3 DEF FileAnswer
    <2>2. UnknownsOk' /\ UnknownsGrow
      BY <1>1, <2>1 DEF UnknownsOk, UnknownsGrow, Admitted
    <2> QED BY <1>1, <2>1, <2>2 DEF EvidenceOk, EvidenceGrows
  <1>4. CASE host # NoHost /\ ~(ids # {} /\ ~answer.valid)
    <2>1. Merge(ids, Filed(slot, plan), others) /\ UNCHANGED node
      BY <1>4 DEF FileAnswer, Filed
    <2>2. IsFiniteSet(ids)
      <3>1. CASE flight[slot].phase = "failed"
        BY <3>1, FS_EmptySet
      <3>2. CASE flight[slot].phase # "failed"
        <4>1. answer.rows \subseteq Rows
          <5>1. slot \in DOMAIN flight /\ flight[slot].phase = "answered"
            BY <3>2 DEF Answered, Returned
          <5>2. answer \in Responses
            BY <5>1 DEF CallInv, CallOk
          <5> QED BY <5>2 DEF Responses
        <4>2. IsFiniteSet(ItemIds(questions[slot].tool, Status(slot), answer, host, questions[plan].arguments))
          BY <4>1, ItemIdsFinite
        <4> QED BY <3>2, <4>2
      <3> QED BY <3>1, <3>2
    <2>3. Filed(slot, plan) \in Items
      <3>1. host \in Hosts
        BY <1>4, HostForPlan
      <3>2. slot \in Nat \ {0} /\ iterations \in Nat
        BY QuestionTypes DEF TypeOK, Answered
      <3> QED BY <3>1, <3>2 DEF Filed, Items, CallId, CallIds, Partial
    <2> HIDE DEF ids
    <2> QED BY <1>1, <2>1, <2>2, <2>3, MergeGrows
  <1> QED BY <1>2, <1>3, <1>4

-----------------------------------------------------------------------------
(* What a step leaves in order. *)

RoutesOk ==
  /\ questions \in Seq(Proposals \union Scans) /\ planned \subseteq DOMAIN questions
  /\ DOMAIN flight \subseteq planned /\ \A slot \in DOMAIN flight : flight[slot] \in Calls
  /\ filed \subseteq DOMAIN questions

CountsOk ==
  /\ node \in GraphNodes \union Ends
  /\ iterations \in Nat /\ attempts \in Nat /\ toolCalls \in Nat
  /\ stop \in BOOLEAN /\ dropped \in BOOLEAN

LEMMA TypeParts == TypeOK <=> CountsOk /\ RoutesOk /\ EvidenceOk /\ UnknownsOk
BY DEF TypeOK, CountsOk, RoutesOk, EvidenceOk, UnknownsOk

LEMMA TypePartsNext == TypeOK' <=> CountsOk' /\ RoutesOk' /\ EvidenceOk' /\ UnknownsOk'
BY DEF TypeOK, CountsOk, RoutesOk, EvidenceOk, UnknownsOk

CallsOk == CallInv /\ AllowedIsCalled
RecordOk == EvidenceOk /\ UnknownsOk /\ EvidenceStands /\ LossesAdmitted

LEMMA IInvParts == IInv <=> CountsOk /\ RoutesOk /\ CallsOk /\ RecordOk /\ PlanInv /\ CutInv
BY TypeParts DEF IInv, CallsOk, RecordOk

LEMMA IInvPartsNext == IInv' <=> CountsOk' /\ RoutesOk' /\ CallsOk' /\ RecordOk' /\ PlanInv' /\ CutInv'
BY TypePartsNext DEF IInv, CallsOk, RecordOk

LEMMA RoutesKept ==
  ASSUME RoutesOk, CallsOk, UNCHANGED <<questions, planned, flight>>, filed' \subseteq DOMAIN questions
  PROVE  RoutesOk' /\ CallsOk'
BY DEF RoutesOk, CallsOk, CallInv, CallOk, AllowedIsCalled, Unambiguous, SamePair

LEMMA NothingInFlight ==
  ASSUME flight' = <<>>
  PROVE  CallsOk' /\ DOMAIN flight' = {}
BY DEF CallsOk, CallInv, AllowedIsCalled

LEMMA RecordKept ==
  ASSUME RecordOk, UnknownsOk', UnknownsGrow, UNCHANGED <<evidence, facts, support, dropped>>,
         node' # "invalid"
  PROVE  RecordOk'
PROOF
  <1>1. EvidenceOk' /\ EvidenceStands'
    BY DEF RecordOk, EvidenceOk, EvidenceStands
  <1>2. LossesAdmitted'
    BY DEF RecordOk, LossesAdmitted, UnknownsGrow
  <1> QED BY <1>1, <1>2 DEF RecordOk

LEMMA RecordGrows ==
  ASSUME RecordOk, UnknownsOk', UnknownsGrow, EvidenceOk', NEW item, EvidenceGrows(item),
         item.partial /\ item.call[1] > 0 => Admitted(Truncated(item.call))',
         UNCHANGED <<facts, support>>, node' # "invalid"
  PROVE  RecordOk'
PROOF
  <1>1. EvidenceStands'
    BY DEF RecordOk, EvidenceStands, EvidenceGrows
  <1>2. dropped' => Admitted(AtCapacity)'
    BY DEF RecordOk, LossesAdmitted, EvidenceGrows, UnknownsGrow
  <1>3. ASSUME NEW reading \in facts \union {support}, NEW id \in DOMAIN reading, id \in DOMAIN evidence',
               reading[id] # evidence'[id].call
        PROVE  Admitted(Superseded(id))'
    <2>1. id \in DOMAIN evidence
      BY <1>3 DEF RecordOk, EvidenceStands
    <2>2. CASE evidence'[id] = evidence[id]
      BY <1>3, <2>1, <2>2 DEF RecordOk, LossesAdmitted, UnknownsGrow
    <2>3. CASE evidence'[id] # evidence[id]
      BY <1>3, <2>1, <2>3 DEF EvidenceGrows
    <2> QED BY <2>2, <2>3
  <1>4. ASSUME NEW id \in DOMAIN evidence', NEW now, now = evidence'[id], now.partial, now.call[1] > 0
        PROVE  Admitted(Truncated(now.call))'
    <2>1. CASE id \in DOMAIN evidence /\ now = evidence[id]
      <3>1. Admitted(Truncated(now.call))
        BY <1>4, <2>1 DEF RecordOk, LossesAdmitted
      <3> QED BY <3>1 DEF UnknownsGrow
    <2>2. CASE now = item
      BY <1>4, <2>2
    <2> QED BY <1>4, <2>1, <2>2 DEF EvidenceGrows
  <1>5. LossesAdmitted'
    BY <1>2, <1>3, <1>4 DEF LossesAdmitted, Admitted
  <1> QED BY <1>1, <1>5 DEF RecordOk

\* So many entries without a name.
LEMMA Counted ==
  ASSUME RecordOk, NEW others \in Nat, unknowns' \in Noted({}, others),
         UNCHANGED <<evidence, facts, support, dropped>>, node' # "invalid"
  PROVE  RecordOk'
PROOF
  <1>1. UnknownsOk' /\ UnknownsGrow
    BY NotedKeeps, FS_EmptySet DEF RecordOk
  <1> QED BY <1>1, RecordKept

LEMMA RecordSame ==
  ASSUME RecordOk, UNCHANGED record, node' # "invalid"
  PROVE  RecordOk'
PROOF
  <1>1. UnknownsOk' /\ UnknownsGrow
    BY DEF RecordOk, UnknownsOk, UnknownsGrow, Admitted, record
  <1> QED BY <1>1, RecordKept DEF record

-----------------------------------------------------------------------------
(* The scan. *)

Parts == CountsOk /\ RoutesOk /\ CallsOk /\ RecordOk /\ PlanInv /\ CutInv

LEMMA PartsInit == Init => Parts
PROOF
  <1> SUFFICES ASSUME Init PROVE Parts
    OBVIOUS
  <1>1. 0 \in 0..UnknownsCapacity - 1 /\ 0 <= EvidenceCapacity
    BY EvidenceAssumption
  <1>2. DOMAIN evidence = {} /\ DOMAIN flight = {} /\ DOMAIN support = {}
    BY DEF Init
  <1>3. EvidenceOk /\ UnknownsOk
    BY <1>1, <1>2, FS_EmptySet DEF Init, EvidenceOk, UnknownsOk
  <1>4. EvidenceStands /\ LossesAdmitted
    BY <1>2 DEF Init, EvidenceStands, LossesAdmitted
  <1>5. toolCalls \in Nat
    BY RegistryAssumption DEF Init
  <1>6. CountsOk /\ CallsOk
    BY <1>2, <1>5 DEF Init, CountsOk, CallsOk, CallInv, AllowedIsCalled, GraphNodes
  <1>7. RoutesOk
    BY <1>2 DEF Init, RoutesOk
  <1> QED BY <1>3, <1>4, <1>6, <1>7 DEF Parts, RecordOk, PlanInv, CutInv, Init

LEMMA PlanScansStep == Parts /\ PlanScans => Parts'
PROOF
  <1> SUFFICES ASSUME Parts, PlanScans PROVE Parts'
    OBVIOUS
  <1>1. RecordOk'
    BY RecordSame DEF Parts, PlanScans
  <1>2. flight = <<>> /\ filed = {} /\ planned = {} /\ iterations = 0
    BY DEF Parts, PlanInv, PlanScans
  <1>3. questions' \in Seq(Proposals \union Scans)
    BY BatchTypes DEF PlanScans, Batches
  <1>4. CallsOk' /\ DOMAIN flight' = {}
    BY <1>2, NothingInFlight DEF PlanScans
  <1>5. CountsOk' /\ RoutesOk'
    BY <1>2, <1>3, <1>4 DEF PlanScans, Parts, CountsOk, RoutesOk, GraphNodes, record
  <1>6. PlanInv' /\ CutInv'
    BY <1>2, <1>4 DEF PlanScans, PlanInv, CutInv
  <1> QED BY <1>1, <1>4, <1>5, <1>6 DEF Parts

\* The scan that is not made.
LEMMA LeaveScanStep == Parts /\ (SkipScan \/ EndScans) => Parts'
PROOF
  <1> SUFFICES ASSUME Parts, SkipScan \/ EndScans PROVE Parts'
    OBVIOUS
  <1>1. /\ unknowns' \in Noted({}, 1)
        /\ UNCHANGED <<node, stop, toolCalls, flight, routing, evidence, facts, support, dropped>>
        /\ node = "scanning"
        /\ filed' \subseteq DOMAIN questions
    BY DEF SkipScan, EndScans, Scanning, Parts, RoutesOk
  <1>2. RecordOk'
    BY <1>1, Counted DEF Parts
  <1>3. RoutesOk' /\ CallsOk'
    BY <1>1, RoutesKept DEF Parts, routing
  <1>4. CountsOk' /\ PlanInv' /\ CutInv'
    BY <1>1 DEF Parts, CountsOk, PlanInv, CutInv, routing
  <1> QED BY <1>2, <1>3, <1>4 DEF Parts

LEMMA StartScanStep == Parts /\ StartScan => Parts'
PROOF
  <1> SUFFICES ASSUME Parts, StartScan PROVE Parts'
    OBVIOUS
  <1> DEFINE scan == questions[NextScan]
             call == Started(scan.tool, scan.arguments,
                             [scope |-> "timeless", generic |-> TRUE, calls |-> toolCalls])
  <1>1. /\ UNCHANGED <<iterations, attempts, questions, stop, toolCalls, evidence, facts, support, dropped>>
        /\ node = "scanning" /\ NextScan \in DOMAIN questions
    BY DEF StartScan, Scanning
  <1>2. CASE /\ filed' = filed \union {NextScan}
             /\ unknowns' \in Noted({}, 1)
             /\ UNCHANGED <<node, planned, flight>>
    <2>1. RecordOk'
      BY <1>1, <1>2, Counted DEF Parts
    <2>2. RoutesOk' /\ CallsOk'
      BY <1>1, <1>2, RoutesKept DEF Parts, RoutesOk
    <2>3. CountsOk' /\ PlanInv' /\ CutInv'
      BY <1>1, <1>2 DEF Parts, CountsOk, PlanInv, CutInv
    <2> QED BY <2>1, <2>2, <2>3 DEF Parts
  <1>3. CASE node' = "raised" /\ UNCHANGED <<planned, filed, unknowns, flight>>
    <2>1. RecordOk'
      BY <1>1, <1>3, RecordSame DEF Parts, record
    <2>2. RoutesOk' /\ CallsOk'
      BY <1>1, <1>3, RoutesKept DEF Parts, RoutesOk
    <2>3. CountsOk' /\ PlanInv' /\ CutInv'
      BY <1>1, <1>3 DEF Parts, CountsOk, PlanInv, CutInv, Ends
    <2> QED BY <2>1, <2>2, <2>3 DEF Parts
  <1>4. CASE /\ call.phase = "sent"
             /\ planned' = {NextScan}
             /\ flight' = [slot \in {NextScan} |-> call]
             /\ UNCHANGED <<node, filed, unknowns>>
    <2>1. RecordOk'
      BY <1>1, <1>4, RecordSame DEF Parts, record
    <2>2. call \in Calls /\ CallOk(call)
      BY StartedOk
    <2>3. DOMAIN flight' = {NextScan} /\ \A slot \in DOMAIN flight' : flight'[slot] = call
      BY <1>4
    <2>4. RoutesOk' /\ CallsOk'
      <3> HIDE DEF call
      <3>1. RoutesOk'
        BY <1>1, <1>4, <2>2, <2>3 DEF Parts, RoutesOk
      <3>2. CallInv' /\ AllowedIsCalled'
        BY <1>4, <2>2, <2>3 DEF CallInv, CallOk, AllowedIsCalled
      <3> QED BY <3>1, <3>2 DEF CallsOk
    <2>5. CountsOk'
      BY <1>1, <1>4 DEF Parts, CountsOk
    <2>6. PlanInv' /\ CutInv'
      <3> HIDE DEF call
      <3> QED BY <1>1, <1>4, <2>3 DEF Parts, PlanInv, CutInv
    <2> QED BY <2>1, <2>4, <2>5, <2>6 DEF Parts
  <1> QED BY <1>2, <1>3, <1>4 DEF StartScan

LEMMA FileScanStep ==
  ASSUME Parts, FileScan
  PROVE  /\ Parts'
         /\ \E slot \in planned : EvidenceGrows(Filed(slot, slot)) /\ slot \in DOMAIN flight
PROOF
  <1>0. TypeOK /\ CallInv
    BY TypeParts DEF Parts, RecordOk, CallsOk
  <1>1. PICK slot \in DOMAIN flight :
          /\ flight[slot].phase \in Returned
          /\ toolCalls' = toolCalls + 1
          /\ filed' = filed \union {slot}
          /\ FileAnswer(slot, slot, IF Status(slot) = "error" THEN 1 ELSE 0)
    BY DEF FileScan
  <1>2. node = "scanning" /\ UNCHANGED <<stop, flight, routing, facts, support>>
    BY DEF FileScan
  <1>3. slot \in Answered /\ slot \in planned /\ slot \in DOMAIN questions
    BY <1>1 DEF Answered, Parts, RoutesOk
  <1>4. (IF Status(slot) = "error" THEN 1 ELSE 0) \in Nat
    OBVIOUS
  <1>5. /\ UnknownsOk' /\ UnknownsGrow /\ EvidenceOk' /\ EvidenceGrows(Filed(slot, slot))
        /\ node' \in {node, "raised"}
    BY <1>0, <1>1, <1>3, <1>4, FileAnswerGrows
  <1>6. RecordOk'
    <2>1. Filed(slot, slot).call[1] = 0
      BY <1>2 DEF Parts, PlanInv, Filed, CallId
    <2> DEFINE item == Filed(slot, slot)
    <2>2. PICK it : it = item
      OBVIOUS
    <2>3. EvidenceGrows(it) /\ ~(it.call[1] > 0)
      BY <1>5, <2>1, <2>2
    <2> QED BY <1>2, <1>5, <2>3, RecordGrows DEF Parts
  <1>7. RoutesOk' /\ CallsOk'
    BY <1>1, <1>2, <1>3, RoutesKept DEF Parts, RoutesOk, routing
  <1>8. CountsOk'
    BY <1>1, <1>2, <1>5 DEF Parts, CountsOk, EvidenceGrows, routing, Ends
  <1>9. PlanInv' /\ CutInv'
    BY <1>2, <1>5 DEF Parts, PlanInv, CutInv, routing
  <1> QED BY <1>3, <1>5, <1>6, <1>7, <1>8, <1>9 DEF Parts

LEMMA FinishScanStep == Parts /\ FinishScan => Parts'
PROOF
  <1> SUFFICES ASSUME Parts, FinishScan PROVE Parts'
    OBVIOUS
  <1>1. RecordOk'
    BY RecordSame DEF Parts, FinishScan
  <1>2. CallsOk' /\ DOMAIN flight' = {}
    BY NothingInFlight DEF FinishScan
  <1>3. CountsOk' /\ RoutesOk'
    BY <1>2 DEF FinishScan, Parts, CountsOk, RoutesOk, GraphNodes, record
  <1>4. PlanInv' /\ CutInv'
    BY DEF FinishScan, PlanInv, CutInv
  <1> QED BY <1>1, <1>2, <1>3, <1>4 DEF Parts

-----------------------------------------------------------------------------
(* A turn. *)

LEMMA PlanObservationsStep == Parts /\ PlanObservations => Parts'
PROOF
  <1> SUFFICES ASSUME Parts, PlanObservations PROVE Parts'
    OBVIOUS
  <1>1. /\ node = "observation_planner" /\ node' = "tool_router"
        /\ UNCHANGED <<attempts, toolCalls, evidence, facts, support, dropped>>
    BY DEF PlanObservations
  <1>2. CASE stop /\ UNCHANGED <<iterations, stop, questions, planned, flight, filed, unknowns>>
    <2>1. RecordOk'
      BY <1>1, <1>2, RecordSame DEF Parts, record
    <2>2. RoutesOk' /\ CallsOk'
      BY <1>1, <1>2, RoutesKept DEF Parts, RoutesOk
    <2>3. CountsOk' /\ PlanInv' /\ CutInv'
      BY <1>1, <1>2 DEF Parts, CountsOk, PlanInv, CutInv, GraphNodes
    <2> QED BY <2>1, <2>2, <2>3 DEF Parts
  <1>3. CASE /\ iterations' = iterations + 1
             /\ questions' \in Batches(Proposals, AtMost(BatchCapacity, MaxToolCalls - toolCalls))
             /\ \E unusable \in 0..UnusableProposals : unknowns' \in Noted({}, unusable)
             /\ stop' = (questions' = <<>>)
             /\ planned' = {} /\ flight' = <<>> /\ filed' = {}
    <2>1. RecordOk'
      <3>1. PICK unusable \in 0..UnusableProposals : unknowns' \in Noted({}, unusable)
        BY <1>3
      <3>2. unusable \in Nat
        BY EvidenceAssumption
      <3> QED BY <1>1, <3>1, <3>2, Counted DEF Parts
    <2>2. CallsOk' /\ DOMAIN flight' = {}
      BY <1>3, NothingInFlight
    <2>3. questions' \in Seq(Proposals \union Scans)
      BY <1>3, BatchTypes DEF Batches
    <2>4. RoutesOk'
      BY <1>3, <2>2, <2>3 DEF RoutesOk
    <2>5. CountsOk' /\ PlanInv' /\ CutInv'
      BY <1>1, <1>3 DEF Parts, CountsOk, PlanInv, CutInv, GraphNodes
    <2> QED BY <2>1, <2>2, <2>4, <2>5 DEF Parts
  <1> QED BY <1>2, <1>3 DEF PlanObservations

LEMMA RouteCallsStep == Parts /\ RouteCalls => Parts'
PROOF
  <1> SUFFICES ASSUME Parts, RouteCalls PROVE Parts'
    OBVIOUS
  <1>1. /\ node = "tool_router" /\ node' = "tool_executor" /\ attempts' = 0
        /\ planned' \in SUBSET DOMAIN questions /\ Routed(planned')
        /\ unknowns' \in Noted({}, Cardinality(DOMAIN questions \ planned'))
        /\ UNCHANGED <<iterations, stop, toolCalls, questions, flight, filed, evidence, facts, support, dropped>>
    BY DEF RouteCalls
  <1>2. flight = <<>> /\ filed = {}
    BY <1>1 DEF Parts, PlanInv
  <1>3. RecordOk'
    <2>1. Cardinality(DOMAIN questions \ planned') \in Nat
      BY SlotsFinite, TypeParts DEF Parts, RecordOk
    <2> QED BY <1>1, <2>1, Counted DEF Parts
  <1>4. CallsOk' /\ DOMAIN flight' = {}
    BY <1>1, <1>2, NothingInFlight
  <1>5. RoutesOk' /\ CountsOk' /\ CutInv'
    BY <1>1, <1>2, <1>4 DEF Parts, RoutesOk, CountsOk, CutInv, GraphNodes
  <1>6. Routed(planned)'
    BY <1>1 DEF Routed, ContextOf
  <1>7. PlanInv'
    BY <1>1, <1>6 DEF PlanInv
  <1> QED BY <1>3, <1>4, <1>5, <1>7 DEF Parts

LEMMA RouteNothingStep == Parts /\ RouteNothing => Parts'
PROOF
  <1> SUFFICES ASSUME Parts, RouteNothing PROVE Parts'
    OBVIOUS
  <1>1. PICK again \in BOOLEAN :
          /\ attempts' = IF questions = <<>> THEN attempts ELSE attempts + 1
          /\ stop' = ~again
          /\ questions' = IF again THEN <<>> ELSE questions
          /\ node' = IF again THEN "observation_planner" ELSE "evidence_package_builder"
    BY DEF RouteNothing
  <1>2. /\ node = "tool_router" /\ unknowns' \in Noted({}, Len(questions))
        /\ UNCHANGED <<iterations, toolCalls, planned, flight, filed, evidence, facts, support, dropped>>
    BY DEF RouteNothing
  <1>3. flight = <<>> /\ filed = {} /\ planned = {}
    BY <1>2 DEF Parts, PlanInv
  <1>4. RecordOk'
    <2>1. Len(questions) \in Nat
      BY DEF Parts, RoutesOk
    <2> QED BY <1>1, <1>2, <2>1, Counted DEF Parts
  <1>5. CallsOk' /\ DOMAIN flight' = {}
    BY <1>2, <1>3, NothingInFlight
  <1>6. RoutesOk'
    BY <1>1, <1>2, <1>3, <1>5 DEF Parts, RoutesOk
  <1>7. CountsOk' /\ PlanInv' /\ CutInv'
    BY <1>1, <1>2 DEF Parts, CountsOk, PlanInv, CutInv, GraphNodes
  <1> QED BY <1>4, <1>5, <1>6, <1>7 DEF Parts

\* The adapter asks no more than the router did.
LEMMA AllowedAnyway ==
  ASSUME NEW tool, NEW arguments, NEW context, NEW scope,
         Verdict(tool, arguments, context, scope) = "allowed"
  PROVE  Verdict(tool, arguments, context, "any") = "allowed"
BY DEF Verdict, Refused

LEMMA StartCallsStep == Parts /\ StartCalls => Parts'
PROOF
  <1> SUFFICES ASSUME Parts, StartCalls PROVE Parts'
    OBVIOUS
  <1> DEFINE call(slot) == Started(questions[slot].tool, questions[slot].arguments,
                                   ContextOf(Asked(slot), Before(slot, planned)))
  <1>1. /\ node = "tool_executor" /\ flight = <<>>
        /\ flight' = [slot \in planned |-> call(slot)]
        /\ UNCHANGED <<node, stop, toolCalls, filed, routing, record>>
    BY DEF StartCalls
  <1>2. RecordOk'
    BY <1>1, RecordSame DEF Parts
  <1>3. \A slot \in planned : call(slot) \in Calls /\ CallOk(call(slot))
    BY StartedOk
  <1>4. ASSUME NEW slot \in planned, Unambiguous(slot)
        PROVE  call(slot).phase # "refused"
    <2>1. Routed(planned) /\ slot \in DOMAIN questions
      BY <1>1 DEF Parts, PlanInv, RoutesOk
    <2>2. Verdict(questions[slot].tool, questions[slot].arguments,
                  ContextOf(questions[slot], Before(slot, planned)),
                  CatalogScope(questions[slot].tool)) = "allowed"
      BY <2>1 DEF Routed
    <2>3. Asked(slot) = questions[slot]
      BY <1>4, <2>1, AskedIsOwn, TypeParts DEF Parts, RecordOk
    <2>4. Verdict(questions[slot].tool, questions[slot].arguments,
                  ContextOf(Asked(slot), Before(slot, planned)), "any") = "allowed"
      BY <2>2, <2>3, AllowedAnyway
    <2> QED BY <2>4, StartedOk
  <1> HIDE DEF call
  <1>5. DOMAIN flight' = planned /\ \A slot \in planned : flight'[slot] = call(slot)
    BY <1>1
  <1>6. RoutesOk'
    BY <1>1, <1>3, <1>5 DEF Parts, RoutesOk, routing
  <1>7. CallsOk'
    <2>1. CallInv'
      BY <1>3, <1>5 DEF CallInv, CallOk
    <2>2. AllowedIsCalled'
      <3>1. \A slot : Unambiguous(slot)' => Unambiguous(slot)
        BY <1>1 DEF Unambiguous, SamePair, routing
      <3> QED BY <1>4, <1>5, <3>1 DEF AllowedIsCalled
    <2> QED BY <2>1, <2>2 DEF CallsOk
  <1>8. CountsOk' /\ CutInv'
    BY <1>1 DEF Parts, CountsOk, CutInv, routing, record
  <1>9. PlanInv'
    <2>1. Routed(planned)' <=> Routed(planned)
      BY <1>1 DEF Routed, ContextOf, routing
    <2> QED BY <1>1, <2>1 DEF Parts, PlanInv, routing
  <1> QED BY <1>2, <1>6, <1>7, <1>8, <1>9 DEF Parts

LEMMA CallStep ==
  Parts /\ (ServeCall \/ ReturnCall \/ BreakCall \/ RetryCall \/ TimeoutCall) => Parts'
PROOF
  <1> SUFFICES ASSUME Parts, ServeCall \/ ReturnCall \/ BreakCall \/ RetryCall \/ TimeoutCall
               PROVE  Parts'
    OBVIOUS
  <1>0. TypeOK /\ CallInv
    BY TypeParts DEF Parts, RecordOk, CallsOk
  <1>1. PICK slot \in DOMAIN flight :
          /\ InFlight(slot) /\ UNCHANGED Elsewhere
          /\ \/ Serve(slot, questions[slot].tool) \/ Return(slot, questions[slot].tool) \/ Break(slot)
             \/ Retry(slot) \/ Timeout(slot)
    BY DEF ServeCall, ReturnCall, BreakCall, RetryCall, TimeoutCall
  <1>2. PICK call \in Calls :
          CallOk(call) /\ call.phase \notin Unsent /\ flight' = [flight EXCEPT ![slot] = call]
    BY <1>0, <1>1, CallStepOk
  <1>3. /\ node \in {"scanning", "tool_executor"}
        /\ UNCHANGED <<node, stop, toolCalls, filed, routing, record>>
    BY <1>1 DEF InFlight, Elsewhere
  <1>4. /\ DOMAIN flight' = DOMAIN flight /\ flight' # <<>>
        /\ \A other \in DOMAIN flight : flight'[other] = IF other = slot THEN call ELSE flight[other]
    BY <1>2
  <1>5. RecordOk'
    BY <1>3, RecordSame DEF Parts
  <1>6. RoutesOk'
    BY <1>2, <1>3, <1>4 DEF Parts, RoutesOk, routing
  <1>7. CallsOk'
    <2>1. CallInv'
      BY <1>0, <1>2, <1>4 DEF CallInv, CallOk
    <2>2. \A other : Unambiguous(other)' => Unambiguous(other)
      BY <1>3 DEF Unambiguous, SamePair, routing
    <2>3. AllowedIsCalled'
      BY <1>2, <1>4, <2>2 DEF Parts, CallsOk, AllowedIsCalled, Unsent
    <2> QED BY <2>1, <2>3 DEF CallsOk
  <1>8. CountsOk' /\ CutInv'
    BY <1>3 DEF Parts, CountsOk, CutInv, routing, record
  <1>9. PlanInv'
    BY <1>2, <1>3, <1>4 DEF Parts, PlanInv, routing
  <1> QED BY <1>5, <1>6, <1>7, <1>8, <1>9 DEF Parts

LEMMA CollectAnswersStep == Parts /\ CollectAnswers => Parts'
PROOF
  <1> SUFFICES ASSUME Parts, CollectAnswers PROVE Parts'
    OBVIOUS
  <1>0. TypeOK
    BY TypeParts DEF Parts, RecordOk
  <1> DEFINE cut == {slot \in Answered : Partial(slot)}
             wrong == {slot \in planned : slot \notin Answered \/ Status(slot) = "error"}
             oversized == {slot \in Answered :
                             flight[slot].phase = "answered" /\ flight[slot].answer.oversized}
             notes == {Truncated(CallId(slot)) : slot \in cut}
             others == Cardinality(wrong) + Cardinality(oversized)
  <1>1. /\ node = "tool_executor" /\ node' = "evidence_normalizer"
        /\ toolCalls' = toolCalls + Cardinality(Answered)
        /\ unknowns' \in Noted(notes, others)
        /\ UNCHANGED <<stop, filed, flight, routing, evidence, facts, support, dropped>>
    BY DEF CollectAnswers
  <1>2. Answered \subseteq DOMAIN questions /\ planned \subseteq DOMAIN questions
    BY <1>0 DEF TypeOK, Answered
  <1>3. IsFiniteSet(notes)
    <2>1. IsFiniteSet(cut)
      BY <1>0, <1>2, SlotsFinite
    <2> DEFINE f == [slot \in cut |-> Truncated(CallId(slot))]
    <2> HIDE DEF cut
    <2>2. IsFiniteSet({f[slot] : slot \in cut})
      BY <2>1, ImageFinite
    <2> QED BY <2>2
  <1>4. others \in Nat /\ Cardinality(Answered) \in Nat
    <2>1. wrong \subseteq DOMAIN questions /\ oversized \subseteq DOMAIN questions
      BY <1>2
    <2>2. Cardinality(wrong) \in Nat /\ Cardinality(oversized) \in Nat
      BY <1>0, <2>1, SlotsFinite
    <2> QED BY <1>0, <1>2, <2>2, SlotsFinite
  <1>5. UnknownsOk' /\ UnknownsGrow /\ \A note \in notes : Admitted(note)'
    <2> HIDE DEF notes, others
    <2> QED BY <1>1, <1>3, <1>4, NotedKeeps DEF Parts, RecordOk
  <1>6. RecordOk'
    BY <1>1, <1>5, RecordKept DEF Parts
  <1>7. RoutesOk' /\ CallsOk'
    BY <1>1, RoutesKept DEF Parts, RoutesOk, routing
  <1>8. CountsOk' /\ PlanInv'
    BY <1>1, <1>4 DEF Parts, CountsOk, PlanInv, routing, GraphNodes
  <1>9. CutInv'
    <2> SUFFICES ASSUME NEW slot \in Answered, Partial(slot), NEW id, id = CallId(slot)
                 PROVE  Admitted(Truncated(id))'
      BY <1>1 DEF CutInv, Answered, Partial, Status, StatusOf, CallId, routing, Admitted
    <2>1. Truncated(id) \in notes
      OBVIOUS
    <2> QED BY <1>5, <2>1
  <1> QED BY <1>6, <1>7, <1>8, <1>9 DEF Parts

LEMMA NormalizeAnswerStep ==
  ASSUME Parts, NormalizeAnswer
  PROVE  /\ Parts'
         /\ \E slot \in planned : EvidenceGrows(Filed(slot, PlanFor(slot))) /\ slot \in DOMAIN flight
PROOF
  <1>0. TypeOK /\ CallInv
    BY TypeParts DEF Parts, RecordOk, CallsOk
  <1> DEFINE slot == NextAnswer
             plan == PlanFor(slot)
  <1>1. /\ node = "evidence_normalizer"
        /\ FileAnswer(slot, plan, 0)
        /\ filed' = filed \union {slot}
        /\ UNCHANGED <<stop, toolCalls, flight, routing, facts, support>>
        /\ Answered \ filed # {}
    BY DEF NormalizeAnswer
  <1>2. slot \in Answered
    BY <1>0, <1>1, NextAnswerIs
  <1>3. slot \in planned /\ slot \in DOMAIN questions /\ slot \in DOMAIN flight
    BY <1>0, <1>2 DEF TypeOK, Answered
  <1>4. plan \in planned
    BY <1>0, <1>3, PlanForSlot
  <1> HIDE DEF slot, plan
  <1>5. /\ UnknownsOk' /\ UnknownsGrow /\ EvidenceOk' /\ EvidenceGrows(Filed(slot, plan))
        /\ node' \in {node, "raised"}
    BY <1>0, <1>1, <1>2, <1>4, FileAnswerGrows
  <1>6. RecordOk'
    <2>1. PICK item : item = Filed(slot, plan)
      OBVIOUS
    <2>2. item.call = CallId(slot) /\ item.partial = Partial(slot)
      BY <2>1 DEF Filed
    <2>3. item.partial => Admitted(Truncated(item.call))
      BY <1>1, <1>2, <2>2 DEF Parts, CutInv
    <2>4. item.partial /\ item.call[1] > 0 => Admitted(Truncated(item.call))'
      BY <1>5, <2>3 DEF UnknownsGrow
    <2>5. EvidenceGrows(item)
      BY <1>5, <2>1
    <2> QED BY <1>1, <1>5, <2>4, <2>5, RecordGrows DEF Parts
  <1>7. RoutesOk' /\ CallsOk'
    BY <1>1, <1>3, RoutesKept DEF Parts, RoutesOk, routing
  <1>8. CountsOk'
    BY <1>1, <1>5 DEF Parts, CountsOk, EvidenceGrows, routing, Ends
  <1>9. PlanInv'
    BY <1>1, <1>5 DEF Parts, PlanInv, routing
  <1>10. CutInv'
    <2> SUFFICES ASSUME NEW other \in Answered, Partial(other), NEW id, id = CallId(other),
                        node' = "evidence_normalizer"
                 PROVE  Admitted(Truncated(id))'
      BY <1>1 DEF CutInv, Answered, Partial, Status, StatusOf, CallId, routing, Admitted
    <2>1. Admitted(Truncated(id))
      BY <1>1 DEF Parts, CutInv
    <2> QED BY <1>5, <2>1 DEF UnknownsGrow
  <1> QED BY <1>3, <1>5, <1>6, <1>7, <1>8, <1>9, <1>10 DEF Parts, slot, plan

LEMMA FinishEvidenceStep == Parts /\ FinishEvidence => Parts'
PROOF
  <1> SUFFICES ASSUME Parts, FinishEvidence PROVE Parts'
    OBVIOUS
  <1>1. /\ node' \in {"stop_guard", "hypothesis_updater"} /\ stop' \in BOOLEAN
        /\ UNCHANGED <<toolCalls, filed, flight, routing, record>>
    BY DEF FinishEvidence
  <1>2. RecordOk'
    BY <1>1, RecordSame DEF Parts
  <1>3. RoutesOk' /\ CallsOk'
    BY <1>1, RoutesKept DEF Parts, RoutesOk, routing
  <1>4. CountsOk' /\ PlanInv' /\ CutInv'
    BY <1>1 DEF Parts, CountsOk, PlanInv, CutInv, routing, record, GraphNodes
  <1> QED BY <1>2, <1>3, <1>4 DEF Parts

LEMMA UpdateHypothesesStep == Parts /\ UpdateHypotheses => Parts'
PROOF
  <1> SUFFICES ASSUME Parts, UpdateHypotheses PROVE Parts'
    OBVIOUS
  <1>1. PICK cited \in SUBSET DOMAIN evidence,
             noted \in UNION {Noted({}, unusable) : unusable \in 0..UnusableProposals} :
          /\ support' \in {support, Read(cited)}
          /\ facts' \subseteq facts \union {Read(cited)}
          /\ unknowns' \in {noted, [noted EXCEPT !.notice = TRUE]}
    BY DEF UpdateHypotheses
  <1>2. /\ node' = "stop_guard" /\ stop' \in BOOLEAN
        /\ UNCHANGED <<toolCalls, filed, flight, routing, evidence, dropped>>
    BY DEF UpdateHypotheses
  <1>3. UnknownsOk' /\ UnknownsGrow
    <2>1. PICK unusable \in Nat : noted \in Noted({}, unusable)
      BY EvidenceAssumption
    <2> QED BY <1>1, <2>1, NoticeKeeps DEF Parts, RecordOk
  <1>4. DOMAIN Read(cited) = cited /\ \A id \in cited : Read(cited)[id] = evidence[id].call
    BY DEF Read
  <1>5. EvidenceOk' /\ EvidenceStands'
    BY <1>1, <1>2, <1>4 DEF Parts, RecordOk, EvidenceOk, EvidenceStands
  <1>6. LossesAdmitted'
    <2>1. dropped' => Admitted(AtCapacity)'
      BY <1>2, <1>3 DEF Parts, RecordOk, LossesAdmitted, UnknownsGrow
    <2>2. ASSUME NEW reading \in facts' \union {support'}, NEW id \in DOMAIN reading \intersect DOMAIN evidence,
                 reading[id] # evidence[id].call
          PROVE  Admitted(Superseded(id))'
      <3>1. reading # Read(cited)
        BY <1>4, <2>2
      <3>2. reading \in facts \union {support}
        BY <1>1, <3>1
      <3>3. Admitted(Superseded(id))
        BY <2>2, <3>2 DEF Parts, RecordOk, LossesAdmitted
      <3> QED BY <1>3, <3>3 DEF UnknownsGrow
    <2>3. ASSUME NEW id \in DOMAIN evidence, NEW call, call = evidence[id].call,
                 evidence[id].partial, call[1] > 0
          PROVE  Admitted(Truncated(call))'
      <3>1. Admitted(Truncated(call))
        BY <2>3 DEF Parts, RecordOk, LossesAdmitted
      <3> QED BY <1>3, <3>1 DEF UnknownsGrow
    <2> QED BY <1>2, <2>1, <2>2, <2>3 DEF LossesAdmitted, Admitted
  <1>7. RoutesOk' /\ CallsOk'
    BY <1>2, RoutesKept DEF Parts, RoutesOk, routing
  <1>8. CountsOk' /\ PlanInv' /\ CutInv'
    BY <1>2 DEF Parts, CountsOk, PlanInv, CutInv, routing, GraphNodes
  <1> QED BY <1>3, <1>5, <1>6, <1>7, <1>8 DEF Parts, RecordOk

LEMMA EndOfTurnStep == Parts /\ (StopGuard \/ BuildPackage) => Parts'
PROOF
  <1> SUFFICES ASSUME Parts, StopGuard \/ BuildPackage PROVE Parts'
    OBVIOUS
  <1>1. UNCHANGED <<toolCalls, filed, flight, routing, record>>
    BY DEF StopGuard, BuildPackage
  <1>2. \/ node' = "evidence_package_builder" /\ stop' \in BOOLEAN
        \/ node' = "observation_planner" /\ stop' = FALSE
        \/ node' = "report_writer" /\ stop' = stop
    <2>1. CASE StopGuard
      <3>1. stop' \in BOOLEAN
        BY <2>1 DEF StopGuard, Parts, CountsOk
      <3> QED BY <2>1, <3>1 DEF StopGuard
    <2>2. CASE BuildPackage
      BY <2>2 DEF BuildPackage, Parts, RecordOk, EvidenceStands
    <2> QED BY <2>1, <2>2
  <1>3. RecordOk'
    BY <1>1, <1>2, RecordSame DEF Parts
  <1>4. RoutesOk' /\ CallsOk'
    BY <1>1, RoutesKept DEF Parts, RoutesOk, routing
  <1>5. CountsOk' /\ PlanInv' /\ CutInv'
    BY <1>1, <1>2 DEF Parts, CountsOk, PlanInv, CutInv, routing, record, GraphNodes, Ends
  <1> QED BY <1>3, <1>4, <1>5 DEF Parts

\* What raises out of a node leaves everything else as it was.
LEMMA RaiseStep == Parts /\ (RouteTooLong \/ LoseAnswers \/ LoseScan) => Parts'
PROOF
  <1> SUFFICES ASSUME Parts, RouteTooLong \/ LoseAnswers \/ LoseScan PROVE Parts'
    OBVIOUS
  <1>1. node' = "raised" /\ UNCHANGED <<stop, toolCalls, filed, flight, routing, record>>
    BY DEF RouteTooLong, LoseAnswers, LoseScan
  <1>2. RecordOk'
    BY <1>1, RecordSame DEF Parts
  <1>3. RoutesOk' /\ CallsOk'
    BY <1>1, RoutesKept DEF Parts, RoutesOk, routing
  <1>4. CountsOk' /\ PlanInv' /\ CutInv'
    BY <1>1 DEF Parts, CountsOk, PlanInv, CutInv, routing, record, Ends
  <1> QED BY <1>2, <1>3, <1>4 DEF Parts

LEMMA PartsSame == Parts /\ UNCHANGED vars => Parts'
PROOF
  <1> SUFFICES ASSUME Parts, UNCHANGED vars PROVE Parts'
    OBVIOUS
  <1>1. UNCHANGED <<node, stop, toolCalls, filed, flight, routing, record>>
    BY DEF vars
  <1>2. RecordOk'
    BY <1>1, RecordSame DEF Parts, RecordOk, EvidenceStands
  <1>3. RoutesOk' /\ CallsOk'
    BY <1>1, RoutesKept DEF Parts, RoutesOk, routing
  <1>4. CountsOk'
    BY <1>1 DEF Parts, CountsOk, routing, record
  <1>5. PlanInv'
    <2>1. Routed(planned)' <=> Routed(planned)
      BY <1>1 DEF Routed, ContextOf, routing
    <2> QED BY <1>1, <2>1 DEF Parts, PlanInv, routing
  <1>6. CutInv'
    <2> SUFFICES ASSUME node = "evidence_normalizer", NEW slot \in Answered, Partial(slot),
                        NEW id, id = CallId(slot)
                 PROVE  Admitted(Truncated(id))'
      BY <1>1 DEF CutInv, Answered, Partial, Status, StatusOf, CallId, routing, Admitted
    <2>1. Admitted(Truncated(id))
      BY DEF Parts, CutInv
    <2> QED BY <1>1, <2>1 DEF Admitted, record
  <1> QED BY <1>2, <1>3, <1>4, <1>5, <1>6 DEF Parts

LEMMA PartsStep == Parts /\ [Next]_vars => Parts'
PROOF
  <1> SUFFICES ASSUME Parts, [Next]_vars PROVE Parts'
    OBVIOUS
  <1>1. CASE PlanScans \/ SkipScan \/ EndScans \/ StartScan \/ FileScan \/ LoseScan \/ FinishScan
    BY <1>1, PlanScansStep, LeaveScanStep, StartScanStep, FileScanStep, RaiseStep, FinishScanStep
  <1>2. CASE PlanObservations \/ RouteCalls \/ RouteTooLong \/ RouteNothing
    BY <1>2, PlanObservationsStep, RouteCallsStep, RaiseStep, RouteNothingStep
  <1>3. CASE StartCalls \/ ServeCall \/ ReturnCall \/ BreakCall \/ RetryCall \/ TimeoutCall
             \/ CollectAnswers \/ LoseAnswers
    BY <1>3, StartCallsStep, CallStep, CollectAnswersStep, RaiseStep
  <1>4. CASE NormalizeAnswer \/ FinishEvidence \/ UpdateHypotheses \/ StopGuard \/ BuildPackage
    BY <1>4, NormalizeAnswerStep, FinishEvidenceStep, UpdateHypothesesStep, EndOfTurnStep
  <1>5. CASE UNCHANGED vars
    BY <1>5, PartsSame
  <1> QED BY <1>1, <1>2, <1>3, <1>4, <1>5 DEF Next, Done

LEMMA Invariants == Spec => []IInv
PROOF
  <1>1. Init => Parts
    BY PartsInit
  <1>2. Parts /\ [Next]_vars => Parts'
    BY PartsStep
  <1>3. Parts => IInv
    BY IInvParts DEF Parts
  <1> QED BY <1>1, <1>2, <1>3, PTL DEF Spec

-----------------------------------------------------------------------------
(* Where an answer is filed. *)

FilesWell ==
  \A id \in DOMAIN evidence' :
    id \notin DOMAIN evidence \/ evidence'[id] # evidence[id] =>
      LET slot == evidence'[id].call[2]
      IN  Unambiguous(slot) => evidence'[id].host = HostFor(slot)

LEMMA FiledWell ==
  ASSUME NEW slot, NEW plan, Unambiguous(slot) => plan = slot, EvidenceGrows(Filed(slot, plan))
  PROVE  FilesWell
PROOF
  <1> SUFFICES ASSUME NEW id \in DOMAIN evidence',
                      id \notin DOMAIN evidence \/ evidence'[id] # evidence[id],
                      Unambiguous(evidence'[id].call[2])
               PROVE  evidence'[id].host = HostFor(evidence'[id].call[2])
    BY DEF FilesWell
  <1>1. evidence'[id] = Filed(slot, plan)
    BY DEF EvidenceGrows
  <1>2. evidence'[id].call[2] = slot /\ evidence'[id].host = HostFor(plan)
    BY <1>1 DEF Filed, CallId
  <1> QED BY <1>2

LEMMA FilesWellStep == Parts /\ [Next]_vars => FilesWell
PROOF
  <1> SUFFICES ASSUME Parts, [Next]_vars PROVE FilesWell
    OBVIOUS
  <1>1. CASE FileScan
    BY <1>1, FileScanStep, FiledWell
  <1>2. CASE NormalizeAnswer
    <2>1. TypeOK
      BY TypeParts DEF Parts, RecordOk
    <2>2. PICK slot \in planned : EvidenceGrows(Filed(slot, PlanFor(slot)))
      BY <1>2, NormalizeAnswerStep
    <2>3. Unambiguous(slot) => PlanFor(slot) = slot
      BY <2>1, PlanForSlot
    <2> QED BY <2>2, <2>3, FiledWell
  <1>3. ASSUME UNCHANGED evidence PROVE FilesWell
    BY <1>3 DEF FilesWell
  <1>4. CASE PlanScans \/ SkipScan \/ EndScans \/ StartScan \/ LoseScan \/ FinishScan
    BY <1>3, <1>4 DEF PlanScans, SkipScan, EndScans, StartScan, LoseScan, FinishScan, record
  <1>5. CASE PlanObservations \/ RouteCalls \/ RouteTooLong \/ RouteNothing
    BY <1>3, <1>5 DEF PlanObservations, RouteCalls, RouteTooLong, RouteNothing, record
  <1>6. CASE StartCalls \/ ServeCall \/ ReturnCall \/ BreakCall \/ RetryCall \/ TimeoutCall
             \/ CollectAnswers \/ LoseAnswers
    BY <1>3, <1>6 DEF StartCalls, ServeCall, ReturnCall, BreakCall, RetryCall, TimeoutCall, CollectAnswers, LoseAnswers,
         Elsewhere, record
  <1>7. CASE FinishEvidence \/ UpdateHypotheses \/ StopGuard \/ BuildPackage \/ Done \/ UNCHANGED vars
    BY <1>3, <1>7 DEF FinishEvidence, UpdateHypotheses, StopGuard, BuildPackage, Done, vars, record
  <1> QED BY <1>1, <1>2, <1>4, <1>5, <1>6, <1>7 DEF Next

-----------------------------------------------------------------------------
(* The theorems. *)

\* The graph's state keeps its types and its capacities, with any answers.
THEOREM TypesHold == Spec => []TypeOK
PROOF
  <1>1. IInv => TypeOK
    BY DEF IInv
  <1> QED BY <1>1, Invariants, PTL

\* What the router allowed is not refused by the adapter.
THEOREM AllowedCallsAreMade == Spec => []AllowedIsCalled
PROOF
  <1>1. IInv => AllowedIsCalled
    BY DEF IInv
  <1> QED BY <1>1, Invariants, PTL

\* A server works on a planned call at most as often as it may be retried.
THEOREM ServersAreSpared == Spec => []ServedBounded
PROOF
  <1>1. IInv => ServedBounded
    <2> SUFFICES ASSUME IInv, NEW slot \in DOMAIN flight
                 PROVE  /\ flight[slot].served <= RetryAttempts
                        /\ flight[slot].phase \in Unsent => flight[slot].served = 0
      BY DEF ServedBounded
    <2>1. flight[slot] \in Calls /\ CallOk(flight[slot])
      BY DEF IInv, TypeOK, CallInv
    <2>2. RetryAttempts \in Nat
      BY CallsAssumption
    <2> QED BY <2>1, <2>2 DEF Calls, CallOk, Phases, UnderWay, Returned, Raised, Unsent
  <1> QED BY <1>1, Invariants, PTL

\* What a fact or a hypothesis cites is there when the package is built.
THEOREM CitedEvidenceStands == Spec => []EvidenceStands
PROOF
  <1>1. IInv => EvidenceStands
    BY DEF IInv
  <1> QED BY <1>1, Invariants, PTL

\* Evidence that was turned away, replaced or cut is an entry of the unknowns,
\* or their notice stands for it.
THEOREM LossesAreAdmitted == Spec => []LossesAdmitted
PROOF
  <1>1. IInv => LossesAdmitted
    BY DEF IInv
  <1> QED BY <1>1, Invariants, PTL

\* However many calls of a plan raise, an answer is filed under its own host.
THEOREM AnswersKeepTheirHost == Spec => FiledUnderItsHost
PROOF
  <1>1. Init => Parts
    BY PartsInit
  <1>2. Parts /\ [Next]_vars => Parts'
    BY PartsStep
  <1>3. Parts /\ [Next]_vars => [FilesWell]_vars
    BY FilesWellStep
  <1>4. Spec => [][FilesWell]_vars
    BY <1>1, <1>2, <1>3, PTL DEF Spec
  <1> QED BY <1>4 DEF FiledUnderItsHost, FilesWell

-----------------------------------------------------------------------------
(* The loop. *)

LEMMA BatchLength ==
  ASSUME NEW choices, NEW size \in Nat, NEW batch \in Batches(choices, size)
  PROVE  Len(batch) \in Nat /\ Len(batch) <= size
BY DEF Batches

LEMMA ScanIs ==
  ASSUME TypeOK, ScanInv, node = "scanning"
  PROVE  /\ Cardinality(filed) \in Nat
         /\ NextScan \in Nat /\ NextScan \notin filed
         /\ Cardinality(filed \union {NextScan}) = NextScan
         /\ filed \union {NextScan} = 1..NextScan
PROOF
  <1>1. IsFiniteSet(filed) /\ Cardinality(filed) \in Nat
    BY SlotsFinite DEF TypeOK
  <1>2. filed = 1..Cardinality(filed)
    BY DEF ScanInv
  <1>3. NextScan = Cardinality(filed) + 1
    BY DEF NextScan
  <1>4. NextScan \notin filed /\ filed \union {NextScan} = 1..NextScan
    BY <1>1, <1>2, <1>3
  <1>5. Cardinality(filed \union {NextScan}) = Cardinality(filed) + 1
    BY <1>1, <1>4, FS_AddElement
  <1> QED BY <1>1, <1>3, <1>4, <1>5

\* Filing one more scan moves on to the next.
LEMMA ScanFiled ==
  ASSUME TypeOK, ScanInv, node = "scanning", filed' = filed \union {NextScan}, UNCHANGED flight
  PROVE  ScanInv'
PROOF
  <1>1. NextScan' = NextScan + 1
    BY ScanIs DEF NextScan
  <1>2. filed' = 1..Cardinality(filed')
    BY ScanIs
  <1>3. DOMAIN flight' \subseteq filed'
    BY DEF ScanInv
  <1>4. NextScan' \notin DOMAIN flight'
    BY <1>1, <1>3, ScanIs
  <1> QED BY <1>2, <1>3, <1>4 DEF ScanInv

LEMMA ScanStep ==
  Parts /\ ScanInv /\ TurnInv /\ [Next]_vars => ScanInv'
PROOF
  <1> SUFFICES ASSUME Parts, ScanInv, TurnInv, [Next]_vars, node' = "scanning" PROVE ScanInv'
    BY DEF ScanInv
  <1>0. TypeOK
    BY TypeParts DEF Parts, RecordOk
  <1>1. CASE PlanScans
    <2>1. filed' = {} /\ flight' = <<>>
      BY <1>1 DEF PlanScans, Parts, PlanInv
    <2>2. Cardinality({}) = 0
      BY FS_EmptySet
    <2> QED BY <2>1, <2>2 DEF ScanInv
  <1>2. CASE node = "scanning" /\ filed' = filed \union {NextScan} /\ UNCHANGED flight
    BY <1>0, <1>2, ScanFiled
  <1>3. CASE EndScans
    <2>1. node = "scanning" /\ filed' = DOMAIN questions /\ UNCHANGED <<flight, questions>>
      BY <1>3 DEF EndScans, Scanning, routing
    <2>2. DOMAIN questions = 1..Len(questions) /\ Len(questions) \in Nat
      BY <1>0 DEF TypeOK
    <2>3. Cardinality(filed') = Len(questions)
      <3>1. Cardinality(1..Len(questions)) = IF 1 > Len(questions) THEN 0 ELSE Len(questions) - 1 + 1
        BY <2>2, FS_Interval
      <3> QED BY <2>1, <2>2, <3>1
    <2>4. DOMAIN flight' \subseteq filed'
      BY <1>0, <2>1 DEF TypeOK
    <2>5. NextScan' \notin DOMAIN flight'
      BY <2>1, <2>2, <2>3, <2>4 DEF NextScan
    <2> QED BY <2>1, <2>2, <2>3, <2>4, <2>5 DEF ScanInv
  <1>4. CASE StartScan /\ flight' # flight
    <2>1. node = "scanning" /\ DOMAIN flight' = {NextScan} /\ toolCalls < MaxToolCalls
          /\ UNCHANGED <<filed, toolCalls>>
      BY <1>4 DEF StartScan, Scanning
    <2> QED BY <2>1 DEF ScanInv, NextScan
  <1>5. CASE ServeCall \/ ReturnCall \/ BreakCall \/ RetryCall \/ TimeoutCall
    <2>1. DOMAIN flight' = DOMAIN flight /\ UNCHANGED <<node, filed, toolCalls>>
      BY <1>5 DEF ServeCall, ReturnCall, BreakCall, RetryCall, TimeoutCall, Serve, Return, Break,
           Retry, Timeout, Elsewhere
    <2> QED BY <2>1 DEF ScanInv, NextScan
  <1>6. CASE UNCHANGED <<node, filed, flight, toolCalls>>
    BY <1>6 DEF ScanInv, NextScan
  <1>7. CASE SkipScan \/ StartScan \/ FileScan
    <2>1. CASE SkipScan
      BY <1>2, <2>1 DEF SkipScan, Scanning
    <2>2. CASE FileScan
      BY <1>2, <2>2 DEF FileScan
    <2>3. CASE StartScan
      <3>1. node = "scanning" /\ UNCHANGED toolCalls
        BY <2>3 DEF StartScan, Scanning
      <3>2. CASE filed' = filed \union {NextScan} /\ UNCHANGED flight
        BY <1>2, <3>1, <3>2
      <3>3. CASE UNCHANGED filed
        BY <1>4, <1>6, <2>3, <3>1, <3>3
      <3>4. (filed' = filed \union {NextScan} /\ UNCHANGED flight) \/ UNCHANGED filed
        BY <2>3 DEF StartScan
      <3> QED BY <3>2, <3>3, <3>4
    <2> QED BY <1>7, <2>1, <2>2, <2>3
  <1>8. CASE LoseScan \/ FinishScan \/ PlanObservations \/ RouteCalls \/ RouteTooLong \/ RouteNothing
             \/ CollectAnswers \/ LoseAnswers
    BY <1>8 DEF LoseScan, FinishScan, PlanObservations, RouteCalls, RouteTooLong, RouteNothing,
         CollectAnswers, LoseAnswers
  <1>9. CASE StartCalls \/ NormalizeAnswer \/ FinishEvidence \/ UpdateHypotheses \/ StopGuard \/ BuildPackage
    BY <1>9 DEF StartCalls, NormalizeAnswer, FileAnswer, FinishEvidence, UpdateHypotheses, StopGuard, BuildPackage
  <1>10. CASE UNCHANGED vars
    BY <1>6, <1>10 DEF vars
  <1> QED BY <1>1, <1>3, <1>5, <1>7, <1>8, <1>9, <1>10 DEF Next, Done

LEMMA AnsweredOfBatch ==
  ASSUME TypeOK
  PROVE  Cardinality(Answered) \in Nat /\ Cardinality(Answered) <= Len(questions)
PROOF
  <1>1. DOMAIN questions = 1..Len(questions) /\ Len(questions) \in Nat
    BY DEF TypeOK
  <1>2. IsFiniteSet(DOMAIN questions) /\ Cardinality(DOMAIN questions) = Len(questions)
    <2>1. Cardinality(1..Len(questions)) = IF 1 > Len(questions) THEN 0 ELSE Len(questions) - 1 + 1
      BY <1>1, FS_Interval
    <2> QED BY <1>1, <2>1, FS_Interval
  <1>3. Answered \subseteq DOMAIN questions
    BY DEF TypeOK, Answered
  <1> QED BY <1>2, <1>3, FS_Subset, FS_CardinalityType

LEMMA TurnStep ==
  Parts /\ ScanInv /\ TurnInv /\ [Next]_vars => TurnInv'
PROOF
  <1> SUFFICES ASSUME Parts, ScanInv, TurnInv, [Next]_vars PROVE TurnInv'
    OBVIOUS
  <1>0. /\ TypeOK
        /\ iterations \in Nat /\ attempts \in Nat /\ toolCalls \in Nat /\ stop \in BOOLEAN
        /\ Len(questions) \in Nat
        /\ MaxIterations \in Nat \ {0} /\ MaxRoutingAttempts \in Nat /\ MaxToolCalls \in Nat
        /\ BatchCapacity \in Nat
    BY TypeParts, EvidenceAssumption, RegistryAssumption DEF Parts, RecordOk, TypeOK
  <1>1. CASE PlanScans \/ SkipScan \/ EndScans \/ StartScan
    <2>1. node' \in {"scanning", "raised"} /\ UNCHANGED <<attempts, toolCalls>>
      BY <1>1 DEF PlanScans, SkipScan, EndScans, StartScan, Scanning, routing
    <2>2. attempts = 0
      BY <1>1 DEF TurnInv, PlanScans, SkipScan, EndScans, StartScan, Scanning
    <2> QED BY <2>1, <2>2 DEF TurnInv
  <1>2. CASE FileScan
    <2>1. node = "scanning" /\ NextScan \in DOMAIN flight /\ toolCalls' = toolCalls + 1
          /\ UNCHANGED attempts
      BY <1>2 DEF FileScan, routing
    <2>2. node' \in {"scanning", "raised"}
      BY <1>2, <2>1 DEF FileScan, FileAnswer
    <2>3. toolCalls < MaxToolCalls
      BY <2>1 DEF ScanInv
    <2> QED BY <1>0, <2>1, <2>2, <2>3 DEF TurnInv
  <1>3. CASE FinishScan
    <2>1. node' = "observation_planner" /\ iterations' = 0 /\ attempts' = 0 /\ UNCHANGED toolCalls
      BY <1>3 DEF FinishScan, Parts, PlanInv, TurnInv
    <2> QED BY <1>0, <2>1 DEF TurnInv
  <1>4. CASE PlanObservations
    <2>1. node = "observation_planner" /\ node' = "tool_router" /\ UNCHANGED <<attempts, toolCalls>>
      BY <1>4 DEF PlanObservations
    <2>2. CASE stop
      <3>1. questions = <<>> /\ UNCHANGED <<stop, questions>>
        BY <1>4, <2>1, <2>2 DEF PlanObservations, Parts, PlanInv
      <3> QED BY <1>0, <2>1, <2>2, <3>1 DEF TurnInv
    <2>3. CASE ~stop
      <3>1. /\ iterations' = iterations + 1 /\ stop' = (questions' = <<>>)
            /\ questions' \in Batches(Proposals, AtMost(BatchCapacity, MaxToolCalls - toolCalls))
        BY <1>4, <2>3 DEF PlanObservations
      <3>2. AtMost(BatchCapacity, MaxToolCalls - toolCalls) \in 0..MaxToolCalls - toolCalls
        BY <1>0 DEF AtMost, TurnInv
      <3>3. Len(questions') \in Nat /\ Len(questions') <= AtMost(BatchCapacity, MaxToolCalls - toolCalls)
        BY <3>1, <3>2, BatchLength
      <3>4. toolCalls' + Len(questions') <= MaxToolCalls
        BY <1>0, <2>1, <3>2, <3>3
      <3>5. attempts' <= MaxRoutingAttempts /\ iterations' <= MaxIterations + attempts'
        BY <1>0, <2>1, <2>3, <3>1 DEF TurnInv
      <3>6. stop' <=> questions' = <<>>
        BY <3>1
      <3> QED BY <2>1, <3>4, <3>5, <3>6 DEF TurnInv
    <2> QED BY <1>0, <2>2, <2>3
  <1>5. CASE RouteCalls
    <2>1. node = "tool_router" /\ node' = "tool_executor" /\ attempts' = 0
          /\ UNCHANGED <<toolCalls, questions>>
      BY <1>5 DEF RouteCalls
    <2> QED BY <1>0, <2>1 DEF TurnInv
  <1>6. CASE RouteNothing
    <2>1. node = "tool_router" /\ UNCHANGED <<iterations, toolCalls>>
      BY <1>6 DEF RouteNothing
    <2>2. CASE stop'
      <3>1. node' = "evidence_package_builder"
        BY <1>6, <2>2 DEF RouteNothing
      <3> QED BY <2>1, <3>1 DEF TurnInv
    <2>3. CASE ~stop'
      <3>0. (\E slot \in DOMAIN questions : Retryable(slot)) /\ attempts < MaxRoutingAttempts
            /\ node' = "observation_planner"
        BY <1>6, <2>3, Zenon DEF RouteNothing
      <3>1. /\ node' = "observation_planner" /\ attempts < MaxRoutingAttempts /\ questions # <<>>
            /\ attempts' = attempts + 1
        BY <1>6, <3>0 DEF RouteNothing
      <3>2. ~stop
        BY <1>0, <2>1, <3>1 DEF TurnInv
      <3> QED BY <1>0, <2>1, <3>1, <3>2 DEF TurnInv
    <2> QED BY <2>2, <2>3
  <1>7. CASE CollectAnswers
    <2>1. node = "tool_executor" /\ node' = "evidence_normalizer" /\ attempts' = attempts
          /\ toolCalls' = toolCalls + Cardinality(Answered)
      BY <1>7 DEF CollectAnswers, routing
    <2>2. Cardinality(Answered) \in Nat /\ Cardinality(Answered) <= Len(questions)
      BY <1>0, AnsweredOfBatch
    <2> QED BY <1>0, <2>1, <2>2 DEF TurnInv
  <1>8. CASE StartCalls \/ ServeCall \/ ReturnCall \/ BreakCall \/ RetryCall \/ TimeoutCall
    <2>1. UNCHANGED <<node, stop, toolCalls, iterations, attempts, questions>>
      BY <1>8 DEF StartCalls, ServeCall, ReturnCall, BreakCall, RetryCall, TimeoutCall, Elsewhere, routing
    <2> QED BY <2>1 DEF TurnInv
  <1>9. CASE NormalizeAnswer \/ FinishEvidence \/ UpdateHypotheses
    <2>1. node \in {"evidence_normalizer", "hypothesis_updater"} /\ UNCHANGED <<toolCalls, attempts>>
      BY <1>9 DEF NormalizeAnswer, FinishEvidence, UpdateHypotheses, routing
    <2>2. node' \in {"evidence_normalizer", "hypothesis_updater", "stop_guard", "raised"}
      BY <1>9 DEF NormalizeAnswer, FileAnswer, FinishEvidence, UpdateHypotheses
    <2> QED BY <2>1, <2>2 DEF TurnInv
  <1>10. CASE StopGuard
    <2>1. node = "stop_guard" /\ UNCHANGED <<toolCalls, iterations, attempts>>
      BY <1>10 DEF StopGuard, routing
    <2>2. node' = IF stop' THEN "evidence_package_builder" ELSE "observation_planner"
      BY <1>10 DEF StopGuard
    <2>3. ~stop' => iterations < MaxIterations
      <3>1. ~stop' => ~(iterations >= MaxIterations)
        BY <1>10, Zenon DEF StopGuard
      <3> QED BY <1>0, <3>1
    <2> QED BY <1>0, <2>1, <2>2, <2>3 DEF TurnInv
  <1>11. CASE LoseScan \/ RouteTooLong \/ LoseAnswers \/ BuildPackage
    <2>1. node' \in {"raised", "report_writer", "invalid"} /\ UNCHANGED toolCalls
      BY <1>11 DEF LoseScan, RouteTooLong, LoseAnswers, BuildPackage
    <2> QED BY <2>1 DEF TurnInv
  <1>12. CASE UNCHANGED vars
    BY <1>12 DEF vars, routing, TurnInv
  <1> QED BY <1>1, <1>2, <1>3, <1>4, <1>5, <1>6, <1>7, <1>8, <1>9, <1>10, <1>11, <1>12 DEF Next, Done

LEMMA LoopStarts == Init => ScanInv /\ TurnInv /\ Loop!LoopInit
PROOF
  <1> SUFFICES ASSUME Init PROVE ScanInv /\ TurnInv /\ Loop!LoopInit
    OBVIOUS
  <1>1. MaxToolCalls \in Nat /\ toolCalls \in 0..MaxToolCalls
    BY RegistryAssumption DEF Init
  <1> QED BY <1>1 DEF Init, ScanInv, TurnInv, Loop!LoopInit, LoopPhase

LEMMA LoopSteps ==
  Parts /\ ScanInv /\ TurnInv /\ [Next]_vars => [Loop!LoopNext]_(Loop!loopVars)
PROOF
  <1> SUFFICES ASSUME Parts, ScanInv, TurnInv, [Next]_vars
               PROVE  Loop!LoopNext \/ UNCHANGED Loop!loopVars
    OBVIOUS
  <1>0. /\ TypeOK
        /\ iterations \in Nat /\ attempts \in Nat /\ toolCalls \in Nat /\ stop \in BOOLEAN
        /\ Len(questions) \in Nat
        /\ MaxIterations \in Nat \ {0} /\ MaxRoutingAttempts \in Nat /\ MaxToolCalls \in Nat
        /\ toolCalls <= MaxToolCalls
    BY TypeParts, EvidenceAssumption, RegistryAssumption DEF Parts, RecordOk, TypeOK, TurnInv
  <1> USE DEF LoopPhase, Loop!LoopNext, Loop!loopVars
  \* Steps that leave the loop where it is.
  <1>1. CASE UNCHANGED <<node, stop, iterations, attempts, toolCalls>>
    BY <1>1
  <1>2. CASE StartCalls \/ ServeCall \/ ReturnCall \/ BreakCall \/ RetryCall \/ TimeoutCall \/ UNCHANGED vars
    BY <1>1, <1>2
       DEF StartCalls, ServeCall, ReturnCall, BreakCall, RetryCall, TimeoutCall, Elsewhere, routing, vars
  \* Steps out of the loop.
  <1>3. CASE node' = "raised" /\ UNCHANGED <<iterations, attempts, toolCalls>>
    BY <1>3 DEF Loop!End
  <1>4. CASE RouteTooLong \/ LoseAnswers \/ LoseScan
    BY <1>3, <1>4 DEF RouteTooLong, LoseAnswers, LoseScan, routing
  <1>5. CASE BuildPackage
    BY <1>5 DEF BuildPackage, routing
  <1>6. CASE PlanScans \/ SkipScan \/ EndScans \/ StartScan
    <2>1. node \in {"establish_phenomenon", "scanning"} /\ UNCHANGED <<iterations, attempts, toolCalls>>
      BY <1>6 DEF PlanScans, SkipScan, EndScans, StartScan, Scanning, routing
    <2>2. node' \in {"scanning", "raised"}
      BY <1>6 DEF PlanScans, SkipScan, EndScans, StartScan, Scanning
    <2> QED BY <1>3, <2>1, <2>2
  <1>7. CASE FileScan
    <2>1. node = "scanning" /\ NextScan \in DOMAIN flight /\ toolCalls' = toolCalls + 1
          /\ UNCHANGED <<iterations, attempts>>
      BY <1>7 DEF FileScan, routing
    <2>2. node' \in {"scanning", "raised"}
      BY <1>7, <2>1 DEF FileScan, FileAnswer
    <2>3. toolCalls' \in toolCalls..MaxToolCalls
      BY <1>0, <2>1 DEF ScanInv
    <2> QED BY <2>1, <2>2, <2>3 DEF Loop!Prepare
  <1>8. CASE FinishScan
    <2>1. node = "scanning" /\ node' = "observation_planner" /\ UNCHANGED <<iterations, attempts, toolCalls>>
      BY <1>8 DEF FinishScan
    <2> QED BY <1>0, <2>1 DEF Loop!Prepare
  <1>9. CASE PlanObservations
    <2>1. node = "observation_planner" /\ node' = "tool_router" /\ UNCHANGED <<attempts, toolCalls>>
      BY <1>9 DEF PlanObservations
    <2>2. CASE stop
      BY <1>9, <2>1, <2>2 DEF PlanObservations
    <2>3. CASE ~stop
      <3>1. iterations' = iterations + 1 /\ iterations < MaxIterations + attempts
        BY <1>9, <2>1, <2>3 DEF PlanObservations, TurnInv
      <3> QED BY <2>1, <2>3, <3>1 DEF Loop!Plan
    <2> QED BY <1>0, <2>2, <2>3
  <1>10. CASE RouteCalls
    <2>1. /\ node = "tool_router" /\ node' = "tool_executor" /\ attempts' = 0
          /\ UNCHANGED <<iterations, toolCalls>> /\ planned' \subseteq DOMAIN questions /\ planned' # {}
      BY <1>10 DEF RouteCalls
    <2>2. questions # <<>> /\ Len(questions) > 0
      BY <1>0, <2>1 DEF TypeOK
    <2>3. ~stop /\ toolCalls < MaxToolCalls
      BY <1>0, <2>1, <2>2 DEF TurnInv
    <2> QED BY <2>1, <2>3 DEF Loop!Accept
  <1>11. CASE RouteNothing
    <2>1. node = "tool_router" /\ UNCHANGED <<iterations, toolCalls>>
      BY <1>11 DEF RouteNothing
    <2>2. CASE ~stop'
      <3>1. (\E slot \in DOMAIN questions : Retryable(slot)) /\ attempts < MaxRoutingAttempts
            /\ node' = "observation_planner"
        BY <1>11, <2>2, Zenon DEF RouteNothing
      <3>2. attempts' = attempts + 1 /\ questions # <<>>
        BY <1>11, <3>1 DEF RouteNothing
      <3>3. ~stop
        BY <2>1, <3>2 DEF TurnInv
      <3> QED BY <2>1, <2>2, <3>1, <3>2, <3>3 DEF Loop!Refuse
    <2>3. CASE stop'
      <3>1. node' = "evidence_package_builder"
        BY <1>11, <2>3 DEF RouteNothing
      <3>2. attempts' = IF questions = <<>> THEN attempts ELSE attempts + 1
        BY <1>11 DEF RouteNothing
      <3>3. CASE stop
        <4>1. attempts' = attempts
          BY <2>1, <3>2, <3>3 DEF TurnInv
        <4> QED BY <2>1, <3>1, <3>3, <4>1
      <3>4. CASE ~stop
        BY <2>1, <3>1, <3>2, <3>4 DEF Loop!End
      <3> QED BY <1>0, <3>3, <3>4
    <2> QED BY <2>2, <2>3
  <1>12. CASE CollectAnswers
    <2>1. node = "tool_executor" /\ node' = "evidence_normalizer" /\ UNCHANGED <<iterations, attempts>>
          /\ toolCalls' = toolCalls + Cardinality(Answered)
      BY <1>12 DEF CollectAnswers, routing
    <2>2. Cardinality(Answered) \in Nat /\ toolCalls + Cardinality(Answered) <= MaxToolCalls
      BY <1>0, <2>1, AnsweredOfBatch DEF TurnInv
    <2>3. toolCalls' \in toolCalls..MaxToolCalls
      BY <1>0, <2>1, <2>2
    <2> QED BY <2>1, <2>3 DEF Loop!Call
  <1>13. CASE NormalizeAnswer \/ FinishEvidence \/ UpdateHypotheses
    <2>1. node \in {"evidence_normalizer", "hypothesis_updater"}
          /\ UNCHANGED <<iterations, attempts, toolCalls>>
      BY <1>13 DEF NormalizeAnswer, FinishEvidence, UpdateHypotheses, routing
    <2>2. node' \in {"evidence_normalizer", "hypothesis_updater", "stop_guard", "raised"}
      BY <1>13 DEF NormalizeAnswer, FileAnswer, FinishEvidence, UpdateHypotheses
    <2> QED BY <1>3, <2>1, <2>2
  <1>14. CASE StopGuard
    <2>1. node = "stop_guard" /\ UNCHANGED <<iterations, attempts, toolCalls>>
      BY <1>14 DEF StopGuard, routing
    <2>2. node' = IF stop' THEN "evidence_package_builder" ELSE "observation_planner"
      BY <1>14 DEF StopGuard
    <2>3. CASE stop'
      BY <2>1, <2>2, <2>3 DEF Loop!End
    <2>4. CASE ~stop'
      <3>1. ~(toolCalls >= MaxToolCalls) /\ ~(iterations >= MaxIterations)
        BY <1>14, <2>4, Zenon DEF StopGuard
      <3>2. toolCalls < MaxToolCalls /\ iterations < MaxIterations
        BY <1>0, <3>1
      <3> QED BY <2>1, <2>2, <2>4, <3>2 DEF Loop!Judge
    <2> QED BY <2>3, <2>4
  <1> QED BY <1>2, <1>4, <1>5, <1>6, <1>7, <1>8, <1>9, <1>10, <1>11, <1>12, <1>13, <1>14 DEF Next, Done

\* Scans, batches of calls, broken connections and lost answers included, the
\* collection is the loop that Collector takes, on the same budget and limits.
THEOREM TrailImplementsLoop == Spec => ImplementsLoop
PROOF
  <1>1. Init => Parts /\ ScanInv /\ TurnInv /\ Loop!LoopInit
    BY PartsInit, LoopStarts
  <1>2. Parts /\ ScanInv /\ TurnInv /\ [Next]_vars => (Parts /\ ScanInv /\ TurnInv)'
    BY PartsStep, ScanStep, TurnStep
  <1>3. Parts /\ ScanInv /\ TurnInv /\ [Next]_vars => [Loop!LoopNext]_(Loop!loopVars)
    BY LoopSteps
  <1> QED BY <1>1, <1>2, <1>3, PTL DEF Spec, ImplementsLoop, Loop!LoopSpec

-----------------------------------------------------------------------------
(* How a call ends. *)

CallRunsDown ==
  \A slot \in DOMAIN flight \intersect DOMAIN flight' :
    flight'[slot] # flight[slot] =>
      /\ flight[slot].phase \in UnderWay
      /\ StepsOfCall(flight'[slot]) < StepsOfCall(flight[slot])

LEMMA CallRunsDownStep ==
  ASSUME TypeOK, CallInv, NEW slot \in DOMAIN flight, NEW tool,
         Serve(slot, tool) \/ Return(slot, tool) \/ Break(slot) \/ Retry(slot) \/ Timeout(slot)
  PROVE  CallRunsDown
PROOF
  <1> DEFINE old == flight[slot]
             new == flight'[slot]
  <1>1. /\ old.phase \in Phases /\ old.attempt \in Nat /\ old.attempt <= RetryAttempts
        /\ RetryAttempts \in Nat
    BY CallsAssumption DEF TypeOK, Calls, CallInv, CallOk
  <1>2. \A other \in DOMAIN flight : other # slot => flight'[other] = flight[other]
    BY DEF Serve, Return, Break, Retry, Timeout
  <1> USE DEF UnderWay, Returned, Raised, Unsent, Worded, StepsOfCall
  <1>3. CASE Serve(slot, tool)
    <2>1. old.phase = "sent" /\ new.phase = "served" /\ new.attempt = old.attempt
      BY <1>3 DEF Serve
    <2> QED BY <1>1, <1>2, <2>1 DEF CallRunsDown
  <1>4. CASE Return(slot, tool)
    <2>1. PICK phase \in {"answered", "failed", "verbose", "unrecorded"} :
            flight' = [flight EXCEPT ![slot].phase = phase]
      BY <1>4 DEF Return
    <2>2. old.phase = "served" /\ new = [old EXCEPT !.phase = phase]
      BY <1>4, <2>1 DEF Return
    <2>3. new.phase = phase /\ new.attempt = old.attempt
      BY <2>2 DEF TypeOK, Calls
    <2> QED BY <1>1, <1>2, <2>1, <2>2, <2>3 DEF CallRunsDown
  <1>5. CASE Break(slot)
    <2>1. /\ old.phase \in {"sent", "served"} /\ new.attempt = old.attempt
          /\ new.phase \in {"backoff", "failed", "verbose", "unrecorded"}
      BY <1>5 DEF Break
    <2> QED BY <1>1, <1>2, <2>1 DEF CallRunsDown
  <1>6. CASE Retry(slot)
    <2>1. old.phase = "backoff" /\ new.phase = "sent" /\ new.attempt = old.attempt + 1
      BY <1>6 DEF Retry
    <2> QED BY <1>1, <1>2, <2>1 DEF CallRunsDown
  <1>7. CASE Timeout(slot)
    <2>1. old.phase \in UnderWay /\ new.phase = "failed" /\ new.attempt = old.attempt
      BY <1>7 DEF Timeout
    <2> QED BY <1>1, <1>2, <2>1 DEF CallRunsDown
  <1> QED BY <1>3, <1>4, <1>5, <1>6, <1>7

LEMMA CallsRunDownStep == Parts /\ [Next]_vars => [CallRunsDown]_vars
PROOF
  <1> SUFFICES ASSUME Parts, [Next]_vars PROVE CallRunsDown
    OBVIOUS
  <1>0. TypeOK /\ CallInv
    BY TypeParts DEF Parts, RecordOk, CallsOk
  <1>1. CASE UNCHANGED flight
    BY <1>1 DEF CallRunsDown
  <1>2. CASE DOMAIN flight \intersect DOMAIN flight' = {}
    BY <1>2 DEF CallRunsDown
  <1>3. CASE ServeCall \/ ReturnCall \/ BreakCall \/ RetryCall \/ TimeoutCall
    BY <1>0, <1>3, CallRunsDownStep DEF ServeCall, ReturnCall, BreakCall, RetryCall, TimeoutCall
  <1>4. CASE FinishScan \/ PlanObservations
    <2>1. UNCHANGED flight \/ flight' = <<>>
      BY <1>4 DEF FinishScan, PlanObservations
    <2> QED BY <1>1, <1>2, <2>1
  <1>5. CASE StartCalls
    BY <1>2, <1>5 DEF StartCalls
  <1>6. CASE StartScan
    <2>1. UNCHANGED flight \/ DOMAIN flight' = {NextScan}
      BY <1>6 DEF StartScan
    <2>2. NextScan \notin DOMAIN flight
      BY <1>6 DEF StartScan, Scanning
    <2> QED BY <1>1, <1>2, <2>1, <2>2
  <1>7. CASE PlanScans \/ SkipScan \/ EndScans \/ FileScan \/ LoseScan \/ RouteCalls \/ RouteTooLong
             \/ RouteNothing
    BY <1>1, <1>7 DEF PlanScans, SkipScan, EndScans, FileScan, LoseScan, RouteCalls, RouteTooLong, RouteNothing
  <1>8. CASE CollectAnswers \/ LoseAnswers \/ NormalizeAnswer \/ FinishEvidence \/ UpdateHypotheses
             \/ StopGuard \/ BuildPackage \/ UNCHANGED vars
    BY <1>1, <1>8 DEF CollectAnswers, LoseAnswers, NormalizeAnswer, FinishEvidence, UpdateHypotheses,
         StopGuard, BuildPackage, vars
  <1> QED BY <1>3, <1>4, <1>5, <1>6, <1>7, <1>8 DEF Next, Done

\* A call takes at most three steps for each of its attempts, and no late answer
\* replaces a result: with the clock running, every call ends.
THEOREM EveryCallRunsDown == Spec => CallsRunDown
PROOF
  <1>1. Init => Parts
    BY PartsInit
  <1>2. Parts /\ [Next]_vars => Parts'
    BY PartsStep
  <1>3. Parts /\ [Next]_vars => [CallRunsDown]_vars
    BY CallsRunDownStep
  <1>4. Spec => [][CallRunsDown]_vars
    BY <1>1, <1>2, <1>3, PTL DEF Spec
  <1> QED BY <1>4 DEF CallsRunDown, CallRunsDown
=============================================================================
