-------------------------------- MODULE ReportProofs --------------------------------
(***************************************************************************)
(* Theorems about ReportLife, for any packages, templates and drafts, any  *)
(* marks and any number of their events and deliveries.                    *)
(***************************************************************************)
EXTENDS ReportInvariants, FiniteSetTheorems, TLAPS

-----------------------------------------------------------------------------
(* Reading a report. *)

LEMMA WithLimitsKeeps ==
  ASSUME NEW sections, AreSections(sections), NEW added, NEW id \in DOMAIN sections
  PROVE  /\ id \in DOMAIN WithLimits(sections, added)
         /\ sections[id].items \subseteq WithLimits(sections, added)[id].items
         /\ id = "limitations" => added \subseteq WithLimits(sections, added)[id].items
BY DEF WithLimits, AreSections, Contents

\* What is put back is cited, and what was cited still is.
LEMMA WithLimitsCites ==
  ASSUME NEW sections, AreSections(sections), NEW events
  PROVE  Cited(sections) \union events
           \subseteq Cited(WithLimits(sections, {PutBack(event) : event \in events}))
PROOF
  <1> DEFINE added == {PutBack(event) : event \in events}
             limits == WithLimits(sections, added)
  <1>1. ItemsOf(sections) \subseteq ItemsOf(limits)
    <2> SUFFICES ASSUME NEW id \in DOMAIN sections, NEW item \in sections[id].items
                 PROVE  item \in ItemsOf(limits)
      BY DEF ItemsOf
    <2>1. id \in DOMAIN limits /\ item \in limits[id].items
      BY WithLimitsKeeps
    <2> QED BY <2>1 DEF ItemsOf
  <1>2. added \subseteq ItemsOf(limits)
    <2>1. "limitations" \in DOMAIN limits
      BY DEF WithLimits
    <2>2. CASE "limitations" \in DOMAIN sections
      <3>1. added \subseteq limits["limitations"].items
        BY <2>2, WithLimitsKeeps
      <3> QED BY <2>1, <3>1 DEF ItemsOf
    <2>3. CASE "limitations" \notin DOMAIN sections
      <3>1. limits["limitations"].items = added
        BY <2>3 DEF WithLimits
      <3> QED BY <2>1, <3>1 DEF ItemsOf
    <2> QED BY <2>2, <2>3
  <1>3. ASSUME NEW event \in events
        PROVE  event \in Cited(limits)
    <2>1. PutBack(event) \in ItemsOf(limits)
      BY <1>2
    <2>2. event \in PutBack(event).refs
      BY DEF PutBack
    <2> QED BY <2>1, <2>2 DEF Cited, CitedAsSupport
  <1>4. Cited(sections) \subseteq Cited(limits)
    BY <1>1 DEF Cited, CitedAsSupport
  <1> QED BY <1>3, <1>4

LEMMA EvidenceFinite ==
  ASSUME package \in Packages, NEW sections
  PROVE  IsFiniteSet(Uncited(sections)) /\ Cardinality(Uncited(sections)) \in Nat
PROOF
  <1>1. Uncited(sections) \subseteq Evidence
    BY ReportAssumption DEF Uncited, PackageRecords
  <1>2. IsFiniteSet(Uncited(sections))
    BY <1>1, ReportAssumption, FS_Subset
  <1> QED BY <1>2, FS_CardinalityType

\* Silent limitations do not count as a statement.
LEMMA SilentIsNotStated ==
  ASSUME NEW sections, AreSections(sections), Silent(sections)
  PROVE  ~Stated(sections)
PROOF
  <1> SUFFICES ASSUME "limitations" \in DOMAIN sections, Stated(sections)
               PROVE  FALSE
    BY DEF Stated
  <1> DEFINE limits == sections["limitations"]
  <1>0. limits \in Contents
    BY DEF AreSections
  <1>1. CASE limits.items = {} /\ (limits.body # NoText => limits.body.denies)
    <2>1. CASE limits.body = NoText
      <3>1. TextsOf(limits) = {}
        BY <1>1, <2>1 DEF TextsOf
      <3> QED BY <3>1 DEF Stated
    <2>2. CASE limits.body # NoText
      <3>1. TextsOf(limits) = {limits.body}
        BY <1>1, <2>2 DEF TextsOf
      <3> QED BY <1>1, <2>2, <3>1 DEF Stated
    <2> QED BY <2>1, <2>2
  <1>2. ASSUME NEW item \in limits.items,
               limits = [body |-> NoText, items |-> {item}] /\ item.text.denies
        PROVE  FALSE
    <2>1. limits.body = NoText /\ limits.items = {item}
      BY <1>2
    <2>2. Cardinality(limits.items) = 1
      BY <2>1, FS_Singleton
    <2> QED BY <1>2, <2>1, <2>2 DEF Stated
  <1> QED BY <1>1, <1>2 DEF Silent

-----------------------------------------------------------------------------
(* Types. *)

LEMMA DeliveredIs ==
  ASSUME NEW delivery
  PROVE  delivery \in Delivered <=>
           \E mark \in Marks : \E n \in 1..MaxEvents[mark], k \in 1..Deliveries[mark] :
             delivery = <<mark, n, k>>
BY DEF Delivered

LEMMA TypeInit == Init => TypeOK
PROOF
  <1> SUFFICES ASSUME Init PROVE TypeOK
    OBVIOUS
  <1>1. Cardinality(findings) <= FindingsCapacity
    BY FS_EmptySet, ReportAssumption DEF Init
  <1>2. changes \in [Marks -> Nat] /\ \A mark \in Marks : changes[mark] <= MaxEvents[mark]
    <2>1. \A mark \in Marks : MaxEvents[mark] \in Nat
      BY FeedbackAssumption
    <2> QED BY <2>1 DEF Init
  <1>3. handlers \in [Delivered -> HandlerStates] /\ \A delivery \in Delivered : handlers[delivery] = "waiting"
    BY DEF Init, HandlerStates
  <1> QED BY <1>1, <1>2, <1>3 DEF Init, TypeOK, Stages

LEMMA TypeStep == TypeOK /\ [Next]_vars => TypeOK'
PROOF
  <1> SUFFICES ASSUME TypeOK, [Next]_vars PROVE TypeOK'
    OBVIOUS
  <1> USE DEF TypeOK, Stages, ReportEnds, HandlerStates
  <1>1. CASE WriteReport /\ UNCHANGED said
    BY <1>1 DEF WriteReport, said
  <1>2. CASE EvalReport /\ UNCHANGED said
    BY <1>2 DEF EvalReport, said
  <1>3. CASE PostReport \/ SaveReport \/ SaveNote
    BY <1>3 DEF PostReport, SaveReport, SaveNote, content, said
  <1>4. CASE React
    <2>1. PICK mark \in Marks :
            /\ changes[mark] < MaxEvents[mark]
            /\ changes' = [changes EXCEPT ![mark] = @ + 1]
            /\ clouded' = clouded \union {m \in {mark} : Underway(m)}
      BY <1>4 DEF React
    <2>2. changes' \in [Marks -> Nat] /\ \A m \in Marks : changes[m] <= changes'[m] /\ changes'[m] <= MaxEvents[m]
      <3>1. \A m \in Marks : MaxEvents[m] \in Nat
        BY FeedbackAssumption
      <3> QED BY <2>1, <3>1
    <2>3. \A delivery \in Delivered : delivery[1] \in Marks /\ delivery[2] \in Nat
      BY DeliveredIs
    <2>4. \A delivery \in Delivered : handlers[delivery] # "waiting" => delivery[2] <= changes'[delivery[1]]
      BY <2>2, <2>3
    <2> QED BY <1>4, <2>1, <2>2, <2>4 DEF React, content
  <1>5. CASE FindReport
    <2>1. PICK delivery \in Delivered :
            /\ delivery[2] <= changes[delivery[1]]
            /\ handlers' = [handlers EXCEPT ![delivery] = IF stage = "recorded" THEN "found" ELSE "over"]
            /\ clouded' = clouded \union
                 {mark \in {delivery[1]} : stage # "recorded" \/ delivery[2] < changes[mark]}
      BY <1>5 DEF FindReport
    <2>2. delivery[1] \in Marks
      BY DeliveredIs
    <2> QED BY <1>5, <2>1, <2>2 DEF FindReport, content
  <1>6. CASE SaveFeedback
    <2>1. PICK delivery \in Delivered :
            /\ handlers[delivery] = "found"
            /\ feedback' = feedback \union {delivery[1]}
            /\ handlers' = [handlers EXCEPT
                 ![delivery] = IF delivery[1] \in Critique \ feedback THEN "saved" ELSE "over"]
            /\ clouded' = clouded \union Disturbed(delivery[1])
            /\ UNCHANGED <<stage, content, changes, noted, asked>>
      BY <1>6 DEF SaveFeedback
    <2>2. delivery[1] \in Marks
      BY DeliveredIs
    <2> QED BY <2>1, <2>2 DEF content, Disturbed
  <1>7. CASE CountVerdicts
    BY <1>7 DEF CountVerdicts, content
  <1>8. CASE RemoveFeedback
    BY <1>8 DEF RemoveFeedback, content, Disturbed
  <1>9. CASE LoseHandler
    <2>1. PICK delivery \in Delivered :
            /\ handlers[delivery] \in {"found", "saved"}
            /\ handlers' = [handlers EXCEPT ![delivery] = "over"]
            /\ clouded' = clouded \union {delivery[1], "asking"}
      BY <1>9 DEF LoseHandler
    <2>2. delivery[1] \in Marks
      BY DeliveredIs
    <2> QED BY <1>9, <2>1, <2>2 DEF LoseHandler, content
  <1>10. CASE UNCHANGED vars
    BY <1>10 DEF vars, content, said
  <1> QED
    BY <1>1, <1>2, <1>3, <1>4, <1>5, <1>6, <1>7, <1>8, <1>9, <1>10 DEF Next, Over

-----------------------------------------------------------------------------
(* The report. *)

LEMMA ReportInit == Init => ReportInv
BY DEF Init, ReportInv, Published

LEMMA ReportStep == TypeOK /\ ReportInv /\ [Next]_vars => ReportInv'
PROOF
  <1> SUFFICES ASSUME TypeOK, ReportInv, [Next]_vars PROVE ReportInv'
    OBVIOUS
  <1>1. CASE WriteReport /\ UNCHANGED said
    <2>1. PICK answer \in Drafts :
            IF Acceptable(answer)
              THEN /\ draft' = answer.sections
                   /\ report' \in Reconciled(answer.sections)
                   /\ stage' = "report_eval"
              ELSE /\ stage' = "raised"
                   /\ UNCHANGED <<draft, report>>
      BY <1>1 DEF WriteReport
    <2>2. AreSections(answer.sections)
      BY ReportAssumption DEF IsDraft
    <2>3. UNCHANGED <<package, template, findings>> /\ stage = "report_writer"
      BY <1>1 DEF WriteReport
    <2>4. \A sections : Reconciled(sections)' = Reconciled(sections)'
      OBVIOUS
    <2>5. CASE Acceptable(answer)
      <3>1. AreSections(draft')
        BY <2>1, <2>2, <2>5
      <3>2. report' \in Reconciled(draft)'
        BY <2>1, <2>3, <2>5 DEF Reconciled, Uncited
      <3> QED BY <2>1, <2>3, <2>5, <3>1, <3>2 DEF ReportInv, Published, AreSections
    <2>6. CASE ~Acceptable(answer)
      BY <2>1, <2>3, <2>6 DEF ReportInv, Published
    <2> QED BY <2>5, <2>6
  <1>2. CASE EvalReport /\ UNCHANGED said
    <2>1. UNCHANGED <<package, template, draft, report>> /\ stage = "report_eval"
      BY <1>2 DEF EvalReport
    <2>2. AreSections(draft)' /\ (report \in Reconciled(draft))'
      BY <2>1 DEF ReportInv, AreSections, Reconciled, Uncited
    <2>3. findings' = FindingsOf(report)'
      BY <1>2, <2>1 DEF EvalReport, FindingsOf, UnresolvedRefs, UngroundedCounts, Grounded,
           HiddenOmissions, UnadmittedUnknowns, UnansweredSections, Empty, UnadmittedCause, Unsupported
    <2>4. stage' \in {"publish", "invalid"}
      BY <1>2 DEF EvalReport
    <2> QED BY <2>2, <2>3, <2>4 DEF ReportInv
  <1>3. ASSUME UNCHANGED content,
               \/ UNCHANGED stage
               \/ stage \in Published /\ stage' \in Published
        PROVE  ReportInv'
    <2>1. UNCHANGED <<package, template, draft, report, findings>>
      BY <1>3 DEF content
    <2>2. AreSections(draft)' <=> AreSections(draft)
      BY <2>1 DEF AreSections
    <2>3. (report \in Reconciled(draft))' <=> report \in Reconciled(draft)
      BY <2>1 DEF Reconciled, Uncited
    <2>4. FindingsOf(report)' = FindingsOf(report)
      BY <2>1 DEF FindingsOf, UnresolvedRefs, UngroundedCounts, Grounded,
           HiddenOmissions, UnadmittedUnknowns, UnansweredSections, Empty, UnadmittedCause, Unsupported
    <2> QED BY <1>3, <2>1, <2>2, <2>3, <2>4 DEF ReportInv, Published
  <1>4. CASE PostReport \/ SaveReport
    BY <1>3, <1>4 DEF PostReport, SaveReport, Published
  <1>5. CASE React \/ FindReport \/ LoseHandler \/ SaveNote
    BY <1>3, <1>5 DEF React, FindReport, LoseHandler, SaveNote
  <1>6. CASE SaveFeedback \/ CountVerdicts \/ RemoveFeedback
    BY <1>3, <1>6 DEF SaveFeedback, CountVerdicts, RemoveFeedback
  <1>7. CASE UNCHANGED vars
    BY <1>3, <1>7 DEF vars
  <1> QED
    BY <1>1, <1>2, <1>4, <1>5, <1>6, <1>7 DEF Next, Over

LEMMA MentionedBecause == TypeOK /\ ReportInv => EventsMentioned
PROOF
  <1> SUFFICES ASSUME TypeOK, ReportInv, stage \in Published,
                      "limitations" \in template.declared,
                      ~(Cardinality(Uncited(draft)) > ReconcileLimit)
               PROVE  package.evidence \intersect Events \subseteq Cited(report)
    BY DEF EventsMentioned
  <1>1. AreSections(draft) /\ report \in Reconciled(draft)
    BY DEF ReportInv
  <1>2. package.evidence \intersect Events \subseteq Cited(draft) \union Uncited(draft)
    BY DEF Uncited
  <1>3. CASE Uncited(draft) = {}
    BY <1>1, <1>2, <1>3 DEF Reconciled
  <1>4. CASE Uncited(draft) # {}
    <2>1. PICK events \in SUBSET Uncited(draft) :
            /\ \/ events = Uncited(draft) /\ Cardinality(events) <= ReconcileLimit
               \/ Cardinality(events) = ReconcileLimit
            /\ report = WithLimits(draft, {PutBack(event) : event \in events})
      BY <1>1, <1>4 DEF Reconciled
    <2>2. IsFiniteSet(Uncited(draft)) /\ Cardinality(Uncited(draft)) \in Nat
      BY EvidenceFinite DEF TypeOK
    <2>3. Cardinality(Uncited(draft)) <= ReconcileLimit
      BY <2>2, ReportAssumption
    <2>4. Cardinality(events) <= Cardinality(Uncited(draft))
      BY <2>2, FS_Subset
    <2>5. events = Uncited(draft)
      <3>1. SUFFICES ASSUME Cardinality(events) = ReconcileLimit
                     PROVE  events = Uncited(draft)
        BY <2>1
      <3>2. Cardinality(events) = Cardinality(Uncited(draft))
        BY <2>2, <2>3, <2>4, <3>1, ReportAssumption
      <3> QED BY <2>2, <3>2, FS_Subset
    <2> QED BY <1>1, <1>2, <2>1, <2>5, WithLimitsCites
  <1> QED BY <1>3, <1>4

LEMMA SilenceBecause == ReportInv => SilenceRecorded
PROOF
  <1> SUFFICES ASSUME ReportInv, stage \in Published, Silent(draft), report = draft, findings = {}
               PROVE  /\ ~Unsupported
                      /\ Empty(draft) = {}
                      /\ package.unknowns => "limitations" \notin DOMAIN draft
    BY DEF SilenceRecorded
  <1>1. ~Stated(draft)
    BY SilentIsNotStated DEF ReportInv
  <1>2. FindingsOf(draft) = {}
    BY DEF ReportInv
  <1>3. ~Unsupported
    BY <1>1, <1>2 DEF FindingsOf, UnadmittedCause
  <1>4. Empty(draft) = {}
    BY <1>1, <1>2 DEF FindingsOf, UnansweredSections
  <1>5. package.unknowns => "limitations" \notin DOMAIN draft
    BY <1>1, <1>2 DEF FindingsOf, UnadmittedUnknowns
  <1> QED BY <1>3, <1>4, <1>5

-----------------------------------------------------------------------------
(* The verdicts. *)

LEMMA DeliveryShape ==
  ASSUME NEW delivery \in Delivered
  PROVE  /\ delivery[1] \in Marks
         /\ delivery[2] \in 1..MaxEvents[delivery[1]]
         /\ delivery[2] \in Nat
         /\ delivery = <<delivery[1], delivery[2], delivery[3]>>
  <1>1. \A mark \in Marks : MaxEvents[mark] \in Nat
    BY FeedbackAssumption
  <1> QED BY <1>1, DeliveredIs

\* The first delivery of a mark's last event.
LEMMA FirstDelivery ==
  ASSUME TypeOK, NEW mark \in Marks, changes[mark] # 0
  PROVE  <<mark, changes[mark], 1>> \in Delivered
  <1>1. MaxEvents[mark] \in Nat /\ Deliveries[mark] \in Nat \ {0}
    BY FeedbackAssumption
  <1>2. changes[mark] \in 1..MaxEvents[mark] /\ 1 \in 1..Deliveries[mark]
    BY <1>1 DEF TypeOK
  <1> QED BY <1>2, DeliveredIs

LEMMA MirrorBecause == TypeOK /\ MarkInv => VerdictsMirror
PROOF
  <1> SUFFICES ASSUME TypeOK, MarkInv, NEW mark \in Marks \ clouded, ~Underway(mark)
               PROVE  mark \in feedback <=> changes[mark] % 2 = 1
    BY DEF VerdictsMirror
  <1>1. CASE changes[mark] = 0
    BY <1>1 DEF MarkInv
  <1>2. CASE changes[mark] # 0
    <2> DEFINE last == <<mark, changes[mark], 1>>
    <2>1. last \in OfMark(mark)
      BY <1>2, FirstDelivery DEF OfMark
    <2>2. handlers[last] \in HandlerStates
      BY <2>1 DEF OfMark, TypeOK
    <2>3. handlers[last] = "over"
      BY <2>1, <2>2 DEF Underway, OfMark, HandlerStates, TypeOK
    <2> QED BY <2>1, <2>3 DEF MarkInv
  <1> QED BY <1>1, <1>2

LEMMA MarkInit == Init => MarkInv
BY DEF Init, MarkInv, OfMark

LEMMA MarkStep == TypeOK /\ MarkInv /\ [Next]_vars => MarkInv'
PROOF
  <1> SUFFICES ASSUME TypeOK, MarkInv, [Next]_vars PROVE MarkInv'
    OBVIOUS
  <1> USE DEF OfMark
  <1>0. ASSUME UNCHANGED <<changes, handlers, feedback, clouded>>
        PROVE  MarkInv'
    BY <1>0 DEF MarkInv
  <1>1. CASE (WriteReport \/ EvalReport) /\ UNCHANGED said
    BY <1>0, <1>1 DEF said
  <1>2. CASE PostReport \/ SaveReport \/ SaveNote
    BY <1>0, <1>2 DEF PostReport, SaveReport, SaveNote, said
  <1>3. CASE React
    <2>1. PICK mark \in Marks :
            /\ changes' = [changes EXCEPT ![mark] = @ + 1]
            /\ clouded' = clouded \union {m \in {mark} : Underway(m)}
      BY <1>3 DEF React
    <2>2. UNCHANGED <<handlers, feedback>>
      BY <1>3 DEF React
    <2> SUFFICES ASSUME NEW m \in Marks \ clouded'
                 PROVE  /\ changes'[m] = 0 => m \notin feedback
                        /\ \A delivery \in OfMark(m) :
                             /\ handlers[delivery] \in {"found", "saved"} => delivery[2] = changes'[m]
                             /\ handlers[delivery] \in {"saved", "over"} /\ delivery[2] = changes'[m] =>
                                  (m \in feedback <=> changes'[m] % 2 = 1)
      BY <2>2 DEF MarkInv
    <2>3. m \in Marks \ clouded
      BY <2>1
    <2>4. CASE m # mark
      BY <2>1, <2>3, <2>4 DEF TypeOK, MarkInv
    <2>5. CASE m = mark
      <3>1. ~Underway(m)
        BY <2>1, <2>5
      <3>2. changes'[m] = changes[m] + 1 /\ changes[m] \in Nat
        BY <2>1, <2>5 DEF TypeOK
      <3>3. ASSUME NEW delivery \in OfMark(m)
            PROVE  /\ handlers[delivery] \notin {"found", "saved"}
                   /\ delivery[2] = changes'[m] => handlers[delivery] = "waiting"
        <4>1. handlers[delivery] \notin {"found", "saved"}
          BY <3>1, <3>3 DEF Underway
        <4>2. handlers[delivery] # "waiting" => delivery[2] <= changes[m]
          BY <3>3 DEF TypeOK
        <4> QED BY <3>2, <4>1, <4>2
      <3> QED BY <3>2, <3>3
    <2> QED BY <2>4, <2>5
  <1>4. CASE FindReport
    <2>1. PICK delivery \in Delivered :
            /\ delivery[2] <= changes[delivery[1]]
            /\ handlers' = [handlers EXCEPT ![delivery] = IF stage = "recorded" THEN "found" ELSE "over"]
            /\ clouded' = clouded \union
                 {mark \in {delivery[1]} : stage # "recorded" \/ delivery[2] < changes[mark]}
      BY <1>4 DEF FindReport
    <2>2. UNCHANGED <<changes, feedback>>
      BY <1>4 DEF FindReport
    <2> SUFFICES ASSUME NEW m \in Marks \ clouded', NEW other \in OfMark(m)
                 PROVE  /\ handlers'[other] \in {"found", "saved"} => other[2] = changes[m]
                        /\ handlers'[other] \in {"saved", "over"} /\ other[2] = changes[m] =>
                             (m \in feedback <=> changes[m] % 2 = 1)
      BY <2>1, <2>2 DEF MarkInv
    <2>3. m \in Marks \ clouded
      BY <2>1
    <2>4. CASE other # delivery
      BY <2>1, <2>3, <2>4 DEF TypeOK, MarkInv
    <2>5. CASE other = delivery
      <3>1. stage = "recorded" /\ ~(delivery[2] < changes[m])
        BY <2>1, <2>5
      <3>2. delivery[2] \in Nat /\ changes[m] \in Nat /\ delivery[2] <= changes[m]
        BY <2>1, <2>5, DeliveryShape DEF TypeOK
      <3>3. delivery[2] = changes[m]
        BY <3>1, <3>2
      <3> QED BY <2>1, <2>5, <3>1, <3>3 DEF TypeOK
    <2> QED BY <2>4, <2>5
  <1>5. ASSUME NEW delivery \in Delivered,
               handlers[delivery] \in {"found", "saved"},
               NEW step \in {"saved", "over"},
               handlers' = [handlers EXCEPT ![delivery] = step],
               UNCHANGED changes,
               clouded \subseteq clouded',
               \A m \in Marks : m # delivery[1] => (m \in feedback' <=> m \in feedback),
               delivery[1] \in clouded' \/ (delivery[1] \in feedback' <=> delivery[2] % 2 = 1)
        PROVE  MarkInv'
    <2> SUFFICES ASSUME NEW m \in Marks \ clouded'
                 PROVE  /\ changes[m] = 0 => m \notin feedback'
                        /\ \A other \in OfMark(m) :
                             /\ handlers'[other] \in {"found", "saved"} => other[2] = changes[m]
                             /\ handlers'[other] \in {"saved", "over"} /\ other[2] = changes[m] =>
                                  (m \in feedback' <=> changes[m] % 2 = 1)
      BY <1>5 DEF MarkInv
    <2>1. m \in Marks \ clouded
      BY <1>5
    <2>2. CASE m # delivery[1]
      BY <1>5, <2>1, <2>2 DEF TypeOK, MarkInv
    <2>3. CASE m = delivery[1]
      <3>1. delivery[2] = changes[m] /\ changes[m] # 0
        BY <1>5, <2>1, <2>3, DeliveryShape DEF MarkInv
      <3>2. m \in feedback' <=> changes[m] % 2 = 1
        BY <1>5, <2>3, <3>1
      <3>3. \A other \in OfMark(m) : handlers'[other] \in {"found", "saved"} => other[2] = changes[m]
        BY <1>5, <2>1, <2>3, <3>1 DEF TypeOK, MarkInv
      <3> QED BY <3>1, <3>2, <3>3
    <2> QED BY <2>2, <2>3
  <1>6. CASE SaveFeedback
    <2>1. PICK delivery \in Delivered :
            /\ handlers[delivery] = "found" /\ Adds(delivery)
            /\ feedback' = feedback \union {delivery[1]}
            /\ handlers' = [handlers EXCEPT
                 ![delivery] = IF delivery[1] \in Critique \ feedback THEN "saved" ELSE "over"]
            /\ clouded' = clouded \union Disturbed(delivery[1])
            /\ UNCHANGED changes
      BY <1>6 DEF SaveFeedback
    <2>2. PICK step \in {"saved", "over"} : handlers' = [handlers EXCEPT ![delivery] = step]
      BY <2>1
    <2> QED BY <1>5, <2>1, <2>2 DEF Adds
  <1>7. CASE CountVerdicts
    <2>1. PICK delivery \in Delivered :
            /\ handlers[delivery] = "saved"
            /\ handlers' = [handlers EXCEPT ![delivery] = "over"]
            /\ UNCHANGED <<changes, feedback, clouded>>
      BY <1>7 DEF CountVerdicts
    <2>2. delivery[1] \in clouded \/ delivery[2] = changes[delivery[1]]
      BY <2>1, DeliveryShape DEF MarkInv
    <2>3. delivery[1] \in clouded \/ (delivery[1] \in feedback <=> changes[delivery[1]] % 2 = 1)
      BY <2>1, <2>2, DeliveryShape DEF MarkInv
    <2> QED BY <1>5, <2>1, <2>2, <2>3
  <1>8. CASE RemoveFeedback
    <2>1. PICK delivery \in Delivered :
            /\ handlers[delivery] = "found" /\ ~Adds(delivery)
            /\ feedback' = feedback \ {delivery[1]}
            /\ handlers' = [handlers EXCEPT ![delivery] = "over"]
            /\ clouded' = clouded \union Disturbed(delivery[1])
            /\ UNCHANGED changes
      BY <1>8 DEF RemoveFeedback
    <2> QED BY <1>5, <2>1 DEF Adds
  <1>9. CASE LoseHandler
    <2>1. PICK delivery \in Delivered :
            /\ handlers[delivery] \in {"found", "saved"}
            /\ handlers' = [handlers EXCEPT ![delivery] = "over"]
            /\ clouded' = clouded \union {delivery[1], "asking"}
            /\ UNCHANGED <<changes, feedback>>
      BY <1>9 DEF LoseHandler
    <2> QED BY <1>5, <2>1
  <1>10. CASE UNCHANGED vars
    BY <1>0, <1>10 DEF vars, said
  <1> QED
    BY <1>1, <1>2, <1>3, <1>4, <1>6, <1>7, <1>8, <1>9, <1>10 DEF Next, Over

-----------------------------------------------------------------------------
(* The request to explain. *)

LEMMA AskedBecause == OnceInv /\ AskInv => AskedOnce
BY DEF OnceInv, AskInv, AskedOnce, Counting, Bad

LEMMA OnceInit == Init => OnceInv /\ AskInv
BY DEF Init, OnceInv, AskInv, Bad

Few == \A mark \in Critique : changes[mark] <= 1
Counter(delivery) == handlers[delivery] = "saved"

\* A step that leaves the verdicts and asks nobody; if it ends a count, the
\* asking is disturbed.
LEMMA AskKept ==
  ASSUME OnceInv, AskInv, Few' => Few,
         \A delivery \in Delivered : Counter(delivery)' => Counter(delivery),
         \/ "asking" \in clouded'
         \/ \A delivery \in Delivered : Counter(delivery) => Counter(delivery)',
         clouded \subseteq clouded', noted => noted', feedback' = feedback, asked' = asked
  PROVE  OnceInv' /\ AskInv'
PROOF
  <1>1. Bad' = Bad
    BY DEF Bad
  <1>2. OnceInv'
    BY <1>1 DEF OnceInv, Few, Counter
  <1>3. AskInv'
    BY <1>1 DEF AskInv, Counter
  <1> QED BY <1>2, <1>3

LEMMA OneBad ==
  ASSUME TypeOK
  PROVE  Cardinality(Bad) = 1 <=> \E mark \in Critique : Bad = {mark}
PROOF
  <1>1. IsFiniteSet(Bad)
    BY FeedbackAssumption, FS_Subset DEF Bad, Critique
  <1>2. Cardinality(Bad) = 1 <=> \E mark : Bad = {mark}
    BY <1>1, FS_Singleton
  <1> QED BY <1>2 DEF Bad

LEMMA AskStep == TypeOK /\ OnceInv /\ AskInv /\ [Next]_vars => OnceInv' /\ AskInv'
PROOF
  <1> SUFFICES ASSUME TypeOK, OnceInv, AskInv, [Next]_vars PROVE OnceInv' /\ AskInv'
    OBVIOUS
  <1>0. ASSUME UNCHANGED <<changes, handlers, feedback, clouded, asked>>, noted => noted'
        PROVE  OnceInv' /\ AskInv'
    BY <1>0, AskKept DEF Few, Counter
  <1>1. CASE (WriteReport \/ EvalReport) /\ UNCHANGED said
    BY <1>0, <1>1 DEF said
  <1>2. CASE PostReport \/ SaveReport \/ SaveNote
    BY <1>0, <1>2 DEF PostReport, SaveReport, SaveNote, said
  <1>3. CASE React
    <2>1. Few' => Few
      BY <1>3 DEF React, Few, TypeOK, Critique
    <2>2. UNCHANGED <<handlers, feedback, noted, asked>> /\ clouded \subseteq clouded'
      BY <1>3 DEF React
    <2> QED BY <2>1, <2>2, AskKept DEF Counter
  <1>4. CASE FindReport
    <2>1. PICK delivery \in Delivered :
            /\ handlers[delivery] = "waiting"
            /\ handlers' = [handlers EXCEPT ![delivery] = IF stage = "recorded" THEN "found" ELSE "over"]
      BY <1>4 DEF FindReport
    <2>2. UNCHANGED <<changes, feedback, noted, asked>> /\ clouded \subseteq clouded'
      BY <1>4 DEF FindReport
    <2>3. \A other \in Delivered : Counter(other)' <=> Counter(other)
      BY <2>1 DEF Counter, TypeOK
    <2> QED BY <2>2, <2>3, AskKept DEF Few
  <1>5. CASE LoseHandler
    <2>1. PICK delivery \in Delivered :
            /\ handlers' = [handlers EXCEPT ![delivery] = "over"]
            /\ clouded' = clouded \union {delivery[1], "asking"}
            /\ UNCHANGED <<changes, feedback, noted, asked>>
      BY <1>5 DEF LoseHandler
    <2>2. \A other \in Delivered : Counter(other)' => Counter(other)
      BY <2>1 DEF Counter, TypeOK
    <2> QED BY <2>1, <2>2, AskKept DEF Few
  <1>6. CASE SaveFeedback
    <2>1. PICK delivery \in Delivered :
            /\ handlers[delivery] = "found" /\ Adds(delivery)
            /\ feedback' = feedback \union {delivery[1]}
            /\ handlers' = [handlers EXCEPT
                 ![delivery] = IF delivery[1] \in Critique \ feedback THEN "saved" ELSE "over"]
            /\ clouded' = clouded \union Disturbed(delivery[1])
            /\ UNCHANGED <<changes, noted, asked>>
      BY <1>6 DEF SaveFeedback
    <2>2. CASE delivery[1] \in Critique \ feedback
      <3>1. handlers' = [handlers EXCEPT ![delivery] = "saved"] /\ Bad' = Bad \union {delivery[1]}
        BY <2>1, <2>2 DEF Bad
      <3>2. \A other \in Delivered : Counter(other)' <=> other = delivery \/ Counter(other)
        BY <3>1 DEF Counter, TypeOK
      <3>3. delivery[1] \notin Bad
        BY <2>2 DEF Bad
      <3>4. OnceInv'
        <4> SUFFICES ASSUME Few PROVE OnceInv'
          BY <2>1 DEF OnceInv, Few
        <4>1. \A other \in Delivered : Counter(other) => other[1] \in Bad
          BY DEF OnceInv, Few, Counter
        <4>2. \A other \in Delivered : Counter(other)' => other[1] \in Bad'
          BY <3>1, <3>2, <4>1
        <4>3. \A one, other \in Delivered :
                Counter(one)' /\ Counter(other)' /\ one[1] = other[1] => one = other
          BY <3>2, <3>3, <4>1 DEF OnceInv, Few, Counter
        <4>4. asked = 1 => \A other \in Delivered : Counter(other)' => Bad' # {other[1]}
          <5> SUFFICES ASSUME asked = 1, NEW other \in Delivered, Counter(other)'
                       PROVE  Bad' # {other[1]}
            OBVIOUS
          <5>1. Bad # {} /\ delivery[1] \in Bad'
            BY <3>1 DEF OnceInv, Few
          <5> QED BY <3>1, <3>3, <5>1
        <4> QED BY <2>1, <3>1, <4>2, <4>3, <4>4 DEF OnceInv, Few, Counter
      <3>5. AskInv'
        <4>1. CASE Counting
          BY <2>1, <2>2, <4>1 DEF Disturbed, AskInv
        <4>2. CASE ~Counting
          BY <2>1, <3>1, <3>2, <4>2 DEF AskInv, Counting, Counter
        <4> QED BY <4>1, <4>2
      <3> QED BY <3>4, <3>5
    <2>3. CASE delivery[1] \notin Critique \ feedback
      <3>1. handlers' = [handlers EXCEPT ![delivery] = "over"] /\ Bad' = Bad
        BY <2>1, <2>3 DEF Bad
      <3>2. \A other \in Delivered : Counter(other)' <=> Counter(other)
        BY <2>1, <3>1 DEF Counter, TypeOK
      <3> QED BY <2>1, <3>1, <3>2 DEF OnceInv, AskInv, Counter
    <2> QED BY <2>2, <2>3
  <1>7. CASE CountVerdicts
    <2>1. PICK delivery \in Delivered :
            /\ handlers[delivery] = "saved"
            /\ asked' = IF Cardinality(Bad) = 1 /\ ~noted THEN asked + 1 ELSE asked
            /\ handlers' = [handlers EXCEPT ![delivery] = "over"]
            /\ UNCHANGED <<changes, feedback, noted, clouded>>
      BY <1>7 DEF CountVerdicts, Bad
    <2>2. Bad' = Bad
      BY <2>1 DEF Bad
    <2>3. \A other \in Delivered : Counter(other)' <=> other # delivery /\ Counter(other)
      BY <2>1 DEF Counter, TypeOK
    <2>4. asked \in Nat
      BY DEF TypeOK
    <2>5. CASE Cardinality(Bad) = 1 /\ ~noted
      <3>1. PICK mark \in Critique : Bad = {mark}
        BY <2>5, OneBad
      <3>2. asked' = asked + 1
        BY <2>1, <2>5
      <3>3. OnceInv'
        <4> SUFFICES ASSUME Few PROVE OnceInv'
          BY <2>1 DEF OnceInv, Few
        <4>1. delivery[1] = mark
          BY <2>1, <3>1 DEF OnceInv, Few
        <4>2. asked' = 1
          BY <2>1, <2>4, <3>1, <3>2, <4>1 DEF OnceInv, Few
        <4>3. \A other \in Delivered : Counter(other)' => other[1] # mark
          BY <2>1, <2>3, <4>1 DEF OnceInv, Few, Counter
        <4> QED BY <2>2, <2>3, <3>1, <4>2, <4>3 DEF OnceInv, Few, Counter
      <3> QED BY <2>4, <3>2, <3>3 DEF AskInv
    <2>6. CASE ~(Cardinality(Bad) = 1 /\ ~noted)
      <3>1. asked' = asked
        BY <2>1, <2>6
      <3>2. OnceInv'
        BY <2>1, <2>2, <2>3, <3>1 DEF OnceInv, Counter
      <3>3. noted \/ ~\E other \in Delivered : handlers[other] = "saved" /\ Bad = {other[1]}
        <4> SUFFICES ASSUME NEW other \in Delivered, Bad = {other[1]}
                     PROVE  noted
          OBVIOUS
        <4>1. Cardinality(Bad) = 1
          BY FS_Singleton
        <4> QED BY <2>6, <4>1
      <3> QED BY <2>1, <2>2, <3>1, <3>2, <3>3 DEF AskInv
    <2> QED BY <2>5, <2>6
  <1>8. CASE RemoveFeedback
    <2>1. PICK delivery \in Delivered :
            /\ handlers[delivery] = "found" /\ ~Adds(delivery)
            /\ feedback' = feedback \ {delivery[1]}
            /\ handlers' = [handlers EXCEPT ![delivery] = "over"]
            /\ clouded' = clouded \union Disturbed(delivery[1])
            /\ UNCHANGED <<changes, noted, asked>>
      BY <1>8 DEF RemoveFeedback
    <2>2. \A other \in Delivered : Counter(other)' <=> Counter(other)
      BY <2>1 DEF Counter, TypeOK
    <2>3. CASE delivery[1] \in Critique
      <3>1. ~Few
        <4>1. delivery[2] # 1 /\ delivery[2] <= changes[delivery[1]] /\ delivery[2] \in Nat \ {0}
          BY <2>1, DeliveryShape DEF TypeOK, Adds
        <4>2. changes[delivery[1]] \in Nat
          BY DeliveryShape DEF TypeOK
        <4>3. changes[delivery[1]] > 1
          BY <4>1, <4>2
        <4> QED BY <2>3, <4>2, <4>3 DEF Few
      <3>2. OnceInv'
        BY <2>1, <3>1 DEF OnceInv, Few
      <3>3. AskInv'
        <4>1. CASE Counting
          BY <2>1, <2>3, <4>1 DEF Disturbed, AskInv
        <4>2. CASE ~Counting
          BY <2>1, <4>2 DEF AskInv, Counting, Bad
        <4> QED BY <4>1, <4>2
      <3> QED BY <3>2, <3>3
    <2>4. CASE delivery[1] \notin Critique
      <3>1. Bad' = Bad
        BY <2>1, <2>4 DEF Bad
      <3> QED BY <2>1, <2>2, <3>1 DEF OnceInv, AskInv, Counter
    <2> QED BY <2>3, <2>4
  <1>9. CASE UNCHANGED vars
    BY <1>0, <1>9 DEF vars, said
  <1> QED
    BY <1>1, <1>2, <1>3, <1>4, <1>5, <1>6, <1>7, <1>8, <1>9 DEF Next, Over

-----------------------------------------------------------------------------
(* The theorems. *)

LEMMA Invariants == Spec => []IInv
PROOF
  <1>1. Init => IInv
    BY TypeInit, ReportInit, MarkInit, OnceInit DEF IInv
  <1>2. IInv /\ [Next]_vars => IInv'
    BY TypeStep, ReportStep, MarkStep, AskStep DEF IInv
  <1> QED BY <1>1, <1>2, PTL DEF Spec

\* The verdicts stay those of people, the handlers within what was sent, and a
\* state that is not refused holds no more findings than it may.
THEOREM TypesHold == Spec => []TypeOK
PROOF
  <1>1. IInv => TypeOK
    BY DEF IInv
  <1> QED BY <1>1, Invariants, PTL

\* Whatever the writer leaves out, a published report mentions every event, as
\* far as the template and the limit of what is put back allow.
THEOREM ReportsMentionEvents == Spec => []EventsMentioned
PROOF
  <1>1. IInv => EventsMentioned
    BY MentionedBecause DEF IInv
  <1> QED BY <1>1, Invariants, PTL

\* A writer that is silent about the limits of its investigation is on record.
THEOREM SilenceIsRecorded == Spec => []SilenceRecorded
PROOF
  <1>1. IInv => SilenceRecorded
    BY SilenceBecause DEF IInv
  <1> QED BY <1>1, Invariants, PTL

\* However deliveries interleave, the thread is asked at most once while no bad
\* verdict is taken back, and at least once where nothing disturbed the count.
THEOREM ThreadIsAskedOnce == Spec => []AskedOnce
PROOF
  <1>1. IInv => AskedOnce
    BY AskedBecause DEF IInv
  <1> QED BY <1>1, Invariants, PTL

\* However often Slack sends what was done, an undisturbed mark ends up stored
\* as it is on the message.
THEOREM StoredVerdictsMirror == Spec => []VerdictsMirror
PROOF
  <1>1. IInv => VerdictsMirror
    BY MirrorBecause DEF IInv
  <1> QED BY <1>1, Invariants, PTL
=============================================================================
