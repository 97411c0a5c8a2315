-------------------------------- MODULE ReportLife --------------------------------
(***************************************************************************)
(* The life of one report: written and checked by rca-api, published by    *)
(* ingress, and judged by the people who read it.                          *)
(***************************************************************************)
EXTENDS Feedback

\* Nobody has to react to a report that is on record.
Over == stage \in ReportEnds \union {"recorded"} /\ UNCHANGED vars

Next ==
  \/ (WriteReport \/ EvalReport) /\ UNCHANGED said
  \/ PostReport \/ SaveReport
  \/ React \/ FindReport \/ SaveFeedback \/ CountVerdicts \/ RemoveFeedback \/ LoseHandler \/ SaveNote
  \/ Over

Spec == Init /\ [][Next]_vars

-----------------------------------------------------------------------------
(* Safety. *)

Published == {"publish", "posted", "recorded"}

\* No event the investigation collected leaves it unmentioned: it is cited, or
\* it is among those put back, unless the template has no limitations or more
\* events were left out than are put back.
EventsMentioned ==
  stage \in Published =>
    \/ package.evidence \intersect Events \subseteq Cited(report)
    \/ "limitations" \notin template.declared
    \/ Cardinality(Uncited(draft)) > ReconcileLimit

Silent(sections) ==
  "limitations" \in DOMAIN sections =>
    LET limits == sections["limitations"]
    IN  \/ limits.items = {} /\ (limits.body # NoText => limits.body.denies)
        \/ \E item \in limits.items : limits = [body |-> NoText, items |-> {item}] /\ item.text.denies

\* Whoever states no limit in the report of an investigation that ran into one
\* is on record: nothing was supported, or a section that is required was left
\* empty, or unknowns are met by limitations that say nothing.  A report whose
\* draft was silent escapes by the events that were put back, and by having no
\* limitations that could be held against its unknowns.
SilenceRecorded ==
  stage \in Published /\ Silent(draft) =>
    \/ findings # {}
    \/ report # draft
    \/ /\ ~Unsupported
       /\ Empty(draft) = {}
       /\ package.unknowns => "limitations" \notin DOMAIN draft

\* Nobody is asked twice to explain unless a bad verdict was taken back, and
\* where one stands without a note somebody was asked, unless another bad
\* verdict came or went between the row and the count, or a handler was lost.
AskedOnce ==
  /\ (\A mark \in Critique : changes[mark] <= 1) => asked <= 1
  /\ feedback \intersect Critique # {} /\ ~noted /\ ~Counting /\ "asking" \notin clouded => asked >= 1

\* Once its events are handled a verdict is stored just when its reaction is on
\* the message, unless the mark changed again before its last change was handled,
\* came before the report was on record, or lost a handler.
VerdictsMirror ==
  \A mark \in Marks \ clouded :
    ~Underway(mark) => (mark \in feedback <=> changes[mark] % 2 = 1)
=============================================================================
