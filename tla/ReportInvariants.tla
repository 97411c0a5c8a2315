------------------------------ MODULE ReportInvariants ------------------------------
(***************************************************************************)
(* Why the properties of ReportLife hold: what is true of a report from    *)
(* the writer on, of one mark while its story is undisturbed, and of the   *)
(* request to explain.                                                     *)
(***************************************************************************)
EXTENDS ReportLife

\* The text of a report was made from the draft, and the findings from the text.
ReportInv ==
  /\ stage \in {"report_eval"} \union Published =>
       /\ AreSections(draft)
       /\ report \in Reconciled(draft)
  /\ stage \in Published => findings = FindingsOf(report)
  /\ stage \in {"report_writer", "report_eval"} => findings = {}

OfMark(mark) == {delivery \in Delivered : delivery[1] = mark}

\* A mark whose story is undisturbed: only its last event is being handled, and
\* whoever is done with it has left the verdict as the message has it.
MarkInv ==
  \A mark \in Marks \ clouded :
    /\ changes[mark] = 0 => mark \notin feedback
    /\ \A delivery \in OfMark(mark) :
         /\ handlers[delivery] \in {"found", "saved"} => delivery[2] = changes[mark]
         /\ handlers[delivery] \in {"saved", "over"} /\ delivery[2] = changes[mark] =>
              (mark \in feedback <=> changes[mark] % 2 = 1)

Bad == feedback \intersect Critique

\* As long as no bad verdict is taken back, each has at most one handler that
\* counts, and the one that found itself alone was the only one to ask.
OnceInv ==
  (\A mark \in Critique : changes[mark] <= 1) =>
    /\ \A delivery \in Delivered : handlers[delivery] = "saved" => delivery[1] \in Bad
    /\ \A one, other \in Delivered :
         handlers[one] = "saved" /\ handlers[other] = "saved" /\ one[1] = other[1] => one = other
    /\ asked <= 1
    /\ asked = 1 => /\ Bad # {}
                    /\ \A delivery \in Delivered : handlers[delivery] = "saved" => Bad # {delivery[1]}

\* While nobody disturbed the count, somebody asked, or need not, or is about
\* to find the verdict alone.
AskInv ==
  "asking" \notin clouded =>
    \/ asked >= 1 \/ noted \/ Bad = {}
    \/ \E delivery \in Delivered : handlers[delivery] = "saved" /\ Bad = {delivery[1]}

IInv == TypeOK /\ ReportInv /\ MarkInv /\ OnceInv /\ AskInv
=============================================================================
