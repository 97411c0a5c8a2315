--------------------------------- MODULE Feedback ---------------------------------
(***************************************************************************)
(* What people say of a published report: reactions on its message become  *)
(* rows of aiops_report_feedback, replies in its thread rows of            *)
(* aiops_report_notes, and the first bad verdict is answered with a        *)
(* request to explain (handleReaction and handleReportNote in              *)
(* ingress/src/app.ts, the queries in postgres-repository.ts).             *)
(*                                                                         *)
(* Slack sends one event for each change of a reaction, in any order, and  *)
(* sends it again when it misses the acknowledgement.  Each delivery has a *)
(* handler of its own, which runs between the queries of the others.  A    *)
(* mark is one user's use of one emoji; its n-th event adds it if n is odd *)
(* and removes it if n is even.                                            *)
(***************************************************************************)
EXTENDS ReportChecks

CONSTANTS
  Marks,        \* one user's use of one of the label reactions
  Praise,       \* those whose label is "correct"
  MaxEvents,    \* bound, for each mark: how often it changes
  Deliveries    \* bound, for each mark: how often Slack delivers one of its events

ASSUME FeedbackAssumption ==
  /\ IsFiniteSet(Marks)
  /\ Praise \subseteq Marks
  /\ MaxEvents \in [Marks -> Nat]
  /\ Deliveries \in [Marks -> Nat \ {0}]

VARIABLES
  changes,   \* how many events each mark has had: on the message if it is odd
  handlers,  \* handlers: how far the handling of each delivery is
  feedback,  \* aiops_report_feedback: the marks of the report
  noted,     \* aiops_report_notes has a row of the report
  asked,     \* how often the thread was asked to explain, posted or not
  clouded    \* marks, and "asking", whose story was disturbed: a history variable

said == <<changes, handlers, feedback, noted, asked, clouded>>
vars == <<stage, content, said>>

Critique == Marks \ Praise

Delivered == UNION {{mark} \X (1..MaxEvents[mark]) \X (1..Deliveries[mark]) : mark \in Marks}
Adds(delivery) == delivery[2] % 2 = 1

\* waiting: not delivered; found: the report was looked up; saved: the row is in
\* and the verdicts are about to be counted.
HandlerStates == {"waiting", "found", "saved", "over"}

TypeOK ==
  /\ stage \in Stages \union ReportEnds
  /\ package \in Packages /\ template \in Templates
  /\ stage # "invalid" => Cardinality(findings) <= FindingsCapacity
  /\ changes \in [Marks -> Nat] /\ \A mark \in Marks : changes[mark] <= MaxEvents[mark]
  /\ handlers \in [Delivered -> HandlerStates]
  /\ \A delivery \in Delivered : handlers[delivery] # "waiting" => delivery[2] <= changes[delivery[1]]
  /\ feedback \subseteq Marks
  /\ noted \in BOOLEAN
  /\ asked \in Nat
  /\ clouded \subseteq Marks \union {"asking"}

Init ==
  /\ stage = "report_writer"
  /\ package \in Packages
  /\ template \in Templates
  /\ draft = NoReport /\ report = NoReport /\ findings = {}
  /\ changes = [mark \in Marks |-> 0]
  /\ handlers = [delivery \in Delivered |-> "waiting"]
  /\ feedback = {} /\ noted = FALSE /\ asked = 0 /\ clouded = {}

-----------------------------------------------------------------------------
(* Publication. *)

\* The message is there before the row by which reactions find the report.
PostReport == stage = "publish" /\ stage' = "posted" /\ UNCHANGED <<content, said>>
SaveReport == stage = "posted" /\ stage' = "recorded" /\ UNCHANGED <<content, said>>

-----------------------------------------------------------------------------
(* Reactions. *)

\* Is an event of this mark still on its way, or may it be delivered once more?
Underway(mark) ==
  \E delivery \in Delivered :
    /\ delivery[1] = mark
    /\ \/ handlers[delivery] \in {"found", "saved"}
       \/ handlers[delivery] = "waiting" /\ delivery[2] <= changes[mark] /\ delivery[3] = 1

\* Someone adds or takes back a reaction.  Clouded is a mark that changes again
\* before its last change is handled.
React ==
  /\ stage \in {"posted", "recorded"}
  /\ \E mark \in Marks :
       /\ changes[mark] < MaxEvents[mark]
       /\ changes' = [changes EXCEPT ![mark] = @ + 1]
       /\ clouded' = clouded \union {m \in {mark} : Underway(m)}
  /\ UNCHANGED <<stage, content, handlers, feedback, noted, asked>>

\* An event is delivered, and the report of its message looked up.  Nothing is
\* found before the row is saved, and the event is dropped.
FindReport ==
  /\ stage \in {"posted", "recorded"}
  /\ \E delivery \in Delivered :
       /\ handlers[delivery] = "waiting"
       /\ delivery[2] <= changes[delivery[1]]
       /\ delivery[3] > 1 => handlers[<<delivery[1], delivery[2], delivery[3] - 1>>] # "waiting"
       /\ handlers' = [handlers EXCEPT ![delivery] = IF stage = "recorded" THEN "found" ELSE "over"]
       /\ clouded' = clouded \union
            {mark \in {delivery[1]} : stage # "recorded" \/ delivery[2] < changes[mark]}
  /\ UNCHANGED <<stage, content, changes, feedback, noted, asked>>

\* The count of another handler is disturbed by a change of the bad verdicts.
Counting == \E delivery \in Delivered : handlers[delivery] = "saved"
Disturbed(mark) == IF mark \in Critique /\ Counting THEN {"asking"} ELSE {}

\* Altered: an event that comes again is counted again.
SaveFeedback_EveryTime ==
  \E delivery \in Delivered :
    /\ handlers[delivery] = "found" /\ Adds(delivery)
    /\ feedback' = feedback \union {delivery[1]}
    /\ handlers' = [handlers EXCEPT ![delivery] = IF delivery[1] \in Critique THEN "saved" ELSE "over"]
    /\ clouded' = clouded \union Disturbed(delivery[1])
    /\ UNCHANGED <<stage, content, changes, noted, asked>>

\* INSERT ... ON CONFLICT DO NOTHING: only a new bad verdict is counted next.
SaveFeedback ==
  \E delivery \in Delivered :
    /\ handlers[delivery] = "found" /\ Adds(delivery)
    /\ feedback' = feedback \union {delivery[1]}
    /\ handlers' = [handlers EXCEPT
         ![delivery] = IF delivery[1] \in Critique \ feedback THEN "saved" ELSE "over"]
    /\ clouded' = clouded \union Disturbed(delivery[1])
    /\ UNCHANGED <<stage, content, changes, noted, asked>>

\* The count that follows the insert: the first bad verdict, and no note, asks.
CountVerdicts ==
  \E delivery \in Delivered :
    /\ handlers[delivery] = "saved"
    /\ asked' = IF Cardinality(feedback \intersect Critique) = 1 /\ ~noted THEN asked + 1 ELSE asked
    /\ handlers' = [handlers EXCEPT ![delivery] = "over"]
    /\ UNCHANGED <<stage, content, changes, feedback, noted, clouded>>

\* Altered: a reaction taken back leaves its row.
RemoveFeedback_Ignored ==
  \E delivery \in Delivered :
    /\ handlers[delivery] = "found" /\ ~Adds(delivery)
    /\ handlers' = [handlers EXCEPT ![delivery] = "over"]
    /\ clouded' = clouded \union Disturbed(delivery[1])
    /\ UNCHANGED <<stage, content, changes, feedback, noted, asked>>

RemoveFeedback ==
  \E delivery \in Delivered :
    /\ handlers[delivery] = "found" /\ ~Adds(delivery)
    /\ feedback' = feedback \ {delivery[1]}
    /\ handlers' = [handlers EXCEPT ![delivery] = "over"]
    /\ clouded' = clouded \union Disturbed(delivery[1])
    /\ UNCHANGED <<stage, content, changes, noted, asked>>

\* A query fails or the process stops: the handler is gone, the event may come
\* again if Slack was not answered.
LoseHandler ==
  \E delivery \in Delivered :
    /\ handlers[delivery] \in {"found", "saved"}
    /\ handlers' = [handlers EXCEPT ![delivery] = "over"]
    /\ clouded' = clouded \union {delivery[1], "asking"}
    /\ UNCHANGED <<stage, content, changes, feedback, noted, asked>>

\* A reply in the thread is kept as a note, and nobody is asked any more.
SaveNote ==
  /\ stage = "recorded"
  /\ ~noted
  /\ noted' = TRUE
  /\ UNCHANGED <<stage, content, changes, handlers, feedback, asked, clouded>>
=============================================================================
