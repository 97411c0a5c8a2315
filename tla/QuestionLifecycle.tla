--------------------------- MODULE QuestionLifecycle ---------------------------
(***************************************************************************)
(* What the delivery queue promises about a question, with no queue in it: *)
(* a question is opened once, ends in one outcome, and keeps it.  A        *)
(* question that asked something back is continued by the question that    *)
(* answers it.  Delivery implements this while no lock lapses early.       *)
(***************************************************************************)
CONSTANTS Questions, NoQuestion

VARIABLES
  phase,      \* how far each question is
  continues   \* the question a question continues, or NoQuestion

lifecycleVars == <<phase, continues>>

Phases == {"unasked", "open", "answered", "asking", "declined", "continued", "abandoned"}
Outcome == {"answered", "asking", "declined", "abandoned"}

LifecycleInit ==
  /\ phase = [q \in Questions |-> "unasked"]
  /\ continues = [q \in Questions |-> NoQuestion]

\* A question of its own.
Open(q) ==
  /\ phase[q] = "unasked"
  /\ phase' = [phase EXCEPT ![q] = "open"]
  /\ UNCHANGED continues

\* A question that answers what p asked back.  Two answers may race.
Continue(q, p) ==
  /\ phase[q] = "unasked"
  /\ phase[p] \in {"asking", "continued"}
  /\ phase' = [phase EXCEPT ![p] = "continued", ![q] = "open"]
  /\ continues' = [continues EXCEPT ![q] = p]

End(q) ==
  /\ phase[q] = "open"
  /\ \E o \in Outcome : phase' = [phase EXCEPT ![q] = o]
  /\ UNCHANGED continues

LifecycleNext ==
  \/ \E q \in Questions : Open(q) \/ End(q)
  \/ \E q, p \in Questions : Continue(q, p)

LifecycleSpec == LifecycleInit /\ [][LifecycleNext]_lifecycleVars
================================================================================
