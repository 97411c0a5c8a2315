------------------------------ MODULE CollectionLoop ------------------------------
(***************************************************************************)
(* What the collector graph promises about its loop, with no graph in it:  *)
(* turns of planning, routing, calling and judging, on one budget of tool  *)
(* calls.  A plan that is refused may be made again, a few times in a row; *)
(* those plans are turns beyond the limit, and nothing else is.  Collector *)
(* and EvidenceTrail both implement it.                                    *)
(***************************************************************************)
EXTENDS Naturals

CONSTANTS
  MaxTurns,    \* how many turns are judged
  MaxCalls,    \* how many tool calls there may be
  MaxRetries   \* how often in a row a refused plan is made again

Limits == MaxTurns \in Nat /\ MaxCalls \in Nat /\ MaxRetries \in Nat

VARIABLES
  phase,    \* what the loop does
  turns,    \* how many plans were made
  retries,  \* how many of them in a row were refused
  calls     \* how many tool calls were made

loopVars == <<phase, turns, retries, calls>>

Phases == {"preparing", "planning", "routing", "calling", "judging", "ended"}

LoopInit ==
  /\ phase = "preparing"
  /\ turns = 0
  /\ retries = 0
  /\ calls \in 0..MaxCalls

\* Looking for hosts and scanning them is paid from the same budget.
Prepare ==
  /\ phase = "preparing"
  /\ phase' \in {"preparing", "planning", "ended"}
  /\ calls' \in calls..MaxCalls
  /\ UNCHANGED <<turns, retries>>

\* A plan without a question ends the loop.
Plan ==
  /\ phase = "planning"
  /\ turns < MaxTurns + retries
  /\ turns' = turns + 1
  /\ phase' \in {"routing", "ended"}
  /\ UNCHANGED <<retries, calls>>

Refuse ==
  /\ phase = "routing"
  /\ retries < MaxRetries
  /\ retries' = retries + 1
  /\ phase' = "planning"
  /\ UNCHANGED <<turns, calls>>

Accept ==
  /\ phase = "routing"
  /\ calls < MaxCalls
  /\ retries' = 0
  /\ phase' = "calling"
  /\ UNCHANGED <<turns, calls>>

Call ==
  /\ phase = "calling"
  /\ calls' \in calls..MaxCalls
  /\ phase' = "judging"
  /\ UNCHANGED <<turns, retries>>

Judge ==
  /\ phase = "judging"
  /\ turns < MaxTurns
  /\ calls < MaxCalls
  /\ phase' = "planning"
  /\ UNCHANGED <<turns, retries, calls>>

\* The loop may end at any point, the last refusal among them; it ends once.
End ==
  /\ phase # "ended"
  /\ phase' = "ended"
  /\ retries' \in {retries, retries + 1}
  /\ UNCHANGED <<turns, calls>>

LoopNext == Prepare \/ Plan \/ Refuse \/ Accept \/ Call \/ Judge \/ End

LoopSpec == LoopInit /\ [][LoopNext]_loopVars

-----------------------------------------------------------------------------
(* What the loop guarantees. *)

LoopTypeOK ==
  /\ phase \in Phases
  /\ turns \in Nat
  /\ retries \in Nat
  /\ calls \in Nat

\* The budget is kept, and only refused plans pass the limit of turns.
LimitsKept ==
  /\ calls <= MaxCalls
  /\ turns <= MaxTurns + MaxRetries

\* How many steps the loop has left at most: four for each plan it may still
\* make, one for each call it may still pay, and the rest of the turn.
StepsLeft ==
  LET rest == [preparing |-> 5, routing |-> 4, calling |-> 3, judging |-> 2, planning |-> 1, ended |-> 0]
  IN  4 * (MaxTurns + MaxRetries - turns) + (MaxCalls - calls) + rest[phase]

\* Every step brings the end nearer, so a collection ends whatever is answered.
RunsDown == [][StepsLeft' < StepsLeft]_loopVars
=============================================================================
