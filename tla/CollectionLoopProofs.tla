--------------------------- MODULE CollectionLoopProofs ---------------------------
(***************************************************************************)
(* What every implementation of CollectionLoop inherits, for any limits:   *)
(* the limits are kept, and each step brings the end nearer.               *)
(***************************************************************************)
EXTENDS CollectionLoop, TLAPS

\* Only a plan that may still be refused, or was just made, can count retries;
\* each of them bought one plan beyond the limit of turns.
RetriesPaid ==
  /\ phase = "preparing" => turns = 0 /\ retries = 0
  /\ phase = "planning" => turns <= MaxTurns + retries /\ retries <= MaxRetries
  /\ phase = "routing" => turns <= MaxTurns + retries /\ retries <= MaxRetries
  /\ phase \in {"calling", "judging"} => retries = 0

LoopInv == LoopTypeOK /\ LimitsKept /\ RetriesPaid

LEMMA LoopInvInit == Limits /\ LoopInit => LoopInv
BY DEF Limits, LoopInit, LoopInv, LoopTypeOK, LimitsKept, RetriesPaid, Phases

LEMMA LoopInvStep == Limits /\ LoopInv /\ [LoopNext]_loopVars => LoopInv'
<1> SUFFICES ASSUME Limits, LoopInv, [LoopNext]_loopVars PROVE LoopInv'
  OBVIOUS
<1> USE DEF Limits, LoopInv, LoopTypeOK, LimitsKept, RetriesPaid, Phases
<1>1. CASE Prepare
  BY <1>1 DEF Prepare
<1>2. CASE Plan
  BY <1>2 DEF Plan
<1>3. CASE Refuse
  BY <1>3 DEF Refuse
<1>4. CASE Accept
  BY <1>4 DEF Accept
<1>5. CASE Call
  BY <1>5 DEF Call
<1>6. CASE Judge
  BY <1>6 DEF Judge
<1>7. CASE End
  BY <1>7 DEF End
<1>8. CASE UNCHANGED loopVars
  BY <1>8 DEF loopVars
<1>9. QED
  BY <1>1, <1>2, <1>3, <1>4, <1>5, <1>6, <1>7, <1>8 DEF LoopNext

LEMMA LoopInvariant == ASSUME Limits PROVE LoopSpec => []LoopInv
<1>1. LoopInit => LoopInv
  BY LoopInvInit
<1>2. LoopInv /\ [LoopNext]_loopVars => LoopInv'
  BY LoopInvStep
<1>3. QED
  BY <1>1, <1>2, PTL DEF LoopSpec

\* The loop never makes more calls than its budget, and never more plans than its
\* limit of turns and the retries of refused plans together.
THEOREM LoopKeepsItsLimits == ASSUME Limits PROVE LoopSpec => [](LoopTypeOK /\ LimitsKept)
<1>1. LoopInv => LoopTypeOK /\ LimitsKept
  BY DEF LoopInv
<1>2. QED
  BY <1>1, LoopInvariant, PTL

-----------------------------------------------------------------------------
(* The measure. *)

Rest(p) ==
  [preparing |-> 5, routing |-> 4, calling |-> 3, judging |-> 2, planning |-> 1, ended |-> 0][p]

LEMMA Rests ==
  /\ Rest("preparing") = 5 /\ Rest("routing") = 4 /\ Rest("calling") = 3
  /\ Rest("judging") = 2 /\ Rest("planning") = 1 /\ Rest("ended") = 0
BY DEF Rest

LEMMA StepsLeftIs == StepsLeft = 4 * (MaxTurns + MaxRetries - turns) + (MaxCalls - calls) + Rest(phase)
BY DEF StepsLeft, Rest

\* A step leaves fewer steps than there were, and never fewer than none: so a
\* collection ends whatever its models and tools answer.
THEOREM LoopRunsDown == ASSUME Limits PROVE LoopSpec => [](StepsLeft \in Nat) /\ RunsDown
<1>1. LoopInv => StepsLeft \in Nat
  BY StepsLeftIs, Rests DEF Limits, LoopInv, LoopTypeOK, LimitsKept, Phases
<1>2. LoopInv /\ [LoopNext]_loopVars => [StepsLeft' < StepsLeft]_loopVars
  <2> SUFFICES ASSUME LoopInv, LoopNext PROVE StepsLeft' < StepsLeft \/ UNCHANGED loopVars
    OBVIOUS
  <2>1. LoopInv'
    BY LoopInvStep
  <2>2. StepsLeft' = 4 * (MaxTurns + MaxRetries - turns') + (MaxCalls - calls') + Rest(phase')
    BY DEF StepsLeft, Rest
  <2> USE <2>1, <2>2, StepsLeftIs, Rests
      DEF Limits, LoopInv, LoopTypeOK, LimitsKept, Phases, loopVars
  <2>3. CASE Prepare
    BY <2>3 DEF Prepare
  <2>4. CASE Plan
    BY <2>4 DEF Plan
  <2>5. CASE Refuse
    BY <2>5 DEF Refuse
  <2>6. CASE Accept
    BY <2>6 DEF Accept
  <2>7. CASE Call
    BY <2>7 DEF Call
  <2>8. CASE Judge
    BY <2>8 DEF Judge
  <2>9. CASE End
    BY <2>9 DEF End
  <2>10. QED
    BY <2>3, <2>4, <2>5, <2>6, <2>7, <2>8, <2>9 DEF LoopNext
<1>3. QED
  BY <1>1, <1>2, LoopInvariant, PTL DEF LoopSpec, RunsDown
=============================================================================
