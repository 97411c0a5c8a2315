----------------------------- MODULE CollectorProofs -----------------------------
(***************************************************************************)
(* An investigation keeps its limits, for every value of them.             *)
(***************************************************************************)
EXTENDS CollectorInvariants, TLAPS

-----------------------------------------------------------------------------
(* Types. *)

LEMMA SizesAreNumbers ==
  ASSUME NEW batch \in Batches
  PROVE  /\ Size(batch) \in Nat
         /\ Size(batch) = 0 => batch.allowed = 0 /\ batch.retryable = 0
         /\ Size(NoQuestions) = 0
         /\ NoQuestions \in Batches
  BY DEF Batches, Size, NoQuestions

LEMMA WhatRemains ==
  ASSUME TypeOK, NEW n \in Nat
  PROVE  /\ Remaining \in Nat
         /\ AtMost(n, Remaining) \in Nat
         /\ AtMost(n, Remaining) <= n
         /\ toolCalls <= MaxToolCalls => toolCalls + AtMost(n, Remaining) <= MaxToolCalls
  BY CollectorAssumption DEF TypeOK, Remaining, AtMost

LEMMA InitialTypes == Init => TypeOK
<1> SUFFICES ASSUME Init PROVE TypeOK
  OBVIOUS
<1>1. limitReached \in BOOLEAN /\ fatal \in BOOLEAN /\ package \in BOOLEAN
  BY Zenon DEF Init
<1>2. questions \in Batches
  BY DEF Init, Batches, NoQuestions
<1>3. QED
  BY <1>1, <1>2 DEF Init, TypeOK

LEMMA TypeStep == TypeOK /\ [Next]_vars => TypeOK'
<1> SUFFICES ASSUME TypeOK, [Next]_vars PROVE TypeOK'
  OBVIOUS
<1> USE DEF TypeOK, Run, collected, routing, verdict
<1>1. CASE UNCHANGED vars
  BY <1>1 DEF vars
<1>2. CASE Analyze \/ Answer \/ Raise \/ FailValidation \/ RunOutOfSteps
  BY <1>2 DEF Analyze, Answer, Raise, FailValidation, RunOutOfSteps, GraphNodes, Answers, Failures
<1>3. CASE ResolveHosts
  BY <1>3, WhatRemains, CollectorAssumption DEF ResolveHosts, GraphNodes, StopReasons
<1>4. CASE EstablishPhenomenon
  BY <1>4, WhatRemains, CollectorAssumption DEF EstablishPhenomenon, GraphNodes
<1>5. CASE PlanHypotheses
  BY <1>5, CollectorAssumption DEF PlanHypotheses, GraphNodes, StopReasons
<1>6. CASE PlanObservations
  BY <1>6, CollectorAssumption DEF PlanObservations, GraphNodes, StopReasons, Batches
<1>7. CASE RouteNothing
  BY <1>7 DEF RouteNothing, AfterRouter, GraphNodes, StopReasons
<1>8. CASE RouteCalls
  <2>1. questions.allowed \in Nat
    BY DEF Batches
  <2>2. planned' \in Nat
    BY <1>8, <2>1, WhatRemains DEF RouteCalls
  <2>3. QED
    BY <1>8, <2>2 DEF RouteCalls, AfterRouter, GraphNodes
<1>9. CASE SendBack \/ GiveUp
  BY <1>9 DEF SendBack, GiveUp, AfterRouter, GraphNodes, StopReasons, Batches, NoQuestions
<1>10. CASE ExecuteTools
  <2>1. fatal' \in BOOLEAN
    BY <1>10, Zenon DEF ExecuteTools
  <2>2. observations' \in Nat /\ toolCalls' \in Nat
    BY <1>10 DEF ExecuteTools
  <2>3. QED
    BY <1>10, <2>1, <2>2 DEF ExecuteTools, GraphNodes
<1>11. CASE NormalizeEvidence
  BY <1>11 DEF NormalizeEvidence, GraphNodes
<1>12. CASE UpdateHypotheses
  BY <1>12, CollectorAssumption DEF UpdateHypotheses, GraphNodes, StopReasons
<1>13. CASE StopGuard
  BY <1>13 DEF StopGuard, HardStop, AfterGuard, GraphNodes, StopReasons
<1>14. CASE BuildPackage \/ WriteReport \/ EvalReport
  <2>1. package' \in BOOLEAN
    <3>1. CASE BuildPackage
      BY <3>1, Zenon DEF BuildPackage
    <3>2. CASE WriteReport \/ EvalReport
      BY <3>2 DEF WriteReport, EvalReport
    <3>3. QED
      BY <1>14, <3>1, <3>2
  <2>2. QED
    BY <1>14, <2>1 DEF BuildPackage, WriteReport, EvalReport, GraphNodes
<1>15. QED
  BY <1>1, <1>2, <1>3, <1>4, <1>5, <1>6, <1>7, <1>8, <1>9, <1>10, <1>11, <1>12, <1>13, <1>14
     DEF Next, Done

\* Every count of an investigation stays a count and every node hands over to a
\* node of the graph.
THEOREM TypeCorrect == Spec => []TypeOK
  BY InitialTypes, TypeStep, PTL DEF Spec

-----------------------------------------------------------------------------
(* Limits. *)

LEMMA InitiallySteered == Init => Steered
  BY InitialTypes, CollectorAssumption
     DEF Init, Steered, Prepared, Budgeted, Counted, Explained, Paced, OutOfStepsMeansOverrun,
         Preparing, Observing, Concluding, Size, NoQuestions

LEMMA SteeredStep == Steered /\ [Next]_vars => Steered'
<1> SUFFICES ASSUME Steered, [Next]_vars PROVE Steered'
  OBVIOUS
<1>0. TypeOK /\ TypeOK'
  BY TypeStep DEF Steered
<1> USE <1>0, CollectorAssumption, SizesAreNumbers DEF Steered, TypeOK, Run, collected, routing, verdict
<1>1. CASE Analyze
  <2>1. Prepared'
    BY <1>1 DEF Analyze, Prepared, Preparing
  <2>2. Budgeted'
    BY <1>1 DEF Analyze, Budgeted
  <2>3. Counted'
    BY <1>1 DEF Analyze, Counted, Observing
  <2>4. Explained'
    BY <1>1 DEF Analyze, Explained, Preparing, Observing, Concluding
  <2>5. Paced'
    BY <1>1 DEF Analyze, Paced
  <2>6. OutOfStepsMeansOverrun'
    BY <1>1 DEF Analyze, OutOfStepsMeansOverrun
  <2>7. QED
    BY <2>1, <2>2, <2>3, <2>4, <2>5, <2>6
<1>2. CASE Answer
  <2>1. Prepared'
    BY <1>2 DEF Answer, Prepared, Preparing
  <2>2. Budgeted'
    BY <1>2 DEF Answer, Budgeted
  <2>3. Counted'
    BY <1>2 DEF Answer, Counted, Observing
  <2>4. Explained'
    BY <1>2 DEF Answer, Explained, Preparing, Observing, Concluding
  <2>5. Paced'
    BY <1>2 DEF Answer, Paced
  <2>6. OutOfStepsMeansOverrun'
    BY <1>2 DEF Answer, OutOfStepsMeansOverrun
  <2>7. QED
    BY <2>1, <2>2, <2>3, <2>4, <2>5, <2>6
<1>3. CASE Raise \/ FailValidation
  <2>1. Prepared'
    BY <1>3 DEF Raise, FailValidation, Prepared, Preparing
  <2>2. Budgeted'
    BY <1>3 DEF Raise, FailValidation, Budgeted
  <2>3. Counted'
    BY <1>3 DEF Raise, FailValidation, Counted, Observing
  <2>4. Explained'
    BY <1>3 DEF Raise, FailValidation, Explained, Preparing, Observing, Concluding
  <2>5. Paced'
    BY <1>3 DEF Raise, FailValidation, Paced
  <2>6. OutOfStepsMeansOverrun'
    BY <1>3 DEF Raise, FailValidation, OutOfStepsMeansOverrun
  <2>7. QED
    BY <2>1, <2>2, <2>3, <2>4, <2>5, <2>6
<1>4. CASE RunOutOfSteps
  <2>1. Prepared'
    BY <1>4 DEF RunOutOfSteps, RecursionLimit, GraphNodes, Prepared, Preparing
  <2>2. Budgeted'
    BY <1>4 DEF RunOutOfSteps, RecursionLimit, GraphNodes, Budgeted
  <2>3. Counted'
    BY <1>4 DEF RunOutOfSteps, RecursionLimit, GraphNodes, Counted, Observing
  <2>4. Explained'
    BY <1>4 DEF RunOutOfSteps, RecursionLimit, GraphNodes, Explained, Preparing, Observing, Concluding
  <2>5. Paced'
    BY <1>4 DEF RunOutOfSteps, RecursionLimit, GraphNodes, Paced
  <2>6. OutOfStepsMeansOverrun'
    BY <1>4 DEF RunOutOfSteps, RecursionLimit, GraphNodes, OutOfStepsMeansOverrun, Paced
  <2>7. QED
    BY <2>1, <2>2, <2>3, <2>4, <2>5, <2>6
<1>5. CASE ResolveHosts
  <2>1. Prepared'
    BY <1>5, WhatRemains DEF ResolveHosts, Prepared, Preparing
  <2>2. Budgeted'
    BY <1>5, WhatRemains DEF ResolveHosts, Budgeted
  <2>3. Counted'
    BY <1>5, WhatRemains DEF ResolveHosts, Counted, Observing
  <2>4. Explained'
    BY <1>5, WhatRemains DEF ResolveHosts, Explained, Preparing, Observing, Concluding
  <2>5. Paced'
    BY <1>5, WhatRemains DEF ResolveHosts, Paced
  <2>6. OutOfStepsMeansOverrun'
    BY <1>5, WhatRemains DEF ResolveHosts, OutOfStepsMeansOverrun
  <2>7. QED
    BY <2>1, <2>2, <2>3, <2>4, <2>5, <2>6
<1>6. CASE EstablishPhenomenon
  <2>1. Prepared'
    BY <1>6, WhatRemains DEF EstablishPhenomenon, Prepared, Preparing
  <2>2. Budgeted'
    BY <1>6, WhatRemains DEF EstablishPhenomenon, Budgeted
  <2>3. Counted'
    BY <1>6, WhatRemains DEF EstablishPhenomenon, Counted, Observing
  <2>4. Explained'
    BY <1>6, WhatRemains DEF EstablishPhenomenon, Explained, Preparing, Observing, Concluding
  <2>5. Paced'
    BY <1>6, WhatRemains DEF EstablishPhenomenon, Paced
  <2>6. OutOfStepsMeansOverrun'
    BY <1>6, WhatRemains DEF EstablishPhenomenon, OutOfStepsMeansOverrun
  <2>7. QED
    BY <2>1, <2>2, <2>3, <2>4, <2>5, <2>6
<1>7. CASE PlanHypotheses
  <2>1. Prepared'
    BY <1>7 DEF PlanHypotheses, Prepared, Preparing
  <2>2. Budgeted'
    BY <1>7 DEF PlanHypotheses, Budgeted
  <2>3. Counted'
    BY <1>7 DEF PlanHypotheses, Counted, Observing, Prepared, Preparing
  <2>4. Explained'
    BY <1>7 DEF PlanHypotheses, Explained, Preparing, Observing, Concluding, Prepared
  <2>5. Paced'
    BY <1>7 DEF PlanHypotheses, Paced
  <2>6. OutOfStepsMeansOverrun'
    BY <1>7 DEF PlanHypotheses, OutOfStepsMeansOverrun
  <2>7. QED
    BY <2>1, <2>2, <2>3, <2>4, <2>5, <2>6
<1>8. CASE PlanObservations
  <2>1. Prepared'
    BY <1>8 DEF PlanObservations, Prepared, Preparing
  <2>2. Budgeted'
    BY <1>8 DEF PlanObservations, Budgeted
  <2>3. Counted'
    BY <1>8 DEF PlanObservations, Counted, Observing
  <2>4. Explained'
    BY <1>8 DEF PlanObservations, Explained, Preparing, Observing, Concluding
  <2>5. Paced'
    <3>1. steps <= 6 * iterations + 3 /\ steps' = steps + 1 /\ node' = "tool_router"
      BY <1>8 DEF PlanObservations, Paced
    <3>2. CASE stop # "none"
      <4>1. iterations' = iterations /\ questions' = questions /\ Size(questions) = 0
        BY <1>8, <3>2 DEF PlanObservations, Explained
      <4>2. steps' <= 6 * iterations' + 4 /\ ~(Size(questions)' > 0)
        BY <3>1, <4>1 DEF Size
      <4>3. QED
        BY <3>1, <4>2 DEF Paced
    <3>3. CASE stop = "none"
      <4>1. iterations' = iterations + 1
        BY <1>8, <3>3 DEF PlanObservations
      <4>2. steps' + 2 <= 6 * iterations' /\ steps' <= 6 * iterations' + 4
        BY <3>1, <4>1
      <4>3. QED
        BY <3>1, <4>2 DEF Paced
    <3>4. QED
      BY <3>2, <3>3
  <2>6. OutOfStepsMeansOverrun'
    BY <1>8 DEF PlanObservations, OutOfStepsMeansOverrun
  <2>7. QED
    BY <2>1, <2>2, <2>3, <2>4, <2>5, <2>6
<1>9. CASE RouteNothing
  <2>1. Prepared'
    BY <1>9 DEF RouteNothing, AfterRouter, Prepared, Preparing
  <2>2. Budgeted'
    BY <1>9 DEF RouteNothing, AfterRouter, Budgeted
  <2>3. Counted'
    BY <1>9 DEF RouteNothing, AfterRouter, Counted, Observing
  <2>4. Explained'
    BY <1>9 DEF RouteNothing, AfterRouter, Explained, Preparing, Observing, Concluding
  <2>5. Paced'
    BY <1>9 DEF RouteNothing, AfterRouter, Paced
  <2>6. OutOfStepsMeansOverrun'
    BY <1>9 DEF RouteNothing, AfterRouter, OutOfStepsMeansOverrun
  <2>7. QED
    BY <2>1, <2>2, <2>3, <2>4, <2>5, <2>6
<1>10. CASE RouteCalls
  <2>1. Prepared'
    BY <1>10, WhatRemains DEF RouteCalls, AfterRouter, Prepared, Preparing
  <2>2. Budgeted'
    BY <1>10, WhatRemains DEF RouteCalls, AfterRouter, Budgeted, Batches
  <2>3. Counted'
    BY <1>10, WhatRemains DEF RouteCalls, AfterRouter, Counted, Observing
  <2>4. Explained'
    BY <1>10, WhatRemains DEF RouteCalls, AfterRouter, Explained, Preparing, Observing, Concluding
  <2>5. Paced'
    BY <1>10, WhatRemains DEF RouteCalls, AfterRouter, Paced
  <2>6. OutOfStepsMeansOverrun'
    BY <1>10, WhatRemains DEF RouteCalls, AfterRouter, OutOfStepsMeansOverrun
  <2>7. QED
    BY <2>1, <2>2, <2>3, <2>4, <2>5, <2>6
<1>11. CASE SendBack
  <2>1. Prepared'
    BY <1>11 DEF SendBack, AfterRouter, Refused, Prepared, Preparing
  <2>2. Budgeted'
    BY <1>11 DEF SendBack, AfterRouter, Refused, Budgeted
  <2>3. Counted'
    BY <1>11 DEF SendBack, AfterRouter, Refused, Counted, Observing
  <2>4. Explained'
    BY <1>11 DEF SendBack, AfterRouter, Refused, Explained, Preparing, Observing, Concluding, Batches
  <2>5. Paced'
    BY <1>11 DEF SendBack, AfterRouter, Refused, Paced
  <2>6. OutOfStepsMeansOverrun'
    BY <1>11 DEF SendBack, AfterRouter, Refused, OutOfStepsMeansOverrun
  <2>7. QED
    BY <2>1, <2>2, <2>3, <2>4, <2>5, <2>6
<1>12. CASE GiveUp
  <2>1. Prepared'
    BY <1>12 DEF GiveUp, AfterRouter, Refused, Prepared, Preparing
  <2>2. Budgeted'
    BY <1>12 DEF GiveUp, AfterRouter, Refused, Budgeted
  <2>3. Counted'
    BY <1>12 DEF GiveUp, AfterRouter, Refused, Counted, Observing
  <2>4. Explained'
    BY <1>12 DEF GiveUp, AfterRouter, Refused, Explained, Preparing, Observing, Concluding
  <2>5. Paced'
    BY <1>12 DEF GiveUp, AfterRouter, Refused, Paced
  <2>6. OutOfStepsMeansOverrun'
    BY <1>12 DEF GiveUp, AfterRouter, Refused, OutOfStepsMeansOverrun
  <2>7. QED
    BY <2>1, <2>2, <2>3, <2>4, <2>5, <2>6
<1>13. CASE ExecuteTools
  <2>1. Prepared'
    BY <1>13 DEF ExecuteTools, Prepared, Preparing
  <2>2. Budgeted'
    BY <1>13 DEF ExecuteTools, Budgeted
  <2>3. Counted'
    BY <1>13 DEF ExecuteTools, Counted, Observing
  <2>4. Explained'
    BY <1>13 DEF ExecuteTools, Explained, Preparing, Observing, Concluding
  <2>5. Paced'
    BY <1>13 DEF ExecuteTools, Paced
  <2>6. OutOfStepsMeansOverrun'
    BY <1>13 DEF ExecuteTools, OutOfStepsMeansOverrun
  <2>7. QED
    BY <2>1, <2>2, <2>3, <2>4, <2>5, <2>6
<1>14. CASE NormalizeEvidence
  <2>1. Prepared'
    BY <1>14 DEF NormalizeEvidence, Prepared, Preparing
  <2>2. Budgeted'
    BY <1>14 DEF NormalizeEvidence, Budgeted
  <2>3. Counted'
    BY <1>14 DEF NormalizeEvidence, Counted, Observing
  <2>4. Explained'
    BY <1>14 DEF NormalizeEvidence, Explained, Preparing, Observing, Concluding
  <2>5. Paced'
    BY <1>14 DEF NormalizeEvidence, Paced
  <2>6. OutOfStepsMeansOverrun'
    BY <1>14 DEF NormalizeEvidence, OutOfStepsMeansOverrun
  <2>7. QED
    BY <2>1, <2>2, <2>3, <2>4, <2>5, <2>6
<1>15. CASE UpdateHypotheses
  <2>1. Prepared'
    BY <1>15 DEF UpdateHypotheses, Prepared, Preparing
  <2>2. Budgeted'
    BY <1>15 DEF UpdateHypotheses, Budgeted
  <2>3. Counted'
    BY <1>15 DEF UpdateHypotheses, Counted, Observing
  <2>4. Explained'
    BY <1>15 DEF UpdateHypotheses, Explained, Preparing, Observing, Concluding
  <2>5. Paced'
    BY <1>15 DEF UpdateHypotheses, Paced
  <2>6. OutOfStepsMeansOverrun'
    BY <1>15 DEF UpdateHypotheses, OutOfStepsMeansOverrun
  <2>7. QED
    BY <2>1, <2>2, <2>3, <2>4, <2>5, <2>6
<1>16. CASE StopGuard
  <2>1. Prepared'
    BY <1>16 DEF StopGuard, AfterGuard, HardStop, Prepared, Preparing
  <2>2. Budgeted'
    BY <1>16 DEF StopGuard, AfterGuard, HardStop, Budgeted
  <2>3. Counted'
    BY <1>16 DEF StopGuard, AfterGuard, HardStop, Counted, Observing
  <2>4. Explained'
    BY <1>16 DEF StopGuard, AfterGuard, HardStop, Explained, Preparing, Observing, Concluding
  <2>5. Paced'
    BY <1>16 DEF StopGuard, AfterGuard, HardStop, Paced
  <2>6. OutOfStepsMeansOverrun'
    BY <1>16 DEF StopGuard, AfterGuard, HardStop, OutOfStepsMeansOverrun
  <2>7. QED
    BY <2>1, <2>2, <2>3, <2>4, <2>5, <2>6
<1>17. CASE BuildPackage
  <2>1. Prepared'
    BY <1>17 DEF BuildPackage, Prepared, Preparing
  <2>2. Budgeted'
    BY <1>17 DEF BuildPackage, Budgeted
  <2>3. Counted'
    BY <1>17 DEF BuildPackage, Counted, Observing
  <2>4. Explained'
    BY <1>17 DEF BuildPackage, Explained, Preparing, Observing, Concluding
  <2>5. Paced'
    BY <1>17 DEF BuildPackage, Paced
  <2>6. OutOfStepsMeansOverrun'
    BY <1>17 DEF BuildPackage, OutOfStepsMeansOverrun
  <2>7. QED
    BY <2>1, <2>2, <2>3, <2>4, <2>5, <2>6
<1>18. CASE WriteReport
  <2>1. Prepared'
    BY <1>18 DEF WriteReport, Prepared, Preparing
  <2>2. Budgeted'
    BY <1>18 DEF WriteReport, Budgeted
  <2>3. Counted'
    BY <1>18 DEF WriteReport, Counted, Observing
  <2>4. Explained'
    BY <1>18 DEF WriteReport, Explained, Preparing, Observing, Concluding
  <2>5. Paced'
    BY <1>18 DEF WriteReport, Paced
  <2>6. OutOfStepsMeansOverrun'
    BY <1>18 DEF WriteReport, OutOfStepsMeansOverrun
  <2>7. QED
    BY <2>1, <2>2, <2>3, <2>4, <2>5, <2>6
<1>19. CASE EvalReport
  <2>1. Prepared'
    BY <1>19 DEF EvalReport, Prepared, Preparing
  <2>2. Budgeted'
    BY <1>19 DEF EvalReport, Budgeted
  <2>3. Counted'
    BY <1>19 DEF EvalReport, Counted, Observing
  <2>4. Explained'
    BY <1>19 DEF EvalReport, Explained, Preparing, Observing, Concluding
  <2>5. Paced'
    BY <1>19 DEF EvalReport, Paced
  <2>6. OutOfStepsMeansOverrun'
    BY <1>19 DEF EvalReport, OutOfStepsMeansOverrun
  <2>7. QED
    BY <2>1, <2>2, <2>3, <2>4, <2>5, <2>6
<1>20. CASE UNCHANGED vars
  BY <1>20 DEF vars, Prepared, Budgeted, Counted, Explained, Paced, OutOfStepsMeansOverrun, Preparing, Observing, Concluding
<1>21. QED
  BY <1>1, <1>2, <1>3, <1>4, <1>5, <1>6, <1>7, <1>8, <1>9, <1>10, <1>11, <1>12, <1>13, <1>14, <1>15, <1>16, <1>17, <1>18, <1>19, <1>20 DEF Next, Done

LEMMA AlwaysSteered == Spec => []Steered
  BY InitiallySteered, SteeredStep, PTL DEF Spec

\* Lookups, scans and parallel batches never spend more than the call budget.
THEOREM BudgetIsKept == Spec => []BudgetKept
<1>1. Steered => BudgetKept
  BY DEF Steered, Budgeted, BudgetKept
<1>2. QED
  BY <1>1, AlwaysSteered, PTL

\* Refused plans pass the iteration limit by the routing attempts at most.
THEOREM IterationsAreBounded == Spec => []IterationsBounded
<1>1. Steered => IterationsBounded
  BY DEF Steered, Counted, IterationsBounded
<1>2. QED
  BY <1>1, AlwaysSteered, PTL

\* A run that keeps its iteration limit ends within the recursion limit.
THEOREM OnlyOverrunsRunOut == Spec => []OutOfStepsMeansOverrun
<1>1. Steered => OutOfStepsMeansOverrun
  BY DEF Steered
<1>2. QED
  BY <1>1, AlwaysSteered, PTL

\* Collection never ends without a reason.
THEOREM EndsAreExplained == Spec => []EndsExplained
<1>1. Steered => EndsExplained
  BY DEF Steered, Explained, EndsExplained, Concluding
<1>2. QED
  BY <1>1, AlwaysSteered, PTL

\* A planner is asked again exactly when it holds the reasons of a refusal.
THEOREM RetriesKnowWhy == Spec => []RetryKnowsWhy
<1>1. Steered => RetryKnowsWhy
  BY DEF Steered, Counted, RetryKnowsWhy
<1>2. QED
  BY <1>1, AlwaysSteered, PTL

\* Once there is a reason to stop, there is always one, and no call is made.
THEOREM StopsAreFinal == Spec => StopIsFinal
<1> DEFINE Kept == stop # "none" => stop' # "none" /\ toolCalls' = toolCalls
<1>1. Steered /\ [Next]_vars => Kept
  <2> SUFFICES ASSUME Steered, [Next]_vars, stop # "none"
               PROVE  stop' # "none" /\ toolCalls' = toolCalls
    OBVIOUS
  <2>1. node \notin Preparing \union Observing
    BY DEF Steered, Explained
  <2>2. CASE node \in {"observation_planner", "tool_router"}
    <3>1. Size(questions) = 0
      BY <2>2 DEF Steered, Explained
    <3>2. PlanObservations \/ RouteNothing \/ UNCHANGED <<stop, toolCalls>>
      BY <2>2, <3>1
         DEF Next, Run, Analyze, Answer, Raise, FailValidation, RunOutOfSteps, ResolveHosts,
             EstablishPhenomenon, PlanHypotheses, RouteCalls, SendBack, GiveUp, Refused,
             ExecuteTools, NormalizeEvidence, UpdateHypotheses, StopGuard, BuildPackage,
             WriteReport, EvalReport, Done, vars, collected, verdict, Steered, TypeOK, Batches,
             AtMost, Size
    <3>3. QED
      BY <3>2 DEF PlanObservations, RouteNothing, collected
  <2>3. CASE node = "stop_guard"
    <3>1. StopGuard \/ UNCHANGED <<stop, toolCalls>>
      BY <2>3
         DEF Next, Run, Analyze, Answer, Raise, FailValidation, RunOutOfSteps, ResolveHosts,
             EstablishPhenomenon, PlanHypotheses, PlanObservations, RouteNothing, RouteCalls,
             SendBack, GiveUp, ExecuteTools, NormalizeEvidence, UpdateHypotheses, BuildPackage,
             WriteReport, EvalReport, Done, vars, collected, verdict
    <3>2. QED
      BY <3>1 DEF StopGuard, HardStop, collected
  <2>4. CASE node \notin {"observation_planner", "tool_router", "stop_guard"}
    BY <2>1, <2>4
       DEF Next, Run, Analyze, Answer, Raise, FailValidation, RunOutOfSteps, ResolveHosts,
           EstablishPhenomenon, PlanHypotheses, PlanObservations, RouteNothing, RouteCalls,
           SendBack, GiveUp, ExecuteTools, NormalizeEvidence, UpdateHypotheses, StopGuard,
           BuildPackage, WriteReport, EvalReport, Done, vars, collected, verdict,
           Preparing, Observing
  <2>5. QED
    BY <2>2, <2>3, <2>4
<1> HIDE DEF Kept
<1>2. Steered /\ [Next]_vars => [Kept]_vars
  BY <1>1
<1>3. Spec => [][Kept]_vars
  BY <1>2, AlwaysSteered, PTL DEF Spec
<1>4. QED
  BY <1>3 DEF Kept, StopIsFinal

-----------------------------------------------------------------------------
(* The loop. *)

LEMMA StartsTheLoop == Init => Loop!LoopInit
BY CollectorAssumption DEF Init, Loop!LoopInit, LoopPhase

LEMMA LoopStep == Steered /\ [Next]_vars => [Loop!LoopNext]_(Loop!loopVars)
<1> SUFFICES ASSUME Steered, [Next]_vars
             PROVE  Loop!LoopNext \/ UNCHANGED Loop!loopVars
  OBVIOUS
<1>0. TypeOK
  BY DEF Steered
<1> USE <1>0, CollectorAssumption
    DEF Steered, TypeOK, Run, collected, routing, verdict, LoopPhase, Loop!loopVars, Loop!LoopNext
<1>1. CASE UNCHANGED vars
  BY <1>1 DEF vars
<1>2. CASE Raise \/ FailValidation \/ RunOutOfSteps
  <2>1. LoopPhase' = "ended" /\ UNCHANGED <<iterations, attempts, toolCalls>>
    BY <1>2 DEF Raise, FailValidation, RunOutOfSteps
  <2>2. QED
    BY <2>1 DEF Loop!End
<1>3. CASE Analyze \/ ResolveHosts \/ EstablishPhenomenon \/ PlanHypotheses
  <2>1. LoopPhase = "preparing" /\ LoopPhase' \in {"preparing", "planning", "ended"}
    BY <1>3 DEF Analyze, ResolveHosts, EstablishPhenomenon, PlanHypotheses
  <2>2. toolCalls' \in toolCalls..MaxToolCalls /\ UNCHANGED <<iterations, attempts>>
    BY <1>3, WhatRemains DEF Analyze, ResolveHosts, EstablishPhenomenon, PlanHypotheses, Budgeted
  <2>3. QED
    BY <2>1, <2>2 DEF Loop!Prepare
<1>4. CASE PlanObservations
  <2>1. CASE stop # "none"
    BY <1>4, <2>1 DEF PlanObservations
  <2>2. CASE stop = "none"
    <3>1. LoopPhase = "planning" /\ LoopPhase' \in {"routing", "ended"}
      BY <1>4, <2>2 DEF PlanObservations
    <3>2. iterations < MaxIterations + attempts
      BY <1>4, <2>2 DEF PlanObservations, Counted
    <3>3. iterations' = iterations + 1 /\ UNCHANGED <<attempts, toolCalls>>
      BY <1>4, <2>2 DEF PlanObservations
    <3>4. QED
      BY <3>1, <3>2, <3>3 DEF Loop!Plan
  <2>3. QED
    BY <2>1, <2>2
<1>5. CASE RouteNothing \/ GiveUp
  <2>1. LoopPhase' = "ended" /\ UNCHANGED <<iterations, toolCalls>>
    BY <1>5 DEF RouteNothing, GiveUp, AfterRouter
  <2>2. attempts' \in {attempts, attempts + 1}
    BY <1>5 DEF RouteNothing, GiveUp
  <2>3. CASE stop = "none"
    BY <1>5, <2>1, <2>2, <2>3 DEF RouteNothing, GiveUp, Loop!End
  <2>4. CASE stop # "none"
    <3>1. RouteNothing
      BY <1>5, <2>4 DEF GiveUp, Refused, Explained
    <3>2. QED
      BY <2>1, <2>4, <3>1 DEF RouteNothing
  <2>5. QED
    BY <2>3, <2>4
<1>6. CASE RouteCalls
  <2>1. LoopPhase = "routing" /\ LoopPhase' = "calling"
    BY <1>6, SizesAreNumbers DEF RouteCalls, AfterRouter, Explained, AtMost
  <2>2. toolCalls < MaxToolCalls
    BY <1>6 DEF RouteCalls, AtMost, Remaining, Batches
  <2>3. attempts' = 0 /\ UNCHANGED <<iterations, toolCalls>>
    BY <1>6 DEF RouteCalls
  <2>4. QED
    BY <2>1, <2>2, <2>3 DEF Loop!Accept
<1>7. CASE SendBack
  <2>1. stop = "none"
    BY <1>7 DEF SendBack, Refused, Explained
  <2>2. attempts < MaxRoutingAttempts /\ attempts' = attempts + 1 /\ UNCHANGED <<iterations, toolCalls>>
    BY <1>7 DEF SendBack
  <2>3. rejections' > 0
    BY <1>7 DEF SendBack, Batches
  <2>4. LoopPhase = "routing" /\ LoopPhase' = "planning"
    BY <1>7, <2>1, <2>3 DEF SendBack, AfterRouter, Explained
  <2>5. QED
    BY <2>2, <2>4 DEF Loop!Refuse
<1>8. CASE ExecuteTools
  <2>1. LoopPhase = "calling" /\ LoopPhase' = "judging"
    BY <1>8 DEF ExecuteTools
  <2>2. toolCalls' \in toolCalls..MaxToolCalls /\ UNCHANGED <<iterations, attempts>>
    BY <1>8 DEF ExecuteTools, Budgeted
  <2>3. QED
    BY <2>1, <2>2 DEF Loop!Call
<1>9. CASE NormalizeEvidence \/ UpdateHypotheses
  <2>1. LoopPhase = "judging" /\ LoopPhase' = "judging" /\ UNCHANGED <<iterations, attempts, toolCalls>>
    BY <1>9 DEF NormalizeEvidence, UpdateHypotheses
  <2>2. QED
    BY <2>1
<1>10. CASE StopGuard
  <2>1. LoopPhase = "judging" /\ UNCHANGED <<iterations, attempts, toolCalls>>
    BY <1>10 DEF StopGuard
  <2>2. CASE stop' = "none"
    <3>1. LoopPhase' = "planning"
      BY <1>10, <2>2 DEF StopGuard, AfterGuard
    <3>2. iterations < MaxIterations /\ toolCalls < MaxToolCalls
      BY <1>10, <2>2 DEF StopGuard, HardStop
    <3>3. QED
      BY <2>1, <3>1, <3>2 DEF Loop!Judge
  <2>3. CASE stop' # "none"
    <3>1. LoopPhase' = "ended"
      BY <1>10, <2>3 DEF StopGuard, AfterGuard
    <3>2. QED
      BY <2>1, <3>1 DEF Loop!End
  <2>4. QED
    BY <2>2, <2>3
<1>11. CASE BuildPackage \/ WriteReport \/ EvalReport \/ Answer
  <2>1. LoopPhase = "ended" /\ LoopPhase' = "ended" /\ UNCHANGED <<iterations, attempts, toolCalls>>
    BY <1>11 DEF BuildPackage, WriteReport, EvalReport, Answer
  <2>2. QED
    BY <2>1
<1>12. QED
  BY <1>1, <1>2, <1>3, <1>4, <1>5, <1>6, <1>7, <1>8, <1>9, <1>10, <1>11 DEF Next, Done

\* The graph is the loop it promises, step by step, for any limits.
THEOREM GraphImplementsLoop == Spec => ImplementsLoop
<1>1. Init => Loop!LoopInit
  BY StartsTheLoop
<1>2. Steered /\ [Next]_vars => [Loop!LoopNext]_(Loop!loopVars)
  BY LoopStep
<1>3. QED
  BY <1>1, <1>2, AlwaysSteered, PTL DEF Spec, ImplementsLoop, Loop!LoopSpec

LoopFacts == INSTANCE CollectionLoopProofs WITH
  MaxTurns <- MaxIterations, MaxCalls <- MaxToolCalls, MaxRetries <- MaxRoutingAttempts,
  phase <- LoopPhase, turns <- iterations, retries <- attempts, calls <- toolCalls

\* So it inherits the loop's measure: every node that plans, refuses, calls or
\* judges brings the end of the collection nearer, whatever is answered.
THEOREM GraphRunsDown == Spec => Loop!RunsDown
<1>1. LoopFacts!Limits
  BY CollectorAssumption DEF LoopFacts!Limits
<1>2. LoopFacts!LoopSpec => LoopFacts!RunsDown
  BY <1>1, LoopFacts!LoopRunsDown, PTL
<1>3. Loop!LoopInit => LoopFacts!LoopInit
  BY DEF Loop!LoopInit, LoopFacts!LoopInit
<1>4. [Loop!LoopNext]_(Loop!loopVars) => [LoopFacts!LoopNext]_(LoopFacts!loopVars)
  BY DEF Loop!LoopNext, Loop!Prepare, Loop!Plan, Loop!Refuse, Loop!Accept, Loop!Call, Loop!Judge,
         Loop!End, Loop!loopVars, LoopFacts!LoopNext, LoopFacts!Prepare, LoopFacts!Plan,
         LoopFacts!Refuse, LoopFacts!Accept, LoopFacts!Call, LoopFacts!Judge, LoopFacts!End,
         LoopFacts!loopVars
<1>5. [LoopFacts!StepsLeft' < LoopFacts!StepsLeft]_(LoopFacts!loopVars)
        => [Loop!StepsLeft' < Loop!StepsLeft]_(Loop!loopVars)
  BY DEF LoopFacts!StepsLeft, LoopFacts!loopVars, Loop!StepsLeft, Loop!loopVars
<1>6. QED
  BY <1>2, <1>3, <1>4, <1>5, GraphImplementsLoop, PTL
     DEF ImplementsLoop, Loop!LoopSpec, LoopFacts!LoopSpec, LoopFacts!RunsDown, Loop!RunsDown

-----------------------------------------------------------------------------
(* What an investigation is discarded for. *)

LEMMA Multiples ==
  ASSUME NEW b \in Nat, NEW m \in Nat, NEW n \in Nat, m <= n
  PROVE  b * m \in Nat /\ b * (m + 1) = b * m + b /\ b * m <= b * n
<1>1. PICK d \in Nat : n = m + d
  <2>1. n - m \in Nat /\ n = m + (n - m)
    OBVIOUS
  <2>2. QED
    BY <2>1
<1>2. b * n = b * m + b * d /\ b * m \in Nat /\ b * d \in Nat
  BY <1>1
<1>3. b * (m + 1) = b * m + b
  OBVIOUS
<1>4. QED
  BY <1>2, <1>3

LEMMA InitiallySized == Init => Sized
BY CollectorAssumption DEF Init, Sized, Size, NoQuestions

LEMMA SizedStep == Steered /\ Sized /\ [Next]_vars => Sized'
<1> SUFFICES ASSUME Steered, Sized, [Next]_vars PROVE Sized'
  OBVIOUS
<1>0. TypeOK /\ TypeOK'
  BY TypeStep DEF Steered
<1>a. /\ BatchCapacity * attempts \in Nat
      /\ BatchCapacity * (attempts + 1) = BatchCapacity * attempts + BatchCapacity
  BY <1>0, Multiples, CollectorAssumption DEF TypeOK
<1> USE <1>0, CollectorAssumption DEF TypeOK, Run, collected, routing, verdict
\* Whatever leaves the lists alone keeps them as they are.
<1>1. ASSUME node' # "invalid", UNCHANGED <<hosts, observations, questions, planned, rejections, attempts>>
      PROVE  Sized'
  BY <1>1 DEF Sized, Size
<1>2. CASE Analyze \/ Answer \/ Raise \/ RunOutOfSteps
  BY <1>1, <1>2 DEF Analyze, Answer, Raise, RunOutOfSteps
<1>3. CASE FailValidation
  BY <1>3 DEF FailValidation, Sized, Size, Fits
<1>4. CASE ResolveHosts
  <2>1. /\ hosts' <= HostsFound /\ observations' <= HostSearchTurns /\ node' # "invalid"
        /\ UNCHANGED <<questions, planned, rejections, attempts>>
    BY <1>4, WhatRemains DEF ResolveHosts
  <2>2. QED
    BY <2>1 DEF Sized, Size
<1>5. CASE EstablishPhenomenon
  <2>1. /\ observations' <= ScansPlanned /\ node' # "invalid"
        /\ UNCHANGED <<hosts, questions, planned, rejections, attempts>>
    BY <1>5, WhatRemains DEF EstablishPhenomenon
  <2>2. QED
    BY <2>1 DEF Sized, Size
<1>6. CASE PlanObservations
  <2>1. CASE stop # "none"
    BY <1>1, <1>6, <2>1 DEF PlanObservations
  <2>2. CASE stop = "none"
    <3>1. /\ Size(questions') <= AtMost(BatchCapacity, Remaining) /\ planned' = 0 /\ node' # "invalid"
          /\ UNCHANGED <<hosts, observations, rejections, attempts>>
      BY <1>6, <2>2 DEF PlanObservations
    <3>2. Size(questions)' = Size(questions')
      BY DEF Size
    <3>3. Size(questions') \in Nat
      BY SizesAreNumbers
    <3>4. Size(questions') <= BatchCapacity
      BY <3>1, <3>3, WhatRemains
    <3>5. QED
      BY <3>1, <3>2, <3>4 DEF Sized
  <2>3. QED
    BY <2>1, <2>2
<1>7. CASE RouteNothing
  BY <1>7 DEF RouteNothing, AfterRouter, Sized, Size
<1>8. CASE RouteCalls
  <2>1. /\ planned' = AtMost(questions.allowed, Remaining) /\ rejections' = 0 /\ attempts' = 0
        /\ node' # "invalid" /\ UNCHANGED <<hosts, observations, questions>>
    BY <1>8 DEF RouteCalls, AfterRouter
  <2>2. questions.allowed \in Nat /\ questions.allowed <= Size(questions)
    BY DEF Batches, Size
  <2>3. planned' <= BatchCapacity
    BY <2>1, <2>2, WhatRemains, SizesAreNumbers DEF Sized
  <2>4. QED
    BY <2>1, <2>3 DEF Sized, Size
<1>9. CASE SendBack \/ GiveUp
  <2>1. /\ planned' = 0 /\ attempts' = attempts + 1 /\ node' # "invalid"
        /\ rejections' = rejections + questions.retryable
        /\ questions' \in {questions, NoQuestions} /\ UNCHANGED <<hosts, observations>>
    BY <1>9 DEF SendBack, GiveUp, AfterRouter
  <2>2. questions.retryable \in Nat /\ questions.retryable <= BatchCapacity
    BY DEF Batches, Size, Sized
  <2>3. attempts <= MaxRoutingAttempts
    BY <1>9 DEF SendBack, GiveUp, Steered, Counted
  <2>4. rejections' <= BatchCapacity * attempts'
    BY <1>a, <2>1, <2>2 DEF Sized
  <2>5. Size(questions)' <= BatchCapacity
    BY <2>1, SizesAreNumbers DEF Sized, Size
  <2>6. QED
    BY <2>1, <2>3, <2>4, <2>5 DEF Sized
<1>10. CASE ExecuteTools
  <2>1. /\ observations' \in {observations} \union 0..planned /\ node' # "invalid"
        /\ UNCHANGED <<hosts, questions, planned, rejections, attempts>>
    BY <1>10 DEF ExecuteTools
  <2>2. QED
    BY <2>1 DEF Sized, Size
<1>11. CASE PlanHypotheses \/ NormalizeEvidence \/ UpdateHypotheses \/ StopGuard
  BY <1>1, <1>11 DEF PlanHypotheses, NormalizeEvidence, UpdateHypotheses, StopGuard, AfterGuard
<1>12. CASE BuildPackage \/ WriteReport \/ EvalReport
  BY <1>1, <1>12 DEF BuildPackage, WriteReport, EvalReport
<1>13. CASE UNCHANGED vars
  BY <1>13 DEF vars, Sized, Size, Fits
<1>14. QED
  BY <1>2, <1>3, <1>4, <1>5, <1>6, <1>7, <1>8, <1>9, <1>10, <1>11, <1>12, <1>13 DEF Next, Done

\* An investigation is discarded only where the bounds of its state are smaller
\* than what the graph and its contracts let into it, never by the order of events.
THEOREM DiscardsHaveACause == Spec => []DiscardHasCause
<1>1. Steered /\ Sized => DiscardHasCause
  <2> SUFFICES ASSUME Steered, Sized, node = "invalid",
                      HostsFound <= HostCapacity, ScansPlanned <= BatchCapacity,
                      HostSearchTurns <= BatchCapacity,
                      MaxIterations + MaxRoutingAttempts <= IterationCapacity,
                      BatchCapacity * (MaxRoutingAttempts + 1) <= RejectionCapacity
               PROVE  hypotheses > HypothesisCapacity
    <3>1. BatchCapacity * (MaxRoutingAttempts + 1) \in Nat
      BY Multiples, CollectorAssumption
    <3>2. QED
      BY <3>1, CollectorAssumption DEF DiscardHasCause
  <2>1. TypeOK /\ ~Fits
    BY DEF Steered, Sized
  <2>2. hosts <= HostCapacity /\ observations <= BatchCapacity
    BY <2>1, CollectorAssumption DEF Sized, TypeOK
  <2>3. iterations <= IterationCapacity
    BY <2>1, CollectorAssumption DEF Steered, Counted, TypeOK
  <2>4. rejections <= RejectionCapacity
    <3>1. /\ BatchCapacity * attempts <= BatchCapacity * (MaxRoutingAttempts + 1)
          /\ BatchCapacity * attempts \in Nat
      BY <2>1, Multiples, CollectorAssumption DEF Sized, TypeOK
    <3>2. BatchCapacity * (MaxRoutingAttempts + 1) \in Nat
      BY Multiples, CollectorAssumption
    <3>3. QED
      BY <2>1, <3>1, <3>2, CollectorAssumption DEF Sized, TypeOK
  <2>5. QED
    BY <2>1, <2>2, <2>3, <2>4, CollectorAssumption DEF Fits, TypeOK
<1>2. Init => Sized
  BY InitiallySized
<1>3. Steered /\ Sized /\ [Next]_vars => Sized'
  BY SizedStep
<1>4. QED
  BY <1>1, <1>2, <1>3, AlwaysSteered, PTL DEF Spec
=============================================================================
