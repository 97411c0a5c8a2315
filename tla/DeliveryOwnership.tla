---------------------------- MODULE DeliveryOwnership ----------------------------
(***************************************************************************)
(* Owned is inductive, and what follows from it: one delivery at a time,   *)
(* outcomes that are final, anchors that never move.                       *)
(***************************************************************************)
EXTENDS DeliveryProofs, DeliveryInvariants

\* A step counts one fault or none.
LEMMA FaultsAreCounted ==
  ASSUME [Next]_vars
  PROVE  UNCHANGED faults \/ \E kind \in CountedFaults : Fault(kind)
<1>1. ASSUME NEW w \in Workers, ClosingStep(w)
      PROVE  UNCHANGED faults \/ \E kind \in CountedFaults : Fault(kind)
  BY <1>1 DEF ClosingStep, Close, ScheduleRetry, Abandon, MarkFailed, RecordFailure,
              Announce, Note, ClosingWrite, CountedFaults
<1>2. ASSUME NEW w \in Workers, DeliveryStep(w)
      PROVE  UNCHANGED faults
  BY <1>2 DEF DeliveryStep, Claim, ReadStatus, ReadReport, Acknowledge, MarkAnalyzing,
              Investigate, RecordRuns, PostOutcome, RecordOutcome, DeliveryWrite
<1>3. QED
  BY <1>1, <1>2 DEF Next, WorkerStep, DeliveryThrows, Crash, ReceiveQuestion, SaveQuestion,
                    LoseQuestion, BackoffEnds, ClaimExpires, ClaimLapsesEarly, vars,
                    CountedFaults

\* Faults are only ever added.
LEMMA LocksWereHeld ==
  ASSUME IType, [Next]_vars, LocksHeld'
  PROVE  LocksHeld
<1>1. faults["lapse"] \in Nat
  BY DeliveryAssumption DEF IType, TypeOK, CountedFaults
<1>2. CASE UNCHANGED faults
  BY <1>2 DEF LocksHeld
<1>3. CASE \E kind \in CountedFaults : Fault(kind)
  <2>1. PICK kind \in CountedFaults : faults' = [faults EXCEPT ![kind] = @ + 1]
    BY <1>3 DEF Fault
  <2>2. faults'["lapse"] = faults["lapse"] \/ faults'["lapse"] = faults["lapse"] + 1
    BY <2>1 DEF IType, TypeOK, CountedFaults
  <2>3. QED
    BY <1>1, <2>2 DEF LocksHeld
<1>4. QED
  BY <1>2, <1>3, FaultsAreCounted

-----------------------------------------------------------------------------
(* A step of one worker. *)

\* What Owned says once the locks are known to be held.
Held ==
  /\ \A v, w \in Workers : task[v].req = task[w].req /\ task[v].req \in Requests => v = w
  /\ \A w \in Workers : WorkerOK(w)
  /\ \A r \in Requests : RowOK(r) /\ ParentOK(r)
  /\ \A h \in inflight : HandlerOK(h)

\* Row q, as the other workers, rows and handlers see it, has not changed.
SameRow(q) ==
  /\ status'[q] = status[q]
  /\ ackTs'[q] = ackTs[q]
  /\ q \in reported' <=> q \in reported
  /\ q \in locked' <=> q \in locked
  /\ q \in dispatched' <=> q \in dispatched

\* A worker's step on the row of its own job keeps the invariant if it keeps the
\* worker's own part and the row's, and does not touch a question that other
\* requests hang from.
LEMMA OwnRowStep ==
  ASSUME IType, IType', Held, NEW w \in Workers, task[w].at # "idle",
         NEW r \in Requests, task[w].req = r,
         \A v \in Workers : v # w => task'[v] = task[v],
         task'[w].req \in {r, NoRequest},
         \A q \in Requests : q # r => SameRow(q),
         parent' = parent, inflight' = inflight,
         status[r] \in {"needs_clarification", "clarified"} =>
           /\ status'[r] = status[r]
           /\ ackTs'[r] = ackTs[r],
         WorkerOK(w)', RowOK(r)',
         parent[r] \in Requests /\ ackTs'[r] # NoTs =>
           ackTs'[r] = ackTs[parent[r]]
  PROVE  Held'
<1>1. NoRequest \notin Requests
  BY DeliveryAssumption
<1>2. ASSUME NEW q \in Requests, parent[q] \in Requests
      PROVE  status'[parent[q]] = "clarified" /\ ackTs'[parent[q]] = ackTs[parent[q]]
  <2>1. status[parent[q]] = "clarified"
    BY <1>2 DEF Held, ParentOK
  <2>2. CASE parent[q] = r
    BY <2>1, <2>2
  <2>3. CASE parent[q] # r
    BY <1>2, <2>1, <2>3 DEF SameRow
  <2>4. QED
    BY <2>2, <2>3
<1>3. \A u, v \in Workers : task'[u].req = task'[v].req /\ task'[u].req \in Requests => u = v
  BY <1>1 DEF Held
<1>4. ASSUME NEW v \in Workers
      PROVE  WorkerOK(v)'
  <2>1. CASE v = w
    BY <2>1 DEF WorkerOK, HoldsJob, KnowsOutcome, KnowsAnchor, KnowsThread
  <2>2. CASE v # w /\ task[v].at # "idle"
    <3>1. task'[v] = task[v] /\ task[v].req \in Requests /\ task[v].req # r
      BY <1>1, <2>2 DEF IType, TaskOK, Held
    <3>2. SameRow(task[v].req)
      BY <3>1
    <3>3. WorkerOK(v)
      BY DEF Held
    <3>4. QED
      BY <1>2, <2>2, <3>1, <3>2, <3>3
         DEF WorkerOK, HoldsJob, KnowsOutcome, KnowsAnchor, KnowsThread, SameRow
  <2>3. CASE v # w /\ task[v].at = "idle"
    BY <2>3 DEF WorkerOK
  <2>4. QED
    BY <2>1, <2>2, <2>3
<1>5. ASSUME NEW q \in Requests
      PROVE  RowOK(q)'
  <2>1. CASE q = r
    BY <2>1 DEF RowOK
  <2>2. CASE q # r
    <3>1. RowOK(q) /\ SameRow(q)
      BY <2>2 DEF Held
    <3>2. QED
      BY <3>1 DEF RowOK, SameRow
  <2>3. QED
    BY <2>1, <2>2
<1>6. ASSUME NEW q \in Requests, parent'[q] \in Requests
      PROVE  ParentOK(q)'
  <2>1. parent[q] \in Requests /\ ParentOK(q)
    BY <1>6 DEF Held
  <2>2. status'[parent[q]] = "clarified" /\ ackTs'[parent[q]] = ackTs[parent[q]]
    BY <1>2, <2>1
  <2>3. CASE q = r
    BY <2>1, <2>2, <2>3 DEF ParentOK
  <2>4. CASE q # r
    <3>1. ackTs'[q] = ackTs[q]
      BY <2>4 DEF SameRow
    <3>2. QED
      BY <2>1, <2>2, <3>1 DEF ParentOK
  <2>5. QED
    BY <2>3, <2>4
<1>7. ASSUME NEW h \in inflight'
      PROVE  HandlerOK(h)'
  <2>1. h \in inflight /\ HandlerOK(h)
    BY <1>7 DEF Held
  <2>2. CASE h.parent \in Requests
    <3>1. status'[h.parent] = status[h.parent]
      BY <2>1, <2>2 DEF HandlerOK, SameRow
    <3>2. QED
      BY <2>1, <3>1 DEF HandlerOK
  <2>3. CASE h.parent \notin Requests
    BY <2>3 DEF HandlerOK
  <2>4. QED
    BY <2>2, <2>3
<1>8. \A q \in Requests : ParentOK(q)'
  BY <1>6 DEF ParentOK
<1>9. QED
  BY <1>3, <1>4, <1>5, <1>7, <1>8 DEF Held

\* A step of a worker that changes none of the rows the invariant speaks of.
LEMMA MoveStep ==
  ASSUME IType, IType', Held, NEW w \in Workers, task[w].at # "idle",
         NEW r \in Requests, task[w].req = r,
         \A v \in Workers : v # w => task'[v] = task[v],
         task'[w].req \in {r, NoRequest},
         UNCHANGED <<status, ackTs, reported, locked, dispatched, parent, inflight>>,
         WorkerOK(w)'
  PROVE  Held'
<1>2. RowOK(r) /\ ParentOK(r)
  BY DEF Held
<1>3. RowOK(r)'
  BY <1>2 DEF RowOK
<1>4. \A q \in Requests : q # r => SameRow(q)
  BY DEF SameRow
<1>5. parent[r] \in Requests /\ ackTs'[r] # NoTs => ackTs'[r] = ackTs[parent[r]]
  BY <1>2 DEF ParentOK
<1>6. QED
  BY <1>3, <1>4, <1>5, OwnRowStep

\* The steps of a delivery before its outcome: reading, acknowledging, marking
\* and investigating.
LEMMA BeginningStep ==
  ASSUME IType, IType', Held, NEW w \in Workers,
         NEW r \in Requests, task[w].req = r,
         \/ ReadStatus(w) \/ ReadReport(w) \/ Acknowledge(w) \/ MarkAnalyzing(w)
         \/ Investigate(w) \/ DeliveryThrows(w)
  PROVE  Held'
<1>1. /\ task[w].at # "idle"
      /\ task[w].at \in DeliverySteps
  BY DEF ReadStatus, ReadReport, Acknowledge, MarkAnalyzing, DeliveryWrite, Investigate,
         DeliveryThrows, DeliverySteps
<1>2. task[w] \in Tasks
  BY DEF IType, TypeOK
<1>3. WorkerOK(w) /\ RowOK(r) /\ ParentOK(r)
  BY <1>2 DEF Held
<1>4. HoldsJob(w) /\ KnowsOutcome(w) /\ KnowsAnchor(w) /\ KnowsThread(w)
  BY <1>1, <1>3 DEF WorkerOK
<1>5. r \notin dispatched
  BY <1>1, <1>4 DEF HoldsJob, OpenSteps
<1>6. ASSUME NEW step \in Steps, Goto(w, step)
      PROVE  /\ task'[w].at = step
             /\ task'[w].req \in {r, NoRequest}
             /\ step # "idle" => task'[w].req = r /\ task'[w].anchor = task[w].anchor
                                /\ task'[w].root = task[w].root
             /\ \A v \in Workers : v # w => task'[v] = task[v]
  <2>1. /\ task'[w].at = step
        /\ step = "idle" => task'[w] = NoTask
        /\ step # "idle" => task'[w] = [task[w] EXCEPT !.at = step]
        /\ \A v \in Workers : v # w => task'[v] = task[v]
    BY <1>6, GotoEffect DEF IType
  <2>2. QED
    BY <1>2, <2>1 DEF Tasks, NoTask
<1>7. {"caught", "close", "readReport", "ack", "mark", "rca"} \subseteq Steps
  BY DEF Steps, DeliverySteps, ClosingSteps
<1> USE DEF WorkerOK, HoldsJob, KnowsOutcome, KnowsAnchor, KnowsThread, OpenSteps, ClosedSteps,
            UndecidedSteps, AnchoredSteps, DeliverySteps
<1>8. ASSUME Goto(w, "caught"), UNCHANGED storeVars, UNCHANGED inflight
      PROVE  Held'
  <2>1. WorkerOK(w)'
    BY <1>4, <1>5, <1>6, <1>7, <1>8 DEF storeVars
  <2>2. QED
    BY <1>1, <1>6, <1>7, <1>8, <2>1, MoveStep DEF storeVars
<1>9. CASE DeliveryThrows(w)
  BY <1>8, <1>9 DEF DeliveryThrows
<1>10. CASE ReadStatus(w)
  <2>1. task[w].at = "readStatus" /\ UNCHANGED storeVars /\ UNCHANGED inflight
    BY <1>10 DEF ReadStatus
  <2>2. PICK step \in {"close", "readReport"} :
          /\ Goto(w, step)
          /\ step = "close" => status[r] \in ClarificationAsked
          /\ step = "readReport" => status[r] \notin ClarificationAsked
    BY <1>10 DEF ReadStatus
  <2>3. WorkerOK(w)'
    BY <1>4, <1>6, <1>7, <2>1, <2>2 DEF storeVars, Settled
  <2>4. QED
    BY <1>1, <1>6, <1>7, <2>1, <2>2, <2>3, MoveStep DEF storeVars
<1>11. CASE ReadReport(w)
  <2>1. task[w].at = "readReport" /\ UNCHANGED storeVars /\ UNCHANGED inflight
    BY <1>11 DEF ReadReport
  <2>2. PICK step \in {"close", "ack", "mark"} :
          /\ Goto(w, step)
          /\ step = "close" => r \in reported
          /\ step \in {"ack", "mark"} => r \notin reported
          /\ step = "ack" => task[w].anchor = NoTs
          /\ step = "mark" => task[w].anchor # NoTs
    BY <1>11 DEF ReadReport
  <2>3. /\ step = "close" => status[r] \in Settled
        /\ step \in {"ack", "mark"} => status[r] \notin Settled
    BY <1>3, <1>4, <2>1, <2>2 DEF RowOK, Settled
  <2>4. step = "mark" /\ parent[r] \in Requests => task[w].anchor = ackTs[parent[r]]
    BY <1>3, <1>4, <2>1, <2>2 DEF ParentOK
  <2>5. WorkerOK(w)'
    BY <1>4, <1>6, <1>7, <2>1, <2>2, <2>3, <2>4 DEF storeVars
  <2>6. QED
    BY <1>1, <1>6, <1>7, <2>1, <2>2, <2>5, MoveStep DEF storeVars
<1>12. CASE Acknowledge(w)
  <2> DEFINE ts == <<r, posts[r]["ack"] + 1>>
             anchor == IF task[w].root # NoTs THEN task[w].root ELSE ts
  <2>1. task[w].at = "ack" /\ UNCHANGED storeVars /\ UNCHANGED inflight
    BY <1>12 DEF Acknowledge
  <2>2. ts # NoTs
    <3>1. posts[r]["ack"] + 1 \in Nat
      BY <1>2 DEF IType, TypeOK, PostKinds
    <3>2. QED
      BY <1>2, <3>1, StoreAssumption DEF Ts
  <2>3. anchor # NoTs
    BY <2>2
  <2>4. parent[r] \in Requests => anchor = ackTs[parent[r]]
    <3>1. ASSUME parent[r] \in Requests
          PROVE  ackTs[parent[r]] # NoTs /\ task[w].root = ackTs[parent[r]]
      <4>1. status[parent[r]] = "clarified" /\ RowOK(parent[r])
        BY <1>3, <3>1 DEF ParentOK, Held
      <4>2. QED
        BY <1>4, <2>1, <3>1, <4>1 DEF RowOK, ClarificationAsked
    <3>2. QED
      BY <3>1
  <2> HIDE DEF anchor
  <2>5. CASE Goto(w, "caught")
    BY <1>8, <2>1, <2>5
  <2>6. CASE task' = [task EXCEPT ![w].at = "mark", ![w].anchor = anchor]
    <3>1. /\ task'[w] = [task[w] EXCEPT !.at = "mark", !.anchor = anchor]
          /\ \A v \in Workers : v # w => task'[v] = task[v]
      BY <2>6 DEF IType, TypeOK
    <3>2. task'[w].at = "mark" /\ task'[w].req = r /\ task'[w].anchor = anchor
      BY <1>2, <3>1 DEF Tasks
    <3>3. WorkerOK(w)'
      BY <1>4, <2>1, <2>3, <2>4, <3>2 DEF storeVars
    <3>4. QED
      BY <1>1, <2>1, <3>1, <3>2, <3>3, MoveStep DEF storeVars
  <2>7. QED
    BY <1>12, <2>5, <2>6 DEF Acknowledge, anchor
<1>13. CASE MarkAnalyzing(w)
  <2> DEFINE ts == task[w].anchor
  <2>1. /\ task[w].at = "mark"
        /\ Goto(w, "rca") \/ Goto(w, "caught")
        /\ status' = [status EXCEPT ![r] = "analyzing_question"]
        /\ ackTs' = [ackTs EXCEPT ![r] = IF ts = NoTs THEN @ ELSE ts]
        /\ UNCHANGED <<parent, reported, locked, dispatched, inflight>>
    BY <1>13 DEF MarkAnalyzing, DeliveryWrite, UpdateRequestStatus, queueRow
  <2>2. ts # NoTs /\ status[r] \notin Settled
    BY <1>4, <2>1
  <2>3. /\ status'[r] = "analyzing_question"
        /\ ackTs'[r] = ts
        /\ \A q \in Requests : q # r => SameRow(q)
    BY <1>2, <2>1, <2>2 DEF IType, TypeOK, StoreTypeOK, SameRow
  <2>4. /\ task'[w].at \in {"rca", "caught"}
        /\ task'[w].req = r
        /\ \A v \in Workers : v # w => task'[v] = task[v]
    BY <1>6, <1>7, <2>1
  <2>5. WorkerOK(w)'
    BY <1>4, <2>1, <2>2, <2>3, <2>4 DEF Settled, ClarificationAsked
  <2>6. RowOK(r)'
    BY <1>3, <2>1, <2>2, <2>3 DEF RowOK, Settled, ClarificationAsked
  <2>7. status[r] \notin {"needs_clarification", "clarified"}
    BY <2>2 DEF Settled, ClarificationAsked
  <2>8. parent[r] \in Requests /\ ackTs'[r] # NoTs => ackTs'[r] = ackTs[parent[r]]
    BY <1>4, <2>1, <2>3
  <2>9. QED
    BY <1>1, <2>1, <2>3, <2>4, <2>5, <2>6, <2>7, <2>8, OwnRowStep
<1>14. CASE Investigate(w)
  <2>1. task[w].at = "rca" /\ UNCHANGED storeVars /\ UNCHANGED inflight
    BY <1>14 DEF Investigate
  <2>2. PICK o \in Outcomes : task' = [task EXCEPT ![w].at = "audit", ![w].result = o]
    BY <1>14 DEF Investigate
  <2>3. /\ task'[w] = [task[w] EXCEPT !.at = "audit", !.result = o]
        /\ \A v \in Workers : v # w => task'[v] = task[v]
    BY <2>2 DEF IType, TypeOK
  <2>4. task'[w].at = "audit" /\ task'[w].req = r
    BY <1>2, <2>3 DEF Tasks
  <2>5. WorkerOK(w)'
    BY <1>4, <2>1, <2>4 DEF storeVars
  <2>6. QED
    BY <1>1, <2>1, <2>3, <2>4, <2>5, MoveStep DEF storeVars
<1>15. QED
  BY <1>9, <1>10, <1>11, <1>12, <1>13, <1>14

\* The steps of a delivery that produce and record its outcome.
LEMMA OutcomeStep ==
  ASSUME IType, IType', Held, NEW w \in Workers,
         NEW r \in Requests, task[w].req = r,
         RecordRuns(w) \/ PostOutcome(w) \/ RecordOutcome(w)
  PROVE  Held'
<1>1. /\ task[w].at \in {"audit", "post", "record"}
      /\ task[w].at # "idle"
      /\ UNCHANGED inflight
  BY DEF RecordRuns, PostOutcome, RecordOutcome, DeliveryWrite
<1>2. WorkerOK(w) /\ RowOK(r) /\ ParentOK(r)
  BY DEF Held
<1>3. HoldsJob(w) /\ KnowsOutcome(w) /\ KnowsAnchor(w) /\ KnowsThread(w)
  BY <1>1, <1>2 DEF WorkerOK
<1>4. /\ status[r] # "absent"
      /\ status[r] \notin Settled
      /\ r \in locked \union dispatched
      /\ r \notin dispatched
      /\ ackTs[r] # NoTs
  BY <1>1, <1>3 DEF HoldsJob, KnowsOutcome, KnowsAnchor, OpenSteps, UndecidedSteps,
                    AnchoredSteps, DeliverySteps
<1>5. PICK next \in {"post", "record", "close", "caught"} :
        /\ Goto(w, next)
        /\ next = "post" => RecordRuns(w)
        /\ next = "record" => PostOutcome(w)
        /\ next = "close" => RecordOutcome(w)
  BY DEF RecordRuns, PostOutcome, RecordOutcome, DeliveryWrite
<1>6. next \in Steps
  BY DEF Steps, DeliverySteps, ClosingSteps
<1>7. /\ task'[w].at = next
      /\ task'[w].req = r
      /\ \A v \in Workers : v # w => task'[v] = task[v]
  BY <1>5, <1>6, GotoMoves
<1>8. CASE RecordRuns(w) \/ PostOutcome(w)
  <2>1. UNCHANGED <<status, ackTs, reported, locked, dispatched, parent>>
    BY <1>8 DEF RecordRuns, PostOutcome, DeliveryWrite, RecordAgentRuns, requestRow,
                queueRow, storeVars
  <2>2. next # "close"
    BY <1>1, <1>5, <1>8 DEF RecordRuns, PostOutcome, RecordOutcome, DeliveryWrite
  <2>3. WorkerOK(w)'
    BY <1>4, <1>5, <1>7, <2>1, <2>2
       DEF WorkerOK, HoldsJob, KnowsOutcome, KnowsAnchor, KnowsThread, ClosedSteps
  <2>4. QED
    BY <1>1, <1>7, <2>1, <2>3, MoveStep
<1>9. CASE RecordOutcome(w)
  <2>1. task[w].result \in Outcomes
    BY <1>9 DEF RecordOutcome, DeliveryWrite, IType, TaskOK
  <2>2. /\ status' = [status EXCEPT ![r] = task[w].result]
        /\ reported' = IF task[w].result = "completed" THEN reported \union {r} ELSE reported
        /\ ackTs' = ackTs
        /\ UNCHANGED <<locked, dispatched, parent>>
    <3>1. CASE task[w].result = "completed"
      BY <1>9, <3>1 DEF RecordOutcome, DeliveryWrite, SaveReport, queueRow
    <3>2. CASE task[w].result # "completed"
      <4>1. UpdateRequestStatus(r, task[w].result, NoTs)
        BY <1>9, <3>2 DEF RecordOutcome, DeliveryWrite
      <4>2. task[w].result # "failed"
        BY <2>1 DEF Outcomes
      <4>3. QED
        BY <3>2, <4>1, <4>2 DEF UpdateRequestStatus, queueRow, IType, TypeOK, StoreTypeOK
    <3>3. QED
      BY <3>1, <3>2
  <2>3. /\ status'[r] = task[w].result
        /\ status'[r] \in Settled
        /\ status'[r] \notin {"failed", "absent"}
    BY <2>1, <2>2 DEF Outcomes, Settled, ClarificationAsked, IType, TypeOK, StoreTypeOK
  <2>4. \A q \in Requests : q # r => SameRow(q)
    BY <2>2 DEF SameRow, IType, TypeOK, StoreTypeOK
  <2>5. next \in {"close", "caught"}
    BY <1>1, <1>5, <1>9 DEF RecordRuns, PostOutcome, RecordOutcome, DeliveryWrite
  <2>6. WorkerOK(w)'
    BY <1>4, <1>7, <2>2, <2>3, <2>5
       DEF WorkerOK, HoldsJob, KnowsOutcome, KnowsAnchor, KnowsThread, ClosedSteps,
           UndecidedSteps, AnchoredSteps
  <2>7. RowOK(r)'
    BY <1>2, <1>4, <2>2, <2>3 DEF RowOK, Settled
  <2>8. status[r] \notin {"needs_clarification", "clarified"}
    BY <1>4 DEF Settled, ClarificationAsked
  <2>9. parent[r] \in Requests /\ ackTs'[r] # NoTs => ackTs'[r] = ackTs[parent[r]]
    BY <1>2, <2>2 DEF ParentOK
  <2>10. QED
    BY <1>1, <1>7, <2>2, <2>4, <2>6, <2>7, <2>8, <2>9, OwnRowStep
<1>10. QED
  BY <1>8, <1>9

-----------------------------------------------------------------------------
(* Closing. *)

\* A closing step that closes the job, frees its lock or refuses to, and fails
\* the request only if that is allowed.
LEMMA ClosingRowStep ==
  ASSUME IType, IType', Held, NEW w \in Workers, task[w].at # "idle",
         NEW r \in Requests, task[w].req = r,
         NEW next \in {"idle", "noteClose"} \union ClosedSteps, Goto(w, next),
         UNCHANGED <<ackTs, reported, parent, inflight>>,
         \A q \in Requests : q # r => SameRow(q),
         \/ status'[r] = status[r]
         \/ status[r] \notin Settled /\ status'[r] = "failed" /\ r \in dispatched',
         r \in dispatched => r \in dispatched',
         next \in ClosedSteps => r \in dispatched',
         next = "noteClose" => status[r] \in Settled /\ r \in locked' \union dispatched'
  PROVE  Held'
<1>1. next \in Steps /\ next \notin OpenSteps
  BY DEF Steps, ClosingSteps, ClosedSteps, OpenSteps, DeliverySteps
<1>2. /\ task'[w].at = next
      /\ next # "idle" => task'[w].req = r
      /\ next = "idle" => task'[w].req = NoRequest
      /\ \A v \in Workers : v # w => task'[v] = task[v]
  <2>1. /\ task'[w].at = next
        /\ next # "idle" => task'[w].req = r
        /\ \A v \in Workers : v # w => task'[v] = task[v]
    BY <1>1, GotoMoves
  <2>2. next = "idle" => task'[w] = NoTask
    BY <1>1, GotoEffect DEF IType
  <2>3. QED
    BY <2>1, <2>2 DEF NoTask
<1>3. WorkerOK(w) /\ RowOK(r) /\ ParentOK(r)
  BY DEF Held
<1>4. status[r] # "absent"
  BY <1>3 DEF WorkerOK, HoldsJob
<1>5. WorkerOK(w)'
  BY <1>1, <1>2, <1>4
     DEF WorkerOK, HoldsJob, KnowsOutcome, KnowsAnchor, KnowsThread, ClosedSteps,
         UndecidedSteps, AnchoredSteps
<1>6. RowOK(r)'
  BY <1>3 DEF RowOK, Settled, ClarificationAsked
<1>7. status[r] \in {"needs_clarification", "clarified"} => status'[r] = status[r]
  BY DEF Settled, ClarificationAsked
<1>8. parent[r] \in Requests /\ ackTs'[r] # NoTs => ackTs'[r] = ackTs[parent[r]]
  BY <1>3 DEF ParentOK
<1>9. QED
  BY <1>2, <1>5, <1>6, <1>7, <1>8, OwnRowStep

LEMMA ClosingStepHolds ==
  ASSUME IType, IType', Held, NEW w \in Workers,
         NEW r \in Requests, task[w].req = r,
         ClosingStep(w)
  PROVE  Held'
<1>1. task[w].at \in ClosingSteps /\ task[w].at # "idle" /\ UNCHANGED inflight
  BY DEF ClosingStep, Close, ScheduleRetry, Abandon, MarkFailed, RecordFailure, Announce, Note,
         ClosingWrite, AfterNote, ClosingSteps
<1>2. WorkerOK(w)
  BY DEF Held
<1>3. HoldsJob(w) /\ KnowsOutcome(w)
  BY <1>1, <1>2 DEF WorkerOK
<1>4. /\ r \in locked \union dispatched
      /\ task[w].at \in ClosedSteps => r \in dispatched
      /\ task[w].at \in {"close", "noteClose"} => status[r] \in Settled
  BY <1>3 DEF HoldsJob, KnowsOutcome
<1>5. ASSUME CompleteDispatch(r) \/ RetryDispatch(r) \/ UNCHANGED storeVars
      PROVE  /\ UNCHANGED <<status, ackTs, reported, parent>>
             /\ \A q \in Requests : q # r => SameRow(q)
             /\ r \in dispatched => r \in dispatched'
  BY <1>5 DEF CompleteDispatch, RetryDispatch, storeVars, requestRow, SameRow
<1>6. ASSUME UpdateRequestStatus(r, "failed", NoTs) \/ RecordSystemError(r),
             r \in dispatched \/ status[r] \in Settled
      PROVE  /\ UNCHANGED <<ackTs, reported, parent, locked, dispatched>>
             /\ \A q \in Requests : q # r => SameRow(q)
             /\ \/ status'[r] = status[r]
                \/ status[r] \notin Settled /\ status'[r] = "failed" /\ r \in dispatched'
  <2>1. CASE status[r] \in Settled
    BY <1>6, <2>1 DEF UpdateRequestStatus, RecordSystemError, queueRow, SameRow
  <2>2. CASE status[r] \notin Settled
    <3>1. /\ status' = [status EXCEPT ![r] = "failed"]
          /\ UNCHANGED <<ackTs, reported, parent, locked, dispatched>>
      BY <1>6, <2>2
         DEF UpdateRequestStatus, RecordSystemError, queueRow, IType, TypeOK, StoreTypeOK
    <3>2. QED
      BY <1>6, <2>2, <3>1 DEF SameRow, IType, TypeOK, StoreTypeOK
  <2>3. QED
    BY <2>1, <2>2
<1>7. CASE Close(w)
  <2>1. PICK next \in {"idle", "noteClose"} :
          /\ Goto(w, next)
          /\ CompleteDispatch(r) \/ UNCHANGED storeVars
          /\ task[w].at = "close"
    BY <1>7 DEF Close, ClosingWrite
  <2>2. r \in locked' \union dispatched'
    BY <1>4, <2>1 DEF CompleteDispatch, storeVars
  <2>3. next \notin ClosedSteps
    BY DEF ClosedSteps
  <2>4. QED
    BY <1>1, <1>4, <1>5, <2>1, <2>2, <2>3, ClosingRowStep
<1>8. CASE ScheduleRetry(w)
  <2>1. Goto(w, "idle") /\ (RetryDispatch(r) \/ UNCHANGED storeVars)
    BY <1>8 DEF ScheduleRetry, ClosingWrite
  <2>2. "idle" \notin ClosedSteps
    BY DEF ClosedSteps
  <2>3. QED
    BY <1>1, <1>5, <2>1, <2>2, ClosingRowStep
<1>9. CASE Abandon(w)
  <2>1. PICK next \in {"idle", "markFailed"} :
          /\ Goto(w, next)
          /\ CompleteDispatch(r) \/ UNCHANGED storeVars
          /\ next = "markFailed" => CompleteDispatch(r)
    BY <1>9 DEF Abandon, ClosingWrite
  <2>2. next \in {"idle", "noteClose"} \union ClosedSteps /\ next # "noteClose"
    BY DEF ClosedSteps
  <2>3. next \in ClosedSteps => r \in dispatched'
    BY <2>1 DEF CompleteDispatch, ClosedSteps
  <2>4. QED
    BY <1>1, <1>5, <2>1, <2>2, <2>3, ClosingRowStep
<1>10. CASE MarkFailed(w) \/ RecordFailure(w) \/ Note(w)
  <2>1. PICK next \in {"idle"} \union ClosedSteps :
          /\ Goto(w, next)
          /\ task[w].at \in ClosedSteps \union {"noteClose"}
          /\ task[w].at = "noteClose" => next = "idle"
          /\ UpdateRequestStatus(r, "failed", NoTs) \/ RecordSystemError(r) \/ UNCHANGED storeVars
    <3>1. CASE MarkFailed(w) \/ RecordFailure(w)
      BY <3>1 DEF MarkFailed, RecordFailure, ClosingWrite, ClosedSteps
    <3>2. CASE Note(w)
      <4>1. PICK step \in DOMAIN AfterNote :
              /\ task[w].at = step
              /\ Goto(w, AfterNote[step])
              /\ RecordSystemError(r) \/ UNCHANGED storeVars
        BY <3>2 DEF Note, ClosingWrite
      <4>2. /\ AfterNote[step] \in {"idle"} \union ClosedSteps
            /\ step \in ClosedSteps \union {"noteClose"}
            /\ step = "noteClose" => AfterNote[step] = "idle"
        BY DEF AfterNote, ClosedSteps
      <4>3. QED
        BY <4>1, <4>2
    <3>3. QED
      BY <1>10, <3>1, <3>2
  <2>2. r \in dispatched \/ status[r] \in Settled
    BY <1>4, <2>1
  <2>3. "idle" \notin ClosedSteps /\ "noteClose" \notin ClosedSteps
    BY DEF ClosedSteps
  <2>4. next \in ClosedSteps => r \in dispatched
    BY <1>4, <2>1, <2>3
  <2>5. next # "noteClose"
    BY <2>3
  <2>6. CASE UNCHANGED storeVars
    BY <1>1, <1>5, <2>1, <2>4, <2>5, <2>6, ClosingRowStep
  <2>7. CASE UpdateRequestStatus(r, "failed", NoTs) \/ RecordSystemError(r)
    BY <1>1, <1>6, <2>1, <2>2, <2>4, <2>5, <2>7, ClosingRowStep
  <2>8. QED
    BY <2>1, <2>6, <2>7
<1>11. CASE Announce(w)
  <2>1. PICK next \in {"idle", "noteAnnounce"} :
          /\ Goto(w, next)
          /\ task[w].at = "announce"
          /\ UNCHANGED storeVars
    BY <1>11 DEF Announce
  <2>2. /\ next \in {"idle", "noteClose"} \union ClosedSteps
        /\ next # "noteClose"
        /\ task[w].at \in ClosedSteps
    BY <2>1 DEF ClosedSteps
  <2>3. r \in dispatched
    BY <1>4, <2>2
  <2>4. QED
    BY <1>1, <1>5, <2>1, <2>2, <2>3, ClosingRowStep
<1>12. QED
  BY <1>7, <1>8, <1>9, <1>10, <1>11 DEF ClosingStep

-----------------------------------------------------------------------------
(* Claims, crashes, intake and the clock. *)

LEMMA CrashHolds ==
  ASSUME IType, IType', Held, NEW w \in Workers, Crash(w)
  PROVE  Held'
<1>1. /\ task[w].at # "idle"
      /\ Goto(w, "idle")
      /\ UNCHANGED <<status, ackTs, reported, locked, dispatched, parent, inflight>>
  BY DEF Crash, storeVars
<1>2. PICK r \in Requests : task[w].req = r
  BY <1>1 DEF IType, TaskOK
<1>3. /\ task'[w] = NoTask
      /\ \A v \in Workers : v # w => task'[v] = task[v]
  BY <1>1, GotoEffect DEF IType, Steps
<1>4. WorkerOK(w)'
  BY <1>3 DEF WorkerOK, NoTask
<1>5. QED
  BY <1>1, <1>2, <1>3, <1>4, MoveStep DEF NoTask

\* A worker that claims a job is the only one on it: any other would have it
\* locked or closed.
LEMMA ClaimHolds ==
  ASSUME IType, IType', Held, NEW w \in Workers, NEW r \in Requests, Claim(w, r)
  PROVE  Held'
<1>1. /\ Claimable(r)
      /\ locked' = locked \union {r}
      /\ UNCHANGED <<status, ackTs, reported, dispatched, parent, inflight>>
      /\ task[w].at = "idle"
  BY DEF Claim, ClaimsFirst, ClaimDispatch, requestRow
<1>2. /\ task'[w].at = "readStatus"
      /\ task'[w].req = r
      /\ task'[w].anchor = ackTs[r]
      /\ parent[r] \in Requests => task'[w].root = ackTs[parent[r]]
      /\ \A v \in Workers : v # w => task'[v] = task[v]
  BY DEF Claim, IType, TypeOK
<1>3. \A v \in Workers : task[v].at = "idle" \/ task[v].req # r
  BY <1>1 DEF Held, WorkerOK, HoldsJob, Claimable
<1>4. ASSUME NEW v \in Workers
      PROVE  WorkerOK(v)'
  <2>1. CASE v = w
    BY <1>1, <1>2, <2>1
       DEF Claimable, WorkerOK, HoldsJob, KnowsOutcome, KnowsAnchor, KnowsThread, ClosedSteps,
           UndecidedSteps, AnchoredSteps
  <2>2. CASE v # w
    <3>1. WorkerOK(v) /\ task'[v] = task[v]
      BY <1>2, <2>2 DEF Held
    <3>2. QED
      BY <1>1, <3>1 DEF WorkerOK, HoldsJob, KnowsOutcome, KnowsAnchor, KnowsThread
  <2>3. QED
    BY <2>1, <2>2
<1>5. ASSUME NEW u \in Workers, NEW v \in Workers,
             task'[u].req = task'[v].req, task'[u].req \in Requests
      PROVE  u = v
  <2>1. \A x \in Workers : x # w => task'[x].req # r \/ task'[x].at = "idle"
    BY <1>2, <1>3
  <2>2. \A x \in Workers : task'[x].at = "idle" => task'[x].req \notin Requests
    BY DeliveryAssumption DEF IType, TaskOK
  <2>3. QED
    BY <1>2, <1>5, <2>1, <2>2 DEF Held
<1>6. \A q \in Requests : RowOK(q)' /\ ParentOK(q)'
  BY <1>1 DEF Held, RowOK, ParentOK
<1>7. \A h \in inflight' : HandlerOK(h)'
  BY <1>1 DEF Held, HandlerOK
<1>8. QED
  BY <1>4, <1>5, <1>6, <1>7 DEF Held

\* A handler that saves a reply opens a row nobody knew of, and answers the
\* question it found waiting.
LEMMA SaveHolds ==
  ASSUME IType, IType', Held, NEW h \in inflight, SaveQuestion(h)
  PROVE  Held'
<1> DEFINE r == h.msg
           p == h.parent
<1>1. r \in Requests /\ p \in Requests \union {NoRequest} /\ NoRequest \notin Requests
  BY DeliveryAssumption DEF IType, TypeOK, Handlers
<1>2. UNCHANGED <<task, posts>> /\ inflight' \subseteq inflight
  BY DEF SaveQuestion
<1>3. CASE UNCHANGED storeVars
  BY <1>2, <1>3
     DEF Held, WorkerOK, HoldsJob, KnowsOutcome, KnowsAnchor, KnowsThread, RowOK, ParentOK,
         HandlerOK, storeVars
<1>4. CASE ~UNCHANGED storeVars
  <2>1. /\ status[r] = "absent"
        /\ parent' = [parent EXCEPT ![r] = p]
        /\ UNCHANGED <<ackTs, reported, locked, dispatched>>
    BY <1>4 DEF SaveQuestion, SaveSlackRequest
  <2>2. p \in Requests => status[p] \in {"needs_clarification", "clarified"}
    BY DEF Held, HandlerOK
  <2>3. p # r
    BY <1>1, <2>1, <2>2
  <2>4. \A q \in Requests :
          status'[q] = IF q = r THEN "received"
                       ELSE IF q = p /\ status[q] = "needs_clarification" THEN "clarified"
                       ELSE status[q]
    BY <2>1 DEF SaveQuestion, SaveSlackRequest
  <2>5. /\ parent'[r] = p
        /\ \A q \in Requests : q # r => parent'[q] = parent[q]
    BY <1>1, <2>1 DEF IType, TypeOK, StoreTypeOK
  <2>6. p \in Requests => status'[p] = "clarified"
    BY <2>2, <2>3, <2>4
  <2>7. /\ \A q \in Requests : q # r /\ status'[q] # status[q] =>
             status[q] = "needs_clarification" /\ status'[q] = "clarified"
        /\ status'[r] = "received"
    BY <1>1, <2>4
  <2> HIDE DEF r, p
  <2>8. ASSUME NEW w \in Workers
        PROVE  WorkerOK(w)'
    <3>1. CASE task[w].at = "idle"
      BY <1>2, <3>1 DEF WorkerOK
    <3>2. CASE task[w].at # "idle"
      <4>1. WorkerOK(w) /\ task[w].req \in Requests /\ task'[w] = task[w]
        BY <1>2, <3>2 DEF Held, IType, TaskOK
      <4>2. task[w].req # r
        BY <2>1, <3>2, <4>1 DEF WorkerOK, HoldsJob
      <4>3. parent'[task[w].req] = parent[task[w].req]
        BY <2>5, <4>1, <4>2
      <4>4. KnowsOutcome(w)'
        BY <2>7, <3>2, <4>1, <4>2 DEF WorkerOK, KnowsOutcome, Settled, ClarificationAsked
      <4>5. HoldsJob(w)'
        BY <2>1, <2>7, <3>2, <4>1, <4>2 DEF WorkerOK, HoldsJob
      <4>6. KnowsAnchor(w)' /\ KnowsThread(w)'
        BY <2>1, <3>2, <4>1, <4>3 DEF WorkerOK, KnowsAnchor, KnowsThread
      <4>7. QED
        BY <4>4, <4>5, <4>6 DEF WorkerOK
    <3>3. QED
      BY <3>1, <3>2
  <2>9. ASSUME NEW q \in Requests
        PROVE  RowOK(q)' /\ ParentOK(q)'
    <3>1. RowOK(q) /\ ParentOK(q)
      BY DEF Held
    <3>2. RowOK(q)'
      <4>1. CASE q = r
        BY <2>1, <2>7, <3>1, <4>1 DEF RowOK, ClarificationAsked
      <4>2. CASE q # r /\ status'[q] = status[q]
        BY <2>1, <2>5, <3>1, <4>2 DEF RowOK
      <4>3. CASE q # r /\ status'[q] # status[q]
        <5>1. status[q] = "needs_clarification" /\ status'[q] = "clarified"
          BY <2>7, <4>3
        <5>2. QED
          BY <2>1, <3>1, <5>1 DEF RowOK, ClarificationAsked
      <4>4. QED
        BY <4>1, <4>2, <4>3
    <3>3. ParentOK(q)'
      <4>1. CASE q = r
        BY <2>1, <2>5, <2>6, <3>1, <4>1 DEF ParentOK, RowOK
      <4>2. CASE q # r
        <5>1. parent'[q] = parent[q] /\ (parent[q] \in Requests => status[parent[q]] = "clarified")
          BY <2>5, <3>1, <4>2 DEF ParentOK
        <5>2. parent[q] \in Requests => status'[parent[q]] = "clarified"
          BY <2>1, <2>7, <5>1
        <5>3. QED
          BY <2>1, <3>1, <5>1, <5>2 DEF ParentOK
      <4>3. QED
        BY <4>1, <4>2
    <3>4. QED
      BY <3>2, <3>3
  <2>10. ASSUME NEW g \in inflight'
         PROVE  HandlerOK(g)'
    <3>1. HandlerOK(g)
      BY <1>2 DEF Held
    <3>2. QED
      BY <2>1, <2>7, <3>1 DEF HandlerOK
  <2>11. \A u, v \in Workers : task'[u].req = task'[v].req /\ task'[u].req \in Requests => u = v
    BY <1>2 DEF Held
  <2>12. QED
    BY <2>8, <2>9, <2>10, <2>11 DEF Held
<1>5. QED
  BY <1>3, <1>4

\* A step that changes no row, task or handler but perhaps drops or adds one.
LEMMA QuietHolds ==
  ASSUME Held, UNCHANGED <<task, status, parent, ackTs, reported, dispatched>>,
         \A w \in Workers : task[w].at # "idle" /\ task[w].req \in locked =>
           task[w].req \in locked',
         \A h \in inflight' : HandlerOK(h)
  PROVE  Held'
<1>1. \A w \in Workers : WorkerOK(w)'
  BY DEF Held, WorkerOK, HoldsJob, KnowsOutcome, KnowsAnchor, KnowsThread
<1>2. \A r \in Requests : RowOK(r)' /\ ParentOK(r)'
  BY DEF Held, RowOK, ParentOK
<1>3. \A h \in inflight' : HandlerOK(h)'
  BY DEF HandlerOK
<1>4. \A u, v \in Workers : task'[u].req = task'[v].req /\ task'[u].req \in Requests => u = v
  BY DEF Held
<1>5. QED
  BY <1>1, <1>2, <1>3, <1>4 DEF Held

\* Owned is inductive.
LEMMA OwnedStep == IType /\ Owned /\ [Next]_vars => Owned'
<1> SUFFICES ASSUME IType, Owned, [Next]_vars, LocksHeld'
             PROVE  Held'
  BY DEF Owned, Held
<1>1. IType' /\ LocksHeld
  BY TypeStep, LocksWereHeld
<1>2. Held
  BY <1>1 DEF Owned, Held
<1>3. ASSUME NEW m \in Requests, ReceiveQuestion(m)
      PROVE  Held'
  <2>1. UNCHANGED storeVars /\ UNCHANGED task
    BY <1>3 DEF ReceiveQuestion
  <2>2. ASSUME NEW h \in inflight'
        PROVE  HandlerOK(h)
    <3>1. CASE h \in inflight
      BY <1>2, <3>1 DEF Held
    <3>2. CASE h \notin inflight
      BY <1>3, <2>2, <3>2, DeliveryAssumption
         DEF ReceiveQuestion, PendingClarification, HandlerOK
    <3>3. QED
      BY <3>1, <3>2
  <2>3. QED
    BY <1>2, <2>1, <2>2, QuietHolds DEF storeVars
<1>4. ASSUME NEW h \in inflight, LoseQuestion(h)
      PROVE  Held'
  BY <1>2, <1>4, QuietHolds DEF LoseQuestion, storeVars, Held
<1>5. ASSUME NEW w \in Workers, WorkerStep(w) \/ Crash(w)
      PROVE  Held'
  <2>1. CASE \E r \in Requests : Claim(w, r)
    BY <1>1, <1>2, <2>1, ClaimHolds
  <2>2. CASE Crash(w)
    BY <1>1, <1>2, <2>2, CrashHolds
  <2>3. CASE ~Crash(w) /\ ~\E r \in Requests : Claim(w, r)
    <3>1. task[w].at # "idle"
      BY <1>5, <2>3
         DEF WorkerStep, DeliveryStep, ClosingStep, DeliveryThrows, ReadStatus, ReadReport,
             Acknowledge, MarkAnalyzing, Investigate, RecordRuns, PostOutcome, RecordOutcome,
             DeliveryWrite, Close, ScheduleRetry, Abandon, MarkFailed, RecordFailure, Announce,
             Note, ClosingWrite, AfterNote, DeliverySteps
    <3>2. PICK r \in Requests : task[w].req = r
      BY <3>1 DEF IType, TaskOK
    <3>3. QED
      BY <1>1, <1>2, <1>5, <2>3, <3>2, BeginningStep, OutcomeStep, ClosingStepHolds
         DEF WorkerStep, DeliveryStep
  <2>4. QED
    BY <2>1, <2>2, <2>3
<1>6. ASSUME NEW r \in Requests, BackoffEnds(r) \/ ClaimExpires(r)
      PROVE  Held'
  <2>1. /\ UNCHANGED <<task, status, parent, ackTs, reported, dispatched, inflight>>
        /\ \A w \in Workers : task[w].req \in locked => task[w].req \in locked'
    BY <1>6 DEF BackoffEnds, ClaimExpires, BackoffElapses, LockLapses, Working, requestRow
  <2>2. QED
    BY <1>2, <2>1, QuietHolds DEF Held
<1>7. ASSUME NEW r \in Requests, ClaimLapsesEarly(r)
      PROVE  FALSE
  <2>1. faults' = [faults EXCEPT !["lapse"] = @ + 1] /\ faults["lapse"] = 0
    BY <1>1, <1>7 DEF ClaimLapsesEarly, Fault, LocksHeld
  <2>2. faults'["lapse"] = 1
    BY <2>1 DEF IType, TypeOK, CountedFaults
  <2>3. QED
    BY <2>2 DEF LocksHeld
<1>8. CASE UNCHANGED vars
  BY <1>2, <1>8, QuietHolds DEF vars, storeVars, Held
<1>9. CASE \E h \in inflight : SaveQuestion(h)
  BY <1>1, <1>2, <1>9, SaveHolds
<1>10. QED
  BY <1>3, <1>4, <1>5, <1>6, <1>7, <1>8, <1>9 DEF Next

LEMMA InitiallyOwned == Init => Owned
BY DeliveryAssumption
   DEF Init, StoreInit, NoTask, Owned, WorkerOK, RowOK, ParentOK, HandlerOK,
       ClarificationAsked

\* The types and Owned hold in every behaviour.
LEMMA AlwaysOwned == Spec => [](IType /\ Owned)
<1>1. IType /\ Owned /\ [Next]_vars => (IType /\ Owned)'
  BY TypeStep, OwnedStep
<1>2. QED
  BY <1>1, InitialTypes, InitiallyOwned, PTL DEF Spec

-----------------------------------------------------------------------------
(* Invariants that follow. *)

\* As long as no lock lapses under its holder, two processes never work on the
\* same job.
THEOREM ExclusiveDelivery == Spec => []OneDeliveryAtATime
<1>1. Owned => OneDeliveryAtATime
  BY DEF Owned, OneDeliveryAtATime
<1>2. QED
  BY <1>1, AlwaysOwned, PTL

\* A failed request has left the queue, and no delivery of it is under way.
THEOREM FailureIsFinal == Spec => []FailedIsFinal
<1>1. IType /\ Owned => FailedIsFinal
  <2> SUFFICES ASSUME IType, Owned, LocksHeld, NEW r \in Requests, status[r] = "failed"
               PROVE  /\ r \in dispatched
                      /\ \A w \in Workers : Working(w, r) => task[w].at \in ClosingSteps
    BY DEF FailedIsFinal
  <2>1. r \in dispatched
    BY DEF Owned, RowOK
  <2>2. ASSUME NEW w \in Workers, Working(w, r)
        PROVE  task[w].at \in ClosingSteps
    <3>1. task[w].req = r /\ task[w].at # "idle" /\ task[w] \in Tasks
      BY <2>2, DeliveryAssumption DEF Working, IType, TypeOK, TaskOK
    <3>2. task[w].at \notin DeliverySteps
      BY <2>1, <3>1 DEF Owned, WorkerOK, HoldsJob, OpenSteps
    <3>3. QED
      BY <3>1, <3>2 DEF Tasks
  <2>3. QED
    BY <2>1, <2>2
<1>2. QED
  BY <1>1, AlwaysOwned, PTL

\* The report row and the status 'completed' never come apart.
THEOREM ReportRowMeansCompleted == Spec => []ReportRowIffCompleted
<1>1. Owned => ReportRowIffCompleted
  BY DEF Owned, RowOK, ReportRowIffCompleted
<1>2. QED
  BY <1>1, AlwaysOwned, PTL

\* A continuation always hangs from a question that was asked and answered.
THEOREM ContinuationsAnswer == Spec => []ContinuationAnswersAsked
<1>1. Owned /\ RecordedMeansShown => ContinuationAnswersAsked
  BY DEF Owned, ParentOK, RecordedMeansShown, ContinuationAnswersAsked, ClarificationAsked
<1>2. QED
  BY <1>1, AlwaysOwned, NothingClaimedUntold, PTL

\* And is delivered in that question's thread.
THEOREM ContinuationsStayInThread == Spec => []OneThread
<1>1. Owned => OneThread
  BY DEF Owned, ParentOK, OneThread
<1>2. QED
  BY <1>1, AlwaysOwned, PTL

-----------------------------------------------------------------------------
(* What a step may do. *)

InProgress == {"received", "analyzing_question"}

\* A request is opened, or one in progress moves on; nothing else happens to a
\* status or a parent.
StatusStep ==
  \/ UNCHANGED <<status, parent>>
  \/ \E r \in Requests, p \in Requests \union {NoRequest} :
       /\ status[r] = "absent"
       /\ p \in Requests => status[p] \in {"needs_clarification", "clarified"}
       /\ status' = [q \in Requests |->
                       IF q = r THEN "received"
                       ELSE IF q = p /\ status[q] = "needs_clarification" THEN "clarified"
                       ELSE status[q]]
       /\ parent' = [parent EXCEPT ![r] = p]
  \/ \E r \in Requests, s \in {"analyzing_question", "failed"} \union Outcomes :
       /\ status[r] \in InProgress
       /\ status' = [status EXCEPT ![r] = s]
       /\ UNCHANGED parent

LEMMA StatusStepsOnly ==
  ASSUME IType, Owned, LocksHeld, [Next]_vars
  PROVE  StatusStep
<1>1. Held
  BY DEF Owned, Held
<1>2. ASSUME NEW w \in Workers, NEW r \in Requests, task[w].req = r, task[w].at # "idle",
             r \notin dispatched, status[r] \notin Settled
      PROVE  status[r] \in InProgress
  BY <1>1, <1>2 DEF Held, WorkerOK, HoldsJob, RowOK, IType, TypeOK, StoreTypeOK, Statuses, InProgress
<1>3. ASSUME NEW h \in inflight, SaveQuestion(h)
      PROVE  StatusStep
  <2>1. h.msg \in Requests /\ h.parent \in Requests \union {NoRequest} /\ HandlerOK(h)
    BY <1>1 DEF Held, IType, TypeOK, Handlers
  <2>2. CASE UNCHANGED storeVars
    BY <2>2 DEF StatusStep, storeVars
  <2>3. CASE ~UNCHANGED storeVars
    BY <1>3, <2>1, <2>3 DEF SaveQuestion, SaveSlackRequest, StatusStep, HandlerOK
  <2>4. QED
    BY <2>2, <2>3
<1>4. ASSUME NEW w \in Workers, MarkAnalyzing(w)
      PROVE  StatusStep
  <2>1. PICK r \in Requests : task[w].req = r /\ task[w].at = "mark"
    BY <1>4 DEF MarkAnalyzing, DeliveryWrite, IType, TaskOK
  <2>2. status[r] \in InProgress
    <3>1. r \notin dispatched /\ status[r] \notin Settled
      BY <1>1, <2>1 DEF Held, WorkerOK, HoldsJob, KnowsOutcome, OpenSteps, DeliverySteps,
                        UndecidedSteps
    <3>2. QED
      BY <1>2, <2>1, <3>1
  <2>3. status' = [status EXCEPT ![r] = "analyzing_question"] /\ UNCHANGED parent
    BY <1>4, <2>1 DEF MarkAnalyzing, DeliveryWrite, UpdateRequestStatus
  <2>4. QED
    BY <2>2, <2>3 DEF StatusStep
<1>5. ASSUME NEW w \in Workers, RecordOutcome(w)
      PROVE  StatusStep
  <2>1. PICK r \in Requests :
          task[w].req = r /\ task[w].at = "record" /\ task[w].result \in Outcomes
    BY <1>5 DEF RecordOutcome, DeliveryWrite, IType, TaskOK
  <2>2. status[r] \in InProgress
    <3>1. r \notin dispatched /\ status[r] \notin Settled
      BY <1>1, <2>1 DEF Held, WorkerOK, HoldsJob, KnowsOutcome, OpenSteps, DeliverySteps,
                        UndecidedSteps
    <3>2. QED
      BY <1>2, <2>1, <3>1
  <2>3. status' = [status EXCEPT ![r] = task[w].result] /\ UNCHANGED parent
    BY <1>5, <2>1 DEF RecordOutcome, DeliveryWrite, SaveReport, UpdateRequestStatus, Outcomes
  <2>4. QED
    BY <2>1, <2>2, <2>3 DEF StatusStep
<1>6. ASSUME NEW r \in Requests,
             UpdateRequestStatus(r, "failed", NoTs) \/ RecordSystemError(r),
             status[r] # "absent"
      PROVE  StatusStep
  <2>1. CASE UNCHANGED status
    BY <1>6, <2>1 DEF UpdateRequestStatus, RecordSystemError, StatusStep
  <2>2. CASE status[r] = "failed"
    BY <1>6, <2>2 DEF UpdateRequestStatus, RecordSystemError, StatusStep, IType, TypeOK,
                      StoreTypeOK
  <2>3. CASE ~UNCHANGED status /\ status[r] # "failed"
    <3>1. /\ status[r] \notin Settled
          /\ status' = [status EXCEPT ![r] = "failed"]
          /\ UNCHANGED parent
      BY <1>6, <2>3 DEF UpdateRequestStatus, RecordSystemError
    <3>2. status[r] \in InProgress
      BY <1>6, <2>3, <3>1 DEF IType, TypeOK, StoreTypeOK, Statuses, InProgress
    <3>3. QED
      BY <3>1, <3>2 DEF StatusStep
  <2>4. QED
    BY <2>1, <2>2, <2>3
<1>7. ASSUME NEW w \in Workers, MarkFailed(w) \/ RecordFailure(w) \/ Note(w)
      PROVE  StatusStep
  <2>1. task[w].at # "idle"
    BY <1>7 DEF MarkFailed, RecordFailure, Note, ClosingWrite, AfterNote
  <2>2. PICK r \in Requests : task[w].req = r
    BY <2>1 DEF IType, TaskOK
  <2>3. status[r] # "absent"
    BY <1>1, <2>1, <2>2 DEF Held, WorkerOK, HoldsJob
  <2>4. \/ UpdateRequestStatus(r, "failed", NoTs)
        \/ RecordSystemError(r)
        \/ UNCHANGED storeVars
    BY <1>7, <2>2 DEF MarkFailed, RecordFailure, Note, ClosingWrite
  <2>5. QED
    BY <1>6, <2>3, <2>4 DEF StatusStep, storeVars
<1>8. ASSUME NEW w \in Workers, WorkerStep(w) \/ Crash(w)
      PROVE  StatusStep
  <2>1. CASE MarkAnalyzing(w) \/ RecordOutcome(w) \/ MarkFailed(w) \/ RecordFailure(w) \/ Note(w)
    BY <1>4, <1>5, <1>7, <2>1
  <2>2. CASE Close(w) \/ ScheduleRetry(w) \/ Abandon(w)
    BY <2>2 DEF Close, ScheduleRetry, Abandon, ClosingWrite, CompleteDispatch, RetryDispatch,
                requestRow, storeVars, StatusStep
  <2>3. CASE RecordRuns(w) \/ \E r \in Requests : Claim(w, r)
    BY <2>3 DEF RecordRuns, DeliveryWrite, RecordAgentRuns, Claim, ClaimDispatch, requestRow,
                StatusStep
  <2>4. CASE \/ DeliveryThrows(w) \/ ReadStatus(w) \/ ReadReport(w) \/ Acknowledge(w)
             \/ Investigate(w) \/ PostOutcome(w) \/ Announce(w) \/ Crash(w)
    BY <2>4 DEF DeliveryThrows, ReadStatus, ReadReport, Acknowledge, Investigate, PostOutcome,
                Announce, Crash, storeVars, StatusStep
  <2>5. QED
    BY <1>8, <2>1, <2>2, <2>3, <2>4 DEF WorkerStep, DeliveryStep, ClosingStep
<1>9. ASSUME NEW r \in Requests, BackoffEnds(r) \/ ClaimExpires(r) \/ ClaimLapsesEarly(r)
      PROVE  StatusStep
  BY <1>9 DEF BackoffEnds, ClaimExpires, ClaimLapsesEarly, BackoffElapses, LockLapses,
              requestRow, StatusStep
<1>10. ASSUME NEW m \in Requests, ReceiveQuestion(m)
       PROVE  StatusStep
  BY <1>10 DEF ReceiveQuestion, storeVars, StatusStep
<1>11. ASSUME NEW h \in inflight, LoseQuestion(h)
       PROVE  StatusStep
  BY <1>11 DEF LoseQuestion, storeVars, StatusStep
<1>12. CASE UNCHANGED vars
  BY <1>12 DEF vars, storeVars, StatusStep
<1>13. QED
  BY <1>3, <1>8, <1>9, <1>10, <1>11, <1>12 DEF Next

\* An outcome the asker saw is never relabelled, by whatever is retried, given
\* up on or noted afterwards.
THEOREM OutcomesAreFinal == Spec => SettledIsFinal
<1> DEFINE Kept == LocksHeld =>
             \A r \in Requests : status[r] \in Settled =>
               \/ status'[r] = status[r]
               \/ status[r] = "needs_clarification" /\ status'[r] = "clarified"
<1>1. IType /\ Owned /\ [Next]_vars => Kept
  <2> SUFFICES ASSUME IType, Owned, [Next]_vars, LocksHeld, NEW r \in Requests,
                      status[r] \in Settled
               PROVE  \/ status'[r] = status[r]
                      \/ status[r] = "needs_clarification" /\ status'[r] = "clarified"
    OBVIOUS
  <2>1. StatusStep
    BY StatusStepsOnly
  <2>2. QED
    BY <2>1 DEF StatusStep, IType, TypeOK, StoreTypeOK, Settled, ClarificationAsked, InProgress
<1> HIDE DEF Kept
<1>2. IType /\ Owned /\ [Next]_vars => [Kept]_vars
  BY <1>1
<1>3. Spec => [][Kept]_vars
  BY <1>2, AlwaysOwned, PTL DEF Spec
<1>4. QED
  BY <1>3 DEF Kept, SettledIsFinal

\* A delivery shows an outcome only for a request that has none on record.
THEOREM OutcomesAreNotRepeated == Spec => NoRepeatAfterRecord
<1> DEFINE Kept == LocksHeld =>
             \A r \in Requests :
               Shown(r)' > Shown(r) => status[r] \notin Settled /\ r \notin reported
<1>1. IType /\ Owned /\ [Next]_vars => Kept
  <2> SUFFICES ASSUME IType, Owned, [Next]_vars, LocksHeld, NEW r \in Requests,
                      Shown(r)' > Shown(r)
               PROVE  status[r] \notin Settled /\ r \notin reported
    OBVIOUS
  <2>1. posts[r] \in [PostKinds -> Nat]
    BY DEF IType, TypeOK
  <2>2. ASSUME posts'[r]["report"] = posts[r]["report"],
               posts'[r]["clarification"] = posts[r]["clarification"]
        PROVE  FALSE
    <3>1. Shown(r) \in Nat /\ Shown(r)' = Shown(r)
      BY <2>1, <2>2 DEF Shown, PostKinds
    <3>2. QED
      BY <3>1
  <2>3. ASSUME NEW w \in Workers, Acknowledge(w) \/ Announce(w)
        PROVE  FALSE
    <3>1. UNCHANGED posts
            \/ \E q \in Requests, kind \in {"ack", "notice"} :
                 posts' = [posts EXCEPT ![q][kind] = @ + 1]
      BY <2>3 DEF Acknowledge, Announce, Post, IType, TaskOK
    <3>2. QED
      BY <2>2, <3>1 DEF IType, TypeOK, PostKinds
  <2>4. PICK w \in Workers : PostOutcome(w)
    BY <2>2, <2>3
       DEF Next, WorkerStep, DeliveryStep, ClosingStep, DeliveryThrows, Claim, ReadStatus,
           ReadReport, MarkAnalyzing, Investigate, RecordRuns, RecordOutcome, Close,
           ScheduleRetry, Abandon, MarkFailed, RecordFailure, Note, ClosingWrite, Crash,
           ReceiveQuestion, SaveQuestion, LoseQuestion, BackoffEnds, ClaimExpires,
           ClaimLapsesEarly, vars
  <2>5. task[w].at = "post" /\ task[w].req \in Requests
    BY <2>4 DEF PostOutcome, DeliveryWrite, IType, TaskOK
  <2>6. task[w].req = r
    BY <2>2, <2>4, <2>5 DEF PostOutcome, DeliveryWrite, Post, IType, TypeOK
  <2>7. status[r] \notin Settled
    BY <2>5, <2>6 DEF Owned, WorkerOK, KnowsOutcome, UndecidedSteps
  <2>8. QED
    BY <2>7 DEF Owned, RowOK, Settled
<1> HIDE DEF Kept
<1>2. IType /\ Owned /\ [Next]_vars => [Kept]_vars
  BY <1>1
<1>3. Spec => [][Kept]_vars
  BY <1>2, AlwaysOwned, PTL DEF Spec
<1>4. QED
  BY <1>3 DEF Kept, NoRepeatAfterRecord

\* The anchor of a thread, once stored, does not move, and the question is not
\* acknowledged again.
THEOREM AnchorsDoNotMove == Spec => AnchorIsStable
<1> DEFINE Kept == LocksHeld =>
             \A r \in Requests : ackTs[r] # NoTs =>
               ackTs'[r] = ackTs[r] /\ posts'[r]["ack"] = posts[r]["ack"]
<1>1. IType /\ Owned /\ [Next]_vars => Kept
  <2> SUFFICES ASSUME IType, Owned, [Next]_vars, LocksHeld, NEW r \in Requests,
                      ackTs[r] # NoTs
               PROVE  ackTs'[r] = ackTs[r] /\ posts'[r]["ack"] = posts[r]["ack"]
    OBVIOUS
  <2>1. ASSUME NEW w \in Workers, task[w].at # "idle"
        PROVE  WorkerOK(w) /\ task[w].req \in Requests
    BY <2>1 DEF Owned, IType, TaskOK
  <2>2. CASE \E w \in Workers : Acknowledge(w)
    <3>1. PICK w \in Workers : Acknowledge(w)
      BY <2>2
    <3>2. task[w].req # r /\ task[w].req \in Requests
      BY <2>1, <3>1 DEF Acknowledge, WorkerOK, KnowsAnchor
    <3>3. QED
      BY <3>1, <3>2 DEF Acknowledge, Post, storeVars, IType, TypeOK
  <2>3. CASE \E w \in Workers : MarkAnalyzing(w)
    <3>1. PICK w \in Workers : MarkAnalyzing(w)
      BY <2>3
    <3>2. /\ task[w].at = "mark"
          /\ UpdateRequestStatus(task[w].req, "analyzing_question", task[w].anchor)
          /\ UNCHANGED posts
      BY <3>1 DEF MarkAnalyzing, DeliveryWrite
    <3>3. task[w].req = r => task[w].anchor = ackTs[r]
      BY <2>1, <3>2 DEF WorkerOK, KnowsAnchor
    <3>4. QED
      BY <3>2, <3>3 DEF UpdateRequestStatus, IType, TypeOK, StoreTypeOK
  <2>4. CASE \E w \in Workers : PostOutcome(w) \/ Announce(w)
    <3>1. PICK w \in Workers : PostOutcome(w) \/ Announce(w)
      BY <2>4
    <3>2. UNCHANGED ackTs
      BY <3>1 DEF PostOutcome, DeliveryWrite, Announce, storeVars
    <3>3. UNCHANGED posts
            \/ \E q \in Requests, kind \in {"report", "clarification", "notice"} :
                 posts' = [posts EXCEPT ![q][kind] = @ + 1]
      BY <2>1, <3>1 DEF PostOutcome, DeliveryWrite, Announce, Post
    <3>4. QED
      BY <3>2, <3>3 DEF IType, TypeOK, PostKinds
  <2>5. ASSUME NEW q \in Requests, NEW s, UpdateRequestStatus(q, s, NoTs)
        PROVE  ackTs'[r] = ackTs[r]
    BY <2>5 DEF UpdateRequestStatus, IType, TypeOK, StoreTypeOK
  <2>6. CASE \E w \in Workers : RecordOutcome(w) \/ MarkFailed(w)
    <3>1. PICK w \in Workers : RecordOutcome(w) \/ MarkFailed(w)
      BY <2>6
    <3>2. task[w].req \in Requests /\ UNCHANGED posts
      BY <2>1, <3>1 DEF RecordOutcome, MarkFailed, DeliveryWrite, ClosingWrite
    <3>3. \/ UNCHANGED ackTs
          \/ \E s : UpdateRequestStatus(task[w].req, s, NoTs)
      BY <3>1 DEF RecordOutcome, MarkFailed, DeliveryWrite, ClosingWrite, SaveReport, storeVars
    <3>4. QED
      BY <2>5, <3>2, <3>3
  <2>7. CASE \E w \in Workers : \/ Close(w) \/ ScheduleRetry(w) \/ Abandon(w)
                              \/ RecordFailure(w) \/ Note(w)
    BY <2>7 DEF Close, ScheduleRetry, Abandon, RecordFailure, Note, ClosingWrite,
                CompleteDispatch, RetryDispatch, RecordSystemError, requestRow, storeVars
  <2>8. CASE \E w \in Workers : RecordRuns(w) \/ \E q \in Requests : Claim(w, q)
    BY <2>8 DEF RecordRuns, DeliveryWrite, RecordAgentRuns, Claim, ClaimDispatch, requestRow
  <2>9. CASE \E w \in Workers : \/ DeliveryThrows(w) \/ ReadStatus(w) \/ ReadReport(w)
                              \/ Investigate(w) \/ Crash(w)
    BY <2>9 DEF DeliveryThrows, ReadStatus, ReadReport, Investigate, Crash, storeVars
  <2>10. CASE \E q \in Requests : BackoffEnds(q) \/ ClaimExpires(q) \/ ClaimLapsesEarly(q)
    BY <2>10 DEF BackoffEnds, ClaimExpires, ClaimLapsesEarly, BackoffElapses, LockLapses,
                 requestRow
  <2>11. CASE (\E m \in Requests : ReceiveQuestion(m)) \/ (\E h \in inflight : LoseQuestion(h))
    BY <2>11 DEF ReceiveQuestion, LoseQuestion, storeVars
  <2>12. CASE \E h \in inflight : SaveQuestion(h)
    BY <2>12 DEF SaveQuestion, SaveSlackRequest, storeVars
  <2>13. CASE UNCHANGED vars
    BY <2>13 DEF vars, storeVars
  <2>14. QED
    BY <2>2, <2>3, <2>4, <2>6, <2>7, <2>8, <2>9, <2>10, <2>11, <2>12, <2>13
       DEF Next, WorkerStep, DeliveryStep, ClosingStep
<1> HIDE DEF Kept
<1>2. IType /\ Owned /\ [Next]_vars => [Kept]_vars
  BY <1>1
<1>3. Spec => [][Kept]_vars
  BY <1>2, AlwaysOwned, PTL DEF Spec
<1>4. QED
  BY <1>3 DEF Kept, AnchorIsStable

-----------------------------------------------------------------------------
(* The queue implements the lifecycle of a question. *)

\* Where locks outlast the deliveries they are taken for, every step of the
\* queue, its failures and retries included, opens a question, continues one,
\* ends one, or does nothing the asker could tell.
THEOREM QueueImplementsLifecycle ==
  ASSUME "lapse" \notin FaultKinds
  PROVE  Spec => ImplementsLifecycle
<1>1. Init => LocksHeld
  BY DEF Init, LocksHeld, CountedFaults
<1>2. IType /\ LocksHeld /\ [Next]_vars => LocksHeld'
  <2> SUFFICES ASSUME IType, LocksHeld, [Next]_vars PROVE LocksHeld'
    OBVIOUS
  <2>1. ASSUME NEW kind \in CountedFaults, Fault(kind)
        PROVE  LocksHeld'
    <3>1. kind # "lapse" /\ faults' = [faults EXCEPT ![kind] = @ + 1]
      BY <2>1 DEF Fault
    <3>2. QED
      BY <3>1 DEF LocksHeld, IType, TypeOK, CountedFaults
  <2>2. UNCHANGED faults \/ \E kind \in CountedFaults : Fault(kind)
    BY FaultsAreCounted
  <2>3. QED
    BY <2>1, <2>2 DEF LocksHeld
<1>3. Init => Lifecycle!LifecycleInit
  BY DEF Init, StoreInit, Lifecycle!LifecycleInit, PhaseOf
<1>4. IType /\ Owned /\ LocksHeld /\ [Next]_vars
        => [Lifecycle!LifecycleNext]_(Lifecycle!lifecycleVars)
  <2> SUFFICES ASSUME IType, Owned, LocksHeld, [Next]_vars
               PROVE  [Lifecycle!LifecycleNext]_(Lifecycle!lifecycleVars)
    OBVIOUS
  <2> DEFINE phase == [r \in Requests |-> PhaseOf[status[r]]]
  <2>1. StatusStep
    BY StatusStepsOnly
  <2>2. StoreTypeOK
    BY DEF IType, TypeOK
  <2>3. CASE UNCHANGED <<status, parent>>
    BY <2>3 DEF Lifecycle!lifecycleVars
  <2>4. ASSUME NEW r \in Requests, NEW p \in Requests \union {NoRequest},
               status[r] = "absent",
               p \in Requests => status[p] \in {"needs_clarification", "clarified"},
               status' = [q \in Requests |->
                           IF q = r THEN "received"
                           ELSE IF q = p /\ status[q] = "needs_clarification" THEN "clarified"
                           ELSE status[q]],
               parent' = [parent EXCEPT ![r] = p]
        PROVE  Lifecycle!LifecycleNext
    <3>1. phase[r] = "unasked"
      BY <2>4 DEF PhaseOf
    <3>2. CASE p \in Requests
      <4>1. p # r /\ phase[p] \in {"asking", "continued"}
        BY <2>4, <3>2 DEF PhaseOf
      <4>2. phase' = [phase EXCEPT ![p] = "continued", ![r] = "open"]
        <5>1. phase'[r] = "open"
          BY <2>4 DEF PhaseOf
        <5>2. phase'[p] = "continued"
          <6>1. status'[p] = "clarified"
            BY <2>4, <3>2, <4>1
          <6>2. QED
            BY <3>2, <6>1 DEF PhaseOf
        <5>3. ASSUME NEW q \in Requests, q # r, q # p
              PROVE  phase'[q] = phase[q]
          BY <2>4, <5>3
        <5>4. QED
          BY <3>2, <4>1, <5>1, <5>2, <5>3
      <4>3. Lifecycle!Continue(r, p)
        BY <2>4, <3>1, <4>1, <4>2 DEF Lifecycle!Continue
      <4>4. QED
        BY <3>2, <4>3 DEF Lifecycle!LifecycleNext
    <3>3. CASE p = NoRequest
      <4>1. parent' = parent
        <5>1. RowOK(r)
          BY DEF Owned
        <5>2. QED
          BY <2>2, <2>4, <3>3, <5>1 DEF RowOK, StoreTypeOK
      <4>2. phase' = [phase EXCEPT ![r] = "open"]
        <5>1. ASSUME NEW q \in Requests
              PROVE  phase'[q] = [phase EXCEPT ![r] = "open"][q]
          BY <2>4, <3>3, DeliveryAssumption DEF PhaseOf
        <5>2. QED
          BY <5>1
      <4>3. Lifecycle!Open(r)
        BY <3>1, <4>1, <4>2 DEF Lifecycle!Open
      <4>4. QED
        BY <4>3 DEF Lifecycle!LifecycleNext
    <3>4. QED
      BY <3>2, <3>3
  <2>5. ASSUME NEW r \in Requests, NEW s \in {"analyzing_question", "failed"} \union Outcomes,
               status[r] \in InProgress,
               status' = [status EXCEPT ![r] = s],
               UNCHANGED parent
        PROVE  [Lifecycle!LifecycleNext]_(Lifecycle!lifecycleVars)
    <3>1. phase[r] = "open"
      BY <2>5 DEF PhaseOf, InProgress
    <3>2. phase' = [phase EXCEPT ![r] = PhaseOf[s]]
      <4>1. ASSUME NEW q \in Requests
            PROVE  phase'[q] = [phase EXCEPT ![r] = PhaseOf[s]][q]
        BY <2>2, <2>5 DEF StoreTypeOK
      <4>2. QED
        BY <4>1
    <3>3. CASE s = "analyzing_question"
      <4>1. phase' = phase
        BY <3>1, <3>2, <3>3 DEF PhaseOf
      <4>2. QED
        BY <2>5, <4>1 DEF Lifecycle!lifecycleVars
    <3>4. CASE s # "analyzing_question"
      <4>1. PhaseOf[s] \in Lifecycle!Outcome
        BY <2>5, <3>4 DEF PhaseOf, Outcomes, Lifecycle!Outcome
      <4>2. Lifecycle!End(r)
        BY <2>5, <3>1, <3>2, <4>1 DEF Lifecycle!End
      <4>3. QED
        BY <4>2 DEF Lifecycle!LifecycleNext
    <3>5. QED
      BY <3>3, <3>4
  <2>6. QED
    BY <2>1, <2>3, <2>4, <2>5 DEF StatusStep
<1>5. QED
  BY <1>1, <1>2, <1>3, <1>4, AlwaysOwned, PTL DEF Spec, ImplementsLifecycle, Lifecycle!LifecycleSpec
=============================================================================
