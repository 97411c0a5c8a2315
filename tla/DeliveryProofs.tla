----------------------------- MODULE DeliveryProofs -----------------------------
(***************************************************************************)
(* Theorems about Delivery, for every set of questions and processes and   *)
(* every bound on attempts and faults.                                     *)
(***************************************************************************)
EXTENDS Delivery, SequenceTheorems, TLAPS

Steps == {"idle"} \union DeliverySteps \union ClosingSteps

-----------------------------------------------------------------------------
(* Moving a pass from one step to another. *)

\* A move changes the worker's step and nothing else of its task, unless the
\* pass ends; other workers are untouched.
LEMMA GotoEffect ==
  ASSUME TypeOK, NEW w \in Workers, NEW step \in Steps, Goto(w, step)
  PROVE  /\ task' \in [Workers -> Tasks]
         /\ task'[w].at = step
         /\ step = "idle" => task'[w] = NoTask
         /\ step # "idle" => task'[w] = [task[w] EXCEPT !.at = step]
         /\ \A v \in Workers : v # w => task'[v] = task[v]
<1>1. NoTask \in Tasks
  BY DEF NoTask, Tasks
<1>2. task[w] \in Tasks
  BY DEF TypeOK
<1>3. [task[w] EXCEPT !.at = step] \in Tasks
  BY <1>2 DEF Tasks, Steps
<1>4. QED
  BY <1>1, <1>2, <1>3 DEF Goto, TypeOK, NoTask, Tasks

-----------------------------------------------------------------------------
(* Types. *)

\* Every transaction of the store keeps the types of its rows.
LEMMA StoreKeepsTypes ==
  ASSUME StoreTypeOK, NEW r \in Requests, NEW p \in Requests \union {NoRequest},
         NEW s \in Statuses, NEW ts \in Ts \union {NoTs},
         \/ SaveSlackRequest(r, p)
         \/ ClaimDispatch(r)
         \/ CompleteDispatch(r)
         \/ RetryDispatch(r)
         \/ BackoffElapses(r)
         \/ LockLapses(r)
         \/ UpdateRequestStatus(r, s, ts)
         \/ RecordAgentRuns(r)
         \/ SaveReport(r)
         \/ RecordSystemError(r)
         \/ UNCHANGED storeVars
  PROVE  StoreTypeOK'
<1> USE DEF StoreTypeOK, requestRow, queueRow
<1>1. CASE SaveSlackRequest(r, p)
  <2>1. CASE UNCHANGED storeVars
    BY <2>1 DEF storeVars
  <2>2. CASE ~UNCHANGED storeVars
    <3>1. status[r] = "absent"
      BY <1>1, <2>2 DEF SaveSlackRequest
    <3>2. status' \in [Requests -> Statuses]
      BY <1>1, <3>1 DEF SaveSlackRequest, Statuses, Settled, ClarificationAsked
    <3>3. parent' \in [Requests -> Requests \union {NoRequest}]
      BY <1>1, <3>1 DEF SaveSlackRequest
    <3>4. queue' \in Seq(Requests)
      <4>1. queue' = Append(queue, r)
        BY <1>1, <3>1 DEF SaveSlackRequest
      <4>2. QED
        BY <4>1, AppendProperties
    <3>5. due' \subseteq Requests
      BY <1>1, <3>1 DEF SaveSlackRequest
    <3>6. UNCHANGED <<ackTs, reported, audited, attempts, locked, dispatched>>
      BY <1>1, <3>1 DEF SaveSlackRequest
    <3>7. QED
      BY <3>2, <3>3, <3>4, <3>5, <3>6
  <2>3. QED
    BY <2>1, <2>2
<1>2. CASE ClaimDispatch(r)
  BY <1>2 DEF ClaimDispatch
<1>3. CASE CompleteDispatch(r)
  BY <1>3 DEF CompleteDispatch
<1>4. CASE RetryDispatch(r)
  BY <1>4 DEF RetryDispatch
<1>5. CASE BackoffElapses(r) \/ LockLapses(r)
  BY <1>5 DEF BackoffElapses, LockLapses
<1>6. CASE UpdateRequestStatus(r, s, ts)
  BY <1>6 DEF UpdateRequestStatus
<1>7. CASE RecordAgentRuns(r)
  BY <1>7 DEF RecordAgentRuns
<1>8. CASE SaveReport(r)
  BY <1>8 DEF SaveReport, Statuses, Settled
<1>9. CASE RecordSystemError(r)
  BY <1>9 DEF RecordSystemError, Statuses
<1>10. CASE UNCHANGED storeVars
  BY <1>10 DEF storeVars
<1>11. QED
  BY <1>1, <1>2, <1>3, <1>4, <1>5, <1>6, <1>7, <1>8, <1>9, <1>10

\* A worker works on a request unless it is idle, and past "rca" has an outcome.
TaskOK ==
  \A w \in Workers :
    /\ task[w].at # "idle" => task[w].req \in Requests
    /\ task[w].at = "idle" => task[w].req = NoRequest
    /\ task[w].at \in {"audit", "post", "record"} => task[w].result \in Outcomes

IType == TypeOK /\ TaskOK

\* A move inside a delivery, or out of it, keeps the types of the tasks.
LEMMA GotoKeepsTasks ==
  ASSUME IType, NEW w \in Workers, NEW step \in Steps, Goto(w, step),
         task[w].at # "idle",
         step \in {"audit", "post", "record"} => task[w].result \in Outcomes
  PROVE  task' \in [Workers -> Tasks] /\ TaskOK'
<1>1. TypeOK
  BY DEF IType
<1>2. task[w].req \in Requests
  BY DEF IType, TaskOK
<1>3. /\ task' \in [Workers -> Tasks]
      /\ task'[w].at = step
      /\ step = "idle" => task'[w] = NoTask
      /\ step # "idle" => task'[w] = [task[w] EXCEPT !.at = step]
      /\ \A v \in Workers : v # w => task'[v] = task[v]
  BY <1>1, GotoEffect
<1>4. task[w] \in Tasks
  BY <1>1 DEF TypeOK
<1>5. step # "idle" => task'[w].req = task[w].req /\ task'[w].result = task[w].result
  BY <1>3, <1>4 DEF Tasks
<1>6. step = "idle" => task'[w].req = NoRequest
  BY <1>3 DEF NoTask
<1>7. QED
  BY <1>2, <1>3, <1>5, <1>6 DEF IType, TaskOK

\* A fault happens only while the bound allows, so no count passes it.
LEMMA FaultKeepsType ==
  ASSUME TypeOK, NEW kind \in CountedFaults, Fault(kind)
  PROVE  faults' \in [CountedFaults -> 0..MaxFaults]
<1>1. \A k \in CountedFaults : faults[k] \in Nat /\ faults[k] <= MaxFaults
  BY DeliveryAssumption DEF TypeOK
<1>2. \A k \in {"announce", "db", "crash", "lapse"} : faults[k] \in Nat
  BY <1>1 DEF CountedFaults
<1>3. faults[kind] <= FaultsSoFar
  BY <1>2 DEF FaultsSoFar, CountedFaults
<1>4. FaultsSoFar < MaxFaults /\ FaultsSoFar \in Nat
  BY <1>2 DEF Fault, FaultsSoFar
<1>5. faults[kind] + 1 \in 0..MaxFaults
  BY <1>1, <1>3, <1>4, DeliveryAssumption
<1>6. QED
  BY <1>5 DEF Fault, TypeOK

LEMMA PostKeepsType ==
  ASSUME TypeOK, NEW r \in Requests, NEW kind \in PostKinds, Post(r, kind)
  PROVE  posts' \in [Requests -> [PostKinds -> Nat]]
<1>1. posts[r] \in [PostKinds -> Nat]
  BY DEF TypeOK
<1>2. [posts[r] EXCEPT ![kind] = @ + 1] \in [PostKinds -> Nat]
  BY <1>1
<1>3. QED
  BY <1>2 DEF Post, TypeOK

\* A write of a delivery moves the worker on, or to "caught".
LEMMA DeliveryWriteKeepsTasks ==
  ASSUME IType, NEW w \in Workers, NEW step \in Steps \ {"idle"}, NEW next \in Steps,
         task[w].at = step, Goto(w, next) \/ Goto(w, "caught"),
         next \in {"audit", "post", "record"} => task[w].result \in Outcomes
  PROVE  task' \in [Workers -> Tasks] /\ TaskOK'
<1>1. CASE Goto(w, next)
  BY <1>1, GotoKeepsTasks
<1>2. CASE Goto(w, "caught")
  <2>1. "caught" \in Steps
    BY DEF Steps, ClosingSteps
  <2>2. QED
    BY <1>2, <2>1, GotoKeepsTasks
<1>3. QED
  BY <1>1, <1>2

\* A write of the loop keeps all types, whether it succeeds or fails.
LEMMA ClosingWriteKeepsTypes ==
  ASSUME IType, NEW w \in Workers, NEW r \in Requests,
         NEW step \in ClosingSteps, NEW done \in {"idle"} \union ClosingSteps,
         NEW failed \in {"idle"} \union ClosingSteps,
         \/ ClosingWrite(w, step, CompleteDispatch(r), done, failed)
         \/ ClosingWrite(w, step, RetryDispatch(r), done, failed)
         \/ ClosingWrite(w, step, UpdateRequestStatus(r, "failed", NoTs), done, failed)
         \/ ClosingWrite(w, step, RecordSystemError(r), done, failed)
  PROVE  IType'
<1>1. StoreTypeOK /\ TypeOK
  BY DEF IType, TypeOK
<1>2. "failed" \in Statuses /\ NoTs \in Ts \union {NoTs}
  BY DEF Statuses
<1>3. StoreTypeOK'
  BY <1>1, <1>2, StoreKeepsTypes DEF ClosingWrite
<1>4. task[w].at = step /\ (Goto(w, done) \/ Goto(w, failed))
  BY DEF ClosingWrite
<1>5. step # "idle" /\ done \notin {"audit", "post", "record"}
      /\ failed \notin {"audit", "post", "record"}
  BY DEF ClosingSteps
<1>6. task' \in [Workers -> Tasks] /\ TaskOK'
  BY <1>4, <1>5, GotoKeepsTasks DEF Steps
<1>7. faults' \in [CountedFaults -> 0..MaxFaults]
  BY <1>1, FaultKeepsType, "db" \in CountedFaults DEF ClosingWrite, TypeOK, CountedFaults
<1>8. UNCHANGED <<inflight, posts>>
  BY DEF ClosingWrite
<1>9. QED
  BY <1>1, <1>3, <1>6, <1>7, <1>8 DEF IType, TypeOK, Handlers

\* No step of the system breaks a type.
LEMMA TypeStep == IType /\ [Next]_vars => IType'
<1> SUFFICES ASSUME IType, [Next]_vars
             PROVE  IType'
  OBVIOUS
<1>1. StoreTypeOK /\ TypeOK /\ TaskOK
  BY DEF IType, TypeOK
<1>2. ASSUME NEW m \in Requests, ReceiveQuestion(m)
      PROVE  IType'
  <2>1. PendingClarification(ReplyTo[m]) \in Requests \union {NoRequest}
    BY DEF PendingClarification
  <2>2. inflight' \subseteq Handlers
    BY <1>1, <1>2, <2>1 DEF ReceiveQuestion, TypeOK, Handlers
  <2>3. StoreTypeOK'
    BY <1>1, <1>2, StoreKeepsTypes DEF ReceiveQuestion, StoreTypeOK, storeVars
  <2>4. QED
    BY <1>1, <1>2, <2>2, <2>3 DEF ReceiveQuestion, IType, TypeOK, TaskOK
<1>3. ASSUME NEW h \in inflight, SaveQuestion(h)
      PROVE  IType'
  <2>1. h.msg \in Requests /\ h.parent \in Requests \union {NoRequest}
    BY <1>1 DEF TypeOK, Handlers
  <2>2. StoreTypeOK'
    BY <1>1, <1>3, <2>1, StoreKeepsTypes, "received" \in Statuses DEF SaveQuestion, Statuses
  <2>3. QED
    BY <1>1, <1>3, <2>2 DEF SaveQuestion, IType, TypeOK, TaskOK
<1>4. ASSUME NEW h \in inflight, LoseQuestion(h)
      PROVE  IType'
  <2>1. StoreTypeOK'
    BY <1>1, <1>4 DEF LoseQuestion, StoreTypeOK, storeVars
  <2>2. QED
    BY <1>1, <1>4, <2>1 DEF LoseQuestion, IType, TypeOK, TaskOK
<1>5. ASSUME NEW w \in Workers, NEW r \in Requests, Claim(w, r)
      PROVE  IType'
  <2>1. StoreTypeOK'
    BY <1>1, <1>5, StoreKeepsTypes, "received" \in Statuses DEF Claim, Statuses
  <2> DEFINE t == [at |-> "readStatus", req |-> r, tries |-> attempts[r] + 1,
                   anchor |-> ackTs[r],
                   root |-> IF parent[r] \in Requests THEN ackTs[parent[r]] ELSE NoTs,
                   result |-> "none"]
  <2>2. /\ t \in Tasks
        /\ t.at = "readStatus"
        /\ t.req = r
        /\ task' = [task EXCEPT ![w] = t]
    <3>1. attempts[r] + 1 \in Nat /\ ackTs[r] \in Ts \union {NoTs}
      BY <1>1 DEF StoreTypeOK
    <3>2. (IF parent[r] \in Requests THEN ackTs[parent[r]] ELSE NoTs) \in Ts \union {NoTs}
      BY <1>1 DEF StoreTypeOK
    <3>3. t \in Tasks
      BY <3>1, <3>2 DEF Tasks, DeliverySteps
    <3>4. QED
      BY <1>5, <3>3 DEF Claim
  <2> HIDE DEF t
  <2>3. task' \in [Workers -> Tasks] /\ TaskOK'
    BY <1>1, <2>2 DEF TypeOK, TaskOK
  <2>4. QED
    BY <1>1, <1>5, <2>1, <2>3 DEF Claim, IType, TypeOK
<1>6. ASSUME NEW w \in Workers, DeliveryThrows(w) \/ ReadStatus(w) \/ ReadReport(w)
      PROVE  IType'
  <2>1. StoreTypeOK'
    BY <1>1, <1>6 DEF DeliveryThrows, ReadStatus, ReadReport, StoreTypeOK, storeVars
  <2>2. PICK step \in {"caught", "close", "readReport", "ack", "mark"} : Goto(w, step)
    BY <1>6 DEF DeliveryThrows, ReadStatus, ReadReport
  <2>3. task[w].at # "idle"
    BY <1>6 DEF DeliveryThrows, ReadStatus, ReadReport, DeliverySteps
  <2>4. task' \in [Workers -> Tasks] /\ TaskOK'
    BY <2>2, <2>3, GotoKeepsTasks DEF Steps, DeliverySteps, ClosingSteps
  <2>5. UNCHANGED <<inflight, posts, faults>>
    BY <1>6 DEF DeliveryThrows, ReadStatus, ReadReport
  <2>6. QED
    BY <1>1, <2>1, <2>4, <2>5 DEF IType, TypeOK
<1>7. ASSUME NEW w \in Workers, Acknowledge(w)
      PROVE  IType'
  <2> DEFINE ts == <<task[w].req, posts[task[w].req]["ack"] + 1>>
             anchor == IF task[w].root # NoTs THEN task[w].root ELSE ts
  <2>1. task[w] \in Tasks /\ task[w].req \in Requests
    BY <1>1, <1>7 DEF Acknowledge, TaskOK, TypeOK
  <2>2. posts[task[w].req] \in [PostKinds -> Nat] /\ "ack" \in PostKinds
    BY <1>1, <2>1 DEF TypeOK, PostKinds
  <2>3. ts \in Ts
    BY <2>1, <2>2 DEF Ts
  <2>4. anchor \in Ts \union {NoTs}
    BY <2>1, <2>3 DEF Tasks
  <2> HIDE DEF anchor
  <2>5. posts' \in [Requests -> [PostKinds -> Nat]]
    BY <1>1, <1>7, <2>1, <2>2, PostKeepsType DEF Acknowledge
  <2>6. task' \in [Workers -> Tasks] /\ TaskOK'
    <3>1. CASE task' = [task EXCEPT ![w].at = "mark", ![w].anchor = anchor]
      <4>1. "mark" \in DeliverySteps
        BY DEF DeliverySteps
      <4>2. QED
        BY <1>1, <2>1, <2>4, <3>1, <4>1 DEF TypeOK, TaskOK, Tasks
    <3>2. CASE Goto(w, "caught")
      BY <1>7, <3>2, GotoKeepsTasks DEF Acknowledge, Steps, ClosingSteps
    <3>3. QED
      BY <1>7, <3>1, <3>2 DEF Acknowledge, anchor
  <2>7. StoreTypeOK' /\ UNCHANGED <<inflight, faults>>
    BY <1>1, <1>7 DEF Acknowledge, StoreTypeOK, storeVars
  <2>8. QED
    BY <1>1, <2>5, <2>6, <2>7 DEF IType, TypeOK
<1>8. ASSUME NEW w \in Workers, MarkAnalyzing(w)
      PROVE  IType'
  <2>1. task[w] \in Tasks /\ task[w].req \in Requests
    BY <1>1, <1>8 DEF MarkAnalyzing, DeliveryWrite, TaskOK, TypeOK
  <2>2. StoreTypeOK'
    <3>1. "analyzing_question" \in Statuses /\ task[w].anchor \in Ts \union {NoTs}
      BY <2>1 DEF Statuses, Tasks
    <3>2. QED
      BY <1>1, <1>8, <2>1, <3>1, StoreKeepsTypes DEF MarkAnalyzing, DeliveryWrite
  <2>3. task' \in [Workers -> Tasks] /\ TaskOK'
    BY <1>8, DeliveryWriteKeepsTasks
       DEF MarkAnalyzing, DeliveryWrite, Steps, DeliverySteps
  <2>4. QED
    BY <1>1, <1>8, <2>2, <2>3 DEF MarkAnalyzing, DeliveryWrite, IType, TypeOK
<1>9. ASSUME NEW w \in Workers, Investigate(w)
      PROVE  IType'
  <2>1. PICK o \in Outcomes : task' = [task EXCEPT ![w].at = "audit", ![w].result = o]
    BY <1>9 DEF Investigate
  <2>2. task[w] \in Tasks /\ task[w].req \in Requests
    BY <1>1, <1>9 DEF Investigate, TaskOK, TypeOK
  <2>3. task' \in [Workers -> Tasks] /\ TaskOK'
    BY <1>1, <2>1, <2>2 DEF TypeOK, TaskOK, Tasks, DeliverySteps
  <2>4. StoreTypeOK' /\ UNCHANGED <<inflight, posts, faults>>
    BY <1>1, <1>9 DEF Investigate, StoreTypeOK, storeVars
  <2>5. QED
    BY <1>1, <2>3, <2>4 DEF IType, TypeOK
<1>10. ASSUME NEW w \in Workers, RecordRuns(w)
       PROVE  IType'
  <2>1. task[w].req \in Requests /\ task[w].result \in Outcomes
    BY <1>1, <1>10 DEF RecordRuns, DeliveryWrite, TaskOK
  <2>2. StoreTypeOK'
    BY <1>1, <1>10, <2>1, StoreKeepsTypes, "received" \in Statuses
       DEF RecordRuns, DeliveryWrite, Statuses
  <2>3. task' \in [Workers -> Tasks] /\ TaskOK'
    BY <1>10, <2>1, DeliveryWriteKeepsTasks
       DEF RecordRuns, DeliveryWrite, Steps, DeliverySteps
  <2>4. QED
    BY <1>1, <1>10, <2>2, <2>3 DEF RecordRuns, DeliveryWrite, IType, TypeOK
<1>11. ASSUME NEW w \in Workers, PostOutcome(w)
       PROVE  IType'
  <2>1. task[w].req \in Requests /\ task[w].result \in Outcomes
    BY <1>1, <1>11 DEF PostOutcome, DeliveryWrite, TaskOK
  <2>2. posts' \in [Requests -> [PostKinds -> Nat]]
    BY <1>1, <1>11, <2>1, PostKeepsType DEF PostOutcome, DeliveryWrite, PostKinds
  <2>3. task' \in [Workers -> Tasks] /\ TaskOK'
    BY <1>11, <2>1, DeliveryWriteKeepsTasks
       DEF PostOutcome, DeliveryWrite, Steps, DeliverySteps
  <2>4. StoreTypeOK'
    BY <1>1, <1>11 DEF PostOutcome, StoreTypeOK, storeVars
  <2>5. QED
    BY <1>1, <1>11, <2>2, <2>3, <2>4 DEF PostOutcome, DeliveryWrite, IType, TypeOK
<1>12. ASSUME NEW w \in Workers, RecordOutcome(w)
       PROVE  IType'
  <2>1. task[w].req \in Requests /\ task[w].result \in Outcomes
    BY <1>1, <1>12 DEF RecordOutcome, DeliveryWrite, TaskOK
  <2>2. StoreTypeOK'
    <3>1. task[w].result \in Statuses /\ NoTs \in Ts \union {NoTs}
      BY <2>1 DEF Outcomes, Statuses, Settled, ClarificationAsked
    <3>2. SaveReport(task[w].req) \/ UpdateRequestStatus(task[w].req, task[w].result, NoTs)
      BY <1>12 DEF RecordOutcome, DeliveryWrite
    <3>3. QED
      BY <1>1, <2>1, <3>1, <3>2, StoreKeepsTypes
  <2>3. task' \in [Workers -> Tasks] /\ TaskOK'
    BY <1>12, <2>1, DeliveryWriteKeepsTasks
       DEF RecordOutcome, DeliveryWrite, Steps, DeliverySteps, ClosingSteps
  <2>4. QED
    BY <1>1, <1>12, <2>2, <2>3 DEF RecordOutcome, DeliveryWrite, IType, TypeOK
<1>13. ASSUME NEW w \in Workers, ClosingStep(w)
       PROVE  IType'
  <2>1. CASE Announce(w)
    <3>1. task[w].req \in Requests /\ StoreTypeOK'
      BY <1>1, <2>1 DEF Announce, TaskOK, StoreTypeOK, storeVars
    <3>2. posts' \in [Requests -> [PostKinds -> Nat]]
      BY <1>1, <2>1, <3>1, PostKeepsType DEF Announce, PostKinds, TypeOK
    <3>3. task' \in [Workers -> Tasks] /\ TaskOK'
      BY <2>1, GotoKeepsTasks DEF Announce, Steps, ClosingSteps
    <3>4. faults' \in [CountedFaults -> 0..MaxFaults]
      BY <1>1, <2>1, FaultKeepsType, "announce" \in CountedFaults
         DEF Announce, TypeOK, CountedFaults
    <3>5. QED
      BY <1>1, <2>1, <3>1, <3>2, <3>3, <3>4 DEF Announce, IType, TypeOK
  <2>2. CASE Close(w) \/ ScheduleRetry(w) \/ Abandon(w) \/ MarkFailed(w) \/ RecordFailure(w)
    <3>1. task[w].req \in Requests
      BY <1>1, <2>2 DEF Close, ScheduleRetry, Abandon, MarkFailed, RecordFailure,
                       ClosingWrite, TaskOK
    <3>2. QED
      BY <2>2, <3>1, ClosingWriteKeepsTypes
         DEF Close, ScheduleRetry, Abandon, MarkFailed, RecordFailure, ClosingSteps
  <2>3. CASE Note(w)
    <3>1. PICK step \in DOMAIN AfterNote :
            ClosingWrite(w, step, RecordSystemError(task[w].req), AfterNote[step], AfterNote[step])
      BY <2>3 DEF Note
    <3>2. step \in ClosingSteps /\ AfterNote[step] \in {"idle"} \union ClosingSteps
      BY DEF AfterNote, ClosingSteps
    <3>3. task[w].req \in Requests
      BY <1>1, <3>1, <3>2 DEF ClosingWrite, TaskOK, ClosingSteps
    <3>4. QED
      BY <3>1, <3>2, <3>3, ClosingWriteKeepsTypes
  <2>4. QED
    BY <1>13, <2>1, <2>2, <2>3 DEF ClosingStep
<1>14. ASSUME NEW w \in Workers, Crash(w)
       PROVE  IType'
  <2>1. task' \in [Workers -> Tasks] /\ TaskOK'
    BY <1>14, GotoKeepsTasks DEF Crash, Steps
  <2>2. faults' \in [CountedFaults -> 0..MaxFaults]
    BY <1>1, <1>14, FaultKeepsType, "crash" \in CountedFaults DEF Crash, CountedFaults
  <2>3. StoreTypeOK'
    BY <1>1, <1>14 DEF Crash, StoreTypeOK, storeVars
  <2>4. QED
    BY <1>1, <1>14, <2>1, <2>2, <2>3 DEF Crash, IType, TypeOK
<1>15. ASSUME NEW r \in Requests, BackoffEnds(r) \/ ClaimExpires(r) \/ ClaimLapsesEarly(r)
       PROVE  IType'
  <2>1. StoreTypeOK'
    BY <1>1, <1>15, StoreKeepsTypes, "received" \in Statuses
       DEF BackoffEnds, ClaimExpires, ClaimLapsesEarly, Statuses
  <2>2. faults' \in [CountedFaults -> 0..MaxFaults]
    BY <1>1, <1>15, FaultKeepsType, "lapse" \in CountedFaults
       DEF BackoffEnds, ClaimExpires, ClaimLapsesEarly, TypeOK, CountedFaults
  <2>3. QED
    BY <1>1, <1>15, <2>1, <2>2
       DEF BackoffEnds, ClaimExpires, ClaimLapsesEarly, IType, TypeOK, TaskOK
<1>16. CASE UNCHANGED vars
  BY <1>1, <1>16 DEF vars, storeVars, IType, TypeOK, StoreTypeOK, TaskOK
<1>17. QED
  BY <1>2, <1>3, <1>4, <1>5, <1>6, <1>7, <1>8, <1>9, <1>10, <1>11, <1>12, <1>13, <1>14,
     <1>15, <1>16
     DEF Next, WorkerStep, DeliveryStep

LEMMA InitialTypes == Init => IType
<1> SUFFICES ASSUME Init PROVE IType
  OBVIOUS
<1>1. StoreTypeOK
  BY DEF Init, StoreInit, StoreTypeOK, Statuses
<1>2. NoTask \in Tasks
  BY DEF NoTask, Tasks
<1>3. faults \in [CountedFaults -> 0..MaxFaults]
  BY DeliveryAssumption DEF Init
<1>4. QED
  BY <1>1, <1>2, <1>3 DEF Init, IType, TypeOK, TaskOK, NoTask

\* Rows, tasks, handlers and counters keep their types in every behaviour.
THEOREM TypeCorrect == Spec => []TypeOK
<1>1. IType => TypeOK
  BY DEF IType
<1>2. QED
  BY <1>1, InitialTypes, TypeStep, PTL DEF Spec

-----------------------------------------------------------------------------
(* What the store and the channel say of each other. *)

\* The message that tells the asker of an outcome.
Told(result) == IF result = "completed" THEN "report" ELSE "clarification"

\* A delivery that is about to record an outcome has posted it.
PostedOK ==
  \A w \in Workers :
    task[w].at = "record" => posts[task[w].req][Told(task[w].result)] > 0

\* A delivery that is about to post an outcome, or to record it, has its runs
\* on record.
AuditedOK ==
  \A w \in Workers : task[w].at \in {"post", "record"} => task[w].req \in audited

Honest ==
  /\ IType
  /\ RecordedMeansShown
  /\ NothingPublishedUnaudited
  /\ PostedOK
  /\ AuditedOK

\* A move leaves the request and the outcome of the task alone.
LEMMA GotoMoves ==
  ASSUME IType, NEW w \in Workers, NEW step \in Steps, Goto(w, step)
  PROVE  /\ task'[w].at = step
         /\ step # "idle" => /\ task'[w].req = task[w].req
                             /\ task'[w].tries = task[w].tries
                             /\ task'[w].result = task[w].result
         /\ \A v \in Workers : v # w => task'[v] = task[v]
<1>1. TypeOK /\ task[w] \in Tasks
  BY DEF IType, TypeOK
<1>2. /\ task'[w].at = step
      /\ step # "idle" => task'[w] = [task[w] EXCEPT !.at = step]
      /\ \A v \in Workers : v # w => task'[v] = task[v]
  BY <1>1, GotoEffect
<1>3. step # "idle" => /\ task'[w].req = task[w].req
                      /\ task'[w].tries = task[w].tries
                      /\ task'[w].result = task[w].result
  BY <1>1, <1>2 DEF Tasks
<1>4. QED
  BY <1>2, <1>3

\* A step that shows nothing, records no outcome and sends no delivery on to
\* its post keeps them agreed.
LEMMA QuietStepIsHonest ==
  ASSUME Honest, IType',
         \A r \in Requests :
           status'[r] \in ClarificationAsked => status[r] \in ClarificationAsked,
         reported' = reported,
         audited \subseteq audited',
         \A r \in Requests :
           /\ posts'[r]["report"] = posts[r]["report"]
           /\ posts'[r]["clarification"] = posts[r]["clarification"],
         \A w \in Workers : task'[w].at \in {"post", "record"} => task'[w] = task[w]
  PROVE  Honest'
<1>1. RecordedMeansShown'
  BY DEF Honest, RecordedMeansShown
<1>2. NothingPublishedUnaudited'
  BY DEF Honest, NothingPublishedUnaudited, Shown
<1>3. PostedOK'
  BY DEF Honest, PostedOK, Told, IType, TaskOK
<1>4. AuditedOK'
  BY DEF Honest, AuditedOK
<1>5. QED
  BY <1>1, <1>2, <1>3, <1>4 DEF Honest

\* Every step keeps the rows and the channel agreed: an outcome is recorded by
\* a delivery that posted it, and posted by one whose runs are recorded.
LEMMA HonestStep == Honest /\ [Next]_vars => Honest'
<1> SUFFICES ASSUME Honest, [Next]_vars
             PROVE  Honest'
  OBVIOUS
<1>1. IType /\ IType'
  BY TypeStep DEF Honest
<1>2. TypeOK /\ StoreTypeOK /\ TaskOK
  BY <1>1 DEF IType, TypeOK
<1>3. \A r \in Requests, k \in PostKinds : posts[r][k] \in Nat
  BY <1>2 DEF TypeOK
<1> USE QuietStepIsHonest
<1>4. ASSUME NEW m \in Requests, ReceiveQuestion(m)
      PROVE  Honest'
  BY <1>1, <1>4 DEF ReceiveQuestion, storeVars
<1>5. ASSUME NEW h \in inflight, SaveQuestion(h)
      PROVE  Honest'
  <2>1. h.msg \in Requests
    BY <1>2 DEF TypeOK, Handlers
  <2>2. reported' = reported /\ audited' = audited /\ UNCHANGED <<task, posts>>
    BY <1>5 DEF SaveQuestion, SaveSlackRequest, storeVars
  <2>3. \A r \in Requests :
          status'[r] \in ClarificationAsked => status[r] \in ClarificationAsked
    BY <1>2, <1>5, <2>1
       DEF SaveQuestion, SaveSlackRequest, storeVars, StoreTypeOK, ClarificationAsked
  <2>4. QED
    BY <1>1, <2>2, <2>3
<1>6. ASSUME NEW h \in inflight, LoseQuestion(h)
      PROVE  Honest'
  BY <1>1, <1>6 DEF LoseQuestion, storeVars
<1>7. ASSUME NEW w \in Workers, NEW r \in Requests, Claim(w, r)
      PROVE  Honest'
  <2>1. UNCHANGED <<status, reported, audited, posts>>
    BY <1>7 DEF Claim, ClaimDispatch, requestRow
  <2>2. \A v \in Workers : task'[v].at \in {"post", "record"} => task'[v] = task[v]
    BY <1>2, <1>7 DEF Claim, TypeOK
  <2>3. QED
    BY <1>1, <2>1, <2>2
<1>8. ASSUME NEW w \in Workers, NEW step \in Steps \ {"post", "record"},
             Goto(w, step), UNCHANGED <<reported, audited>>,
             \A r \in Requests :
               status'[r] \in ClarificationAsked => status[r] \in ClarificationAsked,
             \A r \in Requests :
               /\ posts'[r]["report"] = posts[r]["report"]
               /\ posts'[r]["clarification"] = posts[r]["clarification"]
      PROVE  Honest'
  <2>1. \A v \in Workers : task'[v].at \in {"post", "record"} => task'[v] = task[v]
    BY <1>1, <1>8, GotoMoves
  <2>2. QED
    BY <1>1, <1>8, <2>1
<1>9. ASSUME NEW w \in Workers, DeliveryThrows(w) \/ ReadStatus(w) \/ ReadReport(w)
      PROVE  Honest'
  <2>1. PICK step \in {"caught", "close", "readReport", "ack", "mark"} : Goto(w, step)
    BY <1>9 DEF DeliveryThrows, ReadStatus, ReadReport
  <2>2. step \in Steps \ {"post", "record"}
    BY DEF Steps, DeliverySteps, ClosingSteps
  <2>3. UNCHANGED <<status, reported, audited, posts>>
    BY <1>9 DEF DeliveryThrows, ReadStatus, ReadReport, storeVars
  <2>4. QED
    BY <1>8, <2>1, <2>2, <2>3
<1>10. ASSUME NEW w \in Workers, Acknowledge(w)
       PROVE  Honest'
  <2>1. \A v \in Workers : task'[v].at \in {"post", "record"} => task'[v] = task[v]
    <3>1. CASE Goto(w, "caught")
      BY <1>1, <3>1, GotoMoves DEF Steps, ClosingSteps
    <3>2. CASE ~Goto(w, "caught")
      <4>1. PICK anchor : task' = [task EXCEPT ![w].at = "mark", ![w].anchor = anchor]
        BY <1>10, <3>2 DEF Acknowledge
      <4>2. task[w] \in Tasks
        BY <1>2 DEF TypeOK
      <4>3. QED
        BY <1>2, <4>1, <4>2 DEF TypeOK, Tasks
    <3>3. QED
      BY <3>1, <3>2
  <2>2. \A r \in Requests :
          /\ posts'[r]["report"] = posts[r]["report"]
          /\ posts'[r]["clarification"] = posts[r]["clarification"]
    BY <1>2, <1>10 DEF Acknowledge, Post, TypeOK, PostKinds
  <2>3. UNCHANGED <<status, reported, audited>>
    BY <1>10 DEF Acknowledge, storeVars
  <2>4. QED
    BY <1>1, <2>1, <2>2, <2>3
<1>11. ASSUME NEW w \in Workers, MarkAnalyzing(w)
       PROVE  Honest'
  <2>1. Goto(w, "rca") \/ Goto(w, "caught")
    BY <1>11 DEF MarkAnalyzing, DeliveryWrite
  <2>2. UNCHANGED <<reported, audited, posts>>
    BY <1>11 DEF MarkAnalyzing, DeliveryWrite, UpdateRequestStatus
  <2>3. \A r \in Requests :
          status'[r] \in ClarificationAsked => status[r] \in ClarificationAsked
    BY <1>2, <1>11
       DEF MarkAnalyzing, DeliveryWrite, UpdateRequestStatus, StoreTypeOK, ClarificationAsked
  <2>4. {"rca", "caught"} \subseteq Steps \ {"post", "record"}
    BY DEF Steps, DeliverySteps, ClosingSteps
  <2>5. QED
    BY <1>8, <2>1, <2>2, <2>3, <2>4
<1>12. ASSUME NEW w \in Workers, Investigate(w)
       PROVE  Honest'
  <2>1. PICK o \in Outcomes : task' = [task EXCEPT ![w].at = "audit", ![w].result = o]
    BY <1>12 DEF Investigate
  <2>2. task[w] \in Tasks
    BY <1>2 DEF TypeOK
  <2>3. \A v \in Workers : task'[v].at \in {"post", "record"} => task'[v] = task[v]
    BY <1>2, <2>1, <2>2 DEF TypeOK, Tasks
  <2>4. UNCHANGED <<status, reported, audited, posts>>
    BY <1>12 DEF Investigate, storeVars
  <2>5. QED
    BY <1>1, <2>3, <2>4
<1>13. ASSUME NEW w \in Workers, RecordRuns(w)
       PROVE  Honest'
  <2>1. /\ audited' = audited \union {task[w].req}
        /\ UNCHANGED <<status, reported, posts>>
        /\ Goto(w, "post") \/ Goto(w, "caught")
    BY <1>13 DEF RecordRuns, DeliveryWrite, RecordAgentRuns, requestRow
  <2>2. "post" \in Steps /\ "caught" \in Steps
    BY DEF Steps, DeliverySteps, ClosingSteps
  <2>3. \A v \in Workers : v # w => task'[v] = task[v]
    BY <1>1, <2>1, <2>2, GotoMoves
  <2>4. /\ task'[w].at \in {"post", "caught"}
        /\ task'[w].req = task[w].req
    BY <1>1, <2>1, <2>2, GotoMoves
  <2>5. PostedOK' /\ AuditedOK'
    BY <2>1, <2>3, <2>4 DEF Honest, PostedOK, AuditedOK
  <2>6. RecordedMeansShown' /\ NothingPublishedUnaudited'
    BY <2>1 DEF Honest, RecordedMeansShown, NothingPublishedUnaudited, Shown
  <2>7. QED
    BY <1>1, <2>5, <2>6 DEF Honest
<1>14. ASSUME NEW w \in Workers, PostOutcome(w)
       PROVE  Honest'
  <2> DEFINE r == task[w].req
             kind == Told(task[w].result)
  <2>1. r \in Requests /\ r \in audited
    BY <1>1, <1>14 DEF PostOutcome, DeliveryWrite, TaskOK, IType, Honest, AuditedOK
  <2>2. kind \in {"report", "clarification"} /\ kind \in PostKinds
    BY DEF Told, PostKinds
  <2>3. /\ posts' = [posts EXCEPT ![r][kind] = @ + 1]
        /\ UNCHANGED <<status, reported, audited>>
        /\ Goto(w, "record") \/ Goto(w, "caught")
    BY <1>14 DEF PostOutcome, DeliveryWrite, Post, Told, storeVars
  <2>4. "record" \in Steps /\ "caught" \in Steps
    BY DEF Steps, DeliverySteps, ClosingSteps
  <2>5. \A v \in Workers : v # w => task'[v] = task[v]
    BY <1>1, <2>3, <2>4, GotoMoves
  <2>6. /\ task'[w].at \in {"record", "caught"}
        /\ task'[w].req = r
        /\ task'[w].result = task[w].result
    BY <1>1, <2>3, <2>4, GotoMoves
  <2>7. /\ \A q \in Requests, k \in PostKinds : posts[q][k] > 0 => posts'[q][k] > 0
        /\ posts'[r][kind] > 0
        /\ \A q \in Requests : q # r => posts'[q] = posts[q]
    BY <1>2, <1>3, <2>1, <2>2, <2>3 DEF TypeOK
  <2>8. PostedOK'
    <3> SUFFICES ASSUME NEW v \in Workers, task'[v].at = "record"
                 PROVE  posts'[task'[v].req][Told(task'[v].result)] > 0
      BY DEF PostedOK, Told
    <3>1. CASE v = w
      BY <2>6, <2>7, <3>1 DEF Told
    <3>2. CASE v # w
      <4>1. task[v].at = "record" /\ task[v].req \in Requests /\ task'[v] = task[v]
        BY <1>2, <2>5, <3>2 DEF TaskOK
      <4>2. posts[task[v].req][Told(task[v].result)] > 0
        BY <4>1 DEF Honest, PostedOK
      <4>3. Told(task[v].result) \in PostKinds
        BY DEF Told, PostKinds
      <4>4. QED
        BY <2>7, <4>1, <4>2, <4>3
    <3>3. QED
      BY <3>1, <3>2
  <2>9. AuditedOK'
    BY <2>1, <2>3, <2>5, <2>6 DEF Honest, AuditedOK
  <2>10. RecordedMeansShown'
    BY <2>3, <2>7 DEF Honest, RecordedMeansShown, PostKinds
  <2>11. NothingPublishedUnaudited'
    BY <2>1, <2>3, <2>7 DEF Honest, NothingPublishedUnaudited, Shown
  <2>12. QED
    BY <1>1, <2>8, <2>9, <2>10, <2>11 DEF Honest
<1>15. ASSUME NEW w \in Workers, RecordOutcome(w)
       PROVE  Honest'
  <2> DEFINE r == task[w].req
  <2>1. /\ r \in Requests
        /\ task[w].result \in Outcomes
        /\ posts[r][Told(task[w].result)] > 0
    BY <1>1, <1>2, <1>15 DEF RecordOutcome, DeliveryWrite, TaskOK, Honest, PostedOK
  <2>2. /\ UNCHANGED <<audited, posts>>
        /\ Goto(w, "close") \/ Goto(w, "caught")
    BY <1>15 DEF RecordOutcome, DeliveryWrite, SaveReport, UpdateRequestStatus
  <2>3. {"close", "caught"} \subseteq Steps \ {"post", "record"}
    BY DEF Steps, DeliverySteps, ClosingSteps
  <2>4. \A v \in Workers : task'[v].at \in {"post", "record"} => task'[v] = task[v]
    BY <1>1, <2>2, <2>3, GotoMoves
  <2>5. PostedOK' /\ AuditedOK'
    BY <2>2, <2>4 DEF Honest, PostedOK, AuditedOK, Told
  <2>6. NothingPublishedUnaudited'
    BY <2>2 DEF Honest, NothingPublishedUnaudited, Shown
  <2>7. RecordedMeansShown'
    <3>1. CASE task[w].result = "completed"
      <4>1. /\ reported' = reported \union {r}
            /\ status' = [status EXCEPT ![r] = "completed"]
            /\ posts[r]["report"] > 0
        BY <1>15, <2>1, <3>1 DEF RecordOutcome, DeliveryWrite, SaveReport, Told
      <4>2. QED
        BY <1>2, <2>2, <4>1
           DEF Honest, RecordedMeansShown, StoreTypeOK, ClarificationAsked
    <3>2. CASE task[w].result # "completed"
      <4>1. /\ UNCHANGED reported
            /\ \A q \in Requests : q # r => status'[q] = status[q]
            /\ posts[r]["clarification"] > 0
        BY <1>2, <1>15, <2>1, <3>2
           DEF RecordOutcome, DeliveryWrite, UpdateRequestStatus, Told, StoreTypeOK
      <4>2. QED
        BY <2>2, <4>1 DEF Honest, RecordedMeansShown
    <3>3. QED
      BY <3>1, <3>2
  <2>8. QED
    BY <1>1, <2>5, <2>6, <2>7 DEF Honest
<1>16. ASSUME NEW w \in Workers, NEW step, NEW done \in Steps \ {"post", "record"},
              NEW failed \in Steps \ {"post", "record"}, NEW r \in Requests,
              \/ ClosingWrite(w, step, CompleteDispatch(r), done, failed)
              \/ ClosingWrite(w, step, RetryDispatch(r), done, failed)
              \/ ClosingWrite(w, step, UpdateRequestStatus(r, "failed", NoTs), done, failed)
              \/ ClosingWrite(w, step, RecordSystemError(r), done, failed)
       PROVE  Honest'
  <2>1. UNCHANGED <<reported, audited, posts>>
    BY <1>16 DEF ClosingWrite, CompleteDispatch, RetryDispatch, UpdateRequestStatus,
                 RecordSystemError, requestRow, storeVars
  <2>2. \A q \in Requests :
          status'[q] \in ClarificationAsked => status[q] \in ClarificationAsked
    BY <1>2, <1>16
       DEF ClosingWrite, CompleteDispatch, RetryDispatch, UpdateRequestStatus,
           RecordSystemError, requestRow, storeVars, StoreTypeOK, ClarificationAsked
  <2>3. Goto(w, done) \/ Goto(w, failed)
    BY <1>16 DEF ClosingWrite
  <2>4. QED
    BY <1>8, <2>1, <2>2, <2>3
<1>17. ASSUME NEW w \in Workers, ClosingStep(w)
       PROVE  Honest'
  <2>1. ClosingSteps \union {"idle"} \subseteq Steps \ {"post", "record"}
    BY DEF Steps, ClosingSteps
  <2>2. CASE Announce(w)
    <3>1. /\ Goto(w, "idle") \/ Goto(w, "noteAnnounce")
          /\ UNCHANGED <<status, reported, audited>>
      BY <2>2 DEF Announce, storeVars
    <3>2. \A r \in Requests :
            /\ posts'[r]["report"] = posts[r]["report"]
            /\ posts'[r]["clarification"] = posts[r]["clarification"]
      BY <1>2, <2>2 DEF Announce, Post, TypeOK, PostKinds
    <3>3. QED
      BY <1>8, <2>1, <3>1, <3>2 DEF ClosingSteps
  <2>3. CASE Close(w) \/ ScheduleRetry(w) \/ Abandon(w) \/ MarkFailed(w) \/ RecordFailure(w)
    <3>1. task[w].req \in Requests
      BY <1>2, <2>3 DEF Close, ScheduleRetry, Abandon, MarkFailed, RecordFailure,
                       ClosingWrite, TaskOK
    <3>2. QED
      BY <1>16, <2>1, <2>3, <3>1
         DEF Close, ScheduleRetry, Abandon, MarkFailed, RecordFailure, ClosingSteps
  <2>4. CASE Note(w)
    <3>1. PICK step \in DOMAIN AfterNote :
            ClosingWrite(w, step, RecordSystemError(task[w].req), AfterNote[step], AfterNote[step])
      BY <2>4 DEF Note
    <3>2. step # "idle" /\ AfterNote[step] \in ClosingSteps \union {"idle"}
      BY DEF AfterNote, ClosingSteps
    <3>3. task[w].req \in Requests
      BY <1>2, <3>1, <3>2 DEF ClosingWrite, TaskOK
    <3>4. QED
      BY <1>16, <2>1, <3>1, <3>2, <3>3
  <2>5. QED
    BY <1>17, <2>2, <2>3, <2>4 DEF ClosingStep
<1>18. ASSUME NEW w \in Workers, Crash(w)
       PROVE  Honest'
  BY <1>8, <1>18 DEF Crash, storeVars, Steps
<1>19. ASSUME NEW r \in Requests, BackoffEnds(r) \/ ClaimExpires(r) \/ ClaimLapsesEarly(r)
       PROVE  Honest'
  <2>1. UNCHANGED <<status, reported, audited, posts, task>>
    BY <1>19 DEF BackoffEnds, ClaimExpires, ClaimLapsesEarly, BackoffElapses, LockLapses,
                 requestRow
  <2>2. QED
    BY <1>1, <2>1
<1>20. CASE UNCHANGED vars
  BY <1>1, <1>20 DEF vars, storeVars
<1>21. QED
  BY <1>4, <1>5, <1>6, <1>7, <1>9, <1>10, <1>11, <1>12, <1>13, <1>14, <1>15, <1>17, <1>18,
     <1>19, <1>20
     DEF Next, WorkerStep, DeliveryStep

LEMMA InitialHonesty == Init => Honest
<1> SUFFICES ASSUME Init PROVE Honest
  OBVIOUS
<1>1. IType
  BY InitialTypes
<1>2. QED
  BY <1>1 DEF Init, StoreInit, NoTask, Honest, RecordedMeansShown, NothingPublishedUnaudited,
              Shown, PostKinds, PostedOK, AuditedOK, ClarificationAsked

\* Through every failure, crash and lapsed lock, nothing is recorded as told
\* before it was told.
THEOREM NothingClaimedUntold == Spec => []RecordedMeansShown
<1>1. Honest => RecordedMeansShown
  BY DEF Honest
<1>2. QED
  BY <1>1, InitialHonesty, HonestStep, PTL DEF Spec

\* And nothing is shown before its agent runs are on record.
THEOREM NothingShownUnaudited == Spec => []NothingPublishedUnaudited
<1>1. Honest => NothingPublishedUnaudited
  BY DEF Honest
<1>2. QED
  BY <1>1, InitialHonesty, HonestStep, PTL DEF Spec

=============================================================================
