----------------------------- MODULE DeliverySilence -----------------------------
(***************************************************************************)
(* Nobody is left without a word for nothing: each job that is closed in   *)
(* silence has a crash, a lost closing write or a refused notice of its    *)
(* own.                                                                    *)
(***************************************************************************)
EXTENDS DeliveryOwnership, FiniteSetTheorems

NothingRetracted ==
  \A r \in Requests, kind \in PostKinds : posts'[r][kind] >= posts[r][kind]

\* What was shown or noticed stays so.
LEMMA WordStays ==
  ASSUME TypeOK, TypeOK', NothingRetracted, NEW r \in Requests
  PROVE  /\ Shown(r) > 0 => Shown(r)' > 0
         /\ HasWord(r) => HasWord(r)'
<1>1. \A kind \in PostKinds :
        posts[r][kind] \in Nat /\ posts'[r][kind] \in Nat /\ posts'[r][kind] >= posts[r][kind]
  BY DEF TypeOK, NothingRetracted
<1>2. QED
  BY <1>1 DEF Shown, HasWord, PostKinds

\* A step that closes no job and interrupts no announcement forsakes nobody.
LEMMA QuietStepForsakesNobody ==
  ASSUME TypeOK, TypeOK', NothingRetracted, dispatched' = dispatched,
         \A w \in Workers :
           task[w].at \in TellingSteps =>
             task'[w].at \in TellingSteps /\ task'[w].req = task[w].req
  PROVE  Forsaken' \subseteq Forsaken
<1> SUFFICES ASSUME NEW r \in Forsaken'
             PROVE  r \in Forsaken
  OBVIOUS
<1>1. r \in dispatched /\ r \in Requests /\ ~HasWord(r)'
  BY DEF Forsaken, TypeOK, StoreTypeOK
<1>2. ~HasWord(r)
  BY <1>1, WordStays
<1>3. ASSUME NEW w \in Workers, Working(w, r)
      PROVE  task[w].at \notin TellingSteps
  BY <1>3 DEF Forsaken, Working
<1>4. QED
  BY <1>1, <1>2, <1>3 DEF Forsaken

\* A worker's step forsakes at most the job it works on, and not even that one
\* if it goes on to tell, if a word was said, or if it closes nothing.
LEMMA OwnStepForsakes ==
  ASSUME IType, IType', NothingRetracted, NEW w \in Workers, NEW step \in Steps,
         task[w].at # "idle", Goto(w, step),
         NEW own \in Requests, own = task[w].req,
         dispatched' \subseteq dispatched \union {own}
  PROVE  /\ Forsaken' \subseteq Forsaken \union {own}
         /\ (\/ step \in TellingSteps
             \/ HasWord(own)'
             \/ task[w].at \notin TellingSteps /\ dispatched' = dispatched)
            => Forsaken' \subseteq Forsaken
<1>1. TypeOK /\ TypeOK'
  BY DEF IType
<1>2. /\ task'[w].at = step
      /\ step # "idle" => task'[w].req = own
      /\ \A v \in Workers : v # w => task'[v] = task[v]
  BY GotoMoves
<1>3. "idle" \notin TellingSteps
  BY DEF TellingSteps
<1>4. ASSUME NEW r, r \in Forsaken',
             r # own \/ (task[w].at \notin TellingSteps /\ dispatched' = dispatched)
      PROVE  r \in Forsaken
  <2>1. r \in dispatched /\ r \in Requests /\ ~HasWord(r)'
    BY <1>1, <1>4 DEF Forsaken, TypeOK, StoreTypeOK
  <2>2. ~HasWord(r)
    BY <1>1, <2>1, WordStays
  <2>3. ASSUME NEW v \in Workers, Working(v, r)
        PROVE  task[v].at \notin TellingSteps
    <3>1. CASE v = w
      BY <1>4, <2>3, <3>1 DEF Working
    <3>2. CASE v # w
      BY <1>2, <1>4, <2>3, <3>2 DEF Forsaken, Working
    <3>3. QED
      BY <3>1, <3>2
  <2>4. QED
    BY <2>1, <2>2, <2>3 DEF Forsaken
<1>5. ASSUME step \in TellingSteps \/ HasWord(own)'
      PROVE  own \notin Forsaken'
  BY <1>2, <1>3, <1>5 DEF Forsaken, Working
<1>6. Forsaken' \subseteq Forsaken \union {own}
  BY <1>4
<1>7. CASE step \in TellingSteps \/ HasWord(own)'
  BY <1>4, <1>5, <1>7
<1>8. CASE task[w].at \notin TellingSteps /\ dispatched' = dispatched
  BY <1>4, <1>8
<1>9. QED
  BY <1>6, <1>7, <1>8

-----------------------------------------------------------------------------
(* Each step of a pass. *)

SilenceInv == Honest /\ Charged

\* A fault that may have silenced the job of its worker is one more on the count.
LEMMA FaultIsCharged ==
  ASSUME TypeOK, NEW kind \in {"announce", "db", "crash"}, Fault(kind)
  PROVE  SilencingFaults' = SilencingFaults + 1
<1>1. faults \in [CountedFaults -> Nat]
  BY DeliveryAssumption DEF TypeOK
<1>2. faults' = [faults EXCEPT ![kind] = @ + 1]
  BY DEF Fault
<1>3. QED
  BY <1>1, <1>2 DEF SilencingFaults, CountedFaults

LEMMA SilencingFaultsAreCounted ==
  ASSUME TypeOK
  PROVE  SilencingFaults \in Nat
<1>1. faults \in [CountedFaults -> Nat]
  BY DeliveryAssumption DEF TypeOK
<1>2. QED
  BY <1>1 DEF SilencingFaults, CountedFaults

LEMMA SilencingFaultsOnlyGrow ==
  ASSUME TypeOK, UNCHANGED faults \/ \E kind \in CountedFaults : Fault(kind)
  PROVE  /\ SilencingFaults \in Nat
         /\ SilencingFaults' \in Nat
         /\ SilencingFaults' >= SilencingFaults
<1>1. faults \in [CountedFaults -> Nat]
  BY DeliveryAssumption DEF TypeOK
<1>2. SilencingFaults \in Nat
  BY SilencingFaultsAreCounted
<1>3. CASE UNCHANGED faults
  BY <1>2, <1>3 DEF SilencingFaults
<1>4. ASSUME NEW kind \in CountedFaults, Fault(kind)
      PROVE  SilencingFaults' \in Nat /\ SilencingFaults' >= SilencingFaults
  <2>1. faults' = [faults EXCEPT ![kind] = @ + 1]
    BY <1>4 DEF Fault
  <2>2. QED
    BY <1>1, <2>1 DEF SilencingFaults, CountedFaults
<1>5. QED
  BY <1>2, <1>3, <1>4

\* What a step may do to the forsaken jobs: nothing, or a fault and one job.
ForsakesFairly ==
  \/ Forsaken' \subseteq Forsaken
  \/ /\ SilencingFaults' = SilencingFaults + 1
     /\ \E r \in Requests : Forsaken' \subseteq Forsaken \union {r}


\* A post adds a message and takes none back.
LEMMA PostRetractsNothing ==
  ASSUME TypeOK, NEW r \in Requests, NEW kind \in PostKinds, Post(r, kind)
  PROVE  NothingRetracted /\ posts'[r][kind] > 0
  BY DEF TypeOK, Post, NothingRetracted

\* The steps of a delivery close no job, and none of them is an announcement.
LEMMA DeliveryStepForsakesNobody ==
  ASSUME IType, IType', NEW w \in Workers, DeliveryStep(w) \/ DeliveryThrows(w)
  PROVE  NothingRetracted /\ Forsaken' \subseteq Forsaken
<1>1. TypeOK /\ TypeOK' /\ TaskOK
  BY DEF IType
<1>2. task \in [Workers -> Tasks] /\ \A r \in Requests, kind \in PostKinds : posts[r][kind] \in Nat
  BY <1>1 DEF TypeOK
<1>3. posts' = posts => NothingRetracted
  BY <1>2 DEF NothingRetracted
<1> DEFINE Plain == /\ dispatched' = dispatched
                    /\ task[w].at \notin TellingSteps
                    /\ \A v \in Workers : v # w => task'[v] = task[v]
<1>4. NothingRetracted /\ Plain
  <2>1. CASE DeliveryThrows(w) \/ ReadStatus(w) \/ ReadReport(w)
    BY <1>2, <1>3, <2>1
       DEF DeliveryThrows, ReadStatus, ReadReport, Goto, storeVars, DeliverySteps, TellingSteps
  <2>2. CASE \E r \in Requests : Claim(w, r)
    BY <1>2, <1>3, <2>2 DEF Claim, ClaimDispatch, TellingSteps
  <2>3. CASE Acknowledge(w)
    BY <1>1, <1>2, <2>3, PostRetractsNothing
       DEF Acknowledge, Goto, storeVars, TellingSteps, TaskOK, PostKinds
  <2>4. CASE MarkAnalyzing(w) \/ RecordRuns(w)
    BY <1>2, <1>3, <2>4
       DEF MarkAnalyzing, RecordRuns, DeliveryWrite, UpdateRequestStatus, RecordAgentRuns, queueRow, Goto,
           TellingSteps
  <2>5. CASE Investigate(w)
    BY <1>2, <1>3, <2>5 DEF Investigate, storeVars, TellingSteps
  <2>6. CASE PostOutcome(w)
    BY <1>1, <1>2, <2>6, PostRetractsNothing
       DEF PostOutcome, DeliveryWrite, Goto, storeVars, TellingSteps, TaskOK, PostKinds
  <2>7. CASE RecordOutcome(w)
    BY <1>2, <1>3, <2>7
       DEF RecordOutcome, DeliveryWrite, UpdateRequestStatus, SaveReport, queueRow, Goto, TellingSteps
  <2>8. QED
    BY <2>1, <2>2, <2>3, <2>4, <2>5, <2>6, <2>7 DEF DeliveryStep
<1>5. QED
  BY <1>1, <1>4, QuietStepForsakesNobody

\* A write of the loop moves its worker, is done or fails at the cost of a
\* fault, and posts nothing.
LEMMA ClosingWriteMoves ==
  ASSUME NEW w \in Workers, NEW step, NEW effect, NEW done, NEW failed,
         ClosingWrite(w, step, effect, done, failed)
  PROVE  /\ task[w].at = step
         /\ posts' = posts
         /\ \/ effect /\ Goto(w, done)
            \/ Fault("db") /\ (effect \/ UNCHANGED storeVars) /\ Goto(w, failed)
  BY DEF ClosingWrite

\* What the loop does with a delivery that is over, and a crash, forsake a job
\* only at the cost of a fault.
LEMMA ClosingStepForsakesFairly ==
  ASSUME IType, IType', ReturnsTold, NEW w \in Workers, ClosingStep(w) \/ Crash(w)
  PROVE  NothingRetracted /\ ForsakesFairly
<1>1. TypeOK /\ TypeOK' /\ TaskOK
  BY DEF IType
<1>2. task \in [Workers -> Tasks] /\ \A r \in Requests, kind \in PostKinds : posts[r][kind] \in Nat
  BY <1>1 DEF TypeOK
<1>3. posts' = posts => NothingRetracted
  BY <1>2 DEF NothingRetracted
<1>4. task[w].at # "idle"
  BY DEF ClosingStep, Close, ScheduleRetry, Abandon, MarkFailed, RecordFailure, Announce, Note,
         ClosingWrite, AfterNote, Crash
<1>5. PICK own \in Requests : own = task[w].req
  BY <1>1, <1>4 DEF TaskOK
\* The job at most, or nothing if the worker goes on to tell, said a word, or
\* closed nothing.
<1>6. ASSUME NEW step \in Steps, Goto(w, step), NothingRetracted,
             dispatched' \subseteq dispatched \union {own}
      PROVE  /\ Forsaken' \subseteq Forsaken \union {own}
             /\ step \in TellingSteps => Forsaken' \subseteq Forsaken
             /\ HasWord(own)' => Forsaken' \subseteq Forsaken
             /\ task[w].at \notin TellingSteps /\ dispatched' = dispatched
                  => Forsaken' \subseteq Forsaken
  BY <1>4, <1>5, <1>6, OwnStepForsakes
<1>7. ASSUME NEW kind \in {"announce", "db", "crash"}, Fault(kind),
             NEW step \in Steps, Goto(w, step), NothingRetracted,
             dispatched' \subseteq dispatched \union {own}
      PROVE  ForsakesFairly
  BY <1>1, <1>6, <1>7, FaultIsCharged DEF ForsakesFairly
<1>8. CASE Close(w)
  <2>1. posts' = posts /\ HasWord(own)
    BY <1>1, <1>2, <1>5, <1>8, ClosingWriteMoves
       DEF Close, ReturnsTold, HasWord, Shown, PostKinds
  <2>2. HasWord(own)'
    BY <2>1 DEF HasWord, Shown
  <2>3. dispatched' \subseteq dispatched \union {own}
    BY <1>5, <1>8, ClosingWriteMoves DEF Close, CompleteDispatch, storeVars
  <2>4. PICK step \in {"idle", "noteClose"} : Goto(w, step)
    BY <1>8, ClosingWriteMoves DEF Close
  <2>5. QED
    BY <1>3, <1>6, <2>1, <2>2, <2>3, <2>4 DEF Steps, ClosingSteps, ForsakesFairly
<1>9. CASE ScheduleRetry(w)
  <2>1. posts' = posts /\ task[w].at = "caught" /\ Goto(w, "idle")
    BY <1>9, ClosingWriteMoves DEF ScheduleRetry
  <2>2. dispatched' = dispatched
    BY <1>9, ClosingWriteMoves DEF ScheduleRetry, RetryDispatch, storeVars
  <2>3. QED
    BY <1>3, <1>6, <2>1, <2>2 DEF Steps, TellingSteps, ForsakesFairly
<1>10. CASE Abandon(w)
  <2>1. posts' = posts
    BY <1>10, ClosingWriteMoves DEF Abandon
  <2>2. dispatched' \subseteq dispatched \union {own}
    BY <1>5, <1>10, ClosingWriteMoves DEF Abandon, CompleteDispatch, storeVars
  <2>3. Goto(w, "markFailed") \/ (Fault("db") /\ Goto(w, "idle"))
    BY <1>10, ClosingWriteMoves DEF Abandon
  <2>4. QED
    BY <1>3, <1>6, <1>7, <2>1, <2>2, <2>3 DEF Steps, ClosingSteps, TellingSteps, ForsakesFairly
<1>11. CASE MarkFailed(w) \/ RecordFailure(w)
  <2>1. posts' = posts
    BY <1>11, ClosingWriteMoves DEF MarkFailed, RecordFailure
  <2>2. dispatched' = dispatched
    BY <1>11, ClosingWriteMoves
       DEF MarkFailed, RecordFailure, UpdateRequestStatus, RecordSystemError, storeVars, queueRow
  <2>3. PICK step \in {"recordFailure", "noteMark", "announce", "noteRecord"} : Goto(w, step)
    BY <1>11, ClosingWriteMoves DEF MarkFailed, RecordFailure
  <2>4. QED
    BY <1>3, <1>6, <2>1, <2>2, <2>3 DEF Steps, ClosingSteps, TellingSteps, ForsakesFairly
<1>12. CASE Announce(w)
  <2>1. dispatched' = dispatched
    BY <1>12 DEF Announce, storeVars
  <2>2. NothingRetracted
    BY <1>1, <1>3, <1>5, <1>12, PostRetractsNothing DEF Announce, PostKinds
  <2>3. CASE Post(task[w].req, "notice") /\ Goto(w, "idle")
    <3>1. posts' \in [Requests -> [PostKinds -> Nat]] /\ posts'[own]["notice"] > 0
      BY <1>1, <1>5, <2>3, PostRetractsNothing DEF PostKinds, TypeOK
    <3>2. HasWord(own)'
      BY <3>1 DEF HasWord, Shown, PostKinds
    <3>3. QED
      BY <1>6, <2>1, <2>2, <2>3, <3>2 DEF Steps, ForsakesFairly
  <2>4. CASE Fault("announce") /\ Goto(w, "noteAnnounce")
    BY <1>7, <2>1, <2>2, <2>4 DEF Steps, ClosingSteps
  <2>5. QED
    BY <1>12, <2>2, <2>3, <2>4 DEF Announce
<1>13. CASE Note(w)
  <2>1. PICK from \in DOMAIN AfterNote :
          ClosingWrite(w, from, RecordSystemError(task[w].req), AfterNote[from], AfterNote[from])
    BY <1>13 DEF Note
  <2>2. posts' = posts /\ task[w].at = from /\ Goto(w, AfterNote[from])
    BY <2>1, ClosingWriteMoves
  <2>3. dispatched' = dispatched
    BY <2>1, ClosingWriteMoves DEF RecordSystemError, storeVars, queueRow
  <2>4. AfterNote[from] \in Steps
    BY DEF AfterNote, Steps, ClosingSteps
  <2>5. AfterNote[from] \in TellingSteps \/ from \notin TellingSteps
    <3>1. from = "noteRecord" \/ from = "noteMark" \/ from = "noteClose" \/ from = "noteAnnounce"
      BY DEF AfterNote
    <3>2. QED
      BY <3>1 DEF AfterNote, TellingSteps
  <2>6. QED
    BY <1>3, <1>6, <2>2, <2>3, <2>4, <2>5 DEF ForsakesFairly
<1>14. CASE Crash(w)
  BY <1>3, <1>7, <1>14 DEF Crash, storeVars, Steps
<1>15. QED
  BY <1>8, <1>9, <1>10, <1>11, <1>12, <1>13, <1>14 DEF ClosingStep

-----------------------------------------------------------------------------
(* A delivery that returned has shown its outcome. *)

ReturningSteps == {"record", "close", "noteClose"}

\* It is enough to look at workers that move to a returning step.
LEMMA ReturnsStayTold ==
  ASSUME IType, IType', ReturnsTold, NothingRetracted,
         \A w \in Workers :
           task'[w].at \in ReturningSteps =>
             \/ task[w].at \in ReturningSteps /\ task'[w].req = task[w].req
             \/ task[w].req \in Requests /\ task'[w].req = task[w].req /\ Shown(task[w].req) > 0
             \/ \E r \in Requests : task'[w].req = r /\ Shown(r)' > 0
  PROVE  ReturnsTold'
<1> SUFFICES ASSUME NEW w \in Workers, task'[w].at \in ReturningSteps
             PROVE  Shown(task[w].req)' > 0
  BY DEF ReturnsTold, ReturningSteps
<1>1. TypeOK /\ TypeOK' /\ TaskOK
  BY DEF IType
<1>2. CASE /\ task[w].req \in Requests
           /\ task'[w].req = task[w].req
           /\ Shown(task[w].req) > 0
  <2>1. PICK r \in Requests : r = task[w].req
    BY <1>2
  <2>2. Shown(r)' > 0
    BY <1>1, <1>2, <2>1, WordStays
  <2>3. QED
    BY <1>2, <2>1, <2>2 DEF Shown
<1>3. CASE task[w].at \in ReturningSteps /\ task'[w].req = task[w].req
  <2>1. task[w].req \in Requests /\ Shown(task[w].req) > 0
    BY <1>1, <1>3 DEF TaskOK, ReturnsTold, ReturningSteps
  <2>2. QED
    BY <1>2, <1>3, <2>1
<1>4. CASE \E r \in Requests : task'[w].req = r /\ Shown(r)' > 0
  BY <1>4 DEF Shown
<1>5. QED
  BY <1>2, <1>3, <1>4

\* A worker that moves to a returning step comes from another one, has found
\* the outcome recorded, or has just posted it.
LEMMA WorkerReturnsTold ==
  ASSUME Honest, IType', ReturnsTold, NothingRetracted, NEW w \in Workers,
         WorkerStep(w) \/ Crash(w)
  PROVE  ReturnsTold'
<1>1. IType /\ TypeOK /\ TypeOK' /\ TaskOK
  BY DEF IType, Honest
<1>2. task \in [Workers -> Tasks] /\ \A r \in Requests, kind \in PostKinds : posts[r][kind] \in Nat
  BY <1>1 DEF TypeOK
\* The two kinds of steps: those that move, and those that set more than the step.
<1>3. ASSUME NEW step \in Steps, Goto(w, step), task[w].at # "idle",
             step \in ReturningSteps =>
               task[w].at \in ReturningSteps \/ Shown(task[w].req) > 0
      PROVE  ReturnsTold'
  <2>1. /\ task'[w].at = step
        /\ step # "idle" => task'[w].req = task[w].req
        /\ \A v \in Workers : v # w => task'[v] = task[v]
    BY <1>1, <1>3, GotoMoves
  <2>2. task[w].req \in Requests
    BY <1>1, <1>3 DEF TaskOK
  <2>3. "idle" \notin ReturningSteps
    BY DEF ReturningSteps
  <2>4. QED
    BY <1>1, <1>3, <2>1, <2>2, <2>3, ReturnsStayTold
<1>4. ASSUME \A v \in Workers : v # w => task'[v] = task[v],
             task'[w].at \notin ReturningSteps
      PROVE  ReturnsTold'
  BY <1>1, <1>4, ReturnsStayTold
<1>5. CASE \E r \in Requests : Claim(w, r)
  BY <1>2, <1>4, <1>5 DEF Claim, ReturningSteps
<1>6. CASE Acknowledge(w) \/ Investigate(w)
  <2>1. CASE Goto(w, "caught") /\ task[w].at = "ack"
    BY <1>3, <2>1 DEF Steps, ClosingSteps, ReturningSteps
  <2>2. CASE Acknowledge(w) /\ ~Goto(w, "caught")
    <3>1. \E ts : task' = [task EXCEPT ![w].at = "mark", ![w].anchor = ts]
      BY <2>2 DEF Acknowledge
    <3>2. task'[w].at = "mark" /\ \A v \in Workers : v # w => task'[v] = task[v]
      BY <1>2, <3>1 DEF Tasks
    <3>3. QED
      BY <1>4, <3>2 DEF ReturningSteps
  <2>3. CASE Investigate(w)
    <3>1. task'[w].at = "audit" /\ \A v \in Workers : v # w => task'[v] = task[v]
      BY <1>2, <2>3 DEF Investigate, Tasks
    <3>2. QED
      BY <1>4, <3>1 DEF ReturningSteps
  <2>4. QED
    BY <1>6, <2>1, <2>2, <2>3 DEF Acknowledge
<1>7. CASE ReadStatus(w)
  <2>1. task[w].req \in Requests /\ task[w].at = "readStatus"
    BY <1>1, <1>7 DEF ReadStatus, TaskOK
  <2>2. status[task[w].req] \in ClarificationAsked => Shown(task[w].req) > 0
    BY <1>2, <2>1 DEF Honest, RecordedMeansShown, Shown, PostKinds
  <2>3. QED
    BY <1>3, <1>7, <2>1, <2>2 DEF ReadStatus, Steps, DeliverySteps, ClosingSteps, ReturningSteps
<1>8. CASE ReadReport(w)
  <2>1. task[w].req \in Requests /\ task[w].at = "readReport"
    BY <1>1, <1>8 DEF ReadReport, TaskOK
  <2>2. task[w].req \in reported => Shown(task[w].req) > 0
    BY <1>2, <2>1 DEF Honest, RecordedMeansShown, Shown, PostKinds
  <2>3. PICK step \in {"close", "ack", "mark"} :
          /\ Goto(w, step)
          /\ step = "close" => task[w].req \in reported
    BY <1>8 DEF ReadReport
  <2>4. QED
    BY <1>3, <2>1, <2>2, <2>3 DEF Steps, DeliverySteps, ClosingSteps, ReturningSteps
<1>9. CASE MarkAnalyzing(w) \/ RecordRuns(w) \/ DeliveryThrows(w) \/ Crash(w)
  <2>1. PICK step \in {"rca", "post", "caught", "idle"} : Goto(w, step) /\ task[w].at # "idle"
    BY <1>9 DEF MarkAnalyzing, RecordRuns, DeliveryThrows, Crash, DeliveryWrite, DeliverySteps
  <2>2. QED
    BY <1>3, <2>1 DEF Steps, DeliverySteps, ClosingSteps, ReturningSteps
<1>10. CASE PostOutcome(w)
  <2>1. task[w].at = "post" /\ task[w].req \in Requests
    BY <1>1, <1>10 DEF PostOutcome, DeliveryWrite, TaskOK
  <2>2. PICK r \in Requests : r = task[w].req
    BY <2>1
  <2>3. PICK kind \in {"report", "clarification"} : Post(r, kind)
    BY <1>10, <2>2 DEF PostOutcome, DeliveryWrite
  <2>4. posts'[r][kind] > 0 /\ posts' \in [Requests -> [PostKinds -> Nat]]
    BY <1>1, <2>3, PostRetractsNothing DEF PostKinds, TypeOK
  <2>5. Shown(r)' > 0
    BY <2>4 DEF Shown, PostKinds
  <2>6. PICK step \in {"record", "caught"} : Goto(w, step)
    BY <1>10 DEF PostOutcome, DeliveryWrite
  <2>7. /\ task'[w].at = step /\ task'[w].req = r
        /\ \A v \in Workers : v # w => task'[v] = task[v]
    BY <1>1, <2>2, <2>6, GotoMoves DEF Steps, DeliverySteps, ClosingSteps
  <2>8. QED
    BY <1>1, <2>5, <2>7, ReturnsStayTold
<1>11. CASE RecordOutcome(w)
  <2>1. task[w].at = "record" /\ \E step \in {"close", "caught"} : Goto(w, step)
    BY <1>11 DEF RecordOutcome, DeliveryWrite
  <2>2. QED
    BY <1>3, <2>1 DEF Steps, ClosingSteps, ReturningSteps
<1>12. CASE ClosingStep(w)
  <2>1. \/ task[w].at = "close" /\ Goto(w, "noteClose")
        \/ /\ task[w].at # "idle"
           /\ \E step \in {"idle"} \union (ClosingSteps \ ReturningSteps) : Goto(w, step)
    BY <1>12
       DEF ClosingStep, Close, ScheduleRetry, Abandon, MarkFailed, RecordFailure, Announce, Note,
           ClosingWrite, AfterNote, ClosingSteps, ReturningSteps
  <2>2. QED
    BY <1>3, <2>1 DEF Steps, ClosingSteps, ReturningSteps
<1>13. QED
  BY <1>5, <1>6, <1>7, <1>8, <1>9, <1>10, <1>11, <1>12 DEF WorkerStep, DeliveryStep

-----------------------------------------------------------------------------
(* Every step. *)

\* What happens outside the passes closes no job and stops no announcement.
LEMMA OtherStepForsakesNobody ==
  ASSUME Honest, IType', ReturnsTold, [Next]_vars,
         ~ \E w \in Workers : WorkerStep(w) \/ Crash(w)
  PROVE  /\ NothingRetracted
         /\ Forsaken' \subseteq Forsaken
         /\ ReturnsTold'
<1>1. IType /\ TypeOK /\ TypeOK' /\ TaskOK
  BY DEF IType, Honest
<1>2. UNCHANGED <<task, posts, dispatched>>
  BY DEF Next, vars, storeVars, ReceiveQuestion, SaveQuestion, SaveSlackRequest, LoseQuestion,
         BackoffEnds, ClaimExpires, ClaimLapsesEarly, BackoffElapses, LockLapses
<1>3. NothingRetracted
  BY <1>1, <1>2 DEF NothingRetracted, TypeOK
<1>4. Forsaken' \subseteq Forsaken
  BY <1>1, <1>2, <1>3, QuietStepForsakesNobody
<1>5. ReturnsTold'
  BY <1>1, <1>2, <1>3, ReturnsStayTold
<1>6. QED
  BY <1>3, <1>4, <1>5

LEMMA SilenceStep == SilenceInv /\ [Next]_vars => SilenceInv'
<1> SUFFICES ASSUME SilenceInv, [Next]_vars
             PROVE  SilenceInv'
  OBVIOUS
<1>1. Honest /\ Honest' /\ IType /\ IType' /\ TypeOK /\ Charged /\ ReturnsTold
  BY HonestStep DEF SilenceInv, Honest, IType, Charged
<1>2. ForsakesFairly /\ ReturnsTold'
  <2>1. ASSUME NEW w \in Workers, WorkerStep(w) \/ Crash(w)
        PROVE  ForsakesFairly /\ ReturnsTold'
    <3>1. NothingRetracted /\ ForsakesFairly
      BY <1>1, <2>1, DeliveryStepForsakesNobody, ClosingStepForsakesFairly
         DEF WorkerStep, ForsakesFairly
    <3>2. QED
      BY <1>1, <2>1, <3>1, WorkerReturnsTold
  <2>2. QED
    BY <1>1, <2>1, OtherStepForsakesNobody DEF ForsakesFairly
<1>3. /\ SilencingFaults \in Nat
      /\ SilencingFaults' \in Nat
      /\ SilencingFaults' >= SilencingFaults
  BY <1>1, FaultsAreCounted, SilencingFaultsOnlyGrow
<1>4. IsFiniteSet(Forsaken) /\ Cardinality(Forsaken) \in Nat /\ Cardinality(Forsaken) <= SilencingFaults
  BY <1>1, FS_CardinalityType DEF Charged
<1>5. CASE Forsaken' \subseteq Forsaken
  <2>1. IsFiniteSet(Forsaken') /\ Cardinality(Forsaken') <= Cardinality(Forsaken)
    BY <1>4, <1>5, FS_Subset
  <2>2. Cardinality(Forsaken') \in Nat
    BY <2>1, FS_CardinalityType
  <2>3. QED
    BY <1>1, <1>2, <1>3, <1>4, <2>1, <2>2 DEF SilenceInv, Charged
<1>6. CASE /\ SilencingFaults' = SilencingFaults + 1
           /\ \E r \in Requests : Forsaken' \subseteq Forsaken \union {r}
  <2>1. PICK r \in Requests : Forsaken' \subseteq Forsaken \union {r}
    BY <1>6
  <2>2. /\ IsFiniteSet(Forsaken \union {r})
        /\ Cardinality(Forsaken \union {r}) \in Nat
        /\ Cardinality(Forsaken \union {r}) <= Cardinality(Forsaken) + 1
    BY <1>4, FS_AddElement
  <2>3. /\ IsFiniteSet(Forsaken')
        /\ Cardinality(Forsaken') <= Cardinality(Forsaken \union {r})
    BY <2>1, <2>2, FS_Subset
  <2>4. Cardinality(Forsaken') \in Nat
    BY <2>3, FS_CardinalityType
  <2>5. Cardinality(Forsaken') <= SilencingFaults'
    BY <1>3, <1>4, <1>6, <2>2, <2>3, <2>4
  <2>6. QED
    BY <1>1, <1>2, <2>3, <2>5 DEF SilenceInv, Charged
<1>7. QED
  BY <1>2, <1>5, <1>6 DEF ForsakesFairly

LEMMA InitiallyTold == Init => SilenceInv
<1> SUFFICES ASSUME Init PROVE SilenceInv
  OBVIOUS
<1>1. Forsaken = {} /\ ReturnsTold
  BY DEF Init, StoreInit, Forsaken, ReturnsTold, NoTask
<1>2. SilencingFaults = 0
  BY DEF Init, SilencingFaults, CountedFaults
<1>3. QED
  BY <1>1, <1>2, InitialHonesty, FS_EmptySet DEF SilenceInv, Charged

LEMMA SilentAreForsaken ==
  ASSUME Charged, TypeOK
  PROVE  SilenceNeedsFault
<1> DEFINE silent == {r \in Requests : Silent(r)}
<1>1. silent \subseteq Forsaken
  <2> SUFFICES ASSUME NEW r \in Requests, Silent(r) PROVE r \in Forsaken
    OBVIOUS
  <2>1. Shown(r) + posts[r]["notice"] = 0
    BY DEF Silent
  <2>2. QED
    BY <2>1 DEF Silent, Forsaken, HasWord
<1>2. IsFiniteSet(silent) /\ Cardinality(silent) <= Cardinality(Forsaken)
  BY <1>1, FS_Subset DEF Charged
<1>3. Cardinality(silent) \in Nat /\ Cardinality(Forsaken) \in Nat
  BY <1>2, FS_CardinalityType DEF Charged
<1>4. SilencingFaults \in Nat
  BY SilencingFaultsAreCounted
<1>5. QED
  BY <1>2, <1>3, <1>4 DEF SilenceNeedsFault, SilencingFaults, Charged

\* Each question whose job is closed without a word has a crash, a lost closing
\* write or a refused notice of its own: failed deliveries, retries, lapsed
\* locks and posts that landed unnoticed silence none.
THEOREM SilenceIsCharged == Spec => []SilenceNeedsFault
<1>1. SilenceInv => SilenceNeedsFault
  BY SilentAreForsaken DEF SilenceInv, Honest, IType
<1>2. QED
  BY <1>1, InitiallyTold, SilenceStep, PTL DEF Spec

\* Where no process dies, the notice is posted, and every closing write succeeds,
\* no asker is left without a word, whatever else fails, is retried or lapses.
THEOREM NobodyIsForgotten ==
  ASSUME {"announce", "db", "crash"} \intersect FaultKinds = {}
  PROVE  Spec => []NeverSilent
<1>1. Init => SilencingFaults = 0
  BY DEF Init, SilencingFaults, CountedFaults
<1>2. SilenceInv /\ SilencingFaults = 0 /\ [Next]_vars => (SilencingFaults = 0)'
  <2> SUFFICES ASSUME SilenceInv, SilencingFaults = 0, [Next]_vars
               PROVE  SilencingFaults' = 0
    OBVIOUS
  <2>1. faults \in [CountedFaults -> Nat]
    BY DeliveryAssumption DEF SilenceInv, Honest, IType, TypeOK
  <2>2. CASE UNCHANGED faults
    BY <2>2 DEF SilencingFaults
  <2>3. ASSUME NEW kind \in CountedFaults, Fault(kind)
        PROVE  SilencingFaults' = 0
    <3>1. kind = "lapse" /\ faults' = [faults EXCEPT ![kind] = @ + 1]
      BY <2>3 DEF Fault, CountedFaults
    <3>2. QED
      BY <2>1, <3>1 DEF SilencingFaults, CountedFaults
  <2>4. QED
    BY <2>2, <2>3, FaultsAreCounted
<1>3. SilenceInv /\ SilencingFaults = 0 => NeverSilent
  <2> SUFFICES ASSUME SilenceInv, SilencingFaults = 0, NEW r \in Requests, Silent(r)
               PROVE  FALSE
    BY DEF NeverSilent
  <2>1. Shown(r) + posts[r]["notice"] = 0
    BY DEF Silent
  <2>2. r \in Forsaken
    BY <2>1 DEF Silent, Forsaken, HasWord
  <2>3. IsFiniteSet(Forsaken) /\ Cardinality(Forsaken) <= 0
    BY DEF SilenceInv, Charged
  <2>4. Cardinality(Forsaken) \in Nat /\ Cardinality(Forsaken) # 0
    BY <2>2, <2>3, FS_CardinalityType, FS_EmptySet
  <2>5. QED
    BY <2>3, <2>4
<1>4. QED
  BY <1>1, <1>2, <1>3, InitiallyTold, SilenceStep, PTL DEF Spec
=============================================================================
