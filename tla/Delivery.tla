-------------------------------- MODULE Delivery --------------------------------
(***************************************************************************)
(* How a question typed in Slack is accepted and delivered: the            *)
(* /slack/events handler (ingress/src/app.ts), the dispatch loop           *)
(* (dispatcher.ts) and the investigation pipeline (pipeline.ts), over the  *)
(* transactions of RequestStore, with Slack and the RCA service as the     *)
(* environment.                                                            *)
(*                                                                         *)
(* A worker is the one pass of runOnce that a process allows itself (the   *)
(* `running` flag), so Workers is the set of ingress processes.  Every     *)
(* await of the pass is a step: a read, a write, a post or the RCA call.   *)
(***************************************************************************)
EXTENDS RequestStore, FiniteSets

CONSTANTS
  Workers,      \* ingress processes, each with one dispatcher pass
  ReplyTo,      \* the thread a message was typed in: ReplyTo[m], or NoRequest
  MaxAttempts,  \* MAX_DISPATCH_ATTEMPTS
  FaultKinds,   \* which failures this instance may suffer
  MaxFaults,    \* how many counted failures may happen
  MaxInflight   \* how many handlers may be between their read and their write

ASSUME DeliveryAssumption ==
  /\ ReplyTo \in [Requests -> Requests \union {NoRequest}]
  /\ MaxAttempts \in Nat \ {0}
  /\ MaxFaults \in Nat
  /\ MaxInflight \in Nat \ {0}
  /\ NoRequest \notin Requests

(***************************************************************************)
(* Fault kinds.  "throw": a delivery step fails with no effect.  "landed": *)
(* it takes effect and the caller still sees an error (a post that times   *)
(* out after Slack took it, a commit whose acknowledgement is lost).  Each *)
(* of these ends a claim, and needs no bound of its own.  The others are   *)
(* counted: "announce": the abandonment notice is not posted, or its post  *)
(* is not acknowledged.  "db": a closing write fails, with or without      *)
(* effect.  "crash": the process dies.  "lapse": a claim's lock expires    *)
(* under a delivery that is still running.                                 *)
(***************************************************************************)
CountedFaults == {"announce", "db", "crash", "lapse"}

VARIABLES
  task,        \* what each worker's pass is doing
  inflight,    \* /slack/events handlers between their read and their write
  posts,       \* what Slack holds: messages about each request, by kind
  faults       \* how often each counted fault has happened

vars == <<storeVars, task, inflight, posts, faults>>

Outcomes == {"completed", "needs_clarification", "unsupported"}
PostKinds == {"ack", "report", "clarification", "notice"}

\* Steps of a delivery, in order; each can throw into "caught".
DeliverySteps ==
  {"readStatus", "readReport", "ack", "mark", "rca", "audit", "post", "record"}

\* Steps after it: closing, retrying, abandoning, and the notes about them.
ClosingSteps ==
  {"close", "caught", "markFailed", "recordFailure", "announce",
   "noteClose", "noteMark", "noteRecord", "noteAnnounce"}

Handlers == [msg : Requests, parent : Requests \union {NoRequest}]

Tasks ==
  [at : {"idle"} \union DeliverySteps \union ClosingSteps,
   req : Requests \union {NoRequest},
   tries : Nat,
   anchor : Ts \union {NoTs},
   root : Ts \union {NoTs},
   result : Outcomes \union {"none"}]

NoTask ==
  [at |-> "idle", req |-> NoRequest, tries |-> 0,
   anchor |-> NoTs, root |-> NoTs, result |-> "none"]

TypeOK ==
  /\ StoreTypeOK
  /\ task \in [Workers -> Tasks]
  /\ inflight \subseteq Handlers
  /\ posts \in [Requests -> [PostKinds -> Nat]]
  /\ faults \in [CountedFaults -> 0..MaxFaults]

Init ==
  /\ StoreInit
  /\ task = [w \in Workers |-> NoTask]
  /\ inflight = {}
  /\ posts = [r \in Requests |-> [k \in PostKinds |-> 0]]
  /\ faults = [kind \in CountedFaults |-> 0]

-----------------------------------------------------------------------------
(* Helpers. *)

Goto(w, step) ==
  task' = [task EXCEPT ![w] = IF step = "idle" THEN NoTask ELSE [@ EXCEPT !.at = step]]

Post(r, kind) == posts' = [posts EXCEPT ![r][kind] = @ + 1]

FaultsSoFar == faults["announce"] + faults["db"] + faults["crash"] + faults["lapse"]

Fault(kind) ==
  /\ kind \in FaultKinds
  /\ FaultsSoFar < MaxFaults
  /\ faults' = [faults EXCEPT ![kind] = @ + 1]

\* The messages that tell the asker how the question ended.
Shown(r) == posts[r]["report"] + posts[r]["clarification"]

-----------------------------------------------------------------------------
(* The /slack/events handler: a read, then a transaction. *)

\* Slack may deliver the same message any number of times, as two event types
\* and as retries; each delivery is a handler of its own.
ReceiveQuestion(m) ==
  /\ Cardinality(inflight) < MaxInflight
  /\ inflight' = inflight \union {[msg |-> m, parent |-> PendingClarification(ReplyTo[m])]}
  /\ UNCHANGED <<storeVars, task, posts, faults>>

SaveQuestion(h) ==
  /\ SaveSlackRequest(h.msg, h.parent)
  /\ inflight' = inflight \ {h}
  /\ UNCHANGED <<task, posts, faults>>

\* The handler throws or its process dies before the transaction commits.
LoseQuestion(h) ==
  /\ inflight' = inflight \ {h}
  /\ UNCHANGED <<storeVars, task, posts, faults>>

-----------------------------------------------------------------------------
(* One delivery: claimDispatch, then runInvestigation. *)

\* Altered: the anchor an earlier attempt stored is not brought back.
Claim_NoAnchor(w, r) ==
  /\ task[w].at = "idle"
  /\ ClaimsFirst(r)
  /\ ClaimDispatch(r)
  /\ task' = [task EXCEPT ![w] =
       [NoTask EXCEPT !.at = "readStatus", !.req = r, !.tries = attempts[r] + 1]]
  /\ UNCHANGED <<inflight, posts, faults>>

Claim(w, r) ==
  /\ task[w].at = "idle"
  /\ ClaimsFirst(r)
  /\ ClaimDispatch(r)
  /\ task' = [task EXCEPT ![w] =
       [at |-> "readStatus", req |-> r, tries |-> attempts[r] + 1,
        anchor |-> ackTs[r],
        root |-> IF parent[r] \in Requests THEN ackTs[parent[r]] ELSE NoTs,
        result |-> "none"]]
  /\ UNCHANGED <<inflight, posts, faults>>

DeliveryThrows(w) ==
  /\ "throw" \in FaultKinds
  /\ task[w].at \in DeliverySteps
  /\ Goto(w, "caught")
  /\ UNCHANGED <<storeVars, inflight, posts, faults>>

\* A clarification that was already asked ends the delivery normally.
ReadStatus(w) ==
  /\ task[w].at = "readStatus"
  /\ Goto(w, IF status[task[w].req] \in ClarificationAsked THEN "close" ELSE "readReport")
  /\ UNCHANGED <<storeVars, inflight, posts, faults>>

\* Altered: a published report does not end the delivery.
ReadReport_Unguarded(w) ==
  /\ task[w].at = "readReport"
  /\ Goto(w, IF task[w].anchor = NoTs THEN "ack" ELSE "mark")
  /\ UNCHANGED <<storeVars, inflight, posts, faults>>

\* So does a report that was already published.  A claim that brought back the
\* stored anchor has acknowledged before.
ReadReport(w) ==
  /\ task[w].at = "readReport"
  /\ Goto(w, IF task[w].req \in reported THEN "close"
             ELSE IF task[w].anchor = NoTs THEN "ack"
             ELSE "mark")
  /\ UNCHANGED <<storeVars, inflight, posts, faults>>

\* Altered: a continuation is anchored to its own acknowledgement.
Acknowledge_OwnThread(w) ==
  /\ task[w].at = "ack"
  /\ Post(task[w].req, "ack")
  /\ task' = [task EXCEPT ![w].at = "mark",
                           ![w].anchor = <<task[w].req, posts[task[w].req]["ack"] + 1>>]
  /\ UNCHANGED <<storeVars, inflight, faults>>

Acknowledge(w) ==
  LET r == task[w].req
      ts == <<r, posts[r]["ack"] + 1>>
  IN /\ task[w].at = "ack"
     /\ Post(r, "ack")
     /\ \/ task' = [task EXCEPT ![w].at = "mark",
                                ![w].anchor = IF task[w].root # NoTs THEN task[w].root ELSE ts]
        \/ "landed" \in FaultKinds /\ Goto(w, "caught")
     /\ UNCHANGED <<storeVars, inflight, faults>>

\* A write of the delivery: it takes effect and the delivery goes on, or it
\* takes effect and throws.
DeliveryWrite(w, step, effect, next) ==
  /\ task[w].at = step
  /\ effect
  /\ \/ Goto(w, next)
     \/ "landed" \in FaultKinds /\ Goto(w, "caught")
  /\ UNCHANGED <<inflight, faults>>

MarkAnalyzing(w) ==
  /\ DeliveryWrite(w, "mark",
       UpdateRequestStatus(task[w].req, "analyzing_question", task[w].anchor), "rca")
  /\ UNCHANGED posts

\* Altered: an answer without agent runs is published all the same.
Investigate_NoRuns(w) ==
  /\ task[w].at = "rca"
  /\ \E o \in Outcomes : task' = [task EXCEPT ![w].at = "post", ![w].result = o]
  /\ UNCHANGED <<storeVars, inflight, posts, faults>>

\* Altered: a status the service never announced is taken as it comes.
Investigate_AnyStatus(w) ==
  /\ task[w].at = "rca"
  /\ \E o \in Outcomes \union {"failed"} :
       task' = [task EXCEPT ![w].at = "audit", ![w].result = o]
  /\ UNCHANGED <<storeVars, inflight, posts, faults>>

\* listTemplates and POST /v1/investigations: any of the three outcomes.
Investigate(w) ==
  /\ task[w].at = "rca"
  /\ \E o \in Outcomes : task' = [task EXCEPT ![w].at = "audit", ![w].result = o]
  /\ UNCHANGED <<storeVars, inflight, posts, faults>>

RecordRuns(w) ==
  /\ DeliveryWrite(w, "audit", RecordAgentRuns(task[w].req), "post")
  /\ UNCHANGED posts

\* Altered: a post that Slack refused goes unnoticed.
PostOutcome_Unchecked(w) ==
  /\ task[w].at = "post"
  /\ Goto(w, "record")
  /\ UNCHANGED <<storeVars, inflight, posts, faults>>

PostOutcome(w) ==
  /\ DeliveryWrite(w, "post",
       Post(task[w].req, IF task[w].result = "completed" THEN "report" ELSE "clarification"),
       "record")
  /\ UNCHANGED storeVars

RecordOutcome(w) ==
  /\ DeliveryWrite(w, "record",
       IF task[w].result = "completed"
         THEN SaveReport(task[w].req)
         ELSE UpdateRequestStatus(task[w].req, task[w].result, NoTs),
       "close")
  /\ UNCHANGED posts

-----------------------------------------------------------------------------
(* What the loop does with a delivery that returned or threw. *)

\* A write of the loop: done, or failed with or without effect.
ClosingWrite(w, step, effect, done, failed) ==
  /\ task[w].at = step
  /\ \/ effect /\ Goto(w, done) /\ UNCHANGED faults
     \/ Fault("db") /\ (effect \/ UNCHANGED storeVars) /\ Goto(w, failed)
  /\ UNCHANGED <<inflight, posts>>

Close(w) ==
  ClosingWrite(w, "close", CompleteDispatch(task[w].req), "idle", "noteClose")

\* A failed retryDispatch escapes runOnce: the pass ends, the lock stays.
ScheduleRetry(w) ==
  /\ task[w].tries < MaxAttempts
  /\ ClosingWrite(w, "caught", RetryDispatch(task[w].req), "idle", "idle")

\* Altered: the request is left in progress.
Abandon_StatusKept(w) ==
  /\ task[w].tries >= MaxAttempts
  /\ ClosingWrite(w, "caught", CompleteDispatch(task[w].req), "announce", "idle")

\* abandon: completeDispatch comes first and is not guarded.
Abandon(w) ==
  /\ task[w].tries >= MaxAttempts
  /\ ClosingWrite(w, "caught", CompleteDispatch(task[w].req), "markFailed", "idle")

MarkFailed(w) ==
  ClosingWrite(w, "markFailed",
    UpdateRequestStatus(task[w].req, "failed", NoTs), "recordFailure", "noteMark")

\* Altered: the failure is filed and nobody is told.
RecordFailure_NotAnnounced(w) ==
  ClosingWrite(w, "recordFailure", RecordSystemError(task[w].req), "idle", "noteRecord")

RecordFailure(w) ==
  ClosingWrite(w, "recordFailure", RecordSystemError(task[w].req), "announce", "noteRecord")

Announce(w) ==
  /\ task[w].at = "announce"
  /\ \/ Post(task[w].req, "notice") /\ Goto(w, "idle") /\ UNCHANGED faults
     \/ /\ Fault("announce")
        /\ UNCHANGED posts \/ Post(task[w].req, "notice")
        /\ Goto(w, "noteAnnounce")
  /\ UNCHANGED <<storeVars, inflight>>

\* runQuietly: the note about a failed step, and on to the step after it.
AfterNote ==
  [noteClose |-> "idle", noteMark |-> "recordFailure",
   noteRecord |-> "announce", noteAnnounce |-> "idle"]

Note(w) ==
  \E step \in DOMAIN AfterNote :
    ClosingWrite(w, step, RecordSystemError(task[w].req), AfterNote[step], AfterNote[step])

-----------------------------------------------------------------------------
(* The environment. *)

\* The process dies and comes back (restart: unless-stopped) with a new pass.
Crash(w) ==
  /\ task[w].at # "idle"
  /\ Fault("crash")
  /\ Goto(w, "idle")
  /\ UNCHANGED <<storeVars, inflight, posts>>

BackoffEnds(r) ==
  /\ BackoffElapses(r)
  /\ UNCHANGED <<task, inflight, posts, faults>>

Working(w, r) == task[w].req = r

\* lockSecondsFor sizes the lock to outlast the delivery it is taken for, so it
\* expires once nobody works on the job ...
ClaimExpires(r) ==
  /\ \A w \in Workers : ~Working(w, r)
  /\ LockLapses(r)
  /\ UNCHANGED <<task, inflight, posts, faults>>

\* ... unless the database or the process stalls for longer than the margin.
ClaimLapsesEarly(r) ==
  /\ \E w \in Workers : Working(w, r)
  /\ LockLapses(r)
  /\ Fault("lapse")
  /\ UNCHANGED <<task, inflight, posts>>

-----------------------------------------------------------------------------
DeliveryStep(w) ==
  \/ \E r \in Requests : Claim(w, r)
  \/ ReadStatus(w) \/ ReadReport(w) \/ Acknowledge(w) \/ MarkAnalyzing(w)
  \/ Investigate(w) \/ RecordRuns(w) \/ PostOutcome(w) \/ RecordOutcome(w)

ClosingStep(w) ==
  \/ Close(w) \/ ScheduleRetry(w) \/ Abandon(w)
  \/ MarkFailed(w) \/ RecordFailure(w) \/ Announce(w) \/ Note(w)

WorkerStep(w) == DeliveryStep(w) \/ ClosingStep(w) \/ DeliveryThrows(w)

Next ==
  \/ \E m \in Requests : ReceiveQuestion(m)
  \/ \E h \in inflight : SaveQuestion(h) \/ LoseQuestion(h)
  \/ \E w \in Workers : WorkerStep(w) \/ Crash(w)
  \/ \E r \in Requests : BackoffEnds(r) \/ ClaimExpires(r) \/ ClaimLapsesEarly(r)

Spec == Init /\ [][Next]_vars

(***************************************************************************)
(* The sweep timer starts a pass again and again and every await of a pass *)
(* settles, so a worker that can step does; the database clock advances.   *)
(* Users, Slack redeliveries and crashes owe nothing.                      *)
(***************************************************************************)
Fairness ==
  /\ \A w \in Workers : WF_vars(WorkerStep(w))
  /\ \A r \in Requests : WF_vars(BackoffEnds(r)) /\ WF_vars(ClaimExpires(r))

FairSpec == Spec /\ Fairness
-----------------------------------------------------------------------------
(* Safety. *)

\* No lock has expired under its holder so far: lockSecondsFor's promise.
LocksHeld == faults["lapse"] = 0

\* Nothing is recorded as told before it is told: a report row exists only for
\* a report that went out, and a status that keeps the clarification from being
\* asked again only for one that was asked (pipeline.ts posts, then records).
RecordedMeansShown ==
  \A r \in Requests :
    /\ r \in reported => posts[r]["report"] > 0
    /\ status[r] \in ClarificationAsked => posts[r]["clarification"] > 0

\* Whatever the asker was shown has its agent runs on record, on every
\* interleaving of retries and restarts (the audit trail comes before any post).
NothingPublishedUnaudited ==
  \A r \in Requests : Shown(r) > 0 => r \in audited

\* Two processes never work on the same job, whatever is retried, abandoned or
\* lost in a crash, as long as no lock lapses under its holder.
OneDeliveryAtATime ==
  LocksHeld =>
    \A v, w \in Workers : task[v].req = task[w].req /\ task[v].req \in Requests => v = w

\* A request is marked failed only when its job is closed for good: no later
\* delivery can find it and no delivery is under way.
FailedIsFinal ==
  LocksHeld =>
    \A r \in Requests : status[r] = "failed" =>
      /\ r \in dispatched
      /\ \A w \in Workers : Working(w, r) => task[w].at \in ClosingSteps

\* The report row and the status 'completed' say the same thing, so at most one
\* of the two early returns of runInvestigation can apply.
ReportRowIffCompleted ==
  LocksHeld => \A r \in Requests : r \in reported <=> status[r] = "completed"

\* A request opened as a continuation continues a question that was put to the
\* asker, and that question no longer waits for an answer.
ContinuationAnswersAsked ==
  LocksHeld =>
    \A r \in Requests : parent[r] \in Requests =>
      /\ status[parent[r]] = "clarified"
      /\ posts[parent[r]]["clarification"] > 0

\* A continuation is delivered in its parent's thread: once it has an anchor,
\* it is the parent's.
OneThread ==
  LocksHeld =>
    \A r \in Requests :
      parent[r] \in Requests /\ ackTs[r] # NoTs => ackTs[r] = ackTs[parent[r]]

\* A job that is closed and that nobody works on, though its asker was told
\* nothing: no report, no clarification, no notice that it was given up.
Silent(r) ==
  /\ r \in dispatched
  /\ \A w \in Workers : ~Working(w, r)
  /\ Shown(r) + posts[r]["notice"] = 0

\* Each crash, lost closing write or refused notice silences one question at
\* most, and nothing else silences any.
SilenceNeedsFault ==
  Cardinality({r \in Requests : Silent(r)})
    <= faults["announce"] + faults["db"] + faults["crash"]

-----------------------------------------------------------------------------
(* What a step may never do. *)

\* An outcome the asker saw and the store knows of is never relabelled; a
\* question that waits for an answer may only become an answered one.
SettledIsFinal ==
  [][LocksHeld =>
       \A r \in Requests : status[r] \in Settled =>
         \/ status'[r] = status[r]
         \/ status[r] = "needs_clarification" /\ status'[r] = "clarified"]_vars

\* No delivery posts a report or a clarification for a request whose outcome is
\* already recorded, however often its job is claimed again.
NoRepeatAfterRecord ==
  [][LocksHeld =>
       \A r \in Requests :
         Shown(r)' > Shown(r) => status[r] \notin Settled /\ r \notin reported]_vars

\* Once the anchor of the investigation's thread is stored, it never moves and
\* no second acknowledgement is posted for it.
AnchorIsStable ==
  [][LocksHeld =>
       \A r \in Requests : ackTs[r] # NoTs =>
         ackTs'[r] = ackTs[r] /\ posts'[r]["ack"] = posts[r]["ack"]]_vars

-----------------------------------------------------------------------------
(* The lifecycle this implements. *)

\* The phase of the question behind each stored status.
PhaseOf ==
  [absent |-> "unasked", received |-> "open", analyzing_question |-> "open",
   completed |-> "answered", needs_clarification |-> "asking",
   unsupported |-> "declined", clarified |-> "continued", failed |-> "abandoned"]

Lifecycle == INSTANCE QuestionLifecycle WITH
  Questions <- Requests,
  NoQuestion <- NoRequest,
  phase <- [r \in Requests |-> PhaseOf[status[r]]],
  continues <- parent

\* Deliveries, retries, abandonments and crashes add up to one outcome for each
\* question and one continuation of it for each answer.
ImplementsLifecycle == Lifecycle!LifecycleSpec

-----------------------------------------------------------------------------
(* Liveness. *)

\* Every question that was saved leaves the queue in the end, through crashes,
\* failed writes and retries.
EventuallyClosed ==
  \A r \in Requests : status[r] # "absent" ~> r \in dispatched

\* Unless a process dies, a closing write fails or a lock lapses, no request
\* stays in progress for ever: it reaches an outcome or is marked failed.
EventuallySettled ==
  \A r \in Requests :
    status[r] = "received" ~> \/ status[r] \in Settled \union {"failed"}
                             \/ faults["db"] + faults["crash"] + faults["lapse"] > 0

-----------------------------------------------------------------------------
(* What the documentation says and the code does not always do. *)

\* No question whose job is closed is left without a word.
NeverSilent == \A r \in Requests : ~Silent(r)

\* dispatcher.ts: a question that was acknowledged is not silent afterwards.
AcknowledgedIsAnswered == \A r \in Requests : posts[r]["ack"] > 0 => ~Silent(r)

\* postgres-repository.ts: a request whose outcome the asker saw is not failed.
ShownIsNotFailed == \A r \in Requests : status[r] = "failed" => Shown(r) = 0

\* 001_aiops.sql: an investigation stays in one thread however many
\* clarifications it took.  While a continuation waits for the answer to a
\* further clarification, a new reply in its thread is given a parent.
Thread(r) == IF ReplyTo[r] = NoRequest THEN r ELSE ReplyTo[r]
FurtherClarificationPending(thread) ==
  \E r \in Requests :
    /\ Thread(r) = thread
    /\ parent[r] # NoRequest
    /\ status[r] = "needs_clarification"
ReplyContinuesPending ==
  [][\A h \in inflight' \ inflight :
       /\ status[h.msg] = "absent"
       /\ FurtherClarificationPending(ReplyTo[h.msg])
       => h.parent # NoRequest]_vars

=============================================================================
