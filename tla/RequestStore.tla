------------------------------ MODULE RequestStore ------------------------------
(***************************************************************************)
(* The rows ingress keeps in PostgreSQL about a question, and the          *)
(* transactions of ingress/src/postgres-repository.ts that change them:    *)
(* aiops_requests, aiops_dispatch_queue, aiops_reports, aiops_agent_runs.  *)
(*                                                                         *)
(* Each operator below is the effect of one committed transaction; who     *)
(* runs it, when, and what happens when the commit is not acknowledged is  *)
(* Delivery's business.  A request and its queue row are inserted in one   *)
(* transaction and are identified: a request is named by the Slack message *)
(* it came from, which is unique (channel_id, message_ts).                 *)
(***************************************************************************)
EXTENDS Naturals, Sequences

CONSTANTS
  Requests,    \* the questions users type, one Slack message each
  NoRequest,   \* a null parent_request_id
  NoTs         \* a null slack_ack_ts

\* A Slack timestamp: the n-th acknowledgement posted for request r.
Ts == Requests \X Nat

ASSUME StoreAssumption ==
  /\ NoRequest \notin Requests
  /\ NoTs \notin Ts

VARIABLES
  status,      \* aiops_requests.status, "absent" before the row is inserted
  parent,      \* aiops_requests.parent_request_id
  ackTs,       \* aiops_requests.slack_ack_ts
  reported,    \* requests with a row in aiops_reports
  audited,     \* requests with rows in aiops_agent_runs
  queue,       \* aiops_dispatch_queue in created_at order
  attempts,    \* aiops_dispatch_queue.attempts
  due,         \* queue rows whose next_attempt_at has passed
  locked,      \* queue rows whose locked_until is in the future
  dispatched   \* queue rows with dispatched_at set

requestRow == <<status, parent, ackTs>>
queueRow == <<queue, attempts, due, locked, dispatched>>
storeVars == <<status, parent, ackTs, reported, audited, queue, attempts, due, locked, dispatched>>

-----------------------------------------------------------------------------
(* What a stored status says about the asker (request-status.ts). *)

ClarificationAsked == {"needs_clarification", "unsupported", "clarified"}
Settled == {"completed"} \union ClarificationAsked
Statuses == {"absent", "received", "analyzing_question", "failed"} \union Settled

StoreTypeOK ==
  /\ status \in [Requests -> Statuses]
  /\ parent \in [Requests -> Requests \union {NoRequest}]
  /\ ackTs \in [Requests -> Ts \union {NoTs}]
  /\ reported \subseteq Requests
  /\ audited \subseteq Requests
  /\ queue \in Seq(Requests)
  /\ attempts \in [Requests -> Nat]
  /\ due \subseteq Requests
  /\ locked \subseteq Requests
  /\ dispatched \subseteq Requests

StoreInit ==
  /\ status = [r \in Requests |-> "absent"]
  /\ parent = [r \in Requests |-> NoRequest]
  /\ ackTs = [r \in Requests |-> NoTs]
  /\ reported = {}
  /\ audited = {}
  /\ queue = <<>>
  /\ attempts = [r \in Requests |-> 0]
  /\ due = {}
  /\ locked = {}
  /\ dispatched = {}

-----------------------------------------------------------------------------
(* Intake. *)

\* Altered: any request in the thread, whether or not it waits for an answer.
PendingClarification_AnyStatus(thread) ==
  IF thread \in Requests /\ status[thread] # "absent" THEN thread ELSE NoRequest

\* A reply in a thread carries the ts of the thread's first message, so the
\* request awaiting an answer is looked for under that message alone.
PendingClarification(thread) ==
  IF thread \in Requests /\ status[thread] = "needs_clarification"
    THEN thread
    ELSE NoRequest

\* Altered: the parent is left waiting for the answer it has got.
SaveSlackRequest_ParentWaits(r, p) ==
  IF status[r] # "absent"
    THEN UNCHANGED storeVars
    ELSE /\ status' = [status EXCEPT ![r] = "received"]
         /\ parent' = [parent EXCEPT ![r] = p]
         /\ queue' = Append(queue, r)
         /\ due' = due \union {r}
         /\ UNCHANGED <<ackTs, reported, audited, attempts, locked, dispatched>>

\* ON CONFLICT DO NOTHING: a message that already has its row changes nothing.
\* Otherwise the request and its queue row appear together, and the parent
\* stops waiting for the asker.
SaveSlackRequest(r, p) ==
  IF status[r] # "absent"
    THEN UNCHANGED storeVars
    ELSE /\ status' = [q \in Requests |->
                         IF q = r THEN "received"
                         ELSE IF q = p /\ status[q] = "needs_clarification" THEN "clarified"
                         ELSE status[q]]
         /\ parent' = [parent EXCEPT ![r] = p]
         /\ queue' = Append(queue, r)
         /\ due' = due \union {r}
         /\ UNCHANGED <<ackTs, reported, audited, attempts, locked, dispatched>>

-----------------------------------------------------------------------------
(* The dispatch queue. *)

Claimable(r) ==
  /\ status[r] # "absent"
  /\ r \in due
  /\ r \notin locked
  /\ r \notin dispatched

\* The oldest claimable row, skipping the locked ones.
ClaimsFirst(r) ==
  \E i \in DOMAIN queue :
    /\ queue[i] = r
    /\ Claimable(r)
    /\ \A j \in 1..(i - 1) : ~Claimable(queue[j])

\* Altered: the claim does not set locked_until.
ClaimDispatch_NoLock(r) ==
  /\ attempts' = [attempts EXCEPT ![r] = @ + 1]
  /\ UNCHANGED <<requestRow, reported, audited, queue, due, locked, dispatched>>

ClaimDispatch(r) ==
  /\ attempts' = [attempts EXCEPT ![r] = @ + 1]
  /\ locked' = locked \union {r}
  /\ UNCHANGED <<requestRow, reported, audited, queue, due, dispatched>>

CompleteDispatch(r) ==
  /\ dispatched' = dispatched \union {r}
  /\ locked' = locked \ {r}
  /\ UNCHANGED <<requestRow, reported, audited, queue, attempts, due>>

\* next_attempt_at moves to the end of the backoff and the lock is dropped,
\* whoever holds it by now.
RetryDispatch(r) ==
  /\ due' = due \ {r}
  /\ locked' = locked \ {r}
  /\ UNCHANGED <<requestRow, reported, audited, queue, attempts, dispatched>>

\* The database clock: a backoff ends, a claim's locked_until passes.
BackoffElapses(r) ==
  /\ status[r] # "absent"
  /\ r \notin due
  /\ due' = due \union {r}
  /\ UNCHANGED <<requestRow, reported, audited, queue, attempts, locked, dispatched>>

\* Altered: the claim query asks for locked_until IS NULL only.
LockLapses_Never(r) ==
  /\ r \in locked \ Requests
  /\ UNCHANGED storeVars

LockLapses(r) ==
  /\ r \in locked
  /\ locked' = locked \ {r}
  /\ UNCHANGED <<requestRow, reported, audited, queue, attempts, due, dispatched>>

-----------------------------------------------------------------------------
(* Outcomes and bookkeeping. *)

\* Altered: "failed" overwrites like any other status.
UpdateRequestStatus_Ungated(r, s, ts) ==
  /\ status' = [status EXCEPT ![r] = s]
  /\ ackTs' = [ackTs EXCEPT ![r] = IF ts = NoTs THEN @ ELSE ts]
  /\ UNCHANGED <<parent, reported, audited, queueRow>>

\* "failed" is refused for a request whose outcome the asker already saw; any
\* other status overwrites.  COALESCE keeps the stored anchor when no ts is given.
UpdateRequestStatus(r, s, ts) ==
  /\ IF s = "failed" /\ status[r] \in Settled
       THEN UNCHANGED <<status, ackTs>>
       ELSE /\ status' = [status EXCEPT ![r] = s]
            /\ ackTs' = [ackTs EXCEPT ![r] = IF ts = NoTs THEN @ ELSE ts]
  /\ UNCHANGED <<parent, reported, audited, queueRow>>

RecordAgentRuns(r) ==
  /\ audited' = audited \union {r}
  /\ UNCHANGED <<requestRow, reported, queueRow>>

\* Altered: the report row without the status.
SaveReport_RowOnly(r) ==
  /\ reported' = reported \union {r}
  /\ UNCHANGED <<requestRow, audited, queueRow>>

\* The report row and the status 'completed' are one transaction.
SaveReport(r) ==
  /\ reported' = reported \union {r}
  /\ status' = [status EXCEPT ![r] = "completed"]
  /\ UNCHANGED <<parent, ackTs, audited, queueRow>>

\* Altered: the guard names 'completed' alone, as it once did.
RecordSystemError_CompletedOnly(r) ==
  /\ status' = IF status[r] = "completed" THEN status ELSE [status EXCEPT ![r] = "failed"]
  /\ UNCHANGED <<parent, ackTs, reported, audited, queueRow>>

\* The error row itself is write-only; what it does to the request is not.
RecordSystemError(r) ==
  /\ status' = IF status[r] \in Settled THEN status ELSE [status EXCEPT ![r] = "failed"]
  /\ UNCHANGED <<parent, ackTs, reported, audited, queueRow>>
=============================================================================
