--------------------------- MODULE DeliveryInvariants ---------------------------
(***************************************************************************)
(* Why Delivery keeps its promises: what a process that works on a job     *)
(* knows of the job's rows, step by step, as long as no lock has lapsed    *)
(* under its holder.  Owned is inductive together with the types.            *)
(***************************************************************************)
EXTENDS Delivery

\* Steps of a pass at which its job is still open, and at which it is closed.
OpenSteps == DeliverySteps \union {"close", "caught"}
ClosedSteps ==
  {"markFailed", "recordFailure", "announce", "noteMark", "noteRecord", "noteAnnounce"}

\* Steps from which an outcome can still be shown, and those after the anchor
\* has been written.
UndecidedSteps == {"ack", "mark", "rca", "audit", "post", "record"}
AnchoredSteps == {"rca", "audit", "post", "record"}

\* A job that is worked on cannot be claimed, and is open or closed as its
\* worker believes.
HoldsJob(w) ==
  LET r == task[w].req
  IN /\ status[r] # "absent"
     /\ r \in locked \union dispatched
     /\ task[w].at \in OpenSteps => r \notin dispatched
     /\ task[w].at \in ClosedSteps => r \in dispatched

\* The outcome the worker read, or the lack of one, is still what is stored.
KnowsOutcome(w) ==
  LET s == status[task[w].req]
  IN /\ task[w].at \in {"close", "noteClose"} => s \in Settled
     /\ task[w].at = "readReport" => s \notin ClarificationAsked
     /\ task[w].at \in UndecidedSteps => s \notin Settled

\* The anchor the claim brought back is still what is stored.
KnowsAnchor(w) ==
  LET ts == ackTs[task[w].req]
  IN /\ task[w].at \in {"readStatus", "readReport"} => task[w].anchor = ts
     /\ task[w].at = "ack" => ts = NoTs
     /\ task[w].at = "mark" => task[w].anchor # NoTs /\ ts \in {NoTs, task[w].anchor}
     /\ task[w].at \in AnchoredSteps => ts # NoTs

\* A worker on a continuation has its parent's thread.
KnowsThread(w) ==
  LET p == parent[task[w].req]
  IN p \in Requests =>
       /\ task[w].at \in {"readStatus", "readReport", "ack"} => task[w].root = ackTs[p]
       /\ task[w].at = "mark" => task[w].anchor = ackTs[p]

WorkerOK(w) ==
  task[w].at # "idle" =>
    HoldsJob(w) /\ KnowsOutcome(w) /\ KnowsAnchor(w) /\ KnowsThread(w)

\* The rows of one request agree with each other.
RowOK(r) ==
  /\ r \in reported <=> status[r] = "completed"
  /\ status[r] = "failed" => r \in dispatched
  /\ status[r] = "absent" => parent[r] = NoRequest /\ ackTs[r] = NoTs
  /\ status[r] \in ClarificationAsked => ackTs[r] # NoTs

\* A continuation hangs from a question that was asked and answered.
ParentOK(r) ==
  parent[r] \in Requests =>
    /\ status[parent[r]] = "clarified"
    /\ ackTs[r] # NoTs => ackTs[r] = ackTs[parent[r]]

\* A handler about to save a continuation found its parent waiting.
HandlerOK(h) ==
  h.parent \in Requests => status[h.parent] \in {"needs_clarification", "clarified"}

\* The inductive invariant: who works on a job, and what that worker, the rows
\* and the handlers know of each other.
Owned ==
  LocksHeld =>
    /\ \A v, w \in Workers : task[v].req = task[w].req /\ task[v].req \in Requests => v = w
    /\ \A w \in Workers : WorkerOK(w)
    /\ \A r \in Requests : RowOK(r) /\ ParentOK(r)
    /\ \A h \in inflight : HandlerOK(h)

-----------------------------------------------------------------------------
(* Why nobody is left without a word unless something failed: this needs no   *)
(* lock to be held.                                                          *)

\* Steps of a pass on a closed job that lead to the notice.
TellingSteps == {"markFailed", "noteMark", "recordFailure", "noteRecord", "announce"}

HasWord(r) == Shown(r) + posts[r]["notice"] > 0

\* The closed jobs nobody was told about and no pass is about to announce.
Forsaken ==
  {r \in dispatched : ~HasWord(r) /\ \A w \in Workers : Working(w, r) => task[w].at \notin TellingSteps}

\* A delivery that returned has shown how the question ended.
ReturnsTold ==
  \A w \in Workers : task[w].at \in {"record", "close", "noteClose"} => Shown(task[w].req) > 0

SilencingFaults == faults["announce"] + faults["db"] + faults["crash"]

\* Each forsaken job has a fault of its own.
Charged ==
  /\ ReturnsTold
  /\ IsFiniteSet(Forsaken)
  /\ Cardinality(Forsaken) <= SilencingFaults
=============================================================================
