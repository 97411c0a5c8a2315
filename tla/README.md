# Formal models of the AIOps RCA orchestrator

TLA+ modules for the parts of this repository whose correctness depends on the
order of things: retries, restarts, two processes at one queue, a message that
was posted and not recorded, a loop that must stop, tool calls that cross, lists
that overflow, reactions that come twice. TLC checks them on small
instances; TLAPS proves the central results for every value of the constants.

Paths are relative to the repository root.

## 1. Inventory

```
Slack --POST /slack/events--> ingress --(dispatch queue)--> dispatcher --POST /v1/investigations--> rca-api --> MCP servers
  ^                              |                              |                                   (Zabbix, Wazuh,
  +---- acknowledgement, report, clarification, notice ---------+                                    Elasticsearch)
                                 +------ PostgreSQL (requests, queue, runs, reports, templates, feedback)
```

`ingress` and `rca-api` share nothing but one HTTP call; every other
coordination goes through PostgreSQL rows, and the asker's view is whatever
Slack holds.

### ingress (TypeScript, `ingress/src`)

| component | state | operations | what is hard | what makes it correct |
|---|---|---|---|---|
| request store (`postgres-repository.ts`, `request-status.ts`) | `aiops_requests` (status, parent, anchor), `aiops_dispatch_queue` (attempts, backoff, lock, dispatched), `aiops_reports`, `aiops_agent_runs` | one transaction per exported method | the guards on `failed`, the lock, `COALESCE`, `ON CONFLICT` | a status says what the asker saw and no more; an outcome is never relabelled |
| Slack intake (`app.ts`, `slack.ts`) | handlers in progress | `/slack/events`: dedup, lookup of a pending clarification, save | Slack redelivers; the lookup and the save are two transactions | a reply continues the question that asked; a redelivery changes nothing |
| dispatcher (`dispatcher.ts`, `announce.ts`) | one pass per process | sweep, claim, deliver, close, retry, abandon, announce | crashes between any two writes; closing writes that fail; a lock that lapses | one delivery at a time; every accepted question ends; giving up is said |
| investigation pipeline (`pipeline.ts`) | none of its own between awaits | two reads, acknowledgement, mark, RCA call, audit, post, record | posting and recording are not atomic | nothing recorded before it was posted; nothing posted twice after it was recorded; nothing posted unaudited |
| delivery timing (`config.ts`, `server.ts`, `lockSecondsFor`) | derived durations | start-up arithmetic | the lock must outlast everything a delivery does | lock > RCA timeout + two posts; RCA timeout > collection ceiling |
| template registry (`templates.ts`, `template-sync.ts`, template routes) | `aiops_report_templates` and its history | list, get, save, delete, sync from files at start-up | sync against edits over HTTP, partial sync, a first save racing another | versions only grow, every version is in the history |
| report feedback (`app.ts` reactions) | feedback rows, correction request | add and remove a reaction, ask once for a correction, store a note | reactions race, come late, twice or out of order; insert, then count | a stored verdict says what the message shows; at most one request to explain |
| report formatting (`report-format.ts`) | none | layout of Slack text | nothing that is stateful | - |
| start and shutdown (`server.ts`, `docker-compose.yml`) | server, dispatcher, pool | start order, SIGTERM | a pass cut anywhere | rows left behind are claimed again |
| migrations (`database/migrations`) | schema | replay of numbered files | files run at every start | replay is idempotent |

### rca-api (Python, `rca-api/src/aiops_rca`)

| component | state | operations | what is hard | what makes it correct |
|---|---|---|---|---|
| collector graph (`graph/`) | `InvestigationState`: plan, hypotheses, evidence, counters, stop reason | one node per step; `routing.py` chooses the next | several counters and three loops; limits that are only looked at in some places | the loop ends within its limits, with a package |
| host resolution (`ResolveHostsNode`) | hosts, search turns | search, match, retry | a search that finds nothing or the wrong host | a host is resolved only by a tool's answer |
| tool registry and adapters (`tools/`) | one coroutine per call | judge a call, widen its window, send it, retry it, time it out, classify its answer | a call is judged twice, with contexts found in two ways; a broken connection may or may not have been served | what was allowed is called; a server is asked a bounded number of times; every call ends |
| evidence normalizer (`tools/normalizer.py`) | evidence list | merge, identity, capacity | the same id read again, the list full, answers matched back to their calls | references never dangle; what is lost is admitted; an answer is filed under its own host |
| investigation service (`services/`) | none | analyse, resolve window, collect, write report, put events back | three outcomes from many failures; a writer that leaves events out | status matches content; no event goes unmentioned |
| report checks (`evals/properties.py`) | findings | six checks on every report | they read the same section in different ways | a report that admits nothing leaves a finding |
| model calls, HTTP wrapper, offline evals | - | - | external or stateless | - |

The machine-readable list, with the status of each part, is `components` in
`PROJECT.json`; what is hard to test, at the line where it bites, is `hazards`
there.

## 2. Plan

Ordered by how much depends on it. All five blocks are done.

1. **Delivery**: `RequestStore` (transactions), `Delivery` (intake, dispatcher and
   pipeline over them), `QuestionLifecycle` (the abstract promise, implemented by
   `Delivery`), `DeliveryInvariants`, `DeliveryProofs`, `DeliveryOwnership`,
   `DeliverySilence`.
2. **Collector**: `Collector` (one investigation, node by node),
   `CollectionLoop` (the abstract promise of its loop, implemented by `Collector`
   and by `EvidenceTrail`), `CollectorInvariants`, `CollectorProofs`,
   `CollectionLoopProofs`.
3. **Templates**: `TemplateRegistry` (the transactions over the template tables,
   the routes that edit them, the sync of a start), `TemplateInvariants`,
   `TemplateProofs`.
4. **Evidence**: `ToolRegistry` (what may be asked and what an answer is, without
   state), `ToolCalls` (the calls of a turn), `EvidenceTrail` (scans, turns,
   evidence, judgement and package, over both), `EvidenceInvariants`,
   `EvidenceProofs`.
5. **Report**: `ReportChecks` (the draft, the events put back, the findings),
   `Feedback` (publication, reactions, notes), `ReportLife` (both composed),
   `ReportInvariants`, `ReportProofs`.

`EvidenceTrail` and `Collector` are two views of one graph: `Collector` has every
node, limit and way to end, with lists as lengths; `EvidenceTrail` has what is in
the lists between the scan and the package, and of the limits only those that
decide which calls are made. `MaxToolCalls`, `MaxIterations` and
`MaxRoutingAttempts` are the same in both, and both are shown to implement one
abstract loop over these three, `CollectionLoop`, so that they agree on it.

Bounds follow one pattern: two or three actors, one or two items, limits of two
or three, and each counted failure bounded by a named constant.

## 3. The delivery modules

### What a question goes through

`RequestStore` has one operator for each transaction of
`postgres-repository.ts`; a request and its queue row are inserted together and
are therefore one element of `Requests`, named by the Slack message it came from
(unique by `(channel_id, message_ts)`). Columns become functions and sets:

| variable | column |
|---|---|
| `status`, `parent`, `ackTs` | `aiops_requests.status`, `.parent_request_id`, `.slack_ack_ts` |
| `reported`, `audited` | a row in `aiops_reports`; rows in `aiops_agent_runs` |
| `queue`, `attempts`, `dispatched` | `aiops_dispatch_queue` by `created_at`, `.attempts`, `.dispatched_at` |
| `due`, `locked` | `.next_attempt_at <= now()`; `.locked_until > now()` |

Time is not a number: a backoff ends and a lock lapses as actions
(`BackoffEnds`, `ClaimExpires`, `ClaimLapsesEarly`).

`Delivery` adds the processes. Each `await` of a pass is one step of `task[w]`:

| step (`task[w].at`) | action | code |
|---|---|---|
| `idle` | `Claim` | `claimDispatch` in `runOnce` |
| `readStatus`, `readReport` | `ReadStatus`, `ReadReport` | the two early returns of `runInvestigation` |
| `ack`, `mark` | `Acknowledge`, `MarkAnalyzing` | acknowledgement, then status and anchor |
| `rca`, `audit` | `Investigate`, `RecordRuns` | `POST /v1/investigations`, then the agent runs |
| `post`, `record` | `PostOutcome`, `RecordOutcome` | the message, then the row that says it was sent |
| `close`, `caught` | `Close`, `ScheduleRetry`, `Abandon` | `completeDispatch`, `retryDispatch`, `abandon` |
| `markFailed`, `recordFailure`, `announce` | the steps of `abandon` | each guarded by `runQuietly` |
| `noteClose` ... `noteAnnounce` | `Note` | `recordSystemError` after a failed closing step |

`/slack/events` is two steps, because the pending clarification is read before
and outside the transaction that saves the message: `ReceiveQuestion` puts a
handler with what it read into `inflight`, `SaveQuestion` and `LoseQuestion` take
it out. `posts` is what Slack holds, which no row knows: it is the truth the
stored status is compared with.

### Failures

`FaultKinds` chooses which failures an instance suffers.

| kind | what happens |
|---|---|
| `throw` | a step of a delivery fails without effect |
| `landed` | it takes effect and the caller sees an error all the same: a post that timed out after Slack took it, a commit whose acknowledgement was lost |
| `announce` | the abandonment notice is refused, or posted and not acknowledged |
| `db` | a closing write fails, with or without effect |
| `crash` | the process dies; its pass is gone, its rows stay |
| `lapse` | a lock expires while its delivery still runs |

The first two end a claim, so `MaxAttempts` bounds them. The others are counted
by kind in `faults` and bounded together by `MaxFaults`. The counts are no part
of the program; they let a property say what must have gone wrong before a
promise may be broken, instead of leaving the failure out.

### The abstract specification

`QuestionLifecycle` is what a user could be told: a question is opened, ends
once (answered, asking back, declined or abandoned), and a question that asked
back is continued by the one that answers it. `Delivery` implements it
(`ImplementsLifecycle`) under the mapping `PhaseOf` from stored statuses to
phases, with every retry, crash and note as a stutter.

### Properties

`LocksHeld` says that no lock has lapsed under a running delivery so far.
Properties of exclusive work assume it; the others do not.

| property | statement | assumes `LocksHeld` |
|---|---|---|
| `RecordedMeansShown` | a stored report or clarification is in the channel | no |
| `NothingPublishedUnaudited` | an outcome that was shown has its agent runs stored | no |
| `SilenceNeedsFault` | a closed question whose asker was told nothing costs a crash, a failed closing write or a refused notice, one each | no |
| `OneDeliveryAtATime` | no two processes work on one job | yes |
| `FailedIsFinal` | a failed request is closed and nobody delivers it any more | yes |
| `ReportRowIffCompleted` | report row and status `completed` go together | yes |
| `ContinuationAnswersAsked`, `OneThread` | a continuation continues what was asked, in its parent's thread | yes |
| `SettledIsFinal`, `NoRepeatAfterRecord`, `AnchorIsStable` | no step relabels an outcome, posts one again, or moves the thread | yes |
| `ImplementsLifecycle` | the refinement | no `lapse` in the run |
| `EventuallyClosed`, `EventuallySettled` | the queue drains; without process and database failures every question reaches an outcome | - |

## 4. The collector modules

### What an investigation goes through

`Collector` is `InvestigationService.investigate` and the compiled graph. A
node is atomic: the graph runs one node at a time, and what a node awaits (a
model, one or more tools) touches no state but its own locals. The batch of a
turn is called in parallel, and the results are collected in the order of the
plan, so that what is left of the parallelism is which calls raised.

| `node` | action | code |
|---|---|---|
| `analyze` | `Analyze` | the question analyzer; `unsupported` and `needs_clarification` end here |
| `resolve_hosts` | `ResolveHosts` | the lookups of `_search`, and `no host could be resolved` |
| `establish_phenomenon` | `EstablishPhenomenon` | one scan for each planned host, while the budget lasts |
| `hypothesis_planner` | `PlanHypotheses` | a stop reason only without hypotheses |
| `observation_planner` | `PlanObservations` | passes through when there is a reason to stop; else one iteration |
| `tool_router` | `RouteNothing`, `RouteCalls`, `SendBack`, `GiveUp` | its four returns, each followed by `route_after_tool_router` |
| `tool_executor`, `evidence_normalizer` | `ExecuteTools`, `NormalizeEvidence` | the gathered calls; a turn with no result is fatal |
| `hypothesis_updater`, `stop_guard` | `UpdateHypotheses`, `StopGuard` | the judgement, then the limits in the order of `hard_stop_update` |
| `evidence_package_builder` and on | `BuildPackage`, `WriteReport`, `EvalReport`, `Answer` | the report, and the status made from it |

The state is what the edges and limits read. A list is its length, since the
code looks at emptiness and size only; `questions` distinguishes what the
registry will say of each call (allowed, refused but worth another plan, refused
for good), because that decides between the four returns of the router. `stop`
names the statement that set `stop_reason` rather than its text. Evidence,
facts, unknowns and errors decide nothing and are left out.

Two things belong to the graph runtime. Every node starts by validating the sum
of all updates, so a list past its bound is noticed by the *next* node, which
raises: `FailValidation`. And after `recursion_limit` nodes the run is stopped
with an exception: `RunOutOfSteps`. Here a run gets exactly that many nodes; a
runtime that counts one less has the same properties, since a run that keeps its
iteration limit needs at most 6 + 6 * `max_iterations` of the 8 + 6 *
`max_iterations` nodes. `Raise` is a model call that times out or answers out of
contract; it can happen in every node.

### The abstract specification

`CollectionLoop` is what the graph promises about its loop, with no graph in it.
It has a phase and three counts (turns, refusals in a row, calls) and seven
steps: `Prepare` spends calls before the loop; `Plan` makes a plan and counts a
turn; `Refuse` sends it back, `Accept` takes it and forgets the refusals; `Call`
spends calls; `Judge` goes round while turns and calls are left; `End` can come
anywhere, once. `LimitsKept` says what follows for the limits. `StepsLeft` is a
number that every step lowers (`RunsDown`): four for each plan that may still be
made, one for each call that may still be paid.

`Collector` implements it (`ImplementsLoop`) with `LoopPhase` as the mapping:
the nodes before the planner prepare, the executor calls, the three nodes after
it judge, and once there is a reason to stop the loop is over, though the planner
and the router still pass the reason on. `EvidenceTrail` implements it with the
same mapping, where the calls of a turn, their answers and the normalization of
each answer are stutters. The refinement says more than the limits: that a turn
is only judged within them, that only a refusal adds a plan, and that nothing is
called once the loop has ended.

### Properties

| property | statement |
|---|---|
| `ImplementsLoop` | the refinement: one budget of calls, and no turn beyond the limit but for refused plans |
| `OutOfStepsMeansOverrun` | the recursion limit is only met by a run that passed its iteration limit |
| `EndsExplained` | a package, and a request for better hosts, come with a stop reason |
| `RetryKnowsWhy` | the planner is told of refusals exactly when it is retrying |
| `StopIsFinal` | a reason to stop is never lost again, and no further call is made |

`BudgetKept` (never more calls than `max_tool_calls`) and `IterationsBounded`
(`iteration_count` passes `max_iterations` by at most `MAX_ROUTING_ATTEMPTS`)
follow from the refinement; they are stated and proved on their own.

## 5. The template modules

### What an edit and a start go through

`TemplateRegistry` has the two tables of `006_report_templates.sql`: `version`
and `content` are the live row of each template (0 and `NoContent` where there
is none), `history[t]` its recorded versions. Everything in a template besides
its id is one value of `Contents`, `enabled` included, because `saveTemplate`
compares and writes all of it together.

PostgreSQL runs `saveTemplate` at READ COMMITTED, so the model follows its
statements where another transaction can come between them:

| step (`tx[a].at`) | action | code |
|---|---|---|
| `idle` | `Select` | `SELECT ... FOR UPDATE`; it waits while another holds the row |
| `number` | `Number` | no row was found, so nothing is locked: the next version is read from the history |
| `insert`, `write` | `Write` | upsert of the row, insert into the history, commit; `write` holds the lock since `Select` |
| any | `RollBack`, `StartFails` | a statement that fails, a process that dies |

`Write` is one step: from the upsert on the row is locked and what it says is
invisible, so the commit is where others can notice it. `Remove` is
`deleteTemplate`, a single statement that waits for the row.

`syncTemplates` is `ReadFiles` (every file, before anything is written),
`SaveFile` and `KeepFile` for each file, `ListRows`, `RemoveRow` for each row
that was listed and not declared, and `Listen`. It uses the same transactions
as the routes, as the actor `Starter`; `Editors` are the handlers of PUT and
DELETE, which belong to a process that is already up, the one being replaced for
instance. A start that fails anywhere begins again, with whatever the directory
holds then. The order of files and of rows is left open.

`edited` holds the templates written over HTTP since the start read its files,
`crossed` those where one save was committed while another had found no row
and had chosen its version. Neither is part of the program.

### Properties

| property | statement |
|---|---|
| `LiveIsRecorded` | the live row is the newest version of the history (but for `crossed`) |
| `HistoryIsPermanent` | no recorded version is lost or changed |
| `NewContentNewVersion` | a row changes or comes back only under a version never used (but for `crossed`) |
| `SyncedToFiles` | after a start the registry is what the files declared, but for `edited`; no files at all remove nothing |
| `RemovalNeedsFiles` | a start removes only what the directory left out while it declared something |

## 6. The evidence modules

### What an answer goes through

`ToolRegistry` has no variables: `Registry` is the table of
`tools/registry.py` row by row, `Verdict` is `validate_call`, `Widened` and
`Clashes` are `apply_window_policy`, `Classified` is `classify_result` and
`ItemIds` is `normalize_observation`, which says under which ids an answer
becomes evidence. The arguments of a call are abstracted to which are given,
whether the registry finds them well formed, what their window spans and what
they are about; an answer to its shape, what it says of its own quality, its rows
and what they say at the moment (`reading`). `valid` is whether the evidence
schema accepts the rows, which the code only finds out when it builds them.

`ToolCalls` has the calls of one turn, `flight`, each a coroutine of
`McpAdapter.execute`:

| phase | reached by | code |
|---|---|---|
| `refused`, `clashed` | `Started` | the second `validate_call` raises; the window cannot be subtracted |
| `sent` | `Started`, `Retry` | `call_tool`, one attempt |
| `served` | `Serve` | the server has worked on the request, its answer is on the way |
| `backoff` | `Break` | a transport failure, with attempts left |
| `answered`, `failed` | `Return`, `Break`, `Timeout` | a result, of status `error` if it failed |
| `verbose`, `unrecorded` | `Return`, `Break` | an error text too long for an entry of the unknowns, or for a result: the second one raises out of `execute` |

`served` counts how often a server worked on the call, which no variable of the
program knows. A connection that breaks, or is given up by the timeout, while a
request is `sent` may or may not have delivered it.

`EvidenceTrail` is the graph from the scan to the package. A node is one action
except where it awaits or loops:

| `node` | action | code |
|---|---|---|
| `establish_phenomenon`, `scanning` | `PlanScans`, `SkipScan`, `EndScans`, `StartScan`, the call, `FileScan`, `LoseScan`, `FinishScan` | `EstablishPhenomenonNode`, scan by scan, and the hypotheses planned on them |
| `observation_planner` | `PlanObservations` | a batch within what is left of the budget |
| `tool_router` | `RouteCalls`, `RouteTooLong`, `RouteNothing` | the verdict on each question, in order, with the calls planned before it |
| `tool_executor` | `StartCalls`, the calls, `CollectAnswers`, `LoseAnswers` | `gather`, then the outcomes in the order of the plan |
| `evidence_normalizer` | `NormalizeAnswer` for each answer, `FinishEvidence` | `_plan_for`, the host, `merge_evidence` |
| `hypothesis_updater`, `stop_guard`, `evidence_package_builder` | `UpdateHypotheses`, `StopGuard`, `BuildPackage` | the citations, the limits, the validation of the package |

`evidence` maps an id to its latest reading: the call it came from, its host, and
whether the answer was cut. `facts` and `support` remember which reading of each
id a fact, and the hypothesis judged last, was stated on: that is a history the
program does not keep, as it stores ids alone. `unknowns` keeps the entries the
properties speak of (`notes`) apart from the number of all; `Noted` is what
`bound_what_only_grows` makes of a list that is too long. A step of the model
applies it at once, where the code applies it when the next node starts, which no
node can tell apart. `dropped` is a history variable.

### Properties

| property | statement |
|---|---|
| `AllowedIsCalled` | the adapter does not refuse what the router allowed, unless two questions of the batch share tool and text |
| `ServedBounded` | a server works on one call at most `RetryAttempts` times, and never on one that was stopped before it was sent |
| `EvidenceStands` | nothing a fact or a hypothesis cites ever leaves the evidence; the package's references hold |
| `LossesAdmitted` | evidence turned away, replaced under a judgement, or taken from a cut answer of a turn is in the unknowns, or their overflow notice is |
| `FiledUnderItsHost` | an answer is filed under its own question's host, whichever calls beside it raised (same exception) |
| `ImplementsLoop` | every step is one of the abstract loop or leaves it where it is: batches that are called in parallel stay within the budget, and a call that fails adds no turn |
| `CollectionEnds` | the collection ends even if no server ever answers |

## 7. The report modules

### What a report goes through

`ReportChecks` begins where `EvidenceTrail` ends, with any package:
`WriteReport` is `write_report` (draft, `_validate_report`,
`_reconcile_evidence`) and `EvalReport` is `ReportEvalNode` with the six checks
of `evals/properties.py`. A text is what the checks read in it: whether it is one
of the phrases that deny any limit, which counts it claims, which numbers it
holds, and whether it speaks of an omission. Regular expressions and wording are
left out. `draft` is the report as the writer gave it, which the program does not
keep; the properties compare it with `report`.

`Feedback` is what follows in ingress: `PostReport` and `SaveReport` are the two
steps of `pipeline.ts` between which the message is there and its row is not.
A mark is one user's use of one emoji. `React` changes it on the message;
Slack's event for the n-th change is delivered `Deliveries[mark]` times at most,
at any later time and in any order, and every delivery has its own handler:

| handler | action | code |
|---|---|---|
| `waiting` to `found` or `over` | `FindReport` | `findReportByMessage`; nothing is found before the row is saved |
| `found` to `saved` or `over` | `SaveFeedback` | `INSERT ... ON CONFLICT DO NOTHING`; only a new bad verdict goes on |
| `saved` to `over` | `CountVerdicts` | the count, a query of its own, and the request to explain |
| `found` to `over` | `RemoveFeedback` | `DELETE` |
| any to `over` | `LoseHandler` | a query that fails, a process that stops |

Notes are one bit, since only their presence is read. `clouded` marks what was
disturbed: a mark that changed again before its last change was handled, whose
event came before the row or whose handler was lost, and the `asking` of a
handler whose count was crossed by another change. It is a history variable, and
the properties say exactly what it excuses.

### Properties

| property | statement |
|---|---|
| `EventsMentioned` | a published report mentions every event of its package, unless the template has no limitations or more than `ReconcileLimit` events were left out |
| `SilenceRecorded` | a draft that states no limit where one of three checks wants one leaves a finding, unless events were put back into it |
| `AskedOnce` | nobody is asked twice unless a bad verdict was taken back; somebody is asked where one stands undisturbed |
| `VerdictsMirror` | once its events are handled, a verdict is stored just when its reaction is on the message, redeliveries included |

## 8. Runs

| run | instance | what it shows |
|---|---|---|
| `Delivery_faults` | 1 question, 2 processes, every kind of failure, `MaxAttempts` 2, `MaxFaults` 2, processes symmetric; about 2 million states | the invariants and action properties above under all interleavings of two processes |
| `Delivery_threads` | a question and two replies in its thread, 1 process, 2 handlers in flight, `landed`, `MaxAttempts` 1 | continuations and the refinement |
| `Delivery_live` | 1 question, 2 processes, `throw`, `landed`, `announce`, `db`, `crash`, under `FairSpec` | liveness |
| `Delivery_v_silent` | 1 question, 1 process, `throw` and a crash | a documented promise that does not hold: see below |
| `Delivery_v_retracted` | 1 question, 1 process, `throw` | likewise |
| `Delivery_v_reply` | 3 messages in a thread, no failures | likewise |
| `Collector_limits` | 3 iterations, 5 tool calls, 2 retries of a plan, lists of 2; about 55 000 states | all properties of the collector, for every answer of models and tools |
| `Collector_v_discarded` | the same with a scan plan larger than the list of observations | a documented promise that does not hold: see below |
| `Templates_edits` | 2 templates, 2 contents, 1 editor and the start, 2 versions each; templates and contents symmetric; about 660 000 states | all properties of the registry, with rollbacks and failed starts anywhere |
| `Templates_v_version` | 1 template, 2 editors | a documented promise that does not hold: see below |
| `Evidence_turns` | 2 hosts, up to 2 scans and 2 turns of 2 calls, 2 attempts per call, 4 answers and the tool's own error, evidence of 2, unknowns of 4, 1 fact; about 430 000 states | all properties of the evidence, its liveness included, for every order of answers, failures and timeouts |
| `Report_life` | 2 packages, 2 templates, 6 drafts, 3 marks of which one is praise, one taken back and delivered twice; about 470 000 states | all properties of reports and feedback, with handlers interleaved and lost |

Bounds. `MAX_DISPATCH_ATTEMPTS` is 9 in the code and 2 in the runs: one attempt
that is retried and a last one that is abandoned are the only two cases of the
comparison, and every later retry repeats the first. `MaxFaults` 2 lets a
counted failure hit the recovery from another one; it is also all that bounds the
claims of a job whose deliveries each take their process down, as such a claim
never meets the attempts check (`dispatcher.ts:159`). Two processes are enough for
everything that is about two deliveries of one job; jobs interact only through
parent and child, which `Delivery_threads` covers with three messages: one that
asks, one that answers, and one that races it. `MaxInflight` bounds the handlers
between their read and their write. `attempts` and `posts` need no bound: they
grow only with claims, which attempts and faults bound.

In `Collector_limits` the retries keep their real number, 2, and the iterations
are one more than the retries, so that a refused plan can be met in the first,
a middle and the last iteration and the recursion limit of 26 nodes is really
reached. Five calls let lookups, scans and two batches compete for the budget,
and every list has a bound that the model of that instance can pass
(`HostsFound`, `ScansPlanned` and `NewHypotheses` against the capacities), so
that runs are cut short by validation as well as by limits.

In `Templates_edits` two templates let the sync save one, keep another, and
remove one while it keeps the other; two contents are a change. An editor and
the start are the two actors that cross; `MaxVersion` 2 ends histories with a
version that was replaced or removed and one that came after it. The theorems
hold for any number of templates, editors and versions.

In `Evidence_turns` each question is there for a case: two events of two hosts,
one of them with a window nobody can measure; a question of no host; a search
that may be made, one that may not and shares its text with the first, one that
lacks an argument, and one that is too long. Two parallel calls are the smallest
batch in which one is lost and another is filed; two turns let an answer
supersede or push out what the first turn's judgement rests on; evidence of 2
and unknowns of 4 overflow within them, in either order. Half of the initial
states have spent part of the budget before the scan. Two attempts are the
code's default. The other tools differ from these in their row of the table and
in how their ids are built, which `ItemIds` defines for all of them.

In `Report_life` the drafts are the ways to pass or fail a check: a count the
evidence bears out and one it does not, limitations that are absent, that deny or
that say something, a required section left empty, an id used twice. Two events
and `ReconcileLimit` 1 let an event be put back and another be left over. Two
critical marks and one of praise are what the count can confuse.

Fairness. `FairSpec` asks that a process that can take a step does: the sweep
timer of `server.ts` starts a pass again and again, and every `await` settles,
because each call has a timeout. It also asks that the database clock advances.
A process that may crash is fair between crashes. Users, redeliveries and every
failure are left free. `LiveSpec` of `EvidenceTrail` asks that the event loop
goes on (`NodeStep`) and that the clock of a call runs out (`TimeoutCall`:
`asyncio.wait_for` around all attempts in `base.py`). Servers and connections owe
nothing: a call that is never answered ends by its timeout alone.

### Where the code does not do what it says

* `Delivery_v_silent`: `dispatcher.ts:219-220` calls silence after an
  acknowledgement the failure the queue exists to prevent. A process that dies
  between `completeDispatch` (line 239) and the announcement leaves the job
  closed and the asker untold, and no claim can find it again. In the trace the
  acknowledgement is posted, both attempts fail, and the crash comes after the
  last one is abandoned (`AcknowledgedIsAnswered` asks nothing of a question
  that was never acknowledged).
  `SilenceNeedsFault` is the promise as the code keeps it.
* `Delivery_v_retracted`: `postgres-repository.ts:424-429` refuses `failed` for
  a request whose outcome the asker saw. The guard looks at the stored status,
  and a report that was posted but never recorded leaves it at
  `analyzing_question`: the last attempt's abandonment marks it failed.
* `Delivery_v_reply`: the schema comment (`001_aiops.sql:33-34`) has one thread
  hold any number of clarifications. The lookup compares the parent's
  `message_ts` with the reply's `thread_ts`, which is always the first message,
  so only a clarification that waits on the opener can be answered. In the
  trace the opener is answered by a reply, which continues it and is asked for a
  further clarification; the next reply in the thread finds no parent and starts
  over. The property speaks of continuations alone (`parent[r] # NoRequest`).
* `Collector_v_discarded`: `state.py:25-34` explains why a list at its ceiling
  must not "discard the whole investigation over the last item added", of "the
  two lists that only ever grow". Lists that are replaced, or that grow without
  that guard, outgrow their bounds in the same way: a scan plan may hold 20 scans
  (`model_contracts.py:193`) and their results go into `last_observations`, which
  holds 8, so that scanning a ninth host ends the request with a validation error
  once every scan has been made. Hosts (up to 20 in each of three answers, 20
  held), hypotheses (10 more each turn, 20 held), `routing_rejections` (three
  batches of 8, 20 held) and, where a template sets 19 or 20 iterations,
  `iteration_count` have the same shape.
* `Templates_v_version`: `FOR UPDATE` is there "so two operators saving at once
  cannot both read the same version and produce it twice"
  (`postgres-repository.ts:75-76`). Where there is no live row it locks nothing:
  two first saves, or two after a removal, take the same version from the
  history; the second overwrites the row, and `ON CONFLICT DO NOTHING` keeps the
  first one's content as that version, which a stored report cites. The
  properties above hold apart from this (`crossed`).

Smaller disagreements in the collector that need no run: "Each retry costs an
iteration, so the budget bounds it too" (`deterministic_nodes.py:35-38`) holds
only in part, since retries never pass the stop guard - the iterations go up to
two past the limit, and such a run can meet the recursion limit just before its
report is checked and lose all it collected; the router's reason "no routable
observation question remains" always replaces the one the planner gave one node
earlier, so the trace of an investigation that the planner ended never says why;
and a budget spent by scans alone ends without `limit_reached`, because
only the stop guard sets it.

Smaller disagreements in the delivery: a delivery that kills its process is
claimed again without meeting the attempts check, so the limit of
`dispatcher.ts:79` is exceeded once for each crash; an acknowledgement whose
anchor could not be stored is posted again by the next attempt
(`pipeline.ts:309`), which is why `AnchorIsStable` begins when the anchor is
stored; and the query in `README.md` for requests in progress also lists
`clarified` ones.

Smaller disagreements in the evidence, all of them in the model unless said
otherwise:

* Two questions of a batch with the same tool and text share one context in the
  executor (the last one's) and one plan in the normalizer (the first one's): one
  of them may be refused after it was allowed, and an answer may be filed under
  the other's host (`deterministic_nodes.py:424-440`, `613-630`).
* "One call raising must not take the others down with it"
  (`deterministic_nodes.py:471-472`) holds for calls that raise. A call that
  returns an error of more than 2000 characters ends the turn, since its entry
  does not validate (`LoseAnswers`, and `LoseScan` for a scan); a text of more
  than 10 000 raises out of the adapter after the server was asked, and is not
  counted against the budget (`unrecorded`).
* A question may have 2000 characters and a purpose 1000: a long question that
  is allowed ends the investigation in the router (`RouteTooLong`), where
  `live_nodes.py:271-275` wants one question's failure to be survivable.
* A window with one naive and one aware timestamp raises a `TypeError`, which the
  handler for malformed timestamps (`registry.py:383-387`) does not catch; in a
  scan, where only refusals are caught, it ends the investigation.
* Rows the evidence schema refuses raise out of the normalizer (`valid`).
* The answer of a scan that was cut is no entry of the unknowns: only the
  executor writes one, which is why `LossesAdmitted` speaks of turns there.
* `merge_evidence` compares whole items, `tool_call_id` among them, so a reading
  that says the same again is admitted as differing (`normalizer.py:73`).
  `Superseded` is noted for every id that is read again, as in the code.
* Not in the model: the ids of generic evidence contain the whole answer
  (`normalizer.py:297`), unlike what lines 59-63 say of ids; it is kept as is in
  `GenericId`, so that such evidence is never superseded. Within a batch the
  reading that stays is the last in the order of the plan rather than the last
  observed. The branch of the updater for a turn whose calls all failed
  (`live_nodes.py:574-597`) can drop nothing, as errors yield no evidence.

Smaller disagreements in the report:

* The events that are put back are texts under the limitations, so a report whose
  writer stated nothing passes the checks that want a limitation stated; and
  `unknowns_reach_limitations` passes a report without the section. Both are the
  exceptions of `SilenceRecorded`.
* Nothing is put back without a limitations section in the template, nor past 20
  events: the exceptions of `EventsMentioned`.
* More findings than `report_findings` holds end the investigation
  (`EvalReport`; the model keeps findings as a set, so that a claim two items
  repeat counts once and the list overflows later than in the code), where `routing.py:101-104` wants a wrong finding to cost a line
  someone can dismiss.
* Two first bad verdicts that cross are both counted as two, and nobody is asked;
  one that is taken back and given again is asked for twice; the removal of a
  verdict that is handled before its addition leaves the row for good; a reaction
  on a report whose row is not yet saved is dropped. These are the exceptions of
  `AskedOnce` and `VerdictsMirror`.

## 9. Proofs

`DeliveryProofs`, `DeliveryOwnership`, `DeliverySilence`, `CollectionLoopProofs`,
`CollectorProofs`, `TemplateProofs`, `EvidenceProofs` and `ReportProofs` hold the
theorems; the modules named
`...Invariants` hold the formulas they rest on, apart, so that TLC can check them
too.
The delivery assumes `StoreAssumption` and `DeliveryAssumption`: the null values
are no real values, `ReplyTo` is a function on the messages, and the limits are
numbers. Nothing is assumed about how many questions or processes there are or
which failures happen.

1. `TypeCorrect`: types (`IType` adds that a busy process has a job).
2. `NothingClaimedUntold` and `NothingShownUnaudited` hold whatever happens to
   locks. Neither is inductive alone: a process at `record` will write a status
   in the next step, so the invariant `Honest` says what the process at each step
   has already done - at `record` its message is posted, from `post` on its runs
   are stored.
3. `Owned` is the invariant of exclusive work. `OneDeliveryAtATime` cannot be
   inductive: it depends on a claim finding a lock, which depends on every busy
   process holding one (`HoldsJob`), which depends on nobody else dropping it.
   `KnowsOutcome`, `KnowsAnchor` and `KnowsThread` say that what a process read
   steps ago is still stored; they are what makes `MarkAnalyzing`, which writes
   without looking, harmless. `RowOK` and `ParentOK` relate the rows, `HandlerOK`
   the parent that a handler read. `OwnedStep` has one step for each
   action; everything is conditional on `LocksHeld`, whose loss is final.
4. The invariants `ExclusiveDelivery`, `FailureIsFinal`,
   `ReportRowMeansCompleted`, `ContinuationsAnswer`, `ContinuationsStayInThread`
   follow from `Owned`; the action properties `OutcomesAreFinal`,
   `OutcomesAreNotRepeated`, `AnchorsDoNotMove` from one step taken in `Owned`.
5. `QueueImplementsLifecycle` shows that each step maps to a step of
   `QuestionLifecycle` or to a stutter, where `"lapse"` is not among the failures.
   `StatusStepsOnly` sums up what any step can do to statuses.
6. `DeliverySilence` proves `SilenceNeedsFault` (`SilenceIsCharged`), with any
   locks. A question is only silent when no pass works on its job, which says
   nothing about the steps before, so the invariant counts earlier: `Forsaken` is
   the closed jobs whose asker was told nothing and that no pass is about to
   announce (`TellingSteps`), and `Charged` has at most as many of them as there
   were crashes, failed closing writes and refused notices. A step adds at most
   one question to it, and each step that does counts a failure; every other one
   adds none, for a delivery only returns once its outcome was shown
   (`ReturnsTold`). `NobodyIsForgotten` draws the consequence: where these three
   kinds of failure are not among `FaultKinds`, `NeverSilent` holds for every
   question, acknowledged or not, where `Delivery_v_silent` shows a crash break
   the promise for acknowledged ones.

7. `CollectorProofs` proves all the properties of the collector, for all
   limits, under `CollectorAssumption` (numbers, and at least one call and one
   iteration, as `InvestigationLimits` demands). None is inductive on its own;
   `Steered` is, in five parts. `Prepared` says what each node finds: questions
   within what is left of the budget, calls at the executor, a reason at the
   package. `Budgeted` is the budget, with the batch that is planned counted in.
   `Counted` bounds the iterations, below the limit when a plan is made for the
   first time and by the attempts after that, and ties the refusals to the
   attempts. `Explained` says who can hold a reason to stop and who must.
   `Paced` is the reason why eight and six are enough: it bounds
   `steps` by a constant for the node and six for each iteration, as one round
   of planner, router, executor, normalizer, updater and guard is six nodes, and
   a refused plan takes two of them and costs an iteration as well.
   `SteeredStep` has one step for each action, and one below it for each part
   the action can disturb.
   `GraphImplementsLoop` is the refinement, from `Steered`: `Counted` is what
   makes a plan and a judgement possible in the abstract loop, `Budgeted` what
   pays the calls, `Explained` what makes the planner and the router stutter.
   `DiscardsHaveACause` explains `Collector_v_discarded`: with `Sized`, which
   bounds every list by what may be put into it, an investigation is only
   discarded where one of the named bounds disagrees (`DiscardHasCause` lists them) or
   the judgements have filled up the hypotheses. It is stated as a disjunction, as
   with the bounds of the code several of its cases do happen.

8. `CollectionLoopProofs` proves `LimitsKept` and `RunsDown` of the abstract loop,
   for all limits that are numbers (`Limits`). `LoopInv` adds what a retry has
   paid for: one plan beyond the limit, until the next plan is accepted.
   `CollectorProofs` instantiates that module under the refinement mapping, so
   `GraphRunsDown` is inherited: no run of the graph has more than 4 *
   (`MaxIterations` + `MaxRoutingAttempts`) + `MaxToolCalls` + 5 steps that move the
   loop, whatever is answered. That is the part of termination a prover without
   fairness can give; that steps are taken at all stays with TLC.

9. `TemplateProofs` proves all the properties of the registry, under
   `RegistryAssumption` (the null content is no content, the starter no editor).
   `LiveIsRecorded` is not inductive: it needs that whoever is in `write` still
   has the row it read and has it alone (`LocksKeep`), which is what `FOR UPDATE`
   buys, and that a chosen version is still the next one unless somebody crossed
   it (`VersionsKeep`). `Started` says what a start has done at each phase; it is
   proved on top, since a start writes through the same transactions.
   `TableSteps` sums up which steps change the tables, for the action
   properties.

10. `EvidenceProofs` proves all the safety properties of the evidence, for any
   number of hosts, scans, questions, attempts and answers and for any
   capacities, under `RegistryAssumption`, `CallsAssumption` and
   `EvidenceAssumption` (null values are no real values, proposals are
   questions, `Hosts` and `Rows` are finite, limits are numbers). `IInv` is the
   invariant. `CallOk` says where a call can be with how many requests served: a
   `sent` one has been served less often than it was sent, which is why a break
   after it adds at most one. `PlanInv` carries the router's verdict to the
   executor: with the same calls spent and the same questions, `Routed` still
   holds when the calls start, and `AskedIsOwn` gives an unambiguous slot its own
   context. `CutInv` has a cut answer admitted before it is evidence.
   `NotedKeeps` is the lemma about the unknowns everything about admissions rests
   on: whatever is appended, what was admitted stays admitted, by its entry or by
   the notice (`NoticeKeeps` for a fact that does not fit). `MergeGrows` and `FileAnswerGrows` say that evidence is only added
   or replaced with an entry; together they give `EvidenceStands` and
   `LossesAdmitted`, and, as they hold of the filed item, the action property
   `FiledUnderItsHost`.
   `TrailImplementsLoop` is the refinement, with two more invariants. `TurnInv`
   carries the budget from the planner, which asks no more questions than calls
   are left, to the executor, whose answers are among those questions, and says
   that a plan beyond the limit of turns answers a refusal. `ScanInv` has the
   scans done in order and one under way paid for.
   `EveryCallRunsDown` (`CallsRunDown`) is about the race of an answer, a broken
   connection, a retry and the timeout: each of their steps uses up one of at most
   three for each attempt, and a call that has its result never changes again, so
   no late answer replaces the timeout's.

11. `ReportProofs` proves all the properties of reports and feedback, for any
   packages, templates, drafts, marks and deliveries, under `ReportAssumption`
   and `FeedbackAssumption`. `ReportInv` says what the report is after each
   step: one of `Reconciled(draft)`, with the findings of that text from its
   publication on. For `VerdictsMirror` the invariant is `MarkInv`: of a mark that
   is not clouded only the last event is being handled, and whoever is done with
   it has left the row as the message has the mark. For `AskedOnce`, `OnceInv`
   gives each bad mark at most one handler that counts, as a mark that only
   changes once is new only once, and whoever asked had found itself alone. For
   the other direction `AskInv` says that, as long as nobody disturbed the count,
   somebody asked, or has explained already, or no bad verdict stands, or a handler is
   about to find its verdict alone.

Only model-checked: liveness (`EventuallyClosed`, `EventuallySettled`,
`CollectionEnds`), which rests on fairness and is outside what the prover does.
The invariants and action properties of all passing runs are proved.

## 10. Not modelled

* Texts of messages, summaries and prompts, their layout and the shortening of
  lists to a character budget: string work without state. Where the length of a
  text decides whether an investigation survives, the length is a choice
  (`Worded`, `LongTexts`).
* Slack signatures, channel filters and the list of allowed users.
* What language models and MCP servers answer: a choice within what the code
  accepts, everywhere.
* Which name matches which host (`ResolveHostsNode._search`, `_matching_query`):
  string matching whose outcome is a choice in `Collector` (how many hosts) and a
  constant in `EvidenceTrail` (which). A model of it would restate the matching.
* Durations. A lock lapses and a limit is passed whenever it likes, so no
  property depends on how `config.ts` derives the lock from the timeouts, and
  none says how late a limit is noticed.
* The listing of tools at start-up, the choice of a template and of a window, the
  lines of a clarification: computed once from one input, without interleaving.
* Schema migrations: applied by hand; the tables they make are in the modules.
* The offline harness of the evals.
