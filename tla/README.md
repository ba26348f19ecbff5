# Verification of Orca's orchestration core

Orca runs coding agents in terminals and worktrees. Its *orchestration* layer
lets one agent, the coordinator, split work into Tasks and have other agents,
workers on this machine or on a connected server, carry them out; terminals on
other machines reach it through an SSH *relay*. This directory models the parts
of the two whose correctness rests on interleavings and faults, checks them
with TLC, and proves the safety it checks for instances of every size with
TLAPS. Paths below are relative to the repository, with `O` = `src/main/runtime/orchestration`, `D` = `O/db` and
`R` = `src/main/runtime/rpc/methods/orchestration`.

## 1. Inventory

| component | state | operations | talks to | what makes it correct |
|---|---|---|---|---|
| task graph (`D/tasks`, `D/lifecycle-transition.ts`) | `tasks`: status, deps | create, update, promote dependents | everything below writes `tasks.status` | the status agrees with the attempts; completion promotes |
| dispatch attempts (`D/dispatch-context`, `D/dispatch-row-writer.ts`) | `dispatch_contexts`: status, failure count, assignee | open, fail, report, release | tasks, terminals, circuit breaker | one authoritative attempt per task; settled is final |
| supervised workers (`D/worker-dispatch`) | `worker_dispatches`: state, owning runtime epoch | start, ready, unknown, stop, abandon, recover | attempts, terminals, worker servers | the row agrees with its attempt; nothing stays in flight |
| decision gates (`D/decision-gates`, `O/coordinator-decision-gates.ts`) | `decision_gates` | create, resolve, re-block | tasks, attempts | a pending gate holds its task |
| question threads (`D/questions`) | `question_threads` | ask, answer, close | attempts, mailboxes | pending only while somebody can use the answer |
| federation relay (`D/federation/federation-relay-*`, `O/federation-sync.ts`) | outbox items, import and ack cursors | enqueue, batch, import, acknowledge | settlement on both servers | every item once and in order; both sides settle alike |
| remote attachments (`D/federation/remote-dispatch-attachment-*`) | the worker server's row of a federated attempt | attach, stop, release | relay | agrees with the home's attempt in the end |
| mailboxes, deliveries (`D/messages`, `D/runs`) | messages, deliveries, consumer generation | send, deliver, acknowledge, take over | pointers, questions | each message acknowledged once, by the current consumer |
| mailbox pointers (`O/mailbox-pointer-*`) | flights, pending Enter flags | stage, submit, settle, redrive | terminals | a staged notice is submitted or given up, never twice |
| mutation receipts (`D/mutation-receipts`, `O/mutation-receipt-capacity.ts`) | receipts | begin, complete, prune | every mutating handler | a retried request does not run twice |
| worker terminal resources (`D/worker-terminal`) | owner, release and retention state | retain, release, transfer, take over, archive | workers, terminals | a terminal is closed once, by its owner |
| coordinator loop (`O/coordinator*.ts`) | none of its own | one tick: gates, messages, dispatch, convergence | all of the above | progress; a failing phase does not starve the others |
| RPC handlers (`R`) | in-flight awaits | worker-start, worker-stop, federation control | the database | every await ends in a recorded outcome |
| reset, schema, legacy contract | - | delete, migrate, compatibility | - | - |
| PTY source credit (`src/relay/pty-source-credit-*`, `relay-pty-source-*`, `pty-handler.ts`) | per PTY: queue, delivery record, pending exit; at the client: accepted end | publish, reserve, settle, acknowledge, rotate, restore, seal, cancel | the link's writer and its capacity signals, the reattaching client | each unit once and in order within the window, the exit after the last; credit is conserved and nothing waits for ever |
| agent session operations (`src/shared/agent-session-operation-ledger.ts`) | ledger, leases | begin, finish, fence | structured agents | an operation takes effect once |
| durable push (`cloud/apps/push`) | queued batches, leases | enqueue, lease, complete, retry | push services | one delivery under one lease, in device order |
| fence broker (`cloud/apps/relay-fence-broker`) | a lease object | acquire, take over, release | infrastructure | one holder |
| cloud relay, PTY daemon, automations | sessions, runs | - | - | - |
| renderer, mobile app, git, forges, SSH, browser | - | adapters and user interface | - | - |

The hard part of the orchestration core is not one operation but their
interleaving. Every database operation is one synchronous SQLite transaction,
so a transaction is atomic; the handlers around them are not. `worker-start`
awaits a worktree, a terminal and an agent between opening an attempt and
declaring it ready; `worker-stop` awaits a process's end; the federation relay
delivers a remote server's word late; processes exit when they like; the
application restarts and leaves rows its dead runtime was still driving. Each
later transaction re-reads the rows and must cope with whatever it finds.

The SSH relay has no database and one event loop; what is hard there is that its
calls are re-entrant. A frame's settlement commits, completes a recovery,
reports capacity, which flushes output and publishes an exit, which pumps the
next frame, which may settle at once: each callback is a chain of operations on
the same record, cut off wherever a link closes, and resumed by another link's
client with a checkpoint that may be older or newer than the record.

## 2. Modules

| module | what it is |
|---|---|
| `TaskLifecycle` | tasks, attempts, supervised workers, gates, questions |
| `TaskClaim` | abstract: tasks claimed and released by numbered attempts; implemented by `TaskLifecycle` |
| `FederationRelay` | the two ends of the relay of one federated worker, and the calls between them |
| `OrderedChannel` | abstract: a reliable, ordered, exactly-once channel; implemented by `FederationRelay`, in both directions |
| `Mailbox` | the mailboxes of Runs and of a Dispatch, and the steps of a check |
| `PtySourceCredit` | the output of one terminal under source credit, over links that break and are replaced |
| `MC...` | the finite instances of each, with the `.cfg` files |
| `TaskLifecycleProofs`, `TaskLifecycleStepProofs`, `FederationRelayProofs`, `MailboxProofs`, `PtySourceCreditProofs`, `PtySourceCreditProgress` | the theorems |

The three modules of the orchestration meet at two operations, which each states from its
own side. A relayed report settles an attempt: `Report` in `TaskLifecycle`
happens whenever the attempt's row lets it in, and `FederationRelay` shows when
a relay brings it there, and what the worker's server is told. A Dispatch that
settles closes its mailbox: `Settle` in `Mailbox` is any of the transactions
that end an attempt in `TaskLifecycle`. Nothing else of one is read by another,
so their product would add states and no question. `PtySourceCredit` shares
nothing with them: a terminal's bytes reach the orchestration through the
terminal layer of the application only.

### Tasks, attempts and workers

`TaskLifecycle.tla` models the task graph, attempts, supervised workers, gates,
and the pending-or-not of questions, as one module because no two of these
tables have an operation that leaves the others alone: `settleWorkerReport`
writes three of them in one transaction.

| variable | column |
|---|---|
| `task`, `deps` | `tasks.status`, `tasks.deps` |
| `rows` | the number of rows of `dispatch_contexts`; an attempt is its insertion number, so "latest" (`ORDER BY rowid DESC`) is the largest |
| `dTask`, `dStatus`, `failures`, `assignee` | `dispatch_contexts.task_id`, `status`, `failure_count`, `assignee_handle` |
| `stalled` | whether `last_failure` is `AGENT_PROMPT_STALLED_ERROR`, the one failure text the code compares |
| `worker` | `worker_dispatches.state`, `"none"` for an attempt without a worker row |
| `own` | `worker_dispatches.runtime_epoch` is the running application's; a restart makes it FALSE everywhere |
| `fed` | a `federated_dispatches` row exists: the worker runs on a connected server |
| `asking` | attempts with at least one pending question thread |
| `gateTask`, `pendingGates` | `decision_gates.task_id`, `status = 'pending'` |

Each action is one transaction of the code and carries that code's name:

| actions | code | who runs it |
|---|---|---|
| `CreateTask`, `UpdateTaskStatus` | `createTask`, `updateTaskStatus` with `promoteReadyTasks` and `settleActiveDispatchesForTask` | CLI, coordinator |
| `CreateGate`, `ResolveGate`, `Reblock` | `createGate`, `resolveGate`, one gate of `reblockTasksWithPendingGates` | coordinator, user |
| `CreateDispatchContext` | `createDispatchContext` | coordinator, `orchestration dispatch` |
| `StartWorker`, `StartWorkerOnNewTask` | `createStartingWorkerDispatch` (first start, `--retry-of`, `--spec`), local and federated | `worker-start` |
| `AttachAuthority`, `MarkReady`, `FailStart`, `MarkStartUnknown` | `prepareStartingWorkerAuthority`, `markWorkerDispatchReady`, `failWorkerStart`, `markWorkerStartUnknown` | the start handler between its awaits; `worker-show` for a dead runtime's row |
| `BeginStop`, `SettleStop`, `MarkStopUnknown`, `ReleaseContextOnly`, `Abandon` | `beginWorkerStop`, `settleWorkerStop`, `markWorkerStopUnknown`, `releaseContextOnlyDispatch`, `abandonWorkerDispatch` | the stop handler, the operator |
| `ReconcileFederatedStart`, `ReconcileFederatedStop`, `Resume` | `reconcileFederatedWorkerStart`, `reconcileFederatedWorkerStop`, `resumeFederatedWorkerForTerminalRelay` | the federation handlers, on a server's answer |
| `FailDispatch`, `ProcessExit`, `MissingTerminal` | `failDispatch` from prompt injection and escalation, `failActiveDispatchOnExit`, `reconcileMissingWorkerTerminal` | the coordinator, terminals, recovery |
| `Report` | `settleWorkerReport`, local (after `workerReportRefusal`) or relayed | the worker |
| `AskQuestion`, `ImportFederatedQuestion`, `AnswerQuestion` | `createQuestion`, `registerFederatedQuestion`, `answerQuestion` | the worker, the relay, the coordinator |
| `Restart` | a new runtime epoch, and `reconcileSettledWorkerDispatches` on opening the database | the application |

An error path of the code is an action that is not enabled: the transaction
rolls back and nothing has changed. Where the caller can see the difference (a
handler that must still record an outcome) the liveness properties speak of it.

`TaskClaim.tla` is the abstract specification: tasks are claimed and released by
numbered attempts, and a claim is always newer than any before it.
`TaskLifecycle` implements it under the mapping *owner of t* = its active
attempt, *newest of t* = its latest attempt.

### The federation relay

`FederationRelay.tla` models one started Dispatch of protocol version 3 whose
worker runs on another server.

| variables | code |
|---|---|
| `outbox` | `federation_relay_items` to the home, on the worker's server: kind, a report's outcome, acknowledged or not |
| `att`, `inSeq`, `inbox` | `remote_dispatch_attachments.state`, its import cursor for items from the home, and the items applied |
| `receipts` | `mutation_receipts` of the two calls that change the worker's server |
| `epoch`, `supports` | its runtime id, and whether that build advertises the lifecycle settlement |
| `home`, `moved` | `worker_dispatches.state`; whether the Task has left the status its Dispatch gave it |
| `imported`, `messages`, `ackd`, `fedEpoch`, `outSeq`, `outAcked` | the cursors of `federated_dispatches`, the imported messages, the items for the worker |
| `sync`, `ckpt`, `cap` | the home's memory: the running sync, the acknowledgment checkpoint, the capability cache |
| `net` | requests under way; a *late* one is still served though its caller gave up |
| `refused` | history: a request met a receipt that is pending or has another payload |

| actions | code |
|---|---|
| `SendStatus`, `SendHeartbeat`, `SendReport`, `ReportOverHeartbeat` | `enqueueFederationRelay` and its three ways not to insert |
| `StartSync`, `NextPage`, `Pull`, `ImportPage`, `AckAnswered`, `ImportAnswered` | `O/federation-sync.ts`, cut at its awaits |
| `Serve`, `ServeError`, `ServeReplay`, `ServeRefused` | the handlers of `federationAck` and `federationImport` inside the durable mutation executor |
| `HomeStop`, `RemoteStop`, `RemoteStopEnds`, `HomeStopAnswered`, `HomeStopUnknown` | the stop of a federated worker, on both sides |
| `QueueControl`, `TaskMovesOn`, `RefusalExpires` | items for the worker, `updateTaskStatus` after the settlement, the cache's expiry |
| `CallFails`, `ServerRestart`, `ServerCrash`, `HomeRestart`, `HomeCrashImporting` | a call lost before or after it was served; a process ending between two transactions |

A page is imported item by item, each in its own transaction, and acknowledged
afterwards with the verdicts the home came to; the worker's server settles its
attachment only then. The `OrderedChannel` refinement maps *sent* to the queue
(the message a row may turn out to be, since a report may take over a
heartbeat's row) and *received* to what was imported.

### Mailboxes

`Mailbox.tla` models two Runs, one Dispatch of the first, and the
`orchestration.check` call.

| variable | code |
|---|---|
| `runs` | `runs`: the bound pane and `consumer_generation` |
| `active` | the Dispatch is `pending` or `dispatched` |
| `msgs` | `messages` by sequence: the mailbox, and who acknowledged it (`read` and, for the properties, by whom) |
| `deliveries` | `deliveries`: mailbox, generation, messages, status |
| `calls` | the checks under way and what each remembers across its awaits |
| `held` | the delivery each pane was last given: what it can acknowledge |

| actions | code |
|---|---|
| `Begin`, `AckRun`, `CheckWorker`, `DrainAck`, `DrainRead`, `Read`, `WakeUp` | the steps of `check` for a Run's coordinator and for a Dispatch's assignee, cut at their awaits |
| `Reroute` | the pages in which mail of a settled Dispatch moves to its Run |
| `Timeout`, `Answer`, `LoseAnswer` | the end of a wait; the answer arrives or is lost |
| `Send` | `insertMessage` with its routing of a Dispatch's mail, and the waiters it wakes |
| `CreateRun`, `UseRun` | `run-create` and `run-use`: `bindRunCoordinator` with its fencing and cancelled waits |
| `Settle`, `Restart` | the Dispatch ends; the runtime restarts |

### Terminal output over the SSH relay

`PtySourceCredit.tla` models one PTY on the relay and the application's side of
its output, in absolute offsets of source units (UTF-16 code units).

| variable | code |
|---|---|
| `relay.d` | the `DeliveryRecord` of the ledger (`st`, `recv`, `sent`, `cred`, `bounds`, `pend`, `resAck`, `att`) and the scheduler's record of the same delivery (`activating`, `recEnd`, `completing`, `restore`, `exitSt`); `refused` is history: its last send was refused by a full queue |
| `relay.made`, `taken`, `timer`, `draining` | `pendingOutputByPty` (written, but not yet taken by the source), its flush timer, and a flush that holds the queue in its own hands |
| `relay.exit` | `pendingExitByPty`, and whether the exit has been published |
| `relay.conn`, `open`, `full`, `wire` | the client's link, its producer queue at its limit, and the frames in flight |
| `relay.died`, `faulted` | an exception in a callback nobody catches; a fault of the exit's publication that was caught, and the delivery given up for the exit |
| `client` | the reattach phase, the delivery it follows, the end it has accepted, the ends it may acknowledge, its checkpoint; `bad` is history: a frame was out of place |

| actions | code |
|---|---|
| `PtyOutput`, `Flush`, `PtyExit` | `enqueuePtyOutput`, `flushPendingOutput`, `onExit` of `pty-handler.ts` |
| `SettleData`, `SettleExit`, `SettleComplete`, `SettleResponse` | the settlement callbacks of a data frame, the exit frame, `pty.recoveryComplete` and the attach response |
| `QueueFills`, `QueueDrains`, `RelayCloses`, `Connect` | the link's producer budget and its capacity signal, `closeClient`, the displacement of an older link |
| `AttachOpen`, `AttachRotate`, `AttachRestore`, `AttachExited` | `attach` and `activate`: a new delivery, one continued from a checkpoint, one given up, a PTY that is gone |
| `GraceExpires`, `AbandonRecovery`, `Ack` | the grace timer, the client's cancellation, the acknowledgment |
| `Receive`, `ClientLost` | the client's admission of frames and its checkpoint when the link breaks |

The synchronous calls between these callbacks are operators from states to
states (`Pump`, `CompleteRecovery`, `PublishExit`, `Capacity`,
`CreditAvailable`), composed as the code calls them, so that re-entrancy is the
composition and an action is the whole callback.

### What the models abstract

Of `TaskLifecycle`:

* Capabilities, launch tokens, Dispatch Preambles, heartbeats, nesting depth and
  result texts: no guard that is modelled reads them. The identity checks before a report
  or a question (is this the attempt's own process?) appear as "the attempt
  has an assignee".
* The terminal custody rows written in the same transactions as a worker's
  outcome are not modelled, and neither are the messages written with a gate, a
  question or a report (`Mailbox` has them as `Send`).
* The relay itself: a relayed report or question arrives at any time while the
  attempt's row lets it in. The code polls while the worker is not settled,
  which is `ImportFederatedQuestion`'s guard.
* Mutation receipts: a repeated request is the same action again, enabled or not
  by its own guards, which is stronger than the receipts need.
* The reset of all tables, rows of the legacy contract, and `timeoutGate` and
  `completeDispatch`, which nothing in the program calls.

Of `FederationRelay`: the start, the abandonment and the reset of the Dispatch
(the attachment and the worker are ready from the beginning); protocols before
version 3, whose attachments settle on their own; the quota in bytes (the one in
items is there); a peer that changes its identity; receipts old enough to be
pruned; message bodies, of which only a report's outcome is kept. A sync may
start whenever the Dispatch is eligible, which covers every timing of the relay
timer and of the notifications that trigger it.

Of `Mailbox`: direct mailboxes of terminals, types and typed waits, `--peek` and
history (they read nothing), `--run` (a check of a Run other than the bound
one), legacy contracts, mailboxes of federated attachments, and the notices
written into terminals. A check that fails and one that finds nothing look the
same: the pane is given no delivery.

Of `PtySourceCredit`: clients that only watch and clients without source credit;
transformed (indivisible) output; the pausing of the PTY and the consumer; the
scheduler's turns (it yields to the event loop after some frames); the direct
flush of interactive output; an attach on a link that already has the delivery,
and an attach that waits for a frame in flight (`waitForPendingSend`), which the
model has as an attach after it; the window and retention budgets shared with other PTYs, of
which only the link's producer queue is there, as full or not. A call that
throws inside an acknowledgment or an exit is caught as the code catches it.

## 3. Runs

| run | instance | asks |
|---|---|---|
| `attempts` | 1 task, 1 terminal, 1 gate, 3 attempts | do the tables agree, is a settled attempt final, is every legitimate report heard, through every race of three attempts, and does the whole implement `TaskClaim`? |
| `graph` | 2 tasks, 1 terminal, 2 attempts, no gate, fair | does completion always promote, does a terminal ever serve two attempts, does every accepted start and stop get an outcome? |
| `breaker`, `muted`, `question` | 1 task, 1 to 3 attempts | three statements of the documentation that the code does not keep |
| `relay` | 2 items, queue of 2, pages of 1, 2 faults, 1 late request, stops | do both servers settle alike, and does the home take every item once and in order, whatever is lost, late or repeated? |
| `relay_live` | 2 items, 2 items for the worker, 1 fault, fair | is every report acknowledged and every item for the worker applied in the end? |
| `relay_stuck` | 2 items, 1 fault, fair | a statement of a test that does not hold in general |
| `mailbox` | 2 panes, 2 concurrent checks, batches of 1, 2 messages, 2 bindings, 1 fault, a settlement | is a batch ever in two hands, or acknowledged by the wrong one? |
| `mailbox_live` | 2 panes, 2 concurrent checks, 2 messages, 1 binding, fair | does mail of a reader that keeps checking stay unread? |
| `pty` | 3 chunks of 1, 2 and 1 units, a window and a frame of 2, 3 links, 3 deliveries, the queue full once, fair | does the client get every unit once, in order and in the end, and the exit after them? |
| `pty_surrogate` | 1 chunk with a surrogate pair, 1 link | can the relay's own publication kill it? |

**Bounds.** `MaxRows` is the only bound on the state: it limits how many
attempts are ever opened. Three is the least number at which the circuit
breaker (limit 3) can open and at which an attempt has both an older and a newer
one; two suffice for "this attempt and its retry", the shape of every race
between attempts. One task is enough in `attempts` because no operation reads
another task but promotion, which `graph` has two tasks for, in both
dependency orders; one terminal is enough for a terminal to be wanted by two
attempts, and a second would only make conflicts rarer. The theorems of
section 5 hold without any of these bounds.

Of the relay, two items are the least with an order, a queue of two the least
that can be full with a heartbeat and a report in it, pages of one the least
that make one sync acknowledge twice, and two faults the least for a call that
is lost and whose repetition is lost as well, or that a restart follows. One
late request is a duplicate at any later time. Of the mailboxes, two panes are a
consumer and its successor; two calls are a check that waits and one that
acknowledges; a batch of one message makes "the rest of the mailbox" a case;
two bindings are a takeover and the one that takes it back. The liveness
runs bind once, because a fence that is followed by another is a run of the
safety instance already.

Of the terminal, a window of two is the least that is partly used, a chunk of
two the least that is cut, three retained units the least that are more than a
window (a recovery that does not fit) and less than the output (a refused
chunk); three links allow a rotation of a rotated delivery. A queue that fills
once stays full for any time and drains between any two steps.

Symmetry is not used. Deadlock is checked
in `TaskLifecycle`'s runs: `Restart` is always possible, so what is really
excluded is an evaluation error. The relay, the mailboxes and the terminal
really stop: a worker that has said all it will, acknowledged by the home, two
panes that no longer check, or a PTY whose exit has been told, leave nothing to
do, and that these ends are the good ones is
what the liveness runs show.

**Properties.** Of `attempts`:

* `OneActiveAttempt`, `TaskAttemptAgreement`, `WorkerAgreesWithDispatch`,
  `DoubtBlocksTask`: the four agreements between `tasks`, `dispatch_contexts` and
  `worker_dispatches` that every handler assumes and none checks.
* `LocalReportIsHeard`: whatever timeout a start or stop hit, a local worker's
  own report is accepted unless a stop is in flight.
* `LocalQuestionsAnswerable`: a local question never outlives its attempt.
* `BreakerMonotone`: the failure count carried by unsupervised attempts never
  drops.
* `SettledIsFinal`, `CompletedStaysCompleted`, `WorkerStepsAreLegal`: no late
  answer, exit, report or restart revives an attempt, takes a completion away, or
  runs into the exception of the lifecycle graph. The correction of a start
  recorded as failed only exchanges one outcome for another, while the task is
  failed and nobody is at work on it. It may come after a retry that failed as
  well: `worker-report-settlement.ts:99` looks at the task, not at later attempts.
* `ImplementsClaims`: `TaskClaim` is implemented.

Of `graph`: `ExclusiveAssignee`, `DependentsPromoted`, `StartSettles`,
`StopSettles`.

Of `relay`:

* `ToHomeChannel`: the home takes the worker's items once and in order.
* `OutcomeAgreed`: the attachment settles only as the home settled the Dispatch.
* `AckedWasImported`, `WatermarkSafe`: nothing leaves the queue before the home
  has it, and the home never believes more acknowledged than is.
* `NoRelayGap`: the errors both importers raise on a gap cannot be met.

Of `relay_live`: `ToWorkerChannel`, `ReportsSettle`, `ControlDelivered`. Of
`mailbox`:

* `SoleHolder`, `NotLockedOut`, `NoDoubleHandout`: whoever was taken over holds
  nothing that counts, the successor is never refused its mailbox because of it,
  and no message is worked on twice.
* `AckByOwner`: a message becomes read only by the reader of its mailbox, as
  part of the batch it was given.

Of `mailbox_live`: `RunMailRead`, `DispatchMailRead`. Of `pty`:

* `NothingRejected`: no frame reaches the client out of place, whatever was
  rolled back, rotated or cancelled before it.
* `WithinWindow`, `AckRecognized`: the client never holds more than a window it
  has not credited, and everything it has accepted can be credited.
* `ExitAfterData`: a client that is told of the exit has everything before it,
  unless a fault of the exit's publication gave the delivery up (section 4).
* `OutputArrives`, `RecoveryEnds`, `ExitTold`: output arrives, a recovery ends and an
  exit is told, unless a frame was refused and nothing has pumped since (section
  4).

**Fairness.** Only `MarkStartUnknown` and `MarkStopUnknown` of the runtime that
owns the row are weakly fair: the awaits of the start and stop handlers carry
timeouts, and when they expire the handler's last transaction is the one that
records an unknown outcome. Nothing is assumed of a terminal, a server, an
operator or a successful outcome. A crash ends the obligation (`own` becomes
FALSE), and the row is then open to `BeginStop` and `Abandon`. The property is
not vacuous: the two actions have guards on rows that other transactions write
(`MarkStartUnknown` throws unless the task is still `dispatched`), and the
liveness says that no race ever makes them throw for good. Not covered: a
handler that throws between its awaits, as `R/worker/worker-stop.ts` can when
inspecting the terminal fails; its row stays `stopping` until a restart.

The relay's fairness is that of its timer: `SyncStep` is weakly fair because the
home polls every eligible Dispatch once a second and each await of a sync has a
timeout; `RefusalExpires` because a cached refusal is probed again after 30
seconds; and a request somebody still waits for is served, unless it is one of
the `MaxFaults` lost calls. Nothing is owed by the worker, the supervisor, or a
request nobody waits for. The build of the worker's server is not assumed to
support settlement: the reports' liveness is conditional on its doing so from
some time on.

The mailboxes' fairness is that of their readers: `skill-guides/orchestration.md:117`
and `worker-contract.md:41` ask coordinators and workers to keep checking, so a
pane that is the reader checks again and again, both with and without
acknowledging what it holds (`SF`, since whether it may check comes and goes
with its binding); a call's own steps are weakly fair, its waits time out.

The terminal's fairness is that of the event loop and the transport: timers
fire, a write is settled or its link closed, a full queue drains or its link
closes, a connected client reads its frames and acknowledges all it has
accepted, an orphaned delivery's grace ends. Nothing is assumed of the PTY, of
reconnecting, or of the timeout of a recovery, whose end is what `RecoveryEnds`
says. Weak fairness of the callbacks is written out as "infinitely often
disabled or infinitely often taken", with the guard each of them has.

## 4. Where code and documentation disagree

* **Three failures do not always break the circuit** (`ThreeFailuresBreak`).
  `recovery-and-cleanup.md` promises it after three consecutive failures of a
  Task. Attempts opened by `worker-start` begin at a failure count of 0, and
  a failed start or a `failed` report does not count.
* **A resumed federated worker can be mute** (`OnlyStopMutesReport`). When the
  stop of a worker whose start was unknown meets a report that is already on its
  way, `resumeFederatedWorkerForTerminalRelay` makes the worker `ready` but leaves
  its attempt `pending`, from which `settleWorkerReport` accepts nothing.
* **A federated question can outlive its attempt** (`QuestionsAnswerable`): it
  is imported during a stop, whose settlement does not close questions.
* **A report can stay unacknowledged after its server supports settlement
  again** (`ReportsSettleAfterDowngrade`). The test
  `O/federation-sync.test.ts:123` retains a report over a downgrade and
  settles it afterwards. The acknowledgment's request id is made of the last
  sequence of the page, but what it acknowledges may stop short of a report it
  cannot settle. When that acknowledgment was served and the page is pulled
  again with support, the same id carries another payload and the receipts of
  the worker's server refuse it, then and every time after.
* **A surrogate pair can end the SSH relay** (`RelaySurvives`). A frame is
  shortened by a unit rather than split a pair, so one unit of window can be
  left over; if a pair follows, `sliceForSend` throws. The next frame is
  pumped by the settlement of the one before, which the writer's completion
  callback runs, and there nothing catches: the daemon's `uncaughtException`
  handler kills all its PTYs and exits. `pty-handler.ts:1651` and
  `relay-pty-source-send-scheduler.ts:294` say that this must not happen.

Noted without a run. Of the tables: `worker-start --retry-of` accepts a task that
a pending gate has blocked, where `docs/site/content/docs/cli/orchestration.mdx:29`
says that a gate blocks a task until it is resolved. Of the federation relay: the same refusal follows when the answer of
an acknowledgment is lost and the verdicts recomputed for its repetition differ,
and it also holds back the items for the worker, since a sync ends at the
refused call. A worker server that dies inside a mutation leaves a pending
receipt, and every repetition answers that it may have been accepted (the
intended "operation unknown"). A report that took over the row of a heartbeat
the home had already imported is refused by the home for good (`Wedged`). A
report replayed after the Task moved on is answered `rejected`, though the
home settled by it, so that its attachment stays `ready` (`Moot`). These are
the exceptions the liveness properties name, so the runs also show that there
are no others. Of the mailboxes: mail for a Dispatch whose assignee coordinates
that Dispatch's own Run is accepted, and no check drains it
(`R/messaging/check-run-pending-mail.ts:73`), hence the exception in
`DispatchMailRead`; and mail unread when a Dispatch settles moves to its Run
only by a check that is under way at the time.

Of the terminal: (1) a frame refused by a full producer queue is not sent again
when the queue drains: the capacity listener of
`relay-pty-source-send-scheduler.ts:72` only completes recoveries, and the frame
waits for more output, an acknowledgment or a settlement, with the exit and the
recovery behind it; it is the exception of the three liveness properties.
(2) When the exit is pending, nothing is queued and the pump's frame is refused,
its rollback reports capacity, which publishes the pending exit, which pumps the
same frame: the recursion ends in a stack overflow, which
`relay-pty-source-exit-publication.ts:93` catches, and the exit goes out without
the retained output, although a test is named "publishes exit only after
preceding source data settles" (`relay-pty-source-publication.test.ts:620`). It
is the exception of `ExitAfterData`, with the throw at a surrogate pair where the
same `catch` meets it. (3) When a frame in flight is rolled back by a
lost link and the PTY writes more before the owner returns, the pump overwrites the
attempted end, and a checkpoint at the first one is refused and ends in a
restore, where the test at `relay-pty-source-publication.test.ts:537` has it
recovered. (4) `docs/reference/ssh-reconnect-source-recovery.md` says that a
reconnect goes through `setWrite`, which no caller outside the tests uses
(`dispatcher-client-lifecycle.ts:228`).

Of the comments: the one at `D/worker-dispatch/worker-dispatch-abandon.ts:41`
says a stop always ends in `stopped` or `stop_unknown`, while a resumed one
ends in `ready`; the one at
`src/main/runtime/orca-runtime-subscribe-to-terminal-resize.ts:56` says an exit
sets the task back to `pending`, while it becomes `ready`.

## 5. Proofs

### Tasks, attempts and workers

Every safety property, every action property and the refinement that the runs of
`TaskLifecycle` check are proved with TLAPS for every set of tasks, handles and
gates, every `MaxRows` and every breaker limit. The assumptions are the model's own:
`BoundsAssumption` (the two numbers are naturals, the limit positive) and
`NullsAssumption` (the null values are no task and no handle).

**`TaskLifecycleProofs.tla`: the tables agree.** `CoreInvariant` is
`Spec => []Core`, with `Core` the conjunction of `TypeOK`, `OneActiveAttempt`,
`TaskAttemptAgreement`, `WorkerAgreesWithDispatch` and `DoubtBlocksTask`; the
theorems `TypeCorrect`, `OneActiveAttemptHolds`, `TaskAttemptAgreementHolds`,
`WorkerAgreesWithDispatchHolds` and `DoubtBlocksTaskHolds` are its conjuncts.

None of the four agreements is inductive alone. That a task has one active
attempt depends on a new attempt being opened only for a task that claims none,
which is `TaskAttemptAgreement`; that agreement survives a late `MarkReady` only
because a worker in doubt has blocked its task (`DoubtBlocksTask`); and that
one depends on the worker being live exactly while its attempt is active
(`WorkerAgreesWithDispatch`). Together they are inductive, and no further
strengthening is needed.

The argument is one of frames. An action does one of four things, and for each a
lemma says what it must respect: it changes no status (`QuietStep`), it
moves a task that no active attempt claims (`TaskStep`), it changes one attempt
together with its task so that the three columns still `Agree` (`AttemptStep`), or it
opens an attempt for a free task (`OpenStep`). `OnlyOne` shows that an attempt
that counts is the only one its task has, so that code written for "all
active attempts of the task" touches a single row. Each action then has a
lemma that places it under one of the four.

**`TaskLifecycleStepProofs.tla`: what steps do.** `StepShape` shows that, in a
state where `Core` holds, every step *opens* one attempt, *writes* one attempt
that it may write, or *rests*, and what each shape may touch. From the
three shapes alone follow

* `SettledIsFinalHolds`, `WorkerStepsAreLegalHolds`, `CompletedStaysCompletedHolds`:
  the action properties;
* `BreakerMonotoneHolds` (a count is raised on the latest attempt only),
  `ExclusiveAssigneeHolds`;
* `LocalReportIsHeardHolds`, with the strengthening `ReadyIsDispatched` (a ready
  local worker's attempt is dispatched: what a resumed federated worker lacks, see
  section 4), and `LocalQuestionsAnswerableHolds`, with `QuestionsHeld` (a
  stopping local worker has no question: what an imported one breaks);
* `ClaimsImplemented`, the refinement of `TaskClaim`: opening is `Claim`, settling is
  `Release`, everything else stutters. That the latest attempt of a task exists,
  as a maximum, is carried along as the invariant `LatestExists`, which spares an
  induction over finite sets.

`DependentsPromotedHolds` needs the task side instead: `PlainSteps` shows that only
three operations can complete a task or leave one pending, and
`FinishingForgetsNobody` that completion promotes every task whose last open
dependency it was.

### The relay

**`FederationRelayProofs.tla`** proves the type invariant, the four safety
properties and both refinements of `FederationRelay` for every quota, page
size, number of pages and all bounds, from `RelayAssumption` (the bounds are
naturals, the quota and the two page limits positive, the reports are outcomes). `IInvHolds` is
`Spec => []IInv`; `TypeOKHolds`, `OutcomeAgreedHolds`, `AckedWasImportedHolds`,
`WatermarkSafeHolds` and `NoRelayGapHolds` follow from it in a few lines, and
`ToHomeImplemented` and `ToWorkerImplemented` take each step between two states
where it holds.

The properties speak of the two databases, which change one at a time. What
makes them agree is on the way between: a request, a late request, a receipt, a
page, an answer, the checkpoint. Each was computed from a state that is past, so
`IInv` says what of it still counts.

* `GoodRequest`: an acknowledgment covers imported items only, and each verdict in
  it names a report that the home took in the version that is queued and, if
  it settles, names the outcome of the Dispatch; an import starts at most one
  past the cursor.
* `GoodPage`: a page is an interval of the queue that starts at most one past the
  import cursor, and its reports are the queued ones.
* `GoodAnswer`, of answers and of completed receipts: what they say is
  acknowledged, is. `AckedTo` says the same of watermark and checkpoint.
* The queue itself: acknowledgments start at its head (`QueueOK`), and the home
  took, of each item, one of its two versions (`TakenOK`).

`Grows` is the other half: no step takes back a queued report, an
acknowledgment, a cursor, an imported message or the outcome of the Dispatch.
Every part of `IInv` about something computed earlier survives a step that
grows (`VerdictStays`, `PageStays`, ...), so that the lemma of an action has to
show that it grows and that what it adds is good. The two places where this
takes work are the import of a page, whose new items must be its tail behind
the cursor (`Imported`), and the pull, whose items are the least of a set: that
they are an interval is proved by least counterexample (`LeastNat`, from the
well-foundedness of the naturals), because induction is out of the prover's reach.

### Mailboxes

**`MailboxProofs.tla`** proves every safety and action property of `Mailbox`
for every set of panes and concurrent calls, every batch limit and all bounds,
from `MailboxAssumption`: the coordinator and the assignee are panes, "none" is
no pane, a batch has room for a message. `CoreHolds` is `Spec => []Core`, and
`TypeCorrect`, `SoleHolderHolds`, `NotLockedOutHolds`, `NoDoubleHandoutHolds`
and `AckByOwnerHolds` follow from it.

The properties speak of deliveries and of what panes hold, but what makes them
hold is what a check remembers across its awaits. `Core` therefore has three
parts.

* `DataOK`, the tables agree: a batch that still counts (it is outstanding and
  its generation is the mailbox's) has its unread messages in its own mailbox, a
  mailbox has one such batch at most, and an outstanding batch of a Run carries
  the Run's generation.
* `HeldOK`, the panes: a pane that holds a batch that still counts is its reader.
* Every call is among the `GoodCalls`: if the generation it remembers is still
  the Run's, the Run is bound to its pane (`Entitled`); if the batch it is about
  to give still counts, its pane is the reader; only mail of a Dispatch that is
  over is being moved.

`SoleHolder` alone is not inductive: a batch is made by one step of a call and
given by a later one, and between the two the pane may lose the Run. That the
batch is then dead is a fact about the generation the call remembers, which no
property of panes says. A step must only respect `Harmless`: generations grow,
no batch comes back to life, and the reader of one that counts stays. Lemmas say
so of the four things a step can do to the tables (acknowledge, hand out,
reroute, send) and of a settlement and a binding; each action's lemma then has
to look at the call it advances only.

### Terminal output

**`PtySourceCreditProofs.tla`** proves every safety property of
`PtySourceCredit` for every sequence of chunks, window, frame and retained
limit, and all bounds, from `PtyAssumption`: the chunks are not empty and their
ends increase, and each limit admits a unit. `TypeOK`, `NothingRejected`,
`WithinWindow`, `AckRecognized` and `ExitAfterData` are proved for any set `Wide`
of offsets that may not be cut; what such an offset can do while the exit is being
published, the throw that is caught and retires the delivery, is recorded in
`faulted`. Nothing is proved of `RelaySurvives`, which `pty_surrogate` refutes:
the throw at a surrogate pair is the only fault the model lets escape from a
callback, so where `Wide` is empty it holds by construction, and says nothing of
other exceptions the process may meet. `Inductive` is `Spec => []IInv`.

The properties speak of the client, but what the client makes of a frame depends
on the frames in flight before it. `Reaches` says where a client that follows a
delivery stands after the first *n* frames of the wire, and with it `Good` says:

* each data frame starts where the frames before it reach (`Contiguous`), and a
  completed recovery is reached where its response, or the client, has the fence
  (`Completes`, `Fence`); a response is the only one, and is awaited
  (`Responses`);
* the ledger's own front, the end in flight or else the last committed one, is
  where the whole wire reaches (`Joined`): this is what the next frame continues;
* whatever the client has or will have of the delivery is within a window of
  the credited end and, while the link is up, an end that the ledger knows
  (`Credit`);
* the exit frame comes behind all output for everyone who will hear it
  (`Ending`), and until it is published whoever will hear it is the
  owner of the current delivery (`Audience`).

`ExitAfterData` needs the last two together: an exit frame is safe only because
nobody follows an older delivery. `Credit` is what `WithinWindow` and
`AckRecognized` have in common: neither is inductive, since frames on the wire
will extend what the client has.

`Good` is a relation between a state of the relay and one of the client, not a
state predicate, because a callback is a composition of operators on the relay's
state. Each operator has one lemma, that it keeps `Good` and respects what its
callers rely on (`Step`), and the lemma of a callback composes them as the
callback does (`PumpOK`, `PublishExitOK`, `CapacityOK`, `CommitSendOK`, ...).
Most operators change the record only and are `Quiet`: the front, the
recognized ends and the ownership stay. A frame is appended (`AppendKeeps`) or received
(`ReachesTail`, `HearsTail`) by lemmas on `Reaches`. Between callbacks `Rest` holds
as well: no flush is half done, and an exit whose frame was written is done.

**`PtySourceCreditProgress.tla`** proves `NeverStuck`: while a client is owed
something (the answer to its attachment, the end of its recovery, output, the
exit), an event is due that `FairSpec` does not let wait for ever (a frame on the
wire, the loss of a closed link, a write to settle, a flush, an acknowledgment, the drain of a
full queue, the end of the grace of a delivery without owner), or a frame of the delivery was
refused by a full queue and nothing has pumped it since, the exception that
section 4 shows. It is the safety core of `OutputArrives`, `RecoveryEnds` and
`ExitTold`: these cannot fail because everyone waits on everyone. It does not
say that the events, when they happen, ever come to an end: that part, with
fairness, stays with TLC.

Two hypotheses. `ChunksFit`: each chunk fits the retained limit, as a flush takes at
most 16K units (`PTY_OUTPUT_FLUSH_CHUNK_CHARS`, `pty-handler.ts:395`) and 512K
may be retained (`pty-source-credit-record.ts:22`); a larger chunk would wait
for room that never comes. `Wide` is empty: a fault at a surrogate pair inside an
acknowledgment is swallowed, and the delivery stops with nothing due.

The argument adds to `IInv` two parts. `Sound` is kept by every operator, inside
callbacks too: a sealed delivery has taken all output, a fence is within
reach of the window, a client that attaches has its response in flight, an exit
that was published is on its way to whoever listens, and client and ledger agree
whether a recovery is under way. `Rested` holds between callbacks only, and
says what none of them may leave undone: the delivery pumped as far as window, queue and output
allow, a flush armed for output that is not taken, a pending exit published once
everything is. Each operator has a lemma for the first; the lemma of each callback
ends in the second, which is where a forgotten pump or a forgotten
`publishPendingExit` would show.

**Only model-checked:** liveness (`StartSettles`, `StopSettles`, `ReportsSettle`,
`ControlDelivered`, `RunMailRead`, `DispatchMailRead`, `OutputArrives`,
`RecoveryEnds`, `ExitTold`); the prover handles
neither fairness nor `ENABLED`. `NeverStuck` is what can be proved of the last
three, and no run checks it by itself. The statements of section 4 are refuted by
counterexample.

## 6. Not modelled

In the order in which it would be worth adding:

* *Mailbox pointers*: the two-phase notice in a terminal, whose second phase
  depends on what the terminal shows.
* *Worker terminal resources*: who may close a worker's terminal, written in the
  transactions `TaskLifecycle` has.
* *Durable push* and the *mutation lease* of the relay's operators: leases under
  clocks.
* *Agent session operations*, and mutation receipts as a component of their
  own: begun, completed, pruned. `FederationRelay` has the receipts of the two
  relay calls.
* Of the SSH relay: clients that only watch, pausing, and the budgets PTYs share.
* *The coordinator loop*: a tick is a sequence of `TaskLifecycle` operations, which
  that module allows in every order.

Not planned: reset and migrations (operator actions and data conversions on a
stopped system), the legacy contract (it ends in the settlement modelled here),
the cloud relay (logic in SQL of a hosted service), the renderer, the mobile
app and the adapters over git, forges, SSH and browsers (user interface and
I/O), the PTY daemon.
