---------------------------- MODULE TaskLifecycle ----------------------------
(***************************************************************************)
(* The life of Tasks, Dispatches and supervised workers in the             *)
(* orchestration database (src/src/main/runtime/orchestration/db).         *)
(*                                                                         *)
(* A Task is a unit of work in a dependency graph; a Dispatch is one       *)
(* attempt at it, a row of dispatch_contexts; a supervised attempt also    *)
(* has a row of worker_dispatches.  Every operation of the program on      *)
(* these tables is one SQLite write transaction, so every action below is  *)
(* one transaction: what interleaves is the transactions of the CLI and    *)
(* RPC handlers, of the start and stop handlers that span several awaits,  *)
(* of process exits, of the federation relay and of restarts.              *)
(*                                                                         *)
(* Left out, because no guard below reads it: capabilities and launch      *)
(* tokens, mailboxes, heartbeats, terminal custody, mutation receipts,     *)
(* nesting depth, result and failure texts (but for the one failure text   *)
(* the code compares, see stalled).                                        *)
(***************************************************************************)
EXTENDS Naturals, FiniteSets

CONSTANTS Tasks,         \* task ids
          Handles,       \* terminal handles an attempt can be assigned to
          Gates,         \* decision gate ids
          MaxRows,       \* bound: how many attempts are ever inserted
          BreakFailures, \* DISPATCH_CIRCUIT_BREAK_FAILURES, 3 in the code
          NoTask, NoHandle

ASSUME BoundsAssumption == MaxRows \in Nat /\ BreakFailures \in Nat \ {0}
ASSUME NullsAssumption  == NoTask \notin Tasks /\ NoHandle \notin Handles

\* Attempts in insertion order: the code's "latest" is ORDER BY rowid DESC.
Dispatches == 1 .. MaxRows

Terminal     == {"completed", "failed"}
TaskStatus   == {"pending", "ready", "dispatched", "blocked"} \cup Terminal
ActiveStatus == {"pending", "dispatched"}
Live         == {"starting", "ready", "start_unknown", "stopping", "stop_unknown"}
Settled      == {"failed", "succeeded", "stopped", "abandoned"}
Unproven     == {"start_unknown", "stop_unknown"}
Outcomes     == {"succeeded", "failed"}

\* LEGAL_TRANSITIONS.worker, without the self loops.
WorkerEdges ==
  [starting      |-> {"ready", "start_unknown", "failed", "stopping", "stopped", "abandoned"},
   start_unknown |-> {"ready", "failed", "stopping", "stopped", "abandoned"},
   ready         |-> {"succeeded", "failed", "stopping", "abandoned"},
   stopping      |-> {"stopped", "stop_unknown", "ready", "failed", "abandoned"},
   stop_unknown  |-> {"ready", "failed", "stopped", "abandoned"}]

VARIABLES
  task,      \* tasks.status, "absent" before the row is inserted
  deps,      \* tasks.deps
  rows,      \* number of dispatch_contexts rows
  dTask,     \* dispatch_contexts.task_id
  dStatus,   \* dispatch_contexts.status
  failures,  \* dispatch_contexts.failure_count
  stalled,   \* last_failure = AGENT_PROMPT_STALLED_ERROR
  assignee,  \* dispatch_contexts.assignee_handle
  worker,    \* worker_dispatches.state, "none" for a context-only attempt
  own,       \* worker_dispatches.runtime_epoch is the live runtime's
  fed,       \* a federated_dispatches row exists: the worker runs elsewhere
  asking,    \* attempts with a pending question thread
  gateTask,  \* decision_gates.task_id
  pendingGates \* gates whose status is 'pending'

attempt == <<rows, dTask, fed>>
gates   == <<gateTask, pendingGates>>
vars == <<task, deps, rows, dTask, dStatus, failures, stalled, assignee,
          worker, own, fed, asking, gateTask, pendingGates>>

-----------------------------------------------------------------------------
(* Queries the handlers share.                                             *)

Active(d)    == dStatus[d] \in ActiveStatus
RowsOf(t)    == {d \in Dispatches : dTask[d] = t}
ActiveOf(t)  == {d \in RowsOf(t) : Active(d)}
Latest(d)    == \A e \in RowsOf(dTask[d]) : e <= d
Broken(d)    == failures[d] + 1 >= BreakFailures

\* The "supervised Dispatch is active" query of task-update and gate-create.
Supervised(t) == \E d \in ActiveOf(t) : worker[d] \in Live

\* Mutant: only the claimed attempts are searched, not the starting ones.
BusyIgnoresPending(h, d) ==
  \E e \in Dispatches \ {d} : dStatus[e] = "dispatched" /\ assignee[e] = h

\* findActiveDispatchForAssignee: the terminal already works on an attempt.
Busy(h, d) == \E e \in Dispatches \ {d} : Active(e) /\ assignee[e] = h

\* Mutant: the interrupted attempt is counted among the others.
InterruptedCountsItself(t, d) ==
  [task EXCEPT ![t] = IF @ \in {"dispatched", "blocked"}
                      THEN IF ActiveOf(t) # {} THEN "dispatched" ELSE "blocked"
                      ELSE @]

\* reconcileTaskAfterDispatchInterruption: attempt d of t stops counting.
Interrupted(t, d) ==
  [task EXCEPT ![t] = IF @ \in {"dispatched", "blocked"}
                      THEN IF ActiveOf(t) \ {d} # {} THEN "dispatched" ELSE "blocked"
                      ELSE @]

\* promoteReadyTasks, run on the statuses st in which t has just completed.
Promoted(st, t) ==
  [u \in Tasks |-> IF /\ st[u] = "pending"
                      /\ t \in deps[u]
                      /\ \A v \in deps[u] : st[v] = "completed"
                   THEN "ready" ELSE st[u]]

\* Mutant: a completion path that forgets promoteReadyTasks.
FinishedUnpromoted(t, s) == [task EXCEPT ![t] = s]

\* The task statuses after t takes status s in a path that can complete it.
Finished(t, s) ==
  LET st == [task EXCEPT ![t] = s]
  IN  IF s = "completed" THEN Promoted(st, t) ELSE st

\* settleActiveDispatchesForTask, with settleWorkerForCompletedDispatch.
SettleActive(t, s) ==
  /\ dStatus' = [d \in Dispatches |-> IF d \in ActiveOf(t) THEN s ELSE dStatus[d]]
  /\ worker'  = [d \in Dispatches |-> IF d \in ActiveOf(t) /\ worker[d] \in Live
                                      THEN "abandoned" ELSE worker[d]]
  /\ asking'  = asking \ ActiveOf(t)

\* One inserted attempt of t.
Insert(t, status, count, handle, state, remote) ==
  LET d == rows + 1 IN
  /\ rows < MaxRows
  /\ rows'     = d
  /\ dTask'    = [dTask    EXCEPT ![d] = t]
  /\ dStatus'  = [dStatus  EXCEPT ![d] = status]
  /\ failures' = [failures EXCEPT ![d] = count]
  /\ assignee' = [assignee EXCEPT ![d] = handle]
  /\ worker'   = [worker   EXCEPT ![d] = state]
  /\ own'      = [own      EXCEPT ![d] = state # "none"]
  /\ fed'      = [fed      EXCEPT ![d] = remote]
  /\ UNCHANGED <<stalled, asking, gates>>

-----------------------------------------------------------------------------
(* Tasks.                                                                  *)

\* createTask: ready at once when every dependency has completed.
CreateTask(t) ==
  /\ task[t] = "absent"
  /\ \E D \in SUBSET {u \in Tasks : task[u] # "absent"} :
       /\ deps' = [deps EXCEPT ![t] = D]
       /\ task' = [task EXCEPT ![t] = IF \A u \in D : task[u] = "completed"
                                      THEN "ready" ELSE "pending"]
  /\ UNCHANGED <<attempt, dStatus, failures, stalled, assignee, worker, own,
                 asking, gates>>

\* Mutant: task-update does not ask for active attempts.
UpdateTaskStatusUnchecked(t, s) ==
  /\ task[t] # "absent"
  /\ s \in Terminal \/ (s = "dispatched" /\ task[t] # s) => ~Supervised(t)
  /\ s = "dispatched" => ActiveOf(t) # {}
  /\ task' = Finished(t, s)
  /\ IF s \in Terminal THEN SettleActive(t, s)
                       ELSE UNCHANGED <<dStatus, worker, asking>>
  /\ UNCHANGED <<deps, attempt, failures, stalled, assignee, own, gates>>

\* updateTaskStatus, the whole of task-update and a step of other handlers.
UpdateTaskStatus(t, s) ==
  /\ task[t] # "absent"
  /\ s \in Terminal \/ (s = "dispatched" /\ task[t] # s) => ~Supervised(t)
  /\ s = "dispatched" => ActiveOf(t) # {}
  /\ s \notin Terminal \cup {"dispatched"} => ActiveOf(t) = {}
  /\ task' = Finished(t, s)
  /\ IF s \in Terminal THEN SettleActive(t, s)
                       ELSE UNCHANGED <<dStatus, worker, asking>>
  /\ UNCHANGED <<deps, attempt, failures, stalled, assignee, own, gates>>

\* createGate: a checkpoint on t, opened by its coordinator or its attempt.
CreateGate(t, g) ==
  /\ task[t] # "absent"
  /\ gateTask[g] = NoTask
  /\ ~Supervised(t)
  /\ gateTask' = [gateTask EXCEPT ![g] = t]
  /\ pendingGates' = pendingGates \cup {g}
  /\ SettleActive(t, "completed")
  /\ task' = [task EXCEPT ![t] = "blocked"]
  /\ UNCHANGED <<deps, attempt, failures, stalled, assignee, own>>

\* resolveGate: whatever the gate's status, the task becomes ready.
ResolveGate(g) ==
  /\ gateTask[g] # NoTask
  /\ ActiveOf(gateTask[g]) = {}
  /\ pendingGates' = pendingGates \ {g}
  /\ task' = [task EXCEPT ![gateTask[g]] = "ready"]
  /\ UNCHANGED <<deps, attempt, dStatus, failures, stalled, assignee, worker,
                 own, asking, gateTask>>

\* One gate of reblockTasksWithPendingGates, on each coordinator tick.
Reblock(g) ==
  /\ g \in pendingGates
  /\ task[gateTask[g]] # "blocked"
  /\ ActiveOf(gateTask[g]) = {}
  /\ task' = [task EXCEPT ![gateTask[g]] = "blocked"]
  /\ UNCHANGED <<deps, attempt, dStatus, failures, stalled, assignee, worker,
                 own, asking, gates>>

-----------------------------------------------------------------------------
(* Opening an attempt.                                                     *)

\* Mutant: the failure count starts again with every attempt.
CreateDispatchContextForgetful(t, h) ==
  /\ task[t] = "ready"
  /\ ~Busy(h, 0)
  /\ Insert(t, "dispatched", 0, h, "none", FALSE)
  /\ task' = [task EXCEPT ![t] = "dispatched"]
  /\ UNCHANGED deps

\* createDispatchContext: adopts the agent terminal h, without supervision;
\* the failure count is the largest among the task's attempts.
CreateDispatchContext(t, h) ==
  /\ task[t] = "ready"
  /\ ~Busy(h, 0)
  /\ \E count \in {0} \cup {failures[d] : d \in RowsOf(t)} :
       /\ \A d \in RowsOf(t) : failures[d] <= count
       /\ Insert(t, "dispatched", count, h, "none", FALSE)
  /\ task' = [task EXCEPT ![t] = "dispatched"]
  /\ UNCHANGED deps

\* Mutants: the prior attempt need not be settled, or its task need not be
\* failed or blocked.
RetryableUnsettled(d) ==
  /\ dTask[d] # NoTask
  /\ task[dTask[d]] \in {"failed", "blocked"}

RetryableAnyTask(d) ==
  /\ dTask[d] # NoTask
  /\ Latest(d)
  /\ IF worker[d] = "none" THEN dStatus[d] = "failed"
                           ELSE worker[d] \in {"failed", "stopped", "abandoned"}

\* The precondition of worker-start --retry-of d.
Retryable(d) ==
  /\ dTask[d] # NoTask
  /\ Latest(d)
  /\ IF worker[d] = "none" THEN dStatus[d] = "failed"
                           ELSE worker[d] \in {"failed", "stopped", "abandoned"}
  /\ task[dTask[d]] \in {"failed", "blocked"}

\* createStartingWorkerDispatch on an existing task, first start or retry.
StartWorker(t, remote) ==
  /\ task[t] = "ready" \/ \E d \in RowsOf(t) : Retryable(d)
  /\ Insert(t, "pending", 0, NoHandle, "starting", remote)
  /\ task' = [task EXCEPT ![t] = "dispatched"]
  /\ UNCHANGED deps

\* createStartingWorkerDispatch with --spec: the task is created with it.
StartWorkerOnNewTask(t, remote) ==
  /\ task[t] = "absent"
  /\ \E D \in SUBSET {u \in Tasks : task[u] = "completed"} :
       deps' = [deps EXCEPT ![t] = D]
  /\ Insert(t, "pending", 0, NoHandle, "starting", remote)
  /\ task' = [task EXCEPT ![t] = "dispatched"]

-----------------------------------------------------------------------------
(* The start handler: it runs in the runtime that owns the row, over       *)
(* several awaits, and ends in one of the last three actions.              *)

Starting(d) == worker[d] = "starting"

\* prepareStartingWorkerAuthority: the created or reused terminal h is the
\* attempt's from here on.
AttachAuthority(d, h) ==
  /\ Starting(d) /\ own[d] /\ ~fed[d]
  /\ dStatus[d] = "pending"
  /\ ~Busy(h, d)
  /\ assignee' = [assignee EXCEPT ![d] = h]
  /\ UNCHANGED <<task, deps, attempt, dStatus, failures, stalled, worker, own,
                 asking, gates>>

\* markWorkerDispatchReady: the prompt was accepted.
MarkReady(d) ==
  /\ Starting(d) /\ own[d]
  /\ fed[d] \/ assignee[d] # NoHandle
  /\ dStatus[d] = "pending"
  /\ dStatus' = [dStatus EXCEPT ![d] = "dispatched"]
  /\ worker'  = [worker  EXCEPT ![d] = "ready"]
  /\ UNCHANGED <<task, deps, attempt, failures, stalled, assignee, own, asking,
                 gates>>

\* failWorkerStart: a start known to have failed; prompt is whether it failed
\* for an unobserved prompt, which the worker's own report can still correct.
FailStart(d, prompt) ==
  /\ Starting(d) /\ own[d]
  /\ prompt => fed[d] \/ assignee[d] # NoHandle
  /\ dStatus' = [dStatus EXCEPT ![d] = "failed"]
  /\ worker'  = [worker  EXCEPT ![d] = "failed"]
  /\ stalled' = [stalled EXCEPT ![d] = prompt]
  /\ task' = IF ActiveOf(dTask[d]) \ {d} = {} /\ task[dTask[d]] # "completed"
             THEN [task EXCEPT ![dTask[d]] = "failed"] ELSE task
  /\ asking' = asking \ {d}
  /\ UNCHANGED <<deps, attempt, failures, assignee, own, gates>>

\* markWorkerStartUnknown: by the start handler, or, for a local worker whose
\* runtime has died, by the next worker-show.
MarkStartUnknown(d) ==
  /\ Starting(d)
  /\ own[d] \/ ~fed[d]
  /\ task[dTask[d]] = "dispatched"
  /\ worker' = [worker EXCEPT ![d] = "start_unknown"]
  /\ task'   = [task   EXCEPT ![dTask[d]] = "blocked"]
  /\ UNCHANGED <<deps, attempt, dStatus, failures, stalled, assignee, own,
                 asking, gates>>

-----------------------------------------------------------------------------
(* Stopping, abandoning.                                                   *)

\* isStopStrandedByAnotherRuntime
StopStranded(d) == worker[d] = "stopping" /\ ~own[d]

\* Mutant: the stopping worker's questions stay open.
BeginStopKeepsQuestions(d) ==
  /\ worker[d] \in {"ready", "start_unknown"} \/ StopStranded(d)
  /\ worker' = [worker EXCEPT ![d] = "stopping"]
  /\ own'    = [own    EXCEPT ![d] = TRUE]
  /\ task'   = Interrupted(dTask[d], d)
  /\ UNCHANGED <<deps, attempt, dStatus, failures, stalled, assignee, asking, gates>>

\* Mutant: any stop that has no outcome yet can be issued again.
BeginStopAgain(d) ==
  /\ worker[d] \in {"ready", "start_unknown", "stop_unknown"} \/ StopStranded(d)
  /\ worker' = [worker EXCEPT ![d] = "stopping"]
  /\ own'    = [own    EXCEPT ![d] = TRUE]
  /\ task'   = Interrupted(dTask[d], d)
  /\ asking' = asking \ {d}
  /\ UNCHANGED <<deps, attempt, dStatus, failures, stalled, assignee, gates>>

\* beginWorkerStop on a supervised attempt.
BeginStop(d) ==
  /\ worker[d] \in {"ready", "start_unknown"} \/ StopStranded(d)
  /\ worker' = [worker EXCEPT ![d] = "stopping"]
  /\ own'    = [own    EXCEPT ![d] = TRUE]
  /\ task'   = Interrupted(dTask[d], d)
  /\ asking' = asking \ {d}
  /\ UNCHANGED <<deps, attempt, dStatus, failures, stalled, assignee, gates>>

\* beginWorkerStop and abandonWorkerDispatch on an attempt without a worker.
ReleaseContextOnly(d) ==
  /\ worker[d] = "none" /\ Active(d)
  /\ dStatus' = [dStatus EXCEPT ![d] = "failed"]
  /\ task' = IF ActiveOf(dTask[d]) \ {d} = {} /\ task[dTask[d]] = "dispatched"
             THEN [task EXCEPT ![dTask[d]] = "blocked"] ELSE task
  /\ asking' = asking \ {d}
  /\ UNCHANGED <<deps, attempt, failures, stalled, assignee, worker, own, gates>>

\* The stopped worker's attempt fails and stops counting for its task.
Stopped(d) ==
  /\ worker'  = [worker EXCEPT ![d] = "stopped"]
  /\ dStatus' = IF Active(d) THEN [dStatus EXCEPT ![d] = "failed"] ELSE dStatus
  /\ task'    = Interrupted(dTask[d], d)
  /\ UNCHANGED <<deps, attempt, failures, stalled, assignee, own, asking, gates>>

\* settleWorkerStop: the stop handler, or the exit it caused, saw the local
\* process end.
SettleStop(d) ==
  /\ worker[d] = "stopping" /\ own[d] /\ ~fed[d] /\ assignee[d] # NoHandle
  /\ Stopped(d)

\* reconcileFederatedWorkerStop: the worker server says the worker stopped.
ReconcileFederatedStop(d) ==
  /\ fed[d] /\ worker[d] \in {"stopping", "stop_unknown"}
  /\ Stopped(d)

\* resumeFederatedWorkerForTerminalRelay: the remote worker had reported
\* before the stop reached it; wait for its report to be relayed.
Resume(d) ==
  /\ fed[d] /\ own[d] /\ worker[d] = "stopping"
  /\ worker' = [worker EXCEPT ![d] = "ready"]
  /\ task' = IF task[dTask[d]] = "blocked"
             THEN [task EXCEPT ![dTask[d]] = "dispatched"] ELSE task
  /\ UNCHANGED <<deps, attempt, dStatus, failures, stalled, assignee, own,
                 asking, gates>>

\* Mutant: a stop whose worker never got a terminal has no outcome.
MarkStopUnknownNeedsTerminal(d) ==
  /\ worker[d] = "stopping"
  /\ own[d] \/ ~fed[d]
  /\ fed[d] \/ assignee[d] # NoHandle
  /\ worker' = [worker EXCEPT ![d] = "stop_unknown"]
  /\ UNCHANGED <<task, deps, attempt, dStatus, failures, stalled, assignee, own,
                 asking, gates>>

\* markWorkerStopUnknown: by the stop handler, or by worker-show when the
\* runtime of a local stop has died.
MarkStopUnknown(d) ==
  /\ worker[d] = "stopping"
  /\ own[d] \/ ~fed[d]
  /\ worker' = [worker EXCEPT ![d] = "stop_unknown"]
  /\ UNCHANGED <<task, deps, attempt, dStatus, failures, stalled, assignee, own,
                 asking, gates>>

\* abandonWorkerDispatch: refused only for this runtime's own stop in flight.
Abandon(d) ==
  /\ worker[d] \in Live
  /\ worker[d] = "stopping" => StopStranded(d)
  /\ worker'  = [worker EXCEPT ![d] = "abandoned"]
  /\ dStatus' = IF Active(d) THEN [dStatus EXCEPT ![d] = "failed"] ELSE dStatus
  /\ task'    = Interrupted(dTask[d], d)
  /\ asking'  = asking \ {d}
  /\ UNCHANGED <<deps, attempt, failures, stalled, assignee, own, gates>>

-----------------------------------------------------------------------------
(* What the runtime and the worker server observe of the worker.           *)

\* failDispatch: counts the failure, and breaks the circuit at the limit.
Fail(d) ==
  /\ Active(d)
  /\ dStatus'  = [dStatus  EXCEPT ![d] = IF Broken(d) THEN "circuit_broken" ELSE "failed"]
  /\ failures' = [failures EXCEPT ![d] = @ + 1]
  /\ task' = IF task[dTask[d]] = "dispatched" /\ ActiveOf(dTask[d]) \ {d} = {}
             THEN [task EXCEPT ![dTask[d]] = IF Broken(d) THEN "failed" ELSE "ready"]
             ELSE task
  /\ asking' = asking \ {d}
  /\ UNCHANGED <<deps, attempt, assignee, own, gates>>

\* Mutant: a supervised attempt can be failed without its worker.
FailDispatchSupervised(d, prompt) ==
  /\ Fail(d)
  /\ stalled' = [stalled EXCEPT ![d] = prompt]
  /\ UNCHANGED worker

\* A prompt injection or an escalation fails an unsupervised attempt.
FailDispatch(d, prompt) ==
  /\ worker[d] = "none"
  /\ Fail(d)
  /\ stalled' = [stalled EXCEPT ![d] = prompt]
  /\ UNCHANGED worker

\* failActiveDispatchOnExit: the assigned terminal's process ended outside a
\* stop of this runtime (inside one, SettleStop).
ProcessExit(d) ==
  /\ assignee[d] # NoHandle
  /\ ~(worker[d] = "stopping" /\ own[d])
  /\ Fail(d)
  /\ worker' = IF worker[d] = "none" THEN worker ELSE [worker EXCEPT ![d] = "failed"]
  /\ UNCHANGED stalled

\* reconcileMissingWorkerTerminal: after a restart, the terminal is gone.
MissingTerminal(d) ==
  LET t == dTask[d]
      stop == worker[d] \in {"stopping", "stop_unknown"} IN
  /\ worker[d] \in Live /\ ~fed[d] /\ assignee[d] # NoHandle
  /\ worker' = [worker EXCEPT ![d] = IF stop THEN "stopped" ELSE "abandoned"]
  /\ IF Active(d)
     THEN /\ failures' = [failures EXCEPT ![d] = @ + 1]
          /\ dStatus'  = [dStatus EXCEPT ![d] = IF Broken(d) THEN "circuit_broken"
                                                ELSE "failed"]
          /\ task' = IF stop THEN task
                     ELSE IF ActiveOf(t) \ {d} = {} /\ task[t] \in {"dispatched", "blocked"}
                     THEN [task EXCEPT ![t] = IF Broken(d) THEN "failed" ELSE "ready"]
                     ELSE Interrupted(t, d)
          /\ asking' = asking \ {d}
     ELSE UNCHANGED <<failures, dStatus, task, asking>>
  /\ UNCHANGED <<deps, attempt, stalled, assignee, own, gates>>

\* Mutant: a late "ready" leaves the task blocked.
FederatedReadyStaysBlocked(d) ==
  /\ worker'  = [worker EXCEPT ![d] = "ready"]
  /\ dStatus' = IF dStatus[d] = "pending"
                THEN [dStatus EXCEPT ![d] = "dispatched"] ELSE dStatus
  /\ UNCHANGED <<task, stalled, asking>>

\* reconcileFederatedWorkerStart: the worker server's word on a start whose
\* outcome is open here.
FederatedReady(d) ==
  /\ worker'  = [worker EXCEPT ![d] = "ready"]
  /\ dStatus' = IF dStatus[d] = "pending"
                THEN [dStatus EXCEPT ![d] = "dispatched"] ELSE dStatus
  /\ task' = IF task[dTask[d]] = "blocked"
             THEN [task EXCEPT ![dTask[d]] = "dispatched"] ELSE task
  /\ UNCHANGED <<stalled, asking>>

FederatedUnknown(d) ==
  /\ worker' = [worker EXCEPT ![d] = "start_unknown"]
  /\ task' = IF task[dTask[d]] = "dispatched"
             THEN [task EXCEPT ![dTask[d]] = "blocked"] ELSE task
  /\ UNCHANGED <<dStatus, stalled, asking>>

FederatedEnded(d, state, prompt) ==
  LET t == dTask[d] IN
  /\ worker'  = [worker EXCEPT ![d] = state]
  /\ dStatus' = IF Active(d) THEN [dStatus EXCEPT ![d] = "failed"] ELSE dStatus
  /\ stalled' = [stalled EXCEPT ![d] = IF Active(d) THEN prompt ELSE @]
  /\ task' = IF ActiveOf(t) \ {d} = {} /\ task[t] \in {"dispatched", "blocked"}
             THEN [task EXCEPT ![t] = "failed"] ELSE Interrupted(t, d)
  /\ asking' = asking \ {d}

ReconcileFederatedStart(d) ==
  /\ fed[d] /\ worker[d] \in {"starting", "start_unknown"}
  /\ \/ FederatedReady(d)
     \/ FederatedUnknown(d)
     \/ \E prompt \in BOOLEAN : FederatedEnded(d, "failed", prompt)
     \/ FederatedEnded(d, "stopped", FALSE)
  /\ UNCHANGED <<deps, attempt, failures, assignee, own, gates>>

-----------------------------------------------------------------------------
(* The worker's own report, and its questions.                             *)

\* Mutant: the outcome is written as it was reported.
ExpectedVerbatim(o) == o

\* The status of an attempt and of its task after outcome o.
Expected(o) == IF o = "succeeded" THEN "completed" ELSE "failed"

\* Mutant: the correction does not look at the task.
CorrectableAnyTask(d) == stalled[d] /\ dStatus[d] = "failed"

\* A start recorded as failed for an unobserved prompt, whose worker was
\* running all along.
Correctable(d) ==
  stalled[d] /\ dStatus[d] = "failed" /\ task[dTask[d]] = "failed"

\* Mutant: a worker whose start or stop is in doubt is not reconnected.
ReportStatusesNoReconnect(d) ==
  \/ Correctable(d) /\ worker[d] = "failed"
  \/ dStatus[d] = "pending" /\ task[dTask[d]] = "dispatched" /\ Starting(d)
  \/ dStatus[d] = "dispatched" /\ task[dTask[d]] = "dispatched"

\* The statuses from which settleWorkerReport settles d.
ReportStatuses(d) ==
  \/ Correctable(d) /\ worker[d] = "failed"
  \/ Active(d) /\ task[dTask[d]] = "blocked" /\ worker[d] \in Unproven
  \/ dStatus[d] = "pending" /\ task[dTask[d]] = "dispatched" /\ Starting(d)
  \/ dStatus[d] = "dispatched" /\ task[dTask[d]] = "dispatched"

\* The worker states from which its row takes an outcome.
WorkerCanReport(d) ==
  \/ worker[d] = "none"  /\ \A e \in ActiveOf(dTask[d]) : e <= d
  \/ worker[d] \in Unproven \cup {"ready", "starting"}
  \/ worker[d] = "failed" /\ Correctable(d)

CanSettleReport(d) ==
  /\ ReportStatuses(d)
  /\ WorkerCanReport(d)
  /\ \A e \in ActiveOf(dTask[d]) \ {d} : worker[e] \notin Live

\* settleWorkerReport, from the worker's process (admitted unless a stop is in
\* flight) or imported from its server.
Report(d, o) ==
  LET t == dTask[d]
      settled == ActiveOf(t) \cup {d} IN
  /\ t # NoTask
  /\ fed[d] \/ (worker[d] # "stopping" /\ assignee[d] # NoHandle)
  /\ CanSettleReport(d)
  /\ task'    = Finished(t, Expected(o))
  /\ dStatus' = [e \in Dispatches |-> IF e \in settled THEN Expected(o) ELSE dStatus[e]]
  /\ worker'  = [e \in Dispatches |->
                   IF e = d /\ worker[d] # "none" THEN o
                   ELSE IF e \in settled /\ worker[e] \in Live THEN "abandoned"
                   ELSE worker[e]]
  /\ stalled' = [stalled EXCEPT ![d] = @ /\ o = "succeeded"]
  /\ asking'  = asking \ settled
  /\ UNCHANGED <<deps, attempt, failures, assignee, own, gates>>

\* createQuestion, admitted from the attempt's own process.
AskQuestion(d) ==
  /\ Active(d) /\ ~fed[d]
  /\ worker[d] # "stopping" /\ assignee[d] # NoHandle
  /\ asking' = asking \cup {d}
  /\ UNCHANGED <<task, deps, attempt, dStatus, failures, stalled, assignee,
                 worker, own, gates>>

\* registerFederatedQuestion: the relay, which polls while the worker is not
\* settled, imports a question the remote worker asked.
ImportFederatedQuestion(d) ==
  /\ fed[d] /\ worker[d] \in Live
  /\ asking' = asking \cup {d}
  /\ UNCHANGED <<task, deps, attempt, dStatus, failures, stalled, assignee,
                 worker, own, gates>>

\* answerQuestion
AnswerQuestion(d) ==
  /\ d \in asking
  /\ asking' = asking \ {d}
  /\ UNCHANGED <<task, deps, attempt, dStatus, failures, stalled, assignee,
                 worker, own, gates>>

-----------------------------------------------------------------------------

\* The application restarts: no row is owned by the new runtime epoch, and
\* opening the database runs reconcileSettledWorkerDispatches.
Restart ==
  /\ own'    = [d \in Dispatches |-> FALSE]
  /\ worker' = [d \in Dispatches |-> IF worker[d] \in Live /\ ~Active(d)
                                     THEN "abandoned" ELSE worker[d]]
  /\ UNCHANGED <<task, deps, attempt, dStatus, failures, stalled, assignee,
                 asking, gates>>

Init ==
  /\ task     = [t \in Tasks |-> "absent"]
  /\ deps     = [t \in Tasks |-> {}]
  /\ rows     = 0
  /\ dTask    = [d \in Dispatches |-> NoTask]
  /\ dStatus  = [d \in Dispatches |-> "absent"]
  /\ failures = [d \in Dispatches |-> 0]
  /\ stalled  = [d \in Dispatches |-> FALSE]
  /\ assignee = [d \in Dispatches |-> NoHandle]
  /\ worker   = [d \in Dispatches |-> "none"]
  /\ own      = [d \in Dispatches |-> FALSE]
  /\ fed      = [d \in Dispatches |-> FALSE]
  /\ asking   = {}
  /\ gateTask = [g \in Gates |-> NoTask]
  /\ pendingGates = {}

TaskNext(t) ==
  \/ CreateTask(t)
  \/ \E s \in TaskStatus : UpdateTaskStatus(t, s)
  \/ \E g \in Gates : CreateGate(t, g)
  \/ \E h \in Handles : CreateDispatchContext(t, h)
  \/ \E remote \in BOOLEAN : StartWorker(t, remote)
  \/ \E remote \in BOOLEAN : StartWorkerOnNewTask(t, remote)

GateNext(g) == ResolveGate(g) \/ Reblock(g)

DispatchNext(d) ==
  \/ \E h \in Handles : AttachAuthority(d, h)
  \/ MarkReady(d)
  \/ \E prompt \in BOOLEAN : FailStart(d, prompt)
  \/ MarkStartUnknown(d)
  \/ BeginStop(d)
  \/ ReleaseContextOnly(d)
  \/ SettleStop(d)
  \/ ReconcileFederatedStop(d)
  \/ Resume(d)
  \/ MarkStopUnknown(d)
  \/ Abandon(d)
  \/ \E prompt \in BOOLEAN : FailDispatch(d, prompt)
  \/ ProcessExit(d)
  \/ MissingTerminal(d)
  \/ ReconcileFederatedStart(d)
  \/ \E o \in Outcomes : Report(d, o)
  \/ AskQuestion(d)
  \/ ImportFederatedQuestion(d)
  \/ AnswerQuestion(d)

Next ==
  \/ \E t \in Tasks : TaskNext(t)
  \/ \E g \in Gates : GateNext(g)
  \/ \E d \in Dispatches : DispatchNext(d)
  \/ Restart

Spec == Init /\ [][Next]_vars

\* A start or stop handler is a promise this runtime drives to the end: its
\* awaits time out, and the transaction that then remains is the one that
\* records an unknown outcome.  Nothing is assumed of the other outcomes, of
\* operators, servers or processes.
Fairness ==
  \A d \in Dispatches : /\ WF_vars(own[d] /\ MarkStartUnknown(d))
                        /\ WF_vars(own[d] /\ MarkStopUnknown(d))

FairSpec == Spec /\ Fairness

-----------------------------------------------------------------------------

\* Type of every column; a row is inserted whole, for a task that exists.
TypeOK ==
  /\ task \in [Tasks -> TaskStatus \cup {"absent"}]
  /\ deps \in [Tasks -> SUBSET Tasks]
  /\ rows \in 0 .. MaxRows
  /\ dTask \in [Dispatches -> Tasks \cup {NoTask}]
  /\ dStatus \in [Dispatches -> ActiveStatus \cup Terminal \cup {"absent", "circuit_broken"}]
  /\ failures \in [Dispatches -> Nat]
  /\ stalled \in [Dispatches -> BOOLEAN]
  /\ assignee \in [Dispatches -> Handles \cup {NoHandle}]
  /\ worker \in [Dispatches -> Live \cup Settled \cup {"none"}]
  /\ own \in [Dispatches -> BOOLEAN]
  /\ fed \in [Dispatches -> BOOLEAN]
  /\ asking \in SUBSET Dispatches
  /\ gateTask \in [Gates -> Tasks \cup {NoTask}]
  /\ pendingGates \in SUBSET Gates
  /\ \A d \in Dispatches :
       IF d <= rows THEN /\ dTask[d] # NoTask /\ dStatus[d] # "absent"
                         /\ task[dTask[d]] # "absent"
       ELSE dTask[d] = NoTask /\ dStatus[d] = "absent" /\ worker[d] = "none"
  /\ \A g \in pendingGates : gateTask[g] # NoTask /\ task[gateTask[g]] # "absent"

\* A Dispatch is one authoritative attempt: whatever raced, at most one
\* attempt of a task is active, and it is the task's latest.
OneActiveAttempt ==
  \A d \in Dispatches : Active(d) => Latest(d)

\* A task and its attempts tell one story: an active attempt has its task
\* dispatched, or blocked; a dispatched task has an active attempt.
TaskAttemptAgreement ==
  /\ \A d \in Dispatches : Active(d) => task[dTask[d]] \in {"dispatched", "blocked"}
  /\ \A t \in Tasks : task[t] = "dispatched" => ActiveOf(t) # {}

\* A supervised attempt is active exactly while its worker is not settled, and
\* a worker's outcome is the outcome of its attempt.
WorkerAgreesWithDispatch ==
  \A d \in Dispatches :
    /\ worker[d] # "none" => (worker[d] \in Live <=> Active(d))
    /\ worker[d] \in {"starting", "start_unknown"} => dStatus[d] = "pending"
    /\ worker[d] = "succeeded" => dStatus[d] = "completed"
    /\ worker[d] \in {"failed", "stopped"} => dStatus[d] \in {"failed", "circuit_broken"}

\* While an attempt is active, its task is blocked exactly when nobody knows
\* whether the worker runs, or a stop of it is under way.
DoubtBlocksTask ==
  \A d \in Dispatches : Active(d) =>
    (task[dTask[d]] = "blocked" <=> worker[d] \in Unproven \cup {"stopping"})

\* No terminal ever works on two active attempts.
ExclusiveAssignee ==
  \A d, e \in Dispatches :
    Active(d) /\ Active(e) /\ assignee[d] # NoHandle /\ assignee[d] = assignee[e] => d = e

\* A worker of this runtime that is not being stopped is always heard: its
\* report settles, from every state a start or a lost stop can leave.
LocalReportIsHeard ==
  \A d \in Dispatches :
    worker[d] \in Live \ {"stopping"} /\ ~fed[d] => CanSettleReport(d)

\* A question of a worker of this runtime is pending only while its attempt is
\* active: the fleet view never asks to answer finished work.
LocalQuestionsAnswerable ==
  \A d \in asking : ~fed[d] => Active(d)

\* The circuit breaker forgets nothing over the unsupervised attempts.
BreakerMonotone ==
  \A e \in Dispatches : worker[e] = "none" /\ dTask[e] # NoTask =>
    \A d \in RowsOf(dTask[e]) : d < e => failures[d] <= failures[e]

-----------------------------------------------------------------------------
(* What a step may never do.                                               *)

\* A settled attempt is settled for good, whatever arrives late.  The one
\* exception is the worker's own report on a start recorded as failed for an
\* unobserved prompt: it gives the attempt and its task another outcome, never a
\* life, and only while the task is failed and nobody is at work on it.  (After a
\* retry that failed as well the code accepts the correction, and so does this.)
SettledIsFinal ==
  [][\A d \in Dispatches :
       dTask[d] # NoTask /\ ~Active(d) =>
         \/ dStatus'[d] = dStatus[d] /\ worker'[d] = worker[d] /\ failures'[d] = failures[d]
         \/ /\ stalled[d] /\ dStatus[d] = "failed"
            /\ task[dTask[d]] = "failed" /\ ActiveOf(dTask[d]) = {}
            /\ dStatus'[d] \in {"completed", "failed"} /\ task'[dTask[d]] = dStatus'[d]
            /\ worker'[d] \notin Live /\ failures'[d] = failures[d]]_vars

\* No handler asks for an edge the lifecycle graph forbids, which would throw
\* and leave its worker where it is.  A success report takes a worker in doubt
\* through ready.
WorkerStepsAreLegal ==
  [][\A d \in Dispatches :
       worker[d] \in Live /\ worker'[d] # worker[d] =>
         \/ worker'[d] \in WorkerEdges[worker[d]]
         \/ worker'[d] = "succeeded" /\ worker[d] \in Unproven \cup {"starting"}]_vars

\* A completed task is reopened by hand or by a gate only: no start, stop,
\* exit, report or restart of any attempt takes its completion away.
CompletedStaysCompleted ==
  [][\A t \in Tasks :
       task[t] = "completed" /\ task'[t] # "completed" =>
         UNCHANGED <<rows, dStatus, worker, own>>]_vars

\* Every dependency of t has completed, and nothing will make t ready.
Forgotten(t) == task[t] = "pending" /\ \A u \in deps[t] : task[u] = "completed"

\* Whichever way a task completes, its dependents are promoted: a task is
\* left pending on completed dependencies only by setting it so by hand.
DependentsPromoted ==
  [][\A t \in Tasks :
       Forgotten(t)' => Forgotten(t) \/ task[t] \notin {"absent", "pending"}]_vars

-----------------------------------------------------------------------------
(* What must happen.                                                       *)

\* A start this runtime accepted gets its outcome recorded, as known or as
\* unknown, however its transactions race with the others'.
StartSettles ==
  \A d \in Dispatches : Starting(d) /\ own[d] ~> ~(Starting(d) /\ own[d])

\* A stop in flight in this runtime, which abandon and a second stop must wait
\* for, ends.
StopSettles ==
  \A d \in Dispatches :
    worker[d] = "stopping" /\ own[d] ~> ~(worker[d] = "stopping" /\ own[d])

-----------------------------------------------------------------------------
(* The abstract specification this one implements.                         *)

NewestOf(S) == CHOOSE n \in S \cup {0} : \A m \in S : m <= n

Claims == INSTANCE TaskClaim WITH
  owner  <- [t \in Tasks |-> NewestOf(ActiveOf(t))],
  newest <- [t \in Tasks |-> NewestOf(RowsOf(t))]

\* Tasks are claimed and released as TaskClaim allows.
ImplementsClaims == Claims!Spec

-----------------------------------------------------------------------------
(* What the documentation says and the code does not do.                   *)

\* "After three consecutive failures for one Task, its dispatch context
\* circuit-breaks": three attempts of a task, all failed by their worker or
\* its start, leave a broken circuit.
ThreeFailuresBreak ==
  \A t \in Tasks :
    Cardinality(RowsOf(t)) >= BreakFailures /\ (\A d \in RowsOf(t) : worker[d] = "failed")
      => \E d \in RowsOf(t) : dStatus[d] = "circuit_broken"

\* "only a stop in flight mutes" a worker's report, "locally and on a
\* connected server".
OnlyStopMutesReport ==
  \A d \in Dispatches : worker[d] \in Live \ {"stopping"} => CanSettleReport(d)

\* "a settled Dispatch can never be answered": no question pends on one.
QuestionsAnswerable ==
  \A d \in asking : Active(d)

=============================================================================
