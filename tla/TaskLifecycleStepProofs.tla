----------------------- MODULE TaskLifecycleStepProofs -----------------------
(***************************************************************************)
(* What the steps of TaskLifecycle may do, for every value of the          *)
(* constants, given that Core always holds (TaskLifecycleProofs).          *)
(*                                                                         *)
(* Every step opens one attempt, writes one attempt that it may write, or  *)
(* writes none.  StepShape proves this, one action at a time; the          *)
(* remaining safety properties, the action properties and the refinement   *)
(* of TaskClaim then follow from the three shapes alone.                   *)
(***************************************************************************)
EXTENDS TaskLifecycleProofs

\* An edge of the lifecycle graph, or a success that passes through ready.
LegalEdge(from, to) ==
  \/ to = from
  \/ from \in Live => to \in WorkerEdges[from]
  \/ from \in Unproven \cup {"starting"} /\ to = "succeeded"

\* A new latest attempt of t, which has no active one.
Opens(t) ==
  LET n == rows + 1 IN
  /\ rows < MaxRows /\ rows' = n
  /\ ActiveOf(t) = {} /\ task[t] # "completed"
  /\ task'     = [task EXCEPT ![t] = "dispatched"]
  /\ dTask'    = [dTask EXCEPT ![n] = t]
  /\ dStatus'  = [dStatus EXCEPT ![n] = dStatus'[n]] /\ dStatus'[n] \in ActiveStatus
  /\ worker'   = [worker EXCEPT ![n] = worker'[n]] /\ worker'[n] \in {"none", "starting"}
  /\ failures' = [failures EXCEPT ![n] = failures'[n]]
  /\ worker'[n] = "none" => \A d \in RowsOf(t) : failures[d] <= failures'[n]
  /\ assignee' = [assignee EXCEPT ![n] = assignee'[n]]
  /\ assignee'[n] # NoHandle => ~Busy(assignee'[n], 0)
  /\ fed'      = [fed EXCEPT ![n] = fed'[n]]
  /\ UNCHANGED asking

\* Attempt d, which is active or whose failed start its worker corrects, and
\* with it its task and the tasks its completion promotes.
Writes(d) ==
  /\ UNCHANGED <<rows, dTask, fed, assignee>>
  /\ dTask[d] \in Tasks /\ Moves(dTask[d], task'[dTask[d]])
  /\ dStatus'  = [dStatus EXCEPT ![d] = dStatus'[d]]
  /\ worker'   = [worker EXCEPT ![d] = worker'[d]]
  /\ failures' = [failures EXCEPT ![d] = failures'[d]]
  /\ IF Active(d)
     THEN failures[d] <= failures'[d] /\ LegalEdge(worker[d], worker'[d])
     ELSE /\ stalled[d] /\ dStatus[d] = "failed" /\ task[dTask[d]] = "failed"
          /\ dStatus'[d] \notin ActiveStatus /\ task'[dTask[d]] = dStatus'[d]
          /\ failures'[d] = failures[d] /\ worker'[d] \notin Live
  /\ worker'[d] = "none" <=> worker[d] = "none"
  /\ worker'[d] = "ready" /\ ~fed[d] => dStatus'[d] = "dispatched"
  /\ asking' \subseteq asking
  /\ d \in asking' /\ ~fed[d] /\ worker[d] # "stopping" =>
       dStatus'[d] \in ActiveStatus /\ worker'[d] # "stopping"

\* No attempt: a task, a gate, a terminal's claim, a question or a restart.
Rests ==
  /\ UNCHANGED <<rows, dTask, dStatus, worker, failures, fed>>
  /\ \/ UNCHANGED assignee
     \/ \E d \in Dispatches, h \in Handles :
          ~Busy(h, d) /\ assignee' = [assignee EXCEPT ![d] = h]
  /\ UNCHANGED own \/ UNCHANGED task
  /\ \A d \in asking' \ asking : fed[d] \/ (Active(d) /\ worker[d] # "stopping")

Shape == (\E t \in Tasks : Opens(t)) \/ (\E d \in Dispatches : Writes(d)) \/ Rests

-----------------------------------------------------------------------------
(* Steps that open an attempt.                                             *)

\* A row inserted for a task without an active attempt.
LEMMA InsertOpens ==
  ASSUME Core, NEW t \in Tasks, NEW s \in ActiveStatus, NEW n \in Nat,
         NEW h \in Handles \cup {NoHandle}, NEW w \in {"none", "starting"}, NEW r \in BOOLEAN,
         Insert(t, s, n, h, w, r),
         ActiveOf(t) = {}, task[t] # "completed", task' = [task EXCEPT ![t] = "dispatched"],
         w = "none" => \A d \in RowsOf(t) : failures[d] <= n,
         h # NoHandle => ~Busy(h, 0)
  PROVE  Opens(t)
<1>1. rows + 1 \in Dispatches /\ rows < MaxRows
  BY BoundsAssumption DEF Insert, Core, TypeOK, Dispatches
<1>2. /\ dStatus'[rows + 1] = s /\ worker'[rows + 1] = w /\ failures'[rows + 1] = n
      /\ assignee'[rows + 1] = h /\ fed'[rows + 1] = r
  BY <1>1 DEF Insert, Core, TypeOK
<1> QED BY <1>1, <1>2 DEF Opens, Insert

\* A ready task, or one whose latest attempt can be retried, has no active
\* attempt and has not completed.
LEMMA OpenSteps ==
  ASSUME Core, NEW t \in Tasks,
         \/ \E h \in Handles : CreateDispatchContext(t, h)
         \/ \E remote \in BOOLEAN : StartWorker(t, remote) \/ StartWorkerOnNewTask(t, remote)
  PROVE  Opens(t)
<1>1. ASSUME NEW h \in Handles, CreateDispatchContext(t, h) PROVE Opens(t)
  <2>1. task[t] = "ready" /\ ~Busy(h, 0) /\ task' = [task EXCEPT ![t] = "dispatched"]
    BY <1>1 DEF CreateDispatchContext
  <2>2. PICK n \in {0} \cup {failures[d] : d \in RowsOf(t)} :
          /\ \A d \in RowsOf(t) : failures[d] <= n
          /\ Insert(t, "dispatched", n, h, "none", FALSE)
    BY <1>1 DEF CreateDispatchContext
  <2>3. n \in Nat
    BY <2>2 DEF RowsOf, Core, TypeOK
  <2>4. ActiveOf(t) = {}
    BY <2>1, Unclaimed
  <2> QED BY <2>1, <2>2, <2>3, <2>4, InsertOpens DEF ActiveStatus
<1>2. ASSUME NEW remote \in BOOLEAN, StartWorker(t, remote) PROVE Opens(t)
  <2>1. /\ Insert(t, "pending", 0, NoHandle, "starting", remote)
        /\ task' = [task EXCEPT ![t] = "dispatched"]
    BY <1>2 DEF StartWorker
  <2>2. ActiveOf(t) = {} /\ task[t] # "completed"
    <3>1. CASE task[t] = "ready"
      BY <3>1, Unclaimed
    <3>2. ASSUME NEW d \in RowsOf(t), Retryable(d)
          PROVE  ActiveOf(t) = {} /\ task[t] # "completed"
      <4>1. ~Active(d) /\ Latest(d) /\ dTask[d] = t /\ d \in Dispatches
        BY <3>2 DEF Retryable, RowsOf, Core, WorkerAgreesWithDispatch, Active, ActiveStatus, Live
      <4>2. ASSUME NEW e \in ActiveOf(t) PROVE FALSE
        <5>1. e \in RowsOf(t) /\ Active(e) /\ Latest(e)
          BY DEF ActiveOf, RowsOf, Core, OneActiveAttempt
        <5>2. d <= e /\ e <= d
          BY <4>1, <5>1 DEF Latest, RowsOf
        <5> QED BY <4>1, <5>1, <5>2 DEF Dispatches, RowsOf
      <4>3. task[t] \in {"failed", "blocked"}
        BY <3>2, <4>1 DEF Retryable
      <4> QED BY <4>2, <4>3
    <3> QED BY <1>2, <3>1, <3>2 DEF StartWorker
  <2> QED BY <2>1, <2>2, InsertOpens DEF ActiveStatus
<1>3. ASSUME NEW remote \in BOOLEAN, StartWorkerOnNewTask(t, remote) PROVE Opens(t)
  <2>1. /\ Insert(t, "pending", 0, NoHandle, "starting", remote)
        /\ task' = [task EXCEPT ![t] = "dispatched"] /\ task[t] = "absent"
    BY <1>3 DEF StartWorkerOnNewTask
  <2>2. ActiveOf(t) = {}
    BY <2>1, Unclaimed
  <2> QED BY <2>1, <2>2, InsertOpens DEF ActiveStatus
<1> QED BY <1>1, <1>2, <1>3

-----------------------------------------------------------------------------
(* Steps that write an active attempt.                                     *)

\* What a handler of an active attempt has to leave alone, and what it may
\* write, for its step to have the second shape.
LEMMA ActiveWrites ==
  ASSUME Core, NEW d \in Dispatches, Active(d) \/ worker[d] \in Live,
         Touches(d), task'[dTask[d]] \in TaskStatus,
         UNCHANGED <<fed, assignee>>,
         failures' = [failures EXCEPT ![d] = failures'[d]], failures[d] <= failures'[d],
         LegalEdge(worker[d], worker'[d]),
         worker'[d] = "none" <=> worker[d] = "none",
         worker'[d] = "ready" /\ ~fed[d] => dStatus'[d] = "dispatched",
         asking' \subseteq asking,
         d \in asking' /\ ~fed[d] /\ worker[d] # "stopping" =>
           dStatus'[d] \in ActiveStatus /\ worker'[d] # "stopping"
  PROVE  Writes(d)
<1>1. Active(d) /\ dTask[d] \in Tasks
  BY OnlyOne
<1>2. Moves(dTask[d], task'[dTask[d]])
  BY <1>1 DEF Moves, Touches, Core, TypeOK
<1> QED BY <1>1, <1>2 DEF Writes, Touches

\* The starting worker's three outcomes.
LEMMA StartWrites ==
  ASSUME Core, NEW d \in Dispatches,
         MarkReady(d) \/ MarkStartUnknown(d) \/ \E prompt \in BOOLEAN : FailStart(d, prompt)
  PROVE  Writes(d)
<1>1. worker[d] = "starting" /\ dStatus[d] = "pending" /\ task[dTask[d]] = "dispatched"
  BY OnlyOne DEF MarkReady, MarkStartUnknown, FailStart, Starting, Live, Unproven,
                 Core, WorkerAgreesWithDispatch
<1>2. dTask[d] \in Tasks /\ Active(d) /\ failures[d] <= failures[d] /\ worker[d] \in Live
  BY <1>1, OnlyOne DEF Live, Core, TypeOK
<1>3. /\ Touches(d) /\ task'[dTask[d]] \in TaskStatus
      /\ UNCHANGED <<fed, assignee, failures>> /\ asking' \subseteq asking
  BY <1>1, <1>2, Statuses
     DEF MarkReady, MarkStartUnknown, FailStart, Touches, Core, TypeOK, attempt
<1>4. LegalEdge(worker[d], worker'[d])
  BY <1>1 DEF MarkReady, MarkStartUnknown, FailStart, Core, TypeOK, LegalEdge, WorkerEdges
<1>5. /\ worker'[d] = "none" <=> worker[d] = "none"
      /\ worker'[d] = "ready" /\ ~fed[d] => dStatus'[d] = "dispatched"
      /\ d \in asking' => dStatus'[d] \in ActiveStatus /\ worker'[d] # "stopping"
  BY <1>1 DEF MarkReady, MarkStartUnknown, FailStart, Core, TypeOK, ActiveStatus
<1>6. failures' = [failures EXCEPT ![d] = failures'[d]] /\ failures[d] <= failures'[d]
  BY <1>2, <1>3 DEF Core, TypeOK
<1> QED BY <1>2, <1>3, <1>4, <1>5, <1>6, ActiveWrites

\* A stop: asked for, and its four outcomes.
LEMMA StopWrites ==
  ASSUME Core, NEW d \in Dispatches,
         \/ BeginStop(d) \/ SettleStop(d) \/ ReconcileFederatedStop(d)
         \/ Resume(d) \/ MarkStopUnknown(d)
  PROVE  Writes(d)
<1>1. worker[d] \in Live
  BY DEF BeginStop, StopStranded, SettleStop, ReconcileFederatedStop, Resume,
         MarkStopUnknown, Live
<1>2. dTask[d] \in Tasks /\ Active(d) /\ failures[d] <= failures[d]
  BY <1>1, OnlyOne DEF Core, TypeOK
<1>3. /\ Touches(d) /\ task'[dTask[d]] \in TaskStatus
      /\ UNCHANGED <<fed, assignee, failures>> /\ asking' \subseteq asking
  BY <1>1, <1>2, OnlyOne, Statuses
     DEF BeginStop, SettleStop, ReconcileFederatedStop, Stopped, Resume, MarkStopUnknown,
         Touches, Interrupted, Core, TypeOK, attempt
<1>4. LegalEdge(worker[d], worker'[d])
  BY DEF BeginStop, StopStranded, SettleStop, ReconcileFederatedStop, Stopped, Resume,
         MarkStopUnknown, Core, TypeOK, LegalEdge, WorkerEdges
<1>5. /\ worker'[d] = "none" <=> worker[d] = "none"
      /\ worker'[d] = "ready" /\ ~fed[d] => dStatus'[d] = "dispatched"
      /\ d \in asking' /\ ~fed[d] => worker[d] = "stopping"
  BY DEF BeginStop, StopStranded, SettleStop, ReconcileFederatedStop, Stopped, Resume,
         MarkStopUnknown, Core, TypeOK
<1>6. failures' = [failures EXCEPT ![d] = failures'[d]] /\ failures[d] <= failures'[d]
  BY <1>2, <1>3 DEF Core, TypeOK
<1> QED BY <1>1, <1>3, <1>4, <1>5, <1>6, ActiveWrites

\* An attempt given up by an operator, or failed by what the runtime saw.
LEMMA EndWrites ==
  ASSUME Core, NEW d \in Dispatches,
         \/ ReleaseContextOnly(d) \/ Abandon(d) \/ ProcessExit(d) \/ MissingTerminal(d)
         \/ \E prompt \in BOOLEAN : FailDispatch(d, prompt)
  PROVE  Writes(d)
<1>1. Active(d) \/ worker[d] \in Live
  BY DEF ReleaseContextOnly, Abandon, ProcessExit, MissingTerminal, FailDispatch, Fail
<1>2. /\ dTask[d] \in Tasks /\ Active(d) /\ failures[d] \in Nat
      /\ worker[d] = "none" \/ worker[d] \in Live
  BY <1>1, OnlyOne DEF Core, TypeOK, WorkerAgreesWithDispatch
<1>3. /\ Touches(d) /\ task'[dTask[d]] \in TaskStatus
      /\ UNCHANGED <<fed, assignee>> /\ asking' \subseteq asking /\ d \notin asking'
  BY <1>1, <1>2, OnlyOne, Statuses
     DEF ReleaseContextOnly, Abandon, ProcessExit, MissingTerminal, FailDispatch, Fail,
         Touches, Interrupted, Core, TypeOK, attempt
<1>4. /\ failures' = [failures EXCEPT ![d] = failures'[d]]
      /\ failures[d] <= failures'[d]
  BY <1>2 DEF ReleaseContextOnly, Abandon, ProcessExit, MissingTerminal, FailDispatch, Fail,
              Core, TypeOK, attempt
<1>5. /\ worker'[d] = "none" <=> worker[d] = "none"
      /\ worker'[d] # "ready"
      /\ LegalEdge(worker[d], worker'[d])
  BY <1>2 DEF ReleaseContextOnly, Abandon, StopStranded, ProcessExit, MissingTerminal,
              FailDispatch, Fail, Core, TypeOK, LegalEdge, WorkerEdges, Live
<1> QED BY <1>1, <1>3, <1>4, <1>5, ActiveWrites

\* The worker server's word on a start.
LEMMA FederatedStartWrites ==
  ASSUME Core, NEW d \in Dispatches, ReconcileFederatedStart(d)
  PROVE  Writes(d)
<1>1. fed[d] /\ worker[d] \in {"starting", "start_unknown"} /\ worker[d] \in Live
  BY DEF ReconcileFederatedStart, Live
<1>2. dTask[d] \in Tasks /\ Active(d) /\ failures[d] <= failures[d]
  BY <1>1, OnlyOne DEF Core, TypeOK
<1>3. UNCHANGED <<rows, dTask, fed, assignee, failures>>
  BY DEF ReconcileFederatedStart, attempt
<1>4. ActiveOf(dTask[d]) \ {d} = {} /\ task[dTask[d]] \in {"dispatched", "blocked"}
  BY <1>1, OnlyOne
<1>5. CASE FederatedReady(d)
  <2>1. Touches(d) /\ task'[dTask[d]] \in TaskStatus /\ asking' \subseteq asking
    BY <1>2, <1>3, <1>4, <1>5, Statuses DEF FederatedReady, Touches, Core, TypeOK
  <2>2. worker'[d] = "ready" /\ LegalEdge(worker[d], worker'[d])
    BY <1>1, <1>5 DEF FederatedReady, LegalEdge, WorkerEdges, Core, TypeOK
  <2> QED BY <1>1, <1>2, <1>3, <2>1, <2>2, ActiveWrites DEF Core, TypeOK
<1>6. CASE FederatedUnknown(d)
  <2>1. Touches(d) /\ task'[dTask[d]] \in TaskStatus /\ asking' \subseteq asking
    BY <1>2, <1>3, <1>4, <1>6, Statuses DEF FederatedUnknown, Touches, Core, TypeOK
  <2>2. worker'[d] = "start_unknown" /\ LegalEdge(worker[d], worker'[d])
    BY <1>1, <1>6 DEF FederatedUnknown, LegalEdge, WorkerEdges, Core, TypeOK
  <2> QED BY <1>1, <1>2, <1>3, <2>1, <2>2, ActiveWrites DEF Core, TypeOK
<1>7. ASSUME NEW state \in {"failed", "stopped"}, NEW prompt \in BOOLEAN,
             FederatedEnded(d, state, prompt)
      PROVE  Writes(d)
  <2>1. Touches(d) /\ task'[dTask[d]] \in TaskStatus /\ asking' \subseteq asking
    BY <1>2, <1>3, <1>4, <1>7, Statuses DEF FederatedEnded, Touches, Core, TypeOK
  <2>2. worker'[d] = state /\ LegalEdge(worker[d], worker'[d])
    BY <1>1, <1>7 DEF FederatedEnded, LegalEdge, WorkerEdges, Core, TypeOK
  <2> QED BY <1>1, <1>2, <1>3, <2>1, <2>2, ActiveWrites DEF Core, TypeOK
<1> QED BY <1>5, <1>6, <1>7 DEF ReconcileFederatedStart

-----------------------------------------------------------------------------
(* Steps that can complete a task.                                         *)

\* A report writes an active attempt, or corrects a start that had not failed.
LEMMA ReportWrites ==
  ASSUME Core, NEW d \in Dispatches, NEW o \in Outcomes, Report(d, o)
  PROVE  Writes(d)
<1> DEFINE w == IF worker[d] = "none" THEN "none" ELSE o
<1>1. /\ dTask[d] \in Tasks /\ Moves(dTask[d], Expected(o))
      /\ dStatus' = [dStatus EXCEPT ![d] = Expected(o)]
      /\ worker' = [worker EXCEPT ![d] = w]
      /\ asking' = asking \ {d}
  BY ReportSettlesOne
<1>2. /\ UNCHANGED <<rows, dTask, fed, assignee, failures>>
      /\ CanSettleReport(d)
  BY DEF Report, attempt
<1>3. dStatus'[d] = Expected(o) /\ worker'[d] = w /\ task'[dTask[d]] = Expected(o)
  BY <1>1 DEF Core, TypeOK, Moves
<1>4. failures' = [failures EXCEPT ![d] = failures'[d]] /\ failures[d] <= failures'[d]
      /\ failures'[d] = failures[d]
  BY <1>2 DEF Core, TypeOK
<1>5. w # "ready" /\ (w = "none" <=> worker[d] = "none") /\ w \notin Live
  BY DEF Outcomes, Live
<1>6. CASE Active(d)
  <2>1. worker[d] = "none" \/ worker[d] \in Unproven \cup {"ready", "starting"}
    <3>1. worker[d] # "failed"
      BY <1>6 DEF Core, WorkerAgreesWithDispatch, Live
    <3> QED BY <1>2, <3>1 DEF CanSettleReport, WorkerCanReport
  <2>2. LegalEdge(worker[d], w)
    BY <2>1 DEF LegalEdge, WorkerEdges, Unproven, Outcomes
  <2> QED BY <1>1, <1>2, <1>3, <1>4, <1>5, <1>6, <2>2 DEF Writes
<1>7. CASE ~Active(d)
  <2>1. stalled[d] /\ dStatus[d] = "failed" /\ task[dTask[d]] = "failed"
    BY <1>2, <1>7 DEF CanSettleReport, ReportStatuses, Correctable, Active, ActiveStatus
  <2>2. Expected(o) \notin ActiveStatus
    BY DEF Expected, ActiveStatus
  <2> QED BY <1>1, <1>2, <1>3, <1>4, <1>5, <1>7, <2>1, <2>2 DEF Writes
<1> QED BY <1>6, <1>7

\* What task-update and a gate settle along with an unsupervised task.
LEMMA SettleOne ==
  ASSUME Core, NEW t \in Tasks, NEW s \in Terminal, NEW v, ~Supervised(t),
         SettleActive(t, s), Moves(t, v),
         UNCHANGED <<rows, dTask, fed, assignee, failures, own>>
  PROVE  Rests \/ \E d \in Dispatches : Writes(d)
<1>1. CASE ActiveOf(t) = {}
  <2>1. UNCHANGED <<dStatus, worker, asking>>
    BY <1>1 DEF SettleActive, Core, TypeOK
  <2> QED BY <2>1 DEF Rests
<1>2. CASE ActiveOf(t) # {}
  <2>1. PICK d \in ActiveOf(t) : TRUE
    BY <1>2
  <2>2. d \in Dispatches /\ dTask[d] = t /\ Active(d) /\ ActiveOf(t) = {d}
    BY <2>1, OnlyOne DEF ActiveOf, RowsOf
  <2>3. worker[d] = "none"
    BY <2>2 DEF Supervised, Core, WorkerAgreesWithDispatch
  <2>4. dStatus' = [dStatus EXCEPT ![d] = s] /\ asking' = asking \ {d}
    BY <2>2 DEF SettleActive, Core, TypeOK
  <2>5. worker' = [worker EXCEPT ![d] = "none"]
    BY <2>2, <2>3 DEF SettleActive, Core, TypeOK, Live
  <2>6. dStatus'[d] = s /\ worker'[d] = "none" /\ task'[t] = v
    BY <2>2, <2>4, <2>5 DEF Core, TypeOK, Moves
  <2>7. failures' = [failures EXCEPT ![d] = failures'[d]] /\ failures[d] <= failures'[d]
    BY <2>2 DEF Core, TypeOK
  <2>8. LegalEdge(worker[d], worker'[d])
    BY <2>3, <2>6 DEF LegalEdge
  <2> QED BY <2>2, <2>3, <2>4, <2>5, <2>6, <2>7, <2>8 DEF Writes
<1> QED BY <1>1, <1>2

\* task-update settles the task's unsupervised attempt, or writes none.
LEMMA UpdateTaskStatusShape ==
  ASSUME Core, NEW t \in Tasks, NEW s \in TaskStatus, UpdateTaskStatus(t, s)
  PROVE  Rests \/ \E d \in Dispatches : Writes(d)
<1>1. UNCHANGED <<rows, dTask, fed, assignee, failures, own>>
  BY DEF UpdateTaskStatus, attempt
<1>2. CASE s \in Terminal
  <2>1. ~Supervised(t) /\ SettleActive(t, s)
    BY <1>2 DEF UpdateTaskStatus
  <2>2. Moves(t, s)
    BY FinishedMoves DEF UpdateTaskStatus
  <2> QED BY <1>1, <1>2, <2>1, <2>2, SettleOne
<1>3. CASE s \notin Terminal
  BY <1>1, <1>3 DEF UpdateTaskStatus, Rests
<1> QED BY <1>2, <1>3

\* A gate settles the task's unsupervised attempt, or writes none.
LEMMA CreateGateShape ==
  ASSUME Core, NEW t \in Tasks, NEW g \in Gates, CreateGate(t, g)
  PROVE  Rests \/ \E d \in Dispatches : Writes(d)
<1>1. UNCHANGED <<rows, dTask, fed, assignee, failures, own>>
  BY DEF CreateGate, attempt
<1>2. ~Supervised(t) /\ SettleActive(t, "completed") /\ "completed" \in Terminal
  BY DEF CreateGate, Terminal
<1>3. Moves(t, "blocked")
  BY Statuses DEF CreateGate, Moves, Core, TypeOK
<1> QED BY <1>1, <1>2, <1>3, SettleOne

-----------------------------------------------------------------------------
(* Steps that write no attempt, and all steps.                             *)

\* The actions on a task or a gate alone, on an attempt's terminal or its
\* questions, and the restart, which finds every worker row in agreement.
LEMMA RestingSteps ==
  ASSUME Core,
         \/ \E t \in Tasks : CreateTask(t)
         \/ \E g \in Gates : GateNext(g)
         \/ \E d \in Dispatches :
              \/ \E h \in Handles : AttachAuthority(d, h)
              \/ AskQuestion(d) \/ ImportFederatedQuestion(d) \/ AnswerQuestion(d)
         \/ Restart
         \/ UNCHANGED vars
  PROVE  Rests
<1>1. ASSUME NEW t \in Tasks, CreateTask(t) PROVE Rests
  BY <1>1 DEF CreateTask, Rests, attempt
<1>2. ASSUME NEW g \in Gates, GateNext(g) PROVE Rests
  BY <1>2 DEF GateNext, ResolveGate, Reblock, Rests, attempt
<1>3. ASSUME NEW d \in Dispatches, NEW h \in Handles, AttachAuthority(d, h) PROVE Rests
  BY <1>3 DEF AttachAuthority, Rests, attempt
<1>4. ASSUME NEW d \in Dispatches,
             AskQuestion(d) \/ ImportFederatedQuestion(d) \/ AnswerQuestion(d)
      PROVE  Rests
  BY <1>4 DEF AskQuestion, ImportFederatedQuestion, AnswerQuestion, Rests, attempt
<1>5. CASE Restart
  <2>1. worker' = worker
    <3>1. ASSUME NEW d \in Dispatches PROVE ~(worker[d] \in Live /\ ~Active(d))
      BY OnlyOne
    <3> QED BY <1>5, <3>1 DEF Restart, Core, TypeOK
  <2> QED BY <1>5, <2>1 DEF Restart, Rests, attempt
<1>6. CASE UNCHANGED vars
  BY <1>6 DEF vars, Rests
<1> QED BY <1>1, <1>2, <1>3, <1>4, <1>5, <1>6

\* Every step opens one attempt, writes one, or writes none.
LEMMA StepShape ==
  ASSUME Core, [Next]_vars
  PROVE  Shape
<1>1. ASSUME NEW t \in Tasks, TaskNext(t) PROVE Shape
  BY <1>1, OpenSteps, UpdateTaskStatusShape, CreateGateShape, RestingSteps DEF TaskNext, Shape
<1>2. ASSUME NEW g \in Gates, GateNext(g) PROVE Shape
  BY <1>2, RestingSteps DEF Shape
<1>3. ASSUME NEW d \in Dispatches, DispatchNext(d) PROVE Shape
  BY <1>3, StartWrites, StopWrites, EndWrites, FederatedStartWrites, ReportWrites, RestingSteps
     DEF DispatchNext, Shape
<1>4. CASE Restart \/ UNCHANGED vars
  BY <1>4, RestingSteps DEF Shape
<1> QED BY <1>1, <1>2, <1>3, <1>4 DEF Next

-----------------------------------------------------------------------------
(* What a step may never do.                                               *)

\* Whatever arrives late at a settled attempt leaves its status, its worker
\* and its failure count alone; only the worker's own report on a start
\* recorded as failed is let in, to another outcome, while the task is failed
\* and no attempt of it is active.
THEOREM SettledIsFinalHolds == Spec => SettledIsFinal
<1> DEFINE Kept(d) ==
      dTask[d] # NoTask /\ ~Active(d) =>
        \/ dStatus'[d] = dStatus[d] /\ worker'[d] = worker[d] /\ failures'[d] = failures[d]
        \/ /\ stalled[d] /\ dStatus[d] = "failed"
           /\ task[dTask[d]] = "failed" /\ ActiveOf(dTask[d]) = {}
           /\ dStatus'[d] \in {"completed", "failed"} /\ task'[dTask[d]] = dStatus'[d]
           /\ worker'[d] \notin Live /\ failures'[d] = failures[d]
<1>1. ASSUME Core, Core', [Next]_vars, NEW d \in Dispatches PROVE Kept(d)
  <2>1. ASSUME NEW t \in Tasks, Opens(t), dTask[d] # NoTask PROVE Kept(d)
    <3>1. d # rows + 1
      BY <1>1, <2>1 DEF Core, TypeOK, Dispatches
    <3> QED BY <1>1, <2>1, <3>1 DEF Opens, Core, TypeOK
  <2>2. ASSUME NEW e \in Dispatches, Writes(e) PROVE Kept(d)
    <3>1. CASE e # d \/ Active(d)
      BY <1>1, <2>2, <3>1 DEF Writes, Core, TypeOK
    <3>2. CASE e = d /\ ~Active(d)
      <4>1. /\ stalled[d] /\ dStatus[d] = "failed" /\ task[dTask[d]] = "failed"
            /\ dStatus'[d] \notin ActiveStatus /\ task'[dTask[d]] = dStatus'[d]
            /\ failures'[d] = failures[d] /\ worker'[d] \notin Live
            /\ dTask[d] \in Tasks /\ rows' = rows
        BY <2>2, <3>2 DEF Writes
      <4>2. ActiveOf(dTask[d]) = {}
        BY <1>1, <4>1 DEF Core, TaskAttemptAgreement, ActiveOf, RowsOf
      <4>3. dStatus'[d] \in {"completed", "failed"}
        <5>1. TypeOK /\ TypeOK'
          BY <1>1 DEF Core
        <5>2. d <= rows
          BY <4>1, <5>1 DEF TypeOK
        <5>3. dStatus'[d] # "absent"
          BY <4>1, <5>1, <5>2 DEF TypeOK
        <5>4. task'[dTask[d]] # "circuit_broken"
          BY <4>1, <5>1 DEF TypeOK, TaskStatus, Terminal
        <5>5. dStatus'[d] \in ActiveStatus \cup Terminal \cup {"absent", "circuit_broken"}
          BY <5>1 DEF TypeOK
        <5> QED BY <4>1, <5>3, <5>4, <5>5 DEF Terminal
      <4> QED BY <4>1, <4>2, <4>3
    <3> QED BY <3>1, <3>2
  <2>3. CASE Rests
    BY <2>3 DEF Rests
  <2> QED BY <1>1, <2>1, <2>2, <2>3, StepShape DEF Shape
<1>2. Core /\ Core' /\ [Next]_vars => [\A d \in Dispatches : Kept(d)]_vars
  BY <1>1
<1> QED BY <1>2, CoreInvariant, PTL DEF Spec, SettledIsFinal

\* Every handler moves a worker along an edge of LEGAL_TRANSITIONS, whatever
\* state the transactions before it have left: none of them throws.
THEOREM WorkerStepsAreLegalHolds == Spec => WorkerStepsAreLegal
<1> DEFINE Legal(d) ==
      worker[d] \in Live /\ worker'[d] # worker[d] =>
        \/ worker'[d] \in WorkerEdges[worker[d]]
        \/ worker'[d] = "succeeded" /\ worker[d] \in Unproven \cup {"starting"}
<1>1. ASSUME Core, [Next]_vars, NEW d \in Dispatches PROVE Legal(d)
  <2>1. ASSUME NEW t \in Tasks, Opens(t), worker[d] \in Live PROVE Legal(d)
    <3>1. d # rows + 1
      BY <1>1, <2>1, OnlyOne DEF Core, TypeOK, Dispatches
    <3> QED BY <1>1, <2>1, <3>1 DEF Opens, Core, TypeOK
  <2>2. ASSUME NEW e \in Dispatches, Writes(e), worker[d] \in Live PROVE Legal(d)
    <3>1. Active(d)
      BY <1>1, <2>2, OnlyOne
    <3>2. CASE e = d
      BY <1>1, <2>2, <3>1, <3>2 DEF Writes, LegalEdge
    <3>3. CASE e # d
      BY <1>1, <2>2, <3>3 DEF Writes, Core, TypeOK
    <3> QED BY <3>2, <3>3
  <2>3. CASE Rests
    BY <2>3 DEF Rests
  <2> QED BY <1>1, <2>1, <2>2, <2>3, StepShape DEF Shape
<1>2. Core /\ [Next]_vars => [\A d \in Dispatches : Legal(d)]_vars
  BY <1>1
<1> QED BY <1>2, CoreInvariant, PTL DEF Spec, WorkerStepsAreLegal

\* No attempt is opened for a completed task, and no write of an attempt takes
\* a completion away, its own task's or another's.
THEOREM CompletedStaysCompletedHolds == Spec => CompletedStaysCompleted
<1> DEFINE Stays(t) ==
      task[t] = "completed" /\ task'[t] # "completed" => UNCHANGED <<rows, dStatus, worker, own>>
<1>1. ASSUME Core, [Next]_vars, NEW t \in Tasks PROVE Stays(t)
  <2>1. ASSUME NEW u \in Tasks, Opens(u) PROVE Stays(t)
    BY <1>1, <2>1 DEF Opens, Core, TypeOK
  <2>2. ASSUME NEW d \in Dispatches, Writes(d), task[t] = "completed" PROVE Stays(t)
    <3>1. task[dTask[d]] # "completed" /\ dTask[d] \in Tasks
      <4>1. CASE Active(d)
        BY <1>1, <4>1, OnlyOne
      <4>2. CASE ~Active(d)
        BY <2>2, <4>2 DEF Writes
      <4> QED BY <4>1, <4>2
    <3>2. t \in Tasks \ {dTask[d]}
      BY <2>2, <3>1
    <3>3. task'[t] = task[t]
      BY <2>2, <3>2 DEF Writes, Moves
    <3> QED BY <2>2, <3>3
  <2>3. CASE Rests
    BY <2>3 DEF Rests
  <2> QED BY <1>1, <2>1, <2>2, <2>3, StepShape DEF Shape
<1>2. Core /\ [Next]_vars => [\A t \in Tasks : Stays(t)]_vars
  BY <1>1
<1> QED BY <1>2, CoreInvariant, PTL DEF Spec, CompletedStaysCompleted

-----------------------------------------------------------------------------
(* The invariants that rest on Core.                                       *)

\* Rows of createDispatchContext carry the largest failure count of their task: a count
\* is only ever raised on the latest attempt, so none falls behind.
THEOREM BreakerMonotoneHolds == Spec => []BreakerMonotone
<1>1. Init => BreakerMonotone
  BY DEF Init, BreakerMonotone
<1>2. ASSUME Core, BreakerMonotone, [Next]_vars PROVE BreakerMonotone'
  <2>1. ASSUME NEW t \in Tasks, Opens(t) PROVE BreakerMonotone'
    <3>1. /\ rows + 1 \in Dispatches
          /\ \A d \in Dispatches : d > rows => dTask[d] = NoTask
          /\ \A d \in Dispatches : d # rows + 1 => dTask'[d] = dTask[d] /\ worker'[d] = worker[d]
                                                   /\ failures'[d] = failures[d]
          /\ dTask'[rows + 1] = t
      BY <1>2, <2>1, BoundsAssumption DEF Opens, Core, TypeOK, Dispatches
    <3>r. rows \in 0 .. MaxRows
      BY <1>2 DEF Core, TypeOK
    <3>2. ASSUME NEW d \in Dispatches, NEW e \in Dispatches, worker'[e] = "none",
                 dTask'[e] # NoTask, dTask'[d] = dTask'[e], d < e
          PROVE  failures'[d] <= failures'[e]
      <4>1. CASE e = rows + 1
        BY <2>1, <3>1, <3>2, <4>1 DEF Opens, RowsOf, Dispatches
      <4>2. CASE e # rows + 1
        <5>1. e <= rows
          <6>1. dTask[e] # NoTask
            BY <3>1, <3>2, <4>2
          <6> QED BY <3>1, <3>r, <6>1, BoundsAssumption DEF Dispatches
        <5>2. d # rows + 1
          BY <3>2, <3>r, <5>1, BoundsAssumption DEF Dispatches
        <5> QED BY <1>2, <3>1, <3>2, <4>2, <5>2 DEF BreakerMonotone, RowsOf
      <4> QED BY <4>1, <4>2
    <3> QED BY <3>2 DEF BreakerMonotone, RowsOf
  <2>2. ASSUME NEW c \in Dispatches, Writes(c) PROVE BreakerMonotone'
    <3>1. /\ dTask' = dTask
          /\ \A d \in Dispatches : failures[d] \in Nat /\ failures'[d] >= failures[d]
          /\ \A d \in Dispatches : worker'[d] = "none" <=> worker[d] = "none"
          /\ \A d \in Dispatches : d # c => failures'[d] = failures[d]
      BY <1>2, <2>2 DEF Writes, Core, TypeOK
    <3>n. \A d \in Dispatches : failures'[d] \in Nat
      BY <1>2, NextCore DEF Core, TypeOK, Dispatches
    <3>2. ASSUME NEW d \in Dispatches, NEW e \in Dispatches, worker[e] = "none",
                 dTask[e] # NoTask, dTask[d] = dTask[e], d < e
          PROVE  failures'[d] <= failures'[e]
      <4>1. failures[d] <= failures[e]
        BY <1>2, <3>2 DEF BreakerMonotone, RowsOf
      <4>2. failures'[d] = failures[d]
        <5>1. CASE d = c
          <6>1. ~Latest(d)
            BY <3>2 DEF Latest, RowsOf, Dispatches
          <6>2. ~Active(d)
            BY <1>2, <6>1 DEF Core, OneActiveAttempt
          <6> QED BY <2>2, <5>1, <6>2 DEF Writes
        <5> QED BY <3>1, <5>1
      <4> QED BY <3>1, <3>n, <4>1, <4>2
    <3> QED BY <3>1, <3>2 DEF BreakerMonotone, RowsOf
  <2>3. CASE Rests
    BY <1>2, <2>3 DEF Rests, BreakerMonotone, RowsOf
  <2> QED BY <1>2, <2>1, <2>2, <2>3, StepShape DEF Shape
<1> QED BY <1>1, <1>2, CoreInvariant, PTL DEF Spec

\* A terminal is claimed only when findActiveDispatchForAssignee finds it free,
\* and no write revives an attempt that once held it.
THEOREM ExclusiveAssigneeHolds == Spec => []ExclusiveAssignee
<1>1. Init => ExclusiveAssignee
  BY DEF Init, ExclusiveAssignee
<1>2. ASSUME Core, ExclusiveAssignee, [Next]_vars PROVE ExclusiveAssignee'
  <2>1. ASSUME NEW t \in Tasks, Opens(t) PROVE ExclusiveAssignee'
    <3> DEFINE n == rows + 1
    <3>1. n \in Dispatches
      BY <1>2, <2>1, BoundsAssumption DEF Opens, Core, TypeOK, Dispatches
    <3>2. \A d \in Dispatches \ {n} : dStatus'[d] = dStatus[d] /\ assignee'[d] = assignee[d]
      BY <1>2, <2>1 DEF Opens, Core, TypeOK
    <3>3. assignee'[n] # NoHandle =>
            \A e \in Dispatches : Active(e) => assignee[e] # assignee'[n]
      BY <2>1 DEF Opens, Busy, Dispatches
    <3> QED BY <1>2, <3>1, <3>2, <3>3 DEF ExclusiveAssignee, Active
  <2>2. ASSUME NEW c \in Dispatches, Writes(c) PROVE ExclusiveAssignee'
    <3>1. \A d \in Dispatches : Active(d)' => Active(d)
      BY <1>2, <2>2 DEF Writes, Active, Core, TypeOK
    <3> QED BY <1>2, <2>2, <3>1 DEF Writes, ExclusiveAssignee
  <2>3. CASE Rests
    <3>1. CASE UNCHANGED assignee
      BY <1>2, <2>3, <3>1 DEF Rests, ExclusiveAssignee, Active
    <3>2. ASSUME NEW c \in Dispatches, NEW h \in Handles,
                 ~Busy(h, c), assignee' = [assignee EXCEPT ![c] = h]
          PROVE  ExclusiveAssignee'
      <4>1. dStatus' = dStatus
        BY <2>3 DEF Rests
      <4>2. assignee'[c] = h /\ \A d \in Dispatches \ {c} : assignee'[d] = assignee[d]
        BY <1>2, <3>2 DEF Core, TypeOK
      <4>3. \A e \in Dispatches \ {c} : Active(e) => assignee[e] # h
        BY <3>2 DEF Busy
      <4> QED BY <1>2, <4>1, <4>2, <4>3 DEF ExclusiveAssignee, Active
    <3> QED BY <2>3, <3>1, <3>2 DEF Rests
  <2> QED BY <1>2, <2>1, <2>2, <2>3, StepShape DEF Shape
<1> QED BY <1>1, <1>2, CoreInvariant, PTL DEF Spec

\* What a local report relies on beyond Core: a worker this runtime saw become
\* ready has its attempt dispatched.
ReadyIsDispatched ==
  \A d \in Dispatches : worker[d] = "ready" /\ ~fed[d] => dStatus[d] = "dispatched"

\* A local worker's own report settles its attempt from every state but a stop
\* in flight, whatever its start or an earlier stop has left in doubt.
THEOREM LocalReportIsHeardHolds == Spec => []LocalReportIsHeard
<1>1. Init => ReadyIsDispatched
  BY DEF Init, ReadyIsDispatched
<1>2. ASSUME Core, ReadyIsDispatched, [Next]_vars PROVE ReadyIsDispatched'
  <2>1. ASSUME NEW t \in Tasks, Opens(t) PROVE ReadyIsDispatched'
    BY <1>2, <2>1, BoundsAssumption DEF Opens, ReadyIsDispatched, Core, TypeOK, Dispatches
  <2>2. ASSUME NEW c \in Dispatches, Writes(c) PROVE ReadyIsDispatched'
    BY <1>2, <2>2 DEF Writes, ReadyIsDispatched, Core, TypeOK
  <2>3. CASE Rests
    BY <1>2, <2>3 DEF Rests, ReadyIsDispatched
  <2> QED BY <1>2, <2>1, <2>2, <2>3, StepShape DEF Shape
<1>3. ASSUME Core, ReadyIsDispatched PROVE LocalReportIsHeard
  <2>1. ASSUME NEW d \in Dispatches, worker[d] \in Live \ {"stopping"}, ~fed[d]
        PROVE  CanSettleReport(d)
    <3>1. /\ Active(d) /\ ActiveOf(dTask[d]) = {d}
          /\ task[dTask[d]] \in {"dispatched", "blocked"}
          /\ task[dTask[d]] = "blocked" <=> worker[d] \in Unproven \cup {"stopping"}
      BY <1>3, <2>1, OnlyOne
    <3>2. WorkerCanReport(d)
      BY <2>1 DEF WorkerCanReport, Live, Unproven
    <3>3. ReportStatuses(d)
      <4>1. CASE worker[d] \in Unproven
        BY <3>1, <4>1 DEF ReportStatuses
      <4>2. CASE worker[d] = "starting"
        BY <1>3, <3>1, <4>2
           DEF ReportStatuses, Starting, Core, WorkerAgreesWithDispatch, Unproven
      <4>3. CASE worker[d] = "ready"
        BY <1>3, <2>1, <3>1, <4>3 DEF ReportStatuses, ReadyIsDispatched, Unproven
      <4> QED BY <2>1, <4>1, <4>2, <4>3 DEF Live, Unproven
    <3> QED BY <3>1, <3>2, <3>3 DEF CanSettleReport
  <2> QED BY <2>1 DEF LocalReportIsHeard
<1> QED BY <1>1, <1>2, <1>3, CoreInvariant, PTL DEF Spec

\* A local question pends on active attempts only, and on none being stopped.
QuestionsHeld ==
  \A d \in asking : ~fed[d] => Active(d) /\ worker[d] # "stopping"

\* Every path that settles a local attempt has closed its questions: a stop
\* does so when it begins, and nothing is asked while it is in flight.
THEOREM LocalQuestionsAnswerableHolds == Spec => []LocalQuestionsAnswerable
<1>1. Init => QuestionsHeld
  BY DEF Init, QuestionsHeld
<1>2. ASSUME Core, QuestionsHeld, [Next]_vars PROVE QuestionsHeld'
  <2>1. ASSUME NEW t \in Tasks, Opens(t) PROVE QuestionsHeld'
    <3>1. rows + 1 \in Dispatches /\ asking' = asking /\ asking \subseteq Dispatches
      BY <1>2, <2>1, BoundsAssumption DEF Opens, Core, TypeOK, Dispatches
    <3>2. ASSUME NEW d \in Dispatches, d # rows + 1
          PROVE  dStatus'[d] = dStatus[d] /\ worker'[d] = worker[d] /\ fed'[d] = fed[d]
      BY <1>2, <2>1, <3>2 DEF Opens, Core, TypeOK
    <3>3. dStatus'[rows + 1] \in ActiveStatus /\ worker'[rows + 1] # "stopping"
      BY <2>1 DEF Opens
    <3> QED BY <1>2, <3>1, <3>2, <3>3 DEF QuestionsHeld, Active
  <2>2. ASSUME NEW c \in Dispatches, Writes(c) PROVE QuestionsHeld'
    <3>1. fed' = fed /\ asking' \subseteq asking /\ asking \subseteq Dispatches
      BY <1>2, <2>2 DEF Writes, Core, TypeOK
    <3>2. ASSUME NEW d \in Dispatches \ {c}
          PROVE  dStatus'[d] = dStatus[d] /\ worker'[d] = worker[d]
      BY <1>2, <2>2 DEF Writes, Core, TypeOK
    <3>3. c \in asking' /\ ~fed[c] => dStatus'[c] \in ActiveStatus /\ worker'[c] # "stopping"
      BY <1>2, <2>2, <3>1 DEF Writes, QuestionsHeld
    <3> QED BY <1>2, <3>1, <3>2, <3>3 DEF QuestionsHeld, Active
  <2>3. CASE Rests
    BY <1>2, <2>3 DEF Rests, QuestionsHeld, Active
  <2> QED BY <1>2, <2>1, <2>2, <2>3, StepShape DEF Shape
<1>3. QuestionsHeld => LocalQuestionsAnswerable
  BY DEF QuestionsHeld, LocalQuestionsAnswerable
<1> QED BY <1>1, <1>2, <1>3, CoreInvariant, PTL DEF Spec

-----------------------------------------------------------------------------
(* TaskLifecycle implements TaskClaim.                                     *)

\* NewestOf is the maximum where there is one.
LEMMA NewestOfMaximum ==
  ASSUME NEW S \in SUBSET Nat, NEW n \in S \cup {0}, \A m \in S : m <= n
  PROVE  NewestOf(S) = n
<1> DEFINE P(k) == k \in S \cup {0} /\ \A m \in S : m <= k
<1>1. P(n)
  OBVIOUS
<1>2. ASSUME NEW k, P(k) PROVE k = n
  BY <1>2
<1>3. NewestOf(S) = CHOOSE k \in S \cup {0} : \A m \in S : m <= k
  BY DEF NewestOf
<1> QED BY <1>1, <1>2, <1>3

\* Every task's attempts have a latest one, or there are none.
LatestExists ==
  \A t \in Tasks : \E n \in RowsOf(t) \cup {0} : \A m \in RowsOf(t) : m <= n

\* The attempts of a task have a latest one from the first on: each new row
\* is larger than all before it.
LEMMA LatestExistsHolds == Spec => []LatestExists
<1>1. Init => LatestExists
  BY NullsAssumption DEF Init, LatestExists, RowsOf
<1>2. ASSUME Core, LatestExists, [Next]_vars PROVE LatestExists'
  <2>1. ASSUME NEW u \in Tasks, Opens(u) PROVE LatestExists'
    <3>1. rows + 1 \in Dispatches /\ \A m \in Dispatches : dTask[m] # NoTask => m <= rows
      BY <1>2, <2>1, BoundsAssumption DEF Opens, Core, TypeOK, Dispatches
    <3>2. /\ dTask'[rows + 1] = u /\ dTask[rows + 1] = NoTask
          /\ \A m \in Dispatches \ {rows + 1} : dTask'[m] = dTask[m]
      BY <1>2, <2>1, <3>1 DEF Opens, Core, TypeOK, Dispatches
    <3>3. ASSUME NEW t \in Tasks
          PROVE  \E n \in RowsOf(t)' \cup {0} : \A m \in RowsOf(t)' : m <= n
      <4>1. CASE t = u
        <5>1. rows + 1 \in RowsOf(t)'
          BY <3>1, <3>2, <4>1 DEF RowsOf
        <5>2. ASSUME NEW m \in RowsOf(t)' PROVE m <= rows + 1
          <6>1. m \in Dispatches /\ (m = rows + 1 \/ dTask[m] # NoTask)
            BY <3>2, NullsAssumption DEF RowsOf
          <6> QED BY <1>2, <3>1, <6>1 DEF Core, TypeOK, Dispatches
        <5> QED BY <5>1, <5>2
      <4>2. CASE t # u
        <5>1. RowsOf(t)' = RowsOf(t)
          BY <3>1, <3>2, <4>2, NullsAssumption DEF RowsOf
        <5> QED BY <1>2, <5>1 DEF LatestExists
      <4> QED BY <4>1, <4>2
    <3> QED BY <3>3 DEF LatestExists
  <2>2. CASE dTask' = dTask
    BY <1>2, <2>2 DEF LatestExists, RowsOf
  <2> QED BY <1>2, <2>1, <2>2, StepShape DEF Shape, Writes, Rests
<1> QED BY <1>1, <1>2, CoreInvariant, PTL DEF Spec

\* Opening an attempt claims its task, with a newer number than any before.
LEMMA OpeningClaims ==
  ASSUME Core, LatestExists, NEW t \in Tasks, Opens(t)
  PROVE  Claims!Claim(t)
<1> DEFINE n == rows + 1
<1>1. /\ n \in Dispatches /\ n \in Nat \ {0} /\ n \in 1 .. MaxRows
      /\ \A m \in Dispatches : dTask[m] # NoTask => m < n
      /\ dTask[n] = NoTask /\ dTask'[n] = t
      /\ \A m \in Dispatches \ {n} : dTask'[m] = dTask[m] /\ dStatus'[m] = dStatus[m]
      /\ dStatus'[n] \in ActiveStatus
  BY BoundsAssumption DEF Opens, Core, TypeOK, Dispatches
<1>2. ASSUME NEW u \in Tasks, u # t
      PROVE  RowsOf(u)' = RowsOf(u) /\ ActiveOf(u)' = ActiveOf(u)
  BY <1>1, <1>2, NullsAssumption DEF RowsOf, ActiveOf, Active
<1>3. RowsOf(t)' = RowsOf(t) \cup {n} /\ ActiveOf(t)' = {n}
  <2>1. RowsOf(t)' = RowsOf(t) \cup {n}
    BY <1>1, NullsAssumption DEF RowsOf
  <2>2. ActiveOf(t)' = ActiveOf(t) \cup {n}
    BY <1>1, NullsAssumption DEF RowsOf, ActiveOf, Active
  <2> QED BY <2>1, <2>2 DEF Opens
<1>4. NewestOf(ActiveOf(t)) = 0 /\ NewestOf(ActiveOf(t)') = n
  BY <1>1, <1>3, NewestOfMaximum DEF Opens
<1>5. RowsOf(t) \in SUBSET Nat /\ \A m \in RowsOf(t) : m < n
  BY <1>1, NullsAssumption DEF RowsOf, Dispatches
<1>6. NewestOf(RowsOf(t)') = n
  BY <1>1, <1>3, <1>5, NewestOfMaximum
<1>7. n > NewestOf(RowsOf(t))
  <2>1. PICK k \in RowsOf(t) \cup {0} : \A m \in RowsOf(t) : m <= k
    BY DEF LatestExists
  <2>2. NewestOf(RowsOf(t)) = k
    BY <1>5, <2>1, NewestOfMaximum
  <2> QED BY <1>1, <1>5, <2>1, <2>2
<1>8. [u \in Tasks |-> NewestOf(ActiveOf(u)')] =
      [[u \in Tasks |-> NewestOf(ActiveOf(u))] EXCEPT ![t] = n]
  BY <1>2, <1>4
<1>9. [u \in Tasks |-> NewestOf(RowsOf(u)')] =
      [[u \in Tasks |-> NewestOf(RowsOf(u))] EXCEPT ![t] = n]
  BY <1>2, <1>6
<1> QED BY <1>1, <1>4, <1>7, <1>8, <1>9
        DEF Claims!Claim, Claims!Attempts, Claims!Nobody, NewestOf

\* Writing an attempt releases its task when it settles it, and otherwise
\* changes no owner.
LEMMA WritingReleases ==
  ASSUME Core, NEW d \in Dispatches, NEW t \in Tasks, dTask[d] = t, Writes(d)
  PROVE  Claims!Release(t) \/ UNCHANGED Claims!claims
<1>1. /\ dTask' = dTask
      /\ \A e \in Dispatches \ {d} : dStatus'[e] = dStatus[e]
      /\ dStatus'[d] \in ActiveStatus => Active(d)
  BY DEF Writes, Core, TypeOK
<1>2. \A u \in Tasks : RowsOf(u)' = RowsOf(u)
  BY <1>1 DEF RowsOf
<1>3. CASE Active(d) /\ dStatus'[d] \notin ActiveStatus
  <2>1. ActiveOf(t) = {d}
    BY <1>3, OnlyOne
  <2>2. ActiveOf(t)' = {}
    BY <1>1, <1>3, <2>1 DEF ActiveOf, RowsOf, Active
  <2>3. ASSUME NEW u \in Tasks, u # t PROVE ActiveOf(u)' = ActiveOf(u)
    BY <1>1, <2>3 DEF ActiveOf, RowsOf, Active
  <2>4. NewestOf(ActiveOf(t)) = d /\ NewestOf(ActiveOf(t)') = 0 /\ d # 0
    BY <2>1, <2>2, NewestOfMaximum DEF Dispatches
  <2>5. [u \in Tasks |-> NewestOf(ActiveOf(u)')] =
        [[u \in Tasks |-> NewestOf(ActiveOf(u))] EXCEPT ![t] = 0]
    BY <2>3, <2>4
  <2>6. [u \in Tasks |-> NewestOf(RowsOf(u)')] = [u \in Tasks |-> NewestOf(RowsOf(u))]
    BY <1>2
  <2> QED BY <1>1, <2>4, <2>5, <2>6 DEF Claims!Release, Claims!Nobody, NewestOf
<1>4. CASE ~(Active(d) /\ dStatus'[d] \notin ActiveStatus)
  <2>1. \A u \in Tasks : ActiveOf(u)' = ActiveOf(u)
    BY <1>1, <1>4 DEF ActiveOf, RowsOf, Active
  <2>2. /\ [u \in Tasks |-> NewestOf(ActiveOf(u)')] = [u \in Tasks |-> NewestOf(ActiveOf(u))]
        /\ [u \in Tasks |-> NewestOf(RowsOf(u)')] = [u \in Tasks |-> NewestOf(RowsOf(u))]
    BY <1>2, <2>1
  <2> QED BY <2>2 DEF Claims!claims, NewestOf
<1> QED BY <1>3, <1>4

\* A Dispatch is one authoritative attempt: through every race of starts,
\* stops, reports, exits and restarts, a task is claimed only when nobody has
\* it, and never by an attempt that had lost it.
THEOREM ClaimsImplemented == Spec => ImplementsClaims
<1>1. Init => Claims!Init
  <2>1. HAVE Init
  <2>2. \A t \in Tasks : RowsOf(t) = {} /\ ActiveOf(t) = {}
    <3>1. \A d \in Dispatches : dTask[d] \notin Tasks
      BY <2>1, NullsAssumption DEF Init
    <3> QED BY <3>1 DEF RowsOf, ActiveOf
  <2>3. \A t \in Tasks : NewestOf(RowsOf(t)) = 0 /\ NewestOf(ActiveOf(t)) = 0
    BY <2>2, NewestOfMaximum
  <2> QED BY <2>3 DEF Claims!Init, Claims!Nobody
<1>2. ASSUME Core, LatestExists, [Next]_vars PROVE [Claims!Next]_Claims!claims
  <2>1. ASSUME NEW t \in Tasks, Opens(t) PROVE Claims!Next
    BY <1>2, <2>1, OpeningClaims DEF Claims!Next
  <2>2. ASSUME NEW d \in Dispatches, Writes(d) PROVE Claims!Next \/ UNCHANGED Claims!claims
    <3>1. dTask[d] \in Tasks
      BY <2>2 DEF Writes
    <3> QED BY <1>2, <2>2, <3>1, WritingReleases DEF Claims!Next
  <2>3. CASE Rests
    <3>1. \A u \in Tasks : RowsOf(u)' = RowsOf(u) /\ ActiveOf(u)' = ActiveOf(u)
      BY <2>3 DEF Rests, RowsOf, ActiveOf, Active
    <3>2. /\ [u \in Tasks |-> NewestOf(ActiveOf(u)')] = [u \in Tasks |-> NewestOf(ActiveOf(u))]
          /\ [u \in Tasks |-> NewestOf(RowsOf(u)')] = [u \in Tasks |-> NewestOf(RowsOf(u))]
      BY <3>1
    <3> QED BY <3>2 DEF Claims!claims, NewestOf
  <2> QED BY <1>2, <2>1, <2>2, <2>3, StepShape DEF Shape
<1> QED BY <1>1, <1>2, CoreInvariant, LatestExistsHolds, PTL
        DEF Spec, ImplementsClaims, Claims!Spec

-----------------------------------------------------------------------------
(* Promotion.                                                              *)

\* A task set by hand, by a gate or by an attempt: only completion promotes,
\* and it promotes every task whose last open dependency it was.
LEMMA FinishingForgetsNobody ==
  ASSUME Core, NEW u \in Tasks, task[u] # "absent", NEW s \in TaskStatus,
         task' = Finished(u, s), UNCHANGED deps, NEW t \in Tasks, Forgotten(t)'
  PROVE  Forgotten(t) \/ task[t] \notin {"absent", "pending"}
<1>1. task'[t] = "pending" /\ \A v \in deps[t] : task'[v] = "completed"
  BY DEF Forgotten
<1>2. deps[t] \subseteq Tasks
  BY DEF Core, TypeOK
<1>3. CASE s # "completed"
  <2>1. task' = [task EXCEPT ![u] = s]
    BY <1>3 DEF Finished
  <2>2. \A v \in deps[t] : task[v] = "completed"
    BY <1>1, <1>2, <1>3, <2>1 DEF Core, TypeOK
  <2>3. task[t] = "pending" \/ task[t] \notin {"absent", "pending"}
    BY <1>1, <2>1 DEF Core, TypeOK
  <2> QED BY <2>2, <2>3 DEF Forgotten
<1>4. CASE s = "completed"
  <2> DEFINE st == [task EXCEPT ![u] = s]
  <2>1. /\ task' = [w \in Tasks |-> IF /\ st[w] = "pending"
                                       /\ u \in deps[w]
                                       /\ \A v \in deps[w] : st[v] = "completed"
                                    THEN "ready" ELSE st[w]]
        /\ \A v \in Tasks : v # u => st[v] = task[v]
        /\ st[u] = s
    BY <1>4 DEF Finished, Promoted, Core, TypeOK
  <2> HIDE DEF st
  <2>2. \A v \in deps[t] : st[v] = "completed"
    BY <1>1, <1>2, <2>1
  <2>3. st[t] = "pending" /\ u \notin deps[t] /\ t # u
    BY <1>1, <1>4, <2>1, <2>2
  <2>4. task[t] = "pending" /\ \A v \in deps[t] : task[v] = "completed"
    BY <1>2, <2>1, <2>2, <2>3
  <2> QED BY <2>4 DEF Forgotten
<1> QED BY <1>3, <1>4

\* The step completes nothing and sets nothing pending.
Plain ==
  \A t \in Tasks :
    /\ task'[t] = task[t] \/ task'[t] \in {"ready", "dispatched", "blocked", "failed"}
    /\ deps'[t] = deps[t] \/ task'[t] = "dispatched"

\* Only createTask, task-update and reports can complete a task or leave it
\* pending; every other transaction is plain.
LEMMA PlainSteps ==
  ASSUME Core,
         \/ \E t \in Tasks : \/ \E g \in Gates : CreateGate(t, g)
                             \/ \E h \in Handles : CreateDispatchContext(t, h)
                             \/ \E r \in BOOLEAN : StartWorker(t, r) \/ StartWorkerOnNewTask(t, r)
         \/ \E g \in Gates : GateNext(g)
         \/ \E d \in Dispatches : DispatchNext(d) /\ \A o \in Outcomes : ~Report(d, o)
         \/ Restart
         \/ UNCHANGED vars
  PROVE  Plain
<1>t. task \in [Tasks -> TaskStatus \cup {"absent"}] /\ deps \in [Tasks -> SUBSET Tasks]
  BY DEF Core, TypeOK
<1>1. ASSUME NEW t \in Tasks,
             \/ \E g \in Gates : CreateGate(t, g)
             \/ \E h \in Handles : CreateDispatchContext(t, h)
             \/ \E r \in BOOLEAN : StartWorker(t, r) \/ StartWorkerOnNewTask(t, r)
      PROVE  Plain
  BY <1>t, <1>1
     DEF CreateGate, CreateDispatchContext, StartWorker, StartWorkerOnNewTask, Plain
<1>2. ASSUME NEW g \in Gates, GateNext(g) PROVE Plain
  BY <1>t, <1>2 DEF GateNext, ResolveGate, Reblock, Plain
<1>3. ASSUME NEW d \in Dispatches, DispatchNext(d), \A o \in Outcomes : ~Report(d, o)
      PROVE  Plain
  <2>1. deps' = deps
    BY <1>3 DEF DispatchNext, AttachAuthority, MarkReady, FailStart, MarkStartUnknown,
       BeginStop, ReleaseContextOnly, SettleStop, ReconcileFederatedStop, Stopped, Resume,
       MarkStopUnknown, Abandon, FailDispatch, Fail, ProcessExit, MissingTerminal,
       ReconcileFederatedStart, AskQuestion, ImportFederatedQuestion, AnswerQuestion
  <2>2. CASE \/ \E h \in Handles : AttachAuthority(d, h)
             \/ MarkReady(d) \/ MarkStopUnknown(d)
             \/ AskQuestion(d) \/ ImportFederatedQuestion(d) \/ AnswerQuestion(d)
    BY <2>1, <2>2 DEF AttachAuthority, MarkReady, MarkStopUnknown, AskQuestion,
       ImportFederatedQuestion, AnswerQuestion, Plain
  <2>3. CASE MarkStartUnknown(d) \/ \E prompt \in BOOLEAN : FailStart(d, prompt)
    BY <1>t, <2>1, <2>3 DEF MarkStartUnknown, FailStart, Plain
  <2>4. CASE BeginStop(d) \/ SettleStop(d) \/ ReconcileFederatedStop(d) \/ Abandon(d)
    BY <1>t, <2>1, <2>4
       DEF BeginStop, SettleStop, ReconcileFederatedStop, Stopped, Abandon, Interrupted, Plain
  <2>5. CASE Resume(d) \/ ReleaseContextOnly(d)
    BY <1>t, <2>1, <2>5 DEF Resume, ReleaseContextOnly, Plain
  <2>6. CASE ProcessExit(d) \/ \E prompt \in BOOLEAN : FailDispatch(d, prompt)
    BY <1>t, <2>1, <2>6 DEF ProcessExit, FailDispatch, Fail, Plain
  <2>7. CASE MissingTerminal(d)
    BY <1>t, <2>1, <2>7 DEF MissingTerminal, Interrupted, Plain
  <2>8. CASE ReconcileFederatedStart(d)
    <3>1. CASE FederatedReady(d) \/ FederatedUnknown(d)
      BY <1>t, <2>1, <3>1 DEF FederatedReady, FederatedUnknown, Plain
    <3>2. ASSUME NEW state, NEW prompt, FederatedEnded(d, state, prompt) PROVE Plain
      BY <1>t, <2>1, <3>2 DEF FederatedEnded, Interrupted, Plain
    <3> QED BY <2>8, <3>1, <3>2 DEF ReconcileFederatedStart
  <2> QED BY <1>3, <2>2, <2>3, <2>4, <2>5, <2>6, <2>7, <2>8 DEF DispatchNext
<1>4. CASE Restart \/ UNCHANGED vars
  BY <1>4 DEF Restart, vars, Plain
<1> QED BY <1>1, <1>2, <1>3, <1>4

\* Every path that completes a task promotes its dependents: a task waits on
\* completed dependencies only if somebody set it back to pending by hand.
THEOREM DependentsPromotedHolds == Spec => DependentsPromoted
<1> DEFINE Remembered(t) ==
      Forgotten(t)' => Forgotten(t) \/ task[t] \notin {"absent", "pending"}
<1>1. ASSUME Core, [Next]_vars, NEW t \in Tasks, Forgotten(t)'
      PROVE  Forgotten(t) \/ task[t] \notin {"absent", "pending"}
  <2>t. task \in [Tasks -> TaskStatus \cup {"absent"}] /\ deps \in [Tasks -> SUBSET Tasks]
    BY <1>1 DEF Core, TypeOK
  <2>1. CASE Plain
    BY <1>1, <2>t, <2>1 DEF Plain, Forgotten
  <2>2. ASSUME NEW u \in Tasks, CreateTask(u)
        PROVE  Forgotten(t) \/ task[t] \notin {"absent", "pending"}
    <3>1. PICK D \in SUBSET {v \in Tasks : task[v] # "absent"} :
            /\ deps' = [deps EXCEPT ![u] = D]
            /\ task' = [task EXCEPT ![u] = IF \A v \in D : task[v] = "completed"
                                           THEN "ready" ELSE "pending"]
      BY <2>2 DEF CreateTask
    <3>2. task[u] = "absent" /\ u \notin D
      BY <2>2, <3>1 DEF CreateTask
    <3>3. task'[u] \in {"ready", "pending"} /\ \A v \in Tasks \ {u} : task'[v] = task[v]
      BY <2>t, <3>1
    <3>4. CASE t = u
      <4>1. \A v \in D : task[v] = "completed"
        BY <1>1, <2>t, <3>1, <3>2, <3>3, <3>4 DEF Forgotten
      <4>2. task'[u] = "ready"
        BY <2>t, <3>1, <4>1
      <4> QED BY <1>1, <3>4, <4>2 DEF Forgotten
    <3>5. CASE t # u
      <4>1. deps'[t] = deps[t] /\ deps[t] \subseteq Tasks
        BY <2>t, <3>1, <3>5
      <4> QED BY <1>1, <3>3, <3>5, <4>1 DEF Forgotten
    <3> QED BY <3>4, <3>5
  <2>3. ASSUME NEW u \in Tasks, NEW s \in TaskStatus, UpdateTaskStatus(u, s)
        PROVE  Forgotten(t) \/ task[t] \notin {"absent", "pending"}
    BY <1>1, <2>3, FinishingForgetsNobody DEF UpdateTaskStatus
  <2>4. ASSUME NEW d \in Dispatches, NEW o \in Outcomes, Report(d, o)
        PROVE  Forgotten(t) \/ task[t] \notin {"absent", "pending"}
    <3>1. dTask[d] \in Tasks /\ task[dTask[d]] # "absent" /\ Expected(o) \in TaskStatus
      <4>1. dTask[d] \in Tasks /\ Expected(o) \in TaskStatus
        BY <1>1, <2>4, ReportSettlesOne, Statuses
      <4> QED BY <1>1, <4>1, NullsAssumption DEF Core, TypeOK
    <3>2. task' = Finished(dTask[d], Expected(o)) /\ UNCHANGED deps
      BY <2>4 DEF Report
    <3> QED BY <1>1, <3>1, <3>2, FinishingForgetsNobody
  <2> QED BY <1>1, <2>1, <2>2, <2>3, <2>4, PlainSteps DEF Next, TaskNext
<1>2. Core /\ [Next]_vars => [\A t \in Tasks : Remembered(t)]_vars
  BY <1>1
<1> QED BY <1>2, CoreInvariant, PTL DEF Spec, DependentsPromoted

=============================================================================
