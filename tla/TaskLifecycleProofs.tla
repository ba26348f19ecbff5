------------------------- MODULE TaskLifecycleProofs -------------------------
(***************************************************************************)
(* The safety of TaskLifecycle for every set of tasks, handles and gates,  *)
(* every number of attempts and every circuit-breaker limit.               *)
(*                                                                         *)
(* Core joins the invariants that only hold together: which attempt is     *)
(* active follows from the task's status, the task's status from the       *)
(* worker's state, and the worker's state from the attempt's.  Most        *)
(* actions change one attempt and its task, so the proof first shows, in   *)
(* AttemptStep, what such a step has to respect, and then that each action *)
(* respects it.                                                            *)
(***************************************************************************)
EXTENDS TaskLifecycle, TLAPS

Core == /\ TypeOK
        /\ OneActiveAttempt
        /\ TaskAttemptAgreement
        /\ WorkerAgreesWithDispatch
        /\ DoubtBlocksTask

DispatchStatus == ActiveStatus \cup Terminal \cup {"absent", "circuit_broken"}
WorkerState    == Live \cup Settled \cup {"none"}

\* What a step leaves in the columns no conjunct of Core relates to another.
SideStep ==
  /\ deps' \in [Tasks -> SUBSET Tasks]
  /\ failures' \in [Dispatches -> Nat]
  /\ stalled' \in [Dispatches -> BOOLEAN]
  /\ assignee' \in [Dispatches -> Handles \cup {NoHandle}]
  /\ own' \in [Dispatches -> BOOLEAN]
  /\ fed' \in [Dispatches -> BOOLEAN]
  /\ asking' \in SUBSET Dispatches
  /\ gateTask' \in [Gates -> Tasks \cup {NoTask}]
  /\ pendingGates' \in SUBSET Gates
  /\ \A g \in pendingGates' : gateTask'[g] \in Tasks /\ task[gateTask'[g]] # "absent"

\* Worker state w, attempt status s and task status v tell one story.
Agree(w, s, v) ==
  /\ w \in WorkerState /\ s \in DispatchStatus \ {"absent"} /\ v \in TaskStatus
  /\ IF s \in ActiveStatus
     THEN /\ v \in {"dispatched", "blocked"}
          /\ v = "blocked" <=> w \in Unproven \cup {"stopping"}
     ELSE v # "dispatched"
  /\ w # "none" => (w \in Live <=> s \in ActiveStatus)
  /\ w \in {"starting", "start_unknown"} => s = "pending"
  /\ w = "succeeded" => s = "completed"
  /\ w \in {"failed", "stopped"} => s \in {"failed", "circuit_broken"}

\* Task t takes status v; of the others, some may be promoted.
Moves(t, v) ==
  /\ task' \in [Tasks -> TaskStatus \cup {"absent"}]
  /\ task'[t] = v
  /\ \A u \in Tasks \ {t} : \/ task'[u] = task[u]
                            \/ task[u] = "pending" /\ task'[u] = "ready"

-----------------------------------------------------------------------------
(* The statuses and states are distinct, stated once for the provers.      *)

\* The members of every status set, listed.
LEMMA Statuses ==
  /\ TaskStatus = {"pending", "ready", "dispatched", "blocked", "completed", "failed"}
  /\ DispatchStatus = {"pending", "dispatched", "completed", "failed", "absent", "circuit_broken"}
  /\ WorkerState = {"starting", "ready", "start_unknown", "stopping", "stop_unknown",
                    "failed", "succeeded", "stopped", "abandoned", "none"}
BY DEF TaskStatus, DispatchStatus, WorkerState, ActiveStatus, Terminal, Live, Settled

\* An attempt that counts, or whose worker lives, is the only one its task has.
LEMMA OnlyOne ==
  ASSUME Core, NEW d \in Dispatches, Active(d) \/ worker[d] \in Live
  PROVE  /\ Active(d)
         /\ d <= rows
         /\ dTask[d] \in Tasks
         /\ ActiveOf(dTask[d]) = {d}
         /\ task[dTask[d]] \in {"dispatched", "blocked"}
         /\ task[dTask[d]] = "blocked" <=> worker[d] \in Unproven \cup {"stopping"}
<1>1. Active(d)
  BY DEF Core, WorkerAgreesWithDispatch, Live
<1>2. d <= rows /\ dTask[d] \in Tasks
  BY <1>1 DEF Core, TypeOK, Active, ActiveStatus, Dispatches
<1>3. ActiveOf(dTask[d]) = {d}
  <2>1. ASSUME NEW e \in ActiveOf(dTask[d]) PROVE e = d
    <3>1. e \in Dispatches /\ dTask[e] = dTask[d] /\ Active(e)
      BY DEF ActiveOf, RowsOf
    <3>2. Latest(d) /\ Latest(e)
      BY <1>1, <3>1 DEF Core, OneActiveAttempt
    <3>3. d <= e /\ e <= d
      BY <3>1, <3>2 DEF Latest, RowsOf
    <3> QED BY <3>1, <3>3 DEF Dispatches
  <2>2. d \in ActiveOf(dTask[d])
    BY <1>1 DEF ActiveOf, RowsOf
  <2> QED BY <2>1, <2>2
<1>4. /\ task[dTask[d]] \in {"dispatched", "blocked"}
      /\ task[dTask[d]] = "blocked" <=> worker[d] \in Unproven \cup {"stopping"}
  BY <1>1 DEF Core, TaskAttemptAgreement, DoubtBlocksTask
<1> QED BY <1>1, <1>2, <1>3, <1>4

-----------------------------------------------------------------------------
(* Four kinds of step, and what each has to respect to preserve Core.      *)

\* No attempt and no task changes status.
LEMMA QuietStep ==
  ASSUME Core, SideStep,
         UNCHANGED <<task, rows, dTask, dStatus, worker>>
  PROVE  Core'
<1>1. TypeOK'
  BY NullsAssumption DEF Core, TypeOK, SideStep
<1>2. OneActiveAttempt'
  BY DEF Core, OneActiveAttempt, Active, Latest, RowsOf
<1>3. TaskAttemptAgreement'
  BY DEF Core, TaskAttemptAgreement, Active, ActiveOf, RowsOf
<1>4. WorkerAgreesWithDispatch'
  BY DEF Core, WorkerAgreesWithDispatch, Active
<1>5. DoubtBlocksTask'
  BY DEF Core, DoubtBlocksTask, Active
<1> QED BY <1>1, <1>2, <1>3, <1>4, <1>5 DEF Core

\* A task without an active attempt takes a status that claims none.
LEMMA TaskStep ==
  ASSUME Core, SideStep, NEW t \in Tasks, ActiveOf(t) = {},
         NEW v \in TaskStatus \ {"dispatched"}, Moves(t, v),
         UNCHANGED <<rows, dTask, dStatus, worker>>
  PROVE  Core'
<1>1. ASSUME NEW e \in Dispatches, Active(e) PROVE task'[dTask[e]] = task[dTask[e]]
  <2>1. dTask[e] # t /\ dTask[e] \in Tasks
    BY <1>1, OnlyOne DEF ActiveOf, RowsOf
  <2>2. task[dTask[e]] # "pending"
    BY <1>1, OnlyOne
  <2> QED BY <2>1, <2>2 DEF Moves
<1>2. TypeOK'
  <2>1. ASSUME NEW u \in Tasks, task[u] # "absent" PROVE task'[u] # "absent"
    BY <2>1, Statuses DEF Moves
  <2>2. task' \in [Tasks -> TaskStatus \cup {"absent"}]
    BY DEF Moves
  <2>3. ASSUME NEW g \in pendingGates'
        PROVE  gateTask'[g] # NoTask /\ task'[gateTask'[g]] # "absent"
    BY <2>1, <2>3, NullsAssumption DEF SideStep
  <2> QED BY <2>1, <2>2, <2>3 DEF Core, TypeOK, SideStep
<1>3. OneActiveAttempt'
  BY DEF Core, OneActiveAttempt, Active, Latest, RowsOf
<1>4. TaskAttemptAgreement'
  <2>1. ASSUME NEW e \in Dispatches, Active(e)'
        PROVE  task'[dTask'[e]] \in {"dispatched", "blocked"}
    BY <2>1, <1>1, OnlyOne DEF Active
  <2>2. ASSUME NEW u \in Tasks, task'[u] = "dispatched" PROVE ActiveOf(u)' # {}
    <3>1. u # t /\ task[u] = "dispatched"
      BY <2>2 DEF Moves
    <3> QED BY <3>1 DEF Core, TaskAttemptAgreement, ActiveOf, RowsOf, Active
  <2> QED BY <2>1, <2>2 DEF TaskAttemptAgreement
<1>5. WorkerAgreesWithDispatch'
  BY DEF Core, WorkerAgreesWithDispatch, Active
<1>6. DoubtBlocksTask'
  <2> SUFFICES ASSUME NEW e \in Dispatches, Active(e)'
               PROVE  task'[dTask'[e]] = "blocked" <=> worker'[e] \in Unproven \cup {"stopping"}
    BY DEF DoubtBlocksTask
  <2>1. Active(e)
    BY DEF Active
  <2> QED BY <2>1, <1>1 DEF Core, DoubtBlocksTask
<1> QED BY <1>2, <1>3, <1>4, <1>5, <1>6 DEF Core

\* The only attempt of its task that may be active changes together with it.
LEMMA AttemptStep ==
  ASSUME Core, SideStep, NEW d \in Dispatches, dTask[d] \in Tasks,
         ActiveOf(dTask[d]) \subseteq {d},
         NEW w, NEW s, NEW v, Agree(w, s, v), s \in ActiveStatus => Active(d),
         Moves(dTask[d], v),
         worker'  = [worker  EXCEPT ![d] = w],
         dStatus' = [dStatus EXCEPT ![d] = s],
         UNCHANGED <<rows, dTask>>
  PROVE  Core'
<1> DEFINE t == dTask[d]
<1>t. /\ worker \in [Dispatches -> WorkerState]
      /\ dStatus \in [Dispatches -> DispatchStatus]
      /\ dTask \in [Dispatches -> Tasks \cup {NoTask}]
  BY DEF Core, TypeOK, WorkerState, DispatchStatus
<1>d. /\ worker'[d] = w /\ dStatus'[d] = s /\ task'[t] = v
      /\ w \in WorkerState /\ s \in DispatchStatus \ {"absent"} /\ v \in TaskStatus
      /\ Active(d)' <=> s \in ActiveStatus
  BY <1>t DEF Moves, Active, Agree
<1>e. ASSUME NEW e \in Dispatches \ {d}
      PROVE  /\ worker'[e] = worker[e] /\ dStatus'[e] = dStatus[e]
             /\ Active(e)' <=> Active(e)
  BY <1>t DEF Active
<1>1. ASSUME NEW e \in Dispatches \ {d}, Active(e)
      PROVE  dTask[e] # t /\ task'[dTask[e]] = task[dTask[e]]
  <2>1. dTask[e] # t
    BY <1>1 DEF ActiveOf, RowsOf
  <2>2. dTask[e] \in Tasks /\ task[dTask[e]] # "pending"
    BY <1>1, OnlyOne
  <2> QED BY <2>1, <2>2 DEF Moves
<1>2. TypeOK'
  <2>1. ASSUME NEW u \in Tasks, task[u] # "absent" PROVE task'[u] # "absent"
    BY <1>d, <2>1, Statuses DEF Moves
  <2>2. task' \in [Tasks -> TaskStatus \cup {"absent"}]
    BY DEF Moves
  <2>3. ASSUME NEW g \in pendingGates'
        PROVE  gateTask'[g] # NoTask /\ task'[gateTask'[g]] # "absent"
    BY <2>1, <2>3, NullsAssumption DEF SideStep
  <2>4. worker' \in [Dispatches -> WorkerState] /\ dStatus' \in [Dispatches -> DispatchStatus]
    BY <1>t, <1>d
  <2>5. d <= rows
    BY NullsAssumption DEF Core, TypeOK
  <2>6. ASSUME NEW e \in Dispatches
        PROVE  IF e <= rows'
               THEN dTask'[e] # NoTask /\ dStatus'[e] # "absent" /\ task'[dTask'[e]] # "absent"
               ELSE dTask'[e] = NoTask /\ dStatus'[e] = "absent" /\ worker'[e] = "none"
    <3>1. CASE e = d
      BY <3>1, <2>1, <2>5, <1>d DEF Core, TypeOK
    <3>2. CASE e # d /\ e <= rows
      BY <3>2, <2>1, <1>e, <1>t DEF Core, TypeOK
    <3>3. CASE e # d /\ ~(e <= rows)
      BY <3>3, <1>e DEF Core, TypeOK
    <3> QED BY <3>1, <3>2, <3>3
  <2> QED BY <2>2, <2>3, <2>4, <2>6
          DEF Core, TypeOK, SideStep, WorkerState, DispatchStatus
<1>3. OneActiveAttempt'
  <2> SUFFICES ASSUME NEW e \in Dispatches, Active(e)' PROVE Latest(e)'
    BY DEF OneActiveAttempt
  <2>1. Active(e)
    BY <1>d, <1>e
  <2> QED BY <2>1 DEF Core, OneActiveAttempt, Latest, RowsOf
<1>4. TaskAttemptAgreement'
  <2>1. ASSUME NEW e \in Dispatches, Active(e)'
        PROVE  task'[dTask'[e]] \in {"dispatched", "blocked"}
    <3>1. CASE e = d
      BY <2>1, <3>1, <1>d DEF Agree
    <3>2. CASE e # d
      BY <2>1, <3>2, <1>e, <1>1, OnlyOne
    <3> QED BY <3>1, <3>2
  <2>2. ASSUME NEW u \in Tasks, task'[u] = "dispatched" PROVE ActiveOf(u)' # {}
    <3>1. CASE u = t
      <4>1. Active(d)'
        BY <2>2, <3>1, <1>d DEF Agree
      <4> QED BY <4>1, <3>1 DEF ActiveOf, RowsOf
    <3>2. CASE u # t
      <4>1. task[u] = "dispatched"
        BY <2>2, <3>2 DEF Moves
      <4>2. PICK e \in ActiveOf(u) : TRUE
        BY <4>1 DEF Core, TaskAttemptAgreement
      <4>3. e \in Dispatches \ {d} /\ dTask[e] = u /\ Active(e)
        BY <4>2, <3>2 DEF ActiveOf, RowsOf
      <4>4. Active(e)'
        BY <4>3, <1>e
      <4> QED BY <4>3, <4>4 DEF ActiveOf, RowsOf
    <3> QED BY <3>1, <3>2
  <2> QED BY <2>1, <2>2 DEF TaskAttemptAgreement
<1>5. WorkerAgreesWithDispatch'
  <2> SUFFICES ASSUME NEW e \in Dispatches
               PROVE  /\ worker'[e] # "none" => (worker'[e] \in Live <=> Active(e)')
                      /\ worker'[e] \in {"starting", "start_unknown"} => dStatus'[e] = "pending"
                      /\ worker'[e] = "succeeded" => dStatus'[e] = "completed"
                      /\ worker'[e] \in {"failed", "stopped"} =>
                           dStatus'[e] \in {"failed", "circuit_broken"}
    BY DEF WorkerAgreesWithDispatch
  <2>1. CASE e = d
    BY <2>1, <1>d DEF Agree
  <2>2. CASE e # d
    BY <2>2, <1>e DEF Core, WorkerAgreesWithDispatch
  <2> QED BY <2>1, <2>2
<1>6. DoubtBlocksTask'
  <2> SUFFICES ASSUME NEW e \in Dispatches, Active(e)'
               PROVE  task'[dTask'[e]] = "blocked" <=> worker'[e] \in Unproven \cup {"stopping"}
    BY DEF DoubtBlocksTask
  <2>1. CASE e = d
    BY <2>1, <1>d DEF Agree
  <2>2. CASE e # d
    <3>1. Active(e) /\ worker'[e] = worker[e] /\ task'[dTask'[e]] = task[dTask[e]]
      BY <2>2, <1>e, <1>1
    <3> QED BY <3>1 DEF Core, DoubtBlocksTask
  <2> QED BY <2>1, <2>2
<1> QED BY <1>2, <1>3, <1>4, <1>5, <1>6 DEF Core

\* A new attempt is opened for a task that has no active one.
LEMMA OpenStep ==
  ASSUME Core, NEW t \in Tasks, ActiveOf(t) = {}, deps' \in [Tasks -> SUBSET Tasks],
         NEW s \in ActiveStatus, NEW c \in Nat, NEW h \in Handles \cup {NoHandle},
         NEW w \in {"none", "starting"}, NEW remote \in BOOLEAN,
         w = "starting" => s = "pending",
         Insert(t, s, c, h, w, remote),
         task' = [task EXCEPT ![t] = "dispatched"]
  PROVE  Core'
<1>t. /\ worker \in [Dispatches -> WorkerState]
      /\ dStatus \in [Dispatches -> DispatchStatus]
      /\ dTask \in [Dispatches -> Tasks \cup {NoTask}]
      /\ task \in [Tasks -> TaskStatus \cup {"absent"}]
      /\ rows \in 0 .. MaxRows
  BY DEF Core, TypeOK, WorkerState, DispatchStatus
<1>0. PICK d \in Nat : d = rows + 1
  BY <1>t, BoundsAssumption
<1>d. /\ d \in Dispatches /\ d \in Nat /\ ~(d <= rows) /\ rows' = d
      /\ dTask'[d] = t /\ dStatus'[d] = s /\ worker'[d] = w /\ task'[t] = "dispatched"
      /\ Active(d)'
  BY <1>0, <1>t, BoundsAssumption DEF Insert, Dispatches, Active
<1>e. ASSUME NEW e \in Dispatches \ {d}
      PROVE  /\ dTask'[e] = dTask[e] /\ dStatus'[e] = dStatus[e] /\ worker'[e] = worker[e]
             /\ Active(e)' <=> Active(e)
             /\ e <= rows' <=> e <= rows
  BY <1>0, <1>t, BoundsAssumption DEF Insert, Active, Dispatches
<1>1. ASSUME NEW e \in Dispatches, Active(e)
      PROVE  e \in Dispatches \ {d} /\ dTask[e] # t /\ task'[dTask[e]] = task[dTask[e]]
  <2>1. e <= rows /\ dTask[e] \in Tasks
    BY <1>1, OnlyOne
  <2>2. dTask[e] # t
    BY <1>1 DEF ActiveOf, RowsOf
  <2> QED BY <2>1, <2>2, <1>d, <1>t
<1>2. TypeOK'
  <2>1. ASSUME NEW u \in Tasks, task[u] # "absent" PROVE task'[u] # "absent"
    BY <2>1, <1>t
  <2>2. task' \in [Tasks -> TaskStatus \cup {"absent"}]
    BY <1>t, Statuses
  <2>3. ASSUME NEW g \in pendingGates'
        PROVE  gateTask'[g] # NoTask /\ task'[gateTask'[g]] # "absent"
    BY <2>1, <2>3 DEF Insert, gates, Core, TypeOK
  <2>4. /\ worker' \in [Dispatches -> WorkerState]
        /\ dStatus' \in [Dispatches -> DispatchStatus]
        /\ dTask' \in [Dispatches -> Tasks \cup {NoTask}]
        /\ rows' \in 0 .. MaxRows
    BY <1>0, <1>t, BoundsAssumption, Statuses DEF Insert, ActiveStatus, Dispatches
  <2>5. /\ failures' \in [Dispatches -> Nat]
        /\ stalled' \in [Dispatches -> BOOLEAN]
        /\ assignee' \in [Dispatches -> Handles \cup {NoHandle}]
        /\ own' \in [Dispatches -> BOOLEAN]
        /\ fed' \in [Dispatches -> BOOLEAN]
        /\ asking' \in SUBSET Dispatches
        /\ gateTask' \in [Gates -> Tasks \cup {NoTask}]
        /\ pendingGates' \in SUBSET Gates
    BY DEF Insert, gates, Core, TypeOK
  <2>6. ASSUME NEW e \in Dispatches
        PROVE  IF e <= rows'
               THEN dTask'[e] # NoTask /\ dStatus'[e] # "absent" /\ task'[dTask'[e]] # "absent"
               ELSE dTask'[e] = NoTask /\ dStatus'[e] = "absent" /\ worker'[e] = "none"
    <3>1. CASE e = d
      BY <3>1, <1>d, NullsAssumption DEF ActiveStatus
    <3>2. CASE e # d /\ e <= rows
      BY <3>2, <2>1, <1>e, <1>t DEF Core, TypeOK
    <3>3. CASE e # d /\ ~(e <= rows)
      BY <3>3, <1>e DEF Core, TypeOK
    <3> QED BY <3>1, <3>2, <3>3
  <2> QED BY <2>2, <2>3, <2>4, <2>5, <2>6 DEF TypeOK, WorkerState, DispatchStatus
<1>3. OneActiveAttempt'
  <2> SUFFICES ASSUME NEW e \in Dispatches, Active(e)', NEW f \in Dispatches,
                      dTask'[f] = dTask'[e]
               PROVE  f <= e
    BY DEF OneActiveAttempt, Latest, RowsOf
  <2>1. CASE e = d
    <3>1. CASE f = d
      BY <3>1, <2>1, <1>d
    <3>2. CASE f # d
      <4>1. dTask[f] = t
        BY <3>2, <2>1, <1>d, <1>e
      <4>2. f <= rows
        BY <4>1, NullsAssumption DEF Core, TypeOK
      <4> QED BY <4>2, <2>1, <1>0, <1>t DEF Dispatches
    <3> QED BY <3>1, <3>2
  <2>2. CASE e # d
    <3>1. Active(e) /\ dTask'[e] = dTask[e] /\ dTask[e] # t
      BY <2>2, <1>e, <1>1
    <3>2. f # d /\ dTask[f] = dTask[e]
      BY <3>1, <1>d, <1>e
    <3> QED BY <3>1, <3>2 DEF Core, OneActiveAttempt, Latest, RowsOf
  <2> QED BY <2>1, <2>2
<1>4. TaskAttemptAgreement'
  <2>1. ASSUME NEW e \in Dispatches, Active(e)'
        PROVE  task'[dTask'[e]] \in {"dispatched", "blocked"}
    <3>1. CASE e = d
      BY <3>1, <1>d
    <3>2. CASE e # d
      BY <2>1, <3>2, <1>e, <1>1, OnlyOne
    <3> QED BY <3>1, <3>2
  <2>2. ASSUME NEW u \in Tasks, task'[u] = "dispatched" PROVE ActiveOf(u)' # {}
    <3>1. CASE u = t
      BY <3>1, <1>d DEF ActiveOf, RowsOf
    <3>2. CASE u # t
      <4>1. task[u] = "dispatched"
        BY <2>2, <3>2, <1>t
      <4>2. PICK e \in ActiveOf(u) : TRUE
        BY <4>1 DEF Core, TaskAttemptAgreement
      <4>3. e \in Dispatches /\ dTask[e] = u /\ Active(e)
        BY <4>2 DEF ActiveOf, RowsOf
      <4>4. Active(e)' /\ dTask'[e] = u
        BY <4>3, <1>e, <1>1
      <4> QED BY <4>3, <4>4 DEF ActiveOf, RowsOf
    <3> QED BY <3>1, <3>2
  <2> QED BY <2>1, <2>2 DEF TaskAttemptAgreement
<1>5. WorkerAgreesWithDispatch'
  <2> SUFFICES ASSUME NEW e \in Dispatches
               PROVE  /\ worker'[e] # "none" => (worker'[e] \in Live <=> Active(e)')
                      /\ worker'[e] \in {"starting", "start_unknown"} => dStatus'[e] = "pending"
                      /\ worker'[e] = "succeeded" => dStatus'[e] = "completed"
                      /\ worker'[e] \in {"failed", "stopped"} =>
                           dStatus'[e] \in {"failed", "circuit_broken"}
    BY DEF WorkerAgreesWithDispatch
  <2>1. CASE e = d
    BY <2>1, <1>d DEF Live
  <2>2. CASE e # d
    BY <2>2, <1>e DEF Core, WorkerAgreesWithDispatch
  <2> QED BY <2>1, <2>2
<1>6. DoubtBlocksTask'
  <2> SUFFICES ASSUME NEW e \in Dispatches, Active(e)'
               PROVE  task'[dTask'[e]] = "blocked" <=> worker'[e] \in Unproven \cup {"stopping"}
    BY DEF DoubtBlocksTask
  <2>1. CASE e = d
    BY <2>1, <1>d DEF Unproven
  <2>2. CASE e # d
    <3>1. Active(e)
      BY <2>2, <1>e
    <3>2. worker'[e] = worker[e] /\ task'[dTask'[e]] = task[dTask[e]]
      BY <2>2, <3>1, <1>e, <1>1
    <3> QED BY <3>1, <3>2 DEF Core, DoubtBlocksTask
  <2> QED BY <2>1, <2>2
<1> QED BY <1>2, <1>3, <1>4, <1>5, <1>6 DEF Core

-----------------------------------------------------------------------------
(* The actions on one attempt.                                             *)

\* The step changes attempt d and the task of d, and no other.
Touches(d) ==
  /\ worker'  = [worker  EXCEPT ![d] = worker'[d]]
  /\ dStatus' = [dStatus EXCEPT ![d] = dStatus'[d]]
  /\ task'    = [task    EXCEPT ![dTask[d]] = task'[dTask[d]]]
  /\ UNCHANGED <<rows, dTask>>

\* AttemptStep for the handlers that write an existing attempt and its task.
LEMMA LiveStep ==
  ASSUME Core, SideStep, NEW d \in Dispatches, Active(d) \/ worker[d] \in Live, Touches(d),
         Agree(worker'[d], dStatus'[d], task'[dTask[d]])
  PROVE  Core'
<1>1. Active(d) /\ dTask[d] \in Tasks /\ ActiveOf(dTask[d]) = {d}
  BY OnlyOne
<1>2. task' \in [Tasks -> TaskStatus \cup {"absent"}]
  BY <1>1 DEF Core, TypeOK, Touches, Agree
<1>3. Moves(dTask[d], task'[dTask[d]])
  BY <1>1, <1>2 DEF Moves, Touches, Core, TypeOK
<1> QED BY <1>1, <1>3, AttemptStep DEF Touches

\* The starting worker's three outcomes.
LEMMA StartCore ==
  ASSUME Core, NEW d \in Dispatches,
         MarkReady(d) \/ MarkStartUnknown(d) \/ \E prompt \in BOOLEAN : FailStart(d, prompt)
  PROVE  Core'
<1>1. worker[d] = "starting" /\ dStatus[d] = "pending" /\ task[dTask[d]] = "dispatched"
  BY OnlyOne DEF MarkReady, MarkStartUnknown, FailStart, Starting, Live, Unproven,
                 Core, WorkerAgreesWithDispatch
<1>2. dTask[d] \in Tasks /\ ActiveOf(dTask[d]) = {d} /\ Active(d)
  BY <1>1, OnlyOne DEF Live
<1>3. CASE MarkReady(d)
  <2>1. SideStep
    BY <1>3, NullsAssumption DEF MarkReady, SideStep, Core, TypeOK, attempt, gates
  <2>2. Touches(d)
    BY <1>2, <1>3 DEF MarkReady, Touches, Core, TypeOK, attempt
  <2>3. Agree(worker'[d], dStatus'[d], task'[dTask[d]])
    BY <1>1, <1>2, <1>3, Statuses
       DEF MarkReady, Core, TypeOK, Agree, ActiveStatus, Unproven, Live
  <2> QED BY <1>2, <2>1, <2>2, <2>3, LiveStep
<1>4. CASE MarkStartUnknown(d)
  <2>1. SideStep
    BY <1>4, NullsAssumption DEF MarkStartUnknown, SideStep, Core, TypeOK, attempt, gates
  <2>2. Touches(d)
    BY <1>2, <1>4 DEF MarkStartUnknown, Touches, Core, TypeOK, attempt
  <2>3. Agree(worker'[d], dStatus'[d], task'[dTask[d]])
    BY <1>1, <1>2, <1>4, Statuses
       DEF MarkStartUnknown, Core, TypeOK, Agree, ActiveStatus, Unproven, Live
  <2> QED BY <1>2, <2>1, <2>2, <2>3, LiveStep
<1>5. ASSUME NEW prompt \in BOOLEAN, FailStart(d, prompt) PROVE Core'
  <2>1. SideStep
    BY <1>5, NullsAssumption DEF FailStart, SideStep, Core, TypeOK, attempt, gates
  <2>2. Touches(d)
    BY <1>1, <1>2, <1>5 DEF FailStart, Touches, Core, TypeOK, attempt
  <2>3. Agree(worker'[d], dStatus'[d], task'[dTask[d]])
    BY <1>1, <1>2, <1>5, Statuses
       DEF FailStart, Core, TypeOK, Agree, ActiveStatus, Unproven, Live
  <2> QED BY <1>2, <2>1, <2>2, <2>3, LiveStep
<1> QED BY <1>3, <1>4, <1>5

\* A stop: asked for, and its four outcomes.
LEMMA StopCore ==
  ASSUME Core, NEW d \in Dispatches,
         \/ BeginStop(d) \/ SettleStop(d) \/ ReconcileFederatedStop(d)
         \/ Resume(d) \/ MarkStopUnknown(d)
  PROVE  Core'
<1>1. worker[d] \in Live
  BY DEF BeginStop, StopStranded, SettleStop, ReconcileFederatedStop, Resume,
         MarkStopUnknown, Live
<1>2. /\ dTask[d] \in Tasks /\ ActiveOf(dTask[d]) = {d} /\ Active(d)
      /\ task[dTask[d]] \in {"dispatched", "blocked"}
      /\ task[dTask[d]] = "blocked" <=> worker[d] \in Unproven \cup {"stopping"}
      /\ Interrupted(dTask[d], d) = [task EXCEPT ![dTask[d]] = "blocked"]
  <2>1. ActiveOf(dTask[d]) = {d} /\ task[dTask[d]] \in {"dispatched", "blocked"}
    BY <1>1, OnlyOne
  <2>2. Interrupted(dTask[d], d) = [task EXCEPT ![dTask[d]] = "blocked"]
    BY <2>1 DEF Interrupted
  <2> QED BY <1>1, <2>2, OnlyOne
<1>3. CASE BeginStop(d)
  <2>1. SideStep
    BY <1>3, NullsAssumption DEF BeginStop, SideStep, Core, TypeOK, attempt, gates
  <2>2. Touches(d)
    BY <1>2, <1>3 DEF BeginStop, Touches, Core, TypeOK, attempt
  <2>3. Agree(worker'[d], dStatus'[d], task'[dTask[d]])
    BY <1>2, <1>3, Statuses
       DEF BeginStop, Core, TypeOK, Agree, Active, ActiveStatus, Unproven, Live
  <2> QED BY <1>1, <2>1, <2>2, <2>3, LiveStep
<1>4. CASE Stopped(d)
  <2>1. SideStep
    BY <1>4, NullsAssumption DEF Stopped, SideStep, Core, TypeOK, attempt, gates
  <2>2. Touches(d)
    BY <1>2, <1>4 DEF Stopped, Touches, Core, TypeOK, attempt
  <2>3. Agree(worker'[d], dStatus'[d], task'[dTask[d]])
    BY <1>2, <1>4, Statuses
       DEF Stopped, Core, TypeOK, Agree, ActiveStatus, Unproven, Live
  <2> QED BY <1>1, <2>1, <2>2, <2>3, LiveStep
<1>5. CASE Resume(d)
  <2>1. SideStep
    BY <1>5, NullsAssumption DEF Resume, SideStep, Core, TypeOK, attempt, gates
  <2>2. Touches(d)
    BY <1>2, <1>5 DEF Resume, Touches, Core, TypeOK, attempt
  <2>3. Agree(worker'[d], dStatus'[d], task'[dTask[d]])
    BY <1>2, <1>5, Statuses
       DEF Resume, Core, TypeOK, Agree, Active, ActiveStatus, Unproven, Live
  <2> QED BY <1>1, <2>1, <2>2, <2>3, LiveStep
<1>6. CASE MarkStopUnknown(d)
  <2>1. SideStep
    BY <1>6, NullsAssumption DEF MarkStopUnknown, SideStep, Core, TypeOK, attempt, gates
  <2>2. Touches(d)
    BY <1>2, <1>6 DEF MarkStopUnknown, Touches, Core, TypeOK, attempt
  <2>3. Agree(worker'[d], dStatus'[d], task'[dTask[d]])
    BY <1>2, <1>6, Statuses
       DEF MarkStopUnknown, Core, TypeOK, Agree, Active, ActiveStatus, Unproven, Live
  <2> QED BY <1>1, <2>1, <2>2, <2>3, LiveStep
<1> QED BY <1>3, <1>4, <1>5, <1>6 DEF SettleStop, ReconcileFederatedStop

\* An attempt given up by an operator, or failed by what the runtime saw.
LEMMA EndCore ==
  ASSUME Core, NEW d \in Dispatches,
         \/ ReleaseContextOnly(d) \/ Abandon(d)
         \/ \E prompt \in BOOLEAN : FailDispatch(d, prompt)
         \/ ProcessExit(d) \/ MissingTerminal(d)
  PROVE  Core'
<1>1. Active(d) \/ worker[d] \in Live
  BY DEF ReleaseContextOnly, Abandon, FailDispatch, ProcessExit, Fail, MissingTerminal
<1>2. /\ dTask[d] \in Tasks /\ ActiveOf(dTask[d]) = {d} /\ Active(d)
      /\ task[dTask[d]] \in {"dispatched", "blocked"}
      /\ task[dTask[d]] = "blocked" <=> worker[d] \in Unproven \cup {"stopping"}
      /\ Interrupted(dTask[d], d) = [task EXCEPT ![dTask[d]] = "blocked"]
  <2>1. ActiveOf(dTask[d]) = {d} /\ task[dTask[d]] \in {"dispatched", "blocked"}
    BY <1>1, OnlyOne
  <2>2. Interrupted(dTask[d], d) = [task EXCEPT ![dTask[d]] = "blocked"]
    BY <2>1 DEF Interrupted
  <2> QED BY <1>1, <2>2, OnlyOne
<1>3. CASE ReleaseContextOnly(d)
  <2>1. SideStep
    BY <1>3, NullsAssumption DEF ReleaseContextOnly, SideStep, Core, TypeOK, attempt, gates
  <2>2. Touches(d)
    BY <1>2, <1>3 DEF ReleaseContextOnly, Touches, Core, TypeOK, attempt
  <2>3. Agree(worker'[d], dStatus'[d], task'[dTask[d]])
    BY <1>2, <1>3, Statuses
       DEF ReleaseContextOnly, Core, TypeOK, Agree, ActiveStatus, Unproven, Live
  <2> QED BY <1>1, <2>1, <2>2, <2>3, LiveStep
<1>4. CASE Abandon(d)
  <2>1. SideStep
    BY <1>4, NullsAssumption DEF Abandon, SideStep, Core, TypeOK, attempt, gates
  <2>2. Touches(d)
    BY <1>2, <1>4 DEF Abandon, Touches, Core, TypeOK, attempt
  <2>3. Agree(worker'[d], dStatus'[d], task'[dTask[d]])
    BY <1>2, <1>4, Statuses
       DEF Abandon, Core, TypeOK, Agree, ActiveStatus, Unproven, Live
  <2> QED BY <1>1, <2>1, <2>2, <2>3, LiveStep
<1>5. ASSUME NEW prompt \in BOOLEAN, FailDispatch(d, prompt) PROVE Core'
  <2>1. SideStep
    BY <1>5, NullsAssumption DEF FailDispatch, Fail, SideStep, Core, TypeOK, attempt, gates
  <2>2. Touches(d)
    BY <1>2, <1>5 DEF FailDispatch, Fail, Touches, Core, TypeOK, attempt
  <2>3. Agree(worker'[d], dStatus'[d], task'[dTask[d]])
    BY <1>2, <1>5, Statuses
       DEF FailDispatch, Fail, Core, TypeOK, Agree, ActiveStatus, Unproven, Live
  <2> QED BY <1>1, <2>1, <2>2, <2>3, LiveStep
<1>6. CASE ProcessExit(d)
  <2>1. SideStep
    BY <1>6, NullsAssumption DEF ProcessExit, Fail, SideStep, Core, TypeOK, attempt, gates
  <2>2. Touches(d)
    BY <1>2, <1>6 DEF ProcessExit, Fail, Touches, Core, TypeOK, attempt
  <2>3. Agree(worker'[d], dStatus'[d], task'[dTask[d]])
    BY <1>2, <1>6, Statuses
       DEF ProcessExit, Fail, Core, TypeOK, Agree, ActiveStatus, Unproven, Live
  <2> QED BY <1>1, <2>1, <2>2, <2>3, LiveStep
<1>7. CASE MissingTerminal(d)
  <2>1. SideStep
    BY <1>2, <1>7, NullsAssumption DEF MissingTerminal, SideStep, Core, TypeOK, attempt, gates
  <2>2. Touches(d)
    BY <1>2, <1>7 DEF MissingTerminal, Touches, Core, TypeOK, attempt
  <2>3. Agree(worker'[d], dStatus'[d], task'[dTask[d]])
    BY <1>2, <1>7, Statuses
       DEF MissingTerminal, Core, TypeOK, Agree, ActiveStatus, Unproven, Live
  <2> QED BY <1>1, <2>1, <2>2, <2>3, LiveStep
<1> QED BY <1>3, <1>4, <1>5, <1>6, <1>7

\* The worker server's word on a start.
LEMMA FederatedStartCore ==
  ASSUME Core, NEW d \in Dispatches, ReconcileFederatedStart(d)
  PROVE  Core'
<1>1. worker[d] \in {"starting", "start_unknown"}
  BY DEF ReconcileFederatedStart
<1>2. /\ dTask[d] \in Tasks /\ ActiveOf(dTask[d]) = {d} /\ Active(d)
      /\ task[dTask[d]] \in {"dispatched", "blocked"}
      /\ task[dTask[d]] = "blocked" <=> worker[d] = "start_unknown"
      /\ dStatus[d] = "pending"
  BY <1>1, OnlyOne DEF Live, Unproven, Core, WorkerAgreesWithDispatch
<1>3. /\ deps' = deps /\ UNCHANGED <<attempt, failures, assignee, own, gates>>
      /\ UNCHANGED <<rows, dTask, fed, gateTask, pendingGates>>
  BY DEF ReconcileFederatedStart, attempt, gates
<1>4. CASE FederatedReady(d)
  <2>1. SideStep
    BY <1>3, <1>4, NullsAssumption DEF FederatedReady, SideStep, Core, TypeOK
  <2>2. Touches(d)
    BY <1>2, <1>3, <1>4 DEF FederatedReady, Touches, Core, TypeOK
  <2>3. Agree(worker'[d], dStatus'[d], task'[dTask[d]])
    BY <1>2, <1>4, Statuses
       DEF FederatedReady, Core, TypeOK, Agree, ActiveStatus, Unproven, Live
  <2> QED BY <1>2, <2>1, <2>2, <2>3, LiveStep
<1>5. CASE FederatedUnknown(d)
  <2>1. SideStep
    BY <1>3, <1>5, NullsAssumption DEF FederatedUnknown, SideStep, Core, TypeOK
  <2>2. Touches(d)
    BY <1>2, <1>3, <1>5 DEF FederatedUnknown, Touches, Core, TypeOK
  <2>3. Agree(worker'[d], dStatus'[d], task'[dTask[d]])
    BY <1>2, <1>5, Statuses
       DEF FederatedUnknown, Core, TypeOK, Agree, ActiveStatus, Unproven, Live
  <2> QED BY <1>2, <2>1, <2>2, <2>3, LiveStep
<1>6. ASSUME NEW state \in {"failed", "stopped"}, NEW prompt \in BOOLEAN,
             FederatedEnded(d, state, prompt)
      PROVE  Core'
  <2>1. SideStep
    BY <1>3, <1>6, NullsAssumption DEF FederatedEnded, SideStep, Core, TypeOK
  <2>2. Touches(d)
    BY <1>2, <1>3, <1>6 DEF FederatedEnded, Touches, Core, TypeOK
  <2>3. Agree(worker'[d], dStatus'[d], task'[dTask[d]])
    BY <1>2, <1>6, Statuses
       DEF FederatedEnded, Core, TypeOK, Agree, ActiveStatus, Unproven, Live
  <2> QED BY <1>2, <2>1, <2>2, <2>3, LiveStep
<1> QED BY <1>4, <1>5, <1>6 DEF ReconcileFederatedStart

-----------------------------------------------------------------------------
(* The actions that can complete a task.                                   *)

\* Completing a task, or not, only promotes others.
LEMMA FinishedMoves ==
  ASSUME Core, NEW t \in Tasks, NEW s \in TaskStatus, task' = Finished(t, s)
  PROVE  Moves(t, s)
<1> DEFINE st == [task EXCEPT ![t] = s]
<1>1. /\ task \in [Tasks -> TaskStatus \cup {"absent"}]
      /\ st \in [Tasks -> TaskStatus \cup {"absent"}] /\ st[t] = s
      /\ \A u \in Tasks \ {t} : st[u] = task[u]
  BY DEF Core, TypeOK
<1>2. CASE s = "completed"
  <2>1. task' = [u \in Tasks |-> IF /\ st[u] = "pending"
                                    /\ t \in deps[u]
                                    /\ \A v \in deps[u] : st[v] = "completed"
                                 THEN "ready" ELSE st[u]]
    BY <1>2 DEF Finished, Promoted
  <2> HIDE DEF st
  <2>2. task' \in [Tasks -> TaskStatus \cup {"absent"}]
    BY <1>1, <2>1, Statuses
  <2>3. task'[t] = s
    BY <1>1, <1>2, <2>1
  <2>4. ASSUME NEW u \in Tasks \ {t}
        PROVE  task'[u] = task[u] \/ (task[u] = "pending" /\ task'[u] = "ready")
    BY <1>1, <2>1
  <2> QED BY <2>2, <2>3, <2>4 DEF Moves
<1>3. CASE s # "completed"
  <2>1. task' = st
    BY <1>3 DEF Finished
  <2> QED BY <1>1, <2>1 DEF Moves
<1> QED BY <1>2, <1>3

\* A report settles its attempt and, by the way, only its attempt.
LEMMA ReportSettlesOne ==
  ASSUME Core, NEW d \in Dispatches, NEW o \in Outcomes, Report(d, o)
  PROVE  /\ dTask[d] \in Tasks /\ Expected(o) \in {"completed", "failed"}
         /\ ActiveOf(dTask[d]) \subseteq {d}
         /\ dStatus' = [dStatus EXCEPT ![d] = Expected(o)]
         /\ worker' = [worker EXCEPT ![d] = IF worker[d] = "none" THEN "none" ELSE o]
         /\ asking' = asking \ {d}
         /\ Moves(dTask[d], Expected(o))
<1> DEFINE t == dTask[d]
<1>1. t \in Tasks /\ Expected(o) \in {"completed", "failed"}
  BY DEF Report, Core, TypeOK, Expected
<1>2. ActiveOf(t) \subseteq {d}
  <2>1. CASE Active(d)
    BY <2>1, OnlyOne
  <2>2. CASE ~Active(d)
    <3>1. task[t] = "failed"
      BY <2>2 DEF Report, CanSettleReport, ReportStatuses, Correctable, Active, ActiveStatus
    <3>2. ASSUME NEW e \in ActiveOf(t) PROVE FALSE
      BY <3>1, OnlyOne DEF ActiveOf, RowsOf
    <3> QED BY <3>2
  <2> QED BY <2>1, <2>2
<1>3. ActiveOf(t) \cup {d} = {d}
  BY <1>2
<1>4. dStatus' = [dStatus EXCEPT ![d] = Expected(o)]
  BY <1>3 DEF Report, Core, TypeOK
<1>5. worker' = [worker EXCEPT ![d] = IF worker[d] = "none" THEN "none" ELSE o]
  <2>1. worker[d] # "none" \/ worker[d] \notin Live
    BY DEF Live
  <2> QED BY <1>3, <2>1 DEF Report, Core, TypeOK
<1>6. asking' = asking \ {d}
  BY <1>3 DEF Report
<1>7. Moves(t, Expected(o))
  BY <1>1, Statuses, FinishedMoves DEF Report
<1> QED BY <1>1, <1>2, <1>4, <1>5, <1>6, <1>7

\* The worker's report leaves its attempt and its task with one outcome.
LEMMA ReportCore ==
  ASSUME Core, NEW d \in Dispatches, NEW o \in Outcomes, Report(d, o)
  PROVE  Core'
<1>1. SideStep
  BY NullsAssumption DEF Report, SideStep, Core, TypeOK, attempt, gates
<1>2. Agree(IF worker[d] = "none" THEN "none" ELSE o, Expected(o), Expected(o))
  BY Statuses DEF Agree, Outcomes, Expected, ActiveStatus, Live
<1>3. Expected(o) \notin ActiveStatus /\ UNCHANGED <<rows, dTask>>
  BY DEF Expected, ActiveStatus, Report, attempt
<1> QED BY <1>1, <1>2, <1>3, ReportSettlesOne, AttemptStep

\* task-update completes or fails a task and its unsupervised attempt.
LEMMA UpdateTaskStatusCore ==
  ASSUME Core, NEW t \in Tasks, NEW s \in TaskStatus, UpdateTaskStatus(t, s)
  PROVE  Core'
<1>1. SideStep
  BY NullsAssumption DEF UpdateTaskStatus, SettleActive, SideStep, Core, TypeOK, attempt, gates
<1>2. Moves(t, s)
  BY FinishedMoves DEF UpdateTaskStatus
<1>3. UNCHANGED <<rows, dTask>>
  BY DEF UpdateTaskStatus, attempt
<1>4. CASE ActiveOf(t) = {}
  <2>1. s # "dispatched"
    BY <1>4 DEF UpdateTaskStatus
  <2>2. UNCHANGED <<dStatus, worker>>
    BY <1>4 DEF UpdateTaskStatus, SettleActive, Core, TypeOK
  <2> QED BY <1>1, <1>2, <1>3, <1>4, <2>1, <2>2, TaskStep
<1>5. CASE ActiveOf(t) # {}
  <2>1. PICK d \in ActiveOf(t) : TRUE
    BY <1>5
  <2>2. d \in Dispatches /\ dTask[d] = t /\ Active(d) /\ ActiveOf(t) = {d}
    BY <2>1, OnlyOne DEF ActiveOf, RowsOf
  <2>3. s \in Terminal \cup {"dispatched"}
    BY <1>5 DEF UpdateTaskStatus
  <2>4. CASE s \in Terminal
    <3>1. worker[d] = "none"
      BY <2>2, <2>4 DEF UpdateTaskStatus, Supervised, Core, WorkerAgreesWithDispatch
    <3>2. dStatus' = [dStatus EXCEPT ![d] = s] /\ worker' = [worker EXCEPT ![d] = "none"]
      BY <2>2, <2>4, <3>1 DEF UpdateTaskStatus, SettleActive, Core, TypeOK, Live
    <3>3. Agree("none", s, s) /\ s \notin ActiveStatus
      BY <2>4, Statuses DEF Agree, Terminal, ActiveStatus
    <3> QED BY <1>1, <1>2, <1>3, <2>2, <3>2, <3>3, AttemptStep
  <2>5. CASE s = "dispatched"
    <3>1. task[t] = "dispatched"
      <4>1. CASE worker[d] \in Live
        BY <2>2, <2>5, <4>1 DEF UpdateTaskStatus, Supervised
      <4>2. CASE worker[d] \notin Live
        BY <2>2, <4>2, OnlyOne DEF Live, Unproven
      <4> QED BY <4>1, <4>2
    <3>2. task' = task
      BY <2>5, <3>1 DEF UpdateTaskStatus, Finished, Core, TypeOK
    <3>3. UNCHANGED <<dStatus, worker>>
      BY <2>5 DEF UpdateTaskStatus, Terminal
    <3> QED BY <1>1, <1>3, <3>2, <3>3, QuietStep
  <2> QED BY <2>3, <2>4, <2>5
<1> QED BY <1>4, <1>5

-----------------------------------------------------------------------------
(* Tasks and gates.                                                        *)

\* A task whose status claims no attempt has no active one.
LEMMA Unclaimed ==
  ASSUME Core, NEW t \in Tasks, task[t] \notin {"dispatched", "blocked"}
  PROVE  ActiveOf(t) = {}
<1>1. ASSUME NEW d \in ActiveOf(t) PROVE FALSE
  BY OnlyOne DEF ActiveOf, RowsOf
<1> QED BY <1>1

\* A new task has no attempt.
LEMMA CreateTaskCore ==
  ASSUME Core, NEW t \in Tasks, CreateTask(t)
  PROVE  Core'
<1>1. PICK D \in SUBSET {u \in Tasks : task[u] # "absent"} :
         /\ deps' = [deps EXCEPT ![t] = D]
         /\ task' = [task EXCEPT ![t] = IF \A u \in D : task[u] = "completed"
                                        THEN "ready" ELSE "pending"]
  BY DEF CreateTask
<1>2. SideStep
  BY <1>1, NullsAssumption DEF CreateTask, SideStep, Core, TypeOK, attempt, gates
<1>3. ActiveOf(t) = {}
  BY Unclaimed DEF CreateTask
<1>4. PICK v \in {"ready", "pending"} : task' = [task EXCEPT ![t] = v]
  BY <1>1
<1>5. Moves(t, v) /\ v \in TaskStatus \ {"dispatched"}
  BY <1>4, Statuses DEF Moves, Core, TypeOK
<1>6. UNCHANGED <<rows, dTask, dStatus, worker>>
  BY DEF CreateTask, attempt
<1> QED BY <1>2, <1>3, <1>5, <1>6, TaskStep

\* Opening a gate settles the task's unsupervised attempt.
LEMMA CreateGateCore ==
  ASSUME Core, NEW t \in Tasks, NEW g \in Gates, CreateGate(t, g)
  PROVE  Core'
<1>1. SideStep
  BY NullsAssumption DEF CreateGate, SettleActive, SideStep, Core, TypeOK, attempt
<1>2. Moves(t, "blocked")
  BY Statuses DEF CreateGate, Moves, Core, TypeOK
<1>3. UNCHANGED <<rows, dTask>> /\ "blocked" \in TaskStatus
  BY Statuses DEF CreateGate, attempt
<1>4. CASE ActiveOf(t) = {}
  <2>1. UNCHANGED <<dStatus, worker>>
    BY <1>4 DEF CreateGate, SettleActive, Core, TypeOK
  <2> QED BY <1>1, <1>2, <1>3, <1>4, <2>1, TaskStep
<1>5. CASE ActiveOf(t) # {}
  <2>1. PICK d \in ActiveOf(t) : TRUE
    BY <1>5
  <2>2. d \in Dispatches /\ dTask[d] = t /\ Active(d) /\ ActiveOf(t) = {d}
    BY <2>1, OnlyOne DEF ActiveOf, RowsOf
  <2>3. worker[d] = "none"
    BY <2>2 DEF CreateGate, Supervised, Core, WorkerAgreesWithDispatch
  <2>4. /\ dStatus' = [dStatus EXCEPT ![d] = "completed"]
        /\ worker' = [worker EXCEPT ![d] = "none"]
    <3>1. SettleActive(t, "completed")
      BY DEF CreateGate
    <3>2. dStatus' = [dStatus EXCEPT ![d] = "completed"]
      BY <2>2, <3>1 DEF SettleActive, Core, TypeOK
    <3>3. worker' = [worker EXCEPT ![d] = "none"]
      BY <2>2, <2>3, <3>1 DEF SettleActive, Core, TypeOK, Live
    <3> QED BY <3>2, <3>3
  <2>5. Agree("none", "completed", "blocked") /\ "completed" \notin ActiveStatus
    BY Statuses DEF Agree, ActiveStatus
  <2> QED BY <1>1, <1>2, <1>3, <2>2, <2>4, <2>5, AttemptStep
<1> QED BY <1>4, <1>5

\* Resolving a gate and re-blocking write a task without an active attempt.
LEMMA GateCore ==
  ASSUME Core, NEW g \in Gates, GateNext(g)
  PROVE  Core'
<1> DEFINE t == gateTask[g]
<1>1. t \in Tasks /\ ActiveOf(t) = {}
  BY NullsAssumption DEF GateNext, ResolveGate, Reblock, Core, TypeOK
<1>2. SideStep
  BY NullsAssumption DEF GateNext, ResolveGate, Reblock, SideStep, Core, TypeOK, attempt, gates
<1>3. PICK v \in {"ready", "blocked"} : task' = [task EXCEPT ![t] = v]
  BY DEF GateNext, ResolveGate, Reblock
<1>4. Moves(t, v) /\ v \in TaskStatus \ {"dispatched"}
  BY <1>1, <1>3, Statuses DEF Moves, Core, TypeOK
<1>5. UNCHANGED <<rows, dTask, dStatus, worker>>
  BY DEF GateNext, ResolveGate, Reblock, attempt
<1> QED BY <1>1, <1>2, <1>4, <1>5, TaskStep

-----------------------------------------------------------------------------
(* Opening an attempt, and the actions that change no status.              *)

\* An adopted terminal's attempt is opened only for a ready task.
LEMMA CreateDispatchContextCore ==
  ASSUME Core, NEW t \in Tasks, NEW h \in Handles, CreateDispatchContext(t, h)
  PROVE  Core'
<1>1. ActiveOf(t) = {}
  BY Unclaimed DEF CreateDispatchContext
<1>2. PICK count \in {0} \cup {failures[d] : d \in RowsOf(t)} :
         Insert(t, "dispatched", count, h, "none", FALSE)
  BY DEF CreateDispatchContext
<1>3. count \in Nat
  BY DEF RowsOf, Core, TypeOK
<1>4. deps' \in [Tasks -> SUBSET Tasks] /\ task' = [task EXCEPT ![t] = "dispatched"]
  BY DEF CreateDispatchContext, Core, TypeOK
<1> QED BY <1>1, <1>2, <1>3, <1>4, OpenStep DEF ActiveStatus

\* A first start finds the task ready; a retry finds its latest attempt over.
LEMMA StartWorkerCore ==
  ASSUME Core, NEW t \in Tasks, NEW remote \in BOOLEAN, StartWorker(t, remote)
  PROVE  Core'
<1>1. ActiveOf(t) = {}
  <2>1. CASE task[t] = "ready"
    BY <2>1, Unclaimed
  <2>2. ASSUME NEW d \in RowsOf(t), Retryable(d), NEW e \in ActiveOf(t) PROVE FALSE
    <3>1. e \in RowsOf(t) /\ Active(e) /\ e \in Dispatches /\ d \in Dispatches /\ dTask[d] = t
      BY DEF ActiveOf, RowsOf
    <3>2. e <= d /\ d <= e
      BY <2>2, <3>1 DEF Retryable, Latest, RowsOf, Core, OneActiveAttempt
    <3>3. Active(d)
      BY <3>1, <3>2 DEF Dispatches
    <3>4. worker[d] = "none" \/ worker[d] \in Live
      BY <3>1, <3>3 DEF Core, WorkerAgreesWithDispatch
    <3> QED BY <2>2, <3>3, <3>4 DEF Retryable, Active, ActiveStatus, Live
  <2> QED BY <2>1, <2>2 DEF StartWorker
<1>2. deps' \in [Tasks -> SUBSET Tasks] /\ task' = [task EXCEPT ![t] = "dispatched"]
  BY DEF StartWorker, Core, TypeOK
<1> QED BY <1>1, <1>2, OpenStep DEF StartWorker, ActiveStatus

\* A task created by worker-start has no earlier attempt.
LEMMA StartWorkerOnNewTaskCore ==
  ASSUME Core, NEW t \in Tasks, NEW remote \in BOOLEAN, StartWorkerOnNewTask(t, remote)
  PROVE  Core'
<1>1. ActiveOf(t) = {}
  BY Unclaimed DEF StartWorkerOnNewTask
<1>2. deps' \in [Tasks -> SUBSET Tasks] /\ task' = [task EXCEPT ![t] = "dispatched"]
  BY DEF StartWorkerOnNewTask, Core, TypeOK
<1>3. Insert(t, "pending", 0, NoHandle, "starting", remote)
  BY DEF StartWorkerOnNewTask
<1> QED BY <1>1, <1>2, <1>3, OpenStep DEF ActiveStatus

\* Claiming a terminal, asking and answering change no status.
LEMMA QuietCore ==
  ASSUME Core, NEW d \in Dispatches,
         \/ \E h \in Handles : AttachAuthority(d, h)
         \/ AskQuestion(d) \/ ImportFederatedQuestion(d) \/ AnswerQuestion(d)
  PROVE  Core'
<1>1. UNCHANGED <<task, rows, dTask, dStatus, worker>>
  BY DEF AttachAuthority, AskQuestion, ImportFederatedQuestion, AnswerQuestion, attempt
<1>2. SideStep
  BY NullsAssumption
     DEF AttachAuthority, AskQuestion, ImportFederatedQuestion, AnswerQuestion, SideStep,
         Core, TypeOK, attempt, gates
<1> QED BY <1>1, <1>2, QuietStep

\* A restart finds every worker row in agreement with its attempt.
LEMMA RestartCore ==
  ASSUME Core, Restart
  PROVE  Core'
<1>1. UNCHANGED <<task, rows, dTask, dStatus>>
  BY DEF Restart, attempt
<1>2. SideStep
  BY NullsAssumption DEF Restart, SideStep, Core, TypeOK, attempt, gates
<1>3. worker' = worker
  <2>1. ASSUME NEW d \in Dispatches PROVE ~(worker[d] \in Live /\ ~Active(d))
    BY OnlyOne
  <2> QED BY <2>1 DEF Restart, Core, TypeOK
<1> QED BY <1>1, <1>2, <1>3, QuietStep

-----------------------------------------------------------------------------
(* The theorems.                                                           *)

\* An empty database satisfies Core.
LEMMA InitCore == Init => Core
<1> SUFFICES ASSUME Init PROVE Core
  OBVIOUS
<1>1. TypeOK
  BY BoundsAssumption DEF Init, TypeOK, Dispatches
<1>2. \A d \in Dispatches : ~Active(d) /\ worker[d] = "none"
  BY DEF Init, Active, ActiveStatus
<1>3. \A t \in Tasks : task[t] = "absent"
  BY DEF Init
<1> QED BY <1>1, <1>2, <1>3
        DEF Core, OneActiveAttempt, TaskAttemptAgreement, WorkerAgreesWithDispatch,
            DoubtBlocksTask, Live

\* Every transaction keeps Core.
LEMMA NextCore == Core /\ [Next]_vars => Core'
<1> SUFFICES ASSUME Core, [Next]_vars PROVE Core'
  OBVIOUS
<1>1. ASSUME NEW t \in Tasks, TaskNext(t) PROVE Core'
  BY <1>1, CreateTaskCore, UpdateTaskStatusCore, CreateGateCore, CreateDispatchContextCore,
     StartWorkerCore, StartWorkerOnNewTaskCore
     DEF TaskNext
<1>2. ASSUME NEW g \in Gates, GateNext(g) PROVE Core'
  BY <1>2, GateCore
<1>3. ASSUME NEW d \in Dispatches, DispatchNext(d) PROVE Core'
  BY <1>3, StartCore, StopCore, EndCore, FederatedStartCore, ReportCore, QuietCore
     DEF DispatchNext
<1>4. CASE Restart
  BY <1>4, RestartCore
<1>5. CASE UNCHANGED vars
  <2>1. SideStep
    BY <1>5, NullsAssumption DEF vars, SideStep, Core, TypeOK
  <2> QED BY <1>5, <2>1, QuietStep DEF vars
<1> QED BY <1>1, <1>2, <1>3, <1>4, <1>5 DEF Next

\* The columns of the tables keep their types, rows are whole, no operation
\* loses an attempt's or a gate's task, and the four agreements below hold
\* together in every reachable state.
THEOREM CoreInvariant == Spec => []Core
<1>1. Init => Core
  BY InitCore
<1>2. Core /\ [Next]_vars => Core'
  BY NextCore
<1> QED BY <1>1, <1>2, PTL DEF Spec

\* Every write of the orchestration database keeps its columns in their types.
THEOREM TypeCorrect == Spec => []TypeOK
<1>1. Core => TypeOK
  BY DEF Core
<1> QED BY <1>1, CoreInvariant, PTL

\* At most one Dispatch of a Task is active, and it is the latest: no retry,
\* late answer, exit or restart makes a second attempt authoritative.
THEOREM OneActiveAttemptHolds == Spec => []OneActiveAttempt
<1>1. Core => OneActiveAttempt
  BY DEF Core
<1> QED BY <1>1, CoreInvariant, PTL

\* A Task claimed by an active Dispatch is dispatched or blocked, and a
\* dispatched Task has an active Dispatch.
THEOREM TaskAttemptAgreementHolds == Spec => []TaskAttemptAgreement
<1>1. Core => TaskAttemptAgreement
  BY DEF Core
<1> QED BY <1>1, CoreInvariant, PTL

\* The two rows of a supervised attempt, in dispatch_contexts and in
\* worker_dispatches, never contradict each other.
THEOREM WorkerAgreesWithDispatchHolds == Spec => []WorkerAgreesWithDispatch
<1>1. Core => WorkerAgreesWithDispatch
  BY DEF Core
<1> QED BY <1>1, CoreInvariant, PTL

\* The Task of an active attempt is blocked exactly while a start or a stop of
\* its worker has an unknown outcome, or the stop is under way.
THEOREM DoubtBlocksTaskHolds == Spec => []DoubtBlocksTask
<1>1. Core => DoubtBlocksTask
  BY DEF Core
<1> QED BY <1>1, CoreInvariant, PTL

=============================================================================
