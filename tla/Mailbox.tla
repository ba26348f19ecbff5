------------------------------- MODULE Mailbox -------------------------------
(***************************************************************************)
(* Mailboxes, deliveries and the orchestration.check call                  *)
(* (src/src/main/runtime/orchestration/db/messages, db/runs,               *)
(* rpc/methods/orchestration/messaging, rpc/methods/orchestration/runs).   *)
(*                                                                         *)
(* Mail is read in two steps.  A check hands out a batch as a delivery and *)
(* a later check acknowledges it; only then are its messages read, and     *)
(* until then the same batch is handed out again.  The mailbox of a Run is *)
(* read by the pane bound to the Run, and binding another pane fences the  *)
(* batches handed out before.  The mailbox of a Dispatch is read by its    *)
(* assignee, also once that pane has a Run of its own to read.             *)
(*                                                                         *)
(* A check is several awaited steps and may wait for mail in between, so a *)
(* takeover, a settlement, new mail or another check can come after any of *)
(* them; its answer can be lost and the runtime can restart.               *)
(*                                                                         *)
(* Two Runs, R and S, of which S does not exist at first, and one active   *)
(* Dispatch of R.  Left out: the direct mailboxes of terminals, message    *)
(* types and the waits for one type, peeking and history (they read        *)
(* nothing), --run, legacy contracts, federated attachments and the        *)
(* pointers written into terminals.  A check that fails and one that finds *)
(* nothing are the same to the model: the pane gets no delivery.           *)
(***************************************************************************)
EXTENDS Naturals, Sequences, FiniteSets

CONSTANTS
  Panes,        \* the terminal panes that call
  Coordinator,  \* the pane bound to R at first
  Assignee,     \* the pane the Dispatch of R is assigned to
  Calls,        \* bound: the checks under way at a time
  BatchLimit,   \* ORCHESTRATION_DELIVERY_BATCH_LIMIT, 50 in the code
  MaxMessages,  \* bound: messages ever sent
  MayBind,      \* bound: the pairs of a pane and a Run it may bind
  MaySettle,    \* bound: whether the Dispatch settles
  MaxBinds,     \* bound: bindings and rebindings
  MaxFaults     \* bound: lost answers and restarts

ASSUME MailboxAssumption ==
  /\ {Coordinator, Assignee} \subseteq Panes /\ "none" \notin Panes
  /\ BatchLimit \in Nat \ {0} /\ {MaxMessages, MaxBinds, MaxFaults} \subseteq Nat
  /\ MayBind \subseteq Panes \X {"R", "S"} /\ MaySettle \in BOOLEAN

None  == "none"
Runs  == {"R", "S"}
X     == "X"             \* the mailbox dispatch:<id>; a Run's is named after it
Boxes == Runs \cup {X}

VARIABLES
  runs,        \* runs: the pane bound and consumer_generation, 0 before it exists
  active,      \* the Dispatch is pending or dispatched
  msgs,        \* messages by sequence: the mailbox and who read it
  deliveries,  \* deliveries by id
  calls,       \* the checks under way
  held,        \* the delivery each pane was last given, 0 for none
  binds,       \* bindings so far
  faults       \* faults so far

vars == <<runs, active, msgs, deliveries, calls, held, binds, faults>>

\* A call that reads no mailbox (any more): what it gives, to whom, and up to
\* which message it moves mail.
Plain(phase, pane, give, thru) ==
  [phase |-> phase, pane |-> pane, box |-> X, gen |-> 0, ack |-> 0,
   give |-> give, thru |-> thru]

Idle == Plain("idle", None, 0, 0)

Init ==
  /\ runs = [r \in Runs |-> IF r = "R" THEN [coord |-> Coordinator, gen |-> 1]
                                       ELSE [coord |-> None, gen |-> 0]]
  /\ active = TRUE /\ msgs = <<>> /\ deliveries = <<>>
  /\ calls = [c \in Calls |-> Idle] /\ held = [p \in Panes |-> 0]
  /\ binds = 0 /\ faults = 0

-----------------------------------------------------------------------------
(* Who reads what.                                                         *)

\* getCurrentRunForCoordinator: a pane is bound to one Run at most.
BoundTo(p, r) == runs[r].coord = p

\* currentDispatchAssigneeRun.
AssigneeRuns == {r \in Runs : BoundTo(Assignee, r)}

\* The generation of the Dispatch never changes: it is 1.
Generation(box) == IF box = X THEN 1 ELSE runs[box].gen

\* requireMailboxConsumer.
IsConsumer(box, gen) == Generation(box) = gen /\ (box = X => active)

Unread(box) == {i \in DOMAIN msgs : msgs[i].box = box /\ msgs[i].by = None}

\* The view outstanding_deliveries: batches that are not acknowledged, fenced
\* or read some other way.
Outstanding(box) ==
  {d \in DOMAIN deliveries :
     /\ deliveries[d].box = box /\ deliveries[d].status = "outstanding"
     /\ \E i \in deliveries[d].ids : msgs[i].by = None}

\* The first BatchLimit of a set of sequence numbers.
Page(S) == {i \in S : Cardinality({j \in S : j <= i}) <= BatchLimit}

\* Mutant: any batch is acknowledged from any mailbox.
AckAllowedAnywhere(box, gen, d) ==
  /\ IsConsumer(box, gen)
  /\ deliveries[d].gen = gen /\ deliveries[d].status # "fenced"

\* The checks acknowledgeMailboxDelivery makes before it accepts.
AckAllowed(box, gen, d) ==
  /\ IsConsumer(box, gen)
  /\ deliveries[d].box = box
  /\ deliveries[d].gen = gen /\ deliveries[d].status # "fenced"

\* Acknowledging marks the batch read and settles the delivery; a second
\* acknowledgment is answered like the first and changes nothing.
AckBatch(d, p) ==
  IF deliveries[d].status = "acknowledged" THEN UNCHANGED <<msgs, deliveries>>
  ELSE /\ msgs' = [i \in DOMAIN msgs |->
                     IF i \in deliveries[d].ids /\ msgs[i].by = None
                       THEN [msgs[i] EXCEPT !.by = p] ELSE msgs[i]]
       /\ deliveries' = [deliveries EXCEPT ![d].status = "acknowledged"]

\* Fencing the batches of a mailbox that are not acknowledged.
Fenced(boxes) ==
  [d \in DOMAIN deliveries |->
     IF deliveries[d].box \in boxes /\ deliveries[d].status = "outstanding"
       THEN [deliveries[d] EXCEPT !.status = "fenced"] ELSE deliveries[d]]

-----------------------------------------------------------------------------
(* The steps of a check.                                                   *)

End(c) == calls' = [calls EXCEPT ![c] = Idle]

Goto(c, phase) == calls' = [calls EXCEPT ![c].phase = phase]

Reply(c, d) == calls' = [calls EXCEPT ![c] = Plain("reply", calls[c].pane, d, 0)]

\* RuntimeMessageWaiters: the waiters of some mailboxes are resolved.
Resolve(cs, boxes, phase) ==
  [c \in Calls |-> IF cs[c].phase = "parked" /\ cs[c].box \in boxes
                     THEN [cs[c] EXCEPT !.phase = phase] ELSE cs[c]]

\* orchestration.check picks the mailbox: that of the Run the pane is bound
\* to, else that of its active Dispatch, and remembers the generation.  The
\* caller acknowledges the batch it was last given, or nothing.
Begin(c, p, ack) ==
  /\ calls[c] = Idle /\ ack \in {0, held[p]}
  /\ c = CHOOSE o \in Calls : calls[o] = Idle      \* any free slot
  /\ \E box \in Boxes :
       /\ \/ box \in Runs /\ BoundTo(p, box)
          \/ box = X /\ active /\ p = Assignee /\ \A r \in Runs : ~BoundTo(p, r)
       /\ calls' = [calls EXCEPT ![c] =
            [phase |-> "called", pane |-> p, box |-> box, gen |-> Generation(box),
             ack |-> ack, give |-> 0, thru |-> 0]]
  /\ UNCHANGED <<runs, active, msgs, deliveries, held, binds, faults>>

\* revalidateConsumer of a Run's check.
RunCurrent(call) == BoundTo(call.pane, call.box) /\ runs[call.box].gen = call.gen

\* The caller is also the assignee of a Dispatch.
Residual(call) == active /\ call.pane = Assignee

\* Mutant: a Run's check takes every acknowledgment for one of its own.
ResidualAckNever(call) == FALSE /\ call.ack # 0

\* It acknowledges a batch of that mailbox.
ResidualAck(call) ==
  Residual(call) /\ call.ack # 0 /\ deliveries[call.ack].box = X

\* Mail of the Dispatch is drained before that of the Run, unless the Run is
\* the Dispatch's own or has a batch to hand out again.
DrainsResidual(call) ==
  /\ Residual(call) /\ call.box # "R"
  /\ ResidualAck(call) \/ Outstanding(call.box) \subseteq {call.ack}

AckRun(c) ==
  LET call == calls[c]
      next == IF DrainsResidual(call) THEN "residual" ELSE "read"
  IN
  /\ call.phase = "called" /\ call.box \in Runs
  /\ \/ /\ \/ ~RunCurrent(call)
           \/ ResidualAck(call) /\ ~DrainsResidual(call)
           \/ call.ack # 0 /\ ~ResidualAck(call) /\ ~AckAllowed(call.box, call.gen, call.ack)
        /\ End(c) /\ UNCHANGED <<msgs, deliveries>>
     \/ /\ RunCurrent(call)
        /\ call.ack = 0 \/ (ResidualAck(call) /\ DrainsResidual(call))
        /\ Goto(c, next) /\ UNCHANGED <<msgs, deliveries>>
     \/ /\ RunCurrent(call) /\ call.ack # 0 /\ ~ResidualAck(call)
        /\ AckAllowed(call.box, call.gen, call.ack)
        /\ AckBatch(call.ack, call.pane)
        /\ calls' = [calls EXCEPT ![c].phase = next, ![c].ack = 0]
  /\ UNCHANGED <<runs, active, held, binds, faults>>

\* getOrCreateMailboxDelivery: the outstanding batch again, else a new one.
Refused(box, gen) ==
  ~IsConsumer(box, gen) \/ \E d \in Outstanding(box) : deliveries[d].gen # gen

FindsNothing(box, gen) ==
  ~Refused(box, gen) /\ Outstanding(box) = {} /\ Unread(box) = {}

\* Mutant: the batch is handed out though its transaction did not commit.
HandOutUncommitted(c, box, gen) ==
  /\ ~Refused(box, gen)
  /\ \/ \E d \in Outstanding(box) : Reply(c, d)
     \/ Outstanding(box) = {} /\ Unread(box) # {} /\ Reply(c, Len(deliveries) + 1)
  /\ UNCHANGED deliveries

HandOut(c, box, gen) ==
  /\ ~Refused(box, gen)
  /\ \/ \E d \in Outstanding(box) : Reply(c, d) /\ UNCHANGED deliveries
     \/ /\ Outstanding(box) = {} /\ Unread(box) # {}
        /\ deliveries' = Append(deliveries,
             [box |-> box, gen |-> gen, ids |-> Page(Unread(box)), status |-> "outstanding"])
        /\ Reply(c, Len(deliveries) + 1)

\* A page of what the Dispatch's mailbox held is moved to the Run; the last
\* page wakes the Run's reader.  Between two pages other events run.
RoutePage(c, through) ==
  LET todo == {i \in Unread(X) : i <= through}
      page == Page(todo)
  IN /\ msgs' = [i \in DOMAIN msgs |->
                   IF i \in page THEN [msgs[i] EXCEPT !.box = "R"] ELSE msgs[i]]
     /\ calls' = IF page = todo
          THEN Resolve([calls EXCEPT ![c] = Idle], {"R"}, "woken")
          ELSE [calls EXCEPT ![c] = Plain("rerouting", None, 0, through)]

\* Mutant: any failed revalidation moves the mail, also of an active Dispatch.
DispatchReplaced(c) ==
  /\ IF Unread(X) = {} THEN End(c) /\ UNCHANGED msgs ELSE RoutePage(c, Len(msgs))
  /\ UNCHANGED deliveries

\* revalidateWorkerMailbox of a Dispatch that is not active any more.
DispatchInactive(c) ==
  /\ ~active
  /\ IF Unread(X) = {} THEN End(c) /\ UNCHANGED msgs ELSE RoutePage(c, Len(msgs))
  /\ UNCHANGED deliveries

Reroute(c) ==
  /\ calls[c].phase = "rerouting" /\ RoutePage(c, calls[c].thru)
  /\ UNCHANGED <<runs, active, deliveries, held, binds, faults>>

\* checkWorkerMailbox up to the acknowledgment, of an assignee without a Run
\* (next is then "read") and of one that drains it from a Run's check.
AckDispatch(c, next) ==
  LET call == calls[c] IN
  \/ DispatchInactive(c)
  \/ /\ active /\ (call.box \in Runs => RunCurrent(call))
     /\ call.ack = 0 /\ Goto(c, next) /\ UNCHANGED <<msgs, deliveries>>
  \/ /\ active /\ (call.box \in Runs => RunCurrent(call))
     /\ call.ack # 0 /\ AckAllowed(X, 1, call.ack)
     /\ AckBatch(call.ack, call.pane)
     /\ calls' = [calls EXCEPT ![c].phase = next, ![c].ack = 0]
  \/ /\ active
     /\ \/ call.box \in Runs /\ ~RunCurrent(call)
        \/ call.ack # 0 /\ ~AckAllowed(X, 1, call.ack)
     /\ End(c) /\ UNCHANGED <<msgs, deliveries>>

CheckWorker(c) ==
  /\ calls[c].phase = "called" /\ calls[c].box = X /\ AckDispatch(c, "read")
  /\ UNCHANGED <<runs, active, held, binds, faults>>

DrainAck(c) ==
  /\ calls[c].phase = "residual" /\ AckDispatch(c, "drain")
  /\ UNCHANGED <<runs, active, held, binds, faults>>

\* The drain hands out a batch of the Dispatch, unless the Run has one to
\* replay; without one the check goes on to the Run.
DrainRead(c) ==
  LET call == calls[c] IN
  /\ call.phase = "drain"
  /\ \/ Outstanding(call.box) # {} /\ Goto(c, "read") /\ UNCHANGED deliveries
     \/ Outstanding(call.box) = {} /\ FindsNothing(X, 1) /\ Goto(c, "read") /\ UNCHANGED deliveries
     \/ Outstanding(call.box) = {} /\ HandOut(c, X, 1)
     \/ Outstanding(call.box) = {} /\ Refused(X, 1) /\ End(c) /\ UNCHANGED deliveries
  /\ UNCHANGED <<runs, active, msgs, held, binds, faults>>

\* waitForMessage: only one check of a Run waits; the assignee of a Dispatch
\* does not wait once its pane is bound to a Run.
Park(c) ==
  LET call == calls[c] IN
  \/ call.box \in Runs /\ (\E o \in Calls : calls[o].phase = "parked" /\ calls[o].box = call.box) /\ End(c)
  \/ call.box \in Runs /\ (\A o \in Calls : calls[o].phase = "parked" => calls[o].box # call.box) /\ Goto(c, "parked")
  \/ call.box = X /\ AssigneeRuns = {} /\ Goto(c, "parked")
  \/ call.box = X /\ AssigneeRuns # {} /\ Goto(c, "ended")

Replaced(call) == call.box \in Runs /\ ~RunCurrent(call)

Read(c) ==
  LET call == calls[c]
      refused == Replaced(call) \/ Refused(call.box, call.gen)
  IN
  /\ call.phase = "read"
  /\ \/ refused /\ End(c) /\ UNCHANGED deliveries
     \/ ~refused /\ HandOut(c, call.box, call.gen)
     \/ /\ ~refused /\ FindsNothing(call.box, call.gen)
        /\ Park(c) \/ End(c)      \* with --wait, and without
        /\ UNCHANGED deliveries
  /\ UNCHANGED <<runs, active, msgs, held, binds, faults>>

\* After the wait the mailbox is read again, if mail came and the caller is
\* still its reader.
WakeUp(c) ==
  LET call == calls[c]
      reads == call.phase = "woken" /\ ~Replaced(call)
  IN
  /\ call.phase \in {"woken", "ended"}
  /\ \/ call.box = X /\ DispatchInactive(c)
     \/ /\ call.box = X => active
        /\ reads /\ HandOut(c, call.box, call.gen) /\ UNCHANGED msgs
     \/ /\ call.box = X => active
        /\ ~reads \/ Refused(call.box, call.gen) \/ FindsNothing(call.box, call.gen)
        /\ End(c) /\ UNCHANGED <<msgs, deliveries>>
  /\ UNCHANGED <<runs, active, held, binds, faults>>

\* The wait runs out, or its caller hangs up.
Timeout(c) ==
  /\ calls[c].phase = "parked" /\ Goto(c, "ended")
  /\ UNCHANGED <<runs, active, msgs, deliveries, held, binds, faults>>

\* The answer reaches the pane, or is lost.
Answer(c) ==
  /\ calls[c].phase = "reply" /\ End(c)
  /\ held' = [held EXCEPT ![calls[c].pane] = calls[c].give]
  /\ UNCHANGED <<runs, active, msgs, deliveries, binds, faults>>

LoseAnswer(c) ==
  /\ calls[c].phase = "reply" /\ faults < MaxFaults /\ End(c)
  /\ faults' = faults + 1
  /\ UNCHANGED <<runs, active, msgs, deliveries, held, binds>>

-----------------------------------------------------------------------------
(* Everything else that touches the mailboxes.                             *)

\* A message for the assignee of a Dispatch goes to the Run it coordinates by
\* now; one for a settled Dispatch is refused.  The waiting checks wake.
Send(to) ==
  LET box == IF to = X /\ "S" \in AssigneeRuns THEN "S" ELSE to IN
  /\ Len(msgs) < MaxMessages
  /\ to = X => active
  /\ to \in Runs => runs[to].gen > 0
  /\ msgs' = Append(msgs, [box |-> box, by |-> None])
  /\ calls' = Resolve(calls, {box}, "woken")
  /\ UNCHANGED <<runs, active, deliveries, held, binds, faults>>

\* Mutants: binding keeps the consumer generation and what it had handed out,
\* or only what it had handed out.
BindInPlace(p, r, fresh) ==
  /\ <<p, r>> \in MayBind /\ binds < MaxBinds
  /\ runs' = [q \in Runs |->
       IF q = r THEN [coord |-> p, gen |-> IF runs[q].gen = 0 THEN 1 ELSE runs[q].gen]
       ELSE IF BoundTo(p, q) THEN [runs[q] EXCEPT !.coord = None] ELSE runs[q]]
  /\ calls' = Resolve(calls, {r}, "ended")
  /\ binds' = binds + 1
  /\ UNCHANGED <<active, msgs, deliveries, held, faults>>

BindUnfenced(p, r, fresh) ==
  /\ <<p, r>> \in MayBind /\ binds < MaxBinds
  /\ runs' = [q \in Runs |->
       IF q = r /\ fresh THEN [coord |-> p, gen |-> runs[q].gen + 1]
       ELSE IF q # r /\ BoundTo(p, q) THEN [coord |-> None, gen |-> runs[q].gen + 1] ELSE runs[q]]
  /\ calls' = Resolve(calls, {r}, "ended")
  /\ binds' = binds + 1
  /\ UNCHANGED <<active, msgs, deliveries, held, faults>>

\* What binding a pane to a Run does: it leaves the Run it was bound to, both
\* get a new consumer generation, what they had handed out is fenced, and
\* the checks waiting on either, or on its Dispatch, are cancelled.
Bind(p, r, fresh) ==
  LET left == {q \in Runs \ {r} : BoundTo(p, q)}
      own  == IF p = Assignee /\ active THEN {X} ELSE {}
  IN
  /\ <<p, r>> \in MayBind /\ binds < MaxBinds
  /\ runs' = [q \in Runs |->
       IF q = r /\ fresh THEN [coord |-> p, gen |-> runs[q].gen + 1]
       ELSE IF q \in left THEN [coord |-> None, gen |-> runs[q].gen + 1] ELSE runs[q]]
  /\ deliveries' = Fenced(left \cup (IF fresh THEN {r} ELSE {}))
  /\ calls' = Resolve(calls, left \cup {r} \cup own, "ended")
  /\ binds' = binds + 1
  /\ UNCHANGED <<active, msgs, held, faults>>

CreateRun(p) == runs["S"].gen = 0 /\ Bind(p, "S", TRUE)

\* run-use by the pane that is bound already changes something only if its
\* terminal handle is a new one.
UseRun(p, r, newHandle) ==
  /\ runs[r].gen > 0 /\ (newHandle => BoundTo(p, r))
  /\ Bind(p, r, ~BoundTo(p, r) \/ newHandle)

\* The Dispatch settles; checks waiting on it are not told.
Settle ==
  /\ MaySettle /\ active /\ active' = FALSE
  /\ UNCHANGED <<runs, msgs, deliveries, calls, held, binds, faults>>

Restart ==
  /\ faults < MaxFaults /\ faults' = faults + 1
  /\ calls' = [c \in Calls |-> Idle]
  /\ UNCHANGED <<runs, active, msgs, deliveries, held, binds>>

-----------------------------------------------------------------------------
Step(c) ==
  \/ AckRun(c) \/ CheckWorker(c) \/ DrainAck(c) \/ DrainRead(c) \/ Read(c)
  \/ WakeUp(c) \/ Timeout(c) \/ Answer(c) \/ Reroute(c)

Next ==
  \/ \E c \in Calls :
       \/ Step(c) \/ LoseAnswer(c)
       \/ \E p \in Panes : \E ack \in {0, held[p]} : Begin(c, p, ack)
  \/ \E box \in Boxes : Send(box)
  \/ \E p \in Panes : CreateRun(p) \/ \E r \in Runs, new \in BOOLEAN : UseRun(p, r, new)
  \/ Settle \/ Restart

Spec == Init /\ [][Next]_vars

\* A pane keeps checking its mail, with and without acknowledging what it was
\* last given, as the worker and coordinator guides ask it to; the runtime
\* goes on with the calls it serves and its waits run out.
Checks(p) == \E c \in Calls : Begin(c, p, 0)
Acks(p)   == held[p] # 0 /\ \E c \in Calls : Begin(c, p, held[p])

Fairness ==
  /\ \A c \in Calls : WF_vars(Step(c))
  /\ \A p \in Panes : SF_vars(Checks(p)) /\ SF_vars(Acks(p))

FairSpec == Spec /\ Fairness

-----------------------------------------------------------------------------
Phases == {"idle", "called", "residual", "drain", "read", "parked", "woken",
           "ended", "rerouting", "reply"}

TypeOK ==
  /\ runs \in [Runs -> [coord : Panes \cup {None}, gen : Nat]]
  /\ active \in BOOLEAN
  /\ msgs \in Seq([box : Boxes, by : Panes \cup {None}])
  /\ deliveries \in Seq([box : Boxes, gen : Nat, ids : SUBSET Nat,
                         status : {"outstanding", "acknowledged", "fenced"}])
  /\ \A d \in DOMAIN deliveries : deliveries[d].ids \subseteq DOMAIN msgs
  /\ calls \in [Calls -> [phase : Phases, pane : Panes \cup {None}, box : Boxes, gen : Nat,
                          ack : 0..Len(deliveries), give : 0..Len(deliveries), thru : Nat]]
  /\ held \in [Panes -> 0..Len(deliveries)]
  /\ binds \in Nat /\ faults \in Nat

Consumer(box) == IF box = X THEN IF active THEN Assignee ELSE None ELSE runs[box].coord

\* A batch that could be acknowledged now.
Live(d) == /\ deliveries[d].status = "outstanding"
           /\ IsConsumer(deliveries[d].box, deliveries[d].gen)

\* A batch that can still be acknowledged is in the hands, or in an answer on
\* its way to, the reader of its mailbox and nobody else: whoever was taken
\* over holds batches that are worth nothing.
SoleHolder ==
  \A d \in DOMAIN deliveries : Live(d) =>
    /\ \A p \in Panes : held[p] = d => p = Consumer(deliveries[d].box)
    /\ \A c \in Calls : calls[c].give = d => calls[c].pane = Consumer(deliveries[d].box)

\* A reader is never locked out of its mailbox by a batch that was handed out
\* to the one it replaced: getOrCreateMailboxDelivery would refuse it.
NotLockedOut ==
  \A r \in Runs : \A d \in Outstanding(r) : deliveries[d].gen = runs[r].gen

\* No unread message is in two batches that can both be acknowledged: it is
\* not worked on by two panes, also when the mail of a settled Dispatch moves
\* to its Run while the worker still holds a batch of it.
NoDoubleHandout ==
  \A d, e \in DOMAIN deliveries :
    d # e /\ Live(d) /\ Live(e) =>
      \A i \in deliveries[d].ids \cap deliveries[e].ids : msgs[i].by # None

\* A message becomes read only by the reader of the mailbox it is in, and only
\* as part of the batch that reader was given and named.
AckByOwner ==
  [][\A i \in DOMAIN msgs : msgs[i].by = None /\ msgs'[i].by # None =>
       /\ msgs'[i].by = Consumer(msgs[i].box)
       /\ \E c \in Calls : /\ calls[c].pane = msgs'[i].by /\ calls[c].ack # 0
                           /\ i \in deliveries[calls[c].ack].ids]_vars

Unseen(i, box) == i \in DOMAIN msgs /\ msgs[i].box = box /\ msgs[i].by = None

\* Mail does not stay unread in the mailbox of a Run that keeps its
\* coordinator, whatever was handed out, fenced or lost before.
RunMailRead ==
  \A i \in 1..MaxMessages, p \in Panes :
    []<>~(\E r \in Runs : Unseen(i, r) /\ BoundTo(p, r))

\* Nor in that of an active Dispatch, also when its assignee was bound to
\* another Run after the mail was sent.  An assignee that coordinates the
\* Dispatch's own Run never drains it (check-run-pending-mail.ts:73).
DispatchMailRead ==
  \A i \in 1..MaxMessages :
    []<>~(Unseen(i, X) /\ active /\ ~BoundTo(Assignee, "R"))
=============================================================================
