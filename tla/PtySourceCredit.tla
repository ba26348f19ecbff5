--------------------------- MODULE PtySourceCredit ---------------------------
(***************************************************************************)
(* The output of one terminal (PTY) on its way from the SSH relay to the   *)
(* application that owns the session, under source credit: the relay sends *)
(* one frame at a time within a window, retains what is not credited, and  *)
(* rotates the delivery when the owner reconnects with a checkpoint.       *)
(*                                                                         *)
(* Offsets are absolute counts of source units (UTF-16 code units). The    *)
(* operators on `relay' are the synchronous calls of the relay's process   *)
(* and compose as those calls do; an action is one callback of its event   *)
(* loop, or a step of the client or of the link.                           *)
(*                                                                         *)
(* Left out: clients other than the owner, transformed output, PTY pausing,*)
(* the turn limits of the scheduler, the direct flush of interactive       *)
(* output, a second attach on the same link, and budgets shared with other *)
(* PTYs except for the producer queue of the link.                         *)
(***************************************************************************)
EXTENDS Integers, Sequences, SequencesExt, FiniteSetsExt

CONSTANTS Chunks,     \* the end offset of each piece of output, in order
          Wide,       \* the offsets at which a cut would split a surrogate pair
          Window,     \* windowSu of every delivery
          FrameMax,   \* PTY_SOURCE_FRAME_MAX_SU
          Retain,     \* maxRetainedSourceSu
          MaxConns, MaxTokens, MaxFills   \* bounds of the model

\* The chunks are not empty, and every limit admits at least one unit.
ASSUME PtyAssumption ==
    /\ Chunks \in Seq(Nat \ {0}) /\ Chunks # <<>> /\ Wide \subseteq Nat
    /\ \A i, j \in DOMAIN Chunks : i < j => Chunks[i] < Chunks[j]
    /\ {Window, FrameMax, Retain, MaxConns, MaxTokens} \subseteq Nat \ {0}
    /\ MaxFills \in Nat

VARIABLES relay,      \* the relay's process, and the link's frames in flight
          client,     \* the owner: reattach state, accepted ends, checkpoint
          fills       \* how often the producer queue has filled

vars == <<relay, client, fills>>

None == -1
Ends == Range(Chunks)
Offset == {0} \cup Ends \cup 0..Max(Ends)

NoDelivery == [tok |-> 0, conn |-> 0, st |-> "closed", recv |-> 0, sent |-> 0,
               cred |-> 0, bounds |-> {}, pend |-> None, resAck |-> None,
               att |-> None, activating |-> FALSE, recEnd |-> None,
               completing |-> FALSE, restore |-> FALSE, exitSt |-> "idle",
               refused |-> FALSE]

\* createDeliveryRecord: everything up to `end' counts as sent and credited.
Delivery(s, st, recv, end, recEnd) ==
    [NoDelivery EXCEPT !.tok = s.tokens + 1, !.conn = s.conn, !.st = st,
        !.recv = recv, !.sent = end, !.cred = end, !.bounds = {end},
        !.activating = TRUE, !.recEnd = recEnd]

NoCheckpoint == [tok |-> 0, end |-> 0]

Init ==
    /\ relay = [d |-> NoDelivery, conn |-> 1, open |-> TRUE, full |-> FALSE,
                made |-> 0, taken |-> 0, timer |-> FALSE, draining |-> FALSE,
                exit |-> "no", died |-> FALSE, faulted |-> FALSE,
                tokens |-> 0, wire |-> <<>>]
    /\ client = [up |-> TRUE, phase |-> "none", tok |-> 0, next |-> 0,
                 upto |-> 0, ends |-> {}, ckpt |-> NoCheckpoint, bad |-> FALSE]
    /\ fills = 0

-----------------------------------------------------------------------------
(* The ledger: what one delivery record allows. *)

Own(s) == s.open /\ s.d.conn = s.conn
Fenced(s) == s.d.recEnd # None /\ s.d.sent >= s.d.recEnd

NextEnd(p) == Min({e \in Ends : e > p})

\* Mutant: the window bounds a frame, not what is sent and not credited.
RoomPerFrame(s) == Window

Room(s) == Window - (s.d.sent - s.d.cred)

\* The largest frame allowed now: an unreachable client has no budget, which
\* the scheduler rounds up to one unit; an acknowledgment that arrived before
\* its frame was settled fixes the length of the frame sent in its place.
MostUnits(s) ==
    LET most == Min({Room(s), IF Own(s) THEN FrameMax ELSE 1})
    IN  IF s.d.resAck = None THEN most
        ELSE IF s.d.resAck - s.d.sent \in 1..most THEN s.d.resAck - s.d.sent
        ELSE 0

Sendable(s) == /\ s.d.st \in {"active", "sealed"}
               /\ s.d.sent < s.d.recv
               /\ MostUnits(s) > 0

\* sliceForSend, which throws when it returns d.sent.
FrameEnd(s) ==
    LET cut == s.d.sent + MostUnits(s)
    IN  IF NextEnd(s.d.sent) <= cut THEN NextEnd(s.d.sent)
        ELSE IF cut \in Wide THEN cut - 1 ELSE cut

Credited(d, end) ==
    LET c == [d EXCEPT !.cred = end, !.resAck = None,
                       !.bounds = {b \in d.bounds : b >= end}]
    IN  IF d.st = "sealed" /\ d.exitSt = "published" /\ end = d.recv
        THEN [c EXCEPT !.st = "closed"] ELSE c

\* Mutant: the acknowledgment kept for this settlement is not applied.
CommittedKeepsAck(d) ==
    [d EXCEPT !.sent = d.pend, !.bounds = @ \cup {d.pend}, !.pend = None, !.att = None]

\* Mutant: the frame's end is not remembered as a boundary.
CommittedForgets(d) ==
    LET c == [d EXCEPT !.sent = d.pend, !.pend = None, !.att = None]
    IN  IF d.resAck = None THEN c ELSE Credited(c, d.resAck)

Committed(d) ==
    LET c == [d EXCEPT !.sent = d.pend, !.bounds = @ \cup {d.pend},
                       !.pend = None, !.att = None]
    IN  IF d.resAck = None THEN c ELSE Credited(c, d.resAck)

\* The ends the ledger credits: committed boundaries, and the end of the frame
\* whose settlement is awaited or that was acknowledged before it failed.
Ackable(d) == d.bounds \cup ({d.pend, d.resAck} \ {None})

\* A checkpoint the ledger can continue from.
Covers(d, ckpt) ==
    /\ ckpt.tok = d.tok /\ d.st # "closed" /\ d.pend = None
    /\ ckpt.end >= d.cred
    /\ ckpt.end \in d.bounds \/ ckpt.end = d.att

\* Mutant: the fence of an oversized recovery lies beyond the window.
RecoveryEndUnbounded(recv, end) == recv

\* Recovery must not need credit that only the recovered client can return.
RecoveryEnd(recv, end) == IF recv - end > Window THEN end ELSE recv

-----------------------------------------------------------------------------
(* Publication: the scheduler and the exit, as calls on the relay's state. *)

Sent(s, frame) == [s EXCEPT !.wire = Append(@, frame)]
Retired(s) == [s EXCEPT !.d = NoDelivery]

\* pendingOutputByPty.has(id): a flush takes the queue out of the map first.
Queued(s) == s.taken < s.made /\ ~s.draining
Rearmed(s) == [s EXCEPT !.timer = @ \/ Queued(s)]

\* tryNotifyPtyExit: with no client left to tell, it counts as published.
LegacyExit(s) ==
    CASE ~s.open -> [s EXCEPT !.exit = "done"]
      [] s.open /\ s.full -> s
      [] OTHER -> [Sent(s, [kind |-> "exit"]) EXCEPT !.exit = "done"]

\* A refused frame reports capacity, which publishes the pending exit, which
\* pumps the same frame again: the stack overflows, the fault is caught, the
\* delivery is retired and the exit goes out without it.
ExitRecursion(s) == LegacyExit(Retired([s EXCEPT !.faulted = TRUE]))

Refused(s, end) ==
    LET t == [s EXCEPT !.d.att = end, !.d.refused = Own(s)]
    IN  IF s.exit = "pending" /\ ~Queued(s) THEN ExitRecursion(t) ELSE Rearmed(t)

CompleteRecovery(s) ==
    IF s.d.activating \/ s.d.pend # None \/ s.d.completing \/ ~Fenced(s) \/ ~Own(s)
    THEN s
    ELSE [Sent(s, [kind |-> "complete", tok |-> s.d.tok]) EXCEPT !.d.completing = TRUE]

SendNext(s) ==
    LET end == FrameEnd(s)
    IN  CASE end = s.d.sent -> [s EXCEPT !.died = TRUE]
          [] end > s.d.sent /\ Own(s) /\ ~s.full ->
               [Sent(s, [kind |-> "data", tok |-> s.d.tok, start |-> s.d.sent, end |-> end])
                  EXCEPT !.d.pend = end, !.d.att = end, !.d.refused = FALSE]
          [] OTHER -> Refused(s, end)

Pump(s) ==
    IF s.d.activating \/ s.d.pend # None \/ s.d.restore THEN s
    ELSE IF Fenced(s) THEN CompleteRecovery(s)
    ELSE IF Sendable(s) THEN SendNext(s) ELSE s

\* Mutant: the exit frame does not wait for the data before it.
SealAndPublishEarly(s) ==
    LET t == Pump([s EXCEPT !.d.st = "sealed"])
    IN  IF t.exit = "pending" /\ t.d.tok # 0 /\ Own(t) /\ ~t.full
        THEN [Sent(t, [kind |-> "exit"]) EXCEPT !.d.exitSt = "pending"] ELSE t

\* The exit frame follows the last data frame's settlement. A throw of the
\* pump is caught here: the delivery is given up for the exit's sake.
SealAndPublish(s) ==
    LET t == Pump([s EXCEPT !.d.st = "sealed"])
        ready == t.exit = "pending" /\ t.d.tok # 0 /\ t.d.sent = t.d.recv
    IN  CASE t.died -> LegacyExit(Retired([t EXCEPT !.died = FALSE, !.faulted = TRUE]))
          [] ~t.died /\ ready /\ Own(t) /\ ~t.full ->
               [Sent(t, [kind |-> "exit"]) EXCEPT !.d.exitSt = "pending"]
          [] OTHER -> t

PublishExit(s) ==
    IF s.exit # "pending" \/ Queued(s) \/ s.died THEN s
    ELSE
    CASE s.d.tok # 0 /\ s.d.exitSt = "published" ->
           [s EXCEPT !.exit = "done", !.d = IF @.st = "closed" THEN NoDelivery ELSE @]
      [] s.d.tok # 0 /\ s.d.exitSt = "pending" -> s
      [] s.d.tok # 0 /\ s.d.exitSt = "idle" /\ s.d.st # "closed" -> SealAndPublish(s)
      [] OTHER -> LET t == LegacyExit(s) IN IF t.exit = "done" THEN Retired(t) ELSE t

\* handleSourcePublicationCapacity, and the listeners of notifyLegacyCapacity.
Capacity(s) == PublishExit(Rearmed(s))
\* Mutant: the listener of the link's capacity forgets the pending exits.
CapacitySignalOutputOnly(s) == Rearmed(CompleteRecovery(s))

CapacitySignal(s) == Capacity(CompleteRecovery(s))

\* The writer signals capacity after each settled frame, unless it is full.
Settled(s) == IF s.full THEN s ELSE CapacitySignal(s)

\* Mutant: returned credit does not start the next frame.
CreditAvailableUnpumped(s) ==
    IF s.d.st = "closed" /\ s.d.exitSt # "pending" THEN Capacity(Retired(s))
    ELSE Capacity(s)

CreditAvailable(s) ==
    IF s.d.tok = 0 \/ s.d.restore \/ s.d.exitSt = "pending" THEN s
    ELSE Capacity(IF s.d.st = "closed" THEN Retired(s) ELSE Pump(s))

-----------------------------------------------------------------------------
(* The relay's callbacks. *)

Alive == ~relay.died
Become(s) == Alive /\ relay' = s /\ UNCHANGED <<client, fills>>

\* The PTY writes its next chunk; it is queued and a flush is scheduled.
PtyOutput ==
    /\ relay.exit = "no" /\ relay.made < Max(Ends)
    /\ Become([relay EXCEPT !.made = NextEnd(@), !.timer = TRUE])

\* Whether the first queued chunk is taken: without a delivery it only stays in
\* the replay buffer; a delivery may be fenced, sealed or at its retained limit.
Accepts(s) ==
    \/ s.d.tok = 0
    \/ /\ s.d.st = "active" /\ s.d.recEnd = None
       /\ NextEnd(s.taken) - s.d.cred <= Retain

Publish(s) ==
    LET t == [s EXCEPT !.taken = NextEnd(@)]
    IN  IF s.d.tok = 0 THEN t ELSE Pump([t EXCEPT !.d.recv = t.taken])

\* A flush publishes one chunk; once refused, only a capacity call tries again.
FlushQueued(s) ==
    IF ~Accepts(s) THEN [s EXCEPT !.timer = FALSE]
    ELSE LET t == [Publish([s EXCEPT !.draining = TRUE]) EXCEPT !.draining = FALSE]
         IN  IF Queued(t) THEN [t EXCEPT !.timer = TRUE]
             ELSE PublishExit([t EXCEPT !.timer = FALSE])

FlushDue == relay.timer /\ Queued(relay)
Flush == FlushDue /\ Become(FlushQueued(relay))

\* onExit publishes one chunk of the queue, in place, and then the exit.
ExitNow(s) ==
    LET t == IF Queued(s) /\ Accepts(s) THEN Publish(s) ELSE s
    IN  PublishExit([t EXCEPT !.exit = "pending"])

PtyExit == relay.exit = "no" /\ Become(ExitNow(relay))

\* The settlement of the frame in flight: commit, then everything it unblocks.
CommitSend(s) == Pump(Capacity(CompleteRecovery([s EXCEPT !.d = Committed(@)])))

DataWritten == Own(relay) /\ relay.d.pend # None
SettleData == DataWritten /\ Become(Settled(CommitSend(relay)))

\* A delivery canceled while its exit frame was in flight stays closed.
ExitPublished(s) == [s EXCEPT !.d.exitSt = "published",
                              !.d.st = IF s.d.cred = s.d.recv THEN "closed" ELSE @]

ExitWritten == Own(relay) /\ relay.d.exitSt = "pending"
SettleExit == ExitWritten /\ Become(Settled(Capacity(ExitPublished(relay))))

RecoveryCompleted(s) ==
    Pump(Capacity([s EXCEPT !.d.completing = FALSE, !.d.recEnd = None]))

CompleteWritten == Own(relay) /\ relay.d.completing
SettleComplete == CompleteWritten /\ Become(Settled(RecoveryCompleted(relay)))

\* The attach response is written: the new delivery starts, or the one that
\* could not be recovered is dropped.
Activated(s) ==
    IF s.d.restore THEN Capacity(Retired(s))
    ELSE Capacity(Pump(CompleteRecovery([s EXCEPT !.d.activating = FALSE])))

ResponseWritten == relay.open /\ (relay.d.restore \/ (Own(relay) /\ relay.d.activating))
SettleResponse == ResponseWritten /\ Become(Settled(Activated(relay)))

\* The bytes of other PTYs fill the producer queue of the link, and leave it.
QueueFills ==
    /\ Alive /\ relay.open /\ ~relay.full /\ fills < MaxFills
    /\ relay' = [relay EXCEPT !.full = TRUE]
    /\ fills' = fills + 1
    /\ UNCHANGED client

QueueFull == relay.open /\ relay.full
QueueDrains == QueueFull /\ Become(CapacitySignal([relay EXCEPT !.full = FALSE]))

\* Thirty seconds after its owner was lost, a delivery is canceled.
Orphaned == relay.d.tok # 0 /\ relay.d.st # "closed" /\ ~Own(relay)
GraceExpires == Orphaned /\ Become(Capacity(Retired(relay)))

\* The writer closes: whatever it held fails, and capacity is signalled.
Unsettled(d) ==
    IF d.restore \/ (d.activating /\ d.recEnd = None) THEN NoDelivery
    ELSE [d EXCEPT !.pend = None, !.completing = FALSE,
                   !.exitSt = IF @ = "pending" THEN "idle" ELSE @]

Closed(s) ==
    CapacitySignal([s EXCEPT !.open = FALSE, !.full = FALSE,
        !.d = IF Own(s) \/ s.d.restore THEN Unsettled(@) ELSE @])

RelayCloses == relay.open /\ Become(Closed(relay))

-----------------------------------------------------------------------------
(* The client and the link. *)

\* A client that connects again displaces the link the relay may still hold.
Connect ==
    /\ Alive /\ ~client.up /\ relay.conn < MaxConns
    /\ LET s == IF relay.open THEN Closed(relay) ELSE relay
       IN  relay' = [s EXCEPT !.conn = @ + 1, !.open = TRUE, !.wire = <<>>]
    /\ client' = [client EXCEPT !.up = TRUE]
    /\ UNCHANGED fills

\* The link breaks for the client: what was in flight is lost, and what it had
\* accepted of a live delivery is its checkpoint.
ClientLost ==
    /\ client.up
    /\ client' = [client EXCEPT !.up = FALSE,
         !.phase = IF @ \in {"ended", "gone"} THEN @ ELSE "none",
         !.ckpt = IF client.phase = "live"
                  THEN [tok |-> client.tok, end |-> client.next] ELSE @]
    /\ relay' = [relay EXCEPT !.wire = <<>>]
    /\ UNCHANGED fills

Respond(s) ==
    /\ relay' = s
    /\ client' = [client EXCEPT !.phase = "attaching"]
    /\ UNCHANGED fills

CanAttach == /\ Alive /\ client.up /\ relay.open /\ client.phase = "none"
             /\ relay.d.tok = 0 \/ ~Own(relay)

AttachExited == /\ CanAttach /\ relay.exit # "no"
                /\ client' = [client EXCEPT !.phase = "gone"]
                /\ UNCHANGED <<relay, fills>>

\* Without a delivery or a checkpoint the screen is replayed and the delivery
\* starts behind everything the PTY has written.
Opened(s) ==
    Sent([s EXCEPT !.d = Delivery(s, "active", s.made, s.made, None), !.taken = s.made,
                   !.timer = FALSE, !.tokens = @ + 1],
         [kind |-> "opened", tok |-> s.tokens + 1, start |-> s.made, upto |-> s.made])

AttachOpen == /\ CanAttach /\ relay.exit = "no" /\ relay.tokens < MaxTokens
              /\ relay.d.tok = 0 /\ client.ckpt = NoCheckpoint
              /\ Respond(Opened(relay))

\* Mutant: the new delivery starts at the credited end, not at the checkpoint.
RotatedFromCredit(s, end) ==
    LET upto == RecoveryEnd(s.d.recv, end)
    IN  Sent([s EXCEPT !.d = Delivery(s, s.d.st, s.d.recv, s.d.cred, upto), !.tokens = @ + 1],
             [kind |-> "pending", tok |-> s.tokens + 1, start |-> end, upto |-> upto])

\* The checkpoint names a delivery and an end that delivery can continue from:
\* what follows it is fenced as recovery and then flows as live output.
Rotated(s, end) ==
    LET upto == RecoveryEnd(s.d.recv, end)
    IN  Sent([s EXCEPT !.d = Delivery(s, s.d.st, s.d.recv, end, upto), !.tokens = @ + 1],
             [kind |-> "pending", tok |-> s.tokens + 1, start |-> end, upto |-> upto])

AttachRotate == /\ CanAttach /\ relay.exit = "no" /\ relay.tokens < MaxTokens
                /\ relay.d.tok # 0 /\ Covers(relay.d, client.ckpt)
                /\ Respond(Rotated(relay, client.ckpt.end))

\* Any other request cancels the delivery and has the client restore itself.
Restored(s) ==
    Capacity(Sent([s EXCEPT !.d = IF @.tok = 0 THEN @ ELSE
                     [@ EXCEPT !.st = "closed", !.restore = TRUE, !.activating = FALSE,
                               !.recEnd = None, !.pend = None]],
                  [kind |-> "restore"]))

AttachRestore == /\ CanAttach /\ relay.exit = "no"
                 /\ \/ relay.d.tok = 0 /\ client.ckpt # NoCheckpoint
                    \/ relay.d.tok # 0 /\ ~Covers(relay.d, client.ckpt)
                 /\ Respond(Restored(relay))

\* What the client makes of a frame; a data frame of another delivery is one of
\* a retired token and is ignored.
Received(c, m) ==
    CASE m.kind \in {"opened", "pending"} ->
           [c EXCEPT !.phase = IF m.kind = "opened" THEN "live" ELSE "recovering",
                     !.tok = m.tok, !.next = m.start, !.upto = m.upto, !.ends = {m.start}]
      [] m.kind = "restore" -> [c EXCEPT !.phase = "none", !.ckpt = NoCheckpoint]
      [] m.kind = "data" /\ m.tok = c.tok /\ c.phase \in {"live", "recovering"} ->
           [c EXCEPT !.bad = @ \/ m.start # c.next, !.next = m.end, !.ends = @ \cup {m.end}]
      [] m.kind = "complete" /\ m.tok = c.tok /\ c.phase = "recovering" ->
           [c EXCEPT !.bad = @ \/ c.next # c.upto, !.phase = "live"]
      [] m.kind = "exit" ->
           [c EXCEPT !.phase = IF @ = "live" \/ (@ = "recovering" /\ c.next = c.upto)
                               THEN "ended" ELSE "gone"]
      [] OTHER -> c

Receive ==
    /\ client.up /\ relay.wire # <<>>
    /\ client' = Received(client, Head(relay.wire))
    /\ relay' = [relay EXCEPT !.wire = Tail(@)]
    /\ UNCHANGED fills

\* The client acknowledges an end it has accepted. One that arrives before its
\* frame is settled is kept until then; any other end is ignored.
Acknowledged(s, end) ==
    IF end \notin Ackable(s.d) \/ end <= s.d.cred \/ s.d.st = "closed" THEN s
    ELSE IF end > s.d.sent THEN [s EXCEPT !.d.resAck = end]
    ELSE LET c == [s EXCEPT !.d = Credited(@, end)]
             t == CreditAvailable(c)
         IN  IF t.died THEN c ELSE t

MayAck(end) == /\ client.up /\ client.phase = "live"
               /\ Own(relay) /\ relay.d.tok = client.tok
               /\ end > relay.d.cred /\ relay.d.resAck # end

Ack == \E end \in client.ends : MayAck(end) /\ Become(Acknowledged(relay, end))
AckAll == MayAck(client.next) /\ Become(Acknowledged(relay, client.next))

\* The client gives the recovery up after its timeout and cancels the delivery;
\* one whose exit frame is in flight is kept until that frame has settled.
Canceled(s) ==
    IF s.d.exitSt = "pending" THEN [s EXCEPT !.d.st = "closed"]
    ELSE Capacity(Retired(s))

AbandonRecovery ==
    /\ Alive /\ client.up /\ relay.open /\ client.phase = "recovering"
    /\ relay' = IF relay.d.tok = client.tok THEN Canceled(relay) ELSE relay
    /\ client' = [client EXCEPT !.phase = "none", !.ckpt = NoCheckpoint]
    /\ UNCHANGED fills

-----------------------------------------------------------------------------

RelayNext ==
    \/ PtyOutput \/ Flush \/ PtyExit
    \/ SettleData \/ SettleExit \/ SettleComplete \/ SettleResponse
    \/ QueueFills \/ QueueDrains \/ GraceExpires \/ RelayCloses

ClientNext ==
    \/ Connect \/ ClientLost \/ Receive \/ Ack \/ AbandonRecovery
    \/ AttachExited \/ AttachOpen \/ AttachRotate \/ AttachRestore

Next == RelayNext \/ ClientNext

Spec == Init /\ [][Next]_vars

\* Timers fire, writes settle or their link is closed, a closed link is noticed
\* by the client, and a connected client reads, and credits all it has read.
\* Nothing is assumed of the PTY, the queue's filling, reconnecting or giving up.
\* Weak fairness is written out where computing ENABLED would evaluate a whole
\* callback: each guard below enables its action, and each action changes vars.
FairSpec ==
    /\ Spec
    /\ WF_vars(Receive) /\ WF_vars(~relay.open /\ ClientLost)
    /\ []<>~(Alive /\ FlushDue) \/ []<><<Flush>>_vars
    /\ []<>~(Alive /\ DataWritten) \/ []<><<SettleData>>_vars
    /\ []<>~(Alive /\ ExitWritten) \/ []<><<SettleExit>>_vars
    /\ []<>~(Alive /\ CompleteWritten) \/ []<><<SettleComplete>>_vars
    /\ []<>~(Alive /\ ResponseWritten) \/ []<><<SettleResponse>>_vars
    /\ []<>~(Alive /\ QueueFull) \/ []<><<QueueDrains>>_vars
    /\ []<>~(Alive /\ Orphaned) \/ []<><<GraceExpires>>_vars
    /\ []<>~(Alive /\ MayAck(client.next)) \/ []<><<AckAll>>_vars
    /\ []<>~(Alive /\ relay.open /\ ~client.up) \/ []<><<RelayCloses>>_vars

-----------------------------------------------------------------------------
(* What the component promises. *)

Frames == [kind : {"opened", "pending"}, tok : 1..MaxTokens, start : Offset, upto : Offset]
     \cup [kind : {"data"}, tok : 1..MaxTokens, start : Offset, end : Offset]
     \cup [kind : {"complete"}, tok : 1..MaxTokens]
     \cup [kind : {"restore", "exit"}]

\* The relay's offsets are in order: credited, sent, being sent, received,
\* taken from the queue, written by the PTY; and a boundary or a reserved
\* acknowledgment lies where the ledger can use it.
TypeOK ==
    LET d == relay.d IN
    /\ d.tok \in 0..MaxTokens /\ d.conn \in 0..MaxConns /\ fills \in 0..MaxFills
    /\ d.st \in {"active", "sealed", "closed"} /\ d.exitSt \in {"idle", "pending", "published"}
    /\ relay.exit \in {"no", "pending", "done"} /\ Range(relay.wire) \subseteq Frames
    /\ client.phase \in {"none", "attaching", "recovering", "live", "ended", "gone"}
    /\ 0 <= d.cred /\ d.cred <= d.sent /\ d.sent <= d.recv
    /\ d.recv <= relay.taken /\ relay.taken <= relay.made
    /\ d.bounds \subseteq d.cred..d.sent
    /\ d.pend # None => d.pend \in (d.sent + 1)..d.recv
    /\ d.resAck # None => d.resAck \in (d.sent + 1)..d.recv

\* The client is sent each unit of its delivery once and in order, across
\* rotations, failed writes and cancellations: no frame is out of place.
NothingRejected == ~client.bad

Following == /\ client.phase \in {"recovering", "live"}
             /\ client.tok = relay.d.tok

\* The client never holds more than a window of units it has not credited.
WithinWindow == Following => client.next - relay.d.cred <= Window

\* While the link is up, whatever the client has accepted of the current
\* delivery and not credited yet, the relay will take an acknowledgment for: no
\* credit is lost to a boundary the ledger has forgotten or not yet committed.
AckRecognized ==
    Following /\ Own(relay) /\ relay.d.st # "closed" =>
        \A end \in client.ends : end > relay.d.cred => end \in Ackable(relay.d)

\* A client that is told of the exit has been sent everything the PTY wrote,
\* unless the exit's publication faulted and the delivery was given up for it.
ExitAfterData == client.phase = "ended" => client.next = relay.made \/ relay.faulted

\* What pty-handler.ts:1651 and relay-pty-source-send-scheduler.ts:294 guard:
\* no fault of the source's publication escapes into the event loop.
RelaySurvives == ~relay.died

\* Output reaches a live client, unless a frame of it was refused by a full
\* queue and nothing has pumped the delivery since.
OutputArrives == (client.phase = "live" /\ client.next < relay.made)
    ~> (client.next = relay.made \/ client.phase # "live" \/ relay.d.refused)

\* A recovery ends, with the same exception: its fence needs no credit that
\* only the recovered client could return.
RecoveryEnds == (client.phase = "recovering")
    ~> (client.phase # "recovering" \/ relay.d.refused)

\* A live client of a PTY that has exited learns it or loses its link, with the
\* same exception, which holds the exit back with the output.
ExitTold == (client.phase = "live" /\ relay.exit # "no")
    ~> (client.phase # "live" \/ relay.d.refused)
=============================================================================
