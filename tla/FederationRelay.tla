--------------------------- MODULE FederationRelay ---------------------------
(***************************************************************************)
(* The relay between the home of a Run and the server its federated worker *)
(* runs on, for one started Dispatch of protocol version 3                 *)
(* (src/src/main/runtime/orchestration/federation-sync.ts, db/federation,  *)
(* rpc/methods/orchestration/federation).                                  *)
(*                                                                         *)
(* The worker server queues what its worker says in federation_relay_items *)
(* (to_home) and settles its attachment only when the home acknowledges    *)
(* the worker_done with the verdict it reached.  The home polls: one sync  *)
(* is a chain of awaited calls (pull a page, import it, acknowledge it,    *)
(* push the to_worker items, pull the next page), so everything else can   *)
(* happen between two of its steps.  There is one sync of a Dispatch at a  *)
(* time.  A call can be lost before or after the peer served it, or be     *)
(* served after its caller gave up; both sides can restart.  The calls     *)
(* that change something carry a request id and go through the peer's      *)
(* durable mutation receipts.                                              *)
(*                                                                         *)
(* Left out: the start of the Dispatch (attachment and worker are ready),  *)
(* abandoning or resetting it, message contents, relay timers (a sync may  *)
(* start at any time the Dispatch is eligible), quota in bytes, peers that *)
(* change identity, and receipts old enough to be pruned.                  *)
(***************************************************************************)
EXTENDS Naturals, Sequences, FiniteSets, SequencesExt, FiniteSetsExt

CONSTANTS
  MaxItems,    \* bound: to_home items ever queued
  Quota,       \* unacknowledged items a direction holds, 256 in the code
  PageSize,    \* FEDERATION_PULL_PAGE_SIZE, 50 in the code
  MaxPages,    \* MAX_FEDERATION_PULL_PAGES_PER_SYNC, 6 in the code
  MaxControl,  \* bound: to_worker items ever queued
  Reports,     \* bound: outcomes the worker reports
  MayStop,     \* bound: whether the supervisor stops the worker
  MaxLate,     \* bound: requests in flight whose caller gave up
  MaxFaults    \* bound: lost calls and restarts

ASSUME RelayAssumption ==
  /\ {MaxItems, MaxControl, MaxLate, MaxFaults} \subseteq Nat
  /\ {Quota, PageSize, MaxPages} \subseteq Nat \ {0}
  /\ Reports \subseteq {"succeeded", "failed"} /\ MayStop \in BOOLEAN

Outcomes   == {"succeeded", "failed"}
Settleable == {"ready", "stop_unknown"}              \* SETTLEABLE_WORKER_STATES
HomeLive   == {"ready", "stopping", "stop_unknown"}
States     == HomeLive \cup Outcomes \cup {"stopped"}
NoCap      == [epoch |-> 0, supported |-> FALSE]
NoCheckpoint == [epoch |-> 0, through |-> 0]

VARIABLES
  \* The worker server: its database, but for epoch and supports.
  outbox,     \* federation_relay_items, to_home, by sequence
  att,        \* remote_dispatch_attachments.state
  inSeq,      \* remote_dispatch_attachments.to_worker_imported_sequence
  inbox,      \* the to_worker items applied, in order
  receipts,   \* mutation_receipts of the two relay calls, by request id
  epoch,      \* runtime id of the live runtime
  supports,   \* it advertises the lifecycle settlement capability
  \* The home's database.
  home,       \* worker_dispatches.state
  moved,      \* the Task was given another status after the Dispatch settled
  imported,   \* federated_dispatches.to_home_imported_sequence
  messages,   \* ids of the imported messages, in order
  ackd,       \* federated_dispatches.to_home_acknowledged_sequence
  fedEpoch,   \* federated_dispatches.remote_runtime_epoch
  outSeq,     \* to_worker items queued
  outAcked,   \* to_worker items acknowledged
  \* The home's memory.
  sync,       \* where the running sync is and what it has read
  ckpt,       \* the acknowledgment checkpoint
  cap,        \* the peer capability cache
  \* The network and the history of the checks.
  net,        \* relay calls under way; the late ones, nobody waits for
  stopCall,   \* a stop was sent and not served
  refused,    \* some request met a receipt of its id with another payload,
              \* or one left pending by a crash
  faults      \* faults so far

serverVars == <<outbox, att, inSeq, inbox, receipts, epoch, supports>>
homeVars   == <<home, moved, imported, messages, ackd, fedEpoch, outSeq, outAcked>>
memoryVars == <<sync, ckpt, cap>>
vars == <<serverVars, homeVars, memoryVars, net, stopCall, refused, faults>>

Idle == [pc |-> "idle", row |-> [imported |-> 0, ackd |-> 0, epoch |-> 0],
         cap |-> NoCap, replay |-> FALSE, left |-> 0, page |-> <<>>,
         peer |-> 0, through |-> 0]

Init ==
  /\ outbox = <<>> /\ att = "ready" /\ inSeq = 0 /\ inbox = <<>>
  /\ receipts = <<>> /\ epoch = 1 /\ supports \in BOOLEAN
  /\ home = "ready" /\ moved = FALSE /\ imported = 0 /\ messages = <<>>
  /\ ackd = 0 /\ fedEpoch = 1 /\ outSeq = 0 /\ outAcked = 0
  /\ sync = Idle /\ ckpt = NoCheckpoint /\ cap = NoCap
  /\ net = {} /\ stopCall = FALSE /\ refused = FALSE /\ faults = 0

-----------------------------------------------------------------------------
(* The worker server queues items.                                         *)

IsReport(item) == item.kind = "worker_done"

Unacked(q) == {i \in DOMAIN q : ~q[i].acked}

\* assertWorkerCanReport: only a stop in flight and a settled attachment mute
\* the worker.
MaySend == att \in Settleable

UnchangedButOutbox ==
  UNCHANGED <<att, inSeq, inbox, receipts, epoch, supports, homeVars,
              memoryVars, net, stopCall, refused, faults>>

\* enqueueFederationRelay, the insert.
Enqueue(kind, outcome) ==
  /\ MaySend /\ Len(outbox) < MaxItems
  /\ Cardinality(Unacked(outbox)) < Quota
  /\ outbox' = Append(outbox, [id |-> Len(outbox) + 1, kind |-> kind,
                               outcome |-> outcome, acked |-> FALSE])
  /\ UnchangedButOutbox

SendStatus == Enqueue("status", "none")

\* A heartbeat that is still queued is refreshed in place instead.
SendHeartbeat ==
  /\ \A i \in Unacked(outbox) : outbox[i].kind # "heartbeat"
  /\ Enqueue("heartbeat", "none")

Queued(o) == \E i \in Unacked(outbox) : IsReport(outbox[i]) /\ outbox[i].outcome = o

\* An identical report that is still queued is returned instead.
SendReport(o) == ~Queued(o) /\ Enqueue("worker_done", o)

\* With the queue full, a report takes over the row of a queued heartbeat.
ReportOverHeartbeat(o) ==
  /\ MaySend /\ ~Queued(o)
  /\ Cardinality(Unacked(outbox)) >= Quota
  /\ \E i \in Unacked(outbox) :
       /\ outbox[i].kind = "heartbeat"
       /\ outbox' = [outbox EXCEPT ![i] =
            [id |-> MaxItems + i, kind |-> "worker_done", outcome |-> o, acked |-> FALSE]]
  /\ UnchangedButOutbox

-----------------------------------------------------------------------------
(* The home and its supervisor.                                            *)

\* answerQuestion and sendFederatedControlMail: queue an item to the worker.
QueueControl ==
  /\ home = "ready" /\ outSeq < MaxControl /\ outSeq - outAcked < Quota
  /\ outSeq' = outSeq + 1
  /\ UNCHANGED <<serverVars, home, moved, imported, messages, ackd, fedEpoch,
                 outAcked, memoryVars, net, stopCall, refused, faults>>

UnchangedButStates ==
  UNCHANGED <<outbox, inSeq, inbox, receipts, epoch, supports, imported,
              messages, ackd, fedEpoch, outSeq, outAcked, memoryVars, net,
              refused, faults>>

\* beginWorkerStop at the home, which calls the worker server.
HomeStop ==
  /\ MayStop
  /\ home = "ready" /\ home' = "stopping" /\ stopCall' = TRUE
  /\ UNCHANGED <<att, moved>> /\ UnchangedButStates

\* beginRemoteAttachmentStop, when the call is served.
RemoteStop ==
  /\ stopCall /\ stopCall' = FALSE
  /\ att = "ready" /\ att' = "stopping"
  /\ UNCHANGED <<home, moved>> /\ UnchangedButStates

\* settleRemoteAttachmentStop and markRemoteAttachmentStopUnknown.
RemoteStopEnds ==
  /\ att = "stopping" /\ att' \in {"stopped", "stop_unknown"}
  /\ UNCHANGED <<home, moved, stopCall>> /\ UnchangedButStates

\* The worker server answers, or shows, that it stopped the worker:
\* reconcileFederatedWorkerStop.  The other answer, an outcome, is for older
\* protocols: of version 3 an attachment settles after its Dispatch only
\* (OutcomeAgreed), and no stop is sent for a settled Dispatch.
HomeStopAnswered ==
  /\ home \in {"stopping", "stop_unknown"} /\ att = "stopped" /\ home' = "stopped"
  /\ UNCHANGED <<att, moved, stopCall>> /\ UnchangedButStates

\* markWorkerStopUnknown: no answer, or none that proves anything.
HomeStopUnknown ==
  /\ home = "stopping" /\ home' = "stop_unknown"
  /\ UNCHANGED <<att, moved, stopCall>> /\ UnchangedButStates

\* Whoever owns the graph gives the settled Task another status.
TaskMovesOn ==
  /\ home \in Outcomes /\ ~moved /\ moved' = TRUE
  /\ UNCHANGED <<att, home, stopCall>> /\ UnchangedButStates

-----------------------------------------------------------------------------
(* A sync, step by step.                                                   *)

\* Mutant: a settled Dispatch is not polled for its acknowledgment.
EligibleLive(h, imp, ack) == h \in HomeLive

\* isFederatedDispatchRelayEligible.
Eligible(h, imp, ack) == h \in HomeLive \/ ack < imp

\* syncFederatedDispatchPages up to its pull: the capability is the cached
\* one, or else what a probe answers.
BeginPage(left) ==
  LET c == IF cap = NoCap THEN [epoch |-> epoch, supported |-> supports] ELSE cap IN
  /\ cap'  = c
  /\ sync' = [Idle EXCEPT !.pc = "pull", !.cap = c, !.left = left,
                !.row = [imported |-> imported, ackd |-> ackd, epoch |-> fedEpoch],
                !.replay = c.supported \/ ackd < imported]

\* syncDispatch: joined while one runs, else a sync starts.
StartSync ==
  /\ sync.pc = "idle" /\ Eligible(home, imported, ackd)
  /\ BeginPage(MaxPages)
  /\ UNCHANGED <<serverVars, homeVars, ckpt, net, stopCall, refused, faults>>

NextPage ==
  /\ sync.pc = "next"
  /\ BeginPage(sync.left - 1)
  /\ UNCHANGED <<serverVars, homeVars, ckpt, net, stopCall, refused, faults>>

\* negativeExpiresAt passes: a cached refusal is probed again.
RefusalExpires ==
  /\ cap # NoCap /\ ~cap.supported /\ cap' = NoCap
  /\ UNCHANGED <<serverVars, homeVars, sync, ckpt, net, stopCall, refused, faults>>

\* The n least elements of S, in order.
FirstOf(S, n, q) ==
  /\ q \in [1 .. n -> S]
  /\ \A i, j \in 1 .. n : i < j => q[i] < q[j]
  /\ \A x \in S : x \in Range(q) \/ \A i \in 1 .. n : q[i] < x

\* The pull handler of the worker server and its answer.
Pull ==
  LET todo == {i \in DOMAIN outbox :
                 IF sync.replay THEN ~outbox[i].acked ELSE i > sync.row.imported}
      n    == Min({PageSize, Cardinality(todo)})
      Item(i) == [seq |-> i, id |-> outbox[i].id,
                  kind |-> outbox[i].kind, outcome |-> outbox[i].outcome] IN
  /\ sync.pc = "pull"
  /\ \E q \in [1 .. n -> todo] :
       /\ FirstOf(todo, n, q)
       /\ sync' = [sync EXCEPT !.pc = "page", !.peer = epoch,
                     !.page = [i \in 1 .. n |-> Item(q[i])]]
  /\ UNCHANGED <<serverVars, homeVars, ckpt, cap, net, stopCall, refused, faults>>

\* This sync can tell the worker server what became of its reports.
Settles == sync.cap.supported /\ sync.cap.epoch = sync.peer

ReportsIn(page) == {i \in DOMAIN page : IsReport(page[i])}

\* Mutant: the report's own outcome, whatever the home made of it.
VerdictsEchoed(page, h) ==
  [q \in {page[i].seq : i \in ReportsIn(page)} |->
     page[CHOOSE i \in ReportsIn(page) : page[i].seq = q].outcome]

\* The settlement of each report of a page, once it is imported.
VerdictsOf(page, h) ==
  [q \in {page[i].seq : i \in ReportsIn(page)} |->
     LET i == CHOOSE i \in ReportsIn(page) : page[i].seq = q IN
     IF page[i].outcome = h /\ ~moved THEN h ELSE "rejected"]

\* settleWorkerReportInTransaction for the reports of an imported prefix: the
\* first one settles a Dispatch that is not settled and not being stopped.
HomeAfter(prefix) ==
  IF home \in Settleable /\ ReportsIn(prefix) # {}
  THEN prefix[Min(ReportsIn(prefix))].outcome
  ELSE home

\* What importFederatedRelayItem and the page loop refuse: an item that is not
\* the successor of the one before it, an imported one whose message is unknown.
Unimportable(page, i) ==
  \/ page[i].seq <= imported /\ page[i].id \notin Range(messages)
  \/ page[i].seq # IF i > 1 THEN page[i - 1].seq + 1 ELSE Min({page[i].seq, imported + 1})

\* The items before the first refused one are imported.
Importable(page) ==
  LET bad == {i \in DOMAIN page : Unimportable(page, i)} IN
  IF bad = {} THEN Len(page) ELSE Min(bad) - 1

\* Mutant: replayed items are imported again.
ImportPrefixAgain(page, k) ==
  LET prefix == SubSeq(page, 1, k) IN
  /\ home'     = HomeAfter(prefix)
  /\ messages' = messages \o [i \in DOMAIN prefix |-> prefix[i].id]
  /\ imported' = IF k = 0 THEN imported ELSE Max({imported, prefix[k].seq})
  /\ UNCHANGED <<moved, outSeq, outAcked>>

\* The cursor behind the first k items of a page that has no gap, and those of
\* them that are past the cursor now.
CursorAfter(page, k) == IF k = 0 THEN imported ELSE Max({imported, page[k].seq})
NewItems(page, k) == SubSeq(page, k - (CursorAfter(page, k) - imported) + 1, k)

\* Mutant: the import cursor is not saved.
ImportPrefixNoCursor(page, k) ==
  LET new == NewItems(page, k) IN
  /\ home'     = HomeAfter(SubSeq(page, 1, k))
  /\ messages' = messages \o [i \in DOMAIN new |-> new[i].id]
  /\ UNCHANGED <<imported, moved, outSeq, outAcked>>

\* importFederatedRelayItem on the first k items of the page.
ImportPrefix(page, k) ==
  LET new == NewItems(page, k) IN
  /\ home'     = HomeAfter(SubSeq(page, 1, k))
  /\ messages' = messages \o [i \in DOMAIN new |-> new[i].id]
  /\ imported' = CursorAfter(page, k)
  /\ UNCHANGED <<moved, outSeq, outAcked>>

\* The end of a sync, returned or thrown: syncDispatch's finally.
Finish(checkpoint) ==
  /\ sync' = Idle
  /\ ckpt' = IF Eligible(home', imported', ackd') THEN checkpoint ELSE NoCheckpoint

Full    == Len(sync.page) = PageSize
Barrier == ReportsIn(sync.page) # {} /\ ~Settles
Cursor  == IF sync.page # <<>> THEN sync.page[Len(sync.page)].seq ELSE sync.row.imported

\* Where the acknowledgment stops: before a report this sync cannot settle.
AckCursor ==
  IF Barrier THEN sync.page[Min(ReportsIn(sync.page))].seq - 1 ELSE Cursor

\* What the sync knows to be acknowledged to the runtime that answered it.
KnownAcked ==
  Max({IF sync.row.epoch = sync.peer THEN sync.row.ackd ELSE 0,
       IF ckpt.epoch = sync.peer THEN ckpt.through ELSE 0})

Request(kind, id, body) == [kind |-> kind, id |-> id, body |-> body, late |-> FALSE]

AckRequest ==
  Request("ack", Cursor,
          <<AckCursor, IF Settles THEN VerdictsOf(sync.page, home') ELSE <<>>>>)

\* The tail of a page: the next page of the same sync, or its end.
EndPage(checkpoint) ==
  IF Full /\ sync.left > 1 /\ ~Barrier
  THEN sync' = [Idle EXCEPT !.pc = "next", !.left = sync.left] /\ ckpt' = checkpoint
  ELSE Finish(checkpoint)

\* Past the acknowledgment: observeEpoch, updateFederatedDispatchRuntimeEpoch,
\* then the to_worker items, if the worker is ready and some are pending.
AfterAck(checkpoint) ==
  LET through == Min({outSeq, outAcked + PageSize}) IN
  /\ fedEpoch' = sync.peer
  /\ cap' = IF cap.epoch = sync.peer THEN cap ELSE NoCap
  /\ IF home' = "ready" /\ outAcked < outSeq
     THEN /\ sync' = [sync EXCEPT !.pc = "import", !.through = through]
          /\ net'  = net \cup {Request("import", through, outAcked + 1)}
          /\ ckpt' = checkpoint
     ELSE EndPage(checkpoint) /\ UNCHANGED net

\* The answer of the pull: import the page, and acknowledge what is new.
ImportPage ==
  LET k == Importable(sync.page) IN
  /\ sync.pc = "page"
  /\ ImportPrefix(sync.page, k)
  /\ UNCHANGED ackd
  /\ IF k < Len(sync.page)
     THEN Finish(ckpt) /\ UNCHANGED <<fedEpoch, cap, net>>
     ELSE IF AckCursor > KnownAcked
     THEN /\ sync' = [sync EXCEPT !.pc = "ack", !.through = AckCursor]
          /\ net'  = net \cup {AckRequest}
          /\ UNCHANGED <<fedEpoch, cap, ckpt>>
     ELSE AfterAck(ckpt)
  /\ UNCHANGED <<serverVars, stopCall, refused, faults>>

\* The answer of federationAck: recordFederatedHomeAcknowledgment and
\* recordFederationAckCheckpoint.  The last page of a sync, when full, leaves
\* one item unrecorded so that the Dispatch stays eligible.
AckAnswered ==
  LET through == IF Full /\ sync.left = 1 THEN sync.through - 1 ELSE sync.through IN
  /\ sync.pc = "acked"
  /\ ackd' = IF fedEpoch = sync.peer THEN Max({ackd, through}) ELSE through
  /\ UNCHANGED <<home, moved, imported, messages, outSeq, outAcked>>
  /\ AfterAck(IF ckpt.epoch = sync.peer /\ ckpt.through >= through
              THEN ckpt ELSE [epoch |-> sync.peer, through |-> through])
  /\ UNCHANGED <<serverVars, stopCall, refused, faults>>

\* The answer of federationImport: acknowledgeFederationRelay, to_worker.
ImportAnswered ==
  /\ sync.pc = "imported"
  /\ outAcked' = Max({outAcked, sync.through})
  /\ UNCHANGED <<home, moved, imported, messages, ackd, fedEpoch, outSeq>>
  /\ EndPage(ckpt)
  /\ UNCHANGED <<serverVars, cap, net, stopCall, refused, faults>>

-----------------------------------------------------------------------------
(* The worker server's handlers, behind its mutation receipts.             *)

ReceiptKey(m) == <<m.kind, m.id>>

\* The answer reaches the sync, if it still waits for it; an error ends it.
Answer(m, through) ==
  /\ sync' = IF m.late THEN sync
             ELSE [sync EXCEPT !.through = through,
                     !.pc = IF m.kind = "ack" THEN "acked" ELSE "imported"]
  /\ UNCHANGED ckpt

AnswerError(m) == IF m.late THEN UNCHANGED <<sync, ckpt>> ELSE Finish(ckpt)

WithReceipt(m, done, through) ==
  [k \in DOMAIN receipts \cup {ReceiptKey(m)} |->
     IF k = ReceiptKey(m) THEN [body |-> m.body, done |-> done, through |-> through]
     ELSE receipts[k]]

\* The verdicts an acknowledgment brings, and the outcome they settle.
VerdictsIn(m) == {q \in DOMAIN m.body[2] : q <= m.body[1]}
\* Mutant: a rejection settles the attachment too.
SettledByAny(m) == {m.body[2][q] : q \in VerdictsIn(m)}
SettledBy(m)    == {m.body[2][q] : q \in VerdictsIn(m)} \cap Outcomes

\* Mutant: a report may be acknowledged without a verdict.
AckAcceptedBare(m) ==
  /\ \A q \in VerdictsIn(m) :
       IsReport(outbox[q]) /\ m.body[2][q] \in {outbox[q].outcome, "rejected"}
  /\ Cardinality(SettledBy(m)) <= 1
  /\ \A o \in SettledBy(m) : att = o \/ att \in Settleable

\* acknowledgeFederationRelay's checks: every verdict is about a report and,
\* if it settles it, agrees with it; no unacknowledged report is left out; the
\* outcomes agree; the attachment can take the outcome.
AckAccepted(m) ==
  /\ \A q \in VerdictsIn(m) :
       IsReport(outbox[q]) /\ m.body[2][q] \in {outbox[q].outcome, "rejected"}
  /\ \A q \in Unacked(outbox) : q <= m.body[1] /\ IsReport(outbox[q]) => q \in VerdictsIn(m)
  /\ Cardinality(SettledBy(m)) <= 1
  /\ \A o \in SettledBy(m) : att = o \/ att \in Settleable

\* Mutant: the acknowledged item itself stays queued.
ApplyAckShort(m) ==
  /\ outbox' = [i \in DOMAIN outbox |->
                  IF i < m.body[1] THEN [outbox[i] EXCEPT !.acked = TRUE] ELSE outbox[i]]
  /\ att' = IF SettledBy(m) = {} THEN att ELSE CHOOSE o \in SettledBy(m) : TRUE
  /\ UNCHANGED <<inSeq, inbox>>

ApplyAck(m) ==
  /\ outbox' = [i \in DOMAIN outbox |->
                  IF i <= m.body[1] THEN [outbox[i] EXCEPT !.acked = TRUE] ELSE outbox[i]]
  /\ att' = IF SettledBy(m) = {} THEN att ELSE CHOOSE o \in SettledBy(m) : TRUE
  /\ UNCHANGED <<inSeq, inbox>>

\* Mutant: a batch that starts with applied items is refused.
ImportAcceptedNew(m) == m.body = inSeq + 1 /\ att = "ready"

\* federationImport refuses a gap, and new items unless the attachment is ready.
ImportAccepted(m) == m.body <= inSeq + 1 /\ (att = "ready" \/ m.id <= inSeq)

\* Mutant: an item beyond the cursor is applied, known or not.
ApplyImportAgain(last, cursor) ==
  /\ inbox' = inbox \o [i \in 1 .. Max({last, inSeq}) - inSeq |-> inSeq + i]
  /\ inSeq' = Max({inSeq, cursor})
  /\ UNCHANGED <<outbox, att>>

\* Each item is applied (at most once: a message by its id, an answer by its
\* question), then the cursor moves: a crash can come in between.
ApplyImport(last, cursor) ==
  /\ inbox' = inbox \o [i \in 1 .. Max({last, Len(inbox)}) - Len(inbox) |-> Len(inbox) + i]
  /\ inSeq' = Max({inSeq, cursor})
  /\ UNCHANGED <<outbox, att>>

Accepted(m) == IF m.kind = "ack" THEN AckAccepted(m) ELSE ImportAccepted(m)

Apply(m) == IF m.kind = "ack" THEN ApplyAck(m) ELSE ApplyImport(m.id, m.id)

\* acknowledgedThrough.
Result(m) == IF m.kind = "ack" THEN m.body[1] ELSE Max({inSeq, m.id})

\* The executor starts the mutation and completes its receipt.
Serve(m) ==
  /\ m \in net /\ ReceiptKey(m) \notin DOMAIN receipts /\ Accepted(m)
  /\ Apply(m)
  /\ receipts' = WithReceipt(m, TRUE, Result(m))
  /\ net' = net \ {m}
  /\ Answer(m, Result(m))
  /\ UNCHANGED <<epoch, supports, homeVars, cap, stopCall, refused, faults>>

\* The handler throws: the transaction is rolled back, the receipt discarded.
ServeError(m) ==
  /\ m \in net /\ ReceiptKey(m) \notin DOMAIN receipts /\ ~Accepted(m)
  /\ net' = net \ {m}
  /\ UNCHANGED homeVars
  /\ AnswerError(m)
  /\ UNCHANGED <<serverVars, cap, stopCall, refused, faults>>

SameRequest(m) ==
  receipts[ReceiptKey(m)].body = m.body /\ receipts[ReceiptKey(m)].done

\* A completed request is answered from its receipt.
ServeReplay(m) ==
  /\ m \in net /\ ReceiptKey(m) \in DOMAIN receipts /\ SameRequest(m)
  /\ net' = net \ {m}
  /\ Answer(m, receipts[ReceiptKey(m)].through)
  /\ UNCHANGED <<serverVars, homeVars, cap, stopCall, refused, faults>>

\* "was already used with different input", or "may have been accepted before
\* restart": the request is refused.
ServeRefused(m) ==
  /\ m \in net /\ ReceiptKey(m) \in DOMAIN receipts /\ ~SameRequest(m)
  /\ net' = net \ {m}
  /\ refused' = TRUE
  /\ UNCHANGED homeVars
  /\ AnswerError(m)
  /\ UNCHANGED <<serverVars, cap, stopCall, faults>>

-----------------------------------------------------------------------------
(* Faults.                                                                 *)

Fault == faults < MaxFaults /\ faults' = faults + 1

Restarted == epoch' = epoch + 1 /\ supports' \in BOOLEAN

\* The worker server restarts, perhaps as a build without the capability.
ServerRestart ==
  /\ Fault /\ Restarted
  /\ UNCHANGED <<outbox, att, inSeq, inbox, receipts, homeVars, memoryVars,
                 net, stopCall, refused>>

\* It dies inside a mutation: before the handler's transaction, after it, or
\* (import) between an item and the cursor.  The receipt stays pending.
ServerCrash(m) ==
  /\ Fault /\ Restarted
  /\ m \in net /\ ReceiptKey(m) \notin DOMAIN receipts
  /\ \/ UNCHANGED <<outbox, att, inSeq, inbox>>
     \/ Accepted(m) /\ Apply(m)
     \/ /\ m.kind = "import" /\ ImportAccepted(m)
        /\ \E last \in m.body .. m.id : ApplyImport(last, last - 1)
  /\ receipts' = WithReceipt(m, FALSE, 0)
  /\ net' = net \ {m}
  /\ UNCHANGED homeVars
  /\ AnswerError(m)
  /\ UNCHANGED <<cap, stopCall, refused>>

\* What becomes of the request the sync waits for when it no longer does: it
\* was lost, or it is still under way.
Abandon ==
  LET mine == {m \in net : ~m.late}
      late == {[m EXCEPT !.late = TRUE] : m \in net} IN
  \/ net' = net \ mine
  \/ Cardinality(late) <= MaxLate /\ net' = late

\* A call fails: connection lost or timed out, before or after it was served.
CallFails ==
  /\ Fault /\ sync.pc \in {"pull", "ack", "acked", "import", "imported"}
  /\ Abandon
  /\ UNCHANGED homeVars
  /\ Finish(ckpt)
  /\ UNCHANGED <<serverVars, cap, stopCall, refused>>

MemoryLost == sync' = Idle /\ ckpt' = NoCheckpoint /\ cap' = NoCap

HomeRestart ==
  /\ Fault /\ MemoryLost /\ Abandon
  /\ UNCHANGED <<serverVars, homeVars, stopCall, refused>>

\* The home dies between two items of a page: each is its own transaction.
HomeCrashImporting ==
  /\ Fault /\ MemoryLost /\ UNCHANGED net
  /\ sync.pc = "page"
  /\ \E k \in 1 .. Importable(sync.page) : ImportPrefix(sync.page, k)
  /\ UNCHANGED <<serverVars, ackd, fedEpoch, stopCall, refused>>

-----------------------------------------------------------------------------
SyncStep ==
  StartSync \/ NextPage \/ Pull \/ ImportPage \/ AckAnswered \/ ImportAnswered

ServerStep(m) == Serve(m) \/ ServeError(m) \/ ServeReplay(m) \/ ServeRefused(m)

Next ==
  \/ SendStatus \/ SendHeartbeat
  \/ \E o \in Reports : SendReport(o) \/ ReportOverHeartbeat(o)
  \/ QueueControl \/ HomeStop \/ RemoteStop \/ RemoteStopEnds
  \/ HomeStopAnswered \/ HomeStopUnknown \/ TaskMovesOn
  \/ SyncStep \/ RefusalExpires
  \/ \E m \in net : ServerStep(m) \/ ServerCrash(m)
  \/ CallFails \/ ServerRestart \/ HomeRestart \/ HomeCrashImporting

Spec == Init /\ [][Next]_vars

\* The relay timer fires every second, a cached refusal lasts 30 seconds, and
\* a call that is not lost is served and answered.  Nobody owes a message, a
\* stop, a fault or a late request.
Fairness ==
  /\ WF_vars(SyncStep)
  /\ WF_vars(RefusalExpires)
  /\ WF_vars(\E m \in net : ~m.late /\ ServerStep(m))

FairSpec == Spec /\ Fairness

-----------------------------------------------------------------------------
(* Properties.                                                             *)

\* Every variable has its type.
TypeOK ==
  /\ \A i \in DOMAIN outbox :
       /\ outbox[i].id \in Nat /\ outbox[i].acked \in BOOLEAN
       /\ outbox[i].kind \in {"status", "heartbeat", "worker_done"}
       /\ outbox[i].outcome \in IF IsReport(outbox[i]) THEN Outcomes ELSE {"none"}
  /\ att \in States /\ home \in States
  /\ {inSeq, epoch, imported, ackd, fedEpoch, outSeq, outAcked, faults} \subseteq Nat
  /\ {supports, moved, stopCall, refused} \subseteq BOOLEAN
  /\ sync.pc \in {"idle", "pull", "page", "ack", "acked", "import", "imported", "next"}
  /\ \A m \in net : m.kind \in {"ack", "import"} /\ m.id \in Nat /\ m.late \in BOOLEAN

\* What the home has of the worker's items is the prefix of the queue it
\* imported, each taken once and in order, whatever is lost, repeated, answered
\* late or cut short by a restart (importFederatedRelayItem).
ToHome == INSTANCE OrderedChannel WITH
  sent <- [i \in DOMAIN outbox |-> {i, outbox[i].id}], received <- messages
ToHomeChannel == ToHome!ChannelSpec

\* The same for the items to the worker, whose cursor is written apart from
\* the items (federationImport).
ToWorker == INSTANCE OrderedChannel WITH
  sent <- [i \in 1 .. outSeq |-> {i}], received <- inbox
ToWorkerChannel == ToWorker!ChannelSpec

\* An attachment settles only as the home settled the Dispatch: a verdict that
\* was computed, lost and computed again never tells the worker server another
\* outcome than the one the Run has.
OutcomeAgreed == att \in Outcomes => home = att

\* An item leaves the queue only once the home has it: an acknowledged item is
\* imported, as the message the queue holds.
AckedWasImported ==
  \A i \in DOMAIN outbox :
    outbox[i].acked => i <= Len(messages) /\ messages[i] = outbox[i].id

\* The home never believes more acknowledged than the worker server has: its
\* durable watermark and the checkpoint in memory skip no item.
WatermarkSafe ==
  \A i \in DOMAIN outbox : i <= ackd \/ i <= ckpt.through => outbox[i].acked

\* No sequence gap reaches either importer: the errors "not contiguous after
\* sequence" that both raise cannot be met, however replay and acknowledgments
\* interleave.
NoRelayGap ==
  /\ sync.pc = "page" =>
       \A i \in DOMAIN sync.page :
         sync.page[i].seq <= imported + 1 \/ (i > 1 /\ sync.page[i].seq = sync.page[i - 1].seq + 1)
  /\ \A m \in net : m.kind = "import" => m.body <= inSeq + 1

\* The report at i is queued; it is acknowledged.
Pending(i) == i \in Unacked(outbox) /\ IsReport(outbox[i])
Acked(i)   == i \in DOMAIN outbox /\ outbox[i].acked

\* Nothing waits for the verdict any more: the attachment is settled or being
\* stopped, or the Task has moved on.
Moot == att # "ready" \/ moved

\* The item at i was imported as the heartbeat it was before a report took its
\* place: the home refuses it from then on.
Wedged(i) == i \in DOMAIN messages /\ i \in DOMAIN outbox /\ messages[i] # outbox[i].id

\* A worker server died in a mutation that it cannot tell was applied.
Unknowable == \E k \in DOMAIN receipts : ~receipts[k].done

\* With a worker server that comes to support the settlement, every report is
\* acknowledged in the end, unless it is moot, or took the place of an imported
\* heartbeat, or the worker server refused a request.
ReportsSettle ==
  <>[]supports =>
    \A i \in 1 .. MaxItems : Pending(i) ~> (Acked(i) \/ Moot \/ Wedged(i) \/ refused)

\* Every item for the worker reaches it in the end, unless its Dispatch is over
\* or stopping on either side, or the relay is stuck as above.
ControlDelivered ==
  \A i \in 1 .. MaxControl :
    (outSeq >= i) ~>
      (outAcked >= i \/ home # "ready" \/ Moot \/ refused \/ \E j \in 1 .. MaxItems : Wedged(j))

\* "retains a pending protocol-3 worker_done across restart downgrade and
\* settles after support returns" (orchestration/federation-sync.test.ts:123):
\* the same, where the only request refused is one that a crash cut short.
ReportsSettleAfterDowngrade ==
  <>[]supports =>
    \A i \in 1 .. MaxItems : Pending(i) ~> (Acked(i) \/ Moot \/ Wedged(i) \/ Unknowable)
=============================================================================
