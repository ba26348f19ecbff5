------------------------ MODULE FederationRelayProofs ------------------------
(***************************************************************************)
(* The safety of FederationRelay for every bound, quota and page size.     *)
(*                                                                         *)
(* What is under way on the network, remembered in a receipt or held by    *)
(* the sync was computed from a state that is past.  IInv says what of it  *)
(* still counts: a verdict names a report the home took in the version     *)
(* that is queued and, if it settles, how the home settled; a page is an   *)
(* interval of the queue that meets the cursor; an answered acknowledgment *)
(* covers acknowledged items.  Grows says what no step takes back: queued  *)
(* reports, acknowledgments, the cursors, the imported messages and the    *)
(* outcome of the Dispatch.  So what was computed stays good, and the      *)
(* proof of each action shows that it grows and that what it writes is     *)
(* good.                                                                   *)
(***************************************************************************)
EXTENDS FederationRelay, SequenceTheorems, FiniteSetTheorems, WellFoundedInduction, TLAPS

Kinds == {"status", "heartbeat", "worker_done"}
Item  == [id : Nat, kind : Kinds, outcome : Outcomes \cup {"none"}, acked : BOOLEAN]
Entry == [seq : Nat, id : Nat, kind : Kinds, outcome : Outcomes \cup {"none"}]
Row   == [imported : Nat, ackd : Nat, epoch : Nat]
Cap   == [epoch : Nat, supported : BOOLEAN]
Phase == {"idle", "pull", "page", "ack", "acked", "import", "imported", "next"}

\* The queue: sequence numbers and identities, and acknowledgments from its head.
QueueOK ==
  /\ outbox \in Seq(Item) /\ Len(outbox) <= MaxItems
  /\ \A i \in DOMAIN outbox :
       /\ IsReport(outbox[i]) => outbox[i].outcome \in Outcomes /\ outbox[i].id \in {i, MaxItems + i}
       /\ ~IsReport(outbox[i]) => outbox[i].outcome = "none" /\ outbox[i].id = i
  /\ \A i, j \in DOMAIN outbox : i <= j /\ outbox[j].acked => outbox[i].acked

\* What the home took, and that it has what left the queue.
TakenOK ==
  /\ messages \in Seq(Nat) /\ imported = Len(messages) /\ imported <= Len(outbox)
  /\ \A i \in DOMAIN messages : messages[i] \in {i, outbox[i].id}
  /\ AckedWasImported

\* The other direction.
ControlOK ==
  /\ inbox \in Seq(Nat) /\ {inSeq, outSeq, outAcked} \subseteq Nat
  /\ \A i \in DOMAIN inbox : inbox[i] = i
  /\ outAcked <= inSeq /\ inSeq <= Len(inbox) /\ Len(inbox) <= outSeq

StatesOK == att \in States /\ home \in States /\ OutcomeAgreed

\* A verdict that may be delivered whenever it comes.
GoodVerdict(q, o) ==
  /\ q \in 1 .. imported /\ IsReport(outbox[q]) /\ messages[q] = outbox[q].id
  /\ o \in Outcomes => home = o

GoodRequest(m) ==
  /\ m = [kind |-> m.kind, id |-> m.id, body |-> m.body, late |-> m.late]
  /\ m.id \in Nat /\ m.late \in BOOLEAN /\ m.kind \in {"ack", "import"}
  /\ m.kind = "ack" => /\ m.body[1] \in 1 .. imported
                       /\ \A q \in DOMAIN m.body[2] : GoodVerdict(q, m.body[2][q])
  /\ m.kind = "import" => m.body \in 1 .. inSeq + 1 /\ m.body <= m.id /\ m.id <= outSeq

\* The first n items are acknowledged.
AckedTo(n) == n \in 0 .. Len(outbox) /\ \A i \in 1 .. n : outbox[i].acked

\* What an answer may say.
GoodAnswer(kind, n) ==
  /\ kind = "ack" => n # 0 /\ AckedTo(n)
  /\ kind = "import" => n \in 0 .. inSeq

ReceiptsOK == \A k \in DOMAIN receipts : receipts[k].done => GoodAnswer(k[1], receipts[k].through)

\* An item as the queue holds it, or the heartbeat it held.
GoodEntry(e) ==
  /\ e.seq \in DOMAIN outbox
  /\ IsReport(e) => /\ IsReport(outbox[e.seq]) /\ outbox[e.seq].id = e.id
                    /\ outbox[e.seq].outcome = e.outcome
  /\ ~IsReport(e) => e.id = e.seq

\* A page that can be imported.
GoodPage(page) ==
  /\ page \in Seq(Entry)
  /\ page # <<>> => page[1].seq <= imported + 1
  /\ \A i \in DOMAIN page : GoodEntry(page[i]) /\ page[i].seq = page[1].seq + i - 1

SyncType == [pc : Phase, row : Row, cap : Cap, replay : BOOLEAN, left : Nat,
             page : Seq(Entry), peer : Nat, through : Nat]

SyncOK ==
  /\ sync \in SyncType
  /\ sync.row.imported <= imported
  /\ sync.pc = "next" => sync.left > 1
  /\ sync.pc = "page" => GoodPage(sync.page)
  /\ sync.pc = "acked" => GoodAnswer("ack", sync.through)
  /\ sync.pc = "imported" => GoodAnswer("import", sync.through)

\* What the home knows to be acknowledged.
GoodCheckpoint(c) == c \in [epoch : Nat, through : Nat] /\ AckedTo(c.through)

KnownOK == AckedTo(ackd) /\ GoodCheckpoint(ckpt)

PlainOK ==
  /\ {epoch, fedEpoch, faults} \subseteq Nat
  /\ supports \in BOOLEAN /\ moved \in BOOLEAN /\ stopCall \in BOOLEAN /\ refused \in BOOLEAN
  /\ cap \in Cap

NetOK == \A m \in net : GoodRequest(m)

IInv == /\ QueueOK /\ TakenOK /\ ControlOK /\ StatesOK /\ NetOK /\ ReceiptsOK
        /\ SyncOK /\ KnownOK /\ PlainOK

-----------------------------------------------------------------------------
(* Least elements.                                                         *)

\* A set of naturals has a least element.
LEMMA LeastNat ==
  ASSUME NEW T, T \subseteq Nat, T # {}
  PROVE  \E x \in T : \A y \in T : x <= y
<1> DEFINE Less == {ss \in Nat \X Nat : ss[1] < ss[2]}
<1>1. IsWellFoundedOn(Less, Nat)
  BY NatLessThanWellFounded DEF OpToRel
<1> HIDE DEF Less
<1>2. PICK x \in T : \A y \in T : ~(<<y, x>> \in Less)
  BY <1>1, WFMin
<1>3. ASSUME NEW a \in Nat, NEW b \in Nat, a < b PROVE <<a, b>> \in Less
  BY <1>3 DEF Less
<1>4. ASSUME NEW y \in T PROVE x <= y
  <2>1. ~(y < x)
    BY <1>2, <1>3
  <2> QED
    BY <2>1
<1> QED
  BY <1>4

LEMMA MinNat ==
  ASSUME NEW T, T \subseteq Nat, T # {}
  PROVE  Min(T) \in T /\ \A y \in T : Min(T) <= y
<1>1. \E x \in T : \A y \in T : x <= y
  BY LeastNat
<1> QED
  BY <1>1 DEF Min

LEMMA MinTwo ==
  ASSUME NEW a \in Nat, NEW b \in Nat
  PROVE  Min({a, b}) = IF a <= b THEN a ELSE b
BY MinNat

LEMMA MaxTwo ==
  ASSUME NEW a \in Nat, NEW b \in Nat
  PROVE  Max({a, b}) = IF a >= b THEN a ELSE b
<1> DEFINE c == IF a >= b THEN a ELSE b
<1>1. c \in {a, b} /\ \A y \in {a, b} : c >= y
  OBVIOUS
<1>2. Max({a, b}) \in {a, b} /\ \A y \in {a, b} : Max({a, b}) >= y
  BY <1>1 DEF Max
<1> QED
  BY <1>1, <1>2

-----------------------------------------------------------------------------
(* What no step takes back, and what is good therefore stays good.         *)

Grows ==
  /\ Len(outbox) <= Len(outbox')
  /\ \A i \in DOMAIN outbox :
       /\ outbox[i].acked => outbox'[i].acked
       /\ IsReport(outbox[i]) => /\ IsReport(outbox'[i]) /\ outbox'[i].id = outbox[i].id
                                 /\ outbox'[i].outcome = outbox[i].outcome
  /\ imported <= imported'
  /\ \A i \in 1 .. imported : messages'[i] = messages[i]
  /\ home \in Outcomes => home' = home
  /\ inSeq <= inSeq' /\ outSeq <= outSeq'

LEMMA Lengths ==
  ASSUME QueueOK, TakenOK
  PROVE  /\ Len(outbox) \in Nat /\ DOMAIN outbox = 1 .. Len(outbox)
         /\ imported \in Nat /\ DOMAIN messages = 1 .. imported /\ imported <= Len(outbox)
BY LenProperties DEF QueueOK, TakenOK

\* A step that leaves the queue and the messages consistent grows them.
Kept == QueueOK /\ TakenOK /\ ControlOK /\ QueueOK' /\ TakenOK' /\ ControlOK' /\ Grows

LEMMA AckedStays ==
  ASSUME Kept, NEW n, AckedTo(n)
  PROVE  AckedTo(n)'
<1>1. /\ Len(outbox) \in Nat /\ DOMAIN outbox = 1 .. Len(outbox)
      /\ Len(outbox') \in Nat /\ DOMAIN outbox' = 1 .. Len(outbox')
  BY Lengths, LenProperties DEF Kept, QueueOK
<1> QED
  BY <1>1 DEF Kept, Grows, AckedTo

LEMMA AnswerStays ==
  ASSUME Kept, NEW kind, NEW n, GoodAnswer(kind, n)
  PROVE  GoodAnswer(kind, n)'
<1>1. kind = "ack" => AckedTo(n)'
  BY AckedStays DEF GoodAnswer
<1>2. kind = "import" => n \in 0 .. inSeq'
  BY DEF GoodAnswer, Kept, Grows, ControlOK
<1> QED
  BY <1>1, <1>2 DEF GoodAnswer

LEMMA VerdictStays ==
  ASSUME Kept, NEW q, NEW o, GoodVerdict(q, o)
  PROVE  GoodVerdict(q, o)'
<1>1. /\ Len(outbox) \in Nat /\ DOMAIN outbox = 1 .. Len(outbox)
      /\ imported \in Nat /\ imported <= Len(outbox) /\ imported' \in Nat
  BY Lengths, LenProperties DEF Kept, QueueOK, TakenOK
<1>2. q \in 1 .. imported /\ q \in DOMAIN outbox
  BY <1>1 DEF GoodVerdict
<1>3. q \in 1 .. imported' /\ messages'[q] = messages[q]
  BY <1>1, <1>2 DEF Kept, Grows
<1>4. IsReport(outbox'[q]) /\ outbox'[q].id = outbox[q].id
  BY <1>2 DEF Kept, Grows, GoodVerdict
<1>5. o \in Outcomes => home' = o
  BY DEF Kept, Grows, GoodVerdict
<1> QED
  BY <1>3, <1>4, <1>5 DEF GoodVerdict

LEMMA RequestStays ==
  ASSUME Kept, NEW m, GoodRequest(m)
  PROVE  GoodRequest(m)'
<1>1. imported \in Nat /\ imported' \in Nat /\ imported <= imported'
  BY Lengths, LenProperties DEF Kept, TakenOK, Grows
<1>2. m.kind = "ack" => m.body[1] \in 1 .. imported'
  BY <1>1 DEF GoodRequest
<1>3. m.kind = "ack" => \A q \in DOMAIN m.body[2] : GoodVerdict(q, m.body[2][q])'
  BY VerdictStays DEF GoodRequest
<1>4. m.kind = "import" => m.body \in 1 .. inSeq' + 1 /\ m.id <= outSeq'
  BY DEF GoodRequest, Kept, Grows, ControlOK
<1> QED
  BY <1>2, <1>3, <1>4 DEF GoodRequest

LEMMA EntryStays ==
  ASSUME Kept, NEW e, GoodEntry(e)
  PROVE  GoodEntry(e)'
<1>1. /\ Len(outbox) \in Nat /\ DOMAIN outbox = 1 .. Len(outbox)
      /\ Len(outbox') \in Nat /\ DOMAIN outbox' = 1 .. Len(outbox')
  BY Lengths, LenProperties DEF Kept, QueueOK
<1>2. e.seq \in DOMAIN outbox /\ e.seq \in DOMAIN outbox'
  BY <1>1 DEF GoodEntry, Kept, Grows
<1> QED
  BY <1>2 DEF GoodEntry, Kept, Grows

LEMMA PageStays ==
  ASSUME Kept, NEW page, GoodPage(page)
  PROVE  GoodPage(page)'
<1>1. imported \in Nat /\ imported' \in Nat /\ imported <= imported'
  BY Lengths, LenProperties DEF Kept, TakenOK, Grows
<1>2. page # <<>> => page[1].seq \in Nat
  <2>1. Len(page) \in Nat /\ DOMAIN page = 1 .. Len(page)
    BY LenProperties DEF GoodPage
  <2>2. page # <<>> => 1 \in DOMAIN page
    BY <2>1, EmptySeq DEF GoodPage
  <2>3. \A i \in DOMAIN page : page[i] \in Entry
    BY <2>1, ElementOfSeq DEF GoodPage
  <2> QED
    BY <2>1, <2>2, <2>3 DEF Entry
<1>3. page # <<>> => page[1].seq <= imported' + 1
  BY <1>1, <1>2 DEF GoodPage
<1>4. \A i \in DOMAIN page : GoodEntry(page[i])'
  BY EntryStays DEF GoodPage
<1> QED
  BY <1>3, <1>4 DEF GoodPage

\* What nobody touched stays good.
LEMMA NetStays ==
  ASSUME Kept, NetOK, net' \subseteq net
  PROVE  NetOK'
BY RequestStays DEF NetOK

LEMMA NetAdds ==
  ASSUME Kept, NetOK, NEW m, GoodRequest(m)', net' = net \cup {m}
  PROVE  NetOK'
BY RequestStays DEF NetOK

LEMMA ReceiptsStay ==
  ASSUME Kept, ReceiptsOK, UNCHANGED receipts
  PROVE  ReceiptsOK'
BY AnswerStays DEF ReceiptsOK

LEMMA SyncStays ==
  ASSUME Kept, SyncOK, UNCHANGED sync
  PROVE  SyncOK'
<1>1. imported \in Nat /\ imported' \in Nat /\ imported <= imported'
  BY Lengths, LenProperties DEF Kept, TakenOK, Grows
<1>2. sync.row.imported <= imported'
  BY <1>1 DEF SyncOK, SyncType, Row
<1> QED
  BY <1>2, AnswerStays, PageStays DEF SyncOK

LEMMA KnownStays ==
  ASSUME Kept, KnownOK, UNCHANGED <<ackd, ckpt>>
  PROVE  KnownOK'
BY AckedStays DEF KnownOK, GoodCheckpoint

\* A step that neither queues nor takes nor acknowledges anything.
LEMMA SameData ==
  ASSUME IInv, UNCHANGED <<outbox, imported, messages, inSeq, inbox, outSeq, outAcked>>,
         home \in Outcomes => home' = home
  PROVE  Kept
<1>1. QueueOK' /\ TakenOK' /\ ControlOK'
  BY DEF IInv, QueueOK, TakenOK, ControlOK, AckedWasImported
<1>2. Len(outbox) \in Nat /\ imported \in Nat /\ inSeq \in Nat /\ outSeq \in Nat
  BY Lengths DEF IInv, ControlOK
<1>3. Grows
  BY <1>2 DEF Grows
<1> QED
  BY <1>1, <1>3 DEF Kept, IInv

-----------------------------------------------------------------------------
(* The ways a page and a sync end.                                         *)

LEMMA IdleType ==
  Idle \in SyncType /\ Idle.pc = "idle" /\ Idle.row = [imported |-> 0, ackd |-> 0, epoch |-> 0]
<1>1. <<>> \in Seq(Entry)
  BY EmptySeq
<1>2. [imported |-> 0, ackd |-> 0, epoch |-> 0] \in Row /\ NoCap \in Cap /\ "idle" \in Phase
  BY DEF Row, Cap, NoCap, Phase
<1> QED
  BY <1>1, <1>2 DEF Idle, SyncType

LEMMA IdleIsOK ==
  ASSUME imported' \in Nat, sync' = Idle
  PROVE  SyncOK'
BY IdleType DEF SyncOK

LEMMA NextIsOK ==
  ASSUME imported' \in Nat, NEW left \in Nat, left > 1,
         sync' = [Idle EXCEPT !.pc = "next", !.left = left]
  PROVE  SyncOK'
<1>1. /\ sync' \in SyncType /\ sync'.pc = "next" /\ sync'.left = left
      /\ sync'.row = [imported |-> 0, ackd |-> 0, epoch |-> 0]
  BY IdleType DEF SyncType, Phase
<1> QED
  BY <1>1 DEF SyncOK

LEMMA NoCheckpointOK ==
  ASSUME Kept
  PROVE  GoodCheckpoint(NoCheckpoint)'
<1>1. Len(outbox') \in Nat
  BY LenProperties DEF Kept, QueueOK
<1> QED
  BY <1>1 DEF GoodCheckpoint, NoCheckpoint, AckedTo

LEMMA CheckpointStays ==
  ASSUME Kept, NEW c, GoodCheckpoint(c)
  PROVE  GoodCheckpoint(c)'
BY AckedStays DEF GoodCheckpoint

LEMMA FinishOK ==
  ASSUME Kept, NEW c, GoodCheckpoint(c)', Finish(c)
  PROVE  SyncOK' /\ GoodCheckpoint(ckpt)'
<1>1. imported' \in Nat
  BY LenProperties DEF Kept, TakenOK
<1>2. SyncOK'
  BY <1>1, IdleIsOK DEF Finish
<1>3. ckpt' = c \/ ckpt' = NoCheckpoint
  BY DEF Finish
<1> QED
  BY <1>2, <1>3, NoCheckpointOK DEF GoodCheckpoint

LEMMA EndPageOK ==
  ASSUME Kept, SyncOK, NEW c, GoodCheckpoint(c)', EndPage(c)
  PROVE  SyncOK' /\ GoodCheckpoint(ckpt)'
<1>1. imported' \in Nat /\ sync.left \in Nat
  BY LenProperties DEF Kept, TakenOK, SyncOK, SyncType
<1>2. CASE Full /\ sync.left > 1 /\ ~Barrier
  <2>1. SyncOK'
    BY <1>1, <1>2, NextIsOK DEF EndPage
  <2> QED
    BY <1>2, <2>1 DEF EndPage, GoodCheckpoint
<1>3. CASE ~(Full /\ sync.left > 1 /\ ~Barrier)
  BY <1>3, FinishOK DEF EndPage
<1> QED
  BY <1>2, <1>3

\* The page of to_worker items that goes out is not ahead of the cursor.
LEMMA AfterAckOK ==
  ASSUME Kept, SyncOK, NetOK, PlainOK, UNCHANGED <<inSeq, outSeq, outAcked>>,
         NEW c, GoodCheckpoint(c)', AfterAck(c)
  PROVE  SyncOK' /\ NetOK' /\ GoodCheckpoint(ckpt)' /\ fedEpoch' \in Nat /\ cap' \in Cap
<1> USE RelayAssumption
<1>1. fedEpoch' \in Nat /\ cap' \in Cap
  BY DEF AfterAck, SyncOK, SyncType, PlainOK, NoCap, Cap
<1>2. imported \in Nat /\ imported' \in Nat /\ imported <= imported'
  BY Lengths, LenProperties DEF Kept, TakenOK, Grows
<1> DEFINE through == Min({outSeq, outAcked + PageSize})
           m == Request("import", through, outAcked + 1)
<1>3. CASE home' = "ready" /\ outAcked < outSeq
  <2>1. outSeq \in Nat /\ outAcked \in Nat /\ PageSize \in Nat \ {0} /\ inSeq \in Nat /\ outAcked <= inSeq
    BY DEF Kept, ControlOK
  <2>2. through \in Nat /\ outAcked + 1 <= through /\ through <= outSeq
    BY <1>3, <2>1, MinTwo
  <2> HIDE DEF through
  <2>3. /\ m = [kind |-> m.kind, id |-> m.id, body |-> m.body, late |-> m.late]
        /\ m.kind = "import" /\ m.id = through /\ m.body = outAcked + 1 /\ m.late = FALSE
    BY DEF Request
  <2> HIDE DEF m
  <2>4. PICK r : r = m
    OBVIOUS
  <2>5. GoodRequest(r)'
    <3>1. r.kind = "import" /\ r.id = through /\ r.body = outAcked + 1 /\ r.late = FALSE
      BY <2>3, <2>4
    <3>2. r = [kind |-> r.kind, id |-> r.id, body |-> r.body, late |-> r.late]
      BY <2>3, <2>4
    <3>3. r.body \in 1 .. inSeq' + 1 /\ r.body <= r.id /\ r.id <= outSeq' /\ r.id \in Nat
      BY <2>1, <2>2, <3>1
    <3> QED
      BY <3>1, <3>2, <3>3 DEF GoodRequest
  <2>6. net' = net \cup {r} /\ ckpt' = c /\ sync' = [sync EXCEPT !.pc = "import", !.through = through]
    BY <1>3, <2>4 DEF AfterAck, m, through
  <2>7. NetOK'
    BY <2>5, <2>6, NetAdds
  <2>8. SyncOK'
    <3>1. /\ sync' \in SyncType
          /\ sync'.pc = "import" /\ sync'.row = sync.row
      BY <2>2, <2>6 DEF SyncOK, SyncType, Phase
    <3>2. sync.row.imported <= imported'
      BY <1>2 DEF SyncOK, SyncType, Row
    <3> QED
      BY <3>1, <3>2 DEF SyncOK
  <2> QED
    BY <1>1, <2>6, <2>7, <2>8 DEF GoodCheckpoint
<1>4. CASE ~(home' = "ready" /\ outAcked < outSeq)
  <2>1. EndPage(c) /\ UNCHANGED net
    BY <1>4 DEF AfterAck
  <2> QED
    BY <1>1, <2>1, EndPageOK, NetStays
<1> QED
  BY <1>3, <1>4

-----------------------------------------------------------------------------
(* The actions, one by one.                                                *)

LEMMA InitOK ==
  ASSUME Init
  PROVE  IInv
<1>1. /\ <<>> \in Seq(Item) /\ <<>> \in Seq(Nat) /\ Len(<<>>) = 0 /\ DOMAIN <<>> = {}
  BY EmptySeq
<1>2. QueueOK /\ TakenOK /\ ControlOK
  BY <1>1, RelayAssumption DEF Init, QueueOK, TakenOK, ControlOK, AckedWasImported
<1>3. StatesOK
  BY DEF Init, StatesOK, States, HomeLive, OutcomeAgreed, Outcomes
<1>4. NetOK /\ ReceiptsOK
  BY <1>1 DEF Init, NetOK, ReceiptsOK
<1>5. SyncOK
  BY IdleType DEF Init, SyncOK
<1>6. KnownOK
  BY <1>1 DEF Init, KnownOK, GoodCheckpoint, NoCheckpoint, AckedTo
<1>7. PlainOK
  <2>1. {epoch, fedEpoch, faults} \subseteq Nat /\ cap \in Cap
    BY DEF Init, Cap, NoCap
  <2>2. supports \in BOOLEAN /\ moved \in BOOLEAN /\ stopCall \in BOOLEAN /\ refused \in BOOLEAN
    BY Zenon DEF Init
  <2> QED
    BY <2>1, <2>2 DEF PlainOK
<1> QED
  BY <1>2, <1>3, <1>4, <1>5, <1>6, <1>7 DEF IInv

\* A step of the queue or of a cursor only.
LEMMA RestStays ==
  ASSUME IInv, Kept,
         UNCHANGED <<att, home, net, receipts, sync, ackd, ckpt, epoch, fedEpoch, faults,
                     supports, moved, stopCall, refused, cap>>
  PROVE  IInv'
<1>1. StatesOK' /\ PlainOK'
  BY DEF IInv, StatesOK, OutcomeAgreed, PlainOK
<1>2. NetOK' /\ ReceiptsOK' /\ SyncOK' /\ KnownOK'
  BY NetStays, ReceiptsStay, SyncStays, KnownStays DEF IInv
<1> QED
  BY <1>1, <1>2 DEF IInv, Kept

LEMMA EnqueueOK ==
  ASSUME IInv, NEW kind \in Kinds, NEW outcome,
         IF kind = "worker_done" THEN outcome \in Outcomes ELSE outcome = "none",
         Enqueue(kind, outcome)
  PROVE  IInv'
<1> DEFINE it == [id |-> Len(outbox) + 1, kind |-> kind, outcome |-> outcome, acked |-> FALSE]
<1>1. /\ Len(outbox) \in Nat /\ DOMAIN outbox = 1 .. Len(outbox)
      /\ imported \in Nat /\ DOMAIN messages = 1 .. imported /\ imported <= Len(outbox)
  BY Lengths DEF IInv
<1>2. it \in Item /\ it.acked = FALSE /\ it.id = Len(outbox) + 1 /\ it.kind = kind /\ it.outcome = outcome
  BY <1>1 DEF Item
<1>3. outbox' = Append(outbox, it) /\ outbox \in Seq(Item) /\ Len(outbox) < MaxItems
  BY DEF Enqueue, IInv, QueueOK
<1> HIDE DEF it
<1>4. /\ outbox' \in Seq(Item) /\ Len(outbox') = Len(outbox) + 1
      /\ DOMAIN outbox' = 1 .. Len(outbox) + 1 /\ outbox'[Len(outbox) + 1] = it
      /\ \A i \in 1 .. Len(outbox) : outbox'[i] = outbox[i]
  BY <1>1, <1>2, <1>3, AppendProperties, LenProperties
<1>5. QueueOK'
  <2>1. /\ Len(outbox') <= MaxItems
        /\ \A i, j \in DOMAIN outbox' : i <= j /\ outbox'[j].acked => outbox'[i].acked
    BY <1>1, <1>2, <1>3, <1>4, RelayAssumption DEF IInv, QueueOK
  <2>2. ASSUME NEW i \in DOMAIN outbox'
        PROVE  /\ IsReport(outbox'[i]) => outbox'[i].outcome \in Outcomes /\ outbox'[i].id \in {i, MaxItems + i}
               /\ ~IsReport(outbox'[i]) => outbox'[i].outcome = "none" /\ outbox'[i].id = i
    <3>1. CASE i \in DOMAIN outbox
      BY <1>1, <1>4, <3>1 DEF IInv, QueueOK
    <3>2. CASE i = Len(outbox) + 1
      BY <1>2, <1>4, <3>2 DEF IsReport
    <3> QED
      BY <1>1, <1>4, <3>1, <3>2
  <2> QED
    BY <1>4, <2>1, <2>2 DEF QueueOK
<1>6. UNCHANGED <<imported, messages, inSeq, inbox, outSeq, outAcked, home>>
  BY DEF Enqueue, UnchangedButOutbox, homeVars
<1>7. TakenOK'
  BY <1>1, <1>2, <1>4, <1>6 DEF IInv, TakenOK, AckedWasImported
<1>8. ControlOK'
  BY <1>6 DEF IInv, ControlOK
<1>9. Grows
  <2>1. inSeq \in Nat /\ outSeq \in Nat
    BY DEF IInv, ControlOK
  <2> QED
    BY <1>1, <1>4, <1>6, <2>1 DEF Grows
<1> QED
  BY <1>5, <1>7, <1>8, <1>9, RestStays
     DEF Enqueue, UnchangedButOutbox, homeVars, memoryVars, Kept, IInv

LEMMA ReportOverHeartbeatOK ==
  ASSUME IInv, NEW o \in Reports, ReportOverHeartbeat(o)
  PROVE  IInv'
<1>1. /\ Len(outbox) \in Nat /\ DOMAIN outbox = 1 .. Len(outbox)
      /\ imported \in Nat /\ DOMAIN messages = 1 .. imported /\ imported <= Len(outbox)
  BY Lengths DEF IInv
<1>2. PICK k \in Unacked(outbox) :
        /\ outbox[k].kind = "heartbeat"
        /\ outbox' = [outbox EXCEPT ![k] =
             [id |-> MaxItems + k, kind |-> "worker_done", outcome |-> o, acked |-> FALSE]]
  BY DEF ReportOverHeartbeat
<1> DEFINE it == [id |-> MaxItems + k, kind |-> "worker_done", outcome |-> o, acked |-> FALSE]
<1>3. k \in 1 .. Len(outbox) /\ ~outbox[k].acked /\ ~IsReport(outbox[k])
  BY <1>1, <1>2 DEF Unacked, IsReport
<1>4. it \in Item /\ it.acked = FALSE /\ it.id = MaxItems + k /\ it.kind = "worker_done" /\ it.outcome = o
  BY <1>1, <1>3, RelayAssumption DEF Item, Kinds, Outcomes
<1> HIDE DEF it
<1>5. outbox' = [outbox EXCEPT ![k] = it] /\ outbox \in Seq(Item)
  BY <1>2 DEF it, IInv, QueueOK
<1>6. /\ outbox' \in Seq(Item) /\ Len(outbox') = Len(outbox) /\ DOMAIN outbox' = 1 .. Len(outbox)
      /\ \A i \in 1 .. Len(outbox) : outbox'[i] = IF i = k THEN it ELSE outbox[i]
  BY <1>3, <1>4, <1>5, ExceptSeq, LenProperties
<1>7. o \in Outcomes
  BY RelayAssumption DEF Outcomes
<1>8. QueueOK'
  BY <1>1, <1>3, <1>4, <1>6, <1>7 DEF IInv, QueueOK, IsReport
<1>9. UNCHANGED <<imported, messages, inSeq, inbox, outSeq, outAcked, home>>
  BY DEF ReportOverHeartbeat, UnchangedButOutbox, homeVars
<1>10. TakenOK'
  BY <1>1, <1>3, <1>4, <1>6, <1>9 DEF IInv, TakenOK, AckedWasImported, QueueOK
<1>11. ControlOK'
  BY <1>9 DEF IInv, ControlOK
<1>12. Grows
  <2>1. inSeq \in Nat /\ outSeq \in Nat
    BY DEF IInv, ControlOK
  <2> QED
    BY <1>1, <1>3, <1>4, <1>6, <1>9, <2>1 DEF Grows
<1> QED
  BY <1>8, <1>10, <1>11, <1>12, RestStays
     DEF ReportOverHeartbeat, UnchangedButOutbox, homeVars, memoryVars, Kept, IInv

LEMMA SendOK ==
  ASSUME IInv, SendStatus \/ SendHeartbeat \/ \E o \in Reports : SendReport(o)
  PROVE  IInv'
<1>1. \A o \in Reports : o \in Outcomes
  BY RelayAssumption DEF Outcomes
<1> QED
  BY <1>1, EnqueueOK DEF SendStatus, SendHeartbeat, SendReport, Kinds

LEMMA QueueControlOK ==
  ASSUME IInv, QueueControl
  PROVE  IInv'
<1>1. /\ UNCHANGED <<outbox, imported, messages, inSeq, inbox, outAcked, home>>
      /\ outSeq' = outSeq + 1
  BY DEF QueueControl, serverVars
<1>2. /\ Len(outbox) \in Nat /\ imported \in Nat /\ {inSeq, outSeq, outAcked} \subseteq Nat
      /\ Len(inbox) \in Nat
  BY Lengths, LenProperties DEF IInv, ControlOK
<1>3. QueueOK' /\ TakenOK'
  BY <1>1 DEF IInv, QueueOK, TakenOK, AckedWasImported
<1>4. ControlOK'
  BY <1>1, <1>2 DEF IInv, ControlOK
<1>5. Grows
  BY <1>1, <1>2 DEF Grows
<1> QED
  BY <1>3, <1>4, <1>5, RestStays DEF QueueControl, serverVars, memoryVars, Kept, IInv

\* A step of the states only.
LEMMA StatesChange ==
  ASSUME IInv, UnchangedButStates, StatesOK',
         home \in Outcomes => home' = home,
         moved' \in BOOLEAN, stopCall' \in BOOLEAN
  PROVE  IInv'
<1>1. Kept
  BY SameData DEF UnchangedButStates
<1>2. PlainOK'
  <2>1. UNCHANGED <<epoch, fedEpoch, faults, supports, refused, cap>>
    BY DEF UnchangedButStates, memoryVars
  <2> QED
    BY <2>1 DEF IInv, PlainOK
<1>3. NetOK' /\ ReceiptsOK' /\ SyncOK' /\ KnownOK'
  BY <1>1, NetStays, ReceiptsStay, SyncStays, KnownStays DEF IInv, UnchangedButStates, memoryVars
<1> QED
  BY <1>1, <1>2, <1>3 DEF IInv, Kept

LEMMA StateStepsOK ==
  ASSUME IInv,
         \/ HomeStop \/ RemoteStop \/ RemoteStopEnds
         \/ HomeStopAnswered \/ HomeStopUnknown \/ TaskMovesOn
  PROVE  IInv'
<1>1. StatesOK /\ moved \in BOOLEAN /\ stopCall \in BOOLEAN
  BY DEF IInv, PlainOK
<1>2. UnchangedButStates
  BY DEF HomeStop, RemoteStop, RemoteStopEnds, HomeStopAnswered, HomeStopUnknown, TaskMovesOn
<1>3. moved' \in BOOLEAN /\ stopCall' \in BOOLEAN
  BY <1>1, Zenon DEF HomeStop, RemoteStop, RemoteStopEnds, HomeStopAnswered, HomeStopUnknown, TaskMovesOn
<1>4. StatesOK' /\ (home \in Outcomes => home' = home)
  BY <1>1 DEF HomeStop, RemoteStop, RemoteStopEnds, HomeStopAnswered, HomeStopUnknown, TaskMovesOn,
              StatesOK, OutcomeAgreed, States, HomeLive, Outcomes
<1> QED
  BY <1>2, <1>3, <1>4, StatesChange

\* A step of the sync that reads, and of what the home remembers.
LEMMA ReadingStays ==
  ASSUME IInv, UNCHANGED <<serverVars, homeVars, ckpt, net, stopCall, refused, faults>>,
         SyncOK', cap' \in Cap
  PROVE  IInv'
<1>1. Kept
  BY SameData DEF serverVars, homeVars
<1>2. PlainOK' /\ StatesOK'
  BY DEF IInv, PlainOK, StatesOK, OutcomeAgreed, serverVars, homeVars
<1>3. NetOK' /\ ReceiptsOK' /\ KnownOK'
  BY <1>1, NetStays, ReceiptsStay, KnownStays DEF IInv, serverVars, homeVars
<1> QED
  BY <1>1, <1>2, <1>3 DEF IInv, Kept

LEMMA BeginPageOK ==
  ASSUME IInv, NEW left \in Nat, BeginPage(left), UNCHANGED imported
  PROVE  SyncOK' /\ cap' \in Cap
<1> DEFINE c == IF cap = NoCap THEN [epoch |-> epoch, supported |-> supports] ELSE cap
           row == [imported |-> imported, ackd |-> ackd, epoch |-> fedEpoch]
           replay == c.supported \/ ackd < imported
<1>1. c \in Cap
  BY DEF IInv, PlainOK, Cap
<1>2. imported \in Nat /\ ackd \in Nat /\ fedEpoch \in Nat
  BY Lengths DEF IInv, KnownOK, AckedTo, PlainOK
<1>3. row \in Row /\ row.imported = imported
  BY <1>2 DEF Row
<1>4. replay \in BOOLEAN
  OBVIOUS
<1> HIDE DEF c, row, replay
<1>5. cap' = c /\ sync' = [Idle EXCEPT !.pc = "pull", !.cap = c, !.left = left,
                             !.row = row, !.replay = replay]
  BY DEF BeginPage, c, row, replay
<1>6. sync' \in SyncType /\ sync'.pc = "pull" /\ sync'.row = row
  BY <1>1, <1>3, <1>4, <1>5, IdleType DEF SyncType, Phase
<1>7. SyncOK'
  BY <1>2, <1>3, <1>6 DEF SyncOK
<1> QED
  BY <1>1, <1>5, <1>7

LEMMA BeginOK ==
  ASSUME IInv, StartSync \/ NextPage \/ RefusalExpires
  PROVE  IInv'
<1>1. CASE StartSync
  <2>1. SyncOK' /\ cap' \in Cap
    BY <1>1, BeginPageOK, RelayAssumption DEF StartSync, homeVars
  <2> QED
    BY <1>1, <2>1, ReadingStays DEF StartSync
<1>2. CASE NextPage
  <2>1. sync.left \in Nat /\ sync.left > 1
    BY <1>2 DEF NextPage, IInv, SyncOK, SyncType
  <2>2. PICK left \in Nat : left = sync.left - 1
    BY <2>1
  <2>3. SyncOK' /\ cap' \in Cap
    BY <1>2, <2>2, BeginPageOK DEF NextPage, homeVars
  <2> QED
    BY <1>2, <2>3, ReadingStays DEF NextPage
<1>3. CASE RefusalExpires
  <2>1. cap' \in Cap /\ UNCHANGED sync
    BY <1>3 DEF RefusalExpires, Cap, NoCap
  <2>2. SyncOK'
    BY <1>3, <2>1 DEF RefusalExpires, homeVars, serverVars, IInv, SyncOK, GoodPage, GoodEntry, GoodAnswer, AckedTo
  <2> QED
    BY <1>3, <2>1, <2>2, ReadingStays DEF RefusalExpires
<1> QED
  BY <1>1, <1>2, <1>3

\* The first items of the rest of the queue are an interval.
LEMMA FirstOfRest ==
  ASSUME NEW lo \in Nat, NEW hi \in Nat, NEW n \in Nat, NEW S, S = {i \in 1 .. hi : i > lo},
         NEW q, FirstOf(S, n, q)
  PROVE  \A i \in 1 .. n : q[i] = lo + i
<1> DEFINE T == {i \in 1 .. n : q[i] # lo + i}
<1>1. /\ q \in [1 .. n -> S]
      /\ \A i, j \in 1 .. n : i < j => q[i] < q[j]
      /\ \A x \in S : (\E j \in 1 .. n : q[j] = x) \/ \A i \in 1 .. n : q[i] < x
  BY DEF FirstOf, Range
<1>2. \A i \in 1 .. n : q[i] \in Nat /\ q[i] > lo /\ q[i] <= hi
  BY <1>1
<1> SUFFICES ASSUME T # {} PROVE FALSE
  OBVIOUS
<1>3. PICK k \in T : \A j \in T : k <= j
  <2>1. T \subseteq Nat
    OBVIOUS
  <2> HIDE DEF T
  <2> QED
    BY <2>1, LeastNat
<1>4. k \in 1 .. n /\ q[k] # lo + k /\ \A j \in 1 .. n : j < k => q[j] = lo + j
  BY <1>3
<1>5. q[k] > lo + k
  <2>1. CASE k = 1
    BY <1>2, <1>4, <2>1
  <2>2. CASE k # 1
    <3>1. k - 1 \in 1 .. n /\ q[k - 1] = lo + (k - 1) /\ q[k - 1] < q[k]
      BY <1>1, <1>4, <2>2
    <3> QED
      BY <1>2, <1>4, <3>1
  <2> QED
    BY <2>1, <2>2
<1>6. lo + k \in S
  BY <1>2, <1>4, <1>5
<1>7. \A j \in 1 .. n : q[j] # lo + k
  <2> SUFFICES ASSUME NEW j \in 1 .. n PROVE q[j] # lo + k
    OBVIOUS
  <2>1. CASE j < k
    BY <1>4, <2>1
  <2>2. CASE j = k
    BY <1>4, <2>2
  <2>3. CASE k < j
    <3>1. q[k] < q[j]
      BY <1>1, <1>4, <2>3
    <3> QED
      BY <1>2, <1>4, <1>5, <3>1
  <2> QED
    BY <1>4, <2>1, <2>2, <2>3
<1>8. q[k] < lo + k
  BY <1>1, <1>4, <1>6, <1>7
<1> QED
  BY <1>2, <1>4, <1>5, <1>8

\* What a pull finds is the rest of the queue behind an item the home has.
LEMMA RestOfQueue ==
  ASSUME IInv, NEW todo,
         todo = {i \in DOMAIN outbox : IF sync.replay THEN ~outbox[i].acked ELSE i > sync.row.imported}
  PROVE  \E lo \in Nat : lo <= imported /\ todo = {i \in 1 .. Len(outbox) : i > lo}
<1>1. /\ Len(outbox) \in Nat /\ DOMAIN outbox = 1 .. Len(outbox)
      /\ imported \in Nat /\ DOMAIN messages = 1 .. imported /\ imported <= Len(outbox)
      /\ Len(messages) = imported
  BY Lengths DEF IInv, TakenOK
<1>2. CASE ~sync.replay
  <2>1. sync.row.imported \in Nat /\ sync.row.imported <= imported
    BY DEF IInv, SyncOK, SyncType, Row
  <2> QED
    BY <1>1, <1>2, <2>1
<1>3. CASE sync.replay
  <2>1. \A i \in DOMAIN outbox : outbox[i].acked => i <= imported
    BY <1>1 DEF IInv, TakenOK, AckedWasImported
  <2>2. CASE todo = {}
    <3>1. \A i \in 1 .. Len(outbox) : outbox[i].acked
      BY <1>1, <1>3, <2>2
    <3>2. Len(outbox) <= imported
      BY <1>1, <2>1, <3>1
    <3>3. todo = {i \in 1 .. Len(outbox) : i > Len(outbox)}
      BY <1>1, <2>2
    <3> QED
      BY <1>1, <3>2, <3>3
  <2>3. CASE todo # {}
    <3>1. todo \subseteq Nat
      BY <1>1
    <3>2. PICK k \in todo : \A j \in todo : k <= j
      BY <2>3, <3>1, LeastNat
    <3>3. k \in 1 .. Len(outbox) /\ ~outbox[k].acked /\ k - 1 \in Nat
      BY <1>1, <1>3, <3>2
    <3>4. \A i, j \in DOMAIN outbox : i <= j /\ outbox[j].acked => outbox[i].acked
      BY DEF IInv, QueueOK
    <3>5. todo = {i \in 1 .. Len(outbox) : i > k - 1}
      BY <1>1, <1>3, <3>2, <3>3, <3>4
    <3>6. k - 1 <= imported
      <4>1. CASE k = 1
        BY <1>1, <4>1
      <4>2. CASE k # 1
        <5>1. k - 1 \in DOMAIN outbox /\ k - 1 \notin todo
          BY <1>1, <3>2, <3>3, <4>2
        <5> QED
          BY <1>1, <1>3, <2>1, <5>1
      <4> QED
        BY <4>1, <4>2
    <3> QED
      BY <3>3, <3>5, <3>6
  <2> QED
    BY <2>2, <2>3
<1> QED
  BY <1>2, <1>3

LEMMA PullOK ==
  ASSUME IInv, Pull
  PROVE  IInv'
<1>1. /\ Len(outbox) \in Nat /\ DOMAIN outbox = 1 .. Len(outbox)
      /\ imported \in Nat /\ outbox \in Seq(Item)
  BY Lengths DEF IInv, QueueOK
<1> DEFINE todo == {i \in DOMAIN outbox : IF sync.replay THEN ~outbox[i].acked ELSE i > sync.row.imported}
           n    == Min({PageSize, Cardinality(todo)})
<1>2. n \in Nat
  <2>1. IsFiniteSet(todo)
    <3>1. IsFiniteSet(1 .. Len(outbox))
      BY <1>1, FS_Interval
    <3>2. todo \in SUBSET (1 .. Len(outbox))
      BY <1>1
    <3> HIDE DEF todo
    <3> QED
      BY <3>1, <3>2, FS_Subset
  <2>2. Cardinality(todo) \in Nat
    BY <2>1, FS_CardinalityType
  <2> QED
    BY <2>2, MinTwo, RelayAssumption
<1>3. PICK lo \in Nat : lo <= imported /\ todo = {i \in 1 .. Len(outbox) : i > lo}
  BY RestOfQueue
<1> HIDE DEF n
<1>4. PICK q \in [1 .. n -> todo] :
        /\ FirstOf(todo, n, q)
        /\ sync' = [sync EXCEPT !.pc = "page", !.peer = epoch,
                      !.page = [i \in 1 .. n |->
                        [seq |-> q[i], id |-> outbox[q[i]].id,
                         kind |-> outbox[q[i]].kind, outcome |-> outbox[q[i]].outcome]]]
  BY DEF Pull, n
<1> HIDE DEF todo
<1>5. \A i \in 1 .. n : q[i] = lo + i /\ q[i] \in 1 .. Len(outbox)
  BY <1>1, <1>2, <1>3, <1>4, FirstOfRest
<1> DEFINE page == [i \in 1 .. n |-> [seq |-> q[i], id |-> outbox[q[i]].id,
                                      kind |-> outbox[q[i]].kind, outcome |-> outbox[q[i]].outcome]]
<1>6. \A i \in 1 .. n : outbox[q[i]] \in Item
  BY <1>1, <1>5, ElementOfSeq
<1>7. page \in [1 .. n -> Entry]
  BY <1>1, <1>5, <1>6 DEF Item, Entry
<1>8. /\ DOMAIN page = 1 .. n
      /\ \A i \in 1 .. n : /\ page[i].seq = q[i] /\ page[i].id = outbox[q[i]].id
                           /\ page[i].kind = outbox[q[i]].kind /\ page[i].outcome = outbox[q[i]].outcome
  OBVIOUS
<1> HIDE DEF page
<1>9. page \in Seq(Entry) /\ (page # <<>> => n # 0)
  <2>1. page \in Seq(Entry)
    BY <1>2, <1>7, SeqDef
  <2>2. page # <<>> => Len(page) # 0
    BY <2>1, EmptySeq
  <2> QED
    BY <1>2, <1>8, <2>1, <2>2, LenProperties
<1>10. GoodPage(page)
  <2>1. page # <<>> => page[1].seq <= imported + 1
    <3> SUFFICES ASSUME page # <<>> PROVE page[1].seq <= imported + 1
      OBVIOUS
    <3>1. 1 \in 1 .. n
      BY <1>2, <1>9
    <3>2. page[1].seq = lo + 1
      BY <1>5, <1>8, <3>1
    <3>3. imported \in Nat
      BY Lengths DEF IInv
    <3> QED
      BY <1>3, <3>2, <3>3
  <2>2. \A i \in 1 .. n : page[i].seq = page[1].seq + i - 1
    <3> TAKE i \in 1 .. n
    <3>1. 1 \in 1 .. n /\ i \in Nat
      BY <1>2
    <3>2. page[i].seq = lo + i /\ page[1].seq = lo + 1
      BY <1>5, <1>8, <3>1
    <3> QED
      BY <3>1, <3>2
  <2>3. \A i \in 1 .. n : GoodEntry(page[i])
    BY <1>1, <1>5, <1>8 DEF IInv, QueueOK, GoodEntry, IsReport
  <2> QED
    BY <1>8, <1>9, <2>1, <2>2, <2>3 DEF GoodPage
<1>11. /\ sync' \in SyncType /\ sync'.pc = "page" /\ sync'.page = page /\ sync'.row = sync.row
  <2>1. sync' = [sync EXCEPT !.pc = "page", !.peer = epoch, !.page = page]
    BY <1>4 DEF page
  <2>2. sync \in SyncType /\ epoch \in Nat
    BY DEF IInv, SyncOK, PlainOK
  <2> QED
    BY <1>9, <2>1, <2>2 DEF SyncType, Phase
<1>12. UNCHANGED <<serverVars, homeVars, ckpt, cap, net, stopCall, refused, faults>>
  BY DEF Pull
<1>13. SyncOK'
  <2>1. Kept
    BY <1>12, SameData DEF serverVars, homeVars
  <2>2. PICK p : p = page
    OBVIOUS
  <2>3. GoodPage(p)'
    BY <1>10, <2>1, <2>2, PageStays
  <2>4. sync.row.imported <= imported' /\ sync'.page = p
    BY <1>11, <1>12, <2>2 DEF SyncOK, IInv, homeVars
  <2> QED
    BY <1>11, <2>3, <2>4 DEF SyncOK
<1> QED
  BY <1>12, <1>13, ReadingStays DEF IInv, PlainOK

\* The items of a page, as importable as its first refused one allows.
LEMMA PageEntries ==
  ASSUME NEW page, GoodPage(page), imported \in Nat
  PROVE  /\ Len(page) \in Nat /\ DOMAIN page = 1 .. Len(page)
         /\ \A i \in 1 .. Len(page) : page[i] \in Entry /\ page[i].seq \in Nat
         /\ \A i \in 1 .. Len(page) : page[i].seq = page[1].seq + i - 1
         /\ Len(page) # 0 => page[1].seq <= imported + 1
<1>1. page \in Seq(Entry) /\ Len(page) \in Nat /\ DOMAIN page = 1 .. Len(page)
  BY LenProperties DEF GoodPage
<1>2. \A i \in 1 .. Len(page) : page[i] \in Entry
  BY <1>1, ElementOfSeq
<1>3. Len(page) # 0 => page # <<>>
  BY EmptySeq
<1> QED
  BY <1>1, <1>2, <1>3 DEF GoodPage, Entry

LEMMA ImportableOK ==
  ASSUME NEW page, GoodPage(page), imported \in Nat
  PROVE  /\ Importable(page) \in 0 .. Len(page)
         /\ \A i \in 1 .. Importable(page) : page[i].seq <= imported => page[i].id \in Range(messages)
<1>1. Len(page) \in Nat /\ DOMAIN page = 1 .. Len(page)
  BY PageEntries
<1> DEFINE bad == {i \in DOMAIN page : Unimportable(page, i)}
<1>2. Importable(page) = IF bad = {} THEN Len(page) ELSE Min(bad) - 1
  BY DEF Importable
<1>3. bad \subseteq 1 .. Len(page)
  BY <1>1
<1>4. \A i \in 1 .. Len(page) : i \notin bad => (page[i].seq <= imported => page[i].id \in Range(messages))
  BY <1>1 DEF Unimportable
<1> HIDE DEF bad
<1>5. CASE bad = {}
  BY <1>1, <1>2, <1>4, <1>5
<1>6. CASE bad # {}
  <2>1. bad \subseteq Nat
    BY <1>3
  <2>2. Min(bad) \in bad /\ \A y \in bad : Min(bad) <= y
    BY <1>6, <2>1, MinNat
  <2>3. Min(bad) \in 1 .. Len(page)
    BY <1>3, <2>2
  <2> QED
    BY <1>1, <1>2, <1>4, <1>6, <2>2, <2>3
<1> QED
  BY <1>5, <1>6

\* A message of the identity of a queued report is that report.
LEMMA KnownReport ==
  ASSUME QueueOK, TakenOK, NEW q \in 1 .. imported, IsReport(outbox[q]),
         outbox[q].id \in Range(messages)
  PROVE  messages[q] = outbox[q].id
<1>1. /\ Len(outbox) \in Nat /\ DOMAIN outbox = 1 .. Len(outbox)
      /\ imported \in Nat /\ DOMAIN messages = 1 .. imported /\ imported <= Len(outbox)
      /\ Len(outbox) <= MaxItems /\ MaxItems \in Nat
  BY Lengths, RelayAssumption DEF QueueOK
<1>2. PICK j \in 1 .. imported : messages[j] = outbox[q].id
  BY <1>1 DEF Range
<1>3. outbox[q].id \in {q, MaxItems + q}
  BY <1>1 DEF QueueOK
<1>4. messages[j] \in {j, outbox[j].id} /\ outbox[j].id \in {j, MaxItems + j}
  BY <1>1 DEF TakenOK, QueueOK
<1>5. j = q
  BY <1>1, <1>2, <1>3, <1>4
<1> QED
  BY <1>2, <1>5

\* The messages after an import.
LEMMA Imported ==
  ASSUME QueueOK, TakenOK, NEW page, GoodPage(page), NEW k \in 0 .. Len(page), ImportPrefix(page, k)
  PROVE  /\ messages' \in Seq(Nat) /\ imported' = Len(messages') /\ imported' \in Nat
         /\ imported <= imported' /\ imported' <= Len(outbox)
         /\ \A i \in 1 .. imported : messages'[i] = messages[i]
         /\ \A i \in imported + 1 .. imported' :
              /\ i - page[1].seq + 1 \in 1 .. k
              /\ messages'[i] = page[i - page[1].seq + 1].id
         /\ \A i \in 1 .. k : page[i].seq <= imported'
<1>1. /\ Len(outbox) \in Nat /\ DOMAIN outbox = 1 .. Len(outbox)
      /\ imported \in Nat /\ DOMAIN messages = 1 .. imported /\ imported <= Len(outbox)
      /\ messages \in Seq(Nat) /\ Len(messages) = imported
  BY Lengths DEF TakenOK
<1>2. /\ Len(page) \in Nat /\ DOMAIN page = 1 .. Len(page)
      /\ \A i \in 1 .. Len(page) : page[i] \in Entry /\ page[i].seq \in Nat
      /\ \A i \in 1 .. Len(page) : page[i].seq = page[1].seq + i - 1
      /\ Len(page) # 0 => page[1].seq <= imported + 1
  BY <1>1, PageEntries
<1>3. \A i \in 1 .. Len(page) : page[i].seq \in 1 .. Len(outbox)
  BY <1>1, <1>2 DEF GoodPage, GoodEntry
<1> DEFINE cursor == CursorAfter(page, k)
<1>4. /\ cursor \in Nat /\ imported <= cursor /\ cursor <= Len(outbox)
      /\ \A i \in 1 .. k : page[i].seq <= cursor
      /\ cursor # imported => k # 0 /\ cursor = page[1].seq + k - 1
  <2>1. CASE k = 0
    BY <1>1, <2>1 DEF CursorAfter
  <2>2. CASE k # 0
    <3>1. /\ k \in 1 .. Len(page) /\ 1 \in 1 .. Len(page) /\ page[k].seq = page[1].seq + k - 1
          /\ page[k].seq \in 1 .. Len(outbox)
      BY <1>2, <1>3, <2>2
    <3>2. cursor = IF imported >= page[k].seq THEN imported ELSE page[k].seq
      BY <1>1, <2>2, <3>1, MaxTwo DEF CursorAfter
    <3>3. \A i \in 1 .. k : page[i].seq <= page[k].seq
      BY <1>2, <3>1
    <3> HIDE DEF cursor
    <3>4. cursor \in Nat /\ imported <= cursor /\ cursor <= Len(outbox) /\ page[k].seq <= cursor
      BY <1>1, <3>1, <3>2
    <3>5. ASSUME NEW i \in 1 .. k PROVE page[i].seq <= cursor
      <4>1. page[i].seq \in Nat /\ page[i].seq <= page[k].seq
        BY <1>2, <3>1, <3>3
      <4> QED
        BY <3>1, <3>4, <4>1
    <3> QED
      BY <2>2, <3>1, <3>2, <3>4, <3>5
  <2> QED
    BY <2>1, <2>2
<1> HIDE DEF cursor
<1>5. PICK d \in Nat :
        /\ cursor = imported + d /\ d <= k
        /\ d # 0 => page[1].seq \in Nat /\ page[1].seq + k = imported + d + 1
  <2>1. cursor - imported \in Nat /\ cursor = imported + (cursor - imported)
    BY <1>1, <1>4
  <2>2. cursor # imported => page[1].seq \in Nat /\ page[1].seq <= imported + 1
    BY <1>1, <1>2, <1>4
  <2>3. PICK d \in Nat : d = cursor - imported
    BY <2>1
  <2>4. cursor = imported + d
    BY <1>1, <1>4, <2>3
  <2>5. CASE d = 0
    BY <2>4, <2>5
  <2>6. CASE d # 0
    <3>1. cursor # imported
      BY <1>1, <2>4, <2>6
    <3>2. /\ page[1].seq \in Nat /\ page[1].seq <= imported + 1
          /\ imported + d = page[1].seq + k - 1
      BY <1>4, <2>2, <2>4, <3>1
    <3>3. PICK f \in Nat : f = page[1].seq
      BY <3>2
    <3>4. k \in Nat /\ f <= imported + 1 /\ imported + d = f + k - 1
      BY <1>2, <3>2, <3>3
    <3>5. f + k = imported + d + 1 /\ d <= k
      BY <1>1, <3>4
    <3> QED
      BY <2>4, <3>3, <3>5
  <2> QED
    BY <2>5, <2>6
<1> DEFINE new == SubSeq(page, k - d + 1, k)
           ids == [i \in DOMAIN new |-> new[i].id]
<1>6. messages' = messages \o ids /\ imported' = imported + d
  <2>1. cursor - imported = d
    BY <1>1, <1>5
  <2> QED
    BY <1>5, <2>1 DEF ImportPrefix, NewItems, cursor
<1>7. /\ new \in Seq(Entry) /\ Len(new) = d
      /\ \A i \in 1 .. d : new[i] = page[k - d + i]
  <2>1. k - d + 1 \in Int /\ k \in Int /\ \A i \in k - d + 1 .. k : page[i] \in Entry
    BY <1>2, <1>5
  <2>2. /\ new \in Seq(Entry) /\ Len(new) = IF k - d + 1 <= k THEN k - (k - d + 1) + 1 ELSE 0
        /\ \A i \in 1 .. k - (k - d + 1) + 1 : new[i] = page[(k - d + 1) + i - 1]
    BY <2>1, SubSeqProperties
  <2> HIDE DEF new
  <2>3. k - (k - d + 1) + 1 = d /\ \A i \in 1 .. d : (k - d + 1) + i - 1 = k - d + i
    BY <1>5
  <2> QED
    BY <1>5, <2>2, <2>3
<1>8. DOMAIN new = 1 .. d
  BY <1>7, LenProperties
<1> HIDE DEF new
<1>9. /\ ids \in [1 .. d -> Nat]
      /\ \A i \in 1 .. d : ids[i] = page[k - d + i].id
  <2>1. \A i \in 1 .. d : new[i] \in Entry
    BY <1>7, ElementOfSeq
  <2> QED
    BY <1>7, <1>8, <2>1 DEF Entry
<1> HIDE DEF ids
<1>10. ids \in Seq(Nat) /\ Len(ids) = d
  <2>1. ids \in Seq(Nat)
    BY <1>9, SeqDef
  <2> QED
    BY <1>9, <2>1, LenProperties
<1>11. /\ messages' \in Seq(Nat) /\ Len(messages') = imported + d
       /\ \A i \in 1 .. imported + d : messages'[i] = IF i <= imported THEN messages[i] ELSE ids[i - imported]
  BY <1>1, <1>6, <1>10, ConcatProperties
<1>12. \A i \in imported + 1 .. imported + d :
         /\ i - page[1].seq + 1 \in 1 .. k
         /\ messages'[i] = page[i - page[1].seq + 1].id
  <2> TAKE i \in imported + 1 .. imported + d
  <2>1. d # 0 /\ i \in Nat /\ i - imported \in 1 .. d /\ ~(i <= imported) /\ i \in 1 .. imported + d
    BY <1>1
  <2>2. page[1].seq \in Nat /\ page[1].seq + k = imported + d + 1
    BY <1>5, <2>1
  <2>3. k - d + (i - imported) = i - page[1].seq + 1
    BY <1>1, <2>1, <2>2
  <2>4. i - page[1].seq + 1 \in 1 .. k
    BY <1>1, <1>5, <2>1, <2>3
  <2>5. messages'[i] = ids[i - imported]
    BY <1>11, <2>1
  <2> QED
    BY <1>9, <2>1, <2>3, <2>4, <2>5
<1>13. imported' = cursor
  BY <1>5, <1>6
<1>14. \A i \in 1 .. imported : i \in 1 .. imported + d
  BY <1>1
<1>15. \A i \in 1 .. imported : messages'[i] = messages[i]
  BY <1>1, <1>11, <1>14
<1>16. imported' \in Nat /\ imported <= imported' /\ imported' <= Len(outbox)
  BY <1>4, <1>13
<1>17. \A i \in 1 .. k : page[i].seq <= imported'
  BY <1>4, <1>13
<1> QED
  BY <1>6, <1>11, <1>12, <1>15, <1>16, <1>17

\* The first k items of a page, seen through SubSeq.
LEMMA Prefix ==
  ASSUME NEW page, NEW k \in 0 .. Len(page), Len(page) \in Nat,
         \A i \in 1 .. Len(page) : page[i] \in Entry
  PROVE  /\ DOMAIN SubSeq(page, 1, k) = 1 .. k
         /\ \A i \in 1 .. k : SubSeq(page, 1, k)[i] = page[i]
<1>1. k \in Int /\ \A i \in 1 .. k : page[i] \in Entry
  OBVIOUS
<1>2. /\ SubSeq(page, 1, k) \in Seq(Entry) /\ Len(SubSeq(page, 1, k)) = IF 1 <= k THEN k - 1 + 1 ELSE 0
      /\ \A i \in 1 .. k - 1 + 1 : SubSeq(page, 1, k)[i] = page[1 + i - 1]
  BY <1>1, SubSeqProperties
<1> DEFINE p == SubSeq(page, 1, k)
<1> HIDE DEF p
<1>3. Len(p) = k /\ \A i \in 1 .. k : p[i] = page[i]
  <2>1. k - 1 + 1 = k /\ \A i \in 1 .. k : 1 + i - 1 = i
    OBVIOUS
  <2> QED
    BY <1>2, <2>1 DEF p
<1>4. DOMAIN p = 1 .. Len(p)
  BY <1>2, LenProperties DEF p
<1> QED
  BY <1>3, <1>4 DEF p

\* An import leaves what the home has a prefix of the queue, and a Dispatch that
\* settles takes the outcome of a report.
LEMMA ImportKept ==
  ASSUME IInv, NEW page, GoodPage(page), NEW k \in 0 .. Importable(page), ImportPrefix(page, k),
         UNCHANGED serverVars
  PROVE  /\ Kept /\ StatesOK' /\ UNCHANGED <<moved, outSeq, outAcked>>
         /\ \A i \in 1 .. k :
              /\ page[i].seq \in 1 .. imported'
              /\ IsReport(page[i]) => /\ IsReport(outbox'[page[i].seq])
                                      /\ messages'[page[i].seq] = outbox'[page[i].seq].id
<1>1. /\ Len(outbox) \in Nat /\ DOMAIN outbox = 1 .. Len(outbox)
      /\ imported \in Nat /\ DOMAIN messages = 1 .. imported /\ imported <= Len(outbox)
      /\ messages \in Seq(Nat) /\ Len(messages) = imported
  BY Lengths DEF IInv, TakenOK
<1>2. /\ Len(page) \in Nat /\ DOMAIN page = 1 .. Len(page)
      /\ \A i \in 1 .. Len(page) : page[i] \in Entry /\ page[i].seq \in Nat
      /\ \A i \in 1 .. Len(page) : page[i].seq = page[1].seq + i - 1
      /\ Len(page) # 0 => page[1].seq <= imported + 1
  BY <1>1, PageEntries
<1>3. /\ k \in 0 .. Len(page)
      /\ \A i \in 1 .. k : page[i].seq <= imported => page[i].id \in Range(messages)
  <2>1. /\ Importable(page) \in 0 .. Len(page)
        /\ \A i \in 1 .. Importable(page) : page[i].seq <= imported => page[i].id \in Range(messages)
    BY <1>1, ImportableOK
  <2> QED
    BY <1>2, <2>1
<1>4. /\ messages' \in Seq(Nat) /\ imported' = Len(messages') /\ imported' \in Nat
      /\ imported <= imported' /\ imported' <= Len(outbox)
      /\ \A i \in 1 .. imported : messages'[i] = messages[i]
      /\ \A i \in imported + 1 .. imported' :
           /\ i - page[1].seq + 1 \in 1 .. k
           /\ messages'[i] = page[i - page[1].seq + 1].id
      /\ \A i \in 1 .. k : page[i].seq <= imported'
  BY <1>3, Imported DEF IInv
<1>5. \A i \in 1 .. k : GoodEntry(page[i]) /\ page[i].seq \in 1 .. Len(outbox)
  <2>1. \A i \in 1 .. k : i \in DOMAIN page
    BY <1>2, <1>3
  <2>2. \A i \in DOMAIN page : GoodEntry(page[i])
    BY DEF GoodPage
  <2> QED
    BY <1>1, <2>1, <2>2 DEF GoodEntry
<1>6. DOMAIN messages' = 1 .. imported'
  BY <1>4, LenProperties
<1>7. ASSUME NEW i \in imported + 1 .. imported'
      PROVE  messages'[i] \in {i, outbox[i].id}
  <2>1. PICK j \in 1 .. k : j = i - page[1].seq + 1 /\ messages'[i] = page[j].id
    BY <1>4
  <2>2. j \in 1 .. Len(page) /\ 1 \in 1 .. Len(page)
    BY <1>2, <1>3
  <2>3. page[j].seq = page[1].seq + j - 1 /\ page[1].seq \in Nat
    BY <1>2, <2>2
  <2>4. page[j].seq = i
    <3>1. i \in Nat /\ j \in Nat
      BY <1>1, <1>4, <2>1
    <3> QED
      BY <2>1, <2>3, <3>1
  <2>5. GoodEntry(page[j])
    BY <1>5
  <2> QED
    BY <2>1, <2>4, <2>5 DEF GoodEntry
<1>8. UNCHANGED <<outbox, inSeq, inbox, att, outSeq, outAcked, moved>>
  BY DEF serverVars, ImportPrefix
<1>9. TakenOK'
  <2>1. ASSUME NEW i \in 1 .. imported' PROVE messages'[i] \in {i, outbox'[i].id}
    <3>1. CASE i <= imported
      <4>1. i \in 1 .. imported /\ i \in DOMAIN messages
        BY <1>1, <1>4, <3>1
      <4>2. messages[i] \in {i, outbox[i].id}
        BY <4>1 DEF IInv, TakenOK
      <4> QED
        BY <1>4, <1>8, <4>1, <4>2
    <3>2. CASE ~(i <= imported)
      BY <1>1, <1>4, <1>7, <1>8, <3>2
    <3> QED
      BY <3>1, <3>2
  <2>2. AckedWasImported'
    <3> SUFFICES ASSUME NEW i \in DOMAIN outbox, outbox[i].acked
                 PROVE  i <= Len(messages') /\ messages'[i] = outbox[i].id
      BY <1>8 DEF AckedWasImported
    <3>1. i <= imported /\ messages[i] = outbox[i].id /\ i \in 1 .. imported
      BY <1>1 DEF IInv, TakenOK, AckedWasImported
    <3> QED
      BY <1>1, <1>4, <3>1
  <2> QED
    BY <1>4, <1>6, <1>8, <2>1, <2>2 DEF TakenOK
<1>10. QueueOK' /\ ControlOK'
  BY <1>8 DEF IInv, QueueOK, ControlOK
<1>11. \A i \in 1 .. k : IsReport(page[i]) => page[i].outcome \in Outcomes
  BY <1>1, <1>5 DEF IInv, QueueOK, GoodEntry
<1>12. home' = home \/ (home \in Settleable /\ home' \in Outcomes)
  <2> DEFINE prefix == SubSeq(page, 1, k)
  <2>1. DOMAIN prefix = 1 .. k /\ \A i \in 1 .. k : prefix[i] = page[i]
    BY <1>2, <1>3, Prefix
  <2> HIDE DEF prefix
  <2>2. home' = HomeAfter(prefix)
    BY DEF ImportPrefix, prefix
  <2>3. CASE home \in Settleable /\ ReportsIn(prefix) # {}
    <3>1. ReportsIn(prefix) \subseteq Nat /\ ReportsIn(prefix) \subseteq 1 .. k
      BY <1>2, <1>3, <2>1 DEF ReportsIn
    <3>2. Min(ReportsIn(prefix)) \in ReportsIn(prefix)
      BY <2>3, <3>1, MinNat
    <3>3. PICK i \in 1 .. k : i = Min(ReportsIn(prefix)) /\ IsReport(prefix[i])
      BY <3>1, <3>2 DEF ReportsIn
    <3>4. home' = page[i].outcome /\ IsReport(page[i])
      BY <2>1, <2>2, <2>3, <3>3 DEF HomeAfter
    <3> QED
      BY <1>11, <2>3, <3>4
  <2>4. CASE ~(home \in Settleable /\ ReportsIn(prefix) # {})
    BY <2>2, <2>4 DEF HomeAfter
  <2> QED
    BY <2>3, <2>4
<1>13. Outcomes \cap Settleable = {} /\ Outcomes \subseteq States
  BY DEF Outcomes, Settleable, States
<1>14. StatesOK' /\ (home \in Outcomes => home' = home)
  BY <1>8, <1>12, <1>13 DEF IInv, StatesOK, OutcomeAgreed
<1>15. Grows
  <2>1. inSeq \in Nat /\ outSeq \in Nat
    BY DEF IInv, ControlOK
  <2> QED
    BY <1>1, <1>4, <1>8, <1>14, <2>1 DEF Grows
<1>16. ASSUME NEW i \in 1 .. k
       PROVE  /\ page[i].seq \in 1 .. imported'
              /\ IsReport(page[i]) => /\ IsReport(outbox'[page[i].seq])
                                      /\ messages'[page[i].seq] = outbox'[page[i].seq].id
  <2> DEFINE q == page[i].seq
  <2>1. q \in 1 .. Len(outbox) /\ q \in 1 .. imported' /\ i \in 1 .. Len(page) /\ 1 \in 1 .. Len(page)
    BY <1>1, <1>2, <1>3, <1>4, <1>5
  <2>2. SUFFICES ASSUME IsReport(page[i])
                 PROVE  IsReport(outbox[q]) /\ messages'[q] = outbox[q].id
    BY <1>8, <2>1
  <2>3. IsReport(outbox[q]) /\ outbox[q].id = page[i].id
    BY <1>5, <2>2 DEF GoodEntry
  <2>4. CASE q <= imported
    <3>1. q \in 1 .. imported /\ page[i].id \in Range(messages)
      BY <1>1, <1>3, <2>1, <2>4
    <3>2. messages[q] = outbox[q].id
      BY <2>3, <3>1, KnownReport DEF IInv
    <3> QED
      BY <1>4, <2>3, <3>1, <3>2
  <2>5. CASE ~(q <= imported)
    <3>1. q \in imported + 1 .. imported'
      BY <1>1, <1>4, <2>1, <2>5
    <3>2. q = page[1].seq + i - 1 /\ page[1].seq \in Nat
      BY <1>2, <2>1
    <3> HIDE DEF q
    <3>3. q - page[1].seq + 1 = i
      BY <3>2
    <3> QED
      BY <1>4, <2>3, <3>1, <3>3
  <2> QED
    BY <2>4, <2>5
<1> QED
  BY <1>8, <1>9, <1>10, <1>14, <1>15, <1>16 DEF Kept, IInv

\* The acknowledgment of an imported page covers imported items, and its
\* verdicts are what the home made of the reports in it.
LEMMA AckCursorOK ==
  ASSUME IInv, imported' \in Nat, imported <= imported', GoodPage(sync.page),
         \A i \in 1 .. Len(sync.page) : sync.page[i].seq \in 1 .. imported'
  PROVE  AckCursor \in 0 .. imported'
<1> DEFINE page == sync.page
<1>1. imported \in Nat
  BY Lengths DEF IInv
<1>2. Len(page) \in Nat /\ DOMAIN page = 1 .. Len(page) /\ page \in Seq(Entry)
  BY <1>1, PageEntries DEF GoodPage
<1>3. Cursor \in 0 .. imported'
  <2>1. CASE page = <<>>
    <3>1. sync.row.imported \in Nat /\ sync.row.imported <= imported
      BY DEF IInv, SyncOK, SyncType, Row
    <3> QED
      BY <1>1, <2>1, <3>1 DEF Cursor
  <2>2. CASE page # <<>>
    <3>1. Len(page) \in 1 .. Len(page)
      BY <1>2, <2>2, EmptySeq
    <3> QED
      BY <2>2, <3>1 DEF Cursor
  <2> QED
    BY <2>1, <2>2
<1>4. CASE Barrier
  <2>1. ReportsIn(page) # {} /\ ReportsIn(page) \subseteq Nat /\ ReportsIn(page) \subseteq 1 .. Len(page)
    BY <1>2, <1>4 DEF Barrier, ReportsIn
  <2>2. Min(ReportsIn(page)) \in 1 .. Len(page)
    BY <2>1, MinNat
  <2>3. page[Min(ReportsIn(page))].seq \in 1 .. imported'
    BY <2>2
  <2> QED
    BY <1>4, <2>3 DEF AckCursor
<1>5. CASE ~Barrier
  BY <1>3, <1>5 DEF AckCursor
<1> QED
  BY <1>4, <1>5

LEMMA VerdictsGood ==
  ASSUME NEW page,
         \A i \in DOMAIN page :
           /\ page[i].seq \in 1 .. imported'
           /\ IsReport(page[i]) => /\ IsReport(outbox'[page[i].seq])
                                   /\ messages'[page[i].seq] = outbox'[page[i].seq].id,
         NEW v, v = VerdictsOf(page, home'), NEW q \in DOMAIN v
  PROVE  GoodVerdict(q, v[q])'
<1>1. PICK i \in ReportsIn(page) : q = page[i].seq
  BY DEF VerdictsOf
<1>2. i \in DOMAIN page /\ IsReport(page[i])
  BY <1>1 DEF ReportsIn
<1>3. v[q] \in {home', "rejected"}
  BY DEF VerdictsOf
<1>4. v[q] \in Outcomes => home' = v[q]
  BY <1>3 DEF Outcomes
<1> QED
  BY <1>1, <1>2, <1>4 DEF GoodVerdict

LEMMA ImportPageOK ==
  ASSUME IInv, ImportPage
  PROVE  IInv' /\ Kept
<1> DEFINE k == Importable(sync.page)
<1>1. GoodPage(sync.page) /\ sync.pc = "page"
  BY DEF IInv, SyncOK, ImportPage
<1>2. PICK page : page = sync.page
  OBVIOUS
<1>3. imported \in Nat /\ imported' \in Nat
  <2>1. imported \in Nat
    BY Lengths DEF IInv
  <2>2. k \in 0 .. Len(sync.page)
    BY <1>1, <2>1, ImportableOK
  <2> QED
    BY <1>1, <2>1, <2>2, Imported DEF IInv, ImportPage
<1>4. /\ Len(page) \in Nat /\ DOMAIN page = 1 .. Len(page) /\ k \in 0 .. Len(page)
  BY <1>1, <1>2, <1>3, PageEntries, ImportableOK
<1>5. UNCHANGED <<serverVars, ackd, stopCall, refused, faults>>
  BY DEF ImportPage
<1>6. /\ Kept /\ StatesOK' /\ UNCHANGED <<moved, outSeq, outAcked>>
      /\ \A i \in 1 .. k :
           /\ page[i].seq \in 1 .. imported'
           /\ IsReport(page[i]) => /\ IsReport(outbox'[page[i].seq])
                                   /\ messages'[page[i].seq] = outbox'[page[i].seq].id
  <2>1. k \in 0 .. Importable(page) /\ ImportPrefix(page, k) /\ GoodPage(page) /\ UNCHANGED serverVars
    BY <1>1, <1>2, <1>4, <1>5 DEF ImportPage
  <2> HIDE DEF k
  <2> QED
    BY <2>1, ImportKept
<1>7. imported <= imported'
  BY <1>6 DEF Kept, Grows
<1>8. GoodCheckpoint(ckpt) /\ SyncOK /\ NetOK /\ ReceiptsOK /\ PlainOK
  BY DEF IInv, KnownOK
<1>9. PICK c : c = ckpt
  OBVIOUS
<1>10. GoodCheckpoint(c)'
  BY <1>6, <1>8, <1>9, CheckpointStays
<1>11. SyncOK' /\ NetOK' /\ GoodCheckpoint(ckpt)' /\ fedEpoch' \in Nat /\ cap' \in Cap
  <2>1. CASE k < Len(page)
    <3>1. Finish(c) /\ UNCHANGED <<fedEpoch, cap, net>>
      BY <1>2, <1>9, <2>1 DEF ImportPage
    <3> QED
      BY <1>6, <1>8, <1>10, <3>1, FinishOK, NetStays DEF PlainOK
  <2>2. CASE k = Len(page) /\ AckCursor > KnownAcked
    <3>1. /\ sync' = [sync EXCEPT !.pc = "ack", !.through = AckCursor]
          /\ net' = net \cup {AckRequest} /\ UNCHANGED <<fedEpoch, cap, ckpt>>
      BY <1>2, <1>4, <2>2 DEF ImportPage
    <3>2. AckCursor \in 0 .. imported'
      BY <1>1, <1>2, <1>3, <1>6, <1>7, <2>2, AckCursorOK
    <3>3. KnownAcked \in Nat
      <4>1. sync.row.ackd \in Nat /\ ckpt.through \in Nat
        BY <1>8 DEF SyncOK, SyncType, Row, GoodCheckpoint
      <4> QED
        BY <4>1, MaxTwo DEF KnownAcked
    <3>4. AckCursor \in 1 .. imported'
      BY <1>3, <2>2, <3>2, <3>3
    <3>5. PICK v : v = VerdictsOf(page, home')
      OBVIOUS
    <3>6. PICK w : w = IF Settles THEN v ELSE <<>>
      OBVIOUS
    <3>7. \A q \in DOMAIN w : GoodVerdict(q, w[q])'
      <4>1. CASE Settles
        <5>1. w = v
          BY <3>6, <4>1
        <5>2. \A q \in DOMAIN v : GoodVerdict(q, v[q])'
          BY <1>4, <1>6, <2>2, <3>5, VerdictsGood
        <5> QED
          BY <5>1, <5>2
      <4>2. CASE ~Settles
        <5>1. w = <<>>
          BY <3>6, <4>2
        <5>2. DOMAIN w = {}
          BY <5>1
        <5> QED
          BY <5>2
      <4> QED
        BY <4>1, <4>2
    <3>8. PICK m : m = AckRequest
      OBVIOUS
    <3>9. /\ m = [kind |-> "ack", id |-> Cursor, body |-> <<AckCursor, w>>, late |-> FALSE]
      BY <1>2, <3>5, <3>6, <3>8 DEF AckRequest, Request
    <3>10. Cursor \in Nat
      <4>1. sync.row.imported \in Nat
        BY <1>8 DEF SyncOK, SyncType, Row
      <4>2. sync.page # <<>> => Len(page) \in 1 .. Len(page)
        BY <1>1, <1>2, <1>4, EmptySeq DEF GoodPage
      <4>3. sync.page # <<>> => page[Len(page)].seq \in 1 .. imported'
        BY <1>6, <2>2, <4>2
      <4> QED
        BY <1>2, <1>3, <4>1, <4>3 DEF Cursor
    <3>11. GoodRequest(m)'
      <4>1. /\ m.kind = "ack" /\ m.id \in Nat /\ m.late = FALSE
            /\ m.body[1] = AckCursor /\ m.body[2] = w
        BY <3>9, <3>10
      <4>2. m = [kind |-> m.kind, id |-> m.id, body |-> m.body, late |-> m.late]
        BY <3>9
      <4> QED
        BY <3>4, <3>7, <4>1, <4>2 DEF GoodRequest
    <3>12. NetOK'
      BY <1>6, <1>8, <3>1, <3>8, <3>11, NetAdds
    <3>13. SyncOK'
      <4>1. sync' \in SyncType /\ sync'.pc = "ack" /\ sync'.row = sync.row
        <5>1. PICK a \in Nat : a = AckCursor
          BY <1>3, <3>4
        <5>2. sync' = [sync EXCEPT !.pc = "ack", !.through = a] /\ sync \in SyncType
          BY <1>8, <3>1, <5>1 DEF SyncOK
        <5> QED
          BY <5>2 DEF SyncType, Phase
      <4>2. sync.row.imported <= imported'
        BY <1>3, <1>7, <1>8 DEF SyncOK, SyncType, Row
      <4> QED
        BY <4>1, <4>2 DEF SyncOK
    <3> QED
      BY <1>8, <1>9, <1>10, <3>1, <3>12, <3>13 DEF PlainOK, GoodCheckpoint
  <2>3. CASE k = Len(page) /\ ~(AckCursor > KnownAcked)
    <3>1. AfterAck(c)
      BY <1>2, <1>4, <1>9, <2>3 DEF ImportPage
    <3>2. UNCHANGED inSeq
      BY <1>5 DEF serverVars
    <3> QED
      BY <1>6, <1>8, <1>10, <3>1, <3>2, AfterAckOK
  <2> QED
    BY <1>4, <2>1, <2>2, <2>3
<1>12. KnownOK'
  BY <1>5, <1>6, <1>11, AckedStays DEF IInv, KnownOK
<1>13. PlainOK'
  BY <1>5, <1>6, <1>8, <1>11 DEF PlainOK, serverVars
<1>14. ReceiptsOK'
  BY <1>5, <1>6, <1>8, ReceiptsStay DEF serverVars
<1> QED
  BY <1>6, <1>11, <1>12, <1>13, <1>14 DEF IInv, Kept

\* A home that dies between two items keeps a page it imported in part.
LEMMA HomeCrashImportingOK ==
  ASSUME IInv, HomeCrashImporting
  PROVE  IInv' /\ Kept
<1>1. GoodPage(sync.page) /\ imported \in Nat
  BY Lengths DEF IInv, SyncOK, HomeCrashImporting
<1>2. PICK k \in 1 .. Importable(sync.page) : ImportPrefix(sync.page, k)
  BY DEF HomeCrashImporting
<1>3. k \in 0 .. Importable(sync.page)
  <2>1. Importable(sync.page) \in 0 .. Len(sync.page) /\ Len(sync.page) \in Nat
    BY <1>1, ImportableOK, PageEntries
  <2> QED
    BY <2>1
<1>4. UNCHANGED <<serverVars, ackd, fedEpoch, net, stopCall, refused>> /\ faults' = faults + 1
  BY DEF HomeCrashImporting, Fault
<1>5. PICK page : page = sync.page
  OBVIOUS
<1>6. Kept /\ StatesOK' /\ UNCHANGED moved
  BY <1>1, <1>2, <1>3, <1>4, <1>5, ImportKept
<1>7. sync' = Idle /\ ckpt' = NoCheckpoint /\ cap' = NoCap
  BY DEF HomeCrashImporting, MemoryLost
<1>8. imported' \in Nat
  BY <1>6, LenProperties DEF Kept, TakenOK
<1>9. SyncOK'
  BY <1>7, <1>8, IdleIsOK
<1>10. KnownOK'
  BY <1>4, <1>6, <1>7, NoCheckpointOK, AckedStays DEF IInv, KnownOK, GoodCheckpoint
<1>11. NetOK' /\ ReceiptsOK'
  BY <1>4, <1>6, NetStays, ReceiptsStay DEF IInv, serverVars
<1>12. PlainOK'
  BY <1>4, <1>6, <1>7 DEF IInv, PlainOK, serverVars, Cap, NoCap
<1> QED
  BY <1>6, <1>9, <1>10, <1>11, <1>12 DEF IInv, Kept

LEMMA AckAnsweredOK ==
  ASSUME IInv, AckAnswered
  PROVE  IInv'
<1> DEFINE through == IF Full /\ sync.left = 1 THEN sync.through - 1 ELSE sync.through
           next == IF ckpt.epoch = sync.peer /\ ckpt.through >= through
                   THEN ckpt ELSE [epoch |-> sync.peer, through |-> through]
<1>1. /\ UNCHANGED <<home, moved, imported, messages, outSeq, outAcked>>
      /\ UNCHANGED <<serverVars, stopCall, refused, faults>>
      /\ ackd' = IF fedEpoch = sync.peer THEN Max({ackd, through}) ELSE through
      /\ AfterAck(next) /\ sync.pc = "acked"
  BY DEF AckAnswered
<1>2. Kept
  BY <1>1, SameData DEF serverVars
<1>3. SyncOK /\ NetOK /\ PlainOK /\ KnownOK /\ sync.peer \in Nat
  BY DEF IInv, SyncOK, SyncType
<1>4. AckedTo(sync.through) /\ sync.through # 0 /\ Len(outbox) \in Nat
  BY <1>1, Lengths DEF IInv, SyncOK, GoodAnswer
<1>5. AckedTo(through) /\ through \in Nat
  BY <1>4 DEF AckedTo
<1> HIDE DEF through
<1>6. GoodCheckpoint(next)
  BY <1>3, <1>5 DEF KnownOK, GoodCheckpoint
<1>7. PICK c : c = next
  OBVIOUS
<1> HIDE DEF next
<1>8. GoodCheckpoint(c)' /\ AfterAck(c)
  BY <1>1, <1>2, <1>6, <1>7, CheckpointStays
<1>9. UNCHANGED <<inSeq, outSeq, outAcked>>
  BY <1>1 DEF serverVars
<1>10. SyncOK' /\ NetOK' /\ GoodCheckpoint(ckpt)' /\ fedEpoch' \in Nat /\ cap' \in Cap
  BY <1>2, <1>3, <1>8, <1>9, AfterAckOK
<1>11. AckedTo(ackd)'
  <2>1. AckedTo(ackd) /\ ackd \in Nat
    BY <1>3, <1>4 DEF KnownOK, AckedTo
  <2>2. PICK a : a = ackd'
    OBVIOUS
  <2>3. a = ackd \/ a = through
    BY <1>1, <1>5, <2>1, <2>2, MaxTwo
  <2>4. AckedTo(a)
    BY <1>5, <2>1, <2>3
  <2>5. AckedTo(a)'
    BY <1>2, <2>4, AckedStays
  <2> QED
    BY <2>2, <2>5 DEF AckedTo
<1>12. PlainOK'
  BY <1>1, <1>3, <1>10 DEF PlainOK, serverVars
<1>13. StatesOK' /\ ReceiptsOK'
  BY <1>1, <1>2, ReceiptsStay DEF IInv, StatesOK, OutcomeAgreed, serverVars
<1> QED
  BY <1>2, <1>10, <1>11, <1>12, <1>13 DEF IInv, Kept, KnownOK

LEMMA ImportAnsweredOK ==
  ASSUME IInv, ImportAnswered
  PROVE  IInv'
<1>1. /\ UNCHANGED <<home, moved, imported, messages, ackd, fedEpoch, outSeq>>
      /\ UNCHANGED <<serverVars, cap, net, stopCall, refused, faults>>
      /\ outAcked' = Max({outAcked, sync.through}) /\ sync.pc = "imported" /\ EndPage(ckpt)
  BY DEF ImportAnswered
<1>2. sync.through \in 0 .. inSeq
  BY <1>1 DEF IInv, SyncOK, GoodAnswer
<1>3. ControlOK'
  <2>1. inSeq \in Nat /\ outAcked \in Nat /\ sync.through \in Nat /\ outAcked <= inSeq
    BY <1>2 DEF IInv, ControlOK
  <2>2. outAcked' \in Nat /\ outAcked' <= inSeq
    BY <1>1, <1>2, <2>1, MaxTwo
  <2> QED
    BY <1>1, <2>2 DEF IInv, ControlOK, serverVars
<1>4. QueueOK' /\ TakenOK'
  BY <1>1 DEF IInv, QueueOK, TakenOK, AckedWasImported, serverVars
<1>5. Kept
  <2>1. Len(outbox) \in Nat /\ imported \in Nat /\ inSeq \in Nat /\ outSeq \in Nat
    BY Lengths DEF IInv, ControlOK
  <2>2. Grows
    BY <1>1, <2>1 DEF Grows, serverVars
  <2> QED
    BY <1>3, <1>4, <2>2 DEF Kept, IInv
<1>6. PICK c : c = ckpt
  OBVIOUS
<1>7. GoodCheckpoint(c)' /\ EndPage(c)
  BY <1>1, <1>5, <1>6, CheckpointStays DEF IInv, KnownOK
<1>8. SyncOK' /\ GoodCheckpoint(ckpt)'
  BY <1>5, <1>7, EndPageOK DEF IInv
<1>9. KnownOK'
  BY <1>1, <1>5, <1>8, AckedStays DEF IInv, KnownOK
<1>10. NetOK' /\ ReceiptsOK' /\ StatesOK' /\ PlainOK'
  BY <1>1, <1>5, NetStays, ReceiptsStay DEF IInv, StatesOK, OutcomeAgreed, PlainOK, serverVars
<1> QED
  BY <1>5, <1>8, <1>9, <1>10 DEF IInv, Kept

\* An acknowledgment that is accepted covers imported items, reports with the
\* version the home took, and settles the attachment as the home settled.
LEMMA ApplyAckKept ==
  ASSUME IInv, NEW m, GoodRequest(m), m.kind = "ack", AckAccepted(m), ApplyAck(m), UNCHANGED homeVars
  PROVE  Kept /\ StatesOK' /\ AckedTo(m.body[1])'
<1>1. /\ Len(outbox) \in Nat /\ DOMAIN outbox = 1 .. Len(outbox) /\ outbox \in Seq(Item)
      /\ imported \in Nat /\ DOMAIN messages = 1 .. imported /\ imported <= Len(outbox)
      /\ Len(messages) = imported
  BY Lengths DEF IInv, QueueOK, TakenOK
<1> DEFINE n == m.body[1]
<1>2. n \in 1 .. imported /\ \A q \in DOMAIN m.body[2] : GoodVerdict(q, m.body[2][q])
  BY DEF GoodRequest
<1>3. \A i \in 1 .. Len(outbox) : outbox[i] \in Item
  BY <1>1, ElementOfSeq
<1>4. /\ UNCHANGED <<home, imported, messages, outSeq, outAcked, inSeq, inbox>>
      /\ outbox' = [i \in DOMAIN outbox |->
                      IF i <= n THEN [outbox[i] EXCEPT !.acked = TRUE] ELSE outbox[i]]
  BY DEF ApplyAck, homeVars
<1> HIDE DEF n
<1>5. \A i \in 1 .. Len(outbox) :
        /\ outbox'[i] \in Item /\ outbox'[i].id = outbox[i].id /\ outbox'[i].kind = outbox[i].kind
        /\ outbox'[i].outcome = outbox[i].outcome
        /\ outbox'[i].acked <=> (i <= n \/ outbox[i].acked)
  BY <1>1, <1>3, <1>4 DEF Item
<1>6. outbox' \in Seq(Item) /\ Len(outbox') = Len(outbox) /\ DOMAIN outbox' = 1 .. Len(outbox)
  <2>1. outbox' \in [1 .. Len(outbox) -> Item]
    BY <1>1, <1>4, <1>5
  <2>2. outbox' \in Seq(Item)
    BY <1>1, <2>1, SeqDef
  <2> QED
    BY <1>1, <2>1, <2>2, LenProperties
<1>7. QueueOK'
  <2>1. \A i \in DOMAIN outbox' : IsReport(outbox'[i]) <=> IsReport(outbox[i])
    BY <1>5, <1>6 DEF IsReport
  <2>2. \A i, j \in DOMAIN outbox' : i <= j /\ outbox'[j].acked => outbox'[i].acked
    BY <1>1, <1>2, <1>5, <1>6 DEF IInv, QueueOK, n
  <2>3. Len(outbox') <= MaxItems
    BY <1>6 DEF IInv, QueueOK
  <2>4. \A i \in DOMAIN outbox' :
          /\ IsReport(outbox'[i]) => outbox'[i].outcome \in Outcomes /\ outbox'[i].id \in {i, MaxItems + i}
          /\ ~IsReport(outbox'[i]) => outbox'[i].outcome = "none" /\ outbox'[i].id = i
    BY <1>1, <1>5, <1>6, <2>1 DEF IInv, QueueOK
  <2> QED
    BY <1>6, <2>2, <2>3, <2>4 DEF QueueOK
<1>8. ASSUME NEW i \in 1 .. n, ~outbox[i].acked
      PROVE  messages[i] = outbox[i].id
  <2>1. i \in DOMAIN outbox /\ i \in DOMAIN messages /\ i <= n
    BY <1>1, <1>2 DEF n
  <2>2. CASE IsReport(outbox[i])
    <3>1. i \in VerdictsIn(m)
      BY <1>8, <2>1, <2>2 DEF AckAccepted, Unacked, n
    <3> QED
      BY <1>2, <3>1 DEF VerdictsIn, GoodVerdict
  <2>3. CASE ~IsReport(outbox[i])
    BY <2>1, <2>3 DEF IInv, QueueOK, TakenOK
  <2> QED
    BY <2>2, <2>3
<1>9. TakenOK'
  <2>1. \A i \in DOMAIN outbox' :
          outbox'[i].acked => i <= Len(messages) /\ messages[i] = outbox'[i].id
    <3> TAKE i \in DOMAIN outbox'
    <3>1. i \in DOMAIN outbox
      BY <1>1, <1>6
    <3>2. outbox[i].acked => i <= Len(messages) /\ messages[i] = outbox[i].id
      BY <3>1 DEF IInv, TakenOK, AckedWasImported
    <3>3. i <= n => i \in 1 .. n /\ i <= imported
      BY <1>1, <1>2, <3>1 DEF n
    <3> QED
      BY <1>1, <1>5, <1>8, <3>1, <3>2, <3>3
  <2>2. \A i \in DOMAIN messages : messages[i] \in {i, outbox'[i].id}
    <3>1. \A i \in DOMAIN messages : i \in 1 .. Len(outbox)
      BY <1>1
    <3> QED
      BY <1>5, <3>1 DEF IInv, TakenOK
  <2> QED
    BY <1>4, <1>6, <2>1, <2>2 DEF IInv, TakenOK, AckedWasImported
<1>10. ControlOK'
  BY <1>4 DEF IInv, ControlOK
<1>11. Grows
  <2>1. inSeq \in Nat /\ outSeq \in Nat
    BY DEF IInv, ControlOK
  <2> QED
    BY <1>1, <1>4, <1>5, <1>6, <2>1 DEF Grows, IsReport
<1>12. StatesOK'
  <2>1. \A o \in SettledBy(m) : home = o /\ o \in Outcomes
    BY <1>2 DEF SettledBy, VerdictsIn, GoodVerdict
  <2>2. att' = att \/ att' \in SettledBy(m)
    BY DEF ApplyAck
  <2> QED
    BY <1>4, <2>1, <2>2 DEF IInv, StatesOK, OutcomeAgreed, States
<1>13. AckedTo(m.body[1])'
  BY <1>1, <1>2, <1>5, <1>6 DEF AckedTo, n
<1> QED
  BY <1>7, <1>9, <1>10, <1>11, <1>12, <1>13 DEF Kept, IInv

\* Applying items up to last, with a cursor that is not past them, keeps the
\* inbox the prefix of what was queued.
LEMMA ApplyImportKept ==
  ASSUME IInv, NEW last \in Nat, NEW cursor \in Nat, cursor <= last, last <= outSeq,
         ApplyImport(last, cursor), UNCHANGED homeVars
  PROVE  Kept /\ StatesOK' /\ cursor <= inSeq' /\ inSeq' \in Nat /\ inSeq' = Max({inSeq, cursor})
<1>1. /\ inbox \in Seq(Nat) /\ {inSeq, outSeq, outAcked} \subseteq Nat
      /\ \A i \in DOMAIN inbox : inbox[i] = i
      /\ outAcked <= inSeq /\ inSeq <= Len(inbox) /\ Len(inbox) <= outSeq
  BY DEF IInv, ControlOK
<1>2. Len(inbox) \in Nat /\ DOMAIN inbox = 1 .. Len(inbox)
  BY <1>1, LenProperties
<1>3. PICK len \in Nat : len = Len(inbox)
  BY <1>2
<1>4. PICK d \in Nat : d = Max({last, Len(inbox)}) - Len(inbox)
  BY <1>2, MaxTwo
<1>5. len + d <= outSeq /\ last <= len + d
  BY <1>1, <1>2, <1>3, <1>4, MaxTwo
<1> DEFINE more == [i \in 1 .. d |-> len + i]
<1>6. more \in [1 .. d -> Nat] /\ \A i \in 1 .. d : more[i] = len + i
  OBVIOUS
<1>7. inbox' = inbox \o more /\ inSeq' = Max({inSeq, cursor}) /\ UNCHANGED <<outbox, att>>
  BY <1>3, <1>4 DEF ApplyImport
<1> HIDE DEF more
<1>8. more \in Seq(Nat) /\ Len(more) = d
  <2>1. more \in Seq(Nat)
    BY <1>6, SeqDef
  <2> QED
    BY <1>6, <2>1, LenProperties
<1>9. /\ inbox' \in Seq(Nat) /\ Len(inbox') = len + d
      /\ \A i \in 1 .. len + d : inbox'[i] = IF i <= len THEN inbox[i] ELSE more[i - len]
  BY <1>1, <1>3, <1>7, <1>8, ConcatProperties
<1>10. DOMAIN inbox' = 1 .. len + d
  BY <1>9, LenProperties
<1>11. \A i \in DOMAIN inbox' : inbox'[i] = i
  <2> TAKE i \in DOMAIN inbox'
  <2>1. i \in 1 .. len + d
    BY <1>10
  <2>2. CASE i <= len
    BY <1>1, <1>2, <1>3, <1>9, <2>1, <2>2
  <2>3. CASE ~(i <= len)
    <3>1. i - len \in 1 .. d /\ len + (i - len) = i
      BY <2>1, <2>3
    <3> QED
      BY <1>6, <1>9, <2>1, <2>3, <3>1
  <2> QED
    BY <2>2, <2>3
<1>12. inSeq' \in Nat /\ inSeq <= inSeq' /\ cursor <= inSeq' /\ inSeq' <= len + d
  <2>1. inSeq' = IF inSeq >= cursor THEN inSeq ELSE cursor
    BY <1>1, <1>7, MaxTwo
  <2>2. inSeq <= len + d
    BY <1>1, <1>3
  <2>3. cursor <= len + d
    BY <1>3, <1>5
  <2>4. inSeq \in Nat
    BY <1>1
  <2> QED
    BY <2>1, <2>2, <2>3, <2>4
<1>13. UNCHANGED <<home, imported, messages, outSeq, outAcked>>
  BY DEF homeVars
<1>14. ControlOK'
  BY <1>1, <1>5, <1>9, <1>11, <1>12, <1>13 DEF ControlOK
<1>15. QueueOK' /\ TakenOK' /\ StatesOK'
  BY <1>7, <1>13 DEF IInv, QueueOK, TakenOK, AckedWasImported, StatesOK, OutcomeAgreed
<1>16. Grows
  <2>1. Len(outbox) \in Nat /\ imported \in Nat /\ outSeq \in Nat
    BY <1>1, Lengths DEF IInv
  <2> QED
    BY <1>7, <1>12, <1>13, <2>1 DEF Grows
<1> QED
  BY <1>7, <1>12, <1>14, <1>15, <1>16 DEF Kept, IInv

\* Either request, served: its result may be answered, now or from a receipt.
LEMMA ApplyKept ==
  ASSUME IInv, NEW m, GoodRequest(m), Accepted(m), Apply(m), UNCHANGED homeVars,
         NEW r, r = Result(m)
  PROVE  Kept /\ StatesOK' /\ GoodAnswer(m.kind, r)' /\ r \in Nat
<1>1. CASE m.kind = "ack"
  <2>1. AckAccepted(m) /\ ApplyAck(m) /\ r = m.body[1] /\ r # 0 /\ r \in Nat
    <3>1. imported \in Nat
      BY Lengths DEF IInv
    <3> QED
      BY <1>1, <3>1 DEF Accepted, Apply, Result, GoodRequest
  <2>2. Kept /\ StatesOK' /\ AckedTo(m.body[1])'
    BY <1>1, <2>1, ApplyAckKept
  <2>3. PICK n : n = m.body[1]
    OBVIOUS
  <2> QED
    BY <1>1, <2>1, <2>2, <2>3 DEF GoodAnswer
<1>2. CASE m.kind = "import"
  <2>1. m.id \in Nat /\ m.id <= outSeq /\ ApplyImport(m.id, m.id) /\ r = Max({inSeq, m.id})
    BY <1>2 DEF Accepted, Apply, Result, GoodRequest
  <2>2. Kept /\ StatesOK' /\ inSeq' \in Nat /\ inSeq' = Max({inSeq, m.id})
    BY <2>1, ApplyImportKept
  <2> QED
    BY <1>2, <2>1, <2>2 DEF GoodAnswer
<1> QED
  BY <1>1, <1>2 DEF GoodRequest

LEMMA AnswerOK ==
  ASSUME Kept, SyncOK, NEW m, GoodRequest(m), NEW r \in Nat, GoodAnswer(m.kind, r)', Answer(m, r)
  PROVE  SyncOK' /\ UNCHANGED ckpt
<1>1. UNCHANGED ckpt
  BY DEF Answer
<1>2. CASE m.late
  BY <1>1, <1>2, SyncStays DEF Answer
<1>3. CASE ~m.late
  <2> DEFINE pc == IF m.kind = "ack" THEN "acked" ELSE "imported"
  <2>1. sync' = [sync EXCEPT !.through = r, !.pc = pc] /\ sync \in SyncType
    BY <1>3 DEF Answer, SyncOK
  <2>2. pc \in Phase
    BY DEF Phase
  <2> HIDE DEF pc
  <2>3. sync' \in SyncType /\ sync'.pc = pc /\ sync'.through = r /\ sync'.row = sync.row
    BY <2>1, <2>2 DEF SyncType
  <2>4. sync.row.imported <= imported'
    <3>1. imported \in Nat /\ imported' \in Nat /\ imported <= imported'
      BY Lengths, LenProperties DEF Kept, TakenOK, Grows
    <3> QED
      BY <3>1 DEF SyncOK, SyncType, Row
  <2>5. /\ pc = "acked" => GoodAnswer("ack", r)'
        /\ pc = "imported" => GoodAnswer("import", r)'
        /\ pc \in {"acked", "imported"}
    BY DEF pc, GoodRequest
  <2> QED
    BY <1>1, <2>3, <2>4, <2>5 DEF SyncOK
<1> QED
  BY <1>2, <1>3

LEMMA AnswerErrorOK ==
  ASSUME Kept, SyncOK, GoodCheckpoint(ckpt), NEW m, AnswerError(m)
  PROVE  SyncOK' /\ GoodCheckpoint(ckpt)'
<1>1. PICK c : c = ckpt
  OBVIOUS
<1>2. GoodCheckpoint(c)'
  BY <1>1, CheckpointStays
<1>3. CASE m.late
  BY <1>1, <1>2, <1>3, SyncStays DEF AnswerError, GoodCheckpoint
<1>4. CASE ~m.late
  BY <1>1, <1>2, <1>4, FinishOK DEF AnswerError
<1> QED
  BY <1>3, <1>4

LEMMA ReceiptsAdd ==
  ASSUME Kept, ReceiptsOK, NEW m, NEW r, NEW done \in BOOLEAN, done => GoodAnswer(m.kind, r)',
         receipts' = WithReceipt(m, done, r)
  PROVE  ReceiptsOK'
<1> SUFFICES ASSUME NEW k \in DOMAIN receipts', receipts'[k].done
             PROVE  GoodAnswer(k[1], receipts[k].through)'
  BY DEF ReceiptsOK
<1>1. CASE k = ReceiptKey(m)
  <2>1. receipts'[k].done = done /\ receipts'[k].through = r /\ k[1] = m.kind
    BY <1>1 DEF WithReceipt, ReceiptKey
  <2>2. GoodAnswer(k[1], r)'
    BY <2>1
  <2> QED
    BY <2>1, <2>2
<1>2. CASE k # ReceiptKey(m)
  <2>1. k \in DOMAIN receipts /\ receipts'[k] = receipts[k]
    BY <1>2 DEF WithReceipt
  <2>2. PICK n : n = receipts[k].through
    OBVIOUS
  <2>3. GoodAnswer(k[1], n)
    BY <2>1, <2>2 DEF ReceiptsOK
  <2>4. GoodAnswer(k[1], n)'
    BY <2>3, AnswerStays
  <2> QED
    BY <2>1, <2>2, <2>4
<1> QED
  BY <1>1, <1>2

LEMMA ServeOK ==
  ASSUME IInv, NEW m \in net, Serve(m)
  PROVE  IInv'
<1>1. GoodRequest(m) /\ Accepted(m) /\ Apply(m) /\ net' = net \ {m}
  BY DEF IInv, NetOK, Serve
<1>2. UNCHANGED <<epoch, supports, homeVars, cap, stopCall, refused, faults>>
  BY DEF Serve
<1>3. PICK r : r = Result(m)
  OBVIOUS
<1>4. Kept /\ StatesOK' /\ GoodAnswer(m.kind, r)' /\ r \in Nat
  BY <1>1, <1>2, <1>3, ApplyKept
<1>5. SyncOK' /\ UNCHANGED ckpt
  BY <1>1, <1>3, <1>4, AnswerOK DEF Serve, IInv
<1>6. ReceiptsOK'
  BY <1>3, <1>4, ReceiptsAdd DEF Serve, IInv
<1>7. NetOK'
  BY <1>1, <1>4, NetStays DEF IInv
<1>8. KnownOK'
  BY <1>2, <1>4, <1>5, KnownStays DEF IInv, homeVars
<1>9. PlainOK'
  BY <1>2 DEF IInv, PlainOK, homeVars
<1> QED
  BY <1>4, <1>5, <1>6, <1>7, <1>8, <1>9 DEF IInv, Kept

LEMMA ServeReplayOK ==
  ASSUME IInv, NEW m \in net, ServeReplay(m)
  PROVE  IInv'
<1>1. GoodRequest(m) /\ net' = net \ {m}
  BY DEF IInv, NetOK, ServeReplay
<1>2. UNCHANGED <<serverVars, homeVars, cap, stopCall, refused, faults>>
  BY DEF ServeReplay
<1>3. Kept
  BY <1>2, SameData DEF serverVars, homeVars
<1>4. PICK r : r = receipts[ReceiptKey(m)].through
  OBVIOUS
<1>5. GoodAnswer(m.kind, r) /\ Answer(m, r)
  <2>1. ReceiptKey(m)[1] = m.kind /\ ReceiptKey(m) \in DOMAIN receipts /\ receipts[ReceiptKey(m)].done
    BY DEF ServeReplay, SameRequest, ReceiptKey
  <2> QED
    BY <1>4, <2>1 DEF ServeReplay, IInv, ReceiptsOK
<1>6. r \in Nat
  <2>1. Len(outbox) \in Nat /\ inSeq \in Nat
    BY Lengths DEF IInv, ControlOK
  <2> QED
    BY <1>1, <1>5, <2>1 DEF GoodRequest, GoodAnswer, AckedTo
<1>7. GoodAnswer(m.kind, r)'
  BY <1>3, <1>5, AnswerStays
<1>8. SyncOK' /\ UNCHANGED ckpt
  BY <1>1, <1>3, <1>5, <1>6, <1>7, AnswerOK DEF IInv
<1>9. NetOK' /\ ReceiptsOK' /\ KnownOK'
  BY <1>1, <1>2, <1>3, <1>8, NetStays, ReceiptsStay, KnownStays DEF IInv, serverVars, homeVars
<1>10. PlainOK' /\ StatesOK'
  BY <1>2 DEF IInv, PlainOK, StatesOK, OutcomeAgreed, serverVars, homeVars
<1> QED
  BY <1>3, <1>8, <1>9, <1>10 DEF IInv, Kept

LEMMA ServeFailsOK ==
  ASSUME IInv, NEW m \in net, ServeError(m) \/ ServeRefused(m)
  PROVE  IInv'
<1>1. /\ net' = net \ {m} /\ AnswerError(m) /\ UNCHANGED <<serverVars, homeVars, cap, stopCall, faults>>
      /\ refused' = TRUE \/ refused' = refused
  BY DEF ServeError, ServeRefused
<1>2. Kept
  BY <1>1, SameData DEF serverVars, homeVars
<1>3. SyncOK' /\ GoodCheckpoint(ckpt)'
  BY <1>1, <1>2, AnswerErrorOK DEF IInv, KnownOK
<1>4. NetOK' /\ ReceiptsOK'
  BY <1>1, <1>2, NetStays, ReceiptsStay DEF IInv, serverVars
<1>5. KnownOK'
  BY <1>1, <1>2, <1>3, AckedStays DEF IInv, KnownOK, homeVars
<1>6. StatesOK'
  BY <1>1 DEF IInv, StatesOK, OutcomeAgreed, serverVars, homeVars
<1>7. refused' \in BOOLEAN
  BY <1>1, Zenon DEF IInv, PlainOK
<1>8. PlainOK'
  BY <1>1, <1>7 DEF IInv, PlainOK, serverVars, homeVars
<1> QED
  BY <1>2, <1>3, <1>4, <1>5, <1>6, <1>8 DEF IInv, Kept

\* A crash inside a mutation applies all of it, none of it, or the items and
\* not the cursor.
LEMMA CrashKept ==
  ASSUME IInv, NEW m \in net, ServerCrash(m)
  PROVE  Kept /\ StatesOK'
<1>1. GoodRequest(m) /\ UNCHANGED homeVars
  BY DEF IInv, NetOK, ServerCrash
<1>2. CASE UNCHANGED <<outbox, att, inSeq, inbox>>
  BY <1>1, <1>2, SameData DEF IInv, StatesOK, OutcomeAgreed, homeVars
<1>3. CASE Accepted(m) /\ Apply(m)
  <2>1. PICK r : r = Result(m)
    OBVIOUS
  <2> QED
    BY <1>1, <1>3, <2>1, ApplyKept
<1>4. CASE m.kind = "import" /\ \E last \in m.body .. m.id : ApplyImport(last, last - 1)
  <2>1. PICK last \in m.body .. m.id : ApplyImport(last, last - 1)
    BY <1>4
  <2>2. inSeq \in Nat /\ outSeq \in Nat
    BY DEF IInv, ControlOK
  <2>3. m.body \in Nat /\ m.body # 0 /\ m.id \in Nat /\ m.id <= outSeq
    BY <1>1, <1>4, <2>2 DEF GoodRequest
  <2>4. last \in Nat /\ last - 1 \in Nat /\ last - 1 <= last /\ last <= outSeq
    BY <2>2, <2>3
  <2>5. PICK cursor \in Nat : cursor = last - 1
    BY <2>4
  <2> QED
    BY <1>1, <2>1, <2>4, <2>5, ApplyImportKept
<1> QED
  BY <1>2, <1>3, <1>4 DEF ServerCrash

LEMMA ServerCrashOK ==
  ASSUME IInv, NEW m \in net, ServerCrash(m)
  PROVE  IInv'
<1>1. /\ UNCHANGED homeVars /\ AnswerError(m) /\ UNCHANGED <<cap, stopCall, refused>>
      /\ receipts' = WithReceipt(m, FALSE, 0) /\ net' = net \ {m}
      /\ faults' = faults + 1 /\ epoch' = epoch + 1 /\ supports' \in BOOLEAN
  BY DEF ServerCrash, Fault, Restarted
<1>2. Kept /\ StatesOK'
  BY CrashKept
<1>3. SyncOK' /\ GoodCheckpoint(ckpt)'
  BY <1>1, <1>2, AnswerErrorOK DEF IInv, KnownOK
<1>4. ReceiptsOK'
  BY <1>1, <1>2, ReceiptsAdd DEF IInv
<1>5. NetOK' /\ KnownOK'
  BY <1>1, <1>2, <1>3, NetStays, AckedStays DEF IInv, KnownOK, homeVars
<1>6. PlainOK'
  BY <1>1 DEF IInv, PlainOK, homeVars
<1> QED
  BY <1>2, <1>3, <1>4, <1>5, <1>6 DEF IInv, Kept

\* A request nobody waits for any more is as good as before.
LEMMA AbandonOK ==
  ASSUME Kept, NetOK, Abandon
  PROVE  NetOK'
<1>1. CASE net' = net \ {m \in net : ~m.late}
  BY <1>1, NetStays
<1>2. CASE net' = {[m EXCEPT !.late = TRUE] : m \in net}
  <2> SUFFICES ASSUME NEW m \in net, NEW r, r = [m EXCEPT !.late = TRUE] PROVE GoodRequest(r)'
    BY <1>2 DEF NetOK
  <2>1. GoodRequest(m)
    BY DEF NetOK
  <2>2. m = [kind |-> m.kind, id |-> m.id, body |-> m.body, late |-> m.late]
    BY <2>1 DEF GoodRequest
  <2>3. /\ r.kind = m.kind /\ r.id = m.id /\ r.body = m.body /\ r.late = TRUE
        /\ r = [kind |-> r.kind, id |-> r.id, body |-> r.body, late |-> r.late]
    BY <2>2
  <2>4. GoodRequest(r)
    BY <2>1, <2>3 DEF GoodRequest
  <2> QED
    BY <2>4, RequestStays
<1> QED
  BY <1>1, <1>2 DEF Abandon

LEMMA CallFailsOK ==
  ASSUME IInv, CallFails \/ HomeRestart
  PROVE  IInv'
<1>1. /\ UNCHANGED <<serverVars, homeVars, stopCall, refused>> /\ faults' = faults + 1 /\ Abandon
      /\ \/ Finish(ckpt) /\ UNCHANGED cap
         \/ sync' = Idle /\ ckpt' = NoCheckpoint /\ cap' = NoCap
  BY DEF CallFails, HomeRestart, Fault, MemoryLost
<1>2. Kept
  BY <1>1, SameData DEF serverVars, homeVars
<1>3. imported' \in Nat
  BY <1>2, LenProperties DEF Kept, TakenOK
<1>4. PICK c : c = ckpt
  OBVIOUS
<1>5. GoodCheckpoint(c)'
  BY <1>2, <1>4, CheckpointStays DEF IInv, KnownOK
<1>6. SyncOK' /\ GoodCheckpoint(ckpt)' /\ cap' \in Cap
  <2>1. CASE Finish(ckpt) /\ UNCHANGED cap
    BY <1>2, <1>4, <1>5, <2>1, FinishOK DEF IInv, PlainOK
  <2>2. CASE sync' = Idle /\ ckpt' = NoCheckpoint /\ cap' = NoCap
    <3>1. GoodCheckpoint(ckpt)'
      BY <1>2, <2>2, NoCheckpointOK DEF GoodCheckpoint
    <3> QED
      BY <1>3, <2>2, <3>1, IdleIsOK DEF Cap, NoCap
  <2> QED
    BY <1>1, <2>1, <2>2
<1>7. NetOK'
  BY <1>1, <1>2, AbandonOK DEF IInv
<1>8. KnownOK' /\ ReceiptsOK'
  BY <1>1, <1>2, <1>6, AckedStays, ReceiptsStay DEF IInv, KnownOK, serverVars, homeVars
<1>9. StatesOK' /\ PlainOK'
  BY <1>1, <1>6 DEF IInv, StatesOK, OutcomeAgreed, PlainOK, serverVars, homeVars
<1> QED
  BY <1>2, <1>6, <1>7, <1>8, <1>9 DEF IInv, Kept

LEMMA ServerRestartOK ==
  ASSUME IInv, ServerRestart
  PROVE  IInv'
<1>1. /\ UNCHANGED <<outbox, att, inSeq, inbox, receipts, homeVars, memoryVars, net, stopCall, refused>>
      /\ faults' = faults + 1 /\ epoch' = epoch + 1 /\ supports' \in BOOLEAN
  BY DEF ServerRestart, Fault, Restarted
<1>2. Kept
  BY <1>1, SameData DEF homeVars
<1>3. NetOK' /\ ReceiptsOK' /\ SyncOK' /\ KnownOK'
  BY <1>1, <1>2, NetStays, ReceiptsStay, SyncStays, KnownStays DEF IInv, homeVars, memoryVars
<1>4. StatesOK' /\ PlainOK'
  BY <1>1 DEF IInv, StatesOK, OutcomeAgreed, PlainOK, homeVars, memoryVars
<1> QED
  BY <1>2, <1>3, <1>4 DEF IInv, Kept

LEMMA StutterOK ==
  ASSUME IInv, UNCHANGED vars
  PROVE  IInv'
<1>1. UNCHANGED <<serverVars, homeVars, memoryVars, net, stopCall, refused, faults>>
  BY DEF vars
<1>2. Kept
  BY <1>1, SameData DEF serverVars, homeVars
<1> QED
  BY <1>1, <1>2, RestStays DEF serverVars, homeVars, memoryVars

LEMMA Inductive ==
  ASSUME IInv, [Next]_vars
  PROVE  IInv'
<1>1. CASE SendStatus \/ SendHeartbeat \/ \E o \in Reports : SendReport(o)
  BY <1>1, SendOK
<1>2. CASE \E o \in Reports : ReportOverHeartbeat(o)
  BY <1>2, ReportOverHeartbeatOK
<1>3. CASE QueueControl
  BY <1>3, QueueControlOK
<1>4. CASE HomeStop \/ RemoteStop \/ RemoteStopEnds \/ HomeStopAnswered \/ HomeStopUnknown \/ TaskMovesOn
  BY <1>4, StateStepsOK
<1>5. CASE StartSync \/ NextPage \/ RefusalExpires
  BY <1>5, BeginOK
<1>6. CASE Pull
  BY <1>6, PullOK
<1>7. CASE ImportPage
  BY <1>7, ImportPageOK
<1>8. CASE AckAnswered \/ ImportAnswered
  BY <1>8, AckAnsweredOK, ImportAnsweredOK
<1>9. CASE \E m \in net : ServerStep(m)
  BY <1>9, ServeOK, ServeReplayOK, ServeFailsOK DEF ServerStep
<1>10. CASE \E m \in net : ServerCrash(m)
  BY <1>10, ServerCrashOK
<1>11. CASE CallFails \/ ServerRestart \/ HomeRestart
  BY <1>11, CallFailsOK, ServerRestartOK
<1>12. CASE HomeCrashImporting
  BY <1>12, HomeCrashImportingOK
<1>13. CASE UNCHANGED vars
  BY <1>13, StutterOK
<1> QED
  BY <1>1, <1>2, <1>3, <1>4, <1>5, <1>6, <1>7, <1>8, <1>9, <1>10, <1>11, <1>12, <1>13
     DEF Next, SyncStep

-----------------------------------------------------------------------------
(* The theorems.                                                           *)

\* Everything under way or remembered stays good: the inductive invariant.
THEOREM IInvHolds == Spec => []IInv
<1>1. Init => IInv
  BY InitOK
<1>2. IInv /\ [Next]_vars => IInv'
  BY Inductive
<1> QED
  BY <1>1, <1>2, PTL DEF Spec

\* An attachment settles only as the home settled the Dispatch, however often
\* the verdict was computed, lost, repeated or answered late.
THEOREM OutcomeAgreedHolds == Spec => []OutcomeAgreed
<1>1. IInv => OutcomeAgreed
  BY DEF IInv, StatesOK
<1> QED
  BY <1>1, IInvHolds, PTL

\* An item leaves the queue of the worker server only once the home has it, in
\* the version that is queued.
THEOREM AckedWasImportedHolds == Spec => []AckedWasImported
<1>1. IInv => AckedWasImported
  BY DEF IInv, TakenOK
<1> QED
  BY <1>1, IInvHolds, PTL

\* Neither the durable watermark of the home nor its checkpoint passes an item
\* the worker server still queues.
THEOREM WatermarkSafeHolds == Spec => []WatermarkSafe
<1>1. IInv => WatermarkSafe
  <2> SUFFICES ASSUME IInv, NEW i \in DOMAIN outbox, i <= ackd \/ i <= ckpt.through
               PROVE  outbox[i].acked
    BY DEF WatermarkSafe
  <2>1. i \in Nat /\ i # 0 /\ Len(outbox) \in Nat
    BY Lengths DEF IInv
  <2>2. AckedTo(ackd) /\ AckedTo(ckpt.through)
    BY DEF IInv, KnownOK, GoodCheckpoint
  <2> QED
    BY <2>1, <2>2 DEF AckedTo
<1> QED
  BY <1>1, IInvHolds, PTL

\* Neither importer ever meets a gap.
THEOREM NoRelayGapHolds == Spec => []NoRelayGap
<1>1. IInv => NoRelayGap
  <2> SUFFICES ASSUME IInv PROVE NoRelayGap
    OBVIOUS
  <2>1. ASSUME sync.pc = "page", NEW i \in DOMAIN sync.page
        PROVE  \/ sync.page[i].seq <= imported + 1
               \/ i > 1 /\ sync.page[i].seq = sync.page[i - 1].seq + 1
    <3>1. GoodPage(sync.page) /\ imported \in Nat
      BY <2>1, Lengths DEF IInv, SyncOK
    <3>2. /\ Len(sync.page) \in Nat /\ DOMAIN sync.page = 1 .. Len(sync.page)
          /\ \A j \in 1 .. Len(sync.page) : sync.page[j].seq \in Nat
          /\ \A j \in 1 .. Len(sync.page) : sync.page[j].seq = sync.page[1].seq + j - 1
          /\ Len(sync.page) # 0 => sync.page[1].seq <= imported + 1
      BY <3>1, PageEntries
    <3>3. i \in 1 .. Len(sync.page) /\ 1 \in 1 .. Len(sync.page)
      BY <2>1, <3>2
    <3>4. CASE i = 1
      BY <3>2, <3>3, <3>4
    <3>5. CASE i # 1
      <4>1. i - 1 \in 1 .. Len(sync.page) /\ i > 1
        BY <3>2, <3>3, <3>5
      <4>2. /\ sync.page[i].seq = sync.page[1].seq + i - 1 /\ sync.page[1].seq \in Nat
            /\ sync.page[i - 1].seq = sync.page[1].seq + (i - 1) - 1
        BY <3>2, <3>3, <4>1
      <4> QED
        BY <3>2, <3>3, <4>1, <4>2
    <3> QED
      BY <3>4, <3>5
  <2>2. ASSUME NEW m \in net, m.kind = "import" PROVE m.body <= inSeq + 1
    BY <2>2 DEF IInv, NetOK, GoodRequest, ControlOK
  <2> QED
    BY <2>1, <2>2 DEF NoRelayGap
<1> QED
  BY <1>1, IInvHolds, PTL

\* Every variable has its type.
THEOREM TypeOKHolds == Spec => []TypeOK
<1>1. IInv => TypeOK
  <2> SUFFICES ASSUME IInv PROVE TypeOK
    OBVIOUS
  <2>1. ASSUME NEW i \in DOMAIN outbox
        PROVE  /\ outbox[i].id \in Nat /\ outbox[i].acked \in BOOLEAN
               /\ outbox[i].kind \in {"status", "heartbeat", "worker_done"}
               /\ outbox[i].outcome \in IF IsReport(outbox[i]) THEN Outcomes ELSE {"none"}
    <3>1. outbox \in Seq(Item) /\ i \in 1 .. Len(outbox)
      BY Lengths DEF IInv, QueueOK
    <3>2. outbox[i] \in Item
      BY <3>1, ElementOfSeq
    <3> QED
      BY <3>2 DEF Item, Kinds, IInv, QueueOK
  <2>2. att \in States /\ home \in States
    BY DEF IInv, StatesOK
  <2>3. {inSeq, epoch, imported, ackd, fedEpoch, outSeq, outAcked, faults} \subseteq Nat
    BY Lengths DEF IInv, ControlOK, PlainOK, KnownOK, AckedTo
  <2>4. {supports, moved, stopCall, refused} \subseteq BOOLEAN
    BY Zenon DEF IInv, PlainOK
  <2>5. sync.pc \in {"idle", "pull", "page", "ack", "acked", "import", "imported", "next"}
    BY DEF IInv, SyncOK, SyncType, Phase
  <2>6. \A m \in net : m.kind \in {"ack", "import"} /\ m.id \in Nat /\ m.late \in BOOLEAN
    BY DEF IInv, NetOK, GoodRequest
  <2> QED
    BY <2>1, <2>2, <2>3, <2>4, <2>5, <2>6 DEF TypeOK
<1> QED
  BY <1>1, IInvHolds, PTL

-----------------------------------------------------------------------------
(* The refinements.                                                        *)

LEMMA PrefixKept ==
  ASSUME NEW T, NEW s \in Seq(T), NEW t \in Seq(T), Len(s) <= Len(t),
         \A i \in 1 .. Len(s) : t[i] = s[i]
  PROVE  SubSeq(t, 1, Len(s)) = s
<1>1. PICK n \in Nat : n = Len(s)
  BY LenProperties
<1>2. Len(t) \in Nat /\ \A i \in 1 .. n : t[i] \in T
  BY <1>1, LenProperties, ElementOfSeq
<1> DEFINE p == SubSeq(t, 1, n)
<1>3. /\ p \in Seq(T) /\ Len(p) = IF 1 <= n THEN n - 1 + 1 ELSE 0
      /\ \A i \in 1 .. n - 1 + 1 : p[i] = t[1 + i - 1]
  BY <1>2, SubSeqProperties
<1> HIDE DEF p
<1>4. n - 1 + 1 = n /\ \A i \in 1 .. n : 1 + i - 1 = i
  OBVIOUS
<1>5. Len(p) = n /\ \A i \in 1 .. n : p[i] = s[i]
  BY <1>1, <1>3, <1>4
<1>6. p = s
  BY <1>1, <1>3, <1>5, SeqEqual
<1> QED
  BY <1>1, <1>6 DEF p

\* The versions of the items to the home.
Versions == [i \in DOMAIN outbox |-> {i, outbox[i].id}]

LEMMA VersionsOf ==
  ASSUME NEW q \in Seq(Item), NEW v, v = [i \in DOMAIN q |-> {i, q[i].id}]
  PROVE  /\ v \in Seq(SUBSET Nat) /\ Len(v) = Len(q) /\ Len(q) \in Nat
         /\ DOMAIN v = 1 .. Len(q) /\ DOMAIN q = 1 .. Len(q)
         /\ \A i \in 1 .. Len(q) : q[i] \in Item /\ v[i] = {i, q[i].id}
<1>1. Len(q) \in Nat /\ DOMAIN q = 1 .. Len(q)
  BY LenProperties
<1>2. \A i \in 1 .. Len(q) : q[i] \in Item
  BY <1>1, ElementOfSeq
<1>3. v \in [1 .. Len(q) -> SUBSET Nat]
  BY <1>1, <1>2 DEF Item
<1>4. v \in Seq(SUBSET Nat)
  BY <1>1, <1>3, SeqDef
<1>5. Len(v) = Len(q)
  BY <1>1, <1>3, <1>4, LenProperties
<1> QED
  BY <1>1, <1>2, <1>3, <1>4, <1>5

LEMMA VersionsType ==
  ASSUME QueueOK
  PROVE  /\ Versions \in Seq(SUBSET Nat) /\ Len(Versions) = Len(outbox) /\ Len(outbox) \in Nat
         /\ DOMAIN Versions = 1 .. Len(outbox) /\ DOMAIN outbox = 1 .. Len(outbox)
         /\ \A i \in 1 .. Len(outbox) : outbox[i] \in Item /\ Versions[i] = {i, outbox[i].id}
BY VersionsOf DEF QueueOK, Versions

\* A step that keeps the identities of the items keeps their versions.
LEMMA VersionsStay ==
  ASSUME QueueOK, QueueOK', Len(outbox') = Len(outbox),
         \A i \in 1 .. Len(outbox) : outbox'[i].id = outbox[i].id
  PROVE  Versions' = Versions
<1>1. DOMAIN outbox = 1 .. Len(outbox) /\ DOMAIN outbox' = 1 .. Len(outbox')
  BY LenProperties DEF QueueOK
<1> QED
  BY <1>1 DEF Versions

LEMMA EnqueueSends ==
  ASSUME IInv, IInv', NEW kind, NEW outcome, Enqueue(kind, outcome)
  PROVE  ToHome!Send
<1>1. UNCHANGED messages /\ QueueOK /\ QueueOK'
  BY DEF Enqueue, UnchangedButOutbox, homeVars, IInv
<1> DEFINE it == [id |-> Len(outbox) + 1, kind |-> kind, outcome |-> outcome, acked |-> FALSE]
<1>2. outbox' = Append(outbox, it)
  BY DEF Enqueue
<1> HIDE DEF it
<1>3. Len(outbox') = Len(outbox) + 1 /\ \A i \in 1 .. Len(outbox) : outbox'[i] = outbox[i]
  BY <1>1, <1>2, VersionsType DEF QueueOK
<1>4. /\ Len(Versions') = Len(Versions) + 1 /\ Len(Versions) <= Len(Versions')
      /\ \A i \in 1 .. Len(Versions) : Versions'[i] = Versions[i]
      /\ Versions \in Seq(SUBSET Nat) /\ Versions' \in Seq(SUBSET Nat)
  <2>1. /\ Versions \in Seq(SUBSET Nat) /\ Len(Versions) = Len(outbox) /\ Len(outbox) \in Nat
        /\ \A i \in 1 .. Len(outbox) : Versions[i] = {i, outbox[i].id}
    BY <1>1, VersionsType
  <2>2. PICK v : v = Versions'
    OBVIOUS
  <2>3. outbox' \in Seq(Item) /\ v = [i \in DOMAIN outbox' |-> {i, outbox'[i].id}]
    BY <1>1, <2>2 DEF QueueOK, Versions
  <2>4. /\ v \in Seq(SUBSET Nat) /\ Len(v) = Len(outbox')
        /\ \A i \in 1 .. Len(outbox') : v[i] = {i, outbox'[i].id}
    BY <2>3, VersionsOf
  <2>5. \A i \in 1 .. Len(outbox) : i \in 1 .. Len(outbox')
    BY <1>3, <2>1
  <2>6. \A i \in 1 .. Len(outbox) : v[i] = Versions[i]
    BY <1>3, <2>1, <2>4, <2>5
  <2> QED
    BY <1>3, <2>1, <2>2, <2>4, <2>6
<1>5. SubSeq(Versions', 1, Len(Versions)) = Versions
  BY <1>4, PrefixKept
<1> QED
  BY <1>1, <1>4, <1>5 DEF ToHome!Send, Versions

LEMMA ReportRewrites ==
  ASSUME IInv, IInv', NEW o, ReportOverHeartbeat(o)
  PROVE  ToHome!Rewrite
<1>1. UNCHANGED messages /\ QueueOK /\ QueueOK'
  BY DEF ReportOverHeartbeat, UnchangedButOutbox, homeVars, IInv
<1>2. PICK k \in Unacked(outbox) :
        /\ outbox[k].kind = "heartbeat"
        /\ outbox' = [outbox EXCEPT ![k] =
             [id |-> MaxItems + k, kind |-> "worker_done", outcome |-> o, acked |-> FALSE]]
  BY DEF ReportOverHeartbeat
<1>3. /\ DOMAIN outbox = 1 .. Len(outbox) /\ Len(outbox) \in Nat /\ DOMAIN Versions = 1 .. Len(outbox)
      /\ \A i \in 1 .. Len(outbox) : Versions[i] = {i, outbox[i].id}
  BY <1>1, VersionsType
<1>4. k \in 1 .. Len(outbox) /\ outbox[k].id = k
  BY <1>1, <1>2, <1>3 DEF Unacked, QueueOK, IsReport
<1>5. DOMAIN outbox' = DOMAIN outbox /\ \A i \in 1 .. Len(outbox) : i # k => outbox'[i] = outbox[i]
  BY <1>2, <1>3, <1>4
<1>6. Versions' = [Versions EXCEPT ![k] = Versions'[k]]
  <2>1. /\ DOMAIN Versions' = 1 .. Len(outbox)
        /\ \A i \in 1 .. Len(outbox) : i # k => Versions'[i] = Versions[i]
    BY <1>3, <1>5 DEF Versions
  <2> QED
    BY <1>3, <2>1 DEF Versions
<1>7. Versions[k] \subseteq Versions'[k] /\ k \in DOMAIN Versions
  <2>1. Versions[k] = {k} /\ k \in Versions'[k]
    BY <1>3, <1>4, <1>5 DEF Versions
  <2> QED
    BY <1>3, <1>4, <2>1
<1> QED
  BY <1>1, <1>6, <1>7 DEF ToHome!Rewrite, Versions

\* Any step that grows what was taken and leaves the queue alone.
LEMMA ImportReceives ==
  ASSUME Kept, UNCHANGED outbox
  PROVE  ToHome!Receive
<1>1. UNCHANGED Versions
  BY DEF Versions
<1>2. /\ messages \in Seq(Nat) /\ messages' \in Seq(Nat) /\ Len(messages) \in Nat /\ Len(messages') \in Nat
      /\ Len(messages) = imported /\ Len(messages') = imported' /\ DOMAIN messages' = 1 .. Len(messages')
      /\ imported <= imported' /\ imported' <= Len(outbox) /\ Len(Versions) = Len(outbox)
      /\ \A i \in 1 .. imported : messages'[i] = messages[i]
  BY LenProperties, VersionsType DEF Kept, TakenOK, Grows
<1>3. SubSeq(messages', 1, Len(messages)) = messages
  BY <1>2, PrefixKept
<1>4. \A i \in Len(messages) + 1 .. Len(messages') : messages'[i] \in Versions[i]
  <2> TAKE i \in Len(messages) + 1 .. Len(messages')
  <2>1. i \in DOMAIN messages' /\ i \in 1 .. Len(outbox) /\ Len(outbox) \in Nat
    BY <1>2, VersionsType DEF Kept
  <2>2. messages'[i] \in {i, outbox[i].id}
    BY <2>1 DEF Kept, TakenOK
  <2> QED
    BY <2>1, <2>2, VersionsType DEF Kept
<1>5. Len(messages') \in Len(messages) .. Len(Versions)
  BY <1>2, VersionsType DEF Kept
<1> QED
  BY <1>1, <1>3, <1>4, <1>5 DEF ToHome!Receive, Versions

\* A request served, wholly or up to its cursor: the identities of the queued
\* items stay, and the applied items are a prefix of those applied then.
LEMMA ApplyShape ==
  ASSUME IInv, NEW m, GoodRequest(m),
         \/ Apply(m)
         \/ m.kind = "import" /\ \E last \in m.body .. m.id : ApplyImport(last, last - 1)
  PROVE  /\ Len(outbox') = Len(outbox) /\ \A i \in 1 .. Len(outbox) : outbox'[i].id = outbox[i].id
         /\ Len(inbox) <= Len(inbox')
<1>1. /\ outbox \in Seq(Item) /\ Len(outbox) \in Nat /\ DOMAIN outbox = 1 .. Len(outbox)
      /\ inbox \in Seq(Nat) /\ Len(inbox) \in Nat /\ inSeq \in Nat
  BY Lengths, LenProperties DEF IInv, QueueOK, ControlOK
<1>2. CASE ApplyAck(m)
  <2>1. \A i \in 1 .. Len(outbox) : outbox[i] \in Item
    BY <1>1, ElementOfSeq
  <2> DEFINE n == m.body[1]
  <2>2. /\ UNCHANGED inbox
        /\ outbox' = [i \in DOMAIN outbox |->
                        IF i <= n THEN [outbox[i] EXCEPT !.acked = TRUE] ELSE outbox[i]]
    BY <1>2 DEF ApplyAck
  <2> HIDE DEF n
  <2>3. \A i \in 1 .. Len(outbox) : outbox'[i] \in Item /\ outbox'[i].id = outbox[i].id
    BY <1>1, <2>1, <2>2 DEF Item
  <2>4. outbox' \in [1 .. Len(outbox) -> Item]
    BY <1>1, <2>2, <2>3
  <2>5. outbox' \in Seq(Item)
    BY <1>1, <2>4, SeqDef
  <2>6. Len(outbox') = Len(outbox)
    BY <1>1, <2>4, <2>5, LenProperties
  <2> QED
    BY <1>1, <2>2, <2>3, <2>6
<1>3. ASSUME NEW last \in Nat, NEW cursor, ApplyImport(last, cursor)
      PROVE  UNCHANGED outbox /\ Len(inbox) <= Len(inbox')
  <2>1. PICK len \in Nat : len = Len(inbox)
    BY <1>1
  <2>2. PICK d \in Nat : d = Max({last, Len(inbox)}) - Len(inbox)
    BY <1>1, MaxTwo
  <2> DEFINE more == [i \in 1 .. d |-> len + i]
  <2>3. inbox' = inbox \o more /\ UNCHANGED outbox
    BY <1>3, <2>1, <2>2 DEF ApplyImport
  <2>4. more \in [1 .. d -> Nat]
    OBVIOUS
  <2> HIDE DEF more
  <2>5. more \in Seq(Nat)
    BY <2>4, SeqDef
  <2>6. Len(more) = d
    BY <2>4, <2>5, LenProperties
  <2>7. Len(inbox') = Len(inbox) + Len(more)
    BY <1>1, <2>3, <2>5, ConcatProperties
  <2> QED
    BY <1>1, <2>3, <2>6, <2>7
<1>4. CASE m.kind # "ack" /\ ApplyImport(m.id, m.id)
  <2>1. m.id \in Nat
    BY DEF GoodRequest
  <2> QED
    BY <1>1, <1>3, <1>4, <2>1
<1>5. CASE m.kind = "import" /\ \E last \in m.body .. m.id : ApplyImport(last, last - 1)
  <2>1. PICK last \in m.body .. m.id : ApplyImport(last, last - 1)
    BY <1>5
  <2>2. m.body \in Nat /\ m.id \in Nat
    BY <1>1, <1>5 DEF GoodRequest
  <2>3. last \in Nat
    BY <2>1, <2>2
  <2>4. PICK cursor : cursor = last - 1
    OBVIOUS
  <2> QED
    BY <1>1, <1>3, <2>1, <2>3, <2>4
<1> QED
  BY <1>2, <1>4, <1>5 DEF Apply

\* Every step of the worker server's handlers, and its death in one of them.
LEMMA ServerShape ==
  ASSUME IInv, NEW m \in net, ServerStep(m) \/ ServerCrash(m)
  PROVE  /\ UNCHANGED <<messages, outSeq>>
         /\ Len(outbox') = Len(outbox) /\ \A i \in 1 .. Len(outbox) : outbox'[i].id = outbox[i].id
         /\ Len(inbox) <= Len(inbox')
<1>1. GoodRequest(m) /\ UNCHANGED <<messages, outSeq>>
  BY DEF IInv, NetOK, ServerStep, Serve, ServeError, ServeReplay, ServeRefused, ServerCrash, homeVars
<1>2. CASE UNCHANGED <<outbox, inbox>>
  <2>1. inbox \in Seq(Nat) /\ Len(inbox) \in Nat
    BY LenProperties DEF IInv, ControlOK
  <2> QED
    BY <1>1, <1>2, <2>1
<1>3. CASE \/ Apply(m)
           \/ m.kind = "import" /\ \E last \in m.body .. m.id : ApplyImport(last, last - 1)
  BY <1>1, <1>3, ApplyShape
<1> QED
  BY <1>2, <1>3
     DEF ServerStep, Serve, ServeError, ServeReplay, ServeRefused, ServerCrash, serverVars

\* The steps that only one side's own state, or the way there, is changed by.
Elsewhere ==
  \/ HomeStop \/ RemoteStop \/ RemoteStopEnds \/ HomeStopAnswered \/ HomeStopUnknown \/ TaskMovesOn
  \/ StartSync \/ NextPage \/ Pull \/ RefusalExpires \/ AckAnswered \/ ImportAnswered
  \/ CallFails \/ ServerRestart \/ HomeRestart

LEMMA ElsewhereShape ==
  ASSUME Elsewhere
  PROVE  UNCHANGED <<outbox, messages, inbox, outSeq>>
<1>1. CASE HomeStop \/ RemoteStop \/ RemoteStopEnds \/ HomeStopAnswered \/ HomeStopUnknown \/ TaskMovesOn
  BY <1>1 DEF HomeStop, RemoteStop, RemoteStopEnds, HomeStopAnswered, HomeStopUnknown, TaskMovesOn,
              UnchangedButStates
<1>2. CASE StartSync \/ NextPage \/ Pull \/ RefusalExpires
  BY <1>2 DEF StartSync, NextPage, Pull, RefusalExpires, serverVars, homeVars
<1>3. CASE AckAnswered \/ ImportAnswered
  BY <1>3 DEF AckAnswered, ImportAnswered, serverVars
<1>4. CASE CallFails \/ ServerRestart \/ HomeRestart
  BY <1>4 DEF CallFails, ServerRestart, HomeRestart, serverVars, homeVars
<1> QED
  BY <1>1, <1>2, <1>3, <1>4 DEF Elsewhere

\* What a step does, for both directions.
LEMMA StepKinds ==
  ASSUME Next
  PROVE  \/ \E kind, outcome : Enqueue(kind, outcome)
         \/ \E o \in Reports : ReportOverHeartbeat(o)
         \/ QueueControl
         \/ ImportPage \/ HomeCrashImporting
         \/ \E m \in net : ServerStep(m) \/ ServerCrash(m)
         \/ Elsewhere
BY DEF Next, SendStatus, SendHeartbeat, SendReport, SyncStep, Elsewhere

\* The home takes the items of the worker in order, each once, in one of its
\* versions, through every loss, repetition and crash.
THEOREM ToHomeImplemented == Spec => ToHomeChannel
<1>1. Init => ToHome!ChannelInit
  <2> SUFFICES ASSUME Init PROVE ToHome!ChannelInit
    OBVIOUS
  <2>1. IInv
    BY InitOK
  <2>2. Len(outbox) = 0 /\ messages = <<>>
    BY DEF Init
  <2>3. Versions = <<>>
    BY <2>1, <2>2, VersionsType, EmptySeq DEF IInv
  <2> QED
    BY <2>2, <2>3 DEF ToHome!ChannelInit, Versions
<1>2. IInv /\ IInv' /\ [Next]_vars
      => [ToHome!ChannelNext]_<<[i \in DOMAIN outbox |-> {i, outbox[i].id}], messages>>
  <2> SUFFICES ASSUME IInv, IInv', [Next]_vars
               PROVE  ToHome!ChannelNext \/ UNCHANGED <<Versions, messages>>
    BY DEF Versions
  <2>1. CASE \E kind, outcome : Enqueue(kind, outcome)
    BY <2>1, EnqueueSends DEF ToHome!ChannelNext
  <2>2. CASE \E o \in Reports : ReportOverHeartbeat(o)
    BY <2>2, ReportRewrites DEF ToHome!ChannelNext
  <2>3. CASE ImportPage \/ HomeCrashImporting
    <3>1. Kept
      BY <2>3, ImportPageOK, HomeCrashImportingOK
    <3>2. UNCHANGED outbox
      BY <2>3 DEF ImportPage, HomeCrashImporting, serverVars
    <3> QED
      BY <3>1, <3>2, ImportReceives DEF ToHome!ChannelNext
  <2>4. CASE \E m \in net : ServerStep(m) \/ ServerCrash(m)
    BY <2>4, ServerShape, VersionsStay DEF IInv
  <2>5. CASE QueueControl \/ Elsewhere \/ UNCHANGED vars
    <3>1. UNCHANGED <<outbox, messages>>
      BY <2>5, ElsewhereShape DEF QueueControl, vars, serverVars, homeVars
    <3> QED
      BY <3>1 DEF Versions
  <2> QED
    BY <2>1, <2>2, <2>3, <2>4, <2>5, StepKinds
<1> QED
  BY <1>1, <1>2, IInvHolds, PTL DEF Spec, ToHomeChannel, ToHome!ChannelSpec

\* The items to the worker, each with its one version.
Controls == [i \in 1 .. outSeq |-> {i}]

LEMMA ControlsOf ==
  ASSUME NEW n \in Nat, NEW v, v = [i \in 1 .. n |-> {i}]
  PROVE  v \in Seq(SUBSET Nat) /\ Len(v) = n /\ \A i \in 1 .. n : v[i] = {i}
<1>1. v \in [1 .. n -> SUBSET Nat]
  OBVIOUS
<1>2. v \in Seq(SUBSET Nat)
  BY <1>1, SeqDef
<1>3. Len(v) = n
  BY <1>1, <1>2, LenProperties
<1> QED
  BY <1>2, <1>3

LEMMA ControlSends ==
  ASSUME IInv, QueueControl
  PROVE  ToWorker!Send
<1>1. outSeq \in Nat /\ outSeq' = outSeq + 1 /\ outSeq' \in Nat /\ UNCHANGED inbox
  BY DEF IInv, ControlOK, QueueControl, serverVars
<1>2. PICK v : v = Controls
  OBVIOUS
<1>3. PICK w : w = Controls'
  OBVIOUS
<1>4. v \in Seq(SUBSET Nat) /\ Len(v) = outSeq /\ \A i \in 1 .. outSeq : v[i] = {i}
  BY <1>1, <1>2, ControlsOf DEF Controls
<1>5. w \in Seq(SUBSET Nat) /\ Len(w) = outSeq' /\ \A i \in 1 .. outSeq' : w[i] = {i}
  BY <1>1, <1>3, ControlsOf DEF Controls
<1>6. SubSeq(w, 1, Len(v)) = v
  <2>1. Len(v) <= Len(w)
    BY <1>1, <1>4, <1>5
  <2>2. ASSUME NEW i \in 1 .. Len(v) PROVE w[i] = v[i]
    <3>1. i \in 1 .. outSeq /\ i \in 1 .. outSeq'
      BY <1>1, <1>4
    <3>2. v[i] = {i} /\ w[i] = {i}
      BY <1>4, <1>5, <3>1
    <3> QED
      BY <3>2
  <2> QED
    BY <1>4, <1>5, <2>1, <2>2, PrefixKept
<1> QED
  BY <1>1, <1>2, <1>3, <1>4, <1>5, <1>6 DEF ToWorker!Send, Controls

LEMMA ServerReceives ==
  ASSUME IInv, IInv', Len(inbox) <= Len(inbox'), UNCHANGED outSeq
  PROVE  ToWorker!Receive
<1>1. /\ outSeq \in Nat /\ inbox \in Seq(Nat) /\ inbox' \in Seq(Nat)
      /\ \A i \in DOMAIN inbox : inbox[i] = i
      /\ \A i \in DOMAIN inbox' : inbox'[i] = i
      /\ Len(inbox') <= outSeq
  BY DEF IInv, ControlOK
<1>2. /\ Len(inbox) \in Nat /\ DOMAIN inbox = 1 .. Len(inbox)
      /\ Len(inbox') \in Nat /\ DOMAIN inbox' = 1 .. Len(inbox')
  BY <1>1, LenProperties
<1>3. SubSeq(inbox', 1, Len(inbox)) = inbox
  <2>1. \A i \in 1 .. Len(inbox) : inbox'[i] = inbox[i]
    BY <1>1, <1>2
  <2> QED
    BY <1>1, <2>1, PrefixKept
<1>4. PICK v : v = Controls
  OBVIOUS
<1>5. v \in Seq(SUBSET Nat) /\ Len(v) = outSeq /\ \A i \in 1 .. outSeq : v[i] = {i}
  BY <1>1, <1>4, ControlsOf DEF Controls
<1>6. Len(inbox') \in Len(inbox) .. Len(v)
  BY <1>1, <1>2, <1>5
<1>7. ASSUME NEW i \in Len(inbox) + 1 .. Len(inbox') PROVE inbox'[i] \in v[i]
  <2>1. i \in DOMAIN inbox' /\ i \in 1 .. outSeq
    BY <1>1, <1>2
  <2>2. inbox'[i] = i /\ v[i] = {i}
    BY <1>1, <1>5, <2>1
  <2> QED
    BY <2>2
<1> QED
  BY <1>3, <1>4, <1>6, <1>7 DEF ToWorker!Receive, Controls

\* The worker server applies the items of the home in order, each once, though
\* it writes their cursor apart from them.
THEOREM ToWorkerImplemented == Spec => ToWorkerChannel
<1>1. Init => ToWorker!ChannelInit
  <2> SUFFICES ASSUME Init PROVE ToWorker!ChannelInit
    OBVIOUS
  <2>1. outSeq = 0 /\ inbox = <<>>
    BY DEF Init
  <2>2. PICK v : v = Controls
    OBVIOUS
  <2>3. v \in Seq(SUBSET Nat) /\ Len(v) = 0
    BY <2>1, <2>2, ControlsOf DEF Controls
  <2>4. v = <<>>
    BY <2>3, EmptySeq
  <2> QED
    BY <2>1, <2>2, <2>4 DEF ToWorker!ChannelInit, Controls
<1>2. IInv /\ IInv' /\ [Next]_vars
      => [ToWorker!ChannelNext]_<<[i \in 1 .. outSeq |-> {i}], inbox>>
  <2> SUFFICES ASSUME IInv, IInv', [Next]_vars
               PROVE  ToWorker!ChannelNext \/ UNCHANGED <<Controls, inbox>>
    BY DEF Controls
  <2>1. CASE QueueControl
    BY <2>1, ControlSends DEF ToWorker!ChannelNext
  <2>2. CASE \E m \in net : ServerStep(m) \/ ServerCrash(m)
    BY <2>2, ServerShape, ServerReceives DEF ToWorker!ChannelNext
  <2>3. CASE \/ \E kind, outcome : Enqueue(kind, outcome)
             \/ \E o \in Reports : ReportOverHeartbeat(o)
             \/ ImportPage \/ HomeCrashImporting \/ Elsewhere \/ UNCHANGED vars
    <3>1. UNCHANGED <<inbox, outSeq>>
      BY <2>3, ElsewhereShape
         DEF Enqueue, ReportOverHeartbeat, UnchangedButOutbox, ImportPage, HomeCrashImporting,
             ImportPrefix, vars, serverVars, homeVars
    <3> QED
      BY <3>1 DEF Controls
  <2> QED
    BY <2>1, <2>2, <2>3, StepKinds
<1> QED
  BY <1>1, <1>2, IInvHolds, PTL DEF Spec, ToWorkerChannel, ToWorker!ChannelSpec
=============================================================================
