--------------------------- MODULE MailboxProofs ---------------------------
(***************************************************************************)
(* The safety of Mailbox for every set of panes, every number of checks    *)
(* under way and every batch size.                                         *)
(*                                                                         *)
(* Core says when the generation a check remembered, or a batch carries,   *)
(* still counts: then nobody was bound since, so the pane that remembered  *)
(* it is the reader.  A step is harmless to what it does not write         *)
(* (Harmless): generations only grow, no batch comes back to life, and the *)
(* reader of a live batch stays.  So the proof of each action shows that   *)
(* its step is harmless, that the data it leaves are sound, and that the   *)
(* call it advances is.                                                    *)
(***************************************************************************)
EXTENDS Mailbox, SequenceTheorems, TLAPS

Status    == {"outstanding", "acknowledged", "fenced"}
Message   == [box : Boxes, by : Panes \cup {None}]
Delivery  == [box : Boxes, gen : Nat, ids : SUBSET Nat, status : Status]
Waiting   == {"called", "residual", "drain", "read", "parked", "woken", "ended"}

\* A check that knows the current generation of its Run belongs to its reader.
Entitled(call) ==
  /\ call.box = X => call.pane = Assignee /\ call.gen = 1
  /\ call.box \in Runs =>
       /\ call.gen <= runs[call.box].gen
       /\ call.gen = runs[call.box].gen => BoundTo(call.pane, call.box)

Reader(d) == Consumer(deliveries[d].box)

GoodCalls ==
  {call \in [phase : Phases, pane : Panes \cup {None}, box : Boxes, gen : Nat,
             ack : 0..Len(deliveries), give : 0..Len(deliveries), thru : Nat] :
     /\ call.phase \in Waiting => Entitled(call)
     /\ call.phase \in {"residual", "drain"} => call.box \in Runs /\ call.pane = Assignee
     /\ call.phase = "rerouting" => ~active
     /\ call.give # 0 /\ Live(call.give) => call.pane = Reader(call.give)}

\* Unread messages of a live batch are still in the mailbox it is from.
InPlace(d) ==
  Live(d) => \A i \in deliveries[d].ids : msgs[i].by = None => msgs[i].box = deliveries[d].box

\* A batch of a Run is from its current reader, or past.
Dated(d) ==
  deliveries[d].box \in Runs =>
    /\ deliveries[d].gen <= runs[deliveries[d].box].gen
    /\ deliveries[d].status = "outstanding" => deliveries[d].gen = runs[deliveries[d].box].gen

\* One batch of a mailbox is waiting for its acknowledgment.
OneBatch ==
  \A box \in Boxes : \A d, e \in Outstanding(box) : Live(d) /\ Live(e) => d = e

DataOK ==
  /\ runs \in [Runs -> [coord : Panes \cup {None}, gen : Nat]]
  /\ active \in BOOLEAN
  /\ msgs \in Seq(Message) /\ deliveries \in Seq(Delivery)
  /\ \A d \in DOMAIN deliveries : deliveries[d].ids \subseteq DOMAIN msgs
  /\ \A d \in DOMAIN deliveries : Dated(d) /\ InPlace(d)
  /\ OneBatch
  /\ binds \in Nat /\ faults \in Nat

HeldOK ==
  /\ held \in [Panes -> 0..Len(deliveries)]
  /\ \A p \in Panes : held[p] # 0 /\ Live(held[p]) => p = Reader(held[p])

Core == DataOK /\ HeldOK /\ calls \in [Calls -> GoodCalls]

-----------------------------------------------------------------------------
(* What a step has to respect.                                             *)

Harmless ==
  /\ Len(deliveries) <= Len(deliveries')
  /\ active' => active
  /\ \A d \in DOMAIN deliveries : Live(d)' => Live(d) /\ Reader(d)' = Reader(d)
  /\ \A r \in Runs : runs'[r] = runs[r] \/ runs'[r].gen > runs[r].gen

\* A sequence rewritten in place is a sequence.
LEMMA Rewritten ==
  ASSUME NEW T, NEW s \in Seq(T), NEW f \in [DOMAIN s -> T]
  PROVE  f \in Seq(T) /\ Len(f) = Len(s) /\ DOMAIN f = DOMAIN s
<1>1. Len(s) \in Nat /\ DOMAIN s = 1..Len(s)
  BY LenProperties
<1>2. f \in [1..Len(s) -> T]
  BY <1>1
<1>3. f \in Seq(T)
  BY <1>1, <1>2, SeqDef
<1>4. Len(f) \in Nat /\ DOMAIN f = 1..Len(f)
  BY <1>3, LenProperties
<1>5. Len(f) = Len(s)
  BY <1>1, <1>2, <1>4
<1> QED
  BY <1>1, <1>2, <1>3, <1>5

LEMMA Domains ==
  ASSUME DataOK
  PROVE  /\ Len(deliveries) \in Nat /\ DOMAIN deliveries = 1..Len(deliveries)
         /\ Len(msgs) \in Nat /\ DOMAIN msgs = 1..Len(msgs)
BY LenProperties DEF DataOK

\* A call nobody advances stays sound.
LEMMA CallsStay ==
  ASSUME DataOK, DataOK', Harmless
  PROVE  GoodCalls \subseteq GoodCalls'
<1>1. Len(deliveries) \in Nat /\ Len(deliveries') \in Nat /\ DOMAIN deliveries = 1..Len(deliveries)
  BY Domains, LenProperties DEF DataOK
<1> SUFFICES ASSUME NEW call \in GoodCalls PROVE call \in GoodCalls'
  OBVIOUS
<1>2. call \in [phase : Phases, pane : Panes \cup {None}, box : Boxes, gen : Nat,
                ack : 0..Len(deliveries'), give : 0..Len(deliveries'), thru : Nat]
  BY <1>1 DEF GoodCalls, Harmless
<1>3. Entitled(call) => Entitled(call)'
  BY <1>2 DEF Entitled, BoundTo, DataOK, Harmless, Runs, Boxes, X
<1>4. call.give # 0 => call.give \in DOMAIN deliveries
  BY <1>1 DEF GoodCalls
<1>5. call.give # 0 /\ Live(call.give)' => call.pane = Reader(call.give)'
  BY <1>4 DEF Harmless, GoodCalls
<1>6. call.phase = "rerouting" => ~active'
  BY DEF Harmless, GoodCalls
<1> QED
  BY <1>2, <1>3, <1>5, <1>6 DEF GoodCalls

\* So does what the panes hold.
LEMMA HeldStays ==
  ASSUME DataOK, DataOK', Harmless, HeldOK, UNCHANGED held
  PROVE  HeldOK'
<1>1. Len(deliveries) \in Nat /\ Len(deliveries') \in Nat /\ DOMAIN deliveries = 1..Len(deliveries)
  BY Domains, LenProperties DEF DataOK
<1>2. held' \in [Panes -> 0..Len(deliveries')]
  BY <1>1 DEF HeldOK, Harmless
<1>3. ASSUME NEW p \in Panes PROVE held[p] # 0 => held[p] \in DOMAIN deliveries
  BY <1>1 DEF HeldOK
<1>4. ASSUME NEW p \in Panes, held[p] # 0, Live(held[p])' PROVE p = Reader(held[p])'
  BY <1>3, <1>4 DEF Harmless, HeldOK
<1> QED
  BY <1>2, <1>4 DEF HeldOK

\* A step that leaves every call sound.
LEMMA Advances ==
  ASSUME Core, DataOK', Harmless, UNCHANGED held, calls' \in [Calls -> GoodCalls]
  PROVE  Core'
<1>1. HeldOK'
  BY HeldStays DEF Core
<1>2. calls' \in [Calls -> GoodCalls']
  BY CallsStay DEF Core
<1> QED
  BY <1>1, <1>2 DEF Core

-----------------------------------------------------------------------------
(* The data each kind of step leaves.                                      *)

\* Steps of a check that read nothing new.
LEMMA Quiet ==
  ASSUME DataOK, UNCHANGED <<runs, active, msgs, deliveries>>, binds' \in Nat, faults' \in Nat
  PROVE  DataOK' /\ Harmless
<1>1. Len(deliveries) \in Nat
  BY Domains
<1>2. ASSUME NEW d PROVE /\ Live(d)' = Live(d) /\ Reader(d)' = Reader(d)
                         /\ Dated(d)' = Dated(d) /\ InPlace(d)' = InPlace(d)
  BY DEF Live, IsConsumer, Generation, Reader, Consumer, Dated, InPlace
<1>3. ASSUME NEW box PROVE Outstanding(box)' = Outstanding(box)
  BY DEF Outstanding
<1>4. DataOK'
  BY <1>2, <1>3 DEF DataOK, OneBatch
<1> QED
  BY <1>1, <1>2, <1>4 DEF Harmless

\* An acknowledgment.
LEMMA Acknowledges ==
  ASSUME DataOK, UNCHANGED <<runs, active, binds, faults>>,
         NEW d \in DOMAIN deliveries, NEW p \in Panes \cup {None}, AckBatch(d, p)
  PROVE  DataOK' /\ Harmless /\ Len(deliveries') = Len(deliveries)
<1>1. CASE deliveries[d].status = "acknowledged"
  BY <1>1, Quiet DEF AckBatch, DataOK
<1>2. CASE deliveries[d].status # "acknowledged"
  <2>1. /\ msgs' = [i \in DOMAIN msgs |->
                      IF i \in deliveries[d].ids /\ msgs[i].by = None
                        THEN [msgs[i] EXCEPT !.by = p] ELSE msgs[i]]
        /\ deliveries' = [deliveries EXCEPT ![d].status = "acknowledged"]
    BY <1>2 DEF AckBatch
  <2>2. msgs \in Seq(Message) /\ \A i \in DOMAIN msgs : msgs[i] \in Message
    BY ElementOfSeq, Domains DEF DataOK
  <2>3. msgs' \in [DOMAIN msgs -> Message]
    BY <2>1, <2>2 DEF Message
  <2>4. msgs' \in Seq(Message) /\ DOMAIN msgs' = DOMAIN msgs
    BY <2>2, <2>3, Rewritten
  <2>5. deliveries \in Seq(Delivery) /\ \A e \in DOMAIN deliveries : deliveries[e] \in Delivery
    BY ElementOfSeq, Domains DEF DataOK
  <2>6. deliveries' \in [DOMAIN deliveries -> Delivery]
    BY <2>1, <2>5 DEF Delivery, Status
  <2>7. /\ deliveries' \in Seq(Delivery) /\ DOMAIN deliveries' = DOMAIN deliveries
        /\ Len(deliveries') = Len(deliveries)
    BY <2>5, <2>6, Rewritten
  <2>8. ASSUME NEW e \in DOMAIN deliveries
        PROVE  /\ deliveries'[e].box = deliveries[e].box /\ deliveries'[e].gen = deliveries[e].gen
               /\ deliveries'[e].ids = deliveries[e].ids
               /\ deliveries'[e].status = "outstanding" => deliveries[e].status = "outstanding"
    BY <2>1, <2>5 DEF Delivery
  <2>9. ASSUME NEW i \in DOMAIN msgs
        PROVE  /\ msgs'[i].box = msgs[i].box
               /\ msgs'[i].by = None => msgs[i].by = None
    BY <2>1, <2>2 DEF Message
  <2>10. ASSUME NEW e \in DOMAIN deliveries
         PROVE  /\ Live(e)' => Live(e)
                /\ Reader(e)' = Reader(e)
    BY <2>8 DEF Live, IsConsumer, Generation, Reader, Consumer
  <2>11. ASSUME NEW e \in DOMAIN deliveries PROVE Dated(e)' /\ InPlace(e)'
    BY <2>8, <2>9, <2>10 DEF DataOK, Dated, InPlace
  <2>12. ASSUME NEW box PROVE Outstanding(box)' \subseteq Outstanding(box)
    BY <2>7, <2>8, <2>9 DEF Outstanding, DataOK
  <2>13. OneBatch'
    BY <2>10, <2>12 DEF OneBatch, Outstanding, DataOK
  <2>14. DataOK'
    BY <2>4, <2>7, <2>8, <2>11, <2>13 DEF DataOK
  <2> QED
    BY <2>7, <2>10, <2>14, Domains DEF Harmless
<1> QED
  BY <1>1, <1>2

\* A new batch.
LEMMA HandsOut ==
  ASSUME DataOK, UNCHANGED <<runs, active, msgs, binds, faults>>,
         NEW box \in Boxes, NEW gen \in Nat, IsConsumer(box, gen), Outstanding(box) = {},
         deliveries' = Append(deliveries,
           [box |-> box, gen |-> gen, ids |-> Page(Unread(box)), status |-> "outstanding"])
  PROVE  /\ DataOK' /\ Harmless /\ Len(deliveries') = Len(deliveries) + 1
         /\ deliveries'[Len(deliveries) + 1].box = box
<1> DEFINE new == [box |-> box, gen |-> gen, ids |-> Page(Unread(box)), status |-> "outstanding"]
<1>0. PICK n \in Nat : n = Len(deliveries) + 1
  BY Domains
<1>1. Page(Unread(box)) \subseteq Unread(box) /\ Unread(box) \subseteq DOMAIN msgs
  BY DEF Page, Unread
<1>2. DOMAIN msgs \subseteq Nat
  BY Domains
<1>3. new \in Delivery
  BY <1>1, <1>2 DEF Delivery, Status
<1>4. /\ deliveries' \in Seq(Delivery) /\ Len(deliveries') = n /\ deliveries'[n] = new
      /\ \A d \in 1..Len(deliveries) : deliveries'[d] = deliveries[d]
  BY <1>0, <1>3, AppendProperties DEF DataOK
<1>5. /\ n \in Nat /\ DOMAIN deliveries = 1..Len(deliveries)
      /\ DOMAIN deliveries' = DOMAIN deliveries \cup {n} /\ n \notin DOMAIN deliveries
  BY <1>0, <1>4, Domains, LenProperties
<1>6. ASSUME NEW d \in DOMAIN deliveries
      PROVE  Live(d)' = Live(d) /\ Reader(d)' = Reader(d) /\ Dated(d)' = Dated(d) /\ InPlace(d)' = InPlace(d)
  BY <1>4, <1>5 DEF Live, IsConsumer, Generation, Reader, Consumer, Dated, InPlace
<1>7. Dated(n)' /\ InPlace(n)'
  <2>1. box \in Runs => gen = runs[box].gen /\ runs[box].gen \in Nat
    BY DEF IsConsumer, Generation, Runs, X, DataOK
  <2>2. Dated(n)'
    BY <1>4, <2>1 DEF Dated
  <2>3. InPlace(n)'
    BY <1>1, <1>4 DEF InPlace, Unread
  <2> QED
    BY <2>2, <2>3
<1>8. \A other : Outstanding(other)' \subseteq Outstanding(other) \cup (IF other = box THEN {n} ELSE {})
  BY <1>4, <1>5 DEF Outstanding
<1>9. OneBatch'
  <2> SUFFICES ASSUME NEW other \in Boxes,
                      NEW d \in Outstanding(other)', NEW e \in Outstanding(other)',
                      Live(d)', Live(e)'
               PROVE  d = e
    BY DEF OneBatch
  <2>1. Outstanding(other) \subseteq DOMAIN deliveries
    BY DEF Outstanding
  <2>2. CASE other = box
    BY <1>8, <2>2
  <2>3. CASE other # box
    <3>1. d \in Outstanding(other) /\ e \in Outstanding(other)
      BY <1>8, <2>3
    <3> QED
      BY <1>6, <2>1, <3>1 DEF OneBatch, DataOK
  <2> QED
    BY <2>2, <2>3
<1>10. \A d \in DOMAIN deliveries' : deliveries'[d].ids \subseteq DOMAIN msgs'
  BY <1>1, <1>4, <1>5 DEF DataOK
<1>11. DataOK'
  BY <1>4, <1>5, <1>6, <1>7, <1>9, <1>10 DEF DataOK
<1> QED
  BY <1>0, <1>4, <1>5, <1>6, <1>11 DEF Harmless

\* The mail of a settled Dispatch moves to its Run.
LEMMA Reroutes ==
  ASSUME DataOK, UNCHANGED <<runs, active, deliveries, binds, faults>>, ~active,
         NEW c, NEW through, RoutePage(c, through)
  PROVE  DataOK' /\ Harmless
<1> DEFINE page == Page({i \in Unread(X) : i <= through})
<1>1. msgs' = [i \in DOMAIN msgs |-> IF i \in page THEN [msgs[i] EXCEPT !.box = "R"] ELSE msgs[i]]
  BY DEF RoutePage
<1>2. \A i \in page : i \in DOMAIN msgs /\ msgs[i].box = X /\ msgs[i].by = None
  BY DEF Page, Unread
<1> HIDE DEF page
<1>3. msgs \in Seq(Message) /\ \A i \in DOMAIN msgs : msgs[i] \in Message
  BY ElementOfSeq, Domains DEF DataOK
<1>4. msgs' \in [DOMAIN msgs -> Message]
  BY <1>1, <1>3 DEF Message, Boxes, Runs
<1>5. msgs' \in Seq(Message) /\ DOMAIN msgs' = DOMAIN msgs
  BY <1>3, <1>4, Rewritten
<1>6. ASSUME NEW i \in DOMAIN msgs
      PROVE msgs'[i].by = msgs[i].by /\ (msgs[i].box # X => msgs'[i].box = msgs[i].box)
  BY <1>1, <1>2, <1>3 DEF Message
<1>7. ASSUME NEW d
      PROVE  /\ Live(d)' = Live(d) /\ Reader(d)' = Reader(d) /\ Dated(d)' = Dated(d)
             /\ Live(d) => deliveries[d].box # X
  BY DEF Live, IsConsumer, Generation, Reader, Consumer, Dated
<1>8. ASSUME NEW d \in DOMAIN deliveries PROVE InPlace(d)'
  BY <1>6, <1>7 DEF DataOK, InPlace
<1>9. \A box : Outstanding(box)' = Outstanding(box)
  BY <1>6 DEF Outstanding, DataOK
<1>10. OneBatch'
  BY <1>7, <1>9 DEF OneBatch, DataOK
<1>11. DataOK'
  BY <1>5, <1>7, <1>8, <1>10 DEF DataOK
<1> QED
  BY <1>7, <1>11, Domains DEF Harmless

\* New mail.
LEMMA Sends ==
  ASSUME DataOK, UNCHANGED <<runs, active, deliveries, binds, faults>>,
         NEW box \in Boxes, msgs' = Append(msgs, [box |-> box, by |-> None])
  PROVE  DataOK' /\ Harmless
<1>1. [box |-> box, by |-> None] \in Message
  BY DEF Message
<1>2. /\ msgs' \in Seq(Message) /\ Len(msgs') = Len(msgs) + 1
      /\ \A i \in 1..Len(msgs) : msgs'[i] = msgs[i]
  BY <1>1, AppendProperties DEF DataOK
<1>3. DOMAIN msgs \subseteq DOMAIN msgs' /\ \A i \in DOMAIN msgs : msgs'[i] = msgs[i]
  BY <1>2, Domains, LenProperties
<1>4. ASSUME NEW d
      PROVE  Live(d)' = Live(d) /\ Reader(d)' = Reader(d) /\ Dated(d)' = Dated(d)
  BY DEF Live, IsConsumer, Generation, Reader, Consumer, Dated
<1>5. ASSUME NEW d \in DOMAIN deliveries PROVE InPlace(d)'
  BY <1>3, <1>4 DEF DataOK, InPlace
<1>6. \A other : Outstanding(other)' = Outstanding(other)
  BY <1>3 DEF Outstanding, DataOK
<1>7. OneBatch'
  BY <1>4, <1>6 DEF OneBatch, DataOK
<1>8. DataOK'
  BY <1>2, <1>3, <1>4, <1>5, <1>7 DEF DataOK
<1> QED
  BY <1>4, <1>8, Domains DEF Harmless

\* The Dispatch settles: its batches are worth nothing any more.
LEMMA Settles ==
  ASSUME DataOK, UNCHANGED <<runs, deliveries, msgs, binds, faults>>, active, active' = FALSE
  PROVE  DataOK' /\ Harmless
<1>1. ASSUME NEW d
      PROVE /\ Live(d)' => Live(d) /\ Reader(d)' = Reader(d)
            /\ Dated(d)' = Dated(d) /\ (InPlace(d) => InPlace(d)')
  BY DEF Live, IsConsumer, Generation, Reader, Consumer, Dated, InPlace
<1>2. \A box : Outstanding(box)' = Outstanding(box)
  BY DEF Outstanding
<1>3. OneBatch'
  BY <1>1, <1>2 DEF OneBatch, DataOK
<1>4. DataOK'
  BY <1>1, <1>3 DEF DataOK
<1> QED
  BY <1>1, <1>4, Domains DEF Harmless

\* A pane is bound to a Run: what the readers replaced had handed out is
\* fenced, so nothing of theirs is live.
LEMMA Binds ==
  ASSUME DataOK, NEW p \in Panes, NEW r \in Runs, NEW fresh \in BOOLEAN, Bind(p, r, fresh)
  PROVE  DataOK' /\ Harmless /\ Len(deliveries') = Len(deliveries)
<1> DEFINE left  == {q \in Runs \ {r} : BoundTo(p, q)}
           taken == left \cup (IF fresh THEN {r} ELSE {})
<1>1. /\ runs' = [q \in Runs |->
           IF q = r /\ fresh THEN [coord |-> p, gen |-> runs[q].gen + 1]
           ELSE IF q \in left THEN [coord |-> None, gen |-> runs[q].gen + 1] ELSE runs[q]]
      /\ deliveries' = Fenced(taken)
      /\ binds' = binds + 1 /\ UNCHANGED <<active, msgs, held, faults>>
  BY DEF Bind
<1>2. taken \subseteq Runs
  OBVIOUS
<1>3. ASSUME NEW q \in Runs
      PROVE  /\ runs[q].gen \in Nat
             /\ q \in taken => runs'[q].gen = runs[q].gen + 1
             /\ q \notin taken => runs'[q] = runs[q]
  BY <1>1 DEF DataOK
<1>4. runs' \in [Runs -> [coord : Panes \cup {None}, gen : Nat]]
  BY <1>1 DEF DataOK
<1> HIDE DEF left, taken
<1>5. deliveries \in Seq(Delivery) /\ \A d \in DOMAIN deliveries : deliveries[d] \in Delivery
  BY ElementOfSeq, Domains DEF DataOK
<1>6. deliveries' \in [DOMAIN deliveries -> Delivery]
  BY <1>1, <1>5 DEF Fenced, Delivery, Status
<1>7. /\ deliveries' \in Seq(Delivery) /\ DOMAIN deliveries' = DOMAIN deliveries
      /\ Len(deliveries') = Len(deliveries)
  BY <1>5, <1>6, Rewritten
<1>8. ASSUME NEW d \in DOMAIN deliveries
      PROVE  /\ deliveries'[d].box = deliveries[d].box /\ deliveries'[d].gen = deliveries[d].gen
             /\ deliveries'[d].ids = deliveries[d].ids /\ deliveries[d].gen \in Nat
             /\ deliveries'[d].status = "outstanding" =>
                  deliveries[d].status = "outstanding" /\ deliveries[d].box \notin taken
             /\ deliveries[d].box \in Boxes
  BY <1>1, <1>5 DEF Fenced, Delivery
<1>9. ASSUME NEW d \in DOMAIN deliveries, Live(d)'
      PROVE  Live(d) /\ Reader(d)' = Reader(d)
  <2>1. deliveries[d].box # X => deliveries[d].box \in Runs \ taken
    BY <1>8, <1>9 DEF Live, Boxes
  <2>2. deliveries[d].box # X => runs'[deliveries[d].box] = runs[deliveries[d].box]
    BY <1>3, <2>1
  <2>3. deliveries[d].status = "outstanding" /\ active' = active
    BY <1>1, <1>8, <1>9 DEF Live
  <2>4. IsConsumer(deliveries[d].box, deliveries[d].gen)
    BY <1>8, <1>9, <2>2, <2>3 DEF Live, IsConsumer, Generation
  <2>5. Reader(d)' = Reader(d)
    BY <1>8, <2>2, <2>3 DEF Reader, Consumer
  <2> QED
    BY <2>3, <2>4, <2>5 DEF Live
<1>10. ASSUME NEW d \in DOMAIN deliveries PROVE Dated(d)'
  BY <1>3, <1>8 DEF DataOK, Dated
<1>11. ASSUME NEW d \in DOMAIN deliveries PROVE InPlace(d)'
  BY <1>1, <1>8, <1>9 DEF DataOK, InPlace
<1>12. \A box : Outstanding(box)' \subseteq Outstanding(box)
  BY <1>1, <1>7, <1>8 DEF Outstanding
<1>13. \A box : Outstanding(box) \subseteq DOMAIN deliveries
  BY DEF Outstanding
<1>14. OneBatch'
  BY <1>9, <1>12, <1>13 DEF OneBatch, DataOK
<1>15. \A d \in DOMAIN deliveries' : deliveries'[d].ids \subseteq DOMAIN msgs'
  BY <1>1, <1>7, <1>8 DEF DataOK
<1>16. DataOK'
  BY <1>1, <1>4, <1>7, <1>10, <1>11, <1>14, <1>15 DEF DataOK
<1>17. active' => active
  BY <1>1
<1>18. \A q \in Runs : runs'[q] = runs[q] \/ runs'[q].gen > runs[q].gen
  BY <1>3
<1> QED
  BY <1>7, <1>9, <1>16, <1>17, <1>18, Domains DEF Harmless

-----------------------------------------------------------------------------
(* The calls a step leaves.                                                *)

\* A call that is not being served carries no claim but on what it gives.
LEMMA PlainGood ==
  ASSUME NEW phase \in Phases \ Waiting, NEW pane \in Panes \cup {None},
         NEW give \in 0..Len(deliveries), NEW thru \in Nat, Len(deliveries) \in Nat,
         phase = "rerouting" => ~active,
         give # 0 /\ Live(give) => pane = Reader(give)
  PROVE  Plain(phase, pane, give, thru) \in GoodCalls
<1> DEFINE call == Plain(phase, pane, give, thru)
<1>1. /\ call.phase = phase /\ call.pane = pane /\ call.give = give
      /\ call \in [phase : Phases, pane : Panes \cup {None}, box : Boxes, gen : Nat,
                   ack : 0..Len(deliveries), give : 0..Len(deliveries), thru : Nat]
  BY DEF Plain, Boxes
<1>2. phase \notin Waiting /\ phase \notin {"residual", "drain"}
  BY DEF Waiting
<1> HIDE DEF call
<1> QED
  BY <1>1, <1>2 DEF GoodCalls, call

LEMMA Ended ==
  ASSUME DataOK
  PROVE  /\ Idle \in GoodCalls
         /\ ~active => \A n \in Nat : Plain("rerouting", None, 0, n) \in GoodCalls
<1>1. Len(deliveries) \in Nat /\ 0 \in 0..Len(deliveries) /\ None \in Panes \cup {None}
  BY Domains
<1>2. {"idle", "rerouting"} \subseteq Phases \ Waiting
  BY DEF Phases, Waiting
<1> QED
  BY <1>1, <1>2, PlainGood DEF Idle

\* A call that is being served goes on to another phase.
LEMMA GoesOn ==
  ASSUME DataOK, NEW call \in GoodCalls, call.phase \in Waiting, NEW phase \in Waiting,
         phase \in {"residual", "drain"} => call.box \in Runs /\ call.pane = Assignee
  PROVE  /\ [call EXCEPT !.phase = phase] \in GoodCalls
         /\ [call EXCEPT !.phase = phase, !.ack = 0] \in GoodCalls
<1>1. Waiting \subseteq Phases /\ 0 \in 0..Len(deliveries)
  BY Domains DEF Waiting, Phases
<1>2. ASSUME NEW ack \in 0..Len(deliveries)
      PROVE  [call EXCEPT !.phase = phase, !.ack = ack] \in GoodCalls
  <2>1. phase # "rerouting"
    BY DEF Waiting
  <2> QED
    BY <1>1, <2>1 DEF GoodCalls, Entitled
<1>3. [call EXCEPT !.phase = phase, !.ack = call.ack] = [call EXCEPT !.phase = phase]
      /\ call.ack \in 0..Len(deliveries)
  BY DEF GoodCalls
<1> QED
  BY <1>1, <1>2, <1>3

\* The waiters that are resolved were being served.
LEMMA Resolved ==
  ASSUME DataOK, NEW cs \in [Calls -> GoodCalls], NEW boxes, NEW phase \in {"woken", "ended"}
  PROVE  Resolve(cs, boxes, phase) \in [Calls -> GoodCalls]
<1> SUFFICES ASSUME NEW c \in Calls, cs[c].phase = "parked"
             PROVE  [cs[c] EXCEPT !.phase = phase] \in GoodCalls
  BY DEF Resolve
<1> QED
  BY GoesOn DEF Waiting

-----------------------------------------------------------------------------
(* Every step of a check keeps Core.                                       *)

LEMMA EndCore ==
  ASSUME Core, DataOK', Harmless, UNCHANGED held, NEW c \in Calls, End(c)
  PROVE  Core'
BY Ended, Advances DEF End, Core

LEMMA GotoCore ==
  ASSUME Core, DataOK', Harmless, UNCHANGED held, NEW c \in Calls,
         calls[c].phase \in Waiting, NEW phase \in Waiting,
         phase \in {"residual", "drain"} => calls[c].box \in Runs /\ calls[c].pane = Assignee,
         \/ Goto(c, phase)
         \/ calls' = [calls EXCEPT ![c].phase = phase, ![c].ack = 0]
  PROVE  Core'
<1>1. /\ [calls[c] EXCEPT !.phase = phase] \in GoodCalls
      /\ [calls[c] EXCEPT !.phase = phase, !.ack = 0] \in GoodCalls
  BY GoesOn DEF Core
<1>2. calls' \in [Calls -> GoodCalls]
  BY <1>1 DEF Goto, Core
<1> QED
  BY <1>2, Advances

\* What is handed out, is handed to the reader of its mailbox.
LEMMA HandOutCore ==
  ASSUME Core, UNCHANGED <<runs, active, msgs, held, binds, faults>>,
         NEW c \in Calls, NEW box \in Boxes, NEW gen \in Nat,
         IsConsumer(box, gen) => calls[c].pane = Consumer(box),
         HandOut(c, box, gen)
  PROVE  Core'
<1> DEFINE reply(d) == Plain("reply", calls[c].pane, d, 0)
<1>1. calls[c].pane \in Panes \cup {None} /\ calls[c].pane = Consumer(box)
  BY DEF HandOut, Refused, Core, GoodCalls
<1>2. CASE \E d \in Outstanding(box) : Reply(c, d) /\ UNCHANGED deliveries
  <2>1. PICK d \in Outstanding(box) : Reply(c, d) /\ UNCHANGED deliveries
    BY <1>2
  <2>2. d \in 0..Len(deliveries) /\ deliveries[d].box = box
    BY <2>1, Domains DEF Outstanding, Core
  <2>3. reply(d) \in GoodCalls
    <3>1. "reply" \in Phases \ Waiting
      BY DEF Phases, Waiting
    <3> QED
      BY <1>1, <2>2, <3>1, Domains, PlainGood DEF Core, Reader
  <2>4. calls' \in [Calls -> GoodCalls]
    BY <2>1, <2>3 DEF Reply, Core
  <2>5. DataOK' /\ Harmless
    BY <2>1, Quiet DEF Core, DataOK
  <2> QED
    BY <2>4, <2>5, Advances
<1>3. CASE /\ Outstanding(box) = {} /\ Unread(box) # {}
           /\ deliveries' = Append(deliveries,
                [box |-> box, gen |-> gen, ids |-> Page(Unread(box)), status |-> "outstanding"])
           /\ Reply(c, Len(deliveries) + 1)
  <2>1. /\ DataOK' /\ Harmless /\ Len(deliveries') = Len(deliveries) + 1
        /\ deliveries'[Len(deliveries) + 1].box = box
    BY <1>3, HandsOut DEF HandOut, Refused, Core
  <2>2. PICK d : d = Len(deliveries) + 1
    OBVIOUS
  <2>3. d \in Nat /\ d \in 0..Len(deliveries') /\ deliveries'[d].box = box
    BY <2>1, <2>2, Domains DEF Core
  <2>4. Reader(d)' = Consumer(box)
    BY <2>3 DEF Reader, Consumer
  <2>5. reply(d) \in GoodCalls'
    <3> DEFINE call == reply(d)
    <3>1. /\ call.phase = "reply" /\ call.pane = calls[c].pane /\ call.give = d
          /\ call \in [phase : Phases, pane : Panes \cup {None}, box : Boxes, gen : Nat,
                       ack : 0..Len(deliveries'), give : 0..Len(deliveries'), thru : Nat]
      BY <1>1, <2>1, <2>3, Domains DEF Plain, Phases, Boxes, Core
    <3>2. call.pane = Reader(d)'
      BY <1>1, <2>4, <3>1
    <3> HIDE DEF call
    <3>3. call \in GoodCalls'
      BY <3>1, <3>2 DEF GoodCalls, Waiting
    <3> QED
      BY <3>3 DEF call
  <2>6. calls' \in [Calls -> GoodCalls']
    <3>1. GoodCalls \subseteq GoodCalls'
      BY <2>1, CallsStay DEF Core
    <3>2. calls' = [calls EXCEPT ![c] = reply(d)]
      BY <1>3, <2>2 DEF Reply
    <3> QED
      BY <2>5, <3>1, <3>2 DEF Core
  <2>7. HeldOK'
    BY <2>1, HeldStays DEF Core
  <2> QED
    BY <2>1, <2>6, <2>7 DEF Core
<1> QED
  BY <1>2, <1>3 DEF HandOut

LEMMA CallTypes ==
  ASSUME Core, NEW c \in Calls
  PROVE  /\ calls[c] \in GoodCalls
         /\ calls[c].pane \in Panes \cup {None} /\ calls[c].box \in Boxes
         /\ calls[c].gen \in Nat /\ calls[c].thru \in Nat
         /\ calls[c].ack \in 0..Len(deliveries) /\ calls[c].give \in 0..Len(deliveries)
         /\ calls[c].ack # 0 => calls[c].ack \in DOMAIN deliveries
BY Domains DEF Core, GoodCalls

\* A step of a check that acknowledges its batch and goes on.
LEMMA AckCore ==
  ASSUME Core, UNCHANGED <<runs, active, held, binds, faults>>, NEW c \in Calls,
         calls[c].phase \in Waiting, NEW phase \in Waiting,
         phase \in {"residual", "drain"} => calls[c].box \in Runs /\ calls[c].pane = Assignee,
         \/ UNCHANGED <<msgs, deliveries>>
         \/ calls[c].ack # 0 /\ AckBatch(calls[c].ack, calls[c].pane),
         \/ End(c)
         \/ Goto(c, phase)
         \/ calls' = [calls EXCEPT ![c].phase = phase, ![c].ack = 0]
  PROVE  Core'
<1>1. DataOK' /\ Harmless
  BY Quiet, Acknowledges, CallTypes DEF Core, DataOK
<1> QED
  BY <1>1, EndCore, GotoCore

LEMMA AckRunCore ==
  ASSUME Core, NEW c \in Calls, AckRun(c)
  PROVE  Core'
<1> DEFINE next == IF DrainsResidual(calls[c]) THEN "residual" ELSE "read"
<1>1. calls[c].phase \in Waiting /\ next \in Waiting
  BY DEF AckRun, Waiting
<1>2. next \in {"residual", "drain"} => calls[c].box \in Runs /\ calls[c].pane = Assignee
  BY DEF AckRun, DrainsResidual, Residual
<1>3. UNCHANGED <<runs, active, held, binds, faults>>
  BY DEF AckRun
<1>4. /\ \/ UNCHANGED <<msgs, deliveries>>
         \/ calls[c].ack # 0 /\ AckBatch(calls[c].ack, calls[c].pane)
      /\ \/ End(c)
         \/ Goto(c, next)
         \/ calls' = [calls EXCEPT ![c].phase = next, ![c].ack = 0]
  BY DEF AckRun
<1> HIDE DEF next
<1> QED
  BY <1>1, <1>2, <1>3, <1>4, AckCore

\* Mail moves only from a Dispatch that is not active.
LEMMA RouteCore ==
  ASSUME Core, ~active, NEW c \in Calls, NEW through \in Nat, RoutePage(c, through),
         UNCHANGED <<runs, active, deliveries, held, binds, faults>>
  PROVE  Core'
<1>1. DataOK' /\ Harmless
  BY Reroutes DEF Core
<1>2. [calls EXCEPT ![c] = Idle] \in [Calls -> GoodCalls]
  BY Ended DEF Core
<1>3. [calls EXCEPT ![c] = Plain("rerouting", None, 0, through)] \in [Calls -> GoodCalls]
  BY Ended DEF Core
<1>4. Resolve([calls EXCEPT ![c] = Idle], {"R"}, "woken") \in [Calls -> GoodCalls]
  BY <1>2, Resolved DEF Core
<1>5. calls' \in [Calls -> GoodCalls]
  BY <1>3, <1>4 DEF RoutePage
<1> QED
  BY <1>1, <1>5, Advances

LEMMA InactiveCore ==
  ASSUME Core, NEW c \in Calls, DispatchInactive(c),
         UNCHANGED <<runs, active, held, binds, faults>>
  PROVE  Core'
<1>1. CASE Unread(X) = {}
  <2>1. DataOK' /\ Harmless
    BY <1>1, Quiet DEF DispatchInactive, Core, DataOK
  <2> QED
    BY <1>1, <2>1, EndCore DEF DispatchInactive
<1>2. CASE Unread(X) # {}
  BY <1>2, RouteCore, Domains DEF DispatchInactive, Core
<1> QED
  BY <1>1, <1>2

LEMMA AckDispatchCore ==
  ASSUME Core, UNCHANGED <<runs, active, held, binds, faults>>, NEW c \in Calls,
         calls[c].phase \in Waiting, NEW phase \in Waiting,
         phase \in {"residual", "drain"} => calls[c].box \in Runs /\ calls[c].pane = Assignee,
         AckDispatch(c, phase)
  PROVE  Core'
<1>1. CASE DispatchInactive(c)
  BY <1>1, InactiveCore
<1>2. CASE ~DispatchInactive(c)
  <2>1. /\ \/ UNCHANGED <<msgs, deliveries>>
           \/ calls[c].ack # 0 /\ AckBatch(calls[c].ack, calls[c].pane)
        /\ \/ End(c)
           \/ Goto(c, phase)
           \/ calls' = [calls EXCEPT ![c].phase = phase, ![c].ack = 0]
    BY <1>2 DEF AckDispatch
  <2> QED
    BY <2>1, AckCore
<1> QED
  BY <1>1, <1>2

LEMMA CheckWorkerCore ==
  ASSUME Core, NEW c \in Calls, CheckWorker(c)
  PROVE  Core'
BY AckDispatchCore DEF CheckWorker, Waiting

LEMMA DrainAckCore ==
  ASSUME Core, NEW c \in Calls, DrainAck(c)
  PROVE  Core'
<1>1. calls[c].box \in Runs /\ calls[c].pane = Assignee /\ calls[c].phase \in Waiting
  BY CallTypes DEF DrainAck, GoodCalls, Waiting
<1> QED
  BY <1>1, AckDispatchCore DEF DrainAck, Waiting

\* The pane that knows the current generation is the reader.
LEMMA ReaderOfCall ==
  ASSUME Core, NEW c \in Calls, calls[c].phase \in Waiting
  PROVE  IsConsumer(calls[c].box, calls[c].gen) => calls[c].pane = Consumer(calls[c].box)
<1>1. Entitled(calls[c]) /\ calls[c].box \in Boxes
  BY CallTypes DEF GoodCalls
<1> QED
  BY <1>1 DEF Entitled, IsConsumer, Generation, Consumer, BoundTo, Boxes

LEMMA DrainReadCore ==
  ASSUME Core, NEW c \in Calls, DrainRead(c)
  PROVE  Core'
<1>1. calls[c].phase \in Waiting /\ "read" \in Waiting /\ calls[c].pane = Assignee
  BY CallTypes DEF DrainRead, Waiting, GoodCalls
<1>2. IsConsumer(X, 1) => calls[c].pane = Consumer(X)
  BY <1>1 DEF IsConsumer, Consumer
<1>3. UNCHANGED <<runs, active, msgs, held, binds, faults>>
  BY DEF DrainRead
<1>4. CASE HandOut(c, X, 1)
  BY <1>2, <1>3, <1>4, HandOutCore DEF Boxes
<1>5. CASE UNCHANGED deliveries /\ (End(c) \/ Goto(c, "read"))
  <2>1. DataOK' /\ Harmless
    BY <1>3, <1>5, Quiet DEF Core, DataOK
  <2> QED
    BY <1>1, <1>3, <1>5, <2>1, EndCore, GotoCore
<1> QED
  BY <1>4, <1>5 DEF DrainRead

LEMMA ReadCore ==
  ASSUME Core, NEW c \in Calls, Read(c)
  PROVE  Core'
<1>1. calls[c].phase \in Waiting /\ {"parked", "ended"} \subseteq Waiting
  BY DEF Read, Waiting
<1>2. UNCHANGED <<runs, active, msgs, held, binds, faults>>
  BY DEF Read
<1>3. CASE HandOut(c, calls[c].box, calls[c].gen)
  BY <1>1, <1>2, <1>3, ReaderOfCall, CallTypes, HandOutCore
<1>4. CASE UNCHANGED deliveries /\ (End(c) \/ Goto(c, "parked") \/ Goto(c, "ended"))
  <2>1. DataOK' /\ Harmless
    BY <1>2, <1>4, Quiet DEF Core, DataOK
  <2>2. CASE End(c)
    BY <1>2, <2>1, <2>2, EndCore
  <2>3. CASE Goto(c, "parked")
    BY <1>1, <1>2, <2>1, <2>3, GotoCore
  <2>4. CASE Goto(c, "ended")
    BY <1>1, <1>2, <2>1, <2>4, GotoCore
  <2> QED
    BY <1>4, <2>2, <2>3, <2>4
<1> QED
  BY <1>3, <1>4 DEF Read, Park

LEMMA WakeUpCore ==
  ASSUME Core, NEW c \in Calls, WakeUp(c)
  PROVE  Core'
<1>1. calls[c].phase \in Waiting
  BY DEF WakeUp, Waiting
<1>2. UNCHANGED <<runs, active, held, binds, faults>>
  BY DEF WakeUp
<1>3. CASE DispatchInactive(c)
  BY <1>2, <1>3, InactiveCore
<1>4. CASE HandOut(c, calls[c].box, calls[c].gen) /\ UNCHANGED msgs
  BY <1>1, <1>2, <1>4, ReaderOfCall, CallTypes, HandOutCore
<1>5. CASE End(c) /\ UNCHANGED <<msgs, deliveries>>
  <2>1. DataOK' /\ Harmless
    BY <1>2, <1>5, Quiet DEF Core, DataOK
  <2> QED
    BY <1>2, <1>5, <2>1, EndCore
<1> QED
  BY <1>3, <1>4, <1>5 DEF WakeUp

LEMMA TimeoutCore ==
  ASSUME Core, NEW c \in Calls, Timeout(c)
  PROVE  Core'
<1>1. DataOK' /\ Harmless
  BY Quiet DEF Timeout, Core, DataOK
<1> QED
  BY <1>1, GotoCore DEF Timeout, Waiting

LEMMA RerouteCore ==
  ASSUME Core, NEW c \in Calls, Reroute(c)
  PROVE  Core'
BY CallTypes, RouteCore DEF Reroute, GoodCalls

\* The pane that gets the answer is the one the batch is meant for.
LEMMA AnswerCore ==
  ASSUME Core, NEW c \in Calls, Answer(c)
  PROVE  Core'
<1>1. UNCHANGED <<runs, active, msgs, deliveries, binds, faults>>
  BY DEF Answer
<1>2. DataOK' /\ Harmless
  BY <1>1, Quiet DEF Core, DataOK
<1>3. HeldOK'
  <2>1. held' = [held EXCEPT ![calls[c].pane] = calls[c].give]
    BY DEF Answer
  <2>2. held \in [Panes -> 0..Len(deliveries)] /\ calls[c].give \in 0..Len(deliveries)
    BY CallTypes DEF Core, HeldOK
  <2>3. held' \in [Panes -> 0..Len(deliveries')]
    BY <1>1, <2>1, <2>2
  <2>4. \A d : Live(d)' = Live(d) /\ Reader(d)' = Reader(d)
    BY <1>1 DEF Live, IsConsumer, Generation, Reader, Consumer
  <2>5. calls[c].give # 0 /\ Live(calls[c].give) => calls[c].pane = Reader(calls[c].give)
    BY CallTypes DEF GoodCalls
  <2>6. ASSUME NEW p \in Panes, held'[p] # 0, Live(held'[p]) PROVE p = Reader(held'[p])
    <3>1. CASE p = calls[c].pane
      BY <2>1, <2>2, <2>5, <2>6, <3>1
    <3>2. CASE p # calls[c].pane
      BY <2>1, <2>2, <2>6, <3>2 DEF Core, HeldOK
    <3> QED
      BY <3>1, <3>2
  <2> QED
    BY <2>3, <2>4, <2>6 DEF HeldOK
<1>4. calls' \in [Calls -> GoodCalls]
  BY Ended DEF Answer, End, Core
<1>5. calls' \in [Calls -> GoodCalls']
  BY <1>2, <1>4, CallsStay DEF Core
<1> QED
  BY <1>2, <1>3, <1>5 DEF Core

LEMMA LoseAnswerCore ==
  ASSUME Core, NEW c \in Calls, LoseAnswer(c)
  PROVE  Core'
<1>1. binds' \in Nat /\ faults' \in Nat
  BY DEF LoseAnswer, Core, DataOK
<1>2. DataOK' /\ Harmless
  BY <1>1, Quiet DEF LoseAnswer, Core
<1> QED
  BY <1>2, EndCore DEF LoseAnswer

-----------------------------------------------------------------------------
(* So does everything else.                                                *)

\* A check starts as the reader of the mailbox it picks.
LEMMA BeginCore ==
  ASSUME Core, NEW c \in Calls, NEW p \in Panes, NEW ack \in {0, held[p]}, Begin(c, p, ack)
  PROVE  Core'
<1>1. UNCHANGED <<runs, active, msgs, deliveries, held, binds, faults>>
  BY DEF Begin
<1>2. DataOK' /\ Harmless
  BY <1>1, Quiet DEF Core, DataOK
<1>3. PICK box \in Boxes :
        /\ \/ box \in Runs /\ BoundTo(p, box)
           \/ box = X /\ active /\ p = Assignee /\ \A r \in Runs : ~BoundTo(p, r)
        /\ calls' = [calls EXCEPT ![c] =
             [phase |-> "called", pane |-> p, box |-> box, gen |-> Generation(box),
              ack |-> ack, give |-> 0, thru |-> 0]]
  BY DEF Begin
<1>4. Generation(box) \in Nat /\ ack \in 0..Len(deliveries) /\ 0 \in 0..Len(deliveries)
  BY <1>3, Domains DEF Generation, Boxes, Core, DataOK, HeldOK
<1> DEFINE call == [phase |-> "called", pane |-> p, box |-> box, gen |-> Generation(box),
                    ack |-> ack, give |-> 0, thru |-> 0]
<1>5. /\ call.phase = "called" /\ call.pane = p /\ call.box = box
      /\ call.gen = Generation(box) /\ call.give = 0
      /\ call \in [phase : Phases, pane : Panes \cup {None}, box : Boxes, gen : Nat,
                   ack : 0..Len(deliveries), give : 0..Len(deliveries), thru : Nat]
  BY <1>4 DEF Phases
<1>6. calls' = [calls EXCEPT ![c] = call]
  BY <1>3
<1> HIDE DEF call
<1>7. Entitled(call)
  <2>1. X \notin Runs
    BY DEF X, Runs
  <2> QED
    BY <1>3, <1>4, <1>5, <2>1 DEF Entitled, Generation
<1>8. call \in GoodCalls
  BY <1>5, <1>7 DEF GoodCalls
<1>9. calls' \in [Calls -> GoodCalls]
  BY <1>6, <1>8 DEF Core
<1> QED
  BY <1>1, <1>2, <1>9, Advances

LEMMA SendCore ==
  ASSUME Core, NEW to \in Boxes, Send(to)
  PROVE  Core'
<1> DEFINE box == IF to = X /\ "S" \in AssigneeRuns THEN "S" ELSE to
<1>1. box \in Boxes
  BY DEF Boxes, Runs
<1>2. /\ msgs' = Append(msgs, [box |-> box, by |-> None])
      /\ calls' = Resolve(calls, {box}, "woken")
      /\ UNCHANGED <<runs, active, deliveries, held, binds, faults>>
  BY DEF Send
<1> HIDE DEF box
<1>3. DataOK' /\ Harmless
  BY <1>1, <1>2, Sends DEF Core
<1>4. calls' \in [Calls -> GoodCalls]
  BY <1>2, Resolved DEF Core
<1> QED
  BY <1>2, <1>3, <1>4, Advances

LEMMA BindCore ==
  ASSUME Core, NEW p \in Panes, NEW r \in Runs, NEW fresh \in BOOLEAN, Bind(p, r, fresh)
  PROVE  Core'
<1>1. DataOK' /\ Harmless /\ UNCHANGED held
  BY Binds DEF Core, Bind
<1>2. calls' \in [Calls -> GoodCalls]
  BY Resolved DEF Bind, Core
<1> QED
  BY <1>1, <1>2, Advances

LEMMA SettleCore ==
  ASSUME Core, Settle
  PROVE  Core'
<1>1. DataOK' /\ Harmless
  BY Settles DEF Core, Settle
<1> QED
  BY <1>1, Advances DEF Settle, Core

LEMMA RestartCore ==
  ASSUME Core, Restart
  PROVE  Core'
<1>1. binds' \in Nat /\ faults' \in Nat
  BY DEF Restart, Core, DataOK
<1>2. DataOK' /\ Harmless
  BY <1>1, Quiet DEF Restart, Core
<1>3. calls' \in [Calls -> GoodCalls]
  BY Ended DEF Restart, Core
<1> QED
  BY <1>2, <1>3, Advances DEF Restart

LEMMA InitCore == Init => Core
<1> SUFFICES ASSUME Init PROVE Core
  OBVIOUS
<1>1. Len(deliveries) = 0 /\ DOMAIN deliveries = {} /\ deliveries \in Seq(Delivery)
  BY DEF Init
<1>2. msgs \in Seq(Message)
  BY DEF Init
<1>3. runs \in [Runs -> [coord : Panes \cup {None}, gen : Nat]]
  BY MailboxAssumption DEF Init, Runs
<1>4. OneBatch
  BY <1>1 DEF OneBatch, Outstanding
<1>5. DataOK
  BY <1>1, <1>2, <1>3, <1>4 DEF DataOK, Init
<1>6. HeldOK
  BY <1>1 DEF HeldOK, Init
<1>7. calls \in [Calls -> GoodCalls]
  BY <1>5, Ended DEF Init
<1> QED
  BY <1>5, <1>6, <1>7 DEF Core

LEMMA StepCore ==
  ASSUME Core, NEW c \in Calls, Step(c)
  PROVE  Core'
BY AckRunCore, CheckWorkerCore, DrainAckCore, DrainReadCore, ReadCore, WakeUpCore,
   TimeoutCore, AnswerCore, RerouteCore DEF Step

LEMMA NextCore == Core /\ [Next]_vars => Core'
<1> SUFFICES ASSUME Core, [Next]_vars PROVE Core'
  OBVIOUS
<1>1. CASE \E c \in Calls : Step(c) \/ LoseAnswer(c)
  BY <1>1, StepCore, LoseAnswerCore
<1>2. CASE \E c \in Calls, p \in Panes : \E ack \in {0, held[p]} : Begin(c, p, ack)
  BY <1>2, BeginCore
<1>3. CASE \E box \in Boxes : Send(box)
  BY <1>3, SendCore
<1>4. CASE \E p \in Panes : CreateRun(p) \/ \E r \in Runs, new \in BOOLEAN : UseRun(p, r, new)
  <2>1. ASSUME NEW p \in Panes, CreateRun(p) PROVE Core'
    BY <2>1, BindCore DEF CreateRun, Runs
  <2>2. ASSUME NEW p \in Panes, NEW r \in Runs, NEW new \in BOOLEAN, UseRun(p, r, new)
        PROVE  Core'
    <3>1. (~BoundTo(p, r) \/ new) \in BOOLEAN
      OBVIOUS
    <3> QED
      BY <2>2, <3>1, BindCore DEF UseRun
  <2> QED
    BY <1>4, <2>1, <2>2
<1>5. CASE Settle
  BY <1>5, SettleCore
<1>6. CASE Restart
  BY <1>6, RestartCore
<1>7. CASE UNCHANGED vars
  <2>1. DataOK' /\ Harmless
    BY <1>7, Quiet DEF vars, Core, DataOK
  <2> QED
    BY <1>7, <2>1, Advances DEF vars, Core
<1> QED
  BY <1>1, <1>2, <1>3, <1>4, <1>5, <1>6, <1>7 DEF Next

\* The strengthening holds in every state the mailboxes can be in.
THEOREM CoreHolds == Spec => []Core
BY InitCore, NextCore, PTL DEF Spec

-----------------------------------------------------------------------------
(* The properties.                                                         *)

\* Every variable keeps the values it is meant to have, and no delivery, call
\* or pane names a delivery that does not exist.
THEOREM TypeCorrect == Spec => []TypeOK
<1>1. Core => TypeOK
  <2> SUFFICES ASSUME Core PROVE TypeOK
    OBVIOUS
  <2>1. calls \in [Calls -> [phase : Phases, pane : Panes \cup {None}, box : Boxes, gen : Nat,
                            ack : 0..Len(deliveries), give : 0..Len(deliveries), thru : Nat]]
    BY DEF Core, GoodCalls
  <2> QED
    BY <2>1 DEF TypeOK, Core, DataOK, HeldOK, Message, Delivery, Status
<1> QED
  BY <1>1, CoreHolds, PTL

\* A batch that can still be acknowledged is held by the reader of its mailbox
\* and by nobody else, however often the Run changes hands.
THEOREM SoleHolderHolds == Spec => []SoleHolder
<1>1. Core => SoleHolder
  <2> SUFFICES ASSUME Core, NEW d \in DOMAIN deliveries, Live(d)
               PROVE  /\ \A p \in Panes : held[p] = d => p = Reader(d)
                      /\ \A c \in Calls : calls[c].give = d => calls[c].pane = Reader(d)
    BY DEF SoleHolder, Reader
  <2>1. d # 0
    BY Domains DEF Core
  <2>2. \A c \in Calls : calls[c].give = d => calls[c].pane = Reader(d)
    BY <2>1 DEF Core, GoodCalls
  <2> QED
    BY <2>1, <2>2 DEF Core, HeldOK
<1> QED
  BY <1>1, CoreHolds, PTL

\* No batch handed out to a replaced reader keeps the new one from its mail.
THEOREM NotLockedOutHolds == Spec => []NotLockedOut
<1>1. Core => NotLockedOut
  BY DEF NotLockedOut, Core, DataOK, Dated, Outstanding
<1> QED
  BY <1>1, CoreHolds, PTL

\* No unread message is in two batches that can be acknowledged, also when
\* mail moves from a settled Dispatch to its Run.
THEOREM NoDoubleHandoutHolds == Spec => []NoDoubleHandout
<1>1. Core => NoDoubleHandout
  <2> SUFFICES ASSUME Core, NEW d \in DOMAIN deliveries, NEW e \in DOMAIN deliveries,
                      Live(d), Live(e), NEW i \in deliveries[d].ids \cap deliveries[e].ids,
                      msgs[i].by = None
               PROVE  d = e
    BY DEF NoDoubleHandout
  <2>1. msgs[i].box = deliveries[d].box /\ msgs[i].box = deliveries[e].box
    BY DEF Core, DataOK, InPlace
  <2>2. deliveries[d] \in Delivery
    BY ElementOfSeq, Domains DEF Core, DataOK
  <2>3. d \in Outstanding(deliveries[d].box) /\ e \in Outstanding(deliveries[d].box)
    BY <2>1 DEF Outstanding, Live
  <2> QED
    BY <2>2, <2>3 DEF OneBatch, Core, DataOK, Delivery
<1> QED
  BY <1>1, CoreHolds, PTL

ReadByOwner ==
  \A i \in DOMAIN msgs : msgs[i].by = None /\ msgs'[i].by # None =>
    /\ msgs'[i].by = Consumer(msgs[i].box)
    /\ \E c \in Calls : /\ calls[c].pane = msgs'[i].by /\ calls[c].ack # 0
                        /\ i \in deliveries[calls[c].ack].ids

\* An accepted acknowledgment reads mail of the mailbox it was accepted for.
LEMMA AckReads ==
  ASSUME Core, NEW c \in Calls, NEW box \in Boxes, NEW gen, calls[c].ack # 0,
         AckAllowed(box, gen, calls[c].ack), calls[c].pane = Consumer(box),
         AckBatch(calls[c].ack, calls[c].pane)
  PROVE  ReadByOwner
<1> DEFINE d == calls[c].ack
<1>1. CASE UNCHANGED msgs
  BY <1>1 DEF ReadByOwner
<1>2. CASE deliveries[d].status # "acknowledged"
  <2>1. d \in DOMAIN deliveries /\ deliveries[d] \in Delivery
    BY CallTypes, Domains, ElementOfSeq DEF Core, DataOK
  <2>2. Live(d) /\ deliveries[d].box = box
    BY <1>2, <2>1 DEF AckAllowed, Live, Delivery, Status
  <2>3. ASSUME NEW i \in DOMAIN msgs, msgs[i].by = None, msgs'[i].by # None
        PROVE  i \in deliveries[d].ids /\ msgs'[i].by = calls[c].pane
    <3>1. msgs[i] \in Message
      BY Domains, ElementOfSeq DEF Core, DataOK
    <3> QED
      BY <1>2, <2>3, <3>1 DEF AckBatch, Message
  <2>4. ASSUME NEW i \in DOMAIN msgs, msgs[i].by = None, msgs'[i].by # None
        PROVE  msgs'[i].by = Consumer(msgs[i].box)
    BY <2>1, <2>2, <2>3, <2>4 DEF Core, DataOK, InPlace
  <2> QED
    BY <2>3, <2>4 DEF ReadByOwner
<1> QED
  BY <1>1, <1>2 DEF AckBatch

\* Mail that moves stays as read as it was.
LEMMA RouteReads ==
  ASSUME Core, NEW c, NEW through, RoutePage(c, through)
  PROVE  ReadByOwner
<1>1. \A i \in DOMAIN msgs : msgs[i] \in Message
  BY Domains, ElementOfSeq DEF Core, DataOK
<1>2. \A i \in DOMAIN msgs : msgs'[i].by = msgs[i].by
  BY <1>1 DEF RoutePage, Message
<1> QED
  BY <1>2 DEF ReadByOwner

LEMMA AckDispatchReads ==
  ASSUME Core, NEW c \in Calls, NEW phase, AckDispatch(c, phase),
         calls[c].pane = Assignee
  PROVE  ReadByOwner
<1>1. CASE UNCHANGED msgs
  BY <1>1 DEF ReadByOwner
<1>2. CASE DispatchInactive(c)
  BY <1>1, <1>2, RouteReads DEF DispatchInactive
<1>3. CASE /\ active /\ calls[c].ack # 0 /\ AckAllowed(X, 1, calls[c].ack)
           /\ AckBatch(calls[c].ack, calls[c].pane)
  BY <1>3, AckReads DEF Consumer, Boxes
<1> QED
  BY <1>1, <1>2, <1>3 DEF AckDispatch

\* A message becomes read only by the reader of the mailbox it is in, as part
\* of the batch that reader was given and named.
THEOREM AckByOwnerHolds == Spec => AckByOwner
<1>1. Core /\ [Next]_vars => [ReadByOwner]_vars
  <2> SUFFICES ASSUME Core, Next PROVE ReadByOwner
    OBVIOUS
  <2>1. CASE UNCHANGED msgs
    BY <2>1 DEF ReadByOwner
  <2>2. ASSUME NEW c \in Calls, AckRun(c) PROVE ReadByOwner
    <3>1. CASE /\ calls[c].ack # 0 /\ AckAllowed(calls[c].box, calls[c].gen, calls[c].ack)
               /\ AckBatch(calls[c].ack, calls[c].pane)
      <4>1. calls[c].pane = Consumer(calls[c].box) /\ calls[c].box \in Boxes
        BY <2>2, <3>1, ReaderOfCall, CallTypes DEF AckRun, AckAllowed, Waiting
      <4> QED
        BY <3>1, <4>1, AckReads
    <3> QED
      BY <2>1, <2>2, <3>1 DEF AckRun
  <2>3. ASSUME NEW c \in Calls, CheckWorker(c) PROVE ReadByOwner
    <3>1. calls[c].pane = Assignee
      BY <2>3, CallTypes DEF CheckWorker, GoodCalls, Entitled, Waiting
    <3> QED
      BY <2>3, <3>1, AckDispatchReads DEF CheckWorker
  <2>4. ASSUME NEW c \in Calls, DrainAck(c) PROVE ReadByOwner
    <3>1. calls[c].pane = Assignee
      BY <2>4, CallTypes DEF DrainAck, GoodCalls
    <3> QED
      BY <2>4, <3>1, AckDispatchReads DEF DrainAck
  <2>5. ASSUME NEW c \in Calls, Reroute(c) \/ WakeUp(c) PROVE ReadByOwner
    BY <2>1, <2>5, RouteReads DEF Reroute, WakeUp, DispatchInactive
  <2>6. ASSUME NEW box \in Boxes, Send(box) PROVE ReadByOwner
    <3>1. PICK mail : msgs' = Append(msgs, mail)
      BY <2>6 DEF Send
    <3>2. msgs \in Seq(Message) /\ Len(msgs) \in Nat /\ DOMAIN msgs = 1..Len(msgs)
      BY Domains DEF Core, DataOK
    <3>3. \A i \in DOMAIN msgs : msgs'[i] = msgs[i]
      BY <3>1, <3>2
    <3> QED
      BY <3>3 DEF ReadByOwner
  <2>7. ASSUME NEW c \in Calls,
               \/ DrainRead(c) \/ Read(c) \/ Timeout(c) \/ Answer(c) \/ LoseAnswer(c)
               \/ \E p \in Panes : \E ack \in {0, held[p]} : Begin(c, p, ack)
        PROVE  ReadByOwner
    BY <2>1, <2>7 DEF DrainRead, Read, Timeout, Answer, LoseAnswer, Begin
  <2>8. CASE \/ \E p \in Panes : CreateRun(p) \/ \E r \in Runs, new \in BOOLEAN : UseRun(p, r, new)
             \/ Settle \/ Restart
    BY <2>1, <2>8 DEF CreateRun, UseRun, Bind, Settle, Restart
  <2> QED
    BY <2>2, <2>3, <2>4, <2>5, <2>6, <2>7, <2>8 DEF Next, Step
<1> QED
  BY <1>1, CoreHolds, PTL DEF Spec, AckByOwner, ReadByOwner

=============================================================================
