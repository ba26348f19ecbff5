----------------------- MODULE PtySourceCreditProofs -----------------------
(***************************************************************************)
(* The safety of PtySourceCredit for every output, window and bound.       *)
(*                                                                         *)
(* What a client will make of a frame depends on the frames before it that *)
(* are still in flight.  Reaches says where a client that follows a        *)
(* delivery stands after the first n frames of the wire; the invariant     *)
(* Good says that each data frame starts there, that the ledger's own      *)
(* front is where the last one ends, and that a completed recovery and an  *)
(* exit frame come behind all that they announce.  Good speaks of a state  *)
(* of the relay and one of the client, so that each operator on the        *)
(* relay's state has one lemma: it keeps Good.  The callbacks compose      *)
(* them, and their proofs do.                                              *)
(***************************************************************************)
EXTENDS PtySourceCredit, SequenceTheorems, WellFoundedInduction, TLAPS

Stages   == {"active", "sealed", "closed"}
ExitSts  == {"idle", "pending", "published"}
Phases   == {"none", "attaching", "recovering", "live", "ended", "gone"}
Optional == Nat \cup {None}
Ledger == [tok : Nat, conn : Nat, st : Stages, recv : Nat, sent : Nat, cred : Nat,
           bounds : SUBSET Nat, pend : Optional, resAck : Optional, att : Optional,
           activating : BOOLEAN, recEnd : Optional, completing : BOOLEAN,
           restore : BOOLEAN, exitSt : ExitSts, refused : BOOLEAN]
Relay  == [d : Ledger, conn : Nat, open : BOOLEAN, full : BOOLEAN, made : Nat, taken : Nat,
           timer : BOOLEAN, draining : BOOLEAN, exit : {"no", "pending", "done"},
           died : BOOLEAN, faulted : BOOLEAN, tokens : Nat, wire : Seq(Frames)]
Client == [up : BOOLEAN, phase : Phases, tok : Nat, next : Nat, upto : Nat,
           ends : SUBSET Nat, ckpt : [tok : Nat, end : Nat], bad : {FALSE}]

-----------------------------------------------------------------------------
(* The ledger. *)

\* The offsets in order, as far as the chunks go.
Offsets(s) ==
    /\ s.d.cred <= s.d.sent /\ s.d.sent <= s.d.recv /\ s.d.recv <= s.taken
    /\ s.taken <= s.made /\ s.made <= Max(Ends)
    /\ s.made \in {0} \cup Ends /\ s.taken \in {0} \cup Ends
    /\ s.d.tok # 0 => s.d.recv = s.taken

\* What lies ahead of the last committed end, and only a live link can send it.
Ahead(s) ==
    /\ s.d.bounds \subseteq s.d.cred..s.d.sent
    /\ s.d.pend # None => /\ Own(s) /\ s.d.sent < s.d.pend /\ s.d.pend <= s.d.recv
    /\ s.d.resAck # None => /\ s.d.sent < s.d.resAck /\ s.d.resAck <= s.d.recv
                            /\ Own(s) => s.d.resAck = s.d.pend
    /\ s.d.att # None => s.d.att <= s.d.recv

\* The fence is at the end of a chunk, unless it has been reached.
Recovery(s) ==
    /\ s.d.recEnd # None => /\ s.d.sent <= s.d.recEnd /\ s.d.recEnd <= s.d.recv
                            /\ s.d.sent < s.d.recEnd => s.d.recEnd \in Ends
                            /\ s.d.pend # None => s.d.pend <= s.d.recEnd

\* The exit frame of a delivery follows all of the output.
Exiting(s) ==
    /\ s.d.exitSt # "idle" => /\ s.exit # "no" /\ s.d.sent = s.made
    /\ s.d.exitSt = "pending" => s.exit = "pending" /\ Own(s)
    /\ s.d.restore => ~Own(s)

Numbers(s) ==
    /\ s.d.tok <= s.tokens /\ s.tokens <= MaxTokens
    /\ s.d.conn <= s.conn /\ s.conn <= MaxConns /\ s.conn # 0
    /\ s.d.tok = 0 => s.d = NoDelivery

LedgerOK(s) == /\ s \in Relay /\ Offsets(s) /\ Ahead(s) /\ Recovery(s)
               /\ Exiting(s) /\ Numbers(s)

-----------------------------------------------------------------------------
(* The wire. *)

Response(f)   == f.kind \in {"opened", "pending"}
Carries(f, t) == f.kind \in {"opened", "pending", "data"} /\ f.tok = t
At(f)         == IF f.kind = "data" THEN f.end ELSE f.start

Follows(c, t) == c.phase \in {"recovering", "live"} /\ c.tok = t

\* Where a client that follows delivery t is after the first n frames.
Reaches(w, c, t, n, e) ==
    \/ \E i \in 1..n : /\ Carries(w[i], t) /\ At(w[i]) = e
                       /\ \A k \in i + 1..n : ~Carries(w[k], t)
    \/ /\ \A k \in 1..n : ~Carries(w[k], t)
       /\ Follows(c, t) => c.next = e

\* The client follows t by then.
Hears(w, c, t, n) == Follows(c, t) \/ \E i \in 1..n : Response(w[i]) /\ w[i].tok = t

\* A response is awaited, comes before the delivery's frames, and is the only
\* one; no exit frame is in front of it.
Responses(w, c) ==
    \A i \in DOMAIN w : w[i].kind \in {"opened", "pending", "restore"} =>
        /\ c.phase = "attaching"
        /\ \A j \in DOMAIN w : w[j].kind \in {"opened", "pending", "restore"} => j = i
        /\ \A j \in 1..i - 1 :
              /\ w[j].kind # "exit"
              /\ w[j].kind \in {"data", "complete"} /\ w[i].kind # "restore" => w[j].tok # w[i].tok

Contiguous(w, c) ==
    \A j \in DOMAIN w : w[j].kind = "data" => Reaches(w, c, w[j].tok, j - 1, w[j].start)

\* A recovery completes where its response said.
Completes(w, c) ==
    \A j \in DOMAIN w : w[j].kind = "complete" =>
        \E e \in Nat :
            /\ Reaches(w, c, w[j].tok, j - 1, e)
            /\ \A i \in 1..j - 1 : w[i].kind = "pending" /\ w[i].tok = w[j].tok => w[i].upto = e
            /\ c.phase = "recovering" /\ c.tok = w[j].tok => c.upto = e

\* The exit was given away by a fault, after which data may be missing.
Loose(s) == s.faulted

\* A client that hears the exit has everything.
Ending(s, c) ==
    \A j \in DOMAIN s.wire : s.wire[j].kind = "exit" =>
        /\ s.exit # "no"
        /\ Loose(s) \/ \A t \in Nat : Hears(s.wire, c, t, j - 1) => Reaches(s.wire, c, t, j - 1, s.made)

WireOK(s, c) ==
    /\ \A i \in DOMAIN s.wire :
          s.wire[i].kind \in {"opened", "pending", "data", "complete"} => s.wire[i].tok <= s.tokens
    /\ Responses(s.wire, c) /\ Contiguous(s.wire, c) /\ Completes(s.wire, c) /\ Ending(s, c)

-----------------------------------------------------------------------------
(* The ledger and the wire. *)

Edge(d) == IF d.pend # None THEN d.pend ELSE d.sent

\* The last frame of the delivery ends at its front.
Joined(s, c) == Own(s) => Reaches(s.wire, c, s.d.tok, Len(s.wire), Edge(s.d))

\* What the client has, or will have, of the delivery.
Known(s, c, e) ==
    \/ \E i \in DOMAIN s.wire : Carries(s.wire[i], s.d.tok) /\ e = At(s.wire[i])
    \/ Follows(c, s.d.tok) /\ e \in c.ends \cup {c.next}

Credit(s, c) ==
    \A e \in Nat : Known(s, c, e) =>
        /\ e <= s.d.cred + Window
        /\ Own(s) /\ e > s.d.cred => e \in Ackable(s.d)

\* The fence is where the client was told.
Fence(s, c) ==
    Own(s) /\ s.d.recEnd # None =>
        /\ \A i \in DOMAIN s.wire :
              s.wire[i].kind = "pending" /\ s.wire[i].tok = s.d.tok => s.wire[i].upto = s.d.recEnd
        /\ c.phase = "recovering" /\ c.tok = s.d.tok => c.upto = s.d.recEnd

\* Until the exit is done, a client that is to hear of it is the owner of the
\* delivery.
Owned(s) == Own(s) /\ (s.d.exitSt = "idle" => s.d.st # "closed")
Audience(s, c) ==
    s.open /\ s.exit # "done" /\ ~Loose(s) =>
        \A t \in Nat : Hears(s.wire, c, t, Len(s.wire)) => Owned(s) /\ t = s.d.tok

ClientOK(s, c) ==
    /\ c \in Client /\ c.tok <= s.tokens
    /\ c.phase \in {"recovering", "live"} => c.tok # 0
    /\ ~c.up => c.phase \notin {"recovering", "live", "attaching"}
    /\ c.phase = "ended" => s.exit # "no" /\ (c.next = s.made \/ Loose(s))

Good(s, c) ==
    /\ LedgerOK(s) /\ ClientOK(s, c) /\ WireOK(s, c)
    /\ Joined(s, c) /\ Credit(s, c) /\ Fence(s, c) /\ Audience(s, c)

\* Between two callbacks.
Told(s) == s.d.exitSt = "published" => s.exit = "done"
Rest(s) == ~s.draining /\ Told(s) /\ (s.died => Wide # {})

IInv == Good(relay, client) /\ Rest(relay) /\ fills \in 0..MaxFills

-----------------------------------------------------------------------------
(* The chunks. *)

\* A set of naturals has a least element.
LEMMA LeastNat ==
  ASSUME NEW T, T \subseteq Nat, T # {}
  PROVE  \E x \in T : \A y \in T : x <= y
<1> DEFINE Less == {ss \in Nat \X Nat : ss[1] < ss[2]}
<1>1. IsWellFoundedOn(Less, Nat)
  BY NatLessThanWellFounded DEF OpToRel
<1> HIDE DEF Less
<1>2. PICK x \in T : \A y \in T : ~(<<y, x>> \in Less)
  BY <1>1, WFMin
<1>3. ASSUME NEW a \in Nat, NEW b \in Nat, a < b PROVE <<a, b>> \in Less
  BY <1>3 DEF Less
<1>4. ASSUME NEW y \in T PROVE x <= y
  <2>1. ~(y < x)
    BY <1>2, <1>3
  <2> QED
    BY <2>1
<1> QED
  BY <1>4

LEMMA MinTwo ==
  ASSUME NEW a \in Int, NEW b \in Int
  PROVE  Min({a, b}) = IF a <= b THEN a ELSE b
<1> DEFINE m == IF a <= b THEN a ELSE b
<1>1. m \in {a, b} /\ \A y \in {a, b} : m <= y
  OBVIOUS
<1>2. Min({a, b}) \in {a, b} /\ \A y \in {a, b} : Min({a, b}) <= y
  BY <1>1 DEF Min
<1> QED
  BY <1>1, <1>2

LEMMA Limits ==
  /\ Window \in Nat /\ Window # 0 /\ FrameMax \in Nat /\ FrameMax # 0
  /\ MaxConns \in Nat /\ MaxTokens \in Nat /\ MaxFills \in Nat
BY PtyAssumption

LEMMA EndsOK ==
  /\ Ends \subseteq Nat \ {0}
  /\ Max(Ends) \in Ends /\ Max(Ends) \in Nat
  /\ \A e \in Ends : e <= Max(Ends)
  /\ Offset \subseteq Nat /\ \A e \in Nat : e <= Max(Ends) => e \in Offset
<1>1. /\ Chunks \in Seq(Nat \ {0}) /\ Len(Chunks) \in Nat /\ Len(Chunks) # 0
      /\ DOMAIN Chunks = 1..Len(Chunks)
  BY PtyAssumption, LenProperties, EmptySeq
<1>2. \A i \in 1..Len(Chunks) : Chunks[i] \in Nat \ {0}
  BY <1>1, ElementOfSeq
<1>3. Ends \subseteq Nat \ {0} /\ Chunks[Len(Chunks)] \in Ends
  BY <1>1, <1>2 DEF Ends, Range
<1>4. ASSUME NEW e \in Ends PROVE e <= Chunks[Len(Chunks)]
  <2>1. PICK i \in 1..Len(Chunks) : e = Chunks[i]
    BY <1>1 DEF Ends, Range
  <2>2. CASE i = Len(Chunks)
    BY <1>1, <1>2, <2>1, <2>2
  <2>3. CASE i # Len(Chunks)
    <3>0. PICK n \in Nat : n = Len(Chunks)
      BY <1>1
    <3>1. i < Len(Chunks) /\ Len(Chunks) \in 1..Len(Chunks)
      <4>1. n # 0 /\ i \in 1..n /\ i # n
        BY <1>1, <2>1, <2>3, <3>0
      <4>2. i < n /\ n \in 1..n
        BY <4>1
      <4> QED
        BY <3>0, <4>2
    <3>2. Chunks[i] < Chunks[Len(Chunks)]
      BY <1>1, <3>1, PtyAssumption
    <3>3. Chunks[i] \in Nat /\ Chunks[Len(Chunks)] \in Nat
      BY <1>2, <3>1
    <3> QED
      BY <2>1, <3>2, <3>3
  <2> QED
    BY <2>2, <2>3
<1>5. Max(Ends) \in Ends /\ \A y \in Ends : Max(Ends) >= y
  BY <1>3, <1>4 DEF Max
<1>6. Max(Ends) \in Nat /\ \A y \in Ends : y <= Max(Ends)
  BY <1>3, <1>5
<1>7. ASSUME NEW m \in Nat PROVE 0..m \subseteq Nat /\ \A e \in Nat : e <= m => e \in 0..m
  OBVIOUS
<1>8. 0..Max(Ends) \subseteq Nat /\ \A e \in Nat : e <= Max(Ends) => e \in 0..Max(Ends)
  BY <1>6, <1>7
<1>9. Offset \subseteq Nat /\ \A e \in Nat : e <= Max(Ends) => e \in Offset
  <2>1. PICK z : z = 0..Max(Ends)
    OBVIOUS
  <2>2. z \subseteq Nat /\ (\A e \in Nat : e <= Max(Ends) => e \in z) /\ Offset = {0} \cup Ends \cup z
    BY <1>8, <2>1 DEF Offset
  <2> QED
    BY <1>3, <2>2
<1> QED
  BY <1>3, <1>5, <1>6, <1>9

LEMMA NextEndOK ==
  ASSUME NEW p \in Nat, p < Max(Ends)
  PROVE  /\ NextEnd(p) \in Ends /\ NextEnd(p) \in Nat /\ p < NextEnd(p)
         /\ \A e \in Ends : p < e => NextEnd(p) <= e
<1> DEFINE T == {e \in Ends : e > p}
<1>1. T \subseteq Nat /\ T # {}
  BY EndsOK
<1>2. \E x \in T : \A y \in T : x <= y
  BY <1>1, LeastNat
<1>3. Min(T) \in T /\ \A y \in T : Min(T) <= y
  BY <1>2 DEF Min
<1> QED
  BY <1>1, <1>3 DEF NextEnd

-----------------------------------------------------------------------------
(* Frames and the wire. *)

LEMMA FrameFacts ==
  ASSUME NEW f \in Frames
  PROVE  /\ f.kind \in {"opened", "pending", "data", "complete", "restore", "exit"}
         /\ f.kind \in {"opened", "pending"} => f.start \in Nat /\ f.upto \in Nat
         /\ f.kind = "data" => f.start \in Nat /\ f.end \in Nat
         /\ f.kind \in {"opened", "pending", "data", "complete"} => f.tok \in Nat /\ f.tok # 0
         /\ f.kind \in {"opened", "pending", "data"} => At(f) \in Nat
<1>0. Offset \subseteq Nat /\ 1..MaxTokens \subseteq Nat \ {0}
  BY EndsOK, Limits
<1>1. CASE f \in [kind : {"opened", "pending"}, tok : 1..MaxTokens, start : Offset, upto : Offset]
  BY <1>0, <1>1 DEF At
<1>2. CASE f \in [kind : {"data"}, tok : 1..MaxTokens, start : Offset, end : Offset]
  BY <1>0, <1>2 DEF At
<1>3. CASE f \in [kind : {"complete"}, tok : 1..MaxTokens]
  BY <1>0, <1>3
<1>4. CASE f \in [kind : {"restore", "exit"}]
  BY <1>4
<1> QED
  BY <1>1, <1>2, <1>3, <1>4 DEF Frames

LEMMA WireFacts ==
  ASSUME NEW w \in Seq(Frames)
  PROVE  Len(w) \in Nat /\ DOMAIN w = 1..Len(w) /\ \A i \in 1..Len(w) : w[i] \in Frames
BY LenProperties, ElementOfSeq

\* What is reached depends on the first frames and on a client that follows.
LEMMA ReachesSame ==
  ASSUME NEW w, NEW v, NEW b, NEW c, NEW t, NEW n \in Nat, NEW e,
         \A i \in 1..n : v[i] = w[i],
         Follows(b, t) => Follows(c, t) /\ b.next = c.next,
         Reaches(w, c, t, n, e)
  PROVE  Reaches(v, b, t, n, e)
BY DEF Reaches

LEMMA HearsSame ==
  ASSUME NEW w, NEW v, NEW b, NEW c, NEW t, NEW n \in Nat,
         \A i \in 1..n : v[i] = w[i],
         Follows(b, t) => Follows(c, t), Hears(v, b, t, n)
  PROVE  Hears(w, c, t, n)
BY DEF Hears

-----------------------------------------------------------------------------
(* A change of the relay's own state. *)

Hushed(s, t) ==
  /\ t.wire = s.wire /\ t.tokens = s.tokens
  /\ t.d.tok \in {0, s.d.tok} /\ (t.d.tok # 0 => s.d.cred <= t.d.cred)
  /\ Own(t) => /\ Own(s) /\ t.d.tok = s.d.tok /\ Edge(t.d) = Edge(s.d)
               /\ t.d.recEnd \in {None, s.d.recEnd}
               /\ \A e \in Ackable(s.d) : e > t.d.cred => e \in Ackable(t.d)
  /\ t.made = s.made \/ s.exit = "no"
  /\ s.exit # "no" => t.exit # "no"
  /\ Loose(s) => Loose(t)

Quiet(s, t) ==
  /\ Hushed(s, t)
  /\ t.open /\ t.exit # "done" /\ ~Loose(t)
     => s.open /\ s.exit # "done" /\ (Owned(s) => Owned(t) /\ t.d.tok = s.d.tok)

LEMMA HushedOK ==
  ASSUME NEW s, NEW t, NEW c, Good(s, c), LedgerOK(t), Hushed(s, t), Audience(t, c)
  PROVE  Good(t, c)
<1>1. /\ s \in Relay /\ t \in Relay /\ s.d \in Ledger /\ t.d \in Ledger
      /\ s.wire \in Seq(Frames) /\ s.tokens \in Nat
  BY DEF Good, LedgerOK, Relay
<1>2. /\ Len(s.wire) \in Nat /\ DOMAIN s.wire = 1..Len(s.wire)
      /\ \A i \in 1..Len(s.wire) : s.wire[i] \in Frames
  BY <1>1, WireFacts
<1>3. ClientOK(t, c)
  BY DEF Hushed, Good, ClientOK
<1>4. Ending(t, c)
  BY DEF Hushed, Good, WireOK, Ending
<1>5. WireOK(t, c)
  BY <1>4 DEF Hushed, Good, WireOK
<1>6. Joined(t, c)
  BY DEF Hushed, Good, Joined
<1>7. Fence(t, c)
  BY DEF Hushed, Good, Fence
<1>9. Credit(t, c)
  <2> SUFFICES ASSUME NEW e \in Nat, Known(t, c, e)
               PROVE  /\ e <= t.d.cred + Window
                      /\ Own(t) /\ e > t.d.cred => e \in Ackable(t.d)
    BY DEF Credit
  <2>1. t.d.tok # 0
    <3>1. \A i \in DOMAIN t.wire : ~Carries(t.wire[i], 0)
      BY <1>2, FrameFacts DEF Carries, Hushed
    <3>2. ~Follows(c, 0)
      BY DEF Good, ClientOK, Follows
    <3> QED
      BY <3>1, <3>2 DEF Known
  <2>2. Known(s, c, e) /\ t.d.tok = s.d.tok
    BY <2>1 DEF Hushed, Known
  <2>3. e <= s.d.cred + Window /\ (Own(s) /\ e > s.d.cred => e \in Ackable(s.d))
    BY <2>2 DEF Good, Credit
  <2>4. s.d.cred \in Nat /\ t.d.cred \in Nat /\ s.d.cred <= t.d.cred /\ Window \in Nat
    BY <1>1, <2>1, PtyAssumption DEF Ledger, Hushed
  <2> QED
    BY <2>3, <2>4 DEF Hushed
<1> QED
  BY <1>3, <1>5, <1>6, <1>7, <1>9 DEF Good

LEMMA QuietOK ==
  ASSUME NEW s, NEW t, NEW c, Good(s, c), LedgerOK(t), Quiet(s, t)
  PROVE  Good(t, c)
<1>1. Audience(t, c)
  BY DEF Quiet, Hushed, Good, Audience
<1> QED
  BY <1>1, HushedOK DEF Quiet

-----------------------------------------------------------------------------
(* A frame more on the wire. *)

LEMMA AppendFacts ==
  ASSUME NEW w \in Seq(Frames), NEW f \in Frames, NEW v, v = Append(w, f)
  PROVE  /\ v \in Seq(Frames) /\ Len(w) \in Nat /\ Len(v) = Len(w) + 1
         /\ DOMAIN w = 1..Len(w) /\ DOMAIN v = 1..Len(w) + 1
         /\ v[Len(w) + 1] = f /\ \A i \in 1..Len(w) : v[i] = w[i]
BY AppendProperties, LenProperties

\* A response is the only one, output starts where the last frame ended, and a
\* recovery completes where its response said.
Fits(s, c, f) ==
  /\ f.kind \in {"opened", "pending", "restore"} =>
       /\ c.phase = "attaching"
       /\ \A i \in DOMAIN s.wire :
             /\ s.wire[i].kind \in {"data", "complete"}
             /\ f.kind # "restore" => s.wire[i].tok # f.tok
  /\ f.kind = "data" => Reaches(s.wire, c, f.tok, Len(s.wire), f.start)
  /\ f.kind = "complete" =>
       \E e \in Nat :
         /\ Reaches(s.wire, c, f.tok, Len(s.wire), e)
         /\ \A i \in DOMAIN s.wire : s.wire[i].kind = "pending" /\ s.wire[i].tok = f.tok => s.wire[i].upto = e
         /\ c.phase = "recovering" /\ c.tok = f.tok => c.upto = e

Kept(s, c, f, v) ==
  /\ Responses(v, c) /\ Contiguous(v, c) /\ Completes(v, c)
  /\ \A t, e : \A n \in 0..Len(s.wire) : Reaches(s.wire, c, t, n, e) => Reaches(v, c, t, n, e)
  /\ \A t : \A n \in 0..Len(s.wire) : Hears(v, c, t, n) <=> Hears(s.wire, c, t, n)
  /\ \A t : Hears(v, c, t, Len(v)) =>
       Hears(s.wire, c, t, Len(s.wire)) \/ (Response(f) /\ f.tok = t)

LEMMA AppendKeeps ==
  ASSUME NEW s, NEW c, Good(s, c), NEW f \in Frames, NEW v, v = Append(s.wire, f), Fits(s, c, f)
  PROVE  Kept(s, c, f, v)
<1>1. s.wire \in Seq(Frames)
  BY DEF Good, LedgerOK, Relay
<1>2. PICK w : w = s.wire
  OBVIOUS
<1>3. PICK n \in Nat : n = Len(w)
  BY <1>1, <1>2, LenProperties
<1>4. /\ v \in Seq(Frames) /\ Len(v) = n + 1 /\ DOMAIN w = 1..n /\ DOMAIN v = 1..n + 1
      /\ v[n + 1] = f /\ \A i \in 1..n : v[i] = w[i]
  BY <1>1, <1>2, <1>3, AppendFacts
<1>5. ASSUME NEW t, NEW e, NEW k \in 0..n, Reaches(w, c, t, k, e) PROVE Reaches(v, c, t, k, e)
  <2>1. k \in Nat /\ \A i \in 1..k : v[i] = w[i]
    BY <1>4
  <2> QED
    BY <1>5, <2>1, ReachesSame
<1>6. ASSUME NEW t, NEW k \in 0..n PROVE Hears(v, c, t, k) <=> Hears(w, c, t, k)
  BY <1>4, <1>6 DEF Hears
<1>7. ASSUME NEW t, Hears(v, c, t, n + 1)
      PROVE  Hears(w, c, t, n) \/ (Response(f) /\ f.tok = t)
  BY <1>3, <1>4, <1>7 DEF Hears
<1>8. Responses(v, c)
  <2> SUFFICES ASSUME NEW i \in 1..n + 1, v[i].kind \in {"opened", "pending", "restore"}
               PROVE  /\ c.phase = "attaching"
                      /\ \A j \in 1..n + 1 : v[j].kind \in {"opened", "pending", "restore"} => j = i
                      /\ \A j \in 1..i - 1 :
                            /\ v[j].kind # "exit"
                            /\ v[j].kind \in {"data", "complete"} /\ v[i].kind # "restore" => v[j].tok # v[i].tok
    BY <1>4 DEF Responses
  <2>0. CASE i = n + 1
    <3>1. /\ c.phase = "attaching"
          /\ \A j \in 1..n : /\ w[j].kind \in {"data", "complete"}
                             /\ f.kind # "restore" => w[j].tok # f.tok
      BY <1>2, <1>4, <2>0 DEF Fits
    <3>2. \A j \in 1..n : v[j] = w[j]
      BY <1>4
    <3>3. \A j \in 1..n + 1 : j \in 1..n \/ j = n + 1
      OBVIOUS
    <3> QED
      BY <1>4, <2>0, <3>1, <3>2, <3>3
  <2> SUFFICES ASSUME i # n + 1
               PROVE  /\ c.phase = "attaching"
                      /\ \A j \in 1..n + 1 : v[j].kind \in {"opened", "pending", "restore"} => j = i
                      /\ \A j \in 1..i - 1 :
                            /\ v[j].kind # "exit"
                            /\ v[j].kind \in {"data", "complete"} /\ v[i].kind # "restore" => v[j].tok # v[i].tok
    BY <2>0
  <2>1. i \in 1..n
    OBVIOUS
  <2>2. Responses(w, c)
    BY <1>2 DEF Good, WireOK
  <2>3. ASSUME NEW j \in 1..n + 1, v[j].kind \in {"opened", "pending", "restore"} PROVE j = i
    <3>1. c.phase = "attaching" /\ w[i].kind \in {"opened", "pending", "restore"}
      BY <1>4, <2>1, <2>2 DEF Responses
    <3>2. f.kind \notin {"opened", "pending", "restore"}
      BY <1>2, <1>4, <2>1, <3>1 DEF Fits
    <3>3. j \in 1..n
      BY <1>4, <2>3, <3>2
    <3> QED
      BY <1>4, <2>1, <2>2, <2>3, <3>3 DEF Responses
  <2>4. w[i].kind \in {"opened", "pending", "restore"} /\ v[i] = w[i] /\ i \in DOMAIN w
    BY <1>4, <2>1
  <2>5. /\ c.phase = "attaching"
        /\ \A j \in 1..i - 1 :
              /\ w[j].kind # "exit"
              /\ w[j].kind \in {"data", "complete"} /\ w[i].kind # "restore" => w[j].tok # w[i].tok
    BY <2>2, <2>4 DEF Responses
  <2>6. \A j \in 1..i - 1 : v[j] = w[j]
    BY <1>4, <2>1
  <2> QED
    BY <2>3, <2>4, <2>5, <2>6
<1>9. Contiguous(v, c)
  <2> SUFFICES ASSUME NEW j \in 1..n + 1, v[j].kind = "data"
               PROVE  Reaches(v, c, v[j].tok, j - 1, v[j].start)
    BY <1>4 DEF Contiguous
  <2>1. CASE j = n + 1
    BY <1>2, <1>3, <1>4, <1>5, <2>1 DEF Fits
  <2>2. CASE j # n + 1
    <3>1. j \in 1..n /\ j - 1 \in 0..n
      BY <2>2
    <3>2. Reaches(w, c, w[j].tok, j - 1, w[j].start)
      BY <1>2, <1>4, <3>1 DEF Good, WireOK, Contiguous
    <3> QED
      BY <1>4, <1>5, <3>1, <3>2
  <2> QED
    BY <2>1, <2>2
<1>10. Completes(v, c)
  <2> SUFFICES ASSUME NEW j \in 1..n + 1, v[j].kind = "complete"
               PROVE  \E e \in Nat :
                        /\ Reaches(v, c, v[j].tok, j - 1, e)
                        /\ \A i \in 1..j - 1 : v[i].kind = "pending" /\ v[i].tok = v[j].tok => v[i].upto = e
                        /\ c.phase = "recovering" /\ c.tok = v[j].tok => c.upto = e
    BY <1>4 DEF Completes
  <2>1. CASE j = n + 1
    <3>1. PICK e \in Nat :
             /\ Reaches(w, c, f.tok, n, e)
             /\ \A i \in 1..n : w[i].kind = "pending" /\ w[i].tok = f.tok => w[i].upto = e
             /\ c.phase = "recovering" /\ c.tok = f.tok => c.upto = e
      BY <1>2, <1>3, <1>4, <2>1 DEF Fits
    <3> QED
      BY <1>4, <1>5, <2>1, <3>1
  <2>2. CASE j # n + 1
    <3>1. j \in 1..n /\ j - 1 \in 0..n /\ \A i \in 1..j - 1 : i \in 1..n
      BY <2>2
    <3>2. PICK e \in Nat :
             /\ Reaches(w, c, w[j].tok, j - 1, e)
             /\ \A i \in 1..j - 1 : w[i].kind = "pending" /\ w[i].tok = w[j].tok => w[i].upto = e
             /\ c.phase = "recovering" /\ c.tok = w[j].tok => c.upto = e
      BY <1>2, <1>4, <2>2, <3>1 DEF Good, WireOK, Completes
    <3> QED
      BY <1>4, <1>5, <3>1, <3>2
  <2> QED
    BY <2>1, <2>2
<1> QED
  BY <1>2, <1>3, <1>4, <1>5, <1>6, <1>7, <1>8, <1>9, <1>10 DEF Kept

-----------------------------------------------------------------------------
(* What the pump sends. *)

\* What the relay's operators leave alone.
Same(s, t) ==
  /\ t.draining = s.draining /\ t.taken = s.taken /\ t.made = s.made
  /\ t.open = s.open /\ t.conn = s.conn /\ t.full = s.full
  /\ (s.exit = "no" <=> t.exit = "no") /\ (Told(s) => Told(t))

LEMMA SameTwice ==
  ASSUME NEW r, NEW s, NEW t, Same(r, s), Same(s, t)
  PROVE  Same(r, t)
BY DEF Same

LEMMA OwnTok ==
  ASSUME NEW s, LedgerOK(s), Own(s)
  PROVE  s.d.tok # 0
BY DEF LedgerOK, Own, Numbers, NoDelivery

\* What no operator changes but by sending.
Alike(s, t) ==
  /\ t \in Relay /\ t.wire = s.wire /\ t.tokens = s.tokens /\ t.conn = s.conn /\ t.open = s.open
  /\ t.full = s.full /\ t.made = s.made /\ t.taken = s.taken /\ t.draining = s.draining

\* A change of the delivery, and of nothing else.
WithD(s, e) == [s EXCEPT !.d = e]

LEMMA SetD ==
  ASSUME NEW s \in Relay, NEW e \in Ledger
  PROVE  LET t == WithD(s, e) IN
         /\ Alike(s, t) /\ t.d = e /\ t.timer = s.timer
         /\ t.exit = s.exit /\ t.died = s.died /\ t.faulted = s.faulted
BY DEF Relay, Alike, WithD

\* A frame is in flight.
InFlight(d, end) == [d EXCEPT !.pend = end, !.att = end, !.refused = FALSE]

LEMMA LedgerPend ==
  ASSUME NEW d \in Ledger, NEW end \in Nat
  PROVE  LET e == InFlight(d, end) IN
         /\ e \in Ledger
         /\ e.tok = d.tok /\ e.conn = d.conn /\ e.st = d.st /\ e.recv = d.recv
         /\ e.sent = d.sent /\ e.cred = d.cred /\ e.bounds = d.bounds /\ e.pend = end
         /\ e.resAck = d.resAck /\ e.att = end /\ e.recEnd = d.recEnd
         /\ e.completing = d.completing /\ e.restore = d.restore /\ e.exitSt = d.exitSt
<1>1. InFlight(d, end) \in Ledger
  BY Zenon DEF Ledger, Optional, InFlight
<1> QED
  BY <1>1 DEF Ledger, InFlight

\* A frame that fits, on a live link, while none is in flight.
LEMMA SendDataOK ==
  ASSUME NEW s, NEW c, Good(s, c), Own(s), s.d.pend = None, NEW end \in Nat,
         s.d.sent < end, end <= s.d.recv, end <= s.d.cred + Window,
         s.d.recEnd # None => end <= s.d.recEnd,
         NEW t,
         t = [Sent(s, [kind |-> "data", tok |-> s.d.tok, start |-> s.d.sent, end |-> end])
                EXCEPT !.d.pend = end, !.d.att = end, !.d.refused = FALSE]
  PROVE  Good(t, c) /\ Same(s, t)
<1> DEFINE f == [kind |-> "data", tok |-> s.d.tok, start |-> s.d.sent, end |-> end]
           v == Append(s.wire, f)
<1>1. /\ LedgerOK(s) /\ s \in Relay /\ s.d \in Ledger /\ s.wire \in Seq(Frames) /\ s.d.tok # 0
      /\ Offsets(s) /\ Ahead(s) /\ Recovery(s) /\ Exiting(s) /\ Numbers(s)
  BY OwnTok DEF Good, LedgerOK, Relay
<1>2. f \in Frames
  <2>1. s.d.tok \in 1..MaxTokens
    BY <1>1, Limits DEF Ledger, Relay, Numbers
  <2>2. s.d.sent \in Offset /\ end \in Offset
    <3>1. /\ s.d.sent \in Nat /\ s.d.recv \in Nat /\ s.taken \in Nat /\ s.made \in Nat
          /\ Max(Ends) \in Nat
      BY <1>1, EndsOK DEF Ledger, Relay
    <3>2. s.d.sent <= Max(Ends) /\ end <= Max(Ends)
      BY <1>1, <3>1 DEF Offsets
    <3> QED
      BY <3>1, <3>2, EndsOK
  <2> QED
    BY <2>1, <2>2 DEF Frames
<1>3. /\ v \in Seq(Frames) /\ Len(v) = Len(s.wire) + 1 /\ Len(s.wire) \in Nat
      /\ DOMAIN s.wire = 1..Len(s.wire) /\ DOMAIN v = 1..Len(s.wire) + 1
      /\ v[Len(s.wire) + 1] = f /\ \A i \in 1..Len(s.wire) : v[i] = s.wire[i]
  BY <1>1, <1>2, AppendFacts
<1>4. f.kind = "data" /\ f.tok = s.d.tok /\ f.start = s.d.sent /\ f.end = end /\ At(f) = end
  BY DEF At
<1>5. Reaches(s.wire, c, f.tok, Len(s.wire), f.start)
  BY <1>4 DEF Good, Joined, Edge
<1> HIDE DEF f
<1>6. /\ Responses(v, c) /\ Contiguous(v, c) /\ Completes(v, c)
      /\ \A u, e : \A n \in 0..Len(s.wire) : Reaches(s.wire, c, u, n, e) => Reaches(v, c, u, n, e)
      /\ \A u : \A n \in 0..Len(s.wire) : Hears(v, c, u, n) <=> Hears(s.wire, c, u, n)
      /\ \A u : Hears(v, c, u, Len(v)) =>
           Hears(s.wire, c, u, Len(s.wire)) \/ (Response(f) /\ f.tok = u)
  <2>1. Fits(s, c, f)
    BY <1>4, <1>5 DEF Fits
  <2> QED
    BY <1>2, <2>1, AppendKeeps DEF Kept
<1> HIDE DEF v
<1>7. /\ t.d \in Ledger /\ t \in Relay /\ t.wire = v
      /\ t.d.tok = s.d.tok /\ t.d.conn = s.d.conn /\ t.d.st = s.d.st /\ t.d.recv = s.d.recv
      /\ t.d.sent = s.d.sent /\ t.d.cred = s.d.cred /\ t.d.bounds = s.d.bounds /\ t.d.pend = end
      /\ t.d.resAck = s.d.resAck /\ t.d.att = end /\ t.d.recEnd = s.d.recEnd
      /\ t.d.completing = s.d.completing /\ t.d.restore = s.d.restore /\ t.d.exitSt = s.d.exitSt
  <2>1. t.wire = v /\ t.d = [s.d EXCEPT !.pend = end, !.att = end, !.refused = FALSE]
    BY <1>1 DEF Sent, f, v, Relay
  <2>2. PICK e : e = InFlight(s.d, end)
    OBVIOUS
  <2>4. t.d = e
    BY <2>1, <2>2 DEF InFlight
  <2>5. /\ e \in Ledger
        /\ e.tok = s.d.tok /\ e.conn = s.d.conn /\ e.st = s.d.st /\ e.recv = s.d.recv
        /\ e.sent = s.d.sent /\ e.cred = s.d.cred /\ e.bounds = s.d.bounds /\ e.pend = end
        /\ e.resAck = s.d.resAck /\ e.att = end /\ e.recEnd = s.d.recEnd
        /\ e.completing = s.d.completing /\ e.restore = s.d.restore /\ e.exitSt = s.d.exitSt
    BY <1>1, <2>2, LedgerPend
  <2>6. t \in Relay
    BY <1>1, <1>3, <2>1, <2>4, <2>5 DEF Sent, Relay
  <2> QED
    BY <2>1, <2>4, <2>5, <2>6
<1>8. /\ t.conn = s.conn /\ t.open = s.open /\ t.full = s.full /\ t.made = s.made /\ t.taken = s.taken
      /\ t.draining = s.draining /\ t.exit = s.exit /\ t.died = s.died
      /\ t.faulted = s.faulted /\ t.tokens = s.tokens
  BY <1>1 DEF Sent, Relay
<1>9. Own(t)
  BY <1>7, <1>8 DEF Own
<1>10. LedgerOK(t)
  <2>1. /\ end \in Nat /\ s.d.sent \in Nat /\ s.d.cred \in Nat /\ s.d.recv \in Nat /\ s.made \in Nat
        /\ s.taken \in Nat /\ s.d.recEnd \in Nat \cup {None}
    BY <1>1 DEF Ledger, Relay, Optional
  <2>2. s.d.resAck = None
    BY <1>1 DEF Ahead
  <2>3. Offsets(t)
    BY <1>1, <1>7, <1>8 DEF Offsets
  <2>4. Ahead(t)
    BY <1>1, <1>7, <1>9, <2>1, <2>2 DEF Ahead, None
  <2>5. Recovery(t)
    BY <1>1, <1>7, <2>1 DEF Recovery
  <2>6. Exiting(t)
    BY <1>1, <1>7, <1>8, <1>9 DEF Exiting
  <2>7. Numbers(t)
    BY <1>1, <1>7, <1>8 DEF Numbers
  <2> QED
    BY <1>7, <2>3, <2>4, <2>5, <2>6, <2>7 DEF LedgerOK
<1>11. ClientOK(t, c)
  BY <1>8 DEF Good, ClientOK, Loose
<1>12. WireOK(t, c)
  <2>1. Ending(t, c)
    <3> SUFFICES ASSUME NEW j \in 1..Len(s.wire) + 1, v[j].kind = "exit"
                 PROVE  /\ s.exit # "no"
                        /\ Loose(s) \/ \A u \in Nat : Hears(v, c, u, j - 1) => Reaches(v, c, u, j - 1, s.made)
      BY <1>3, <1>7, <1>8 DEF Ending, Loose
    <3>1. j \in 1..Len(s.wire) /\ j - 1 \in 0..Len(s.wire)
      <4>1. PICK n \in Nat : n = Len(s.wire)
        BY <1>3
      <4>2. j # n + 1 /\ j \in 1..n + 1
        BY <1>3, <1>4, <4>1
      <4>3. j \in 1..n /\ j - 1 \in 0..n
        BY <4>2
      <4> QED
        BY <4>1, <4>3
    <3>2. /\ s.exit # "no"
          /\ Loose(s) \/ \A u \in Nat : Hears(s.wire, c, u, j - 1) => Reaches(s.wire, c, u, j - 1, s.made)
      BY <1>3, <3>1 DEF Good, WireOK, Ending
    <3> QED
      BY <1>6, <3>1, <3>2
  <2>2. ASSUME NEW i \in 1..Len(s.wire) + 1, v[i].kind \in {"opened", "pending", "data", "complete"}
        PROVE  v[i].tok <= s.tokens
    <3>1. CASE i \in 1..Len(s.wire)
      BY <1>3, <2>2, <3>1 DEF Good, WireOK
    <3>2. CASE i = Len(s.wire) + 1
      BY <1>1, <1>3, <1>4, <3>2 DEF Numbers
    <3> QED
      BY <1>3, <3>1, <3>2
  <2> QED
    BY <1>3, <1>6, <1>7, <1>8, <2>1, <2>2 DEF WireOK
<1>13. Joined(t, c)
  <2>1. Edge(t.d) = end
    BY <1>7 DEF Edge, None
  <2>2. Reaches(v, c, s.d.tok, Len(v), end)
    <3>1. Len(v) \in 1..Len(v) /\ v[Len(v)] = f /\ Carries(f, s.d.tok)
      BY <1>3, <1>4 DEF Carries
    <3>2. \A k \in Len(v) + 1..Len(v) : FALSE
      BY <1>3
    <3> QED
      BY <1>4, <3>1, <3>2 DEF Reaches
  <2> QED
    BY <1>7, <2>1, <2>2 DEF Joined
<1>14. Credit(t, c)
  <2> SUFFICES ASSUME NEW e \in Nat, Known(t, c, e)
               PROVE  e <= s.d.cred + Window /\ (e > s.d.cred => e \in Ackable(t.d))
    BY <1>7, <1>9 DEF Credit
  <2>1. CASE e = end
    BY <1>7, <2>1 DEF Ackable, None
  <2>2. CASE e # end
    <3>1. Known(s, c, e)
      <4>1. CASE Follows(c, s.d.tok) /\ e \in c.ends \cup {c.next}
        BY <4>1 DEF Known
      <4>2. CASE \E i \in 1..Len(s.wire) + 1 : Carries(v[i], s.d.tok) /\ e = At(v[i])
        <5>1. PICK i \in 1..Len(s.wire) + 1 : Carries(v[i], s.d.tok) /\ e = At(v[i])
          BY <4>2
        <5>2. i # Len(s.wire) + 1
          BY <1>3, <1>4, <2>2, <5>1
        <5>3. i \in 1..Len(s.wire)
          BY <1>3, <5>2
        <5> QED
          BY <1>3, <5>1, <5>3 DEF Known
      <4> QED
        BY <1>3, <1>7, <4>1, <4>2 DEF Known
    <3>2. e <= s.d.cred + Window /\ (e > s.d.cred => e \in Ackable(s.d))
      BY <3>1 DEF Good, Credit
    <3>3. s.d.resAck = None
      BY <1>1 DEF Ahead
    <3> QED
      BY <1>7, <3>2, <3>3 DEF Ackable
  <2> QED
    BY <2>1, <2>2
<1>15. Fence(t, c)
  <2> SUFFICES ASSUME s.d.recEnd # None
               PROVE  /\ \A i \in 1..Len(s.wire) + 1 :
                           v[i].kind = "pending" /\ v[i].tok = s.d.tok => v[i].upto = s.d.recEnd
                      /\ c.phase = "recovering" /\ c.tok = s.d.tok => c.upto = s.d.recEnd
    BY <1>3, <1>7 DEF Fence
  <2>1. \A i \in 1..Len(s.wire) + 1 : v[i].kind = "pending" => i \in 1..Len(s.wire)
    BY <1>3, <1>4
  <2> QED
    BY <1>3, <2>1 DEF Good, Fence
<1>16. Audience(t, c)
  <2> SUFFICES ASSUME s.open, s.exit # "done", ~Loose(s), NEW u \in Nat, Hears(v, c, u, Len(v))
               PROVE  Owned(t) /\ u = s.d.tok
    BY <1>7, <1>8 DEF Audience, Loose
  <2>1. Owned(s) /\ u = s.d.tok
    BY <1>4, <1>6 DEF Good, Audience, Response
  <2> QED
    BY <1>7, <1>9, <2>1 DEF Owned
<1>17. Same(s, t)
  BY <1>7, <1>8 DEF Same, Told
<1> QED
  BY <1>10, <1>11, <1>12, <1>13, <1>14, <1>15, <1>16, <1>17 DEF Good

LEMMA SentFacts ==
  ASSUME NEW s \in Relay, NEW f \in Frames
  PROVE  LET t == Sent(s, f) IN
         /\ t \in Relay /\ t.d = s.d /\ t.wire = Append(s.wire, f) /\ t.tokens = s.tokens
         /\ t.conn = s.conn /\ t.open = s.open /\ t.full = s.full /\ t.made = s.made
         /\ t.taken = s.taken /\ t.timer = s.timer /\ t.draining = s.draining
         /\ t.exit = s.exit /\ t.died = s.died /\ t.faulted = s.faulted
<1>1. Append(s.wire, f) \in Seq(Frames)
  BY AppendFacts DEF Relay
<1> QED
  BY <1>1 DEF Sent, Relay

\* Whoever will hear an exit frame sent now has everything before it.
Complete(s, c) ==
  Loose(s) \/ \A u \in Nat : Hears(s.wire, c, u, Len(s.wire)) =>
                             Reaches(s.wire, c, u, Len(s.wire), s.made)

\* A frame that carries no output and starts no delivery.
LEMMA SendNoticeOK ==
  ASSUME NEW s, NEW c, Good(s, c), NEW f \in Frames, f.kind \in {"complete", "restore", "exit"},
         Fits(s, c, f), f.kind = "complete" => f.tok <= s.tokens,
         f.kind = "exit" => s.exit # "no" /\ Complete(s, c)
  PROVE  Good(Sent(s, f), c)
<1>0. PICK v : v = Append(s.wire, f)
  OBVIOUS
<1>1. /\ LedgerOK(s) /\ s \in Relay /\ s.wire \in Seq(Frames)
  BY DEF Good, LedgerOK, Relay
<1>2. PICK t : t = Sent(s, f)
  OBVIOUS
<1>3. /\ t \in Relay /\ t.d = s.d /\ t.wire = v /\ t.tokens = s.tokens
      /\ t.conn = s.conn /\ t.open = s.open /\ t.full = s.full /\ t.made = s.made
      /\ t.taken = s.taken /\ t.exit = s.exit /\ t.faulted = s.faulted
  BY <1>0, <1>1, <1>2, SentFacts
<1>4. /\ v \in Seq(Frames) /\ Len(v) = Len(s.wire) + 1 /\ Len(s.wire) \in Nat
      /\ DOMAIN s.wire = 1..Len(s.wire) /\ DOMAIN v = 1..Len(s.wire) + 1
      /\ v[Len(s.wire) + 1] = f /\ \A i \in 1..Len(s.wire) : v[i] = s.wire[i]
  BY <1>0, <1>1, AppendFacts
<1>5. /\ Responses(v, c) /\ Contiguous(v, c) /\ Completes(v, c)
      /\ \A u, e : \A n \in 0..Len(s.wire) : Reaches(s.wire, c, u, n, e) => Reaches(v, c, u, n, e)
      /\ \A u : \A n \in 0..Len(s.wire) : Hears(v, c, u, n) <=> Hears(s.wire, c, u, n)
      /\ \A u : Hears(v, c, u, Len(v)) =>
           Hears(s.wire, c, u, Len(s.wire)) \/ (Response(f) /\ f.tok = u)
  <2>1. Kept(s, c, f, v)
    BY <1>0, AppendKeeps
  <2> QED
    BY <2>1 DEF Kept
<1>6. PICK n \in Nat : n = Len(s.wire)
  BY <1>4
<1>7. ~Response(f) /\ \A u : ~Carries(f, u)
  BY DEF Response, Carries
<1>8. LedgerOK(t)
  BY <1>1, <1>3 DEF LedgerOK, Offsets, Ahead, Recovery, Exiting, Numbers, Own
<1>9. ClientOK(t, c)
  BY <1>3 DEF Good, ClientOK, Loose
<1>10. Ending(t, c)
  <2> SUFFICES ASSUME NEW j \in 1..n + 1, v[j].kind = "exit"
               PROVE  /\ s.exit # "no"
                      /\ Loose(s) \/ \A u \in Nat : Hears(v, c, u, j - 1) => Reaches(v, c, u, j - 1, s.made)
    BY <1>3, <1>4, <1>6 DEF Ending, Loose
  <2>1. CASE j = n + 1
    <3>1. j - 1 = n /\ n \in 0..n
      BY <2>1
    <3>2. f.kind = "exit"
      BY <1>4, <1>6, <2>1
    <3> QED
      BY <1>5, <1>6, <3>1, <3>2 DEF Complete
  <2>2. CASE j # n + 1
    <3>1. j \in 1..n /\ j - 1 \in 0..n
      BY <2>2
    <3>2. /\ s.exit # "no"
          /\ Loose(s) \/ \A u \in Nat : Hears(s.wire, c, u, j - 1) => Reaches(s.wire, c, u, j - 1, s.made)
      BY <1>4, <1>6, <3>1 DEF Good, WireOK, Ending
    <3> QED
      BY <1>5, <1>6, <3>1, <3>2
  <2> QED
    BY <2>1, <2>2
<1>11. WireOK(t, c)
  <2>1. ASSUME NEW i \in 1..n + 1, v[i].kind \in {"opened", "pending", "data", "complete"}
        PROVE  v[i].tok <= s.tokens
    <3>1. CASE i \in 1..n
      BY <1>4, <1>6, <2>1, <3>1 DEF Good, WireOK
    <3>2. CASE i = n + 1
      BY <1>4, <1>6, <2>1, <3>2
    <3> QED
      BY <3>1, <3>2
  <2> QED
    BY <1>3, <1>4, <1>5, <1>6, <1>10, <2>1 DEF WireOK
<1>12. Joined(t, c)
  <2> SUFFICES ASSUME Own(s) PROVE Reaches(v, c, s.d.tok, n + 1, Edge(s.d))
    BY <1>3, <1>4, <1>6 DEF Joined, Own
  <2>1. Reaches(s.wire, c, s.d.tok, n, Edge(s.d))
    BY <1>6 DEF Good, Joined
  <2>2. v[n + 1] = f /\ \A i \in 1..n : v[i] = s.wire[i]
    BY <1>4, <1>6
  <2>3. \A i \in 1..n : i \in 1..n + 1
    OBVIOUS
  <2>4. \A i \in 1..n + 1 : i \in 1..n \/ i = n + 1
    OBVIOUS
  <2>5. \A k \in 1..n + 1 : Carries(v[k], s.d.tok) => k \in 1..n /\ Carries(s.wire[k], s.d.tok)
    BY <1>7, <2>2, <2>4
  <2>6. CASE \E i \in 1..n : /\ Carries(s.wire[i], s.d.tok) /\ At(s.wire[i]) = Edge(s.d)
                             /\ \A k \in i + 1..n : ~Carries(s.wire[k], s.d.tok)
    <3>1. PICK i \in 1..n : /\ Carries(s.wire[i], s.d.tok) /\ At(s.wire[i]) = Edge(s.d)
                            /\ \A k \in i + 1..n : ~Carries(s.wire[k], s.d.tok)
      BY <2>6
    <3>2. \A k \in i + 1..n + 1 : k \in 1..n + 1 /\ (k \in 1..n => k \in i + 1..n)
      OBVIOUS
    <3>3. \A k \in i + 1..n + 1 : ~Carries(v[k], s.d.tok)
      BY <2>5, <3>1, <3>2
    <3> QED
      BY <2>2, <2>3, <3>1, <3>3 DEF Reaches
  <2>7. CASE /\ \A k \in 1..n : ~Carries(s.wire[k], s.d.tok)
             /\ Follows(c, s.d.tok) => c.next = Edge(s.d)
    BY <2>5, <2>7 DEF Reaches
  <2> QED
    BY <2>1, <2>6, <2>7 DEF Reaches
<1>13. Credit(t, c)
  <2>1. \A e \in Nat : Known(t, c, e) => Known(s, c, e)
    <3>1. ASSUME NEW i \in 1..n + 1, Carries(v[i], s.d.tok) PROVE i \in 1..n /\ v[i] = s.wire[i]
      BY <1>4, <1>6, <1>7, <3>1
    <3> QED
      BY <1>3, <1>4, <1>6, <3>1 DEF Known
  <2> QED
    BY <1>3, <2>1 DEF Good, Credit, Own
<1>14. Fence(t, c)
  <2>1. ASSUME NEW i \in 1..n + 1, v[i].kind = "pending" PROVE i \in 1..n /\ v[i] = s.wire[i]
    BY <1>4, <1>6, <2>1
  <2> QED
    BY <1>3, <1>4, <1>6, <2>1 DEF Good, Fence, Own
<1>15. Audience(t, c)
  BY <1>3, <1>5, <1>7 DEF Good, Audience, Owned, Own, Loose
<1> QED
  BY <1>2, <1>8, <1>9, <1>11, <1>12, <1>13, <1>14, <1>15 DEF Good

-----------------------------------------------------------------------------
(* The exit and the pump. *)

\* An operator of the relay: it keeps what the others rely on.
Step(s, t, c) == Good(t, c) /\ Same(s, t) /\ (t.died => s.died \/ Wide # {})

LEMMA StepTwice ==
  ASSUME NEW r, NEW s, NEW t, NEW c, Step(r, s, c), Step(s, t, c)
  PROVE  Step(r, t, c)
BY SameTwice DEF Step

\* Of the flags, the operators change the exit, the timer and the faults.
LEMMA FlagsOK ==
  ASSUME NEW s, NEW c, Good(s, c), NEW t, Alike(s, t), t.d = s.d,
         t.exit = s.exit \/ (t.exit = "done" /\ s.exit # "no" /\ s.d.exitSt # "pending"),
         s.faulted => t.faulted
  PROVE  Good(t, c) /\ Same(s, t)
<1>1. LedgerOK(t)
  BY DEF Good, LedgerOK, Alike, Offsets, Ahead, Recovery, Exiting, Numbers, Own
<1>2. Quiet(s, t)
  <2>1. s.d.cred \in Nat /\ s.d.tok \in {0, s.d.tok} /\ s.d.recEnd \in {None, s.d.recEnd}
    BY DEF Good, LedgerOK, Relay, Ledger
  <2>2. s.d.cred <= s.d.cred
    BY <2>1
  <2> QED
    BY <2>1, <2>2 DEF Quiet, Hushed, Alike, Own, Owned, Loose
<1> QED
  BY <1>1, <1>2, QuietOK DEF Same, Told, Alike

ExitDone(s) == [s EXCEPT !.exit = "done"]

LEMMA ExitDoneOK ==
  ASSUME NEW s, NEW c, Good(s, c), s.exit # "no", s.d.exitSt # "pending"
  PROVE  Step(s, ExitDone(s), c)
<1>1. PICK t : t = ExitDone(s)
  OBVIOUS
<1>2. s \in Relay
  BY DEF Good, LedgerOK
<1>3. Alike(s, t) /\ t.d = s.d /\ t.exit = "done" /\ t.died = s.died /\ t.faulted = s.faulted
  BY <1>1, <1>2 DEF Alike, Relay, ExitDone
<1> QED
  BY <1>1, <1>3, FlagsOK DEF Step

\* Nobody is left who could be told of the exit, or all is told.
LEMMA LegacyExitOK ==
  ASSUME NEW s, NEW c, Good(s, c), s.exit # "no", s.d.exitSt # "pending",
         Loose(s) \/ (s.exit = "pending" /\ ~Owned(s))
  PROVE  Step(s, LegacyExit(s), c) /\ LegacyExit(s).d = s.d /\ LegacyExit(s).died = s.died
<1>1. s \in Relay
  BY DEF Good, LedgerOK
<1>2. Step(s, s, c)
  BY DEF Step, Same
<1>3. CASE ~s.open
  <2>1. LegacyExit(s) = ExitDone(s)
    BY <1>3 DEF LegacyExit, ExitDone
  <2> QED
    BY <1>1, <2>1, ExitDoneOK DEF Relay, ExitDone
<1>4. CASE s.open /\ s.full
  BY <1>2, <1>4 DEF LegacyExit
<1>5. CASE s.open /\ ~s.full
  <2> DEFINE f == [kind |-> "exit"]
  <2>1. PICK u : u = Sent(s, f)
    OBVIOUS
  <2>2. f \in Frames /\ f.kind = "exit" /\ Fits(s, c, f)
    BY DEF Frames, Fits
  <2>3. Complete(s, c)
    BY <1>5 DEF Good, Audience, Complete
  <2>4. /\ Alike(u, u) /\ u.d = s.d /\ u.exit = s.exit /\ u.died = s.died /\ Good(u, c) /\ Same(s, u)
    BY <1>1, <2>1, <2>2, <2>3, SentFacts, SendNoticeOK DEF Alike, Same, Told
  <2>5. LegacyExit(s) = ExitDone(u)
    BY <1>5, <2>1 DEF LegacyExit, ExitDone
  <2>6. Step(u, LegacyExit(s), c)
    BY <2>4, <2>5, ExitDoneOK
  <2>7. LegacyExit(s).d = s.d /\ LegacyExit(s).died = s.died
    BY <2>4, <2>5 DEF Alike, Relay, ExitDone
  <2> QED
    BY <2>4, <2>6, <2>7, SameTwice DEF Step
<1> QED
  BY <1>3, <1>4, <1>5

LEMMA NoDeliveryFacts ==
  LET e == NoDelivery IN
  /\ e \in Ledger /\ e.tok = 0 /\ e.conn = 0 /\ e.st = "closed" /\ e.recv = 0 /\ e.sent = 0
  /\ e.cred = 0 /\ e.bounds = {} /\ e.pend = None /\ e.resAck = None /\ e.att = None
  /\ e.recEnd = None /\ e.completing = FALSE /\ e.restore = FALSE /\ e.exitSt = "idle"
<1>1. NoDelivery \in Ledger
  <2>1. /\ "closed" \in Stages /\ "idle" \in ExitSts /\ 0 \in Nat /\ None \in Optional
        /\ {} \in SUBSET Nat /\ FALSE \in BOOLEAN
    BY DEF Stages, ExitSts, Optional
  <2> QED
    BY <2>1, Zenon DEF NoDelivery, Ledger
<1> QED
  BY <1>1 DEF NoDelivery

\* Nobody is to hear of the exit.
Silent(s, c) == \A u \in Nat : ~Hears(s.wire, c, u, Len(s.wire))

\* A delivery is given up when nobody waits for the exit, or none can be lost.
LEMMA RetiredOK ==
  ASSUME NEW s, NEW c, Good(s, c),
         Loose(s) \/ ~s.open \/ s.exit = "done" \/ ~Owned(s) \/ Silent(s, c)
  PROVE  LET t == Retired(s) IN
         /\ Step(s, t, c) /\ t.d = NoDelivery /\ t.exit = s.exit /\ t.died = s.died
         /\ t.faulted = s.faulted /\ t.open = s.open
<1>1. s \in Relay
  BY DEF Good, LedgerOK
<1>2. PICK t : t = Retired(s)
  OBVIOUS
<1>3. /\ Alike(s, t) /\ t.d = NoDelivery /\ t.exit = s.exit /\ t.died = s.died
      /\ t.faulted = s.faulted
  BY <1>1, <1>2, NoDeliveryFacts, SetD DEF WithD, Retired
<1>4. ~Own(t)
  BY <1>3, NoDeliveryFacts DEF Good, LedgerOK, Numbers, Own, Alike
<1>5. LedgerOK(t)
  <2>1. /\ s.taken \in Nat /\ s.made \in Nat /\ s.tokens \in Nat /\ s.conn \in Nat
    BY <1>1 DEF Relay
  <2>2. Offsets(t) /\ Numbers(t)
    BY <1>3, <2>1, NoDeliveryFacts DEF Good, LedgerOK, Offsets, Numbers, Alike
  <2>3. Ahead(t) /\ Recovery(t) /\ Exiting(t)
    BY <1>3, NoDeliveryFacts DEF Ahead, Recovery, Exiting
  <2> QED
    BY <1>3, <2>2, <2>3 DEF LedgerOK, Alike
<1>6. Hushed(s, t) /\ Audience(t, c)
  <2>1. t.open /\ t.exit # "done" /\ ~Loose(t) =>
          s.open /\ s.exit # "done" /\ ~Loose(s) /\ (~Owned(s) \/ Silent(s, c))
    BY <1>3 DEF Alike, Loose
  <2>2. Hushed(s, t)
    BY <1>3, <1>4, NoDeliveryFacts DEF Hushed, Alike, Loose
  <2>3. Audience(t, c)
    BY <1>3, <2>1 DEF Good, Audience, Silent, Alike
  <2> QED
    BY <2>2, <2>3
<1>7. Same(s, t)
  BY <1>3, NoDeliveryFacts DEF Same, Told, Alike
<1> QED
  BY <1>2, <1>3, <1>5, <1>6, <1>7, HushedOK DEF Step, Alike

LEMMA ExitRecursionOK ==
  ASSUME NEW s, NEW c, Good(s, c), s.exit # "no"
  PROVE  Step(s, ExitRecursion(s), c)
<1>1. s \in Relay
  BY DEF Good, LedgerOK
<1>2. PICK u : u = [s EXCEPT !.faulted = TRUE]
  OBVIOUS
<1>3. /\ Alike(s, u) /\ u.d = s.d /\ u.exit = s.exit /\ u.faulted /\ u.died = s.died
  BY <1>1, <1>2 DEF Alike, Relay
<1>4. Step(s, u, c) /\ Loose(u)
  BY <1>3, FlagsOK DEF Step, Loose
<1>5. PICK v : v = Retired(u)
  OBVIOUS
<1>6. Step(u, v, c) /\ v.d = NoDelivery /\ v.exit = u.exit /\ v.faulted = u.faulted
  BY <1>4, <1>5, RetiredOK DEF Step
<1>7. Step(v, LegacyExit(v), c)
  BY <1>3, <1>6, NoDeliveryFacts, LegacyExitOK DEF Step, Loose
<1>8. ExitRecursion(s) = LegacyExit(v)
  BY <1>2, <1>5 DEF ExitRecursion
<1> QED
  BY <1>4, <1>6, <1>7, <1>8, StepTwice

LEMMA RearmedOK ==
  ASSUME NEW s, NEW c, Good(s, c)
  PROVE  LET t == Rearmed(s) IN
         /\ Step(s, t, c) /\ t.d = s.d /\ t.exit = s.exit /\ t.died = s.died /\ t.made = s.made
         /\ t.taken = s.taken /\ t.open = s.open /\ t.draining = s.draining
<1>1. s \in Relay
  BY DEF Good, LedgerOK
<1>2. PICK t : t = Rearmed(s)
  OBVIOUS
<1>3. PICK b \in BOOLEAN : t = [s EXCEPT !.timer = b]
  BY <1>1, <1>2 DEF Rearmed, Queued, Relay
<1>4. /\ Alike(s, t) /\ t.d = s.d /\ t.exit = s.exit /\ t.faulted = s.faulted /\ t.died = s.died
  BY <1>1, <1>3 DEF Alike, Relay
<1> QED
  BY <1>2, <1>4, FlagsOK DEF Step, Alike

\* The rest of a delivery is marks: the last attempt, refusals, and the writes
\* that are awaited.
Marked(d, e) ==
  /\ e \in Ledger /\ e.tok = d.tok /\ e.conn = d.conn /\ e.st = d.st /\ e.recv = d.recv
  /\ e.sent = d.sent /\ e.cred = d.cred /\ e.bounds = d.bounds /\ e.pend = d.pend
  /\ e.resAck = d.resAck /\ e.recEnd = d.recEnd /\ e.restore = d.restore /\ e.exitSt = d.exitSt

LEMMA MarkedOK ==
  ASSUME NEW s, NEW c, Good(s, c), NEW e, Marked(s.d, e), s.d.tok # 0,
         e.att = s.d.att \/ (e.att \in Nat /\ e.att <= s.d.recv),
         NEW t, t = WithD(s, e)
  PROVE  /\ Step(s, t, c) /\ t.d = e /\ t.exit = s.exit /\ t.died = s.died
         /\ t.faulted = s.faulted
<1>1. s \in Relay
  BY DEF Good, LedgerOK
<1>2. /\ Alike(s, t) /\ t.d = e /\ t.exit = s.exit /\ t.died = s.died
      /\ t.faulted = s.faulted
  BY <1>1, SetD DEF Marked
<1>3. LedgerOK(t)
  <2>1. Offsets(t) /\ Recovery(t) /\ Exiting(t) /\ Numbers(t)
    BY <1>2 DEF Good, LedgerOK, Offsets, Recovery, Exiting, Numbers, Own, Alike, Marked
  <2>2. Ahead(t)
    BY <1>2 DEF Good, LedgerOK, Ahead, Own, Alike, Marked
  <2> QED
    BY <1>2, <2>1, <2>2 DEF LedgerOK, Alike
<1>4. Quiet(s, t)
  <2>1. s.d.cred \in Nat /\ s.d.cred <= e.cred
    BY <1>1 DEF Relay, Ledger, Marked
  <2> QED
    BY <1>2, <2>1 DEF Quiet, Hushed, Alike, Own, Owned, Loose, Marked, Edge, Ackable
<1>5. Same(s, t)
  BY <1>2 DEF Same, Told, Alike, Marked
<1> QED
  BY <1>2, <1>3, <1>4, <1>5, QuietOK DEF Step

Tried(d, end, b) == [d EXCEPT !.att = end, !.refused = b]

LEMMA TriedFacts ==
  ASSUME NEW d \in Ledger, NEW end \in Nat, NEW b \in BOOLEAN
  PROVE  Marked(d, Tried(d, end, b)) /\ Tried(d, end, b).att = end
<1>1. Tried(d, end, b) \in Ledger
  BY Zenon DEF Ledger, Optional, Tried
<1> QED
  BY <1>1 DEF Ledger, Tried, Marked

LEMMA RefusedOK ==
  ASSUME NEW s, NEW c, Good(s, c), s.d.tok # 0, NEW end \in Nat, end <= s.d.recv
  PROVE  Step(s, Refused(s, end), c)
<1>1. s \in Relay /\ s.d \in Ledger /\ Own(s) \in BOOLEAN
  BY DEF Good, LedgerOK, Relay, Own
<1>2. PICK e : e = Tried(s.d, end, Own(s))
  OBVIOUS
<1>3. PICK t : t = WithD(s, e)
  OBVIOUS
<1>4. t = [s EXCEPT !.d.att = end, !.d.refused = Own(s)]
  BY <1>1, <1>2, <1>3 DEF Tried, Relay, WithD
<1>5. Step(s, t, c)
  BY <1>1, <1>2, <1>3, TriedFacts, MarkedOK
<1>6. Refused(s, end) = IF s.exit = "pending" /\ ~Queued(s) THEN ExitRecursion(t) ELSE Rearmed(t)
  BY <1>4 DEF Refused
<1>7. t.exit = s.exit
  BY <1>1, <1>3 DEF Relay, WithD
<1> QED
  BY <1>5, <1>6, <1>7, ExitRecursionOK, RearmedOK, StepTwice DEF Step

Completing(d) == [d EXCEPT !.completing = TRUE]

LEMMA CompletingFacts ==
  ASSUME NEW d \in Ledger
  PROVE  Marked(d, Completing(d)) /\ Completing(d).att = d.att
<1>1. Completing(d) \in Ledger
  BY Zenon DEF Ledger, Completing
<1> QED
  BY <1>1 DEF Ledger, Completing, Marked

\* The client has, or will have, all that its recovery was to bring.
LEMMA CompleteRecoveryOK ==
  ASSUME NEW s, NEW c, Good(s, c)
  PROVE  Step(s, CompleteRecovery(s), c) /\ CompleteRecovery(s).died = s.died
<1>1. s \in Relay /\ s.d \in Ledger
  BY DEF Good, LedgerOK, Relay
<1>2. CASE s.d.activating \/ s.d.pend # None \/ s.d.completing \/ ~Fenced(s) \/ ~Own(s)
  <2>1. CompleteRecovery(s) = s
    BY <1>2 DEF CompleteRecovery
  <2> QED
    BY <2>1 DEF Step, Same
<1>3. CASE ~(s.d.activating \/ s.d.pend # None \/ s.d.completing \/ ~Fenced(s) \/ ~Own(s))
  <2> DEFINE f == [kind |-> "complete", tok |-> s.d.tok]
  <2>1. s.d.tok # 0 /\ s.d.tok <= s.tokens /\ s.tokens <= MaxTokens /\ s.d.tok \in Nat /\ s.tokens \in Nat
    BY <1>1, <1>3, OwnTok DEF Good, LedgerOK, Numbers, Relay, Ledger
  <2>2. s.d.tok \in 1..MaxTokens
    BY <2>1, Limits
  <2>3. f \in Frames /\ f.kind = "complete" /\ f.tok = s.d.tok
    BY <2>2 DEF Frames
  <2>4. s.d.recEnd # None /\ s.d.recEnd = s.d.sent /\ s.d.sent \in Nat
    <3>1. s.d.recEnd # None /\ s.d.recEnd \in Nat /\ s.d.sent \in Nat /\ s.d.sent >= s.d.recEnd
      BY <1>1, <1>3 DEF Fenced, Ledger, Optional
    <3>2. s.d.sent <= s.d.recEnd
      BY <3>1 DEF Good, LedgerOK, Recovery
    <3> QED
      BY <3>1, <3>2
  <2>5. Fits(s, c, f)
    <3>1. Reaches(s.wire, c, s.d.tok, Len(s.wire), s.d.sent)
      BY <1>3 DEF Good, Joined, Edge
    <3>2. Fence(s, c)
      BY DEF Good
    <3> QED
      BY <1>3, <2>3, <2>4, <3>1, <3>2 DEF Fits, Fence
  <2> HIDE DEF f
  <2>6. PICK u : u = Sent(s, f)
    OBVIOUS
  <2>7. Good(u, c) /\ u.d = s.d /\ u.died = s.died /\ Same(s, u)
    BY <1>1, <2>1, <2>3, <2>5, <2>6, SentFacts, SendNoticeOK DEF Same, Told
  <2>8. PICK e : e = Completing(s.d)
    OBVIOUS
  <2>9. PICK t : t = WithD(u, e)
    OBVIOUS
  <2>10. Step(u, t, c) /\ t.died = u.died
    BY <1>1, <2>1, <2>7, <2>8, <2>9, CompletingFacts, MarkedOK
  <2>11. CompleteRecovery(s) = t
    <3>1. u \in Relay
      BY <2>7 DEF Good, LedgerOK
    <3>2. t = [u EXCEPT !.d.completing = TRUE]
      BY <2>7, <2>8, <2>9, <3>1 DEF Completing, Relay, WithD
    <3> QED
      BY <1>3, <2>6, <3>2 DEF CompleteRecovery, f
  <2> QED
    BY <2>7, <2>10, <2>11, SameTwice DEF Step
<1> QED
  BY <1>2, <1>3

\* A frame ends within the output, the window and the recovery; one that would
\* be empty ends at a surrogate pair.
LEMMA FrameEndOK ==
  ASSUME NEW s, LedgerOK(s), Sendable(s), ~Fenced(s)
  PROVE  /\ FrameEnd(s) \in Nat /\ s.d.sent <= FrameEnd(s) /\ FrameEnd(s) <= s.d.recv
         /\ FrameEnd(s) <= s.d.cred + Window /\ s.d.tok # 0
         /\ s.d.recEnd # None => FrameEnd(s) <= s.d.recEnd
         /\ FrameEnd(s) = s.d.sent => Wide # {}
<1>1. /\ s \in Relay /\ s.d \in Ledger /\ Offsets(s) /\ Recovery(s) /\ Numbers(s)
      /\ s.d.st \in {"active", "sealed"} /\ s.d.sent < s.d.recv /\ MostUnits(s) > 0
  BY DEF LedgerOK, Relay, Sendable
<1>2. /\ s.d.sent \in Nat /\ s.d.recv \in Nat /\ s.d.cred \in Nat /\ s.taken \in Nat /\ s.made \in Nat
      /\ s.d.resAck \in Nat \cup {None} /\ s.d.recEnd \in Nat \cup {None}
  BY <1>1 DEF Relay, Ledger, Optional
<1>3. s.d.tok # 0
  BY <1>1, NoDeliveryFacts DEF Numbers
<1>4. s.d.recv \in Ends /\ s.d.recv <= Max(Ends) /\ Max(Ends) \in Nat
  BY <1>1, <1>2, <1>3, EndsOK DEF Offsets
<1>5. /\ NextEnd(s.d.sent) \in Nat /\ s.d.sent < NextEnd(s.d.sent) /\ NextEnd(s.d.sent) <= s.d.recv
      /\ s.d.recEnd # None => NextEnd(s.d.sent) <= s.d.recEnd
  <2>1. s.d.sent < Max(Ends)
    BY <1>1, <1>2, <1>4
  <2>2. /\ NextEnd(s.d.sent) \in Nat /\ s.d.sent < NextEnd(s.d.sent)
        /\ \A e \in Ends : s.d.sent < e => NextEnd(s.d.sent) <= e
    BY <1>2, <2>1, NextEndOK
  <2>3. s.d.recEnd # None => s.d.sent < s.d.recEnd
    BY <1>2 DEF Fenced
  <2> QED
    BY <1>1, <1>4, <2>2, <2>3 DEF Recovery
<1>6. PICK most \in Int : /\ MostUnits(s) \in Int /\ MostUnits(s) > 0
                          /\ MostUnits(s) <= most /\ most <= Room(s)
  <2>1. Room(s) \in Int /\ FrameMax \in Int /\ 1 \in Int
    BY <1>2, Limits DEF Room
  <2>2. PICK f \in Int : f = IF Own(s) THEN FrameMax ELSE 1
    BY <2>1
  <2>3. PICK m \in Int : m = Min({Room(s), f}) /\ m <= Room(s)
    BY <2>1, <2>2, MinTwo
  <2>4. MostUnits(s) = IF s.d.resAck = None THEN m
                       ELSE IF s.d.resAck - s.d.sent \in 1..m THEN s.d.resAck - s.d.sent ELSE 0
    BY <2>2, <2>3 DEF MostUnits
  <2>5. MostUnits(s) \in Int /\ MostUnits(s) <= m
    BY <1>1, <1>2, <2>3, <2>4
  <2> QED
    BY <1>1, <2>3, <2>5
<1>7. PICK m \in Int : m = MostUnits(s)
  BY <1>6
<1>8. 0 < m /\ s.d.sent + m <= s.d.cred + Window
  BY <1>2, <1>6, <1>7, Limits DEF Room
<1>9. FrameEnd(s) = IF NextEnd(s.d.sent) <= s.d.sent + m THEN NextEnd(s.d.sent)
                    ELSE IF s.d.sent + m \in Wide THEN (s.d.sent + m) - 1 ELSE s.d.sent + m
  BY <1>2, <1>7 DEF FrameEnd
<1>10. FrameEnd(s) = s.d.sent => s.d.sent + m \in Wide
  BY <1>2, <1>5, <1>7, <1>8, <1>9
<1>11. /\ FrameEnd(s) \in Nat /\ s.d.sent <= FrameEnd(s) /\ FrameEnd(s) <= s.d.recv
       /\ FrameEnd(s) <= s.d.cred + Window
       /\ s.d.recEnd # None => FrameEnd(s) <= s.d.recEnd
  BY <1>2, <1>5, <1>7, <1>8, <1>9, Limits
<1> QED
  BY <1>3, <1>10, <1>11

LEMMA SendNextOK ==
  ASSUME NEW s, NEW c, Good(s, c), Sendable(s), ~Fenced(s), s.d.pend = None
  PROVE  Step(s, SendNext(s), c)
<1>1. LedgerOK(s) /\ s \in Relay /\ s.d \in Ledger
  BY DEF Good, LedgerOK, Relay
<1>2. PICK end : end = FrameEnd(s)
  OBVIOUS
<1>3. /\ end \in Nat /\ s.d.sent <= end /\ end <= s.d.recv /\ end <= s.d.cred + Window /\ s.d.tok # 0
      /\ s.d.recEnd # None => end <= s.d.recEnd
      /\ end = s.d.sent => Wide # {}
      /\ s.d.sent \in Nat
  BY <1>1, <1>2, FrameEndOK DEF Ledger
<1>4. CASE end = s.d.sent
  <2>1. PICK t : t = [s EXCEPT !.died = TRUE]
    OBVIOUS
  <2>2. Alike(s, t) /\ t.d = s.d /\ t.exit = s.exit /\ t.faulted = s.faulted
    BY <1>1, <2>1 DEF Alike, Relay
  <2>3. SendNext(s) = t
    BY <1>2, <1>3, <1>4, <2>1 DEF SendNext
  <2> QED
    BY <1>3, <1>4, <2>2, <2>3, FlagsOK DEF Step
<1>5. CASE end # s.d.sent /\ Own(s) /\ ~s.full
  <2>1. PICK t : t = [Sent(s, [kind |-> "data", tok |-> s.d.tok, start |-> s.d.sent, end |-> end])
                        EXCEPT !.d.pend = end, !.d.att = end, !.d.refused = FALSE]
    OBVIOUS
  <2>2. s.d.sent < end
    BY <1>3, <1>5
  <2>3. Good(t, c) /\ Same(s, t)
    BY <1>3, <1>5, <2>1, <2>2, SendDataOK
  <2>4. SendNext(s) = t
    BY <1>2, <1>3, <1>5, <2>1, <2>2 DEF SendNext
  <2>5. t.died = s.died
    BY <1>1, <2>1 DEF Sent, Relay
  <2> QED
    BY <2>3, <2>4, <2>5 DEF Step
<1>6. CASE end # s.d.sent /\ ~(Own(s) /\ ~s.full)
  <2>1. SendNext(s) = Refused(s, end)
    BY <1>2, <1>6 DEF SendNext
  <2> QED
    BY <1>3, <2>1, RefusedOK
<1> QED
  BY <1>4, <1>5, <1>6

LEMMA PumpOK ==
  ASSUME NEW s, NEW c, Good(s, c)
  PROVE  Step(s, Pump(s), c)
<1>1. Step(s, s, c)
  BY DEF Step, Same
<1>2. Step(s, CompleteRecovery(s), c)
  BY CompleteRecoveryOK
<1>3. CASE s.d.activating \/ s.d.pend # None \/ s.d.restore
  BY <1>1, <1>3 DEF Pump
<1>4. CASE ~(s.d.activating \/ s.d.pend # None \/ s.d.restore) /\ Fenced(s)
  BY <1>2, <1>4 DEF Pump
<1>5. CASE ~(s.d.activating \/ s.d.pend # None \/ s.d.restore) /\ ~Fenced(s) /\ Sendable(s)
  <2>1. Pump(s) = SendNext(s)
    BY <1>5 DEF Pump
  <2> QED
    BY <1>5, <2>1, SendNextOK
<1>6. CASE ~(s.d.activating \/ s.d.pend # None \/ s.d.restore) /\ ~Fenced(s) /\ ~Sendable(s)
  <2>1. Pump(s) = s
    BY <1>6 DEF Pump
  <2> QED
    BY <1>1, <2>1
<1> QED
  BY <1>3, <1>4, <1>5, <1>6

Sealed(d) == [d EXCEPT !.st = "sealed"]

LEMMA SealedFacts ==
  ASSUME NEW d \in Ledger
  PROVE  LET e == Sealed(d) IN
         /\ e \in Ledger /\ e.tok = d.tok /\ e.conn = d.conn /\ e.st = "sealed" /\ e.recv = d.recv
         /\ e.sent = d.sent /\ e.cred = d.cred /\ e.bounds = d.bounds /\ e.pend = d.pend
         /\ e.resAck = d.resAck /\ e.att = d.att /\ e.recEnd = d.recEnd
         /\ e.restore = d.restore /\ e.exitSt = d.exitSt
<1>1. Sealed(d) \in Ledger
  BY Zenon DEF Ledger, Stages, Sealed
<1> QED
  BY <1>1 DEF Ledger, Sealed

LEMMA SealedOK ==
  ASSUME NEW s, NEW c, Good(s, c), s.d.tok # 0, s.d.st # "closed",
         NEW t, t = WithD(s, Sealed(s.d))
  PROVE  Step(s, t, c) /\ t.died = s.died /\ t.exit = s.exit
<1>1. s \in Relay /\ s.d \in Ledger
  BY DEF Good, LedgerOK, Relay
<1>2. PICK e : e = Sealed(s.d)
  OBVIOUS
<1>3. t = WithD(s, e)
  BY <1>2
<1>4. /\ e \in Ledger /\ e.tok = s.d.tok /\ e.conn = s.d.conn /\ e.st = "sealed" /\ e.recv = s.d.recv
      /\ e.sent = s.d.sent /\ e.cred = s.d.cred /\ e.bounds = s.d.bounds /\ e.pend = s.d.pend
      /\ e.resAck = s.d.resAck /\ e.att = s.d.att /\ e.recEnd = s.d.recEnd
      /\ e.restore = s.d.restore /\ e.exitSt = s.d.exitSt
  BY <1>1, <1>2, SealedFacts
<1>5. /\ Alike(s, t) /\ t.d = e /\ t.exit = s.exit /\ t.died = s.died
      /\ t.faulted = s.faulted
  BY <1>1, <1>3, <1>4, SetD
<1>6. LedgerOK(t)
  <2>1. Offsets(t) /\ Recovery(t) /\ Exiting(t) /\ Numbers(t)
    BY <1>4, <1>5 DEF Good, LedgerOK, Offsets, Recovery, Exiting, Numbers, Own, Alike
  <2>2. Ahead(t)
    BY <1>4, <1>5 DEF Good, LedgerOK, Ahead, Own, Alike
  <2> QED
    BY <1>5, <2>1, <2>2 DEF LedgerOK, Alike
<1>7. Quiet(s, t)
  <2>1. s.d.cred \in Nat /\ s.d.cred <= e.cred
    BY <1>1, <1>4 DEF Ledger
  <2> QED
    BY <1>4, <1>5, <2>1 DEF Quiet, Hushed, Alike, Own, Owned, Loose, Edge, Ackable
<1>8. Same(s, t)
  BY <1>4, <1>5 DEF Same, Told, Alike
<1> QED
  BY <1>5, <1>6, <1>7, <1>8, QuietOK DEF Step

ExitSent(d) == [d EXCEPT !.exitSt = "pending"]

LEMMA ExitSentFacts ==
  ASSUME NEW d \in Ledger
  PROVE  LET e == ExitSent(d) IN
         /\ e \in Ledger /\ e.tok = d.tok /\ e.conn = d.conn /\ e.st = d.st /\ e.recv = d.recv
         /\ e.sent = d.sent /\ e.cred = d.cred /\ e.bounds = d.bounds /\ e.pend = d.pend
         /\ e.resAck = d.resAck /\ e.att = d.att /\ e.recEnd = d.recEnd
         /\ e.restore = d.restore /\ e.exitSt = "pending"
<1>1. ExitSent(d) \in Ledger
  BY Zenon DEF Ledger, ExitSts, ExitSent
<1> QED
  BY <1>1 DEF Ledger, ExitSent

\* The exit frame goes out behind all of the output.
LEMMA SendExitOK ==
  ASSUME NEW s, NEW c, Good(s, c), s.exit = "pending", s.d.tok # 0, s.d.sent = s.d.recv, Own(s),
         s.taken = s.made,
         NEW t, t = WithD(Sent(s, [kind |-> "exit"]), ExitSent(s.d))
  PROVE  Step(s, t, c) /\ t.died = s.died
<1> DEFINE f == [kind |-> "exit"]
<1>1. s \in Relay /\ s.d \in Ledger
  BY DEF Good, LedgerOK, Relay
<1>2. s.d.sent \in Nat /\ s.d.recv \in Nat /\ s.d.pend \in Nat \cup {None}
  BY <1>1 DEF Ledger, Optional
<1>3. s.d.recv = s.made /\ s.d.pend = None
  BY <1>2 DEF Good, LedgerOK, Offsets, Ahead
<1>4. f \in Frames /\ f.kind = "exit" /\ Fits(s, c, f)
  BY DEF Frames, Fits
<1>5. Complete(s, c)
  <2> SUFFICES ASSUME ~Loose(s), NEW u \in Nat, Hears(s.wire, c, u, Len(s.wire))
               PROVE  Reaches(s.wire, c, u, Len(s.wire), s.made)
    BY DEF Complete
  <2>1. u = s.d.tok
    BY DEF Good, Audience, Own
  <2> QED
    BY <1>3, <2>1 DEF Good, Joined, Edge
<1>6. PICK u : u = Sent(s, f)
  OBVIOUS
<1>7. /\ Good(u, c) /\ u.d = s.d /\ u.died = s.died /\ Same(s, u) /\ u \in Relay
      /\ u.exit = s.exit /\ u.made = s.made
  BY <1>1, <1>4, <1>5, <1>6, SentFacts, SendNoticeOK DEF Same, Told
<1>8. PICK e : e = ExitSent(u.d)
  OBVIOUS
<1>9. t = WithD(u, e)
  BY <1>6, <1>7, <1>8
<1>10. /\ e \in Ledger /\ e.tok = u.d.tok /\ e.conn = u.d.conn /\ e.st = u.d.st /\ e.recv = u.d.recv
      /\ e.sent = u.d.sent /\ e.cred = u.d.cred /\ e.bounds = u.d.bounds /\ e.pend = u.d.pend
      /\ e.resAck = u.d.resAck /\ e.att = u.d.att /\ e.recEnd = u.d.recEnd
      /\ e.restore = u.d.restore /\ e.exitSt = "pending"
  BY <1>1, <1>7, <1>8, ExitSentFacts
<1>11. /\ Alike(u, t) /\ t.d = e /\ t.exit = u.exit /\ t.died = u.died
      /\ t.faulted = u.faulted
  BY <1>7, <1>9, <1>10, SetD
<1>12. Own(u) /\ Own(t)
  <2>1. Own(u)
    BY <1>7 DEF Own, Same
  <2> QED
    BY <1>10, <1>11, <2>1 DEF Own, Alike
<1>13. LedgerOK(t)
  <2>1. Offsets(t) /\ Recovery(t) /\ Numbers(t)
    BY <1>1, <1>7, <1>10, <1>11 DEF Good, LedgerOK, Offsets, Recovery, Numbers, Alike
  <2>2. Ahead(t)
    BY <1>7, <1>10, <1>11, <1>12 DEF Good, LedgerOK, Ahead
  <2>3. ~u.d.restore
    BY <1>7, <1>12 DEF Good, LedgerOK, Exiting
  <2>4. Exiting(t)
    BY <1>3, <1>7, <1>10, <1>11, <1>12, <2>3 DEF Exiting, Alike
  <2> QED
    BY <1>11, <2>1, <2>2, <2>4 DEF LedgerOK, Alike
<1>14. Quiet(u, t)
  <2>1. u.d.cred \in Nat /\ u.d.cred <= e.cred
    BY <1>1, <1>7, <1>10 DEF Ledger
  <2> QED
    BY <1>10, <1>11, <1>12, <2>1 DEF Quiet, Hushed, Alike, Owned, Loose, Edge, Ackable
<1>15. Same(u, t)
  BY <1>10, <1>11 DEF Same, Told, Alike
<1> QED
  BY <1>7, <1>11, <1>13, <1>14, <1>15, QuietOK, SameTwice DEF Step

LEMMA SealAndPublishOK ==
  ASSUME NEW s, NEW c, Good(s, c), s.exit = "pending", s.d.tok # 0, s.d.st # "closed",
         s.taken = s.made, ~s.died
  PROVE  Step(s, SealAndPublish(s), c)
<1>1. s \in Relay /\ s.d \in Ledger
  BY DEF Good, LedgerOK, Relay
<1>2. PICK r : r = WithD(s, Sealed(s.d))
  OBVIOUS
<1>3. r = [s EXCEPT !.d.st = "sealed"]
  BY <1>1, <1>2 DEF WithD, Sealed, Relay
<1>4. Step(s, r, c) /\ ~r.died /\ r.exit = "pending"
  BY <1>2, SealedOK
<1>5. PICK t : t = Pump(r)
  OBVIOUS
<1>6. Step(s, t, c) /\ (t.died => Wide # {}) /\ t.exit # "no" /\ t.taken = t.made
  <2>1. Step(r, t, c)
    BY <1>4, <1>5, PumpOK DEF Step
  <2> QED
    BY <1>4, <2>1, StepTwice DEF Step, Same
<1>7. PICK u : u = [t EXCEPT !.died = FALSE, !.faulted = TRUE]
  OBVIOUS
<1>8. PICK x : x = WithD(Sent(t, [kind |-> "exit"]), ExitSent(t.d))
  OBVIOUS
<1>9. x = [Sent(t, [kind |-> "exit"]) EXCEPT !.d.exitSt = "pending"]
  <2>1. t \in Relay
    BY <1>6 DEF Step, Good, LedgerOK
  <2> QED
    BY <1>8, <2>1 DEF WithD, ExitSent, Sent, Relay
<1>10. SealAndPublish(s) =
         CASE t.died -> LegacyExit(Retired(u))
           [] ~t.died /\ (t.exit = "pending" /\ t.d.tok # 0 /\ t.d.sent = t.d.recv) /\ Own(t) /\ ~t.full -> x
           [] OTHER -> t
  BY <1>3, <1>5, <1>7, <1>9 DEF SealAndPublish
<1>11. CASE t.died
  <2>1. t \in Relay /\ Good(t, c)
    BY <1>6 DEF Step, Good, LedgerOK
  <2>2. Alike(t, u) /\ u.d = t.d /\ u.exit = t.exit /\ u.faulted /\ ~u.died
    BY <1>7, <2>1 DEF Alike, Relay
  <2>3. Step(t, u, c) /\ Loose(u)
    BY <1>6, <1>11, <2>1, <2>2, FlagsOK DEF Step, Loose
  <2>4. PICK v : v = Retired(u)
    OBVIOUS
  <2>5. Step(u, v, c) /\ v.d = NoDelivery /\ v.exit = u.exit /\ Loose(v)
    BY <1>6, <1>11, <2>3, <2>4, RetiredOK DEF Step, Loose
  <2>6. Step(v, LegacyExit(v), c)
    BY <1>6, <2>2, <2>5, NoDeliveryFacts, LegacyExitOK DEF Step
  <2>7. SealAndPublish(s) = LegacyExit(v)
    BY <1>10, <1>11, <2>4
  <2> QED
    BY <1>6, <2>3, <2>5, <2>6, <2>7, StepTwice
<1>12. CASE ~t.died /\ (t.exit = "pending" /\ t.d.tok # 0 /\ t.d.sent = t.d.recv) /\ Own(t) /\ ~t.full
  <2>1. Step(t, x, c)
    BY <1>6, <1>8, <1>12, SendExitOK DEF Step
  <2>2. SealAndPublish(s) = x
    BY <1>10, <1>12
  <2> QED
    BY <1>6, <2>1, <2>2, StepTwice
<1>13. CASE ~t.died /\ ~((t.exit = "pending" /\ t.d.tok # 0 /\ t.d.sent = t.d.recv) /\ Own(t) /\ ~t.full)
  <2>1. SealAndPublish(s) = t
    BY <1>10, <1>13
  <2> QED
    BY <1>6, <2>1
<1> QED
  BY <1>11, <1>12, <1>13

\* Unless the relay has died, an exit frame that is written ends the exit.
LEMMA PublishExitOK ==
  ASSUME NEW s, NEW c, Good(s, c), ~s.draining
  PROVE  Step(s, PublishExit(s), c) /\ (~s.died => Told(PublishExit(s)))
<1>1. s \in Relay /\ s.d \in Ledger
  BY DEF Good, LedgerOK, Relay
<1>2. Step(s, s, c)
  BY DEF Step, Same
<1>3. ~Queued(s) => s.taken = s.made
  <2>1. s.taken \in Nat /\ s.made \in Nat /\ s.taken <= s.made
    BY <1>1 DEF Relay, Good, LedgerOK, Offsets
  <2> QED
    BY <2>1 DEF Queued
<1>4. s.d.exitSt = "published" => ~Queued(s) /\ s.exit \in {"pending", "done"}
  <2>1. /\ s.d.sent \in Nat /\ s.d.recv \in Nat /\ s.taken \in Nat /\ s.made \in Nat
        /\ s.exit \in {"no", "pending", "done"}
    BY <1>1 DEF Relay, Ledger
  <2>2. s.d.exitSt = "published" => s.exit # "no" /\ s.made <= s.taken
    BY <2>1 DEF Good, LedgerOK, Offsets, Exiting
  <2> QED
    BY <2>1, <2>2 DEF Queued
<1>5. s.d.exitSt \in {"idle", "pending", "published"}
  BY <1>1 DEF Ledger, ExitSts
<1>6. CASE s.exit # "pending" \/ Queued(s) \/ s.died
  <2>1. PublishExit(s) = s
    BY <1>6 DEF PublishExit
  <2>2. ~s.died => Told(s)
    BY <1>4, <1>6 DEF Told
  <2> QED
    BY <1>2, <2>1, <2>2
<1>7. CASE /\ ~(s.exit # "pending" \/ Queued(s) \/ s.died)
           /\ s.d.tok # 0 /\ s.d.exitSt = "published"
  <2>1. PICK t : t = ExitDone(s)
    OBVIOUS
  <2>2. Step(s, t, c)
    BY <1>7, <2>1, ExitDoneOK
  <2>3. t.exit = "done" /\ t.d = s.d
    BY <1>1, <2>1 DEF ExitDone, Relay
  <2>4. Step(t, Retired(t), c) /\ Retired(t).d = NoDelivery
    BY <2>2, <2>3, RetiredOK DEF Step
  <2>5. PublishExit(s) = IF s.d.st = "closed" THEN Retired(t) ELSE t
    <3>1. PublishExit(s) = [s EXCEPT !.exit = "done", !.d = IF s.d.st = "closed" THEN NoDelivery ELSE s.d]
      BY <1>7 DEF PublishExit
    <3>2. /\ Retired(t) = [s EXCEPT !.exit = "done", !.d = NoDelivery]
          /\ t = [s EXCEPT !.exit = "done", !.d = s.d]
      BY <1>1, <2>1 DEF ExitDone, Retired, Relay
    <3> QED
      BY <3>1, <3>2
  <2>6. Told(t) /\ Told(Retired(t))
    BY <2>3, <2>4, NoDeliveryFacts DEF Told
  <2> QED
    BY <2>2, <2>4, <2>5, <2>6, StepTwice
<1>8. CASE /\ ~(s.exit # "pending" \/ Queued(s) \/ s.died)
           /\ s.d.tok # 0 /\ s.d.exitSt = "pending"
  <2>1. PublishExit(s) = s
    BY <1>8 DEF PublishExit
  <2> QED
    BY <1>2, <1>8, <2>1 DEF Told
<1>9. CASE /\ ~(s.exit # "pending" \/ Queued(s) \/ s.died)
           /\ s.d.tok # 0 /\ s.d.exitSt = "idle" /\ s.d.st # "closed"
  <2>1. PublishExit(s) = SealAndPublish(s)
    BY <1>9 DEF PublishExit
  <2>2. Step(s, SealAndPublish(s), c)
    BY <1>3, <1>9, SealAndPublishOK
  <2>3. Told(s)
    BY <1>9 DEF Told
  <2> QED
    BY <2>1, <2>2, <2>3 DEF Step, Same
<1>10. CASE /\ ~(s.exit # "pending" \/ Queued(s) \/ s.died)
            /\ s.d.tok = 0 \/ (s.d.exitSt = "idle" /\ s.d.st = "closed")
  <2>1. PICK t : t = LegacyExit(s)
    OBVIOUS
  <2>2. PublishExit(s) = IF t.exit = "done" THEN Retired(t) ELSE t
    BY <1>10, <2>1 DEF PublishExit
  <2>3. s.d.exitSt = "idle" /\ ~Owned(s)
    <3>1. CASE s.d.tok = 0
      <4>1. s.d = NoDelivery /\ s.conn # 0
        BY <3>1 DEF Good, LedgerOK, Numbers
      <4> QED
        BY <4>1, NoDeliveryFacts DEF Owned, Own
    <3>2. CASE s.d.tok # 0
      BY <1>10, <3>2 DEF Owned
    <3> QED
      BY <3>1, <3>2
  <2>4. Step(s, t, c) /\ t.d = s.d
    BY <1>10, <2>1, <2>3, LegacyExitOK
  <2>5. t.exit = "done" => Step(t, Retired(t), c)
    BY <2>4, RetiredOK DEF Step
  <2>6. Told(s)
    BY <2>3 DEF Told
  <2>7. Step(s, PublishExit(s), c)
    BY <2>2, <2>4, <2>5, StepTwice
  <2> QED
    BY <2>6, <2>7 DEF Step, Same
<1> QED
  BY <1>5, <1>6, <1>7, <1>8, <1>9, <1>10

LEMMA CapacityOK ==
  ASSUME NEW s, NEW c, Good(s, c), ~s.draining
  PROVE  Step(s, Capacity(s), c) /\ (~s.died => Told(Capacity(s)))
<1>1. PICK t : t = Rearmed(s)
  OBVIOUS
<1>2. Step(s, t, c) /\ t.died = s.died /\ t.draining = s.draining
  BY <1>1, RearmedOK
<1>3. Step(t, PublishExit(t), c) /\ (~t.died => Told(PublishExit(t)))
  BY <1>2, PublishExitOK DEF Step
<1> QED
  BY <1>1, <1>2, <1>3, StepTwice DEF Capacity

LEMMA CapacitySignalOK ==
  ASSUME NEW s, NEW c, Good(s, c), ~s.draining
  PROVE  Step(s, CapacitySignal(s), c) /\ (~s.died => Told(CapacitySignal(s)))
<1>1. PICK t : t = CompleteRecovery(s)
  OBVIOUS
<1>2. Step(s, t, c) /\ t.died = s.died
  BY <1>1, CompleteRecoveryOK
<1>3. Step(t, Capacity(t), c) /\ (~t.died => Told(Capacity(t)))
  BY <1>2, CapacityOK DEF Step, Same
<1> QED
  BY <1>1, <1>2, <1>3, StepTwice DEF CapacitySignal

LEMMA SettledOK ==
  ASSUME NEW s, NEW c, Good(s, c), ~s.draining
  PROVE  Step(s, Settled(s), c)
<1>1. Step(s, s, c)
  BY DEF Step, Same
<1> QED
  BY <1>1, CapacitySignalOK DEF Settled

-----------------------------------------------------------------------------
(* What settles, and what is acknowledged. *)

\* What a change of the ledger keeps of its delivery.
Kin(d, e) ==
  /\ e \in Ledger /\ e.tok = d.tok /\ e.conn = d.conn /\ e.recv = d.recv

LEMMA CreditedFacts ==
  ASSUME NEW d \in Ledger, NEW end \in Nat
  PROVE  LET e == Credited(d, end) IN
         /\ Kin(d, e) /\ e.sent = d.sent /\ e.cred = end /\ e.pend = d.pend
         /\ e.bounds = {b \in d.bounds : b >= end} /\ e.resAck = None /\ e.att = d.att
         /\ e.recEnd = d.recEnd /\ e.restore = d.restore /\ e.exitSt = d.exitSt
         /\ e.st = d.st \/ d.exitSt = "published"
<1> DEFINE B == {b \in d.bounds : b >= end}
           f == [d EXCEPT !.cred = end, !.resAck = None, !.bounds = B]
           g == [f EXCEPT !.st = "closed"]
<1>1. B \in SUBSET Nat /\ None \in Optional
  BY DEF Ledger, Optional
<1> HIDE DEF B
<1>2. f \in Ledger
  BY <1>1, Zenon DEF Ledger
<1>3. /\ f.tok = d.tok /\ f.conn = d.conn /\ f.recv = d.recv /\ f.sent = d.sent /\ f.cred = end
      /\ f.pend = d.pend /\ f.bounds = B /\ f.resAck = None /\ f.att = d.att
      /\ f.recEnd = d.recEnd /\ f.restore = d.restore /\ f.exitSt = d.exitSt /\ f.st = d.st
  BY DEF Ledger
<1> HIDE DEF f
<1>4. g \in Ledger
  BY <1>2, Zenon DEF Ledger, Stages
<1>5. /\ g.tok = f.tok /\ g.conn = f.conn /\ g.recv = f.recv /\ g.sent = f.sent /\ g.cred = f.cred
      /\ g.pend = f.pend /\ g.bounds = f.bounds /\ g.resAck = f.resAck /\ g.att = f.att
      /\ g.recEnd = f.recEnd /\ g.restore = f.restore /\ g.exitSt = f.exitSt
  BY <1>2 DEF Ledger
<1> HIDE DEF g
<1>6. PICK p \in BOOLEAN : p = (d.st = "sealed" /\ d.exitSt = "published" /\ end = d.recv)
  OBVIOUS
<1>7. Credited(d, end) = IF p THEN g ELSE f
  BY <1>6 DEF Credited, f, g, B
<1>8. p => d.exitSt = "published"
  BY <1>6
<1> QED
  BY <1>2, <1>3, <1>4, <1>5, <1>7, <1>8 DEF Kin, B

Counted(d) == [d EXCEPT !.sent = d.pend, !.bounds = @ \cup {d.pend}, !.pend = None, !.att = None]

LEMMA CountedFacts ==
  ASSUME NEW d \in Ledger, d.pend \in Nat
  PROVE  LET e == Counted(d) IN
         /\ Kin(d, e) /\ e.st = d.st /\ e.sent = d.pend /\ e.cred = d.cred
         /\ e.bounds = d.bounds \cup {d.pend} /\ e.pend = None /\ e.resAck = d.resAck
         /\ e.att = None /\ e.recEnd = d.recEnd /\ e.restore = d.restore /\ e.exitSt = d.exitSt
<1>1. d.bounds \cup {d.pend} \in SUBSET Nat /\ None \in Optional
  BY DEF Ledger, Optional
<1>2. PICK B : B = d.bounds \cup {d.pend}
  OBVIOUS
<1>3. Counted(d) = [d EXCEPT !.sent = d.pend, !.bounds = B, !.pend = None, !.att = None]
  BY <1>2 DEF Counted
<1>4. Counted(d) \in Ledger
  BY <1>1, <1>2, <1>3, Zenon DEF Ledger
<1> QED
  BY <1>2, <1>3, <1>4 DEF Ledger, Kin

LEMMA CommittedFacts ==
  ASSUME NEW d \in Ledger, d.pend \in Nat
  PROVE  LET e == Committed(d) IN
         /\ Kin(d, e) /\ e.sent = d.pend /\ e.pend = None /\ e.resAck = None /\ e.att = None
         /\ e.recEnd = d.recEnd /\ e.restore = d.restore /\ e.exitSt = d.exitSt
         /\ e.st = d.st \/ d.exitSt = "published"
         /\ d.resAck = None => e.cred = d.cred /\ e.bounds = d.bounds \cup {d.pend}
         /\ d.resAck # None => /\ e.cred = d.resAck
                               /\ e.bounds = {b \in d.bounds \cup {d.pend} : b >= d.resAck}
<1>1. PICK f : f = Counted(d)
  OBVIOUS
<1>2. /\ Kin(d, f) /\ f.st = d.st /\ f.sent = d.pend /\ f.cred = d.cred
      /\ f.bounds = d.bounds \cup {d.pend} /\ f.pend = None /\ f.resAck = d.resAck
      /\ f.att = None /\ f.recEnd = d.recEnd /\ f.restore = d.restore /\ f.exitSt = d.exitSt
  BY <1>1, CountedFacts
<1>3. Committed(d) = IF d.resAck = None THEN f ELSE Credited(f, d.resAck)
  BY <1>1 DEF Committed, Counted
<1>4. d.resAck # None => d.resAck \in Nat
  BY DEF Ledger, Optional
<1>5. CASE d.resAck = None
  BY <1>2, <1>3, <1>5
<1>6. CASE d.resAck # None
  <2>1. PICK e : e = Credited(f, d.resAck)
    OBVIOUS
  <2>2. /\ Kin(f, e) /\ e.sent = f.sent /\ e.cred = d.resAck /\ e.pend = f.pend
        /\ e.bounds = {b \in f.bounds : b >= d.resAck} /\ e.resAck = None /\ e.att = f.att
        /\ e.recEnd = f.recEnd /\ e.restore = f.restore /\ e.exitSt = f.exitSt
        /\ e.st = f.st \/ f.exitSt = "published"
    BY <1>2, <1>4, <1>6, <2>1, CreditedFacts DEF Kin
  <2> QED
    BY <1>2, <1>3, <1>6, <2>1, <2>2 DEF Kin
<1> QED
  BY <1>5, <1>6

\* A change of a delivery that stays.
LEMMA ChangedOK ==
  ASSUME NEW s, NEW c, Good(s, c), NEW e, Kin(s.d, e), NEW t, t = WithD(s, e),
         LedgerOK(t), s.d.cred <= e.cred,
         Own(s) => /\ Edge(e) = Edge(s.d) /\ e.recEnd \in {None, s.d.recEnd}
                   /\ \A x \in Ackable(s.d) : x > e.cred => x \in Ackable(e),
         Owned(s) /\ e.exitSt = "idle" => e.st # "closed"
  PROVE  /\ Good(t, c) /\ Alike(s, t) /\ t.d = e /\ t.exit = s.exit /\ t.died = s.died
         /\ t.faulted = s.faulted
<1>1. s \in Relay
  BY DEF Good, LedgerOK
<1>2. /\ Alike(s, t) /\ t.d = e /\ t.exit = s.exit /\ t.died = s.died
      /\ t.faulted = s.faulted
  BY <1>1, SetD DEF Kin
<1>3. Own(t) => Own(s)
  BY <1>2 DEF Own, Alike, Kin
<1>4. Owned(s) => Owned(t)
  BY <1>2 DEF Owned, Own, Alike, Kin
<1>5. Quiet(s, t)
  BY <1>2, <1>3, <1>4 DEF Quiet, Hushed, Alike, Loose, Kin
<1> QED
  BY <1>2, <1>5, QuietOK

LEMMA CommittedOK ==
  ASSUME NEW s, NEW c, Good(s, c), s.d.pend # None, NEW t, t = WithD(s, Committed(s.d))
  PROVE  Step(s, t, c) /\ t.died = s.died
<1>1. s \in Relay /\ s.d \in Ledger /\ LedgerOK(s)
  BY DEF Good, LedgerOK, Relay
<1>2. /\ s.d.sent \in Nat /\ s.d.recv \in Nat /\ s.d.cred \in Nat /\ s.d.pend \in Nat
      /\ s.made \in Nat /\ s.taken \in Nat
      /\ s.d.bounds \subseteq Nat /\ s.d.resAck \in Nat \cup {None} /\ s.d.recEnd \in Nat \cup {None}
  BY <1>1 DEF Ledger, Relay, Optional
<1>3. /\ Own(s) /\ s.d.sent < s.d.pend /\ s.d.pend <= s.d.recv
      /\ s.d.cred <= s.d.sent /\ s.d.recv <= s.taken /\ s.taken <= s.made
      /\ s.d.resAck # None => s.d.resAck = s.d.pend
      /\ s.d.bounds \subseteq s.d.cred..s.d.sent
  BY <1>1 DEF LedgerOK, Ahead, Offsets
<1>4. s.d.exitSt = "idle"
  BY <1>1, <1>2, <1>3 DEF LedgerOK, Exiting
<1>5. PICK e : e = Committed(s.d)
  OBVIOUS
<1>6. /\ Kin(s.d, e) /\ e.sent = s.d.pend /\ e.pend = None /\ e.resAck = None /\ e.att = None
      /\ e.recEnd = s.d.recEnd /\ e.restore = s.d.restore /\ e.exitSt = s.d.exitSt /\ e.st = s.d.st
      /\ s.d.resAck = None => e.cred = s.d.cred /\ e.bounds = s.d.bounds \cup {s.d.pend}
      /\ s.d.resAck # None => /\ e.cred = s.d.resAck
                              /\ e.bounds = {b \in s.d.bounds \cup {s.d.pend} : b >= s.d.resAck}
  BY <1>1, <1>2, <1>4, <1>5, CommittedFacts
<1>7. /\ e.cred \in Nat /\ s.d.cred <= e.cred /\ e.cred <= e.sent /\ e.bounds \subseteq e.cred..e.sent
      /\ s.d.pend \in e.bounds
      /\ \A b \in s.d.bounds : b > e.cred => b \in e.bounds
  <2>1. CASE s.d.resAck = None
    BY <1>2, <1>3, <1>6, <2>1
  <2>2. CASE s.d.resAck # None
    <3>1. e.cred = s.d.pend /\ e.bounds = {b \in s.d.bounds \cup {s.d.pend} : b >= s.d.pend}
      BY <1>3, <1>6, <2>2
    <3>2. e.bounds = {s.d.pend}
      BY <1>2, <1>3, <3>1
    <3>3. \A b \in s.d.bounds : ~(b > e.cred)
      BY <1>2, <1>3, <3>1
    <3> QED
      BY <1>2, <1>3, <1>6, <3>1, <3>2, <3>3
  <2> QED
    BY <2>1, <2>2
<1>8. Alike(s, t) /\ t.d = e /\ t.exit = s.exit
  BY <1>1, <1>5, <1>6, SetD DEF Kin
<1>9. LedgerOK(t)
  <2>1. Offsets(t)
    BY <1>1, <1>2, <1>3, <1>6, <1>7, <1>8 DEF LedgerOK, Offsets, Alike, Kin
  <2>2. Ahead(t)
    BY <1>6, <1>7, <1>8 DEF Ahead
  <2>3. Recovery(t)
    BY <1>1, <1>2, <1>3, <1>6, <1>8 DEF LedgerOK, Recovery, Kin
  <2>4. Exiting(t)
    BY <1>1, <1>4, <1>6, <1>8 DEF LedgerOK, Exiting, Own, Alike, Kin
  <2>5. Numbers(t)
    BY <1>1, <1>3, <1>6, <1>8, OwnTok DEF LedgerOK, Numbers, Alike, Kin
  <2> QED
    BY <1>8, <2>1, <2>2, <2>3, <2>4, <2>5 DEF LedgerOK, Alike
<1>10. Edge(e) = Edge(s.d)
  BY <1>6 DEF Edge
<1>11. ASSUME NEW x \in Ackable(s.d), x > e.cred PROVE x \in Ackable(e)
  BY <1>3, <1>6, <1>7, <1>11 DEF Ackable
<1>12. Owned(s) /\ e.exitSt = "idle" => e.st # "closed"
  BY <1>4, <1>6 DEF Owned
<1>13. Good(t, c) /\ t.died = s.died
  BY <1>5, <1>6, <1>7, <1>9, <1>10, <1>11, <1>12, ChangedOK
<1> QED
  BY <1>4, <1>6, <1>8, <1>13 DEF Step, Same, Told, Alike

LEMMA CreditedOK ==
  ASSUME NEW s, NEW c, Good(s, c), s.d.tok # 0, NEW end \in Nat, s.d.cred < end, end <= s.d.sent,
         NEW t, t = WithD(s, Credited(s.d, end))
  PROVE  Step(s, t, c) /\ t.died = s.died
<1>1. s \in Relay /\ s.d \in Ledger /\ LedgerOK(s)
  BY DEF Good, LedgerOK, Relay
<1>2. /\ s.d.sent \in Nat /\ s.d.recv \in Nat /\ s.d.cred \in Nat /\ s.d.bounds \subseteq Nat
      /\ s.d.bounds \subseteq s.d.cred..s.d.sent
  BY <1>1 DEF Ledger, LedgerOK, Ahead
<1>3. PICK e : e = Credited(s.d, end)
  OBVIOUS
<1>4. /\ Kin(s.d, e) /\ e.sent = s.d.sent /\ e.cred = end /\ e.pend = s.d.pend
      /\ e.bounds = {b \in s.d.bounds : b >= end} /\ e.resAck = None /\ e.att = s.d.att
      /\ e.recEnd = s.d.recEnd /\ e.restore = s.d.restore /\ e.exitSt = s.d.exitSt
      /\ e.st = s.d.st \/ s.d.exitSt = "published"
  BY <1>1, <1>3, CreditedFacts
<1>5. Alike(s, t) /\ t.d = e /\ t.exit = s.exit
  BY <1>1, <1>3, <1>4, SetD DEF Kin
<1>6. LedgerOK(t)
  <2>1. Offsets(t)
    BY <1>1, <1>4, <1>5 DEF LedgerOK, Offsets, Alike, Kin
  <2>2. Ahead(t)
    <3>1. e.bounds \subseteq e.cred..e.sent
      BY <1>2, <1>4
    <3> QED
      BY <1>1, <1>4, <1>5, <3>1 DEF LedgerOK, Ahead, Own, Alike, Kin
  <2>3. Recovery(t)
    BY <1>1, <1>4, <1>5 DEF LedgerOK, Recovery, Kin
  <2>4. Exiting(t)
    BY <1>1, <1>4, <1>5 DEF LedgerOK, Exiting, Own, Alike, Kin
  <2>5. Numbers(t)
    BY <1>1, <1>4, <1>5 DEF LedgerOK, Numbers, Alike, Kin
  <2> QED
    BY <1>5, <2>1, <2>2, <2>3, <2>4, <2>5 DEF LedgerOK, Alike
<1>7. Edge(e) = Edge(s.d) /\ s.d.cred <= e.cred
  BY <1>2, <1>4 DEF Edge
<1>8. ASSUME Own(s), NEW x \in Ackable(s.d), x > e.cred PROVE x \in Ackable(e)
  <2>1. s.d.resAck # None => s.d.resAck = s.d.pend
    BY <1>1, <1>8 DEF LedgerOK, Ahead
  <2>2. x \in s.d.bounds => x \in e.bounds
    BY <1>2, <1>4, <1>8
  <2> QED
    BY <1>4, <1>8, <2>1, <2>2 DEF Ackable
<1>9. Owned(s) /\ e.exitSt = "idle" => e.st # "closed"
  BY <1>4 DEF Owned
<1>10. Good(t, c) /\ t.died = s.died
  BY <1>3, <1>4, <1>6, <1>7, <1>8, <1>9, ChangedOK
<1> QED
  BY <1>4, <1>5, <1>10 DEF Step, Same, Told, Alike

LEMMA CommitSendOK ==
  ASSUME NEW s, NEW c, Good(s, c), s.d.pend # None, ~s.draining
  PROVE  Step(s, CommitSend(s), c)
<1>1. PICK t : t = WithD(s, Committed(s.d))
  OBVIOUS
<1>2. Step(s, t, c)
  BY <1>1, CommittedOK
<1>3. PICK u : u = CompleteRecovery(t)
  OBVIOUS
<1>4. Step(s, u, c)
  BY <1>2, <1>3, CompleteRecoveryOK, StepTwice DEF Step
<1>5. PICK v : v = Capacity(u)
  OBVIOUS
<1>6. ~u.draining /\ Good(u, c)
  BY <1>4 DEF Step, Same
<1>7. Step(u, v, c)
  BY <1>5, <1>6, CapacityOK
<1>8. Step(s, v, c)
  BY <1>4, <1>7, StepTwice
<1>9. Step(v, Pump(v), c)
  BY <1>8, PumpOK DEF Step
<1>10. CommitSend(s) = Pump(v)
  BY <1>1, <1>3, <1>5 DEF CommitSend, WithD
<1> QED
  BY <1>8, <1>9, <1>10, StepTwice

Noted(d, st) == [d EXCEPT !.exitSt = "published", !.st = st]

LEMMA NotedFacts ==
  ASSUME NEW d \in Ledger, NEW st \in Stages
  PROVE  LET e == Noted(d, st) IN
         /\ Kin(d, e) /\ e.sent = d.sent /\ e.cred = d.cred /\ e.bounds = d.bounds /\ e.pend = d.pend
         /\ e.resAck = d.resAck /\ e.att = d.att /\ e.recEnd = d.recEnd
         /\ e.restore = d.restore /\ e.exitSt = "published"
<1>1. Noted(d, st) \in Ledger
  BY Zenon DEF Ledger, ExitSts, Noted
<1> QED
  BY <1>1 DEF Ledger, Noted, Kin

\* The exit frame is written: the exit is published, and nothing else changes.
LEMMA ExitPublishedOK ==
  ASSUME NEW s, NEW c, Good(s, c), s.d.exitSt = "pending"
  PROVE  LET t == ExitPublished(s) IN Good(t, c) /\ t.draining = s.draining /\ t.died = s.died
<1>1. s \in Relay /\ s.d \in Ledger /\ LedgerOK(s)
  BY DEF Good, LedgerOK, Relay
<1>2. PICK st : st = IF s.d.cred = s.d.recv THEN "closed" ELSE s.d.st
  OBVIOUS
<1>3. st \in Stages
  BY <1>1, <1>2 DEF Ledger, Stages
<1>4. PICK e : e = Noted(s.d, st)
  OBVIOUS
<1>5. PICK t : t = WithD(s, e)
  OBVIOUS
<1>6. ExitPublished(s) = t
  BY <1>1, <1>2, <1>4, <1>5 DEF ExitPublished, WithD, Noted, Relay
<1>7. /\ Kin(s.d, e) /\ e.sent = s.d.sent /\ e.cred = s.d.cred /\ e.bounds = s.d.bounds
      /\ e.pend = s.d.pend /\ e.resAck = s.d.resAck /\ e.att = s.d.att /\ e.recEnd = s.d.recEnd
      /\ e.restore = s.d.restore /\ e.exitSt = "published"
  BY <1>1, <1>3, <1>4, NotedFacts
<1>8. Alike(s, t) /\ t.d = e /\ t.exit = s.exit
  BY <1>1, <1>5, <1>7, SetD DEF Kin
<1>9. LedgerOK(t)
  <2>1. Offsets(t) /\ Recovery(t) /\ Exiting(t)
    BY <1>1, <1>7, <1>8 DEF LedgerOK, Offsets, Recovery, Exiting, Own, Alike, Kin
  <2>2. Ahead(t)
    BY <1>1, <1>7, <1>8 DEF LedgerOK, Ahead, Own, Alike, Kin
  <2>3. Numbers(t)
    BY <1>1, <1>7, <1>8, OwnTok DEF LedgerOK, Exiting, Numbers, Alike, Kin
  <2> QED
    BY <1>8, <2>1, <2>2, <2>3 DEF LedgerOK, Alike
<1>10. /\ s.d.cred <= e.cred /\ Edge(e) = Edge(s.d) /\ Ackable(e) = Ackable(s.d)
       /\ e.recEnd \in {None, s.d.recEnd}
  BY <1>1, <1>7 DEF Edge, Ackable, Ledger
<1>11. Good(t, c) /\ t.died = s.died
  BY <1>5, <1>7, <1>9, <1>10, ChangedOK
<1> QED
  BY <1>6, <1>8, <1>11 DEF Alike

Recovered(d) == [d EXCEPT !.completing = FALSE, !.recEnd = None]

LEMMA RecoveredFacts ==
  ASSUME NEW d \in Ledger
  PROVE  LET e == Recovered(d) IN
         /\ Kin(d, e) /\ e.st = d.st /\ e.sent = d.sent /\ e.cred = d.cred /\ e.bounds = d.bounds
         /\ e.pend = d.pend /\ e.resAck = d.resAck /\ e.att = d.att /\ e.recEnd = None
         /\ e.restore = d.restore /\ e.exitSt = d.exitSt
<1>1. Recovered(d) \in Ledger
  BY Zenon DEF Ledger, Optional, Recovered
<1> QED
  BY <1>1 DEF Ledger, Recovered, Kin

LEMMA RecoveredOK ==
  ASSUME NEW s, NEW c, Good(s, c), s.d.tok # 0, NEW t, t = WithD(s, Recovered(s.d))
  PROVE  Step(s, t, c)
<1>1. s \in Relay /\ s.d \in Ledger /\ LedgerOK(s)
  BY DEF Good, LedgerOK, Relay
<1>2. PICK e : e = Recovered(s.d)
  OBVIOUS
<1>3. /\ Kin(s.d, e) /\ e.st = s.d.st /\ e.sent = s.d.sent /\ e.cred = s.d.cred /\ e.bounds = s.d.bounds
      /\ e.pend = s.d.pend /\ e.resAck = s.d.resAck /\ e.att = s.d.att /\ e.recEnd = None
      /\ e.restore = s.d.restore /\ e.exitSt = s.d.exitSt
  BY <1>1, <1>2, RecoveredFacts
<1>4. Alike(s, t) /\ t.d = e /\ t.exit = s.exit
  BY <1>1, <1>2, <1>3, SetD DEF Kin
<1>5. LedgerOK(t)
  <2>1. Offsets(t) /\ Recovery(t) /\ Exiting(t) /\ Numbers(t)
    BY <1>1, <1>3, <1>4 DEF LedgerOK, Offsets, Recovery, Exiting, Numbers, Own, Alike, Kin
  <2>2. Ahead(t)
    BY <1>1, <1>3, <1>4 DEF LedgerOK, Ahead, Own, Alike, Kin
  <2> QED
    BY <1>4, <2>1, <2>2 DEF LedgerOK, Alike
<1>6. /\ s.d.cred <= e.cred /\ Edge(e) = Edge(s.d) /\ Ackable(e) = Ackable(s.d)
      /\ Owned(s) /\ e.exitSt = "idle" => e.st # "closed"
  BY <1>1, <1>3 DEF Edge, Ackable, Ledger, Owned
<1>7. Good(t, c) /\ t.died = s.died
  BY <1>2, <1>3, <1>5, <1>6, ChangedOK
<1> QED
  BY <1>3, <1>4, <1>7 DEF Step, Same, Told, Alike

LEMMA RecoveryCompletedOK ==
  ASSUME NEW s, NEW c, Good(s, c), s.d.tok # 0, ~s.draining
  PROVE  Step(s, RecoveryCompleted(s), c)
<1>1. s \in Relay
  BY DEF Good, LedgerOK
<1>2. PICK t : t = WithD(s, Recovered(s.d))
  OBVIOUS
<1>3. Step(s, t, c)
  BY <1>2, RecoveredOK
<1>4. PICK v : v = Capacity(t)
  OBVIOUS
<1>5. Step(s, v, c)
  BY <1>3, <1>4, CapacityOK, StepTwice DEF Step, Same
<1>6. Step(v, Pump(v), c)
  BY <1>5, PumpOK DEF Step
<1>7. t = [s EXCEPT !.d.completing = FALSE, !.d.recEnd = None]
  BY <1>1, <1>2 DEF WithD, Recovered, Relay
<1>8. RecoveryCompleted(s) = Pump(v)
  BY <1>4, <1>7 DEF RecoveryCompleted
<1> QED
  BY <1>5, <1>6, <1>8, StepTwice

Started(d) == [d EXCEPT !.activating = FALSE]

LEMMA StartedFacts ==
  ASSUME NEW d \in Ledger
  PROVE  Marked(d, Started(d)) /\ Started(d).att = d.att
<1>1. Started(d) \in Ledger
  BY Zenon DEF Ledger, Started
<1> QED
  BY <1>1 DEF Ledger, Started, Marked

LEMMA ActivatedOK ==
  ASSUME NEW s, NEW c, Good(s, c), s.d.restore \/ Own(s), ~s.draining
  PROVE  Step(s, Activated(s), c)
<1>1. s \in Relay /\ s.d \in Ledger /\ LedgerOK(s)
  BY DEF Good, LedgerOK, Relay
<1>2. CASE s.d.restore
  <2>1. ~Owned(s)
    BY <1>1, <1>2 DEF LedgerOK, Exiting, Owned
  <2>2. Step(s, Retired(s), c)
    BY <2>1, RetiredOK
  <2>3. Step(Retired(s), Capacity(Retired(s)), c)
    BY <2>2, CapacityOK DEF Step, Same
  <2> QED
    BY <1>2, <2>2, <2>3, StepTwice DEF Activated
<1>3. CASE ~s.d.restore
  <2>1. PICK t : t = WithD(s, Started(s.d))
    OBVIOUS
  <2>2. Step(s, t, c)
    BY <1>1, <1>3, <2>1, OwnTok, StartedFacts, MarkedOK
  <2>3. PICK u : u = CompleteRecovery(t)
    OBVIOUS
  <2>4. Step(s, u, c)
    BY <2>2, <2>3, CompleteRecoveryOK, StepTwice DEF Step
  <2>5. PICK v : v = Pump(u)
    OBVIOUS
  <2>6. Step(s, v, c)
    BY <2>4, <2>5, PumpOK, StepTwice DEF Step
  <2>7. Step(v, Capacity(v), c)
    BY <2>6, CapacityOK DEF Step, Same
  <2>8. t = [s EXCEPT !.d.activating = FALSE]
    BY <1>1, <2>1 DEF WithD, Started, Relay
  <2>9. Activated(s) = Capacity(v)
    BY <1>3, <2>3, <2>5, <2>8 DEF Activated
  <2> QED
    BY <2>6, <2>7, <2>9, StepTwice
<1> QED
  BY <1>2, <1>3

LEMMA CreditAvailableOK ==
  ASSUME NEW s, NEW c, Good(s, c), ~s.draining, Told(s)
  PROVE  Step(s, CreditAvailable(s), c)
<1>1. s.d.exitSt \in {"idle", "pending", "published"}
  BY DEF Good, LedgerOK, Relay, Ledger, ExitSts
<1>2. CASE s.d.tok = 0 \/ s.d.restore \/ s.d.exitSt = "pending"
  BY <1>2 DEF CreditAvailable, Step, Same
<1>3. CASE ~(s.d.tok = 0 \/ s.d.restore \/ s.d.exitSt = "pending") /\ s.d.st = "closed"
  <2>1. s.exit = "done" \/ ~Owned(s)
    BY <1>1, <1>3 DEF Told, Owned
  <2>2. Step(s, Retired(s), c)
    BY <2>1, RetiredOK
  <2>3. Step(Retired(s), Capacity(Retired(s)), c)
    BY <2>2, CapacityOK DEF Step, Same
  <2> QED
    BY <1>3, <2>2, <2>3, StepTwice DEF CreditAvailable
<1>4. CASE ~(s.d.tok = 0 \/ s.d.restore \/ s.d.exitSt = "pending") /\ s.d.st # "closed"
  <2>1. Step(s, Pump(s), c)
    BY PumpOK
  <2>2. Step(Pump(s), Capacity(Pump(s)), c)
    BY <2>1, CapacityOK DEF Step, Same
  <2> QED
    BY <1>4, <2>1, <2>2, StepTwice DEF CreditAvailable
<1> QED
  BY <1>2, <1>3, <1>4

Reserved(d, end) == [d EXCEPT !.resAck = end]

LEMMA ReservedFacts ==
  ASSUME NEW d \in Ledger, NEW end \in Nat
  PROVE  LET e == Reserved(d, end) IN
         /\ Kin(d, e) /\ e.st = d.st /\ e.sent = d.sent /\ e.cred = d.cred /\ e.bounds = d.bounds
         /\ e.pend = d.pend /\ e.resAck = end /\ e.att = d.att /\ e.recEnd = d.recEnd
         /\ e.restore = d.restore /\ e.exitSt = d.exitSt
<1>1. Reserved(d, end) \in Ledger
  BY Zenon DEF Ledger, Optional, Reserved
<1> QED
  BY <1>1 DEF Ledger, Reserved, Kin

LEMMA ReservedOK ==
  ASSUME NEW s, NEW c, Good(s, c), Own(s), s.d.pend # None, NEW t, t = WithD(s, Reserved(s.d, s.d.pend))
  PROVE  Step(s, t, c)
<1>1. s \in Relay /\ s.d \in Ledger /\ LedgerOK(s)
  BY DEF Good, LedgerOK, Relay
<1>2. s.d.pend \in Nat
  BY <1>1 DEF Ledger, Optional
<1>3. PICK e : e = Reserved(s.d, s.d.pend)
  OBVIOUS
<1>4. /\ Kin(s.d, e) /\ e.st = s.d.st /\ e.sent = s.d.sent /\ e.cred = s.d.cred /\ e.bounds = s.d.bounds
      /\ e.pend = s.d.pend /\ e.resAck = s.d.pend /\ e.att = s.d.att /\ e.recEnd = s.d.recEnd
      /\ e.restore = s.d.restore /\ e.exitSt = s.d.exitSt
  BY <1>1, <1>2, <1>3, ReservedFacts
<1>5. Alike(s, t) /\ t.d = e /\ t.exit = s.exit
  BY <1>1, <1>3, <1>4, SetD DEF Kin
<1>6. LedgerOK(t)
  <2>1. Offsets(t) /\ Recovery(t) /\ Exiting(t) /\ Numbers(t)
    BY <1>1, <1>4, <1>5, OwnTok DEF LedgerOK, Offsets, Recovery, Exiting, Numbers, Own, Alike, Kin
  <2>2. Ahead(t)
    BY <1>1, <1>4, <1>5 DEF LedgerOK, Ahead, Own, Alike, Kin
  <2> QED
    BY <1>5, <2>1, <2>2 DEF LedgerOK, Alike
<1>7. /\ s.d.cred <= e.cred /\ Edge(e) = Edge(s.d) /\ e.recEnd \in {None, s.d.recEnd}
      /\ Owned(s) /\ e.exitSt = "idle" => e.st # "closed"
  BY <1>1, <1>4 DEF Edge, Ledger, Owned
<1>8. ASSUME NEW x \in Ackable(s.d) PROVE x \in Ackable(e)
  <2>1. s.d.resAck # None => s.d.resAck = s.d.pend
    BY <1>1 DEF LedgerOK, Ahead
  <2> QED
    BY <1>4, <1>8, <2>1 DEF Ackable
<1>9. Good(t, c) /\ t.died = s.died
  BY <1>3, <1>4, <1>6, <1>7, <1>8, ChangedOK
<1> QED
  BY <1>4, <1>5, <1>9 DEF Step, Same, Told, Alike

LEMMA AcknowledgedOK ==
  ASSUME NEW s, NEW c, Good(s, c), Own(s), ~s.draining, Told(s), NEW end \in Nat
  PROVE  Step(s, Acknowledged(s, end), c)
<1>1. s \in Relay /\ s.d \in Ledger /\ LedgerOK(s) /\ s.d.tok # 0
  BY OwnTok DEF Good, LedgerOK, Relay
<1>2. s.d.cred \in Nat /\ s.d.sent \in Nat
  BY <1>1 DEF Ledger
<1>3. CASE end \notin Ackable(s.d) \/ end <= s.d.cred \/ s.d.st = "closed"
  BY <1>3 DEF Acknowledged, Step, Same
<1>4. CASE ~(end \notin Ackable(s.d) \/ end <= s.d.cred \/ s.d.st = "closed") /\ end > s.d.sent
  <2>1. end = s.d.pend /\ s.d.pend # None
    <3>1. end \notin s.d.bounds
      BY <1>1, <1>2, <1>4 DEF LedgerOK, Ahead
    <3>2. s.d.resAck # None => s.d.resAck = s.d.pend
      BY <1>1 DEF LedgerOK, Ahead
    <3> QED
      BY <1>4, <3>1, <3>2 DEF Ackable
  <2>2. PICK t : t = WithD(s, Reserved(s.d, s.d.pend))
    OBVIOUS
  <2>3. Step(s, t, c)
    BY <2>1, <2>2, ReservedOK
  <2>4. t = [s EXCEPT !.d.resAck = end]
    BY <1>1, <2>1, <2>2 DEF WithD, Reserved, Relay
  <2>5. Acknowledged(s, end) = t
    BY <1>4, <2>4 DEF Acknowledged
  <2> QED
    BY <2>3, <2>5
<1>5. CASE ~(end \notin Ackable(s.d) \/ end <= s.d.cred \/ s.d.st = "closed") /\ ~(end > s.d.sent)
  <2>1. PICK t : t = WithD(s, Credited(s.d, end))
    OBVIOUS
  <2>2. Step(s, t, c)
    BY <1>1, <1>2, <1>5, <2>1, CreditedOK
  <2>3. Step(s, CreditAvailable(t), c)
    BY <2>2, CreditAvailableOK, StepTwice DEF Step, Same
  <2>4. Acknowledged(s, end) = IF CreditAvailable(t).died THEN t ELSE CreditAvailable(t)
    BY <1>5, <2>1 DEF Acknowledged, WithD
  <2> QED
    BY <2>2, <2>3, <2>4
<1> QED
  BY <1>3, <1>4, <1>5

-----------------------------------------------------------------------------
(* What the PTY writes, and the end of a link. *)

\* A callback may take output from the queue as well.
Move(s, t, c) ==
  /\ Good(t, c) /\ t.draining = s.draining /\ (Told(s) => Told(t))
  /\ (s.exit = "no" <=> t.exit = "no") /\ (t.died => s.died \/ Wide # {})

LEMMA StepMove ==
  ASSUME NEW r, NEW s, NEW t, NEW c, Move(r, s, c), Step(s, t, c)
  PROVE  Move(r, t, c)
BY DEF Move, Step, Same

\* A change of the flags and of what the PTY has written.
Loaded(s, t) ==
  /\ t \in Relay /\ t.d = s.d /\ t.wire = s.wire /\ t.tokens = s.tokens /\ t.conn = s.conn
  /\ t.open = s.open /\ t.taken = s.taken /\ t.faulted = s.faulted

LEMMA LoadedOK ==
  ASSUME NEW s, NEW c, Good(s, c), NEW t, Loaded(s, t),
         t.made = s.made \/ (s.exit = "no" /\ t.made \in Ends /\ s.made <= t.made),
         t.exit = s.exit \/ (s.exit = "no" /\ t.exit = "pending")
  PROVE  Good(t, c)
<1>1. LedgerOK(s) /\ s \in Relay /\ s.d \in Ledger
  BY DEF Good, LedgerOK, Relay
<1>2. s.exit = "no" => s.d.exitSt = "idle"
  BY <1>1 DEF LedgerOK, Exiting, Ledger, ExitSts
<1>3. LedgerOK(t)
  <2>1. /\ s.made \in Nat /\ t.made \in Nat /\ s.taken \in Nat /\ s.made <= t.made /\ t.made <= Max(Ends)
        /\ t.made \in {0} \cup Ends
    <3>1. s.made \in Nat /\ t.made \in Nat /\ s.taken \in Nat /\ Max(Ends) \in Nat
      BY <1>1, EndsOK DEF Loaded, Relay
    <3>2. CASE t.made = s.made
      BY <1>1, <3>1, <3>2 DEF LedgerOK, Offsets
    <3>3. CASE t.made \in Ends /\ s.made <= t.made
      BY <3>1, <3>3, EndsOK
    <3> QED
      BY <3>1, <3>2, <3>3
  <2>2. s.taken <= t.made
    BY <1>1, <2>1 DEF LedgerOK, Offsets
  <2>3. Offsets(t)
    BY <1>1, <2>1, <2>2 DEF LedgerOK, Offsets, Loaded
  <2>4. Exiting(t)
    BY <1>1, <1>2 DEF LedgerOK, Exiting, Own, Loaded
  <2>5. Ahead(t) /\ Recovery(t) /\ Numbers(t)
    BY <1>1 DEF LedgerOK, Ahead, Recovery, Numbers, Own, Loaded
  <2> QED
    BY <2>3, <2>4, <2>5 DEF LedgerOK, Loaded
<1>4. Quiet(s, t)
  <2>1. s.d.cred \in Nat /\ s.d.cred <= s.d.cred
    BY <1>1 DEF Ledger
  <2> QED
    BY <2>1 DEF Quiet, Hushed, Loaded, Own, Owned, Loose
<1> QED
  BY <1>3, <1>4, QuietOK

Drained(s, b) == [s EXCEPT !.draining = b]

LEMMA DrainedOK ==
  ASSUME NEW s, NEW c, Good(s, c), NEW b \in BOOLEAN
  PROVE  LET t == Drained(s, b) IN
         /\ Good(t, c) /\ t.d = s.d /\ t.exit = s.exit /\ t.draining = b
         /\ t.made = s.made /\ t.taken = s.taken /\ t.died = s.died
<1>1. s \in Relay
  BY DEF Good, LedgerOK
<1>2. PICK t : t = Drained(s, b)
  OBVIOUS
<1>3. /\ Loaded(s, t) /\ t.exit = s.exit /\ t.draining = b /\ t.made = s.made
      /\ t.died = s.died
  BY <1>1, <1>2 DEF Loaded, Relay, Drained
<1> QED
  BY <1>2, <1>3, LoadedOK DEF Loaded

Fed(d, recv) == [d EXCEPT !.recv = recv]

LEMMA FedFacts ==
  ASSUME NEW d \in Ledger, NEW recv \in Nat
  PROVE  LET e == Fed(d, recv) IN
         /\ e \in Ledger /\ e.tok = d.tok /\ e.conn = d.conn /\ e.recv = recv
         /\ e.st = d.st /\ e.sent = d.sent /\ e.cred = d.cred /\ e.bounds = d.bounds
         /\ e.pend = d.pend /\ e.resAck = d.resAck /\ e.att = d.att /\ e.recEnd = d.recEnd
         /\ e.restore = d.restore /\ e.exitSt = d.exitSt
<1>1. Fed(d, recv) \in Ledger
  BY Zenon DEF Ledger, Fed
<1> QED
  BY <1>1 DEF Ledger, Fed

\* A chunk is taken, and a delivery takes it in.
Taken(s, e) == [s EXCEPT !.taken = NextEnd(@), !.d = e]

LEMMA TakenOK ==
  ASSUME NEW s, NEW c, Good(s, c), s.taken < s.made, NEW e,
         (s.d.tok = 0 /\ e = s.d) \/ (s.d.tok # 0 /\ e = Fed(s.d, NextEnd(s.taken))),
         NEW t, t = Taken(s, e)
  PROVE  /\ Good(t, c) /\ t.draining = s.draining /\ (Told(s) => Told(t)) /\ t.exit = s.exit
         /\ t.taken = NextEnd(s.taken) /\ t.died = s.died
<1>1. LedgerOK(s) /\ s \in Relay /\ s.d \in Ledger
  BY DEF Good, LedgerOK, Relay
<1>2. /\ s.taken \in Nat /\ s.made \in Nat /\ s.d.recv \in Nat /\ s.d.sent \in Nat /\ Max(Ends) \in Nat
      /\ s.made <= Max(Ends) /\ s.made \in Ends
  BY <1>1, EndsOK DEF Relay, Ledger, LedgerOK, Offsets
<1>3. /\ NextEnd(s.taken) \in Ends /\ NextEnd(s.taken) \in Nat /\ s.taken < NextEnd(s.taken)
      /\ NextEnd(s.taken) <= s.made
  <2>1. s.taken < Max(Ends)
    BY <1>2
  <2> QED
    BY <1>2, <2>1, NextEndOK
<1>4. PICK n \in Nat : n = NextEnd(s.taken)
  BY <1>3
<1>5. /\ e \in Ledger /\ e.tok = s.d.tok /\ e.conn = s.d.conn
      /\ e.st = s.d.st /\ e.sent = s.d.sent /\ e.cred = s.d.cred /\ e.bounds = s.d.bounds
      /\ e.pend = s.d.pend /\ e.resAck = s.d.resAck /\ e.att = s.d.att /\ e.recEnd = s.d.recEnd
      /\ e.restore = s.d.restore /\ e.exitSt = s.d.exitSt
      /\ e.recv = IF s.d.tok = 0 THEN s.d.recv ELSE n
  BY <1>1, <1>3, <1>4, FedFacts
<1>6. t = [s EXCEPT !.taken = n, !.d = e]
  BY <1>1, <1>4 DEF Taken
<1>7. /\ t \in Relay /\ t.d = e /\ t.taken = n
      /\ t.wire = s.wire /\ t.tokens = s.tokens /\ t.conn = s.conn /\ t.open = s.open
      /\ t.made = s.made /\ t.draining = s.draining /\ t.exit = s.exit
      /\ t.faulted = s.faulted /\ t.died = s.died
  BY <1>1, <1>5, <1>6 DEF Relay
<1>8. s.d.recv <= s.taken /\ s.d.recv <= e.recv /\ e.recv <= n
  BY <1>1, <1>2, <1>3, <1>4, <1>5 DEF LedgerOK, Offsets
<1>9. s.d.exitSt = "idle" \/ s.d.sent = s.made
  BY <1>1 DEF LedgerOK, Exiting
<1>10. s.d.exitSt = "idle"
  BY <1>1, <1>2, <1>8, <1>9 DEF LedgerOK, Offsets
<1>11. LedgerOK(t)
  <2>1. Offsets(t)
    <3>1. e.recv \in Nat
      BY <1>5 DEF Ledger
    <3>2. t.d.tok # 0 => t.d.recv = t.taken
      BY <1>5, <1>7
    <3>3. t.d.cred <= t.d.sent /\ t.d.sent <= t.d.recv
      BY <1>1, <1>2, <1>5, <1>7, <1>8, <3>1 DEF LedgerOK, Offsets
    <3> QED
      BY <1>1, <1>2, <1>3, <1>4, <1>7, <1>8, <3>2, <3>3 DEF LedgerOK, Offsets
  <2>2. Ahead(t)
    <3>1. /\ s.d.pend \in Nat \cup {None} /\ s.d.resAck \in Nat \cup {None}
          /\ s.d.att \in Nat \cup {None} /\ e.recv \in Nat
      BY <1>1, <1>5 DEF Ledger, Optional
    <3>2. Own(t) <=> Own(s)
      BY <1>5, <1>7 DEF Own
    <3> QED
      BY <1>1, <1>2, <1>5, <1>7, <1>8, <3>1, <3>2 DEF LedgerOK, Ahead
  <2>3. Recovery(t)
    <3>1. s.d.recEnd \in Nat \cup {None} /\ e.recv \in Nat
      BY <1>1, <1>5 DEF Ledger, Optional
    <3> QED
      BY <1>1, <1>2, <1>5, <1>7, <1>8, <3>1 DEF LedgerOK, Recovery
  <2>4. Exiting(t)
    BY <1>1, <1>5, <1>7, <1>10 DEF LedgerOK, Exiting, Own
  <2>5. Numbers(t)
    <3>1. s.d.tok = 0 => e = s.d
      OBVIOUS
    <3> QED
      BY <1>1, <1>5, <1>7, <3>1 DEF LedgerOK, Numbers
  <2> QED
    BY <1>7, <2>1, <2>2, <2>3, <2>4, <2>5 DEF LedgerOK
<1>12. Quiet(s, t)
  <2>1. s.d.cred \in Nat /\ s.d.cred <= e.cred
    BY <1>1, <1>5 DEF Ledger
  <2> QED
    BY <1>5, <1>7, <2>1 DEF Quiet, Hushed, Own, Owned, Loose, Edge, Ackable
<1> QED
  BY <1>4, <1>5, <1>7, <1>11, <1>12, QuietOK DEF Told

LEMMA PublishOK ==
  ASSUME NEW s, NEW c, Good(s, c), s.taken < s.made
  PROVE  Move(s, Publish(s), c)
<1>1. s \in Relay
  BY DEF Good, LedgerOK
<1>2. CASE s.d.tok = 0
  <2>1. PICK t : t = Taken(s, s.d)
    OBVIOUS
  <2>2. Move(s, t, c)
    BY <1>2, <2>1, TakenOK DEF Move
  <2>3. t = [s EXCEPT !.taken = NextEnd(@)]
    BY <1>1, <2>1 DEF Taken, Relay
  <2>4. Publish(s) = t
    BY <1>2, <2>3 DEF Publish
  <2> QED
    BY <2>2, <2>4
<1>3. CASE s.d.tok # 0
  <2>1. PICK e : e = Fed(s.d, NextEnd(s.taken))
    OBVIOUS
  <2>2. PICK t : t = Taken(s, e)
    OBVIOUS
  <2>3. Move(s, t, c)
    BY <1>3, <2>1, <2>2, TakenOK DEF Move
  <2>4. Step(t, Pump(t), c)
    BY <2>3, PumpOK DEF Move
  <2>5. PICK u : u = [s EXCEPT !.taken = NextEnd(@)]
    OBVIOUS
  <2>6. t = [u EXCEPT !.d.recv = u.taken]
    BY <1>1, <2>1, <2>2, <2>5 DEF Taken, Fed, Relay
  <2>7. Publish(s) = Pump(t)
    BY <1>3, <2>5, <2>6 DEF Publish
  <2> QED
    BY <2>3, <2>4, <2>7, StepMove
<1> QED
  BY <1>2, <1>3

\* Between two callbacks, and after one.
Calm(s, c) == Good(s, c) /\ Rest(s)

LEMMA CalmStep ==
  ASSUME NEW s, NEW t, NEW c, Calm(s, c), Step(s, t, c)
  PROVE  Calm(t, c)
BY DEF Calm, Step, Same, Rest

LEMMA FlushQueuedOK ==
  ASSUME NEW s, NEW c, Calm(s, c), Queued(s)
  PROVE  Calm(FlushQueued(s), c)
<1>1. /\ Good(s, c) /\ ~s.draining /\ Told(s) /\ s.taken < s.made /\ s \in Relay
      /\ s.died => Wide # {}
  BY DEF Calm, Rest, Queued, Good, LedgerOK
<1>2. CASE ~Accepts(s)
  <2>1. PICK t : t = [s EXCEPT !.timer = FALSE]
    OBVIOUS
  <2>2. Alike(s, t) /\ t.d = s.d /\ t.exit = s.exit /\ t.faulted = s.faulted /\ t.died = s.died
    BY <1>1, <2>1 DEF Alike, Relay
  <2>3. Good(t, c) /\ Same(s, t)
    BY <1>1, <2>2, FlagsOK
  <2>4. FlushQueued(s) = t
    BY <1>2, <2>1 DEF FlushQueued
  <2> QED
    BY <1>1, <2>2, <2>3, <2>4 DEF Calm, Rest, Same
<1>3. CASE Accepts(s)
  <2>1. PICK r : r = Drained(s, TRUE)
    OBVIOUS
  <2>2. /\ Good(r, c) /\ r.d = s.d /\ r.exit = s.exit /\ r.draining
        /\ r.made = s.made /\ r.taken = s.taken /\ r.died = s.died
    BY <1>1, <2>1, DrainedOK
  <2>3. PICK q : q = Publish(r)
    OBVIOUS
  <2>4. Move(r, q, c)
    BY <1>1, <2>2, <2>3, PublishOK
  <2>5. PICK t : t = Drained(q, FALSE)
    OBVIOUS
  <2>6. Good(t, c) /\ t.d = q.d /\ t.exit = q.exit /\ ~t.draining /\ t.died = q.died
    BY <2>4, <2>5, DrainedOK DEF Move
  <2>7. Told(t) /\ (t.died => Wide # {})
    BY <1>1, <2>2, <2>4, <2>6 DEF Told, Move
  <2>8. PICK x : x = [t EXCEPT !.timer = TRUE]
    OBVIOUS
  <2>9. PICK y : y = [t EXCEPT !.timer = FALSE]
    OBVIOUS
  <2>10. /\ Alike(t, x) /\ x.d = t.d /\ x.exit = t.exit /\ x.faulted = t.faulted
         /\ Alike(t, y) /\ y.d = t.d /\ y.exit = t.exit /\ y.faulted = t.faulted
         /\ x.died = t.died /\ y.died = t.died
    <3>1. t \in Relay
      BY <2>6 DEF Good, LedgerOK
    <3> QED
      BY <2>8, <2>9, <3>1 DEF Alike, Relay
  <2>11. Good(x, c) /\ Same(t, x) /\ Good(y, c) /\ Same(t, y)
    BY <2>6, <2>10, FlagsOK
  <2>12. Calm(x, c) /\ Calm(y, c)
    BY <2>6, <2>7, <2>10, <2>11 DEF Calm, Rest, Same
  <2>13. Calm(PublishExit(y), c)
    BY <2>12, PublishExitOK, CalmStep DEF Calm, Rest
  <2>14. FlushQueued(s) = IF Queued(t) THEN x ELSE PublishExit(y)
    BY <1>3, <2>1, <2>3, <2>5, <2>8, <2>9 DEF FlushQueued, Drained
  <2> QED
    BY <2>12, <2>13, <2>14
<1> QED
  BY <1>2, <1>3

LEMMA ExitNowOK ==
  ASSUME NEW s, NEW c, Calm(s, c), s.exit = "no"
  PROVE  Calm(ExitNow(s), c)
<1>1. Good(s, c) /\ ~s.draining /\ Told(s) /\ (s.died => Wide # {})
  BY DEF Calm, Rest
<1>2. PICK t : t = IF Queued(s) /\ Accepts(s) THEN Publish(s) ELSE s
  OBVIOUS
<1>3. Move(s, t, c)
  <2>1. Queued(s) => Move(s, Publish(s), c)
    BY <1>1, PublishOK DEF Queued
  <2>2. Move(s, s, c)
    BY <1>1 DEF Move
  <2> QED
    BY <1>2, <2>1, <2>2
<1>4. Good(t, c) /\ t.exit = "no" /\ ~t.draining /\ t \in Relay /\ (t.died => Wide # {})
  BY <1>1, <1>3 DEF Move, Good, LedgerOK
<1>5. PICK u : u = [t EXCEPT !.exit = "pending"]
  OBVIOUS
<1>6. /\ Loaded(t, u) /\ u.made = t.made /\ u.exit = "pending" /\ u.draining = t.draining
      /\ u.died = t.died
  BY <1>4, <1>5 DEF Loaded, Relay
<1>7. Good(u, c)
  BY <1>4, <1>6, LoadedOK
<1>8. t.d.exitSt = "idle"
  BY <1>4 DEF Good, LedgerOK, Exiting
<1>9. Calm(u, c)
  BY <1>4, <1>6, <1>7, <1>8 DEF Calm, Rest, Told, Loaded
<1>10. Calm(PublishExit(u), c)
  BY <1>9, PublishExitOK, CalmStep DEF Calm, Rest
<1>11. ExitNow(s) = PublishExit(u)
  BY <1>2, <1>5 DEF ExitNow
<1> QED
  BY <1>10, <1>11

\* What a closed link leaves of a delivery.
Lost(d, x) == [d EXCEPT !.pend = None, !.completing = FALSE, !.exitSt = x]

LEMMA LostFacts ==
  ASSUME NEW d \in Ledger, NEW x \in ExitSts
  PROVE  LET e == Lost(d, x) IN
         /\ Kin(d, e) /\ e.st = d.st /\ e.sent = d.sent /\ e.cred = d.cred /\ e.bounds = d.bounds
         /\ e.pend = None /\ e.resAck = d.resAck /\ e.att = d.att /\ e.recEnd = d.recEnd
         /\ e.restore = d.restore /\ e.exitSt = x
<1>1. Lost(d, x) \in Ledger
  BY Zenon DEF Ledger, Optional, Lost
<1> QED
  BY <1>1 DEF Ledger, Lost, Kin

LEMMA LostNothing ==
  ASSUME NEW d \in Ledger, d.pend = None, d.completing = FALSE
  PROVE  Lost(d, d.exitSt) = d
BY DEF Lost, Ledger

Shut(s, e) == [s EXCEPT !.open = FALSE, !.full = FALSE, !.d = e]

LEMMA ShutOK ==
  ASSUME NEW s, NEW c, Good(s, c), NEW e,
         e = NoDelivery \/ (e = s.d /\ ~Own(s)) \/
         e = Lost(s.d, IF s.d.exitSt = "pending" THEN "idle" ELSE s.d.exitSt)
  PROVE  LET t == Shut(s, e) IN
         /\ Good(t, c) /\ t.draining = s.draining /\ (Told(s) => Told(t)) /\ ~t.open
         /\ t.died = s.died /\ t.conn = s.conn
<1>1. LedgerOK(s) /\ s \in Relay /\ s.d \in Ledger
  BY DEF Good, LedgerOK, Relay
<1>2. e \in Ledger
  <2>1. "idle" \in ExitSts /\ s.d.exitSt \in ExitSts
    BY <1>1 DEF Ledger, ExitSts
  <2>2. (IF s.d.exitSt = "pending" THEN "idle" ELSE s.d.exitSt) \in ExitSts
    BY <2>1
  <2> QED
    BY <1>1, <2>2, NoDeliveryFacts, LostFacts DEF Kin
<1>3. PICK t : t = Shut(s, e)
  OBVIOUS
<1>4. /\ t \in Relay /\ t.d = e /\ t.taken = s.taken /\ ~t.open
      /\ t.wire = s.wire /\ t.tokens = s.tokens /\ t.conn = s.conn
      /\ t.made = s.made /\ t.draining = s.draining /\ t.exit = s.exit
      /\ t.faulted = s.faulted /\ t.died = s.died
  BY <1>1, <1>2, <1>3 DEF Relay, Shut
<1>5. ~Own(t)
  BY <1>4 DEF Own
<1>6. CASE e = NoDelivery
  <2>1. s.taken \in Nat /\ s.made \in Nat /\ s.tokens \in Nat /\ s.conn \in Nat
    BY <1>1 DEF Relay
  <2>2. Offsets(t) /\ Numbers(t)
    BY <1>1, <1>4, <1>6, <2>1, NoDeliveryFacts DEF LedgerOK, Offsets, Numbers
  <2>3. Ahead(t) /\ Recovery(t) /\ Exiting(t)
    BY <1>4, <1>6, NoDeliveryFacts DEF Ahead, Recovery, Exiting
  <2>4. LedgerOK(t)
    BY <1>4, <2>2, <2>3 DEF LedgerOK
  <2>5. Quiet(s, t)
    BY <1>4, <1>5, <1>6, NoDeliveryFacts DEF Quiet, Hushed, Loose
  <2> QED
    BY <1>3, <1>4, <1>6, <2>4, <2>5, NoDeliveryFacts, QuietOK DEF Told
<1>7. CASE \/ e = s.d /\ ~Own(s)
           \/ e = Lost(s.d, IF s.d.exitSt = "pending" THEN "idle" ELSE s.d.exitSt)
  <2>1. PICK x : x = IF s.d.exitSt = "pending" THEN "idle" ELSE s.d.exitSt
    OBVIOUS
  <2>2. x \in ExitSts /\ x # "pending" /\ (x # "idle" => s.d.exitSt = x)
    BY <1>1, <2>1 DEF Ledger, ExitSts
  <2>3. /\ Kin(s.d, e) /\ e.st = s.d.st /\ e.sent = s.d.sent /\ e.cred = s.d.cred
        /\ e.bounds = s.d.bounds /\ e.pend = None /\ e.resAck = s.d.resAck /\ e.att = s.d.att
        /\ e.recEnd = s.d.recEnd /\ e.restore = s.d.restore
        /\ e.exitSt # "pending" /\ (e.exitSt # "idle" => s.d.exitSt = e.exitSt)
    <3>1. CASE e = s.d /\ ~Own(s)
      BY <1>1, <3>1 DEF LedgerOK, Ahead, Exiting, Kin
    <3>2. CASE e = Lost(s.d, x)
      BY <1>1, <2>2, <3>2, LostFacts
    <3> QED
      BY <1>7, <2>1, <3>1, <3>2
  <2>4. Offsets(t) /\ Recovery(t) /\ Exiting(t)
    BY <1>1, <1>4, <1>5, <2>3 DEF LedgerOK, Offsets, Recovery, Exiting, Kin
  <2>5. Ahead(t)
    BY <1>1, <1>4, <1>5, <2>3 DEF LedgerOK, Ahead, Kin
  <2>6. Numbers(t)
    <3>1. s.d.tok = 0 => e = NoDelivery
      <4> SUFFICES ASSUME s.d.tok = 0 PROVE e = NoDelivery
        OBVIOUS
      <4>1. s.d = NoDelivery
        BY <1>1 DEF LedgerOK, Numbers
      <4>2. Lost(NoDelivery, "idle") = NoDelivery
        BY NoDeliveryFacts, LostNothing
      <4> QED
        BY <1>7, <4>1, <4>2, NoDeliveryFacts
    <3> QED
      BY <1>1, <1>4, <2>3, <3>1 DEF LedgerOK, Numbers, Kin
  <2>7. LedgerOK(t)
    BY <1>4, <2>4, <2>5, <2>6 DEF LedgerOK
  <2>8. Quiet(s, t)
    <3>1. s.d.cred \in Nat /\ s.d.cred <= e.cred
      BY <1>1, <2>3 DEF Ledger
    <3> QED
      BY <1>4, <1>5, <2>3, <3>1 DEF Quiet, Hushed, Loose, Kin
  <2> QED
    BY <1>3, <1>4, <2>3, <2>7, <2>8, QuietOK DEF Told
<1> QED
  BY <1>6, <1>7

LEMMA ClosedOK ==
  ASSUME NEW s, NEW c, Calm(s, c)
  PROVE  LET t == Closed(s) IN Calm(t, c) /\ t.conn = s.conn /\ ~t.open
<1>1. Good(s, c) /\ ~s.draining /\ Told(s) /\ s \in Relay /\ (s.died => Wide # {})
  BY DEF Calm, Rest, Good, LedgerOK
<1>2. PICK e : e = IF Own(s) \/ s.d.restore THEN Unsettled(s.d) ELSE s.d
  OBVIOUS
<1>3. \/ e = NoDelivery \/ (e = s.d /\ ~Own(s))
      \/ e = Lost(s.d, IF s.d.exitSt = "pending" THEN "idle" ELSE s.d.exitSt)
  BY <1>2 DEF Unsettled, Lost
<1>4. PICK t : t = Shut(s, e)
  OBVIOUS
<1>5. /\ Good(t, c) /\ ~t.draining /\ Told(t) /\ t.conn = s.conn /\ ~t.open
      /\ t.died => Wide # {}
  BY <1>1, <1>3, <1>4, ShutOK
<1>6. Step(t, CapacitySignal(t), c)
  BY <1>5, CapacitySignalOK
<1>7. Closed(s) = CapacitySignal(t)
  BY <1>2, <1>4 DEF Closed, Shut
<1> QED
  BY <1>5, <1>6, <1>7 DEF Calm, Rest, Step, Same

-----------------------------------------------------------------------------
(* The client. *)

\* The client changes, and follows at most what it followed.
LEMMA ClientChangedOK ==
  ASSUME NEW s, NEW c, NEW b, Good(s, c), ClientOK(s, b),
         b.phase \in {"recovering", "live"} =>
           b.phase = c.phase /\ b.tok = c.tok /\ b.next = c.next /\ b.upto = c.upto /\ b.ends = c.ends,
         c.phase = "attaching" => b.phase = "attaching"
  PROVE  Good(s, b)
<1>1. s.wire \in Seq(Frames)
  BY DEF Good, LedgerOK, Relay
<1>2. Len(s.wire) \in Nat /\ DOMAIN s.wire = 1..Len(s.wire)
  BY <1>1, WireFacts
<1>3. ASSUME NEW t, Follows(b, t) PROVE Follows(c, t) /\ b.next = c.next
  BY <1>3 DEF Follows
<1>4. ASSUME NEW t, NEW n, NEW e, Reaches(s.wire, c, t, n, e) PROVE Reaches(s.wire, b, t, n, e)
  BY <1>3, <1>4 DEF Reaches
<1>5. ASSUME NEW t, NEW n, Hears(s.wire, b, t, n) PROVE Hears(s.wire, c, t, n)
  BY <1>3, <1>5 DEF Hears
<1>6. Responses(s.wire, b)
  BY DEF Good, WireOK, Responses
<1>7. Contiguous(s.wire, b)
  BY <1>4 DEF Good, WireOK, Contiguous
<1>8. Completes(s.wire, b)
  <2> SUFFICES ASSUME NEW j \in DOMAIN s.wire, s.wire[j].kind = "complete"
               PROVE  \E e \in Nat :
                        /\ Reaches(s.wire, b, s.wire[j].tok, j - 1, e)
                        /\ \A i \in 1..j - 1 : s.wire[i].kind = "pending" /\ s.wire[i].tok = s.wire[j].tok
                                               => s.wire[i].upto = e
                        /\ b.phase = "recovering" /\ b.tok = s.wire[j].tok => b.upto = e
    BY DEF Completes
  <2>1. PICK e \in Nat :
             /\ Reaches(s.wire, c, s.wire[j].tok, j - 1, e)
             /\ \A i \in 1..j - 1 : s.wire[i].kind = "pending" /\ s.wire[i].tok = s.wire[j].tok
                                    => s.wire[i].upto = e
             /\ c.phase = "recovering" /\ c.tok = s.wire[j].tok => c.upto = e
    BY DEF Good, WireOK, Completes
  <2>2. Reaches(s.wire, b, s.wire[j].tok, j - 1, e)
    BY <1>4, <2>1
  <2>3. b.phase = "recovering" /\ b.tok = s.wire[j].tok => b.upto = e
    BY <2>1
  <2> QED
    BY <2>1, <2>2, <2>3
<1>9. Ending(s, b)
  BY <1>4, <1>5 DEF Good, WireOK, Ending
<1>10. Joined(s, b)
  BY <1>4 DEF Good, Joined
<1>11. Credit(s, b)
  <2>1. ASSUME NEW e \in Nat, Known(s, b, e) PROVE Known(s, c, e)
    BY <1>3, <2>1 DEF Known, Follows
  <2> QED
    BY <2>1 DEF Good, Credit
<1>12. Fence(s, b)
  BY DEF Good, Fence
<1>13. Audience(s, b)
  BY <1>5 DEF Good, Audience
<1> QED
  BY <1>6, <1>7, <1>8, <1>9, <1>10, <1>11, <1>12, <1>13 DEF Good, WireOK

\* Nothing is in flight, and the client follows nothing.
LEMMA FreshOK ==
  ASSUME NEW s, NEW c, LedgerOK(s), s.wire = <<>>, ClientOK(s, c),
         c.phase \notin {"recovering", "live"}
  PROVE  Good(s, c)
<1>1. Len(s.wire) = 0 /\ DOMAIN s.wire = {}
  <2>1. Len(<<>>) = 0 /\ DOMAIN <<>> = 1..Len(<<>>)
    OBVIOUS
  <2> QED
    BY <2>1
<1>2. \A t : ~Follows(c, t)
  BY DEF Follows
<1>3. \A t, e : Reaches(s.wire, c, t, 0, e)
  BY <1>2 DEF Reaches
<1>4. \A t : ~Hears(s.wire, c, t, 0)
  BY <1>2 DEF Hears
<1>5. WireOK(s, c)
  BY <1>1 DEF WireOK, Responses, Contiguous, Completes, Ending
<1>6. Joined(s, c) /\ Fence(s, c) /\ Audience(s, c)
  BY <1>1, <1>3, <1>4 DEF Joined, Fence, Audience
<1>7. Credit(s, c)
  BY <1>1, <1>2 DEF Credit, Known
<1> QED
  BY <1>5, <1>6, <1>7 DEF Good

\* Before a request is answered, only output is in flight.
Plain(s) == \A i \in DOMAIN s.wire : s.wire[i].kind \in {"data", "complete"}

LEMMA PlainOK ==
  ASSUME NEW s, NEW c, Good(s, c), c.phase # "attaching", s.exit = "no"
  PROVE  Plain(s)
<1>1. s.wire \in Seq(Frames)
  BY DEF Good, LedgerOK, Relay
<1>2. DOMAIN s.wire = 1..Len(s.wire) /\ \A i \in 1..Len(s.wire) : s.wire[i] \in Frames
  BY <1>1, WireFacts
<1>3. \A i \in DOMAIN s.wire : s.wire[i].kind \in {"opened", "pending", "data", "complete", "restore", "exit"}
  BY <1>2, FrameFacts
<1>4. \A i \in DOMAIN s.wire : s.wire[i].kind \notin {"opened", "pending", "restore"}
  BY DEF Good, WireOK, Responses
<1>5. \A i \in DOMAIN s.wire : s.wire[i].kind # "exit"
  BY DEF Good, WireOK, Ending
<1> QED
  BY <1>3, <1>4, <1>5 DEF Plain

\* A new delivery, which nothing in flight belongs to.
Answers(s, t, f) ==
  /\ Response(f) /\ f.tok = s.tokens + 1 /\ t.wire = Append(s.wire, f) /\ t.tokens = s.tokens + 1
  /\ t.open = s.open /\ t.made = s.made /\ t.exit = s.exit /\ t.faulted = s.faulted
  /\ Own(t) /\ t.d.tok = f.tok /\ t.d.pend = None /\ t.d.sent = f.start /\ t.d.cred = f.start
  /\ t.d.exitSt = "idle" /\ t.d.st # "closed"
  /\ f.kind = "pending" => t.d.recEnd = f.upto
  /\ f.kind = "opened" => t.d.recEnd = None

LEMMA SendResponseOK ==
  ASSUME NEW s, NEW c, Good(s, c), c.phase = "attaching", s.exit = "no", ~Owned(s), Plain(s),
         NEW f \in Frames, NEW t, LedgerOK(t), Answers(s, t, f)
  PROVE  Good(t, c)
<1> USE DEF Answers
<1>1. /\ LedgerOK(s) /\ s \in Relay /\ s.wire \in Seq(Frames) /\ s.tokens \in Nat
  BY DEF Good, LedgerOK, Relay
<1>2. PICK v : v = Append(s.wire, f)
  OBVIOUS
<1>3. PICK n \in Nat : n = Len(s.wire)
  BY <1>1, WireFacts
<1>4. /\ v \in Seq(Frames) /\ Len(v) = n + 1 /\ t.wire = v
      /\ DOMAIN s.wire = 1..n /\ DOMAIN v = 1..n + 1
      /\ v[n + 1] = f /\ \A i \in 1..n : v[i] = s.wire[i]
      /\ \A i \in 1..n : s.wire[i] \in Frames
  BY <1>1, <1>2, <1>3, AppendFacts, WireFacts
<1>5. /\ f.kind \in {"opened", "pending"} /\ f.start \in Nat /\ At(f) = f.start /\ Carries(f, f.tok)
  BY FrameFacts DEF Response, At, Carries
<1>6. \A i \in 1..n : /\ s.wire[i].kind \in {"data", "complete"} /\ s.wire[i].tok \in Nat
                      /\ s.wire[i].tok <= s.tokens
  BY <1>4, FrameFacts DEF Plain, Good, WireOK
<1>7. \A i \in 1..n : s.wire[i].tok # f.tok
  BY <1>1, <1>6
<1>8. Kept(s, c, f, v)
  <2>1. Fits(s, c, f)
    BY <1>3, <1>4, <1>5, <1>6, <1>7 DEF Fits
  <2> QED
    BY <1>2, <2>1, AppendKeeps
<1>9. ~Follows(c, f.tok)
  BY DEF Follows
<1>10. \A i \in 1..n + 1 : Carries(v[i], f.tok) \/ Response(v[i]) => i = n + 1
  <2>1. \A i \in 1..n + 1 : i \in 1..n \/ i = n + 1
    OBVIOUS
  <2>2. \A i \in 1..n : ~Carries(v[i], f.tok) /\ ~Response(v[i])
    BY <1>4, <1>6, <1>7 DEF Carries, Response
  <2> QED
    BY <2>1, <2>2
<1>11. ClientOK(t, c)
  <2>1. c.tok \in Nat /\ c.tok <= s.tokens
    BY DEF Good, ClientOK, Client
  <2> QED
    BY <1>1, <2>1 DEF Good, ClientOK, Loose
<1>12. WireOK(t, c)
  <2>1. \A i \in 1..n + 1 : v[i].kind # "exit"
    <3>1. \A i \in 1..n + 1 : i \in 1..n \/ i = n + 1
      OBVIOUS
    <3> QED
      BY <1>4, <1>5, <1>6, <3>1
  <2>2. ASSUME NEW i \in 1..n + 1, v[i].kind \in {"opened", "pending", "data", "complete"}
        PROVE  v[i].tok <= s.tokens + 1
    <3>1. CASE i \in 1..n
      BY <1>1, <1>4, <1>6, <3>1
    <3>2. CASE i = n + 1
      BY <1>1, <1>4, <3>2
    <3> QED
      BY <3>1, <3>2
  <2> QED
    BY <1>4, <1>8, <2>1, <2>2 DEF WireOK, Ending, Kept
<1>13. Joined(t, c)
  <2>1. Reaches(v, c, f.tok, n + 1, f.start)
    <3>1. n + 1 \in 1..n + 1 /\ \A k \in (n + 1) + 1..n + 1 : FALSE
      OBVIOUS
    <3> QED
      BY <1>4, <1>5, <3>1 DEF Reaches
  <2> QED
    BY <1>4, <2>1 DEF Joined, Edge
<1>14. Credit(t, c)
  <2> SUFFICES ASSUME NEW e \in Nat, Known(t, c, e)
               PROVE  e <= t.d.cred + Window /\ ~(e > t.d.cred)
    BY DEF Credit
  <2>1. e = f.start
    <3>1. PICK i \in 1..n + 1 : Carries(v[i], f.tok) /\ e = At(v[i])
      BY <1>4, <1>9 DEF Known
    <3> QED
      BY <1>4, <1>5, <1>10, <3>1
  <2> QED
    BY <1>5, <2>1, Limits
<1>15. Fence(t, c)
  <2>1. \A i \in 1..n + 1 : v[i].kind = "pending" => i = n + 1
    BY <1>10 DEF Response
  <2> QED
    BY <1>4, <1>5, <2>1 DEF Fence
<1>16. Audience(t, c)
  <2> SUFFICES ASSUME t.open, t.exit # "done", ~Loose(t), NEW u \in Nat, Hears(v, c, u, n + 1)
               PROVE  Owned(t) /\ u = t.d.tok
    BY <1>4 DEF Audience
  <2>1. ~Hears(s.wire, c, u, n)
    BY <1>3 DEF Good, Audience, Loose
  <2>2. u = f.tok
    BY <1>3, <1>4, <1>8, <2>1 DEF Kept
  <2> QED
    BY <2>2 DEF Owned
<1> QED
  BY <1>11, <1>12, <1>13, <1>14, <1>15, <1>16 DEF Good

Renewed(d, tok, conn, st, recv, end, B, a, rec) ==
  [d EXCEPT !.tok = tok, !.conn = conn, !.st = st, !.recv = recv, !.sent = end,
            !.cred = end, !.bounds = B, !.activating = a, !.recEnd = rec]

LEMMA RenewedFacts ==
  ASSUME NEW d \in Ledger, NEW tok \in Nat, NEW conn \in Nat, NEW st \in Stages, NEW recv \in Nat,
         NEW end \in Nat, NEW B \in SUBSET Nat, NEW a \in BOOLEAN, NEW rec \in Optional
  PROVE  LET e == Renewed(d, tok, conn, st, recv, end, B, a, rec) IN
         /\ e \in Ledger /\ e.tok = tok /\ e.conn = conn /\ e.st = st /\ e.recv = recv
         /\ e.sent = end /\ e.cred = end /\ e.bounds = B /\ e.pend = d.pend /\ e.resAck = d.resAck
         /\ e.att = d.att /\ e.recEnd = rec /\ e.restore = d.restore /\ e.exitSt = d.exitSt
BY DEF Renewed, Ledger

IsDelivery(e, tok, conn, st, recv, end, rec) ==
  /\ e \in Ledger /\ e.tok = tok /\ e.conn = conn /\ e.st = st /\ e.recv = recv
  /\ e.sent = end /\ e.cred = end /\ e.bounds = {end} /\ e.pend = None /\ e.resAck = None
  /\ e.att = None /\ e.recEnd = rec /\ e.restore = FALSE /\ e.exitSt = "idle"

LEMMA DeliveryFacts ==
  ASSUME NEW s \in Relay, NEW st \in Stages, NEW recv \in Nat, NEW end \in Nat, NEW rec \in Optional
  PROVE  IsDelivery(Delivery(s, st, recv, end, rec), s.tokens + 1, s.conn, st, recv, end, rec)
<1>1. NoDelivery \in Ledger
  BY NoDeliveryFacts
<1>2. s.tokens + 1 \in Nat /\ s.conn \in Nat /\ {end} \in SUBSET Nat /\ TRUE \in BOOLEAN
  BY DEF Relay
<1>3. PICK d \in Ledger, tok \in Nat, B \in SUBSET Nat, a \in BOOLEAN :
        d = NoDelivery /\ tok = s.tokens + 1 /\ B = {end} /\ a = TRUE
  BY <1>1, <1>2
<1>4. PICK e : e = Renewed(d, tok, s.conn, st, recv, end, B, a, rec)
  OBVIOUS
<1>5. Delivery(s, st, recv, end, rec) = e
  BY <1>3, <1>4 DEF Delivery, Renewed
<1>6. /\ e \in Ledger /\ e.tok = tok /\ e.conn = s.conn /\ e.st = st /\ e.recv = recv
      /\ e.sent = end /\ e.cred = end /\ e.bounds = B /\ e.pend = d.pend /\ e.resAck = d.resAck
      /\ e.att = d.att /\ e.recEnd = rec /\ e.restore = d.restore /\ e.exitSt = d.exitSt
  BY <1>2, <1>4, RenewedFacts
<1> QED
  BY <1>3, <1>5, <1>6, NoDeliveryFacts DEF IsDelivery

\* The relay after a new delivery and its response.
Answered(s, e, taken, timer, tok, v) ==
  [s EXCEPT !.d = e, !.taken = taken, !.timer = timer, !.tokens = tok, !.wire = v]

IsAnswer(s, t, e, taken, tok, v) ==
  /\ t \in Relay /\ t.d = e /\ t.taken = taken /\ t.tokens = tok /\ t.wire = v
  /\ t.conn = s.conn /\ t.open = s.open /\ t.made = s.made /\ t.exit = s.exit
  /\ t.faulted = s.faulted /\ t.draining = s.draining /\ t.died = s.died

LEMMA AnsweredFacts ==
  ASSUME NEW s \in Relay, NEW e \in Ledger, NEW taken \in Nat, NEW timer \in BOOLEAN,
         NEW tok \in Nat, NEW v \in Seq(Frames)
  PROVE  IsAnswer(s, Answered(s, e, taken, timer, tok, v), e, taken, tok, v)
BY DEF Relay, Answered, IsAnswer

LEMMA OpenedOK ==
  ASSUME NEW s, NEW c, Calm(s, c), c.phase = "attaching", s.exit = "no", s.open, Plain(s),
         s.d.tok = 0, s.tokens < MaxTokens
  PROVE  Calm(Opened(s), c)
<1>1. /\ Good(s, c) /\ LedgerOK(s) /\ s \in Relay /\ ~s.draining
      /\ s.tokens \in Nat /\ s.made \in Nat /\ s.conn \in Nat /\ s.timer \in BOOLEAN
  BY DEF Calm, Rest, Good, LedgerOK, Relay
<1>2. PICK tok \in Nat : tok = s.tokens + 1
  BY <1>1
<1>3. PICK e : e = Delivery(s, "active", s.made, s.made, None)
  OBVIOUS
<1>4. /\ e \in Ledger /\ e.tok = tok /\ e.conn = s.conn /\ e.st = "active" /\ e.recv = s.made
      /\ e.sent = s.made /\ e.cred = s.made /\ e.bounds = {s.made} /\ e.pend = None /\ e.resAck = None
      /\ e.att = None /\ e.recEnd = None /\ e.restore = FALSE /\ e.exitSt = "idle"
  <2>1. "active" \in Stages /\ None \in Optional
    BY DEF Stages, Optional
  <2>2. IsDelivery(Delivery(s, "active", s.made, s.made, None), s.tokens + 1, s.conn, "active",
                   s.made, s.made, None)
    BY <1>1, <2>1, DeliveryFacts
  <2> QED
    BY <1>2, <1>3, <2>2 DEF IsDelivery
<1>5. PICK f : f = [kind |-> "opened", tok |-> tok, start |-> s.made, upto |-> s.made]
  OBVIOUS
<1>6. f \in Frames /\ f.kind = "opened" /\ f.tok = tok /\ f.start = s.made /\ Response(f)
  <2>1. tok \in 1..MaxTokens /\ s.made <= Max(Ends)
    BY <1>1, <1>2, Limits DEF LedgerOK, Offsets
  <2>2. s.made \in Offset
    BY <1>1, <2>1, EndsOK
  <2> QED
    BY <1>5, <2>1, <2>2 DEF Frames, Response
<1>7. PICK v, b : v = Append(s.wire, f) /\ b = FALSE
  OBVIOUS
<1>71. v \in Seq(Frames) /\ b \in BOOLEAN
  BY <1>1, <1>6, <1>7, AppendFacts DEF Relay
<1>72. PICK t : t = Answered(s, e, s.made, b, tok, v)
  OBVIOUS
<1>8. Opened(s) = t
  BY <1>1, <1>2, <1>3, <1>5, <1>7, <1>72 DEF Opened, Sent, Answered, Relay
<1>9. /\ t \in Relay /\ t.d = e /\ t.taken = s.made /\ t.tokens = tok
      /\ t.wire = Append(s.wire, f) /\ t.conn = s.conn /\ t.open = s.open /\ t.made = s.made
      /\ t.exit = s.exit /\ t.faulted = s.faulted /\ t.draining = s.draining
      /\ t.died = s.died
  <2>1. e \in Ledger /\ tok \in Nat /\ tok = s.tokens + 1
    BY <1>2, <1>4
  <2>2. IsAnswer(s, Answered(s, e, s.made, b, tok, v), e, s.made, tok, v)
    BY <1>1, <1>71, <2>1, AnsweredFacts
  <2> QED
    BY <1>7, <1>72, <2>2 DEF IsAnswer
<1>10. LedgerOK(t)
  <2>1. Offsets(t)
    BY <1>1, <1>4, <1>9 DEF LedgerOK, Offsets
  <2>2. Ahead(t)
    BY <1>1, <1>4, <1>9 DEF Ahead
  <2>3. Recovery(t) /\ Exiting(t)
    BY <1>4, <1>9 DEF Recovery, Exiting
  <2>4. Numbers(t)
    BY <1>1, <1>2, <1>4, <1>9, Limits DEF LedgerOK, Numbers
  <2> QED
    BY <1>9, <2>1, <2>2, <2>3, <2>4 DEF LedgerOK
<1>11. ~Owned(s)
  BY <1>1, OwnTok DEF Owned
<1>12. Own(t)
  BY <1>4, <1>9 DEF Own
<1>13. Good(t, c)
  <2>1. Answers(s, t, f)
    BY <1>2, <1>4, <1>6, <1>9, <1>12 DEF Answers
  <2> QED
    BY <1>1, <1>6, <1>10, <1>11, <2>1, SendResponseOK
<1> QED
  BY <1>1, <1>4, <1>8, <1>9, <1>13 DEF Calm, Rest, Told

LEMMA RotatedOK ==
  ASSUME NEW s, NEW c, Calm(s, c), c.phase = "attaching", s.exit = "no", s.open, Plain(s),
         s.d.tok # 0, ~Own(s), s.tokens < MaxTokens, NEW ckpt \in [tok : Nat, end : Nat],
         Covers(s.d, ckpt)
  PROVE  Calm(Rotated(s, ckpt.end), c)
<1>1. /\ Good(s, c) /\ LedgerOK(s) /\ s \in Relay /\ ~s.draining /\ s.d \in Ledger
      /\ s.tokens \in Nat /\ s.made \in Nat /\ s.conn \in Nat /\ s.timer \in BOOLEAN /\ s.taken \in Nat
      /\ s.d.recv \in Nat /\ s.d.sent \in Nat /\ s.d.st \in Stages /\ s.d.cred \in Nat
      /\ s.d.recv = s.taken /\ s.d.sent <= s.d.recv /\ Max(Ends) \in Nat
  BY EndsOK DEF Calm, Rest, Good, LedgerOK, Relay, Ledger, Offsets
<1>2. PICK end \in Nat : end = ckpt.end
  OBVIOUS
<1>3. end <= s.d.recv
  <2>1. CASE end \in s.d.bounds
    BY <1>1, <1>2, <2>1 DEF LedgerOK, Ahead
  <2>2. CASE end = s.d.att
    BY <1>1, <1>2, <2>2 DEF LedgerOK, Ahead, None
  <2> QED
    BY <1>2, <2>1, <2>2 DEF Covers
<1>4. PICK tok \in Nat : tok = s.tokens + 1
  BY <1>1
<1>5. PICK rec \in Nat : /\ rec = RecoveryEnd(s.d.recv, end) /\ end <= rec /\ rec <= s.d.recv
                         /\ end < rec => rec = s.d.recv
  BY <1>1, <1>3 DEF RecoveryEnd
<1>6. PICK e : e = Delivery(s, s.d.st, s.d.recv, end, rec)
  OBVIOUS
<1>7. /\ e \in Ledger /\ e.tok = tok /\ e.conn = s.conn /\ e.st = s.d.st /\ e.recv = s.d.recv
      /\ e.sent = end /\ e.cred = end /\ e.bounds = {end} /\ e.pend = None /\ e.resAck = None
      /\ e.att = None /\ e.recEnd = rec /\ e.restore = FALSE /\ e.exitSt = "idle"
  <2>1. rec \in Optional /\ end \in Nat
    BY <1>2, <1>5 DEF Optional
  <2>2. IsDelivery(Delivery(s, s.d.st, s.d.recv, end, rec), s.tokens + 1, s.conn, s.d.st,
                   s.d.recv, end, rec)
    BY <1>1, <2>1, DeliveryFacts
  <2> QED
    BY <1>4, <1>6, <2>2 DEF IsDelivery
<1>8. PICK f : f = [kind |-> "pending", tok |-> tok, start |-> end, upto |-> rec]
  OBVIOUS
<1>9. s.taken <= Max(Ends) /\ s.taken <= s.made /\ s.taken \in {0} \cup Ends
  BY <1>1 DEF LedgerOK, Offsets
<1>10. f \in Frames /\ f.kind = "pending" /\ f.tok = tok /\ f.start = end /\ f.upto = rec /\ Response(f)
  <2>1. tok \in 1..MaxTokens
    BY <1>1, <1>4, Limits
  <2>2. end <= Max(Ends) /\ rec <= Max(Ends)
    BY <1>1, <1>2, <1>3, <1>5, <1>9
  <2>3. end \in Offset /\ rec \in Offset
    BY <1>2, <1>5, <2>2, EndsOK
  <2> QED
    BY <1>8, <2>1, <2>3 DEF Frames, Response
<1>11. PICK v : v = Append(s.wire, f)
  OBVIOUS
<1>111. v \in Seq(Frames)
  BY <1>1, <1>10, <1>11, AppendFacts DEF Relay
<1>112. PICK t : t = Answered(s, e, s.taken, s.timer, tok, v)
  OBVIOUS
<1>12. Rotated(s, end) = t
  BY <1>1, <1>4, <1>5, <1>6, <1>8, <1>11, <1>112 DEF Rotated, Sent, Answered, Relay
<1>13. /\ t \in Relay /\ t.d = e /\ t.taken = s.taken /\ t.tokens = tok
      /\ t.wire = Append(s.wire, f) /\ t.conn = s.conn /\ t.open = s.open /\ t.made = s.made
      /\ t.exit = s.exit /\ t.faulted = s.faulted /\ t.draining = s.draining
      /\ t.died = s.died
  <2>1. e \in Ledger /\ tok \in Nat
    BY <1>4, <1>7
  <2>2. IsAnswer(s, Answered(s, e, s.taken, s.timer, tok, v), e, s.taken, tok, v)
    BY <1>1, <1>111, <2>1, AnsweredFacts
  <2> QED
    BY <1>11, <1>112, <2>2 DEF IsAnswer
<1>14. LedgerOK(t)
  <2>1. Offsets(t)
    BY <1>1, <1>2, <1>3, <1>7, <1>13 DEF LedgerOK, Offsets
  <2>2. Ahead(t)
    <3>1. {end} \subseteq end..end
      OBVIOUS
    <3>2. /\ t.d.bounds = {end} /\ t.d.cred = end /\ t.d.sent = end
          /\ t.d.pend = None /\ t.d.resAck = None /\ t.d.att = None
      BY <1>7, <1>13
    <3> QED
      BY <3>1, <3>2 DEF Ahead
  <2>3. end < rec => rec \in Ends
    BY <1>1, <1>2, <1>5, <1>9
  <2>4. Recovery(t) /\ Exiting(t)
    BY <1>1, <1>2, <1>5, <1>7, <1>13, <2>3 DEF Recovery, Exiting
  <2>5. Numbers(t)
    BY <1>1, <1>4, <1>7, <1>13, Limits DEF LedgerOK, Numbers
  <2> QED
    BY <1>13, <2>1, <2>2, <2>4, <2>5 DEF LedgerOK
<1>15. Own(t) /\ ~Owned(s)
  BY <1>7, <1>13 DEF Own, Owned
<1>16. t.d.st # "closed"
  BY <1>7, <1>13 DEF Covers
<1>17. Good(t, c)
  <2>1. Answers(s, t, f)
    BY <1>4, <1>7, <1>10, <1>13, <1>15, <1>16 DEF Answers
  <2> QED
    BY <1>1, <1>10, <1>14, <1>15, <2>1, SendResponseOK
<1> QED
  BY <1>1, <1>2, <1>7, <1>12, <1>13, <1>17 DEF Calm, Rest, Told

Refusing(d) == [d EXCEPT !.st = "closed", !.restore = TRUE, !.activating = FALSE,
                         !.recEnd = None, !.pend = None]

LEMMA RefusingFacts ==
  ASSUME NEW d \in Ledger
  PROVE  LET e == Refusing(d) IN
         /\ Kin(d, e) /\ e.st = "closed" /\ e.sent = d.sent /\ e.cred = d.cred /\ e.bounds = d.bounds
         /\ e.pend = None /\ e.resAck = d.resAck /\ e.att = d.att /\ e.recEnd = None
         /\ e.restore = TRUE /\ e.exitSt = d.exitSt
<1>1. Refusing(d) \in Ledger
  BY Zenon DEF Ledger, Stages, Optional, Refusing
<1> QED
  BY <1>1 DEF Ledger, Refusing, Kin

\* A delivery of a link that is gone is canceled.
LEMMA RefusingOK ==
  ASSUME NEW s, NEW c, Good(s, c), s.d.tok # 0, ~Own(s), NEW t, t = WithD(s, Refusing(s.d))
  PROVE  Good(t, c) /\ Alike(s, t) /\ t.exit = s.exit /\ t.died = s.died /\ t.d.exitSt = s.d.exitSt
<1> DEFINE e == Refusing(s.d)
<1>1. /\ s \in Relay /\ s.d \in Ledger
      /\ Offsets(s) /\ Ahead(s) /\ Recovery(s) /\ Exiting(s) /\ Numbers(s)
  BY DEF Good, LedgerOK, Relay
<1>2. /\ Kin(s.d, e) /\ e.st = "closed" /\ e.sent = s.d.sent /\ e.cred = s.d.cred
      /\ e.bounds = s.d.bounds /\ e.pend = None /\ e.resAck = s.d.resAck /\ e.att = s.d.att
      /\ e.recEnd = None /\ e.restore = TRUE /\ e.exitSt = s.d.exitSt
  BY <1>1, RefusingFacts
<1> HIDE DEF e
<1>3. /\ Alike(s, t) /\ t.d = e /\ t.exit = s.exit /\ t.died = s.died /\ e \in Ledger
  BY <1>1, <1>2, SetD DEF Kin, e
<1>4. ~Own(t)
  BY <1>2, <1>3 DEF Own, Kin, Alike
<1>5. LedgerOK(t)
  <2>1. Offsets(t)
    BY <1>1, <1>2, <1>3 DEF Offsets, Kin, Alike
  <2>2. Ahead(t)
    BY <1>1, <1>2, <1>3, <1>4 DEF Ahead, Kin
  <2>3. Recovery(t)
    BY <1>2, <1>3 DEF Recovery
  <2>4. Exiting(t)
    BY <1>1, <1>2, <1>3, <1>4 DEF Exiting, Alike
  <2>5. Numbers(t)
    BY <1>1, <1>2, <1>3 DEF Numbers, Kin, Alike
  <2> QED
    BY <1>3, <2>1, <2>2, <2>3, <2>4, <2>5 DEF LedgerOK, Alike
<1>6. s.d.cred <= e.cred /\ ~Owned(s)
  BY <1>1, <1>2 DEF Owned, Ledger
<1>7. t = WithD(s, e)
  BY DEF e
<1>8. Good(t, c)
  BY <1>2, <1>5, <1>6, <1>7, ChangedOK
<1> QED
  BY <1>2, <1>3, <1>8

\* The delivery is canceled and the client told to restore itself.
Restoring(s) == Sent(WithD(s, IF s.d.tok = 0 THEN s.d ELSE Refusing(s.d)), [kind |-> "restore"])

LEMMA RestoringOK ==
  ASSUME NEW s, NEW c, Calm(s, c), c.phase = "attaching", s.exit = "no", Plain(s),
         s.d.tok = 0 \/ ~Own(s)
  PROVE  Calm(Restoring(s), c) /\ Restored(s) = Capacity(Restoring(s))
<1> DEFINE f == [kind |-> "restore"]
           e == IF s.d.tok = 0 THEN s.d ELSE Refusing(s.d)
           t == WithD(s, e)
<1>1. /\ Good(s, c) /\ s \in Relay /\ s.d \in Ledger /\ ~s.draining /\ s.d.exitSt # "published"
      /\ s.died => Wide # {}
  BY DEF Calm, Good, LedgerOK, Relay, Rest, Told
<1>2. Good(t, c) /\ t.wire = s.wire /\ t.exit = s.exit /\ t.draining = s.draining
      /\ t.died = s.died /\ t.d.exitSt # "published"
  <2>1. CASE s.d.tok = 0
    <3>1. t = s
      BY <1>1, <2>1 DEF WithD, Relay
    <3> QED
      BY <1>1, <3>1
  <2>2. CASE s.d.tok # 0
    <3>1. t = WithD(s, Refusing(s.d))
      BY <2>2
    <3> HIDE DEF t
    <3>2. Good(t, c) /\ Alike(s, t) /\ t.exit = s.exit /\ t.died = s.died /\ t.d.exitSt = s.d.exitSt
      BY <1>1, <2>2, <3>1, RefusingOK
    <3> QED
      BY <1>1, <3>2 DEF Alike
  <2> QED
    BY <2>1, <2>2
<1>3. f \in Frames /\ f.kind = "restore"
  BY DEF Frames
<1>4. Restored(s) = Capacity(Sent(t, f)) /\ Restoring(s) = Sent(t, f)
  <2>1. [s EXCEPT !.d = IF @.tok = 0 THEN @ ELSE
                     [@ EXCEPT !.st = "closed", !.restore = TRUE, !.activating = FALSE,
                               !.recEnd = None, !.pend = None]] = t
    BY <1>1 DEF WithD, Refusing, Relay
  <2> QED
    BY <2>1 DEF Restored, Restoring
<1> HIDE DEF f, t
<1>5. Fits(t, c, f)
  BY <1>2, <1>3 DEF Fits, Plain
<1>6. Good(Sent(t, f), c)
  BY <1>2, <1>3, <1>5, SendNoticeOK
<1>7. /\ Sent(t, f).d = t.d /\ Sent(t, f).draining = t.draining /\ Sent(t, f).died = t.died
  BY <1>2, <1>3, SentFacts DEF Good, LedgerOK
<1>8. Calm(Sent(t, f), c)
  BY <1>1, <1>2, <1>6, <1>7 DEF Calm, Rest, Told
<1> QED
  BY <1>4, <1>8

LEMMA RestoredOK ==
  ASSUME NEW s, NEW c, Calm(s, c), c.phase = "attaching", s.exit = "no", Plain(s),
         s.d.tok = 0 \/ ~Own(s)
  PROVE  Calm(Restored(s), c)
<1>1. Calm(Restoring(s), c) /\ Restored(s) = Capacity(Restoring(s))
  BY RestoringOK
<1>2. Step(Restoring(s), Capacity(Restoring(s)), c)
  BY <1>1, CapacityOK DEF Calm, Rest
<1> QED
  BY <1>1, <1>2, CalmStep

Ceased(d) == [d EXCEPT !.st = "closed"]

LEMMA CeasedFacts ==
  ASSUME NEW d \in Ledger
  PROVE  LET e == Ceased(d) IN
         /\ Kin(d, e) /\ e.st = "closed" /\ e.sent = d.sent /\ e.cred = d.cred /\ e.bounds = d.bounds
         /\ e.pend = d.pend /\ e.resAck = d.resAck /\ e.att = d.att /\ e.recEnd = d.recEnd
         /\ e.restore = d.restore /\ e.exitSt = d.exitSt
<1>1. Ceased(d) \in Ledger
  BY Zenon DEF Ledger, Stages, Ceased
<1> QED
  BY <1>1 DEF Ledger, Ceased, Kin

\* A delivery whose exit frame is in flight is closed and kept.
LEMMA CeasedOK ==
  ASSUME NEW s, NEW c, Good(s, c), s.d.exitSt = "pending", NEW t, t = WithD(s, Ceased(s.d))
  PROVE  Good(t, c) /\ t.draining = s.draining /\ t.d.exitSt = "pending" /\ t.died = s.died
<1> DEFINE e == Ceased(s.d)
<1>1. /\ s \in Relay /\ s.d \in Ledger
      /\ Offsets(s) /\ Ahead(s) /\ Recovery(s) /\ Exiting(s) /\ Numbers(s)
  BY DEF Good, LedgerOK, Relay
<1>2. /\ Kin(s.d, e) /\ e.st = "closed" /\ e.sent = s.d.sent /\ e.cred = s.d.cred
      /\ e.bounds = s.d.bounds /\ e.pend = s.d.pend /\ e.resAck = s.d.resAck /\ e.att = s.d.att
      /\ e.recEnd = s.d.recEnd /\ e.restore = s.d.restore /\ e.exitSt = s.d.exitSt
  BY <1>1, CeasedFacts
<1> HIDE DEF e
<1>3. /\ Alike(s, t) /\ t.d = e /\ t.exit = s.exit /\ e \in Ledger /\ t.died = s.died
  BY <1>1, <1>2, SetD DEF Kin, e
<1>4. Own(t) = Own(s) /\ s.d.tok # 0
  BY <1>1, <1>2, <1>3, NoDeliveryFacts DEF Own, Kin, Alike, Numbers
<1>5. LedgerOK(t)
  <2>1. Offsets(t)
    BY <1>1, <1>2, <1>3 DEF Offsets, Kin, Alike
  <2>2. Ahead(t)
    BY <1>1, <1>2, <1>3, <1>4 DEF Ahead, Kin
  <2>3. Recovery(t)
    BY <1>1, <1>2, <1>3 DEF Recovery, Kin
  <2>4. Exiting(t)
    BY <1>1, <1>2, <1>3, <1>4 DEF Exiting, Alike
  <2>5. Numbers(t)
    BY <1>1, <1>2, <1>3, <1>4 DEF Numbers, Kin, Alike
  <2> QED
    BY <1>3, <2>1, <2>2, <2>3, <2>4, <2>5 DEF LedgerOK, Alike
<1>6. s.d.cred <= e.cred
  BY <1>1, <1>2 DEF Ledger
<1>7. Edge(e) = Edge(s.d) /\ Ackable(e) = Ackable(s.d)
  BY <1>2 DEF Edge, Ackable
<1>8. t = WithD(s, e)
  BY DEF e
<1>9. Good(t, c)
  BY <1>2, <1>5, <1>6, <1>7, <1>8, ChangedOK
<1> QED
  BY <1>2, <1>3, <1>9 DEF Alike

LEMMA CanceledOK ==
  ASSUME NEW s, NEW c, Calm(s, c), Silent(s, c)
  PROVE  Calm(Canceled(s), c)
<1>1. Good(s, c) /\ s \in Relay /\ ~s.draining /\ Told(s) /\ (s.died => Wide # {})
  BY DEF Calm, Good, LedgerOK, Rest
<1>2. CASE s.d.exitSt = "pending"
  <2>1. PICK t : t = WithD(s, Ceased(s.d))
    OBVIOUS
  <2>2. Canceled(s) = t
    BY <1>1, <1>2, <2>1 DEF Canceled, WithD, Ceased, Relay
  <2>3. Good(t, c) /\ t.draining = s.draining /\ t.d.exitSt = "pending" /\ t.died = s.died
    BY <1>1, <1>2, <2>1, CeasedOK
  <2> QED
    BY <1>1, <2>2, <2>3 DEF Calm, Rest, Told
<1>3. CASE s.d.exitSt # "pending"
  <2>1. PICK t : t = Retired(s)
    OBVIOUS
  <2>2. Step(s, t, c) /\ t.d = NoDelivery
    BY <1>1, <2>1, RetiredOK
  <2>3. Calm(t, c)
    BY <2>2, CalmStep
  <2>4. Step(t, Capacity(t), c)
    BY <2>3, CapacityOK DEF Calm, Rest
  <2> QED
    BY <1>3, <2>1, <2>3, <2>4, CalmStep DEF Canceled
<1> QED
  BY <1>2, <1>3

-----------------------------------------------------------------------------
(* A frame less on the wire. *)

\* What the client becomes with frame m.
Heard(c, m, b) ==
  /\ b \in Client /\ b.up = c.up
  /\ b.tok = c.tok \/ (Response(m) /\ b.tok = m.tok)
  /\ \A t : Follows(b, t) =>
       \/ /\ Carries(m, t) /\ b.next = At(m) /\ (Response(m) \/ Follows(c, t))
          /\ \A e \in b.ends : e = At(m) \/ (Follows(c, t) /\ e \in c.ends)
       \/ ~Carries(m, t) /\ Follows(c, t) /\ b.next = c.next /\ b.ends = c.ends
  /\ b.phase = "recovering" =>
       \/ m.kind = "pending" /\ b.tok = m.tok /\ b.upto = m.upto
       \/ c.phase = "recovering" /\ b.tok = c.tok /\ b.upto = c.upto
  /\ b.phase = "ended" =>
       \/ c.phase = "ended" /\ b.next = c.next
       \/ m.kind = "exit" /\ Follows(c, c.tok) /\ b.next = c.next
  /\ c.phase = "attaching" /\ m.kind \in {"data", "complete"} => b.phase = "attaching"

\* The frame is what the client expects.
Expected(c, m) ==
  /\ m.kind = "data" /\ Follows(c, m.tok) => m.start = c.next
  /\ m.kind = "complete" /\ c.phase = "recovering" /\ c.tok = m.tok => c.next = c.upto

\* Whatever of the client a frame changes.
Turned(c, phase, tok, next, upto, ends, ckpt) ==
  [c EXCEPT !.phase = phase, !.tok = tok, !.next = next, !.upto = upto, !.ends = ends, !.ckpt = ckpt]

Turns(c, b, phase, tok, next, upto, ends) ==
  /\ b \in Client /\ b.up = c.up /\ b.phase = phase /\ b.tok = tok /\ b.next = next
  /\ b.upto = upto /\ b.ends = ends

LEMMA TurnedFacts ==
  ASSUME NEW c \in Client, NEW phase \in Phases, NEW tok \in Nat, NEW next \in Nat, NEW upto \in Nat,
         NEW ends \in SUBSET Nat, NEW ckpt \in [tok : Nat, end : Nat]
  PROVE  Turns(c, Turned(c, phase, tok, next, upto, ends, ckpt), phase, tok, next, upto, ends)
BY DEF Client, Turned, Turns

LEMMA HeardOK ==
  ASSUME NEW c \in Client, NEW m \in Frames, Expected(c, m), NEW b, b = Received(c, m)
  PROVE  Heard(c, m, b)
<1>0. /\ m.kind \in {"opened", "pending", "data", "complete", "restore", "exit"}
      /\ m.kind \in {"opened", "pending"} => m.start \in Nat /\ m.upto \in Nat
      /\ m.kind = "data" => m.start \in Nat /\ m.end \in Nat
      /\ m.kind \in {"opened", "pending", "data", "complete"} => m.tok \in Nat /\ m.tok # 0
  BY FrameFacts
<1>a. /\ c.phase \in Phases /\ c.tok \in Nat /\ c.next \in Nat /\ c.upto \in Nat
      /\ c.ends \in SUBSET Nat /\ c.ckpt \in [tok : Nat, end : Nat] /\ c.bad = FALSE
      /\ NoCheckpoint \in [tok : Nat, end : Nat]
  BY DEF Client, NoCheckpoint
<1>1. CASE m.kind \in {"opened", "pending"}
  <2> DEFINE phase == IF m.kind = "opened" THEN "live" ELSE "recovering"
  <2>1. b = Turned(c, phase, m.tok, m.start, m.upto, {m.start}, c.ckpt)
    <3>1. b = [c EXCEPT !.phase = IF m.kind = "opened" THEN "live" ELSE "recovering",
                        !.tok = m.tok, !.next = m.start, !.upto = m.upto, !.ends = {m.start}]
      BY <1>1 DEF Received
    <3> QED
      BY <3>1 DEF Turned, Client
  <2>2. phase \in Phases /\ {m.start} \in SUBSET Nat
    BY <1>0, <1>1 DEF Phases
  <2>3. phase = "recovering" => m.kind = "pending"
    BY <1>1
  <2>4. phase \in {"live", "recovering"}
    OBVIOUS
  <2> HIDE DEF phase
  <2>5. Turns(c, b, phase, m.tok, m.start, m.upto, {m.start})
    BY <1>0, <1>1, <1>a, <2>1, <2>2, TurnedFacts
  <2> QED
    BY <1>1, <2>3, <2>4, <2>5 DEF Turns, Heard, Follows, Carries, At, Response
<1>2. CASE m.kind = "restore"
  <2>1. b = Turned(c, "none", c.tok, c.next, c.upto, c.ends, NoCheckpoint)
    BY <1>0, <1>2 DEF Received, Turned, Client
  <2>2. Turns(c, b, "none", c.tok, c.next, c.upto, c.ends)
    BY <1>a, <2>1, TurnedFacts DEF Phases
  <2> QED
    BY <1>2, <2>2 DEF Turns, Heard, Follows
<1>3. CASE m.kind = "data" /\ Follows(c, m.tok)
  <2>1. b = Turned(c, c.phase, c.tok, m.end, c.upto, c.ends \cup {m.end}, c.ckpt)
    <3>1. b = [c EXCEPT !.bad = @ \/ m.start # c.next, !.next = m.end, !.ends = @ \cup {m.end}]
      BY <1>3 DEF Received, Follows
    <3>2. m.start = c.next
      BY <1>3 DEF Expected
    <3> QED
      BY <1>a, <3>1, <3>2 DEF Turned, Client
  <2>2. c.ends \cup {m.end} \in SUBSET Nat /\ m.end \in Nat
    BY <1>0, <1>3, <1>a
  <2>3. Turns(c, b, c.phase, c.tok, m.end, c.upto, c.ends \cup {m.end})
    BY <1>a, <2>1, <2>2, TurnedFacts
  <2>4. c.phase \in {"recovering", "live"} /\ c.tok = m.tok
    BY <1>3 DEF Follows
  <2> QED
    BY <1>3, <2>3, <2>4 DEF Turns, Heard, Follows, Carries, At, Response
<1>4. CASE m.kind = "complete" /\ m.tok = c.tok /\ c.phase = "recovering"
  <2>1. b = Turned(c, "live", c.tok, c.next, c.upto, c.ends, c.ckpt)
    <3>1. b = [c EXCEPT !.bad = @ \/ c.next # c.upto, !.phase = "live"]
      BY <1>4 DEF Received
    <3>2. c.next = c.upto
      BY <1>4 DEF Expected
    <3> QED
      BY <1>a, <3>1, <3>2 DEF Turned, Client
  <2>2. Turns(c, b, "live", c.tok, c.next, c.upto, c.ends)
    BY <1>a, <2>1, TurnedFacts DEF Phases
  <2> QED
    BY <1>4, <2>2 DEF Turns, Heard, Follows, Carries, Response
<1>5. CASE m.kind = "exit"
  <2> DEFINE phase == IF c.phase = "live" \/ (c.phase = "recovering" /\ c.next = c.upto)
                      THEN "ended" ELSE "gone"
  <2>1. b = Turned(c, phase, c.tok, c.next, c.upto, c.ends, c.ckpt)
    <3>1. b = [c EXCEPT !.phase = IF @ = "live" \/ (@ = "recovering" /\ c.next = c.upto)
                                  THEN "ended" ELSE "gone"]
      BY <1>5 DEF Received
    <3> QED
      BY <3>1 DEF Turned, Client
  <2>2. phase \in {"ended", "gone"} /\ (phase = "ended" => Follows(c, c.tok))
    BY DEF Follows
  <2> HIDE DEF phase
  <2>3. Turns(c, b, phase, c.tok, c.next, c.upto, c.ends)
    BY <1>a, <2>1, <2>2, TurnedFacts DEF Phases
  <2> QED
    BY <1>5, <2>2, <2>3 DEF Turns, Heard, Follows
<1>6. CASE /\ m.kind \in {"data", "complete"}
           /\ m.kind = "data" => ~Follows(c, m.tok)
           /\ m.kind = "complete" => ~(m.tok = c.tok /\ c.phase = "recovering")
  <2>1. b = c
    BY <1>6 DEF Received, Follows
  <2> QED
    BY <1>6, <2>1 DEF Heard, Follows, Carries, Response
<1> QED
  BY <1>0, <1>1, <1>2, <1>3, <1>4, <1>5, <1>6

\* The wire without its first frame.
Shifts(w, v, n) ==
  /\ w \in Seq(Frames) /\ v \in Seq(Frames) /\ n \in Nat /\ Len(w) = n + 1 /\ Len(v) = n
  /\ DOMAIN w = 1..n + 1 /\ DOMAIN v = 1..n /\ \A i \in 1..n : v[i] = w[i + 1]

LEMMA TailFacts ==
  ASSUME NEW w \in Seq(Frames), w # <<>>
  PROVE  Shifts(w, Tail(w), Len(w) - 1) /\ Head(w) = w[1] /\ w[1] \in Frames
<1>1. Len(w) \in Nat /\ Len(w) # 0
  BY LenProperties, EmptySeq
<1>2. PICK n \in Nat : Len(w) = n + 1
  BY <1>1
<1>3. /\ Head(w) = w[1] /\ Tail(w) \in Seq(Frames) /\ Len(Tail(w)) = Len(w) - 1
      /\ \A i \in 1..Len(Tail(w)) : Tail(w)[i] = w[i + 1]
  BY HeadTailProperties
<1>4. Len(Tail(w)) = n /\ Len(w) - 1 = n
  BY <1>2, <1>3
<1>5. DOMAIN w = 1..n + 1 /\ DOMAIN Tail(w) = 1..n /\ w[1] \in Frames
  <2>1. 1 \in 1..n + 1
    BY <1>2
  <2> QED
    BY <1>2, <1>3, <1>4, <2>1, LenProperties, ElementOfSeq
<1> QED
  BY <1>2, <1>3, <1>4, <1>5 DEF Shifts

LEMMA ReachesTail ==
  ASSUME NEW w, NEW v, NEW n, Shifts(w, v, n), NEW c, NEW b, Heard(c, w[1], b),
         NEW t, NEW e, NEW k \in 0..n, Reaches(w, c, t, k + 1, e)
  PROVE  Reaches(v, b, t, k, e)
<1>0. n \in Nat /\ k \in Nat /\ k <= n
  BY DEF Shifts
<1>1. ASSUME NEW i \in 1..k PROVE v[i] = w[i + 1] /\ i + 1 \in 2..k + 1
  <2>1. i \in 1..n
    BY <1>0
  <2> QED
    BY <2>1 DEF Shifts
<1>2. CASE \E i \in 1..k + 1 : /\ Carries(w[i], t) /\ At(w[i]) = e
                               /\ \A j \in i + 1..k + 1 : ~Carries(w[j], t)
  <2>1. PICK i \in 1..k + 1 : /\ Carries(w[i], t) /\ At(w[i]) = e
                              /\ \A j \in i + 1..k + 1 : ~Carries(w[j], t)
    BY <1>2
  <2>2. CASE i = 1
    <3>1. ASSUME NEW j \in 1..k PROVE ~Carries(v[j], t)
      <4>1. j + 1 \in i + 1..k + 1
        BY <2>2, <1>0
      <4> QED
        BY <1>1, <2>1, <4>1
    <3>2. Follows(b, t) => b.next = e
      BY <2>1, <2>2 DEF Heard
    <3> QED
      BY <3>1, <3>2 DEF Reaches
  <2>3. CASE i # 1
    <3>1. PICK h \in 1..k : i = h + 1
      <4>1. i - 1 \in 1..k /\ i = (i - 1) + 1
        BY <1>0, <2>1, <2>3
      <4> QED
        BY <4>1
    <3>2. v[h] = w[i]
      BY <1>1, <3>1
    <3>3. ASSUME NEW j \in h + 1..k PROVE ~Carries(v[j], t)
      <4>1. j \in 1..k /\ j + 1 \in i + 1..k + 1
        BY <1>0, <3>1
      <4> QED
        BY <1>1, <2>1, <4>1
    <3> QED
      BY <2>1, <3>1, <3>2, <3>3 DEF Reaches
  <2> QED
    BY <2>2, <2>3
<1>3. CASE (\A j \in 1..k + 1 : ~Carries(w[j], t)) /\ (Follows(c, t) => c.next = e)
  <2>1. ~Carries(w[1], t)
    BY <1>0, <1>3
  <2>2. ASSUME NEW j \in 1..k PROVE ~Carries(v[j], t)
    <3>1. j + 1 \in 1..k + 1
      BY <1>0
    <3> QED
      BY <1>1, <1>3, <3>1
  <2>3. Follows(b, t) => b.next = e
    BY <1>3, <2>1 DEF Heard
  <2> QED
    BY <2>2, <2>3 DEF Reaches
<1> QED
  BY <1>2, <1>3 DEF Reaches

LEMMA HearsTail ==
  ASSUME NEW w, NEW v, NEW n, Shifts(w, v, n), NEW c, NEW b, Heard(c, w[1], b),
         NEW t, NEW k \in 0..n, Hears(v, b, t, k)
  PROVE  Hears(w, c, t, k + 1)
<1>0. n \in Nat /\ k \in Nat /\ k <= n /\ 1 \in 1..k + 1
  BY DEF Shifts
<1>1. CASE Follows(b, t)
  <2>1. Follows(c, t) \/ (Response(w[1]) /\ Carries(w[1], t))
    BY <1>1 DEF Heard
  <2> QED
    BY <1>0, <2>1 DEF Hears, Carries
<1>2. CASE \E i \in 1..k : Response(v[i]) /\ v[i].tok = t
  <2>1. PICK i \in 1..k : Response(v[i]) /\ v[i].tok = t
    BY <1>2
  <2>2. i \in 1..n /\ i + 1 \in 1..k + 1
    BY <1>0, <2>1
  <2>3. v[i] = w[i + 1]
    BY <2>2 DEF Shifts
  <2> QED
    BY <2>1, <2>2, <2>3 DEF Hears
<1> QED
  BY <1>1, <1>2 DEF Hears

Cut(s, v) == [s EXCEPT !.wire = v]

\* Only the wire differs.
CutTo(s, t, v) ==
  /\ t \in Relay /\ t.d = s.d /\ t.wire = v /\ t.tokens = s.tokens /\ t.conn = s.conn
  /\ t.open = s.open /\ t.made = s.made /\ t.taken = s.taken /\ t.draining = s.draining
  /\ t.exit = s.exit /\ t.died = s.died /\ t.faulted = s.faulted

LEMMA CutFacts ==
  ASSUME NEW s \in Relay, NEW v \in Seq(Frames)
  PROVE  CutTo(s, Cut(s, v), v)
BY DEF Relay, Cut, CutTo

LEMMA CutLedger ==
  ASSUME NEW s, NEW t, NEW v, LedgerOK(s), CutTo(s, t, v)
  PROVE  LedgerOK(t)
<1>1. Own(t) = Own(s)
  BY DEF CutTo, Own
<1> QED
  BY <1>1 DEF LedgerOK, CutTo, Offsets, Ahead, Recovery, Exiting, Numbers

LEMMA ReceiveOK ==
  ASSUME NEW s, NEW c, Good(s, c), c.up, s.wire # <<>>, NEW b, b = Received(c, Head(s.wire)),
         NEW t, t = Cut(s, Tail(s.wire))
  PROVE  /\ Good(t, b) /\ t.draining = s.draining /\ t.d = s.d /\ t.exit = s.exit
         /\ t.died = s.died
<1>1. /\ LedgerOK(s) /\ ClientOK(s, c) /\ WireOK(s, c) /\ Joined(s, c) /\ Credit(s, c)
      /\ Fence(s, c) /\ Audience(s, c) /\ s \in Relay /\ s.wire \in Seq(Frames) /\ c \in Client
  BY DEF Good, LedgerOK, ClientOK, Relay
<1>2. PICK w, v, n, m : w = s.wire /\ v = Tail(w) /\ n = Len(w) - 1 /\ m = w[1]
  OBVIOUS
<1>3. Shifts(w, v, n) /\ Head(w) = m /\ m \in Frames
  BY <1>1, <1>2, TailFacts
<1>4. /\ n \in Nat /\ DOMAIN w = 1..n + 1 /\ DOMAIN v = 1..n /\ Len(w) = n + 1 /\ Len(v) = n
      /\ v \in Seq(Frames) /\ \A i \in 1..n : v[i] = w[i + 1] /\ i + 1 \in 1..n + 1
      /\ 1 \in 1..n + 1
  BY <1>3 DEF Shifts
<1>5. CutTo(s, t, v)
  BY <1>1, <1>2, <1>4, CutFacts
<1>6. Responses(w, c) /\ Contiguous(w, c) /\ Completes(w, c)
  BY <1>1, <1>2 DEF WireOK
<1>7. Expected(c, m)
  <2>1. ASSUME m.kind = "data", Follows(c, m.tok) PROVE m.start = c.next
    <3>1. Reaches(w, c, m.tok, 1 - 1, m.start)
      BY <1>2, <1>4, <1>6, <2>1 DEF Contiguous
    <3> QED
      BY <2>1, <3>1 DEF Reaches
  <2>2. ASSUME m.kind = "complete", c.phase = "recovering", c.tok = m.tok PROVE c.next = c.upto
    <3>1. PICK e \in Nat : Reaches(w, c, m.tok, 1 - 1, e) /\ c.upto = e
      BY <1>2, <1>4, <1>6, <2>2 DEF Completes
    <3> QED
      BY <2>2, <3>1 DEF Reaches, Follows
  <2> QED
    BY <2>1, <2>2 DEF Expected
<1>8. Heard(c, w[1], b)
  BY <1>1, <1>2, <1>3, <1>7, HeardOK
<1>9. ASSUME NEW u, NEW e, NEW k \in 0..n, Reaches(w, c, u, k + 1, e) PROVE Reaches(v, b, u, k, e)
  BY <1>3, <1>8, <1>9, ReachesTail
<1>10. ASSUME NEW u, NEW k \in 0..n, Hears(v, b, u, k) PROVE Hears(w, c, u, k + 1)
  BY <1>3, <1>8, <1>10, HearsTail
<1>11. ASSUME NEW j \in 1..n
       PROVE  /\ v[j] = w[j + 1] /\ j - 1 \in 0..n /\ (j - 1) + 1 = (j + 1) - 1 /\ j + 1 \in DOMAIN w
              /\ \A i \in 1..j - 1 : v[i] = w[i + 1] /\ i + 1 \in 1..(j + 1) - 1
  BY <1>4
<1>12. Responses(v, b)
  <2> SUFFICES ASSUME NEW i \in 1..n, v[i].kind \in {"opened", "pending", "restore"}
               PROVE  /\ b.phase = "attaching"
                      /\ \A j \in 1..n : v[j].kind \in {"opened", "pending", "restore"} => j = i
                      /\ \A j \in 1..i - 1 :
                            /\ v[j].kind # "exit"
                            /\ v[j].kind \in {"data", "complete"} /\ v[i].kind # "restore" => v[j].tok # v[i].tok
    BY <1>4 DEF Responses
  <2>1. w[i + 1] = v[i] /\ i + 1 \in DOMAIN w /\ i + 1 # 1 /\ 1 \in 1..(i + 1) - 1
    BY <1>4
  <2>2. /\ c.phase = "attaching"
        /\ \A j \in DOMAIN w : w[j].kind \in {"opened", "pending", "restore"} => j = i + 1
        /\ \A j \in 1..(i + 1) - 1 :
              /\ w[j].kind # "exit"
              /\ w[j].kind \in {"data", "complete"} /\ v[i].kind # "restore" => w[j].tok # v[i].tok
    BY <1>6, <2>1 DEF Responses
  <2>3. m.kind \in {"data", "complete"}
    BY <1>2, <1>3, <1>4, <2>1, <2>2, FrameFacts
  <2>4. b.phase = "attaching"
    BY <1>2, <1>8, <2>2, <2>3 DEF Heard
  <2>5. ASSUME NEW j \in 1..n, v[j].kind \in {"opened", "pending", "restore"} PROVE j = i
    <3>1. j + 1 = i + 1
      BY <1>11, <2>2, <2>5
    <3> QED
      BY <3>1
  <2>6. ASSUME NEW j \in 1..i - 1
        PROVE  /\ v[j].kind # "exit"
               /\ v[j].kind \in {"data", "complete"} /\ v[i].kind # "restore" => v[j].tok # v[i].tok
    <3>1. v[j] = w[j + 1] /\ j + 1 \in 1..(i + 1) - 1
      BY <1>11
    <3> QED
      BY <2>2, <3>1
  <2> QED
    BY <2>4, <2>5, <2>6
<1>13. Contiguous(v, b)
  <2> SUFFICES ASSUME NEW j \in 1..n, v[j].kind = "data"
               PROVE  Reaches(v, b, v[j].tok, j - 1, v[j].start)
    BY <1>4 DEF Contiguous
  <2>1. Reaches(w, c, v[j].tok, (j - 1) + 1, v[j].start)
    BY <1>6, <1>11 DEF Contiguous
  <2> QED
    BY <1>9, <1>11, <2>1
<1>14. Completes(v, b)
  <2> SUFFICES ASSUME NEW j \in 1..n, v[j].kind = "complete"
               PROVE  \E e \in Nat :
                        /\ Reaches(v, b, v[j].tok, j - 1, e)
                        /\ \A i \in 1..j - 1 : v[i].kind = "pending" /\ v[i].tok = v[j].tok => v[i].upto = e
                        /\ b.phase = "recovering" /\ b.tok = v[j].tok => b.upto = e
    BY <1>4 DEF Completes
  <2>1. PICK e \in Nat :
           /\ Reaches(w, c, v[j].tok, (j + 1) - 1, e)
           /\ \A i \in 1..(j + 1) - 1 : w[i].kind = "pending" /\ w[i].tok = v[j].tok => w[i].upto = e
           /\ c.phase = "recovering" /\ c.tok = v[j].tok => c.upto = e
    BY <1>6, <1>11 DEF Completes
  <2>2. Reaches(v, b, v[j].tok, j - 1, e)
    BY <1>9, <1>11, <2>1
  <2>3. \A i \in 1..j - 1 : v[i].kind = "pending" /\ v[i].tok = v[j].tok => v[i].upto = e
    BY <1>11, <2>1
  <2>4. 1 \in 1..(j + 1) - 1
    BY <1>4
  <2>5. b.phase = "recovering" /\ b.tok = v[j].tok => b.upto = e
    BY <1>8, <2>1, <2>4 DEF Heard
  <2> QED
    BY <2>2, <2>3, <2>5
<1>15. Ending(t, b)
  <2> SUFFICES ASSUME NEW j \in 1..n, v[j].kind = "exit"
               PROVE  /\ s.exit # "no"
                      /\ Loose(s) \/ \A u \in Nat : Hears(v, b, u, j - 1) => Reaches(v, b, u, j - 1, s.made)
    BY <1>4, <1>5 DEF Ending, CutTo, Loose
  <2>1. /\ s.exit # "no"
        /\ Loose(s) \/ \A u \in Nat : Hears(w, c, u, (j - 1) + 1) => Reaches(w, c, u, (j - 1) + 1, s.made)
    BY <1>1, <1>2, <1>11 DEF WireOK, Ending
  <2> QED
    BY <1>9, <1>10, <1>11, <2>1
<1>16. WireOK(t, b)
  <2>1. \A i \in DOMAIN v :
          v[i].kind \in {"opened", "pending", "data", "complete"} => v[i].tok <= s.tokens
    BY <1>1, <1>2, <1>4 DEF WireOK
  <2> QED
    BY <1>5, <1>12, <1>13, <1>14, <1>15, <2>1 DEF WireOK, CutTo
<1>17. Joined(t, b)
  <2>1. Own(t) = Own(s) /\ n \in 0..n
    BY <1>4, <1>5 DEF CutTo, Own
  <2> QED
    BY <1>1, <1>2, <1>4, <1>5, <1>9, <2>1 DEF Joined, CutTo
<1>18. Credit(t, b)
  <2> SUFFICES ASSUME NEW e \in Nat, Known(t, b, e) PROVE Known(s, c, e)
    BY <1>1, <1>5 DEF Credit, CutTo, Own
  <2>1. CASE \E i \in DOMAIN v : Carries(v[i], s.d.tok) /\ e = At(v[i])
    BY <1>2, <1>4, <2>1 DEF Known
  <2>2. CASE Follows(b, s.d.tok) /\ e \in b.ends \cup {b.next}
    <3>1. (Carries(w[1], s.d.tok) /\ e = At(w[1])) \/ (Follows(c, s.d.tok) /\ e \in c.ends \cup {c.next})
      BY <1>8, <2>2 DEF Heard
    <3> QED
      BY <1>2, <1>4, <3>1 DEF Known
  <2> QED
    BY <1>5, <2>1, <2>2 DEF Known, CutTo
<1>19. Fence(t, b)
  <2>0. Own(t) = Own(s) /\ t.d = s.d /\ t.wire = v
    BY <1>5 DEF CutTo, Own
  <2> SUFFICES ASSUME Own(s), s.d.recEnd # None
               PROVE  /\ \A i \in 1..n : v[i].kind = "pending" /\ v[i].tok = s.d.tok => v[i].upto = s.d.recEnd
                      /\ b.phase = "recovering" /\ b.tok = s.d.tok => b.upto = s.d.recEnd
    BY <1>4, <2>0 DEF Fence
  <2>1. /\ \A i \in 1..n + 1 : w[i].kind = "pending" /\ w[i].tok = s.d.tok => w[i].upto = s.d.recEnd
        /\ c.phase = "recovering" /\ c.tok = s.d.tok => c.upto = s.d.recEnd
    BY <1>1, <1>2, <1>4 DEF Fence
  <2>2. b.phase = "recovering" /\ b.tok = s.d.tok => b.upto = s.d.recEnd
    BY <1>4, <1>8, <2>1 DEF Heard
  <2> QED
    BY <1>4, <2>1, <2>2
<1>20. Audience(t, b)
  <2> SUFFICES ASSUME s.open, s.exit # "done", ~Loose(s), NEW u \in Nat, Hears(v, b, u, n)
               PROVE  Owned(s) /\ u = s.d.tok
    BY <1>4, <1>5 DEF Audience, CutTo, Loose, Owned, Own
  <2>1. Hears(w, c, u, n + 1)
    <3>1. n \in 0..n
      BY <1>4
    <3> QED
      BY <1>10, <3>1
  <2> QED
    BY <1>1, <1>2, <1>4, <2>1 DEF Audience
<1>21. ClientOK(t, b)
  <2>1. b \in Client /\ b.up
    BY <1>8 DEF Heard
  <2>2. Response(m) => m.tok <= s.tokens /\ m.tok # 0
    BY <1>1, <1>2, <1>3, <1>4, FrameFacts DEF WireOK, Response
  <2>3. b.tok <= s.tokens
    BY <1>1, <1>2, <1>8, <2>2 DEF Heard, ClientOK
  <2>4. b.phase \in {"recovering", "live"} => b.tok # 0
    <3> SUFFICES ASSUME Follows(b, b.tok) PROVE b.tok # 0
      BY DEF Follows
    <3>1. Response(m) \/ Follows(c, b.tok)
      BY <1>2, <1>8 DEF Heard
    <3>2. CASE Follows(c, b.tok)
      BY <1>1, <3>2 DEF ClientOK, Follows
    <3>3. CASE Response(m) /\ ~Follows(c, b.tok)
      <4>1. Carries(m, b.tok)
        BY <1>2, <1>8, <3>3 DEF Heard
      <4> QED
        BY <2>2, <3>3, <4>1 DEF Carries
    <3> QED
      BY <3>1, <3>2, <3>3
  <2>5. b.phase = "ended" => s.exit # "no" /\ (b.next = s.made \/ Loose(s))
    <3>1. CASE c.phase = "ended" /\ b.next = c.next
      BY <1>1, <3>1 DEF ClientOK
    <3>2. CASE m.kind = "exit" /\ Follows(c, c.tok) /\ b.next = c.next
      <4>1. /\ s.exit # "no"
            /\ Loose(s) \/ \A u \in Nat : Hears(w, c, u, 1 - 1) => Reaches(w, c, u, 1 - 1, s.made)
        BY <1>1, <1>2, <1>4, <3>2 DEF WireOK, Ending
      <4>2. Hears(w, c, c.tok, 1 - 1) /\ c.tok \in Nat
        BY <1>1, <3>2 DEF Hears, Client
      <4>3. Loose(s) \/ Reaches(w, c, c.tok, 1 - 1, s.made)
        BY <4>1, <4>2
      <4> QED
        BY <3>2, <4>1, <4>3 DEF Reaches
    <3> QED
      BY <1>2, <1>8, <3>1, <3>2 DEF Heard
  <2> QED
    BY <1>5, <2>1, <2>3, <2>4, <2>5 DEF ClientOK, CutTo, Loose
<1>22. LedgerOK(t)
  BY <1>1, <1>5, CutLedger
<1> QED
  BY <1>5, <1>16, <1>17, <1>18, <1>19, <1>20, <1>21, <1>22 DEF Good, CutTo

-----------------------------------------------------------------------------
(* The callbacks of the relay. *)

\* A change of the chunks or of the queue of the link.
Refilled(s, made, timer, full) == [s EXCEPT !.made = made, !.timer = timer, !.full = full]

LEMMA RefilledOK ==
  ASSUME NEW s, NEW c, Calm(s, c), NEW made \in Nat, NEW timer \in BOOLEAN, NEW full \in BOOLEAN,
         made = s.made \/ (s.exit = "no" /\ made \in Ends /\ s.made <= made)
  PROVE  Calm(Refilled(s, made, timer, full), c)
<1>1. Good(s, c) /\ s \in Relay
  BY DEF Calm, Good, LedgerOK
<1>2. PICK t : t = Refilled(s, made, timer, full)
  OBVIOUS
<1>3. /\ Loaded(s, t) /\ t.made = made /\ t.exit = s.exit /\ t.draining = s.draining
      /\ t.died = s.died
  BY <1>1, <1>2 DEF Refilled, Relay, Loaded
<1>4. Good(t, c)
  BY <1>1, <1>3, LoadedOK
<1> QED
  BY <1>2, <1>3, <1>4 DEF Calm, Rest, Told, Loaded

LEMMA SettleDataOK ==
  ASSUME NEW s, NEW c, Calm(s, c), s.d.pend # None
  PROVE  Calm(Settled(CommitSend(s)), c)
<1>1. Step(s, CommitSend(s), c)
  BY CommitSendOK DEF Calm, Rest
<1>2. Calm(CommitSend(s), c)
  BY <1>1, CalmStep
<1>3. Step(CommitSend(s), Settled(CommitSend(s)), c)
  BY <1>2, SettledOK DEF Calm, Rest
<1> QED
  BY <1>2, <1>3, CalmStep

LEMMA SettleExitOK ==
  ASSUME NEW s, NEW c, Calm(s, c), s.d.exitSt = "pending", ~s.died
  PROVE  Calm(Settled(Capacity(ExitPublished(s))), c)
<1>1. PICK r : r = ExitPublished(s)
  OBVIOUS
<1>2. Good(r, c) /\ ~r.draining /\ ~r.died
  BY <1>1, ExitPublishedOK DEF Calm, Rest
<1>3. PICK t : t = Capacity(r)
  OBVIOUS
<1>4. Step(r, t, c) /\ Told(t)
  BY <1>2, <1>3, CapacityOK
<1>5. Calm(t, c)
  BY <1>2, <1>4 DEF Calm, Rest, Step, Same
<1>6. Step(t, Settled(t), c)
  BY <1>5, SettledOK DEF Calm, Rest
<1> QED
  BY <1>1, <1>3, <1>5, <1>6, CalmStep

LEMMA SettleCompleteOK ==
  ASSUME NEW s, NEW c, Calm(s, c), Own(s)
  PROVE  Calm(Settled(RecoveryCompleted(s)), c)
<1>1. s.d.tok # 0
  BY OwnTok DEF Calm, Good
<1>2. Step(s, RecoveryCompleted(s), c)
  BY <1>1, RecoveryCompletedOK DEF Calm, Rest
<1>3. Calm(RecoveryCompleted(s), c)
  BY <1>2, CalmStep
<1>4. Step(RecoveryCompleted(s), Settled(RecoveryCompleted(s)), c)
  BY <1>3, SettledOK DEF Calm, Rest
<1> QED
  BY <1>3, <1>4, CalmStep

LEMMA SettleResponseOK ==
  ASSUME NEW s, NEW c, Calm(s, c), s.d.restore \/ Own(s)
  PROVE  Calm(Settled(Activated(s)), c)
<1>1. Step(s, Activated(s), c)
  BY ActivatedOK DEF Calm, Rest
<1>2. Calm(Activated(s), c)
  BY <1>1, CalmStep
<1>3. Step(Activated(s), Settled(Activated(s)), c)
  BY <1>2, SettledOK DEF Calm, Rest
<1> QED
  BY <1>2, <1>3, CalmStep

LEMMA GraceOK ==
  ASSUME NEW s, NEW c, Calm(s, c), ~Own(s)
  PROVE  Calm(Capacity(Retired(s)), c)
<1>1. PICK t : t = Retired(s)
  OBVIOUS
<1>2. Step(s, t, c)
  BY <1>1, RetiredOK DEF Calm, Owned
<1>3. Calm(t, c)
  BY <1>2, CalmStep
<1>4. Step(t, Capacity(t), c)
  BY <1>3, CapacityOK DEF Calm, Rest
<1> QED
  BY <1>1, <1>3, <1>4, CalmStep

-----------------------------------------------------------------------------
(* The steps of the client and of the link. *)

\* A new link, with nothing on it.
Renewal(s, conn) == [s EXCEPT !.conn = conn, !.open = TRUE, !.wire = <<>>]

LEMMA ConnectedOK ==
  ASSUME NEW s, NEW c, Calm(s, c), ~s.open, ~c.up, s.conn < MaxConns,
         NEW b, b = [c EXCEPT !.up = TRUE]
  PROVE  Calm(Renewal(s, s.conn + 1), b)
<1>1. /\ LedgerOK(s) /\ ClientOK(s, c) /\ s \in Relay /\ c \in Client /\ s.conn \in Nat /\ s.d.conn \in Nat
      /\ Offsets(s) /\ Ahead(s) /\ Recovery(s) /\ Exiting(s) /\ Numbers(s) /\ Rest(s) /\ ~Own(s)
  BY DEF Calm, Good, LedgerOK, ClientOK, Relay, Ledger, Own
<1>2. PICK t : t = Renewal(s, s.conn + 1)
  OBVIOUS
<1>3. /\ t \in Relay /\ t.d = s.d /\ t.wire = <<>> /\ t.tokens = s.tokens /\ t.conn = s.conn + 1
      /\ t.open = TRUE /\ t.made = s.made /\ t.taken = s.taken /\ t.draining = s.draining
      /\ t.exit = s.exit /\ t.faulted = s.faulted /\ t.died = s.died
  <2>1. <<>> \in Seq(Frames) /\ s.conn + 1 \in Nat
    BY <1>1, EmptySeq
  <2> QED
    BY <1>1, <1>2, <2>1 DEF Renewal, Relay
<1>4. ~Own(t)
  BY <1>1, <1>3 DEF Own, Numbers
<1>5. LedgerOK(t)
  <2>1. Offsets(t)
    BY <1>1, <1>3 DEF Offsets
  <2>2. Ahead(t)
    BY <1>1, <1>3, <1>4 DEF Ahead
  <2>3. Recovery(t)
    BY <1>1, <1>3 DEF Recovery
  <2>4. Exiting(t)
    BY <1>1, <1>3, <1>4 DEF Exiting
  <2>5. Numbers(t)
    BY <1>1, <1>3, Limits DEF Numbers
  <2> QED
    BY <1>3, <2>1, <2>2, <2>3, <2>4, <2>5 DEF LedgerOK
<1>6. /\ b \in Client /\ b.up = TRUE /\ b.phase = c.phase /\ b.tok = c.tok /\ b.next = c.next
  BY <1>1 DEF Client
<1>7. ClientOK(t, b) /\ b.phase \notin {"recovering", "live"}
  BY <1>1, <1>3, <1>6 DEF ClientOK, Loose
<1>8. Good(t, b)
  BY <1>3, <1>5, <1>7, FreshOK
<1> QED
  BY <1>1, <1>2, <1>3, <1>8 DEF Calm, Rest, Told

\* Another phase of the client, and another checkpoint.
Phased(c, up, phase, ckpt) == [c EXCEPT !.up = up, !.phase = phase, !.ckpt = ckpt]

LEMMA PhasedFacts ==
  ASSUME NEW c \in Client, NEW up \in BOOLEAN, NEW phase \in Phases, NEW ckpt \in [tok : Nat, end : Nat]
  PROVE  LET b == Phased(c, up, phase, ckpt) IN
         /\ b \in Client /\ b.up = up /\ b.phase = phase /\ b.tok = c.tok /\ b.next = c.next
         /\ b.upto = c.upto /\ b.ends = c.ends
BY DEF Client, Phased

LEMMA LostOK ==
  ASSUME NEW s, NEW c, Calm(s, c), NEW phase, phase \in {"none", "ended", "gone"},
         phase = "ended" => c.phase = "ended",
         NEW ckpt \in [tok : Nat, end : Nat]
  PROVE  Calm(Cut(s, <<>>), Phased(c, FALSE, phase, ckpt))
<1>1. LedgerOK(s) /\ ClientOK(s, c) /\ s \in Relay /\ c \in Client /\ Rest(s)
  BY DEF Calm, Good, LedgerOK, ClientOK
<1>2. PICK t, b : t = Cut(s, <<>>) /\ b = Phased(c, FALSE, phase, ckpt)
  OBVIOUS
<1>3. CutTo(s, t, <<>>)
  BY <1>1, <1>2, EmptySeq, CutFacts
<1>4. LedgerOK(t)
  BY <1>1, <1>3, CutLedger
<1>5. /\ b \in Client /\ b.up = FALSE /\ b.phase = phase /\ b.tok = c.tok /\ b.next = c.next
  <2>1. PICK up \in BOOLEAN : up = FALSE
    OBVIOUS
  <2>2. phase \in Phases /\ b = Phased(c, up, phase, ckpt)
    BY <1>2, <2>1 DEF Phases
  <2>3. /\ b \in Client /\ b.up = up /\ b.phase = phase /\ b.tok = c.tok /\ b.next = c.next
    BY <1>1, <2>1, <2>2, PhasedFacts
  <2> QED
    BY <2>1, <2>3
<1>6. ClientOK(t, b)
  BY <1>1, <1>3, <1>5 DEF ClientOK, Loose, CutTo
<1>7. Good(t, b)
  BY <1>3, <1>4, <1>5, <1>6, FreshOK DEF CutTo
<1> QED
  BY <1>1, <1>2, <1>3, <1>7 DEF Calm, Rest, Told, CutTo

\* The client stops following what it follows.
LEMMA PhasedOK ==
  ASSUME NEW s, NEW c, Calm(s, c), c.up, c.phase # "attaching",
         NEW phase, phase \in {"none", "gone", "attaching"},
         NEW b, Turns(c, b, phase, c.tok, c.next, c.upto, c.ends)
  PROVE  Calm(s, b) /\ Silent(s, b) /\ b.phase = phase
<1>1. LedgerOK(s) /\ ClientOK(s, c) /\ s \in Relay /\ c \in Client /\ Good(s, c) /\ Rest(s)
  BY DEF Calm, Good, LedgerOK, ClientOK
<1>2. /\ b \in Client /\ b.up = c.up /\ b.phase = phase /\ b.tok = c.tok /\ b.next = c.next
  BY DEF Turns
<1>3. ClientOK(s, b)
  BY <1>1, <1>2 DEF ClientOK
<1>4. Good(s, b)
  BY <1>1, <1>2, <1>3, ClientChangedOK
<1>5. Silent(s, b)
  <2>1. \A i \in DOMAIN s.wire : ~Response(s.wire[i])
    BY <1>1 DEF Good, WireOK, Responses, Response
  <2>2. DOMAIN s.wire = 1..Len(s.wire)
    BY <1>1, WireFacts DEF Relay
  <2> QED
    BY <1>2, <2>1, <2>2 DEF Silent, Hears, Follows
<1> QED
  BY <1>1, <1>2, <1>4, <1>5 DEF Calm

-----------------------------------------------------------------------------
(* The invariant. *)

LEMMA InitOK == Init => IInv
<1> SUFFICES ASSUME Init PROVE IInv
  OBVIOUS
<1>1. /\ relay.d = NoDelivery /\ relay.conn = 1 /\ relay.made = 0 /\ relay.taken = 0
      /\ relay.died = FALSE /\ relay.draining = FALSE /\ relay.exit = "no" /\ relay.tokens = 0 /\ relay.wire = <<>>
  BY DEF Init
<1>2. relay \in Relay
  <2>1. <<>> \in Seq(Frames)
    BY EmptySeq
  <2> QED
    BY <2>1, NoDeliveryFacts, Zenon DEF Init, Relay
<1>3. client \in Client /\ client.phase = "none" /\ client.tok = 0 /\ client.up = TRUE
  <2>1. NoCheckpoint \in [tok : Nat, end : Nat] /\ {} \in SUBSET Nat /\ 0 \in Nat
        /\ "none" \in Phases /\ TRUE \in BOOLEAN /\ FALSE \in {FALSE}
    BY DEF NoCheckpoint, Phases
  <2> QED
    BY <2>1, Zenon DEF Init, Client
<1>4. LedgerOK(relay)
  <2>1. Offsets(relay)
    BY <1>1, NoDeliveryFacts, EndsOK DEF Offsets
  <2>2. Ahead(relay) /\ Recovery(relay) /\ Exiting(relay)
    BY <1>1, NoDeliveryFacts DEF Ahead, Recovery, Exiting
  <2>3. Numbers(relay)
    <3>1. 1 <= MaxConns /\ 0 <= MaxTokens
      BY PtyAssumption
    <3> QED
      BY <1>1, <3>1, NoDeliveryFacts DEF Numbers
  <2> QED
    BY <1>2, <2>1, <2>2, <2>3 DEF LedgerOK
<1>5. ClientOK(relay, client)
  BY <1>1, <1>3 DEF ClientOK
<1>6. Good(relay, client)
  BY <1>1, <1>3, <1>4, <1>5, FreshOK
<1>7. Rest(relay)
  BY <1>1, NoDeliveryFacts DEF Rest, Told
<1>8. fills \in 0..MaxFills
  BY Limits DEF Init
<1> QED
  BY <1>6, <1>7, <1>8 DEF IInv

\* A callback of the relay.
LEMMA RelayOK ==
  ASSUME IInv, Calm(relay', client), UNCHANGED <<client, fills>>
  PROVE  IInv'
BY DEF IInv, Calm

LEMMA RelayNextOK == IInv /\ RelayNext => IInv'
<1> SUFFICES ASSUME IInv, RelayNext PROVE IInv'
  OBVIOUS
<1>1. /\ Calm(relay, client) /\ relay \in Relay /\ relay.made \in Nat /\ fills \in 0..MaxFills
      /\ Offsets(relay)
  BY DEF IInv, Calm, Good, LedgerOK, Relay
<1>2. CASE PtyOutput
  <2>1. /\ NextEnd(relay.made) \in Ends /\ NextEnd(relay.made) \in Nat
        /\ relay.made <= NextEnd(relay.made) /\ relay.exit = "no"
    BY <1>1, <1>2, NextEndOK, EndsOK DEF PtyOutput
  <2>2. relay' = Refilled(relay, NextEnd(relay.made), TRUE, relay.full)
    BY <1>1, <1>2 DEF PtyOutput, Become, Refilled, Relay
  <2>3. PICK b \in BOOLEAN : b = TRUE
    OBVIOUS
  <2>4. relay.full \in BOOLEAN
    BY <1>1 DEF Relay
  <2>5. Calm(Refilled(relay, NextEnd(relay.made), b, relay.full), client)
    BY <1>1, <2>1, <2>4, RefilledOK
  <2> QED
    BY <1>2, <2>2, <2>3, <2>5, RelayOK DEF PtyOutput, Become
<1>3. CASE Flush
  BY <1>1, <1>3, FlushQueuedOK, RelayOK DEF Flush, FlushDue, Become
<1>4. CASE PtyExit
  BY <1>1, <1>4, ExitNowOK, RelayOK DEF PtyExit, Become
<1>5. CASE SettleData
  BY <1>1, <1>5, SettleDataOK, RelayOK DEF SettleData, DataWritten, Become
<1>6. CASE SettleExit
  BY <1>1, <1>6, SettleExitOK, RelayOK DEF SettleExit, ExitWritten, Become, Alive
<1>7. CASE SettleComplete
  BY <1>1, <1>7, SettleCompleteOK, RelayOK DEF SettleComplete, CompleteWritten, Become
<1>8. CASE SettleResponse
  BY <1>1, <1>8, SettleResponseOK, RelayOK DEF SettleResponse, ResponseWritten, Become
<1>9. CASE QueueFills
  <2>1. relay' = Refilled(relay, relay.made, relay.timer, TRUE)
    BY <1>1, <1>9 DEF QueueFills, Refilled, Relay
  <2>2. PICK b \in BOOLEAN : b = TRUE
    OBVIOUS
  <2>3. relay.timer \in BOOLEAN
    BY <1>1 DEF Relay
  <2>4. Calm(Refilled(relay, relay.made, relay.timer, b), client)
    BY <1>1, <2>3, RefilledOK
  <2>5. fills' \in 0..MaxFills
    BY <1>1, <1>9, Limits DEF QueueFills
  <2> QED
    BY <1>9, <2>1, <2>2, <2>4, <2>5 DEF IInv, Calm, QueueFills
<1>10. CASE QueueDrains
  <2>1. PICK t : t = Refilled(relay, relay.made, relay.timer, FALSE)
    OBVIOUS
  <2>2. [relay EXCEPT !.full = FALSE] = t
    BY <1>1, <2>1 DEF Refilled, Relay
  <2>3. PICK b \in BOOLEAN : b = FALSE
    OBVIOUS
  <2>4. relay.timer \in BOOLEAN
    BY <1>1 DEF Relay
  <2>5. Calm(Refilled(relay, relay.made, relay.timer, b), client)
    BY <1>1, <2>4, RefilledOK
  <2>6. Calm(t, client)
    BY <2>1, <2>3, <2>5
  <2>7. Step(t, CapacitySignal(t), client)
    BY <2>6, CapacitySignalOK DEF Calm, Rest
  <2>8. Calm(CapacitySignal(t), client)
    BY <2>6, <2>7, CalmStep
  <2> QED
    BY <1>10, <2>2, <2>8, RelayOK DEF QueueDrains, Become
<1>11. CASE GraceExpires
  BY <1>1, <1>11, GraceOK, RelayOK DEF GraceExpires, Orphaned, Become
<1>12. CASE RelayCloses
  BY <1>1, <1>12, ClosedOK, RelayOK DEF RelayCloses, Become
<1> QED
  BY <1>2, <1>3, <1>4, <1>5, <1>6, <1>7, <1>8, <1>9, <1>10, <1>11, <1>12 DEF RelayNext

\* A step that leaves the two calm.
LEMMA BothOK ==
  ASSUME IInv, Calm(relay', client'), fills' = fills
  PROVE  IInv'
BY DEF IInv, Calm

\* The owner attaches: the relay sees it waiting for the response.
LEMMA AttachingOK ==
  ASSUME IInv, CanAttach, NEW b, b = [client EXCEPT !.phase = "attaching"]
  PROVE  /\ Calm(relay, b) /\ b.phase = "attaching" /\ relay.open
         /\ relay.exit = "no" => Plain(relay)
         /\ client.ckpt \in [tok : Nat, end : Nat]
<1>1. /\ Calm(relay, client) /\ client \in Client /\ Good(relay, client)
      /\ client.phase = "none" /\ client.up
  BY DEF IInv, Calm, Good, ClientOK, CanAttach
<1>2. b = Turned(client, "attaching", client.tok, client.next, client.upto, client.ends, client.ckpt)
  BY <1>1 DEF Turned, Client
<1>3. /\ client.ckpt \in [tok : Nat, end : Nat] /\ "attaching" \in Phases /\ client.tok \in Nat
      /\ client.next \in Nat /\ client.upto \in Nat /\ client.ends \in SUBSET Nat
  BY <1>1 DEF Client, Phases
<1>4. Turns(client, b, "attaching", client.tok, client.next, client.upto, client.ends)
  BY <1>1, <1>2, <1>3, TurnedFacts
<1>5. Calm(relay, b) /\ b.phase = "attaching"
  BY <1>1, <1>4, PhasedOK
<1>6. relay.exit = "no" => Plain(relay)
  BY <1>1, PlainOK
<1> QED
  BY <1>3, <1>5, <1>6 DEF CanAttach

LEMMA ClientNextOK == IInv /\ ClientNext => IInv'
<1> SUFFICES ASSUME IInv, ClientNext PROVE IInv'
  OBVIOUS
<1>1. /\ Calm(relay, client) /\ Good(relay, client) /\ relay \in Relay /\ client \in Client
      /\ LedgerOK(relay) /\ Rest(relay)
  BY DEF IInv, Calm, Good, LedgerOK, ClientOK
<1>2. /\ client.ckpt \in [tok : Nat, end : Nat] /\ NoCheckpoint \in [tok : Nat, end : Nat]
      /\ client.tok \in Nat /\ client.next \in Nat /\ client.upto \in Nat
      /\ client.ends \in SUBSET Nat /\ client.ends \subseteq Nat
  BY <1>1 DEF Client, NoCheckpoint
<1>3. CASE Connect
  <2>1. PICK s : s = IF relay.open THEN Closed(relay) ELSE relay
    OBVIOUS
  <2>2. Calm(s, client) /\ ~s.open /\ s.conn = relay.conn
    BY <1>1, <2>1, ClosedOK
  <2>3. PICK b : b = [client EXCEPT !.up = TRUE]
    OBVIOUS
  <2>4. ~client.up /\ relay.conn < MaxConns
    BY <1>3 DEF Connect
  <2>5. Calm(Renewal(s, s.conn + 1), b)
    BY <2>2, <2>3, <2>4, ConnectedOK
  <2>6. s \in Relay
    BY <2>2 DEF Calm, Good, LedgerOK
  <2>7. relay' = Renewal(s, s.conn + 1) /\ client' = b /\ fills' = fills
    BY <1>3, <2>1, <2>3, <2>6 DEF Connect, Renewal, Relay
  <2> QED
    BY <2>5, <2>7, BothOK
<1>4. CASE ClientLost
  <2>1. PICK phase, ckpt :
           /\ phase = IF client.phase \in {"ended", "gone"} THEN client.phase ELSE "none"
           /\ ckpt = IF client.phase = "live" THEN [tok |-> client.tok, end |-> client.next] ELSE client.ckpt
    OBVIOUS
  <2>2. /\ phase \in {"none", "ended", "gone"} /\ (phase = "ended" => client.phase = "ended")
        /\ ckpt \in [tok : Nat, end : Nat]
    BY <1>2, <2>1
  <2>3. Calm(Cut(relay, <<>>), Phased(client, FALSE, phase, ckpt))
    BY <1>1, <2>2, LostOK
  <2>4. client' = Phased(client, FALSE, phase, ckpt)
    <3>1. client' = [client EXCEPT !.up = FALSE,
             !.phase = IF client.phase \in {"ended", "gone"} THEN client.phase ELSE "none",
             !.ckpt = IF client.phase = "live"
                      THEN [tok |-> client.tok, end |-> client.next] ELSE client.ckpt]
      BY <1>1, <1>4 DEF ClientLost, Client
    <3> QED
      BY <2>1, <3>1 DEF Phased
  <2>5. relay' = Cut(relay, <<>>) /\ fills' = fills
    BY <1>4 DEF ClientLost, Cut
  <2> QED
    BY <2>3, <2>4, <2>5, BothOK
<1>5. CASE Receive
  <2>1. PICK b, t : b = Received(client, Head(relay.wire)) /\ t = Cut(relay, Tail(relay.wire))
    OBVIOUS
  <2>2. /\ Good(t, b) /\ t.draining = relay.draining /\ t.d = relay.d /\ t.exit = relay.exit
        /\ t.died = relay.died
    BY <1>1, <1>5, <2>1, ReceiveOK DEF Receive
  <2>3. Calm(t, b)
    BY <1>1, <2>2 DEF Calm, Rest, Told
  <2>4. relay' = t /\ client' = b /\ fills' = fills
    BY <1>1, <1>5, <2>1 DEF Receive, Cut, Relay
  <2> QED
    BY <2>3, <2>4, BothOK
<1>6. CASE Ack
  <2>1. PICK end \in client.ends : MayAck(end) /\ Become(Acknowledged(relay, end))
    BY <1>6 DEF Ack
  <2>2. end \in Nat /\ Own(relay)
    BY <1>2, <2>1 DEF MayAck
  <2>3. Step(relay, Acknowledged(relay, end), client)
    BY <1>1, <2>2, AcknowledgedOK DEF Rest
  <2>4. Calm(Acknowledged(relay, end), client)
    BY <1>1, <2>3, CalmStep
  <2> QED
    BY <2>1, <2>4, RelayOK DEF Become
<1>7. CASE AbandonRecovery
  <2>1. PICK b : b = [client EXCEPT !.phase = "none", !.ckpt = NoCheckpoint]
    OBVIOUS
  <2>2. b = Turned(client, "none", client.tok, client.next, client.upto, client.ends, NoCheckpoint)
    BY <1>1, <2>1 DEF Turned, Client
  <2>3. Turns(client, b, "none", client.tok, client.next, client.upto, client.ends)
    BY <1>1, <1>2, <2>2, TurnedFacts DEF Phases
  <2>4. Calm(relay, b) /\ Silent(relay, b)
    BY <1>1, <1>7, <2>3, PhasedOK DEF AbandonRecovery
  <2>5. Calm(Canceled(relay), b)
    BY <2>4, CanceledOK
  <2>6. client' = b /\ fills' = fills /\ relay' \in {relay, Canceled(relay)}
    BY <1>7, <2>1 DEF AbandonRecovery
  <2> QED
    BY <2>4, <2>5, <2>6, BothOK
<1>8. CASE AttachExited
  <2>1. PICK b : b = [client EXCEPT !.phase = "gone"]
    OBVIOUS
  <2>2. b = Turned(client, "gone", client.tok, client.next, client.upto, client.ends, client.ckpt)
    BY <1>1, <2>1 DEF Turned, Client
  <2>3. Turns(client, b, "gone", client.tok, client.next, client.upto, client.ends)
    BY <1>1, <1>2, <2>2, TurnedFacts DEF Phases
  <2>4. Calm(relay, b)
    BY <1>1, <1>8, <2>3, PhasedOK DEF AttachExited, CanAttach
  <2>5. client' = b /\ fills' = fills /\ relay' = relay
    BY <1>8, <2>1 DEF AttachExited
  <2> QED
    BY <2>4, <2>5, BothOK
<1>9. PICK b : b = [client EXCEPT !.phase = "attaching"]
  OBVIOUS
<1>10. CASE AttachOpen
  <2>1. /\ Calm(relay, b) /\ b.phase = "attaching" /\ relay.open /\ relay.exit = "no" /\ Plain(relay)
    BY <1>9, <1>10, AttachingOK DEF AttachOpen
  <2>2. Calm(Opened(relay), b)
    BY <1>10, <2>1, OpenedOK DEF AttachOpen
  <2>3. relay' = Opened(relay) /\ client' = b /\ fills' = fills
    BY <1>9, <1>10 DEF AttachOpen, Respond
  <2> QED
    BY <2>2, <2>3, BothOK
<1>11. CASE AttachRotate
  <2>1. /\ Calm(relay, b) /\ b.phase = "attaching" /\ relay.open /\ relay.exit = "no" /\ Plain(relay)
    BY <1>9, <1>11, AttachingOK DEF AttachRotate
  <2>2. Calm(Rotated(relay, client.ckpt.end), b)
    BY <1>2, <1>11, <2>1, RotatedOK DEF AttachRotate, CanAttach
  <2>3. relay' = Rotated(relay, client.ckpt.end) /\ client' = b /\ fills' = fills
    BY <1>9, <1>11 DEF AttachRotate, Respond
  <2> QED
    BY <2>2, <2>3, BothOK
<1>12. CASE AttachRestore
  <2>1. /\ Calm(relay, b) /\ b.phase = "attaching" /\ relay.open /\ relay.exit = "no" /\ Plain(relay)
    BY <1>9, <1>12, AttachingOK DEF AttachRestore
  <2>2. Calm(Restored(relay), b)
    BY <1>12, <2>1, RestoredOK DEF AttachRestore, CanAttach
  <2>3. relay' = Restored(relay) /\ client' = b /\ fills' = fills
    BY <1>9, <1>12 DEF AttachRestore, Respond
  <2> QED
    BY <2>2, <2>3, BothOK
<1> QED
  BY <1>3, <1>4, <1>5, <1>6, <1>7, <1>8, <1>10, <1>11, <1>12 DEF ClientNext

\* The inductive invariant holds in every state.
THEOREM Inductive == Spec => []IInv
<1>1. IInv /\ [Next]_vars => IInv'
  <2>1. ASSUME IInv, UNCHANGED vars PROVE IInv'
    BY <2>1 DEF IInv, vars
  <2> QED
    BY <2>1, RelayNextOK, ClientNextOK DEF Next
<1> QED
  BY InitOK, <1>1, PTL DEF Spec

-----------------------------------------------------------------------------
(* What the component promises. *)

\* The relay's offsets stay in order and every frame, phase and stage is one
\* the code knows: the ledger of relay-pty-source-ledger.ts for every output,
\* window, retained limit and number of reconnections.
THEOREM TypeOKHolds == Spec => []TypeOK
<1>1. IInv => TypeOK
  <2> SUFFICES ASSUME IInv PROVE TypeOK
    OBVIOUS
  <2>1. /\ relay \in Relay /\ relay.d \in Ledger /\ client \in Client /\ fills \in 0..MaxFills
        /\ Offsets(relay) /\ Ahead(relay) /\ Numbers(relay) /\ relay.wire \in Seq(Frames)
    BY DEF IInv, Good, LedgerOK, ClientOK, Relay
  <2>2. /\ relay.d.tok \in Nat /\ relay.d.conn \in Nat /\ relay.tokens \in Nat /\ relay.conn \in Nat
        /\ relay.d.cred \in Nat /\ relay.d.sent \in Nat /\ relay.d.recv \in Nat
        /\ relay.d.st \in Stages /\ relay.d.exitSt \in ExitSts /\ client.phase \in Phases
        /\ relay.exit \in {"no", "pending", "done"}
        /\ relay.d.pend \in Optional /\ relay.d.resAck \in Optional
    BY <2>1 DEF Relay, Ledger, Client
  <2>3. relay.d.tok \in 0..MaxTokens /\ relay.d.conn \in 0..MaxConns
    BY <2>1, <2>2, Limits DEF Numbers
  <2>4. Range(relay.wire) \subseteq Frames
    <3>1. DOMAIN relay.wire = 1..Len(relay.wire) /\ \A i \in 1..Len(relay.wire) : relay.wire[i] \in Frames
      BY <2>1, WireFacts
    <3> QED
      BY <3>1 DEF Range
  <2>5. /\ relay.d.pend # None => relay.d.pend \in (relay.d.sent + 1)..relay.d.recv
        /\ relay.d.resAck # None => relay.d.resAck \in (relay.d.sent + 1)..relay.d.recv
    BY <2>1, <2>2 DEF Ahead, Optional
  <2>6. /\ 0 <= relay.d.cred /\ relay.d.cred <= relay.d.sent /\ relay.d.sent <= relay.d.recv
        /\ relay.d.recv <= relay.taken /\ relay.taken <= relay.made
        /\ relay.d.bounds \subseteq relay.d.cred..relay.d.sent
    BY <2>1, <2>2 DEF Offsets, Ahead
  <2> QED
    BY <2>1, <2>2, <2>3, <2>4, <2>5, <2>6 DEF TypeOK, Stages, ExitSts, Phases
<1> QED
  BY Inductive, <1>1, PTL

\* The client never finds a frame out of place, however often the delivery is
\* rotated, its writes fail or its recovery is given up.
THEOREM NothingRejectedHolds == Spec => []NothingRejected
<1>1. IInv => NothingRejected
  BY DEF IInv, Good, ClientOK, Client, NothingRejected
<1> QED
  BY Inductive, <1>1, PTL

\* What the client has accepted and not credited never exceeds the window the
\* delivery was opened with.
THEOREM WithinWindowHolds == Spec => []WithinWindow
<1>1. IInv => WithinWindow
  <2> SUFFICES ASSUME IInv, Following PROVE client.next - relay.d.cred <= Window
    BY DEF WithinWindow
  <2>1. /\ Credit(relay, client) /\ client.next \in Nat /\ relay.d.cred \in Nat
    BY DEF IInv, Good, LedgerOK, ClientOK, Client, Relay, Ledger
  <2>2. Known(relay, client, client.next)
    BY DEF Known, Follows, Following
  <2>3. client.next <= relay.d.cred + Window
    BY <2>1, <2>2 DEF Credit
  <2> QED
    BY <2>1, <2>3, Limits
<1> QED
  BY Inductive, <1>1, PTL

\* While the link is up the ledger takes an acknowledgment for whatever the
\* client has accepted and not credited yet.
THEOREM AckRecognizedHolds == Spec => []AckRecognized
<1>1. IInv => AckRecognized
  <2> SUFFICES ASSUME IInv, Following, Own(relay), NEW end \in client.ends, end > relay.d.cred
               PROVE  end \in Ackable(relay.d)
    BY DEF AckRecognized
  <2>1. Credit(relay, client) /\ end \in Nat
    BY DEF IInv, Good, ClientOK, Client
  <2>2. Known(relay, client, end)
    BY DEF Known, Follows, Following
  <2> QED
    BY <2>1, <2>2 DEF Credit
<1> QED
  BY Inductive, <1>1, PTL

\* A client that is told of the exit has everything the PTY wrote, unless the
\* exit's publication faulted and the delivery was given up for it.
THEOREM ExitAfterDataHolds == Spec => []ExitAfterData
<1>1. IInv => ExitAfterData
  BY DEF IInv, Good, ClientOK, Loose, ExitAfterData
<1> QED
  BY Inductive, <1>1, PTL

=============================================================================
