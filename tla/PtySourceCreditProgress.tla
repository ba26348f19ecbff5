----------------------- MODULE PtySourceCreditProgress -----------------------
(***************************************************************************)
(* The terminal's output never gets stuck: while a client is owed output,  *)
(* the end of its recovery or the exit, and nothing of the delivery was    *)
(* refused, some event that FairSpec lets happen is still due.             *)
(*                                                                         *)
(* Sound is what every operator on the relay's state keeps, Rested what    *)
(* each callback leaves behind: the delivery was pumped as far as it may   *)
(* go, the queue's timer runs while a chunk can be taken, and a pending    *)
(* exit waits for something.  The safety of PtySourceCreditProofs is used  *)
(* throughout; each operator's lemma here adds what it does for progress.  *)
(***************************************************************************)
EXTENDS PtySourceCreditProofs

Posted(s) == Range(s.wire)

\* A sealed delivery has taken in everything.
Sealing(s) == s.d.st = "sealed" => s.taken = s.made /\ s.exit # "no"

\* A delivery given up for a faulted exit is not replaced.
Forsaken(s) == s.faulted => s.d.tok = 0 /\ s.exit # "no"

\* The fence of a recovery can be reached without credit.
InReach(s) == s.d.recEnd # None => s.d.recEnd <= s.d.cred + Window

\* A client that is attaching has its response on the way.
Answering(s, c) ==
    c.phase = "attaching" => \E f \in Posted(s) : f.kind \in {"opened", "pending", "restore"}

\* The client follows a delivery, or will.
Listens(s, c) == c.phase \in {"recovering", "live"} \/ \E f \in Posted(s) : Response(f)

\* An exit frame was sent and a client that listens has it before it.
Ended(s) == s.exit = "done" \/ (Own(s) /\ s.d.exitSt # "idle")
Telling(s, c) == s.open /\ Ended(s) /\ Listens(s, c) => \E f \in Posted(s) : f.kind = "exit"

Posts(s, kind) == \E f \in Posted(s) : f.kind = kind /\ f.tok = s.d.tok

\* A client of the delivery that is, or will be, recovering; or live.
Mends(s, c) == (c.phase = "recovering" /\ c.tok = s.d.tok) \/ Posts(s, "pending")
Lives(s, c) == \/ c.phase = "live" /\ c.tok = s.d.tok
               \/ Posts(s, "opened") \/ Posts(s, "complete")

\* The client and the ledger agree on whether the recovery is over, up to the
\* frame that says so.
Mending(s, c) ==
    Own(s) =>
        /\ s.d.completing => s.d.recEnd # None
        /\ (s.d.completing \/ s.d.recEnd = None) /\ Mends(s, c) => Posts(s, "complete")
        /\ s.d.recEnd # None /\ ~s.d.completing => ~Lives(s, c)

Sound(s, c) ==
    /\ Sealing(s) /\ Forsaken(s) /\ InReach(s) /\ (s.full => s.open)
    /\ Answering(s, c) /\ Telling(s, c) /\ Mending(s, c)

\* The delivery was pumped as far as it goes.
Pumped(s) ==
    Own(s) /\ ~s.d.activating /\ ~s.d.refused /\ s.d.pend = None =>
        IF Fenced(s) THEN s.d.completing ELSE ~Sendable(s)

\* The queue's timer runs, while its first chunk can be taken.
Eager(s) == Queued(s) => s.timer
Armed(s) == Queued(s) /\ Accepts(s) => s.timer

\* A pending exit waits for the queues, for the writer, for credit, or for a
\* delivery that has lost its owner.
Exited(s) ==
    s.exit = "pending" /\ ~s.full /\ ~Queued(s) =>
        /\ s.d.tok # 0 /\ s.d.exitSt # "published"
        /\ Own(s) /\ ~s.d.refused =>
             s.d.exitSt = "pending" \/ (s.d.st = "sealed" /\ s.d.sent < s.d.recv)

Rested(s) == Pumped(s) /\ Armed(s) /\ Exited(s)

Progress == Sound(relay, client) /\ Rested(relay)

-----------------------------------------------------------------------------
(* What an operator keeps. *)

Holds(s, c) == Wide = {} /\ Good(s, c) /\ Sound(s, c) /\ ~s.died

\* The timer is not stopped, and no delivery is made up.
Turn(s, t, c) ==
    /\ Step(s, t, c) /\ Sound(t, c) /\ ~t.died
    /\ (s.timer => t.timer) /\ t.d.tok \in {0, s.d.tok}

LEMMA TurnTwice ==
  ASSUME NEW r, NEW s, NEW t, NEW c, Turn(r, s, c), Turn(s, t, c)
  PROVE  Turn(r, t, c)
BY StepTwice DEF Turn

LEMMA TurnHolds ==
  ASSUME NEW s, NEW t, NEW c, Holds(s, c), Turn(s, t, c)
  PROVE  Holds(t, c)
BY DEF Holds, Turn, Step

LEMMA TurnSelf ==
  ASSUME NEW s, NEW c, Holds(s, c)
  PROVE  Turn(s, s, c)
BY DEF Holds, Turn, Step, Same

\* What is sent after the response.
Wider(s, t) ==
    /\ Posted(s) \subseteq Posted(t)
    /\ \A f \in Posted(t) : f \in Posted(s) \/ f.kind \in {"data", "complete", "exit"}

\* A recovery is completed by the frame that says so.
Mended(s, t) ==
    /\ t.d.completing => t.d.recEnd # None
    /\ t.d.completing \/ t.d.recEnd = None =>
         s.d.completing \/ s.d.recEnd = None \/ Posts(t, "complete")
    /\ t.d.recEnd # None /\ ~t.d.completing =>
         /\ s.d.recEnd # None /\ ~s.d.completing
         /\ \A f \in Posted(t) : f.kind = "complete" /\ f.tok = t.d.tok => f \in Posted(s)

\* The exit is done, or its frame is sent, where it was before or now is.
TellsOf(s, t) ==
    t.open /\ Ended(t) =>
        \/ s.exit = "done" \/ (s.d.tok # 0 /\ s.d.exitSt # "idle")
        \/ \E f \in Posted(t) : f.kind = "exit"

\* A client that listens is the owner, until the exit is done.
LEMMA Listener ==
  ASSUME NEW s, NEW c, Good(s, c), s.open, s.exit # "done", ~s.faulted, Listens(s, c)
  PROVE  Owned(s)
<1>1. /\ s \in Relay /\ c \in Client /\ s.wire \in Seq(Frames)
  BY DEF Good, LedgerOK, ClientOK, Relay
<1>2. DOMAIN s.wire = 1..Len(s.wire) /\ \A i \in 1..Len(s.wire) : s.wire[i] \in Frames
  BY <1>1, WireFacts
<1>3. \E u \in Nat : Hears(s.wire, c, u, Len(s.wire))
  <2>1. CASE c.phase \in {"recovering", "live"}
    <3>1. c.tok \in Nat
      BY <1>1 DEF Client
    <3> QED
      BY <2>1, <3>1 DEF Hears, Follows
  <2>2. CASE \E f \in Posted(s) : Response(f)
    <3>1. PICK i \in 1..Len(s.wire) : Response(s.wire[i])
      BY <1>2, <2>2 DEF Posted, Range
    <3>2. s.wire[i].tok \in Nat
      BY <1>2, <3>1, FrameFacts DEF Response
    <3> QED
      BY <3>1, <3>2 DEF Hears
  <2> QED
    BY <2>1, <2>2 DEF Listens
<1> QED
  BY <1>3 DEF Good, Audience, Loose

LEMMA SoundOK ==
  ASSUME NEW s, NEW c, Good(s, c), Sound(s, c), NEW t, Wider(s, t), t.conn = s.conn,
         t.open => s.open, t.full => t.open, Sealing(t), Forsaken(t), InReach(t), TellsOf(s, t),
         Own(t) => Own(s) /\ t.d.tok = s.d.tok /\ Mended(s, t)
  PROVE  Sound(t, c)
<1>1. Answering(t, c)
  BY DEF Sound, Answering, Wider
<1>2. Listens(t, c) => Listens(s, c)
  BY DEF Listens, Wider, Response
<1>3. Telling(t, c)
  <2> SUFFICES ASSUME t.open, Ended(t), Listens(t, c)
               PROVE  \E f \in Posted(t) : f.kind = "exit"
    BY DEF Telling
  <2>1. s.open /\ Listens(s, c)
    BY <1>2
  <2>2. Ended(s) => \E f \in Posted(s) : f.kind = "exit"
    BY <2>1 DEF Sound, Telling
  <2>3. CASE Ended(s)
    BY <2>2, <2>3 DEF Wider
  <2>4. CASE ~Ended(s) /\ s.d.tok # 0 /\ s.d.exitSt # "idle"
    <3>1. ~s.faulted
      BY <2>4 DEF Sound, Forsaken
    <3>2. s.exit # "done"
      BY <2>4 DEF Ended
    <3>3. Owned(s)
      BY <2>1, <3>1, <3>2, Listener
    <3> QED
      BY <2>4, <3>3 DEF Owned, Ended
  <2> QED
    BY <2>3, <2>4 DEF TellsOf, Ended
<1>4. Mending(t, c)
  <2> SUFFICES ASSUME Own(t) PROVE Mending(t, c)
    BY DEF Mending
  <2>1. Own(s) /\ t.d.tok = s.d.tok /\ Mended(s, t) /\ Mending(s, c)
    BY DEF Sound
  <2>2. Mends(t, c) => Mends(s, c)
    BY <2>1 DEF Mends, Posts, Wider
  <2>3. Posts(s, "complete") => Posts(t, "complete")
    BY <2>1 DEF Posts, Wider
  <2>4. t.d.recEnd # None /\ ~t.d.completing => (Lives(t, c) => Lives(s, c))
    BY <2>1 DEF Lives, Posts, Wider, Mended
  <2> QED
    BY <2>1, <2>2, <2>3, <2>4 DEF Mending, Mended
<1> QED
  BY <1>1, <1>3, <1>4 DEF Sound

\* A change that sends nothing, and says nothing new of the recovery.
LEMMA AlikeSound ==
  ASSUME NEW s, NEW c, Good(s, c), Sound(s, c), NEW t, Alike(s, t),
         Sealing(t), Forsaken(t), InReach(t), TellsOf(s, t),
         Own(t) => /\ t.d.tok = s.d.tok /\ t.d.conn = s.d.conn
                   /\ t.d.recEnd = s.d.recEnd /\ t.d.completing = s.d.completing
  PROVE  Sound(t, c)
<1>1. Wider(s, t) /\ t.conn = s.conn /\ t.open = s.open /\ t.full = s.full
  BY DEF Alike, Wider, Posted
<1>2. ASSUME Own(t) PROVE Own(s) /\ t.d.tok = s.d.tok /\ Mended(s, t)
  <2>1. Own(s) /\ Mending(s, c)
    BY <1>1, <1>2 DEF Own, Sound
  <2>2. Posted(t) = Posted(s)
    BY DEF Alike, Posted
  <2> QED
    BY <1>2, <2>1, <2>2 DEF Mended, Mending
<1>3. s.full => s.open
  BY DEF Sound
<1> QED
  BY <1>1, <1>2, <1>3, SoundOK

LEMMA SentPosts ==
  ASSUME NEW s \in Relay, NEW f \in Frames
  PROVE  Posted(Sent(s, f)) = Posted(s) \cup {f}
<1>1. s.wire \in Seq(Frames)
  BY DEF Relay
<1>2. PICK v : v = Append(s.wire, f)
  OBVIOUS
<1>3. /\ v \in Seq(Frames) /\ Len(s.wire) \in Nat /\ Len(v) = Len(s.wire) + 1
      /\ DOMAIN s.wire = 1..Len(s.wire) /\ DOMAIN v = 1..Len(s.wire) + 1
      /\ v[Len(s.wire) + 1] = f /\ \A i \in 1..Len(s.wire) : v[i] = s.wire[i]
  BY <1>1, <1>2, AppendFacts
<1>4. Range(v) = Range(s.wire) \cup {f}
  <2>1. ASSUME NEW g \in Range(v) PROVE g \in Range(s.wire) \cup {f}
    <3>1. PICK i \in 1..Len(s.wire) + 1 : g = v[i]
      BY <1>3 DEF Range
    <3>2. i = Len(s.wire) + 1 \/ i \in 1..Len(s.wire)
      BY <1>3
    <3> QED
      BY <1>3, <3>1, <3>2 DEF Range
  <2>2. f \in Range(v)
    <3>1. Len(s.wire) + 1 \in DOMAIN v
      BY <1>3
    <3> QED
      BY <1>3, <3>1 DEF Range
  <2>3. ASSUME NEW g \in Range(s.wire) PROVE g \in Range(v)
    <3>1. PICK i \in 1..Len(s.wire) : g = s.wire[i]
      BY <1>3 DEF Range
    <3>2. i \in DOMAIN v
      BY <1>3
    <3> QED
      BY <1>3, <3>1, <3>2 DEF Range
  <2> QED
    BY <2>1, <2>2, <2>3
<1>5. Sent(s, f).wire = v
  BY <1>2, SentFacts
<1> QED
  BY <1>4, <1>5 DEF Posted

\* An exit frame, or one of the delivery, is sent.
LEMMA SentWider ==
  ASSUME NEW s \in Relay, NEW f \in Frames, f.kind \in {"data", "complete", "exit"},
         NEW t, t.wire = Sent(s, f).wire
  PROVE  Wider(s, t) /\ Posted(t) = Posted(s) \cup {f}
<1>1. Posted(t) = Posted(s) \cup {f}
  BY SentPosts DEF Posted
<1> QED
  BY <1>1 DEF Wider

-----------------------------------------------------------------------------
(* The exit, the pump and the capacity calls. *)

LEMMA ExitDoneTurn ==
  ASSUME NEW s, NEW c, Holds(s, c), s.exit # "no", s.d.exitSt # "pending",
         ~s.open \/ (s.d.tok # 0 /\ s.d.exitSt # "idle") \/ \E f \in Posted(s) : f.kind = "exit"
  PROVE  Turn(s, ExitDone(s), c)
<1>1. s \in Relay /\ Good(s, c) /\ Sound(s, c)
  BY DEF Holds, Good, LedgerOK
<1>2. PICK t : t = ExitDone(s)
  OBVIOUS
<1>3. /\ Alike(s, t) /\ t.d = s.d /\ t.exit = "done" /\ t.died = s.died /\ t.faulted = s.faulted
      /\ t.timer = s.timer
  BY <1>1, <1>2 DEF Alike, Relay, ExitDone
<1>4. Sealing(t) /\ Forsaken(t) /\ InReach(t)
  BY <1>1, <1>3 DEF Sound, Sealing, Forsaken, InReach, Alike
<1>5. TellsOf(s, t)
  BY <1>3 DEF TellsOf, Alike, Posted
<1>6. Sound(t, c)
  BY <1>1, <1>3, <1>4, <1>5, AlikeSound
<1>7. Step(s, t, c)
  BY <1>1, <1>2, ExitDoneOK
<1> QED
  BY <1>2, <1>3, <1>6, <1>7 DEF Turn, Holds

\* Unless the queue is full, the exit is done.
LEMMA LegacyExitTurn ==
  ASSUME NEW s, NEW c, Holds(s, c), s.exit # "no", s.d.exitSt # "pending",
         Loose(s) \/ (s.exit = "pending" /\ ~Owned(s))
  PROVE  LET t == LegacyExit(s) IN
         Turn(s, t, c) /\ t.d = s.d /\ (t.exit = "done" \/ (t = s /\ s.full))
<1>1. s \in Relay /\ Good(s, c) /\ Sound(s, c) /\ ~s.died
  BY DEF Holds, Good, LedgerOK
<1>2. CASE ~s.open
  <2>1. LegacyExit(s) = ExitDone(s)
    BY <1>2 DEF LegacyExit, ExitDone
  <2>2. ExitDone(s).d = s.d /\ ExitDone(s).exit = "done"
    BY <1>1 DEF Relay, ExitDone
  <2>3. Turn(s, ExitDone(s), c)
    BY <1>2, ExitDoneTurn
  <2> QED
    BY <2>1, <2>2, <2>3
<1>3. CASE s.open /\ s.full
  <2>1. LegacyExit(s) = s
    BY <1>3 DEF LegacyExit
  <2> QED
    BY <1>3, <2>1, TurnSelf
<1>4. CASE s.open /\ ~s.full
  <2> DEFINE f == [kind |-> "exit"]
  <2>1. PICK u : u = Sent(s, f)
    OBVIOUS
  <2>2. PICK t : t = ExitDone(u)
    OBVIOUS
  <2>3. f \in Frames /\ f.kind = "exit"
    BY DEF Frames
  <2>4. LegacyExit(s) = t
    BY <1>4, <2>1, <2>2 DEF LegacyExit, ExitDone
  <2>5. /\ u \in Relay /\ u.wire = Sent(s, f).wire /\ u.d = s.d /\ u.timer = s.timer
        /\ u.conn = s.conn /\ u.open = s.open /\ u.full = s.full /\ u.made = s.made
        /\ u.taken = s.taken /\ u.exit = s.exit /\ u.faulted = s.faulted /\ u.died = s.died
    BY <1>1, <2>1, <2>3, SentFacts
  <2>6. /\ t.wire = Sent(s, f).wire /\ t.d = s.d /\ t.timer = s.timer
        /\ t.conn = s.conn /\ t.open = s.open /\ t.full = s.full /\ t.made = s.made
        /\ t.taken = s.taken /\ t.exit = "done" /\ t.faulted = s.faulted /\ t.died = s.died
    BY <2>2, <2>5 DEF ExitDone, Relay
  <2>7. Step(s, t, c)
    BY <1>1, <2>4, LegacyExitOK
  <2>8. Wider(s, t) /\ f \in Posted(t)
    BY <1>1, <2>3, <2>6, SentWider
  <2>9. Sealing(t) /\ Forsaken(t) /\ InReach(t) /\ (t.full => t.open)
    BY <1>1, <2>6 DEF Sound, Sealing, Forsaken, InReach
  <2>10. TellsOf(s, t)
    BY <2>3, <2>8 DEF TellsOf
  <2>11. ASSUME Own(t) PROVE Own(s) /\ t.d.tok = s.d.tok /\ Mended(s, t)
    <3>1. Own(s) /\ Mending(s, c)
      BY <1>1, <2>6, <2>11 DEF Own, Sound
    <3>2. Posted(t) = Posted(s) \cup {f}
      BY <1>1, <2>3, <2>6, SentWider
    <3> HIDE DEF f
    <3> QED
      BY <2>3, <2>6, <3>1, <3>2 DEF Mended, Mending
  <2>12. Sound(t, c)
    BY <1>1, <2>6, <2>8, <2>9, <2>10, <2>11, SoundOK
  <2> QED
    BY <1>1, <2>4, <2>6, <2>7, <2>12 DEF Turn
<1> QED
  BY <1>2, <1>3, <1>4

\* A delivery given up is listened to by nobody, or for a fault.
LEMMA RetiredTurn ==
  ASSUME NEW s, NEW c, Holds(s, c),
         Loose(s) \/ ~s.open \/ s.exit = "done" \/ ~Owned(s) \/ Silent(s, c)
  PROVE  LET t == Retired(s) IN
         /\ Turn(s, t, c) /\ t.d = NoDelivery /\ t.exit = s.exit /\ t.faulted = s.faulted
         /\ t.open = s.open /\ t.timer = s.timer
<1>1. s \in Relay /\ Good(s, c) /\ Sound(s, c) /\ ~s.died
  BY DEF Holds, Good, LedgerOK
<1>2. PICK t : t = Retired(s)
  OBVIOUS
<1>3. /\ Alike(s, t) /\ t.d = NoDelivery /\ t.exit = s.exit /\ t.died = s.died
      /\ t.faulted = s.faulted /\ t.timer = s.timer
  BY <1>1, <1>2, NoDeliveryFacts, SetD DEF WithD, Retired
<1>4. ~Own(t)
  BY <1>1, <1>3, NoDeliveryFacts DEF Good, LedgerOK, Numbers, Own, Alike
<1>5. Sealing(t) /\ Forsaken(t) /\ InReach(t)
  BY <1>1, <1>3, NoDeliveryFacts DEF Sound, Sealing, Forsaken, InReach
<1>6. TellsOf(s, t)
  BY <1>3, <1>4 DEF TellsOf, Ended
<1>7. Sound(t, c)
  BY <1>1, <1>3, <1>4, <1>5, <1>6, AlikeSound
<1>8. Step(s, t, c)
  BY <1>1, <1>2, RetiredOK
<1> QED
  BY <1>1, <1>2, <1>3, <1>7, <1>8, NoDeliveryFacts DEF Turn, Alike

\* The recursion ends without the delivery: the exit is done, or waits for room.
LEMMA ExitRecursionTurn ==
  ASSUME NEW s, NEW c, Holds(s, c), s.exit # "no"
  PROVE  LET t == ExitRecursion(s) IN
         Turn(s, t, c) /\ t.d = NoDelivery /\ (t.exit = "done" \/ t.full)
<1>1. s \in Relay /\ Good(s, c) /\ Sound(s, c) /\ ~s.died
  BY DEF Holds, Good, LedgerOK
<1>2. PICK u : u = [s EXCEPT !.faulted = TRUE]
  OBVIOUS
<1>3. PICK v : v = Retired(u)
  OBVIOUS
<1>4. /\ Alike(s, u) /\ u.d = s.d /\ u.exit = s.exit /\ u.faulted /\ u.died = s.died
      /\ u.timer = s.timer
  BY <1>1, <1>2 DEF Alike, Relay
<1>5. Step(s, u, c) /\ Loose(u)
  BY <1>1, <1>4, FlagsOK DEF Step, Loose
<1>6. Step(u, v, c) /\ v.d = NoDelivery /\ v.exit = u.exit /\ v.faulted = u.faulted /\ v.died = u.died
  BY <1>3, <1>5, RetiredOK DEF Step
<1>7. Alike(s, v) /\ v.timer = s.timer
  <2>1. Alike(u, v) /\ v.timer = u.timer
    BY <1>3, <1>4, NoDeliveryFacts, SetD DEF WithD, Retired, Alike
  <2> QED
    BY <1>4, <2>1 DEF Alike
<1>8. ~Own(v)
  BY <1>1, <1>6, <1>7, NoDeliveryFacts DEF Good, LedgerOK, Numbers, Own, Alike
<1>9. Sealing(v) /\ Forsaken(v) /\ InReach(v)
  BY <1>4, <1>6, NoDeliveryFacts DEF Sealing, Forsaken, InReach
<1>10. TellsOf(s, v)
  BY <1>4, <1>6, <1>8 DEF TellsOf, Ended
<1>11. Sound(v, c)
  BY <1>1, <1>7, <1>8, <1>9, <1>10, AlikeSound
<1>12. Turn(s, v, c)
  BY <1>1, <1>4, <1>5, <1>6, <1>7, <1>11, StepTwice, NoDeliveryFacts DEF Turn
<1>13. PICK t : t = LegacyExit(v)
  OBVIOUS
<1>14. Turn(v, t, c) /\ t.d = v.d /\ (t.exit = "done" \/ (t = v /\ v.full))
  BY <1>4, <1>6, <1>12, <1>13, NoDeliveryFacts, TurnHolds, LegacyExitTurn DEF Loose
<1>15. ExitRecursion(s) = t
  BY <1>2, <1>3, <1>13 DEF ExitRecursion
<1> QED
  BY <1>6, <1>12, <1>14, <1>15, TurnTwice

\* What an operator on a delivery that stays leaves alone.
Stays(s, t) ==
    /\ t.exit = s.exit /\ t.d.tok = s.d.tok /\ t.d.st = s.d.st /\ t.d.recv = s.d.recv
    /\ t.d.sent = s.d.sent /\ t.d.exitSt = s.d.exitSt

\* A delivery given up for a faulted exit, which is done or waits for room.
Gone(t) == t.d = NoDelivery /\ (t.exit = "done" \/ t.full)

\* A change of the ledger that sends nothing and recovers nothing.
Milder(d, e) ==
    /\ e \in Ledger /\ e.tok = d.tok /\ e.conn = d.conn /\ e.recEnd = d.recEnd
    /\ e.completing = d.completing /\ d.cred <= e.cred /\ e.st \in {d.st, "closed"}
    /\ e.exitSt = d.exitSt \/ d.exitSt # "idle"

LEMMA MilderSound ==
  ASSUME NEW s, NEW c, Good(s, c), Sound(s, c), NEW e, Milder(s.d, e), NEW t, t = WithD(s, e)
  PROVE  Sound(t, c)
<1>1. s \in Relay /\ s.d \in Ledger /\ Numbers(s)
  BY DEF Good, LedgerOK, Relay
<1>2. Alike(s, t) /\ t.d = e /\ t.exit = s.exit /\ t.faulted = s.faulted
  BY <1>1, SetD DEF Milder
<1>3. Sealing(t) /\ Forsaken(t)
  BY <1>2 DEF Sound, Sealing, Forsaken, Milder, Alike
<1>4. InReach(t)
  <2>1. s.d.cred \in Nat /\ e.cred \in Nat /\ s.d.recEnd \in Optional /\ Window \in Nat
    BY <1>1, Limits DEF Ledger, Milder
  <2> QED
    BY <1>2, <2>1 DEF Sound, InReach, Milder, Optional, None
<1>5. TellsOf(s, t)
  <2> SUFFICES ASSUME Ended(t), s.exit # "done"
               PROVE  s.d.tok # 0 /\ s.d.exitSt # "idle"
    BY DEF TellsOf
  <2>1. Own(s) /\ e.exitSt # "idle"
    BY <1>2 DEF Ended, Own, Alike, Milder
  <2> QED
    BY <2>1, OwnTok DEF Good, Milder
<1> QED
  BY <1>2, <1>3, <1>4, <1>5, AlikeSound DEF Milder

\* Without a delivery there is nothing to pump.
LEMMA NothingPumped ==
  ASSUME NEW s, LedgerOK(s), s.d = NoDelivery
  PROVE  Pumped(s)
BY NoDeliveryFacts, OwnTok DEF Pumped

\* The timer runs for whatever is queued.
LEMMA RearmedTurn ==
  ASSUME NEW s, NEW c, Holds(s, c)
  PROVE  LET t == Rearmed(s) IN
         /\ Turn(s, t, c) /\ t.d = s.d /\ t.exit = s.exit /\ Eager(t)
         /\ Pumped(s) => Pumped(t)
<1>1. s \in Relay /\ Good(s, c) /\ Sound(s, c) /\ ~s.died
  BY DEF Holds, Good, LedgerOK
<1>2. PICK b \in BOOLEAN : b = (s.timer \/ Queued(s))
  BY <1>1 DEF Relay, Queued
<1>3. PICK t : t = [s EXCEPT !.timer = b]
  OBVIOUS
<1>4. Rearmed(s) = t
  BY <1>2, <1>3 DEF Rearmed
<1>5. Alike(s, t) /\ t.d = s.d /\ t.exit = s.exit /\ t.died = s.died /\ t.faulted = s.faulted /\ t.timer = b
  BY <1>1, <1>3 DEF Relay, Alike
<1>6. Step(s, t, c)
  BY <1>1, <1>4, RearmedOK
<1>7. Sealing(t) /\ Forsaken(t) /\ InReach(t)
  BY <1>1, <1>5 DEF Sound, Sealing, Forsaken, InReach, Alike
<1>8. TellsOf(s, t)
  <2> SUFFICES ASSUME Ended(t), s.exit # "done"
               PROVE  s.d.tok # 0 /\ s.d.exitSt # "idle"
    BY DEF TellsOf
  <2>1. Own(s) /\ s.d.exitSt # "idle"
    BY <1>5 DEF Ended, Own, Alike
  <2> QED
    BY <1>1, <2>1, OwnTok DEF Good
<1>9. Sound(t, c)
  BY <1>1, <1>5, <1>7, <1>8, AlikeSound
<1>10. Turn(s, t, c)
  BY <1>1, <1>2, <1>5, <1>6, <1>9 DEF Turn
<1>11. Eager(t)
  BY <1>2, <1>5 DEF Eager, Queued, Alike
<1>12. Pumped(s) => Pumped(t)
  <2>1. Own(t) = Own(s) /\ Fenced(t) = Fenced(s) /\ (Sendable(t) => Sendable(s))
    BY <1>5 DEF Own, Fenced, Sendable, MostUnits, Room, Alike
  <2> QED
    BY <1>5, <2>1 DEF Pumped
<1> QED
  BY <1>4, <1>5, <1>10, <1>11, <1>12

LEMMA TriedMilder ==
  ASSUME NEW d \in Ledger, NEW end \in Nat, NEW b \in BOOLEAN
  PROVE  LET e == Tried(d, end, b) IN
         Milder(d, e) /\ e.recv = d.recv /\ e.sent = d.sent /\ e.exitSt = d.exitSt /\ e.st = d.st
         /\ e.refused = b
<1>1. Marked(d, Tried(d, end, b)) /\ d.cred <= d.cred
  BY TriedFacts DEF Ledger
<1>2. Tried(d, end, b).completing = d.completing
  BY DEF Tried, Ledger
<1>3. Tried(d, end, b).refused = b
  BY Zenon DEF Tried, Ledger
<1> QED
  BY <1>1, <1>2, <1>3 DEF Marked, Milder

\* A frame that is refused leaves its mark, or ends the delivery with the exit.
LEMMA RefusedTurn ==
  ASSUME NEW s, NEW c, Holds(s, c), s.d.tok # 0, NEW end \in Nat, end <= s.d.recv
  PROVE  LET t == Refused(s, end) IN
         Turn(s, t, c) /\ Pumped(t) /\ (Gone(t) \/ Stays(s, t))
<1>1. s \in Relay /\ s.d \in Ledger /\ Good(s, c) /\ Sound(s, c) /\ ~s.died
  BY DEF Holds, Good, LedgerOK, Relay
<1>2. PICK b \in BOOLEAN : b = Own(s)
  BY DEF Own
<1>3. PICK u : u = WithD(s, Tried(s.d, end, b))
  OBVIOUS
<1>4. /\ Step(s, u, c) /\ u.d = Tried(s.d, end, b) /\ u.exit = s.exit /\ u.died = s.died
      /\ u.timer = s.timer
  BY <1>1, <1>3, TriedFacts, TriedMilder, MarkedOK, SetD DEF Milder
<1>5. Sound(u, c)
  BY <1>1, <1>3, TriedMilder, MilderSound
<1>6. Turn(s, u, c) /\ Stays(s, u)
  BY <1>1, <1>4, <1>5, TriedMilder DEF Turn, Milder, Stays
<1>7. Holds(u, c)
  BY <1>6, TurnHolds
<1>8. u = [s EXCEPT !.d.att = end, !.d.refused = Own(s)]
  BY <1>1, <1>2, <1>3 DEF WithD, Tried, Relay
<1>9. PICK t : t = Refused(s, end)
  OBVIOUS
<1>10. CASE s.exit = "pending" /\ ~Queued(s)
  <2>1. t = ExitRecursion(u)
    BY <1>8, <1>9, <1>10 DEF Refused
  <2>2. Turn(u, t, c) /\ Gone(t)
    BY <1>4, <1>7, <1>10, <2>1, ExitRecursionTurn DEF Gone
  <2>3. Pumped(t)
    BY <2>2, NothingPumped DEF Gone, Turn, Step, Good
  <2> QED
    BY <1>6, <1>9, <2>2, <2>3, TurnTwice
<1>11. CASE ~(s.exit = "pending" /\ ~Queued(s))
  <2>1. t = Rearmed(u)
    BY <1>8, <1>9, <1>11 DEF Refused
  <2>2. Turn(u, t, c) /\ t.d = u.d /\ t.exit = u.exit
    BY <1>7, <2>1, RearmedTurn
  <2>3. Pumped(t)
    <3>1. Same(u, t) /\ Same(s, u) /\ u.d.refused = b /\ u.d.conn = s.d.conn
      BY <1>1, <1>4, <2>2, TriedMilder DEF Turn, Step, Milder
    <3> QED
      BY <1>2, <2>2, <3>1 DEF Pumped, Own, Same
  <2> QED
    BY <1>6, <1>9, <2>2, <2>3, TurnTwice DEF Stays
<1> QED
  BY <1>9, <1>10, <1>11

LEMMA CompletingMore ==
  ASSUME NEW d \in Ledger
  PROVE  LET e == Completing(d) IN
         e.completing /\ e.activating = d.activating /\ e.refused = d.refused
BY DEF Completing, Ledger

\* The recovery is completed by the frame that says so, or stays as it is.
LEMMA CompleteRecoveryTurn ==
  ASSUME NEW s, NEW c, Holds(s, c)
  PROVE  LET t == CompleteRecovery(s) IN
         /\ Turn(s, t, c) /\ Stays(s, t) /\ (Pumped(s) => Pumped(t))
         /\ Own(s) /\ ~s.d.activating /\ s.d.pend = None /\ Fenced(s) => Pumped(t)
<1>1. s \in Relay /\ s.d \in Ledger /\ Good(s, c) /\ Sound(s, c) /\ LedgerOK(s) /\ ~s.died
  BY DEF Holds, Good, LedgerOK, Relay
<1>2. CASE s.d.activating \/ s.d.pend # None \/ s.d.completing \/ ~Fenced(s) \/ ~Own(s)
  <2>1. CompleteRecovery(s) = s
    BY <1>2 DEF CompleteRecovery
  <2>2. Own(s) /\ ~s.d.activating /\ s.d.pend = None /\ Fenced(s) => Pumped(s)
    BY <1>2 DEF Pumped
  <2> QED
    BY <2>1, <2>2, TurnSelf DEF Stays
<1>3. CASE ~(s.d.activating \/ s.d.pend # None \/ s.d.completing \/ ~Fenced(s) \/ ~Own(s))
  <2>1. PICK f : f = [kind |-> "complete", tok |-> s.d.tok]
    OBVIOUS
  <2>2. PICK u : u = Sent(s, f)
    OBVIOUS
  <2>3. PICK t : t = WithD(u, Completing(u.d))
    OBVIOUS
  <2>4. f \in Frames /\ f.kind = "complete" /\ f.tok = s.d.tok
    <3>1. s.d.tok \in Nat /\ s.d.tok # 0 /\ s.d.tok <= MaxTokens /\ MaxTokens \in Nat
      BY <1>1, <1>3, OwnTok, Limits DEF Ledger, LedgerOK, Numbers, Relay
    <3>2. s.d.tok \in 1..MaxTokens
      BY <3>1
    <3> QED
      BY <2>1, <3>2 DEF Frames
  <2>5. /\ u \in Relay /\ u.wire = Sent(s, f).wire /\ u.d = s.d /\ u.timer = s.timer
        /\ u.conn = s.conn /\ u.open = s.open /\ u.full = s.full /\ u.made = s.made
        /\ u.taken = s.taken /\ u.exit = s.exit /\ u.faulted = s.faulted /\ u.died = s.died
    BY <1>1, <2>2, <2>4, SentFacts
  <2>6. Marked(s.d, Completing(s.d)) /\ Completing(s.d).completing
    BY <1>1, CompletingFacts, CompletingMore
  <2>7. /\ Alike(u, t) /\ t.d = Completing(s.d) /\ t.timer = u.timer /\ t.exit = u.exit
        /\ t.died = u.died /\ t.faulted = u.faulted
    BY <1>1, <2>3, <2>5, <2>6, SetD DEF Marked
  <2>8. CompleteRecovery(s) = t
    <3>1. CompleteRecovery(s) = [u EXCEPT !.d.completing = TRUE]
      BY <1>3, <2>1, <2>2 DEF CompleteRecovery
    <3> QED
      BY <2>3, <2>5, <3>1 DEF WithD, Completing, Relay
  <2>9. Step(s, t, c)
    BY <1>1, <2>8, CompleteRecoveryOK
  <2>10. Wider(s, t) /\ Posted(t) = Posted(s) \cup {f}
    BY <1>1, <2>4, <2>5, <2>7, SentWider DEF Alike
  <2>11. Stays(s, t)
    BY <2>5, <2>6, <2>7 DEF Stays, Marked
  <2>12. Sealing(t) /\ Forsaken(t) /\ InReach(t) /\ (t.full => t.open)
    BY <1>1, <2>5, <2>6, <2>7 DEF Sound, Sealing, Forsaken, InReach, Alike, Marked
  <2>13. TellsOf(s, t)
    <3>1. Ended(t) => s.exit = "done" \/ s.d.exitSt # "idle"
      BY <2>11 DEF Ended, Stays
    <3> QED
      BY <1>1, <1>3, <3>1, OwnTok DEF TellsOf
  <2>14. Own(s) /\ t.d.tok = s.d.tok /\ Mended(s, t)
    <3>1. t.d.recEnd # None /\ t.d.completing /\ t.d.tok = s.d.tok
      BY <1>3, <2>6, <2>7 DEF Marked, Fenced
    <3>2. Posts(t, "complete")
      BY <2>4, <2>10, <3>1 DEF Posts
    <3> QED
      BY <1>3, <3>1, <3>2 DEF Mended
  <2>15. Sound(t, c)
    BY <1>1, <2>5, <2>7, <2>10, <2>12, <2>13, <2>14, SoundOK DEF Alike
  <2>16. Turn(s, t, c)
    BY <1>1, <2>5, <2>7, <2>9, <2>14, <2>15 DEF Turn, Alike
  <2>17. Pumped(t)
    <3>1. Fenced(t)
      BY <1>3, <2>6, <2>7 DEF Fenced, Marked
    <3> QED
      BY <2>6, <2>7, <3>1 DEF Pumped
  <2> QED
    BY <2>8, <2>11, <2>16, <2>17
<1> QED
  BY <1>2, <1>3


LEMMA InFlightMore ==
  ASSUME NEW d \in Ledger, NEW end \in Nat
  PROVE  LET e == InFlight(d, end) IN e.activating = d.activating /\ e.exitSt = d.exitSt /\ e.pend = end
BY DEF InFlight, Ledger

\* A frame is sent, and awaited, or refused: no cut is without progress.
LEMMA SendNextTurn ==
  ASSUME NEW s, NEW c, Holds(s, c), Sendable(s), ~Fenced(s), s.d.pend = None
  PROVE  LET t == SendNext(s) IN
         Turn(s, t, c) /\ Pumped(t) /\ (Gone(t) \/ Stays(s, t))
<1>1. s \in Relay /\ s.d \in Ledger /\ Good(s, c) /\ Sound(s, c) /\ LedgerOK(s) /\ ~s.died /\ Wide = {}
  BY DEF Holds, Good, LedgerOK, Relay
<1>2. PICK end : end = FrameEnd(s)
  OBVIOUS
<1>3. /\ end \in Nat /\ s.d.sent < end /\ end <= s.d.recv /\ s.d.tok # 0
      /\ s.d.sent \in Nat
  <2>1. s.d.sent \in Nat
    BY <1>1 DEF Ledger
  <2> QED
    BY <1>1, <1>2, <2>1, FrameEndOK
<1>4. CASE Own(s) /\ ~s.full
  <2>1. PICK f : f = [kind |-> "data", tok |-> s.d.tok, start |-> s.d.sent, end |-> end]
    OBVIOUS
  <2>2. PICK u : u = Sent(s, f)
    OBVIOUS
  <2>3. PICK t : t = WithD(u, InFlight(u.d, end))
    OBVIOUS
  <2>4. f \in Frames /\ f.kind = "data"
    <3>1. s.d.tok \in 1..MaxTokens
      <4>1. s.d.tok \in Nat /\ s.d.tok <= MaxTokens /\ MaxTokens \in Nat
        BY <1>1, Limits DEF Ledger, LedgerOK, Numbers, Relay
      <4> QED
        BY <1>3, <4>1
    <3>2. s.d.sent \in Offset /\ end \in Offset
      <4>1. s.d.recv \in Nat /\ s.taken \in Nat /\ s.made \in Nat /\ s.d.recv <= Max(Ends)
        BY <1>1, EndsOK DEF Ledger, LedgerOK, Offsets, Relay
      <4>2. s.d.sent <= Max(Ends) /\ end <= Max(Ends)
        BY <1>3, <4>1, EndsOK
      <4> QED
        BY <1>3, <4>2, EndsOK
    <3> QED
      BY <2>1, <3>1, <3>2 DEF Frames
  <2>5. /\ u \in Relay /\ u.wire = Sent(s, f).wire /\ u.d = s.d /\ u.timer = s.timer
        /\ u.conn = s.conn /\ u.open = s.open /\ u.full = s.full /\ u.made = s.made
        /\ u.taken = s.taken /\ u.exit = s.exit /\ u.faulted = s.faulted /\ u.died = s.died
    BY <1>1, <2>2, <2>4, SentFacts
  <2>6. PICK e : e = InFlight(s.d, end)
    OBVIOUS
  <2>7. /\ e \in Ledger
        /\ e.tok = s.d.tok /\ e.conn = s.d.conn /\ e.st = s.d.st /\ e.recv = s.d.recv
        /\ e.sent = s.d.sent /\ e.cred = s.d.cred /\ e.pend = end /\ e.recEnd = s.d.recEnd
        /\ e.completing = s.d.completing /\ e.exitSt = s.d.exitSt
    BY <1>1, <1>3, <2>6, LedgerPend
  <2>8. /\ Alike(u, t) /\ t.d = e /\ t.timer = u.timer /\ t.exit = u.exit
        /\ t.died = u.died /\ t.faulted = u.faulted
    BY <2>3, <2>5, <2>6, <2>7, SetD
  <2>9. SendNext(s) = t
    <3>1. SendNext(s) = [u EXCEPT !.d.pend = end, !.d.att = end, !.d.refused = FALSE]
      BY <1>2, <1>3, <1>4, <2>1, <2>2 DEF SendNext
    <3> QED
      BY <2>3, <2>5, <3>1 DEF WithD, InFlight, Relay
  <2>10. Step(s, t, c)
    BY <1>1, <2>9, SendNextOK
  <2>11. Wider(s, t) /\ Posted(t) = Posted(s) \cup {f}
    BY <1>1, <2>4, <2>5, <2>8, SentWider DEF Alike
  <2>12. Stays(s, t)
    BY <2>5, <2>7, <2>8 DEF Stays
  <2>13. Sealing(t) /\ Forsaken(t) /\ InReach(t) /\ (t.full => t.open)
    BY <1>1, <2>5, <2>7, <2>8 DEF Sound, Sealing, Forsaken, InReach, Alike
  <2>14. TellsOf(s, t)
    BY <1>3, <2>12 DEF TellsOf, Ended, Stays
  <2>15. Own(s) /\ t.d.tok = s.d.tok /\ Mended(s, t)
    BY <1>1, <1>4, <2>4, <2>7, <2>8, <2>11 DEF Mended, Mending, Sound
  <2>16. Sound(t, c)
    BY <1>1, <2>5, <2>8, <2>11, <2>13, <2>14, <2>15, SoundOK DEF Alike
  <2>17. Turn(s, t, c)
    BY <1>1, <2>5, <2>8, <2>10, <2>15, <2>16 DEF Turn, Alike
  <2>18. Pumped(t)
    BY <1>3, <2>7, <2>8 DEF Pumped, None
  <2> QED
    BY <2>9, <2>12, <2>17, <2>18
<1>5. CASE ~(Own(s) /\ ~s.full)
  <2>1. SendNext(s) = Refused(s, end)
    BY <1>2, <1>3, <1>5 DEF SendNext
  <2> QED
    BY <1>3, <2>1, RefusedTurn
<1> QED
  BY <1>4, <1>5

LEMMA PumpTurn ==
  ASSUME NEW s, NEW c, Holds(s, c)
  PROVE  LET t == Pump(s) IN
         Turn(s, t, c) /\ Pumped(t) /\ (Gone(t) \/ Stays(s, t))
<1>1. s.d.restore => ~Own(s)
  BY DEF Holds, Good, LedgerOK, Exiting
<1>2. Turn(s, s, c) /\ Stays(s, s)
  BY TurnSelf DEF Stays
<1>3. CASE s.d.activating \/ s.d.pend # None \/ s.d.restore
  <2>1. Pump(s) = s /\ Pumped(s)
    BY <1>1, <1>3 DEF Pump, Pumped
  <2> QED
    BY <1>2, <2>1
<1>4. CASE ~(s.d.activating \/ s.d.pend # None \/ s.d.restore) /\ Fenced(s)
  <2>1. Pump(s) = CompleteRecovery(s)
    BY <1>4 DEF Pump
  <2>2. ~Own(s) => Pumped(s)
    BY DEF Pumped
  <2> QED
    BY <1>4, <2>1, <2>2, CompleteRecoveryTurn
<1>5. CASE ~(s.d.activating \/ s.d.pend # None \/ s.d.restore) /\ ~Fenced(s) /\ Sendable(s)
  <2>1. Pump(s) = SendNext(s)
    BY <1>5 DEF Pump
  <2> QED
    BY <1>5, <2>1, SendNextTurn
<1>6. CASE ~(s.d.activating \/ s.d.pend # None \/ s.d.restore) /\ ~Fenced(s) /\ ~Sendable(s)
  <2>1. Pump(s) = s /\ Pumped(s)
    BY <1>6 DEF Pump, Pumped
  <2> QED
    BY <1>2, <2>1
<1> QED
  BY <1>3, <1>4, <1>5, <1>6


LEMMA SealedMore ==
  ASSUME NEW d \in Ledger
  PROVE  LET e == Sealed(d) IN
         e.completing = d.completing /\ e.activating = d.activating /\ e.refused = d.refused
BY DEF Sealed, Ledger

\* The last output is taken in: the delivery is sealed.
LEMMA SealedTurn ==
  ASSUME NEW s, NEW c, Holds(s, c), s.exit # "no", s.d.tok # 0, s.d.st # "closed", s.taken = s.made,
         NEW t, t = WithD(s, Sealed(s.d))
  PROVE  /\ Turn(s, t, c) /\ t.d.tok = s.d.tok /\ t.d.st = "sealed" /\ t.d.exitSt = s.d.exitSt
         /\ t.exit = s.exit
<1>1. s \in Relay /\ s.d \in Ledger /\ Good(s, c) /\ Sound(s, c) /\ ~s.died
  BY DEF Holds, Good, LedgerOK, Relay
<1>2. PICK e : e = Sealed(s.d)
  OBVIOUS
<1>3. /\ e \in Ledger /\ e.tok = s.d.tok /\ e.conn = s.d.conn /\ e.st = "sealed" /\ e.cred = s.d.cred
      /\ e.recEnd = s.d.recEnd /\ e.exitSt = s.d.exitSt /\ e.completing = s.d.completing
  BY <1>1, <1>2, SealedFacts, SealedMore
<1>4. Alike(s, t) /\ t.d = e /\ t.timer = s.timer /\ t.exit = s.exit /\ t.died = s.died /\ t.faulted = s.faulted
  BY <1>1, <1>2, <1>3, SetD
<1>5. Step(s, t, c)
  BY <1>1, SealedOK
<1>6. Sealing(t) /\ Forsaken(t) /\ InReach(t) /\ TellsOf(s, t)
  BY <1>1, <1>3, <1>4 DEF Sound, Sealing, Forsaken, InReach, Alike, TellsOf, Ended
<1>7. Sound(t, c)
  BY <1>1, <1>3, <1>4, <1>6, AlikeSound
<1> QED
  BY <1>1, <1>3, <1>4, <1>5, <1>7 DEF Turn

LEMMA ExitSentMore ==
  ASSUME NEW d \in Ledger
  PROVE  LET e == ExitSent(d) IN
         e.completing = d.completing /\ e.activating = d.activating /\ e.refused = d.refused
BY DEF ExitSent, Ledger

\* The exit frame goes out behind all of the output.
LEMMA SendExitTurn ==
  ASSUME NEW s, NEW c, Holds(s, c), s.exit = "pending", s.d.tok # 0, s.d.sent = s.d.recv, Own(s),
         s.taken = s.made,
         NEW t, t = WithD(Sent(s, [kind |-> "exit"]), ExitSent(s.d))
  PROVE  Turn(s, t, c) /\ t.d.tok # 0 /\ t.d.exitSt = "pending" /\ (Pumped(s) => Pumped(t))
<1>1. s \in Relay /\ s.d \in Ledger /\ Good(s, c) /\ Sound(s, c) /\ ~s.died
  BY DEF Holds, Good, LedgerOK, Relay
<1>2. PICK f : f = [kind |-> "exit"]
  OBVIOUS
<1>3. f \in Frames /\ f.kind = "exit"
  BY <1>2 DEF Frames
<1>4. PICK u : u = Sent(s, f)
  OBVIOUS
<1>5. /\ u \in Relay /\ u.wire = Sent(s, f).wire /\ u.d = s.d /\ u.timer = s.timer
      /\ u.conn = s.conn /\ u.open = s.open /\ u.full = s.full /\ u.made = s.made
      /\ u.taken = s.taken /\ u.exit = s.exit /\ u.faulted = s.faulted /\ u.died = s.died
  BY <1>1, <1>3, <1>4, SentFacts
<1>6. PICK e : e = ExitSent(s.d)
  OBVIOUS
<1>7. /\ e \in Ledger /\ e.tok = s.d.tok /\ e.conn = s.d.conn /\ e.st = s.d.st /\ e.recv = s.d.recv
      /\ e.sent = s.d.sent /\ e.cred = s.d.cred /\ e.pend = s.d.pend /\ e.recEnd = s.d.recEnd
      /\ e.exitSt = "pending"
      /\ e.completing = s.d.completing /\ e.activating = s.d.activating /\ e.refused = s.d.refused
  BY <1>1, <1>6, ExitSentFacts, ExitSentMore
<1>8. /\ Alike(u, t) /\ t.d = e /\ t.timer = u.timer /\ t.exit = u.exit
      /\ t.died = u.died /\ t.faulted = u.faulted
  BY <1>2, <1>4, <1>5, <1>6, <1>7, SetD
<1>9. Step(s, t, c)
  BY <1>1, SendExitOK
<1>10. Wider(s, t) /\ Posted(t) = Posted(s) \cup {f}
  BY <1>1, <1>3, <1>5, <1>8, SentWider DEF Alike
<1>11. Sealing(t) /\ Forsaken(t) /\ InReach(t) /\ (t.full => t.open)
  BY <1>1, <1>5, <1>7, <1>8 DEF Sound, Sealing, Forsaken, InReach, Alike
<1>12. TellsOf(s, t)
  BY <1>3, <1>10 DEF TellsOf
<1>13. t.d.tok = s.d.tok /\ Mended(s, t)
  BY <1>1, <1>3, <1>7, <1>8, <1>10 DEF Mended, Mending, Sound
<1>14. Sound(t, c)
  BY <1>1, <1>5, <1>8, <1>10, <1>11, <1>12, <1>13, SoundOK DEF Alike
<1>15. Turn(s, t, c)
  BY <1>1, <1>5, <1>8, <1>9, <1>13, <1>14 DEF Turn, Alike
<1>16. ASSUME Pumped(s) PROVE Pumped(t)
  <2>1. Fenced(t) = Fenced(s)
    BY <1>7, <1>8 DEF Fenced
  <2>2. ~Sendable(t)
    <3>1. s.d.recv \in Nat
      BY <1>1 DEF Ledger
    <3> QED
      BY <1>7, <1>8, <3>1 DEF Sendable
  <2> QED
    BY <1>7, <1>8, <1>16, <2>1, <2>2 DEF Pumped
<1> QED
  BY <1>7, <1>8, <1>15, <1>16

\* The exit is sent, or waits for output that is not sent or settled yet.
LEMMA SealAndPublishTurn ==
  ASSUME NEW s, NEW c, Holds(s, c), s.exit = "pending", s.d.tok # 0, s.d.exitSt = "idle",
         s.d.st # "closed", s.taken = s.made
  PROVE  LET t == SealAndPublish(s) IN Turn(s, t, c) /\ Pumped(t) /\ Exited(t)
<1>1. s \in Relay /\ s.d \in Ledger
  BY DEF Holds, Good, LedgerOK, Relay
<1>2. PICK r : r = WithD(s, Sealed(s.d))
  OBVIOUS
<1>3. r = [s EXCEPT !.d.st = "sealed"]
  BY <1>1, <1>2 DEF WithD, Sealed, Relay
<1>4. Turn(s, r, c) /\ r.d.tok # 0 /\ r.d.st = "sealed" /\ r.d.exitSt = "idle" /\ r.exit = "pending"
  BY <1>2, SealedTurn
<1>5. PICK t : t = Pump(r)
  OBVIOUS
<1>6. Turn(r, t, c) /\ Pumped(t) /\ (Gone(t) \/ Stays(r, t))
  BY <1>4, <1>5, TurnHolds, PumpTurn
<1>7. Turn(s, t, c) /\ ~t.died /\ t.taken = t.made
  BY <1>4, <1>6, TurnTwice DEF Turn, Step, Same
<1>8. PICK x : x = WithD(Sent(t, [kind |-> "exit"]), ExitSent(t.d))
  OBVIOUS
<1>9. x = [Sent(t, [kind |-> "exit"]) EXCEPT !.d.exitSt = "pending"]
  <2>1. t \in Relay
    BY <1>7 DEF Turn, Step, Good, LedgerOK
  <2> QED
    BY <1>8, <2>1 DEF WithD, ExitSent, Sent, Relay
<1>10. CASE (t.exit = "pending" /\ t.d.tok # 0 /\ t.d.sent = t.d.recv) /\ Own(t) /\ ~t.full
  <2>1. SealAndPublish(s) = x
    BY <1>3, <1>5, <1>7, <1>9, <1>10 DEF SealAndPublish
  <2>2. Turn(t, x, c) /\ x.d.tok # 0 /\ x.d.exitSt = "pending" /\ Pumped(x)
    BY <1>6, <1>7, <1>8, <1>10, TurnHolds, SendExitTurn
  <2>3. Exited(x)
    BY <2>2 DEF Exited
  <2> QED
    BY <1>7, <2>1, <2>2, <2>3, TurnTwice
<1>11. CASE ~((t.exit = "pending" /\ t.d.tok # 0 /\ t.d.sent = t.d.recv) /\ Own(t) /\ ~t.full)
  <2>1. SealAndPublish(s) = t
    BY <1>3, <1>5, <1>7, <1>11 DEF SealAndPublish
  <2>2. Exited(t)
    <3> SUFFICES ASSUME t.exit = "pending", ~t.full
                 PROVE  /\ t.d.tok # 0 /\ t.d.exitSt # "published"
                        /\ Own(t) => t.d.st = "sealed" /\ t.d.sent < t.d.recv
      BY DEF Exited
    <3>1. Stays(r, t)
      BY <1>6 DEF Gone
    <3>2. t.d.sent \in Nat /\ t.d.recv \in Nat /\ t.d.sent <= t.d.recv
      BY <1>7 DEF Turn, Step, Good, LedgerOK, Offsets, Relay, Ledger
    <3> QED
      BY <1>4, <1>11, <3>1, <3>2 DEF Stays
  <2> QED
    BY <1>6, <1>7, <2>1, <2>2
<1> QED
  BY <1>10, <1>11


\* What a call keeps that pumps nothing itself.
Keeps(s, t, c) == Turn(s, t, c) /\ (Pumped(s) => Pumped(t))

LEMMA KeepsTwice ==
  ASSUME NEW r, NEW s, NEW t, NEW c, Keeps(r, s, c), Keeps(s, t, c)
  PROVE  Keeps(r, t, c)
BY TurnTwice DEF Keeps

LEMMA KeepsHolds ==
  ASSUME NEW s, NEW t, NEW c, Holds(s, c), Keeps(s, t, c)
  PROVE  Holds(t, c)
BY TurnHolds DEF Keeps

\* No call takes from the queue, or stops its timer.
LEMMA TurnEager ==
  ASSUME NEW s, NEW t, NEW c, Turn(s, t, c), Eager(s)
  PROVE  Eager(t)
BY DEF Turn, Step, Same, Eager, Queued

LEMMA GivenUpPumped ==
  ASSUME NEW s, NEW c, Holds(s, c), s.d = NoDelivery
  PROVE  Pumped(s)
BY NothingPumped DEF Holds, Good

\* A pending exit is published, or waits for what Exited says.
LEMMA PublishExitTurn ==
  ASSUME NEW s, NEW c, Holds(s, c), ~s.draining
  PROVE  Keeps(s, PublishExit(s), c) /\ Exited(PublishExit(s))
<1>1. s \in Relay /\ s.d \in Ledger /\ Good(s, c) /\ ~s.died
  BY DEF Holds, Good, LedgerOK, Relay
<1>2. Turn(s, s, c)
  BY TurnSelf
<1>3. ~Queued(s) => s.taken = s.made
  <2>1. s.taken \in Nat /\ s.made \in Nat /\ s.taken <= s.made
    BY <1>1 DEF Relay, Good, LedgerOK, Offsets
  <2> QED
    BY <2>1 DEF Queued
<1>4. s.d.exitSt \in {"idle", "pending", "published"}
  BY <1>1 DEF Ledger, ExitSts
<1>5. CASE s.exit # "pending" \/ Queued(s)
  <2>1. PublishExit(s) = s /\ Exited(s)
    BY <1>5 DEF PublishExit, Exited
  <2> QED
    BY <1>2, <2>1 DEF Keeps
<1>6. CASE s.exit = "pending" /\ ~Queued(s) /\ s.d.tok # 0 /\ s.d.exitSt = "published"
  <2>1. PICK t : t = ExitDone(s)
    OBVIOUS
  <2>2. Turn(s, t, c)
    BY <1>6, <2>1, ExitDoneTurn
  <2>3. Alike(s, t) /\ t.exit = "done" /\ t.d = s.d
    BY <1>1, <2>1 DEF ExitDone, Relay, Alike
  <2>4. PICK u : u = Retired(t)
    OBVIOUS
  <2>5. Turn(t, u, c) /\ u.d = NoDelivery /\ u.exit = "done"
    BY <2>2, <2>3, <2>4, TurnHolds, RetiredTurn
  <2>6. PublishExit(s) = IF s.d.st = "closed" THEN u ELSE t
    <3>1. PublishExit(s) = [s EXCEPT !.exit = "done", !.d = IF s.d.st = "closed" THEN NoDelivery ELSE s.d]
      BY <1>1, <1>6 DEF PublishExit
    <3>2. /\ u = [s EXCEPT !.exit = "done", !.d = NoDelivery]
          /\ t = [s EXCEPT !.exit = "done", !.d = s.d]
      BY <1>1, <2>1, <2>4 DEF ExitDone, Retired, Relay
    <3> QED
      BY <3>1, <3>2
  <2>7. Pumped(u)
    BY <2>2, <2>5, TurnHolds, GivenUpPumped
  <2>8. Pumped(s) => Pumped(t)
    <3>1. Own(t) = Own(s) /\ Fenced(t) = Fenced(s) /\ (Sendable(t) => Sendable(s))
      BY <2>3 DEF Own, Fenced, Sendable, MostUnits, Room, Alike
    <3> QED
      BY <2>3, <3>1 DEF Pumped
  <2>9. Exited(t) /\ Exited(u)
    BY <2>3, <2>5 DEF Exited
  <2> QED
    BY <2>2, <2>5, <2>6, <2>7, <2>8, <2>9, TurnTwice DEF Keeps
<1>7. CASE s.exit = "pending" /\ ~Queued(s) /\ s.d.tok # 0 /\ s.d.exitSt = "pending"
  <2>1. PublishExit(s) = s /\ Exited(s)
    BY <1>7 DEF PublishExit, Exited
  <2> QED
    BY <1>2, <2>1 DEF Keeps
<1>8. CASE s.exit = "pending" /\ ~Queued(s) /\ s.d.tok # 0 /\ s.d.exitSt = "idle" /\ s.d.st # "closed"
  <2>1. PublishExit(s) = SealAndPublish(s)
    BY <1>1, <1>8 DEF PublishExit
  <2> QED
    BY <1>3, <1>8, <2>1, SealAndPublishTurn DEF Keeps
<1>9. CASE /\ s.exit = "pending" /\ ~Queued(s)
           /\ s.d.tok = 0 \/ (s.d.exitSt = "idle" /\ s.d.st = "closed")
  <2>1. PICK t : t = LegacyExit(s)
    OBVIOUS
  <2>2. PublishExit(s) = IF t.exit = "done" THEN Retired(t) ELSE t
    BY <1>1, <1>9, <2>1 DEF PublishExit
  <2>3. s.d.exitSt = "idle" /\ ~Owned(s)
    <3>1. CASE s.d.tok = 0
      <4>1. s.d = NoDelivery /\ s.conn # 0
        BY <1>1, <3>1 DEF Good, LedgerOK, Numbers
      <4> QED
        BY <4>1, NoDeliveryFacts DEF Owned, Own
    <3>2. CASE s.d.tok # 0
      BY <1>9, <3>2 DEF Owned
    <3> QED
      BY <3>1, <3>2
  <2>4. Turn(s, t, c) /\ t.d = s.d /\ (t.exit = "done" \/ (t = s /\ s.full))
    BY <1>9, <2>1, <2>3, LegacyExitTurn
  <2>5. CASE t.exit = "done"
    <3>1. PICK u : u = Retired(t)
      OBVIOUS
    <3>2. Turn(t, u, c) /\ u.d = NoDelivery /\ u.exit = "done"
      BY <2>4, <2>5, <3>1, TurnHolds, RetiredTurn
    <3>3. Turn(s, u, c)
      BY <2>4, <3>2, TurnTwice
    <3>4. Pumped(u)
      BY <3>2, <3>3, TurnHolds, GivenUpPumped
    <3> QED
      BY <2>2, <2>5, <3>1, <3>2, <3>3, <3>4 DEF Keeps, Exited
  <2>6. CASE t.exit # "done"
    <3>1. PublishExit(s) = s /\ s.full
      BY <2>2, <2>4, <2>6
    <3> QED
      BY <1>2, <3>1 DEF Keeps, Exited
  <2> QED
    BY <2>5, <2>6
<1> QED
  BY <1>4, <1>5, <1>6, <1>7, <1>8, <1>9

LEMMA CapacityTurn ==
  ASSUME NEW s, NEW c, Holds(s, c), ~s.draining
  PROVE  LET t == Capacity(s) IN Keeps(s, t, c) /\ Eager(t) /\ Exited(t)
<1>1. PICK t : t = Rearmed(s)
  OBVIOUS
<1>2. Keeps(s, t, c) /\ Eager(t) /\ ~t.draining
  BY <1>1, RearmedTurn DEF Keeps, Turn, Step, Same
<1>3. Keeps(t, PublishExit(t), c) /\ Exited(PublishExit(t))
  BY <1>2, KeepsHolds, PublishExitTurn
<1>4. Eager(PublishExit(t))
  BY <1>2, <1>3, TurnEager DEF Keeps
<1> QED
  BY <1>1, <1>2, <1>3, <1>4, KeepsTwice DEF Capacity

LEMMA CapacitySignalTurn ==
  ASSUME NEW s, NEW c, Holds(s, c), ~s.draining
  PROVE  LET t == CapacitySignal(s) IN Keeps(s, t, c) /\ Eager(t) /\ Exited(t)
<1>1. PICK t : t = CompleteRecovery(s)
  OBVIOUS
<1>2. Keeps(s, t, c) /\ ~t.draining
  BY <1>1, CompleteRecoveryTurn DEF Keeps, Turn, Step, Same
<1>3. Keeps(t, Capacity(t), c) /\ Eager(Capacity(t)) /\ Exited(Capacity(t))
  BY <1>2, KeepsHolds, CapacityTurn
<1> QED
  BY <1>1, <1>2, <1>3, KeepsTwice DEF CapacitySignal

\* What a callback leaves behind.
Easy(s, c) == Sound(s, c) /\ Rested(s)

LEMMA EagerRested ==
  ASSUME NEW s, Pumped(s), Eager(s), Exited(s)
  PROVE  Rested(s)
BY DEF Rested, Eager, Armed

\* A callback that has pumped is over after the writer's signal.
LEMMA SettledEasy ==
  ASSUME NEW s, NEW c, Holds(s, c), ~s.draining, Pumped(s), Eager(s)
  PROVE  Easy(Settled(s), c)
<1>1. CASE s.full
  <2>1. Settled(s) = s /\ Exited(s)
    BY <1>1 DEF Settled, Exited
  <2> QED
    BY <2>1, EagerRested DEF Easy, Holds
<1>2. CASE ~s.full
  <2>1. PICK t : t = CapacitySignal(s)
    OBVIOUS
  <2>2. Settled(s) = t
    BY <1>2, <2>1 DEF Settled
  <2>3. Keeps(s, t, c) /\ Eager(t) /\ Exited(t)
    BY <2>1, CapacitySignalTurn
  <2> QED
    BY <2>2, <2>3, EagerRested DEF Keeps, Turn, Easy
<1> QED
  BY <1>1, <1>2

\* So it is after a capacity call.
LEMMA CapacityEasy ==
  ASSUME NEW s, NEW c, Holds(s, c), ~s.draining, Pumped(s)
  PROVE  Easy(Capacity(s), c)
<1>1. PICK t : t = Capacity(s)
  OBVIOUS
<1>2. Keeps(s, t, c) /\ Eager(t) /\ Exited(t)
  BY <1>1, CapacityTurn
<1> QED
  BY <1>1, <1>2, EagerRested DEF Keeps, Turn, Easy

LEMMA CapacitySignalEasy ==
  ASSUME NEW s, NEW c, Holds(s, c), ~s.draining, Pumped(s)
  PROVE  Easy(CapacitySignal(s), c)
<1>1. PICK t : t = CapacitySignal(s)
  OBVIOUS
<1>2. Keeps(s, t, c) /\ Eager(t) /\ Exited(t)
  BY <1>1, CapacitySignalTurn
<1> QED
  BY <1>1, <1>2, EagerRested DEF Keeps, Turn, Easy


-----------------------------------------------------------------------------
(* What settles. *)

\* Between two callbacks of a relay that no cut can stop.
Ready(s, c) == Wide = {} /\ Calm(s, c) /\ Easy(s, c)

LEMMA ReadyHolds ==
  ASSUME NEW s, NEW c, Ready(s, c)
  PROVE  /\ Holds(s, c) /\ ~s.draining /\ Told(s) /\ Rested(s)
         /\ s \in Relay /\ s.d \in Ledger /\ LedgerOK(s)
BY DEF Ready, Calm, Easy, Rest, Holds, Good, LedgerOK, Relay

LEMMA MilderTurn ==
  ASSUME NEW s, NEW c, Holds(s, c), NEW e, Milder(s.d, e), NEW t, t = WithD(s, e), Step(s, t, c)
  PROVE  Turn(s, t, c) /\ Alike(s, t) /\ t.d = e /\ t.exit = s.exit
<1>1. s \in Relay /\ s.d \in Ledger /\ Good(s, c) /\ Sound(s, c) /\ ~s.died
  BY DEF Holds, Good, LedgerOK, Relay
<1>2. Alike(s, t) /\ t.d = e /\ t.timer = s.timer /\ t.exit = s.exit /\ t.died = s.died
  BY <1>1, SetD DEF Milder
<1>3. Sound(t, c)
  BY <1>1, MilderSound
<1> QED
  BY <1>1, <1>2, <1>3 DEF Turn, Milder

LEMMA CreditedMilder ==
  ASSUME NEW d \in Ledger, NEW end \in Nat, d.cred <= end
  PROVE  Milder(d, Credited(d, end))
<1>1. PICK e : e = Credited(d, end)
  OBVIOUS
<1>2. /\ Kin(d, e) /\ e.cred = end /\ e.recEnd = d.recEnd /\ e.exitSt = d.exitSt
  BY <1>1, CreditedFacts
<1>3. PICK B : B = {b \in d.bounds : b >= end}
  OBVIOUS
<1>4. PICK f : f = [d EXCEPT !.cred = end, !.resAck = None, !.bounds = B]
  OBVIOUS
<1>5. f.completing = d.completing /\ f.st = d.st
  BY <1>4 DEF Ledger
<1>6. e = f \/ e = [f EXCEPT !.st = "closed"]
  BY <1>1, <1>3, <1>4 DEF Credited
<1>7. e.completing = f.completing /\ e.st \in {f.st, "closed"}
  <2>1. [f EXCEPT !.st = "closed"].completing = f.completing /\ [f EXCEPT !.st = "closed"].st = "closed"
    BY <1>4 DEF Ledger
  <2> QED
    BY <1>6, <2>1
<1> QED
  BY <1>1, <1>2, <1>5, <1>7 DEF Milder, Kin

LEMMA CommittedMilder ==
  ASSUME NEW d \in Ledger, d.pend \in Nat, d.resAck # None => d.cred <= d.resAck
  PROVE  Milder(d, Committed(d))
<1>1. PICK f : f = Counted(d)
  OBVIOUS
<1>2. /\ Kin(d, f) /\ f.st = d.st /\ f.cred = d.cred /\ f.resAck = d.resAck
      /\ f.recEnd = d.recEnd /\ f.exitSt = d.exitSt
  BY <1>1, CountedFacts
<1>3. f.completing = d.completing
  BY <1>1 DEF Counted, Ledger
<1>4. d.cred \in Nat /\ (d.resAck # None => d.resAck \in Nat)
  BY DEF Ledger, Optional
<1>5. Milder(d, f)
  BY <1>2, <1>3, <1>4 DEF Milder, Kin
<1>6. Committed(d) = IF d.resAck = None THEN f ELSE Credited(f, d.resAck)
  BY <1>1 DEF Committed, Counted
<1>7. CASE d.resAck # None
  <2>1. PICK e : e = Credited(f, d.resAck)
    OBVIOUS
  <2>2. Milder(f, e) /\ e.cred = d.resAck
    BY <1>2, <1>4, <1>7, <2>1, CreditedMilder, CreditedFacts DEF Kin
  <2> QED
    BY <1>2, <1>3, <1>6, <1>7, <2>1, <2>2 DEF Milder, Kin
<1> QED
  BY <1>5, <1>6, <1>7

\* A settled frame is committed, and the delivery pumped.
LEMMA CommitSendTurn ==
  ASSUME NEW s, NEW c, Holds(s, c), s.d.pend # None, ~s.draining
  PROVE  LET t == CommitSend(s) IN Turn(s, t, c) /\ Pumped(t) /\ Eager(t)
<1>1. s \in Relay /\ s.d \in Ledger /\ Good(s, c) /\ LedgerOK(s)
  BY DEF Holds, Good, LedgerOK, Relay
<1>2. PICK t : t = WithD(s, Committed(s.d))
  OBVIOUS
<1>3. Turn(s, t, c)
  <2>1. s.d.pend \in Nat /\ s.d.cred \in Nat /\ s.d.sent \in Nat /\ s.d.resAck \in Nat \cup {None}
    BY <1>1 DEF Ledger, Optional
  <2>2. s.d.resAck # None => s.d.cred <= s.d.resAck
    BY <1>1, <2>1 DEF LedgerOK, Ahead, Offsets
  <2> QED
    BY <1>1, <1>2, <2>1, <2>2, CommittedMilder, CommittedOK, MilderTurn
<1>4. PICK u : u = CompleteRecovery(t)
  OBVIOUS
<1>5. Turn(s, u, c) /\ ~u.draining
  BY <1>3, <1>4, TurnHolds, CompleteRecoveryTurn, TurnTwice DEF Turn, Step, Same
<1>6. PICK v : v = Capacity(u)
  OBVIOUS
<1>7. Turn(s, v, c) /\ Eager(v)
  BY <1>5, <1>6, TurnHolds, CapacityTurn, TurnTwice DEF Keeps
<1>8. Turn(v, Pump(v), c) /\ Pumped(Pump(v))
  BY <1>7, TurnHolds, PumpTurn
<1>9. CommitSend(s) = Pump(v)
  BY <1>2, <1>4, <1>6 DEF CommitSend, WithD
<1> QED
  BY <1>7, <1>8, <1>9, TurnTwice, TurnEager

LEMMA SettleDataEasy ==
  ASSUME NEW s, NEW c, Ready(s, c), s.d.pend # None
  PROVE  Easy(Settled(CommitSend(s)), c)
<1>1. PICK t : t = CommitSend(s)
  OBVIOUS
<1>2. Turn(s, t, c) /\ Pumped(t) /\ Eager(t) /\ ~t.draining
  BY <1>1, ReadyHolds, CommitSendTurn DEF Turn, Step, Same
<1> QED
  BY <1>1, <1>2, ReadyHolds, TurnHolds, SettledEasy

LEMMA NotedMore ==
  ASSUME NEW d \in Ledger, NEW st \in Stages
  PROVE  LET e == Noted(d, st) IN
         /\ e.completing = d.completing /\ e.activating = d.activating /\ e.refused = d.refused
         /\ e.st = st
BY DEF Noted, Ledger

\* The exit frame is written.
LEMMA SettleExitEasy ==
  ASSUME NEW s, NEW c, Ready(s, c), s.d.exitSt = "pending"
  PROVE  Easy(Settled(Capacity(ExitPublished(s))), c)
<1>1. Holds(s, c) /\ Good(s, c) /\ s \in Relay /\ s.d \in Ledger /\ LedgerOK(s) /\ Sound(s, c) /\ Pumped(s)
  BY ReadyHolds DEF Holds, Rested
<1>2. PICK st : st = IF s.d.cred = s.d.recv THEN "closed" ELSE s.d.st
  OBVIOUS
<1>3. st \in Stages /\ st \in {s.d.st, "closed"}
  BY <1>1, <1>2 DEF Ledger, Stages
<1>4. PICK e : e = Noted(s.d, st)
  OBVIOUS
<1>5. PICK t : t = WithD(s, e)
  OBVIOUS
<1>6. ExitPublished(s) = t
  BY <1>1, <1>2, <1>4, <1>5 DEF ExitPublished, WithD, Noted, Relay
<1>7. /\ Kin(s.d, e) /\ e.sent = s.d.sent /\ e.cred = s.d.cred /\ e.pend = s.d.pend
      /\ e.recEnd = s.d.recEnd /\ e.resAck = s.d.resAck
      /\ e.completing = s.d.completing /\ e.activating = s.d.activating /\ e.refused = s.d.refused
      /\ e.st = st
  BY <1>1, <1>3, <1>4, NotedFacts, NotedMore
<1>8. Milder(s.d, e)
  <2>1. s.d.cred <= s.d.cred
    BY <1>1 DEF Ledger
  <2> QED
    BY <1>3, <1>7, <2>1 DEF Milder, Kin
<1>9. Good(t, c) /\ ~t.draining /\ ~t.died
  BY <1>1, <1>6, ExitPublishedOK, ReadyHolds DEF Holds
<1>10. Sound(t, c)
  BY <1>1, <1>5, <1>8, MilderSound
<1>11. Holds(t, c)
  BY <1>1, <1>9, <1>10 DEF Holds
<1>12. Pumped(t)
  <2>1. Alike(s, t) /\ t.d = e
    BY <1>1, <1>5, <1>7, SetD DEF Kin
  <2>2. Own(t) = Own(s) /\ Fenced(t) = Fenced(s)
    BY <1>7, <2>1 DEF Own, Fenced, Alike, Kin
  <2>3. Sendable(t) => Sendable(s)
    BY <1>3, <1>7, <2>1, <2>2 DEF Sendable, MostUnits, Room, Kin
  <2> QED
    BY <1>1, <1>7, <2>1, <2>2, <2>3 DEF Pumped
<1>13. PICK u : u = Capacity(t)
  OBVIOUS
<1>14. Keeps(t, u, c) /\ Eager(u) /\ ~u.draining
  BY <1>9, <1>11, <1>13, CapacityTurn DEF Keeps, Turn, Step, Same
<1>15. Holds(u, c) /\ Pumped(u)
  BY <1>11, <1>12, <1>14, KeepsHolds DEF Keeps
<1> QED
  BY <1>6, <1>13, <1>14, <1>15, SettledEasy

LEMMA RecoveredMore ==
  ASSUME NEW d \in Ledger
  PROVE  Recovered(d).completing = FALSE
BY DEF Recovered, Ledger

\* The frame that completes the recovery is written: output flows again.
LEMMA SettleCompleteEasy ==
  ASSUME NEW s, NEW c, Ready(s, c), Own(s), s.d.completing
  PROVE  Easy(Settled(RecoveryCompleted(s)), c)
<1>1. /\ Holds(s, c) /\ Good(s, c) /\ s \in Relay /\ s.d \in Ledger /\ LedgerOK(s) /\ Sound(s, c)
      /\ ~s.died /\ ~s.draining /\ s.d.tok # 0
  BY ReadyHolds, OwnTok DEF Holds
<1>2. PICK t : t = WithD(s, Recovered(s.d))
  OBVIOUS
<1>3. PICK e : e = Recovered(s.d)
  OBVIOUS
<1>4. /\ Kin(s.d, e) /\ e.st = s.d.st /\ e.recEnd = None /\ e.exitSt = s.d.exitSt /\ e.completing = FALSE
  BY <1>1, <1>3, RecoveredFacts, RecoveredMore
<1>5. Alike(s, t) /\ t.d = e /\ t.timer = s.timer /\ t.exit = s.exit /\ t.died = s.died /\ t.faulted = s.faulted
  BY <1>1, <1>2, <1>3, <1>4, SetD DEF Kin
<1>6. Step(s, t, c)
  BY <1>1, <1>2, RecoveredOK
<1>7. Wider(s, t)
  BY <1>5 DEF Wider, Alike, Posted
<1>8. Sealing(t) /\ Forsaken(t) /\ InReach(t) /\ (t.full => t.open)
  BY <1>1, <1>4, <1>5 DEF Sound, Sealing, Forsaken, InReach, Alike, Kin
<1>9. TellsOf(s, t)
  BY <1>1, <1>4, <1>5 DEF TellsOf, Ended
<1>10. t.d.tok = s.d.tok /\ Mended(s, t)
  BY <1>4, <1>5 DEF Mended, Kin
<1>11. Sound(t, c)
  BY <1>1, <1>5, <1>7, <1>8, <1>9, <1>10, SoundOK DEF Alike
<1>12. Turn(s, t, c) /\ ~t.draining
  BY <1>1, <1>5, <1>6, <1>10, <1>11 DEF Turn, Alike
<1>13. PICK v : v = Capacity(t)
  OBVIOUS
<1>14. Turn(s, v, c) /\ Eager(v)
  BY <1>1, <1>12, <1>13, TurnHolds, CapacityTurn, TurnTwice DEF Keeps
<1>15. PICK u : u = Pump(v)
  OBVIOUS
<1>16. Turn(v, u, c) /\ Pumped(u)
  BY <1>1, <1>14, <1>15, TurnHolds, PumpTurn
<1>17. Holds(u, c) /\ Eager(u) /\ ~u.draining
  BY <1>1, <1>14, <1>16, TurnTwice, TurnHolds, TurnEager DEF Turn, Step, Same
<1>18. t = [s EXCEPT !.d.completing = FALSE, !.d.recEnd = None]
  BY <1>1, <1>2 DEF WithD, Recovered, Relay
<1>19. RecoveryCompleted(s) = u
  BY <1>13, <1>15, <1>18 DEF RecoveryCompleted
<1> QED
  BY <1>16, <1>17, <1>19, SettledEasy

LEMMA StartedMilder ==
  ASSUME NEW d \in Ledger
  PROVE  Milder(d, Started(d))
<1>1. Marked(d, Started(d)) /\ d.cred <= d.cred
  BY StartedFacts DEF Ledger
<1>2. Started(d).completing = d.completing
  BY DEF Started, Ledger
<1> QED
  BY <1>1, <1>2 DEF Marked, Milder

\* The attach response is written.
LEMMA SettleResponseEasy ==
  ASSUME NEW s, NEW c, Ready(s, c), s.d.restore \/ Own(s)
  PROVE  Easy(Settled(Activated(s)), c)
<1>1. Holds(s, c) /\ Good(s, c) /\ s \in Relay /\ s.d \in Ledger /\ LedgerOK(s) /\ ~s.draining
  BY ReadyHolds DEF Holds
<1>2. CASE s.d.restore
  <2>1. ~Owned(s)
    BY <1>1, <1>2 DEF LedgerOK, Exiting, Owned
  <2>2. PICK t : t = Retired(s)
    OBVIOUS
  <2>3. Holds(t, c) /\ Pumped(t) /\ ~t.draining
    BY <1>1, <2>1, <2>2, RetiredTurn, TurnHolds, GivenUpPumped DEF Turn, Step, Same
  <2>4. PICK u : u = Capacity(t)
    OBVIOUS
  <2>5. Keeps(t, u, c) /\ Eager(u) /\ ~u.draining
    BY <2>3, <2>4, CapacityTurn DEF Keeps, Turn, Step, Same
  <2>6. Activated(s) = u
    BY <1>2, <2>2, <2>4 DEF Activated
  <2> QED
    BY <2>3, <2>5, <2>6, KeepsHolds, SettledEasy DEF Keeps
<1>3. CASE ~s.d.restore
  <2>1. PICK t : t = WithD(s, Started(s.d))
    OBVIOUS
  <2>2. Turn(s, t, c)
    <3>1. Step(s, t, c)
      BY <1>1, <1>3, <2>1, OwnTok, StartedFacts, MarkedOK
    <3> QED
      BY <1>1, <2>1, <3>1, StartedMilder, MilderTurn
  <2>3. PICK u : u = CompleteRecovery(t)
    OBVIOUS
  <2>4. Turn(s, u, c)
    BY <1>1, <2>2, <2>3, TurnHolds, CompleteRecoveryTurn, TurnTwice
  <2>5. PICK v : v = Pump(u)
    OBVIOUS
  <2>6. Turn(s, v, c) /\ Pumped(v)
    BY <1>1, <2>4, <2>5, TurnHolds, PumpTurn, TurnTwice
  <2>7. Holds(v, c) /\ ~v.draining
    BY <1>1, <2>6, TurnHolds DEF Turn, Step, Same
  <2>8. PICK w : w = Capacity(v)
    OBVIOUS
  <2>9. Keeps(v, w, c) /\ Eager(w) /\ ~w.draining
    BY <2>7, <2>8, CapacityTurn DEF Keeps, Turn, Step, Same
  <2>10. t = [s EXCEPT !.d.activating = FALSE]
    BY <1>1, <2>1 DEF WithD, Started, Relay
  <2>11. Activated(s) = w
    BY <1>3, <2>3, <2>5, <2>8, <2>10 DEF Activated
  <2> QED
    BY <2>6, <2>7, <2>9, <2>11, KeepsHolds, SettledEasy DEF Keeps
<1> QED
  BY <1>2, <1>3


-----------------------------------------------------------------------------
(* The queue, the exit of the PTY and the end of a link. *)

\* A change of the flags, of the exit that begins, or of what the PTY writes.
LEMMA FlagsSound ==
  ASSUME NEW s, NEW c, Good(s, c), Sound(s, c), NEW t, Loaded(s, t), t.full => t.open,
         s.exit # "no" => t.made = s.made /\ t.exit = s.exit,
         t.exit = s.exit \/ t.exit = "pending"
  PROVE  Sound(t, c) /\ (Pumped(s) => Pumped(t))
<1>1. Wider(s, t)
  BY DEF Loaded, Wider, Posted
<1>2. Own(t) = Own(s) /\ Fenced(t) = Fenced(s) /\ (Sendable(t) => Sendable(s))
  BY DEF Loaded, Own, Fenced, Sendable, MostUnits, Room
<1>3. Sealing(t) /\ Forsaken(t) /\ InReach(t)
  BY DEF Loaded, Sound, Sealing, Forsaken, InReach
<1>4. TellsOf(s, t)
  <2> SUFFICES ASSUME Ended(t), s.exit # "done"
               PROVE  s.d.tok # 0 /\ s.d.exitSt # "idle"
    BY DEF TellsOf
  <2>1. Own(s) /\ s.d.exitSt # "idle"
    BY <1>2 DEF Ended, Loaded
  <2> QED
    BY <2>1, OwnTok DEF Good
<1>5. ASSUME Own(t) PROVE Own(s) /\ t.d.tok = s.d.tok /\ Mended(s, t)
  <2>1. Posted(t) = Posted(s)
    BY DEF Loaded, Posted
  <2> QED
    BY <1>2, <1>5, <2>1 DEF Mended, Mending, Sound, Loaded
<1>6. Sound(t, c)
  BY <1>1, <1>3, <1>4, <1>5, SoundOK DEF Loaded
<1>7. Pumped(s) => Pumped(t)
  BY <1>2 DEF Pumped, Loaded
<1> QED
  BY <1>6, <1>7

\* A chunk is taken in, unless the delivery is sealed.
LEMMA TakenSound ==
  ASSUME NEW s, NEW c, Good(s, c), Sound(s, c), s.d.st # "sealed", NEW t,
         t.wire = s.wire, t.conn = s.conn, t.open = s.open, t.full = s.full, t.exit = s.exit,
         t.faulted = s.faulted, t.d.tok = s.d.tok, t.d.conn = s.d.conn, t.d.st = s.d.st,
         t.d.cred = s.d.cred, t.d.recEnd = s.d.recEnd, t.d.exitSt = s.d.exitSt,
         t.d.completing = s.d.completing
  PROVE  Sound(t, c)
<1>1. Wider(s, t) /\ Posted(t) = Posted(s)
  BY DEF Wider, Posted
<1>2. Own(t) = Own(s)
  BY DEF Own
<1>3. Sealing(t) /\ Forsaken(t) /\ InReach(t) /\ (t.full => t.open)
  BY DEF Sound, Sealing, Forsaken, InReach
<1>4. TellsOf(s, t)
  <2> SUFFICES ASSUME Ended(t), s.exit # "done"
               PROVE  s.d.tok # 0 /\ s.d.exitSt # "idle"
    BY DEF TellsOf
  <2>1. Own(s) /\ s.d.exitSt # "idle"
    BY <1>2 DEF Ended
  <2> QED
    BY <2>1, OwnTok DEF Good
<1>5. Own(t) => Own(s) /\ t.d.tok = s.d.tok /\ Mended(s, t)
  BY <1>1, <1>2 DEF Mended, Mending, Sound
<1> QED
  BY <1>1, <1>3, <1>4, <1>5, SoundOK

LEMMA FedMore ==
  ASSUME NEW d \in Ledger, NEW recv \in Nat
  PROVE  Fed(d, recv).completing = d.completing
BY DEF Fed, Ledger

\* A chunk is taken in and the delivery pumped.
LEMMA PublishTurn ==
  ASSUME NEW s, NEW c, Holds(s, c), s.taken < s.made, s.d.st # "sealed"
  PROVE  LET t == Publish(s) IN
         Move(s, t, c) /\ Holds(t, c) /\ Pumped(t) /\ (s.timer => t.timer)
<1>1. s \in Relay /\ s.d \in Ledger /\ Good(s, c) /\ Sound(s, c) /\ LedgerOK(s) /\ ~s.died /\ Wide = {}
  BY DEF Holds, Good, LedgerOK, Relay
<1>2. Move(s, Publish(s), c)
  BY <1>1, PublishOK
<1>3. NextEnd(s.taken) \in Nat
  <2>1. s.taken \in Nat /\ s.made \in Nat /\ s.made <= Max(Ends) /\ Max(Ends) \in Nat
    BY <1>1, EndsOK DEF Relay, LedgerOK, Offsets
  <2>2. s.taken < Max(Ends)
    BY <2>1
  <2> QED
    BY <2>1, <2>2, NextEndOK
<1>4. PICK e : e = IF s.d.tok = 0 THEN s.d ELSE Fed(s.d, NextEnd(s.taken))
  OBVIOUS
<1>5. /\ e \in Ledger /\ e.tok = s.d.tok /\ e.conn = s.d.conn /\ e.st = s.d.st /\ e.cred = s.d.cred
      /\ e.recEnd = s.d.recEnd /\ e.exitSt = s.d.exitSt /\ e.completing = s.d.completing
  BY <1>1, <1>3, <1>4, FedFacts, FedMore
<1>6. PICK t : t = Taken(s, e)
  OBVIOUS
<1>7. /\ t.d = e /\ t.wire = s.wire /\ t.conn = s.conn /\ t.open = s.open /\ t.full = s.full
      /\ t.exit = s.exit /\ t.faulted = s.faulted /\ t.timer = s.timer /\ t.died = s.died
  BY <1>1, <1>6 DEF Taken, Relay
<1>8. Good(t, c)
  BY <1>1, <1>4, <1>6, TakenOK
<1>9. Sound(t, c)
  BY <1>1, <1>5, <1>7, TakenSound
<1>10. Holds(t, c)
  BY <1>1, <1>7, <1>8, <1>9 DEF Holds
<1>11. CASE s.d.tok = 0
  <2>1. t = [s EXCEPT !.taken = NextEnd(@)]
    BY <1>1, <1>4, <1>6, <1>11 DEF Taken, Relay
  <2>2. Publish(s) = t
    BY <1>11, <2>1 DEF Publish
  <2>3. ~Own(t)
    BY <1>5, <1>7, <1>8, <1>11, OwnTok DEF Good
  <2> QED
    BY <1>2, <1>7, <1>10, <2>2, <2>3 DEF Pumped
<1>12. CASE s.d.tok # 0
  <2>1. PICK u : u = [s EXCEPT !.taken = NextEnd(@)]
    OBVIOUS
  <2>2. t = [u EXCEPT !.d.recv = u.taken]
    BY <1>1, <1>4, <1>6, <1>12, <2>1 DEF Taken, Fed, Relay
  <2>3. Publish(s) = Pump(t)
    BY <1>12, <2>1, <2>2 DEF Publish
  <2>4. Turn(t, Pump(t), c) /\ Pumped(Pump(t))
    BY <1>10, PumpTurn
  <2> QED
    BY <1>2, <1>7, <1>10, <2>3, <2>4, TurnHolds DEF Turn
<1> QED
  BY <1>11, <1>12

\* The timer's flush takes one chunk, and the exit may follow the last.
LEMMA FlushEasy ==
  ASSUME NEW s, NEW c, Ready(s, c), Queued(s)
  PROVE  Easy(FlushQueued(s), c)
<1>1. /\ Holds(s, c) /\ ~s.draining /\ s \in Relay /\ LedgerOK(s) /\ Good(s, c) /\ Sound(s, c)
      /\ Pumped(s) /\ s.taken < s.made /\ Wide = {} /\ ~s.died
  BY ReadyHolds DEF Holds, Rested, Queued
<1>2. CASE ~Accepts(s)
  <2>1. PICK t : t = [s EXCEPT !.timer = FALSE]
    OBVIOUS
  <2>2. /\ Loaded(s, t) /\ t.made = s.made /\ t.exit = s.exit /\ t.draining = s.draining
        /\ t.full = s.full
    BY <1>1, <2>1 DEF Loaded, Relay
  <2>3. Sound(t, c) /\ Pumped(t)
    BY <1>1, <2>2, FlagsSound DEF Sound, Loaded
  <2>4. Queued(t) /\ ~Accepts(t)
    BY <1>2, <2>2 DEF Queued, Accepts, Loaded
  <2>5. FlushQueued(s) = t
    BY <1>2, <2>1 DEF FlushQueued
  <2> QED
    BY <2>3, <2>4, <2>5 DEF Easy, Rested, Armed, Exited
<1>3. CASE Accepts(s)
  <2>1. PICK r : r = Drained(s, TRUE)
    OBVIOUS
  <2>2. /\ Good(r, c) /\ Loaded(s, r) /\ r.exit = s.exit /\ r.made = s.made /\ r.taken = s.taken
        /\ r.died = s.died /\ r.full = s.full /\ r.draining
    BY <1>1, <2>1, DrainedOK DEF Loaded, Drained, Relay
  <2>3. Holds(r, c)
    BY <1>1, <2>2, FlagsSound DEF Holds, Sound, Loaded
  <2>4. s.d.st # "sealed"
    BY <1>1, <1>3, NoDeliveryFacts DEF Accepts, LedgerOK, Numbers
  <2>5. PICK q : q = Publish(r)
    OBVIOUS
  <2>6. Holds(q, c) /\ Pumped(q)
    BY <1>1, <2>2, <2>3, <2>4, <2>5, PublishTurn DEF Loaded
  <2>7. PICK t : t = Drained(q, FALSE)
    OBVIOUS
  <2>8. q \in Relay /\ Good(q, c) /\ Sound(q, c) /\ ~q.died
    BY <2>6 DEF Holds, Good, LedgerOK
  <2>9. PICK x : x = [t EXCEPT !.timer = TRUE]
    OBVIOUS
  <2>10. PICK y : y = [t EXCEPT !.timer = FALSE]
    OBVIOUS
  <2>11. /\ Loaded(q, x) /\ x.made = q.made /\ x.exit = q.exit /\ x.died = q.died /\ x.full = q.full
         /\ x.timer /\ ~x.draining
    BY <2>7, <2>8, <2>9 DEF Loaded, Drained, Relay
  <2>12. /\ Loaded(q, y) /\ y.made = q.made /\ y.exit = q.exit /\ y.died = q.died /\ y.full = q.full
         /\ ~y.draining
    BY <2>7, <2>8, <2>10 DEF Loaded, Drained, Relay
  <2>13. Holds(x, c) /\ Pumped(x) /\ Holds(y, c) /\ Pumped(y)
    BY <1>1, <2>6, <2>8, <2>11, <2>12, LoadedOK, FlagsSound DEF Holds, Sound, Loaded
  <2>14. Queued(t) = Queued(x) /\ Queued(t) = Queued(y)
    BY <2>7, <2>8, <2>9, <2>10 DEF Queued, Drained, Relay
  <2>15. FlushQueued(s) = IF Queued(t) THEN x ELSE PublishExit(y)
    BY <1>3, <2>1, <2>5, <2>7, <2>9, <2>10 DEF FlushQueued, Drained
  <2>16. CASE Queued(t)
    BY <2>11, <2>13, <2>14, <2>15, <2>16 DEF Easy, Rested, Armed, Exited, Holds
  <2>17. CASE ~Queued(t)
    <3>1. PICK z : z = PublishExit(y)
      OBVIOUS
    <3>2. Keeps(y, z, c) /\ Exited(z)
      BY <2>12, <2>13, <3>1, PublishExitTurn
    <3>3. Eager(z)
      <4>1. Eager(y)
        BY <2>14, <2>17 DEF Eager
      <4> QED
        BY <3>2, <4>1, TurnEager DEF Keeps
    <3> QED
      BY <2>13, <2>15, <2>17, <3>1, <3>2, <3>3, EagerRested DEF Keeps, Turn, Easy
  <2> QED
    BY <2>16, <2>17
<1> QED
  BY <1>2, <1>3

\* The PTY exits: a chunk that can be taken is, and the exit begins.
LEMMA ExitNowEasy ==
  ASSUME NEW s, NEW c, Ready(s, c), s.exit = "no"
  PROVE  Easy(ExitNow(s), c)
<1>1. /\ Holds(s, c) /\ ~s.draining /\ s \in Relay /\ LedgerOK(s) /\ Good(s, c)
      /\ Pumped(s) /\ Armed(s) /\ Wide = {}
  BY ReadyHolds DEF Holds, Rested
<1>2. PICK t : t = IF Queued(s) /\ Accepts(s) THEN Publish(s) ELSE s
  OBVIOUS
<1>3. /\ Holds(t, c) /\ Pumped(t) /\ t.exit = "no" /\ ~t.draining
      /\ t.timer \/ (t = s /\ ~(Queued(s) /\ Accepts(s)))
  <2>1. CASE Queued(s) /\ Accepts(s)
    <3>1. s.d.st # "sealed"
      BY <1>1, <2>1, NoDeliveryFacts DEF Accepts, LedgerOK, Numbers
    <3>2. Move(s, t, c) /\ Holds(t, c) /\ Pumped(t) /\ (s.timer => t.timer)
      BY <1>1, <1>2, <2>1, <3>1, PublishTurn DEF Queued
    <3>3. t.exit = "no" /\ ~t.draining
      BY <1>1, <3>2 DEF Move
    <3>4. t.timer
      BY <1>1, <2>1, <3>2 DEF Armed
    <3> QED
      BY <3>2, <3>3, <3>4
  <2>2. CASE ~(Queued(s) /\ Accepts(s))
    BY <1>1, <1>2, <2>2
  <2> QED
    BY <2>1, <2>2
<1>4. t \in Relay /\ Good(t, c) /\ Sound(t, c) /\ ~t.died
  BY <1>3 DEF Holds, Good, LedgerOK
<1>5. PICK u : u = [t EXCEPT !.exit = "pending"]
  OBVIOUS
<1>6. /\ Loaded(t, u) /\ u.made = t.made /\ u.exit = "pending" /\ u.draining = t.draining
      /\ u.died = t.died /\ u.full = t.full /\ u.timer = t.timer
  BY <1>4, <1>5 DEF Loaded, Relay
<1>7. Holds(u, c) /\ Pumped(u)
  BY <1>1, <1>3, <1>4, <1>6, LoadedOK, FlagsSound DEF Holds, Sound, Loaded
<1>8. PICK v : v = PublishExit(u)
  OBVIOUS
<1>9. ExitNow(s) = v
  BY <1>2, <1>5, <1>8 DEF ExitNow
<1>10. Keeps(u, v, c) /\ Exited(v)
  BY <1>3, <1>6, <1>7, <1>8, PublishExitTurn
<1>11. Armed(v)
  <2>1. CASE Queued(u)
    <3>1. v = u
      BY <1>8, <2>1 DEF PublishExit
    <3>2. t = s => Queued(s) /\ (Accepts(u) => Accepts(s))
      BY <1>6, <2>1 DEF Queued, Accepts, Loaded
    <3> QED
      BY <1>3, <1>6, <3>1, <3>2 DEF Armed
  <2>2. CASE ~Queued(u)
    <3>1. Eager(u)
      BY <2>2 DEF Eager
    <3> QED
      BY <1>10, <3>1, TurnEager DEF Keeps, Eager, Armed
  <2> QED
    BY <2>1, <2>2
<1> QED
  BY <1>7, <1>9, <1>10, <1>11 DEF Keeps, Turn, Easy, Rested

\* The PTY writes, or the producer queue of the link fills.
LEMMA RefilledEasy ==
  ASSUME NEW s, NEW c, Ready(s, c), NEW made \in Nat, NEW timer \in BOOLEAN, NEW full \in BOOLEAN,
         timer = s.timer \/ timer, full => s.open,
         made = s.made \/ (s.exit = "no" /\ timer), full = s.full \/ full
  PROVE  Easy(Refilled(s, made, timer, full), c)
<1>1. s \in Relay /\ Good(s, c) /\ Sound(s, c) /\ Rested(s)
  BY ReadyHolds DEF Holds
<1>2. PICK t : t = Refilled(s, made, timer, full)
  OBVIOUS
<1>3. /\ Loaded(s, t) /\ t.made = made /\ t.exit = s.exit /\ t.draining = s.draining
      /\ t.timer = timer /\ t.full = full
  BY <1>1, <1>2 DEF Refilled, Relay, Loaded
<1>4. Sound(t, c) /\ Pumped(t)
  BY <1>1, <1>3, FlagsSound DEF Rested, Loaded
<1>5. Armed(t)
  BY <1>1, <1>3 DEF Rested, Armed, Queued, Accepts, Loaded
<1>6. Exited(t)
  BY <1>1, <1>3 DEF Rested, Exited, Queued, Own, Loaded
<1> QED
  BY <1>2, <1>4, <1>5, <1>6 DEF Easy, Rested

\* The producer queue of the link drains.
LEMMA DrainsEasy ==
  ASSUME NEW s, NEW c, Ready(s, c), NEW t, t = Refilled(s, s.made, s.timer, FALSE)
  PROVE  Easy(CapacitySignal(t), c)
<1>1. s \in Relay /\ Good(s, c) /\ Sound(s, c) /\ Rested(s) /\ Holds(s, c) /\ ~s.draining
  BY ReadyHolds DEF Holds
<1>2. /\ Loaded(s, t) /\ t.made = s.made /\ t.exit = s.exit /\ t.draining = s.draining
      /\ t.full = FALSE /\ t.died = s.died
  BY <1>1 DEF Refilled, Relay, Loaded
<1>3. Sound(t, c) /\ Pumped(t) /\ Good(t, c)
  BY <1>1, <1>2, FlagsSound, LoadedOK DEF Rested
<1> QED
  BY <1>1, <1>2, <1>3, CapacitySignalEasy DEF Holds

\* A delivery is given up, and the exit need not wait for it.
LEMMA GiveUpEasy ==
  ASSUME NEW s, NEW c, Holds(s, c), ~s.draining, ~Owned(s) \/ Silent(s, c)
  PROVE  Easy(Capacity(Retired(s)), c)
<1>1. PICK t : t = Retired(s)
  OBVIOUS
<1>2. Turn(s, t, c) /\ t.d = NoDelivery
  BY <1>1, RetiredTurn
<1>3. Holds(t, c) /\ ~t.draining /\ Pumped(t)
  BY <1>2, TurnHolds, GivenUpPumped DEF Turn, Step, Same
<1> QED
  BY <1>1, <1>3, CapacityEasy

\* The writer closes.
LEMMA ClosedEasy ==
  ASSUME NEW s, NEW c, Ready(s, c)
  PROVE  Easy(Closed(s), c)
<1>1. /\ Holds(s, c) /\ ~s.draining /\ s \in Relay /\ s.d \in Ledger /\ Good(s, c) /\ Sound(s, c)
      /\ ~s.died
  BY ReadyHolds DEF Holds
<1>2. PICK e : e = IF Own(s) \/ s.d.restore THEN Unsettled(s.d) ELSE s.d
  OBVIOUS
<1>3. \/ e = NoDelivery \/ (e = s.d /\ ~Own(s))
      \/ e = Lost(s.d, IF s.d.exitSt = "pending" THEN "idle" ELSE s.d.exitSt)
  BY <1>2 DEF Unsettled, Lost
<1>4. PICK t : t = Shut(s, e)
  OBVIOUS
<1>5. Good(t, c) /\ ~t.draining /\ ~t.open /\ ~t.died
  BY <1>1, <1>3, <1>4, ShutOK
<1>6. /\ t.d = e /\ t.wire = s.wire /\ t.conn = s.conn /\ t.full = FALSE /\ t.made = s.made
      /\ t.taken = s.taken /\ t.exit = s.exit /\ t.faulted = s.faulted
  BY <1>1, <1>4 DEF Shut, Relay
<1>7. e = NoDelivery \/ (e.st = s.d.st /\ e.recEnd = s.d.recEnd /\ e.cred = s.d.cred /\ e.tok = s.d.tok)
  <2>1. PICK x : x = IF s.d.exitSt = "pending" THEN "idle" ELSE s.d.exitSt
    OBVIOUS
  <2>2. x \in ExitSts
    BY <1>1, <2>1 DEF Ledger, ExitSts
  <2> QED
    BY <1>1, <1>3, <2>1, <2>2, LostFacts DEF Kin
<1>8. ~Own(t)
  BY <1>5 DEF Own
<1>9. Sealing(t) /\ Forsaken(t) /\ InReach(t) /\ (t.full => t.open)
  BY <1>1, <1>6, <1>7, NoDeliveryFacts DEF Sound, Sealing, Forsaken, InReach
<1>10. Wider(s, t) /\ TellsOf(s, t)
  BY <1>5, <1>6 DEF Wider, Posted, TellsOf
<1>11. Sound(t, c)
  BY <1>1, <1>5, <1>6, <1>8, <1>9, <1>10, SoundOK
<1>12. Holds(t, c) /\ Pumped(t)
  BY <1>1, <1>5, <1>8, <1>11 DEF Holds, Pumped
<1>13. Closed(s) = CapacitySignal(t)
  BY <1>2, <1>4 DEF Closed, Shut
<1> QED
  BY <1>5, <1>12, <1>13, CapacitySignalEasy


-----------------------------------------------------------------------------
(* What is acknowledged, and what is given up. *)

\* Behind the last output nothing is queued, sendable or in flight.
LEMMA AllSent ==
  ASSUME NEW s, LedgerOK(s), s.d.exitSt # "idle"
  PROVE  /\ s.d.sent = s.d.recv /\ s.d.pend = None /\ ~Queued(s) /\ s.exit # "no"
         /\ s.d.exitSt = "pending" => Own(s) /\ s.d.tok # 0
<1>1. s \in Relay /\ s.d \in Ledger /\ Offsets(s) /\ Ahead(s) /\ Exiting(s)
  BY DEF LedgerOK, Relay
<1>2. /\ s.d.sent \in Nat /\ s.d.recv \in Nat /\ s.taken \in Nat /\ s.made \in Nat
      /\ s.d.pend \in Nat \cup {None}
  BY <1>1 DEF Relay, Ledger, Optional
<1>3. s.d.sent = s.made /\ s.exit # "no"
  BY <1>1 DEF Exiting
<1>4. s.d.sent = s.d.recv /\ s.taken = s.made
  BY <1>1, <1>2, <1>3 DEF Offsets
<1>5. s.d.pend = None
  BY <1>1, <1>2, <1>4 DEF Ahead
<1>6. s.d.exitSt = "pending" => Own(s) /\ s.d.tok # 0
  BY <1>1, OwnTok DEF Exiting
<1>7. ~Queued(s)
  BY <1>2, <1>4 DEF Queued
<1> QED
  BY <1>3, <1>4, <1>5, <1>6, <1>7

\* While the exit frame is in flight only the ledger's marks may change.
LEMMA AwaitedRested ==
  ASSUME NEW s, LedgerOK(s), Pumped(s), s.d.exitSt = "pending", NEW t, Alike(s, t),
         t.d.tok = s.d.tok, t.d.conn = s.d.conn, t.d.exitSt = "pending", t.d.sent = s.d.sent,
         t.d.recv = s.d.recv, t.d.pend = s.d.pend, t.d.recEnd = s.d.recEnd,
         t.d.completing = s.d.completing, t.d.activating = s.d.activating,
         t.d.refused = s.d.refused
  PROVE  Rested(t)
<1>1. s.d.sent = s.d.recv /\ ~Queued(s) /\ s.d.tok # 0 /\ s.d.recv \in Nat
  BY AllSent DEF LedgerOK, Relay, Ledger
<1>2. Own(t) = Own(s) /\ Fenced(t) = Fenced(s) /\ Queued(t) = Queued(s)
  BY DEF Own, Fenced, Queued, Alike
<1>3. ~Sendable(t)
  BY <1>1 DEF Sendable
<1>4. Pumped(t)
  BY <1>2, <1>3 DEF Pumped
<1>5. Armed(t) /\ Exited(t)
  BY <1>1, <1>2 DEF Armed, Exited
<1> QED
  BY <1>4, <1>5 DEF Rested

LEMMA CreditedMore ==
  ASSUME NEW d \in Ledger, NEW end \in Nat
  PROVE  LET e == Credited(d, end) IN e.activating = d.activating /\ e.refused = d.refused
<1>1. PICK e : e = Credited(d, end)
  OBVIOUS
<1>2. PICK B : B = {b \in d.bounds : b >= end}
  OBVIOUS
<1>3. PICK f : f = [d EXCEPT !.cred = end, !.resAck = None, !.bounds = B]
  OBVIOUS
<1>4. f.activating = d.activating /\ f.refused = d.refused
  BY <1>3 DEF Ledger
<1>5. e = f \/ e = [f EXCEPT !.st = "closed"]
  BY <1>1, <1>2, <1>3 DEF Credited
<1>6. e.activating = f.activating /\ e.refused = f.refused
  BY <1>3, <1>5 DEF Ledger
<1> QED
  BY <1>1, <1>4, <1>6

LEMMA ReservedMore ==
  ASSUME NEW d \in Ledger, NEW end \in Nat
  PROVE  LET e == Reserved(d, end) IN
         e.completing = d.completing /\ e.activating = d.activating /\ e.refused = d.refused
BY DEF Reserved, Ledger

\* Credit comes back: the delivery is pumped, or has served its time.
LEMMA CreditEasy ==
  ASSUME NEW s, NEW c, Ready(s, c), Own(s), s.d.st # "closed", NEW end \in Nat,
         s.d.cred < end, end <= s.d.sent, NEW t, t = WithD(s, Credited(s.d, end))
  PROVE  Easy(CreditAvailable(t), c) /\ ~CreditAvailable(t).died
<1>1. /\ Holds(s, c) /\ ~s.draining /\ s \in Relay /\ s.d \in Ledger /\ LedgerOK(s) /\ Good(s, c)
      /\ Told(s) /\ Pumped(s) /\ s.d.tok # 0 /\ s.d.cred \in Nat /\ Wide = {}
  BY ReadyHolds, OwnTok DEF Holds, Rested, Ledger
<1>2. PICK e : e = Credited(s.d, end)
  OBVIOUS
<1>3. /\ Kin(s.d, e) /\ e.sent = s.d.sent /\ e.pend = s.d.pend
      /\ e.recEnd = s.d.recEnd /\ e.restore = s.d.restore /\ e.exitSt = s.d.exitSt
      /\ e.st = s.d.st \/ s.d.exitSt = "published"
      /\ e.activating = s.d.activating /\ e.refused = s.d.refused
  BY <1>1, <1>2, CreditedFacts, CreditedMore
<1>4. Milder(s.d, e)
  BY <1>1, <1>2, CreditedMilder
<1>5. Step(s, t, c)
  BY <1>1, CreditedOK
<1>6. Turn(s, t, c) /\ Alike(s, t) /\ t.d = e /\ t.exit = s.exit
  BY <1>1, <1>2, <1>4, <1>5, MilderTurn
<1>7. Holds(t, c) /\ ~t.draining
  BY <1>1, <1>6, TurnHolds DEF Alike
<1>8. t.d.tok # 0 /\ ~t.d.restore
  BY <1>1, <1>3, <1>6 DEF LedgerOK, Exiting, Kin
<1>9. Told(t)
  BY <1>1, <1>3, <1>6 DEF Told
<1>10. ~CreditAvailable(t).died
  BY <1>1, <1>7, <1>9, CreditAvailableOK DEF Holds, Step
<1>11. CASE t.d.exitSt = "pending"
  <2>1. CreditAvailable(t) = t
    BY <1>11 DEF CreditAvailable
  <2>2. Rested(t)
    BY <1>1, <1>3, <1>4, <1>6, <1>11, AwaitedRested DEF Kin, Milder
  <2> QED
    BY <1>6, <1>10, <2>1, <2>2 DEF Easy, Turn
<1>12. CASE t.d.exitSt # "pending" /\ t.d.st = "closed"
  <2>1. t.exit = "done"
    BY <1>1, <1>3, <1>6, <1>12 DEF Told
  <2>2. PICK u : u = Retired(t)
    OBVIOUS
  <2>3. Turn(t, u, c) /\ u.d = NoDelivery
    BY <1>7, <2>1, <2>2, RetiredTurn
  <2>4. Holds(u, c) /\ ~u.draining /\ Pumped(u)
    BY <1>7, <2>3, TurnHolds, GivenUpPumped DEF Turn, Step, Same
  <2>5. CreditAvailable(t) = Capacity(u)
    BY <1>8, <1>12, <2>2 DEF CreditAvailable
  <2> QED
    BY <1>10, <2>4, <2>5, CapacityEasy
<1>13. CASE t.d.exitSt # "pending" /\ t.d.st # "closed"
  <2>1. PICK u : u = Pump(t)
    OBVIOUS
  <2>2. Turn(t, u, c) /\ Pumped(u)
    BY <1>7, <2>1, PumpTurn
  <2>3. Holds(u, c) /\ ~u.draining
    BY <1>7, <2>2, TurnHolds DEF Turn, Step, Same
  <2>4. CreditAvailable(t) = Capacity(u)
    BY <1>8, <1>13, <2>1 DEF CreditAvailable
  <2> QED
    BY <1>10, <2>2, <2>3, <2>4, CapacityEasy
<1> QED
  BY <1>11, <1>12, <1>13

LEMMA AcknowledgedEasy ==
  ASSUME NEW s, NEW c, Ready(s, c), Own(s), NEW end \in Nat
  PROVE  Easy(Acknowledged(s, end), c)
<1>1. /\ Holds(s, c) /\ s \in Relay /\ s.d \in Ledger /\ LedgerOK(s) /\ Good(s, c)
      /\ Rested(s) /\ s.d.cred \in Nat /\ s.d.sent \in Nat
  BY ReadyHolds DEF Holds, Ledger
<1>2. CASE end \notin Ackable(s.d) \/ end <= s.d.cred \/ s.d.st = "closed"
  <2>1. Acknowledged(s, end) = s
    BY <1>2 DEF Acknowledged
  <2> QED
    BY <2>1 DEF Ready
<1>3. CASE ~(end \notin Ackable(s.d) \/ end <= s.d.cred \/ s.d.st = "closed") /\ end > s.d.sent
  <2>1. end = s.d.pend /\ s.d.pend # None
    <3>1. end \notin s.d.bounds
      BY <1>1, <1>3 DEF LedgerOK, Ahead
    <3>2. s.d.resAck # None => s.d.resAck = s.d.pend
      BY <1>1 DEF LedgerOK, Ahead
    <3> QED
      BY <1>3, <3>1, <3>2 DEF Ackable
  <2>2. PICK e : e = Reserved(s.d, s.d.pend)
    OBVIOUS
  <2>3. PICK t : t = WithD(s, e)
    OBVIOUS
  <2>4. /\ Kin(s.d, e) /\ e.st = s.d.st /\ e.sent = s.d.sent /\ e.cred = s.d.cred
        /\ e.pend = s.d.pend /\ e.recEnd = s.d.recEnd /\ e.exitSt = s.d.exitSt
        /\ e.completing = s.d.completing /\ e.refused = s.d.refused
    BY <1>1, <2>1, <2>2, ReservedFacts, ReservedMore
  <2>5. Step(s, t, c)
    BY <1>1, <2>1, <2>2, <2>3, ReservedOK
  <2>6. Milder(s.d, e)
    <3>1. s.d.cred <= s.d.cred
      BY <1>1
    <3> QED
      BY <2>4, <3>1 DEF Milder, Kin
  <2>7. Turn(s, t, c) /\ Alike(s, t) /\ t.d = e /\ t.exit = s.exit
    BY <1>1, <2>3, <2>5, <2>6, MilderTurn
  <2>8. Pumped(t)
    BY <2>1, <2>4, <2>7 DEF Pumped
  <2>9. Armed(t)
    <3>1. Queued(t) /\ Accepts(t) => Queued(s) /\ Accepts(s)
      BY <2>4, <2>7 DEF Queued, Accepts, Alike, Kin
    <3> QED
      BY <1>1, <2>7, <3>1 DEF Armed, Rested, Turn
  <2>10. Exited(t)
    <3>1. Own(t) = Own(s) /\ Queued(t) = Queued(s) /\ t.full = s.full
      BY <2>4, <2>7 DEF Own, Queued, Alike, Kin
    <3> QED
      BY <1>1, <2>4, <2>7, <3>1 DEF Exited, Rested, Kin
  <2>11. t = [s EXCEPT !.d.resAck = end]
    BY <1>1, <2>1, <2>2, <2>3 DEF WithD, Reserved, Relay
  <2>12. Acknowledged(s, end) = t
    BY <1>3, <2>11 DEF Acknowledged
  <2> QED
    BY <2>7, <2>8, <2>9, <2>10, <2>12 DEF Easy, Rested, Turn
<1>4. CASE ~(end \notin Ackable(s.d) \/ end <= s.d.cred \/ s.d.st = "closed") /\ ~(end > s.d.sent)
  <2>1. PICK t : t = WithD(s, Credited(s.d, end))
    OBVIOUS
  <2>2. Easy(CreditAvailable(t), c) /\ ~CreditAvailable(t).died
    BY <1>1, <1>4, <2>1, CreditEasy
  <2>3. Acknowledged(s, end) = IF CreditAvailable(t).died THEN t ELSE CreditAvailable(t)
    BY <1>4, <2>1 DEF Acknowledged, WithD
  <2> QED
    BY <2>2, <2>3
<1> QED
  BY <1>2, <1>3, <1>4

LEMMA CeasedMore ==
  ASSUME NEW d \in Ledger
  PROVE  LET e == Ceased(d) IN
         e.completing = d.completing /\ e.activating = d.activating /\ e.refused = d.refused
BY DEF Ceased, Ledger

LEMMA CanceledEasy ==
  ASSUME NEW s, NEW c, Ready(s, c), Silent(s, c)
  PROVE  Easy(Canceled(s), c)
<1>1. /\ Holds(s, c) /\ ~s.draining /\ s \in Relay /\ s.d \in Ledger /\ LedgerOK(s) /\ Good(s, c)
      /\ Sound(s, c) /\ Pumped(s)
  BY ReadyHolds DEF Holds, Rested
<1>2. CASE s.d.exitSt = "pending"
  <2>1. PICK e : e = Ceased(s.d)
    OBVIOUS
  <2>2. PICK t : t = WithD(s, e)
    OBVIOUS
  <2>3. /\ Kin(s.d, e) /\ e.st = "closed" /\ e.sent = s.d.sent /\ e.cred = s.d.cred /\ e.pend = s.d.pend
        /\ e.recEnd = s.d.recEnd /\ e.exitSt = s.d.exitSt
        /\ e.completing = s.d.completing /\ e.activating = s.d.activating /\ e.refused = s.d.refused
    BY <1>1, <2>1, CeasedFacts, CeasedMore
  <2>4. Milder(s.d, e)
    <3>1. s.d.cred <= s.d.cred
      BY <1>1 DEF Ledger
    <3> QED
      BY <2>3, <3>1 DEF Milder, Kin
  <2>5. Sound(t, c)
    BY <1>1, <2>2, <2>4, MilderSound
  <2>6. Rested(t)
    <3>1. Alike(s, t) /\ t.d = e
      BY <1>1, <2>2, <2>3, SetD DEF Kin
    <3> QED
      BY <1>1, <1>2, <2>3, <3>1, AwaitedRested DEF Kin
  <2>7. Canceled(s) = t
    BY <1>1, <1>2, <2>1, <2>2 DEF Canceled, WithD, Ceased, Relay
  <2> QED
    BY <2>5, <2>6, <2>7 DEF Easy
<1>3. CASE s.d.exitSt # "pending"
  <2>1. Canceled(s) = Capacity(Retired(s))
    BY <1>3 DEF Canceled
  <2> QED
    BY <1>1, <2>1, GiveUpEasy
<1> QED
  BY <1>2, <1>3

\* A client that no longer listens is owed nothing.
LEMMA SilencedSound ==
  ASSUME NEW s, NEW c, Sound(s, c), NEW b, b.phase \notin {"attaching", "recovering", "live"}
  PROVE  Sound(s, b)
BY DEF Sound, Answering, Telling, Listens, Mending, Mends, Lives



-----------------------------------------------------------------------------
(* The owner attaches. *)

LEMMA RenewedMore ==
  ASSUME NEW d \in Ledger, NEW tok, NEW conn, NEW st, NEW recv, NEW end, NEW B, NEW a, NEW rec
  PROVE  LET e == Renewed(d, tok, conn, st, recv, end, B, a, rec) IN
         e.completing = d.completing /\ e.activating = a
BY DEF Renewed, Ledger

LEMMA AnsweredMore ==
  ASSUME NEW s \in Relay, NEW e, NEW taken, NEW timer, NEW tok, NEW v
  PROVE  Answered(s, e, taken, timer, tok, v).full = s.full
BY DEF Relay, Answered

\* The relay with a new delivery, whose response is written.
Begun(s, st, recv, end, rec, taken, timer, f) ==
  Answered(s, Delivery(s, st, recv, end, rec), taken, timer, s.tokens + 1, Sent(s, f).wire)

IsBegun(s, t, st, recv, end, rec, taken, f) ==
  /\ t \in Relay /\ t.taken = taken /\ t.wire = Sent(s, f).wire
  /\ t.open = s.open /\ t.made = s.made /\ t.exit = s.exit /\ t.full = s.full
  /\ t.faulted = s.faulted /\ t.d.tok = s.tokens + 1 /\ t.d.st = st
  /\ t.d.cred = end /\ t.d.recEnd = rec /\ t.d.exitSt = "idle"
  /\ t.d.completing = FALSE /\ t.d.activating = TRUE

LEMMA BegunFacts ==
  ASSUME NEW s \in Relay, NEW st \in Stages, NEW recv \in Nat, NEW end \in Nat, NEW rec \in Optional,
         NEW taken \in Nat, NEW timer \in BOOLEAN, NEW f \in Frames
  PROVE  IsBegun(s, Begun(s, st, recv, end, rec, taken, timer, f), st, recv, end, rec, taken, f)
<1>1. PICK tok, B, a : tok = s.tokens + 1 /\ B = {end} /\ a = TRUE
  OBVIOUS
<1>2. PICK e : e = Delivery(s, st, recv, end, rec)
  OBVIOUS
<1>3. IsDelivery(e, tok, s.conn, st, recv, end, rec)
  BY <1>1, <1>2, DeliveryFacts
<1>4. e.completing = FALSE /\ e.activating = TRUE
  <2>1. e = Renewed(NoDelivery, tok, s.conn, st, recv, end, B, a, rec)
    BY <1>1, <1>2 DEF Delivery, Renewed
  <2>2. NoDelivery \in Ledger /\ NoDelivery.completing = FALSE
    BY NoDeliveryFacts DEF NoDelivery
  <2>3. e.completing = NoDelivery.completing /\ e.activating = a
    BY <2>1, <2>2, RenewedMore
  <2> QED
    BY <1>1, <2>2, <2>3
<1>5. tok \in Nat
  BY <1>1 DEF Relay
<1>6. PICK v : v = Sent(s, f).wire
  OBVIOUS
<1>7. v \in Seq(Frames)
  BY <1>6, SentFacts DEF Relay
<1>8. PICK t : t = Answered(s, e, taken, timer, tok, v)
  OBVIOUS
<1>9. IsAnswer(s, t, e, taken, tok, v)
  BY <1>3, <1>5, <1>7, <1>8, AnsweredFacts DEF IsDelivery
<1>10. t.full = s.full
  BY <1>8, AnsweredMore
<1>11. Begun(s, st, recv, end, rec, taken, timer, f) = t
  BY <1>1, <1>2, <1>6, <1>8 DEF Begun
<1>12. IsBegun(s, t, st, recv, end, rec, taken, f)
  BY <1>1, <1>3, <1>4, <1>6, <1>9, <1>10 DEF IsBegun, IsAnswer, IsDelivery
<1> QED
  BY <1>11, <1>12

\* The response says whether there is a recovery, and nothing else speaks of
\* the new delivery.
LEMMA AnswerSound ==
  ASSUME NEW s, NEW c, Good(s, c), c.phase = "attaching", Plain(s), s.exit = "no", s.open,
         NEW a, Sound(s, a), NEW f \in Frames, Response(f), f.tok = s.tokens + 1,
         NEW t, NEW st, NEW recv, NEW end, NEW rec, NEW taken,
         IsBegun(s, t, st, recv, end, rec, taken, f),
         st # "sealed", rec # None => rec <= end + Window, (f.kind = "opened") <=> (rec = None)
  PROVE  Sound(t, c)
<1>1. s \in Relay /\ s.wire \in Seq(Frames) /\ s.tokens \in Nat
  BY DEF Good, LedgerOK, Relay
<1>2. Posted(t) = Posted(s) \cup {f}
  BY <1>1, SentPosts DEF Posted, IsBegun
<1>3. \A g \in Posted(s) : g.kind \in {"data", "complete"} /\ g.tok <= s.tokens /\ g.tok \in Nat
  <2>1. DOMAIN s.wire = 1..Len(s.wire) /\ \A i \in 1..Len(s.wire) : s.wire[i] \in Frames
    BY <1>1, WireFacts
  <2> SUFFICES ASSUME NEW i \in DOMAIN s.wire
               PROVE  /\ s.wire[i].kind \in {"data", "complete"} /\ s.wire[i].tok <= s.tokens
                      /\ s.wire[i].tok \in Nat
    BY DEF Posted, Range
  <2>2. s.wire[i].kind \in {"data", "complete"}
    BY DEF Plain
  <2> QED
    BY <2>1, <2>2, FrameFacts DEF Good, WireOK
<1>4. \A g \in Posted(s) : g.tok # f.tok
  BY <1>1, <1>3
<1>5. f.kind \in {"opened", "pending"}
  BY DEF Response
<1>6. ~s.faulted
  BY DEF Sound, Forsaken
<1>7. Sealing(t) /\ Forsaken(t) /\ InReach(t) /\ (t.full => t.open)
  BY <1>6 DEF IsBegun, Sealing, Forsaken, InReach
<1>8. Answering(t, c)
  BY <1>2, <1>5 DEF Answering
<1>9. Telling(t, c)
  BY DEF Telling, Ended, IsBegun
<1>10. Mending(t, c)
  <2>1. t.d.tok = f.tok /\ t.d.recEnd = rec /\ t.d.completing = FALSE
    BY DEF IsBegun
  <2>2. rec = None => ~Mends(t, c)
    BY <1>2, <1>4, <2>1 DEF Mends, Posts
  <2>3. rec # None => ~Lives(t, c)
    BY <1>2, <1>4, <1>5, <2>1 DEF Lives, Posts
  <2> QED
    BY <2>1, <2>2, <2>3 DEF Mending
<1> QED
  BY <1>7, <1>8, <1>9, <1>10 DEF Sound

LEMMA OpenedEasy ==
  ASSUME NEW s, NEW c, Calm(s, c), c.phase = "attaching", s.exit = "no", s.open, Plain(s),
         s.tokens < MaxTokens, NEW a, Sound(s, a)
  PROVE  Easy(Opened(s), c)
<1>1. /\ Good(s, c) /\ s \in Relay /\ s.tokens \in Nat /\ s.made \in Nat
      /\ Offsets(s)
  BY DEF Calm, Good, LedgerOK, Relay
<1>2. PICK f : f = [kind |-> "opened", tok |-> s.tokens + 1, start |-> s.made, upto |-> s.made]
  OBVIOUS
<1>3. f \in Frames /\ f.kind = "opened" /\ f.tok = s.tokens + 1 /\ Response(f)
  <2>1. s.tokens + 1 \in 1..MaxTokens /\ s.made <= Max(Ends)
    BY <1>1, Limits DEF Offsets
  <2>2. s.made \in Offset
    BY <1>1, <2>1, EndsOK
  <2> QED
    BY <1>2, <2>1, <2>2 DEF Frames, Response
<1>4. PICK b, st, rec : b = FALSE /\ st = "active" /\ rec = None
  OBVIOUS
<1>5. b \in BOOLEAN /\ st \in Stages /\ rec \in Optional
  BY <1>4 DEF Stages, Optional
<1>6. PICK t : t = Begun(s, st, s.made, s.made, rec, s.made, b, f)
  OBVIOUS
<1>7. IsBegun(s, t, st, s.made, s.made, rec, s.made, f)
  BY <1>1, <1>3, <1>5, <1>6, BegunFacts
<1>8. Sound(t, c)
  BY <1>1, <1>3, <1>4, <1>7, AnswerSound
<1>9. Opened(s) = t
  BY <1>1, <1>2, <1>4, <1>6 DEF Opened, Sent, Begun, Answered, Relay
<1>10. ~Queued(t)
  BY <1>1, <1>7 DEF Queued, IsBegun
<1>11. Pumped(t) /\ Armed(t) /\ Exited(t)
  BY <1>7, <1>10 DEF Pumped, Armed, Exited, IsBegun
<1> QED
  BY <1>8, <1>9, <1>11 DEF Easy, Rested

LEMMA RotatedEasy ==
  ASSUME NEW s, NEW c, Calm(s, c), c.phase = "attaching", s.exit = "no", s.open, Plain(s),
         s.tokens < MaxTokens, NEW ckpt \in [tok : Nat, end : Nat], Covers(s.d, ckpt),
         s.d.tok # 0, NEW a, Sound(s, a)
  PROVE  Easy(Rotated(s, ckpt.end), c)
<1>1. /\ Good(s, c) /\ s \in Relay /\ s.d \in Ledger /\ s.tokens \in Nat /\ s.taken \in Nat
      /\ s.timer \in BOOLEAN /\ s.d.recv \in Nat /\ s.d.st \in Stages /\ s.d.recv = s.taken
      /\ s.d.recv <= Max(Ends) /\ Max(Ends) \in Nat /\ s.made \in Nat
      /\ s.d.cred <= s.d.sent /\ s.d.sent <= s.d.recv
  <2>1. /\ Good(s, c) /\ s \in Relay /\ s.d \in Ledger /\ Offsets(s)
    BY DEF Calm, Good, LedgerOK, Relay
  <2> QED
    BY <2>1, EndsOK DEF Relay, Ledger, Offsets
<1>2. PICK end \in Nat : end = ckpt.end
  OBVIOUS
<1>3. end <= s.d.recv
  <2>1. CASE end \in s.d.bounds
    <3>1. s.d.bounds \subseteq s.d.cred..s.d.sent /\ s.d.sent \in Nat /\ s.d.cred \in Nat
      BY <1>1 DEF Good, LedgerOK, Ahead, Ledger
    <3> QED
      BY <1>1, <2>1, <3>1
  <2>2. CASE end = s.d.att
    BY <1>1, <1>2, <2>2 DEF Good, LedgerOK, Ahead, None
  <2> QED
    BY <1>2, <2>1, <2>2 DEF Covers
<1>4. PICK rec \in Nat : rec = RecoveryEnd(s.d.recv, end) /\ rec <= s.d.recv /\ rec <= end + Window
  BY <1>1, <1>3, Limits DEF RecoveryEnd
<1>5. PICK f : f = [kind |-> "pending", tok |-> s.tokens + 1, start |-> end, upto |-> rec]
  OBVIOUS
<1>6. f \in Frames /\ f.kind = "pending" /\ f.tok = s.tokens + 1 /\ Response(f)
  <2>1. s.tokens + 1 \in 1..MaxTokens /\ end <= Max(Ends) /\ rec <= Max(Ends)
    BY <1>1, <1>3, <1>4, Limits
  <2>2. end \in Offset /\ rec \in Offset
    BY <2>1, EndsOK
  <2> QED
    BY <1>5, <2>1, <2>2 DEF Frames, Response
<1>7. rec \in Optional /\ rec # None
  BY DEF Optional, None
<1>8. PICK t : t = Begun(s, s.d.st, s.d.recv, end, rec, s.taken, s.timer, f)
  OBVIOUS
<1>9. IsBegun(s, t, s.d.st, s.d.recv, end, rec, s.taken, f)
  BY <1>1, <1>6, <1>7, <1>8, BegunFacts
<1>10. s.d.st # "sealed"
  BY DEF Sound, Sealing
<1>11. Sound(t, c)
  BY <1>1, <1>4, <1>6, <1>7, <1>9, <1>10, AnswerSound
<1>12. Rotated(s, end) = t
  BY <1>1, <1>4, <1>5, <1>8 DEF Rotated, Sent, Begun, Answered, Relay
<1>13. ~Accepts(t)
  BY <1>1, <1>7, <1>9 DEF Accepts, IsBegun
<1>14. Pumped(t) /\ Armed(t) /\ Exited(t)
  BY <1>9, <1>13 DEF Pumped, Armed, Exited, IsBegun
<1> QED
  BY <1>2, <1>11, <1>12, <1>14 DEF Easy, Rested


\* Any other request cancels the delivery.
LEMMA RestoredEasy ==
  ASSUME NEW s, NEW c, Calm(s, c), c.phase = "attaching", s.exit = "no", Plain(s), Wide = {},
         s.d.tok = 0 \/ ~Own(s), NEW a, Sound(s, a)
  PROVE  Easy(Restored(s), c)
<1>1. /\ Good(s, c) /\ s \in Relay /\ s.d \in Ledger /\ LedgerOK(s) /\ ~s.draining /\ ~s.died
  BY DEF Calm, Good, LedgerOK, Relay, Rest
<1>2. PICK e : e = IF s.d.tok = 0 THEN s.d ELSE Refusing(s.d)
  OBVIOUS
<1>3. e \in Ledger /\ e.st = "closed" /\ e.recEnd = None /\ (s.faulted => e.tok = 0)
      /\ e.conn = s.d.conn
  <2>1. CASE s.d.tok = 0
    BY <1>1, <1>2, <2>1, NoDeliveryFacts DEF LedgerOK, Numbers
  <2>2. CASE s.d.tok # 0
    BY <1>1, <1>2, <2>2, RefusingFacts DEF Kin, Sound, Forsaken
  <2> QED
    BY <2>1, <2>2
<1>4. PICK t : t = WithD(s, e)
  OBVIOUS
<1>5. Alike(s, t) /\ t.d = e /\ t.exit = s.exit /\ t.faulted = s.faulted /\ t.died = s.died
  BY <1>1, <1>3, <1>4, SetD
<1>6. PICK f : f = [kind |-> "restore"]
  OBVIOUS
<1>7. f \in Frames /\ f.kind = "restore" /\ t \in Relay
  BY <1>5, <1>6 DEF Frames, Alike
<1>8. PICK u : u = Sent(t, f)
  OBVIOUS
<1>9. /\ u.d = e /\ u.open = s.open /\ u.full = s.full /\ u.exit = s.exit /\ u.conn = s.conn
      /\ u.faulted = s.faulted /\ u.draining = s.draining /\ u.died = s.died
  BY <1>5, <1>7, <1>8, SentFacts DEF Alike
<1>10. Restoring(s) = u
  BY <1>2, <1>4, <1>6, <1>8 DEF Restoring
<1>11. Calm(u, c) /\ Restored(s) = Capacity(u)
  BY <1>10, RestoringOK
<1>12. ~Own(u)
  BY <1>1, <1>3, <1>9, OwnTok DEF Own
<1>13. Sealing(u) /\ Forsaken(u) /\ InReach(u) /\ (u.full => u.open)
  BY <1>1, <1>3, <1>9 DEF Sound, Sealing, Forsaken, InReach
<1>14. Answering(u, c)
  BY <1>7, <1>8, SentPosts DEF Answering
<1>15. Telling(u, c) /\ Mending(u, c)
  BY <1>9, <1>12 DEF Telling, Ended, Mending
<1>16. Holds(u, c) /\ Pumped(u) /\ ~u.draining
  BY <1>1, <1>9, <1>11, <1>12, <1>13, <1>14, <1>15 DEF Holds, Sound, Calm, Pumped
<1> QED
  BY <1>11, <1>16, CapacityEasy


-----------------------------------------------------------------------------
(* The link and the client. *)

LEMMA RenewalMore ==
  ASSUME NEW s \in Relay, NEW conn
  PROVE  LET t == Renewal(s, conn) IN
         /\ t.d = s.d /\ t.conn = conn /\ t.wire = <<>> /\ t.full = s.full /\ t.made = s.made
         /\ t.taken = s.taken /\ t.timer = s.timer /\ t.draining = s.draining
         /\ t.exit = s.exit /\ t.faulted = s.faulted
BY DEF Renewal, Relay

\* A new link: nothing is on it, and nothing on the relay is its client's yet.
LEMMA ConnectedEasy ==
  ASSUME NEW s, NEW c, Good(s, c), Easy(s, c), ~s.open, ~c.up, NEW b, b.phase = c.phase
  PROVE  Easy(Renewal(s, s.conn + 1), b)
<1>1. /\ s \in Relay /\ LedgerOK(s) /\ s.conn \in Nat /\ s.d.conn \in Nat /\ s.d.conn <= s.conn
      /\ Sound(s, c) /\ Rested(s) /\ ~s.full
      /\ b.phase \notin {"attaching", "recovering", "live"}
  BY DEF Good, LedgerOK, ClientOK, Numbers, Relay, Ledger, Easy, Sound
<1>2. PICK t : t = Renewal(s, s.conn + 1)
  OBVIOUS
<1>3. /\ t.d = s.d /\ t.conn = s.conn + 1 /\ t.wire = <<>> /\ t.full = s.full /\ t.made = s.made
      /\ t.taken = s.taken /\ t.timer = s.timer /\ t.draining = s.draining
      /\ t.exit = s.exit /\ t.faulted = s.faulted
  BY <1>1, <1>2, RenewalMore
<1>4. ~Own(t) /\ ~Own(s)
  BY <1>1, <1>3 DEF Own
<1>5. Posted(t) = {}
  BY <1>3, EmptySeq DEF Posted, Range
<1>6. Sealing(t) /\ Forsaken(t) /\ InReach(t) /\ (t.full => t.open)
  BY <1>1, <1>3 DEF Sound, Sealing, Forsaken, InReach
<1>7. Answering(t, b) /\ Telling(t, b) /\ Mending(t, b)
  BY <1>1, <1>4, <1>5 DEF Answering, Telling, Listens, Mending
<1>8. Pumped(t)
  BY <1>4 DEF Pumped
<1>9. Armed(t)
  BY <1>1, <1>3 DEF Rested, Armed, Queued, Accepts
<1>10. Exited(t)
  BY <1>1, <1>3, <1>4 DEF Rested, Exited, Queued
<1> QED
  BY <1>2, <1>6, <1>7, <1>8, <1>9, <1>10 DEF Easy, Sound, Rested

LEMMA CutMore ==
  ASSUME NEW s \in Relay, NEW v
  PROVE  Cut(s, v).full = s.full /\ Cut(s, v).timer = s.timer
BY DEF Cut, Relay

\* What is in flight does not concern the pump, the timer and the exit.
LEMMA CutRested ==
  ASSUME NEW s, Rested(s), NEW t, NEW v, CutTo(s, t, v), t.full = s.full, t.timer = s.timer
  PROVE  Rested(t)
<1>1. Own(t) = Own(s) /\ Fenced(t) = Fenced(s) /\ Queued(t) = Queued(s) /\ Accepts(t) = Accepts(s)
  BY DEF CutTo, Own, Fenced, Queued, Accepts
<1>2. Sendable(t) = Sendable(s)
  BY <1>1 DEF CutTo, Sendable, MostUnits, Room
<1>3. Pumped(t)
  BY <1>1, <1>2 DEF Rested, Pumped, CutTo
<1>4. Armed(t) /\ Exited(t)
  BY <1>1 DEF Rested, Armed, Exited, CutTo
<1> QED
  BY <1>3, <1>4 DEF Rested

LEMMA LostEasy ==
  ASSUME NEW s, NEW c, Good(s, c), Easy(s, c), NEW b, b.phase \in {"none", "ended", "gone"}
  PROVE  Easy(Cut(s, <<>>), b)
<1>1. s \in Relay /\ Sound(s, c) /\ Rested(s)
  BY DEF Good, LedgerOK, Easy
<1>2. PICK t, v : t = Cut(s, v) /\ v = <<>>
  OBVIOUS
<1>3. CutTo(s, t, v) /\ t.full = s.full /\ t.timer = s.timer
  BY <1>1, <1>2, EmptySeq, CutFacts, CutMore
<1>4. Posted(t) = {}
  BY <1>2, <1>3, EmptySeq DEF Posted, Range, CutTo
<1>5. Sealing(t) /\ Forsaken(t) /\ InReach(t) /\ (t.full => t.open)
  BY <1>1, <1>3 DEF Sound, Sealing, Forsaken, InReach, CutTo
<1>6. Answering(t, b) /\ Telling(t, b)
  BY <1>4 DEF Answering, Telling, Listens
<1>7. Mending(t, b)
  <2>1. ~Mends(t, b) /\ ~Lives(t, b)
    BY <1>4 DEF Mends, Lives, Posts
  <2>2. Own(t) = Own(s)
    BY <1>3 DEF Own, CutTo
  <2> QED
    BY <1>1, <1>3, <2>1, <2>2 DEF Mending, Sound, CutTo
<1>8. Rested(t)
  BY <1>1, <1>3, CutRested
<1> QED
  BY <1>2, <1>5, <1>6, <1>7, <1>8 DEF Easy, Sound

\* The phase and the delivery of a client that has received a frame.
Reads(c, m, b) ==
  /\ b.phase = "attaching" =>
       c.phase = "attaching" /\ m.kind \notin {"opened", "pending", "restore", "exit"}
  /\ b.phase = "recovering" =>
       \/ m.kind = "pending" /\ b.tok = m.tok
       \/ /\ c.phase = "recovering" /\ b.tok = c.tok
          /\ ~(m.kind = "complete" /\ m.tok = c.tok) /\ m.kind # "exit"
  /\ b.phase = "live" =>
       \/ m.kind = "opened" /\ b.tok = m.tok
       \/ c.phase = "live" /\ b.tok = c.tok /\ m.kind # "exit"
       \/ m.kind = "complete" /\ c.phase = "recovering" /\ b.tok = c.tok /\ m.tok = c.tok

LEMMA ReadsOK ==
  ASSUME NEW c \in Client, NEW m \in Frames, NEW b, b = Received(c, m)
  PROVE  Reads(c, m, b)
<1>0. m.kind \in {"opened", "pending", "data", "complete", "restore", "exit"}
  BY FrameFacts
<1>1. CASE m.kind \in {"opened", "pending"}
  <2>1. b = [c EXCEPT !.phase = IF m.kind = "opened" THEN "live" ELSE "recovering",
                      !.tok = m.tok, !.next = m.start, !.upto = m.upto, !.ends = {m.start}]
    BY <1>1 DEF Received
  <2>2. b.phase = (IF m.kind = "opened" THEN "live" ELSE "recovering") /\ b.tok = m.tok
    BY <2>1 DEF Client
  <2> QED
    BY <1>1, <2>2 DEF Reads
<1>2. CASE m.kind = "restore"
  <2>1. b = [c EXCEPT !.phase = "none", !.ckpt = NoCheckpoint]
    BY <1>2 DEF Received
  <2>2. b.phase = "none"
    BY <2>1 DEF Client
  <2> QED
    BY <2>2 DEF Reads
<1>3. CASE m.kind = "data"
  <2>1. \/ b = c
        \/ b = [c EXCEPT !.bad = @ \/ m.start # c.next, !.next = m.end, !.ends = @ \cup {m.end}]
    BY <1>3 DEF Received
  <2>2. b.phase = c.phase /\ b.tok = c.tok
    BY <2>1 DEF Client
  <2> QED
    BY <1>3, <2>2 DEF Reads
<1>4. CASE m.kind = "complete"
  <2>1. CASE m.tok = c.tok /\ c.phase = "recovering"
    <3>1. b = [c EXCEPT !.bad = @ \/ c.next # c.upto, !.phase = "live"]
      BY <1>4, <2>1 DEF Received
    <3>2. b.phase = "live" /\ b.tok = c.tok
      BY <3>1 DEF Client
    <3> QED
      BY <1>4, <2>1, <3>2 DEF Reads
  <2>2. CASE ~(m.tok = c.tok /\ c.phase = "recovering")
    <3>1. b = c
      BY <1>4, <2>2 DEF Received
    <3> QED
      BY <1>4, <2>2, <3>1 DEF Reads
  <2> QED
    BY <2>1, <2>2
<1>5. CASE m.kind = "exit"
  <2>1. b = [c EXCEPT !.phase = IF @ = "live" \/ (@ = "recovering" /\ c.next = c.upto)
                                THEN "ended" ELSE "gone"]
    BY <1>5 DEF Received
  <2>2. b.phase \in {"ended", "gone"}
    BY <2>1 DEF Client
  <2> QED
    BY <2>2 DEF Reads
<1> QED
  BY <1>0, <1>1, <1>2, <1>3, <1>4, <1>5

\* The frame received is accounted for by what the client becomes.
LEMMA ReceiveEasy ==
  ASSUME NEW s, NEW c, Good(s, c), Easy(s, c), s.wire # <<>>,
         NEW b, b = Received(c, Head(s.wire)), NEW t, t = Cut(s, Tail(s.wire))
  PROVE  Easy(t, b)
<1>1. s \in Relay /\ s.wire \in Seq(Frames) /\ c \in Client /\ Sound(s, c) /\ Rested(s)
      /\ Responses(s.wire, c)
  BY DEF Good, LedgerOK, ClientOK, WireOK, Relay, Easy
<1>2. PICK w, v, n, m : w = s.wire /\ v = Tail(w) /\ n = Len(w) - 1 /\ m = w[1]
  OBVIOUS
<1>3. Shifts(w, v, n) /\ Head(w) = m /\ m \in Frames
  BY <1>1, <1>2, TailFacts
<1>4. /\ n \in Nat /\ DOMAIN w = 1..n + 1 /\ DOMAIN v = 1..n /\ v \in Seq(Frames)
      /\ \A i \in 1..n : v[i] = w[i + 1] /\ i + 1 \in 1..n + 1 /\ 1 \in 1..(i + 1) - 1
  BY <1>3 DEF Shifts
<1>5. CutTo(s, t, v) /\ t.full = s.full /\ t.timer = s.timer
  BY <1>1, <1>2, <1>4, CutFacts, CutMore
<1>6. Reads(c, m, b)
  BY <1>1, <1>2, <1>3, ReadsOK
<1>7. Posted(t) \subseteq Posted(s) /\ m \in Posted(s) /\ Posted(s) \subseteq Posted(t) \cup {m}
  <2>1. ASSUME NEW f \in Posted(t) PROVE f \in Posted(s)
    <3>1. PICK i \in 1..n : f = v[i]
      BY <1>4, <1>5 DEF Posted, Range, CutTo
    <3> QED
      BY <1>2, <1>4, <3>1 DEF Posted, Range
  <2>2. 1 \in 1..n + 1
    BY <1>4
  <2>3. ASSUME NEW f \in Posted(s), f # m PROVE f \in Posted(t)
    <3>1. PICK i \in 1..n + 1 : f = w[i]
      BY <1>2, <1>4 DEF Posted, Range
    <3>2. i # 1
      BY <1>2, <2>3, <3>1
    <3>3. i - 1 \in 1..n /\ (i - 1) + 1 = i
      BY <1>4, <3>1, <3>2
    <3>4. v[i - 1] = w[i]
      BY <1>4, <3>3
    <3> QED
      BY <1>4, <1>5, <3>1, <3>3, <3>4 DEF Posted, Range, CutTo
  <2> QED
    BY <1>2, <1>4, <2>1, <2>2, <2>3 DEF Posted, Range
\* Behind m there may be a response only if m is neither an exit nor of it.
<1>8. ASSUME NEW f \in Posted(t), f.kind \in {"opened", "pending", "restore"}
      PROVE  m.kind # "exit" /\ (m.kind = "complete" /\ f.kind # "restore" => m.tok # f.tok)
  <2>1. PICK i \in 1..n : f = v[i]
    BY <1>4, <1>5 DEF Posted, Range, CutTo
  <2>2. f = w[i + 1] /\ i + 1 \in DOMAIN w /\ 1 \in 1..(i + 1) - 1
    BY <1>4, <2>1
  <2> QED
    BY <1>1, <1>2, <1>8, <2>2 DEF Responses
<1>9. Sealing(t) /\ Forsaken(t) /\ InReach(t) /\ (t.full => t.open)
  BY <1>1, <1>5 DEF Sound, Sealing, Forsaken, InReach, CutTo
<1>10. Answering(t, b)
  BY <1>1, <1>6, <1>7 DEF Sound, Answering, Reads
<1>11. Telling(t, b)
  <2> SUFFICES ASSUME t.open, Ended(t), Listens(t, b)
               PROVE  \E f \in Posted(t) : f.kind = "exit"
    BY DEF Telling
  <2>1. s.open /\ Ended(s)
    BY <1>5 DEF CutTo, Ended, Own
  <2>2. Listens(s, c) /\ m.kind # "exit"
    <3>1. CASE b.phase \in {"recovering", "live"}
      BY <1>6, <1>7, <3>1 DEF Listens, Reads, Response
    <3>2. CASE \E f \in Posted(t) : Response(f)
      BY <1>7, <1>8, <3>2 DEF Listens, Response
    <3> QED
      BY <3>1, <3>2 DEF Listens
  <2> QED
    BY <1>1, <1>7, <2>1, <2>2 DEF Sound, Telling
<1>12. Mending(t, b)
  <2> SUFFICES ASSUME Own(t) PROVE Mending(t, b)
    BY DEF Mending
  <2>1. Own(s) /\ t.d = s.d /\ Mending(s, c)
    BY <1>1, <1>5 DEF CutTo, Own, Sound
  <2>2. ASSUME Mends(t, b)
        PROVE  Mends(s, c) /\ ~(m.kind = "complete" /\ m.tok = s.d.tok)
    <3>1. CASE b.phase = "recovering" /\ b.tok = s.d.tok
      BY <1>6, <1>7, <2>1, <3>1 DEF Reads, Mends, Posts
    <3>2. CASE Posts(t, "pending")
      BY <1>7, <1>8, <2>1, <3>2 DEF Mends, Posts
    <3> QED
      BY <2>1, <2>2, <3>1, <3>2 DEF Mends
  <2>3. Lives(t, b) => Lives(s, c)
    BY <1>6, <1>7, <2>1 DEF Reads, Lives, Posts
  <2>4. (s.d.completing \/ s.d.recEnd = None) /\ Mends(t, b) => Posts(t, "complete")
    BY <1>7, <2>1, <2>2 DEF Mending, Posts
  <2> QED
    BY <2>1, <2>3, <2>4 DEF Mending
<1>13. Rested(t)
  BY <1>1, <1>5, CutRested
<1> QED
  BY <1>9, <1>10, <1>11, <1>12, <1>13 DEF Easy, Sound


-----------------------------------------------------------------------------
(* Every step leaves the delivery pumped, and the client and it in agreement.*)

LEMMA InitProgress == Init => Progress
<1> SUFFICES ASSUME Init PROVE Progress
  OBVIOUS
<1>1. /\ relay.d = NoDelivery /\ relay.conn = 1 /\ relay.open = TRUE /\ relay.full = FALSE
      /\ relay.made = 0 /\ relay.taken = 0 /\ relay.exit = "no" /\ relay.faulted = FALSE
      /\ relay.wire = <<>> /\ client.phase = "none"
  BY DEF Init
<1>2. Posted(relay) = {}
  BY <1>1, EmptySeq DEF Posted, Range
<1>3. ~Own(relay) /\ ~Queued(relay)
  BY <1>1, NoDeliveryFacts DEF Own, Queued
<1>4. Sealing(relay) /\ Forsaken(relay) /\ InReach(relay) /\ (relay.full => relay.open)
  BY <1>1, NoDeliveryFacts DEF Sealing, Forsaken, InReach
<1>5. Answering(relay, client) /\ Telling(relay, client) /\ Mending(relay, client)
  BY <1>1, <1>2, <1>3 DEF Answering, Telling, Listens, Mending
<1>6. Pumped(relay) /\ Armed(relay) /\ Exited(relay)
  BY <1>1, <1>3 DEF Pumped, Armed, Exited
<1> QED
  BY <1>4, <1>5, <1>6 DEF Progress, Sound, Rested

\* A callback of the relay.
LEMMA RelayEasy ==
  ASSUME Easy(relay', client), UNCHANGED client
  PROVE  Progress'
BY DEF Easy, Progress

LEMMA RelayNextEasy ==
  ASSUME IInv, Progress, Wide = {}, RelayNext
  PROVE  Progress'
<1>1. /\ Ready(relay, client) /\ Calm(relay, client) /\ relay \in Relay /\ relay.made \in Nat
      /\ relay.timer \in BOOLEAN /\ relay.full \in BOOLEAN /\ Told(relay) /\ Offsets(relay)
      /\ (relay.full => relay.open)
  BY DEF IInv, Calm, Ready, Easy, Progress, Sound, Good, LedgerOK, Relay, Rest
<1>2. CASE PtyOutput
  <2>1. /\ NextEnd(relay.made) \in Nat /\ relay.exit = "no"
    BY <1>1, <1>2, NextEndOK, EndsOK DEF PtyOutput
  <2>2. relay' = Refilled(relay, NextEnd(relay.made), TRUE, relay.full)
    BY <1>1, <1>2 DEF PtyOutput, Become, Refilled, Relay
  <2>3. PICK b \in BOOLEAN : b = TRUE
    OBVIOUS
  <2>4. Easy(Refilled(relay, NextEnd(relay.made), b, relay.full), client)
    BY <1>1, <2>1, <2>3, RefilledEasy
  <2> QED
    BY <1>2, <2>2, <2>3, <2>4, RelayEasy DEF PtyOutput, Become
<1>3. CASE Flush
  BY <1>1, <1>3, FlushEasy, RelayEasy DEF Flush, FlushDue, Become
<1>4. CASE PtyExit
  BY <1>1, <1>4, ExitNowEasy, RelayEasy DEF PtyExit, Become
<1>5. CASE SettleData
  BY <1>1, <1>5, SettleDataEasy, RelayEasy DEF SettleData, DataWritten, Become
<1>6. CASE SettleExit
  BY <1>1, <1>6, SettleExitEasy, RelayEasy DEF SettleExit, ExitWritten, Become
<1>7. CASE SettleComplete
  BY <1>1, <1>7, SettleCompleteEasy, RelayEasy DEF SettleComplete, CompleteWritten, Become
<1>8. CASE SettleResponse
  BY <1>1, <1>8, SettleResponseEasy, RelayEasy DEF SettleResponse, ResponseWritten, Become
<1>9. CASE QueueFills
  <2>1. relay' = Refilled(relay, relay.made, relay.timer, TRUE) /\ relay.open
    BY <1>1, <1>9 DEF QueueFills, Refilled, Relay
  <2>2. PICK b \in BOOLEAN : b = TRUE
    OBVIOUS
  <2>3. Easy(Refilled(relay, relay.made, relay.timer, b), client)
    BY <1>1, <2>1, <2>2, RefilledEasy
  <2> QED
    BY <1>9, <2>1, <2>2, <2>3, RelayEasy DEF QueueFills
<1>10. CASE QueueDrains
  <2>1. PICK t : t = Refilled(relay, relay.made, relay.timer, FALSE)
    OBVIOUS
  <2>2. [relay EXCEPT !.full = FALSE] = t
    BY <1>1, <2>1 DEF Refilled, Relay
  <2>3. Easy(CapacitySignal(t), client)
    BY <1>1, <2>1, DrainsEasy
  <2> QED
    BY <1>10, <2>2, <2>3, RelayEasy DEF QueueDrains, Become
<1>11. CASE GraceExpires
  <2>1. Holds(relay, client) /\ ~relay.draining /\ ~Owned(relay)
    BY <1>1, <1>11, ReadyHolds DEF GraceExpires, Orphaned, Owned
  <2> QED
    BY <1>11, <2>1, GiveUpEasy, RelayEasy DEF GraceExpires, Become
<1>12. CASE RelayCloses
  BY <1>1, <1>12, ClosedEasy, RelayEasy DEF RelayCloses, Become
<1> QED
  BY <1>2, <1>3, <1>4, <1>5, <1>6, <1>7, <1>8, <1>9, <1>10, <1>11, <1>12 DEF RelayNext

LEMMA ClientNextEasy ==
  ASSUME IInv, Progress, Wide = {}, ClientNext
  PROVE  Progress'
<1>1. /\ Ready(relay, client) /\ Calm(relay, client) /\ Good(relay, client) /\ Easy(relay, client)
      /\ Sound(relay, client) /\ Rested(relay) /\ relay \in Relay /\ client \in Client
  BY DEF IInv, Calm, Ready, Easy, Progress, Good, LedgerOK, ClientOK
<1>2. /\ client.ckpt \in [tok : Nat, end : Nat] /\ NoCheckpoint \in [tok : Nat, end : Nat]
      /\ client.tok \in Nat /\ client.next \in Nat /\ client.upto \in Nat
      /\ client.ends \in SUBSET Nat /\ client.ends \subseteq Nat
  BY <1>1 DEF Client, NoCheckpoint
<1>3. CASE Connect
  <2>1. PICK s : s = IF relay.open THEN Closed(relay) ELSE relay
    OBVIOUS
  <2>2. Calm(s, client) /\ ~s.open /\ Easy(s, client)
    BY <1>1, <2>1, ClosedOK, ClosedEasy
  <2>3. Good(s, client) /\ s \in Relay
    BY <2>2 DEF Calm, Good, LedgerOK
  <2>4. ~client.up /\ client'.phase = client.phase
    BY <1>1, <1>3 DEF Connect, Client
  <2>5. Easy(Renewal(s, s.conn + 1), client')
    BY <2>2, <2>3, <2>4, ConnectedEasy
  <2>6. relay' = Renewal(s, s.conn + 1)
    BY <1>3, <2>1, <2>3 DEF Connect, Renewal, Relay
  <2> QED
    BY <2>5, <2>6 DEF Easy, Progress
<1>4. CASE ClientLost
  <2>1. PICK phase, ckpt :
           /\ phase = IF client.phase \in {"ended", "gone"} THEN client.phase ELSE "none"
           /\ ckpt = IF client.phase = "live" THEN [tok |-> client.tok, end |-> client.next] ELSE client.ckpt
    OBVIOUS
  <2>2. client' = [client EXCEPT !.up = FALSE, !.phase = phase, !.ckpt = ckpt]
    <3>1. client' = [client EXCEPT !.up = FALSE,
             !.phase = IF client.phase \in {"ended", "gone"} THEN client.phase ELSE "none",
             !.ckpt = IF client.phase = "live"
                      THEN [tok |-> client.tok, end |-> client.next] ELSE client.ckpt]
      BY <1>1, <1>4 DEF ClientLost, Client
    <3> QED
      BY <2>1, <3>1
  <2>3. client'.phase \in {"none", "ended", "gone"}
    BY <1>1, <2>1, <2>2 DEF Client
  <2>4. Easy(Cut(relay, <<>>), client')
    BY <1>1, <2>3, LostEasy
  <2>5. relay' = Cut(relay, <<>>)
    BY <1>4 DEF ClientLost, Cut
  <2> QED
    BY <2>4, <2>5 DEF Easy, Progress
<1>5. CASE Receive
  <2>1. /\ relay.wire # <<>> /\ client' = Received(client, Head(relay.wire))
        /\ relay' = Cut(relay, Tail(relay.wire))
    BY <1>1, <1>5 DEF Receive, Cut, Relay
  <2>2. Easy(relay', client')
    BY <1>1, <2>1, ReceiveEasy
  <2> QED
    BY <2>2 DEF Easy, Progress
<1>6. CASE Ack
  <2>1. PICK end \in client.ends : MayAck(end) /\ Become(Acknowledged(relay, end))
    BY <1>6 DEF Ack
  <2>2. end \in Nat /\ Own(relay)
    BY <1>2, <2>1 DEF MayAck
  <2> QED
    BY <1>1, <2>1, <2>2, AcknowledgedEasy, RelayEasy DEF Become
<1>7. CASE AbandonRecovery
  <2>1. PICK b : b = [client EXCEPT !.phase = "none", !.ckpt = NoCheckpoint]
    OBVIOUS
  <2>2. b = Turned(client, "none", client.tok, client.next, client.upto, client.ends, NoCheckpoint)
    BY <1>1, <2>1 DEF Turned, Client
  <2>3. Turns(client, b, "none", client.tok, client.next, client.upto, client.ends)
    BY <1>1, <1>2, <2>2, TurnedFacts DEF Phases
  <2>4. Calm(relay, b) /\ Silent(relay, b) /\ b.phase = "none"
    BY <1>1, <1>7, <2>3, PhasedOK DEF AbandonRecovery
  <2>5. Easy(relay, b) /\ Ready(relay, b)
    BY <1>1, <2>4, SilencedSound DEF Easy, Ready
  <2>6. Easy(Canceled(relay), b)
    BY <2>4, <2>5, CanceledEasy
  <2>7. client' = b /\ relay' \in {relay, Canceled(relay)}
    BY <1>7, <2>1 DEF AbandonRecovery
  <2> QED
    BY <2>5, <2>6, <2>7 DEF Easy, Progress
<1>8. CASE AttachExited
  <2>1. client'.phase = "gone" /\ relay' = relay
    BY <1>1, <1>8 DEF AttachExited, Client
  <2> QED
    BY <1>1, <2>1, SilencedSound DEF Progress
<1>9. PICK b : b = [client EXCEPT !.phase = "attaching"]
  OBVIOUS
<1>10. CASE AttachOpen
  <2>1. /\ Calm(relay, b) /\ b.phase = "attaching" /\ relay.open /\ relay.exit = "no" /\ Plain(relay)
    BY <1>9, <1>10, AttachingOK DEF AttachOpen
  <2>2. Easy(Opened(relay), b)
    BY <1>1, <1>10, <2>1, OpenedEasy DEF AttachOpen
  <2>3. relay' = Opened(relay) /\ client' = b
    BY <1>9, <1>10 DEF AttachOpen, Respond
  <2> QED
    BY <2>2, <2>3 DEF Easy, Progress
<1>11. CASE AttachRotate
  <2>1. /\ Calm(relay, b) /\ b.phase = "attaching" /\ relay.open /\ relay.exit = "no" /\ Plain(relay)
    BY <1>9, <1>11, AttachingOK DEF AttachRotate
  <2>2. Easy(Rotated(relay, client.ckpt.end), b)
    BY <1>1, <1>2, <1>11, <2>1, RotatedEasy DEF AttachRotate
  <2>3. relay' = Rotated(relay, client.ckpt.end) /\ client' = b
    BY <1>9, <1>11 DEF AttachRotate, Respond
  <2> QED
    BY <2>2, <2>3 DEF Easy, Progress
<1>12. CASE AttachRestore
  <2>1. /\ Calm(relay, b) /\ b.phase = "attaching" /\ relay.open /\ relay.exit = "no" /\ Plain(relay)
    BY <1>9, <1>12, AttachingOK DEF AttachRestore
  <2>2. Easy(Restored(relay), b)
    BY <1>1, <1>12, <2>1, RestoredEasy DEF AttachRestore, CanAttach
  <2>3. relay' = Restored(relay) /\ client' = b
    BY <1>9, <1>12 DEF AttachRestore, Respond
  <2> QED
    BY <2>2, <2>3 DEF Easy, Progress
<1> QED
  BY <1>3, <1>4, <1>5, <1>6, <1>7, <1>8, <1>10, <1>11, <1>12 DEF ClientNext

\* Both hold in every state, where no cut splits a surrogate pair.
LEMMA ProgressAlways ==
  ASSUME Wide = {}
  PROVE  Spec => [](IInv /\ Progress)
<1>1. Init => IInv /\ Progress
  BY InitOK, InitProgress
<1>2. IInv /\ Progress /\ [Next]_vars => Progress'
  <2>1. ASSUME Progress, UNCHANGED vars PROVE Progress'
    BY <2>1 DEF vars, Progress
  <2> QED
    BY <2>1, RelayNextEasy, ClientNextEasy DEF Next
<1> QED
  BY <1>1, <1>2, Inductive, PTL DEF Spec


-----------------------------------------------------------------------------
(* Nobody waits for what nobody will do. *)

\* A chunk fits the output that may be retained: a flush takes at most
\* PTY_OUTPUT_FLUSH_CHUNK_CHARS, and DEFAULT_RETAINED_SOURCE_SU is larger.
ChunksFit == \A p \in {0} \cup Ends : p < Max(Ends) => NextEnd(p) - p <= Retain

\* The client is owed the relay's answer, the end of its recovery, output, or
\* the exit.
Owed ==
    \/ client.phase \in {"attaching", "recovering"}
    \/ client.phase = "live" /\ (client.next < relay.made \/ relay.exit # "no")

\* An event is due that FairSpec does not let wait for ever.
Due ==
    \/ relay.wire # <<>> \/ ~relay.open \/ FlushDue
    \/ DataWritten \/ ExitWritten \/ CompleteWritten \/ ResponseWritten
    \/ QueueFull \/ Orphaned \/ MayAck(client.next)

\* While a client is owed something, an event is due, or a frame of its
\* delivery was refused and nothing has pumped the delivery since.
NeverStuck == Owed => Due \/ relay.d.refused

\* The owner's delivery when nothing is due.
LEMMA Idle ==
  ASSUME IInv, Progress, ~Due, Owned(relay), Told(relay), relay.exit # "done",
         client.phase \in {"recovering", "live"}, client.tok = relay.d.tok
  PROVE  /\ Own(relay) /\ relay.d.st \in {"active", "sealed"} /\ relay.d.exitSt = "idle"
         /\ relay.d.pend = None /\ relay.d.resAck = None
         /\ ~relay.d.activating /\ ~relay.d.completing
         /\ client.next = relay.d.sent /\ relay.d.tok # 0
<1>1. /\ LedgerOK(relay) /\ relay \in Relay /\ relay.d \in Ledger /\ client \in Client
      /\ Joined(relay, client)
  BY DEF IInv, Good, LedgerOK, ClientOK, Relay
<1>2. Own(relay) /\ relay.open /\ relay.wire = <<>>
  BY DEF Owned, Due
<1>3. /\ relay.d.pend = None /\ relay.d.exitSt # "pending" /\ ~relay.d.completing
      /\ ~relay.d.activating
  BY <1>2 DEF Due, DataWritten, ExitWritten, CompleteWritten, ResponseWritten
<1>4. relay.d.exitSt = "idle"
  BY <1>1, <1>3 DEF Told, Ledger, ExitSts
<1>5. relay.d.st \in {"active", "sealed"}
  BY <1>1, <1>4 DEF Owned, Ledger, Stages
<1>6. relay.d.resAck = None
  BY <1>1, <1>2, <1>3 DEF LedgerOK, Ahead
<1>7. client.next = relay.d.sent
  <2>1. Reaches(<<>>, client, relay.d.tok, 0, relay.d.sent)
    BY <1>1, <1>2, <1>3, EmptySeq DEF Joined, Edge
  <2> QED
    BY <2>1 DEF Reaches, Follows
<1> QED
  BY <1>1, <1>2, <1>3, <1>4, <1>5, <1>6, <1>7, OwnTok

\* Nothing is due only where the window is closed or all is sent.
LEMMA IdleSent ==
  ASSUME IInv, Progress, Own(relay), relay.d.st \in {"active", "sealed"}, ~relay.d.refused,
         relay.d.pend = None, relay.d.resAck = None, ~relay.d.activating, ~relay.d.completing
  PROVE  ~Fenced(relay) /\ (relay.d.sent < relay.d.recv => Room(relay) <= 0)
<1>1. relay \in Relay /\ relay.d \in Ledger
  BY DEF IInv, Good, LedgerOK, Relay
<1>2. /\ relay.d.sent \in Nat /\ relay.d.cred \in Nat /\ relay.d.recv \in Nat
  BY <1>1 DEF Ledger
<1>3. Pumped(relay)
  BY DEF Progress, Rested
<1>4. ~Fenced(relay) /\ ~Sendable(relay)
  BY <1>3 DEF Pumped
<1>5. PICK room \in Int : room = Room(relay)
  BY <1>2, Limits DEF Room
<1>6. MostUnits(relay) = Min({room, FrameMax})
  BY <1>5 DEF MostUnits
<1>7. MostUnits(relay) = IF room <= FrameMax THEN room ELSE FrameMax
  BY <1>6, MinTwo, Limits
<1>8. room > 0 => MostUnits(relay) > 0
  BY <1>7, Limits
<1>9. relay.d.sent < relay.d.recv => ~(room > 0)
  BY <1>4, <1>8 DEF Sendable
<1> QED
  BY <1>4, <1>5, <1>9

LEMMA NeverStuckState ==
  ASSUME IInv, Progress, ChunksFit
  PROVE  NeverStuck
<1> SUFFICES ASSUME Owed, ~Due, ~relay.d.refused PROVE FALSE
  BY DEF NeverStuck
<1>1. /\ Good(relay, client) /\ LedgerOK(relay) /\ relay \in Relay /\ relay.d \in Ledger
      /\ client \in Client /\ ClientOK(relay, client) /\ Offsets(relay) /\ Recovery(relay)
      /\ Audience(relay, client) /\ ~relay.draining /\ Told(relay)
      /\ Sound(relay, client) /\ Rested(relay)
  BY DEF IInv, Rest, Progress, Good, LedgerOK, ClientOK, Relay
<1>2. /\ relay.d.sent \in Nat /\ relay.d.cred \in Nat /\ relay.d.recv \in Nat /\ relay.taken \in Nat
      /\ relay.made \in Nat /\ relay.d.recEnd \in Nat \cup {None} /\ client.next \in Nat
      /\ relay.exit \in {"no", "pending", "done"} /\ client.tok \in Nat
  BY <1>1 DEF Relay, Ledger, Client, Optional
<1>3. relay.wire = <<>> /\ relay.open /\ ~relay.full /\ ~FlushDue
  BY DEF Due, QueueFull
<1>4. Posted(relay) = {}
  BY <1>3, EmptySeq DEF Posted, Range
<1>5. client.phase \in {"recovering", "live"}
  <2>1. client.phase # "attaching"
    BY <1>1, <1>4 DEF Sound, Answering
  <2> QED
    BY <2>1 DEF Owed
<1>6. relay.exit # "done"
  BY <1>1, <1>3, <1>4, <1>5 DEF Sound, Telling, Ended, Listens
<1>7. ~(Queued(relay) /\ Accepts(relay))
  BY <1>1, <1>3 DEF Rested, Armed, FlushDue
<1>8. ~relay.faulted
  <2> SUFFICES ASSUME relay.faulted PROVE FALSE
    OBVIOUS
  <2>1. relay.d.tok = 0 /\ relay.exit = "pending"
    BY <1>1, <1>2, <1>6 DEF Sound, Forsaken
  <2>2. Accepts(relay)
    BY <2>1 DEF Accepts
  <2>3. ~Queued(relay)
    BY <1>7, <2>2
  <2> QED
    BY <1>1, <1>3, <2>1, <2>3 DEF Rested, Exited
<1>9. Owned(relay) /\ client.tok = relay.d.tok
  <2>1. Hears(relay.wire, client, client.tok, Len(relay.wire))
    BY <1>5 DEF Hears, Follows
  <2> QED
    BY <1>1, <1>2, <1>3, <1>6, <1>8, <2>1 DEF Audience, Loose
<1>10. /\ Own(relay) /\ relay.d.st \in {"active", "sealed"} /\ relay.d.exitSt = "idle"
       /\ relay.d.pend = None /\ relay.d.resAck = None
       /\ ~relay.d.activating /\ ~relay.d.completing
       /\ client.next = relay.d.sent /\ relay.d.tok # 0
  BY <1>1, <1>5, <1>6, <1>9, Idle
<1>11. ~Fenced(relay) /\ (relay.d.sent < relay.d.recv => Room(relay) <= 0)
  BY <1>10, IdleSent
<1>12. CASE client.phase = "recovering"
  <2>1. relay.d.recEnd # None
    <3>1. Mends(relay, client)
      BY <1>9, <1>12 DEF Mends
    <3> QED
      BY <1>1, <1>4, <1>10, <3>1 DEF Sound, Mending, Posts
  <2>2. /\ relay.d.sent < relay.d.recEnd /\ relay.d.recEnd <= relay.d.recv
        /\ relay.d.recEnd <= relay.d.cred + Window /\ relay.d.recEnd \in Nat
    BY <1>1, <1>2, <1>11, <2>1 DEF Fenced, Recovery, Sound, InReach
  <2> QED
    BY <1>2, <1>11, <2>2, Limits DEF Room
<1>13. CASE client.phase = "live"
  <2>1. relay.d.recEnd = None
    <3>1. Lives(relay, client)
      BY <1>9, <1>13 DEF Lives
    <3> QED
      BY <1>1, <1>10, <3>1 DEF Sound, Mending
  <2>2. relay.d.sent <= relay.d.cred
    <3>1. client.up /\ ~MayAck(client.next)
      BY <1>1, <1>13 DEF ClientOK, Due, Client
    <3>2. relay.d.resAck # client.next
      BY <1>2, <1>10 DEF None
    <3> QED
      BY <1>2, <1>9, <1>10, <1>13, <3>1, <3>2 DEF MayAck
  <2>3. relay.d.cred = relay.d.sent /\ relay.d.sent <= relay.d.recv /\ relay.d.recv = relay.taken
    BY <1>1, <1>2, <1>10, <2>2 DEF Offsets
  <2>4. relay.d.sent = relay.taken
    BY <1>2, <1>11, <2>3, Limits DEF Room
  <2>5. relay.taken = relay.made
    <3> SUFFICES ASSUME relay.taken # relay.made PROVE FALSE
      OBVIOUS
    <3>1. /\ relay.taken < relay.made /\ relay.taken \in {0} \cup Ends /\ relay.taken < Max(Ends)
      BY <1>1, <1>2, EndsOK DEF Offsets
    <3>2. relay.d.st = "active"
      BY <1>1, <1>10, <3>1 DEF Sound, Sealing
    <3>3. NextEnd(relay.taken) - relay.d.cred <= Retain
      BY <2>3, <2>4, <3>1 DEF ChunksFit
    <3>4. Queued(relay) /\ Accepts(relay)
      BY <1>1, <2>1, <3>1, <3>2, <3>3 DEF Queued, Accepts
    <3> QED
      BY <1>7, <3>4
  <2>6. relay.exit = "pending"
    BY <1>2, <1>6, <1>10, <1>13, <2>4, <2>5 DEF Owed
  <2>7. ~Queued(relay)
    BY <1>2, <2>5 DEF Queued
  <2>8. relay.d.exitSt = "pending" \/ (relay.d.st = "sealed" /\ relay.d.sent < relay.d.recv)
    BY <1>1, <1>3, <1>10, <2>6, <2>7 DEF Rested, Exited
  <2> QED
    BY <1>2, <1>10, <2>3, <2>4, <2>8
<1> QED
  BY <1>5, <1>12, <1>13

\* The terminal never leaves a client waiting for output, the end of its
\* recovery or the exit with nothing under way, for every output, window and
\* number of reconnections: no credit, capacity call, timer or settlement that
\* the handler, the scheduler and the ledger rely on is forgotten.  A cut must
\* not split a surrogate pair, since the fault that follows is swallowed by an
\* acknowledgment, and a chunk must fit the retained output.
THEOREM NeverStuckHolds ==
  ASSUME Wide = {}, ChunksFit
  PROVE  Spec => []NeverStuck
<1>1. IInv /\ Progress => NeverStuck
  BY NeverStuckState
<1> QED
  BY <1>1, ProgressAlways, PTL

=============================================================================
