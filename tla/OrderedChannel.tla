--------------------------- MODULE OrderedChannel ---------------------------
(***************************************************************************)
(* What each direction of the federation relay promises: the receiver      *)
(* takes every item once, in the order the sender queued them.  The one    *)
(* liberty is the sender's: a heartbeat that is still queued may be        *)
(* rewritten in place (a report takes its sequence number when the queue   *)
(* is full), so an item is the set of its versions, and the receiver takes *)
(* one of them, once.                                                      *)
(***************************************************************************)
EXTENDS Naturals, Sequences

VARIABLES sent,      \* the versions of each item, by sequence number
          received   \* what the receiver took, in order

ChannelInit == sent = <<>> /\ received = <<>>

Send ==
  /\ Len(sent') = Len(sent) + 1
  /\ SubSeq(sent', 1, Len(sent)) = sent
  /\ UNCHANGED received

Rewrite ==
  /\ \E i \in DOMAIN sent : sent' = [sent EXCEPT ![i] = sent'[i]] /\ sent[i] \subseteq sent'[i]
  /\ UNCHANGED received

Receive ==
  /\ Len(received') \in Len(received) .. Len(sent)
  /\ SubSeq(received', 1, Len(received)) = received
  /\ \A i \in Len(received) + 1 .. Len(received') : received'[i] \in sent[i]
  /\ UNCHANGED sent

ChannelNext == Send \/ Rewrite \/ Receive

ChannelSpec == ChannelInit /\ [][ChannelNext]_<<sent, received>>
=============================================================================
