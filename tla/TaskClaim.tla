------------------------------ MODULE TaskClaim ------------------------------
(***************************************************************************)
(* What the dispatch tables promise a coordinator, without workers,        *)
(* terminals, stops or servers: "A Dispatch is one authoritative Task      *)
(* attempt" (src/skill-guides/orchestration.md).  A task is free or owned  *)
(* by one attempt; attempts are numbered as they are opened; only a free   *)
(* task is claimed, always by a newer attempt than any it ever had, so an  *)
(* attempt that lost its task never gets it back.                          *)
(***************************************************************************)
EXTENDS Naturals

CONSTANTS Tasks, MaxRows

Attempts == 1 .. MaxRows
Nobody   == 0

VARIABLES owner, \* the attempt that owns the task, or Nobody
          newest \* the last attempt that ever owned it, or Nobody

claims == <<owner, newest>>

Init == owner = [t \in Tasks |-> Nobody] /\ newest = [t \in Tasks |-> Nobody]

Claim(t) == \E a \in Attempts :
  /\ owner[t] = Nobody /\ a > newest[t]
  /\ owner'  = [owner  EXCEPT ![t] = a]
  /\ newest' = [newest EXCEPT ![t] = a]

Release(t) ==
  /\ owner[t] # Nobody
  /\ owner' = [owner EXCEPT ![t] = Nobody]
  /\ UNCHANGED newest

Next == \E t \in Tasks : Claim(t) \/ Release(t)

Spec == Init /\ [][Next]_claims

=============================================================================
