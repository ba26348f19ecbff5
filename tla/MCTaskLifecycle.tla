--------------------------- MODULE MCTaskLifecycle ---------------------------
(* Finite instances of TaskLifecycle for TLC: Attempts.cfg and Graph.cfg, and
   the smallest instances that show each disagreement of code and docs. *)
EXTENDS TaskLifecycle, TLC

=============================================================================
