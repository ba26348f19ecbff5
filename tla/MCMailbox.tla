----------------------------- MODULE MCMailbox -----------------------------
(***************************************************************************)
(* Mailbox for TLC: panes are strings, and what may be bound is one of the *)
(* sets below.                                                             *)
(***************************************************************************)
EXTENDS Mailbox

\* The assignee gets a Run of its own, or takes the Dispatch's Run over.
Takeovers == {<<"B", "S">>, <<"B", "R">>}

\* The assignee gets a Run of its own; the coordinator binds again, from a
\* terminal with a new handle.
Rebinds == {<<"B", "S">>, <<"A", "R">>}
=============================================================================
