-------------------------- MODULE MCFederationRelay --------------------------
(***************************************************************************)
(* FederationRelay for TLC.  All its constants are numbers, given in the   *)
(* configurations.                                                         *)
(***************************************************************************)
EXTENDS FederationRelay
=============================================================================
