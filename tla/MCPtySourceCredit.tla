-------------------------- MODULE MCPtySourceCredit --------------------------
(* Small PTYs for TLC. *)
EXTENDS PtySourceCredit

ThreeChunks == <<1, 3, 4>>
OneEmoji == <<3>>
=============================================================================
