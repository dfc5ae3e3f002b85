----------------------------- MODULE MCUnoTalk -----------------------------
(***************************************************************************)
(* Two clients, one of which may be started again, for TLC.                *)
(***************************************************************************)
EXTENDS UnoTalk
=============================================================================
