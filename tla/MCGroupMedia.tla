---------------------------- MODULE MCGroupMedia ----------------------------
(* The instance of GroupMedia for TLC: its constants are in GroupMedia.cfg. *)
EXTENDS GroupMedia
=============================================================================
