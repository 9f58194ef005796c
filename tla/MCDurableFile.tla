---------------------------- MODULE MCDurableFile ----------------------------
(* Instance of DurableFile for TLC: one completed save, two interrupted ones.  *)
EXTENDS DurableFile
=============================================================================
