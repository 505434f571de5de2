----------------------------- MODULE MCZbCmdLog -----------------------------
(* Model-checking instance of ZbCmdLog; the constants are in the .cfg. *)
EXTENDS ZbCmdLog
=============================================================================
