----------------------------- MODULE MCZbStream -----------------------------
(* Model-checking instances of ZbStream; the constants are in the .cfg. *)
EXTENDS ZbStream

\* Up to three sectors, ending at every place in a block.
MCSizes == 1 .. 26
=============================================================================
