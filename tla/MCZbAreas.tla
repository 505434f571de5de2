----------------------------- MODULE MCZbAreas ------------------------------
(***************************************************************************)
(* Model-checking instance of ZbAreas: of three areas the last one is on a *)
(* device that is not there.                                               *)
(***************************************************************************)
EXTENDS ZbAreas, MCZbBoot

MCPresent == {1}
=============================================================================
