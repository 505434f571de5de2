------------------------------ MODULE MCZbMove ------------------------------
(***************************************************************************)
(* Model-checking instances of ZbMove: images a and b run from slot 0, c   *)
(* and d from slot 1 and r from RAM; all but b and d are encrypted.  Image *)
(* a is longer than b and r, so that either image of a swap can be the     *)
(* longer one.                                                             *)
(***************************************************************************)
EXTENDS ZbMoveSwap

CONSTANTS a, b, c, d, r

MCImage == {a, b, c, d, r}
MCSectors == [i \in MCImage |-> IF i = a THEN 3 ELSE IF i = r THEN 1 ELSE 2]
MCEncrypted == {a, c, r}
MCLoadAt == [i \in MCImage |->
               IF i = r THEN "ram" ELSE IF i \in {c, d} THEN "slot1" ELSE "slot0"]
MCVersion == [i \in MCImage |-> IF i = a THEN 2 ELSE 1]
MCSlotSectors == [s \in {0, 1} |-> 4]
=============================================================================
