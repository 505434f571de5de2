------------------------------ MODULE MCZbBoot ------------------------------
(***************************************************************************)
(* Model-checking instances of ZbBoot: a and b run from slot 0, b is the   *)
(* newer one, c runs from slot 1, r from RAM; x has no valid signature.    *)
(* A configuration chooses among them.                                     *)
(***************************************************************************)
EXTENDS ZbBoot

CONSTANTS a, b, c, r, x, RamEncrypted

MCLoadAt == [i \in Image |-> IF i = r THEN "ram" ELSE IF i = c THEN "slot1" ELSE "slot0"]
MCEncrypted == Image \cap ({a, c} \cup (IF RamEncrypted THEN {r} ELSE {}))
MCGenuine == Image \ {x}
MCVersion == [i \in Image |-> IF i \in {b, r} THEN 2 ELSE 1]
=============================================================================
