------------------------------- MODULE ZbSwap -------------------------------
(***************************************************************************)
(* A swap as zb_img_swap counts on it: whatever happens on the way, the    *)
(* contents of the slots are exchanged at once, as far as anybody can tell *)
(* who reads the swap status area; then the parameters are written and     *)
(* slt1end is erased.  ZbMove carries this out sector by sector; ZbBoot    *)
(* takes the exchange as one step.                                         *)
(***************************************************************************)
EXTENDS ZbContents

VARIABLES
  inplace,   \* the image of slot 1 stays there
  stage,     \* how far the swap has come
  slots      \* contents of slot 0 and 1

Init == inplace \in BOOLEAN /\ stage = "exchange" /\ slots \in [Slot -> Contents]

ExchangeSectors ==
  /\ stage = "exchange" /\ stage' = "P3"
  /\ slots' = Exchanged(slots, inplace)
  /\ UNCHANGED inplace

Record(from, next) == stage = from /\ stage' = next /\ UNCHANGED <<slots, inplace>>

Next == ExchangeSectors \/ Record("P3", "P4") \/ Record("P4", "END")

Spec == Init /\ [][Next]_<<inplace, stage, slots>>
=============================================================================
