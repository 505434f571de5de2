------------------------------ MODULE ZbAreas -------------------------------
(***************************************************************************)
(* Several slot areas: main() calls zb_img_swap for each, the last one in  *)
(* slot_map first, and then boots from slot_map[0].  That area is ZbBoot;  *)
(* of each other one only the stage is kept that zb_img_swap acts on, and  *)
(* a swap in it is two steps that a power failure can come between.        *)
(* Starting the images of the other areas is left to the one that was      *)
(* booted (docs/design.md), and so is asking for them to be exchanged.     *)
(***************************************************************************)
EXTENDS ZbBoot

CONSTANTS
  AreaCnt,   \* zb_slt_area_cnt
  Present    \* areas other than 0 whose devices device_get_binding finds

VARIABLES
  cnt,       \* the area that is handled
  other      \* stage of the swap in the areas other than 0

allvars == <<vars, cnt, other>>

ASSUME AreasAssumption ==
  /\ AreaCnt \in Nat \ {0}
  /\ Present \subseteq 1 .. AreaCnt - 1

(* Nothing asked; a request in slt1end for an image that zb_img_check       *)
(* accepts, or refuses; a command other than SWP_END in swpstat, of a       *)
(* request or of a restore; a temporary swap done, which main has seen      *)
(* (trial) or not (swapped); and SWP_PERM in slt1end.                       *)
Stages ==
  {"idle", "asked", "refused", "swapping", "restoring", "swapped", "trial", "confirmed"}

Stage(n) == cnt = n /\ n # 0 /\ pc = "start"

Turn(n, stage) == other' = [other EXCEPT ![n] = stage]

(* while ((cnt--) > 0): whatever an area returned, the next one follows.    *)
NextArea == cnt' = cnt - 1

-----------------------------------------------------------------------------
(* Slip: the loop ends with the first area that cannot be handled.          *)
SlipSkipArea(n) ==
  /\ Stage(n)
  /\ n \notin Present \/ other[n] \in {"idle", "refused"}
  /\ IF n \in Present THEN NextArea ELSE cnt' = 0
  /\ UNCHANGED <<vars, other>>

(* zb_slt_area_get fails, or zb_img_swap finds nothing to do.               *)
SkipArea(n) ==
  /\ Stage(n)
  /\ n \notin Present \/ other[n] \in {"idle", "refused"}
  /\ NextArea
  /\ UNCHANGED <<vars, other>>

(* zb_img_swap, stage by stage. *)
StartSwap(n) ==
  /\ Stage(n) /\ n \in Present
  /\ other[n] = "asked" /\ Turn(n, "swapping")
  /\ UNCHANGED <<vars, cnt>>

ConfirmArea(n) ==
  /\ Stage(n) /\ n \in Present
  /\ other[n] = "confirmed" /\ Turn(n, "idle")
  /\ NextArea
  /\ UNCHANGED vars

RestoreArea(n) ==
  /\ Stage(n) /\ n \in Present
  /\ other[n] \in {"swapped", "trial"} /\ Turn(n, "restoring")
  /\ UNCHANGED <<vars, cnt>>

(* The rest of zb_img_cmd_proc, resumed if need be; a swap that was asked   *)
(* for is permanent or not, one that restores always is.                    *)
FinishSwap(n) ==
  /\ Stage(n) /\ n \in Present
  /\ \/ other[n] = "swapping" /\ \E s \in {"swapped", "idle"} : Turn(n, s)
     \/ other[n] = "restoring" /\ Turn(n, "idle")
  /\ NextArea
  /\ UNCHANGED vars

OtherAreas ==
  \E n \in 1 .. AreaCnt - 1 :
    SkipArea(n) \/ StartSwap(n) \/ ConfirmArea(n) \/ RestoreArea(n) \/ FinishSwap(n)

-----------------------------------------------------------------------------
(* Area 0, and what main does after the loop *)

AreaZero ==
  /\ cnt = 0
  /\ ImgSwap \/ NothingValid
  /\ UNCHANGED <<cnt, other>>

BootAreas ==
  /\ Boot
  /\ other' = [n \in DOMAIN other |-> IF other[n] = "swapped" THEN "trial" ELSE other[n]]
  /\ UNCHANGED cnt

ResetAreas ==
  /\ PowerOn \/ Reset
  /\ cnt' = AreaCnt - 1
  /\ UNCHANGED other

(* The image that runs uploads an image to another area and asks for a      *)
(* swap, or confirms the one on trial there.                                *)
UseArea ==
  /\ pc = "run"
  /\ \E n \in Present :
       \/ other[n] \in {"idle", "refused"} /\ \E s \in {"asked", "refused"} : Turn(n, s)
       \/ other[n] = "trial" /\ Turn(n, "confirmed")
  /\ UNCHANGED <<vars, cnt>>

UseAreaZero == (Upload \/ Request) /\ UNCHANGED <<cnt, other>>

(* What an area has recorded survives. *)
FailAreas ==
  /\ PowerFail
  /\ cnt' = 0
  /\ UNCHANGED other

AreasInit ==
  /\ Init
  /\ cnt = 0
  /\ other = [n \in 1 .. AreaCnt - 1 |-> "idle"]

AreasNext ==
  \/ OtherAreas \/ AreaZero \/ BootAreas \/ ResetAreas
  \/ UseArea \/ UseAreaZero \/ FailAreas

AreasSpec == AreasInit /\ [][AreasNext]_allvars

-----------------------------------------------------------------------------
(* Properties *)

(* What main keeps: the loop counts within the map and comes to area 0      *)
(* before anything else is done.                                            *)
AreasTyped ==
  /\ cnt \in 0 .. AreaCnt - 1
  /\ other \in [1 .. AreaCnt - 1 -> Stages]
  /\ cnt # 0 => pc = "start"

AreasTypeOK == TypeOK /\ AreasTyped

(* Whenever main boots from area 0, every other area whose devices are      *)
(* there is settled, whatever the area before it returned and wherever the  *)
(* power failed: a request for a good image has been carried out, no swap   *)
(* is going on, no image is left that was on trial at the boot before, and  *)
(* a confirmation has been recorded.                                        *)
AreasSettled ==
  [][ pc = "main" /\ pc' = "run" =>
        \A n \in Present : other[n] \in {"idle", "refused", "swapped"} ]_allvars
=============================================================================
