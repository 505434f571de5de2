----------------------------- MODULE ZbMoveSwap -----------------------------
(***************************************************************************)
(* ZbMove, which moves sectors, carries out the swap of ZbSwap.            *)
(*                                                                         *)
(* Until swpstat says that the sectors are exchanged the slots count as    *)
(* they were at the start; from then on they are what flash holds.         *)
(***************************************************************************)
EXTENDS ZbMove

ASSUME SwapAssumption == NoImage \notin [img : Image, form : Forms]

Stage == IF swpstat.val.phase \in {"P3", "P4", "END"} THEN swpstat.val.phase ELSE "exchange"

InForm(i, f) == [img |-> i, form |-> f]

AtStart(j) ==
  [s \in Slot |->
     IF s = 1 THEN InForm(j.fr, ShippedForm(j.fr))
     ELSE IF j.to = NoImage THEN NoImage ELSE InForm(j.to, InstalledForm(j.to))]

(* What slot contents sl are, judged by the header in front. *)
Found(sl) ==
  IF ~HasHeader(sl[0]) THEN NoImage
  ELSE LET i == sl[0].img IN
       InForm(i, IF Holds(sl, i, "plain") THEN "plain"
                 ELSE IF Holds(sl, i, "cipher") THEN "cipher" ELSE "spoiled")

Slots == IF Stage = "exchange" THEN AtStart(job) ELSE [s \in Slot |-> Found(flash[s])]

Swap == INSTANCE ZbSwap WITH inplace <- job.inplace, stage <- Stage, slots <- Slots

(* The swap is atomic for everybody who looks at swpstat: no reset or power *)
(* failure lets a half exchanged slot pass for exchanged, nor does anything *)
(* change the slots again once the exchange is recorded (zb_img_cmd_proc).  *)
SwapIsAtomic == Swap!Spec
=============================================================================
