--------------------------- MODULE ZbAreasProofs ----------------------------
(***************************************************************************)
(* Whenever main boots, the other slot areas are settled: for any number   *)
(* of areas, of missing devices, of power failures, and whatever goes on   *)
(* in area 0.                                                              *)
(***************************************************************************)
EXTENDS ZbAreas, ZbBootProofs

Settled(n) == other[n] \in {"idle", "refused", "swapped"}

(* From reset to boot, the areas that main is done with are settled.        *)
DoneAreas ==
  pc \notin {"off", "run"} => \A n \in Present : n > cnt => Settled(n)

AreasInv == AreasTyped /\ DoneAreas

(* While zb_img_swap handles area 0 nothing boots and the power is on.      *)
LEMMA ImgSwapStays ==
  ASSUME ImgSwap \/ NothingValid
  PROVE  pc \notin {"off", "run"} /\ pc' \notin {"off", "run"}
<1>1. CASE ReadSwpstat \/ AcceptRequest \/ NoRequest \/ EraseSwpstat \/ WriteStart
  BY <1>1 DEF ReadSwpstat, AcceptRequest, NoRequest, EraseSwpstat, WriteStart, To
<1>2. CASE MakePermanent \/ Restore \/ NoRestore \/ NothingValid
  BY <1>2 DEF MakePermanent, Restore, NoRestore, NothingValid, To
<1>3. CASE ExchangeSectors \/ ResumeExchange \/ EraseSlt0End \/ WritePrm \/ WriteExecuted
  BY <1>3 DEF ExchangeSectors, ResumeExchange, EraseSlt0End, WritePrm, WriteExecuted, AtPhase, To
<1>4. CASE EraseSlt1End \/ WriteSwpstat \/ SwapDone
  BY <1>4 DEF EraseSlt1End, WriteSwpstat, SwapDone, AtPhase, To
<1> QED BY <1>1, <1>2, <1>3, <1>4 DEF ImgSwap

(* After a power failure the device is off. *)
LEMMA FailTurnsOff ==
  ASSUME PowerFail
  PROVE  pc' = "off"
BY DEF PowerFail, FailBetween, FailInSwpstat, FailInExchange, FailInSwpstatErase, FailInSlt0End,
       FailInPhase3, FailInPhase4, FailInUpload, FailInRequest, Fail, To

(* One area other than 0: handled, it is settled when the next one follows. *)
LEMMA OtherAreasKeepInv ==
  ASSUME AreasInv, OtherAreas
  PROVE  AreasInv'
<1> USE AreasAssumption
<1>1. PICK n \in 1 .. AreaCnt - 1 :
        SkipArea(n) \/ StartSwap(n) \/ ConfirmArea(n) \/ RestoreArea(n) \/ FinishSwap(n)
  BY DEF OtherAreas
<1>2. pc = "start" /\ cnt = n /\ pc' = pc
  BY <1>1 DEF SkipArea, StartSwap, ConfirmArea, RestoreArea, FinishSwap, Stage, vars
<1>3. cnt' \in {cnt, cnt - 1} /\ \A m \in 1 .. AreaCnt - 1 : m # n => other'[m] = other[m]
  BY <1>1, <1>2 DEF SkipArea, StartSwap, ConfirmArea, RestoreArea, FinishSwap, Turn, NextArea,
                    AreasInv, AreasTyped
<1>4. AreasTyped'
  BY <1>1, <1>2, <1>3 DEF SkipArea, StartSwap, ConfirmArea, RestoreArea, FinishSwap, Turn,
                          AreasInv, AreasTyped, Stages
<1>5. cnt' = cnt - 1 /\ n \in Present => Settled(n)'
  BY <1>1, <1>2 DEF SkipArea, StartSwap, ConfirmArea, RestoreArea, FinishSwap, Turn, Settled,
                    AreasInv, AreasTyped
<1>6. DoneAreas'
  <2> SUFFICES ASSUME NEW m \in Present, m > cnt'
               PROVE  Settled(m)'
    BY DEF DoneAreas
  <2>1. CASE m = n
    BY <2>1, <1>2, <1>3, <1>5
  <2>2. CASE m # n
    BY <2>2, <1>2, <1>3 DEF AreasInv, DoneAreas, AreasTyped, Settled
  <2> QED BY <2>1, <2>2
<1> QED BY <1>4, <1>6 DEF AreasInv

(* AreasInv is an invariant of main's loop, reset and power failures        *)
(* included.                                                                *)
THEOREM AreasInvariant == AreasSpec => []AreasInv
<1> USE AreasAssumption
<1>1. AreasInit => AreasInv
  BY DEF AreasInit, Init, AreasInv, AreasTyped, DoneAreas, Stages
<1>2. AreasInv /\ [AreasNext]_allvars => AreasInv'
  <2> SUFFICES ASSUME AreasInv, [AreasNext]_allvars
               PROVE  AreasInv'
    OBVIOUS
  <2>1. CASE OtherAreas
    BY <2>1, OtherAreasKeepInv
  <2>2. CASE AreaZero
    BY <2>2, ImgSwapStays DEF AreaZero, AreasInv, AreasTyped, DoneAreas, Settled
  <2>3. CASE BootAreas
    BY <2>3 DEF BootAreas, Boot, To, AreasInv, AreasTyped, DoneAreas, Stages
  <2>4. CASE ResetAreas
    BY <2>4 DEF ResetAreas, PowerOn, Reset, ResetFrom, To, AreasInv, AreasTyped, DoneAreas
  <2>5. CASE UseArea
    BY <2>5 DEF UseArea, Turn, vars, AreasInv, AreasTyped, DoneAreas, Stages
  <2>6. CASE UseAreaZero
    BY <2>6 DEF UseAreaZero, Upload, Request, CanUpload, CanRequest, Runs,
                AreasInv, AreasTyped, DoneAreas
  <2>7. CASE FailAreas
    BY <2>7, FailTurnsOff DEF FailAreas, AreasInv, AreasTyped, DoneAreas
  <2>8. CASE UNCHANGED allvars
    BY <2>8 DEF allvars, vars, AreasInv, AreasTyped, DoneAreas, Settled
  <2> QED
    BY <2>1, <2>2, <2>3, <2>4, <2>5, <2>6, <2>7, <2>8 DEF AreasNext
<1> QED BY <1>1, <1>2, PTL DEF AreasSpec

(* No boot with an unsettled area: a request for a good image carried out,  *)
(* no swap under way, no image left on trial (main.c, the loop over the     *)
(* slot areas).                                                             *)
THEOREM BootsSettled == AreasSpec => AreasSettled
<1>1. AreasInv => (pc = "main" /\ pc' = "run" =>
                     \A n \in Present : other[n] \in {"idle", "refused", "swapped"})
  BY AreasAssumption DEF AreasInv, AreasTyped, DoneAreas, Settled
<1> QED BY <1>1, AreasInvariant, PTL DEF AreasSettled

(* Area 0 does not notice the others: what ZbBoot says of a device with one  *)
(* slot area holds for area 0 of several.                                   *)
THEOREM AreasImplementBoot == AreasSpec => Spec
<1>1. AreasInit => Init
  BY DEF AreasInit
<1>2. [AreasNext]_allvars => [Next]_vars
  <2>1. OtherAreas \/ UseArea => UNCHANGED vars
    BY DEF OtherAreas, SkipArea, StartSwap, ConfirmArea, RestoreArea, FinishSwap, UseArea
  <2>2. AreaZero \/ BootAreas \/ ResetAreas \/ UseAreaZero \/ FailAreas => Next
    BY DEF AreaZero, BootAreas, ResetAreas, UseAreaZero, FailAreas, Next, Loader, Application
  <2> QED BY <2>1, <2>2 DEF AreasNext, allvars
<1> QED BY <1>1, <1>2, PTL DEF AreasSpec, Spec

(* Type correctness, and with it the count of main's loop. *)
THEOREM AreasTypeCorrect == AreasSpec => []AreasTypeOK
BY AreasInvariant, AreasImplementBoot, BootTypeCorrect, PTL DEF AreasInv, AreasTypeOK
=============================================================================
