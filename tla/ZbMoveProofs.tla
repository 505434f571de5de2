----------------------------- MODULE ZbMoveProofs -----------------------------
(***************************************************************************)
(* Proofs about ZbMove, for images and slots of every size.                *)
(***************************************************************************)
EXTENDS ZbMove, TLAPS

(* cmd3 is a u8_t: what is stored in it is in its range. *)
LEMMA Sector8Type == \A n \in Nat : Sector8(n) \in 0 .. Cmd3Range - 1
BY MoveAssumption DEF Sector8

LEMMA Sector8Small == \A n \in 0 .. Cmd3Range - 1 : Sector8(n) = n
BY MoveAssumption DEF Sector8

(* A command stays a command when a phase or a sector is put in it. *)
LEMMA CmdType ==
  ASSUME NEW c \in Cmds, NEW p \in Phases, NEW n \in 0 .. Cmd3Range - 1
  PROVE  /\ [c EXCEPT !.phase = p] \in Cmds
         /\ [c EXCEPT !.sec = n] \in Cmds
         /\ [c EXCEPT !.phase = p, !.sec = n] \in Cmds
BY DEF Cmds

(* Reading a header yields a zb_img_info, whatever is in flash. *)
LEMMA ImgInfoType ==
  ASSUME NEW fl, NEW s \in Slot, NEW e \in Nat
  PROVE  KeepCipher(ImgInfo(fl, s, e)) \in Infos
<1>1. ImgInfo(fl, s, e) \in Infos
  BY ImageAssumption DEF ImgInfo, Infos, HasHeader, DataSectors
<1>2. QED
  BY <1>1 DEF KeepCipher, Infos

LEMMA SwapInfoType ==
  ASSUME NEW fl, NEW c \in Cmds
  PROVE  SwapInfo(fl, c) \in [to : Infos, fr : Infos]
BY ImgInfoType DEF SwapInfo, Slot

(* Flash is written one sector at a time. *)
LEMMA PutTabulated ==
  ASSUME NEW fl, Tabulated(fl), NEW s, NEW k, NEW c
  PROVE  Tabulated([fl EXCEPT ![s][k] = c])
BY DEF Tabulated

LEMMA PutSector ==
  ASSUME NEW fl, Tabulated(fl), NEW s \in Slot, NEW k \in 0 .. End(s), NEW c,
         NEW t \in Slot, NEW p \in 0 .. End(t)
  PROVE  [fl EXCEPT ![s][k] = c][t][p] = IF t = s /\ p = k THEN c ELSE fl[t][p]
BY DEF Tabulated

(* swpstat stays a register with a command in it. *)
LEMMA RegisterType ==
  ASSUME NEW r \in CmdReg!Registers, r.used < StatEntries
  PROVE  /\ \A c \in Cmds : CmdReg!Written(r, c) \in CmdReg!Registers
         /\ CmdReg!Torn(r) \in CmdReg!Registers
         /\ CmdReg!Torn(r).val = r.val
BY MoveAssumption DEF CmdReg!Registers, CmdReg!Written, CmdReg!Torn

-----------------------------------------------------------------------------
(* Type correctness *)

LEMMA InitType == Init => TypeOK
<1> SUFFICES ASSUME Init PROVE TypeOK
  OBVIOUS
<1>1. PICK j \in Jobs, c1 \in SUBSET {"PERM"} :
        swpstat = CmdReg!Written(CmdReg!Blank, StartCmd(c1, j.inplace))
  BY DEF Init
<1>2. StartCmd(c1, j.inplace) \in Cmds
  BY MoveAssumption DEF StartCmd, Cmds, Flags, Phases, Jobs
<1>3. swpstat \in CmdReg!Registers /\ swpstat.val \in Cmds
  BY <1>1, <1>2, MoveAssumption
     DEF CmdReg!Registers, CmdReg!Written, CmdReg!Blank
<1>4. Tabulated(flash)
  <2>1. PICK c : flash = [s \in Slot |->
                    IF s = 1 THEN Filled(1, job.fr, ShippedForm(job.fr), c)
                    ELSE Filled(0, job.to, InstalledForm(job.to), c)]
    BY DEF Init
  <2>2. \A s, i, f : Filled(s, i, f, c) = [k \in 0 .. End(s) |-> Filled(s, i, f, c)[k]]
    BY DEF Filled
  <2>3. \A s \in Slot : flash[s] = [k \in 0 .. End(s) |-> flash[s][k]]
    <3>1. flash[0] = Filled(0, job.to, InstalledForm(job.to), c)
      BY <2>1 DEF Slot
    <3>2. flash[1] = Filled(1, job.fr, ShippedForm(job.fr), c)
      BY <2>1 DEF Slot
    <3>3. flash[0] = [k \in 0 .. End(0) |-> flash[0][k]]
      <4> DEFINE F == Filled(0, job.to, InstalledForm(job.to), c)
      <4>1. F = [k \in 0 .. End(0) |-> F[k]]
        BY <2>2
      <4> HIDE DEF F
      <4>2. flash[0] = F
        BY <3>1 DEF F
      <4>3. QED
        BY <4>1, <4>2
    <3>4. flash[1] = [k \in 0 .. End(1) |-> flash[1][k]]
      <4> DEFINE F == Filled(1, job.fr, ShippedForm(job.fr), c)
      <4>1. F = [k \in 0 .. End(1) |-> F[k]]
        BY <2>2
      <4> HIDE DEF F
      <4>2. flash[1] = F
        BY <3>2 DEF F
      <4>3. QED
        BY <4>1, <4>2
    <3>5. QED
      BY <3>3, <3>4, Zenon DEF Slot
  <2>4. QED
    BY <2>1, <2>3 DEF Tabulated
<1>5. QED
  BY <1>3, <1>4, MoveAssumption DEF Init, TypeOK

LEMMA ProgramType ==
  ASSUME TypeOK, pc = "program" \/ pc = "slt0cmd" \/ pc = "step", NEW s, NEW k, NEW c,
         flash' = [flash EXCEPT ![s][k] = c],
         cmd' \in Cmds, UNCHANGED <<swpstat, info, fails, job>>,
         pc' \in {"log", "slt0cmd", "program"}
  PROVE  TypeOK'
<1>1. Tabulated(flash')
  BY PutTabulated DEF TypeOK
<1>2. QED
  BY <1>1, MoveAssumption DEF TypeOK

LEMMA GotoType ==
  ASSUME TypeOK, pc # "off", NEW c \in Cmds, info # NotLoaded, Goto(c)
  PROVE  TypeOK'
BY MoveAssumption DEF TypeOK, Goto

LEMMA FailType ==
  ASSUME TypeOK, Fail, UNCHANGED swpstat, Tabulated(flash')
  PROVE  TypeOK'
BY MoveAssumption DEF TypeOK, Fail

LEMMA NextType == TypeOK /\ [Next]_vars => TypeOK'
<1> SUFFICES ASSUME TypeOK, [Next]_vars PROVE TypeOK'
  OBVIOUS
<1> USE DEF AtPhase
<1>c. pc \in {"step", "program", "slt0cmd", "log"} =>
        cmd \in Cmds /\ info \in [to : Infos, fr : Infos]
  BY DEF TypeOK
<1>n. pc \in {"step", "program", "slt0cmd", "log"} =>
        cmd.sec \in 0 .. Cmd3Range - 1 /\ EndTo \in Nat /\ EndFr \in Nat
  BY <1>c DEF Cmds, EndTo, EndFr, Infos
<1>0. 0 \in 0 .. Cmd3Range - 1 /\ Cmd3Range \in Nat
  BY MoveAssumption
<1>1. CASE ReadSwpstat
  BY <1>1, SwapInfoType, MoveAssumption DEF ReadSwpstat, TypeOK
<1>2. CASE SwapDone
  BY <1>2 DEF SwapDone, TypeOK
<1>3. CASE StartNoMove
  BY <1>3, <1>c, <1>0, CmdType, GotoType DEF StartNoMove, Phases, TypeOK
<1>4. CASE StartNoMoveUp
  BY <1>4, <1>c, <1>0, CmdType, GotoType DEF StartNoMoveUp, Phases, TypeOK
<1>5. CASE StartMoveUp
  <2>1. Sector8(EndTo - 1) \in 0 .. Cmd3Range - 1
    BY <1>5, <1>n, Sector8Type DEF StartMoveUp
  <2>2. QED
    BY <1>5, <2>1, <1>c, CmdType, GotoType DEF StartMoveUp, Phases, TypeOK
<1>6. CASE SkipP1
  <2>1. [cmd EXCEPT !.phase = IF InTo THEN "P2" ELSE "P3"] \in Cmds
    BY <1>6, <1>c DEF SkipP1, Phases, Cmds
  <2>2. QED
    BY <1>6, <2>1, <1>c, GotoType DEF SkipP1, TypeOK
<1>7. CASE SkipP2
  <2>1. Sector8(cmd.sec + 1) \in 0 .. Cmd3Range - 1
    BY <1>7, <1>n, <1>0, Sector8Type DEF SkipP2
  <2>2. QED
    BY <1>7, <2>1, <1>c, CmdType, GotoType DEF SkipP2, Phases, TypeOK
<1>8. CASE EraseSector
  BY <1>8, <1>c, ProgramType DEF EraseSector, Erases, Put
<1>9. CASE MoveUp
  <2>1. cmd.sec # 0 => cmd.sec - 1 \in 0 .. Cmd3Range - 1
    BY <1>9, <1>n, <1>0 DEF MoveUp, ProgramSector
  <2>2. cmd' \in Cmds
    BY <1>9, <2>1, <1>c DEF MoveUp, ProgramSector, Phases, Cmds
  <2>3. QED
    BY <1>9, <2>2, ProgramType DEF MoveUp, ProgramSector, Put
<1>10. CASE SwapP1
  <2>1. cmd' \in Cmds
    BY <1>10, <1>c DEF SwapP1, ProgramSector, Phases, Cmds
  <2>2. QED
    BY <1>10, <2>1, ProgramType DEF SwapP1, ProgramSector, Put
<1>11. CASE SwapP2
  <2>1. Sector8(cmd.sec + 1) \in 0 .. Cmd3Range - 1
    BY <1>11, <1>n, <1>0, Sector8Type DEF SwapP2, ProgramSector
  <2>2. cmd' \in Cmds
    BY <1>11, <2>1, <1>c DEF SwapP2, ProgramSector, Phases, Cmds
  <2>3. QED
    BY <1>11, <2>2, ProgramType DEF SwapP2, ProgramSector, Put
<1>12. CASE WritePrm
  BY <1>12, <1>c, ProgramType DEF WritePrm, Put
<1>13. CASE WriteSlt0Cmd
  <2>1. PICK c : flash' = [flash EXCEPT ![0][End(0)] = c]
    BY <1>13 DEF WriteSlt0Cmd
  <2>2. cmd' \in Cmds
    BY <1>13, <1>c DEF WriteSlt0Cmd, Phases, Cmds
  <2>3. QED
    <3>1. Tabulated(flash')
      BY <2>1, PutTabulated DEF TypeOK
    <3>2. QED
      BY <1>13, <3>1, <2>2, MoveAssumption DEF WriteSlt0Cmd, TypeOK
<1>14. CASE FinishP4
  <2>1. [cmd EXCEPT !.phase = "END"] \in Cmds
    BY <1>14, <1>c DEF FinishP4, Phases, Cmds
  <2>2. QED
    BY <1>14, <2>1, <1>c, GotoType DEF FinishP4, TypeOK
<1>15. CASE WriteSwpstat
  <2>1. swpstat' \in CmdReg!Registers /\ swpstat'.val \in Cmds
    <3>1. CASE CmdReg!HasRoom(swpstat)
      BY <3>1, <1>15, <1>c, RegisterType
         DEF WriteSwpstat, TypeOK, CmdReg!HasRoom, CmdReg!Written
    <3>2. CASE ~CmdReg!HasRoom(swpstat)
      BY <3>2, <1>15 DEF WriteSwpstat, TypeOK
    <3>3. QED
      BY <3>1, <3>2
  <2>2. QED
    BY <1>15, <2>1 DEF WriteSwpstat, TypeOK, CmdReg!Registers
<1>16. CASE Restart
  BY <1>16 DEF Restart, TypeOK
<1>17. CASE PowerFail
  <2>1. CASE FailBetween
    BY <2>1, FailType DEF FailBetween, TypeOK
  <2>2. CASE FailInErase
    <3>1. Tabulated(flash')
      BY <2>2, PutTabulated DEF FailInErase, Put, TypeOK
    <3>2. Fail /\ UNCHANGED swpstat
      BY <2>2 DEF FailInErase
    <3>3. QED
      BY <3>1, <3>2, FailType
  <2>3. CASE FailInCopy
    <3>1. Tabulated(flash')
      <4>1. PICK c \in TornProgram(Copy) : Put(Dest, c)
        BY <2>3 DEF FailInCopy
      <4>2. QED
        BY <4>1, PutTabulated DEF Put, TypeOK
    <3>2. Fail /\ UNCHANGED swpstat
      BY <2>3 DEF FailInCopy
    <3>3. QED
      BY <3>1, <3>2, FailType
  <2>4. CASE FailInSlt0End
    <3>1. Tabulated(flash')
      BY <2>4, PutTabulated DEF FailInSlt0End, TypeOK
    <3>2. Fail /\ UNCHANGED swpstat
      BY <2>4 DEF FailInSlt0End
    <3>3. QED
      BY <3>1, <3>2, FailType
  <2>5. CASE FailInLog
    <3>1. swpstat' \in CmdReg!Registers /\ swpstat'.val \in Cmds
      BY <2>5, RegisterType DEF FailInLog, TypeOK, CmdReg!HasRoom
    <3>2. QED
      BY <2>5, <3>1, MoveAssumption DEF FailInLog, Fail, TypeOK, CmdReg!Registers
  <2>6. QED
    BY <1>17, <2>1, <2>2, <2>3, <2>4, <2>5 DEF PowerFail
<1>18. CASE UNCHANGED vars
  BY <1>18 DEF vars, TypeOK
<1>19. QED
  BY <1>1, <1>2, <1>3, <1>4, <1>5, <1>6, <1>7, <1>8, <1>9, <1>10, <1>11, <1>12,
     <1>13, <1>14, <1>15, <1>16, <1>17, <1>18 DEF Next, Loader

(* Type correctness, failures anywhere included: in particular cmd3 stays  *)
(* within its byte and swpstat never loses its last command.               *)
THEOREM TypeCorrect == Spec => []TypeOK
<1>1. Init => TypeOK
  BY InitType
<1>2. TypeOK /\ [Next]_vars => TypeOK'
  BY NextType
<1>3. QED
  BY <1>1, <1>2, PTL DEF Spec

-----------------------------------------------------------------------------
(* Flash contents: where sectors of an image lie *)

LEMMA EndType == \A s \in Slot : End(s) \in Nat \ {0}
BY ImageAssumption DEF End, Slot

LEMMA SizeType == \A i \in Image \cup {NoImage} : Size(i) \in Nat
BY ImageAssumption DEF Size

(* fl2 is fl with content x in sector p of slot s. *)
Wrote(fl, fl2, s, p, x) ==
  /\ s \in Slot /\ p \in 0 .. End(s)
  /\ \A t \in Slot : \A q \in 0 .. End(t) :
       fl2[t][q] = IF t = s /\ q = p THEN x ELSE fl[t][q]

LEMMA PutWrote ==
  ASSUME NEW fl, Tabulated(fl), NEW s \in Slot, NEW p \in 0 .. End(s), NEW x
  PROVE  Wrote(fl, [fl EXCEPT ![s][p] = x], s, p, x)
BY PutSector DEF Wrote

(* A sector outside the range is written. *)
LEMMA LiesPut ==
  ASSUME NEW fl, NEW fl2, NEW s, NEW p, NEW x, Wrote(fl, fl2, s, p, x),
         NEW t \in Slot, NEW i, NEW f, NEW lo \in Nat, NEW hi \in Nat, NEW up \in Nat,
         hi + up <= End(t) + 1,
         t = s => p < lo + up \/ p >= hi + up,
         Lies(fl, t, i, f, lo, hi, up)
  PROVE  Lies(fl2, t, i, f, lo, hi, up)
<1>1. SUFFICES ASSUME NEW k \in lo .. hi - 1 PROVE fl2[t][k + up] = Data(i, k, f)
  BY DEF Lies
<1>2. k + up \in 0 .. End(t) /\ ~(t = s /\ k + up = p)
  BY EndType DEF Wrote
<1>3. fl2[t][k + up] = fl[t][k + up]
  BY <1>2 DEF Wrote
<1>4. QED
  BY <1>3 DEF Lies

(* The sector behind the range is written, or the one in front of it. *)
LEMMA LiesAbove ==
  ASSUME NEW fl, NEW fl2, NEW s, NEW i, NEW f,
         NEW lo \in Nat, NEW hi \in Nat, NEW up \in Nat,
         Wrote(fl, fl2, s, hi + up, Data(i, hi, f)),
         Lies(fl, s, i, f, lo, hi, up)
  PROVE  Lies(fl2, s, i, f, lo, hi + 1, up)
<1>1. SUFFICES ASSUME NEW k \in lo .. hi PROVE fl2[s][k + up] = Data(i, k, f)
  BY DEF Lies
<1>2. s \in Slot /\ k + up \in 0 .. End(s)
  BY EndType DEF Wrote
<1>3. CASE k = hi
  BY <1>2, <1>3 DEF Wrote
<1>4. CASE k # hi
  <2>1. k \in lo .. hi - 1 /\ k + up # hi + up
    BY <1>4
  <2>2. QED
    BY <1>2, <2>1 DEF Wrote, Lies
<1>5. QED
  BY <1>3, <1>4

LEMMA LiesBelow ==
  ASSUME NEW fl, NEW fl2, NEW s, NEW i, NEW f,
         NEW lo \in Nat, NEW hi \in Nat, NEW up \in Nat, hi + up <= End(s) + 1,
         Wrote(fl, fl2, s, lo + up, Data(i, lo, f)),
         Lies(fl, s, i, f, lo + 1, hi, up)
  PROVE  Lies(fl2, s, i, f, lo, hi, up)
<1>1. SUFFICES ASSUME NEW k \in lo .. hi - 1 PROVE fl2[s][k + up] = Data(i, k, f)
  BY DEF Lies
<1>2. s \in Slot /\ k + up \in 0 .. End(s)
  BY EndType DEF Wrote
<1>3. CASE k = lo
  BY <1>2, <1>3 DEF Wrote
<1>4. CASE k # lo
  <2>1. k \in lo + 1 .. hi - 1 /\ k + up # lo + up
    BY <1>4
  <2>2. QED
    BY <1>2, <2>1 DEF Wrote, Lies
<1>5. QED
  BY <1>3, <1>4

(* Part of a range, in particular an empty one. *)
LEMMA LiesPart ==
  ASSUME NEW fl, NEW s, NEW i, NEW f, NEW lo \in Nat, NEW hi \in Nat, NEW up \in Nat,
         NEW lo2 \in Nat, NEW hi2 \in Nat,
         hi2 <= lo2 \/ (lo <= lo2 /\ hi2 <= hi),
         Lies(fl, s, i, f, lo, hi, up)
  PROVE  Lies(fl, s, i, f, lo2, hi2, up)
BY DEF Lies

LEMMA LiesNone ==
  ASSUME NEW fl, NEW s, NEW i, NEW f, NEW lo \in Nat, NEW hi \in Nat, NEW up \in Nat, hi <= lo
  PROVE  Lies(fl, s, i, f, lo, hi, up)
BY DEF Lies

LEMMA LiesInPlace ==
  ASSUME NEW fl, NEW s, NEW i, NEW f, NEW lo \in Nat, NEW hi \in Nat,
         NEW k \in Nat, lo <= k, k < hi, Lies(fl, s, i, f, lo, hi, 0)
  PROVE  fl[s][k] = Data(i, k, f)
<1>1. k + 0 = k /\ k \in lo .. hi - 1
  OBVIOUS
<1>2. fl[s][k + 0] = Data(i, k, f)
  BY <1>1 DEF Lies
<1>3. QED
  BY <1>1, <1>2

LEMMA LiesShifted ==
  ASSUME NEW fl, NEW s, NEW i, NEW f, NEW lo \in Nat, NEW hi \in Nat,
         NEW k \in Nat, lo <= k, k < hi, Lies(fl, s, i, f, lo, hi, 1)
  PROVE  fl[s][k + 1] = Data(i, k, f)
BY DEF Lies

(* The images of a job fit their slots, wherever a swap puts them. *)
LEMMA JobSizes ==
  ASSUME NEW j \in Jobs, GoodJob(j)
  PROVE  /\ Size(j.to) \in Nat /\ Size(j.fr) \in Nat \ {0}
         /\ Size(j.fr) = Sectors[j.fr] /\ j.fr \in Image
         /\ j.to # NoImage => j.to \in Image /\ Size(j.to) = Sectors[j.to] /\ Size(j.to) > 0
         /\ j.to = NoImage => Size(j.to) = 0
         /\ Size(j.fr) <= End(1)
         /\ Size(j.to) <= End(0) /\ Size(j.to) <= End(1)
         /\ ~j.inplace => Size(j.fr) <= End(0)
         /\ Size(j.to) < Cmd3Range /\ Size(j.fr) < Cmd3Range
         /\ MaxSize(j) \in Nat /\ Size(j.to) <= MaxSize(j) /\ Size(j.fr) <= MaxSize(j)
         /\ MaxSize(j) \in {Size(j.to), Size(j.fr)}
<1>1. /\ j.fr \in Image /\ j.fr # NoImage
      /\ j.to = NoImage \/ j.to \in Image
  BY ImageAssumption DEF Jobs
<1>2. /\ Size(j.fr) = Sectors[j.fr] /\ Sectors[j.fr] \in Nat \ {0}
      /\ j.to # NoImage => Size(j.to) = Sectors[j.to] /\ Sectors[j.to] \in Nat \ {0}
      /\ j.to = NoImage => Size(j.to) = 0
  BY <1>1, ImageAssumption DEF Size
<1>3. /\ SlotSectors[0] \in Nat /\ SlotSectors[1] \in Nat /\ SlotSectors[0] <= SlotSectors[1]
      /\ End(0) = SlotSectors[0] - 1 /\ End(1) = SlotSectors[1] - 1
  BY ImageAssumption DEF Slot, End
<1>4. /\ Sectors[j.fr] < SlotSectors[IF j.inplace THEN 1 ELSE 0]
      /\ j.to # NoImage => Sectors[j.to] < SlotSectors[0]
  BY DEF GoodJob, Fits
<1>5. Sectors[j.fr] < Cmd3Range /\ (j.to # NoImage => Sectors[j.to] < Cmd3Range)
  BY <1>1, MoveAssumption
<1>6. Size(j.to) > 0 \/ j.to = NoImage
  BY <1>2
<1>7. /\ Size(j.to) \in Nat /\ Size(j.fr) \in Nat \ {0}
      /\ j.to # NoImage => j.to \in Image /\ Size(j.to) = Sectors[j.to] /\ Size(j.to) > 0
  BY <1>1, <1>2, <1>6
<1>8. /\ Size(j.fr) <= End(1)
      /\ Size(j.to) <= End(0) /\ Size(j.to) <= End(1)
      /\ ~j.inplace => Size(j.fr) <= End(0)
  <2>1. Size(j.fr) <= End(1)
    <3>1. CASE j.inplace
      BY <3>1, <1>2, <1>3, <1>4
    <3>2. CASE ~j.inplace
      BY <3>2, <1>2, <1>3, <1>4
    <3>3. QED
      BY <3>1, <3>2
  <2>2. ~j.inplace => Size(j.fr) <= End(0)
    BY <1>2, <1>3, <1>4
  <2>3. Size(j.to) <= End(0) /\ Size(j.to) <= End(1)
    <3>1. CASE j.to = NoImage
      BY <3>1, <1>2, EndType DEF Slot
    <3>2. CASE j.to # NoImage
      BY <3>2, <1>2, <1>3, <1>4
    <3>3. QED
      BY <3>1, <3>2
  <2>4. QED
    BY <2>1, <2>2, <2>3
<1>9. Size(j.to) < Cmd3Range /\ Size(j.fr) < Cmd3Range
  BY <1>1, <1>2, <1>5, MoveAssumption
<1>10. /\ MaxSize(j) \in Nat /\ Size(j.to) <= MaxSize(j) /\ Size(j.fr) <= MaxSize(j)
       /\ MaxSize(j) \in {Size(j.to), Size(j.fr)}
  BY <1>7 DEF MaxSize
<1>11. QED
  BY <1>1, <1>2, <1>7, <1>8, <1>9, <1>10

LEMMA HoldsLies ==
  ASSUME NEW fl, NEW s, NEW i \in Image, NEW f
  PROVE  Holds(fl[s], i, f) <=> Lies(fl, s, i, f, 0, Sectors[i], 0)
<1>1. \A k \in 0 .. Sectors[i] - 1 : k + 0 = k
  BY ImageAssumption
<1>2. QED
  BY <1>1 DEF Holds, Lies

LEMMA ExchangedLies ==
  ASSUME NEW fl, NEW j \in Jobs, GoodJob(j)
  PROVE  Exchanged(fl, j) <=>
           IF j.inplace
             THEN Lies(fl, 1, j.fr, InstalledForm(j.fr), 0, Size(j.fr), 0)
             ELSE /\ NewIn0(fl, j, 0, Size(j.fr))
                  /\ OldIn1(fl, j, 0, Size(j.to))
<1>1. /\ Holds(fl[1], j.fr, InstalledForm(j.fr))
          <=> Lies(fl, 1, j.fr, InstalledForm(j.fr), 0, Size(j.fr), 0)
      /\ Holds(fl[0], j.fr, InstalledForm(j.fr)) <=> NewIn0(fl, j, 0, Size(j.fr))
  BY JobSizes, HoldsLies DEF NewIn0
<1>2. CASE j.to = NoImage
  <2>1. OldIn1(fl, j, 0, Size(j.to))
    BY <1>2, JobSizes, LiesNone DEF OldIn1
  <2>2. QED
    BY <1>1, <1>2, <2>1 DEF Exchanged
<1>3. CASE j.to # NoImage
  <2>1. Holds(fl[1], j.to, ShippedForm(j.to)) <=> OldIn1(fl, j, 0, Size(j.to))
    BY <1>3, JobSizes, HoldsLies DEF OldIn1
  <2>2. QED
    BY <1>1, <1>3, <2>1 DEF Exchanged
<1>4. QED
  BY <1>2, <1>3

-----------------------------------------------------------------------------
(* Each step leaves open the sector it writes: as long as it has not been   *)
(* carried out, flash still holds what its command asks for.                *)

LEMMA OpenMoveUp ==
  ASSUME NEW fl, NEW fl2, NEW j \in Jobs, GoodJob(j), NEW c \in Cmds,
         c.phase = "MOVE_UP", Bounds(j, c), Layout(fl, j, c), NEW x,
         Wrote(fl, fl2, IF j.inplace THEN 1 ELSE 0, c.sec + 1, x)
  PROVE  Layout(fl2, j, c)
<1> DEFINE k == c.sec
           n0 == Size(j.to)
           n1 == Size(j.fr)
<1>1. k \in Nat /\ n0 \in Nat /\ n1 \in Nat /\ {0, 1} = Slot
  BY JobSizes, MoveAssumption DEF Cmds, Slot
<1>2. CASE j.inplace
  <2>1. k < n1 /\ n1 <= End(1) /\ End(1) \in Nat
    BY <1>2, JobSizes, EndType DEF Bounds, Slot
  <2>2. NewIn1(fl, j, 0, k + 1, 0) /\ NewIn1(fl, j, k + 1, n1, 1)
    BY <1>2 DEF Layout, InPlaceLayout
  <2>3. NewIn1(fl2, j, 0, k + 1, 0)
    BY <1>1, <1>2, <2>1, <2>2, LiesPut DEF NewIn1
  <2>4. NewIn1(fl2, j, k + 1, n1, 1)
    BY <1>1, <1>2, <2>1, <2>2, LiesPut DEF NewIn1
  <2>5. QED
    BY <1>2, <2>3, <2>4 DEF Layout, InPlaceLayout
<1>3. CASE ~j.inplace
  <2>1. k < n0 /\ n0 <= End(0) /\ n1 <= End(1) /\ End(0) \in Nat /\ End(1) \in Nat
    BY <1>3, JobSizes, EndType DEF Bounds, Slot
  <2>2. /\ OldIn0(fl, j, 0, k + 1, 0) /\ OldIn0(fl, j, k + 1, n0, 1)
        /\ NewIn1(fl, j, 0, n1, 0)
    BY <1>3 DEF Layout, ClassicLayout
  <2>3. OldIn0(fl2, j, 0, k + 1, 0)
    BY <1>1, <1>3, <2>1, <2>2, LiesPut DEF OldIn0
  <2>4. OldIn0(fl2, j, k + 1, n0, 1)
    BY <1>1, <1>3, <2>1, <2>2, LiesPut DEF OldIn0
  <2>5. NewIn1(fl2, j, 0, n1, 0)
    BY <1>1, <1>3, <2>1, <2>2, LiesPut DEF NewIn1
  <2>6. QED
    BY <1>3, <2>3, <2>4, <2>5 DEF Layout, ClassicLayout
<1>4. QED
  BY <1>2, <1>3

LEMMA OpenP1 ==
  ASSUME NEW fl, NEW fl2, NEW j \in Jobs, GoodJob(j), NEW c \in Cmds,
         c.phase = "P1", Bounds(j, c), Layout(fl, j, c), c.sec < Size(j.fr), NEW x,
         Wrote(fl, fl2, 0, c.sec, x)
  PROVE  Layout(fl2, j, c)
<1> DEFINE k == c.sec
           n0 == Size(j.to)
           n1 == Size(j.fr)
<1>1. /\ k \in Nat /\ n0 \in Nat /\ n1 \in Nat /\ 0 \in Slot /\ 1 \in Slot
      /\ k < n1 /\ ~j.inplace /\ n0 <= End(0) /\ n0 <= End(1) /\ n1 <= End(0) /\ n1 <= End(1)
      /\ End(0) \in Nat /\ End(1) \in Nat /\ Least(k, n1) = k
      /\ Least(k, n0) \in Nat /\ Least(k, n0) <= n0
  BY JobSizes, MoveAssumption, EndType DEF Cmds, Slot, Bounds, Least
<1>2. /\ NewIn0(fl, j, 0, k) /\ OldIn0(fl, j, k, n0, 1)
      /\ OldIn1(fl, j, 0, Least(k, n0)) /\ NewIn1(fl, j, k, n1, 0)
  BY <1>1 DEF Layout, ClassicLayout
<1>3. NewIn0(fl2, j, 0, k)
  BY <1>1, <1>2, LiesPut DEF NewIn0
<1>4. OldIn0(fl2, j, k, n0, 1)
  BY <1>1, <1>2, LiesPut DEF OldIn0
<1>5. OldIn1(fl2, j, 0, Least(k, n0))
  BY <1>1, <1>2, LiesPut DEF OldIn1
<1>6. NewIn1(fl2, j, k, n1, 0)
  BY <1>1, <1>2, LiesPut DEF NewIn1
<1>7. QED
  BY <1>1, <1>3, <1>4, <1>5, <1>6 DEF Layout, ClassicLayout

LEMMA OpenP2 ==
  ASSUME NEW fl, NEW fl2, NEW j \in Jobs, GoodJob(j), NEW c \in Cmds,
         c.phase = "P2", Bounds(j, c), Layout(fl, j, c),
         c.sec < Size(IF j.inplace THEN j.fr ELSE j.to), NEW x,
         Wrote(fl, fl2, 1, c.sec, x)
  PROVE  Layout(fl2, j, c)
<1> DEFINE k == c.sec
           n0 == Size(j.to)
           n1 == Size(j.fr)
<1>1. /\ k \in Nat /\ n0 \in Nat /\ n1 \in Nat /\ 0 \in Slot /\ 1 \in Slot
      /\ End(0) \in Nat /\ End(1) \in Nat
      /\ n0 <= End(0) /\ n0 <= End(1) /\ n1 <= End(1) /\ (~j.inplace => n1 <= End(0))
  BY JobSizes, MoveAssumption, EndType DEF Cmds, Slot
<1>2. CASE j.inplace
  <2>1. /\ Lies(fl, 1, j.fr, InstalledForm(j.fr), 0, k, 0) /\ NewIn1(fl, j, k, n1, 1)
    BY <1>2 DEF Layout, InPlaceLayout
  <2>2. Lies(fl2, 1, j.fr, InstalledForm(j.fr), 0, k, 0)
    BY <1>1, <1>2, <2>1, LiesPut
  <2>3. NewIn1(fl2, j, k, n1, 1)
    BY <1>1, <1>2, <2>1, LiesPut DEF NewIn1
  <2>4. QED
    BY <1>2, <2>2, <2>3 DEF Layout, InPlaceLayout
<1>3. CASE ~j.inplace
  <2>1. /\ Least(k + 1, n1) \in Nat /\ Least(k + 1, n1) <= n1 /\ Least(k, n0) = k /\ k < n0
    BY <1>1, <1>3 DEF Least
  <2>2. /\ NewIn0(fl, j, 0, Least(k + 1, n1)) /\ OldIn0(fl, j, k, n0, 1)
        /\ OldIn1(fl, j, 0, k) /\ NewIn1(fl, j, k + 1, n1, 0)
    BY <1>3, <2>1 DEF Layout, ClassicLayout
  <2>3. NewIn0(fl2, j, 0, Least(k + 1, n1))
    BY <1>1, <1>3, <2>1, <2>2, LiesPut DEF NewIn0
  <2>4. OldIn0(fl2, j, k, n0, 1)
    BY <1>1, <1>3, <2>1, <2>2, LiesPut DEF OldIn0
  <2>5. OldIn1(fl2, j, 0, k)
    BY <1>1, <1>3, <2>1, <2>2, LiesPut DEF OldIn1
  <2>6. NewIn1(fl2, j, k + 1, n1, 0)
    BY <1>1, <1>3, <2>1, <2>2, LiesPut DEF NewIn1
  <2>7. QED
    BY <1>3, <2>1, <2>3, <2>4, <2>5, <2>6 DEF Layout, ClassicLayout
<1>4. QED
  BY <1>2, <1>3

LEMMA OpenEnd ==
  ASSUME NEW fl, NEW fl2, NEW j \in Jobs, GoodJob(j), NEW c \in Cmds,
         c.phase \in {"P3", "P4", "END"}, Layout(fl, j, c), NEW s, NEW x,
         Wrote(fl, fl2, s, End(s), x)
  PROVE  Layout(fl2, j, c)
<1> DEFINE n0 == Size(j.to)
           n1 == Size(j.fr)
<1>1. /\ n0 \in Nat /\ n1 \in Nat /\ 0 \in Slot /\ 1 \in Slot
      /\ End(0) \in Nat /\ End(1) \in Nat
      /\ n0 <= End(0) /\ n0 <= End(1) /\ n1 <= End(1) /\ (~j.inplace => n1 <= End(0))
  BY JobSizes, EndType DEF Slot
<1>2. Exchanged(fl, j)
  BY DEF Layout
<1>3. CASE j.inplace
  <2>1. Lies(fl, 1, j.fr, InstalledForm(j.fr), 0, n1, 0)
    BY <1>2, <1>3, ExchangedLies
  <2>2. Lies(fl2, 1, j.fr, InstalledForm(j.fr), 0, n1, 0)
    BY <1>1, <1>3, <2>1, LiesPut
  <2>3. QED
    BY <1>3, <2>2, ExchangedLies DEF Layout, InPlaceLayout
<1>4. CASE ~j.inplace
  <2>1. NewIn0(fl, j, 0, n1) /\ OldIn1(fl, j, 0, n0)
    BY <1>2, <1>4, ExchangedLies
  <2>2. NewIn0(fl2, j, 0, n1)
    BY <1>1, <1>4, <2>1, LiesPut DEF NewIn0
  <2>3. OldIn1(fl2, j, 0, n0)
    BY <1>1, <1>4, <2>1, LiesPut DEF OldIn1
  <2>4. QED
    BY <1>4, <2>2, <2>3, ExchangedLies DEF Layout, ClassicLayout
<1>5. QED
  BY <1>3, <1>4

-----------------------------------------------------------------------------
(* The cipher: a sector copied to the other slot is in the form it has to   *)
(* have there.                                                              *)

LEMMA DataType ==
  ASSUME NEW i \in Image, NEW k \in Nat, NEW f \in {"plain", "cipher", "torn"}
  PROVE  /\ Data(i, k, f) \in DataSectors
         /\ Data(i, k, f).img = i /\ Data(i, k, f).sec = k /\ Data(i, k, f).form = f
BY DEF Data, DataSectors, Forms

LEMMA MovedOwn ==
  ASSUME NEW inf, NEW i \in Image, NEW k \in Nat, NEW f \in {"plain", "cipher"}, inf.img = i
  PROVE  Moved(inf, k, Data(i, k, f)) =
           Data(i, k, IF ~inf.enc THEN f ELSE IF f = "plain" THEN "cipher" ELSE "plain")
BY DataType DEF Moved

LEMMA FormType ==
  ASSUME NEW i
  PROVE  /\ ShippedForm(i) \in {"plain", "cipher"}
         /\ InstalledForm(i) \in {"plain", "cipher"}
BY DEF ShippedForm, InstalledForm

LEMMA MovedNew ==
  ASSUME NEW j \in Jobs, GoodJob(j), NEW k \in Nat
  PROVE  /\ Moved(JobInfo(j).fr, k, Data(j.fr, k, ShippedForm(j.fr)))
              = Data(j.fr, k, InstalledForm(j.fr))
         /\ j.inplace => Moved(JobInfo(j).to, k, Data(j.fr, k, ShippedForm(j.fr)))
                           = Data(j.fr, k, InstalledForm(j.fr))
<1>1. j.fr \in Image
  BY JobSizes
<1>2. /\ JobInfo(j).fr.img = j.fr
      /\ JobInfo(j).fr.enc = (j.fr \in Encrypted /\ ~RunsFromRam(j.fr))
      /\ j.inplace => JobInfo(j).to = JobInfo(j).fr
  BY DEF JobInfo
<1>3. Moved(JobInfo(j).fr, k, Data(j.fr, k, ShippedForm(j.fr)))
        = Data(j.fr, k, InstalledForm(j.fr))
  <2> DEFINE f == ShippedForm(j.fr)
             enc == JobInfo(j).fr.enc
  <2>1. Moved(JobInfo(j).fr, k, Data(j.fr, k, f))
          = Data(j.fr, k, IF ~enc THEN f ELSE IF f = "plain" THEN "cipher" ELSE "plain")
    BY <1>1, <1>2, MovedOwn, FormType
  <2>2. (IF ~enc THEN f ELSE IF f = "plain" THEN "cipher" ELSE "plain")
          = InstalledForm(j.fr)
    BY <1>2 DEF ShippedForm, InstalledForm
  <2>3. QED
    BY <2>1, <2>2
<1>4. QED
  BY <1>2, <1>3

LEMMA MovedOld ==
  ASSUME NEW j \in Jobs, GoodJob(j), NEW k \in Nat, ~j.inplace, j.to # NoImage
  PROVE  Moved(JobInfo(j).to, k, Data(j.to, k, InstalledForm(j.to)))
           = Data(j.to, k, ShippedForm(j.to))
<1>1. j.to \in Image
  BY JobSizes
<1>2. /\ JobInfo(j).to.img = j.to
      /\ JobInfo(j).to.enc = (j.to \in Encrypted /\ ~RunsFromRam(j.to))
  BY DEF JobInfo
<1>3. QED
  BY <1>1, <1>2, MovedOwn, FormType DEF ShippedForm, InstalledForm

-----------------------------------------------------------------------------
(* Each step, carried out, leaves what the command it records asks for.     *)

(* c2 is recorded after c. *)
Follows(fl, j, c, c2) ==
  /\ Bounds(j, c2) /\ Layout(fl, j, c2)
  /\ Writes(j, c2) = Writes(j, c) + 1

LEMMA StepMoveUp ==
  ASSUME NEW fl, NEW fl2, NEW j \in Jobs, GoodJob(j), NEW c \in Cmds, NEW c2 \in Cmds,
         c.phase = "MOVE_UP", Bounds(j, c), Layout(fl, j, c),
         Wrote(fl, fl2, IF j.inplace THEN 1 ELSE 0, c.sec + 1,
               fl[IF j.inplace THEN 1 ELSE 0][c.sec]),
         c2.inplace = c.inplace,
         IF c.sec # 0 THEN c2.phase = "MOVE_UP" /\ c2.sec = c.sec - 1
         ELSE c2.phase = (IF j.inplace THEN "P2" ELSE "P1") /\ c2.sec = 0
  PROVE  Follows(fl2, j, c, c2)
<1> DEFINE k == c.sec
           n0 == Size(j.to)
           n1 == Size(j.fr)
<1>1. /\ k \in Nat /\ n0 \in Nat /\ n1 \in Nat /\ 0 \in Slot /\ 1 \in Slot
      /\ End(0) \in Nat /\ End(1) \in Nat /\ MaxSize(j) \in Nat
      /\ n0 <= End(0) /\ n0 <= End(1) /\ n1 <= End(1)
      /\ n0 <= MaxSize(j) /\ n1 <= MaxSize(j)
  BY JobSizes, MoveAssumption, EndType DEF Cmds, Slot
<1>2. CASE j.inplace
  <2>1. /\ k < n1 /\ j.fr \in Encrypted
        /\ NewIn1(fl, j, 0, k + 1, 0) /\ NewIn1(fl, j, k + 1, n1, 1)
    BY <1>2 DEF Bounds, Layout, InPlaceLayout
  <2>2. fl[1][k] = Data(j.fr, k, ShippedForm(j.fr))
    BY <1>1, <2>1, LiesInPlace DEF NewIn1
  <2>3. NewIn1(fl2, j, k, n1, 1)
    BY <1>1, <1>2, <2>1, <2>2, LiesBelow DEF NewIn1
  <2>4. NewIn1(fl2, j, 0, k, 0)
    <3>1. NewIn1(fl, j, 0, k, 0)
      BY <1>1, <2>1, LiesPart DEF NewIn1
    <3>2. QED
      BY <1>1, <1>2, <2>1, <3>1, LiesPut DEF NewIn1
  <2>5. Layout(fl2, j, c2)
    <3>1. CASE k # 0
      BY <1>1, <1>2, <2>3, <2>4, <3>1 DEF Layout, InPlaceLayout
    <3>2. CASE k = 0
      <4>1. Lies(fl2, 1, j.fr, InstalledForm(j.fr), 0, 0, 0)
        BY LiesNone
      <4>2. QED
        BY <1>1, <1>2, <2>3, <3>2, <4>1 DEF Layout, InPlaceLayout
    <3>3. QED
      BY <3>1, <3>2
  <2>6. Bounds(j, c2)
    BY <1>1, <1>2, <2>1 DEF Bounds
  <2>7. Writes(j, c2) = Writes(j, c) + 1
    BY <1>1, <1>2 DEF Writes
  <2>8. QED
    BY <2>5, <2>6, <2>7 DEF Follows
<1>3. CASE ~j.inplace
  <2>1. /\ k < n0
        /\ OldIn0(fl, j, 0, k + 1, 0) /\ OldIn0(fl, j, k + 1, n0, 1)
        /\ NewIn1(fl, j, 0, n1, 0)
    BY <1>3 DEF Bounds, Layout, ClassicLayout
  <2>2. fl[0][k] = Data(j.to, k, InstalledForm(j.to))
    BY <1>1, <2>1, LiesInPlace DEF OldIn0
  <2>3. OldIn0(fl2, j, k, n0, 1)
    BY <1>1, <1>3, <2>1, <2>2, LiesBelow DEF OldIn0
  <2>4. OldIn0(fl2, j, 0, k, 0)
    <3>1. OldIn0(fl, j, 0, k, 0)
      BY <1>1, <2>1, LiesPart DEF OldIn0
    <3>2. QED
      BY <1>1, <1>3, <2>1, <3>1, LiesPut DEF OldIn0
  <2>5. NewIn1(fl2, j, 0, n1, 0)
    BY <1>1, <1>3, <2>1, LiesPut DEF NewIn1
  <2>6. Layout(fl2, j, c2)
    <3>1. CASE k # 0
      BY <1>1, <1>3, <2>3, <2>4, <2>5, <3>1 DEF Layout, ClassicLayout
    <3>2. CASE k = 0
      <4>1. /\ Least(0, n0) = 0 /\ Least(0, n1) = 0
            /\ NewIn0(fl2, j, 0, 0) /\ OldIn1(fl2, j, 0, 0)
        BY <1>1, LiesNone DEF Least, NewIn0, OldIn1
      <4>2. QED
        BY <1>1, <1>3, <2>3, <2>5, <3>2, <4>1 DEF Layout, ClassicLayout
    <3>3. QED
      BY <3>1, <3>2
  <2>7. Bounds(j, c2)
    BY <1>1, <1>3, <2>1 DEF Bounds
  <2>8. Writes(j, c2) = Writes(j, c) + 1
    BY <1>1, <1>3 DEF Writes
  <2>9. QED
    BY <2>6, <2>7, <2>8 DEF Follows
<1>4. QED
  BY <1>2, <1>3

LEMMA StepP1 ==
  ASSUME NEW fl, NEW fl2, NEW j \in Jobs, GoodJob(j), NEW c \in Cmds, NEW c2 \in Cmds,
         c.phase = "P1", Bounds(j, c), Layout(fl, j, c), c.sec < Size(j.fr),
         Wrote(fl, fl2, 0, c.sec, Moved(JobInfo(j).fr, c.sec, fl[1][c.sec])),
         c2.inplace = c.inplace, c2.phase = "P2", c2.sec = c.sec
  PROVE  Follows(fl2, j, c, c2)
<1> DEFINE k == c.sec
           n0 == Size(j.to)
           n1 == Size(j.fr)
<1>1. /\ k \in Nat /\ n0 \in Nat /\ n1 \in Nat /\ 0 \in Slot /\ 1 \in Slot
      /\ End(0) \in Nat /\ End(1) \in Nat /\ MaxSize(j) \in Nat
      /\ n0 <= End(0) /\ n0 <= End(1) /\ n1 <= End(1) /\ k < n1 /\ ~j.inplace
      /\ n1 <= MaxSize(j) /\ Least(k, n1) = k /\ Least(k + 1, n1) = k + 1
      /\ Least(k, n0) \in Nat /\ Least(k, n0) <= n0
  BY JobSizes, MoveAssumption, EndType DEF Cmds, Slot, Bounds, Least
<1>2. /\ NewIn0(fl, j, 0, k) /\ OldIn0(fl, j, k, n0, 1)
      /\ OldIn1(fl, j, 0, Least(k, n0)) /\ NewIn1(fl, j, k, n1, 0)
  BY <1>1 DEF Layout, ClassicLayout
<1>3. Moved(JobInfo(j).fr, k, fl[1][k]) = Data(j.fr, k, InstalledForm(j.fr))
  <2>1. fl[1][k] = Data(j.fr, k, ShippedForm(j.fr))
    BY <1>1, <1>2, LiesInPlace DEF NewIn1
  <2>2. QED
    BY <1>1, <2>1, MovedNew
<1>4. NewIn0(fl2, j, 0, k + 1)
  <2>1. Wrote(fl, fl2, 0, k + 0, Data(j.fr, k, InstalledForm(j.fr)))
    BY <1>1, <1>3
  <2>2. QED
    BY <1>1, <1>2, <2>1, LiesAbove DEF NewIn0
<1>5. OldIn0(fl2, j, k, n0, 1)
  BY <1>1, <1>2, LiesPut DEF OldIn0
<1>6. OldIn1(fl2, j, 0, Least(k, n0))
  BY <1>1, <1>2, LiesPut DEF OldIn1
<1>7. NewIn1(fl2, j, k + 1, n1, 0)
  <2>1. NewIn1(fl, j, k + 1, n1, 0)
    BY <1>1, <1>2, LiesPart DEF NewIn1
  <2>2. QED
    BY <1>1, <2>1, LiesPut DEF NewIn1
<1>8. Layout(fl2, j, c2)
  BY <1>1, <1>4, <1>5, <1>6, <1>7 DEF Layout, ClassicLayout
<1>9. Bounds(j, c2)
  BY <1>1 DEF Bounds
<1>10. Writes(j, c2) = Writes(j, c) + 1
  BY <1>1 DEF Writes
<1>11. QED
  BY <1>8, <1>9, <1>10 DEF Follows

LEMMA StepP2 ==
  ASSUME NEW fl, NEW fl2, NEW j \in Jobs, GoodJob(j), NEW c \in Cmds, NEW c2 \in Cmds,
         c.phase = "P2", Bounds(j, c), Layout(fl, j, c),
         c.sec < Size(IF j.inplace THEN j.fr ELSE j.to),
         Wrote(fl, fl2, 1, c.sec,
               Moved(JobInfo(j).to, c.sec, fl[IF j.inplace THEN 1 ELSE 0][c.sec + 1])),
         c2.inplace = c.inplace, c2.phase = (IF j.inplace THEN "P2" ELSE "P1"),
         c2.sec = c.sec + 1
  PROVE  Follows(fl2, j, c, c2)
<1> DEFINE k == c.sec
           n0 == Size(j.to)
           n1 == Size(j.fr)
<1>1. /\ k \in Nat /\ n0 \in Nat /\ n1 \in Nat /\ 0 \in Slot /\ 1 \in Slot
      /\ End(0) \in Nat /\ End(1) \in Nat /\ MaxSize(j) \in Nat
      /\ n0 <= End(0) /\ n0 <= End(1) /\ n1 <= End(1) /\ (~j.inplace => n1 <= End(0))
      /\ n0 <= MaxSize(j) /\ n1 <= MaxSize(j)
  BY JobSizes, MoveAssumption, EndType DEF Cmds, Slot
<1>2. CASE j.inplace
  <2>1. /\ k < n1 /\ j.fr \in Encrypted
        /\ Lies(fl, 1, j.fr, InstalledForm(j.fr), 0, k, 0) /\ NewIn1(fl, j, k, n1, 1)
    BY <1>2 DEF Bounds, Layout, InPlaceLayout
  <2>2. fl[1][k + 1] = Data(j.fr, k, ShippedForm(j.fr))
    BY <1>1, <2>1, LiesShifted DEF NewIn1
  <2>3. Wrote(fl, fl2, 1, k + 0, Data(j.fr, k, InstalledForm(j.fr)))
    BY <1>1, <1>2, <2>2, MovedNew
  <2>4. Lies(fl2, 1, j.fr, InstalledForm(j.fr), 0, k + 1, 0)
    BY <1>1, <2>1, <2>3, LiesAbove
  <2>5. NewIn1(fl2, j, k + 1, n1, 1)
    <3>1. NewIn1(fl, j, k + 1, n1, 1)
      BY <1>1, <2>1, LiesPart DEF NewIn1
    <3>2. QED
      BY <1>1, <3>1, LiesPut DEF NewIn1
  <2>6. Layout(fl2, j, c2)
    BY <1>2, <2>4, <2>5 DEF Layout, InPlaceLayout
  <2>7. Bounds(j, c2)
    BY <1>1, <1>2, <2>1 DEF Bounds
  <2>8. Writes(j, c2) = Writes(j, c) + 1
    BY <1>1, <1>2 DEF Writes
  <2>9. QED
    BY <2>6, <2>7, <2>8 DEF Follows
<1>3. CASE ~j.inplace
  <2>1. /\ Least(k + 1, n1) \in Nat /\ Least(k + 1, n1) <= n1
        /\ Least(k, n0) = k /\ Least(k + 1, n0) = k + 1 /\ k < n0
    BY <1>1, <1>3 DEF Least
  <2>2. /\ NewIn0(fl, j, 0, Least(k + 1, n1)) /\ OldIn0(fl, j, k, n0, 1)
        /\ OldIn1(fl, j, 0, k) /\ NewIn1(fl, j, k + 1, n1, 0)
    BY <1>3, <2>1 DEF Layout, ClassicLayout
  <2>3. fl[0][k + 1] = Data(j.to, k, InstalledForm(j.to))
    BY <1>1, <2>1, <2>2, LiesShifted DEF OldIn0
  <2>4. Wrote(fl, fl2, 1, k + 0, Data(j.to, k, ShippedForm(j.to)))
    <3>1. j.to # NoImage
      BY <1>1, <2>1, JobSizes
    <3>2. QED
      BY <1>1, <1>3, <2>3, <3>1, MovedOld
  <2>5. NewIn0(fl2, j, 0, Least(k + 1, n1))
    BY <1>1, <1>3, <2>1, <2>2, LiesPut DEF NewIn0
  <2>6. OldIn0(fl2, j, k + 1, n0, 1)
    <3>1. OldIn0(fl, j, k + 1, n0, 1)
      BY <1>1, <2>2, LiesPart DEF OldIn0
    <3>2. QED
      BY <1>1, <3>1, LiesPut DEF OldIn0
  <2>7. OldIn1(fl2, j, 0, k + 1)
    BY <1>1, <2>2, <2>4, LiesAbove DEF OldIn1
  <2>8. NewIn1(fl2, j, k + 1, n1, 0)
    BY <1>1, <1>3, <2>1, <2>2, LiesPut DEF NewIn1
  <2>9. Layout(fl2, j, c2)
    BY <1>1, <1>3, <2>1, <2>5, <2>6, <2>7, <2>8 DEF Layout, ClassicLayout
  <2>10. Bounds(j, c2)
    BY <1>1, <1>3, <2>1 DEF Bounds
  <2>11. Writes(j, c2) = Writes(j, c) + 1
    BY <1>1, <1>3 DEF Writes
  <2>12. QED
    BY <2>9, <2>10, <2>11 DEF Follows
<1>4. QED
  BY <1>2, <1>3

(* The steps that only decide what comes next. *)
LEMMA StepNoMove ==
  ASSUME NEW fl, NEW j \in Jobs, GoodJob(j), NEW c \in Cmds, NEW c2 \in Cmds,
         c.phase = "START", Bounds(j, c), Layout(fl, j, c),
         j.inplace, j.fr \notin Encrypted,
         c2.inplace = c.inplace, c2.phase = "P3"
  PROVE  Follows(fl, j, c, c2)
<1>1. NewIn1(fl, j, 0, Size(j.fr), 0)
  BY DEF Layout, InPlaceLayout
<1>2. ShippedForm(j.fr) = InstalledForm(j.fr)
  BY DEF ShippedForm, InstalledForm
<1>3. Exchanged(fl, j)
  BY <1>1, <1>2, ExchangedLies DEF NewIn1
<1>4. Layout(fl, j, c2)
  BY <1>3 DEF Layout, InPlaceLayout
<1>5. Bounds(j, c2)
  BY DEF Bounds
<1>6. Writes(j, c2) = Writes(j, c) + 1
  BY DEF Writes
<1>7. QED
  BY <1>4, <1>5, <1>6 DEF Follows

LEMMA StepNoMoveUp ==
  ASSUME NEW fl, NEW j \in Jobs, GoodJob(j), NEW c \in Cmds, NEW c2 \in Cmds,
         c.phase = "START", Bounds(j, c), Layout(fl, j, c),
         ~j.inplace, j.to = NoImage,
         c2.inplace = c.inplace, c2.phase = "P1", c2.sec = 0
  PROVE  Follows(fl, j, c, c2)
<1>1. Size(j.to) = 0 /\ Size(j.fr) \in Nat /\ MaxSize(j) \in Nat
  BY JobSizes
<1>2. NewIn1(fl, j, 0, Size(j.fr), 0)
  BY DEF Layout, ClassicLayout
<1>3. /\ Least(0, Size(j.to)) = 0 /\ Least(0, Size(j.fr)) = 0
      /\ NewIn0(fl, j, 0, 0) /\ OldIn0(fl, j, 0, 0, 1) /\ OldIn1(fl, j, 0, 0)
  BY <1>1, LiesNone DEF Least, NewIn0, OldIn0, OldIn1
<1>4. Layout(fl, j, c2)
  BY <1>1, <1>2, <1>3 DEF Layout, ClassicLayout
<1>5. Bounds(j, c2) /\ Writes(j, c2) = Writes(j, c) + 1
  BY <1>1 DEF Bounds, Writes
<1>6. QED
  BY <1>4, <1>5 DEF Follows

LEMMA StepStart ==
  ASSUME NEW fl, NEW j \in Jobs, GoodJob(j), NEW c \in Cmds, NEW c2 \in Cmds,
         c.phase = "START", Bounds(j, c), Layout(fl, j, c),
         j.inplace => j.fr \in Encrypted,
         ~j.inplace => j.to # NoImage,
         c2.inplace = c.inplace, c2.phase = "MOVE_UP",
         c2.sec = Size(IF j.inplace THEN j.fr ELSE j.to) - 1
  PROVE  Follows(fl, j, c, c2)
<1> DEFINE n0 == Size(j.to)
           n1 == Size(j.fr)
<1>1. n0 \in Nat /\ n1 \in Nat \ {0} /\ (j.to # NoImage => n0 > 0)
  BY JobSizes
<1>2. CASE j.inplace
  <2>1. NewIn1(fl, j, 0, n1, 0)
    BY <1>2 DEF Layout, InPlaceLayout
  <2>2. NewIn1(fl, j, n1, n1, 1)
    BY <1>1, LiesNone DEF NewIn1
  <2>3. QED
    BY <1>1, <1>2, <2>1, <2>2 DEF Follows, Layout, InPlaceLayout, Bounds, Writes
<1>3. CASE ~j.inplace
  <2>1. OldIn0(fl, j, 0, n0, 0) /\ NewIn1(fl, j, 0, n1, 0)
    BY <1>3 DEF Layout, ClassicLayout
  <2>2. OldIn0(fl, j, n0, n0, 1)
    BY <1>1, LiesNone DEF OldIn0
  <2>3. QED
    BY <1>1, <1>3, <2>1, <2>2 DEF Follows, Layout, ClassicLayout, Bounds, Writes
<1>4. QED
  BY <1>2, <1>3

LEMMA StepSkipP1 ==
  ASSUME NEW fl, NEW j \in Jobs, GoodJob(j), NEW c \in Cmds, NEW c2 \in Cmds,
         c.phase = "P1", Bounds(j, c), Layout(fl, j, c), ~(c.sec < Size(j.fr)),
         c2.inplace = c.inplace, c2.sec = c.sec,
         c2.phase = IF c.sec < Size(j.to) THEN "P2" ELSE "P3"
  PROVE  Follows(fl, j, c, c2)
<1> DEFINE k == c.sec
           n0 == Size(j.to)
           n1 == Size(j.fr)
<1>1. /\ k \in Nat /\ n0 \in Nat /\ n1 \in Nat /\ MaxSize(j) \in Nat /\ k <= MaxSize(j)
      /\ n0 <= MaxSize(j) /\ n1 <= MaxSize(j) /\ MaxSize(j) \in {n0, n1} /\ ~j.inplace
      /\ Least(k, n1) = n1 /\ Least(k + 1, n1) = n1
  BY JobSizes, MoveAssumption DEF Cmds, Bounds, Least
<1>2. /\ NewIn0(fl, j, 0, n1) /\ OldIn0(fl, j, k, n0, 1)
      /\ OldIn1(fl, j, 0, Least(k, n0))
  BY <1>1 DEF Layout, ClassicLayout
<1>3. CASE k < n0
  <2>1. NewIn1(fl, j, k + 1, n1, 0)
    BY <1>1, LiesNone DEF NewIn1
  <2>2. QED
    BY <1>1, <1>2, <1>3, <2>1 DEF Follows, Layout, ClassicLayout, Bounds, Writes
<1>4. CASE ~(k < n0)
  <2>1. Least(k, n0) = n0 /\ k = MaxSize(j)
    BY <1>1, <1>4 DEF Least
  <2>2. Exchanged(fl, j)
    BY <1>1, <1>2, <2>1, ExchangedLies
  <2>3. QED
    BY <1>1, <1>4, <2>1, <2>2 DEF Follows, Layout, ClassicLayout, Bounds, Writes
<1>5. QED
  BY <1>3, <1>4

LEMMA StepSkipP2 ==
  ASSUME NEW fl, NEW j \in Jobs, GoodJob(j), NEW c \in Cmds, NEW c2 \in Cmds,
         c.phase = "P2", Bounds(j, c), Layout(fl, j, c),
         ~(c.sec < Size(IF j.inplace THEN j.fr ELSE j.to)),
         c2.inplace = c.inplace,
         IF c.sec < Size(j.fr) THEN c2.phase = "P1" /\ c2.sec = c.sec + 1
         ELSE c2.phase = "P3"
  PROVE  Follows(fl, j, c, c2)
<1> DEFINE k == c.sec
           n0 == Size(j.to)
           n1 == Size(j.fr)
<1>1. /\ k \in Nat /\ n0 \in Nat /\ n1 \in Nat /\ MaxSize(j) \in Nat
      /\ n0 <= MaxSize(j) /\ n1 <= MaxSize(j) /\ MaxSize(j) \in {n0, n1}
  BY JobSizes, MoveAssumption DEF Cmds
<1>2. CASE j.inplace
  <2>1. k = n1 /\ j.fr \in Encrypted
    BY <1>1, <1>2 DEF Bounds
  <2>2. Lies(fl, 1, j.fr, InstalledForm(j.fr), 0, n1, 0)
    BY <1>2, <2>1 DEF Layout, InPlaceLayout
  <2>3. Exchanged(fl, j)
    BY <1>2, <2>2, ExchangedLies
  <2>4. QED
    BY <1>1, <1>2, <2>1, <2>3 DEF Follows, Layout, InPlaceLayout, Bounds, Writes
<1>3. CASE ~j.inplace
  <2>1. /\ k < n1 /\ k < MaxSize(j) /\ k >= n0
        /\ Least(k, n0) = n0 /\ Least(k + 1, n0) = n0
    BY <1>1, <1>3 DEF Bounds, Least
  <2>2. /\ NewIn0(fl, j, 0, Least(k + 1, n1))
        /\ OldIn1(fl, j, 0, n0) /\ NewIn1(fl, j, k + 1, n1, 0)
    BY <1>3, <2>1 DEF Layout, ClassicLayout
  <2>3. OldIn0(fl, j, k + 1, n0, 1)
    BY <1>1, <2>1, LiesNone DEF OldIn0
  <2>4. QED
    BY <1>1, <1>3, <2>1, <2>2, <2>3 DEF Follows, Layout, ClassicLayout, Bounds, Writes
<1>4. QED
  BY <1>2, <1>3

LEMMA StepEnd ==
  ASSUME NEW fl, NEW j \in Jobs, GoodJob(j), NEW c \in Cmds, NEW c2 \in Cmds,
         Bounds(j, c), Layout(fl, j, c),
         c2.inplace = c.inplace,
         \/ c.phase = "P3" /\ c2.phase = "P4"
         \/ c.phase = "P4" /\ c2.phase = "END"
  PROVE  Follows(fl, j, c, c2)
<1>1. Size(j.to) \in Nat /\ Size(j.fr) \in Nat /\ MaxSize(j) \in Nat
  BY JobSizes
<1>2. Layout(fl, j, c2)
  BY DEF Layout, InPlaceLayout, ClassicLayout
<1>3. QED
  BY <1>1, <1>2 DEF Follows, Bounds, Writes

-----------------------------------------------------------------------------
(* zb_get_img_swp_info finds the images where the loop can resume. *)

LEMMA HeaderFound ==
  ASSUME NEW fl, NEW s \in Slot, NEW i \in Image, NEW f \in {"plain", "cipher"},
         fl[s][0] = Data(i, 0, f)
  PROVE  KeepCipher(ImgInfo(fl, s, 0)) =
           [slot |-> s, valid |-> TRUE, img |-> i, n |-> Size(i),
            enc |-> i \in Encrypted /\ ~RunsFromRam(i)]
<1>1. HasHeader(fl[s][0]) /\ fl[s][0].img = i
  BY DataType DEF HasHeader
<1>2. Size(i) = Sectors[i]
  BY ImageAssumption DEF Size
<1>3. ImgInfo(fl, s, 0) = [slot |-> s, valid |-> TRUE, img |-> i, n |-> Size(i),
                           enc |-> i \in Encrypted]
  BY <1>1, <1>2 DEF ImgInfo
<1> DEFINE I == ImgInfo(fl, s, 0)
<1>4. I.slot = s /\ I.valid = TRUE /\ I.img = i /\ I.n = Size(i)
      /\ I.enc = (i \in Encrypted)
  BY <1>3
<1> HIDE DEF I
<1>5. (I.enc /\ ~RunsFromRam(I.img)) = (i \in Encrypted /\ ~RunsFromRam(i))
  BY <1>4, Zenon
<1>6. KeepCipher(I) =
        [slot |-> s, valid |-> TRUE, img |-> i, n |-> Size(i),
         enc |-> i \in Encrypted /\ ~RunsFromRam(i)]
  BY <1>4, <1>5, Zenon DEF KeepCipher
<1>7. QED
  BY <1>6 DEF I

LEMMA HeaderMissing ==
  ASSUME NEW fl, NEW s \in Slot, ~HasHeader(fl[s][0])
  PROVE  KeepCipher(ImgInfo(fl, s, 0)) =
           [slot |-> s, valid |-> FALSE, img |-> NoImage, n |-> Size(NoImage),
            enc |-> NoImage \in Encrypted /\ ~RunsFromRam(NoImage)]
BY ImageAssumption DEF ImgInfo, KeepCipher, Size

LEMMA FoundInfo ==
  ASSUME NEW fl, NEW j \in Jobs, GoodJob(j), NEW c \in Cmds,
         c.phase \in Exchanging, Bounds(j, c), Layout(fl, j, c), CanResume(c)
  PROVE  SwapInfo(fl, c) = JobInfo(j)
<1>1. /\ c.sec \in Nat /\ Size(j.to) \in Nat /\ Size(j.fr) \in Nat \ {0}
      /\ j.fr \in Image /\ j.fr # NoImage
      /\ j.to # NoImage => j.to \in Image /\ Size(j.to) > 0
      /\ 0 \in Slot /\ 1 \in Slot
  BY JobSizes, ImageAssumption, MoveAssumption DEF Cmds, Slot
<1>2. CASE j.inplace
  <2>1. \E f \in {"plain", "cipher"} : fl[1][0] = Data(j.fr, 0, f)
    <3>1. CASE c.phase = "P2"
      <4>1. Lies(fl, 1, j.fr, InstalledForm(j.fr), 0, c.sec, 0) /\ 0 < c.sec
        BY <1>1, <1>2, <3>1 DEF Layout, InPlaceLayout, CanResume
      <4>2. QED
        BY <1>1, <4>1, LiesInPlace, FormType
    <3>2. CASE c.phase = "MOVE_UP"
      <4>1. NewIn1(fl, j, 0, c.sec + 1, 0)
        BY <1>2, <3>2 DEF Layout, InPlaceLayout
      <4>2. QED
        BY <1>1, <4>1, LiesInPlace, FormType DEF NewIn1
    <3>3. CASE c.phase = "START"
      <4>1. NewIn1(fl, j, 0, Size(j.fr), 0)
        BY <1>2, <3>3 DEF Layout, InPlaceLayout
      <4>2. QED
        BY <1>1, <4>1, LiesInPlace, FormType DEF NewIn1
    <3>4. QED
      BY <1>2, <3>1, <3>2, <3>3 DEF Exchanging, Bounds
  <2>2. SwapInfo(fl, c) = [to |-> KeepCipher(ImgInfo(fl, 1, 0)),
                           fr |-> KeepCipher(ImgInfo(fl, 1, 0))]
    BY <1>2 DEF SwapInfo, Bounds
  <2>3. QED
    BY <1>1, <1>2, <2>1, <2>2, HeaderFound DEF JobInfo
<1>3. CASE ~j.inplace
  <2>1. c.phase \in {"START", "MOVE_UP"} /\ ~c.inplace
    BY <1>3 DEF CanResume, Bounds, Exchanging
  <2>2. \E f \in {"plain", "cipher"} : fl[1][0] = Data(j.fr, 0, f)
    <3>1. NewIn1(fl, j, 0, Size(j.fr), 0)
      BY <1>3, <2>1 DEF Layout, ClassicLayout
    <3>2. QED
      BY <1>1, <3>1, LiesInPlace, FormType DEF NewIn1
  <2>3. SwapInfo(fl, c) = [to |-> KeepCipher(ImgInfo(fl, 0, 0)),
                           fr |-> KeepCipher(ImgInfo(fl, 1, 0))]
    BY <2>1 DEF SwapInfo
  <2>4. KeepCipher(ImgInfo(fl, 1, 0)) = JobInfo(j).fr
    BY <1>1, <2>2, HeaderFound DEF JobInfo
  <2>5. CASE j.to = NoImage
    <3>1. Size(j.to) = 0
      BY <2>5 DEF Size
    <3>2. ~HasHeader(fl[0][0])
      BY <1>3, <2>1, <3>1 DEF Layout, ClassicLayout, Bounds, Cmds
    <3>3. QED
      BY <1>1, <1>3, <2>3, <2>4, <2>5, <3>2, HeaderMissing DEF JobInfo
  <2>6. CASE j.to # NoImage
    <3>1. \E hi \in Nat : hi > 0 /\ OldIn0(fl, j, 0, hi, 0)
      BY <1>1, <1>3, <2>1, <2>6 DEF Layout, ClassicLayout
    <3>2. \E f \in {"plain", "cipher"} : fl[0][0] = Data(j.to, 0, f)
      BY <3>1, LiesInPlace, FormType DEF OldIn0
    <3>3. KeepCipher(ImgInfo(fl, 0, 0)) = JobInfo(j).to
      BY <1>1, <1>3, <2>6, <3>2, HeaderFound DEF JobInfo
    <3>4. QED
      BY <2>3, <2>4, <3>3 DEF JobInfo
  <2>7. QED
    BY <2>5, <2>6
<1>4. QED
  BY <1>2, <1>3

-----------------------------------------------------------------------------
(* The inductive invariant *)

LEMMA InitInv == Init => SwapInv
<1> SUFFICES ASSUME Init PROVE SwapInv
  OBVIOUS
<1>1. PICK c1 \in SUBSET {"PERM"} :
        swpstat = CmdReg!Written(CmdReg!Blank, StartCmd(c1, job.inplace))
  BY DEF Init
<1>2. /\ job \in Jobs /\ GoodJob(job) /\ pc = "read" /\ info = NotLoaded /\ fails = 0
  BY DEF Init
<1>3. PICK c : flash = [s \in Slot |->
                    IF s = 1 THEN Filled(1, job.fr, ShippedForm(job.fr), c)
                    ELSE Filled(0, job.to, InstalledForm(job.to), c)]
  BY DEF Init
<1>4. /\ swpstat.val = StartCmd(c1, job.inplace) /\ swpstat.last = swpstat.val
      /\ swpstat.used = 1 /\ ~swpstat.dirty
  BY <1>1 DEF CmdReg!Written, CmdReg!Blank
<1>5. swpstat.val.phase = "START" /\ swpstat.val.inplace = job.inplace
  BY <1>4 DEF StartCmd
<1>6. flash[1] = Filled(1, job.fr, ShippedForm(job.fr), c)
      /\ flash[0] = Filled(0, job.to, InstalledForm(job.to), c)
  BY <1>3 DEF Slot
<1>7. Layout(flash, job, swpstat.val)
  <2>1. NewIn1(flash, job, 0, Size(job.fr), 0)
    <3>1. \A k \in 0 .. Size(job.fr) - 1 :
            flash[1][k + 0] = Data(job.fr, k, ShippedForm(job.fr))
      BY <1>2, <1>6, JobSizes, EndType DEF Filled, Slot
    <3>2. QED
      BY <3>1 DEF NewIn1, Lies
  <2>2. OldIn0(flash, job, 0, Size(job.to), 0)
    <3>1. \A k \in 0 .. Size(job.to) - 1 :
            flash[0][k + 0] = Data(job.to, k, InstalledForm(job.to))
      BY <1>2, <1>6, JobSizes, EndType DEF Filled, Slot
    <3>2. QED
      BY <3>1 DEF OldIn0, Lies
  <2>3. Size(job.to) = 0 => ~HasHeader(flash[0][0])
    <3>1. SUFFICES ASSUME Size(job.to) = 0 PROVE ~HasHeader(flash[0][0])
      OBVIOUS
    <3>2. flash[0][0] = Erased
      BY <3>1, <1>6, EndType DEF Filled, Slot
    <3>3. QED
      BY <3>2, MarkersAssumption DEF HasHeader
  <2>4. QED
    BY <1>5, <2>1, <2>2, <2>3 DEF Layout, ClassicLayout, InPlaceLayout
<1>8. Bounds(job, swpstat.val) /\ Writes(job, swpstat.val) = 1 /\ CanResume(swpstat.val)
  BY <1>5 DEF Bounds, Writes, CanResume
<1>9. QED
  BY <1>2, <1>4, <1>5, <1>7, <1>8
     DEF SwapInv, CmdMatches, LogMatches, LayoutMatches, InfoMatches

(* What info says of the two images, while it is used. *)
LEMMA JobEnds ==
  ASSUME info = JobInfo(job), job \in Jobs, GoodJob(job)
  PROVE  /\ EndFr = Size(job.fr)
         /\ EndTo = Size(IF job.inplace THEN job.fr ELSE job.to)
         /\ info.fr.slot = 1 /\ info.to.slot = (IF job.inplace THEN 1 ELSE 0)
         /\ info.fr.enc = (job.fr \in Encrypted /\ ~RunsFromRam(job.fr))
<1>1. /\ info.fr.slot = 1 /\ info.fr.n = Size(job.fr)
      /\ info.fr.enc = (job.fr \in Encrypted /\ ~RunsFromRam(job.fr))
  BY DEF JobInfo
<1>2. /\ info.to.slot = (IF job.inplace THEN 1 ELSE 0)
      /\ info.to.n = Size(IF job.inplace THEN job.fr ELSE job.to)
      /\ info.to.valid = ((IF job.inplace THEN job.fr ELSE job.to) # NoImage)
  BY DEF JobInfo
<1>3. Size(NoImage) = 0
  BY DEF Size
<1>4. EndTo = Size(IF job.inplace THEN job.fr ELSE job.to)
  BY <1>2, <1>3 DEF EndTo
<1>5. QED
  BY <1>1, <1>2, <1>4 DEF EndFr

LEMMA InfoUsed ==
  ASSUME TypeOK, SwapInv, pc \in {"step", "program"}, cmd.phase \in Exchanging
  PROVE  info = JobInfo(job)
BY DEF TypeOK, SwapInv, CmdMatches, InfoMatches

(* A step writes the one sector its layout leaves open. *)
LEMMA StepWrites ==
  ASSUME TypeOK, SwapInv, pc \in {"step", "program"},
         Copies \/ cmd.phase \in {"P3", "P4"}, NEW x, Put(Dest, x)
  PROVE  /\ Wrote(flash, flash', Dest.slot, Dest.sec, x)
         /\ Layout(flash', job, swpstat.val)
<1>1. /\ cmd = swpstat.val /\ cmd \in Cmds /\ job \in Jobs /\ GoodJob(job) /\ Tabulated(flash)
      /\ Bounds(job, cmd) /\ Layout(flash, job, cmd) /\ cmd.sec \in Nat
      /\ 0 \in Slot /\ 1 \in Slot
  BY MoveAssumption DEF TypeOK, SwapInv, CmdMatches, LayoutMatches, Cmds, Slot
<1>2. Size(job.to) <= End(0) /\ Size(job.fr) <= End(1) /\ (~job.inplace => Size(job.fr) <= End(0))
      /\ Size(job.to) <= End(1) /\ Size(job.to) \in Nat /\ Size(job.fr) \in Nat
      /\ End(0) \in Nat /\ End(1) \in Nat
  BY <1>1, JobSizes, EndType
<1>3. CASE cmd.phase = "MOVE_UP"
  <2>1. info = JobInfo(job)
    BY <1>3, InfoUsed DEF Exchanging
  <2>2. Dest = [slot |-> IF job.inplace THEN 1 ELSE 0, sec |-> cmd.sec + 1]
    BY <1>1, <1>3, <2>1, JobEnds DEF Dest
  <2>3. Dest.slot \in Slot /\ Dest.sec \in 0 .. End(Dest.slot)
    BY <1>1, <1>2, <1>3, <2>2 DEF Bounds
  <2>4. Wrote(flash, flash', Dest.slot, Dest.sec, x)
    BY <1>1, <2>3, PutWrote DEF Put
  <2>5. QED
    BY <1>1, <1>3, <2>2, <2>4, OpenMoveUp
<1>4. CASE cmd.phase = "P1"
  <2>1. info = JobInfo(job)
    BY <1>4, InfoUsed DEF Exchanging
  <2>2. cmd.sec < Size(job.fr) /\ ~job.inplace
    BY <1>1, <1>4, <2>1, JobEnds DEF Copies, InFr, Bounds
  <2>3. Dest = [slot |-> 0, sec |-> cmd.sec]
    BY <1>1, <1>4, <2>1, <2>2, JobEnds DEF Dest
  <2>4. Dest.slot \in Slot /\ Dest.sec \in 0 .. End(Dest.slot)
    BY <1>1, <1>2, <2>2, <2>3
  <2>5. Wrote(flash, flash', Dest.slot, Dest.sec, x)
    BY <1>1, <2>4, PutWrote DEF Put
  <2>6. QED
    BY <1>1, <1>4, <2>2, <2>3, <2>5, OpenP1
<1>5. CASE cmd.phase = "P2"
  <2>1. info = JobInfo(job)
    BY <1>5, InfoUsed DEF Exchanging
  <2>2. cmd.sec < Size(IF job.inplace THEN job.fr ELSE job.to)
    BY <1>1, <1>5, <2>1, JobEnds DEF Copies, InTo
  <2>3. Dest = [slot |-> 1, sec |-> cmd.sec]
    BY <1>1, <1>5, <2>1, JobEnds DEF Dest
  <2>4. Dest.slot \in Slot /\ Dest.sec \in 0 .. End(Dest.slot)
    BY <1>1, <1>2, <2>2, <2>3
  <2>5. Wrote(flash, flash', Dest.slot, Dest.sec, x)
    BY <1>1, <2>4, PutWrote DEF Put
  <2>6. QED
    BY <1>1, <1>5, <2>2, <2>3, <2>5, OpenP2
<1>6. CASE cmd.phase \in {"P3", "P4"}
  <2>1. \E s \in Slot : Dest = [slot |-> s, sec |-> End(s)]
    BY <1>1, <1>6 DEF Dest
  <2>2. PICK s \in Slot : Dest.slot = s /\ Dest.sec = End(s)
    BY <2>1
  <2>3. Wrote(flash, flash', Dest.slot, Dest.sec, x)
    <3>1. End(s) \in 0 .. End(s)
      BY <2>2, EndType
    <3>2. QED
      BY <1>1, <2>2, <3>1, PutWrote DEF Put
  <2>4. QED
    BY <1>1, <1>6, <2>2, <2>3, OpenEnd
<1>7. QED
  BY <1>3, <1>4, <1>5, <1>6 DEF Copies

(* A step is done, and the next command is about to be recorded. *)
LEMMA StepDone ==
  ASSUME TypeOK, SwapInv, pc \in {"step", "program", "slt0cmd"},
         cmd.phase # "END", cmd' \in Cmds,
         UNCHANGED <<swpstat, info, fails, job>>, pc' = "log",
         Layout(flash', job, swpstat.val), Follows(flash', job, cmd, cmd'),
         cmd.phase \in Exchanging \/ cmd'.phase \notin Exchanging
  PROVE  SwapInv'
<1>1. /\ cmd = swpstat.val /\ info # NotLoaded
      /\ cmd.phase \in Exchanging => info = JobInfo(job)
  BY DEF TypeOK, SwapInv, CmdMatches, InfoMatches
<1>2. CmdMatches'
  BY <1>1 DEF CmdMatches
<1>3. LogMatches'
  BY <1>1 DEF SwapInv, LogMatches, Follows
<1>4. LayoutMatches'
  BY <1>1 DEF SwapInv, LayoutMatches, Follows
<1>5. InfoMatches'
  BY <1>1 DEF InfoMatches
<1>6. QED
  BY <1>2, <1>3, <1>4, <1>5 DEF SwapInv

(* A step is under way: its sector is erased, or half of phase 3 is done. *)
LEMMA StepUnderWay ==
  ASSUME TypeOK, SwapInv, pc \in {"step", "program"}, cmd' = cmd,
         UNCHANGED <<swpstat, info, fails, job>>,
         \/ pc' = "program" /\ (Copies \/ cmd.phase \in {"P3", "P4"})
         \/ pc' = "slt0cmd" /\ cmd.phase = "P3",
         Layout(flash', job, swpstat.val)
  PROVE  SwapInv'
<1>1. CmdMatches'
  BY DEF SwapInv, CmdMatches, Copies, InFr, InTo, EndFr, EndTo
<1>2. LogMatches'
  BY DEF SwapInv, LogMatches
<1>3. LayoutMatches'
  BY DEF SwapInv, LayoutMatches
<1>4. InfoMatches'
  BY DEF TypeOK, SwapInv, InfoMatches
<1>5. QED
  BY <1>1, <1>2, <1>3, <1>4 DEF SwapInv

(* Power fails where the loop can resume. *)
LEMMA FailKeepsInv ==
  ASSUME TypeOK, SwapInv, ~FailAnywhere, Fail,
         swpstat' = swpstat \/ swpstat' = CmdReg!Torn(swpstat),
         Layout(flash', job, swpstat.val)
  PROVE  SwapInv'
<1>1. /\ swpstat'.val = swpstat.val /\ swpstat'.last = swpstat.last
      /\ swpstat'.dirty = swpstat.dirty /\ swpstat'.used <= swpstat.used + 1
      /\ swpstat.used \in Nat /\ swpstat'.used \in Nat /\ fails \in Nat
  BY MoveAssumption DEF TypeOK, CmdReg!Torn, CmdReg!Registers
<1>2. Writes(job, swpstat.val) \in Nat
  <2>1. /\ Size(job.to) \in Nat /\ Size(job.fr) \in Nat /\ MaxSize(job) \in Nat
        /\ swpstat.val.sec \in Nat /\ swpstat.val.phase \in Phases
    BY JobSizes, MoveAssumption DEF TypeOK, SwapInv, Cmds
  <2>2. Bounds(job, swpstat.val)
    BY DEF SwapInv, LayoutMatches
  <2>3. QED
    BY <2>1, <2>2 DEF Writes, Phases, Bounds
<1>3. swpstat'.used <= Writes(job, swpstat.val) + (fails + 1)
  <2>1. swpstat.used <= Writes(job, swpstat.val) + fails
    BY DEF SwapInv, LogMatches
  <2>2. QED
    BY <1>1, <1>2, <2>1
<1>4. CmdMatches' /\ LayoutMatches'
  BY <1>1 DEF Fail, SwapInv, CmdMatches, LayoutMatches
<1>5. LogMatches'
  BY <1>1, <1>3 DEF Fail, SwapInv, LogMatches
<1>6. InfoMatches'
  BY <1>1 DEF Fail, InfoMatches
<1>7. QED
  BY <1>4, <1>5, <1>6 DEF Fail, SwapInv

(* Every step of the loop, and every failure it can resume from. *)
LEMMA NextInv == TypeOK /\ TypeOK' /\ SwapInv /\ ~FailAnywhere /\ [Next]_vars => SwapInv'
<1> SUFFICES ASSUME TypeOK, TypeOK', SwapInv, ~FailAnywhere, [Next]_vars PROVE SwapInv'
  OBVIOUS
<1> USE DEF AtPhase
<1>v. /\ job \in Jobs /\ GoodJob(job) /\ Tabulated(flash) /\ swpstat.val \in Cmds
      /\ Bounds(job, swpstat.val) /\ Layout(flash, job, swpstat.val)
      /\ 0 \in Slot /\ 1 \in Slot
  BY DEF TypeOK, SwapInv, LayoutMatches, Slot
<1>s. pc \in {"step", "program", "slt0cmd"} =>
        /\ cmd = swpstat.val /\ cmd.phase # "END" /\ cmd.sec \in Nat
        /\ cmd.inplace = job.inplace
  BY MoveAssumption DEF TypeOK, SwapInv, CmdMatches, LayoutMatches, Bounds, Cmds
<1>z. /\ Size(job.to) \in Nat /\ Size(job.fr) \in Nat \ {0}
      /\ (job.to # NoImage <=> Size(job.to) > 0)
      /\ Size(job.to) < Cmd3Range /\ Size(job.fr) < Cmd3Range
      /\ MaxSize(job) \in {Size(job.to), Size(job.fr)}
      /\ Cmd3Range \in Nat
  BY <1>v, JobSizes, MoveAssumption
<1>1. CASE ReadSwpstat
  <2>1. info' = NotLoaded => FALSE
    BY <1>1 DEF ReadSwpstat, TypeOK
  <2>2. info' = JobInfo(job) \/ swpstat.val.phase \notin Exchanging
    <3>1. CASE info = NotLoaded /\ swpstat.val.phase \in Exchanging
      BY <1>1, <1>v, <3>1, FoundInfo DEF ReadSwpstat, SwapInv, InfoMatches
    <3>2. CASE info # NotLoaded
      BY <1>1, <3>2 DEF ReadSwpstat, SwapInv, InfoMatches
    <3>3. QED
      BY <3>1, <3>2
  <2>3. CmdMatches'
    BY <1>1 DEF ReadSwpstat, CmdMatches, Swapping
  <2>4. LogMatches' /\ LayoutMatches'
    BY <1>1 DEF ReadSwpstat, SwapInv, LogMatches, LayoutMatches
  <2>5. InfoMatches'
    BY <1>1, <2>1, <2>2 DEF ReadSwpstat, InfoMatches
  <2>6. QED
    BY <1>1, <2>3, <2>4, <2>5 DEF ReadSwpstat, SwapInv
<1>2. CASE SwapDone
  <2>1. swpstat.val.phase = "END"
    BY <1>2, <1>v, MoveAssumption DEF SwapDone, Swapping
  <2>2. CmdMatches'
    BY <1>2, <2>1 DEF SwapDone, CmdMatches
  <2>3. LogMatches' /\ LayoutMatches' /\ InfoMatches'
    BY <1>2 DEF SwapDone, SwapInv, LogMatches, LayoutMatches, InfoMatches
  <2>4. QED
    BY <1>2, <2>2, <2>3 DEF SwapDone, SwapInv
<1>e. pc \in {"step", "program"} /\ cmd.phase \in Exchanging =>
        /\ info = JobInfo(job)
        /\ EndFr = Size(job.fr) /\ EndTo = Size(IF job.inplace THEN job.fr ELSE job.to)
        /\ info.fr.slot = 1 /\ info.to.slot = (IF job.inplace THEN 1 ELSE 0)
        /\ info.fr.enc = (job.fr \in Encrypted /\ ~RunsFromRam(job.fr))
  BY <1>v, InfoUsed, JobEnds
<1>r. job.inplace => ~RunsFromRam(job.fr)
  BY <1>v DEF GoodJob, RunsFromRam
<1>c. pc \in {"step", "program", "slt0cmd", "log"} => cmd \in Cmds
  BY DEF TypeOK
<1>c2. pc' = "log" => cmd' \in Cmds
  BY DEF TypeOK
<1>3. CASE StartNoMove
  <2>1. /\ pc = "step" /\ cmd.phase = "START" /\ pc' = "log" /\ flash' = flash
        /\ UNCHANGED <<swpstat, info, fails, job>> /\ cmd.inplace /\ ~info.fr.enc
    BY <1>3 DEF StartNoMove, Goto
  <2>2. cmd'.inplace = cmd.inplace /\ cmd'.phase = "P3"
    BY <1>3, <1>c, <2>1 DEF StartNoMove, Goto, Cmds
  <2>3. job.inplace /\ job.fr \notin Encrypted
    BY <1>e, <1>r, <1>s, <2>1 DEF Exchanging
  <2>4. Follows(flash, job, cmd, cmd')
    BY <1>v, <1>s, <1>c, <1>c2, <2>1, <2>2, <2>3, StepNoMove
  <2>5. QED
    BY <1>v, <1>s, <1>c2, <2>1, <2>4, StepDone DEF Exchanging
<1>4. CASE StartNoMoveUp
  <2>1. /\ pc = "step" /\ cmd.phase = "START" /\ pc' = "log" /\ flash' = flash
        /\ UNCHANGED <<swpstat, info, fails, job>> /\ EndTo = 0
    BY <1>4 DEF StartNoMoveUp, Goto
  <2>2. cmd'.inplace = cmd.inplace /\ cmd'.phase = "P1" /\ cmd'.sec = 0
    BY <1>4, <1>c, <2>1 DEF StartNoMoveUp, Goto, Cmds
  <2>3. ~job.inplace /\ job.to = NoImage
    BY <1>e, <1>z, <2>1 DEF Exchanging
  <2>4. Follows(flash, job, cmd, cmd')
    BY <1>v, <1>s, <1>c, <1>c2, <2>1, <2>2, <2>3, StepNoMoveUp
  <2>5. QED
    BY <1>v, <1>s, <1>c2, <2>1, <2>4, StepDone DEF Exchanging
<1>5. CASE StartMoveUp
  <2>1. /\ pc = "step" /\ cmd.phase = "START" /\ pc' = "log" /\ flash' = flash
        /\ UNCHANGED <<swpstat, info, fails, job>> /\ EndTo # 0
        /\ ~(cmd.inplace /\ ~info.fr.enc)
    BY <1>5 DEF StartMoveUp, Goto
  <2>2. EndTo \in Nat \ {0} /\ Sector8(EndTo - 1) = EndTo - 1
    <3>1. EndTo \in Nat \ {0} /\ EndTo - 1 \in 0 .. Cmd3Range - 1
      BY <1>e, <1>z, <2>1 DEF Exchanging
    <3>2. QED
      BY <3>1, Sector8Small
  <2>3. cmd'.inplace = cmd.inplace /\ cmd'.phase = "MOVE_UP"
        /\ cmd'.sec = Size(IF job.inplace THEN job.fr ELSE job.to) - 1
    BY <1>5, <1>c, <1>e, <2>1, <2>2 DEF StartMoveUp, Goto, Cmds, Exchanging
  <2>4. /\ job.inplace => job.fr \in Encrypted
        /\ ~job.inplace => job.to # NoImage
    <3>1. job.inplace => info.fr.enc
      BY <1>s, <2>1
    <3>2. job.inplace => job.fr \in Encrypted
      BY <1>e, <2>1, <3>1 DEF Exchanging
    <3>3. ~job.inplace => EndTo = Size(job.to)
      BY <1>e, <2>1 DEF Exchanging
    <3>4. ~job.inplace => job.to # NoImage
      BY <2>1, <3>3 DEF Size
    <3>5. QED
      BY <3>2, <3>4
  <2>5. Follows(flash, job, cmd, cmd')
    BY <1>v, <1>s, <1>c, <1>c2, <2>1, <2>3, <2>4, StepStart
  <2>6. QED
    BY <1>v, <1>s, <1>c2, <2>1, <2>5, StepDone DEF Exchanging
<1>6. CASE SkipP1
  <2>1. /\ pc = "step" /\ cmd.phase = "P1" /\ pc' = "log" /\ flash' = flash
        /\ UNCHANGED <<swpstat, info, fails, job>> /\ ~InFr
    BY <1>6 DEF SkipP1, Goto
  <2>2. ~job.inplace
    BY <1>v, <1>s, <2>1 DEF Bounds
  <2>3. (InFr <=> cmd.sec < Size(job.fr)) /\ (InTo <=> cmd.sec < Size(job.to))
    BY <1>e, <2>1, <2>2 DEF InFr, InTo, Exchanging
  <2>4. cmd'.inplace = cmd.inplace /\ cmd'.sec = cmd.sec
        /\ cmd'.phase = IF cmd.sec < Size(job.to) THEN "P2" ELSE "P3"
    BY <1>6, <1>c, <2>1, <2>3 DEF SkipP1, Goto, Cmds
  <2>5. Follows(flash, job, cmd, cmd')
    BY <1>v, <1>s, <1>c, <1>c2, <2>1, <2>3, <2>4, StepSkipP1
  <2>6. QED
    BY <1>v, <1>s, <1>c2, <2>1, <2>5, StepDone DEF Exchanging
<1>7. CASE SkipP2
  <2>1. /\ pc = "step" /\ cmd.phase = "P2" /\ pc' = "log" /\ flash' = flash
        /\ UNCHANGED <<swpstat, info, fails, job>> /\ ~InTo
    BY <1>7 DEF SkipP2, Goto
  <2>2. /\ InFr <=> cmd.sec < Size(job.fr)
        /\ InTo <=> cmd.sec < Size(IF job.inplace THEN job.fr ELSE job.to)
    BY <1>e, <2>1 DEF InFr, InTo, Exchanging
  <2>3. InFr => Sector8(cmd.sec + 1) = cmd.sec + 1
    <3>1. InFr => cmd.sec + 1 \in 0 .. Cmd3Range - 1
      BY <1>s, <1>z, <2>1, <2>2
    <3>2. QED
      BY <3>1, Sector8Small
  <2>4. cmd'.inplace = cmd.inplace
        /\ IF cmd.sec < Size(job.fr) THEN cmd'.phase = "P1" /\ cmd'.sec = cmd.sec + 1
           ELSE cmd'.phase = "P3"
    BY <1>7, <1>c, <2>1, <2>2, <2>3 DEF SkipP2, Goto, Cmds
  <2>5. Follows(flash, job, cmd, cmd')
    BY <1>v, <1>s, <1>c, <1>c2, <2>1, <2>2, <2>4, StepSkipP2
  <2>6. QED
    BY <1>v, <1>s, <1>c2, <2>1, <2>5, StepDone DEF Exchanging
<1>8. CASE EraseSector
  BY <1>8, StepWrites, StepUnderWay DEF EraseSector, Erases
<1>p. pc = "program" => Copies \/ cmd.phase \in {"P3", "P4"}
  BY DEF SwapInv, CmdMatches
<1>9. CASE MoveUp
  <2>1. /\ pc = "program" /\ cmd.phase = "MOVE_UP" /\ pc' = "log" /\ Put(Dest, Copy)
        /\ UNCHANGED <<swpstat, info, fails, job>>
    BY <1>9 DEF MoveUp, ProgramSector
  <2>2. /\ Wrote(flash, flash', Dest.slot, Dest.sec, Copy)
        /\ Layout(flash', job, swpstat.val)
    BY <1>p, <2>1, StepWrites
  <2>3. /\ Dest = [slot |-> IF job.inplace THEN 1 ELSE 0, sec |-> cmd.sec + 1]
        /\ Copy = flash[IF job.inplace THEN 1 ELSE 0][cmd.sec]
    BY <1>e, <2>1 DEF Dest, Copy, Exchanging
  <2>4. Wrote(flash, flash', IF job.inplace THEN 1 ELSE 0, cmd.sec + 1,
              flash[IF job.inplace THEN 1 ELSE 0][cmd.sec])
    BY <2>2, <2>3
  <2>5. cmd'.inplace = cmd.inplace
        /\ IF cmd.sec # 0 THEN cmd'.phase = "MOVE_UP" /\ cmd'.sec = cmd.sec - 1
           ELSE cmd'.phase = (IF job.inplace THEN "P2" ELSE "P1") /\ cmd'.sec = 0
    BY <1>9, <1>c, <1>s, <2>1 DEF MoveUp, Cmds
  <2>6. Follows(flash', job, cmd, cmd')
    BY <1>v, <1>s, <1>c, <1>c2, <2>1, <2>4, <2>5, StepMoveUp
  <2>7. QED
    BY <1>s, <1>c2, <2>1, <2>2, <2>6, StepDone DEF Exchanging
<1>10. CASE SwapP1
  <2>1. /\ pc = "program" /\ cmd.phase = "P1" /\ pc' = "log" /\ Put(Dest, Copy)
        /\ UNCHANGED <<swpstat, info, fails, job>>
    BY <1>10 DEF SwapP1, ProgramSector
  <2>2. /\ Wrote(flash, flash', Dest.slot, Dest.sec, Copy)
        /\ Layout(flash', job, swpstat.val)
    BY <1>p, <2>1, StepWrites
  <2>3. ~job.inplace /\ cmd.sec < Size(job.fr)
    BY <1>v, <1>s, <1>e, <1>p, <2>1 DEF Bounds, Copies, InFr, Exchanging
  <2>4. /\ Dest = [slot |-> 0, sec |-> cmd.sec]
        /\ Copy = Moved(JobInfo(job).fr, cmd.sec, flash[1][cmd.sec])
    BY <1>e, <2>1, <2>3 DEF Dest, Copy, Exchanging
  <2>5. Wrote(flash, flash', 0, cmd.sec, Moved(JobInfo(job).fr, cmd.sec, flash[1][cmd.sec]))
    BY <2>2, <2>4
  <2>6. cmd'.inplace = cmd.inplace /\ cmd'.phase = "P2" /\ cmd'.sec = cmd.sec
    BY <1>10, <1>c, <2>1 DEF SwapP1, Cmds
  <2>7. Follows(flash', job, cmd, cmd')
    BY <1>v, <1>s, <1>c, <1>c2, <2>1, <2>3, <2>5, <2>6, StepP1
  <2>8. QED
    BY <1>s, <1>c2, <2>1, <2>2, <2>7, StepDone DEF Exchanging
<1>11. CASE SwapP2
  <2>1. /\ pc = "program" /\ cmd.phase = "P2" /\ pc' = "log" /\ Put(Dest, Copy)
        /\ UNCHANGED <<swpstat, info, fails, job>>
    BY <1>11 DEF SwapP2, ProgramSector
  <2>2. /\ Wrote(flash, flash', Dest.slot, Dest.sec, Copy)
        /\ Layout(flash', job, swpstat.val)
    BY <1>p, <2>1, StepWrites
  <2>3. cmd.sec < Size(IF job.inplace THEN job.fr ELSE job.to)
    BY <1>e, <1>p, <2>1 DEF Copies, InTo, Exchanging
  <2>4. /\ Dest = [slot |-> 1, sec |-> cmd.sec]
        /\ Copy = Moved(JobInfo(job).to, cmd.sec,
                         flash[IF job.inplace THEN 1 ELSE 0][cmd.sec + 1])
    BY <1>e, <2>1 DEF Dest, Copy, Exchanging
  <2>5. Wrote(flash, flash', 1, cmd.sec,
              Moved(JobInfo(job).to, cmd.sec,
                    flash[IF job.inplace THEN 1 ELSE 0][cmd.sec + 1]))
    BY <2>2, <2>4
  <2>6. Sector8(cmd.sec + 1) = cmd.sec + 1
    <3>1. cmd.sec + 1 \in 0 .. Cmd3Range - 1
      BY <1>s, <1>z, <2>1, <2>3
    <3>2. QED
      BY <3>1, Sector8Small
  <2>7. cmd'.inplace = cmd.inplace /\ cmd'.phase = (IF job.inplace THEN "P2" ELSE "P1")
        /\ cmd'.sec = cmd.sec + 1
    BY <1>11, <1>c, <1>s, <2>1, <2>6 DEF SwapP2, Cmds
  <2>8. Follows(flash', job, cmd, cmd')
    BY <1>v, <1>s, <1>c, <1>c2, <2>1, <2>3, <2>5, <2>7, StepP2
  <2>9. QED
    BY <1>s, <1>c2, <2>1, <2>2, <2>8, StepDone DEF Exchanging
<1>12. CASE WritePrm
  <2>1. Layout(flash', job, swpstat.val)
    BY <1>12, StepWrites DEF WritePrm
  <2>2. QED
    BY <1>12, <2>1, StepUnderWay DEF WritePrm
<1>0. \A c : flash' = [flash EXCEPT ![0][End(0)] = c]
                /\ swpstat.val.phase = "P3" => Layout(flash', job, swpstat.val)
  <2> TAKE c
  <2>1. SUFFICES ASSUME flash' = [flash EXCEPT ![0][End(0)] = c], swpstat.val.phase = "P3"
                 PROVE  Layout(flash', job, swpstat.val)
    OBVIOUS
  <2>2. End(0) \in 0 .. End(0)
    BY <1>v, EndType
  <2>3. Wrote(flash, flash', 0, End(0), c)
    BY <1>v, <2>1, <2>2, PutWrote
  <2>4. QED
    BY <1>v, <2>1, <2>3, OpenEnd
<1>13. CASE WriteSlt0Cmd
  <2>1. /\ pc = "slt0cmd" /\ cmd.phase = "P3" /\ pc' = "log"
        /\ UNCHANGED <<swpstat, info, fails, job>>
    BY <1>13 DEF WriteSlt0Cmd, SwapInv, CmdMatches
  <2>2. PICK c : flash' = [flash EXCEPT ![0][End(0)] = c]
    BY <1>13 DEF WriteSlt0Cmd
  <2>3. Layout(flash', job, swpstat.val)
    BY <1>0, <1>s, <2>1, <2>2
  <2>4. cmd'.inplace = cmd.inplace /\ cmd'.phase = "P4"
    BY <1>13, <1>c, <2>1 DEF WriteSlt0Cmd, Cmds
  <2>5. Follows(flash', job, cmd, cmd')
    BY <1>v, <1>s, <1>c, <1>c2, <2>1, <2>3, <2>4, StepEnd
  <2>6. QED
    BY <1>s, <1>c2, <2>1, <2>3, <2>4, <2>5, StepDone DEF Exchanging
<1>14. CASE FinishP4
  <2>1. /\ pc = "program" /\ cmd.phase = "P4" /\ pc' = "log" /\ flash' = flash
        /\ UNCHANGED <<swpstat, info, fails, job>>
    BY <1>14 DEF FinishP4, Goto
  <2>2. cmd'.inplace = cmd.inplace /\ cmd'.phase = "END"
    BY <1>14, <1>c, <2>1 DEF FinishP4, Goto, Cmds
  <2>3. Follows(flash, job, cmd, cmd')
    BY <1>v, <1>s, <1>c, <1>c2, <2>1, <2>2, StepEnd
  <2>4. QED
    BY <1>v, <1>s, <1>c2, <2>1, <2>2, <2>3, StepDone DEF Exchanging
<1>15. CASE WriteSwpstat
  <2>1. /\ pc = "log" /\ pc' = "read" /\ UNCHANGED <<flash, cmd, info, fails, job>>
        /\ info # NotLoaded
    BY <1>15 DEF WriteSwpstat, TypeOK
  <2>2. CASE CmdReg!HasRoom(swpstat)
    <3>1. /\ swpstat'.val = cmd /\ swpstat'.last = cmd /\ swpstat'.dirty = swpstat.dirty
          /\ swpstat'.used = swpstat.used + 1
      BY <1>15, <2>2 DEF WriteSwpstat, CmdReg!Written
    <3>2. CmdMatches'
      BY <2>1, <3>1 DEF CmdMatches
    <3>3. LogMatches'
      <4>1. /\ Writes(job, cmd) = Writes(job, swpstat.val) + 1
            /\ swpstat.used <= Writes(job, swpstat.val) + fails
        BY <2>1 DEF SwapInv, LogMatches
      <4>2. swpstat.used \in Nat /\ fails \in Nat
        BY MoveAssumption DEF TypeOK, CmdReg!Registers
      <4>3. Writes(job, swpstat.val) \in Nat
        BY <1>v, <1>z, MoveAssumption DEF Writes, Cmds, Phases, Bounds
      <4>4. swpstat.used + 1 <= Writes(job, cmd) + fails
        BY <4>1, <4>2, <4>3
      <4>5. QED
        BY <2>1, <3>1, <4>4 DEF SwapInv, LogMatches
    <3>4. LayoutMatches'
      BY <2>1, <3>1 DEF SwapInv, LayoutMatches
    <3>5. InfoMatches'
      BY <2>1, <3>1 DEF SwapInv, InfoMatches
    <3>6. QED
      BY <2>1, <3>2, <3>3, <3>4, <3>5 DEF SwapInv
  <2>3. CASE ~CmdReg!HasRoom(swpstat)
    BY <1>15, <2>1, <2>3 DEF WriteSwpstat, SwapInv, CmdMatches, LogMatches,
                             LayoutMatches, InfoMatches
  <2>4. QED
    BY <2>2, <2>3
<1>16. CASE Restart
  BY <1>16 DEF Restart, SwapInv, CmdMatches, LogMatches, LayoutMatches, InfoMatches
<1>17. CASE PowerFail
  <2>1. CASE FailBetween
    BY <1>v, <2>1, FailKeepsInv DEF FailBetween
  <2>2. CASE FailInErase
    BY <2>2, StepWrites, FailKeepsInv DEF FailInErase, Erases
  <2>3. CASE FailInCopy
    <3>1. PICK c \in TornProgram(Copy) : Put(Dest, c)
      BY <2>3 DEF FailInCopy
    <3>2. Layout(flash', job, swpstat.val)
      BY <2>3, <3>1, StepWrites DEF FailInCopy
    <3>3. Fail /\ swpstat' = swpstat
      BY <2>3 DEF FailInCopy
    <3>4. QED
      BY <3>2, <3>3, FailKeepsInv
  <2>4. CASE FailInSlt0End
    <3>1. swpstat.val.phase = "P3"
      BY <2>4 DEF FailInSlt0End, SwapInv, CmdMatches
    <3>2. Layout(flash', job, swpstat.val)
      BY <1>0, <2>4, <3>1 DEF FailInSlt0End
    <3>3. Fail /\ swpstat' = swpstat
      BY <2>4 DEF FailInSlt0End
    <3>4. QED
      BY <3>2, <3>3, FailKeepsInv
  <2>5. CASE FailInLog
    <3>1. Layout(flash', job, swpstat.val)
      BY <1>v, <2>5 DEF FailInLog
    <3>2. Fail /\ swpstat' = CmdReg!Torn(swpstat)
      BY <2>5 DEF FailInLog
    <3>3. QED
      BY <3>1, <3>2, FailKeepsInv
  <2>6. QED
    BY <1>17, <2>1, <2>2, <2>3, <2>4, <2>5 DEF PowerFail
<1>18. CASE UNCHANGED vars
  BY <1>18 DEF vars, SwapInv, CmdMatches, LogMatches, LayoutMatches, InfoMatches,
               Copies, InFr, InTo, EndFr, EndTo
<1>19. QED
  BY <1>1, <1>2, <1>3, <1>4, <1>5, <1>6, <1>7, <1>8, <1>9, <1>10, <1>11, <1>12,
     <1>13, <1>14, <1>15, <1>16, <1>17, <1>18 DEF Next, Loader

(* The inductive invariant of the swap, for failures that the loop can      *)
(* resume from: for every set of images that fit their slots, any number of *)
(* failures and any size of the status area, flash holds what the command   *)
(* last recorded in swpstat starts from, and a reset finds the same images. *)
THEOREM SwapInvariant == ASSUME ~FailAnywhere PROVE Spec => []SwapInv
<1>1. Init => TypeOK /\ SwapInv
  BY InitType, InitInv
<1>2. TypeOK /\ SwapInv /\ [Next]_vars => TypeOK' /\ SwapInv'
  BY NextType, NextInv
<1>3. QED
  BY <1>1, <1>2, PTL DEF Spec

-----------------------------------------------------------------------------
(* What the invariant implies *)

(* A sector of an image that lies in its slot can be found in flash. *)
LEMMA LiesInFlash ==
  ASSUME NEW fl, NEW s \in Slot, NEW i, NEW f \in {"plain", "cipher"},
         NEW lo \in Nat, NEW hi \in Nat, NEW k \in Nat, lo <= k, k < hi, hi <= End(s),
         Lies(fl, s, i, f, lo, hi, 0) \/ Lies(fl, s, i, f, lo, hi, 1)
  PROVE  InFlash(fl, i, k)
<1>1. /\ k \in lo .. hi - 1 /\ k + 0 = k
      /\ k \in 0 .. End(s) /\ k + 1 \in 0 .. End(s)
  BY EndType
<1>2. fl[s][k] = Data(i, k, f) \/ fl[s][k + 1] = Data(i, k, f)
  BY <1>1 DEF Lies
<1>3. QED
  BY <1>1, <1>2 DEF InFlash

(* The same for a range in its place in slot 0. *)
LEMMA LiesIn0 ==
  ASSUME NEW fl, NEW i, NEW f \in {"plain", "cipher"}, NEW hi \in Nat, NEW k \in Nat,
         k < hi, hi <= End(0), Lies(fl, 0, i, f, 0, hi, 0)
  PROVE  InFlash(fl, i, k)
<1>1. 0 \in Slot /\ 0 \in Nat /\ 0 <= k
  BY DEF Slot
<1>2. fl[0][k] = Data(i, k, f) /\ k \in 0 .. End(0)
  BY <1>1, EndType DEF Lies
<1>3. QED
  BY <1>1, <1>2 DEF InFlash

(* In every layout each sector of the new image is somewhere in flash. *)
LEMMA NewInFlash ==
  ASSUME NEW fl, NEW j \in Jobs, GoodJob(j), NEW c \in Cmds, Bounds(j, c),
         Layout(fl, j, c), NEW k \in Nat, k < Size(j.fr)
  PROVE  InFlash(fl, j.fr, k)
<1> DEFINE q == c.sec
           n == Size(j.fr)
           S == ShippedForm(j.fr)
           I == InstalledForm(j.fr)
<1>1. /\ q \in Nat /\ q + 1 \in Nat /\ n \in Nat
      /\ 0 \in Slot /\ 1 \in Slot /\ 0 \in Nat /\ 1 \in Nat
      /\ End(0) \in Nat /\ End(1) \in Nat /\ n <= End(1) /\ (~j.inplace => n <= End(0))
      /\ S \in {"plain", "cipher"} /\ I \in {"plain", "cipher"}
      /\ c.phase \in Phases
  BY JobSizes, EndType, FormType, MoveAssumption DEF Cmds, Slot
<1>p. PICK p \in Nat : p = q + 1
  BY <1>1
<1>2. CASE c.phase \in {"P3", "P4", "END"}
  <2>1. CASE j.inplace
    <3>1. Lies(fl, 1, j.fr, I, 0, n, 0)
      BY <1>2, <2>1, ExchangedLies DEF Layout
    <3>2. QED
      BY <1>1, <1>p, <3>1, LiesInFlash
  <2>2. CASE ~j.inplace
    <3>1. Lies(fl, 0, j.fr, I, 0, n, 0)
      BY <1>2, <2>2, ExchangedLies DEF Layout, NewIn0
    <3>2. QED
      BY <1>1, <1>p, <2>2, <3>1, LiesIn0
  <2>3. QED
    BY <2>1, <2>2
<1>3. CASE j.inplace /\ c.phase \in {"START", "MOVE_UP", "P2"}
  <2>1. \/ Lies(fl, 1, j.fr, S, 0, n, 0)
        \/ /\ q < n /\ Lies(fl, 1, j.fr, S, 0, p, 0) /\ Lies(fl, 1, j.fr, S, p, n, 1)
        \/ /\ q <= n /\ Lies(fl, 1, j.fr, I, 0, q, 0) /\ Lies(fl, 1, j.fr, S, q, n, 1)
    BY <1>3, <1>p DEF Layout, InPlaceLayout, NewIn1, Bounds
  <2>2. CASE Lies(fl, 1, j.fr, S, 0, n, 0)
    BY <1>1, <1>p, <2>2, LiesInFlash
  <2>3. CASE q < n /\ Lies(fl, 1, j.fr, S, 0, p, 0) /\ Lies(fl, 1, j.fr, S, p, n, 1)
    <3>1. CASE k < p
      BY <1>1, <1>p, <2>3, <3>1, LiesInFlash
    <3>2. CASE p <= k
      BY <1>1, <1>p, <2>3, <3>2, LiesInFlash
    <3>3. QED
      BY <1>1, <1>p, <3>1, <3>2
  <2>4. CASE q <= n /\ Lies(fl, 1, j.fr, I, 0, q, 0) /\ Lies(fl, 1, j.fr, S, q, n, 1)
    <3>1. CASE k < q
      BY <1>1, <1>p, <2>4, <3>1, LiesInFlash
    <3>2. CASE q <= k
      BY <1>1, <1>p, <2>4, <3>2, LiesInFlash
    <3>3. QED
      BY <1>1, <1>p, <3>1, <3>2
  <2>5. QED
    BY <2>1, <2>2, <2>3, <2>4
<1>4. CASE ~j.inplace /\ c.phase \in {"START", "MOVE_UP"}
  <2>1. Lies(fl, 1, j.fr, S, 0, n, 0)
    BY <1>4 DEF Layout, ClassicLayout, NewIn1
  <2>2. QED
    BY <1>1, <1>p, <2>1, LiesInFlash
<1>5. CASE ~j.inplace /\ c.phase = "P1"
  <2>1. Lies(fl, 0, j.fr, I, 0, Least(q, n), 0) /\ Lies(fl, 1, j.fr, S, q, n, 0)
    BY <1>5 DEF Layout, ClassicLayout, NewIn1, NewIn0
  <2>2. Least(q, n) \in Nat /\ Least(q, n) <= n /\ (k < q => k < Least(q, n))
    BY <1>1, <1>p DEF Least
  <2>3. CASE k < q
    BY <1>1, <1>p, <1>5, <2>1, <2>2, <2>3, LiesIn0
  <2>4. CASE q <= k
    BY <1>1, <1>p, <2>1, <2>4, LiesInFlash
  <2>5. QED
    BY <1>1, <1>p, <2>3, <2>4
<1>6. CASE ~j.inplace /\ c.phase = "P2"
  <2>1. Lies(fl, 0, j.fr, I, 0, Least(p, n), 0) /\ Lies(fl, 1, j.fr, S, p, n, 0)
    BY <1>6, <1>p DEF Layout, ClassicLayout, NewIn1, NewIn0
  <2>2. Least(p, n) \in Nat /\ Least(p, n) <= n /\ (k < p => k < Least(p, n))
    BY <1>1, <1>p DEF Least
  <2>3. CASE k < p
    BY <1>1, <1>p, <1>6, <2>1, <2>2, <2>3, LiesIn0
  <2>4. CASE p <= k
    BY <1>1, <1>p, <2>1, <2>4, LiesInFlash
  <2>5. QED
    BY <1>1, <1>p, <2>3, <2>4
<1>7. QED
  BY <1>1, <1>p, <1>2, <1>3, <1>4, <1>5, <1>6 DEF Phases, Bounds

(* So is each sector of the old one, unless the new one stays in slot 1. *)
LEMMA OldInFlash ==
  ASSUME NEW fl, NEW j \in Jobs, GoodJob(j), NEW c \in Cmds, Bounds(j, c),
         Layout(fl, j, c), ~j.inplace, NEW k \in Nat, k < Size(j.to)
  PROVE  InFlash(fl, j.to, k)
<1> DEFINE q == c.sec
           n == Size(j.to)
           S == ShippedForm(j.to)
           I == InstalledForm(j.to)
<1>1. /\ q \in Nat /\ q + 1 \in Nat /\ n \in Nat
      /\ 0 \in Slot /\ 1 \in Slot /\ 0 \in Nat /\ 1 \in Nat
      /\ End(0) \in Nat /\ End(1) \in Nat /\ n <= End(1) /\ n <= End(0)
      /\ S \in {"plain", "cipher"} /\ I \in {"plain", "cipher"}
      /\ c.phase \in Phases
  BY JobSizes, EndType, FormType, MoveAssumption DEF Cmds, Slot
<1>p. PICK p \in Nat : p = q + 1
  BY <1>1
<1>2. CASE c.phase \in {"P3", "P4", "END"}
  <2>1. Lies(fl, 1, j.to, S, 0, n, 0)
    BY <1>2, ExchangedLies DEF Layout, OldIn1
  <2>2. QED
    BY <1>1, <1>p, <2>1, LiesInFlash
<1>3. CASE c.phase = "START"
  <2>1. Lies(fl, 0, j.to, I, 0, n, 0)
    BY <1>3 DEF Layout, ClassicLayout, OldIn0
  <2>2. QED
    BY <1>1, <1>p, <2>1, LiesIn0
<1>4. CASE c.phase = "MOVE_UP"
  <2>1. Lies(fl, 0, j.to, I, 0, p, 0) /\ Lies(fl, 0, j.to, I, p, n, 1) /\ q < n
    BY <1>4, <1>p DEF Layout, ClassicLayout, OldIn0, Bounds
  <2>2. CASE k < p
    BY <1>1, <1>p, <2>1, <2>2, LiesInFlash
  <2>3. CASE p <= k
    BY <1>1, <1>p, <2>1, <2>3, LiesInFlash
  <2>4. QED
    BY <1>1, <1>p, <2>2, <2>3
<1>5. CASE c.phase \in {"P1", "P2"}
  <2>1. Lies(fl, 1, j.to, S, 0, Least(q, n), 0) /\ Lies(fl, 0, j.to, I, q, n, 1)
    BY <1>5 DEF Layout, ClassicLayout, OldIn0, OldIn1
  <2>2. Least(q, n) \in Nat /\ Least(q, n) <= n /\ (k < q => k < Least(q, n))
    BY <1>1, <1>p DEF Least
  <2>3. CASE k < q
    BY <1>1, <1>p, <2>1, <2>2, <2>3, LiesInFlash
  <2>4. CASE q <= k
    BY <1>1, <1>p, <2>1, <2>4, LiesInFlash
  <2>5. QED
    BY <1>1, <1>p, <2>3, <2>4
<1>6. QED
  BY <1>1, <1>p, <1>2, <1>3, <1>4, <1>5 DEF Phases

(* Writes counts up to WritesNeeded: no command is further on than SWP_END. *)
LEMMA WritesBound ==
  ASSUME NEW j \in Jobs, GoodJob(j), NEW c \in Cmds, Bounds(j, c)
  PROVE  /\ Writes(j, c) \in Nat /\ WritesNeeded(j) \in Nat
         /\ Writes(j, c) <= WritesNeeded(j)
<1>1. /\ Size(j.to) \in Nat /\ Size(j.fr) \in Nat /\ MaxSize(j) \in Nat
      /\ Size(j.to) <= MaxSize(j) /\ Size(j.fr) <= MaxSize(j)
      /\ c.sec \in Nat /\ c.phase \in Phases
  BY JobSizes, MoveAssumption DEF Cmds
<1> DEFINE e == [StartCmd({}, j.inplace) EXCEPT !.phase = "END"]
<1>2. e.phase = "END"
  BY DEF StartCmd
<1>3. CASE j.inplace
  <2>1. WritesNeeded(j) = (IF j.fr \in Encrypted THEN 2 * Size(j.fr) + 3 ELSE 2) + 2
    BY <1>2, <1>3 DEF WritesNeeded, Writes
  <2>2. QED
    BY <1>1, <1>3, <2>1 DEF Writes, Bounds, Phases
<1>4. CASE ~j.inplace
  <2>1. WritesNeeded(j) = Size(j.to) + 2 * MaxSize(j) + 5
    BY <1>1, <1>2, <1>4 DEF WritesNeeded, Writes
  <2>2. QED
    BY <1>1, <1>4, <2>1 DEF Writes, Bounds, Phases
<1>5. QED
  BY <1>3, <1>4

(* No sector of either image is ever lost: at any moment, in the middle of  *)
(* an erase or a copy and after any number of resumable power failures,     *)
(* each of them is whole in one of the two slots (zb_img_cmd_proc).         *)
THEOREM NothingLost == ASSUME ~FailAnywhere PROVE Spec => []NoImageLost
<1>1. TypeOK /\ SwapInv => NoImageLost
  <2> SUFFICES ASSUME TypeOK, SwapInv, NEW i \in ImagesOf(job), NEW k \in 0 .. Sectors[i] - 1
               PROVE  InFlash(flash, i, k)
    BY DEF NoImageLost
  <2>1. /\ job \in Jobs /\ GoodJob(job) /\ swpstat.val \in Cmds
        /\ Bounds(job, swpstat.val) /\ Layout(flash, job, swpstat.val)
    BY DEF TypeOK, SwapInv, LayoutMatches
  <2>2. CASE i = job.fr
    <3>1. k \in Nat /\ k < Size(job.fr)
      BY <2>1, <2>2, JobSizes
    <3>2. QED
      BY <2>1, <2>2, <3>1, NewInFlash
  <2>3. CASE i # job.fr
    <3>1. ~job.inplace /\ i = job.to /\ job.to # NoImage
      BY <2>3 DEF ImagesOf
    <3>2. k \in Nat /\ k < Size(job.to)
      BY <2>1, <3>1, JobSizes
    <3>3. QED
      BY <2>1, <3>1, <3>2, OldInFlash
  <2>4. QED
    BY <2>2, <2>3
<1>2. Spec => []TypeOK
  BY TypeCorrect
<1>3. Spec => []SwapInv
  BY SwapInvariant
<1>4. QED
  BY <1>1, <1>2, <1>3, PTL

(* When swpstat records that the sectors are exchanged, both images are     *)
(* complete in their new slots, each in the form its slot needs.            *)
THEOREM ExchangeComplete == ASSUME ~FailAnywhere PROVE Spec => []ExchangeDone
<1>1. SwapInv => ExchangeDone
  BY DEF SwapInv, LayoutMatches, Layout, ExchangeDone
<1>2. Spec => []SwapInv
  BY SwapInvariant
<1>3. QED
  BY <1>1, <1>2, PTL

(* A status area of WritesNeeded entries and one for each failure is never  *)
(* full when the loop records its next command, so the -ENOSPC that         *)
(* zb_img_cmd_proc ignores cannot occur.                                    *)
THEOREM LogIsEnough == ASSUME ~FailAnywhere PROVE Spec => []LogSuffices
<1>1. TypeOK /\ SwapInv => LogSuffices
  <2> SUFFICES ASSUME TypeOK, SwapInv, pc = "log",
                      StatEntries >= WritesNeeded(job) + MaxFails
               PROVE  swpstat.used < StatEntries
    BY DEF LogSuffices, CmdReg!HasRoom
  <2>1. /\ job \in Jobs /\ GoodJob(job) /\ swpstat.val \in Cmds /\ cmd \in Cmds
        /\ Bounds(job, swpstat.val) /\ Bounds(job, cmd)
    BY DEF TypeOK, SwapInv, LayoutMatches
  <2>2. /\ swpstat.used <= Writes(job, swpstat.val) + fails
        /\ Writes(job, cmd) = Writes(job, swpstat.val) + 1
    BY DEF SwapInv, LogMatches
  <2>3. /\ Writes(job, swpstat.val) \in Nat /\ WritesNeeded(job) \in Nat
        /\ Writes(job, cmd) <= WritesNeeded(job)
    BY <2>1, WritesBound
  <2>4. fails \in Nat /\ MaxFails \in Nat /\ fails <= MaxFails /\ swpstat.used \in Nat
        /\ StatEntries \in Nat
    BY MoveAssumption DEF TypeOK, CmdReg!Registers
  <2>5. QED
    BY <2>2, <2>3, <2>4
<1>2. Spec => []TypeOK
  BY TypeCorrect
<1>3. Spec => []SwapInv
  BY SwapInvariant
<1>4. QED
  BY <1>1, <1>2, <1>3, PTL

(* The command recorded in swpstat only ever moves one step forward: no     *)
(* step is repeated or skipped, across resets too.                          *)
THEOREM Progress == ASSUME ~FailAnywhere PROVE Spec => AlwaysForward
<1> DEFINE Forward == swpstat'.val # swpstat.val =>
                        Writes(job, swpstat'.val) = Writes(job, swpstat.val) + 1
<1>1. SwapInv /\ [Next]_vars => [Forward]_vars
  <2> SUFFICES ASSUME SwapInv, Next, swpstat'.val # swpstat.val
               PROVE  Writes(job, swpstat'.val) = Writes(job, swpstat.val) + 1
    OBVIOUS
  <2>1. CASE WriteSwpstat
    <3>1. pc = "log" /\ swpstat'.val = cmd
      BY <2>1 DEF WriteSwpstat, CmdReg!Written
    <3>2. QED
      BY <3>1 DEF SwapInv, LogMatches
  <2>2. CASE FailInLog
    BY <2>2 DEF FailInLog, CmdReg!Torn
  <2>3. ~WriteSwpstat /\ ~FailInLog => swpstat' = swpstat
    BY DEF Next, Loader, PowerFail, ReadSwpstat, SwapDone, StartNoMove, StartNoMoveUp,
           StartMoveUp, SkipP1, SkipP2, Goto, EraseSector, MoveUp, SwapP1, SwapP2,
           ProgramSector, WritePrm, WriteSlt0Cmd, FinishP4, Restart, FailBetween,
           FailInErase, FailInCopy, FailInSlt0End
  <2>4. QED
    BY <2>1, <2>2, <2>3
<1>2. Spec => []SwapInv
  BY SwapInvariant
<1>3. QED
  BY <1>1, <1>2, PTL DEF Spec, AlwaysForward

-----------------------------------------------------------------------------
(* How much is left to do *)

(* The status area is large enough for every swap and for what failures     *)
(* waste of it.  If it is not, the loop repeats its last step for ever.     *)
AreaSuffices ==
  \A j \in Jobs : GoodJob(j) => StatEntries >= WritesNeeded(j) + MaxFails

WritesLeft == WritesNeeded(job) - Writes(job, swpstat.val)

(* Steps up to the next record at most. *)
StepsLeft ==
  CASE pc = "off" -> 6
    [] pc = "read" -> 5
    [] pc = "step" -> 4
    [] pc = "program" -> 3
    [] pc = "slt0cmd" -> 2
    [] pc = "log" -> 1
    [] OTHER -> 0

(* One of a finite number of failures is behind; or one more command is     *)
(* recorded; or the step under way has come nearer to its record.           *)
Nearer ==
  \/ fails' > fails
  \/ fails' = fails /\ WritesLeft' < WritesLeft
  \/ fails' = fails /\ WritesLeft' = WritesLeft /\ StepsLeft' < StepsLeft

LEMMA StepIsNearer ==
  ASSUME TypeOK, SwapInv, TypeOK', SwapInv', LogSuffices, AreaSuffices, Next
  PROVE  Nearer
<1>1. job \in Jobs /\ GoodJob(job) /\ swpstat.val \in Cmds /\ Bounds(job, swpstat.val)
  BY DEF TypeOK, SwapInv, LayoutMatches
<1>2. Writes(job, swpstat.val) \in Nat /\ WritesNeeded(job) \in Nat
  BY <1>1, WritesBound
<1>3. CASE PowerFail
  <2>1. fails' = fails + 1
    BY <1>3 DEF PowerFail, FailBetween, FailInErase, FailInCopy, FailInSlt0End, FailInLog, Fail
  <2>2. fails \in Nat
    BY MoveAssumption DEF TypeOK
  <2>3. QED
    BY <2>1, <2>2 DEF Nearer
<1>4. CASE WriteSwpstat
  <2>1. CmdReg!HasRoom(swpstat)
    BY <1>1, <1>4 DEF LogSuffices, AreaSuffices, WriteSwpstat
  <2>2. pc = "log" /\ swpstat'.val = cmd /\ job' = job /\ fails' = fails
    BY <1>4, <2>1 DEF WriteSwpstat, CmdReg!Written
  <2>3. Writes(job, cmd) = Writes(job, swpstat.val) + 1
    BY <2>2 DEF SwapInv, LogMatches
  <2>4. WritesLeft' = WritesNeeded(job) - Writes(job, cmd)
    BY <2>2 DEF WritesLeft
  <2>5. QED
    BY <1>2, <2>2, <2>3, <2>4 DEF WritesLeft, Nearer
<1>5. CASE \/ ReadSwpstat \/ SwapDone \/ StartNoMove \/ StartNoMoveUp \/ StartMoveUp
           \/ SkipP1 \/ SkipP2 \/ EraseSector \/ MoveUp \/ SwapP1 \/ SwapP2
           \/ WritePrm \/ WriteSlt0Cmd \/ FinishP4 \/ Restart
  <2>1. swpstat' = swpstat /\ job' = job /\ fails' = fails
    BY <1>5 DEF ReadSwpstat, SwapDone, StartNoMove, StartNoMoveUp, StartMoveUp, SkipP1,
                SkipP2, Goto, EraseSector, MoveUp, SwapP1, SwapP2, ProgramSector, WritePrm,
                WriteSlt0Cmd, FinishP4, Restart
  <2>2. \/ pc = "read" /\ pc' \in {"step", "done"}
        \/ pc = "step" /\ pc' \in {"log", "program"}
        \/ pc = "program" /\ pc' \in {"log", "slt0cmd"}
        \/ pc = "slt0cmd" /\ pc' = "log"
        \/ pc = "off" /\ pc' = "read"
    BY <1>5 DEF ReadSwpstat, SwapDone, StartNoMove, StartNoMoveUp, StartMoveUp, SkipP1,
                SkipP2, Goto, AtPhase, EraseSector, Erases, MoveUp, SwapP1, SwapP2,
                ProgramSector, WritePrm, WriteSlt0Cmd, FinishP4, Restart
  <2>3. WritesLeft' = WritesLeft
    BY <2>1 DEF WritesLeft
  <2>4. StepsLeft' < StepsLeft
    BY <2>2 DEF StepsLeft
  <2>5. QED
    BY <2>1, <2>3, <2>4 DEF Nearer
<1>6. QED
  BY <1>3, <1>4, <1>5 DEF Next, Loader

(* A swap cannot go on for ever: a number of commands is left to record,    *)
(* and each step is one of the few between two records, records the next    *)
(* command, or is one of at most MaxFails power failures; and where the     *)
(* loop stops, SWP_END is recorded.                                         *)
THEOREM SwapIsBounded ==
  ASSUME ~FailAnywhere, AreaSuffices
  PROVE  Spec => /\ [](WritesLeft \in Nat /\ StepsLeft \in 0 .. 6 /\ fails \in 0 .. MaxFails)
                 /\ [](pc = "done" => swpstat.val.phase = "END")
                 /\ [][Nearer]_vars
<1>1. TypeOK /\ SwapInv =>
        /\ WritesLeft \in Nat /\ StepsLeft \in 0 .. 6 /\ fails \in 0 .. MaxFails
        /\ pc = "done" => swpstat.val.phase = "END"
  <2> SUFFICES ASSUME TypeOK, SwapInv
               PROVE  /\ WritesLeft \in Nat /\ StepsLeft \in 0 .. 6 /\ fails \in 0 .. MaxFails
                      /\ pc = "done" => swpstat.val.phase = "END"
    OBVIOUS
  <2>1. job \in Jobs /\ GoodJob(job) /\ swpstat.val \in Cmds /\ Bounds(job, swpstat.val)
    BY DEF TypeOK, SwapInv, LayoutMatches
  <2>2. WritesLeft \in Nat
    BY <2>1, WritesBound DEF WritesLeft
  <2>3. StepsLeft \in 0 .. 6 /\ fails \in 0 .. MaxFails
    BY DEF StepsLeft, TypeOK
  <2>4. QED
    BY <2>2, <2>3 DEF SwapInv, CmdMatches
<1>2. TypeOK /\ SwapInv /\ TypeOK' /\ SwapInv' /\ LogSuffices /\ [Next]_vars => [Nearer]_vars
  BY StepIsNearer
<1>3. QED
  BY <1>1, <1>2, TypeCorrect, SwapInvariant, LogIsEnough, PTL DEF Spec
=============================================================================
