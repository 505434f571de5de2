-------------------------- MODULE ZbMoveSwapProofs --------------------------
(***************************************************************************)
(* What zb_img_swap and main() rely on after a swap, for images and slots  *)
(* of every size: the parameters of phase 3 describe the slots, and the    *)
(* sector by sector swap of zb_move.c is the atomic exchange of ZbSwap.    *)
(*                                                                         *)
(* SwapInv does not say it all.  What a swap never touches has to be       *)
(* there as well: slot 0 in an in place swap, slot 1 when there is nothing *)
(* in slot 0 to exchange it for; and phase 3 writes its sector twice, with *)
(* the parameters and with the executed command behind them.               *)
(***************************************************************************)
EXTENDS ZbMoveSwap, ZbMoveProofs

(* The images that the swap leaves in slot 0 and in slot 1, and the form    *)
(* of the one in slot 1.                                                    *)
Front(j) == IF j.inplace THEN j.to ELSE j.fr
Back(j) == IF j.inplace \/ j.to = NoImage THEN j.fr ELSE j.to
BackForm(j) == IF j.inplace THEN InstalledForm(j.fr) ELSE ShippedForm(Back(j))

(* What is in the slots that the swap has no business with. *)
StaysPut(fl, j) ==
  /\ j.inplace => IF j.to = NoImage THEN ~HasHeader(fl[0][0])
                  ELSE Holds(fl[0], j.to, InstalledForm(j.to))
  /\ ~j.inplace /\ j.to = NoImage => Holds(fl[1], j.fr, ShippedForm(j.fr))

(* What phase 3 leaves in the last sector of slot 0. *)
Recorded(fl, j) ==
  LET end == fl[0][End(0)] IN
  /\ end.prm = PrmOf(fl, j.inplace)
  /\ j.inplace => "PERM" \in end.log.val.cmd1

HalfRecorded(fl, j) ==
  fl[0][End(0)] = [prm |-> PrmOf(fl, j.inplace), log |-> CmdReg!Blank]

(* The flags of the request are passed on from command to command.  *)
FlagsMatch ==
  /\ job.inplace => "PERM" \in swpstat.val.cmd1
  /\ pc = "log" => cmd.cmd1 = swpstat.val.cmd1

PrmInv ==
  /\ StaysPut(flash, job)
  /\ FlagsMatch
  /\ pc = "slt0cmd" => HalfRecorded(flash, job)
  /\ \/ swpstat.val.phase \in {"P4", "END"}
     \/ pc = "log" /\ cmd.phase = "P4"
     => Recorded(flash, job)

-----------------------------------------------------------------------------
(* What the slots hold after the exchange *)

LEMMA HeaderInfo ==
  ASSUME NEW fl, NEW s \in Slot, NEW i \in Image, NEW f \in {"plain", "cipher"},
         Holds(fl[s], i, f)
  PROVE  /\ fl[s][0] = Data(i, 0, f) /\ HasHeader(fl[s][0]) /\ fl[s][0].img = i
         /\ ImgInfo(fl, s, 0) = [slot |-> s, valid |-> TRUE, img |-> i, n |-> Sectors[i],
                                 enc |-> i \in Encrypted]
<1>1. 0 \in 0 .. Sectors[i] - 1
  BY ImageAssumption
<1>2. fl[s][0] = Data(i, 0, f)
  BY <1>1 DEF Holds
<1>3. HasHeader(fl[s][0]) /\ fl[s][0].img = i
  BY <1>2, DataType DEF HasHeader
<1>4. QED
  BY <1>2, <1>3 DEF ImgInfo

LEMMA NoHeaderInfo ==
  ASSUME NEW fl, NEW s \in Slot, ~HasHeader(fl[s][0])
  PROVE  ImgInfo(fl, s, 0) = [slot |-> s, valid |-> FALSE, img |-> NoImage, n |-> 0,
                              enc |-> FALSE]
BY DEF ImgInfo

(* Both slots are known, whatever the job was. *)
LEMMA SlotsKnown ==
  ASSUME NEW fl, NEW j \in Jobs, GoodJob(j), Exchanged(fl, j), StaysPut(fl, j)
  PROVE  /\ Back(j) \in Image /\ BackForm(j) \in {"plain", "cipher"}
         /\ Sectors[Back(j)] <= End(1) /\ Holds(fl[1], Back(j), BackForm(j))
         /\ IF Front(j) = NoImage THEN j.inplace /\ ~HasHeader(fl[0][0])
            ELSE /\ Front(j) \in Image /\ Sectors[Front(j)] <= End(0)
                 /\ InstalledForm(Front(j)) \in {"plain", "cipher"}
                 /\ Holds(fl[0], Front(j), InstalledForm(Front(j)))
<1>1. /\ j.fr \in Image /\ j.fr # NoImage /\ Size(j.fr) = Sectors[j.fr]
      /\ Sectors[j.fr] <= End(1) /\ (~j.inplace => Sectors[j.fr] <= End(0))
      /\ j.to # NoImage => /\ j.to \in Image /\ Sectors[j.to] <= End(0)
                           /\ Sectors[j.to] <= End(1)
  BY JobSizes, ImageAssumption
<1>2. CASE j.inplace
  BY <1>1, <1>2, FormType DEF Exchanged, StaysPut, Front, Back, BackForm
<1>3. CASE ~j.inplace /\ j.to = NoImage
  BY <1>1, <1>3, FormType DEF Exchanged, StaysPut, Front, Back, BackForm
<1>4. CASE ~j.inplace /\ j.to # NoImage
  BY <1>1, <1>4, FormType DEF Exchanged, StaysPut, Front, Back, BackForm
<1>5. QED
  BY <1>2, <1>3, <1>4

-----------------------------------------------------------------------------
(* What a step writes, and what it spares *)

Spares(s, p) ==
  /\ job.inplace => s = 1 \/ p = End(0)
  /\ ~job.inplace /\ job.to = NoImage => s = 0 \/ p = End(1)
  /\ cmd.phase = "P3" => s = 0 /\ p = End(0)
  /\ cmd.phase = "P4" => s = 1 /\ p = End(1)

LEMMA StepSpares ==
  ASSUME TypeOK, SwapInv, pc \in {"step", "program"}, Copies \/ cmd.phase \in {"P3", "P4"}
  PROVE  Spares(Dest.slot, Dest.sec)
<1>1. /\ cmd = swpstat.val /\ cmd \in Cmds /\ job \in Jobs /\ GoodJob(job)
      /\ Bounds(job, cmd) /\ cmd.sec \in Nat
  BY MoveAssumption DEF TypeOK, SwapInv, CmdMatches, LayoutMatches, Cmds
<1>2. Size(NoImage) = 0
  BY DEF Size
<1>3. CASE cmd.phase \in {"P3", "P4"}
  BY <1>3 DEF Spares, Dest
<1>4. CASE cmd.phase \in Exchanging
  <2>1. /\ info.to.slot = (IF job.inplace THEN 1 ELSE 0) /\ info.fr.slot = 1
        /\ EndTo = Size(IF job.inplace THEN job.fr ELSE job.to)
    BY <1>1, <1>4, InfoUsed, JobEnds
  <2>2. CASE cmd.phase = "MOVE_UP"
    <3>1. ~job.inplace => job.to # NoImage
      BY <1>1, <1>2, <2>2 DEF Bounds
    <3>2. QED
      BY <2>1, <2>2, <3>1 DEF Spares, Dest
  <2>3. CASE cmd.phase = "P1"
    BY <1>1, <2>1, <2>3 DEF Spares, Dest, Bounds
  <2>4. CASE cmd.phase = "P2"
    <3>1. ~job.inplace => job.to # NoImage
      BY <1>1, <1>2, <2>1, <2>4 DEF Copies, InTo
    <3>2. QED
      BY <2>1, <2>4, <3>1 DEF Spares, Dest
  <2>5. QED
    BY <1>4, <2>2, <2>3, <2>4 DEF Exchanging, Copies
<1>5. QED
  BY <1>3, <1>4 DEF Copies, Exchanging

LEMMA StaysPutKept ==
  ASSUME job \in Jobs, GoodJob(job), NEW s, NEW p, NEW x, Wrote(flash, flash', s, p, x),
         job' = job, Spares(s, p), StaysPut(flash, job)
  PROVE  StaysPut(flash', job)
<1>1. /\ 0 \in Slot /\ 1 \in Slot /\ End(0) \in Nat \ {0} /\ End(1) \in Nat \ {0}
      /\ job.fr \in Image /\ Sectors[job.fr] \in Nat /\ Sectors[job.fr] <= End(1)
      /\ job.to # NoImage => /\ job.to \in Image /\ Sectors[job.to] \in Nat
                             /\ Sectors[job.to] <= End(0)
  BY EndType, JobSizes, ImageAssumption DEF Slot
<1>2. ASSUME job.inplace, job.to = NoImage PROVE ~HasHeader(flash'[0][0])
  <2>1. flash'[0][0] = flash[0][0]
    BY <1>1, <1>2 DEF Wrote, Spares
  <2>2. QED
    BY <1>2, <2>1 DEF StaysPut
<1>3. ASSUME job.inplace, job.to # NoImage PROVE Holds(flash'[0], job.to, InstalledForm(job.to))
  <2>1. Lies(flash, 0, job.to, InstalledForm(job.to), 0, Sectors[job.to], 0)
    BY <1>1, <1>3, HoldsLies DEF StaysPut
  <2>2. Lies(flash', 0, job.to, InstalledForm(job.to), 0, Sectors[job.to], 0)
    BY <1>1, <1>3, <2>1, LiesPut DEF Spares
  <2>3. QED
    BY <1>1, <1>3, <2>2, HoldsLies
<1>4. ASSUME ~job.inplace, job.to = NoImage PROVE Holds(flash'[1], job.fr, ShippedForm(job.fr))
  <2>1. Lies(flash, 1, job.fr, ShippedForm(job.fr), 0, Sectors[job.fr], 0)
    BY <1>1, <1>4, HoldsLies DEF StaysPut
  <2>2. Lies(flash', 1, job.fr, ShippedForm(job.fr), 0, Sectors[job.fr], 0)
    BY <1>1, <1>4, <2>1, LiesPut DEF Spares
  <2>3. QED
    BY <1>1, <2>2, HoldsLies
<1>5. QED
  BY <1>2, <1>3, <1>4 DEF StaysPut

(* The parameters do not depend on the sectors they are kept in. *)
LEMMA PrmSame ==
  ASSUME NEW fl, NEW fl2, NEW j \in Jobs, GoodJob(j), Exchanged(fl, j), StaysPut(fl, j),
         NEW s, NEW x, Wrote(fl, fl2, s, End(s), x)
  PROVE  PrmOf(fl2, j.inplace) = PrmOf(fl, j.inplace)
<1>1. 0 \in Slot /\ 1 \in Slot /\ End(0) \in Nat \ {0} /\ End(1) \in Nat \ {0}
  BY EndType DEF Slot
<1>2. \A t \in Slot : ImgInfo(fl, t, 0).slot = t /\ ImgInfo(fl, t, 0).n \in Nat
                       /\ ImgInfo(fl, t, 0).n <= End(t)
  <2>1. ImgInfo(fl, 1, 0).slot = 1 /\ ImgInfo(fl, 1, 0).n = Sectors[Back(j)]
    BY <1>1, SlotsKnown, HeaderInfo
  <2>2. ImgInfo(fl, 0, 0).slot = 0
        /\ ImgInfo(fl, 0, 0).n = IF Front(j) = NoImage THEN 0 ELSE Sectors[Front(j)]
    BY <1>1, SlotsKnown, HeaderInfo, NoHeaderInfo
  <2>3. QED
    BY <1>1, <2>1, <2>2, SlotsKnown, ImageAssumption DEF Slot
<1>3. \A t \in Slot : fl2[t][0] = fl[t][0]
  BY EndType DEF Wrote
<1>4. \A t \in Slot : ImgInfo(fl2, t, 0) = ImgInfo(fl, t, 0)
  BY <1>3 DEF ImgInfo
<1>5. \A t \in Slot : Crc(fl2, ImgInfo(fl, t, 0)) = Crc(fl, ImgInfo(fl, t, 0))
  <2> SUFFICES ASSUME NEW t \in Slot
               PROVE  Crc(fl2, ImgInfo(fl, t, 0)) = Crc(fl, ImgInfo(fl, t, 0))
    OBVIOUS
  <2>1. \A k \in 0 .. ImgInfo(fl, t, 0).n - 1 : fl2[t][k] = fl[t][k]
    BY <1>2, EndType DEF Wrote
  <2>2. QED
    BY <1>2, <2>1 DEF Crc
<1>6. QED
  BY <1>1, <1>4, <1>5 DEF PrmOf

-----------------------------------------------------------------------------
(* The last three commands of a swap follow one another. *)
LEMMA WritesStages ==
  ASSUME NEW j \in Jobs, GoodJob(j), NEW c \in Cmds, NEW d \in Cmds,
         Bounds(j, c), Bounds(j, d), Writes(j, d) = Writes(j, c) + 1
  PROVE  /\ c.phase \in Exchanging => d.phase \in Exchanging \cup {"P3"}
         /\ c.phase = "P3" => d.phase = "P4"
         /\ c.phase = "P4" => d.phase = "END"
         /\ c.phase # "END"
<1> DEFINE ex == IF ~j.inplace THEN Size(j.to) + 2 * MaxSize(j) + 3
                 ELSE IF j.fr \in Encrypted THEN 2 * Size(j.fr) + 3 ELSE 2
<1>1. \A x \in Cmds : Bounds(j, x) =>
        /\ x.phase \in Exchanging => Writes(j, x) < ex /\ Writes(j, x) \in Nat
        /\ x.phase = "P3" => Writes(j, x) = ex
        /\ x.phase = "P4" => Writes(j, x) = ex + 1
        /\ x.phase = "END" => Writes(j, x) = ex + 2
        /\ x.phase \in Exchanging \cup {"P3", "P4", "END"}
  <2> SUFFICES ASSUME NEW x \in Cmds, Bounds(j, x)
               PROVE  /\ x.phase \in Exchanging => Writes(j, x) < ex /\ Writes(j, x) \in Nat
                      /\ x.phase = "P3" => Writes(j, x) = ex
                      /\ x.phase = "P4" => Writes(j, x) = ex + 1
                      /\ x.phase = "END" => Writes(j, x) = ex + 2
                      /\ x.phase \in Exchanging \cup {"P3", "P4", "END"}
    OBVIOUS
  <2>1. /\ Size(j.to) \in Nat /\ Size(j.fr) \in Nat /\ MaxSize(j) \in Nat
        /\ Size(j.to) <= MaxSize(j) /\ Size(j.fr) <= MaxSize(j)
        /\ x.sec \in Nat /\ x.phase \in Phases
    BY JobSizes, MoveAssumption DEF Cmds
  <2>2. x.phase \in Exchanging => Writes(j, x) < ex /\ Writes(j, x) \in Nat
    BY <2>1 DEF Exchanging, Writes, Bounds
  <2>3. QED
    BY <2>1, <2>2 DEF Writes, Phases, Exchanging
<1>2. ex \in Nat
  BY JobSizes
<1> HIDE DEF ex
<1>3. /\ c.phase = "P3" => Writes(j, d) = ex + 1
      /\ c.phase = "P4" => Writes(j, d) = ex + 2
      /\ c.phase = "END" => Writes(j, d) = ex + 3
      /\ c.phase \in Exchanging => Writes(j, d) <= ex
  BY <1>1, <1>2
<1>4. QED
  BY <1>1, <1>2, <1>3

-----------------------------------------------------------------------------
(* The invariant of phase 3 *)

LEMMA InitPrm == Init => PrmInv
<1> SUFFICES ASSUME Init PROVE PrmInv
  OBVIOUS
<1>1. /\ job \in Jobs /\ GoodJob(job) /\ pc = "read"
      /\ \E c1 \in SUBSET {"PERM"} :
           /\ job.inplace => "PERM" \in c1
           /\ swpstat = CmdReg!Written(CmdReg!Blank, StartCmd(c1, job.inplace))
      /\ \E c : flash = [s \in Slot |->
                   IF s = 1 THEN Filled(1, job.fr, ShippedForm(job.fr), c)
                   ELSE Filled(0, job.to, InstalledForm(job.to), c)]
  BY DEF Init
<1>2. swpstat.val.phase = "START" /\ FlagsMatch
  BY <1>1 DEF FlagsMatch, CmdReg!Written, StartCmd
<1>3. PICK c : /\ flash[0] = Filled(0, job.to, InstalledForm(job.to), c)
               /\ flash[1] = Filled(1, job.fr, ShippedForm(job.fr), c)
  BY <1>1 DEF Slot
<1>4. /\ End(0) \in Nat /\ End(1) \in Nat
      /\ job.fr # NoImage /\ Sectors[job.fr] \in Nat /\ Sectors[job.fr] <= End(1)
      /\ job.to # NoImage => Sectors[job.to] \in Nat /\ Sectors[job.to] <= End(0)
  BY <1>1, EndType, JobSizes, ImageAssumption DEF Slot
<1>5. job.to = NoImage => ~HasHeader(flash[0][0])
  BY <1>3, <1>4, MarkersAssumption DEF Filled, Size, HasHeader
<1>6. job.to # NoImage => Holds(flash[0], job.to, InstalledForm(job.to))
  BY <1>3, <1>4 DEF Filled, Size, Holds
<1>7. Holds(flash[1], job.fr, ShippedForm(job.fr))
  BY <1>3, <1>4 DEF Filled, Size, Holds
<1>8. QED
  BY <1>1, <1>2, <1>5, <1>6, <1>7 DEF PrmInv, StaysPut

(* What is recorded survives the erase of slt1end. *)
LEMMA RecordKept ==
  ASSUME TypeOK, SwapInv, PrmInv, swpstat.val.phase = "P4",
         NEW x, Wrote(flash, flash', 1, End(1), x)
  PROVE  Recorded(flash', job)
<1>1. Exchanged(flash, job) /\ StaysPut(flash, job) /\ Recorded(flash, job)
  BY DEF PrmInv, SwapInv, LayoutMatches, Layout
<1>2. flash'[0][End(0)] = flash[0][End(0)]
  <2>1. 0 \in Slot /\ End(0) \in 0 .. End(0)
    BY EndType DEF Slot
  <2>2. QED
    BY <2>1 DEF Wrote
<1>3. PrmOf(flash', job.inplace) = PrmOf(flash, job.inplace)
  BY <1>1, PrmSame DEF TypeOK, SwapInv
<1>4. QED
  BY <1>1, <1>2, <1>3 DEF Recorded

(* A step of the loop, complete or cut, in any phase. *)
LEMMA StepKeepsRecord ==
  ASSUME TypeOK, SwapInv, PrmInv, pc \in {"step", "program"}, job' = job,
         Copies \/ cmd.phase \in {"P3", "P4"}, NEW x, Put(Dest, x)
  PROVE  /\ StaysPut(flash', job)
         /\ swpstat.val.phase \in {"P4", "END"} => Recorded(flash', job)
<1>1. Wrote(flash, flash', Dest.slot, Dest.sec, x) /\ Spares(Dest.slot, Dest.sec)
  BY StepWrites, StepSpares
<1>2. cmd = swpstat.val /\ cmd.phase # "END" /\ job \in Jobs /\ GoodJob(job)
  BY DEF TypeOK, SwapInv, CmdMatches
<1>3. StaysPut(flash', job)
  BY <1>1, <1>2, StaysPutKept DEF PrmInv
<1>4. ASSUME swpstat.val.phase = "P4" PROVE Recorded(flash', job)
  BY <1>1, <1>2, <1>4, RecordKept DEF Spares
<1>5. QED
  BY <1>2, <1>3, <1>4

(* Nothing is written, and nothing recorded. *)
LEMMA QuietKeepsPrm ==
  ASSUME PrmInv, flash' = flash, swpstat'.val = swpstat.val, job' = job,
         pc' \notin {"log", "slt0cmd"}
  PROVE  PrmInv'
BY DEF PrmInv, FlagsMatch, Recorded, StaysPut

(* A step that only decides which command comes next. *)
LEMMA DecideKeepsPrm ==
  ASSUME TypeOK, SwapInv, PrmInv, pc \in {"step", "program"}, NEW c, Goto(c),
         c.cmd1 = cmd.cmd1, c.phase # "P4"
  PROVE  PrmInv'
<1>1. cmd = swpstat.val
  BY DEF SwapInv, CmdMatches
<1>2. QED
  BY <1>1 DEF Goto, PrmInv, FlagsMatch, Recorded, StaysPut

(* A sector was copied. *)
LEMMA CopyKeepsPrm ==
  ASSUME TypeOK, SwapInv, PrmInv, NEW p, ProgramSector(p), p \in {"MOVE_UP", "P1", "P2"},
         cmd'.cmd1 = cmd.cmd1, cmd'.phase # "P4"
  PROVE  PrmInv'
<1>1. cmd = swpstat.val /\ Copies
  BY DEF ProgramSector, SwapInv, CmdMatches
<1>2. StaysPut(flash', job)
  BY <1>1, StepKeepsRecord DEF ProgramSector
<1>3. QED
  BY <1>1, <1>2 DEF ProgramSector, PrmInv, FlagsMatch

LEMMA NextPrm == TypeOK /\ TypeOK' /\ SwapInv /\ PrmInv /\ [Next]_vars => PrmInv'
<1> SUFFICES ASSUME TypeOK, TypeOK', SwapInv, PrmInv, [Next]_vars PROVE PrmInv'
  OBVIOUS
<1> USE DEF AtPhase
<1>v. /\ job \in Jobs /\ GoodJob(job) /\ Tabulated(flash) /\ 0 \in Slot /\ 1 \in Slot
      /\ End(0) \in 0 .. End(0)
  BY EndType DEF TypeOK, SwapInv, Slot
<1>c. /\ pc \in {"step", "program", "slt0cmd"} => cmd = swpstat.val /\ cmd.phase # "END"
      /\ pc \in {"step", "program", "slt0cmd", "log"} => cmd \in Cmds
  BY DEF TypeOK, SwapInv, CmdMatches
<1>1. CASE ReadSwpstat \/ SwapDone \/ Restart
  BY <1>1, QuietKeepsPrm DEF ReadSwpstat, SwapDone, Restart
<1>2. CASE StartNoMove
  <2>1. /\ [cmd EXCEPT !.phase = "P3", !.sec = 0].cmd1 = cmd.cmd1
        /\ [cmd EXCEPT !.phase = "P3", !.sec = 0].phase = "P3"
    BY <1>2, <1>c DEF StartNoMove, Cmds
  <2>2. QED
    BY <1>2, <2>1, DecideKeepsPrm DEF StartNoMove
<1>3. CASE StartNoMoveUp
  <2>1. /\ [cmd EXCEPT !.phase = "P1", !.sec = 0].cmd1 = cmd.cmd1
        /\ [cmd EXCEPT !.phase = "P1", !.sec = 0].phase = "P1"
    BY <1>3, <1>c DEF StartNoMoveUp, Cmds
  <2>2. QED
    BY <1>3, <2>1, DecideKeepsPrm DEF StartNoMoveUp
<1>4. CASE StartMoveUp
  <2> DEFINE c == [cmd EXCEPT !.phase = "MOVE_UP", !.sec = Sector8(EndTo - 1)]
  <2>1. c.cmd1 = cmd.cmd1 /\ c.phase = "MOVE_UP"
    BY <1>4, <1>c DEF StartMoveUp, Cmds
  <2>2. pc = "step" /\ Goto(c)
    BY <1>4 DEF StartMoveUp
  <2>3. QED
    BY <2>1, <2>2, DecideKeepsPrm
<1>5. CASE SkipP1
  <2> DEFINE c == [cmd EXCEPT !.phase = IF InTo THEN "P2" ELSE "P3"]
  <2>1. c.cmd1 = cmd.cmd1 /\ c.phase \in {"P2", "P3"}
    BY <1>5, <1>c DEF SkipP1, Cmds
  <2>2. pc = "step" /\ Goto(c)
    BY <1>5 DEF SkipP1
  <2>3. QED
    BY <2>1, <2>2, DecideKeepsPrm
<1>6. CASE SkipP2
  <2>1. PICK c : /\ Goto(c) /\ pc = "step"
                 /\ c = IF InFr THEN [cmd EXCEPT !.phase = "P1", !.sec = Sector8(cmd.sec + 1)]
                        ELSE [cmd EXCEPT !.phase = "P3"]
    BY <1>6 DEF SkipP2
  <2>2. c.cmd1 = cmd.cmd1 /\ c.phase \in {"P1", "P3"}
    BY <1>c, <2>1 DEF Cmds
  <2>3. QED
    BY <2>1, <2>2, DecideKeepsPrm
<1>7. CASE FinishP4
  <2>1. /\ [cmd EXCEPT !.phase = "END"].cmd1 = cmd.cmd1
        /\ [cmd EXCEPT !.phase = "END"].phase = "END"
    BY <1>7, <1>c DEF FinishP4, Cmds
  <2>2. QED
    BY <1>7, <2>1, DecideKeepsPrm DEF FinishP4
<1>8. CASE EraseSector
  <2>1. /\ pc = "step" /\ (Copies \/ cmd.phase \in {"P3", "P4"}) /\ Put(Dest, Erased)
        /\ pc' = "program" /\ UNCHANGED <<swpstat, cmd, info, fails, job>>
    BY <1>8 DEF EraseSector, Erases
  <2>2. /\ StaysPut(flash', job)
        /\ swpstat.val.phase \in {"P4", "END"} => Recorded(flash', job)
    BY <2>1, StepKeepsRecord
  <2>3. QED
    BY <2>1, <2>2 DEF PrmInv, FlagsMatch
<1>9. CASE MoveUp
  <2>1. cmd'.cmd1 = cmd.cmd1 /\ cmd'.phase \in {"MOVE_UP", "P2", "P1"}
    BY <1>9, <1>c DEF MoveUp, ProgramSector, Cmds
  <2>2. QED
    BY <1>9, <2>1, CopyKeepsPrm DEF MoveUp
<1>10. CASE SwapP1
  <2>1. cmd'.cmd1 = cmd.cmd1 /\ cmd'.phase = "P2"
    BY <1>10, <1>c DEF SwapP1, ProgramSector, Cmds
  <2>2. QED
    BY <1>10, <2>1, CopyKeepsPrm DEF SwapP1
<1>11. CASE SwapP2
  <2>1. cmd'.cmd1 = cmd.cmd1 /\ cmd'.phase \in {"P1", "P2"}
    BY <1>11, <1>c DEF SwapP2, ProgramSector, Cmds
  <2>2. QED
    BY <1>11, <2>1, CopyKeepsPrm DEF SwapP2
<1>x. swpstat.val.phase = "P3" => Exchanged(flash, job) /\ StaysPut(flash, job)
  BY DEF PrmInv, SwapInv, LayoutMatches, Layout
<1>12. CASE WritePrm
  <2> DEFINE x == [prm |-> PrmOf(flash, cmd.inplace), log |-> CmdReg!Blank]
  <2>1. /\ pc = "program" /\ cmd.phase = "P3" /\ Put(Dest, x) /\ pc' = "slt0cmd"
        /\ UNCHANGED <<swpstat, cmd, info, fails, job>>
    BY <1>12 DEF WritePrm
  <2> HIDE DEF x
  <2>2. StaysPut(flash', job)
    BY <2>1, StepKeepsRecord
  <2>3. Dest.slot = 0 /\ Dest.sec = End(0)
    BY <2>1 DEF Dest
  <2>4. Wrote(flash, flash', 0, End(0), x)
    BY <2>1, <2>3, StepWrites
  <2>5. flash'[0][End(0)] = x /\ PrmOf(flash', job.inplace) = PrmOf(flash, job.inplace)
    <3>1. PrmOf(flash', job.inplace) = PrmOf(flash, job.inplace)
      BY <1>v, <1>c, <1>x, <2>1, <2>4, PrmSame
    <3>2. flash'[0][End(0)] = x
      BY <1>v, <2>4 DEF Wrote
    <3>3. QED
      BY <3>1, <3>2
  <2>6. cmd.inplace = job.inplace
    BY <1>c, <2>1 DEF SwapInv, LayoutMatches, Bounds
  <2>7. HalfRecorded(flash', job)
    BY <2>5, <2>6 DEF HalfRecorded, x
  <2>8. QED
    BY <1>c, <2>1, <2>2, <2>7 DEF PrmInv, FlagsMatch
<1>0. ASSUME swpstat.val.phase = "P3", NEW x, flash' = [flash EXCEPT ![0][End(0)] = x],
             cmd.phase = "P3", job' = job
      PROVE  /\ StaysPut(flash', job) /\ flash'[0][End(0)] = x
             /\ PrmOf(flash', job.inplace) = PrmOf(flash, job.inplace)
  <2>1. Wrote(flash, flash', 0, End(0), x)
    BY <1>v, <1>0, PutWrote
  <2>2. Spares(0, End(0))
    BY <1>0 DEF Spares
  <2>3. StaysPut(flash', job)
    BY <1>v, <1>0, <2>1, <2>2, StaysPutKept DEF PrmInv
  <2>4. flash'[0][End(0)] = x
    BY <1>v, <2>1 DEF Wrote
  <2>5. QED
    BY <1>v, <1>0, <1>x, <2>1, <2>3, <2>4, PrmSame
<1>13. CASE WriteSlt0Cmd
  <2>1. /\ pc = "slt0cmd" /\ cmd = swpstat.val /\ cmd.phase = "P3" /\ pc' = "log"
        /\ UNCHANGED <<swpstat, info, fails, job>> /\ cmd' = [cmd EXCEPT !.phase = "P4"]
        /\ flash' = [flash EXCEPT ![0][End(0)].log = CmdReg!Written(@, ExecutedCmd)]
    BY <1>13, <1>c DEF WriteSlt0Cmd, SwapInv, CmdMatches
  <2> DEFINE x == [prm |-> PrmOf(flash, job.inplace),
                   log |-> CmdReg!Written(CmdReg!Blank, ExecutedCmd)]
  <2>2. flash[0][End(0)] = [prm |-> PrmOf(flash, job.inplace), log |-> CmdReg!Blank]
    BY <2>1 DEF PrmInv, HalfRecorded
  <2>3. [flash[0][End(0)] EXCEPT !.log = CmdReg!Written(@, ExecutedCmd)] = x
    BY <2>2
  <2>4. flash' = [flash EXCEPT ![0][End(0)] = x]
    BY <2>1, <2>3
  <2> HIDE DEF x
  <2>5. /\ StaysPut(flash', job) /\ flash'[0][End(0)] = x
        /\ PrmOf(flash', job.inplace) = PrmOf(flash, job.inplace)
    BY <1>0, <2>1, <2>4
  <2>6. cmd'.cmd1 = cmd.cmd1 /\ cmd'.phase = "P4"
    BY <1>c, <2>1 DEF Cmds
  <2>7. job.inplace => "PERM" \in ExecutedCmd.cmd1
    <3>1. job.inplace => "PERM" \in cmd.cmd1
      BY <2>1 DEF PrmInv, FlagsMatch
    <3>2. cmd.cmd1 \subseteq ExecutedCmd.cmd1
      BY <1>c, <2>1 DEF ExecutedCmd, Cmds
    <3>3. QED
      BY <3>1, <3>2
  <2>8. x.prm = PrmOf(flash, job.inplace) /\ x.log.val = ExecutedCmd
    BY DEF x, CmdReg!Written
  <2>9. Recorded(flash', job)
    BY <2>5, <2>7, <2>8 DEF Recorded
  <2>10. QED
    BY <2>1, <2>5, <2>6, <2>9 DEF PrmInv, FlagsMatch
<1>14. CASE WriteSwpstat
  <2>1. /\ pc = "log" /\ pc' = "read" /\ UNCHANGED <<flash, job>>
        /\ swpstat'.val = cmd \/ swpstat'.val = swpstat.val
    BY <1>14 DEF WriteSwpstat, CmdReg!Written
  <2>2. cmd.phase = "END" => swpstat.val.phase \in {"P4", "END"}
    <3> SUFFICES ASSUME cmd.phase = "END", swpstat.val.phase \notin {"P4", "END"} PROVE FALSE
      OBVIOUS
    <3>1. /\ Bounds(job, swpstat.val) /\ Bounds(job, cmd)
          /\ Writes(job, cmd) = Writes(job, swpstat.val) + 1
          /\ swpstat.val \in Cmds /\ cmd \in Cmds
      BY <1>c, <2>1 DEF TypeOK, SwapInv, LogMatches, LayoutMatches
    <3>2. swpstat.val.phase \in Exchanging \cup {"P3"}
      BY <3>1 DEF Cmds, Phases, Exchanging
    <3>3. QED
      BY <1>v, <3>1, <3>2, WritesStages DEF Exchanging
  <2>3. QED
    BY <2>1, <2>2 DEF PrmInv, FlagsMatch, Recorded, StaysPut
<1>15. CASE PowerFail
  <2>1. pc' = "off" /\ job' = job /\ swpstat'.val = swpstat.val
    <3>1. /\ Fail
          /\ swpstat' = swpstat \/ swpstat' = CmdReg!Torn(swpstat)
      BY <1>15 DEF PowerFail, FailBetween, FailInErase, FailInCopy, FailInSlt0End, FailInLog
    <3>2. CmdReg!Torn(swpstat).val = swpstat.val
      BY DEF TypeOK, CmdReg!Torn, CmdReg!Registers
    <3>3. QED
      BY <3>1, <3>2 DEF Fail
  <2>2. CASE FailBetween \/ FailInLog
    BY <2>1, <2>2, QuietKeepsPrm DEF FailBetween, FailInLog
  <2>3. ASSUME pc \in {"step", "program"}, Copies \/ cmd.phase \in {"P3", "P4"},
               NEW x, Put(Dest, x)
        PROVE  PrmInv'
    BY <2>1, <2>3, StepKeepsRecord DEF PrmInv, FlagsMatch
  <2>4. CASE FailInErase
    BY <2>3, <2>4 DEF FailInErase, Erases
  <2>5. CASE FailInCopy
    BY <2>3, <2>5 DEF FailInCopy
  <2>6. CASE FailInSlt0End
    <3>1. swpstat.val.phase = "P3" /\ cmd.phase = "P3"
          /\ flash' = [flash EXCEPT ![0][End(0)] = Garbage]
      BY <1>c, <2>6 DEF FailInSlt0End, SwapInv, CmdMatches
    <3>2. StaysPut(flash', job)
      BY <1>0, <2>1, <3>1
    <3>3. QED
      BY <2>1, <3>1, <3>2 DEF PrmInv, FlagsMatch
  <2>7. QED
    BY <1>15, <2>2, <2>4, <2>5, <2>6 DEF PowerFail
<1>16. CASE UNCHANGED vars
  BY <1>16 DEF vars, PrmInv, FlagsMatch, Recorded, HalfRecorded, StaysPut
<1>17. QED
  BY <1>1, <1>2, <1>3, <1>4, <1>5, <1>6, <1>7, <1>8, <1>9, <1>10, <1>11, <1>12,
     <1>13, <1>14, <1>15, <1>16 DEF Next, Loader

(* What main() boots from and tests with is recorded as it lies in flash.   *)
THEOREM PrmInvariant == ASSUME ~FailAnywhere PROVE Spec => []PrmInv
<1>1. Init => PrmInv
  BY InitPrm
<1>2. TypeOK /\ TypeOK' /\ SwapInv /\ PrmInv /\ [Next]_vars => PrmInv'
  BY NextPrm
<1>3. Spec => []TypeOK
  BY TypeCorrect
<1>4. Spec => []SwapInv
  BY SwapInvariant
<1>5. QED
  BY <1>1, <1>2, <1>3, <1>4, PTL DEF Spec

(* Once phase 3 is recorded, the parameters main() boots from are those of  *)
(* what the slots hold, whatever interrupted the swap: the load address is  *)
(* that of the new image, and if the recorded command asks for a test, the  *)
(* image to go back to is complete in slot 1.                               *)
THEOREM PrmIsTrue == ASSUME ~FailAnywhere PROVE Spec => []PrmDescribesSlots
<1>1. TypeOK /\ SwapInv /\ PrmInv => PrmDescribesSlots
  <2> SUFFICES ASSUME TypeOK, SwapInv, PrmInv, swpstat.val.phase \in {"P4", "END"}
               PROVE  PrmDescribesSlots
    BY DEF PrmDescribesSlots
  <2>1. /\ job \in Jobs /\ GoodJob(job) /\ Exchanged(flash, job) /\ StaysPut(flash, job)
        /\ Recorded(flash, job) /\ 0 \in Slot /\ 1 \in Slot
    BY DEF TypeOK, SwapInv, LayoutMatches, Layout, PrmInv, Slot
  <2>2. PrmOf(flash, job.inplace).pri = LoadAt[job.fr]
    <3>1. CASE job.inplace
      <4>1. /\ ImgInfo(flash, 1, 0).valid /\ ImgInfo(flash, 1, 0).img = job.fr
        BY <2>1, <3>1, SlotsKnown, HeaderInfo DEF Back
      <4>2. QED
        BY <3>1, <4>1 DEF PrmOf, LoadAddress
    <3>2. CASE ~job.inplace
      <4>1. Front(job) = job.fr /\ job.fr # NoImage
        BY <2>1, <3>2, JobSizes, ImageAssumption DEF Front
      <4>2. ImgInfo(flash, 0, 0).valid /\ ImgInfo(flash, 0, 0).img = job.fr
        BY <2>1, <4>1, SlotsKnown, HeaderInfo
      <4>3. QED
        BY <3>2, <4>2 DEF PrmOf, LoadAddress
    <3>3. QED
      BY <3>1, <3>2
  <2>3. ~job.inplace =>
          Holds(flash[1], IF job.to = NoImage THEN job.fr ELSE job.to,
                ShippedForm(IF job.to = NoImage THEN job.fr ELSE job.to))
    BY <2>1 DEF Exchanged, StaysPut
  <2>4. QED
    BY <2>1, <2>2, <2>3 DEF Recorded, PrmDescribesSlots
<1>2. Spec => []TypeOK
  BY TypeCorrect
<1>3. Spec => []SwapInv
  BY SwapInvariant
<1>4. Spec => []PrmInv
  BY PrmInvariant
<1>5. QED
  BY <1>1, <1>2, <1>3, <1>4, PTL

-----------------------------------------------------------------------------
(* The atomic swap *)

(* A slot that holds an image is found to hold it. *)
LEMMA FoundHolds ==
  ASSUME NEW fl, NEW s \in Slot, NEW i \in Image, NEW f \in {"plain", "cipher"},
         Holds(fl[s], i, f)
  PROVE  Found(fl[s]) = InForm(i, f)
<1>1. HasHeader(fl[s][0]) /\ fl[s][0].img = i /\ fl[s][0] = Data(i, 0, f)
  BY HeaderInfo
<1>2. f = "cipher" => ~Holds(fl[s], i, "plain")
  <2>1. 0 \in 0 .. Sectors[i] - 1
    BY ImageAssumption
  <2>2. f = "cipher" => fl[s][0] # Data(i, 0, "plain")
    BY <1>1 DEF Data
  <2>3. QED
    BY <2>1, <2>2 DEF Holds
<1>3. QED
  BY <1>1, <1>2 DEF Found

(* The cipher maps the form of an image in one slot to its form in the other. *)
LEMMA MovedForms ==
  ASSUME NEW i \in Image
  PROVE  /\ Swap!Moved(InForm(i, ShippedForm(i))) = InForm(i, InstalledForm(i))
         /\ Swap!Moved(InForm(i, InstalledForm(i))) = InForm(i, ShippedForm(i))
<1>1. \A f \in {"plain", "cipher"} : InForm(i, f) # NoImage /\ InForm(i, f).img = i
                                     /\ InForm(i, f).form = f
  BY SwapAssumption DEF InForm, Forms
<1>2. i # NoImage /\ ShippedForm(i) \in {"plain", "cipher"}
      /\ InstalledForm(i) \in {"plain", "cipher"}
  BY FormType, ImageAssumption
<1>3. \A f : Swap!Content(i, f) = InForm(i, f)
  BY DEF Swap!Content, InForm
<1>4. QED
  BY <1>1, <1>2, <1>3 DEF Swap!Moved, ShippedForm, InstalledForm, RunsFromRam

(* The slots, found as they are after the exchange, are the slots at the    *)
(* start exchanged at once.                                                 *)
LEMMA FoundExchanged ==
  ASSUME NEW fl, NEW j \in Jobs, GoodJob(j), Exchanged(fl, j), StaysPut(fl, j)
  PROVE  [s \in Slot |-> Found(fl[s])] = Swap!Exchanged(AtStart(j), j.inplace)
<1>1. /\ Found(fl[1]) = InForm(Back(j), BackForm(j))
      /\ Found(fl[0]) = IF Front(j) = NoImage THEN NoImage
                        ELSE InForm(Front(j), InstalledForm(Front(j)))
  <2>1. 0 \in Slot /\ 1 \in Slot
    BY DEF Slot
  <2>2. Front(j) = NoImage => Found(fl[0]) = NoImage
    BY SlotsKnown DEF Found
  <2>3. QED
    BY <2>1, <2>2, SlotsKnown, FoundHolds
<1>2. /\ AtStart(j)[1] = InForm(j.fr, ShippedForm(j.fr))
      /\ AtStart(j)[0] = IF j.to = NoImage THEN NoImage ELSE InForm(j.to, InstalledForm(j.to))
      /\ AtStart(j) = [s \in Slot |-> AtStart(j)[s]]
  BY DEF AtStart, Slot
<1>3. /\ j.fr \in Image /\ j.fr # NoImage /\ (j.to # NoImage => j.to \in Image)
      /\ InForm(j.fr, ShippedForm(j.fr)) # NoImage
      /\ j.to # NoImage => InForm(j.to, InstalledForm(j.to)) # NoImage
  BY JobSizes, FormType, ImageAssumption, SwapAssumption DEF InForm, Forms
<1>4. /\ Swap!Moved(InForm(j.fr, ShippedForm(j.fr))) = InForm(j.fr, InstalledForm(j.fr))
      /\ j.to # NoImage => Swap!Moved(InForm(j.to, InstalledForm(j.to)))
                             = InForm(j.to, ShippedForm(j.to))
  BY <1>3, MovedForms
<1> DEFINE X == Swap!Exchanged(AtStart(j), j.inplace)
<1>5. X = [s \in Slot |-> X[s]] /\ X[0] = Found(fl[0]) /\ X[1] = Found(fl[1])
  <2>1. CASE j.inplace
    <3>1. X = [AtStart(j) EXCEPT ![1] = InForm(j.fr, InstalledForm(j.fr))]
      BY <1>2, <1>4, <2>1 DEF Swap!Exchanged
    <3>2. QED
      BY <1>1, <1>2, <2>1, <3>1 DEF Slot, Front, Back, BackForm
  <2>2. CASE ~j.inplace
    <3>1. /\ X = [s \in Slot |-> X[s]]
          /\ X[0] = InForm(j.fr, InstalledForm(j.fr))
          /\ X[1] = IF j.to = NoImage THEN InForm(j.fr, ShippedForm(j.fr))
                    ELSE InForm(j.to, ShippedForm(j.to))
      BY <1>2, <1>3, <1>4, <2>2 DEF Swap!Exchanged, Swap!Slot, Slot
    <3>2. QED
      BY <1>1, <1>3, <2>2, <3>1 DEF Front, Back, BackForm
  <2>3. QED
    BY <2>1, <2>2
<1> HIDE DEF X
<1>6. X = [s \in Slot |-> Found(fl[s])]
  BY <1>5 DEF Slot
<1>7. QED
  BY <1>6 DEF X

LEMMA SwapInit == Init => Swap!Init
<1> SUFFICES ASSUME Init PROVE Swap!Init
  OBVIOUS
<1>1. /\ job \in Jobs /\ GoodJob(job)
      /\ \E c1 : swpstat = CmdReg!Written(CmdReg!Blank, StartCmd(c1, job.inplace))
  BY DEF Init
<1>2. swpstat.val.phase = "START"
  BY <1>1 DEF CmdReg!Written, StartCmd
<1>3. Stage = "exchange" /\ Slots = AtStart(job)
  BY <1>2 DEF Stage, Slots
<1>4. AtStart(job) \in [Swap!Slot -> Swap!Contents]
  <2>1. job.fr \in Image /\ (job.to # NoImage => job.to \in Image)
    BY <1>1, JobSizes
  <2>2. \A i \in Image : /\ InForm(i, ShippedForm(i)) \in Swap!Contents
                         /\ InForm(i, InstalledForm(i)) \in Swap!Contents
    BY FormType DEF InForm, Swap!Contents, Swap!Forms
  <2>3. NoImage \in Swap!Contents
    BY DEF Swap!Contents
  <2>4. QED
    BY <2>1, <2>2, <2>3 DEF AtStart, Slot, Swap!Slot
<1>5. QED
  BY <1>1, <1>3, <1>4 DEF Swap!Init, Jobs

(* Only the record of the next command in swpstat is seen of a swap. *)
LEMMA SwapNext ==
  /\ TypeOK /\ SwapInv /\ PrmInv /\ TypeOK' /\ SwapInv' /\ PrmInv'
  /\ [Next]_vars /\ [swpstat'.val # swpstat.val =>
                      Writes(job, swpstat'.val) = Writes(job, swpstat.val) + 1]_vars
  => [Swap!Next]_<<job.inplace, Stage, Slots>>
<1> SUFFICES ASSUME TypeOK, SwapInv, PrmInv, TypeOK', SwapInv', PrmInv', [Next]_vars,
                    vars' # vars => (swpstat'.val # swpstat.val =>
                      Writes(job, swpstat'.val) = Writes(job, swpstat.val) + 1)
             PROVE  [Swap!Next]_<<job.inplace, Stage, Slots>>
  OBVIOUS
<1>1. /\ job \in Jobs /\ GoodJob(job) /\ swpstat.val \in Cmds /\ swpstat'.val \in Cmds
      /\ Bounds(job, swpstat.val) /\ Bounds(job', swpstat'.val)
  BY DEF TypeOK, SwapInv, LayoutMatches
<1>2. job' = job
  BY DEF Next, Loader, PowerFail, ReadSwpstat, SwapDone, StartNoMove, StartNoMoveUp,
         StartMoveUp, SkipP1, SkipP2, Goto, EraseSector, MoveUp, SwapP1, SwapP2,
         ProgramSector, WritePrm, WriteSlt0Cmd, FinishP4, WriteSwpstat, Restart,
         FailBetween, FailInErase, FailInCopy, FailInSlt0End, FailInLog, Fail, vars
<1>3. swpstat'.val # swpstat.val => Writes(job, swpstat'.val) = Writes(job, swpstat.val) + 1
  BY DEF vars
<1> DEFINE X == Swap!Exchanged(AtStart(job), job.inplace)
<1>4. /\ Stage \in {"exchange", "P3", "P4", "END"}
      /\ Slots = IF Stage = "exchange" THEN AtStart(job) ELSE X
  <2>1. Stage # "exchange" => [s \in Slot |-> Found(flash[s])] = X
    <3>1. Stage # "exchange" => Exchanged(flash, job) /\ StaysPut(flash, job)
      BY DEF Stage, SwapInv, LayoutMatches, Layout, PrmInv
    <3>2. QED
      BY <1>1, <3>1, FoundExchanged
  <2>2. QED
    BY <2>1 DEF Stage, Slots
<1>5. /\ Stage' \in {"exchange", "P3", "P4", "END"}
      /\ Slots' = IF Stage' = "exchange" THEN AtStart(job) ELSE X
  <2>1. Stage' # "exchange" => [s \in Slot |-> Found(flash'[s])] = X
    <3>1. Stage' # "exchange" => Exchanged(flash', job) /\ StaysPut(flash', job)
      BY <1>2 DEF Stage, SwapInv, LayoutMatches, Layout, PrmInv
    <3>2. QED
      BY <1>1, <3>1, FoundExchanged
  <2>2. QED
    BY <1>2, <2>1 DEF Stage, Slots
<1> HIDE DEF X
<1>6. CASE Stage' = Stage
  BY <1>2, <1>4, <1>5, <1>6
<1>7. CASE Stage' # Stage
  <2>1. swpstat'.val.phase # swpstat.val.phase
    BY <1>7 DEF Stage
  <2>2. Writes(job, swpstat'.val) = Writes(job, swpstat.val) + 1
    BY <1>3, <2>1
  <2>3. \/ Stage = "exchange" /\ Stage' = "P3"
        \/ Stage = "P3" /\ Stage' = "P4"
        \/ Stage = "P4" /\ Stage' = "END"
    <3>1. /\ swpstat.val.phase \in Exchanging => swpstat'.val.phase \in Exchanging \cup {"P3"}
          /\ swpstat.val.phase = "P3" => swpstat'.val.phase = "P4"
          /\ swpstat.val.phase = "P4" => swpstat'.val.phase = "END"
          /\ swpstat.val.phase # "END"
      BY <1>1, <1>2, <2>2, WritesStages
    <3>2. swpstat.val.phase \in Exchanging \cup {"P3", "P4", "END"}
      BY <1>1 DEF Cmds, Phases, Exchanging
    <3>3. QED
      BY <1>7, <3>1, <3>2 DEF Stage, Exchanging
  <2> SUFFICES Swap!Next
    OBVIOUS
  <2>4. CASE Stage = "exchange" /\ Stage' = "P3"
    <3>1. Slots' = Swap!Exchanged(Slots, job.inplace)
      BY <1>4, <1>5, <2>4 DEF X
    <3>2. QED
      BY <1>2, <2>4, <3>1 DEF Swap!Next, Swap!ExchangeSectors
  <2>5. CASE Stage = "P3" /\ Stage' = "P4"
    BY <1>2, <1>4, <1>5, <2>5 DEF Swap!Next, Swap!Record
  <2>6. CASE Stage = "P4" /\ Stage' = "END"
    BY <1>2, <1>4, <1>5, <2>6 DEF Swap!Next, Swap!Record
  <2>7. QED
    BY <2>3, <2>4, <2>5, <2>6
<1>8. QED
  BY <1>6, <1>7

(* The sector by sector swap of zb_img_cmd_proc implements the atomic one   *)
(* that zb_img_swap and the boot decision count on, for any number of       *)
(* failures it can resume from and images of any size: who reads swpstat    *)
(* never finds a half exchanged slot passed for exchanged, and nothing      *)
(* changes the slots again afterwards.                                      *)
THEOREM SwapRefines == ASSUME ~FailAnywhere PROVE Spec => SwapIsAtomic
<1>1. Init => Swap!Init
  BY SwapInit
<1>2. Spec => [][swpstat'.val # swpstat.val =>
                   Writes(job, swpstat'.val) = Writes(job, swpstat.val) + 1]_vars
  BY Progress DEF AlwaysForward
<1>3. Spec => []TypeOK
  BY TypeCorrect
<1>4. Spec => []SwapInv
  BY SwapInvariant
<1>5. Spec => []PrmInv
  BY PrmInvariant
<1>6. QED
  BY <1>1, <1>2, <1>3, <1>4, <1>5, SwapNext, PTL DEF Spec, SwapIsAtomic, Swap!Spec
=============================================================================
