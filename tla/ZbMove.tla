------------------------------- MODULE ZbMove -------------------------------
(***************************************************************************)
(* The swap of zb_move.c (zb_img_cmd_proc): a loop that reads the last     *)
(* command of the swap status area, carries out one step of the swap --    *)
(* erase one sector, copy one sector -- and writes the next command, until *)
(* the command says SWP_END.                                               *)
(*                                                                         *)
(*   classic   MOVE_UP shifts the image of slot 0 by one sector, then for  *)
(*             each sector P1 copies slot 1 to slot 0 and P2 copies the    *)
(*             shifted sector of slot 0 to slot 1                          *)
(*   in place  MOVE_UP shifts the image of slot 1, P2 copies it back       *)
(*             through the cipher                                          *)
(*   P3, P4    parameters and command to slt0end, slt1end erased           *)
(*                                                                         *)
(* Each step of the model is one operation on flash, so power can fail     *)
(* between any two of them and in the middle of each.  After a failure the *)
(* volatile variables are gone; the loop starts again from the last        *)
(* command in flash and reads the headers again to find the images.        *)
(***************************************************************************)
EXTENDS ZbImage

CONSTANTS
  Version,        \* Version[i]: zb_img_conv_version_u32 of image i
  NoCmd,          \* no command found (-ENOENT)
  NotLoaded,      \* info.loaded is false
  NoCrc,          \* 0xffffffff
  StatEntries,    \* entries of the swap status area
  Cmd3Range,      \* number of values of cmd3 (u8_t: 256)
  MaxFails,       \* bound: power failures in a behaviour
  FailAnywhere    \* TRUE: also where the code cannot resume (see CanResume)

VARIABLES
  flash,     \* contents of the slots
  swpstat,   \* the swap status area, a register (see ZbCmdReg)
  pc,        \* where zb_img_cmd_proc is
  cmd,       \* the local variable cmd
  info,      \* the local variable info: images and places to swap
  fails,     \* number of power failures so far
  job        \* auxiliary: the images swapped, as they were at the start

vars == <<flash, swpstat, pc, cmd, info, fails, job>>

Phases == {"START", "MOVE_UP", "P1", "P2", "P3", "P4", "END"}

(* cmd1 is a set of flags; cmd2 a phase and the INPLACE bit; cmd3 a sector. *)
Flags == {"PERM", "REQUEST", "BT0"}

Cmds == [cmd1 : SUBSET Flags, phase : Phases, inplace : BOOLEAN,
         sec : 0 .. Cmd3Range - 1]

CmdReg == INSTANCE ZbCmdReg WITH
            Cmd <- Cmds, Capacity <- StatEntries, reg <- swpstat

Infos == [slot : Slot, valid : BOOLEAN, img : Image \cup {NoImage}, n : Nat,
          enc : BOOLEAN]

ASSUME MoveAssumption ==
  /\ StatEntries \in Nat \ {0}
  /\ Cmd3Range \in Nat \ {0}
  /\ MaxFails \in Nat
  /\ FailAnywhere \in BOOLEAN
  /\ \A i \in Image : Sectors[i] < Cmd3Range
  /\ NoCmd \notin Cmds
  /\ NotLoaded \notin [to : Infos, fr : Infos]

Sector8(n) == n % Cmd3Range

(* A command that zb_img_swap and zb_img_cmd_proc take for a swap under way *)
Swapping(c) == c # NoCmd /\ c.phase # "END"

-----------------------------------------------------------------------------
(* zb_get_img_swp_info *)

(* Slip: the images that run from RAM are forgotten. *)
SlipKeepCipher(i) == i

(* Images that run from RAM are not decrypted while they are swapped. *)
KeepCipher(i) ==
  [slot |-> i.slot, valid |-> i.valid, img |-> i.img, n |-> i.n,
   enc |-> i.enc /\ ~RunsFromRam(i.img)]

(* Slip: the header is taken for moved as soon as the shift is under way. *)
SlipSwapInfo(fl, c) ==
  LET eoff == IF c.phase # "START" /\ ~c.inplace THEN 1 ELSE 0
      slt0 == IF c.inplace THEN 1 ELSE 0
  IN  [to |-> KeepCipher(ImgInfo(fl, slt0, eoff)),
       fr |-> KeepCipher(ImgInfo(fl, 1, 0))]

(* Where the two headers are looked for when command c is (re)started. In  *)
(* phases P1 and P2 of a classic swap: one sector up as long as no sector  *)
(* was exchanged, in the other slot afterwards.                            *)
SwapInfo(fl, c) ==
  LET exchanging == c.phase \in {"P1", "P2"} /\ ~c.inplace
      eoff == IF exchanging /\ c.sec = 0 THEN 1 ELSE 0
      slt0 == IF c.inplace \/ (exchanging /\ c.sec # 0) THEN 1 ELSE 0
      slt1 == IF exchanging /\ c.sec # 0 THEN 0 ELSE 1
  IN  [to |-> KeepCipher(ImgInfo(fl, slt0, eoff)),
       fr |-> KeepCipher(ImgInfo(fl, slt1, eoff))]

EndTo == IF info.to.valid THEN info.to.n ELSE 0
EndFr == info.fr.n

-----------------------------------------------------------------------------
(* The loop of zb_img_cmd_proc *)

ReadSwpstat ==
  /\ pc = "read"
  /\ Swapping(swpstat.val)
  /\ cmd' = swpstat.val
  /\ info' = IF info = NotLoaded THEN SwapInfo(flash, swpstat.val) ELSE info
  /\ pc' = "step"
  /\ UNCHANGED <<flash, swpstat, fails, job>>

SwapDone ==
  /\ pc = "read"
  /\ ~Swapping(swpstat.val)
  /\ pc' = "done"
  /\ UNCHANGED <<flash, swpstat, cmd, info, fails, job>>

AtPhase(p) == pc = "step" /\ cmd.phase = p

(* What follows only decides which command comes next. *)
Goto(c) ==
  /\ cmd' = c
  /\ pc' = "log"
  /\ UNCHANGED <<flash, swpstat, info, fails, job>>

(* An image that stays in slot 1 and is not encrypted needs no move. *)
StartNoMove ==
  /\ AtPhase("START")
  /\ cmd.inplace /\ ~info.fr.enc
  /\ Goto([cmd EXCEPT !.phase = "P3", !.sec = 0])

(* Slot 0 holds no image: nothing to move up. *)
StartNoMoveUp ==
  /\ AtPhase("START")
  /\ ~(cmd.inplace /\ ~info.fr.enc)
  /\ EndTo = 0
  /\ Goto([cmd EXCEPT !.phase = "P1", !.sec = 0])

(* Slip: the loop that looks for the last sector runs once too often. *)
SlipStartMoveUp ==
  /\ AtPhase("START")
  /\ ~(cmd.inplace /\ ~info.fr.enc)
  /\ EndTo # 0
  /\ Goto([cmd EXCEPT !.phase = "MOVE_UP", !.sec = Sector8(EndTo)])

StartMoveUp ==
  /\ AtPhase("START")
  /\ ~(cmd.inplace /\ ~info.fr.enc)
  /\ EndTo # 0
  /\ Goto([cmd EXCEPT !.phase = "MOVE_UP", !.sec = Sector8(EndTo - 1)])

(* Slip: one sector too many. *)
SlipInFr == cmd.sec <= EndFr

(* The image to copy has a sector cmd3. *)
InFr == cmd.sec < EndFr
InTo == cmd.sec < EndTo

SkipP1 ==
  /\ AtPhase("P1")
  /\ ~InFr
  /\ Goto([cmd EXCEPT !.phase = IF InTo THEN "P2" ELSE "P3"])

(* Slip: cmd3 is not incremented. *)
SlipSkipP2 ==
  /\ AtPhase("P2")
  /\ ~InTo
  /\ Goto([cmd EXCEPT !.phase = IF InFr THEN "P1" ELSE "P3"])

SkipP2 ==
  /\ AtPhase("P2")
  /\ ~InTo
  /\ Goto(IF InFr THEN [cmd EXCEPT !.phase = "P1", !.sec = Sector8(cmd.sec + 1)]
          ELSE [cmd EXCEPT !.phase = "P3"])

(* The step copies a sector, and to which slot and sector. *)
Copies ==
  \/ cmd.phase = "MOVE_UP"
  \/ cmd.phase = "P1" /\ InFr
  \/ cmd.phase = "P2" /\ InTo

Dest ==
  CASE cmd.phase = "MOVE_UP" -> [slot |-> info.to.slot, sec |-> cmd.sec + 1]
    [] cmd.phase = "P1"      -> [slot |-> info.to.slot, sec |-> cmd.sec]
    [] cmd.phase = "P2"      -> [slot |-> info.fr.slot, sec |-> cmd.sec]
    [] cmd.phase = "P3"      -> [slot |-> 0, sec |-> End(0)]
    [] cmd.phase = "P4"      -> [slot |-> 1, sec |-> End(1)]

(* What the copy programs there. *)
Copy ==
  CASE cmd.phase = "MOVE_UP" -> flash[info.to.slot][cmd.sec]
    [] cmd.phase = "P1" ->
         Moved(info.fr, cmd.sec, flash[info.fr.slot][cmd.sec])
    [] cmd.phase = "P2" ->
         Moved(info.to, cmd.sec, flash[info.to.slot][cmd.sec + 1])

Put(d, c) == flash' = [flash EXCEPT ![d.slot][d.sec] = c]

(* Each step starts with the erase of the sector it writes. *)
Erases == pc = "step" /\ (Copies \/ cmd.phase \in {"P3", "P4"})

EraseSector ==
  /\ Erases
  /\ Put(Dest, Erased)
  /\ pc' = "program"
  /\ UNCHANGED <<swpstat, cmd, info, fails, job>>

ProgramSector(p) ==
  /\ pc = "program" /\ cmd.phase = p
  /\ Put(Dest, Copy)
  /\ pc' = "log"
  /\ UNCHANGED <<swpstat, info, fails, job>>

(* Slip: the shift ends one sector early. *)
SlipMoveUp ==
  /\ ProgramSector("MOVE_UP")
  /\ cmd' = IF cmd.sec > 1 THEN [cmd EXCEPT !.sec = cmd.sec - 1]
            ELSE [cmd EXCEPT !.phase = IF cmd.inplace THEN "P2" ELSE "P1", !.sec = 0]

(* Slip: no test for sector 0. *)
SlipMoveUpEnd ==
  /\ ProgramSector("MOVE_UP")
  /\ cmd' = [cmd EXCEPT !.sec = cmd.sec - 1]

MoveUp ==
  /\ ProgramSector("MOVE_UP")
  /\ cmd' = IF cmd.sec # 0 THEN [cmd EXCEPT !.sec = cmd.sec - 1]
            ELSE [cmd EXCEPT !.phase = IF cmd.inplace THEN "P2" ELSE "P1"]

SwapP1 ==
  /\ ProgramSector("P1")
  /\ cmd' = [cmd EXCEPT !.phase = "P2"]

SwapP2 ==
  /\ ProgramSector("P2")
  /\ cmd' = [cmd EXCEPT !.phase = IF cmd.inplace THEN "P2" ELSE "P1",
                        !.sec = Sector8(cmd.sec + 1)]

-----------------------------------------------------------------------------
(* Phase 3: parameters and executed command to slt0end; phase 4 *)

(* The zb_prm that zb_img_cmd_proc_p3_wrt builds. *)
PrmOf(fl, inplace) ==
  LET i0 == ImgInfo(fl, 0, 0)
      i1 == ImgInfo(fl, 1, 0)
      ver(i) == IF i.valid THEN Version[i.img] ELSE 0
  IN  [pri |-> LoadAddress(IF i1.valid /\ inplace THEN i1 ELSE i0),
       sec |-> LoadAddress(i0),
       crc0 |-> Crc(fl, i0), ver0 |-> ver(i0),
       crc1 |-> IF i1.valid THEN Crc(fl, i1) ELSE NoCrc, ver1 |-> ver(i1)]

(* Slip: the INPLACE bit is not put back before phase 3. *)
SlipWritePrm ==
  /\ pc = "program" /\ cmd.phase = "P3"
  /\ Put(Dest, [prm |-> PrmOf(flash, FALSE), log |-> CmdReg!Blank])
  /\ pc' = "slt0cmd"
  /\ UNCHANGED <<swpstat, cmd, info, fails, job>>

WritePrm ==
  /\ pc = "program" /\ cmd.phase = "P3"
  /\ Put(Dest, [prm |-> PrmOf(flash, cmd.inplace), log |-> CmdReg!Blank])
  /\ pc' = "slt0cmd"
  /\ UNCHANGED <<swpstat, cmd, info, fails, job>>

(* There is nothing to restore when slot 1 holds no image. *)
ExecutedCmd ==
  [cmd EXCEPT !.cmd1 = IF ImgInfo(flash, 1, 0).valid THEN @ ELSE @ \cup {"PERM"}]

WriteSlt0Cmd ==
  /\ pc = "slt0cmd"
  /\ flash' = [flash EXCEPT ![0][End(0)].log = CmdReg!Written(@, ExecutedCmd)]
  /\ cmd' = [cmd EXCEPT !.phase = "P4"]
  /\ pc' = "log"
  /\ UNCHANGED <<swpstat, info, fails, job>>

(* Nothing is written to slt1end after its erase. *)
FinishP4 ==
  /\ pc = "program" /\ cmd.phase = "P4"
  /\ Goto([cmd EXCEPT !.phase = "END"])

(* The next command; a full swap status area (-ENOSPC) goes unnoticed. *)
WriteSwpstat ==
  /\ pc = "log"
  /\ swpstat' = IF CmdReg!HasRoom(swpstat) THEN CmdReg!Written(swpstat, cmd)
                ELSE swpstat
  /\ pc' = "read"
  /\ UNCHANGED <<flash, cmd, info, fails, job>>

-----------------------------------------------------------------------------
(* Power failures *)

(* Where zb_get_img_swp_info finds the images again: not in the exchange   *)
(* phases of a classic swap, and not before the header is back in its      *)
(* place in an in place swap.                                              *)
CanResume(c) == c.phase \in {"P1", "P2"} => c.inplace /\ c.sec # 0

Fail ==
  /\ fails < MaxFails
  /\ FailAnywhere \/ CanResume(swpstat.val)
  /\ pc' = "off"
  /\ fails' = fails + 1
  /\ cmd' = NoCmd
  /\ info' = NotLoaded
  /\ UNCHANGED job

FailBetween == pc # "off" /\ Fail /\ UNCHANGED <<flash, swpstat>>

FailInErase == Erases /\ Fail /\ Put(Dest, Garbage) /\ UNCHANGED swpstat

FailInCopy ==
  /\ pc = "program" /\ Copies
  /\ Fail
  /\ \E c \in TornProgram(Copy) : Put(Dest, c)
  /\ UNCHANGED swpstat

FailInSlt0End ==
  /\ \/ pc = "program" /\ cmd.phase = "P3"
     \/ pc = "slt0cmd"
  /\ Fail
  /\ flash' = [flash EXCEPT ![0][End(0)] = Garbage]
  /\ UNCHANGED swpstat

FailInLog ==
  /\ pc = "log" /\ CmdReg!HasRoom(swpstat)
  /\ Fail
  /\ swpstat' = CmdReg!Torn(swpstat)
  /\ UNCHANGED flash

PowerFail ==
  FailBetween \/ FailInErase \/ FailInCopy \/ FailInSlt0End \/ FailInLog

(* zb_img_swap after a reset: a swap was under way, or nothing is to do. *)
Restart ==
  /\ pc = "off"
  /\ pc' = "read"
  /\ UNCHANGED <<flash, swpstat, cmd, info, fails, job>>

-----------------------------------------------------------------------------
(* Specification *)

Jobs == [to : Image \cup {NoImage}, fr : Image, inplace : BOOLEAN]

(* What zb_img_check and the history of the slots leave to swap. *)
GoodJob(j) ==
  /\ j.inplace <=> LoadAt[j.fr] = "slot1"
  /\ Fits(j.fr, IF j.inplace THEN 1 ELSE 0)
  /\ j.to # NoImage => Fits(j.to, 0) /\ LoadAt[j.to] # "slot1"

(* What an earlier image left behind it: nothing, or sectors with a header *)
(* as the shift of an earlier swap leaves one.                             *)
Leftovers(j) == {Erased, Data(j.fr, 0, "plain")}

(* Slot contents with the sectors of image i in front and c behind. *)
Filled(s, i, f, c) ==
  [k \in 0 .. End(s) |->
     IF k < Size(i) THEN Data(i, k, f) ELSE IF k = 0 THEN Erased ELSE c]

StartCmd(c1, inplace) ==
  [cmd1 |-> c1, phase |-> "START", inplace |-> inplace, sec |-> 0]

Init ==
  \E j \in Jobs, c1 \in SUBSET {"PERM"} :
    /\ GoodJob(j)
    /\ j.inplace => "PERM" \in c1
    /\ job = j
    /\ \E c \in Leftovers(j) :
         flash = [s \in Slot |->
                    IF s = 1 THEN Filled(1, j.fr, ShippedForm(j.fr), c)
                    ELSE Filled(0, j.to, InstalledForm(j.to), c)]
    /\ swpstat = CmdReg!Written(CmdReg!Blank, StartCmd(c1, j.inplace))
    /\ pc = "read"
    /\ cmd = NoCmd
    /\ info = NotLoaded
    /\ fails = 0

Loader ==
  \/ ReadSwpstat \/ SwapDone
  \/ StartNoMove \/ StartNoMoveUp \/ StartMoveUp \/ SkipP1 \/ SkipP2
  \/ EraseSector \/ MoveUp \/ SwapP1 \/ SwapP2
  \/ WritePrm \/ WriteSlt0Cmd \/ FinishP4
  \/ WriteSwpstat
  \/ Restart

Next == Loader \/ PowerFail

Spec == Init /\ [][Next]_vars

(* The loader runs alone on the processor; a reset follows a failure. *)
FairSpec == Spec /\ WF_vars(Loader)

-----------------------------------------------------------------------------
(* Where the sectors of the two images of job j are.  Slots are given as a  *)
(* parameter fl, so that these are operators on values, not on states.      *)

MaxSize(j) == IF Size(j.to) > Size(j.fr) THEN Size(j.to) ELSE Size(j.fr)

(* Sectors lo .. hi-1 of image i are in slot s, up sectors from their place. *)
Lies(fl, s, i, f, lo, hi, up) ==
  \A k \in lo .. hi - 1 : fl[s][k + up] = Data(i, k, f)

OldIn0(fl, j, lo, hi, up) == Lies(fl, 0, j.to, InstalledForm(j.to), lo, hi, up)
OldIn1(fl, j, lo, hi)     == Lies(fl, 1, j.to, ShippedForm(j.to), lo, hi, 0)
NewIn0(fl, j, lo, hi)     == Lies(fl, 0, j.fr, InstalledForm(j.fr), lo, hi, 0)
NewIn1(fl, j, lo, hi, up) == Lies(fl, 1, j.fr, ShippedForm(j.fr), lo, hi, up)

(* The exchange is complete. *)
Exchanged(fl, j) ==
  IF j.inplace THEN Holds(fl[1], j.fr, InstalledForm(j.fr))
  ELSE /\ Holds(fl[0], j.fr, InstalledForm(j.fr))
       /\ j.to # NoImage => Holds(fl[1], j.to, ShippedForm(j.to))

(* What flash holds when command c is the next to carry out.  The sector   *)
(* that c writes is left open, so this stays true while c is carried out.  *)
ClassicLayout(fl, j, c) ==
  LET k  == c.sec
      n0 == Size(j.to)
      n1 == Size(j.fr)
  IN
  /\ c.phase = "START" =>
       /\ OldIn0(fl, j, 0, n0, 0) /\ NewIn1(fl, j, 0, n1, 0)
       /\ n0 = 0 => ~HasHeader(fl[0][0])
  /\ c.phase = "MOVE_UP" =>
       /\ OldIn0(fl, j, 0, k + 1, 0) /\ OldIn0(fl, j, k + 1, n0, 1)
       /\ NewIn1(fl, j, 0, n1, 0)
  /\ c.phase = "P1" =>
       /\ NewIn0(fl, j, 0, Least(k, n1)) /\ OldIn0(fl, j, k, n0, 1)
       /\ OldIn1(fl, j, 0, Least(k, n0)) /\ NewIn1(fl, j, k, n1, 0)
  /\ c.phase = "P2" =>
       /\ NewIn0(fl, j, 0, Least(k + 1, n1)) /\ OldIn0(fl, j, k, n0, 1)
       /\ OldIn1(fl, j, 0, Least(k, n0)) /\ NewIn1(fl, j, k + 1, n1, 0)

InPlaceLayout(fl, j, c) ==
  LET k  == c.sec
      n1 == Size(j.fr)
  IN
  /\ c.phase = "START" => NewIn1(fl, j, 0, n1, 0)
  /\ c.phase = "MOVE_UP" =>
       NewIn1(fl, j, 0, k + 1, 0) /\ NewIn1(fl, j, k + 1, n1, 1)
  /\ c.phase = "P2" =>
       /\ Lies(fl, 1, j.fr, InstalledForm(j.fr), 0, k, 0)
       /\ NewIn1(fl, j, k, n1, 1)

Layout(fl, j, c) ==
  /\ IF j.inplace THEN InPlaceLayout(fl, j, c) ELSE ClassicLayout(fl, j, c)
  /\ c.phase \in {"P3", "P4", "END"} => Exchanged(fl, j)

(* The sectors a command of job j may name. *)
Bounds(j, c) ==
  /\ c.inplace = j.inplace
  /\ c.phase = "MOVE_UP" => c.sec < Size(IF j.inplace THEN j.fr ELSE j.to)
  /\ c.phase = "P1" => ~j.inplace /\ c.sec <= MaxSize(j)
  /\ c.phase = "P2" =>
       IF j.inplace THEN c.sec <= Size(j.fr) ELSE c.sec < MaxSize(j)
  /\ c.phase \in {"MOVE_UP", "P2"} /\ j.inplace => j.fr \in Encrypted

(* What zb_get_img_swp_info finds before the exchange has begun. *)
JobInfo(j) ==
  LET of(s, i) == [slot |-> s, valid |-> i # NoImage, img |-> i, n |-> Size(i),
                   enc |-> i \in Encrypted /\ ~RunsFromRam(i)]
  IN  [to |-> IF j.inplace THEN of(1, j.fr) ELSE of(0, j.to), fr |-> of(1, j.fr)]

(* Writes to swpstat up to and including command c, without failures. *)
Writes(j, c) ==
  LET up == IF j.inplace THEN Size(j.fr) ELSE Size(j.to)
      ex == IF ~j.inplace THEN up + 2 * MaxSize(j) + 3
            ELSE IF j.fr \in Encrypted THEN 2 * up + 3 ELSE 2
  IN  CASE c.phase = "START"   -> 1
        [] c.phase = "MOVE_UP" -> up + 1 - c.sec
        [] c.phase = "P1"      -> up + 2 + 2 * c.sec
        [] c.phase = "P2"      -> IF j.inplace THEN up + 2 + c.sec
                                  ELSE up + 3 + 2 * c.sec
        [] c.phase = "P3"      -> ex
        [] c.phase = "P4"      -> ex + 1
        [] c.phase = "END"     -> ex + 2

WritesNeeded(j) == Writes(j, [StartCmd({}, j.inplace) EXCEPT !.phase = "END"])

(* The inductive invariant, for failures that the loop can resume from: the *)
(* layout belongs to the command last recorded, and to the next one as soon *)
(* as the step is done; info, once loaded, is what it was before the        *)
(* exchange began, and it is loaded only where it can be.                   *)
CmdMatches ==
  /\ pc \in {"step", "program", "slt0cmd"} => cmd = swpstat.val
  /\ pc \in {"step", "program", "slt0cmd", "log"} => swpstat.val.phase # "END"
  /\ pc = "program" => Copies \/ cmd.phase \in {"P3", "P4"}
  /\ pc = "slt0cmd" => cmd.phase = "P3"
  /\ pc = "done" => swpstat.val.phase = "END"

LogMatches ==
  /\ swpstat.last = swpstat.val /\ ~swpstat.dirty
  /\ swpstat.used <= Writes(job, swpstat.val) + fails
  /\ pc = "log" => Writes(job, cmd) = Writes(job, swpstat.val) + 1

LayoutMatches ==
  /\ Bounds(job, swpstat.val) /\ Layout(flash, job, swpstat.val)
  /\ pc = "log" => Bounds(job, cmd) /\ Layout(flash, job, cmd)

Exchanging == {"START", "MOVE_UP", "P1", "P2"}

InfoMatches ==
  IF info = NotLoaded THEN CanResume(swpstat.val)
  ELSE \/ info = JobInfo(job)
       \/ /\ swpstat.val.phase \notin Exchanging
          /\ pc = "log" => cmd.phase \notin Exchanging

SwapInv ==
  /\ GoodJob(job) /\ CmdMatches /\ LogMatches /\ LayoutMatches /\ InfoMatches

-----------------------------------------------------------------------------
(* Properties *)

Tabulated(fl) == fl = [s \in Slot |-> [k \in 0 .. End(s) |-> fl[s][k]]]

TypeOK ==
  /\ Tabulated(flash)
  /\ swpstat \in CmdReg!Registers /\ swpstat.val \in Cmds
  /\ pc \in {"read", "step", "program", "slt0cmd", "log", "done", "off"}
  /\ cmd \in Cmds \cup {NoCmd}
  /\ info \in [to : Infos, fr : Infos] \cup {NotLoaded}
  /\ pc \in {"step", "program", "slt0cmd", "log"} =>
       cmd # NoCmd /\ info # NotLoaded
  /\ fails \in 0 .. MaxFails
  /\ job \in Jobs

(* Each sector of both images is somewhere in flash at any moment, complete *)
(* and in a form it can be told from: what design.md promises of power     *)
(* failures during a swap.  In place, the new image is all there is to lose.*)
ImagesOf(j) == IF j.inplace \/ j.to = NoImage THEN {j.fr} ELSE {j.to, j.fr}

InFlash(fl, i, k) ==
  \E s \in Slot : \E p \in 0 .. End(s) :
    fl[s][p] \in {Data(i, k, "plain"), Data(i, k, "cipher")}

NoImageLost ==
  \A i \in ImagesOf(job) : \A k \in 0 .. Sectors[i] - 1 : InFlash(flash, i, k)

(* Once swpstat says that sectors are exchanged, they are, each image in the *)
(* form its new place needs: decrypted in slot 0 (or in place in slot 1),   *)
(* encrypted again in slot 1.                                               *)
ExchangeDone ==
  swpstat.val.phase \in {"P3", "P4", "END"} => Exchanged(flash, job)

(* Once phase 3 is recorded, the parameters that main() boots from are      *)
(* those of what the slots hold, and the executed command is beside them.   *)
(* If it asks for a test, the image to go back to is complete in slot 1.    *)
PrmDescribesSlots ==
  swpstat.val.phase \in {"P4", "END"} =>
    LET end == flash[0][End(0)] IN
    /\ end.prm = PrmOf(flash, job.inplace)
    /\ end.prm.pri = LoadAt[job.fr]
    /\ "PERM" \notin end.log.val.cmd1 =>
         \E i \in IF job.to = NoImage THEN {job.fr} ELSE {job.to} :
           ~job.inplace /\ Holds(flash[1], i, ShippedForm(i))

(* The swap status area has room for every command of the swap, torn ones  *)
(* included, if it has WritesNeeded entries and one for each failure.       *)
LogSuffices ==
  StatEntries >= WritesNeeded(job) + MaxFails /\ pc = "log" => CmdReg!HasRoom(swpstat)

(* A swap that was started comes to its end, whatever number of failures    *)
(* interrupts it (the loop of zb_img_cmd_proc, design.md "this step will    *)
(* be restarted at the next reboot").                                       *)
SwapEnds == <>(pc = "done" /\ swpstat.val.phase = "END")

(* Between resets the loop never repeats a step: the next command recorded  *)
(* in flash is always further on.                                           *)
AlwaysForward ==
  [][swpstat'.val # swpstat.val => 
       Writes(job, swpstat'.val) = Writes(job, swpstat.val) + 1]_vars
=============================================================================
