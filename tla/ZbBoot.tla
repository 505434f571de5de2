------------------------------- MODULE ZbBoot -------------------------------
(***************************************************************************)
(* A device from reset to reset: the four stages of zb_img_swap that       *)
(* decide whether images are exchanged, the last phases of the exchange,   *)
(* the choice of the image that main() boots, and the application that     *)
(* runs then, uploads images to slot 1 and leaves commands in slt1end.     *)
(*                                                                         *)
(* The slots are seen as a whole (ZbContents).  The exchange of the        *)
(* sectors is the subject of ZbMove, which carries out ZbSwap.  Here it is *)
(* one step that ends with phase 3 in swpstat; a power failure before that *)
(* changes nothing where ZbMove can resume, and leads to a mixture of the  *)
(* images where it cannot.  The command logs are registers (ZbCmdReg,      *)
(* carried out by ZbCmdLog).                                               *)
(***************************************************************************)
EXTENDS ZbContents

CONSTANTS
  Genuine,      \* images with a valid signature
  Fitting,      \* images that leave the last sector of their slot free
  Version,      \* Version[i]: zb_img_conv_version_u32 of image i
  NoCmd, NoPrm, TornPrm, NoCrc, NoTrial, Idle,
  StatEntries, EndEntries,   \* entries of swpstat, of slt0end and slt1end
  MaxFails,                  \* bound: power failures in a behaviour
  Careless                   \* what the application does against the docs

VARIABLES
  slots,     \* contents of slot 0 and 1
  prm,       \* parameters in slt0end
  slt0end, slt1end, swpstat,   \* the command logs
  pc,        \* where the bootloader is
  cmd,       \* the swap command about to be written
  running,   \* what was booted
  fails,     \* number of power failures so far
  trial,     \* auxiliary: the temporary swap under way
  floor,     \* auxiliary: version of the last permanent image of slot 0
  mixed      \* auxiliary: an exchange was resumed with the wrong headers

flash == <<slots, prm, slt0end, slt1end, swpstat>>
history == <<trial, floor, mixed>>
vars == <<flash, pc, cmd, running, fails, history>>

CarelessWays == {"upload_in_trial", "request_in_trial", "bt0_without_image"}

ASSUME BootAssumption ==
  /\ Version \in [Image -> Nat]
  /\ Genuine \subseteq Image /\ Fitting \subseteq Image
  /\ StatEntries \in Nat \ {0} /\ EndEntries \in Nat \ {0} /\ MaxFails \in Nat
  /\ Careless \subseteq CarelessWays

Flags == {"PERM", "REQUEST", "BT0"}

(* Phase P1 stands for P1 and P2 where a failure has left them recorded.    *)
Phases == {"START", "P1", "P3", "P4", "END"}
SwapCmds == [cmd1 : SUBSET Flags, phase : Phases, inplace : BOOLEAN]

Prms ==
  [pri : Regions, sec : Regions, crc0 : Contents, crc1 : Contents \cup {NoCrc},
   ver0 : Nat, ver1 : Nat]

(* What stands for "none" or "torn" is no command, no parameters, no image. *)
ASSUME BootMarkersAssumption ==
  /\ NoImage \notin [img : Image, form : Forms]
  /\ NoCmd \notin SwapCmds /\ \A f \in SUBSET Flags : f # NoCmd
  /\ NoPrm \notin Prms /\ TornPrm \notin Prms /\ NoPrm # TornPrm

Stat == INSTANCE ZbCmdReg WITH Cmd <- SwapCmds, Capacity <- StatEntries, reg <- swpstat
End0 == INSTANCE ZbCmdReg WITH Cmd <- SUBSET Flags, Capacity <- EndEntries, reg <- slt0end
End1 == INSTANCE ZbCmdReg WITH Cmd <- SUBSET Flags, Capacity <- EndEntries, reg <- slt1end

(* A command in slt0end or slt1end that has flag f. *)
Has(r, f) == r.val # NoCmd /\ f \in r.val

-----------------------------------------------------------------------------
(* zb_image.c *)

VersionOf(c) == IF c = NoImage THEN 0 ELSE Version[c.img]

Address(c, region) == IF c = NoImage THEN region ELSE LoadAt[c.img]

(* zb_img_check: signature, hash over the image as shipped, room for it,    *)
(* and a version not below the one that the parameters name.                *)
Unspoiled(c) == c # NoImage /\ c.img \in Genuine /\ c.form = ShippedForm(c.img)

NotOlder(i) ==
  prm # NoPrm =>
    Version[i] >= IF LoadAt[i] = "slot1" THEN prm.ver1 ELSE prm.ver0

(* Slip: the hash over the image is not compared. *)
SlipImgCheck(c) ==
  c # NoImage /\ c.img \in Genuine /\ c.img \in Fitting /\ NotOlder(c.img)

(* Slip: any version will do. *)
SlipVersion(c) == Unspoiled(c) /\ c.img \in Fitting

ImgCheck(c) == Unspoiled(c) /\ c.img \in Fitting /\ NotOlder(c.img)

-----------------------------------------------------------------------------
(* zb_img_swap: is a swap needed? *)

To(p) == pc' = p

(* A swap was going on. *)
ReadSwpstat ==
  /\ pc = "start"
  /\ To(IF swpstat.val # NoCmd /\ swpstat.val.phase # "END" THEN "proc" ELSE "request")
  /\ UNCHANGED <<flash, cmd, running, fails, history>>

(* A new swap command is given: slot 1 is checked, and a swap of an image   *)
(* that executes from slot 1 is always permanent.                           *)
NewTrial(c) ==
  IF "PERM" \in c.cmd1 \/ slots[0] = NoImage THEN NoTrial
  ELSE [new |-> slots[1].img, old |-> slots[0].img, booted |-> FALSE, confirmed |-> FALSE]

AcceptRequest ==
  /\ pc = "request"
  /\ Has(slt1end, "REQUEST") /\ ImgCheck(slots[1])
  /\ LET inplace == LoadAt[slots[1].img] = "slot1"
     IN  cmd' = [cmd1 |-> (slt1end.val \ {"REQUEST"}) \cup (IF inplace THEN {"PERM"} ELSE {}),
                 phase |-> "START", inplace |-> inplace]
  /\ trial' = NewTrial(cmd')
  /\ To("erase")
  /\ UNCHANGED <<flash, running, fails, floor, mixed>>

NoRequest ==
  /\ pc = "request"
  /\ ~(Has(slt1end, "REQUEST") /\ ImgCheck(slots[1]))
  /\ To("permanent")
  /\ UNCHANGED <<flash, cmd, running, fails, history>>

(* Slip: no swap status is left to erase when the last swap has ended. *)
SlipEraseSwpstat ==
  /\ pc = "erase"
  /\ swpstat' = IF swpstat.val = NoCmd THEN swpstat ELSE Stat!Blank
  /\ To("write")
  /\ UNCHANGED <<slots, prm, slt0end, slt1end, cmd, running, fails, history>>

EraseSwpstat ==
  /\ pc = "erase"
  /\ swpstat' = Stat!Blank
  /\ To("write")
  /\ UNCHANGED <<slots, prm, slt0end, slt1end, cmd, running, fails, history>>

WriteStart ==
  /\ pc = "write"
  /\ swpstat' = Stat!Written(swpstat, cmd)
  /\ cmd' = NoCmd
  /\ To("proc")
  /\ UNCHANGED <<slots, prm, slt0end, slt1end, running, fails, history>>

(* The command that makes the image of slot 0 permanent.  When there is     *)
(* none yet the read leaves four bytes of 0xff, which has every flag set.   *)
PermanentCmd == IF slt0end.val = NoCmd THEN Flags ELSE slt0end.val \cup {"PERM"}

(* Slip: the flag is looked for where it is to be set. *)
SlipMakePermanent ==
  /\ pc = "permanent"
  /\ slt0end' = IF Has(slt0end, "PERM") /\ End0!HasRoom(slt0end)
                THEN End0!Written(slt0end, PermanentCmd) ELSE slt0end
  /\ To("restore")
  /\ UNCHANGED <<slots, prm, slt1end, swpstat, cmd, running, fails, history>>

(* Slip: another entry is written although slt0end is full. *)
SlipPermanentFull ==
  /\ pc = "permanent"
  /\ slt0end' = IF Has(slt1end, "PERM") THEN End0!Written(slt0end, PermanentCmd) ELSE slt0end
  /\ To("restore")
  /\ UNCHANGED <<slots, prm, slt1end, swpstat, cmd, running, fails, history>>

MakePermanent ==
  /\ pc = "permanent"
  /\ slt0end' = IF Has(slt1end, "PERM") /\ End0!HasRoom(slt0end)
                THEN End0!Written(slt0end, PermanentCmd) ELSE slt0end
  /\ To("restore")
  /\ UNCHANGED <<slots, prm, slt1end, swpstat, cmd, running, fails, history>>

(* The last swap was temporary: it is undone, and that for good. *)
Restore ==
  /\ pc = "restore"
  /\ slt0end.val # NoCmd /\ ~Has(slt0end, "PERM")
  /\ cmd' = [cmd1 |-> slt0end.val \cup {"PERM"}, phase |-> "START", inplace |-> FALSE]
  /\ To("erase")
  /\ UNCHANGED <<flash, running, fails, history>>

(* Without a command in slt0end zb_img_swap returns -ENOENT. *)
NoRestore ==
  /\ pc = "restore"
  /\ slt0end.val = NoCmd \/ Has(slt0end, "PERM")
  /\ To(IF slt0end.val = NoCmd THEN "halt" ELSE "main")
  /\ UNCHANGED <<flash, cmd, running, fails, history>>

-----------------------------------------------------------------------------
(* zb_img_cmd_proc *)

AtPhase(p) == pc = "proc" /\ swpstat.val.phase = p

(* The next command; -ENOSPC goes unnoticed. *)
Logged(p) ==
  IF Stat!HasRoom(swpstat) THEN Stat!Written(swpstat, [swpstat.val EXCEPT !.phase = p])
  ELSE swpstat

ExchangeSectors ==
  /\ AtPhase("START")
  /\ slots' = Exchanged(slots, swpstat.val.inplace)
  /\ swpstat' = Logged("P3")
  /\ UNCHANGED <<prm, slt0end, slt1end, pc, cmd, running, fails, history>>

(* After a power failure in P1 or P2 zb_get_img_swp_info looks for the      *)
(* headers where they are no more; the exchange goes on with what it finds. *)
ResumeExchange ==
  /\ AtPhase("P1")
  /\ slots' \in Mixed(slots, swpstat.val.inplace)
  /\ mixed' = TRUE
  /\ swpstat' = Logged("P3")
  /\ UNCHANGED <<prm, slt0end, slt1end, pc, cmd, running, fails, trial, floor>>

EraseSlt0End ==
  /\ AtPhase("P3")
  /\ prm' = NoPrm /\ slt0end' = End0!Blank
  /\ To("prm")
  /\ UNCHANGED <<slots, slt1end, swpstat, cmd, running, fails, history>>

(* Slip: both checksums are those of slot 1. *)
SlipPrmOf(sl, inplace) ==
  [pri |-> IF sl[1] # NoImage /\ inplace THEN LoadAt[sl[1].img] ELSE Address(sl[0], "slot0"),
   sec |-> Address(sl[0], "slot0"),
   crc0 |-> sl[1], ver0 |-> VersionOf(sl[0]),
   crc1 |-> IF sl[1] # NoImage THEN sl[1] ELSE NoCrc, ver1 |-> VersionOf(sl[1])]

(* zb_img_cmd_proc_p3_wrt.  A checksum is that of what the header in the    *)
(* slot describes, taken to be injective; without a header it is that of no *)
(* bytes.                                                                   *)
PrmOf(sl, inplace) ==
  [pri |-> IF sl[1] # NoImage /\ inplace THEN LoadAt[sl[1].img] ELSE Address(sl[0], "slot0"),
   sec |-> Address(sl[0], "slot0"),
   crc0 |-> sl[0], ver0 |-> VersionOf(sl[0]),
   crc1 |-> IF sl[1] # NoImage THEN sl[1] ELSE NoCrc, ver1 |-> VersionOf(sl[1])]

WritePrm ==
  /\ pc = "prm"
  /\ prm' = PrmOf(slots, swpstat.val.inplace)
  /\ To("executed")
  /\ UNCHANGED <<slots, slt0end, slt1end, swpstat, cmd, running, fails, history>>

(* There is nothing to restore when slot 1 holds no image. *)
ExecutedCmd ==
  swpstat.val.cmd1 \cup (IF slots[1] = NoImage THEN {"PERM"} ELSE {})

WriteExecuted ==
  /\ pc = "executed"
  /\ slt0end' = End0!Written(slt0end, ExecutedCmd)
  /\ To("log")
  /\ UNCHANGED <<slots, prm, slt1end, swpstat, cmd, running, fails, history>>

EraseSlt1End ==
  /\ AtPhase("P4")
  /\ slt1end' = End1!Blank
  /\ To("log")
  /\ UNCHANGED <<slots, prm, slt0end, swpstat, cmd, running, fails, history>>

(* Slip: phase 4 is not followed by SWP_END. *)
SlipWriteSwpstat ==
  /\ pc = "log"
  /\ swpstat' = Logged("P4")
  /\ To("proc")
  /\ UNCHANGED <<slots, prm, slt0end, slt1end, cmd, running, fails, history>>

WriteSwpstat ==
  /\ pc = "log"
  /\ swpstat' = Logged(IF swpstat.val.phase = "P3" THEN "P4" ELSE "END")
  /\ To("proc")
  /\ UNCHANGED <<slots, prm, slt0end, slt1end, cmd, running, fails, history>>

SwapDone ==
  /\ AtPhase("END")
  /\ To("main")
  /\ UNCHANGED <<flash, cmd, running, fails, history>>

-----------------------------------------------------------------------------
(* main: what to boot *)

(* The copy in RAM.  zb_img_ram_move leaves the key of the cipher unset, so *)
(* an encrypted image comes out right only by accident.                     *)
RamCopies(c) ==
  IF c = NoImage THEN {NoImage}
  ELSE IF c.img \in Encrypted THEN {Content(c.img, "plain"), Content(c.img, "spoiled")}
  ELSE {c}

(* The load address to try, after a request to boot slot 0 and after the    *)
(* checksum over slot 1.                                                    *)
Wanted == IF slt1end.val = {"BT0"} THEN prm.sec ELSE prm.pri

Chosen == IF Wanted = "slot1" /\ slots[1] # prm.crc1 THEN prm.sec ELSE Wanted

(* What executes at the chosen address. *)
Executing ==
  IF Chosen = "slot1" THEN {slots[1]}
  ELSE IF Chosen = "ram" THEN RamCopies(slots[0]) ELSE {slots[0]}

CanBoot == prm # NoPrm /\ (Chosen # "slot1" => slots[0] = prm.crc0)

Boot ==
  /\ pc = "main" /\ CanBoot
  /\ \E c \in Executing : running' = [at |-> Chosen, what |-> c]
  /\ trial' = IF trial = NoTrial \/ Has(slt0end, "PERM") THEN NoTrial
              ELSE [trial EXCEPT !.booted = TRUE]
  /\ floor' = IF Has(slt0end, "PERM") THEN VersionOf(slots[0]) ELSE floor
  /\ To("run")
  /\ UNCHANGED <<flash, cmd, fails, mixed>>

NothingValid ==
  /\ pc = "main" /\ ~CanBoot
  /\ To("halt")
  /\ UNCHANGED <<flash, cmd, running, fails, history>>

-----------------------------------------------------------------------------
(* The application *)

May(way, inviting) == inviting => way \in Careless

(* The image of slot 0 is not permanent (yet). *)
Pending == slt0end.val # NoCmd /\ ~Has(slt0end, "PERM")

(* An application runs; what does not execute as it was built is taken to   *)
(* hang until a reset.                                                      *)
Runs == pc = "run" /\ running.what # NoImage /\ running.what.form = "plain"

(* An image is uploaded to slot 1, which erases slt1end; only an image that *)
(* does not execute from slot 1 can do so.  The upload may be incomplete.   *)
CanUpload == Runs /\ running.at # "slot1" /\ May("upload_in_trial", Pending)

Upload ==
  /\ CanUpload
  /\ \E i \in Image : \E f \in {ShippedForm(i), "spoiled"} :
       slots' = [slots EXCEPT ![1] = Content(i, f)]
  /\ slt1end' = End1!Blank
  /\ UNCHANGED <<prm, slt0end, swpstat, pc, cmd, running, fails, history>>

(* The four commands of usage.md: 0x10, 0x11, 0x01 and 0x20. *)
Requests == {{"REQUEST"}, {"REQUEST", "PERM"}, {"PERM"}, {"BT0"}}

CanRequest(f) ==
  /\ Runs
  /\ ~slt1end.dirty /\ End1!HasRoom(slt1end)
  /\ May("request_in_trial", Pending /\ "REQUEST" \in f)
  /\ May("bt0_without_image", slots[0] = NoImage /\ "BT0" \in f)

Request ==
  /\ \E f \in Requests :
       /\ CanRequest(f)
       /\ slt1end' = End1!Written(slt1end, f)
       /\ trial' = IF trial # NoTrial THEN [trial EXCEPT !.confirmed = (f = {"PERM"})] ELSE trial
  /\ UNCHANGED <<slots, prm, slt0end, swpstat, pc, cmd, running, fails, floor, mixed>>

(* A reset, by the application or its watchdog; and one when power is back. *)
ResetFrom(p) ==
  /\ pc = p
  /\ To("start")
  /\ running' = Idle
  /\ UNCHANGED <<flash, cmd, fails, history>>

Reset == ResetFrom("run") \/ ResetFrom("halt")
PowerOn == ResetFrom("off")

-----------------------------------------------------------------------------
(* Power failures *)

Fail ==
  /\ fails < MaxFails
  /\ fails' = fails + 1
  /\ To("off")
  /\ cmd' = NoCmd /\ running' = Idle
  /\ UNCHANGED history

FailBetween == pc # "off" /\ Fail /\ UNCHANGED flash

(* In a write to swpstat, which may be the last one of the exchange. *)
FailInSwpstat ==
  /\ pc \in {"write", "log"} \/ AtPhase("START") \/ AtPhase("P1")
  /\ Fail
  /\ Stat!HasRoom(swpstat) /\ swpstat' = Stat!Torn(swpstat)
  /\ UNCHANGED <<slots, prm, slt0end, slt1end>>

(* In P1 or P2, before the headers are where a restart looks for them.  An  *)
(* image that stays in slot 1 unencrypted is not moved.                     *)
FailInExchange ==
  /\ AtPhase("START")
  /\ swpstat.val.inplace => Moved(slots[1]) # slots[1]
  /\ Fail
  /\ Stat!HasRoom(swpstat) /\ swpstat' = Logged("P1")
  /\ UNCHANGED <<slots, prm, slt0end, slt1end>>

FailInSwpstatErase ==
  /\ pc = "erase"
  /\ Fail
  /\ swpstat' \in Stat!HalfErased(swpstat)
  /\ UNCHANGED <<slots, prm, slt0end, slt1end>>

FailInSlt0End ==
  /\ \/ pc = "executed"
     \/ pc = "permanent" /\ Has(slt1end, "PERM") /\ End0!HasRoom(slt0end)
  /\ Fail
  /\ slt0end' = End0!Torn(slt0end)
  /\ UNCHANGED <<slots, prm, slt1end, swpstat>>

FailInPhase3 ==
  /\ Fail
  /\ \/ AtPhase("P3") /\ slt0end' \in End0!HalfErased(slt0end)
     \/ pc = "prm" /\ UNCHANGED slt0end
  /\ prm' = TornPrm
  /\ UNCHANGED <<slots, slt1end, swpstat>>

FailInPhase4 ==
  /\ AtPhase("P4")
  /\ Fail
  /\ slt1end' \in End1!HalfErased(slt1end)
  /\ UNCHANGED <<slots, prm, slt0end, swpstat>>

FailInUpload ==
  /\ CanUpload
  /\ Fail
  /\ \E c \in {NoImage} \cup {Content(i, "spoiled") : i \in Image} :
       slots' = [slots EXCEPT ![1] = c]
  /\ slt1end' \in {End1!Blank} \cup End1!HalfErased(slt1end)
  /\ UNCHANGED <<prm, slt0end, swpstat>>

FailInRequest ==
  /\ \E f \in Requests : CanRequest(f)
  /\ Fail
  /\ slt1end' = End1!Torn(slt1end)
  /\ UNCHANGED <<slots, prm, slt0end, swpstat>>

PowerFail ==
  \/ FailBetween \/ FailInSwpstat \/ FailInExchange \/ FailInSwpstatErase \/ FailInSlt0End
  \/ FailInPhase3 \/ FailInPhase4 \/ FailInUpload \/ FailInRequest

-----------------------------------------------------------------------------
(* Specification *)

(* A new device: an image was programmed to slot 1 with a request beside it *)
(* (usage.md, steps 4 to 6); it may be one that will be refused.            *)
Init ==
  /\ \E i \in Image : \E f \in {ShippedForm(i), "spoiled"} :
       slots = [s \in Slot |-> IF s = 1 THEN Content(i, f) ELSE NoImage]
  /\ prm = NoPrm
  /\ slt0end = End0!Blank
  /\ \E f \in {{"REQUEST"}, {"REQUEST", "PERM"}} : slt1end = End1!Written(End1!Blank, f)
  /\ swpstat = Stat!Blank
  /\ pc = "off" /\ cmd = NoCmd /\ running = Idle
  /\ fails = 0 /\ trial = NoTrial /\ floor = 0 /\ mixed = FALSE

ImgSwap ==
  \/ ReadSwpstat \/ AcceptRequest \/ NoRequest \/ EraseSwpstat \/ WriteStart
  \/ MakePermanent \/ Restore \/ NoRestore
  \/ ExchangeSectors \/ ResumeExchange \/ EraseSlt0End \/ WritePrm \/ WriteExecuted \/ EraseSlt1End
  \/ WriteSwpstat \/ SwapDone

Loader == ImgSwap \/ Boot \/ NothingValid \/ PowerOn

Application == Upload \/ Request \/ Reset

Next == Loader \/ Application \/ PowerFail

Spec == Init /\ [][Next]_vars

(* The bootloader runs alone: once power is back it goes on until it has    *)
(* booted.                                                                  *)
FairSpec == Spec /\ WF_vars(Loader)

-----------------------------------------------------------------------------
(* Properties *)

TypeOK ==
  /\ slots \in [Slot -> Contents]
  /\ prm \in Prms \cup {NoPrm, TornPrm}
  /\ slt0end \in End0!Registers /\ slt1end \in End1!Registers /\ swpstat \in Stat!Registers
  /\ pc \in {"off", "start", "request", "erase", "write", "permanent", "restore", "proc",
             "prm", "executed", "log", "main", "run", "halt"}
  /\ cmd \in SwapCmds \cup {NoCmd}
  /\ running \in [at : Regions, what : Contents] \cup {Idle}
  /\ fails \in 0 .. MaxFails
  /\ trial \in [new : Image, old : Image, booted : BOOLEAN, confirmed : BOOLEAN]
               \cup {NoTrial}
  /\ floor \in Nat
  /\ mixed \in BOOLEAN

(* Whatever executes was signed, is complete and decrypted, and lies where  *)
(* it was built to run, after any sequence of uploads, commands, resets and *)
(* power failures in which no exchange went on with the wrong headers; what *)
(* main() boots after that is not protected (zb_get_img_swp_info).          *)
BootsWhole ==
  pc = "run" /\ ~mixed =>
    /\ running.what # NoImage
    /\ running.what.img \in Genuine /\ running.what.form = "plain"
    /\ LoadAt[running.what.img] = running.at

(* There is always an image left to boot, as long as no exchange went on    *)
(* with the wrong headers: main ends with "Nothing valid to boot" on a      *)
(* device only that never got a valid image.                                *)
NeverHalts ==
  pc = "halt" /\ ~mixed => swpstat = Stat!Blank /\ slots[0] = NoImage /\ ~ImgCheck(slots[1])

(* The parameters are never read while torn, and outside of a swap they are *)
(* those of slot 0 as it is: its checksum and its version.  A mixture of    *)
(* images is no exception: it is recorded for what it is.                   *)
PrmOfSlot0 ==
  pc \in {"request", "permanent", "restore", "main", "run"} =>
    /\ prm # TornPrm
    /\ prm # NoPrm => prm.crc0 = slots[0] /\ prm.ver0 = VersionOf(slots[0])

(* A temporary swap that was not made permanent runs the new image once: at *)
(* the next boot the image it replaced is back (usage.md "a reboot will     *)
(* restore the previous image").  Once made permanent the new image stays.  *)
(* Not so when an exchange went on with the wrong headers.                  *)
TrialEnds ==
  [][ pc = "main" /\ pc' = "run" /\ trial # NoTrial /\ ~mixed =>
        /\ trial.booted /\ ~trial.confirmed => running'.what.img = trial.old
        /\ trial.confirmed => running'.what.img = trial.new ]_vars

(* Slot 0 never goes back behind the version that was last permanent in it, *)
(* neither by a request nor by a restore, unless an exchange went on with   *)
(* the wrong headers.                                                       *)
NeverOlder ==
  [][ pc = "main" /\ pc' = "run" /\ slots[0] # NoImage /\ ~mixed =>
        VersionOf(slots[0]) >= floor ]_vars

(* The logs are used as zb_cmd_write and zb_cmd_read promise to work: never *)
(* a write after a cut erase, never one beyond the end.                     *)
LogsRespected ==
  [][Stat!Next]_swpstat /\ [][End0!Next]_slt0end /\ [][End1!Next]_slt1end

(* Whenever power is back the loader finishes: it boots, or has found that  *)
(* there is nothing to boot (which NeverHalts confines).                    *)
ComesUp == pc = "off" ~> pc \in {"run", "halt"}
=============================================================================
