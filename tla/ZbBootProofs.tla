---------------------------- MODULE ZbBootProofs ----------------------------
(***************************************************************************)
(* The device of ZbBoot is typed, keeps in its parameters the checksum and *)
(* the version of what slot 0 holds, and uses its command logs as these    *)
(* allow: for any images, sizes of the logs, number of power failures, and *)
(* for a careless application, too.                                        *)
(***************************************************************************)
EXTENDS ZbBoot, TLAPS

(* No swap is going on when this is the last command in swpstat. *)
Ended(c) == c = NoCmd \/ c.phase = "END"

(* An erase of swpstat is cut only where no swap is going on, so a command  *)
(* that is lost and found again is one that ended a swap.                   *)
StatInv ==
  /\ swpstat.val # swpstat.last => swpstat.val = NoCmd /\ Ended(swpstat.last)
  /\ swpstat.dirty => Ended(swpstat.last)

(* What swpstat and slt0end hold wherever the loader is; slt0end is erased  *)
(* again before it is written.                                              *)
PcInv ==
  /\ pc \in {"request", "erase", "write", "permanent", "restore", "main", "run", "halt"}
       => Ended(swpstat.val)
  /\ pc \in {"erase", "write"} => cmd \in SwapCmds /\ cmd.phase = "START"
  /\ pc = "write" => swpstat = Stat!Blank
  /\ pc \in {"proc", "prm", "executed", "log"} => swpstat.val # NoCmd
  /\ pc \in {"prm", "executed"} => swpstat.val.phase = "P3" /\ slt0end = End0!Blank
  /\ pc = "log" => swpstat.val.phase \in {"P3", "P4"}
  /\ slt0end.dirty =>
       pc \in {"off", "start", "proc"} /\ swpstat.val # NoCmd /\ swpstat.val.phase = "P3"

PrmGood ==
  prm # TornPrm /\ (prm # NoPrm => prm.crc0 = slots[0] /\ prm.ver0 = VersionOf(slots[0]))

(* The parameters describe slot 0 except from the exchange of the sectors   *)
(* to the end of phase 3.                                                   *)
PrmInv ==
  Ended(swpstat.val) \/ swpstat.val.phase = "P4" \/ pc \in {"executed", "log"} => PrmGood

BootInv == TypeOK /\ StatInv /\ PcInv /\ PrmInv

-----------------------------------------------------------------------------
(* Operators *)

(* The exchange yields contents of slots. *)
LEMMA ExchangedTyped ==
  ASSUME NEW sl \in [Slot -> Contents], NEW inplace \in BOOLEAN
  PROVE  Exchanged(sl, inplace) \in [Slot -> Contents]
<1>1. \A c \in Contents : Moved(c) \in Contents
  BY DEF Moved, Contents, Content, Forms
<1>2. sl[0] \in Contents /\ sl[1] \in Contents
  BY DEF Slot
<1>3. NoImage \in Contents /\ (sl[0] # NoImage => Content(sl[0].img, "spoiled") \in Contents)
  BY <1>2 DEF Contents, Content, Forms
<1> QED BY <1>1, <1>2, <1>3 DEF Exchanged, Slot

(* So does an exchange that goes on with the wrong headers. *)
LEMMA MixedTyped ==
  ASSUME NEW sl \in [Slot -> Contents], NEW inplace
  PROVE  Mixed(sl, inplace) \subseteq [Slot -> Contents]
<1>1. \A s \in Slot : sl[s] # NoImage => sl[s].img \in Image
  BY DEF Contents
<1>2. \A i \in Image : \A f \in Forms : Content(i, f) \in Contents
  BY DEF Contents, Content
<1>3. NoImage \in Contents
  BY DEF Contents
<1> QED BY <1>1, <1>2, <1>3 DEF Mixed

(* What phase 3 writes are parameters. *)
LEMMA PrmOfTyped ==
  ASSUME NEW sl \in [Slot -> Contents], NEW inplace
  PROVE  PrmOf(sl, inplace) \in Prms
<1>1. sl[0] \in Contents /\ sl[1] \in Contents
  BY DEF Slot
<1>2. \A c \in Contents : VersionOf(c) \in Nat
  BY BootAssumption DEF VersionOf, Contents
<1>3. \A c \in Contents : c # NoImage => LoadAt[c.img] \in Regions
  BY ContentsAssumption DEF Contents
<1>4. \A c \in Contents : Address(c, "slot0") \in Regions
  BY <1>3 DEF Address, Regions
<1> QED BY <1>1, <1>2, <1>3, <1>4 DEF PrmOf, Prms

(* A half erased area is an area. *)
LEMMA HalfErasedTyped ==
  /\ \A r \in Stat!Registers : Stat!HalfErased(r) \subseteq Stat!Registers
  /\ \A r \in End0!Registers : End0!HalfErased(r) \subseteq End0!Registers
  /\ \A r \in End1!Registers : End1!HalfErased(r) \subseteq End1!Registers
<1>1. \A r \in Stat!Registers : Stat!HalfErased(r) \subseteq Stat!Registers
  BY DEF Stat!HalfErased, Stat!Registers
<1>2. \A r \in End0!Registers : End0!HalfErased(r) \subseteq End0!Registers
  BY DEF End0!HalfErased, End0!Registers
<1>3. \A r \in End1!Registers : End1!HalfErased(r) \subseteq End1!Registers
  BY DEF End1!HalfErased, End1!Registers
<1> QED BY <1>1, <1>2, <1>3

(* A cut erase of swpstat leaves the last command or none. *)
LEMMA HalfErasedStat ==
  ASSUME NEW r \in Stat!HalfErased(swpstat)
  PROVE  r.val \in {swpstat.last, NoCmd} /\ r.last = swpstat.last
BY DEF Stat!HalfErased

(* A swap that is started is a command. *)
LEMMA StartTyped ==
  ASSUME TypeOK, AcceptRequest \/ Restore
  PROVE  cmd' \in SwapCmds /\ cmd'.phase = "START"
<1>1. CASE AcceptRequest
  BY <1>1, BootMarkersAssumption
  DEF TypeOK, AcceptRequest, Has, SwapCmds, Phases, Flags, End1!Registers
<1>2. CASE Restore
  BY <1>2, BootMarkersAssumption DEF TypeOK, Restore, SwapCmds, Phases, Flags, End0!Registers
<1> QED BY <1>1, <1>2

(* What executes comes from a slot or from a copy of one. *)
LEMMA ExecutingTyped ==
  ASSUME TypeOK, prm \in Prms
  PROVE  Chosen \in Regions /\ Executing \subseteq Contents
<1>1. Chosen \in Regions
  BY DEF Chosen, Wanted, Prms
<1>2. slots[0] \in Contents /\ slots[1] \in Contents
  BY DEF TypeOK, Slot
<1>3. RamCopies(slots[0]) \subseteq Contents
  BY <1>2 DEF RamCopies, Contents, Content, Forms
<1> QED BY <1>1, <1>2, <1>3 DEF Executing

(* The next command of a swap is a command. *)
LEMMA LoggedTyped ==
  ASSUME TypeOK, swpstat.val # NoCmd, NEW p \in {"P1", "P3", "P4", "END"}
  PROVE  Logged(p) \in Stat!Registers
<1>1. swpstat.val \in SwapCmds
  BY DEF TypeOK, Stat!Registers
<1>2. [swpstat.val EXCEPT !.phase = p] \in SwapCmds
  BY <1>1 DEF SwapCmds, Phases
<1> QED BY <1>2, BootAssumption DEF Logged, TypeOK, Stat!Registers, Stat!HasRoom, Stat!Written

(* What a boot records is typed; it reads parameters that are not torn. *)
LEMMA BootTyped ==
  ASSUME BootInv, Boot
  PROVE  /\ running' \in [at : Regions, what : Contents]
         /\ trial' \in [new : Image, old : Image, booted : BOOLEAN, confirmed : BOOLEAN]
                       \cup {NoTrial}
         /\ floor' \in Nat
<1>1. prm \in Prms
  BY DEF Boot, CanBoot, BootInv, TypeOK, PcInv, PrmInv, PrmGood
<1>2. running' \in [at : Regions, what : Contents]
  BY <1>1, ExecutingTyped DEF Boot, BootInv
<1>3. slots[0] \in Contents
  BY DEF BootInv, TypeOK, Slot
<1>4. VersionOf(slots[0]) \in Nat
  BY <1>3, BootAssumption DEF VersionOf, Contents
<1> QED BY <1>2, <1>4 DEF Boot, BootInv, TypeOK

(* A request by the application leaves everything typed. *)
LEMMA RequestTyped ==
  ASSUME TypeOK, Request
  PROVE  TypeOK'
<1>1. PICK f \in Requests :
        /\ CanRequest(f)
        /\ slt1end' = End1!Written(slt1end, f)
        /\ trial' = IF trial # NoTrial THEN [trial EXCEPT !.confirmed = (f = {"PERM"})] ELSE trial
  BY DEF Request
<1>2. f \in SUBSET Flags
  BY DEF Requests, Flags
<1>3. slt1end' \in End1!Registers
  BY <1>1, <1>2, BootAssumption DEF TypeOK, CanRequest, End1!Registers, End1!HasRoom, End1!Written
<1>4. (f = {"PERM"}) \in BOOLEAN
  OBVIOUS
<1>5. trial' \in [new : Image, old : Image, booted : BOOLEAN, confirmed : BOOLEAN] \cup {NoTrial}
  <2>1. CASE trial = NoTrial
    BY <2>1, <1>1
  <2>2. CASE trial # NoTrial
    <3>1. \A b \in BOOLEAN : [trial EXCEPT !.confirmed = b]
             \in [new : Image, old : Image, booted : BOOLEAN, confirmed : BOOLEAN]
      BY <2>2 DEF TypeOK
    <3> QED BY <3>1, <2>2, <1>1, <1>4
  <2> QED BY <2>1, <2>2
<1> QED BY <1>3, <1>5 DEF Request, TypeOK

-----------------------------------------------------------------------------
(* The inductive invariant *)

(* Types, action by action. *)
LEMMA TypeKept ==
  ASSUME BootInv, [Next]_vars
  PROVE  TypeOK'
<1> USE BootAssumption, BootMarkersAssumption, ContentsAssumption
<1>1. CASE ReadSwpstat \/ NoRequest \/ NoRestore \/ SwapDone \/ NothingValid
  BY <1>1
  DEF ReadSwpstat, NoRequest, NoRestore, SwapDone, NothingValid, BootInv, TypeOK, To,
      flash, history, AtPhase
<1>2. CASE AcceptRequest
  BY <1>2, StartTyped
  DEF AcceptRequest, BootInv, TypeOK, To, flash, ImgCheck, Unspoiled, NewTrial,
      Contents, Slot
<1>3. CASE Restore
  BY <1>3, StartTyped
  DEF Restore, BootInv, TypeOK, To, flash, history
<1>4. CASE EraseSwpstat \/ WriteStart
  <2>1. Stat!Blank \in Stat!Registers
    BY DEF Stat!Blank, Stat!Registers
  <2>2. ASSUME WriteStart
        PROVE  Stat!Written(swpstat, cmd) \in Stat!Registers
    <3>1. cmd \in SwapCmds /\ swpstat = Stat!Blank
      BY <2>2 DEF WriteStart, BootInv, PcInv
    <3>2. Stat!Written(swpstat, cmd) = [val |-> cmd, last |-> cmd, used |-> 1, dirty |-> FALSE]
      BY <3>1 DEF Stat!Blank, Stat!Written
    <3> QED BY <3>1, <3>2 DEF Stat!Registers
  <2> QED BY <2>1, <2>2, <1>4 DEF EraseSwpstat, WriteStart, BootInv, TypeOK, To, history
<1>5. CASE MakePermanent
  BY <1>5
  DEF MakePermanent, BootInv, TypeOK, To, history, PermanentCmd, Flags, Has,
      End0!Registers, End0!HasRoom, End0!Written
<1>6. CASE ExchangeSectors
  BY <1>6, ExchangedTyped, LoggedTyped
  DEF ExchangeSectors, BootInv, TypeOK, To, PcInv, AtPhase, history, SwapCmds,
      Stat!Registers
<1>7. CASE EraseSlt0End
  BY <1>7
  DEF EraseSlt0End, BootInv, TypeOK, To, AtPhase, history, End0!Registers, End0!Blank
<1>8. CASE WritePrm
  BY <1>8, PrmOfTyped
  DEF WritePrm, BootInv, TypeOK, To, history
<1>9. CASE WriteExecuted
  BY <1>9
  DEF WriteExecuted, BootInv, TypeOK, To, PcInv, history, ExecutedCmd, SwapCmds, Flags,
      Stat!Registers, End0!Registers, End0!Blank, End0!Written
<1>10. CASE EraseSlt1End
  BY <1>10
  DEF EraseSlt1End, BootInv, TypeOK, To, AtPhase, history, End1!Registers, End1!Blank
<1>11. CASE WriteSwpstat
  BY <1>11, LoggedTyped
  DEF WriteSwpstat, BootInv, TypeOK, To, PcInv, history
<1>12. CASE Boot
  BY <1>12, ExecutingTyped, BootTyped
  DEF Boot, BootInv, TypeOK, To, flash
<1>13. CASE Upload
  BY <1>13
  DEF Upload, BootInv, TypeOK, To, CanUpload, history, Slot, Contents, Content, Forms,
      ShippedForm, End1!Registers, End1!Blank
<1>14. CASE Request
  BY <1>14, RequestTyped
  DEF Request, BootInv, TypeOK, To
<1>15. CASE PowerOn \/ Reset
  BY <1>15
  DEF PowerOn, Reset, BootInv, TypeOK, To, ResetFrom, flash, history
<1>16. CASE FailBetween
  BY <1>16
  DEF FailBetween, BootInv, TypeOK, To, Fail, flash, history
<1>17. CASE FailInSwpstat
  BY <1>17
  DEF FailInSwpstat, BootInv, TypeOK, To, Fail, history, Stat!Registers, Stat!HasRoom,
      Stat!Torn
<1>18. CASE FailInSwpstatErase
  BY <1>18, HalfErasedTyped
  DEF FailInSwpstatErase, BootInv, TypeOK, To, Fail, history
<1>19. CASE FailInSlt0End
  BY <1>19
  DEF FailInSlt0End, BootInv, TypeOK, To, PcInv, Fail, history, End0!Registers,
      End0!HasRoom, End0!Torn, End0!Blank
<1>20. CASE FailInPhase3
  BY <1>20, HalfErasedTyped
  DEF FailInPhase3, BootInv, TypeOK, To, Fail, history
<1>21. CASE FailInPhase4
  BY <1>21, HalfErasedTyped
  DEF FailInPhase4, BootInv, TypeOK, To, Fail, history
<1>22. CASE FailInUpload
  <2>1. slots' \in [Slot -> Contents]
    BY <1>22 DEF FailInUpload, BootInv, TypeOK, Slot, Contents, Content, Forms
  <2>2. slt1end' \in End1!Registers
    <3>1. End1!Blank \in End1!Registers
      BY DEF End1!Blank, End1!Registers
    <3> QED BY <3>1, <1>22, HalfErasedTyped DEF FailInUpload, BootInv, TypeOK
  <2> QED BY <2>1, <2>2, <1>22 DEF FailInUpload, BootInv, TypeOK, To, Fail, history
<1>23. CASE FailInRequest
  BY <1>23
  DEF FailInRequest, BootInv, TypeOK, To, CanRequest, Fail, history, End1!Registers,
      End1!HasRoom, End1!Torn
<1>24. CASE ResumeExchange
  BY <1>24, MixedTyped, LoggedTyped
  DEF ResumeExchange, BootInv, TypeOK, PcInv, AtPhase
<1>25. CASE FailInExchange
  BY <1>25, LoggedTyped
  DEF FailInExchange, BootInv, TypeOK, To, PcInv, AtPhase, Fail, history
<1>26. CASE UNCHANGED vars
  BY <1>26
  DEF BootInv, TypeOK, vars, flash, history
<1> QED
  BY <1>1, <1>2, <1>3, <1>4, <1>5, <1>6, <1>7, <1>8, <1>9, <1>10, <1>11, <1>12,
     <1>13, <1>14, <1>15, <1>16, <1>17, <1>18, <1>19, <1>20, <1>21, <1>22, <1>23,
     <1>24, <1>25, <1>26
  DEF Next, Loader, ImgSwap, Application, PowerFail

(* The actions that write or erase swpstat. *)
LEMMA StatKept ==
  ASSUME BootInv, [Next]_vars
  PROVE  StatInv'
<1> USE BootMarkersAssumption
<1>1. CASE EraseSwpstat \/ WriteStart
  BY <1>1
  DEF EraseSwpstat, WriteStart, BootInv, StatInv, Ended, PcInv, Stat!Blank,
      Stat!Written
<1>2. CASE ExchangeSectors \/ ResumeExchange
  BY <1>2
  DEF ExchangeSectors, ResumeExchange, BootInv, StatInv, Ended, PcInv, AtPhase, Logged, TypeOK,
      Stat!Registers, SwapCmds, Phases, Stat!Written
<1>3. CASE WriteSwpstat
  BY <1>3
  DEF WriteSwpstat, BootInv, StatInv, Ended, PcInv, Logged, TypeOK, Stat!Registers,
      SwapCmds, Phases, Stat!Written
<1>4. CASE FailInSwpstat \/ FailInExchange
  BY <1>4
  DEF FailInSwpstat, FailInExchange, BootInv, StatInv, Ended, PcInv, AtPhase, Logged, TypeOK,
      Stat!Registers, SwapCmds, Phases, Stat!Written, Stat!Torn
<1>5. CASE FailInSwpstatErase
  BY <1>5, HalfErasedStat
  DEF FailInSwpstatErase, BootInv, StatInv, Ended, PcInv
<1>6. CASE UNCHANGED swpstat
  BY <1>6
  DEF BootInv, StatInv, Ended
<1>7. \/ EraseSwpstat \/ WriteStart \/ ExchangeSectors \/ ResumeExchange \/ WriteSwpstat
      \/ FailInSwpstat \/ FailInExchange \/ FailInSwpstatErase \/ UNCHANGED swpstat
  BY DEF Next, Loader, ImgSwap, Application, PowerFail, vars, flash, ReadSwpstat, AcceptRequest,
     NoRequest, MakePermanent, Restore, NoRestore, EraseSlt0End, WritePrm, WriteExecuted,
     EraseSlt1End, SwapDone, Boot, NothingValid, PowerOn, Reset, ResetFrom, Upload, Request,
     FailBetween, FailInSlt0End, FailInPhase3, FailInPhase4, FailInUpload, FailInRequest
<1> QED BY <1>1, <1>2, <1>3, <1>4, <1>5, <1>6, <1>7

(* What swpstat and slt0end hold, action by action. *)
LEMMA PcKept ==
  ASSUME BootInv, [Next]_vars
  PROVE  PcInv'
<1> USE BootMarkersAssumption
<1>1. CASE ReadSwpstat
  BY <1>1
  DEF ReadSwpstat, BootInv, PcInv, Ended, To, flash
<1>2. CASE NoRequest \/ NoRestore \/ SwapDone \/ NothingValid
  BY <1>2
  DEF NoRequest, NoRestore, SwapDone, NothingValid, BootInv, PcInv, Ended, To, flash,
      AtPhase
<1>3. CASE AcceptRequest \/ Restore
  BY <1>3, StartTyped
  DEF AcceptRequest, Restore, BootInv, PcInv, Ended, To, flash
<1>4. CASE EraseSwpstat
  BY <1>4
  DEF EraseSwpstat, BootInv, PcInv, Ended, To, Stat!Blank
<1>5. CASE WriteStart
  BY <1>5
  DEF WriteStart, BootInv, PcInv, Ended, To, Stat!Written
<1>6. CASE MakePermanent
  BY <1>6
  DEF MakePermanent, BootInv, PcInv, Ended, To, End0!Written
<1>7. CASE ExchangeSectors \/ ResumeExchange
  BY <1>7
  DEF ExchangeSectors, ResumeExchange, BootInv, PcInv, Ended, To, AtPhase, Logged, TypeOK,
      Stat!Registers, SwapCmds, Phases, Stat!Written
<1>8. CASE EraseSlt0End
  BY <1>8
  DEF EraseSlt0End, BootInv, PcInv, Ended, To, AtPhase, End0!Blank
<1>9. CASE WritePrm \/ EraseSlt1End
  BY <1>9
  DEF WritePrm, EraseSlt1End, BootInv, PcInv, Ended, To, AtPhase, End0!Blank
<1>10. CASE WriteExecuted
  BY <1>10
  DEF WriteExecuted, BootInv, PcInv, Ended, To, End0!Blank, End0!Written
<1>11. CASE WriteSwpstat
  BY <1>11
  DEF WriteSwpstat, BootInv, PcInv, Ended, To, Logged, TypeOK, Stat!Registers,
      SwapCmds, Phases, Stat!Written
<1>12. CASE Boot \/ Upload \/ Request
  BY <1>12
  DEF Boot, Upload, Request, BootInv, PcInv, Ended, To, CanUpload, CanRequest, Runs, flash
<1>13. CASE PowerOn \/ Reset
  BY <1>13
  DEF PowerOn, Reset, BootInv, PcInv, Ended, To, ResetFrom, flash
<1>14. CASE FailBetween \/ FailInPhase4 \/ FailInUpload \/ FailInRequest
  BY <1>14
  DEF FailBetween, FailInPhase4, FailInUpload, FailInRequest, BootInv, PcInv, Ended,
      To, Fail, flash
<1>15. CASE FailInSwpstat \/ FailInSwpstatErase
  BY <1>15
  DEF FailInSwpstat, FailInSwpstatErase, BootInv, PcInv, Ended, To, Fail, AtPhase
<1>16. CASE FailInSlt0End
  BY <1>16
  DEF FailInSlt0End, BootInv, PcInv, Ended, To, Fail, TypeOK, End0!Registers,
      End0!Torn, End0!Blank
<1>17. CASE FailInPhase3
  BY <1>17
  DEF FailInPhase3, BootInv, PcInv, Ended, To, Fail, AtPhase
<1>18. CASE FailInExchange
  BY <1>18
  DEF FailInExchange, BootInv, PcInv, Ended, To, Fail, AtPhase, Logged, TypeOK,
      Stat!Registers, SwapCmds, Phases, Stat!Written
<1>19. CASE UNCHANGED vars
  BY <1>19
  DEF BootInv, PcInv, Ended, vars, flash
<1> QED
  BY <1>1, <1>2, <1>3, <1>4, <1>5, <1>6, <1>7, <1>8, <1>9, <1>10, <1>11, <1>12,
     <1>13, <1>14, <1>15, <1>16, <1>17, <1>18, <1>19
  DEF Next, Loader, ImgSwap, Application, PowerFail

(* The parameters, action by action; slot 0 and they change in the exchange and *)
(* in phase 3 only.                                                          *)
LEMMA PrmKept ==
  ASSUME BootInv, [Next]_vars
  PROVE  PrmInv'
<1> USE BootMarkersAssumption
<1>1. CASE ReadSwpstat \/ NoRequest \/ NoRestore \/ SwapDone \/ NothingValid
  BY <1>1
  DEF ReadSwpstat, NoRequest, NoRestore, SwapDone, NothingValid, BootInv, PcInv,
      PrmInv, PrmGood, Ended, To, flash, AtPhase
<1>2. CASE AcceptRequest \/ Restore \/ MakePermanent
  BY <1>2
  DEF AcceptRequest, Restore, MakePermanent, BootInv, PcInv, PrmInv, PrmGood, Ended,
      To, flash
<1>3. CASE EraseSwpstat \/ WriteStart
  BY <1>3
  DEF EraseSwpstat, WriteStart, BootInv, PcInv, PrmInv, PrmGood, Ended, To, Stat!Blank,
      Stat!Written
<1>4. CASE ExchangeSectors \/ ResumeExchange
  BY <1>4
  DEF ExchangeSectors, ResumeExchange, BootInv, PcInv, PrmInv, PrmGood, Ended, To, AtPhase,
      Logged, TypeOK, Stat!Registers, SwapCmds, Phases, Stat!Written
<1>5. CASE EraseSlt0End
  BY <1>5
  DEF EraseSlt0End, BootInv, PcInv, PrmInv, PrmGood, Ended, To, AtPhase
<1>6. CASE WritePrm
  BY <1>6, PrmOfTyped
  DEF WritePrm, BootInv, PcInv, PrmInv, PrmGood, Ended, To, TypeOK, PrmOf
<1>7. CASE WriteExecuted \/ EraseSlt1End
  BY <1>7
  DEF WriteExecuted, EraseSlt1End, BootInv, PcInv, PrmInv, PrmGood, Ended, To, AtPhase
<1>8. CASE WriteSwpstat
  BY <1>8
  DEF WriteSwpstat, BootInv, PcInv, PrmInv, PrmGood, Ended, To, Logged, TypeOK,
      Stat!Registers, SwapCmds, Phases, Stat!Written
<1>9. CASE Boot
  BY <1>9
  DEF Boot, BootInv, PcInv, PrmInv, PrmGood, Ended, To, flash
<1>10. CASE Upload \/ Request
  BY <1>10
  DEF Upload, Request, BootInv, PcInv, PrmInv, PrmGood, Ended, To, TypeOK, CanUpload,
      CanRequest, Runs, Slot
<1>11. CASE PowerOn \/ Reset
  BY <1>11
  DEF PowerOn, Reset, BootInv, PcInv, PrmInv, PrmGood, Ended, To, ResetFrom, flash
<1>12. CASE FailBetween \/ FailInSlt0End \/ FailInPhase4
  BY <1>12
  DEF FailBetween, FailInSlt0End, FailInPhase4, BootInv, PcInv, PrmInv, PrmGood, Ended,
      To, Fail, flash
<1>13. CASE FailInUpload \/ FailInRequest
  BY <1>13
  DEF FailInUpload, FailInRequest, BootInv, PcInv, PrmInv, PrmGood, Ended, To, Fail,
      CanUpload, CanRequest, Runs, TypeOK, Slot
<1>14. CASE FailInSwpstat \/ FailInExchange
  BY <1>14
  DEF FailInSwpstat, FailInExchange, BootInv, PcInv, PrmInv, PrmGood, Ended, To, Fail, AtPhase,
      Logged, TypeOK, Stat!Registers, SwapCmds, Phases, Stat!Written, Stat!Torn
<1>15. CASE FailInSwpstatErase
  BY <1>15, HalfErasedStat
  DEF FailInSwpstatErase, BootInv, PcInv, PrmInv, PrmGood, Ended, To, StatInv, Fail
<1>16. CASE FailInPhase3
  BY <1>16
  DEF FailInPhase3, BootInv, PcInv, PrmInv, PrmGood, Ended, To, Fail, AtPhase
<1>17. CASE UNCHANGED vars
  BY <1>17
  DEF BootInv, PrmInv, PrmGood, Ended, vars, flash
<1> QED
  BY <1>1, <1>2, <1>3, <1>4, <1>5, <1>6, <1>7, <1>8, <1>9, <1>10, <1>11, <1>12,
     <1>13, <1>14, <1>15, <1>16, <1>17
  DEF Next, Loader, ImgSwap, Application, PowerFail

(* A new device satisfies the invariant. *)
LEMMA InitInv ==
  ASSUME Init
  PROVE  BootInv
<1> USE BootAssumption, BootMarkersAssumption, ContentsAssumption
<1>1. slots \in [Slot -> Contents]
  BY DEF Init, Slot, Contents, Content, Forms, ShippedForm
<1>2. swpstat \in Stat!Registers /\ slt0end \in End0!Registers
  BY DEF Init, Stat!Registers, End0!Registers, Stat!Blank, End0!Blank
<1>3. slt1end \in End1!Registers
  BY DEF Init, Flags, End1!Registers, End1!Blank, End1!Written
<1>4. mixed \in BOOLEAN
  BY DEF Init
<1>5. TypeOK
  BY <1>1, <1>2, <1>3, <1>4 DEF Init, TypeOK
<1>6. StatInv /\ PcInv /\ PrmInv
  BY DEF Init, StatInv, PcInv, PrmInv, PrmGood, Ended, Stat!Blank, End0!Blank
<1> QED BY <1>5, <1>6 DEF BootInv

(* The invariant of the device, power failures anywhere included. *)
THEOREM BootInvariant == Spec => []BootInv
<1>1. Init => BootInv
  BY InitInv
<1>2. BootInv /\ [Next]_vars => BootInv'
  BY TypeKept, StatKept, PcKept, PrmKept DEF BootInv
<1> QED BY <1>1, <1>2, PTL DEF Spec

(* Type correctness of the device. *)
THEOREM BootTypeCorrect == Spec => []TypeOK
BY BootInvariant, PTL DEF BootInv

(* Whenever the loader looks at the parameters, and when an image runs,     *)
(* they are not torn, and are those of slot 0 as it is (zb_move.c, phase 3).*)
THEOREM ParametersMatch == Spec => []PrmOfSlot0
<1>1. BootInv => PrmOfSlot0
  BY DEF BootInv, PcInv, PrmInv, PrmGood, PrmOfSlot0
<1> QED BY <1>1, BootInvariant, PTL

(* Steps of swpstat: it is written only where no erase of it was cut. *)
LEMMA StatStep ==
  ASSUME BootInv, [Next]_vars
  PROVE  [Stat!Next]_swpstat
<1> USE BootMarkersAssumption, BootAssumption
<1>1. CASE EraseSwpstat \/ FailInSwpstatErase
  BY <1>1 DEF EraseSwpstat, FailInSwpstatErase, Stat!Next, Stat!Erase, Stat!TearErase
<1>2. CASE WriteStart
  BY <1>2 DEF WriteStart, BootInv, PcInv, Stat!Next, Stat!Write, Stat!Blank, Stat!HasRoom
<1>3. CASE ExchangeSectors \/ ResumeExchange \/ WriteSwpstat \/ FailInExchange
  <2>1. swpstat.val \in SwapCmds /\ swpstat.val.phase # "END" /\ ~swpstat.dirty
    BY <1>3 DEF ExchangeSectors, ResumeExchange, WriteSwpstat, FailInExchange, AtPhase, BootInv,
                TypeOK, StatInv, PcInv, Ended, Stat!Registers
  <2>2. \A p \in {"P1", "P3", "P4", "END"} : [swpstat.val EXCEPT !.phase = p] \in SwapCmds
    BY <2>1 DEF SwapCmds, Phases
  <2>3. PICK p \in {"P1", "P3", "P4", "END"} : swpstat' = Logged(p)
    BY <1>3 DEF ExchangeSectors, ResumeExchange, WriteSwpstat, FailInExchange
  <2> QED BY <2>1, <2>2, <2>3 DEF Logged, Stat!Next, Stat!Write
<1>4. CASE FailInSwpstat
  <2>1. ~swpstat.dirty
    BY <1>4 DEF FailInSwpstat, AtPhase, BootInv, TypeOK, StatInv, PcInv, Ended, Stat!Registers,
                Stat!Blank
  <2> QED BY <2>1, <1>4 DEF FailInSwpstat, Stat!Next, Stat!TearWrite
<1>5. \/ EraseSwpstat \/ WriteStart \/ ExchangeSectors \/ ResumeExchange \/ WriteSwpstat
      \/ FailInSwpstat \/ FailInExchange \/ FailInSwpstatErase \/ UNCHANGED swpstat
  BY DEF Next, Loader, ImgSwap, Application, PowerFail, vars, flash, ReadSwpstat, AcceptRequest,
     NoRequest, MakePermanent, Restore, NoRestore, EraseSlt0End, WritePrm, WriteExecuted,
     EraseSlt1End, SwapDone, Boot, NothingValid, PowerOn, Reset, ResetFrom, Upload, Request,
     FailBetween, FailInSlt0End, FailInPhase3, FailInPhase4, FailInUpload, FailInRequest
<1> QED BY <1>1, <1>2, <1>3, <1>4, <1>5

(* Steps of slt0end: what is written is a command, into a clean area. *)
LEMMA End0Step ==
  ASSUME BootInv, [Next]_vars
  PROVE  [End0!Next]_slt0end
<1> USE BootMarkersAssumption, BootAssumption
<1>1. CASE EraseSlt0End \/ FailInPhase3
  BY <1>1 DEF EraseSlt0End, FailInPhase3, End0!Next, End0!Erase, End0!TearErase
<1>2. CASE MakePermanent
  <2>1. PermanentCmd \in SUBSET Flags
    BY DEF PermanentCmd, BootInv, TypeOK, Flags, End0!Registers
  <2>2. ~slt0end.dirty
    BY <1>2 DEF MakePermanent, BootInv, PcInv
  <2> QED BY <2>1, <2>2, <1>2 DEF MakePermanent, End0!Next, End0!Write
<1>3. CASE WriteExecuted
  <2>1. swpstat.val \in SwapCmds
    BY <1>3 DEF WriteExecuted, BootInv, TypeOK, PcInv, Stat!Registers
  <2>2. ExecutedCmd \in SUBSET Flags
    BY <2>1 DEF ExecutedCmd, SwapCmds, Flags
  <2> QED BY <2>2, <1>3 DEF WriteExecuted, BootInv, PcInv, End0!Next, End0!Write, End0!Blank,
                            End0!HasRoom
<1>4. CASE FailInSlt0End
  BY <1>4 DEF FailInSlt0End, BootInv, PcInv, End0!Next, End0!TearWrite, End0!Blank, End0!HasRoom
<1>5. EraseSlt0End \/ FailInPhase3 \/ MakePermanent \/ WriteExecuted \/ FailInSlt0End
      \/ UNCHANGED slt0end
  BY DEF Next, Loader, ImgSwap, Application, PowerFail, vars, flash, ReadSwpstat, AcceptRequest,
     NoRequest, EraseSwpstat, WriteStart, Restore, NoRestore, ExchangeSectors, ResumeExchange,
     WritePrm,
     EraseSlt1End, WriteSwpstat, SwapDone, Boot, NothingValid, PowerOn, Reset, ResetFrom, Upload,
     Request, FailBetween, FailInSwpstat, FailInExchange, FailInSwpstatErase, FailInPhase4,
     FailInUpload, FailInRequest
<1> QED BY <1>1, <1>2, <1>3, <1>4, <1>5

(* Steps of slt1end, by the loader and by the application. *)
LEMMA End1Step ==
  ASSUME BootInv, [Next]_vars
  PROVE  [End1!Next]_slt1end
<1>1. CASE EraseSlt1End \/ FailInPhase4 \/ Upload \/ FailInUpload
  BY <1>1 DEF EraseSlt1End, FailInPhase4, Upload, FailInUpload, End1!Next, End1!Erase,
              End1!TearErase
<1>2. CASE Request
  <2>1. \A f \in Requests : f \in SUBSET Flags
    BY DEF Requests, Flags
  <2> QED BY <2>1, <1>2 DEF Request, CanRequest, End1!Next, End1!Write
<1>3. CASE FailInRequest
  BY <1>3 DEF FailInRequest, CanRequest, End1!Next, End1!TearWrite
<1>4. EraseSlt1End \/ FailInPhase4 \/ Upload \/ FailInUpload \/ Request \/ FailInRequest
      \/ UNCHANGED slt1end
  BY DEF Next, Loader, ImgSwap, Application, PowerFail, vars, flash, ReadSwpstat, AcceptRequest,
     NoRequest, EraseSwpstat, WriteStart, MakePermanent, Restore, NoRestore, ExchangeSectors,
     ResumeExchange, EraseSlt0End, WritePrm, WriteExecuted, WriteSwpstat, SwapDone, Boot,
     NothingValid, PowerOn, Reset, ResetFrom, FailBetween, FailInSwpstat, FailInExchange,
     FailInSwpstatErase, FailInSlt0End, FailInPhase3
<1> QED BY <1>1, <1>2, <1>3, <1>4

(* The logs are written only where ZbCmdReg allows it: never behind a cut   *)
(* erase and never beyond the end (zb_flash.c, zb_cmd_write).               *)
THEOREM LogsUsedWell == Spec => LogsRespected
<1>1. BootInv /\ [Next]_vars =>
        [Stat!Next]_swpstat /\ [End0!Next]_slt0end /\ [End1!Next]_slt1end
  BY StatStep, End0Step, End1Step
<1> QED BY <1>1, BootInvariant, PTL DEF Spec, LogsRespected

-----------------------------------------------------------------------------
(* How far it is to a boot *)

(* swpstat has room for the four commands of a swap and for an entry torn   *)
(* by each failure.  Where it has not, the loop repeats a phase for ever.   *)
RoomForSwap == StatEntries >= MaxFails + 4

(* What a swap that is under way has used of swpstat. *)
StatUsed ==
  swpstat.val # NoCmd =>
    /\ swpstat.val.phase \in {"START", "P1"} => swpstat.used <= fails + 1
    /\ swpstat.val.phase = "P3" => swpstat.used <= fails + 2
    /\ swpstat.val.phase = "P4" => swpstat.used <= fails + 3

LEMMA StatUsedKept ==
  ASSUME BootInv, StatUsed, [Next]_vars
  PROVE  StatUsed'
<1>1. /\ fails \in Nat /\ fails' \in Nat /\ swpstat.used \in Nat
      /\ fails' = fails \/ fails' = fails + 1
  <2>1. fails \in Nat /\ swpstat.used \in Nat
    BY BootAssumption DEF BootInv, TypeOK, Stat!Registers
  <2>2. fails' = fails \/ fails' = fails + 1
    BY DEF Next, Loader, ImgSwap, Application, PowerFail, vars, ReadSwpstat, AcceptRequest,
       NoRequest, EraseSwpstat, WriteStart, MakePermanent, Restore, NoRestore, ExchangeSectors,
       ResumeExchange, EraseSlt0End, WritePrm, WriteExecuted, EraseSlt1End, WriteSwpstat,
       SwapDone, Boot, NothingValid, PowerOn, Reset, ResetFrom, Upload, Request, FailBetween,
       FailInSwpstat, FailInExchange, FailInSwpstatErase, FailInSlt0End, FailInPhase3,
       FailInPhase4, FailInUpload, FailInRequest, Fail
  <2>3. QED
    BY <2>1, <2>2
<1>2. CASE EraseSwpstat
  BY <1>2 DEF EraseSwpstat, StatUsed, Stat!Blank
<1>3. CASE WriteStart
  <2>1. swpstat = Stat!Blank /\ cmd.phase = "START" /\ swpstat' = Stat!Written(swpstat, cmd)
    BY <1>3 DEF WriteStart, BootInv, PcInv
  <2>2. swpstat'.val.phase = "START" /\ swpstat'.used = 1
    BY <2>1 DEF Stat!Blank, Stat!Written
  <2>3. QED
    BY <1>1, <2>2 DEF StatUsed
<1>4. CASE ExchangeSectors \/ ResumeExchange \/ WriteSwpstat
  <2>1. swpstat.val \in SwapCmds /\ fails' = fails
    BY <1>4 DEF ExchangeSectors, ResumeExchange, WriteSwpstat, BootInv, TypeOK, PcInv, AtPhase,
                Stat!Registers
  <2>2. PICK p \in {"P3", "P4", "END"} :
          /\ swpstat' = Logged(p)
          /\ p = "P3" => swpstat.val.phase \in {"START", "P1"}
          /\ p = "P4" => swpstat.val.phase = "P3"
    BY <1>4 DEF ExchangeSectors, ResumeExchange, WriteSwpstat, AtPhase, BootInv, PcInv
  <2>3. CASE Stat!HasRoom(swpstat)
    <3>1. swpstat'.val.phase = p /\ swpstat'.used = swpstat.used + 1
      BY <2>1, <2>2, <2>3 DEF Logged, Stat!Written, SwapCmds
    <3>2. swpstat.val # NoCmd
      BY <2>1, BootMarkersAssumption
    <3>3. CASE p = "P3"
      BY <1>1, <2>1, <2>2, <3>1, <3>2, <3>3 DEF StatUsed
    <3>4. CASE p = "P4"
      BY <1>1, <2>1, <2>2, <3>1, <3>2, <3>4 DEF StatUsed
    <3>5. CASE p = "END"
      BY <3>1, <3>5 DEF StatUsed
    <3>6. QED
      BY <3>3, <3>4, <3>5
  <2>4. CASE ~Stat!HasRoom(swpstat)
    BY <2>1, <2>2, <2>4 DEF Logged, StatUsed
  <2>5. QED
    BY <2>3, <2>4
<1>5. CASE FailInSwpstat
  <2>1. swpstat'.val = swpstat.val /\ swpstat'.used = swpstat.used + 1 /\ fails' = fails + 1
    BY <1>5 DEF FailInSwpstat, Fail, BootInv, TypeOK, Stat!Registers, Stat!Torn
  <2>2. QED
    BY <1>1, <2>1 DEF StatUsed
<1>6. CASE FailInSwpstatErase
  <2>1. Ended(swpstat'.val)
    BY <1>6, HalfErasedStat DEF FailInSwpstatErase, BootInv, StatInv, PcInv, Ended
  <2>2. QED
    BY <2>1 DEF StatUsed, Ended
<1>7. CASE UNCHANGED swpstat
  BY <1>1, <1>7 DEF StatUsed
<1>8. CASE FailInExchange
  <2>1. /\ swpstat.val \in SwapCmds /\ swpstat.val.phase = "START" /\ fails' = fails + 1
        /\ swpstat' = Stat!Written(swpstat, [swpstat.val EXCEPT !.phase = "P1"])
    BY <1>8 DEF FailInExchange, Fail, AtPhase, Logged, BootInv, TypeOK, PcInv, Stat!Registers
  <2>2. swpstat'.val.phase = "P1" /\ swpstat'.used = swpstat.used + 1
    BY <2>1 DEF Stat!Written, SwapCmds
  <2>3. swpstat.val # NoCmd
    BY <2>1, BootMarkersAssumption
  <2>4. swpstat.used <= fails + 1
    BY <2>1, <2>3 DEF StatUsed
  <2>5. swpstat'.used <= fails' + 1
    BY <1>1, <2>1, <2>2, <2>4
  <2>6. QED
    BY <2>2, <2>5 DEF StatUsed
<1>9. \/ EraseSwpstat \/ WriteStart \/ ExchangeSectors \/ ResumeExchange \/ WriteSwpstat
      \/ FailInSwpstat \/ FailInExchange \/ FailInSwpstatErase \/ UNCHANGED swpstat
  BY DEF Next, Loader, ImgSwap, Application, PowerFail, vars, flash, ReadSwpstat, AcceptRequest,
     NoRequest, MakePermanent, Restore, NoRestore, EraseSlt0End, WritePrm, WriteExecuted,
     EraseSlt1End, SwapDone, Boot, NothingValid, PowerOn, Reset, ResetFrom, Upload, Request,
     FailBetween, FailInSlt0End, FailInPhase3, FailInPhase4, FailInUpload, FailInRequest
<1>10. QED
  BY <1>2, <1>3, <1>4, <1>5, <1>6, <1>7, <1>8, <1>9

(* The places of the loader, counted from a boot; in the loop of            *)
(* zb_img_cmd_proc it is the command in swpstat that tells.                 *)
StepsToBoot ==
  CASE pc = "off" -> 17
    [] pc = "start" -> 16
    [] pc = "request" -> 15
    [] pc = "permanent" -> 14
    [] pc = "restore" -> 13
    [] pc = "erase" -> 12
    [] pc = "write" -> 11
    [] AtPhase("START") \/ AtPhase("P1") -> 10
    [] AtPhase("P3") -> 9
    [] pc = "prm" -> 8
    [] pc = "executed" -> 7
    [] pc = "log" /\ swpstat.val.phase = "P3" -> 6
    [] AtPhase("P4") -> 5
    [] pc = "log" /\ swpstat.val.phase # "P3" -> 4
    [] AtPhase("END") -> 3
    [] pc = "main" -> 2
    [] OTHER -> 0

LEMMA RecordIsMade ==
  ASSUME BootInv, StatUsed, RoomForSwap, swpstat.val # NoCmd, swpstat.val.phase # "END",
         NEW p \in {"P3", "P4", "END"}, swpstat' = Logged(p)
  PROVE  swpstat'.val.phase = p
<1>1. swpstat.val \in SwapCmds
  BY DEF BootInv, TypeOK, Stat!Registers
<1>2. /\ fails \in Nat /\ MaxFails \in Nat /\ fails <= MaxFails /\ StatEntries \in Nat
      /\ swpstat.used \in Nat
  BY BootAssumption DEF BootInv, TypeOK, Stat!Registers
<1>3. swpstat.used <= fails + 3
  BY <1>1, <1>2 DEF StatUsed, SwapCmds, Phases
<1>4. Stat!HasRoom(swpstat)
  BY <1>2, <1>3 DEF RoomForSwap, Stat!HasRoom
<1>5. QED
  BY <1>1, <1>4 DEF Logged, Stat!Written, SwapCmds

LEMMA BootIsNearer ==
  ASSUME BootInv, StatUsed, RoomForSwap, Next, pc \notin {"run", "halt"}
  PROVE  fails' > fails \/ StepsToBoot' < StepsToBoot
<1> USE BootMarkersAssumption
<1>1. CASE PowerFail
  <2>1. fails' = fails + 1 /\ fails \in Nat
    BY <1>1, BootAssumption
    DEF PowerFail, FailBetween, FailInSwpstat, FailInExchange, FailInSwpstatErase, FailInSlt0End,
        FailInPhase3, FailInPhase4, FailInUpload, FailInRequest, Fail, BootInv, TypeOK
  <2>2. QED
    BY <2>1
<1>2. CASE Upload \/ Request \/ Reset
  BY <1>2 DEF Upload, CanUpload, Request, CanRequest, Runs, Reset, ResetFrom
<1>3. CASE PowerOn \/ NoRequest \/ AcceptRequest \/ MakePermanent \/ Restore \/ NoRestore
           \/ EraseSwpstat \/ Boot \/ NothingValid
  <2>1. \/ pc = "off" /\ pc' = "start"
        \/ pc = "request" /\ pc' \in {"permanent", "erase"}
        \/ pc = "permanent" /\ pc' = "restore"
        \/ pc = "restore" /\ pc' \in {"erase", "main", "halt"}
        \/ pc = "erase" /\ pc' = "write"
        \/ pc = "main" /\ pc' \in {"run", "halt"}
    BY <1>3 DEF PowerOn, ResetFrom, NoRequest, AcceptRequest, MakePermanent, Restore, NoRestore,
                EraseSwpstat, Boot, NothingValid, To
  <2>2. QED
    BY <2>1 DEF StepsToBoot, AtPhase
<1>4. CASE ReadSwpstat
  <2>1. pc = "start" /\ pc' \in {"proc", "request"}
    BY <1>4 DEF ReadSwpstat, To
  <2>2. QED
    BY <2>1 DEF StepsToBoot, AtPhase
<1>5. CASE WriteStart
  <2>1. pc = "write" /\ pc' = "proc"
    BY <1>5 DEF WriteStart, To
  <2>2. QED
    BY <2>1 DEF StepsToBoot, AtPhase
<1>6. CASE ExchangeSectors \/ ResumeExchange
  <2>1. /\ pc = "proc" /\ pc' = "proc" /\ swpstat.val # NoCmd
        /\ swpstat.val.phase \in {"START", "P1"} /\ swpstat' = Logged("P3")
    BY <1>6 DEF ExchangeSectors, ResumeExchange, AtPhase, BootInv, PcInv
  <2>2. swpstat'.val.phase = "P3"
    BY <2>1, RecordIsMade
  <2>3. QED
    BY <2>1, <2>2 DEF StepsToBoot, AtPhase
<1>7. CASE EraseSlt0End \/ WritePrm \/ WriteExecuted \/ EraseSlt1End
  <2>1. /\ swpstat' = swpstat
        /\ \/ pc = "proc" /\ swpstat.val.phase = "P3" /\ pc' = "prm"
           \/ pc = "prm" /\ pc' = "executed"
           \/ pc = "executed" /\ swpstat.val.phase = "P3" /\ pc' = "log"
           \/ pc = "proc" /\ swpstat.val.phase = "P4" /\ pc' = "log"
    BY <1>7 DEF EraseSlt0End, WritePrm, WriteExecuted, EraseSlt1End, AtPhase, To, BootInv, PcInv
  <2>2. QED
    BY <2>1 DEF StepsToBoot, AtPhase
<1>8. CASE WriteSwpstat
  <2>1. /\ pc = "log" /\ pc' = "proc" /\ swpstat.val # NoCmd
        /\ swpstat.val.phase \in {"P3", "P4"}
        /\ swpstat' = Logged(IF swpstat.val.phase = "P3" THEN "P4" ELSE "END")
    BY <1>8 DEF WriteSwpstat, To, BootInv, PcInv
  <2>2. swpstat'.val.phase = IF swpstat.val.phase = "P3" THEN "P4" ELSE "END"
    <3>1. CASE swpstat.val.phase = "P3"
      BY <2>1, <3>1, RecordIsMade
    <3>2. CASE swpstat.val.phase = "P4"
      BY <2>1, <3>2, RecordIsMade
    <3>3. QED
      BY <2>1, <3>1, <3>2
  <2>3. QED
    BY <2>1, <2>2 DEF StepsToBoot, AtPhase
<1>9. CASE SwapDone
  <2>1. pc = "proc" /\ swpstat.val.phase = "END" /\ pc' = "main"
    BY <1>9 DEF SwapDone, AtPhase, To
  <2>2. QED
    BY <2>1 DEF StepsToBoot, AtPhase
<1>10. QED
  BY <1>1, <1>2, <1>3, <1>4, <1>5, <1>6, <1>7, <1>8, <1>9
  DEF Next, Loader, ImgSwap, Application

(* From power on the loader is a bounded number of steps away from a boot,  *)
(* or from finding nothing to boot, and until then each step brings it      *)
(* nearer or is one of at most MaxFails failures (zb_img_swap, main).       *)
THEOREM BootIsBounded ==
  ASSUME RoomForSwap
  PROVE  Spec => /\ [](StepsToBoot \in 0 .. 17 /\ fails \in 0 .. MaxFails)
                 /\ [](StepsToBoot = 0 => pc \in {"run", "halt"})
                 /\ [][pc \notin {"run", "halt"} =>
                         fails' > fails \/ StepsToBoot' < StepsToBoot]_vars
<1>1. Init => BootInv /\ StatUsed
  <2>1. Init => BootInv
    BY InitInv
  <2>2. Init => StatUsed
    BY DEF Init, StatUsed, Stat!Blank
  <2>3. QED
    BY <2>1, <2>2
<1>2. BootInv /\ StatUsed /\ [Next]_vars => StatUsed'
  BY StatUsedKept
<1>3. BootInv => StepsToBoot \in 0 .. 17 /\ fails \in 0 .. MaxFails
  BY DEF StepsToBoot, BootInv, TypeOK
<1>4. BootInv /\ StepsToBoot = 0 => pc \in {"run", "halt"}
  <2> SUFFICES ASSUME BootInv, pc \notin {"run", "halt"} PROVE StepsToBoot # 0
    OBVIOUS
  <2>1. /\ pc \in {"off", "start", "request", "erase", "write", "permanent", "restore", "proc",
                   "prm", "executed", "log", "main"}
        /\ pc = "proc" => swpstat.val.phase \in {"START", "P1", "P3", "P4", "END"}
    BY DEF BootInv, TypeOK, PcInv, Stat!Registers, SwapCmds, Phases
  <2>2. QED
    BY <2>1 DEF StepsToBoot, AtPhase
<1>5. BootInv /\ StatUsed /\ [Next]_vars =>
        [pc \notin {"run", "halt"} => fails' > fails \/ StepsToBoot' < StepsToBoot]_vars
  BY BootIsNearer
<1>6. QED
  BY <1>1, <1>2, <1>3, <1>4, <1>5, BootInvariant, PTL DEF Spec
=============================================================================
