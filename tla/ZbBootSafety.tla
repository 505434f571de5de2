---------------------------- MODULE ZbBootSafety ----------------------------
(***************************************************************************)
(* What a careful application can rely on: whatever is booted is whole,    *)
(* the device is never left without an image, slot 0 never goes back to an *)
(* older image than its last permanent one, and a trial ends as usage.md   *)
(* says.  For any images and any number of power failures, wherever they   *)
(* come, until an exchange goes on with the wrong headers (mixed): from    *)
(* then on the device promises nothing of this.                            *)
(***************************************************************************)
EXTENDS ZbBootProofs

(* The application leaves slot 1 alone while the image in slot 0 is on      *)
(* trial, and asks for a boot from slot 0 only when there is an image.      *)
Respectful == Careless \subseteq {"request_in_trial"}

(* The run boot_ram shows what becomes of an encrypted image in RAM.        *)
RamUnencrypted == \A i \in Encrypted : LoadAt[i] # "ram"

(* swpstat has room for the command that starts an exchange, for the one    *)
(* that ends it and for an entry torn by each power failure.                *)
RoomForExchange == StatEntries >= MaxFails + 2

-----------------------------------------------------------------------------
(* The inductive invariant *)

UnderWay(p) == swpstat.val # NoCmd /\ swpstat.val.phase = p

(* What slot 0 may hold. *)
Installed(c) ==
  c = NoImage \/ (c.img \in Genuine /\ c.form = "plain" /\ LoadAt[c.img] # "slot1")

(* What executes from slot 1. *)
StaysInPlace(c) ==
  c # NoImage /\ c.img \in Genuine /\ c.form = "plain" /\ LoadAt[c.img] = "slot1"

(* What may come to slot 0. *)
Restorable(c) == Unspoiled(c) /\ LoadAt[c.img] # "slot1" /\ VersionOf(c) >= floor

(* Before and after the exchange that command c asks for. *)
ReadyFor(c) ==
  IF c.inplace THEN "PERM" \in c.cmd1 /\ Unspoiled(slots[1]) /\ LoadAt[slots[1].img] = "slot1"
  ELSE Restorable(slots[1])

SwappedBy(c) ==
  IF c.inplace THEN "PERM" \in c.cmd1 /\ StaysInPlace(slots[1])
  ELSE slots[0] # NoImage /\ Restorable(slots[1])

(* The parameters name an image that can be booted.  While slot 0 is empty  *)
(* that is the one in slot 1, as it was when they were written.             *)
Recorded ==
  /\ prm # NoPrm
  /\ prm.sec = Address(slots[0], "slot0") /\ prm.pri \in {prm.sec, "slot1"}
  /\ prm.pri = "slot1" => StaysInPlace(prm.crc1)
  /\ slots[0] = NoImage => prm.pri = "slot1" /\ slots[1] = prm.crc1

(* No swap is going on, after the first one: what a restore would bring     *)
(* back is there.                                                           *)
Settled == Recorded /\ slt0end.val # NoCmd /\ (Pending => Restorable(slots[1]))

(* No swap was ever carried out: if one was begun, its request is accepted  *)
(* again.                                                                   *)
Unused ==
  /\ slots[0] = NoImage /\ ~Pending /\ Has(slt1end, "REQUEST") /\ swpstat.last = NoCmd
  /\ swpstat = Stat!Blank \/ ImgCheck(slots[1])

SlotInv ==
  /\ Installed(slots[0]) /\ VersionOf(slots[0]) >= floor
  /\ slots[0] = NoImage => {"BT0"} \notin {slt1end.val, slt1end.last}

SwapInv ==
  /\ pc \in {"erase", "write"} => ReadyFor(cmd)
  /\ UnderWay("START") => ReadyFor(swpstat.val) /\ swpstat.used <= fails + 1
  /\ UnderWay("P3") => SwappedBy(swpstat.val)
  /\ pc = "executed" => Recorded

RestInv ==
  /\ UnderWay("P4") \/ UnderWay("END") \/ pc = "log" => Settled
  /\ swpstat.val = NoCmd => IF prm = NoPrm THEN Unused ELSE Settled
  /\ pc \in {"erase", "write"} /\ prm = NoPrm => ImgCheck(slots[1])
  /\ pc \in {"permanent", "restore", "main", "halt"} /\ prm = NoPrm =>
       swpstat = Stat!Blank /\ ~ImgCheck(slots[1])
  /\ pc = "halt" => prm = NoPrm
  /\ pc = "run" => prm # NoPrm /\ BootsWhole /\ (slots[0] = NoImage => running.at = "slot1")

SafeInv == SlotInv /\ SwapInv /\ RestInv

-----------------------------------------------------------------------------
(* The exchange *)

(* Through the cipher an image that is shipped becomes one that executes, and *)
(* back; it stays the same image.                                           *)
LEMMA MovedForms ==
  ASSUME RamUnencrypted, NEW c \in Contents, c # NoImage, c.form # "spoiled"
  PROVE  /\ Moved(c) # NoImage /\ Moved(c).img = c.img
         /\ c.form = ShippedForm(c.img) => Moved(c).form = "plain"
         /\ c.form = "plain" => Moved(c).form = ShippedForm(c.img)
<1>1. c.img \in Image /\ c.form \in {"plain", "cipher"}
  BY DEF Contents, Forms
<1>2. \A f \in Forms : Content(c.img, f) # NoImage
  BY <1>1, BootMarkersAssumption DEF Content
<1> QED BY <1>1, <1>2 DEF RamUnencrypted, Content, Moved, ShippedForm, Forms

(* The exchange does what command cm asks for.                              *)
LEMMA ExchangeSwaps ==
  ASSUME BootInv, SlotInv, RamUnencrypted, NEW cm \in SwapCmds, ReadyFor(cm),
         slots' = Exchanged(slots, cm.inplace), UNCHANGED floor
  PROVE  /\ Installed(slots'[0]) /\ VersionOf(slots'[0]) >= floor
         /\ slots'[0] = NoImage => slots[0] = NoImage
         /\ SwappedBy(cm)'
<1>1. slots[0] \in Contents /\ slots[1] \in Contents /\ slots[1] # NoImage
  BY DEF BootInv, TypeOK, Slot, ReadyFor, Restorable, Unspoiled
<1>2. \A i : ShippedForm(i) # "spoiled"
  BY DEF ShippedForm
<1>3. /\ Moved(slots[1]) # NoImage /\ Moved(slots[1]).img = slots[1].img
      /\ Moved(slots[1]).form = "plain"
  BY <1>1, <1>2, MovedForms DEF ReadyFor, Restorable, Unspoiled
<1>4. slots[0] # NoImage =>
        /\ Moved(slots[0]) # NoImage /\ Moved(slots[0]).img = slots[0].img
        /\ Moved(slots[0]).form = ShippedForm(slots[0].img)
  BY <1>1, MovedForms DEF SlotInv, Installed
<1>5. CASE cm.inplace
  <2>1. slots'[0] = slots[0] /\ slots'[1] = Moved(slots[1])
    BY <1>5 DEF Exchanged, BootInv, TypeOK, Slot
  <2> QED BY <2>1, <1>3, <1>5 DEF ReadyFor, SwappedBy, StaysInPlace, Unspoiled, SlotInv
<1>6. CASE ~cm.inplace
  <2>1. /\ slots'[0] = Moved(slots[1])
        /\ slots'[1] = IF slots[0] # NoImage THEN Moved(slots[0]) ELSE slots[1]
    BY <1>6, <1>1 DEF Exchanged, Slot
  <2>2. Installed(slots'[0]) /\ VersionOf(slots'[0]) >= floor
    BY <2>1, <1>3, <1>6 DEF Installed, ReadyFor, Restorable, Unspoiled, VersionOf
  <2>3. Restorable(slots[1])
    BY <1>6 DEF ReadyFor
  <2>4. slots[0] # NoImage => Restorable(Moved(slots[0]))
    BY <1>4 DEF SlotInv, Installed, Restorable, Unspoiled, VersionOf
  <2>5. \A c : Restorable(c) => Restorable(c)'
    BY DEF Restorable, Unspoiled, VersionOf
  <2>6. Restorable(slots[1])'
    BY <2>1, <2>3, <2>4 DEF Restorable, Unspoiled, VersionOf
  <2> QED BY <2>1, <2>2, <2>6, <1>3, <1>6 DEF SwappedBy
<1> QED BY <1>5, <1>6

-----------------------------------------------------------------------------
(* Steps of the loader *)

(* What only looks at flash. *)
LEMMA LooksSafe ==
  ASSUME BootInv, SafeInv,
         ReadSwpstat \/ NoRequest \/ SwapDone \/ NoRestore \/ NothingValid
  PROVE  SafeInv'
<1> USE BootMarkersAssumption
<1> USE DEF SafeInv, SlotInv, SwapInv, RestInv, Installed, Restorable, ReadyFor, SwappedBy,
            Recorded, Settled, Unused, BootsWhole, Unspoiled, VersionOf, Address, UnderWay,
            Pending, Has, StaysInPlace, To, flash, history, Ended, ImgCheck, NotOlder,
            BootInv, PcInv
<1>1. CASE ReadSwpstat
  BY <1>1 DEF ReadSwpstat
<1>2. CASE NoRequest
  BY <1>2 DEF NoRequest
<1>3. CASE SwapDone
  BY <1>3 DEF SwapDone, AtPhase
<1>4. CASE NoRestore
  BY <1>4 DEF NoRestore
<1>5. CASE NothingValid
  BY <1>5 DEF NothingValid, CanBoot, PrmInv, PrmGood
<1> QED BY <1>1, <1>2, <1>3, <1>4, <1>5

(* A swap is begun; what is asked for is ready in slot 1, and it is not older *)
(* than what the parameters say of slot 0.                                  *)
LEMMA BeginsSafe ==
  ASSUME BootInv, SafeInv, AcceptRequest \/ Restore
  PROVE  SafeInv'
<1> USE BootMarkersAssumption, BootAssumption
<1> USE DEF SafeInv, SlotInv, SwapInv, RestInv, Settled, Unused, BootsWhole, UnderWay,
            Pending, Has, To, flash, history, Ended, BootInv, PcInv
<1>1. CASE AcceptRequest
  <2>1. Unspoiled(slots[1]) /\ NotOlder(slots[1].img) /\ slots[1].img \in Image
    BY <1>1 DEF AcceptRequest, ImgCheck, Unspoiled, TypeOK, Contents, Slot
  <2>2. VersionOf(slots[0]) \in Nat /\ Version[slots[1].img] \in Nat /\ floor \in Nat
    BY <2>1 DEF VersionOf, TypeOK, Contents, Slot
  <2>3. LoadAt[slots[1].img] # "slot1" => Version[slots[1].img] >= floor
    <3>1. CASE prm = NoPrm
      BY <3>1, <2>2, <1>1 DEF AcceptRequest, VersionOf, Recorded
    <3>2. CASE prm # NoPrm
      BY <3>2, <2>1, <2>2, <1>1 DEF AcceptRequest, NotOlder, PrmInv, PrmGood, TypeOK
    <3> QED BY <3>1, <3>2
  <2>4. ReadyFor(cmd)'
    BY <2>1, <2>3, <1>1 DEF AcceptRequest, ReadyFor, Restorable, Unspoiled, VersionOf
  <2> QED BY <2>4, <1>1 DEF AcceptRequest, Recorded, Installed, VersionOf, Restorable, Address,
            StaysInPlace, Unspoiled, ReadyFor, SwappedBy, ImgCheck, NotOlder
<1>2. CASE Restore
  BY <1>2 DEF Restore, Recorded, Installed, VersionOf, Restorable, Address,
            StaysInPlace, Unspoiled, ReadyFor, SwappedBy, ImgCheck, NotOlder
<1> QED BY <1>1, <1>2

(* Commands and requests are written; nothing else changes. *)
LEMMA LogsSafe ==
  ASSUME BootInv, SafeInv,
         EraseSwpstat \/ WriteStart \/ MakePermanent \/ EraseSlt1End \/ WriteSwpstat
  PROVE  SafeInv'
<1> USE BootMarkersAssumption, BootAssumption
<1> USE DEF SafeInv, SlotInv, SwapInv, RestInv, Installed, Restorable, ReadyFor, SwappedBy,
            Recorded, Settled, Unused, BootsWhole, Unspoiled, VersionOf, Address, UnderWay,
            Pending, Has, StaysInPlace, To, flash, history, Ended, ImgCheck, NotOlder,
            BootInv, PcInv
<1>1. CASE EraseSwpstat
  BY <1>1 DEF EraseSwpstat, Stat!Blank
<1>2. CASE WriteStart
  <2>1. cmd \in SwapCmds /\ fails \in Nat /\ swpstat'.val = cmd /\ swpstat'.used = 1
    BY <1>2 DEF WriteStart, Stat!Blank, Stat!Written, TypeOK
  <2> QED BY <2>1, <1>2 DEF WriteStart
<1>3. CASE MakePermanent
  <2>1. slt0end'.val # slt0end.val => "PERM" \in slt0end'.val /\ slt0end'.val # NoCmd
    BY <1>3 DEF MakePermanent, PermanentCmd, Flags, End0!Written, TypeOK, End0!Registers
  <2>2. slt0end.val = NoCmd => prm = NoPrm
    BY <1>3 DEF MakePermanent
  <2>3. Pending' => Pending
    BY <2>1, <1>3 DEF MakePermanent
  <2>4. Settled => Settled'
    BY <2>1, <2>3, <1>3 DEF MakePermanent
  <2>5. Unused => Unused'
    BY <2>3, <1>3 DEF MakePermanent
  <2>6. SlotInv' /\ SwapInv'
    BY <1>3 DEF MakePermanent
  <2>7. RestInv'
    <3> HIDE DEF Settled, Unused
    <3> QED BY <2>4, <2>5, <1>3 DEF MakePermanent
  <2> QED BY <2>6, <2>7
<1>4. CASE EraseSlt1End
  <2>1. {"BT0"} # NoCmd
    BY DEF Flags
  <2> QED BY <2>1, <1>4 DEF EraseSlt1End, AtPhase, End1!Blank
<1>5. CASE WriteSwpstat
  BY <1>5 DEF WriteSwpstat, Logged, Stat!Written, TypeOK, Stat!Registers, SwapCmds
<1> QED BY <1>1, <1>2, <1>3, <1>4, <1>5

(* The exchange happens once: there is room to record it. *)
LEMMA ExchangeSafe ==
  ASSUME BootInv, SafeInv, RoomForExchange, RamUnencrypted, ExchangeSectors
  PROVE  SafeInv'
<1> USE BootMarkersAssumption, BootAssumption
<1>1. swpstat.val \in SwapCmds /\ UnderWay("START")
  BY DEF ExchangeSectors, AtPhase, BootInv, TypeOK, PcInv, Stat!Registers, UnderWay
<1>2. ReadyFor(swpstat.val) /\ swpstat.used <= fails + 1 /\ SlotInv
  BY <1>1 DEF SafeInv, SwapInv
<1>3. Stat!HasRoom(swpstat)
  BY <1>2 DEF RoomForExchange, BootInv, TypeOK, Stat!Registers, Stat!HasRoom
<1>4. /\ swpstat'.val = [swpstat.val EXCEPT !.phase = "P3"]
      /\ swpstat'.val \in SwapCmds /\ swpstat'.val.phase = "P3"
      /\ swpstat'.val.cmd1 = swpstat.val.cmd1 /\ swpstat'.val.inplace = swpstat.val.inplace
  BY <1>1, <1>3 DEF ExchangeSectors, Logged, Stat!Written, SwapCmds, Phases
<1>5. /\ Installed(slots'[0]) /\ VersionOf(slots'[0]) >= floor
      /\ slots'[0] = NoImage => slots[0] = NoImage
      /\ SwappedBy(swpstat.val)'
  <2>0. PICK cm \in SwapCmds : cm = swpstat.val
    BY <1>1
  <2>1. /\ Installed(slots'[0]) /\ VersionOf(slots'[0]) >= floor
        /\ slots'[0] = NoImage => slots[0] = NoImage
        /\ SwappedBy(cm)'
    BY <2>0, <1>1, <1>2, ExchangeSwaps DEF ExchangeSectors, history, SafeInv
  <2> QED BY <2>0, <2>1, <1>4 DEF SwappedBy
<1>6. SlotInv'
  BY <1>2, <1>5 DEF SlotInv, ExchangeSectors, history, Installed, VersionOf
<1>7. SwapInv'
  BY <1>4, <1>5 DEF SwapInv, UnderWay, ExchangeSectors, AtPhase
<1>8. RestInv'
  BY <1>4 DEF RestInv, UnderWay, ExchangeSectors, AtPhase
<1> QED BY <1>6, <1>7, <1>8 DEF SafeInv

(* Phase 3 records what the exchange has left. *)
LEMMA PhaseThreeSafe ==
  ASSUME BootInv, SafeInv, EraseSlt0End \/ WritePrm \/ WriteExecuted
  PROVE  SafeInv'
<1> USE BootMarkersAssumption, BootAssumption
<1> USE DEF SafeInv, SlotInv, SwapInv, RestInv, Installed, Restorable, ReadyFor, SwappedBy,
            Recorded, Settled, Unused, BootsWhole, Unspoiled, VersionOf, Address, UnderWay,
            Pending, Has, StaysInPlace, To, flash, history, Ended, ImgCheck, NotOlder,
            BootInv, PcInv
<1>1. CASE EraseSlt0End
  BY <1>1 DEF EraseSlt0End, AtPhase, End0!Blank
<1>2. CASE WritePrm
  <2>1. prm' # NoPrm
    BY <1>2, PrmOfTyped DEF WritePrm, TypeOK
  <2>2. Recorded'
    BY <2>1, <1>2 DEF WritePrm, PrmOf
  <2> QED BY <2>2, <1>2 DEF WritePrm
<1>3. CASE WriteExecuted
  <2>1. swpstat.val \in SwapCmds
    BY <1>3 DEF WriteExecuted, TypeOK, Stat!Registers
  <2>2. /\ slt0end'.val # NoCmd
        /\ swpstat.val.inplace => "PERM" \in slt0end'.val
    BY <2>1, <1>3 DEF WriteExecuted, ExecutedCmd, End0!Written, SwapCmds, Flags
  <2> QED BY <2>1, <2>2, <1>3 DEF WriteExecuted
<1> QED BY <1>1, <1>2, <1>3

(* Only what is whole is booted, and it is not older than before. *)
LEMMA BootSafe ==
  ASSUME BootInv, SafeInv, RamUnencrypted, Boot
  PROVE  SafeInv'
<1> USE BootMarkersAssumption, BootAssumption, ContentsAssumption
<1>1. Settled /\ prm \in Prms /\ prm.crc0 = slots[0] /\ Ended(swpstat.val)
  BY DEF Boot, CanBoot, SafeInv, RestInv, BootInv, PcInv, PrmInv, PrmGood, TypeOK, Ended, UnderWay
<1>2. CASE Chosen = "slot1"
  <2>1. prm.pri = "slot1" /\ slots[1] = prm.crc1
    BY <1>1, <1>2 DEF Chosen, Wanted, Settled, Recorded, Address, SafeInv, SlotInv, Installed
  <2> QED
    BY <2>1, <1>1, <1>2
    DEF Boot, SafeInv, SlotInv, SwapInv, RestInv, Installed, Restorable, ReadyFor, SwappedBy,
            Recorded, Settled, Unused, BootsWhole, Unspoiled, VersionOf, Address, UnderWay,
            Pending, Has, StaysInPlace, To, flash, history, Ended, BootInv, PcInv, Executing
<1>3. CASE Chosen # "slot1"
  <2>1. slots[0] # NoImage
    BY <1>1, <1>3 DEF Chosen, Wanted, Settled, Recorded, SafeInv, SlotInv, Has
  <2>2. Chosen = LoadAt[slots[0].img]
    BY <1>1, <1>3, <2>1 DEF Chosen, Wanted, Settled, Recorded, Address
  <2>3. running' = [at |-> Chosen, what |-> slots[0]]
    BY <1>3, <2>1, <2>2 DEF Boot, Executing, RamCopies, RamUnencrypted
  <2> QED
    BY <2>1, <2>2, <2>3, <1>1, <1>3
    DEF Boot, SafeInv, SlotInv, SwapInv, RestInv, Installed, Restorable, ReadyFor, SwappedBy,
            Recorded, Settled, Unused, BootsWhole, Unspoiled, VersionOf, Address, UnderWay,
            Pending, Has, StaysInPlace, To, flash, history, Ended, BootInv, PcInv
<1> QED BY <1>2, <1>3

(* Resets, and what the application does. *)
LEMMA ApplicationSafe ==
  ASSUME BootInv, SafeInv, Respectful, PowerOn \/ Reset \/ Upload \/ Request
  PROVE  SafeInv'
<1> USE BootMarkersAssumption, BootAssumption
<1> USE DEF SafeInv, SlotInv, SwapInv, RestInv, Installed, Restorable, ReadyFor, SwappedBy,
            Recorded, Settled, Unused, BootsWhole, Unspoiled, VersionOf, Address, UnderWay,
            Pending, Has, StaysInPlace, To, flash, history, Ended, BootInv, PcInv
<1>1. CASE PowerOn \/ Reset
  BY <1>1 DEF PowerOn, Reset, ResetFrom, ImgCheck, NotOlder
<1>2. CASE Upload
  BY <1>2 DEF Upload, CanUpload, Runs, May, Respectful, TypeOK, Slot, End1!Blank
<1>3. CASE Request
  BY <1>3 DEF Request, CanRequest, Runs, May, Respectful, End1!Written
<1> QED BY <1>1, <1>2, <1>3

(* Power failures. *)
LEMMA FailureSafe ==
  ASSUME BootInv, SafeInv, Respectful, PowerFail
  PROVE  SafeInv'
<1> USE BootMarkersAssumption, BootAssumption
<1> USE DEF SafeInv, SlotInv, SwapInv, RestInv, Installed, Restorable, ReadyFor, SwappedBy,
            Recorded, Settled, Unused, BootsWhole, Unspoiled, VersionOf, Address, UnderWay,
            Pending, Has, StaysInPlace, To, flash, history, Ended, BootInv, PcInv, Fail
<1>0. fails \in Nat /\ swpstat.used \in Nat /\ {"BT0"} # NoCmd
  BY DEF TypeOK, Stat!Registers, Flags
<1>1. CASE FailBetween
  <2>1. UNCHANGED flash /\ UNCHANGED history /\ pc' = "off" /\ fails' = fails + 1
    BY <1>1 DEF FailBetween
  <2>2. SlotInv' /\ SwapInv'
    BY <2>1, <1>0
  <2>3. RestInv'
    BY <2>1 DEF ImgCheck, NotOlder
  <2> QED BY <2>2, <2>3
<1>2. CASE FailInSwpstat
  BY <1>0, <1>2 DEF FailInSwpstat, ImgCheck, NotOlder, TypeOK, Stat!Registers, Stat!Torn,
                    Stat!Blank, AtPhase
<1>3. CASE FailInSwpstatErase
  <2>1. /\ UNCHANGED <<slots, prm, slt0end, slt1end>> /\ UNCHANGED history
        /\ pc = "erase" /\ pc' = "off" /\ fails' = fails + 1
        /\ swpstat'.val \in {swpstat.last, NoCmd} /\ swpstat'.last = swpstat.last
    BY <1>3, HalfErasedStat DEF FailInSwpstatErase
  <2>2. SlotInv' /\ SwapInv'
    BY <2>1, <1>0 DEF StatInv
  <2>3. RestInv'
    BY <2>1 DEF ImgCheck, NotOlder, StatInv
  <2> QED BY <2>2, <2>3
<1>4. CASE FailInSlt0End
  BY <1>0, <1>4 DEF FailInSlt0End, ImgCheck, NotOlder, End0!Torn, TypeOK, End0!Registers
<1>5. CASE FailInPhase3
  BY <1>0, <1>5 DEF FailInPhase3, AtPhase
<1>6. CASE FailInPhase4
  <2>1. /\ UNCHANGED <<slots, prm, slt0end, swpstat>> /\ UNCHANGED history
        /\ pc' = "off" /\ fails' = fails + 1 /\ UnderWay("P4")
        /\ slt1end'.val \in {slt1end.last, NoCmd} /\ slt1end'.last = slt1end.last
    BY <1>6 DEF FailInPhase4, AtPhase, End1!HalfErased
  <2>2. SlotInv' /\ SwapInv'
    BY <2>1, <1>0
  <2>3. RestInv'
    BY <2>1
  <2> QED BY <2>2, <2>3
<1>7. CASE FailInUpload
  BY <1>7 DEF FailInUpload, CanUpload, Runs, May, Respectful, TypeOK, Slot, End1!Blank,
              End1!HalfErased
<1>8. CASE FailInRequest
  BY <1>8 DEF FailInRequest, CanRequest, Runs, TypeOK, End1!Torn, End1!Registers
<1>9. CASE FailInExchange
  <2>1. /\ UNCHANGED <<slots, prm, slt0end, slt1end>> /\ UNCHANGED history
        /\ pc' = "off" /\ UnderWay("P1")'
    BY <1>9 DEF FailInExchange, AtPhase, Logged, Stat!Written, TypeOK, Stat!Registers, SwapCmds,
                Phases
  <2>2. SlotInv' /\ SwapInv' /\ RestInv'
    BY <2>1
  <2> QED BY <2>2
<1> QED BY <1>1, <1>2, <1>3, <1>4, <1>5, <1>6, <1>7, <1>8, <1>9 DEF PowerFail

(* A new device. *)
LEMMA InitSafe ==
  ASSUME Init
  PROVE  SafeInv
<1> USE BootAssumption, BootMarkersAssumption
<1>1. \A f \in {{"REQUEST"}, {"REQUEST", "PERM"}} : f \in SUBSET Flags /\ f # {"BT0"}
  BY DEF Flags
<1>2. SlotInv
  BY <1>1 DEF Init, SlotInv, Installed, VersionOf, Slot, End1!Written
<1>3. Unused
  BY <1>1 DEF Init, Unused, Pending, Has, Slot, End0!Blank, End1!Written, Stat!Blank
<1> QED BY <1>2, <1>3 DEF Init, SafeInv, SwapInv, RestInv, UnderWay, Stat!Blank

(* Only one step mixes images, and what is mixed remains so. *)
LEMMA NotMixedYet ==
  ASSUME [Next]_vars, ~mixed'
  PROVE  ~mixed /\ ~ResumeExchange
<1>1. ~ResumeExchange
  BY DEF ResumeExchange
<1>2. UNCHANGED mixed
  BY <1>1
  DEF Next, Loader, ImgSwap, Application, PowerFail, vars, history, ReadSwpstat, AcceptRequest,
      NoRequest, EraseSwpstat, WriteStart, MakePermanent, Restore, NoRestore, ExchangeSectors,
      EraseSlt0End, WritePrm, WriteExecuted, EraseSlt1End, WriteSwpstat, SwapDone, Boot,
      NothingValid, PowerOn, Reset, ResetFrom, Upload, Request, FailBetween, FailInSwpstat,
      FailInExchange, FailInSwpstatErase, FailInSlt0End, FailInPhase3, FailInPhase4,
      FailInUpload, FailInRequest, Fail
<1> QED BY <1>1, <1>2

(* Every step keeps the invariant. *)
LEMMA NextSafe ==
  ASSUME BootInv, SafeInv, [Next]_vars, ~ResumeExchange,
         Respectful, RamUnencrypted, RoomForExchange
  PROVE  SafeInv'
<1>1. CASE UNCHANGED vars
  BY <1>1
  DEF vars, flash, history, SafeInv, SlotInv, SwapInv, RestInv, Installed, Restorable,
      ReadyFor, SwappedBy, Recorded, Settled, Unused, BootsWhole, Unspoiled, VersionOf,
      Address, UnderWay, Pending, Has, StaysInPlace, ImgCheck, NotOlder
<1> QED
  BY <1>1, LooksSafe, BeginsSafe, LogsSafe, ExchangeSafe, PhaseThreeSafe, BootSafe,
     ApplicationSafe, FailureSafe
  DEF Next, Loader, ImgSwap, Application

(* The invariant of a device with a careful application, which holds until  *)
(* an exchange goes on with the wrong headers.                              *)
THEOREM SafetyInvariant ==
  ASSUME Respectful, RamUnencrypted, RoomForExchange
  PROVE  Spec => [](BootInv /\ (~mixed => SafeInv))
<1>1. Init => SafeInv
  BY InitSafe
<1>2. BootInv /\ (~mixed => SafeInv) /\ [Next]_vars => (~mixed' => SafeInv')
  BY NextSafe, NotMixedYet
<1> QED BY <1>1, <1>2, BootInvariant, PTL DEF Spec

(* What main() boots was signed, is complete and decrypted, and lies where  *)
(* it was built to run, whatever uploads, requests, resets and power        *)
(* failures came before, as long as no exchange went on with the wrong      *)
(* headers (zb_get_img_swp_info after a failure in P1 or P2).               *)
THEOREM WholeIsBooted ==
  ASSUME Respectful, RamUnencrypted, RoomForExchange
  PROVE  Spec => []BootsWhole
<1>1. (~mixed => SafeInv) => BootsWhole
  BY DEF SafeInv, RestInv, BootsWhole
<1> QED BY <1>1, SafetyInvariant, PTL

(* main() ends without an image to boot on a device only that never got a   *)
(* valid one, as long as no exchange went on with the wrong headers.        *)
THEOREM ImageIsLeft ==
  ASSUME Respectful, RamUnencrypted, RoomForExchange
  PROVE  Spec => []NeverHalts
<1>1. BootInv /\ (~mixed => SafeInv) => NeverHalts
  BY DEF BootInv, PcInv, Ended, SafeInv, RestInv, Settled, Recorded, Unused, UnderWay, NeverHalts
<1> QED BY <1>1, SafetyInvariant, PTL

(* Neither a request nor a restore takes slot 0 back behind the last image  *)
(* that was permanent in it (zb_img_check compares with ver0, a restore     *)
(* compares nothing), as long as no exchange went on with the wrong headers.*)
THEOREM NoOlderIsBooted ==
  ASSUME Respectful, RamUnencrypted, RoomForExchange
  PROVE  Spec => NeverOlder
<1>1. (~mixed => SafeInv) =>
        (pc = "main" /\ pc' = "run" /\ slots[0] # NoImage /\ ~mixed =>
           VersionOf(slots[0]) >= floor)
  BY DEF SafeInv, SlotInv
<1> QED BY <1>1, SafetyInvariant, PTL DEF NeverOlder

-----------------------------------------------------------------------------
(* A trial *)

(* A command for slot 0 finds room in slt0end beside the one that the swap  *)
(* left there and an entry torn by each power failure.                      *)
RoomForPermanent == EndEntries >= MaxFails + 2

Holding(i0, i1) ==
  slots[0] # NoImage /\ slots[1] # NoImage /\ slots[0].img = i0 /\ slots[1].img = i1

Before == Holding(trial.old, trial.new)
After == Holding(trial.new, trial.old)

(* The swap was asked for and has not begun: the request is accepted again. *)
Asked ==
  /\ Before /\ ~trial.booted /\ ~trial.confirmed
  /\ Has(slt1end, "REQUEST") /\ ~Has(slt1end, "PERM") /\ ImgCheck(slots[1])

(* The new image is in slot 0, until the next boot. *)
OnTrial ==
  /\ After /\ Pending /\ slt0end.used <= fails + 1
  /\ slt1end.val \in {NoCmd, {"PERM"}, {"BT0"}} /\ (trial.confirmed <=> slt1end.val = {"PERM"})

TakenBack == Before /\ Has(slt0end, "PERM") /\ ~trial.confirmed /\ slt1end.val = NoCmd

Confirmed == After /\ Has(slt0end, "PERM") /\ trial.confirmed /\ slt1end.val = {"PERM"}

(* Command c takes the trial from one state of the slots to another: it is  *)
(* permanent when it takes the new image back.                              *)
Takes(c, back, there) ==
  /\ ~c.inplace /\ ~trial.confirmed
  /\ IF "PERM" \in c.cmd1 THEN back ELSE there /\ ~trial.booted

BetweenSwaps ==
  \/ Asked /\ pc \in {"off", "start", "request", "erase", "write"}
  \/ /\ OnTrial
     /\ pc \in {"proc", "main"} => ~trial.booted /\ ~trial.confirmed
     /\ pc \in {"restore", "erase", "write"} => ~trial.confirmed
  \/ TakenBack /\ pc # "run"
  \/ Confirmed /\ pc # "run"

TrialInv ==
  trial # NoTrial =>
    /\ LoadAt[trial.new] # "slot1" /\ LoadAt[trial.old] # "slot1"
    /\ pc \in {"erase", "write"} =>
         ~cmd.inplace /\ (IF "PERM" \in cmd.cmd1 THEN OnTrial ELSE Asked)
    /\ UnderWay("START") => Takes(swpstat.val, After, Before)
    /\ UnderWay("P3") \/ UnderWay("P4") => Takes(swpstat.val, Before, After)
    /\ UnderWay("P4") \/ pc = "log" =>
         /\ slt0end.val # NoCmd /\ slt0end.used <= fails + 1
         /\ Has(slt0end, "PERM") <=> "PERM" \in swpstat.val.cmd1
    /\ UnderWay("P4") /\ pc = "log" => slt1end.val = NoCmd
    /\ Ended(swpstat.val) => BetweenSwaps

(* Looking at flash, and resets. *)
LEMMA LooksTrial ==
  ASSUME BootInv, TrialInv,
         \/ ReadSwpstat \/ NoRequest \/ SwapDone \/ NoRestore \/ NothingValid
         \/ PowerOn \/ Reset \/ UNCHANGED vars
  PROVE  TrialInv'
<1> USE BootMarkersAssumption
<1> USE DEF TrialInv, Holding, Before, After, Asked, OnTrial, TakenBack, Confirmed, Takes,
            BetweenSwaps, UnderWay, Ended, Pending, Has, BootInv, PcInv, To, flash, history,
            ImgCheck, NotOlder, Unspoiled
<1>1. CASE ReadSwpstat
  BY <1>1 DEF ReadSwpstat
<1>2. CASE NoRequest
  BY <1>2 DEF NoRequest
<1>3. CASE SwapDone
  BY <1>3 DEF SwapDone, AtPhase
<1>4. CASE NoRestore
  BY <1>4 DEF NoRestore
<1>5. CASE NothingValid
  BY <1>5 DEF NothingValid, CanBoot
<1>6. CASE PowerOn \/ Reset
  BY <1>6 DEF PowerOn, Reset, ResetFrom
<1>7. CASE UNCHANGED vars
  BY <1>7 DEF vars
<1> QED BY <1>1, <1>2, <1>3, <1>4, <1>5, <1>6, <1>7

(* A trial begins with a request, and is ended by a restore. *)
LEMMA BeginsTrial ==
  ASSUME BootInv, SafeInv, TrialInv, AcceptRequest \/ Restore
  PROVE  TrialInv'
<1> USE BootMarkersAssumption
<1> USE DEF TrialInv, Holding, Before, After, Asked, OnTrial, TakenBack, Confirmed, Takes,
            BetweenSwaps, UnderWay, Ended, Pending, Has, BootInv, PcInv, To, flash, history,
            ImgCheck, NotOlder, Unspoiled
<1>1. CASE AcceptRequest
  <2>1. slots[1] # NoImage
    BY <1>1 DEF AcceptRequest
  <2>2. slots[0] # NoImage => LoadAt[slots[0].img] # "slot1"
    BY DEF SafeInv, SlotInv, Installed
  <2> QED BY <2>1, <2>2, <1>1 DEF AcceptRequest, NewTrial
<1>2. CASE Restore
  BY <1>2 DEF Restore
<1> QED BY <1>1, <1>2

(* Commands that the loader writes. *)
LEMMA LogsTrial ==
  ASSUME BootInv, SafeInv, TrialInv, RoomForPermanent,
         EraseSwpstat \/ WriteStart \/ MakePermanent \/ EraseSlt1End \/ WriteSwpstat
  PROVE  TrialInv'
<1> USE BootMarkersAssumption, BootAssumption
<1> USE DEF TrialInv, Holding, Before, After, Asked, OnTrial, TakenBack, Confirmed, Takes,
            BetweenSwaps, UnderWay, Ended, Pending, Has, BootInv, PcInv, To, flash, history,
            ImgCheck, NotOlder, Unspoiled
<1>1. CASE EraseSwpstat
  BY <1>1 DEF EraseSwpstat, Stat!Blank
<1>2. CASE WriteStart
  BY <1>2 DEF WriteStart, Stat!Blank, Stat!Written, TypeOK
<1>3. CASE MakePermanent
  BY <1>3 DEF MakePermanent, PermanentCmd, Flags, End0!Written, End0!HasRoom, TypeOK,
         End0!Registers, RoomForPermanent
<1>4. CASE EraseSlt1End
  BY <1>4 DEF EraseSlt1End, AtPhase, End1!Blank
<1>5. CASE WriteSwpstat
  <2>1. {"PERM"} # NoCmd
    BY DEF Flags
  <2>2. swpstat.val \in SwapCmds /\ swpstat.val.phase \in {"P3", "P4"}
    BY <1>5 DEF WriteSwpstat, TypeOK, Stat!Registers
  <2>3. \/ UNCHANGED swpstat
        \/ /\ swpstat'.val # NoCmd
           /\ swpstat'.val.phase = IF swpstat.val.phase = "P3" THEN "P4" ELSE "END"
           /\ swpstat'.val.cmd1 = swpstat.val.cmd1 /\ swpstat'.val.inplace = swpstat.val.inplace
    BY <2>2, <1>5 DEF WriteSwpstat, Logged, Stat!Written, SwapCmds, Phases
  <2> QED BY <2>1, <2>2, <2>3, <1>5 DEF WriteSwpstat
<1> QED BY <1>1, <1>2, <1>3, <1>4, <1>5

(* The exchange moves both images of the trial. *)
LEMMA ExchangeTrial ==
  ASSUME BootInv, SafeInv, TrialInv, RoomForExchange, RamUnencrypted, ExchangeSectors
  PROVE  TrialInv'
<1> USE BootMarkersAssumption, BootAssumption
<1> SUFFICES ASSUME trial # NoTrial PROVE TrialInv'
  BY DEF ExchangeSectors, history, TrialInv
<1>1. swpstat.val \in SwapCmds /\ UnderWay("START") /\ pc = "proc"
  BY DEF ExchangeSectors, AtPhase, BootInv, TypeOK, PcInv, Stat!Registers, UnderWay
<1>2. ReadyFor(swpstat.val) /\ swpstat.used <= fails + 1 /\ SlotInv
  BY <1>1 DEF SafeInv, SwapInv
<1>3. Stat!HasRoom(swpstat)
  BY <1>2 DEF RoomForExchange, BootInv, TypeOK, Stat!Registers, Stat!HasRoom
<1>4. /\ UnderWay("P3")' /\ swpstat'.val.cmd1 = swpstat.val.cmd1
      /\ swpstat'.val.inplace = swpstat.val.inplace
  BY <1>1, <1>3 DEF ExchangeSectors, Logged, Stat!Written, SwapCmds, Phases, UnderWay
<1>5. Takes(swpstat.val, After, Before) /\ ~swpstat.val.inplace
  BY <1>1 DEF TrialInv, Takes
<1>6. slots[0] \in Contents /\ slots[1] \in Contents /\ slots[0] # NoImage /\ slots[1] # NoImage
  BY <1>5 DEF BootInv, TypeOK, Slot, Takes, After, Before, Holding
<1>7. slots'[0] = Moved(slots[1]) /\ slots'[1] = Moved(slots[0])
  BY <1>5, <1>6 DEF ExchangeSectors, Exchanged, Slot
<1>8. slots[0].form # "spoiled" /\ slots[1].form # "spoiled"
  BY <1>2, <1>5, <1>6 DEF SlotInv, Installed, ReadyFor, Restorable, Unspoiled, ShippedForm
<1>9. /\ Moved(slots[0]) # NoImage /\ Moved(slots[0]).img = slots[0].img
      /\ Moved(slots[1]) # NoImage /\ Moved(slots[1]).img = slots[1].img
  BY <1>6, <1>8, MovedForms
<1>10. (After => Before') /\ (Before => After')
  BY <1>7, <1>9 DEF After, Before, Holding, ExchangeSectors, history
<1>11. Takes(swpstat.val, Before, After)'
  BY <1>4, <1>5, <1>10 DEF Takes, ExchangeSectors, history
<1> QED
  BY <1>1, <1>4, <1>11 DEF TrialInv, ExchangeSectors, history, UnderWay, Ended

(* Phase 3 puts the flags of the swap into slt0end. *)
LEMMA PhaseThreeTrial ==
  ASSUME BootInv, SafeInv, TrialInv, EraseSlt0End \/ WritePrm \/ WriteExecuted
  PROVE  TrialInv'
<1> USE BootMarkersAssumption, BootAssumption
<1> USE DEF TrialInv, Holding, Before, After, Asked, OnTrial, TakenBack, Confirmed, Takes,
            BetweenSwaps, UnderWay, Ended, Pending, Has, BootInv, PcInv, To, flash, history,
            ImgCheck, NotOlder, Unspoiled
<1>1. CASE EraseSlt0End
  BY <1>1 DEF EraseSlt0End, AtPhase, End0!Blank
<1>2. CASE WritePrm
  BY <1>2 DEF WritePrm
<1>3. CASE WriteExecuted
  <2>1. swpstat.val \in SwapCmds /\ fails \in Nat
    BY <1>3 DEF WriteExecuted, TypeOK, Stat!Registers
  <2>2. trial # NoTrial => slots[1] # NoImage
    BY <1>3 DEF WriteExecuted
  <2>3. ExecutedCmd # NoCmd /\ (trial # NoTrial => ExecutedCmd = swpstat.val.cmd1)
    BY <2>1, <2>2 DEF ExecutedCmd, SwapCmds, Flags
  <2>4. slt0end'.used = 1 /\ slt0end'.val = ExecutedCmd
    BY <1>3 DEF WriteExecuted, End0!Written, End0!Blank
  <2> QED BY <2>1, <2>3, <2>4, <1>3 DEF WriteExecuted
<1> QED BY <1>1, <1>2, <1>3

(* A boot begins the trial or ends it. *)
LEMMA BootTrial ==
  ASSUME BootInv, SafeInv, TrialInv, Boot
  PROVE  TrialInv'
BY BootMarkersAssumption
DEF TrialInv, Holding, Before, After, Asked, OnTrial, TakenBack, Confirmed, Takes,
            BetweenSwaps, UnderWay, Ended, Pending, Has, BootInv, PcInv, To, flash, history,
            ImgCheck, NotOlder, Unspoiled, Boot, TypeOK

(* The application can do no more than to confirm. *)
LEMMA ApplicationTrial ==
  ASSUME BootInv, SafeInv, TrialInv, Careless = {}, Upload \/ Request
  PROVE  TrialInv'
<1> USE BootMarkersAssumption, BootAssumption
<1> USE DEF TrialInv, Holding, Before, After, Asked, OnTrial, TakenBack, Confirmed, Takes,
            BetweenSwaps, UnderWay, Ended, Pending, Has, BootInv, PcInv, To, flash, history,
            ImgCheck, NotOlder, Unspoiled
<1>2. CASE Upload
  BY <1>2 DEF Upload, CanUpload, Runs, May, TypeOK, Slot, End1!Blank
<1>3. CASE Request
  <2> SUFFICES ASSUME trial # NoTrial PROVE TrialInv'
    BY <1>3 DEF Request
  <2>1. OnTrial /\ pc = "run" /\ Ended(swpstat.val)
    BY <1>3 DEF Request, CanRequest, Runs
  <2>2. PICK f \in Requests :
          /\ CanRequest(f) /\ slt1end' = End1!Written(slt1end, f)
          /\ trial' = [trial EXCEPT !.confirmed = (f = {"PERM"})]
    BY <1>3 DEF Request
  <2>3. f \in {{"PERM"}, {"BT0"}}
    BY <2>1, <2>2 DEF CanRequest, May, Requests
  <2>4. /\ slt1end'.val = f /\ trial'.confirmed = (f = {"PERM"})
        /\ trial'.new = trial.new /\ trial'.old = trial.old
    BY <2>2 DEF End1!Written, TypeOK
  <2>5. UNCHANGED <<slots, prm, slt0end, swpstat, pc, cmd, fails>>
    BY <1>3 DEF Request
  <2>6. OnTrial'
    BY <2>1, <2>3, <2>4, <2>5
  <2> QED BY <2>1, <2>4, <2>5, <2>6
<1> QED BY <1>2, <1>3

(* Power failures. *)
LEMMA FailureTrial ==
  ASSUME BootInv, SafeInv, TrialInv, Careless = {}, PowerFail
  PROVE  TrialInv'
<1> USE BootMarkersAssumption, BootAssumption
<1> USE DEF TrialInv, Holding, Before, After, Asked, OnTrial, TakenBack, Confirmed, Takes,
            BetweenSwaps, UnderWay, Ended, Pending, Has, BootInv, PcInv, To, flash, history,
            ImgCheck, NotOlder, Unspoiled, Fail
<1>0. fails \in Nat /\ swpstat.used \in Nat /\ slt0end.used \in Nat /\ {"BT0"} # NoCmd
  BY DEF TypeOK, Stat!Registers, End0!Registers, Flags
<1>1. CASE FailBetween
  BY <1>0, <1>1 DEF FailBetween
<1>2. CASE FailInSwpstat
  <2>1. /\ UNCHANGED <<slots, prm, slt0end, slt1end>> /\ UNCHANGED history
        /\ pc' = "off" /\ fails' = fails + 1 /\ swpstat'.val = swpstat.val
    BY <1>2 DEF FailInSwpstat, TypeOK, Stat!Registers, Stat!Torn
  <2>2. pc \notin {"proc", "main"} \/ ~Ended(swpstat.val)
    BY <1>2 DEF FailInSwpstat, AtPhase
  <2> QED BY <1>0, <2>1, <2>2
<1>3. CASE FailInSwpstatErase
  BY <1>0, <1>3, HalfErasedStat DEF FailInSwpstatErase, StatInv
<1>4. CASE FailInSlt0End
  BY <1>0, <1>4 DEF FailInSlt0End, End0!Torn, TypeOK, End0!Registers
<1>5. CASE FailInPhase3
  BY <1>0, <1>5 DEF FailInPhase3, AtPhase
<1>6. CASE FailInPhase4
  BY <1>0, <1>6 DEF FailInPhase4, AtPhase, End1!HalfErased
<1>7. CASE FailInUpload
  BY <1>0, <1>7 DEF FailInUpload, CanUpload, Runs, May, TypeOK, Slot, End1!Blank, End1!HalfErased
<1>8. CASE FailInRequest
  BY <1>0, <1>8 DEF FailInRequest, CanRequest, Runs, TypeOK, End1!Torn, End1!Registers
<1>9. CASE FailInExchange
  <2>1. /\ UNCHANGED <<slots, prm, slt0end, slt1end>> /\ UNCHANGED history
        /\ pc' = "off" /\ UnderWay("P1")'
    BY <1>9 DEF FailInExchange, AtPhase, Logged, Stat!Written, TypeOK, Stat!Registers, SwapCmds,
                Phases
  <2> QED BY <2>1
<1> QED BY <1>1, <1>2, <1>3, <1>4, <1>5, <1>6, <1>7, <1>8, <1>9 DEF PowerFail

(* Every step keeps track of the trial. *)
LEMMA NextTrial ==
  ASSUME BootInv, SafeInv, TrialInv, [Next]_vars, ~ResumeExchange,
         Careless = {}, RamUnencrypted, RoomForExchange, RoomForPermanent
  PROVE  TrialInv'
BY LooksTrial, BeginsTrial, LogsTrial, ExchangeTrial, PhaseThreeTrial, BootTrial,
   ApplicationTrial, FailureTrial
DEF Next, Loader, ImgSwap, Application

(* An image on trial runs from slot 0. *)
LEMMA TrialRuns ==
  ASSUME BootInv, SafeInv, TrialInv, trial # NoTrial, Boot
  PROVE  running'.what.img = slots[0].img
<1>1. Settled /\ slots[0] # NoImage /\ slots[1] # NoImage
  BY BootMarkersAssumption
  DEF Boot, CanBoot, SafeInv, RestInv, BootInv, PcInv, Ended, UnderWay, TrialInv, BetweenSwaps,
      OnTrial, TakenBack, Confirmed, After, Before, Holding
<1>2. LoadAt[slots[1].img] # "slot1"
  BY DEF Boot, BootInv, PcInv, TrialInv, BetweenSwaps, OnTrial, TakenBack, Confirmed, After,
         Before, Holding
<1>3. Chosen # "slot1"
  BY <1>1, <1>2 DEF Chosen, Wanted, Settled, Recorded, Address, SafeInv, SlotInv, Installed,
                    StaysInPlace
<1>4. \A c \in RamCopies(slots[0]) : c.img = slots[0].img
  BY <1>1 DEF RamCopies, Content
<1> QED BY <1>1, <1>3, <1>4 DEF Boot, Executing

(* A temporary swap that was not confirmed is undone at the next boot after *)
(* it was tried, and one that was confirmed stays (usage.md), for a careful *)
(* application, as long as no exchange went on with the wrong headers.      *)
THEOREM TrialsEnd ==
  ASSUME Careless = {}, RamUnencrypted, RoomForExchange, RoomForPermanent
  PROVE  Spec => TrialEnds
<1>1. Init => TrialInv
  BY DEF Init, TrialInv
<1>2. Respectful
  BY DEF Respectful
<1>3. /\ BootInv /\ (~mixed => SafeInv) /\ (~mixed => TrialInv) /\ [Next]_vars
      => (~mixed' => TrialInv')
  BY NextTrial, NotMixedYet
<1>4. ASSUME BootInv, SafeInv, TrialInv, [Next]_vars, pc = "main", pc' = "run", trial # NoTrial
      PROVE  /\ trial.booted /\ ~trial.confirmed => running'.what.img = trial.old
             /\ trial.confirmed => running'.what.img = trial.new
  <2>1. Boot
    BY <1>4
    DEF Next, Loader, ImgSwap, Application, PowerFail, vars, To, ReadSwpstat, AcceptRequest,
        NoRequest, EraseSwpstat, WriteStart, MakePermanent, Restore, NoRestore, ExchangeSectors,
        ResumeExchange, EraseSlt0End, WritePrm, WriteExecuted, EraseSlt1End, WriteSwpstat,
        SwapDone, AtPhase,
        NothingValid, PowerOn, Reset, ResetFrom, Upload, CanUpload, Request, CanRequest, Runs,
        FailBetween, FailInSwpstat, FailInExchange, FailInSwpstatErase, FailInSlt0End,
        FailInPhase3, FailInPhase4, FailInUpload, FailInRequest, Fail
  <2>2. running'.what.img = slots[0].img
    BY <1>4, <2>1, TrialRuns
  <2>3. BetweenSwaps
    BY <1>4 DEF TrialInv, BootInv, PcInv
  <2> QED BY <1>4, <2>2, <2>3
          DEF BetweenSwaps, OnTrial, TakenBack, Confirmed, After, Before, Holding
<1>5. BootInv /\ (~mixed => SafeInv) /\ (~mixed => TrialInv) /\ [Next]_vars =>
        (pc = "main" /\ pc' = "run" /\ trial # NoTrial /\ ~mixed =>
           /\ trial.booted /\ ~trial.confirmed => running'.what.img = trial.old
           /\ trial.confirmed => running'.what.img = trial.new)
  BY <1>4
<1> QED BY <1>1, <1>2, <1>3, <1>5, SafetyInvariant, PTL DEF Spec, TrialEnds
=============================================================================
