------------------------------ MODULE ZbCmdLog ------------------------------
(***************************************************************************)
(* The command log of zb_flash.c: an area of flash that holds commands of  *)
(* four bytes, the last of which is a crc8, one per aligned entry.         *)
(* zb_cmd_write appends at the first entry that reads 0xffffffff,          *)
(* zb_cmd_read returns the last entry before it whose crc8 is right.  Any  *)
(* of the three locations (slt0end, slt1end, swpstat) is such a log.       *)
(*                                                                         *)
(* A power failure cuts a write (the entry is programmed but its crc8 is   *)
(* wrong) or an erase.  An erase works page by page; the page being erased *)
(* is left without a valid entry, later pages are still as they were.      *)
(***************************************************************************)
EXTENDS Naturals

CONSTANTS
  Cmd,          \* commands
  NoCmd,        \* the -ENOENT of zb_cmd_read
  Empty,        \* an erased entry, EMPTY_U32
  BadCrc,       \* a programmed entry whose crc8 does not match
  Capacity,     \* entries of the area
  PageEntries   \* entries of one flash page

ASSUME LogAssumption ==
  /\ Capacity \in Nat
  /\ PageEntries \in Nat \ {0}
  /\ {NoCmd, Empty, BadCrc} \cap Cmd = {}
  /\ Empty # BadCrc

VARIABLES
  area,   \* the entries in flash
  last,   \* auxiliary: the last command written since the last erase
  dirty   \* auxiliary: an erase was cut and not yet repeated

vars == <<area, last, dirty>>

Index == 0 .. Capacity - 1

IsFirstEmpty(a, e) ==
  /\ e \in 0 .. Capacity
  /\ \A i \in Index : i < e => a[i] # Empty
  /\ e < Capacity => a[e] = Empty

(* The entry where the loops of zb_cmd_read and zb_cmd_write stop. *)
FirstEmpty(a) == CHOOSE e \in 0 .. Capacity : IsFirstEmpty(a, e)

(* The entries whose crc8 zb_cmd_read finds right. *)
Valid(a) == {i \in Index : i < FirstEmpty(a) /\ a[i] \in Cmd}

IsLast(S, m) == m \in S /\ \A n \in S : n <= m

(* Slip: the crc8 is not looked at. *)
SlipReadCmd(a) == IF FirstEmpty(a) = 0 THEN NoCmd ELSE a[FirstEmpty(a) - 1]

ReadCmd(a) ==
  IF Valid(a) = {} THEN NoCmd ELSE a[CHOOSE m \in Valid(a) : IsLast(Valid(a), m)]

-----------------------------------------------------------------------------

Init == area = [i \in Index |-> Empty] /\ last = NoCmd /\ dirty = FALSE

(* Slip: the torn entries behind the last command are used again. *)
SlipWriteCmd(c) ==
  LET next == CHOOSE e \in 0 .. Capacity :
                /\ \A i \in Valid(area) : i < e
                /\ e > 0 => e - 1 \in Valid(area)
  IN  /\ ~dirty
      /\ next < Capacity
      /\ area' = [area EXCEPT ![next] = c]
      /\ last' = c
      /\ UNCHANGED dirty

(* zb_cmd_write with room left; callers erase first after a cut erase. *)
WriteCmd(c) ==
  /\ ~dirty
  /\ FirstEmpty(area) < Capacity
  /\ area' = [area EXCEPT ![FirstEmpty(area)] = c]
  /\ last' = c
  /\ UNCHANGED dirty

(* Power fails while the entry is programmed: the crc8 protects it. *)
TearWrite ==
  /\ ~dirty
  /\ FirstEmpty(area) < Capacity
  /\ area' = [area EXCEPT ![FirstEmpty(area)] = BadCrc]
  /\ UNCHANGED <<last, dirty>>

(* Slip: one entry too many is erased. *)
SlipEraseArea ==
  /\ area' = [i \in 0 .. Capacity |-> Empty]
  /\ last' = NoCmd
  /\ dirty' = FALSE

(* Slip: only the first page is erased. *)
SlipEraseFirst ==
  /\ area' = [i \in Index |-> IF i < PageEntries THEN Empty ELSE area[i]]
  /\ last' = NoCmd
  /\ dirty' = FALSE

(* zb_erase_swpstat and its siblings. *)
EraseArea ==
  /\ area' = [i \in Index |-> Empty]
  /\ last' = NoCmd
  /\ dirty' = FALSE

(* Slip: the pages are erased from the last to the first. *)
SlipTearErase(p) ==
  /\ p * PageEntries \in Index
  /\ dirty' = TRUE
  /\ UNCHANGED last
  /\ \E left \in [Index -> {Empty, BadCrc}] :
       area' = [i \in Index |->
                  IF i >= (p + 1) * PageEntries THEN Empty
                  ELSE IF i >= p * PageEntries THEN left[i]
                  ELSE area[i]]

(* Power fails while page p is erased. *)
TearErase(p) ==
  /\ p * PageEntries \in Index
  /\ dirty' = TRUE
  /\ UNCHANGED last
  /\ \E left \in [Index -> {Empty, BadCrc}] :
       area' = [i \in Index |->
                  IF i < p * PageEntries THEN Empty
                  ELSE IF i < (p + 1) * PageEntries THEN left[i]
                  ELSE area[i]]

Next ==
  \/ \E c \in Cmd : WriteCmd(c)
  \/ TearWrite
  \/ EraseArea
  \/ \E p \in Index : TearErase(p)

Spec == Init /\ [][Next]_vars

-----------------------------------------------------------------------------
(* The inductive invariant: commands that survive a cut erase have no gap   *)
(* in front of later entries, and the last of them is the last written.     *)

Survivors ==
  \A i, j, k \in Index :
    i < j /\ j < k /\ area[i] \in Cmd /\ area[k] # Empty => area[j] # Empty

LastEntry ==
  \A i \in Index :
    area[i] \in Cmd /\ (\A j \in Index : i < j => area[j] \notin Cmd) => area[i] = last

Kept == ~dirty /\ last # NoCmd => \E i \in Index : area[i] \in Cmd

-----------------------------------------------------------------------------
(* Properties *)

TypeOK ==
  /\ area \in [Index -> Cmd \cup {Empty, BadCrc}]
  /\ last \in Cmd \cup {NoCmd}
  /\ dirty \in BOOLEAN

(* A clean area is filled from the front: no erased entry lies before a    *)
(* programmed one, so the scans of zb_cmd_read and zb_cmd_write, which     *)
(* stop at the first erased entry, miss nothing.                           *)
FilledFromFront ==
  ~dirty => \A i, j \in Index : i < j /\ area[j] # Empty => area[i] # Empty

(* Whatever was torn in between, zb_cmd_read returns the last command that *)
(* was written completely; once an erase was cut it may also find nothing, *)
(* but never an older command.                                             *)
ReadsLast ==
  ReadCmd(area) \in IF dirty THEN {last, NoCmd} ELSE {last}

(* Flash can only be programmed once after an erase: a step that does not  *)
(* erase the area leaves every programmed entry as it is.                  *)
ProgramOnce ==
  [][ (\E i \in Index : area'[i] # area[i]) /\ ~dirty'
        => \/ \A i \in Index : area[i] # Empty => area'[i] = area[i]
           \/ \A i \in Index : area'[i] = Empty ]_vars

(* The location as its callers see it. *)
View == [val |-> ReadCmd(area), last |-> last,
         used |-> FirstEmpty(area), dirty |-> dirty]

Reg == INSTANCE ZbCmdReg WITH reg <- View

(* The log implements the register: a write or its cut leaves the new or   *)
(* the old command to be read, and only an erase may lose it (design.md    *)
(* "when a wrong value is written it is ignored").                         *)
RegSpec == Reg!Spec

(* All that makes these properties inductive: in particular a command that *)
(* a cut erase of zb_erase_swpstat left behind is never behind a gap.      *)
LogInv == TypeOK /\ FilledFromFront /\ Survivors /\ LastEntry /\ Kept
=============================================================================
