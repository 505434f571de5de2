------------------------------ MODULE ZbCmdReg ------------------------------
(***************************************************************************)
(* What a command location promises to its callers: it behaves like one    *)
(* register that holds the last command written, with a budget of writes.  *)
(* The bootloader keeps the progress of a swap in such a location          *)
(* (swpstat), and exchanges requests with the application through two more *)
(* (slt0end, slt1end).  ZbCmdLog shows that the log of zb_flash.c keeps    *)
(* this promise; ZbMove and ZbBoot are built on it.                        *)
(*                                                                         *)
(* val is what a read returns, last the last command written since the     *)
(* area was erased.  dirty: an erase was cut short by a power failure.     *)
(* Until the area is erased again a read finds that last command or none,  *)
(* and a write would land in front of entries that survived.               *)
(***************************************************************************)
EXTENDS Naturals

CONSTANTS
  Cmd,        \* the commands (cmd1, cmd2, cmd3)
  NoCmd,      \* what a read that returns -ENOENT yields
  Capacity    \* entries of the area

VARIABLE reg

Registers ==
  [val : Cmd \cup {NoCmd}, last : Cmd \cup {NoCmd},
   used : 0 .. Capacity, dirty : BOOLEAN]

Blank == [val |-> NoCmd, last |-> NoCmd, used |-> 0, dirty |-> FALSE]

HasRoom(r) == r.used < Capacity

Written(r, c) == [val |-> c, last |-> c, used |-> r.used + 1, dirty |-> r.dirty]

Torn(r) == [r EXCEPT !.used = @ + 1]

(* A cut erase: the value may be gone, the entry count is anything. *)
HalfErased(r) ==
  [val : {r.last, NoCmd}, last : {r.last}, used : 0 .. Capacity, dirty : {TRUE}]

Init == reg = Blank

Write(c) == ~reg.dirty /\ HasRoom(reg) /\ reg' = Written(reg, c)

TearWrite == ~reg.dirty /\ HasRoom(reg) /\ reg' = Torn(reg)

Erase == reg' = Blank

TearErase == reg' \in HalfErased(reg)

Next == (\E c \in Cmd : Write(c)) \/ TearWrite \/ Erase \/ TearErase

Spec == Init /\ [][Next]_reg
=============================================================================
