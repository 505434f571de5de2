------------------------------ MODULE ZbStream ------------------------------
(***************************************************************************)
(* An image on its way from slot to slot, byte by byte: zb_img_move, the   *)
(* AES-CTR of zb_aes.c and the aligned writes of zb_flash_write, called    *)
(* for one sector after another as zb_img_cmd_proc does, or once for the   *)
(* whole image as zb_img_ram_move does.                                    *)
(*                                                                         *)
(* The bootloader restarts the counter of the cipher in every sector; the  *)
(* image was encrypted in one go (imgtool).  The question is whether the   *)
(* pieces fit.  Offsets are relative to the header of the image.  A byte   *)
(* is known by its position and by the bytes of the key stream that were   *)
(* added to it; adding one twice takes it away.                            *)
(***************************************************************************)
EXTENDS Naturals

CONSTANTS
  AesBlock,      \* AES_BLOCK_SIZE (16)
  MoveBlock,     \* MOVE_BLOCK_SIZE (512)
  WriteBlock,    \* flash_get_write_block_size (1, 2, 4 or 8)
  SectorSize,    \* SECTOR_SIZE
  ByteRange,     \* values of a byte of the counter (256)
  CtrBytes,      \* bytes of the counter (16)
  Starts,        \* rd_info.start: where images begin behind their header
  Sizes,         \* rd_info.size
  Erased         \* a byte of 0xff in erased flash

ASSUME StreamAssumption ==
  /\ {AesBlock, MoveBlock, WriteBlock, SectorSize, ByteRange, CtrBytes} \subseteq Nat \ {0}
  /\ MoveBlock % AesBlock = 0 /\ SectorSize % AesBlock = 0
  /\ AesBlock % WriteBlock = 0
  /\ Starts \subseteq Nat /\ Sizes \subseteq Nat \ {0}

VARIABLES
  job,   \* what is moved, and how
  pc,
  sec,   \* cmd3: the sector to move next
  mv,    \* the locals of zb_img_move
  out,   \* the destination
  lost   \* auxiliary: a write that the flash driver refused

vars == <<job, pc, sec, mv, out, lost>>

(* "swap": phases P1 and P2; "up": MOVE_UP; "ram": zb_img_ram_move. *)
Ways == {"swap", "up", "ram"}

Jobs == [start : Starts, size : Sizes, enc : BOOLEAN, cipher : BOOLEAN, way : Ways]

(* zb_img_ram_move has no key for an encrypted image: see ZbBoot. *)
GoodJob(j) == (j.cipher => j.enc) /\ (j.way = "ram" => ~j.enc)

End(j) == j.start + j.size
Least(a, b) == IF a <= b THEN a ELSE b
RoundUp(n, block) == ((n + block - 1) \div block) * block

-----------------------------------------------------------------------------
(* The image as imgtool ships it: one key stream from its first byte on. *)

Counters == [1 .. CtrBytes -> 0 .. ByteRange - 1]

(* What the byte k places in front of the last one counts. *)
Weight[k \in 0 .. CtrBytes - 1] == IF k = 0 THEN 1 ELSE ByteRange * Weight[k - 1]

CounterOf(n) ==
  [i \in 1 .. CtrBytes |-> (n \div Weight[CtrBytes - i]) % ByteRange]

KeyAt(n) == <<CounterOf(n \div AesBlock), n % AesBlock>>

Byte(p, ks) == [pos |-> p, ks |-> ks]

(* Behind the image there is whatever was in the sector before. *)
Source(j, p) ==
  Byte(p, IF j.cipher /\ p \in j.start .. End(j) - 1 THEN {KeyAt(p - j.start)} ELSE {})

-----------------------------------------------------------------------------
(* zb_aes_ctr_mode *)

Zero == [i \in 1 .. CtrBytes |-> 0]

(* The carry runs from the last byte to the first. *)
Increment(c) ==
  [i \in 1 .. CtrBytes |->
     IF \A k \in i + 1 .. CtrBytes : c[k] = ByteRange - 1
     THEN (c[i] + 1) % ByteRange ELSE c[i]]

Advanced(c, n) ==
  LET f[k \in 0 .. n] == IF k = 0 THEN c ELSE Increment(f[k - 1]) IN f[n]

Blocks(len) == (len + AesBlock - 1) \div AesBlock

Xor(A, B) == (A \ B) \cup (B \ A)

Ciphered(b, c, i) ==
  [b EXCEPT !.ks = Xor(@, {<<Advanced(c, i \div AesBlock), i % AesBlock>>})]

-----------------------------------------------------------------------------
(* zb_img_move *)

(* Where the encrypted part begins, mcmd->fr_eoff. *)
EncStart(j, s) ==
  IF j.way = "up" THEN (s + 1) * SectorSize ELSE IF j.enc THEN j.start ELSE End(j)

Call(from, len) ==
  LET eoff == EncStart(job, sec) IN
  mv' = [fr |-> from, eoff |-> eoff, left |-> len,
         ulen |-> IF from < eoff THEN eoff - from ELSE 0, ctr |-> Zero, at |-> eoff]

(* Slip: a sector that the image fills in part is left out. *)
SlipSectorLeft == (sec + 1) * SectorSize <= End(job)

(* cmd_off < end_fr, end_to. *)
SectorLeft == sec * SectorSize < End(job)

MoveSector ==
  /\ pc = "call" /\ job.way # "ram"
  /\ SectorLeft
  /\ Call(sec * SectorSize,
          IF job.way = "up" THEN SectorSize
          ELSE Least(End(job) - sec * SectorSize, SectorSize))
  /\ pc' = "count"
  /\ UNCHANGED <<job, sec, out, lost>>

MoveToRam ==
  /\ pc = "call" /\ job.way = "ram" /\ sec = 0
  /\ Call(job.start, job.size)
  /\ pc' = "count"
  /\ UNCHANGED <<job, sec, out, lost>>

MoveDone ==
  /\ pc = "call"
  /\ IF job.way = "ram" THEN sec # 0 ELSE ~SectorLeft
  /\ pc' = "done"
  /\ UNCHANGED <<job, sec, mv, out, lost>>

(* Slip: the counter is advanced once more. *)
SlipCounting == mv.at <= mv.fr /\ mv.ulen = 0

Counting == mv.at < mv.fr /\ mv.ulen = 0

(* One counter for each block of the image in the sectors before. *)
SkipBlock ==
  /\ pc = "count" /\ Counting
  /\ mv' = [mv EXCEPT !.ctr = Increment(@), !.at = @ + AesBlock]
  /\ UNCHANGED <<job, pc, sec, out, lost>>

Counted ==
  /\ pc = "count" /\ ~Counting
  /\ pc' = "copy"
  /\ UNCHANGED <<job, sec, mv, out, lost>>

(* Slip: a block may hold the end of the header and the start of the image. *)
SlipChunk == Least(mv.left, MoveBlock)

Chunk ==
  LET n == Least(mv.left, MoveBlock) IN IF mv.ulen # 0 THEN Least(n, mv.ulen) ELSE n

(* What zb_flash_read and the cipher leave in the buffer. *)
Buffer(i) ==
  LET b == Source(job, mv.fr + i) IN
  IF mv.ulen = 0 THEN Ciphered(b, mv.ctr, i) ELSE b

(* zb_flash_write pads the last bytes to a write block, with 0xff.  The     *)
(* driver wants offsets aligned; its refusal goes unnoticed.                *)
Refused == job.way # "ram" /\ mv.fr % WriteBlock # 0

CopyChunk ==
  /\ pc = "copy" /\ mv.left # 0
  /\ out' = IF Refused THEN out
            ELSE [p \in DOMAIN out |->
                    IF p \in mv.fr .. mv.fr + Chunk - 1 THEN Buffer(p - mv.fr) ELSE out[p]]
  /\ lost' = (lost \/ Refused)
  /\ mv' = [mv EXCEPT !.fr = @ + Chunk, !.left = @ - Chunk,
                      !.ulen = IF @ # 0 THEN @ - Chunk ELSE @,
                      !.ctr = IF mv.ulen = 0 THEN Advanced(@, Blocks(Chunk)) ELSE @]
  /\ UNCHANGED <<job, pc, sec>>

(* Slip: cmd3 is not incremented. *)
SlipReturn ==
  /\ pc = "copy" /\ mv.left = 0
  /\ pc' = "call"
  /\ UNCHANGED <<job, sec, mv, out, lost>>

Return ==
  /\ pc = "copy" /\ mv.left = 0
  /\ sec' = sec + 1
  /\ pc' = "call"
  /\ UNCHANGED <<job, mv, out, lost>>

-----------------------------------------------------------------------------
Idle == [fr |-> 0, eoff |-> 0, left |-> 0, ulen |-> 0, ctr |-> Zero, at |-> 0]

Init ==
  /\ job \in {j \in Jobs : GoodJob(j)}
  /\ out = [p \in 0 .. RoundUp(End(job), SectorSize) - 1 |-> Erased]
  /\ pc = "call" /\ sec = 0 /\ mv = Idle /\ lost = FALSE

Next ==
  \/ MoveSector \/ MoveToRam \/ MoveDone
  \/ SkipBlock \/ Counted \/ CopyChunk \/ Return

Spec == Init /\ [][Next]_vars

(* Nothing else runs. *)
FairSpec == Spec /\ WF_vars(Next)

-----------------------------------------------------------------------------
(* Properties *)

TypeOK ==
  /\ job \in Jobs
  /\ pc \in {"call", "count", "copy", "done"}
  /\ sec \in 0 .. RoundUp(End(job), SectorSize) \div SectorSize
  /\ mv \in [fr : Nat, eoff : Nat, left : Nat, ulen : Nat, ctr : Counters, at : Nat]
  /\ DOMAIN out = 0 .. RoundUp(End(job), SectorSize) - 1
  /\ lost \in BOOLEAN

(* What the byte at p has to become: the image the other way round, its     *)
(* header as it is; an image moved up, or to RAM, unaltered.                *)
Wanted(j, p) ==
  IF j.enc /\ j.way = "swap" /\ p >= j.start
  THEN Source([j EXCEPT !.cipher = ~@], p) ELSE Source(j, p)

(* At no time is there a wrong byte in the destination: each sector picks   *)
(* up the key stream where the one before has left it, although the counter *)
(* is set up anew and the chunks that are read end anywhere (zb_img_move).  *)
NoWrongByte == \A p \in DOMAIN out : out[p] \in {Erased, Wanted(job, p)}

(* When the loop has ended the whole image has been moved: not one chunk of *)
(* it was skipped, or refused by the flash because it was not aligned.      *)
NothingMissing ==
  pc = "done" =>
    /\ ~lost
    /\ \A p \in (IF job.way = "ram" THEN job.start ELSE 0) .. End(job) - 1 :
         out[p] = Wanted(job, p)

(* The loops over sectors, blocks and chunks come to their end. *)
MoveEnds == <>(pc = "done")
=============================================================================
