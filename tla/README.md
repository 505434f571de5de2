# ZEPboot in TLA+

ZEPboot is a bootloader for Zephyr boards. It checks a new image in *slot 1*,
exchanges it with the image in *slot 0* (decrypting on the way), or decrypts it in
place, or copies it to RAM, and boots the result. It has to survive a power failure at
any moment. This directory models that program, checks the models with TLC and proves
some of their properties with TLAPS. Paths below are relative to the repository.

## 1. Inventory

| Component | State | Operations | Talks to |
|---|---|---|---|
| command log, `zepboot/src/zb_flash.c:170-395` | three areas of 4-byte entries in flash: `swpstat`, `slt0end`, `slt1end` | `zb_cmd_read`, `zb_cmd_write`, `zb_erase_*` | everything below |
| flash access, `zb_flash.c:19-118` | flash | erase, padded write, read | drivers |
| swap engine, `zb_move.c:94-316` | both slots, `swpstat`; locals `cmd`, `info` | `zb_img_cmd_proc`: one step per command (START, MOVE_UP, P1, P2, P3, P4, END) | log, mover, image info |
| sector and RAM move, `zb_move.c:399-478`, `zb_aes.c` | a buffer and the AES-CTR counter | `zb_img_move`, `zb_aes_ctr_mode` | flash access |
| swap decision, `zb_move.c:318-395` | none of its own | `zb_img_swap`: continue, accept a request, make permanent, restore | log, image check, engine |
| TLV area, `zb_tlv.c` | a copy of the area in RAM | `zb_open_tlv_area`, `zb_step_tlv` | flash, crypto |
| image information and check, `zb_image.c` | none | `zb_img_get_info`, `zb_img_check`, `zb_img_calc_crc32` | TLV area, crypto, parameters |
| parameters, `zb_flash.c:398-419` | `zb_prm` at the start of slt0end: load addresses, checksums, versions | `zb_prm_read`, `zb_prm_write` | engine, main |
| boot decision, `bootloader/src/main.c` | the slot area at hand | `main`: swap in every area, choose an address, verify the checksum, jump | all |
| slot map, `bootloader/src/slotmap.c` | offsets, sizes and devices of the slot areas (one as shipped) | `zb_slt_area_cnt`, `zb_slt_area_get` | main |
| crypto, `zb_ec256.c` | keys | signature, hash, key agreement, crc32 | tinycrypt |
| application (external) | slot 1, `slt1end` | uploads an image, writes a command, resets | bootloader, by flash only |
| imgtool, `scripts/` | none | encrypts, hashes and signs an image | produces slot 1 |

Nothing in the bootloader runs concurrently. What makes it hard is that it can be cut
off between any two operations on flash and within each of them; that bootloader and
application share flash and take turns at resets; that what a command means depends on
the commands before it; and that every length is cut into sectors, chunks, cipher
blocks and write blocks, with an edge at each. `PROJECT.json` lists these hazards, each
at the line where it bites, with the properties aimed at it.

What makes each component correct:

- the log: a read returns the last command written completely; an entry is programmed once;
- the engine: no sector is lost, the exchange is complete when recorded, each step is
  repeatable, the swap ends, the parameters describe the slots;
- the mover: every byte gets the key stream byte it was encrypted with;
- the decision: only checked images are swapped in, a trial is undone unless it was
  confirmed, no image becomes older;
- the check: only what is whole, signed with a root key, new enough and not too large
  passes, and what does is not refused; what is read out of a header is what imgtool put there;
- main: boots only a whole image, at its own address, always finds one, and has settled
  the other slot areas before.

## 2. Modules

| Module | Models | Role |
|---|---|---|
| `ZbCmdReg` | what a command location promises: a register with a budget of writes | abstract specification |
| `ZbCmdLog` | the entries in flash, `zb_cmd_read`, `zb_cmd_write`, erase by pages | implements `ZbCmdReg` (`RegSpec`) |
| `ZbImage` | sectors, images, `zb_img_get_info`, a sector through `zb_img_move` | operators |
| `ZbMove` | `zb_img_cmd_proc`, one action per operation on flash | the core |
| `ZbContents` | a slot as a whole: image and form | operators |
| `ZbSwap` | the swap as its users see it: atomic | abstract specification |
| `ZbMoveSwap` | refinement mapping from `ZbMove` to `ZbSwap` (`SwapIsAtomic`) | refinement |
| `ZbStream` | `zb_img_move`, AES-CTR and padded writes byte by byte | algorithm |
| `ZbBoot` | `zb_img_swap`, phases 3 and 4, `main`, the application, from reset to reset | composition |
| `ZbHeader` | the cells of an image as `imgtool` writes it | operators |
| `ZbImgInfo` | `zb_img_get_info` and what it calls, `zb_img_check`, `zb_img_calc_crc32`, cell by cell | algorithm |
| `ZbAreas` | the loop of `main` over the slot areas, around `ZbBoot` | composition |
| `ZbCmdLogProofs`, `ZbMoveProofs`, `ZbBootProofs`, `ZbAreasProofs`, `ZbImgInfoProofs`, `ZbStreamProofs` | theorems about one module each | proofs |
| `ZbMoveSwapProofs`, `ZbBootSafety` | theorems that go beyond `ZbMoveProofs` and `ZbBootProofs` | proofs |
| `MC*` | instances for TLC | |

How they fit together. `ZbBoot` takes the three locations to be registers, which
`ZbCmdLog` justifies, and the exchange of the sectors to be one step that recomputes the
slots with `ZbContents!Exchanged`, which is the step of `ZbSwap` that `ZbMove` is shown to
carry out as long as power fails only where it can resume. Where it cannot (finding 1),
`ZbBoot` has steps of its own: `FailInExchange` and `ResumeExchange`. `ZbMove` in turn takes `swpstat` to be such a register, and moves a sector in
one step (`ZbImage!Moved`), which `ZbStream` justifies. That `ZbBoot!ImgCheck` may speak of
an image as a whole, of room and of versions is what `OnlyWhole` and `RefusesOlder` of
`ZbImgInfo` establish from the cells in flash; that `ZbMove` and `ZbBoot` may take sizes and
addresses from an image is `InfoOfImage`, and that a checksum identifies it, `CrcCoversImage`.

### ZbCmdLog

`area` is the flash of one location, one value per aligned entry: a command, `Empty`
(0xffffffff) or `BadCrc`. `FirstEmpty` is where the two scan loops stop, `ReadCmd` is
`zb_cmd_read`, `WriteCmd` is `zb_cmd_write` with room left (without room it returns
`-ENOSPC` and changes nothing). `TearWrite` and `TearErase(p)` are power failures: the
entry is left with a wrong crc8, or the erase stops in page `p`, after which the
bootloader erases again before it writes (`dirty`). That the bootloader does so is
`LogsRespected` in `ZbBoot`. `last` is an auxiliary variable, the command a reader
deserves.

### ZbMove

`flash[s][k]` is sector `k` of slot `s`: a sector of an image in plain or cipher form,
`Erased`, `Garbage`, or in the last sector of slot 0 the parameters and the command log.
`pc` walks through one pass of the loop: `read` (read swpstat, `info` if not loaded),
`step` (the switch; the first operation of a copying step is the erase, `EraseSector`),
`program` (`MoveUp`, `SwapP1`, `SwapP2`, `WritePrm`, `FinishP4`), `slt0cmd`, `log`
(`WriteSwpstat`). `cmd` and `info` are the locals of the same name; a failure resets
them. A failure can strike between any two of these (`FailBetween`), inside an erase, a
copy, the writes to slt0end, or the write of the next command. `CanResume` names the
commands from which the code finds its images again; with `FailAnywhere = TRUE` failures
are not restricted (run `swap_resume`).

### ZbStream

A byte is its position and the set of key stream bytes added to it; adding twice takes
away, as exclusive or does. `MoveSector` is the call for one sector in P1, P2 or
MOVE_UP, `MoveToRam` the one of `zb_img_ram_move`; `SkipBlock` is one iteration of the
counter loop, `CopyChunk` one of the copy loop. The reference (`Wanted`) is the key
stream of `imgtool`, which starts at the first byte of the image and never restarts.

### ZbBoot

`pc` follows `zb_img_swap` (`start`, `request`, `erase`, `write`, `permanent`, `restore`),
`zb_img_cmd_proc` (`proc`, `prm`, `executed`, `log`), `main`, and then `run`, `off` or
`halt`. Every write to flash is a step of its own and can be cut. The application is
external: it may upload any image, whole or not, write one of the four commands of
`docs/usage.md`, or reset. It is careful in three ways, each of which `Careless` can lift:
it does not upload, and does not request a swap, while the image in slot 0 is on trial,
and does not ask for slot 0 to be booted when that is empty. `trial` and `floor` are
auxiliary: the temporary swap under way and the version that was last permanent. A device
starts new: empty logs, empty slot 0, and in slot 1 an image that may be whole or not, so that
a first image that is refused occurs too. `NeverHalts` says that the only device that
comes up with nothing to boot is one that never got a valid image.

The exchange of the sectors can be cut as well. A failure in MOVE_UP, or in P1 or P2 where the
loop finds its images again, leaves everything as if the exchange had not begun (`FailBetween`,
`FailInSwpstat`; that is what `SwapIsAtomic` says). One in P1 or P2 where it does not is
`FailInExchange`: P1 stays recorded, and the next boot goes on with the wrong headers
(`ResumeExchange`). The slots then hold anything that `ZbContents!Mixed` allows, which leaves open more than
sectors can make of it: in either slot a header of one of the two images, or none, and anything behind
it. The auxiliary variable `mixed` records this. Phase 3 takes the checksum of the mixture for
that of an image and `main` boots it, so nothing is promised from then on about what is booted: `BootsWhole`, `NeverHalts`,
`TrialEnds` and `NeverOlder`, and the theorems about them, speak of behaviours without it
(`~mixed`). That the logs are used well, that the parameters describe slot 0 (even a mixture),
and that the loader comes to an end hold with it too. What a mixture does when it is
booted is outside of the model: it is taken to hang until a reset (`Runs`).

### ZbImgInfo

One behaviour is one call of `zb_img_check`, or of `zb_img_get_info_nsc` with or without
the checksum after it (`job`), over flash that holds an image made by `ZbHeader`: as it was
written, with one cell changed, or written up to some cell, of the header too. A field of several bytes is one
cell. `pc` follows the code: `open`, `piece` (one iteration of the loop in `zb_hash_flash` or
`zb_crc32_flash`; `rd` holds its locals), `verify` (one root key), `read`, `search`
(one `zb_step_tlv`; `find` holds offset and entry), `compare`, `info` (`zb_img_get_info`
has returned), `done`. What the header gives as size is read into a buffer of `TlvMax`
(`TLV_AREA_MAX_SIZE`) with nothing to bound it; more than fits leads to `overrun`, where a behaviour ends, as what the code
does then is undefined, or is refused by flash that is too short (`OverrunTlv`). `imgtool` writes areas of
less than 200 bytes, so the images fit (`InfoAssumption`). `fed` collects the cells that were hashed: a hash is known by them,
and a signature is good for the cells and the key it was made with. `Refuse` is a return
that leaves `is_valid` false. A job without check looks at either slot and also one sector
up, as `zb_get_img_swp_info` and `main` do.

### ZbAreas

`cnt` is the slot area at hand in `main`, `other` the stage of each area but area 0, which is
`ZbBoot`. The actions of `ZbBoot` take place when `cnt` is 0; a reset starts again with the last
area. In another area a swap is started, cut by a power failure, resumed and finished; a temporary
one is confirmed or taken back at the next boot. `Present` names the areas whose devices
exist: `zb_slt_area_get` fails for the rest, `rc` is overwritten by the next area. The image that
runs uses the other areas as the application of `ZbBoot` does its own (`UseArea`). `cnt # 0`
occurs only with `pc = "start"`; area 0 goes through all of `ZbBoot`.

## 3. Runs

| Run | States | Shows |
|---|---|---|
| `cmdlog` | 209 | the log is a register; four entries on two pages, two commands |
| `swap` | 24,031 | the engine, every pair of images, two power failures |
| `swap_resume` | | finding: a failure in P1 or P2 loses a sector |
| `swap_stat` | | finding: swpstat as sized in the documents is too small, and then the loop never ends |
| `boot` | 537,295 | the device, five images, one power failure, in the exchange too |
| `boot_twice` | 4,030,521 | the device with three slot areas, one of them missing, two images, two power failures |
| `boot_restore` | | finding: the restore does not check slot 1 |
| `boot_ram` | | finding: no key for an encrypted RAM image |
| `boot_refused` | | finding: a refused request confirms the image on trial |
| `stream` | 6,746 | the mover, 546 combinations of offset, size, form and use |
| `stream_offset` | | finding: image offsets that are no multiple of 16 |
| `info` | 25,336 | search, pieces, signature, size of the TLV area, checksum and check over seven images, whole, changed or cut short |

**Bounds.** In `cmdlog`, four entries on two pages give torn, valid and erased entries in
every order, and a cut erase that leaves a later page alone; the proofs are for any size. In `swap`, images
have 1, 2 and 3 sectors and fill a slot of 4 up to the reserved one, so either side of
the exchange can be the longer one, empty, or of one sector; all load addresses and
encryption occur. Two failures allow one in the recovery from the other; as every
failure leads back to the state the recorded command describes (`SwapInv`), more add
nothing, and the proofs need no bound. In `boot` the log budgets are no limit: `swpstat`
has room for a swap and the torn entries, and `slt0end`, which takes a new entry at
every boot while `slt1end` asks for permanence, has `EndEntries > MaxFails + 1` so that
a confirmation can always be recorded (the real area has about a thousand entries).
The number of uploads, commands and resets is not bounded. In `stream`, sectors of 16
bytes, chunks of 8, blocks of 4 and write blocks of 2 keep the divisibility of 4096,
512, 16 and 1 to 8; sizes up to 26 end at every place in a block, chunk and sector; the counter has digits
0 and 1 so that it carries up to its first digit.

In `info`, pieces and write blocks of 4 cells and image offsets 24 to 27 make an image begin at
every place of a block and end at every place of a piece; headers have 18 to 24 cells with and without a
key and with an entry of an unknown type in front, whose value looks like a type that is searched
for; one image fills slot 0 up to the reserved sector and one is a cell larger; versions
differ in each field, up to the largest value, and both slots may hold any of them; every single
cell is changed, and every cut is tried, between the magic and the size of a header and in front of both too. The buffer
for the TLV area is as large as the largest area of the images, not a cell larger. In `boot_twice` one other area that is there goes through all
stages, and one that is missing comes before it.

**Fairness.** `FairSpec` asks for weak fairness of the loader as a whole: it runs alone
with nothing to wait for, and power comes back after a failure. `ZbImgInfo` is one call of a
function, so its next step is always taken. Nothing is asked of the
application or of failures, whose number `MaxFails` bounds.

**Deadlock.** `swap`, `stream` and `info` stop when they are done, hence no check; `cmdlog`,
`boot` and `boot_twice` are checked for it.

**Slips.** Operators named `Slip...` are plausible mistakes in the definition that follows them.
Putting one in its place must violate the property `PROJECT.json` pairs it with, which
shows that the property depends on the code.

### Findings

1. *Resuming an exchange* (`zb_move.c:102-112`). For cmd3 = 0 the code looks one sector up in both slots;
   for cmd3 > 0 it takes the image in slot 1 for "to" and the one in slot 0 for "fr", which exchanges
   source and destination of the rest. `docs/design.md:124-128` promises that the step is restarted. What follows is
modelled in `ZbBoot`: phase 3 records the checksum of what slot 0 holds now, so `main` finds it valid.
2. *Size of swpstat* (`zb_move.c:301-304`). A classic swap writes `WritesNeeded` entries, up to 3n + 5,
   where the documents count 3n + 1 or 3n (`docs/design.md:199-206`); one more for each torn entry.
3. *Unchecked restore* (`zb_move.c:374-387`), against `docs/design.md:12-13`.
4. *RAM image key* (`zb_move.c:399-404`): `mcmd.key` is never set.
5. *Refused request* (`zb_move.c:362-372`), against `docs/usage.md:20-30`.
6. *Image offset* (`zb_move.c:436-444`, `scripts/imgtool/main.py:97-101`).

Seen and left as assumptions: cmd3 wraps beyond 255 sectors; slot 0 must not be larger
than slot 1; an empty slot 0 passes the checksum of no bytes; results of flash
operations are ignored during a swap; a failure between SWP_END and the first boot undoes a trial that
never ran; only the last command in slt1end counts, so 0x20 after 0x01 forgets the confirmation;
an image swapped into an empty slot 0 stays in slot 1 and, unless it is made permanent,
is exchanged with itself at the next boot; a header that is cut in front of its key entry reads, without the
check of its signature, as that of an image that is not encrypted (the key matters only where finding 1 strikes);
a header that is cut between its magic and its size has the TLV area read beyond the buffer for it when its signature is not
checked (`zb_tlv.c:36,50`; `TlvFits` says that no other header has), which takes a write block of at most
4 bytes, and either a copy that finding 1 strikes or an upload over an image that ran from slot 1, which `main` looks for
at the next boot; `ZbBoot` and
`ZbMove` take the look at a header to return; two areas upgraded on trial together can part when power fails between them, as each is
taken back or finished on its own.

## 4. Proofs

The theorems hold for every value of the constants that the named assumptions allow
(`LogAssumption`; `ImageAssumption`, `MarkersAssumption`, `MoveAssumption`, `SwapAssumption`;
`ContentsAssumption`, `BootAssumption`, `BootMarkersAssumption`; `AreasAssumption`; `InfoAssumption`;
`StreamAssumption`).
Where a theorem needs more than that, because the code does not keep its promise otherwise, it says so as a
hypothesis of its own, named below with the finding behind it.

*The log.* `ReadsLast` alone is not inductive: after a cut erase a write in front of a surviving entry
would bring it to life. `LogInv` adds that clean areas are filled from the front
(`FilledFromFront`), that survivors of a cut erase have no gap before them (`Survivors`), that the last
surviving command is the last written (`LastEntry`), and that it is there in a clean
area (`Kept`). `LogInvariant` proves `[]LogInv`; from it follow `LogTypeCorrect`, `LogFilledFromFront`,
`LogReadsLast`, the action property `LogProgramsOnce`, and `LogImplementsRegister`, the refinement
`Spec => RegSpec`.

*The engine.* `TypeCorrect` holds with failures anywhere. Everything else assumes
`~FailAnywhere`, that is, no failure where finding 1 strikes. `SwapInv` says what both slots hold
for each command that may be the last one in swpstat (`Layout`), leaving open the sector that the
command writes, so that it stays true while the step is carried out, cut off and repeated; at `log` it holds for the next
command too. `CmdMatches`, `InfoMatches`, `LogMatches` and `Bounds` tie the locals, the cached image
information, the entries used and the sector numbers to it. From `SwapInvariant`
follow `NothingLost`, `ExchangeComplete`, `LogIsEnough` and `Progress`: any size of images and slots, any number
of failures.

*The engine and its users* (`ZbMoveSwapProofs`). What main and `zb_img_swap` rely on needs two facts
that `SwapInv` leaves out. One is that what a swap has no business with stays put: slot 0 in an in place
swap, slot 1 when there was nothing in slot 0 to exchange it for (`StaysPut`). The other is that phase 3 writes its
sector in two operations, the parameters and then the command, which a failure may separate (`HalfRecorded`,
`Recorded`), with the flags that the request was given (`FlagsMatch`). `PrmInvariant` proves
them; `PrmIsTrue` follows, and `SwapRefines`: every step of the sector by sector swap is the
one step of `ZbSwap` that exchanges the slots, or a stutter (`Spec => SwapIsAtomic`).

*The device.* `PrmOfSlot0` is not inductive: whether the parameters may be trusted depends on what swpstat
says, and a cut erase of swpstat can lose its last command and bring it back. `BootInv` therefore says that such a
command can only be one that ended a swap (`StatInv`), what swpstat and slt0end hold at each place of the
loader (`PcInv`), and that the parameters describe slot 0 except from the exchange to the end of
phase 3 (`PrmInv`). `BootInvariant` proves it for any images, log sizes and number of power failures, for a
careless application too; from it follow `BootTypeCorrect`, `ParametersMatch` and `LogsUsedWell`,
which is what `ZbCmdLog` asks of its users.

*The device, what it boots* (`ZbBootSafety`). `SafeInv` adds which image each slot holds and in which form
(`SlotInv`), which one a swap under way was checked for (`SwapInv`), and what there is to go back to when none
is (`RestInv`). `SafetyInvariant` proves `~mixed => SafeInv`, failures in the exchange included; from it follow `WholeIsBooted`, `ImageIsLeft` and `NoOlderIsBooted`.
`TrialInv` says where the old and the new image of a temporary swap are for each command that swpstat may
hold, including those a cut erase brings back; `TrialsEnd` follows. The hypotheses are the findings
turned round, finding 1 first:

- `~mixed`, in the properties themselves: no exchange went on with the wrong headers so far. The
  code does nothing to keep this up after a failure in P1 or P2 (finding 1), so nothing is
  proved about what such a device boots;
- `Respectful`: the application does not upload over a slot 1 that a restore will need (finding 3), nor ask
  for slot 0 to be booted when that is empty (the checksum of no bytes, see below the findings);
- `RamUnencrypted`: no encrypted image is to be run from RAM (finding 4);
- `RoomForExchange`: swpstat has room for START, the record that ends the exchange, and one more for each failure, torn or P1 (compare finding 2; the
  exchange is one record here);
- for `TrialsEnd` also `Careless = {}` (finding 5) and `RoomForPermanent`: slt0end has room for the confirmation.

The instances of `boot` and `boot_twice` satisfy the rest of them, and reach `mixed`; `boot_restore`, `boot_ram` and `boot_refused` each
drop one and find the violation, so none is idle.

*Slot areas.* `AreasInv` says that the areas that `main` is done with since the reset are settled. From it
follows `BootsSettled`; `AreasImplementBoot` shows that every step is one of `ZbBoot` or leaves
area 0 alone, so that its theorems hold for area 0 of several (`AreasTypeCorrect` uses one).

*The image check.* None of the properties of `ZbImgInfo`, which speak of the end, is inductive: `IInv` of
`ZbImgInfoProofs` says what is known on the way. Flash does not change, and a call without the check looks at cells that were
written whole or up to some cell, the first one included (`FlashInv`). While pieces are read, `fed` is a front part of the cells to be hashed
and what is left to read is the rest, whatever the write block the first piece begins in (`DigestInv`). The
copy of the TLV area is what was verified, and a size that does not fit the buffer for it was neither signed nor written (`TlvInv`). A search stands on an entry that is not behind
the one it looks for, so that it never runs into the cells of a value or past the end (`FindInv`); what was
found is what the image says (`InfoInv`); a proper image has not been refused so far (`CompleteInv`); and a
result stands for all of these (`RetInv`). From `InfoInvariant` follow `InfoTypeCorrect`, `OnlyWholePass`,
`RefusedForVersion`, `InfoIsOfImage`, `TlvIsBounded` and `CrcIsOfImage`, for headers, images, pieces, write blocks and slots of any
size. The lemmas underneath say which cell of a header or TLV area is what (`ZbHeader`), and that the comparison
of versions packed into 32 bits is that of their fields.

*The mover* (`ZbStreamProofs`). That no byte is wrong so far (`NoWrongByte`) says nothing of the next one: `IInv`
adds how the locals of a call agree with each other and that every chunk but the last ends where a block of
the cipher does (`CallInv`); that the counter, while it is counted up and after each chunk, is the number of
the block that comes next, counted from the first byte of the image (`CounterInv`); and that
everything in front of the chunk under way has been moved (`OutInv`). `StreamInvariant` proves it for any sizes of image, sector,
cipher block, write block, buffer and counter; from it follow `StreamTypeCorrect`, `BytesAreRight` and `ImageIsMoved`.
The hypothesis `StartsAligned` (images begin at a multiple of the cipher block) is finding 6 turned
round: `stream` satisfies it and `stream_offset` drops it.

The counter is the heart of it. `imgtool` uses the digits of the number of a block, the bootloader adds one to an
array of bytes with a carry, and that both agree for every number (`AdvancedCounts`) is an induction. The
induction theorems of the library take an operator, which the provers cannot instantiate; here it is done with sets, in
first-order logic: a nonempty set of numbers has a least one, as `<` is well founded on them (`LeastNumber`), so a set that
has 0 and with each number the next one has them all (`EveryNumber`). Quotient and remainder by sizes
that are parameters, and that the recursive functions `Weight` and `Advanced` are what their equations say,
are proved the same way.

*Bounded work.* The half of liveness that is a matter of the code and not of scheduling is that no loop can go round
for ever. Four theorems give a measure that every step makes smaller:

- `MoveIsBounded`: the steps left of a move are a natural number, and each step makes it smaller (`MoveEnds`);
- `InfoIsBounded`: each step of the image check goes to a later place, or leaves fewer cells or keys to the
  loop at this place, an entry of any length included (`InfoEnds`);
- `SwapIsBounded`: each step of a swap is a failure, records the next command, or comes nearer to the next
  record; and the loop stops only with SWP_END recorded (`SwapEnds`). Hypotheses: `~FailAnywhere` and `AreaSuffices`,
  finding 2 turned round, which `swap` satisfies and `swap_stat` drops;
- `BootIsBounded`: from power on until something is booted, or nothing is found to boot, each step of the
  loader is a failure or comes nearer, by at least one of 17 steps (`ComesUp`). Hypothesis: `RoomForSwap`, room in swpstat for the
  four records of a swap and one torn entry per failure, which `boot` and `boot_twice` satisfy. `StatUsed` says that no more is used.

*Only model-checked.* Liveness itself (`SwapEnds`, `ComesUp`, `MoveEnds`, `InfoEnds`): the prover does not reach
fairness and ENABLED, that is, that a next step can be taken and is. All other properties that the passing
runs check are theorems.

## 5. Not modelled

The arithmetic of hashes, signatures, key agreement and AES rounds (a hash is known by what went
into it, a signature by its key, checksums are injective, a cipher with the right counter and key
inverts itself); read errors, write protection and the Zephyr flash drivers beyond alignment; the swap inside
a slot area other than 0, step by step (it is the same code as in area 0); the build field of a
version, which `zb_img_conv_version_u32` drops; the type of an image, which is read and not used;
key files and the command line of imgtool; the unit tests.

## 6. Plan

1. *(done)* log, engine, mover, device, their refinements, the proofs above.
2. *(done)* `ZbImgInfo`: TLV area, search, pieces, check. `ZbAreas`: several slot areas.
3. *(done)* Proofs: types, `FilledFromFront` and `ProgramOnce` of the log; `PrmDescribesSlots` and `SwapIsAtomic` of
   the engine; `BootsWhole`, `NeverHalts`, `NeverOlder` and `TrialEnds` of the device; all invariants of `ZbImgInfo`.
4. *(done)* Proofs: all invariants of `ZbStream`; bounded work of the swap, the device, the image check and the mover.
