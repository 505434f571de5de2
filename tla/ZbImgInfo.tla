----------------------------- MODULE ZbImgInfo ------------------------------
(***************************************************************************)
(* What the bootloader learns about an image from flash: zb_img_get_info   *)
(* with zb_open_tlv_area, zb_step_tlv, zb_sign_verify, zb_hash_flash and   *)
(* zb_get_encr_key, and what is done with it: zb_img_check, which decides  *)
(* whether a new image in slot 1 may be swapped in, or zb_img_calc_crc32,  *)
(* the checksum that is recorded with a swap and compared before a boot.   *)
(*                                                                         *)
(* A hash is known by the cells it was computed over, so two are equal     *)
(* when these are; a signature is good when it was made with that key over *)
(* these cells.                                                            *)
(***************************************************************************)
EXTENDS ZbHeader

CONSTANTS
  HashBuffer,   \* HASH_FLASH_BUFFER_BYTES (256)
  TlvMax,       \* TLV_AREA_MAX_SIZE, the size of tlv[] in zb_img_get_info
  WriteBlock,   \* flash_get_write_block_size
  SectorSize,
  SlotStart,    \* SlotStart[s], SlotSize[s]: offset and size of slot s
  SlotSize,
  RootKeys,     \* the sequence ec256_root_pub_key
  Images,       \* what imgtool was given
  Prms,         \* versions in zb_prm: Prms[n][s] for slot s
  NoPrm         \* no parameters (-ENOENT)

VARIABLES
  job,     \* which image, where, what for
  flash,   \* the cells that the image covers
  pc,
  rd,      \* locals of zb_hash_flash and zb_crc32_flash, and who waits
  fed,     \* auxiliary: the cells that were hashed
  nkey,    \* cnt in zb_sign_verify
  tlv,     \* the TLV area in RAM
  find,    \* locals of the search: offset, entry and wanted type
  info,    \* zb_img_info
  ret      \* result of zb_img_check

vars == <<job, flash, pc, rd, fed, nkey, tlv, find, info, ret>>

Slot == {0, 1}

(* img_ver: major and minor are u8_t, the revision is a u16_t. *)
Versions ==
  {v \in Seq(Nat) : Len(v) = 3 /\ v[1] <= 255 /\ v[2] <= 255 /\ v[3] <= 65535}

ImageInfos ==
  [offset : Nat, size : Nat \ {0}, load : Nat, version : Versions,
   key : BOOLEAN, other : BOOLEAN, signer : Nat]

ASSUME InfoAssumption ==
  /\ {HashBuffer, WriteBlock, SectorSize} \subseteq Nat \ {0}
  /\ HashBuffer >= WriteBlock
  /\ SlotStart \in [Slot -> Nat] /\ SlotSize \in [Slot -> Nat]
  /\ \A s \in Slot : SlotStart[s] % WriteBlock = 0
  /\ Images \subseteq ImageInfos
  /\ \A i \in Images : Len(Header(i)) <= i.offset
  /\ TlvMax \in Nat /\ HdrSize + TlvMax < Erased
  /\ \A i \in Images : Len(TlvBytes(i)) <= TlvMax
  /\ Prms \subseteq [Slot -> Versions]
  /\ RootKeys \in Seq(Nat)

Keep(vs) == UNCHANGED <<job, flash, vs>>

-----------------------------------------------------------------------------
(* zb_flash.c *)

HdrAt == SlotStart[job.slt] + job.eoff

(* Around the image flash is erased. *)
Read(a) ==
  IF a >= HdrAt /\ a - HdrAt < Len(flash) THEN flash[a - HdrAt + 1] ELSE Erased

ReadCells(a, n) == [k \in 1 .. n |-> Read(a + k - 1)]

(* zb_flash_align_offset, zb_in_slt_area *)
AlignOffset(a) == a - (a % WriteBlock)
InSlot(s, a) == a >= SlotStart[s] /\ a < SlotStart[s] + SlotSize[s]

-----------------------------------------------------------------------------
(* zb_ec256.c: flash is read in pieces that begin at a write block. *)

Digest(a, len, next) ==
  /\ rd' = [at |-> AlignOffset(a), left |-> len + a - AlignOffset(a),
            jump |-> a - AlignOffset(a), next |-> next]
  /\ fed' = <<>>
  /\ pc' = "piece"

PieceLen == IF rd.left < HashBuffer THEN rd.left ELSE HashBuffer

(* Slip: what was skipped at the start is skipped in every piece. *)
SlipReadPiece ==
  /\ pc = "piece" /\ rd.left > 0
  /\ fed' = fed \o ReadCells(rd.at + rd.jump, PieceLen - rd.jump)
  /\ rd' = [rd EXCEPT !.at = @ + PieceLen, !.left = @ - PieceLen]
  /\ Keep(<<pc, nkey, tlv, find, info, ret>>)

ReadPiece ==
  /\ pc = "piece" /\ rd.left > 0
  /\ fed' = fed \o ReadCells(rd.at + rd.jump, PieceLen - rd.jump)
  /\ rd' = [rd EXCEPT !.at = @ + PieceLen, !.left = @ - PieceLen, !.jump = 0]
  /\ Keep(<<pc, nkey, tlv, find, info, ret>>)

PiecesRead ==
  /\ pc = "piece" /\ rd.left = 0
  /\ pc' = rd.next
  /\ Keep(<<rd, fed, nkey, tlv, find, info, ret>>)

(* uECC_verify with one of the root keys. *)
Genuine(k, cells, signature) ==
  RootKeys[k] = job.img.signer /\ cells = TlvBytes(job.img) /\ signature = Signature(RootKeys[k])

(* Slip: only the first key is tried. *)
SlipNextKey ==
  /\ pc = "verify" /\ nkey <= Len(RootKeys)
  /\ ~Genuine(nkey, fed, Read(HdrAt + 3))
  /\ nkey' = Len(RootKeys) + 1
  /\ Keep(<<pc, rd, fed, tlv, find, info, ret>>)

NextKey ==
  /\ pc = "verify" /\ nkey <= Len(RootKeys)
  /\ ~Genuine(nkey, fed, Read(HdrAt + 3))
  /\ nkey' = nkey + 1
  /\ Keep(<<pc, rd, fed, tlv, find, info, ret>>)

VerifyKey ==
  /\ pc = "verify" /\ nkey <= Len(RootKeys)
  /\ Genuine(nkey, fed, Read(HdrAt + 3))
  /\ pc' = "read"
  /\ Keep(<<rd, fed, nkey, tlv, find, info, ret>>)

Refuse == pc' = "info" /\ Keep(<<rd, fed, nkey, tlv, find, info, ret>>)

NoKeyLeft == pc = "verify" /\ nkey > Len(RootKeys) /\ Refuse

-----------------------------------------------------------------------------
(* zb_tlv.c *)

(* A size smaller than the header itself wraps, and the read fails.         *)
GoodHeader == Read(HdrAt) = TLV_AREA_MAGIC /\ Read(HdrAt + 1) >= HdrSize

TlvSize == Read(HdrAt + 1) - HdrSize

NoMagic == pc = "open" /\ ~GoodHeader /\ Refuse

(* Slip: the area is read before its signature is verified. *)
SlipOpenSigned ==
  /\ pc = "open" /\ GoodHeader /\ job.check
  /\ pc' = "read"
  /\ Keep(<<rd, fed, nkey, tlv, find, info, ret>>)

OpenSigned ==
  /\ pc = "open" /\ GoodHeader /\ job.check
  /\ Digest(HdrAt + HdrSize, TlvSize, "verify")
  /\ Keep(<<nkey, tlv, find, info, ret>>)

OpenUnsigned ==
  /\ pc = "open" /\ GoodHeader /\ ~job.check
  /\ pc' = "read"
  /\ Keep(<<rd, fed, nkey, tlv, find, info, ret>>)

SearchFor(type) ==
  /\ find' = [want |-> type, off |-> 0, type |-> 0, length |-> 0, value |-> 0]
  /\ pc' = "search"

(* The size in the header is all that bounds what is read into tlv. *)
ReadTlv ==
  /\ pc = "read" /\ TlvSize <= TlvMax
  /\ tlv' = ReadCells(HdrAt + HdrSize, TlvSize)
  /\ SearchFor(TLVE_IMAGE_TYPE)
  /\ Keep(<<rd, fed, nkey, info, ret>>)

(* Flash that is too short for the read refuses it; else what lies behind   *)
(* tlv is overwritten, and nothing is known of what follows.                *)
OverrunTlv ==
  /\ pc = "read" /\ TlvSize > TlvMax
  /\ \/ Refuse
     \/ pc' = "overrun" /\ Keep(<<rd, fed, nkey, tlv, find, info, ret>>)

Searching == find.type # find.want /\ find.off < Len(tlv)

(* Slip: the length is taken for that of the whole entry. *)
SlipStepTlv ==
  /\ pc = "search" /\ Searching
  /\ find' = [find EXCEPT !.type = tlv[find.off + 1], !.length = tlv[find.off + 2],
                          !.value = find.off + 2, !.off = @ + tlv[find.off + 2]]
  /\ Keep(<<pc, rd, fed, nkey, tlv, info, ret>>)

(* zb_step_tlv *)
StepTlv ==
  /\ pc = "search" /\ Searching
  /\ find' = [find EXCEPT !.type = tlv[find.off + 1], !.length = tlv[find.off + 2],
                          !.value = find.off + 2, !.off = @ + tlv[find.off + 2] + 2]
  /\ Keep(<<pc, rd, fed, nkey, tlv, info, ret>>)

-----------------------------------------------------------------------------
(* zb_img_get_info *)

LengthOf(type) == IF type = TLVE_IMAGE_INFO THEN Len(InfoValue(job.img)) ELSE 1

(* The loop has ended with the entry, or at the end of the area. *)
Found(type) ==
  /\ pc = "search" /\ ~Searching /\ find.want = type
  /\ find.type = type /\ find.length = LengthOf(type)

NotFound(type) ==
  /\ pc = "search" /\ ~Searching /\ find.want = type
  /\ ~(find.type = type /\ find.length = LengthOf(type))

Value(n) == tlv[find.value + n]

MissingEntry ==
  /\ \E type \in {TLVE_IMAGE_TYPE, TLVE_IMAGE_INFO, TLVE_IMAGE_HASH} : NotFound(type)
  /\ Refuse

TakeType ==
  /\ Found(TLVE_IMAGE_TYPE)
  /\ SearchFor(TLVE_IMAGE_INFO)
  /\ Keep(<<rd, fed, nkey, tlv, info, ret>>)

(* Slip: the place of the header is taken for the start of the slot. *)
SlipTakeInfo ==
  /\ Found(TLVE_IMAGE_INFO)
  /\ info' = [info EXCEPT !.start = HdrAt + Value(1), !.end = HdrAt + Value(1) + Value(2),
                          !.load = Value(3), !.version = <<Value(4), Value(5), Value(6)>>]
  /\ SearchFor(TLVE_IMAGE_HASH)
  /\ Keep(<<rd, fed, nkey, tlv, ret>>)

TakeInfo ==
  /\ Found(TLVE_IMAGE_INFO)
  /\ LET start == SlotStart[job.slt] + Value(1) IN
     info' = [info EXCEPT !.start = start, !.end = start + Value(2),
                          !.load = Value(3), !.version = <<Value(4), Value(5), Value(6)>>]
  /\ SearchFor(TLVE_IMAGE_HASH)
  /\ Keep(<<rd, fed, nkey, tlv, ret>>)

TakeHash ==
  /\ Found(TLVE_IMAGE_HASH)
  /\ IF job.check
     THEN /\ Digest(info.start + job.eoff, info.end - info.start, "compare")
          /\ UNCHANGED find
     ELSE SearchFor(TLVE_IMAGE_EPUBKEY) /\ UNCHANGED <<rd, fed>>
  /\ Keep(<<nkey, tlv, info, ret>>)

SameHash == fed = Body(job.img) /\ Value(1) = HashCell

HashMatches ==
  /\ pc = "compare" /\ SameHash
  /\ SearchFor(TLVE_IMAGE_EPUBKEY)
  /\ Keep(<<rd, fed, nkey, tlv, info, ret>>)

HashDiffers == pc = "compare" /\ ~SameHash /\ Refuse

(* An image without the entry is not encrypted. *)
NoKeyEntry ==
  /\ NotFound(TLVE_IMAGE_EPUBKEY)
  /\ info' = [info EXCEPT !.encstart = info.end, !.valid = TRUE]
  /\ pc' = "info"
  /\ Keep(<<rd, fed, nkey, tlv, find, ret>>)

(* zb_get_encr_key; what is no point of the curve is no public key. *)
TakeKey ==
  /\ Found(TLVE_IMAGE_EPUBKEY) /\ Value(1) = PubKeyCell
  /\ info' = [info EXCEPT !.encstart = info.start, !.valid = TRUE]
  /\ pc' = "info"
  /\ Keep(<<rd, fed, nkey, tlv, find, ret>>)

BadKey == Found(TLVE_IMAGE_EPUBKEY) /\ Value(1) # PubKeyCell /\ Refuse

-----------------------------------------------------------------------------
(* zb_img_check *)

(* zb_img_conv_version_u32: major << 24 | minor << 16 | revision *)
VersionU32(v) == v[1] * 16777216 + v[2] * 65536 + v[3]

(* Slip: the room that the move up takes is forgotten. *)
SlipRoom(size, s) == size <= SlotSize[s]

Room(size, s) == size + SectorSize <= SlotSize[s]

(* Slip: the parts of a version are added without being shifted. *)
SlipNotOlder(s) ==
  job.prm # NoPrm => info.version[1] + info.version[2] + info.version[3]
                       >= job.prm[s][1] + job.prm[s][2] + job.prm[s][3]

NotOlder(s) == job.prm # NoPrm => VersionU32(info.version) >= VersionU32(job.prm[s])

ImgCheck ==
  /\ pc = "info" /\ job.check
  /\ LET s == IF InSlot(1, info.load) THEN 1 ELSE 0 IN
     ret' = [slt |-> s, ok |-> /\ info.valid
                               /\ Room(info.end - SlotStart[job.slt], s)
                               /\ NotOlder(s)]
  /\ pc' = "done"
  /\ Keep(<<rd, fed, nkey, tlv, find, info>>)

(* zb_img_calc_crc32, as phase 3 and main call it, whatever was found.      *)
CalcCrc32 ==
  /\ pc = "info" /\ ~job.check /\ job.eoff = 0
  /\ Digest(info.start, info.end - info.start, "done")
  /\ Keep(<<nkey, tlv, find, info, ret>>)

(* zb_get_img_swp_info takes no checksum. *)
NoCrc32 ==
  /\ pc = "info" /\ ~job.check /\ job.eoff # 0
  /\ pc' = "done"
  /\ Keep(<<rd, fed, nkey, tlv, find, info, ret>>)

-----------------------------------------------------------------------------
(* A new image in slot 1 may be anything that an upload or worn flash can   *)
(* leave.  Without a check of the signature an image is looked at in either *)
(* slot, one sector up as well, whole or not completely copied.             *)
Checks == [img : Images, check : {TRUE}, slt : {1}, eoff : {0}, prm : Prms \cup {NoPrm}]
Looks == [img : Images, check : {FALSE}, slt : Slot, eoff : {0, SectorSize}, prm : {NoPrm}]

Init ==
  /\ job \in Checks \cup Looks
  /\ LET s == Shipped(job.img) IN
     \/ flash = s
     \/ flash \in CutShort(s) /\ job.prm = NoPrm
     \/ flash \in OneCell(s) /\ job.check /\ job.prm = NoPrm
  /\ pc = "open"
  /\ rd = [at |-> 0, left |-> 0, jump |-> 0, next |-> "done"]
  /\ fed = <<>> /\ nkey = 1 /\ tlv = <<>>
  /\ find = [want |-> 0, off |-> 0, type |-> 0, length |-> 0, value |-> 0]
  /\ LET h == SlotStart[job.slt] IN
     info = [start |-> h, encstart |-> h, end |-> h, load |-> h, version |-> <<0, 0, 0>>,
             valid |-> FALSE]
  /\ ret = [slt |-> 0, ok |-> FALSE]

Next ==
  \/ NoMagic \/ OpenSigned \/ OpenUnsigned \/ ReadPiece \/ PiecesRead
  \/ VerifyKey \/ NextKey \/ NoKeyLeft \/ ReadTlv \/ OverrunTlv \/ StepTlv
  \/ MissingEntry \/ TakeType \/ TakeInfo \/ TakeHash \/ HashMatches \/ HashDiffers
  \/ NoKeyEntry \/ TakeKey \/ BadKey
  \/ ImgCheck \/ CalcCrc32 \/ NoCrc32

Spec == Init /\ [][Next]_vars

(* Nothing else runs. *)
FairSpec == Spec /\ WF_vars(Next)

-----------------------------------------------------------------------------
(* Properties *)

TypeOK ==
  /\ job \in Checks \cup Looks
  /\ pc \in {"open", "piece", "verify", "read", "overrun", "search", "compare", "info", "done"}
  /\ {rd.at, rd.left, rd.jump} \subseteq Nat /\ rd.jump <= PieceLen
  /\ nkey \in 1 .. Len(RootKeys) + 1
  /\ info.valid \in BOOLEAN /\ {info.start, info.encstart, info.end} \subseteq Nat
  /\ ret.slt \in Slot /\ ret.ok \in BOOLEAN

InRoot(k) == \E n \in 1 .. Len(RootKeys) : RootKeys[n] = k

(* zb_img_check lets nothing pass that differs in a single cell from what   *)
(* was signed with a root key, wherever the pieces end in which flash is    *)
(* read, or that would overwrite the last sector of its slot.               *)
OnlyWhole ==
  pc = "done" /\ ret.ok =>
    /\ Whole(flash, job.img) /\ InRoot(job.img.signer)
    /\ ret.slt = (IF InSlot(1, job.img.load) THEN 1 ELSE 0)
    /\ job.img.offset + job.img.size <= SlotSize[ret.slt] - SectorSize

(* v is older than w: major, minor and revision in this order. *)
Older(v, w) ==
  \E n \in 1 .. 3 : v[n] < w[n] /\ \A m \in 1 .. n - 1 : v[m] = w[m]

(* A whole image that fits and is signed with any of the root keys is       *)
(* refused only for its version, and always for that: comparing the         *)
(* versions as one number keeps their order.                                *)
RefusesOlder ==
  pc = "done" /\ job.check /\ Whole(flash, job.img) /\ InRoot(job.img.signer) =>
    LET s == IF InSlot(1, job.img.load) THEN 1 ELSE 0 IN
    job.img.offset + job.img.size + SectorSize <= SlotSize[s] =>
      ret.ok = ~(job.prm # NoPrm /\ Older(job.img.version, job.prm[s]))

(* Where the header lies one sector up or was copied in part only, an image *)
(* that is found has the place, size, load address and version it was given *)
(* by imgtool, relative to its slot; that it is encrypted is missed only    *)
(* where the copy ended in front of its key.                                *)
InfoOfImage ==
  info.valid =>
    LET h == SlotStart[job.slt] IN
    /\ info.start = h + job.img.offset /\ info.end = info.start + job.img.size
    /\ info.load = job.img.load /\ info.version = job.img.version
    /\ info.encstart = (IF job.img.key /\ flash[Len(Header(job.img))] = PubKeyCell
                        THEN info.start ELSE info.end)

(* The checksum that is recorded and compared covers the same cells as the  *)
(* hash in the header, no more and no fewer; without a header, none.        *)
CrcCoversImage ==
  pc = "done" /\ ~job.check /\ job.eoff = 0 =>
    /\ info.valid => fed = [k \in 1 .. job.img.size |-> flash[job.img.offset + k]]
    /\ info.end = info.start => fed = <<>>

(* No header gets more into the buffer for the TLV area than it holds when  *)
(* its signature is asked for, whatever size it gives, and without that     *)
(* only one of which the copy ended between the magic and the size.         *)
TlvFits == pc = "overrun" => ~job.check /\ flash[2] = Erased

(* Neither the search nor a loop over pieces runs for ever. *)
InfoEnds == <>(pc \in {"done", "overrun"})
=============================================================================
