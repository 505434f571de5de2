------------------------------ MODULE ZbImage -------------------------------
(***************************************************************************)
(* Images, and the flash sectors that hold them (zb_image.c, zb_flash.h).  *)
(*                                                                         *)
(* A slot is a function from sector numbers to sector contents.  A sector  *)
(* of an image is known by the image, its position in the image and its    *)
(* form: "plain", "cipher" (as AES-CTR left it), or "torn" (the sector     *)
(* that starts the image, of which only the header was programmed before   *)
(* the power failed).  Sector 0 of an image holds its header, which is     *)
(* never encrypted and survives a torn copy.                               *)
(*                                                                         *)
(* The last sector of each slot (slt0end, slt1end) holds parameters and    *)
(* commands when it holds no image data.                                   *)
(***************************************************************************)
EXTENDS Naturals

CONSTANTS
  Image,         \* the images that occur
  NoImage,
  Erased,        \* a sector of 0xff
  Garbage,       \* a sector nothing can be read from
  Sectors,       \* Sectors[i]: number of sectors image i occupies
  Encrypted,     \* images whose header carries a TLVE_IMAGE_EPUBKEY
  LoadAt,        \* LoadAt[i]: region of the load address of image i
  SlotSectors    \* SlotSectors[s]: number of sectors of slot s

Slot == {0, 1}

Regions == {"slot0", "slot1", "ram"}

ASSUME ImageAssumption ==
  /\ Sectors \in [Image -> Nat \ {0}]
  /\ LoadAt \in [Image -> Regions]
  /\ Encrypted \subseteq Image
  /\ SlotSectors \in [Slot -> Nat \ {0, 1}]
  /\ SlotSectors[0] <= SlotSectors[1]
  /\ NoImage \notin Image
  /\ Erased # Garbage

Forms == {"plain", "cipher", "torn"}

DataSectors == [img : Image, sec : Nat, form : Forms]

ASSUME MarkersAssumption == {Erased, Garbage} \cap DataSectors = {}

Data(i, k, f) == [img |-> i, sec |-> k, form |-> f]

(* The sector used for parameters and commands: slt0end, slt1end. *)
End(s) == SlotSectors[s] - 1

(* How an image is distributed, and how it is kept in slot 0: images that  *)
(* run from RAM stay encrypted.                                            *)
ShippedForm(i) == IF i \in Encrypted THEN "cipher" ELSE "plain"

RunsFromRam(i) == i # NoImage /\ LoadAt[i] = "ram"

InstalledForm(i) ==
  IF i \in Encrypted /\ RunsFromRam(i) THEN "cipher" ELSE "plain"

Least(a, b) == IF a <= b THEN a ELSE b

Size(i) == IF i = NoImage THEN 0 ELSE Sectors[i]

(* An image fits when one sector is left: img_size + SECTOR_SIZE. *)
Fits(i, s) == Sectors[i] < SlotSectors[s]

(* Slot contents sl hold image i completely, in form f. *)
Holds(sl, i, f) == \A k \in 0 .. Sectors[i] - 1 : sl[k] = Data(i, k, f)

(* zb_open_tlv_area finds its magic and the entries parse. *)
HasHeader(c) == c \in DataSectors /\ c.sec = 0

(* zb_img_get_info without signature check: what the header at sector eoff *)
(* of slot s says.  n is end - hdr_start in sectors; enc says that the     *)
(* body is to be passed through the cipher (enc_start < end).              *)
ImgInfo(fl, s, eoff) ==
  LET h == fl[s][eoff] IN
  IF HasHeader(h)
    THEN [slot |-> s, valid |-> TRUE, img |-> h.img, n |-> Sectors[h.img],
          enc |-> h.img \in Encrypted]
    ELSE [slot |-> s, valid |-> FALSE, img |-> NoImage, n |-> 0, enc |-> FALSE]

(* info.load_address; without a header it is the start of the slot. *)
LoadAddress(info) ==
  IF info.valid THEN LoadAt[info.img]
  ELSE IF info.slot = 0 THEN "slot0" ELSE "slot1"

(* zb_img_calc_crc32: a checksum over what the slot holds where the header *)
(* says the image is, taken to be injective.                               *)
Crc(fl, info) == [k \in 0 .. info.n - 1 |-> fl[info.slot][k]]

(* One sector through zb_img_move, at position k of the image described by *)
(* info.  AES-CTR with the key of that image and the counter of that       *)
(* position maps plain to cipher and back; applied to anything else it     *)
(* spoils the body and leaves a header sector its header.                  *)
Moved(info, k, c) ==
  IF ~info.enc THEN c
  ELSE IF c \notin DataSectors THEN Garbage
  ELSE IF c.sec # k \/ (c.img # info.img /\ k # 0) THEN Garbage
  ELSE IF c.img # info.img \/ c.form = "torn" THEN
         IF k = 0 THEN Data(c.img, 0, "torn") ELSE Garbage
  ELSE Data(c.img, k, IF c.form = "plain" THEN "cipher" ELSE "plain")

(* What a sector can hold when power failed while c was programmed. *)
TornProgram(c) ==
  {Garbage} \cup {Data(d.img, 0, "torn") : d \in {e \in {c} : HasHeader(e)}}
=============================================================================
