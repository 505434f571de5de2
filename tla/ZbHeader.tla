------------------------------ MODULE ZbHeader ------------------------------
(***************************************************************************)
(* An image as imgtool writes it (scripts/imgtool/image.py), cell by cell: *)
(* a header of fixed layout, the TLV area behind it, padding up to the     *)
(* image offset, and the image.  A field of several bytes is one cell, so  *)
(* lengths are smaller than in the code, in the same order.                *)
(***************************************************************************)
EXTENDS Naturals, Sequences

Erased == 255                \* EMPTY_U8
TLV_AREA_MAGIC == 84

(* sizeof(tlv_area_hdr): magic, size, type and signature type, signature.   *)
HdrSize == 4

TLVE_IMAGE_TYPE == 16
TLVE_IMAGE_INFO == 32
TLVE_IMAGE_HASH == 48
TLVE_IMAGE_EPUBKEY == 64
TLVE_OTHER == 80             \* a type that this loader does not know

(* Cells that stand for what cryptography computes: the hash over the      *)
(* image, the public key that it was encrypted with, and the signature with *)
(* root key k over the TLV area.                                            *)
HashCell == 201
PubKeyCell == 203
Signature(k) == 210 + k

Entry(type, value) == <<type, Len(value)>> \o value

InfoValue(i) == <<i.offset, i.size, i.load>> \o i.version

(* add_header.  An entry of another type may come first; its value looks    *)
(* like the type of the entry that is looked for.                           *)
TlvBytes(i) ==
  (IF i.other THEN Entry(TLVE_OTHER, <<TLVE_IMAGE_INFO>>) ELSE <<>>)
  \o Entry(TLVE_IMAGE_TYPE, <<0>>)
  \o Entry(TLVE_IMAGE_INFO, InfoValue(i))
  \o Entry(TLVE_IMAGE_HASH, <<HashCell>>)
  \o (IF i.key THEN Entry(TLVE_IMAGE_EPUBKEY, <<PubKeyCell>>) ELSE <<>>)

Header(i) ==
  <<TLV_AREA_MAGIC, HdrSize + Len(TlvBytes(i)), 0, Signature(i.signer)>> \o TlvBytes(i)

(* The payload, encrypted or not. *)
Body(i) == [k \in 1 .. i.size |-> 100 + k]

Shipped(i) ==
  Header(i) \o [k \in 1 .. i.offset - Len(Header(i)) |-> Erased] \o Body(i)

(* The cells that a check has to look at: all but the types in the header,  *)
(* which nobody reads, and the padding.                                     *)
Covered(i) == (1 .. Len(Header(i)) \ {3}) \cup (i.offset + 1 .. i.offset + i.size)

(* c is in flash what imgtool made of i. *)
Whole(c, i) == \A k \in Covered(i) : c[k] = Shipped(i)[k]

(* What a copy of s in flash may have become: it is as it was, or one cell  *)
(* differs, or it was written up to cell k only, the rest being erased: the *)
(* magic and the size behind it are fields of their own, and a copy may end *)
(* between them.  A field written in part counts as not written.            *)
OneCell(s) == {[s EXCEPT ![k] = v] : k \in 1 .. Len(s), v \in {0, Erased}}
CutShort(s) == {[n \in 1 .. Len(s) |-> IF n < k THEN s[n] ELSE Erased] : k \in 1 .. Len(s)}
=============================================================================
