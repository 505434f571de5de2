----------------------------- MODULE ZbContents -----------------------------
(***************************************************************************)
(* What a slot holds, seen as a whole: no image (no header), or an image   *)
(* that is "plain", as it executes, "cipher", as it was encrypted for      *)
(* distribution, or "spoiled", some of its bytes being wrong.              *)
(***************************************************************************)
EXTENDS Naturals

CONSTANTS
  Image,        \* the images that occur
  NoImage,      \* no header in a slot
  LoadAt,       \* LoadAt[i]: region of the load address of image i
  Encrypted     \* images whose header carries a TLVE_IMAGE_EPUBKEY

Slot == {0, 1}
Regions == {"slot0", "slot1", "ram"}

ASSUME ContentsAssumption ==
  /\ LoadAt \in [Image -> Regions]
  /\ Encrypted \subseteq Image
  /\ NoImage \notin Image

Forms == {"plain", "cipher", "spoiled"}
Contents == [img : Image, form : Forms] \cup {NoImage}
Content(i, f) == [img |-> i, form |-> f]

(* How an image is distributed. *)
ShippedForm(i) == IF i \in Encrypted THEN "cipher" ELSE "plain"

(* An image through the cipher; those that run from RAM stay as they are. *)
Moved(c) ==
  IF c = NoImage \/ c.form = "spoiled" THEN c
  ELSE IF c.img \notin Encrypted \/ LoadAt[c.img] = "ram" THEN c
  ELSE Content(c.img, IF c.form = "plain" THEN "cipher" ELSE "plain")

(* What the exchange of the sectors makes of the slots.  With nothing in    *)
(* slot 1, slot 0 is left shifted by a sector with its header still in      *)
(* front; with nothing in slot 0, slot 1 stays as it is.                    *)
Exchanged(sl, inplace) ==
  IF inplace THEN [sl EXCEPT ![1] = Moved(@)]
  ELSE [s \in Slot |->
          IF s = 0 THEN IF sl[1] # NoImage THEN Moved(sl[1])
                        ELSE IF sl[0] = NoImage THEN NoImage
                        ELSE Content(sl[0].img, "spoiled")
          ELSE IF sl[0] # NoImage THEN Moved(sl[0]) ELSE sl[1]]

(* What it may make of them when it goes on with the wrong headers: either  *)
(* slot has the header of an image of the two, or none, and sectors of both *)
(* behind it.  An image that stays in its slot leaves the other one alone.  *)
Mixed(sl, inplace) ==
  LET images == {sl[s].img : s \in {t \in Slot : sl[t] # NoImage}}
      found == {NoImage} \cup {Content(i, f) : i \in images, f \in Forms}
  IN  {r \in [Slot -> found] : inplace => r[0] = sl[0]}
=============================================================================
