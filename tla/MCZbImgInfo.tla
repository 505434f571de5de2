---------------------------- MODULE MCZbImgInfo -----------------------------
(***************************************************************************)
(* Model-checking instance of ZbImgInfo.  Slot 0 is at 32 and has 40       *)
(* cells, slot 1 at 80 and 48, sectors have 8; RAM is at 200.              *)
(***************************************************************************)
EXTENDS ZbImgInfo, TLC

MCSlotStart == 0 :> 32 @@ 1 :> 80
MCSlotSize == 0 :> 40 @@ 1 :> 48

\* Two root keys; images are signed with key 3 by somebody else.
MCRootKeys == <<1, 2>>

Img(offset, size, load, version, key, other, signer) ==
  [offset |-> offset, size |-> size, load |-> load + offset, version |-> version,
   key |-> key, other |-> other, signer |-> signer]

\* Images that start and end at every place in a write block and in a piece;
\* the one of size 8 at 24 fills slot 0 up to the last sector, the one of size 9
\* is too large for it.
MCImages ==
  {Img(24, 8, 32, <<1, 0, 0>>, TRUE, TRUE, 1),
   Img(25, 3, 32, <<0, 255, 65535>>, TRUE, FALSE, 2),
   Img(26, 1, 200, <<1, 0, 1>>, FALSE, TRUE, 1),
   Img(27, 4, 80, <<1, 1, 0>>, TRUE, FALSE, 1),
   Img(24, 9, 32, <<1, 0, 0>>, FALSE, FALSE, 2),
   Img(27, 13, 80, <<1, 0, 0>>, FALSE, FALSE, 2),
   Img(25, 5, 32, <<2, 0, 0>>, TRUE, FALSE, 3)}

\* One slot may hold an older image than the other.
MCPrms == [Slot -> {<<1, 0, 0>>, <<0, 255, 65535>>, <<1, 0, 2>>, <<1, 1, 0>>}]
=============================================================================
