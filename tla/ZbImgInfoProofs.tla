-------------------------- MODULE ZbImgInfoProofs ---------------------------
(***************************************************************************)
(* Proofs about ZbImgInfo, for images, headers, pieces and slots of every  *)
(* size.                                                                   *)
(***************************************************************************)
EXTENDS ZbImgInfo, SequenceTheorems, TLAPS

-----------------------------------------------------------------------------
(* The cells of an image *)

(* The cells of s, and behind them those of t. *)
LEMMA Joined ==
  ASSUME NEW s \in Seq(Nat), NEW t \in Seq(Nat), NEW m \in Nat, Len(s) = m
  PROVE  /\ s \o t \in Seq(Nat) /\ Len(s \o t) = m + Len(t)
         /\ \A n \in 1 .. m : (s \o t)[n] = s[n]
         /\ \A n \in 1 .. Len(t) : (s \o t)[m + n] = t[n]
<1>1. Len(s) \in Nat /\ Len(t) \in Nat
  BY LenProperties
<1>2. /\ s \o t \in Seq(Nat) /\ Len(s \o t) = Len(s) + Len(t)
      /\ \A n \in 1 .. Len(s) + Len(t) :
           (s \o t)[n] = IF n <= Len(s) THEN s[n] ELSE t[n - Len(s)]
  BY ConcatProperties
<1>3. ASSUME NEW n \in 1 .. Len(t) PROVE (s \o t)[m + n] = t[n]
  <2>1. m + n \in 1 .. Len(s) + Len(t) /\ ~(m + n <= Len(s)) /\ m + n - Len(s) = n
    BY <1>1
  <2>2. QED
    BY <1>2, <2>1
<1>4. QED
  BY <1>1, <1>2, <1>3

LEMMA Triple ==
  ASSUME NEW a \in Nat, NEW b \in Nat, NEW c \in Nat
  PROVE  /\ <<a, b, c>> \in Seq(Nat) /\ Len(<<a, b, c>>) = 3
         /\ <<a, b, c>>[1] = a /\ <<a, b, c>>[2] = b /\ <<a, b, c>>[3] = c
  OBVIOUS

LEMMA VersionCells ==
  ASSUME NEW v \in Versions
  PROVE  /\ v \in Seq(Nat) /\ Len(v) = 3
         /\ v[1] \in Nat /\ v[2] \in Nat /\ v[3] \in Nat
         /\ v[1] <= 255 /\ v[2] <= 255 /\ v[3] <= 65535
<1>1. v \in Seq(Nat)
  BY SMT DEF Versions
<1>2. Len(v) = 3 /\ v[1] <= 255 /\ v[2] <= 255 /\ v[3] <= 65535
  BY SMT DEF Versions
<1>3. \A n \in 1 .. Len(v) : v[n] \in Nat
  BY <1>1
<1>4. v[1] \in Nat /\ v[2] \in Nat /\ v[3] \in Nat
  BY <1>2, <1>3
<1>5. QED
  BY <1>1, <1>2, <1>4

(* A version is known by its three parts. *)
LEMMA VersionParts ==
  ASSUME NEW v \in Seq(Nat), Len(v) = 3,
         NEW a \in Nat, NEW b \in Nat, NEW c \in Nat, v[1] = a, v[2] = b, v[3] = c
  PROVE  v = <<a, b, c>>
<1> DEFINE w == <<a, b, c>>
<1>1. w \in Seq(Nat) /\ Len(w) = 3 /\ w[1] = a /\ w[2] = b /\ w[3] = c
  BY Triple
<1> HIDE DEF w
<1>2. Len(v) = Len(w) /\ \A n \in 1 .. Len(v) : v[n] = w[n]
  BY <1>1
<1>3. v = w
  BY <1>1, <1>2, SeqEqual
<1>4. QED
  BY <1>3 DEF w

(* An entry: its type, its length, its value. *)
LEMMA EntryCells ==
  ASSUME NEW t \in Nat, NEW v \in Seq(Nat)
  PROVE  /\ Entry(t, v) \in Seq(Nat) /\ Len(Entry(t, v)) = Len(v) + 2
         /\ Entry(t, v)[1] = t /\ Entry(t, v)[2] = Len(v)
         /\ \A n \in 1 .. Len(v) : Entry(t, v)[2 + n] = v[n]
<1> DEFINE e == <<t, Len(v)>>
<1>1. e \in Seq(Nat) /\ Len(e) = 2 /\ e[1] = t /\ e[2] = Len(v) /\ Len(v) \in Nat
  OBVIOUS
<1>2. Entry(t, v) = e \o v
  BY DEF Entry
<1> HIDE DEF e
<1>3. /\ e \o v \in Seq(Nat) /\ Len(e \o v) = 2 + Len(v)
      /\ \A n \in 1 .. 2 : (e \o v)[n] = e[n]
      /\ \A n \in 1 .. Len(v) : (e \o v)[2 + n] = v[n]
  <2>1. 2 \in Nat
    OBVIOUS
  <2>2. QED
    BY <1>1, <2>1, Joined, Zenon
<1>4. (e \o v)[1] = e[1] /\ (e \o v)[2] = e[2]
  BY <1>3
<1>5. QED
  BY <1>1, <1>2, <1>3, <1>4

LEMMA ShortEntry ==
  ASSUME NEW t \in Nat, NEW x \in Nat
  PROVE  /\ Entry(t, <<x>>) \in Seq(Nat) /\ Len(Entry(t, <<x>>)) = 3
         /\ Entry(t, <<x>>)[1] = t /\ Entry(t, <<x>>)[2] = 1 /\ Entry(t, <<x>>)[3] = x
<1> DEFINE v == <<x>>
<1>1. v \in Seq(Nat) /\ Len(v) = 1 /\ v[1] = x
  OBVIOUS
<1> HIDE DEF v
<1>2. /\ Entry(t, v) \in Seq(Nat) /\ Len(Entry(t, v)) = Len(v) + 2
      /\ Entry(t, v)[1] = t /\ Entry(t, v)[2] = Len(v)
      /\ \A n \in 1 .. Len(v) : Entry(t, v)[2 + n] = v[n]
  BY <1>1, EntryCells
<1>3. Entry(t, v)[2 + 1] = v[1]
  BY <1>1, <1>2
<1>4. /\ Entry(t, v) \in Seq(Nat) /\ Len(Entry(t, v)) = 3
      /\ Entry(t, v)[1] = t /\ Entry(t, v)[2] = 1 /\ Entry(t, v)[3] = x
  BY <1>1, <1>2, <1>3
<1>5. QED
  BY <1>4 DEF v

LEMMA InfoValueCells ==
  ASSUME NEW i \in ImageInfos
  PROVE  LET v == InfoValue(i) IN
         /\ v \in Seq(Nat) /\ Len(v) = 6
         /\ v[1] = i.offset /\ v[2] = i.size /\ v[3] = i.load
         /\ v[4] = i.version[1] /\ v[5] = i.version[2] /\ v[6] = i.version[3]
<1> DEFINE p == <<i.offset, i.size, i.load>>
           q == i.version
<1>1. i.offset \in Nat /\ i.size \in Nat /\ i.load \in Nat /\ q \in Versions
  BY DEF ImageInfos
<1>2. p \in Seq(Nat) /\ Len(p) = 3 /\ p[1] = i.offset /\ p[2] = i.size /\ p[3] = i.load
  BY <1>1, Triple
<1>3. q \in Seq(Nat) /\ Len(q) = 3
  BY <1>1, VersionCells, SMT
<1>4. InfoValue(i) = p \o q
  BY DEF InfoValue
<1> HIDE DEF p, q
<1>5. /\ p \o q \in Seq(Nat) /\ Len(p \o q) = 3 + Len(q)
      /\ \A n \in 1 .. 3 : (p \o q)[n] = p[n]
      /\ \A n \in 1 .. Len(q) : (p \o q)[3 + n] = q[n]
  <2>1. 3 \in Nat
    OBVIOUS
  <2>2. QED
    BY <1>2, <1>3, <2>1, Joined, Zenon
<1>6. /\ (p \o q)[1] = p[1] /\ (p \o q)[2] = p[2] /\ (p \o q)[3] = p[3]
      /\ (p \o q)[3 + 1] = q[1] /\ (p \o q)[3 + 2] = q[2] /\ (p \o q)[3 + 3] = q[3]
  <2>1. 1 \in 1 .. 3 /\ 2 \in 1 .. 3 /\ 3 \in 1 .. 3
    OBVIOUS
  <2>2. QED
    BY <1>3, <1>5, <2>1, Zenon
<1>7. /\ InfoValue(i) \in Seq(Nat) /\ Len(InfoValue(i)) = 6
      /\ InfoValue(i)[1] = i.offset /\ InfoValue(i)[2] = i.size /\ InfoValue(i)[3] = i.load
      /\ InfoValue(i)[4] = q[1] /\ InfoValue(i)[5] = q[2] /\ InfoValue(i)[6] = q[3]
  BY <1>2, <1>3, <1>4, <1>5, <1>6
<1>8. QED
  BY <1>7 DEF q

(* Where the entries begin; Base is behind the entry of an unknown type. *)
Base(i) == IF i.other THEN 3 ELSE 0
AreaLen(i) == Base(i) + IF i.key THEN 17 ELSE 14

Entries(i) ==
  {0, Base(i), Base(i) + 3, Base(i) + 11} \cup (IF i.key THEN {Base(i) + 14} ELSE {})

Wanted == {TLVE_IMAGE_TYPE, TLVE_IMAGE_INFO, TLVE_IMAGE_HASH, TLVE_IMAGE_EPUBKEY}

Place(i, type) ==
  Base(i) + CASE type = TLVE_IMAGE_TYPE -> 0
              [] type = TLVE_IMAGE_INFO -> 3
              [] type = TLVE_IMAGE_HASH -> 11
              [] OTHER -> 14

(* The entries of the TLV area one behind the other. *)
InOrder(t, b, o, y, f, h, k) ==
  /\ t \in Seq(Nat) /\ Len(t) = b + 14 + Len(k)
  /\ \A n \in 1 .. b : t[n] = o[n]
  /\ \A n \in 1 .. 3 : t[b + n] = y[n]
  /\ \A n \in 1 .. 8 : t[b + 3 + n] = f[n]
  /\ \A n \in 1 .. 3 : t[b + 11 + n] = h[n]
  /\ \A n \in 1 .. Len(k) : t[b + 14 + n] = k[n]

LEMMA TlvJoined ==
  ASSUME NEW b \in Nat,
         NEW o \in Seq(Nat), Len(o) = b, NEW y \in Seq(Nat), Len(y) = 3,
         NEW f \in Seq(Nat), Len(f) = 8, NEW h \in Seq(Nat), Len(h) = 3,
         NEW k \in Seq(Nat)
  PROVE  InOrder(o \o y \o f \o h \o k, b, o, y, f, h, k)
<1> DEFINE p == o \o y
           q == p \o f
           r == q \o h
           t == r \o k
<1>1. /\ p \in Seq(Nat) /\ Len(p) = b + 3
      /\ \A n \in 1 .. b : p[n] = o[n]
      /\ \A n \in 1 .. 3 : p[b + n] = y[n]
  <2>1. /\ p \in Seq(Nat) /\ Len(p) = b + Len(y)
        /\ \A n \in 1 .. b : p[n] = o[n]
        /\ \A n \in 1 .. Len(y) : p[b + n] = y[n]
    BY Joined, ZenonT(60)
  <2>2. QED
    BY <2>1
<1> HIDE DEF p
<1>2. /\ q \in Seq(Nat) /\ Len(q) = (b + 3) + 8
      /\ \A n \in 1 .. b + 3 : q[n] = p[n]
      /\ \A n \in 1 .. 8 : q[b + 3 + n] = f[n]
  <2>1. PICK c \in Nat : c = b + 3
    OBVIOUS
  <2>2. p \in Seq(Nat) /\ Len(p) = c
    BY <1>1, <2>1
  <2>3. /\ q \in Seq(Nat) /\ Len(q) = c + Len(f)
        /\ \A n \in 1 .. c : q[n] = p[n]
        /\ \A n \in 1 .. Len(f) : q[c + n] = f[n]
    BY <2>2, Joined, Zenon
  <2>4. QED
    BY <2>1, <2>3
<1> HIDE DEF q
<1>3. /\ r \in Seq(Nat) /\ Len(r) = b + 11 + 3
      /\ \A n \in 1 .. b + 11 : r[n] = q[n]
      /\ \A n \in 1 .. 3 : r[b + 11 + n] = h[n]
  <2>1. PICK d \in Nat : d = b + 11
    OBVIOUS
  <2>2. q \in Seq(Nat) /\ Len(q) = d
    BY <1>2, <2>1
  <2>3. /\ r \in Seq(Nat) /\ Len(r) = d + Len(h)
        /\ \A n \in 1 .. d : r[n] = q[n]
        /\ \A n \in 1 .. Len(h) : r[d + n] = h[n]
    BY <2>2, Joined, Zenon
  <2>4. QED
    BY <2>1, <2>3
<1> HIDE DEF r
<1>4. /\ t \in Seq(Nat) /\ Len(t) = b + 14 + Len(k)
      /\ \A n \in 1 .. b + 14 : t[n] = r[n]
      /\ \A n \in 1 .. Len(k) : t[b + 14 + n] = k[n]
  <2>1. PICK e \in Nat : e = b + 14
    OBVIOUS
  <2>2. r \in Seq(Nat) /\ Len(r) = e
    BY <1>3, <2>1
  <2>3. /\ t \in Seq(Nat) /\ Len(t) = e + Len(k)
        /\ \A n \in 1 .. e : t[n] = r[n]
        /\ \A n \in 1 .. Len(k) : t[e + n] = k[n]
    BY <2>2, Joined, Zenon
  <2>4. QED
    BY <2>1, <2>3
<1>5. t = o \o y \o f \o h \o k
  BY DEF p, q, r
<1> HIDE DEF t
<1>6. \A n \in 1 .. b + 11 : t[n] = q[n]
  <2>1. \A n \in 1 .. b + 11 : n \in 1 .. b + 14
    OBVIOUS
  <2>2. QED
    BY <1>3, <1>4, <2>1, Zenon
<1>7. \A n \in 1 .. b + 3 : t[n] = p[n]
  <2>1. \A n \in 1 .. b + 3 : n \in 1 .. b + 11
    OBVIOUS
  <2>2. QED
    BY <1>2, <1>6, <2>1, Zenon
<1>8. \A n \in 1 .. b : t[n] = o[n]
  <2>1. \A n \in 1 .. b : n \in 1 .. b + 3
    OBVIOUS
  <2>2. QED
    BY <1>1, <1>7, <2>1, Zenon
<1>9. ASSUME NEW n \in 1 .. 3 PROVE t[b + n] = y[n]
  <2>1. b + n \in 1 .. b + 3
    OBVIOUS
  <2>2. QED
    BY <1>1, <1>7, <2>1
<1>10. ASSUME NEW n \in 1 .. 8 PROVE t[b + 3 + n] = f[n]
  <2>1. b + 3 + n \in 1 .. b + 11
    OBVIOUS
  <2>2. QED
    BY <1>2, <1>6, <2>1
<1>11. ASSUME NEW n \in 1 .. 3 PROVE t[b + 11 + n] = h[n]
  <2>1. b + 11 + n \in 1 .. b + 14
    OBVIOUS
  <2>2. QED
    BY <1>3, <1>4, <2>1
<1>12. QED
  BY <1>4, <1>5, <1>8, <1>9, <1>10, <1>11 DEF InOrder

(* The TLV area of an image, cell by cell; Base is where the entry of the   *)
(* image type begins.                                                       *)
LEMMA TlvCells ==
  ASSUME NEW i \in ImageInfos
  PROVE  LET t == TlvBytes(i)
             b == Base(i) IN
         /\ t \in Seq(Nat) /\ Len(t) = AreaLen(i)
         /\ i.other => t[1] = TLVE_OTHER /\ t[2] = 1
         /\ t[b + 1] = TLVE_IMAGE_TYPE /\ t[b + 2] = 1
         /\ t[b + 4] = TLVE_IMAGE_INFO /\ t[b + 5] = 6
         /\ t[b + 6] = i.offset /\ t[b + 7] = i.size /\ t[b + 8] = i.load
         /\ t[b + 9] = i.version[1] /\ t[b + 10] = i.version[2] /\ t[b + 11] = i.version[3]
         /\ t[b + 12] = TLVE_IMAGE_HASH /\ t[b + 13] = 1 /\ t[b + 14] = HashCell
         /\ i.key => t[b + 15] = TLVE_IMAGE_EPUBKEY /\ t[b + 16] = 1 /\ t[b + 17] = PubKeyCell
<1> DEFINE o == IF i.other THEN Entry(TLVE_OTHER, <<TLVE_IMAGE_INFO>>) ELSE <<>>
           y == Entry(TLVE_IMAGE_TYPE, <<0>>)
           f == Entry(TLVE_IMAGE_INFO, InfoValue(i))
           h == Entry(TLVE_IMAGE_HASH, <<HashCell>>)
           k == IF i.key THEN Entry(TLVE_IMAGE_EPUBKEY, <<PubKeyCell>>) ELSE <<>>
           t == TlvBytes(i)
           v == i.version
<1>1. i.other \in BOOLEAN /\ i.key \in BOOLEAN
  BY DEF ImageInfos
<1>2. /\ TLVE_OTHER \in Nat /\ TLVE_IMAGE_TYPE \in Nat /\ TLVE_IMAGE_INFO \in Nat
      /\ TLVE_IMAGE_HASH \in Nat /\ TLVE_IMAGE_EPUBKEY \in Nat
      /\ HashCell \in Nat /\ PubKeyCell \in Nat /\ 0 \in Nat
  BY DEF TLVE_OTHER, TLVE_IMAGE_TYPE, TLVE_IMAGE_INFO, TLVE_IMAGE_HASH, TLVE_IMAGE_EPUBKEY,
         HashCell, PubKeyCell
<1>3. <<>> \in Seq(Nat) /\ Len(<<>>) = 0
  OBVIOUS
<1>4. o \in Seq(Nat) /\ Len(o) = Base(i) /\ (i.other => o[1] = TLVE_OTHER /\ o[2] = 1)
  <2>1. CASE i.other
    <3>1. /\ Entry(TLVE_OTHER, <<TLVE_IMAGE_INFO>>) \in Seq(Nat)
          /\ Len(Entry(TLVE_OTHER, <<TLVE_IMAGE_INFO>>)) = 3
          /\ Entry(TLVE_OTHER, <<TLVE_IMAGE_INFO>>)[1] = TLVE_OTHER
          /\ Entry(TLVE_OTHER, <<TLVE_IMAGE_INFO>>)[2] = 1
      BY <1>2, ShortEntry, Zenon
    <3>2. Base(i) = 3 /\ o = Entry(TLVE_OTHER, <<TLVE_IMAGE_INFO>>)
      BY <2>1 DEF Base
    <3>3. QED
      BY <3>1, <3>2, Zenon
  <2>2. CASE ~i.other
    <3>1. Base(i) = 0 /\ o = <<>>
      BY <2>2 DEF Base
    <3>2. QED
      BY <1>3, <2>2, <3>1, Zenon
  <2>3. QED
    BY <2>1, <2>2
<1>5. y \in Seq(Nat) /\ Len(y) = 3 /\ y[1] = TLVE_IMAGE_TYPE /\ y[2] = 1
  BY <1>2, ShortEntry, Zenon
<1>6. /\ f \in Seq(Nat) /\ Len(f) = 8 /\ f[1] = TLVE_IMAGE_INFO /\ f[2] = 6
      /\ f[3] = i.offset /\ f[4] = i.size /\ f[5] = i.load
      /\ f[6] = v[1] /\ f[7] = v[2] /\ f[8] = v[3]
  <2> DEFINE w == InfoValue(i)
  <2>1. w \in Seq(Nat) /\ Len(w) = 6
    BY InfoValueCells
  <2>2. /\ w[1] = i.offset /\ w[2] = i.size /\ w[3] = i.load
        /\ w[4] = v[1] /\ w[5] = v[2] /\ w[6] = v[3]
    BY InfoValueCells, Zenon
  <2> HIDE DEF w
  <2> DEFINE e == Entry(TLVE_IMAGE_INFO, w)
  <2>3. /\ e \in Seq(Nat) /\ Len(e) = Len(w) + 2 /\ e[1] = TLVE_IMAGE_INFO /\ e[2] = Len(w)
        /\ \A n \in 1 .. Len(w) : e[2 + n] = w[n]
    BY <1>2, <2>1, EntryCells, Zenon
  <2>4. e = f
    BY DEF w
  <2> HIDE DEF e, f
  <2>5. Len(e) = 8 /\ e[2] = 6
    BY <2>1, <2>3
  <2>6. \A n \in 1 .. 6 : e[2 + n] = w[n]
    BY <2>1, <2>3, Zenon
  <2>7. /\ e[3] = w[1] /\ e[4] = w[2] /\ e[5] = w[3]
        /\ e[6] = w[4] /\ e[7] = w[5] /\ e[8] = w[6]
    BY <2>6
  <2>8. QED
    BY <2>2, <2>3, <2>4, <2>5, <2>7, Zenon
<1>7. h \in Seq(Nat) /\ Len(h) = 3 /\ h[1] = TLVE_IMAGE_HASH /\ h[2] = 1 /\ h[3] = HashCell
  BY <1>2, ShortEntry, Zenon
<1>8. /\ k \in Seq(Nat) /\ Len(k) = (IF i.key THEN 3 ELSE 0)
      /\ i.key => k[1] = TLVE_IMAGE_EPUBKEY /\ k[2] = 1 /\ k[3] = PubKeyCell
  <2>1. CASE i.key
    <3>1. /\ Entry(TLVE_IMAGE_EPUBKEY, <<PubKeyCell>>) \in Seq(Nat)
          /\ Len(Entry(TLVE_IMAGE_EPUBKEY, <<PubKeyCell>>)) = 3
          /\ Entry(TLVE_IMAGE_EPUBKEY, <<PubKeyCell>>)[1] = TLVE_IMAGE_EPUBKEY
          /\ Entry(TLVE_IMAGE_EPUBKEY, <<PubKeyCell>>)[2] = 1
          /\ Entry(TLVE_IMAGE_EPUBKEY, <<PubKeyCell>>)[3] = PubKeyCell
      BY <1>2, ShortEntry, Zenon
    <3>2. QED
      BY <2>1, <3>1, Zenon
  <2>2. CASE ~i.key
    <3>1. k = <<>> /\ Len(k) = 0
      BY <1>3, <2>2
    <3>2. k \in Seq(Nat) /\ (IF i.key THEN 3 ELSE 0) = 0
      BY <1>3, <2>2, <3>1
    <3>3. QED
      BY <2>2, <3>1, <3>2
  <2>3. QED
    BY <2>1, <2>2
<1>9. t = o \o y \o f \o h \o k
  BY DEF TlvBytes
<1>10. Base(i) \in Nat
  BY DEF Base
<1> HIDE DEF o, y, f, h, k, t, v
<1>11. /\ t \in Seq(Nat) /\ Len(t) = Base(i) + 14 + Len(k)
       /\ \A n \in 1 .. Base(i) : t[n] = o[n]
       /\ \A n \in 1 .. 3 : t[Base(i) + n] = y[n]
       /\ \A n \in 1 .. 8 : t[Base(i) + 3 + n] = f[n]
       /\ \A n \in 1 .. 3 : t[Base(i) + 11 + n] = h[n]
       /\ \A n \in 1 .. Len(k) : t[Base(i) + 14 + n] = k[n]
  <2>1. PICK b \in Nat : b = Base(i)
    BY <1>10
  <2>2. /\ Len(o) = b /\ o \in Seq(Nat) /\ y \in Seq(Nat) /\ Len(y) = 3
        /\ f \in Seq(Nat) /\ Len(f) = 8 /\ h \in Seq(Nat) /\ Len(h) = 3 /\ k \in Seq(Nat)
    BY <1>4, <1>5, <1>6, <1>7, <1>8, <2>1, Zenon
  <2>3. /\ t \in Seq(Nat) /\ Len(t) = b + 14 + Len(k)
        /\ \A n \in 1 .. b : t[n] = o[n]
        /\ \A n \in 1 .. 3 : t[b + n] = y[n]
        /\ \A n \in 1 .. 8 : t[b + 3 + n] = f[n]
        /\ \A n \in 1 .. 3 : t[b + 11 + n] = h[n]
        /\ \A n \in 1 .. Len(k) : t[b + 14 + n] = k[n]
    <3>1. InOrder(t, b, o, y, f, h, k)
      BY <2>2, <1>9, TlvJoined, Zenon
    <3>2. QED
      BY <3>1, Zenon DEF InOrder
  <2>4. QED
    BY <2>1, <2>3, Zenon
<1>12. Len(t) = AreaLen(i)
  <2>1. Len(t) = Base(i) + 14 + Len(k) /\ Len(k) = IF i.key THEN 3 ELSE 0
    BY <1>8, <1>11, Zenon
  <2>2. QED
    BY <2>1, <1>1, <1>10 DEF AreaLen
<1>13. i.other => t[1] = TLVE_OTHER /\ t[2] = 1
  <2> SUFFICES ASSUME i.other PROVE t[1] = TLVE_OTHER /\ t[2] = 1
    OBVIOUS
  <2>1. 1 \in 1 .. Base(i) /\ 2 \in 1 .. Base(i)
    BY DEF Base
  <2>2. QED
    BY <2>1, <1>4, <1>11, Zenon
<1>14. /\ t[Base(i) + 1] = y[1] /\ t[Base(i) + 2] = y[2]
       /\ t[Base(i) + 4] = f[1] /\ t[Base(i) + 5] = f[2] /\ t[Base(i) + 6] = f[3]
       /\ t[Base(i) + 7] = f[4] /\ t[Base(i) + 8] = f[5] /\ t[Base(i) + 9] = f[6]
       /\ t[Base(i) + 10] = f[7] /\ t[Base(i) + 11] = f[8]
       /\ t[Base(i) + 12] = h[1] /\ t[Base(i) + 13] = h[2] /\ t[Base(i) + 14] = h[3]
  <2>1. /\ \A n \in 1 .. 3 : t[Base(i) + n] = y[n]
        /\ \A n \in 1 .. 8 : t[Base(i) + 3 + n] = f[n]
        /\ \A n \in 1 .. 3 : t[Base(i) + 11 + n] = h[n]
    BY <1>11, Zenon
  <2>2. /\ t[Base(i) + 1] = y[1] /\ t[Base(i) + 2] = y[2]
    BY <2>1
  <2>3. /\ t[Base(i) + 3 + 1] = f[1] /\ t[Base(i) + 3 + 2] = f[2] /\ t[Base(i) + 3 + 3] = f[3]
        /\ t[Base(i) + 3 + 4] = f[4] /\ t[Base(i) + 3 + 5] = f[5] /\ t[Base(i) + 3 + 6] = f[6]
        /\ t[Base(i) + 3 + 7] = f[7] /\ t[Base(i) + 3 + 8] = f[8]
    BY <2>1
  <2>4. /\ t[Base(i) + 11 + 1] = h[1] /\ t[Base(i) + 11 + 2] = h[2] /\ t[Base(i) + 11 + 3] = h[3]
    BY <2>1
  <2>5. QED
    BY <2>2, <2>3, <2>4, <1>10
<1>15. i.key => /\ t[Base(i) + 15] = k[1] /\ t[Base(i) + 16] = k[2] /\ t[Base(i) + 17] = k[3]
  <2> SUFFICES ASSUME i.key
               PROVE  /\ t[Base(i) + 15] = k[1] /\ t[Base(i) + 16] = k[2]
                      /\ t[Base(i) + 17] = k[3]
    OBVIOUS
  <2>1. \A n \in 1 .. 3 : t[Base(i) + 14 + n] = k[n]
    BY <1>8, <1>11, Zenon
  <2>2. /\ t[Base(i) + 14 + 1] = k[1] /\ t[Base(i) + 14 + 2] = k[2]
        /\ t[Base(i) + 14 + 3] = k[3]
    BY <2>1
  <2>3. QED
    BY <2>2, <1>10
<1>16. /\ t \in Seq(Nat) /\ Len(t) = AreaLen(i)
       /\ i.other => t[1] = TLVE_OTHER /\ t[2] = 1
       /\ t[Base(i) + 1] = TLVE_IMAGE_TYPE /\ t[Base(i) + 2] = 1
       /\ t[Base(i) + 4] = TLVE_IMAGE_INFO /\ t[Base(i) + 5] = 6
       /\ t[Base(i) + 6] = i.offset /\ t[Base(i) + 7] = i.size /\ t[Base(i) + 8] = i.load
       /\ t[Base(i) + 9] = v[1] /\ t[Base(i) + 10] = v[2] /\ t[Base(i) + 11] = v[3]
       /\ t[Base(i) + 12] = TLVE_IMAGE_HASH /\ t[Base(i) + 13] = 1
       /\ t[Base(i) + 14] = HashCell
       /\ i.key => /\ t[Base(i) + 15] = TLVE_IMAGE_EPUBKEY /\ t[Base(i) + 16] = 1
                   /\ t[Base(i) + 17] = PubKeyCell
  BY <1>5, <1>6, <1>7, <1>8, <1>11, <1>12, <1>13, <1>14, <1>15, Zenon
<1>17. QED
  BY <1>16, Zenon DEF t, v

(* The header in front of it. *)
LEMMA HeaderCells ==
  ASSUME NEW i \in ImageInfos
  PROVE  LET h == Header(i)
             t == TlvBytes(i) IN
         /\ h \in Seq(Nat) /\ Len(h) = 4 + Len(t) /\ Len(t) \in Nat
         /\ h[1] = TLV_AREA_MAGIC /\ h[2] = 4 + Len(t) /\ h[4] = Signature(i.signer)
         /\ \A n \in 1 .. Len(t) : h[4 + n] = t[n]
<1> DEFINE t == TlvBytes(i)
           e == <<TLV_AREA_MAGIC, HdrSize + Len(t), 0, Signature(i.signer)>>
           h == Header(i)
<1>1. t \in Seq(Nat)
  BY TlvCells
<1>2. h = e \o t
  BY DEF Header
<1> HIDE DEF t
<1>3. Len(t) \in Nat
  BY <1>1
<1>4. e \in Seq(Nat) /\ Len(e) = 4
  <2>1. TLV_AREA_MAGIC \in Nat /\ HdrSize + Len(t) \in Nat /\ Signature(i.signer) \in Nat
    BY <1>3 DEF TLV_AREA_MAGIC, HdrSize, Signature, ImageInfos
  <2>2. QED
    BY <2>1
<1>5. e[1] = TLV_AREA_MAGIC /\ e[2] = 4 + Len(t) /\ e[4] = Signature(i.signer)
  BY DEF HdrSize
<1> HIDE DEF e, h
<1>6. 4 \in Nat
  OBVIOUS
<1>7. /\ h \in Seq(Nat) /\ Len(h) = 4 + Len(t)
      /\ \A n \in 1 .. 4 : h[n] = e[n]
      /\ \A n \in 1 .. Len(t) : h[4 + n] = t[n]
  BY <1>1, <1>2, <1>4, <1>6, Joined, Zenon
<1>8. h[1] = e[1] /\ h[2] = e[2] /\ h[4] = e[4]
  <2>1. 1 \in 1 .. 4 /\ 2 \in 1 .. 4 /\ 4 \in 1 .. 4
    OBVIOUS
  <2>2. QED
    BY <1>7, <2>1, Zenon
<1>9. QED
  BY <1>3, <1>5, <1>7, <1>8, Zenon DEF h, t

(* The header in front of the image, the image at its offset. *)
LEMMA ShippedCells ==
  ASSUME NEW i \in ImageInfos, Len(Header(i)) <= i.offset
  PROVE  LET s == Shipped(i)
             t == TlvBytes(i) IN
         /\ s \in Seq(Nat) /\ Len(s) = i.offset + i.size
         /\ 4 + Len(t) <= i.offset /\ Len(t) \in Nat
         /\ s[1] = TLV_AREA_MAGIC /\ s[2] = 4 + Len(t) /\ s[4] = Signature(i.signer)
         /\ \A n \in 1 .. Len(t) : s[4 + n] = t[n]
         /\ \A k \in 1 .. i.size : s[i.offset + k] = Body(i)[k]
<1> DEFINE h == Header(i)
           t == TlvBytes(i)
           m == i.offset - Len(h)
           p == [k \in 1 .. m |-> Erased]
           b == Body(i)
           s == Shipped(i)
           o == i.offset
<1>1. /\ h \in Seq(Nat) /\ Len(h) = 4 + Len(t) /\ Len(t) \in Nat
      /\ h[1] = TLV_AREA_MAGIC /\ h[2] = 4 + Len(t) /\ h[4] = Signature(i.signer)
      /\ \A n \in 1 .. Len(t) : h[4 + n] = t[n]
  BY HeaderCells, Zenon
<1>2. o \in Nat /\ i.size \in Nat
  BY DEF ImageInfos
<1>3. s = h \o p \o b
  BY DEF Shipped
<1>4. Len(h) <= o
  OBVIOUS
<1> HIDE DEF h, t, o
<1>5. Len(h) \in Nat /\ 4 <= Len(h)
  <2>1. Len(h) = 4 + Len(t) /\ Len(t) \in Nat
    BY <1>1
  <2>2. QED
    BY <2>1
<1>6. m \in Nat /\ Len(h) + m = o
  BY <1>2, <1>4, <1>5 DEF o
<1> HIDE DEF m
<1>7. p \in Seq(Nat) /\ Len(p) = m
  BY <1>6 DEF Erased
<1>8. b \in Seq(Nat) /\ Len(b) = i.size
  BY <1>2 DEF Body
<1> HIDE DEF p, b
<1> DEFINE q == h \o p
<1>9. PICK l \in Nat : l = Len(h)
  BY <1>5
<1>10. /\ q \in Seq(Nat) /\ Len(q) = l + Len(p)
       /\ \A n \in 1 .. l : q[n] = h[n]
  BY <1>1, <1>7, <1>9, Joined, Zenon
<1> HIDE DEF q
<1>11. Len(q) = o
  BY <1>6, <1>7, <1>9, <1>10
<1>12. s = q \o b
  BY <1>3 DEF q
<1> HIDE DEF s
<1>13. /\ s \in Seq(Nat) /\ Len(s) = o + Len(b)
       /\ \A n \in 1 .. o : s[n] = q[n]
       /\ \A k \in 1 .. Len(b) : s[o + k] = b[k]
  <2>1. q \in Seq(Nat) /\ b \in Seq(Nat) /\ o \in Nat /\ Len(q) = o
    BY <1>2, <1>8, <1>10, <1>11, Zenon
  <2>2. /\ q \o b \in Seq(Nat) /\ Len(q \o b) = o + Len(b)
        /\ \A n \in 1 .. o : (q \o b)[n] = q[n]
        /\ \A k \in 1 .. Len(b) : (q \o b)[o + k] = b[k]
    BY <2>1, Joined, Zenon
  <2>3. QED
    BY <1>12, <2>2, Zenon
<1>14. \A n \in 1 .. l : s[n] = h[n]
  <2>1. \A n \in 1 .. l : n \in 1 .. o
    BY <1>2, <1>4, <1>9
  <2>2. QED
    BY <1>10, <1>13, <2>1, Zenon
<1>15. s[1] = h[1] /\ s[2] = h[2] /\ s[4] = h[4]
  <2>1. 1 \in 1 .. l /\ 2 \in 1 .. l /\ 4 \in 1 .. l
    BY <1>5, <1>9
  <2>2. QED
    BY <1>14, <2>1, Zenon
<1>16. ASSUME NEW n \in 1 .. Len(t) PROVE s[4 + n] = t[n]
  <2>1. 4 + n \in 1 .. l
    <3>1. Len(t) \in Nat /\ l = 4 + Len(t)
      BY <1>1, <1>9
    <3>2. QED
      BY <3>1
  <2>2. h[4 + n] = t[n]
    BY <1>1
  <2>3. s[4 + n] = h[4 + n]
    BY <1>14, <2>1, Zenon
  <2>4. QED
    BY <2>2, <2>3
<1>17. \A k \in 1 .. i.size : s[o + k] = b[k]
  BY <1>8, <1>13, Zenon
<1>18. 4 + Len(t) <= o /\ Len(t) \in Nat
  BY <1>1, <1>4, Zenon
<1>19. Len(s) = o + i.size
  BY <1>8, <1>13, Zenon
<1>20. /\ s \in Seq(Nat) /\ Len(s) = o + i.size
       /\ 4 + Len(t) <= o /\ Len(t) \in Nat
       /\ s[1] = TLV_AREA_MAGIC /\ s[2] = 4 + Len(t) /\ s[4] = Signature(i.signer)
       /\ \A n \in 1 .. Len(t) : s[4 + n] = t[n]
       /\ \A k \in 1 .. i.size : s[o + k] = b[k]
  BY <1>1, <1>13, <1>15, <1>16, <1>17, <1>18, <1>19, Zenon
<1>21. QED
  BY <1>20, Zenon DEF s, t, o, b

(* What an entry at o leads the search for want to. *)
InPlace(t, i, o, want) ==
  /\ o \in Nat /\ o + 3 <= AreaLen(i)
  /\ t[o + 2] = (IF t[o + 1] = TLVE_IMAGE_INFO THEN 6 ELSE 1)
  /\ t[o + 1] = want => o = Place(i, want)
  /\ t[o + 1] # want => /\ o + 2 + t[o + 2] <= Place(i, want)
                        /\ o + 2 + t[o + 2] \in Entries(i) \cup {AreaLen(i)}

(* The entries follow each other in the order in which they are looked for. *)
LEMMA EntryOrder ==
  ASSUME NEW i \in ImageInfos, NEW o \in Entries(i), NEW want \in Wanted,
         o <= Place(i, want)
  PROVE  InPlace(TlvBytes(i), i, o, want)
<1> DEFINE t == TlvBytes(i)
           b == Base(i)
<1>1. /\ i.other => t[1] = TLVE_OTHER /\ t[2] = 1
      /\ t[b + 1] = TLVE_IMAGE_TYPE /\ t[b + 2] = 1
      /\ t[b + 4] = TLVE_IMAGE_INFO /\ t[b + 5] = 6
      /\ t[b + 12] = TLVE_IMAGE_HASH /\ t[b + 13] = 1
      /\ i.key => t[b + 15] = TLVE_IMAGE_EPUBKEY /\ t[b + 16] = 1
  BY TlvCells, Zenon
<1>2. i.other \in BOOLEAN /\ i.key \in BOOLEAN
  BY DEF ImageInfos
<1>3. /\ b = IF i.other THEN 3 ELSE 0
      /\ AreaLen(i) = b + IF i.key THEN 17 ELSE 14
  BY DEF Base, AreaLen
<1>4. /\ want \in {16, 32, 48, 64}
      /\ Place(i, want) = b + IF want = 16 THEN 0 ELSE IF want = 32 THEN 3
                              ELSE IF want = 48 THEN 11 ELSE 14
  BY DEF Wanted, Place, TLVE_IMAGE_TYPE, TLVE_IMAGE_INFO, TLVE_IMAGE_HASH, TLVE_IMAGE_EPUBKEY
<1>5. o \in {0, b, b + 3, b + 11} \cup (IF i.key THEN {b + 14} ELSE {})
  BY DEF Entries
<1>6. Entries(i) = {0, b, b + 3, b + 11} \cup (IF i.key THEN {b + 14} ELSE {})
  BY DEF Entries
<1>7. b \in Nat
  BY <1>2, <1>3
<1> HIDE DEF t, b
<1>0. SUFFICES InPlace(t, i, o, want)
  BY DEF t
<1>8. CASE o = 0 /\ i.other
  <2>1. t[o + 1] = 80 /\ t[o + 2] = 1 /\ o + 2 + t[o + 2] = b
    BY <1>1, <1>3, <1>8 DEF TLVE_OTHER
  <2>2. QED
    BY <2>1, <1>2, <1>3, <1>4, <1>6, <1>7, <1>8 DEF InPlace, TLVE_IMAGE_INFO
<1>9. CASE o = b
  <2>1. t[o + 1] = 16 /\ t[o + 2] = 1 /\ o + 2 + t[o + 2] = b + 3
    BY <1>1, <1>7, <1>9 DEF TLVE_IMAGE_TYPE
  <2>2. QED
    BY <2>1, <1>2, <1>3, <1>4, <1>6, <1>7, <1>9 DEF InPlace, TLVE_IMAGE_INFO
<1>10. CASE o = b + 3
  <2>1. t[o + 1] = 32 /\ t[o + 2] = 6 /\ o + 2 + t[o + 2] = b + 11
    <3>1. o + 1 = b + 4 /\ o + 2 = b + 5
      BY <1>7, <1>10
    <3>2. QED
      BY <3>1, <1>1, <1>7, <1>10 DEF TLVE_IMAGE_INFO
  <2>2. QED
    BY <2>1, <1>2, <1>3, <1>4, <1>6, <1>7, <1>10 DEF InPlace, TLVE_IMAGE_INFO
<1>11. CASE o = b + 11
  <2>1. t[o + 1] = 48 /\ t[o + 2] = 1 /\ o + 2 + t[o + 2] = b + 14
    <3>1. o + 1 = b + 12 /\ o + 2 = b + 13
      BY <1>7, <1>11
    <3>2. QED
      BY <3>1, <1>1, <1>7, <1>11 DEF TLVE_IMAGE_HASH
  <2>2. QED
    BY <2>1, <1>2, <1>3, <1>4, <1>6, <1>7, <1>11 DEF InPlace, TLVE_IMAGE_INFO
<1>12. CASE i.key /\ o = b + 14
  <2>1. t[o + 1] = 64 /\ t[o + 2] = 1 /\ o + 2 + t[o + 2] = AreaLen(i)
    <3>1. o + 1 = b + 15 /\ o + 2 = b + 16
      BY <1>7, <1>12
    <3>2. QED
      BY <3>1, <1>1, <1>3, <1>7, <1>12 DEF TLVE_IMAGE_EPUBKEY
  <2>2. QED
    BY <2>1, <1>2, <1>3, <1>4, <1>6, <1>7, <1>12 DEF InPlace, TLVE_IMAGE_INFO
<1>13. QED
  BY <1>2, <1>3, <1>5, <1>8, <1>9, <1>10, <1>11, <1>12

-----------------------------------------------------------------------------
(* The inductive invariant *)

(* Flash never changes.  What is looked at without a check was written from *)
(* the front.                                                               *)
FlashInv ==
  /\ job \in Checks \cup Looks
  /\ flash \in Seq(Nat) /\ Len(flash) = Len(Shipped(job.img))
  /\ ~job.check =>
       \E c \in 1 .. Len(flash) + 1 : \A n \in 1 .. Len(flash) :
         flash[n] = IF n < c THEN Shipped(job.img)[n] ELSE Erased

(* The header is the one that a root key was used on. *)
SignedHeader ==
  /\ InRoot(job.img.signer)
  /\ flash[1] = TLV_AREA_MAGIC
  /\ flash[2] = HdrSize + Len(TlvBytes(job.img))
  /\ flash[4] = Signature(job.img.signer)
  /\ \A n \in 1 .. Len(TlvBytes(job.img)) : flash[HdrSize + n] = TlvBytes(job.img)[n]

BodyIsWhole == \A k \in 1 .. job.img.size : flash[job.img.offset + k] = Body(job.img)[k]

(* The cells that are being hashed. *)
DigestAt == IF rd.next = "verify" THEN HdrAt + HdrSize ELSE info.start + job.eoff
DigestLen == IF rd.next = "verify" THEN TlvSize ELSE info.end - info.start

(* The hash has been fed with a front part of the cells, and the rest is    *)
(* what is left to read.                                                    *)
Feeding ==
  /\ rd.next \in {"verify", "compare", "done"}
  /\ rd.next = "verify" => GoodHeader
  /\ rd.next = "done" <=> ~job.check
  /\ rd.next = "done" => job.eoff = 0
  /\ rd.at + rd.left = DigestAt + DigestLen
  /\ rd.at + rd.jump >= DigestAt
  /\ fed = ReadCells(DigestAt, rd.at + rd.jump - DigestAt)

TlvHashed == fed = ReadCells(HdrAt + HdrSize, TlvSize)
BodyHashed == fed = ReadCells(info.start + job.eoff, info.end - info.start)

DigestInv ==
  /\ {rd.at, rd.left, rd.jump} \subseteq Nat
  /\ rd.jump <= rd.left /\ rd.jump < WriteBlock
  /\ pc = "piece" => Feeding
  /\ pc = "verify" => GoodHeader /\ job.check /\ TlvHashed
  /\ pc = "compare" => job.check /\ BodyHashed
  /\ pc = "done" /\ ~job.check /\ job.eoff = 0 => BodyHashed

(* The entry for the hash has been found, and the image is being hashed.    *)
Comparing == pc = "compare" \/ (pc = "piece" /\ rd.next = "compare")

(* Whether the search is behind the signature. *)
Opened == pc \in {"read", "search"} \/ Comparing \/ info.valid

(* The size in the header was written, and is that of the area in RAM. *)
TlvCopied ==
  /\ flash[2] # Erased
  /\ tlv = [n \in 1 .. Len(TlvBytes(job.img)) |-> flash[HdrSize + n]]

TlvInv ==
  /\ Opened => GoodHeader /\ (job.check => SignedHeader)
  /\ pc = "search" \/ Comparing => TlvCopied
  /\ pc = "overrun" => ~job.check /\ flash[2] = Erased

(* Where the search stands: at its beginning, or on an entry that lies not  *)
(* behind the one it looks for.                                             *)
OnEntry(o) ==
  /\ o <= Place(job.img, find.want)
  /\ find.type = tlv[o + 1] /\ find.length = tlv[o + 2]
  /\ find.value = o + 2 /\ find.off = o + 2 + find.length

OnSomeEntry == \E o \in Entries(job.img) : OnEntry(o)

FindInv ==
  /\ pc = "search" => /\ find.want \in Wanted
                      /\ (find.type = 0 /\ find.off = 0) \/ OnSomeEntry
  /\ Comparing => /\ find.want = TLVE_IMAGE_HASH /\ find.type = find.want
                  /\ find.length = LengthOf(find.want) /\ OnSomeEntry

(* What was taken out of the entries. *)
InfoCopied ==
  LET b == Base(job.img) IN
  /\ info.start = SlotStart[job.slt] + tlv[b + 6] /\ info.end = info.start + tlv[b + 7]
  /\ info.load = tlv[b + 8] /\ info.version = <<tlv[b + 9], tlv[b + 10], tlv[b + 11]>>

InfoRead ==
  /\ info.start = SlotStart[job.slt] + job.img.offset
  /\ info.end = info.start + job.img.size
  /\ info.load = job.img.load /\ info.version = job.img.version

KeyWanted == pc = "search" /\ find.want = TLVE_IMAGE_EPUBKEY

InfoInv ==
  /\ info.valid \in BOOLEAN /\ {info.start, info.encstart, info.end} \subseteq Nat
  /\ info.end >= info.start
  /\ info.valid => pc \in {"info", "done"} \/ (pc = "piece" /\ rd.next = "done")
  /\ pc = "search" /\ find.want = TLVE_IMAGE_HASH => InfoCopied
  /\ Comparing \/ KeyWanted => InfoRead
  /\ (KeyWanted \/ info.valid) /\ job.check => BodyIsWhole

(* Nothing is to be found wrong with the image. *)
Proper == job.check /\ Whole(flash, job.img) /\ InRoot(job.img.signer)

Tried == \A n \in 1 .. nkey - 1 : RootKeys[n] # job.img.signer

CompleteInv ==
  /\ nkey \in 1 .. Len(RootKeys) + 1
  /\ Proper => Tried /\ (pc \in {"info", "done"} => info.valid)

Verdict ==
  LET s == IF InSlot(1, info.load) THEN 1 ELSE 0 IN
  [slt |-> s, ok |-> /\ info.valid
                      /\ Room(info.end - SlotStart[job.slt], s)
                      /\ NotOlder(s)]

RetInv ==
  /\ ret.slt \in Slot /\ ret.ok \in BOOLEAN
  /\ ret.ok => job.check
  /\ pc = "done" /\ job.check => ret = Verdict

IInv ==
  /\ pc \in {"open", "piece", "verify", "read", "overrun", "search", "compare", "info", "done"}
  /\ FlashInv /\ DigestInv /\ TlvInv /\ FindInv /\ InfoInv /\ InfoOfImage
  /\ CompleteInv /\ RetInv

-----------------------------------------------------------------------------
(* What flash and the image in it are *)

LEMMA JobTypes ==
  ASSUME job \in Checks \cup Looks
  PROVE  /\ job.img \in Images /\ job.img \in ImageInfos /\ Len(Header(job.img)) <= job.img.offset
         /\ job.img.offset \in Nat /\ job.img.size \in Nat \ {0} /\ job.img.load \in Nat
         /\ job.img.version \in Versions /\ job.img.signer \in Nat
         /\ job.img.key \in BOOLEAN /\ job.img.other \in BOOLEAN
         /\ job.slt \in Slot /\ job.eoff \in Nat /\ job.check \in BOOLEAN
         /\ job.check => job.slt = 1 /\ job.eoff = 0
         /\ job.prm \in Prms \cup {NoPrm}
         /\ SlotStart[job.slt] \in Nat /\ HdrAt \in Nat
<1>1. SectorSize \in Nat
  BY InfoAssumption
<1>2. /\ job.img \in Images /\ job.slt \in Slot /\ job.eoff \in Nat /\ job.check \in BOOLEAN
      /\ job.check => job.slt = 1 /\ job.eoff = 0
      /\ job.prm \in Prms \cup {NoPrm}
  <2>1. CASE job \in Checks
    <3>1. /\ job.img \in Images /\ job.check = TRUE /\ job.slt = 1 /\ job.eoff = 0
          /\ job.prm \in Prms \cup {NoPrm}
      BY <2>1 DEF Checks
    <3>2. 1 \in Slot /\ 0 \in Nat /\ TRUE \in BOOLEAN
      BY DEF Slot
    <3>3. QED
      BY <3>1, <3>2, Zenon
  <2>2. CASE job \in Looks
    <3>1. /\ job.img \in Images /\ job.check = FALSE /\ job.slt \in Slot
          /\ job.eoff = 0 \/ job.eoff = SectorSize
          /\ job.prm = NoPrm
      BY <2>2 DEF Looks
    <3>2. 0 \in Nat /\ FALSE \in BOOLEAN /\ NoPrm \in Prms \cup {NoPrm}
      OBVIOUS
    <3>3. QED
      BY <1>1, <3>1, <3>2, Zenon
  <2>3. QED
    BY <2>1, <2>2
<1>3. job.img \in ImageInfos /\ Len(Header(job.img)) <= job.img.offset
  <2>1. Images \subseteq ImageInfos /\ \A i \in Images : Len(Header(i)) <= i.offset
    BY InfoAssumption, Zenon
  <2>2. QED
    BY <1>2, <2>1, Zenon
<1>4. /\ job.img.offset \in Nat /\ job.img.size \in Nat \ {0} /\ job.img.load \in Nat
      /\ job.img.version \in Versions /\ job.img.signer \in Nat
      /\ job.img.key \in BOOLEAN /\ job.img.other \in BOOLEAN
  BY <1>3 DEF ImageInfos
<1>5. SlotStart[job.slt] \in Nat
  BY <1>2, InfoAssumption
<1>6. HdrAt \in Nat
  BY <1>2, <1>5 DEF HdrAt
<1>7. QED
  BY <1>2, <1>3, <1>4, <1>5, <1>6, Zenon

(* The cells of flash: how many, and which they are where a header is whole *)
(* in front.                                                                *)
LEMMA FlashCells ==
  ASSUME FlashInv
  PROVE  /\ Len(flash) = job.img.offset + job.img.size
         /\ \A n \in 1 .. job.img.offset + job.img.size : flash[n] \in Nat
         /\ 4 + Len(TlvBytes(job.img)) <= job.img.offset /\ Len(TlvBytes(job.img)) \in Nat
         /\ Len(Header(job.img)) = 4 + Len(TlvBytes(job.img))
<1>1. job.img \in ImageInfos /\ Len(Header(job.img)) <= job.img.offset
  BY JobTypes DEF FlashInv
<1>2. /\ Len(Shipped(job.img)) = job.img.offset + job.img.size
      /\ 4 + Len(TlvBytes(job.img)) <= job.img.offset /\ Len(TlvBytes(job.img)) \in Nat
  BY <1>1, ShippedCells, Zenon
<1>3. Len(Header(job.img)) = 4 + Len(TlvBytes(job.img))
  BY <1>1, HeaderCells, Zenon
<1>4. flash \in Seq(Nat) /\ Len(flash) = Len(Shipped(job.img))
  BY DEF FlashInv
<1>5. \A n \in 1 .. Len(flash) : flash[n] \in Nat
  BY <1>4
<1>6. Len(flash) = job.img.offset + job.img.size
  BY <1>2, <1>4
<1>7. \A n \in 1 .. job.img.offset + job.img.size : flash[n] \in Nat
  BY <1>5, <1>6, Zenon
<1>8. QED
  BY <1>2, <1>3, <1>6, <1>7, Zenon

LEMMA ReadNat ==
  ASSUME FlashInv, NEW a \in Nat
  PROVE  Read(a) \in Nat
<1>1. HdrAt \in Nat
  BY JobTypes DEF FlashInv
<1>2. Len(flash) \in Nat /\ \A n \in 1 .. Len(flash) : flash[n] \in Nat
  <2>1. flash \in Seq(Nat)
    BY DEF FlashInv
  <2>2. QED
    BY <2>1
<1>3. CASE a >= HdrAt /\ a - HdrAt < Len(flash)
  <2>1. a - HdrAt + 1 \in 1 .. Len(flash)
    BY <1>1, <1>2, <1>3
  <2>2. flash[a - HdrAt + 1] \in Nat
    BY <1>2, <2>1, Zenon
  <2>3. QED
    BY <1>3, <2>2 DEF Read
<1>4. CASE ~(a >= HdrAt /\ a - HdrAt < Len(flash))
  BY <1>4 DEF Read, Erased
<1>5. QED
  BY <1>3, <1>4

(* Read at a place of the image. *)
LEMMA ReadImage ==
  ASSUME FlashInv, NEW n \in 1 .. job.img.offset + job.img.size
  PROVE  Read(HdrAt + n - 1) = flash[n]
<1>1. /\ HdrAt \in Nat /\ job.img.offset \in Nat /\ job.img.size \in Nat
      /\ Len(flash) = job.img.offset + job.img.size
  BY JobTypes, FlashCells DEF FlashInv
<1> DEFINE a == HdrAt + n - 1
<1>2. a >= HdrAt /\ a - HdrAt < Len(flash) /\ a - HdrAt + 1 = n
  BY <1>1
<1> HIDE DEF a
<1>3. Read(a) = flash[n]
  BY <1>2 DEF Read
<1>4. QED
  BY <1>3 DEF a

LEMMA ReadHeader ==
  ASSUME FlashInv
  PROVE  Read(HdrAt) = flash[1] /\ Read(HdrAt + 1) = flash[2] /\ Read(HdrAt + 3) = flash[4]
<1>1. /\ HdrAt \in Nat /\ job.img.offset \in Nat /\ job.img.size \in Nat
      /\ 4 + Len(TlvBytes(job.img)) <= job.img.offset /\ Len(TlvBytes(job.img)) \in Nat
  BY JobTypes, FlashCells DEF FlashInv
<1>2. /\ 1 \in 1 .. job.img.offset + job.img.size /\ 2 \in 1 .. job.img.offset + job.img.size
      /\ 4 \in 1 .. job.img.offset + job.img.size
  BY <1>1
<1>3. /\ Read(HdrAt + 1 - 1) = flash[1] /\ Read(HdrAt + 2 - 1) = flash[2]
      /\ Read(HdrAt + 4 - 1) = flash[4]
  BY <1>2, ReadImage
<1>4. HdrAt + 1 - 1 = HdrAt /\ HdrAt + 2 - 1 = HdrAt + 1 /\ HdrAt + 4 - 1 = HdrAt + 3
  BY <1>1
<1>5. QED
  BY <1>3, <1>4

LEMMA ReadCellsSeq ==
  ASSUME FlashInv, NEW a \in Nat, NEW n \in Nat
  PROVE  /\ ReadCells(a, n) \in Seq(Nat) /\ Len(ReadCells(a, n)) = n
         /\ \A k \in 1 .. n : ReadCells(a, n)[k] = Read(a + k - 1)
<1>1. \A k \in 1 .. n : Read(a + k - 1) \in Nat
  BY ReadNat
<1>2. QED
  BY <1>1 DEF ReadCells

(* Cells that are read in two pieces. *)
LEMMA ReadInPieces ==
  ASSUME FlashInv, NEW a \in Nat, NEW m \in Nat, NEW n \in Nat
  PROVE  ReadCells(a, m) \o ReadCells(a + m, n) = ReadCells(a, m + n)
<1> DEFINE s == ReadCells(a, m)
           t == ReadCells(a + m, n)
           u == ReadCells(a, m + n)
<1>1. /\ s \in Seq(Nat) /\ Len(s) = m
      /\ \A k \in 1 .. m : s[k] = Read(a + k - 1)
  BY ReadCellsSeq, Zenon
<1>2. /\ t \in Seq(Nat) /\ Len(t) = n
      /\ \A k \in 1 .. n : t[k] = Read(a + m + k - 1)
  <2>1. PICK c \in Nat : c = a + m
    OBVIOUS
  <2>2. /\ ReadCells(c, n) \in Seq(Nat) /\ Len(ReadCells(c, n)) = n
        /\ \A k \in 1 .. n : ReadCells(c, n)[k] = Read(c + k - 1)
    BY ReadCellsSeq, Zenon
  <2>3. QED
    BY <2>1, <2>2, Zenon
<1>3. /\ u \in Seq(Nat) /\ Len(u) = m + n
      /\ \A k \in 1 .. m + n : u[k] = Read(a + k - 1)
  BY ReadCellsSeq
<1> HIDE DEF s, t, u
<1>4. /\ s \o t \in Seq(Nat) /\ Len(s \o t) = m + Len(t)
      /\ \A k \in 1 .. m : (s \o t)[k] = s[k]
      /\ \A k \in 1 .. Len(t) : (s \o t)[m + k] = t[k]
  BY <1>1, <1>2, Joined, Zenon
<1> DEFINE w == s \o t
<1> HIDE DEF w
<1>5. ASSUME NEW k \in 1 .. m + n PROVE w[k] = u[k]
  <2>1. CASE k <= m
    <3>1. k \in 1 .. m
      BY <2>1
    <3>2. QED
      BY <1>1, <1>3, <1>4, <3>1 DEF w
  <2>2. CASE k > m
    <3>1. PICK l \in 1 .. n : k = m + l
      <4>1. k - m \in 1 .. n /\ k = m + (k - m)
        BY <2>2
      <4>2. QED
        BY <4>1
    <3>2. w[m + l] = t[l]
      BY <1>2, <1>4, <3>1 DEF w
    <3>3. t[l] = Read(a + m + l - 1) /\ u[k] = Read(a + k - 1)
      BY <1>2, <1>3, Zenon
    <3>4. a + m + l - 1 = a + k - 1
      BY <3>1
    <3>5. QED
      BY <3>1, <3>2, <3>3, <3>4
  <2>3. QED
    BY <2>1, <2>2
<1>6. w \in Seq(Nat) /\ Len(w) = m + n
  BY <1>2, <1>4 DEF w
<1>7. Len(w) = Len(u) /\ \A k \in 1 .. Len(w) : w[k] = u[k]
  BY <1>3, <1>5, <1>6, Zenon
<1>8. w = u
  BY <1>3, <1>6, <1>7, SeqEqual, Zenon
<1>9. QED
  BY <1>8, Zenon DEF w, s, t, u

-----------------------------------------------------------------------------
(* The TLV area in RAM *)

(* A front part of the area, all of it where it was signed. *)
LEMMA TlvInFlash ==
  ASSUME FlashInv, job.check => SignedHeader, ~job.check => flash[2] # Erased
  PROVE  LET t == TlvBytes(job.img) IN
         /\ flash[2] = 4 + Len(t)
         /\ \E c \in Nat : /\ job.check => c > Len(t)
                         /\ \A n \in 1 .. Len(t) : flash[4 + n] = IF n < c THEN t[n] ELSE Erased
<1> DEFINE t == TlvBytes(job.img)
           s == Shipped(job.img)
<1>1. /\ Len(t) \in Nat /\ 4 + Len(t) <= job.img.offset
      /\ job.img.offset \in Nat /\ job.img.size \in Nat
      /\ Len(flash) = job.img.offset + job.img.size
  BY JobTypes, FlashCells DEF FlashInv
<1>2. s[2] = 4 + Len(t) /\ \A n \in 1 .. Len(t) : s[4 + n] = t[n]
  <2>1. job.img \in ImageInfos /\ Len(Header(job.img)) <= job.img.offset
    BY JobTypes DEF FlashInv
  <2>2. QED
    BY <2>1, ShippedCells, Zenon
<1>3. CASE job.check
  <2>1. /\ flash[2] = HdrSize + Len(t)
        /\ \A n \in 1 .. Len(t) : flash[HdrSize + n] = t[n]
    BY <1>3, Zenon DEF SignedHeader
  <2> HIDE DEF t
  <2>2. /\ flash[2] = 4 + Len(t)
        /\ \A n \in 1 .. Len(t) : flash[4 + n] = t[n]
    BY <2>1, Zenon DEF HdrSize
  <2>3. Len(t) + 1 \in Nat /\ Len(t) + 1 > Len(t) /\ \A n \in 1 .. Len(t) : n < Len(t) + 1
    BY <1>1
  <2>4. \A n \in 1 .. Len(t) : flash[4 + n] = IF n < Len(t) + 1 THEN t[n] ELSE Erased
    BY <2>2, <2>3
  <2>5. QED
    BY <2>2, <2>3, <2>4, Zenon DEF t
<1>4. CASE ~job.check
  <2>1. PICK d \in 1 .. Len(flash) + 1 : \A n \in 1 .. Len(flash) :
          flash[n] = IF n < d THEN s[n] ELSE Erased
    BY <1>4, Zenon DEF FlashInv
  <2> DEFINE c == IF d > 4 THEN d - 4 ELSE 0
  <2> HIDE DEF t, s
  <2>2. d \in Nat /\ d >= 3 /\ c \in Nat
    <3>1. d \in Nat /\ 2 \in 1 .. Len(flash)
      BY <1>1, <2>1
    <3>2. flash[2] = IF 2 < d THEN s[2] ELSE Erased
      BY <2>1, <3>1, Zenon
    <3>3. 2 < d
      BY <1>4, <3>2
    <3>4. QED
      BY <3>1, <3>3 DEF c
  <2>3. flash[2] = 4 + Len(t)
    <3>1. 2 \in 1 .. Len(flash) /\ 2 < d
      BY <1>1, <2>2
    <3>2. flash[2] = s[2]
      BY <2>1, <3>1
    <3>3. QED
      BY <1>2, <3>2
  <2>4. ASSUME NEW n \in 1 .. Len(t) PROVE flash[4 + n] = IF n < c THEN t[n] ELSE Erased
    <3>1. 4 + n \in 1 .. Len(flash) /\ (4 + n < d <=> n < c)
      BY <1>1, <2>2
    <3>2. flash[4 + n] = IF 4 + n < d THEN s[4 + n] ELSE Erased
      BY <2>1, <3>1
    <3>3. s[4 + n] = t[n]
      BY <1>2
    <3>4. QED
      BY <3>1, <3>2, <3>3, Zenon
  <2> HIDE DEF c
  <2>5. QED
    BY <1>4, <2>2, <2>3, <2>4, Zenon DEF t
<1>5. QED
  BY <1>3, <1>4

(* The area is in RAM as it is in flash: as imgtool wrote it, or only the   *)
(* front part of that.                                                      *)
LEMMA TlvRead ==
  ASSUME FlashInv, TlvInv, pc = "search" \/ Comparing
  PROVE  LET t == TlvBytes(job.img) IN
         /\ Len(t) = AreaLen(job.img) /\ Len(tlv) = AreaLen(job.img)
         /\ AreaLen(job.img) \in Nat
         /\ \A n \in 1 .. AreaLen(job.img) : tlv[n] = flash[4 + n] /\ tlv[n] \in Nat
         /\ \E c \in Nat : /\ job.check => c > AreaLen(job.img)
                         /\ \A n \in 1 .. AreaLen(job.img) :
                              tlv[n] = IF n < c THEN t[n] ELSE Erased
<1> DEFINE t == TlvBytes(job.img)
           l == AreaLen(job.img)
<1>1. Len(t) = l /\ l \in Nat
  <2>1. job.img \in ImageInfos
    BY JobTypes DEF FlashInv
  <2>2. Len(t) = l
    BY <2>1, TlvCells, Zenon
  <2>3. QED
    BY <2>1, <2>2 DEF AreaLen, Base, ImageInfos
<1>2. (job.check => SignedHeader) /\ flash[2] # Erased
  BY Zenon DEF TlvInv, Opened, TlvCopied
<1>3. tlv = [n \in 1 .. l |-> flash[4 + n]]
  BY <1>1, Zenon DEF TlvInv, TlvCopied, HdrSize
<1>4. \A n \in 1 .. l : flash[4 + n] \in Nat
  <2>1. /\ \A n \in 1 .. job.img.offset + job.img.size : flash[n] \in Nat
        /\ 4 + l <= job.img.offset /\ job.img.offset \in Nat /\ job.img.size \in Nat
    BY <1>1, FlashCells, JobTypes DEF FlashInv
  <2> HIDE DEF l
  <2>2. ASSUME NEW n \in 1 .. l PROVE 4 + n \in 1 .. job.img.offset + job.img.size
    BY <1>1, <2>1
  <2>3. QED
    BY <2>1, <2>2, Zenon
<1>5. \E c \in Nat : /\ job.check => c > l
                  /\ \A n \in 1 .. l : flash[4 + n] = IF n < c THEN t[n] ELSE Erased
  BY <1>1, <1>2, TlvInFlash, Zenon
<1> HIDE DEF t, l
<1>6. \A n \in 1 .. l : tlv[n] = flash[4 + n] /\ tlv[n] \in Nat
  BY <1>3, <1>4
<1>7. Len(tlv) = l
  BY <1>1, <1>3
<1>8. \E c \in Nat : /\ job.check => c > l
                  /\ \A n \in 1 .. l : tlv[n] = IF n < c THEN t[n] ELSE Erased
  <2>1. PICK c \in Nat : /\ job.check => c > l
                     /\ \A n \in 1 .. l : flash[4 + n] = IF n < c THEN t[n] ELSE Erased
    BY <1>5
  <2>2. \A n \in 1 .. l : tlv[n] = IF n < c THEN t[n] ELSE Erased
    BY <1>6, <2>1
  <2>3. QED
    BY <2>1, <2>2
<1>9. QED
  BY <1>1, <1>6, <1>7, <1>8, Zenon DEF t, l

(* An entry is as imgtool wrote it, with all in front of it, or it has no   *)
(* length that leads to a place within the area.                            *)
LEMMA EntryRead ==
  ASSUME FlashInv, TlvInv, pc = "search" \/ Comparing,
         NEW o \in Entries(job.img), NEW want \in Wanted, o <= Place(job.img, want)
  PROVE  LET t == TlvBytes(job.img) IN
         /\ o \in Nat /\ tlv[o + 1] \in Nat /\ tlv[o + 2] \in Nat
         /\ \/ \A n \in 1 .. o + 2 : n \in 1 .. AreaLen(job.img) /\ tlv[n] = t[n]
            \/ tlv[o + 2] = 255 /\ ~job.check
<1> DEFINE t == TlvBytes(job.img)
           l == AreaLen(job.img)
<1>1. o \in Nat /\ o + 3 <= l
  <2>1. job.img \in ImageInfos
    BY JobTypes DEF FlashInv
  <2>2. InPlace(t, job.img, o, want)
    BY <2>1, EntryOrder, Zenon
  <2>3. QED
    BY <2>2 DEF InPlace
<1>2. l \in Nat /\ \A n \in 1 .. l : tlv[n] \in Nat
  BY TlvRead, Zenon
<1>3. PICK c \in Nat : /\ job.check => c > l
                   /\ \A n \in 1 .. l : tlv[n] = IF n < c THEN t[n] ELSE Erased
  BY TlvRead, Zenon
<1> HIDE DEF t, l
<1>4. o + 1 \in 1 .. l /\ o + 2 \in 1 .. l
  BY <1>1, <1>2
<1>5. tlv[o + 1] \in Nat /\ tlv[o + 2] \in Nat
  BY <1>2, <1>4, Zenon
<1>6. CASE o + 2 < c
  <2>1. ASSUME NEW n \in 1 .. o + 2 PROVE n \in 1 .. l /\ tlv[n] = t[n]
    <3>1. n \in 1 .. l /\ n < c
      BY <1>1, <1>2, <1>6
    <3>2. QED
      BY <1>3, <3>1
  <2>2. QED
    BY <1>1, <1>5, <2>1, Zenon DEF t, l
<1>7. CASE ~(o + 2 < c)
  <2>1. tlv[o + 2] = 255
    BY <1>3, <1>4, <1>7 DEF Erased
  <2>2. ~(c > l)
    BY <1>1, <1>2, <1>7
  <2>3. QED
    BY <1>1, <1>3, <1>5, <2>1, <2>2, Zenon
<1>8. QED
  BY <1>6, <1>7

-----------------------------------------------------------------------------
(* The search *)

LEMMA EntryFacts ==
  ASSUME NEW i \in ImageInfos, NEW want \in Wanted
  PROVE  /\ AreaLen(i) \in Nat /\ AreaLen(i) >= 14 /\ AreaLen(i) <= 20
         /\ Place(i, want) \in Nat /\ Place(i, want) <= AreaLen(i)
         /\ 0 \in Entries(i)
         /\ Place(i, want) < AreaLen(i) => Place(i, want) \in Entries(i)
         /\ Place(i, want) = AreaLen(i) => want = TLVE_IMAGE_EPUBKEY /\ ~i.key
  BY DEF ImageInfos, AreaLen, Base, Place, Entries, Wanted, TLVE_IMAGE_TYPE, TLVE_IMAGE_INFO,
         TLVE_IMAGE_HASH, TLVE_IMAGE_EPUBKEY

(* LengthOf is sizeof of what is copied out of an entry. *)
LEMMA LengthOfEntry ==
  ASSUME FlashInv, NEW want \in Wanted
  PROVE  LengthOf(want) = IF want = TLVE_IMAGE_INFO THEN 6 ELSE 1
<1>1. Len(InfoValue(job.img)) = 6
  BY InfoValueCells, JobTypes, Zenon DEF FlashInv
<1>2. QED
  BY <1>1 DEF LengthOf

(* The next entry that is looked at lies within the area. *)
LEMMA NextEntry ==
  ASSUME FlashInv, TlvInv, FindInv, pc = "search", Searching
  PROVE  find.off \in Entries(job.img) /\ find.off <= Place(job.img, find.want)
<1> DEFINE i == job.img
           t == TlvBytes(i)
           l == AreaLen(i)
<1>1. i \in ImageInfos
  BY JobTypes DEF FlashInv
<1>2. find.want \in Wanted /\ find.type # find.want /\ find.off < Len(tlv)
  BY DEF FindInv, Searching
<1>3. Len(tlv) = l
  BY TlvRead, Zenon
<1>4. /\ 0 \in Entries(i) /\ 0 <= Place(i, find.want) /\ l \in Nat /\ l <= 20
  <2>1. /\ l \in Nat /\ l <= 20 /\ Place(i, find.want) \in Nat /\ 0 \in Entries(i)
    BY <1>1, <1>2, EntryFacts, Zenon
  <2>2. QED
    BY <2>1
<1>5. CASE find.type = 0 /\ find.off = 0
  BY <1>4, <1>5
<1>6. CASE \E o \in Entries(i) : OnEntry(o)
  <2>1. PICK o \in Entries(i) : OnEntry(o)
    BY <1>6
  <2>2. /\ o <= Place(i, find.want) /\ find.type = tlv[o + 1] /\ find.length = tlv[o + 2]
        /\ find.off = o + 2 + find.length
    BY <2>1 DEF OnEntry
  <2>3. /\ o \in Nat /\ tlv[o + 1] \in Nat /\ tlv[o + 2] \in Nat
        /\ \/ \A n \in 1 .. o + 2 : n \in 1 .. l /\ tlv[n] = t[n]
           \/ tlv[o + 2] = 255 /\ ~job.check
    BY <1>2, <2>2, EntryRead, Zenon
  <2>4. InPlace(t, i, o, find.want)
    BY <1>1, <1>2, <2>2, EntryOrder, Zenon
  <2> HIDE DEF t, l
  <2>5. tlv[o + 2] # 255
    BY <1>2, <1>3, <1>4, <2>2, <2>3
  <2>6. \A n \in 1 .. o + 2 : tlv[n] = t[n]
    BY <2>3, <2>5, Zenon
  <2>7. tlv[o + 1] = t[o + 1] /\ tlv[o + 2] = t[o + 2]
    <3>1. o + 1 \in 1 .. o + 2 /\ o + 2 \in 1 .. o + 2
      BY <2>3
    <3>2. QED
      BY <2>6, <3>1, Zenon
  <2>8. t[o + 1] # find.want
    BY <1>2, <2>2, <2>7
  <2>9. /\ o + 2 + t[o + 2] <= Place(i, find.want)
        /\ o + 2 + t[o + 2] \in Entries(i) \cup {l}
    BY <2>4, <2>8, Zenon DEF InPlace, l
  <2>10. find.off <= Place(i, find.want) /\ find.off \in Entries(i) \cup {l}
    BY <2>2, <2>7, <2>9, Zenon
  <2>11. find.off # l
    BY <1>2, <1>3, <1>4
  <2>12. QED
    BY <2>10, <2>11
<1>7. QED
  BY <1>5, <1>6, Zenon DEF FindInv, OnSomeEntry

(* What is found is the entry that was looked for, as imgtool wrote it up   *)
(* to its value.                                                            *)
LEMMA FoundEntry ==
  ASSUME FlashInv, TlvInv, FindInv, pc = "search" \/ Comparing, find.want \in Wanted,
         find.type = find.want, find.length = LengthOf(find.want)
  PROVE  LET p == Place(job.img, find.want) IN
         /\ p \in Entries(job.img) /\ p \in Nat /\ find.value = p + 2
         /\ \A n \in 1 .. p + 2 : /\ n \in 1 .. AreaLen(job.img)
                                 /\ tlv[n] = TlvBytes(job.img)[n]
<1> DEFINE i == job.img
           t == TlvBytes(i)
           l == AreaLen(i)
           p == Place(i, find.want)
<1>1. i \in ImageInfos
  BY JobTypes DEF FlashInv
<1>2. find.type # 0
  BY DEF Wanted, TLVE_IMAGE_TYPE, TLVE_IMAGE_INFO, TLVE_IMAGE_HASH, TLVE_IMAGE_EPUBKEY
<1>3. PICK o \in Entries(i) : OnEntry(o)
  BY <1>2, Zenon DEF FindInv, OnSomeEntry
<1>4. /\ o <= p /\ find.type = tlv[o + 1] /\ find.length = tlv[o + 2]
      /\ find.value = o + 2
  BY <1>3 DEF OnEntry
<1>5. /\ o \in Nat /\ tlv[o + 1] \in Nat /\ tlv[o + 2] \in Nat
      /\ \/ \A n \in 1 .. o + 2 : n \in 1 .. l /\ tlv[n] = t[n]
         \/ tlv[o + 2] = 255 /\ ~job.check
  BY <1>4, EntryRead, Zenon
<1>6. InPlace(t, i, o, find.want)
  BY <1>1, <1>4, EntryOrder, Zenon
<1> HIDE DEF t, l, p
<1>7. tlv[o + 2] # 255
  BY <1>4, LengthOfEntry
<1>8. \A n \in 1 .. o + 2 : n \in 1 .. l /\ tlv[n] = t[n]
  BY <1>5, <1>7, Zenon
<1>9. tlv[o + 1] = t[o + 1]
  <2>1. o + 1 \in 1 .. o + 2
    BY <1>5
  <2>2. QED
    BY <1>8, <2>1, Zenon
<1>10. o = p
  BY <1>4, <1>6, <1>9, Zenon DEF InPlace, p
<1>11. QED
  BY <1>4, <1>5, <1>8, <1>10, Zenon DEF t, l, p

(* Nothing is missing in a whole area but a key that is not there. *)
LEMMA NothingMissed ==
  ASSUME FlashInv, TlvInv, FindInv, pc = "search", ~Searching,
         ~(find.type = find.want /\ find.length = LengthOf(find.want)),
         \A n \in 1 .. AreaLen(job.img) : tlv[n] = TlvBytes(job.img)[n]
  PROVE  find.want = TLVE_IMAGE_EPUBKEY /\ ~job.img.key
<1> DEFINE i == job.img
           t == TlvBytes(i)
           l == AreaLen(i)
           p == Place(i, find.want)
<1>1. i \in ImageInfos
  BY JobTypes DEF FlashInv
<1>2. find.want \in Wanted
  BY DEF FindInv
<1>3. Len(tlv) = l
  BY TlvRead, Zenon
<1>4. /\ l \in Nat /\ l >= 14 /\ p \in Nat /\ p <= l
      /\ p = l => find.want = TLVE_IMAGE_EPUBKEY /\ ~i.key
  BY <1>1, <1>2, EntryFacts, Zenon
<1> HIDE DEF p, t, l
<1>5. SUFFICES p >= l
  BY <1>4
<1>6. CASE find.type = 0 /\ find.off = 0
  <2>1. find.type # find.want
    BY <1>2, <1>6 DEF Wanted, TLVE_IMAGE_TYPE, TLVE_IMAGE_INFO, TLVE_IMAGE_HASH, TLVE_IMAGE_EPUBKEY
  <2>2. QED
    BY <1>3, <1>4, <1>6, <2>1 DEF Searching
<1>7. CASE \E o \in Entries(i) : OnEntry(o)
  <2>1. PICK o \in Entries(i) : OnEntry(o)
    BY <1>7
  <2>2. /\ o <= p /\ find.type = tlv[o + 1] /\ find.length = tlv[o + 2]
        /\ find.off = o + 2 + find.length
    BY <2>1 DEF OnEntry, p
  <2>3. InPlace(t, i, o, find.want)
    BY <1>1, <1>2, <2>2, EntryOrder, Zenon DEF t, p
  <2>4. o \in Nat /\ o + 3 <= l
    BY <2>3 DEF InPlace, l
  <2>5. find.type = t[o + 1] /\ find.length = t[o + 2]
    <3>1. o + 1 \in 1 .. l /\ o + 2 \in 1 .. l
      BY <1>4, <2>4
    <3>2. QED
      BY <2>2, <3>1, Zenon DEF t, l
  <2>6. find.length = IF find.type = TLVE_IMAGE_INFO THEN 6 ELSE 1
    BY <2>3, <2>5, Zenon DEF InPlace
  <2>7. find.type # find.want
    <3>1. LengthOf(find.want) = IF find.want = TLVE_IMAGE_INFO THEN 6 ELSE 1
      BY <1>2, LengthOfEntry, Zenon
    <3>2. QED
      BY <2>6, <3>1, Zenon
  <2>8. o + 2 + t[o + 2] <= p
    BY <2>3, <2>5, <2>7, Zenon DEF InPlace, p
  <2>9. find.off >= l
    BY <1>3, <1>4, <2>2, <2>4, <2>6, <2>7 DEF Searching
  <2>10. QED
    BY <1>4, <2>2, <2>4, <2>5, <2>6, <2>8, <2>9
<1>8. QED
  BY <1>6, <1>7, Zenon DEF FindInv, OnSomeEntry

-----------------------------------------------------------------------------
(* What a hash says of the cells that it was computed over *)

LEMMA GoodSize ==
  ASSUME FlashInv, GoodHeader
  PROVE  flash[1] = TLV_AREA_MAGIC /\ TlvSize \in Nat /\ flash[2] = 4 + TlvSize
<1>1. HdrAt \in Nat /\ HdrAt + 1 \in Nat
  BY JobTypes DEF FlashInv
<1>2. Read(HdrAt + 1) \in Nat
  BY <1>1, ReadNat
<1>3. Read(HdrAt) = flash[1] /\ Read(HdrAt + 1) = flash[2]
  BY ReadHeader
<1>4. QED
  BY <1>2, <1>3 DEF GoodHeader, TlvSize, HdrSize

(* The hash of the signature is that of the area only if all of it is whole.*)
LEMMA HashedTlv ==
  ASSUME FlashInv, GoodHeader
  PROVE  LET t == TlvBytes(job.img) IN
         ReadCells(HdrAt + HdrSize, TlvSize) = t
           <=> flash[2] = 4 + Len(t) /\ \A n \in 1 .. Len(t) : flash[4 + n] = t[n]
<1> DEFINE t == TlvBytes(job.img)
           r == ReadCells(HdrAt + HdrSize, TlvSize)
<1>1. TlvSize \in Nat /\ flash[2] = 4 + TlvSize /\ HdrAt \in Nat
  BY GoodSize, JobTypes DEF FlashInv
<1>2. t \in Seq(Nat) /\ Len(t) \in Nat
  BY TlvCells, FlashCells, JobTypes, Zenon DEF FlashInv
<1>3. /\ r \in Seq(Nat) /\ Len(r) = TlvSize
      /\ \A k \in 1 .. TlvSize : r[k] = Read(HdrAt + HdrSize + k - 1)
  <2>1. PICK a \in Nat : a = HdrAt + HdrSize
    BY <1>1 DEF HdrSize
  <2>2. /\ ReadCells(a, TlvSize) \in Seq(Nat) /\ Len(ReadCells(a, TlvSize)) = TlvSize
        /\ \A k \in 1 .. TlvSize : ReadCells(a, TlvSize)[k] = Read(a + k - 1)
    BY <1>1, ReadCellsSeq, Zenon
  <2>3. QED
    BY <2>1, <2>2, Zenon
<1>4. /\ 4 + Len(t) <= job.img.offset /\ job.img.offset \in Nat /\ job.img.size \in Nat
  BY FlashCells, JobTypes DEF FlashInv
<1> HIDE DEF t, r
<1>5. ASSUME TlvSize = Len(t), NEW n \in 1 .. Len(t) PROVE r[n] = flash[4 + n]
  <2>1. 4 + n \in 1 .. job.img.offset + job.img.size
    BY <1>2, <1>4
  <2>2. Read(HdrAt + (4 + n) - 1) = flash[4 + n]
    BY <2>1, ReadImage, Zenon
  <2>3. r[n] = Read(HdrAt + HdrSize + n - 1)
    BY <1>3, <1>5, Zenon
  <2>4. HdrAt + (4 + n) - 1 = HdrAt + HdrSize + n - 1
    BY <1>1 DEF HdrSize
  <2>5. QED
    BY <2>2, <2>3, <2>4
<1>6. ASSUME r = t
      PROVE  flash[2] = 4 + Len(t) /\ \A n \in 1 .. Len(t) : flash[4 + n] = t[n]
  <2>1. TlvSize = Len(t)
    BY <1>3, <1>6, Zenon
  <2>2. flash[2] = 4 + Len(t)
    BY <1>1, <2>1
  <2>3. \A n \in 1 .. Len(t) : flash[4 + n] = t[n]
    BY <1>5, <1>6, <2>1, Zenon
  <2>4. QED
    BY <2>2, <2>3
<1>7. ASSUME flash[2] = 4 + Len(t), \A n \in 1 .. Len(t) : flash[4 + n] = t[n]
      PROVE  r = t
  <2>1. TlvSize = Len(t)
    BY <1>1, <1>2, <1>7
  <2>2. Len(r) = Len(t) /\ \A n \in 1 .. Len(r) : r[n] = t[n]
    BY <1>3, <1>5, <1>7, <2>1, Zenon
  <2>3. QED
    BY <1>2, <1>3, <2>2, SeqEqual, Zenon
<1>8. QED
  BY <1>6, <1>7, Zenon DEF t, r

(* The hash of the image is the one in the header only if all of it is whole.*)
LEMMA HashedBody ==
  ASSUME FlashInv
  PROVE  ReadCells(HdrAt + job.img.offset, job.img.size) = Body(job.img) <=> BodyIsWhole
<1> DEFINE o == job.img.offset
           z == job.img.size
           y == Body(job.img)
           r == ReadCells(HdrAt + o, z)
<1>1. o \in Nat /\ z \in Nat /\ HdrAt \in Nat
  BY JobTypes DEF FlashInv
<1>2. y \in Seq(Nat) /\ Len(y) = z
  BY <1>1 DEF Body
<1>3. /\ r \in Seq(Nat) /\ Len(r) = z
      /\ \A k \in 1 .. z : r[k] = Read(HdrAt + o + k - 1)
  <2>1. PICK a \in Nat : a = HdrAt + o
    BY <1>1
  <2>2. /\ ReadCells(a, z) \in Seq(Nat) /\ Len(ReadCells(a, z)) = z
        /\ \A k \in 1 .. z : ReadCells(a, z)[k] = Read(a + k - 1)
    BY <1>1, ReadCellsSeq, Zenon
  <2>3. QED
    BY <2>1, <2>2, Zenon
<1> HIDE DEF y, r
<1>4. ASSUME NEW k \in 1 .. z PROVE r[k] = flash[o + k]
  <2>1. o + k \in 1 .. o + z
    BY <1>1
  <2>2. Read(HdrAt + (o + k) - 1) = flash[o + k]
    BY <2>1, ReadImage, Zenon
  <2>3. r[k] = Read(HdrAt + o + k - 1)
    BY <1>3, Zenon
  <2>4. HdrAt + (o + k) - 1 = HdrAt + o + k - 1
    BY <1>1
  <2>5. QED
    BY <2>2, <2>3, <2>4, Zenon
<1>5. r = y => \A k \in 1 .. z : flash[o + k] = y[k]
  BY <1>4, Zenon
<1>6. ASSUME \A k \in 1 .. z : flash[o + k] = y[k]
      PROVE  r = y
  <2>1. Len(r) = Len(y) /\ \A k \in 1 .. Len(r) : r[k] = y[k]
    BY <1>2, <1>3, <1>4, <1>6, Zenon
  <2>2. QED
    BY <1>2, <1>3, <2>1, SeqEqual, Zenon
<1>7. QED
  BY <1>5, <1>6, Zenon DEF BodyIsWhole, y, r

-----------------------------------------------------------------------------
(* Whole images *)

LEMMA WholeCells ==
  ASSUME FlashInv, Whole(flash, job.img)
  PROVE  LET t == TlvBytes(job.img) IN
         /\ GoodHeader /\ flash[1] = TLV_AREA_MAGIC
         /\ flash[2] = 4 + Len(t) /\ flash[4] = Signature(job.img.signer)
         /\ \A n \in 1 .. Len(t) : flash[4 + n] = t[n]
         /\ BodyIsWhole
<1> DEFINE i == job.img
           t == TlvBytes(i)
           s == Shipped(i)
           y == Body(i)
<1>1. i \in ImageInfos /\ Len(Header(i)) <= i.offset /\ i.offset \in Nat /\ i.size \in Nat
  BY JobTypes DEF FlashInv
<1>2. /\ Len(t) \in Nat
      /\ s[1] = TLV_AREA_MAGIC /\ s[2] = 4 + Len(t) /\ s[4] = Signature(i.signer)
      /\ \A n \in 1 .. Len(t) : s[4 + n] = t[n]
      /\ \A k \in 1 .. i.size : s[i.offset + k] = y[k]
  BY <1>1, ShippedCells, Zenon
<1>3. Len(Header(i)) = 4 + Len(t)
  BY <1>1, HeaderCells, Zenon
<1>4. \A k \in Covered(i) : flash[k] = s[k]
  BY DEF Whole
<1>5. Covered(i) = (1 .. 4 + Len(t) \ {3}) \cup (i.offset + 1 .. i.offset + i.size)
  BY <1>3 DEF Covered
<1> HIDE DEF t, s, y
<1>6. 1 \in Covered(i) /\ 2 \in Covered(i) /\ 4 \in Covered(i)
  BY <1>2, <1>5
<1>7. flash[1] = TLV_AREA_MAGIC /\ flash[2] = 4 + Len(t) /\ flash[4] = Signature(i.signer)
  BY <1>2, <1>4, <1>6, Zenon
<1>8. ASSUME NEW n \in 1 .. Len(t) PROVE flash[4 + n] = t[n]
  <2>1. 4 + n \in Covered(i)
    BY <1>2, <1>5
  <2>2. QED
    BY <1>2, <1>4, <2>1, Zenon
<1>9. ASSUME NEW k \in 1 .. i.size PROVE flash[i.offset + k] = y[k]
  <2>1. i.offset + k \in Covered(i)
    BY <1>1, <1>5
  <2>2. QED
    BY <1>2, <1>4, <2>1, Zenon
<1>10. GoodHeader
  <2>1. Read(HdrAt) = flash[1] /\ Read(HdrAt + 1) = flash[2]
    BY ReadHeader
  <2>2. flash[2] >= 4
    BY <1>2, <1>7
  <2>3. QED
    BY <1>7, <2>1, <2>2 DEF GoodHeader, HdrSize
<1>11. QED
  BY <1>7, <1>8, <1>9, <1>10, Zenon DEF t, y, BodyIsWhole

(* A signed header and a whole image behind it are all that is covered. *)
LEMMA CellsWhole ==
  ASSUME FlashInv, SignedHeader, BodyIsWhole
  PROVE  Whole(flash, job.img)
<1> DEFINE i == job.img
           t == TlvBytes(i)
           s == Shipped(i)
           y == Body(i)
<1>1. i \in ImageInfos /\ Len(Header(i)) <= i.offset /\ i.offset \in Nat /\ i.size \in Nat
  BY JobTypes DEF FlashInv
<1>2. /\ Len(t) \in Nat
      /\ s[1] = TLV_AREA_MAGIC /\ s[2] = 4 + Len(t) /\ s[4] = Signature(i.signer)
      /\ \A n \in 1 .. Len(t) : s[4 + n] = t[n]
      /\ \A k \in 1 .. i.size : s[i.offset + k] = y[k]
  BY <1>1, ShippedCells, Zenon
<1>3. Len(Header(i)) = 4 + Len(t)
  BY <1>1, HeaderCells, Zenon
<1>4. /\ flash[1] = TLV_AREA_MAGIC /\ flash[2] = 4 + Len(t) /\ flash[4] = Signature(i.signer)
      /\ \A n \in 1 .. Len(t) : flash[4 + n] = t[n]
      /\ \A k \in 1 .. i.size : flash[i.offset + k] = y[k]
  BY Zenon DEF SignedHeader, BodyIsWhole, HdrSize
<1>5. Covered(i) = (1 .. 4 + Len(t) \ {3}) \cup (i.offset + 1 .. i.offset + i.size)
  BY <1>3 DEF Covered
<1> HIDE DEF t, s, y
<1>6. SUFFICES ASSUME NEW k \in Covered(i) PROVE flash[k] = s[k]
  BY DEF Whole, s
<1>7. CASE k = 1 \/ k = 2 \/ k = 4
  BY <1>2, <1>4, <1>7
<1>8. CASE k \in 5 .. 4 + Len(t)
  <2>1. k - 4 \in 1 .. Len(t) /\ 4 + (k - 4) = k
    BY <1>2, <1>8
  <2>2. flash[4 + (k - 4)] = t[k - 4] /\ s[4 + (k - 4)] = t[k - 4]
    BY <1>2, <1>4, <2>1, Zenon
  <2>3. QED
    BY <2>1, <2>2
<1>9. CASE k \in i.offset + 1 .. i.offset + i.size
  <2>1. k - i.offset \in 1 .. i.size /\ i.offset + (k - i.offset) = k
    <3>1. PICK o \in Nat, z \in Nat : o = i.offset /\ z = i.size
      BY <1>1
    <3>2. k \in o + 1 .. o + z
      BY <1>9, <3>1, Zenon
    <3>3. k - o \in 1 .. z /\ o + (k - o) = k
      BY <3>2
    <3>4. QED
      BY <3>1, <3>3, Zenon
  <2>2. /\ flash[i.offset + (k - i.offset)] = y[k - i.offset]
        /\ s[i.offset + (k - i.offset)] = y[k - i.offset]
    BY <1>2, <1>4, <2>1, Zenon
  <2>3. QED
    BY <2>1, <2>2
<1>10. QED
  BY <1>2, <1>5, <1>7, <1>8, <1>9

-----------------------------------------------------------------------------
(* What a step leaves alone *)

LEMMA SamePlace ==
  ASSUME UNCHANGED <<job, flash>>
  PROVE  /\ FlashInv' <=> FlashInv
         /\ SignedHeader' <=> SignedHeader
         /\ BodyIsWhole' <=> BodyIsWhole
         /\ GoodHeader' <=> GoodHeader
         /\ Proper' <=> Proper
  BY DEF FlashInv, Checks, Looks, SignedHeader, InRoot, BodyIsWhole, GoodHeader, Proper, Whole,
         Read, HdrAt

LEMMA SameHashed ==
  ASSUME UNCHANGED <<job, flash, rd, fed, info>>
  PROVE  /\ Feeding' <=> Feeding
         /\ TlvHashed' <=> TlvHashed
         /\ BodyHashed' <=> BodyHashed
  BY DEF Feeding, TlvHashed, BodyHashed, GoodHeader, DigestAt, DigestLen, TlvSize, ReadCells, Read,
         HdrAt

LEMMA SameTlv ==
  ASSUME UNCHANGED <<job, flash, tlv>>
  PROVE  TlvCopied' <=> TlvCopied
  BY DEF TlvCopied

LEMMA SameEntry ==
  ASSUME UNCHANGED <<job, tlv, find>>
  PROVE  OnSomeEntry' <=> OnSomeEntry
  BY DEF OnSomeEntry, OnEntry

LEMMA SameInfo ==
  ASSUME UNCHANGED <<job, flash, tlv, info>>
  PROVE  /\ InfoCopied' <=> InfoCopied
         /\ InfoRead' <=> InfoRead
         /\ InfoOfImage' <=> InfoOfImage
  BY DEF InfoCopied, InfoRead, InfoOfImage

LEMMA SameTried ==
  ASSUME UNCHANGED <<job, nkey>>
  PROVE  Tried' <=> Tried
  BY DEF Tried

LEMMA SameVerdict ==
  ASSUME UNCHANGED <<job, info>>
  PROVE  Verdict' = Verdict
  BY DEF Verdict, InSlot, Room, NotOlder

-----------------------------------------------------------------------------
(* The steps: each keeps the invariant, one lemma for each action. *)

LEMMA RefuseStep ==
  ASSUME IInv, pc \in {"open", "verify", "read", "search", "compare"}, ~Proper, Refuse
  PROVE  IInv'
<1>1. /\ FlashInv /\ DigestInv /\ TlvInv /\ FindInv /\ InfoInv /\ InfoOfImage
      /\ CompleteInv /\ RetInv
  BY Zenon DEF IInv
<1>2. /\ pc' = "info" /\ job' = job /\ flash' = flash /\ rd' = rd /\ fed' = fed
      /\ nkey' = nkey /\ tlv' = tlv /\ find' = find /\ info' = info /\ ret' = ret
  BY Zenon DEF Refuse, Keep
<1>3. /\ FlashInv' <=> FlashInv
      /\ Proper' <=> Proper
      /\ InfoOfImage' <=> InfoOfImage
  BY <1>2, SamePlace, SameInfo, Zenon
<1>4. ~info.valid /\ pc # "piece"
  BY <1>1 DEF InfoInv
<1>5. DigestInv'
  BY <1>1, <1>2 DEF DigestInv
<1>6. TlvInv'
  BY <1>2, <1>4 DEF TlvInv, Opened, Comparing
<1>7. FindInv'
  BY <1>2 DEF FindInv, Comparing
<1>8. InfoInv'
  BY <1>1, <1>2, <1>4 DEF InfoInv, Comparing, KeyWanted
<1>9. CompleteInv'
  BY <1>1, <1>2, <1>3 DEF CompleteInv
<1>10. RetInv'
  BY <1>1, <1>2 DEF RetInv
<1>11. QED
  BY <1>1, <1>2, <1>3, <1>5, <1>6, <1>7, <1>8, <1>9, <1>10, Zenon DEF IInv

(* Only what is not proper is refused. *)
LEMMA NoMagicStep ==
  ASSUME IInv, NoMagic
  PROVE  IInv'
<1>1. FlashInv /\ pc = "open" /\ ~GoodHeader /\ Refuse
  BY Zenon DEF IInv, NoMagic
<1>2. ~Proper
  BY <1>1, WholeCells, Zenon DEF Proper
<1>3. QED
  BY <1>1, <1>2, RefuseStep

LEMMA NoKeyLeftStep ==
  ASSUME IInv, NoKeyLeft
  PROVE  IInv'
<1>1. CompleteInv /\ pc = "verify" /\ nkey > Len(RootKeys) /\ Refuse
  BY Zenon DEF IInv, NoKeyLeft
<1>2. ASSUME Proper PROVE FALSE
  <2>1. PICK n \in 1 .. Len(RootKeys) : RootKeys[n] = job.img.signer
    BY <1>2 DEF Proper, InRoot
  <2>2. /\ nkey \in 1 .. Len(RootKeys) + 1
        /\ \A m \in 1 .. nkey - 1 : RootKeys[m] # job.img.signer
    BY <1>1, <1>2, Zenon DEF CompleteInv, Tried
  <2>3. Len(RootKeys) \in Nat
    BY InfoAssumption
  <2>4. n \in 1 .. nkey - 1
    BY <1>1, <2>1, <2>2, <2>3
  <2>5. QED
    BY <2>1, <2>2, <2>4, Zenon
<1>3. QED
  BY <1>1, <1>2, RefuseStep

(* Where the area is whole the search goes on to the end. *)
LEMMA ProperTlv ==
  ASSUME FlashInv, TlvInv, pc = "search" \/ Comparing, job.check
  PROVE  \A n \in 1 .. AreaLen(job.img) : tlv[n] = TlvBytes(job.img)[n]
<1> DEFINE t == TlvBytes(job.img)
           l == AreaLen(job.img)
<1>1. PICK c \in Nat : /\ job.check => c > l
                   /\ \A n \in 1 .. l : tlv[n] = IF n < c THEN t[n] ELSE Erased
  BY TlvRead, Zenon
<1>2. c > l /\ l \in Nat
  BY <1>1, TlvRead, Zenon
<1> HIDE DEF t, l
<1>3. \A n \in 1 .. l : tlv[n] = t[n]
  BY <1>1, <1>2
<1>4. QED
  BY <1>3, Zenon DEF t, l

LEMMA MissingEntryStep ==
  ASSUME IInv, MissingEntry
  PROVE  IInv'
<1>1. FlashInv /\ TlvInv /\ FindInv
  BY Zenon DEF IInv
<1>2. PICK type \in {TLVE_IMAGE_TYPE, TLVE_IMAGE_INFO, TLVE_IMAGE_HASH} : NotFound(type)
  BY Zenon DEF MissingEntry
<1>3. /\ pc = "search" /\ ~Searching /\ find.want = type
      /\ ~(find.type = find.want /\ find.length = LengthOf(find.want))
  BY <1>2, Zenon DEF NotFound
<1>4. find.want # TLVE_IMAGE_EPUBKEY
  BY <1>2, <1>3 DEF TLVE_IMAGE_TYPE, TLVE_IMAGE_INFO, TLVE_IMAGE_HASH, TLVE_IMAGE_EPUBKEY
<1>5. ~Proper
  <2>1. job.check => \A n \in 1 .. AreaLen(job.img) : tlv[n] = TlvBytes(job.img)[n]
    BY <1>1, <1>3, ProperTlv, Zenon
  <2>2. QED
    BY <1>1, <1>3, <1>4, <2>1, NothingMissed, Zenon DEF Proper
<1>6. QED
  BY <1>3, <1>5, RefuseStep DEF MissingEntry

(* A loop over pieces begins at the write block that its first cell is in.  *)
LEMMA Aligned ==
  ASSUME NEW a \in Nat
  PROVE  /\ AlignOffset(a) \in Nat /\ AlignOffset(a) <= a /\ a - AlignOffset(a) < WriteBlock
<1>1. WriteBlock \in Nat \ {0}
  BY InfoAssumption
<1>2. a % WriteBlock \in 0 .. WriteBlock - 1 /\ a % WriteBlock <= a
  BY <1>1
<1>3. QED
  BY <1>1, <1>2 DEF AlignOffset

(* When a loop over pieces begins nothing has been fed. *)
LEMMA DigestStart ==
  ASSUME FlashInv, UNCHANGED <<job, flash, info>>,
         NEW next \in {"verify", "compare", "done"},
         NEW a \in Nat, a = (IF next = "verify" THEN HdrAt + HdrSize ELSE info.start + job.eoff),
         NEW len \in Nat, len = (IF next = "verify" THEN TlvSize ELSE info.end - info.start),
         next = "verify" => GoodHeader, next = "done" <=> ~job.check, next = "done" => job.eoff = 0,
         Digest(a, len, next)
  PROVE  /\ {rd'.at, rd'.left, rd'.jump} \subseteq Nat
         /\ rd'.jump <= rd'.left /\ rd'.jump < WriteBlock
         /\ pc' = "piece" /\ rd'.next = next /\ Feeding'
<1>1. /\ rd'.at = AlignOffset(a) /\ rd'.left = len + a - AlignOffset(a)
      /\ rd'.jump = a - AlignOffset(a) /\ rd'.next = next
      /\ fed' = <<>> /\ pc' = "piece"
  BY DEF Digest
<1>2. AlignOffset(a) \in Nat /\ AlignOffset(a) <= a /\ a - AlignOffset(a) < WriteBlock
  BY Aligned
<1> DEFINE g == AlignOffset(a)
<1> HIDE DEF g
<1>3. /\ {rd'.at, rd'.left, rd'.jump} \subseteq Nat
      /\ rd'.jump <= rd'.left /\ rd'.jump < WriteBlock
      /\ rd'.at + rd'.left = a + len /\ rd'.at + rd'.jump = a
  <2>1. /\ rd'.at = g /\ rd'.left = len + a - g /\ rd'.jump = a - g
        /\ g \in Nat /\ g <= a /\ a - g < WriteBlock
    BY <1>1, <1>2, Zenon DEF g
  <2>2. QED
    BY <2>1
<1>4. HdrAt' = HdrAt /\ TlvSize' = TlvSize /\ (GoodHeader' <=> GoodHeader)
  BY DEF HdrAt, TlvSize, GoodHeader, Read
<1>5. DigestAt' = a /\ DigestLen' = len
  BY <1>1, <1>4 DEF DigestAt, DigestLen
<1>6. fed' = ReadCells(DigestAt, rd.at + rd.jump - DigestAt)'
  <2>1. rd'.at + rd'.jump - DigestAt' = 0
    BY <1>3, <1>5
  <2>2. ReadCells(DigestAt, rd.at + rd.jump - DigestAt)' = <<>>
    BY <2>1 DEF ReadCells
  <2>3. QED
    BY <1>1, <2>2
<1>7. Feeding'
  <2>1. /\ rd'.next \in {"verify", "compare", "done"}
        /\ rd'.next = "verify" => GoodHeader'
        /\ rd'.next = "done" <=> ~job'.check
        /\ rd'.next = "done" => job'.eoff = 0
    BY <1>1, <1>4, Zenon
  <2>2. /\ rd'.at + rd'.left = DigestAt' + DigestLen'
        /\ rd'.at + rd'.jump >= DigestAt'
    BY <1>3, <1>5
  <2>3. QED
    BY <1>6, <2>1, <2>2, Zenon DEF Feeding
<1>8. QED
  BY <1>1, <1>3, <1>7, Zenon

LEMMA OpenSignedStep ==
  ASSUME IInv, OpenSigned
  PROVE  IInv'
<1>1. /\ FlashInv /\ DigestInv /\ TlvInv /\ FindInv /\ InfoInv /\ InfoOfImage
      /\ CompleteInv /\ RetInv
  BY Zenon DEF IInv
<1>2. /\ pc = "open" /\ GoodHeader /\ job.check
      /\ Digest(HdrAt + HdrSize, TlvSize, "verify")
      /\ job' = job /\ flash' = flash /\ nkey' = nkey /\ tlv' = tlv /\ find' = find
      /\ info' = info /\ ret' = ret
  BY Zenon DEF OpenSigned, Keep
<1>3. /\ FlashInv' <=> FlashInv
      /\ Proper' <=> Proper
      /\ InfoOfImage' <=> InfoOfImage
      /\ Tried' <=> Tried
  BY <1>2, SamePlace, SameInfo, SameTried, Zenon
<1>4. /\ {rd'.at, rd'.left, rd'.jump} \subseteq Nat
      /\ rd'.jump <= rd'.left /\ rd'.jump < WriteBlock
      /\ pc' = "piece" /\ rd'.next = "verify" /\ Feeding'
  <2>1. HdrAt + HdrSize \in Nat /\ TlvSize \in Nat
    BY <1>1, <1>2, GoodSize, JobTypes DEF FlashInv, HdrSize
  <2>2. UNCHANGED <<job, flash, info>>
    BY <1>2
  <2>3. "verify" # "done"
    OBVIOUS
  <2>4. QED
    BY <1>1, <1>2, <2>1, <2>2, <2>3, DigestStart, Zenon
<1>5. ~info.valid
  BY <1>1, <1>2 DEF InfoInv
<1>6. DigestInv'
  BY <1>4 DEF DigestInv
<1>7. TlvInv'
  BY <1>2, <1>4, <1>5 DEF TlvInv, Opened, Comparing
<1>8. FindInv'
  BY <1>4 DEF FindInv, Comparing
<1>9. InfoInv'
  BY <1>1, <1>2, <1>4, <1>5 DEF InfoInv, Comparing, KeyWanted
<1>10. CompleteInv'
  BY <1>1, <1>2, <1>3, <1>4 DEF CompleteInv
<1>11. RetInv'
  BY <1>1, <1>2, <1>4 DEF RetInv
<1>12. QED
  BY <1>1, <1>3, <1>4, <1>6, <1>7, <1>8, <1>9, <1>10, <1>11, Zenon DEF IInv

LEMMA OpenUnsignedStep ==
  ASSUME IInv, OpenUnsigned
  PROVE  IInv'
<1>1. /\ FlashInv /\ DigestInv /\ TlvInv /\ FindInv /\ InfoInv /\ InfoOfImage
      /\ CompleteInv /\ RetInv
  BY Zenon DEF IInv
<1>2. /\ pc = "open" /\ GoodHeader /\ ~job.check /\ pc' = "read"
      /\ job' = job /\ flash' = flash /\ rd' = rd /\ fed' = fed
      /\ nkey' = nkey /\ tlv' = tlv /\ find' = find /\ info' = info /\ ret' = ret
  BY Zenon DEF OpenUnsigned, Keep
<1>3. /\ FlashInv' <=> FlashInv
      /\ GoodHeader' <=> GoodHeader
      /\ Proper' <=> Proper
      /\ InfoOfImage' <=> InfoOfImage
      /\ Tried' <=> Tried
  BY <1>2, SamePlace, SameInfo, SameTried, Zenon
<1>4. ~info.valid
  BY <1>1, <1>2 DEF InfoInv
<1>5. DigestInv'
  BY <1>1, <1>2 DEF DigestInv
<1>6. TlvInv'
  BY <1>2, <1>3 DEF TlvInv, Opened, Comparing
<1>7. FindInv'
  BY <1>2 DEF FindInv, Comparing
<1>8. InfoInv'
  BY <1>1, <1>2, <1>4 DEF InfoInv, Comparing, KeyWanted
<1>9. CompleteInv'
  BY <1>1, <1>2, <1>3 DEF CompleteInv
<1>10. RetInv'
  BY <1>1, <1>2 DEF RetInv
<1>11. QED
  BY <1>1, <1>2, <1>3, <1>5, <1>6, <1>7, <1>8, <1>9, <1>10, Zenon DEF IInv

LEMMA ReadPieceStep ==
  ASSUME IInv, ReadPiece
  PROVE  IInv'
<1>1. /\ FlashInv /\ DigestInv /\ TlvInv /\ FindInv /\ InfoInv /\ InfoOfImage
      /\ CompleteInv /\ RetInv
  BY Zenon DEF IInv
<1>2. /\ pc = "piece" /\ rd.left > 0 /\ pc' = pc
      /\ fed' = fed \o ReadCells(rd.at + rd.jump, PieceLen - rd.jump)
      /\ rd' = [rd EXCEPT !.at = @ + PieceLen, !.left = @ - PieceLen, !.jump = 0]
      /\ job' = job /\ flash' = flash /\ nkey' = nkey /\ tlv' = tlv /\ find' = find
      /\ info' = info /\ ret' = ret
  BY Zenon DEF ReadPiece, Keep
<1>3. /\ FlashInv' <=> FlashInv
      /\ Proper' <=> Proper
      /\ SignedHeader' <=> SignedHeader
      /\ GoodHeader' <=> GoodHeader
      /\ BodyIsWhole' <=> BodyIsWhole
      /\ TlvCopied' <=> TlvCopied
      /\ OnSomeEntry' <=> OnSomeEntry
      /\ InfoOfImage' <=> InfoOfImage
      /\ InfoRead' <=> InfoRead
      /\ Tried' <=> Tried
  BY <1>2, SamePlace, SameTlv, SameEntry, SameInfo, SameTried, Zenon
<1>4. /\ rd.at \in Nat /\ rd.left \in Nat /\ rd.jump \in Nat
      /\ rd.jump <= rd.left /\ rd.jump < WriteBlock
  BY <1>1 DEF DigestInv
<1>5. PieceLen \in Nat /\ PieceLen <= rd.left /\ rd.jump <= PieceLen
  BY <1>4, InfoAssumption DEF PieceLen
<1>6. /\ rd'.next = rd.next /\ rd'.at = rd.at + PieceLen /\ rd'.left = rd.left - PieceLen
      /\ rd'.jump = 0
  BY <1>1, <1>2
<1>7. DigestInv'
  <2>1. Feeding
    BY <1>1, <1>2 DEF DigestInv
  <2>2. DigestAt' = DigestAt /\ DigestLen' = DigestLen
    BY <1>2, <1>6 DEF DigestAt, DigestLen, HdrAt, TlvSize, Read
  <2>3. DigestAt \in Nat
    <3>1. HdrAt \in Nat /\ job.eoff \in Nat /\ info.start \in Nat
      BY <1>1, JobTypes DEF FlashInv, InfoInv
    <3>2. QED
      BY <3>1 DEF DigestAt, HdrSize
  <2>4. /\ rd.at + rd.left = DigestAt + DigestLen /\ rd.at + rd.jump >= DigestAt
        /\ fed = ReadCells(DigestAt, rd.at + rd.jump - DigestAt)
    BY <2>1 DEF Feeding
  <2>5. fed' = ReadCells(DigestAt, rd'.at + rd'.jump - DigestAt)
    <3> DEFINE a == DigestAt
    <3>1. PICK m \in Nat : m = rd.at + rd.jump - a
      BY <1>4, <2>3, <2>4
    <3>2. PICK n \in Nat : n = PieceLen - rd.jump
      BY <1>4, <1>5
    <3>3. ReadCells(a, m) \o ReadCells(a + m, n) = ReadCells(a, m + n)
      BY <1>1, <2>3, ReadInPieces, Zenon
    <3> HIDE DEF a
    <3>4. a + m = rd.at + rd.jump /\ m + n = rd'.at + rd'.jump - a
      BY <1>4, <1>5, <1>6, <2>3, <3>1, <3>2 DEF a
    <3>5. fed' = ReadCells(a, m) \o ReadCells(a + m, n)
      BY <1>2, <2>4, <3>1, <3>2, <3>4, Zenon DEF a
    <3>6. QED
      BY <3>3, <3>4, <3>5, Zenon DEF a
  <2>6. fed' = ReadCells(DigestAt, rd.at + rd.jump - DigestAt)'
    <3>1. \A a, n : ReadCells(a, n)' = ReadCells(a, n)
      BY <1>2 DEF ReadCells, Read, HdrAt
    <3>2. QED
      BY <1>2, <2>2, <2>5 DEF ReadCells, Read, HdrAt
  <2>7. rd'.at + rd'.left = DigestAt' + DigestLen' /\ rd'.at + rd'.jump >= DigestAt'
    BY <1>4, <1>5, <1>6, <2>2, <2>3, <2>4
  <2>8. Feeding'
    BY <1>2, <1>3, <1>6, <2>1, <2>6, <2>7, Zenon DEF Feeding
  <2>9. {rd'.at, rd'.left, rd'.jump} \subseteq Nat /\ rd'.jump <= rd'.left /\ rd'.jump < WriteBlock
    BY <1>4, <1>5, <1>6, InfoAssumption
  <2>10. QED
    BY <1>2, <2>8, <2>9 DEF DigestInv
<1>8. TlvInv'
  BY <1>1, <1>2, <1>3, <1>6 DEF TlvInv, Opened, Comparing
<1>9. FindInv'
  BY <1>1, <1>2, <1>3, <1>6 DEF FindInv, Comparing, LengthOf
<1>10. InfoInv'
  BY <1>1, <1>2, <1>3, <1>6 DEF InfoInv, Comparing, KeyWanted
<1>11. CompleteInv'
  BY <1>1, <1>2, <1>3 DEF CompleteInv
<1>12. RetInv'
  BY <1>1, <1>2 DEF RetInv
<1>13. QED
  BY <1>1, <1>2, <1>3, <1>7, <1>8, <1>9, <1>10, <1>11, <1>12, Zenon DEF IInv

LEMMA PiecesReadStep ==
  ASSUME IInv, PiecesRead
  PROVE  IInv'
<1>1. /\ FlashInv /\ DigestInv /\ TlvInv /\ FindInv /\ InfoInv /\ InfoOfImage
      /\ CompleteInv /\ RetInv
  BY Zenon DEF IInv
<1>2. /\ pc = "piece" /\ rd.left = 0 /\ pc' = rd.next
      /\ job' = job /\ flash' = flash /\ rd' = rd /\ fed' = fed
      /\ nkey' = nkey /\ tlv' = tlv /\ find' = find /\ info' = info /\ ret' = ret
  BY Zenon DEF PiecesRead, Keep
<1>3. /\ FlashInv' <=> FlashInv
      /\ SignedHeader' <=> SignedHeader
      /\ GoodHeader' <=> GoodHeader
      /\ BodyIsWhole' <=> BodyIsWhole
      /\ Proper' <=> Proper
      /\ TlvHashed' <=> TlvHashed
      /\ BodyHashed' <=> BodyHashed
      /\ TlvCopied' <=> TlvCopied
      /\ OnSomeEntry' <=> OnSomeEntry
      /\ InfoOfImage' <=> InfoOfImage
      /\ InfoRead' <=> InfoRead
      /\ Tried' <=> Tried
  BY <1>2, SamePlace, SameHashed, SameTlv, SameEntry, SameInfo, SameTried, Zenon
<1>4. /\ rd.next \in {"verify", "compare", "done"}
      /\ rd.next = "verify" => GoodHeader
      /\ rd.next = "done" <=> ~job.check
      /\ rd.at + rd.left = DigestAt + DigestLen
      /\ fed = ReadCells(DigestAt, rd.at + rd.jump - DigestAt)
  BY <1>1, <1>2, Zenon DEF DigestInv, Feeding
<1>5. fed = ReadCells(DigestAt, DigestLen)
  <2>1. rd.at \in Nat /\ rd.left \in Nat /\ rd.jump \in Nat /\ rd.jump <= rd.left
    BY <1>1 DEF DigestInv
  <2>2. DigestAt \in Nat /\ DigestLen \in Nat
    <3>1. /\ HdrAt \in Nat /\ job.eoff \in Nat /\ info.start \in Nat /\ info.end \in Nat
          /\ info.end >= info.start
      BY <1>1, JobTypes DEF FlashInv, InfoInv
    <3>2. rd.next = "verify" => TlvSize \in Nat
      BY <1>1, <1>4, GoodSize
    <3>3. QED
      BY <3>1, <3>2 DEF DigestAt, DigestLen, HdrSize
  <2>3. rd.at + rd.jump - DigestAt = DigestLen
    BY <1>2, <1>4, <2>1, <2>2
  <2>4. QED
    BY <1>4, <2>3
<1>6. (rd.next = "verify" => TlvHashed) /\ (rd.next # "verify" => BodyHashed)
  BY <1>5 DEF TlvHashed, BodyHashed, DigestAt, DigestLen
<1>7. DigestInv'
  BY <1>1, <1>2, <1>3, <1>4, <1>6 DEF DigestInv
<1>8. TlvInv'
  BY <1>1, <1>2, <1>3, <1>4 DEF TlvInv, Opened, Comparing
<1>9. FindInv'
  BY <1>1, <1>2, <1>3, <1>4 DEF FindInv, Comparing, LengthOf
<1>10. InfoInv'
  BY <1>1, <1>2, <1>3, <1>4 DEF InfoInv, Comparing, KeyWanted
<1>11. CompleteInv'
  BY <1>1, <1>2, <1>3, <1>4 DEF CompleteInv, Proper
<1>12. RetInv'
  BY <1>1, <1>2, <1>4 DEF RetInv
<1>13. pc' \in {"open", "piece", "verify", "read", "overrun", "search", "compare", "info", "done"}
  BY <1>2, <1>4
<1>14. QED
  BY <1>1, <1>3, <1>7, <1>8, <1>9, <1>10, <1>11, <1>12, <1>13, Zenon DEF IInv

LEMMA NextKeyStep ==
  ASSUME IInv, NextKey
  PROVE  IInv'
<1>1. /\ FlashInv /\ DigestInv /\ TlvInv /\ FindInv /\ InfoInv /\ InfoOfImage
      /\ CompleteInv /\ RetInv
  BY Zenon DEF IInv
<1>2. /\ pc = "verify" /\ pc' = pc /\ nkey <= Len(RootKeys) /\ nkey' = nkey + 1
      /\ ~Genuine(nkey, fed, Read(HdrAt + 3))
      /\ job' = job /\ flash' = flash /\ rd' = rd /\ fed' = fed
      /\ tlv' = tlv /\ find' = find /\ info' = info /\ ret' = ret
  BY Zenon DEF NextKey, Keep
<1>3. /\ FlashInv' <=> FlashInv
      /\ GoodHeader' <=> GoodHeader
      /\ Proper' <=> Proper
      /\ TlvHashed' <=> TlvHashed
      /\ InfoOfImage' <=> InfoOfImage
  BY <1>2, SamePlace, SameHashed, SameInfo, Zenon
<1>4. ~info.valid
  BY <1>1, <1>2 DEF InfoInv
<1>5. ASSUME Proper PROVE RootKeys[nkey] # job.img.signer
  <2>1. Whole(flash, job.img)
    BY <1>5 DEF Proper
  <2>2. /\ GoodHeader /\ flash[4] = Signature(job.img.signer)
        /\ flash[2] = 4 + Len(TlvBytes(job.img))
        /\ \A n \in 1 .. Len(TlvBytes(job.img)) : flash[4 + n] = TlvBytes(job.img)[n]
    BY <1>1, <2>1, WholeCells, Zenon
  <2>3. fed = TlvBytes(job.img)
    BY <1>1, <1>2, <2>2, HashedTlv, Zenon DEF DigestInv, TlvHashed
  <2>4. Read(HdrAt + 3) = Signature(job.img.signer)
    BY <1>1, <2>2, ReadHeader
  <2>5. QED
    BY <1>2, <2>3, <2>4, Zenon DEF Genuine
<1>6. CompleteInv'
  <2>1. nkey \in 1 .. Len(RootKeys) + 1 /\ (Proper => Tried)
    BY <1>1, Zenon DEF CompleteInv
  <2>2. Len(RootKeys) \in Nat
    BY InfoAssumption
  <2>3. nkey' \in 1 .. Len(RootKeys) + 1
    BY <1>2, <2>1, <2>2
  <2>4. ASSUME Proper PROVE Tried'
    <3>1. \A n \in 1 .. nkey - 1 : RootKeys[n] # job.img.signer
      BY <2>1, <2>4 DEF Tried
    <3>2. \A n \in 1 .. nkey' - 1 : n = nkey \/ n \in 1 .. nkey - 1
      BY <1>2, <2>1, <2>2
    <3>3. \A n \in 1 .. nkey' - 1 : RootKeys[n] # job.img.signer
      BY <1>5, <2>4, <3>1, <3>2, Zenon
    <3>4. QED
      BY <1>2, <3>3, Zenon DEF Tried
  <2>5. QED
    BY <1>2, <1>3, <2>3, <2>4 DEF CompleteInv
<1>7. DigestInv'
  BY <1>1, <1>2, <1>3 DEF DigestInv
<1>8. TlvInv'
  BY <1>2, <1>4 DEF TlvInv, Opened, Comparing
<1>9. FindInv'
  BY <1>2 DEF FindInv, Comparing
<1>10. InfoInv'
  BY <1>1, <1>2, <1>4 DEF InfoInv, Comparing, KeyWanted
<1>11. RetInv'
  BY <1>1, <1>2 DEF RetInv
<1>12. QED
  BY <1>1, <1>2, <1>3, <1>6, <1>7, <1>8, <1>9, <1>10, <1>11, Zenon DEF IInv

(* The signature is that of the whole area. *)
LEMMA VerifyKeyStep ==
  ASSUME IInv, VerifyKey
  PROVE  IInv'
<1>1. /\ FlashInv /\ DigestInv /\ TlvInv /\ FindInv /\ InfoInv /\ InfoOfImage
      /\ CompleteInv /\ RetInv
  BY Zenon DEF IInv
<1>2. /\ pc = "verify" /\ pc' = "read" /\ nkey <= Len(RootKeys) /\ nkey' = nkey
      /\ Genuine(nkey, fed, Read(HdrAt + 3))
      /\ job' = job /\ flash' = flash /\ rd' = rd /\ fed' = fed
      /\ tlv' = tlv /\ find' = find /\ info' = info /\ ret' = ret
  BY Zenon DEF VerifyKey, Keep
<1>3. /\ FlashInv' <=> FlashInv
      /\ GoodHeader' <=> GoodHeader
      /\ SignedHeader' <=> SignedHeader
      /\ Proper' <=> Proper
      /\ InfoOfImage' <=> InfoOfImage
      /\ Tried' <=> Tried
  BY <1>2, SamePlace, SameInfo, SameTried, Zenon
<1>4. ~info.valid
  BY <1>1, <1>2 DEF InfoInv
<1>5. GoodHeader /\ job.check /\ TlvHashed
  BY <1>1, <1>2 DEF DigestInv
<1>6. SignedHeader
  <2>1. RootKeys[nkey] = job.img.signer /\ fed = TlvBytes(job.img)
        /\ Read(HdrAt + 3) = Signature(RootKeys[nkey])
    BY <1>2, Zenon DEF Genuine
  <2>2. /\ flash[2] = 4 + Len(TlvBytes(job.img))
        /\ \A n \in 1 .. Len(TlvBytes(job.img)) : flash[4 + n] = TlvBytes(job.img)[n]
    BY <1>1, <1>5, <2>1, HashedTlv, Zenon DEF TlvHashed
  <2>3. flash[1] = TLV_AREA_MAGIC
    BY <1>1, <1>5, GoodSize
  <2>4. flash[4] = Signature(job.img.signer)
    BY <1>1, <2>1, ReadHeader
  <2>5. InRoot(job.img.signer)
    <3>1. nkey \in 1 .. Len(RootKeys)
      BY <1>1, <1>2, InfoAssumption DEF CompleteInv
    <3>2. QED
      BY <2>1, <3>1, Zenon DEF InRoot
  <2>6. QED
    BY <2>2, <2>3, <2>4, <2>5, Zenon DEF SignedHeader, HdrSize
<1>7. DigestInv'
  BY <1>1, <1>2 DEF DigestInv
<1>8. TlvInv'
  BY <1>2, <1>3, <1>5, <1>6 DEF TlvInv, Opened, Comparing
<1>9. FindInv'
  BY <1>2 DEF FindInv, Comparing
<1>10. InfoInv'
  BY <1>1, <1>2, <1>4 DEF InfoInv, Comparing, KeyWanted
<1>11. CompleteInv'
  BY <1>1, <1>2, <1>3 DEF CompleteInv
<1>12. RetInv'
  BY <1>1, <1>2 DEF RetInv
<1>13. QED
  BY <1>1, <1>2, <1>3, <1>7, <1>8, <1>9, <1>10, <1>11, <1>12, Zenon DEF IInv

(* No size that fits the buffer is an erased one. *)
LEMMA FittingSize ==
  ASSUME FlashInv, GoodHeader, TlvSize <= TlvMax
  PROVE  flash[2] # Erased
<1>1. TlvSize \in Nat /\ flash[2] = 4 + TlvSize
  BY GoodSize
<1>2. TlvMax \in Nat /\ 4 + TlvMax < Erased
  BY InfoAssumption DEF HdrSize
<1>3. Erased \in Nat
  BY DEF Erased
<1>4. QED
  BY <1>1, <1>2, <1>3

LEMMA ReadTlvStep ==
  ASSUME IInv, ReadTlv
  PROVE  IInv'
<1>1. /\ FlashInv /\ DigestInv /\ TlvInv /\ FindInv /\ InfoInv /\ InfoOfImage
      /\ CompleteInv /\ RetInv
  BY Zenon DEF IInv
<1>2. /\ pc = "read" /\ TlvSize <= TlvMax /\ pc' = "search"
      /\ tlv' = ReadCells(HdrAt + HdrSize, TlvSize)
      /\ find' = [want |-> TLVE_IMAGE_TYPE, off |-> 0, type |-> 0, length |-> 0, value |-> 0]
      /\ job' = job /\ flash' = flash /\ rd' = rd /\ fed' = fed
      /\ nkey' = nkey /\ info' = info /\ ret' = ret
  BY Zenon DEF ReadTlv, SearchFor, Keep
<1>3. /\ FlashInv' <=> FlashInv
      /\ GoodHeader' <=> GoodHeader
      /\ SignedHeader' <=> SignedHeader
      /\ Proper' <=> Proper
      /\ Tried' <=> Tried
  BY <1>2, SamePlace, SameTried, Zenon
<1>4. ~info.valid
  BY <1>1, <1>2 DEF InfoInv
<1>5. GoodHeader /\ (job.check => SignedHeader)
  BY <1>1, <1>2 DEF TlvInv, Opened
<1>6. TlvCopied'
  <2> DEFINE l == Len(TlvBytes(job.img))
  <2>1. /\ TlvSize \in Nat /\ TlvSize = l /\ HdrAt \in Nat /\ flash[2] # Erased
        /\ 4 + l <= job.img.offset /\ job.img.offset \in Nat /\ job.img.size \in Nat
    <3>1. flash[2] # Erased
      BY <1>1, <1>2, <1>5, FittingSize
    <3>2. TlvSize \in Nat /\ flash[2] = 4 + TlvSize /\ flash[2] = 4 + l
      BY <1>1, <1>5, <3>1, GoodSize, TlvInFlash, Zenon
    <3>3. /\ l \in Nat /\ 4 + l <= job.img.offset /\ job.img.offset \in Nat
          /\ job.img.size \in Nat /\ HdrAt \in Nat
      BY <1>1, FlashCells, JobTypes DEF FlashInv
    <3>4. TlvSize = l
      BY <3>2, <3>3
    <3>5. QED
      BY <3>1, <3>2, <3>3, <3>4, Zenon
  <2> HIDE DEF l
  <2>2. ASSUME NEW n \in 1 .. l PROVE Read(HdrAt + HdrSize + n - 1) = flash[HdrSize + n]
    <3>1. PICK m \in 1 .. job.img.offset + job.img.size : m = 4 + n
      BY <2>1
    <3>2. Read(HdrAt + m - 1) = flash[m]
      BY <1>1, ReadImage, Zenon
    <3>3. HdrAt + m - 1 = HdrAt + HdrSize + n - 1 /\ m = HdrSize + n
      BY <2>1, <3>1 DEF HdrSize
    <3>4. QED
      BY <3>2, <3>3
  <2>3. ReadCells(HdrAt + HdrSize, TlvSize) = [n \in 1 .. l |-> flash[HdrSize + n]]
    BY <2>1, <2>2 DEF ReadCells
  <2>4. QED
    BY <1>2, <2>1, <2>3, Zenon DEF TlvCopied, l
<1>7. DigestInv'
  BY <1>1, <1>2 DEF DigestInv
<1>8. TlvInv'
  BY <1>2, <1>3, <1>5, <1>6 DEF TlvInv, Opened, Comparing
<1>9. FindInv'
  BY <1>2 DEF FindInv, Comparing, Wanted
<1>10. InfoInv'
  BY <1>1, <1>2, <1>4 DEF InfoInv, Comparing, KeyWanted, TLVE_IMAGE_TYPE, TLVE_IMAGE_HASH,
         TLVE_IMAGE_EPUBKEY
<1>11. CompleteInv'
  BY <1>1, <1>2, <1>3 DEF CompleteInv
<1>12. RetInv'
  BY <1>1, <1>2 DEF RetInv
<1>13. InfoOfImage'
  BY <1>2, <1>4 DEF InfoOfImage
<1>14. QED
  BY <1>1, <1>2, <1>3, <1>7, <1>8, <1>9, <1>10, <1>11, <1>12, <1>13, Zenon DEF IInv

(* The size that a signed header gives fits, and so does one of which all   *)
(* was copied: both are what imgtool wrote.                                 *)
LEMMA OverrunTlvStep ==
  ASSUME IInv, OverrunTlv
  PROVE  IInv'
<1>1. /\ FlashInv /\ DigestInv /\ TlvInv /\ FindInv /\ InfoInv /\ InfoOfImage
      /\ CompleteInv /\ RetInv
  BY Zenon DEF IInv
<1>2. /\ pc = "read" /\ TlvSize > TlvMax
      /\ \/ Refuse
         \/ pc' = "overrun" /\ Keep(<<rd, fed, nkey, tlv, find, info, ret>>)
  BY Zenon DEF OverrunTlv
<1>3. GoodHeader /\ (job.check => SignedHeader)
  BY <1>1, <1>2 DEF TlvInv, Opened
<1>4. flash[2] # 4 + Len(TlvBytes(job.img))
  <2>1. TlvSize \in Nat /\ flash[2] = 4 + TlvSize
    BY <1>1, <1>3, GoodSize
  <2>2. job.img \in Images /\ Len(TlvBytes(job.img)) \in Nat
    BY <1>1, JobTypes, FlashCells, Zenon DEF FlashInv
  <2>3. TlvMax \in Nat /\ Len(TlvBytes(job.img)) <= TlvMax
    BY <2>2, InfoAssumption, Zenon
  <2>4. QED
    BY <1>2, <2>1, <2>2, <2>3
<1>5. ~job.check /\ flash[2] = Erased
  BY <1>1, <1>3, <1>4, TlvInFlash, Zenon
<1>6. CASE Refuse
  BY <1>2, <1>5, <1>6, RefuseStep DEF Proper
<1>7. CASE pc' = "overrun" /\ Keep(<<rd, fed, nkey, tlv, find, info, ret>>)
  <2>1. /\ pc' = "overrun" /\ job' = job /\ flash' = flash /\ rd' = rd /\ fed' = fed
        /\ nkey' = nkey /\ tlv' = tlv /\ find' = find /\ info' = info /\ ret' = ret
    BY <1>7, Zenon DEF Keep
  <2>2. /\ FlashInv' <=> FlashInv
        /\ Proper' <=> Proper
        /\ InfoOfImage' <=> InfoOfImage
        /\ Tried' <=> Tried
    BY <2>1, SamePlace, SameInfo, SameTried, Zenon
  <2>3. ~info.valid
    BY <1>1, <1>2 DEF InfoInv
  <2>4. DigestInv'
    BY <1>1, <2>1 DEF DigestInv
  <2>5. TlvInv'
    BY <1>5, <2>1, <2>3 DEF TlvInv, Opened, Comparing
  <2>6. FindInv'
    BY <2>1 DEF FindInv, Comparing
  <2>7. InfoInv'
    BY <1>1, <2>1, <2>3 DEF InfoInv, Comparing, KeyWanted
  <2>8. CompleteInv'
    BY <1>1, <2>1, <2>2 DEF CompleteInv
  <2>9. RetInv'
    BY <1>1, <2>1 DEF RetInv
  <2>10. QED
    BY <1>1, <2>1, <2>2, <2>4, <2>5, <2>6, <2>7, <2>8, <2>9, Zenon DEF IInv
<1>8. QED
  BY <1>2, <1>6, <1>7

LEMMA StepTlvStep ==
  ASSUME IInv, StepTlv
  PROVE  IInv'
<1>1. /\ FlashInv /\ DigestInv /\ TlvInv /\ FindInv /\ InfoInv /\ InfoOfImage
      /\ CompleteInv /\ RetInv
  BY Zenon DEF IInv
<1>2. /\ pc = "search" /\ pc' = pc /\ Searching
      /\ find' = [find EXCEPT !.type = tlv[find.off + 1], !.length = tlv[find.off + 2],
                              !.value = find.off + 2, !.off = @ + tlv[find.off + 2] + 2]
      /\ job' = job /\ flash' = flash /\ rd' = rd /\ fed' = fed
      /\ nkey' = nkey /\ tlv' = tlv /\ info' = info /\ ret' = ret
  BY Zenon DEF StepTlv, Keep
<1>3. /\ FlashInv' <=> FlashInv
      /\ GoodHeader' <=> GoodHeader
      /\ SignedHeader' <=> SignedHeader
      /\ BodyIsWhole' <=> BodyIsWhole
      /\ Proper' <=> Proper
      /\ TlvCopied' <=> TlvCopied
      /\ InfoCopied' <=> InfoCopied
      /\ InfoRead' <=> InfoRead
      /\ InfoOfImage' <=> InfoOfImage
      /\ Tried' <=> Tried
  BY <1>2, SamePlace, SameTlv, SameInfo, SameTried, Zenon
<1>4. /\ find'.want = find.want /\ find'.type = tlv[find.off + 1]
      /\ find'.length = tlv[find.off + 2] /\ find'.value = find.off + 2
      /\ find'.off = find.off + tlv[find.off + 2] + 2
  BY <1>2
<1>5. find.want \in Wanted
  BY <1>1, <1>2 DEF FindInv
<1>6. OnSomeEntry'
  <2>1. find.off \in Entries(job.img) /\ find.off <= Place(job.img, find.want)
    BY <1>1, <1>2, NextEntry
  <2>2. find.off \in Nat /\ tlv[find.off + 2] \in Nat
    BY <1>1, <1>2, <1>5, <2>1, EntryRead, Zenon
  <2>3. find'.off = find.off + 2 + find'.length
    BY <1>4, <2>2
  <2>4. QED
    BY <1>2, <1>4, <2>1, <2>3, Zenon DEF OnSomeEntry, OnEntry
<1>7. DigestInv'
  BY <1>1, <1>2 DEF DigestInv
<1>8. TlvInv'
  BY <1>1, <1>2, <1>3 DEF TlvInv, Opened, Comparing
<1>9. FindInv'
  BY <1>2, <1>4, <1>5, <1>6 DEF FindInv, Comparing
<1>10. InfoInv'
  BY <1>1, <1>2, <1>3, <1>4 DEF InfoInv, Comparing, KeyWanted
<1>11. CompleteInv'
  BY <1>1, <1>2, <1>3 DEF CompleteInv
<1>12. RetInv'
  BY <1>1, <1>2 DEF RetInv
<1>13. QED
  BY <1>1, <1>2, <1>3, <1>7, <1>8, <1>9, <1>10, <1>11, <1>12, Zenon DEF IInv

LEMMA TakeTypeStep ==
  ASSUME IInv, TakeType
  PROVE  IInv'
<1>1. /\ FlashInv /\ DigestInv /\ TlvInv /\ FindInv /\ InfoInv /\ InfoOfImage
      /\ CompleteInv /\ RetInv
  BY Zenon DEF IInv
<1>2. /\ pc = "search" /\ pc' = pc
      /\ find' = [want |-> TLVE_IMAGE_INFO, off |-> 0, type |-> 0, length |-> 0, value |-> 0]
      /\ job' = job /\ flash' = flash /\ rd' = rd /\ fed' = fed
      /\ nkey' = nkey /\ tlv' = tlv /\ info' = info /\ ret' = ret
  BY Zenon DEF TakeType, Found, SearchFor, Keep
<1>3. /\ FlashInv' <=> FlashInv
      /\ GoodHeader' <=> GoodHeader
      /\ SignedHeader' <=> SignedHeader
      /\ Proper' <=> Proper
      /\ TlvCopied' <=> TlvCopied
      /\ InfoOfImage' <=> InfoOfImage
      /\ Tried' <=> Tried
  BY <1>2, SamePlace, SameTlv, SameInfo, SameTried, Zenon
<1>4. ~info.valid
  BY <1>1, <1>2 DEF InfoInv
<1>5. DigestInv'
  BY <1>1, <1>2 DEF DigestInv
<1>6. TlvInv'
  BY <1>1, <1>2, <1>3 DEF TlvInv, Opened, Comparing
<1>7. FindInv'
  BY <1>2 DEF FindInv, Comparing, Wanted
<1>8. InfoInv'
  BY <1>1, <1>2, <1>4 DEF InfoInv, Comparing, KeyWanted, TLVE_IMAGE_INFO, TLVE_IMAGE_HASH,
         TLVE_IMAGE_EPUBKEY
<1>9. CompleteInv'
  BY <1>1, <1>2, <1>3 DEF CompleteInv
<1>10. RetInv'
  BY <1>1, <1>2 DEF RetInv
<1>11. QED
  BY <1>1, <1>2, <1>3, <1>5, <1>6, <1>7, <1>8, <1>9, <1>10, Zenon DEF IInv

LEMMA TakeInfoStep ==
  ASSUME IInv, TakeInfo
  PROVE  IInv'
<1> DEFINE b == Base(job.img)
           w == SlotStart[job.slt]
<1>1. /\ FlashInv /\ DigestInv /\ TlvInv /\ FindInv /\ InfoInv /\ InfoOfImage
      /\ CompleteInv /\ RetInv
  BY Zenon DEF IInv
<1>2. /\ pc = "search" /\ pc' = pc /\ find.want = TLVE_IMAGE_INFO
      /\ find.type = find.want /\ find.length = LengthOf(find.want)
      /\ info' = [info EXCEPT !.start = w + Value(1), !.end = w + Value(1) + Value(2),
                              !.load = Value(3), !.version = <<Value(4), Value(5), Value(6)>>]
      /\ find' = [want |-> TLVE_IMAGE_HASH, off |-> 0, type |-> 0, length |-> 0, value |-> 0]
      /\ job' = job /\ flash' = flash /\ rd' = rd /\ fed' = fed
      /\ nkey' = nkey /\ tlv' = tlv /\ ret' = ret
  BY Zenon DEF TakeInfo, Found, SearchFor, Keep
<1>3. /\ FlashInv' <=> FlashInv
      /\ GoodHeader' <=> GoodHeader
      /\ SignedHeader' <=> SignedHeader
      /\ Proper' <=> Proper
      /\ TlvCopied' <=> TlvCopied
      /\ Tried' <=> Tried
  BY <1>2, SamePlace, SameTlv, SameTried, Zenon
<1>4. ~info.valid
  BY <1>1, <1>2 DEF InfoInv
<1>5. /\ info'.start = w + Value(1) /\ info'.end = w + Value(1) + Value(2)
      /\ info'.load = Value(3) /\ info'.version = <<Value(4), Value(5), Value(6)>>
      /\ info'.valid = info.valid /\ info'.encstart = info.encstart
  BY <1>2
<1>6. b \in Nat /\ AreaLen(job.img) \in Nat /\ b + 14 <= AreaLen(job.img)
  BY DEF AreaLen, Base
<1>7. find.value = b + 5
  <2>1. find.want \in Wanted
    BY <1>2 DEF Wanted
  <2>2. find.value = Place(job.img, find.want) + 2
    BY <1>1, <1>2, <2>1, FoundEntry, Zenon
  <2>3. Place(job.img, find.want) = b + 3
    BY <1>2 DEF Base, Place, TLVE_IMAGE_TYPE, TLVE_IMAGE_INFO, TLVE_IMAGE_HASH
  <2>4. QED
    BY <1>6, <2>2, <2>3
<1> HIDE DEF b, w
<1>8. /\ Value(1) = tlv[b + 6] /\ Value(2) = tlv[b + 7] /\ Value(3) = tlv[b + 8]
      /\ Value(4) = tlv[b + 9] /\ Value(5) = tlv[b + 10] /\ Value(6) = tlv[b + 11]
  <2>1. /\ find.value + 1 = b + 6 /\ find.value + 2 = b + 7 /\ find.value + 3 = b + 8
        /\ find.value + 4 = b + 9 /\ find.value + 5 = b + 10 /\ find.value + 6 = b + 11
    BY <1>6, <1>7
  <2>2. QED
    BY <2>1, Zenon DEF Value
<1>9. tlv[b + 6] \in Nat /\ tlv[b + 7] \in Nat
  <2>1. \A n \in 1 .. AreaLen(job.img) : tlv[n] \in Nat
    BY <1>1, <1>2, TlvRead, Zenon
  <2>2. b + 6 \in 1 .. AreaLen(job.img) /\ b + 7 \in 1 .. AreaLen(job.img)
    BY <1>6
  <2>3. QED
    BY <2>1, <2>2, Zenon
<1>10. w \in Nat
  BY <1>1, JobTypes DEF FlashInv, w
<1>11. InfoCopied'
  <2>1. /\ info'.start = w + tlv[b + 6] /\ info'.end = info'.start + tlv[b + 7]
        /\ info'.load = tlv[b + 8]
        /\ info'.version = <<tlv[b + 9], tlv[b + 10], tlv[b + 11]>>
    BY <1>5, <1>8, Zenon
  <2>2. QED
    BY <1>2, <2>1 DEF InfoCopied, b, w
<1>12. {info'.start, info'.end} \subseteq Nat /\ info'.end >= info'.start
  <2>1. info'.start = w + tlv[b + 6] /\ info'.end = w + tlv[b + 6] + tlv[b + 7]
    BY <1>5, <1>8, Zenon
  <2>2. QED
    BY <1>9, <1>10, <2>1
<1>13. DigestInv'
  BY <1>1, <1>2 DEF DigestInv
<1>14. TlvInv'
  BY <1>1, <1>2, <1>3 DEF TlvInv, Opened, Comparing
<1>15. FindInv'
  BY <1>2 DEF FindInv, Comparing, Wanted
<1>16. InfoInv'
  BY <1>1, <1>2, <1>4, <1>5, <1>11, <1>12 DEF InfoInv, Comparing, KeyWanted, TLVE_IMAGE_HASH,
         TLVE_IMAGE_EPUBKEY
<1>17. CompleteInv'
  BY <1>1, <1>2, <1>3 DEF CompleteInv
<1>18. RetInv'
  BY <1>1, <1>2 DEF RetInv
<1>19. InfoOfImage'
  BY <1>4, <1>5 DEF InfoOfImage
<1>20. QED
  BY <1>1, <1>2, <1>3, <1>13, <1>14, <1>15, <1>16, <1>17, <1>18, <1>19, Zenon DEF IInv

(* Where the entry for the hash is as it was written, so is all in front.   *)
LEMMA InfoFound ==
  ASSUME FlashInv, TlvInv, FindInv, InfoCopied, pc = "search", find.want = TLVE_IMAGE_HASH,
         find.type = find.want, find.length = LengthOf(find.want)
  PROVE  InfoRead
<1> DEFINE i == job.img
           t == TlvBytes(i)
           b == Base(i)
           v == i.version
           w == SlotStart[job.slt]
<1>1. i \in ImageInfos /\ v \in Versions
  BY JobTypes DEF FlashInv
<1>2. /\ t[b + 6] = i.offset /\ t[b + 7] = i.size /\ t[b + 8] = i.load
      /\ t[b + 9] = v[1] /\ t[b + 10] = v[2] /\ t[b + 11] = v[3]
  BY <1>1, TlvCells, Zenon
<1>3. \A n \in 1 .. Place(i, find.want) + 2 : tlv[n] = t[n]
  <2>1. find.want \in Wanted
    BY DEF Wanted
  <2>2. QED
    BY <2>1, FoundEntry, Zenon
<1>4. b \in Nat /\ Place(i, find.want) = b + 11
  BY DEF Base, Place, TLVE_IMAGE_TYPE, TLVE_IMAGE_INFO, TLVE_IMAGE_HASH
<1>5. /\ v \in Seq(Nat) /\ Len(v) = 3 /\ v[1] \in Nat /\ v[2] \in Nat /\ v[3] \in Nat
  BY <1>1, VersionCells, SMT
<1>6. v = <<v[1], v[2], v[3]>>
  <2> HIDE DEF v
  <2>1. PICK x \in Nat, y \in Nat, z \in Nat : v[1] = x /\ v[2] = y /\ v[3] = z
    BY <1>5
  <2>2. v = <<x, y, z>>
    BY <1>5, <2>1, VersionParts
  <2>3. QED
    BY <2>1, <2>2
<1> HIDE DEF t, b, v, w
<1>7. \A n \in 1 .. b + 13 : tlv[n] = t[n]
  <2>1. Place(i, find.want) + 2 = b + 13
    BY <1>4
  <2>2. QED
    BY <1>3, <2>1, Zenon
<1>8. /\ tlv[b + 6] = t[b + 6] /\ tlv[b + 7] = t[b + 7] /\ tlv[b + 8] = t[b + 8]
      /\ tlv[b + 9] = t[b + 9] /\ tlv[b + 10] = t[b + 10] /\ tlv[b + 11] = t[b + 11]
  <2>1. /\ b + 6 \in 1 .. b + 13 /\ b + 7 \in 1 .. b + 13 /\ b + 8 \in 1 .. b + 13
        /\ b + 9 \in 1 .. b + 13 /\ b + 10 \in 1 .. b + 13 /\ b + 11 \in 1 .. b + 13
    BY <1>4
  <2>2. QED
    BY <1>7, <2>1, Zenon
<1>9. /\ info.start = w + tlv[b + 6] /\ info.end = info.start + tlv[b + 7]
      /\ info.load = tlv[b + 8] /\ info.version = <<tlv[b + 9], tlv[b + 10], tlv[b + 11]>>
  BY Zenon DEF InfoCopied, b, w
<1>10. QED
  BY <1>2, <1>6, <1>8, <1>9, Zenon DEF InfoRead, w, v

LEMMA TakeHashStep ==
  ASSUME IInv, TakeHash
  PROVE  IInv'
<1>1. /\ FlashInv /\ DigestInv /\ TlvInv /\ FindInv /\ InfoInv /\ InfoOfImage
      /\ CompleteInv /\ RetInv
  BY Zenon DEF IInv
<1>2. /\ pc = "search" /\ find.want = TLVE_IMAGE_HASH
      /\ find.type = find.want /\ find.length = LengthOf(find.want)
      /\ IF job.check
         THEN /\ Digest(info.start + job.eoff, info.end - info.start, "compare")
              /\ find' = find
         ELSE SearchFor(TLVE_IMAGE_EPUBKEY) /\ rd' = rd /\ fed' = fed
      /\ job' = job /\ flash' = flash
      /\ nkey' = nkey /\ tlv' = tlv /\ info' = info /\ ret' = ret
  BY Zenon DEF TakeHash, Found, Keep
<1>3. /\ FlashInv' <=> FlashInv
      /\ GoodHeader' <=> GoodHeader
      /\ SignedHeader' <=> SignedHeader
      /\ Proper' <=> Proper
      /\ TlvCopied' <=> TlvCopied
      /\ InfoRead' <=> InfoRead
      /\ InfoOfImage' <=> InfoOfImage
      /\ Tried' <=> Tried
  BY <1>2, SamePlace, SameTlv, SameInfo, SameTried, Zenon
<1>4. ~info.valid
  BY <1>1, <1>2 DEF InfoInv
<1>5. InfoRead
  BY <1>1, <1>2, InfoFound, Zenon DEF InfoInv
<1>6. CASE job.check
  <2>1. /\ Digest(info.start + job.eoff, info.end - info.start, "compare")
        /\ find' = find
    BY <1>2, <1>6
  <2>2. /\ {rd'.at, rd'.left, rd'.jump} \subseteq Nat
        /\ rd'.jump <= rd'.left /\ rd'.jump < WriteBlock
        /\ pc' = "piece" /\ rd'.next = "compare" /\ Feeding'
    <3>1. info.start + job.eoff \in Nat /\ info.end - info.start \in Nat
      <4>1. job.eoff \in Nat
        BY <1>1, JobTypes DEF FlashInv
      <4>2. info.start \in Nat /\ info.end \in Nat /\ info.end >= info.start
        BY <1>1 DEF InfoInv
      <4>3. QED
        BY <4>1, <4>2
    <3>2. UNCHANGED <<job, flash, info>>
      BY <1>2
    <3>3. "compare" # "verify" /\ "compare" # "done"
      OBVIOUS
    <3>4. QED
      BY <1>1, <1>6, <2>1, <3>1, <3>2, <3>3, DigestStart, Zenon
  <2>3. OnSomeEntry
    <3>1. find.type # 0
      BY <1>2 DEF TLVE_IMAGE_HASH
    <3>2. QED
      BY <1>1, <1>2, <3>1 DEF FindInv
  <2>4. OnSomeEntry' /\ LengthOf(find.want)' = LengthOf(find.want)
    BY <1>2, <2>1, <2>3, SameEntry DEF LengthOf
  <2>5. DigestInv'
    BY <2>2 DEF DigestInv
  <2>6. TlvInv'
    BY <1>1, <1>2, <1>3, <2>2 DEF TlvInv, Opened, Comparing
  <2>7. FindInv'
    BY <1>2, <2>1, <2>2, <2>4 DEF FindInv, Comparing
  <2>8. InfoInv'
    BY <1>1, <1>2, <1>3, <1>4, <1>5, <2>2 DEF InfoInv, Comparing, KeyWanted
  <2>9. CompleteInv'
    BY <1>1, <1>2, <1>3, <2>2 DEF CompleteInv
  <2>10. RetInv'
    BY <1>1, <1>2, <2>2 DEF RetInv
  <2>11. QED
    BY <1>1, <1>3, <2>2, <2>5, <2>6, <2>7, <2>8, <2>9, <2>10, Zenon DEF IInv
<1>7. CASE ~job.check
  <2>1. /\ find' = [want |-> TLVE_IMAGE_EPUBKEY, off |-> 0, type |-> 0, length |-> 0,
                    value |-> 0]
        /\ pc' = "search" /\ rd' = rd /\ fed' = fed
    BY <1>2, <1>7, Zenon DEF SearchFor
  <2>2. DigestInv'
    BY <1>1, <1>2, <2>1 DEF DigestInv
  <2>3. TlvInv'
    BY <1>1, <1>2, <1>3, <2>1 DEF TlvInv, Opened, Comparing
  <2>4. FindInv'
    BY <2>1 DEF FindInv, Comparing, Wanted
  <2>5. InfoInv'
    BY <1>1, <1>2, <1>3, <1>4, <1>5, <1>7, <2>1 DEF InfoInv, Comparing, KeyWanted,
           TLVE_IMAGE_HASH, TLVE_IMAGE_EPUBKEY
  <2>6. CompleteInv'
    BY <1>1, <1>2, <1>3, <2>1 DEF CompleteInv
  <2>7. RetInv'
    BY <1>1, <1>2, <2>1 DEF RetInv
  <2>8. QED
    BY <1>1, <1>3, <2>1, <2>2, <2>3, <2>4, <2>5, <2>6, <2>7, Zenon DEF IInv
<1>8. QED
  BY <1>6, <1>7

(* Only the cells of the image have its hash. *)
LEMMA ComparedCells ==
  ASSUME FlashInv, DigestInv, InfoInv, pc = "compare"
  PROVE  job.check /\ InfoRead /\ (fed = Body(job.img) <=> BodyIsWhole)
<1>1. job.check /\ BodyHashed /\ InfoRead
  BY Zenon DEF DigestInv, InfoInv, Comparing
<1>2. /\ job.img.offset \in Nat /\ job.img.size \in Nat /\ SlotStart[job.slt] \in Nat
      /\ job.eoff = 0
  BY <1>1, JobTypes DEF FlashInv
<1>3. info.start = SlotStart[job.slt] + job.img.offset /\ info.end = info.start + job.img.size
  BY <1>1, Zenon DEF InfoRead
<1>4. info.start + job.eoff = HdrAt + job.img.offset /\ info.end - info.start = job.img.size
  BY <1>2, <1>3 DEF HdrAt
<1>5. fed = ReadCells(HdrAt + job.img.offset, job.img.size)
  BY <1>1, <1>4 DEF BodyHashed
<1>6. QED
  BY <1>1, <1>5, HashedBody, Zenon

LEMMA HashMatchesStep ==
  ASSUME IInv, HashMatches
  PROVE  IInv'
<1>1. /\ FlashInv /\ DigestInv /\ TlvInv /\ FindInv /\ InfoInv /\ InfoOfImage
      /\ CompleteInv /\ RetInv
  BY Zenon DEF IInv
<1>2. /\ pc = "compare" /\ pc' = "search" /\ fed = Body(job.img)
      /\ find' = [want |-> TLVE_IMAGE_EPUBKEY, off |-> 0, type |-> 0, length |-> 0, value |-> 0]
      /\ job' = job /\ flash' = flash /\ rd' = rd /\ fed' = fed
      /\ nkey' = nkey /\ tlv' = tlv /\ info' = info /\ ret' = ret
  BY Zenon DEF HashMatches, SameHash, SearchFor, Keep
<1>3. /\ FlashInv' <=> FlashInv
      /\ GoodHeader' <=> GoodHeader
      /\ SignedHeader' <=> SignedHeader
      /\ BodyIsWhole' <=> BodyIsWhole
      /\ Proper' <=> Proper
      /\ TlvCopied' <=> TlvCopied
      /\ InfoRead' <=> InfoRead
      /\ InfoOfImage' <=> InfoOfImage
      /\ Tried' <=> Tried
  BY <1>2, SamePlace, SameTlv, SameInfo, SameTried, Zenon
<1>4. ~info.valid
  BY <1>1, <1>2 DEF InfoInv
<1>5. InfoRead /\ BodyIsWhole
  BY <1>1, <1>2, ComparedCells, Zenon
<1>6. DigestInv'
  BY <1>1, <1>2 DEF DigestInv
<1>7. TlvInv'
  BY <1>1, <1>2, <1>3 DEF TlvInv, Opened, Comparing
<1>8. FindInv'
  BY <1>2 DEF FindInv, Comparing, Wanted
<1>9. InfoInv'
  BY <1>1, <1>2, <1>3, <1>4, <1>5 DEF InfoInv, Comparing, KeyWanted, TLVE_IMAGE_HASH,
         TLVE_IMAGE_EPUBKEY
<1>10. CompleteInv'
  BY <1>1, <1>2, <1>3 DEF CompleteInv
<1>11. RetInv'
  BY <1>1, <1>2 DEF RetInv
<1>12. QED
  BY <1>1, <1>2, <1>3, <1>6, <1>7, <1>8, <1>9, <1>10, <1>11, Zenon DEF IInv

LEMMA HashDiffersStep ==
  ASSUME IInv, HashDiffers
  PROVE  IInv'
<1>1. /\ FlashInv /\ DigestInv /\ TlvInv /\ FindInv /\ InfoInv
      /\ pc = "compare" /\ ~SameHash /\ Refuse
  BY Zenon DEF IInv, HashDiffers
<1>2. ASSUME Proper PROVE FALSE
  <2> DEFINE i == job.img
             t == TlvBytes(i)
             b == Base(i)
  <2>1. fed = Body(i)
    <3>1. BodyIsWhole
      BY <1>1, <1>2, WholeCells, Zenon DEF Proper
    <3>2. QED
      BY <1>1, <3>1, ComparedCells, Zenon
  <2>2. \A n \in 1 .. AreaLen(i) : tlv[n] = t[n]
    BY <1>1, <1>2, ProperTlv, Zenon DEF Proper, Comparing
  <2>3. /\ find.want = TLVE_IMAGE_HASH /\ find.type = find.want
        /\ find.length = LengthOf(find.want)
    BY <1>1 DEF FindInv, Comparing
  <2>4. find.value = Place(i, find.want) + 2
    <3>1. find.want \in Wanted
      BY <2>3 DEF Wanted
    <3>2. QED
      BY <1>1, <2>3, <3>1, FoundEntry, Zenon DEF Comparing
  <2>5. b \in Nat /\ AreaLen(i) \in Nat /\ b + 14 <= AreaLen(i) /\ Place(i, find.want) = b + 11
    BY <2>3 DEF AreaLen, Base, Place, TLVE_IMAGE_TYPE, TLVE_IMAGE_INFO, TLVE_IMAGE_HASH
  <2>6. t[b + 14] = HashCell
    BY <1>1, TlvCells, JobTypes, Zenon DEF FlashInv
  <2> HIDE DEF t, b
  <2>7. find.value + 1 = b + 14 /\ b + 14 \in 1 .. AreaLen(i)
    BY <2>4, <2>5
  <2>8. Value(1) = HashCell
    BY <2>2, <2>6, <2>7, Zenon DEF Value
  <2>9. QED
    BY <1>1, <2>1, <2>8, Zenon DEF SameHash
<1>3. QED
  BY <1>1, <1>2, RefuseStep

(* The end of an image, valid or not: what NoKeyEntry and TakeKey share.    *)
LEMMA InfoReadStep ==
  ASSUME IInv, KeyWanted, NEW e \in Nat,
         info' = [info EXCEPT !.encstart = e, !.valid = TRUE], pc' = "info",
         Keep(<<rd, fed, nkey, tlv, find, ret>>),
         e = (IF job.img.key /\ flash[Len(Header(job.img))] = PubKeyCell
              THEN info.start ELSE info.end)
  PROVE  IInv'
<1>1. /\ FlashInv /\ DigestInv /\ TlvInv /\ FindInv /\ InfoInv /\ InfoOfImage
      /\ CompleteInv /\ RetInv
  BY Zenon DEF IInv
<1>2. /\ pc = "search" /\ pc' = "info"
      /\ job' = job /\ flash' = flash /\ rd' = rd /\ fed' = fed
      /\ nkey' = nkey /\ tlv' = tlv /\ find' = find /\ ret' = ret
  BY Zenon DEF KeyWanted, Keep
<1>3. /\ FlashInv' <=> FlashInv
      /\ GoodHeader' <=> GoodHeader
      /\ SignedHeader' <=> SignedHeader
      /\ BodyIsWhole' <=> BodyIsWhole
      /\ Proper' <=> Proper
      /\ Tried' <=> Tried
  BY <1>2, SamePlace, SameTried, Zenon
<1>4. /\ info'.start = info.start /\ info'.end = info.end /\ info'.load = info.load
      /\ info'.version = info.version /\ info'.encstart = e /\ info'.valid = TRUE
  OBVIOUS
<1>5. InfoRead /\ (job.check => BodyIsWhole)
  BY <1>1 DEF InfoInv
<1>6. InfoOfImage'
  <2>1. /\ info'.start = SlotStart[job.slt] + job.img.offset
        /\ info'.end = info'.start + job.img.size
        /\ info'.load = job.img.load /\ info'.version = job.img.version
    BY <1>4, <1>5, Zenon DEF InfoRead
  <2>2. info'.encstart = (IF job.img.key /\ flash[Len(Header(job.img))] = PubKeyCell
                          THEN info'.start ELSE info'.end)
    BY <1>4
  <2>3. QED
    BY <1>2, <2>1, <2>2 DEF InfoOfImage
<1>7. DigestInv'
  BY <1>1, <1>2 DEF DigestInv
<1>8. TlvInv'
  BY <1>1, <1>2, <1>3 DEF TlvInv, Opened, Comparing
<1>9. FindInv'
  BY <1>2 DEF FindInv, Comparing
<1>10. InfoInv'
  BY <1>1, <1>2, <1>3, <1>4, <1>5 DEF InfoInv, Comparing, KeyWanted
<1>11. CompleteInv'
  BY <1>1, <1>2, <1>3, <1>4 DEF CompleteInv
<1>12. RetInv'
  BY <1>1, <1>2 DEF RetInv
<1>13. QED
  BY <1>1, <1>2, <1>3, <1>6, <1>7, <1>8, <1>9, <1>10, <1>11, <1>12, Zenon DEF IInv

(* The last cell of the header is that of the key.  What is erased in front *)
(* of it is erased up to it.                                                *)
LEMMA NoKeyEntryStep ==
  ASSUME IInv, NoKeyEntry
  PROVE  IInv'
<1> DEFINE i == job.img
           t == TlvBytes(i)
           l == AreaLen(i)
<1>1. FlashInv /\ TlvInv /\ FindInv /\ InfoInv
  BY Zenon DEF IInv
<1>2. /\ pc = "search" /\ ~Searching /\ find.want = TLVE_IMAGE_EPUBKEY
      /\ ~(find.type = find.want /\ find.length = LengthOf(find.want))
      /\ info' = [info EXCEPT !.encstart = info.end, !.valid = TRUE] /\ pc' = "info"
      /\ Keep(<<rd, fed, nkey, tlv, find, ret>>)
  BY Zenon DEF NoKeyEntry, NotFound
<1>3. ~(i.key /\ flash[Len(Header(i))] = PubKeyCell)
  <2> SUFFICES ASSUME i.key, flash[Len(Header(i))] = PubKeyCell PROVE FALSE
    OBVIOUS
  <2>1. /\ Len(t) = l /\ l \in Nat
        /\ \A n \in 1 .. l : tlv[n] = flash[4 + n] /\ tlv[n] \in Nat
        /\ \E c \in Nat : /\ job.check => c > l
                        /\ \A n \in 1 .. l : tlv[n] = IF n < c THEN t[n] ELSE Erased
    BY <1>1, <1>2, TlvRead, Zenon
  <2>2. Len(Header(i)) = 4 + l
    BY <1>1, <2>1, FlashCells, Zenon
  <2>3. l >= 1
    BY DEF AreaLen, Base
  <2> HIDE DEF t, l
  <2>4. tlv[l] = PubKeyCell
    <3>1. l \in 1 .. l
      BY <2>1, <2>3
    <3>2. QED
      BY <2>1, <2>2, <3>1, Zenon
  <2>5. PICK c \in Nat : \A n \in 1 .. l : tlv[n] = IF n < c THEN t[n] ELSE Erased
    BY <2>1, Zenon
  <2>6. l < c
    BY <2>1, <2>3, <2>4, <2>5 DEF PubKeyCell, Erased
  <2>7. \A n \in 1 .. l : tlv[n] = t[n]
    BY <2>1, <2>5, <2>6
  <2>8. QED
    BY <1>1, <1>2, <2>7, NothingMissed, Zenon DEF t, l
<1>4. KeyWanted
  BY <1>2 DEF KeyWanted
<1>5. info.end \in Nat
  BY <1>1 DEF InfoInv
<1>6. info.end = (IF i.key /\ flash[Len(Header(i))] = PubKeyCell THEN info.start ELSE info.end)
  BY <1>3
<1>7. QED
  BY <1>2, <1>4, <1>5, <1>6, InfoReadStep, Zenon

(* Where the key lies, and what is read there. *)
LEMMA KeyCell ==
  ASSUME FlashInv, TlvInv, FindInv, Found(TLVE_IMAGE_EPUBKEY)
  PROVE  job.img.key /\ Value(1) = flash[Len(Header(job.img))]
         /\ Value(1) = tlv[AreaLen(job.img)]
<1> DEFINE i == job.img
           p == Place(i, find.want)
           l == AreaLen(i)
<1>1. /\ pc = "search" /\ find.want = TLVE_IMAGE_EPUBKEY /\ find.type = find.want
      /\ find.length = LengthOf(find.want)
  BY Zenon DEF Found
<1>2. find.want \in Wanted
  BY <1>1 DEF Wanted
<1>3. p \in Entries(i) /\ find.value = p + 2
  BY <1>1, <1>2, FoundEntry, Zenon
<1>4. i.key \in BOOLEAN
  BY JobTypes DEF FlashInv
<1>5. p = Base(i) + 14 /\ Base(i) \in Nat
  BY <1>1 DEF Base, Place, TLVE_IMAGE_TYPE, TLVE_IMAGE_INFO, TLVE_IMAGE_HASH, TLVE_IMAGE_EPUBKEY
<1>6. i.key
  BY <1>3, <1>4, <1>5 DEF Entries
<1>7. l = Base(i) + 17
  BY <1>6 DEF AreaLen
<1>8. Len(Header(i)) = 4 + l /\ tlv[l] = flash[4 + l]
  <2>1. /\ Len(TlvBytes(i)) = l /\ l \in Nat
        /\ \A n \in 1 .. l : tlv[n] = flash[4 + n] /\ tlv[n] \in Nat
    BY <1>1, TlvRead, Zenon
  <2>2. l \in 1 .. l
    BY <1>5, <1>7
  <2>3. Len(Header(i)) = 4 + l
    BY <2>1, FlashCells, Zenon
  <2>4. QED
    BY <2>1, <2>2, <2>3, Zenon
<1> HIDE DEF p, l
<1>9. find.value + 1 = l
  BY <1>3, <1>5, <1>7
<1>10. QED
  BY <1>6, <1>8, <1>9, Zenon DEF Value, l

LEMMA TakeKeyStep ==
  ASSUME IInv, TakeKey
  PROVE  IInv'
<1>1. FlashInv /\ TlvInv /\ FindInv /\ InfoInv
  BY Zenon DEF IInv
<1>2. /\ Found(TLVE_IMAGE_EPUBKEY) /\ Value(1) = PubKeyCell
      /\ info' = [info EXCEPT !.encstart = info.start, !.valid = TRUE] /\ pc' = "info"
      /\ Keep(<<rd, fed, nkey, tlv, find, ret>>)
  BY Zenon DEF TakeKey
<1>3. job.img.key /\ flash[Len(Header(job.img))] = PubKeyCell
  BY <1>1, <1>2, KeyCell, Zenon
<1>4. KeyWanted
  BY <1>2 DEF KeyWanted, Found
<1>5. info.start \in Nat
  BY <1>1 DEF InfoInv
<1>6. info.start = (IF job.img.key /\ flash[Len(Header(job.img))] = PubKeyCell
                    THEN info.start ELSE info.end)
  BY <1>3
<1>7. QED
  BY <1>2, <1>4, <1>5, <1>6, InfoReadStep, Zenon

LEMMA BadKeyStep ==
  ASSUME IInv, BadKey
  PROVE  IInv'
<1>1. /\ FlashInv /\ TlvInv /\ FindInv
      /\ Found(TLVE_IMAGE_EPUBKEY) /\ Value(1) # PubKeyCell /\ Refuse
  BY Zenon DEF IInv, BadKey
<1>2. pc = "search"
  BY <1>1 DEF Found
<1>3. ASSUME Proper PROVE FALSE
  <2> DEFINE i == job.img
             t == TlvBytes(i)
  <2>1. i.key /\ Value(1) = tlv[AreaLen(i)]
    BY <1>1, KeyCell, Zenon
  <2>2. \A n \in 1 .. AreaLen(i) : tlv[n] = t[n]
    BY <1>1, <1>2, <1>3, ProperTlv, Zenon DEF Proper
  <2>3. t[Base(i) + 17] = PubKeyCell
    BY <1>1, <2>1, TlvCells, JobTypes, Zenon DEF FlashInv
  <2>4. AreaLen(i) = Base(i) + 17 /\ AreaLen(i) \in 1 .. AreaLen(i)
    BY <2>1 DEF AreaLen, Base
  <2>5. Value(1) = PubKeyCell
    BY <2>1, <2>2, <2>3, <2>4, Zenon
  <2>6. QED
    BY <1>1, <2>5
<1>4. QED
  BY <1>1, <1>2, <1>3, RefuseStep

LEMMA ImgCheckStep ==
  ASSUME IInv, ImgCheck
  PROVE  IInv'
<1>1. /\ FlashInv /\ DigestInv /\ TlvInv /\ FindInv /\ InfoInv /\ InfoOfImage
      /\ CompleteInv /\ RetInv
  BY Zenon DEF IInv
<1>2. /\ pc = "info" /\ pc' = "done" /\ job.check /\ ret' = Verdict
      /\ job' = job /\ flash' = flash /\ rd' = rd /\ fed' = fed
      /\ nkey' = nkey /\ tlv' = tlv /\ find' = find /\ info' = info
  BY Zenon DEF ImgCheck, Verdict, Keep
<1>3. /\ FlashInv' <=> FlashInv
      /\ GoodHeader' <=> GoodHeader
      /\ SignedHeader' <=> SignedHeader
      /\ BodyIsWhole' <=> BodyIsWhole
      /\ Proper' <=> Proper
      /\ InfoOfImage' <=> InfoOfImage
      /\ Tried' <=> Tried
      /\ Verdict' = Verdict
  BY <1>2, SamePlace, SameInfo, SameTried, SameVerdict, Zenon
<1>4. DigestInv'
  BY <1>1, <1>2 DEF DigestInv
<1>5. TlvInv'
  BY <1>1, <1>2, <1>3 DEF TlvInv, Opened, Comparing
<1>6. FindInv'
  BY <1>2 DEF FindInv, Comparing
<1>7. InfoInv'
  BY <1>1, <1>2, <1>3 DEF InfoInv, Comparing, KeyWanted
<1>8. CompleteInv'
  BY <1>1, <1>2, <1>3 DEF CompleteInv
<1>9. RetInv'
  <2>1. ret'.slt \in Slot
    BY <1>2 DEF Verdict, Slot
  <2>2. ret'.ok \in BOOLEAN
    <3>1. info.valid \in BOOLEAN
      BY <1>1 DEF InfoInv
    <3>2. QED
      BY <1>2, <3>1, Zenon DEF Verdict
  <2>3. QED
    BY <1>2, <1>3, <2>1, <2>2, Zenon DEF RetInv
<1>10. QED
  BY <1>1, <1>2, <1>3, <1>4, <1>5, <1>6, <1>7, <1>8, <1>9, Zenon DEF IInv

LEMMA CalcCrc32Step ==
  ASSUME IInv, CalcCrc32
  PROVE  IInv'
<1>1. /\ FlashInv /\ DigestInv /\ TlvInv /\ FindInv /\ InfoInv /\ InfoOfImage
      /\ CompleteInv /\ RetInv
  BY Zenon DEF IInv
<1>2. /\ pc = "info" /\ ~job.check /\ job.eoff = 0
      /\ Digest(info.start, info.end - info.start, "done")
      /\ job' = job /\ flash' = flash /\ nkey' = nkey /\ tlv' = tlv /\ find' = find
      /\ info' = info /\ ret' = ret
  BY Zenon DEF CalcCrc32, Keep
<1>3. /\ FlashInv' <=> FlashInv
      /\ GoodHeader' <=> GoodHeader
      /\ SignedHeader' <=> SignedHeader
      /\ BodyIsWhole' <=> BodyIsWhole
      /\ Proper' <=> Proper
      /\ InfoOfImage' <=> InfoOfImage
      /\ Tried' <=> Tried
  BY <1>2, SamePlace, SameInfo, SameTried, Zenon
<1>4. /\ {rd'.at, rd'.left, rd'.jump} \subseteq Nat
      /\ rd'.jump <= rd'.left /\ rd'.jump < WriteBlock
      /\ pc' = "piece" /\ rd'.next = "done" /\ Feeding'
  <2>1. info.start \in Nat /\ info.end - info.start \in Nat /\ info.start = info.start + job.eoff
    <3>1. info.start \in Nat /\ info.end \in Nat /\ info.end >= info.start
      BY <1>1 DEF InfoInv
    <3>2. QED
      BY <1>2, <3>1
  <2>2. UNCHANGED <<job, flash, info>>
    BY <1>2
  <2>3. "done" # "verify"
    OBVIOUS
  <2>4. QED
    BY <1>1, <1>2, <2>1, <2>2, <2>3, DigestStart, Zenon
<1>5. DigestInv'
  BY <1>4 DEF DigestInv
<1>6. TlvInv'
  BY <1>1, <1>2, <1>3, <1>4 DEF TlvInv, Opened, Comparing
<1>7. FindInv'
  BY <1>4 DEF FindInv, Comparing
<1>8. InfoInv'
  BY <1>1, <1>2, <1>3, <1>4 DEF InfoInv, Comparing, KeyWanted
<1>9. CompleteInv'
  BY <1>1, <1>2, <1>3, <1>4 DEF CompleteInv
<1>10. RetInv'
  BY <1>1, <1>2, <1>4 DEF RetInv
<1>11. QED
  BY <1>1, <1>3, <1>4, <1>5, <1>6, <1>7, <1>8, <1>9, <1>10, Zenon DEF IInv

LEMMA NoCrc32Step ==
  ASSUME IInv, NoCrc32
  PROVE  IInv'
<1>1. /\ FlashInv /\ DigestInv /\ TlvInv /\ FindInv /\ InfoInv /\ InfoOfImage
      /\ CompleteInv /\ RetInv
  BY Zenon DEF IInv
<1>2. /\ pc = "info" /\ pc' = "done" /\ ~job.check /\ job.eoff # 0
      /\ job' = job /\ flash' = flash /\ rd' = rd /\ fed' = fed
      /\ nkey' = nkey /\ tlv' = tlv /\ find' = find /\ info' = info /\ ret' = ret
  BY Zenon DEF NoCrc32, Keep
<1>3. /\ FlashInv' <=> FlashInv
      /\ GoodHeader' <=> GoodHeader
      /\ SignedHeader' <=> SignedHeader
      /\ BodyIsWhole' <=> BodyIsWhole
      /\ Proper' <=> Proper
      /\ InfoOfImage' <=> InfoOfImage
      /\ Tried' <=> Tried
  BY <1>2, SamePlace, SameInfo, SameTried, Zenon
<1>4. DigestInv'
  BY <1>1, <1>2 DEF DigestInv
<1>5. TlvInv'
  BY <1>1, <1>2, <1>3 DEF TlvInv, Opened, Comparing
<1>6. FindInv'
  BY <1>2 DEF FindInv, Comparing
<1>7. InfoInv'
  BY <1>1, <1>2, <1>3 DEF InfoInv, Comparing, KeyWanted
<1>8. CompleteInv'
  BY <1>1, <1>2, <1>3 DEF CompleteInv
<1>9. RetInv'
  BY <1>1, <1>2 DEF RetInv
<1>10. QED
  BY <1>1, <1>2, <1>3, <1>4, <1>5, <1>6, <1>7, <1>8, <1>9, Zenon DEF IInv

-----------------------------------------------------------------------------
(* The inductive invariant *)

LEMMA InitFlash ==
  ASSUME Init
  PROVE  FlashInv
<1> DEFINE s == Shipped(job.img)
           l == Len(s)
<1>1. /\ job \in Checks \cup Looks
      /\ \/ flash = s
         \/ flash \in CutShort(s)
         \/ flash \in OneCell(s) /\ job.check
  BY Zenon DEF Init
<1>2. s \in Seq(Nat) /\ l = job.img.offset + job.img.size /\ 4 <= job.img.offset
  <2>1. job.img \in ImageInfos /\ Len(Header(job.img)) <= job.img.offset
    BY <1>1, JobTypes, Zenon
  <2>2. /\ s \in Seq(Nat) /\ l = job.img.offset + job.img.size
        /\ 4 + Len(TlvBytes(job.img)) <= job.img.offset /\ Len(TlvBytes(job.img)) \in Nat
    BY <2>1, ShippedCells, Zenon
  <2>3. job.img.offset \in Nat
    BY <1>1, JobTypes
  <2>4. QED
    BY <2>2, <2>3
<1>3. job.img.offset \in Nat /\ job.img.size \in Nat
  BY <1>1, JobTypes
<1> HIDE DEF s, l
<1>4. l \in Nat /\ l >= 4 /\ l = Len(s)
  BY <1>2, <1>3 DEF l
<1>5. \A n \in 1 .. l : s[n] \in Nat
  BY <1>2, <1>4
<1>6. CASE flash = s
  <2>1. flash \in Seq(Nat) /\ Len(flash) = l
    BY <1>2, <1>4, <1>6
  <2>2. l + 1 \in 1 .. l + 1 /\ \A n \in 1 .. l : n < l + 1
    BY <1>4
  <2>3. \A n \in 1 .. l : flash[n] = IF n < l + 1 THEN s[n] ELSE Erased
    BY <1>6, <2>2
  <2>4. \E c \in 1 .. Len(flash) + 1 : \A n \in 1 .. Len(flash) :
          flash[n] = IF n < c THEN s[n] ELSE Erased
    BY <2>1, <2>2, <2>3
  <2>5. QED
    BY <1>1, <2>1, <2>4, Zenon DEF FlashInv, s, l
<1>7. CASE flash \in CutShort(s)
  <2>1. PICK k \in 1 .. l : flash = [n \in 1 .. l |-> IF n < k THEN s[n] ELSE Erased]
    BY <1>7, Zenon DEF CutShort, l
  <2>2. \A n \in 1 .. l : (IF n < k THEN s[n] ELSE Erased) \in Nat
    BY <1>5 DEF Erased
  <2>3. flash \in Seq(Nat) /\ Len(flash) = l
    BY <1>4, <2>1, <2>2
  <2>4. k \in 1 .. l + 1
    BY <1>4
  <2>5. \A n \in 1 .. l : flash[n] = IF n < k THEN s[n] ELSE Erased
    BY <2>1, Zenon
  <2>6. \E c \in 1 .. Len(flash) + 1 : \A n \in 1 .. Len(flash) :
          flash[n] = IF n < c THEN s[n] ELSE Erased
    BY <2>3, <2>4, <2>5, Zenon
  <2>7. QED
    BY <1>1, <2>3, <2>6, Zenon DEF FlashInv, s, l
<1>8. CASE flash \in OneCell(s) /\ job.check
  <2>1. PICK k \in 1 .. l, v \in {0, Erased} : flash = [s EXCEPT ![k] = v]
    BY <1>8 DEF OneCell, l
  <2>2. v \in Nat
    BY DEF Erased
  <2>3. flash \in Seq(Nat) /\ Len(flash) = l
    BY <1>2, <1>4, <2>1, <2>2
  <2>4. QED
    BY <1>1, <1>8, <2>3, Zenon DEF FlashInv, s, l
<1>9. QED
  BY <1>1, <1>6, <1>7, <1>8

LEMMA InitIInv ==
  ASSUME Init
  PROVE  IInv
<1>1. FlashInv
  BY InitFlash
<1>2. /\ pc = "open"
      /\ rd = [at |-> 0, left |-> 0, jump |-> 0, next |-> "done"]
      /\ fed = <<>> /\ nkey = 1
      /\ find = [want |-> 0, off |-> 0, type |-> 0, length |-> 0, value |-> 0]
      /\ info.start = SlotStart[job.slt] /\ info.encstart = SlotStart[job.slt]
      /\ info.end = SlotStart[job.slt] /\ info.valid = FALSE
      /\ ret.slt = 0 /\ ret.ok = FALSE
  BY DEF Init
<1>3. SlotStart[job.slt] \in Nat
  BY <1>1, JobTypes DEF FlashInv
<1>4. DigestInv
  BY <1>2, InfoAssumption DEF DigestInv
<1>5. TlvInv
  BY <1>2 DEF TlvInv, Opened, Comparing
<1>6. FindInv
  BY <1>2 DEF FindInv, Comparing
<1>7. InfoInv
  <2>1. info.valid \in BOOLEAN /\ ~info.valid
    BY <1>2
  <2>2. {info.start, info.encstart, info.end} \subseteq Nat /\ info.end >= info.start
    BY <1>2, <1>3
  <2>3. pc \notin {"search", "compare", "piece"}
    BY <1>2
  <2>4. QED
    BY <2>1, <2>2, <2>3 DEF InfoInv, Comparing, KeyWanted
<1>8. InfoOfImage
  BY <1>2 DEF InfoOfImage
<1>9. CompleteInv
  <2>1. Len(RootKeys) \in Nat
    BY InfoAssumption
  <2>2. nkey \in 1 .. Len(RootKeys) + 1
    BY <1>2, <2>1
  <2>3. Tried
    BY <1>2 DEF Tried
  <2>4. QED
    BY <1>2, <2>2, <2>3 DEF CompleteInv
<1>10. RetInv
  BY <1>2 DEF RetInv, Slot
<1>11. QED
  BY <1>1, <1>2, <1>4, <1>5, <1>6, <1>7, <1>8, <1>9, <1>10 DEF IInv

LEMMA StutterStep ==
  ASSUME IInv, UNCHANGED vars
  PROVE  IInv'
<1>1. /\ FlashInv /\ DigestInv /\ TlvInv /\ FindInv /\ InfoInv /\ InfoOfImage
      /\ CompleteInv /\ RetInv
  BY Zenon DEF IInv
<1>2. /\ pc' = pc /\ job' = job /\ flash' = flash /\ rd' = rd /\ fed' = fed
      /\ nkey' = nkey /\ tlv' = tlv /\ find' = find /\ info' = info /\ ret' = ret
  BY Zenon DEF vars
<1>3. /\ FlashInv' <=> FlashInv
      /\ SignedHeader' <=> SignedHeader
      /\ GoodHeader' <=> GoodHeader
      /\ BodyIsWhole' <=> BodyIsWhole
      /\ Proper' <=> Proper
      /\ Feeding' <=> Feeding
      /\ TlvHashed' <=> TlvHashed
      /\ BodyHashed' <=> BodyHashed
      /\ TlvCopied' <=> TlvCopied
      /\ OnSomeEntry' <=> OnSomeEntry
      /\ InfoCopied' <=> InfoCopied
      /\ InfoOfImage' <=> InfoOfImage
      /\ InfoRead' <=> InfoRead
      /\ Tried' <=> Tried
      /\ Verdict' = Verdict
  BY <1>2, SamePlace, SameHashed, SameTlv, SameEntry, SameInfo, SameTried, SameVerdict, Zenon
<1>4. DigestInv'
  BY <1>1, <1>2, <1>3 DEF DigestInv
<1>5. TlvInv'
  BY <1>1, <1>2, <1>3 DEF TlvInv, Opened, Comparing
<1>6. FindInv'
  BY <1>1, <1>2, <1>3 DEF FindInv, Comparing, LengthOf
<1>7. InfoInv'
  BY <1>1, <1>2, <1>3 DEF InfoInv, Comparing, KeyWanted
<1>8. CompleteInv'
  BY <1>1, <1>2, <1>3 DEF CompleteInv
<1>9. RetInv'
  BY <1>1, <1>2, <1>3 DEF RetInv
<1>10. QED
  BY <1>1, <1>2, <1>3, <1>4, <1>5, <1>6, <1>7, <1>8, <1>9, Zenon DEF IInv

(* However large images, headers, pieces and slots are, what has been read  *)
(* so far is what the property of the end needs.                            *)
THEOREM InfoInvariant == Spec => []IInv
<1>1. Init => IInv
  BY InitIInv
<1>2. IInv /\ [Next]_vars => IInv'
  <2> SUFFICES ASSUME IInv, [Next]_vars PROVE IInv'
    OBVIOUS
  <2>1. CASE NoMagic
    BY <2>1, NoMagicStep
  <2>2. CASE OpenSigned
    BY <2>2, OpenSignedStep
  <2>3. CASE OpenUnsigned
    BY <2>3, OpenUnsignedStep
  <2>4. CASE ReadPiece
    BY <2>4, ReadPieceStep
  <2>5. CASE PiecesRead
    BY <2>5, PiecesReadStep
  <2>6. CASE VerifyKey
    BY <2>6, VerifyKeyStep
  <2>7. CASE NextKey
    BY <2>7, NextKeyStep
  <2>8. CASE NoKeyLeft
    BY <2>8, NoKeyLeftStep
  <2>9. CASE ReadTlv
    BY <2>9, ReadTlvStep
  <2>10. CASE StepTlv
    BY <2>10, StepTlvStep
  <2>11. CASE MissingEntry
    BY <2>11, MissingEntryStep
  <2>12. CASE TakeType
    BY <2>12, TakeTypeStep
  <2>13. CASE TakeInfo
    BY <2>13, TakeInfoStep
  <2>14. CASE TakeHash
    BY <2>14, TakeHashStep
  <2>15. CASE HashMatches
    BY <2>15, HashMatchesStep
  <2>16. CASE HashDiffers
    BY <2>16, HashDiffersStep
  <2>17. CASE NoKeyEntry
    BY <2>17, NoKeyEntryStep
  <2>18. CASE TakeKey
    BY <2>18, TakeKeyStep
  <2>19. CASE BadKey
    BY <2>19, BadKeyStep
  <2>20. CASE ImgCheck
    BY <2>20, ImgCheckStep
  <2>21. CASE CalcCrc32
    BY <2>21, CalcCrc32Step
  <2>22. CASE NoCrc32
    BY <2>22, NoCrc32Step
  <2>23. CASE OverrunTlv
    BY <2>23, OverrunTlvStep
  <2>24. CASE UNCHANGED vars
    BY <2>24, StutterStep
  <2>25. QED
    BY <2>1, <2>2, <2>3, <2>4, <2>5, <2>6, <2>7, <2>8, <2>9, <2>10, <2>11, <2>12, <2>13,
       <2>14, <2>15, <2>16, <2>17, <2>18, <2>19, <2>20, <2>21, <2>22, <2>23, <2>24, Zenon DEF Next
<1>3. QED
  BY <1>1, <1>2, PTL DEF Spec

-----------------------------------------------------------------------------
(* What follows *)

(* Types, and that a piece is never shorter than what is skipped in it: the *)
(* first one begins less than a write block in front of the first cell.     *)
THEOREM InfoTypeCorrect == Spec => []TypeOK
<1>1. IInv => TypeOK
  <2> SUFFICES ASSUME IInv PROVE TypeOK
    OBVIOUS
  <2>1. FlashInv /\ DigestInv /\ InfoInv /\ CompleteInv /\ RetInv
    BY Zenon DEF IInv
  <2>2. /\ rd.at \in Nat /\ rd.left \in Nat /\ rd.jump \in Nat
        /\ rd.jump <= rd.left /\ rd.jump < WriteBlock
    BY <2>1 DEF DigestInv
  <2>3. rd.jump <= PieceLen
    BY <2>2, InfoAssumption DEF PieceLen
  <2>4. pc \in {"open", "piece", "verify", "read", "overrun", "search", "compare", "info", "done"}
    BY Zenon DEF IInv
  <2>5. job \in Checks \cup Looks
    BY <2>1, Zenon DEF FlashInv
  <2>6. nkey \in 1 .. Len(RootKeys) + 1
    BY <2>1, Zenon DEF CompleteInv
  <2>7. info.valid \in BOOLEAN /\ {info.start, info.encstart, info.end} \subseteq Nat
    BY <2>1, Zenon DEF InfoInv
  <2>8. ret.slt \in Slot /\ ret.ok \in BOOLEAN
    BY <2>1, Zenon DEF RetInv
  <2>9. {rd.at, rd.left, rd.jump} \subseteq Nat
    BY <2>2
  <2>10. QED
    BY <2>3, <2>4, <2>5, <2>6, <2>7, <2>8, <2>9, Zenon DEF TypeOK
<1>2. QED
  BY <1>1, InfoInvariant, PTL

(* What is found of an image is what imgtool was given, wherever the header *)
(* lies and however much of it was copied.                                  *)
THEOREM InfoIsOfImage == Spec => []InfoOfImage
<1>1. IInv => InfoOfImage
  BY Zenon DEF IInv
<1>2. QED
  BY <1>1, InfoInvariant, PTL

(* No image passes zb_img_check that differs in a cell from what was signed *)
(* with a root key, or does not leave the last sector of its slot free.     *)
THEOREM OnlyWholePass == Spec => []OnlyWhole
<1>1. IInv => OnlyWhole
  <2> SUFFICES ASSUME IInv, pc = "done", ret.ok
               PROVE  /\ Whole(flash, job.img) /\ InRoot(job.img.signer)
                      /\ ret.slt = (IF InSlot(1, job.img.load) THEN 1 ELSE 0)
                      /\ job.img.offset + job.img.size <= SlotSize[ret.slt] - SectorSize
    BY DEF OnlyWhole
  <2>1. FlashInv /\ TlvInv /\ InfoInv /\ InfoOfImage /\ RetInv
    BY Zenon DEF IInv
  <2>2. job.check /\ ret = Verdict
    BY <2>1, Zenon DEF RetInv
  <2> DEFINE s == IF InSlot(1, info.load) THEN 1 ELSE 0
  <2>3. /\ ret.slt = s /\ info.valid
        /\ Room(info.end - SlotStart[job.slt], s)
    BY <2>2, Zenon DEF Verdict
  <2>4. SignedHeader
    BY <2>1, <2>2, <2>3, Zenon DEF TlvInv, Opened
  <2>5. BodyIsWhole
    BY <2>1, <2>2, <2>3, Zenon DEF InfoInv
  <2>6. Whole(flash, job.img) /\ InRoot(job.img.signer)
    BY <2>1, <2>4, <2>5, CellsWhole, Zenon DEF SignedHeader
  <2>7. /\ info.start = SlotStart[job.slt] + job.img.offset
        /\ info.end = info.start + job.img.size /\ info.load = job.img.load
    BY <2>1, <2>3, Zenon DEF InfoOfImage
  <2>8. s \in Slot
    BY DEF Slot
  <2> HIDE DEF s
  <2>9. job.img.offset + job.img.size <= SlotSize[s] - SectorSize
    <3>1. /\ job.img.offset \in Nat /\ job.img.size \in Nat /\ SlotStart[job.slt] \in Nat
      BY <2>1, JobTypes DEF FlashInv
    <3>2. SlotSize[s] \in Nat /\ SectorSize \in Nat
      BY <2>8, InfoAssumption
    <3>3. info.end - SlotStart[job.slt] + SectorSize <= SlotSize[s]
      BY <2>3, Zenon DEF Room
    <3>4. QED
      BY <2>7, <3>1, <3>2, <3>3
  <2>10. ret.slt = (IF InSlot(1, job.img.load) THEN 1 ELSE 0)
    BY <2>3, <2>7, Zenon DEF s
  <2>11. QED
    BY <2>3, <2>6, <2>9, <2>10, Zenon
<1>2. QED
  BY <1>1, InfoInvariant, PTL

(* No part of a version reaches into the bits of the one in front. *)
LEMMA PartsKept ==
  ASSUME NEW a \in Nat, NEW b \in Nat, NEW c \in Nat, a <= 255, b <= 255, c <= 65535,
         NEW x \in Nat, NEW y \in Nat, NEW z \in Nat, x <= 255, y <= 255, z <= 65535
  PROVE  a * 16777216 + b * 65536 + c >= x * 16777216 + y * 65536 + z
           <=> ~(a < x \/ (a = x /\ b < y) \/ (a = x /\ b = y /\ c < z))
<1>1. CASE a < x
  BY <1>1, SMT
<1>2. CASE a = x
  BY <1>2, SMT
<1>3. CASE a > x
  BY <1>3, SMT
<1>4. QED
  BY <1>1, <1>2, <1>3, SMT

(* As one number versions keep the order of their parts. *)
LEMMA OrderKept ==
  ASSUME NEW v \in Versions, NEW w \in Versions
  PROVE  VersionU32(v) >= VersionU32(w) <=> ~Older(v, w)
<1>1. /\ v[1] \in Nat /\ v[2] \in Nat /\ v[3] \in Nat
      /\ v[1] <= 255 /\ v[2] <= 255 /\ v[3] <= 65535
  BY VersionCells, SMT
<1>2. /\ w[1] \in Nat /\ w[2] \in Nat /\ w[3] \in Nat
      /\ w[1] <= 255 /\ w[2] <= 255 /\ w[3] <= 65535
  BY VersionCells, SMT
<1>3. Older(v, w) <=> \/ v[1] < w[1]
                      \/ v[1] = w[1] /\ v[2] < w[2]
                      \/ v[1] = w[1] /\ v[2] = w[2] /\ v[3] < w[3]
  <2>1. Older(v, w) <=> \/ v[1] < w[1] /\ \A m \in 1 .. 0 : v[m] = w[m]
                        \/ v[2] < w[2] /\ \A m \in 1 .. 1 : v[m] = w[m]
                        \/ v[3] < w[3] /\ \A m \in 1 .. 2 : v[m] = w[m]
    BY DEF Older
  <2>2. /\ 1 .. 0 = {} /\ 1 .. 1 = {1} /\ 1 .. 2 = {1, 2}
    OBVIOUS
  <2>3. QED
    BY <2>1, <2>2
<1>4. /\ VersionU32(v) = v[1] * 16777216 + v[2] * 65536 + v[3]
      /\ VersionU32(w) = w[1] * 16777216 + w[2] * 65536 + w[3]
  BY SMT DEF VersionU32
<1>5. PICK a \in Nat, b \in Nat, c \in Nat : v[1] = a /\ v[2] = b /\ v[3] = c
  BY <1>1, SMT
<1>6. PICK x \in Nat, y \in Nat, z \in Nat : w[1] = x /\ w[2] = y /\ w[3] = z
  BY <1>2, SMT
<1>7. /\ a <= 255 /\ b <= 255 /\ c <= 65535 /\ x <= 255 /\ y <= 255 /\ z <= 65535
  BY <1>1, <1>2, <1>5, <1>6, SMT
<1>8. a * 16777216 + b * 65536 + c >= x * 16777216 + y * 65536 + z
        <=> ~(a < x \/ (a = x /\ b < y) \/ (a = x /\ b = y /\ c < z))
  BY <1>7, PartsKept, SMT
<1>9. QED
  BY <1>3, <1>4, <1>5, <1>6, <1>8, SMT

(* A whole image that fits and is signed with a root key is refused for an  *)
(* older version and for nothing else.                                      *)
THEOREM RefusedForVersion == Spec => []RefusesOlder
<1>1. IInv => RefusesOlder
  <2> DEFINE s == IF InSlot(1, job.img.load) THEN 1 ELSE 0
  <2> SUFFICES ASSUME IInv, pc = "done", job.check, Whole(flash, job.img),
                      InRoot(job.img.signer),
                      job.img.offset + job.img.size + SectorSize <= SlotSize[s]
               PROVE  ret.ok = ~(job.prm # NoPrm /\ Older(job.img.version, job.prm[s]))
    BY Zenon DEF RefusesOlder
  <2>1. FlashInv /\ InfoInv /\ InfoOfImage /\ CompleteInv /\ RetInv
    BY Zenon DEF IInv
  <2>2. info.valid
    BY <2>1, Zenon DEF CompleteInv, Proper
  <2>3. ret = Verdict
    BY <2>1, Zenon DEF RetInv
  <2>4. /\ info.start = SlotStart[job.slt] + job.img.offset
        /\ info.end = info.start + job.img.size
        /\ info.load = job.img.load /\ info.version = job.img.version
    BY <2>1, <2>2, Zenon DEF InfoOfImage
  <2>5. s \in Slot
    BY DEF Slot
  <2>6. ret.ok = (info.valid /\ Room(info.end - SlotStart[job.slt], s) /\ NotOlder(s))
    BY <2>3, <2>4 DEF Verdict
  <2> HIDE DEF s
  <2>7. Room(info.end - SlotStart[job.slt], s)
    <3>1. /\ job.img.offset \in Nat /\ job.img.size \in Nat /\ SlotStart[job.slt] \in Nat
      BY <2>1, JobTypes DEF FlashInv
    <3>2. info.end - SlotStart[job.slt] = job.img.offset + job.img.size
      BY <2>4, <3>1
    <3>3. QED
      BY <3>2 DEF Room
  <2>8. NotOlder(s) <=> ~(job.prm # NoPrm /\ Older(job.img.version, job.prm[s]))
    <3>1. job.prm # NoPrm => job.prm[s] \in Versions
      <4>1. job.prm \in Prms \cup {NoPrm}
        BY <2>1, JobTypes DEF FlashInv
      <4>2. QED
        BY <2>5, <4>1, InfoAssumption
    <3>2. job.img.version \in Versions
      BY <2>1, JobTypes DEF FlashInv
    <3>3. job.prm # NoPrm => (VersionU32(job.img.version) >= VersionU32(job.prm[s])
                                <=> ~Older(job.img.version, job.prm[s]))
      BY <3>1, <3>2, OrderKept, Zenon
    <3>4. NotOlder(s) <=>
            (job.prm # NoPrm => VersionU32(job.img.version) >= VersionU32(job.prm[s]))
      BY <2>4 DEF NotOlder
    <3>5. QED
      BY <3>3, <3>4, Zenon
  <2>9. QED
    BY <2>2, <2>6, <2>7, <2>8, Zenon
<1>2. QED
  BY <1>1, InfoInvariant, PTL

(* The checksum is taken over the cells of the image in flash; without a    *)
(* header over none.                                                        *)
THEOREM CrcIsOfImage == Spec => []CrcCoversImage
<1>1. IInv => CrcCoversImage
  <2> DEFINE o == job.img.offset
             z == job.img.size
  <2> SUFFICES ASSUME IInv, pc = "done", ~job.check, job.eoff = 0
               PROVE  /\ info.valid => fed = [k \in 1 .. z |-> flash[o + k]]
                      /\ info.end = info.start => fed = <<>>
    BY Zenon DEF CrcCoversImage
  <2>1. FlashInv /\ DigestInv /\ InfoInv /\ InfoOfImage
    BY Zenon DEF IInv
  <2>2. fed = ReadCells(info.start + job.eoff, info.end - info.start)
    BY <2>1, Zenon DEF DigestInv, BodyHashed
  <2>3. /\ o \in Nat /\ z \in Nat /\ SlotStart[job.slt] \in Nat /\ HdrAt = SlotStart[job.slt]
    BY <2>1, JobTypes DEF FlashInv, HdrAt
  <2>4. info.start \in Nat /\ info.end \in Nat
    BY <2>1 DEF InfoInv
  <2>5. ASSUME info.valid PROVE fed = [k \in 1 .. z |-> flash[o + k]]
    <3>1. info.start = SlotStart[job.slt] + o /\ info.end = info.start + z
      BY <2>1, <2>5, Zenon DEF InfoOfImage
    <3>2. info.start + job.eoff = HdrAt + o /\ info.end - info.start = z
      BY <2>3, <3>1
    <3>3. fed = [k \in 1 .. z |-> Read(HdrAt + o + k - 1)]
      BY <2>2, <3>2 DEF ReadCells
    <3> HIDE DEF o, z
    <3>4. ASSUME NEW k \in 1 .. z PROVE Read(HdrAt + o + k - 1) = flash[o + k]
      <4>1. PICK n \in 1 .. o + z : n = o + k
        BY <2>3
      <4>2. Read(HdrAt + n - 1) = flash[n]
        BY <2>1, ReadImage, Zenon DEF o, z
      <4>3. HdrAt + n - 1 = HdrAt + o + k - 1
        BY <2>3, <4>1
      <4>4. QED
        BY <4>1, <4>2, <4>3
    <3>5. QED
      BY <3>3, <3>4
  <2>6. ASSUME info.end = info.start PROVE fed = <<>>
    <3>1. info.end - info.start = 0
      BY <2>4, <2>6
    <3>2. QED
      BY <2>2, <3>1 DEF ReadCells
  <2>7. QED
    BY <2>5, <2>6
<1>2. QED
  BY <1>1, InfoInvariant, PTL

(* Nothing that is signed with a root key, and nothing of which the copy    *)
(* did not end between the magic and the size, is read beyond the buffer    *)
(* for the TLV area.                                                        *)
THEOREM TlvIsBounded == Spec => []TlvFits
<1>1. IInv => TlvFits
  BY DEF IInv, TlvInv, TlvFits
<1>2. QED
  BY <1>1, InfoInvariant, PTL

-----------------------------------------------------------------------------
(* How much is left to do *)

(* The places of zb_img_get_info and of its callers in the order in which   *)
(* they are passed, counted from the end.                                   *)
StageOfSearch ==
  CASE find.want = TLVE_IMAGE_TYPE -> 8
    [] find.want = TLVE_IMAGE_INFO -> 7
    [] find.want = TLVE_IMAGE_HASH -> 6
    [] OTHER -> 3

StageOfPieces ==
  CASE rd.next = "verify" -> 11
    [] rd.next = "compare" -> 5
    [] OTHER -> 1

Stage ==
  CASE pc = "open" -> 12
    [] pc = "verify" -> 10
    [] pc = "read" -> 9
    [] pc = "compare" -> 4
    [] pc = "info" -> 2
    [] pc = "piece" -> StageOfPieces
    [] pc = "search" -> StageOfSearch
    [] OTHER -> 0

(* What the loop at this place has left: cells to hash, keys to try, cells  *)
(* of the TLV area to search.                                               *)
LoopLeft ==
  CASE pc = "piece" -> rd.left
    [] pc = "verify" -> Len(RootKeys) + 1 - nkey
    [] pc = "search" -> IF find.off < Len(tlv) THEN Len(tlv) - find.off ELSE 0
    [] OTHER -> 0

LEMMA SearchIsAt ==
  ASSUME FlashInv, TlvInv, FindInv, pc = "search"
  PROVE  find.off \in Nat /\ Len(tlv) \in Nat
<1>1. Len(tlv) \in Nat
  BY TlvRead, Zenon
<1>2. CASE find.type = 0 /\ find.off = 0
  BY <1>1, <1>2
<1>3. CASE OnSomeEntry
  <2>1. PICK o \in Entries(job.img) : OnEntry(o)
    BY <1>3, Zenon DEF OnSomeEntry
  <2>2. /\ o <= Place(job.img, find.want)
        /\ find.off = o + 2 + find.length /\ find.length = tlv[o + 2]
    BY <2>1, Zenon DEF OnEntry
  <2>3. find.want \in Wanted
    BY Zenon DEF FindInv
  <2>4. o \in Nat /\ tlv[o + 2] \in Nat
    BY <2>2, <2>3, EntryRead, Zenon
  <2>5. QED
    BY <1>1, <2>2, <2>4
<1>4. QED
  BY <1>2, <1>3, Zenon DEF FindInv

LEMMA LeftType ==
  ASSUME IInv
  PROVE  Stage \in 0 .. 12 /\ LoopLeft \in Nat
<1>1. /\ FlashInv /\ DigestInv /\ TlvInv /\ FindInv /\ CompleteInv
  BY Zenon DEF IInv
<1>2. Stage \in 0 .. 12
  BY DEF Stage, StageOfPieces, StageOfSearch
<1>3. CASE pc = "piece"
  BY <1>1, <1>2, <1>3 DEF LoopLeft, DigestInv
<1>4. CASE pc = "verify"
  <2>1. nkey \in 1 .. Len(RootKeys) + 1 /\ Len(RootKeys) \in Nat
    BY <1>1, InfoAssumption DEF CompleteInv
  <2>2. QED
    BY <1>2, <1>4, <2>1 DEF LoopLeft
<1>5. CASE pc = "search"
  <2>1. find.off \in Nat /\ Len(tlv) \in Nat
    BY <1>1, <1>5, SearchIsAt, Zenon
  <2>2. QED
    BY <1>2, <1>5, <2>1 DEF LoopLeft
<1>6. CASE pc \notin {"piece", "verify", "search"}
  BY <1>2, <1>6 DEF LoopLeft
<1>7. QED
  BY <1>2, <1>3, <1>4, <1>5, <1>6, Zenon

Nearer == Stage' < Stage \/ (Stage' = Stage /\ LoopLeft' < LoopLeft)

(* Each loop gets nearer to its end. *)
LEMMA PieceIsNearer ==
  ASSUME IInv, ReadPiece
  PROVE  Nearer
<1>1. pc = "piece" /\ pc' = "piece" /\ rd.left > 0
      /\ rd' = [rd EXCEPT !.at = @ + PieceLen, !.left = @ - PieceLen, !.jump = 0]
  BY DEF ReadPiece, Keep
<1>2. rd.left \in Nat /\ HashBuffer \in Nat \ {0}
  BY InfoAssumption DEF IInv, DigestInv
<1>3. PieceLen \in Nat \ {0} /\ PieceLen <= rd.left
  BY <1>1, <1>2 DEF PieceLen
<1>4. rd'.next = rd.next
  BY <1>1
<1>5. rd'.left = rd.left - PieceLen
  BY <1>1
<1>6. Stage' = Stage
  BY <1>1, <1>4 DEF Stage, StageOfPieces
<1>7. LoopLeft' = rd'.left /\ LoopLeft = rd.left
  BY <1>1 DEF LoopLeft
<1>8. QED
  BY <1>2, <1>3, <1>5, <1>6, <1>7 DEF Nearer

LEMMA KeyIsNearer ==
  ASSUME IInv, NextKey
  PROVE  Nearer
<1>1. pc = "verify" /\ pc' = "verify" /\ nkey <= Len(RootKeys) /\ nkey' = nkey + 1
  BY DEF NextKey, Keep
<1>2. nkey \in Nat /\ Len(RootKeys) \in Nat
  BY InfoAssumption DEF IInv, CompleteInv
<1>3. Stage' = Stage
  BY <1>1 DEF Stage
<1>4. LoopLeft' = Len(RootKeys) + 1 - nkey' /\ LoopLeft = Len(RootKeys) + 1 - nkey
  BY <1>1 DEF LoopLeft
<1>5. QED
  BY <1>1, <1>2, <1>3, <1>4 DEF Nearer

LEMMA EntryIsNearer ==
  ASSUME IInv, StepTlv
  PROVE  Nearer
<1>1. /\ pc = "search" /\ pc' = pc /\ Searching /\ tlv' = tlv
      /\ find'.want = find.want /\ find'.off = find.off + tlv[find.off + 2] + 2
  <2>1. /\ pc = "search" /\ pc' = pc /\ Searching /\ tlv' = tlv
        /\ find' = [find EXCEPT !.type = tlv[find.off + 1], !.length = tlv[find.off + 2],
                                !.value = find.off + 2, !.off = @ + tlv[find.off + 2] + 2]
    BY Zenon DEF StepTlv, Keep
  <2>2. QED
    BY <2>1
<1>2. FlashInv /\ TlvInv /\ FindInv
  BY Zenon DEF IInv
<1>3. find.want \in Wanted
  BY <1>1, <1>2 DEF FindInv
<1>4. find.off \in Entries(job.img) /\ find.off <= Place(job.img, find.want)
  BY <1>1, <1>2, NextEntry
<1>5. find.off \in Nat /\ tlv[find.off + 2] \in Nat
  BY <1>1, <1>2, <1>3, <1>4, EntryRead, Zenon
<1>6. find.off < Len(tlv) /\ Len(tlv) \in Nat
  BY <1>1, <1>2, SearchIsAt, Zenon DEF Searching
<1>7. Stage' = Stage
  BY <1>1 DEF Stage, StageOfSearch
<1>8. LoopLeft = Len(tlv) - find.off
  BY <1>1, <1>6 DEF LoopLeft
<1>9. LoopLeft' = IF find'.off < Len(tlv) THEN Len(tlv) - find'.off ELSE 0
  BY <1>1 DEF LoopLeft
<1>10. QED
  BY <1>1, <1>5, <1>6, <1>7, <1>8, <1>9 DEF Nearer

(* Every other step leaves its place behind. *)
LEMMA PlaceIsLeft ==
  ASSUME IInv, Next, ~ReadPiece, ~NextKey, ~StepTlv
  PROVE  Stage' < Stage
<1> USE DEF Keep, Refuse, Found, NotFound
<1>1. CASE NoMagic \/ OpenUnsigned \/ VerifyKey \/ NoKeyLeft \/ OverrunTlv
           \/ HashDiffers \/ ImgCheck \/ NoCrc32
  <2>1. \/ pc = "open" /\ pc' \in {"info", "read"}
        \/ pc = "verify" /\ pc' \in {"read", "info"}
        \/ pc = "read" /\ pc' \in {"overrun", "info"}
        \/ pc = "compare" /\ pc' = "info"
        \/ pc = "info" /\ pc' = "done"
    BY <1>1 DEF NoMagic, OpenUnsigned, VerifyKey, NoKeyLeft, OverrunTlv, HashDiffers,
                   ImgCheck, NoCrc32
  <2>2. QED
    BY <2>1 DEF Stage
<1>2. CASE OpenSigned \/ CalcCrc32
  <2>1. \/ pc = "open" /\ pc' = "piece" /\ rd'.next = "verify"
        \/ pc = "info" /\ pc' = "piece" /\ rd'.next = "done"
    BY <1>2 DEF OpenSigned, CalcCrc32, Digest
  <2>2. QED
    BY <2>1 DEF Stage, StageOfPieces
<1>3. CASE PiecesRead
  <2>1. pc = "piece" /\ pc' = rd.next
    BY <1>3 DEF PiecesRead
  <2>2. rd.next \in {"verify", "compare", "done"}
    BY <2>1 DEF IInv, DigestInv, Feeding
  <2>3. QED
    BY <2>1, <2>2 DEF Stage, StageOfPieces
<1>4. CASE ReadTlv \/ HashMatches
  <2>1. \/ pc = "read" /\ pc' = "search" /\ find'.want = TLVE_IMAGE_TYPE
        \/ pc = "compare" /\ pc' = "search" /\ find'.want = TLVE_IMAGE_EPUBKEY
    BY <1>4 DEF ReadTlv, HashMatches, SearchFor
  <2>2. QED
    BY <2>1 DEF Stage, StageOfSearch, TLVE_IMAGE_TYPE, TLVE_IMAGE_INFO, TLVE_IMAGE_HASH,
                TLVE_IMAGE_EPUBKEY
<1>5. CASE TakeType \/ TakeInfo
  <2>1. /\ pc = "search" /\ pc' = "search"
        /\ \/ find.want = TLVE_IMAGE_TYPE /\ find'.want = TLVE_IMAGE_INFO
           \/ find.want = TLVE_IMAGE_INFO /\ find'.want = TLVE_IMAGE_HASH
    BY <1>5 DEF TakeType, TakeInfo, SearchFor
  <2>2. QED
    BY <2>1 DEF Stage, StageOfSearch, TLVE_IMAGE_TYPE, TLVE_IMAGE_INFO, TLVE_IMAGE_HASH
<1>6. CASE TakeHash
  <2>1. /\ pc = "search" /\ find.want = TLVE_IMAGE_HASH
        /\ \/ pc' = "piece" /\ rd'.next = "compare"
           \/ pc' = "search" /\ find'.want = TLVE_IMAGE_EPUBKEY
    BY <1>6 DEF TakeHash, SearchFor, Digest
  <2>2. QED
    BY <2>1 DEF Stage, StageOfSearch, StageOfPieces, TLVE_IMAGE_TYPE, TLVE_IMAGE_INFO,
                TLVE_IMAGE_HASH, TLVE_IMAGE_EPUBKEY
<1>7. CASE MissingEntry \/ NoKeyEntry \/ TakeKey \/ BadKey
  <2>1. pc = "search" /\ pc' = "info"
    BY <1>7 DEF MissingEntry, NoKeyEntry, TakeKey, BadKey
  <2>2. QED
    BY <2>1 DEF Stage, StageOfSearch
<1>8. QED
  BY <1>1, <1>2, <1>3, <1>4, <1>5, <1>6, <1>7, Zenon DEF Next

(* Neither the search nor a loop over pieces can go on for ever in an image *)
(* that is whole, was cut short anywhere or has one cell changed: each step *)
(* leaves a place for one of the few behind it, or has fewer cells or keys  *)
(* left there.                                                              *)
THEOREM InfoIsBounded ==
  Spec => [](Stage \in 0 .. 12 /\ LoopLeft \in Nat) /\ [][Nearer]_vars
<1>1. IInv => Stage \in 0 .. 12 /\ LoopLeft \in Nat
  BY LeftType
<1>2. IInv /\ [Next]_vars => [Nearer]_vars
  BY PieceIsNearer, KeyIsNearer, EntryIsNearer, PlaceIsLeft DEF Nearer
<1>3. QED
  BY <1>1, <1>2, InfoInvariant, PTL DEF Spec
=============================================================================
