--------------------------- MODULE ZbCmdLogProofs ---------------------------
(***************************************************************************)
(* The command log of zb_flash.c keeps the promise of ZbCmdReg, for areas  *)
(* and pages of any size and commands of any number.  The invariant LogInv *)
(* is inductive; a read is the last valid entry in front of the first      *)
(* erased one, and the two CHOOSE that say so are characterised first.     *)
(***************************************************************************)
EXTENDS ZbCmdLog, WellFoundedInduction, TLAPS

-----------------------------------------------------------------------------
(* The scans of zb_cmd_read and zb_cmd_write *)

LEMMA SmallestExists ==
  ASSUME NEW S, S \subseteq Nat, S # {}
  PROVE  \E m \in S : \A n \in S : m <= n
<1> DEFINE R == {ss \in Nat \X Nat : ss[1] < ss[2]}
<1>1. IsWellFoundedOn(R, Nat)
  BY NatLessThanWellFounded DEF OpToRel
<1>2. PICK m \in S : \A n \in S : ~ (<<n, m>> \in R)
  <2> HIDE DEF R
  <2>1. QED
    BY <1>1, WFMin
<1>3. \A n \in S : ~(n < m)
  BY <1>2
<1>4. QED
  BY <1>3

LEMMA GreatestExists ==
  ASSUME NEW N \in Nat, NEW S, S \subseteq 0 .. N, S # {}
  PROVE  \E m \in S : IsLast(S, m)
<1> DEFINE T == {k \in Nat : k <= N /\ N - k \in S}
<1>1. \A n \in S : n \in Nat /\ n <= N /\ N - n \in T
  <2> SUFFICES ASSUME NEW n \in S PROVE n \in Nat /\ n <= N /\ N - n \in T
    OBVIOUS
  <2>1. n \in 0 .. N /\ N - n \in Nat /\ N - n <= N /\ N - (N - n) = n
    OBVIOUS
  <2>2. QED
    BY <2>1
<1>2. T \subseteq Nat /\ T # {}
  BY <1>1
<1>3. PICK k \in T : \A n \in T : k <= n
  BY <1>2, SmallestExists
<1>4. k \in Nat /\ k <= N /\ N - k \in S
  OBVIOUS
<1>5. \A n \in S : n <= N - k
  <2> SUFFICES ASSUME NEW n \in S PROVE n <= N - k
    OBVIOUS
  <2>1. n \in Nat /\ n <= N /\ k <= N - n
    BY <1>1, <1>3
  <2>2. QED
    BY <1>4, <2>1
<1>6. QED
  BY <1>4, <1>5 DEF IsLast

(* There is always a place where the scan stops, and only one. *)
LEMMA FirstEmptyIs == \A a : IsFirstEmpty(a, FirstEmpty(a))
<1> SUFFICES ASSUME NEW a PROVE \E e \in 0 .. Capacity : IsFirstEmpty(a, e)
  BY DEF FirstEmpty
<1> DEFINE S == {e \in 0 .. Capacity : e = Capacity \/ a[e] = Empty}
<1>1. Capacity \in Nat /\ Capacity \in S /\ S \subseteq Nat
  BY LogAssumption
<1>2. PICK e \in S : \A n \in S : e <= n
  BY <1>1, SmallestExists
<1>3. \A i \in Index : i < e => a[i] # Empty
  <2> SUFFICES ASSUME NEW i \in Index, i < e, a[i] = Empty PROVE FALSE
    OBVIOUS
  <2>1. i \in S
    BY LogAssumption DEF Index
  <2>2. QED
    BY <1>1, <1>2, <2>1 DEF Index
<1>4. QED
  BY <1>1, <1>3 DEF IsFirstEmpty

LEMMA FirstEmptyOnly ==
  ASSUME NEW a, NEW e, IsFirstEmpty(a, e)
  PROVE  FirstEmpty(a) = e
<1>1. IsFirstEmpty(a, FirstEmpty(a))
  BY FirstEmptyIs
<1>2. \A x, y \in 0 .. Capacity : IsFirstEmpty(a, x) /\ IsFirstEmpty(a, y) => ~(x < y)
  BY LogAssumption DEF IsFirstEmpty, Index
<1>3. QED
  BY <1>1, <1>2, LogAssumption DEF IsFirstEmpty

LEMMA FirstEmptyType == \A a : FirstEmpty(a) \in 0 .. Capacity
BY FirstEmptyIs DEF IsFirstEmpty

(* A read finds the last valid entry, if there is one. *)
LEMMA ReadCmdIs ==
  ASSUME NEW a
  PROVE  \/ Valid(a) = {} /\ ReadCmd(a) = NoCmd
         \/ \E m \in Valid(a) : IsLast(Valid(a), m) /\ ReadCmd(a) = a[m]
<1>1. Valid(a) \subseteq 0 .. Capacity /\ Capacity \in Nat
  BY LogAssumption DEF Valid, Index
<1>2. Valid(a) # {} => \E m \in Valid(a) : IsLast(Valid(a), m)
  BY <1>1, GreatestExists
<1>3. QED
  BY <1>2 DEF ReadCmd

-----------------------------------------------------------------------------
(* The inductive invariant *)

(* In a clean area everything behind the first erased entry is erased. *)
LEMMA CleanTail ==
  ASSUME LogInv, ~dirty, NEW i \in Index, FirstEmpty(area) <= i
  PROVE  area[i] = Empty
<1>1. IsFirstEmpty(area, FirstEmpty(area))
  BY FirstEmptyIs
<1>2. QED
  BY <1>1, LogAssumption DEF LogInv, FilledFromFront, IsFirstEmpty, Index

LEMMA InitLog == Init => LogInv
BY LogAssumption DEF Init, LogInv, TypeOK, FilledFromFront, Survivors, LastEntry, Kept

(* An entry is programmed behind all others. *)
LEMMA AppendKeepsInv ==
  ASSUME LogInv, ~dirty, dirty' = dirty, FirstEmpty(area) < Capacity,
         NEW x \in Cmd \cup {BadCrc}, area' = [area EXCEPT ![FirstEmpty(area)] = x],
         last' = IF x \in Cmd THEN x ELSE last
  PROVE  LogInv'
<1> DEFINE e == FirstEmpty(area)
<1>1. e \in Index /\ x # Empty /\ \A i \in Index : i < e => area[i] # Empty
  BY FirstEmptyIs, FirstEmptyType, LogAssumption DEF IsFirstEmpty, Index
<1>2. \A i \in Index : e <= i => area[i] = Empty
  BY CleanTail
<1>e. e \in Nat /\ area[e] = Empty /\ Empty \notin Cmd
  BY <1>1, <1>2, LogAssumption DEF Index
<1>3. TypeOK'
  BY <1>1 DEF LogInv, TypeOK
<1>4. \A i \in Index : area'[i] = IF i = e THEN x ELSE area[i]
  BY <1>1 DEF LogInv, TypeOK
<1> HIDE DEF e
<1>5. \A i \in Index : (area'[i] # Empty <=> i <= e)
  BY <1>1, <1>2, <1>4 DEF Index
<1>6. FilledFromFront' /\ Survivors'
  BY <1>1, <1>5 DEF FilledFromFront, Survivors, Index
<1>7. LastEntry'
  <2> SUFFICES ASSUME NEW i \in Index, area'[i] \in Cmd,
                      \A j \in Index : i < j => area'[j] \notin Cmd
               PROVE  area'[i] = last'
    BY DEF LastEntry
  <2>1. CASE i = e
    BY <1>4, <2>1
  <2>2. CASE i # e
    <3>1. area[i] \in Cmd /\ area[i] # Empty /\ i < e
      BY <1>1, <1>2, <1>4, <2>2, LogAssumption DEF Index
    <3>2. x \notin Cmd
      BY <1>1, <1>4, <3>1
    <3>3. \A j \in Index : i < j => area[j] \notin Cmd
      BY <1>e, <1>4, <3>2
    <3>4. QED
      BY <1>4, <2>2, <3>1, <3>2, <3>3 DEF LogInv, LastEntry
  <2>3. QED
    BY <2>1, <2>2
<1>8. Kept'
  <2>1. CASE x \in Cmd
    BY <1>1, <1>4, <2>1 DEF Kept
  <2>2. CASE x \notin Cmd
    <3>1. \A i \in Index : area[i] \in Cmd => area'[i] \in Cmd
      BY <1>e, <1>4
    <3>2. QED
      BY <2>2, <3>1 DEF LogInv, Kept
  <2>3. QED
    BY <2>1, <2>2
<1>9. QED
  BY <1>3, <1>6, <1>7, <1>8 DEF LogInv

(* The erase of page p is cut: only what lies behind that page is left. *)
LEMMA CutKeepsInv ==
  ASSUME LogInv, NEW p \in Index, TearErase(p)
  PROVE  LogInv'
<1>1. PICK left \in [Index -> {Empty, BadCrc}] :
        area' = [i \in Index |->
                  IF i < p * PageEntries THEN Empty
                  ELSE IF i < (p + 1) * PageEntries THEN left[i]
                  ELSE area[i]]
  BY DEF TearErase
<1>2. dirty' = TRUE /\ last' = last
  BY DEF TearErase
<1>3. PICK lo \in Nat, hi \in Nat : lo = p * PageEntries /\ hi = (p + 1) * PageEntries /\ lo <= hi
  <2>1. p \in Nat /\ PageEntries \in Nat
    BY LogAssumption DEF Index
  <2>2. (p + 1) * PageEntries = p * PageEntries + PageEntries
    BY <2>1
  <2>3. p * PageEntries \in Nat
    BY <2>1
  <2>4. QED
    BY <2>1, <2>2, <2>3
<1>4. \A i \in Index : area'[i] = IF i < lo THEN Empty ELSE IF i < hi THEN left[i] ELSE area[i]
  BY <1>1, <1>3
<1>5. \A i \in Index : area'[i] \in Cmd => hi <= i
  BY <1>3, <1>4, LogAssumption DEF Index
<1>6. TypeOK'
  BY <1>1, <1>2 DEF LogInv, TypeOK
<1>7. \A i \in Index : hi <= i => area'[i] = area[i]
  BY <1>3, <1>4 DEF Index
<1>8. Survivors'
  <2> SUFFICES ASSUME NEW i \in Index, NEW j \in Index, NEW k \in Index,
                      i < j, j < k, area'[i] \in Cmd, area'[k] # Empty
               PROVE  area'[j] # Empty
    BY DEF Survivors
  <2>1. hi <= i /\ hi <= j /\ hi <= k
    BY <1>3, <1>5 DEF Index
  <2>2. area[i] \in Cmd /\ area[k] # Empty /\ area'[j] = area[j]
    BY <1>7, <2>1
  <2>3. QED
    BY <2>2 DEF LogInv, Survivors
<1>9. LastEntry'
  <2> SUFFICES ASSUME NEW i \in Index, area'[i] \in Cmd,
                      \A j \in Index : i < j => area'[j] \notin Cmd
               PROVE  area'[i] = last'
    BY DEF LastEntry
  <2>1. hi <= i /\ area'[i] = area[i]
    BY <1>5, <1>7
  <2>2. \A j \in Index : i < j => area[j] \notin Cmd
    BY <1>3, <1>7, <2>1 DEF Index
  <2>3. QED
    BY <1>2, <2>1, <2>2 DEF LogInv, LastEntry
<1>10. QED
  BY <1>2, <1>6, <1>8, <1>9 DEF LogInv, FilledFromFront, Kept

LEMMA NextLog == LogInv /\ [Next]_vars => LogInv'
<1> SUFFICES ASSUME LogInv, [Next]_vars PROVE LogInv'
  OBVIOUS
<1>1. ASSUME NEW c \in Cmd, WriteCmd(c) PROVE LogInv'
  BY <1>1, AppendKeepsInv DEF WriteCmd
<1>2. CASE TearWrite
  BY <1>2, AppendKeepsInv, LogAssumption DEF TearWrite
<1>3. CASE EraseArea
  BY <1>3, LogAssumption DEF EraseArea, LogInv, TypeOK, FilledFromFront, Survivors,
                             LastEntry, Kept
<1>4. ASSUME NEW p \in Index, TearErase(p) PROVE LogInv'
  BY <1>4, CutKeepsInv
<1>5. CASE UNCHANGED vars
  BY <1>5 DEF vars, LogInv, TypeOK, FilledFromFront, Survivors, LastEntry, Kept
<1>6. QED
  BY <1>1, <1>2, <1>3, <1>4, <1>5 DEF Next

(* The invariant of the command log, whatever is torn or half erased.      *)
THEOREM LogInvariant == Spec => []LogInv
<1>1. Init => LogInv
  BY InitLog
<1>2. LogInv /\ [Next]_vars => LogInv'
  BY NextLog
<1>3. QED
  BY <1>1, <1>2, PTL DEF Spec

(* All three parts of an entry's life stay what they are: the area holds   *)
(* nothing but commands, torn and erased entries.                          *)
THEOREM LogTypeCorrect == Spec => []TypeOK
<1>1. LogInv => TypeOK
  BY DEF LogInv
<1>2. QED
  BY <1>1, LogInvariant, PTL

(* A clean area is filled from the front, whatever was torn: the scans of  *)
(* zb_cmd_read and zb_cmd_write stop behind the last programmed entry.     *)
THEOREM LogFilledFromFront == Spec => []FilledFromFront
<1>1. LogInv => FilledFromFront
  BY DEF LogInv
<1>2. QED
  BY <1>1, LogInvariant, PTL

(* zb_cmd_write never programs an entry a second time: the first erased    *)
(* entry is erased indeed, and only an erase changes the others.           *)
THEOREM LogProgramsOnce == Spec => ProgramOnce
<1> DEFINE Once == (\E i \in Index : area'[i] # area[i]) /\ ~dirty'
                     => \/ \A i \in Index : area[i] # Empty => area'[i] = area[i]
                        \/ \A i \in Index : area'[i] = Empty
<1>1. ASSUME LogInv, FirstEmpty(area) < Capacity, NEW x,
             area' = [area EXCEPT ![FirstEmpty(area)] = x]
      PROVE  Once
  <2>1. area[FirstEmpty(area)] = Empty
    BY <1>1, FirstEmptyIs DEF IsFirstEmpty
  <2>2. \A i \in Index : i # FirstEmpty(area) => area'[i] = area[i]
    BY <1>1 DEF LogInv, TypeOK
  <2>3. QED
    BY <2>1, <2>2
<1>2. LogInv /\ [Next]_vars => [Once]_vars
  <2> SUFFICES ASSUME LogInv, Next PROVE Once
    OBVIOUS
  <2>1. ASSUME NEW c \in Cmd, WriteCmd(c) PROVE Once
    BY <1>1, <2>1 DEF WriteCmd
  <2>2. CASE TearWrite
    BY <1>1, <2>2 DEF TearWrite
  <2>3. CASE EraseArea
    BY <2>3 DEF EraseArea
  <2>4. ASSUME NEW p \in Index, TearErase(p) PROVE Once
    BY <2>4 DEF TearErase
  <2>5. QED
    BY <2>1, <2>2, <2>3, <2>4 DEF Next
<1>3. QED
  BY <1>2, LogInvariant, PTL DEF Spec, ProgramOnce

-----------------------------------------------------------------------------
(* What callers see *)

(* The last valid entry a read can reach is the last command written.      *)
LEMMA ReadIsLast == LogInv => ReadsLast
<1> SUFFICES ASSUME LogInv PROVE ReadsLast
  OBVIOUS
<1> DEFINE e == FirstEmpty(area)
<1>1. /\ e \in 0 .. Capacity /\ (e < Capacity => area[e] = Empty)
      /\ Capacity \in Nat /\ Empty \notin Cmd
  BY FirstEmptyIs, LogAssumption DEF IsFirstEmpty
<1>2. CASE Valid(area) # {}
  <2>1. PICK m \in Valid(area) : IsLast(Valid(area), m) /\ ReadCmd(area) = area[m]
    BY <1>2, ReadCmdIs
  <2>2. m \in Index /\ m < e /\ area[m] \in Cmd
    BY DEF Valid
  <2>3. \A j \in Index : m < j => area[j] \notin Cmd
    <3> SUFFICES ASSUME NEW j \in Index, m < j, area[j] \in Cmd PROVE FALSE
      OBVIOUS
    <3>1. j \notin Valid(area)
      BY <2>1, <2>2 DEF IsLast, Index
    <3>2. e <= j /\ e \in Index /\ e < Capacity
      BY <1>1, <3>1 DEF Valid, Index
    <3>3. area[e] = Empty /\ area[j] # Empty /\ e < j
      BY <1>1, <3>2 DEF Index
    <3>4. QED
      BY <2>2, <3>2, <3>3 DEF LogInv, Survivors
  <2>4. QED
    BY <2>1, <2>2, <2>3 DEF LogInv, LastEntry, ReadsLast
<1>3. CASE Valid(area) = {}
  <2>1. ReadCmd(area) = NoCmd
    BY <1>3, ReadCmdIs
  <2>2. ~dirty => \A i \in Index : area[i] \notin Cmd
    <3> SUFFICES ASSUME ~dirty, NEW i \in Index, area[i] \in Cmd PROVE FALSE
      OBVIOUS
    <3>1. ~(e <= i)
      BY <1>1, CleanTail
    <3>2. QED
      BY <1>1, <1>3, <3>1 DEF Valid, Index
  <2>3. QED
    BY <2>1, <2>2 DEF LogInv, Kept, ReadsLast
<1>4. QED
  BY <1>2, <1>3

(* zb_cmd_read returns the last complete command whatever was torn, and an *)
(* older one never, not even from an area that is half erased.             *)
THEOREM LogReadsLast == Spec => []ReadsLast
<1>1. Spec => []LogInv
  BY LogInvariant
<1>2. LogInv => ReadsLast
  BY ReadIsLast
<1>3. QED
  BY <1>1, <1>2, PTL

-----------------------------------------------------------------------------
(* Refinement *)

LEMMA RegisterInit == Init => Reg!Init
<1> SUFFICES ASSUME Init PROVE Reg!Init
  OBVIOUS
<1>1. IsFirstEmpty(area, 0)
  BY LogAssumption DEF Init, IsFirstEmpty, Index
<1>2. FirstEmpty(area) = 0
  BY <1>1, FirstEmptyOnly
<1>3. ReadCmd(area) = NoCmd
  BY InitLog, ReadIsLast DEF Init, ReadsLast
<1>4. QED
  BY <1>2, <1>3 DEF Init, Reg!Init, Reg!Blank, View

(* The append moves the first erased entry one up. *)
LEMMA AppendMoves ==
  ASSUME LogInv, ~dirty, FirstEmpty(area) < Capacity, NEW x \in Cmd \cup {BadCrc},
         area' = [area EXCEPT ![FirstEmpty(area)] = x]
  PROVE  FirstEmpty(area') = FirstEmpty(area) + 1
<1> DEFINE e == FirstEmpty(area)
<1>1. e \in Index /\ x # Empty /\ \A i \in Index : i < e => area[i] # Empty
  BY FirstEmptyIs, FirstEmptyType, LogAssumption DEF IsFirstEmpty, Index
<1>2. \A i \in Index : e <= i => area[i] = Empty
  BY CleanTail
<1>3. \A i \in Index : area'[i] = IF i = e THEN x ELSE area[i]
  BY <1>1 DEF LogInv, TypeOK
<1> HIDE DEF e
<1>4. IsFirstEmpty(area', e + 1)
  <2>1. e + 1 \in 0 .. Capacity
    BY <1>1, LogAssumption DEF Index
  <2>2. \A i \in Index : i < e + 1 => area'[i] # Empty
    BY <1>1, <1>3 DEF Index
  <2>3. e + 1 < Capacity => area'[e + 1] = Empty
    <3>1. e + 1 < Capacity => e + 1 \in Index /\ e + 1 # e /\ e <= e + 1
      BY <1>1, LogAssumption DEF Index
    <3>2. QED
      BY <1>2, <1>3, <3>1
  <2>4. QED
    BY <2>1, <2>2, <2>3 DEF IsFirstEmpty
<1>5. QED
  BY <1>4, FirstEmptyOnly DEF e

LEMMA RegisterNext == LogInv /\ LogInv' /\ [Next]_vars => [Reg!Next]_View
<1> SUFFICES ASSUME LogInv, LogInv', [Next]_vars PROVE [Reg!Next]_View
  OBVIOUS
<1>1. /\ ReadCmd(area) \in IF dirty THEN {last, NoCmd} ELSE {last}
      /\ ReadCmd(area') \in IF dirty' THEN {last', NoCmd} ELSE {last'}
  <2>1. ReadsLast
    BY ReadIsLast
  <2>2. ReadsLast'
    BY ReadIsLast, PTL
  <2>3. QED
    BY <2>1, <2>2 DEF ReadsLast
<1>2. FirstEmpty(area) \in 0 .. Capacity /\ FirstEmpty(area') \in 0 .. Capacity
  BY FirstEmptyType
<1>3. ASSUME NEW c \in Cmd, WriteCmd(c) PROVE Reg!Write(c)
  <2>1. FirstEmpty(area') = FirstEmpty(area) + 1
    BY <1>3, AppendMoves DEF WriteCmd
  <2>2. ~dirty /\ ~dirty' /\ last' = c /\ ReadCmd(area') = c
    BY <1>1, <1>3 DEF WriteCmd
  <2>3. View' = [val |-> c, last |-> c, used |-> FirstEmpty(area) + 1, dirty |-> dirty]
    BY <1>3, <2>1, <2>2 DEF View, WriteCmd
  <2>4. QED
    BY <1>3, <2>2, <2>3 DEF Reg!Write, Reg!HasRoom, Reg!Written, View, WriteCmd
<1>4. CASE TearWrite
  <2>1. FirstEmpty(area') = FirstEmpty(area) + 1
    BY <1>4, AppendMoves DEF TearWrite
  <2>2. ~dirty /\ ~dirty' /\ last' = last /\ ReadCmd(area') = ReadCmd(area)
    BY <1>1, <1>4 DEF TearWrite
  <2>3. View' = [val |-> ReadCmd(area), last |-> last, used |-> FirstEmpty(area) + 1,
                 dirty |-> dirty]
    BY <2>1, <2>2, <1>4 DEF View, TearWrite
  <2>4. QED
    BY <1>4, <2>2, <2>3 DEF Reg!TearWrite, Reg!Next, Reg!HasRoom, Reg!Torn, View, TearWrite
<1>5. CASE EraseArea
  <2>1. IsFirstEmpty(area', 0)
    BY <1>5, LogAssumption DEF EraseArea, IsFirstEmpty, Index
  <2>2. FirstEmpty(area') = 0
    BY <2>1, FirstEmptyOnly
  <2>3. QED
    BY <1>1, <1>5, <2>2 DEF EraseArea, Reg!Next, Reg!Erase, Reg!Blank, View
<1>6. ASSUME NEW p \in Index, TearErase(p) PROVE Reg!TearErase
  <2>1. dirty' = TRUE /\ last' = last
    BY <1>6 DEF TearErase
  <2>2. QED
    BY <1>1, <1>2, <2>1 DEF Reg!TearErase, Reg!HalfErased, View
<1>7. CASE UNCHANGED vars
  BY <1>7 DEF vars, View
<1>8. QED
  BY <1>3, <1>4, <1>5, <1>6, <1>7 DEF Next, Reg!Next

(* The log of zb_flash.c implements the register that the swap and the     *)
(* boot decision are built on.                                             *)
THEOREM LogImplementsRegister == Spec => RegSpec
<1>1. Init => Reg!Init
  BY RegisterInit
<1>2. LogInv /\ LogInv' /\ [Next]_vars => [Reg!Next]_View
  BY RegisterNext
<1>3. Spec => []LogInv
  BY LogInvariant
<1>4. QED
  BY <1>1, <1>2, <1>3, PTL DEF Spec, RegSpec, Reg!Spec
=============================================================================
