--------------------------- MODULE FileManProofs ---------------------------
(***************************************************************************)
(* Proofs about the file manager, for tables of any size and windows of any *)
(* height.                                                                  *)
(***************************************************************************)
EXTENDS FileMan, Loops, SequenceTheorems

\* Zenon proves a step that names no other prover.
USE ZenonT(60)

Strings == Seq(Chars)
Row == [name : Strings, is_dir : BOOLEAN]

\* A slot as the commands leave it: its name ends inside the array, and a size
\* other than 0 is that of the contents diskfs_write stored.
GoodFile ==
  {f \in File : /\ f.name[MaxFilename - 1] = Nul
                /\ f.size # 0 => /\ f.bytes \in Data /\ f.size = SizeOf[f.bytes]
                                 /\ f.size =< MaxFileSize}

FsTypes ==
  /\ files \in [Slots -> GoodFile] /\ current_dir \in Slots /\ saving = Idle
  /\ pending \in [name : Strings, data : Data] \cup {NoWrite}

-----------------------------------------------------------------------------
(* Names and rows.                                                          *)

\* A name in a slot reads as a string.
LEMMA StringOfType ==
  ASSUME NEW raw \in RawName, raw[MaxFilename - 1] = Nul
  PROVE  /\ StringOf(raw) \in Strings /\ Len(StringOf(raw)) \in Positions
         /\ raw[Len(StringOf(raw))] = Nul
         /\ \A j \in 1..Len(StringOf(raw)) : StringOf(raw)[j] = raw[j - 1] /\ raw[j - 1] # Nul
<1> DEFINE S == {k \in Positions : raw[k] = Nul}
<1>1. S \in SUBSET Nat /\ S # {}
  BY ConstantsAssumption, SMTT(60) DEF Positions
<1>2. PICK m \in S : m = Min(S) /\ \A y \in S : m =< y
  <2> HIDE DEF S
  <2> QED BY <1>1, MinOfNats
<1>3. StringOf(raw) = [j \in 1..m |-> raw[j - 1]]
  BY <1>2 DEF StringOf
<1>4. m \in Nat /\ m \in Positions /\ m =< MaxFilename - 1 /\ raw[m] = Nul
  BY <1>2, ConstantsAssumption, SMTT(60) DEF Positions
<1>5. \A j \in 1..m : raw[j - 1] \in Chars /\ raw[j - 1] # Nul
  <2> TAKE j \in 1..m
  <2>1. j - 1 \in Positions /\ ~(m =< j - 1)
    BY <1>4, ConstantsAssumption, SMTT(60) DEF Positions
  <2>2. j - 1 \notin S
    BY <2>1, <1>2
  <2> QED BY <2>1, <2>2 DEF RawName
<1> HIDE DEF S
<1>6. StringOf(raw) \in Strings /\ Len(StringOf(raw)) = m
  BY <1>3, <1>4, <1>5, SMTT(60) DEF Strings
<1> QED BY <1>3, <1>4, <1>5, <1>6

\* Every slot gives a row.
LEMMA RowType ==
  ASSUME NEW f \in GoodFile
  PROVE  RowOf(f) \in Row
<1>1. f.name \in RawName /\ f.name[MaxFilename - 1] = Nul /\ f.is_dir \in BOOLEAN
  BY DEF GoodFile, File
<1> QED BY <1>1, StringOfType DEF RowOf, Row

\* The rounds of the loop of diskfs_get_entries over the table t.
Rounds(t, dir, f) ==
  /\ f \in [0..MaxFiles -> Seq(Row)] /\ f[0] = <<>>
  /\ \A i \in 1..MaxFiles :
       f[i] = IF t[i - 1].used /\ t[i - 1].parent = dir
              THEN Append(f[i - 1], RowOf(t[i - 1])) ELSE f[i - 1]

\* The list is what the loop has after its last round.
LEMMA ListingRounds ==
  ASSUME NEW t \in [Slots -> GoodFile], NEW dir
  PROVE  \E f : Rounds(t, dir, f) /\ Listing(t, dir) = f[MaxFiles]
<1> DEFINE N == MaxFiles
           In(i) == t[i - 1].used /\ t[i - 1].parent = dir
           Body(f) == [i \in 0..N |-> IF i = 0 THEN <<>>
                                      ELSE IF t[i - 1].used /\ t[i - 1].parent = dir
                                      THEN Append(f[i - 1], RowOf(t[i - 1]))
                                      ELSE f[i - 1]]
           rows == CHOOSE f : f = Body(f)
           g == [p \in (1..N) \X Seq(Row) |->
                   IF In(p[1]) THEN Append(p[2], RowOf(t[p[1] - 1])) ELSE p[2]]
<1>0. N \in Nat /\ \A i \in 1..N : i - 1 \in Slots
  BY ConstantsAssumption, SMTT(60) DEF Slots
<1>1. g \in [(1..N) \X Seq(Row) -> Seq(Row)]
  <2>1. ASSUME NEW i \in 1..N, NEW s \in Seq(Row)
        PROVE  Append(s, RowOf(t[i - 1])) \in Seq(Row)
    BY <1>0, RowType, SMTT(60)
  <2> QED BY <2>1
<1>2. PICK f \in [0..N -> Seq(Row)] : f[0] = <<>> /\ \A i \in 1..N : f[i] = g[<<i, f[i - 1]>>]
  <2> DEFINE T == Seq(Row)
             b == <<>>
  <2>1. b \in T /\ g \in [(1..N) \X T -> T]
    BY <1>1, SMTT(60)
  <2> HIDE DEF g, T, b
  <2>2. \E f : IsLoop(f, T, N, b, g)
    BY <1>0, <2>1, LoopExists DEF LoopBodies
  <2> QED BY <2>2 DEF T, b, IsLoop
<1>3. \A i \in 1..N : f[i] = IF In(i) THEN Append(f[i - 1], RowOf(t[i - 1])) ELSE f[i - 1]
  <2> TAKE i \in 1..N
  <2>1. i - 1 \in 0..N /\ f[i - 1] \in Seq(Row)
    BY <1>0, <1>2, SMTT(60)
  <2> QED BY <2>1, <1>2
<1>4. f = Body(f)
  <2>1. f = [i \in 0..N |-> f[i]]
    BY <1>2
  <2>2. ASSUME NEW i \in 0..N PROVE f[i] = Body(f)[i]
    <3>1. CASE i = 0
      BY <1>2, <3>1
    <3>2. CASE i # 0
      <4>1. i \in 1..N
        BY <3>2, <1>0, SMTT(60)
      <4> QED BY <4>1, <3>2, <1>3
    <3> QED BY <3>1, <3>2
  <2>3. Body(f) = [i \in 0..N |-> Body(f)[i]]
    OBVIOUS
  <2> HIDE DEF Body
  <2> QED BY <2>1, <2>2, <2>3
<1>5. rows = Body(rows)
  <2> HIDE DEF Body
  <2> QED BY <1>4
<1>6. /\ rows[0] = <<>>
      /\ \A i \in 1..N : rows[i] = IF In(i) THEN Append(rows[i - 1], RowOf(t[i - 1])) ELSE rows[i - 1]
  <2> HIDE DEF rows
  <2>1. 0 \in 0..N /\ \A i \in 1..N : i \in 0..N /\ i # 0
    BY <1>0, SMTT(60)
  <2> QED BY <1>5, <2>1
<1>7. Listing(t, dir) = rows[N]
  BY DEF Listing
<1> HIDE DEF rows, Body, g
<1>8. \A i \in 0..N : rows[i] = f[i]
  <2> DEFINE S == {i \in 0..N : rows[i] = f[i]}
  <2>1. 0 \in S
    BY <1>0, <1>2, <1>6, SMTT(60)
  <2>2. \A i \in 1..N : i - 1 \in S => i \in S
    BY <1>3, <1>6, SMTT(60)
  <2>3. 0..N \subseteq S
    <3> HIDE DEF S
    <3> QED BY <1>0, <2>1, <2>2, LoopInduction
  <2> QED BY <2>3
<1>9. Rounds(t, dir, f)
  BY <1>2, <1>3 DEF Rounds
<1>10. Listing(t, dir) = f[MaxFiles]
  BY <1>0, <1>7, <1>8, SMTT(60)
<1> QED BY <1>9, <1>10

\* Each row comes from a slot, and its number is one more than the rows of the
\* slots before.
LEMMA RowsFromSlots ==
  ASSUME NEW t, NEW dir, NEW f, Rounds(t, dir, f)
  PROVE  \A k \in 1..Len(f[MaxFiles]) :
           \E x \in Slots : /\ t[x].used /\ t[x].parent = dir
                            /\ Len(f[x]) = k - 1 /\ f[MaxFiles][k] = RowOf(t[x])
<1> DEFINE N == MaxFiles
           Place(i, k, x) == /\ x \in 0..i - 1 /\ t[x].used /\ t[x].parent = dir
                             /\ Len(f[x]) = k - 1 /\ f[i][k] = RowOf(t[x])
           S == {i \in 0..N : \A k \in 1..Len(f[i]) : \E x : Place(i, k, x)}
<1>0. N \in Nat /\ Slots = 0..N - 1
  BY ConstantsAssumption DEF Slots
<1>1. 0 \in S
  <2>1. Len(f[0]) = 0 /\ 0 \in 0..N
    BY <1>0, SMTT(60) DEF Rounds
  <2> HIDE DEF Place
  <2> QED BY <2>1, SMTT(60)
<1>2. ASSUME NEW i \in 1..N, i - 1 \in S
      PROVE  i \in S
  <2>0. i \in 0..N /\ i - 1 \in 0..N /\ i - 1 \in 0..i - 1
    BY <1>0, SMTT(60)
  <2>1. f[i - 1] \in Seq(Row) /\ f[i] \in Seq(Row)
    BY <2>0 DEF Rounds
  <2>2. \A k \in 1..Len(f[i - 1]) : \E x : Place(i - 1, k, x)
    BY <1>2
  <2>3. ASSUME NEW k \in 1..Len(f[i - 1]), f[i][k] = f[i - 1][k]
        PROVE  \E x : Place(i, k, x)
    <3>1. PICK x : Place(i - 1, k, x)
      BY <2>2
    <3>2. x \in 0..i - 1
      BY <3>1, SMTT(60)
    <3>3. Place(i, k, x)
      BY <3>1, <3>2, <2>3
    <3> HIDE DEF Place
    <3> QED BY <3>3
  <2>4. CASE ~(t[i - 1].used /\ t[i - 1].parent = dir)
    <3>1. f[i] = f[i - 1]
      BY <2>4 DEF Rounds
    <3> HIDE DEF Place
    <3> QED BY <3>1, <2>0, <2>3
  <2>5. CASE t[i - 1].used /\ t[i - 1].parent = dir
    <3> DEFINE s == f[i - 1]
               e == RowOf(t[i - 1])
    <3>1. f[i] = Append(s, e)
      BY <2>5 DEF Rounds
    <3>2. /\ Len(f[i]) = Len(s) + 1 /\ Len(s) \in Nat
          /\ \A k \in 1..Len(s) : f[i][k] = s[k]
          /\ f[i][Len(s) + 1] = e
      BY <3>1, <2>1, SMTT(60)
    <3>3. Place(i, Len(s) + 1, i - 1)
      <4>1. Len(s) = (Len(s) + 1) - 1
        BY <3>2, SMTT(60)
      <4> QED BY <4>1, <3>2, <2>0, <2>5
    <3>4. ASSUME NEW k \in 1..Len(f[i]) PROVE \E x : Place(i, k, x)
      <4> HIDE DEF Place, e
      <4>1. CASE k = Len(s) + 1
        BY <4>1, <3>3
      <4>2. CASE k # Len(s) + 1
        <5>1. k \in 1..Len(s)
          BY <4>2, <3>2, SMTT(60)
        <5> QED BY <5>1, <3>2, <2>3
      <4> QED BY <4>1, <4>2
    <3> HIDE DEF Place
    <3> QED BY <3>4, <2>0
  <2> QED BY <2>4, <2>5
<1>3. 0..N \subseteq S
  <2> HIDE DEF S
  <2> QED BY <1>0, <1>1, <1>2, LoopInduction
<1>4. N \in 0..N
  BY <1>0, SMTT(60)
<1>5. \A k \in 1..Len(f[N]) : \E x : Place(N, k, x)
  <2> HIDE DEF Place
  <2> QED BY <1>3, <1>4
<1> QED BY <1>0, <1>5

\* The list s without its row p + 1.
Without(s, p) == SubSeq(s, 1, p) \o SubSeq(s, p + 2, Len(s))

\* Taking the last row out, and a row before the last.
LEMMA WithoutAppend ==
  ASSUME NEW S, NEW s \in Seq(S), NEW e \in S, NEW p \in Nat
  PROVE  /\ p = Len(s) => Without(Append(s, e), p) = s
         /\ p < Len(s) => /\ Without(s, p) \in Seq(S)
                          /\ Without(Append(s, e), p) = Append(Without(s, p), e)
<1> DEFINE a == Append(s, e)
           n == Len(s)
<1>1. /\ n \in Nat /\ a \in Seq(S) /\ Len(a) = n + 1
      /\ \A i \in 1..n : a[i] = s[i] /\ s[i] \in S /\ a[i] \in S
      /\ a[n + 1] = e
  BY SMTT(60)
<1> HIDE DEF a, n
<1>2. ASSUME p =< n
      PROVE  SubSeq(a, 1, p) = SubSeq(s, 1, p) /\ SubSeq(a, 1, p) \in Seq(S)
             /\ Len(SubSeq(a, 1, p)) = p
  <2>1. \A i \in 1..p : s[i] \in S /\ a[i] \in S /\ a[i] = s[i] /\ 1 + i - 1 = i
    BY <1>1, <1>2, SMTT(60)
  <2>2. /\ SubSeq(s, 1, p) \in Seq(S) /\ Len(SubSeq(s, 1, p)) = p
        /\ \A i \in 1..p : SubSeq(s, 1, p)[i] = s[i]
    BY <2>1, SubSeqProperties, SMTT(60)
  <2>3. /\ SubSeq(a, 1, p) \in Seq(S) /\ Len(SubSeq(a, 1, p)) = p
        /\ \A i \in 1..p : SubSeq(a, 1, p)[i] = a[i]
    BY <2>1, SubSeqProperties, SMTT(60)
  <2>4. \A i \in 1..Len(SubSeq(a, 1, p)) : SubSeq(a, 1, p)[i] = SubSeq(s, 1, p)[i]
    BY <2>1, <2>2, <2>3
  <2>5. SubSeq(a, 1, p) = SubSeq(s, 1, p)
    BY <2>2, <2>3, <2>4, SeqEqual
  <2> QED BY <2>3, <2>5
<1>3. ASSUME p = n PROVE Without(a, p) = s
  <2>1. SubSeq(a, p + 2, Len(a)) = <<>>
    BY <1>1, <1>3, SubSeqEmpty, SMTT(60)
  <2>2. SubSeq(s, 1, p) = s
    BY <1>3, SubSeqFull DEF n
  <2>3. s \o <<>> = s
    BY ConcatEmptySeq
  <2> QED BY <1>1, <1>2, <1>3, <2>1, <2>2, <2>3, SMTT(60) DEF Without
<1>4. ASSUME p < n
      PROVE  Without(s, p) \in Seq(S) /\ Without(a, p) = Append(Without(s, p), e)
  <2> DEFINE u == SubSeq(s, 1, p)
             v == SubSeq(s, p + 2, n)
             w == SubSeq(a, p + 2, n + 1)
  <2>1. /\ u \in Seq(S) /\ v \in Seq(S) /\ SubSeq(a, 1, p) = u
    <3>1. p =< n /\ p + 2 \in Int /\ \A i \in p + 2..n : s[i] \in S
      BY <1>1, <1>4, SMTT(60)
    <3> QED BY <3>1, <1>1, <1>2, SubSeqProperties, SMTT(60)
  <2>2. w = v \o <<e>>
    <3>1. p + 2 \in 1..Len(a) /\ n + 1 \in p + 2..Len(a) /\ (n + 1) - 1 = n
      BY <1>1, <1>4, SMTT(60)
    <3>2. w = SubSeq(a, p + 2, n) \o <<a[n + 1]>>
      BY <3>1, <1>1, SubSeqRecursiveSecond
    <3>3. SubSeq(a, p + 2, n) = v
      <4>1. \A i \in p + 2..n : s[i] \in S /\ a[i] \in S /\ a[i] = s[i]
        BY <1>1, SMTT(60)
      <4>2. p + 2 \in Int /\ n \in Int
        BY <1>1, SMTT(60)
      <4>3. /\ SubSeq(a, p + 2, n) \in Seq(S)
            /\ Len(SubSeq(a, p + 2, n)) = IF p + 2 <= n THEN n - (p + 2) + 1 ELSE 0
            /\ \A i \in 1..n - (p + 2) + 1 : SubSeq(a, p + 2, n)[i] = a[p + 2 + i - 1]
        BY <4>1, <4>2, SubSeqProperties, SMTT(60)
      <4>4. /\ v \in Seq(S)
            /\ Len(v) = IF p + 2 <= n THEN n - (p + 2) + 1 ELSE 0
            /\ \A i \in 1..n - (p + 2) + 1 : v[i] = s[p + 2 + i - 1]
        BY <4>1, <4>2, SubSeqProperties, SMTT(60)
      <4>5. ASSUME NEW i \in 1..Len(v) PROVE SubSeq(a, p + 2, n)[i] = v[i]
        <5>1. i \in 1..n - (p + 2) + 1 /\ p + 2 + i - 1 \in p + 2..n
          BY <1>1, <4>4, SMTT(60)
        <5> QED BY <5>1, <4>1, <4>3, <4>4
      <4> QED BY <4>3, <4>4, <4>5, SeqEqual
    <3> QED BY <3>2, <3>3, <1>1
  <2>3. Without(s, p) = u \o v /\ Without(a, p) = u \o w
    BY <2>1, <1>1 DEF Without, n
  <2> HIDE DEF u, v, w
  <2>4. u \o v \in Seq(S) /\ <<e>> \in Seq(S)
    BY <2>1, ConcatProperties, SMTT(60)
  <2>5. (u \o v) \o <<e>> = u \o (v \o <<e>>)
    BY <2>1, <2>4, ConcatAssociative, SMTT(60)
  <2>6. Append(u \o v, e) = (u \o v) \o <<e>>
    BY <2>4, AppendIsConcat
  <2> QED BY <2>2, <2>3, <2>4, <2>5, <2>6
<1> QED BY <1>3, <1>4 DEF a, n

\* Taking a slot out of the directory takes its row out of the list.
LEMMA ListingWithout ==
  ASSUME NEW t \in [Slots -> GoodFile], NEW u \in [Slots -> GoodFile], NEW dir,
         NEW x \in Slots, t[x].used, t[x].parent = dir, ~u[x].used,
         \A s \in Slots \ {x} : u[s] = t[s],
         NEW f, Rounds(t, dir, f)
  PROVE  Listing(u, dir) = Without(f[MaxFiles], Len(f[x]))
<1> DEFINE N == MaxFiles
           p == Len(f[x])
<1>0. N \in Nat /\ Slots = 0..N - 1 /\ x \in 0..N /\ x + 1 \in 1..N /\ (x + 1) - 1 = x
  BY ConstantsAssumption, SMTT(60) DEF Slots
<1>1. PICK h : Rounds(u, dir, h) /\ Listing(u, dir) = h[N]
  BY ListingRounds
<1>2. \A i \in 0..N : f[i] \in Seq(Row) /\ h[i] \in Seq(Row)
  BY <1>1 DEF Rounds
<1>3. p \in Nat
  BY <1>0, <1>2, SMTT(60)
<1> HIDE DEF p
<1> DEFINE S == {i \in 0..N : /\ i =< x => h[i] = f[i]
                              /\ i > x => /\ p < Len(f[i]) /\ h[i] = Without(f[i], p)}
<1>4. 0 \in S
  BY <1>0, <1>1, SMTT(60) DEF Rounds
<1>5. ASSUME NEW i \in 1..N, i - 1 \in S
      PROVE  i \in S
  <2>0. i \in 0..N /\ i - 1 \in 0..N /\ i - 1 \in Slots /\ x \in Int
    BY <1>0, SMTT(60)
  <2>1. f[i - 1] \in Seq(Row) /\ h[i - 1] \in Seq(Row) /\ Len(f[i - 1]) \in Nat
    BY <2>0, <1>2, LenProperties
  <2>2. CASE i - 1 = x
    <3>1. h[i - 1] = f[i - 1] /\ f[i - 1] = f[x] /\ i > x /\ ~(i =< x)
      BY <2>2, <1>5, <2>0, SMTT(60)
    <3>2. h[i] = h[i - 1] /\ f[i] = Append(f[i - 1], RowOf(t[x]))
      BY <2>2, <1>1 DEF Rounds
    <3>3. RowOf(t[x]) \in Row
      BY RowType
    <3>5. Len(f[i]) = Len(f[i - 1]) + 1 /\ Len(f[i - 1]) = p
      BY <3>1, <3>2, <3>3, <2>1, SMTT(60) DEF p
    <3>4. Without(f[i], p) = f[i - 1]
      BY <3>2, <3>3, <3>5, <2>1, <1>3, WithoutAppend, SMTT(60)
    <3>6. p < Len(f[i])
      BY <3>5, <2>1, SMTT(60)
    <3> QED BY <3>1, <3>2, <3>4, <3>6, <2>0
  <2>3. CASE i - 1 # x
    <3>1. u[i - 1] = t[i - 1] /\ RowOf(t[i - 1]) \in Row
      BY <2>3, <2>0, RowType
    <3>2. CASE ~(t[i - 1].used /\ t[i - 1].parent = dir)
      <4>1. f[i] = f[i - 1] /\ h[i] = h[i - 1]
        BY <3>1, <3>2, <1>1 DEF Rounds
      <4>2. (i =< x => i - 1 =< x) /\ (i > x => i - 1 > x)
        BY <2>0, <2>3, SMTT(60)
      <4> QED BY <4>1, <4>2, <1>5, <2>0
    <3>3. CASE t[i - 1].used /\ t[i - 1].parent = dir
      <4>1. f[i] = Append(f[i - 1], RowOf(t[i - 1])) /\ h[i] = Append(h[i - 1], RowOf(t[i - 1]))
        BY <3>1, <3>3, <1>1 DEF Rounds
      <4>2. CASE i =< x
        <5>1. i - 1 =< x /\ ~(i > x)
          BY <4>2, <2>0, SMTT(60)
        <5> QED BY <4>1, <4>2, <5>1, <1>5, <2>0
      <4>3. CASE ~(i =< x)
        <5>1. i - 1 > x
          BY <4>3, <2>0, <2>3, SMTT(60)
        <5>2. p < Len(f[i - 1]) /\ h[i - 1] = Without(f[i - 1], p)
          BY <5>1, <1>5
        <5>3. h[i] = Without(f[i], p)
          BY <4>1, <5>2, <3>1, <2>1, <1>3, WithoutAppend, SMTT(60)
        <5>4. Len(f[i]) = Len(f[i - 1]) + 1
          BY <4>1, <3>1, <2>1, SMTT(60)
        <5>5. p < Len(f[i])
          BY <5>2, <5>4, <2>1, <1>3, SMTT(60)
        <5> QED BY <4>3, <5>3, <5>5, <2>0
      <4> QED BY <4>2, <4>3
    <3> QED BY <3>2, <3>3
  <2> QED BY <2>2, <2>3
<1>6. 0..N \subseteq S
  <2> HIDE DEF S
  <2> QED BY <1>0, <1>4, <1>5, LoopInduction
<1>7. N \in S /\ N > x
  BY <1>0, <1>6, SMTT(60)
<1>8. h[N] = Without(f[N], p)
  BY <1>7
<1> QED BY <1>1, <1>8 DEF p

\* The list has at most one row for every slot.
LEMMA ListingType ==
  ASSUME NEW t \in [Slots -> GoodFile], NEW dir
  PROVE  Listing(t, dir) \in Seq(Row)
<1>1. PICK f : Rounds(t, dir, f) /\ Listing(t, dir) = f[MaxFiles]
  BY ListingRounds
<1>2. MaxFiles \in 0..MaxFiles
  BY ConstantsAssumption, SMTT(60)
<1> QED BY <1>1, <1>2 DEF Rounds

\* The first elements of two sequences put together.
LEMMA PrefixOfConcat ==
  ASSUME NEW S, NEW l \in Seq(S), NEW r \in Seq(S)
  PROVE  SubSeq(l \o r, 1, Len(l)) = l
<1> DEFINE c == l \o r
           n == Len(l)
<1>1. n \in Nat /\ Len(r) \in Nat
  BY SMTT(60)
<1>2. \A i \in 1..n : c[i] = l[i] /\ l[i] \in S
  BY <1>1, ConcatProperties, SMTT(60)
<1> HIDE DEF c
<1>3. \A i \in 1..n : c[i] \in S
  BY <1>2
<1>4. /\ SubSeq(c, 1, n) \in Seq(S) /\ Len(SubSeq(c, 1, n)) = n
      /\ \A i \in 1..n : SubSeq(c, 1, n)[i] = c[i]
  BY <1>1, <1>3, SubSeqProperties, SMTT(60)
<1>5. SubSeq(c, 1, n) = l
  BY <1>2, <1>4, SeqEqual
<1> QED BY <1>5 DEF c

\* Every element of new is one of l or one of e.
From(new, l, e) ==
  \A k \in 1..Len(new) :
    (\E i \in 1..Len(l) : new[k] = l[i]) \/ (\E i \in 1..Len(e) : new[k] = e[i])

\* A new list written over an older one: in front of what the array still holds.
LEMMA RefreshFacts ==
  ASSUME NEW S, NEW l \in Seq(S), NEW e \in Seq(S), NEW new,
         new = l \o SubSeq(e, Len(l) + 1, Len(e))
  PROVE  /\ new \in Seq(S) /\ Len(l) \in 0..Len(new) /\ Len(new) >= Len(e)
         /\ SubSeq(new, 1, Len(l)) = l /\ From(new, l, e)
<1> DEFINE n == Len(l)
           m == Len(e)
           r == SubSeq(e, n + 1, m)
<1>1. n \in Nat /\ m \in Nat
  BY SMTT(60)
<1>2. \A i \in n + 1..m : e[i] \in S
  BY <1>1, SMTT(60)
<1>3. n + 1 \in Int /\ m \in Int
  BY <1>1, SMTT(60)
<1> HIDE DEF n, m
<1>4. /\ r \in Seq(S) /\ Len(r) = (IF n + 1 <= m THEN m - (n + 1) + 1 ELSE 0)
      /\ \A i \in 1..m - (n + 1) + 1 : r[i] = e[n + 1 + i - 1]
  BY <1>2, <1>3, SubSeqProperties, SMTT(60)
<1>5. new = l \o r
  BY DEF n, m
<1> HIDE DEF r
<1>6. /\ new \in Seq(S) /\ Len(new) = n + Len(r)
      /\ \A i \in 1..n + Len(r) : new[i] = IF i <= n THEN l[i] ELSE r[i - n]
  <2>1. /\ l \o r \in Seq(S) /\ Len(l \o r) = Len(l) + Len(r)
        /\ \A i \in 1..Len(l) + Len(r) :
             (l \o r)[i] = IF i <= Len(l) THEN l[i] ELSE r[i - Len(l)]
    BY <1>4, ConcatProperties
  <2> QED BY <2>1, <1>5 DEF n
<1>7. Len(r) \in Nat /\ n + Len(r) >= m
  BY <1>1, <1>4, SMTT(60)
<1>8. SubSeq(new, 1, n) = l
  BY <1>4, <1>5, PrefixOfConcat DEF n
<1>9. ASSUME NEW k \in 1..Len(new)
      PROVE  (\E i \in 1..n : new[k] = l[i]) \/ (\E i \in 1..m : new[k] = e[i])
  <2>1. CASE k =< n
    BY <2>1, <1>1, <1>6, <1>7, SMTT(60)
  <2>2. CASE ~(k =< n)
    <3>1. k - n \in 1..m - (n + 1) + 1 /\ n + 1 + (k - n) - 1 = k /\ k \in 1..m
      BY <2>2, <1>1, <1>4, <1>6, <1>7, SMTT(60)
    <3>2. new[k] = e[k]
      BY <3>1, <2>2, <1>4, <1>6
    <3> QED BY <3>1, <3>2
  <2> QED BY <2>1, <2>2
<1>10. n \in 0..Len(new) /\ Len(new) >= m
  <2>1. Len(new) = n + Len(r)
    BY <1>6
  <2> QED BY <2>1, <1>1, <1>7, SMTT(60)
<1> QED BY <1>6, <1>8, <1>9, <1>10 DEF n, m, From

-----------------------------------------------------------------------------
(* The file system calls of the file manager and of the terminal, with any  *)
(* string as the name.                                                      *)

\* find_file returns -1 or a slot in use in the directory it was asked about.
LEMMA FindFile ==
  ASSUME NEW t, NEW n, NEW dir, find_file(t, n, dir) # NoSlot
  PROVE  LET i == find_file(t, n, dir)
         IN  i \in Slots /\ t[i].used /\ t[i].parent = dir
<1>1. Hits(t, n, dir) # {} /\ Hits(t, n, dir) \in SUBSET Nat
  BY ConstantsAssumption, SMTT(60) DEF find_file, Hits, Slots
<1>2. find_file(t, n, dir) \in Hits(t, n, dir)
  BY <1>1, MinOfNats DEF find_file
<1> QED BY <1>2 DEF Hits

\* find_free returns -1 or a slot that is not in use.
LEMMA FindFree ==
  ASSUME NEW t, find_free(t) # NoSlot
  PROVE  find_free(t) \in Slots /\ ~t[find_free(t)].used
<1>1. FreeSlots(t) # {} /\ FreeSlots(t) \in SUBSET Nat
  BY ConstantsAssumption, SMTT(60) DEF find_free, FreeSlots, Slots
<1>2. find_free(t) \in FreeSlots(t)
  BY <1>1, MinOfNats DEF find_free
<1> QED BY <1>2 DEF FreeSlots

\* Without a drive a save is over at once.
LEMMA NoSave == StartSave => saving' = Idle
BY FileManAssumption DEF StartSave

\* diskfs_create and diskfs_mkdir leave good slots.
LEMMA EntryGood ==
  ASSUME FsTypes, NEW slot \in Slots, NEW n \in Strings, NEW isDir \in BOOLEAN
  PROVE  Entry(files, slot, n, isDir) \in [Slots -> GoodFile]
<1>1. files \in [Slots -> File] /\ current_dir \in Slots
  BY DEF FsTypes, GoodFile
<1>2. Entry(files, slot, n, isDir) \in [Slots -> File]
  <2>1. files[slot].name \in RawName
    BY <1>1 DEF File
  <2>2. ASSUME NEW j \in Positions, j < Len(n) PROVE n[j + 1] \in Chars
    BY <2>2, ConstantsAssumption, SMTT(60) DEF Positions, Strings
  <2>3. CopyName(n, files[slot].name) \in RawName
    BY <2>1, <2>2, ConstantsAssumption DEF CopyName, RawName
  <2>4. 0 \in Sizes
    BY DEF Sizes
  <2> QED BY <1>1, <2>3, <2>4 DEF Entry, File
<1>3. MaxFilename - 1 \in Positions
  BY ConstantsAssumption, SMTT(60) DEF Positions
<1>4. CopyName(n, files[slot].name)[MaxFilename - 1] = Nul
  BY <1>3 DEF CopyName
<1>5. /\ Entry(files, slot, n, isDir)[slot].name = CopyName(n, files[slot].name)
      /\ Entry(files, slot, n, isDir)[slot].size = 0
      /\ \A s \in Slots \ {slot} : Entry(files, slot, n, isDir)[s] = files[s]
  BY <1>1 DEF Entry
<1>6. \A s \in Slots : Entry(files, slot, n, isDir)[s] \in GoodFile
  <2> TAKE s \in Slots
  <2>1. CASE s = slot
    BY <2>1, <1>2, <1>4, <1>5 DEF GoodFile
  <2>2. CASE s # slot
    BY <2>2, <1>5 DEF FsTypes
  <2> QED BY <2>1, <2>2
<1> QED BY <1>2, <1>6

\* diskfs_write stores contents with their size.
LEMMA WriteAtGood ==
  ASSUME FsTypes, NEW idx \in Slots \cup {NoSlot}, NEW n, NEW d \in Data, WriteAt(idx, n, d)
  PROVE  /\ files' \in [Slots -> GoodFile] /\ saving' = Idle
         /\ \A s \in Slots : /\ files'[s].name = files[s].name /\ files'[s].used = files[s].used
                             /\ files'[s].is_dir = files[s].is_dir
                             /\ files'[s].parent = files[s].parent
<1>0. files \in [Slots -> GoodFile] /\ saving = Idle
  BY DEF FsTypes
<1>1. CASE files' = files
  <2>1. saving' = Idle
    BY <1>0, NoSave DEF WriteAt, Refuse
  <2> QED BY <1>0, <1>1, <2>1
<1>2. CASE files' # files
  <2>1. /\ ~(SizeOf[d] > MaxFileSize) /\ idx # NoSlot /\ idx \in Slots /\ StartSave
        /\ files' = [files EXCEPT ![idx].bytes = d, ![idx].size = SizeOf[d]]
    BY <1>2 DEF WriteAt, Refuse
  <2>2. SizeOf[d] \in Sizes /\ d \in Bytes /\ SizeOf[d] =< MaxFileSize
    BY <2>1, ConstantsAssumption, SMTT(60) DEF Sizes, Bytes
  <2>3. files[idx] \in File
    BY <1>0, <2>1 DEF GoodFile
  <2>4. \A s \in Slots \ {idx} : files'[s] = files[s]
    BY <1>0, <2>1
  <2>5. files'[idx] = [files[idx] EXCEPT !.bytes = d, !.size = SizeOf[d]]
    BY <1>0, <2>1
  <2>6. /\ files'[idx] \in File /\ files'[idx].name = files[idx].name
        /\ files'[idx].used = files[idx].used /\ files'[idx].is_dir = files[idx].is_dir
        /\ files'[idx].parent = files[idx].parent
        /\ files'[idx].bytes = d /\ files'[idx].size = SizeOf[d]
    BY <2>2, <2>3, <2>5 DEF File
  <2>7. files'[idx] \in GoodFile
    BY <1>0, <2>1, <2>2, <2>6 DEF GoodFile
  <2>8. files' = [s \in Slots |-> files'[s]]
    BY <1>0, <2>1
  <2>9. files' \in [Slots -> GoodFile]
    <3>1. \A s \in Slots : files'[s] \in GoodFile
      BY <1>0, <2>4, <2>7
    <3> QED BY <2>8, <3>1
  <2> QED BY <2>1, <2>4, <2>6, <2>9, NoSave
<1> QED BY <1>1, <1>2

\* diskfs_delete clears used.
LEMMA DeleteGood ==
  ASSUME FsTypes, NEW n, Delete(n)
  PROVE  FsTypes'
<1>0. files \in [Slots -> GoodFile] /\ saving = Idle
  BY DEF FsTypes
<1>1. current_dir' = current_dir /\ pending' = pending
  BY DEF Delete
<1> DEFINE idx == find_file(files, n, current_dir)
<1>2. CASE idx = NoSlot
  <2>1. UNCHANGED <<files, saving>>
    BY <1>2 DEF Delete, Refuse
  <2> QED BY <1>1, <2>1 DEF FsTypes
<1>3. CASE idx # NoSlot
  <2>1. idx \in Slots /\ files' = [files EXCEPT ![idx].used = FALSE] /\ saving' = Idle
    BY <1>3, FindFile, NoSave DEF Delete
  <2> HIDE DEF idx
  <2>2. [files[idx] EXCEPT !.used = FALSE] \in GoodFile
    <3>1. files[idx] \in GoodFile
      BY <1>0, <2>1
    <3> QED BY <3>1 DEF GoodFile, File
  <2>3. files' \in [Slots -> GoodFile]
    BY <1>0, <2>1, <2>2
  <2> QED BY <1>1, <2>1, <2>3 DEF FsTypes
<1> QED BY <1>2, <1>3

\* The calls a key or a command may make.
Calls ==
  \/ \E n \in Strings : Create(n) \/ Mkdir(n) \/ Delete(n) \/ CdInto(n)
  \/ \E n \in Strings, d \in Data : Write(n, d)
  \/ CdUp \/ UNCHANGED vars

\* Every call keeps the table a table.
LEMMA CallsGood ==
  ASSUME FsTypes, Calls
  PROVE  FsTypes'
<1>0. /\ files \in [Slots -> GoodFile] /\ saving = Idle /\ current_dir \in Slots
      /\ pending \in [name : Strings, data : Data] \cup {NoWrite}
  BY DEF FsTypes
<1>1. ASSUME NEW n \in Strings, Create(n) \/ Mkdir(n) PROVE FsTypes'
  <2>1. PICK op \in {"create", "mkdir"}, isDir \in BOOLEAN : MakeEntry(op, n, isDir)
    BY <1>1 DEF Create, Mkdir
  <2>2. current_dir' = current_dir /\ pending' = pending
    BY <2>1 DEF MakeEntry
  <2>3. CASE UNCHANGED <<files, saving>>
    BY <2>2, <2>3 DEF FsTypes
  <2>4. CASE ~UNCHANGED <<files, saving>>
    <3>1. find_free(files) # NoSlot /\ files' = Entry(files, find_free(files), n, isDir) /\ StartSave
      BY <2>1, <2>4 DEF MakeEntry, Refuse
    <3>2. files' \in [Slots -> GoodFile] /\ saving' = Idle
      BY <3>1, FindFree, EntryGood, NoSave
    <3> QED BY <2>2, <3>2 DEF FsTypes
  <2> QED BY <2>3, <2>4
<1>2. ASSUME NEW n, Delete(n) PROVE FsTypes'
  BY <1>2, DeleteGood
<1>3. ASSUME NEW n, CdInto(n) PROVE FsTypes'
  <2>1. current_dir' \in Slots /\ UNCHANGED <<files, saving, pending>>
    BY <1>3, FindFile DEF CdInto
  <2> QED BY <2>1 DEF FsTypes
<1>4. CASE CdUp
  <2>1. UNCHANGED <<files, saving, pending>> /\ current_dir' = files[current_dir].parent
        /\ files[current_dir].parent >= 0
    BY <1>4 DEF CdUp
  <2>2. files[current_dir].parent \in Slots \cup {NoSlot}
    BY <1>0 DEF GoodFile, File
  <2>3. current_dir' \in Slots
    BY <2>1, <2>2, SMTT(60) DEF NoSlot
  <2> QED BY <2>1, <2>3 DEF FsTypes
<1>5. ASSUME NEW n \in Strings, NEW d \in Data, Write(n, d) PROVE FsTypes'
  <2>1. current_dir' = current_dir
    BY <1>5 DEF Write
  <2>2. CASE find_file(files, n, current_dir) # NoSlot
    <3>1. /\ WriteAt(find_file(files, n, current_dir), n, d) /\ pending' = pending
          /\ find_file(files, n, current_dir) \in Slots
      BY <1>5, <2>2, FindFile DEF Write
    <3>2. files' \in [Slots -> GoodFile] /\ saving' = Idle
      BY <3>1, WriteAtGood
    <3> QED BY <2>1, <3>1, <3>2 DEF FsTypes
  <2>3. CASE find_file(files, n, current_dir) = NoSlot /\ find_free(files) = NoSlot
    <3>1. UNCHANGED <<files, saving, pending>>
      BY <1>5, <2>3 DEF Write, Refuse
    <3> QED BY <2>1, <3>1 DEF FsTypes
  <2>4. CASE find_file(files, n, current_dir) = NoSlot /\ find_free(files) # NoSlot
    <3>1. /\ files' = Entry(files, find_free(files), n, FALSE) /\ StartSave
          /\ pending' = [name |-> n, data |-> d]
      BY <1>5, <2>4 DEF Write
    <3>2. files' \in [Slots -> GoodFile] /\ saving' = Idle
      BY <2>4, <3>1, FindFree, EntryGood, NoSave
    <3>3. pending' \in [name : Strings, data : Data]
      BY <3>1
    <3> QED BY <2>1, <3>2, <3>3 DEF FsTypes
  <2> QED BY <2>2, <2>3, <2>4
<1>6. CASE UNCHANGED vars
  BY <1>6 DEF vars, FsTypes
<1> QED BY <1>1, <1>2, <1>3, <1>4, <1>5, <1>6 DEF Calls

\* So does the rest of a write.
LEMMA ResumeGood ==
  ASSUME FsTypes, ResumeWrite
  PROVE  FsTypes' /\ pending' = NoWrite
<1>1. pending.name \in Strings /\ pending.data \in Data
  BY DEF FsTypes, ResumeWrite
<1>2. find_file(files, pending.name, current_dir) \in Slots \cup {NoSlot}
  BY FindFile
<1>3. files' \in [Slots -> GoodFile] /\ saving' = Idle
  BY <1>1, <1>2, WriteAtGood DEF ResumeWrite
<1>4. current_dir' = current_dir /\ pending' = NoWrite
  BY DEF ResumeWrite
<1> QED BY <1>3, <1>4 DEF FsTypes

-----------------------------------------------------------------------------
(* The list.                                                                *)

FmTypes ==
  /\ FsTypes
  /\ entries \in Seq(Row) /\ entry_count \in 0..Len(entries)
  /\ selected \in Nat /\ scroll_off \in Nat
  /\ input_buf \in Strings /\ (input_mode = 3 => entries # <<>>)
  /\ stage = "write" => job.new \in Strings /\ job.data \in Data \cup {Unset}
  /\ pending # NoWrite /\ stage = "keys" => ~fresh

FmInv == FmTypes /\ ListRight

\* There is a selected entry once the array has any.
LEMMA ChosenType ==
  ASSUME FmInv, entries # <<>>
  PROVE  /\ selected + 1 \in 1..Len(entries)
         /\ Chosen \in Row /\ Chosen.name \in Strings
<1>1. /\ entries \in Seq(Row) /\ Len(entries) \in Nat /\ Len(entries) > 0
      /\ entry_count \in 0..Len(entries) /\ selected \in Nat
      /\ selected = 0 \/ selected < entry_count
  BY EmptySeq, SMTT(60) DEF FmInv, FmTypes, ListRight, SelectionOK
<1>2. selected + 1 \in 1..Len(entries)
  BY <1>1, SMTT(60)
<1>3. Chosen \in Row
  BY <1>1, <1>2, ElementOfSeq DEF Chosen
<1> QED BY <1>2, <1>3 DEF Row

\* A refresh.
LEMMA Refreshed ==
  ASSUME FmTypes, NEW t \in [Slots -> GoodFile], NEW dir, refresh_entries(t, dir)
  PROVE  /\ entries' \in Seq(Row) /\ entry_count' \in 0..Len(entries')
         /\ selected' \in Nat /\ scroll_off' \in Nat
         /\ entries # <<>> => entries' # <<>>
         /\ SelectionOK' /\ Shown' = Listing(t, dir)
<1> DEFINE l == Listing(t, dir)
<1>1. l \in Seq(Row) /\ entries \in Seq(Row)
  BY ListingType DEF FmTypes
<1>2. /\ entries' = l \o SubSeq(entries, Len(l) + 1, Len(entries)) /\ entry_count' = Len(l)
      /\ selected' = 0 /\ scroll_off' = 0
  BY DEF refresh_entries
<1> HIDE DEF l
<1>3. /\ entries' \in Seq(Row) /\ Len(l) \in 0..Len(entries') /\ Len(entries') >= Len(entries)
      /\ SubSeq(entries', 1, Len(l)) = l
  BY <1>1, <1>2, RefreshFacts
<1>4. entries # <<>> => entries' # <<>>
  <2>1. entries # <<>> => Len(entries) \in Nat \ {0}
    BY <1>1, EmptySeq
  <2>2. Len(<<>>) = 0
    OBVIOUS
  <2> QED BY <1>3, <2>1, <2>2, SMTT(60)
<1>5. SelectionOK'
  BY <1>2, FileManAssumption, SMTT(60) DEF SelectionOK
<1>6. Shown' = l
  BY <1>2, <1>3 DEF Shown
<1> QED BY <1>2, <1>3, <1>4, <1>5, <1>6 DEF l

\* A key that ends with a refresh of the window.
LEMMA RefreshKeeps ==
  ASSUME FmInv, Calls, refresh_entries(files', current_dir'), UNCHANGED prompt,
         pending' = NoWrite, stage' = "keys"
  PROVE  FmInv'
<1>1. FsTypes'
  BY CallsGood DEF FmInv, FmTypes
<1>2. files' \in [Slots -> GoodFile]
  BY <1>1 DEF FsTypes
<1>3. /\ entries' \in Seq(Row) /\ entry_count' \in 0..Len(entries')
      /\ selected' \in Nat /\ scroll_off' \in Nat
      /\ entries # <<>> => entries' # <<>>
      /\ SelectionOK' /\ Shown' = Listing(files', current_dir')
  BY <1>2, Refreshed DEF FmInv
<1>4. input_buf' \in Strings /\ (input_mode' = 3 => entries' # <<>>)
  BY <1>3 DEF prompt, FmInv, FmTypes
<1>5. FmTypes'
  BY <1>1, <1>3, <1>4 DEF FmTypes
<1>6. ListRight'
  BY <1>3 DEF ListRight, ListCurrent
<1> QED BY <1>5, <1>6 DEF FmInv

\* A call that leaves the list alone.
LEMMA CallKeeps ==
  ASSUME FmInv, Calls, UNCHANGED <<entries, entry_count, selected, scroll_off>>,
         stage' # "keys" \/ ~fresh', input_buf' \in Strings,
         input_mode' = 3 => input_mode = 3,
         stage' = "write" => job'.new \in Strings /\ job'.data \in Data \cup {Unset}
  PROVE  FmInv'
<1>1. FsTypes'
  BY CallsGood DEF FmInv, FmTypes
<1>2. FmTypes'
  BY <1>1 DEF FmInv, FmTypes
<1>3. SelectionOK'
  BY DEF FmInv, ListRight, SelectionOK
<1>4. ListCurrent'
  BY DEF ListCurrent
<1> QED BY <1>2, <1>3, <1>4 DEF FmInv, ListRight

\* A key that only moves in the list or in the prompt.
LEMMA MoveKeeps ==
  ASSUME FmInv, UNCHANGED <<vars, entries, entry_count, fresh, stage, job>>,
         selected' \in Nat, scroll_off' \in Nat, SelectionOK', input_buf' \in Strings,
         input_mode' = 3 => entries # <<>>
  PROVE  FmInv'
<1>1. FsTypes'
  BY CallsGood DEF FmInv, FmTypes, Calls
<1>2. FmTypes'
  BY <1>1 DEF FmInv, FmTypes, vars
<1>3. ListCurrent'
  BY DEF FmInv, ListRight, ListCurrent, Shown, vars
<1> QED BY <1>2, <1>3 DEF FmInv, ListRight

\* Every key and every command keeps the list right.
LEMMA FmStep ==
  ASSUME FmInv, FmNext
  PROVE  FmInv'
<1>0. /\ <<>> \in Strings /\ Names \subseteq Strings
      /\ input_buf \in Strings /\ selected \in Nat /\ scroll_off \in Nat
      /\ SelectionOK /\ entry_count \in Nat
      /\ entry_count > 0 => entries # <<>>
      /\ input_mode = 3 => entries # <<>>
  <2>1. <<>> \in Strings /\ Names \subseteq Strings
    BY ConstantsAssumption, SMTT(60) DEF Strings
  <2>2. /\ input_buf \in Strings /\ selected \in Nat /\ scroll_off \in Nat
        /\ SelectionOK /\ (input_mode = 3 => entries # <<>>)
    BY DEF FmInv, FmTypes, ListRight
  <2>3. entry_count \in Nat /\ (entry_count > 0 => entries # <<>>)
    BY SMTT(60) DEF FmInv, FmTypes
  <2> QED BY <2>1, <2>2, <2>3
<1>1. CASE Open
  <2>1. Calls /\ pending' = NoWrite
    BY <1>1 DEF Open, Calls, Free, Ready, vars
  <2>2. refresh_entries(files', current_dir')
    BY <1>1 DEF Open, vars
  <2>3. UNCHANGED prompt /\ stage' = "keys"
    BY <1>1 DEF Open, Free
  <2> QED BY <2>1, <2>2, <2>3, RefreshKeeps
<1>2. CASE Terminal
  <2>1. Calls
    BY <1>0, <1>2 DEF Terminal, Command, Calls
  <2>2. /\ UNCHANGED <<entries, entry_count, selected, scroll_off>> /\ ~fresh'
        /\ input_buf' = input_buf /\ input_mode' = input_mode /\ stage' = "keys"
    BY <1>2 DEF Terminal, Free, prompt
  <2>3. stage' # "write"
    BY <2>2
  <2> QED BY <1>0, <2>1, <2>2, <2>3, CallKeeps
<1>3. CASE KeyUp
  <2>1. /\ selected > 0 /\ selected' = selected - 1
        /\ scroll_off' = IF selected' < scroll_off THEN scroll_off - 1 ELSE scroll_off
        /\ entry_count' = entry_count
    BY <1>3 DEF KeyUp
  <2>2. selected' \in Nat /\ scroll_off' \in Nat /\ SelectionOK'
    BY <1>0, <2>1, FileManAssumption, SMTT(60) DEF SelectionOK
  <2>3. UNCHANGED <<vars, entries, entry_count, fresh, stage, job>>
        /\ input_buf' = input_buf /\ input_mode' = input_mode
    BY <1>3 DEF KeyUp, prompt
  <2> QED BY <1>0, <2>2, <2>3, MoveKeeps
<1>4. CASE KeyDown
  <2>1. /\ selected < entry_count - 1 /\ selected' = selected + 1
        /\ scroll_off' = IF selected' >= scroll_off + Visible THEN scroll_off + 1 ELSE scroll_off
        /\ entry_count' = entry_count
    BY <1>4 DEF KeyDown
  <2>2. selected' \in Nat /\ scroll_off' \in Nat /\ SelectionOK'
    BY <1>0, <2>1, FileManAssumption, SMTT(60) DEF SelectionOK
  <2>3. UNCHANGED <<vars, entries, entry_count, fresh, stage, job>>
        /\ input_buf' = input_buf /\ input_mode' = input_mode
    BY <1>4 DEF KeyDown, prompt
  <2> QED BY <1>0, <2>2, <2>3, MoveKeeps
<1>5. CASE EnterDir
  <2>1. Chosen.name \in Strings
    BY <1>0, <1>5, ChosenType DEF EnterDir
  <2>2. Calls
    BY <1>5, <2>1 DEF EnterDir, fs_cd, Calls
  <2>3. pending' = NoWrite
    BY <1>5 DEF EnterDir, fs_cd, CdInto, vars, Normal, Key, Free, Ready
  <2>4. refresh_entries(files', current_dir') /\ UNCHANGED prompt /\ stage' = "keys"
    BY <1>5 DEF EnterDir, Normal, Key, Free
  <2> QED BY <2>2, <2>3, <2>4, RefreshKeeps
<1>6. CASE GoUp
  <2>2. Calls
    BY <1>6 DEF GoUp, Upwards, Calls
  <2>3. pending' = NoWrite
    BY <1>6 DEF GoUp, Upwards, CdUp, vars, Normal, Key, Free, Ready
  <2>4. refresh_entries(files', current_dir') /\ UNCHANGED prompt /\ stage' = "keys"
    BY <1>6 DEF GoUp, Normal, Key, Free
  <2> QED BY <2>2, <2>3, <2>4, RefreshKeeps
<1>7. CASE DeleteKey
  <2>1. Chosen.name \in Strings
    BY <1>0, <1>7, ChosenType DEF DeleteKey
  <2>2. Calls
    BY <1>7, <2>1 DEF DeleteKey, Calls
  <2>3. UNCHANGED <<list, prompt>> /\ stage' = "refresh"
    BY <1>7 DEF DeleteKey
  <2>4. stage' # "write" /\ stage' # "keys"
    BY <2>3
  <2> QED BY <1>0, <2>2, <2>3, <2>4, CallKeeps DEF list, prompt
<1>8. ASSUME NEW mode \in {1, 2}, NewPrompt(mode)
      PROVE  FmInv'
  <2>1. input_mode' # 3
    BY <1>8, SMTT(60) DEF NewPrompt
  <2>2. /\ UNCHANGED <<vars, entries, entry_count, fresh, stage, job, selected, scroll_off>>
        /\ input_buf' = <<>>
    BY <1>8 DEF NewPrompt, list
  <2>3. SelectionOK'
    BY <1>0, <2>2 DEF SelectionOK
  <2> QED BY <1>0, <2>1, <2>2, <2>3, MoveKeeps
<1>9. CASE RenamePrompt
  <2>1. Chosen.name \in Strings /\ entries # <<>>
    BY <1>0, <1>9, ChosenType DEF RenamePrompt
  <2>2. /\ UNCHANGED <<vars, entries, entry_count, fresh, stage, job, selected, scroll_off>>
        /\ input_buf' = Chosen.name
    BY <1>9 DEF RenamePrompt, list
  <2>3. SelectionOK'
    BY <1>0, <2>2 DEF SelectionOK
  <2> QED BY <1>0, <2>1, <2>2, <2>3, MoveKeeps
<1>10. ASSUME NEW n \in Names \cup {<<>>}, Type(n)
       PROVE  FmInv'
  <2>2. /\ UNCHANGED <<vars, entries, entry_count, fresh, stage, job, selected, scroll_off>>
        /\ input_buf' \in Strings /\ input_mode' = input_mode
    BY <1>0, <1>10 DEF Type, list
  <2>3. SelectionOK'
    BY <1>0, <2>2 DEF SelectionOK
  <2> QED BY <1>0, <2>2, <2>3, MoveKeeps
<1>11. CASE EnterNew
  <2>1. Calls
    BY <1>0, <1>11 DEF EnterNew, Calls
  <2>2. UNCHANGED list /\ stage' = "refresh" /\ input_mode' = 0 /\ input_buf' = <<>>
    BY <1>11 DEF EnterNew, ClosePrompt
  <2>3. stage' # "write" /\ stage' # "keys" /\ input_mode' # 3
    BY <2>2, SMTT(60)
  <2> QED BY <1>0, <2>1, <2>2, <2>3, CallKeeps DEF list
<1>12. CASE EnterRename
  <2>1. Chosen.name \in Strings
    BY <1>0, <1>12, ChosenType DEF EnterRename
  <2>2. Calls
    BY <1>12, <2>1 DEF EnterRename, Calls
  <2>3. UNCHANGED list /\ stage' = "write" /\ input_mode' = 0 /\ input_buf' = <<>>
    BY <1>12 DEF EnterRename, ClosePrompt
  <2>4. job'.new \in Strings /\ job'.data \in Data \cup {Unset}
    <3> DEFINE idx == find_file(files, Chosen.name, current_dir)
    <3>1. /\ job'.new = input_buf
          /\ job'.data = IF idx = NoSlot \/ files[idx].size = 0 THEN Unset ELSE files[idx].bytes
      BY <1>12 DEF EnterRename
    <3>2. idx # NoSlot => files[idx] \in GoodFile
      BY FindFile DEF FmInv, FmTypes, FsTypes
    <3> HIDE DEF idx
    <3>3. idx # NoSlot /\ files[idx].size # 0 => files[idx].bytes \in Data
      BY <3>2 DEF GoodFile
    <3> QED BY <1>0, <3>1, <3>3
  <2>5. stage' # "keys" /\ input_mode' # 3
    BY <2>3, SMTT(60)
  <2> QED BY <1>0, <2>2, <2>3, <2>4, <2>5, CallKeeps DEF list
<1>13. CASE RenameWrite
  <2>1. job.new \in Strings /\ job.data \in Data \cup {Unset}
    BY <1>13 DEF RenameWrite, FmInv, FmTypes
  <2>2. Calls
    BY <1>13, <2>1 DEF RenameWrite, Calls
  <2>3. UNCHANGED <<list, prompt>> /\ stage' = "refresh"
    BY <1>13 DEF RenameWrite
  <2>4. stage' # "write" /\ stage' # "keys"
    BY <2>3
  <2> QED BY <1>0, <2>2, <2>3, <2>4, CallKeeps DEF list, prompt
<1>14. CASE Finish
  <2>1. Calls /\ pending' = NoWrite
    BY <1>14 DEF Finish, Calls, Ready, vars
  <2>2. refresh_entries(files', current_dir')
    BY <1>14 DEF Finish, vars
  <2>3. UNCHANGED prompt /\ stage' = "keys"
    BY <1>14 DEF Finish
  <2> QED BY <2>1, <2>2, <2>3, RefreshKeeps
<1>15. CASE ResumeWrite /\ UNCHANGED fmvars
  <2>1. FsTypes' /\ pending' = NoWrite
    BY <1>15, ResumeGood DEF FmInv, FmTypes
  <2>2. FmTypes'
    BY <1>15, <2>1 DEF FmInv, FmTypes, fmvars
  <2>3. SelectionOK'
    BY <1>15 DEF FmInv, ListRight, SelectionOK, fmvars
  <2>4. ~(fresh /\ stage = "keys")
    BY <1>15 DEF FmInv, FmTypes, ResumeWrite
  <2>5. ListCurrent'
    BY <1>15, <2>4 DEF ListCurrent, fmvars
  <2> QED BY <2>2, <2>3, <2>5 DEF FmInv, ListRight
<1> QED BY <1>1, <1>2, <1>3, <1>4, <1>5, <1>6, <1>7, <1>8, <1>9, <1>10, <1>11, <1>12,
           <1>13, <1>14, <1>15 DEF FmNext, FmKey

\* Before the window is opened there is no list.
LEMMA FmStart ==
  ASSUME FmInit
  PROVE  FmInv
<1>1. files \in [Slots -> GoodFile]
  <2>1. files = FreshTable([s \in Slots |-> BlankName])
    BY DEF FmInit, Init
  <2>2. /\ [BlankName EXCEPT ![0] = Slash, ![1] = Nul] \in RawName
        /\ [BlankName EXCEPT ![0] = Nul] \in RawName
    BY ConstantsAssumption DEF BlankName, RawName, Positions
  <2>3. files \in [Slots -> File]
    <3>1. 0 \in Sizes /\ Unset \in Bytes
      BY DEF Sizes, Bytes
    <3> QED BY <2>1, <2>2, <3>1 DEF FreshTable, File
  <2>4. MaxFilename - 1 \in Positions /\ MaxFilename - 1 # 0 /\ 0 \in Positions /\ 1 \in Positions
    BY ConstantsAssumption, SMTT(60) DEF Positions
  <2>5. BlankName[MaxFilename - 1] = Nul /\ BlankName \in [Positions -> {Nul}]
    BY <2>4 DEF BlankName
  <2>6. \A s \in Slots : files[s].name[MaxFilename - 1] = Nul /\ files[s].size = 0
    BY <2>1, <2>4, <2>5 DEF FreshTable
  <2> QED BY <2>3, <2>6 DEF GoodFile
<1>2. FsTypes
  <2>1. current_dir \in Slots
    BY ConstantsAssumption, SMTT(60) DEF FmInit, Init, Root, Slots
  <2>2. saving = Idle /\ pending = NoWrite
    BY FileManAssumption DEF FmInit, Init
  <2> QED BY <1>1, <2>1, <2>2 DEF FsTypes
<1>3. /\ entries = <<>> /\ entry_count = 0 /\ selected = 0 /\ scroll_off = 0
      /\ input_mode = 0 /\ input_buf = <<>> /\ stage = "keys" /\ fresh = FALSE
      /\ pending = NoWrite
  BY DEF FmInit, Init
<1>4. FmTypes
  BY <1>2, <1>3, SMTT(60) DEF FmTypes, Strings
<1>5. ListRight
  BY <1>3, FileManAssumption, SMTT(60) DEF ListRight, SelectionOK, ListCurrent
<1> QED BY <1>4, <1>5 DEF FmInv

\* The invariant holds of every behaviour of the file manager.
LEMMA FmInvariant == FmSpec => []FmInv
<1>1. FmInv /\ UNCHANGED <<vars, fmvars>> => FmInv'
  <2> SUFFICES ASSUME FmInv, UNCHANGED <<vars, fmvars>> PROVE FmInv'
    OBVIOUS
  <2>1. UNCHANGED <<vars, entries, entry_count, fresh, stage, job, selected, scroll_off,
                    input_mode, input_buf>>
    BY DEF fmvars
  <2>2. SelectionOK' /\ selected' \in Nat /\ scroll_off' \in Nat
        /\ input_buf' \in Strings /\ (input_mode' = 3 => entries # <<>>)
    BY <2>1 DEF SelectionOK, FmInv, FmTypes, ListRight
  <2> QED BY <2>1, <2>2, MoveKeeps
<1>2. FmInv /\ [FmNext]_<<vars, fmvars>> => FmInv'
  BY <1>1, FmStep
<1> QED BY <1>2, FmStart, PTL DEF FmSpec

\* fileman.c: whatever keys are pressed and whatever commands run between them,
\* the selected row exists and is on the screen, and a list no command has
\* overtaken is the working directory.
THEOREM ListAlwaysRight == FmSpec => []ListRight
<1>1. FmInv => ListRight
  BY DEF FmInv
<1> QED BY <1>1, FmInvariant, PTL

-----------------------------------------------------------------------------
(* Names of one length.  The copy loops store no terminator behind a name   *)
(* shorter than the array, so that a slot used twice may end up with a name  *)
(* nobody gave it.  Where all names have one length that does not happen.    *)

SameLength == \E L \in 1..(MaxFilename - 1) : \A n \in Names : Len(n) = L

\* Under SameLength, the length of every name.
NameLen == CHOOSE L \in 1..(MaxFilename - 1) : \A n \in Names : Len(n) = L

\* A name as diskfs_create and diskfs_mkdir store it, and what they need to
\* find behind the place of a name.
Stored(n) == [j \in Positions |-> CharAt(n, j)]
Padded(raw) == \A j \in Positions : j >= NameLen => raw[j] = Nul

\* A table in which every entry of a directory has a stored name of its own.
Tidy(t) ==
  /\ \A s \in Slots :
       /\ Padded(t[s].name)
       /\ t[s].used => \/ t[s].parent \in Slots /\ \E n \in Names : t[s].name = Stored(n)
                       \/ s = Root /\ t[s].parent = NoSlot
  /\ \A i, j \in Slots : /\ t[i].used /\ t[j].used /\ t[i].parent = t[j].parent
                         /\ t[i].parent \in Slots /\ t[i].name = t[j].name
                         => i = j

Makes == {"create", "mkdir", "write"}

\* What was made under a name is there.
MadeIsThere ==
  /\ Tidy(files) /\ ~stray
  /\ pending # NoWrite => /\ pending.name \in Names
                          /\ find_file(files, pending.name, current_dir) # NoSlot
  /\ last.op \in Makes /\ last.ret = 0 => find_file(files, last.name, last.dir) # NoSlot

\* So is every name a key or a command uses one of Names.
NamesKept ==
  /\ MadeIsThere
  /\ \A k \in 1..Len(entries) : entries[k].name \in Names
  /\ input_buf \in Names \cup {<<>>}

\* Between the fs_delete of a rename and its last call: the new name is free
\* and so is a slot; then the file is there, without its contents or with them.
RenameKept ==
  /\ stage \in {"keys", "write", "refresh"}
  /\ stage = "keys" => job = NoJob
  /\ stage = "write" => pending = NoWrite /\ job # NoJob
  /\ job # NoJob => /\ job.new \in Names /\ job.data \in Data \cup {Unset}
                    /\ job.data # Unset => SizeOf[job.data] =< MaxFileSize
  /\ stage = "write" /\ job.sound =>
       find_file(files, job.new, current_dir) = NoSlot /\ find_free(files) # NoSlot
  /\ stage = "refresh" /\ job # NoJob /\ job.sound =>
       LET idx == find_file(files, job.new, current_dir) IN
       /\ idx # NoSlot /\ ~files[idx].is_dir
       /\ IF job.data = Unset THEN pending = NoWrite /\ files[idx].size = 0
          ELSE \/ pending = [name |-> job.new, data |-> job.data]
               \/ /\ pending = NoWrite
                  /\ files[idx].bytes = job.data /\ files[idx].size = SizeOf[job.data]

\* The length is there.
LEMMA NameLength ==
  ASSUME SameLength
  PROVE  /\ NameLen \in 1..(MaxFilename - 1) /\ NameLen \in Positions /\ NameLen \in Nat
         /\ \A n \in Names : Len(n) = NameLen /\ n \in Seq(Chars)
         /\ Positions \subseteq Nat
<1>1. NameLen \in 1..(MaxFilename - 1) /\ \A n \in Names : Len(n) = NameLen
  BY DEF SameLength, NameLen
<1> HIDE DEF NameLen
<1> QED BY <1>1, ConstantsAssumption, SMTT(60) DEF Positions

\* A stored name, byte by byte.
LEMMA StoredBytes ==
  ASSUME SameLength, NEW n \in Names
  PROVE  /\ Padded(Stored(n)) /\ Stored(n) \in RawName
         /\ \A j \in Positions : j < NameLen => Stored(n)[j] = n[j + 1] /\ Stored(n)[j] # Nul
<1>1. /\ NameLen \in Nat /\ NameLen \in Positions /\ Len(n) = NameLen /\ n \in Seq(Chars)
      /\ Positions \subseteq Nat
  BY NameLength
<1>2. ASSUME NEW j \in Positions PROVE Stored(n)[j] = IF j < NameLen THEN n[j + 1] ELSE Nul
  BY <1>1 DEF Stored, CharAt
<1>3. ASSUME NEW j \in Positions, j < NameLen PROVE n[j + 1] \in Chars /\ n[j + 1] # Nul
  BY <1>1, <1>3, ConstantsAssumption, SMTT(60)
<1>4. ASSUME NEW j \in Positions, j >= NameLen PROVE Stored(n)[j] = Nul
  <2>1. ~(j < NameLen)
    BY <1>1, <1>4, SMTT(60)
  <2> QED BY <2>1, <1>2
<1>5. Stored(n) \in RawName
  <2>1. Stored(n) = [j \in Positions |-> Stored(n)[j]]
    BY DEF Stored
  <2>2. \A j \in Positions : Stored(n)[j] \in Chars \cup {Nul}
    BY <1>2, <1>3
  <2> QED BY <2>1, <2>2 DEF RawName
<1> QED BY <1>2, <1>3, <1>4, <1>5 DEF Padded

\* Copying over a padded array stores the name.
LEMMA CopyStores ==
  ASSUME SameLength, NEW n \in Names, NEW raw, Padded(raw)
  PROVE  CopyName(n, raw) = Stored(n)
<1>1. /\ NameLen \in 1..(MaxFilename - 1) /\ Len(n) = NameLen /\ Positions \subseteq Nat
      /\ MaxFilename \in Nat
  BY NameLength, ConstantsAssumption
<1>2. ASSUME NEW j \in Positions
      PROVE  (IF j = MaxFilename - 1 THEN Nul ELSE IF j < Len(n) THEN n[j + 1] ELSE raw[j])
               = CharAt(n, j)
  <2>1. CASE j < NameLen
    <3>1. j # MaxFilename - 1
      BY <1>1, <2>1, SMTT(60)
    <3> QED BY <3>1, <2>1, <1>1 DEF CharAt
  <2>2. CASE ~(j < NameLen)
    <3>1. raw[j] = Nul
      BY <1>1, <2>2, SMTT(60) DEF Padded
    <3> QED BY <3>1, <2>2, <1>1 DEF CharAt
  <2> QED BY <2>1, <2>2
<1> QED BY <1>2 DEF CopyName, Stored

\* Two stored names that read the same are the same name.
LEMMA StoredApart ==
  ASSUME SameLength, NEW n \in Names, NEW m \in Names,
         \A j \in Positions : j < NameLen => Stored(n)[j] = Stored(m)[j]
  PROVE  n = m
<1>1. /\ NameLen \in 1..(MaxFilename - 1) /\ Len(n) = NameLen /\ Len(m) = NameLen
      /\ n \in Seq(Chars) /\ m \in Seq(Chars) /\ MaxFilename \in Nat
  BY NameLength, ConstantsAssumption
<1>2. ASSUME NEW i \in 1..Len(n) PROVE n[i] = m[i]
  <2>1. i - 1 \in Positions /\ i - 1 < NameLen /\ (i - 1) + 1 = i
    BY <1>1, SMTT(60) DEF Positions
  <2>2. Stored(n)[i - 1] = n[(i - 1) + 1] /\ Stored(m)[i - 1] = m[(i - 1) + 1]
    BY <2>1, StoredBytes
  <2> QED BY <2>1, <2>2
<1> QED BY <1>1, <1>2, SeqEqual

\* find_file's comparison is equality of names.
LEMMA MatchesStored ==
  ASSUME SameLength, NEW n \in Names, NEW m \in Names
  PROVE  Matches(n, Stored(m)) <=> n = m
<1>0. /\ NameLen \in Nat /\ Positions \subseteq Nat /\ Positions = 0..(MaxFilename - 1)
      /\ MaxFilename \in Nat
  BY NameLength, ConstantsAssumption DEF Positions
<1>1. ASSUME n = m PROVE Matches(n, Stored(m))
  BY <1>1 DEF Matches, Stored
<1>2. ASSUME Matches(n, Stored(m)) PROVE n = m
  <2>1. ASSUME NEW j \in Positions, j < NameLen PROVE Stored(n)[j] = Stored(m)[j]
    <3>1. \A k \in 0..(j - 1) : k \in Positions /\ k < NameLen
      BY <1>0, <2>1, SMTT(60)
    <3>2. \A k \in 0..(j - 1) : Stored(m)[k] # Nul
      BY <3>1, StoredBytes
    <3>3. CharAt(n, j) = Stored(m)[j]
      BY <1>2, <3>2 DEF Matches
    <3> QED BY <3>3 DEF Stored
  <2> QED BY <2>1, StoredApart
<1> QED BY <1>1, <1>2

\* A stored name reads as the name.
LEMMA StringOfStored ==
  ASSUME SameLength, NEW n \in Names
  PROVE  StringOf(Stored(n)) = n
<1> DEFINE raw == Stored(n)
           str == StringOf(raw)
<1>1. /\ NameLen \in Nat /\ NameLen \in Positions /\ NameLen \in 1..(MaxFilename - 1)
      /\ Len(n) = NameLen /\ n \in Seq(Chars) /\ MaxFilename \in Nat
      /\ MaxFilename - 1 \in Positions /\ MaxFilename - 1 >= NameLen
  <2>1. /\ NameLen \in Nat /\ NameLen \in Positions /\ NameLen \in 1..(MaxFilename - 1)
        /\ Len(n) = NameLen /\ n \in Seq(Chars)
    BY NameLength
  <2> QED BY <2>1, ConstantsAssumption, SMTT(60) DEF Positions
<1>2. /\ raw \in RawName /\ Padded(raw)
      /\ \A j \in Positions : j < NameLen => raw[j] = n[j + 1] /\ raw[j] # Nul
  BY StoredBytes
<1>3. raw[MaxFilename - 1] = Nul /\ raw[NameLen] = Nul
  BY <1>1, <1>2, SMTT(60) DEF Padded
<1> HIDE DEF raw
<1>4. /\ str \in Seq(Chars) /\ Len(str) \in Positions /\ raw[Len(str)] = Nul
      /\ \A j \in 1..Len(str) : str[j] = raw[j - 1] /\ raw[j - 1] # Nul
  BY <1>2, <1>3, StringOfType DEF Strings
<1>5. PICK l \in Positions : l = Len(str)
  BY <1>4
<1>6. l = NameLen
  <2>1. ~(l < NameLen)
    BY <1>2, <1>4, <1>5
  <2>2. ~(l > NameLen)
    <3> SUFFICES ASSUME l > NameLen PROVE FALSE
      OBVIOUS
    <3>1. NameLen + 1 \in 1..l /\ (NameLen + 1) - 1 = NameLen
      BY <1>1, SMTT(60) DEF Positions
    <3> QED BY <3>1, <1>3, <1>4, <1>5
  <2> QED BY <2>1, <2>2, <1>1, SMTT(60) DEF Positions
<1>7. ASSUME NEW j \in 1..Len(str) PROVE str[j] = n[j]
  <2>1. j - 1 \in Positions /\ j - 1 < NameLen /\ (j - 1) + 1 = j
    BY <1>1, <1>5, <1>6, SMTT(60) DEF Positions
  <2> QED BY <2>1, <1>2, <1>4
<1>8. str = n
  <2> HIDE DEF str
  <2> QED BY <1>1, <1>4, <1>5, <1>6, <1>7, SeqEqual
<1> QED BY <1>8 DEF raw

\* An entry of a tidy directory reads as one of Names.
LEMMA EntryName ==
  ASSUME SameLength, NEW t, Tidy(t), NEW s \in Slots, t[s].used, t[s].parent \in Slots
  PROVE  \E n \in Names : t[s].name = Stored(n) /\ StringOf(t[s].name) = n
<1>1. NoSlot \notin Slots
  BY ConstantsAssumption, SMTT(60) DEF NoSlot, Slots
<1>2. PICK n \in Names : t[s].name = Stored(n)
  BY <1>1 DEF Tidy
<1> QED BY <1>2, StringOfStored

\* In a tidy table find_file finds the entry with the name, and no other.
LEMMA FindNamed ==
  ASSUME SameLength, NEW t, Tidy(t), NEW n \in Names, NEW dir \in Slots
  PROVE  /\ \A s \in Slots : t[s].used /\ t[s].parent = dir /\ t[s].name = Stored(n)
                             => find_file(t, n, dir) = s
         /\ find_file(t, n, dir) # NoSlot => t[find_file(t, n, dir)].name = Stored(n)
<1> DEFINE H == Hits(t, n, dir)
           Here(s) == t[s].used /\ t[s].parent = dir /\ t[s].name = Stored(n)
<1>1. \A s \in Slots : s \in H <=> Here(s)
  <2> TAKE s \in Slots
  <2>1. ASSUME t[s].used, t[s].parent = dir
        PROVE  Matches(n, t[s].name) <=> t[s].name = Stored(n)
    <3>1. PICK m \in Names : t[s].name = Stored(m)
      BY <2>1, EntryName
    <3>2. Matches(n, t[s].name) <=> n = m
      BY <3>1, MatchesStored
    <3>3. Stored(m) = Stored(n) => Matches(n, t[s].name)
      BY <3>1, MatchesStored
    <3> QED BY <3>1, <3>2, <3>3
  <2> QED BY <2>1 DEF Hits
<1>2. H \in SUBSET Slots /\ H \in SUBSET Nat
  BY SMTT(60) DEF Hits, Slots
<1>3. H # {} => find_file(t, n, dir) \in H
  <2> SUFFICES ASSUME H # {} PROVE find_file(t, n, dir) \in H
    OBVIOUS
  <2>1. find_file(t, n, dir) = Min(H)
    BY DEF find_file
  <2> HIDE DEF H
  <2> QED BY <1>2, <2>1, MinOfNats
<1>4. H = {} => find_file(t, n, dir) = NoSlot
  BY DEF find_file
<1> HIDE DEF H
<1>5. ASSUME NEW s \in Slots, Here(s) PROVE find_file(t, n, dir) = s
  <2>1. s \in H
    BY <1>1, <1>5
  <2>2. find_file(t, n, dir) \in H
    BY <1>3, <2>1
  <2>3. PICK i \in Slots : i = find_file(t, n, dir) /\ Here(i)
    BY <1>1, <1>2, <2>2
  <2>4. i = s
    BY <1>5, <2>3 DEF Tidy
  <2> QED BY <2>3, <2>4
<1>6. ASSUME find_file(t, n, dir) # NoSlot PROVE t[find_file(t, n, dir)].name = Stored(n)
  <2>1. find_file(t, n, dir) \in H
    BY <1>3, <1>4, <1>6
  <2> QED BY <1>1, <1>2, <2>1
<1> QED BY <1>5, <1>6

\* The rows of a tidy directory are Names.
LEMMA ListingNames ==
  ASSUME SameLength, NEW t \in [Slots -> GoodFile], Tidy(t), NEW dir \in Slots
  PROVE  \A k \in 1..Len(Listing(t, dir)) : Listing(t, dir)[k].name \in Names
<1>1. PICK f : Rounds(t, dir, f) /\ Listing(t, dir) = f[MaxFiles]
  BY ListingRounds
<1>2. ASSUME NEW k \in 1..Len(Listing(t, dir)) PROVE Listing(t, dir)[k].name \in Names
  <2>0. /\ k \in 1..Len(f[MaxFiles])
        /\ \A i \in 1..Len(f[MaxFiles]) :
             \E x \in Slots : t[x].used /\ t[x].parent = dir /\ f[MaxFiles][i] = RowOf(t[x])
    BY <1>1, RowsFromSlots, SMTT(60)
  <2>1. PICK x \in Slots : t[x].used /\ t[x].parent = dir /\ f[MaxFiles][k] = RowOf(t[x])
    BY <2>0
  <2>2. StringOf(t[x].name) \in Names
    BY <2>1, EntryName
  <2>3. RowOf(t[x]).name = StringOf(t[x].name)
    BY DEF RowOf
  <2> QED BY <1>1, <2>1, <2>2, <2>3
<1> QED BY <1>2

\* Contents and sizes do not matter to the names.
LEMMA SameEntries ==
  ASSUME NEW t, NEW u,
         \A s \in Slots : /\ u[s].name = t[s].name /\ u[s].used = t[s].used
                          /\ u[s].parent = t[s].parent
  PROVE  /\ Tidy(t) => Tidy(u)
         /\ \A n, dir : find_file(u, n, dir) = find_file(t, n, dir)
<1>1. ASSUME Tidy(t) PROVE Tidy(u)
  <2>1. \A s \in Slots :
          /\ Padded(u[s].name)
          /\ u[s].used => \/ u[s].parent \in Slots /\ \E n \in Names : u[s].name = Stored(n)
                          \/ s = Root /\ u[s].parent = NoSlot
    BY <1>1 DEF Tidy
  <2>2. \A i, j \in Slots : /\ u[i].used /\ u[j].used /\ u[i].parent = u[j].parent
                            /\ u[i].parent \in Slots /\ u[i].name = u[j].name
                            => i = j
    BY <1>1 DEF Tidy
  <2> QED BY <2>1, <2>2 DEF Tidy
<1>2. ASSUME NEW n, NEW dir PROVE Hits(u, n, dir) = Hits(t, n, dir)
  BY DEF Hits
<1> QED BY <1>1, <1>2 DEF find_file

\* What was found is still found while entries only join the table.
LEMMA StillFound ==
  ASSUME NEW t, NEW u, NEW n, NEW dir, find_file(t, n, dir) # NoSlot,
         \A s \in Slots : t[s].used => u[s] = t[s]
  PROVE  find_file(u, n, dir) # NoSlot
<1>1. PICK s \in Slots : s \in Hits(t, n, dir)
  BY DEF find_file, Hits
<1>2. Hits(u, n, dir) # {} /\ Hits(u, n, dir) \in SUBSET Nat /\ Hits(u, n, dir) \in SUBSET Slots
  <2>1. s \in Hits(u, n, dir)
    BY <1>1 DEF Hits
  <2>2. Hits(u, n, dir) \subseteq Slots /\ Slots \subseteq Nat
    BY ConstantsAssumption, SMTT(60) DEF Hits, Slots
  <2> QED BY <2>1, <2>2
<1>3. Min(Hits(u, n, dir)) \in Hits(u, n, dir)
  BY <1>2, MinOfNats
<1>4. NoSlot \notin Slots
  BY ConstantsAssumption, SMTT(60) DEF NoSlot, Slots
<1> QED BY <1>2, <1>3, <1>4 DEF find_file

\* Without an entry of the name there is nothing to find.
LEMMA NotFound ==
  ASSUME NEW t, NEW n, NEW dir, find_file(t, n, dir) = NoSlot
  PROVE  Hits(t, n, dir) = {}
<1> SUFFICES ASSUME Hits(t, n, dir) # {} PROVE FALSE
  OBVIOUS
<1> DEFINE H == Hits(t, n, dir)
<1>1. H # {} /\ H \in SUBSET Nat
  BY ConstantsAssumption, SMTT(60) DEF Hits, Slots
<1>2. find_file(t, n, dir) = Min(H)
  BY DEF find_file
<1>3. NoSlot \notin Nat
  BY SMTT(60) DEF NoSlot
<1> HIDE DEF H
<1> QED BY <1>1, <1>2, <1>3, MinOfNats

\* diskfs_create and diskfs_mkdir of a name that is not there keep the table
\* tidy, and then it is found.
LEMMA EntryTidy ==
  ASSUME SameLength, FsTypes, Tidy(files), NEW n \in Names, NEW isDir,
         find_file(files, n, current_dir) = NoSlot, find_free(files) # NoSlot, NEW u,
         u = Entry(files, find_free(files), n, isDir)
  PROVE  /\ Tidy(u) /\ find_free(files) \in Slots
         /\ find_file(u, n, current_dir) = find_free(files)
         /\ u[find_free(files)].is_dir = isDir /\ u[find_free(files)].size = 0
         /\ \A s \in Slots : files[s].used => u[s] = files[s]
<1>1. PICK x \in Slots : x = find_free(files) /\ ~files[x].used
  BY FindFree
<1>2. files \in [Slots -> GoodFile] /\ current_dir \in Slots /\ current_dir # NoSlot
  BY ConstantsAssumption, SMTT(60) DEF FsTypes, NoSlot, Slots
<1>3. Padded(files[x].name)
  BY DEF Tidy
<1>4. u = [files EXCEPT ![x] = [name |-> Stored(n), bytes |-> files[x].bytes, size |-> 0,
                                used |-> TRUE, is_dir |-> isDir, parent |-> current_dir]]
  BY <1>1, <1>3, CopyStores DEF Entry
<1>5. /\ u[x].name = Stored(n) /\ u[x].used /\ u[x].parent = current_dir
      /\ u[x].is_dir = isDir /\ u[x].size = 0
      /\ \A s \in Slots \ {x} : u[s] = files[s]
  BY <1>2, <1>4, SMTT(60)
<1>6. Padded(Stored(n))
  BY StoredBytes
<1>7. ASSUME NEW s \in Slots
      PROVE  /\ Padded(u[s].name)
             /\ u[s].used => \/ u[s].parent \in Slots /\ \E m \in Names : u[s].name = Stored(m)
                             \/ s = Root /\ u[s].parent = NoSlot
  <2>1. CASE s = x
    BY <2>1, <1>2, <1>5, <1>6
  <2>2. CASE s # x
    <3>1. u[s] = files[s]
      BY <2>2, <1>5
    <3> QED BY <3>1 DEF Tidy
  <2> QED BY <2>1, <2>2
<1>8. ASSUME NEW s \in Slots \ {x}, u[s].used, u[s].parent = current_dir
      PROVE  u[s].name # Stored(n)
  <2>1. files[s].used /\ files[s].parent = current_dir /\ u[s].name = files[s].name /\ s \in Slots
    BY <1>5, <1>8
  <2>2. s # NoSlot
    BY <2>1, ConstantsAssumption, SMTT(60) DEF NoSlot, Slots
  <2>3. files[s].name = Stored(n) => find_file(files, n, current_dir) = s
    BY <2>1, <1>2, FindNamed
  <2> QED BY <2>1, <2>2, <2>3
<1>9. ASSUME NEW i \in Slots, NEW j \in Slots, u[i].used, u[j].used, u[i].parent = u[j].parent,
             u[i].parent \in Slots, u[i].name = u[j].name
      PROVE  i = j
  <2>1. CASE i # x /\ j # x
    <3>1. u[i] = files[i] /\ u[j] = files[j]
      BY <2>1, <1>5
    <3> QED BY <3>1, <1>9 DEF Tidy
  <2>2. CASE i = x /\ j # x
    BY <2>2, <1>5, <1>8, <1>9
  <2>3. CASE i # x /\ j = x
    BY <2>3, <1>5, <1>8, <1>9
  <2> QED BY <2>1, <2>2, <2>3
<1>10. Tidy(u)
  BY <1>7, <1>9 DEF Tidy
<1>11. find_file(u, n, current_dir) = x
  <2>1. \A s \in Slots : u[s].used /\ u[s].parent = current_dir /\ u[s].name = Stored(n)
                         => find_file(u, n, current_dir) = s
    BY <1>2, <1>10, FindNamed
  <2> QED BY <1>5, <2>1
<1>12. \A s \in Slots : files[s].used => u[s] = files[s]
  BY <1>1, <1>5
<1> QED BY <1>1, <1>5, <1>10, <1>11, <1>12

\* diskfs_delete keeps the table tidy and frees the name and the slot.
LEMMA DeleteTidy ==
  ASSUME SameLength, FsTypes, Tidy(files), NEW n, NEW x \in Slots,
         x = find_file(files, n, current_dir), NEW u,
         u = [files EXCEPT ![x].used = FALSE]
  PROVE  /\ Tidy(u) /\ find_free(u) # NoSlot
         /\ ~u[x].used /\ \A s \in Slots \ {x} : u[s] = files[s]
         /\ \A m \in Names : find_file(files, m, current_dir) \in {x, NoSlot}
                             => find_file(u, m, current_dir) = NoSlot
<1>1. files \in [Slots -> GoodFile] /\ current_dir \in Slots
  BY DEF FsTypes
<1>2. files[x] \in File
  BY <1>1 DEF GoodFile
<1>3. /\ u[x].name = files[x].name /\ ~u[x].used /\ u[x].parent = files[x].parent
      /\ \A s \in Slots \ {x} : u[s] = files[s]
  BY <1>1, <1>2 DEF File
<1>4. Tidy(u)
  <2>1. \A s \in Slots : /\ u[s].name = files[s].name /\ u[s].parent = files[s].parent
                         /\ u[s].used => files[s].used
    BY <1>3
  <2>2. \A s \in Slots :
          /\ Padded(u[s].name)
          /\ u[s].used => \/ u[s].parent \in Slots /\ \E m \in Names : u[s].name = Stored(m)
                          \/ s = Root /\ u[s].parent = NoSlot
    <3> TAKE s \in Slots
    <3>1. u[s].name = files[s].name /\ u[s].parent = files[s].parent /\ (u[s].used => files[s].used)
      BY <2>1
    <3>2. /\ Padded(files[s].name)
          /\ files[s].used =>
               \/ files[s].parent \in Slots /\ \E m \in Names : files[s].name = Stored(m)
               \/ s = Root /\ files[s].parent = NoSlot
      BY DEF Tidy
    <3> QED BY <3>1, <3>2
  <2>3. \A i, j \in Slots : /\ u[i].used /\ u[j].used /\ u[i].parent = u[j].parent
                            /\ u[i].parent \in Slots /\ u[i].name = u[j].name
                            => i = j
    <3>1. \A i, j \in Slots :
            /\ files[i].used /\ files[j].used /\ files[i].parent = files[j].parent
            /\ files[i].parent \in Slots /\ files[i].name = files[j].name
            => i = j
      BY DEF Tidy
    <3> QED BY <2>1, <3>1, SMTT(60)
  <2> QED BY <2>2, <2>3 DEF Tidy
<1>5. find_free(u) # NoSlot
  <2>1. x \in FreeSlots(u)
    BY <1>3 DEF FreeSlots
  <2>2. FreeSlots(u) # {} /\ FreeSlots(u) \in SUBSET Nat
    BY <2>1, ConstantsAssumption, SMTT(60) DEF FreeSlots, Slots
  <2>3. Min(FreeSlots(u)) \in FreeSlots(u)
    BY <2>2, MinOfNats
  <2>4. NoSlot \notin Nat
    BY SMTT(60) DEF NoSlot
  <2> QED BY <2>2, <2>3, <2>4 DEF find_free
<1>6. ASSUME NEW m \in Names, find_file(files, m, current_dir) \in {x, NoSlot}
      PROVE  find_file(u, m, current_dir) = NoSlot
  <2>1. ASSUME NEW s \in Slots, s \in Hits(u, m, current_dir) PROVE FALSE
    <3>1. u[s].used /\ u[s].parent = current_dir /\ s # x /\ u[s] = files[s]
          /\ Matches(m, files[s].name)
      BY <2>1, <1>3 DEF Hits
    <3>2. s \in Hits(files, m, current_dir)
      BY <3>1 DEF Hits
    <3>3. find_file(files, m, current_dir) = x
      BY <1>6, <3>2, NotFound
    <3>4. PICK k \in Names : files[s].name = Stored(k)
      BY <1>1, <3>1, EntryName
    <3>5. k = m
      BY <3>1, <3>4, MatchesStored
    <3>6. find_file(files, m, current_dir) = s
      <4>1. \A i \in Slots :
              files[i].used /\ files[i].parent = current_dir /\ files[i].name = Stored(m)
              => find_file(files, m, current_dir) = i
        BY <1>1, FindNamed
      <4>2. files[s].used /\ files[s].parent = current_dir /\ files[s].name = Stored(m)
        BY <3>1, <3>4, <3>5
      <4> QED BY <4>1, <4>2
    <3> QED BY <3>1, <3>3, <3>6
  <2>2. Hits(u, m, current_dir) = {}
    BY <2>1 DEF Hits
  <2> QED BY <2>2 DEF find_file
<1> QED BY <1>3, <1>4, <1>5, <1>6

\* The calls with names of the one length.
NamedCalls ==
  \/ \E n \in Names : Create(n) \/ Mkdir(n) \/ Delete(n) \/ CdInto(n)
  \/ \E n \in Names, d \in Data : Write(n, d)
  \/ CdUp \/ UNCHANGED vars

\* The rest of a diskfs_write that found its file.
LEMMA WriteAtNamed ==
  ASSUME FsTypes, MadeIsThere, NEW n, NEW d \in Data,
         find_file(files, n, current_dir) # NoSlot,
         WriteAt(find_file(files, n, current_dir), n, d)
  PROVE  /\ Tidy(files') /\ ~stray'
         /\ \A m, dir : find_file(files', m, dir) = find_file(files, m, dir)
         /\ last'.op \in Makes /\ last'.ret = 0 => find_file(files', last'.name, last'.dir) # NoSlot
<1>1. find_file(files, n, current_dir) \in Slots
  BY FindFile
<1>2. \A s \in Slots : /\ files'[s].name = files[s].name /\ files'[s].used = files[s].used
                       /\ files'[s].parent = files[s].parent
  BY <1>1, WriteAtGood
<1>3. /\ Tidy(files) => Tidy(files')
      /\ \A m, dir : find_file(files', m, dir) = find_file(files, m, dir)
  BY <1>2, SameEntries
<1>4. ~stray'
  BY DEF WriteAt, MadeIsThere
<1>5. \/ last' = [op |-> "write", name |-> n, dir |-> current_dir, ret |-> -1]
      \/ last' = [op |-> "write", name |-> n, dir |-> current_dir, ret |-> 0]
  BY DEF WriteAt, Refuse, Return
<1>6. last'.ret # -1 => last'.name = n /\ last'.dir = current_dir
  BY <1>5, SMTT(60)
<1>7. last'.ret = 0 => last'.ret # -1
  BY SMTT(60)
<1>8. last'.ret = 0 => find_file(files', last'.name, last'.dir) # NoSlot
  BY <1>3, <1>6, <1>7
<1> QED BY <1>3, <1>4, <1>8 DEF MadeIsThere

\* A call that returned -1 left the table as it was.
LEMMA RefusedNamed ==
  ASSUME MadeIsThere, NEW op, NEW n, Refuse(op, n),
         UNCHANGED <<current_dir, pending, stray>>
  PROVE  MadeIsThere'
<1>1. last'.ret # 0 /\ files' = files
  BY SMTT(60) DEF Refuse, Return
<1> QED BY <1>1 DEF MadeIsThere

\* Every call keeps what was made under a name.
LEMMA CallsNamed ==
  ASSUME SameLength, FsTypes, MadeIsThere, NamedCalls
  PROVE  MadeIsThere'
<1>1. ASSUME NEW n \in Names, NEW op \in {"create", "mkdir"}, NEW isDir, MakeEntry(op, n, isDir)
      PROVE  MadeIsThere'
  <2> DEFINE x == find_free(files)
  <2>1. UNCHANGED <<current_dir, pending, stray>> /\ pending = NoWrite
    BY <1>1 DEF MakeEntry, Ready
  <2>2. CASE find_file(files, n, current_dir) # NoSlot \/ x = NoSlot
    <3>1. Refuse(op, n)
      BY <1>1, <2>2 DEF MakeEntry
    <3> QED BY <2>1, <3>1, RefusedNamed
  <2>3. CASE find_file(files, n, current_dir) = NoSlot /\ x # NoSlot
    <3>1. files' = Entry(files, x, n, isDir) /\ Return(op, n, 0)
      BY <1>1, <2>3 DEF MakeEntry
    <3>2. Tidy(files') /\ find_file(files', n, current_dir) = x
      BY <2>3, <3>1, EntryTidy DEF MadeIsThere
    <3>3. last'.name = n /\ last'.dir = current_dir
      BY <3>1 DEF Return
    <3> HIDE DEF x
    <3> QED BY <2>1, <2>3, <3>2, <3>3 DEF MadeIsThere
  <2> QED BY <2>2, <2>3
<1>2. ASSUME NEW n \in Names, Delete(n) PROVE MadeIsThere'
  <2> DEFINE x == find_file(files, n, current_dir)
  <2>1. UNCHANGED <<current_dir, pending, stray>> /\ pending = NoWrite
    BY <1>2 DEF Delete, Ready
  <2>2. CASE x = NoSlot
    <3>1. Refuse("delete", n)
      BY <1>2, <2>2 DEF Delete
    <3> QED BY <2>1, <3>1, RefusedNamed
  <2>3. CASE x # NoSlot
    <3>1. files' = [files EXCEPT ![x].used = FALSE] /\ Return("delete", n, 0) /\ x \in Slots
      BY <1>2, <2>3, FindFile DEF Delete
    <3>2. Tidy(files')
      BY <3>1, DeleteTidy DEF MadeIsThere
    <3>3. last'.op \notin Makes
      BY <3>1 DEF Return, Makes
    <3> HIDE DEF x
    <3> QED BY <2>1, <3>2, <3>3 DEF MadeIsThere
  <2> QED BY <2>2, <2>3
<1>3. ASSUME NEW n, CdInto(n) \/ CdUp PROVE MadeIsThere'
  <2>1. UNCHANGED <<files, pending, stray, last>> /\ pending = NoWrite
    BY <1>3 DEF CdInto, CdUp, Ready, history
  <2> QED BY <2>1 DEF MadeIsThere
<1>4. ASSUME NEW n \in Names, NEW d \in Data, Write(n, d) PROVE MadeIsThere'
  <2>1. current_dir' = current_dir /\ pending = NoWrite
    BY <1>4 DEF Write, Ready
  <2>2. CASE find_file(files, n, current_dir) # NoSlot
    <3>1. WriteAt(find_file(files, n, current_dir), n, d) /\ pending' = pending
      BY <1>4, <2>2 DEF Write
    <3>2. /\ Tidy(files') /\ ~stray'
          /\ last'.op \in Makes /\ last'.ret = 0
             => find_file(files', last'.name, last'.dir) # NoSlot
      BY <2>2, <3>1, WriteAtNamed
    <3> QED BY <2>1, <3>1, <3>2 DEF MadeIsThere
  <2>3. CASE find_file(files, n, current_dir) = NoSlot /\ find_free(files) = NoSlot
    <3>1. Refuse("write", n) /\ UNCHANGED <<pending, stray>>
      BY <1>4, <2>3 DEF Write
    <3> QED BY <2>1, <3>1, RefusedNamed
  <2>4. CASE find_file(files, n, current_dir) = NoSlot /\ find_free(files) # NoSlot
    <3> DEFINE isDir == FALSE
    <3>1. UNCHANGED <<stray, last>> /\ pending' = [name |-> n, data |-> d]
      BY <1>4, <2>4 DEF Write
    <3>5. files' = Entry(files, find_free(files), n, isDir)
      BY <1>4, <2>4 DEF Write
    <3> HIDE DEF isDir
    <3>0. Tidy(files)
      BY DEF MadeIsThere
    <3>2. Tidy(files') /\ find_file(files', n, current_dir) = find_free(files)
      BY <2>4, <3>0, <3>5, EntryTidy
    <3>6. \A s \in Slots : files[s].used => files'[s] = files[s]
      <4>1. PICK u : u = files'
        OBVIOUS
      <4>2. \A s \in Slots : files[s].used => u[s] = files[s]
        BY <2>4, <3>0, <3>5, <4>1, EntryTidy, SMTT(60)
      <4> QED BY <4>1, <4>2
    <3>3. last.op \in Makes /\ last.ret = 0 => find_file(files', last.name, last.dir) # NoSlot
      BY <3>6, StillFound DEF MadeIsThere
    <3>4. pending'.name = n
      BY <3>1
    <3> QED BY <2>1, <2>4, <3>1, <3>2, <3>3, <3>4 DEF MadeIsThere
  <2> QED BY <2>2, <2>3, <2>4
<1>5. CASE UNCHANGED vars
  BY <1>5 DEF vars, MadeIsThere
<1> QED BY <1>1, <1>2, <1>3, <1>4, <1>5 DEF NamedCalls, Create, Mkdir

\* So does the rest of a write.
LEMMA ResumeNamed ==
  ASSUME FsTypes, MadeIsThere, ResumeWrite
  PROVE  MadeIsThere'
<1>1. pending.data \in Data
  BY DEF FsTypes, ResumeWrite
<1>2. /\ find_file(files, pending.name, current_dir) # NoSlot /\ pending' = NoWrite
      /\ WriteAt(find_file(files, pending.name, current_dir), pending.name, pending.data)
  BY DEF ResumeWrite, MadeIsThere
<1>3. /\ Tidy(files') /\ ~stray'
      /\ last'.op \in Makes /\ last'.ret = 0 => find_file(files', last'.name, last'.dir) # NoSlot
  BY <1>1, <1>2, WriteAtNamed
<1> QED BY <1>2, <1>3 DEF MadeIsThere

\* A refresh puts Names in front of Names.
LEMMA RefreshedNames ==
  ASSUME SameLength, FmTypes, NEW t \in [Slots -> GoodFile], Tidy(t), NEW dir \in Slots,
         \A k \in 1..Len(entries) : entries[k].name \in Names, refresh_entries(t, dir)
  PROVE  \A k \in 1..Len(entries') : entries'[k].name \in Names
<1> DEFINE l == Listing(t, dir)
<1>1. l \in Seq(Row) /\ entries \in Seq(Row)
  BY ListingType DEF FmTypes
<1>2. entries' = l \o SubSeq(entries, Len(l) + 1, Len(entries))
  BY DEF refresh_entries
<1>3. \A k \in 1..Len(l) : l[k].name \in Names
  BY ListingNames
<1> HIDE DEF l
<1>4. \A k \in 1..Len(entries') : \/ \E i \in 1..Len(l) : entries'[k] = l[i]
                                  \/ \E i \in 1..Len(entries) : entries'[k] = entries[i]
  <2>1. From(entries', l, entries)
    BY <1>1, <1>2, RefreshFacts
  <2> QED BY <2>1 DEF From
<1> QED BY <1>3, <1>4

\* A call followed by a refresh.
LEMMA RefreshNamed ==
  ASSUME SameLength, FmInv, NamesKept, NamedCalls, FsTypes',
         refresh_entries(files', current_dir'), UNCHANGED prompt
  PROVE  NamesKept'
<1>1. MadeIsThere'
  BY CallsNamed DEF NamesKept, FmInv, FmTypes
<1>2. Tidy(files') /\ files' \in [Slots -> GoodFile] /\ current_dir' \in Slots
  BY <1>1 DEF MadeIsThere, FsTypes
<1>3. \A k \in 1..Len(entries) : entries[k].name \in Names
  BY DEF NamesKept
<1>4. \A k \in 1..Len(entries') : entries'[k].name \in Names
  BY <1>2, <1>3, RefreshedNames DEF FmInv
<1> QED BY <1>1, <1>4 DEF NamesKept, prompt

\* A call or none, with the list as it was.
LEMMA CallNamed ==
  ASSUME SameLength, FmInv, NamesKept, NamedCalls, entries' = entries,
         input_buf' \in Names \cup {<<>>}
  PROVE  NamesKept'
<1>1. MadeIsThere'
  BY CallsNamed DEF NamesKept, FmInv, FmTypes
<1> QED BY <1>1 DEF NamesKept

\* Keys and commands use only Names.
LEMMA NamesStep ==
  ASSUME SameLength, FmInv, NamesKept, RenameKept, FmNext
  PROVE  NamesKept'
<1>0. /\ input_buf \in Names \cup {<<>>} /\ FsTypes' /\ (entry_count > 0 => entries # <<>>)
      /\ (input_mode = 3 => entries # <<>>)
  <2>1. FsTypes'
    BY FmStep DEF FmInv, FmTypes
  <2>2. entry_count > 0 => entries # <<>>
    BY SMTT(60) DEF FmInv, FmTypes
  <2> QED BY <2>1, <2>2 DEF NamesKept, FmInv, FmTypes
<1>c. ASSUME entries # <<>> PROVE Chosen.name \in Names
  BY <1>c, ChosenType DEF NamesKept, Chosen
<1>1. CASE Open
  <2>1. NamedCalls /\ refresh_entries(files', current_dir') /\ UNCHANGED prompt
    BY <1>1 DEF Open, NamedCalls, vars
  <2> QED BY <1>0, <2>1, RefreshNamed
<1>2. CASE Terminal
  <2>1. NamedCalls /\ entries' = entries /\ input_buf' = input_buf
    BY <1>2 DEF Terminal, Command, NamedCalls, prompt
  <2> QED BY <1>0, <2>1, CallNamed
<1>3. CASE KeyUp \/ KeyDown
  <2>1. NamedCalls /\ entries' = entries /\ input_buf' = input_buf
    BY <1>3 DEF KeyUp, KeyDown, NamedCalls, prompt
  <2> QED BY <1>0, <2>1, CallNamed
<1>4. CASE EnterDir
  <2>1. NamedCalls
    BY <1>0, <1>4, <1>c DEF EnterDir, fs_cd, NamedCalls
  <2>2. refresh_entries(files', current_dir') /\ UNCHANGED prompt
    BY <1>4 DEF EnterDir
  <2> QED BY <1>0, <2>1, <2>2, RefreshNamed
<1>5. CASE GoUp
  <2>1. NamedCalls
    BY <1>5 DEF GoUp, Upwards, NamedCalls
  <2>2. refresh_entries(files', current_dir') /\ UNCHANGED prompt
    BY <1>5 DEF GoUp
  <2> QED BY <1>0, <2>1, <2>2, RefreshNamed
<1>6. CASE DeleteKey
  <2>1. NamedCalls /\ entries' = entries /\ input_buf' = input_buf
    BY <1>0, <1>6, <1>c DEF DeleteKey, NamedCalls, prompt, list
  <2> QED BY <1>0, <2>1, CallNamed
<1>7. ASSUME NEW mode \in {1, 2}, NewPrompt(mode) PROVE NamesKept'
  <2>1. NamedCalls /\ entries' = entries /\ input_buf' = <<>>
    BY <1>7 DEF NewPrompt, NamedCalls, list
  <2> QED BY <1>0, <2>1, CallNamed
<1>8. CASE RenamePrompt
  <2>1. NamedCalls /\ entries' = entries /\ input_buf' \in Names
    BY <1>0, <1>8, <1>c DEF RenamePrompt, NamedCalls, list
  <2> QED BY <1>0, <2>1, CallNamed
<1>9. ASSUME NEW n \in Names \cup {<<>>}, Type(n) PROVE NamesKept'
  <2>1. NamedCalls /\ entries' = entries /\ input_buf' = n
    BY <1>9 DEF Type, NamedCalls, list
  <2> QED BY <1>0, <2>1, CallNamed
<1>10. CASE EnterNew
  <2>1. NamedCalls
    BY <1>0, <1>10 DEF EnterNew, NamedCalls
  <2>2. entries' = entries /\ input_buf' = <<>>
    BY <1>10 DEF EnterNew, ClosePrompt, list
  <2> QED BY <1>0, <2>1, <2>2, CallNamed
<1>11. CASE EnterRename
  <2>1. NamedCalls
    BY <1>0, <1>11, <1>c DEF EnterRename, NamedCalls
  <2>2. entries' = entries /\ input_buf' = <<>>
    BY <1>11 DEF EnterRename, ClosePrompt, list
  <2> QED BY <1>0, <2>1, <2>2, CallNamed
<1>12. CASE RenameWrite
  <2>1. job.new \in Names /\ job.data \in Data \cup {Unset}
    BY <1>12 DEF RenameWrite, RenameKept
  <2>2. NamedCalls
    BY <1>12, <2>1 DEF RenameWrite, NamedCalls
  <2>3. entries' = entries /\ input_buf' = input_buf
    BY <1>12 DEF RenameWrite, prompt, list
  <2> QED BY <1>0, <2>2, <2>3, CallNamed
<1>13. CASE Finish
  <2>1. NamedCalls /\ refresh_entries(files', current_dir') /\ UNCHANGED prompt
    BY <1>13 DEF Finish, NamedCalls, vars
  <2> QED BY <1>0, <2>1, RefreshNamed
<1>14. CASE ResumeWrite /\ UNCHANGED fmvars
  <2>1. MadeIsThere'
    BY <1>14, ResumeNamed DEF NamesKept, FmInv, FmTypes
  <2> QED BY <1>14, <2>1 DEF NamesKept, fmvars
<1> QED BY <1>1, <1>2, <1>3, <1>4, <1>5, <1>6, <1>7, <1>8, <1>9, <1>10, <1>11, <1>12,
           <1>13, <1>14 DEF FmNext, FmKey

\* Enter for a rename reads contents that fit and frees name and slot.
LEMMA EnterRenameKeeps ==
  ASSUME SameLength, FmInv, NamesKept, EnterRename
  PROVE  RenameKept'
<1> DEFINE idx == find_file(files, Chosen.name, current_dir)
<1>1. FsTypes /\ Tidy(files) /\ files \in [Slots -> GoodFile]
  BY DEF FmInv, FmTypes, FsTypes, NamesKept, MadeIsThere
<1>2. /\ job' = [new  |-> input_buf,
                 data |-> IF idx = NoSlot \/ files[idx].size = 0 THEN Unset ELSE files[idx].bytes,
                 sound |-> /\ Chosen.name = asked /\ idx # NoSlot
                           /\ find_file(files, input_buf, current_dir) \in {idx, NoSlot}]
      /\ Delete(Chosen.name) /\ stage' = "write" /\ input_buf # <<>>
  BY DEF EnterRename
<1>3. input_buf \in Names /\ pending' = NoWrite /\ current_dir' = current_dir
  BY <1>2 DEF NamesKept, Delete, Ready
<1>4. /\ job'.new = input_buf
      /\ job'.data = IF idx = NoSlot \/ files[idx].size = 0 THEN Unset ELSE files[idx].bytes
      /\ job'.sound => /\ idx # NoSlot
                       /\ find_file(files, input_buf, current_dir) \in {idx, NoSlot}
  BY <1>2
<1>5. job' # NoJob
  <2>1. "new" \in DOMAIN job' /\ "new" \notin DOMAIN NoJob
    BY <1>2 DEF NoJob
  <2> QED BY <2>1
<1>6. job'.data # Unset => job'.data \in Data /\ SizeOf[job'.data] =< MaxFileSize
  <2>1. ASSUME job'.data # Unset PROVE job'.data \in Data /\ SizeOf[job'.data] =< MaxFileSize
    <3>1. idx # NoSlot /\ files[idx].size # 0 /\ job'.data = files[idx].bytes
      BY <1>4, <2>1
    <3>2. files[idx] \in GoodFile
      BY <1>1, <3>1, FindFile
    <3> HIDE DEF idx
    <3>3. /\ files[idx].bytes \in Data /\ files[idx].size = SizeOf[files[idx].bytes]
          /\ files[idx].size =< MaxFileSize
      BY <3>1, <3>2 DEF GoodFile
    <3> QED BY <3>1, <3>3
  <2> QED BY <2>1
<1>7. ASSUME job'.sound
      PROVE  find_file(files', input_buf, current_dir) = NoSlot /\ find_free(files') # NoSlot
  <2>1. idx # NoSlot /\ find_file(files, input_buf, current_dir) \in {idx, NoSlot}
    BY <1>4, <1>7
  <2>2. idx \in Slots /\ files' = [files EXCEPT ![idx].used = FALSE]
    BY <1>2, <2>1, FindFile DEF Delete
  <2>3. PICK x \in Slots : x = find_file(files, Chosen.name, current_dir)
    BY <2>2
  <2>4. PICK u : u = files' /\ u = [files EXCEPT ![x].used = FALSE]
    BY <2>2, <2>3
  <2>5. find_file(files, input_buf, current_dir) \in {x, NoSlot}
    BY <2>1, <2>3
  <2> HIDE DEF idx
  <2>6. /\ find_free(u) # NoSlot
        /\ \A m \in Names : find_file(files, m, current_dir) \in {x, NoSlot}
                            => find_file(u, m, current_dir) = NoSlot
    BY <1>1, <2>3, <2>4, DeleteTidy
  <2> QED BY <1>3, <2>4, <2>5, <2>6
<1> HIDE DEF idx
<1>8. stage' # "keys" /\ stage' # "refresh"
  BY <1>2
<1> QED BY <1>2, <1>3, <1>4, <1>5, <1>6, <1>7, <1>8 DEF RenameKept

\* The write of a rename makes the file, at once or up to its contents.
LEMMA RenameWriteKeeps ==
  ASSUME SameLength, FmInv, NamesKept, RenameKept, RenameWrite
  PROVE  RenameKept'
<1>1. FsTypes /\ Tidy(files)
  BY DEF FmInv, FmTypes, NamesKept, MadeIsThere
<1>2. stage = "write" /\ stage' = "refresh" /\ job' = job /\ job # NoJob
  BY DEF RenameWrite, RenameKept
<1>3. /\ job.new \in Names /\ job.data \in Data \cup {Unset}
      /\ job.data # Unset => SizeOf[job.data] =< MaxFileSize
      /\ job.sound => find_file(files, job.new, current_dir) = NoSlot /\ find_free(files) # NoSlot
  BY <1>2 DEF RenameKept
<1>4. stage' # "keys" /\ stage' # "write"
  BY <1>2
<1>5. ASSUME job.sound
      PROVE  LET idx == find_file(files', job.new, current_dir') IN
             /\ idx # NoSlot /\ ~files'[idx].is_dir
             /\ IF job.data = Unset THEN pending' = NoWrite /\ files'[idx].size = 0
                ELSE pending' = [name |-> job.new, data |-> job.data]
  <2> DEFINE x == find_free(files)
             isDir == FALSE
  <2>1. find_file(files, job.new, current_dir) = NoSlot /\ x # NoSlot
    BY <1>3, <1>5
  <2>2. current_dir' = current_dir
    BY DEF RenameWrite, Create, MakeEntry, Write
  <2>3. files' = Entry(files, x, job.new, isDir)
    BY <2>1 DEF RenameWrite, Create, MakeEntry, Write
  <2>4. /\ job.data # Unset => pending' = [name |-> job.new, data |-> job.data]
        /\ job.data = Unset => pending' = NoWrite
    BY <2>1 DEF RenameWrite, Write, Create, MakeEntry, Ready
  <2>5. PICK n \in Names : n = job.new
    BY <1>3
  <2>6. PICK u : u = files'
    OBVIOUS
  <2> HIDE DEF isDir
  <2>7. u = Entry(files, find_free(files), n, isDir) /\ find_file(files, n, current_dir) = NoSlot
        /\ find_free(files) # NoSlot
    BY <2>1, <2>3, <2>5, <2>6
  <2>8. /\ find_file(u, n, current_dir) = find_free(files)
        /\ u[find_free(files)].is_dir = isDir /\ u[find_free(files)].size = 0
    BY <1>1, <2>7, EntryTidy, SMTT(60)
  <2>9. u[find_free(files)].is_dir = FALSE
    BY <2>8 DEF isDir
  <2> QED BY <2>1, <2>2, <2>4, <2>5, <2>6, <2>8, <2>9
<1>6. LET idx == find_file(files', job'.new, current_dir') IN
      job'.sound =>
        /\ idx # NoSlot /\ ~files'[idx].is_dir
        /\ IF job'.data = Unset THEN pending' = NoWrite /\ files'[idx].size = 0
           ELSE pending' = [name |-> job'.new, data |-> job'.data]
  BY <1>2, <1>5
<1> QED BY <1>2, <1>3, <1>4, <1>6 DEF RenameKept

\* The contents follow.
LEMMA RenameResumeKeeps ==
  ASSUME FmInv, NamesKept, RenameKept, ResumeWrite, UNCHANGED fmvars
  PROVE  RenameKept'
<1>1. FsTypes /\ MadeIsThere /\ stage' = stage /\ job' = job /\ pending # NoWrite
      /\ pending' = NoWrite /\ current_dir' = current_dir
  BY DEF FmInv, FmTypes, NamesKept, ResumeWrite, fmvars
<1>2. stage # "write"
  BY <1>1 DEF RenameKept
<1> DEFINE n == pending.name
           d == pending.data
           x == find_file(files, n, current_dir)
<1>3. x # NoSlot /\ x \in Slots /\ WriteAt(x, n, d) /\ d \in Data /\ files \in [Slots -> GoodFile]
  <2>1. x # NoSlot /\ WriteAt(x, n, d)
    BY <1>1 DEF MadeIsThere, ResumeWrite
  <2>2. d \in Data /\ files \in [Slots -> GoodFile]
    BY <1>1 DEF FsTypes
  <2> QED BY <2>1, <2>2, FindFile
<1>4. ASSUME stage = "refresh", job # NoJob, job.sound
      PROVE  LET idx == find_file(files', job.new, current_dir) IN
             /\ idx # NoSlot /\ ~files'[idx].is_dir
             /\ IF job.data = Unset THEN files'[idx].size = 0
                ELSE files'[idx].bytes = job.data /\ files'[idx].size = SizeOf[job.data]
  <2> DEFINE i == find_file(files, job.new, current_dir)
  <2>1. /\ i # NoSlot /\ ~files[i].is_dir /\ job.data # Unset
        /\ pending = [name |-> job.new, data |-> job.data] /\ SizeOf[job.data] =< MaxFileSize
    BY <1>1, <1>4 DEF RenameKept
  <2>2. find_file(files', job.new, current_dir) = i
    BY <1>1, <1>3, WriteAtNamed
  <2>3. n = job.new /\ d = job.data
    BY <2>1
  <2>4. x = i
    BY <2>3
  <2>5. ~(SizeOf[d] > MaxFileSize)
    <3>1. SizeOf[d] \in Nat
      BY <1>3, ConstantsAssumption
    <3> QED BY <2>1, <2>3, <3>1, ConstantsAssumption, SMTT(60)
  <2>6. files' = [files EXCEPT ![x].bytes = d, ![x].size = SizeOf[d]]
    BY <1>3, <2>5 DEF WriteAt
  <2> HIDE DEF x, n, d, i
  <2>7. files[x] \in File
    BY <1>3 DEF GoodFile
  <2>8. files'[x] = [files[x] EXCEPT !.bytes = d, !.size = SizeOf[d]]
    BY <1>3, <2>6
  <2>9. files'[x].bytes = d /\ files'[x].size = SizeOf[d] /\ files'[x].is_dir = files[x].is_dir
    BY <2>7, <2>8 DEF File
  <2> QED BY <2>1, <2>2, <2>3, <2>4, <2>9
<1> QED BY <1>1, <1>2, <1>4 DEF RenameKept

\* Every step keeps what is known of a rename.
LEMMA RenameStep ==
  ASSUME SameLength, FmInv, NamesKept, RenameKept, FmNext
  PROVE  RenameKept'
<1>1. ASSUME job' = NoJob, stage' \in {"keys", "refresh"} PROVE RenameKept'
  <2>1. stage' # "write" /\ stage' \in {"keys", "write", "refresh"}
    BY <1>1
  <2> QED BY <1>1, <2>1 DEF RenameKept
<1>2. ASSUME stage = "keys", stage' \in {"keys", "refresh"}, job' = job PROVE RenameKept'
  BY <1>1, <1>2 DEF RenameKept
<1>3. CASE Open \/ Terminal \/ KeyUp \/ KeyDown \/ EnterDir \/ GoUp \/ RenamePrompt
  <2>1. stage = "keys" /\ stage' = stage /\ job' = job
    BY <1>3 DEF Open, Terminal, KeyUp, KeyDown, EnterDir, GoUp, RenamePrompt, Normal, Key, Free
  <2> QED BY <1>2, <2>1
<1>4. ASSUME NEW mode, NewPrompt(mode) \/ Type(mode) PROVE RenameKept'
  <2>1. stage = "keys" /\ stage' = stage /\ job' = job
    BY <1>4 DEF NewPrompt, Type, Normal, Key, Free
  <2> QED BY <1>2, <2>1
<1>5. CASE DeleteKey \/ EnterNew
  <2>1. stage = "keys" /\ stage' = "refresh" /\ job' = job
    BY <1>5 DEF DeleteKey, EnterNew, Normal, Key, Free
  <2> QED BY <1>2, <2>1
<1>6. CASE Finish
  BY <1>1, <1>6 DEF Finish
<1> QED BY <1>3, <1>4, <1>5, <1>6, EnterRenameKeeps, RenameWriteKeeps, RenameResumeKeeps DEF FmNext, FmKey

\* At boot the table is the root alone.
LEMMA NamesStart ==
  ASSUME SameLength, FmInit
  PROVE  NamesKept /\ RenameKept
<1>1. files = FreshTable([s \in Slots |-> BlankName]) /\ stray = FALSE /\ pending = NoWrite
      /\ last = [op |-> "boot", name |-> <<>>, dir |-> Root, ret |-> 0]
  BY DEF FmInit, Init
<1>2. NameLen \in Nat /\ NameLen >= 1 /\ Positions \subseteq Nat
  <2>1. NameLen \in 1..(MaxFilename - 1) /\ Positions \subseteq Nat
    BY NameLength
  <2> QED BY <2>1, ConstantsAssumption, SMTT(60)
<1>3. ASSUME NEW s \in Slots
      PROVE  /\ Padded(files[s].name) /\ files[s].used = (s = Root) /\ files[s].parent = NoSlot
  <2>1. files[s].name = IF s = Root THEN [BlankName EXCEPT ![0] = Slash, ![1] = Nul]
                        ELSE [BlankName EXCEPT ![0] = Nul]
    BY <1>1 DEF FreshTable
  <2>2. \A j \in Positions : j >= NameLen => j # 0
    BY <1>2, SMTT(60)
  <2>3. \A j \in Positions : j # 0 => files[s].name[j] = Nul
    BY <2>1 DEF BlankName
  <2> QED BY <1>1, <2>2, <2>3 DEF Padded, FreshTable
<1>4. NoSlot \notin Slots
  BY ConstantsAssumption, SMTT(60) DEF NoSlot, Slots
<1>5. Tidy(files)
  BY <1>3, <1>4 DEF Tidy
<1>6. last.op \notin Makes
  BY <1>1 DEF Makes
<1>7. entries = <<>> /\ input_buf = <<>> /\ stage = "keys" /\ job = NoJob
  BY DEF FmInit
<1>8. \A k \in 1..Len(entries) : entries[k].name \in Names
  BY <1>7, SMTT(60)
<1>9. NamesKept
  BY <1>1, <1>5, <1>6, <1>7, <1>8 DEF NamesKept, MadeIsThere
<1>10. RenameKept
  BY <1>7 DEF RenameKept
<1> QED BY <1>9, <1>10

\* Both hold of every behaviour.
LEMMA NamesInvariant == SameLength => (FmSpec => [](FmInv /\ NamesKept /\ RenameKept))
<1> SUFFICES ASSUME SameLength PROVE FmSpec => [](FmInv /\ NamesKept /\ RenameKept)
  OBVIOUS
<1> DEFINE I == FmInv /\ NamesKept /\ RenameKept
<1>1. FmInit => I
  BY FmStart, NamesStart
<1>2. I /\ FmNext => I'
  BY FmStep, NamesStep, RenameStep
<1>3. I /\ UNCHANGED <<vars, fmvars>> => I'
  <2> SUFFICES ASSUME I, UNCHANGED <<vars, fmvars>> PROVE I'
    OBVIOUS
  <2>1. NamedCalls /\ entries' = entries /\ input_buf' = input_buf
        /\ input_buf \in Names \cup {<<>>}
    BY DEF NamedCalls, NamesKept, fmvars
  <2>2. NamesKept'
    BY <2>1, CallNamed
  <2>3. RenameKept'
    BY DEF RenameKept, vars, fmvars
  <2>4. FmInv'
    <3>1. UNCHANGED <<vars, entries, entry_count, fresh, stage, job, selected, scroll_off,
                      input_mode, input_buf>>
      BY DEF fmvars
    <3>2. SelectionOK' /\ selected' \in Nat /\ scroll_off' \in Nat
          /\ input_buf' \in Strings /\ (input_mode' = 3 => entries # <<>>)
      BY <3>1 DEF SelectionOK, FmInv, FmTypes, ListRight
    <3> QED BY <3>1, <3>2, MoveKeeps
  <2> QED BY <2>2, <2>3, <2>4
<1>4. I /\ [FmNext]_<<vars, fmvars>> => I'
  <2> HIDE DEF I
  <2> QED BY <1>2, <1>3
<1> HIDE DEF I
<1>5. FmSpec => []I
  BY <1>1, <1>4, PTL DEF FmSpec
<1> QED BY <1>5 DEF I

\* diskfs.c: with names of one length, no two entries of a directory read as
\* the same name, what a create, mkdir or write returned 0 for is found under
\* its name, and diskfs_write never writes to files[-1] - whatever keys and
\* commands are interleaved, and however often slots are used again.
THEOREM NamesStayRight == SameLength => (FmSpec => []NamesRight)
<1> SUFFICES ASSUME SameLength PROVE FmSpec => []NamesRight
  OBVIOUS
<1>1. ASSUME NamesKept PROVE NamesRight
  <2>1. CreatedIsFound
    BY <1>1 DEF CreatedIsFound, NamesKept, MadeIsThere, Makes
  <2>2. ASSUME NEW i \in Slots, NEW j \in Slots, files[i].used, files[j].used,
               files[i].parent = files[j].parent,
               \A p \in Positions : (\A q \in 0..(p - 1) : files[i].name[q] # Nul)
                                    => files[i].name[p] = files[j].name[p]
        PROVE  i = j
    <3>0. Tidy(files) /\ NoSlot \notin Slots
      BY <1>1, ConstantsAssumption, SMTT(60) DEF NamesKept, MadeIsThere, NoSlot, Slots
    <3>1. CASE files[i].parent \notin Slots
      BY <2>2, <3>0, <3>1 DEF Tidy
    <3>2. CASE files[i].parent \in Slots
      <4>1. PICK n \in Names : files[i].name = Stored(n)
        BY <2>2, <3>0, <3>2, EntryName
      <4>2. PICK m \in Names : files[j].name = Stored(m)
        BY <2>2, <3>0, <3>2, EntryName
      <4>3. ASSUME NEW p \in Positions, p < NameLen PROVE Stored(n)[p] = Stored(m)[p]
        <5>1. \A q \in 0..(p - 1) : q \in Positions /\ q < NameLen
          <6>1. NameLen \in Nat
            BY NameLength
          <6> QED BY <4>3, <6>1, ConstantsAssumption, SMTT(60) DEF Positions
        <5>2. \A q \in 0..(p - 1) : Stored(n)[q] # Nul
          BY <5>1, StoredBytes
        <5> QED BY <2>2, <4>1, <4>2, <5>2
      <4>4. n = m
        BY <4>3, StoredApart
      <4> QED BY <2>2, <3>0, <3>2, <4>1, <4>2, <4>4 DEF Tidy
    <3> QED BY <3>1, <3>2
  <2>3. NamesUnique
    BY <2>2 DEF NamesUnique
  <2> QED BY <2>1, <2>3 DEF NamesRight
<1> QED BY <1>1, NamesInvariant, PTL

\* fileman.c, case 3 of the prompt: between the fs_delete of the old name and
\* the end of the write nothing can take the slot or the new name, so the
\* contents are under the new name when the list is read again.
THEOREM RenamesKeepData == SameLength => (FmSpec => []RenameKeepsData)
<1> SUFFICES ASSUME SameLength PROVE FmSpec => []RenameKeepsData
  OBVIOUS
<1>1. ASSUME FmInv, RenameKept PROVE RenameKeepsData
  <2>1. ASSUME Ready, job # NoJob, job.data # Unset
        PROVE  pending # [name |-> job.new, data |-> job.data]
    BY <2>1 DEF Ready, NoWrite
  <2> QED BY <1>1, <2>1 DEF RenameKept, RenameKeepsData, Ready
<1> QED BY <1>1, NamesInvariant, PTL

\* fileman.c, the Delete key: the row under the cursor and the slot that
\* fs_delete finds by its name belong together, so with a current list exactly
\* that row is gone.
THEOREM DeletesOnlySelected == SameLength => (FmSpec => DeletesSelected)
<1> SUFFICES ASSUME SameLength PROVE FmSpec => DeletesSelected
  OBVIOUS
<1> DEFINE A == fresh /\ stage = "keys" /\ input_mode = 0 /\ stage' = "refresh" =>
                  Listing(files', current_dir') =
                    SubSeq(Shown, 1, selected) \o SubSeq(Shown, selected + 2, Len(Shown))
<1>1. ASSUME FmInv, NamesKept, FmNext, fresh, stage = "keys", input_mode = 0, stage' = "refresh"
      PROVE  Listing(files', current_dir') = Without(Shown, selected)
  <2>1. DeleteKey
    <3>1. stage' # "keys" /\ stage' # "write" /\ stage # "write" /\ stage # "refresh"
          /\ input_mode # 3 /\ stage' # stage
      BY <1>1, SMTT(60)
    <3> QED BY <1>1, <3>1 DEF FmNext, FmKey, Open, Terminal, KeyUp, KeyDown, EnterDir,
              GoUp, NewPrompt, RenamePrompt, Type, EnterNew, EnterRename, RenameWrite, Finish,
              fmvars, Free
  <2>2. /\ files \in [Slots -> GoodFile] /\ current_dir \in Slots /\ Tidy(files) /\ FsTypes
        /\ entries \in Seq(Row) /\ entry_count \in 0..Len(entries) /\ selected \in Nat
        /\ Shown = Listing(files, current_dir) /\ (selected = 0 \/ selected < entry_count)
        /\ entry_count > 0
    BY <1>1, <2>1 DEF FmInv, FmTypes, FsTypes, ListRight, ListCurrent, SelectionOK,
         NamesKept, MadeIsThere, DeleteKey
  <2>3. PICK f : Rounds(files, current_dir, f) /\ Shown = f[MaxFiles]
    BY <2>2, ListingRounds
  <2>4. /\ selected + 1 \in 1..Len(Shown) /\ Shown[selected + 1] = Chosen
        /\ (selected + 1) - 1 = selected
    <3>1. PICK m \in Nat : m = Len(entries)
      BY <2>2, SMTT(60)
    <3>2. entry_count \in Nat /\ entry_count =< m /\ selected + 1 \in 1..entry_count
      BY <2>2, <3>1, SMTT(60)
    <3>3. \A i \in 1..entry_count : entries[i] \in Row
      BY <2>2, <3>1, <3>2, SMTT(60)
    <3>4. /\ Len(SubSeq(entries, 1, entry_count)) = entry_count
          /\ \A i \in 1..entry_count : SubSeq(entries, 1, entry_count)[i] = entries[i]
      BY <3>2, <3>3, SubSeqProperties, SMTT(60)
    <3>5. (selected + 1) - 1 = selected
      BY <2>2, SMTT(60)
    <3> QED BY <3>2, <3>4, <3>5 DEF Shown, Chosen
  <2>5. PICK x \in Slots : /\ files[x].used /\ files[x].parent = current_dir
                           /\ Len(f[x]) = selected /\ Chosen = RowOf(files[x])
    <3>1. \A k \in 1..Len(Shown) :
            \E x \in Slots : /\ files[x].used /\ files[x].parent = current_dir
                             /\ Len(f[x]) = k - 1 /\ Shown[k] = RowOf(files[x])
      <4>1. \A k \in 1..Len(f[MaxFiles]) :
              \E x \in Slots : /\ files[x].used /\ files[x].parent = current_dir
                               /\ Len(f[x]) = k - 1 /\ f[MaxFiles][k] = RowOf(files[x])
        BY <2>3, RowsFromSlots, SMTT(60)
      <4> QED BY <2>3, <4>1
    <3> QED BY <2>4, <3>1
  <2>6. PICK n \in Names : files[x].name = Stored(n) /\ StringOf(files[x].name) = n
    BY <2>2, <2>5, EntryName
  <2>7. Chosen.name = n
    BY <2>5, <2>6 DEF RowOf
  <2>8. find_file(files, n, current_dir) = x
    <3>1. \A s \in Slots : files[s].used /\ files[s].parent = current_dir /\ files[s].name = Stored(n)
                           => find_file(files, n, current_dir) = s
      BY <2>2, FindNamed
    <3> QED BY <2>5, <2>6, <3>1
  <2>9. x # NoSlot
    BY ConstantsAssumption, SMTT(60) DEF NoSlot, Slots
  <2>10. files' = [files EXCEPT ![x].used = FALSE] /\ current_dir' = current_dir
    BY <2>1, <2>7, <2>8, <2>9 DEF DeleteKey, Delete
  <2>11. PICK u : u = files'
    OBVIOUS
  <2>12. ~u[x].used /\ \A s \in Slots \ {x} : u[s] = files[s]
    BY <2>2, <2>8, <2>10, <2>11, DeleteTidy
  <2>13. u \in [Slots -> GoodFile]
    BY <1>1, <2>11, FmStep DEF FmInv, FmTypes, FsTypes
  <2>14. Listing(u, current_dir) = Without(f[MaxFiles], Len(f[x]))
    BY <2>2, <2>3, <2>5, <2>12, <2>13, ListingWithout, SMTT(60)
  <2> QED BY <2>3, <2>5, <2>10, <2>11, <2>14
<1>2. ASSUME FmInv, NamesKept, [FmNext]_<<vars, fmvars>> PROVE A
  <2>1. CASE FmNext
    BY <1>1, <1>2, <2>1 DEF Without
  <2>2. CASE UNCHANGED <<vars, fmvars>>
    <3>1. stage' = stage
      BY <2>2 DEF fmvars
    <3> QED BY <3>1
  <2> QED BY <1>2, <2>1, <2>2
<1>3. FmInv /\ NamesKept /\ [FmNext]_<<vars, fmvars>> => [A]_<<vars, fmvars>>
  <2> HIDE DEF A
  <2> QED BY <1>2
<1>4. FmSpec => [][A]_<<vars, fmvars>>
  <2> HIDE DEF A
  <2> QED BY <1>3, NamesInvariant, PTL DEF FmSpec
<1> QED BY <1>4 DEF DeletesSelected

=============================================================================
