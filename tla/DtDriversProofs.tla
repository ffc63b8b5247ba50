-------------------------- MODULE DtDriversProofs --------------------------
(***************************************************************************)
(* Proofs about DtDrivers, for every devicetree, memory map and driver     *)
(* calls: what a region read from a property is, byte by byte, through all *)
(* buses above the device, what becomes of the memory map, what a poll may *)
(* return, what an access reaches, and that a memory node can be used.     *)
(***************************************************************************)
EXTENDS DtDrivers, TLAPS, FiniteSetTheorems, SequenceTheorems, WellFoundedInduction

-----------------------------------------------------------------------------
(* Natural numbers, and functions defined by recursion                     *)

LEMMA Least ==
  ASSUME NEW S \in SUBSET Nat, S # {}
  PROVE  \E m \in S : \A n \in S : m <= n
<1>1. \E m \in S : \A n \in S : ~(<<n, m>> \in OpToRel(<, Nat))
  BY NatLessThanWellFounded, WFMin, Zenon
<1>2. \A m \in S, n \in S : <<n, m>> \in OpToRel(<, Nat) <=> n < m
  BY DEF OpToRel
<1>3. \A m \in S, n \in S : n < m \/ m <= n
  OBVIOUS
<1>. QED  BY <1>1, <1>2, <1>3, Zenon

\* Induction, for a property given as the set of the numbers that have it.
LEMMA SetInduction ==
  ASSUME NEW S, 0 \in S, \A k \in Nat : k \in S => k + 1 \in S
  PROVE  \A k \in Nat : k \in S
<1>. DEFINE T == {k \in Nat : k \notin S}
<1>1. SUFFICES ASSUME T # {} PROVE FALSE
  OBVIOUS
<1>2. PICK m \in T : \A k \in T : m <= k
  BY <1>1, Least
<1>3. m # 0 /\ m - 1 \in Nat /\ m - 1 \notin T
  BY <1>2
<1>4. (m - 1) + 1 \in S
  BY <1>3
<1>. QED  BY <1>2, <1>3, <1>4

LEMMA Tree ==
  /\ (\A n \in Nodes : n \in Nat) /\ Root \in Nodes /\ Device \in Nodes \ {Root} /\ Parent[Device] \in Nodes
  /\ \A n \in Nodes \ {Root} : Parent[n] \in Nodes /\ Parent[n] < n
  /\ Cpu \notin Nodes
  BY TreeAssumption DEF Cpu

\* From the root down to every node.
LEMMA TreeInduction ==
  ASSUME NEW S, Root \in S, \A n \in Nodes \ {Root} : Parent[n] \in S => n \in S
  PROVE  \A n \in Nodes : n \in S
<1>. DEFINE T == {n \in Nodes : n \notin S}
<1>1. SUFFICES ASSUME T # {} PROVE FALSE
  OBVIOUS
<1>2. PICK m \in T : \A n \in T : m <= n
  BY <1>1, Least, Tree
<1>3. m \in Nodes \ {Root} /\ Parent[m] \in Nodes /\ Parent[m] < m
  BY <1>2, Tree
<1>4. Parent[m] \notin T
  BY <1>2, <1>3, Tree
<1>. QED  BY <1>2, <1>3, <1>4

LEMMA NodesBounded == \E m \in Nat : \A n \in Nodes : n <= m
<1>1. PICK k \in Nat : ExistsSurjection(1..k, Nodes)
  BY TreeAssumption, FS_NatSurjection
<1>2. PICK f \in [1..k -> Nodes] : \A n \in Nodes : \E i \in 1..k : f[i] = n
  BY <1>1 DEF ExistsSurjection, Surjection
<1>. DEFINE S == {j \in Nat : j <= k => \E m \in Nat : \A i \in 1..j : f[i] <= m}
<1>3. 0 \in S
  OBVIOUS
<1>4. ASSUME NEW j \in Nat, j \in S PROVE j + 1 \in S
  <2>1. SUFFICES ASSUME j + 1 <= k PROVE \E m \in Nat : \A i \in 1..(j + 1) : f[i] <= m
    OBVIOUS
  <2>2. PICK m \in Nat : \A i \in 1..j : f[i] <= m
    BY <1>4, <2>1
  <2>3. \A i \in 1..(j + 1) : f[i] \in Nat
    BY <2>1, Tree
  <2>4. PICK l \in Nat : m <= l /\ f[j + 1] <= l
    <3>1. f[j + 1] \in Nat
      BY <2>3
    <3>. QED  BY <3>1
  <2>5. \A i \in 1..(j + 1) : f[i] <= l
    BY SMTT(60), <2>2, <2>3, <2>4
  <2>. QED  BY <2>5
<1>5. k \in S
  <2>. HIDE DEF S
  <2>. QED  BY <1>3, <1>4, SetInduction
<1>6. PICK m \in Nat : \A i \in 1..k : f[i] <= m
  BY <1>5
<1>. QED  BY <1>2, <1>6

\* A value at the root, and a step from the value of a node's parent to its own.
Climbs(f, r, G) == f = [n \in Nodes |-> IF n = Root THEN r ELSE G[n][f[Parent[n]]]]

LEMMA TreeRecursion ==
  ASSUME NEW r, NEW G
  PROVE  \E f : Climbs(f, r, G)
<1>. USE DEF Climbs
<1>. DEFINE Up(k) == {n \in Nodes : n <= k}
            Rec(k, f) == f = [n \in Up(k) |-> IF n = Root THEN r ELSE G[n][f[Parent[n]]]]
            S == {k \in Nat : \E f : Rec(k, f)}
<1>2. 0 \in S
  <2>. DEFINE f == [n \in Up(0) |-> r]
  <2>1. \A n \in Up(0) : n = Root
    BY Tree
  <2>2. Rec(0, f)
    BY <2>1
  <2>. QED  BY <2>2
<1>3. ASSUME NEW k \in Nat, k \in S PROVE k + 1 \in S
  <2>1. PICK f : Rec(k, f)
    BY <1>3
  <2>. DEFINE g == [n \in Up(k + 1) |-> IF n \in Up(k) THEN f[n]
                                        ELSE IF n = Root THEN r ELSE G[n][f[Parent[n]]]]
  <2>2. \A n \in Up(k + 1) \ {Root} : Parent[n] \in Up(k) /\ Parent[n] \in Up(k + 1)
    BY Tree
  <2>3. \A n \in Up(k) : g[n] = f[n]
    BY Tree
  <2>4. \A n \in Up(k + 1) : g[n] = IF n = Root THEN r ELSE G[n][f[Parent[n]]]
    <3>1. \A n \in Up(k) : f[n] = IF n = Root THEN r ELSE G[n][f[Parent[n]]]
      BY <2>1
    <3>. QED  BY <3>1
  <2>5. \A n \in Up(k + 1) \ {Root} : g[Parent[n]] = f[Parent[n]]
    BY <2>2, <2>3
  <2>6. Rec(k + 1, g)
    <3>1. \A n \in Up(k + 1) : g[n] = IF n = Root THEN r ELSE G[n][g[Parent[n]]]
      BY <2>4, <2>5
    <3>. QED  BY ZenonT(60), <3>1
  <2>. HIDE DEF g, Rec
  <2>. QED  BY <2>6
<1>4. PICK m \in Nat : \A n \in Nodes : n <= m
  BY NodesBounded
<1>5. m \in S
  <2>. HIDE DEF S
  <2>. QED  BY <1>2, <1>3, SetInduction
<1>6. Up(m) = Nodes
  BY <1>4
<1>. QED  BY <1>5, <1>6

-----------------------------------------------------------------------------
(* Cells and fields                                                        *)

Cell == 0..(CellBase - 1)

LEMMA Sizes ==
  /\ {CellBase, MaxNCells, PageSize, GcdPages, Frequency, Period, EndTick, TickWord} \subseteq Nat \ {0}
  /\ MaxSpent \in Nat /\ UC \in 1..(CpuWord - 1) /\ EndTick < TickWord
  /\ Word \in Nat /\ CpuWord \in Nat /\ CpuWord > 0 /\ CpuWord <= Word
  /\ \A c \in Cell : c \in Nat
<1>1. CpuWord \in Nat /\ CpuWord > 0
  BY SizesAssumption DEF CpuWord
<1>. QED  BY <1>1, SizesAssumption DEF Cell

LEMMA PrefixFunction ==
  ASSUME NEW c, NEW n \in Nat
  PROVE  \E f : f = [i \in 0..n |-> IF i = 0 THEN 0 ELSE f[i - 1] * CellBase + c[i]]
<1>. DEFINE Rec(k, f) == f = [i \in 0..k |-> IF i = 0 THEN 0 ELSE f[i - 1] * CellBase + c[i]]
            S == {k \in Nat : \E f : Rec(k, f)}
<1>1. 0 \in S
  <2>. DEFINE f == [i \in 0..0 |-> 0]
  <2>1. Rec(0, f)
    OBVIOUS
  <2>. QED  BY <2>1
<1>2. ASSUME NEW k \in Nat, k \in S PROVE k + 1 \in S
  <2>1. PICK f : Rec(k, f)
    BY <1>2
  <2>. DEFINE g == [i \in 0..(k + 1) |-> IF i <= k THEN f[i] ELSE f[k] * CellBase + c[k + 1]]
  <2>2. \A i \in 0..(k + 1) : g[i] = IF i = 0 THEN 0 ELSE g[i - 1] * CellBase + c[i]
    <3>1. SUFFICES ASSUME NEW i \in 0..(k + 1)
                   PROVE  g[i] = IF i = 0 THEN 0 ELSE g[i - 1] * CellBase + c[i]
      OBVIOUS
    <3>2. CASE i = k + 1
      <4>1. k \in 0..(k + 1) /\ k <= k /\ g[k] = f[k] /\ i # 0 /\ i - 1 = k /\ ~(i <= k)
        BY <3>2
      <4>2. g[i] = f[k] * CellBase + c[k + 1]
        BY <3>2
      <4>. QED  BY <3>2, <4>1, <4>2
    <3>3. CASE i # k + 1
      <4>1. i \in 0..k /\ g[i] = f[i] /\ (i # 0 => i - 1 \in 0..(k + 1) /\ g[i - 1] = f[i - 1])
        BY <3>1, <3>3
      <4>2. f[i] = IF i = 0 THEN 0 ELSE f[i - 1] * CellBase + c[i]
        BY <2>1, <4>1
      <4>. QED  BY <4>1, <4>2
    <3>. QED  BY <3>2, <3>3
  <2>3. Rec(k + 1, g)
    BY <2>2
  <2>. HIDE DEF g, Rec
  <2>. QED  BY <2>3
<1>3. n \in S
  <2>. HIDE DEF S
  <2>. QED  BY <1>1, <1>2, SetInduction
<1>. QED  BY <1>3

\* The number that a run of cells stands for.
LEMMA ValueType ==
  ASSUME NEW c \in Seq(Cell)
  PROVE  /\ Value(c) \in Nat
         /\ Len(c) = 0 => Value(c) = 0
         /\ Len(c) = 2 => Value(c) < CpuWord
<1>. DEFINE f == CHOOSE f : f = [i \in 0..Len(c) |-> IF i = 0 THEN 0 ELSE f[i - 1] * CellBase + c[i]]
            S == {k \in Nat : k <= Len(c) => f[k] \in Nat}
<1>0. Len(c) \in Nat /\ CellBase \in Nat /\ CellBase > 0 /\ \A i \in 1..Len(c) : c[i] \in 0..(CellBase - 1)
  BY SMTT(60), SizesAssumption, LenProperties, ElementOfSeq DEF Cell
<1>1. Value(c) = f[Len(c)]
  BY DEF Value
<1>2. f = [i \in 0..Len(c) |-> IF i = 0 THEN 0 ELSE f[i - 1] * CellBase + c[i]]
  BY <1>0, PrefixFunction
<1>. HIDE DEF f
<1>3. \A i \in 0..Len(c) : f[i] = IF i = 0 THEN 0 ELSE f[i - 1] * CellBase + c[i]
  BY <1>2
<1>4. 0 \in S
  BY <1>0, <1>3
<1>5. ASSUME NEW k \in Nat, k \in S PROVE k + 1 \in S
  <2>1. SUFFICES ASSUME k + 1 <= Len(c) PROVE f[k + 1] \in Nat
    OBVIOUS
  <2>2. f[k] \in Nat /\ f[k + 1] = f[k] * CellBase + c[k + 1] /\ c[k + 1] \in Nat
    BY <1>0, <1>3, <1>5, <2>1
  <2>3. \A x, y \in Nat : x * CellBase + y \in Nat
    BY <1>0
  <2>. QED  BY <2>2, <2>3
<1>6. Len(c) \in S
  <2>. HIDE DEF S
  <2>. QED  BY <1>0, <1>4, <1>5, SetInduction
<1>7. ASSUME Len(c) = 2 PROVE f[2] < CpuWord
  <2>1. f[0] = 0 /\ f[1] = f[0] * CellBase + c[1] /\ f[2] = f[1] * CellBase + c[2]
    BY <1>3, <1>7
  <2>2. c[1] \in Nat /\ c[1] <= CellBase - 1 /\ c[2] \in Nat /\ c[2] <= CellBase - 1
    BY <1>0, <1>7
  <2>3. f[1] = c[1]
    BY <1>0, <2>1, <2>2
  <2>4. c[1] * CellBase <= (CellBase - 1) * CellBase
    BY SMTT(60), <1>0, <2>2
  <2>. QED  BY <1>0, <2>1, <2>2, <2>3, <2>4 DEF CpuWord
<1>8. f[0] = 0 /\ f[Len(c)] \in Nat
  BY <1>0, <1>3, <1>6
<1>. QED  BY <1>1, <1>7, <1>8

LEMMA SliceType ==
  ASSUME NEW c \in Seq(Cell), NEW at \in Nat, NEW n \in Nat, at + n <= Len(c)
  PROVE  /\ Slice(c, at, n) \in Nat
         /\ n = 0 => Slice(c, at, n) = 0
         /\ n = 2 => Slice(c, at, n) < CpuWord
<1>1. SubSeq(c, at + 1, at + n) \in Seq(Cell) /\ Len(SubSeq(c, at + 1, at + n)) = n
  BY SubSeqProperties, LenProperties
<1>. QED  BY <1>1, ValueType DEF Slice

\* An iterator inside a property of cells.
Iterators == [name : STRING, data : Seq(Cell), iter : Nat]
Inner(p) == p \in Iterators /\ p.iter <= Len(p.data)

LEMMA Quotient ==
  ASSUME NEW x \in Nat, NEW n \in Nat, n > 0, NEW i \in Nat
  PROVE  /\ x \div n \in Nat /\ (x \div n <= i <=> x < n * i + n)
         /\ n * (x \div n) <= x /\ x < n * (x \div n) + n
<1>. DEFINE q == x \div n
<1>1. q \in Nat /\ n * q <= x /\ x < n * q + n
  OBVIOUS
<1>. HIDE DEF q
<1>2. q <= i => n * q <= n * i
  BY <1>1
<1>3. i + 1 <= q => n * i + n <= n * q
  BY <1>1
<1>4. n * q \in Nat /\ n * i \in Nat
  BY <1>1
<1>5. q <= i \/ i + 1 <= q
  BY <1>1
<1>6. q <= i <=> x < n * i + n
  BY <1>1, <1>2, <1>3, <1>4, <1>5
<1>. QED  BY <1>1, <1>6 DEF q

\* The field is there when all its cells are, and the iterator moves behind it.
LEMMA FieldIs ==
  ASSUME NEW p, Inner(p), NEW n \in Nat, NEW i \in Nat
  PROVE  /\ n > 0 /\ p.iter + n * i + n <= Len(p.data) =>
              /\ Field(p, n, i) = [ok |-> TRUE, val |-> Slice(p.data, p.iter + n * i, n),
                                   p |-> [p EXCEPT !.iter = p.iter + n * i + n]]
              /\ Field(p, n, i).val \in Nat /\ Inner(Field(p, n, i).p)
         /\ ~(n > 0 /\ p.iter + n * i + n <= Len(p.data)) => Field(p, n, i) = NotFound(p)
<1>1. /\ p \in Iterators /\ p.iter \in Nat /\ Len(p.data) \in Nat /\ p.iter <= Len(p.data)
      /\ p.data \in Seq(Cell) /\ n * i \in Nat
  BY LenProperties DEF Inner, Iterators
<1>2. Left(p) \in Nat /\ Left(p) = Len(p.data) - p.iter
  BY <1>1 DEF Left
<1>3. n > 0 => (Left(p) \div n <= i <=> Left(p) < n * i + n)
  BY <1>2, Quotient
<1>4. n = 0 \/ Left(p) \div n <= i <=> ~(n > 0 /\ p.iter + n * i + n <= Len(p.data))
  <2>. HIDE DEF Left
  <2>. QED  BY SMTT(60), <1>1, <1>2, <1>3
<1>5. ASSUME n > 0, p.iter + n * i + n <= Len(p.data)
      PROVE  /\ Field(p, n, i) = [ok |-> TRUE, val |-> Slice(p.data, p.iter + n * i, n),
                                  p |-> [p EXCEPT !.iter = p.iter + n * i + n]]
             /\ Slice(p.data, p.iter + n * i, n) \in Nat
             /\ Inner([p EXCEPT !.iter = p.iter + n * i + n])
  <2>1. Field(p, n, i) = [ok |-> TRUE, val |-> Slice(p.data, p.iter + n * i, n),
                          p |-> [p EXCEPT !.iter = p.iter + n * i + n]]
    BY <1>4, <1>5, Zenon DEF Field, Slice
  <2>2. Slice(p.data, p.iter + n * i, n) \in Nat
    BY <1>1, <1>5, SliceType
  <2>3. Inner([p EXCEPT !.iter = p.iter + n * i + n])
    <3>. DEFINE m == p.iter + n * i + n
    <3>1. m \in Nat /\ m <= Len(p.data)
      BY <1>1, <1>5
    <3>. HIDE DEF m
    <3>2. [p EXCEPT !.iter = m] \in Iterators /\ [p EXCEPT !.iter = m].data = p.data
          /\ [p EXCEPT !.iter = m].iter = m
      BY <1>1, <3>1 DEF Iterators
    <3>3. Inner([p EXCEPT !.iter = m])
      BY <3>1, <3>2 DEF Inner
    <3>. QED  BY <3>3 DEF m
  <2>. QED  BY <2>1, <2>2, <2>3
<1>6. ASSUME ~(n > 0 /\ p.iter + n * i + n <= Len(p.data)) PROVE Field(p, n, i) = NotFound(p)
  BY <1>4, <1>6, Zenon DEF Field
<1>. QED  BY <1>5, <1>6

LEMMA FirstField ==
  ASSUME NEW p, Inner(p), NEW n \in Nat
  PROVE  /\ n > 0 /\ p.iter + n <= Len(p.data) =>
              /\ Field(p, n, 0) = [ok |-> TRUE, val |-> Slice(p.data, p.iter, n),
                                   p |-> [p EXCEPT !.iter = p.iter + n]]
              /\ Inner([p EXCEPT !.iter = p.iter + n])
         /\ ~(n > 0 /\ p.iter + n <= Len(p.data)) => ~Field(p, n, 0).ok
         /\ p.iter + n <= Len(p.data) =>
              /\ SizeField(p, n, 0) = [ok |-> TRUE, val |-> Slice(p.data, p.iter, n),
                                       p |-> [p EXCEPT !.iter = p.iter + n]]
              /\ Inner([p EXCEPT !.iter = p.iter + n])
         /\ ~(p.iter + n <= Len(p.data)) => ~SizeField(p, n, 0).ok
<1>1. p \in Iterators /\ p.iter \in Nat /\ p.data \in Seq(Cell) /\ Len(p.data) \in Nat
      /\ p.iter <= Len(p.data)
  BY LenProperties DEF Inner, Iterators
<1>2. n * 0 = 0 /\ p.iter + 0 = p.iter
  BY <1>1
<1>3. /\ n > 0 /\ p.iter + n <= Len(p.data) =>
           /\ Field(p, n, 0) = [ok |-> TRUE, val |-> Slice(p.data, p.iter, n),
                                p |-> [p EXCEPT !.iter = p.iter + n]]
           /\ Inner([p EXCEPT !.iter = p.iter + n])
      /\ ~(n > 0 /\ p.iter + n <= Len(p.data)) => Field(p, n, 0) = NotFound(p)
  <2>1. 0 \in Nat
    OBVIOUS
  <2>2. /\ n > 0 /\ p.iter + n * 0 + n <= Len(p.data) =>
              /\ Field(p, n, 0) = [ok |-> TRUE, val |-> Slice(p.data, p.iter + n * 0, n),
                                   p |-> [p EXCEPT !.iter = p.iter + n * 0 + n]]
              /\ Inner(Field(p, n, 0).p)
        /\ ~(n > 0 /\ p.iter + n * 0 + n <= Len(p.data)) => Field(p, n, 0) = NotFound(p)
    BY <2>1, FieldIs
  <2>. QED  BY <1>2, <2>2
<1>4. ~NotFound(p).ok
  BY DEF NotFound
<1>5. n > 0 => SizeField(p, n, 0) = Field(p, n, 0)
  BY DEF SizeField
<1>6. ASSUME n = 0
      PROVE  /\ SizeField(p, n, 0) = [ok |-> TRUE, val |-> Slice(p.data, p.iter, n),
                                      p |-> [p EXCEPT !.iter = p.iter + n]]
             /\ Inner([p EXCEPT !.iter = p.iter + n])
  <2>1. [p EXCEPT !.iter = p.iter + n] = p
    BY <1>1, <1>6 DEF Iterators
  <2>2. Slice(p.data, p.iter, n) = 0
    <3>1. p.iter + n <= Len(p.data)
      BY <1>1, <1>6
    <3>. QED  BY <1>1, <1>6, <3>1, SliceType
  <2>. QED  BY <1>6, <2>1, <2>2 DEF SizeField
<1>7. n > 0 \/ n = 0
  OBVIOUS
<1>8. CASE n > 0
  BY <1>3, <1>4, <1>5, <1>8
<1>9. CASE n = 0
  BY <1>1, <1>3, <1>4, <1>6, <1>9
<1>. QED  BY <1>7, <1>8, <1>9

\* What a property has in its devicetree.
LEMMA PropertyCells ==
  ASSUME dt \in Blobs, NEW n \in Nodes, NEW name, Has(n, name), name # "reg-names"
  PROVE  /\ dt[n][name] \in Seq(Cell) /\ Len(dt[n][name]) \in Nat
         /\ Inner(AtBegin(n, name)) /\ AtBegin(n, name).data = dt[n][name]
         /\ AtBegin(n, name).iter = 0 /\ AtBegin(n, name).name = name
<1>1. name \in DOMAIN dt[n] /\ DOMAIN dt[n] \subseteq STRING
  BY BlobsAssumption DEF Has
<1>2. dt[n][name] \in Seq(Cell)
  BY <1>1, BlobsAssumption DEF Cell
<1>. QED  BY <1>1, <1>2, LenProperties DEF AtBegin, Inner, Iterators

LEMMA CellCounts ==
  ASSUME dt \in Blobs, NEW n \in Nodes
  PROVE  /\ ChildAddressCells(n) \in Nat /\ ChildSizeCells(n) \in Nat
         /\ AddressCells(n) \in Nat /\ SizeCells(n) \in Nat
<1>1. ASSUME NEW m \in Nodes, NEW name, name # "reg-names", NEW default \in Nat
      PROVE  FdtCells(m, name, default) \in Nat
  <2>1. CASE Has(m, name)
    <3>1. dt[m][name] \in Seq(Cell)
      BY <1>1, <2>1, PropertyCells
    <3>2. Len(dt[m][name]) = 1 => dt[m][name][1] \in Nat
      BY <3>1, ElementOfSeq, Sizes
    <3>. QED  BY <1>1, <3>2 DEF FdtCells
  <2>2. CASE ~Has(m, name)
    BY <1>1, <2>2 DEF FdtCells
  <2>. QED  BY <2>1, <2>2
<1>2. \A m \in Nodes : ChildAddressCells(m) \in Nat /\ ChildSizeCells(m) \in Nat
  BY <1>1 DEF ChildAddressCells, ChildSizeCells, FdtGetAddressCells, FdtGetSizeCells
<1>3. n = Root \/ Parent[n] \in Nodes
  BY Tree
<1>. QED  BY <1>2, <1>3 DEF AddressCells, SizeCells

\* An entry of ranges: its three fields, one behind the other.
LEMMA RangeFieldsAt ==
  ASSUME dt \in Blobs, NEW b \in Nodes, NEW p, Inner(p),
         NEW c, c = ChildAddressCells(b), NEW a, a = AddressCells(b), NEW s, s = ChildSizeCells(b)
  PROVE  /\ c > 0 /\ a > 0 /\ p.iter + (c + a + s) <= Len(p.data) =>
              RangeFields(b, p) =
                [ok |-> TRUE, child |-> Slice(p.data, p.iter, c), bus |-> Slice(p.data, p.iter + c, a),
                 len |-> Slice(p.data, p.iter + c + a, s), p |-> [p EXCEPT !.iter = p.iter + (c + a + s)]]
         /\ ~(c > 0 /\ a > 0 /\ p.iter + (c + a + s) <= Len(p.data)) => ~RangeFields(b, p).ok
<1>1. c \in Nat /\ a \in Nat /\ s \in Nat
  BY CellCounts
<1>2. p \in Iterators /\ p.iter \in Nat /\ Len(p.data) \in Nat
  BY LenProperties DEF Inner, Iterators
<1>. DEFINE x == Field(p, c, 0)
            y == Field(x.p, a, 0)
            z == SizeField(y.p, s, 0)
            q == [p EXCEPT !.iter = p.iter + c]
            r == [p EXCEPT !.iter = p.iter + c + a]
<1>3. RangeFields(b, p) = Fields(x, y, z)
  BY DEF RangeFields, RangeBus, RangeSize, ParseChildBusAddress, ParseBusAddress, ParseChildSize
<1>4. /\ q.iter = p.iter + c /\ q.data = p.data /\ r.iter = p.iter + c + a /\ r.data = p.data
      /\ [q EXCEPT !.iter = q.iter + a] = r
      /\ [r EXCEPT !.iter = r.iter + s] = [p EXCEPT !.iter = p.iter + (c + a + s)]
  <2>1. \A x1, x2 : [[p EXCEPT !.iter = x1] EXCEPT !.iter = x2] = [p EXCEPT !.iter = x2]
    BY <1>2 DEF Iterators
  <2>2. q.iter = p.iter + c /\ q.data = p.data /\ r.iter = p.iter + c + a /\ r.data = p.data
    BY <1>2 DEF Iterators
  <2>3. p.iter + (c + a + s) = p.iter + c + a + s
    <3>1. \A x1 \in Nat : x1 + (c + a + s) = x1 + c + a + s
      BY <1>1
    <3>. QED  BY <1>2, <3>1
  <2>4. /\ [q EXCEPT !.iter = q.iter + a] = [p EXCEPT !.iter = q.iter + a]
        /\ [r EXCEPT !.iter = r.iter + s] = [p EXCEPT !.iter = r.iter + s]
    BY <2>1
  <2>. QED  BY <2>2, <2>3, <2>4
<1>5. /\ c > 0 /\ p.iter + c <= Len(p.data) =>
           x = [ok |-> TRUE, val |-> Slice(p.data, p.iter, c), p |-> q] /\ Inner(q)
      /\ ~(c > 0 /\ p.iter + c <= Len(p.data)) => ~x.ok
  BY <1>1, FirstField
<1>6. c > 0 /\ p.iter + c <= Len(p.data) =>
      /\ a > 0 /\ p.iter + c + a <= Len(p.data) =>
           y = [ok |-> TRUE, val |-> Slice(p.data, p.iter + c, a), p |-> r] /\ Inner(r)
      /\ ~(a > 0 /\ p.iter + c + a <= Len(p.data)) => ~y.ok
  <2>1. ASSUME c > 0, p.iter + c <= Len(p.data)
        PROVE  x.p = q /\ Inner(q)
    BY <1>5, <2>1
  <2>2. ASSUME Inner(q)
        PROVE  /\ a > 0 /\ q.iter + a <= Len(q.data) =>
                    /\ Field(q, a, 0) = [ok |-> TRUE, val |-> Slice(q.data, q.iter, a),
                                         p |-> [q EXCEPT !.iter = q.iter + a]]
                    /\ Inner([q EXCEPT !.iter = q.iter + a])
               /\ ~(a > 0 /\ q.iter + a <= Len(q.data)) => ~Field(q, a, 0).ok
    <3>. HIDE DEF q
    <3>. QED  BY <1>1, <2>2, FirstField
  <2>. HIDE DEF q, r, x
  <2>. QED  BY <1>4, <2>1, <2>2
<1>7. c > 0 /\ p.iter + c <= Len(p.data) /\ a > 0 /\ p.iter + c + a <= Len(p.data) =>
      /\ p.iter + c + a + s <= Len(p.data) =>
           z = [ok |-> TRUE, val |-> Slice(p.data, p.iter + c + a, s), p |-> [r EXCEPT !.iter = r.iter + s]]
      /\ ~(p.iter + c + a + s <= Len(p.data)) => ~z.ok
  <2>1. ASSUME c > 0, p.iter + c <= Len(p.data), a > 0, p.iter + c + a <= Len(p.data)
        PROVE  y.p = r /\ Inner(r)
    BY <1>6, <2>1
  <2>2. ASSUME Inner(r)
        PROVE  /\ r.iter + s <= Len(r.data) =>
                    SizeField(r, s, 0) = [ok |-> TRUE, val |-> Slice(r.data, r.iter, s),
                                          p |-> [r EXCEPT !.iter = r.iter + s]]
               /\ ~(r.iter + s <= Len(r.data)) => ~SizeField(r, s, 0).ok
    <3>. HIDE DEF r
    <3>. QED  BY <1>1, <2>2, FirstField
  <2>. HIDE DEF q, r, x, y
  <2>. QED  BY <1>4, <2>1, <2>2
<1>8. /\ p.iter + (c + a + s) = p.iter + c + a + s
      /\ p.iter + c + a + s <= Len(p.data) => p.iter + c + a <= Len(p.data)
      /\ p.iter + c + a <= Len(p.data) => p.iter + c <= Len(p.data)
  BY <1>1, <1>2
<1>. HIDE DEF q, r, x, y, z
<1>9. ASSUME c > 0, a > 0, p.iter + (c + a + s) <= Len(p.data)
      PROVE  Fields(x, y, z) =
                [ok |-> TRUE, child |-> Slice(p.data, p.iter, c), bus |-> Slice(p.data, p.iter + c, a),
                 len |-> Slice(p.data, p.iter + c + a, s), p |-> [p EXCEPT !.iter = p.iter + (c + a + s)]]
  <2>1. /\ x.ok = TRUE /\ x.val = Slice(p.data, p.iter, c) /\ y.ok = TRUE /\ y.val = Slice(p.data, p.iter + c, a)
        /\ z.ok = TRUE /\ z.val = Slice(p.data, p.iter + c + a, s)
        /\ z.p = [p EXCEPT !.iter = p.iter + (c + a + s)]
    BY <1>4, <1>5, <1>6, <1>7, <1>8, <1>9
  <2>. QED  BY <2>1 DEF Fields
<1>10. ASSUME ~(c > 0 /\ a > 0 /\ p.iter + (c + a + s) <= Len(p.data)) PROVE ~Fields(x, y, z).ok
  <2>1. ~x.ok \/ ~y.ok \/ ~z.ok
    BY <1>5, <1>6, <1>7, <1>8, <1>10
  <2>. QED  BY <2>1 DEF Fields
<1>. QED  BY <1>3, <1>9, <1>10

-----------------------------------------------------------------------------
(* Translation at one bus                                                  *)

\* A search that goes from one place of a list to a later one.
Forward(L, stop, next) == \A i \in 0..L : stop[i] \/ next[i] \in (i + 1)..L
Searches(f, L, stop, val, next) == f = [i \in 0..L |-> IF stop[i] THEN val[i] ELSE f[next[i]]]

LEMMA ForwardRecursion ==
  ASSUME NEW L \in Nat, NEW stop, NEW val, NEW next, Forward(L, stop, next)
  PROVE  \E f : Searches(f, L, stop, val, next)
<1>. USE DEF Forward, Searches
<1>. DEFINE Rec(k, f) == f = [i \in (L - k)..L |-> IF stop[i] THEN val[i] ELSE f[next[i]]]
            S == {k \in Nat : k <= L => \E f : Rec(k, f)}
<1>1. 0 \in S
  <2>. DEFINE f == [i \in (L - 0)..L |-> val[i]]
  <2>1. \A i \in (L - 0)..L : i \in 0..L /\ i = L
    OBVIOUS
  <2>2. \A i \in (L - 0)..L : stop[i]
    BY <2>1
  <2>3. Rec(0, f)
    BY <2>2
  <2>. HIDE DEF f, Rec
  <2>. QED  BY <2>3
<1>2. ASSUME NEW k \in Nat, k \in S PROVE k + 1 \in S
  <2>1. SUFFICES ASSUME k + 1 <= L PROVE \E f : Rec(k + 1, f)
    <3>. HIDE DEF Rec
    <3>. QED  OBVIOUS
  <2>2. PICK f : Rec(k, f)
    BY <1>2, <2>1
  <2>. DEFINE m == L - (k + 1)
              g == [i \in m..L |-> IF i # m THEN f[i] ELSE IF stop[m] THEN val[m] ELSE f[next[m]]]
  <2>3. m \in 0..L /\ L - k = m + 1 /\ m \in m..L
    BY <2>1
  <2>. HIDE DEF m
  <2>4. \A i \in (m + 1)..L : /\ g[i] = f[i]
                             /\ f[i] = IF stop[i] THEN val[i] ELSE f[next[i]]
    BY <2>2, <2>3
  <2>5. g[m] = IF stop[m] THEN val[m] ELSE f[next[m]]
    BY <2>3
  <2>6. \A i \in m..L : stop[i] \/ (next[i] \in (m + 1)..L /\ g[next[i]] = f[next[i]])
    <3>1. SUFFICES ASSUME NEW i \in m..L, ~stop[i] PROVE next[i] \in (m + 1)..L
      BY <2>4
    <3>2. i \in 0..L /\ next[i] \in (i + 1)..L
      BY <2>3, <3>1
    <3>. QED  BY <2>3, <3>2
  <2>7. \A i \in m..L : g[i] = IF stop[i] THEN val[i] ELSE g[next[i]]
    <3>1. SUFFICES ASSUME NEW i \in m..L PROVE g[i] = IF stop[i] THEN val[i] ELSE g[next[i]]
      OBVIOUS
    <3>2. i = m \/ i \in (m + 1)..L
      BY <2>3
    <3>. HIDE DEF g
    <3>. QED  BY <2>4, <2>5, <2>6, <3>2
  <2>8. Rec(k + 1, g)
    <3>1. g = [i \in m..L |-> IF stop[i] THEN val[i] ELSE g[next[i]]]
      BY <2>7
    <3>. HIDE DEF g
    <3>. QED  BY <3>1 DEF m
  <2>. HIDE DEF g, Rec
  <2>. QED  BY <2>8
<1>3. \E f : Rec(L, f)
  <2>1. L \in S
    <3>. HIDE DEF S
    <3>. QED  BY <1>1, <1>2, SetInduction
  <2>. QED  BY <2>1
<1>4. L - L = 0
  OBVIOUS
<1>. QED  BY <1>3, <1>4

\* The first entry that holds the range, or none does: TranslateRanges goes
\* through the entries of ranges in their order.
LEMMA RangesTranslated ==
  ASSUME dt \in Blobs, NEW b \in Nodes, Has(b, "ranges"), NEW in \in Nat, NEW len \in Nat,
         NEW out, out = TranslateRanges(b, in, len, AtBegin(b, "ranges"))
  PROVE  \/ out = Untranslated /\ \A e \in Entries(b) : ~Inside(in, len, e)
         \/ \E e \in Entries(b) : Inside(in, len, e) /\ out = ((in - e.child) + e.bus) % Word
<1>. DEFINE c == ChildAddressCells(b)
            a == AddressCells(b)
            s == ChildSizeCells(b)
            w == c + a + s
            p == AtBegin(b, "ranges")
            data == dt[b]["ranges"]
            L == Len(p.data)
            At(i) == RangeFields(b, [p EXCEPT !.iter = i])
            E(at) == [child |-> Slice(data, at, c), bus |-> Slice(data, at + c, a),
                      len |-> Slice(data, at + c + a, s)]
            Out(e) == ((in - e.child) + e.bus) % Word
            stop == [i \in 0..L |-> i = L \/ ~At(i).ok \/ Inside(in, len, At(i))]
            val == [i \in 0..L |-> IF i = L \/ ~At(i).ok THEN Untranslated ELSE Out(At(i))]
            next == [i \in 0..L |-> At(i).p.iter]
            Body(i, f) == IF i = L THEN Untranslated
                          ELSE IF ~At(i).ok THEN Untranslated
                          ELSE IF Inside(in, len, At(i)) THEN Out(At(i)) ELSE f[At(i).p.iter]
            find == CHOOSE f : f = [i \in 0..L |-> Body(i, f)]
<1>1. /\ c \in Nat /\ a \in Nat /\ s \in Nat /\ w \in Nat
      /\ data \in Seq(Cell) /\ L \in Nat /\ Inner(p) /\ p.data = data /\ L = Len(data)
  BY CellCounts, PropertyCells
<1>2. out = find[0]
  BY DEF TranslateRanges
<1>3. \A i \in 0..L :
        /\ c > 0 /\ a > 0 /\ i + w <= L =>
             /\ At(i).ok /\ At(i).child = E(i).child /\ At(i).bus = E(i).bus /\ At(i).len = E(i).len
             /\ At(i).p.iter = i + w
        /\ ~(c > 0 /\ a > 0 /\ i + w <= L) => ~At(i).ok
  <2>1. SUFFICES ASSUME NEW i \in 0..L
        PROVE  /\ c > 0 /\ a > 0 /\ i + w <= L =>
                    /\ At(i).ok /\ At(i).child = E(i).child /\ At(i).bus = E(i).bus
                    /\ At(i).len = E(i).len /\ At(i).p.iter = i + w
               /\ ~(c > 0 /\ a > 0 /\ i + w <= L) => ~At(i).ok
    OBVIOUS
  <2>. DEFINE q == [p EXCEPT !.iter = i]
  <2>2. /\ Inner(q) /\ q.iter = i /\ q.data = data
        /\ [q EXCEPT !.iter = q.iter + w].iter = i + w
    BY <1>1, <2>1 DEF Inner, Iterators
  <2>3. /\ c > 0 /\ a > 0 /\ q.iter + w <= Len(q.data) =>
             RangeFields(b, q) =
                [ok |-> TRUE, child |-> Slice(q.data, q.iter, c), bus |-> Slice(q.data, q.iter + c, a),
                 len |-> Slice(q.data, q.iter + c + a, s), p |-> [q EXCEPT !.iter = q.iter + w]]
        /\ ~(c > 0 /\ a > 0 /\ q.iter + w <= Len(q.data)) => ~RangeFields(b, q).ok
    <3>. HIDE DEF q
    <3>. QED  BY <2>2, RangeFieldsAt
  <2>4. At(i) = RangeFields(b, q)
    OBVIOUS
  <2>. HIDE DEF q, c, a, s, w, data, At, L
  <2>5. Len(q.data) = L
    BY <1>1, <2>2
  <2>6. ASSUME c > 0, a > 0, i + w <= L
        PROVE  /\ At(i).ok /\ At(i).child = E(i).child /\ At(i).bus = E(i).bus
               /\ At(i).len = E(i).len /\ At(i).p.iter = i + w
    <3>1. At(i) = [ok |-> TRUE, child |-> Slice(q.data, q.iter, c), bus |-> Slice(q.data, q.iter + c, a),
                   len |-> Slice(q.data, q.iter + c + a, s), p |-> [q EXCEPT !.iter = q.iter + w]]
      BY <2>2, <2>3, <2>4, <2>5, <2>6
    <3>2. E(i).child = Slice(data, i, c) /\ E(i).bus = Slice(data, i + c, a) /\ E(i).len = Slice(data, i + c + a, s)
      OBVIOUS
    <3>. HIDE DEF E
    <3>3. [q EXCEPT !.iter = q.iter + w].iter = i + w
      BY <2>2
    <3>4. Slice(q.data, q.iter, c) = Slice(data, i, c) /\ Slice(q.data, q.iter + c, a) = Slice(data, i + c, a)
          /\ Slice(q.data, q.iter + c + a, s) = Slice(data, i + c + a, s)
      BY <2>2
    <3>5. At(i).ok /\ At(i).p = [q EXCEPT !.iter = q.iter + w]
      BY <3>1
    <3>6. /\ At(i).child = Slice(q.data, q.iter, c) /\ At(i).bus = Slice(q.data, q.iter + c, a)
          /\ At(i).len = Slice(q.data, q.iter + c + a, s)
      BY <3>1
    <3>. QED  BY <3>2, <3>3, <3>4, <3>5, <3>6, Zenon
  <2>7. ASSUME ~(c > 0 /\ a > 0 /\ i + w <= L) PROVE ~At(i).ok
    BY <2>2, <2>3, <2>4, <2>5, <2>7
  <2>. QED  BY <2>6, <2>7
<1>4. \E f : f = [i \in 0..L |-> Body(i, f)]
  <2>1. \A i \in 0..L : stop[i] \/ next[i] \in (i + 1)..L
    <3>1. SUFFICES ASSUME NEW i \in 0..L, ~stop[i] PROVE next[i] \in (i + 1)..L
      OBVIOUS
    <3>2. At(i).ok
      BY <3>1
    <3>3. At(i).p.iter = i + w /\ i + w <= L /\ c > 0 /\ a > 0
      <4>. HIDE DEF At, c, a, s, w, L
      <4>. QED  BY <1>3, <3>2
    <3>4. i + w \in (i + 1)..L
      <4>1. w > 0
        <5>. HIDE DEF c, a, s
        <5>. QED  BY <1>1, <3>3
      <4>. HIDE DEF w, L
      <4>. QED  BY <1>1, <3>3, <4>1
    <3>. QED  BY <3>3, <3>4
  <2>2. PICK f : f = [i \in 0..L |-> IF stop[i] THEN val[i] ELSE f[next[i]]]
    <3>. HIDE DEF stop, val, next, L
    <3>1. Forward(L, stop, next)
      BY <2>1 DEF Forward
    <3>2. \E f : Searches(f, L, stop, val, next)
      BY <1>1, <3>1, ForwardRecursion
    <3>. QED  BY <3>2 DEF Searches
  <2>3. \A i \in 0..L : (IF stop[i] THEN val[i] ELSE f[next[i]]) = Body(i, f)
    <3>. HIDE DEF At, L, Out
    <3>. QED  OBVIOUS
  <2>4. f = [i \in 0..L |-> Body(i, f)]
    <3>. HIDE DEF Body, stop, val, next, L
    <3>. QED  BY <2>2, <2>3
  <2>. HIDE DEF Body
  <2>. QED  BY <2>4
<1>5. \A i \in 0..L : find[i] = Body(i, find)
  <2>1. find = [i \in 0..L |-> Body(i, find)]
    <3>. HIDE DEF Body
    <3>. QED  BY <1>4
  <2>. HIDE DEF find, Body, L
  <2>. QED  BY <2>1
<1>. HIDE DEF find, p
<1>6. CASE c = 0 \/ a = 0
  <2>1. Entries(b) = {}
    BY <1>6 DEF Entries
  <2>2. ~At(0).ok
    <3>. HIDE DEF At, c, a, s, w, L
    <3>. QED  BY <1>1, <1>3, <1>6
  <2>3. find[0] = Untranslated
    <3>1. 0 \in 0..L
      BY <1>1
    <3>. HIDE DEF At, L, Out
    <3>. QED  BY <1>5, <2>2, <3>1
  <2>. QED  BY <1>2, <2>1, <2>3
<1>7. CASE c > 0 /\ a > 0
  <2>. DEFINE K == L \div w
  <2>1. w > 0 /\ K \in Nat /\ w * K <= L /\ L < w * K + w
    <3>1. w > 0
      <4>. HIDE DEF c, a, s
      <4>. QED  BY <1>1, <1>7
    <3>. HIDE DEF w, L
    <3>. QED  BY <1>1, <3>1, Quotient
  <2>2. Entries(b) = {E(w * k) : k \in 0..(K - 1)}
    <3>1. Entries(b) = {E(at) : at \in {w * k : k \in 0..(Len(data) \div w - 1)}}
      <4>1. c # 0 /\ a # 0
        <5>. HIDE DEF c, a
        <5>. QED  BY <1>7
      <4>. QED  BY <4>1 DEF Entries
    <3>2. K = Len(data) \div w
      <4>. HIDE DEF w, data, L
      <4>. QED  BY <1>1
    <3>. HIDE DEF E, w, K
    <3>. QED  BY <3>1, <3>2
  <2>. DEFINE Good(k) == \/ find[w * k] = Untranslated /\ \A m \in k..(K - 1) : ~Inside(in, len, E(w * m))
                         \/ \E m \in k..(K - 1) : Inside(in, len, E(w * m)) /\ find[w * k] = Out(E(w * m))
              S == {j \in Nat : j <= K => Good(K - j)}
  <2>. HIDE DEF K
  <2>3. 0 \in S
    <3>1. find[w * K] = Untranslated
      <4>1. w * K \in 0..L /\ ~(w * K + w <= L)
        <5>1. w * K \in Nat
          <6>. HIDE DEF w
          <6>. QED  BY <1>1, <2>1
        <5>. HIDE DEF w, L
        <5>. QED  BY <1>1, <2>1, <5>1
      <4>2. ~At(w * K).ok
        <5>. HIDE DEF At, c, a, s, w, L
        <5>. QED  BY <1>3, <4>1
      <4>. HIDE DEF At, L, Out, w
      <4>. QED  BY <1>5, <4>1, <4>2
    <3>2. K - 0 = K /\ \A m : m \notin K..(K - 1)
      BY <2>1
    <3>. HIDE DEF w, E
    <3>. QED  BY <3>1, <3>2
  <2>4. ASSUME NEW j \in Nat, j \in S PROVE j + 1 \in S
    <3>1. SUFFICES ASSUME j + 1 <= K PROVE Good(K - (j + 1))
      <4>. HIDE DEF Good
      <4>. QED  OBVIOUS
    <3>. DEFINE k == K - (j + 1)
    <3>2. k \in 0..(K - 1) /\ K - j = k + 1 /\ j <= K
      BY <2>1, <3>1
    <3>3. Good(k + 1)
      BY <2>4, <3>2
    <3>. HIDE DEF k
    <3>4. w * (k + 1) = w * k + w /\ w * k \in 0..L /\ w * k + w <= L /\ w * k # L
      <4>1. w * (k + 1) = w * k + w /\ w * k \in Nat /\ w * (k + 1) <= w * K
        <5>1. w \in Nat /\ k \in Nat /\ k + 1 <= K
          BY <1>1, <2>1, <3>2
        <5>. HIDE DEF w
        <5>. QED  BY <2>1, <5>1
      <4>. HIDE DEF w, L
      <4>. QED  BY SMTT(60), <1>1, <2>1, <4>1
    <3>5. /\ At(w * k).ok /\ At(w * k).child = E(w * k).child /\ At(w * k).bus = E(w * k).bus
          /\ At(w * k).len = E(w * k).len /\ At(w * k).p.iter = w * (k + 1)
      <4>. HIDE DEF At, c, a, s, w, L, E
      <4>. QED  BY <1>3, <1>7, <3>4
    <3>6. /\ Inside(in, len, At(w * k)) = Inside(in, len, E(w * k))
          /\ Out(At(w * k)) = Out(E(w * k))
      <4>. HIDE DEF At, E
      <4>. QED  BY <3>5 DEF Inside
    <3>7. find[w * k] = IF Inside(in, len, E(w * k)) THEN Out(E(w * k)) ELSE find[w * (k + 1)]
      <4>1. find[w * k] = Body(w * k, find)
        BY <1>5, <3>4
      <4>. HIDE DEF At, L, Out, E, w, find
      <4>. QED  BY <3>4, <3>5, <3>6, <4>1
    <3>8. \A m \in k..(K - 1) : m = k \/ m \in (k + 1)..(K - 1)
      BY <2>1, <3>2
    <3>9. k \in k..(K - 1) /\ \A m \in (k + 1)..(K - 1) : m \in k..(K - 1)
      BY <2>1, <3>2
    <3>10. CASE Inside(in, len, E(w * k))
      <4>. HIDE DEF Out, E, w
      <4>. QED  BY <3>7, <3>9, <3>10 DEF k
    <3>11. CASE ~Inside(in, len, E(w * k))
      <4>1. Good(k)
        <5>. HIDE DEF Out, E, w
        <5>. QED  BY <3>3, <3>7, <3>8, <3>9, <3>11
      <4>. QED  BY <4>1 DEF k
    <3>. QED  BY <3>10, <3>11
  <2>5. Good(0)
    <3>1. K \in S
      <4>. HIDE DEF S
      <4>. QED  BY <2>1, <2>3, <2>4, SetInduction
    <3>2. K - K = 0 /\ K <= K
      BY <2>1
    <3>. HIDE DEF Good
    <3>. QED  BY <3>1, <3>2
  <2>6. w * 0 = 0
    <3>. HIDE DEF w
    <3>. QED  BY <1>1
  <2>. HIDE DEF E, w, Out
  <2>7. \/ find[0] = Untranslated /\ \A m \in 0..(K - 1) : ~Inside(in, len, E(w * m))
        \/ \E m \in 0..(K - 1) : Inside(in, len, E(w * m)) /\ find[0] = Out(E(w * m))
    BY <2>5, <2>6
  <2>8. \/ find[0] = Untranslated /\ \A e \in Entries(b) : ~Inside(in, len, e)
        \/ \E e \in Entries(b) : Inside(in, len, e) /\ find[0] = Out(e)
    BY <2>2, <2>7
  <2>. QED  BY <1>2, <2>8 DEF Out
<1>8. c = 0 \/ c > 0
  <2>. HIDE DEF c
  <2>. QED  BY <1>1
<1>9. a = 0 \/ a > 0
  <2>. HIDE DEF a
  <2>. QED  BY <1>1
<1>. QED  BY <1>6, <1>7, <1>8, <1>9
LEMMA EntriesTyped ==
  ASSUME dt \in Blobs, NEW b \in Nodes, Has(b, "ranges"), NEW e \in Entries(b)
  PROVE  e.child \in Nat /\ e.bus \in Nat /\ e.len \in Nat
<1>. DEFINE c == ChildAddressCells(b)
            a == AddressCells(b)
            s == ChildSizeCells(b)
            w == c + a + s
            data == dt[b]["ranges"]
            E(at) == [child |-> Slice(data, at, c), bus |-> Slice(data, at + c, a),
                      len |-> Slice(data, at + c + a, s)]
<1>1. c \in Nat /\ a \in Nat /\ s \in Nat /\ w \in Nat /\ data \in Seq(Cell) /\ Len(data) \in Nat
  BY CellCounts, PropertyCells
<1>2. c # 0 /\ a # 0
  BY DEF Entries
<1>3. PICK k \in 0..(Len(data) \div w - 1) : e = E(w * k)
  BY <1>2 DEF Entries
<1>. HIDE DEF data
<1>4. w * k \in Nat /\ w * k + w <= Len(data)
  <2>1. w > 0
    <3>. HIDE DEF c, a, s
    <3>. QED  BY <1>1, <1>2
  <2>. HIDE DEF w
  <2>2. Len(data) \div w \in Nat /\ w * (Len(data) \div w) <= Len(data)
    BY <1>1, <2>1, Quotient
  <2>3. k \in Nat /\ k + 1 <= Len(data) \div w
    <3>. DEFINE K == Len(data) \div w
    <3>1. K \in Nat /\ k \in 0..(K - 1)
      BY <2>2
    <3>. HIDE DEF K
    <3>2. k \in Nat /\ k + 1 <= K
      BY <3>1
    <3>. QED  BY <3>2 DEF K
  <2>4. \A x \in Nat : k + 1 <= x => w * k \in Nat /\ w * k + w <= w * x
    BY <1>1, <2>1, <2>3
  <2>5. \A x \in Nat : w * x \in Nat
    BY <1>1
  <2>. DEFINE K == Len(data) \div w
  <2>6. K \in Nat /\ w * K <= Len(data) /\ k + 1 <= K
    BY <2>2, <2>3
  <2>. HIDE DEF K
  <2>. QED  BY <1>1, <2>4, <2>5, <2>6
<1>5. \A at \in Nat : at + w <= Len(data) =>
        E(at).child \in Nat /\ E(at).bus \in Nat /\ E(at).len \in Nat
  <2>1. SUFFICES ASSUME NEW at \in Nat, at + w <= Len(data)
                 PROVE  E(at).child \in Nat /\ E(at).bus \in Nat /\ E(at).len \in Nat
    OBVIOUS
  <2>. HIDE DEF c, a, s
  <2>2. Slice(data, at, c) \in Nat
    BY <1>1, <2>1, SliceType
  <2>3. Slice(data, at + c, a) \in Nat
    <3>1. at + c \in Nat /\ at + c + a <= Len(data)
      BY <1>1, <2>1
    <3>. QED  BY <1>1, <3>1, SliceType
  <2>4. Slice(data, at + c + a, s) \in Nat
    <3>1. at + c + a \in Nat /\ at + c + a + s <= Len(data)
      BY <1>1, <2>1
    <3>. QED  BY <1>1, <3>1, SliceType
  <2>. QED  BY <2>2, <2>3, <2>4
<1>. HIDE DEF E, w
<1>. QED  BY <1>3, <1>4, <1>5

\* The code adds addresses in 128 bits and does not look for an overflow: no
\* range of a devicetree may have one.
InWord(base, len) == base + len < Word
RangesFit ==
  \A b \in Nodes \ {Root} : Has(b, "ranges") =>
    \A e \in Entries(b) : InWord(e.child, e.len) /\ InWord(e.bus, e.len)

\* One bus up: the range as a whole goes where each of its bytes goes, and it
\* stays where it is only if no range holds it.
LEMMA TranslatedByBytes ==
  ASSUME dt \in Blobs, RangesFit, NEW b \in Nodes, NEW in \in Nat, NEW len \in Nat, InWord(in, len),
         NEW out, out = DtDeviceTranslateRangeInternal(b, in, len)
  PROVE  /\ out = Untranslated => ~Held(b, in, len) /\ b # Root
         /\ out # Untranslated =>
              /\ out \in Nat /\ InWord(out, len)
              /\ \A o \in 0..(len - 1) : out + o \in Images(b, in + o)
<1>1. in # Untranslated /\ Word \in Nat /\ in + len < Word
  BY Sizes DEF Untranslated, InWord
<1>2. CASE Identity(b)
  <2>1. out = in
    BY <1>2 DEF Identity, DtDeviceTranslateRangeInternal
  <2>. QED  BY <1>1, <1>2, <2>1 DEF Images
<1>3. CASE ~Identity(b) /\ ~Has(b, "ranges")
  BY <1>3 DEF Identity, DtDeviceTranslateRangeInternal, Held
<1>4. CASE ~Identity(b) /\ Has(b, "ranges")
  <2>1. b # Root /\ out = TranslateRanges(b, in, len, AtBegin(b, "ranges"))
    BY <1>4 DEF Identity, DtDeviceTranslateRangeInternal
  <2>2. \/ out = Untranslated /\ \A e \in Entries(b) : ~Inside(in, len, e)
        \/ \E e \in Entries(b) : Inside(in, len, e) /\ out = ((in - e.child) + e.bus) % Word
    BY <1>4, <2>1, RangesTranslated
  <2>3. \A e \in Entries(b) :
          /\ e.child \in Nat /\ e.bus \in Nat /\ e.len \in Nat
          /\ e.child + e.len < Word /\ e.bus + e.len < Word
    BY <1>4, <2>1, EntriesTyped DEF RangesFit, InWord
  <2>4. \A e \in Entries(b) : Inside(in, len, e) <=> in >= e.child /\ in + len <= e.child + e.len
    <3>1. SUFFICES ASSUME NEW e \in Entries(b)
                   PROVE  /\ (in + len) % Word = in + len
                          /\ (e.child + e.len) % Word = e.child + e.len
      BY DEF Inside
    <3>. QED  BY <1>1, <2>3
  <2>5. CASE out = Untranslated /\ \A e \in Entries(b) : ~Inside(in, len, e)
    <3>1. \A e \in Entries(b) : ~(e.child <= in /\ in + len <= e.child + e.len)
      BY <2>3, <2>4, <2>5
    <3>. QED  BY <1>4, <2>1, <2>5, <3>1 DEF Held
  <2>6. ASSUME NEW e \in Entries(b), Inside(in, len, e), out = ((in - e.child) + e.bus) % Word
        PROVE  /\ out \in Nat /\ InWord(out, len)
               /\ \A o \in 0..(len - 1) : out + o \in Images(b, in + o)
    <3>. DEFINE child == e.child
                bus == e.bus
                l == e.len
    <3>1. /\ child \in Nat /\ bus \in Nat /\ l \in Nat /\ child + l < Word /\ bus + l < Word
          /\ child <= in /\ in + len <= child + l /\ out = ((in - child) + bus) % Word
      BY <2>3, <2>4, <2>6
    <3>2. Images(b, in + 0) = Images(b, in)
      OBVIOUS
    <3>. HIDE DEF child, bus, l
    <3>3. out = (in - child) + bus /\ out \in Nat /\ out + len < Word
      BY <1>1, <3>1
    <3>4. ASSUME NEW o \in 0..(len - 1) PROVE out + o \in Images(b, in + o)
      <4>1. Images(b, in + o) = {((in + o) - x.child) + x.bus :
                                 x \in {y \in Entries(b) : y.child <= in + o /\ in + o < y.child + y.len}}
        BY <1>4 DEF Images
      <4>2. e.child <= in + o /\ in + o < e.child + e.len
        <5>1. child <= in + o /\ in + o < child + l
          BY <3>1, <3>4
        <5>. QED  BY <5>1 DEF child, l
      <4>3. out + o = ((in + o) - e.child) + e.bus
        <5>1. out + o = ((in + o) - child) + bus
          <6>1. \A x, y, z, v \in Int : ((x - y) + z) + v = ((x + v) - y) + z
            OBVIOUS
          <6>2. in \in Int /\ child \in Int /\ bus \in Int /\ o \in Int
            BY <3>1, <3>4
          <6>3. out + o = ((in - child) + bus) + o
            BY <3>3
          <6>. QED  BY <6>1, <6>2, <6>3
        <5>. QED  BY <5>1 DEF child, bus
      <4>. QED  BY <4>1, <4>2, <4>3
    <3>. QED  BY <3>3, <3>4 DEF InWord
  <2>7. CASE \E e \in Entries(b) : Inside(in, len, e) /\ out = ((in - e.child) + e.bus) % Word
    <3>1. /\ out \in Nat /\ InWord(out, len)
          /\ \A o \in 0..(len - 1) : out + o \in Images(b, in + o)
      BY <2>6, <2>7, Zenon
    <3>2. out # Untranslated
      BY <3>1 DEF Untranslated
    <3>. QED  BY <3>1, <3>2, Zenon
  <2>. QED  BY <2>2, <2>5, <2>7, Zenon
<1>. QED  BY <1>2, <1>3, <1>4
-----------------------------------------------------------------------------
(* Translation through all the buses above a node                          *)

LEMMA TypedRecursion ==
  ASSUME NEW H, NEW r \in H, NEW G \in [Nodes \ {Root} -> [H -> H]]
  PROVE  \E f \in [Nodes -> H] : Climbs(f, r, G)
<1>1. PICK f : Climbs(f, r, G)
  BY TreeRecursion
<1>2. f = [n \in Nodes |-> IF n = Root THEN r ELSE G[n][f[Parent[n]]]]
  BY <1>1 DEF Climbs
<1>. DEFINE S == {n \in Nodes : f[n] \in H}
<1>3. Root \in S
  BY <1>2, Tree
<1>4. ASSUME NEW n \in Nodes \ {Root}, Parent[n] \in S PROVE n \in S
  <2>1. f[n] = G[n][f[Parent[n]]] /\ G[n] \in [H -> H] /\ f[Parent[n]] \in H
    BY <1>2, <1>4
  <2>. QED  BY <2>1
<1>5. \A n \in Nodes : n \in S
  <2>. HIDE DEF S
  <2>. QED  BY <1>3, <1>4, TreeInduction
<1>6. f \in [Nodes -> H]
  BY <1>2, <1>5
<1>. QED  BY <1>1, <1>6

\* The function of Reach: the addresses at bus of an address below each node.
Climb(bus) ==
  CHOOSE from : from =
    [b \in Nodes |->
      [x \in Int |-> IF b = bus THEN {x}
                     ELSE IF b = Root THEN Images(b, x)
                     ELSE UNION {from[Parent[b]][y] : y \in Images(b, x)}]]

LEMMA ImagesTyped ==
  ASSUME dt \in Blobs, NEW b \in Nodes, NEW x \in Int
  PROVE  Images(b, x) \subseteq Int
<1>1. CASE Has(b, "ranges")
  <2>1. \A e \in Entries(b) : (x - e.child) + e.bus \in Int
    BY <1>1, EntriesTyped
  <2>. QED  BY <2>1 DEF Images
<1>2. CASE ~Has(b, "ranges")
  BY <1>2 DEF Images
<1>. QED  BY <1>1, <1>2

OneUp(from, b, x) == UNION {from[Parent[b]][y] : y \in Images(b, x)}

LEMMA ClimbIs ==
  ASSUME dt \in Blobs, NEW bus
  PROVE  /\ \A b \in Nodes, x \in Int :
              Climb(bus)[b][x] = IF b = bus THEN {x}
                                 ELSE IF b = Root THEN Images(b, x)
                                 ELSE OneUp(Climb(bus), b, x)
         /\ \A b \in Nodes : Climb(bus)[b] = [x \in Int |-> Climb(bus)[b][x]]
<1>. DEFINE H == [Int -> SUBSET Int]
            At(b, x, h) == IF b = bus THEN {x} ELSE IF b = Root THEN Images(b, x)
                           ELSE UNION {h[y] : y \in Images(b, x)}
            r == [x \in Int |-> IF Root = bus THEN {x} ELSE Images(Root, x)]
            G == [b \in Nodes \ {Root} |-> [h \in H |-> [x \in Int |-> At(b, x, h)]]]
            Body(from) == [b \in Nodes |-> [x \in Int |-> At(b, x, from[Parent[b]])]]
<1>1. r \in H
  BY ImagesTyped, Tree
<1>2. G \in [Nodes \ {Root} -> [H -> H]]
  <2>1. \A b \in Nodes, x \in Int, h \in H : At(b, x, h) \subseteq Int
    BY ImagesTyped
  <2>. HIDE DEF At
  <2>. QED  BY <2>1
<1>3. PICK f \in [Nodes -> H] : Climbs(f, r, G)
  <2>. HIDE DEF H, r, G
  <2>. QED  BY <1>1, <1>2, TypedRecursion
<1>4. f = Body(f)
  <2>1. f = [n \in Nodes |-> IF n = Root THEN r ELSE G[n][f[Parent[n]]]]
    BY <1>3 DEF Climbs
  <2>2. r = [x \in Int |-> At(Root, x, f[Parent[Root]])]
    OBVIOUS
  <2>3. \A n \in Nodes \ {Root} : f[Parent[n]] \in H
    BY <1>3, Tree
  <2>4. \A n \in Nodes \ {Root} : G[n][f[Parent[n]]] = [x \in Int |-> At(n, x, f[Parent[n]])]
    <3>. HIDE DEF H, At
    <3>. QED  BY <2>3
  <2>5. \A n \in Nodes : f[n] = [x \in Int |-> At(n, x, f[Parent[n]])]
    <3>. HIDE DEF r, G, At
    <3>. QED  BY <2>1, <2>2, <2>4
  <2>. HIDE DEF At, H
  <2>. QED  BY SMTT(60), <1>3, <2>5
<1>5. Climb(bus) = CHOOSE from : from = Body(from)
  BY DEF Climb
<1>6. Climb(bus) = Body(Climb(bus))
  <2>. HIDE DEF Body
  <2>. QED  BY <1>4, <1>5
<1>7. \A b \in Nodes, x \in Int : Body(Climb(bus))[b][x] = At(b, x, Climb(bus)[Parent[b]])
  <2>. HIDE DEF At
  <2>. QED  OBVIOUS
<1>8. \A b \in Nodes, x \in Int : Climb(bus)[b][x] = At(b, x, Climb(bus)[Parent[b]])
  <2>. HIDE DEF At, Body
  <2>. QED  BY <1>6, <1>7
<1>9. \A b \in Nodes : Climb(bus)[b] = [x \in Int |-> Climb(bus)[b][x]]
  <2>1. \A b \in Nodes : Body(Climb(bus))[b] = [x \in Int |-> At(b, x, Climb(bus)[Parent[b]])]
    <3>. HIDE DEF At
    <3>. QED  OBVIOUS
  <2>. HIDE DEF At, Body
  <2>. QED  BY <1>6, <2>1
<1>. QED  BY <1>8, <1>9 DEF OneUp

LEMMA ClimbCases ==
  ASSUME dt \in Blobs, NEW bus, NEW b \in Nodes, NEW x \in Int
  PROVE  /\ b = bus => Climb(bus)[b][x] = {x}
         /\ b # bus /\ b = Root => Climb(bus)[b][x] = Images(b, x)
         /\ b # bus /\ b # Root =>
              Climb(bus)[b][x] = UNION {Climb(bus)[Parent[b]][y] : y \in Images(b, x)}
<1>1. Climb(bus)[b][x] = IF b = bus THEN {x}
                         ELSE IF b = Root THEN Images(b, x)
                         ELSE OneUp(Climb(bus), b, x)
  BY ClimbIs
<1>. QED  BY <1>1 DEF OneUp

LEMMA ReachIs ==
  ASSUME NEW n, NEW a, NEW bus
  PROVE  Reach(n, a, bus) = Climb(bus)[Parent[n]][a]
  BY DEF Reach, Climb
\* The function of DtDeviceTranslateRangeToCpu: how far up an address gets.
Up(len) ==
  CHOOSE up : up =
    [b \in Nodes |->
      [a \in 0..(Word - 1) |->
         IF DtDeviceTranslateRangeInternal(b, a, len) = Untranslated THEN [base |-> a, bus |-> b]
         ELSE IF b = Root THEN [base |-> DtDeviceTranslateRangeInternal(b, a, len), bus |-> Cpu]
         ELSE up[Parent[b]][DtDeviceTranslateRangeInternal(b, a, len)]]]

LEMMA TranslatedInWord ==
  ASSUME dt \in Blobs, NEW b \in Nodes, NEW a \in 0..(Word - 1), NEW len \in Nat
  PROVE  DtDeviceTranslateRangeInternal(b, a, len) \in (0..(Word - 1)) \cup {Untranslated}
<1>1. a \in Nat /\ Word \in Nat /\ Word > 0
  BY Sizes
<1>2. CASE b # Root /\ Has(b, "ranges") /\ dt[b]["ranges"] # <<>>
  <2>. DEFINE out == TranslateRanges(b, a, len, AtBegin(b, "ranges"))
  <2>1. out = Untranslated \/ \E e \in Entries(b) : out = ((a - e.child) + e.bus) % Word
    <3>1. \/ out = Untranslated /\ \A e \in Entries(b) : ~Inside(a, len, e)
          \/ \E e \in Entries(b) : Inside(a, len, e) /\ out = ((a - e.child) + e.bus) % Word
      BY <1>1, <1>2, RangesTranslated
    <3>. QED  BY <3>1, Zenon
  <2>2. \A e \in Entries(b) : ((a - e.child) + e.bus) % Word \in 0..(Word - 1)
    <3>1. \A x, y \in Nat : ((a - x) + y) % Word \in 0..(Word - 1)
      BY <1>1
    <3>. QED  BY <1>2, <3>1, EntriesTyped
  <2>3. DtDeviceTranslateRangeInternal(b, a, len) = out
    BY <1>2 DEF DtDeviceTranslateRangeInternal
  <2>. HIDE DEF out
  <2>. QED  BY <2>1, <2>2, <2>3
<1>3. CASE ~(b # Root /\ Has(b, "ranges") /\ dt[b]["ranges"] # <<>>)
  BY <1>3 DEF DtDeviceTranslateRangeInternal
<1>. QED  BY <1>2, <1>3

LEMMA UpIs ==
  ASSUME dt \in Blobs, NEW len \in Nat
  PROVE  \A b \in Nodes, a \in 0..(Word - 1) :
           LET out == DtDeviceTranslateRangeInternal(b, a, len)
           IN  Up(len)[b][a] = IF out = Untranslated THEN [base |-> a, bus |-> b]
                               ELSE IF b = Root THEN [base |-> out, bus |-> Cpu]
                               ELSE Up(len)[Parent[b]][out]
<1>. DEFINE W == 0..(Word - 1)
            End == [base : W, bus : Nodes \cup {Cpu}]
            H == [W -> End]
            Out(b, a) == DtDeviceTranslateRangeInternal(b, a, len)
            To(b, a, h) == IF Out(b, a) = Untranslated THEN [base |-> a, bus |-> b]
                           ELSE IF b = Root THEN [base |-> Out(b, a), bus |-> Cpu]
                           ELSE h[Out(b, a)]
            h0 == [a \in W |-> [base |-> a, bus |-> Cpu]]
            r == [a \in W |-> To(Root, a, h0)]
            G == [b \in Nodes \ {Root} |-> [h \in H |-> [a \in W |-> To(b, a, h)]]]
            Body(up) == [b \in Nodes |-> [a \in W |-> To(b, a, up[Parent[b]])]]
<1>1. \A b \in Nodes, a \in W : Out(b, a) \in W \cup {Untranslated}
  BY TranslatedInWord
<1>2. \A b \in Nodes, a \in W, h \in H : To(b, a, h) \in End
  <2>. HIDE DEF Out
  <2>. QED  BY <1>1
<1>3. r \in H
  <2>1. h0 \in H
    OBVIOUS
  <2>. HIDE DEF To, h0, End
  <2>. QED  BY <1>2, <2>1, Tree
<1>4. G \in [Nodes \ {Root} -> [H -> H]]
  <2>. HIDE DEF To, End, W
  <2>. QED  BY <1>2
<1>5. PICK f \in [Nodes -> H] : Climbs(f, r, G)
  <2>. HIDE DEF H, r, G
  <2>. QED  BY <1>3, <1>4, TypedRecursion
<1>6. f = Body(f)
  <2>1. f = [n \in Nodes |-> IF n = Root THEN r ELSE G[n][f[Parent[n]]]]
    BY <1>5 DEF Climbs
  <2>2. r = [a \in W |-> To(Root, a, f[Parent[Root]])]
    <3>. HIDE DEF Out, W
    <3>1. \A h, g : \A a \in W : Out(Root, a) \in W \cup {Untranslated} => To(Root, a, h) = To(Root, a, g)
      OBVIOUS
    <3>. HIDE DEF To, h0
    <3>. QED  BY <1>1, <3>1, Tree
  <2>3. \A n \in Nodes \ {Root} : f[Parent[n]] \in H
    <3>. HIDE DEF H
    <3>. QED  BY <1>5, Tree
  <2>4. \A n \in Nodes \ {Root} : G[n][f[Parent[n]]] = [a \in W |-> To(n, a, f[Parent[n]])]
    <3>. HIDE DEF H, To, W
    <3>. QED  BY SMTT(60), <2>3
  <2>5. \A n \in Nodes : f[n] = [a \in W |-> To(n, a, f[Parent[n]])]
    <3>. HIDE DEF r, G, To, W
    <3>. QED  BY <2>1, <2>2, <2>4
  <2>. HIDE DEF To, H, W
  <2>. QED  BY SMTT(60), <1>5, <2>5
<1>7. Up(len) = CHOOSE up : up = Body(up)
  BY DEF Up
<1>8. Up(len) = Body(Up(len))
  <2>. HIDE DEF Body
  <2>. QED  BY <1>6, <1>7
<1>9. \A b \in Nodes, a \in W : Body(Up(len))[b][a] = To(b, a, Up(len)[Parent[b]])
  <2>. HIDE DEF To, W
  <2>. QED  OBVIOUS
<1>10. \A b \in Nodes, a \in W : Up(len)[b][a] = To(b, a, Up(len)[Parent[b]])
  <2>. HIDE DEF To, Body, W
  <2>. QED  BY <1>8, <1>9
<1>. QED  BY <1>10
\* Where the translation of a range of addresses below b ends.
Ends(b, in, len, end) ==
  /\ end.bus \in Nodes \cup {Cpu} /\ end.bus <= b
  /\ end.base \in Nat /\ InWord(end.base, len)
  /\ \A o \in 0..(len - 1) : end.base + o \in Climb(end.bus)[b][in + o]
  /\ end.bus # Cpu => ~Held(end.bus, end.base, len)

LEMMA UpEnds ==
  ASSUME dt \in Blobs, RangesFit, NEW len \in Nat
  PROVE  \A b \in Nodes, in \in Nat : InWord(in, len) => Ends(b, in, len, Up(len)[b][in])
<1>. DEFINE S == {b \in Nodes : \A in \in Nat : InWord(in, len) => Ends(b, in, len, Up(len)[b][in])}
            Out(b, in) == DtDeviceTranslateRangeInternal(b, in, len)
<1>1. \A b \in Nodes, in \in Nat : InWord(in, len) =>
        /\ in \in 0..(Word - 1)
        /\ Out(b, in) = Untranslated => ~Held(b, in, len) /\ b # Root
        /\ Out(b, in) # Untranslated =>
             /\ Out(b, in) \in Nat /\ InWord(Out(b, in), len)
             /\ \A o \in 0..(len - 1) : Out(b, in) + o \in Images(b, in + o)
  <2>1. SUFFICES ASSUME NEW b \in Nodes, NEW in \in Nat, InWord(in, len)
                 PROVE  /\ in \in 0..(Word - 1)
                        /\ Out(b, in) = Untranslated => ~Held(b, in, len) /\ b # Root
                        /\ Out(b, in) # Untranslated =>
                             /\ Out(b, in) \in Nat /\ InWord(Out(b, in), len)
                             /\ \A o \in 0..(len - 1) : Out(b, in) + o \in Images(b, in + o)
    OBVIOUS
  <2>2. in \in 0..(Word - 1)
    BY <2>1, Sizes DEF InWord
  <2>3. /\ Out(b, in) = Untranslated => ~Held(b, in, len) /\ b # Root
        /\ Out(b, in) # Untranslated =>
             /\ Out(b, in) \in Nat /\ InWord(Out(b, in), len)
             /\ \A o \in 0..(len - 1) : Out(b, in) + o \in Images(b, in + o)
    BY <2>1, TranslatedByBytes
  <2>. QED  BY <2>2, <2>3
<1>2. \A b \in Nodes, in \in 0..(Word - 1) :
        Up(len)[b][in] = IF Out(b, in) = Untranslated THEN [base |-> in, bus |-> b]
                         ELSE IF b = Root THEN [base |-> Out(b, in), bus |-> Cpu]
                         ELSE Up(len)[Parent[b]][Out(b, in)]
  BY UpIs
<1>3. \A b \in Nodes, in \in Nat : InWord(in, len) /\ Out(b, in) = Untranslated => Ends(b, in, len, Up(len)[b][in])
  <2>1. SUFFICES ASSUME NEW b \in Nodes, NEW in \in Nat, InWord(in, len), Out(b, in) = Untranslated
                 PROVE  Ends(b, in, len, [base |-> in, bus |-> b])
    <3>. HIDE DEF Out
    <3>. QED  BY <1>1, <1>2
  <2>. DEFINE end == [base |-> in, bus |-> b]
  <2>2. ~Held(b, in, len) /\ b \in Nat
    BY <1>1, <2>1, Tree
  <2>3. \A o \in 0..(len - 1) : Climb(b)[b][in + o] = {in + o}
    <3>1. \A o \in 0..(len - 1) : in + o \in Int
      OBVIOUS
    <3>. QED  BY <3>1, ClimbCases
  <2>4. end.base = in /\ end.bus = b
    OBVIOUS
  <2>. HIDE DEF end
  <2>. QED  BY <2>1, <2>2, <2>3, <2>4 DEF Ends, end
<1>4. Root \in S
  <2>1. SUFFICES ASSUME NEW in \in Nat, InWord(in, len)
                 PROVE  Ends(Root, in, len, [base |-> Out(Root, in), bus |-> Cpu])
    <3>. HIDE DEF Out
    <3>. QED  BY <1>1, <1>2, Tree
  <2>. DEFINE out == Out(Root, in)
              end == [base |-> out, bus |-> Cpu]
  <2>2. /\ out \in Nat /\ InWord(out, len)
        /\ \A o \in 0..(len - 1) : out + o \in Images(Root, in + o)
    <3>. HIDE DEF Out
    <3>. QED  BY <1>1, <2>1, Tree
  <2>3. \A o \in 0..(len - 1) : Climb(Cpu)[Root][in + o] = Images(Root, in + o)
    <3>1. \A o \in 0..(len - 1) : in + o \in Int
      OBVIOUS
    <3>2. Root \in Nodes /\ Root # Cpu
      BY Tree
    <3>. QED  BY <3>1, <3>2, ClimbCases
  <2>4. Cpu <= Root
    BY Tree DEF Cpu
  <2>. HIDE DEF out
  <2>5. end.base = out /\ end.bus = Cpu
    OBVIOUS
  <2>. HIDE DEF end
  <2>6. Ends(Root, in, len, end)
    BY <2>2, <2>3, <2>4, <2>5 DEF Ends
  <2>. QED  BY <2>6 DEF end, out
<1>5. ASSUME NEW b \in Nodes \ {Root}, Parent[b] \in S PROVE b \in S
  <2>1. SUFFICES ASSUME NEW in \in Nat, InWord(in, len), Out(b, in) # Untranslated
                 PROVE  Ends(b, in, len, Up(len)[b][in])
    <3>. HIDE DEF Out
    <3>. QED  BY <1>3
  <2>. DEFINE out == Out(b, in)
              end == Up(len)[Parent[b]][out]
  <2>2. /\ out \in Nat /\ InWord(out, len)
        /\ \A o \in 0..(len - 1) : out + o \in Images(b, in + o)
        /\ Up(len)[b][in] = end
    <3>. HIDE DEF Out
    <3>. QED  BY <1>1, <1>2, <2>1
  <2>3. Ends(Parent[b], out, len, end)
    <3>. HIDE DEF Out, out
    <3>. QED  BY <1>5, <2>2
  <2>. HIDE DEF Out, out, end
  <2>4. Parent[b] \in Nodes /\ b \in Nat /\ Parent[b] \in Nat /\ Parent[b] < b
    BY Tree
  <2>5. end.bus \in Int /\ end.bus <= b /\ end.bus # b
    <3>1. end.bus \in Int /\ end.bus <= Parent[b]
      BY <2>3, Tree DEF Ends, Cpu
    <3>. QED  BY <2>4, <3>1
  <2>6. ASSUME NEW o \in 0..(len - 1) PROVE end.base + o \in Climb(end.bus)[b][in + o]
    <3>1. in + o \in Int
      OBVIOUS
    <3>2. Climb(end.bus)[b][in + o] = UNION {Climb(end.bus)[Parent[b]][y] : y \in Images(b, in + o)}
      BY <2>5, <3>1, ClimbCases
    <3>3. end.base + o \in Climb(end.bus)[Parent[b]][out + o] /\ out + o \in Images(b, in + o)
      BY <2>2, <2>3, <2>6 DEF Ends
    <3>. QED  BY <3>2, <3>3
  <2>7. Ends(b, in, len, end)
    BY <2>3, <2>5, <2>6 DEF Ends
  <2>. QED  BY <2>2, <2>7
<1>6. \A b \in Nodes : b \in S
  <2>. HIDE DEF S
  <2>. QED  BY <1>4, <1>5, TreeInduction
<1>. QED  BY <1>6

\* DtDeviceTranslateRangeToCpu: each byte of the range is where the ranges lead.
LEMMA TranslationExact ==
  ASSUME dt \in Blobs, RangesFit, NEW n \in Nodes \ {Root}, NEW in \in Nat, NEW len \in Nat,
         InWord(in, len), NEW end, end = DtDeviceTranslateRangeToCpu(n, in, len)
  PROVE  /\ end.bus \in Nodes \cup {Cpu} /\ end.base \in Nat /\ InWord(end.base, len)
         /\ \A o \in 0..(len - 1) : end.base + o \in Reach(n, in + o, end.bus)
         /\ end.bus # Cpu => ~Held(end.bus, end.base, len)
<1>1. end = Up(len)[Parent[n]][in]
  BY DEF DtDeviceTranslateRangeToCpu, Up
<1>2. Ends(Parent[n], in, len, end)
  BY <1>1, UpEnds, Tree
<1>3. \A o \in 0..(len - 1) : Reach(n, in + o, end.bus) = Climb(end.bus)[Parent[n]][in + o]
  BY ReachIs
<1>. QED  BY <1>2, <1>3 DEF Ends
-----------------------------------------------------------------------------
(* An entry of reg or ranges as a whole                                    *)

Kinds == {"reg", "ranges"}
ChildCells(kind) == IF kind = "reg" THEN 0 ELSE ChildAddressCells(Device)
LengthCells(kind) == IF kind = "reg" THEN SizeCells(Device) ELSE ChildSizeCells(Device)
FieldsOf(kind, p) == IF kind = "reg" THEN RegFields(Device, p) ELSE RangeFields(Device, p)

LEMMA ElementCells ==
  ASSUME dt \in Blobs, NEW kind \in Kinds
  PROVE  /\ ChildCells(kind) \in Nat /\ AddressCells(Device) \in Nat /\ LengthCells(kind) \in Nat
         /\ ElemCells(kind) = ChildCells(kind) + AddressCells(Device) + LengthCells(kind)
         /\ ElemCells(kind) \in Nat
<1>. DEFINE c == ChildAddressCells(Device)
            a == AddressCells(Device)
            s == ChildSizeCells(Device)
            z == SizeCells(Device)
<1>1. c \in Nat /\ s \in Nat /\ a \in Nat /\ z \in Nat
  BY CellCounts, Tree
<1>2. ElemCells(kind) = a + (IF kind = "reg" THEN z ELSE c + s)
  BY DEF ElemCells
<1>3. /\ ChildCells(kind) = IF kind = "reg" THEN 0 ELSE c
      /\ LengthCells(kind) = IF kind = "reg" THEN z ELSE s
  BY DEF ChildCells, LengthCells
<1>4. (IF kind = "reg" THEN 0 ELSE c) + a + (IF kind = "reg" THEN z ELSE s)
      = a + (IF kind = "reg" THEN z ELSE c + s)
  <2>. HIDE DEF c, a, s, z
  <2>. QED  BY <1>1
<1>. HIDE DEF c, s, z
<1>. QED  BY <1>1, <1>2, <1>3, <1>4

LEMMA RegFieldsAt ==
  ASSUME dt \in Blobs, NEW p, Inner(p), NEW a, a = AddressCells(Device), NEW s, s = SizeCells(Device)
  PROVE  /\ a > 0 /\ p.iter + (a + s) <= Len(p.data) =>
              RegFields(Device, p) =
                [ok |-> TRUE, child |-> 0, bus |-> Slice(p.data, p.iter, a),
                 len |-> Slice(p.data, p.iter + a, s), p |-> [p EXCEPT !.iter = p.iter + (a + s)]]
         /\ ~(a > 0 /\ p.iter + (a + s) <= Len(p.data)) => ~RegFields(Device, p).ok
<1>1. a \in Nat /\ s \in Nat
  BY CellCounts, Tree
<1>2. p \in Iterators /\ p.iter \in Nat /\ Len(p.data) \in Nat
  BY LenProperties DEF Inner, Iterators
<1>. DEFINE y == Field(p, a, 0)
            z == SizeField(y.p, s, 0)
            q == [p EXCEPT !.iter = p.iter + a]
<1>3. RegFields(Device, p) = Fields([ok |-> TRUE, val |-> 0], y, z)
  BY DEF RegFields, RegSize, ParseBusAddress, ParseSize
<1>4. q.iter = p.iter + a /\ q.data = p.data
      /\ [q EXCEPT !.iter = q.iter + s] = [p EXCEPT !.iter = p.iter + (a + s)]
  <2>1. \A x1, x2 : [[p EXCEPT !.iter = x1] EXCEPT !.iter = x2] = [p EXCEPT !.iter = x2]
    BY <1>2 DEF Iterators
  <2>2. q.iter = p.iter + a /\ q.data = p.data
    BY <1>2 DEF Iterators
  <2>3. p.iter + (a + s) = p.iter + a + s
    BY <1>1, <1>2
  <2>4. [q EXCEPT !.iter = q.iter + s] = [p EXCEPT !.iter = q.iter + s]
    BY <2>1
  <2>. QED  BY <2>2, <2>3, <2>4
<1>5. /\ a > 0 /\ p.iter + a <= Len(p.data) =>
           y = [ok |-> TRUE, val |-> Slice(p.data, p.iter, a), p |-> q] /\ Inner(q)
      /\ ~(a > 0 /\ p.iter + a <= Len(p.data)) => ~y.ok
  BY <1>1, FirstField
<1>6. a > 0 /\ p.iter + a <= Len(p.data) =>
      /\ p.iter + a + s <= Len(p.data) =>
           z = [ok |-> TRUE, val |-> Slice(p.data, p.iter + a, s), p |-> [q EXCEPT !.iter = q.iter + s]]
      /\ ~(p.iter + a + s <= Len(p.data)) => ~z.ok
  <2>1. ASSUME a > 0, p.iter + a <= Len(p.data)
        PROVE  y.p = q /\ Inner(q)
    BY <1>5, <2>1
  <2>2. ASSUME Inner(q)
        PROVE  /\ q.iter + s <= Len(q.data) =>
                    SizeField(q, s, 0) = [ok |-> TRUE, val |-> Slice(q.data, q.iter, s),
                                          p |-> [q EXCEPT !.iter = q.iter + s]]
               /\ ~(q.iter + s <= Len(q.data)) => ~SizeField(q, s, 0).ok
    <3>. HIDE DEF q
    <3>. QED  BY <1>1, <2>2, FirstField
  <2>. HIDE DEF q, y
  <2>. QED  BY <1>4, <2>1, <2>2
<1>7. /\ p.iter + (a + s) = p.iter + a + s
      /\ p.iter + a + s <= Len(p.data) => p.iter + a <= Len(p.data)
  BY <1>1, <1>2
<1>. HIDE DEF q, y, z
<1>8. ASSUME a > 0, p.iter + (a + s) <= Len(p.data)
      PROVE  Fields([ok |-> TRUE, val |-> 0], y, z) =
                [ok |-> TRUE, child |-> 0, bus |-> Slice(p.data, p.iter, a),
                 len |-> Slice(p.data, p.iter + a, s), p |-> [p EXCEPT !.iter = p.iter + (a + s)]]
  <2>1. /\ y.ok = TRUE /\ y.val = Slice(p.data, p.iter, a)
        /\ z.ok = TRUE /\ z.val = Slice(p.data, p.iter + a, s)
        /\ z.p = [p EXCEPT !.iter = p.iter + (a + s)]
    BY <1>4, <1>5, <1>6, <1>7, <1>8
  <2>. QED  BY <2>1 DEF Fields
<1>9. ASSUME ~(a > 0 /\ p.iter + (a + s) <= Len(p.data))
      PROVE  ~Fields([ok |-> TRUE, val |-> 0], y, z).ok
  <2>1. ~y.ok \/ ~z.ok
    BY <1>5, <1>6, <1>7, <1>9
  <2>. QED  BY <2>1 DEF Fields
<1>. QED  BY <1>3, <1>8, <1>9

\* What an entry says when it can be read.
LEMMA RegionFields ==
  ASSUME dt \in Blobs, NEW kind \in Kinds, NEW p, Inner(p),
         NEW c, c = ChildCells(kind), NEW a, a = AddressCells(Device), NEW s, s = LengthCells(kind),
         NEW f, f = FieldsOf(kind, p), f.ok
  PROVE  /\ p.iter + ElemCells(kind) <= Len(p.data)
         /\ f.child = Slice(p.data, p.iter, c)
         /\ f.bus = Slice(p.data, p.iter + c, a) /\ f.bus \in Nat
         /\ f.len = Slice(p.data, p.iter + c + a, s) /\ f.len \in Nat
         /\ f.p = [p EXCEPT !.iter = p.iter + ElemCells(kind)]
<1>1. /\ c \in Nat /\ a \in Nat /\ s \in Nat /\ ElemCells(kind) = c + a + s
      /\ p \in Iterators /\ p.iter \in Nat /\ p.data \in Seq(Cell) /\ Len(p.data) \in Nat
  BY ElementCells, LenProperties DEF Inner, Iterators
<1>2. CASE kind = "ranges"
  <2>1. c = ChildAddressCells(Device) /\ s = ChildSizeCells(Device) /\ f = RangeFields(Device, p)
    BY <1>2 DEF ChildCells, LengthCells, FieldsOf
  <2>2. /\ p.iter + (c + a + s) <= Len(p.data)
        /\ f = [ok |-> TRUE, child |-> Slice(p.data, p.iter, c), bus |-> Slice(p.data, p.iter + c, a),
                len |-> Slice(p.data, p.iter + c + a, s), p |-> [p EXCEPT !.iter = p.iter + (c + a + s)]]
    BY <2>1, RangeFieldsAt, Tree
  <2>3. Slice(p.data, p.iter + c, a) \in Nat
    <3>1. p.iter + c \in Nat /\ p.iter + c + a <= Len(p.data)
      BY <1>1, <2>2
    <3>. QED  BY <1>1, <3>1, SliceType
  <2>4. Slice(p.data, p.iter + c + a, s) \in Nat
    <3>1. p.iter + c + a \in Nat /\ p.iter + c + a + s <= Len(p.data)
      BY <1>1, <2>2
    <3>. QED  BY <1>1, <3>1, SliceType
  <2>. QED  BY <1>1, <2>2, <2>3, <2>4
<1>3. CASE kind = "reg"
  <2>1. c = 0 /\ s = SizeCells(Device) /\ f = RegFields(Device, p)
    BY <1>3 DEF ChildCells, LengthCells, FieldsOf
  <2>2. /\ p.iter + (a + s) <= Len(p.data)
        /\ f = [ok |-> TRUE, child |-> 0, bus |-> Slice(p.data, p.iter, a),
                len |-> Slice(p.data, p.iter + a, s), p |-> [p EXCEPT !.iter = p.iter + (a + s)]]
    BY <2>1, RegFieldsAt
  <2>3. p.iter + c = p.iter /\ c + a + s = a + s
    BY <1>1, <2>1
  <2>4. Slice(p.data, p.iter, a) \in Nat /\ Slice(p.data, p.iter, c) = 0
    <3>1. p.iter + a <= Len(p.data) /\ p.iter + 0 <= Len(p.data)
      BY <1>1, <2>2
    <3>. QED  BY <1>1, <2>1, <3>1, SliceType
  <2>5. Slice(p.data, p.iter + a, s) \in Nat
    <3>1. p.iter + a \in Nat /\ p.iter + a + s <= Len(p.data)
      BY <1>1, <2>2
    <3>. QED  BY <1>1, <3>1, SliceType
  <2>. QED  BY SMTT(60), <1>1, <2>2, <2>3, <2>4, <2>5
<1>. QED  BY <1>2, <1>3 DEF Kinds
RegionsFit ==
  \A kind \in Kinds : Has(Device, kind) =>
    LET cells == dt[Device][kind]
        c == ChildCells(kind)
        a == AddressCells(Device)
    IN  \A at \in 0..(Len(cells) - ElemCells(kind)) :
          InWord(Slice(cells, at + c, a), Slice(cells, at + c + a, LengthCells(kind)))

\* What RegionExact says of a region.
Exact(r) ==
  LET cells == dt[Device][r.kind]
      c == ChildCells(r.kind)
      a == AddressCells(Device)
  IN  /\ r.child = Slice(cells, r.at, c)
      /\ r.busBase = Slice(cells, r.at + c, a)
      /\ r.len = Slice(cells, r.at + c + a, LengthCells(r.kind))
      /\ \A o \in 0..(r.len - 1) : r.base + o \in Reach(Device, r.busBase + o, r.bus)
      /\ IF r.bus = Cpu THEN r.base + r.len <= CpuWord ELSE ~Held(r.bus, r.base, r.len)

\* An iterator over the cells of a property of the device.
Over(kind, p) == Inner(p) /\ p.data = dt[Device][kind] /\ Has(Device, kind)

LEMMA CpuRange ==
  ASSUME NEW end, end.base \in Nat, NEW len \in Nat, InWord(end.base, len), ValidCpuRange(end, len)
  PROVE  end.base + len <= CpuWord
<1>. DEFINE b == end.base
<1>1. /\ Word \in Nat /\ CpuWord \in Nat /\ b \in Nat /\ b + len < Word
      /\ b < CpuWord /\ (len # 0 => ((b + len) - 1) % Word < CpuWord)
  BY Sizes DEF InWord, ValidCpuRange
<1>. HIDE DEF b
<1>2. len # 0 => ((b + len) - 1) % Word = (b + len) - 1
  BY <1>1
<1>3. b + len <= CpuWord
  BY <1>1, <1>2
<1>. QED  BY <1>3 DEF b

\* What ParseRegion computes: the entry, its fields, where they lead, what is
\* there to be, and the memory map that takes it.
EntryAt(kind, p, i) == [p EXCEPT !.iter = @ + ElemCells(kind) * i]
ReadAt(kind, p, i) == FieldsOf(kind, EntryAt(kind, p, i))
EndAt(kind, p, i) == DtDeviceTranslateRangeToCpu(Device, ReadAt(kind, p, i).bus, ReadAt(kind, p, i).len)
RegionAt(kind, p, i) ==
  [kind |-> kind, at |-> EntryAt(kind, p, i).iter, child |-> ReadAt(kind, p, i).child,
   busBase |-> ReadAt(kind, p, i).bus, len |-> ReadAt(kind, p, i).len,
   base |-> EndAt(kind, p, i).base, bus |-> EndAt(kind, p, i).bus]
Wanted(ta, keep, fault) == [type |-> ta.type, attrs |-> ta.attrs, keep |-> keep, fault |-> fault]
MapAt(kind, p, i, fault) ==
  ApplyGcdTypeAndAttrs(EndAt(kind, p, i).base, ReadAt(kind, p, i).len,
                       Wanted(DtPropGetRegOrRangeEfiTypeAndAttrs(kind, i), TRUE, fault))

There(kind, p, i) == ElemCells(kind) # 0 /\ ~(Left(p) \div ElemCells(kind) <= i)

\* Where the results of ParseRegion come from.
Outcome(kind, p, i, fault, r) ==
  LET f == ReadAt(kind, p, i)
      cpu == EndAt(kind, p, i)
      ta == DtPropGetRegOrRangeEfiTypeAndAttrs(kind, i)
      map == MapAt(kind, p, i, fault)
  IN
  \/ /\ r.ok = FALSE /\ r.p = p
     /\ \/ r.gcd = gcd
        \/ /\ There(kind, p, i) /\ f.ok
           /\ cpu.bus = Cpu /\ f.len # 0 /\ ValidCpuRange(cpu, f.len)
           /\ ta.status = "EFI_SUCCESS" /\ map.ok # TRUE /\ r.gcd = map.gcd
  \/ /\ r.ok = TRUE /\ r.p = f.p
     /\ There(kind, p, i) /\ f.ok
     /\ r.reg = RegionAt(kind, p, i)
     /\ cpu.bus = Cpu => ValidCpuRange(cpu, f.len)
     /\ \/ (cpu.bus # Cpu \/ f.len = 0) /\ r.gcd = gcd
        \/ /\ cpu.bus = Cpu /\ f.len # 0 /\ ta.status = "EFI_SUCCESS" /\ map.ok /\ r.gcd = map.gcd

LEMMA RegionCases ==
  ASSUME NEW kind, NEW p, NEW i, NEW fault,
         NEW r, r = ParseRegion(kind, p, i, fault)
  PROVE  Outcome(kind, p, i, fault, r)
<1>. USE DEF Outcome
<1>. DEFINE from == EntryAt(kind, p, i)
            f == ReadAt(kind, p, i)
            cpu == EndAt(kind, p, i)
            ta == DtPropGetRegOrRangeEfiTypeAndAttrs(kind, i)
            map == MapAt(kind, p, i, fault)
            parsed == ParsedRegion(kind, from, f, cpu)
<1>1. r = IF ~There(kind, p, i) THEN NotParsed(p)
          ELSE Decoded(kind, p, i, from, f, fault)
  BY DEF ParseRegion, FieldsOf, EntryAt, ReadAt, There
<1>2. Decoded(kind, p, i, from, f, fault)
      = IF ~f.ok THEN NotParsed(p)
        ELSE IF cpu.bus = Cpu /\ ~ValidCpuRange(cpu, f.len) THEN ParseError(p, "EFI_UNSUPPORTED")
        ELSE IF cpu.bus # Cpu \/ f.len = 0 THEN parsed
        ELSE Typed(p, f, parsed, ta, fault)
  BY Zenon DEF Decoded, Translated, EndAt
<1>3. parsed.reg.base = cpu.base
  BY DEF ParsedRegion
<1>4. Typed(p, f, parsed, ta, fault)
      = IF ta.status # "EFI_SUCCESS" THEN ParseError(p, ta.status) ELSE MapRegion(p, parsed, map)
  BY <1>3, Zenon DEF Typed, MapAt, Wanted
<1>5. \A status : /\ ParseError(p, status).ok = FALSE /\ ParseError(p, status).p = p
                  /\ ParseError(p, status).gcd = gcd
  BY DEF ParseError
<1>6. NotParsed(p) = ParseError(p, "EFI_NOT_FOUND")
  BY DEF NotParsed
<1>7. map.ok => MapRegion(p, parsed, map) = [parsed EXCEPT !.gcd = map.gcd]
  BY DEF MapRegion
<1>8. ~map.ok => MapRegion(p, parsed, map) = [ParseError(p, "EFI_DEVICE_ERROR") EXCEPT !.gcd = map.gcd]
  BY DEF MapRegion
<1>9. /\ [parsed EXCEPT !.gcd = map.gcd].ok = TRUE /\ [parsed EXCEPT !.gcd = map.gcd].p = f.p
      /\ [parsed EXCEPT !.gcd = map.gcd].gcd = map.gcd /\ [parsed EXCEPT !.gcd = map.gcd].reg = parsed.reg
      /\ parsed.ok = TRUE /\ parsed.p = f.p /\ parsed.gcd = gcd
      /\ parsed.reg = RegionAt(kind, p, i)
  BY DEF ParsedRegion, RegionAt
<1>10. LET e == [ParseError(p, "EFI_DEVICE_ERROR") EXCEPT !.gcd = map.gcd]
       IN  e.ok = FALSE /\ e.p = p /\ e.gcd = map.gcd
  BY DEF ParseError
<1>. HIDE DEF parsed
<1>11. CASE ~There(kind, p, i) \/ ~f.ok
  BY <1>1, <1>2, <1>5, <1>6, <1>11, Zenon
<1>12. CASE There(kind, p, i) /\ f.ok
  <2>1. r = IF cpu.bus = Cpu /\ ~ValidCpuRange(cpu, f.len) THEN ParseError(p, "EFI_UNSUPPORTED")
            ELSE IF cpu.bus # Cpu \/ f.len = 0 THEN parsed
            ELSE IF ta.status # "EFI_SUCCESS" THEN ParseError(p, ta.status) ELSE MapRegion(p, parsed, map)
    BY <1>1, <1>2, <1>4, <1>12, Zenon
  <2>2. CASE cpu.bus = Cpu /\ ~ValidCpuRange(cpu, f.len)
    BY <1>5, <2>1, <2>2, Zenon
  <2>3. CASE ~(cpu.bus = Cpu /\ ~ValidCpuRange(cpu, f.len)) /\ (cpu.bus # Cpu \/ f.len = 0)
    <3>1. r = parsed
      BY <2>1, <2>3, Zenon
    <3>. QED  BY <1>9, <1>12, <2>3, <3>1, Zenon
  <2>4. CASE cpu.bus = Cpu /\ ValidCpuRange(cpu, f.len) /\ f.len # 0 /\ ta.status # "EFI_SUCCESS"
    <3>1. r = ParseError(p, ta.status)
      BY <2>1, <2>4, Zenon
    <3>. QED  BY <1>5, <3>1, Zenon
  <2>5. CASE cpu.bus = Cpu /\ ValidCpuRange(cpu, f.len) /\ f.len # 0 /\ ta.status = "EFI_SUCCESS" /\ map.ok
    <3>1. r = [parsed EXCEPT !.gcd = map.gcd]
      BY <1>7, <2>1, <2>5, Zenon
    <3>. QED  BY <1>9, <1>12, <2>5, <3>1, Zenon
  <2>6. CASE cpu.bus = Cpu /\ ValidCpuRange(cpu, f.len) /\ f.len # 0 /\ ta.status = "EFI_SUCCESS" /\ ~map.ok
    <3>1. r = [ParseError(p, "EFI_DEVICE_ERROR") EXCEPT !.gcd = map.gcd]
      BY <1>8, <2>1, <2>6, Zenon
    <3>. QED  BY <1>10, <1>12, <2>6, <3>1
  <2>. QED  BY <2>2, <2>3, <2>4, <2>5, <2>6
<1>. QED  BY <1>11, <1>12
\* The entry asked for is there as a whole.
LEMMA EntryInside ==
  ASSUME dt \in Blobs, NEW kind \in Kinds, NEW p, Over(kind, p), NEW i \in Nat,
         There(kind, p, i), NEW from, from = EntryAt(kind, p, i)
  PROVE  Over(kind, from) /\ from.iter + ElemCells(kind) <= Len(from.data) /\ from.name = p.name
<1>. DEFINE w == ElemCells(kind)
<1>1. /\ w \in Nat /\ w > 0 /\ p \in Iterators /\ p.iter \in Nat /\ Len(p.data) \in Nat
      /\ p.iter <= Len(p.data) /\ p.data \in Seq(Cell)
  BY ElementCells, LenProperties DEF Over, Inner, Iterators, There
<1>2. Left(p) \in Nat /\ Left(p) = Len(p.data) - p.iter
  BY <1>1 DEF Left
<1>3. w * i + w <= Left(p) /\ w * i \in Nat
  <2>1. ~(Left(p) \div w <= i)
    BY DEF There
  <2>. HIDE DEF w
  <2>2. Left(p) \div w <= i <=> Left(p) < w * i + w
    BY <1>1, <1>2, Quotient
  <2>. QED  BY <1>1, <1>2, <2>1, <2>2
<1>4. from.iter = p.iter + w * i /\ from.data = p.data /\ from.name = p.name /\ from \in Iterators
  <2>1. from = [p EXCEPT !.iter = p.iter + w * i]
    BY DEF EntryAt
  <2>2. p.iter + w * i \in Nat
    BY <1>1, <1>3
  <2>. HIDE DEF w
  <2>. QED  BY <1>1, <2>1, <2>2 DEF Iterators
<1>. HIDE DEF w
<1>5. from.iter + w <= Len(from.data) /\ from.iter <= Len(from.data)
  BY <1>1, <1>2, <1>3, <1>4
<1>. QED  BY <1>4, <1>5 DEF Over, Inner, w

OnBus(r) == "bus" \in DOMAIN r /\ r.bus \in Nodes \cup {Cpu}
\* A region read at a place where all of an entry is.
Placed(r) ==
  /\ r.kind \in Kinds /\ Has(Device, r.kind) /\ OnBus(r)
  /\ r.base \in Nat /\ r.len \in Nat /\ InWord(r.base, r.len)
  /\ r.at \in 0..(Len(dt[Device][r.kind]) - ElemCells(r.kind))

\* DtIoParsePropReg and DtIoParsePropRange: the region is what the entry says,
\* and the iterator is behind it.
LEMMA ParsedExactly ==
  ASSUME dt \in Blobs, RangesFit, RegionsFit, NEW kind \in Kinds, NEW p, Over(kind, p),
         NEW i \in Nat, NEW fault, NEW r, r = ParseRegion(kind, p, i, fault)
  PROVE  \/ r.ok = FALSE /\ r.p = p
         \/ /\ r.ok = TRUE /\ Over(kind, r.p) /\ r.p.name = p.name
            /\ Exact(r.reg) /\ Placed(r.reg)
<1>. DEFINE w == ElemCells(kind)
            c == ChildCells(kind)
            a == AddressCells(Device)
            s == LengthCells(kind)
            cells == dt[Device][kind]
            from == EntryAt(kind, p, i)
            f == ReadAt(kind, p, i)
            cpu == EndAt(kind, p, i)
            reg1 == RegionAt(kind, p, i)
<1>1. \/ r.ok = FALSE /\ r.p = p
      \/ /\ r.ok = TRUE /\ r.p = f.p /\ There(kind, p, i) /\ f.ok
         /\ r.reg = reg1 /\ (cpu.bus = Cpu => ValidCpuRange(cpu, f.len))
  <2>1. Outcome(kind, p, i, fault, r)
    BY RegionCases
  <2>. HIDE DEF reg1
  <2>. QED  BY <2>1, Zenon DEF Outcome, reg1
<1>2. SUFFICES ASSUME r.ok = TRUE, r.p = f.p, There(kind, p, i), f.ok, r.reg = reg1,
                      cpu.bus = Cpu => ValidCpuRange(cpu, f.len)
               PROVE  Over(kind, f.p) /\ f.p.name = p.name /\ Exact(reg1) /\ Placed(reg1)
  <2>3. Over(kind, f.p) /\ r.p = f.p /\ f.p.name = p.name => Over(kind, r.p) /\ r.p.name = p.name
    <3>. HIDE DEF f
    <3>. QED  OBVIOUS
  <2>4. Exact(reg1) /\ r.reg = reg1 /\ Placed(reg1) => Exact(r.reg) /\ Placed(r.reg)
    <3>. HIDE DEF reg1
    <3>. QED  OBVIOUS
  <2>. HIDE DEF reg1, cpu, f, w
  <2>. QED  BY <1>1, <2>3, <2>4, Zenon
<1>3. Over(kind, from) /\ from.iter + w <= Len(from.data) /\ from.name = p.name
  BY <1>2, EntryInside
<1>4. /\ c \in Nat /\ a \in Nat /\ s \in Nat /\ w \in Nat /\ w = c + a + s
      /\ from \in Iterators /\ from.iter \in Nat /\ Len(from.data) \in Nat /\ from.data = cells
  <2>1. from \in Iterators /\ from.data = cells
    <3>. HIDE DEF from
    <3>. QED  BY <1>3 DEF Over, Inner
  <2>. HIDE DEF from
  <2>. QED  BY <2>1, ElementCells, LenProperties DEF Iterators
<1>5. /\ f.child = Slice(cells, from.iter, c)
      /\ f.bus = Slice(cells, from.iter + c, a) /\ f.bus \in Nat
      /\ f.len = Slice(cells, from.iter + c + a, s) /\ f.len \in Nat
      /\ f.p = [from EXCEPT !.iter = from.iter + w]
  <2>1. Inner(from)
    BY <1>3 DEF Over
  <2>2. /\ f.child = Slice(from.data, from.iter, c)
        /\ f.bus = Slice(from.data, from.iter + c, a) /\ f.bus \in Nat
        /\ f.len = Slice(from.data, from.iter + c + a, s) /\ f.len \in Nat
        /\ f.p = [from EXCEPT !.iter = from.iter + w]
    <3>1. f = FieldsOf(kind, from)
      BY DEF ReadAt
    <3>. HIDE DEF from, f
    <3>. QED  BY <1>2, <2>1, <3>1, RegionFields
  <2>3. from.data = cells
    BY <1>4
  <2>. HIDE DEF from, f
  <2>. QED  BY <2>2, <2>3
<1>6. Over(kind, f.p) /\ f.p.name = p.name
  <2>1. from.iter + w \in Nat /\ from.iter + w <= Len(from.data)
    <3>. HIDE DEF from, w
    <3>. QED  BY <1>3, <1>4
  <2>. HIDE DEF from, w, f
  <2>2. f.p \in Iterators /\ f.p.iter = from.iter + w /\ f.p.data = from.data /\ f.p.name = from.name
    BY <1>4, <1>5, <2>1 DEF Iterators
  <2>. QED  BY <1>3, <2>1, <2>2 DEF Over, Inner
<1>11. Has(Device, kind) /\ from.iter \in 0..(Len(cells) - w)
  <2>1. Has(Device, kind) /\ Len(from.data) = Len(cells)
    <3>. HIDE DEF from
    <3>. QED  BY <1>3 DEF Over
  <2>2. from.iter \in 0..(Len(cells) - w)
    <3>. HIDE DEF from, w, cells
    <3>. QED  BY <1>3, <1>4, <2>1
  <2>. QED  BY <2>1, <2>2
<1>7. InWord(f.bus, f.len)
  <2>3. InWord(Slice(cells, from.iter + c, a), Slice(cells, from.iter + c + a, s))
    <3>. HIDE DEF from
    <3>. QED  BY <1>11 DEF RegionsFit
  <2>. HIDE DEF from, f, cells, a, c, s
  <2>. QED  BY <1>5, <2>3
<1>8. /\ cpu.bus \in Nodes \cup {Cpu} /\ cpu.base \in Nat /\ InWord(cpu.base, f.len)
      /\ \A o \in 0..(f.len - 1) : cpu.base + o \in Reach(Device, f.bus + o, cpu.bus)
      /\ cpu.bus # Cpu => ~Held(cpu.bus, cpu.base, f.len)
  <2>1. Device \in Nodes \ {Root} /\ f.bus \in Nat /\ f.len \in Nat
    BY <1>5, Tree
  <2>2. cpu = DtDeviceTranslateRangeToCpu(Device, f.bus, f.len)
    BY DEF EndAt
  <2>. HIDE DEF f, cpu
  <2>. QED  BY <1>7, <2>1, <2>2, TranslationExact
<1>9. cpu.bus = Cpu => cpu.base + f.len <= CpuWord
  <2>1. f.len \in Nat /\ cpu.base \in Nat
    BY <1>5, <1>8
  <2>. HIDE DEF f, cpu
  <2>. QED  BY <1>2, <1>8, <2>1, CpuRange
<1>10. Exact(reg1)
  <2>. HIDE DEF f, cpu, from
  <2>1. /\ reg1.kind = kind /\ reg1.at = from.iter /\ reg1.child = f.child /\ reg1.busBase = f.bus
        /\ reg1.len = f.len /\ reg1.base = cpu.base /\ reg1.bus = cpu.bus
    BY DEF RegionAt, f, cpu, from
  <2>. HIDE DEF reg1
  <2>. QED  BY <1>5, <1>8, <1>9, <2>1 DEF Exact
<1>12. Placed(reg1)
  <2>1. /\ reg1.kind = kind /\ reg1.bus = cpu.bus /\ reg1.at = from.iter
        /\ reg1.base = cpu.base /\ reg1.len = f.len /\ "bus" \in DOMAIN reg1
    BY DEF RegionAt
  <2>. HIDE DEF reg1, cpu, from, f
  <2>. QED  BY <1>5, <1>8, <1>11, <2>1 DEF Placed, OnBus
<1>. QED  BY <1>6, <1>10, <1>12
-----------------------------------------------------------------------------
(* While the devicetree stays the same, so does what it says               *)

LEMMA SameCells ==
  ASSUME dt' = dt
  PROVE  /\ \A n, name : Has(n, name)' <=> Has(n, name)
         /\ \A n : ChildAddressCells(n)' = ChildAddressCells(n) /\ ChildSizeCells(n)' = ChildSizeCells(n)
         /\ \A n : AddressCells(n)' = AddressCells(n) /\ SizeCells(n)' = SizeCells(n)
<1>1. \A n, name : Has(n, name)' <=> Has(n, name)
  BY DEF Has
<1>2. \A n, name, default : FdtCells(n, name, default)' = FdtCells(n, name, default)
  BY <1>1 DEF FdtCells
<1>3. \A n : ChildAddressCells(n)' = ChildAddressCells(n) /\ ChildSizeCells(n)' = ChildSizeCells(n)
  BY <1>2 DEF ChildAddressCells, ChildSizeCells, FdtGetAddressCells, FdtGetSizeCells
<1>. QED  BY <1>1, <1>3 DEF AddressCells, SizeCells

EntriesOf(cells, c, a, s) ==
  IF c = 0 \/ a = 0 THEN {}
  ELSE {[child |-> Slice(cells, at, c), bus |-> Slice(cells, at + c, a), len |-> Slice(cells, at + c + a, s)] :
        at \in {(c + a + s) * k : k \in 0..(Len(cells) \div (c + a + s) - 1)}}

LEMMA SameEntries ==
  ASSUME dt' = dt
  PROVE  /\ \A b : Entries(b)' = Entries(b)
         /\ \A b : Identity(b)' <=> Identity(b)
         /\ \A b, x : Images(b, x)' = Images(b, x)
         /\ \A b, a, len : Held(b, a, len)' <=> Held(b, a, len)
<1>1. \A b : Entries(b)' = Entries(b)
  <2>1. SUFFICES ASSUME NEW b PROVE Entries(b)' = Entries(b)
    OBVIOUS
  <2>2. Entries(b) = EntriesOf(dt[b]["ranges"], ChildAddressCells(b), AddressCells(b), ChildSizeCells(b))
    BY DEF Entries, EntriesOf
  <2>3. Entries(b)' = EntriesOf(dt'[b]["ranges"], ChildAddressCells(b)', AddressCells(b)', ChildSizeCells(b)')
    BY DEF Entries, EntriesOf
  <2>. QED  BY <2>2, <2>3, SameCells
<1>2. \A b : Identity(b)' <=> Identity(b)
  BY SameCells DEF Identity
<1>3. \A b, x : Images(b, x)' = Images(b, x)
  BY <1>1, <1>2, SameCells DEF Images
<1>4. \A b, a, len : Held(b, a, len)' <=> Held(b, a, len)
  BY <1>1, <1>2, SameCells DEF Held
<1>. QED  BY <1>1, <1>2, <1>3, <1>4

ClimbAt(bus, b, x) == Climb(bus)[b][x]
OneUpAt(bus, b, x) == OneUp(Climb(bus), b, x)
ClimbFrom(bus, b) == Climb(bus)[b]
ClimbEquation ==
  dt \in Blobs =>
    \A bus :
      /\ \A b \in Nodes, x \in Int :
           ClimbAt(bus, b, x) = IF b = bus THEN {x}
                                ELSE IF b = Root THEN Images(b, x)
                                ELSE OneUpAt(bus, b, x)
      /\ \A b \in Nodes : ClimbFrom(bus, b) = [x \in Int |-> ClimbAt(bus, b, x)]

LEMMA ClimbAlways == ClimbEquation
  BY ClimbIs DEF ClimbEquation, ClimbAt, ClimbFrom, OneUpAt

LEMMA SameClimb ==
  ASSUME dt \in Blobs, dt' = dt, NEW bus
  PROVE  /\ \A b \in Nodes, x \in Int : ClimbAt(bus, b, x)' = ClimbAt(bus, b, x)
         /\ \A b \in Nodes : ClimbFrom(bus, b)' = ClimbFrom(bus, b)
<1>1. ClimbEquation'
  BY ClimbAlways, PTL
<1>. DEFINE S == {b \in Nodes : \A x \in Int : ClimbAt(bus, b, x)' = ClimbAt(bus, b, x)}
<1>2. \A b \in Nodes, x \in Int :
        ClimbAt(bus, b, x)' = IF b = bus THEN {x}
                            ELSE IF b = Root THEN Images(b, x)
                            ELSE OneUpAt(bus, b, x)'
  BY <1>1, SameEntries DEF ClimbEquation
<1>3. \A b \in Nodes, x \in Int :
        ClimbAt(bus, b, x) = IF b = bus THEN {x}
                           ELSE IF b = Root THEN Images(b, x)
                           ELSE OneUpAt(bus, b, x)
  BY ClimbAlways DEF ClimbEquation
<1>4. Root \in S
  BY <1>2, <1>3, Tree
<1>5. ASSUME NEW b \in Nodes \ {Root}, Parent[b] \in S PROVE b \in S
  <2>1. \A x \in Int : OneUpAt(bus, b, x)' = OneUpAt(bus, b, x)
    <3>1. SUFFICES ASSUME NEW x \in Int PROVE OneUpAt(bus, b, x)' = OneUpAt(bus, b, x)
      OBVIOUS
    <3>2. Images(b, x)' = Images(b, x) /\ Images(b, x) \subseteq Int
      BY SameEntries, ImagesTyped
    <3>3. \A y \in Images(b, x) : Climb(bus)'[Parent[b]][y] = Climb(bus)[Parent[b]][y]
      BY <1>5, <3>2 DEF ClimbAt
    <3>. QED  BY <3>2, <3>3 DEF OneUp, OneUpAt
  <2>. QED  BY <1>2, <1>3, <2>1
<1>6. \A b \in Nodes : b \in S
  <2>. HIDE DEF S
  <2>. QED  BY <1>4, <1>5, TreeInduction
<1>7. \A b \in Nodes : ClimbFrom(bus, b)' = ClimbFrom(bus, b)
  <2>1. \A b \in Nodes : ClimbFrom(bus, b)' = [x \in Int |-> ClimbAt(bus, b, x)']
    BY <1>1 DEF ClimbEquation
  <2>2. \A b \in Nodes : ClimbFrom(bus, b) = [x \in Int |-> ClimbAt(bus, b, x)]
    BY ClimbAlways DEF ClimbEquation
  <2>3. \A b \in Nodes, x \in Int : ClimbAt(bus, b, x)' = ClimbAt(bus, b, x)
    BY <1>6
  <2>. QED  BY <2>1, <2>2, <2>3
<1>. QED  BY <1>6, <1>7

\* What there is above does not change.
LEMMA SameReach ==
  ASSUME dt \in Blobs, dt' = dt
  PROVE  \A x, bus : Reach(Device, x, bus)' = Reach(Device, x, bus)
<1>1. SUFFICES ASSUME NEW x, NEW bus PROVE Reach(Device, x, bus)' = Reach(Device, x, bus)
  OBVIOUS
<1>2. Reach(Device, x, bus) = ClimbFrom(bus, Parent[Device])[x]
  BY ReachIs DEF ClimbFrom
<1>3. Reach(Device, x, bus)' = ClimbFrom(bus, Parent[Device])'[x]
  BY DEF Reach, ClimbFrom, Climb
<1>. QED  BY <1>2, <1>3, SameClimb, Tree
LEMMA SameExact ==
  ASSUME dt \in Blobs, dt' = dt, NEW r, Placed(r), Exact(r)
  PROVE  Placed(r)' /\ Exact(r)'
<1>. USE DEF Placed
<1>1. ChildCells(r.kind)' = ChildCells(r.kind) /\ LengthCells(r.kind)' = LengthCells(r.kind)
      /\ AddressCells(Device)' = AddressCells(Device)
  BY SameCells DEF ChildCells, LengthCells
<1>2. /\ r.busBase = Slice(dt[Device][r.kind], r.at + ChildCells(r.kind), AddressCells(Device))
      /\ r.len = Slice(dt[Device][r.kind], r.at + ChildCells(r.kind) + AddressCells(Device), LengthCells(r.kind))
  BY DEF Exact
<1>3. \A o \in 0..(r.len - 1) : r.busBase + o \in Int =>
        Reach(Device, r.busBase + o, r.bus)' = Reach(Device, r.busBase + o, r.bus)
  <2>1. \A x \in Int : ClimbAt(r.bus, Parent[Device], x)' = ClimbAt(r.bus, Parent[Device], x)
    BY SameClimb, Tree
  <2>2. \A x : Reach(Device, x, r.bus) = ClimbAt(r.bus, Parent[Device], x)
    BY ReachIs DEF ClimbAt
  <2>3. \A x : Reach(Device, x, r.bus)' = ClimbAt(r.bus, Parent[Device], x)'
    BY DEF Reach, ClimbAt, Climb
  <2>. QED  BY <2>1, <2>2, <2>3
<1>4. r.busBase \in Nat
  <2>. DEFINE cells == dt[Device][r.kind]
              c == ChildCells(r.kind)
              a == AddressCells(Device)
  <2>1. /\ cells \in Seq(Cell) /\ Len(cells) \in Nat /\ c \in Nat /\ a \in Nat /\ LengthCells(r.kind) \in Nat
        /\ ElemCells(r.kind) = c + a + LengthCells(r.kind)
    BY PropertyCells, ElementCells, Tree DEF Kinds
  <2>2. r.at + c \in Nat /\ r.at + c + a <= Len(cells)
    <3>. HIDE DEF cells, c, a
    <3>1. r.at \in 0..(Len(cells) - ElemCells(r.kind))
      BY DEF cells
    <3>. QED  BY SMTT(60), <2>1, <3>1
  <2>3. Slice(cells, r.at + c, a) \in Nat
    <3>. HIDE DEF cells, c, a
    <3>. QED  BY <2>1, <2>2, SliceType
  <2>. QED  BY <1>2, <2>3
<1>5. \A o \in 0..(r.len - 1) : r.base + o \in Reach(Device, r.busBase + o, r.bus)'
  <2>1. \A o \in 0..(r.len - 1) : r.base + o \in Reach(Device, r.busBase + o, r.bus)
    BY DEF Exact
  <2>2. \A o \in 0..(r.len - 1) : r.busBase + o \in Int
    BY <1>4
  <2>. QED  BY <1>3, <2>1, <2>2
<1>6. IF r.bus = Cpu THEN r.base + r.len <= CpuWord ELSE ~Held(r.bus, r.base, r.len)'
  BY SameEntries DEF Exact
<1>7. Placed(r)'
  BY SameCells DEF ElemCells
<1>8. Exact(r)'
  <2>. HIDE DEF Placed
  <2>. QED  BY <1>1, <1>5, <1>6 DEF Exact
<1>. QED  BY <1>7, <1>8
-----------------------------------------------------------------------------
(* The calls of a driver, and the region it has                            *)

LEMMA StringIndex ==
  ASSUME dt \in Blobs, Has(Device, "reg-names"), NEW value, DtIoGetStringIndex(value) >= 0
  PROVE  DtIoGetStringIndex(value) \in Nat
<1>. DEFINE names == dt[Device]["reg-names"]
            I == {j \in 1..Len(names) : names[j] = value}
<1>1. DtIoGetStringIndex(value) = (IF I # {} THEN Min(I) ELSE 0) - 1
  BY DEF DtIoGetStringIndex, SelectInSeq
<1>2. Len(names) \in Nat
  BY BlobsAssumption, Tree, LenProperties DEF Has
<1>. HIDE DEF names
<1>3. I \in SUBSET Nat /\ \A j \in I : j \in Nat /\ j > 0
  BY <1>2
<1>4. I # {} => Min(I) \in I
  <2>1. SUFFICES ASSUME I # {} PROVE \E m \in I : \A n \in I : m <= n
    BY DEF Min
  <2>. HIDE DEF I
  <2>. QED  BY <1>3, <2>1, Least
<1>. DEFINE m == Min(I)
<1>. HIDE DEF I
<1>5. CASE I = {}
  <2>1. DtIoGetStringIndex(value) = 0 - 1
    BY <1>1, <1>5
  <2>. QED  BY <2>1
<1>6. CASE I # {}
  <2>1. DtIoGetStringIndex(value) = m - 1 /\ m \in Nat /\ m > 0
    BY <1>1, <1>3, <1>4, <1>6
  <2>. HIDE DEF m
  <2>2. m - 1 \in Nat
    BY <2>1
  <2>. QED  BY <2>1, <2>2
<1>. QED  BY <1>5, <1>6

\* What a step does to the property and the region of the driver.
ParsesFields == \E type \in FieldParsers, i \in Nat : DtIoParseProp(type, i)
ParsesStrings == \E i \in Nat : DtIoParsePropString(i)
ParsesRegion == \E kind \in Kinds, i \in Nat, f \in Faults : DtIoParsePropRegion(kind, i, f)
GetsRegion == \E kind \in Kinds, i \in Nat, f \in Faults : DtIoGetRegion(kind, i, f)
GetsProp == \E name \in DOMAIN dt[Device] : DtIoGetProp(name)
Elsewhere == UNCHANGED <<dt, prop, reg>>

LEMMA CallKinds ==
  ASSUME dt \in Blobs, Next
  PROVE  Elsewhere \/ GetsProp \/ ParsesFields \/ ParsesStrings \/ ParsesRegion \/ GetsRegion
<1>1. \A i \in Indices : i \in Nat
  BY DEF Indices
<1>2. CASE \E name \in DOMAIN dt[Device] : DtIoGetProp(name)
  BY <1>2 DEF GetsProp
<1>3. CASE \E type \in FieldParsers, i \in Indices : DtIoParseProp(type, i)
  BY <1>1, <1>3 DEF ParsesFields
<1>4. CASE \E i \in Indices : DtIoParsePropString(i)
  BY <1>1, <1>4 DEF ParsesStrings
<1>5. CASE \E i \in Indices, f \in Faults : DtIoGetReg(i, f) \/ DtIoGetRange(i, f)
  BY <1>1, <1>5 DEF GetsRegion, DtIoGetReg, DtIoGetRange, Kinds
<1>6. CASE \E i \in Indices, f \in Faults : \E kind \in {"reg", "ranges"} : DtIoParsePropRegion(kind, i, f)
  BY <1>1, <1>6 DEF ParsesRegion, Kinds
<1>7. CASE \E s \in Names, f \in Faults : DtIoGetRegByName(s, f)
  <2>1. PICK s \in Names, f \in Faults : DtIoGetRegByName(s, f)
    BY <1>7
  <2>2. DtIoGetStringIndex(s) \in Nat /\ DtIoGetRegion("reg", DtIoGetStringIndex(s), f)
    BY <2>1, StringIndex DEF DtIoGetRegByName, DtIoGetReg
  <2>. QED  BY <2>2 DEF GetsRegion, Kinds
<1>8. CASE \E c \in DOMAIN RegTypes, attrs \in Attributes, f \in Faults : DtIoSetRegType(RegTypes[c], attrs, f)
  BY <1>8 DEF DtIoSetRegType, Elsewhere
<1>9. CASE \E b \in SampleBuses : DtIoSetCallbacks(b)
  BY <1>9 DEF DtIoSetCallbacks, Elsewhere
<1>10. CASE \E w \in Widths, off \in Offsets, count \in Counts :
              \/ \E op \in {"read", "write"} : DtIoReadWriteReg(op, w, off, count)
              \/ \E src \in Offsets : DtIoCopyReg(w, off, src, count)
  BY <1>10 DEF DtIoReadWriteReg, DtIoCopyReg, Elsewhere
<1>11. CASE \E delay \in Delays, up \in BOOLEAN, tick \in 0..EndTick, hw \in BOOLEAN : DtIoPollReg(delay, up, tick, hw)
  BY <1>11 DEF DtIoPollReg, PollStart, Elsewhere
<1>12. CASE PollStep
  BY <1>12 DEF PollStep, PollRead, PollTick, Clock, HwChange, PollReturn, Elsewhere
<1>. QED  BY <1>2, <1>3, <1>4, <1>5, <1>6, <1>7, <1>8, <1>9, <1>10, <1>11, <1>12, Zenon DEF Next

LEMMA StepKinds ==
  ASSUME dt \in Blobs, [DtNext]_allVars
  PROVE  Elsewhere \/ GetsProp \/ ParsesFields \/ ParsesStrings \/ ParsesRegion \/ GetsRegion
<1>1. CASE HmNext
  BY <1>1 DEF HmNext, DriverStart, SetMemoryAttributes, DriverStop, ProcessMemoryRanges, SetRegType, Quiet, Elsewhere
<1>2. CASE \E b \in SampleBuses : DtIoSetCallbacks(b)
  BY <1>2 DEF DtIoSetCallbacks, Elsewhere
<1>3. CASE RbNext
  <2>1. CASE Next
    BY <2>1, CallKinds
  <2>2. CASE PollStep
    BY <2>2 DEF PollStep, PollRead, PollTick, Clock, HwChange, PollReturn, Elsewhere
  <2>3. CASE \E b \in SampleBuses : DtIoSetCallbacks(b)
    BY <1>2, <2>3
  <2>4. CASE \E f \in Faults : RbConfig(f) \/ RbFirstReg(f) \/ RbRange(f)
    BY <2>4 DEF RbConfig, RbFirstReg, RbRange, Elsewhere
  <2>5. CASE RbBusRange \/ RbFree
    BY <2>5 DEF RbBusRange, RbFree, Elsewhere
  <2>6. CASE \E w \in Widths, a \in Addresses, count \in Counts :
               \/ \E op \in {"read", "write"} : RootBridgeIoMem(op, w, a, count) \/ RootBridgeIoIo(op, w, a, count)
               \/ \E src \in Addresses : RootBridgeIoCopyMem(w, a, src, count)
    BY <2>6 DEF RootBridgeIoMem, RootBridgeIoIo, RootBridgeIoAccess, RootBridgeIoCopyMem, Elsewhere
  <2>7. CASE \E a \in Addresses, space \in {"io", "mem"}, delay \in Delays, up \in BOOLEAN,
               tick \in 0..EndTick, hw \in BOOLEAN : RootBridgeIoPoll(space, a, delay, up, tick, hw)
    BY <2>7 DEF RootBridgeIoPoll, PollStart, Elsewhere
  <2>8. CASE \E op \in {"read", "write"}, w \in Widths, bus \in 0..(CellBase - 1), function \in 0..(MaxFunction + 1),
               r \in 0..(ConfigSize - 1), extended \in BOOLEAN, count \in Counts :
               RootBridgeIoPciAccess(op, w, bus, function, r, extended, count)
    BY <2>8 DEF RootBridgeIoPciAccess, Elsewhere
  <2>. QED  BY <1>3, <2>1, <2>2, <2>3, <2>4, <2>5, <2>6, <2>7, <2>8, Zenon DEF RbNext
<1>4. CASE UNCHANGED allVars
  BY <1>4 DEF allVars, pciVars, vars, Elsewhere
<1>. QED  BY ZenonT(60), <1>1, <1>2, <1>3, <1>4 DEF DtNext
AddressesFit == RangesFit /\ RegionsFit

LEMMA SameFit ==
  ASSUME dt' = dt, AddressesFit
  PROVE  AddressesFit'
<1>1. RangesFit'
  <2>1. RangesFit
    BY DEF AddressesFit
  <2>. QED  BY <2>1, SameEntries, SameCells DEF RangesFit
<1>2. RegionsFit'
  <2>1. RegionsFit
    BY DEF AddressesFit
  <2>2. \A kind : /\ ChildCells(kind)' = ChildCells(kind) /\ LengthCells(kind)' = LengthCells(kind)
                  /\ ElemCells(kind)' = ElemCells(kind)
    BY SameCells DEF ChildCells, LengthCells, ElemCells
  <2>. QED  BY <2>1, <2>2, SameCells DEF RegionsFit
<1>. QED  BY <1>1, <1>2 DEF AddressesFit

\* Reading a field moves the iterator inside the property, or not at all.
LEMMA FieldStays ==
  ASSUME NEW p, Inner(p), NEW n \in Nat, NEW i \in Nat
  PROVE  /\ Inner(Field(p, n, i).p) /\ Field(p, n, i).p.name = p.name /\ Field(p, n, i).p.data = p.data
         /\ Inner(SizeField(p, n, i).p) /\ SizeField(p, n, i).p.name = p.name
         /\ SizeField(p, n, i).p.data = p.data
<1>1. Inner(Field(p, n, i).p) /\ Field(p, n, i).p.name = p.name /\ Field(p, n, i).p.data = p.data
  <2>1. CASE n > 0 /\ p.iter + n * i + n <= Len(p.data)
    <3>. DEFINE q == [p EXCEPT !.iter = p.iter + n * i + n]
    <3>1. Field(p, n, i).p = q /\ Inner(Field(p, n, i).p)
      BY <2>1, FieldIs
    <3>2. q.name = p.name /\ q.data = p.data
      BY DEF Inner, Iterators
    <3>. HIDE DEF q
    <3>. QED  BY <3>1, <3>2
  <2>2. CASE ~(n > 0 /\ p.iter + n * i + n <= Len(p.data))
    <3>1. Field(p, n, i) = NotFound(p)
      BY <2>2, FieldIs
    <3>. QED  BY <3>1 DEF NotFound
  <2>. QED  BY <2>1, <2>2
<1>2. SizeField(p, n, i).p = p \/ SizeField(p, n, i).p = Field(p, n, i).p
  BY DEF SizeField
<1>. QED  BY <1>1, <1>2

LEMMA ParsedFieldStays ==
  ASSUME dt \in Blobs, Inner(prop), NEW type \in FieldParsers, NEW i \in Nat
  PROVE  /\ Inner(ParseField(type, i).p) /\ ParseField(type, i).p.name = prop.name
         /\ ParseField(type, i).p.data = prop.data
<1>1. /\ ChildAddressCells(Device) \in Nat /\ ChildSizeCells(Device) \in Nat
      /\ AddressCells(Device) \in Nat /\ SizeCells(Device) \in Nat
  BY CellCounts, Tree
<1>2. PICK n \in Nat : ParseField(type, i) = Field(prop, n, i) \/ ParseField(type, i) = SizeField(prop, n, i)
  <2>1. CASE type = "U32"
    BY <2>1 DEF ParseField, ParseU32
  <2>2. CASE type = "U64"
    BY <2>2 DEF ParseField, ParseU64
  <2>3. CASE type = "BusAddress"
    BY <1>1, <2>3 DEF ParseField, ParseBusAddress
  <2>4. CASE type = "ChildBusAddress"
    BY <1>1, <2>4 DEF ParseField, ParseChildBusAddress
  <2>5. CASE type = "Size"
    BY <1>1, <2>5 DEF ParseField, ParseSize
  <2>6. CASE type = "ChildSize"
    BY <1>1, <2>6 DEF ParseField, ParseChildSize
  <2>. QED  BY <2>1, <2>2, <2>3, <2>4, <2>5, <2>6 DEF FieldParsers
<1>3. /\ Inner(Field(prop, n, i).p) /\ Field(prop, n, i).p.name = prop.name
      /\ Field(prop, n, i).p.data = prop.data
  BY FieldStays
<1>4. /\ Inner(SizeField(prop, n, i).p) /\ SizeField(prop, n, i).p.name = prop.name
      /\ SizeField(prop, n, i).p.data = prop.data
  BY FieldStays
<1>. QED  BY <1>2, <1>3, <1>4

\* An iterator of the driver, and its region.
Properties == [name : STRING \cup {"none"}, data : Seq(Cell) \cup Seq(STRING), iter : Nat]
PropInv ==
  /\ prop \in Properties /\ prop.iter <= Len(prop.data)
  /\ prop.name \notin {"none", "reg-names"} => Over(prop.name, prop)
RegionInv ==
  /\ dt \in Blobs /\ AddressesFit /\ PropInv
  /\ reg = NoReg \/ (Placed(reg) /\ Exact(reg))

LEMMA RegionInit ==
  ASSUME Init, AddressesFit
  PROVE  RegionInv
<1>1. prop = NoProp /\ reg = NoReg /\ dt \in Blobs
  BY DEF Init
<1>2. <<>> \in Seq(Cell) /\ Len(<<>>) = 0
  OBVIOUS
<1>3. PropInv
  <2>1. \A d \in Seq(Cell) : [name |-> "none", data |-> d, iter |-> 0] \in Properties
    BY DEF Properties
  <2>2. prop \in Properties /\ prop.iter = 0 /\ prop.name = "none" /\ prop.data = <<>>
    BY <1>1, <1>2, <2>1 DEF NoProp
  <2>. QED  BY <1>2, <2>2 DEF PropInv
<1>. QED  BY <1>1, <1>3 DEF RegionInv

\* An iterator over cells is a property.
LEMMA OverProperty ==
  ASSUME NEW p, Inner(p)
  PROVE  p \in Properties /\ p.iter <= Len(p.data)
  BY DEF Inner, Iterators, Properties

LEMMA GotExactly ==
  ASSUME dt \in Blobs, AddressesFit, NEW kind \in Kinds, NEW i \in Nat, NEW fault,
         NEW r, r = GetRegion(kind, i, fault)
  PROVE  r.ok = FALSE \/ (r.ok = TRUE /\ Exact(r.reg) /\ Placed(r.reg))
<1>1. CASE Has(Device, kind)
  <2>1. Over(kind, AtBegin(Device, kind))
    BY <1>1, PropertyCells, Tree DEF Over, Kinds
  <2>2. r = ParseRegion(kind, AtBegin(Device, kind), i, fault)
    BY <1>1 DEF GetRegion
  <2>3. RangesFit /\ RegionsFit
    BY DEF AddressesFit
  <2>4. PICK p : p = AtBegin(Device, kind)
    OBVIOUS
  <2>5. Over(kind, p) /\ r = ParseRegion(kind, p, i, fault)
    BY <2>1, <2>2, <2>4
  <2>6. \/ r.ok = FALSE /\ r.p = p
        \/ /\ r.ok = TRUE /\ Over(kind, r.p) /\ r.p.name = p.name
           /\ Exact(r.reg) /\ Placed(r.reg)
    BY <2>3, <2>5, ParsedExactly
  <2>. QED  BY <2>6
<1>2. CASE ~Has(Device, kind)
  <2>1. r = NotParsed(NoProp)
    BY <1>2 DEF GetRegion
  <2>. QED  BY <2>1 DEF NotParsed, ParseError
<1>. QED  BY <1>1, <1>2

LEMMA RegionStep ==
  ASSUME RegionInv, [DtNext]_allVars
  PROVE  RegionInv'
<1>1. dt \in Blobs /\ AddressesFit /\ PropInv /\ (reg = NoReg \/ (Placed(reg) /\ Exact(reg)))
  BY DEF RegionInv
<1>2. Elsewhere \/ GetsProp \/ ParsesFields \/ ParsesStrings \/ ParsesRegion \/ GetsRegion
  BY <1>1, StepKinds
<1>3. dt' = dt
  BY <1>2 DEF Elsewhere, GetsProp, DtIoGetProp, ParsesFields, DtIoParseProp, ParsesStrings, DtIoParsePropString,
              ParsesRegion, DtIoParsePropRegion, GetsRegion, DtIoGetRegion
<1>4. dt' \in Blobs /\ AddressesFit'
  BY <1>1, <1>3, SameFit
<1>5. \A r : Placed(r) /\ Exact(r) => Placed(r)' /\ Exact(r)'
  BY <1>1, <1>3, SameExact
<1>6. ASSUME reg' = reg PROVE (reg = NoReg \/ (Placed(reg) /\ Exact(reg)))'
  <2>1. CASE reg = NoReg
    BY <1>6, <2>1 DEF NoReg
  <2>2. CASE Placed(reg) /\ Exact(reg)
    <3>1. PICK r : r = reg
      OBVIOUS
    <3>2. Placed(r)' /\ Exact(r)' /\ reg' = r
      BY <1>5, <1>6, <2>2, <3>1
    <3>3. Placed(reg)' /\ Exact(reg)'
      BY <1>3, <3>2 DEF Placed, Exact
    <3>. QED  BY <3>3
  <2>. QED  BY <1>1, <2>1, <2>2
<1>7. ASSUME NEW p, Over(p.name, p), prop' = p PROVE PropInv'
  <2>1. p \in Properties /\ p.iter <= Len(p.data)
    BY <1>7, OverProperty DEF Over
  <2>2. Over(prop.name, prop)'
    BY <1>3, <1>7, SameCells DEF Over
  <2>. QED  BY <1>7, <2>1, <2>2 DEF PropInv
<1>8. ASSUME prop' = prop PROVE PropInv'
  <2>1. prop.name \notin {"none", "reg-names"} => Over(prop.name, prop)'
    BY <1>1, <1>3, <1>8, SameCells DEF Over, PropInv
  <2>. QED  BY <1>1, <1>8, <2>1 DEF PropInv
<1>10. CASE Elsewhere
  BY <1>4, <1>6, <1>8, <1>10 DEF Elsewhere, RegionInv
<1>11. CASE GetsProp
  <2>1. PICK name \in DOMAIN dt[Device] : DtIoGetProp(name)
    BY <1>11 DEF GetsProp
  <2>2. Has(Device, name) /\ prop' = AtBegin(Device, name) /\ reg' = reg
    BY <2>1 DEF DtIoGetProp
  <2>3. CASE name # "reg-names"
    <3>1. Over(name, AtBegin(Device, name)) /\ AtBegin(Device, name).name = name
      BY <1>1, <2>2, <2>3, PropertyCells, Tree DEF Over
    <3>2. PropInv'
      BY <1>7, <2>2, <3>1
    <3>. QED  BY <1>4, <1>6, <2>2, <3>2 DEF RegionInv
  <2>4. CASE name = "reg-names"
    <3>1. dt[Device][name] \in Seq(STRING) /\ Len(dt[Device][name]) \in Nat
      BY <1>1, <2>2, <2>4, BlobsAssumption, Tree, LenProperties DEF Has
    <3>2. PropInv'
      <4>1. prop' = [name |-> name, data |-> dt[Device][name], iter |-> 0]
        BY <2>2 DEF AtBegin
      <4>2. name \in STRING
        BY <1>1, BlobsAssumption, Tree
      <4>3. prop' \in Properties /\ prop'.iter = 0 /\ prop'.name = name
            /\ prop'.data = dt[Device][name]
        BY <3>1, <4>1, <4>2 DEF Properties
      <4>. QED  BY <2>4, <3>1, <4>3 DEF PropInv
    <3>. QED  BY <1>4, <1>6, <2>2, <3>2 DEF RegionInv
  <2>. QED  BY <2>3, <2>4
<1>12. CASE ParsesFields
  <2>1. PICK type \in FieldParsers, i \in Nat : DtIoParseProp(type, i)
    BY <1>12 DEF ParsesFields
  <2>2. /\ prop.name \notin {"none", "reg-names"} /\ prop' = ParseField(type, i).p /\ reg' = reg
    BY <2>1 DEF DtIoParseProp
  <2>3. Over(prop.name, prop)
    BY <1>1, <2>2 DEF PropInv
  <2>4. Over(prop'.name, prop') /\ prop'.name = prop.name
    BY <1>1, <2>2, <2>3, ParsedFieldStays DEF Over
  <2>5. PropInv'
    BY <1>7, <2>4
  <2>. QED  BY <1>4, <1>6, <2>2, <2>5 DEF RegionInv
<1>13. CASE ParsesStrings
  <2>1. PICK i \in Nat : DtIoParsePropString(i)
    BY <1>13 DEF ParsesStrings
  <2>2. /\ prop.name = "reg-names" /\ reg' = reg
        /\ prop' = IF Left(prop) <= i THEN prop ELSE [prop EXCEPT !.iter = @ + i + 1]
    BY <2>1 DEF DtIoParsePropString
  <2>3. prop \in Properties /\ prop.iter \in Nat /\ Len(prop.data) \in Nat /\ prop.iter <= Len(prop.data)
    BY <1>1, LenProperties DEF PropInv, Properties
  <2>4. PropInv'
    <3>1. CASE Left(prop) <= i
      BY <1>8, <2>2, <3>1
    <3>2. CASE ~(Left(prop) <= i)
      <4>1. prop.iter + i + 1 \in Nat /\ prop.iter + i + 1 <= Len(prop.data)
        BY <2>3, <3>2 DEF Left
      <4>2. prop' = [prop EXCEPT !.iter = prop.iter + i + 1]
        BY <2>2, <3>2
      <4>3. prop' \in Properties /\ prop'.iter = prop.iter + i + 1 /\ prop'.data = prop.data
            /\ prop'.name = prop.name
        BY <2>3, <4>1, <4>2 DEF Properties
      <4>. QED  BY <2>2, <4>1, <4>3 DEF PropInv
    <3>. QED  BY <3>1, <3>2
  <2>. QED  BY <1>4, <1>6, <2>2, <2>4 DEF RegionInv
<1>14. CASE ParsesRegion
  <2>1. PICK kind \in Kinds, i \in Nat, f \in Faults : DtIoParsePropRegion(kind, i, f)
    BY <1>14 DEF ParsesRegion
  <2>. DEFINE r == ParseRegion(kind, prop, i, f)
  <2>2. prop.name = kind /\ prop' = r.p /\ reg' = IF r.ok THEN r.reg ELSE reg
    BY <2>1 DEF DtIoParsePropRegion
  <2>3. Over(kind, prop)
    BY <1>1, <2>2 DEF PropInv, Kinds
  <2>4. \/ r.ok = FALSE /\ r.p = prop
        \/ /\ r.ok = TRUE /\ Over(kind, r.p) /\ r.p.name = prop.name
           /\ Exact(r.reg) /\ Placed(r.reg)
    <3>1. RangesFit /\ RegionsFit
      BY <1>1 DEF AddressesFit
    <3>. QED  BY <1>1, <2>3, <3>1, ParsedExactly
  <2>. HIDE DEF r
  <2>5. CASE r.ok = FALSE /\ r.p = prop
    BY <1>4, <1>6, <1>8, <2>2, <2>5 DEF RegionInv
  <2>6. CASE r.ok = TRUE /\ Over(kind, r.p) /\ r.p.name = prop.name /\ Exact(r.reg) /\ Placed(r.reg)
    <3>1. PropInv'
      BY <1>7, <2>2, <2>6
    <3>2. reg' = r.reg
      BY <2>2, <2>6
    <3>3. PICK g : g = r.reg
      OBVIOUS
    <3>4. Placed(g)' /\ Exact(g)' /\ reg' = g
      BY <1>5, <2>6, <3>2, <3>3
    <3>5. Placed(reg)' /\ Exact(reg)'
      BY <1>3, <3>4 DEF Placed, Exact
    <3>. QED  BY <1>4, <3>1, <3>5 DEF RegionInv
  <2>. QED  BY <2>4, <2>5, <2>6
<1>15. CASE GetsRegion
  <2>1. PICK kind \in Kinds, i \in Nat, f \in Faults : DtIoGetRegion(kind, i, f)
    BY <1>15 DEF GetsRegion
  <2>. DEFINE r == GetRegion(kind, i, f)
  <2>2. prop' = prop /\ reg' = IF r.ok THEN r.reg ELSE reg
    BY <2>1 DEF DtIoGetRegion
  <2>4. r.ok = FALSE \/ (r.ok = TRUE /\ Exact(r.reg) /\ Placed(r.reg))
    BY <1>1, GotExactly
  <2>. HIDE DEF r
  <2>5. CASE r.ok = FALSE
    BY <1>4, <1>6, <1>8, <2>2, <2>5 DEF RegionInv
  <2>6. CASE r.ok = TRUE /\ Exact(r.reg) /\ Placed(r.reg)
    <3>1. PICK g : g = r.reg
      OBVIOUS
    <3>2. Placed(g)' /\ Exact(g)' /\ reg' = g
      BY <1>5, <2>2, <2>6, <3>1
    <3>3. Placed(reg)' /\ Exact(reg)'
      BY <1>3, <3>2 DEF Placed, Exact
    <3>. QED  BY <1>4, <1>8, <2>2, <3>3 DEF RegionInv
  <2>. QED  BY <2>4, <2>5, <2>6
<1>. QED  BY <1>2, <1>10, <1>11, <1>12, <1>13, <1>14, <1>15
LEMMA RegionInvExact == RegionInv => RegionExact
  BY DEF RegionInv, RegionExact, Exact, ChildCells, LengthCells

\* For devicetrees none of whose ranges runs over the end of 128 bits, which
\* DtDeviceTranslateRangeInternal does not look for when it adds: a region that
\* DtIoGetReg, DtIoGetRange or a parser gave to the driver is what its entry
\* says, and every byte of it is where the ranges of the buses above lead,
\* however many buses there are.
THEOREM RegionsExact == DtSpec /\ AddressesFit => []RegionExact
<1>1. Init /\ AddressesFit => RegionInv
  BY RegionInit
<1>2. RegionInv /\ [DtNext]_allVars => RegionInv'
  BY RegionStep
<1>3. DtInit => Init
  BY DEF DtInit, RbInit
<1>. QED  BY <1>1, <1>2, <1>3, RegionInvExact, PTL DEF DtSpec
-----------------------------------------------------------------------------
(* DtIoPollReg                                                             *)

LEMMA Remainder ==
  ASSUME NEW a \in Int, NEW m \in Nat \ {0}
  PROVE  /\ a % m \in 0..(m - 1)
         /\ a >= 0 => a % m <= a
  OBVIOUS

\* A count of ticks beyond NumberOfTicks is longer than the delay.
LEMMA TicksCover ==
  ASSUME NEW delay \in Nat, NEW e \in Nat, e > NumberOfTicks(delay)
  PROVE  e * Period > Frequency * delay
<1>. DEFINE x == Frequency * delay
            q == x \div Period
<1>1. Period \in Nat /\ Period > 0 /\ x \in Nat
  BY SizesAssumption
<1>2. e > q
  <2>1. q \in Nat
    BY <1>1, Quotient
  <2>2. NumberOfTicks(delay) = q \/ NumberOfTicks(delay) = q + 1
    BY <2>1 DEF NumberOfTicks
  <2>. HIDE DEF q
  <2>. QED  BY <2>1, <2>2
<1>. HIDE DEF x
<1>3. q \in Nat /\ x < (q + 1) * Period
  BY <1>1, Quotient
<1>. HIDE DEF q
<1>4. (q + 1) * Period <= e * Period
  <2>1. e >= q + 1
    BY <1>2, <1>3
  <2>. QED  BY <1>1, <1>3, <2>1
<1>. QED  BY <1>1, <1>3, <1>4 DEF x
Polls == [pc : {"poll", "tick", "SUCCESS", "TIMEOUT"}, delay : Nat, up : BOOLEAN,
          tick : 0..EndTick, current : 0..EndTick, elapsed : 0..(TickWord - 1),
          hw : BOOLEAN, last : BOOLEAN, spent : Nat, rolled : BOOLEAN]
\* The ticks the counter moved since it was last looked at.
Since(p) == IF p.up THEN p.tick - p.current ELSE p.current - p.tick
\* As long as the counter has not started again, no tick is counted twice.
Counted(p) == ~p.rolled => Since(p) >= 0 /\ p.elapsed + Since(p) <= p.spent
Honest(p) ==
  p.pc \in {"SUCCESS", "TIMEOUT"} /\ p.delay # 0 =>
    /\ p.last = (p.pc = "SUCCESS")
    /\ p.pc = "TIMEOUT" => p.rolled \/ p.spent * Period > Frequency * p.delay
Sound(p) == p \in Polls /\ Counted(p) /\ (p.pc = "tick" => p.last = FALSE) /\ Honest(p)
PollInv == poll = NoPoll \/ Sound(poll)

LEMMA PollStarts ==
  ASSUME NEW delay \in Delays, NEW up \in BOOLEAN, NEW tick \in 0..EndTick, NEW hw \in BOOLEAN,
         PollStart(delay, up, tick, hw)
  PROVE  PollInv'
<1>. DEFINE p == [pc |-> IF delay = 0 THEN "SUCCESS" ELSE "poll", delay |-> delay, up |-> up,
                  tick |-> tick, current |-> tick, elapsed |-> 0, hw |-> hw, last |-> hw,
                  spent |-> 0, rolled |-> FALSE]
<1>1. poll' = p
  BY DEF PollStart
<1>2. p \in Polls
  BY SizesAssumption DEF Polls
<1>3. Counted(p)
  BY SizesAssumption DEF Counted, Since
<1>4. p.pc \in {"SUCCESS", "poll"} /\ p.delay = delay /\ (p.pc = "SUCCESS" => p.delay = 0)
  OBVIOUS
<1>5. Sound(p)
  <2>. HIDE DEF p
  <2>. QED  BY <1>2, <1>3, <1>4 DEF Sound, Honest
<1>. QED  BY <1>1, <1>5 DEF PollInv, Sound, Counted, Since, Honest

LEMMA PollAdvances ==
  ASSUME PollInv, PollStep
  PROVE  PollInv'
<1>1. ASSUME poll # NoPoll PROVE Sound(poll)
  BY <1>1 DEF PollInv
<1>2. ASSUME NEW p, poll' = p, Sound(p) PROVE PollInv'
  BY <1>2 DEF PollInv, Sound, Counted, Since, Honest
<1>3. CASE PollRead
  <2>1. /\ Sound(poll) /\ poll.pc = "poll"
        /\ poll' = [poll EXCEPT !.last = poll.hw, !.pc = IF poll.hw THEN "SUCCESS" ELSE "tick"]
    BY <1>1, <1>3 DEF PollRead, Polling
  <2>2. PICK p : p = poll'
    OBVIOUS
  <2>3. poll \in Polls
    BY <2>1 DEF Sound
  <2>4. p \in Polls
    BY <2>1, <2>2, <2>3 DEF Polls
  <2>5. /\ p.up = poll.up /\ p.tick = poll.tick /\ p.current = poll.current /\ p.elapsed = poll.elapsed
        /\ p.spent = poll.spent /\ p.rolled = poll.rolled /\ p.last = poll.hw
        /\ p.pc = IF poll.hw THEN "SUCCESS" ELSE "tick"
    BY <2>1, <2>2, <2>3 DEF Polls
  <2>6. Counted(p)
    BY <2>1, <2>5 DEF Sound, Counted, Since
  <2>7. poll.hw \in BOOLEAN
    BY <2>3 DEF Polls
  <2>8. (p.pc = "tick" => p.last = FALSE) /\ Honest(p)
    BY <2>5, <2>7 DEF Honest
  <2>. QED  BY <1>2, <2>2, <2>4, <2>6, <2>8 DEF Sound
<1>4. CASE PollTick
  <2>. DEFINE by == GetElapsedTick(poll.up, poll.current, poll.tick)
              elapsed == (poll.elapsed + by) % TickWord
              pc == IF elapsed <= NumberOfTicks(poll.delay) THEN "poll" ELSE "TIMEOUT"
  <2>1. /\ Sound(poll) /\ poll.pc = "tick"
        /\ poll' = [poll EXCEPT !.elapsed = elapsed, !.current = poll.tick, !.pc = pc]
    BY <1>1, <1>4 DEF PollTick, Polling
  <2>2. /\ poll \in Polls /\ poll.last = FALSE /\ Counted(poll)
        /\ poll.tick \in 0..EndTick /\ poll.current \in 0..EndTick /\ poll.elapsed \in 0..(TickWord - 1)
        /\ poll.delay \in Nat /\ poll.spent \in Nat /\ poll.up \in BOOLEAN /\ poll.rolled \in BOOLEAN
    BY <2>1 DEF Sound, Polls
  <2>. DEFINE moved == Since(poll)
  <2>0. TickWord \in Nat \ {0} /\ EndTick \in Nat /\ EndTick < TickWord
    BY SizesAssumption
  <2>3. by \in 0..(TickWord - 1) /\ (moved >= 0 => by <= moved) /\ moved \in Int
    <3>1. moved \in Int /\ by = moved % TickWord
      BY <2>0, <2>2 DEF GetElapsedTick, Since
    <3>. HIDE DEF moved, by
    <3>. QED  BY <2>0, <3>1, Remainder
  <2>. HIDE DEF by
  <2>4. elapsed \in 0..(TickWord - 1) /\ elapsed <= poll.elapsed + by
    <3>1. poll.elapsed + by \in Int /\ poll.elapsed + by >= 0
      BY <2>0, <2>2, <2>3
    <3>. QED  BY <2>0, <3>1, Remainder
  <2>5. PICK e : e = elapsed
    OBVIOUS
  <2>6. PICK p : p = poll'
    OBVIOUS
  <2>7. /\ p = [poll EXCEPT !.elapsed = e, !.current = poll.tick, !.pc = pc]
        /\ e \in 0..(TickWord - 1) /\ e <= poll.elapsed + by
        /\ pc = IF e <= NumberOfTicks(poll.delay) THEN "poll" ELSE "TIMEOUT"
    BY <2>1, <2>4, <2>5, <2>6
  <2>. HIDE DEF elapsed, pc
  <2>8. /\ p \in Polls /\ p.up = poll.up /\ p.tick = poll.tick /\ p.current = poll.tick /\ p.elapsed = e
        /\ p.spent = poll.spent /\ p.rolled = poll.rolled /\ p.last = FALSE /\ p.pc = pc
        /\ p.delay = poll.delay
    BY <2>2, <2>7 DEF Polls
  <2>9. ~p.rolled => e <= p.spent
    BY <2>0, <2>2, <2>3, <2>7, <2>8 DEF Counted
  <2>10. Counted(p)
    <3>1. Since(p) = 0
      BY <2>2, <2>8 DEF Since
    <3>2. e + 0 = e
      BY <2>7, SizesAssumption
    <3>. QED  BY <2>8, <2>9, <3>1, <3>2 DEF Counted
  <2>11. p.pc = "TIMEOUT" => p.rolled \/ p.spent * Period > Frequency * p.delay
    <3>1. SUFFICES ASSUME p.pc = "TIMEOUT", ~p.rolled
                   PROVE  p.spent * Period > Frequency * p.delay
      OBVIOUS
    <3>2. NumberOfTicks(p.delay) \in Nat
      <4>1. Frequency * p.delay \in Nat /\ Period \in Nat /\ Period > 0
        BY <2>2, <2>8, SizesAssumption
      <4>2. (Frequency * p.delay) \div Period \in Nat
        BY <4>1, Quotient
      <4>. QED  BY <4>2 DEF NumberOfTicks
    <3>3. e > NumberOfTicks(p.delay) /\ e \in Nat
      BY <2>7, <2>8, <3>1, <3>2, SizesAssumption
    <3>4. e * Period > Frequency * p.delay
      BY <2>2, <2>8, <3>3, TicksCover
    <3>5. p.spent * Period >= e * Period
      <4>1. \A a, b, c \in Nat : a <= b => a * c <= b * c
        OBVIOUS
      <4>. QED  BY <2>2, <2>8, <2>9, <3>1, <3>3, <4>1, SizesAssumption
    <3>6. p.spent * Period \in Nat /\ e * Period \in Nat /\ Frequency * p.delay \in Nat
      BY <2>2, <2>8, <3>3, SizesAssumption
    <3>. QED  BY <3>4, <3>5, <3>6
  <2>12. p.pc \in {"poll", "TIMEOUT"}
    BY <2>7, <2>8
  <2>13. Sound(p)
    BY <2>8, <2>10, <2>11, <2>12 DEF Sound, Honest
  <2>. QED  BY <1>2, <2>6, <2>13
<1>5. CASE Clock
  <2>. DEFINE last == IF poll.up THEN EndTick ELSE 0
              next == IF poll.tick = last THEN EndTick - last
                      ELSE IF poll.up THEN poll.tick + 1 ELSE poll.tick - 1
  <2>1. /\ Sound(poll) /\ poll.pc \in {"poll", "tick"}
        /\ poll' = [poll EXCEPT !.tick = next, !.spent = @ + 1, !.rolled = @ \/ poll.tick = last]
    BY <1>1, <1>5 DEF Clock, Polling
  <2>2. /\ poll \in Polls /\ Counted(poll)
        /\ poll.tick \in 0..EndTick /\ poll.current \in 0..EndTick /\ poll.elapsed \in 0..(TickWord - 1)
        /\ poll.spent \in Nat /\ poll.up \in BOOLEAN /\ poll.rolled \in BOOLEAN
    BY <2>1 DEF Sound, Polls
  <2>3. /\ next \in 0..EndTick
        /\ poll.tick # last => next = IF poll.up THEN poll.tick + 1 ELSE poll.tick - 1
    <3>1. EndTick \in Nat
      BY SizesAssumption
    <3>2. CASE poll.up
      BY <2>2, <3>1, <3>2
    <3>3. CASE ~poll.up
      BY <2>2, <3>1, <3>3
    <3>. QED  BY <3>2, <3>3
  <2>4. PICK p : p = poll'
    OBVIOUS
  <2>5. PICK n : n = next
    OBVIOUS
  <2>6. PICK rolled \in BOOLEAN : rolled = (poll.rolled \/ poll.tick = last)
    BY <2>2
  <2>7. p = [poll EXCEPT !.tick = n, !.spent = poll.spent + 1, !.rolled = rolled] /\ n \in 0..EndTick
    BY <2>1, <2>3, <2>4, <2>5, <2>6
  <2>8. ~rolled => ~poll.rolled /\ n = IF poll.up THEN poll.tick + 1 ELSE poll.tick - 1
    BY <2>3, <2>5, <2>6
  <2>. HIDE DEF last, next
  <2>12. PICK spent \in Nat : spent = poll.spent + 1
    BY <2>2
  <2>9. /\ p \in Polls /\ p.up = poll.up /\ p.tick = n /\ p.current = poll.current /\ p.elapsed = poll.elapsed
        /\ p.spent = spent /\ p.rolled = rolled /\ p.last = poll.last /\ p.pc = poll.pc
    <3>1. p = [poll EXCEPT !.tick = n, !.spent = spent, !.rolled = rolled]
      BY <2>7, <2>12
    <3>. QED  BY <2>2, <2>6, <2>7, <3>1 DEF Polls
  <2>10. Counted(p)
    BY <2>2, <2>8, <2>12, <2>9, SizesAssumption DEF Counted, Since
  <2>11. Sound(p)
    BY <2>1, <2>9, <2>10 DEF Sound, Honest
  <2>. QED  BY <1>2, <2>4, <2>11
<1>6. CASE HwChange
  <2>1. Sound(poll) /\ poll.pc \in {"poll", "tick"} /\ poll' = [poll EXCEPT !.hw = ~@]
    BY <1>1, <1>6 DEF HwChange, Polling
  <2>2. PICK p : p = poll'
    OBVIOUS
  <2>3. poll \in Polls
    BY <2>1 DEF Sound
  <2>4. /\ p \in Polls /\ p.up = poll.up /\ p.tick = poll.tick /\ p.current = poll.current
        /\ p.elapsed = poll.elapsed /\ p.spent = poll.spent /\ p.rolled = poll.rolled
        /\ p.last = poll.last /\ p.pc = poll.pc
    BY <2>1, <2>2, <2>3 DEF Polls
  <2>5. Sound(p)
    BY <2>1, <2>4 DEF Sound, Counted, Since, Honest
  <2>. QED  BY <1>2, <2>2, <2>5
<1>7. CASE PollReturn
  BY <1>7 DEF PollReturn, PollInv, NoPoll
<1>. QED  BY <1>3, <1>4, <1>5, <1>6, <1>7 DEF PollStep
LEMMA PollKinds ==
  ASSUME [DtNext]_allVars
  PROVE  \/ UNCHANGED poll \/ PollStep
         \/ \E delay \in Delays, up \in BOOLEAN, tick \in 0..EndTick, hw \in BOOLEAN : PollStart(delay, up, tick, hw)
<1>1. CASE HmNext
  BY <1>1 DEF HmNext, DriverStart, SetMemoryAttributes, DriverStop, ProcessMemoryRanges, SetRegType, Quiet
<1>2. CASE \E b \in SampleBuses : DtIoSetCallbacks(b)
  BY <1>2 DEF DtIoSetCallbacks
<1>3. CASE Next
  <2>1. CASE \E delay \in Delays, up \in BOOLEAN, tick \in 0..EndTick, hw \in BOOLEAN : DtIoPollReg(delay, up, tick, hw)
    BY <2>1 DEF DtIoPollReg
  <2>2. CASE \E i \in Indices, f \in Faults :
               \/ DtIoGetReg(i, f) \/ DtIoGetRange(i, f)
               \/ \E kind \in {"reg", "ranges"} : DtIoParsePropRegion(kind, i, f)
    BY <2>2 DEF DtIoGetReg, DtIoGetRange, DtIoGetRegion, DtIoParsePropRegion, Quiet
  <2>3. CASE \/ \E name \in DOMAIN dt[Device] : DtIoGetProp(name)
             \/ \E type \in FieldParsers, i \in Indices : DtIoParseProp(type, i)
             \/ \E i \in Indices : DtIoParsePropString(i)
    BY <2>3 DEF DtIoGetProp, DtIoParseProp, DtIoParsePropString, Quiet
  <2>4. CASE \/ \E s \in Names, f \in Faults : DtIoGetRegByName(s, f)
             \/ \E c \in DOMAIN RegTypes, attrs \in Attributes, f \in Faults : DtIoSetRegType(RegTypes[c], attrs, f)
    BY <2>4 DEF DtIoGetRegByName, DtIoGetReg, DtIoGetRegion, DtIoSetRegType, Quiet
  <2>5. CASE \E w \in Widths, off \in Offsets, count \in Counts :
               \/ \E op \in {"read", "write"} : DtIoReadWriteReg(op, w, off, count)
               \/ \E src \in Offsets : DtIoCopyReg(w, off, src, count)
    BY <2>5 DEF DtIoReadWriteReg, DtIoCopyReg
  <2>. QED  BY <1>2, <1>3, <2>1, <2>2, <2>3, <2>4, <2>5, Zenon DEF Next
<1>4. CASE RbNext
  <2>1. CASE \/ \E f \in Faults : RbConfig(f) \/ RbFirstReg(f) \/ RbRange(f)
             \/ RbBusRange \/ RbFree
    BY <2>1 DEF RbConfig, RbFirstReg, RbRange, RbBusRange, RbFree, Quiet
  <2>2. CASE \E w \in Widths, a \in Addresses, count \in Counts :
               \/ \E op \in {"read", "write"} : RootBridgeIoMem(op, w, a, count) \/ RootBridgeIoIo(op, w, a, count)
               \/ \E src \in Addresses : RootBridgeIoCopyMem(w, a, src, count)
    BY <2>2 DEF RootBridgeIoMem, RootBridgeIoIo, RootBridgeIoAccess, RootBridgeIoCopyMem
  <2>3. CASE \E a \in Addresses, space \in {"io", "mem"}, delay \in Delays, up \in BOOLEAN,
               tick \in 0..EndTick, hw \in BOOLEAN : RootBridgeIoPoll(space, a, delay, up, tick, hw)
    BY <2>3 DEF RootBridgeIoPoll
  <2>4. CASE \E op \in {"read", "write"}, w \in Widths, bus \in 0..(CellBase - 1), function \in 0..(MaxFunction + 1),
               r \in 0..(ConfigSize - 1), extended \in BOOLEAN, count \in Counts :
               RootBridgeIoPciAccess(op, w, bus, function, r, extended, count)
    BY <2>4 DEF RootBridgeIoPciAccess
  <2>. QED  BY <1>2, <1>3, <1>4, <2>1, <2>2, <2>3, <2>4, Zenon DEF RbNext
<1>5. CASE UNCHANGED allVars
  BY <1>5 DEF allVars, pciVars, vars
<1>. QED  BY <1>1, <1>2, <1>4, <1>5, Zenon DEF DtNext

\* However long a poll takes, wherever the counter starts and whichever way it
\* counts: SUCCESS is an answer the register gave, and TIMEOUT comes when the
\* register never gave it and the delay is over, unless the counter started
\* again meanwhile (DtIoPollReg, GetElapsedTick).
THEOREM PollsHonest == DtSpec => []PollHonest
<1>1. DtInit => PollInv
  BY DEF DtInit, RbInit, Init, PollInv
<1>2. PollInv /\ [DtNext]_allVars => PollInv'
  <2>1. SUFFICES ASSUME PollInv, [DtNext]_allVars PROVE PollInv'
    OBVIOUS
  <2>2. CASE UNCHANGED poll
    BY <2>1, <2>2 DEF PollInv, Sound, Counted, Since, Honest
  <2>3. CASE PollStep
    BY <2>1, <2>3, PollAdvances
  <2>4. CASE \E delay \in Delays, up \in BOOLEAN, tick \in 0..EndTick, hw \in BOOLEAN : PollStart(delay, up, tick, hw)
    BY <2>4, PollStarts
  <2>. QED  BY <2>1, <2>2, <2>3, <2>4, PollKinds
<1>3. PollInv => PollHonest
  BY DEF PollInv, PollHonest, Sound, Honest
<1>. QED  BY <1>1, <1>2, <1>3, PTL DEF DtSpec
-----------------------------------------------------------------------------
(* ApplyGcdTypeAndAttrs: the memory map, descriptor by descriptor          *)

LEMMA PagesAreNumbers ==
  /\ CpuPages \in Nat /\ PageSize \in Nat /\ PageSize > 0
  /\ \A base, len : PagesOf(base, len) \in SUBSET Nat
<1>1. CpuPages \in Nat /\ PageSize \in Nat /\ PageSize > 0
  BY Sizes, Quotient DEF CpuPages
<1>2. \A n \in 0..(CpuPages - 1) : n \in Nat
  BY <1>1
<1>. QED  BY <1>1, <1>2, Zenon DEF PagesOf

\* From the first page of a descriptor to any page of it all pages are alike.
Alike(pages, s, pg) ==
  \A q \in s..pg : q \in pages /\ PageOf(q) = PageOf(pg) /\ (q \in Known <=> pg \in Known)

LEMMA DescriptorStart ==
  ASSUME NEW pages \in SUBSET Nat, NEW pg \in pages
  PROVE  \E s \in Descriptors(pages) :
           s <= pg /\ Alike(pages, s, pg) /\ \A q \in Descriptors(pages) : q <= s \/ q > pg
<1>. DEFINE S == {s \in pages : s <= pg /\ Alike(pages, s, pg)}
<1>1. pg \in Nat /\ S \in SUBSET Nat
  OBVIOUS
<1>2. pg \in S
  <2>1. \A q \in pg..pg : q = pg
    BY <1>1
  <2>. QED  BY <1>1, <2>1 DEF Alike
<1>3. PICK m \in S : \A s \in S : m <= s
  <2>. HIDE DEF S
  <2>. QED  BY <1>1, <1>2, Least
<1>4. m \in Nat /\ m \in pages /\ m <= pg /\ Alike(pages, m, pg)
  BY <1>3
<1>5. \A q \in Nat : q \in Known <=> q < GcdPages
  BY Sizes DEF Known
<1>6. m \in Descriptors(pages)
  <2>1. SUFFICES ASSUME m - 1 \in pages, PageOf(m) = PageOf(m - 1), m # GcdPages PROVE FALSE
    BY <1>4 DEF Descriptors
  <2>2. m - 1 \in Nat
    BY <2>1
  <2>3. m - 1 \in Known <=> m \in Known
    BY <1>4, <1>5, <2>1, <2>2, Sizes
  <2>4. PageOf(m) = PageOf(pg) /\ (m \in Known <=> pg \in Known)
    BY <1>1, <1>4 DEF Alike
  <2>5. \A q \in (m - 1)..pg : q = m - 1 \/ q \in m..pg
    BY <1>1, <1>4
  <2>6. Alike(pages, m - 1, pg)
    BY <1>4, <2>1, <2>3, <2>4, <2>5 DEF Alike
  <2>7. m - 1 \in S
    BY <1>1, <1>4, <2>1, <2>2, <2>6
  <2>. HIDE DEF S
  <2>. QED  BY <1>3, <1>4, <2>7
<1>7. ASSUME NEW q \in Descriptors(pages), q > m, q <= pg PROVE FALSE
  <2>1. q \in pages /\ (q - 1 \notin pages \/ PageOf(q) # PageOf(q - 1) \/ q = GcdPages)
    BY <1>7 DEF Descriptors
  <2>2. q \in m..pg /\ q - 1 \in m..pg
    BY <1>1, <1>4, <1>7, <2>1
  <2>3. q - 1 \in pages /\ PageOf(q) = PageOf(q - 1) /\ (q \in Known <=> q - 1 \in Known)
    BY <1>4, <2>2 DEF Alike
  <2>4. q \in Nat /\ q - 1 \in Nat
    BY <2>1, <2>3
  <2>. QED  BY <1>5, <2>1, <2>3, <2>4, Sizes
<1>8. \A q \in Descriptors(pages) : q \in Nat
  BY DEF Descriptors
<1>. QED  BY <1>1, <1>4, <1>6, <1>7, <1>8

\* What becomes of one page that is known.
Changed(pg, to, new) ==
  \/ new = gcd[pg]
  \/ new = Applied(pg, to) /\ ~InUse(pg, to)
  \/ /\ new = Half(pg, to)
     /\ \/ InUse(pg, to)
        \/ Added(pg, to) /\ to.fault[1] = "add"
        \/ AttrsSet(pg, to) /\ to.fault[1] = "attrs"

LEMMA AlikeFails ==
  ASSUME NEW s, NEW pg, NEW to, PageOf(s) = PageOf(pg)
  PROVE  /\ InUse(s, to) <=> InUse(pg, to)
         /\ Added(s, to) <=> Added(pg, to)
         /\ AttrsSet(s, to) <=> AttrsSet(pg, to)
<1>1. HaveConflict(s, to.type, to.attrs) <=> HaveConflict(pg, to.type, to.attrs)
  BY DEF HaveConflict
<1>2. Overrides(s, to.type, to.attrs, to.keep) <=> Overrides(pg, to.type, to.attrs, to.keep)
  BY <1>1 DEF Overrides
<1>3. Added(s, to) <=> Added(pg, to)
  BY <1>2 DEF Added
<1>. QED  BY <1>1, <1>2, <1>3 DEF InUse, AttrsSet

LEMMA MapChanges ==
  ASSUME NEW base, NEW len, NEW to
  PROVE  LET map == ApplyGcdTypeAndAttrs(base, len, to) IN
         /\ map.gcd = [pg \in Known |-> map.gcd[pg]]
         /\ \A pg \in Known : Changed(pg, to, map.gcd[pg])
         /\ map.ok => \A pg \in PagesOf(base, len) :
              pg \in Known /\ map.gcd[pg] = Applied(pg, to) /\ ~InUse(pg, to)
<1>. DEFINE pages == PagesOf(base, len)
            starts == Descriptors(pages)
            failing == {s \in starts : Fails(s, to)}
            Reached(pg) == \A s \in failing : pg < s
            AtFirst(pg) == \E s \in failing : /\ s <= pg /\ \A q \in failing : s <= q
                                              /\ \A q \in starts : q <= s \/ q > pg
            map == ApplyGcdTypeAndAttrs(base, len, to)
            new == [pg \in Known |-> IF pg \notin pages THEN gcd[pg]
                                     ELSE IF Reached(pg) THEN Applied(pg, to)
                                     ELSE IF AtFirst(pg) THEN Half(pg, to) ELSE gcd[pg]]
<1>1. map = [ok |-> failing = {}, gcd |-> new]
  BY DEF ApplyGcdTypeAndAttrs, ApplyTo, ApplyUpTo
<1>2. map.gcd = new /\ (map.ok <=> failing = {})
  <2>. HIDE DEF new, failing, map
  <2>1. map.gcd = new /\ map.ok = (failing = {})
    BY <1>1
  <2>. QED  BY <2>1, Zenon
<1>3. pages \in SUBSET Nat /\ starts \in SUBSET Nat
  BY PagesAreNumbers DEF Descriptors
<1>. HIDE DEF pages, map
<1>4. ASSUME NEW pg \in pages
      PROVE  \E s \in starts : /\ s <= pg /\ PageOf(s) = PageOf(pg) /\ (s \in Known <=> pg \in Known)
                               /\ \A q \in s..pg : PageOf(q) = PageOf(pg) /\ (q \in Known <=> pg \in Known)
                               /\ \A q \in starts : q <= s \/ q > pg
  <2>1. PICK s \in starts : s <= pg /\ Alike(pages, s, pg) /\ \A q \in starts : q <= s \/ q > pg
    BY <1>3, <1>4, DescriptorStart
  <2>2. s \in s..pg
    BY <1>3, <1>4, <2>1
  <2>. QED  BY <2>1, <2>2 DEF Alike
<1>. HIDE DEF starts
<1>5. ASSUME NEW pg \in pages, Reached(pg)
      PROVE  pg \in Known /\ ~InUse(pg, to)
  <2>1. PICK s \in starts : s <= pg /\ PageOf(s) = PageOf(pg) /\ (s \in Known <=> pg \in Known)
    BY <1>4, <1>5
  <2>2. s \notin failing
    BY <1>3, <1>5, <2>1
  <2>3. s \in Known /\ ~InUse(s, to)
    BY <2>2 DEF Fails
  <2>. QED  BY <2>1, <2>3, AlikeFails
<1>6. ASSUME NEW pg \in pages, pg \in Known, AtFirst(pg)
      PROVE  \/ InUse(pg, to)
             \/ Added(pg, to) /\ to.fault[1] = "add"
             \/ AttrsSet(pg, to) /\ to.fault[1] = "attrs"
  <2>1. PICK s \in failing : s <= pg /\ \A q \in starts : q <= s \/ q > pg
    BY <1>6
  <2>2. PICK m \in starts : /\ m <= pg
                            /\ \A q \in m..pg : PageOf(q) = PageOf(pg) /\ (q \in Known <=> pg \in Known)
    BY <1>4, <1>6
  <2>3. s \in m..pg
    BY <1>3, <1>6, <2>1, <2>2
  <2>4. PageOf(s) = PageOf(pg) /\ s \in Known
    BY <1>6, <2>2, <2>3
  <2>5. Fails(s, to)
    BY <2>1
  <2>6. <<"add", s>>[1] = "add" /\ <<"attrs", s>>[1] = "attrs"
    OBVIOUS
  <2>7. \/ InUse(s, to)
        \/ Added(s, to) /\ to.fault[1] = "add"
        \/ AttrsSet(s, to) /\ to.fault[1] = "attrs"
    BY <2>4, <2>5, <2>6, Zenon DEF Fails
  <2>. QED  BY <2>4, <2>7, AlikeFails
<1>7. new = [pg \in Known |-> new[pg]]
  OBVIOUS
<1>8. ASSUME NEW pg \in Known PROVE Changed(pg, to, new[pg])
  <2>. HIDE DEF failing, Reached, AtFirst
  <2>1. new[pg] = IF pg \notin pages THEN gcd[pg]
                  ELSE IF Reached(pg) THEN Applied(pg, to)
                  ELSE IF AtFirst(pg) THEN Half(pg, to) ELSE gcd[pg]
    OBVIOUS
  <2>. HIDE DEF new
  <2>. QED  BY <1>5, <1>6, <2>1 DEF Changed
<1>9. ASSUME failing = {}, NEW pg \in pages
      PROVE  pg \in Known /\ new[pg] = Applied(pg, to) /\ ~InUse(pg, to)
  <2>1. Reached(pg)
    <3>. HIDE DEF failing
    <3>. QED  BY <1>9
  <2>. HIDE DEF failing, Reached, AtFirst
  <2>2. pg \in Known /\ ~InUse(pg, to)
    BY <1>5, <1>9, <2>1
  <2>. QED  BY <1>9, <2>1, <2>2
<1>. HIDE DEF new, failing
<1>. QED  BY <1>2, <1>7, <1>8, <1>9 DEF map, pages
\* A page has a type and attributes of 64 bits, and none is used that is not there.
GoodPage(page) == page \in Page /\ (page.type = "NonExistent" => page.used = FALSE)
WantedGood(to) == to.type \in Types /\ to.attrs \in 0..(CpuWord - 1) /\ to.keep \in BOOLEAN
\* What may happen to a page: keep is OnConflictDoNothing.
Preserved(old, new, keep) ==
  /\ old.used => new.used /\ new.type = old.type
  /\ keep /\ old.type # "NonExistent" => new = old \/ (old.attrs = 0 /\ new.type = old.type)

LEMMA PageChanges ==
  ASSUME NEW pg \in Known, GoodPage(gcd[pg]), NEW to, WantedGood(to)
  PROVE  /\ Applied(pg, to).type # "NonExistent"
         /\ \A new : Changed(pg, to, new) => GoodPage(new) /\ Preserved(gcd[pg], new, to.keep)
<1>. DEFINE old == gcd[pg]
<1>1. PageOf(pg) = old /\ old \in Page /\ (old.type = "NonExistent" => old.used = FALSE)
  BY DEF PageOf, GoodPage
<1>2. to.type \in Types /\ to.attrs \in 0..(CpuWord - 1) /\ to.keep \in BOOLEAN
      /\ "NonExistent" \notin Types /\ 0 \in 0..(CpuWord - 1)
  BY BlobsAssumption, Sizes DEF WantedGood
<1>. HIDE DEF old
<1>3. \A a \in 0..(CpuWord - 1) : LET new == [old EXCEPT !.attrs = a] IN
        new \in Page /\ new.type = old.type /\ new.used = old.used /\ new.attrs = a
  BY <1>1 DEF Page
<1>4. LET new == [type |-> to.type, attrs |-> to.attrs, used |-> FALSE] IN
        new \in Page /\ new.type = to.type /\ new.used = FALSE
        /\ [new EXCEPT !.attrs = 0] \in Page /\ [new EXCEPT !.attrs = 0].type = to.type
        /\ [new EXCEPT !.attrs = 0].used = FALSE
  BY <1>2 DEF Page
<1>5. NonExistent \in Page /\ NonExistent.used = FALSE
  BY <1>2 DEF Page, NonExistent
<1>6. Added(pg, to) => old.type = "NonExistent" \/ (old.type # "NonExistent" /\ to.keep = FALSE)
  BY <1>1, <1>2 DEF Added, Overrides
<1>7. Added(pg, to) /\ old.type # "NonExistent" /\ ~InUse(pg, to) => ~old.used
  BY <1>1 DEF Added, InUse
<1>8. AttrsSet(pg, to) /\ ~Added(pg, to) => old.attrs = 0 /\ old.type # "NonExistent"
  BY <1>1 DEF AttrsSet, Added
<1>9. InUse(pg, to) => to.keep = FALSE
  BY <1>2 DEF InUse, Overrides
<1>10. ~AttrsSet(pg, to) => ~Added(pg, to) /\ old.type # "NonExistent"
  BY <1>1 DEF AttrsSet, Added
<1>11. ~AttrsSet(pg, to) => Applied(pg, to) = old
  BY <1>1 DEF Applied
<1>12. Added(pg, to) => Applied(pg, to) = [type |-> to.type, attrs |-> to.attrs, used |-> FALSE]
  BY DEF Applied, AttrsSet
<1>13. AttrsSet(pg, to) /\ ~Added(pg, to) => Applied(pg, to) = [old EXCEPT !.attrs = to.attrs]
  BY <1>1 DEF Applied
<1>14. Applied(pg, to).type # "NonExistent"
  BY <1>2, <1>3, <1>4, <1>8, <1>10, <1>11, <1>12, <1>13
<1>15. ASSUME NEW new, new = Applied(pg, to), ~InUse(pg, to)
       PROVE  GoodPage(new) /\ Preserved(old, new, to.keep)
  <2>1. CASE ~AttrsSet(pg, to)
    BY <1>1, <1>11, <1>15, <2>1 DEF GoodPage, Preserved
  <2>2. CASE Added(pg, to)
    <3>1. new \in Page /\ new.used = FALSE
      BY <1>4, <1>12, <1>15, <2>2
    <3>2. old.used => FALSE
      BY <1>1, <1>7, <1>15, <2>2
    <3>. QED  BY <1>6, <2>2, <3>1, <3>2 DEF GoodPage, Preserved
  <2>3. CASE AttrsSet(pg, to) /\ ~Added(pg, to)
    BY <1>1, <1>2, <1>3, <1>8, <1>13, <1>15, <2>3 DEF GoodPage, Preserved
  <2>. QED  BY <1>10, <2>1, <2>2, <2>3
<1>16. ASSUME NEW new, new = Half(pg, to),
              \/ InUse(pg, to)
              \/ Added(pg, to) /\ to.fault[1] = "add"
              \/ AttrsSet(pg, to) /\ to.fault[1] = "attrs"
       PROVE  GoodPage(new) /\ Preserved(old, new, to.keep)
  <2>1. CASE InUse(pg, to)
    <3>1. new = old
      BY <1>1, <1>16, <2>1 DEF Half
    <3>. QED  BY <1>1, <3>1 DEF GoodPage, Preserved
  <2>2. CASE ~InUse(pg, to) /\ Added(pg, to) /\ to.fault[1] = "add"
    <3>1. new = NonExistent
      BY <1>16, <2>2 DEF Half
    <3>2. old.used => FALSE
      BY <1>1, <1>7, <2>2
    <3>. QED  BY <1>5, <1>6, <2>2, <3>1, <3>2 DEF GoodPage, Preserved
  <2>3. CASE ~InUse(pg, to) /\ AttrsSet(pg, to) /\ to.fault[1] = "attrs"
    <3>1. new = [Applied(pg, to) EXCEPT !.attrs = 0]
      BY <1>16, <2>3 DEF Half
    <3>2. CASE Added(pg, to)
      <4>1. new \in Page /\ new.used = FALSE
        BY <1>4, <1>12, <3>1, <3>2
      <4>2. old.used => FALSE
        BY <1>1, <1>7, <2>3, <3>2
      <4>. QED  BY <1>6, <3>2, <4>1, <4>2 DEF GoodPage, Preserved
    <3>3. CASE ~Added(pg, to)
      <4>1. PICK mid : mid = [old EXCEPT !.attrs = to.attrs]
        OBVIOUS
      <4>2. mid \in Page /\ mid.type = old.type /\ mid.used = old.used /\ new = [mid EXCEPT !.attrs = 0]
        BY <1>2, <1>3, <1>13, <2>3, <3>1, <3>3, <4>1
      <4>3. new \in Page /\ new.type = old.type /\ new.used = old.used
        BY <1>2, <4>2 DEF Page
      <4>. QED  BY <1>1, <1>8, <2>3, <3>3, <4>3 DEF GoodPage, Preserved
    <3>. QED  BY <3>2, <3>3
  <2>. QED  BY <1>16, <2>1, <2>2, <2>3
<1>17. ASSUME NEW new, new = old PROVE GoodPage(new) /\ Preserved(old, new, to.keep)
  BY <1>1, <1>17 DEF GoodPage, Preserved
<1>. QED  BY <1>14, <1>15, <1>16, <1>17 DEF Changed, old
\* The memory map as a whole, and what may become of it.
MapInv == gcd = [pg \in Known |-> gcd[pg]] /\ \A pg \in Known : GoodPage(gcd[pg])
MapKept(new, keep) ==
  /\ new = [pg \in Known |-> new[pg]]
  /\ \A pg \in Known : GoodPage(new[pg]) /\ Preserved(gcd[pg], new[pg], keep)

LEMMA MapApplied ==
  ASSUME MapInv, NEW base, NEW len, NEW to, WantedGood(to)
  PROVE  MapKept(ApplyGcdTypeAndAttrs(base, len, to).gcd, to.keep)
<1>. DEFINE map == ApplyGcdTypeAndAttrs(base, len, to)
<1>1. /\ map.gcd = [pg \in Known |-> map.gcd[pg]]
      /\ \A pg \in Known : Changed(pg, to, map.gcd[pg])
  BY MapChanges
<1>. HIDE DEF map
<1>2. \A pg \in Known : GoodPage(map.gcd[pg]) /\ Preserved(gcd[pg], map.gcd[pg], to.keep)
  BY <1>1, PageChanges DEF MapInv
<1>. QED  BY <1>1, <1>2 DEF MapKept, map

MapReaches(base, len, to, map) ==
  map.ok => \A pg \in PagesOf(base, len) : pg \in Known /\ map.gcd[pg] = Applied(pg, to)
LEMMA MapDone ==
  ASSUME NEW base, NEW len, NEW to
  PROVE  MapReaches(base, len, to, ApplyGcdTypeAndAttrs(base, len, to))
<1>. DEFINE map == ApplyGcdTypeAndAttrs(base, len, to)
<1>1. map.ok => \A pg \in PagesOf(base, len) :
        pg \in Known /\ map.gcd[pg] = Applied(pg, to) /\ ~InUse(pg, to)
  BY MapChanges
<1>. HIDE DEF map
<1>2. MapReaches(base, len, to, map)
  BY <1>1 DEF MapReaches
<1>. QED  BY <1>2 DEF map

LEMMA MapUntouched ==
  ASSUME MapInv, NEW keep
  PROVE  MapKept(gcd, keep)
  BY DEF MapInv, MapKept, Preserved

\* DtPropGetRegOrRangeEfiTypeAndAttrs finds a type there is, and attributes of 64 bits.
LEMMA TypeAndAttrs ==
  ASSUME dt \in Blobs, NEW kind \in Kinds, NEW i \in Nat, NEW ta,
         ta = DtPropGetRegOrRangeEfiTypeAndAttrs(kind, i), ta.status = "EFI_SUCCESS"
  PROVE  ta.type \in Types /\ ta.attrs \in 0..(CpuWord - 1)
<1>. DEFINE name == IF kind = "reg" THEN "reg-attrs" ELSE "range-attrs"
            cells == dt[Device][name]
            at == 3 * i
            Bad(status) == [status |-> status, type |-> Mmio, attrs |-> 0]
<1>1. ta = IF ~Has(Device, name) THEN [status |-> "EFI_SUCCESS", type |-> Mmio, attrs |-> UC]
           ELSE IF Len(cells) \div 3 <= i THEN Bad("EFI_NOT_FOUND")
           ELSE IF cells[at + 1] \notin DOMAIN RegTypes THEN Bad("EFI_INVALID_PARAMETER")
           ELSE [status |-> "EFI_SUCCESS", type |-> RegTypes[cells[at + 1]],
                 attrs |-> Value(SubSeq(cells, at + 2, at + 3))]
  BY DEF DtPropGetRegOrRangeEfiTypeAndAttrs
<1>2. Mmio \in Types /\ UC \in 0..(CpuWord - 1) /\ \A c \in DOMAIN RegTypes : RegTypes[c] \in Types
  BY Sizes DEF Types
<1>3. name # "reg-names"
  OBVIOUS
<1>. HIDE DEF name
<1>4. CASE ~Has(Device, name)
  BY <1>1, <1>2, <1>4
<1>5. CASE Has(Device, name)
  <2>1. cells \in Seq(Cell) /\ Len(cells) \in Nat
    BY <1>3, <1>5, PropertyCells, Tree
  <2>. HIDE DEF cells
  <2>2. ~(Len(cells) \div 3 <= i) /\ cells[at + 1] \in DOMAIN RegTypes
    BY <1>1, <1>5
  <2>3. at \in Nat /\ at + 3 <= Len(cells)
    <3>1. Len(cells) \div 3 <= i <=> Len(cells) < 3 * i + 3
      BY <2>1, Quotient
    <3>. QED  BY <2>1, <2>2, <3>1
  <2>4. ta.type = RegTypes[cells[at + 1]] /\ ta.attrs = Value(SubSeq(cells, at + 2, at + 3))
    BY <1>1, <1>5, <2>2
  <2>. HIDE DEF at
  <2>5. Value(SubSeq(cells, at + 2, at + 3)) \in Nat /\ Value(SubSeq(cells, at + 2, at + 3)) < CpuWord
    <3>1. (at + 1) + 1 = at + 2 /\ (at + 1) + 2 = at + 3 /\ at + 1 \in Nat /\ (at + 1) + 2 <= Len(cells)
      BY <2>1, <2>3
    <3>2. Slice(cells, at + 1, 2) \in Nat /\ Slice(cells, at + 1, 2) < CpuWord
      BY <2>1, <3>1, SliceType
    <3>. QED  BY <3>1, <3>2 DEF Slice
  <2>. QED  BY SMTT(60), <1>2, <2>2, <2>4, <2>5, Sizes
<1>. QED  BY <1>4, <1>5

LEMMA ParsedMap ==
  ASSUME dt \in Blobs, MapInv, NEW kind \in Kinds, NEW p, NEW i \in Nat, NEW fault,
         NEW r, r = ParseRegion(kind, p, i, fault)
  PROVE  MapKept(r.gcd, TRUE)
<1>. DEFINE ta == DtPropGetRegOrRangeEfiTypeAndAttrs(kind, i)
            to == Wanted(ta, TRUE, fault)
            map == MapAt(kind, p, i, fault)
<1>1. r.gcd = gcd \/ (ta.status = "EFI_SUCCESS" /\ r.gcd = map.gcd)
  <2>1. Outcome(kind, p, i, fault, r)
    BY RegionCases
  <2>. QED  BY <2>1, Zenon DEF Outcome
<1>2. ta.status = "EFI_SUCCESS" => WantedGood(to) /\ to.keep = TRUE
  <2>1. ta.status = "EFI_SUCCESS" => ta.type \in Types /\ ta.attrs \in 0..(CpuWord - 1)
    BY TypeAndAttrs
  <2>. HIDE DEF ta
  <2>. QED  BY <2>1 DEF Wanted, WantedGood
<1>3. ta.status = "EFI_SUCCESS" => MapKept(map.gcd, TRUE)
  <2>1. map = ApplyGcdTypeAndAttrs(EndAt(kind, p, i).base, ReadAt(kind, p, i).len, to)
    BY DEF MapAt
  <2>. HIDE DEF to, map
  <2>. QED  BY <1>2, <2>1, MapApplied
<1>. HIDE DEF map, ta
<1>. QED  BY <1>1, <1>3, MapUntouched
\* The entry that Start is at, in the driver of a host bridge and of memory.
BridgeInv ==
  /\ rb = [pc |-> rb.pc, next |-> rb.next, config |-> rb.config, busMin |-> rb.busMin,
           busLen |-> rb.busLen, win |-> rb.win]
  /\ rb.next \in Nat
MemoryInv ==
  /\ hm = [pc |-> hm.pc, index |-> hm.index, region |-> hm.region, before |-> hm.before]
  /\ hm.index \in Nat
GcdInv == dt \in Blobs /\ MapInv /\ BridgeInv /\ MemoryInv

LEMMA BridgeStep ==
  ASSUME BridgeInv, [DtNext]_allVars
  PROVE  BridgeInv'
<1>1. ASSUME rb' = rb PROVE BridgeInv'
  BY <1>1 DEF BridgeInv
<1>2. ASSUME NEW b, rb' = b,
             b = [pc |-> b.pc, next |-> b.next, config |-> b.config, busMin |-> b.busMin,
                  busLen |-> b.busLen, win |-> b.win],
             b.next \in Nat
      PROVE  BridgeInv'
  BY <1>2 DEF BridgeInv
<1>3. /\ NoBridge.next = 0
      /\ NoBridge = [pc |-> NoBridge.pc, next |-> NoBridge.next, config |-> NoBridge.config,
                     busMin |-> NoBridge.busMin, busLen |-> NoBridge.busLen, win |-> NoBridge.win]
  BY DEF NoBridge
<1>4. ASSUME rb' = NoBridge PROVE BridgeInv'
  BY <1>2, <1>3, <1>4
<1>5. ASSUME NEW pc, rb' = [NoBridge EXCEPT !.pc = pc] PROVE BridgeInv'
  <2>1. rb' = [pc |-> pc, next |-> 0, config |-> NoReg, busMin |-> 0, busLen |-> 0,
               win |-> [s \in Windows |-> NoReg]]
    BY <1>5 DEF NoBridge
  <2>. QED  BY <2>1 DEF BridgeInv
<1>6. ASSUME NEW c, NEW pc, rb' = [rb EXCEPT !.config = c, !.pc = pc] PROVE BridgeInv'
  BY <1>6 DEF BridgeInv
<1>7. CASE \E f \in Faults : RbConfig(f)
  BY <1>5, <1>6, <1>7 DEF RbConfig, ConfigFound
<1>8. CASE \E f \in Faults : RbFirstReg(f)
  BY <1>5, <1>6, <1>8 DEF RbFirstReg, ConfigFound
<1>9. CASE RbBusRange
  <2>1. rb' = NoBridge \/ \E min, len, pc : rb' = [rb EXCEPT !.busMin = min, !.busLen = len, !.pc = pc]
    BY <1>9, Zenon DEF RbBusRange
  <2>. QED  BY <1>4, <2>1 DEF BridgeInv
<1>10. CASE \E f \in Faults : RbRange(f)
  <2>1. \/ rb' = NoBridge
        \/ \E win : rb' = [rb EXCEPT !.win = win, !.next = @ + 1]
        \/ \E win, pc : rb' = [rb EXCEPT !.pc = pc, !.next = 0, !.win = win]
    BY <1>10, Zenon DEF RbRange
  <2>2. PICK n \in Nat : n = rb.next + 1
    BY DEF BridgeInv
  <2>3. ASSUME NEW win, rb' = [rb EXCEPT !.win = win, !.next = @ + 1] PROVE BridgeInv'
    <3>1. rb' = [rb EXCEPT !.win = win, !.next = n]
      BY <2>2, <2>3
    <3>. QED  BY <3>1 DEF BridgeInv
  <2>4. ASSUME NEW win, NEW pc, rb' = [rb EXCEPT !.pc = pc, !.next = 0, !.win = win] PROVE BridgeInv'
    BY <2>4 DEF BridgeInv
  <2>. QED  BY <1>4, <2>1, <2>3, <2>4
<1>11. CASE RbFree
  BY <1>4, <1>11 DEF RbFree
<1>12. CASE UNCHANGED rb
  BY <1>1, <1>12
<1>13. CASE \E w \in Widths, a \in Addresses, count \in Counts :
              \/ \E op \in {"read", "write"} : RootBridgeIoMem(op, w, a, count) \/ RootBridgeIoIo(op, w, a, count)
              \/ \E src \in Addresses : RootBridgeIoCopyMem(w, a, src, count)
  BY <1>1, <1>13 DEF RootBridgeIoMem, RootBridgeIoIo, RootBridgeIoAccess, RootBridgeIoCopyMem
<1>14. CASE \E a \in Addresses, space \in {"io", "mem"}, delay \in Delays, up \in BOOLEAN,
              tick \in 0..EndTick, hw \in BOOLEAN : RootBridgeIoPoll(space, a, delay, up, tick, hw)
  BY <1>1, <1>14 DEF RootBridgeIoPoll
<1>15. CASE \E op \in {"read", "write"}, w \in Widths, bus \in 0..(CellBase - 1), function \in 0..(MaxFunction + 1),
              r \in 0..(ConfigSize - 1), extended \in BOOLEAN, count \in Counts :
              RootBridgeIoPciAccess(op, w, bus, function, r, extended, count)
  BY <1>1, <1>15 DEF RootBridgeIoPciAccess
<1>16. CASE UNCHANGED allVars
  BY <1>1, <1>16 DEF allVars, pciVars
<1>17. RbNext => BridgeInv'
  BY <1>7, <1>8, <1>9, <1>10, <1>11, <1>12, <1>13, <1>14, <1>15, Zenon DEF RbNext
<1>. QED  BY <1>12, <1>16, <1>17, Zenon DEF DtNext

LEMMA MemoryStep ==
  ASSUME MemoryInv, [DtNext]_allVars
  PROVE  MemoryInv'
<1>1. ASSUME hm' = hm PROVE MemoryInv'
  BY <1>1 DEF MemoryInv
<1>2. CASE NextRange
  <2>1. PICK n \in Nat : n = hm.index + 1
    BY DEF MemoryInv
  <2>2. hm' = [hm EXCEPT !.pc = "ranges", !.index = n, !.region = NoReg]
    BY <1>2, <2>1 DEF NextRange
  <2>. QED  BY <2>2 DEF MemoryInv
<1>3. CASE GiveUp
  BY <1>3 DEF GiveUp, MemoryInv
<1>4. ASSUME NEW pc, hm' = [hm EXCEPT !.pc = pc] PROVE MemoryInv'
  BY <1>4 DEF MemoryInv
<1>5. ASSUME NEW pc, NEW region, hm' = [hm EXCEPT !.pc = pc, !.region = region] PROVE MemoryInv'
  BY <1>5 DEF MemoryInv
<1>6. CASE DriverStart
  BY <1>6 DEF DriverStart, MemoryInv
<1>7. CASE SetMemoryAttributes \/ DriverStop
  BY <1>2, <1>3, <1>7 DEF SetMemoryAttributes, DriverStop
<1>8. CASE \E f \in Faults : ProcessMemoryRanges(f)
  BY <1>2, <1>3, <1>4, <1>5, <1>8 DEF ProcessMemoryRanges
<1>9. CASE \E f \in Faults : SetRegType(f)
  BY <1>2, <1>3, <1>4, <1>9, Zenon DEF SetRegType
<1>. QED  BY <1>1, <1>6, <1>7, <1>8, <1>9, Zenon DEF DtNext, HmNext, memVars, allVars
\* What a step does to the memory map: it stays, or the parser of a region, or a
\* driver that sets the type of a region, changes it.
SetsType ==
  /\ reg' = reg
  /\ \E base, len, to : /\ WantedGood(to) /\ gcd' = ApplyGcdTypeAndAttrs(base, len, to).gcd
Parses == \E kind, p, i, fault : kind \in Kinds /\ i \in Nat /\ gcd' = ParseRegion(kind, p, i, fault).gcd

LEMMA MapKinds ==
  ASSUME dt \in Blobs, BridgeInv, MemoryInv, [DtNext]_allVars
  PROVE  (reg' = reg /\ gcd' = gcd) \/ SetsType \/ Parses
<1>1. \A i \in Indices : i \in Nat
  BY DEF Indices
<1>2. \A kind \in {"reg", "ranges"} : kind \in Kinds
  BY DEF Kinds
<1>0. ASSUME NEW kind \in Kinds, NEW p, NEW i \in Nat, NEW f, gcd' = ParseRegion(kind, p, i, f).gcd
       PROVE  Parses
  BY <1>0, Zenon DEF Parses
<1>24. ASSUME NEW kind \in Kinds, NEW i \in Nat, NEW f, gcd' = GetRegion(kind, i, f).gcd
       PROVE  Parses \/ gcd' = gcd
  <2>1. CASE Has(Device, kind)
    BY <1>0, <1>24, <2>1, Zenon DEF GetRegion
  <2>2. CASE ~Has(Device, kind)
    <3>1. GetRegion(kind, i, f) = NotParsed(NoProp)
      BY <2>2 DEF GetRegion
    <3>. QED  BY <1>24, <3>1 DEF NotParsed, ParseError
  <2>. QED  BY <2>1, <2>2
<1>3. ASSUME NEW kind \in Kinds, NEW i \in Nat, NEW f,
             DtIoGetRegion(kind, i, f) \/ DtIoParsePropRegion(kind, i, f)
      PROVE  Parses \/ (reg' = reg /\ gcd' = gcd)
  <2>1. CASE DtIoGetRegion(kind, i, f)
    <3>1. gcd' = GetRegion(kind, i, f).gcd /\ reg' = IF GetRegion(kind, i, f).ok THEN GetRegion(kind, i, f).reg ELSE reg
      BY <2>1, Zenon DEF DtIoGetRegion
    <3>2. NotParsed(NoProp).gcd = gcd /\ NotParsed(NoProp).ok = FALSE
      BY DEF NotParsed, ParseError
    <3>3. CASE Has(Device, kind)
      BY <1>0, <3>1, <3>3, Zenon DEF GetRegion
    <3>4. CASE ~Has(Device, kind)
      <4>1. GetRegion(kind, i, f) = NotParsed(NoProp)
        BY <3>4 DEF GetRegion
      <4>. QED  BY <3>1, <3>2, <4>1
    <3>. QED  BY <3>3, <3>4
  <2>2. CASE DtIoParsePropRegion(kind, i, f)
    <3>1. gcd' = ParseRegion(kind, prop, i, f).gcd
      BY <2>2, Zenon DEF DtIoParsePropRegion
    <3>. QED  BY <1>0, <3>1
  <2>. QED  BY <1>3, <2>1, <2>2
<1>4. CASE \E i \in Indices, f \in Faults :
             \/ DtIoGetReg(i, f) \/ DtIoGetRange(i, f)
             \/ \E kind \in {"reg", "ranges"} : DtIoParsePropRegion(kind, i, f)
  BY <1>1, <1>2, <1>3, <1>4 DEF DtIoGetReg, DtIoGetRange
<1>5. CASE \E s \in Names, f \in Faults : DtIoGetRegByName(s, f)
  BY <1>2, <1>3, <1>5, StringIndex DEF DtIoGetRegByName, DtIoGetReg
<1>6. ASSUME NEW base, NEW len, NEW type, NEW attrs, NEW f, type \in Types, attrs \in 0..(CpuWord - 1), reg' = reg,
             gcd' = ApplyGcdTypeAndAttrs(base, len, [type |-> type, attrs |-> attrs, keep |-> FALSE, fault |-> f]).gcd
      PROVE  SetsType
  <2>. DEFINE to == [type |-> type, attrs |-> attrs, keep |-> FALSE, fault |-> f]
  <2>1. WantedGood(to)
    BY <1>6 DEF WantedGood
  <2>2. gcd' = ApplyGcdTypeAndAttrs(base, len, to).gcd
    BY <1>6
  <2>. HIDE DEF to
  <2>. QED  BY <1>6, <2>1, <2>2, Zenon DEF SetsType
<1>7. CASE \E c \in DOMAIN RegTypes, attrs \in Attributes, f \in Faults : DtIoSetRegType(RegTypes[c], attrs, f)
  <2>1. PICK c \in DOMAIN RegTypes, attrs \in Attributes, f \in Faults : DtIoSetRegType(RegTypes[c], attrs, f)
    BY <1>7
  <2>2. RegTypes[c] \in Types /\ attrs \in 0..(CpuWord - 1)
    BY BlobsAssumption DEF Types
  <2>. QED  BY <1>6, <2>1, <2>2, Zenon DEF DtIoSetRegType
<1>8. CASE \E f \in Faults : SetRegType(f)
  <2>1. SystemMemory \in Types /\ WB \in 0..(CpuWord - 1)
    BY MemoryAssumption, Sizes DEF Types
  <2>2. PICK f \in Faults : SetRegType(f)
    BY <1>8
  <2>3. /\ reg' = reg
        /\ gcd' = ApplyGcdTypeAndAttrs(hm.region.base, hm.region.len,
                    [type |-> SystemMemory, attrs |-> WB, keep |-> FALSE, fault |-> f]).gcd
    BY <2>2, Zenon DEF SetRegType
  <2>. QED  BY <1>6, <2>1, <2>3
<1>9. CASE \E f \in Faults : ProcessMemoryRanges(f)
  <2>1. PICK f \in Faults : ProcessMemoryRanges(f)
    BY <1>9
  <2>2. reg' = reg /\ gcd' = GetRegion("reg", hm.index, f).gcd
    BY <2>1, Zenon DEF ProcessMemoryRanges
  <2>3. hm.index \in Nat
    BY DEF MemoryInv
  <2>. QED  BY <1>2, <1>24, <2>2, <2>3
<1>10. CASE \E f \in Faults : RbConfig(f)
  <2>1. PICK f \in Faults : RbConfig(f)
    BY <1>10
  <2>2. /\ reg' = reg
        /\ \/ gcd' = gcd
           \/ ConfigNamed /\ gcd' = GetRegion("reg", DtIoGetStringIndex("config"), f).gcd
    BY <2>1, Zenon DEF RbConfig, ConfigFound
  <2>3. ConfigNamed => DtIoGetStringIndex("config") \in Nat
    BY StringIndex DEF ConfigNamed
  <2>. QED  BY <1>2, <1>24, <2>2, <2>3
<1>11. CASE \E f \in Faults : RbFirstReg(f)
  <2>1. PICK f \in Faults : RbFirstReg(f)
    BY <1>11
  <2>2. reg' = reg /\ gcd' = GetRegion("reg", 0, f).gcd
    BY <2>1, Zenon DEF RbFirstReg, ConfigFound
  <2>. QED  BY <1>2, <1>24, <2>2
<1>12. CASE \E f \in Faults : RbRange(f)
  <2>1. PICK f \in Faults : RbRange(f)
    BY <1>12
  <2>2. reg' = reg /\ gcd' = GetRegion("ranges", rb.next, f).gcd
    BY <2>1, Zenon DEF RbRange
  <2>3. rb.next \in Nat
    BY DEF BridgeInv
  <2>. QED  BY <1>2, <1>24, <2>2, <2>3
<1>13. CASE RbBusRange \/ RbFree \/ PollStep
  BY <1>13 DEF RbBusRange, RbFree, PollStep, PollRead, PollTick, Clock, HwChange, PollReturn
<1>14. CASE \E b \in SampleBuses : DtIoSetCallbacks(b)
  BY <1>14 DEF DtIoSetCallbacks
<1>15. CASE Next
  <2>1. CASE \/ \E name \in DOMAIN dt[Device] : DtIoGetProp(name)
             \/ \E type \in FieldParsers, i \in Indices : DtIoParseProp(type, i)
             \/ \E i \in Indices : DtIoParsePropString(i)
    BY <2>1 DEF DtIoGetProp, DtIoParseProp, DtIoParsePropString
  <2>2. CASE \E w \in Widths, off \in Offsets, count \in Counts :
               \/ \E op \in {"read", "write"} : DtIoReadWriteReg(op, w, off, count)
               \/ \E src \in Offsets : DtIoCopyReg(w, off, src, count)
    BY <2>2 DEF DtIoReadWriteReg, DtIoCopyReg
  <2>3. CASE \E delay \in Delays, up \in BOOLEAN, tick \in 0..EndTick, hw \in BOOLEAN : DtIoPollReg(delay, up, tick, hw)
    BY <2>3 DEF DtIoPollReg, PollStart
  <2>. QED  BY <1>4, <1>5, <1>7, <1>13, <1>14, <1>15, <2>1, <2>2, <2>3, Zenon DEF Next
<1>16. CASE \E w \in Widths, a \in Addresses, count \in Counts :
              \/ \E op \in {"read", "write"} : RootBridgeIoMem(op, w, a, count) \/ RootBridgeIoIo(op, w, a, count)
              \/ \E src \in Addresses : RootBridgeIoCopyMem(w, a, src, count)
  BY <1>16 DEF RootBridgeIoMem, RootBridgeIoIo, RootBridgeIoAccess, RootBridgeIoCopyMem
<1>17. CASE \E a \in Addresses, space \in {"io", "mem"}, delay \in Delays, up \in BOOLEAN,
              tick \in 0..EndTick, hw \in BOOLEAN : RootBridgeIoPoll(space, a, delay, up, tick, hw)
  BY <1>17 DEF RootBridgeIoPoll, PollStart
<1>18. CASE \E op \in {"read", "write"}, w \in Widths, bus \in 0..(CellBase - 1), function \in 0..(MaxFunction + 1),
              r \in 0..(ConfigSize - 1), extended \in BOOLEAN, count \in Counts :
              RootBridgeIoPciAccess(op, w, bus, function, r, extended, count)
  BY <1>18 DEF RootBridgeIoPciAccess
<1>19. CASE RbNext
  BY <1>10, <1>11, <1>12, <1>13, <1>14, <1>15, <1>16, <1>17, <1>18, <1>19, Zenon DEF RbNext
<1>20. CASE DriverStart \/ SetMemoryAttributes \/ DriverStop
  BY <1>20 DEF DriverStart, SetMemoryAttributes, DriverStop
<1>21. CASE HmNext
  BY <1>8, <1>9, <1>20, <1>21, Zenon DEF HmNext
<1>22. CASE UNCHANGED allVars
  BY <1>22 DEF allVars, pciVars, vars
<1>. QED  BY <1>14, <1>19, <1>21, <1>22, Zenon DEF DtNext

\* What a step may do to the memory map.
LEMMA GcdStep ==
  ASSUME GcdInv, [DtNext]_allVars
  PROVE  /\ GcdInv'
         /\ \E keep \in BOOLEAN : (reg' # reg => keep = TRUE) /\ MapKept(gcd', keep)
<1>1. dt \in Blobs /\ MapInv /\ BridgeInv /\ MemoryInv
  BY DEF GcdInv
<1>2. \E keep \in BOOLEAN : (reg' # reg => keep = TRUE) /\ MapKept(gcd', keep)
  <2>1. CASE reg' = reg /\ gcd' = gcd
    BY <1>1, <2>1, MapUntouched
  <2>2. CASE SetsType
    <3>1. PICK base, len, to : WantedGood(to) /\ gcd' = ApplyGcdTypeAndAttrs(base, len, to).gcd
      BY <2>2 DEF SetsType
    <3>2. MapKept(gcd', to.keep) /\ to.keep \in BOOLEAN
      BY <1>1, <3>1, MapApplied DEF WantedGood
    <3>. QED  BY <2>2, <3>2 DEF SetsType
  <2>3. CASE Parses
    <3>1. PICK kind, p, i, fault : kind \in Kinds /\ i \in Nat /\ gcd' = ParseRegion(kind, p, i, fault).gcd
      BY <2>3 DEF Parses
    <3>2. MapKept(gcd', TRUE)
      BY <1>1, <3>1, ParsedMap
    <3>. QED  BY <3>2
  <2>. QED  BY <1>1, <2>1, <2>2, <2>3, MapKinds
<1>3. MapInv'
  BY <1>2 DEF MapKept, MapInv, GoodPage
<1>4. dt' = dt
  <2>1. Elsewhere \/ GetsProp \/ ParsesFields \/ ParsesStrings \/ ParsesRegion \/ GetsRegion
    BY <1>1, StepKinds
  <2>. QED  BY <2>1 DEF Elsewhere, GetsProp, DtIoGetProp, ParsesFields, DtIoParseProp, ParsesStrings,
                        DtIoParsePropString, ParsesRegion, DtIoParsePropRegion, GetsRegion, DtIoGetRegion
<1>. QED  BY <1>1, <1>2, <1>3, <1>4, BridgeStep, MemoryStep DEF GcdInv

LEMMA GcdInit ==
  ASSUME DtInit
  PROVE  GcdInv
<1>1. dt \in Blobs /\ gcd \in Maps /\ rb = NoBridge /\ hm = NotManaged
  BY DEF DtInit, RbInit, HmInit, Init
<1>2. MapInv
  BY <1>1, MapsAssumption DEF MapInv, GoodPage, Page
<1>. QED  BY <1>1, <1>2 DEF GcdInv, BridgeInv, NoBridge, MemoryInv, NotManaged

\* Memory that is in use stays in the memory map as what it is, whatever a
\* driver asks for; and a driver that only gets a region changes no type or
\* attributes that were there (OnConflictDoNothing), even where a call to the
\* DXE services fails in between (ApplyGcdTypeAndAttrs).
THEOREM UsedMemoryKept == DtSpec => [][PagesKept]_allVars
<1>1. DtInit => GcdInv
  BY GcdInit
<1>2. GcdInv /\ [DtNext]_allVars => GcdInv' /\ [PagesKept]_allVars
  <2>1. SUFFICES ASSUME GcdInv, [DtNext]_allVars PROVE GcdInv' /\ PagesKept
    OBVIOUS
  <2>2. PICK keep \in BOOLEAN : (reg' # reg => keep = TRUE) /\ MapKept(gcd', keep)
    BY <2>1, GcdStep
  <2>3. PagesKept
    BY <2>2 DEF PagesKept, MapKept, Preserved
  <2>. QED  BY <2>1, <2>3, GcdStep
<1>. QED  BY <1>1, <1>2, PTL DEF DtSpec
\* Every byte of a region that does not end in the last page of all is in its pages.
LEMMA BytesInPages ==
  ASSUME NEW base \in Nat, NEW len \in Nat, base + len <= CpuWord, NEW o \in 0..(len - 1),
         (base + len - 1) \div PageSize # CpuPages - 1
  PROVE  (base + o) \div PageSize \in PagesOf(base, len)
<1>. DEFINE P == PageSize
            N == CpuPages
            x == base + len
            last == (x - 1) \div P
            pg == (base + o) \div P
            e == (x + (P - 1)) \div P
<1>1. /\ P \in Nat /\ P > 0 /\ N \in Nat /\ CpuWord \in Nat /\ x \in Nat /\ x > 0 /\ x <= CpuWord
      /\ o \in Nat /\ base + o \in Nat /\ base + o <= x - 1
  BY PagesAreNumbers, Sizes
<1>2. CpuWord = P * N
  <2>1. CpuWord % PageSize = 0
    BY SizesAssumption
  <2>. QED  BY <1>1, <2>1 DEF CpuPages
<1>. HIDE DEF P, N, x
<1>3. last \in Nat /\ P * last <= x - 1 /\ x - 1 < P * last + P
  BY <1>1, Quotient
<1>4. pg \in Nat /\ P * pg <= base + o
  BY <1>1, Quotient
<1>5. e \in Nat /\ P * e <= x + (P - 1) /\ x + (P - 1) < P * e + P
  <2>1. x + (P - 1) \in Nat
    BY <1>1
  <2>. QED  BY <1>1, <2>1, Quotient
<1>6. base \div P \in Nat /\ P * (base \div P) <= base /\ base < P * (base \div P) + P
  BY <1>1, Quotient
<1>7. last # N - 1
  BY DEF last, N, x, P
<1>. HIDE DEF last, pg, e
<1>8. \A a, b \in Nat : a < b <=> P * a + P <= P * b
  <2>1. \A a, b \in Nat : a < b => P * a + P <= P * b
    <3>1. \A a, b \in Nat : a + 1 <= b => P * (a + 1) <= P * b
      BY <1>1
    <3>. QED  BY <1>1, <3>1
  <2>2. \A a, b \in Nat : b <= a => P * b <= P * a
    BY <1>1
  <2>3. \A a, b \in Nat : P * a \in Nat /\ P * b \in Nat
    BY <1>1
  <2>. QED  BY <1>1, <2>1, <2>2, <2>3
<1>9. \A a \in Nat : P * a \in Nat
  BY <1>1
<1>10. last < N
  <2>1. P * last < P * N
    BY <1>1, <1>2, <1>3
  <2>. QED  BY <1>1, <1>3, <1>8, <1>9, <2>1
<1>11. last + 1 < N /\ last + 1 \in Nat
  BY <1>1, <1>3, <1>7, <1>10
<1>12. P * (last + 1) = P * last + P
  BY <1>1, <1>3
<1>13. x < CpuWord
  <2>1. P * (last + 1) + P <= P * N
    BY <1>1, <1>8, <1>11
  <2>. QED  BY <1>1, <1>2, <1>3, <1>9, <1>12, <2>1
<1>14. e = last + 1
  <2>1. ~(e < last + 1)
    BY <1>1, <1>3, <1>5, <1>8, <1>9, <1>11, <1>12
  <2>2. ~(last + 1 < e)
    BY <1>1, <1>3, <1>5, <1>8, <1>9, <1>11, <1>12
  <2>. QED  BY <1>5, <1>11, <2>1, <2>2
<1>15. pg < e
  <2>1. ~(last < pg)
    BY <1>1, <1>3, <1>4, <1>8, <1>9
  <2>. QED  BY <1>3, <1>4, <1>14, <2>1
<1>16. base \div P <= pg
  <2>1. base + o < P * pg + P
    BY <1>1, Quotient DEF pg
  <2>2. ~(pg < base \div P)
    BY <1>1, <1>4, <1>6, <1>8, <1>9, <2>1
  <2>. QED  BY <1>4, <1>6, <2>2
<1>17. x % CpuWord = x /\ e % N = e
  BY <1>1, <1>5, <1>11, <1>13, <1>14
<1>18. PagesOf(base, len) = {q \in 0..(N - 1) : base \div P <= q /\ q < ((((x % CpuWord) + (P - 1)) \div P) % N)}
  BY DEF PagesOf, N, P, x
<1>19. ((x % CpuWord) + (P - 1)) \div P = e
  BY <1>17 DEF e
<1>20. PagesOf(base, len) = {q \in 0..(N - 1) : base \div P <= q /\ q < e}
  BY <1>17, <1>18, <1>19
<1>21. pg \in 0..(N - 1)
  BY <1>1, <1>4, <1>5, <1>11, <1>14, <1>15
<1>. QED  BY <1>15, <1>16, <1>20, <1>21 DEF pg, P
\* What RegionAccessible says of one region and the memory map it came with.
InMap(r, map) ==
  \A o \in 0..(r.len - 1) :
    LET pg == (r.base + o) \div PageSize
    IN  \/ (r.base + r.len - 1) \div PageSize = CpuPages - 1
        \/ pg \in Known /\ map[pg].type # "NonExistent"

LEMMA ParsedInMap ==
  ASSUME dt \in Blobs, AddressesFit, MapInv, NEW kind \in Kinds, NEW p, Over(kind, p),
         NEW i \in Nat, NEW fault, NEW r, r = ParseRegion(kind, p, i, fault),
         r.ok = TRUE, r.reg.bus = Cpu
  PROVE  InMap(r.reg, r.gcd)
<1>. DEFINE ta == DtPropGetRegOrRangeEfiTypeAndAttrs(kind, i)
            to == Wanted(ta, TRUE, fault)
            map == MapAt(kind, p, i, fault)
            g == r.reg
<1>1. Exact(g) /\ Placed(g)
  <2>1. RangesFit /\ RegionsFit
    BY DEF AddressesFit
  <2>. QED  BY <2>1, ParsedExactly
<1>2. g.base \in Nat /\ g.len \in Nat /\ g.base + g.len <= CpuWord
  BY <1>1 DEF Exact, Placed
<1>3. /\ g = RegionAt(kind, p, i)
      /\ \/ EndAt(kind, p, i).bus # Cpu \/ ReadAt(kind, p, i).len = 0
         \/ ta.status = "EFI_SUCCESS" /\ map.ok /\ r.gcd = map.gcd
  <2>1. Outcome(kind, p, i, fault, r)
    BY RegionCases
  <2>. QED  BY <2>1, Zenon DEF Outcome
<1>4. g.base = EndAt(kind, p, i).base /\ g.bus = EndAt(kind, p, i).bus /\ g.len = ReadAt(kind, p, i).len
  <2>1. g = RegionAt(kind, p, i)
    BY <1>3
  <2>. HIDE DEF g
  <2>. QED  BY <2>1 DEF RegionAt
<1>5. map = ApplyGcdTypeAndAttrs(g.base, g.len, to)
  BY <1>4 DEF MapAt
<1>. HIDE DEF g
<1>6. CASE g.len = 0
  BY <1>6 DEF InMap, g
<1>7. CASE g.len # 0
  <2>1. ta.status = "EFI_SUCCESS" /\ map.ok /\ r.gcd = map.gcd
    BY <1>3, <1>4, <1>7 DEF g
  <2>2. ta.type \in Types /\ ta.attrs \in 0..(CpuWord - 1)
    BY <2>1, TypeAndAttrs
  <2>3. WantedGood(to)
    <3>. HIDE DEF ta
    <3>. QED  BY <2>2 DEF Wanted, WantedGood
  <2>. HIDE DEF map, ta, to
  <2>4. \A pg \in PagesOf(g.base, g.len) : pg \in Known /\ map.gcd[pg] = Applied(pg, to)
    <3>1. MapReaches(g.base, g.len, to, ApplyGcdTypeAndAttrs(g.base, g.len, to))
      BY MapDone
    <3>. QED  BY <1>5, <2>1, <3>1 DEF MapReaches
  <2>5. \A pg \in PagesOf(g.base, g.len) : pg \in Known /\ r.gcd[pg].type # "NonExistent"
    BY <2>1, <2>3, <2>4, PageChanges DEF MapInv
  <2>6. \A o \in 0..(g.len - 1) : \/ (g.base + g.len - 1) \div PageSize = CpuPages - 1
                                  \/ (g.base + o) \div PageSize \in PagesOf(g.base, g.len)
    BY <1>2, BytesInPages
  <2>7. InMap(g, r.gcd)
    BY <2>5, <2>6 DEF InMap
  <2>. QED  BY <2>7 DEF g
<1>. QED  BY <1>6, <1>7

\* A region that a driver was just given as one of CPU addresses is in the memory
\* map, page by page, under a type: what the map did not know is there now. Only
\* in a region that ends in the very last page may pages be missing, because the
\* end of that page is the address 0 for ApplyGcdTypeAndAttrs.
THEOREM RegionsInMap == DtSpec /\ AddressesFit => [][RegionAccessible]_allVars
<1>1. DtInit /\ AddressesFit => RegionInv /\ GcdInv
  BY RegionInit, GcdInit DEF DtInit, RbInit
<1>2. RegionInv /\ GcdInv /\ [DtNext]_allVars => (RegionInv /\ GcdInv)' /\ [RegionAccessible]_allVars
  <2>1. SUFFICES ASSUME RegionInv, GcdInv, [DtNext]_allVars PROVE RegionAccessible
    BY RegionStep, GcdStep
  <2>2. dt \in Blobs /\ AddressesFit /\ PropInv /\ MapInv
    BY <2>1 DEF RegionInv, GcdInv
  <2>3. ASSUME NEW kind \in Kinds, NEW p, Over(kind, p), NEW i \in Nat, NEW fault, NEW r,
               r = ParseRegion(kind, p, i, fault), gcd' = r.gcd, reg' = IF r.ok THEN r.reg ELSE reg
        PROVE  RegionAccessible
    <3>1. SUFFICES ASSUME reg' # reg, reg'.bus = Cpu PROVE InMap(reg', gcd')
      BY DEF RegionAccessible, InMap
    <3>2. r.ok = TRUE \/ r.ok = FALSE
      <4>1. RangesFit /\ RegionsFit
        BY <2>2 DEF AddressesFit
      <4>. QED  BY <2>2, <2>3, <4>1, ParsedExactly
    <3>3. r.ok = TRUE /\ reg' = r.reg
      BY <2>3, <3>1, <3>2
    <3>4. InMap(r.reg, r.gcd)
      BY <2>2, <2>3, <3>1, <3>3, ParsedInMap
    <3>. QED  BY <2>3, <3>3, <3>4
  <2>4. CASE Elsewhere \/ GetsProp \/ ParsesFields \/ ParsesStrings
    <3>1. reg' = reg
      BY <2>4 DEF Elsewhere, GetsProp, DtIoGetProp, ParsesFields, DtIoParseProp, ParsesStrings, DtIoParsePropString
    <3>. QED  BY <3>1 DEF RegionAccessible
  <2>5. CASE ParsesRegion
    <3>1. PICK kind \in Kinds, i \in Nat, f \in Faults : DtIoParsePropRegion(kind, i, f)
      BY <2>5 DEF ParsesRegion
    <3>2. PICK r : r = ParseRegion(kind, prop, i, f)
      OBVIOUS
    <3>3. prop.name = kind /\ gcd' = r.gcd /\ reg' = IF r.ok THEN r.reg ELSE reg
      BY <3>1, <3>2, Zenon DEF DtIoParsePropRegion
    <3>4. Over(kind, prop)
      BY <2>2, <3>3 DEF PropInv, Kinds
    <3>. QED  BY <2>3, <3>2, <3>3, <3>4
  <2>6. CASE GetsRegion
    <3>1. PICK kind \in Kinds, i \in Nat, f \in Faults : DtIoGetRegion(kind, i, f)
      BY <2>6 DEF GetsRegion
    <3>2. PICK r : r = GetRegion(kind, i, f)
      OBVIOUS
    <3>3. gcd' = r.gcd /\ reg' = IF r.ok THEN r.reg ELSE reg
      BY <3>1, <3>2, Zenon DEF DtIoGetRegion
    <3>4. CASE Has(Device, kind)
      <4>1. Over(kind, AtBegin(Device, kind)) /\ r = ParseRegion(kind, AtBegin(Device, kind), i, f)
        BY <2>2, <3>2, <3>4, PropertyCells, Tree DEF Over, Kinds, GetRegion
      <4>. QED  BY <2>3, <3>3, <4>1
    <3>5. CASE ~Has(Device, kind)
      <4>1. r = NotParsed(NoProp)
        BY <3>2, <3>5 DEF GetRegion
      <4>2. reg' = reg
        BY <3>3, <4>1 DEF NotParsed, ParseError
      <4>. QED  BY <4>2 DEF RegionAccessible
    <3>. QED  BY <3>4, <3>5
  <2>. QED  BY <2>1, <2>2, <2>4, <2>5, <2>6, StepKinds
<1>. QED  BY <1>1, <1>2, PTL DEF DtSpec
-----------------------------------------------------------------------------
(* Accesses, and the types of all variables                                *)

\* What the cells of an access are, as far as their types go.
CallOnBus(c) ==
  /\ c = [by |-> c.by, asked |-> c.asked, cells |-> c.cells, function |-> c.function]
  /\ \A cell \in c.cells : cell[1] \in Nodes \cup {Cpu}

LEMMA CallFields ==
  ASSUME NEW c, c = [by |-> c.by, asked |-> c.asked, cells |-> c.cells, function |-> c.function],
         NEW asked, NEW cells, NEW d, d = [c EXCEPT !.asked = asked, !.cells = cells]
  PROVE  /\ d = [by |-> c.by, asked |-> asked, cells |-> cells, function |-> c.function]
         /\ d = [by |-> d.by, asked |-> d.asked, cells |-> d.cells, function |-> d.function]
<1>1. d = [by |-> c.by, asked |-> asked, cells |-> cells, function |-> c.function]
  <2>. DEFINE e == [by |-> c.by, asked |-> asked, cells |-> cells, function |-> c.function]
  <2>1. DOMAIN c = {"by", "asked", "cells", "function"}
    OBVIOUS
  <2>2. d = [x \in DOMAIN c |-> IF x = "cells" THEN cells ELSE IF x = "asked" THEN asked ELSE c[x]]
    BY <2>1
  <2>3. e = [x \in {"by", "asked", "cells", "function"} |-> e[x]]
    OBVIOUS
  <2>. QED  BY <2>1, <2>2, <2>3
<1>. QED  BY <1>1

LEMMA AccessOnBus ==
  ASSUME NEW r, r.bus \in Nodes \cup {Cpu}, NEW op, NEW w, NEW off, NEW count
  PROVE  CallOnBus(Access(r, op, w, off, count).call)
<1>1. \A a : \A c \in Touched(r, a, w, count) : c[1] \in Nodes \cup {Cpu}
  BY DEF Touched
<1>2. \A asked, cells : (\A c \in cells : c[1] \in Nodes \cup {Cpu})
                          => CallOnBus([NoCall EXCEPT !.asked = asked, !.cells = cells])
  <2>1. NoCall = [by |-> NoCall.by, asked |-> NoCall.asked, cells |-> NoCall.cells, function |-> NoCall.function]
    BY DEF NoCall
  <2>2. ASSUME NEW asked, NEW cells, \A c \in cells : c[1] \in Nodes \cup {Cpu},
               NEW d, d = [NoCall EXCEPT !.asked = asked, !.cells = cells]
        PROVE  CallOnBus(d)
    <3>1. /\ d = [by |-> NoCall.by, asked |-> asked, cells |-> cells, function |-> NoCall.function]
          /\ d = [by |-> d.by, asked |-> d.asked, cells |-> d.cells, function |-> d.function]
      BY <2>1, <2>2, CallFields
    <3>2. d.cells = cells
      BY <3>1
    <3>. QED  BY <2>2, <3>1, <3>2 DEF CallOnBus
  <2>. QED  BY <2>2
<1>3. CallOnBus(NoCall)
  BY DEF NoCall, CallOnBus
<1>4. PICK c : c = Access(r, op, w, off, count).call
  OBVIOUS
<1>5. \/ c = NoCall
      \/ \E asked, a : c = [NoCall EXCEPT !.asked = asked, !.cells = Touched(r, a, w, count)]
  BY <1>4, Zenon DEF Access
<1>6. CallOnBus(c)
  <2>1. CASE c = NoCall
    BY <1>3, <2>1
  <2>2. ASSUME NEW asked, NEW a, c = [NoCall EXCEPT !.asked = asked, !.cells = Touched(r, a, w, count)]
        PROVE  CallOnBus(c)
    <3>1. CallOnBus([NoCall EXCEPT !.asked = asked, !.cells = Touched(r, a, w, count)])
      BY <1>1, <1>2, Zenon
    <3>. QED  BY <2>2, <3>1, Zenon
  <2>. QED  BY <1>5, <2>1, <2>2, Zenon
<1>. QED  BY <1>4, <1>6

LEMMA CopiedOnBus ==
  ASSUME NEW read, NEW write, CallOnBus(read.call), CallOnBus(write.call)
  PROVE  CallOnBus(Copied(read, write))
<1>. DEFINE a == read.call
            b == write.call
            c == [a EXCEPT !.asked = @ \cup b.asked, !.cells = @ \cup b.cells]
<1>1. /\ a = [by |-> a.by, asked |-> a.asked, cells |-> a.cells, function |-> a.function]
      /\ \A cell \in a.cells \cup b.cells : cell[1] \in Nodes \cup {Cpu}
  BY DEF CallOnBus
<1>. HIDE DEF a, b
<1>2. /\ c = [by |-> a.by, asked |-> a.asked \cup b.asked, cells |-> a.cells \cup b.cells, function |-> a.function]
      /\ c = [by |-> c.by, asked |-> c.asked, cells |-> c.cells, function |-> c.function]
  <2>1. PICK asked : asked = a.asked \cup b.asked
    OBVIOUS
  <2>2. PICK cells : cells = a.cells \cup b.cells
    OBVIOUS
  <2>3. PICK d : d = [a EXCEPT !.asked = asked, !.cells = cells]
    OBVIOUS
  <2>4. /\ d = [by |-> a.by, asked |-> asked, cells |-> cells, function |-> a.function]
        /\ d = [by |-> d.by, asked |-> d.asked, cells |-> d.cells, function |-> d.function]
    BY <1>1, <2>3, CallFields
  <2>5. c = d
    BY <2>1, <2>2, <2>3
  <2>. HIDE DEF c
  <2>. QED  BY <2>1, <2>2, <2>4, <2>5
<1>3. CallOnBus(c)
  BY <1>1, <1>2 DEF CallOnBus
<1>4. Copied(read, write) = c \/ Copied(read, write) = a
  BY DEF Copied, a, b
<1>. QED  BY <1>3, <1>4 DEF a

LEMMA RenamedOnBus ==
  ASSUME NEW c, CallOnBus(c), NEW by
  PROVE  CallOnBus([c EXCEPT !.by = by])
<1>1. c = [by |-> c.by, asked |-> c.asked, cells |-> c.cells, function |-> c.function]
  BY DEF CallOnBus
<1>2. [c EXCEPT !.by = by] = [by |-> by, asked |-> c.asked, cells |-> c.cells, function |-> c.function]
  BY <1>1
<1>. QED  BY <1>2 DEF CallOnBus

LEMMA Windows8 ==
  Windows = {"io", "mem", "pmem", "mem4g", "pmem4g", "vgamem", "vgaio1", "vgaio2"}
  BY PciAssumption DEF Windows, Spaces

LEMMA HitIsWindow ==
  ASSUME NEW space, NEW w, NEW a, NEW count, Hits(space, w, a, count) # {}
  PROVE  \E s \in Windows : Hit(space, w, a, count) = rb.win[s]
<1>. DEFINE tried == Tried(space)
            hits == Hits(space, w, a, count)
<1>1. \A i \in DOMAIN tried : i \in Nat /\ tried[i] \in Windows
  BY Windows8 DEF Tried
<1>2. hits \in SUBSET Nat /\ \A i \in hits : tried[i] \in Windows
  BY <1>1 DEF Hits
<1>3. Min(hits) \in hits
  <2>. HIDE DEF hits, tried
  <2>1. \E m \in hits : \A n \in hits : m <= n
    BY <1>2, Least DEF hits
  <2>. QED  BY <2>1 DEF Min
<1>4. Hit(space, w, a, count) = rb.win[tried[Min(hits)]]
  BY DEF Hit
<1>. HIDE DEF hits, tried
<1>. QED  BY <1>2, <1>3, <1>4

\* The configuration region and the windows of the bridge are where a translation
\* ended.
OnBuses(b) ==
  /\ OnBus(b.config)
  /\ b.win = [s \in Windows |-> b.win[s]] /\ \A s \in Windows : OnBus(b.win[s])

LEMMA WindowsOnBus ==
  ASSUME OnBuses(rb)
  PROVE  /\ \A r : OnBus(r) => /\ Stored(r) = [s \in Windows |-> Stored(r)[s]]
                               /\ \A s \in Windows : OnBus(Stored(r)[s])
         /\ WithVga(rb.win) = [s \in Windows |-> WithVga(rb.win)[s]]
         /\ \A s \in Windows : OnBus(WithVga(rb.win)[s])
<1>. DEFINE win == rb.win
<1>1. win = [s \in Windows |-> win[s]] /\ \A s \in Windows : OnBus(win[s])
  BY DEF OnBuses
<1>2. ASSUME NEW r, OnBus(r)
      PROVE  /\ Stored(r) = [s \in Windows |-> Stored(r)[s]]
             /\ \A s \in Windows : OnBus(Stored(r)[s])
  <2>1. CASE ~KeepExistingConfig /\ r.bus # Cpu
    <3>1. Stored(r) = win
      BY <2>1 DEF Stored
    <3>. HIDE DEF win
    <3>. QED  BY <1>1, <3>1
  <2>2. CASE ~(~KeepExistingConfig /\ r.bus # Cpu)
    <3>1. Stored(r) = [s \in Windows |-> IF s \in KindOf(r) THEN r ELSE win[s]]
      BY <2>2 DEF Stored
    <3>. HIDE DEF win
    <3>. QED  BY <1>1, <1>2, <3>1
  <2>. QED  BY <2>1, <2>2
<1>3. OnBus(NoReg)
  BY DEF OnBus, NoReg
<1>4. ASSUME NEW r, OnBus(r), NEW vga PROVE OnBus(Moved(r, vga))
  <2>1. \A child, busBase, base, len :
          OnBus([r EXCEPT !.child = child, !.busBase = busBase, !.base = base, !.len = len])
    BY <1>4 DEF OnBus
  <2>2. Moved(r, vga) = NoReg \/ \E child, busBase, base, len :
          Moved(r, vga) = [r EXCEPT !.child = child, !.busBase = busBase, !.base = base, !.len = len]
    BY Zenon DEF Moved
  <2>3. PICK m : m = Moved(r, vga)
    OBVIOUS
  <2>4. CASE m = NoReg
    BY <1>3, <2>3, <2>4
  <2>5. ASSUME NEW child, NEW busBase, NEW base, NEW len,
               m = [r EXCEPT !.child = child, !.busBase = busBase, !.base = base, !.len = len]
        PROVE  OnBus(m)
    BY <2>1, <2>5
  <2>6. OnBus(m)
    BY <2>2, <2>3, <2>4, <2>5, Zenon
  <2>. QED  BY <2>3, <2>6
<1>6. \A vga : OnBus(Moved(win["io"], vga)) /\ OnBus(Moved(win["mem"], vga))
  <2>1. OnBus(win["io"]) /\ OnBus(win["mem"])
    BY <1>1, Windows8
  <2>. HIDE DEF win
  <2>. QED  BY <1>4, <2>1
<1>7. WithVga(win) = [win EXCEPT !["vgaio1"] = Moved(win["io"], VgaIo1), !["vgaio2"] = Moved(win["io"], VgaIo2),
                                 !["vgamem"] = Moved(win["mem"], VgaMem)]
  BY DEF WithVga
<1>. HIDE DEF win
<1>8. WithVga(win) = [s \in Windows |-> WithVga(win)[s]] /\ \A s \in Windows : OnBus(WithVga(win)[s])
  <2>1. PICK a : a = Moved(win["io"], VgaIo1)
    OBVIOUS
  <2>2. PICK b : b = Moved(win["io"], VgaIo2)
    OBVIOUS
  <2>3. PICK c : c = Moved(win["mem"], VgaMem)
    OBVIOUS
  <2>4. PICK v : v = [win EXCEPT !["vgaio1"] = a, !["vgaio2"] = b, !["vgamem"] = c]
    OBVIOUS
  <2>5. OnBus(a) /\ OnBus(b) /\ OnBus(c)
    BY <1>6, <2>1, <2>2, <2>3
  <2>6. v = [s \in Windows |-> v[s]] /\ \A s \in Windows : OnBus(v[s])
    BY <1>1, <2>4, <2>5, Windows8
  <2>7. WithVga(win) = v
    BY <1>7, <2>1, <2>2, <2>3, <2>4
  <2>. QED  BY <2>6, <2>7
<1>. QED  BY <1>2, <1>8 DEF win

LEMMA BusesStep ==
  ASSUME dt \in Blobs, AddressesFit, BridgeInv, OnBuses(rb), [DtNext]_allVars
  PROVE  OnBuses(rb')
<1>1. /\ rb = [pc |-> rb.pc, next |-> rb.next, config |-> rb.config, busMin |-> rb.busMin,
               busLen |-> rb.busLen, win |-> rb.win]
      /\ rb.next \in Nat
  BY DEF BridgeInv
<1>2. ASSUME rb' = rb PROVE OnBuses(rb')
  BY <1>2
<1>3. ASSUME NEW pc, rb' = [NoBridge EXCEPT !.pc = pc] \/ rb' = NoBridge PROVE OnBuses(rb')
  <2>1. OnBus(NoReg)
    BY DEF OnBus, NoReg
  <2>2. \A b : b = NoBridge \/ b = [NoBridge EXCEPT !.pc = pc] =>
               b.config = NoReg /\ b.win = [s \in Windows |-> NoReg]
    BY DEF NoBridge
  <2>. QED  BY <1>3, <2>1, <2>2 DEF OnBuses
<1>4. ASSUME NEW b, rb' = b, OnBus(b.config), b.win = rb.win PROVE OnBuses(rb')
  BY <1>4 DEF OnBuses
<1>5. ASSUME NEW kind \in Kinds, NEW i \in Nat, NEW f, NEW r, r = GetRegion(kind, i, f), r.ok
      PROVE  OnBus(r.reg)
  <2>1. r.ok = FALSE \/ (r.ok = TRUE /\ Exact(r.reg) /\ Placed(r.reg))
    BY <1>5, GotExactly
  <2>. QED  BY <1>5, <2>1 DEF Placed
<1>6. ASSUME NEW i \in Nat, NEW f, NEW pc, ConfigFound(GetRegion("reg", i, f), pc) PROVE OnBuses(rb')
  <2>1. PICK r : r = GetRegion("reg", i, f)
    OBVIOUS
  <2>2. "reg" \in Kinds
    BY DEF Kinds
  <2>3. rb' = IF r.ok THEN [rb EXCEPT !.config = r.reg, !.pc = "bus"] ELSE [NoBridge EXCEPT !.pc = pc]
    BY <1>6, <2>1 DEF ConfigFound
  <2>4. CASE r.ok
    <3>1. OnBus(r.reg)
      BY <1>5, <2>1, <2>2, <2>4
    <3>2. PICK b : b = [rb EXCEPT !.config = r.reg, !.pc = "bus"]
      OBVIOUS
    <3>3. b.config = r.reg /\ b.win = rb.win
      BY <1>1, <3>2
    <3>. QED  BY <1>4, <2>3, <2>4, <3>1, <3>2, <3>3
  <2>. QED  BY <1>3, <2>3, <2>4
<1>7. CASE \E f \in Faults : RbConfig(f)
  <2>1. PICK f \in Faults : RbConfig(f)
    BY <1>7
  <2>2. CASE ConfigNamed
    <3>1. DtIoGetStringIndex("config") \in Nat
      BY <2>2, StringIndex DEF ConfigNamed
    <3>. QED  BY <1>6, <2>1, <2>2, <3>1 DEF RbConfig
  <2>3. CASE ~ConfigNamed
    BY <1>3, <2>1, <2>3 DEF RbConfig
  <2>. QED  BY <2>2, <2>3
<1>8. CASE \E f \in Faults : RbFirstReg(f)
  BY <1>6, <1>8 DEF RbFirstReg
<1>9. CASE RbBusRange
  <2>1. rb' = NoBridge \/ \E min, len, pc : rb' = [rb EXCEPT !.busMin = min, !.busLen = len, !.pc = pc]
    BY <1>9, Zenon DEF RbBusRange
  <2>3. ASSUME NEW min, NEW len, NEW pc, rb' = [rb EXCEPT !.busMin = min, !.busLen = len, !.pc = pc]
        PROVE  OnBuses(rb')
    <3>1. PICK b : b = [rb EXCEPT !.busMin = min, !.busLen = len, !.pc = pc]
      OBVIOUS
    <3>2. b.config = rb.config /\ b.win = rb.win
      BY <1>1, <3>1
    <3>3. OnBus(b.config)
      BY <3>2 DEF OnBuses
    <3>. QED  BY <1>4, <2>3, <3>1, <3>2, <3>3
  <2>. QED  BY <1>3, <2>1, <2>3, Zenon
<1>10. ASSUME NEW b, rb' = b, b.config = rb.config, b.win = [s \in Windows |-> b.win[s]],
              \A s \in Windows : OnBus(b.win[s])
       PROVE  OnBuses(rb')
  BY <1>10 DEF OnBuses
<1>11. CASE \E f \in Faults : RbRange(f)
  <2>1. PICK f \in Faults : RbRange(f)
    BY <1>11
  <2>2. PICK r : r = GetRegion("ranges", rb.next, f)
    OBVIOUS
  <2>3. rb' = IF r.ok THEN [rb EXCEPT !.win = Stored(r.reg), !.next = @ + 1]
              ELSE IF RootBridgeValidate(rb) THEN [rb EXCEPT !.pc = "ready", !.next = 0, !.win = WithVga(@)]
              ELSE NoBridge
    BY <2>1, <2>2, Zenon DEF RbRange
  <2>4. CASE r.ok
    <3>1. OnBus(r.reg)
      BY <1>1, <1>5, <2>2, <2>4 DEF Kinds
    <3>2. PICK win : win = Stored(r.reg)
      OBVIOUS
    <3>3. win = [s \in Windows |-> win[s]] /\ \A s \in Windows : OnBus(win[s])
      BY <3>1, <3>2, WindowsOnBus
    <3>4. PICK b : b = [rb EXCEPT !.win = win, !.next = @ + 1]
      OBVIOUS
    <3>5. b.config = rb.config /\ b.win = win
      <4>1. PICK n : n = rb.next + 1
        OBVIOUS
      <4>. QED  BY <1>1, <3>4, <4>1
    <3>. QED  BY ZenonT(60), <1>10, <2>3, <2>4, <3>2, <3>3, <3>4, <3>5
  <2>5. CASE ~r.ok /\ RootBridgeValidate(rb)
    <3>1. PICK win : win = WithVga(rb.win)
      OBVIOUS
    <3>2. win = [s \in Windows |-> win[s]] /\ \A s \in Windows : OnBus(win[s])
      BY <3>1, WindowsOnBus
    <3>3. PICK b : b = [rb EXCEPT !.pc = "ready", !.next = 0, !.win = win]
      OBVIOUS
    <3>4. b.config = rb.config /\ b.win = win
      BY <1>1, <3>3
    <3>. QED  BY ZenonT(60), <1>10, <2>3, <2>5, <3>1, <3>2, <3>3, <3>4
  <2>. QED  BY <1>3, <2>3, <2>4, <2>5
<1>12. CASE RbFree
  BY <1>3, <1>12 DEF RbFree
<1>13. CASE UNCHANGED rb
  BY <1>2, <1>13
<1>14. CASE \E w \in Widths, a \in Addresses, count \in Counts :
              \/ \E op \in {"read", "write"} : RootBridgeIoMem(op, w, a, count) \/ RootBridgeIoIo(op, w, a, count)
              \/ \E src \in Addresses : RootBridgeIoCopyMem(w, a, src, count)
  BY <1>2, <1>14 DEF RootBridgeIoMem, RootBridgeIoIo, RootBridgeIoAccess, RootBridgeIoCopyMem
<1>15. CASE \E a \in Addresses, space \in {"io", "mem"}, delay \in Delays, up \in BOOLEAN,
              tick \in 0..EndTick, hw \in BOOLEAN : RootBridgeIoPoll(space, a, delay, up, tick, hw)
  BY <1>2, <1>15 DEF RootBridgeIoPoll
<1>16. CASE \E op \in {"read", "write"}, w \in Widths, bus \in 0..(CellBase - 1), function \in 0..(MaxFunction + 1),
              r \in 0..(ConfigSize - 1), extended \in BOOLEAN, count \in Counts :
              RootBridgeIoPciAccess(op, w, bus, function, r, extended, count)
  BY <1>2, <1>16 DEF RootBridgeIoPciAccess
<1>17. CASE UNCHANGED allVars
  BY <1>2, <1>17 DEF allVars, pciVars
<1>18. RbNext => OnBuses(rb')
  BY <1>7, <1>8, <1>9, <1>11, <1>12, <1>13, <1>14, <1>15, <1>16, Zenon DEF RbNext
<1>. QED  BY <1>13, <1>17, <1>18, Zenon DEF DtNext

\* An access reaches cells at the bus whose driver answers for them.
CallInv == CallOnBus(call) /\ callbacks \subseteq SampleBuses

LEMMA WindowAccessOnBus ==
  ASSUME OnBuses(rb), NEW space, NEW op, NEW w, NEW a, NEW count
  PROVE  CallOnBus(WindowAccess(space, op, w, a, count).call)
<1>1. CallOnBus(NoCall)
  BY DEF NoCall, CallOnBus
<1>2. CASE Accepted(space, w, a, count)
  <2>1. Hits(space, w, a, count) # {}
    BY <1>2 DEF Accepted
  <2>2. PICK s \in Windows : Hit(space, w, a, count) = rb.win[s]
    BY <2>1, HitIsWindow
  <2>3. PICK r : r = rb.win[s]
    OBVIOUS
  <2>4. OnBus(r)
    BY <2>3 DEF OnBuses
  <2>5. FbpRangeToReg(r).bus = r.bus
    BY <2>4 DEF FbpRangeToReg, OnBus
  <2>6. PICK g : g = FbpRangeToReg(r)
    OBVIOUS
  <2>7. g.bus \in Nodes \cup {Cpu}
    BY <2>4, <2>5, <2>6 DEF OnBus
  <2>8. CallOnBus(Access(g, op, w, a, count).call)
    BY <2>7, AccessOnBus
  <2>9. WindowAccess(space, op, w, a, count) = Access(g, op, w, a, count)
    BY <1>2, <2>2, <2>3, <2>6 DEF WindowAccess
  <2>. QED  BY <2>8, <2>9
<1>3. CASE ~Accepted(space, w, a, count)
  <2>1. WindowAccess(space, op, w, a, count).call = NoCall
    BY <1>3 DEF WindowAccess, Refused
  <2>. QED  BY <1>1, <2>1
<1>. QED  BY <1>2, <1>3

\* In configuration space, what was asked for is a register of a function.
LEMMA AskedOnBus ==
  ASSUME NEW c, CallOnBus(c), NEW function, NEW asked
  PROVE  CallOnBus([c EXCEPT !.by = "config", !.function = function, !.asked = asked])
<1>1. c = [by |-> c.by, asked |-> c.asked, cells |-> c.cells, function |-> c.function]
  BY DEF CallOnBus
<1>2. PICK a : a = [c EXCEPT !.by = "config"]
  OBVIOUS
<1>3. a = [by |-> "config", asked |-> c.asked, cells |-> c.cells, function |-> c.function]
  BY <1>1, <1>2
<1>4. PICK b : b = [a EXCEPT !.function = function]
  OBVIOUS
<1>5. b = [by |-> "config", asked |-> c.asked, cells |-> c.cells, function |-> function]
  BY <1>3, <1>4
<1>6. PICK d : d = [b EXCEPT !.asked = asked]
  OBVIOUS
<1>7. d = [by |-> "config", asked |-> asked, cells |-> c.cells, function |-> function]
  BY <1>5, <1>6
<1>8. [c EXCEPT !.by = "config", !.function = function, !.asked = asked] = d
  BY <1>2, <1>4, <1>6, Zenon
<1>9. CallOnBus(d)
  BY <1>7 DEF CallOnBus
<1>. QED  BY <1>8, <1>9

LEMMA CallStep ==
  ASSUME CallInv, OnBuses(rb), reg.bus \in Nodes \cup {Cpu}, [DtNext]_allVars
  PROVE  CallInv'
<1>1. CallOnBus(NoCall)
  BY DEF NoCall, CallOnBus
<1>2. ASSUME call' = call \/ call' = NoCall, callbacks' = callbacks PROVE CallInv'
  BY <1>1, <1>2 DEF CallInv
<1>3. ASSUME NEW c, call' = c, CallOnBus(c), callbacks' = callbacks PROVE CallInv'
  BY <1>3 DEF CallInv
<1>4. CASE Quiet
  BY <1>2, <1>4 DEF Quiet
<1>5. CASE \E b \in SampleBuses : DtIoSetCallbacks(b)
  BY <1>1, <1>5 DEF DtIoSetCallbacks, CallInv
<1>6. CASE PollStep
  BY <1>2, <1>6 DEF PollStep, PollRead, PollTick, Clock, HwChange, PollReturn
<1>7. ASSUME NEW op, NEW w, NEW off, NEW count, DtIoReadWriteReg(op, w, off, count) PROVE CallInv'
  BY <1>3, <1>7, AccessOnBus DEF DtIoReadWriteReg
<1>8. ASSUME NEW w, NEW dest, NEW src, NEW count, DtIoCopyReg(w, dest, src, count) PROVE CallInv'
  <2>1. PICK read : read = Access(reg, "read", w, src, count)
    OBVIOUS
  <2>2. PICK write : write = Access(reg, "write", w, dest, count)
    OBVIOUS
  <2>3. CallOnBus(read.call) /\ CallOnBus(write.call)
    BY <2>1, <2>2, AccessOnBus
  <2>4. CallOnBus(Copied(read, write))
    BY <2>3, CopiedOnBus
  <2>5. call' = Copied(read, write) /\ callbacks' = callbacks
    BY <1>8, <2>1, <2>2 DEF DtIoCopyReg
  <2>. QED  BY <1>3, <2>4, <2>5
<1>9. CASE Next
  <2>1. CASE \/ \E name \in DOMAIN dt[Device] : DtIoGetProp(name)
             \/ \E type \in FieldParsers, i \in Indices : DtIoParseProp(type, i)
             \/ \E i \in Indices : DtIoParsePropString(i)
    BY <1>4, <2>1 DEF DtIoGetProp, DtIoParseProp, DtIoParsePropString
  <2>2. CASE \E i \in Indices, f \in Faults :
               \/ DtIoGetReg(i, f) \/ DtIoGetRange(i, f)
               \/ \E kind \in {"reg", "ranges"} : DtIoParsePropRegion(kind, i, f)
    BY <1>4, <2>2 DEF DtIoGetReg, DtIoGetRange, DtIoGetRegion, DtIoParsePropRegion
  <2>3. CASE \E s \in Names, f \in Faults : DtIoGetRegByName(s, f)
    BY <1>4, <2>3 DEF DtIoGetRegByName, DtIoGetReg, DtIoGetRegion
  <2>4. CASE \E c \in DOMAIN RegTypes, attrs \in Attributes, f \in Faults : DtIoSetRegType(RegTypes[c], attrs, f)
    BY <1>4, <2>4 DEF DtIoSetRegType
  <2>5. CASE \E w \in Widths, off \in Offsets, count \in Counts :
               \/ \E op \in {"read", "write"} : DtIoReadWriteReg(op, w, off, count)
               \/ \E src \in Offsets : DtIoCopyReg(w, off, src, count)
    BY <1>7, <1>8, <2>5
  <2>6. CASE \E delay \in Delays, up \in BOOLEAN, tick \in 0..EndTick, hw \in BOOLEAN : DtIoPollReg(delay, up, tick, hw)
    BY SMTT(60), <1>2, <2>6 DEF DtIoPollReg, PollStart
  <2>. QED  BY <1>5, <1>6, <1>9, <2>1, <2>2, <2>3, <2>4, <2>5, <2>6, Zenon DEF Next
<1>10. CASE HmNext
  BY <1>4, <1>10 DEF HmNext, DriverStart, SetMemoryAttributes, DriverStop, ProcessMemoryRanges, SetRegType
<1>11. CASE \E f \in Faults : RbConfig(f) \/ RbFirstReg(f) \/ RbRange(f)
  BY <1>4, <1>11 DEF RbConfig, RbFirstReg, RbRange
<1>12. CASE RbBusRange \/ RbFree
  BY <1>4, <1>12 DEF RbBusRange, RbFree
<1>13. ASSUME NEW space, NEW op, NEW w, NEW a, NEW count, RootBridgeIoAccess(space, op, w, a, count)
       PROVE  CallInv'
  <2>1. PICK c : c = WindowAccess(space, op, w, a, count).call
    OBVIOUS
  <2>2. CallOnBus([c EXCEPT !.by = space])
    BY <2>1, WindowAccessOnBus, RenamedOnBus
  <2>3. call' = [c EXCEPT !.by = space] /\ callbacks' = callbacks
    BY <1>13, <2>1, Zenon DEF RootBridgeIoAccess
  <2>. QED  BY <1>3, <2>2, <2>3
<1>14. ASSUME NEW w, NEW dest, NEW src, NEW count, RootBridgeIoCopyMem(w, dest, src, count) PROVE CallInv'
  <2>1. PICK read : read = WindowAccess("mem", "read", w, src, count)
    OBVIOUS
  <2>2. PICK write : write = WindowAccess("mem", "write", w, dest, count)
    OBVIOUS
  <2>3. CallOnBus(read.call) /\ CallOnBus(write.call)
    BY <2>1, <2>2, WindowAccessOnBus
  <2>4. PICK c : c = Copied(read, write)
    OBVIOUS
  <2>5. CallOnBus([c EXCEPT !.by = "mem"])
    BY <2>3, <2>4, CopiedOnBus, RenamedOnBus
  <2>6. call' = [c EXCEPT !.by = "mem"] /\ callbacks' = callbacks
    BY <1>14, <2>1, <2>2, <2>4, Zenon DEF RootBridgeIoCopyMem
  <2>. QED  BY <1>3, <2>5, <2>6
<1>15. CASE \E w \in Widths, a \in Addresses, count \in Counts :
              \/ \E op \in {"read", "write"} : RootBridgeIoMem(op, w, a, count) \/ RootBridgeIoIo(op, w, a, count)
              \/ \E src \in Addresses : RootBridgeIoCopyMem(w, a, src, count)
  BY <1>13, <1>14, <1>15 DEF RootBridgeIoMem, RootBridgeIoIo
<1>16. CASE \E a \in Addresses, space \in {"io", "mem"}, delay \in Delays, up \in BOOLEAN,
              tick \in 0..EndTick, hw \in BOOLEAN : RootBridgeIoPoll(space, a, delay, up, tick, hw)
  BY <1>2, <1>16 DEF RootBridgeIoPoll, PollStart
<1>17. ASSUME NEW op, NEW w, NEW bus, NEW function, NEW g, NEW extended, NEW count,
              RootBridgeIoPciAccess(op, w, bus, function, g, extended, count)
       PROVE  CallInv'
  <2>1. PICK c : c = Access(rb.config, op, w, EcamAddress(bus, function, g), count).call
    OBVIOUS
  <2>2. CallOnBus(c)
    <3>1. rb.config.bus \in Nodes \cup {Cpu}
      BY DEF OnBuses, OnBus
    <3>. QED  BY <2>1, <3>1, AccessOnBus
  <2>3. /\ callbacks' = callbacks
        /\ \/ call' = [NoCall EXCEPT !.by = "config"]
           \/ \E asked, f : call' = [c EXCEPT !.by = "config", !.function = f, !.asked = asked]
    BY <1>17, <2>1, Zenon DEF RootBridgeIoPciAccess, Refused
  <2>4. CallOnBus([NoCall EXCEPT !.by = "config"])
    BY <1>1, RenamedOnBus
  <2>5. \A asked, f : CallOnBus([c EXCEPT !.by = "config", !.function = f, !.asked = asked])
    BY <2>2, AskedOnBus
  <2>. QED  BY <1>3, <2>3, <2>4, <2>5
<1>18. CASE RbNext
  <2>1. CASE \E op \in {"read", "write"}, w \in Widths, bus \in 0..(CellBase - 1), function \in 0..(MaxFunction + 1),
               g \in 0..(ConfigSize - 1), extended \in BOOLEAN, count \in Counts :
               RootBridgeIoPciAccess(op, w, bus, function, g, extended, count)
    BY <1>17, <2>1
  <2>. QED  BY <1>5, <1>6, <1>9, <1>11, <1>12, <1>15, <1>16, <1>18, <2>1, Zenon DEF RbNext
<1>19. CASE UNCHANGED allVars
  BY <1>2, <1>19 DEF allVars, pciVars, vars
<1>. QED  BY <1>5, <1>10, <1>18, <1>19, Zenon DEF DtNext

\* Types of all variables: also those of a host bridge and its accesses, whose
\* regions end where a translation can end, and of a property, whose iterator
\* stays inside it (DtIoPropParse.c).
THEOREM TypeCorrect == DtSpec /\ AddressesFit => []TypeOK
<1>. DEFINE I == RegionInv /\ GcdInv /\ OnBuses(rb) /\ CallInv
<1>1. DtInit /\ AddressesFit => I
  <2>1. SUFFICES ASSUME DtInit, AddressesFit PROVE I
    OBVIOUS
  <2>2. RegionInv /\ GcdInv
    BY <2>1, RegionInit, GcdInit DEF DtInit, RbInit
  <2>3. rb = NoBridge /\ call = NoCall /\ callbacks = {}
    BY <2>1 DEF DtInit, RbInit, Init
  <2>4. OnBus(NoReg)
    BY DEF OnBus, NoReg
  <2>5. OnBuses(rb)
    BY <2>3, <2>4 DEF OnBuses, NoBridge
  <2>6. CallInv
    BY <2>3 DEF CallInv, CallOnBus, NoCall
  <2>. QED  BY <2>2, <2>5, <2>6
<1>2. RegionInv => reg.bus \in Nodes \cup {Cpu}
  <2>1. reg = NoReg => reg.bus = Cpu
    BY DEF NoReg
  <2>. QED  BY <2>1 DEF RegionInv, Placed, OnBus
<1>3. I /\ [DtNext]_allVars => I'
  <2>1. SUFFICES ASSUME I, [DtNext]_allVars PROVE I'
    OBVIOUS
  <2>2. RegionInv' /\ GcdInv'
    BY <2>1, RegionStep, GcdStep
  <2>3. dt \in Blobs /\ AddressesFit /\ BridgeInv
    BY <2>1 DEF RegionInv, GcdInv
  <2>4. OnBuses(rb')
    BY <2>1, <2>3, BusesStep
  <2>5. CallInv'
    BY <1>2, <2>1, CallStep
  <2>. QED  BY <2>2, <2>4, <2>5
<1>4. I => TypeOK
  <2>1. SUFFICES ASSUME I PROVE TypeOK
    OBVIOUS
  <2>2. dt \in Blobs /\ PropInv /\ MapInv /\ CallOnBus(call) /\ callbacks \subseteq SampleBuses
    BY <2>1 DEF RegionInv, GcdInv, CallInv
  <2>3. gcd \in [Known -> Page]
    BY <2>2 DEF MapInv, GoodPage
  <2>4. prop.iter \in 0..Len(prop.data)
    <3>1. prop.iter \in Nat /\ prop.iter <= Len(prop.data) /\ Len(prop.data) \in Nat
      BY <2>2 DEF PropInv, Properties
    <3>. QED  BY <3>1
  <2>. QED  BY <1>2, <2>1, <2>2, <2>3, <2>4 DEF TypeOK, CallOnBus
<1>. QED  BY <1>1, <1>3, <1>4, PTL DEF DtSpec
-----------------------------------------------------------------------------
(* What an access asks for, and what it reaches                            *)

\* The bytes of a region that begin where those of S do in it.
Image(bus, base, S) == {<<bus, base + o>> : o \in S}
Asked(w, off, count) == IF count = 0 THEN {} ELSE off..(off + Length(w, count) - 1)
Call(by, asked, cells, function) == [by |-> by, asked |-> asked, cells |-> cells, function |-> function]
Place(r, off) == (r.base + off) % (IF r.bus = Cpu THEN CpuWord ELSE Word)

LEMMA AccessCases ==
  ASSUME NEW r, NEW op, NEW w, NEW off, NEW count, NEW c, c = Access(r, op, w, off, count)
  PROVE  \/ ~c.ok /\ c.call = NoCall
         \/ /\ c.ok /\ Fits(r, w, off, count)
            /\ c.call = Call("reg", Asked(w, off, count), Touched(r, Place(r, off), w, count), <<0, 0>>)
<1>1. NoCall = [by |-> "reg", asked |-> {}, cells |-> {}, function |-> <<0, 0>>]
  BY DEF NoCall
<1>2. NoCall = [by |-> NoCall.by, asked |-> NoCall.asked, cells |-> NoCall.cells, function |-> NoCall.function]
      /\ NoCall.by = "reg" /\ NoCall.function = <<0, 0>>
  BY <1>1
<1>3. PICK asked : asked = Asked(w, off, count)
  OBVIOUS
<1>4. PICK cells : cells = Touched(r, Place(r, off), w, count)
  OBVIOUS
<1>5. PICK d : d = [NoCall EXCEPT !.asked = asked, !.cells = cells]
  OBVIOUS
<1>6. d = Call("reg", asked, cells, <<0, 0>>)
  BY <1>2, <1>5, CallFields DEF Call
<1>7. PICK ok \in BOOLEAN :
        /\ ok => Fits(r, w, off, count)
        /\ c = [ok |-> ok, call |-> IF ~ok THEN NoCall ELSE d]
  <2>. DEFINE ok == /\ Fits(r, w, off, count)
                    /\ IF r.bus = Cpu THEN CpuIoAccepts(Place(r, off), w, count) ELSE CallbackAccepts(r, op, w)
  <2>1. c = [ok |-> ok, call |-> IF ~ok THEN NoCall ELSE d]
    BY <1>3, <1>4, <1>5, Zenon DEF Access, Asked, Place
  <2>2. ok \in BOOLEAN /\ (ok => Fits(r, w, off, count))
    OBVIOUS
  <2>. HIDE DEF ok
  <2>. QED  BY <2>1, <2>2
<1>. QED  BY <1>3, <1>4, <1>6, <1>7
LEMMA Lengths ==
  ASSUME NEW w \in Widths, NEW count \in Counts, count # 0, NEW l, l = Length(w, count)
  PROVE  l \in Nat \ {0} /\ l < CpuWord /\ Span(w, count) = l
<1>1. w.size \in Nat \ {0} /\ count \in Nat \ {0} /\ l < CpuWord /\ CpuWord \in Nat
  BY CallersAssumption, Sizes
<1>2. PICK n \in Nat \ {0} : n = AddressIncrement(w, count)
  BY <1>1 DEF AddressIncrement
<1>3. PICK s \in Nat \ {0} : s = w.size
  BY <1>1
<1>4. l = n * s
  BY <1>2, <1>3 DEF Length
<1>5. \A x, y \in Nat \ {0} : x * y \in Nat \ {0}
  OBVIOUS
<1>6. l \in Nat \ {0}
  BY <1>2, <1>3, <1>4, <1>5
<1>7. Span(w, count) = l % CpuWord
  BY DEF Span
<1>. QED  BY <1>1, <1>6, <1>7

From(bus, at, l) == {<<bus, x>> : x \in at..(at + l - 1)}

\* The bytes from one place on, seen from another.
LEMMA ImageOfInterval ==
  ASSUME NEW bus, NEW base \in Int, NEW off \in Int, NEW l \in Nat
  PROVE  Image(bus, base, off..(off + l - 1)) = From(bus, base + off, l)
<1>1. \A o \in off..(off + l - 1) : base + o \in (base + off)..(base + off + l - 1)
  OBVIOUS
<1>2. \A x \in (base + off)..(base + off + l - 1) : x - base \in off..(off + l - 1) /\ base + (x - base) = x
  OBVIOUS
<1>. QED  BY <1>1, <1>2 DEF Image, From

\* A region that a word and, at the CPU, its addresses hold.
Fitting(r) ==
  /\ r.base \in Nat /\ r.len \in Nat /\ r.base + r.len <= Word
  /\ r.bus = Cpu => r.base + r.len <= CpuWord

LEMMA PlacedFitting ==
  ASSUME NEW r, r = NoReg \/ (Placed(r) /\ Exact(r))
  PROVE  Fitting(r)
<1>1. CASE r = NoReg
  BY <1>1, Sizes DEF Fitting, NoReg
<1>2. CASE Placed(r) /\ Exact(r)
  <2>1. r.base \in Nat /\ r.len \in Nat /\ r.base + r.len < Word /\ (r.bus = Cpu => r.base + r.len <= CpuWord)
    BY <1>2 DEF Placed, Exact, InWord
  <2>. QED  BY <2>1, Sizes DEF Fitting
<1>. QED  BY <1>1, <1>2

\* In such a region an access reaches the bytes it asks for, and no other.
LEMMA AccessImage ==
  ASSUME NEW r, Fitting(r), NEW op, NEW w \in Widths, NEW count \in Counts,
         NEW off \in Nat, off + Length(w, count) < Word \/ count = 0,
         NEW c, c = Access(r, op, w, off, count), c.ok
  PROVE  /\ c.call = Call("reg", Asked(w, off, count), Image(r.bus, r.base, Asked(w, off, count)), <<0, 0>>)
         /\ Asked(w, off, count) \subseteq 0..(r.len - 1)
<1>1. /\ Fits(r, w, off, count)
      /\ c.call = Call("reg", Asked(w, off, count), Touched(r, Place(r, off), w, count), <<0, 0>>)
  BY AccessCases
<1>2. CASE count = 0
  BY <1>1, <1>2 DEF Asked, Touched, Image
<1>3. CASE count # 0
  <2>1. PICK l : l = Length(w, count)
    OBVIOUS
  <2>2. l \in Nat \ {0} /\ l < CpuWord /\ Span(w, count) = l
    BY <1>3, <2>1, Lengths
  <2>3. off + l <= r.len
    <3>1. off + l < Word /\ Word \in Nat
      BY <1>3, <2>1, Sizes
    <3>2. (off + l) % Word <= r.len
      BY <1>1, <2>2 DEF Fits
    <3>3. (off + l) % Word = off + l
      BY <2>2, <3>1
    <3>. QED  BY <3>2, <3>3
  <2>4. Place(r, off) = r.base + off
    <3>1. PICK base \in Nat, len \in Nat : base = r.base /\ len = r.len
      BY DEF Fitting
    <3>2. base + len <= Word /\ (r.bus = Cpu => base + len <= CpuWord) /\ off + l <= len
      BY <2>3, <3>1 DEF Fitting
    <3>3. (base + off) % Word = base + off
      BY <2>2, <3>2, Sizes
    <3>4. r.bus = Cpu => (base + off) % CpuWord = base + off
      BY <2>2, <3>2, Sizes
    <3>. QED  BY <3>1, <3>3, <3>4 DEF Place
  <2>5. Asked(w, off, count) = off..(off + l - 1)
    BY <1>3, <2>1 DEF Asked
  <2>6. Touched(r, Place(r, off), w, count) = From(r.bus, r.base + off, l)
    BY <1>3, <2>1, <2>4 DEF Touched, From
  <2>7. Touched(r, Place(r, off), w, count) = Image(r.bus, r.base, Asked(w, off, count))
    <3>1. r.base \in Int /\ off \in Int /\ l \in Nat
      BY <2>2 DEF Fitting
    <3>2. Image(r.bus, r.base, off..(off + l - 1)) = From(r.bus, r.base + off, l)
      BY ZenonT(60), <3>1, ImageOfInterval
    <3>. QED  BY <2>5, <2>6, <3>2
  <2>8. Asked(w, off, count) \subseteq 0..(r.len - 1)
    <3>1. r.len \in Nat
      BY DEF Fitting
    <3>. QED  BY <2>2, <2>3, <2>5, <3>1
  <2>. QED  BY <1>1, <2>7, <2>8
<1>. QED  BY <1>2, <1>3
LEMMA CopiedCases ==
  ASSUME NEW by, NEW asked, NEW cells, NEW function, NEW read, NEW write,
         read.call = Call(by, asked, cells, function), NEW c, c = Copied(read, write)
  PROVE  \/ c = read.call
         \/ read.ok /\ write.ok /\ c = Call(by, asked \cup write.call.asked, cells \cup write.call.cells, function)
<1>1. PICK a : a = read.call
  OBVIOUS
<1>2. a = [by |-> a.by, asked |-> a.asked, cells |-> a.cells, function |-> a.function]
      /\ a.by = by /\ a.asked = asked /\ a.cells = cells /\ a.function = function
  BY <1>1 DEF Call
<1>3. PICK more : more = asked \cup write.call.asked
  OBVIOUS
<1>4. PICK others : others = cells \cup write.call.cells
  OBVIOUS
<1>5. PICK d : d = [a EXCEPT !.asked = more, !.cells = others]
  OBVIOUS
<1>6. d = Call(by, more, others, function)
  BY <1>2, <1>5, CallFields DEF Call
<1>7. c = a \/ (read.ok /\ write.ok /\ c = d)
  <2>1. c = IF read.ok /\ write.ok
            THEN [a EXCEPT !.asked = @ \cup write.call.asked, !.cells = @ \cup write.call.cells]
            ELSE a
    BY <1>1 DEF Copied
  <2>2. [a EXCEPT !.asked = @ \cup write.call.asked, !.cells = @ \cup write.call.cells] = d
    BY <1>2, <1>3, <1>4, <1>5
  <2>. QED  BY <2>1, <2>2, Zenon
<1>. QED  BY <1>1, <1>3, <1>4, <1>6, <1>7

\* An access to a region: its bytes, where they are.
OwnCall(r, c) ==
  /\ c = Call(c.by, c.asked, c.cells, c.function) /\ c.by = "reg"
  /\ c.asked \subseteq 0..(r.len - 1) /\ c.cells = Image(r.bus, r.base, c.asked)

LEMMA NoCallIsOwn == \A r : OwnCall(r, NoCall)
<1>1. NoCall = Call("reg", {}, {}, <<0, 0>>)
  BY DEF NoCall, Call
<1>2. \A r : Image(r.bus, r.base, {}) = {}
  BY DEF Image
<1>. QED  BY <1>1, <1>2 DEF OwnCall, Call

LEMMA AccessIsOwn ==
  ASSUME NEW r, Fitting(r), NEW op, NEW w \in Widths, NEW count \in Counts,
         NEW off \in Nat, off + Length(w, count) < Word \/ count = 0,
         NEW c, c = Access(r, op, w, off, count)
  PROVE  OwnCall(r, c.call) /\ (~c.ok => c.call = NoCall)
<1>1. CASE ~c.ok
  <2>1. c.call = NoCall
    BY <1>1, AccessCases
  <2>. QED  BY <1>1, <2>1, NoCallIsOwn
<1>2. CASE c.ok
  <2>1. PICK asked : asked = Asked(w, off, count)
    OBVIOUS
  <2>2. c.call = Call("reg", asked, Image(r.bus, r.base, asked), <<0, 0>>) /\ asked \subseteq 0..(r.len - 1)
    BY ZenonT(60), <1>2, <2>1, AccessImage
  <2>3. PICK cells : cells = Image(r.bus, r.base, asked)
    OBVIOUS
  <2>. QED  BY <1>2, <2>2, <2>3 DEF OwnCall, Call
<1>. QED  BY <1>1, <1>2

LEMMA CopiedIsOwn ==
  ASSUME NEW r, NEW read, NEW write, OwnCall(r, read.call), OwnCall(r, write.call),
         NEW c, c = Copied(read, write)
  PROVE  OwnCall(r, c)
<1>1. PICK a : a = read.call
  OBVIOUS
<1>2. PICK b : b = write.call
  OBVIOUS
<1>3. read.call = Call(a.by, a.asked, a.cells, a.function)
  BY <1>1 DEF OwnCall
<1>4. \/ c = a
      \/ c = Call(a.by, a.asked \cup b.asked, a.cells \cup b.cells, a.function)
  <2>1. PICK x : x = a.by
    OBVIOUS
  <2>2. PICK y : y = a.asked
    OBVIOUS
  <2>3. PICK z : z = a.cells
    OBVIOUS
  <2>4. PICK f : f = a.function
    OBVIOUS
  <2>5. read.call = Call(x, y, z, f)
    BY <1>3, <2>1, <2>2, <2>3, <2>4
  <2>6. \/ c = read.call
        \/ read.ok /\ write.ok /\ c = Call(x, y \cup write.call.asked, z \cup write.call.cells, f)
    BY <2>5, CopiedCases
  <2>. QED  BY <1>1, <1>2, <2>1, <2>2, <2>3, <2>4, <2>6
<1>5. \A S, T : Image(r.bus, r.base, S \cup T) = Image(r.bus, r.base, S) \cup Image(r.bus, r.base, T)
  BY DEF Image
<1>6. ASSUME c = Call(a.by, a.asked \cup b.asked, a.cells \cup b.cells, a.function)
      PROVE  OwnCall(r, c)
  <2>1. PICK asked : asked = a.asked \cup b.asked
    OBVIOUS
  <2>2. PICK cells : cells = a.cells \cup b.cells
    OBVIOUS
  <2>3. asked \subseteq 0..(r.len - 1) /\ a.by = "reg"
    BY <1>1, <1>2, <2>1 DEF OwnCall
  <2>4. cells = Image(r.bus, r.base, asked)
    <3>1. a.cells = Image(r.bus, r.base, a.asked) /\ b.cells = Image(r.bus, r.base, b.asked)
      BY <1>1, <1>2 DEF OwnCall
    <3>2. Image(r.bus, r.base, a.asked \cup b.asked) = Image(r.bus, r.base, a.asked) \cup Image(r.bus, r.base, b.asked)
      BY <1>5, Zenon
    <3>. QED  BY <2>1, <2>2, <3>1, <3>2
  <2>5. c = Call(a.by, asked, cells, a.function)
    BY <1>6, <2>1, <2>2
  <2>6. c.by = a.by /\ c.asked = asked /\ c.cells = cells /\ c.function = a.function
    BY <2>5 DEF Call
  <2>. QED  BY <2>3, <2>4, <2>5, <2>6 DEF OwnCall
<1>. QED  BY <1>1, <1>4, <1>6

\* As many bytes as were asked for.
LEMMA ImageCardinality ==
  ASSUME NEW bus, NEW base \in Nat, NEW len \in Nat, NEW S, S \subseteq 0..(len - 1)
  PROVE  Cardinality(Image(bus, base, S)) = Cardinality(S)
<1>1. IsFiniteSet(S)
  <2>1. 0 \in Int /\ len - 1 \in Int
    OBVIOUS
  <2>2. IsFiniteSet(0..(len - 1))
    BY <2>1, FS_Interval
  <2>. QED  BY <2>2, FS_Subset
<1>. DEFINE f == [o \in S |-> <<bus, base + o>>]
<1>2. f \in [S -> Image(bus, base, S)]
  BY DEF Image
<1>3. \A o, u \in S : f[o] = f[u] => o = u
  <2>1. \A o \in S : f[o][2] = base + o /\ o \in Nat
    OBVIOUS
  <2>. HIDE DEF f
  <2>. QED  BY <2>1
<1>4. \A cell \in Image(bus, base, S) : \E o \in S : f[o] = cell
  BY DEF Image
<1>5. f \in Bijection(S, Image(bus, base, S))
  <2>. HIDE DEF f
  <2>. QED  BY <1>2, <1>3, <1>4 DEF Bijection, Injection, Surjection, IsInjective
<1>6. ExistsBijection(S, Image(bus, base, S))
  BY <1>5 DEF ExistsBijection
<1>. QED  BY <1>1, <1>6, FS_Bijection
LEMMA OwnAccessExact ==
  ASSUME reg = NoReg \/ (Placed(reg) /\ Exact(reg)), call.by = "reg" => OwnCall(reg, call)
  PROVE  RegAccessExact
<1>1. SUFFICES ASSUME OwnCall(reg, call)
               PROVE  /\ \A o \in call.asked : o < reg.len
                      /\ Cardinality(call.cells) = Cardinality(call.asked)
                      /\ \A cell \in call.cells : \E o \in call.asked :
                           cell[1] = reg.bus /\ cell[2] \in Reach(Device, reg.busBase + o, reg.bus)
  BY DEF RegAccessExact
<1>2. Fitting(reg)
  BY PlacedFitting
<1>9. PICK bus, asked : bus = reg.bus /\ asked = call.asked
  OBVIOUS
<1>10. PICK base \in Nat, len \in Nat : base = reg.base /\ len = reg.len
  BY <1>2 DEF Fitting
<1>3. base = reg.base /\ len = reg.len /\ bus = reg.bus /\ asked = call.asked
  BY <1>9, <1>10
<1>4. asked \subseteq 0..(len - 1) /\ call.cells = Image(bus, base, asked)
  BY <1>1, <1>3 DEF OwnCall
<1>5. Cardinality(Image(bus, base, asked)) = Cardinality(asked)
  BY ZenonT(60), <1>4, ImageCardinality
<1>6. \A o \in 0..(reg.len - 1) : reg.base + o \in Reach(Device, reg.busBase + o, reg.bus)
  <2>1. reg = NoReg => reg.len = 0
    BY DEF NoReg
  <2>2. CASE reg = NoReg
    BY <2>1, <2>2
  <2>3. CASE Placed(reg) /\ Exact(reg)
    BY <2>3 DEF Exact
  <2>. QED  BY <2>2, <2>3
<1>7. ASSUME NEW cell \in Image(bus, base, asked)
      PROVE  \E o \in asked : cell[1] = bus /\ cell[2] \in Reach(Device, reg.busBase + o, bus)
  <2>1. PICK o \in asked : cell = <<bus, base + o>>
    BY DEF Image
  <2>2. base + o \in Reach(Device, reg.busBase + o, bus)
    BY <1>3, <1>4, <1>6
  <2>. QED  BY <2>1, <2>2
<1>8. \A o \in asked : o < len
  BY <1>4
<1>. QED  BY <1>3, <1>4, <1>5, <1>7, <1>8

-----------------------------------------------------------------------------
(* Remainders                                                              *)

\* Equal but for a multiple of m.
Congruent(x, y, m) == \E q \in Int : x = q * m + y

LEMMA Modulus ==
  ASSUME NEW x \in Int, NEW m \in Nat \ {0}
  PROVE  x % m \in 0..(m - 1) /\ Congruent(x, x % m, m)
<1>1. x % m \in 0..(m - 1) /\ x \div m \in Int /\ x = m * (x \div m) + (x % m)
  OBVIOUS
<1>2. PICK q \in Int, r \in Int : q = x \div m /\ r = x % m
  BY <1>1
<1>3. x = q * m + r
  BY <1>1, <1>2
<1>. QED  BY <1>1, <1>2, <1>3 DEF Congruent

LEMMA Congruence ==
  ASSUME NEW x \in Int, NEW y \in Int, NEW z \in Int, NEW m \in Nat \ {0}
  PROVE  /\ Congruent(x, x, m)
         /\ Congruent(x, y, m) => Congruent(y, x, m)
         /\ Congruent(x, y, m) /\ Congruent(y, z, m) => Congruent(x, z, m)
         /\ Congruent(x, y, m) => Congruent(x + z, y + z, m) /\ Congruent(z - x, z - y, m) /\ Congruent(x - z, y - z, m)
<1>1. x = 0 * m + x
  OBVIOUS
<1>2. ASSUME NEW q \in Int, x = q * m + y
      PROVE  /\ y = (-q) * m + x
             /\ x + z = q * m + (y + z)
             /\ z - x = (-q) * m + (z - y)
             /\ x - z = q * m + (y - z)
  <2>1. q * m \in Int /\ (-q) * m = -(q * m)
    OBVIOUS
  <2>. QED  BY <1>2, <2>1
<1>3. ASSUME NEW q \in Int, x = q * m + y, NEW p \in Int, y = p * m + z
      PROVE  x = (q + p) * m + z
  <2>1. q * m \in Int /\ p * m \in Int /\ (q + p) * m = q * m + p * m
    OBVIOUS
  <2>. QED  BY <1>3, <2>1
<1>4. Congruent(x, x, m)
  BY <1>1 DEF Congruent
<1>5. ASSUME Congruent(x, y, m)
      PROVE  Congruent(y, x, m) /\ Congruent(x + z, y + z, m) /\ Congruent(z - x, z - y, m) /\ Congruent(x - z, y - z, m)
  <2>1. PICK q \in Int : x = q * m + y
    BY <1>5 DEF Congruent
  <2>2. PICK p \in Int : p = -q
    OBVIOUS
  <2>. QED  BY <1>2, <2>1, <2>2 DEF Congruent
<1>6. ASSUME Congruent(x, y, m), Congruent(y, z, m) PROVE Congruent(x, z, m)
  <2>1. PICK q \in Int : x = q * m + y
    BY <1>6 DEF Congruent
  <2>2. PICK p \in Int : y = p * m + z
    BY <1>6 DEF Congruent
  <2>. QED  BY <1>3, <2>1, <2>2 DEF Congruent
<1>. QED  BY <1>4, <1>5, <1>6

LEMMA Uniqueness ==
  ASSUME NEW m \in Nat \ {0}, NEW x \in 0..(m - 1), NEW y \in 0..(m - 1), Congruent(x, y, m)
  PROVE  x = y
<1>1. PICK q \in Int : x = q * m + y
  BY DEF Congruent
<1>2. q * m < m /\ q * m > -m /\ q * m \in Int
  BY <1>1
<1>3. q >= 1 => q * m >= m
  OBVIOUS
<1>4. q <= -1 => q * m <= -m
  OBVIOUS
<1>5. q = 0
  BY <1>2, <1>3, <1>4
<1>. QED  BY <1>1, <1>5

LEMMA SameModulus ==
  ASSUME NEW x \in Int, NEW y \in Int, NEW m \in Nat \ {0}, Congruent(x, y, m)
  PROVE  x % m = y % m
<1>1. PICK r \in 0..(m - 1), s \in 0..(m - 1) :
        r = x % m /\ s = y % m /\ Congruent(x, r, m) /\ Congruent(y, s, m)
  BY Modulus
<1>2. r \in Int /\ s \in Int
  OBVIOUS
<1>3. Congruent(r, x, m) /\ Congruent(r, y, m)
  BY <1>1, <1>2, Congruence
<1>4. Congruent(r, s, m)
  BY <1>1, <1>2, <1>3, Congruence
<1>. QED  BY <1>1, <1>4, Uniqueness

LEMMA DividedModulus ==
  ASSUME NEW x \in Int, NEW y \in Int, NEW m \in Nat \ {0}, NEW n \in Nat \ {0}, n % m = 0, Congruent(x, y, n)
  PROVE  Congruent(x, y, m)
<1>1. PICK k \in Int : n = m * k
  <2>1. n = m * (n \div m) + (n % m) /\ n \div m \in Int
    OBVIOUS
  <2>. QED  BY <2>1
<1>2. PICK q \in Int : x = q * n + y
  BY DEF Congruent
<1>3. q * n = (q * k) * m /\ q * k \in Int
  BY <1>1
<1>. QED  BY <1>2, <1>3 DEF Congruent

Multiples(m) == {q * m : q \in Int}

LEMMA MultiplesClosed ==
  ASSUME NEW m \in Nat \ {0}
  PROVE  /\ \A u \in Multiples(m) : u \in Int
         /\ \A u \in Multiples(m), v \in Multiples(m) : u + v \in Multiples(m) /\ u - v \in Multiples(m)
         /\ \A x, y \in Int : Congruent(x, y, m) <=> x - y \in Multiples(m)
<1>1. \A u \in Multiples(m) : u \in Int
  BY DEF Multiples
<1>2. ASSUME NEW u \in Multiples(m), NEW v \in Multiples(m)
      PROVE  u + v \in Multiples(m) /\ u - v \in Multiples(m)
  <2>1. PICK q \in Int, p \in Int : u = q * m /\ v = p * m
    BY DEF Multiples
  <2>2. PICK i \in Int, j \in Int : i = q + p /\ j = q - p
    OBVIOUS
  <2>3. u + v = i * m /\ u - v = j * m
    <3>1. (q + p) * m = q * m + p * m /\ (q - p) * m = q * m - p * m
      OBVIOUS
    <3>. QED  BY <2>1, <2>2, <3>1
  <2>. QED  BY <2>2, <2>3 DEF Multiples
<1>3. ASSUME NEW x \in Int, NEW y \in Int PROVE Congruent(x, y, m) <=> x - y \in Multiples(m)
  <2>1. \A q \in Int : q * m \in Int /\ (x = q * m + y <=> x - y = q * m)
    OBVIOUS
  <2>. QED  BY <2>1 DEF Congruent, Multiples
<1>. QED  BY <1>1, <1>2, <1>3

-----------------------------------------------------------------------------
(* The windows of a host bridge                                            *)

\* A window is an entry of ranges, of a kind.
EntryOf(r) == \E e \in Entries(Device) : e.child = r.child /\ e.bus = r.busBase /\ e.len = r.len
IsReg(r) == r = [kind |-> r.kind, at |-> r.at, child |-> r.child, busBase |-> r.busBase,
                 len |-> r.len, base |-> r.base, bus |-> r.bus]
IsWindow(s, r) ==
  /\ IsReg(r) /\ r.kind = "ranges" /\ Placed(r) /\ Exact(r) /\ EntryOf(r) /\ SpaceCodes[s] = FbpPciGetRangeAttribute(r)

LEMMA GotEntry ==
  ASSUME dt \in Blobs, AddressesFit, NEW i \in Nat, NEW fault,
         NEW r, r = GetRegion("ranges", i, fault), r.ok
  PROVE  IsReg(r.reg) /\ r.reg.kind = "ranges" /\ Placed(r.reg) /\ Exact(r.reg) /\ EntryOf(r.reg)
<1>1. "ranges" \in Kinds /\ Has(Device, "ranges") /\ Device \in Nodes
  <2>1. ~NotParsed(NoProp).ok
    BY DEF NotParsed, ParseError
  <2>. QED  BY <2>1, Tree DEF Kinds, GetRegion
<1>2. Placed(r.reg) /\ Exact(r.reg)
  BY <1>1, GotExactly
<1>3. PICK p : p = AtBegin(Device, "ranges")
  OBVIOUS
<1>. DEFINE cells == dt[Device]["ranges"]
            from == EntryAt("ranges", p, i)
            c == ChildAddressCells(Device)
            a == AddressCells(Device)
            s == ChildSizeCells(Device)
            f == ReadAt("ranges", p, i)
<1>4. Over("ranges", p) /\ p.iter = 0 /\ p.data = cells /\ Len(cells) \in Nat
  BY <1>1, <1>3, PropertyCells DEF Over
<1>5. There("ranges", p, i) /\ f.ok /\ r.reg = RegionAt("ranges", p, i)
  <2>1. r = ParseRegion("ranges", p, i, fault)
    BY <1>1, <1>3 DEF GetRegion
  <2>2. Outcome("ranges", p, i, fault, r)
    BY <2>1, RegionCases
  <2>. HIDE DEF f
  <2>. QED  BY <2>2, Zenon DEF Outcome, f
<1>6. c \in Nat /\ a \in Nat /\ s \in Nat /\ ElemCells("ranges") = c + a + s
  BY <1>1, ElementCells DEF ChildCells, LengthCells
<1>7. from.iter = (c + a + s) * i /\ i \in 0..(Len(cells) \div (c + a + s) - 1) /\ c + a + s > 0
  <2>1. from.iter = (c + a + s) * i
    <3>1. from = [p EXCEPT !.iter = 0 + (c + a + s) * i]
      BY <1>4, <1>6 DEF EntryAt
    <3>2. p \in Iterators /\ (c + a + s) * i \in Nat
      BY <1>4, <1>6 DEF Over, Inner
    <3>. HIDE DEF from, c, a, s
    <3>. QED  BY <3>1, <3>2 DEF Iterators
  <2>2. Left(p) = Len(cells)
    BY <1>4 DEF Left
  <2>3. c + a + s # 0 /\ ~(Len(cells) \div (c + a + s) <= i)
    BY <1>5, <1>6, <2>2 DEF There
  <2>4. Len(cells) \div (c + a + s) \in Nat
    <3>. HIDE DEF c, a, s, cells
    <3>. QED  BY <1>4, <1>6, <2>3, Quotient
  <2>. HIDE DEF c, a, s, cells, from
  <2>. QED  BY <1>6, <2>1, <2>3, <2>4
<1>8. Over("ranges", from) /\ from.iter + ElemCells("ranges") <= Len(from.data)
  BY <1>1, <1>4, <1>5, EntryInside
<1>9. c # 0 /\ a # 0
  <2>1. Inner(from) /\ from.iter \in Nat /\ f = RangeFields(Device, from)
    BY <1>8 DEF Over, Inner, Iterators, ReadAt, FieldsOf
  <2>. HIDE DEF from, f
  <2>2. f.ok => ChildAddressCells(Device) # 0 /\ AddressCells(Device) # 0
    <3>1. PICK x \in Nat, y \in Nat, z \in Nat : x = ChildAddressCells(Device) /\ y = AddressCells(Device) /\ z = ChildSizeCells(Device)
      BY <1>1, CellCounts
    <3>2. ~(x > 0 /\ y > 0 /\ from.iter + (x + y + z) <= Len(from.data)) => ~RangeFields(Device, from).ok
      BY <1>1, <2>1, <3>1, RangeFieldsAt
    <3>. QED  BY SMTT(60), <2>1, <3>1, <3>2
  <2>. QED  BY <1>5, <1>6, <2>2
<1>10. /\ r.reg.child = Slice(cells, from.iter, c) /\ r.reg.busBase = Slice(cells, from.iter + c, a)
       /\ r.reg.len = Slice(cells, from.iter + c + a, s)
  <2>1. r.reg.kind = "ranges" /\ r.reg.at = from.iter
    BY <1>5 DEF RegionAt
  <2>. HIDE DEF from
  <2>. QED  BY <1>2, <2>1 DEF Exact, ChildCells, LengthCells
<1>11. EntryOf(r.reg)
  <2>. DEFINE e == [child |-> Slice(cells, from.iter, c), bus |-> Slice(cells, from.iter + c, a),
                    len |-> Slice(cells, from.iter + c + a, s)]
  <2>1. Entries(Device) = EntriesOf(cells, c, a, s)
    BY DEF Entries, EntriesOf
  <2>. HIDE DEF cells, c, a, s, from
  <2>2. e \in EntriesOf(cells, c, a, s)
    BY <1>7, <1>9 DEF EntriesOf
  <2>3. e.child = r.reg.child /\ e.bus = r.reg.busBase /\ e.len = r.reg.len
    BY <1>10
  <2>. QED  BY <2>1, <2>2, <2>3 DEF EntryOf
<1>12. IsReg(r.reg) /\ r.reg.kind = "ranges"
  BY <1>5 DEF RegionAt, IsReg
<1>. QED  BY <1>2, <1>11, <1>12
LEMMA Remainders ==
  /\ CpuWord \in Nat \ {0} /\ Word \in Nat \ {0} /\ Word % CpuWord = 0 /\ CpuWord <= Word
  /\ \A r : r.child \in Int => RB(r) \in 0..(CpuWord - 1) /\ Congruent(r.child, RB(r), CpuWord)
<1>1. CpuWord \in Nat \ {0} /\ Word \in Nat \ {0} /\ Word % CpuWord = 0 /\ CpuWord <= Word
  BY Sizes, SizesAssumption
<1>2. ASSUME NEW r, r.child \in Int PROVE RB(r) \in 0..(CpuWord - 1) /\ Congruent(r.child, RB(r), CpuWord)
  <2>1. PICK x \in Int : x = r.child
    BY <1>2
  <2>2. x % CpuWord \in 0..(CpuWord - 1) /\ Congruent(x, x % CpuWord, CpuWord)
    BY <1>1, Modulus
  <2>. QED  BY <2>1, <2>2 DEF RB
<1>. QED  BY <1>1, <1>2

\* What a window covers, in the addresses of the CPU's width.
LEMMA Covered ==
  ASSUME NEW r, r.child \in Nat, r.len \in Nat, NEW a \in Nat, NEW l \in Nat, Covers(r, a, l)
  PROVE  RB(r) \in Nat /\ RB(r) <= a /\ a + l <= RB(r) + r.len
<1>1. PICK x \in Nat, n \in Nat, b \in 0..(CpuWord - 1) :
        x = r.child /\ n = r.len /\ b = RB(r) /\ Congruent(x, b, CpuWord)
  BY Remainders
<1>2. PICK m \in Nat \ {0} : m = CpuWord
  BY Remainders
<1>3. PICK end \in Int, last \in Int, sum \in Nat : end = x + n /\ last = x + n - 1 /\ sum = b + n
  <2>1. x + n \in Int /\ x + n - 1 \in Int /\ b + n \in Nat
    BY <1>1, Remainders
  <2>. QED  BY <2>1
<1>4. PICK y \in 0..(m - 1) : y = last % m /\ Congruent(last, y, m)
  BY Modulus
<1>5. Congruent(y, last, m)
  BY <1>4, Congruence
<1>6. Congruent(y + 1, last + 1, m)
  <2>1. y \in Int /\ 1 \in Int
    OBVIOUS
  <2>. QED  BY <1>5, <2>1, Congruence
<1>7. Congruent(end, sum, m)
  <2>1. b \in Int /\ n \in Int /\ x \in Int
    BY <1>1, Remainders
  <2>2. Congruent(x + n, b + n, m)
    BY <1>1, <1>2, <2>1, Congruence
  <2>. QED  BY <1>3, <2>2
<1>8. Congruent(y + 1, sum, m)
  <2>1. PICK z \in Int : z = y + 1
    OBVIOUS
  <2>2. Congruent(z, end, m)
    BY <1>3, <1>6, <2>1
  <2>3. Congruent(z, sum, m)
    BY <1>7, <2>2, Congruence
  <2>. QED  BY <2>1, <2>3
<1>9. (y + 1) % m = sum % m
  <2>1. PICK z \in Int : z = y + 1
    OBVIOUS
  <2>. QED  BY <1>8, <2>1, SameModulus
<1>10. sum % m <= sum /\ sum % m \in Int
  <2>1. PICK z \in Int : z = sum
    OBVIOUS
  <2>2. z >= 0
    BY <2>1
  <2>3. z % m \in 0..(m - 1) /\ z % m <= z
    BY <2>2, Remainder
  <2>. QED  BY <2>1, <2>3
<1>11. a >= b /\ a + l <= (y + 1) % m
  BY <1>1, <1>2, <1>3, <1>4 DEF Covers, RL
<1>12. a + l <= b + n
  BY <1>3, <1>9, <1>10, <1>11
<1>. QED  BY <1>1, <1>11, <1>12

LEMMA RangeToReg ==
  ASSUME NEW r, IsReg(r), NEW g, g = FbpRangeToReg(r)
  PROVE  g.bus = r.bus /\ g.base = (r.base - RB(r)) % Word
<1>1. PICK base : base = (r.base - RB(r)) % Word
  OBVIOUS
<1>2. PICK busBase : busBase = (r.busBase - RB(r)) % Word
  OBVIOUS
<1>3. PICK len : len = (r.len + RB(r)) % Word
  OBVIOUS
<1>4. DOMAIN r = {"kind", "at", "child", "busBase", "len", "base", "bus"}
  BY DEF IsReg
<1>5. g = [r EXCEPT !.base = base, !.busBase = busBase, !.len = len]
  BY <1>1, <1>2, <1>3, <1>4 DEF FbpRangeToReg
<1>6. PICK f : f = [r EXCEPT !.base = base]
  OBVIOUS
<1>7. f.base = base /\ f.bus = r.bus /\ DOMAIN f = DOMAIN r
  BY <1>4, <1>6
<1>8. PICK h : h = [f EXCEPT !.busBase = busBase]
  OBVIOUS
<1>9. h.base = base /\ h.bus = r.bus /\ DOMAIN h = DOMAIN r
  BY <1>4, <1>7, <1>8
<1>10. g = [h EXCEPT !.len = len]
  BY <1>5, <1>6, <1>8
<1>. QED  BY <1>1, <1>4, <1>9, <1>10

LEMMA MovedIs ==
  ASSUME NEW r, IsReg(r), RangeValid(r), NEW vga, NEW by, by = (RB(r) - vga.base) % CpuWord,
         NEW m, m = Moved(r, vga)
  PROVE  /\ IsReg(m) /\ m.child = (r.child - by) % Word /\ m.base = (r.base - by) % Word
         /\ m.bus = r.bus /\ m.len = vga.size
<1>1. PICK child : child = (r.child - by) % Word
  OBVIOUS
<1>2. PICK busBase : busBase = (r.busBase - by) % Word
  OBVIOUS
<1>3. PICK base : base = (r.base - by) % Word
  OBVIOUS
<1>4. PICK len : len = vga.size
  OBVIOUS
<1>5. r = [kind |-> r.kind, at |-> r.at, child |-> r.child, busBase |-> r.busBase,
           len |-> r.len, base |-> r.base, bus |-> r.bus]
  BY DEF IsReg
<1>6. m = [r EXCEPT !.child = (@ - by) % Word, !.busBase = (@ - by) % Word,
                    !.base = (@ - by) % Word, !.len = vga.size]
  BY Zenon DEF Moved
<1>7. m = [r EXCEPT !.child = child, !.busBase = busBase, !.base = base, !.len = len]
  BY <1>1, <1>2, <1>3, <1>4, <1>5, <1>6
<1>8. PICK f : f = [r EXCEPT !.child = child]
  OBVIOUS
<1>9. f = [kind |-> r.kind, at |-> r.at, child |-> child, busBase |-> r.busBase,
           len |-> r.len, base |-> r.base, bus |-> r.bus]
  BY <1>5, <1>8
<1>10. PICK g : g = [f EXCEPT !.busBase = busBase]
  OBVIOUS
<1>11. g = [kind |-> r.kind, at |-> r.at, child |-> child, busBase |-> busBase,
            len |-> r.len, base |-> r.base, bus |-> r.bus]
  BY <1>9, <1>10
<1>12. PICK h : h = [g EXCEPT !.base = base]
  OBVIOUS
<1>13. h = [kind |-> r.kind, at |-> r.at, child |-> child, busBase |-> busBase,
            len |-> r.len, base |-> base, bus |-> r.bus]
  BY <1>11, <1>12
<1>14. m = [h EXCEPT !.len = len]
  BY <1>7, <1>8, <1>10, <1>12
<1>15. m = [kind |-> r.kind, at |-> r.at, child |-> child, busBase |-> busBase,
            len |-> len, base |-> base, bus |-> r.bus]
  BY <1>13, <1>14
<1>. QED  BY <1>1, <1>3, <1>4, <1>15 DEF IsReg
\* A PCI address has three cells, the first of which is its space.
PciCells == IsHostBridge => ChildAddressCells(Device) = 3

\* An address inside a window, and the cell that lies there.
LEMMA WindowServes ==
  ASSUME dt \in Blobs, IsHostBridge, PciCells, NEW space, NEW s \in KindsOf(space), NEW r, IsWindow(s, r),
         NEW x \in Nat, RB(r) <= x, x < RB(r) + r.len, NEW cell, cell = <<r.bus, r.base + (x - RB(r))>>
  PROVE  Served(space, x, cell)
<1>1. PICK e \in Entries(Device) : e.child = r.child /\ e.bus = r.busBase /\ e.len = r.len
  BY DEF IsWindow, EntryOf
<1>2. CellBase^(ChildAddressCells(Device) - 1) = CpuWord /\ ~(ChildAddressCells(Device) < 2)
  <2>1. ChildAddressCells(Device) = 3
    BY DEF PciCells
  <2>2. CellBase^(3 - 1) = CpuWord
    <3>1. 3 - 1 = 2
      OBVIOUS
    <3>. QED  BY <3>1, PciAssumption
  <2>. QED  BY <2>1, <2>2
<1>3. SpaceCodes[s] = e.child \div CpuWord
  BY <1>1, <1>2 DEF IsWindow, FbpPciGetRangeAttribute
<1>4. e.child % CpuWord = RB(r)
  BY <1>1 DEF RB
<1>5. e \in Decoders(KindsOf(space), x)
  BY <1>1, <1>2, <1>3, <1>4 DEF Decoders
<1>6. r.base + (x - RB(r)) \in Reach(Device, r.busBase + (x - RB(r)), r.bus)
  <2>1. r.child \in Nat /\ r.len \in Nat
    <3>1. Has(Device, "ranges")
      BY DEF IsWindow, Placed
    <3>. QED  BY <1>1, <3>1, EntriesTyped, Tree
  <2>2. RB(r) \in Nat
    BY <2>1, Remainders
  <2>3. x - RB(r) \in 0..(r.len - 1)
    BY <2>1, <2>2
  <2>. QED  BY <2>3 DEF IsWindow, Exact
<1>7. cell[1] = r.bus /\ cell[2] = r.base + (x - RB(r))
  OBVIOUS
<1>8. cell[2] \in Reach(Device, e.bus + (x - (e.child % CpuWord)), cell[1])
  BY <1>1, <1>4, <1>6, <1>7
<1>9. cell[2] \in PciReach(space, x, cell[1])
  BY <1>5, <1>8, Zenon DEF PciReach
<1>. QED  BY <1>9 DEF Served
VgaWindows(space) == IF space = "io" THEN {VgaIo1, VgaIo2} ELSE {VgaMem}

LEMMA Shifted ==
  ASSUME NEW x \in Int
  PROVE  x % Word \in Nat /\ (x % Word) - x \in Multiples(CpuWord)
<1>1. PICK n \in Nat \ {0}, m \in Nat \ {0} : n = Word /\ m = CpuWord /\ n % m = 0
  BY Remainders
<1>2. x % n \in 0..(n - 1) /\ Congruent(x, x % n, n)
  BY Modulus
<1>3. PICK y \in Nat : y = x % n
  BY <1>2
<1>4. Congruent(x, y, n)
  BY <1>2, <1>3
<1>5. Congruent(x, y, m)
  BY <1>1, <1>4, DividedModulus
<1>6. Congruent(y, x, m)
  BY <1>5, Congruence
<1>7. y - x \in Multiples(m)
  <2>1. y \in Int
    OBVIOUS
  <2>. QED  BY <1>6, <2>1, MultiplesClosed
<1>. QED  BY <1>1, <1>3, <1>7

\* The window of a VGA address, and what an access there adds up to.
LEMMA VgaServes ==
  ASSUME NEW space, NEW from, from = IF space = "io" THEN rb.win["io"] ELSE rb.win["mem"],
         IsReg(from), from.child \in Nat, from.base \in Nat, RangeValid(from),
         NEW vga \in VgaWindows(space), NEW r, r = Moved(from, vga),
         NEW x \in Nat, RB(r) <= x, x < RB(r) + r.len,
         NEW y \in Int, y - ((r.base - RB(r)) + x) \in Multiples(CpuWord)
  PROVE  VgaReached(space, x, y)
<1>1. PICK m \in Nat \ {0} : m = CpuWord
  BY Remainders
<1>2. PICK vb \in Nat, size \in Nat \ {0} : vb = vga.base /\ size = vga.size /\ vb + size <= m
  BY <1>1, PciAssumption DEF VgaWindows
<1>3. PICK child \in Nat, base \in Nat : child = from.child /\ base = from.base
  OBVIOUS
<1>4. PICK f \in 0..(m - 1) : f = RB(from) /\ Congruent(child, f, m)
  BY <1>1, <1>3, Remainders
<1>5. PICK by : by = (RB(from) - vga.base) % CpuWord
  OBVIOUS
<1>6. by \in Int /\ Congruent(f - vb, by, m)
  <2>1. PICK z \in Int : z = f - vb
    OBVIOUS
  <2>2. z % m \in 0..(m - 1) /\ Congruent(z, z % m, m)
    BY Modulus
  <2>3. by = z % m
    BY <1>1, <1>2, <1>4, <1>5, <2>1
  <2>. QED  BY <2>1, <2>2, <2>3
<1>7. r.child = (child - by) % Word /\ r.base = (base - by) % Word /\ r.len = size
  BY <1>2, <1>3, <1>5, MovedIs
<1>8. /\ r.child \in Nat /\ r.child - (child - by) \in Multiples(m)
      /\ r.base \in Nat /\ r.base - (base - by) \in Multiples(m)
  <2>1. PICK z \in Int, v \in Int : z = child - by /\ v = base - by
    BY <1>6
  <2>2. z % Word \in Nat /\ (z % Word) - z \in Multiples(CpuWord)
    BY Shifted
  <2>3. v % Word \in Nat /\ (v % Word) - v \in Multiples(CpuWord)
    BY Shifted
  <2>. QED  BY <1>1, <1>7, <2>1, <2>2, <2>3
<1>9. PICK b \in 0..(m - 1) : b = RB(r) /\ Congruent(r.child, b, m)
  BY <1>1, <1>8, Remainders
<1>10. PICK u1, u2, u3, u4, u5, u6 :
         /\ u1 = child - f /\ u2 = (f - vb) - by /\ u3 = r.child - (child - by)
         /\ u4 = r.child - b /\ u5 = r.base - (base - by) /\ u6 = y - ((r.base - b) + x)
  OBVIOUS
<1>11. /\ u1 \in Multiples(m) /\ u2 \in Multiples(m) /\ u3 \in Multiples(m)
       /\ u4 \in Multiples(m) /\ u5 \in Multiples(m) /\ u6 \in Multiples(m)
  <2>1. f - vb \in Int /\ f \in Int /\ b \in Int /\ child \in Int /\ r.child \in Int
    BY <1>8
  <2>2. u1 \in Multiples(m)
    BY <1>4, <1>10, <2>1, MultiplesClosed
  <2>3. u2 \in Multiples(m)
    <3>1. PICK z \in Int : z = f - vb
      BY <2>1
    <3>2. z - by \in Multiples(m)
      BY <1>6, <3>1, MultiplesClosed
    <3>. QED  BY <1>10, <3>1, <3>2
  <2>4. u4 \in Multiples(m)
    BY <1>9, <1>10, <2>1, MultiplesClosed
  <2>. QED  BY <1>1, <1>8, <1>9, <1>10, <2>2, <2>3, <2>4
<1>12. b = vb
  <2>1. PICK v \in Multiples(m) : v = u3 + u1
    BY <1>11, MultiplesClosed
  <2>2. PICK w \in Multiples(m) : w = v + u2
    BY <1>11, MultiplesClosed
  <2>3. PICK z \in Multiples(m) : z = w - u4
    BY SMTT(60), <1>11, MultiplesClosed
  <2>4. z = b - vb
    <3>1. PICK rc \in Nat : rc = r.child
      BY <1>8
    <3>2. u1 = child - f /\ u2 = (f - vb) - by /\ u3 = rc - (child - by) /\ u4 = rc - b
      BY <1>10, <3>1
    <3>3. f \in Int /\ b \in Int /\ by \in Int /\ child \in Int /\ rc \in Int /\ vb \in Int
      BY <1>6
    <3>4. z = ((u3 + u1) + u2) - u4
      BY <2>1, <2>2, <2>3
    <3>. HIDE DEF Multiples
    <3>. QED  BY <3>2, <3>3, <3>4
  <2>5. b \in Int /\ vb \in Int /\ vb \in 0..(m - 1)
    BY <1>2
  <2>6. Congruent(b, vb, m)
    BY <2>3, <2>4, <2>5, MultiplesClosed
  <2>. QED  BY <2>5, <2>6, Uniqueness
<1>13. y % m = (base + (x - f)) % m
  <2>1. PICK v \in Multiples(m) : v = u5 + u2
    BY <1>11, MultiplesClosed
  <2>2. PICK w \in Multiples(m) : w = u6 + v
    BY <1>11, MultiplesClosed
  <2>3. PICK g \in Int : g = base + (x - f)
    OBVIOUS
  <2>4. w = y - g
    <3>1. PICK rb1 \in Nat : rb1 = r.base
      BY <1>8
    <3>2. u2 = (f - b) - by /\ u5 = rb1 - (base - by) /\ u6 = y - ((rb1 - b) + x)
      BY <1>10, <1>12, <3>1
    <3>3. f \in Int /\ b \in Int /\ by \in Int /\ base \in Int /\ rb1 \in Int
      BY <1>6
    <3>4. w = u6 + (u5 + u2)
      BY <2>1, <2>2
    <3>. HIDE DEF Multiples
    <3>. QED  BY <2>3, <3>2, <3>3, <3>4
  <2>5. Congruent(y, g, m)
    BY <2>2, <2>4, MultiplesClosed
  <2>. QED  BY <2>3, <2>5, SameModulus
<1>14. vga.base <= x /\ x < vga.base + vga.size
  BY <1>2, <1>7, <1>9, <1>12
<1>. QED  BY <1>1, <1>3, <1>4, <1>13, <1>14 DEF VgaReached, VgaWindows
-----------------------------------------------------------------------------
(* Accesses through the windows                                            *)

BridgeWindows(b) ==
  /\ \A s \in Spaces : b.win[s] = NoReg \/ IsWindow(s, b.win[s])
  /\ b.config = NoReg \/ (Placed(b.config) /\ Exact(b.config))
  /\ b.pc = "ready" =>
       /\ b.win["vgaio1"] = Moved(b.win["io"], VgaIo1) /\ b.win["vgaio2"] = Moved(b.win["io"], VgaIo2)
       /\ b.win["vgamem"] = Moved(b.win["mem"], VgaMem)

LEMMA FiveSpaces == Spaces = {"io", "mem", "pmem", "mem4g", "pmem4g"}
  BY PciAssumption DEF Spaces

VgaOf(space, v) ==
  LET from == IF space = "io" THEN rb.win["io"] ELSE rb.win["mem"]
  IN  /\ RangeValid(from) /\ \E s \in Spaces : IsWindow(s, from)
      /\ \E vga \in VgaWindows(space) : v = Moved(from, vga)

\* The window that answers is empty, an entry of ranges, or made from one.
LEMMA WindowHit ==
  ASSUME BridgeWindows(rb), rb.pc = "ready", NEW space \in {"io", "mem"}, NEW w, NEW a, NEW count,
         Hits(space, w, a, count) # {}, NEW v, v = Hit(space, w, a, count)
  PROVE  /\ Covers(v, a, Length(w, count))
         /\ v = NoReg \/ (\E s \in KindsOf(space) : IsWindow(s, v)) \/ VgaOf(space, v)
<1>. DEFINE tried == Tried(space)
            hits == Hits(space, w, a, count)
<1>1. \A i \in DOMAIN tried : i \in Nat
  BY DEF Tried
<1>2. hits \in SUBSET Nat /\ \A i \in hits : i \in DOMAIN tried /\ Covers(rb.win[tried[i]], a, Length(w, count))
  BY <1>1 DEF Hits
<1>3. Min(hits) \in hits
  <2>. HIDE DEF hits, tried
  <2>1. \E m \in hits : \A n \in hits : m <= n
    BY <1>2, Least DEF hits
  <2>. QED  BY <2>1 DEF Min
<1>4. PICK i \in DOMAIN tried : v = rb.win[tried[i]] /\ Covers(rb.win[tried[i]], a, Length(w, count))
  <2>1. v = rb.win[tried[Min(hits)]]
    BY DEF Hit
  <2>. HIDE DEF hits, tried
  <2>. QED  BY <1>2, <1>3, <2>1
<1>5. Covers(v, a, Length(w, count))
  <2>. HIDE DEF tried
  <2>. QED  BY <1>4
<1>6. PICK from : from = IF space = "io" THEN rb.win["io"] ELSE rb.win["mem"]
  OBVIOUS
<1>7. \/ \E s \in KindsOf(space) : v = rb.win[s]
      \/ \E vga \in VgaWindows(space) : v = Moved(from, vga)
  <2>1. /\ rb.win["vgaio1"] = Moved(rb.win["io"], VgaIo1) /\ rb.win["vgaio2"] = Moved(rb.win["io"], VgaIo2)
        /\ rb.win["vgamem"] = Moved(rb.win["mem"], VgaMem)
    BY DEF BridgeWindows
  <2>2. CASE space = "io"
    <3>1. v \in {rb.win["vgaio1"], rb.win["vgaio2"], rb.win["io"]}
      BY <1>4, <2>2 DEF Tried
    <3>2. KindsOf(space) = {"io"} /\ VgaWindows(space) = {VgaIo1, VgaIo2} /\ from = rb.win["io"]
      BY <1>6, <2>2 DEF KindsOf, VgaWindows
    <3>. QED  BY <2>1, <3>1, <3>2
  <2>3. CASE space = "mem"
    <3>1. v \in {rb.win["mem"], rb.win["vgamem"], rb.win["pmem"], rb.win["mem4g"], rb.win["pmem4g"]}
      BY <1>4, <2>3 DEF Tried
    <3>2. KindsOf(space) = {"mem", "pmem", "mem4g", "pmem4g"} /\ VgaWindows(space) = {VgaMem} /\ from = rb.win["mem"]
      BY <1>6, <2>3, FiveSpaces DEF KindsOf, VgaWindows
    <3>. QED  BY <2>1, <3>1, <3>2
  <2>. QED  BY <2>2, <2>3
<1>8. ASSUME NEW s \in KindsOf(space), v = rb.win[s] PROVE v = NoReg \/ \E k \in KindsOf(space) : IsWindow(k, v)
  <2>1. s \in Spaces
    BY FiveSpaces DEF KindsOf
  <2>. QED  BY <1>8, <2>1 DEF BridgeWindows
<1>9. ASSUME NEW vga \in VgaWindows(space), v = Moved(from, vga) PROVE v = NoReg \/ VgaOf(space, v)
  <2>1. CASE ~RangeValid(from)
    BY <1>9, <2>1 DEF Moved
  <2>2. CASE RangeValid(from)
    <3>1. from # NoReg
      BY <2>2 DEF RangeValid, NoReg
    <3>2. \E s \in Spaces : IsWindow(s, from)
      BY <1>6, <3>1, FiveSpaces DEF BridgeWindows
    <3>. QED  BY <1>6, <1>9, <2>2, <3>2 DEF VgaOf
  <2>. QED  BY <2>1, <2>2
<1>. QED  BY <1>5, <1>7, <1>8, <1>9

Modulo(r) == IF r.bus = Cpu THEN CpuWord ELSE Word

\* Where an access at PCI address a ends up.
LEMMA Placement ==
  ASSUME NEW v, IsReg(v), v.base \in Nat, v.child \in Nat, NEW g, g = FbpRangeToReg(v),
         NEW a \in Nat, NEW p, p = Place(g, a), NEW n, n = Modulo(v)
  PROVE  /\ n \in Nat \ {0} /\ p \in 0..(n - 1) /\ Congruent((v.base - RB(v)) + a, p, n)
         /\ p - ((v.base - RB(v)) + a) \in Multiples(CpuWord)
<1>1. n \in Nat \ {0} /\ n % CpuWord = 0 /\ CpuWord \in Nat \ {0} /\ (n = CpuWord \/ n = Word) /\ Word % n = 0
  <2>1. CpuWord % CpuWord = 0 /\ Word % Word = 0
    <3>1. \A m \in Nat \ {0} : m % m = 0
      OBVIOUS
    <3>. QED  BY <3>1, Remainders
  <2>. QED  BY <2>1, Remainders DEF Modulo
<1>2. PICK z \in Int : z = v.base - RB(v)
  BY Remainders
<1>3. g.bus = v.bus /\ g.base = z % Word
  BY <1>2, RangeToReg
<1>4. PICK y \in Int : y = z % Word /\ Congruent(z, y, Word)
  <2>1. PICK m \in Nat \ {0} : m = Word
    BY Remainders
  <2>2. z % m \in 0..(m - 1) /\ Congruent(z, z % m, m)
    BY Modulus
  <2>. QED  BY <2>1, <2>2
<1>5. Congruent(z, y, n)
  BY <1>1, <1>4, DividedModulus, Remainders
<1>6. Congruent(z + a, y + a, n)
  <2>1. a \in Int
    OBVIOUS
  <2>. QED  BY <1>1, <1>5, <2>1, Congruence
<1>7. p = (y + a) % n
  BY <1>3, <1>4 DEF Place, Modulo
<1>8. PICK u \in Int, t \in Int : u = y + a /\ t = z + a
  OBVIOUS
<1>9. u % n \in 0..(n - 1) /\ Congruent(u, u % n, n)
  BY <1>1, Modulus
<1>10. PICK q \in 0..(n - 1) : q = p /\ Congruent(u, q, n)
  BY <1>7, <1>8, <1>9
<1>11. q \in Int
  BY <1>1
<1>12. Congruent(t, q, n)
  BY ZenonT(60), <1>1, <1>6, <1>8, <1>10, <1>11, Congruence
<1>13. Congruent(t, q, CpuWord)
  BY <1>1, <1>11, <1>12, DividedModulus
<1>14. Congruent(q, t, CpuWord)
  BY <1>1, <1>11, <1>13, Congruence
<1>15. q - t \in Multiples(CpuWord)
  BY <1>1, <1>11, <1>14, MultiplesClosed
<1>. QED  BY <1>1, <1>2, <1>8, <1>10, <1>12, <1>15

\* Every address asked for has its cell, and every cell is that of such an address.
Serves(space, asked, cells) ==
  /\ asked \subseteq Nat
  /\ \A cell \in cells : \E a \in asked : Served(space, a, cell)
  /\ \A a \in asked : \E cell \in cells : Served(space, a, cell)
ServedCall(space, c) ==
  c = Call(c.by, c.asked, c.cells, c.function) /\ c.by = "reg" /\ Serves(space, c.asked, c.cells)

LEMMA NoCallIsServed == \A space : ServedCall(space, NoCall)
<1>1. NoCall = Call("reg", {}, {}, <<0, 0>>)
  BY DEF NoCall, Call
<1>. QED  BY <1>1 DEF ServedCall, Serves, Call

\* One cell for each address, in order.
LEMMA ServedInOrder ==
  ASSUME NEW space, NEW bus, NEW a \in Nat, NEW p \in Nat, NEW l \in Nat,
         \A j \in 0..(l - 1) : Served(space, a + j, <<bus, p + j>>),
         NEW c, c = Call("reg", a..(a + l - 1), From(bus, p, l), <<0, 0>>)
  PROVE  ServedCall(space, c)
<1>1. PICK asked : asked = a..(a + l - 1)
  OBVIOUS
<1>2. PICK cells : cells = From(bus, p, l)
  OBVIOUS
<1>3. c = Call("reg", asked, cells, <<0, 0>>)
  BY <1>1, <1>2
<1>4. c.by = "reg" /\ c.asked = asked /\ c.cells = cells /\ c.function = <<0, 0>>
  BY <1>3 DEF Call
<1>5. ASSUME NEW cell \in cells PROVE \E b \in asked : Served(space, b, cell)
  <2>1. PICK x \in p..(p + l - 1) : cell = <<bus, x>>
    BY <1>2 DEF From
  <2>2. PICK j \in 0..(l - 1) : x = p + j
    <3>1. x - p \in 0..(l - 1) /\ x = p + (x - p)
      OBVIOUS
    <3>. QED  BY <3>1
  <2>3. Served(space, a + j, <<bus, p + j>>) /\ a + j \in asked
    BY <1>1
  <2>. QED  BY <2>1, <2>2, <2>3
<1>6. ASSUME NEW b \in asked PROVE \E cell \in cells : Served(space, b, cell)
  <2>1. PICK j \in 0..(l - 1) : b = a + j
    <3>1. b - a \in 0..(l - 1) /\ b = a + (b - a)
      BY <1>1
    <3>. QED  BY <3>1
  <2>2. p + j \in p..(p + l - 1)
    OBVIOUS
  <2>3. <<bus, p + j>> \in cells
    BY <1>2, <2>2 DEF From
  <2>. QED  BY <2>1, <2>3
<1>7. asked \subseteq Nat
  BY <1>1
<1>8. Serves(space, asked, cells)
  BY <1>5, <1>6, <1>7 DEF Serves
<1>. QED  BY <1>3, <1>4, <1>8 DEF ServedCall

LEMMA WindowAccessServed ==
  ASSUME dt \in Blobs, IsHostBridge, PciCells, BridgeWindows(rb), rb.pc = "ready",
         NEW space \in {"io", "mem"}, NEW op, NEW w \in Widths, NEW a \in Addresses, NEW count \in Counts,
         NEW c, c = WindowAccess(space, op, w, a, count)
  PROVE  ServedCall(space, c.call)
<1>1. CASE ~Accepted(space, w, a, count)
  <2>1. c.call = NoCall
    BY <1>1 DEF WindowAccess, Refused
  <2>. QED  BY <2>1, NoCallIsServed
<1>2. CASE Accepted(space, w, a, count)
  <2>1. PICK v : v = Hit(space, w, a, count)
    OBVIOUS
  <2>2. /\ Covers(v, a, Length(w, count))
        /\ v = NoReg \/ (\E s \in KindsOf(space) : IsWindow(s, v)) \/ VgaOf(space, v)
    BY <1>2, <2>1, WindowHit DEF Accepted
  <2>3. PICK g : g = FbpRangeToReg(v)
    OBVIOUS
  <2>4. c = Access(g, op, w, a, count)
    BY <1>2, <2>1, <2>3 DEF WindowAccess
  <2>5. PICK p : p = Place(g, a)
    OBVIOUS
  <2>6. \/ c.call = NoCall
        \/ c.call = Call("reg", Asked(w, a, count), Touched(g, p, w, count), <<0, 0>>)
    BY <2>4, <2>5, AccessCases
  <2>7. CASE count = 0
    <3>1. c.call = NoCall \/ c.call = Call("reg", {}, {}, <<0, 0>>)
      BY <2>6, <2>7 DEF Asked, Touched
    <3>2. Call("reg", {}, {}, <<0, 0>>) = NoCall
      BY DEF Call, NoCall
    <3>. QED  BY <3>1, <3>2, NoCallIsServed
  <2>8. CASE count # 0
    <3>1. PICK l \in Nat \ {0} : l = Length(w, count)
      BY <2>8, Lengths
    <3>2. a \in Nat
      BY PciAssumption
    <3>3. ASSUME v.child \in Nat, v.base \in Nat, v.len \in Nat, IsReg(v),
                 NEW q \in Nat, q = p, g.bus = v.bus,
                 \A j \in 0..(l - 1) : Served(space, a + j, <<v.bus, q + j>>)
          PROVE  ServedCall(space, c.call)
      <4>1. Asked(w, a, count) = a..(a + l - 1) /\ Touched(g, p, w, count) = From(v.bus, q, l)
        BY <2>8, <3>1, <3>3 DEF Asked, Touched, From
      <4>2. PICK bus : bus = v.bus
        OBVIOUS
      <4>3. PICK d : d = Call("reg", a..(a + l - 1), From(bus, q, l), <<0, 0>>)
        OBVIOUS
      <4>4. ServedCall(space, d)
        BY <3>2, <3>3, <4>2, <4>3, ServedInOrder
      <4>5. c.call = NoCall \/ c.call = d
        BY <2>6, <4>1, <4>2, <4>3
      <4>. QED  BY <4>4, <4>5, NoCallIsServed
    <3>4. CASE v = NoReg
      <4>1. v.child = 0 /\ v.len = 0 /\ RB(v) = 0
        <5>1. 0 % CpuWord = 0
          BY Remainders
        <5>. QED  BY <3>4, <5>1 DEF NoReg, RB
      <4>2. a + l <= RB(v) + v.len
        BY <2>2, <3>1, <3>2, <4>1, Covered
      <4>. QED  BY <3>2, <4>1, <4>2
    <3>5. ASSUME NEW s \in KindsOf(space), IsWindow(s, v) PROVE ServedCall(space, c.call)
      <4>1. IsReg(v) /\ v.child \in Nat /\ Fitting(v)
        <5>1. PICK e \in Entries(Device) : e.child = v.child
          BY <3>5 DEF IsWindow, EntryOf
        <5>2. Has(Device, "ranges")
          BY <3>5 DEF IsWindow, Placed
        <5>3. v.child \in Nat
          BY <5>1, <5>2, EntriesTyped, Tree
        <5>. QED  BY <3>5, <5>3, PlacedFitting DEF IsWindow
      <4>2. PICK base \in Nat, len \in Nat, b \in Nat : base = v.base /\ len = v.len /\ b = RB(v)
        BY <4>1, Remainders DEF Fitting
      <4>3. b <= a /\ a + l <= b + len
        BY <2>2, <3>1, <3>2, <4>1, <4>2, Covered
      <4>4. PICK n : n = Modulo(v)
        OBVIOUS
      <4>5. n \in Nat \ {0} /\ p \in 0..(n - 1) /\ Congruent((v.base - RB(v)) + a, p, n)
        BY <2>3, <2>5, <3>2, <4>1, <4>2, <4>4, Placement
      <4>6. PICK z : z = (base - b) + a
        OBVIOUS
      <4>7. z \in 0..(n - 1)
        <5>1. base + len <= n
          BY <4>1, <4>2, <4>4 DEF Fitting, Modulo
        <5>. QED  BY <3>2, <4>3, <4>5, <4>6, <5>1
      <4>8. p = z
        BY <4>2, <4>5, <4>6, <4>7, Uniqueness
      <4>9. p \in Nat /\ g.bus = v.bus
        BY <2>3, <4>1, <4>5, RangeToReg
      <4>10. ASSUME NEW j \in 0..(l - 1) PROVE Served(space, a + j, <<v.bus, p + j>>)
        <5>1. PICK x \in Nat : x = a + j
          BY <3>2
        <5>2. b <= x /\ x < b + len /\ p + j = base + (x - b)
          BY <3>2, <4>3, <4>6, <4>8, <5>1
        <5>3. PICK cell : cell = <<v.bus, v.base + (x - RB(v))>>
          OBVIOUS
        <5>4. Served(space, x, cell)
          BY <3>5, <4>2, <5>2, <5>3, WindowServes
        <5>. QED  BY <4>2, <5>1, <5>2, <5>3, <5>4
      <4>. QED  BY <3>3, <4>1, <4>2, <4>9, <4>10
    <3>6. CASE VgaOf(space, v)
      <4>1. PICK from : from = IF space = "io" THEN rb.win["io"] ELSE rb.win["mem"]
        OBVIOUS
      <4>2. PICK vga \in VgaWindows(space), s \in Spaces : v = Moved(from, vga) /\ IsWindow(s, from) /\ RangeValid(from)
        BY <3>6, <4>1 DEF VgaOf
      <4>3. IsReg(from) /\ from.child \in Nat /\ from.base \in Nat
        <5>1. PICK e \in Entries(Device) : e.child = from.child
          BY <4>2 DEF IsWindow, EntryOf
        <5>2. Has(Device, "ranges")
          BY <4>2 DEF IsWindow, Placed
        <5>3. from.child \in Nat
          BY <5>1, <5>2, EntriesTyped, Tree
        <5>. QED  BY <4>2, <5>3 DEF IsWindow, Placed
      <4>4. PICK by : by = (RB(from) - vga.base) % CpuWord
        OBVIOUS
      <4>5. by \in Int
        <5>1. vga.base \in Nat /\ RB(from) \in Nat
          BY <4>3, PciAssumption, Remainders DEF VgaWindows
        <5>2. PICK x \in Int : x = RB(from) - vga.base
          BY <5>1
        <5>3. PICK m \in Nat \ {0} : m = CpuWord
          BY Remainders
        <5>4. x % m \in 0..(m - 1)
          BY Modulus
        <5>. QED  BY <4>4, <5>2, <5>3, <5>4
      <4>6. /\ IsReg(v) /\ v.child = (from.child - by) % Word /\ v.base = (from.base - by) % Word
            /\ v.len = vga.size
        BY <4>2, <4>3, <4>4, MovedIs
      <4>7. v.child \in Nat /\ v.base \in Nat /\ v.len \in Nat
        <5>1. PICK x \in Int, y \in Int : x = from.child - by /\ y = from.base - by
          BY <4>3, <4>5
        <5>2. x % Word \in Nat /\ y % Word \in Nat
          BY Shifted
        <5>. QED  BY <4>6, <5>1, <5>2, PciAssumption DEF VgaWindows
      <4>8. PICK b \in Nat, len \in Nat, base \in Nat : b = RB(v) /\ len = v.len /\ base = v.base
        BY <4>7, Remainders
      <4>9. b <= a /\ a + l <= b + len
        BY <2>2, <3>1, <3>2, <4>7, <4>8, Covered
      <4>10. PICK n : n = Modulo(v)
        OBVIOUS
      <4>11. n \in Nat \ {0} /\ p \in 0..(n - 1) /\ p - ((v.base - RB(v)) + a) \in Multiples(CpuWord)
        BY <2>3, <2>5, <3>2, <4>6, <4>7, <4>10, Placement
      <4>12. p \in Nat /\ g.bus = v.bus
        BY <2>3, <4>6, <4>11, RangeToReg
      <4>13. ASSUME NEW j \in 0..(l - 1) PROVE Served(space, a + j, <<v.bus, p + j>>)
        <5>1. PICK x \in Nat, y \in Int : x = a + j /\ y = p + j
          BY <3>2, <4>12
        <5>2. b <= x /\ x < b + len
          BY <3>2, <4>9, <5>1
        <5>3. y - ((base - b) + x) = p - ((base - b) + a)
          BY <3>2, <4>12, <5>1
        <5>4. y - ((v.base - RB(v)) + x) \in Multiples(CpuWord)
          BY <4>8, <4>11, <5>3
        <5>5. VgaReached(space, x, y)
          BY <4>1, <4>2, <4>3, <4>8, <5>2, <5>4, VgaServes
        <5>6. Served(space, x, <<v.bus, y>>)
          BY <5>5 DEF Served
        <5>. QED  BY <5>1, <5>6
      <4>. QED  BY <3>3, <4>6, <4>7, <4>12, <4>13
    <3>. QED  BY <2>2, <3>4, <3>5, <3>6
  <2>. QED  BY <2>7, <2>8
<1>. QED  BY <1>1, <1>2

LEMMA CopiedServed ==
  ASSUME NEW space, NEW read, NEW write, ServedCall(space, read.call), ServedCall(space, write.call),
         NEW c, c = Copied(read, write)
  PROVE  ServedCall(space, c)
<1>1. PICK x, y, z, f : x = read.call.by /\ y = read.call.asked /\ z = read.call.cells /\ f = read.call.function
  OBVIOUS
<1>2. PICK v, u : v = write.call.asked /\ u = write.call.cells
  OBVIOUS
<1>3. read.call = Call(x, y, z, f) /\ x = "reg" /\ Serves(space, y, z) /\ Serves(space, v, u)
  BY <1>1, <1>2 DEF ServedCall
<1>4. c = read.call \/ c = Call(x, y \cup v, z \cup u, f)
  <2>1. \/ c = read.call
        \/ read.ok /\ write.ok /\ c = Call(x, y \cup write.call.asked, z \cup write.call.cells, f)
    BY <1>3, CopiedCases
  <2>. QED  BY <1>2, <2>1
<1>5. PICK asked, cells : asked = y \cup v /\ cells = z \cup u
  OBVIOUS
<1>6. Serves(space, asked, cells)
  BY <1>3, <1>5 DEF Serves
<1>7. ASSUME c = Call(x, asked, cells, f) PROVE ServedCall(space, c)
  <2>1. c.by = x /\ c.asked = asked /\ c.cells = cells /\ c.function = f
    BY <1>7 DEF Call
  <2>. QED  BY <1>3, <1>6, <1>7, <2>1 DEF ServedCall
<1>. QED  BY <1>4, <1>5, <1>7

-----------------------------------------------------------------------------
(* Accesses to configuration space                                         *)

EcamCells(g, function, S) == {<<g.bus, g.base + EcamAddress(function[1], function[2], x)>> : x \in S}
EcamCall(g, c) ==
  /\ c = Call("config", c.asked, c.cells, c.function)
  /\ c.asked \subseteq 0..(ConfigSize - 1)
  /\ c.cells = EcamCells(g, c.function, c.asked)
  /\ \A cell \in c.cells : cell[2] < g.base + g.len

EcamStart(bus, function) == ConfigSize * ((MaxFunction + 1) * bus + function)

\* The registers of a function lie one behind the other, and below the end of the word.
LEMMA EcamAddresses ==
  ASSUME NEW bus \in 0..(CellBase - 1), NEW function \in 0..MaxFunction
  PROVE  /\ EcamStart(bus, function) \in Nat
         /\ \A x : EcamAddress(bus, function, x) = EcamStart(bus, function) + x
         /\ \A x \in 0..ConfigSize : EcamAddress(bus, function, x) \in Nat /\ EcamAddress(bus, function, x) < Word
<1>1. \A x : EcamAddress(bus, function, x) = EcamStart(bus, function) + x
  BY DEF EcamAddress, EcamStart
<1>2. EcamStart(bus, function) \in Nat
  <2>1. \A x, y \in Nat : x * y \in Nat /\ x + y \in Nat
    OBVIOUS
  <2>2. ConfigSize \in Nat /\ MaxFunction + 1 \in Nat /\ bus \in Nat /\ function \in Nat
    BY PciAssumption, Sizes
  <2>3. (MaxFunction + 1) * bus \in Nat
    BY <2>1, <2>2
  <2>4. (MaxFunction + 1) * bus + function \in Nat
    BY <2>1, <2>2, <2>3
  <2>. QED  BY <2>1, <2>2, <2>4 DEF EcamStart
<1>3. EcamAddress(bus, function, ConfigSize) < Word
  BY EcamAssumption
<1>4. PICK k \in Nat : k = EcamStart(bus, function)
  BY <1>2
<1>5. \A x \in 0..ConfigSize : k + x \in Nat /\ k + x < Word
  <2>1. k + ConfigSize < Word /\ ConfigSize \in Nat /\ Word \in Nat
    BY <1>1, <1>3, <1>4, PciAssumption, Sizes
  <2>. QED  BY <2>1
<1>. QED  BY <1>1, <1>2, <1>4, <1>5

LEMMA ConfigAccess ==
  ASSUME rb.config = NoReg \/ (Placed(rb.config) /\ Exact(rb.config)),
         NEW op, NEW w \in Widths, NEW bus \in 0..(CellBase - 1), NEW function, function \in 0..(MaxFunction + 1),
         NEW r \in 0..(ConfigSize - 1), NEW extended, NEW count \in Counts,
         RootBridgeIoPciAccess(op, w, bus, function, r, extended, count)
  PROVE  \E c : call' = c /\ EcamCall(rb.config, c)
<1>1. PICK g : g = rb.config
  OBVIOUS
<1>2. Fitting(g)
  BY <1>1, PlacedFitting
<1>3. PICK off : off = EcamAddress(bus, function, r)
  OBVIOUS
<1>4. PICK c : c = Access(g, op, w, off, count)
  OBVIOUS
<1>5. PICK asked : asked = IF count = 0 THEN {} ELSE r..(r + Length(w, count) - 1)
  OBVIOUS
<1>6. PICK f : f = <<bus, function>>
  OBVIOUS
<1>7. \/ call' = [NoCall EXCEPT !.by = "config"]
      \/ /\ c.ok /\ function <= MaxFunction /\ r + Length(w, count) <= ConfigSize
         /\ call' = [c.call EXCEPT !.by = "config", !.function = f, !.asked = asked]
  <2>. DEFINE accepted == /\ extended \/ r % w.size = 0
                          /\ bus >= rb.busMin /\ bus <= rb.busMin + rb.busLen - 1
                          /\ function <= MaxFunction
                          /\ r + Length(w, count) <= ConfigSize
              d == IF accepted THEN c ELSE Refused
  <2>1. call' = IF ~d.ok THEN [NoCall EXCEPT !.by = "config"]
                ELSE [d.call EXCEPT !.by = "config", !.function = f, !.asked = asked]
    BY <1>1, <1>3, <1>4, <1>5, <1>6, Zenon DEF RootBridgeIoPciAccess
  <2>2. CASE accepted
    <3>1. d = c /\ function <= MaxFunction /\ r + Length(w, count) <= ConfigSize
      BY <2>2
    <3>. HIDE DEF d, accepted
    <3>. QED  BY <2>1, <3>1, Zenon
  <2>3. CASE ~accepted
    <3>1. d = Refused
      BY <2>3
    <3>. HIDE DEF d, accepted
    <3>2. ~d.ok
      BY <3>1 DEF Refused
    <3>. QED  BY <2>1, <3>2, Zenon
  <2>. QED  BY <2>2, <2>3
<1>8. CASE call' = [NoCall EXCEPT !.by = "config"]
  <2>1. PICK d : d = Call("config", {}, {}, <<0, 0>>)
    OBVIOUS
  <2>2. call' = d
    <3>1. PICK n : n = NoCall
      OBVIOUS
    <3>2. n = [by |-> "reg", asked |-> {}, cells |-> {}, function |-> <<0, 0>>]
      BY <3>1 DEF NoCall
    <3>3. PICK h : h = [n EXCEPT !.by = "config"]
      OBVIOUS
    <3>4. PICK f0 : f0 = <<0, 0>>
      OBVIOUS
    <3>5. n = [by |-> "reg", asked |-> {}, cells |-> {}, function |-> f0]
      BY <3>2, <3>4
    <3>6. h = [by |-> "config", asked |-> {}, cells |-> {}, function |-> f0]
      BY <3>3, <3>5
    <3>. QED  BY <1>8, <2>1, <3>1, <3>3, <3>4, <3>6 DEF Call
  <2>3. d.asked = {} /\ d.cells = {} /\ d.function = <<0, 0>>
    BY <2>1 DEF Call
  <2>4. EcamCells(rb.config, d.function, {}) = {}
    BY DEF EcamCells
  <2>5. EcamCall(rb.config, d)
    BY <2>1, <2>3, <2>4 DEF EcamCall
  <2>. QED  BY <2>2, <2>5
<1>9. CASE /\ c.ok /\ function <= MaxFunction /\ r + Length(w, count) <= ConfigSize
           /\ call' = [c.call EXCEPT !.by = "config", !.function = f, !.asked = asked]
  <2>1. PICK k \in Nat : k = EcamStart(bus, function)
    BY <1>9, EcamAddresses, PciAssumption
  <2>2. function \in 0..MaxFunction
    BY <1>9, PciAssumption
  <2>3. \A x : EcamAddress(bus, function, x) = k + x
    BY <2>1, <2>2, EcamAddresses
  <2>4. off = k + r /\ off \in Nat /\ r \in Nat
    BY <1>3, <2>1, <2>3
  <2>5. PICK S : S = Asked(w, off, count)
    OBVIOUS
  <2>6. off + Length(w, count) < Word \/ count = 0
    <3>1. SUFFICES ASSUME count # 0 PROVE off + Length(w, count) < Word
      OBVIOUS
    <3>2. PICK l \in Nat \ {0} : l = Length(w, count)
      BY <3>1, Lengths
    <3>3. PICK x \in 0..ConfigSize : x = r + l
      BY <1>9, <2>4, <3>2, PciAssumption
    <3>4. k + x < Word
      BY <2>2, <2>3, EcamAddresses
    <3>. QED  BY <2>4, <3>2, <3>3, <3>4
  <2>7. c.call = Call("reg", S, Image(g.bus, g.base, S), <<0, 0>>) /\ S \subseteq 0..(g.len - 1)
    <3>1. c.ok
      BY <1>9
    <3>2. off \in Nat /\ c = Access(g, op, w, off, count)
      BY <1>4, <2>4
    <3>3. /\ c.call = Call("reg", Asked(w, off, count), Image(g.bus, g.base, Asked(w, off, count)), <<0, 0>>)
          /\ Asked(w, off, count) \subseteq 0..(g.len - 1)
      BY <1>2, <2>6, <3>1, <3>2, AccessImage
    <3>. QED  BY <2>5, <3>3
  <2>8. PICK cells : cells = Image(g.bus, g.base, S)
    OBVIOUS
  <2>9. PICK d : d = Call("config", asked, cells, f)
    OBVIOUS
  <2>10. call' = d
    <3>1. c.call = [by |-> "reg", asked |-> S, cells |-> cells, function |-> <<0, 0>>]
      BY <2>7, <2>8 DEF Call
    <3>2. PICK h1 : h1 = [c.call EXCEPT !.by = "config"]
      OBVIOUS
    <3>3. h1 = [by |-> "config", asked |-> S, cells |-> cells, function |-> <<0, 0>>]
      BY <3>1, <3>2
    <3>4. PICK h2 : h2 = [h1 EXCEPT !.function = f]
      OBVIOUS
    <3>5. h2 = [by |-> "config", asked |-> S, cells |-> cells, function |-> f]
      BY <3>3, <3>4
    <3>6. PICK h3 : h3 = [h2 EXCEPT !.asked = asked]
      OBVIOUS
    <3>7. h3 = [by |-> "config", asked |-> asked, cells |-> cells, function |-> f]
      BY <3>5, <3>6
    <3>8. call' = h3
      BY <1>9, <3>2, <3>4, <3>6, Zenon
    <3>. QED  BY <2>9, <3>7, <3>8 DEF Call
  <2>11. d.asked = asked /\ d.cells = cells /\ d.function = f /\ f[1] = bus /\ f[2] = function
    BY <1>6, <2>9 DEF Call
  <2>12. /\ asked \subseteq 0..(ConfigSize - 1)
         /\ \A x \in asked : k + x \in S
         /\ \A o \in S : o - k \in asked
    <3>1. CASE count = 0
      BY <1>5, <2>5, <3>1 DEF Asked
    <3>2. CASE count # 0
      <4>1. PICK l \in Nat \ {0} : l = Length(w, count)
        BY <3>2, Lengths
      <4>2. asked = r..(r + l - 1) /\ S = off..(off + l - 1) /\ r + l <= ConfigSize /\ ConfigSize \in Nat
        BY <1>5, <1>9, <2>5, <3>2, <4>1, PciAssumption DEF Asked
      <4>. QED  BY <2>4, <4>2
    <3>. QED  BY <3>1, <3>2
  <2>13. g.base \in Nat /\ g.len \in Nat /\ \A o \in S : o \in Nat /\ o < g.len
    BY <1>2, <2>7 DEF Fitting
  <2>14. cells = EcamCells(g, f, asked)
    <3>1. EcamCells(g, f, asked) = {<<g.bus, g.base + (k + x)>> : x \in asked}
      BY <2>3, <2>11 DEF EcamCells
    <3>2. \A o \in S : k + (o - k) = o
      BY <2>13
    <3>. QED  BY <2>8, <2>12, <3>1, <3>2 DEF Image
  <2>15. \A cell \in cells : cell[2] < g.base + g.len
    <3>1. SUFFICES ASSUME NEW cell \in Image(g.bus, g.base, S) PROVE cell[2] < g.base + g.len
      BY <2>8
    <3>2. PICK o \in S : cell = <<g.bus, g.base + o>>
      BY DEF Image
    <3>. QED  BY <2>13, <3>2
  <2>16. EcamCall(g, d)
    BY <2>9, <2>11, <2>12, <2>14, <2>15 DEF EcamCall
  <2>. QED  BY <1>1, <2>10, <2>16
<1>. QED  BY <1>7, <1>8, <1>9

-----------------------------------------------------------------------------
(* What an access is, as long as nothing changes                           *)

\* An access by a driver to its region, or to memory, I/O and configuration
\* space through the root bridge.
CallGood(c) ==
  /\ c.by = "reg" => OwnCall(reg, c)
  /\ c.by \in {"io", "mem"} => Serves(c.by, c.asked, c.cells)
  /\ c.by = "config" => EcamCall(rb.config, c)

LEMMA SameServed ==
  ASSUME dt \in Blobs, dt' = dt, rb' = rb
  PROVE  \A space, asked, cells : Serves(space, asked, cells)' <=> Serves(space, asked, cells)
<1>1. \A kinds, a : Decoders(kinds, a)' = Decoders(kinds, a)
  BY SameEntries, SameCells DEF Decoders
<1>2. \A space, a, bus : PciReach(space, a, bus)' = PciReach(space, a, bus)
  <2>1. SUFFICES ASSUME NEW space, NEW a, NEW bus PROVE PciReach(space, a, bus)' = PciReach(space, a, bus)
    OBVIOUS
  <2>2. PICK D : D = Decoders(KindsOf(space), a)
    OBVIOUS
  <2>3. PICK R : R = {Reach(Device, e.bus + (a - (e.child % CpuWord)), bus) : e \in D}
    OBVIOUS
  <2>4. PICK Q : Q = {Reach(Device, e.bus + (a - (e.child % CpuWord)), bus)' : e \in D}
    OBVIOUS
  <2>5. R = Q
    BY <2>3, <2>4, SameReach
  <2>6. PciReach(space, a, bus) = UNION R
    BY <2>2, <2>3 DEF PciReach
  <2>7. PciReach(space, a, bus)' = UNION Q
    BY <1>1, <2>2, <2>4 DEF PciReach
  <2>. QED  BY <2>5, <2>6, <2>7
<1>3. \A space, a, x : VgaReached(space, a, x)' <=> VgaReached(space, a, x)
  BY DEF VgaReached
<1>4. \A space, a, cell : Served(space, a, cell)' <=> Served(space, a, cell)
  BY <1>2, <1>3 DEF Served
<1>. QED  BY <1>4 DEF Serves

LEMMA SameGood ==
  ASSUME dt \in Blobs, dt' = dt, rb' = rb, reg' = reg, NEW c, CallGood(c)
  PROVE  CallGood(c)'
<1>1. c.by \in {"io", "mem"} => Serves(c.by, c.asked, c.cells)'
  <2>1. c.by \in {"io", "mem"} => Serves(c.by, c.asked, c.cells)
    BY DEF CallGood
  <2>. QED  BY <2>1, SameServed
<1>2. c.by = "reg" => OwnCall(reg, c)'
  BY DEF CallGood
<1>3. c.by = "config" => EcamCall(rb.config, c)'
  BY DEF CallGood
<1>. QED  BY <1>1, <1>2, <1>3 DEF CallGood

LEMMA SameWindow ==
  ASSUME dt \in Blobs, dt' = dt, NEW s, NEW r, IsWindow(s, r)
  PROVE  IsWindow(s, r)'
<1>1. IsReg(r) /\ r.kind = "ranges" /\ Placed(r) /\ Exact(r) /\ EntryOf(r) /\ SpaceCodes[s] = FbpPciGetRangeAttribute(r)
  BY DEF IsWindow
<1>2. Placed(r)' /\ Exact(r)'
  BY <1>1, SameExact
<1>3. EntryOf(r)'
  BY <1>1, SameEntries DEF EntryOf
<1>4. FbpPciGetRangeAttribute(r)' = FbpPciGetRangeAttribute(r)
  BY SameCells DEF FbpPciGetRangeAttribute
<1>. QED  BY <1>1, <1>2, <1>3, <1>4 DEF IsWindow

LEMMA SameBridge ==
  ASSUME dt \in Blobs, dt' = dt, NEW b, BridgeWindows(b)
  PROVE  BridgeWindows(b)'
<1>1. \A s \in Spaces : b.win[s] = NoReg \/ IsWindow(s, b.win[s])'
  BY SameWindow DEF BridgeWindows
<1>2. b.config = NoReg \/ (Placed(b.config)' /\ Exact(b.config)')
  BY SameExact DEF BridgeWindows
<1>. QED  BY <1>1, <1>2 DEF BridgeWindows

\* What a step does to the bridge.
LEMMA BridgeKinds ==
  ASSUME [DtNext]_allVars
  PROVE  \/ rb' = rb \/ RbBusRange \/ RbFree
         \/ \E f \in Faults : RbConfig(f) \/ RbFirstReg(f) \/ RbRange(f)
<1>1. CASE \E w \in Widths, a \in Addresses, count \in Counts :
              \/ \E op \in {"read", "write"} : RootBridgeIoMem(op, w, a, count) \/ RootBridgeIoIo(op, w, a, count)
              \/ \E src \in Addresses : RootBridgeIoCopyMem(w, a, src, count)
  BY <1>1 DEF RootBridgeIoMem, RootBridgeIoIo, RootBridgeIoAccess, RootBridgeIoCopyMem
<1>2. CASE \E a \in Addresses, space \in {"io", "mem"}, delay \in Delays, up \in BOOLEAN,
              tick \in 0..EndTick, hw \in BOOLEAN : RootBridgeIoPoll(space, a, delay, up, tick, hw)
  BY <1>2 DEF RootBridgeIoPoll
<1>3. CASE \E op \in {"read", "write"}, w \in Widths, bus \in 0..(CellBase - 1), function \in 0..(MaxFunction + 1),
              r \in 0..(ConfigSize - 1), extended \in BOOLEAN, count \in Counts :
              RootBridgeIoPciAccess(op, w, bus, function, r, extended, count)
  BY <1>3 DEF RootBridgeIoPciAccess
<1>4. CASE UNCHANGED allVars
  BY <1>4 DEF allVars, pciVars
<1>5. CASE RbNext
  BY <1>1, <1>2, <1>3, <1>5, Zenon DEF RbNext
<1>. QED  BY <1>4, <1>5, Zenon DEF DtNext

\* Only the driver of a host bridge has one.
LEMMA HostStep ==
  ASSUME rb.pc # "none" => IsHostBridge, [DtNext]_allVars
  PROVE  rb'.pc # "none" => IsHostBridge
<1>1. CASE rb' = rb
  BY <1>1
<1>2. CASE RbBusRange
  BY <1>2 DEF RbBusRange
<1>3. CASE RbFree
  BY <1>3 DEF RbFree
<1>4. CASE \E f \in Faults : RbConfig(f)
  BY <1>4 DEF RbConfig
<1>5. CASE \E f \in Faults : RbFirstReg(f)
  BY <1>5 DEF RbFirstReg
<1>6. CASE \E f \in Faults : RbRange(f)
  BY <1>6 DEF RbRange
<1>. QED  BY <1>1, <1>2, <1>3, <1>4, <1>5, <1>6, BridgeKinds

-----------------------------------------------------------------------------
(* What a bridge has, as it starts                                         *)

LEMMA StoredWindows ==
  ASSUME OnBuses(rb), BridgeWindows(rb), NEW r, IsReg(r), r.kind = "ranges", Placed(r), Exact(r), EntryOf(r)
  PROVE  \A s \in Spaces : Stored(r)[s] = NoReg \/ IsWindow(s, Stored(r)[s])
<1>1. PICK win : win = rb.win
  OBVIOUS
<1>2. \A s \in Spaces : win[s] = NoReg \/ IsWindow(s, win[s])
  BY <1>1 DEF BridgeWindows
<1>3. CASE ~KeepExistingConfig /\ r.bus # Cpu
  <2>1. Stored(r) = win
    BY <1>1, <1>3 DEF Stored
  <2>. QED  BY <1>2, <2>1
<1>4. CASE ~(~KeepExistingConfig /\ r.bus # Cpu)
  <2>1. Stored(r) = [s \in Windows |-> IF s \in KindOf(r) THEN r ELSE win[s]]
    BY <1>1, <1>4 DEF Stored
  <2>2. \A s \in KindOf(r) : IsWindow(s, r)
    BY DEF KindOf, IsWindow
  <2>3. \A s \in Spaces : s \in Windows
    BY DEF Windows
  <2>. QED  BY <1>2, <2>1, <2>2, <2>3
<1>. QED  BY <1>3, <1>4

LEMMA VgaAdded ==
  ASSUME OnBuses(rb), NEW w, w = WithVga(rb.win)
  PROVE  /\ \A s \in Spaces : w[s] = rb.win[s]
         /\ w["vgaio1"] = Moved(rb.win["io"], VgaIo1) /\ w["vgaio2"] = Moved(rb.win["io"], VgaIo2)
         /\ w["vgamem"] = Moved(rb.win["mem"], VgaMem)
<1>1. PICK win : win = rb.win
  OBVIOUS
<1>2. win = [s \in Windows |-> win[s]]
  BY <1>1 DEF OnBuses
<1>3. PICK a, b, c : a = Moved(win["io"], VgaIo1) /\ b = Moved(win["io"], VgaIo2) /\ c = Moved(win["mem"], VgaMem)
  OBVIOUS
<1>4. w = [win EXCEPT !["vgaio1"] = a, !["vgaio2"] = b, !["vgamem"] = c]
  BY <1>1, <1>3 DEF WithVga
<1>5. /\ w["vgaio1"] = a /\ w["vgaio2"] = b /\ w["vgamem"] = c
      /\ \A s \in Spaces : w[s] = win[s]
  BY <1>2, <1>4, Windows8, FiveSpaces
<1>. QED  BY <1>1, <1>3, <1>5

\* The configuration region of a bridge is a reg of its device, and its windows
\* are entries of ranges.
LEMMA WindowsStep ==
  ASSUME dt \in Blobs, AddressesFit, BridgeInv, OnBuses(rb), BridgeWindows(rb), [DtNext]_allVars
  PROVE  \E b : rb' = b /\ BridgeWindows(b)
<1>1. /\ rb = [pc |-> rb.pc, next |-> rb.next, config |-> rb.config, busMin |-> rb.busMin,
               busLen |-> rb.busLen, win |-> rb.win]
      /\ rb.next \in Nat
  BY DEF BridgeInv
<1>. DEFINE Goal == \E b : rb' = b /\ BridgeWindows(b)
<1>2. ASSUME NEW pc, pc # "ready", rb' = [NoBridge EXCEPT !.pc = pc] \/ rb' = NoBridge PROVE Goal
  <2>1. PICK b : b = rb'
    OBVIOUS
  <2>2. b.config = NoReg /\ b.win = [s \in Windows |-> NoReg] /\ b.pc # "ready"
    BY <1>2, <2>1 DEF NoBridge
  <2>3. \A s \in Spaces : s \in Windows
    BY DEF Windows
  <2>4. BridgeWindows(b)
    BY <2>2, <2>3 DEF BridgeWindows
  <2>. QED  BY <2>1, <2>4
<1>3. ASSUME NEW i \in Nat, NEW f, NEW pc, pc # "ready", ConfigFound(GetRegion("reg", i, f), pc) PROVE Goal
  <2>1. PICK r : r = GetRegion("reg", i, f)
    OBVIOUS
  <2>2. "reg" \in Kinds
    BY DEF Kinds
  <2>3. rb' = IF r.ok THEN [rb EXCEPT !.config = r.reg, !.pc = "bus"] ELSE [NoBridge EXCEPT !.pc = pc]
    BY <1>3, <2>1 DEF ConfigFound
  <2>4. CASE r.ok
    <3>1. r.ok = FALSE \/ (r.ok = TRUE /\ Exact(r.reg) /\ Placed(r.reg))
      BY <2>1, <2>2, GotExactly
    <3>2. Exact(r.reg) /\ Placed(r.reg)
      BY <2>4, <3>1
    <3>3. PICK b : b = [rb EXCEPT !.config = r.reg, !.pc = "bus"]
      OBVIOUS
    <3>4. b.config = r.reg /\ b.win = rb.win /\ b.pc = "bus"
      BY <1>1, <3>3
    <3>5. BridgeWindows(b)
      BY <3>2, <3>4 DEF BridgeWindows
    <3>. QED  BY <2>3, <2>4, <3>3, <3>5
  <2>. QED  BY <1>2, <1>3, <2>3, <2>4
<1>4. CASE rb' = rb
  BY <1>4
<1>5. CASE \E f \in Faults : RbConfig(f)
  <2>1. PICK f \in Faults : RbConfig(f)
    BY <1>5
  <2>2. CASE ConfigNamed
    <3>1. DtIoGetStringIndex("config") \in Nat
      BY <2>2, StringIndex DEF ConfigNamed
    <3>. QED  BY <1>3, <2>1, <2>2, <3>1 DEF RbConfig
  <2>3. CASE ~ConfigNamed
    BY <1>2, <2>1, <2>3 DEF RbConfig
  <2>. QED  BY <2>2, <2>3
<1>6. CASE \E f \in Faults : RbFirstReg(f)
  BY <1>3, <1>6 DEF RbFirstReg
<1>7. CASE RbBusRange
  <2>1. rb' = NoBridge \/ \E min, len : rb' = [rb EXCEPT !.busMin = min, !.busLen = len, !.pc = "ranges"]
    BY <1>7, Zenon DEF RbBusRange
  <2>2. ASSUME NEW min, NEW len, rb' = [rb EXCEPT !.busMin = min, !.busLen = len, !.pc = "ranges"]
        PROVE  Goal
    <3>1. PICK b : b = [rb EXCEPT !.busMin = min, !.busLen = len, !.pc = "ranges"]
      OBVIOUS
    <3>2. b.config = rb.config /\ b.win = rb.win /\ b.pc = "ranges"
      BY <1>1, <3>1
    <3>3. BridgeWindows(b)
      BY <3>2 DEF BridgeWindows
    <3>. QED  BY <2>2, <3>1, <3>3
  <2>3. ASSUME rb' = NoBridge PROVE Goal
    BY <1>2, <2>3
  <2>. QED  BY <2>1, <2>2, <2>3, Zenon
<1>8. CASE \E f \in Faults : RbRange(f)
  <2>1. PICK f \in Faults : RbRange(f)
    BY <1>8
  <2>2. PICK r : r = GetRegion("ranges", rb.next, f)
    OBVIOUS
  <2>3. /\ rb.pc = "ranges"
        /\ rb' = IF r.ok THEN [rb EXCEPT !.win = Stored(r.reg), !.next = @ + 1]
                 ELSE IF RootBridgeValidate(rb) THEN [rb EXCEPT !.pc = "ready", !.next = 0, !.win = WithVga(@)]
                 ELSE NoBridge
    BY <2>1, <2>2, Zenon DEF RbRange
  <2>4. CASE r.ok
    <3>1. IsReg(r.reg) /\ r.reg.kind = "ranges" /\ Placed(r.reg) /\ Exact(r.reg) /\ EntryOf(r.reg)
      BY <1>1, <2>2, <2>4, GotEntry
    <3>2. PICK win : win = Stored(r.reg)
      OBVIOUS
    <3>3. \A s \in Spaces : win[s] = NoReg \/ IsWindow(s, win[s])
      BY <3>1, <3>2, StoredWindows
    <3>4. PICK b : b = [rb EXCEPT !.win = win, !.next = @ + 1]
      OBVIOUS
    <3>5. b.config = rb.config /\ b.win = win /\ b.pc = "ranges"
      <4>1. PICK n : n = rb.next + 1
        OBVIOUS
      <4>. QED  BY <1>1, <2>3, <3>4, <4>1
    <3>6. BridgeWindows(b)
      BY <3>3, <3>5 DEF BridgeWindows
    <3>. QED  BY <2>3, <2>4, <3>2, <3>4, <3>6
  <2>5. CASE ~r.ok /\ RootBridgeValidate(rb)
    <3>1. PICK win : win = WithVga(rb.win)
      OBVIOUS
    <3>2. /\ \A s \in Spaces : win[s] = rb.win[s]
          /\ win["vgaio1"] = Moved(rb.win["io"], VgaIo1) /\ win["vgaio2"] = Moved(rb.win["io"], VgaIo2)
          /\ win["vgamem"] = Moved(rb.win["mem"], VgaMem)
      BY <3>1, VgaAdded
    <3>3. PICK b : b = [rb EXCEPT !.pc = "ready", !.next = 0, !.win = win]
      OBVIOUS
    <3>4. b.config = rb.config /\ b.win = win
      BY <1>1, <3>3
    <3>5. "io" \in Spaces /\ "mem" \in Spaces
      BY FiveSpaces
    <3>6. BridgeWindows(b)
      BY <3>2, <3>4, <3>5 DEF BridgeWindows
    <3>. QED  BY <2>3, <2>5, <3>1, <3>3, <3>6
  <2>6. CASE rb' = NoBridge
    BY <1>2, <2>6
  <2>. QED  BY <2>3, <2>4, <2>5, <2>6
<1>9. CASE RbFree
  BY <1>2, <1>9 DEF RbFree
<1>. QED  BY <1>4, <1>5, <1>6, <1>7, <1>8, <1>9, BridgeKinds, Zenon

-----------------------------------------------------------------------------
(* Every access is what was asked for                                      *)

LEMMA OwnIsGood ==
  ASSUME NEW c, OwnCall(reg, c)
  PROVE  CallGood(c)
  BY DEF CallGood, OwnCall

\* Offsets are of 128 bits, and no access runs over their end.
LEMMA OffsetsInWord ==
  ASSUME NEW w \in Widths, NEW off \in Offsets, NEW count \in Counts
  PROVE  off \in Nat /\ (off + Length(w, count) < Word \/ count = 0)
<1>1. off \in Nat /\ off + CpuWord <= Word
  BY CallersAssumption
<1>2. CASE count # 0
  <2>1. PICK l \in Nat \ {0} : l = Length(w, count) /\ l < CpuWord
    BY <1>2, Lengths
  <2>. QED  BY <1>1, <2>1, Remainders
<1>. QED  BY <1>1, <1>2

LEMMA ServedIsGood ==
  ASSUME NEW space \in {"io", "mem"}, NEW c, ServedCall(space, c), NEW d, d = [c EXCEPT !.by = space]
  PROVE  CallGood(d)
<1>1. PICK x, y, z, f : x = c.by /\ y = c.asked /\ z = c.cells /\ f = c.function
  OBVIOUS
<1>2. c = [by |-> x, asked |-> y, cells |-> z, function |-> f] /\ Serves(space, y, z)
  BY <1>1 DEF ServedCall, Call
<1>3. d = [by |-> space, asked |-> y, cells |-> z, function |-> f]
  BY <1>2
<1>4. d.by = space /\ d.asked = y /\ d.cells = z
  BY <1>3
<1>. QED  BY <1>2, <1>4 DEF CallGood

\* What a step does to the access last made, and to what it is judged by.
LEMMA AccessStep ==
  ASSUME dt \in Blobs, reg = NoReg \/ (Placed(reg) /\ Exact(reg)), BridgeWindows(rb),
         rb.pc # "none" => IsHostBridge, PciCells, [DtNext]_allVars
  PROVE  \/ call' = NoCall
         \/ reg' = reg /\ rb' = rb /\ (call' = call \/ \E c : call' = c /\ CallGood(c))
<1>1. Fitting(reg)
  BY PlacedFitting
<1>2. CASE Quiet
  BY <1>2 DEF Quiet
<1>3. CASE \E b \in SampleBuses : DtIoSetCallbacks(b)
  BY <1>3 DEF DtIoSetCallbacks
<1>4. CASE PollStep /\ UNCHANGED rb
  BY <1>4 DEF PollStep, PollRead, PollTick, Clock, HwChange, PollReturn
<1>5. ASSUME NEW op, NEW w \in Widths, NEW off \in Offsets, NEW count \in Counts, DtIoReadWriteReg(op, w, off, count)
      PROVE  reg' = reg /\ \E c : call' = c /\ CallGood(c)
  <2>1. PICK a : a = Access(reg, op, w, off, count)
    OBVIOUS
  <2>2. OwnCall(reg, a.call)
    BY <1>1, <2>1, OffsetsInWord, AccessIsOwn
  <2>3. reg' = reg /\ call' = a.call
    BY <1>5, <2>1 DEF DtIoReadWriteReg
  <2>. QED  BY <2>2, <2>3, OwnIsGood
<1>6. ASSUME NEW w \in Widths, NEW dest \in Offsets, NEW src \in Offsets, NEW count \in Counts,
             DtIoCopyReg(w, dest, src, count)
      PROVE  reg' = reg /\ \E c : call' = c /\ CallGood(c)
  <2>1. PICK read : read = Access(reg, "read", w, src, count)
    OBVIOUS
  <2>2. PICK write : write = Access(reg, "write", w, dest, count)
    OBVIOUS
  <2>3. OwnCall(reg, read.call) /\ OwnCall(reg, write.call)
    BY <1>1, <2>1, <2>2, OffsetsInWord, AccessIsOwn
  <2>4. PICK c : c = Copied(read, write)
    OBVIOUS
  <2>5. reg' = reg /\ call' = c
    BY <1>6, <2>1, <2>2, <2>4 DEF DtIoCopyReg
  <2>6. OwnCall(reg, c)
    BY <2>3, <2>4, CopiedIsOwn
  <2>. QED  BY <2>5, <2>6, OwnIsGood
<1>7. CASE Next /\ UNCHANGED rb
  <2>1. CASE \/ \E name \in DOMAIN dt[Device] : DtIoGetProp(name)
             \/ \E type \in FieldParsers, i \in Indices : DtIoParseProp(type, i)
             \/ \E i \in Indices : DtIoParsePropString(i)
    BY <1>2, <2>1 DEF DtIoGetProp, DtIoParseProp, DtIoParsePropString
  <2>2. CASE \E i \in Indices, f \in Faults :
               \/ DtIoGetReg(i, f) \/ DtIoGetRange(i, f)
               \/ \E kind \in {"reg", "ranges"} : DtIoParsePropRegion(kind, i, f)
    BY <1>2, <2>2 DEF DtIoGetReg, DtIoGetRange, DtIoGetRegion, DtIoParsePropRegion
  <2>3. CASE \E s \in Names, f \in Faults : DtIoGetRegByName(s, f)
    BY <1>2, <2>3 DEF DtIoGetRegByName, DtIoGetReg, DtIoGetRegion
  <2>4. CASE \E c \in DOMAIN RegTypes, attrs \in Attributes, f \in Faults : DtIoSetRegType(RegTypes[c], attrs, f)
    BY <1>2, <2>4 DEF DtIoSetRegType
  <2>5. CASE \E w \in Widths, off \in Offsets, count \in Counts :
               \/ \E op \in {"read", "write"} : DtIoReadWriteReg(op, w, off, count)
               \/ \E src \in Offsets : DtIoCopyReg(w, off, src, count)
    BY <1>5, <1>6, <1>7, <2>5
  <2>6. CASE \E delay \in Delays, up \in BOOLEAN, tick \in 0..EndTick, hw \in BOOLEAN : DtIoPollReg(delay, up, tick, hw)
    BY SMTT(60), <1>7, <2>6 DEF DtIoPollReg, PollStart
  <2>. QED  BY <1>3, <1>4, <1>7, <2>1, <2>2, <2>3, <2>4, <2>5, <2>6, Zenon DEF Next
<1>8. CASE HmNext
  BY <1>2, <1>8 DEF HmNext, DriverStart, SetMemoryAttributes, DriverStop, ProcessMemoryRanges, SetRegType
<1>9. CASE \E f \in Faults : RbConfig(f) \/ RbFirstReg(f) \/ RbRange(f)
  BY <1>2, <1>9 DEF RbConfig, RbFirstReg, RbRange
<1>10. CASE RbBusRange \/ RbFree
  BY <1>2, <1>10 DEF RbBusRange, RbFree
<1>11. ASSUME NEW space \in {"io", "mem"}, NEW op, NEW w \in Widths, NEW a \in Addresses, NEW count \in Counts,
              RootBridgeIoAccess(space, op, w, a, count)
       PROVE  reg' = reg /\ rb' = rb /\ \E c : call' = c /\ CallGood(c)
  <2>1. PICK c : c = WindowAccess(space, op, w, a, count)
    OBVIOUS
  <2>2. rb.pc = "ready" /\ reg' = reg /\ rb' = rb
    BY <1>11 DEF RootBridgeIoAccess, Ready
  <2>3. PICK d : d = [c.call EXCEPT !.by = space]
    OBVIOUS
  <2>4. call' = d
    BY <1>11, <2>1, <2>3, Zenon DEF RootBridgeIoAccess
  <2>5. ServedCall(space, c.call)
    BY <2>1, <2>2, WindowAccessServed
  <2>6. CallGood(d)
    BY <2>3, <2>5, ServedIsGood
  <2>. QED  BY <2>2, <2>4, <2>6
<1>12. ASSUME NEW w \in Widths, NEW dest \in Addresses, NEW src \in Addresses, NEW count \in Counts,
              RootBridgeIoCopyMem(w, dest, src, count)
       PROVE  reg' = reg /\ rb' = rb /\ \E c : call' = c /\ CallGood(c)
  <2>1. PICK read : read = WindowAccess("mem", "read", w, src, count)
    OBVIOUS
  <2>2. PICK write : write = WindowAccess("mem", "write", w, dest, count)
    OBVIOUS
  <2>3. rb.pc = "ready" /\ reg' = reg /\ rb' = rb
    BY <1>12 DEF RootBridgeIoCopyMem, Ready
  <2>4. PICK c : c = Copied(read, write)
    OBVIOUS
  <2>5. PICK d : d = [c EXCEPT !.by = "mem"]
    OBVIOUS
  <2>6. call' = d
    BY <1>12, <2>1, <2>2, <2>4, <2>5, Zenon DEF RootBridgeIoCopyMem
  <2>7. ServedCall("mem", read.call) /\ ServedCall("mem", write.call)
    BY <2>1, <2>2, <2>3, WindowAccessServed
  <2>8. ServedCall("mem", c)
    BY <2>4, <2>7, CopiedServed
  <2>9. CallGood(d)
    BY <2>5, <2>8, ServedIsGood
  <2>. QED  BY <2>3, <2>6, <2>9
<1>13. CASE \E w \in Widths, a \in Addresses, count \in Counts :
              \/ \E op \in {"read", "write"} : RootBridgeIoMem(op, w, a, count) \/ RootBridgeIoIo(op, w, a, count)
              \/ \E src \in Addresses : RootBridgeIoCopyMem(w, a, src, count)
  BY <1>11, <1>12, <1>13 DEF RootBridgeIoMem, RootBridgeIoIo
<1>14. CASE \E a \in Addresses, space \in {"io", "mem"}, delay \in Delays, up \in BOOLEAN,
              tick \in 0..EndTick, hw \in BOOLEAN : RootBridgeIoPoll(space, a, delay, up, tick, hw)
  BY <1>14 DEF RootBridgeIoPoll, PollStart
<1>15. ASSUME NEW op, NEW w \in Widths, NEW bus \in 0..(CellBase - 1), NEW function \in 0..(MaxFunction + 1),
              NEW r \in 0..(ConfigSize - 1), NEW extended, NEW count \in Counts,
              RootBridgeIoPciAccess(op, w, bus, function, r, extended, count)
       PROVE  reg' = reg /\ rb' = rb /\ \E c : call' = c /\ CallGood(c)
  <2>1. reg' = reg /\ rb' = rb
    BY <1>15 DEF RootBridgeIoPciAccess
  <2>2. rb.config = NoReg \/ (Placed(rb.config) /\ Exact(rb.config))
    BY DEF BridgeWindows
  <2>3. PICK c : call' = c /\ EcamCall(rb.config, c)
    BY <1>15, <2>2, ConfigAccess
  <2>4. c.by = "config"
    BY <2>3 DEF EcamCall, Call
  <2>5. CallGood(c)
    BY <2>3, <2>4 DEF CallGood
  <2>. QED  BY <2>1, <2>3, <2>5
<1>16. CASE \E op \in {"read", "write"}, w \in Widths, bus \in 0..(CellBase - 1), function \in 0..(MaxFunction + 1),
               r \in 0..(ConfigSize - 1), extended \in BOOLEAN, count \in Counts :
               RootBridgeIoPciAccess(op, w, bus, function, r, extended, count)
  BY <1>15, <1>16
<1>17. CASE RbNext
  BY <1>3, <1>4, <1>7, <1>9, <1>10, <1>13, <1>14, <1>16, <1>17, Zenon DEF RbNext
<1>18. CASE UNCHANGED allVars
  BY <1>18 DEF allVars, pciVars, vars
<1>. QED  BY <1>3, <1>8, <1>17, <1>18, Zenon DEF DtNext

LEMMA NoCallIsGood == CallGood(NoCall)
<1>1. NoCall.by = "reg"
  BY DEF NoCall
<1>. QED  BY <1>1, NoCallIsOwn DEF CallGood

\* Accesses reach what they are asked for, and nothing else: those of a driver
\* the bytes of its region at the offsets it names, wherever the ranges above
\* lead; those through a root bridge, whatever devicetree it was started from,
\* the bytes at which "ranges" has the PCI addresses, or a legacy VGA address its
\* window, or else registers of the function inside the ECAM window
\* (DtIoReadReg, DtIoCopyReg, RootBridgeIoCheckParameter, FbpRangeToReg).  For
\* devicetrees without an overflow of 128 bits, and with PCI addresses of three cells.
THEOREM AccessesExact == DtSpec /\ AddressesFit /\ PciCells => []AccessExact
<1>. DEFINE Bridge == \E b : rb = b /\ BridgeWindows(b)
            Good == \E c : call = c /\ CallGood(c)
            I == /\ RegionInv /\ GcdInv /\ OnBuses(rb) /\ PciCells
                 /\ (rb.pc # "none" => IsHostBridge) /\ Bridge /\ Good
<1>1. DtInit /\ AddressesFit /\ PciCells => I
  <2>1. SUFFICES ASSUME DtInit, AddressesFit, PciCells PROVE I
    OBVIOUS
  <2>2. RegionInv /\ GcdInv
    BY <2>1, RegionInit, GcdInit DEF DtInit, RbInit
  <2>3. rb = NoBridge /\ call = NoCall
    BY <2>1 DEF DtInit, RbInit, Init
  <2>4. OnBus(NoReg)
    BY DEF OnBus, NoReg
  <2>5. OnBuses(rb) /\ (rb.pc # "none" => IsHostBridge)
    BY <2>3, <2>4 DEF OnBuses, NoBridge
  <2>6. BridgeWindows(NoBridge)
    <3>1. \A s \in Spaces : s \in Windows
      BY DEF Windows
    <3>. QED  BY <3>1 DEF BridgeWindows, NoBridge
  <2>. QED  BY <2>1, <2>2, <2>3, <2>5, <2>6, NoCallIsGood
<1>2. I /\ [DtNext]_allVars => I'
  <2>1. SUFFICES ASSUME I, [DtNext]_allVars PROVE I'
    OBVIOUS
  <2>2. RegionInv' /\ GcdInv'
    BY <2>1, RegionStep, GcdStep
  <2>3. dt \in Blobs /\ AddressesFit /\ BridgeInv /\ BridgeWindows(rb)
        /\ (reg = NoReg \/ (Placed(reg) /\ Exact(reg)))
    BY <2>1 DEF RegionInv, GcdInv
  <2>4. OnBuses(rb')
    BY <2>1, <2>3, BusesStep
  <2>5. dt' = dt
    <3>1. Elsewhere \/ GetsProp \/ ParsesFields \/ ParsesStrings \/ ParsesRegion \/ GetsRegion
      BY <2>1, <2>3, StepKinds
    <3>. QED  BY <3>1 DEF Elsewhere, GetsProp, DtIoGetProp, ParsesFields, DtIoParseProp, ParsesStrings,
                          DtIoParsePropString, ParsesRegion, DtIoParsePropRegion, GetsRegion, DtIoGetRegion
  <2>6. PciCells' /\ (rb'.pc # "none" => IsHostBridge')
    BY <2>1, <2>5, HostStep, SameCells DEF PciCells, IsHostBridge
  <2>7. Bridge'
    <3>1. PICK b : rb' = b /\ BridgeWindows(b)
      BY <2>1, <2>3, WindowsStep
    <3>2. BridgeWindows(b)'
      BY <2>3, <2>5, <3>1, SameBridge
    <3>. QED  BY <3>1, <3>2
  <2>8. Good'
    <3>1. PICK c : call = c /\ CallGood(c)
      BY <2>1
    <3>2. \/ call' = NoCall
          \/ reg' = reg /\ rb' = rb /\ (call' = call \/ \E d : call' = d /\ CallGood(d))
      BY <2>1, <2>3, AccessStep
    <3>3. CASE call' = NoCall
      <4>1. CallGood(NoCall)'
        BY NoCallIsGood, PTL
      <4>. QED  BY <3>3, <4>1
    <3>4. ASSUME reg' = reg, rb' = rb, NEW d, call' = d, CallGood(d) PROVE Good'
      <4>1. CallGood(d)'
        BY <2>3, <2>5, <3>4, SameGood
      <4>. QED  BY <3>4, <4>1
    <3>. HIDE DEF Good
    <3>. QED  BY <3>1, <3>2, <3>3, <3>4
  <2>. QED  BY <2>2, <2>4, <2>6, <2>7, <2>8
<1>3. I => AccessExact
  <2>1. SUFFICES ASSUME I PROVE AccessExact
    OBVIOUS
  <2>2. PICK c : call = c /\ CallGood(c)
    BY <2>1
  <2>3. RegAccessExact
    <3>1. reg = NoReg \/ (Placed(reg) /\ Exact(reg))
      BY <2>1 DEF RegionInv
    <3>2. call.by = "reg" => OwnCall(reg, call)
      BY <2>2 DEF CallGood
    <3>. QED  BY <3>1, <3>2, OwnAccessExact
  <2>4. c.by \in {"io", "mem"} =>
          /\ \A cell \in c.cells : \E a \in c.asked : Served(c.by, a, cell)
          /\ \A a \in c.asked : \E cell \in c.cells : Served(c.by, a, cell)
    BY <2>2 DEF CallGood, Serves
  <2>5. c.by = "config" =>
          /\ c.asked \subseteq 0..(ConfigSize - 1)
          /\ c.cells = {<<rb.config.bus, rb.config.base + EcamAddress(c.function[1], c.function[2], r)>> : r \in c.asked}
          /\ \A cell \in c.cells : cell[2] < rb.config.base + rb.config.len
    BY <2>2 DEF CallGood, EcamCall, EcamCells
  <2>. QED  BY <2>2, <2>3, <2>4, <2>5 DEF AccessExact
<1>. QED  BY <1>1, <1>2, <1>3, PTL DEF DtSpec

-----------------------------------------------------------------------------
(* HighMemDxe: the memory of a node                                        *)

\* The k-th entry of reg: where it is on the bus above, and how long.
EntryBase(k) == Slice(dt[Device]["reg"], (AddressCells(Device) + SizeCells(Device)) * k, AddressCells(Device))
EntryLen(k) ==
  Slice(dt[Device]["reg"], (AddressCells(Device) + SizeCells(Device)) * k + AddressCells(Device), SizeCells(Device))

\* Memory has an address, and no byte of it has two CPU addresses (as it would have
\* below ranges that overlap: EntryPages is then more than what the driver is given).
MemoryNodes ==
  IsMemory =>
    /\ AddressCells(Device) > 0
    /\ \A k \in Entered : \A o \in 0..(EntryLen(k) - 1) :
         \A x, y \in Reach(Device, EntryBase(k) + o, Cpu) : x = y

\* The attributes of the k-th entry are missing, though there are attributes.
Short(k) == Has(Device, "reg-attrs") /\ Len(dt[Device]["reg-attrs"]) \div 3 <= k

\* What HighMemDxe knows of the entry it is at.
OfEntry(k, g) ==
  /\ k \in Entered /\ g.base \in Nat /\ g.len \in Nat \ {0} /\ g.base + g.len <= CpuWord
  /\ g.len = EntryLen(k)
  /\ \A o \in 0..(g.len - 1) : Reach(Device, EntryBase(k) + o, Cpu) = {g.base + o}

\* The entries that reg has.
LEMMA EntriesOfReg ==
  ASSUME dt \in Blobs, Has(Device, "reg"), NEW k \in Nat
  PROVE  There("reg", AtBegin(Device, "reg"), k) <=> k \in Entered
<1>. DEFINE cells == dt[Device]["reg"]
            w == ElemCells("reg")
<1>1. AtBegin(Device, "reg").data = cells /\ AtBegin(Device, "reg").iter = 0 /\ Len(cells) \in Nat /\ w \in Nat
  BY PropertyCells, ElementCells, Tree DEF Kinds
<1>2. Left(AtBegin(Device, "reg")) = Len(cells)
  BY <1>1 DEF Left
<1>3. There("reg", AtBegin(Device, "reg"), k) <=> w # 0 /\ ~(Len(cells) \div w <= k)
  BY <1>2 DEF There
<1>4. k \in Entered <=> w # 0 /\ k \in 0..(Len(cells) \div w - 1)
  BY DEF Entered
<1>5. w # 0 => Len(cells) \div w \in Nat
  BY <1>1, Quotient
<1>6. ASSUME w # 0, NEW n \in Nat, n = Len(cells) \div w
      PROVE  ~(Len(cells) \div w <= k) <=> k \in 0..(Len(cells) \div w - 1)
  BY <1>6
<1>. HIDE DEF w, cells
<1>. QED  BY <1>3, <1>4, <1>5, <1>6

\* Why ParseRegion does not find an entry.
LEMMA NotFoundCases ==
  ASSUME NEW kind, NEW p, NEW i, NEW fault,
         NEW r, r = ParseRegion(kind, p, i, fault), r.status = "EFI_NOT_FOUND"
  PROVE  \/ ~There(kind, p, i) \/ ~ReadAt(kind, p, i).ok
         \/ DtPropGetRegOrRangeEfiTypeAndAttrs(kind, i).status = "EFI_NOT_FOUND"
<1>. DEFINE from == EntryAt(kind, p, i)
            f == ReadAt(kind, p, i)
            cpu == EndAt(kind, p, i)
            ta == DtPropGetRegOrRangeEfiTypeAndAttrs(kind, i)
            map == MapAt(kind, p, i, fault)
            parsed == ParsedRegion(kind, from, f, cpu)
<1>. SUFFICES ASSUME There(kind, p, i), f.ok PROVE ta.status = "EFI_NOT_FOUND"
  OBVIOUS
<1>1. r = Decoded(kind, p, i, from, f, fault)
  BY DEF ParseRegion, FieldsOf, EntryAt, ReadAt, There
<1>2. Decoded(kind, p, i, from, f, fault)
      = IF cpu.bus = Cpu /\ ~ValidCpuRange(cpu, f.len) THEN ParseError(p, "EFI_UNSUPPORTED")
        ELSE IF cpu.bus # Cpu \/ f.len = 0 THEN parsed
        ELSE Typed(p, f, parsed, ta, fault)
  BY Zenon DEF Decoded, Translated, EndAt
<1>3. parsed.reg.base = cpu.base
  BY DEF ParsedRegion
<1>4. Typed(p, f, parsed, ta, fault)
      = IF ta.status # "EFI_SUCCESS" THEN ParseError(p, ta.status) ELSE MapRegion(p, parsed, map)
  BY <1>3, Zenon DEF Typed, MapAt, Wanted
<1>5. \A status : ParseError(p, status).status = status
  BY DEF ParseError
<1>6. parsed.status = "EFI_SUCCESS" /\ [parsed EXCEPT !.gcd = map.gcd].status = "EFI_SUCCESS"
  BY DEF ParsedRegion
<1>7. [ParseError(p, "EFI_DEVICE_ERROR") EXCEPT !.gcd = map.gcd].status = "EFI_DEVICE_ERROR"
  BY DEF ParseError
<1>8. MapRegion(p, parsed, map).status \in {"EFI_SUCCESS", "EFI_DEVICE_ERROR"}
  <2>1. MapRegion(p, parsed, map) \in {[parsed EXCEPT !.gcd = map.gcd], [ParseError(p, "EFI_DEVICE_ERROR") EXCEPT !.gcd = map.gcd]}
    BY DEF MapRegion
  <2>. HIDE DEF parsed, map
  <2>. QED  BY <1>6, <1>7, <2>1
<1>9. "EFI_NOT_FOUND" \notin {"EFI_SUCCESS", "EFI_DEVICE_ERROR", "EFI_UNSUPPORTED"}
  OBVIOUS
<1>. HIDE DEF from, f, cpu, ta, map, parsed
<1>10. r = ParseError(p, "EFI_UNSUPPORTED") \/ r = parsed \/ r = ParseError(p, ta.status) \/ r = MapRegion(p, parsed, map)
  BY <1>1, <1>2, <1>4, Zenon
<1>11. CASE r = ParseError(p, ta.status)
  BY <1>5, <1>11
<1>12. CASE r = ParseError(p, "EFI_UNSUPPORTED") \/ r = parsed \/ r = MapRegion(p, parsed, map)
  BY <1>5, <1>6, <1>8, <1>9, <1>12
<1>. QED  BY <1>10, <1>11, <1>12

\* The loop of ProcessMemoryRanges ends behind the last entry, or where the
\* attributes end.
LEMMA NoMoreEntries ==
  ASSUME dt \in Blobs, IsMemory, MemoryNodes, NEW k \in Nat, NEW fault,
         NEW r, r = GetRegion("reg", k, fault), r.status = "EFI_NOT_FOUND", NEW j \in Entered
  PROVE  j < k \/ Short(j)
<1>. DEFINE cells == dt[Device]["reg"]
            w == ElemCells("reg")
            p == AtBegin(Device, "reg")
            a == AddressCells(Device)
            s == SizeCells(Device)
<1>1. Has(Device, "reg") /\ j \in Nat
  BY DEF Entered
<1>2. r = ParseRegion("reg", p, k, fault)
  BY <1>1 DEF GetRegion
<1>3. Over("reg", p) /\ a \in Nat /\ s \in Nat /\ w = a + s /\ a > 0
  <2>1. Over("reg", p)
    BY <1>1, PropertyCells, Tree DEF Over, Kinds
  <2>2. a \in Nat /\ s \in Nat
    BY CellCounts, Tree
  <2>3. w = a + s
    BY DEF ElemCells
  <2>4. a > 0
    BY DEF MemoryNodes
  <2>. QED  BY <2>1, <2>2, <2>3, <2>4
<1>. HIDE DEF p
<1>4. CASE ~There("reg", p, k)
  <2>1. k \notin Entered
    BY <1>1, <1>4, EntriesOfReg DEF p
  <2>2. ASSUME k <= j PROVE FALSE
    <3>1. w # 0 /\ j \in 0..(Len(cells) \div w - 1) /\ Entered = 0..(Len(cells) \div w - 1)
      BY <1>1 DEF Entered
    <3>2. Len(cells) \div w \in Nat
      <4>1. Len(cells) \in Nat
        BY <1>1, PropertyCells, Tree
      <4>. HIDE DEF w, cells
      <4>. QED  BY <1>3, <3>1, <4>1, Quotient
    <3>. HIDE DEF w, cells
    <3>3. k \in 0..(Len(cells) \div w - 1)
      BY <2>2, <3>1, <3>2
    <3>. QED  BY <2>1, <3>1, <3>3
  <2>. QED  BY <1>1, <2>2
<1>5. CASE There("reg", p, k) /\ ~ReadAt("reg", p, k).ok
  <2>1. PICK from : from = EntryAt("reg", p, k)
    OBVIOUS
  <2>2. Over("reg", from) /\ from.iter + w <= Len(from.data)
    BY <1>3, <1>5, <2>1, EntryInside DEF Kinds
  <2>3. RegFields(Device, from).ok
    <3>1. Inner(from) /\ a > 0 /\ from.iter + (a + s) <= Len(from.data)
      BY <1>3, <2>2 DEF Over
    <3>2. RegFields(Device, from) =
             [ok |-> TRUE, child |-> 0, bus |-> Slice(from.data, from.iter, a),
              len |-> Slice(from.data, from.iter + a, s), p |-> [from EXCEPT !.iter = from.iter + (a + s)]]
      BY <3>1, RegFieldsAt
    <3>. QED  BY <3>2
  <2>4. ReadAt("reg", p, k) = RegFields(Device, from)
    BY <2>1 DEF ReadAt, FieldsOf
  <2>. QED  BY <1>5, <2>3, <2>4
<1>6. CASE DtPropGetRegOrRangeEfiTypeAndAttrs("reg", k).status = "EFI_NOT_FOUND"
  <2>. DEFINE attrs == dt[Device]["reg-attrs"]
              ta == DtPropGetRegOrRangeEfiTypeAndAttrs("reg", k)
  <2>1. ta.status = IF ~Has(Device, "reg-attrs") THEN "EFI_SUCCESS"
                    ELSE IF Len(attrs) \div 3 <= k THEN "EFI_NOT_FOUND"
                    ELSE IF attrs[3 * k + 1] \notin DOMAIN RegTypes THEN "EFI_INVALID_PARAMETER"
                    ELSE "EFI_SUCCESS"
    BY DEF DtPropGetRegOrRangeEfiTypeAndAttrs
  <2>. HIDE DEF ta
  <2>2. Has(Device, "reg-attrs") /\ Len(attrs) \div 3 <= k
    BY <1>6, <2>1 DEF ta
  <2>3. Len(attrs) \div 3 \in Nat
    <3>1. Len(attrs) \in Nat
      BY <2>2, PropertyCells, Tree
    <3>. HIDE DEF attrs
    <3>. QED  BY <3>1, Quotient
  <2>4. k <= j => Short(j)
    <3>. HIDE DEF attrs
    <3>1. k <= j => Len(attrs) \div 3 <= j
      BY <1>1, <2>2, <2>3
    <3>. QED  BY <2>2, <3>1 DEF Short, attrs
  <2>. QED  BY <1>1, <2>4
<1>. QED  BY <1>2, <1>4, <1>5, <1>6, NotFoundCases

\* A region of CPU addresses that is not empty is all of its entry.
LEMMA EntryGot ==
  ASSUME dt \in Blobs, AddressesFit, IsMemory, MemoryNodes, NEW k \in Nat, NEW fault,
         NEW r, r = GetRegion("reg", k, fault), r.ok, r.reg.bus = Cpu
  PROVE  /\ k \in Entered /\ r.reg.len = EntryLen(k)
         /\ r.reg.len # 0 => OfEntry(k, r.reg)
<1>. DEFINE p == AtBegin(Device, "reg")
            g == r.reg
            at == (AddressCells(Device) + SizeCells(Device)) * k
<1>1. Has(Device, "reg")
  <2>1. NotParsed(NoProp).ok = FALSE
    BY DEF NotParsed, ParseError
  <2>. QED  BY <2>1 DEF GetRegion
<1>2. r = ParseRegion("reg", p, k, fault)
  BY <1>1 DEF GetRegion
<1>3. Exact(g) /\ Placed(g)
  BY GotExactly DEF Kinds
<1>4. There("reg", p, k) /\ g = RegionAt("reg", p, k)
  <2>1. Outcome("reg", p, k, fault, r)
    BY <1>2, RegionCases
  <2>. QED  BY <2>1, Zenon DEF Outcome
<1>5. k \in Entered
  BY <1>1, <1>4, EntriesOfReg
<1>6. g.kind = "reg" /\ g.at = at
  <2>1. ElemCells("reg") = AddressCells(Device) + SizeCells(Device)
    BY DEF ElemCells
  <2>2. p.iter = 0
    BY DEF AtBegin
  <2>3. EntryAt("reg", p, k).iter = 0 + ElemCells("reg") * k
    BY <2>2 DEF EntryAt, AtBegin
  <2>4. ElemCells("reg") * k \in Nat
    BY ElementCells DEF Kinds
  <2>5. g.kind = "reg" /\ g.at = EntryAt("reg", p, k).iter
    <3>1. g = RegionAt("reg", p, k)
      BY <1>4
    <3>. HIDE DEF g
    <3>. QED  BY <3>1 DEF RegionAt
  <2>. QED  BY <2>1, <2>3, <2>4, <2>5
<1>7. g.busBase = EntryBase(k) /\ g.len = EntryLen(k)
  <2>1. at + 0 = at
    <3>1. AddressCells(Device) + SizeCells(Device) \in Nat
      BY CellCounts, Tree
    <3>. QED  BY <3>1
  <2>. HIDE DEF g, at
  <2>2. ChildCells(g.kind) = 0 /\ LengthCells(g.kind) = SizeCells(Device)
    BY <1>6 DEF ChildCells, LengthCells
  <2>. QED  BY <1>3, <1>6, <2>1, <2>2 DEF Exact, EntryBase, EntryLen, at
<1>8. g.base \in Nat /\ g.len \in Nat /\ g.base + g.len <= CpuWord
  BY <1>3 DEF Exact, Placed
<1>9. \A o \in 0..(g.len - 1) : Reach(Device, EntryBase(k) + o, Cpu) = {g.base + o}
  <2>. SUFFICES ASSUME NEW o \in 0..(g.len - 1) PROVE Reach(Device, EntryBase(k) + o, Cpu) = {g.base + o}
    OBVIOUS
  <2>1. g.base + o \in Reach(Device, EntryBase(k) + o, Cpu)
    <3>1. g.base + o \in Reach(Device, g.busBase + o, g.bus)
      BY <1>3 DEF Exact
    <3>. QED  BY <1>7, <3>1
  <2>2. \A x, y \in Reach(Device, EntryBase(k) + o, Cpu) : x = y
    BY <1>5, <1>7 DEF MemoryNodes
  <2>. QED  BY <2>1, <2>2
<1>. HIDE DEF g
<1>10. g.len # 0 => OfEntry(k, g)
  BY <1>5, <1>7, <1>8, <1>9 DEF OfEntry
<1>. QED  BY <1>5, <1>7, <1>10 DEF g

\* The pages that an access to all bytes touches are those of PagesOf, but for the
\* last page.
LEMMA PagesTouched ==
  ASSUME NEW g, g.base \in Nat, g.len \in Nat \ {0}, g.base + g.len <= CpuWord
  PROVE  /\ PagesOf(g.base, g.len) \subseteq Touches(g)
         /\ CpuPages - 1 \in Touches(g) \/ Touches(g) \subseteq PagesOf(g.base, g.len)
<1>. DEFINE P == PageSize
            N == CpuPages
            b == g.base
            n == g.len
            x == b + n
            z == (x % CpuWord) + (P - 1)
            e == z \div P
<1>1. /\ P \in Nat /\ P > 0 /\ N \in Nat /\ CpuWord \in Nat /\ CpuWord > 0 /\ b \in Nat /\ n \in Nat /\ n > 0
      /\ x \in Nat /\ x = b + n /\ x <= CpuWord
  BY PagesAreNumbers, Sizes
<1>2. PagesOf(b, n) = {q \in 0..(N - 1) : b \div P <= q /\ q < e % N}
  BY DEF PagesOf
<1>3. Touches(g) = {(b + o) \div P : o \in 0..(n - 1)}
  BY DEF Touches
<1>4. CpuPages - 1 \in Touches(g) \/ Touches(g) \subseteq PagesOf(b, n)
  <2>1. CASE (b + n - 1) \div P = N - 1
    <3>1. n - 1 \in 0..(n - 1) /\ b + (n - 1) = b + n - 1
      BY <1>1
    <3>. HIDE DEF b, n, P, N
    <3>2. N - 1 \in Touches(g)
      BY <1>3, <2>1, <3>1
    <3>. QED  BY <3>2 DEF N
  <2>2. CASE (b + n - 1) \div P # N - 1
    <3>1. \A o \in 0..(n - 1) : (b + o) \div P \in PagesOf(b, n)
      BY <2>2, BytesInPages
    <3>. HIDE DEF b, n, P, N
    <3>. QED  BY <1>3, <3>1
  <2>. QED  BY <2>1, <2>2
<1>5. x % CpuWord \in 0..x
  <2>. DEFINE y == x % CpuWord
  <2>1. x \in Int /\ x >= 0 /\ CpuWord \in Nat \ {0}
    BY <1>1
  <2>. HIDE DEF x
  <2>2. y \in 0..(CpuWord - 1) /\ y <= x
    BY <2>1, Remainder
  <2>. HIDE DEF y
  <2>3. y \in 0..x
    BY <2>1, <2>2
  <2>. QED  BY <2>3 DEF y
<1>. HIDE DEF P, N, b, n, x
<1>6. z \in Nat /\ e \in Nat /\ P * e <= z /\ z <= x + (P - 1)
  <2>1. z \in Nat /\ z <= x + (P - 1)
    BY <1>1, <1>5
  <2>. HIDE DEF z
  <2>. QED  BY <1>1, <2>1, Quotient
<1>7. ASSUME NEW q \in 0..(N - 1), b \div P <= q, q < e % N PROVE q \in Touches(g)
  <2>1. q \in Nat /\ N > 0
    BY <1>1, <1>7
  <2>2. e % N <= e /\ e % N \in Nat
    <3>. DEFINE y == e % N
    <3>1. e \in Int /\ e >= 0 /\ N \in Nat \ {0}
      BY <1>1, <1>6, <2>1
    <3>. HIDE DEF e
    <3>2. y \in 0..(N - 1) /\ y <= e
      BY <3>1, Remainder
    <3>. HIDE DEF y
    <3>3. y <= e /\ y \in Nat
      BY <3>1, <3>2
    <3>. QED  BY <3>3 DEF y
  <2>. HIDE DEF e, z
  <2>3. q + 1 <= e
    BY <1>6, <1>7, <2>1, <2>2
  <2>4. P * q + P <= P * e /\ P * q \in Nat /\ P * e \in Nat
    <3>1. P * (q + 1) <= P * e
      BY <1>1, <1>6, <2>1, <2>3
    <3>2. P * (q + 1) = P * q + P
      BY <1>1, <2>1
    <3>3. P * q \in Nat /\ P * e \in Nat
      BY <1>1, <1>6, <2>1
    <3>. QED  BY <3>1, <3>2, <3>3
  <2>5. P * q <= x - 1
    BY <1>1, <1>6, <2>4
  <2>6. CASE b <= P * q
    <3>1. P * q - b \in 0..(n - 1) /\ b + (P * q - b) = P * q
      BY <1>1, <2>4, <2>5, <2>6
    <3>2. (P * q) \div P = q
      <4>. DEFINE d == (P * q) \div P
      <4>1. d \in Nat /\ P * d <= P * q /\ P * q < P * d + P
        BY <1>1, <2>4, Quotient
      <4>. HIDE DEF d
      <4>2. ~(d < q)
        <5>1. d + 1 <= q => P * (d + 1) <= P * q
          BY <1>1, <2>1, <4>1
        <5>2. P * (d + 1) = P * d + P /\ P * d \in Nat
          BY <1>1, <4>1
        <5>. QED  BY <1>1, <2>1, <2>4, <4>1, <5>1, <5>2
      <4>3. ~(q < d)
        <5>1. q + 1 <= d => P * (q + 1) <= P * d
          BY <1>1, <2>1, <4>1
        <5>2. P * (q + 1) = P * q + P /\ P * d \in Nat
          BY <1>1, <2>1, <4>1
        <5>. QED  BY <1>1, <2>1, <2>4, <4>1, <5>1, <5>2
      <4>4. d = q
        BY <2>1, <4>1, <4>2, <4>3
      <4>. QED  BY <4>4 DEF d
    <3>3. (b + (P * q - b)) \div P = q
      BY <3>1, <3>2
    <3>. QED  BY <1>3, <3>1, <3>3
  <2>7. CASE P * q < b
    <3>1. b \div P \in Nat /\ b < P * (b \div P) + P
      BY <1>1, Quotient
    <3>2. q <= b \div P
      <4>. DEFINE d == b \div P
      <4>1. d \in Nat /\ b < P * d + P
        BY <3>1
      <4>. HIDE DEF d
      <4>2. ~(d + 1 <= q)
        <5>1. d + 1 <= q => P * (d + 1) <= P * q
          BY <1>1, <2>1, <4>1
        <5>2. P * (d + 1) = P * d + P /\ P * d \in Nat
          BY <1>1, <4>1
        <5>. QED  BY <1>1, <2>4, <2>7, <4>1, <5>1, <5>2
      <4>3. q <= d
        BY <2>1, <4>1, <4>2
      <4>. QED  BY <4>3 DEF d
    <3>3. b \div P = q
      BY <1>7, <2>1, <3>1, <3>2
    <3>4. b + 0 = b /\ 0 \in 0..(n - 1)
      BY <1>1
    <3>. QED  BY <1>3, <3>3, <3>4
  <2>. QED  BY <1>1, <2>4, <2>6, <2>7
<1>8. PagesOf(b, n) \subseteq Touches(g)
  <2>. HIDE DEF e, z
  <2>. QED  BY <1>2, <1>7
<1>. QED  BY <1>4, <1>8 DEF b, n

\* The pages of an entry are those of its region.
LEMMA PagesOfEntry ==
  ASSUME NEW k, NEW g, OfEntry(k, g)
  PROVE  EntryPages(k) = Touches(g)
<1>. DEFINE bytes == UNION {Reach(Device, EntryBase(k) + o, Cpu) : o \in 0..(EntryLen(k) - 1)}
<1>1. EntryPages(k) = {x \div PageSize : x \in bytes}
  BY DEF EntryPages, EntryBase, EntryLen
<1>2. bytes = {g.base + o : o \in 0..(g.len - 1)}
  BY DEF OfEntry
<1>. HIDE DEF bytes
<1>. QED  BY <1>1, <1>2 DEF Touches

\* Memory that can be cached.
IsRam(page) == page.type = SystemMemory /\ page.attrs = WB
RamAt(k, map) == AtTop(k) \/ \A pg \in EntryPages(k) : pg \in Known /\ IsRam(map[pg])

\* What SetRegType asks for.
MakesRam(fault) == [type |-> SystemMemory, attrs |-> WB, keep |-> FALSE, fault |-> fault]

LEMMA RamWanted ==
  ASSUME NEW fault
  PROVE  /\ WantedGood(MakesRam(fault)) /\ SystemMemory # "NonExistent" /\ WB # 0
         /\ SystemMemory # Mmio
<1>1. SystemMemory \in Types /\ WB \in 1..(CpuWord - 1) /\ SystemMemory # Mmio
  BY MemoryAssumption DEF Types
<1>2. SystemMemory # "NonExistent"
  BY <1>1, BlobsAssumption
<1>3. WB \in 0..(CpuWord - 1) /\ WB # 0
  BY <1>1, Sizes
<1>. QED  BY <1>1, <1>2, <1>3 DEF MakesRam, WantedGood

\* A driver that only gets a region leaves memory alone.
LEMMA RamKept ==
  ASSUME NEW map, MapKept(map, TRUE), NEW pg \in Known, IsRam(gcd[pg])
  PROVE  map[pg] = gcd[pg]
BY RamWanted DEF MapKept, Preserved, IsRam

\* Making memory of it leaves memory alone.
LEMMA RamStays ==
  ASSUME NEW pg \in Known, IsRam(gcd[pg]), NEW fault, NEW new, Changed(pg, MakesRam(fault), new)
  PROVE  new = gcd[pg]
<1>. DEFINE to == MakesRam(fault)
<1>1. PageOf(pg) = gcd[pg]
  BY DEF PageOf
<1>2. to.type = SystemMemory /\ to.attrs = WB /\ to.keep = FALSE
  BY DEF MakesRam
<1>. HIDE DEF to
<1>3. ~HaveConflict(pg, to.type, to.attrs) /\ PageOf(pg).type # "NonExistent" /\ PageOf(pg).attrs # 0
  BY <1>1, <1>2, RamWanted DEF HaveConflict, IsRam
<1>4. ~Overrides(pg, to.type, to.attrs, to.keep)
  BY <1>3 DEF Overrides
<1>5. ~Added(pg, to) /\ ~AttrsSet(pg, to) /\ ~InUse(pg, to)
  BY <1>3, <1>4 DEF Added, AttrsSet, InUse
<1>6. Applied(pg, to) = gcd[pg]
  BY <1>1, <1>5 DEF Applied
<1>. QED  BY <1>5, <1>6 DEF Changed, to

\* Where SetRegType succeeds there is memory.
LEMMA RamMade ==
  ASSUME NEW pg \in Known, GoodPage(gcd[pg]), NEW fault
  PROVE  IsRam(Applied(pg, MakesRam(fault)))
<1>. DEFINE to == MakesRam(fault)
<1>1. PageOf(pg) = gcd[pg] /\ gcd[pg] \in Page
  BY DEF PageOf, GoodPage
<1>2. to.type = SystemMemory /\ to.attrs = WB /\ to.keep = FALSE
  BY DEF MakesRam
<1>. HIDE DEF to
<1>3. Overrides(pg, to.type, to.attrs, to.keep) <=> HaveConflict(pg, to.type, to.attrs)
  BY <1>2 DEF Overrides
<1>4. CASE Added(pg, to)
  <2>1. Applied(pg, to) = [type |-> to.type, attrs |-> to.attrs, used |-> FALSE]
    BY <1>4 DEF Applied, AttrsSet
  <2>2. Applied(pg, to).type = SystemMemory /\ Applied(pg, to).attrs = WB
    BY <1>2, <2>1
  <2>. QED  BY <2>2 DEF IsRam, to
<1>5. CASE ~Added(pg, to)
  <2>1. /\ gcd[pg].type # "NonExistent" /\ ~HaveConflict(pg, to.type, to.attrs)
        /\ gcd[pg].type = SystemMemory /\ gcd[pg].attrs \in {0, WB}
    BY <1>1, <1>2, <1>3, <1>5 DEF Added, HaveConflict
  <2>2. Applied(pg, to) = IF gcd[pg].attrs = 0 THEN [gcd[pg] EXCEPT !.attrs = WB] ELSE gcd[pg]
    BY <1>1, <1>2, <1>5, <2>1 DEF Applied, AttrsSet
  <2>3. [gcd[pg] EXCEPT !.attrs = WB].type = gcd[pg].type /\ [gcd[pg] EXCEPT !.attrs = WB].attrs = WB
    BY <1>1 DEF Page
  <2>4. Applied(pg, to).type = SystemMemory /\ Applied(pg, to).attrs = WB
    BY <2>1, <2>2, <2>3
  <2>. QED  BY <2>4 DEF IsRam, to
<1>. QED  BY <1>4, <1>5

\* A page keeps its type, or gets the one wanted, or is gone.
LEMMA TypeOfChanged ==
  ASSUME NEW pg \in Known, GoodPage(gcd[pg]), NEW to, NEW new, Changed(pg, to, new)
  PROVE  new.type \in {gcd[pg].type, to.type, "NonExistent"}
<1>. DEFINE old == gcd[pg]
<1>1. PageOf(pg) = old /\ old \in Page
  BY DEF PageOf, GoodPage
<1>2. [old EXCEPT !.attrs = to.attrs].type = old.type
  BY <1>1 DEF Page
<1>3. Applied(pg, to) \in {old, [type |-> to.type, attrs |-> to.attrs, used |-> FALSE], [old EXCEPT !.attrs = to.attrs]}
  BY <1>1, Zenon DEF Applied
<1>4. Applied(pg, to).type \in {old.type, to.type}
  <2>1. [type |-> to.type, attrs |-> to.attrs, used |-> FALSE].type = to.type
    OBVIOUS
  <2>2. \/ Applied(pg, to) = old \/ Applied(pg, to) = [type |-> to.type, attrs |-> to.attrs, used |-> FALSE]
        \/ Applied(pg, to) = [old EXCEPT !.attrs = to.attrs]
    BY <1>3, Zenon
  <2>. QED  BY <1>2, <2>1, <2>2, Zenon
<1>5. [Applied(pg, to) EXCEPT !.attrs = 0].type = Applied(pg, to).type
  <2>1. \A page : page = old \/ page = [type |-> to.type, attrs |-> to.attrs, used |-> FALSE]
                    \/ page = [old EXCEPT !.attrs = to.attrs] => [page EXCEPT !.attrs = 0].type = page.type
    BY <1>1 DEF Page
  <2>. QED  BY <1>3, <2>1
<1>6. NonExistent.type = "NonExistent"
  BY DEF NonExistent
<1>7. Half(pg, to) \in {old, NonExistent, [Applied(pg, to) EXCEPT !.attrs = 0]}
  BY <1>1, Zenon DEF Half
<1>8. Half(pg, to).type \in {old.type, to.type, "NonExistent"}
  <2>. HIDE DEF old
  <2>. QED  BY <1>4, <1>5, <1>6, <1>7
<1>9. new = old \/ new = Applied(pg, to) \/ new = Half(pg, to)
  BY DEF Changed
<1>. HIDE DEF old
<1>10. new.type \in {old.type, to.type, "NonExistent"}
  BY <1>4, <1>8, <1>9
<1>. QED  BY <1>10 DEF old

\* Without attributes in the devicetree a region is made no memory.
LEMMA NoRamParsed ==
  ASSUME dt \in Blobs, MapInv, ~Has(Device, "reg-attrs"), NEW p, NEW i, NEW fault,
         NEW r, r = ParseRegion("reg", p, i, fault), NEW pg \in Known, r.gcd[pg].type = SystemMemory
  PROVE  gcd[pg].type = SystemMemory
<1>. DEFINE ta == DtPropGetRegOrRangeEfiTypeAndAttrs("reg", i)
            to == Wanted(ta, TRUE, fault)
            map == MapAt("reg", p, i, fault)
<1>1. r.gcd = gcd \/ r.gcd = map.gcd
  <2>1. Outcome("reg", p, i, fault, r)
    BY RegionCases
  <2>. QED  BY <2>1, Zenon DEF Outcome
<1>2. to.type = Mmio
  <2>1. ta.type = Mmio
    BY DEF DtPropGetRegOrRangeEfiTypeAndAttrs
  <2>. HIDE DEF ta
  <2>. QED  BY <2>1 DEF Wanted
<1>3. Changed(pg, to, map.gcd[pg])
  <2>1. map = ApplyGcdTypeAndAttrs(EndAt("reg", p, i).base, ReadAt("reg", p, i).len, to)
    BY DEF MapAt
  <2>. HIDE DEF to, map
  <2>. QED  BY <2>1, MapChanges
<1>. HIDE DEF to, map
<1>4. map.gcd[pg].type \in {gcd[pg].type, Mmio, "NonExistent"}
  BY <1>2, <1>3, TypeOfChanged DEF MapInv
<1>. QED  BY <1>1, <1>4, RamWanted

\* What is outside a region is left alone.
LEMMA OutsidePages ==
  ASSUME NEW base, NEW len, NEW to, NEW pg \in Known, pg \notin PagesOf(base, len)
  PROVE  ApplyGcdTypeAndAttrs(base, len, to).gcd[pg] = gcd[pg]
<1>. DEFINE pages == PagesOf(base, len)
            failing == {s \in Descriptors(pages) : Fails(s, to)}
<1>1. ApplyGcdTypeAndAttrs(base, len, to) = ApplyUpTo(pages, Descriptors(pages), failing, to)
  BY DEF ApplyGcdTypeAndAttrs, ApplyTo
<1>. HIDE DEF pages, failing
<1>2. ApplyUpTo(pages, Descriptors(pages), failing, to).gcd[pg] = gcd[pg]
  BY DEF ApplyUpTo, pages
<1>. QED  BY <1>1, <1>2

\* The type that SetRegType finds is that of a page of the region.
LEMMA LastTypeFound ==
  ASSUME NEW base, NEW len, NEW old \in LastType(PagesOf(base, len)), PagesOf(base, len) # {}
  PROVE  \E pg \in PagesOf(base, len) : old = PageOf(pg).type
<1>. DEFINE pages == PagesOf(base, len)
            last == CHOOSE pg \in pages : \A q \in pages : q <= pg
            N == CpuPages
<1>1. N \in Nat /\ \A pg \in pages : pg \in 0..(N - 1)
  BY PagesAreNumbers DEF PagesOf
<1>. HIDE DEF pages, N
<1>2. \E pg \in pages : \A q \in pages : q <= pg
  <2>. DEFINE below == {N - pg : pg \in pages}
  <2>1. below \in SUBSET Nat /\ below # {}
    <3>1. \A pg \in pages : N - pg \in Nat
      BY <1>1
    <3>2. pages # {}
      BY DEF pages
    <3>. QED  BY <3>1, <3>2
  <2>2. PICK m \in below : \A n \in below : m <= n
    <3>. HIDE DEF below
    <3>. QED  BY <2>1, Least
  <2>3. PICK pg \in pages : m = N - pg
    BY <2>2
  <2>4. \A q \in pages : N - pg <= N - q
    BY <2>2, <2>3
  <2>5. \A q \in pages : q <= pg
    BY <1>1, <2>3, <2>4
  <2>. QED  BY <2>3, <2>5
<1>3. last \in pages
  BY <1>2
<1>4. old = PageOf(last).type
  BY DEF LastType, pages
<1>. HIDE DEF last
<1>. QED  BY <1>3, <1>4 DEF pages

\* Start is in its loop; the entries it is done with.
Going(h) == h.pc \in {"ranges", "type", "cpu"}
Passed(h, j) == j < h.index \/ (h.pc = "cpu" /\ j = h.index)
AloneSince(k, before) ==
  /\ \A pg \in EntryPages(k) : before[pg].type # SystemMemory
  /\ \A j \in Entered \ {k} : EntryPages(j) \cap EntryPages(k) = {}
  /\ ~Has(Device, "reg-attrs")
Usable(k, map, prot, before) ==
  RamAt(k, map) /\ (AtTop(k) \/ (AloneSince(k, before) => EntryPages(k) \subseteq prot))

\* The inductive invariant: of the entry Start is at, of those it is done with, and
\* of what has become memory since it began.
NodeInv(h, map, prot) ==
  /\ h.pc \in {"stopped", "ranges", "type", "cpu", "started"}
  /\ h.pc \in {"type", "cpu"} => OfEntry(h.index, h.region)
  /\ h.pc = "cpu" => RamAt(h.index, map)
  /\ Going(h) => \A k \in Entered : k < h.index => Usable(k, map, prot, h.before)
  /\ h.pc = "started" => \A k \in Entered : Short(k) \/ Usable(k, map, prot, h.before)
  /\ Going(h) /\ ~Has(Device, "reg-attrs") =>
       \A pg \in Known : map[pg].type = SystemMemory =>
         h.before[pg].type = SystemMemory \/ \E j \in Entered : Passed(h, j) /\ pg \in EntryPages(j)
  /\ prot \subseteq UNION {EntryPages(k) : k \in Entered}

\* Entries are numbered.
LEMMA EnteredNumbers == Entered \subseteq Nat
BY DEF Entered

\* What memory stays, stays usable.
LEMMA StillUsable ==
  ASSUME NEW map, \A pg \in Known : IsRam(gcd[pg]) => IsRam(map[pg]),
         NEW prot, NEW more, prot \subseteq more, NEW before, NEW k
  PROVE  /\ RamAt(k, gcd) => RamAt(k, map)
         /\ Usable(k, gcd, prot, before) => Usable(k, map, more, before)
<1>1. RamAt(k, gcd) => RamAt(k, map)
  BY DEF RamAt
<1>. QED  BY <1>1 DEF Usable

\* Once Start has given up, nothing but the protected pages is left.
LEMMA GivenUp ==
  ASSUME MemoryInv, GiveUp, NEW map, NEW prot, prot \subseteq UNION {EntryPages(k) : k \in Entered}
  PROVE  NodeInv(hm', map, prot)
<1>1. hm'.pc = "stopped"
  BY DEF MemoryInv, GiveUp
<1>. QED  BY <1>1 DEF NodeInv, Going

\* The next entry: all is well if the one Start was at is.
LEMMA NextEntry ==
  ASSUME MemoryInv, NextRange, NEW map, NEW prot, prot \subseteq UNION {EntryPages(k) : k \in Entered},
         \A k \in Entered : k < hm.index => Usable(k, map, prot, hm.before),
         hm.index \in Entered => Usable(hm.index, map, prot, hm.before),
         ~Has(Device, "reg-attrs") =>
           \A pg \in Known : map[pg].type = SystemMemory =>
             \/ hm.before[pg].type = SystemMemory
             \/ \E j \in Entered : (j < hm.index \/ j = hm.index) /\ pg \in EntryPages(j)
  PROVE  NodeInv(hm', map, prot)
<1>1. PICK n \in Nat : n = hm.index + 1 /\ hm.index \in Nat
  BY DEF MemoryInv
<1>2. hm' = [hm EXCEPT !.pc = "ranges", !.index = n, !.region = NoReg]
  BY <1>1 DEF NextRange
<1>3. hm'.pc = "ranges" /\ hm'.index = n /\ hm'.before = hm.before
  BY <1>2 DEF MemoryInv
<1>4. \A j \in Entered : j < n <=> (j < hm.index \/ j = hm.index)
  BY <1>1, EnteredNumbers
<1>5. \A k \in Entered : k < n => Usable(k, map, prot, hm.before)
  BY <1>4
<1>6. ASSUME ~Has(Device, "reg-attrs"), NEW pg \in Known, map[pg].type = SystemMemory,
             hm.before[pg].type # SystemMemory
      PROVE  \E j \in Entered : Passed(hm', j) /\ pg \in EntryPages(j)
  <2>1. PICK j \in Entered : (j < hm.index \/ j = hm.index) /\ pg \in EntryPages(j)
    BY <1>6
  <2>2. Passed(hm', j)
    BY <1>3, <1>4, <2>1 DEF Passed
  <2>. QED  BY <2>1, <2>2
<1>. QED  BY <1>3, <1>5, <1>6, Zenon DEF NodeInv, Going

\* DriverStart.
LEMMA StartOfNode ==
  ASSUME MemoryInv, NodeInv(hm, gcd, protected), DriverStart
  PROVE  NodeInv(hm', gcd', protected')
<1>1. gcd' = gcd /\ protected' = protected /\ hm' = [hm EXCEPT !.pc = "ranges", !.index = 0, !.before = gcd]
  BY DEF DriverStart
<1>2. hm'.pc = "ranges" /\ hm'.index = 0 /\ hm'.before = gcd
  BY <1>1 DEF MemoryInv
<1>3. \A k \in Entered : ~(k < 0)
  BY EnteredNumbers
<1>4. protected \subseteq UNION {EntryPages(k) : k \in Entered}
  BY DEF NodeInv
<1>. QED  BY <1>1, <1>2, <1>3, <1>4 DEF NodeInv, Going

\* ProcessMemoryRanges.
LEMMA RangeOfNode ==
  ASSUME dt \in Blobs, AddressesFit, IsMemory, MemoryNodes, MapInv, MemoryInv,
         NodeInv(hm, gcd, protected), NEW fault, ProcessMemoryRanges(fault)
  PROVE  NodeInv(hm', gcd', protected')
<1>1. PICK r : r = GetRegion("reg", hm.index, fault)
  OBVIOUS
<1>2. /\ hm.pc = "ranges" /\ gcd' = r.gcd /\ protected' = protected
      /\ \/ r.status = "EFI_NOT_FOUND" /\ hm' = [hm EXCEPT !.pc = "started"]
         \/ r.ok /\ r.reg.bus = Cpu /\ r.reg.len = 0 /\ NextRange
         \/ r.ok /\ r.reg.bus = Cpu /\ r.reg.len # 0 /\ hm' = [hm EXCEPT !.pc = "type", !.region = r.reg]
         \/ GiveUp
  BY <1>1, Zenon DEF ProcessMemoryRanges
<1>3. hm.index \in Nat
  BY DEF MemoryInv
<1>4. MapKept(gcd', TRUE) /\ (~Has(Device, "reg-attrs") =>
         \A pg \in Known : gcd'[pg].type = SystemMemory => gcd[pg].type = SystemMemory)
  <2>1. CASE Has(Device, "reg")
    <3>1. r = ParseRegion("reg", AtBegin(Device, "reg"), hm.index, fault)
      BY <1>1, <2>1 DEF GetRegion
    <3>2. MapKept(r.gcd, TRUE)
      BY <1>3, <3>1, ParsedMap DEF Kinds
    <3>3. ~Has(Device, "reg-attrs") =>
             \A pg \in Known : r.gcd[pg].type = SystemMemory => gcd[pg].type = SystemMemory
      BY <3>1, NoRamParsed
    <3>. QED  BY <1>2, <3>2, <3>3
  <2>2. CASE ~Has(Device, "reg")
    <3>1. r.gcd = gcd
      BY <1>1, <2>2 DEF GetRegion, NotParsed, ParseError
    <3>. QED  BY <1>2, <3>1, MapUntouched
  <2>. QED  BY <2>1, <2>2
<1>5. \A pg \in Known : IsRam(gcd[pg]) => IsRam(gcd'[pg])
  BY <1>4, RamKept
<1>6. /\ \A k \in Entered : k < hm.index => Usable(k, gcd, protected, hm.before)
      /\ ~Has(Device, "reg-attrs") =>
           \A pg \in Known : gcd[pg].type = SystemMemory =>
             hm.before[pg].type = SystemMemory \/ \E j \in Entered : Passed(hm, j) /\ pg \in EntryPages(j)
      /\ protected \subseteq UNION {EntryPages(k) : k \in Entered}
  BY <1>2 DEF NodeInv, Going
<1>7. \A k \in Entered : k < hm.index => Usable(k, gcd', protected, hm.before)
  BY <1>5, <1>6, StillUsable
<1>8. ASSUME ~Has(Device, "reg-attrs"), NEW pg \in Known, gcd'[pg].type = SystemMemory,
             hm.before[pg].type # SystemMemory
      PROVE  \E j \in Entered : j < hm.index /\ pg \in EntryPages(j)
  <2>1. PICK j \in Entered : Passed(hm, j) /\ pg \in EntryPages(j)
    BY <1>4, <1>6, <1>8
  <2>2. j < hm.index
    BY <1>2, <2>1 DEF Passed
  <2>. QED  BY <2>1, <2>2
<1>9. CASE r.status = "EFI_NOT_FOUND" /\ hm' = [hm EXCEPT !.pc = "started"]
  <2>1. hm'.pc = "started" /\ hm'.before = hm.before
    BY <1>9 DEF MemoryInv
  <2>2. \A k \in Entered : k < hm.index \/ Short(k)
    BY <1>1, <1>3, <1>9, NoMoreEntries
  <2>3. \A k \in Entered : Short(k) \/ Usable(k, gcd', protected, hm.before)
    BY <1>7, <2>2
  <2>. QED  BY <1>2, <1>6, <2>1, <2>3 DEF NodeInv, Going
<1>10. CASE r.ok /\ r.reg.bus = Cpu /\ r.reg.len = 0 /\ NextRange
  <2>1. EntryLen(hm.index) = 0
    BY <1>1, <1>3, <1>10, EntryGot
  <2>2. EntryPages(hm.index) = {}
    <3>1. 0..(EntryLen(hm.index) - 1) = {}
      BY <2>1
    <3>. QED  BY <3>1 DEF EntryPages, EntryLen
  <2>3. Usable(hm.index, gcd', protected, hm.before)
    BY <2>2 DEF Usable, RamAt
  <2>4. ~Has(Device, "reg-attrs") =>
           \A pg \in Known : gcd'[pg].type = SystemMemory =>
             \/ hm.before[pg].type = SystemMemory
             \/ \E j \in Entered : (j < hm.index \/ j = hm.index) /\ pg \in EntryPages(j)
    BY <1>8
  <2>5. NodeInv(hm', gcd', protected)
    BY <1>6, <1>7, <1>10, <2>3, <2>4, NextEntry
  <2>. QED  BY <1>2, <2>5
<1>11. CASE r.ok /\ r.reg.bus = Cpu /\ r.reg.len # 0 /\ hm' = [hm EXCEPT !.pc = "type", !.region = r.reg]
  <2>1. hm'.pc = "type" /\ hm'.index = hm.index /\ hm'.before = hm.before /\ hm'.region = r.reg
    BY <1>11 DEF MemoryInv
  <2>2. OfEntry(hm.index, r.reg)
    BY <1>1, <1>3, <1>11, EntryGot
  <2>3. ASSUME ~Has(Device, "reg-attrs"), NEW pg \in Known, gcd'[pg].type = SystemMemory,
               hm.before[pg].type # SystemMemory
        PROVE  \E j \in Entered : Passed(hm', j) /\ pg \in EntryPages(j)
    BY <1>8, <2>1, <2>3 DEF Passed
  <2>. QED  BY <1>2, <1>6, <1>7, <2>1, <2>2, <2>3, Zenon DEF NodeInv, Going
<1>12. CASE GiveUp
  BY <1>2, <1>6, <1>12, GivenUp
<1>. QED  BY <1>2, <1>9, <1>10, <1>11, <1>12

\* SetRegType: what was memory without this Start, or as part of an entry before,
\* is all that is left unprotected.
LEMMA TypeOfNode ==
  ASSUME MapInv, MemoryInv, NodeInv(hm, gcd, protected), NEW fault, SetRegType(fault)
  PROVE  NodeInv(hm', gcd', protected')
<1>. DEFINE i == hm.index
            g == hm.region
            to == MakesRam(fault)
            pages == PagesOf(g.base, g.len)
<1>1. PICK r : r = ApplyGcdTypeAndAttrs(g.base, g.len, to)
  OBVIOUS
<1>2. /\ hm.pc = "type" /\ gcd' = r.gcd /\ protected' = protected
      /\ \/ ~r.ok /\ GiveUp
         \/ r.ok /\ \E old \in LastType(pages) :
              \/ old = SystemMemory /\ NextRange
              \/ old # SystemMemory /\ hm' = [hm EXCEPT !.pc = "cpu"]
  BY <1>1, Zenon DEF SetRegType, MakesRam
<1>3. /\ OfEntry(i, g)
      /\ \A k \in Entered : k < i => Usable(k, gcd, protected, hm.before)
      /\ ~Has(Device, "reg-attrs") =>
           \A pg \in Known : gcd[pg].type = SystemMemory =>
             hm.before[pg].type = SystemMemory \/ \E j \in Entered : Passed(hm, j) /\ pg \in EntryPages(j)
      /\ protected \subseteq UNION {EntryPages(k) : k \in Entered}
  BY <1>2 DEF NodeInv, Going
<1>4. \A j : Passed(hm, j) <=> j < i
  BY <1>2 DEF Passed
<1>5. \A pg \in Known : Changed(pg, to, gcd'[pg])
  BY <1>1, <1>2, MapChanges
<1>6. \A pg \in Known : IsRam(gcd[pg]) => IsRam(gcd'[pg])
  <2>. HIDE DEF to
  <2>1. \A pg \in Known : IsRam(gcd[pg]) => gcd'[pg] = gcd[pg]
    BY <1>5, RamStays DEF to
  <2>. QED  BY <2>1
<1>7. \A pg \in Known : pg \notin pages => gcd'[pg] = gcd[pg]
  BY <1>1, <1>2, OutsidePages
<1>8. r.ok => \A pg \in pages : pg \in Known /\ gcd'[pg] = Applied(pg, to)
  <2>1. MapReaches(g.base, g.len, to, r)
    BY <1>1, MapDone
  <2>. QED  BY <1>2, <2>1 DEF MapReaches
<1>9. EntryPages(i) = Touches(g)
  BY <1>3, PagesOfEntry
<1>10. pages \subseteq Touches(g) /\ (CpuPages - 1 \in Touches(g) \/ Touches(g) \subseteq pages)
  BY <1>3, PagesTouched DEF OfEntry
<1>11. Touches(g) # {} /\ i \in Entered
  <2>1. 0 \in 0..(g.len - 1) /\ i \in Entered
    BY <1>3 DEF OfEntry
  <2>. QED  BY <2>1 DEF Touches
<1>. HIDE DEF pages, i, g, to
<1>12. AtTop(i) \/ EntryPages(i) \subseteq pages
  BY <1>9, <1>10 DEF AtTop
<1>13. r.ok => RamAt(i, gcd')
  <2>1. r.ok => \A pg \in pages : pg \in Known /\ IsRam(gcd'[pg])
    BY <1>8, RamMade DEF MapInv, to
  <2>. QED  BY <1>12, <2>1 DEF RamAt
<1>14. \A k \in Entered : k < i => Usable(k, gcd', protected, hm.before)
  BY <1>3, <1>6, StillUsable
<1>15. ASSUME ~Has(Device, "reg-attrs"), NEW pg \in Known, gcd'[pg].type = SystemMemory,
              hm.before[pg].type # SystemMemory
       PROVE  \E j \in Entered : (j < i \/ j = i) /\ pg \in EntryPages(j)
  <2>1. CASE pg \in pages
    BY <1>9, <1>10, <1>11, <2>1
  <2>2. CASE pg \notin pages
    BY <1>3, <1>4, <1>7, <1>15, <2>2
  <2>. QED  BY <2>1, <2>2
<1>16. CASE ~r.ok /\ GiveUp
  BY <1>2, <1>3, <1>16, GivenUp
<1>17. ASSUME r.ok, NEW old \in LastType(pages), old = SystemMemory, NextRange
       PROVE  NodeInv(hm', gcd', protected')
  <2>1. AtTop(i) \/ ~AloneSince(i, hm.before)
    <3>. SUFFICES ASSUME ~AtTop(i), AloneSince(i, hm.before) PROVE FALSE
      OBVIOUS
    <3>1. pages # {}
      BY <1>9, <1>11, <1>12
    <3>2. PICK pg \in pages : old = PageOf(pg).type
      BY <1>17, <3>1, LastTypeFound DEF pages
    <3>3. pg \in Known /\ gcd[pg].type = SystemMemory /\ pg \in EntryPages(i)
      BY <1>8, <1>9, <1>10, <1>17, <3>2 DEF PageOf
    <3>4. hm.before[pg].type # SystemMemory /\ ~Has(Device, "reg-attrs")
      BY <3>3 DEF AloneSince
    <3>5. PICK j \in Entered : j < i /\ pg \in EntryPages(j)
      BY <1>3, <1>4, <3>3, <3>4
    <3>6. j # i
      <4>1. i \in Nat
        BY <1>11, EnteredNumbers
      <4>. QED  BY <3>5, <4>1
    <3>. QED  BY <3>3, <3>5, <3>6 DEF AloneSince
  <2>2. Usable(i, gcd', protected, hm.before)
    BY <1>13, <1>17, <2>1 DEF Usable
  <2>3. NodeInv(hm', gcd', protected)
    BY <1>3, <1>14, <1>15, <1>17, <2>2, NextEntry DEF i
  <2>. QED  BY <1>2, <2>3
<1>18. CASE r.ok /\ hm' = [hm EXCEPT !.pc = "cpu"]
  <2>1. hm'.pc = "cpu" /\ hm'.index = i /\ hm'.before = hm.before /\ hm'.region = g
    BY <1>18 DEF MemoryInv, i, g
  <2>2. ASSUME ~Has(Device, "reg-attrs"), NEW pg \in Known, gcd'[pg].type = SystemMemory,
               hm.before[pg].type # SystemMemory
        PROVE  \E j \in Entered : Passed(hm', j) /\ pg \in EntryPages(j)
    BY <1>15, <2>1, <2>2 DEF Passed
  <2>. QED  BY <1>2, <1>3, <1>13, <1>14, <1>18, <2>1, <2>2, Zenon DEF NodeInv, Going
<1>. QED  BY <1>2, <1>16, <1>17, <1>18

\* SetMemoryAttributes of the CPU.
LEMMA CpuOfNode ==
  ASSUME MemoryInv, NodeInv(hm, gcd, protected), SetMemoryAttributes
  PROVE  NodeInv(hm', gcd', protected')
<1>. DEFINE i == hm.index
            pages == Touches(hm.region)
<1>1. /\ hm.pc = "cpu" /\ gcd' = gcd
      /\ \/ protected' = protected \cup pages /\ NextRange
         \/ GiveUp /\ protected' = protected
  BY DEF SetMemoryAttributes
<1>2. /\ OfEntry(i, hm.region) /\ RamAt(i, gcd)
      /\ \A k \in Entered : k < i => Usable(k, gcd, protected, hm.before)
      /\ ~Has(Device, "reg-attrs") =>
           \A pg \in Known : gcd[pg].type = SystemMemory =>
             hm.before[pg].type = SystemMemory \/ \E j \in Entered : Passed(hm, j) /\ pg \in EntryPages(j)
      /\ protected \subseteq UNION {EntryPages(k) : k \in Entered}
  BY <1>1 DEF NodeInv, Going
<1>3. EntryPages(i) = pages /\ i \in Entered
  BY <1>2, PagesOfEntry DEF OfEntry
<1>. HIDE DEF pages
<1>4. CASE protected' = protected \cup pages /\ NextRange
  <2>1. protected' \subseteq UNION {EntryPages(k) : k \in Entered}
    BY <1>2, <1>3, <1>4
  <2>2. \A k \in Entered : k < i => Usable(k, gcd, protected', hm.before)
    <3>1. protected \subseteq protected'
      BY <1>4
    <3>. QED  BY <1>2, <3>1, StillUsable
  <2>3. Usable(i, gcd, protected', hm.before)
    BY <1>2, <1>3, <1>4 DEF Usable
  <2>4. \A j : Passed(hm, j) => j < i \/ j = i
    BY DEF Passed
  <2>. HIDE DEF i
  <2>5. ~Has(Device, "reg-attrs") =>
           \A pg \in Known : gcd[pg].type = SystemMemory =>
             \/ hm.before[pg].type = SystemMemory
             \/ \E j \in Entered : (j < i \/ j = i) /\ pg \in EntryPages(j)
    BY <1>2, <2>4
  <2>6. NodeInv(hm', gcd, protected')
    BY <1>4, <2>1, <2>2, <2>3, <2>5, NextEntry DEF i
  <2>. QED  BY <1>1, <2>6
<1>5. CASE GiveUp /\ protected' = protected
  BY <1>1, <1>2, <1>5, GivenUp
<1>. QED  BY <1>1, <1>4, <1>5

\* What an entry of the memory node is does not change.
LEMMA SameNode ==
  ASSUME dt \in Blobs, dt' = dt
  PROVE  /\ Entered' = Entered /\ (IsMemory' <=> IsMemory) /\ (MemoryNodes' <=> MemoryNodes)
         /\ \A k : EntryPages(k)' = EntryPages(k) /\ EntryLen(k)' = EntryLen(k) /\ EntryBase(k)' = EntryBase(k)
         /\ \A k : Short(k)' <=> Short(k)
<1>1. Entered' = Entered
  BY SameCells DEF Entered, ElemCells
<1>2. IsMemory' <=> IsMemory
  BY SameCells DEF IsMemory
<1>3. \A k : EntryLen(k)' = EntryLen(k) /\ EntryBase(k)' = EntryBase(k)
  BY SameCells DEF EntryLen, EntryBase
<1>4. \A k : EntryPages(k)' = EntryPages(k)
  <2>. SUFFICES ASSUME NEW k PROVE EntryPages(k)' = EntryPages(k)
    OBVIOUS
  <2>1. PICK base : base = EntryBase(k)
    OBVIOUS
  <2>2. PICK len : len = EntryLen(k)
    OBVIOUS
  <2>3. PICK R : R = {Reach(Device, base + o, Cpu) : o \in 0..(len - 1)}
    OBVIOUS
  <2>4. PICK Q : Q = {Reach(Device, base + o, Cpu)' : o \in 0..(len - 1)}
    OBVIOUS
  <2>5. R = Q
    BY <2>3, <2>4, SameReach
  <2>6. EntryPages(k) = {x \div PageSize : x \in UNION R}
    BY <2>1, <2>2, <2>3 DEF EntryPages, EntryBase, EntryLen
  <2>7. EntryBase(k)' = base /\ EntryLen(k)' = len
    BY <1>3, <2>1, <2>2
  <2>8. EntryPages(k)' = {x \div PageSize : x \in UNION Q}
    BY <2>4, <2>7 DEF EntryPages, EntryBase, EntryLen
  <2>. QED  BY <2>5, <2>6, <2>8
<1>5. \A k : Short(k)' <=> Short(k)
  BY SameCells DEF Short
<1>6. MemoryNodes' <=> MemoryNodes
  <2>1. \A x : Reach(Device, x, Cpu)' = Reach(Device, x, Cpu)
    BY SameReach
  <2>. QED  BY <1>1, <1>2, <1>3, <2>1, SameCells DEF MemoryNodes
<1>. QED  BY <1>1, <1>2, <1>3, <1>4, <1>5, <1>6

\* What is known of Start, does not depend on anything else that may change.
LEMMA SameNodeInv ==
  ASSUME dt \in Blobs, dt' = dt, NEW h, NEW map, NEW prot, NodeInv(h, map, prot)
  PROVE  NodeInv(h, map, prot)'
<1>1. /\ Entered' = Entered
      /\ \A k : EntryPages(k)' = EntryPages(k) /\ EntryLen(k)' = EntryLen(k) /\ EntryBase(k)' = EntryBase(k)
      /\ \A k : Short(k)' <=> Short(k)
  BY SameNode
<1>2. Has(Device, "reg-attrs")' <=> Has(Device, "reg-attrs")
  BY SameCells
<1>3. \A k : RamAt(k, map)' <=> RamAt(k, map)
  BY <1>1 DEF RamAt, AtTop, IsRam
<1>4. \A k : Usable(k, map, prot, h.before)' <=> Usable(k, map, prot, h.before)
  <2>1. \A k : AloneSince(k, h.before)' <=> AloneSince(k, h.before)
    BY <1>1, <1>2 DEF AloneSince
  <2>2. \A k : AtTop(k)' <=> AtTop(k)
    BY <1>1 DEF AtTop
  <2>. QED  BY <1>1, <1>3, <2>1, <2>2 DEF Usable
<1>5. OfEntry(h.index, h.region)' <=> OfEntry(h.index, h.region)
  <2>1. PICK base : base = EntryBase(h.index)
    OBVIOUS
  <2>2. EntryBase(h.index)' = base
    BY <1>1, <2>1
  <2>3. \A x : Reach(Device, x, Cpu)' = Reach(Device, x, Cpu)
    BY SameReach
  <2>. QED  BY <1>1, <2>1, <2>2, <2>3 DEF OfEntry
<1>. QED  BY <1>1, <1>2, <1>3, <1>4, <1>5 DEF NodeInv, Going, Passed

\* Every step, for a memory node.
LEMMA NodeStep ==
  ASSUME dt \in Blobs, AddressesFit, IsMemory, MemoryNodes, MapInv, MemoryInv,
         NodeInv(hm, gcd, protected), [DtNext]_allVars
  PROVE  NodeInv(hm', gcd', protected')
<1>1. CASE HmNext
  <2>1. CASE DriverStart
    BY <2>1, StartOfNode
  <2>2. CASE SetMemoryAttributes
    BY <2>2, CpuOfNode
  <2>3. CASE DriverStop
    <3>1. GiveUp /\ protected' = protected
      BY <2>3 DEF DriverStop
    <3>2. protected \subseteq UNION {EntryPages(k) : k \in Entered}
      BY DEF NodeInv
    <3>. QED  BY <3>1, <3>2, GivenUp
  <2>4. CASE \E f \in Faults : ProcessMemoryRanges(f)
    BY <2>4, RangeOfNode
  <2>5. CASE \E f \in Faults : SetRegType(f)
    BY <2>5, TypeOfNode
  <2>. QED  BY <1>1, <2>1, <2>2, <2>3, <2>4, <2>5, Zenon DEF HmNext
<1>2. CASE UNCHANGED memVars /\ \E b \in SampleBuses : DtIoSetCallbacks(b)
  <2>1. gcd' = gcd
    BY <1>2 DEF DtIoSetCallbacks
  <2>. QED  BY <1>2, <2>1 DEF memVars
<1>3. CASE UNCHANGED allVars
  BY <1>3 DEF allVars, memVars, pciVars, vars
<1>. QED  BY <1>1, <1>2, <1>3, Zenon DEF DtNext, memVars

\* What Start knows at its end is what it promises.
LEMMA UsableAtEnd ==
  ASSUME NodeInv(hm, gcd, protected)
  PROVE  MemoryUsable
<1>1. hm.pc = "started" => \A k \in Entered : Short(k) \/ Usable(k, gcd, protected, hm.before)
  BY DEF NodeInv
<1>2. protected \subseteq UNION {EntryPages(k) : k \in Entered}
  BY DEF NodeInv
<1>3. \A k : AloneSince(k, hm.before) <=> Alone(k)
  BY DEF AloneSince, Alone
<1>4. \A k \in Entered : Usable(k, gcd, protected, hm.before) =>
        \/ AtTop(k)
        \/ /\ \A pg \in EntryPages(k) : gcd[pg].type = SystemMemory /\ gcd[pg].attrs = WB
           /\ Alone(k) => EntryPages(k) \subseteq protected
  BY <1>3 DEF Usable, RamAt, IsRam
<1>. QED  BY <1>1, <1>2, <1>4 DEF MemoryUsable, Short

\* A memory node that Start has processed is usable: its pages are system memory
\* that can be cached, and those nobody had before have their attributes set with
\* the CPU, in whatever order it failed and was started again, and no other page has
\* (ProcessMemoryRanges, SetRegType, ApplyGcdTypeAndAttrs).  With that, all that
\* RegionsAccessible says of the regions of a device.  For devicetrees without an
\* overflow of 128 bits, in which memory has addresses, of one meaning each.
THEOREM MemoryWorks == DtSpec /\ AddressesFit /\ MemoryNodes => RegionsAccessible
<1>. DEFINE Node == IsMemory => \E h, map, prot : hm = h /\ gcd = map /\ protected = prot /\ NodeInv(h, map, prot)
            I == RegionInv /\ GcdInv /\ MemoryNodes /\ Node
<1>1. DtInit /\ AddressesFit /\ MemoryNodes => I
  <2>1. SUFFICES ASSUME DtInit, AddressesFit, MemoryNodes PROVE I
    OBVIOUS
  <2>2. RegionInv /\ GcdInv
    BY <2>1, RegionInit, GcdInit DEF DtInit, RbInit
  <2>3. hm.pc = "stopped" /\ protected = {}
    BY <2>1 DEF DtInit, HmInit, NotManaged
  <2>4. NodeInv(hm, gcd, protected)
    BY <2>3 DEF NodeInv, Going
  <2>. QED  BY <2>1, <2>2, <2>4
<1>2. I /\ [DtNext]_allVars => I'
  <2>1. SUFFICES ASSUME I, [DtNext]_allVars PROVE I'
    OBVIOUS
  <2>2. RegionInv' /\ GcdInv'
    BY <2>1, RegionStep, GcdStep
  <2>3. dt \in Blobs /\ AddressesFit /\ MapInv /\ MemoryInv
    BY <2>1 DEF RegionInv, GcdInv
  <2>4. dt' = dt
    <3>1. Elsewhere \/ GetsProp \/ ParsesFields \/ ParsesStrings \/ ParsesRegion \/ GetsRegion
      BY <2>1, <2>3, StepKinds
    <3>. QED  BY <3>1 DEF Elsewhere, GetsProp, DtIoGetProp, ParsesFields, DtIoParseProp, ParsesStrings,
                          DtIoParsePropString, ParsesRegion, DtIoParsePropRegion, GetsRegion, DtIoGetRegion
  <2>5. MemoryNodes' /\ (IsMemory' <=> IsMemory)
    BY <2>1, <2>3, <2>4, SameNode
  <2>6. Node'
    <3>1. SUFFICES ASSUME IsMemory'
                   PROVE  (\E h, map, prot : hm = h /\ gcd = map /\ protected = prot /\ NodeInv(h, map, prot))'
      OBVIOUS
    <3>2. NodeInv(hm, gcd, protected)
      BY <2>1, <2>5, <3>1
    <3>3. PICK h : h = hm'
      OBVIOUS
    <3>4. PICK map : map = gcd'
      OBVIOUS
    <3>5. PICK prot : prot = protected'
      OBVIOUS
    <3>6. NodeInv(h, map, prot)
      BY <2>1, <2>3, <2>5, <3>1, <3>2, <3>3, <3>4, <3>5, NodeStep
    <3>7. NodeInv(h, map, prot)'
      BY <2>3, <2>4, <3>6, SameNodeInv
    <3>. QED  BY <3>3, <3>4, <3>5, <3>7
  <2>. QED  BY <2>2, <2>5, <2>6
<1>3. I => MemoryUsable
  <2>1. ASSUME IsMemory, I PROVE MemoryUsable
    BY <2>1, UsableAtEnd
  <2>2. ASSUME ~IsMemory PROVE MemoryUsable
    BY <2>2 DEF MemoryUsable
  <2>. QED  BY <2>1, <2>2
<1>4. DtSpec /\ AddressesFit /\ MemoryNodes => [][MemoryUsable']_allVars
  BY <1>1, <1>2, <1>3, PTL DEF DtSpec
<1>. QED  BY <1>4, RegionsInMap, UsedMemoryKept, PTL DEF RegionsAccessible
=============================================================================
