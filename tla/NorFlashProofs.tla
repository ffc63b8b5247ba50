--------------------------- MODULE NorFlashProofs ---------------------------
(***************************************************************************)
(* Proofs about NorFlash, for a device and chunks of any size, any         *)
(* requests and any faults: types, that errors are real and erases go in   *)
(* order, and, for the requests the read before a patch is long enough     *)
(* for, that writes are exact and contained and that the header survives.  *)
(***************************************************************************)
EXTENDS NorFlash, TLAPS, FiniteSetTheorems, SequenceTheorems

-----------------------------------------------------------------------------
(* The requests the theorems are about                                     *)

\* Shorter than a chunk, inside its block and across a chunk boundary: what is
\* read before the patch ends at the boundary, what is programmed does not.
Straddles(w) ==
  /\ Len(w.data) < Chunk /\ (w.offset % Chunk) + Len(w.data) > Chunk
  /\ w.offset + Len(w.data) <= BlockSize

\* Short and inside the block, but what is read before the patch ends in the
\* next one: NorFlashRead refuses that at the end of the device.
ReadsBeyond(w) ==
  LET skew == w.offset % Chunk IN
  /\ skew + Len(w.data) <= 2 * Chunk
  /\ w.offset + Len(w.data) <= BlockSize
  /\ w.offset - skew + ReadLength(Len(w.data)) > BlockSize

-----------------------------------------------------------------------------
(* The inductive invariants                                                *)

\* The block that is written, and what the flash is to be afterwards.
Lba == StartLba + req.lba
Goal == Written(old, req)

\* An erase has something to erase and an attempt left, and a rewrite erases its
\* block only.
EraseLoop ==
  /\ pc = "erase" => /\ blocks # << >> /\ tries < Retry
                     /\ \/ op = "erase" /\ chunks = {}
                        \/ op = "rewrite" /\ blocks = << <<Lba, 1>> >>
  /\ pc = "headers" => op = "erase"

\* A write is inside one block, which is unlocked when it is programmed.
WriteLoop ==
  /\ op \in {"patch", "rewrite"} => /\ Lba \in Blocks /\ WriteRange(req) \subseteq Block(Lba)
                                    /\ target \in Block(Lba)
  /\ pc = "program" => op \in {"patch", "rewrite"} /\ chunks # {} /\ ~locked[Lba]

\* What is still to be erased was asked for.
StillListed ==
  (op = "erase" /\ pc # "boot") =>
    /\ Listed(blocks) \subseteq Listed(InDevice(list))
    /\ Disjoint(InDevice(list)) => Disjoint(blocks)

NInv == TypeOK /\ EraseLoop /\ WriteLoop /\ StillListed /\ EraseInOrder /\ (sr => failed)

\* In the middle of a write: the shadow buffer has the goal for what is still to
\* be programmed, where no bit has to be set, and the rest has reached it.
Halfway ==
  /\ (pc = "erase" /\ op = "rewrite") =>
       /\ target = Lba * BlockSize /\ chunks = FullChunks(shadow)
       /\ \A i \in 0..(BlockSize - 1) : shadow[i] = Goal[target + i]
  /\ pc = "program" =>
       \A a \in Cells :
         IF \E o \in chunks : a \in ChunkCells(o)
           THEN shadow[a - target] = Goal[a] /\ (flash[a] = 0 => Goal[a] = 0)
           ELSE flash[a] = Goal[a]

XInv == NInv /\ Halfway /\ WriteExact /\ WriteContained

\* The volume is formatted by a call that writes the headers last, and a call
\* that erases the header block takes the mark back first.
Formatting ==
  /\ pc \in {"boot", "idle"} => ~formatting
  /\ (formatting /\ op \in {"patch", "rewrite"}) => req = HeaderWrite
  /\ (kept /\ pc \in {"erase", "program"} /\ op = "rewrite") => Lba # StartLba
  /\ (kept /\ pc = "erase" /\ op = "erase") => StartLba \notin Listed(blocks)

HInv == XInv /\ Formatting /\ HeaderSurvives

-----------------------------------------------------------------------------
(* Blocks, chunks and cells                                                *)

LEMMA Geometry ==
  /\ Chunk \in Nat /\ Chunk > 0 /\ BlockSize \in Nat /\ 3 * Chunk <= BlockSize
  /\ LastBlock \in Nat /\ StartLba \in Blocks /\ Size \in Nat
  /\ 0 \in Cells /\ Cells \subseteq Nat
<1>1. /\ Chunk \in Nat /\ Chunk > 0 /\ BlockSize \in Nat /\ 3 * Chunk <= BlockSize
      /\ LastBlock \in Nat /\ StartLba \in Blocks
  BY GeometryAssumption DEF Blocks
<1>2. Size \in Nat /\ Size > 0
  <2>1. (LastBlock + 1) * BlockSize = LastBlock * BlockSize + BlockSize
        /\ LastBlock * BlockSize \in Nat
    BY <1>1
  <2>. QED  BY <1>1, <2>1 DEF Size
<1>. QED  BY <1>1, <1>2 DEF Cells

\* Block b has the cells from b * BlockSize on; they are cells of no other one.
LEMMA BlockCells ==
  ASSUME NEW b \in Nat
  PROVE  /\ b * BlockSize \in Nat
         /\ \A a : a \in Block(b) <=>
              a \in Int /\ b * BlockSize <= a /\ a <= b * BlockSize + BlockSize - 1
         /\ b \in Blocks => Block(b) \subseteq Cells
         /\ b * BlockSize < Size => b \in Blocks
<1>1. BlockSize \in Nat /\ BlockSize > 0 /\ LastBlock \in Nat
  BY Geometry
<1>2. b * BlockSize \in Nat /\ (b + 1) * BlockSize = b * BlockSize + BlockSize
  BY <1>1
<1>3. \A a : a \in Block(b) <=>
        a \in Int /\ b * BlockSize <= a /\ a <= b * BlockSize + BlockSize - 1
  BY <1>1, <1>2 DEF Block
<1>4. (LastBlock + 1) * BlockSize = LastBlock * BlockSize + BlockSize
      /\ LastBlock * BlockSize \in Nat
  BY <1>1
<1>5. b <= LastBlock => b * BlockSize <= LastBlock * BlockSize
  BY <1>1
<1>6. LastBlock + 1 <= b => (LastBlock + 1) * BlockSize <= b * BlockSize
  BY <1>1
<1>7. b \in Blocks => Block(b) \subseteq Cells
  BY <1>1, <1>2, <1>3, <1>4, <1>5 DEF Blocks, Cells, Size
<1>8. b * BlockSize < Size => b \in Blocks
  BY <1>1, <1>2, <1>4, <1>6 DEF Blocks, Size
<1>. QED  BY <1>2, <1>3, <1>7, <1>8

LEMMA BlocksApart ==
  ASSUME NEW b \in Nat, NEW c \in Nat, NEW a \in Block(b), a \in Block(c)
  PROVE  b = c
<1>1. BlockSize \in Nat /\ b * BlockSize \in Nat /\ c * BlockSize \in Nat
  BY Geometry, BlockCells
<1>2. /\ a \in Int /\ b * BlockSize <= a /\ a <= b * BlockSize + BlockSize - 1
      /\ c * BlockSize <= a /\ a <= c * BlockSize + BlockSize - 1
  BY BlockCells
<1>3. (b + 1) * BlockSize = b * BlockSize + BlockSize /\ (c + 1) * BlockSize = c * BlockSize + BlockSize
  BY <1>1
<1>4. /\ b + 1 <= c => (b + 1) * BlockSize <= c * BlockSize
      /\ c + 1 <= b => (c + 1) * BlockSize <= b * BlockSize
  BY <1>1
<1>5. ~(b + 1 <= c) /\ ~(c + 1 <= b)
  BY <1>1, <1>2, <1>3, <1>4
<1>. QED  BY <1>5

\* The device tells the block from the address.
LEMMA BlockOfCell ==
  ASSUME NEW b \in Nat, NEW a \in Block(b)
  PROVE  a \div BlockSize = b
<1>1. BlockSize \in Nat /\ BlockSize > 0 /\ b * BlockSize \in Nat /\ a \in Nat
  BY Geometry, BlockCells
<1>. DEFINE q == a \div BlockSize
<1>2. q \in Nat /\ q * BlockSize <= a /\ a < (q + 1) * BlockSize
  BY <1>1
<1>. HIDE DEF q
<1>3. a \in Block(q)
  <2>1. (q + 1) * BlockSize = q * BlockSize + BlockSize /\ q * BlockSize \in Nat
    BY <1>1, <1>2
  <2>. QED  BY <1>1, <1>2, <2>1, BlockCells
<1>. QED  BY <1>2, <1>3, BlocksApart DEF q

\* The chunks of a block cover it.
LEMMA ChunkOfCell ==
  ASSUME NEW i \in 0..(BlockSize - 1)
  PROVE  \E k \in 0..(BlockSize \div Chunk - 1) :
           /\ k * Chunk \in 0..(BlockSize - 1) /\ i \in (k * Chunk)..(k * Chunk + Chunk - 1)
<1>1. Chunk \in Nat /\ Chunk > 0 /\ BlockSize \in Nat /\ i \in Nat /\ i < BlockSize
  BY Geometry
<1>. DEFINE k == i \div Chunk
            m == BlockSize \div Chunk
<1>2. k \in Nat /\ k * Chunk <= i /\ i < (k + 1) * Chunk
  BY <1>1
<1>3. m \in Nat /\ m * Chunk = BlockSize
  BY <1>1, GeometryAssumption
<1>. HIDE DEF k, m
<1>4. (k + 1) * Chunk = k * Chunk + Chunk /\ k * Chunk \in Nat
  BY <1>1, <1>2
<1>5. m <= k => m * Chunk <= k * Chunk
  BY <1>1, <1>2, <1>3
<1>6. k \in 0..(m - 1)
  BY <1>1, <1>2, <1>3, <1>5
<1>7. k * Chunk \in 0..(BlockSize - 1) /\ i \in (k * Chunk)..(k * Chunk + Chunk - 1)
  BY <1>1, <1>2, <1>4
<1>. QED  BY <1>6, <1>7 DEF m

\* Their offsets lie in the block.
LEMMA ChunksInBlock ==
  ASSUME NEW k \in 0..(BlockSize \div Chunk - 1)
  PROVE  k * Chunk \in 0..(BlockSize - 1) /\ k * Chunk + Chunk <= BlockSize
<1>1. Chunk \in Nat /\ Chunk > 0 /\ BlockSize \in Nat
  BY Geometry
<1>. DEFINE m == BlockSize \div Chunk
<1>2. m \in Nat /\ m * Chunk = BlockSize
  BY <1>1, GeometryAssumption
<1>3. k \in 0..(m - 1)
  OBVIOUS
<1>. HIDE DEF m
<1>4. (k + 1) * Chunk = k * Chunk + Chunk /\ k * Chunk \in Nat
  BY <1>1, <1>2, <1>3
<1>5. k + 1 <= m => (k + 1) * Chunk <= m * Chunk
  BY <1>1, <1>2, <1>3
<1>. QED  BY <1>1, <1>2, <1>3, <1>4, <1>5

\* NorFlashWriteFullBlock programs every chunk in which a bit is clear.
LEMMA FullChunksCover ==
  ASSUME NEW buffer
  PROVE  /\ FullChunks(buffer) \subseteq 0..(BlockSize - 1)
         /\ \A o \in FullChunks(buffer) : o + Chunk <= BlockSize
         /\ \A i \in 0..(BlockSize - 1) :
              buffer[i] = 0 => \E o \in FullChunks(buffer) : i \in o..(o + Chunk - 1)
<1>1. ASSUME NEW o \in FullChunks(buffer)
      PROVE  o \in 0..(BlockSize - 1) /\ o + Chunk <= BlockSize
  <2>1. PICK k \in 0..(BlockSize \div Chunk - 1) : o = k * Chunk
    BY <1>1 DEF FullChunks
  <2>. QED  BY <2>1, ChunksInBlock
<1>2. ASSUME NEW i \in 0..(BlockSize - 1), buffer[i] = 0
      PROVE  \E o \in FullChunks(buffer) : i \in o..(o + Chunk - 1)
  <2>1. PICK k \in 0..(BlockSize \div Chunk - 1) : i \in (k * Chunk)..(k * Chunk + Chunk - 1)
    BY ChunkOfCell
  <2>. QED  BY <1>2, <2>1 DEF FullChunks
<1>. QED  BY <1>1, <1>2

\* What is read before a patch covers what is programmed.
LEMMA ReadCovers ==
  ASSUME NEW n \in Nat, NEW skew \in 0..(Chunk - 1), n < Chunk => skew + n <= Chunk
  PROVE  /\ ReadLength(n) \in Nat /\ Chunk <= ReadLength(n)
         /\ skew + n > Chunk => 2 * Chunk <= ReadLength(n)
         /\ n <= Chunk => ReadLength(n) <= 2 * Chunk
<1>1. Chunk \in Nat /\ Chunk > 0
  BY Geometry
<1>. DEFINE q == n \div Chunk
<1>2. q \in Nat /\ q * Chunk <= n /\ n < (q + 1) * Chunk
  BY <1>1
<1>3. ReadLength(n) = (q + 1) * Chunk
  BY DEF ReadLength
<1>. HIDE DEF q
<1>4. (q + 1) * Chunk = q * Chunk + Chunk /\ q * Chunk \in Nat
  BY <1>1, <1>2
<1>5. 1 <= q => 1 * Chunk <= q * Chunk
  BY <1>1, <1>2
<1>6. 2 <= q => 2 * Chunk <= q * Chunk
  BY <1>1, <1>2
<1>7. q = 0 => q * Chunk = 0
  BY <1>1
<1>8. q = 1 => q * Chunk = Chunk
  BY <1>1
<1>9. skew + n > Chunk => 1 <= q
  BY <1>1, <1>2, <1>4, <1>7
<1>10. n <= Chunk => q = 0 \/ q = 1
  BY <1>1, <1>2, <1>6
<1>. QED  BY <1>1, <1>2, <1>3, <1>4, <1>5, <1>7, <1>8, <1>9, <1>10

-----------------------------------------------------------------------------
(* Requests and ranges                                                     *)

LEMMA Requested ==
  ASSUME NEW w \in Request
  PROVE  /\ w.lba \in Nat /\ w.offset \in Nat /\ w.data \in Seq(Bit) /\ Len(w.data) \in Nat
         /\ \A i \in 1..Len(w.data) : w.data[i] \in Bit
<1>1. CASE w \in Writes
  BY <1>1, RequestsAssumption, LenProperties, ElementOfSeq
<1>2. CASE w = HeaderWrite
  BY <1>2, HeadersAssumption, LenProperties, ElementOfSeq DEF HeaderWrite
<1>. QED  BY <1>1, <1>2 DEF Request

\* The header is shorter than a chunk and at the start of its block.
LEMMA HeaderIsSound == ~Straddles(HeaderWrite) /\ ~ReadsBeyond(HeaderWrite)
<1>1. Chunk \in Nat /\ Chunk > 0 /\ BlockSize \in Nat /\ 3 * Chunk <= BlockSize
  BY Geometry
<1>2. /\ HeaderWrite.offset = 0 /\ HeaderWrite.data = Headers
      /\ Len(Headers) \in Nat /\ Len(Headers) <= Chunk
  BY HeadersAssumption, LenProperties DEF HeaderWrite
<1>3. 0 % Chunk = 0
  BY <1>1
<1>4. ReadLength(Len(Headers)) \in Nat /\ ReadLength(Len(Headers)) <= 2 * Chunk
  <2>1. 0 \in 0..(Chunk - 1) /\ (Len(Headers) < Chunk => 0 + Len(Headers) <= Chunk)
    BY <1>1, <1>2
  <2>. QED  BY <1>2, <2>1, ReadCovers
<1>. QED  BY <1>1, <1>2, <1>3, <1>4 DEF Straddles, ReadsBeyond

\* A write that does not span blocks is inside its block.
LEMMA WriteInBlock ==
  ASSUME NEW w \in Request, ~SpansBlock(w.offset, Len(w.data))
  PROVE  /\ WriteRange(w) \subseteq Block(StartLba + w.lba)
         /\ \A a \in WriteRange(w) : a - Base(w) + 1 \in 1..Len(w.data)
         /\ Base(w) = (StartLba + w.lba) * BlockSize + w.offset
         /\ Base(w) \in Nat /\ w.offset + Len(w.data) <= BlockSize /\ w.offset < BlockSize
<1>. DEFINE b == StartLba + w.lba
            n == Len(w.data)
<1>1. b \in Nat /\ w.offset \in Nat /\ n \in Nat /\ BlockSize \in Nat
  BY Requested, GeometryAssumption
<1>2. b * BlockSize \in Nat /\ Base(w) = b * BlockSize + w.offset
  BY <1>1, BlockCells DEF Base
<1>3. w.offset < BlockSize /\ w.offset + n <= BlockSize
  BY <1>1 DEF SpansBlock
<1>. HIDE DEF b, n
<1>4. \A a \in WriteRange(w) :
        /\ a \in Int /\ b * BlockSize <= a /\ a <= b * BlockSize + BlockSize - 1
        /\ a - Base(w) + 1 \in 1..n
  <2>1. WriteRange(w) = Base(w)..(Base(w) + n - 1)
    BY DEF WriteRange, n
  <2>. DEFINE c == b * BlockSize
              o == w.offset
  <2>2. c \in Nat /\ o \in Nat /\ Base(w) = c + o /\ o + n <= BlockSize
    BY <1>1, <1>2, <1>3
  <2>. HIDE DEF c, o
  <2>3. \A a \in WriteRange(w) :
          a \in Int /\ c <= a /\ a <= c + BlockSize - 1 /\ a - Base(w) + 1 \in 1..n
    BY ONLY <1>1, <2>1, <2>2
  <2>. QED  BY <2>3 DEF c
<1>5. WriteRange(w) \subseteq Block(b)
  BY <1>1, <1>4, BlockCells
<1>. QED  BY <1>1, <1>2, <1>3, <1>4, <1>5 DEF b, n

\* After the writing the range has the data, and the rest is as it was.
LEMMA WrittenCells ==
  ASSUME NEW f \in [Cells -> Bit], NEW w \in Request, ~SpansBlock(w.offset, Len(w.data))
  PROVE  /\ Written(f, w) \in [Cells -> Bit]
         /\ \A a \in Cells \ WriteRange(w) : Written(f, w)[a] = f[a]
         /\ \A a \in Cells \cap WriteRange(w) : Written(f, w)[a] = w.data[a - Base(w) + 1]
<1>1. \A a \in WriteRange(w) : w.data[a - Base(w) + 1] \in Bit
  BY WriteInBlock, Requested
<1>. QED  BY <1>1 DEF Written

\* A range that the device has.
LEMMA RangeBlocks ==
  ASSUME NEW r \in Ranges
  PROVE  /\ r[1] \in Nat /\ r[2] \in Nat /\ r[2] > 0 /\ r = <<r[1], r[2]>>
         /\ r[1] \in r[1]..(r[1] + r[2] - 1)
         /\ r[1]..(r[1] + r[2] - 1) \subseteq Blocks
BY Geometry DEF Ranges, Blocks

\* Taking the first block off the ranges.
LEMMA RemainingRanges ==
  ASSUME blocks \in Seq(Ranges), blocks # << >>
  PROVE  /\ Remaining \in Seq(Ranges)
         /\ Current \in Listed(blocks) /\ Current \in Blocks /\ Listed(blocks) \subseteq Blocks
         /\ Listed(Remaining) \subseteq Listed(blocks)
         /\ Listed(blocks) \subseteq Listed(Remaining) \cup {Current}
         /\ Disjoint(blocks) => Disjoint(Remaining) /\ Current \notin Listed(Remaining)
<1>. DEFINE n == Len(blocks)
            f == blocks[1][1]
            m == blocks[1][2]
            S(s, i) == s[i][1]..(s[i][1] + s[i][2] - 1)
<1>1. n \in Nat /\ n > 0 /\ DOMAIN blocks = 1..n /\ \A i \in 1..n : blocks[i] \in Ranges
  BY LenProperties, EmptySeq, ElementOfSeq
<1>2. f \in Nat /\ m \in Nat /\ m > 0 /\ f \in f..(f + m - 1) /\ blocks[1] = <<f, m>>
  <2>1. blocks[1] \in Ranges
    BY <1>1
  <2>. QED  BY <2>1, RangeBlocks
<1>3. \A s, x : x \in Listed(s) <=> \E i \in DOMAIN s : x \in S(s, i)
  BY DEF Listed
<1>4. \A i \in 1..n : S(blocks, i) \subseteq Blocks /\ blocks[i][1] \in Nat /\ blocks[i][2] \in Nat
  BY <1>1, RangeBlocks
<1>5. Current = f /\ Current \in Listed(blocks) /\ Listed(blocks) \subseteq Blocks
  BY SMTT(60), <1>1, <1>2, <1>3, <1>4 DEF Current
<1>6. CASE m > 1
  <2>. DEFINE r == [blocks EXCEPT ![1] = <<f + 1, m - 1>>]
  <2>1. Remaining = r
    BY <1>2, <1>6 DEF Remaining
  <2>2. <<f + 1, m - 1>> \in Ranges
    <3>1. f \in 0..LastBlock /\ m \in 1..(LastBlock + 1) /\ f + m - 1 <= LastBlock
      BY <1>1 DEF Ranges, Blocks
    <3>2. f + 1 \in 0..LastBlock /\ m - 1 \in 1..(LastBlock + 1)
          /\ (f + 1) + (m - 1) - 1 <= LastBlock
      BY <1>2, <1>6, <3>1, Geometry
    <3>. QED  BY <3>2 DEF Ranges, Blocks
  <2>3. /\ r \in Seq(Ranges) /\ DOMAIN r = 1..n
        /\ r[1][1] = f + 1 /\ r[1][2] = m - 1 /\ \A i \in 2..n : r[i] = blocks[i]
    <3>. DEFINE e == <<f + 1, m - 1>>
    <3>1. e[1] = f + 1 /\ e[2] = m - 1 /\ e \in Ranges
      BY <2>2
    <3>2. 1 \in 1..Len(blocks)
      BY <1>1
    <3>. HIDE DEF e
    <3>3. /\ [blocks EXCEPT ![1] = e] \in Seq(Ranges)
          /\ Len([blocks EXCEPT ![1] = e]) = Len(blocks)
          /\ \A j \in 1..Len(blocks) : [blocks EXCEPT ![1] = e][j] = IF j = 1 THEN e ELSE blocks[j]
      BY ONLY blocks \in Seq(Ranges), <3>1, <3>2, ExceptSeq
    <3>4. r = [blocks EXCEPT ![1] = e]
      BY DEF e
    <3>. HIDE DEF r
    <3>5. r \in Seq(Ranges) /\ Len(r) = n /\ \A j \in 1..n : r[j] = IF j = 1 THEN e ELSE blocks[j]
      BY <3>3, <3>4
    <3>6. DOMAIN r = 1..n
      BY <3>5, LenProperties
    <3>. QED  BY <1>1, <3>1, <3>5, <3>6
  <2>. HIDE DEF r
  <2>4. S(r, 1) = (f + 1)..(f + m - 1) /\ \A i \in 2..n : S(r, i) = S(blocks, i)
    BY <1>2, <2>3
  <2>5. S(blocks, 1) = S(r, 1) \cup {f} /\ f \notin S(r, 1)
    <3>. HIDE DEF f, m
    <3>1. f..(f + m - 1) = ((f + 1)..(f + m - 1)) \cup {f} /\ f \notin (f + 1)..(f + m - 1)
      BY <1>2
    <3>2. S(blocks, 1) = f..(f + m - 1)
      BY DEF f, m
    <3>. HIDE DEF S
    <3>. QED  BY <2>4, <3>1, <3>2
  <2>. HIDE DEF S
  <2>6. Listed(r) \subseteq Listed(blocks)
    BY <1>1, <1>3, <2>3, <2>4, <2>5
  <2>7. Listed(blocks) \subseteq Listed(r) \cup {f}
    BY <1>1, <1>3, <2>3, <2>4, <2>5
  <2>8. ASSUME Disjoint(blocks) PROVE Disjoint(r) /\ f \notin Listed(r)
    <3>1. \A i, j \in 1..n : i # j => \/ blocks[i][1] + blocks[i][2] <= blocks[j][1]
                                      \/ blocks[j][1] + blocks[j][2] <= blocks[i][1]
      BY <1>1, <2>8 DEF Disjoint
    <3>2. \A j \in 2..n : f + m <= blocks[j][1] \/ blocks[j][1] + blocks[j][2] <= f
      BY <1>1, <3>1
    <3>3. ASSUME NEW j \in 2..n
          PROVE  /\ r[1][1] + r[1][2] <= r[j][1] \/ r[j][1] + r[j][2] <= r[1][1]
                 /\ f \notin S(r, j)
      <4>1. blocks[j][1] \in Nat /\ blocks[j][2] \in Nat /\ r[j] = blocks[j]
        BY <1>4, <2>3
      <4>2. f + m <= blocks[j][1] \/ blocks[j][1] + blocks[j][2] <= f
        BY <3>2
      <4>3. r[1][1] = f + 1 /\ r[1][2] = m - 1
        BY <2>3
      <4>. HIDE DEF f, m
      <4>4. S(r, j) = blocks[j][1]..(blocks[j][1] + blocks[j][2] - 1)
        BY <4>1 DEF S
      <4>. QED  BY SMTT(60), <1>2, <4>1, <4>2, <4>3, <4>4
    <3>4. Disjoint(r)
      BY <1>1, <2>3, <3>1, <3>3 DEF Disjoint
    <3>. QED  BY <1>1, <1>3, <2>3, <2>5, <3>3, <3>4
  <2>. QED  BY <1>5, <2>1, <2>3, <2>6, <2>7, <2>8
<1>7. CASE ~(m > 1)
  <2>. DEFINE r == Tail(blocks)
  <2>1. Remaining = r /\ m = 1
    BY <1>2, <1>7 DEF Remaining
  <2>2. r \in Seq(Ranges) /\ DOMAIN r = 1..(n - 1) /\ \A i \in 1..(n - 1) : r[i] = blocks[i + 1]
    <3>1. r \in Seq(Ranges) /\ Len(r) = n - 1 /\ \A i \in 1..Len(r) : r[i] = blocks[i + 1]
      BY HeadTailProperties
    <3>. HIDE DEF r
    <3>2. DOMAIN r = 1..Len(r)
      BY <3>1, LenProperties
    <3>. QED  BY <3>1, <3>2
  <2>. HIDE DEF r
  <2>3. S(blocks, 1) = {f} /\ \A i \in 1..(n - 1) : S(r, i) = S(blocks, i + 1)
    BY <1>2, <2>1, <2>2
  <2>. HIDE DEF S
  <2>4. Listed(r) \subseteq Listed(blocks)
    <3>1. \A i \in 1..(n - 1) : i + 1 \in 1..n
      BY <1>1
    <3>. QED  BY <1>1, <1>3, <2>2, <2>3, <3>1
  <2>5. Listed(blocks) \subseteq Listed(r) \cup {f}
    <3>1. \A i \in 1..n : i = 1 \/ \E j \in 1..(n - 1) : j + 1 = i
      BY <1>1
    <3>2. ASSUME NEW i \in 1..n, NEW x \in S(blocks, i) PROVE x \in Listed(r) \cup {f}
      <4>1. CASE i = 1
        BY <2>3, <4>1
      <4>2. CASE \E j \in 1..(n - 1) : j + 1 = i
        BY <1>3, <2>2, <2>3, <4>2
      <4>. QED  BY <3>1, <4>1, <4>2
    <3>. QED  BY <1>1, <1>3, <3>2
  <2>6. ASSUME Disjoint(blocks) PROVE Disjoint(r) /\ f \notin Listed(r)
    <3>1. \A i, j \in 1..n : i # j => \/ blocks[i][1] + blocks[i][2] <= blocks[j][1]
                                      \/ blocks[j][1] + blocks[j][2] <= blocks[i][1]
      BY <1>1, <2>6 DEF Disjoint
    <3>2. Disjoint(r)
      BY <1>1, <2>2, <3>1 DEF Disjoint
    <3>3. \A i \in 1..(n - 1) : f \notin S(r, i)
      <4>1. \A j \in 2..n : f + 1 <= blocks[j][1] \/ blocks[j][1] + blocks[j][2] <= f
        BY <1>1, <2>1, <3>1
      <4>2. ASSUME NEW i \in 1..(n - 1) PROVE f \notin S(r, i)
        <5>1. i + 1 \in 2..n /\ i + 1 \in 1..n
          BY <1>1
        <5>2. /\ blocks[i + 1][1] \in Nat /\ blocks[i + 1][2] \in Nat
              /\ f + 1 <= blocks[i + 1][1] \/ blocks[i + 1][1] + blocks[i + 1][2] <= f
          BY <1>4, <4>1, <5>1
        <5>3. S(r, i) = blocks[i + 1][1]..(blocks[i + 1][1] + blocks[i + 1][2] - 1)
          BY <2>2 DEF S
        <5>. HIDE DEF f, m
        <5>. QED  BY SMTT(60), <1>2, <5>2, <5>3
      <4>. QED  BY <4>2
    <3>. QED  BY <1>3, <2>2, <3>2, <3>3
  <2>. QED  BY <1>5, <2>1, <2>2, <2>4, <2>5, <2>6
<1>. QED  BY <1>6, <1>7

-----------------------------------------------------------------------------
(* How a write begins                                                      *)

At(w)      == StartLba + w.lba
Skew(w)    == w.offset % Chunk
Aligned(w) == At(w) * BlockSize + w.offset - Skew(w)
Window(w)  == NorFlashRead(Aligned(w), ReadLength(Len(w.data)))
Patched(w) == Merged(Window(w), Skew(w), w.data)
Whole(w)   == Merged(NorFlashRead(At(w) * BlockSize, BlockSize), w.offset, w.data)

StartsPatch(w) ==
  /\ Skew(w) + Len(w.data) <= 2 * Chunk
  /\ Aligned(w) + ReadLength(Len(w.data)) <= Size
  /\ ~NeedsErase(Window(w), Skew(w), w.data)
  /\ Patch(At(w), Patched(w), Skew(w), Aligned(w), Len(w.data))
StartsRewrite(w) == Rewrite(At(w), Whole(w))
InBlock(w) == At(w) \in Blocks /\ Len(w.data) > 0 /\ ~SpansBlock(w.offset, Len(w.data))

LEMMA Modulo ==
  ASSUME NEW a \in Nat, NEW c \in Nat, c > 0
  PROVE  a % c \in 0..(c - 1) /\ a % c <= a
OBVIOUS

LEMMA Aligning ==
  ASSUME NEW w \in Request, w.offset < BlockSize
  PROVE  /\ At(w) \in Nat /\ Skew(w) \in 0..(Chunk - 1) /\ Skew(w) <= w.offset
         /\ At(w) * BlockSize \in Nat /\ Aligned(w) \in Block(At(w)) /\ Aligned(w) \in Nat
         /\ Aligned(w) + Skew(w) = Base(w)
<1>1. /\ w.offset \in Nat /\ At(w) \in Nat /\ Chunk \in Nat /\ Chunk > 0 /\ BlockSize \in Nat
      /\ At(w) * BlockSize \in Nat
  <2>1. At(w) \in Nat
    BY Requested, GeometryAssumption DEF At
  <2>2. At(w) * BlockSize \in Nat
    BY <2>1, Geometry
  <2>. QED  BY <2>1, <2>2, Requested, Geometry
<1>2. Skew(w) \in 0..(Chunk - 1) /\ Skew(w) <= w.offset
  BY <1>1, Modulo DEF Skew
<1>3. Base(w) = At(w) * BlockSize + w.offset
  BY DEF Base, At
<1>. QED  BY <1>1, <1>2, <1>3, BlockCells DEF Aligned

\* A write is refused, patches its block or rewrites it.
LEMMA WriteStarts ==
  ASSUME NEW w \in Request, WriteSingleBlock(w)
  PROVE  /\ req' = w /\ old' = flash /\ failed' = sr /\ UNCHANGED <<flash, sr, list>>
         /\ \/ Reject("EFI_BAD_BUFFER_SIZE")
            \/ Reject("EFI_DEVICE_ERROR") /\ (At(w) \notin Blocks \/ ReadsBeyond(w))
            \/ InBlock(w) /\ StartsPatch(w)
            \/ InBlock(w) /\ StartsRewrite(w)
<1>. DEFINE n == Len(w.data)
            short == Skew(w) + n <= 2 * Chunk
            bad == SpansBlock(w.offset, n) \/ n = 0
            outside == IF short THEN Aligned(w) + ReadLength(n) > Size ELSE At(w) > LastBlock
            inPlace == short /\ ~NeedsErase(Window(w), Skew(w), w.data)
<1>1. /\ req' = w /\ old' = flash /\ failed' = sr /\ UNCHANGED <<flash, sr, list>>
      /\ \/ bad /\ Reject("EFI_BAD_BUFFER_SIZE")
         \/ ~bad /\ outside /\ Reject("EFI_DEVICE_ERROR")
         \/ ~bad /\ ~outside /\ inPlace /\ Patch(At(w), Patched(w), Skew(w), Aligned(w), n)
         \/ ~bad /\ ~outside /\ ~inPlace /\ Rewrite(At(w), Whole(w))
  BY DEF WriteSingleBlock, At, Skew, Aligned, Window, Patched, Whole
<1>2. /\ n \in Nat /\ w.offset \in Nat /\ Chunk \in Nat /\ Chunk > 0 /\ LastBlock \in Nat
      /\ BlockSize \in Nat /\ Size \in Nat
  BY Requested, Geometry
<1>3. ASSUME ~bad
      PROVE  /\ n > 0 /\ w.offset < BlockSize /\ w.offset + n <= BlockSize
             /\ At(w) \in Nat /\ Skew(w) \in 0..(Chunk - 1) /\ Skew(w) <= w.offset
             /\ Aligned(w) \in Block(At(w)) /\ Aligned(w) \in Nat
             /\ ReadLength(n) \in Nat /\ ReadLength(n) > 0
  <2>1. n > 0 /\ w.offset < BlockSize /\ w.offset + n <= BlockSize
    BY <1>2, <1>3 DEF SpansBlock
  <2>2. ReadLength(n) \in Nat /\ ReadLength(n) > 0
    <3>1. 0 \in 0..(Chunk - 1) /\ (n < Chunk => 0 + n <= Chunk)
      BY <1>2
    <3>2. ReadLength(n) \in Nat /\ Chunk <= ReadLength(n)
      BY <1>2, <3>1, ReadCovers
    <3>. QED  BY <1>2, <3>2
  <2>. QED  BY <2>1, <2>2, Aligning
<1>4. ASSUME ~bad, ~outside PROVE InBlock(w)
  <2>1. At(w) \in Blocks
    <3>1. CASE ~short
      BY <1>2, <1>3, <1>4, <3>1 DEF Blocks
    <3>2. CASE short
      <4>1. At(w) * BlockSize \in Nat /\ At(w) * BlockSize <= Aligned(w)
        BY <1>3, <1>4, BlockCells
      <4>2. At(w) * BlockSize < Size
        BY <1>2, <1>3, <1>4, <3>2, <4>1
      <4>. QED  BY <1>3, <1>4, <4>2, BlockCells
    <3>. QED  BY <3>1, <3>2
  <2>. QED  BY <1>3, <1>4, <2>1 DEF InBlock
<1>5. ASSUME ~bad, outside PROVE At(w) \notin Blocks \/ ReadsBeyond(w)
  <2>1. CASE ~short
    BY <1>2, <1>3, <1>5, <2>1 DEF Blocks
  <2>2. CASE short
    <3>1. SUFFICES ASSUME At(w) \in Blocks PROVE w.offset - Skew(w) + ReadLength(n) > BlockSize
      BY <1>3, <1>5, <2>2 DEF ReadsBeyond, Skew
    <3>2. At(w) * BlockSize + BlockSize <= Size
      <4>1. At(w) * BlockSize + BlockSize - 1 \in Block(At(w)) /\ Block(At(w)) \subseteq Cells
            /\ At(w) * BlockSize \in Nat
        <5>1. BlockSize > 0
          BY Geometry
        <5>2. At(w) \in Nat /\ At(w) * BlockSize \in Nat
          BY <1>2, <1>3, <1>5
        <5>3. /\ At(w) * BlockSize + BlockSize - 1 \in Int
              /\ At(w) * BlockSize <= At(w) * BlockSize + BlockSize - 1
              /\ At(w) * BlockSize + BlockSize - 1 <= At(w) * BlockSize + BlockSize - 1
          BY <1>2, <5>1, <5>2
        <5>4. At(w) * BlockSize + BlockSize - 1 \in Block(At(w))
          BY ONLY <5>2, <5>3, BlockCells
        <5>5. Block(At(w)) \subseteq Cells
          BY ONLY <3>1, <5>2, BlockCells
        <5>. QED  BY <5>2, <5>4, <5>5
      <4>2. At(w) * BlockSize + BlockSize - 1 \in Cells
        BY <4>1
      <4>. QED  BY <1>2, <4>1, <4>2 DEF Cells
    <3>3. Aligned(w) + ReadLength(n) > Size /\ Aligned(w) = At(w) * BlockSize + w.offset - Skew(w)
          /\ At(w) * BlockSize \in Nat
      BY <1>3, <1>5, <2>2, BlockCells DEF Aligned
    <3>4. Skew(w) \in Int /\ w.offset \in Nat /\ ReadLength(n) \in Nat
      BY <1>2, <1>3, <1>5
    <3>. HIDE DEF n, short, bad, outside
    <3>. QED  BY ONLY <1>2, <3>2, <3>3, <3>4
  <2>. QED  BY <2>1, <2>2
<1>6. CASE bad /\ Reject("EFI_BAD_BUFFER_SIZE")
  BY <1>1, <1>6
<1>7. CASE ~bad /\ outside /\ Reject("EFI_DEVICE_ERROR")
  BY <1>1, <1>5, <1>7
<1>8. CASE ~bad /\ ~outside /\ inPlace /\ Patch(At(w), Patched(w), Skew(w), Aligned(w), n)
  <2>1. Aligned(w) + ReadLength(n) <= Size
    BY <1>2, <1>3, <1>8
  <2>. QED  BY <1>1, <1>4, <1>8, <2>1 DEF StartsPatch
<1>9. CASE ~bad /\ ~outside /\ ~inPlace /\ Rewrite(At(w), Whole(w))
  BY <1>1, <1>4, <1>9 DEF StartsRewrite
<1>. QED  BY <1>1, <1>6, <1>7, <1>8, <1>9

\* The buffer m has the data at k, and what the flash has from t on around them.
Mixed(m, t, len, k, data) ==
  /\ \A i \in 0..(BlockSize - 1) : i \in k..(k + Len(data) - 1) => m[i] = data[i - k + 1]
  /\ \A i \in 0..(BlockSize - 1) : i \notin k..(k + Len(data) - 1) /\ i < len => m[i] = flash[t + i]
  /\ \A i \in 0..(BlockSize - 1) : i < len => t + i \in Cells

\* The shadow buffer holds a block, with the new data where they belong.
LEMMA Merging ==
  ASSUME TypeOK, NEW w \in Request, NEW addr \in Nat, NEW len \in Nat, addr + len <= Size,
         NEW at \in Nat
  PROVE  /\ Merged(NorFlashRead(addr, len), at, w.data) \in [0..(BlockSize - 1) -> Bit]
         /\ Mixed(Merged(NorFlashRead(addr, len), at, w.data), addr, len, at, w.data)
         /\ \A i \in 0..(BlockSize - 1) : i < len => NorFlashRead(addr, len)[i] = flash[addr + i]
<1>. DEFINE r == NorFlashRead(addr, len)
            m == Merged(r, at, w.data)
            D == 0..(BlockSize - 1)
<1>1. DOMAIN shadow = D /\ shadow \in [D -> Bit] /\ flash \in [Cells -> Bit]
  BY DEF TypeOK
<1>2. Size \in Nat /\ Len(w.data) \in Nat /\ BlockSize \in Nat
      /\ \A i \in 1..Len(w.data) : w.data[i] \in Bit
  BY Geometry, Requested
<1>3. \A i \in D : i < len => addr + i \in Cells
  BY <1>2 DEF Cells
<1>4. /\ DOMAIN r = D /\ r \in [D -> Bit]
      /\ \A i \in D : r[i] = IF i < len THEN flash[addr + i] ELSE shadow[i]
  <2>1. r = [i \in D |-> IF i < len THEN flash[addr + i] ELSE shadow[i]]
    BY <1>1 DEF NorFlashRead
  <2>. HIDE DEF r, D
  <2>. QED  BY <1>1, <1>3, <2>1
<1>5. \A i \in D : i \in at..(at + Len(w.data) - 1) => i - at + 1 \in 1..Len(w.data)
  BY <1>2
<1>6. /\ m \in [D -> Bit]
      /\ \A i \in D : m[i] = IF i \in at..(at + Len(w.data) - 1) THEN w.data[i - at + 1] ELSE r[i]
  <2>. HIDE DEF r, D
  <2>1. m = [i \in D |-> IF i \in at..(at + Len(w.data) - 1) THEN w.data[i - at + 1] ELSE r[i]]
    BY <1>4 DEF Merged
  <2>2. \A i \in D : i \in at..(at + Len(w.data) - 1) => w.data[i - at + 1] \in Bit
    BY <1>2, <1>5
  <2>. HIDE DEF m
  <2>. QED  BY <1>4, <2>1, <2>2
<1>7. \A i \in D : i < len => r[i] = flash[addr + i]
  BY <1>4
<1>8. Mixed(m, addr, len, at, w.data)
  <2>. HIDE DEF m, r
  <2>1. \A i \in D : i \in at..(at + Len(w.data) - 1) => m[i] = w.data[i - at + 1]
    BY <1>6
  <2>2. \A i \in D : i \notin at..(at + Len(w.data) - 1) /\ i < len => m[i] = flash[addr + i]
    BY <1>6, <1>7
  <2>. QED  BY <1>3, <2>1, <2>2 DEF Mixed
<1>. QED  BY <1>6, <1>7, <1>8, Zenon

-----------------------------------------------------------------------------
(* Steps of the invariant that all requests keep                           *)

\* What the variables of the device and the call are, for the proofs below.
LEMMA Typed ==
  ASSUME TypeOK
  PROVE  /\ flash \in [Cells -> Bit] /\ old \in [Cells -> Bit] /\ locked \in [Blocks -> BOOLEAN]
         /\ shadow \in [0..(BlockSize - 1) -> Bit] /\ DOMAIN shadow = 0..(BlockSize - 1)
         /\ sr \in BOOLEAN /\ failed \in BOOLEAN
BY DEF TypeOK

LEMMA RejectKeeps ==
  ASSUME NInv, NEW result \in Statuses, Reject(result), req' \in Request,
         list' \in Erases \cup {<< <<0, FvBlocks>> >>, << >>},
         old' = flash, failed' = sr, UNCHANGED <<flash, sr>>, calls' \in 0..MaxCalls
  PROVE  NInv'
<1>1. TypeOK'
  BY DEF NInv, TypeOK, Reject, loopVars
<1>2. EraseLoop' /\ WriteLoop' /\ StillListed'
  BY DEF Reject, EraseLoop, WriteLoop, StillListed
<1>3. EraseInOrder'
  BY DEF Reject, EraseInOrder
<1>. QED  BY <1>1, <1>2, <1>3 DEF NInv

LEMMA PatchKeeps ==
  ASSUME NInv, NEW w \in Request, InBlock(w), StartsPatch(w), calls' \in 0..MaxCalls,
         req' = w, old' = flash, failed' = sr, UNCHANGED <<flash, sr, list>>
  PROVE  NInv'
<1>0. TypeOK
  BY DEF NInv
<1>1. /\ At(w) \in Nat /\ At(w) \in Blocks /\ w.offset < BlockSize
      /\ ~SpansBlock(w.offset, Len(w.data))
  <2>1. At(w) \in Nat
    BY Requested, GeometryAssumption DEF At
  <2>2. At(w) \in Blocks /\ ~SpansBlock(w.offset, Len(w.data))
    BY DEF InBlock
  <2>. QED  BY <2>1, <2>2, WriteInBlock
<1>2. /\ Aligned(w) \in Block(At(w)) /\ Aligned(w) \in Nat /\ Aligned(w) \in Cells
      /\ Skew(w) \in 0..(Chunk - 1) /\ Chunk \in Nat /\ Skew(w) \in Nat
  BY <1>1, Aligning, BlockCells, Geometry
<1>3. /\ op' = "patch" /\ pc' = "program" /\ locked' = [locked EXCEPT ![At(w)] = FALSE]
      /\ shadow' = Patched(w) /\ target' = Aligned(w) /\ chunks' \in {{0, Chunk}, {0}}
      /\ UNCHANGED <<blocks, tries, status, formatting, ready, kept>>
  BY DEF StartsPatch, Patch, Unlocked
<1>4. shadow' \in [0..(BlockSize - 1) -> Bit]
  <2>1. Aligned(w) + ReadLength(Len(w.data)) <= Size /\ ReadLength(Len(w.data)) \in Nat
    <3>1. Len(w.data) \in Nat /\ 0 \in 0..(Chunk - 1)
          /\ (Len(w.data) < Chunk => 0 + Len(w.data) <= Chunk)
      BY Requested, Geometry
    <3>. QED  BY <3>1, ReadCovers DEF StartsPatch
  <2>. QED  BY <1>0, <1>2, <1>3, <2>1, Merging DEF Patched, Window
<1>5. chunks' \subseteq 0..(BlockSize - 1) /\ chunks' # {}
  <2>1. 0 \in 0..(BlockSize - 1) /\ Chunk \in 0..(BlockSize - 1)
    BY Geometry
  <2>. QED  BY <1>3, <2>1
<1>6. locked' \in [Blocks -> BOOLEAN] /\ ~locked'[At(w)]
  BY <1>0, <1>1, <1>3 DEF TypeOK
<1>7. TypeOK'
  BY <1>0, <1>2, <1>3, <1>4, <1>5, <1>6 DEF TypeOK
<1>8. Lba' = At(w) /\ WriteRange(w) \subseteq Block(At(w))
  BY <1>1, WriteInBlock DEF Lba, At
<1>9. WriteLoop'
  BY <1>1, <1>2, <1>3, <1>5, <1>6, <1>8 DEF WriteLoop
<1>10. EraseLoop' /\ StillListed' /\ EraseInOrder'
  BY <1>3 DEF EraseLoop, StillListed, EraseInOrder
<1>. QED  BY <1>7, <1>9, <1>10 DEF NInv

LEMMA RewriteKeeps ==
  ASSUME NInv, NEW w \in Request, InBlock(w), StartsRewrite(w), calls' \in 0..MaxCalls,
         req' = w, old' = flash, failed' = sr, UNCHANGED <<flash, sr, list>>
  PROVE  NInv'
<1>0. TypeOK
  BY DEF NInv
<1>1. /\ At(w) \in Nat /\ At(w) \in Blocks /\ w.offset \in Nat
      /\ ~SpansBlock(w.offset, Len(w.data))
  BY Requested, GeometryAssumption DEF InBlock, At
<1>2. /\ At(w) * BlockSize \in Nat /\ At(w) * BlockSize \in Block(At(w))
      /\ Block(At(w)) \subseteq Cells /\ At(w) * BlockSize + BlockSize <= Size
      /\ BlockSize \in Nat
  <2>1. BlockSize \in Nat /\ BlockSize > 0 /\ Size \in Nat
    BY Geometry
  <2>2. At(w) * BlockSize \in Nat /\ Block(At(w)) \subseteq Cells
    BY <1>1, BlockCells
  <2>3. \A a \in Int : At(w) * BlockSize <= a /\ a <= At(w) * BlockSize + BlockSize - 1
                         => a \in Block(At(w))
    BY <1>1, BlockCells
  <2>4. At(w) * BlockSize \in Block(At(w)) /\ At(w) * BlockSize + BlockSize - 1 \in Block(At(w))
    BY <2>1, <2>2, <2>3
  <2>5. At(w) * BlockSize + BlockSize - 1 \in Cells
    BY <2>2, <2>4
  <2>. QED  BY <2>1, <2>2, <2>4, <2>5 DEF Cells
<1>3. /\ op' = "rewrite" /\ pc' = "erase" /\ shadow' = Whole(w) /\ target' = At(w) * BlockSize
      /\ blocks' = << <<At(w), 1>> >> /\ tries' = 0 /\ chunks' = FullChunks(Whole(w))
      /\ kept' = (kept /\ At(w) # StartLba)
      /\ UNCHANGED <<locked, status, formatting, ready>>
  BY DEF StartsRewrite, Rewrite
<1>4. shadow' \in [0..(BlockSize - 1) -> Bit]
  BY <1>0, <1>1, <1>2, <1>3, Merging DEF Whole
<1>5. chunks' \subseteq 0..(BlockSize - 1)
  BY <1>3, FullChunksCover
<1>6. blocks' \in Seq(Ranges) /\ tries' \in 0..Retry /\ kept' \in BOOLEAN /\ blocks' # << >>
  <2>1. <<At(w), 1>> \in Ranges
    BY <1>1, Geometry DEF Ranges, Blocks
  <2>. QED  BY <1>0, <1>3, <2>1, BoundsAssumption DEF TypeOK
<1>7. TypeOK'
  BY <1>0, <1>2, <1>3, <1>4, <1>5, <1>6 DEF TypeOK
<1>8. Lba' = At(w) /\ WriteRange(w) \subseteq Block(At(w))
  BY <1>1, WriteInBlock DEF Lba, At
<1>9. WriteLoop' /\ EraseLoop'
  <2>1. 0 < Retry
    BY BoundsAssumption
  <2>. QED  BY <1>1, <1>2, <1>3, <1>6, <1>8, <2>1 DEF WriteLoop, EraseLoop
<1>10. StillListed' /\ EraseInOrder'
  BY <1>3 DEF StillListed, EraseInOrder
<1>. QED  BY <1>7, <1>9, <1>10 DEF NInv

LEMMA WriteKeeps ==
  ASSUME NInv, NEW w \in Request, WriteSingleBlock(w), calls' \in 0..MaxCalls
  PROVE  NInv'
<1>1. list' \in Erases \cup {<< <<0, FvBlocks>> >>, << >>} /\ req' \in Request
  BY WriteStarts DEF NInv, TypeOK
<1>2. "EFI_BAD_BUFFER_SIZE" \in Statuses /\ "EFI_DEVICE_ERROR" \in Statuses
  BY DEF Statuses
<1>. QED  BY <1>1, <1>2, WriteStarts, RejectKeeps, PatchKeeps, RewriteKeeps

\* A list that FvbEraseBlocks accepts has blocks of the device only.
LEMMA ListInDevice ==
  ASSUME NEW ranges \in Erases \cup {<< <<0, FvBlocks>> >>, << >>}, InRange(ranges)
  PROVE  /\ InDevice(ranges) \in Seq(Ranges)
         /\ InDevice(ranges) = << >> <=> ranges = << >>
         /\ Listed(InDevice(ranges)) \subseteq Blocks
<1>1. ranges \in Seq(Nat \X Nat)
  <2>1. ranges \in Erases => ranges \in Seq(Nat \X Nat)
    BY RequestsAssumption
  <2>2. << <<0, FvBlocks>> >> \in Seq(Nat \X Nat)
    <3>1. FvBlocks \in Nat
      BY GeometryAssumption
    <3>2. <<0, FvBlocks>> \in Nat \X Nat
      BY <3>1
    <3>. QED  BY ONLY <3>2
  <2>3. << >> \in Seq(Nat \X Nat)
    BY EmptySeq
  <2>. QED  BY <2>1, <2>2, <2>3
<1>. DEFINE n == Len(ranges)
            d == InDevice(ranges)
<1>2. n \in Nat /\ DOMAIN ranges = 1..n /\ \A i \in 1..n : ranges[i] \in Nat \X Nat
  BY <1>1, LenProperties, ElementOfSeq
<1>3. \A i \in 1..n : <<StartLba + ranges[i][1], ranges[i][2]>> \in Ranges
  <2>. SUFFICES ASSUME NEW i \in 1..n
                PROVE  <<StartLba + ranges[i][1], ranges[i][2]>> \in Ranges
    OBVIOUS
  <2>1. /\ ranges[i][1] \in Nat /\ ranges[i][2] \in Nat /\ ranges[i][2] # 0
        /\ StartLba + ranges[i][1] + ranges[i][2] - 1 <= LastBlock
    BY <1>2 DEF InRange
  <2>2. LastBlock \in Nat /\ StartLba \in Nat
    BY GeometryAssumption
  <2>3. \A f, m \in Nat : m # 0 /\ StartLba + f + m - 1 <= LastBlock
          => StartLba + f \in 0..LastBlock /\ m \in 1..(LastBlock + 1)
    BY ONLY <2>2
  <2>4. StartLba + ranges[i][1] \in 0..LastBlock /\ ranges[i][2] \in 1..(LastBlock + 1)
    BY ONLY <2>1, <2>3
  <2>. QED  BY <2>1, <2>4 DEF Ranges, Blocks
<1>4. DOMAIN d = 1..n /\ \A i \in 1..n : d[i] \in Ranges
  BY <1>2, <1>3 DEF InDevice
<1>5. d \in [1..n -> Ranges]
  BY <1>2, <1>3 DEF InDevice
<1>6. d \in Seq(Ranges)
  BY <1>2, <1>5
<1>7. d = << >> <=> ranges = << >>
  <2>1. Len(d) = n
    BY <1>2, <1>5
  <2>. HIDE DEF d
  <2>. QED  BY <1>1, <1>6, <2>1, EmptySeq
<1>8. Listed(d) \subseteq Blocks
  <2>. HIDE DEF d
  <2>. QED  BY <1>4, RangeBlocks DEF Listed
<1>. QED  BY <1>6, <1>7, <1>8

LEMMA ErasesKeep ==
  ASSUME NInv, NEW ranges \in Erases \cup {<< <<0, FvBlocks>> >>}, EraseBlocks(ranges),
         formatting' \in BOOLEAN, calls' \in 0..MaxCalls
  PROVE  NInv'
<1>0. TypeOK /\ (sr => failed)
  BY DEF NInv
<1>1. list' = ranges /\ old' = flash /\ failed' = sr /\ UNCHANGED <<req, flash, sr>>
  BY DEF EraseBlocks, flashVars
<1>2. CASE Reject("EFI_INVALID_PARAMETER") \/ Reject("EFI_SUCCESS")
  <2>1. req' \in Request /\ list' \in Erases \cup {<< <<0, FvBlocks>> >>, << >>}
    BY <1>0, <1>1 DEF TypeOK
  <2>2. "EFI_INVALID_PARAMETER" \in Statuses /\ "EFI_SUCCESS" \in Statuses
    BY DEF Statuses
  <2>. QED  BY <1>1, <1>2, <2>1, <2>2, RejectKeeps
<1>3. CASE /\ InRange(ranges) /\ ranges # << >>
           /\ op' = "erase" /\ pc' = "erase"
           /\ blocks' = InDevice(ranges) /\ tries' = 0 /\ chunks' = {}
           /\ kept' = (kept /\ StartLba \notin Listed(InDevice(ranges)))
           /\ UNCHANGED <<flashVars, req, shadow, target, status, ready>>
  <2>1. /\ blocks' \in Seq(Ranges) /\ blocks' # << >>
        /\ Listed(InDevice(ranges)) \subseteq Blocks
    BY <1>3, ListInDevice
  <2>2. 0 \in 0..Retry /\ 0 < Retry
    BY BoundsAssumption
  <2>3. TypeOK'
    BY <1>0, <1>1, <1>3, <2>1, <2>2 DEF TypeOK, flashVars
  <2>4. EraseLoop' /\ WriteLoop' /\ StillListed'
    BY <1>1, <1>3, <2>1, <2>2 DEF EraseLoop, WriteLoop, StillListed
  <2>5. EraseInOrder'
    BY <1>1, <1>3, <2>1 DEF EraseInOrder
  <2>. QED  BY <1>0, <1>1, <2>3, <2>4, <2>5 DEF NInv
<1>. QED  BY <1>2, <1>3 DEF EraseBlocks

LEMMA BootKeeps ==
  ASSUME NInv, Boot
  PROVE  NInv'
<1>0. TypeOK /\ WriteLoop /\ (sr => failed)
  BY DEF NInv
<1>1. CASE EraseBlocks(<< <<0, FvBlocks>> >>) /\ formatting' = TRUE
  <2>1. calls' \in 0..MaxCalls /\ formatting' \in BOOLEAN
    BY <1>0, <1>1 DEF Boot, TypeOK
  <2>. QED  BY <1>1, <2>1, ErasesKeep
<1>2. CASE /\ pc' = "idle" /\ ready' = TRUE
           /\ op' = "none" /\ status' = "EFI_SUCCESS"
           /\ UNCHANGED <<flashVars, req, list, target, old, loopVars, shadow, formatting,
                          failed, kept, calls>>
  <2>1. TypeOK'
    BY <1>0, <1>2 DEF TypeOK, Statuses, flashVars, loopVars
  <2>2. EraseLoop' /\ WriteLoop' /\ StillListed' /\ EraseInOrder'
    BY <1>2 DEF EraseLoop, WriteLoop, StillListed, EraseInOrder
  <2>. QED  BY <1>0, <1>2, <2>1, <2>2 DEF NInv, flashVars
<1>. QED  BY <1>1, <1>2 DEF Boot

-----------------------------------------------------------------------------
(* Hardware commands                                                       *)

\* What is to be erased is a block of the device.
LEMMA Erasing ==
  ASSUME NInv, pc = "erase"
  PROVE  /\ blocks \in Seq(Ranges) /\ blocks # << >> /\ Current \in Blocks /\ Current \in Nat
         /\ op \in {"erase", "rewrite"} /\ tries < Retry
         /\ op = "erase" => chunks = {} /\ Current \in Listed(InDevice(list))
         /\ op = "rewrite" => Current = Lba /\ Remaining = << >>
<1>1. /\ blocks \in Seq(Ranges) /\ blocks # << >> /\ tries < Retry
      /\ (op = "erase" /\ chunks = {}) \/ (op = "rewrite" /\ blocks = << <<Lba, 1>> >>)
  <2>1. TypeOK /\ EraseLoop
    BY DEF NInv
  <2>2. blocks \in Seq(Ranges)
    BY <2>1 DEF TypeOK
  <2>. QED  BY <2>1, <2>2 DEF EraseLoop
<1>2. Current \in Listed(blocks) /\ Current \in Blocks /\ Current \in Nat
  BY <1>1, RemainingRanges, Geometry DEF Blocks
<1>3. op = "erase" => Current \in Listed(InDevice(list))
  BY <1>2 DEF NInv, StillListed
<1>4. op = "rewrite" => Current = Lba /\ Remaining = << >>
  <2>. SUFFICES ASSUME blocks = << <<Lba, 1>> >> PROVE Current = Lba /\ Remaining = << >>
    BY <1>1
  <2>1. blocks[1] = <<Lba, 1>>
    OBVIOUS
  <2>2. Current = Lba /\ ~(blocks[1][2] > 1)
    BY <2>1 DEF Current
  <2>3. Tail(blocks) = << >>
    OBVIOUS
  <2>. QED  BY <2>2, <2>3 DEF Remaining
<1>. QED  BY <1>1, <1>2, <1>3, <1>4

\* Erasing a block, even partly, changes no other one.
LEMMA OtherBlocks ==
  ASSUME TypeOK, NEW b \in Blocks, NEW e,
         flash' = [a \in Cells |-> IF a \in Block(b) THEN e[a] ELSE flash[a]]
  PROVE  \A c \in Blocks : c # b => \A a \in Block(c) : flash'[a] = flash[a]
<1>. SUFFICES ASSUME NEW c \in Blocks, c # b, NEW a \in Block(c) PROVE flash'[a] = flash[a]
  OBVIOUS
<1>1. b \in Nat /\ c \in Nat
  BY Geometry DEF Blocks
<1>2. a \in Cells /\ a \notin Block(b)
  BY <1>1, BlockCells, BlocksApart
<1>. QED  BY <1>2

LEMMA CutOffCells ==
  ASSUME TypeOK, NEW b \in Blocks, CutOff(b)
  PROVE  /\ flash' \in [Cells -> Bit]
         /\ \A a \in Cells \ Block(b) : flash'[a] = flash[a]
         /\ \A c \in Blocks : c # b => \A a \in Block(c) : flash'[a] = flash[a]
<1>1. PICK half \in Residues :
        flash' = [a \in Cells |-> IF a \in Block(b) THEN half[a - b * BlockSize] ELSE flash[a]]
  BY DEF CutOff
<1>2. half \in [0..(BlockSize - 1) -> Bit]
  BY BoundsAssumption
<1>3. \A a \in Block(b) : a - b * BlockSize \in 0..(BlockSize - 1)
  <2>1. b \in Nat /\ b * BlockSize \in Nat /\ BlockSize \in Nat
    BY BlockCells, Geometry DEF Blocks
  <2>. QED  BY <2>1, BlockCells
<1>4. flash' \in [Cells -> Bit]
  BY <1>1, <1>2, <1>3, Typed
<1>5. \A c \in Blocks : c # b => \A a \in Block(c) : flash'[a] = flash[a]
  <2>. DEFINE e == [a \in Cells |-> half[a - b * BlockSize]]
  <2>1. flash' = [a \in Cells |-> IF a \in Block(b) THEN e[a] ELSE flash[a]]
    BY <1>1
  <2>. HIDE DEF e
  <2>. QED  BY <2>1, OtherBlocks
<1>. QED  BY <1>1, <1>4, <1>5

\* Programming clears bits of the cells it is given.
LEMMA ProgrammedCells ==
  ASSUME TypeOK, NEW S
  PROVE  /\ Programmed(S) \in [Cells -> Bit]
         /\ \A a \in Cells : Programmed(S)[a] = IF a \in S /\ shadow[a - target] = 0
                                               THEN 0 ELSE flash[a]
BY Typed DEF Programmed, Bit

LEMMA ErasedKeeps ==
  ASSUME NInv, pc = "erase", Erased(Current), UNCHANGED <<callVars, chunks, shadow, calls>>
  PROVE  NInv'
<1>. DEFINE b == Current
<1>0. TypeOK /\ WriteLoop /\ StillListed /\ EraseInOrder /\ (sr => failed)
  BY DEF NInv
<1>1. /\ blocks \in Seq(Ranges) /\ blocks # << >> /\ b \in Blocks /\ b \in Nat
      /\ op \in {"erase", "rewrite"} /\ tries < Retry
      /\ op = "erase" => chunks = {} /\ b \in Listed(InDevice(list))
      /\ op = "rewrite" => b = Lba /\ Remaining = << >>
  BY Erasing
<1>. HIDE DEF b
<1>2. /\ flash' = [a \in Cells |-> IF a \in Block(b) THEN 1 ELSE flash[a]]
      /\ locked' = [locked EXCEPT ![b] = FALSE]
      /\ blocks' = Remaining /\ tries' = 0
      /\ UNCHANGED <<op, req, list, target, old, chunks, shadow, calls, sr, failed>>
  BY DEF Erased, Unlocked, callVars, b
<1>3. /\ pc' \in {"erase", "headers", "program", "idle"}
      /\ pc' = "erase" => Remaining # << >>
      /\ pc' = "headers" => op = "erase"
      /\ pc' = "program" => Remaining = << >> /\ chunks # {}
      /\ pc' = "idle" => status' = "EFI_SUCCESS"
      /\ status' \in Statuses /\ formatting' \in BOOLEAN /\ ready' \in BOOLEAN /\ kept' \in BOOLEAN
  <2>1. \/ Remaining # << >> /\ Continue("erase")
        \/ op = "erase" /\ Continue("headers")
        \/ Remaining = << >> /\ chunks # {} /\ Continue("program")
        \/ Done("EFI_SUCCESS")
    BY DEF Erased
  <2>2. status \in Statuses /\ formatting \in BOOLEAN /\ ready \in BOOLEAN /\ kept \in BOOLEAN
    BY <1>0 DEF TypeOK
  <2>. QED  BY <2>1, <2>2 DEF Continue, Done, Statuses
<1>4. /\ Remaining \in Seq(Ranges)
      /\ Listed(Remaining) \subseteq Listed(blocks)
      /\ Listed(blocks) \subseteq Listed(Remaining) \cup {b}
      /\ Disjoint(blocks) => Disjoint(Remaining) /\ b \notin Listed(Remaining)
  BY <1>1, RemainingRanges DEF b
<1>5. /\ flash' \in [Cells -> Bit] /\ locked' \in [Blocks -> BOOLEAN] /\ ~locked'[b]
      /\ 0 \in 0..Retry /\ 0 < Retry
  <2>1. flash \in [Cells -> Bit] /\ locked \in [Blocks -> BOOLEAN]
    BY <1>0, Typed
  <2>2. flash' \in [Cells -> Bit]
    BY <1>2, <2>1 DEF Bit
  <2>3. locked' \in [Blocks -> BOOLEAN] /\ ~locked'[b]
    BY <1>1, <1>2, <2>1
  <2>. QED  BY <2>2, <2>3, BoundsAssumption
<1>6. TypeOK'
  BY <1>0, <1>2, <1>3, <1>4, <1>5 DEF TypeOK
<1>7. EraseLoop'
  BY <1>1, <1>2, <1>3, <1>5 DEF EraseLoop
<1>8. WriteLoop'
  <2>1. Lba' = Lba
    BY <1>2 DEF Lba
  <2>2. pc' = "program" => op = "rewrite" /\ b = Lba
    BY <1>1, <1>3
  <2>. QED  BY <1>0, <1>2, <1>3, <1>5, <2>1, <2>2 DEF WriteLoop
<1>9. StillListed'
  BY <1>0, <1>2, <1>4 DEF StillListed
<1>10. EraseInOrder'
  <2>1. \A c \in Blocks : c # b => \A a \in Block(c) : flash'[a] = flash[a]
    <3>. DEFINE e == [a \in Cells |-> 1]
    <3>1. flash' = [a \in Cells |-> IF a \in Block(b) THEN e[a] ELSE flash[a]]
      BY <1>2
    <3>. HIDE DEF e
    <3>. QED  BY <1>0, <1>1, <3>1, OtherBlocks
  <2>2. \A a \in Block(b) : flash'[a] = 1
    BY <1>1, <1>2, BlockCells
  <2>3. SUFFICES ASSUME op = "erase"
        PROVE  /\ Listed(InDevice(list)) \subseteq Blocks
               /\ \A c \in Blocks \ Listed(InDevice(list)) : \A a \in Block(c) : flash'[a] = old[a]
               /\ \A c \in Listed(InDevice(list)) \ Listed(Remaining) :
                    \A a \in Block(c) : flash'[a] = 1
               /\ Disjoint(InDevice(list)) =>
                    \A c \in Listed(Remaining) : \A a \in Block(c) : flash'[a] = old[a]
    BY <1>2, <1>3 DEF EraseInOrder
  <2>4. /\ Listed(InDevice(list)) \subseteq Blocks
        /\ \A c \in Blocks \ Listed(InDevice(list)) : \A a \in Block(c) : flash[a] = old[a]
        /\ \A c \in Listed(InDevice(list)) \ Listed(blocks) : \A a \in Block(c) : flash[a] = 1
        /\ Disjoint(InDevice(list)) =>
             \A c \in Listed(blocks) : c # b => \A a \in Block(c) : flash[a] = old[a]
    BY <1>0, <2>3 DEF EraseInOrder, b
  <2>5. Listed(blocks) \subseteq Listed(InDevice(list)) /\ b \in Listed(InDevice(list))
    BY <1>0, <1>1, <2>3 DEF StillListed
  <2>6. \A c \in Blocks \ Listed(InDevice(list)) : \A a \in Block(c) : flash'[a] = old[a]
    BY <2>1, <2>4, <2>5
  <2>7. \A c \in Listed(InDevice(list)) \ Listed(Remaining) : \A a \in Block(c) : flash'[a] = 1
    BY <1>4, <2>1, <2>2, <2>4
  <2>8. ASSUME Disjoint(InDevice(list)), NEW c \in Listed(Remaining)
        PROVE  \A a \in Block(c) : flash'[a] = old[a]
    <3>1. Disjoint(blocks)
      BY <1>0, <2>3, <2>8 DEF StillListed
    <3>. QED  BY <1>4, <2>1, <2>4, <2>5, <2>8, <3>1
  <2>. QED  BY <2>4, <2>6, <2>7, <2>8
<1>. QED  BY <1>0, <1>2, <1>6, <1>7, <1>8, <1>9, <1>10 DEF NInv

LEMMA RelockedKeeps ==
  ASSUME NInv, pc = "erase", Relocked(Current), UNCHANGED <<callVars, chunks, shadow, calls>>
  PROVE  NInv'
<1>0. TypeOK /\ EraseLoop /\ WriteLoop /\ StillListed /\ EraseInOrder
  BY DEF NInv
<1>1. Current \in Blocks /\ tries < Retry
  BY Erasing
<1>2. /\ locked' = [locked EXCEPT ![Current] = TRUE] /\ sr' = FALSE /\ failed' = TRUE
      /\ tries' = tries + 1
      /\ UNCHANGED <<op, req, list, target, old, chunks, shadow, calls, flash, blocks>>
  BY DEF Relocked, callVars
<1>3. /\ pc' \in {"erase", "idle"} /\ (pc' = "erase" => tries + 1 < Retry)
      /\ pc' = "idle" => status' = "EFI_DEVICE_ERROR"
      /\ status' \in Statuses /\ formatting' \in BOOLEAN /\ ready' \in BOOLEAN /\ kept' \in BOOLEAN
  <2>1. (tries + 1 < Retry /\ Continue("erase")) \/ Done("EFI_DEVICE_ERROR")
    BY DEF Relocked
  <2>2. status \in Statuses /\ formatting \in BOOLEAN /\ ready \in BOOLEAN /\ kept \in BOOLEAN
    BY <1>0 DEF TypeOK
  <2>. QED  BY <2>1, <2>2 DEF Continue, Done, Statuses
<1>4. locked' \in [Blocks -> BOOLEAN]
  BY <1>0, <1>2 DEF TypeOK
<1>5. tries' \in 0..Retry
  BY <1>0, <1>1, <1>2, BoundsAssumption DEF TypeOK
<1>6. TypeOK'
  BY <1>0, <1>2, <1>3, <1>4, <1>5 DEF TypeOK
<1>7. Lba' = Lba /\ Current' = Current
  BY <1>2 DEF Lba, Current
<1>8. EraseLoop' /\ WriteLoop'
  BY <1>0, <1>2, <1>3, <1>7 DEF EraseLoop, WriteLoop
<1>9. StillListed' /\ EraseInOrder'
  BY <1>0, <1>2, <1>3, <1>7 DEF StillListed, EraseInOrder
<1>. QED  BY <1>2, <1>6, <1>8, <1>9 DEF NInv

LEMMA EraseFailedKeeps ==
  ASSUME NInv, pc = "erase", EraseFailed(Current), UNCHANGED <<callVars, chunks, shadow, calls>>
  PROVE  NInv'
<1>. DEFINE b == Current
<1>0. TypeOK /\ WriteLoop /\ StillListed /\ EraseInOrder
  BY DEF NInv
<1>1. b \in Blocks /\ (op = "erase" => b \in Listed(InDevice(list)))
  BY Erasing
<1>2. /\ locked' = [locked EXCEPT ![b] = FALSE] /\ sr' = FALSE /\ failed' = TRUE
      /\ pc' = "idle" /\ status' = "EFI_DEVICE_ERROR" /\ formatting' = FALSE
      /\ UNCHANGED <<op, req, list, target, old, chunks, shadow, calls, blocks, tries>>
      /\ ready' \in BOOLEAN /\ kept' \in BOOLEAN
  BY <1>0 DEF EraseFailed, callVars, Done, Unlocked, TypeOK
<1>3. /\ flash' \in [Cells -> Bit]
      /\ \A c \in Blocks : c # b => \A a \in Block(c) : flash'[a] = flash[a]
  BY <1>0, <1>1, CutOffCells DEF EraseFailed
<1>4. locked' \in [Blocks -> BOOLEAN]
  BY <1>0, <1>2 DEF TypeOK
<1>5. TypeOK'
  BY <1>0, <1>2, <1>3, <1>4 DEF TypeOK, Statuses
<1>6. Lba' = Lba /\ Current' = b
  BY <1>2 DEF Lba, Current
<1>7. EraseLoop' /\ WriteLoop' /\ StillListed'
  BY <1>0, <1>2, <1>6 DEF EraseLoop, WriteLoop, StillListed
<1>. HIDE DEF b
<1>8. EraseInOrder'
  <2>1. SUFFICES ASSUME op = "erase"
        PROVE  /\ Listed(InDevice(list)) \subseteq Blocks
               /\ \A c \in Blocks \ Listed(InDevice(list)) : \A a \in Block(c) : flash'[a] = old[a]
               /\ \A c \in Listed(InDevice(list)) \ Listed(blocks) :
                    \A a \in Block(c) : flash'[a] = 1
               /\ Disjoint(InDevice(list)) =>
                    \A c \in Listed(blocks) : c # b => \A a \in Block(c) : flash'[a] = old[a]
    BY <1>2, <1>6 DEF EraseInOrder
  <2>2. /\ Listed(InDevice(list)) \subseteq Blocks
        /\ \A c \in Blocks \ Listed(InDevice(list)) : \A a \in Block(c) : flash[a] = old[a]
        /\ \A c \in Listed(InDevice(list)) \ Listed(blocks) : \A a \in Block(c) : flash[a] = 1
        /\ Disjoint(InDevice(list)) =>
             \A c \in Listed(blocks) : c # b => \A a \in Block(c) : flash[a] = old[a]
    BY <1>0, <2>1 DEF EraseInOrder, b
  <2>3. Listed(blocks) \subseteq Listed(InDevice(list)) /\ b \in Listed(InDevice(list))
        /\ b \in Listed(blocks)
    <3>1. b \in Listed(blocks)
      BY Erasing, RemainingRanges DEF b
    <3>. QED  BY <1>0, <1>1, <2>1, <3>1 DEF StillListed
  <2>. QED  BY <1>3, <2>2, <2>3
<1>. QED  BY <1>2, <1>5, <1>7, <1>8 DEF NInv

\* A block that is programmed is unlocked: WriteBuffer is not refused.
LEMMA NotRefused ==
  ASSUME NInv, pc = "program"
  PROVE  /\ ~locked[target \div BlockSize]
         /\ op \in {"patch", "rewrite"} /\ chunks # {}
<1>1. /\ op \in {"patch", "rewrite"} /\ chunks # {} /\ ~locked[Lba]
      /\ Lba \in Blocks /\ target \in Block(Lba)
  BY DEF NInv, WriteLoop
<1>2. Lba \in Nat
  BY <1>1, Geometry DEF Blocks
<1>3. target \div BlockSize = Lba
  BY <1>1, <1>2, BlockOfCell
<1>. QED  BY <1>1, <1>3

LEMMA ProgramKeeps ==
  ASSUME NInv, ProgramChunk
  PROVE  NInv'
<1>0. TypeOK /\ WriteLoop /\ (sr => failed)
  BY DEF NInv
<1>1. /\ pc = "program" /\ op \in {"patch", "rewrite"}
      /\ UNCHANGED <<locked, op, req, list, target, old, blocks, tries, shadow, calls>>
  BY NotRefused DEF ProgramChunk, callVars
<1>2. /\ flash' \in [Cells -> Bit] /\ sr' \in BOOLEAN /\ failed' \in BOOLEAN
      /\ chunks' \subseteq 0..(BlockSize - 1) /\ (sr' => failed')
      /\ pc' \in {"program", "idle"} /\ (pc' = "program" => chunks' # {})
      /\ pc' = "idle" => status' # "EFI_INVALID_PARAMETER"
      /\ status' \in Statuses /\ formatting' \in BOOLEAN /\ ready' \in BOOLEAN /\ kept' \in BOOLEAN
  <2>0. /\ status \in Statuses /\ formatting \in BOOLEAN /\ ready \in BOOLEAN /\ kept \in BOOLEAN
        /\ chunks \subseteq 0..(BlockSize - 1) /\ flash \in [Cells -> Bit]
        /\ sr \in BOOLEAN /\ failed \in BOOLEAN
    BY <1>0 DEF TypeOK
  <2>1. CASE WriteBuffer
    <3>1. /\ flash' = Programmed(NextCells) /\ sr' = sr /\ failed' = failed
          /\ chunks' = chunks \ {Min(chunks)}
          /\ \/ Done("EFI_DEVICE_ERROR") \/ Done("EFI_SUCCESS")
             \/ chunks # {Min(chunks)} /\ Continue("program")
      BY <1>1, <2>0, <2>1, NotRefused DEF WriteBuffer
    <3>2. flash' \in [Cells -> Bit]
      BY <1>0, <3>1, ProgrammedCells
    <3>3. chunks # {Min(chunks)} => chunks \ {Min(chunks)} # {}
      BY <1>1, NotRefused
    <3>. QED  BY <1>0, <2>0, <3>1, <3>2, <3>3 DEF Done, Continue, Statuses
  <2>2. CASE WriteFailed
    <3>1. flash' \in [Cells -> Bit] /\ sr' \in BOOLEAN
      BY <1>0, <2>0, <2>2, ProgrammedCells DEF WriteFailed
    <3>2. failed' = TRUE /\ Done("EFI_DEVICE_ERROR") /\ UNCHANGED chunks
      BY <2>2 DEF WriteFailed
    <3>. QED  BY <2>0, <3>1, <3>2 DEF Done, Statuses
  <2>. QED  BY <2>1, <2>2 DEF ProgramChunk
<1>3. TypeOK'
  BY <1>0, <1>1, <1>2 DEF TypeOK
<1>4. EraseLoop' /\ StillListed' /\ EraseInOrder'
  BY <1>1, <1>2 DEF EraseLoop, StillListed, EraseInOrder
<1>5. WriteLoop'
  <2>1. Lba' = Lba
    BY <1>1 DEF Lba
  <2>. QED  BY <1>0, <1>1, <1>2, <2>1 DEF WriteLoop
<1>. QED  BY <1>2, <1>3, <1>4, <1>5 DEF NInv

LEMMA PowerLossKeeps ==
  ASSUME NInv, PowerLoss
  PROVE  NInv'
<1>0. TypeOK /\ WriteLoop
  BY DEF NInv
<1>1. /\ locked' = [b \in Blocks |-> TRUE] /\ sr' = FALSE /\ failed' = TRUE
      /\ shadow' = [i \in 0..(BlockSize - 1) |-> 0]
      /\ pc' = "boot" /\ formatting' = FALSE /\ ready' = FALSE
      /\ blocks' = << >> /\ tries' = 0 /\ chunks' = {} /\ calls' = calls + 1
      /\ UNCHANGED <<op, req, list, target, old, status, kept>>
  BY <1>0, Typed DEF PowerLoss, callVars
<1>2. flash' \in [Cells -> Bit]
  <2>1. CASE pc = "erase" /\ CutOff(Current)
    BY <1>0, <2>1, Erasing, CutOffCells
  <2>2. CASE \E S \in SUBSET NextCells : flash' = Programmed(S)
    BY <1>0, <2>2, ProgrammedCells
  <2>3. CASE UNCHANGED flash
    BY <1>0, <2>3, Typed
  <2>. QED  BY <2>1, <2>2, <2>3 DEF PowerLoss
<1>3. calls' \in 0..MaxCalls /\ tries' \in 0..Retry
  <2>1. calls < MaxCalls /\ calls \in 0..MaxCalls
    BY <1>0 DEF PowerLoss, TypeOK
  <2>. QED  BY <1>1, <2>1, BoundsAssumption
<1>4. shadow' \in [0..(BlockSize - 1) -> Bit] /\ locked' \in [Blocks -> BOOLEAN]
  BY <1>1 DEF Bit
<1>5. blocks' \in Seq(Ranges)
  BY <1>1, EmptySeq
<1>6. TypeOK'
  BY <1>0, <1>1, <1>2, <1>3, <1>4, <1>5 DEF TypeOK
<1>7. EraseLoop' /\ StillListed' /\ EraseInOrder'
  BY <1>1 DEF EraseLoop, StillListed, EraseInOrder
<1>8. WriteLoop'
  <2>1. Lba' = Lba
    BY <1>1 DEF Lba
  <2>. QED  BY <1>0, <1>1, <2>1 DEF WriteLoop
<1>. QED  BY <1>1, <1>6, <1>7, <1>8 DEF NInv

LEMMA InitNInv == Init => NInv
<1>. SUFFICES ASSUME Init PROVE NInv
  OBVIOUS
<1>1. TypeOK
  <2>1. 0 \in 0..Retry /\ 0 \in 0..MaxCalls /\ 0 \in Cells
    BY BoundsAssumption, Geometry
  <2>2. flash \in [Cells -> Bit] /\ old = flash
    BY DEF Init, Bit
  <2>3. blocks \in Seq(Ranges)
    BY EmptySeq DEF Init
  <2>. QED  BY <2>1, <2>2, <2>3 DEF Init, TypeOK, Request, Statuses, Bit
<1>2. EraseLoop /\ WriteLoop /\ StillListed /\ EraseInOrder /\ (sr => failed)
  BY DEF Init, EraseLoop, WriteLoop, StillListed, EraseInOrder
<1>. QED  BY <1>1, <1>2 DEF NInv

LEMMA NextNInv == NInv /\ [Next]_vars => NInv'
<1>. SUFFICES ASSUME NInv, [Next]_vars PROVE NInv'
  OBVIOUS
<1>0. calls \in 0..MaxCalls /\ MaxCalls \in Nat /\ formatting \in BOOLEAN
  BY BoundsAssumption DEF NInv, TypeOK
<1>1. CASE Boot
  BY <1>1, BootKeeps
<1>2. CASE InstallHeaders
  <2>1. HeaderWrite \in Request /\ calls' \in 0..MaxCalls
    BY <1>0, <1>2 DEF Request, InstallHeaders
  <2>. QED  BY <1>2, <2>1, WriteKeeps DEF InstallHeaders
<1>3. CASE EraseAttempt
  BY <1>3, ErasedKeeps, RelockedKeeps, EraseFailedKeeps DEF EraseAttempt
<1>4. CASE ProgramChunk
  BY <1>4, ProgramKeeps
<1>5. ASSUME NEW w \in Writes, FvbWrite(w) PROVE NInv'
  <2>1. w \in Request /\ calls' \in 0..MaxCalls
    BY <1>0, <1>5 DEF Request, FvbWrite
  <2>. QED  BY <1>5, <2>1, WriteKeeps DEF FvbWrite
<1>6. ASSUME NEW ranges \in Erases, FvbEraseBlocks(ranges) PROVE NInv'
  <2>1. calls' \in 0..MaxCalls /\ formatting' \in BOOLEAN
    BY <1>0, <1>6 DEF FvbEraseBlocks
  <2>. QED  BY <1>6, <2>1, ErasesKeep DEF FvbEraseBlocks
<1>7. CASE PowerLoss
  BY <1>7, PowerLossKeeps
<1>8. CASE UNCHANGED vars
  <2>1. TypeOK' /\ (sr' => failed')
    BY <1>8 DEF NInv, TypeOK, vars, flashVars, callVars, loopVars
  <2>2. EraseLoop' /\ WriteLoop' /\ StillListed'
    BY <1>8 DEF NInv, EraseLoop, WriteLoop, StillListed, Lba, vars, flashVars, callVars, loopVars
  <2>3. EraseInOrder'
    BY <1>8 DEF NInv, EraseInOrder, Current, vars, flashVars, callVars, loopVars
  <2>. QED  BY <2>1, <2>2, <2>3 DEF NInv
<1>. QED  BY <1>1, <1>2, <1>3, <1>4, <1>5, <1>6, <1>7, <1>8 DEF Next, Progress, Requests

\* Types, for every device: whatever fails, what is still to be erased or
\* programmed lies in the device.
THEOREM TypeCorrect == Spec => []TypeOK
<1>1. NInv => TypeOK
  BY DEF NInv
<1>. QED  BY InitNInv, NextNInv, <1>1, PTL DEF Spec

\* FvbEraseBlocks verifies its whole list before it erases anything, erases in
\* order, and leaves every block alone that the list does not name.
THEOREM ErasesInOrder == Spec => []EraseInOrder
<1>1. NInv => EraseInOrder
  BY DEF NInv
<1>. QED  BY InitNInv, NextNInv, <1>1, PTL DEF Spec

-----------------------------------------------------------------------------
(* Errors                                                                  *)

\* Erase lists are refused with other codes.
LEMMA EraseIsNoError ==
  ASSUME NEW ranges, EraseBlocks(ranges)
  PROVE  pc' = "idle" => status' # "EFI_DEVICE_ERROR"
BY DEF EraseBlocks, Reject

LEMMA WriteErrors ==
  ASSUME NEW w \in Request, ~ReadsBeyond(w), WriteSingleBlock(w)
  PROVE  ErrorsAreReal'
<1>1. /\ req' = w
      /\ \/ Reject("EFI_BAD_BUFFER_SIZE")
         \/ Reject("EFI_DEVICE_ERROR") /\ At(w) \notin Blocks
         \/ InBlock(w) /\ StartsPatch(w)
         \/ InBlock(w) /\ StartsRewrite(w)
  BY WriteStarts
<1>2. CASE Reject("EFI_BAD_BUFFER_SIZE")
  BY <1>2 DEF Reject, ErrorsAreReal
<1>3. CASE Reject("EFI_DEVICE_ERROR") /\ At(w) \notin Blocks
  BY <1>1, <1>3 DEF At, ErrorsAreReal
<1>4. CASE StartsPatch(w) \/ StartsRewrite(w)
  BY <1>4 DEF StartsPatch, StartsRewrite, Patch, Rewrite, ErrorsAreReal
<1>. QED  BY <1>1, <1>2, <1>3, <1>4

LEMMA CommandErrors ==
  ASSUME NInv, EraseAttempt \/ ProgramChunk
  PROVE  ErrorsAreReal'
<1>1. CASE EraseAttempt
  <2>1. \/ pc' # "idle" \/ status' = "EFI_SUCCESS" \/ failed' = TRUE
    BY <1>1 DEF EraseAttempt, Erased, Relocked, EraseFailed, Continue, Done
  <2>. QED  BY <2>1 DEF ErrorsAreReal
<1>2. CASE ProgramChunk /\ WriteBuffer
  <2>1. pc = "program" /\ ~locked[target \div BlockSize] /\ (sr => failed)
    BY <1>2, NotRefused DEF ProgramChunk, NInv
  <2>2. pc' # "idle" \/ status' = "EFI_SUCCESS" \/ failed'
    BY <1>2, <2>1 DEF WriteBuffer, Continue, Done
  <2>. QED  BY <2>2 DEF ErrorsAreReal
<1>3. CASE ProgramChunk /\ WriteFailed
  BY <1>3 DEF WriteFailed, ErrorsAreReal
<1>. QED  BY <1>1, <1>2, <1>3 DEF ProgramChunk

\* EFI_DEVICE_ERROR means that the device failed or that the block is not on it,
\* for requests whose patch is not read past the end of the block.
THEOREM ErrorsReal ==
  ASSUME \A w \in Writes : ~ReadsBeyond(w)
  PROVE  Spec => []ErrorsAreReal
<1>1. Init => ErrorsAreReal
  BY DEF Init, ErrorsAreReal
<1>2. ASSUME NInv, ErrorsAreReal, [Next]_vars PROVE ErrorsAreReal'
  <2>1. ASSUME NEW w \in Request, WriteSingleBlock(w) PROVE ErrorsAreReal'
    <3>1. ~ReadsBeyond(w)
      BY HeaderIsSound DEF Request
    <3>. QED  BY <2>1, <3>1, WriteErrors
  <2>2. CASE Boot
    <3>1. pc' = "idle" => status' # "EFI_DEVICE_ERROR"
      <4>1. CASE EraseBlocks(<< <<0, FvBlocks>> >>)
        BY <4>1, EraseIsNoError
      <4>2. CASE status' = "EFI_SUCCESS"
        BY <4>2
      <4>. QED  BY <2>2, <4>1, <4>2 DEF Boot
    <3>. QED  BY <3>1 DEF ErrorsAreReal
  <2>3. CASE InstallHeaders
    BY <2>1, <2>3 DEF InstallHeaders, Request
  <2>4. CASE EraseAttempt \/ ProgramChunk
    BY <1>2, <2>4, CommandErrors
  <2>5. CASE \E w \in Writes : FvbWrite(w)
    BY <2>1, <2>5 DEF FvbWrite, Request
  <2>6. CASE \E ranges \in Erases : FvbEraseBlocks(ranges)
    BY <2>6, EraseIsNoError DEF FvbEraseBlocks, ErrorsAreReal
  <2>7. CASE PowerLoss
    BY <2>7 DEF PowerLoss, ErrorsAreReal
  <2>8. CASE UNCHANGED vars
    BY <1>2, <2>8 DEF ErrorsAreReal, vars, flashVars, callVars
  <2>. QED  BY <1>2, <2>2, <2>3, <2>4, <2>5, <2>6, <2>7, <2>8 DEF Next, Progress, Requests
<1>. QED  BY <1>1, <1>2, InitNInv, NextNInv, PTL DEF Spec

-----------------------------------------------------------------------------
(* Writes, for requests that are read far enough before they are patched   *)

\* The next chunk is one of those to be programmed.
LEMMA MinIsIn ==
  ASSUME NEW S \in SUBSET Nat, S # {}
  PROVE  Min(S) \in S
<1>1. PICK m \in S : TRUE
  OBVIOUS
<1>. DEFINE T == {0..x : x \in S \cap (0..m)}
<1>2. T \subseteq FiniteSubsetsOf(0..m) /\ 0..m \in T
  <2>1. \A x \in S \cap (0..m) : 0..x \subseteq 0..m
    OBVIOUS
  <2>2. IsFiniteSet(0..m)
    BY <1>1, FS_Interval
  <2>. QED  BY <1>1, <2>1, <2>2, FS_FiniteSubsetsOfFinite
<1>3. PICK U \in T : \A V \in T : ~(<<V, U>> \in StrictSubsetOrdering(0..m))
  <2>. HIDE DEF T
  <2>. QED  BY <1>2, FS_StrictSubsetOrderingWellFounded, WFMin, Zenon
<1>4. PICK x \in S \cap (0..m) : U = 0..x
  OBVIOUS
<1>5. ASSUME NEW y \in S, y < x PROVE FALSE
  <2>1. 0..y \in T /\ 0..y \subseteq 0..x /\ 0..y # 0..x
    <3>1. x \in 0..x /\ x \notin 0..y
      BY <1>4, <1>5
    <3>. QED  BY <1>4, <1>5, <3>1
  <2>2. 0..y \in SUBSET (0..m) /\ 0..x \in SUBSET (0..m)
    BY <1>4, <2>1
  <2>. QED  BY <1>3, <1>4, <2>1, <2>2 DEF StrictSubsetOrdering
<1>6. \A y \in S : x =< y
  BY <1>4, <1>5
<1>. QED  BY <1>6 DEF Min

LEMMA GoalCells ==
  ASSUME NInv, op \in {"patch", "rewrite"}
  PROVE  /\ Goal = [a \in Cells |-> Goal[a]]
         /\ \A a \in Cells \ WriteRange(req) : Goal[a] = old[a]
         /\ \A a \in Cells \ Block(Lba) : Goal[a] = old[a]
<1>1. WriteRange(req) \subseteq Block(Lba)
  BY DEF NInv, WriteLoop
<1>2. \A a \in Cells \ WriteRange(req) : Goal[a] = old[a]
  BY DEF Goal, Written
<1>3. Goal = [a \in Cells |-> Goal[a]]
  BY DEF Goal, Written
<1>. QED  BY <1>1, <1>2, <1>3

\* A patch begins with the old and the new data in the shadow buffer.
LEMMA PatchStart ==
  ASSUME NInv, NEW w \in Request, ~Straddles(w), InBlock(w), StartsPatch(w),
         req' = w, old' = flash, UNCHANGED flash
  PROVE  Halfway'
<1>. DEFINE n == Len(w.data)
            A == Aligned(w)
            s == Skew(w)
            D == 0..(BlockSize - 1)
<1>0. TypeOK /\ flash \in [Cells -> Bit]
  BY Typed DEF NInv
<1>1. /\ ~SpansBlock(w.offset, n) /\ n \in Nat /\ n > 0 /\ Chunk \in Nat /\ Chunk > 0
      /\ BlockSize \in Nat /\ 3 * Chunk <= BlockSize /\ w.offset < BlockSize
  BY Requested, Geometry, WriteInBlock DEF InBlock
<1>2. A \in Nat /\ s \in 0..(Chunk - 1) /\ s \in Nat /\ A + s = Base(w)
  <2>1. A \in Nat /\ s \in 0..(Chunk - 1) /\ A + s = Base(w)
    BY <1>1, Aligning
  <2>. HIDE DEF s, A
  <2>. QED  BY <1>1, <2>1
<1>3. /\ s + n <= 2 * Chunk /\ A + ReadLength(n) <= Size
      /\ ~NeedsErase(Window(w), s, w.data)
      /\ pc' = "program" /\ shadow' = Patched(w) /\ target' = A
      /\ chunks' = IF s + n > Chunk THEN {0, Chunk} ELSE {0}
  BY DEF StartsPatch, Patch
<1>4. /\ ReadLength(n) \in Nat /\ Chunk <= ReadLength(n)
      /\ s + n > Chunk => 2 * Chunk <= ReadLength(n)
  <2>1. n < Chunk => s + n <= Chunk
    <3>1. w.offset + n <= BlockSize
      <4>. HIDE DEF n
      <4>. QED  BY <1>1, Requested DEF SpansBlock
    <3>2. ~(n < Chunk /\ s + n > Chunk)
      BY <3>1 DEF Straddles, Skew
    <3>. HIDE DEF n, s
    <3>. QED  BY <1>1, <1>2, <3>2
  <2>. QED  BY <1>1, <1>2, <2>1, ReadCovers
<1>5. /\ \A i \in D : i \in s..(s + n - 1) => shadow'[i] = w.data[i - s + 1]
      /\ \A i \in D : i \notin s..(s + n - 1) /\ i < ReadLength(n) => shadow'[i] = flash[A + i]
      /\ \A i \in D : i < ReadLength(n) => Window(w)[i] = flash[A + i]
  <2>1. s \in Nat /\ A \in Nat /\ ReadLength(n) \in Nat /\ A + ReadLength(n) <= Size
    BY <1>2, <1>3, <1>4
  <2>2. /\ Mixed(Patched(w), A, ReadLength(n), s, w.data)
        /\ \A i \in D : i < ReadLength(n) => Window(w)[i] = flash[A + i]
    BY <1>0, <2>1, Merging, Zenon DEF Patched, Window
  <2>. QED  BY <1>3, <2>2 DEF Mixed
<1>6. Goal' = [a \in Cells |-> IF a \in WriteRange(w) THEN w.data[a - Base(w) + 1] ELSE flash[a]]
  BY DEF Goal, Written, WriteRange, Base
<1>7. \A a \in Int : a \in WriteRange(w) <=> a - A \in s..(s + n - 1)
  <2>1. WriteRange(w) = (A + s)..(A + s + n - 1)
    BY <1>2 DEF WriteRange
  <2>. HIDE DEF A, s, n
  <2>. QED  BY <1>1, <1>2, <2>1
<1>8. \A j \in 1..n : Window(w)[s + j - 1] = 0 => w.data[j] # 1
  BY <1>3 DEF NeedsErase
<1>9. \A j \in 1..n : w.data[j] \in Bit
  BY Requested
<1>. DEFINE covered(a) == \E o \in chunks' : a \in (A + o)..(A + o + Chunk - 1)
<1>10. \A a \in Int : covered(a) => /\ a - A \in D /\ a - A < ReadLength(n)
                                    /\ A + (a - A) = a
  <2>. HIDE DEF A, s, n
  <2>. QED  BY <1>1, <1>2, <1>3, <1>4
<1>11. \A a \in Int : a - A \in s..(s + n - 1) => covered(a)
  <2>. SUFFICES ASSUME NEW a \in Int, a - A \in s..(s + n - 1)
                PROVE  covered(a)
    OBVIOUS
  <2>1. 0 \in chunks' /\ (s + n > Chunk => Chunk \in chunks')
    BY <1>3
  <2>2. \/ a \in (A + 0)..(A + 0 + Chunk - 1)
        \/ s + n > Chunk /\ a \in (A + Chunk)..(A + Chunk + Chunk - 1)
    <3>. HIDE DEF A, s, n
    <3>. QED  BY <1>1, <1>2, <1>3
  <2>. QED  BY <2>1, <2>2
<1>12. ASSUME NEW a \in Cells, covered(a)
       PROVE  shadow'[a - A] = Goal'[a] /\ (flash[a] = 0 => Goal'[a] = 0)
  <2>1. a \in Int /\ a - A \in D /\ a - A < ReadLength(n) /\ A + (a - A) = a
    BY <1>10, <1>12, Geometry
  <2>2. CASE a - A \in s..(s + n - 1)
    <3>. DEFINE j == a - A - s + 1
    <3>1. /\ j \in 1..n /\ s + j - 1 = a - A /\ a - Base(w) + 1 = j
      <4>. HIDE DEF A, s, n
      <4>. QED  BY <1>1, <1>2, <2>1, <2>2
    <3>2. Goal'[a] = w.data[j] /\ shadow'[a - A] = w.data[j]
      BY <1>5, <1>6, <1>7, <2>1, <2>2, <3>1
    <3>3. flash[a] = 0 => w.data[j] # 1
      <4>1. Window(w)[s + j - 1] = flash[a]
        BY <1>5, <2>1, <3>1
      <4>. HIDE DEF j
      <4>. QED  BY <1>8, <3>1, <4>1
    <3>4. w.data[j] \in Bit
      <4>. HIDE DEF j
      <4>. QED  BY <1>9, <3>1
    <3>. QED  BY <3>2, <3>3, <3>4 DEF Bit
  <2>3. CASE a - A \notin s..(s + n - 1)
    <3>1. shadow'[a - A] = flash[a]
      BY <1>5, <2>1, <2>3
    <3>2. Goal'[a] = flash[a]
      BY <1>6, <1>7, <2>1, <2>3
    <3>. QED  BY <3>1, <3>2
  <2>. QED  BY <2>2, <2>3
<1>13. ASSUME NEW a \in Cells, ~covered(a) PROVE flash[a] = Goal'[a]
  <2>1. a \in Int
    BY Geometry
  <2>. QED  BY <1>6, <1>7, <1>11, <1>13, <2>1
<1>. HIDE DEF A
<1>. QED  BY <1>3, <1>12, <1>13 DEF Halfway, ChunkCells

\* A rewrite begins with the goal for the whole block in the shadow buffer.
LEMMA RewriteStart ==
  ASSUME NInv, NEW w \in Request, InBlock(w), StartsRewrite(w),
         req' = w, old' = flash, UNCHANGED flash
  PROVE  Halfway'
<1>. DEFINE n == Len(w.data)
            T == At(w) * BlockSize
            D == 0..(BlockSize - 1)
<1>0. TypeOK /\ flash \in [Cells -> Bit]
  BY Typed DEF NInv
<1>1. /\ pc' = "erase" /\ shadow' = Whole(w) /\ target' = T /\ chunks' = FullChunks(Whole(w))
  BY DEF StartsRewrite, Rewrite
<1>2. /\ At(w) \in Nat /\ T \in Nat /\ BlockSize \in Nat /\ w.offset \in Nat /\ n \in Nat
      /\ Base(w) = T + w.offset
  <2>1. At(w) \in Nat
    BY Geometry DEF InBlock, Blocks
  <2>. QED  BY <2>1, Requested, Geometry, BlockCells DEF Base, At
<1>3. T + BlockSize <= Size
  <2>1. T + BlockSize - 1 \in Cells
    <3>1. T <= T + BlockSize - 1 /\ T + BlockSize - 1 \in Int
      BY <1>2, Geometry
    <3>2. T + BlockSize - 1 \in Block(At(w))
      BY <1>2, <3>1, BlockCells
    <3>. QED  BY <1>2, <3>2, BlockCells DEF InBlock
  <2>. QED  BY <1>2, <2>1, Geometry DEF Cells
<1>4. \A i \in D :
        /\ i \in w.offset..(w.offset + n - 1) => shadow'[i] = w.data[i - w.offset + 1]
        /\ i \notin w.offset..(w.offset + n - 1) => shadow'[i] = flash[T + i]
        /\ T + i \in Cells
  <2>1. \A i \in D : i < BlockSize
    BY <1>2
  <2>2. Mixed(Whole(w), T, BlockSize, w.offset, w.data)
    BY <1>0, <1>2, <1>3, Merging, Zenon DEF Whole
  <2>. QED  BY <1>1, <2>1, <2>2 DEF Mixed
<1>5. Goal' = [a \in Cells |-> IF a \in WriteRange(w) THEN w.data[a - Base(w) + 1] ELSE flash[a]]
  BY DEF Goal, Written, WriteRange, Base
<1>6. ASSUME NEW i \in D PROVE shadow'[i] = Goal'[T + i]
  <2>1. /\ T + i \in WriteRange(w) <=> i \in w.offset..(w.offset + n - 1)
        /\ (T + i) - Base(w) + 1 = i - w.offset + 1
    <3>1. WriteRange(w) = (T + w.offset)..(T + w.offset + n - 1)
      BY <1>2 DEF WriteRange
    <3>. HIDE DEF T, n
    <3>. QED  BY <1>2, <3>1
  <2>. QED  BY <1>4, <1>5, <2>1
<1>7. Lba' = At(w)
  BY DEF Lba, At
<1>. HIDE DEF T
<1>. QED  BY <1>1, <1>6, <1>7 DEF Halfway, T

-----------------------------------------------------------------------------
(* The steps of a write                                                    *)

LEMMA RejectIsExact ==
  ASSUME NEW result, Reject(result)
  PROVE  Halfway' /\ WriteExact' /\ WriteContained'
BY DEF Reject, Halfway, WriteExact, WriteContained

\* However a write begins, nothing is written yet.
LEMMA WriteStartIsExact ==
  ASSUME NInv, NEW w \in Request, ~Straddles(w), WriteSingleBlock(w)
  PROVE  Halfway' /\ WriteExact' /\ WriteContained'
<1>1. /\ req' = w /\ old' = flash /\ UNCHANGED flash
      /\ \/ Reject("EFI_BAD_BUFFER_SIZE") \/ Reject("EFI_DEVICE_ERROR")
         \/ (InBlock(w) /\ StartsPatch(w)) \/ (InBlock(w) /\ StartsRewrite(w))
  <2>1. /\ req' = w /\ old' = flash /\ UNCHANGED <<flash, sr, list>>
        /\ \/ Reject("EFI_BAD_BUFFER_SIZE")
           \/ Reject("EFI_DEVICE_ERROR") /\ (At(w) \notin Blocks \/ ReadsBeyond(w))
           \/ InBlock(w) /\ StartsPatch(w)
           \/ InBlock(w) /\ StartsRewrite(w)
    BY WriteStarts
  <2>. QED  BY <2>1
<1>2. CASE Reject("EFI_BAD_BUFFER_SIZE") \/ Reject("EFI_DEVICE_ERROR")
  BY <1>2, RejectIsExact
<1>3. CASE InBlock(w) /\ StartsPatch(w)
  <2>1. pc' = "program"
    BY <1>3 DEF StartsPatch, Patch
  <2>. QED  BY <1>1, <1>3, <2>1, PatchStart DEF WriteExact, WriteContained, Succeeded
<1>4. CASE InBlock(w) /\ StartsRewrite(w)
  <2>1. pc' = "erase"
    BY <1>4 DEF StartsRewrite, Rewrite
  <2>. QED  BY <1>1, <1>4, <2>1, RewriteStart DEF WriteExact, WriteContained, Succeeded
<1>. QED  BY <1>1, <1>2, <1>3, <1>4

\* When the block to be rewritten is erased, the shadow buffer holds the goal.
LEMMA ErasedIsExact ==
  ASSUME XInv, pc = "erase", Erased(Current), UNCHANGED <<callVars, chunks, shadow, calls>>
  PROVE  Halfway' /\ WriteExact' /\ WriteContained'
<1>. DEFINE covered(a) == \E o \in chunks : a \in ChunkCells(o)
<1>0. NInv /\ TypeOK /\ Halfway /\ WriteContained
  BY DEF XInv, NInv
<1>1. /\ op \in {"erase", "rewrite"}
      /\ op = "erase" => chunks = {}
      /\ op = "rewrite" => Current = Lba /\ Remaining = << >>
  BY <1>0, Erasing
<1>2. /\ flash' = [a \in Cells |-> IF a \in Block(Current) THEN 1 ELSE flash[a]]
      /\ UNCHANGED <<op, req, list, target, old, chunks, shadow>>
      /\ \/ pc' = "erase" /\ Remaining # << >>
         \/ pc' = "headers"
         \/ pc' = "program" /\ chunks # {}
         \/ pc' = "idle" /\ ((formatting /\ op = "erase") \/ chunks = {})
  BY DEF Erased, callVars, Continue, Done
<1>3. CASE op = "erase"
  BY <1>1, <1>2, <1>3 DEF Halfway, WriteExact, WriteContained
<1>4. CASE op = "rewrite"
  <2>1. /\ target = Lba * BlockSize /\ chunks = FullChunks(shadow)
        /\ \A i \in 0..(BlockSize - 1) : shadow[i] = Goal[target + i]
    BY <1>0, <1>4 DEF Halfway
  <2>2. /\ Lba \in Nat /\ Lba \in Blocks /\ BlockSize \in Nat /\ Chunk \in Nat
        /\ Lba * BlockSize \in Nat /\ \A a \in Cells : a \in Int
    <3>1. Lba \in Blocks /\ Lba \in Nat
      BY <1>0, <1>4, Geometry DEF NInv, WriteLoop, Blocks
    <3>. QED  BY <3>1, Geometry, BlockCells
  <2>3. /\ Goal = [a \in Cells |-> Goal[a]]
        /\ \A a \in Cells \ Block(Lba) : Goal[a] = old[a] /\ flash[a] = old[a]
    <3>1. \A a \in Cells \ Block(Lba) : flash[a] = old[a]
      BY <1>0, <1>4 DEF WriteContained, Lba
    <3>. QED  BY <1>0, <1>4, <3>1, GoalCells
  <2>4. shadow \in [0..(BlockSize - 1) -> Bit]
    BY <1>0, Typed
  <2>5. \A o \in chunks : o \in 0..(BlockSize - 1) /\ o + Chunk <= BlockSize
    BY <2>1, FullChunksCover
  <2>6. ASSUME NEW a \in Cells, a \in Block(Lba)
        PROVE  /\ a - target \in 0..(BlockSize - 1) /\ shadow[a - target] = Goal[a]
               /\ flash'[a] = 1 /\ (~covered(a) => Goal[a] = 1)
    <3>1. a - target \in 0..(BlockSize - 1) /\ target + (a - target) = a
      BY <2>1, <2>2, <2>6, BlockCells
    <3>2. shadow[a - target] = Goal[a] /\ flash'[a] = 1
      BY <1>1, <1>2, <1>4, <2>1, <2>6, <3>1
    <3>3. ASSUME shadow[a - target] = 0 PROVE covered(a)
      <4>1. PICK o \in chunks : a - target \in o..(o + Chunk - 1)
        BY <2>1, <3>1, <3>3, FullChunksCover
      <4>2. a \in (target + o)..(target + o + Chunk - 1)
        BY <2>1, <2>2, <2>5, <4>1
      <4>. QED  BY <4>2 DEF ChunkCells
    <3>4. shadow[a - target] \in {0, 1}
      BY <2>4, <3>1 DEF Bit
    <3>. HIDE DEF covered
    <3>. QED  BY <3>1, <3>2, <3>3, <3>4
  <2>7. ASSUME NEW a \in Cells, a \notin Block(Lba)
        PROVE  ~covered(a) /\ flash'[a] = Goal[a] /\ flash'[a] = old[a]
    <3>1. flash'[a] = Goal[a] /\ flash'[a] = old[a]
      BY <1>1, <1>2, <1>4, <2>3, <2>7
    <3>2. ASSUME NEW o \in chunks, a \in ChunkCells(o) PROVE FALSE
      <4>1. a \in Int /\ Lba * BlockSize <= a /\ a <= Lba * BlockSize + BlockSize - 1
        BY <2>1, <2>2, <2>5, <3>2 DEF ChunkCells
      <4>. QED  BY <2>2, <2>7, <4>1, BlockCells
    <3>. QED  BY <3>1, <3>2
  <2>8. Lba' = Lba /\ Goal' = Goal /\ \A o : ChunkCells(o)' = ChunkCells(o)
    BY <1>2 DEF Lba, Goal, Written, WriteRange, Base, ChunkCells
  <2>9. Halfway'
    <3>1. pc' # "erase"
      BY <1>1, <1>2, <1>4
    <3>2. \A a \in Cells : IF covered(a) THEN shadow[a - target] = Goal[a] /\ (flash'[a] = 0 => Goal[a] = 0)
                           ELSE flash'[a] = Goal[a]
      <4>. HIDE DEF covered
      <4>. QED  BY <2>6, <2>7
    <3>. QED  BY <1>2, <2>8, <3>1, <3>2 DEF Halfway
  <2>10. WriteContained'
    <3>1. \A a \in Cells \ Block(Lba) : flash'[a] = old[a]
      BY <2>7
    <3>. QED  BY <1>2, <1>4, <3>1 DEF WriteContained, Lba
  <2>11. WriteExact'
    <3>1. SUFFICES ASSUME chunks = {} PROVE flash' = Goal
      BY <1>2, <1>4, <2>8 DEF WriteExact, Succeeded, Goal
    <3>2. \A a \in Cells : flash'[a] = Goal[a]
      BY <2>6, <2>7, <3>1
    <3>. QED  BY <1>2, <2>3, <3>2
  <2>. QED  BY <2>9, <2>10, <2>11
<1>. QED  BY <1>1, <1>3, <1>4

\* An erase that does not complete touches no other block.
LEMMA CutOffIsContained ==
  ASSUME XInv, pc = "erase", CutOff(Current), UNCHANGED callVars
  PROVE  WriteContained'
<1>0. NInv /\ TypeOK /\ WriteContained
  BY DEF XInv, NInv
<1>1. Current \in Blocks /\ op \in {"erase", "rewrite"} /\ (op = "rewrite" => Current = Lba)
  BY <1>0, Erasing
<1>2. \A a \in Cells \ Block(Current) : flash'[a] = flash[a]
  BY <1>0, <1>1, CutOffCells
<1>3. UNCHANGED <<op, req, old>>
  BY DEF callVars
<1>. QED  BY <1>0, <1>1, <1>2, <1>3 DEF WriteContained, Lba

LEMMA FailedEraseIsContained ==
  ASSUME XInv, pc = "erase", Relocked(Current) \/ EraseFailed(Current),
         UNCHANGED <<callVars, chunks, shadow, calls>>
  PROVE  Halfway' /\ WriteExact' /\ WriteContained'
<1>0. Halfway /\ WriteContained
  BY DEF XInv
<1>1. UNCHANGED <<op, req, list, target, old, chunks, shadow>>
  BY DEF callVars
<1>2. CASE Relocked(Current)
  <2>1. /\ UNCHANGED flash
        /\ pc' = "erase" \/ (pc' = "idle" /\ status' = "EFI_DEVICE_ERROR")
    BY <1>2 DEF Relocked, Continue, Done
  <2>2. Lba' = Lba /\ Goal' = Goal
    BY <1>1 DEF Lba, Goal, Written, WriteRange, Base
  <2>3. Halfway'
    BY <1>0, <1>1, <2>1, <2>2 DEF Halfway
  <2>4. WriteExact' /\ WriteContained'
    BY <1>0, <1>1, <2>1 DEF WriteExact, Succeeded, WriteContained, WriteRange, Base
  <2>. QED  BY <2>3, <2>4
<1>3. CASE EraseFailed(Current)
  <2>1. CutOff(Current) /\ pc' = "idle" /\ status' = "EFI_DEVICE_ERROR"
    BY <1>3 DEF EraseFailed, Done
  <2>. QED  BY <2>1, CutOffIsContained DEF Halfway, WriteExact, Succeeded
<1>. QED  BY <1>2, <1>3

\* Programming some cells of the next chunk takes them to the goal.
LEMMA ProgrammingIsContained ==
  ASSUME XInv, pc = "program", NEW S \in SUBSET NextCells, flash' = Programmed(S),
         UNCHANGED callVars
  PROVE  /\ \A a \in S \cap Cells : flash'[a] = Goal[a] \/ flash'[a] = 1
         /\ \A a \in S \cap Cells : Goal[a] = 0 => flash'[a] = 0
         /\ \A a \in Cells : flash'[a] = flash[a] \/ flash'[a] = Goal[a]
         /\ WriteContained'
<1>0. NInv /\ TypeOK /\ Halfway /\ WriteContained
  BY DEF XInv, NInv
<1>1. op \in {"patch", "rewrite"} /\ chunks # {}
  BY <1>0, NotRefused
<1>2. Min(chunks) \in chunks
  <2>1. chunks \in SUBSET Nat
    BY <1>0 DEF TypeOK
  <2>. QED  BY <1>1, <2>1, MinIsIn
<1>3. \A a \in S \cap Cells : shadow[a - target] = Goal[a] /\ (flash[a] = 0 => Goal[a] = 0)
  BY <1>0, <1>2 DEF Halfway, NextCells
<1>4. flash \in [Cells -> Bit] /\ \A a \in Cells : flash[a] \in {0, 1}
  BY <1>0, Typed DEF Bit
<1>5. \A a \in Cells : flash'[a] = IF a \in S /\ shadow[a - target] = 0 THEN 0 ELSE flash[a]
  BY <1>0, ProgrammedCells
<1>6. \A a \in Cells : flash'[a] = flash[a] \/ flash'[a] = Goal[a]
  BY <1>3, <1>5
<1>7. /\ \A a \in S \cap Cells : flash'[a] = Goal[a] \/ flash'[a] = 1
      /\ \A a \in S \cap Cells : Goal[a] = 0 => flash'[a] = 0
  BY <1>3, <1>4, <1>5
<1>8. WriteContained'
  <2>1. /\ \A a \in Cells \ WriteRange(req) : Goal[a] = old[a]
        /\ \A a \in Cells \ Block(Lba) : Goal[a] = old[a]
    BY <1>0, <1>1, GoalCells
  <2>2. UNCHANGED <<op, req, old>>
    BY DEF callVars
  <2>3. /\ op = "rewrite" => \A a \in Cells \ Block(Lba) : flash'[a] = old[a]
        /\ op = "patch" => \A a \in Cells \ WriteRange(req) : flash'[a] = old[a]
    BY <1>0, <1>6, <2>1 DEF WriteContained, Lba
  <2>. QED  BY <2>2, <2>3 DEF WriteContained, Lba, WriteRange, Base
<1>. QED  BY <1>6, <1>7, <1>8

LEMMA ProgramIsExact ==
  ASSUME XInv, ProgramChunk
  PROVE  Halfway' /\ WriteExact' /\ WriteContained'
<1>0. NInv /\ TypeOK /\ Halfway /\ WriteContained /\ pc = "program"
  BY DEF XInv, NInv, ProgramChunk
<1>1. /\ UNCHANGED <<op, req, list, target, old, shadow>> /\ UNCHANGED callVars
      /\ op \in {"patch", "rewrite"} /\ ~locked[target \div BlockSize]
  BY <1>0, NotRefused DEF ProgramChunk, callVars
<1>2. Lba' = Lba /\ Goal' = Goal /\ \A o : ChunkCells(o)' = ChunkCells(o)
  BY <1>1 DEF Lba, Goal, Written, WriteRange, Base, ChunkCells
<1>3. CASE WriteBuffer
  <2>1. /\ flash' = Programmed(NextCells) /\ chunks' = chunks \ {Min(chunks)}
        /\ \/ pc' = "idle" /\ (status' = "EFI_SUCCESS" => chunks' = {})
           \/ pc' = "program"
    BY <1>1, <1>3 DEF WriteBuffer, Done, Continue
  <2>2. /\ \A a \in NextCells \cap Cells : flash'[a] = Goal[a] \/ flash'[a] = 1
        /\ \A a \in NextCells \cap Cells : Goal[a] = 0 => flash'[a] = 0
        /\ \A a \in Cells : flash'[a] = flash[a] \/ flash'[a] = Goal[a]
        /\ WriteContained'
    BY <1>0, <1>1, <2>1, ProgrammingIsContained
  <2>3. /\ flash' = [a \in Cells |-> flash'[a]] /\ Goal = [a \in Cells |-> Goal[a]]
        /\ \A a \in Cells : Goal[a] \in {0, 1}
        /\ \A a \in Cells : flash'[a] = IF a \in NextCells /\ shadow[a - target] = 0
                                        THEN 0 ELSE flash[a]
    <3>1. Goal = [a \in Cells |-> Goal[a]]
      BY <1>0, <1>1, GoalCells
    <3>2. flash' \in [Cells -> Bit]
      BY <1>0, <2>1, ProgrammedCells
    <3>3. \A a \in Cells : Goal[a] \in {0, 1}
      <4>1. old \in [Cells -> Bit] /\ req \in Request
        BY <1>0 DEF TypeOK
      <4>2. WriteRange(req) \subseteq Block(Lba) /\ \A a \in WriteRange(req) :
              req.data[a - Base(req) + 1] \in Bit
        <5>1. WriteRange(req) \subseteq Block(Lba)
          BY <1>0, <1>1 DEF NInv, WriteLoop
        <5>2. \A a \in WriteRange(req) : a - Base(req) + 1 \in 1..Len(req.data)
          <6>1. Base(req) \in Int /\ Len(req.data) \in Nat
            <7>1. StartLba + req.lba \in Nat /\ req.offset \in Nat /\ Len(req.data) \in Nat
              BY <4>1, Requested, GeometryAssumption
            <7>2. (StartLba + req.lba) * BlockSize \in Nat
              BY <7>1, BlockCells
            <7>. QED  BY <7>1, <7>2 DEF Base
          <6>. QED  BY <6>1 DEF WriteRange
        <5>. QED  BY <4>1, <5>1, <5>2, Requested
      <4>. QED  BY <4>1, <4>2 DEF Goal, Written, Bit
    <3>4. \A a \in Cells : flash'[a] = IF a \in NextCells /\ shadow[a - target] = 0
                                       THEN 0 ELSE flash[a]
      BY <1>0, <2>1, ProgrammedCells
    <3>. QED  BY <3>1, <3>2, <3>3, <3>4
  <2>4. \A a \in Cells : a \in NextCells => flash'[a] = Goal[a]
    <3>1. Min(chunks) \in chunks
      <4>1. chunks \in SUBSET Nat /\ chunks # {}
        BY <1>0, NotRefused DEF TypeOK
      <4>. QED  BY <4>1, MinIsIn
    <3>2. \A a \in Cells : a \in NextCells => shadow[a - target] = Goal[a]
                                              /\ (flash[a] = 0 => Goal[a] = 0)
      BY <1>0, <3>1 DEF Halfway, NextCells
    <3>3. \A a \in Cells : flash[a] \in {0, 1}
      BY <1>0, Typed DEF Bit
    <3>. QED  BY <2>3, <3>2, <3>3
  <2>5. \A a \in Cells :
          IF \E o \in chunks' : a \in ChunkCells(o)
            THEN shadow[a - target] = Goal[a] /\ (flash'[a] = 0 => Goal[a] = 0)
            ELSE flash'[a] = Goal[a]
    <3>. SUFFICES ASSUME NEW a \in Cells
                  PROVE  /\ (\E o \in chunks' : a \in ChunkCells(o)) =>
                              shadow[a - target] = Goal[a] /\ (flash'[a] = 0 => Goal[a] = 0)
                         /\ ~(\E o \in chunks' : a \in ChunkCells(o)) => flash'[a] = Goal[a]
      OBVIOUS
    <3>1. IF \E o \in chunks : a \in ChunkCells(o)
            THEN shadow[a - target] = Goal[a] /\ (flash[a] = 0 => Goal[a] = 0)
            ELSE flash[a] = Goal[a]
      BY <1>0 DEF Halfway
    <3>2. CASE a \in NextCells
      <4>1. flash'[a] = Goal[a]
        BY <2>4, <3>2
      <4>2. (\E o \in chunks' : a \in ChunkCells(o)) => \E o \in chunks : a \in ChunkCells(o)
        BY <2>1
      <4>. QED  BY <3>1, <4>1, <4>2
    <3>3. CASE a \notin NextCells
      <4>1. flash'[a] = flash[a]
        BY <2>3, <3>3
      <4>2. (\E o \in chunks' : a \in ChunkCells(o)) <=> \E o \in chunks : a \in ChunkCells(o)
        BY <2>1, <3>3 DEF NextCells
      <4>. QED  BY <3>1, <4>1, <4>2
    <3>. QED  BY <3>2, <3>3
  <2>6. Halfway'
    BY <1>1, <1>2, <2>1, <2>5 DEF Halfway
  <2>7. WriteExact'
    <3>1. SUFFICES ASSUME chunks' = {} PROVE flash' = Goal
      BY <1>1, <1>2, <2>1 DEF WriteExact, Succeeded, Goal
    <3>2. \A a \in Cells : flash'[a] = Goal[a]
      BY <2>5, <3>1
    <3>. QED  BY <2>3, <3>2
  <2>. QED  BY <2>2, <2>6, <2>7
<1>4. CASE WriteFailed
  <2>1. pc' = "idle" /\ status' = "EFI_DEVICE_ERROR"
    BY <1>4 DEF WriteFailed, Done
  <2>2. Halfway' /\ WriteExact'
    BY <2>1 DEF Halfway, WriteExact, Succeeded
  <2>3. CASE UNCHANGED flash
    BY <1>0, <1>1, <2>2, <2>3 DEF WriteContained, WriteRange, Base
  <2>4. CASE \E S \in SUBSET NextCells : flash' = Programmed(S)
    BY <1>0, <1>1, <2>2, <2>4, ProgrammingIsContained
  <2>. QED  BY <1>4, <2>3, <2>4 DEF WriteFailed
<1>. QED  BY <1>3, <1>4 DEF ProgramChunk

LEMMA PowerLossIsContained ==
  ASSUME XInv, PowerLoss
  PROVE  Halfway' /\ WriteExact' /\ WriteContained'
<1>1. pc' = "boot" /\ UNCHANGED callVars /\ UNCHANGED <<op, req, list, target, old>>
  BY DEF PowerLoss, callVars
<1>2. Halfway' /\ WriteExact'
  BY <1>1 DEF Halfway, WriteExact, Succeeded
<1>3. CASE pc = "erase" /\ CutOff(Current)
  BY <1>1, <1>2, <1>3, CutOffIsContained
<1>4. CASE pc = "program" /\ \E S \in SUBSET NextCells : flash' = Programmed(S)
  BY <1>1, <1>2, <1>4, ProgrammingIsContained
<1>5. CASE UNCHANGED flash
  BY <1>1, <1>2, <1>5 DEF XInv, WriteContained, WriteRange, Base
<1>. QED  BY <1>3, <1>4, <1>5 DEF PowerLoss

LEMMA EraseStartIsExact ==
  ASSUME NEW ranges, EraseBlocks(ranges)
  PROVE  Halfway' /\ WriteExact' /\ WriteContained'
<1>1. op' \in {"none", "erase"} /\ pc' \in {"idle", "erase"}
  BY DEF EraseBlocks, Reject
<1>. QED  BY <1>1 DEF Halfway, WriteExact, WriteContained

LEMMA InitXInv == Init => XInv
<1>1. Init => Halfway /\ WriteExact /\ WriteContained
  BY DEF Init, Halfway, WriteExact, WriteContained
<1>. QED  BY <1>1, InitNInv DEF XInv

LEMMA NextXInv ==
  ASSUME \A w \in Writes : ~Straddles(w), XInv, [Next]_vars
  PROVE  XInv'
<1>0. NInv /\ NInv'
  BY NextNInv DEF XInv
<1>1. SUFFICES Halfway' /\ WriteExact' /\ WriteContained'
  BY <1>0 DEF XInv
<1>2. ASSUME NEW w \in Request, WriteSingleBlock(w)
      PROVE  Halfway' /\ WriteExact' /\ WriteContained'
  <2>1. ~Straddles(w)
    BY HeaderIsSound DEF Request
  <2>. QED  BY <1>0, <1>2, <2>1, WriteStartIsExact
<1>3. CASE Boot
  <2>1. CASE EraseBlocks(<< <<0, FvBlocks>> >>)
    BY <2>1, EraseStartIsExact
  <2>2. CASE op' = "none" /\ pc' = "idle"
    BY <2>2 DEF Halfway, WriteExact, WriteContained
  <2>. QED  BY <1>3, <2>1, <2>2 DEF Boot
<1>4. CASE InstallHeaders
  BY <1>2, <1>4 DEF InstallHeaders, Request
<1>5. CASE EraseAttempt
  BY <1>5, ErasedIsExact, FailedEraseIsContained DEF EraseAttempt
<1>6. CASE ProgramChunk
  BY <1>6, ProgramIsExact
<1>7. CASE \E w \in Writes : FvbWrite(w)
  BY <1>2, <1>7 DEF FvbWrite, Request
<1>8. CASE \E ranges \in Erases : FvbEraseBlocks(ranges)
  BY <1>8, EraseStartIsExact DEF FvbEraseBlocks
<1>9. CASE PowerLoss
  BY <1>9, PowerLossIsContained
<1>10. CASE UNCHANGED vars
  <2>1. UNCHANGED <<flash, op, req, list, target, old, chunks, shadow, pc, status>>
    BY <1>10 DEF vars, flashVars, callVars, loopVars
  <2>2. Goal' = Goal /\ Lba' = Lba /\ \A o : ChunkCells(o)' = ChunkCells(o)
    BY <2>1 DEF Lba, Goal, Written, WriteRange, Base, ChunkCells
  <2>. QED  BY <2>1, <2>2 DEF XInv, Halfway, WriteExact, Succeeded, WriteContained, Goal, Lba,
                              WriteRange, Base
<1>. QED  BY <1>3, <1>4, <1>5, <1>6, <1>7, <1>8, <1>9, <1>10 DEF Next, Progress, Requests

\* FvbWrite writes what it was given and nothing else: patch or rewrite, for
\* requests that are not shorter than a chunk and across a chunk boundary.
THEOREM WritesExact ==
  ASSUME \A w \in Writes : ~Straddles(w)
  PROVE  Spec => []WriteExact
<1>1. XInv /\ [Next]_vars => XInv'
  BY NextXInv
<1>2. XInv => WriteExact
  BY DEF XInv
<1>. QED  BY InitXInv, <1>1, <1>2, PTL DEF Spec

\* A write that fails, or is cut off by a power loss, reaches no other block, and
\* a patch nothing outside the requested range.
THEOREM WritesContained ==
  ASSUME \A w \in Writes : ~Straddles(w)
  PROVE  Spec => []WriteContained
<1>1. XInv /\ [Next]_vars => XInv'
  BY NextXInv
<1>2. XInv => WriteContained
  BY DEF XInv
<1>. QED  BY InitXInv, <1>1, <1>2, PTL DEF Spec

-----------------------------------------------------------------------------
(* The header, for a volume at the start of the region                     *)

\* No caller writes over the part of the header that is checked.
HeaderLeftAlone(w) == w.lba = 0 => w.offset >= Checked

LEMMA HeaderCells ==
  ASSUME StartLba = 0
  PROVE  \A i \in 1..Checked :
           /\ i - 1 \in Cells /\ i - 1 \in Block(0) /\ i \in 1..Len(Headers)
           /\ i - 1 \in WriteRange(HeaderWrite) /\ (i - 1) - Base(HeaderWrite) + 1 = i
<1>1. /\ Len(Headers) \in Nat /\ Len(Headers) <= Chunk /\ Checked \in 1..Len(Headers)
      /\ Chunk \in Nat /\ BlockSize \in Nat /\ 3 * Chunk <= BlockSize /\ 0 \in Blocks
  BY HeadersAssumption, LenProperties, Geometry
<1>2. Base(HeaderWrite) = 0
  <2>1. (0 + 0) * BlockSize + 0 = 0
    BY <1>1
  <2>2. HeaderWrite.lba = 0 /\ HeaderWrite.offset = 0
    BY DEF HeaderWrite
  <2>. QED  BY <2>1, <2>2 DEF Base
<1>3. WriteRange(HeaderWrite) = 0..(0 + Len(Headers) - 1)
  <2>1. HeaderWrite.data = Headers
    BY DEF HeaderWrite
  <2>. QED  BY <1>2, <2>1 DEF WriteRange
<1>4. Block(0) \subseteq Cells /\ \A a \in Int : 0 <= a /\ a <= BlockSize - 1 => a \in Block(0)
  <2>1. 0 \in Nat /\ 0 * BlockSize = 0 /\ 0 + BlockSize - 1 = BlockSize - 1
    BY <1>1
  <2>2. \A a : a \in Block(0) <=>
          a \in Int /\ 0 * BlockSize <= a /\ a <= 0 * BlockSize + BlockSize - 1
    BY <2>1, BlockCells
  <2>3. Block(0) \subseteq Cells
    BY <1>1, <2>1, BlockCells
  <2>. QED  BY <2>1, <2>2, <2>3
<1>. SUFFICES ASSUME NEW i \in 1..Checked
              PROVE  /\ i - 1 \in Cells /\ i - 1 \in Block(0) /\ i \in 1..Len(Headers)
                     /\ i - 1 \in WriteRange(HeaderWrite)
                     /\ (i - 1) - Base(HeaderWrite) + 1 = i
  OBVIOUS
<1>5. i - 1 \in Int /\ 0 <= i - 1 /\ i - 1 <= BlockSize - 1 /\ i - 1 <= 0 + Len(Headers) - 1
      /\ i \in 1..Len(Headers) /\ (i - 1) - 0 + 1 = i
  BY <1>1
<1>6. i - 1 \in Block(0) /\ i - 1 \in Cells
  BY <1>4, <1>5
<1>7. i - 1 \in WriteRange(HeaderWrite)
  BY <1>1, <1>3, <1>5
<1>. QED  BY <1>2, <1>5, <1>6, <1>7

LEMMA HeaderApart ==
  ASSUME StartLba = 0, NEW w \in Writes, HeaderLeftAlone(w)
  PROVE  \A i \in 1..Checked : i - 1 \notin WriteRange(w)
<1>1. /\ w.lba \in Nat /\ w.offset \in Nat /\ Len(w.data) \in Nat /\ BlockSize \in Nat
      /\ Checked \in Nat /\ Checked <= BlockSize
  <2>1. w \in Request
    BY DEF Request
  <2>2. Len(Headers) \in Nat /\ Len(Headers) <= Chunk /\ Checked \in 1..Len(Headers)
    BY HeadersAssumption, LenProperties
  <2>. QED  BY <2>1, <2>2, Requested, Geometry
<1>2. Base(w) = w.lba * BlockSize + w.offset
  <2>1. 0 + w.lba = w.lba
    BY <1>1
  <2>. QED  BY <2>1 DEF Base
<1>3. w.lba * BlockSize \in Nat /\ (w.lba # 0 => w.lba * BlockSize >= BlockSize)
  <2>1. w.lba >= 1 => w.lba * BlockSize >= 1 * BlockSize
    BY <1>1
  <2>. QED  BY <1>1, <2>1
<1>4. Base(w) \in Nat /\ Base(w) >= Checked
  <2>1. CASE w.lba = 0
    <3>1. w.offset >= Checked
      BY <2>1 DEF HeaderLeftAlone
    <3>. QED  BY <1>1, <1>2, <1>3, <3>1
  <2>2. CASE w.lba # 0
    BY <1>1, <1>2, <1>3, <2>2
  <2>. QED  BY <2>1, <2>2
<1>. QED  BY <1>1, <1>4 DEF WriteRange

\* What a write does to the header, and what an erase of another block does.
LEMMA HeaderKept ==
  ASSUME StartLba = 0, \A w \in Writes : HeaderLeftAlone(w),
         HInv, kept, pc = "program", \A a \in Cells : flash'[a] = flash[a] \/ flash'[a] = Goal[a]
  PROVE  ValidateFvHeader'
<1>0. /\ XInv /\ NInv /\ TypeOK /\ Formatting /\ ValidateFvHeader /\ WriteContained
      /\ op \in {"patch", "rewrite"}
  BY NotRefused DEF HInv, XInv, NInv, HeaderSurvives
<1>1. SUFFICES ASSUME NEW i \in 1..Checked PROVE flash'[i - 1] = Headers[i]
  BY DEF ValidateFvHeader
<1>2. i - 1 \in Cells /\ i - 1 \in Block(0) /\ flash[i - 1] = Headers[i]
  BY <1>0, HeaderCells DEF ValidateFvHeader
<1>3. SUFFICES Goal[i - 1] = flash[i - 1] \/ Goal[i - 1] = Headers[i]
  BY <1>2
<1>4. CASE op = "rewrite"
  <2>1. Lba # 0 /\ Lba \in Nat
    BY <1>0, <1>4, Geometry DEF Formatting, NInv, WriteLoop, Blocks
  <2>2. i - 1 \notin Block(Lba)
    BY <1>2, <2>1, BlocksApart
  <2>3. flash[i - 1] = old[i - 1]
    BY <1>0, <1>2, <1>4, <2>2 DEF WriteContained, Lba
  <2>4. Goal[i - 1] = old[i - 1]
    BY <1>0, <1>2, <2>2, GoalCells
  <2>. QED  BY <2>3, <2>4
<1>5. CASE op = "patch"
  <2>1. CASE req = HeaderWrite
    <3>1. i - 1 \in WriteRange(HeaderWrite) /\ (i - 1) - Base(HeaderWrite) + 1 = i
      BY HeaderCells
    <3>2. Goal[i - 1] = HeaderWrite.data[i]
      BY <1>2, <2>1, <3>1 DEF Goal, Written
    <3>. QED  BY <3>2 DEF HeaderWrite
  <2>2. CASE req \in Writes
    <3>1. i - 1 \notin WriteRange(req)
      BY <2>2, HeaderApart
    <3>2. flash[i - 1] = old[i - 1]
      BY <1>0, <1>2, <1>5, <3>1 DEF WriteContained
    <3>3. Goal[i - 1] = old[i - 1]
      BY <1>0, <1>2, <3>1, GoalCells
    <3>. QED  BY <3>2, <3>3
  <2>. QED  BY <1>0, <2>1, <2>2 DEF TypeOK, Request
<1>. QED  BY <1>0, <1>4, <1>5

LEMMA HeaderNotErased ==
  ASSUME StartLba = 0, HInv, kept, pc = "erase",
         \A a \in Cells \ Block(Current) : flash'[a] = flash[a]
  PROVE  ValidateFvHeader'
<1>0. NInv /\ ValidateFvHeader /\ Formatting
  BY DEF HInv, XInv, HeaderSurvives
<1>1. Current \in Nat /\ Current # 0
  <2>1. /\ Current \in Nat /\ op \in {"erase", "rewrite"} /\ (op = "rewrite" => Current = Lba)
        /\ blocks \in Seq(Ranges) /\ blocks # << >>
    BY <1>0, Erasing
  <2>2. Current \in Listed(blocks)
    BY <2>1, RemainingRanges
  <2>. QED  BY <1>0, <2>1, <2>2 DEF Formatting
<1>2. \A i \in 1..Checked : i - 1 \in Cells /\ i - 1 \notin Block(Current)
  <2>. SUFFICES ASSUME NEW i \in 1..Checked PROVE i - 1 \in Cells /\ i - 1 \notin Block(Current)
    OBVIOUS
  <2>1. i - 1 \in Cells /\ i - 1 \in Block(0)
    BY HeaderCells
  <2>. QED  BY <1>1, <2>1, BlocksApart
<1>. QED  BY <1>0, <1>2 DEF ValidateFvHeader

\* A completed format has written the header.
LEMMA Formatted ==
  ASSUME StartLba = 0, WriteExact', pc' = "idle", status' = "EFI_SUCCESS",
         op' \in {"patch", "rewrite"}, req' = HeaderWrite
  PROVE  ValidateFvHeader'
<1>1. flash' = [a \in Cells |-> IF a \in WriteRange(HeaderWrite)
                                THEN HeaderWrite.data[a - Base(HeaderWrite) + 1] ELSE old'[a]]
  BY DEF WriteExact, Succeeded, Written, WriteRange, Base
<1>2. SUFFICES ASSUME NEW i \in 1..Checked PROVE flash'[i - 1] = Headers[i]
  BY DEF ValidateFvHeader
<1>3. /\ i - 1 \in Cells /\ i - 1 \in WriteRange(HeaderWrite)
      /\ (i - 1) - Base(HeaderWrite) + 1 = i
  BY HeaderCells
<1>4. HeaderWrite.data = Headers
  BY DEF HeaderWrite
<1>. QED  BY <1>1, <1>3, <1>4

LEMMA SameHeader ==
  ASSUME HInv, UNCHANGED flash, kept' => kept
  PROVE  HeaderSurvives'
BY DEF HInv, HeaderSurvives, ValidateFvHeader

LEMMA RejectKeepsHeader ==
  ASSUME HInv, NEW result, Reject(result), UNCHANGED flash
  PROVE  Formatting' /\ HeaderSurvives'
<1>1. /\ pc' = "idle" /\ formatting' = FALSE /\ op' = "none" /\ kept' = kept
  BY DEF Reject
<1>. QED  BY <1>1, SameHeader DEF Formatting

LEMMA EraseStartKeepsHeader ==
  ASSUME HInv, NEW ranges, EraseBlocks(ranges)
  PROVE  Formatting' /\ HeaderSurvives'
<1>1. UNCHANGED flash
  BY DEF EraseBlocks, flashVars
<1>2. CASE Reject("EFI_INVALID_PARAMETER") \/ Reject("EFI_SUCCESS")
  BY <1>1, <1>2, RejectKeepsHeader
<1>3. CASE /\ op' = "erase" /\ pc' = "erase" /\ blocks' = InDevice(ranges)
           /\ kept' = (kept /\ StartLba \notin Listed(InDevice(ranges)))
  <2>1. HeaderSurvives'
    BY <1>1, <1>3, SameHeader
  <2>2. Formatting'
    BY <1>3 DEF Formatting
  <2>. QED  BY <2>1, <2>2
<1>. QED  BY <1>2, <1>3 DEF EraseBlocks

LEMMA WriteStartKeepsHeader ==
  ASSUME HInv, NEW w \in Request, WriteSingleBlock(w), formatting => w = HeaderWrite
  PROVE  Formatting' /\ HeaderSurvives'
<1>1. /\ req' = w /\ UNCHANGED <<flash, sr, list>>
      /\ \/ Reject("EFI_BAD_BUFFER_SIZE")
         \/ Reject("EFI_DEVICE_ERROR") /\ (At(w) \notin Blocks \/ ReadsBeyond(w))
         \/ InBlock(w) /\ StartsPatch(w)
         \/ InBlock(w) /\ StartsRewrite(w)
  BY WriteStarts
<1>2. CASE Reject("EFI_BAD_BUFFER_SIZE") \/ Reject("EFI_DEVICE_ERROR")
  BY <1>1, <1>2, RejectKeepsHeader
<1>3. CASE StartsPatch(w)
  <2>1. op' = "patch" /\ pc' = "program" /\ UNCHANGED <<formatting, kept>>
    BY <1>3 DEF StartsPatch, Patch
  <2>2. HeaderSurvives'
    BY <1>1, <2>1, SameHeader
  <2>. QED  BY <1>1, <2>1, <2>2 DEF Formatting
<1>4. CASE StartsRewrite(w)
  <2>1. /\ op' = "rewrite" /\ pc' = "erase" /\ kept' = (kept /\ At(w) # StartLba)
        /\ UNCHANGED formatting
    BY <1>4 DEF StartsRewrite, Rewrite
  <2>2. HeaderSurvives'
    BY <1>1, <2>1, SameHeader
  <2>3. Lba' = At(w)
    BY <1>1 DEF Lba, At
  <2>. QED  BY <1>1, <2>1, <2>2, <2>3 DEF Formatting
<1>. QED  BY <1>1, <1>2, <1>3, <1>4

LEMMA EraseAttemptKeepsHeader ==
  ASSUME StartLba = 0, HInv, XInv', EraseAttempt
  PROVE  Formatting' /\ HeaderSurvives'
<1>0. NInv /\ TypeOK /\ XInv /\ Formatting /\ pc = "erase"
  BY DEF HInv, XInv, NInv, EraseAttempt
<1>1. /\ Current \in Blocks /\ op \in {"erase", "rewrite"}
      /\ blocks \in Seq(Ranges) /\ blocks # << >>
  BY <1>0, Erasing
<1>2. UNCHANGED <<op, req, list, target, old, chunks, shadow>> /\ Lba' = Lba
  BY DEF EraseAttempt, callVars, Lba
<1>3. CASE Erased(Current)
  <2>1. /\ \A a \in Cells \ Block(Current) : flash'[a] = flash[a]
        /\ blocks' = Remaining /\ Listed(Remaining) \subseteq Listed(blocks)
    BY <1>1, <1>3, RemainingRanges DEF Erased
  <2>2. CASE /\ pc' \in {"erase", "headers", "program"}
             /\ UNCHANGED <<status, formatting, ready, kept>>
    <3>1. HeaderSurvives'
      BY <1>0, <2>1, <2>2, HeaderNotErased DEF HeaderSurvives
    <3>2. Formatting'
      BY <1>0, <1>2, <2>1, <2>2 DEF Formatting
    <3>. QED  BY <3>1, <3>2
  <2>3. CASE Done("EFI_SUCCESS") /\ ~(formatting /\ op = "erase")
    <3>1. /\ pc' = "idle" /\ status' = "EFI_SUCCESS" /\ formatting' = FALSE
          /\ kept' => kept \/ formatting
      BY <2>3 DEF Done
    <3>2. kept => ValidateFvHeader'
      BY <1>0, <2>1, HeaderNotErased
    <3>3. ASSUME formatting PROVE ValidateFvHeader'
      <4>1. op' = "rewrite" /\ req' = HeaderWrite
        BY <1>0, <1>1, <1>2, <2>3, <3>3 DEF Formatting
      <4>. QED  BY <3>1, <4>1, Formatted DEF XInv
    <3>. QED  BY <3>1, <3>2, <3>3 DEF Formatting, HeaderSurvives
  <2>. QED  BY <1>3, <2>2, <2>3 DEF Erased, Continue
<1>4. CASE Relocked(Current)
  <2>1. /\ UNCHANGED <<flash, blocks>> /\ (kept' => kept)
        /\ \/ pc' = "erase" /\ UNCHANGED formatting
           \/ pc' = "idle" /\ formatting' = FALSE
    BY <1>4 DEF Relocked, Continue, Done
  <2>2. HeaderSurvives'
    BY <2>1, SameHeader
  <2>. QED  BY <1>0, <1>2, <2>1, <2>2 DEF Formatting
<1>5. CASE EraseFailed(Current)
  <2>1. /\ CutOff(Current) /\ pc' = "idle" /\ formatting' = FALSE /\ (kept' => kept)
    BY <1>5 DEF EraseFailed, Done
  <2>2. \A a \in Cells \ Block(Current) : flash'[a] = flash[a]
    BY <1>0, <1>1, <2>1, CutOffCells
  <2>3. HeaderSurvives'
    BY <1>0, <2>1, <2>2, HeaderNotErased DEF HeaderSurvives
  <2>. QED  BY <2>1, <2>3 DEF Formatting
<1>. QED  BY <1>3, <1>4, <1>5 DEF EraseAttempt

LEMMA ProgramKeepsHeader ==
  ASSUME StartLba = 0, \A w \in Writes : HeaderLeftAlone(w), HInv, XInv', ProgramChunk
  PROVE  Formatting' /\ HeaderSurvives'
<1>0. NInv /\ TypeOK /\ XInv /\ Formatting /\ pc = "program"
  BY DEF HInv, XInv, NInv, ProgramChunk
<1>1. /\ UNCHANGED <<op, req, list, target, old, shadow>> /\ UNCHANGED callVars /\ Lba' = Lba
      /\ op \in {"patch", "rewrite"} /\ ~locked[target \div BlockSize]
  BY <1>0, NotRefused DEF ProgramChunk, callVars, Lba
<1>2. \A a \in Cells : flash'[a] = flash[a] \/ flash'[a] = Goal[a]
  <2>1. CASE UNCHANGED flash
    BY <2>1
  <2>2. CASE \E S \in SUBSET NextCells : flash' = Programmed(S)
    BY <1>0, <1>1, <2>2, ProgrammingIsContained
  <2>3. WriteBuffer => flash' = Programmed(NextCells)
    BY <1>1 DEF WriteBuffer
  <2>. QED  BY <2>1, <2>2, <2>3 DEF ProgramChunk, WriteFailed
<1>3. kept => ValidateFvHeader'
  BY <1>0, <1>2, HeaderKept
<1>4. CASE pc' = "program" /\ UNCHANGED <<formatting, kept>>
  BY <1>0, <1>1, <1>3, <1>4 DEF Formatting, HeaderSurvives
<1>5. CASE Done("EFI_DEVICE_ERROR")
  <2>1. pc' = "idle" /\ formatting' = FALSE /\ (kept' => kept)
    BY <1>5 DEF Done
  <2>. QED  BY <1>3, <2>1 DEF Formatting, HeaderSurvives
<1>6. CASE Done("EFI_SUCCESS")
  <2>1. /\ pc' = "idle" /\ status' = "EFI_SUCCESS" /\ formatting' = FALSE
        /\ kept' => kept \/ formatting
    BY <1>6 DEF Done
  <2>2. ASSUME formatting PROVE ValidateFvHeader'
    <3>1. op' \in {"patch", "rewrite"} /\ req' = HeaderWrite
      BY <1>0, <1>1, <2>2 DEF Formatting
    <3>. QED  BY <2>1, <3>1, Formatted DEF XInv
  <2>. QED  BY <1>3, <2>1, <2>2 DEF Formatting, HeaderSurvives
<1>. QED  BY <1>4, <1>5, <1>6 DEF ProgramChunk, WriteBuffer, WriteFailed, Continue

LEMMA PowerLossKeepsHeader ==
  ASSUME StartLba = 0, \A w \in Writes : HeaderLeftAlone(w), HInv, PowerLoss
  PROVE  Formatting' /\ HeaderSurvives'
<1>0. NInv /\ TypeOK /\ XInv
  BY DEF HInv, XInv, NInv
<1>1. pc' = "boot" /\ formatting' = FALSE /\ kept' = kept /\ UNCHANGED callVars
  BY DEF PowerLoss
<1>2. Formatting'
  BY <1>1 DEF Formatting
<1>3. CASE pc = "erase" /\ CutOff(Current)
  <2>1. \A a \in Cells \ Block(Current) : flash'[a] = flash[a]
    BY <1>0, <1>3, Erasing, CutOffCells
  <2>. QED  BY <1>1, <1>2, <1>3, <2>1, HeaderNotErased DEF HeaderSurvives
<1>4. CASE pc = "program" /\ \E S \in SUBSET NextCells : flash' = Programmed(S)
  <2>1. \A a \in Cells : flash'[a] = flash[a] \/ flash'[a] = Goal[a]
    BY <1>0, <1>1, <1>4, ProgrammingIsContained
  <2>. QED  BY <1>1, <1>2, <1>4, <2>1, HeaderKept DEF HeaderSurvives
<1>5. CASE UNCHANGED flash
  BY <1>1, <1>2, <1>5, SameHeader
<1>. QED  BY <1>3, <1>4, <1>5 DEF PowerLoss

LEMMA NextHInv ==
  ASSUME StartLba = 0, \A w \in Writes : ~Straddles(w) /\ HeaderLeftAlone(w), HInv, [Next]_vars
  PROVE  HInv'
<1>0. XInv /\ XInv' /\ Formatting
  BY NextXInv DEF HInv
<1>1. SUFFICES Formatting' /\ HeaderSurvives'
  BY <1>0 DEF HInv
<1>2. CASE Boot
  <2>1. CASE EraseBlocks(<< <<0, FvBlocks>> >>)
    BY <2>1, EraseStartKeepsHeader
  <2>2. CASE /\ op' = "none" /\ pc' = "idle" /\ UNCHANGED <<flashVars, formatting, kept>>
    <3>1. UNCHANGED flash /\ ~formatting
      BY <1>0, <1>2, <2>2 DEF flashVars, Boot, Formatting
    <3>2. HeaderSurvives'
      BY <2>2, <3>1, SameHeader
    <3>. QED  BY <2>2, <3>1, <3>2 DEF Formatting
  <2>. QED  BY <1>2, <2>1, <2>2 DEF Boot
<1>3. CASE InstallHeaders
  BY <1>3, WriteStartKeepsHeader DEF InstallHeaders, Request
<1>4. CASE EraseAttempt
  BY <1>0, <1>4, EraseAttemptKeepsHeader
<1>5. CASE ProgramChunk
  BY <1>0, <1>5, ProgramKeepsHeader
<1>6. ASSUME NEW w \in Writes, FvbWrite(w) PROVE Formatting' /\ HeaderSurvives'
  <2>1. w \in Request /\ ~formatting
    BY <1>0, <1>6 DEF Request, FvbWrite, Formatting
  <2>. QED  BY <1>6, <2>1, WriteStartKeepsHeader DEF FvbWrite
<1>7. CASE \E ranges \in Erases : FvbEraseBlocks(ranges)
  BY <1>7, EraseStartKeepsHeader DEF FvbEraseBlocks
<1>8. CASE PowerLoss
  BY <1>8, PowerLossKeepsHeader
<1>9. CASE UNCHANGED vars
  <2>1. UNCHANGED <<flash, op, req, pc, formatting, kept, blocks>>
    BY <1>9 DEF vars, flashVars, callVars, loopVars
  <2>2. HeaderSurvives'
    BY <2>1, SameHeader
  <2>. QED  BY <1>0, <2>1, <2>2 DEF Formatting, Lba
<1>. QED  BY <1>2, <1>3, <1>4, <1>5, <1>6, <1>7, <1>8, <1>9 DEF Next, Progress, Requests

\* The variables survive a power loss: once the volume is formatted, and as long
\* as nobody erases its first block, every boot finds a valid header, for a
\* volume at the start of the region and callers that leave the header alone.
THEOREM HeaderStays ==
  ASSUME StartLba = 0, \A w \in Writes : ~Straddles(w) /\ HeaderLeftAlone(w)
  PROVE  Spec => []HeaderSurvives
<1>1. Init => HInv
  <2>1. Init => Formatting /\ HeaderSurvives
    BY DEF Init, Formatting, HeaderSurvives
  <2>. QED  BY <2>1, InitXInv DEF HInv
<1>2. HInv /\ [Next]_vars => HInv'
  BY NextHInv
<1>3. HInv => HeaderSurvives
  BY DEF HInv
<1>. QED  BY <1>1, <1>2, <1>3, PTL DEF Spec
=============================================================================
