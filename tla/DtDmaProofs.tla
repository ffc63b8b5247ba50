---------------------------- MODULE DtDmaProofs -----------------------------
(***************************************************************************)
(* Proofs about DtDma, for memory of any size, any devices, dma-ranges and *)
(* any calls: pages are accounted for, bounced data is right both ways,    *)
(* and a device is given only what it reaches.                             *)
(***************************************************************************)
EXTENDS DtDma, TLAPS, WellFoundedInduction

-----------------------------------------------------------------------------
(* Pages and cells                                                         *)

LEMMA Multiples ==
  /\ PageSize \in Nat /\ PageSize > 0 /\ LastPage \in Nat
  /\ \A x, y \in Int : x <= y => x * PageSize <= y * PageSize
BY SizesAssumption

LEMMA Division ==
  \A a \in Nat : /\ a \div PageSize \in Nat
                 /\ (a \div PageSize) * PageSize <= a
                 /\ a < (a \div PageSize + 1) * PageSize
BY SizesAssumption

\* A cell is in a run of pages when its page is.
LEMMA PageOfCell ==
  \A f, n, a \in Nat : a \in CellsOf(f, n) <=> a \div PageSize \in PagesOf(f, n)
<1>. SUFFICES ASSUME NEW f \in Nat, NEW n \in Nat, NEW a \in Nat
              PROVE  a \in CellsOf(f, n) <=> a \div PageSize \in PagesOf(f, n)
  OBVIOUS
<1>. DEFINE q == a \div PageSize
<1>1. q \in Nat /\ q * PageSize <= a /\ a < (q + 1) * PageSize
  BY Division
<1>. HIDE DEF q
<1>2. /\ f <= q => f * PageSize <= q * PageSize
      /\ q + 1 <= f => (q + 1) * PageSize <= f * PageSize
      /\ q + 1 <= f + n => (q + 1) * PageSize <= (f + n) * PageSize
      /\ f + n <= q => (f + n) * PageSize <= q * PageSize
  BY <1>1, Multiples
<1>3. f * PageSize \in Nat /\ (f + n) * PageSize \in Nat /\ q * PageSize \in Nat /\ (q + 1) * PageSize \in Nat
  BY <1>1, Multiples
<1>4. f * PageSize <= a /\ a <= (f + n) * PageSize - 1 <=> f <= q /\ q <= f + n - 1
  BY <1>1, <1>2, <1>3
<1>5. a \in CellsOf(f, n) <=> f * PageSize <= a /\ a <= (f + n) * PageSize - 1
  BY <1>3 DEF CellsOf
<1>6. q \in PagesOf(f, n) <=> f <= q /\ q <= f + n - 1
  BY <1>1 DEF PagesOf
<1>. QED  BY <1>4, <1>5, <1>6 DEF q

\* EFI_SIZE_TO_PAGES gives enough pages, and at least one.
LEMMA EnoughPages ==
  \A b \in Nat \ {0} : SizeToPages(b) \in Nat \ {0} /\ b <= SizeToPages(b) * PageSize
<1>. SUFFICES ASSUME NEW b \in Nat \ {0}
              PROVE  SizeToPages(b) \in Nat \ {0} /\ b <= SizeToPages(b) * PageSize
  OBVIOUS
<1>. DEFINE s == (b + PageSize - 1) \div PageSize
<1>1. b + PageSize - 1 \in Nat
  BY SizesAssumption
<1>2. s \in Nat /\ b + PageSize - 1 < (s + 1) * PageSize
  BY <1>1, Division
<1>. HIDE DEF s
<1>3. (s + 1) * PageSize = s * PageSize + PageSize /\ s * PageSize \in Nat
  BY <1>2, SizesAssumption
<1>4. b <= s * PageSize
  BY <1>2, <1>3, SizesAssumption
<1>5. s # 0
  BY <1>4, SizesAssumption
<1>. QED  BY <1>2, <1>4, <1>5 DEF SizeToPages, s

\* A buffer at the start of its pages lies inside them.
LEMMA SpanInPages ==
  \A f \in Nat, b \in Nat \ {0} : Span(f * PageSize, b) \subseteq CellsOf(f, SizeToPages(b))
<1>. SUFFICES ASSUME NEW f \in Nat, NEW b \in Nat \ {0}
              PROVE  Span(f * PageSize, b) \subseteq CellsOf(f, SizeToPages(b))
  OBVIOUS
<1>1. PICK s \in Nat : s = SizeToPages(b) /\ b <= s * PageSize
  BY EnoughPages
<1>2. (f + s) * PageSize = f * PageSize + s * PageSize /\ f * PageSize \in Nat /\ s * PageSize \in Nat
  BY SizesAssumption
<1>. QED  BY <1>1, <1>2 DEF Span, CellsOf

\* The cells are those of all pages.
LEMMA CellOfPage ==
  /\ \A a \in Cells : a \in Nat /\ a \div PageSize \in Pages
  /\ \A a \in Nat : a \div PageSize \in Pages => a \in Cells
<1>1. Cells = CellsOf(0, LastPage + 1) /\ Pages = PagesOf(0, LastPage + 1)
  BY SizesAssumption DEF Cells, CellsOf, Pages, PagesOf, LastAddress
<1>2. \A a \in Cells : a \in Nat
  BY DEF Cells
<1>. QED  BY <1>1, <1>2, PageOfCell, SizesAssumption

-----------------------------------------------------------------------------
(* The inductive invariant                                                 *)

Typed ==
  /\ ram \in [Cells -> {0, 1}]
  /\ owner \in [Pages -> {"free", "driver", "bounce"}]

\* The bounce pages of a mapping.
Own(m) == IF m.page = None THEN {} ELSE PagesOf(m.page, SizeToPages(m.bytes))

Mappings ==
  \A m \in live :
    /\ m.op \in {"read", "write", "common"} /\ m.bytes \in Nat \ {0}
    /\ m.host \in Cells /\ m.host + m.bytes - 1 \in Cells
    /\ m.page \in Pages \cup {None}
    /\ m.page = None => m.addr = m.host
    /\ m.page # None => /\ m.addr = m.page * PageSize
                        /\ m.op # "common" /\ Own(m) \subseteq Pages

\* What a mapping stands on stays where it is until Unmap.
Held ==
  \A m \in live : /\ \A a \in HostCells(m) : owner[a \div PageSize] = "driver"
                  /\ \A p \in Own(m) : owner[p] = "bounce"

\* Mappings share no bounce pages, and buffers only to be read.
Apart ==
  \A l, m \in live : l # m =>
    /\ Own(l) \cap Own(m) = {}
    /\ HostCells(l) \cap HostCells(m) # {} => l.op = "read" /\ m.op = "read"

\* The Maps list has what is bounced, and every bounce page is in use.
InfoOf(m) == [dev |-> m.dev, op |-> m.op, host |-> m.host, bytes |-> m.bytes, page |-> m.page]
Listed ==
  /\ maps = {InfoOf(m) : m \in {l \in live : l.page # None}}
  /\ \A p \in Pages : owner[p] = "bounce" => \E m \in live : p \in Own(m)

\* The buffers that AllocateBuffer returned are the drivers' and apart.
BuffersHeld ==
  /\ \A b \in buffers : /\ b.first \in Pages /\ b.pages \in Nat
                        /\ PagesOf(b.first, b.pages) \subseteq Pages
                        /\ \A p \in PagesOf(b.first, b.pages) : owner[p] = "driver"
  /\ \A b, d \in buffers : b # d => PagesOf(b.first, b.pages) \cap PagesOf(d.first, d.pages) = {}

\* What a device wrote is still where it wrote it.
Arrivals ==
  \A w \in arrived : /\ w[1] \in live /\ w[1].op = "write" /\ w[2] \in 0..(w[1].bytes - 1)
                     /\ ram[w[1].addr + w[2]] = w[3]

PageInv == Typed /\ Mappings /\ Held /\ Apart /\ Listed /\ BuffersHeld
DataInv == ReadsSeeBuffer /\ Arrivals
DInv == PageInv /\ DataInv

\* The cells of a mapping: of the driver's buffer, and those the device sees.
Private(m) == HostCells(m) \cup Span(m.addr, m.bytes)

-----------------------------------------------------------------------------
(* What the invariant says of cells                                        *)

\* A mapping's cells are in memory: the driver's, or those of its bounce pages.
LEMMA CellsHeld ==
  ASSUME PageInv, NEW m \in live
  PROVE  /\ \A a \in HostCells(m) : a \in Cells /\ owner[a \div PageSize] = "driver"
         /\ \A a \in Span(m.addr, m.bytes) :
              /\ a \in Cells
              /\ m.page = None => a \in HostCells(m)
              /\ m.page # None => a \div PageSize \in Own(m) /\ owner[a \div PageSize] = "bounce"
         /\ \A i \in 0..(m.bytes - 1) : m.host + i \in HostCells(m) /\ m.addr + i \in Span(m.addr, m.bytes)
         /\ m.addr \in Nat /\ m.host \in Nat /\ m.bytes \in Nat \ {0}
<1>1. /\ m.bytes \in Nat \ {0} /\ m.host \in Nat /\ m.host + m.bytes - 1 \in Cells /\ m.addr \in Nat
      /\ m.page \in Nat
  BY SizesAssumption DEF PageInv, Mappings, Cells, Pages, None
<1>2. \A a \in HostCells(m) : a \in Cells /\ owner[a \div PageSize] = "driver"
  <2>1. LastAddress \in Int
    BY SizesAssumption DEF LastAddress
  <2>2. \A a \in HostCells(m) : a \in Cells
    BY <1>1, <2>1 DEF HostCells, Span, Cells
  <2>. QED  BY <2>2 DEF PageInv, Held
<1>3. ASSUME m.page # None, NEW a \in Span(m.addr, m.bytes)
      PROVE  a \in Cells /\ a \div PageSize \in Own(m) /\ owner[a \div PageSize] = "bounce"
  <2>1. m.addr = m.page * PageSize /\ Own(m) \subseteq Pages /\ m.page \in Nat
        /\ Own(m) = PagesOf(m.page, SizeToPages(m.bytes))
    BY <1>1, <1>3 DEF PageInv, Mappings, Own
  <2>2. SizeToPages(m.bytes) \in Nat /\ a \in Nat
    BY <1>1, <1>3, EnoughPages DEF Span
  <2>3. a \in CellsOf(m.page, SizeToPages(m.bytes))
    BY <1>1, <1>3, <2>1, SpanInPages
  <2>4. a \div PageSize \in Own(m)
    BY <2>1, <2>2, <2>3, PageOfCell
  <2>. QED  BY <2>1, <2>2, <2>4, CellOfPage DEF PageInv, Held
<1>4. m.page = None => \A a \in Span(m.addr, m.bytes) : a \in Cells /\ a \in HostCells(m)
  BY <1>2 DEF PageInv, Mappings, HostCells
<1>5. \A i \in 0..(m.bytes - 1) : m.host + i \in HostCells(m) /\ m.addr + i \in Span(m.addr, m.bytes)
  BY <1>1 DEF HostCells, Span
<1>. QED  BY <1>1, <1>2, <1>3, <1>4, <1>5

\* A device that writes disturbs no other mapping.
LEMMA WritesApart ==
  ASSUME PageInv, NEW l \in live, NEW m \in live, l # m, m.op # "read"
  PROVE  Private(m) \cap Private(l) = {}
<1>. SUFFICES ASSUME NEW a \in Private(m), a \in Private(l) PROVE FALSE
  OBVIOUS
<1>1. Own(l) \cap Own(m) = {} /\ HostCells(l) \cap HostCells(m) = {}
  BY DEF PageInv, Apart
<1>2. /\ a \in HostCells(m) \/ (m.page # None /\ a \div PageSize \in Own(m))
      /\ a \in HostCells(l) \/ (l.page # None /\ a \div PageSize \in Own(l))
  BY CellsHeld DEF Private
<1>3. /\ a \in HostCells(m) \cup HostCells(l) => owner[a \div PageSize] = "driver"
      /\ a \div PageSize \in Own(l) \cup Own(m) => owner[a \div PageSize] = "bounce"
  BY CellsHeld DEF PageInv, Held
<1>. QED  BY <1>1, <1>2, <1>3

\* What is not touched stays right, for the mappings that stay.
LEMMA Undisturbed ==
  ASSUME PageInv, DataInv, NEW L \in SUBSET live,
         \A m \in L : m.op # "common" => \A a \in Private(m) : ram'[a] = ram[a]
  PROVE  /\ \A m \in L : m.op = "read" =>
              \A i \in 0..(m.bytes - 1) : ram'[m.addr + i] = ram'[m.host + i]
         /\ \A w \in arrived : w[1] \in L => ram'[w[1].addr + w[2]] = w[3]
<1>1. ASSUME NEW m \in L, m.op # "common", NEW i \in 0..(m.bytes - 1)
      PROVE  ram'[m.addr + i] = ram[m.addr + i] /\ ram'[m.host + i] = ram[m.host + i]
  BY <1>1, CellsHeld DEF Private
<1>2. \A m \in L : m.op = "read" =>
        \A i \in 0..(m.bytes - 1) : ram'[m.addr + i] = ram'[m.host + i]
  BY <1>1 DEF DataInv, ReadsSeeBuffer
<1>3. \A w \in arrived : w[1] \in L => ram'[w[1].addr + w[2]] = w[3]
  BY <1>1 DEF DataInv, Arrivals
<1>. QED  BY <1>2, <1>3

\* The pages under a mapping: drivers' pages, and its own.
LEMMA PagesUnder ==
  ASSUME PageInv, NEW m \in live
  PROVE  /\ Own(m) \subseteq Pages /\ \A p \in Own(m) : owner[p] = "bounce"
         /\ m.page # None => m.page \in Own(m) /\ m.page \in Nat
         /\ \A a \in HostCells(m) : a \div PageSize \in Pages /\ owner[a \div PageSize] = "driver"
         /\ \A a \in Private(m) : /\ a \in Cells /\ a \div PageSize \in Pages
                                  /\ owner[a \div PageSize] = "driver" \/ a \div PageSize \in Own(m)
<1>1. Own(m) \subseteq Pages /\ \A p \in Own(m) : owner[p] = "bounce"
  BY DEF PageInv, Mappings, Held, Own
<1>2. ASSUME m.page # None PROVE m.page \in Own(m) /\ m.page \in Nat
  <2>1. m.page \in Nat /\ m.bytes \in Nat \ {0}
    BY <1>2 DEF PageInv, Mappings, Pages
  <2>2. PICK n \in Nat \ {0} : n = SizeToPages(m.bytes)
    BY <2>1, EnoughPages
  <2>. QED  BY <1>2, <2>1, <2>2 DEF Own, PagesOf
<1>3. \A a \in HostCells(m) : a \in Cells /\ a \div PageSize \in Pages /\ owner[a \div PageSize] = "driver"
  BY CellsHeld, CellOfPage
<1>4. \A a \in Span(m.addr, m.bytes) : /\ a \in Cells /\ a \div PageSize \in Pages
                                       /\ a \in HostCells(m) \/ a \div PageSize \in Own(m)
  BY CellsHeld, CellOfPage
<1>. QED  BY <1>1, <1>2, <1>3, <1>4 DEF Private

\* Mappings whose pages keep their owner are still held.
LEMMA StillHeld ==
  ASSUME PageInv, NEW S, \A p \in Pages \ S : owner'[p] = owner[p], NEW m \in live,
         \A a \in HostCells(m) : a \div PageSize \notin S,
         Own(m) \cap S = {}
  PROVE  /\ \A a \in HostCells(m) : owner'[a \div PageSize] = "driver"
         /\ \A p \in Own(m) : owner'[p] = "bounce"
BY PagesUnder

\* Pages of one owner, and the cells in them.
LEMMA RunOfPages ==
  ASSUME NEW f \in Nat, NEW n \in Nat, NEW who
  PROVE  /\ \A p \in Pages : Owned(f, n, who)[p] = IF p \in PagesOf(f, n) THEN who ELSE owner[p]
         /\ who \in {"free", "driver", "bounce"} /\ Typed =>
              Owned(f, n, who) \in [Pages -> {"free", "driver", "bounce"}]
         /\ Typed => Cleared(f, n) \in [Cells -> {0, 1}]
         /\ \A a \in Cells : a \div PageSize \notin PagesOf(f, n) => Cleared(f, n)[a] = ram[a]
<1>1. \A a \in Cells : a \div PageSize \notin PagesOf(f, n) => a \notin CellsOf(f, n)
  BY PageOfCell, CellOfPage
<1>. QED  BY <1>1 DEF Owned, Cleared, Typed

\* Copying inside memory.
LEMMA CopyTyped ==
  ASSUME Typed, NEW from \in Nat, NEW to \in Nat, NEW n \in Nat, Span(from, n) \subseteq Cells
  PROVE  /\ Copied(from, to, n) \in [Cells -> {0, 1}]
         /\ \A a \in Cells : a \notin Span(to, n) => Copied(from, to, n)[a] = ram[a]
         /\ \A i \in 0..(n - 1) : to + i \in Cells => Copied(from, to, n)[to + i] = ram[from + i]
<1>1. \A c \in Span(to, n) : from + (c - to) \in Cells
  BY DEF Span
<1>2. Copied(from, to, n) \in [Cells -> {0, 1}]
  BY <1>1 DEF Copied, Typed
<1>3. \A i \in 0..(n - 1) : to + i \in Span(to, n) /\ from + ((to + i) - to) = from + i
  BY DEF Span
<1>. QED  BY <1>2, <1>3 DEF Copied

-----------------------------------------------------------------------------
(* Steps that leave pages and mappings alone                               *)

\* Only memory changes.
LEMMA PagesKept ==
  ASSUME PageInv, UNCHANGED <<owner, maps, buffers, live>>, ram' \in [Cells -> {0, 1}]
  PROVE  PageInv'
BY DEF PageInv, Typed, Mappings, Held, Apart, Listed, BuffersHeld

\* A call that fails, or a step of something else.
LEMMA FailsKeeps ==
  ASSUME DInv, UNCHANGED <<ram, owner, maps, buffers, live, arrived>>
  PROVE  DInv'
<1>1. PageInv'
  BY PagesKept DEF DInv, PageInv, Typed
<1>2. DataInv'
  BY DEF DInv, DataInv, ReadsSeeBuffer, Arrivals
<1>. QED  BY <1>1, <1>2 DEF DInv

\* A bus master write reaches no cell of another mapping.
LEMMA DeviceWriteKeeps ==
  ASSUME DInv, NEW m \in live, NEW v \in {0, 1}, NEW i \in 0..(m.bytes - 1), DeviceWrite(m, i, v)
  PROVE  DInv'
<1>. USE DEF DInv
<1>1. /\ m.op # "read" /\ ram' = [ram EXCEPT ![m.addr + i] = v]
      /\ UNCHANGED <<owner, maps, buffers, live>>
  BY DEF DeviceWrite
<1>2. /\ m.addr + i \in Cells /\ m.addr + i \in Private(m) /\ ram \in [Cells -> {0, 1}]
      /\ m.op \in {"write", "common"} /\ m.addr \in Nat
  <2>1. m.op \in {"read", "write", "common"} /\ ram \in [Cells -> {0, 1}]
    BY DEF PageInv, Typed, Mappings
  <2>2. m.addr + i \in Span(m.addr, m.bytes) /\ m.addr \in Nat
    BY CellsHeld
  <2>. QED  BY <1>1, <2>1, <2>2, CellsHeld DEF Private
<1>3. PageInv'
  BY <1>1, <1>2, PagesKept
<1>4. \A l \in live \ {m} : \A a \in Private(l) : ram'[a] = ram[a]
  <2>. SUFFICES ASSUME NEW l \in live \ {m}, NEW a \in Private(l) PROVE ram'[a] = ram[a]
    OBVIOUS
  <2>1. a # m.addr + i
    BY <1>1, <1>2, WritesApart
  <2>. QED  BY <1>1, <1>2, <2>1, PagesUnder
<1>5. /\ \A l \in live \ {m} : l.op = "read" =>
           \A k \in 0..(l.bytes - 1) : ram'[l.addr + k] = ram'[l.host + k]
      /\ \A w \in arrived : w[1] \in live \ {m} => ram'[w[1].addr + w[2]] = w[3]
  BY <1>4, Undisturbed
<1>6. ReadsSeeBuffer'
  BY <1>1, <1>5 DEF ReadsSeeBuffer
<1>7. CASE m.op = "common"
  <2>1. \A w \in arrived : w[1] \in live \ {m}
    BY <1>7 DEF DataInv, Arrivals
  <2>. QED  BY <1>1, <1>3, <1>5, <1>6, <1>7, <2>1 DEF DataInv, Arrivals, DeviceWrite
<1>8. CASE m.op = "write"
  <2>1. arrived' = {w \in arrived : w[1] # m \/ w[2] # i} \cup {<<m, i, v>>}
    BY <1>8 DEF DeviceWrite
  <2>2. ASSUME NEW w \in arrived, w[1] # m \/ w[2] # i
        PROVE  /\ w[1] \in live /\ w[1].op = "write" /\ w[2] \in 0..(w[1].bytes - 1)
               /\ ram'[w[1].addr + w[2]] = w[3]
    <3>1. /\ w[1] \in live /\ w[1].op = "write" /\ w[2] \in 0..(w[1].bytes - 1)
          /\ ram[w[1].addr + w[2]] = w[3]
      BY DEF DataInv, Arrivals
    <3>2. CASE w[1] # m
      BY <1>5, <3>1, <3>2
    <3>3. CASE w[1] = m /\ w[2] # i
      <4>1. w[2] \in Int /\ m.addr + w[2] # m.addr + i /\ m.addr + w[2] \in Cells
        BY <1>2, <3>1, <3>3, CellsHeld
      <4>. QED  BY <1>1, <1>2, <3>1, <3>3, <4>1
    <3>. QED  BY <2>2, <3>2, <3>3
  <2>3. ram'[m.addr + i] = v
    BY <1>1, <1>2
  <2>4. Arrivals'
    BY <1>1, <1>8, <2>1, <2>2, <2>3 DEF Arrivals
  <2>. QED  BY <1>3, <1>6, <2>4 DEF DataInv
<1>. QED  BY <1>2, <1>7, <1>8

\* The processor writes only to common buffers of what is mapped.
LEMMA CpuWriteKeeps ==
  ASSUME DInv, NEW b \in Cells, NEW v \in {0, 1}, CpuWrite(b, v)
  PROVE  DInv'
<1>. USE DEF DInv
<1>1. /\ ram' = [ram EXCEPT ![b] = v] /\ owner[b \div PageSize] = "driver"
      /\ \A m \in live : m.op = "common" \/ b \notin HostCells(m)
      /\ UNCHANGED <<owner, maps, buffers, live, arrived>> /\ ram \in [Cells -> {0, 1}]
  BY DEF CpuWrite, PageInv, Typed
<1>2. PageInv'
  BY <1>1, PagesKept
<1>3. ASSUME NEW m \in live, m.op # "common", NEW a \in Private(m)
      PROVE  ram'[a] = ram[a]
  <2>1. a # b
    BY <1>1, <1>3, CellsHeld DEF Private
  <2>. QED  BY <1>1, <2>1, PagesUnder
<1>4. /\ \A l \in live : l.op = "read" =>
           \A k \in 0..(l.bytes - 1) : ram'[l.addr + k] = ram'[l.host + k]
      /\ \A w \in arrived : w[1] \in live => ram'[w[1].addr + w[2]] = w[3]
  BY <1>3, Undisturbed
<1>5. DataInv'
  BY <1>1, <1>4 DEF DataInv, ReadsSeeBuffer, Arrivals
<1>. QED  BY <1>2, <1>5


-----------------------------------------------------------------------------
(* Map                                                                     *)

\* What the callers of Map give.
LEMMA CallFacts ==
  ASSUME NEW c \in MapCalls
  PROVE  /\ c.op \in {"read", "write", "common"} /\ c.bytes \in Nat \ {0} /\ c.host \in Nat
         /\ c.host \in Cells /\ c.host + c.bytes - 1 \in Cells /\ HostCells(c) \subseteq Cells
<1>1. LastAddress \in Int
  BY SizesAssumption DEF LastAddress
<1>. QED  BY <1>1, CallsAssumption DEF Cells, HostCells, Span

\* Map within reach: the device gets the buffer itself.
LEMMA DirectMapKeeps ==
  ASSUME DInv, NEW c \in MapCalls, MayMap(c),
         live' = live \cup {Mapping(c, c.host, None)}, UNCHANGED <<ram, owner, maps, buffers, arrived>>
  PROVE  DInv'
<1>. USE DEF DInv
<1>. DEFINE new == Mapping(c, c.host, None)
<1>1. /\ new.op = c.op /\ new.host = c.host /\ new.bytes = c.bytes /\ new.addr = c.host
      /\ new.page = None /\ Own(new) = {} /\ HostCells(new) = HostCells(c)
  BY DEF Mapping, Own, HostCells
<1>. HIDE DEF new
<1>2. live' = live \cup {new}
  BY DEF new
<1>3. Mappings'
  BY <1>1, <1>2, CallFacts DEF PageInv, Mappings
<1>4. Held'
  BY <1>1, <1>2 DEF PageInv, Held, MayMap
<1>5. Apart'
  BY <1>1, <1>2 DEF PageInv, Apart, MayMap
<1>6. Listed'
  <2>1. {l \in live' : l.page # None} = {l \in live : l.page # None}
    BY <1>1, <1>2
  <2>. QED  BY <1>2, <2>1 DEF PageInv, Listed
<1>7. Typed' /\ BuffersHeld'
  BY DEF PageInv, Typed, BuffersHeld
<1>8. ReadsSeeBuffer'
  BY <1>1, <1>2 DEF DataInv, ReadsSeeBuffer
<1>9. Arrivals'
  BY <1>2 DEF DataInv, Arrivals
<1>. QED  BY <1>3, <1>4, <1>5, <1>6, <1>7, <1>8, <1>9 DEF PageInv, DataInv

\* Free pages hold nothing of a mapping or a buffer.
LEMMA FreePages ==
  ASSUME PageInv, NEW f \in Nat, NEW n \in Nat, NEW max, f \in Candidates(n, max)
  PROVE  /\ PagesOf(f, n) \subseteq Pages /\ \A p \in PagesOf(f, n) : owner[p] = "free"
         /\ \A m \in live : /\ Own(m) \cap PagesOf(f, n) = {}
                            /\ \A a \in Private(m) : a \in Cells /\ a \div PageSize \notin PagesOf(f, n)
         /\ \A b \in buffers : PagesOf(b.first, b.pages) \cap PagesOf(f, n) = {}
<1>1. PagesOf(f, n) \subseteq Pages /\ \A p \in PagesOf(f, n) : owner[p] = "free"
  BY DEF Candidates
<1>2. \A m \in live : /\ Own(m) \cap PagesOf(f, n) = {}
                      /\ \A a \in Private(m) : a \in Cells /\ a \div PageSize \notin PagesOf(f, n)
  BY <1>1, PagesUnder
<1>3. \A b \in buffers : PagesOf(b.first, b.pages) \cap PagesOf(f, n) = {}
  BY <1>1 DEF PageInv, BuffersHeld
<1>. QED  BY <1>1, <1>2, <1>3

\* Map out of reach: free pages become the bounce buffer, with the data for a read.
LEMMA BounceKeeps ==
  ASSUME DInv, NEW c \in MapCalls, MayMap(c), c.op # "common",
         NEW f \in Nat, f \in Candidates(SizeToPages(c.bytes), MaxAddress(c.dev, c.extra)),
         owner' = Owned(f, SizeToPages(c.bytes), "bounce"),
         ram' = Filled(c, f),
         maps' = maps \cup {MapInfo(c, f)},
         live' = live \cup {Mapping(c, f * PageSize, f)},
         UNCHANGED <<buffers, arrived>>
  PROVE  DInv'
<1>. USE DEF DInv
<1>. DEFINE new == Mapping(c, f * PageSize, f)
            n == SizeToPages(c.bytes)
            new_pages == PagesOf(f, n)
<1>1. n \in Nat /\ f \in Pages /\ f # None
  BY CallFacts, EnoughPages, SizesAssumption DEF Candidates, Pages, None
<1>2. /\ new.op = c.op /\ new.host = c.host /\ new.bytes = c.bytes /\ new.addr = f * PageSize
      /\ new.page = f /\ Own(new) = new_pages /\ HostCells(new) = HostCells(c) /\ InfoOf(new) = MapInfo(c, f)
  BY <1>1 DEF Mapping, Own, HostCells, InfoOf, MapInfo
<1>3. /\ new_pages \subseteq Pages /\ \A p \in new_pages : owner[p] = "free"
      /\ \A m \in live : /\ Own(m) \cap new_pages = {}
                         /\ \A a \in Private(m) : a \in Cells /\ a \div PageSize \notin new_pages
      /\ \A b \in buffers : PagesOf(b.first, b.pages) \cap new_pages = {}
  BY <1>1, FreePages
<1>4. \A p \in Pages : owner'[p] = IF p \in new_pages THEN "bounce" ELSE owner[p]
  BY <1>1, RunOfPages
<1>5. \A a \in HostCells(c) : /\ a \in Cells /\ a \div PageSize \in Pages
                              /\ owner[a \div PageSize] = "driver" /\ a \div PageSize \notin new_pages
  BY <1>3, CallFacts, CellOfPage DEF MayMap
<1>6. Span(f * PageSize, c.bytes) \subseteq CellsOf(f, n)
  BY <1>1, CallFacts, SpanInPages
<1>7. \A a \in Cells : a \div PageSize \notin new_pages => a \notin Span(f * PageSize, c.bytes)
  BY <1>1, <1>6, PageOfCell, CellOfPage
<1>8. f * PageSize \in Nat
  BY Multiples
<1>9. /\ ram' \in [Cells -> {0, 1}]
      /\ \A a \in Cells : a \div PageSize \notin new_pages => ram'[a] = ram[a]
  <2>1. CASE c.op = "read"
    <3>1. ram' = Copied(c.host, f * PageSize, c.bytes) /\ Span(c.host, c.bytes) \subseteq Cells
      BY <2>1, CallFacts DEF Filled, HostCells
    <3>. QED  BY <1>7, <1>8, <3>1, CallFacts, CopyTyped DEF PageInv
  <2>2. CASE c.op # "read"
    <3>1. ram' = Cleared(f, n)
      BY <2>2 DEF Filled
    <3>. QED  BY <1>1, <3>1, RunOfPages DEF PageInv
  <2>. QED  BY <2>1, <2>2
<1>. HIDE DEF new, n, new_pages
<1>10. live' = live \cup {new} /\ maps' = maps \cup {InfoOf(new)}
  BY <1>2 DEF new
<1>11. Typed'
  BY <1>1, <1>9, RunOfPages DEF PageInv, Typed, n
<1>12. Mappings'
  BY <1>1, <1>2, <1>3, <1>10, CallFacts DEF PageInv, Mappings
<1>13. Held'
  <2>1. ASSUME NEW m \in live
        PROVE  /\ \A a \in HostCells(m) : owner'[a \div PageSize] = "driver"
               /\ \A p \in Own(m) : owner'[p] = "bounce"
    BY <1>3, <1>4, StillHeld DEF Private
  <2>2. /\ \A a \in HostCells(new) : owner'[a \div PageSize] = "driver"
        /\ \A p \in Own(new) : owner'[p] = "bounce"
    BY <1>2, <1>3, <1>4, <1>5
  <2>. QED  BY <1>10, <2>1, <2>2 DEF Held, HostCells, Own
<1>14. Apart'
  BY <1>2, <1>3, <1>10 DEF PageInv, Apart, MayMap
<1>15. Listed'
  <2>1. {l \in live' : l.page # None} = {l \in live : l.page # None} \cup {new}
    BY <1>1, <1>2, <1>10
  <2>2. maps' = {InfoOf(m) : m \in {l \in live' : l.page # None}}
    BY <1>10, <2>1 DEF PageInv, Listed
  <2>3. \A p \in Pages : owner'[p] = "bounce" => \E m \in live' : p \in Own(m)
    BY <1>2, <1>4, <1>10 DEF PageInv, Listed
  <2>. QED  BY <2>2, <2>3 DEF Listed, InfoOf, Own
<1>16. BuffersHeld'
  BY <1>3, <1>4 DEF PageInv, BuffersHeld
<1>17. /\ \A l \in live : l.op = "read" =>
            \A k \in 0..(l.bytes - 1) : ram'[l.addr + k] = ram'[l.host + k]
       /\ \A w \in arrived : w[1] \in live => ram'[w[1].addr + w[2]] = w[3]
  BY <1>3, <1>9, Undisturbed
<1>18. ASSUME c.op = "read", NEW k \in 0..(c.bytes - 1)
       PROVE  ram'[f * PageSize + k] = ram'[c.host + k]
  <2>1. c.host + k \in HostCells(c) /\ f * PageSize + k \in Span(f * PageSize, c.bytes)
    BY <1>8, CallFacts DEF HostCells, Span
  <2>2. ram'[c.host + k] = ram[c.host + k]
    BY <1>5, <1>9, <2>1
  <2>3. f * PageSize + k \in Cells
    BY <1>1, <1>3, <1>6, <2>1, <1>8, PageOfCell, CellOfPage DEF new_pages, n
  <2>4. ram' = Copied(c.host, f * PageSize, c.bytes) /\ Span(c.host, c.bytes) \subseteq Cells
    BY <1>18, CallFacts DEF Filled, HostCells
  <2>. QED  BY <1>8, <2>2, <2>3, <2>4, CallFacts, CopyTyped DEF PageInv
<1>19. ReadsSeeBuffer'
  BY <1>2, <1>10, <1>17, <1>18 DEF ReadsSeeBuffer
<1>20. Arrivals'
  BY <1>10, <1>17 DEF DataInv, Arrivals
<1>. QED  BY <1>11, <1>12, <1>13, <1>14, <1>15, <1>16, <1>19, <1>20 DEF PageInv, DataInv

\* All of Map.
LEMMA MapKeeps ==
  ASSUME DInv, NEW c \in MapCalls, Map(c)
  PROVE  DInv'
<1>1. \A op, status : Fails(op, status) => DInv'
  BY FailsKeeps DEF Fails
<1>2. CASE OutOfReach(c) /\ ~Refused(c) /\ Bounce(c)
  <2>1. c.op # "common" /\ MayMap(c)
    BY <1>2 DEF Refused, Map
  <2>2. ASSUME NEW f \in Candidates(SizeToPages(c.bytes), MaxAddress(c.dev, c.extra)),
               owner' = Owned(f, SizeToPages(c.bytes), "bounce"),
               ram' = Filled(c, f),
               maps' = maps \cup {MapInfo(c, f)},
               live' = live \cup {Mapping(c, f * PageSize, f)},
               UNCHANGED <<buffers, arrived>>
        PROVE  DInv'
    <3>1. f \in Nat
      BY DEF Candidates, Pages
    <3>. QED  BY <2>1, <2>2, <3>1, BounceKeeps
  <2>. QED  BY <1>1, <1>2, <2>2 DEF Bounce
<1>3. CASE /\ MayMap(c) /\ live' = live \cup {Mapping(c, c.host, None)}
           /\ UNCHANGED <<ram, owner, maps, buffers, arrived>>
  BY <1>3, DirectMapKeeps
<1>. QED  BY <1>1, <1>2, <1>3 DEF Map


-----------------------------------------------------------------------------
(* Unmap                                                                   *)

\* What is left of a mapping that goes.
LEMMA UnmapLeaves ==
  ASSUME PageInv, NEW m \in live, live' = live \ {m}
  PROVE  Mappings' /\ Apart'
BY DEF PageInv, Mappings, Apart, Own, HostCells, Span

\* Unmap without a bounce buffer: the device wrote to the driver's buffer itself.
LEMMA DirectUnmapKeeps ==
  ASSUME DInv, NEW m \in live, m.page = None, live' = live \ {m},
         arrived' = {w \in arrived : w[1] # m}, UNCHANGED <<ram, owner, maps, buffers>>
  PROVE  DInv' /\ \A w \in arrived : w[1] = m => ram'[w[1].host + w[2]] = w[3]
<1>. USE DEF DInv
<1>1. Mappings' /\ Apart'
  BY UnmapLeaves
<1>2. Typed' /\ Held' /\ BuffersHeld'
  BY DEF PageInv, Typed, Held, BuffersHeld
<1>3. Listed'
  <2>1. {l \in live' : l.page # None} = {l \in live : l.page # None}
    OBVIOUS
  <2>2. Own(m) = {}
    BY DEF Own
  <2>. QED  BY <2>1, <2>2 DEF PageInv, Listed
<1>4. DataInv'
  BY DEF DataInv, ReadsSeeBuffer, Arrivals
<1>5. \A w \in arrived : w[1] = m => ram'[w[1].host + w[2]] = w[3]
  BY DEF PageInv, Mappings, DataInv, Arrivals
<1>. QED  BY <1>1, <1>2, <1>3, <1>4, <1>5 DEF PageInv

\* The entry that Unmap finds by device and page is that of the mapping.
LEMMA FoundOnList ==
  ASSUME PageInv, NEW m \in live, NEW i \in maps, i.page = m.page
  PROVE  m.page # None /\ i = InfoOf(m)
<1>1. PICK l \in live : l.page # None /\ i = InfoOf(l)
  BY DEF PageInv, Listed
<1>2. l.page = m.page
  BY <1>1 DEF InfoOf
<1>3. l = m
  BY <1>1, <1>2, PagesUnder DEF PageInv, Apart
<1>. QED  BY <1>1, <1>3

\* Unmap of a bounced mapping: the data is copied before its pages are freed.
LEMMA BouncedUnmapKeeps ==
  ASSUME DInv, NEW m \in live, NEW i \in maps, i.page = m.page, live' = live \ {m},
         arrived' = {w \in arrived : w[1] # m}, maps' = maps \ {i},
         ram' = [c \in Cells |-> IF c \in CellsOf(i.page, SizeToPages(i.bytes)) THEN 0 ELSE Committed(i)[c]],
         owner' = Owned(i.page, NumberOfPages(i), "free"), UNCHANGED buffers
  PROVE  DInv' /\ \A w \in arrived : w[1] = m => ram'[w[1].host + w[2]] = w[3]
<1>. USE DEF DInv
<1>. DEFINE n == SizeToPages(m.bytes)
            own == PagesOf(m.page, n)
<1>1. m.page # None /\ i = InfoOf(m)
  BY FoundOnList
<1>2. i.page = m.page /\ i.bytes = m.bytes /\ i.host = m.host /\ i.op = m.op
  BY <1>1 DEF InfoOf
<1>3. /\ Own(m) = own /\ m.page \in own /\ m.page \in Nat /\ n \in Nat /\ own \subseteq Pages
      /\ \A p \in own : owner[p] = "bounce"
      /\ m.addr = m.page * PageSize
  <2>1. n \in Nat
    BY CellsHeld, EnoughPages
  <2>. QED  BY <1>1, <2>1, PagesUnder DEF Own, PageInv, Mappings
<1>4. /\ ram' = [c \in Cells |-> IF c \in CellsOf(m.page, n) THEN 0 ELSE Committed(i)[c]]
      /\ owner' = Owned(m.page, n, "free")
  BY <1>2 DEF NumberOfPages
<1>5. \A p \in Pages : owner'[p] = IF p \in own THEN "free" ELSE owner[p]
  BY <1>3, <1>4, RunOfPages
<1>6. \A a \in Cells : a \in CellsOf(m.page, n) <=> a \div PageSize \in own
  BY <1>3, PageOfCell, CellOfPage
<1>7. /\ m.addr \in Nat /\ m.host \in Nat /\ m.bytes \in Nat
      /\ Span(m.addr, m.bytes) \subseteq Cells /\ HostCells(m) \subseteq Cells
  BY CellsHeld
<1>8. /\ Copied(m.addr, m.host, m.bytes) \in [Cells -> {0, 1}]
      /\ \A a \in Cells : a \notin HostCells(m) => Copied(m.addr, m.host, m.bytes)[a] = ram[a]
      /\ \A k \in 0..(m.bytes - 1) :
           m.host + k \in Cells => Copied(m.addr, m.host, m.bytes)[m.host + k] = ram[m.addr + k]
  BY <1>7, CopyTyped DEF PageInv, HostCells
<1>9. Committed(i) = IF m.op = "write" THEN Copied(m.addr, m.host, m.bytes) ELSE ram
  BY <1>2, <1>3 DEF Committed
<1>10. Committed(i) \in [Cells -> {0, 1}]
  BY <1>8, <1>9 DEF PageInv, Typed
<1>. HIDE DEF n, own
<1>11. Typed'
  <2>1. owner' \in [Pages -> {"free", "driver", "bounce"}]
    BY <1>3, <1>4, RunOfPages DEF PageInv
  <2>2. ram' \in [Cells -> {0, 1}]
    BY <1>4, <1>10
  <2>. QED  BY <2>1, <2>2 DEF Typed
<1>12. ASSUME NEW l \in live \ {m}, NEW a \in Private(l)
       PROVE  a \in Cells /\ a \div PageSize \notin own
  BY <1>3, PagesUnder DEF PageInv, Apart
<1>13. Held'
  <2>1. ASSUME NEW l \in live \ {m}
        PROVE  /\ \A a \in HostCells(l) : owner'[a \div PageSize] = "driver"
               /\ \A p \in Own(l) : owner'[p] = "bounce"
    <3>1. Own(l) \cap own = {}
      BY <1>3 DEF PageInv, Apart
    <3>2. \A a \in HostCells(l) : a \div PageSize \notin own
      BY <1>12 DEF Private
    <3>. QED  BY <1>5, <3>1, <3>2, StillHeld
  <2>. QED  BY <2>1 DEF Held, HostCells, Own
<1>14. Listed'
  <2>1. \A l \in live \ {m} : l.page # None => InfoOf(l) # i
    <3>. SUFFICES ASSUME NEW l \in live \ {m}, l.page # None, InfoOf(l) = i PROVE FALSE
      OBVIOUS
    <3>1. l.page = m.page
      BY <1>2 DEF InfoOf
    <3>. QED  BY <1>1, <3>1, PagesUnder DEF PageInv, Apart
  <2>2. maps' = {InfoOf(l) : l \in {k \in live' : k.page # None}}
    BY <1>1, <2>1 DEF PageInv, Listed
  <2>3. \A p \in Pages : owner'[p] = "bounce" => \E l \in live' : p \in Own(l)
    BY <1>3, <1>5 DEF PageInv, Listed
  <2>. QED  BY <2>2, <2>3 DEF Listed, InfoOf, Own
<1>15. BuffersHeld'
  BY <1>3, <1>5 DEF PageInv, BuffersHeld
<1>16. Mappings' /\ Apart'
  BY UnmapLeaves
<1>17. ASSUME NEW l \in live \ {m}, l.op # "common", NEW a \in Private(l)
       PROVE  ram'[a] = ram[a]
  <2>1. ram'[a] = Committed(i)[a] /\ a \in Cells
    BY <1>4, <1>6, <1>12
  <2>2. CASE m.op = "write"
    <3>1. a \notin HostCells(m)
      BY <2>2, WritesApart DEF Private
    <3>. QED  BY <1>8, <1>9, <2>1, <2>2, <3>1
  <2>3. CASE m.op # "write"
    BY <1>9, <2>1, <2>3
  <2>. QED  BY <2>2, <2>3
<1>18. /\ \A l \in live \ {m} : l.op = "read" =>
            \A k \in 0..(l.bytes - 1) : ram'[l.addr + k] = ram'[l.host + k]
       /\ \A w \in arrived : w[1] \in live \ {m} => ram'[w[1].addr + w[2]] = w[3]
  BY <1>17, Undisturbed
<1>19. DataInv'
  BY <1>18 DEF DataInv, ReadsSeeBuffer, Arrivals
<1>20. ASSUME NEW w \in arrived, w[1] = m
       PROVE  ram'[w[1].host + w[2]] = w[3]
  <2>1. m.op = "write" /\ w[2] \in 0..(m.bytes - 1) /\ ram[m.addr + w[2]] = w[3]
    BY <1>20 DEF DataInv, Arrivals
  <2>2. /\ m.host + w[2] \in Cells /\ (m.host + w[2]) \div PageSize \notin own
    <3>1. m.host + w[2] \in HostCells(m)
      BY <2>1, CellsHeld
    <3>. QED  BY <1>3, <1>7, <3>1, PagesUnder
  <2>3. ram'[m.host + w[2]] = Copied(m.addr, m.host, m.bytes)[m.host + w[2]]
    BY <1>4, <1>6, <1>9, <2>1, <2>2
  <2>. QED  BY <1>8, <1>20, <2>1, <2>2, <2>3
<1>. QED  BY <1>11, <1>13, <1>14, <1>15, <1>16, <1>19, <1>20 DEF PageInv

\* All of Unmap: what arrived is in the driver's buffer.
LEMMA UnmapKeeps ==
  ASSUME DInv, NEW m \in live, Unmap(m)
  PROVE  DInv' /\ \A w \in arrived : w[1] = m => ram'[w[1].host + w[2]] = w[3]
BY DirectUnmapKeeps, BouncedUnmapKeeps DEF Unmap

-----------------------------------------------------------------------------
(* Common buffers                                                          *)

\* AllocateBuffer takes free pages.
LEMMA AllocateBufferKeeps ==
  ASSUME DInv, NEW b \in Buffers, AllocateBuffer(b)
  PROVE  DInv'
<1>. USE DEF DInv
<1>1. \A op, status : Fails(op, status) => DInv'
  BY FailsKeeps DEF Fails
<1>2. ASSUME NEW f \in Candidates(b.pages, MaxAddress(b.dev, b.extra)),
             owner' = Owned(f, b.pages, "driver"), ram' = Cleared(f, b.pages),
             buffers' = buffers \cup {[dev |-> b.dev, first |-> f, pages |-> b.pages, extra |-> b.extra]},
             UNCHANGED <<maps, live, arrived>>
      PROVE  DInv'
  <2>1. f \in Nat /\ f \in Pages /\ b.pages \in Nat
    BY CallsAssumption DEF Candidates, Pages
  <2>. DEFINE taken == PagesOf(f, b.pages)
              new == [dev |-> b.dev, first |-> f, pages |-> b.pages, extra |-> b.extra]
  <2>2. /\ taken \subseteq Pages /\ \A p \in taken : owner[p] = "free"
        /\ \A m \in live : /\ Own(m) \cap taken = {}
                           /\ \A a \in Private(m) : a \in Cells /\ a \div PageSize \notin taken
        /\ \A d \in buffers : PagesOf(d.first, d.pages) \cap taken = {}
    BY <2>1, FreePages
  <2>3. \A p \in Pages : owner'[p] = IF p \in taken THEN "driver" ELSE owner[p]
    BY <1>2, <2>1, RunOfPages
  <2>4. \A a \in Cells : a \div PageSize \notin taken => ram'[a] = ram[a]
    BY <1>2, <2>1, RunOfPages
  <2>5. new.first = f /\ new.pages = b.pages /\ buffers' = buffers \cup {new}
    BY <1>2
  <2>6. Typed'
    BY <1>2, <2>1, RunOfPages DEF PageInv, Typed
  <2>. HIDE DEF taken, new
  <2>7. Held'
    <3>1. ASSUME NEW m \in live
          PROVE  /\ \A a \in HostCells(m) : owner'[a \div PageSize] = "driver"
                 /\ \A p \in Own(m) : owner'[p] = "bounce"
      BY <2>2, <2>3, StillHeld DEF Private
    <3>. QED  BY <1>2, <3>1 DEF Held
  <2>8. Mappings' /\ Apart' /\ Listed'
    BY <1>2, <2>3 DEF PageInv, Mappings, Apart, Listed
  <2>9. BuffersHeld'
    <3>1. /\ new.first \in Pages /\ new.pages \in Nat /\ PagesOf(new.first, new.pages) = taken
      BY <2>1, <2>5 DEF taken
    <3>. QED  BY <2>2, <2>3, <2>5, <3>1 DEF PageInv, BuffersHeld
  <2>10. /\ \A l \in live : l.op = "read" =>
              \A k \in 0..(l.bytes - 1) : ram'[l.addr + k] = ram'[l.host + k]
         /\ \A w \in arrived : w[1] \in live => ram'[w[1].addr + w[2]] = w[3]
    BY <2>2, <2>4, Undisturbed
  <2>11. DataInv'
    BY <1>2, <2>10 DEF DataInv, ReadsSeeBuffer, Arrivals
  <2>. QED  BY <2>6, <2>7, <2>8, <2>9, <2>11 DEF PageInv
<1>. QED  BY <1>1, <1>2 DEF AllocateBuffer

\* FreeBuffer frees no page under a mapping.
LEMMA FreeBufferKeeps ==
  ASSUME DInv, NEW f \in Pages, NEW n \in {1, 2}, FreeBuffer(f, n)
  PROVE  DInv'
<1>. USE DEF DInv
<1>. DEFINE given == {b \in buffers : b.first = f /\ b.pages = n}
            freed == PagesOf(f, n)
<1>1. CASE Fails("FreeBuffer", "EFI_NOT_FOUND")
  BY <1>1, FailsKeeps DEF Fails
<1>2. ASSUME given # {}, \A m \in live : HostCells(m) \cap CellsOf(f, n) = {},
             owner' = Owned(f, n, "free"), ram' = Cleared(f, n), buffers' = buffers \ given,
             UNCHANGED <<maps, live, arrived>>
      PROVE  DInv'
  <2>1. f \in Nat /\ n \in Nat
    BY DEF Pages
  <2>2. /\ \A p \in freed : p \in Pages /\ owner[p] = "driver"
        /\ \A b \in buffers \ given : PagesOf(b.first, b.pages) \cap freed = {}
    <3>1. PICK b \in buffers : b.first = f /\ b.pages = n
      BY <1>2
    <3>. QED  BY <3>1 DEF PageInv, BuffersHeld
  <2>3. \A p \in Pages : owner'[p] = IF p \in freed THEN "free" ELSE owner[p]
    BY <1>2, <2>1, RunOfPages
  <2>4. \A a \in Cells : a \div PageSize \notin freed => ram'[a] = ram[a]
    BY <1>2, <2>1, RunOfPages
  <2>5. ASSUME NEW m \in live
        PROVE  /\ Own(m) \cap freed = {}
               /\ \A a \in Private(m) : a \in Cells /\ a \div PageSize \notin freed
    <3>1. Own(m) \cap freed = {}
      BY <2>2, PagesUnder
    <3>2. \A a \in HostCells(m) : a \div PageSize \notin freed
      BY <1>2, <2>1, CellsHeld, CellOfPage, PageOfCell
    <3>. QED  BY <3>1, <3>2, CellsHeld, PagesUnder DEF Private
  <2>6. Typed'
    BY <1>2, <2>1, RunOfPages DEF PageInv, Typed
  <2>7. buffers' = buffers \ given
    BY <1>2
  <2>. HIDE DEF freed, given
  <2>8. Held'
    <3>1. ASSUME NEW m \in live
          PROVE  /\ \A a \in HostCells(m) : owner'[a \div PageSize] = "driver"
                 /\ \A p \in Own(m) : owner'[p] = "bounce"
      BY <2>3, <2>5, StillHeld DEF Private
    <3>. QED  BY <1>2, <3>1 DEF Held
  <2>9. Mappings' /\ Apart' /\ Listed'
    BY <1>2, <2>3 DEF PageInv, Mappings, Apart, Listed
  <2>10. BuffersHeld'
    BY <2>2, <2>3, <2>7 DEF PageInv, BuffersHeld
  <2>11. /\ \A l \in live : l.op = "read" =>
              \A k \in 0..(l.bytes - 1) : ram'[l.addr + k] = ram'[l.host + k]
         /\ \A w \in arrived : w[1] \in live => ram'[w[1].addr + w[2]] = w[3]
    BY <2>4, <2>5, Undisturbed
  <2>12. DataInv'
    BY <1>2, <2>11 DEF DataInv, ReadsSeeBuffer, Arrivals
  <2>. QED  BY <2>6, <2>8, <2>9, <2>10, <2>12 DEF PageInv
<1>. QED  BY <1>1, <1>2 DEF FreeBuffer

-----------------------------------------------------------------------------
(* Theorems                                                                *)

\* Nothing is mapped at first.
LEMMA InitHolds == Init => DInv
<1>. SUFFICES ASSUME Init PROVE DInv
  OBVIOUS
<1>1. /\ ram = [c \in Cells |-> 0]
      /\ owner = [p \in Pages |-> IF p \in OwnPages THEN "driver" ELSE "free"]
      /\ maps = {} /\ buffers = {} /\ live = {} /\ arrived = {}
  BY DEF Init
<1>2. Typed
  BY <1>1 DEF Typed
<1>3. Mappings /\ Held /\ Apart /\ Listed /\ BuffersHeld
  BY <1>1 DEF Mappings, Held, Apart, Listed, BuffersHeld
<1>4. ReadsSeeBuffer /\ Arrivals
  BY <1>1 DEF ReadsSeeBuffer, Arrivals
<1>. QED  BY <1>2, <1>3, <1>4 DEF DInv, PageInv, DataInv

\* A step keeps the invariant, and only Unmap ends a mapping.
LEMMA StepKeeps ==
  ASSUME DInv, [Next]_vars
  PROVE  /\ DInv'
         /\ \A w \in arrived : (w[1] \in live /\ w[1] \notin live') => ram'[w[1].host + w[2]] = w[3]
<1>1. CASE \E c \in MapCalls : Map(c)
  <2>1. PICK c \in MapCalls : Map(c)
    BY <1>1
  <2>2. live \subseteq live'
    BY <2>1 DEF Map, Bounce, Fails
  <2>. QED  BY <2>1, <2>2, MapKeeps
<1>2. CASE \E m \in live : Unmap(m)
  <2>1. PICK m \in live : Unmap(m)
    BY <1>2
  <2>2. live' = live \ {m}
    BY <2>1 DEF Unmap
  <2>. QED  BY <2>1, <2>2, UnmapKeeps
<1>3. CASE \E b \in Buffers : AllocateBuffer(b)
  <2>1. PICK b \in Buffers : AllocateBuffer(b)
    BY <1>3
  <2>2. live' = live
    BY <2>1 DEF AllocateBuffer, Fails
  <2>. QED  BY <2>1, <2>2, AllocateBufferKeeps
<1>4. CASE \E f \in Pages, n \in {1, 2} : f + n <= LastPage + 1 /\ FreeBuffer(f, n)
  <2>1. PICK f \in Pages, n \in {1, 2} : FreeBuffer(f, n)
    BY <1>4
  <2>2. live' = live
    BY <2>1 DEF FreeBuffer, Fails
  <2>. QED  BY <2>1, <2>2, FreeBufferKeeps
<1>5. CASE \E m \in live, v \in {0, 1} : \E i \in 0..(m.bytes - 1) : DeviceWrite(m, i, v)
  <2>1. PICK m \in live, v \in {0, 1} : \E i \in 0..(m.bytes - 1) : DeviceWrite(m, i, v)
    BY <1>5
  <2>2. PICK i \in 0..(m.bytes - 1) : DeviceWrite(m, i, v)
    BY <2>1
  <2>. QED  BY <2>2, DeviceWriteKeeps DEF DeviceWrite
<1>6. CASE \E a \in Cells, v \in {0, 1} : CpuWrite(a, v)
  <2>1. PICK a \in Cells, v \in {0, 1} : CpuWrite(a, v)
    BY <1>6
  <2>. QED  BY <2>1, CpuWriteKeeps DEF CpuWrite
<1>7. CASE UNCHANGED vars
  BY <1>7, FailsKeeps DEF vars
<1>. QED  BY <1>1, <1>2, <1>3, <1>4, <1>5, <1>6, <1>7 DEF Next

\* The inductive invariant holds: mappings stand on memory that stays theirs, and
\* the data is right on both sides of a bounce buffer.
THEOREM DInvariant == Spec => []DInv
<1>1. DInv /\ [Next]_vars => DInv'
  BY StepKeeps
<1>. QED  BY InitHolds, <1>1, PTL DEF Spec


\* TypeOK of DtDma: mappings, buffers and bounce pages lie in memory, and a common
\* buffer is never bounced.
THEOREM MemoryTyped == Spec => []TypeOK
<1>1. DInv => TypeOK
  <2>. SUFFICES ASSUME DInv PROVE TypeOK
    OBVIOUS
  <2>. USE DEF DInv
  <2>1. \A m \in live : /\ Span(m.addr, m.bytes) \subseteq Cells /\ m.page \in Pages \cup {None}
                        /\ HostCells(m) \subseteq Cells
    BY CellsHeld DEF PageInv, Mappings
  <2>2. ASSUME NEW i \in maps
        PROVE  i.op # "common" /\ HostCells(i) \subseteq Cells /\ i.page \in Pages
    <3>1. PICK m \in live : m.page # None /\ i = InfoOf(m)
      BY DEF PageInv, Listed
    <3>2. HostCells(i) = HostCells(m) /\ i.op = m.op /\ i.page = m.page
      BY <3>1 DEF InfoOf, HostCells
    <3>. QED  BY <2>1, <3>1, <3>2 DEF PageInv, Mappings
  <2>3. \A b \in buffers : PagesOf(b.first, b.pages) \subseteq Pages
    BY DEF PageInv, BuffersHeld
  <2>. QED  BY <2>1, <2>2, <2>3 DEF TypeOK, PageInv, Typed
<1>. QED  BY DInvariant, <1>1, PTL

\* BounceAccounted of DtDma: every bounce page belongs to exactly one entry of the
\* Maps lists, and a driver holds a mapping for it.
THEOREM BouncePagesAccounted == Spec => []BounceAccounted
<1>1. DInv => BounceAccounted
  <2>. SUFFICES ASSUME DInv PROVE BounceAccounted
    OBVIOUS
  <2>. USE DEF DInv
  <2>1. \A m \in live : m.page # None =>
          PagesOf(InfoOf(m).page, SizeToPages(InfoOf(m).bytes)) = Own(m)
    BY DEF InfoOf, Own
  <2>2. maps = {InfoOf(m) : m \in {l \in live : l.page # None}}
    BY DEF PageInv, Listed
  <2>3. \A i \in maps : \E m \in live : m.page # None /\ i = InfoOf(m)
                                       /\ PagesOf(i.page, SizeToPages(i.bytes)) = Own(m)
    BY <2>1, <2>2
  <2>4. ASSUME NEW i \in maps, NEW k \in maps, i # k
        PROVE  PagesOf(i.page, SizeToPages(i.bytes)) \cap PagesOf(k.page, SizeToPages(k.bytes)) = {}
    <3>1. PICK m \in live : i = InfoOf(m) /\ PagesOf(i.page, SizeToPages(i.bytes)) = Own(m)
      BY <2>3
    <3>2. PICK l \in live : k = InfoOf(l) /\ PagesOf(k.page, SizeToPages(k.bytes)) = Own(l)
      BY <2>3
    <3>. QED  BY <2>4, <3>1, <3>2 DEF PageInv, Apart
  <2>5. ASSUME NEW p
        PROVE  p \in {q \in Pages : owner[q] = "bounce"}
                 <=> p \in UNION {PagesOf(i.page, SizeToPages(i.bytes)) : i \in maps}
    <3>1. p \in UNION {PagesOf(i.page, SizeToPages(i.bytes)) : i \in maps}
            <=> \E i \in maps : p \in PagesOf(i.page, SizeToPages(i.bytes))
      OBVIOUS
    <3>2. ASSUME p \in Pages, owner[p] = "bounce"
          PROVE  \E i \in maps : p \in PagesOf(i.page, SizeToPages(i.bytes))
      <4>1. PICK m \in live : p \in Own(m)
        BY <3>2 DEF PageInv, Listed
      <4>2. m.page # None
        BY <4>1 DEF Own
      <4>. QED  BY <2>1, <2>2, <4>1, <4>2
    <3>3. ASSUME NEW i \in maps, p \in PagesOf(i.page, SizeToPages(i.bytes))
          PROVE  p \in Pages /\ owner[p] = "bounce"
      BY <2>3, <3>3, PagesUnder
    <3>. QED  BY <3>1, <3>2, <3>3
  <2>6. \A m : InfoOf(m) = [dev |-> m.dev, op |-> m.op, host |-> m.host, bytes |-> m.bytes, page |-> m.page]
    BY DEF InfoOf
  <2>. QED  BY <2>2, <2>4, <2>5, <2>6 DEF BounceAccounted
<1>. QED  BY DInvariant, <1>1, PTL

\* ReadsSeeBuffer of DtDma: while a mapping for a bus master read lives, the device
\* reads what the driver put into its buffer, bounced or not.
THEOREM DevicesReadBuffer == Spec => []ReadsSeeBuffer
BY DInvariant, PTL DEF DInv, DataInv

\* WritesArrive of DtDma: after Unmap the driver's buffer has everything that the
\* device wrote, bounced or not.
THEOREM DeviceDataArrives == Spec => WritesArrive
<1>1. DInv /\ [Next]_vars =>
        [\A w \in arrived : (w[1] \in live /\ w[1] \notin live') => ram'[w[1].host + w[2]] = w[3]]_vars
  BY StepKeeps
<1>. QED  BY DInvariant, <1>1, PTL DEF Spec, WritesArrive
-----------------------------------------------------------------------------
(* What a device can reach, along the tree                                 *)

LEMMA LeastOf ==
  ASSUME NEW S \in SUBSET Nat, S # {}
  PROVE  Min(S) \in S /\ \A n \in S : Min(S) <= n
<1>1. \E m \in S : \A n \in S : ~(<<n, m>> \in OpToRel(<, Nat))
  BY NatLessThanWellFounded, WFMin, Zenon
<1>2. \A m \in S, n \in S : <<n, m>> \in OpToRel(<, Nat) <=> n < m
  BY DEF OpToRel
<1>3. \A m \in S, n \in S : n < m \/ m <= n
  OBVIOUS
<1>4. \E m \in S : \A n \in S : m <= n
  BY <1>1, <1>2, <1>3, Zenon
<1>. QED  BY <1>4 DEF Min

\* From the root down to every device.
LEMMA DeviceInduction ==
  ASSUME NEW S, Root \in S, \A d \in Devices \ {Root} : Parent[d] \in S => d \in S
  PROVE  \A d \in Devices : d \in S
<1>. DEFINE T == {d \in Devices : d \notin S}
<1>1. SUFFICES ASSUME T # {} PROVE FALSE
  OBVIOUS
<1>2. T \in SUBSET (Devices \ {Root})
  OBVIOUS
<1>3. PICK d \in T : Parent[d] \notin T
  BY <1>1, <1>2, TreeAssumption
<1>4. Parent[d] \in Devices
  BY <1>2, TreeAssumption
<1>. QED  BY <1>2, <1>3, <1>4

\* A value at the root, and a step from the value of a device's parent to its own.
LEMMA DeviceRecursion ==
  ASSUME NEW V, NEW r \in V, NEW G \in [Devices -> [V -> V]]
  PROVE  \E f \in [Devices -> V] : f[Root] = r /\ \A d \in Devices \ {Root} : f[d] = G[d][f[Parent[d]]]
<1>. DEFINE Closed(R) == /\ <<Root, r>> \in R
                         /\ \A d \in Devices \ {Root}, v \in V : <<Parent[d], v>> \in R => <<d, G[d][v]>> \in R
            All == Devices \X V
            R == {x \in All : \A Q \in SUBSET All : Closed(Q) => x \in Q}
            One(d, v) == <<d, v>> \in R /\ \A w \in V : <<d, w>> \in R => w = v
            S == {d \in Devices : \E v \in V : One(d, v)}
<1>1. Root \in Devices /\ \A d \in Devices \ {Root} : Parent[d] \in Devices
  BY TreeAssumption
<1>2. \A d \in Devices, v \in V : G[d][v] \in V /\ <<d, v>> \in All
  OBVIOUS
<1>3. Closed(R)
  <2>1. <<Root, r>> \in R
    BY <1>1, <1>2
  <2>2. ASSUME NEW d \in Devices \ {Root}, NEW v \in V, <<Parent[d], v>> \in R
        PROVE  <<d, G[d][v]>> \in R
    BY <1>2, <2>2
  <2>. QED  BY <2>1, <2>2
<1>4. R \in SUBSET All /\ \A Q \in SUBSET All : Closed(Q) => R \subseteq Q
  OBVIOUS
<1>. HIDE DEF R
<1>5. Root \in S
  <2>1. ASSUME NEW w \in V, <<Root, w>> \in R, w # r PROVE FALSE
    <3>. DEFINE Q == R \ {<<Root, w>>}
    <3>1. Closed(Q)
      BY <1>3, <2>1
    <3>. QED  BY <1>4, <2>1, <3>1
  <2>. QED  BY <1>1, <1>3, <2>1
<1>6. ASSUME NEW d \in Devices \ {Root}, Parent[d] \in S PROVE d \in S
  <2>1. PICK u \in V : One(Parent[d], u)
    BY <1>6
  <2>2. <<d, G[d][u]>> \in R /\ G[d][u] \in V
    BY <1>2, <1>3, <2>1
  <2>3. ASSUME NEW w \in V, <<d, w>> \in R, w # G[d][u] PROVE FALSE
    <3>. DEFINE Q == R \ {<<d, w>>}
    <3>1. <<Root, r>> \in Q
      BY <1>3
    <3>2. ASSUME NEW e \in Devices \ {Root}, NEW v \in V, <<Parent[e], v>> \in Q
          PROVE  <<e, G[e][v]>> \in Q
      <4>1. <<e, G[e][v]>> \in R
        BY <1>3, <3>2
      <4>2. CASE e = d
        BY <2>1, <2>3, <3>2, <4>1, <4>2
      <4>3. CASE e # d
        BY <4>1, <4>3
      <4>. QED  BY <4>2, <4>3
    <3>3. Closed(Q)
      BY <3>1, <3>2
    <3>. QED  BY <1>4, <2>3, <3>3
  <2>. QED  BY <2>2, <2>3
<1>7. \A d \in Devices : \E v \in V : One(d, v)
  <2>. HIDE DEF One
  <2>1. \A d \in Devices : d \in S
    <3>. HIDE DEF S
    <3>. QED  BY <1>5, <1>6, DeviceInduction
  <2>. QED  BY <2>1
<1>. DEFINE f == [d \in Devices |-> CHOOSE v \in V : One(d, v)]
<1>8. \A d \in Devices : f[d] \in V /\ One(d, f[d])
  <2>. HIDE DEF One
  <2>. QED  BY <1>7
<1>. HIDE DEF f
<1>9. f[Root] = r
  BY <1>1, <1>3, <1>8
<1>10. ASSUME NEW d \in Devices \ {Root} PROVE f[d] = G[d][f[Parent[d]]]
  <2>1. f[Parent[d]] \in V /\ <<Parent[d], f[Parent[d]]>> \in R
    BY <1>1, <1>8
  <2>2. <<d, G[d][f[Parent[d]]]>> \in R /\ G[d][f[Parent[d]]] \in V
    BY <1>2, <1>3, <2>1
  <2>. QED  BY <1>8, <2>2
<1>11. f \in [Devices -> V]
  BY <1>8 DEF f
<1>. QED  BY <1>9, <1>10, <1>11

\* Addresses that a limit may be.
LEMMA RangeNumbers ==
  /\ LastAddress \in Nat
  /\ \A d \in DOMAIN DmaRanges : \A r \in DmaRanges[d] :
       r.child \in Nat /\ r.parent \in Nat /\ r.size \in Nat
<1>1. LastAddress \in Nat
  BY Multiples DEF LastAddress
<1>. QED  BY <1>1, TreeAssumption DEF Cells

LEMMA EndsAreNumbers ==
  ASSUME NEW d, Narrows(d)
  PROVE  Ends(d) \in SUBSET Nat
<1>1. ASSUME NEW r \in DmaRanges[d]
      PROVE  (IF r.size = 0 THEN r.child ELSE r.child + r.size - 1) \in Nat
  BY RangeNumbers DEF Narrows
<1>. QED  BY <1>1 DEF Ends

LEMMA NonIdentityIs ==
  \A d \in Devices :
    NonIdentity[d] <=> \/ d # Root /\ NonIdentity[Parent[d]]
                       \/ Narrows(d) /\ \E r \in DmaRanges[d] : r.child # r.parent
<1>. DEFINE Translates(d) == Narrows(d) /\ \E r \in DmaRanges[d] : r.child # r.parent
            G == [d \in Devices |-> [v \in BOOLEAN |-> v \/ Translates(d)]]
            r0 == FALSE \/ Translates(Root)
            B == BOOLEAN
<1>1. r0 \in B /\ G \in [Devices -> [B -> B]]
  OBVIOUS
<1>2. PICK f \in [Devices -> BOOLEAN] : f[Root] = r0 /\ \A d \in Devices \ {Root} : f[d] = G[d][f[Parent[d]]]
  <2>1. \E f \in [Devices -> B] : f[Root] = r0 /\ \A d \in Devices \ {Root} : f[d] = G[d][f[Parent[d]]]
    <3>. HIDE DEF G, r0, B
    <3>. QED  BY <1>1, DeviceRecursion
  <2>. QED  BY <2>1
<1>. HIDE DEF Translates
<1>3. \A d \in Devices \ {Root} : Parent[d] \in Devices
  BY TreeAssumption
<1>4. ASSUME NEW d \in Devices
      PROVE  f[d] = ((d # Root /\ f[Parent[d]]) \/ Translates(d))
  <2>1. CASE d = Root
    BY <1>2, <2>1, Zenon
  <2>2. CASE d # Root
    <3>1. f[Parent[d]] \in BOOLEAN
      BY <1>2, <1>3, <2>2
    <3>2. f[d] = (f[Parent[d]] \/ Translates(d))
      BY <1>2, <2>2, <3>1
    <3>. QED  BY <2>2, <3>2
  <2>. QED  BY <2>1, <2>2
<1>5. f = [d \in Devices |-> (d # Root /\ f[Parent[d]]) \/ Translates(d)]
  BY <1>2, <1>4
<1>6. NonIdentity = CHOOSE g : g = [d \in Devices |-> (d # Root /\ g[Parent[d]]) \/ Translates(d)]
  BY DEF NonIdentity, Translates
<1>7. NonIdentity = [d \in Devices |-> (d # Root /\ NonIdentity[Parent[d]]) \/ Translates(d)]
  BY <1>5, <1>6
<1>. QED  BY <1>7 DEF Translates

\* DtDeviceCreateDmaInit, for one device.
LEMMA MaxCpuDmaAddressIs ==
  /\ MaxCpuDmaAddress \in [Devices -> Nat]
  /\ \A d \in Devices :
       MaxCpuDmaAddress[d] =
         LET inherited == IF d = Root THEN LastAddress ELSE MaxCpuDmaAddress[Parent[d]] IN
         IF ~Narrows(d) THEN inherited
         ELSE IF NonIdentity[d] THEN 0
         ELSE Min(Ends(d) \cup {inherited})
<1>. DEFINE Narrowed(d, v) == IF ~Narrows(d) THEN v
                              ELSE IF NonIdentity[d] THEN 0
                              ELSE Min(Ends(d) \cup {v})
            G == [d \in Devices |-> [v \in Nat |-> Narrowed(d, v)]]
            r0 == Narrowed(Root, LastAddress)
            N == Nat
            Body(d, f) == Narrowed(d, IF d = Root THEN LastAddress ELSE f[Parent[d]])
<1>1. ASSUME NEW d \in Devices, NEW v \in Nat PROVE Narrowed(d, v) \in Nat
  <2>1. CASE Narrows(d)
    <3>1. Ends(d) \cup {v} \in SUBSET Nat
      BY <2>1, EndsAreNumbers
    <3>2. Min(Ends(d) \cup {v}) \in Nat
      BY <3>1, LeastOf
    <3>. QED  BY <2>1, <3>2
  <2>2. CASE ~Narrows(d)
    BY <2>2
  <2>. QED  BY <2>1, <2>2
<1>. HIDE DEF Narrowed
<1>2. r0 \in N /\ G \in [Devices -> [N -> N]]
  BY <1>1, RangeNumbers, TreeAssumption
<1>3. PICK f \in [Devices -> Nat] : f[Root] = r0 /\ \A d \in Devices \ {Root} : f[d] = G[d][f[Parent[d]]]
  <2>1. \E f \in [Devices -> N] : f[Root] = r0 /\ \A d \in Devices \ {Root} : f[d] = G[d][f[Parent[d]]]
    <3>. HIDE DEF G, r0, N
    <3>. QED  BY <1>2, DeviceRecursion
  <2>. QED  BY <2>1
<1>4. \A d \in Devices \ {Root} : Parent[d] \in Devices
  BY TreeAssumption
<1>5. ASSUME NEW d \in Devices PROVE f[d] = Body(d, f)
  <2>1. CASE d = Root
    BY <1>3, <2>1
  <2>2. CASE d # Root
    <3>1. f[Parent[d]] \in Nat
      BY <1>3, <1>4, <2>2
    <3>. QED  BY <1>3, <2>2, <3>1
  <2>. QED  BY <2>1, <2>2
<1>6. f = [d \in Devices |-> Body(d, f)]
  BY <1>3, <1>5
<1>7. MaxCpuDmaAddress = CHOOSE g : g = [d \in Devices |-> Body(d, g)]
  BY DEF MaxCpuDmaAddress, Narrowed
<1>8. MaxCpuDmaAddress = [d \in Devices |-> Body(d, MaxCpuDmaAddress)]
  <2>. HIDE DEF Body
  <2>. QED  BY <1>6, <1>7
<1>9. \A d \in Devices : MaxCpuDmaAddress[d] = Body(d, MaxCpuDmaAddress)
  <2>. HIDE DEF Body
  <2>. QED  BY <1>8
<1>10. MaxCpuDmaAddress \in [Devices -> Nat]
  <2>. DEFINE S == {d \in Devices : MaxCpuDmaAddress[d] \in Nat}
  <2>1. Root \in S
    BY <1>1, <1>9, RangeNumbers, TreeAssumption
  <2>2. ASSUME NEW d \in Devices \ {Root}, Parent[d] \in S PROVE d \in S
    BY <1>1, <1>9, <2>2
  <2>3. \A d \in Devices : d \in S
    <3>. HIDE DEF S
    <3>. QED  BY <2>1, <2>2, DeviceInduction
  <2>4. \A d \in Devices : Body(d, MaxCpuDmaAddress) \in Nat
    BY <1>9, <2>3
  <2>. HIDE DEF Body
  <2>. QED  BY <1>8, <2>4
<1>. QED  BY <1>9, <1>10 DEF Narrowed

LEMMA AboveIs ==
  \A d \in Devices : Above[d] = IF d = Root THEN {d} ELSE {d} \cup Above[Parent[d]]
<1>. DEFINE V == SUBSET Devices
            G == [d \in Devices |-> [v \in V |-> {d} \cup v]]
            Body(d, f) == IF d = Root THEN {d} ELSE {d} \cup f[Parent[d]]
            r0 == {Root}
<1>1. r0 \in V /\ G \in [Devices -> [V -> V]]
  BY TreeAssumption
<1>2. PICK f \in [Devices -> V] : f[Root] = r0 /\ \A d \in Devices \ {Root} : f[d] = G[d][f[Parent[d]]]
  <2>. HIDE DEF G, V, r0
  <2>. QED  BY <1>1, DeviceRecursion
<1>3. \A d \in Devices \ {Root} : Parent[d] \in Devices
  BY TreeAssumption
<1>4. ASSUME NEW d \in Devices PROVE f[d] = Body(d, f)
  <2>1. CASE d = Root
    BY <1>2, <2>1
  <2>2. CASE d # Root
    <3>1. f[Parent[d]] \in V
      BY <1>2, <1>3, <2>2
    <3>. QED  BY <1>2, <2>2, <3>1
  <2>. QED  BY <2>1, <2>2
<1>5. f = [d \in Devices |-> Body(d, f)]
  BY <1>2, <1>4
<1>6. Above = CHOOSE g : g = [d \in Devices |-> Body(d, g)]
  BY DEF Above
<1>7. Above = [d \in Devices |-> Body(d, Above)]
  <2>. HIDE DEF Body
  <2>. QED  BY <1>5, <1>6
<1>. QED  BY <1>7

\* No entry of dma-ranges has size zero; DtDeviceCreateDmaInit takes such an entry for one of
\* one byte.
EntriesNotEmpty == \A d \in DOMAIN DmaRanges : \A r \in DmaRanges[d] : r.size # 0

\* Without translation, all bridges on the way up decode what is below the limit.
LEMMA LimitDecoded ==
  ASSUME EntriesNotEmpty
  PROVE  \A d \in Devices : ~NonIdentity[d] =>
           \A a \in Nat : a <= MaxCpuDmaAddress[d] => Decodes(d, a)
<1>. DEFINE Passes(d, a) == Narrows(d) => \A r \in DmaRanges[d] : r.child = r.parent /\ a < r.child + r.size
            Fine(d) == ~NonIdentity[d] => \A a \in Nat : a <= MaxCpuDmaAddress[d] => Decodes(d, a)
            S == {d \in Devices : Fine(d)}
            Inherited(d) == IF d = Root THEN LastAddress ELSE MaxCpuDmaAddress[Parent[d]]
<1>1. Root \in Devices /\ \A d \in Devices \ {Root} : Parent[d] \in Devices
  BY TreeAssumption
<1>2. \A d \in Devices : Inherited(d) \in Nat
  BY <1>1, RangeNumbers, MaxCpuDmaAddressIs
<1>3. ASSUME NEW d \in Devices, ~NonIdentity[d], NEW a \in Nat, a <= MaxCpuDmaAddress[d]
      PROVE  Passes(d, a) /\ a <= Inherited(d)
  <2>1. CASE ~Narrows(d)
    <3>1. MaxCpuDmaAddress[d] = Inherited(d)
      BY <2>1, MaxCpuDmaAddressIs
    <3>. QED  BY <1>3, <2>1, <3>1
  <2>2. CASE Narrows(d)
    <3>1. MaxCpuDmaAddress[d] = Min(Ends(d) \cup {Inherited(d)})
      BY <1>3, <2>2, MaxCpuDmaAddressIs
    <3>2. Ends(d) \cup {Inherited(d)} \in SUBSET Nat
      BY <1>2, <2>2, EndsAreNumbers
    <3>3. /\ MaxCpuDmaAddress[d] \in Nat /\ MaxCpuDmaAddress[d] <= Inherited(d)
          /\ \A e \in Ends(d) : MaxCpuDmaAddress[d] <= e
      <4>. HIDE DEF Inherited
      <4>. QED  BY <3>1, <3>2, LeastOf
    <3>4. ASSUME NEW r \in DmaRanges[d] PROVE r.child = r.parent /\ a < r.child + r.size
      <4>1. r.child = r.parent
        BY <1>3, <2>2, NonIdentityIs
      <4>2. r.size \in Nat /\ r.child \in Nat /\ r.size # 0
        BY <2>2, RangeNumbers DEF EntriesNotEmpty, Narrows
      <4>3. r.child + r.size - 1 \in Ends(d)
        BY <4>2 DEF Ends
      <4>4. MaxCpuDmaAddress[d] <= r.child + r.size - 1
        BY <3>3, <4>3
      <4>. QED  BY <1>3, <3>3, <4>1, <4>2, <4>4
    <3>. QED  BY <1>2, <1>3, <3>3, <3>4
  <2>. QED  BY <2>1, <2>2
<1>. HIDE DEF Passes, Inherited
<1>4. Root \in S
  <2>1. Above[Root] = {Root}
    BY <1>1, AboveIs
  <2>2. SUFFICES ASSUME ~NonIdentity[Root], NEW a \in Nat, a <= MaxCpuDmaAddress[Root] PROVE Decodes(Root, a)
    BY <1>1
  <2>3. Passes(Root, a)
    BY <1>1, <1>3, <2>2
  <2>. QED  BY <2>1, <2>3 DEF Decodes, Passes
<1>5. ASSUME NEW d \in Devices \ {Root}, Parent[d] \in S PROVE d \in S
  <2>1. SUFFICES ASSUME ~NonIdentity[d], NEW a \in Nat, a <= MaxCpuDmaAddress[d] PROVE Decodes(d, a)
    BY <1>5
  <2>2. ~NonIdentity[Parent[d]] /\ a <= MaxCpuDmaAddress[Parent[d]] /\ Passes(d, a)
    BY <1>3, <2>1, NonIdentityIs DEF Inherited
  <2>3. Decodes(Parent[d], a)
    BY <1>5, <2>2
  <2>4. Above[d] = {d} \cup Above[Parent[d]]
    BY AboveIs
  <2>. QED  BY <2>2, <2>3, <2>4 DEF Decodes, Passes
<1>. HIDE DEF Fine
<1>6. \A d \in Devices : d \in S
  <2>. HIDE DEF S
  <2>. QED  BY <1>4, <1>5, DeviceInduction
<1>. QED  BY <1>6 DEF Fine

\* A device that may map has no translation above it, and what is below its maximum
\* is below the limit of the bridges and the one asked for.
LEMMA ReachDecoded ==
  ASSUME EntriesNotEmpty, NEW c \in MapCalls, Usable(c.dev, c.extra),
         NEW a \in Nat, a <= MaxAddress(c.dev, c.extra)
  PROVE  Decodes(c.dev, a) /\ a <= c.extra.max
<1>1. c.dev \in Devices /\ c.extra.max \in Nat
  BY CallsAssumption
<1>2. {MaxCpuDmaAddress[c.dev], c.extra.max} \in SUBSET Nat
  BY <1>1, MaxCpuDmaAddressIs
<1>3. /\ MaxAddress(c.dev, c.extra) \in Nat
      /\ MaxAddress(c.dev, c.extra) <= MaxCpuDmaAddress[c.dev]
      /\ MaxAddress(c.dev, c.extra) <= c.extra.max
  BY <1>2, LeastOf DEF MaxAddress
<1>4. a <= MaxCpuDmaAddress[c.dev] /\ a <= c.extra.max
  BY <1>2, <1>3
<1>. QED  BY <1>1, <1>4, LimitDecoded DEF Usable

\* Map gives a device only what it reaches, with a bounce buffer or without.
LEMMA MapReaches ==
  ASSUME EntriesNotEmpty, NEW c \in MapCalls, Map(c), WithinReach
  PROVE  WithinReach'
<1>. DEFINE Good(m) == \A a \in Span(m.addr, m.bytes) : Decodes(m.dev, a) /\ a <= m.reach
            max == MaxAddress(c.dev, c.extra)
<1>1. c.bytes \in Nat \ {0} /\ c.host \in Nat
  BY CallFacts
<1>2. max \in Int
  <2>1. {MaxCpuDmaAddress[c.dev], c.extra.max} \in SUBSET Nat
    BY CallsAssumption, MaxCpuDmaAddressIs
  <2>. QED  BY <2>1, LeastOf DEF MaxAddress
<1>3. ASSUME NEW addr \in Nat, NEW page, addr + c.bytes - 1 <= max, Usable(c.dev, c.extra)
      PROVE  Good(Mapping(c, addr, page))
  <2>1. /\ Mapping(c, addr, page).dev = c.dev /\ Mapping(c, addr, page).reach = c.extra.max
        /\ Mapping(c, addr, page).addr = addr /\ Mapping(c, addr, page).bytes = c.bytes
    BY DEF Mapping
  <2>2. ASSUME NEW a \in Span(addr, c.bytes) PROVE a \in Nat /\ a <= max
    BY <1>1, <1>2, <1>3 DEF Span
  <2>3. \A a \in Span(addr, c.bytes) : Decodes(c.dev, a) /\ a <= c.extra.max
    BY <1>3, <2>2, ReachDecoded
  <2>. QED  BY <2>1, <2>3
<1>4. \/ live' = live
      \/ \E page : \E addr \in Nat : addr + c.bytes - 1 <= max /\ Usable(c.dev, c.extra)
                                 /\ live' = live \cup {Mapping(c, addr, page)}
  <2>1. CASE ~Usable(c.dev, c.extra) \/ Refused(c)
    BY <2>1 DEF Map, Fails
  <2>2. CASE Usable(c.dev, c.extra) /\ ~Refused(c) /\ ~OutOfReach(c)
    <3>1. live' = live \cup {Mapping(c, c.host, None)}
      BY <2>2 DEF Map
    <3>2. c.host + c.bytes - 1 <= max
      BY <1>1, <1>2, <2>2 DEF OutOfReach
    <3>. QED  BY <1>1, <2>2, <3>1, <3>2
  <2>3. CASE Usable(c.dev, c.extra) /\ ~Refused(c) /\ OutOfReach(c)
    <3>1. Bounce(c)
      BY <2>3 DEF Map
    <3>2. CASE Fails("Map", "EFI_OUT_OF_RESOURCES")
      BY <3>2 DEF Fails
    <3>3. ASSUME NEW first \in Candidates(SizeToPages(c.bytes), max),
                 live' = live \cup {Mapping(c, first * PageSize, first)}
          PROVE  live' = live \/ \E page : \E addr \in Nat :
                    addr + c.bytes - 1 <= max /\ Usable(c.dev, c.extra)
                    /\ live' = live \cup {Mapping(c, addr, page)}
      <4>1. PICK s \in Nat : s = SizeToPages(c.bytes) /\ c.bytes <= s * PageSize
        BY <1>1, EnoughPages
      <4>2. first \in Nat /\ (first + s) * PageSize - 1 <= max
        BY <4>1 DEF Candidates, Pages
      <4>3. (first + s) * PageSize = first * PageSize + s * PageSize
            /\ first * PageSize \in Nat /\ s * PageSize \in Nat
        BY <4>1, <4>2, SizesAssumption
      <4>4. first * PageSize + c.bytes - 1 <= max
        BY <1>1, <1>2, <4>1, <4>2, <4>3
      <4>. QED  BY <2>3, <3>3, <4>3, <4>4
    <3>. HIDE DEF max
    <3>. QED  BY <3>1, <3>2, <3>3 DEF Bounce, max
  <2>. QED  BY <2>1, <2>2, <2>3
<1>5. (\A m \in live : Good(m)) => WithinReach
  BY DEF WithinReach
<1>6. \A m \in live : Good(m)
  BY DEF WithinReach
<1>7. \A m \in live' : Good(m)
  <2>. HIDE DEF Good
  <2>. QED  BY <1>3, <1>4, <1>6
<1>. QED  BY <1>7 DEF WithinReach

\* WithinReach of DtDma: a device is given only addresses that every bridge above it
\* decodes without translation, below the maximum asked for, bounced or not
\* (DtDeviceCreateDmaInit, DtIoMap).
THEOREM ReachKept == Spec /\ EntriesNotEmpty => []WithinReach
<1>. SUFFICES ASSUME EntriesNotEmpty PROVE Spec => []WithinReach
  OBVIOUS
<1>1. Init => WithinReach
  BY DEF Init, WithinReach
<1>2. WithinReach /\ [Next]_vars => WithinReach'
  <2>1. SUFFICES ASSUME WithinReach, [Next]_vars PROVE WithinReach'
    OBVIOUS
  <2>2. CASE \E c \in MapCalls : Map(c)
    BY <2>1, <2>2, MapReaches
  <2>3. CASE live' \subseteq live
    BY <2>1, <2>3 DEF WithinReach
  <2>4. (\E c \in MapCalls : Map(c)) \/ live' \subseteq live
    <3>1. ASSUME NEW m, Unmap(m) PROVE live' \subseteq live
      BY <3>1 DEF Unmap
    <3>2. ASSUME NEW b, AllocateBuffer(b) PROVE live' \subseteq live
      BY <3>2 DEF AllocateBuffer, Fails
    <3>3. ASSUME NEW f, NEW n, FreeBuffer(f, n) PROVE live' \subseteq live
      BY <3>3 DEF FreeBuffer, Fails
    <3>4. ASSUME NEW m, NEW i, NEW v, DeviceWrite(m, i, v) PROVE live' \subseteq live
      BY <3>4 DEF DeviceWrite
    <3>5. ASSUME NEW a, NEW v, CpuWrite(a, v) PROVE live' \subseteq live
      BY <3>5 DEF CpuWrite
    <3>6. UNCHANGED vars => live' \subseteq live
      BY DEF vars
    <3>. QED  BY <2>1, <3>1, <3>2, <3>3, <3>4, <3>5, <3>6 DEF Next
  <2>. QED  BY <2>2, <2>3, <2>4
<1>. QED  BY <1>1, <1>2, PTL DEF Spec
=============================================================================
