------------------------------- MODULE DtDma -------------------------------
(***************************************************************************)
(* Drivers/FdtBusDxe/DtIoDma.c, with DtDeviceCreateDmaInit: the DMA        *)
(* services of DT I/O.  A buffer that a device cannot reach is replaced by *)
(* a bounce buffer between Map and Unmap.  PCI drivers come in through the *)
(* root bridge (PciHostBridgeFdtDxe), which limits most requests to 4G.    *)
(*                                                                         *)
(* Memory is a few pages of a few cells.  Drivers keep to the rules of     *)
(* DtIoProtocol.md: they do not touch a buffer while it is mapped for a    *)
(* bus master read or write.                                               *)
(***************************************************************************)
EXTENDS Integers, FiniteSets, FiniteSetsExt

CONSTANTS
  PageSize, LastPage,
  Devices, Root,
  Parent,     \* of every device but Root
  DmaRanges,  \* devices with dma-ranges: sets of [child, parent, size]
  IsCoherent, \* devices with DtIo.IsDmaCoherent
  OwnPages,   \* pages the drivers have from elsewhere
  MapCalls,   \* what Map is called with: [dev, op, host, bytes, extra]
  Buffers     \* what AllocateBuffer is called with: [dev, pages, extra]

Pages == 0..LastPage
LastAddress == (LastPage + 1) * PageSize - 1   \* also stands for (EFI_PHYSICAL_ADDRESS)-1
Cells == 0..LastAddress
None == LastPage + 1    \* NO_MAPPING

ASSUME SizesAssumption == PageSize \in Nat \ {0} /\ LastPage \in Nat
ASSUME TreeAssumption ==
  /\ Root \in Devices
  /\ Parent \in [Devices \ {Root} -> Devices]
  /\ \A S \in SUBSET (Devices \ {Root}) : S # {} => \E d \in S : Parent[d] \notin S
  /\ \A d \in DOMAIN DmaRanges :
       DmaRanges[d] \subseteq [child : Cells, parent : Cells, size : 0..(LastAddress + 1)]
ASSUME CallsAssumption ==
  /\ OwnPages \subseteq Pages
  /\ \A c \in MapCalls : /\ c.dev \in Devices /\ c.extra.max \in Nat
                        /\ c.op \in {"read", "write", "common"} /\ c.bytes \in Nat \ {0}
                        /\ c.host \in Cells /\ c.host + c.bytes - 1 \in Cells
  /\ \A b \in Buffers : b.pages \in Nat \ {0}

VARIABLES
  ram,     \* contents of memory
  owner,   \* of a page: "free", "driver" or "bounce"
  maps,    \* the Maps lists of all devices: [dev, op, host, bytes, page]
  buffers, \* history: what AllocateBuffer returned, [dev, first, pages, extra]
  live,    \* history: mappings not yet undone, [dev, op, host, bytes, addr, page, reach]
  arrived, \* history: what the devices wrote to live mappings, <<mapping, offset, value>>
  last     \* [op, status] of the call made last

vars == <<ram, owner, maps, buffers, live, arrived, last>>

PagesOf(first, n) == first..(first + n - 1)
CellsOf(first, n) == (first * PageSize)..((first + n) * PageSize - 1)
SizeToPages(bytes) == (bytes + PageSize - 1) \div PageSize
Span(a, bytes) == a..(a + bytes - 1)
HostCells(m) == Span(m.host, m.bytes)

\* Memory, its owners and the mappings are in a proper state; a common buffer is
\* never bounced (DtIoProtocol.md: "not involving bounce buffering").
TypeOK ==
  /\ ram \in [Cells -> {0, 1}]
  /\ owner \in [Pages -> {"free", "driver", "bounce"}]
  /\ \A m \in maps : m.op # "common" /\ HostCells(m) \subseteq Cells /\ m.page \in Pages
  /\ \A m \in live : Span(m.addr, m.bytes) \subseteq Cells /\ m.page \in Pages \cup {None}
  /\ \A b \in buffers : PagesOf(b.first, b.pages) \subseteq Pages

Init ==
  /\ ram = [c \in Cells |-> 0]
  /\ owner = [p \in Pages |-> IF p \in OwnPages THEN "driver" ELSE "free"]
  /\ maps = {} /\ buffers = {} /\ live = {} /\ arrived = {}
  /\ last = [op |-> "none", status |-> "EFI_SUCCESS"]

-----------------------------------------------------------------------------
(* What a device can reach                                                 *)

\* DT_DEVICE_NON_IDENTITY_DMA is inherited.
Narrows(d) == d \in DOMAIN DmaRanges /\ DmaRanges[d] # {}
NonIdentity[d \in Devices] ==
  \/ d # Root /\ NonIdentity[Parent[d]]
  \/ Narrows(d) /\ \E r \in DmaRanges[d] : r.child # r.parent

\* MaxCpuDmaAddress: inherited, then narrowed by the end of every range; zero
\* when there is a translation.
Ends(d) == {IF r.size = 0 THEN r.child ELSE r.child + r.size - 1 : r \in DmaRanges[d]}
OwnRanges ==  \* mutant: only the device's own ranges count
  [d \in Devices |-> IF Narrows(d) THEN Min(Ends(d) \cup {LastAddress}) ELSE LastAddress]
MaxCpuDmaAddress ==
  LET max[d \in Devices] ==
        LET inherited == IF d = Root THEN LastAddress ELSE max[Parent[d]] IN
        IF ~Narrows(d) THEN inherited
        ELSE IF NonIdentity[d] THEN 0
        ELSE Min(Ends(d) \cup {inherited})
  IN max

\* ExtraConstraints: [max, coherent]; LastAddress means no maximum.
MaxAddress(d, extra) == Min({MaxCpuDmaAddress[d], extra.max})
Usable(d, extra) == ~NonIdentity[d] /\ d \in IsCoherent /\ extra.coherent

\* RootBridgeIoMap and RootBridgeIoAllocateBuffer: below 4G unless the operation
\* (the attributes) and the bus allow more.
PciExtra(size4G, wide, dmaAbove4G) ==
  [max |-> IF wide /\ dmaAbove4G THEN LastAddress ELSE size4G - 1, coherent |-> TRUE]
\* RootBridgeDmaAbove4G asks for a common buffer of one byte at 4G.
DmaAbove4G(d, size4G) == Usable(d, [coherent |-> TRUE]) /\ size4G <= MaxCpuDmaAddress[d]

-----------------------------------------------------------------------------
(* The UEFI memory services (external)                                     *)

\* AllocatePages with AllocateMaxAddress: some free pages that end at or below
\* the maximum.
Candidates(n, max) ==
  {f \in Pages : /\ PagesOf(f, n) \subseteq {p \in Pages : owner[p] = "free"}
                 /\ (f + n) * PageSize - 1 <= max}
Owned(first, n, who) == [p \in Pages |-> IF p \in PagesOf(first, n) THEN who ELSE owner[p]]
\* Nobody reads a free page before it is zeroed: its contents are left at zero.
Cleared(first, n) == [c \in Cells |-> IF c \in CellsOf(first, n) THEN 0 ELSE ram[c]]

-----------------------------------------------------------------------------
(* DT I/O services                                                         *)

Returns(op, status) == last' = [op |-> op, status |-> status]
Fails(op, status) == Returns(op, status) /\ UNCHANGED <<ram, owner, maps, buffers, live, arrived>>

Copied(from, to, n) ==
  [c \in Cells |-> IF c \in Span(to, n) THEN ram[from + (c - to)] ELSE ram[c]]

\* The buffer ends above the maximum.
FirstByte(c) == c.host > MaxAddress(c.dev, c.extra)   \* mutant: only the first byte is checked
OutOfReach(c) == c.host + c.bytes - 1 > MaxAddress(c.dev, c.extra)

\* A common buffer cannot be replaced.
NeverRefused(c) == FALSE   \* mutant: a common buffer may be bounced
Refused(c) == OutOfReach(c) /\ c.op = "common"

\* A bounce buffer: zeroed, filled for a bus master read, and put on the list.
NotFilled(c, first) == Cleared(first, SizeToPages(c.bytes))  \* mutant: the buffer is not copied
Filled(c, first) ==
  IF c.op = "read" THEN Copied(c.host, first * PageSize, c.bytes)
  ELSE Cleared(first, SizeToPages(c.bytes))

MapInfo(c, first) == [dev |-> c.dev, op |-> c.op, host |-> c.host, bytes |-> c.bytes, page |-> first]
Mapping(c, addr, page) ==
  [dev |-> c.dev, op |-> c.op, host |-> c.host, bytes |-> c.bytes, addr |-> addr, page |-> page,
   reach |-> c.extra.max]

Bounce(c) ==
  \/ Fails("Map", "EFI_OUT_OF_RESOURCES")
  \/ \E first \in Candidates(SizeToPages(c.bytes), MaxAddress(c.dev, c.extra)) :
       /\ owner' = Owned(first, SizeToPages(c.bytes), "bounce")
       /\ ram' = Filled(c, first)
       /\ maps' = maps \cup {MapInfo(c, first)}
       /\ live' = live \cup {Mapping(c, first * PageSize, first)}
       /\ Returns("Map", "EFI_SUCCESS")
       /\ UNCHANGED <<buffers, arrived>>

\* The driver may map what it owns, unless a bus master writes there already or
\* this one would write under another mapping.
MayMap(c) ==
  /\ \A a \in HostCells(c) : owner[a \div PageSize] = "driver"
  /\ \A m \in live : HostCells(m) \cap HostCells(c) # {} => m.op = "read" /\ c.op = "read"

Map(c) ==
  /\ MayMap(c)
  /\ IF ~Usable(c.dev, c.extra) THEN Fails("Map", "EFI_UNSUPPORTED")
     ELSE IF Refused(c) THEN Fails("Map", "EFI_INVALID_PARAMETER")
     ELSE IF OutOfReach(c) THEN Bounce(c)
     ELSE /\ live' = live \cup {Mapping(c, c.host, None)}
          /\ Returns("Map", "EFI_SUCCESS")
          /\ UNCHANGED <<ram, owner, maps, buffers, arrived>>

\* Unmap: nothing to do without a bounce buffer; else the data of a bus master
\* write goes to its place and the pages are freed.
RoundsDown(i) == i.bytes \div PageSize  \* mutant: a page that is not full is not freed
NumberOfPages(i) == SizeToPages(i.bytes)
NoCopy(i) == ram   \* mutant: the data of the device is not copied back
Committed(i) == IF i.op = "write" THEN Copied(i.page * PageSize, i.host, i.bytes) ELSE ram

Unmap(m) ==
  /\ m \in live
  /\ live' = live \ {m}
  /\ arrived' = {w \in arrived : w[1] # m}
  /\ Returns("Unmap", "EFI_SUCCESS")
  /\ \/ m.page = None /\ UNCHANGED <<ram, owner, maps>>
     \/ \E i \in maps :
          /\ i.dev = m.dev /\ i.page = m.page
          /\ maps' = maps \ {i}
          /\ ram' = [c \in Cells |-> IF c \in CellsOf(i.page, SizeToPages(i.bytes)) THEN 0 ELSE Committed(i)[c]]
          /\ owner' = Owned(i.page, NumberOfPages(i), "free")
  /\ UNCHANGED buffers

AllocateBuffer(b) ==
  IF ~Usable(b.dev, b.extra) THEN Fails("AllocateBuffer", "EFI_UNSUPPORTED")
  ELSE \/ Fails("AllocateBuffer", "EFI_OUT_OF_RESOURCES")
       \/ \E first \in Candidates(b.pages, MaxAddress(b.dev, b.extra)) :
            /\ owner' = Owned(first, b.pages, "driver")
            /\ ram' = Cleared(first, b.pages)
            /\ buffers' = buffers \cup {[dev |-> b.dev, first |-> first, pages |-> b.pages, extra |-> b.extra]}
            /\ Returns("AllocateBuffer", "EFI_SUCCESS")
            /\ UNCHANGED <<maps, live, arrived>>

\* FreeBuffer is FreePages.  Drivers free their buffers, sometimes twice.
FreeBuffer(first, n) ==
  LET given == {b \in buffers : b.first = first /\ b.pages = n} IN
  IF \E p \in PagesOf(first, n) : owner[p] = "free" THEN Fails("FreeBuffer", "EFI_NOT_FOUND")
  ELSE /\ given # {}
       /\ \A m \in live : HostCells(m) \cap CellsOf(first, n) = {}
       /\ owner' = Owned(first, n, "free")
       /\ ram' = Cleared(first, n)
       /\ buffers' = buffers \ given
       /\ Returns("FreeBuffer", "EFI_SUCCESS")
       /\ UNCHANGED <<maps, live, arrived>>

-----------------------------------------------------------------------------
(* Drivers and devices (external)                                          *)

\* A bus master write, to a mapping that allows it.
DeviceWrite(m, i, v) ==
  /\ m.op # "read"
  /\ ram' = [ram EXCEPT ![m.addr + i] = v]
  /\ arrived' = IF m.op = "common" THEN arrived
                ELSE {w \in arrived : w[1] # m \/ w[2] # i} \cup {<<m, i, v>>}
  /\ UNCHANGED <<owner, maps, buffers, live, last>>

\* The processor writes to its memory; of mapped memory only to common buffers.
CpuWrite(a, v) ==
  /\ owner[a \div PageSize] = "driver"
  /\ \A m \in live : m.op = "common" \/ a \notin HostCells(m)
  /\ ram' = [ram EXCEPT ![a] = v]
  /\ UNCHANGED <<owner, maps, buffers, live, arrived, last>>

Next ==
  \/ \E c \in MapCalls : Map(c)
  \/ \E m \in live : Unmap(m)
  \/ \E b \in Buffers : AllocateBuffer(b)
  \/ \E f \in Pages, n \in {1, 2} : f + n <= LastPage + 1 /\ FreeBuffer(f, n)
  \/ \E m \in live, v \in {0, 1} : \E i \in 0..(m.bytes - 1) : DeviceWrite(m, i, v)
  \/ \E a \in Cells, v \in {0, 1} : CpuWrite(a, v)

Spec == Init /\ [][Next]_vars

-----------------------------------------------------------------------------
(* Properties                                                              *)

\* Every bounce page belongs to exactly one mapping on a list, and the drivers
\* hold a mapping for each: nothing leaks, nothing is shared.
BounceAccounted ==
  /\ {p \in Pages : owner[p] = "bounce"} = UNION {PagesOf(m.page, SizeToPages(m.bytes)) : m \in maps}
  /\ \A m, n \in maps : m # n =>
       PagesOf(m.page, SizeToPages(m.bytes)) \cap PagesOf(n.page, SizeToPages(n.bytes)) = {}
  /\ maps = {[dev |-> m.dev, op |-> m.op, host |-> m.host, bytes |-> m.bytes, page |-> m.page]
              : m \in {l \in live : l.page # None}}

\* "all the data must be present in system memory before the Map() is performed"
\* (DtIoProtocol.md): as long as a mapping for a bus master read lives, the device
\* reads what the driver put into its buffer, wherever it really reads.
ReadsSeeBuffer ==
  \A m \in live : m.op = "read" => \A i \in 0..(m.bytes - 1) : ram[m.addr + i] = ram[m.host + i]

\* "If the operation was an EfiDtIoDmaOperationBusMasterWrite, the data is
\* committed to the target system memory": after Unmap the driver's buffer has
\* everything the device wrote.
WritesArrive ==
  [][\A w \in arrived : (w[1] \in live /\ w[1] \notin live') => ram'[w[1].host + w[2]] = w[3]]_vars

\* Bus master access stays inside what every bridge on the way up decodes and
\* below the maximum that was asked for (for ranges that start at zero: lower
\* bounds are not supported).
Above[d \in Devices] == IF d = Root THEN {d} ELSE {d} \cup Above[Parent[d]]
Decodes(d, a) ==
  \A u \in Above[d] : Narrows(u) => \A r \in DmaRanges[u] : r.child = r.parent /\ a < r.child + r.size
WithinReach ==
  \A m \in live : \A a \in Span(m.addr, m.bytes) : Decodes(m.dev, a) /\ a <= m.reach
=============================================================================
