------------------------------- MODULE DtReg -------------------------------
(***************************************************************************)
(* Drivers/FdtBusDxe: how a driver gets at the registers of its device.    *)
(* DtIoPropParse.c and DtIoProp.c read fields of a property, DtDevice.c    *)
(* translates an address through the ranges of the buses above, Utils.c    *)
(* makes the region known to the GCD memory map, and DtIo.c accesses it,   *)
(* as a CPU address or through the bus at which the translation ended.     *)
(*                                                                         *)
(* A cell has CellBase values instead of 2^32; a 64-bit address is two     *)
(* cells.  The calls are those of the driver of one device, Device, and of *)
(* the drivers that set callbacks on a bus above it.                       *)
(***************************************************************************)
EXTENDS Integers, Sequences, FiniteSets, SequencesExt

CONSTANTS
  Nodes, Root, Parent, \* Parent of every node but Root
  Device,              \* whose driver makes the calls
  SampleBuses,         \* nodes driven by SampleBusDxe
  Blobs,               \* devicetrees: node -> property name -> cells (reg-names: strings)
  Maps,                \* GCD memory maps there may be at the start
  CellBase, MaxNCells, \* FDT_MAX_NCELLS
  PageSize, GcdPages,  \* addresses beyond GcdPages are unknown to the GCD
  FaultPages,          \* where adding memory or setting attributes may fail
  RegTypes,            \* cell value -> GCD memory type
  Names, Attributes,   \* reg-names asked for, attributes set
  Mmio, UC,            \* EfiGcdMemoryTypeMemoryMappedIo, EFI_MEMORY_UC
  Widths,              \* access widths: [kind : {"Uint", "Fifo", "Fill"}, size]
  Offsets, Counts,     \* of the accesses
  Delays,              \* of the polls; none but 0 outside PollBlobs
  PollBlobs,
  Frequency, Period,   \* ticks in Period units of PollReg's Delay
  EndTick, TickWord,   \* the counter rolls over after EndTick, arithmetic at TickWord
  MaxSpent             \* the ticks a poll may last

Word == CellBase^MaxNCells
CpuWord == CellBase * CellBase
CpuPages == CpuWord \div PageSize
Known == 0..(GcdPages - 1)
Types == {RegTypes[c] : c \in DOMAIN RegTypes} \cup {Mmio}
Page == [type : {"NonExistent"} \cup Types, attrs : 0..(CpuWord - 1), used : BOOLEAN]

ASSUME TreeAssumption ==
  /\ Nodes \subseteq Nat /\ IsFiniteSet(Nodes) /\ Root \in Nodes /\ Device \in Nodes \ {Root}
  /\ Parent \in [Nodes \ {Root} -> Nodes] /\ \A n \in Nodes \ {Root} : Parent[n] < n
  /\ SampleBuses \subseteq Nodes
ASSUME SizesAssumption ==
  /\ {CellBase, MaxNCells, PageSize, GcdPages, Frequency, Period, EndTick, TickWord} \subseteq Nat \ {0}
  /\ MaxSpent \in Nat /\ UC \in 1..(CpuWord - 1) /\ EndTick < TickWord /\ Delays \subseteq Nat
  /\ PageSize * GcdPages <= CpuWord /\ CpuWord % PageSize = 0
  /\ Word \in Nat /\ CpuWord <= Word /\ Word % CpuWord = 0
\* Cells are cells, and no type or page stands for memory that is not there.
ASSUME BlobsAssumption ==
  /\ \A d \in Blobs : /\ DOMAIN d = Nodes /\ \A n \in Nodes : DOMAIN d[n] \subseteq STRING
                      /\ \A n \in Nodes : \A name \in DOMAIN d[n] \ {"reg-names"} :
                           d[n][name] \in Seq(0..(CellBase - 1))
                      /\ \A n \in Nodes : "reg-names" \in DOMAIN d[n] => d[n]["reg-names"] \in Seq(STRING)
  /\ Types \subseteq STRING \ {"NonExistent"} /\ Attributes \subseteq 0..(CpuWord - 1)
ASSUME MapsAssumption ==
  /\ Maps \subseteq [Known -> Page]
  /\ \A map \in Maps : \A pg \in Known : map[pg].type = "NonExistent" => ~map[pg].used

VARIABLES
  dt,        \* the devicetree blob; never changes
  gcd,       \* page -> [type, attrs, used]
  prop,      \* an EFI_DT_PROPERTY of the driver: [name, data, iter], iter counted in cells
  reg,       \* the EFI_DT_REG or EFI_DT_RANGE last obtained; at: where its fields begin
  callbacks, \* sample bus -> accesses it does for its children
  call,      \* ghost: offsets the access just made should reach, and cells it did reach
  poll       \* a PollReg in progress, with the counter and the hardware register it watches

vars == <<dt, gcd, prop, reg, callbacks, call, poll>>

Cpu == -1              \* Reg.BusDtIo = NULL: a CPU address
NoProp == [name |-> "none", data |-> <<>>, iter |-> 0]
NoReg  == [kind |-> "none", at |-> 0, child |-> 0, busBase |-> 0, len |-> 0, base |-> 0, bus |-> Cpu]
NoCall == [by |-> "reg", asked |-> {}, cells |-> {}, function |-> <<0, 0>>]
NoPoll == [pc |-> "idle"]
NonExistent == [type |-> "NonExistent", attrs |-> 0, used |-> FALSE]
NoFault == <<"none", 0>>

----------------------------------------------------------------------------
\* Fdt.c and DtDeviceCreate: the cells of addresses and sizes.

Has(n, name) == name \in DOMAIN dt[n]

FdtCells(n, name, default) ==
  IF ~Has(n, name) THEN default
  ELSE IF Len(dt[n][name]) # 1 \/ dt[n][name][1] > MaxNCells THEN 0
  ELSE dt[n][name][1]

FdtGetAddressCells(n) == FdtCells(n, "#address-cells", 2)
FdtGetSizeCells(n)    == FdtCells(n, "#size-cells", 1)

ChildAddressCells(n) == FdtGetAddressCells(n)
ChildSizeCells(n)    == FdtGetSizeCells(n)
AddressCells(n) == IF n = Root THEN 2 ELSE ChildAddressCells(Parent[n])
SizeCells(n)    == IF n = Root THEN 1 ELSE ChildSizeCells(Parent[n])

----------------------------------------------------------------------------
\* DtIoPropParse.c: a parser takes an iterator and yields a value and an iterator.

AtBegin(n, name) == [name |-> name, data |-> dt[n][name], iter |-> 0]
Left(p) == Len(p.data) - p.iter
Value(cells) ==
  LET prefix[i \in 0..Len(cells)] == IF i = 0 THEN 0 ELSE prefix[i - 1] * CellBase + cells[i]
  IN  prefix[Len(cells)]
NotFound(p) == [ok |-> FALSE, val |-> 0, p |-> p]

FieldAtEnd(p, n, i) == \* mutant: one field too many
  IF n = 0 \/ Left(p) \div n < i THEN NotFound(p)
  ELSE [ok |-> TRUE, val |-> 0, p |-> [p EXCEPT !.iter = p.iter + n * i + n]]

\* The Index-th field of n cells from the iterator on; the iterator ends up behind it.
Field(p, n, i) ==
  IF n = 0 \/ Left(p) \div n <= i THEN NotFound(p)
  ELSE LET from == p.iter + n * i
       IN  [ok |-> TRUE, val |-> Value(SubSeq(p.data, from + 1, from + n)),
            p |-> [p EXCEPT !.iter = from + n]]
\* A size of no cells is zero and always there.
SizeField(p, n, i) == IF n = 0 THEN [ok |-> TRUE, val |-> 0, p |-> p] ELSE Field(p, n, i)

ParseU32(p, i)                == Field(p, 1, i)
ParseU64(p, i)                == Field(p, 2, i)
ParseBusAddress(n, p, i)      == Field(p, AddressCells(n), i)
ParseChildBusAddress(n, p, i) == Field(p, ChildAddressCells(n), i)
ParseSize(n, p, i)            == SizeField(p, SizeCells(n), i)
ParseChildSize(n, p, i)       == SizeField(p, ChildSizeCells(n), i)

\* An entry of ranges, field by field.
Fields(child, bus, size) ==
  [ok |-> child.ok /\ bus.ok /\ size.ok, child |-> child.val, bus |-> bus.val,
   len |-> size.val, p |-> size.p]
RangeSize(n, child, bus) == Fields(child, bus, ParseChildSize(n, bus.p, 0))
RangeBus(n, child) == RangeSize(n, child, ParseBusAddress(n, child.p, 0))
RangeFields(n, p) == RangeBus(n, ParseChildBusAddress(n, p, 0))

RegSize(n, bus) == Fields([ok |-> TRUE, val |-> 0], bus, ParseSize(n, bus.p, 0))
RegFields(n, p) == RegSize(n, ParseBusAddress(n, p, 0))

----------------------------------------------------------------------------
\* DtDevice.c: translation of [in, in + len) through the buses above the device.

Untranslated == -1
StartOnly(in, len, e) == in >= e.child /\ in < e.child + e.len \* mutant: the end is not looked at
Inside(in, len, e) == in >= e.child /\ (in + len) % Word <= (e.child + e.len) % Word

TranslateRanges(b, in, len, ranges) ==
  LET find[i \in 0..Len(ranges.data)] ==
        LET From(e) == IF ~e.ok THEN Untranslated
                       ELSE IF Inside(in, len, e) THEN ((in - e.child) + e.bus) % Word
                       ELSE find[e.p.iter]
        IN  IF i = Len(ranges.data) THEN Untranslated
            ELSE From(RangeFields(b, [ranges EXCEPT !.iter = i]))
  IN  find[0]
DtDeviceTranslateRangeInternal(b, in, len) ==
  IF b = Root THEN in
  ELSE IF ~Has(b, "ranges") THEN Untranslated
  ELSE IF dt[b]["ranges"] = <<>> THEN in
  ELSE TranslateRanges(b, in, len, AtBegin(b, "ranges"))

\* Up from the parent of n, as far as there is a translation.
ValidCpuRange(end, len) ==
  end.base < CpuWord /\ (len # 0 => ((end.base + len) - 1) % Word < CpuWord)
DtDeviceTranslateRangeToCpu(n, in, len) ==
  LET up[b \in Nodes] ==
        LET To(a, out) == IF out = Untranslated THEN [base |-> a, bus |-> b]
                          ELSE IF b = Root THEN [base |-> out, bus |-> Cpu]
                          ELSE up[Parent[b]][out]
        IN  [a \in 0..(Word - 1) |-> To(a, DtDeviceTranslateRangeInternal(b, a, len))]
  IN  up[Parent[n]][in]

----------------------------------------------------------------------------
\* Utils.c: the memory map.  A descriptor is a run of pages that are alike.

PageOf(pg) == IF pg \in Known THEN gcd[pg] ELSE NonExistent

\* Up to the end of the last page; past the last page of all the end is zero.
PagesOf(base, len) ==
  LET end == ((((base + len) % CpuWord) + (PageSize - 1)) \div PageSize) % CpuPages
  IN  {pg \in 0..(CpuPages - 1) : base \div PageSize <= pg /\ pg < end}

HaveConflict(pg, type, attrs) ==
  /\ PageOf(pg).type # "NonExistent"
  /\ ~(PageOf(pg).type = type /\ PageOf(pg).attrs \in {0, attrs})
\* OnConflictDoNothing: a region that a driver asks for does not override.
OverridesAlways(pg, type, attrs, keep) == HaveConflict(pg, type, attrs) \* mutant
Overrides(pg, type, attrs, keep) == HaveConflict(pg, type, attrs) /\ ~keep

\* to: the type and attributes wanted, OnConflictDoNothing (keep), and the call
\* to the DXE services that fails with the page it fails at (fault).
Added(pg, to) == PageOf(pg).type = "NonExistent" \/ Overrides(pg, to.type, to.attrs, to.keep)
AttrsSet(pg, to) ==
  Added(pg, to) \/ (~HaveConflict(pg, to.type, to.attrs) /\ PageOf(pg).attrs = 0)
Applied(pg, to) ==
  IF ~AttrsSet(pg, to) THEN PageOf(pg)
  ELSE IF Added(pg, to) THEN [type |-> to.type, attrs |-> to.attrs, used |-> FALSE]
  ELSE [PageOf(pg) EXCEPT !.attrs = to.attrs]
InUse(pg, to) == Overrides(pg, to.type, to.attrs, to.keep) /\ PageOf(pg).used
Fails(pg, to) == \/ pg \notin Known \/ InUse(pg, to)
                 \/ Added(pg, to) /\ to.fault = <<"add", pg>>
                 \/ AttrsSet(pg, to) /\ to.fault = <<"attrs", pg>>
\* Where a call failed: removed and not added again, or added without attributes.
Half(pg, to) == IF InUse(pg, to) THEN PageOf(pg)
                ELSE IF to.fault[1] = "add" THEN NonExistent
                ELSE [Applied(pg, to) EXCEPT !.attrs = 0]

\* The pages before the first descriptor that fails are done, those after it are not.
ApplyUpTo(pages, starts, failing, to) ==
  LET Reached(pg) == \A s \in failing : pg < s
      AtFirst(pg) == \E s \in failing : /\ s <= pg /\ \A q \in failing : s <= q
                                       /\ \A q \in starts : q <= s \/ q > pg
  IN  [ok  |-> failing = {},
       gcd |-> [pg \in Known |-> IF pg \notin pages THEN gcd[pg]
                                 ELSE IF Reached(pg) THEN Applied(pg, to)
                                 ELSE IF AtFirst(pg) THEN Half(pg, to) ELSE gcd[pg]]]
ApplyTo(pages, starts, to) == ApplyUpTo(pages, starts, {s \in starts : Fails(s, to)}, to)
Descriptors(pages) ==
  {pg \in pages : pg - 1 \notin pages \/ PageOf(pg) # PageOf(pg - 1) \/ pg = GcdPages}
ApplyGcdTypeAndAttrs(base, len, to) ==
  ApplyTo(PagesOf(base, len), Descriptors(PagesOf(base, len)), to)

----------------------------------------------------------------------------
\* DtProp.c and DtIoPropParse.c: an entry of reg or of ranges as a whole.

\* The Index-th element, whichever entry the caller's iterator is at.
DtPropGetRegOrRangeEfiTypeAndAttrs(kind, i) ==
  LET name  == IF kind = "reg" THEN "reg-attrs" ELSE "range-attrs"
      cells == dt[Device][name]
      at    == 3 * i
      Bad(status) == [status |-> status, type |-> Mmio, attrs |-> 0]
  IN  IF ~Has(Device, name) THEN [status |-> "EFI_SUCCESS", type |-> Mmio, attrs |-> UC]
      ELSE IF Len(cells) \div 3 <= i THEN Bad("EFI_NOT_FOUND")
      ELSE IF cells[at + 1] \notin DOMAIN RegTypes THEN Bad("EFI_INVALID_PARAMETER")
      ELSE [status |-> "EFI_SUCCESS", type |-> RegTypes[cells[at + 1]],
            attrs |-> Value(SubSeq(cells, at + 2, at + 3))]

ElemCells(kind) ==
  AddressCells(Device) + IF kind = "reg" THEN SizeCells(Device)
                         ELSE ChildAddressCells(Device) + ChildSizeCells(Device)

ParsedRegion(kind, p, f, cpu) ==
  [ok |-> TRUE, status |-> "EFI_SUCCESS", p |-> f.p, gcd |-> gcd,
   reg |-> [kind |-> kind, at |-> p.iter, child |-> f.child, busBase |-> f.bus,
            len |-> f.len, base |-> cpu.base, bus |-> cpu.bus]]
ParseError(p, status) == [ok |-> FALSE, status |-> status, p |-> p, reg |-> NoReg, gcd |-> gcd]
NotParsed(p) == ParseError(p, "EFI_NOT_FOUND")

MapRegion(p, parsed, map) ==
  IF map.ok THEN [parsed EXCEPT !.gcd = map.gcd] ELSE [ParseError(p, "EFI_DEVICE_ERROR") EXCEPT !.gcd = map.gcd]
Typed(p, f, parsed, ta, fault) ==
  IF ta.status # "EFI_SUCCESS" THEN ParseError(p, ta.status)
  ELSE MapRegion(p, parsed, ApplyGcdTypeAndAttrs(parsed.reg.base, f.len,
         [type |-> ta.type, attrs |-> ta.attrs, keep |-> TRUE, fault |-> fault]))
Translated(kind, p, i, from, f, cpu, fault) ==
  IF cpu.bus = Cpu /\ ~ValidCpuRange(cpu, f.len) THEN ParseError(p, "EFI_UNSUPPORTED")
  ELSE IF cpu.bus # Cpu \/ f.len = 0 THEN ParsedRegion(kind, from, f, cpu)
  ELSE Typed(p, f, ParsedRegion(kind, from, f, cpu),
             DtPropGetRegOrRangeEfiTypeAndAttrs(kind, i), fault)
Decoded(kind, p, i, from, f, fault) ==
  IF ~f.ok THEN NotParsed(p)
  ELSE Translated(kind, p, i, from, f, DtDeviceTranslateRangeToCpu(Device, f.bus, f.len), fault)

\* DtIoParsePropReg and DtIoParsePropRange: what an entry says, and what
\* becomes of the memory map; the iterator moves behind the entry, or stays.
ParseRegion(kind, p, i, fault) ==
  LET from == [p EXCEPT !.iter = @ + ElemCells(kind) * i]
  IN  IF ElemCells(kind) = 0 \/ Left(p) \div ElemCells(kind) <= i THEN NotParsed(p)
      ELSE Decoded(kind, p, i, from, IF kind = "reg" THEN RegFields(Device, from)
                                     ELSE RangeFields(Device, from), fault)

----------------------------------------------------------------------------
\* The calls.

idle == poll = NoPoll
Quiet == UNCHANGED <<callbacks, poll>> /\ call' = NoCall

Init ==
  /\ dt \in Blobs /\ gcd \in Maps
  /\ prop = NoProp /\ reg = NoReg /\ callbacks = {} /\ call = NoCall /\ poll = NoPoll

Faults == {NoFault} \cup {"add", "attrs"} \X FaultPages

DtIoGetProp(name) ==
  /\ idle /\ Has(Device, name)
  /\ prop' = AtBegin(Device, name)
  /\ Quiet /\ UNCHANGED <<dt, gcd, reg>>

FieldParsers == {"U32", "U64", "BusAddress", "ChildBusAddress", "Size", "ChildSize"}
ParseField(type, i) ==
  CASE type = "U32"             -> ParseU32(prop, i)
    [] type = "U64"             -> ParseU64(prop, i)
    [] type = "BusAddress"      -> ParseBusAddress(Device, prop, i)
    [] type = "ChildBusAddress" -> ParseChildBusAddress(Device, prop, i)
    [] type = "Size"            -> ParseSize(Device, prop, i)
    [] type = "ChildSize"       -> ParseChildSize(Device, prop, i)

DtIoParseProp(type, i) ==
  /\ idle /\ prop.name \notin {"none", "reg-names"}
  /\ prop' = ParseField(type, i).p
  /\ Quiet /\ UNCHANGED <<dt, gcd, reg>>

DtIoParsePropString(i) ==
  /\ idle /\ prop.name = "reg-names"
  /\ prop' = IF Left(prop) <= i THEN prop ELSE [prop EXCEPT !.iter = @ + i + 1]
  /\ Quiet /\ UNCHANGED <<dt, gcd, reg>>

\* EFI_DT_VALUE_REG and EFI_DT_VALUE_RANGE, of a property already looked up.
DtIoParsePropRegion(kind, i, fault) ==
  /\ idle /\ prop.name = kind
  /\ LET r == ParseRegion(kind, prop, i, fault)
     IN  /\ prop' = r.p /\ gcd' = r.gcd
         /\ reg' = IF r.ok THEN r.reg ELSE reg
  /\ Quiet /\ UNCHANGED dt

\* What DtIoGetReg and DtIoGetRange have in common.
GetRegion(kind, i, fault) ==
  IF Has(Device, kind) THEN ParseRegion(kind, AtBegin(Device, kind), i, fault) ELSE NotParsed(NoProp)
DtIoGetRegion(kind, i, fault) ==
  /\ idle
  /\ LET r == GetRegion(kind, i, fault)
     IN  /\ gcd' = r.gcd
         /\ reg' = IF r.ok THEN r.reg ELSE reg
  /\ Quiet /\ UNCHANGED <<dt, prop>>

DtIoGetReg(i, fault)   == DtIoGetRegion("reg", i, fault)
DtIoGetRange(i, fault) == DtIoGetRegion("ranges", i, fault)

\* reg-names is a sequence of strings.
DtIoGetStringIndex(value) == SelectInSeq(dt[Device]["reg-names"], LAMBDA s : s = value) - 1
DtIoGetRegByName(value, fault) ==
  /\ Has(Device, "reg-names") /\ DtIoGetStringIndex(value) >= 0
  /\ DtIoGetReg(DtIoGetStringIndex(value), fault)

\* Only a region of CPU addresses has a place in the memory map.
DtIoSetRegType(type, attrs, fault) ==
  /\ idle /\ reg.kind = "reg" /\ reg.len # 0 /\ attrs # 0 /\ reg.bus = Cpu
  /\ gcd' = ApplyGcdTypeAndAttrs(reg.base, reg.len,
             [type |-> type, attrs |-> attrs, keep |-> FALSE, fault |-> fault]).gcd
  /\ Quiet /\ UNCHANGED <<dt, prop, reg>>

\* By the driver of a bus, as it starts and stops.
DtIoSetCallbacks(b) ==
  /\ idle /\ callbacks' = IF b \in callbacks THEN callbacks \ {b} ELSE callbacks \cup {b}
  /\ call' = NoCall /\ UNCHANGED <<dt, gcd, prop, reg, poll>>

----------------------------------------------------------------------------
\* DtIo.c: accesses.

\* A FIFO stays at its address.
AddressIncrement(w, count) == IF w.kind = "Fifo" THEN 1 ELSE count
Length(w, count) == AddressIncrement(w, count) * w.size
Span(w, count) == Length(w, count) % CpuWord
\* A caller has less than 2^64 bytes to move, and no offset next to 2^128.
ASSUME CallersAssumption ==
  /\ \A w \in Widths : w.size \in Nat \ {0}
  /\ Counts \subseteq Nat /\ \A w \in Widths, count \in Counts : Length(w, count) < CpuWord
  /\ Offsets \subseteq Nat /\ \A off \in Offsets : off + CpuWord <= Word
StartFits(r, w, off, count) == off <= r.len \* mutant: only the first byte is looked at
Fits(r, w, off, count) == (off + Span(w, count)) % Word <= r.len

\* gCpuIo2: aligned, and not past the end of the address space.
CpuIoAccepts(a, w, count) == a % w.size = 0 /\ a + Length(w, count) <= CpuWord
\* ReadChildReg of SampleBusDxe answers plain reads; it sets no WriteChildReg.
CallbackAccepts(r, op, w) == r.bus \in callbacks /\ op = "read" /\ w.kind = "Uint"

Touched(r, a, w, count) == IF count = 0 THEN {}
                           ELSE {<<r.bus, x>> : x \in a..(a + Length(w, count) - 1)}

\* DtIoReadReg and DtIoWriteReg.
Access(r, op, w, off, count) ==
  LET a == (r.base + off) % (IF r.bus = Cpu THEN CpuWord ELSE Word)
      ok == /\ Fits(r, w, off, count)
            /\ IF r.bus = Cpu THEN CpuIoAccepts(a, w, count) ELSE CallbackAccepts(r, op, w)
  IN  [ok |-> ok,
       call |-> IF ~ok THEN NoCall
                ELSE [NoCall EXCEPT !.asked = IF count = 0 THEN {} ELSE off..(off + Length(w, count) - 1),
                                    !.cells = Touched(r, a, w, count)]]
\* DtIoCopyReg reads everything before it writes.
Copied(read, write) ==
  IF read.ok /\ write.ok
  THEN [read.call EXCEPT !.asked = @ \cup write.call.asked, !.cells = @ \cup write.call.cells]
  ELSE read.call

DtIoReadWriteReg(op, w, off, count) ==
  /\ idle /\ reg.kind = "reg"
  /\ call' = Access(reg, op, w, off, count).call
  /\ UNCHANGED <<dt, gcd, prop, reg, callbacks, poll>>

\* Within one region.
DtIoCopyReg(w, dest, src, count) ==
  /\ idle /\ reg.kind = "reg"
  /\ call' = Copied(Access(reg, "read", w, src, count), Access(reg, "write", w, dest, count))
  /\ UNCHANGED <<dt, gcd, prop, reg, callbacks, poll>>

----------------------------------------------------------------------------
\* DtIoPollReg: the counter and the register change while it reads.

PollOffset == 0
PollWidth == CHOOSE w \in Widths : w.kind = "Uint" /\ \A v \in Widths : v.kind = "Uint" => w.size <= v.size

NumberOfTicks(delay) ==
  (Frequency * delay) \div Period + IF (Frequency * delay) % Period >= Period \div 2 THEN 1 ELSE 0

UpwardTick(up, previous, current) == (current - previous) % TickWord \* mutant: no counter counts down
GetElapsedTick(up, previous, current) ==
  (IF up THEN current - previous ELSE previous - current) % TickWord

\* Of a region that can be read: the first read decides that.
PollStart(delay, up, tick, hw) ==
  /\ prop = NoProp /\ call = NoCall
  /\ delay # 0 => dt \in PollBlobs
  /\ poll' = [pc |-> IF delay = 0 THEN "SUCCESS" ELSE "poll", delay |-> delay, up |-> up,
              tick |-> tick, current |-> tick, elapsed |-> 0, hw |-> hw, last |-> hw,
              spent |-> 0, rolled |-> FALSE]
  /\ UNCHANGED <<dt, gcd, prop, reg, callbacks, call>>
DtIoPollReg(delay, up, tick, hw) ==
  /\ idle /\ reg.kind = "reg" /\ Access(reg, "read", PollWidth, PollOffset, 1).ok
  /\ PollStart(delay, up, tick, hw)

Polling == poll # NoPoll /\ poll.pc \in {"poll", "tick"}

PollRead ==
  /\ Polling /\ poll.pc = "poll"
  /\ poll' = [poll EXCEPT !.last = poll.hw, !.pc = IF poll.hw THEN "SUCCESS" ELSE "tick"]
  /\ UNCHANGED <<dt, gcd, prop, reg, callbacks, call>>

PollTick ==
  /\ Polling /\ poll.pc = "tick"
  /\ LET elapsed == (poll.elapsed + GetElapsedTick(poll.up, poll.current, poll.tick)) % TickWord
     IN  poll' = [poll EXCEPT !.elapsed = elapsed, !.current = poll.tick,
                              !.pc = IF elapsed <= NumberOfTicks(poll.delay) THEN "poll" ELSE "TIMEOUT"]
  /\ UNCHANGED <<dt, gcd, prop, reg, callbacks, call>>

Clock ==
  /\ Polling /\ poll.spent < MaxSpent
  /\ LET last == IF poll.up THEN EndTick ELSE 0
         next == IF poll.tick = last THEN EndTick - last
                 ELSE IF poll.up THEN poll.tick + 1 ELSE poll.tick - 1
     IN  poll' = [poll EXCEPT !.tick = next, !.spent = @ + 1, !.rolled = @ \/ poll.tick = last]
  /\ UNCHANGED <<dt, gcd, prop, reg, callbacks, call>>

HwChange ==
  /\ Polling /\ poll' = [poll EXCEPT !.hw = ~@]
  /\ UNCHANGED <<dt, gcd, prop, reg, callbacks, call>>

PollReturn ==
  /\ poll # NoPoll /\ ~Polling /\ poll' = NoPoll
  /\ UNCHANGED <<dt, gcd, prop, reg, callbacks, call>>

----------------------------------------------------------------------------
Indices == 0..2

PollStep == PollRead \/ PollTick \/ Clock \/ HwChange \/ PollReturn

Next ==
  \/ \E name \in DOMAIN dt[Device] : DtIoGetProp(name)
  \/ \E type \in FieldParsers, i \in Indices : DtIoParseProp(type, i)
  \/ \E i \in Indices : DtIoParsePropString(i)
  \/ \E i \in Indices, f \in Faults :
       \/ DtIoGetReg(i, f) \/ DtIoGetRange(i, f)
       \/ \E kind \in {"reg", "ranges"} : DtIoParsePropRegion(kind, i, f)
  \/ \E s \in Names, f \in Faults : DtIoGetRegByName(s, f)
  \/ \E c \in DOMAIN RegTypes, attrs \in Attributes, f \in Faults : DtIoSetRegType(RegTypes[c], attrs, f)
  \/ \E b \in SampleBuses : DtIoSetCallbacks(b)
  \/ \E w \in Widths, off \in Offsets, count \in Counts :
       \/ \E op \in {"read", "write"} : DtIoReadWriteReg(op, w, off, count)
       \/ \E src \in Offsets : DtIoCopyReg(w, off, src, count)
  \/ \E delay \in Delays, up \in BOOLEAN, tick \in 0..EndTick, hw \in BOOLEAN : DtIoPollReg(delay, up, tick, hw)
  \/ PollStep

Spec == Init /\ [][Next]_vars

----------------------------------------------------------------------------
\* What the entries of a property mean, taken apart all at once.

Slice(cells, from, n) == Value(SubSeq(cells, from + 1, from + n))
Entries(b) ==
  LET cells == dt[b]["ranges"]
      c == ChildAddressCells(b)
      a == AddressCells(b)
      s == ChildSizeCells(b)
  IN  IF c = 0 \/ a = 0 THEN {}
      ELSE {[child |-> Slice(cells, at, c), bus |-> Slice(cells, at + c, a),
             len |-> Slice(cells, at + c + a, s)] :
            at \in {(c + a + s) * k : k \in 0..(Len(cells) \div (c + a + s) - 1)}}
Identity(b) == b = Root \/ (Has(b, "ranges") /\ dt[b]["ranges"] = <<>>)

\* The addresses above b of the byte at a below b.
Images(b, a) ==
  IF Identity(b) THEN {a}
  ELSE IF ~Has(b, "ranges") THEN {}
  ELSE {(a - e.child) + e.bus : e \in {x \in Entries(b) : x.child <= a /\ a < x.child + x.len}}

\* The addresses below bus, or at the CPU, of the byte at a below the parent of n.
Reach(n, a, bus) ==
  LET from[b \in Nodes] ==
        [x \in Int |-> IF b = bus THEN {x}
                       ELSE IF b = Root THEN Images(b, x)
                       ELSE UNION {from[Parent[b]][y] : y \in Images(b, x)}]
  IN  from[Parent[n]][a]

\* Some entry of b holds all of [a, a + len).
Held(b, a, len) ==
  Identity(b) \/ (Has(b, "ranges") /\ \E e \in Entries(b) : e.child <= a /\ a + len <= e.child + e.len)

----------------------------------------------------------------------------
\* Types of the variables, and an iterator inside its property
\* (DtIoPropParse.c never moves it past Property.End).
TypeOK ==
  /\ dt \in Blobs
  /\ gcd \in [Known -> Page]
  /\ prop.iter \in 0..Len(prop.data)
  /\ reg.bus \in Nodes \cup {Cpu} /\ callbacks \subseteq SampleBuses
  /\ \A c \in call.cells : c[1] \in Nodes \cup {Cpu}

\* An EFI_DT_REG or EFI_DT_RANGE says what the cells say from which it was
\* read; each of its bytes is where the ranges above lead, byte by byte
\* (DtDeviceTranslateRangeToCpu goes by whole ranges), it ends at a bus only
\* if no entry there holds it, and it fits the CPU's addresses otherwise.
RegionExact ==
  LET cells == dt[Device][reg.kind]
      a == AddressCells(Device)
      c == IF reg.kind = "reg" THEN 0 ELSE ChildAddressCells(Device)
      s == IF reg.kind = "reg" THEN SizeCells(Device) ELSE ChildSizeCells(Device)
  IN  reg # NoReg =>
        /\ reg.child = Slice(cells, reg.at, c)
        /\ reg.busBase = Slice(cells, reg.at + c, a)
        /\ reg.len = Slice(cells, reg.at + c + a, s)
        /\ \A o \in 0..(reg.len - 1) : reg.base + o \in Reach(Device, reg.busBase + o, reg.bus)
        /\ IF reg.bus = Cpu THEN reg.base + reg.len <= CpuWord
           ELSE ~Held(reg.bus, reg.base, reg.len)

\* The cells an access reaches, at the CPU or at the bus whose driver answers
\* for them, are those the devicetree gives to the offsets asked for, and all
\* of them belong to the region (DtIoReadReg, DtIoWriteReg).
RegAccessExact ==
  call.by = "reg" =>
  /\ \A o \in call.asked : o < reg.len
  /\ Cardinality(call.cells) = Cardinality(call.asked)
  /\ \A cell \in call.cells : \E o \in call.asked :
       cell[1] = reg.bus /\ cell[2] \in Reach(Device, reg.busBase + o, reg.bus)

\* What a step does to the memory map, for RegionsAccessible of DtDrivers.
RegionAccessible ==
  reg' # reg /\ reg'.bus = Cpu =>
    \A o \in 0..(reg'.len - 1) : LET pg == (reg'.base + o) \div PageSize IN
      \/ (reg'.base + reg'.len - 1) \div PageSize = CpuPages - 1
      \/ pg \in Known /\ gcd'[pg].type # "NonExistent"
PagesKept ==
  \A pg \in Known :
    /\ gcd[pg].used => gcd'[pg].used /\ gcd'[pg].type = gcd[pg].type
    /\ reg' # reg /\ gcd[pg].type # "NonExistent" =>
         gcd'[pg] = gcd[pg] \/ (gcd[pg].attrs = 0 /\ gcd'[pg].type = gcd[pg].type)

\* With a delay, SUCCESS means that the last value read matched, and TIMEOUT
\* that it did not and that the delay is over, if the counter did not start
\* again in between (DtIoPollReg, GetElapsedTick).
PollHonest ==
  poll # NoPoll /\ poll.pc \in {"SUCCESS", "TIMEOUT"} /\ poll.delay # 0 =>
    /\ poll.last = (poll.pc = "SUCCESS")
    /\ poll.pc = "TIMEOUT" => poll.rolled \/ poll.spent * Period > Frequency * poll.delay
=============================================================================
