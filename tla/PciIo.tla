------------------------------- MODULE PciIo --------------------------------
(***************************************************************************)
(* Drivers/PciHostBridgeFdtDxe/RootBridge.c: how a root bridge finds its   *)
(* windows in the devicetree (RootBridgeDtInit, RootBridgeValidate) and    *)
(* turns accesses of PCI drivers to memory, I/O and configuration space    *)
(* into accesses of DtReg.  Device is the host bridge in the devicetrees   *)
(* that have "compatible".                                                 *)
(***************************************************************************)
EXTENDS DtReg

CONSTANTS
  SpaceCodes,          \* a window's kind -> EFI_DT_PCI_HOST_RANGE_*, a cell
  VgaMem, VgaIo1, VgaIo2, \* VGA_*_BASE and VGA_*_SIZE: [base, size]
  Size4G,
  ConfigSize,          \* registers of a function, 4K
  MaxFunction,         \* device and function of a bus, 0..MaxFunction
  Addresses            \* PCI addresses that are accessed

ASSUME PciAssumption ==
  /\ Addresses \subseteq 0..(CpuWord - 1)
  /\ DOMAIN SpaceCodes = {"io", "mem", "pmem", "mem4g", "pmem4g"} /\ IsInjective(SpaceCodes)
  /\ {Size4G, ConfigSize} \subseteq Nat \ {0} /\ MaxFunction \in Nat
  /\ \A v \in {VgaMem, VgaIo1, VgaIo2} : v.base \in Nat /\ v.size \in Nat \ {0} /\ v.base + v.size <= CpuWord
  /\ CellBase^2 = CpuWord \* so it is; the provers know nothing of powers

VARIABLE rb            \* the PCI_ROOT_BRIDGE_INSTANCE
pciVars == <<vars, rb>>

Spaces == DOMAIN SpaceCodes
Windows == Spaces \cup {"vgamem", "vgaio1", "vgaio2"}
NoBridge == [pc |-> "none", next |-> 0, config |-> NoReg, busMin |-> 0, busLen |-> 0,
             win |-> [s \in Windows |-> NoReg]]

\* Driver.h: RB, RL and RANGE_VALID, in 64 bits.
RB(r) == r.child % CpuWord
RL(r) == (r.child + r.len - 1) % CpuWord
RangeValid(r) == r.len # 0

----------------------------------------------------------------------------
\* RootBridgeDtInit.

KeepExistingConfig == Has(Device, "fdtbuspkg,pci-keep-config")
IsHostBridge == Has(Device, "compatible")

\* The ECAM window is the reg called "config", or else the first.
ConfigFound(r, otherwise) ==
  /\ gcd' = r.gcd
  /\ rb' = IF r.ok THEN [rb EXCEPT !.config = r.reg, !.pc = "bus"] ELSE [NoBridge EXCEPT !.pc = otherwise]
ConfigNamed == Has(Device, "reg-names") /\ DtIoGetStringIndex("config") >= 0
RbConfig(fault) ==
  /\ idle /\ IsHostBridge /\ rb.pc = "none"
  /\ IF ConfigNamed
     THEN ConfigFound(GetRegion("reg", DtIoGetStringIndex("config"), fault), "reg0")
     ELSE rb' = [NoBridge EXCEPT !.pc = "reg0"] /\ UNCHANGED gcd
  /\ Quiet /\ UNCHANGED <<dt, prop, reg>>
RbFirstReg(fault) ==
  /\ rb.pc = "reg0"
  /\ ConfigFound(GetRegion("reg", 0, fault), "none")
  /\ Quiet /\ UNCHANGED <<dt, prop, reg>>

DtIoGetU32(name, i) == IF Has(Device, name) THEN ParseU32(AtBegin(Device, name), i) ELSE NotFound(NoProp)
RbBusRange ==
  /\ rb.pc = "bus"
  /\ LET min == DtIoGetU32("bus-range", 0)
         max == DtIoGetU32("bus-range", 1)
     IN  rb' = IF min.ok /\ max.ok
               THEN [rb EXCEPT !.busMin = min.val, !.busLen = ((max.val - min.val) + 1) % CellBase, !.pc = "ranges"]
               ELSE NoBridge
  /\ Quiet /\ UNCHANGED <<dt, gcd, prop, reg>>

FbpPciGetRangeAttribute(r) ==
  IF ChildAddressCells(Device) < 2 THEN 0 ELSE r.child \div (CellBase^(ChildAddressCells(Device) - 1))

\* A window the CPU does not see is of use only to a bridge that keeps its configuration.
KindOf(r) == {s \in Spaces : SpaceCodes[s] = FbpPciGetRangeAttribute(r)}
Stored(r) ==
  IF ~KeepExistingConfig /\ r.bus # Cpu THEN rb.win
  ELSE [s \in Windows |-> IF s \in KindOf(r) THEN r ELSE rb.win[s]]

\* A legacy VGA window has the translation of the window it is derived from.
Moved(r, vga) ==
  LET by == (RB(r) - vga.base) % CpuWord
  IN  IF ~RangeValid(r) THEN NoReg
      ELSE [r EXCEPT !.child = (@ - by) % Word, !.busBase = (@ - by) % Word,
                     !.base = (@ - by) % Word, !.len = vga.size]
WithVga(win) == [win EXCEPT !["vgaio1"] = Moved(win["io"], VgaIo1), !["vgaio2"] = Moved(win["io"], VgaIo2),
                            !["vgamem"] = Moved(win["mem"], VgaMem)]

RootBridgeValidate(bridge) ==
  /\ bridge.busLen # 0
  /\ \A s \in {"io", "mem", "pmem"} :
       RangeValid(bridge.win[s]) => RL(bridge.win[s]) < Size4G /\ RB(bridge.win[s]) < Size4G

\* Windows are taken until there is none, or until one cannot be had.
RbRange(fault) ==
  /\ rb.pc = "ranges"
  /\ LET r == GetRegion("ranges", rb.next, fault)
     IN  /\ gcd' = r.gcd
         /\ rb' = IF r.ok THEN [rb EXCEPT !.win = Stored(r.reg), !.next = @ + 1]
                  ELSE IF RootBridgeValidate(rb) THEN [rb EXCEPT !.pc = "ready", !.next = 0, !.win = WithVga(@)]
                  ELSE NoBridge
  /\ Quiet /\ UNCHANGED <<dt, prop, reg>>

\* RootBridgeFree.
RbFree ==
  /\ idle /\ rb.pc = "ready" /\ rb' = NoBridge
  /\ Quiet /\ UNCHANGED <<dt, gcd, prop, reg>>

----------------------------------------------------------------------------
\* RootBridgeIoCheckParameter.

Ready == idle /\ rb.pc = "ready"
Covers(r, a, n) == a >= RB(r) /\ a + n <= (RL(r) + 1) % CpuWord

\* The windows of a space, in the order they are tried, and those that cover an access.
Tried(space) == IF space = "io" THEN <<"vgaio1", "vgaio2", "io">>
                ELSE <<"mem", "vgamem", "pmem", "mem4g", "pmem4g">>
Hits(space, w, a, count) ==
  {i \in DOMAIN Tried(space) : Covers(rb.win[Tried(space)[i]], a, Length(w, count))}
Accepted(space, w, a, count) ==
  /\ a % w.size = 0 /\ a <= (CpuWord - 1) - Length(w, count)
  /\ Hits(space, w, a, count) # {}
Hit(space, w, a, count) == rb.win[Tried(space)[Min(Hits(space, w, a, count))]]

BusSide(r) == r \* mutant: offsets are taken from the start of the window
\* FbpUtilsLib.h: offsets into the region are PCI addresses.
FbpRangeToReg(r) ==
  [r EXCEPT !.base = (@ - RB(r)) % Word, !.busBase = (@ - RB(r)) % Word, !.len = (@ + RB(r)) % Word]

Refused == [ok |-> FALSE, call |-> NoCall]
WindowAccess(space, op, w, a, count) ==
  IF ~Accepted(space, w, a, count) THEN Refused
  ELSE Access(FbpRangeToReg(Hit(space, w, a, count)), op, w, a, count)

RootBridgeIoAccess(space, op, w, a, count) ==
  /\ Ready
  /\ call' = [WindowAccess(space, op, w, a, count).call EXCEPT !.by = space]
  /\ UNCHANGED <<dt, gcd, prop, reg, callbacks, poll, rb>>

RootBridgeIoMem(op, w, a, count) == RootBridgeIoAccess("mem", op, w, a, count)
RootBridgeIoIo(op, w, a, count)  == RootBridgeIoAccess("io", op, w, a, count)

RootBridgeIoCopyMem(w, dest, src, count) ==
  /\ Ready /\ Accepted("mem", w, src, count) /\ Accepted("mem", w, dest, count)
  /\ call' = [Copied(WindowAccess("mem", "read", w, src, count),
                     WindowAccess("mem", "write", w, dest, count)) EXCEPT !.by = "mem"]
  /\ UNCHANGED <<dt, gcd, prop, reg, callbacks, poll, rb>>

\* PollMem and PollIo.
RootBridgeIoPoll(space, a, delay, up, tick, hw) ==
  /\ Ready /\ WindowAccess(space, "read", PollWidth, a, 1).ok
  /\ PollStart(delay, up, tick, hw) /\ UNCHANGED rb

\* PCI_ECAM_ADDRESS.
EcamAddress(bus, function, r) == ConfigSize * ((MaxFunction + 1) * bus + function) + r
ASSUME EcamAssumption ==
  \A bus \in 0..(CellBase - 1), function \in 0..MaxFunction : EcamAddress(bus, function, ConfigSize) < Word

\* A register beyond 255 is in ExtendedRegister, which the alignment check does not see.
RootBridgeIoPciAccess(op, w, bus, function, r, extended, count) ==
  /\ Ready
  /\ LET accepted ==
           /\ extended \/ r % w.size = 0
           /\ bus >= rb.busMin /\ bus <= rb.busMin + rb.busLen - 1
           /\ function <= MaxFunction
           /\ r + Length(w, count) <= ConfigSize
         c == IF accepted THEN Access(rb.config, op, w, EcamAddress(bus, function, r), count) ELSE Refused
     IN  call' = IF ~c.ok THEN [NoCall EXCEPT !.by = "config"]
                 ELSE [c.call EXCEPT !.by = "config", !.function = <<bus, function>>,
                                     !.asked = IF count = 0 THEN {} ELSE r..(r + Length(w, count) - 1)]
  /\ UNCHANGED <<dt, gcd, prop, reg, callbacks, poll, rb>>

----------------------------------------------------------------------------
Starting == rb.pc \in {"reg0", "bus", "ranges"}

RbInit == Init /\ rb = NoBridge

RbNext ==
  \/ /\ ~IsHostBridge /\ Next /\ UNCHANGED rb
  \/ /\ IsHostBridge /\ UNCHANGED rb
     /\ PollStep \/ (~Starting /\ \E b \in SampleBuses : DtIoSetCallbacks(b))
  \/ \E f \in Faults : RbConfig(f) \/ RbFirstReg(f) \/ RbRange(f)
  \/ RbBusRange \/ RbFree
  \/ \E w \in Widths, a \in Addresses, count \in Counts :
       \/ \E op \in {"read", "write"} : RootBridgeIoMem(op, w, a, count) \/ RootBridgeIoIo(op, w, a, count)
       \/ \E src \in Addresses : RootBridgeIoCopyMem(w, a, src, count)
  \/ \E a \in Addresses, space \in {"io", "mem"}, delay \in Delays, up \in BOOLEAN,
        tick \in 0..EndTick, hw \in BOOLEAN : RootBridgeIoPoll(space, a, delay, up, tick, hw)
  \/ \E op \in {"read", "write"}, w \in Widths, bus \in 0..(CellBase - 1), function \in 0..(MaxFunction + 1),
        r \in 0..(ConfigSize - 1), extended \in BOOLEAN, count \in Counts :
       RootBridgeIoPciAccess(op, w, bus, function, r, extended, count)

RbSpec == RbInit /\ [][RbNext]_pciVars

----------------------------------------------------------------------------
\* What "ranges" says of a PCI address, kind by kind.
Decoders(kinds, a) ==
  LET unit == CellBase^(ChildAddressCells(Device) - 1)
  IN  {e \in Entries(Device) :
         /\ \E s \in kinds : SpaceCodes[s] = e.child \div unit
         /\ e.child % unit <= a /\ a < (e.child % unit) + e.len}
KindsOf(space) == IF space = "io" THEN {"io"} ELSE Spaces \ {"io"}
PciReach(space, a, bus) ==
  UNION {Reach(Device, e.bus + (a - (e.child % CpuWord)), bus) : e \in Decoders(KindsOf(space), a)}

\* A legacy VGA address that no entry decodes: with the translation of its space.
VgaReached(space, a, x) ==
  LET from == IF space = "io" THEN rb.win["io"] ELSE rb.win["mem"]
  IN  /\ RangeValid(from)
      /\ \E v \in (IF space = "io" THEN {VgaIo1, VgaIo2} ELSE {VgaMem}) : v.base <= a /\ a < v.base + v.size
      /\ x % CpuWord = (from.base + (a - RB(from))) % CpuWord
Served(space, a, cell) == cell[2] \in PciReach(space, a, cell[1]) \/ VgaReached(space, a, cell[2])

\* What a driver reaches is what it asked for.  In a region of its own: see
\* RegAccessExact.  Through the root bridge, in memory and I/O space: every address
\* asked for, and nothing else, where "ranges" has it, byte by byte, or, at a legacy
\* VGA address, where the window it is derived from would have it; in configuration
\* space: registers of that function, inside the ECAM window
\* (RootBridgeIoCheckParameter, FbpRangeToReg, PCI_ECAM_ADDRESS).
AccessExact ==
  /\ RegAccessExact
  /\ call.by \in {"io", "mem"} =>
       /\ \A cell \in call.cells : \E a \in call.asked : Served(call.by, a, cell)
       /\ \A a \in call.asked : \E cell \in call.cells : Served(call.by, a, cell)
  /\ call.by = "config" =>
       /\ call.asked \subseteq 0..(ConfigSize - 1)
       /\ call.cells = {<<rb.config.bus, rb.config.base + EcamAddress(call.function[1], call.function[2], r)>> : r \in call.asked}
       /\ \A cell \in call.cells : cell[2] < rb.config.base + rb.config.len
=============================================================================
