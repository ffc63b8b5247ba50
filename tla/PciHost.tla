------------------------------ MODULE PciHost ------------------------------
(***************************************************************************)
(* Drivers/PciHostBridgeFdtDxe: the PCI bus driver (external) has a root   *)
(* bridge assign I/O and memory apertures.  The assignments live in two    *)
(* places that must agree: ResAllocNode of each bridge, and the GCD space  *)
(* maps (external), which all bridges share.                               *)
(*                                                                         *)
(* Addresses wrap at Word.  Memory is claimed in the GCD by host address,  *)
(* I/O by device address; both are kept in the nodes as host addresses.    *)
(* A type of resource is a name; Rank is its value in PCI_RESOURCE_TYPE.   *)
(***************************************************************************)
EXTENDS Integers, Sequences, FiniteSets

CONSTANTS
  Word,           \* 2^64
  Size4G,
  MaxIoStep,      \* 2^15
  Bridges,
  None,
  Window,         \* ranges of a bridge, by type: [base, parent, length]
  Cpu,            \* types whose range of the bridge is visible to the CPU
  Keep,           \* bridges with fdtbuspkg,pci-keep-config
  ReservedIo,     \* I/O addresses the GCD has with another type
  Configurations, \* what SubmitResources is called with
  Stoppable,      \* bridges that are disconnected again
  Careful         \* the PCI bus driver frees what it got before it starts over

Rank == [TypeIo |-> 0, TypeMem32 |-> 1, TypePMem32 |-> 2, TypeMem64 |-> 3, TypePMem64 |-> 4,
         TypeBus |-> 5]
Types    == DOMAIN Rank
ResTypes == Types \ {"TypeBus"}
Addresses == 0..(Word - 1)
NoAddress == Word - 1   \* MAX_UINT64

ASSUME WordAssumption ==
  /\ Word \in Nat /\ Size4G \in Nat \ {0, 1} /\ 2 * Size4G <= Word
  /\ MaxIoStep \in Nat \ {0}
ASSUME BridgesAssumption ==
  /\ None \notin Bridges
  /\ Keep \subseteq Bridges /\ Stoppable \subseteq Bridges
  /\ Window \in [Bridges -> [Types -> [base : Addresses, parent : Addresses, length : Addresses]]]
  /\ Cpu \in [Bridges -> SUBSET Types]
  /\ ReservedIo \subseteq Addresses
  /\ Careful \in BOOLEAN
\* The GCD refuses an I/O range that is not in the I/O space.
ASSUME IoAssumption ==
  \A b \in Bridges : Window[b].TypeIo.base + Window[b].TypeIo.length <= Word
\* EFI_ACPI_ADDRESS_SPACE_DESCRIPTOR, AddrLen and AddrRangeMax of which are UINT64.
ASSUME ConfigurationsAssumption ==
  Configurations \subseteq Seq([space : {"io", "mem", "bus"}, bits : Nat, prefetch : BOOLEAN,
                               length : Addresses, align : Addresses])

VARIABLES
  mem, io,    \* addresses allocated in the GCD memory and I/O space maps
  ioSpace,    \* addresses the GCD has as EfiGcdIoTypeIo
  node,       \* ResAllocNode
  started,    \* bridges with their protocols installed
  submitted, canRestart,
  pcd,        \* [ecam, noEnum, ioTranslation]: PCDs every bridge sets
  connecting, \* bridge that ConnectController works on
  enumerating,\* bridges the PCI bus driver enumerates
  asked,      \* history: types of the last configuration accepted
  last        \* the call made last: [op, bridge, status]

bridgeVars == <<started, submitted, canRestart, connecting, enumerating>>
gcdVars    == <<mem, io, ioSpace>>
vars == <<gcdVars, node, bridgeVars, pcd, asked, last>>

Unused == [base |-> 0, length |-> 0, align |-> 0, status |-> "ResNone", tracked |-> FALSE]
Statuses == {"EFI_SUCCESS", "EFI_NOT_READY", "EFI_OUT_OF_RESOURCES", "EFI_NOT_FOUND",
             "EFI_INVALID_PARAMETER"}

\* The nodes, the maps and the flags are in a proper state.
TypeOK ==
  /\ mem \subseteq Addresses /\ io \subseteq Addresses /\ ioSpace \subseteq Addresses
  /\ node \in [Bridges -> [Types -> [base : Addresses, length : Addresses, align : Addresses,
                 status : {"ResNone", "ResSubmitted", "ResAllocated"}, tracked : BOOLEAN]]]
  /\ started \subseteq Bridges /\ submitted \subseteq Bridges /\ canRestart \subseteq Bridges
  /\ pcd \in [ecam : Bridges \cup {None}, noEnum : BOOLEAN, ioTranslation : Addresses]
  /\ connecting \in Bridges \cup {None} /\ enumerating \subseteq started
  /\ asked \in [Bridges -> SUBSET Types]
  /\ last.bridge \in Bridges \cup {None} /\ last.status \in Statuses

Init ==
  /\ mem = {} /\ io = {} /\ ioSpace = {}
  /\ node = [b \in Bridges |-> [t \in Types |-> Unused]]
  /\ started = {} /\ submitted = {} /\ canRestart = {}
  /\ pcd = [ecam |-> None, noEnum |-> FALSE, ioTranslation |-> 0]
  /\ connecting = None /\ enumerating = {}
  /\ asked = [b \in Bridges |-> {}]
  /\ last = [op |-> "none", bridge |-> None, status |-> "EFI_SUCCESS"]

-----------------------------------------------------------------------------
(* Addresses                                                               *)

NoWrap(x, y) == x + y  \* mutant: the sum is wider than UINT64
Add(x, y) == IF x + y < Word THEN x + y ELSE x + y - Word
Sub(x, y) == IF y <= x THEN x - y ELSE x - y + Word

\* RT, RL and RANGE_VALID of a range, and the two conversions.  The last
\* address of an absent range is MAX_UINT64.
Translation(w) == Sub(w.base, w.parent)
LastOf(w)      == Sub(Add(w.base, w.length), 1)
Valid(w)       == w.length # 0
ToHost(a, translation)   == Sub(a, translation)
ToDevice(a, translation) == Add(a, translation)

Span(first, length) == first..(first + length - 1)
AlignUp(a, step) == IF a % step = 0 THEN a ELSE Add(a, step - (a % step))
Least(S) == CHOOSE a \in S : \A b \in S : a <= b

\* The GCD gives out a range that exists, is not empty and is free.
Claimable(a, length, space, ledger) ==
  length > 0 /\ Span(a, length) \subseteq space \ ledger

\* AllocateResource: the first aligned address that the GCD accepts, before
\* BaseAddress + Length passes Limit + 1.  BaseAddress itself does not wrap: a
\* range ends at least one step before the end of the address space.
InLimit(a, length, limit) == Add(a, length) <= Add(limit, 1)
AllocateResource(space, ledger, length, step, base, limit) ==
  LET start == AlignUp(base, step)
      Tried(a) == \A x \in start..a : (x - start) % step = 0 => InLimit(x, length, limit)
      hits  == {a \in Addresses : /\ a >= start /\ (a - start) % step = 0
                                  /\ Tried(a) /\ Claimable(a, length, space, ledger)}
  IN IF base < limit /\ hits # {} THEN Least(hits) ELSE NoAddress

Smaller(x, y) == IF x < y THEN x ELSE y

\* What the GCD has of a node: I/O by device address, memory by host address.
Claimed(b, t, n) ==
  IF t = "TypeIo" THEN Span(ToDevice(n.base, Translation(Window[b][t])), n.length)
  ELSE Span(n.base, n.length)

\* A loop over TypeIo..TypePMem64 that hands on its state.
InTypeOrder(F(_, _), s) ==
  F(F(F(F(F(s, "TypeIo"), "TypeMem32"), "TypePMem32"), "TypeMem64"), "TypePMem64")

-----------------------------------------------------------------------------
(* EfiPciHostBridgeAllocateResources                                       *)

\* Of the types not handled yet the one with the largest alignment; of several
\* the last.
MaxAligned(nodes, open) ==
  CHOOSE t \in open : \A u \in open :
    \/ nodes[u].align < nodes[t].align
    \/ nodes[u].align = nodes[t].align /\ Rank[u] <= Rank[t]

\* The address for one type, as a host address.  64-bit requests fall back to
\* the range below 4G.
FromMemory(b, s, n, t, cap) ==
  LET w == Window[b][t] IN
    AllocateResource(Addresses, s.mem, n.length, Smaller(n.align + 1, cap),
                     ToHost(AlignUp(w.base, n.align + 1), Translation(w)),
                     ToHost(LastOf(w), Translation(w)))
FromIo(b, s, n) ==
  LET w == Window[b].TypeIo
      a == AllocateResource(ioSpace, s.io, n.length, Smaller(n.align + 1, MaxIoStep),
                            AlignUp(w.base, n.align + 1), LastOf(w))
  IN IF a = NoAddress THEN a ELSE ToHost(a, Translation(w))
WithFallback(first, second) == IF first # NoAddress THEN first ELSE second
BaseAddress(b, s, t) ==
  LET n == s.nodes[t] IN
    CASE t = "TypeIo"     -> FromIo(b, s, n)
      [] t = "TypeMem32"  -> FromMemory(b, s, n, t, Size4G \div 2)
      [] t = "TypePMem32" -> FromMemory(b, s, n, t, Size4G \div 2)
      [] t = "TypeMem64"  -> WithFallback(FromMemory(b, s, n, t, Word \div 2),
                                          FromMemory(b, s, n, "TypeMem32", Size4G \div 2))
      [] t = "TypePMem64" -> WithFallback(FromMemory(b, s, n, t, Word \div 2),
                                          FromMemory(b, s, n, "TypePMem32", Size4G \div 2))

\* "we require the alignment of Translation must be larger than any BAR alignment"
AnyTranslation(b, nodes, t) == TRUE   \* mutant: the restriction is not checked
Aligned(b, nodes, t) == Translation(Window[b][t]) % (nodes[t].align + 1) = 0

\* The node gets the address, and the GCD no longer has it.
Claim(b, s, t, a) ==
  LET n == [s.nodes[t] EXCEPT !.base = a, !.status = "ResAllocated"] IN
    [s EXCEPT !.nodes[t] = n,
              !.mem = IF t = "TypeIo" THEN @ ELSE @ \cup Claimed(b, t, n),
              !.io  = IF t = "TypeIo" THEN @ \cup Claimed(b, t, n) ELSE @]

\* Turn Index1 of the loop: a type nobody asked for is marked as handled, for
\* any other some type is picked and served.
SamePick(b, s, t) ==  \* mutant: the picked type is not marked as handled
  IF s.nodes[t].status = "ResNone" THEN [s EXCEPT !.handled = @ \cup {t}]
  ELSE LET pick == MaxAligned(s.nodes, ResTypes \ s.handled)
           a    == BaseAddress(b, s, pick)
       IN IF Aligned(b, s.nodes, pick) /\ a # NoAddress THEN Claim(b, s, pick, a)
          ELSE [s EXCEPT !.status = "EFI_OUT_OF_RESOURCES"]
Turn(b, s, t) ==
  IF s.nodes[t].status = "ResNone" THEN [s EXCEPT !.handled = @ \cup {t}]
  ELSE LET pick == MaxAligned(s.nodes, ResTypes \ s.handled)
           next == [s EXCEPT !.handled = @ \cup {pick}]
           a    == BaseAddress(b, s, pick)
       IN IF Aligned(b, s.nodes, pick) /\ a # NoAddress THEN Claim(b, next, pick, a)
          ELSE [next EXCEPT !.status = "EFI_OUT_OF_RESOURCES"]

Allocation(b) ==
  InTypeOrder(LAMBDA s, t : Turn(b, s, t),
              [nodes |-> node[b], mem |-> mem, io |-> io, handled |-> {}, status |-> "EFI_SUCCESS"])

\* "Set resource to zero for nodes where allocation fails."
FailedZeroed(nodes) ==
  [t \in Types |-> IF t \in ResTypes /\ nodes[t].status # "ResAllocated"
                   THEN [nodes[t] EXCEPT !.length = 0] ELSE nodes[t]]

Returns(op, b, result) == last' = [op |-> op, bridge |-> b, status |-> result]

\* The PCI bus driver makes sure it holds nothing before it asks again.
Holds(b) == \E t \in ResTypes : node[b][t].status = "ResAllocated"
Client(b) == b \in enumerating /\ (Careful => ~Holds(b))

AllocateResources(b) ==
  /\ Client(b)
  /\ IF b \notin submitted
     THEN Returns("AllocateResources", b, "EFI_NOT_READY") /\ UNCHANGED <<node, mem, io>>
     ELSE LET s == Allocation(b) IN
          /\ node' = [node EXCEPT ![b] = FailedZeroed(s.nodes)]
          /\ mem' = s.mem /\ io' = s.io
          /\ Returns("AllocateResources", b, s.status)
  /\ UNCHANGED <<ioSpace, bridgeVars, pcd, asked>>

-----------------------------------------------------------------------------
(* The other phases                                                        *)

BeginEnumeration(b) ==
  /\ Client(b)
  /\ IF b \notin canRestart
     THEN Returns("BeginEnumeration", b, "EFI_NOT_READY") /\ UNCHANGED <<node, submitted, asked>>
     ELSE /\ node' = [node EXCEPT ![b] =
                        [t \in Types |-> [Unused EXCEPT !.tracked = node[b][t].tracked]]]
          /\ submitted' = submitted \ {b}
          /\ asked' = [asked EXCEPT ![b] = {}]
          /\ Returns("BeginEnumeration", b, "EFI_SUCCESS")
  /\ UNCHANGED <<gcdVars, started, canRestart, pcd, connecting, enumerating>>

BeginBusAllocation(b) ==
  /\ b \in enumerating
  /\ canRestart' = canRestart \ {b}
  /\ Returns("BeginBusAllocation", b, "EFI_SUCCESS")
  /\ UNCHANGED <<gcdVars, node, started, submitted, connecting, enumerating, pcd, asked>>

\* FreeResources gives a node back; the first refusal of the GCD ends the loop.
KeepsNode(b, s, t) ==  \* mutant: the node is not reset
  IF s.nodes[t].status # "ResAllocated" \/ t = "TypeIo" THEN s
  ELSE [s EXCEPT !.mem = @ \ Claimed(b, t, s.nodes[t]), !.status = "EFI_SUCCESS"]
HostIo(b, s, t) ==  \* mutant: I/O is given back by its host address
  IF s.nodes[t].status # "ResAllocated" \/ s.refused THEN s
  ELSE LET range == Span(s.nodes[t].base, s.nodes[t].length)
           held  == IF t = "TypeIo" THEN s.io ELSE s.mem
       IN IF range = {} \/ ~(range \subseteq held)
          THEN [s EXCEPT !.refused = TRUE, !.status = "EFI_NOT_FOUND"]
          ELSE [s EXCEPT !.mem = IF t = "TypeIo" THEN @ ELSE @ \ range,
                         !.io  = IF t = "TypeIo" THEN @ \ range ELSE @,
                         !.nodes[t] = Unused, !.status = "EFI_SUCCESS"]
Freed(b, s, t) ==
  IF s.nodes[t].status # "ResAllocated" \/ s.refused THEN s
  ELSE LET range == Claimed(b, t, s.nodes[t])
           held  == IF t = "TypeIo" THEN s.io ELSE s.mem
       IN IF range = {} \/ ~(range \subseteq held)
          THEN [s EXCEPT !.refused = TRUE, !.status = "EFI_NOT_FOUND"]
          ELSE [s EXCEPT !.mem = IF t = "TypeIo" THEN @ ELSE @ \ range,
                         !.io  = IF t = "TypeIo" THEN @ \ range ELSE @,
                         !.nodes[t] = [Unused EXCEPT !.tracked = s.nodes[t].tracked],
                         !.status = "EFI_SUCCESS"]
Release(b, garbage) ==
  InTypeOrder(LAMBDA s, t : Freed(b, s, t),
              [nodes |-> node[b], mem |-> mem, io |-> io, refused |-> FALSE, status |-> garbage])

\* ReturnStatus is not initialised: without a node to free it is whatever the
\* stack held, a success or an error.
Garbage == {"EFI_SUCCESS", "EFI_NOT_FOUND"}
FreeResources(b) ==
  /\ b \in enumerating
  /\ \E garbage \in Garbage :
       LET s == Release(b, garbage) IN
         /\ node' = [node EXCEPT ![b] = s.nodes]
         /\ mem' = s.mem /\ io' = s.io
         /\ submitted'  = IF s.refused THEN submitted ELSE submitted \ {b}
         /\ canRestart' = IF s.refused THEN canRestart ELSE canRestart \cup {b}
         /\ Returns(IF Holds(b) THEN "FreeResources" ELSE "FreeNothing", b, s.status)
  /\ UNCHANGED <<ioSpace, started, connecting, enumerating, pcd, asked>>

SetBusNumbers(b, first, length) ==
  LET w == Window[b].TypeBus
      bad == length = 0 \/ first < w.base \/ Sub(Add(first, length), 1) > LastOf(w)
  IN /\ b \in enumerating
     /\ IF bad THEN Returns("SetBusNumbers", b, "EFI_INVALID_PARAMETER") /\ UNCHANGED node
        ELSE /\ node' = [node EXCEPT ![b].TypeBus.base = first, ![b].TypeBus.length = length,
                                     ![b].TypeBus.status = "ResAllocated"]
             /\ Returns("SetBusNumbers", b, "EFI_SUCCESS")
     /\ UNCHANGED <<gcdVars, bridgeVars, pcd, asked>>

\* SubmitResources.  In a build without assertions a descriptor of bus numbers
\* passes the first loop and is taken for I/O in the second.
Combined(b) == ~Valid(Window[b].TypePMem32) /\ ~Valid(Window[b].TypePMem64)
PowerOf2(a) == \E n \in 0..a : a = 2^n
Accepted(b, d) ==
  \/ d.space = "bus"
  \/ d.space = "io" /\ PowerOf2(d.align + 1)
  \/ /\ d.space = "mem" /\ PowerOf2(d.align + 1)
     /\ d.bits \in {32, 64}
     /\ d.bits = 32 => d.length < Size4G
     /\ Combined(b) => ~d.prefetch
TypeOf(d) ==
  CASE d.space # "mem"               -> "TypeIo"
    [] d.bits = 32 /\ d.prefetch     -> "TypePMem32"
    [] d.bits = 32 /\ ~d.prefetch    -> "TypeMem32"
    [] d.bits # 32 /\ d.prefetch     -> "TypePMem64"
    [] d.bits # 32 /\ ~d.prefetch    -> "TypeMem64"

\* Alignment + 1 is a power of two, also that of bus numbers, at which nobody looks.
ASSUME AlignmentsAssumption ==
  \A cfg \in Configurations : \A i \in DOMAIN cfg : cfg[i].space = "bus" => PowerOf2(cfg[i].align + 1)

\* The last descriptor of a type counts.
Requested(cfg) == {TypeOf(cfg[i]) : i \in DOMAIN cfg}
Entry(cfg, t) ==
  cfg[CHOOSE i \in DOMAIN cfg : TypeOf(cfg[i]) = t /\ \A j \in DOMAIN cfg : TypeOf(cfg[j]) = t => j <= i]

SubmitResources(b, cfg) ==
  /\ Client(b)
  /\ IF \E i \in DOMAIN cfg : ~Accepted(b, cfg[i])
     THEN /\ Returns("SubmitResources", b, "EFI_INVALID_PARAMETER")
          /\ UNCHANGED <<node, submitted, asked>>
     ELSE /\ node' = [node EXCEPT ![b] = [t \in Types |->
                        IF t \in Requested(cfg)
                        THEN [node[b][t] EXCEPT !.length = Entry(cfg, t).length,
                                !.align = Entry(cfg, t).align, !.status = "ResSubmitted"]
                        ELSE node[b][t]]]
          /\ submitted' = submitted \cup {b}
          /\ asked' = [asked EXCEPT ![b] = Requested(cfg)]
          /\ Returns("SubmitResources", b, "EFI_SUCCESS")
  /\ UNCHANGED <<gcdVars, started, canRestart, connecting, enumerating, pcd>>

\* GetProposedResources: the device address of a node.
Proposed(b, t) == ToDevice(node[b][t].base, Translation(Window[b][t]))

-----------------------------------------------------------------------------
(* Binding                                                                 *)

\* HostBridgeKeepExistingConfig for one type; nodes the CPU cannot see are kept
\* without asking the GCD.
Kept(b, s, t) ==
  LET w == Window[b][t]
      base == IF t = "TypeIo" THEN w.base ELSE ToHost(w.base, Translation(w))
      a == AllocateResource(IF t = "TypeIo" THEN s.ioSpace ELSE Addresses,
                            IF t = "TypeIo" THEN s.io ELSE s.mem,
                            w.length, 2, base, Sub(Add(base, w.length), 1))
      n == [Unused EXCEPT !.length = w.length, !.status = "ResAllocated"]
  IN IF ~Valid(w) THEN s
     ELSE IF t \notin Cpu[b] THEN [s EXCEPT !.nodes[t] = [n EXCEPT !.base = w.base]]
     ELSE IF a = NoAddress THEN s
     ELSE Claim(b, [s EXCEPT !.nodes[t] = [n EXCEPT !.tracked = TRUE]], t,
                IF t = "TypeIo" THEN ToHost(a, Translation(w)) ELSE a)

KeepExistingConfig(b, s) ==
  LET k == InTypeOrder(LAMBDA r, t : Kept(b, r, t), s)
      w == Window[b].TypeBus
  IN [k EXCEPT !.nodes.TypeBus = [base |-> w.base, length |-> w.length, align |-> 0,
                                  status |-> "ResAllocated", tracked |-> TRUE]]

\* AddIoSpace: the missing parts of the range, in order, up to the first that
\* the GCD has as something else.
IoAdded(w) ==
  LET range == Span(w.base, w.length)
      clash == range \cap ReservedIo
  IN IF clash = {} THEN range ELSE {a \in range : a < Least(clash)}

\* The PCDs RootBridgeCreate sets on its way.
FirstNoEnum(b) ==  \* mutant: PcdPciDisableBusEnumeration, too, is only set once
  IF pcd.ecam = None THEN b \in Keep ELSE pcd.noEnum
NoEnum(b) == b \in Keep
IoTranslation(w) ==
  IF Valid(w) /\ pcd.ioTranslation = 0 THEN Sub(0, Translation(w)) ELSE pcd.ioTranslation

\* RootBridgeCreate, up to what may fail after it has changed the PCDs and the
\* I/O space; a bridge that keeps its configuration also claims that.
IntersectIoDescriptor(w) == Span(w.base, w.length) \cap ReservedIo = {}
Announced(b, w) ==
  /\ ioSpace' = ioSpace \cup IoAdded(w)
  /\ pcd' = [ecam |-> IF pcd.ecam = None THEN b ELSE pcd.ecam,
             noEnum |-> NoEnum(b),
             ioTranslation |-> IF IntersectIoDescriptor(w) THEN IoTranslation(w) ELSE pcd.ioTranslation]
RootBridgeCreate(b) ==
  LET w == Window[b].TypeIo
      s == [nodes |-> [t \in Types |-> Unused], mem |-> mem, io |-> io,
            ioSpace |-> ioSpace \cup IoAdded(w)]
      k == IF b \in Keep THEN KeepExistingConfig(b, s) ELSE s
  IN  /\ IntersectIoDescriptor(w) /\ Announced(b, w)
      /\ mem' = k.mem /\ io' = k.io
      /\ node' = [node EXCEPT ![b] = k.nodes]
      /\ submitted' = submitted \ {b}
      /\ canRestart' = canRestart \cup {b}

\* DriverStart.  A failure to install the protocols frees the bridge again, but
\* what was done to the PCDs and the I/O space stays.
DriverStart(b) ==
  LET Failed == /\ Returns("DriverStart", b, "EFI_OUT_OF_RESOURCES")
                /\ connecting' = None
                /\ UNCHANGED <<mem, io, node, started, submitted, canRestart>>
  IN /\ b \notin started
     /\ \/ /\ RootBridgeCreate(b)
           /\ started' = started \cup {b}
           /\ connecting' = b
           /\ Returns("DriverStart", b, "EFI_SUCCESS")
        \/ Announced(b, Window[b].TypeIo) /\ Failed
        \/ Failed /\ UNCHANGED <<ioSpace, pcd>>
     /\ UNCHANGED <<enumerating, asked>>

\* ConnectController goes on to the PCI bus driver (external), which looks at
\* PcdPciDisableBusEnumeration.
ConnectPciBus(b) ==
  /\ connecting = b
  /\ connecting' = None
  /\ enumerating' = IF pcd.noEnum THEN enumerating ELSE enumerating \cup {b}
  /\ UNCHANGED <<gcdVars, node, started, submitted, canRestart, pcd, asked, last>>

\* HostBridgeFreeExistingConfig for one type.
UndoneUntracked(b, s, t) ==  \* mutant: the test of ResTracked is the wrong way round
  IF s.nodes[t].status # "ResAllocated" \/ s.nodes[t].tracked \/ s.refused THEN s
  ELSE Freed(b, s, t)
Undone(b, s, t) ==
  IF s.nodes[t].status # "ResAllocated" \/ ~s.nodes[t].tracked \/ s.refused THEN s
  ELSE Freed(b, s, t)

\* DriverStop.  RootBridgeFree gives back only what was kept.
DriverStop(b) ==
  LET s == [nodes |-> node[b], mem |-> mem, io |-> io, refused |-> FALSE, status |-> "EFI_SUCCESS"]
      u == IF b \in Keep THEN InTypeOrder(LAMBDA r, t : Undone(b, r, t), s) ELSE s
  IN /\ b \in started \cap Stoppable
     /\ mem' = u.mem /\ io' = u.io
     /\ node' = [node EXCEPT ![b] = [t \in Types |-> Unused]]
     /\ started' = started \ {b}
     /\ submitted' = submitted \ {b} /\ canRestart' = canRestart \ {b}
     /\ enumerating' = enumerating \ {b}
     /\ connecting' = None
     /\ asked' = [asked EXCEPT ![b] = {}]
     /\ Returns("DriverStop", b, "EFI_SUCCESS")
     /\ UNCHANGED <<ioSpace, pcd>>

-----------------------------------------------------------------------------
Phases(b) ==
  \/ BeginEnumeration(b) \/ BeginBusAllocation(b)
  \/ AllocateResources(b) \/ FreeResources(b)
  \/ \E cfg \in Configurations : SubmitResources(b, cfg)
  \/ SetBusNumbers(b, Window[b].TypeBus.base, 1)
  \/ SetBusNumbers(b, LastOf(Window[b].TypeBus), 2)
Binding(b) == DriverStart(b) \/ ConnectPciBus(b) \/ DriverStop(b)

\* While ConnectController is at work, nothing else is.
Next == \E b \in Bridges :
  \/ connecting \in {None, b} /\ Binding(b)
  \/ connecting = None /\ Phases(b)

Spec == Init /\ [][Next]_vars

-----------------------------------------------------------------------------
(* Properties                                                              *)

Allocated(b) == {t \in ResTypes : node[b][t].status = "ResAllocated"}
Backed(b)    == {t \in Allocated(b) : b \in Keep => node[b][t].tracked}
Nodes(S)     == {p \in Bridges \X ResTypes : p[2] \in Backed(p[1]) /\ (p[2] = "TypeIo" <=> S)}
RangeOf(p)   == Claimed(p[1], p[2], node[p[1]][p[2]])

\* Whatever the PCI bus driver asks for, and in whatever order: what a node says
\* is allocated is allocated in the GCD, and no two nodes, of any bridges, share
\* an address.
NodesBacked ==
  /\ \A p \in Nodes(FALSE) : RangeOf(p) # {} /\ RangeOf(p) \subseteq mem
  /\ \A p \in Nodes(TRUE)  : RangeOf(p) # {} /\ RangeOf(p) \subseteq io
  /\ \A S \in BOOLEAN : \A p, q \in Nodes(S) : p # q => RangeOf(p) \cap RangeOf(q) = {}

\* "we restrict the alignment of Translation to be larger than any BAR alignment":
\* the device address that GetProposedResources reports for an allocated node
\* is aligned as requested and in a range of the bridge that decodes it.
ProposedDecoded ==
  \A b \in Bridges : \A t \in Backed(b) :
    LET n == node[b][t]
        Fits(u) == Valid(Window[b][u]) /\
          Span(Proposed(b, t), n.length) \subseteq Span(Window[b][u].base, Window[b][u].length)
    IN /\ Proposed(b, t) % (n.align + 1) = 0
       /\ \/ Fits(t)
          \/ t = "TypeMem64" /\ Fits("TypeMem32")
          \/ t = "TypePMem64" /\ Fits("TypePMem32")

\* The two calls that report on everything at once are honest: AllocateResources
\* returns EFI_SUCCESS only with every request satisfied, also those that an
\* earlier configuration left behind; FreeResources never meets a range the GCD
\* does not know, gives everything back, and the bridge can be enumerated again.
StatusHonest ==
  /\ (last.op = "AllocateResources" /\ last.status = "EFI_SUCCESS") =>
       /\ asked[last.bridge] \subseteq Allocated(last.bridge)
       /\ \A t \in ResTypes : node[last.bridge][t].status # "ResSubmitted"
  /\ last.op = "FreeResources" =>
       last.status = "EFI_SUCCESS" /\ ~Holds(last.bridge) /\ last.bridge \in canRestart

\* With a PCI bus driver that frees before it starts over, nothing leaks: the
\* GCD has exactly what the nodes of all bridges have.
NothingLeaks ==
  /\ mem = UNION {RangeOf(p) : p \in Nodes(FALSE)}
  /\ io  = UNION {RangeOf(p) : p \in Nodes(TRUE)}

\* "Keep existing PCI(e) BAR configuration" (DtBindings.md): the nodes of such a
\* bridge never change while it is started, whichever bridges start and stop
\* around it.
KeptStays ==
  [][\A b \in Keep \cap started : b \in started' => node'[b] = node[b]]_vars
=============================================================================
