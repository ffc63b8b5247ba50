# A TLA+ model of FdtBusPkg

FdtBusPkg is a UEFI bus driver model for Devicetree platforms. `FdtBusDxe`
turns Devicetree nodes into handles with a `DT I/O` protocol; device drivers
bind to those handles. The package brings some of them along: a PCI host bridge
driver, a NOR flash driver for the UEFI variables, a serial driver, a virtio
bus driver, a driver for high memory and two samples.

Everything runs on one CPU under the UEFI boot services. What makes the code
hard is not threads but *re-entrance* (a boot service calls a driver, which
calls a boot service, which calls another driver), *partial failure* (one child
of many, one step of five), *callbacks and hardware* (timers, events, bus
masters, a flash that fails or loses power, a serial peer) and *arithmetic at
the edges* of address ranges and buffers. The properties are about those.

## 1. Inventory

| Part | State | Operations | Interacts with |
| --- | --- | --- | --- |
| FdtBusDxe: handle tree (`DtDevice.c`, `DriverBinding.c`, `Entry.c`) | the DT_DEVICEs, their protocol installations, the open-protocol records of the UEFI core, `gCriticalDevices`, per device the callbacks and the list of DMA mappings | driver binding Start and Stop, ScanChildren, RemoveChild, SetCallbacks, End-of-DXE event | calls the UEFI core, which calls back into it and into the device drivers |
| FdtBusDxe: DMA (`DtIoDma.c`) | the `Maps` list, bounce buffers, the reach of each device | Map, Unmap, AllocateBuffer, FreeBuffer | page allocator, bus masters; the teardown above refuses while mappings exist |
| FdtBusDxe: register access (`DtIo.c`) | none of its own, callbacks of the ancestors | ReadReg, WriteReg, CopyReg, PollReg, SetRegType, Lookup | the callbacks a parent driver set; CPU I/O protocol; GCD |
| FdtBusDxe: properties and addresses (`DtIoProp*.c`, `DtProp.c`, `Fdt.c`, translation in `DtDevice.c`) | the position of a property iterator | ParseProp, GetReg, GetRange, translation to CPU addresses | the Devicetree blob |
| FdtBusDxe: utilities (`Utils.c`) | the GCD memory space map (external) | ApplyGcdTypeAndAttrs, RangeIsMapped, tick arithmetic | GCD services |
| VirtNorFlashDxe | flash contents, locks and status register (hardware), `ShadowBuffer` | FVB Read, Write, EraseBlocks; formatting at boot | variable driver; survives power loss |
| PciHostBridgeFdtDxe | resource nodes of every root bridge, the phase flags, PCDs, GCD allocations | NotifyPhase, SetBusNumbers, SubmitResources, GetProposedResources; configuration, memory and I/O access | PCI bus driver, GCD, FdtBusDxe |
| PciSioSerialDxe: serial I/O (`SerialIo.c`) | two software FIFOs, mode and control bits, UART registers | Reset, Read, Write, SetAttributes, SetControl, GetControl | console, a polled UART, its peer |
| PciSioSerialDxe: driver binding (`Serial.c`) | the child handles, one per UART, what is open on the controller, per PCI device a PCI_DEVICE_INFO with ChildCount and the attributes to go back to | driver binding Start and Stop, for all UARTs or the one a device path names | UEFI core, PCI I/O, Devicetree or super I/O parent |
| VirtioFdtDxe | one child handle per node with a virtio transport | driver binding Start and Stop, ChildCreate, ChildDestroy | UEFI core, FdtBusDxe, the transport library |
| SampleBusDxe, SampleDeviceDxe | callbacks, children, mappings | driver binding Start and Stop | FdtBusDxe |
| HighMemDxe | none of its own; the memory map and the attributes of pages | driver binding Start and Stop | FdtBusDxe, GCD, CPU protocol |
| Libraries (`Library/`) | none | helpers over DT I/O | their callers |
| Applications, ComponentName.c, unit tests (`Tests.c`) | none | print | the user |

What each part has to get right, and where it is hard, is listed line by line
as the hazards of `PROJECT.json`.

## 2. Modules

| Module | Models | Checked through | Proved in |
| --- | --- | --- | --- |
| `HandleTree` | what a bus driver owes the UEFI driver model (abstract) | as a property of `DtBus` and `ChildBuses` | |
| `DtBus` | life cycle of the handle tree, implements `HandleTree` | `MCDtBus` | `DtBusProofs`, `DtBusTree` |
| `ChildBus` | one controller, its children and records, as two drivers share them | through `ChildBuses` | |
| `SerialBus`, `VirtioFdt` | the driver bindings of PciSioSerialDxe and VirtioFdtDxe; EXTEND `ChildBus` | through `ChildBuses` | |
| `ChildBuses` | both of them and their properties, implements `HandleTree` | `MCChildBuses` | `ChildBusesProofs` |
| `DtDma` | DMA mappings and bounce buffers | `MCDtDma` | `DtDmaProofs` |
| `DtReg` | properties, address translation, the memory map, register access | `MCDtReg`, through `DtDrivers` | `DtDriversProofs` |
| `PciIo` | windows of a PCI root bridge and the accesses through them; EXTENDS `DtReg` | `MCDtReg`, through `DtDrivers` | `DtDriversProofs` |
| `HighMem` | the driver of memory nodes; EXTENDS `DtReg` | `MCDtReg`, through `DtDrivers` | `DtDriversProofs` |
| `DtDrivers` | the drivers of one device together, over one memory map | `MCDtReg` | `DtDriversProofs` |
| `NorFlash` | the flash driver | `MCNorFlash` | `NorFlashProofs` |
| `PciHost` | PCI resource allocation of all root bridges | `MCPciHost` | `PciHostProofs` |
| `SerialLine` | what a serial port promises (abstract) | as a property of `Serial` | |
| `Serial` | serial I/O over a 16550 UART, implements `SerialLine` | `MCSerial` | `SerialProofs` |

`DtBus` and `DtDma` meet in `DT_DEVICE.Maps`: `DtBus` counts the mappings,
because all that matters to a teardown is whether there are any; `DtDma` has
what a mapping is. `DtDma` also contains the limits the PCI root bridge hands
down (`RootBridgeIoMap`). `PciIo` is composed with `DtReg`: the root bridge
reads its own node through the same operators as any driver, and its accesses
are register accesses on the windows it found; `RbSpec` has the steps of both.
`HighMem` brings memory into the same memory map, through the same operators,
and `DtDrivers` puts the three together: which driver a device has depends on its node.
Otherwise the drivers reach each other only through the handle tree and are
modelled apart.

### HandleTree

Handles are `live`, controllers that a driver has open are `managed`, and
handles nobody finds any more are `orphans`. `Start` makes handles below a
managed controller, `Remove` takes one without anything below it, `Stop` lets
go of a controller without children, `Orphan` is the error path that failed
itself. Both `DtBus` and `ChildBuses` are shown to implement it, so that what a
caller of ConnectController and DisconnectController may rely on is stated once.

### DtBus

The UEFI core (`ConnectController`, `DisconnectController`, the open-protocol
records) is external and modelled as far as FdtBusDxe depends on it.

* `dtDevs` are the nodes with a DT_DEVICE and DT I/O installed; `owner` is who
  has DT I/O open `BY_DRIVER`, `childOf` who has the parent open
  `BY_CHILD_CONTROLLER` for a child. `gCriticalDevices` is the list of that
  name, in order.
* The call stack is kept per node, as frames of one kind never meet at one
  node: `conn` (handles a recursive connect has still to visit), `phase`,
  `todo`, `failed` (a `DisconnectController` at the node and the loop of the
  driver's Stop over the children), `removing` (inside the uninstall of
  `DtDeviceUnregister`). Nothing else starts while a frame is open (`Quiet`),
  except that a timer may map or unmap memory (`Faults` contains `"timer"`).
* Actions: `ConnectAll`, `ConnectPath`, `ConnectStep` with the Start of
  each kind of driver and `DtDeviceScan` in it; `Disconnect`,
  `DisconnectChild`, `RemoveChild`, `StopKeepsDriver`, `StopDriver`,
  `RemoveDone`, `Reconnect`, `RemoveFailed` for the teardown;
  `SignalEndOfDxe`, `WalkCritical`, `WalkDone` for `OnEndOfDxe`; `Map`, `Unmap`.
* `Faults` says what may go wrong: a node cannot be created, a Start or Stop
  fails, a record cannot be reopened, a driver leaks a mapping. `TreeError`
  are the nodes below which libfdt reports an error after the last subnode.

The mapping to `HandleTree` takes `dtDevs` for `live`, the nodes with an owner
for `managed`, and for `orphans` the devices whose parent could not be opened
again.

### ChildBus, SerialBus, VirtioFdt, ChildBuses

One controller of some kind (`controller`: its driver, its I/O protocol and, for
a PCI device, how many UARTs PcdPciSerialParameters gives it) and the calls the
UEFI core makes for it, one after another. `opened` is what the driver has open
`BY_DRIVER`, `child` the children with their device path and private data,
`recorded` those for which the controller is open `BY_CHILD_CONTROLLER`, `lost`
those whose removal failed and could not be undone. `pc` is how far the call
got: it stops wherever something may fail, since what has been done by then
must be undone.

* Common: `Connect`, `DisconnectSome` (the controller or one child) and `Close`,
  the Stop without children.
* PciSioSerialDxe: `StartSerial`, `StartDone` (nothing to do), `Update` (the child
  exists and gets new settings), `BeginCreate` (the PCI_DEVICE_INFO is made or
  found), `CreateSerialDevice` and `RecordChild` for each instance, `StartEnds`
  with the error path; `StopChild`, `RemoveChild`, `StopEnds`. `infos` are the
  PCI_DEVICE_INFOs, `decoding` the PCI attributes.
* VirtioFdtDxe: `OpenDtIo`, `ChildInstall`, `ChildRecord`, `ChildProduce`,
  `StartFails`; `StopRefused`, `ChildUnlink`, `ChildDestroy` with its recovery,
  `ChildrenStopped`.

`Faults` are `"device"` (the controller cannot be read, a UART does not answer,
no transport), `"record"` (the controller cannot be opened for the child),
`"busy"` (a driver above does not let go), `"reopen"` and `"reinstall"` (an error
path fails). A handle that the database would refuse because its device path
exists already (`Present`) counts as a failure, too.

### DtDma

Memory is an array of cells in pages. `MaxCpuDmaAddress` and `NonIdentity` are
what `DtDeviceCreateDmaInit` computes from `dma-ranges` and inherits; `PciExtra`
is what `RootBridgeIoMap` adds. `Map` either hands out the address of the
buffer or bounces it (`OutOfReach`, `Filled`); `Unmap` copies what the device
wrote (`Committed`) and frees `NumberOfPages`. `DeviceWrite` (a bus master)
and `CpuWrite` (the driver) happen between any two calls. Ghosts remember what
the buffer held at Map and what the device wrote.

### DtReg

The devicetree is a constant of a behaviour (`dt`, one of `Blobs`): node to
property to cells. A cell has `CellBase` values, so that an address of the CPU
(two cells) and its overflow are within reach; FDT_MAX_NCELLS is `MaxNCells`.

* `Field`, `RangeFields`, `RegFields` are the parsers of `DtIoPropParse.c`, on an
  iterator counted in cells; `ParseRegion` is `DtIoParsePropReg` and
  `DtIoParsePropRange` with all they do: reading, translation, attributes,
  the memory map, and the iterator that moves only on success.
* `DtDeviceTranslateRangeToCpu` climbs the buses by a recursive function.
* `ApplyGcdTypeAndAttrs` is the loop over the descriptors of the GCD, which
  are runs of pages that are alike. `FaultPages` are pages at which adding
  memory or setting attributes may fail; what was done before stays done.
* `DtIoGetProp`, `DtIoParseProp`, `DtIoGetReg`, `DtIoGetRange`,
  `DtIoGetRegByName` and `DtIoSetRegType` obtain a region (`reg`);
  `DtIoReadWriteReg` and `DtIoCopyReg` access it, as a CPU address or through the
  callbacks a bus driver may set or clear at any time (`DtIoSetCallbacks`).
  `call` remembers what was asked for and which cells were reached.
* `DtIoPollReg` is split at every read of the register and of the counter
  (`PollRead`, `PollTick`); between them time passes (`Clock`) and the register
  changes (`HwChange`). Counters count up or down and start again.

`RegionExact` does not use the code's way: it takes the property apart at once
(`Entries`) and follows every *byte* through the ranges (`Reach`).

Named bounds: `Offsets`, `Counts`, `Widths` of accesses, `Indices` of entries,
`Delays`, `EndTick`, `MaxSpent` of polls. Polls with a delay are
explored in the devicetree `PollBlobs` only, as they do not depend on it.

### PciIo

`rb` is the PCI_ROOT_BRIDGE_INSTANCE. `RbConfig`, `RbFirstReg`, `RbBusRange`
and `RbRange` are `RootBridgeDtInit`, split where it asks FdtBusDxe, as each
question may fail and may change the memory map; the last `RbRange` adds the VGA
windows and is `RootBridgeValidate`. `RootBridgeIoMem`, `RootBridgeIoIo`,
`RootBridgeIoCopyMem`, `RootBridgeIoPoll` and `RootBridgeIoPciAccess` are the
accesses: `Accepted` is `RootBridgeIoCheckParameter`, `FbpRangeToReg` turns a
window into a region whose offsets are PCI addresses, `EcamAddress` is
PCI_ECAM_ADDRESS. What the bridge does with its windows before that, as
resources, is in `PciHost`. `AccessExact` goes both ways: what an access touches was
asked for, and all that was asked for is touched.

### HighMem

`hm` is where Start is, with the entry it is at and its region; `protected` are
the pages whose attributes were set with the CPU. `ProcessMemoryRanges` is one turn of
the loop up to SetRegType: `ParseRegion` with all it does to the memory map, and the
decision what its status means (EFI_NOT_FOUND is the end). `SetRegType` overrides what
GetReg put into the map and looks at the old type, `LastType`, which is that of the
last descriptor, or any if there was none. `SetMemoryAttributes` may fail. Every
failure is `GiveUp`: DT I/O is closed, what was done stays, and the node may be
started again (`DriverStart`), as it may after `DriverStop`. `before` is a ghost.
Who else may have opened the node is left to `DtBus`. `DtDrivers` adds the driver of a bus,
which changes its callbacks between calls.

### NorFlash

A byte is one bit and a chunk three: what matters is which cells a command
touches and that programming is an AND. `Chunk` is 128 bytes in the code,
`BlockSize` the block. A call is split at its hardware commands: `FvbWrite`
and `FvbEraseBlocks` run to the first one (`pc = "program"` or `"erase"`), then
`ProgramChunk` and `EraseAttempt` are a command each. A command can fail
half-way, and `PowerLoss` can come at any of them; after it `Boot` is
`NorFlashFvbInitialize`, which formats the volume unless it finds the header.
`shadow` is `ShadowBuffer`, `chunks` the offsets in it of the chunks still to be
programmed, the lowest first, and `blocks` the ranges of blocks still to be
erased, `<<first, number>>` each. `sr` are the status register's error bits, which only
some paths clear. `NorFlashWriteSingleBlock` is `WriteSingleBlock`: `Patch`
when the change fits in two chunks and clears bits only, else `Rewrite`.

### PciHost

`node` is `ResAllocNode` of every bridge, `mem` and `io` are the GCD maps the
bridges share, `pcd` the three PCDs every bridge sets. `Phases` are the calls of
the PCI bus driver in any order its guard `Client` allows; `AllocateResources`
contains the whole loop (type with the largest alignment first, fall-back of
64-bit requests, translation check, zeroing of what failed). `Binding` is
`DriverStart` with `RootBridgeCreate`, the connection of the PCI bus driver,
and `DriverStop`. Addresses wrap at `Word`. `Careful` limits the bus driver to
one that frees what it holds before it asks again; EDK II's does.

Details of the abstraction: where the code asserts that a type was found
(`Index < TypeMax`), assertions are compiled out in a release build; that there
always is one is part of the proof (`LoopTurns`). Requests of
alignment 0 are left out, as the PCI bus driver makes none.

### Serial and SerialLine

`Receive` and `Transmit` are the ring buffers with `Head`, `Tail` and `Data`.
`SerialReceiveTransmit` is split at every read of the line status (`RtStart`,
`LoopBack`, `TakeOne`, `SendOne`) and of the modem status (`WaitForCts`);
between any two the UART sends or receives and the peer moves CTS (`Hardware`).
`call` and `todo` are who polls and what is left of the buffer; `Return` and
`TakeByte` are the loops of `SerialWrite` and `SerialRead`. Only the FIFO entry
that was read is abstracted: it is set to 0, so that states differ only in what
can still be read. Timeouts count stalls: 1 stands for the time computed from
the baud rate. Parity, data and stop bits, hardware loopback and the device path
are left out.

`SerialLine` has no rings, polls or modes: a queue out, a queue in, the bytes in
the UART, and the last byte sent and read. The refinement maps a ring to
its `Contents` and the other variables to themselves. A `Reset` that fails after
it emptied the UART only loses what was in the UART.

## 3. Runs

| Run | Shows | Instance |
| --- | --- | --- |
| `DtBusSafety` | invariants of the handle tree with every fault but the timer, and that it implements `HandleTree` | `/ { bus { sample-bus { dev }; dev } }`, 3 critical nodes, one with a tree error |
| `DtBusCalls` | End-of-DXE reaches every listed critical device, calls return | the same tree, timers, no tree error |
| `ChildBuses` | after any failure every child can still be removed, no UART has two children, a PCI_DEVICE_INFO counts its children, and both drivers implement `HandleTree` | 3 handles, 2 settings, super I/O, Devicetree and PCI controllers with 1 and 2 UARTs, a virtio node, all faults |
| `DtReg` | regions are where the ranges put them, accesses reach what was asked for and nothing else, also through a PCI root bridge; the memory map keeps what is in use; polls are honest; memory that HighMemDxe reports as processed can be used, after any failure and new start | eighteen devicetrees of four nodes, three memory maps, 16 CPU addresses in 4 pages |
| `DtDma` | bounced data is right both ways, pages are accounted for, no access out of reach | 4 pages of 2 cells, three devices, 8 mappings, 2 buffers |
| `NorFlashCalls` | writes and erases are exact, contained and survive power loss | 2 blocks of 3 chunks of 3 cells, 2 calls, all faults |
| `NorFlashStale` | finding: a short write over a chunk boundary uses stale data | the same, no faults |
| `PciHostPhases` | one bridge, any order of phases, a careless bus driver | 64 addresses, 16 "below 4G", 4 configurations |
| `PciHostShared` | three bridges share the GCD and PCDs, start and stop: nothing leaks, a kept configuration stays | one keeps its configuration, one has its I/O reserved in part |
| `PciHostFallback` | finding: fall-back of a 64-bit request below 4G | one bridge without a 64-bit range |
| `Serial` | the rings implement the line, flow control, baud rate, calls return | FIFOs of 2 bytes, UART of 1, bytes 0, 1 and a bad one |
| `SerialHang` | finding: a write that never times out | the same |

Why the bounds are enough. The tree has a bus below a bus, a device at both
levels, siblings, and critical nodes on every level: a frame of each kind can be
open at each level. Three handles below one controller are two UARTs and one
more, so that a lost child and its successor exist side by side, and there is
one more PCI_DEVICE_INFO than handles. Two calls of the flash suffice, since what a call
inherits is the flash, the locks, the error bits and the shadow buffer, all of
which the first call can leave in any way; three chunks per block allow a
patch inside, over one boundary and a rewrite. The offsets include both ends of
a block and both refusals. The PCI windows have translation in both directions,
a range at the top of the address space (so that `Limit + 1` wraps for an absent
one) and requests that together exceed a range. In the DMA run buffers lie
across, inside and beyond the reach. Rings with three slots have every
combination of full, empty, wrapped and not. The devicetrees of the `DtReg` run
have addresses of one, two and three cells, sizes of one and two,
overlapping windows, an entry cut short, a region up to the last address and one
past it, attributes that are valid or not, a bus without a way up, and host
bridges with windows of every kind, at 0 and above "4G", that start, fail to
start and lose a window; memory nodes with ranges that are empty, share a page,
cross memory that is known, in use or neither, or end in the last page.

`Serial`, `NorFlashCalls` and `ChildBuses` are the largest (1.7, 0.5 and 0.3
million states).
`NorFlashCalls` and `NorFlashStale` do not check for deadlock: a behaviour
ends when its `MaxCalls` are used up.

**Fairness.** The liveness properties assume `WF_vars(Progress)`, where
`Progress` are the steps *inside* a call that was made. A boot service call
is a plain function call on the only CPU: once entered, it runs to its end,
interrupted at most for a while. Nothing is assumed about those who call, about
timers, or about devices: the flash, the UART and the peer may do nothing
for ever, and the peer may move CTS as it likes.

Every property has one or more mutants in `PROJECT.json`: forms of a definition
with a plausible slip, which TLC must report under the same run. In the
modules they are the definitions with a comment that begins with "mutant".

## 4. What is proved

`DtBusProofs` has the theorems, for every finite tree, every assignment of
drivers and every set of faults:

* `TypeCorrect`: `Spec => []TypeOK`
* `NoDanglingParent`: `Spec => []ParentAlive`
* `CriticalListCorrect`: `Spec => []CriticalListExact`
* `CriticalDevicesConnected`: `Spec => []ListedCriticalConnected`, under `CriticalStart`
* `TeardownRestores`: `Spec => []RecordsRestored`

They rest on the assumptions of `DtBus` only: nodes are numbered by their
offset, so a parent precedes its children; the marks are no nodes; the root
is driven by FdtBusDxe.

`ParentAlive` is not inductive: it says nothing of a teardown in progress, in
which a child has no record for a while. The inductive invariant `IInv` adds what
relates the open frames to the records: frames and drivers are on live devices
only (`FramesAlive`); a record joins two live devices (`RecordsAlive`); a child
inside the uninstall has none, but its parent's Stop is still on the stack
(`RemovingHeld`); a driver that is being stopped is bound (`FramesOwned`); every
other live device has its record (`Recorded`); and the two ways to connect
during a teardown and to walk at End-of-DXE exclude what would break these
(`ConnectHeld`, `WalkHeld`). So when `RemoveDone` frees a device, no child is
recorded under it and none is inside an uninstall: none is left, except the lost
ones. `RecordsRestored` is `Recorded` at a moment without frames;
`CriticalListExact` is carried along. `CriticalStart` says that no driver of a critical device
fails in its Start, neither by a fault nor, for SampleBusDxe, by an error in the blob: such a
device stays without a driver. `WalkConnects` relates the walk to the list: every critical device
before the walker has a driver or is on the list of the connect in progress, which may itself
put new devices behind it. There is a lemma for each group of actions,
and before them the lemmas about lists: appending what a scan created, and
unlinking one device, keep a list without repetitions.

`DtBusTree` goes on from there:

* `BusStaysBound`: `Spec => []BusBound`, a driver keeps a node open as long as
  a child is on record.
* `MappingsKeepDevice`: without `"timer"` in `Faults`, `Spec => []MapsAlive`. With a
  timer the statement is not claimed: a callback may map memory between the test
  of `Maps` and the end of the uninstall, and it is up to the driver's Stop, which
  runs in between, to unmap it.
* `DevicesFormTree`: `Spec => ImplementsTree` for nodes that are all `Sound`: no
  SampleBusDxe whose scan fails in the middle, which leaves children behind.

Its invariant `TInv` orders the nested frames: between a node in which a teardown
has begun and a node in which a later one has, every node is in a frame
(`Order`), so a bus has its driver until its last child is gone (`BusBound`), and
what has been lost is apart from the frames (`LostApart`).

`ChildBusesProofs` has all five properties of its run as theorems, for any
number of handles and UARTs, every kind of controller and every set of faults:
`ChildrenTyped`, `ChildrenOnRecord`, `OneHandlePerUart`, `InfosExact` and
`ChildrenFormTree`. The invariant `CInv` says where a child can be in the middle
of a call: on record, in the hands of the call (`Pending`), or lost (`Kept`); that
the controller is open meanwhile (`Held`); that a DisconnectController that went
well still has all other children on its list (`Stopping`); and that a
PCI_DEVICE_INFO counts the children whose private data points to it, of which
exactly the one being created is not counted yet. That decoding goes back to
what it was takes one more step: the value saved in the only
PCI_DEVICE_INFO in use is the one from before the first child.

`DtDmaProofs` has all five properties of `DtDma`, for any memory, page size, devices and calls that satisfy
`CallsAssumption` (drivers map their own memory, and at least one byte of it): `MemoryTyped`,
`BouncePagesAccounted`, `DevicesReadBuffer`, `DeviceDataArrives` and `ReachKept`. It
begins with what integer division makes of pages and cells. The invariant
`DInv` says that mappings and buffers stand on pages that stay allocated for them
and do not meet each other's (`Mappings`, `Held`, `Apart`), which is why nobody
writes into what somebody else mapped, and that what a device wrote is in its
bounce buffer until Unmap (`Arrivals`).

`ReachKept` is `Spec /\ EntriesNotEmpty => []WithinReach`: the code takes an entry of dma-ranges
of size zero for one of one byte (section 5). `TreeAssumption` says that following `Parent` ends at
the root, as a device is created by its parent. `DeviceInduction` goes down from there, and
`DeviceRecursion` shows that a function defined by a step from the parent exists: the smallest
relation closed under the step is one. With that the limits that `DtDeviceCreateDmaInit` hands down
satisfy their definitions (`NonIdentityIs`, `MaxCpuDmaAddressIs`), and `LimitDecoded` follows by induction:
what is below the limit of a device is below that of its parent, and inside each of its own entries.

`SerialProofs` has `SerialTyped`, `PeerNotStopped`, `BytesInOrder`
(`Spec => ImplementsLine`) and `RateKept` for FIFOs of any size, any bytes and timeouts. It
begins with lemmas about the ring buffers: positions wrap once, `SerialFifoAdd`
appends to `Contents`, `SerialFifoRemove` takes its head (`AddAppends`,
`RemoveTakes`). `Raised` names the points of a poll at which RTS may be down
though Receive has room; none of them lies between calls.

`RateKept` is `ASSUME NotSlow PROVE Spec => RatesKept`, for any clock: a reset leaves divisor and rate alone,
and an accepted rate is within the tolerance of the one asked for. `NotSlow` says that no rate that is
accepted is below 50, the lowest of the standard ones; `Serial.cfg` satisfies it. Without it the
statement is false: below 40 baud the clock divided by 16 times the rate rounds too coarsely, so that with
a clock of 12792 Hz 41 baud becomes 39, which the next reset does not keep. `RoundedIs` and `RateIs` say what the
two divisions make of a rate, `Ways` which of the three outcomes of `VerifyUartParameters` there is,
`KeptBySetting` that an outcome, given to it again, comes back; `RateInv` is that of the rate in force.

`PciHostProofs` has all six properties of `PciHost`, for any
address width, bridges, windows and configurations: `TypeCorrect`, `Backing`
(`Spec => []NodesBacked`), `Keeps` (`Spec => KeptStays`), `Honest`
(`Spec => []StatusHonest`), and `NoLeaks` (`Spec => []NothingLeaks`), which assumes
`Careful` and that only bridges with fdtbuspkg,pci-keep-config are disconnected:
`RootBridgeFree` gives back nothing else. It follows the code's
loops turn by turn. `Stands` says that the nodes of one bridge lie in a
GCD map apart from each other and from what other bridges have, `Exact` that
nothing else is there; `Adding` and `Removing` are what a claim and a release do to
both. `AllocateFits` is the guarantee of `AllocateResource`, `TurnSorts` one turn of
the allocation, in which a type other than the one of the turn may be served, and
`AllocationSorts` counts: five turns that went well have handled five types. `Joining`
and `Splitting` go from one bridge to all bridges and back. The invariant `IInv` adds
that a bridge in enumeration does not keep its configuration (`Flags`), which holds
as no other bridge can set the PCD between a Start and the PCI bus driver's, and
that no type asked for is forgotten (`Requests`). Of the assumptions,
`IoAssumption` stands for the refusal of the GCD to add I/O beyond its space, and
`ConfigurationsAssumption` and `AlignmentsAssumption` for the types of the descriptor's fields.
`MaxIoStep` is the 2^15 that bounds the alignment of an I/O request.

`Decodes` is `ASSUME WindowsFit PROVE Spec => []ProposedDecoded`: the bridge decodes what is proposed to the
bus driver. `WindowsFit` says of the constants that a range that is absent is all zero, that
behind every range there is room for what may be asked of it before an address wraps, that an alignment divides
the address space and is no larger than the cap of the allocation, and that a type falls back only to a range that
is moved as far as its own. The constants of `PciHostPhases` and `PciHostShared` satisfy it. Those of
`PciHostFallback` do not, by the last part, and there the property is false (section 5).
`AllocateWithin` follows the loop of `AllocateResource`: it passes no address that would do and ends
inside the range; `MemoryWithin` and `IoWithin` read that in bus addresses, and `PlacedDecoded` puts together the ranges a type may
be served from. `Known` is the invariant: a node's length and alignment are those of a descriptor
that was accepted, and what it has been given is decoded.

`NorFlashProofs` has all six safety properties of `NorFlashCalls`, for any geometry of the
flash, any header, requests, residues and faults:

* `TypeCorrect`: `Spec => []TypeOK`, and `ErasesInOrder`: `Spec => []EraseInOrder`.
* `ErrorsReal`: `Spec => []ErrorsAreReal`, if no write `ReadsBeyond`: the read before a patch,
  one chunk too long at multiples of 128 (`VirtNorFlash.c:563`), ends past the device.
* `WritesExact` and `WritesContained`: `Spec => []WriteExact` and `Spec => []WriteContained`, if
  no write `Straddles`, that is, is shorter than a chunk and crosses a chunk boundary. Those
  are the writes `NorFlashStale` shows to go wrong.
* `HeaderStays`: `Spec => []HeaderSurvives`, if moreover `StartLba` is 0 and no caller writes over
  the part of the header that is checked. With another `StartLba` the header is looked for where
  it is not written (`VirtNorFlashFvb.c:184`), and every boot formats again.

So each hypothesis excludes just what section 5 lists as a disagreement, and the constants of
`NorFlashCalls` satisfy all of them. The invariant comes in three layers. `NInv` says which call may be at which
hardware command, that the block programmed is unlocked, and that what is still to be erased
was asked for (`StillListed`). `Halfway` is why a write cut anywhere is harmless: in
the middle of a write, a cell in a chunk still to be programmed has its goal in the shadow
buffer and no bit that would have to be set, and every other cell has reached its goal. It needs
`ReadCovers`, what the length of the read guarantees, and `PatchStart` and `RewriteStart`, that the
two paths begin so. `Formatting` says that the headers are the last that a format writes, so that
a power loss before them finds no header at the next boot.

`DtDriversProofs` is about the drivers of a device together (`DtSpec`), for any tree of buses above
it, any cells, memory map and failures of the GCD:

* `TypeCorrect`: `DtSpec /\ AddressesFit => []TypeOK`
* `RegionsExact`: `DtSpec /\ AddressesFit => []RegionExact`
* `RegionsInMap`: `DtSpec /\ AddressesFit => [][RegionAccessible]_allVars`
* `UsedMemoryKept`: `DtSpec => [][PagesKept]_allVars`
* `PollsHonest`: `DtSpec => []PollHonest`
* `AccessesExact`: `DtSpec /\ AddressesFit /\ PciCells => []AccessExact`
* `MemoryWorks`: `DtSpec /\ AddressesFit /\ MemoryNodes => RegionsAccessible`

`AddressesFit` says that no range of a bus and no region of the device runs over the end of 128 bits,
where the sums of `DtDeviceTranslateRangeInternal` wrap; with it an end is where the sum says. It is
about the devicetree only, which never changes. `PciCells` is too: the bus of a root bridge has addresses
of three cells, the first of which is the space. The operators are recursive functions over cells,
ranges and buses, so the proofs begin with what makes those functions exist and how to reason along
them: `SetInduction` over sets of numbers, `TreeInduction` from the root along `Parent`, and
`TreeRecursion` and `ForwardRecursion` for functions defined by them. `UpEnds` and `TranslationExact`
climb the buses: if a whole range goes through a window, so does each of its bytes. `ParsedExactly`
adds the entry, and `RegionInv` is what is left of it in `reg` after any later calls.

The memory map needs no hypothesis. `ApplyGcdTypeAndAttrs` works on descriptors, runs of pages that are `Alike`,
and applies what it decided for the first page of a run to the others; `DescriptorStart` and `AlikeFails`
say that this is what each page by itself would have got, or a failure cut it short. So `PageChanges`
looks at one page, in each of the ways it may be left. `GcdInv` adds that no page of nothing is in use.
In `PollInv`, `Counted` is the invariant of the polling loop: as long as the counter did not start again, the
ticks counted so far and those since are no more than the ticks that passed; `TicksCover` is the
rounding in `NumberOfTicks`.

`AccessesExact` holds what the calls see against what the devicetree says. For a region it is short: the bound
`DtIoReadReg` tests keeps an access inside the region (`AccessImage`), and `RegionsExact` says where the
region's bytes are (`OwnAccessExact`). A root bridge has more on the way. `BridgeWindows` says where each of its windows
comes from: an entry of ranges of its kind, or, for a legacy VGA window, one of those moved there. `FbpRangeToReg` takes the
base of the window from its CPU address in 128 bits, the access adds the PCI address again, and a bus that is the CPU cuts the
sum to 64: `Placement` shows that the two steps cancel modulo either word (`Congruent`, `Multiples`), so that
`WindowServes` and `VgaServes` find each cell where the devicetree has it. `EcamAddresses` bounds a
configuration access by what `RootBridgeIoPciAccess` admits. `AccessStep` takes one step to the call it makes, and
`StepKinds`, `HostStep` and `WindowsStep` say that no other step touches the windows. The assumptions on the constants are that a
caller has less than 2^64 bytes to move and no offset next to 2^128 (`CallersAssumption`), that two cells make
a CPU word (`PciAssumption`), and that the offset of a bus number of one cell in ECAM is below 2^128 (`EcamAssumption`).

`MemoryWorks` puts `RegionsInMap` and `UsedMemoryKept` together with what HighMemDxe promises. `MemoryNodes` is
about the devicetree: memory has an address, and no byte of it has two CPU addresses (below ranges that overlap,
the driver is given one of them). All memory nodes of `MCDtReg` satisfy it. The invariant is `NodeInv`. An
entry that Start is done with is `Usable` and stays so, as nothing takes from a page what it is used as (`RamKept`,
`RamStays`). An entry that is known is all of it: `EntryGot` has its bytes from `RegionsExact`, `MapDone` its
pages from the map. That a range nobody had before is not skipped needs the
most: SetRegType skips what was system memory, so one has to know that all system memory there
is was there before Start or belongs to an entry passed since. `NoMoreEntries` says that the loop ends
behind the last entry or where the attributes end. `MemoryAssumption` adds that system memory and MMIO are different types.

Only model-checked: `CallsReturn` of `DtBus`, `NorFlash` and `Serial`, the three liveness properties, and
`WriteEnds`, which is false. Liveness under fairness
is out of the proof system's reach, as are ENABLED, the induction theorems of its library and
RECURSIVE operators; the last are not used, and an induction is made from the least element
of a set of numbers.

## 5. Where code and documents disagree

With a run:

* `NorFlashStale`. `NorFlashWriteSingleBlock` reads the old data before a
  patch with a length computed from the number of bytes alone. A short write
  over a 128-byte boundary programs stale bytes of an earlier call.
* `PciHostFallback`. A 64-bit request served from the 32-bit range is
  reported with the translation of the 64-bit range, and its alignment is
  checked against that.
* `SerialHang`. While the peer withholds CTS and THR is empty,
  `SerialReceiveTransmit` does not return and `SerialWrite` cannot time out.

Seen while modelling, described as hazards or here, without a run:

* `Docs/DtBindings.md:28` says that critical devices are always connected; one
  that its bus has not created at End-of-DXE is not.
* `SampleBusDxe` leaves callbacks set and children without a bound driver
  when ScanChildren fails in the middle of its Start.
* `VirtNorFlashDxe`: a read length that is one chunk too long at multiples of 128
  fails in the last chunk of the device; an error bit left by a failed command
  makes later writes fail that did program their data; the header is looked
  for at the start of the region but written at `StartLba`; a header torn after the part
  that is validated is accepted.
* `PciHostBridgeFdtDxe`: `FreeResources` returns an unassigned status when
  nothing is allocated; a bus number descriptor passes `SubmitResources` as an
  I/O request; a failed request keeps its state with length 0; an I/O translation
  of zero (`RootBridge.c:2228`) reads as "not set" and the next bridge replaces it;
  `ConfigBuffer` (`RootBridge.c:2270`) is freed on error paths before it is set.
* `DtIoDma.c` returns `EFI_INVALID_PARAMETER` for a common buffer out of reach
  where its comment (line 27) and `DtIoProtocol.md` say `EFI_UNSUPPORTED`, and
  never the `EFI_NOT_FOUND` that line 329 announces for `FreeBuffer`. A bus master
  that writes less than it was given leaves the rest of a bounced buffer zero
  (`DtIoDma.c:215`); without a bounce it keeps the driver's data.
* `DtDeviceCreateDmaInit` takes an entry of dma-ranges of size zero for one of one byte
  (`DtDevice.c:103`): a device may be given the address at which the entry begins.
* `PciSioSerialDxe`: the byte of a write that timed out stays queued
  although it is not counted; software loopback drops a byte when Receive is
  full; bytes with errors that arrive as fast as they are discarded hold up
  sending; `VerifyUartParameters` degrades the baud rate also when it is told not to.
* The same for low baud rates: with a clock of 1843200 Hz, 14 baud gives a divisor of
  8229, reported as 13 baud, and the next reset programs 12, as
  `VerifyUartParameters` divides integers. A `SerialReset` that fails for that
  reason has emptied the UART already.
* `Serial.c`: with several UARTs, `PciSerialCount` moves on only after a match, so a
  device path that names UART 1 or higher finds none; the entry of the PCD is
  taken from the start of the list. `SerialControllerDriverStart` returns
  `EFI_SUCCESS` when other children exist though the one asked for was not made,
  and on PCI also when it failed and undid everything, as `Status` is overwritten
  by restoring the attributes. `PciAttributes` is used unset if reading the
  attributes failed; the FIFO depths of `DefaultPciSerialParameter` are unset; a
  child keeps the baud rate asked for in its device path when the mode got a
  lower one. The ACPI resources of a super I/O are not freed, nor is
  `SerialDevices` when children exist and no path is given.
* `VirtioFdtDxe`: Start without a controller path returns without closing DT I/O.
  After a Start whose path ends at the controller, the driver has it open without a
  child, and no later connect creates one. A `ChildDestroy` whose recovery fails
  leaves a child that no DisconnectController removes, and whose device path keeps a
  new one from being made.
* `DtIoPollReg` with a delay of zero reads the register once and returns success
  without a comparison, where `DtIo.c` says that the value matched. When the
  counter starts again during a poll, the time-out may come early.
* `HighMemDxe.c:147` says that EFI_SUCCESS means "All ranges are processed". The
  loop ends with success when GetReg returns EFI_NOT_FOUND, also when it is the
  attributes of a range that are missing (`DtProp.c:56`), and the rest of the memory is
  not added. Whether a range is new is told by its last descriptor (`Utils.c:515`): a
  range that ends in memory already known, or the second Start after one that failed in
  SetMemoryAttributes, is left without protection, and one that begins in memory in use
  is protected as a whole, code in use included. For a range that ends in the topmost page that type is
  never set.
* `reg-attrs` is read at the index given by the caller, counted from the start
  of the property, while the entry of `reg` is counted from the iterator.
* `ApplyGcdTypeAndAttrs`: a region that ends in the topmost page gets no entry in
  the memory map, as its end wraps to 0, and the call succeeds. A failing
  `SetRegType` may leave pages removed that it was to replace.
* `RootBridgeDtInit` takes any error for the end of `ranges`, so that a bridge
  may start with fewer windows than it has (`RootBridge.c:1955`); of several windows of a kind the
  last is used. A window that ends at 2^64 refuses every access (`Limit + 1` is 0).
  The ECAM offset is computed from the bus number itself, not from its distance
  to the first one. The alignment check does not see `ExtendedRegister`; the CPU
  I/O protocol refuses what it lets through. The translation of the legacy VGA
  windows is computed in 64 bits: on a bus without a CPU address it is off by 2^64.
* `Docs/DtBindings.md` has `ranges-attrs` where `DtProp.c:141` reads
  `range-attrs`.

## 6. Not modelled, and the plan

The core was done first: the handle tree, which everything depends on, then the
parts that keep state through failures (flash, PCI resources, DMA, serial),
then the way to the registers (`DtReg`, `PciIo`, `HighMem`), and the drivers that create
children of their own (`ChildBuses`). What is left, in this order:

1. `PciHostBridgeLibEcam`, which describes one root bridge by PCDs to a host bridge
   driver outside the package.
2. `RatesKept` for rates below 50, and `ProposedDecoded` where an alignment does not divide the address
   space: both need a closer look at what the code promises there.

Left out on purpose: in `DtReg` plain values of 128 bits (`DtIoParseProp` does
not support them) and strings, of which only reg-names matters; in `PciIo`
GetAttributes, SetAttributes and Configuration, which only report; in `SerialBus`
how Supported tells the parents apart and which status codes are reported; in `HighMem`
the build without driver binding, whose entry point makes the same pass over all
memory nodes; in `VirtioFdt` the transport, which is a library's; applications, component names,
unit tests.
