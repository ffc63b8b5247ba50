------------------------------- MODULE DtBus -------------------------------
(***************************************************************************)
(* The DT_DEVICE life cycle of Drivers/FdtBusDxe: how Devicetree nodes     *)
(* become handles, how bus and device drivers bind to them, how a handle   *)
(* and everything below it is torn down again, and how the End-of-DXE      *)
(* callback walks the list of critical devices.                            *)
(*                                                                         *)
(* FdtBusDxe runs single threaded under the UEFI boot services, so         *)
(* ConnectController, DisconnectController and                             *)
(* UninstallMultipleProtocolInterfaces (external, UEFI driver model) call  *)
(* back into the drivers in nested frames.  Two frames of one kind never   *)
(* meet at one node, so the call stack is kept per node:                   *)
(*   conn      handles a recursive ConnectController has still to visit;   *)
(*   phase     progress of DisconnectController at a node;                 *)
(*   removing  nodes inside the uninstall of DtDeviceUnregister.           *)
(* Nothing else starts while such a frame is open, except that a device    *)
(* driver bound to a node may map memory from a timer callback.            *)
(***************************************************************************)
EXTENDS Naturals, FiniteSets, SequencesExt

CONSTANTS
  Nodes,      \* Devicetree nodes, numbered by their offset in the tree
  Root,       \* the "/" node
  Parent,     \* the tree: the parent of every other node
  DriverOf,   \* the driver that supports a node, or "none"
  Critical,   \* nodes marked critical (or of type "memory")
  TreeError,  \* nodes whose subnode walk libfdt ends with an error
  Faults,     \* kinds of failure that may happen
  End,        \* the list head, and an End-of-path node
  All,        \* no RemainingDevicePath
  MaxMaps     \* bound on the DMA mappings a device driver keeps on a node

NoAgent == "none"
Agents  == {"FdtBus", "SampleBus", "Device"}
FaultKinds == {"scan", "start", "stop", "reopen", "leak", "timer"}

ASSUME NodesAssumption ==
  /\ Nodes \subseteq Nat /\ IsFiniteSet(Nodes)
  /\ Root \in Nodes
  /\ Parent \in [Nodes \ {Root} -> Nodes]
  /\ \A n \in Nodes \ {Root} : Parent[n] < n
ASSUME MarkersAssumption == End \notin Nodes /\ All \notin Nodes /\ End # All
ASSUME DriversAssumption ==
  /\ DriverOf \in [Nodes -> Agents \cup {NoAgent}]
  /\ DriverOf[Root] = "FdtBus"
ASSUME TreeAssumption == Critical \subseteq Nodes /\ TreeError \subseteq Nodes
ASSUME FaultsAssumption == Faults \subseteq FaultKinds /\ MaxMaps \in Nat

VARIABLES
  dtDevs,           \* nodes that have a DT_DEVICE with DT I/O installed
  owner,            \* agent with DT I/O of the node open BY_DRIVER
  childOf,          \* agent with the parent open BY_CHILD_CONTROLLER for it
  callbacks,        \* DtDevice->Callbacks is set
  maps,             \* length of DtDevice->Maps
  gCriticalDevices, \* the list of critical DT_DEVICEs
  lost,             \* devices whose BY_CHILD record could not be reopened
  conn, phase, todo, failed, removing,
  endOfDxe,         \* "armed", "walking" or "done"
  link              \* the loop variable of OnEndOfDxe

handleVars == <<dtDevs, owner, childOf, callbacks, maps, gCriticalDevices, lost>>
stopVars   == <<phase, todo, failed, removing>>
walkVars   == <<endOfDxe, link>>
vars       == <<handleVars, conn, stopVars, walkVars>>

Phases == {"idle", "stop", "stopOne", "stopped", "refused", "reconnect"}

Kids(n) == {k \in Nodes \ {Root} : Parent[k] = n}
\* Child handles the UEFI core finds in the open list of a node.
Listed(n) == {k \in Kids(n) : childOf[k] # NoAgent}
\* Those a driver bound to the node is asked to stop.
Managed(n) == {k \in Kids(n) : childOf[k] # NoAgent /\ childOf[k] = owner[n]}

\* The DT_DEVICE records, the core's records about them and the open calls are
\* well typed; in particular DtIoUnmap never takes more than Map put there.
TypeOK ==
  /\ dtDevs \in SUBSET Nodes
  /\ owner \in [Nodes -> Agents \cup {NoAgent}]
  /\ childOf \in [Nodes -> Agents \cup {NoAgent}]
  /\ callbacks \in [Nodes -> BOOLEAN]
  /\ maps \in [Nodes -> 0..MaxMaps]
  /\ gCriticalDevices \in Seq(Nodes)
  /\ lost \in SUBSET Nodes
  /\ conn \in SUBSET Nodes
  /\ phase \in [Nodes -> Phases]
  /\ todo \in [Nodes -> SUBSET Nodes]
  /\ failed \in [Nodes -> BOOLEAN]
  /\ removing \in SUBSET Nodes
  /\ endOfDxe \in {"armed", "walking", "done"}
  /\ link \in Nodes \cup {End}

\* CreateRootHandle: the root has a handle before any driver is connected.
Init ==
  /\ dtDevs = {Root}
  /\ owner = [n \in Nodes |-> NoAgent]
  /\ childOf = [n \in Nodes |-> NoAgent]
  /\ callbacks = [n \in Nodes |-> FALSE]
  /\ maps = [n \in Nodes |-> 0]
  /\ gCriticalDevices = IF Root \in Critical THEN <<Root>> ELSE << >>
  /\ lost = {}
  /\ conn = {}
  /\ phase = [n \in Nodes |-> "idle"]
  /\ todo = [n \in Nodes |-> {}]
  /\ failed = [n \in Nodes |-> FALSE]
  /\ removing = {}
  /\ endOfDxe = "armed"
  /\ link = End

Unwinding == removing # {} \/ \E n \in Nodes : phase[n] # "idle"
\* No boot service call is in progress.
Quiet == conn = {} /\ ~Unwinding /\ endOfDxe # "walking"

-----------------------------------------------------------------------------
(* Creating handles                                                        *)

\* Subnodes DtDeviceScan looks for that have no handle yet (one that has is
\* EFI_ALREADY_STARTED and skipped).
Missing(n, rem) == {k \in Kids(n) : k \notin dtDevs /\ (rem = All \/ rem = k)}

\* The order in which the subnodes of one scan are created.
TreeOrder(S) ==
  {e \in [1..Cardinality(S) -> S] :
     /\ ToSet(e) = S
     /\ \A i, j \in 1..Cardinality(S) : i < j => e[i] < e[j]}

\* DtDeviceRegister opens the parent BY_CHILD_CONTROLLER for every new handle.
NoRecord(made, agent) == UNCHANGED childOf  \* mutant: the open is forgotten
Record(made, agent) ==
  childOf' = [k \in Nodes |-> IF k \in made THEN agent ELSE childOf[k]]

\* DtDeviceScan with DtDeviceCreate and DtDeviceRegister of every subnode.  A
\* subnode that cannot be created or registered is cleaned up and skipped; a
\* broken tree ends the walk early.
Scan(n, agent, rem) ==
  \E made \in SUBSET Missing(n, rem) :
    /\ "scan" \in Faults \/ n \in TreeError \/ made = Missing(n, rem)
    /\ dtDevs' = dtDevs \cup made
    /\ Record(made, agent)
    /\ \E order \in TreeOrder(made \cap Critical) :
         gCriticalDevices' = gCriticalDevices \o order

NoScan == UNCHANGED <<dtDevs, childOf, gCriticalDevices>>

\* FdtBusDxe binds once and scans on every Start, whatever the scan returns.
FdtBusStart(n, rem) ==
  /\ DriverOf[n] = "FdtBus"
  /\ owner[n] \in {NoAgent, "FdtBus"}
  /\ owner' = [owner EXCEPT ![n] = "FdtBus"]
  /\ Scan(n, "FdtBus", rem)
  /\ UNCHANGED <<callbacks, maps, lost>>

\* SampleBusDxe stays bound when there is nothing to create and when
\* SetCallbacks refuses; it closes the handle again when ScanChildren fails.
SampleBusStart(n, rem) ==
  /\ DriverOf[n] = "SampleBus"
  /\ owner[n] = NoAgent
  /\ IF rem = End \/ callbacks[n]
       THEN /\ owner' = [owner EXCEPT ![n] = "SampleBus"]
            /\ NoScan
            /\ UNCHANGED callbacks
       ELSE /\ callbacks' = [callbacks EXCEPT ![n] = TRUE]
            /\ Scan(n, "SampleBus", All)
            /\ owner' = IF n \in TreeError THEN owner
                        ELSE [owner EXCEPT ![n] = "SampleBus"]
  /\ UNCHANGED <<maps, lost>>

DeviceStart(n) ==
  /\ DriverOf[n] = "Device"
  /\ owner[n] = NoAgent
  /\ owner' = [owner EXCEPT ![n] = "Device"]
  /\ NoScan
  /\ UNCHANGED <<callbacks, maps, lost>>

\* No driver supports the node, the one that does has it open already, or its
\* Start fails and closes what it opened.
NothingStarts(n) ==
  /\ \/ DriverOf[n] = NoAgent
     \/ DriverOf[n] # "FdtBus" /\ owner[n] # NoAgent
     \/ "start" \in Faults
  /\ UNCHANGED handleVars

ConnectSingle(n, rem) ==
  FdtBusStart(n, rem) \/ SampleBusStart(n, rem) \/ DeviceStart(n) \/ NothingStarts(n)

\* ConnectController(n, NULL, NULL, TRUE) from BDS.
ConnectAll(n) ==
  /\ Quiet
  /\ n \in dtDevs
  /\ conn' = {n}
  /\ UNCHANGED <<handleVars, stopVars, walkVars>>

\* ConnectController(n, NULL, rem, FALSE): DtPathToHandle, or BDS connecting
\* one device path.
ConnectPath(n, rem) ==
  /\ Quiet
  /\ n \in dtDevs
  /\ ConnectSingle(n, rem)
  /\ UNCHANGED <<conn, stopVars, walkVars>>

\* One handle of a recursive ConnectController; its children follow.
ConnectStep(n) ==
  /\ n \in conn
  /\ ConnectSingle(n, All)
  /\ conn' = (conn \ {n}) \cup Listed(n)'
  /\ UNCHANGED <<stopVars, walkVars>>

-----------------------------------------------------------------------------
(* DMA mappings of device drivers                                          *)

Map(n) ==
  /\ Quiet \/ "timer" \in Faults
  /\ owner[n] = "Device"
  /\ maps[n] < MaxMaps
  /\ maps' = [maps EXCEPT ![n] = @ + 1]
  /\ UNCHANGED <<dtDevs, owner, childOf, callbacks, gCriticalDevices, lost>>
  /\ UNCHANGED <<conn, stopVars, walkVars>>

\* DtIoUnmap looks the mapping up in Maps before it unlinks it.
AnyMapping(n) == TRUE  \* mutant: the lookup is dropped
HasMapping(n) == maps[n] > 0

Unmap(n) ==
  /\ Quiet \/ "timer" \in Faults
  /\ owner[n] = "Device"
  /\ HasMapping(n)
  /\ maps' = [maps EXCEPT ![n] = @ - 1]
  /\ UNCHANGED <<dtDevs, owner, childOf, callbacks, gCriticalDevices, lost>>
  /\ UNCHANGED <<conn, stopVars, walkVars>>

-----------------------------------------------------------------------------
(* Tearing handles down                                                    *)

\* The core lists the children and calls the Stop of the bound driver.
BeginStop(n, kids, how) ==
  /\ phase' = [phase EXCEPT ![n] = how]
  /\ todo' = [todo EXCEPT ![n] = kids]
  /\ failed' = [failed EXCEPT ![n] = FALSE]

\* DisconnectController(n, NULL, NULL).
Disconnect(n) ==
  /\ Quiet
  /\ n \in dtDevs
  /\ owner[n] # NoAgent
  /\ BeginStop(n, Managed(n), "stop")
  /\ UNCHANGED <<handleVars, conn, removing, walkVars>>

\* DisconnectController(n, NULL, child): the driver stops for good only when
\* the child was its last.
DisconnectChild(n, c) ==
  /\ Quiet
  /\ n \in dtDevs
  /\ owner[n] # NoAgent
  /\ c \in Managed(n)
  /\ BeginStop(n, {c}, IF Managed(n) = {c} THEN "stop" ELSE "stopOne")
  /\ UNCHANGED <<handleVars, conn, removing, walkVars>>

Stopping(n) == phase[n] \in {"stop", "stopOne"}
BelowIdle(n) == Kids(n) \cap removing = {}

\* DtDeviceRemove refuses while DMA mappings are present; CloseProtocol fails
\* when the BY_CHILD record is not the caller's.
RemovableMapped(n, c) == childOf[c] = owner[n]  \* mutant: Maps is not checked
Removable(n, c) == maps[c] = 0 /\ childOf[c] = owner[n]

\* DtDeviceRemove of the next child up to the uninstall in DtDeviceUnregister,
\* which first stops the driver of the child.
RemoveChild(n, c) ==
  /\ Stopping(n) /\ BelowIdle(n) /\ conn = {}
  /\ c \in todo[n]
  /\ IF Removable(n, c)
       THEN /\ childOf' = [childOf EXCEPT ![c] = NoAgent]
            /\ removing' = removing \cup {c}
            /\ IF owner[c] = NoAgent
                 THEN phase' = [phase EXCEPT ![c] = "stopped"]
                      /\ UNCHANGED <<todo, failed>>
                 ELSE BeginStop(c, Managed(c), "stop")
       ELSE /\ failed' = [failed EXCEPT ![n] = TRUE]
            /\ todo' = [todo EXCEPT ![n] = @ \ {c}]
            /\ UNCHANGED <<childOf, phase, removing>>
  /\ UNCHANGED <<dtDevs, owner, callbacks, maps, gCriticalDevices, lost>>
  /\ UNCHANGED <<conn, walkVars>>

\* What DisconnectController leaves for its caller: the uninstall that called
\* it reads the outcome, a call from BDS just returns.
Outcome(n, result) ==
  phase' = [phase EXCEPT ![n] = IF n \in removing THEN result ELSE "idle"]

\* Every child of the call was handled, but one of them in vain, or only one
\* was to be stopped, or the device driver refuses: the driver stays.
StopKeepsDriver(n) ==
  /\ Stopping(n) /\ BelowIdle(n) /\ conn = {}
  /\ todo[n] = {}
  /\ failed[n] \/ phase[n] = "stopOne" \/ (owner[n] = "Device" /\ "stop" \in Faults)
  /\ Outcome(n, "refused")
  /\ UNCHANGED <<handleVars, conn, todo, failed, removing, walkVars>>

\* AllChildrenStopped: only then does the core go on to Stop (0).
LastChildHandled(n) == phase[n] = "stop" /\ todo[n] = {}  \* mutant: errors ignored
AllStopped(n) == phase[n] = "stop" /\ todo[n] = {} /\ ~failed[n]

\* SampleBusDxe resets its callbacks when it stops.
ResetCallbacks(n) ==
  callbacks' = IF owner[n] = "SampleBus" THEN [callbacks EXCEPT ![n] = FALSE] ELSE callbacks

\* A device driver unmaps what it mapped, unless it leaks.
ReleaseMaps(n) ==
  \/ maps' = [maps EXCEPT ![n] = 0]
  \/ "leak" \in Faults /\ UNCHANGED maps

\* Stop (0): the driver closes the handle.
StopDriver(n) ==
  /\ AllStopped(n) /\ BelowIdle(n) /\ conn = {}
  /\ owner' = [owner EXCEPT ![n] = NoAgent]
  /\ ResetCallbacks(n)
  /\ ReleaseMaps(n)
  /\ Outcome(n, "stopped")
  /\ UNCHANGED <<dtDevs, childOf, gCriticalDevices, lost>>
  /\ UNCHANGED <<conn, todo, failed, removing, walkVars>>

\* The caller's loop over the children moves on.
RemoveRetries(c, error) ==  \* mutant: a child that failed is tried again
  LET n == Parent[c] IN
  /\ removing' = removing \ {c}
  /\ phase' = [phase EXCEPT ![c] = "idle"]
  /\ todo' = [todo EXCEPT ![n] = IF error THEN @ ELSE @ \ {c}]
  /\ UNCHANGED failed
RemoveReturns(c, error) ==
  LET n == Parent[c] IN
  /\ removing' = removing \ {c}
  /\ phase' = [phase EXCEPT ![c] = "idle"]
  /\ todo' = [todo EXCEPT ![n] = @ \ {c}]
  /\ failed' = [failed EXCEPT ![n] = @ \/ error]

\* DtDeviceCleanup takes a critical device off its list.
StaysLinked(c) == UNCHANGED gCriticalDevices  \* mutant: RemoveEntryList is forgotten
Unlink(c) ==
  IF c \in Critical
    THEN \E i \in DOMAIN gCriticalDevices :
           /\ gCriticalDevices[i] = c
           /\ gCriticalDevices' = RemoveAt(gCriticalDevices, i)
    ELSE UNCHANGED gCriticalDevices

\* The uninstall succeeds: no driver and no child has DT I/O open.
\* DtDeviceCleanup frees the device.
RemoveDone(c) ==
  /\ c \in removing /\ conn = {}
  /\ phase[c] = "stopped" /\ Listed(c) = {}
  /\ dtDevs' = dtDevs \ {c}
  /\ callbacks' = [callbacks EXCEPT ![c] = FALSE]
  /\ Unlink(c)
  /\ lost' = lost \ {c}
  /\ RemoveReturns(c, FALSE)
  /\ UNCHANGED <<owner, childOf, maps, conn, walkVars>>

\* The uninstall fails: the core reconnects the handle before it returns.
Reconnect(c) ==
  /\ c \in removing /\ conn = {}
  /\ phase[c] = "refused" \/ (phase[c] = "stopped" /\ Listed(c) # {})
  /\ phase' = [phase EXCEPT ![c] = "reconnect"]
  /\ conn' = {c}
  /\ UNCHANGED <<handleVars, todo, failed, removing, walkVars>>

\* DtDeviceUnregister opens the parent for the child again; when that fails
\* too, the child stays without a record.
NoReopen(c) == UNCHANGED <<childOf, lost>>  \* mutant: the record is not restored
Reopen(c) ==
  \/ childOf' = [childOf EXCEPT ![c] = owner[Parent[c]]] /\ UNCHANGED lost
  \/ "reopen" \in Faults /\ lost' = lost \cup {c} /\ UNCHANGED childOf

\* The error goes back to the caller's loop.
RemoveFailed(c) ==
  /\ c \in removing
  /\ phase[c] = "reconnect" /\ conn = {}
  /\ Reopen(c)
  /\ RemoveReturns(c, TRUE)
  /\ UNCHANGED <<dtDevs, owner, callbacks, maps, gCriticalDevices, conn, walkVars>>

-----------------------------------------------------------------------------
(* OnEndOfDxe                                                              *)

\* The event is signalled once, by BDS.
SignalEndOfDxe ==
  /\ Quiet /\ endOfDxe = "armed"
  /\ endOfDxe' = "walking"
  /\ link' = IF gCriticalDevices = << >> THEN End ELSE Head(gCriticalDevices)
  /\ UNCHANGED <<handleVars, conn, stopVars>>

WalkToBound ==  \* mutant: the loop ends at the first device that is bound
  /\ endOfDxe = "walking" /\ conn = {}
  /\ \E i \in DOMAIN gCriticalDevices :
       /\ gCriticalDevices[i] = link
       /\ link' = IF i = Len(gCriticalDevices) \/ owner[link] # NoAgent
                  THEN End ELSE gCriticalDevices[i + 1]
       /\ conn' = IF owner[link] = NoAgent THEN {link} ELSE {}
  /\ UNCHANGED <<handleVars, stopVars, endOfDxe>>
\* The next link is read before the device is connected.
WalkCritical ==
  /\ endOfDxe = "walking" /\ conn = {}
  /\ \E i \in DOMAIN gCriticalDevices :
       /\ gCriticalDevices[i] = link
       /\ link' = IF i = Len(gCriticalDevices) THEN End ELSE gCriticalDevices[i + 1]
       /\ conn' = IF owner[link] = NoAgent THEN {link} ELSE {}
  /\ UNCHANGED <<handleVars, stopVars, endOfDxe>>

WalkDone ==
  /\ endOfDxe = "walking" /\ conn = {} /\ link = End
  /\ endOfDxe' = "done"
  /\ UNCHANGED <<handleVars, conn, stopVars, link>>

-----------------------------------------------------------------------------
\* Steps of calls in progress.
Progress ==
  \/ \E n \in Nodes : \/ ConnectStep(n) \/ StopKeepsDriver(n) \/ StopDriver(n)
                      \/ RemoveDone(n) \/ Reconnect(n) \/ RemoveFailed(n)
                      \/ \E c \in Kids(n) : RemoveChild(n, c)
  \/ WalkCritical
  \/ WalkDone

\* Calls from BDS, applications and timers.
Request ==
  \/ \E n \in Nodes : \/ ConnectAll(n) \/ Disconnect(n) \/ Map(n) \/ Unmap(n)
                      \/ \E rem \in Kids(n) \cup {End} : ConnectPath(n, rem)
                      \/ \E c \in Kids(n) : DisconnectChild(n, c)
  \/ SignalEndOfDxe

Next == Progress \/ Request

Spec == Init /\ [][Next]_vars
\* A boot service call that was entered is executed to its end.
FairSpec == Spec /\ WF_vars(Progress)
-----------------------------------------------------------------------------
(* Properties                                                              *)

\* DtDevice->Parent is followed without a check (DtDeviceTranslateRangeToCpu):
\* a device never outlives its parent.  Only a child whose BY_CHILD record was
\* lost in the error path of DtDeviceUnregister is no longer protected.
ParentAlive == \A c \in dtDevs \ ({Root} \cup lost) : Parent[c] \in dtDevs

\* gCriticalDevices links exactly the live critical devices, each once: a freed
\* DT_DEVICE is never left on the list DtDeviceCreate put it on.
CriticalListExact ==
  /\ IsInjective(gCriticalDevices)
  /\ ToSet(gCriticalDevices) = dtDevs \cap Critical

\* Maps are anchored in the DT_DEVICE: while a mapping is present DtDeviceRemove
\* must not free it, also when the driver leaks the mapping in its Stop.
MapsAlive == \A n \in Nodes : maps[n] # 0 => n \in dtDevs

\* A child handle is recorded under the driver that is bound to its parent, so
\* that DisconnectController finds and stops it: DriverStop closes the parent
\* only after every child was removed.  (SampleBusDxe breaks this when
\* ScanChildren fails half-way.)
BusBound ==
  \A c \in Nodes \ {Root} :
    childOf[c] # NoAgent /\ ~(DriverOf[Parent[c]] = "SampleBus" /\ Parent[c] \in TreeError)
      => owner[Parent[c]] = childOf[c]

\* Whatever failed on the way, when a teardown has returned every surviving
\* child is on the record of its parent again (DtDeviceUnregister reopens it)
\* and can be torn down later.
RecordsRestored ==
  Quiet => \A c \in dtDevs \ ({Root} \cup lost) : childOf[c] # NoAgent

WalkOver == endOfDxe = "walking" /\ link = End /\ conn = {}

\* When OnEndOfDxe is about to return, every critical device that is on the list
\* has a driver, also one that was created behind the walker by a bus it
\* connected.
ListedCriticalConnected ==
  WalkOver => \A c \in ToSet(gCriticalDevices) :
                DriverOf[c] # NoAgent => owner[c] # NoAgent

\* Every boot service call returns: a teardown that is refused at some level
\* reconnects and reports, it does not go round in circles.
CallsReturn == ~Quiet ~> Quiet

\* DT_DEVICE handles obey the rules of the UEFI driver model at every level of
\* the tree, whatever fails on the way: a bus stays managed as long as a child
\* that is on record is alive, and no handle goes before what is below it.
Tree == INSTANCE HandleTree
          WITH live <- dtDevs, managed <- {n \in Nodes : owner[n] # NoAgent}, orphans <- lost
ImplementsTree == Tree!Spec
=============================================================================
