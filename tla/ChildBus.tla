------------------------------ MODULE ChildBus ------------------------------
(***************************************************************************)
(* What the drivers of this package that create child handles share with   *)
(* the UEFI core (external): one controller, what the driver has open on   *)
(* it, the child handles with their device paths and the records that tie  *)
(* them to the controller, and the calls of ConnectController and          *)
(* DisconnectController.  SerialBus and VirtioFdt are the two drivers.     *)
(*                                                                         *)
(* A call runs to its end before the next begins; pc is how far it got.    *)
(***************************************************************************)
EXTENDS Naturals, FiniteSets, FiniteSetsExt, Functions

CONSTANTS
  Controller,  \* the handle of the controller
  Controllers, \* the kinds of controllers: driver, I/O protocol, UARTs
  Handles,     \* handles the core can still make; when they run out it fails
  Uarts,       \* UART settings a device path may ask for
  DefaultUart, \* those of the PCDs
  Faults,      \* kinds of failure that may happen
  All, End,    \* no RemainingDevicePath; one that ends at the controller
  None         \* no handle, no PCI_DEVICE_INFO

FaultKinds == {"device", "record", "busy", "reopen", "reinstall"}
ASSUME HandlesAssumption == IsFiniteSet(Handles) /\ {Controller, None} \cap Handles = {}
ASSUME UartsAssumption == DefaultUart \in Uarts
ASSUME FaultsAssumption == Faults \subseteq FaultKinds
ASSUME ControllersAssumption ==
  Controllers \subseteq
    [driver : {"PciSioSerialDxe"}, io : {"Sio", "DtIo", "PciIo"}, uarts : Nat]
      \cup [driver : {"VirtioFdtDxe"}, io : {"DtIo"}, uarts : {0}]

VARIABLES
  controller, \* the controller of this system
  opened,     \* protocols the driver has open on it BY_DRIVER
  child,      \* the child handles: device path and private data of each
  recorded,   \* children for which the controller is open BY_CHILD_CONTROLLER
  lost,       \* children whose removal failed and could not be taken back
  pc, rem,    \* the call in progress and its RemainingDevicePath
  cur,        \* the child being created or removed
  todo,       \* instances still to be created, or children still to be stopped
  whole,      \* DisconnectController goes on to Stop (0)
  allStopped  \* AllChildrenStopped

coreVars == <<controller, rem>>
callVars == <<pc, cur, todo, whole, allStopped>>

DevicePaths == [node : BOOLEAN, no : Nat, uart : Uarts]
Present(path) == \E h \in DOMAIN child : child[h].path = path
Unused == Handles \ DOMAIN child

\* InstallMultipleProtocolInterfaces makes a handle, unless one with the same
\* device path exists.
Install(h, device) ==
  /\ h \in Unused /\ \A g \in Unused : h <= g
  /\ ~Present(device.path)
  /\ child' = [x \in DOMAIN child \cup {h} |-> IF x = h THEN device ELSE child[x]]
NoInstall(path) == Unused = {} \/ Present(path) \/ "device" \in Faults

Uninstall(h) == child' = Restrict(child, DOMAIN child \ {h})

\* ConnectController for a driver whose Supported accepts the controller.
Connect(path) ==
  /\ pc = "idle"
  /\ pc' = "start" /\ rem' = path
  /\ UNCHANGED <<controller, opened, child, recorded, lost, cur, todo, whole, allStopped>>

\* DisconnectController, for the controller or for one child only: Stop for the
\* children, then Stop (0) if none of the driver's children is left.
Disconnect(children) ==
  /\ pc = "idle" /\ opened # {}
  /\ pc' = IF children = {} THEN "close" ELSE "stop"
  /\ todo' = children /\ allStopped' = TRUE
  /\ whole' = (children = recorded)
  /\ UNCHANGED <<coreVars, opened, child, recorded, lost, cur>>
DisconnectSome == Disconnect(recorded) \/ \E h \in recorded : Disconnect({h})

\* Stop without children.
Close ==
  /\ pc = "close"
  /\ opened' = {} /\ pc' = "idle"
  /\ UNCHANGED <<coreVars, child, recorded, lost, cur, todo, whole, allStopped>>

CoreInit ==
  /\ controller \in Controllers
  /\ opened = {} /\ child = << >> /\ recorded = {} /\ lost = {}
  /\ pc = "idle" /\ rem = All /\ cur = None /\ todo = {}
  /\ whole = FALSE /\ allStopped = FALSE
=============================================================================
