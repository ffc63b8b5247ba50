----------------------------- MODULE ChildBuses -----------------------------
(***************************************************************************)
(* The two drivers that create child handles, each on its kinds of         *)
(* controllers, and what both owe the UEFI driver model.                   *)
(***************************************************************************)
EXTENDS SerialBus, VirtioFdt

vars == <<coreVars, opened, child, recorded, lost, callVars, serialVars>>

Init == CoreInit /\ SerialInit

Virtio == controller.driver = "VirtioFdtDxe"

Next ==
  \/ Virtio /\ VirtioNext /\ UNCHANGED serialVars
  \/ ~Virtio /\ SerialNext

Spec == Init /\ [][Next]_vars

Calls == {"idle", "start", "create", "record", "virtio", "undo", "stop", "remove", "close"}
Devices == [path : DevicePaths, info : Infos \cup {None}] \cup [path : DevicePaths, virtio : BOOLEAN]

\* The handles, the records about them and the calls are well typed; ChildCount
\* counts children, so that it never passes their number nor goes below zero.
TypeOK ==
  /\ controller \in Controllers
  /\ opened \subseteq {"DevicePath", controller.io}
  /\ DOMAIN child \subseteq Handles /\ \A h \in DOMAIN child : child[h] \in Devices
  /\ recorded \subseteq DOMAIN child /\ lost \subseteq DOMAIN child
  /\ pc \in Calls /\ rem \in {All, End} \cup DevicePaths
  /\ cur \in Handles \cup {None} /\ todo \subseteq Handles \cup (0..controller.uarts)
  /\ whole \in BOOLEAN /\ allStopped \in BOOLEAN
  /\ decoding \in BOOLEAN /\ PciDeviceInfo \in Infos \cup {None}
  /\ infos \in [Infos -> {None} \cup [count : 0..Cardinality(Handles), saved : BOOLEAN]]
  /\ SerialDevices \subseteq Handles /\ made \in BOOLEAN

\* Whatever failed on the way, after a call every child is on the record of its
\* controller and whole, so that a later DisconnectController can remove it.
\* Only an error path that fails itself (reopening the controller, installing
\* the transport again) leaves a child that is lost.
RecordsKept ==
  pc = "idle" => \A h \in DOMAIN child \ lost :
                   h \in recorded /\ (Virtio => child[h].virtio)

\* No UART gets a second child handle while the first can still be found,
\* however starts for all UARTs, for one and with other settings follow each
\* other.
NoTwins ==
  \A g, h \in DOMAIN child \ lost :
    child[g].path.no = child[h].path.no => g = h

\* The ASSERTs of SerialControllerDriverStart and Stop: the children on record
\* share one PCI_DEVICE_INFO, which is neither freed early nor left behind, and
\* decoding is enabled exactly while the PCI device has a child.
InfoExact ==
  controller.io = "PciIo" =>
    /\ \A g, h \in recorded : child[g].info = child[h].info
    /\ \A h \in DOMAIN child : infos[child[h].info] # None
    /\ pc = "idle" =>
         /\ \A i \in Infos : infos[i] # None =>
              /\ infos[i].count = Cardinality({h \in DOMAIN child : child[h].info = i})
              /\ infos[i].count # 0
         /\ decoding = (DOMAIN child # {})

\* The controller and its children are a tree in which handles appear and
\* disappear by the rules of the UEFI driver model: the driver lets go of the
\* controller only when no child is left on record.
Tree == INSTANCE HandleTree
          WITH Nodes <- Handles \cup {Controller}, Root <- Controller,
               Parent <- [h \in Handles |-> Controller],
               live <- DOMAIN child \cup {Controller},
               managed <- IF opened = {} THEN {} ELSE {Controller},
               orphans <- lost
ImplementsTree == Tree!Spec
=============================================================================
