----------------------------- MODULE VirtioFdt -----------------------------
(***************************************************************************)
(* The driver binding of VirtioFdtDxe: one child handle with a virtio      *)
(* transport per "virtio,mmio" node, created by the first Start.           *)
(***************************************************************************)
EXTENDS ChildBus

MmioPath == [node |-> FALSE, no |-> 0, uart |-> DefaultUart]

\* DriverSupported refuses a controller the driver has open already, also when
\* an earlier Start ended at the controller and made no child.
StartVirtio(path) == opened = {} /\ Connect(path)

\* DriverStart up to the child; reg may be missing or not be translatable.
OpenDtIo ==
  /\ pc = "start"
  /\ opened' = {"DtIo"}
  /\ \/ pc' = IF rem = End THEN "idle" ELSE "create"
     \/ rem # End /\ "device" \in Faults /\ pc' = "undo"
  /\ UNCHANGED <<coreVars, child, recorded, lost, cur, todo, whole, allStopped>>

\* ChildCreate: the device path, the record, and the virtio transport.
ChildInstall ==
  /\ pc = "create"
  /\ \/ \E h \in Handles : /\ Install(h, [path |-> MmioPath, virtio |-> FALSE])
                           /\ cur' = h /\ pc' = "record"
     \/ NoInstall(MmioPath) /\ pc' = "undo" /\ UNCHANGED <<child, cur>>
  /\ UNCHANGED <<coreVars, opened, recorded, lost, todo, whole, allStopped>>

ChildRecord ==
  /\ pc = "record"
  /\ \/ recorded' = recorded \cup {cur} /\ pc' = "virtio" /\ UNCHANGED child
     \/ "record" \in Faults /\ Uninstall(cur) /\ pc' = "undo" /\ UNCHANGED recorded
  /\ UNCHANGED <<coreVars, opened, lost, cur, todo, whole, allStopped>>

Leftover ==  \* mutant: the handle is not uninstalled
  recorded' = recorded \ {cur} /\ UNCHANGED child
TakeBack == recorded' = recorded \ {cur} /\ Uninstall(cur)

ChildProduce ==
  /\ pc = "virtio"
  /\ \/ child' = [child EXCEPT ![cur].virtio = TRUE] /\ pc' = "idle" /\ UNCHANGED recorded
     \/ "device" \in Faults /\ TakeBack /\ pc' = "undo"
  /\ UNCHANGED <<coreVars, opened, lost, cur, todo, whole, allStopped>>

\* The error path of DriverStart.
StartFails ==
  /\ pc = "undo"
  /\ opened' = {} /\ pc' = "idle"
  /\ UNCHANGED <<coreVars, child, recorded, lost, cur, todo, whole, allStopped>>

\* DriverStop with children gives up before the first when reg cannot be read.
StopRefused ==
  /\ pc = "stop" /\ todo # {} /\ allStopped
  /\ "device" \in Faults
  /\ todo' = {} /\ pc' = "idle"
  /\ UNCHANGED <<coreVars, opened, child, recorded, lost, cur, whole, allStopped>>

\* The loop over the children.  ChildDestroy first takes the transport, which a
\* driver may hold, or which an earlier failure could not put back.
ChildUnlink(h) ==
  /\ pc = "stop" /\ h \in todo
  /\ \/ /\ child[h].virtio
        /\ child' = [child EXCEPT ![h].virtio = FALSE]
        /\ recorded' = recorded \ {h} /\ cur' = h /\ pc' = "remove"
        /\ UNCHANGED <<todo, allStopped>>
     \/ /\ ~child[h].virtio \/ "busy" \in Faults
        /\ todo' = todo \ {h} /\ allStopped' = FALSE
        /\ UNCHANGED <<child, recorded, cur, pc>>
  /\ UNCHANGED <<coreVars, opened, lost, whole>>

\* The error path of ChildDestroy puts back the record and the transport.
NoReinstall == recorded' = recorded \cup {cur} /\ UNCHANGED <<child, lost>>  \* mutant
Recover ==
  \/ "reopen" \in Faults /\ lost' = lost \cup {cur} /\ UNCHANGED <<child, recorded>>
  \/ /\ recorded' = recorded \cup {cur}
     /\ \/ child' = [child EXCEPT ![cur].virtio = TRUE] /\ UNCHANGED lost
        \/ "reinstall" \in Faults /\ lost' = lost \cup {cur} /\ UNCHANGED child

ChildDestroy ==
  /\ pc = "remove"
  /\ \/ Uninstall(cur) /\ UNCHANGED <<recorded, lost, allStopped>>
     \/ "busy" \in Faults /\ Recover /\ allStopped' = FALSE
  /\ todo' = todo \ {cur} /\ pc' = "stop"
  /\ UNCHANGED <<coreVars, opened, cur, whole>>

ChildrenStopped ==
  /\ pc = "stop" /\ todo = {}
  /\ pc' = IF allStopped /\ whole THEN "close" ELSE "idle"
  /\ UNCHANGED <<coreVars, opened, child, recorded, lost, cur, todo, whole, allStopped>>

\* Any device path that names a virtio transport is taken for this one.
VirtioNext ==
  \/ \E path \in {All, End, MmioPath} : StartVirtio(path)
  \/ DisconnectSome
  \/ OpenDtIo \/ ChildInstall \/ ChildRecord \/ ChildProduce \/ StartFails
  \/ StopRefused
  \/ \E h \in Handles : ChildUnlink(h)
  \/ ChildDestroy \/ ChildrenStopped \/ Close
=============================================================================
