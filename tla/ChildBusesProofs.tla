-------------------------- MODULE ChildBusesProofs --------------------------
(***************************************************************************)
(* Proofs about the two drivers that create child handles, for any number  *)
(* of handles and UARTs, every kind of controller and set of faults.       *)
(***************************************************************************)
EXTENDS ChildBuses, FiniteSetTheorems, TLAPS

-----------------------------------------------------------------------------
(* The inductive invariant                                                 *)

\* TypeOK without the types of the children.
Typed ==
  /\ controller \in Controllers
  /\ opened \subseteq {"DevicePath", controller.io}
  /\ DOMAIN child \subseteq Handles
  /\ recorded \subseteq DOMAIN child /\ lost \subseteq DOMAIN child
  /\ pc \in Calls /\ rem \in {All, End} \cup DevicePaths
  /\ cur \in Handles \cup {None} /\ todo \subseteq Handles \cup (0..controller.uarts)
  /\ whole \in BOOLEAN /\ allStopped \in BOOLEAN
InfosTyped ==
  /\ decoding \in BOOLEAN /\ PciDeviceInfo \in Infos \cup {None}
  /\ infos \in [Infos -> {None} \cup [count : 0..Cardinality(Handles), saved : BOOLEAN]]
  /\ SerialDevices \subseteq Handles /\ made \in BOOLEAN

\* The child in the hands of the call, for which there is no record.
Pending == IF pc \in {"record", "remove"} THEN {cur} ELSE {}
\* The child that was just installed.
Fresh   == IF pc = "record" THEN {cur} ELSE {}

\* A child is on record, in the hands of the call, or lost.
Kept ==
  /\ DOMAIN child \ lost \subseteq recorded \cup Pending
  /\ Pending \subseteq DOMAIN child \ (recorded \cup lost)

\* The driver has the controller open while there is something to do with it.
Held ==
  /\ pc \in {"create", "record", "virtio", "undo", "stop", "remove", "close"} => opened # {}
  /\ opened = {} => recorded = {}

\* A DisconnectController that went well so far still has every child to do.
Stopping ==
  /\ pc = "stop" => todo \subseteq recorded
  /\ pc = "remove" => cur \in todo /\ todo \ {cur} \subseteq recorded
  /\ pc \in {"stop", "remove"} /\ allStopped /\ whole => recorded \subseteq todo
  /\ pc = "close" => recorded = {}

\* VirtioFdtDxe: a child on record lacks the transport only while it is being
\* created, or for ever.
VirtioInv ==
  /\ \A h \in DOMAIN child : child[h] \in [path : {MmioPath}, virtio : BOOLEAN]
  /\ pc \in {"start", "create", "record", "undo"} => recorded = {}
  /\ pc = "virtio" => recorded = {cur} /\ cur \notin lost
  /\ pc \in {"record", "remove"} => ~child[cur].virtio
  /\ \A h \in recorded : /\ child[h].virtio => h \notin lost
                         /\ child[h].virtio \/ h \in lost \/ pc = "virtio"

OneChild == \A g, h \in DOMAIN child : g = h

\* PciSioSerialDxe: the paths of the children, and what is still to be created.
PathInv ==
  /\ \A h \in DOMAIN child : child[h] \in [path : DevicePaths, info : Infos \cup {None}]
  /\ pc \notin {"virtio", "undo"}
  /\ recorded \cap lost = {}
  /\ \A h \in DOMAIN child : child[h].path.node = Several /\ (~Several => child[h].path.no = 0)
  /\ pc \in {"create", "record"} =>
       /\ rem # End /\ todo \subseteq 0..controller.uarts
       /\ ~Several => todo \subseteq {0}
       /\ \A h \in DOMAIN child \ (lost \cup Fresh) : child[h].path.no \notin todo
  /\ pc = "record" => todo # {} /\ child[cur].path.no = Min(todo)
  /\ NoTwins

\* Whether the Start in progress made something, when no PCI_DEVICE_INFO counts.
StartInv ==
  pc \in {"create", "record"} =>
    /\ SerialDevices \subseteq recorded
    /\ PciDeviceInfo = None =>
         /\ todo \subseteq {0}
         /\ todo # {} \/ ~made => recorded = SerialDevices

\* The children that PCI_DEVICE_INFO i counts.
Owners(i) == {h \in DOMAIN child \ Fresh : child[h].info = i}

\* PCI_DEVICE_INFOs count their children.  One that found decoding enabled is
\* not the first: the child that is lost will keep the earlier one for ever.
InfoInv ==
  IF ~IsPci THEN PciDeviceInfo = None /\ \A h \in DOMAIN child : child[h].info = None
  ELSE /\ \A h \in DOMAIN child : child[h].info \in Infos /\ infos[child[h].info] # None
       /\ \A i \in Infos : infos[i] # None => /\ infos[i].count = Cardinality(Owners(i))
                                              /\ infos[i].count # 0 \/ i = PciDeviceInfo
       /\ \A g, h \in recorded : child[g].info = child[h].info
       /\ PciDeviceInfo # None => /\ infos[PciDeviceInfo] # None
                                  /\ \A h \in recorded \cup Pending : child[h].info = PciDeviceInfo
       /\ pc \in {"idle", "start", "close"} => PciDeviceInfo = None
       /\ pc \in {"record", "remove"} => PciDeviceInfo # None
       /\ pc = "create" /\ PciDeviceInfo = None => todo = {}
       /\ pc \in {"stop", "remove"} /\ ~allStopped
            => \E h \in DOMAIN child \ todo : child[h].info = PciDeviceInfo
       /\ decoding = (\E i \in Infos : infos[i] # None)
       /\ \A i \in Infos : infos[i] # None =>
            IF infos[i].saved THEN \E h \in lost : child[h].info # i
            ELSE \A j \in Infos \ {i} : infos[j] # None => \E h \in lost : child[h].info = i

SerialInv == PathInv /\ StartInv /\ InfoInv

CInv == Typed /\ InfosTyped /\ Kept /\ Held /\ Stopping /\ IF Virtio THEN VirtioInv /\ OneChild ELSE SerialInv

-----------------------------------------------------------------------------
(* Facts about the operators                                               *)

\* The next instance is one of those left.
LEMMA MinIsIn ==
  ASSUME NEW S \in SUBSET Nat, S # {}
  PROVE  Min(S) \in S
<1>1. PICK m \in S : TRUE
  OBVIOUS
<1>. DEFINE T == {0..x : x \in S \cap (0..m)}
<1>2. T \subseteq FiniteSubsetsOf(0..m) /\ 0..m \in T
  <2>1. \A x \in S \cap (0..m) : 0..x \subseteq 0..m
    OBVIOUS
  <2>2. IsFiniteSet(0..m)
    BY <1>1, FS_Interval
  <2>. QED  BY <1>1, <2>1, <2>2, FS_FiniteSubsetsOfFinite
<1>3. PICK U \in T : \A V \in T : ~(<<V, U>> \in StrictSubsetOrdering(0..m))
  <2>. HIDE DEF T
  <2>. QED  BY <1>2, FS_StrictSubsetOrderingWellFounded, WFMin, Zenon
<1>4. PICK x \in S \cap (0..m) : U = 0..x
  OBVIOUS
<1>5. ASSUME NEW y \in S, y < x PROVE FALSE
  <2>1. 0..y \in T /\ 0..y \subseteq 0..x /\ 0..y # 0..x
    <3>1. x \in 0..x /\ x \notin 0..y
      BY <1>4, <1>5
    <3>. QED  BY <1>4, <1>5, <3>1
  <2>2. 0..y \in SUBSET (0..m) /\ 0..x \in SUBSET (0..m)
    BY <1>4, <2>1
  <2>. QED  BY <1>3, <1>4, <2>1, <2>2 DEF StrictSubsetOrdering
<1>6. \A y \in S : x =< y
  BY <1>4, <1>5
<1>. QED  BY <1>6 DEF Min

\* Counts are numbers, and no PCI_DEVICE_INFO is None.
LEMMA Numbers ==
  /\ Cardinality(Handles) \in Nat
  /\ Infos \subseteq Nat /\ None \notin Infos
  /\ \A i \in Infos \cup {None} : i # None => i \in Infos
BY HandlesAssumption, NoneAssumption, FS_CardinalityType DEF Infos

LEMMA InstallEffect ==
  ASSUME NEW h, NEW device, Install(h, device)
  PROVE  /\ h \in Handles \ DOMAIN child /\ DOMAIN child' = DOMAIN child \cup {h}
         /\ \A x \in DOMAIN child : child'[x] = child[x]
         /\ child'[h] = device /\ \A g \in DOMAIN child : child[g].path # device.path
BY DEF Install, Unused, Present

LEMMA UninstallEffect ==
  ASSUME NEW h, Uninstall(h)
  PROVE  /\ DOMAIN child' = DOMAIN child \ {h}
         /\ \A x \in DOMAIN child' : child'[x] = child[x]
BY DEF Uninstall, Restrict

\* Sets of children, as those that a PCI_DEVICE_INFO counts, are finite.
LEMMA Counting ==
  \A S \in SUBSET Handles :
    /\ IsFiniteSet(S) /\ Cardinality(S) \in 0..Cardinality(Handles)
    /\ Cardinality(S) = 0 <=> S = {}
<1>. SUFFICES ASSUME NEW S \in SUBSET Handles
              PROVE  /\ IsFiniteSet(S) /\ Cardinality(S) \in 0..Cardinality(Handles)
                     /\ Cardinality(S) = 0 <=> S = {}
  OBVIOUS
<1>. QED
  BY HandlesAssumption, FS_Subset, FS_CardinalityType, FS_EmptySet

LEMMA OwnersFinite ==
  ASSUME Typed, NEW i
  PROVE  /\ IsFiniteSet(Owners(i)) /\ Cardinality(Owners(i)) \in 0..Cardinality(Handles)
         /\ Cardinality(Owners(i)) = 0 <=> Owners(i) = {}
<1>1. Owners(i) \in SUBSET Handles
  BY DEF Owners, Typed
<1>. QED  BY <1>1, Counting

-----------------------------------------------------------------------------
(* VirtioFdtDxe                                                            *)

LEMMA VirtioSteps ==
  ASSUME CInv, Virtio, VirtioNext, UNCHANGED serialVars
  PROVE  CInv'
<1>0. Typed /\ InfosTyped /\ Kept /\ Held /\ Stopping /\ VirtioInv
  BY DEF CInv
<1>1. controller' = controller /\ UNCHANGED serialVars
  BY DEF VirtioNext, StartVirtio, Connect, DisconnectSome, Disconnect, OpenDtIo, ChildInstall,
         ChildRecord, ChildProduce, StartFails, StopRefused, ChildUnlink, ChildDestroy,
         ChildrenStopped, Close, coreVars
<1>2. InfosTyped' /\ Virtio'
  BY <1>0, <1>1 DEF InfosTyped, Virtio, serialVars, pciVars, startVars
<1>3. MmioPath \in DevicePaths /\ controller.io = "DtIo"
  BY <1>0, UartsAssumption, ControllersAssumption DEF MmioPath, DevicePaths, Virtio, Typed
<1>one. OneChild'
  <2>1. CASE DOMAIN child' \subseteq DOMAIN child
    BY <2>1 DEF CInv, OneChild
  <2>2. ASSUME NEW h, Install(h, [path |-> MmioPath, virtio |-> FALSE]) PROVE OneChild'
    <3>. DEFINE device == [path |-> MmioPath, virtio |-> FALSE]
    <3>0. device.path = MmioPath
      OBVIOUS
    <3>a. Install(h, device)
      BY <2>2
    <3>. HIDE DEF device
    <3>1. /\ DOMAIN child' = DOMAIN child \cup {h}
          /\ \A g \in DOMAIN child : child[g].path # MmioPath
      BY ONLY <3>0, <3>a, InstallEffect
    <3>2. DOMAIN child = {}
      BY <1>0, <3>1 DEF VirtioInv
    <3>. QED  BY <3>1, <3>2 DEF OneChild
  <2>. QED  BY <2>1, <2>2, UninstallEffect
            DEF VirtioNext, StartVirtio, Connect, DisconnectSome, Disconnect, OpenDtIo,
                ChildInstall, ChildRecord, ChildProduce, TakeBack, StartFails, StopRefused,
                ChildUnlink, ChildDestroy, Recover, ChildrenStopped, Close
<1>. SUFFICES Typed' /\ Kept' /\ Held' /\ Stopping' /\ VirtioInv'
  BY <1>2, <1>one DEF CInv
<1>. USE <1>0, <1>1 DEF Typed, Calls, coreVars, Kept, Held, Stopping, VirtioInv, Pending
<1>4. CASE \E path \in {All, End, MmioPath} : StartVirtio(path)
  BY <1>3, <1>4 DEF StartVirtio, Connect
<1>5. CASE DisconnectSome
  BY ZenonT(60), <1>5 DEF DisconnectSome, Disconnect
<1>6. CASE OpenDtIo
  BY <1>3, <1>6 DEF OpenDtIo
<1>7. CASE ChildInstall
  <2>1. CASE NoInstall(MmioPath) /\ pc' = "undo" /\ UNCHANGED <<child, cur>>
    BY <1>7, <2>1 DEF ChildInstall
  <2>2. ASSUME NEW h \in Handles, Install(h, [path |-> MmioPath, virtio |-> FALSE]),
               cur' = h, pc' = "record"
        PROVE  Typed' /\ Kept' /\ Held' /\ Stopping' /\ VirtioInv'
    <3>1. /\ h \notin DOMAIN child /\ DOMAIN child' = DOMAIN child \cup {h}
          /\ \A x \in DOMAIN child : child'[x] = child[x]
          /\ child'[h] = [path |-> MmioPath, virtio |-> FALSE]
      BY <2>2, InstallEffect
    <3>2. pc = "create" /\ UNCHANGED <<rem, opened, recorded, lost, todo, whole, allStopped>>
      BY <1>7 DEF ChildInstall
    <3>3. Typed' /\ Held' /\ Stopping'
      BY <2>2, <3>1, <3>2
    <3>4. Kept'
      BY <2>2, <3>1, <3>2
    <3>5. \A x \in DOMAIN child' : child'[x] \in [path : {MmioPath}, virtio : BOOLEAN]
      <4>1. [path |-> MmioPath, virtio |-> FALSE] \in [path : {MmioPath}, virtio : BOOLEAN]
        OBVIOUS
      <4>2. \A x \in DOMAIN child : child'[x] \in [path : {MmioPath}, virtio : BOOLEAN]
        BY <3>1
      <4>. QED  BY <3>1, <4>1, <4>2
    <3>6. VirtioInv'
      BY <2>2, <3>1, <3>2, <3>5
    <3>. QED  BY <3>3, <3>4, <3>6
  <2>. QED  BY <1>7, <2>1, <2>2 DEF ChildInstall
<1>8. CASE ChildRecord
  <2>1. CASE recorded' = recorded \cup {cur} /\ pc' = "virtio" /\ UNCHANGED child
    <3>1. Typed' /\ Held' /\ Stopping' /\ Kept'
      BY <1>8, <2>1 DEF ChildRecord
    <3>2. recorded' = {cur} /\ cur \notin lost /\ UNCHANGED <<lost, cur>>
      BY <1>8, <2>1 DEF ChildRecord
    <3>3. VirtioInv'
      BY <2>1, <3>2
    <3>. QED  BY <3>1, <3>3
  <2>2. CASE Uninstall(cur) /\ pc' = "undo" /\ UNCHANGED recorded
    <3>1. DOMAIN child' = DOMAIN child \ {cur} /\ \A x \in DOMAIN child' : child'[x] = child[x]
      BY <2>2, UninstallEffect
    <3>. QED  BY <1>8, <2>2, <3>1 DEF ChildRecord
  <2>. QED  BY <1>8, <2>1, <2>2 DEF ChildRecord
<1>9. CASE ChildProduce
  <2>1. CASE TakeBack /\ pc' = "undo"
    BY <1>9, <2>1, UninstallEffect DEF ChildProduce, TakeBack
  <2>2. CASE child' = [child EXCEPT ![cur].virtio = TRUE] /\ pc' = "idle" /\ UNCHANGED recorded
    <3>1. pc = "virtio" /\ UNCHANGED <<rem, opened, lost, cur, todo, whole, allStopped>>
      BY <1>9, <2>2 DEF ChildProduce
    <3>2. Typed' /\ Held' /\ Stopping' /\ Kept'
      BY <2>2, <3>1
    <3>3. VirtioInv'
      BY <2>2, <3>1, ZenonT(60)
    <3>. QED  BY <3>2, <3>3
  <2>. QED  BY <1>9, <2>1, <2>2 DEF ChildProduce
<1>10. CASE StartFails \/ ChildrenStopped \/ Close
  BY <1>10 DEF StartFails, ChildrenStopped, Close
<1>11. CASE StopRefused
  BY <1>11 DEF StopRefused
<1>12. ASSUME NEW h \in Handles, ChildUnlink(h)
       PROVE  Typed' /\ Kept' /\ Held' /\ Stopping' /\ VirtioInv'
  <2>1. pc = "stop" /\ h \in todo /\ UNCHANGED <<rem, opened, lost, whole>>
    BY <1>12 DEF ChildUnlink
  <2>2. CASE /\ child[h].virtio
             /\ child' = [child EXCEPT ![h].virtio = FALSE]
             /\ recorded' = recorded \ {h} /\ cur' = h /\ pc' = "remove"
             /\ UNCHANGED <<todo, allStopped>>
    <3>1. Typed' /\ Held' /\ Stopping'
      BY <2>1, <2>2
    <3>2. Kept'
      BY <2>1, <2>2
    <3>3. VirtioInv'
      BY ZenonT(60), <2>1, <2>2
    <3>. QED  BY <3>1, <3>2, <3>3
  <2>3. CASE todo' = todo \ {h} /\ allStopped' = FALSE /\ UNCHANGED <<child, recorded, cur, pc>>
    BY <2>1, <2>3
  <2>. QED  BY <1>12, <2>2, <2>3 DEF ChildUnlink
<1>13. CASE ChildDestroy
  <2>0. /\ pc = "remove" /\ todo' = todo \ {cur} /\ pc' = "stop"
        /\ UNCHANGED <<rem, opened, cur, whole>>
    BY <1>13 DEF ChildDestroy
  <2>1. CASE Uninstall(cur) /\ UNCHANGED <<recorded, lost, allStopped>>
    <3>1. DOMAIN child' = DOMAIN child \ {cur} /\ \A x \in DOMAIN child' : child'[x] = child[x]
      BY <2>1, UninstallEffect
    <3>2. Typed' /\ Kept' /\ Held' /\ VirtioInv'
      BY <2>0, <2>1, <3>1
    <3>3. Stopping'
      BY <2>0, <2>1
    <3>. QED  BY <3>2, <3>3
  <2>2. CASE Recover /\ allStopped' = FALSE
    <3>1. CASE lost' = lost \cup {cur} /\ UNCHANGED <<child, recorded>>
      BY <2>0, <2>2, <3>1
    <3>2. CASE /\ recorded' = recorded \cup {cur}
               /\ child' = [child EXCEPT ![cur].virtio = TRUE] /\ UNCHANGED lost
      <4>1. Typed' /\ Kept' /\ Held' /\ Stopping'
        BY ZenonT(60), <2>0, <2>2, <3>2
      <4>2. VirtioInv'
        BY <2>0, <2>2, <3>2, ZenonT(60)
      <4>. QED  BY <4>1, <4>2
    <3>3. CASE recorded' = recorded \cup {cur} /\ lost' = lost \cup {cur} /\ UNCHANGED child
      BY <2>0, <2>2, <3>3
    <3>. QED  BY <2>2, <3>1, <3>2, <3>3 DEF Recover
  <2>. QED  BY <1>13, <2>1, <2>2 DEF ChildDestroy
<1>. QED  BY <1>4, <1>5, <1>6, <1>7, <1>8, <1>9, <1>10, <1>11, <1>12, <1>13 DEF VirtioNext

-----------------------------------------------------------------------------
(* PciSioSerialDxe                                                         *)

\* Calls begin and end; nothing is created or removed.
LEMMA SerialCalls ==
  ASSUME CInv, ~Virtio, UNCHANGED serialVars,
         \/ \E path \in {All, End} \cup Remaining : StartSerial(path)
         \/ DisconnectSome \/ StartDone \/ Close
  PROVE  CInv'
<1>0. Typed /\ InfosTyped /\ Kept /\ Held /\ Stopping /\ PathInv /\ StartInv /\ InfoInv
  BY DEF CInv, SerialInv
<1>1. /\ controller' = controller /\ UNCHANGED <<child, recorded, lost>>
      /\ UNCHANGED <<decoding, infos, PciDeviceInfo, SerialDevices, made>>
      /\ pc \in {"idle", "start", "close"} /\ pc' \in {"idle", "start", "stop", "close"}
  BY DEF StartSerial, Connect, DisconnectSome, Disconnect, StartDone, Close, coreVars,
         serialVars, pciVars, startVars
<1>2. controller.uarts \in Nat /\ controller.io \in {"Sio", "DtIo", "PciIo"}
  BY <1>0, ControllersAssumption DEF Typed, Virtio
<1>3. Remaining \subseteq DevicePaths
  BY <1>2 DEF Remaining, DevicePaths
<1>4. Typed' /\ Kept' /\ Held' /\ Stopping'
  <2>. USE <1>0, <1>1 DEF Typed, Calls, Kept, Held, Stopping, Pending
  <2>1. CASE \E path \in {All, End} \cup Remaining : StartSerial(path)
    BY <1>3, <2>1 DEF StartSerial, Connect
  <2>2. CASE DisconnectSome
    BY <2>2 DEF DisconnectSome, Disconnect, coreVars
  <2>3. CASE StartDone
    BY <2>3 DEF StartDone, Opened, coreVars
  <2>4. CASE Close
    BY <2>4 DEF Close, coreVars
  <2>. QED  BY <2>1, <2>2, <2>3, <2>4
<1>5. PathInv' /\ StartInv'
  BY <1>0, <1>1 DEF PathInv, StartInv, NoTwins, Several, IsPci, Fresh
<1>6. pc' = "stop" => allStopped'
  BY <1>1 DEF StartSerial, Connect, DisconnectSome, Disconnect, StartDone, Close
<1>7. InfoInv'
  <2>1. \A i : Owners(i)' = Owners(i)
    BY <1>1 DEF Owners, Fresh
  <2>. QED  BY <1>0, <1>1, <1>6, <2>1, ZenonT(60) DEF InfoInv, IsPci, Pending
<1>8. InfosTyped' /\ ~Virtio'
  BY <1>0, <1>1 DEF InfosTyped, Virtio
<1>. QED  BY <1>4, <1>5, <1>7, <1>8 DEF CInv, SerialInv

\* A child is given new settings.
LEMMA SerialUpdate ==
  ASSUME CInv, ~Virtio, NEW h \in Handles, Update(h)
  PROVE  CInv'
<1>0. Typed /\ InfosTyped /\ Kept /\ Held /\ Stopping /\ PathInv /\ StartInv /\ InfoInv
  BY DEF CInv, SerialInv
<1>1. /\ controller' = controller /\ UNCHANGED <<rem, recorded, lost, cur, todo, whole, allStopped>>
      /\ UNCHANGED <<decoding, infos, PciDeviceInfo, SerialDevices, made>>
      /\ pc = "start" /\ pc' = "idle" /\ opened' = {"DevicePath", controller.io}
      /\ h \in DOMAIN child /\ rem \in DevicePaths
  BY <1>0 DEF Update, Opened, coreVars, serialVars, pciVars, startVars, Typed
<1>2. /\ DOMAIN child' = DOMAIN child
      /\ \A x \in DOMAIN child : /\ child'[x] \in [path : DevicePaths, info : Infos \cup {None}]
                                 /\ child'[x].path.node = child[x].path.node
                                 /\ child'[x].path.no = child[x].path.no
                                 /\ child'[x].info = child[x].info
  BY <1>0, <1>1 DEF Update, PathInv, DevicePaths
<1>3. Typed' /\ InfosTyped' /\ Kept' /\ Held' /\ Stopping'
  BY <1>0, <1>1, <1>2 DEF Typed, InfosTyped, Calls, Kept, Held, Stopping, Pending
<1>4. PathInv' /\ StartInv'
  BY <1>0, <1>1, <1>2 DEF PathInv, StartInv, NoTwins, Several, IsPci, Fresh, Typed
<1>5. InfoInv'
  <2>1. \A i : Owners(i)' = Owners(i)
    BY <1>1, <1>2 DEF Owners, Fresh
  <2>2. recorded \subseteq DOMAIN child /\ lost \subseteq DOMAIN child
    BY <1>0 DEF Typed
  <2>3. \A x \in DOMAIN child : child'[x].info = child[x].info
    BY <1>2
  <2>4. /\ Pending = {} /\ Pending' = {}
        /\ pc' = "idle" /\ PciDeviceInfo' = PciDeviceInfo /\ (IsPci => PciDeviceInfo = None)
    BY <1>0, <1>1 DEF Pending, InfoInv
  <2>5. CASE ~IsPci
    BY <1>0, <1>1, <1>2, <2>5 DEF InfoInv, IsPci
  <2>6. CASE IsPci
    <3>1. \A i \in Infos : infos[i] # None =>
            IF infos[i].saved THEN \E g \in lost : child'[g].info # i
            ELSE \A j \in Infos \ {i} : infos[j] # None => \E g \in lost : child'[g].info = i
      BY <1>0, <2>2, <2>3, <2>6 DEF InfoInv
    <3>2. /\ \A g \in DOMAIN child' : child'[g].info \in Infos /\ infos[child'[g].info] # None
          /\ \A f, g \in recorded' : child'[f].info = child'[g].info
      BY <1>0, <1>1, <1>2, <2>2, <2>3, <2>6 DEF InfoInv
    <3>. QED  BY <1>0, <1>1, <2>1, <2>4, <2>6, <3>1, <3>2, ZenonT(60) DEF InfoInv, IsPci
  <2>. QED  BY <2>5, <2>6
<1>. QED  BY <1>1, <1>3, <1>4, <1>5 DEF CInv, SerialInv, Virtio

\* What a Start for some UARTs begins with.
LEMMA SerialBegin ==
  ASSUME CInv, ~Virtio, BeginCreate
  PROVE  CInv'
<1>0. Typed /\ InfosTyped /\ Kept /\ Held /\ Stopping /\ PathInv /\ StartInv /\ InfoInv
  BY DEF CInv, SerialInv
<1>1. /\ controller' = controller /\ UNCHANGED <<child, rem, recorded, lost, cur, whole, allStopped>>
      /\ pc = "start" /\ pc' = "create" /\ rem # End
      /\ opened' = {"DevicePath", controller.io} /\ opened' # {}
      /\ IF rem = All THEN recorded = {} ELSE ~\E h \in recorded : Asked(h)
      /\ SerialDevices' = recorded /\ made' = FALSE
  BY DEF BeginCreate, Opened, coreVars
<1>2. controller.uarts \in Nat /\ controller.io \in {"Sio", "DtIo", "PciIo"}
  BY <1>0, ControllersAssumption DEF Typed, Virtio
<1>3. /\ todo' = Instances \/ todo' = {}
      /\ Instances \subseteq 0..controller.uarts
      /\ ~Several => Instances \subseteq {0}
  BY <1>2 DEF BeginCreate, Instances, Several, IsPci
<1>4. \/ UNCHANGED pciVars /\ (IsPci => todo' = {})
      \/ IsPci /\ recorded = {} /\ Allocate
      \/ IsPci /\ recorded # {} /\ Reuse
  BY DEF BeginCreate
<1>5. Pending = {} /\ Pending' = {} /\ Fresh = {} /\ Fresh' = {} /\ (IsPci' <=> IsPci)
      /\ (Several' <=> Several) /\ ~Virtio'
  BY <1>1 DEF Pending, Fresh, IsPci, Several, Virtio
<1>6. Typed' /\ Kept' /\ Held' /\ Stopping'
  BY <1>0, <1>1, <1>3, <1>5 DEF Typed, Calls, Kept, Held, Stopping
<1>7. PathInv'
  <2>1. ASSUME NEW h \in DOMAIN child \ lost PROVE child[h].path.no \notin todo'
    <3>1. h \in recorded
      BY <1>0, <1>5 DEF Kept
    <3>2. rem # All /\ ~Asked(h)
      BY <1>1, <3>1
    <3>3. (child[h].path.node <=> Several) /\ rem.node \in BOOLEAN /\ child[h].path.node \in BOOLEAN
      BY <1>0, <1>1, <3>2 DEF PathInv, Typed, DevicePaths
    <3>4. Several /\ rem.node => child[h].path.no # rem.no
      BY <3>2, <3>3 DEF Asked
    <3>5. ~Several => rem.node
      BY <3>2, <3>3 DEF Asked
    <3>6. child[h].path.no \notin Instances
      BY <3>2, <3>4, <3>5 DEF Instances
    <3>. QED  BY <1>3, <3>6
  <2>2. rem' # End /\ todo' \subseteq 0..controller'.uarts /\ (~Several' => todo' \subseteq {0})
    BY <1>1, <1>3, <1>5
  <2>3. /\ \A h \in DOMAIN child' \ (lost' \cup Fresh') : child'[h].path.no \notin todo'
        /\ pc' \notin {"record", "virtio", "undo"} /\ recorded' \cap lost' = {} /\ NoTwins'
    BY <1>0, <1>1, <1>5, <2>1 DEF PathInv, NoTwins
  <2>4. \A h \in DOMAIN child' :
          /\ child'[h] \in [path : DevicePaths, info : Infos \cup {None}]
          /\ child'[h].path.node = Several' /\ (~Several' => child'[h].path.no = 0)
    <3>1. Several' = Several
      BY <1>1 DEF Several, IsPci
    <3>. QED  BY <1>0, <1>1, <3>1 DEF PathInv
  <2>. QED  BY <2>2, <2>3, <2>4 DEF PathInv
<1>8. \A i : Owners(i)' = Owners(i)
  BY <1>1, <1>5 DEF Owners
<1>9. CASE UNCHANGED pciVars /\ (IsPci => todo' = {})
  <2>1. InfosTyped'
    BY <1>0, <1>1, <1>9 DEF InfosTyped, Typed, pciVars
  <2>2. StartInv'
    BY <1>1, <1>3, <1>9 DEF StartInv, Several
  <2>3. InfoInv'
    BY ZenonT(60), <1>0, <1>1, <1>5, <1>8, <1>9 DEF InfoInv, pciVars
  <2>. QED  BY <1>5, <1>6, <1>7, <2>1, <2>2, <2>3 DEF CInv, SerialInv
<1>10. CASE IsPci /\ recorded = {} /\ Allocate
  <2>1. PICK i \in Infos : /\ infos[i] = None /\ PciDeviceInfo' = i /\ decoding' = TRUE
                           /\ infos' = [infos EXCEPT ![i] = [count |-> 0, saved |-> decoding]]
    BY <1>10 DEF Allocate
  <2>2. /\ infos'[i] = [count |-> 0, saved |-> decoding] /\ infos'[i] # None
        /\ \A j \in Infos \ {i} : infos'[j] = infos[j]
        /\ infos'[i] \in [count : 0..Cardinality(Handles), saved : BOOLEAN]
    <3>1. [count |-> 0, saved |-> decoding] \in [count : 0..Cardinality(Handles), saved : BOOLEAN]
      BY <1>0, Numbers DEF InfosTyped
    <3>2. [count |-> 0, saved |-> decoding] \in [count : Nat, saved : BOOLEAN]
      BY <1>0 DEF InfosTyped
    <3>. QED  BY <1>0, <2>1, <3>1, <3>2, NoneAssumption DEF InfosTyped
  <2>3. i # None /\ InfosTyped'
    BY <1>0, <1>1, <2>1, <2>2, Numbers DEF InfosTyped, Typed
  <2>4. StartInv'
    BY <1>1, <2>1, <2>3 DEF StartInv
  <2>5. Owners(i) = {} /\ Cardinality(Owners(i)) = 0
    BY <1>0, <1>10, <2>1, OwnersFinite, ZenonT(60) DEF InfoInv, Owners
  <2>6. DOMAIN child \subseteq lost /\ PciDeviceInfo = None
    BY <1>0, <1>1, <1>5, <1>10 DEF Kept, InfoInv
  <2>7. ASSUME NEW j \in Infos \ {i}, infos[j] # None PROVE \E h \in lost : child[h].info = j
    <3>1. infos[j].count # 0 /\ infos[j].count = Cardinality(Owners(j))
      BY <1>0, <1>10, <2>6, <2>7, Numbers DEF InfoInv
    <3>2. Owners(j) # {}
      BY <1>0, <3>1, OwnersFinite
    <3>. QED  BY <2>6, <3>2 DEF Owners
  <2>8. \A h \in DOMAIN child : child[h].info # i
    BY <1>0, <1>10, <2>1 DEF InfoInv
  <2>9. decoding => \E h \in lost : child[h].info # i
    BY <1>0, <1>10, <2>1, <2>7 DEF InfoInv
  <2>10. ~decoding => \A j \in Infos \ {i} : infos[j] = None
    BY <1>0, <1>10, <2>1 DEF InfoInv
  <2>11. /\ \A h \in DOMAIN child : child[h].info \in Infos /\ infos'[child[h].info] # None
         /\ \A j \in Infos : infos'[j] # None => /\ infos'[j].count = Cardinality(Owners(j))
                                                 /\ infos'[j].count # 0 \/ j = i
    <3>1. \A h \in DOMAIN child : child[h].info \in Infos \ {i} /\ infos[child[h].info] # None
      BY <1>0, <1>10, <2>8 DEF InfoInv
    <3>2. \A j \in Infos \ {i} : infos[j] # None => /\ infos[j].count = Cardinality(Owners(j))
                                                    /\ infos[j].count # 0
      BY <1>0, <1>10, <2>6, Numbers DEF InfoInv
    <3>. QED  BY <2>2, <2>5, <3>1, <3>2
  <2>12. \A j \in Infos : infos'[j] # None =>
            IF infos'[j].saved THEN \E h \in lost : child[h].info # j
            ELSE \A k \in Infos \ {j} : infos'[k] # None => \E h \in lost : child[h].info = j
    BY <1>0, <1>10, <2>2, <2>7, <2>9, <2>10 DEF InfoInv
  <2>13. InfoInv'
    BY <1>1, <1>5, <1>8, <1>10, <2>1, <2>2, <2>3, <2>11, <2>12 DEF InfoInv
  <2>. QED  BY <1>5, <1>6, <1>7, <2>3, <2>4, <2>13 DEF CInv, SerialInv
<1>11. CASE IsPci /\ recorded # {} /\ Reuse
  <2>1. PICK h \in recorded : PciDeviceInfo' = child[h].info
    BY <1>11 DEF Reuse
  <2>2. UNCHANGED <<decoding, infos>> /\ h \in DOMAIN child
    BY <1>0, <1>11 DEF Reuse, Typed
  <2>3. child[h].info \in Infos /\ child[h].info # None /\ infos[child[h].info] # None
    BY <1>0, <1>11, <2>2, Numbers DEF InfoInv
  <2>4. InfosTyped' /\ StartInv'
    BY <1>0, <1>1, <2>1, <2>2, <2>3 DEF InfosTyped, StartInv, Typed
  <2>5. PciDeviceInfo = None
    BY <1>0, <1>1, <1>11 DEF InfoInv
  <2>6. InfoInv'
    BY ZenonT(60), <1>0, <1>1, <1>5, <1>8, <1>11, <2>1, <2>2, <2>3, <2>5, Numbers DEF InfoInv
  <2>. QED  BY <1>5, <1>6, <1>7, <2>4, <2>6 DEF CInv, SerialInv
<1>. QED  BY <1>4, <1>9, <1>10, <1>11

\* The next instance gets its handle, or does not work.
LEMMA SerialCreate ==
  ASSUME CInv, ~Virtio, CreateSerialDevice
  PROVE  CInv'
<1>0. Typed /\ InfosTyped /\ Kept /\ Held /\ Stopping /\ PathInv /\ StartInv /\ InfoInv
  BY DEF CInv, SerialInv
<1>. DEFINE n == Min(todo)
<1>1. /\ controller' = controller /\ UNCHANGED <<opened, rem, recorded, lost, whole, allStopped>>
      /\ UNCHANGED <<decoding, infos, PciDeviceInfo, SerialDevices>>
      /\ pc = "create" /\ todo # {}
  BY DEF CreateSerialDevice, coreVars, pciVars
<1>2. controller.uarts \in Nat /\ controller.io \in {"Sio", "DtIo", "PciIo"}
  BY <1>0, ControllersAssumption DEF Typed, Virtio
<1>3. /\ todo \subseteq 0..controller.uarts /\ rem # End /\ (~Several => todo \subseteq {0})
      /\ \A h \in DOMAIN child \ lost : child[h].path.no \notin todo
  BY <1>0, <1>1 DEF PathInv, Fresh
<1>4. n \in todo /\ n \in Nat
  <2>1. todo \in SUBSET Nat
    BY <1>2, <1>3
  <2>. QED  BY <1>1, <2>1, MinIsIn
<1>5. Several' = Several /\ IsPci' = IsPci /\ ~Virtio'
  BY <1>1 DEF Several, IsPci, Virtio
<1>6. Pending = {} /\ Fresh = {}
  BY <1>1 DEF Pending, Fresh
<1>. HIDE DEF n
<1>7. CASE todo' = todo \ {n} /\ made' = FALSE /\ UNCHANGED <<child, cur, pc>>
  <2>1. Typed' /\ InfosTyped' /\ Kept' /\ Held' /\ Stopping'
    BY <1>0, <1>1, <1>7 DEF Typed, InfosTyped, Kept, Held, Stopping, Pending
  <2>2. PathInv' /\ StartInv'
    BY <1>0, <1>1, <1>3, <1>5, <1>7 DEF PathInv, StartInv, NoTwins, Fresh
  <2>3. \A i : Owners(i)' = Owners(i)
    BY <1>1, <1>7 DEF Owners, Fresh
  <2>4. InfoInv'
    BY ZenonT(60), <1>0, <1>1, <1>5, <1>7, <2>3 DEF InfoInv, Pending
  <2>. QED  BY <1>5, <2>1, <2>2, <2>4 DEF CInv, SerialInv
<1>8. ASSUME NEW h \in Handles, Install(h, [path |-> NewPath(n), info |-> PciDeviceInfo]),
             cur' = h, pc' = "record", UNCHANGED <<todo, made>>
      PROVE  CInv'
  <2>1. /\ h \notin DOMAIN child /\ DOMAIN child' = DOMAIN child \cup {h}
        /\ \A x \in DOMAIN child : child'[x] = child[x]
        /\ child'[h] = [path |-> NewPath(n), info |-> PciDeviceInfo]
    BY <1>8, InstallEffect
  <2>2. /\ NewPath(n) \in DevicePaths /\ NewPath(n).no = n /\ NewPath(n).node = Several
        /\ ~Several => n = 0
    <3>1. rem # All => rem.uart \in Uarts
      BY <1>0, <1>3 DEF Typed, DevicePaths
    <3>2. Several \in BOOLEAN
      BY DEF Several, IsPci
    <3>. QED  BY <1>3, <1>4, <3>1, <3>2, UartsAssumption DEF NewPath, DevicePaths
  <2>3. Pending' = {h} /\ Fresh' = {h}
    BY <1>8 DEF Pending, Fresh
  <2>4. /\ recorded \subseteq DOMAIN child /\ lost \subseteq DOMAIN child
        /\ DOMAIN child \ lost \subseteq recorded
    BY <1>0, <1>6 DEF Typed, Kept
  <2>5. Typed' /\ InfosTyped' /\ Kept' /\ Held' /\ Stopping'
    BY <1>0, <1>1, <1>8, <2>1, <2>3, <2>4 DEF Typed, Calls, InfosTyped, Kept, Held, Stopping
  <2>6. PathInv'
    <3>1. ASSUME NEW x \in DOMAIN child'
          PROVE  /\ child'[x] \in [path : DevicePaths, info : Infos \cup {None}]
                 /\ child'[x].path.node = Several /\ (~Several => child'[x].path.no = 0)
      <4>1. CASE x = h
        <5>1. PciDeviceInfo \in Infos \cup {None}
          BY <1>0 DEF InfosTyped
        <5>. QED  BY <2>1, <2>2, <4>1, <5>1
      <4>2. CASE x # h
        BY <1>0, <2>1, <4>2 DEF PathInv
      <4>. QED  BY <4>1, <4>2
    <3>2. \A x \in DOMAIN child' \ (lost \cup {h}) : child'[x].path.no \notin todo
      BY <1>3, <2>1
    <3>3. child'[h].path.no = n
      BY <2>1, <2>2
    <3>4. NoTwins'
      BY <1>0, <1>1, <1>4, <2>1, <3>2, <3>3 DEF PathInv, NoTwins
    <3>5. recorded \cap lost = {}
      BY <1>0 DEF PathInv
    <3>. QED  BY <1>1, <1>3, <1>5, <1>8, <2>3, <3>1, <3>2, <3>3, <3>4, <3>5 DEF PathInv, n
  <2>7. StartInv'
    BY <1>0, <1>1, <1>8 DEF StartInv
  <2>8. \A i : Owners(i)' = Owners(i)
    BY <1>6, <2>1, <2>3 DEF Owners
  <2>9. InfoInv'
    <3>1. CASE ~IsPci
      BY <1>0, <1>1, <1>5, <2>1, <3>1 DEF InfoInv
    <3>2. CASE IsPci
      <4>1. PciDeviceInfo # None /\ PciDeviceInfo \in Infos /\ infos[PciDeviceInfo] # None
        BY <1>0, <1>1, <3>2 DEF InfoInv, InfosTyped
      <4>2. child'[h].info = PciDeviceInfo
        BY <2>1
      <4>3. \A x \in lost \cup recorded : child'[x] = child[x]
        BY <2>1, <2>4
      <4>4. \A i \in Infos : infos[i] # None =>
              IF infos[i].saved THEN \E g \in lost : child'[g].info # i
              ELSE \A j \in Infos \ {i} : infos[j] # None => \E g \in lost : child'[g].info = i
        BY <1>0, <3>2, <4>3 DEF InfoInv
      <4>5. \A x \in DOMAIN child' : child'[x].info \in Infos /\ infos[child'[x].info] # None
        BY <1>0, <2>1, <3>2, <4>1, <4>2 DEF InfoInv
      <4>6. /\ \A f, g \in recorded : child'[f].info = child'[g].info
            /\ \A x \in recorded \cup {h} : child'[x].info = PciDeviceInfo
        BY <1>0, <3>2, <4>1, <4>2, <4>3 DEF InfoInv
      <4>7. /\ \A i \in Infos : infos[i] # None => /\ infos[i].count = Cardinality(Owners(i)')
                                                   /\ infos[i].count # 0 \/ i = PciDeviceInfo
            /\ decoding = (\E i \in Infos : infos[i] # None)
        BY <1>0, <2>8, <3>2 DEF InfoInv
      <4>. QED  BY <1>1, <1>5, <1>8, <2>3, <3>2, <4>1, <4>4, <4>5, <4>6, <4>7 DEF InfoInv
    <3>. QED  BY <3>1, <3>2
  <2>. QED  BY <1>5, <2>5, <2>6, <2>7, <2>9 DEF CInv, SerialInv
<1>. QED  BY <1>7, <1>8 DEF CreateSerialDevice, n

\* The record on the controller, or back to nothing.
LEMMA SerialRecord ==
  ASSUME CInv, ~Virtio, RecordChild
  PROVE  CInv'
<1>0. Typed /\ InfosTyped /\ Kept /\ Held /\ Stopping /\ PathInv /\ StartInv /\ InfoInv
  BY DEF CInv, SerialInv
<1>. DEFINE n == Min(todo)
<1>1. /\ controller' = controller /\ UNCHANGED <<opened, rem, lost, cur, whole, allStopped>>
      /\ UNCHANGED <<decoding, PciDeviceInfo, SerialDevices>>
      /\ pc = "record" /\ pc' = "create" /\ todo' = todo \ {n}
  BY DEF RecordChild, coreVars
<1>2. controller.uarts \in Nat
  BY <1>0, ControllersAssumption DEF Typed
<1>3. /\ todo # {} /\ todo \subseteq 0..controller.uarts /\ rem # End /\ child[cur].path.no = n
      /\ ~Several => todo \subseteq {0}
      /\ \A h \in DOMAIN child \ (lost \cup {cur}) : child[h].path.no \notin todo
  BY <1>0, <1>1 DEF PathInv, Fresh
<1>4. n \in todo
  <2>1. todo \in SUBSET Nat
    BY <1>2, <1>3
  <2>. QED  BY <1>3, <2>1, MinIsIn
<1>5. Several' = Several /\ IsPci' = IsPci /\ ~Virtio'
  BY <1>1 DEF Several, IsPci, Virtio
<1>6. Pending = {cur} /\ Fresh = {cur} /\ Pending' = {} /\ Fresh' = {}
  BY <1>1 DEF Pending, Fresh
<1>7. /\ recorded \subseteq DOMAIN child /\ lost \subseteq DOMAIN child
      /\ cur \in DOMAIN child \ (recorded \cup lost)
      /\ DOMAIN child \ lost \subseteq recorded \cup {cur}
      /\ DOMAIN child \subseteq Handles
  BY <1>0, <1>6 DEF Typed, Kept
<1>. HIDE DEF n
<1>8. PciDeviceInfo = None => recorded = SerialDevices /\ todo = {n}
  BY <1>0, <1>1, <1>3, <1>4 DEF StartInv
<1>9. CASE recorded' = recorded \cup {cur} /\ made' = TRUE /\ Counted(1) /\ UNCHANGED child
  <2>1. Typed' /\ Kept' /\ Held' /\ Stopping'
    BY <1>0, <1>1, <1>6, <1>7, <1>9 DEF Typed, Calls, Kept, Held, Stopping
  <2>2. PathInv'
    <3>1. \A h \in DOMAIN child \ lost : child[h].path.no \notin todo \ {n}
      BY <1>3
    <3>2. NoTwins' /\ recorded' \cap lost = {}
      BY <1>0, <1>1, <1>7, <1>9 DEF PathInv, NoTwins
    <3>3. \A h \in DOMAIN child :
            /\ child[h] \in [path : DevicePaths, info : Infos \cup {None}]
            /\ child[h].path.node = Several /\ (~Several => child[h].path.no = 0)
      BY <1>0 DEF PathInv
    <3>. QED  BY <1>1, <1>3, <1>5, <1>6, <1>9, <3>1, <3>2, <3>3 DEF PathInv
  <2>3. StartInv'
    BY <1>0, <1>1, <1>8, <1>9 DEF StartInv
  <2>4. \A i : Owners(i)' = Owners(i) \cup (IF child[cur].info = i THEN {cur} ELSE {})
    BY <1>6, <1>7, <1>9 DEF Owners
  <2>5. CASE ~IsPci
    <3>1. UNCHANGED infos /\ PciDeviceInfo = None
      BY <1>0, <1>9, <2>5 DEF InfoInv, Counted
    <3>2. InfosTyped' /\ InfoInv'
      BY <1>0, <1>1, <1>5, <1>9, <2>5, <3>1 DEF InfosTyped, InfoInv
    <3>. QED  BY <1>5, <2>1, <2>2, <2>3, <3>2 DEF CInv, SerialInv
  <2>6. CASE IsPci
    <3>1. PICK P \in Infos : /\ P = PciDeviceInfo /\ P # None /\ infos[P] # None
                            /\ \A h \in recorded \cup {cur} : child[h].info = P
      BY <1>0, <1>1, <1>6, <2>6 DEF InfoInv, InfosTyped
    <3>2. /\ infos[P] \in [count : 0..Cardinality(Handles), saved : BOOLEAN]
          /\ infos[P].count = Cardinality(Owners(P))
      BY <1>0, <2>6, <3>1 DEF InfosTyped, InfoInv
    <3>3. /\ Owners(P)' = Owners(P) \cup {cur} /\ cur \notin Owners(P)
          /\ \A i \in Infos \ {P} : Owners(i)' = Owners(i)
      BY <1>6, <2>4, <3>1 DEF Owners
    <3>4. /\ Cardinality(Owners(P)') = Cardinality(Owners(P)) + 1
          /\ Cardinality(Owners(P)') \in 0..Cardinality(Handles)
      <4>1. Owners(P) \in SUBSET Handles /\ Owners(P) \cup {cur} \in SUBSET Handles
        BY <1>7 DEF Owners
      <4>. QED  BY <3>3, <4>1, Counting, FS_AddElement
    <3>5. infos' = [infos EXCEPT ![P].count = @ + 1]
      BY <1>9, <3>1 DEF Counted
    <3>6. /\ infos'[P].count = Cardinality(Owners(P)') /\ infos'[P].saved = infos[P].saved
          /\ infos'[P].count # 0
          /\ infos'[P] \in [count : 0..Cardinality(Handles), saved : BOOLEAN]
          /\ \A i \in Infos \ {P} : infos'[i] = infos[i]
      BY <1>0, <3>1, <3>2, <3>4, <3>5, Numbers DEF InfosTyped
    <3>7. infos'[P] # None
      BY <3>6, NoneAssumption, Numbers
    <3>8. InfosTyped'
      BY <1>0, <1>1, <1>9, <3>1, <3>5, <3>6 DEF InfosTyped
    <3>9. \A i \in Infos : infos'[i] # None => /\ infos'[i].count = Cardinality(Owners(i)')
                                               /\ infos'[i].count # 0 \/ i = P
      <4>1. \A i \in Infos \ {P} : infos[i] # None => /\ infos[i].count = Cardinality(Owners(i))
                                                      /\ infos[i].count # 0
        BY <1>0, <2>6, <3>1 DEF InfoInv
      <4>2. \A i \in Infos \ {P} : Cardinality(Owners(i)') = Cardinality(Owners(i))
        BY <3>3
      <4>. QED  BY <3>6, <4>1, <4>2
    <3>10. \A i \in Infos : (infos'[i] # None <=> infos[i] # None)
                           /\ (infos[i] # None => infos'[i].saved = infos[i].saved)
      BY <3>1, <3>6, <3>7
    <3>11. \A i \in Infos : infos[i] # None =>
             IF infos'[i].saved THEN \E g \in lost : child[g].info # i
             ELSE \A j \in Infos \ {i} : infos'[j] # None => \E g \in lost : child[g].info = i
      BY <1>0, <2>6, <3>10 DEF InfoInv
    <3>12. /\ \A h \in DOMAIN child : child[h].info \in Infos /\ infos'[child[h].info] # None
           /\ \A g, h \in recorded' : child[g].info = child[h].info
           /\ \A h \in recorded' : child[h].info = P
           /\ decoding = (\E i \in Infos : infos'[i] # None)
      BY <1>0, <1>9, <2>6, <3>1, <3>10 DEF InfoInv
    <3>13. InfoInv'
      BY <1>1, <1>5, <1>6, <1>9, <2>6, <3>1, <3>7, <3>9, <3>10, <3>11, <3>12 DEF InfoInv
    <3>. QED  BY <1>5, <2>1, <2>2, <2>3, <3>8, <3>13 DEF CInv, SerialInv
  <2>. QED  BY <2>5, <2>6
<1>10. CASE made' = FALSE /\ Uninstall(cur) /\ UNCHANGED <<recorded, infos>>
  <2>1. DOMAIN child' = DOMAIN child \ {cur} /\ \A x \in DOMAIN child' : child'[x] = child[x]
    BY <1>10, UninstallEffect
  <2>2. Typed' /\ InfosTyped' /\ Kept' /\ Held' /\ Stopping'
    BY <1>0, <1>1, <1>6, <1>7, <1>10, <2>1 DEF Typed, Calls, InfosTyped, Kept, Held, Stopping
  <2>3. PathInv'
    <3>1. \A h \in DOMAIN child' \ lost : child'[h].path.no \notin todo \ {n}
      BY <1>3, <2>1
    <3>2. NoTwins' /\ recorded' \cap lost = {}
      BY <1>0, <1>1, <1>7, <1>10, <2>1 DEF PathInv, NoTwins
    <3>3. \A h \in DOMAIN child' :
            /\ child'[h] \in [path : DevicePaths, info : Infos \cup {None}]
            /\ child'[h].path.node = Several /\ (~Several => child'[h].path.no = 0)
      BY <1>0, <2>1 DEF PathInv
    <3>. QED  BY <1>1, <1>3, <1>5, <1>6, <1>10, <3>1, <3>2, <3>3 DEF PathInv
  <2>4. StartInv'
    BY <1>0, <1>1, <1>8, <1>10 DEF StartInv
  <2>5. \A i : Owners(i)' = Owners(i)
    BY <1>6, <1>7, <2>1 DEF Owners
  <2>6. InfoInv'
    <3>1. \A g \in lost \cup recorded : child'[g] = child[g]
      BY <1>7, <2>1
    <3>2. CASE ~IsPci
      BY <1>0, <1>1, <1>5, <2>1, <3>2 DEF InfoInv
    <3>3. CASE IsPci
      <4>1. \A i \in Infos : infos[i] # None =>
              IF infos[i].saved THEN \E g \in lost : child'[g].info # i
              ELSE \A j \in Infos \ {i} : infos[j] # None => \E g \in lost : child'[g].info = i
        BY <1>0, <3>1, <3>3 DEF InfoInv
      <4>2. /\ \A h \in DOMAIN child' : child'[h].info \in Infos /\ infos[child'[h].info] # None
            /\ \A g, h \in recorded : child'[g].info = child'[h].info
            /\ PciDeviceInfo # None
            /\ \A h \in recorded : child'[h].info = PciDeviceInfo
        BY <1>0, <1>1, <2>1, <3>1, <3>3 DEF InfoInv
      <4>3. /\ \A i \in Infos : infos[i] # None => /\ infos[i].count = Cardinality(Owners(i)')
                                                   /\ infos[i].count # 0 \/ i = PciDeviceInfo
            /\ infos[PciDeviceInfo] # None
            /\ decoding = (\E i \in Infos : infos[i] # None)
        BY <1>0, <2>5, <3>3, <4>2 DEF InfoInv
      <4>. QED  BY <1>1, <1>5, <1>6, <1>10, <3>3, <4>1, <4>2, <4>3 DEF InfoInv
    <3>. QED  BY <3>2, <3>3
  <2>. QED  BY <1>5, <2>2, <2>3, <2>4, <2>6 DEF CInv, SerialInv
<1>. QED  BY <1>9, <1>10 DEF RecordChild, OpenForChild

\* The PCI attributes go back to what they were when no child is counted.
LEMMA ReleaseInfo ==
  ASSUME Typed, InfosTyped, InfoInv, IsPci, IsPci', NEW P \in Infos, P = PciDeviceInfo,
         infos[P] # None, Owners(P) = {}, pc # "record", Release,
         pc' \in {"idle", "close"}, UNCHANGED <<child, recorded, lost>>
  PROVE  /\ InfoInv' /\ decoding' \in BOOLEAN /\ PciDeviceInfo' = None
         /\ infos' \in [Infos -> {None} \cup [count : 0..Cardinality(Handles), saved : BOOLEAN]]
<1>1. /\ decoding' = infos[P].saved /\ PciDeviceInfo' = None
      /\ infos' = [infos EXCEPT ![P] = None]
      /\ infos[P] \in [count : 0..Cardinality(Handles), saved : BOOLEAN]
  BY DEF Release, InfosTyped
<1>2. infos'[P] = None /\ \A i \in Infos \ {P} : infos'[i] = infos[i]
  BY <1>1 DEF InfosTyped
<1>3. \A i : Owners(i)' = Owners(i)
  BY DEF Owners, Fresh
<1>4. \A h \in DOMAIN child : child[h].info \in Infos \ {P} /\ infos[child[h].info] # None
  BY DEF InfoInv, Owners, Fresh
<1>5. lost \subseteq DOMAIN child /\ recorded \subseteq DOMAIN child /\ Pending' = {}
  BY DEF Typed, Pending
<1>6. infos[P].saved => \E i \in Infos \ {P} : infos[i] # None
  BY <1>4, <1>5 DEF InfoInv
<1>7. ~infos[P].saved => \A i \in Infos \ {P} : infos[i] = None
  BY <1>4, <1>5 DEF InfoInv
<1>8. /\ \A h \in DOMAIN child : child[h].info \in Infos /\ infos'[child[h].info] # None
      /\ decoding' = (\E i \in Infos : infos'[i] # None)
  BY <1>1, <1>2, <1>4, <1>6, <1>7
<1>9. \A i \in Infos : infos'[i] # None =>
        /\ infos'[i].count = Cardinality(Owners(i)) /\ infos'[i].count # 0
        /\ IF infos'[i].saved THEN \E h \in lost : child[h].info # i
           ELSE \A j \in Infos \ {i} : infos'[j] # None => \E h \in lost : child[h].info = i
  BY <1>2 DEF InfoInv
<1>10. InfoInv'
  BY <1>1, <1>3, <1>5, <1>8, <1>9 DEF InfoInv
<1>. QED  BY <1>1, <1>10 DEF InfosTyped

\* The end of a Start.
LEMMA SerialStartEnds ==
  ASSUME CInv, ~Virtio, StartEnds
  PROVE  CInv'
<1>0. Typed /\ InfosTyped /\ Kept /\ Held /\ Stopping /\ PathInv /\ StartInv /\ InfoInv
  BY DEF CInv, SerialInv
<1>1. /\ controller' = controller
      /\ UNCHANGED <<child, rem, recorded, lost, cur, todo, whole, allStopped, SerialDevices, made>>
      /\ pc = "create" /\ pc' = "idle" /\ todo = {}
      /\ IF Created \/ SerialDevices # {}
           THEN PciDeviceInfo' = None /\ UNCHANGED <<opened, decoding, infos>>
           ELSE /\ IF PciDeviceInfo = None THEN UNCHANGED pciVars ELSE Release
                /\ opened' = {}
  BY DEF StartEnds, coreVars, startVars
<1>2. Several' = Several /\ IsPci' = IsPci /\ ~Virtio' /\ Fresh = {} /\ Fresh' = {}
      /\ Pending = {} /\ Pending' = {}
  BY <1>1 DEF Several, IsPci, Virtio, Fresh, Pending
<1>3. PathInv' /\ StartInv'
  BY <1>0, <1>1, <1>2 DEF PathInv, StartInv, NoTwins
<1>4. \A i : Owners(i)' = Owners(i)
  BY <1>1, <1>2 DEF Owners
<1>5. PciDeviceInfo # None => /\ IsPci /\ PciDeviceInfo \in Infos
                              /\ infos[PciDeviceInfo] # None
                              /\ infos[PciDeviceInfo].count = Cardinality(Owners(PciDeviceInfo))
                              /\ recorded \subseteq Owners(PciDeviceInfo)
  BY <1>0, <1>2 DEF InfoInv, InfosTyped, Owners, Typed
<1>6. CASE Created \/ SerialDevices # {}
  <2>1. PciDeviceInfo # None => infos[PciDeviceInfo].count # 0
    <3>1. CASE Created
      BY <3>1 DEF Created
    <3>2. CASE SerialDevices # {} /\ PciDeviceInfo # None
      <4>1. recorded # {}
        BY <1>0, <1>1, <3>2 DEF StartInv
      <4>. QED  BY <1>0, <1>5, <3>2, <4>1, OwnersFinite
    <3>. QED  BY <1>6, <3>1, <3>2
  <2>2. Typed' /\ InfosTyped' /\ Kept' /\ Held' /\ Stopping'
    BY <1>0, <1>1, <1>2, <1>6 DEF Typed, Calls, InfosTyped, Kept, Held, Stopping
  <2>3. InfoInv'
    <3>1. PciDeviceInfo' = None /\ UNCHANGED <<decoding, infos>>
      BY <1>1, <1>6
    <3>2. CASE IsPci
      <4>1. \A i \in Infos : infos[i] # None => /\ infos[i].count = Cardinality(Owners(i))
                                                /\ infos[i].count # 0
        BY <1>0, <2>1, <3>2, Numbers DEF InfoInv
      <4>. QED  BY <1>0, <1>1, <1>2, <1>4, <3>1, <3>2, <4>1, ZenonT(60) DEF InfoInv
    <3>3. CASE ~IsPci
      BY <1>0, <1>1, <1>2, <3>1, <3>3 DEF InfoInv
    <3>. QED  BY <3>2, <3>3
  <2>. QED  BY <1>2, <1>3, <2>2, <2>3 DEF CInv, SerialInv
<1>7. CASE ~(Created \/ SerialDevices # {})
  <2>1. recorded = {}
    <3>1. CASE PciDeviceInfo = None
      BY <1>0, <1>1, <1>7, <3>1 DEF Created, StartInv
    <3>2. CASE PciDeviceInfo # None
      BY <1>0, <1>5, <1>7, <3>2, OwnersFinite DEF Created
    <3>. QED  BY <3>1, <3>2
  <2>2. Typed' /\ Kept' /\ Held' /\ Stopping'
    BY <1>0, <1>1, <1>2, <1>7, <2>1 DEF Typed, Calls, Kept, Held, Stopping
  <2>3. CASE PciDeviceInfo = None
    <3>1. UNCHANGED pciVars
      BY <1>1, <1>7, <2>3
    <3>2. InfosTyped' /\ InfoInv'
      BY <1>0, <1>1, <1>2, <1>4, <2>3, <3>1, ZenonT(60) DEF InfosTyped, InfoInv, pciVars
    <3>. QED  BY <1>2, <1>3, <2>2, <3>2 DEF CInv, SerialInv
  <2>4. CASE PciDeviceInfo # None
    <3>1. Owners(PciDeviceInfo) = {} /\ Release
      BY <1>0, <1>1, <1>5, <1>7, <2>4, OwnersFinite DEF Created
    <3>2. /\ InfoInv' /\ decoding' \in BOOLEAN /\ PciDeviceInfo' = None
          /\ infos' \in [Infos -> {None} \cup [count : 0..Cardinality(Handles), saved : BOOLEAN]]
      BY <1>0, <1>1, <1>2, <1>5, <2>4, <3>1, ReleaseInfo
    <3>3. InfosTyped'
      BY <1>0, <1>1, <3>2 DEF InfosTyped
    <3>. QED  BY <1>2, <1>3, <2>2, <3>2, <3>3 DEF CInv, SerialInv
  <2>. QED  BY <2>3, <2>4
<1>. QED  BY <1>6, <1>7

\* The record of a child is closed before the child is removed.
LEMMA SerialStopChild ==
  ASSUME CInv, ~Virtio, NEW h \in Handles, StopChild(h)
  PROVE  CInv'
<1>0. Typed /\ InfosTyped /\ Kept /\ Held /\ Stopping /\ PathInv /\ StartInv /\ InfoInv
  BY DEF CInv, SerialInv
<1>1. /\ controller' = controller
      /\ UNCHANGED <<opened, child, rem, lost, todo, whole, allStopped, decoding, infos>>
      /\ UNCHANGED <<SerialDevices, made>>
      /\ pc = "stop" /\ pc' = "remove" /\ h \in todo /\ cur' = h
      /\ PciDeviceInfo' = child[h].info /\ recorded' = recorded \ {h}
  BY DEF StopChild, coreVars, startVars
<1>2. Several' = Several /\ IsPci' = IsPci /\ ~Virtio' /\ Fresh = {} /\ Fresh' = {}
      /\ Pending = {} /\ Pending' = {h}
  BY <1>1 DEF Several, IsPci, Virtio, Fresh, Pending
<1>3. /\ todo \subseteq recorded /\ recorded \subseteq DOMAIN child /\ lost \subseteq DOMAIN child
      /\ recorded \cap lost = {} /\ DOMAIN child \ lost \subseteq recorded
  BY <1>0, <1>1, <1>2 DEF Stopping, Typed, PathInv, Kept
<1>4. Typed' /\ Kept' /\ Held' /\ Stopping'
  BY <1>0, <1>1, <1>2, <1>3 DEF Typed, Calls, Kept, Held, Stopping
<1>5. PathInv' /\ StartInv'
  BY <1>0, <1>1, <1>2, <1>3 DEF PathInv, StartInv, NoTwins
<1>6. InfosTyped'
  BY <1>0, <1>1, <1>3 DEF InfosTyped, PathInv
<1>7. CASE ~IsPci
  <2>1. child[h].info = None
    BY <1>0, <1>1, <1>3, <1>7 DEF PathInv, InfoInv
  <2>2. InfoInv'
    BY <1>0, <1>1, <1>2, <1>7, <2>1 DEF InfoInv
  <2>. QED  BY <1>2, <1>4, <1>5, <1>6, <2>2 DEF CInv, SerialInv
<1>8. CASE IsPci
  <2>1. PICK P \in Infos : P = child[h].info /\ P # None /\ infos[P] # None /\ PciDeviceInfo' = P
    BY <1>0, <1>1, <1>3, <1>8, Numbers DEF InfoInv
  <2>2. PciDeviceInfo # None => PciDeviceInfo = P
    BY <1>0, <1>1, <1>3, <1>8, <2>1 DEF InfoInv
  <2>3. \A i : Owners(i)' = Owners(i)
    BY <1>1, <1>2 DEF Owners
  <2>4. \A i \in Infos : infos[i] # None => /\ infos[i].count = Cardinality(Owners(i))
                                            /\ infos[i].count # 0 \/ i = P
    BY <1>0, <1>8, <2>2, Numbers DEF InfoInv
  <2>5. \A g \in recorded : child[g].info = P
    BY <1>0, <1>1, <1>3, <1>8, <2>1 DEF InfoInv
  <2>6. ~allStopped => \E g \in DOMAIN child \ todo : child[g].info = P
    <3>1. SUFFICES ASSUME ~allStopped PROVE \E g \in DOMAIN child \ todo : child[g].info = P
      OBVIOUS
    <3>2. PICK g \in DOMAIN child \ todo : child[g].info = PciDeviceInfo
      BY <1>0, <1>1, <1>8, <3>1 DEF InfoInv
    <3>3. PciDeviceInfo # None
      BY <1>0, <1>8, <3>2, Numbers DEF InfoInv
    <3>. QED  BY <2>2, <3>2, <3>3
  <2>7. InfoInv'
    BY <1>0, <1>1, <1>2, <1>3, <1>8, <2>1, <2>3, <2>4, <2>5, <2>6, ZenonT(60) DEF InfoInv
  <2>. QED  BY <1>2, <1>4, <1>5, <1>6, <2>7 DEF CInv, SerialInv
<1>. QED  BY <1>7, <1>8

\* A child goes, or stays because its driver does not let go.
LEMMA SerialRemoveChild ==
  ASSUME CInv, ~Virtio, RemoveChild
  PROVE  CInv'
<1>0. Typed /\ InfosTyped /\ Kept /\ Held /\ Stopping /\ PathInv /\ StartInv /\ InfoInv
  BY DEF CInv, SerialInv
<1>1. /\ controller' = controller
      /\ UNCHANGED <<opened, rem, cur, whole, decoding, PciDeviceInfo, SerialDevices, made>>
      /\ pc = "remove" /\ pc' = "stop" /\ todo' = todo \ {cur}
  BY DEF RemoveChild, coreVars, startVars
<1>2. Several' = Several /\ IsPci' = IsPci /\ ~Virtio' /\ Fresh = {} /\ Fresh' = {}
      /\ Pending = {cur} /\ Pending' = {}
  BY <1>1 DEF Several, IsPci, Virtio, Fresh, Pending
<1>3. /\ cur \in todo /\ todo \ {cur} \subseteq recorded
      /\ cur \in DOMAIN child \ (recorded \cup lost)
      /\ recorded \subseteq DOMAIN child /\ lost \subseteq DOMAIN child
      /\ recorded \cap lost = {} /\ DOMAIN child \ lost \subseteq recorded \cup {cur}
      /\ DOMAIN child \subseteq Handles
  BY <1>0, <1>1, <1>2 DEF Stopping, Typed, PathInv, Kept
<1>4. IsPci => /\ PciDeviceInfo # None /\ PciDeviceInfo \in Infos /\ infos[PciDeviceInfo] # None
               /\ \A h \in recorded \cup {cur} : child[h].info = PciDeviceInfo
  BY <1>0, <1>1, <1>2 DEF InfoInv, InfosTyped
<1>5. CASE Destroyed /\ UNCHANGED <<recorded, lost, allStopped>>
  <2>1. DOMAIN child' = DOMAIN child \ {cur} /\ \A x \in DOMAIN child' : child'[x] = child[x]
    BY <1>5, UninstallEffect DEF Destroyed
  <2>2. Typed' /\ Kept' /\ Held' /\ Stopping'
    BY <1>0, <1>1, <1>2, <1>3, <1>5, <2>1 DEF Typed, Calls, Kept, Held, Stopping
  <2>3. PathInv' /\ StartInv'
    BY <1>0, <1>1, <1>2, <1>3, <1>5, <2>1 DEF PathInv, StartInv, NoTwins
  <2>4. CASE ~IsPci
    <3>1. UNCHANGED infos /\ PciDeviceInfo = None
      BY <1>0, <1>5, <2>4 DEF InfoInv, Destroyed
    <3>2. InfosTyped' /\ InfoInv'
      BY <1>0, <1>1, <1>2, <2>1, <2>4, <3>1 DEF InfosTyped, InfoInv
    <3>. QED  BY <1>2, <2>2, <2>3, <3>2 DEF CInv, SerialInv
  <2>5. CASE IsPci
    <3>1. PICK P \in Infos : /\ P = PciDeviceInfo /\ P # None /\ infos[P] # None
                            /\ \A h \in recorded \cup {cur} : child[h].info = P
      BY <1>4, <2>5
    <3>2. /\ infos[P] \in [count : 0..Cardinality(Handles), saved : BOOLEAN]
          /\ infos[P].count = Cardinality(Owners(P))
      BY <1>0, <2>5, <3>1 DEF InfosTyped, InfoInv
    <3>3. /\ Owners(P)' = Owners(P) \ {cur} /\ cur \in Owners(P)
          /\ \A i \in Infos \ {P} : Owners(i)' = Owners(i)
      BY <1>2, <1>3, <2>1, <3>1 DEF Owners
    <3>4. /\ Cardinality(Owners(P)') = Cardinality(Owners(P)) - 1
          /\ Cardinality(Owners(P)') \in 0..Cardinality(Handles)
      <4>1. Owners(P) \in SUBSET Handles /\ Owners(P) \ {cur} \in SUBSET Handles
        BY <1>3 DEF Owners
      <4>. QED  BY <3>3, <4>1, Counting, FS_RemoveElement
    <3>5. infos' = [infos EXCEPT ![P].count = @ - 1]
      BY <1>5, <3>1 DEF Destroyed
    <3>6. /\ infos'[P].count = Cardinality(Owners(P)') /\ infos'[P].saved = infos[P].saved
          /\ infos'[P] \in [count : 0..Cardinality(Handles), saved : BOOLEAN]
          /\ \A i \in Infos \ {P} : infos'[i] = infos[i]
      BY <1>0, <3>1, <3>2, <3>4, <3>5, Numbers DEF InfosTyped
    <3>7. infos'[P] # None
      BY <3>6, NoneAssumption, Numbers
    <3>8. InfosTyped'
      BY <1>0, <1>1, <3>1, <3>5, <3>6 DEF InfosTyped
    <3>9. \A i \in Infos : infos'[i] # None => /\ infos'[i].count = Cardinality(Owners(i)')
                                               /\ infos'[i].count # 0 \/ i = P
      <4>1. \A i \in Infos \ {P} : infos[i] # None => /\ infos[i].count = Cardinality(Owners(i))
                                                      /\ infos[i].count # 0
        BY <1>0, <2>5, <3>1 DEF InfoInv
      <4>2. \A i \in Infos \ {P} : Cardinality(Owners(i)') = Cardinality(Owners(i))
        BY <3>3
      <4>. QED  BY <3>6, <4>1, <4>2
    <3>10. \A i \in Infos : (infos'[i] # None <=> infos[i] # None)
                            /\ (infos[i] # None => infos'[i].saved = infos[i].saved)
      BY <3>1, <3>6, <3>7
    <3>11. \A i \in Infos : infos[i] # None =>
             IF infos'[i].saved THEN \E g \in lost : child'[g].info # i
             ELSE \A j \in Infos \ {i} : infos'[j] # None => \E g \in lost : child'[g].info = i
      <4>1. \A g \in lost : child'[g] = child[g]
        BY <1>3, <2>1
      <4>. QED  BY <1>0, <2>5, <3>10, <4>1 DEF InfoInv
    <3>12. /\ \A h \in DOMAIN child' : child'[h].info \in Infos /\ infos'[child'[h].info] # None
           /\ decoding = (\E i \in Infos : infos'[i] # None)
      BY <1>0, <2>1, <2>5, <3>10 DEF InfoInv
    <3>13. \A h \in recorded : child'[h].info = P
      BY <1>3, <2>1, <3>1
    <3>14. ~allStopped => \E g \in DOMAIN child' \ todo' : child'[g].info = P
      BY <1>0, <1>1, <1>3, <2>1, <2>5, <3>1 DEF InfoInv
    <3>15. InfoInv'
      BY <1>1, <1>2, <1>5, <2>5, <3>1, <3>7, <3>9, <3>10, <3>11, <3>12, <3>13, <3>14 DEF InfoInv
    <3>. QED  BY <1>2, <2>2, <2>3, <3>8, <3>15 DEF CInv, SerialInv
  <2>. QED  BY <2>4, <2>5
<1>6. CASE Reopened /\ UNCHANGED <<child, infos>>
  <2>1. /\ allStopped' = FALSE
        /\ \/ recorded' = recorded \cup {cur} /\ lost' = lost
           \/ lost' = lost \cup {cur} /\ recorded' = recorded
    BY <1>6 DEF Reopened
  <2>2. Typed' /\ InfosTyped' /\ Kept' /\ Held' /\ Stopping'
    BY <1>0, <1>1, <1>2, <1>3, <1>6, <2>1 DEF Typed, Calls, InfosTyped, Kept, Held, Stopping
  <2>3. PathInv' /\ StartInv'
    BY <1>0, <1>1, <1>2, <1>3, <1>6, <2>1 DEF PathInv, StartInv, NoTwins
  <2>4. CASE ~IsPci
    BY <1>0, <1>1, <1>2, <1>6, <2>2, <2>3, <2>4 DEF InfoInv, CInv, SerialInv
  <2>5. CASE IsPci
    <3>1. \A i : Owners(i)' = Owners(i)
      BY <1>2, <1>6 DEF Owners
    <3>2. \A h \in recorded' : child[h].info = PciDeviceInfo
      BY <1>4, <2>1, <2>5
    <3>3. \E g \in DOMAIN child \ todo' : child[g].info = PciDeviceInfo
      BY <1>1, <1>3, <1>4, <2>5
    <3>4. \A i \in Infos : infos[i] # None =>
            IF infos[i].saved THEN \E h \in lost' : child[h].info # i
            ELSE \A j \in Infos \ {i} : infos[j] # None => \E h \in lost' : child[h].info = i
      BY <1>0, <2>1, <2>5 DEF InfoInv
    <3>5. InfoInv'
      BY <1>0, <1>1, <1>2, <1>4, <1>6, <2>5, <3>1, <3>2, <3>3, <3>4, ZenonT(60) DEF InfoInv
    <3>. QED  BY <1>2, <2>2, <2>3, <3>5 DEF CInv, SerialInv
  <2>. QED  BY <2>4, <2>5
<1>. QED  BY <1>5, <1>6 DEF RemoveChild

\* The end of a Stop: the last child takes the PCI_DEVICE_INFO along.
LEMMA SerialStopEnds ==
  ASSUME CInv, ~Virtio, StopEnds
  PROVE  CInv'
<1>0. Typed /\ InfosTyped /\ Kept /\ Held /\ Stopping /\ PathInv /\ StartInv /\ InfoInv
  BY DEF CInv, SerialInv
<1>1. /\ controller' = controller
      /\ UNCHANGED <<opened, child, rem, recorded, lost, cur, todo, whole, allStopped>>
      /\ UNCHANGED <<SerialDevices, made>>
      /\ pc = "stop" /\ todo = {} /\ pc' \in {"idle", "close"}
      /\ pc' = "close" => allStopped /\ whole
      /\ IF allStopped /\ PciDeviceInfo # None /\ infos[PciDeviceInfo].count = 0
           THEN Release
           ELSE PciDeviceInfo' = None /\ UNCHANGED <<decoding, infos>>
  BY DEF StopEnds, coreVars, startVars
<1>2. Several' = Several /\ IsPci' = IsPci /\ ~Virtio' /\ Fresh = {} /\ Fresh' = {}
      /\ Pending = {} /\ Pending' = {}
  BY <1>1 DEF Several, IsPci, Virtio, Fresh, Pending
<1>3. Typed' /\ Kept' /\ Held' /\ Stopping'
  BY <1>0, <1>1, <1>2 DEF Typed, Calls, Kept, Held, Stopping
<1>4. PathInv' /\ StartInv'
  BY <1>0, <1>1, <1>2 DEF PathInv, StartInv, NoTwins
<1>5. \A i : Owners(i)' = Owners(i)
  BY <1>1, <1>2 DEF Owners
<1>6. PciDeviceInfo # None => /\ IsPci /\ PciDeviceInfo \in Infos
                              /\ infos[PciDeviceInfo] # None
                              /\ infos[PciDeviceInfo].count = Cardinality(Owners(PciDeviceInfo))
  BY <1>0 DEF InfoInv, InfosTyped
<1>7. CASE allStopped /\ PciDeviceInfo # None /\ infos[PciDeviceInfo].count = 0
  <2>1. Owners(PciDeviceInfo) = {} /\ Release
    BY <1>0, <1>1, <1>6, <1>7, OwnersFinite
  <2>2. /\ InfoInv' /\ decoding' \in BOOLEAN /\ PciDeviceInfo' = None
        /\ infos' \in [Infos -> {None} \cup [count : 0..Cardinality(Handles), saved : BOOLEAN]]
    BY <1>0, <1>1, <1>2, <1>6, <1>7, <2>1, ReleaseInfo
  <2>3. InfosTyped'
    BY <1>0, <1>1, <2>2 DEF InfosTyped
  <2>. QED  BY <1>2, <1>3, <1>4, <2>2, <2>3 DEF CInv, SerialInv
<1>8. CASE ~(allStopped /\ PciDeviceInfo # None /\ infos[PciDeviceInfo].count = 0)
  <2>1. PciDeviceInfo' = None /\ UNCHANGED <<decoding, infos>>
    BY <1>1, <1>8
  <2>2. PciDeviceInfo # None => infos[PciDeviceInfo].count # 0
    <3>1. CASE PciDeviceInfo # None /\ ~allStopped
      <4>1. Owners(PciDeviceInfo) # {}
        BY <1>0, <1>1, <1>2, <1>6, <3>1 DEF InfoInv, Owners
      <4>. QED  BY <1>0, <1>6, <3>1, <4>1, OwnersFinite
    <3>. QED  BY <1>8, <3>1
  <2>3. InfosTyped'
    BY <1>0, <1>1, <2>1 DEF InfosTyped
  <2>4. CASE ~IsPci
    BY <1>0, <1>1, <1>2, <1>3, <1>4, <2>1, <2>3, <2>4 DEF InfoInv, CInv, SerialInv
  <2>5. CASE IsPci
    <3>1. \A i \in Infos : infos[i] # None => /\ infos[i].count = Cardinality(Owners(i))
                                              /\ infos[i].count # 0
      BY <1>0, <2>2, <2>5, Numbers DEF InfoInv
    <3>2. InfoInv'
      BY ZenonT(60), <1>0, <1>1, <1>2, <1>5, <2>1, <2>5, <3>1 DEF InfoInv
    <3>. QED  BY <1>2, <1>3, <1>4, <2>3, <3>2 DEF CInv, SerialInv
  <2>. QED  BY <2>4, <2>5
<1>. QED  BY <1>7, <1>8

-----------------------------------------------------------------------------
(* The invariant, and what follows from it                                 *)

LEMMA InitCInv == Init => CInv
<1>. SUFFICES ASSUME Init PROVE CInv
  OBVIOUS
<1>. USE DEF Init, CoreInit, SerialInit
<1>1. DOMAIN child = {}
  OBVIOUS
<1>2. /\ recorded = {} /\ lost = {} /\ opened = {} /\ pc = "idle" /\ todo = {}
      /\ infos = [i \in Infos |-> None] /\ PciDeviceInfo = None
  OBVIOUS
<1>3. Typed /\ InfosTyped
  BY <1>1 DEF Typed, InfosTyped, Calls
<1>4. Kept /\ Held /\ Stopping
  BY <1>1, <1>2 DEF Kept, Held, Stopping, Pending
<1>5. VirtioInv /\ OneChild /\ PathInv /\ StartInv
  BY <1>1, <1>2 DEF VirtioInv, OneChild, PathInv, StartInv, NoTwins
<1>6. InfoInv
  BY <1>1, <1>2 DEF InfoInv
<1>. QED  BY <1>3, <1>4, <1>5, <1>6 DEF CInv, SerialInv

LEMMA StepCInv == CInv /\ [Next]_vars => CInv'
<1>. SUFFICES ASSUME CInv, [Next]_vars PROVE CInv'
  OBVIOUS
<1>1. CASE Virtio /\ VirtioNext /\ UNCHANGED serialVars
  BY <1>1, VirtioSteps
<1>2. CASE ~Virtio /\ SerialNext
  <2>1. CASE \E path \in {All, End} \cup Remaining : StartSerial(path)
    BY <1>2, <2>1, SerialCalls DEF StartSerial
  <2>2. CASE (DisconnectSome \/ Close) /\ UNCHANGED serialVars
    BY <1>2, <2>2, SerialCalls
  <2>3. CASE StartDone
    BY <1>2, <2>3, SerialCalls DEF StartDone, serialVars
  <2>. QED  BY <1>2, <2>1, <2>2, <2>3, SerialBegin, SerialCreate, SerialRecord, SerialStartEnds,
               SerialUpdate, SerialStopChild, SerialRemoveChild, SerialStopEnds DEF SerialNext
<1>3. CASE UNCHANGED vars
  <2>1. /\ UNCHANGED <<controller, rem, opened, child, recorded, lost>>
        /\ UNCHANGED <<pc, cur, todo, whole, allStopped>>
        /\ UNCHANGED <<decoding, infos, PciDeviceInfo, SerialDevices, made>>
    BY <1>3 DEF vars, coreVars, callVars, serialVars, pciVars, startVars
  <2>2. Typed' /\ InfosTyped' /\ Kept' /\ Held' /\ Stopping'
    BY <2>1 DEF CInv, Typed, InfosTyped, Kept, Held, Stopping, Pending
  <2>3. Virtio' = Virtio /\ IsPci' = IsPci /\ Several' = Several
    BY <2>1 DEF Virtio, IsPci, Several
  <2>4. Virtio => VirtioInv' /\ OneChild'
    BY <2>1 DEF CInv, VirtioInv, OneChild
  <2>5. ~Virtio => PathInv' /\ StartInv'
    BY <2>1, <2>3 DEF CInv, SerialInv, PathInv, StartInv, NoTwins, Fresh
  <2>6. \A i : Owners(i)' = Owners(i)
    BY <2>1 DEF Owners, Fresh
  <2>7. ~Virtio => InfoInv'
    BY <2>1, <2>3, <2>6, ZenonT(60) DEF CInv, SerialInv, InfoInv, Pending
  <2>. QED  BY <2>2, <2>3, <2>4, <2>5, <2>7 DEF CInv, SerialInv
<1>. QED  BY <1>1, <1>2, <1>3 DEF Next

LEMMA Invariance == Spec => []CInv
BY InitCInv, StepCInv, PTL DEF Spec

\* Handles, records and calls are well typed, and a ChildCount never passes the
\* number of handles nor goes below zero, for any number of UARTs.
THEOREM ChildrenTyped == Spec => []TypeOK
<1>1. CInv => TypeOK
  <2>. SUFFICES ASSUME CInv PROVE TypeOK
    OBVIOUS
  <2>1. Typed /\ InfosTyped
    BY DEF CInv
  <2>2. \A h \in DOMAIN child : child[h] \in Devices
    <3>1. CASE Virtio
      <4>1. MmioPath \in DevicePaths
        BY UartsAssumption DEF MmioPath, DevicePaths
      <4>2. \A h \in DOMAIN child : child[h] \in [path : {MmioPath}, virtio : BOOLEAN]
        BY <3>1 DEF CInv, VirtioInv
      <4>. QED  BY <4>1, <4>2 DEF Devices
    <3>2. CASE ~Virtio
      BY <3>2 DEF CInv, SerialInv, PathInv, Devices
    <3>. QED  BY <3>1, <3>2
  <2>. QED  BY <2>1, <2>2 DEF Typed, InfosTyped, TypeOK
<1>. QED  BY <1>1, Invariance, PTL

\* Whatever failed, after every call of Start or Stop of both drivers each child
\* is whole and on the record of its controller, or it is one of the lost.
THEOREM ChildrenOnRecord == Spec => []RecordsKept
<1>1. CInv => RecordsKept
  <2>. SUFFICES ASSUME CInv, pc = "idle", NEW h \in DOMAIN child \ lost
                PROVE  h \in recorded /\ (Virtio => child[h].virtio)
    BY DEF RecordsKept
  <2>1. h \in recorded
    BY DEF CInv, Kept, Pending
  <2>. QED  BY <2>1 DEF CInv, VirtioInv
<1>. QED  BY <1>1, Invariance, PTL

\* No sequence of starts, for all UARTs, for one or with other settings, and no
\* failure in it gives a UART a second handle.
THEOREM OneHandlePerUart == Spec => []NoTwins
<1>1. CInv => NoTwins
  <2>. SUFFICES ASSUME CInv, Virtio PROVE NoTwins
    BY DEF CInv, SerialInv, PathInv
  <2>. QED  BY DEF CInv, OneChild, NoTwins
<1>. QED  BY <1>1, Invariance, PTL

\* The ASSERTs about PCI_DEVICE_INFO hold: the children on record share one, it
\* counts them exactly, it goes with the last one and takes decoding along.
THEOREM InfosExact == Spec => []InfoExact
<1>1. CInv => InfoExact
  <2>. SUFFICES ASSUME CInv, IsPci PROVE
         /\ \A g, h \in recorded : child[g].info = child[h].info
         /\ \A h \in DOMAIN child : infos[child[h].info] # None
         /\ pc = "idle" =>
              /\ \A i \in Infos : infos[i] # None =>
                   /\ infos[i].count = Cardinality({h \in DOMAIN child : child[h].info = i})
                   /\ infos[i].count # 0
              /\ decoding = (DOMAIN child # {})
    BY DEF InfoExact, IsPci
  <2>1. Typed /\ ~Virtio /\ InfoInv
    BY ControllersAssumption DEF CInv, SerialInv, Typed, Virtio, IsPci
  <2>2. ASSUME pc = "idle", NEW i \in Infos, infos[i] # None
        PROVE  /\ infos[i].count = Cardinality({h \in DOMAIN child : child[h].info = i})
               /\ infos[i].count # 0 /\ \E h \in DOMAIN child : child[h].info = i
    <3>1. Owners(i) = {h \in DOMAIN child : child[h].info = i}
      BY <2>2 DEF Owners, Fresh
    <3>2. infos[i].count = Cardinality(Owners(i)) /\ infos[i].count # 0
      BY <2>1, <2>2, Numbers DEF InfoInv
    <3>3. Owners(i) # {}
      BY <2>1, <3>2, OwnersFinite
    <3>. QED  BY <3>1, <3>2, <3>3
  <2>3. /\ \A g, h \in recorded : child[g].info = child[h].info
        /\ \A h \in DOMAIN child : child[h].info \in Infos /\ infos[child[h].info] # None
        /\ decoding = (\E i \in Infos : infos[i] # None)
    BY <2>1 DEF InfoInv
  <2>4. pc = "idle" => decoding = (DOMAIN child # {})
    BY <2>2, <2>3
  <2>. QED  BY <2>2, <2>3, <2>4
<1>. QED  BY <1>1, Invariance, PTL

-----------------------------------------------------------------------------
(* The drivers obey HandleTree                                             *)

\* How the handles and the binding of the controller may change.
LEMMA Grows ==
  ASSUME CInv, NEW h \in Handles \ DOMAIN child, DOMAIN child' = DOMAIN child \cup {h},
         UNCHANGED <<opened, lost>>, opened # {}
  PROVE  Tree!Next
<1>1. Tree!Start(Controller)
  BY HandlesAssumption DEF Tree!Start
<1>. QED  BY <1>1 DEF Tree!Next

LEMMA Shrinks ==
  ASSUME CInv, NEW h \in DOMAIN child \ lost, DOMAIN child' = DOMAIN child \ {h},
         UNCHANGED <<opened, lost>>
  PROVE  Tree!Next
<1>1. h \in Handles /\ h # Controller /\ DOMAIN child \subseteq Handles
  BY HandlesAssumption DEF CInv, Typed
<1>2. Tree!Below(h) = {}
  BY <1>1, HandlesAssumption DEF Tree!Below
<1>3. Tree!Remove(h)
  BY <1>1, <1>2 DEF Tree!Remove
<1>. QED  BY <1>1, <1>3 DEF Tree!Next

LEMMA Loses ==
  ASSUME CInv, NEW h \in DOMAIN child, lost' = lost \cup {h},
         UNCHANGED opened, DOMAIN child' = DOMAIN child
  PROVE  Tree!Next
<1>1. h \in Handles /\ h # Controller
  BY HandlesAssumption DEF CInv, Typed
<1>2. Tree!Orphan(h)
  BY <1>1 DEF Tree!Orphan
<1>. QED  BY <1>1, <1>2 DEF Tree!Next

LEMMA Opens ==
  ASSUME CInv, opened' # {}, UNCHANGED lost, DOMAIN child' = DOMAIN child
  PROVE  Tree!Next
<1>1. Tree!Start(Controller)
  BY DEF Tree!Start
<1>. QED  BY <1>1 DEF Tree!Next

LEMMA Closes ==
  ASSUME CInv, opened # {}, opened' = {}, DOMAIN child \subseteq lost,
         UNCHANGED lost, DOMAIN child' = DOMAIN child
  PROVE  Tree!Next
<1>1. Controller \notin DOMAIN child
  BY HandlesAssumption DEF CInv, Typed
<1>2. Tree!Below(Controller) = {}
  BY <1>1 DEF Tree!Below
<1>3. Tree!Stop(Controller)
  BY <1>2 DEF Tree!Stop
<1>. QED  BY <1>3 DEF Tree!Next

LEMMA TreeStutters ==
  ASSUME UNCHANGED <<opened, lost>>, DOMAIN child' = DOMAIN child
  PROVE  UNCHANGED Tree!vars
BY DEF Tree!vars

LEMMA VirtioTree ==
  ASSUME CInv, Virtio, VirtioNext
  PROVE  [Tree!Next]_(Tree!vars)
<1>0. Typed /\ Kept /\ Held /\ Stopping /\ VirtioInv
  BY DEF CInv
<1>1. CASE \/ \E path \in {All, End, MmioPath} : StartVirtio(path)
           \/ DisconnectSome \/ StopRefused \/ ChildrenStopped
  BY <1>1, TreeStutters DEF StartVirtio, Connect, DisconnectSome, Disconnect, StopRefused,
                            ChildrenStopped
<1>2. CASE OpenDtIo
  BY <1>2, Opens DEF OpenDtIo
<1>3. CASE ChildInstall
  <2>1. CASE UNCHANGED child
    BY <1>3, <2>1, TreeStutters DEF ChildInstall
  <2>2. ASSUME NEW h \in Handles, Install(h, [path |-> MmioPath, virtio |-> FALSE])
        PROVE  Tree!Next
    BY <1>0, <1>3, <2>2, InstallEffect, Grows DEF ChildInstall, Held
  <2>. QED  BY <1>3, <2>1, <2>2 DEF ChildInstall
<1>4. CASE ChildRecord
  <2>1. CASE UNCHANGED child
    BY <1>4, <2>1, TreeStutters DEF ChildRecord
  <2>2. CASE Uninstall(cur)
    BY <1>0, <1>4, <2>2, UninstallEffect, Shrinks DEF ChildRecord, Kept, Pending
  <2>. QED  BY <1>4, <2>1, <2>2 DEF ChildRecord
<1>5. CASE ChildProduce
  <2>1. CASE DOMAIN child' = DOMAIN child
    BY <1>5, <2>1, TreeStutters DEF ChildProduce
  <2>2. CASE Uninstall(cur)
    BY <1>0, <1>5, <2>2, UninstallEffect, Shrinks DEF ChildProduce, VirtioInv, Typed
  <2>. QED  BY <1>5, <2>1, <2>2 DEF ChildProduce, TakeBack
<1>6. CASE StartFails
  <2>1. pc = "undo" /\ opened # {} /\ opened' = {} /\ recorded = {} /\ UNCHANGED <<child, lost>>
    BY <1>0, <1>6 DEF StartFails, Held, VirtioInv
  <2>2. DOMAIN child \subseteq lost
    BY <1>0, <2>1 DEF Kept, Pending
  <2>. QED  BY <2>1, <2>2, Closes
<1>7. ASSUME NEW h \in Handles, ChildUnlink(h) PROVE UNCHANGED Tree!vars
  BY <1>7, TreeStutters DEF ChildUnlink
<1>8. CASE ChildDestroy
  <2>1. CASE Uninstall(cur) /\ UNCHANGED lost
    BY <1>0, <1>8, <2>1, UninstallEffect, Shrinks DEF ChildDestroy, Kept, Pending
  <2>2. CASE Recover
    <3>1. cur \in DOMAIN child /\ UNCHANGED opened
      BY <1>0, <1>8 DEF ChildDestroy, Kept, Pending
    <3>2. DOMAIN child' = DOMAIN child /\ (lost' = lost \/ lost' = lost \cup {cur})
      BY <2>2 DEF Recover
    <3>. QED  BY <3>1, <3>2, Loses, TreeStutters
  <2>. QED  BY <1>8, <2>1, <2>2 DEF ChildDestroy
<1>9. CASE Close
  <2>1. pc = "close" /\ opened # {} /\ opened' = {} /\ recorded = {} /\ UNCHANGED <<child, lost>>
    BY <1>0, <1>9 DEF Close, Held, Stopping
  <2>2. DOMAIN child \subseteq lost
    BY <1>0, <2>1 DEF Kept, Pending
  <2>. QED  BY <2>1, <2>2, Closes
<1>. QED  BY <1>1, <1>2, <1>3, <1>4, <1>5, <1>6, <1>7, <1>8, <1>9 DEF VirtioNext

LEMMA SerialTree ==
  ASSUME CInv, ~Virtio, SerialNext
  PROVE  [Tree!Next]_(Tree!vars)
<1>0. Typed /\ InfosTyped /\ Kept /\ Held /\ Stopping /\ PathInv /\ StartInv /\ InfoInv
  BY DEF CInv, SerialInv
<1>1. CASE \/ \E path \in {All, End} \cup Remaining : StartSerial(path)
           \/ DisconnectSome \/ (\E h \in Handles : StopChild(h)) \/ StopEnds
  BY <1>1, TreeStutters DEF StartSerial, Connect, DisconnectSome, Disconnect, StopChild, StopEnds
<1>2. CASE StartDone \/ BeginCreate
  BY <1>2, Opens DEF StartDone, BeginCreate, Opened
<1>3. ASSUME NEW h \in Handles, Update(h) PROVE Tree!Next
  BY <1>3, Opens DEF Update, Opened
<1>4. CASE CreateSerialDevice
  <2>1. CASE UNCHANGED child
    BY <1>4, <2>1, TreeStutters DEF CreateSerialDevice
  <2>2. ASSUME NEW h \in Handles, NEW device, Install(h, device) PROVE Tree!Next
    BY <1>0, <1>4, <2>2, InstallEffect, Grows DEF CreateSerialDevice, Held
  <2>. QED  BY <1>4, <2>1, <2>2 DEF CreateSerialDevice
<1>5. CASE RecordChild
  <2>1. CASE UNCHANGED child
    BY <1>5, <2>1, TreeStutters DEF RecordChild
  <2>2. CASE Uninstall(cur)
    BY <1>0, <1>5, <2>2, UninstallEffect, Shrinks DEF RecordChild, Kept, Pending
  <2>. QED  BY <1>5, <2>1, <2>2 DEF RecordChild, OpenForChild
<1>6. CASE StartEnds
  <2>1. CASE UNCHANGED opened
    BY <1>6, <2>1, TreeStutters DEF StartEnds
  <2>2. CASE opened' = {} /\ opened # {}
    <3>1. Held' /\ Kept'
      BY <1>6, SerialStartEnds DEF CInv
    <3>2. recorded' = {} /\ UNCHANGED <<child, recorded, lost>> /\ pc = "create"
      BY <1>6, <2>2, <3>1 DEF Held, StartEnds
    <3>3. DOMAIN child \subseteq lost
      BY <1>0, <3>2 DEF Kept, Pending
    <3>. QED  BY <2>2, <3>2, <3>3, Closes
  <2>. QED  BY <1>6, <2>1, <2>2 DEF StartEnds
<1>7. CASE RemoveChild
  <2>1. CASE Destroyed /\ UNCHANGED lost
    BY <1>0, <1>7, <2>1, UninstallEffect, Shrinks DEF Destroyed, RemoveChild, Kept, Pending
  <2>2. CASE Reopened /\ UNCHANGED child
    <3>1. cur \in DOMAIN child /\ UNCHANGED opened
      BY <1>0, <1>7 DEF RemoveChild, Kept, Pending
    <3>. QED  BY <2>2, <3>1, Loses, TreeStutters DEF Reopened
  <2>. QED  BY <1>7, <2>1, <2>2 DEF RemoveChild
<1>8. CASE Close
  <2>1. pc = "close" /\ opened # {} /\ opened' = {} /\ recorded = {} /\ UNCHANGED <<child, lost>>
    BY <1>0, <1>8 DEF Close, Held, Stopping
  <2>2. DOMAIN child \subseteq lost
    BY <1>0, <2>1 DEF Kept, Pending
  <2>. QED  BY <2>1, <2>2, Closes
<1>. QED  BY <1>1, <1>2, <1>3, <1>4, <1>5, <1>6, <1>7, <1>8 DEF SerialNext

\* Both drivers, on any controller and with any failures, implement HandleTree:
\* a child appears only while the controller is open, the controller is let go
\* only when nothing but lost children is left, and only errors lose children.
THEOREM ChildrenFormTree == Spec => ImplementsTree
<1>1. Init => Tree!Init
  BY DEF Init, CoreInit, Tree!Init
<1>2. CInv /\ [Next]_vars => [Tree!Next]_(Tree!vars)
  <2>. SUFFICES ASSUME CInv, [Next]_vars PROVE [Tree!Next]_(Tree!vars)
    OBVIOUS
  <2>1. CASE UNCHANGED vars
    BY <2>1, TreeStutters DEF vars
  <2>. QED  BY <2>1, VirtioTree, SerialTree DEF Next
<1>. QED  BY <1>1, <1>2, Invariance, PTL DEF Spec, ImplementsTree, Tree!Spec
=============================================================================
