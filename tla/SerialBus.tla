----------------------------- MODULE SerialBus -----------------------------
(***************************************************************************)
(* The driver binding of PciSioSerialDxe: the UARTs of a super I/O, a      *)
(* Devicetree or a PCI controller become child handles, one per UART, all  *)
(* at once or one by one as device paths ask for them.  The UARTs of one   *)
(* PCI device share a PCI_DEVICE_INFO, which counts the children and holds *)
(* the PCI attributes to go back to after the last one.                    *)
(***************************************************************************)
EXTENDS ChildBus

VARIABLES
  decoding,      \* I/O and memory decoding of the PCI device is enabled
  infos,         \* the PCI_DEVICE_INFOs: what is in each, or None
  PciDeviceInfo, \* that of the call in progress, or None
  SerialDevices, \* the children found by the call in progress
  made           \* the last CreateSerialDevice of the call succeeded

ASSUME NoneAssumption == None \notin Nat \cup [count : Nat, saved : BOOLEAN]

startVars == <<SerialDevices, made>>
pciVars   == <<decoding, infos, PciDeviceInfo>>
serialVars == <<pciVars, startVars>>

\* Every one but the last counts a child that is left.
Infos == 1..(Cardinality(Handles) + 1)

IsPci == controller.io = "PciIo"
\* Several entries of PcdPciSerialParameters for one device: several UARTs.
Several == IsPci /\ controller.uarts > 1

SerialInit ==
  /\ decoding = FALSE
  /\ infos = [i \in Infos |-> None]
  /\ PciDeviceInfo = None
  /\ SerialDevices = {} /\ made = FALSE

\* SkipControllerDevicePathNode: without a node the number is zero.
Remaining == {p \in [node : BOOLEAN, no : 0..controller.uarts, uart : Uarts] : p.node \/ p.no = 0}

\* GetChildSerialDevices looks the children up in the records.
\* SerialControllerDriverSupported accepts what is started already.
StartSerial(path) == Connect(path) /\ UNCHANGED serialVars

-----------------------------------------------------------------------------
(* SerialControllerDriverStart                                             *)

SamePath(h) == child[h].path = rem  \* mutant: other settings are another child
Asked(h) == child[h].path.node = rem.node /\ (rem.node => child[h].path.no = rem.no)

Opened == opened' = {"DevicePath", controller.io}

\* Nothing is asked for, or everything is there already.
StartDone ==
  /\ pc = "start"
  /\ rem = End \/ (rem = All /\ recorded # {})
  /\ Opened /\ pc' = "idle"
  /\ UNCHANGED <<coreVars, child, recorded, lost, cur, todo, whole, allStopped, serialVars>>

\* A child that exists gets the new settings; SetAttributes writes them into its
\* device path, also when installing that again fails.
Update(h) ==
  /\ pc = "start" /\ rem \notin {All, End} /\ h \in recorded /\ Asked(h)
  /\ Opened /\ pc' = "idle"
  /\ \/ child' = [child EXCEPT ![h].path.uart = rem.uart]
     \/ "device" \in Faults /\ UNCHANGED child
  /\ UNCHANGED <<coreVars, recorded, lost, cur, todo, whole, allStopped, serialVars>>

\* The instances Start creates.  With several UARTs, the count that is compared
\* with the controller number moves on only after a match: of the numbers a path
\* may name, only zero is ever found.
Instances ==
  IF Several THEN IF rem = All THEN 0..(controller.uarts - 1)
                  ELSE IF rem.node /\ rem.no = 0 THEN {0} ELSE {}
             ELSE IF rem = All \/ ~rem.node THEN {0} ELSE {}

\* The first child of a PCI device enables decoding.
Allocate ==
  \E i \in Infos :
    /\ infos[i] = None /\ \A j \in Infos : infos[j] = None => i <= j
    /\ infos' = [infos EXCEPT ![i] = [count |-> 0, saved |-> decoding]]
    /\ PciDeviceInfo' = i
    /\ decoding' = TRUE
Reuse ==
  /\ \E h \in recorded : PciDeviceInfo' = child[h].info
  /\ UNCHANGED <<decoding, infos>>

\* Every UART that is asked for and not there yet.
BeginCreate ==
  /\ pc = "start" /\ rem # End
  /\ IF rem = All THEN recorded = {} ELSE ~\E h \in recorded : Asked(h)
  /\ Opened /\ pc' = "create"
  /\ SerialDevices' = recorded /\ made' = FALSE
  /\ \/ /\ todo' = Instances
        /\ IF ~IsPci THEN UNCHANGED pciVars
           ELSE IF recorded = {} THEN Allocate ELSE Reuse
     \/ IsPci /\ "device" \in Faults /\ todo' = {} /\ UNCHANGED pciVars  \* Pci.Read fails
  /\ UNCHANGED <<coreVars, child, recorded, lost, cur, whole, allStopped>>

\* CreateSerialDevice of the next instance, up to the handle: the UART may have
\* no registers, not answer, or not take the settings.
NewPath(n) == [node |-> Several, no |-> n, uart |-> IF rem = All THEN DefaultUart ELSE rem.uart]

CreateSerialDevice ==
  /\ pc = "create" /\ todo # {}
  /\ LET path == NewPath(Min(todo)) IN
     \/ \E h \in Handles : /\ Install(h, [path |-> path, info |-> PciDeviceInfo])
                           /\ cur' = h /\ pc' = "record"
                           /\ UNCHANGED <<todo, made>>
     \/ /\ NoInstall(path)
        /\ todo' = todo \ {Min(todo)} /\ made' = FALSE
        /\ UNCHANGED <<child, cur, pc>>
  /\ UNCHANGED <<coreVars, opened, recorded, lost, whole, allStopped, pciVars, SerialDevices>>

\* ChildCount of the PCI_DEVICE_INFO of the call, if there is one.
Counted(n) ==
  infos' = IF PciDeviceInfo = None THEN infos
           ELSE [infos EXCEPT ![PciDeviceInfo].count = @ + n]

CountsAll ==  \* mutant: a child that was not recorded is counted too
  \/ recorded' = recorded \cup {cur} /\ made' = TRUE /\ Counted(1) /\ UNCHANGED child
  \/ "record" \in Faults /\ made' = FALSE /\ Uninstall(cur) /\ Counted(1) /\ UNCHANGED recorded
OpenForChild ==
  \/ recorded' = recorded \cup {cur} /\ made' = TRUE /\ Counted(1) /\ UNCHANGED child
  \/ "record" \in Faults /\ made' = FALSE /\ Uninstall(cur) /\ UNCHANGED <<recorded, infos>>

RecordChild ==
  /\ pc = "record"
  /\ OpenForChild
  /\ todo' = todo \ {Min(todo)} /\ pc' = "create"
  /\ UNCHANGED <<coreVars, opened, lost, cur, whole, allStopped>>
  /\ UNCHANGED <<decoding, PciDeviceInfo, SerialDevices>>

\* The PCI attributes go back to what they were.
Release ==
  /\ decoding' = infos[PciDeviceInfo].saved
  /\ infos' = [infos EXCEPT ![PciDeviceInfo] = None]
  /\ PciDeviceInfo' = None

\* One child of a PCI device makes the whole call a success.
Created == IF PciDeviceInfo = None THEN made ELSE infos[PciDeviceInfo].count # 0

StartEnds ==
  /\ pc = "create" /\ todo = {}
  /\ IF Created \/ SerialDevices # {}
       THEN PciDeviceInfo' = None /\ UNCHANGED <<opened, decoding, infos>>
       ELSE /\ IF PciDeviceInfo = None THEN UNCHANGED pciVars ELSE Release
            /\ opened' = {}
  /\ pc' = "idle"
  /\ UNCHANGED <<coreVars, child, recorded, lost, cur, todo, whole, allStopped, startVars>>

-----------------------------------------------------------------------------
(* SerialControllerDriverStop                                              *)

StopChild(h) ==
  /\ pc = "stop" /\ h \in todo
  /\ PciDeviceInfo' = child[h].info
  /\ recorded' = recorded \ {h}
  /\ cur' = h /\ pc' = "remove"
  /\ UNCHANGED <<coreVars, opened, child, lost, todo, whole, allStopped>>
  /\ UNCHANGED <<decoding, infos, startVars>>

Forgotten == UNCHANGED <<recorded, lost, allStopped>>  \* mutant: the error is ignored
\* A driver of the child does not let go: the record is opened again, or not.
Reopened ==
  /\ allStopped' = FALSE
  /\ \/ recorded' = recorded \cup {cur} /\ UNCHANGED lost
     \/ "reopen" \in Faults /\ lost' = lost \cup {cur} /\ UNCHANGED recorded

NotCounted == Uninstall(cur) /\ UNCHANGED infos  \* mutant: ChildCount stays
Destroyed == Uninstall(cur) /\ IF PciDeviceInfo = None THEN UNCHANGED infos
             ELSE infos' = [infos EXCEPT ![PciDeviceInfo].count = @ - 1]

RemoveChild ==
  /\ pc = "remove"
  /\ \/ Destroyed /\ UNCHANGED <<recorded, lost, allStopped>>
     \/ "busy" \in Faults /\ Reopened /\ UNCHANGED <<child, infos>>
  /\ todo' = todo \ {cur} /\ pc' = "stop"
  /\ UNCHANGED <<coreVars, opened, cur, whole, decoding, PciDeviceInfo, startVars>>

StopEnds ==
  /\ pc = "stop" /\ todo = {}
  /\ IF allStopped /\ PciDeviceInfo # None /\ infos[PciDeviceInfo].count = 0
       THEN Release
       ELSE PciDeviceInfo' = None /\ UNCHANGED <<decoding, infos>>
  /\ pc' = IF allStopped /\ whole THEN "close" ELSE "idle"
  /\ UNCHANGED <<coreVars, opened, child, recorded, lost, cur, todo, whole, allStopped, startVars>>

SerialNext ==
  \/ \E path \in {All, End} \cup Remaining : StartSerial(path)
  \/ DisconnectSome /\ UNCHANGED serialVars
  \/ StartDone \/ BeginCreate \/ CreateSerialDevice \/ RecordChild \/ StartEnds
  \/ \E h \in Handles : Update(h) \/ StopChild(h)
  \/ RemoveChild \/ StopEnds
  \/ Close /\ UNCHANGED serialVars
=============================================================================
