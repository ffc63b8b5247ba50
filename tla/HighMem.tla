------------------------------ MODULE HighMem ------------------------------
(***************************************************************************)
(* Drivers/HighMemDxe: the memory of a node of device_type "memory".       *)
(* Start asks for one region after the other, which brings it into the     *)
(* memory map as a register (DtReg), makes system memory of it, and sets   *)
(* the attributes of its pages with the CPU.  Device is the memory node in *)
(* the devicetrees that have "device_type".                                *)
(***************************************************************************)
EXTENDS DtReg

CONSTANTS SystemMemory, WB  \* EfiGcdMemoryTypeSystemMemory, EFI_MEMORY_WB

ASSUME MemoryAssumption ==
  /\ WB \in 1..(CpuWord - 1) /\ SystemMemory # Mmio
  /\ \E c \in DOMAIN RegTypes : RegTypes[c] = SystemMemory

VARIABLES
  hm,        \* Start: where it is, the entry it is at and its region; before: ghost, gcd at Start
  protected  \* pages whose attributes were set with the CPU
memVars == <<hm, protected>>

NotManaged == [pc |-> "stopped", index |-> 0, region |-> NoReg, before |-> gcd]

IsMemory == Has(Device, "device_type")
\* A node with a status is one that is not "okay".
DeviceIsSupported == IsMemory /\ ~Has(Device, "status")

NextRange == hm' = [hm EXCEPT !.pc = "ranges", !.index = @ + 1, !.region = NoReg]
ErrorIgnored == NextRange \* mutant
\* DT I/O is closed, what was done stays done.
GiveUp == hm' = [hm EXCEPT !.pc = "stopped", !.index = 0, !.region = NoReg]

----------------------------------------------------------------------------
DriverStart ==
  /\ idle /\ hm.pc = "stopped" /\ DeviceIsSupported
  /\ hm' = [hm EXCEPT !.pc = "ranges", !.index = 0, !.before = gcd]
  /\ Quiet /\ UNCHANGED <<dt, gcd, prop, reg, protected>>

\* ProcessMemoryRanges: EFI_NOT_FOUND is the end of the loop, whatever was not found.
ProcessMemoryRanges(fault) ==
  /\ hm.pc = "ranges"
  /\ LET r == GetRegion("reg", hm.index, fault)
     IN  /\ gcd' = r.gcd
         /\ CASE r.status = "EFI_NOT_FOUND" -> hm' = [hm EXCEPT !.pc = "started"]
              [] r.ok /\ r.reg.bus = Cpu /\ r.reg.len = 0 -> NextRange
              [] r.ok /\ r.reg.bus = Cpu /\ r.reg.len # 0 -> hm' = [hm EXCEPT !.pc = "type", !.region = r.reg]
              [] OTHER -> GiveUp
  /\ Quiet /\ UNCHANGED <<dt, prop, reg, protected>>

\* OldType: of the last descriptor; of none at all, if the region ends in the last
\* page, and then it is read from the stack.
LastType(pages) ==
  IF pages = {} THEN {SystemMemory, Mmio}
  ELSE {PageOf(CHOOSE pg \in pages : \A q \in pages : q <= pg).type}

\* ProcessMemoryRange, up to the call to the CPU.
SetRegType(fault) ==
  /\ hm.pc = "type"
  /\ LET r == ApplyGcdTypeAndAttrs(hm.region.base, hm.region.len,
                [type |-> SystemMemory, attrs |-> WB, keep |-> FALSE, fault |-> fault])
     IN  /\ gcd' = r.gcd
         /\ IF ~r.ok THEN GiveUp
            ELSE \E old \in LastType(PagesOf(hm.region.base, hm.region.len)) :
                   IF old = SystemMemory THEN NextRange ELSE hm' = [hm EXCEPT !.pc = "cpu"]
  /\ Quiet /\ UNCHANGED <<dt, prop, reg, protected>>

Touches(region) == {(region.base + o) \div PageSize : o \in 0..(region.len - 1)}

\* mCpu->SetMemoryAttributes may fail.
SetMemoryAttributes ==
  /\ hm.pc = "cpu"
  /\ \/ protected' = protected \cup Touches(hm.region) /\ NextRange
     \/ GiveUp /\ UNCHANGED protected
  /\ Quiet /\ UNCHANGED <<dt, gcd, prop, reg>>

\* Memory is never given back.
DriverStop ==
  /\ hm.pc = "started" /\ GiveUp
  /\ Quiet /\ UNCHANGED <<dt, gcd, prop, reg, protected>>

----------------------------------------------------------------------------
HmInit == Init /\ hm = NotManaged /\ protected = {}
HmNext ==
  \/ DriverStart \/ SetMemoryAttributes \/ DriverStop
  \/ \E f \in Faults : ProcessMemoryRanges(f) \/ SetRegType(f)
HmSpec == HmInit /\ [][HmNext]_<<vars, memVars>>

----------------------------------------------------------------------------
\* The pages of the k-th entry of reg, byte by byte from the devicetree.
EntryPages(k) ==
  LET a == AddressCells(Device)
      at == (a + SizeCells(Device)) * k
      base == Slice(dt[Device]["reg"], at, a)
      len == Slice(dt[Device]["reg"], at + a, SizeCells(Device))
  IN  {x \div PageSize : x \in UNION {Reach(Device, base + o, Cpu) : o \in 0..(len - 1)}}
Entered == IF Has(Device, "reg") /\ ElemCells("reg") # 0
           THEN 0..(Len(dt[Device]["reg"]) \div ElemCells("reg") - 1) ELSE {}
\* An entry that ends in the last page, which the memory map ignores.
AtTop(k) == CpuPages - 1 \in EntryPages(k)
\* An entry none of whose pages was or becomes system memory in another way: before
\* this Start, as part of another entry, or by attributes in the devicetree.
Alone(k) ==
  /\ \A pg \in EntryPages(k) : hm.before[pg].type # SystemMemory
  /\ \A j \in Entered \ {k} : EntryPages(j) \cap EntryPages(k) = {}
  /\ ~Has(Device, "reg-attrs")

\* When Start succeeds, all the memory of the node is system memory that can be
\* cached, however often it failed half-way before.  Memory that was not known
\* before this Start has its attributes set with the CPU, and that is never done to
\* a page outside the node's memory.
\* The code keeps neither promise for all ranges, and this states what is left:
\*  - reg-attrs that are shorter than reg end the loop early, with success;
\*  - a range that ends in the last page is ignored by ApplyGcdTypeAndAttrs;
\*  - SetRegType tells the type of a range by its last descriptor, so that a range
\*    that was partly system memory, by an earlier Start too, is left unprotected,
\*    or protected with pages in use.
MemoryUsable ==
  IsMemory =>
    /\ hm.pc = "started" => \A k \in Entered :
         \/ AtTop(k)
         \/ Has(Device, "reg-attrs") /\ Len(dt[Device]["reg-attrs"]) \div 3 <= k
         \/ /\ \A pg \in EntryPages(k) : gcd[pg].type = SystemMemory /\ gcd[pg].attrs = WB
            /\ Alone(k) => EntryPages(k) \subseteq protected
    /\ protected \subseteq UNION {EntryPages(k) : k \in Entered}
============================================================================
