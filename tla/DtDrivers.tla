----------------------------- MODULE DtDrivers -----------------------------
(***************************************************************************)
(* The drivers that get at one device through its EFI_DT_IO_PROTOCOL, with *)
(* the memory map they share with it: any driver (DtReg), that of a PCI    *)
(* host bridge (PciIo) or that of a memory node (HighMem).                 *)
(***************************************************************************)
EXTENDS PciIo, HighMem

allVars == <<pciVars, memVars>>

DtInit == RbInit /\ HmInit
DtNext ==
  \/ ~IsMemory /\ RbNext /\ UNCHANGED memVars
  \/ IsMemory /\ HmNext /\ UNCHANGED rb
  \/ /\ IsMemory /\ hm.pc \in {"stopped", "started"} /\ UNCHANGED <<memVars, rb>>
     /\ \E b \in SampleBuses : DtIoSetCallbacks(b)
DtSpec == DtInit /\ [][DtNext]_allVars

\* What a driver is told it has, it can use.  A region of CPU addresses that it
\* was just given is in the memory map, unless it ends in the very last page
\* (ApplyGcdTypeAndAttrs then does nothing).  Being given one leaves a page its
\* type and its attributes, if it had any, and no call takes away a page that is
\* in use.  Memory that HighMemDxe reports as processed is: see MemoryUsable.
RegionsAccessible == [][RegionAccessible /\ PagesKept /\ MemoryUsable']_allVars
============================================================================
