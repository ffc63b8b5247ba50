------------------------------ MODULE MCDtReg ------------------------------
(* A chain of four nodes, with devicetrees that differ in the properties of
   the two buses and of the device.  A cell has four values, so that the CPU
   has sixteen addresses: four pages, the last of them unknown to the GCD.    *)
EXTENDS DtDrivers, TLC

MCNodes == 0..3
MCParent == 1 :> 0 @@ 2 :> 1 @@ 3 :> 2
None == <<>>
Cells(a, s) == "#address-cells" :> <<a>> @@ "#size-cells" :> <<s>>
Ranges(cells) == "ranges" :> cells
Reg(cells) == "reg" :> cells
Tree(root, bus, under, device) == 0 :> root @@ 1 :> bus @@ 2 :> under @@ 3 :> device

\* Two windows at bus 1, the second behind the first but not at the CPU.
TwoWindows == Tree(Cells(1, 1), Cells(1, 1) @@ Ranges(<<0, 2, 2, 2, 0, 1>>), Cells(1, 1) @@ Ranges(None),
                   Reg(<<0, 2, 1, 2, 2, 1>>) @@ "reg-names" :> <<"regs", "fifo">>)
\* No way up from bus 2, which SampleBusDxe drives; an entry is cut short.
SampleBus == Tree(Cells(1, 1), Cells(1, 1) @@ Ranges(None), Cells(2, 1), Reg(<<0, 1, 3, 0, 2>>))
\* The windows of bus 2 overlap, and the last of its entries is cut short.
Overlap == Tree(Cells(2, 1), Cells(1, 1) @@ Ranges(<<0, 1, 0, 3>>),
                Cells(1, 2) @@ Ranges(<<0, 1, 0, 2, 1, 0, 0, 3, 3, 0>>), Reg(<<1, 0, 2, 1, 0, 1>>))
\* Up to the last CPU address and past it, with addresses of three cells.
Top == Tree(Cells(3, 1), Cells(3, 1) @@ Ranges(None), Cells(3, 1) @@ Ranges(None),
            Reg(<<0, 3, 1, 3, 0, 3, 2, 2, 1, 0, 0, 1>>))
\* Attributes in the devicetree, one element not valid.
Attrs == Tree(Cells(1, 1), Cells(1, 1) @@ Ranges(None), Cells(1, 1) @@ Ranges(None),
              Reg(<<0, 2, 2, 3, 1, 1>>) @@ "reg-attrs" :> <<2, 0, 1, 3, 0, 1, 0, 0, 1>>
              @@ "reg-names" :> <<"regs">>)
\* A bus as the device, whose own ranges it reads.
Bus == Tree(Cells(1, 1), Cells(1, 1) @@ Ranges(<<0, 1, 3>>), Cells(1, 1) @@ Ranges(<<0, 0, 3>>),
            Cells(2, 1) @@ Ranges(<<0, 1, 0, 2, 0, 3, 2, 2>>) @@ "range-attrs" :> <<3, 0, 1>>)
\* A host bridge: windows for memory, I/O, memory beyond 4G and one of a kind
\* that is not known.
Host(ranges, bus) == Cells(3, 1) @@ Ranges(ranges) @@ "compatible" :> None @@ "bus-range" :> bus
HostBridge == Tree(Cells(1, 1), Cells(1, 1) @@ Ranges(None), Cells(2, 1) @@ Ranges(None),
                   Host(<<2, 0, 1, 0, 0, 3>> \o <<1, 0, 0, 0, 3, 2>> \o <<3, 1, 0, 1, 1, 2>> \o <<0, 0, 0, 2, 0, 1>>, <<0, 0>>)
                   @@ Reg(<<2, 0, 1, 1, 3, 2>>) @@ "reg-names" :> <<"regs", "config">>)
\* One that keeps its configuration, below SampleBusDxe; its buses start at 1.
KeptBridge == Tree(Cells(1, 1), Cells(1, 1) @@ Ranges(None), Cells(2, 2),
                   Host(<<2, 0, 0, 3, 0, 2>> \o <<3, 2, 0, 0, 0, 2>>, <<1, 2>>) @@ Reg(<<0, 2, 3, 2>>)
                   @@ "fdtbuspkg,pci-keep-config" :> None)
\* The same without keeping it; one without registers; the 32-bit window of the
\* third is too high.
LostBridge == Tree(Cells(1, 1), Cells(1, 1) @@ Ranges(None), Cells(2, 1),
                   Host(<<2, 0, 0, 3, 0, 2>>, <<2, 2>>) @@ Reg(<<0, 2, 2>>))
BareBridge == Tree(Cells(1, 1), Cells(1, 1) @@ Ranges(None), Cells(2, 1) @@ Ranges(None), Host(<<2, 0, 0, 0, 1, 2>>, <<0, 1>>))
HighBridge == Tree(Cells(1, 1), Cells(1, 1) @@ Ranges(None), Cells(2, 1) @@ Ranges(None),
                   Host(<<2, 1, 0, 0, 1, 2>>, <<0, 1>>) @@ Reg(<<1, 0, 2>>))
\* Memory nodes, one page to a first address cell: two ranges and an empty one;
\* ranges that share a page; one across three pages and one in the last page;
\* attributes for the first range only, and of the type of memory; disabled;
\* not to be reached by the CPU; none at all.
MemoryNode(more) == Tree(Cells(2, 2), Cells(2, 2) @@ Ranges(None), Cells(2, 2) @@ Ranges(None), more @@ "device_type" :> None)
Memories == {MemoryNode(Reg(<<0, 0, 2, 0, 1, 0, 0, 0, 2, 0, 1, 0>>)), MemoryNode(Reg(<<1, 2, 1, 2, 0, 1, 1, 1>>)),
             MemoryNode(Reg(<<0, 0, 3, 0, 3, 0, 1, 0>>)), MemoryNode(None),
             MemoryNode(Reg(<<1, 0, 1, 0, 2, 0, 1, 0>>) @@ "reg-attrs" :> <<2, 0, 2>>),
             MemoryNode(Reg(<<1, 0, 1, 0>>) @@ "status" :> None),
             [MemoryNode(Reg(<<1, 0, 1, 0>>)) EXCEPT ![2] = Cells(2, 2)]}
MCBlobs == {HostBridge, KeptBridge, LostBridge, BareBridge, HighBridge, TwoWindows, SampleBus, Overlap, Top, Attrs, Bus} \cup Memories
MCPollBlobs == {SampleBus}

RAM(used) == [type |-> "SystemMemory", attrs |-> 2, used |-> used]
IO(attrs) == [type |-> "MemoryMappedIo", attrs |-> attrs, used |-> FALSE]
Nothing == [pg \in 0..2 |-> NonExistent]
\* The third has memory in use before memory that is not known.
MCMaps == {Nothing, 0 :> IO(0) @@ 1 :> RAM(TRUE) @@ 2 :> RAM(FALSE), 0 :> RAM(TRUE) @@ 1 :> NonExistent @@ 2 :> IO(1)}
MCSpaceCodes == "io" :> 1 @@ "mem" :> 2 @@ "mem4g" :> 3 @@ "pmem" :> 6 @@ "pmem4g" :> 7
MCVgaMem == [base |-> 0, size |-> 1]
MCVgaIo1 == [base |-> 1, size |-> 1]
MCVgaIo2 == [base |-> 2, size |-> 2]
MCRegTypes == 2 :> "SystemMemory" @@ 3 :> "MemoryMappedIo"
MCWidths == {[kind |-> "Uint", size |-> 1], [kind |-> "Uint", size |-> 2], [kind |-> "Fifo", size |-> 2]}
============================================================================
