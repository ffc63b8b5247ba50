----------------------------- MODULE MCPciHost ------------------------------
(* 64 addresses, of which 16 are below 4G.                                 *)
EXTENDS PciHost, TLC

R(base, parent, length) == [base |-> base, parent |-> parent, length |-> length]
Absent == R(0, 0, 0)
Ranges(i, m32, p32, m64, p64) ==
  [TypeIo |-> i, TypeMem32 |-> m32, TypePMem32 |-> p32, TypeMem64 |-> m64, TypePMem64 |-> p64,
   TypeBus |-> R(0, 0, 4)]

Io(length, align) == [space |-> "io", bits |-> 0, prefetch |-> FALSE, length |-> length, align |-> align]
Mem(bits, length, align) ==
  [space |-> "mem", bits |-> bits, prefetch |-> FALSE, length |-> length, align |-> align]
PMem(bits, length, align) == [Mem(bits, length, align) EXCEPT !.prefetch = TRUE]
Bus == [Io(2, 1) EXCEPT !.space = "bus"]

\* One bridge.  I/O is decoded far from its host addresses, both memory ranges
\* are moved by 4 addresses, and there is no prefetchable memory.
OneBridge == "b1" :> Ranges(R(0, 48, 8), R(4, 8, 8), Absent, R(16, 20, 12), Absent)
OneCpu    == "b1" :> Types
Mixed == {<<Io(4, 3), Mem(32, 4, 3)>>, <<Mem(64, 8, 3), Mem(32, 4, 1)>>,
          <<Bus, Mem(64, 8, 7)>>, <<Io(6, 3), PMem(64, 4, 3)>>}

\* Two bridges that decode the same I/O addresses, which the GCD shares out; the
\* first keeps its configuration.  The I/O range of a third is partly reserved.
ThreeBridges == "b1" :> Ranges(R(0, 48, 4), R(4, 8, 4), Absent, Absent, Absent)
             @@ "b2" :> Ranges(R(0, 40, 8), R(12, 32, 4), Absent, Absent, Absent)
             @@ "b3" :> Ranges(R(12, 60, 4), R(8, 20, 4), Absent, Absent, Absent)
ThreeCpu   == [b \in {"b1", "b2", "b3"} |-> Types]
TwoCpu     == [b \in {"b1", "b2"} |-> Types]
Small      == {<<Io(4, 3), Mem(32, 2, 1)>>, <<Io(8, 3), Mem(32, 4, 3)>>, <<Mem(32, 8, 3)>>}

\* The 64-bit range is not there, and the range below 4G is moved.
NoMem64 == "b1" :> Ranges(Absent, R(4, 24, 8), Absent, Absent, Absent)
OnlyMem64 == {<<Mem(64, 4, 3)>>}
=============================================================================
