------------------------------ MODULE MCDtDma -------------------------------
(* Four pages of two cells; drivers own two of them already.  "4G" is at     *)
(* cell 4.  The bus soc passes on the first six cells; the device below has  *)
(* no limits of its own.  The bus odd has translation and another an         *)
(* incoherent DMA: both must be refused.                                     *)
EXTENDS DtDma, TLC

TheDevices == {"soc", "dev", "odd"}
TheParent  == "dev" :> "soc" @@ "odd" :> "soc"
TheRanges  == "soc" :> {[child |-> 0, parent |-> 0, size |-> 6]}
           @@ "odd" :> {[child |-> 0, parent |-> 0, size |-> 2], [child |-> 2, parent |-> 4, size |-> 2]}

FourG == 4
No   == [max |-> LastAddress, coherent |-> TRUE]
Low  == PciExtra(FourG, FALSE, DmaAbove4G("dev", FourG))
Wide == PciExtra(FourG, TRUE, DmaAbove4G("dev", FourG))
Incoherent == [max |-> LastAddress, coherent |-> FALSE]

Call(dev, op, host, bytes, extra) ==
  [dev |-> dev, op |-> op, host |-> host, bytes |-> bytes, extra |-> extra]

\* Across the end of what the bus passes on, wholly inside it, above "4G", and
\* in a buffer of AllocateBuffer.
TheCalls == {
  Call("dev", "read",   5, 2, Wide),  Call("dev", "read",  4, 2, No),
  Call("dev", "write",  4, 1, Low),   Call("dev", "write", 7, 1, No),
  Call("dev", "common", 2, 2, Low),   Call("dev", "common", 6, 1, No),
  Call("odd", "write",  4, 1, No),    Call("dev", "read",  4, 1, Incoherent)}
TheBuffers == {[dev |-> "dev", pages |-> 1, extra |-> Low], [dev |-> "odd", pages |-> 1, extra |-> No]}
=============================================================================
