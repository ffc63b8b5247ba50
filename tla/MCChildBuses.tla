---------------------------- MODULE MCChildBuses ----------------------------
(* One controller of each kind; a PCI device with one and with two UARTs.  *)
EXTENDS ChildBuses

Serial(io, uarts) == [driver |-> "PciSioSerialDxe", io |-> io, uarts |-> uarts]
MCControllers ==
  {Serial("Sio", 0), Serial("DtIo", 0), Serial("PciIo", 1), Serial("PciIo", 2),
   [driver |-> "VirtioFdtDxe", io |-> "DtIo", uarts |-> 0]}
=============================================================================
