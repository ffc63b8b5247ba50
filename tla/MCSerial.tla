------------------------------ MODULE MCSerial ------------------------------
(* FIFOs of two bytes over a UART that holds one.  The clock makes at most   *)
(* 300 baud: 100 is exact, 90 lies between two divisors, 40 needs too large  *)
(* a divisor, 1000 is too fast.                                              *)
EXTENDS Serial

TheBuffers  == {<<0, 1>>}
TheControls == {{"loop"}, {"flow"}}
=============================================================================
