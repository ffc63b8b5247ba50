----------------------------- MODULE SerialLine -----------------------------
(***************************************************************************)
(* What a serial port promises: bytes go out in the order they were        *)
(* accepted, and come in, apart from those with an error, in the order in  *)
(* which they arrived.  Only a reset, or a loopback nobody reads, drops    *)
(* what was queued.                                                        *)
(***************************************************************************)
EXTENDS Naturals, Sequences

CONSTANTS Byte, Bad, Capacity

VARIABLES
  out,   \* accepted, not yet sent
  in,    \* received, not yet read
  wire,  \* arrived in the UART, not yet taken
  sent,  \* what was sent last
  got    \* what was read last

lineVars == <<out, in, wire, sent, got>>

Accept == \E b \in Byte : Len(out) < Capacity /\ out' = Append(out, b) /\ UNCHANGED <<in, wire, sent, got>>
Send   == /\ out # << >>
          /\ sent' = Head(out) /\ out' = Tail(out)
          /\ UNCHANGED <<in, wire, got>>
Loop   == /\ out # << >>
          /\ out' = Tail(out)
          /\ in' = IF Len(in) < Capacity THEN Append(in, Head(out)) ELSE in
          /\ UNCHANGED <<wire, sent, got>>
Arrive == \E b \in Byte \cup {Bad} : wire' = Append(wire, b) /\ UNCHANGED <<out, in, sent, got>>
Take   == /\ wire # << >> /\ wire' = Tail(wire)
          /\ \/ Head(wire) = Bad /\ in' = in
             \/ Head(wire) # Bad /\ Len(in) < Capacity /\ in' = Append(in, Head(wire))
          /\ UNCHANGED <<out, sent, got>>
Read   == /\ in # << >>
          /\ got' = Head(in) /\ in' = Tail(in)
          /\ UNCHANGED <<out, wire, sent>>
\* A reset that fails has only emptied the UART.
Reset  == /\ wire' = << >>
          /\ (out' = << >> /\ in' = << >>) \/ UNCHANGED <<out, in>>
          /\ UNCHANGED <<sent, got>>

LineSpec ==
  /\ out = << >> /\ in = << >> /\ wire = << >>
  /\ [][Accept \/ Send \/ Loop \/ Arrive \/ Take \/ Read \/ Reset]_lineVars
=============================================================================
