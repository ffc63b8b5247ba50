------------------------------- MODULE Serial -------------------------------
(***************************************************************************)
(* Drivers/PciSioSerialDxe/SerialIo.c: EFI_SERIAL_IO over a 16550 UART.    *)
(* Calls run at TPL_NOTIFY, one at a time; the UART and the peer at the    *)
(* other end of the line go on between any two polls of the line status.   *)
(* A serial port is created with a reset, where the model begins.          *)
(***************************************************************************)
EXTENDS Integers, Sequences

CONSTANTS
  SERIAL_MAX_FIFO_SIZE,
  Byte, Bad,         \* Bad: arrived with a parity, framing or break error
  RxDepth,           \* bytes the UART holds
  HalfHandshake,     \* PcdSerialUseHalfHandshake
  Timeout,           \* stalls until a byte times out
  MaxTimeOut,        \* stalls until a wait for CTS is given up
  ClockRate, MaxDivisor, DefaultBaudRate,
  Bauds,             \* what SetAttributes is called with; 0: default
  Controls,          \* what SetControl is called with, subsets of Bits
  Buffers, Counts    \* what Write and Read are called with

Bits == {"rts", "loop", "flow"}
Positions == 0..(SERIAL_MAX_FIFO_SIZE - 1)

ASSUME FifoAssumption == SERIAL_MAX_FIFO_SIZE \in Nat /\ SERIAL_MAX_FIFO_SIZE >= 2
ASSUME ByteAssumption == 0 \in Byte /\ Bad \notin Byte
ASSUME UartAssumption ==
  /\ RxDepth \in Nat \ {0} /\ HalfHandshake \in BOOLEAN /\ Timeout \in Nat \ {0} /\ MaxTimeOut \in Nat
  /\ ClockRate \in Nat \ {0} /\ MaxDivisor \in Nat \ {0} /\ DefaultBaudRate \in Nat \ {0}
ASSUME CallAssumption ==
  /\ Controls \subseteq SUBSET Bits /\ Bauds \subseteq Nat /\ Counts \subseteq Nat \ {0}
  /\ \A b \in Buffers : b \in Seq(Byte) /\ b # << >>

VARIABLES
  Receive, Transmit,                            \* the FIFOs of SERIAL_DEV
  SoftwareLoopbackEnable, HardwareFlowControl,
  BaudRate, divisor,      \* SerialMode.BaudRate; the divisor latches
  wire, thre, rts,        \* UART: received bytes, LSR.Thre, MCR.Rts
  cts,                    \* MSR.Cts (the peer is connected: MSR.Dcd = 1)
  TimeOut,                \* how often CTS was waited for
  pc,      \* "idle", "rtStart", "rt", "cts", "return", "take"
  call,    \* who called SerialReceiveTransmit last
  todo,    \* bytes still to be written; of a read, only how many
  Elapsed,
  rtStatus, status,       \* what SerialReceiveTransmit and the last call returned
  sent, got   \* history: the bytes written to THR and read last

fifos    == <<Receive, Transmit>>
control  == <<SoftwareLoopbackEnable, HardwareFlowControl, BaudRate, divisor>>
uart     == <<wire, thre, rts, cts>>
caller   == <<pc, call, todo, Elapsed, rtStatus, status>>
vars     == <<fifos, control, uart, caller, TimeOut, sent, got>>

-----------------------------------------------------------------------------
(* Software FIFOs                                                          *)

EmptyFifo == [Head |-> 0, Tail |-> 0, Data |-> [p \in Positions |-> 0]]
NoWrap(p) == p + 1   \* mutant: an index runs off the end
Following(p) == (p + 1) % SERIAL_MAX_FIFO_SIZE

SerialFifoFull(f)  == Following(f.Tail) = f.Head
SerialFifoEmpty(f) == f.Head = f.Tail
Enqueued(f, b) ==
  [Head |-> f.Head, Tail |-> Following(f.Tail), Data |-> [f.Data EXCEPT ![f.Tail] = b]]
AlwaysAdds(f, b) == Enqueued(f, b)   \* mutant: adds to a full FIFO
SerialFifoAdd(f, b) == IF SerialFifoFull(f) THEN f ELSE Enqueued(f, b)
\* (A byte that was removed is never read again: it is left at 0.)
SerialFifoRemove(f) ==
  [Head |-> Following(f.Head), Tail |-> f.Tail, Data |-> [f.Data EXCEPT ![f.Head] = 0]]
First(f) == f.Data[f.Head]

\* The bytes in a FIFO, in order.
Contents(f) ==
  [i \in 1..((f.Tail - f.Head) % SERIAL_MAX_FIFO_SIZE) |->
     f.Data[(f.Head + i - 1) % SERIAL_MAX_FIFO_SIZE]]

-----------------------------------------------------------------------------
(* VerifyUartParameters (the clock rate is known)                          *)

Rounded(baud) == (ClockRate \div (16 * baud)) + (IF ClockRate % (16 * baud) >= 8 * baud THEN 1 ELSE 0)
ComputedDivisor(baud) == IF Rounded(baud) = 0 THEN 1 ELSE Rounded(baud)
Rate(d) == ClockRate \div (16 * d)

\* <<divisor, actual baud rate>>, none if the baud rate is not possible.
KeepsDivisor(baud) ==   \* mutant: a rate that is too high is accepted
  LET d == ComputedDivisor(baud) IN
  IF d > MaxDivisor \/ Rate(d) = 0 THEN << >> ELSE <<d, Rate(d)>>
VerifyUartParameters(baud) ==
  LET d == ComputedDivisor(baud) IN
  IF d > MaxDivisor \/ Rate(d) = 0 THEN << >>
  ELSE IF (baud * 100) \div Rate(d) \in 96..104 THEN <<d, baud>>
  ELSE IF Rate(d) < baud THEN <<d, Rate(d)>>
  ELSE IF d = MaxDivisor \/ Rate(d + 1) = 0 THEN << >>
  ELSE <<d + 1, Rate(d + 1)>>

ASSUME DefaultAssumption == VerifyUartParameters(DefaultBaudRate) # << >>

-----------------------------------------------------------------------------
TypeOK ==
  /\ \A f \in {Receive, Transmit} :
       f \in [Head : Positions, Tail : Positions, Data : [Positions -> Byte]]
  /\ SoftwareLoopbackEnable \in BOOLEAN /\ HardwareFlowControl \in BOOLEAN
  /\ BaudRate \in Nat \ {0} /\ divisor \in 1..MaxDivisor
  /\ wire \in Seq(Byte \cup {Bad}) /\ Len(wire) <= RxDepth
  /\ {thre, rts, cts} \subseteq BOOLEAN
  /\ pc \in {"idle", "rtStart", "rt", "cts", "return", "take"}
  /\ call \in {"none", "write", "read", "poll", "readLast", "getControl"}
  /\ todo \in Seq(Byte) /\ Elapsed \in 0..Timeout /\ TimeOut \in 0..MaxTimeOut

Init ==
  /\ Receive = EmptyFifo /\ Transmit = EmptyFifo
  /\ SoftwareLoopbackEnable = FALSE /\ HardwareFlowControl \in BOOLEAN
  /\ divisor = VerifyUartParameters(DefaultBaudRate)[1]
  /\ BaudRate = VerifyUartParameters(DefaultBaudRate)[2]
  /\ wire = << >> /\ thre = TRUE /\ rts = FALSE /\ cts = TRUE
  /\ pc = "idle" /\ call = "none" /\ todo = << >> /\ Elapsed = 0
  /\ rtStatus = "EFI_SUCCESS" /\ status = "EFI_SUCCESS"
  /\ TimeOut = 0 /\ sent = 0 /\ got = 0

-----------------------------------------------------------------------------
(* SerialReceiveTransmit                                                   *)

ReturnsFromRt(s) == pc' = "return" /\ rtStatus' = s /\ UNCHANGED <<call, todo, Elapsed, status>>
Again == pc' = "rt" /\ UNCHANGED <<call, todo, Elapsed, rtStatus, status>>

\* For full handshake flow control, tell the peer to send if there is room.
RtStart ==
  /\ pc = "rtStart"
  /\ pc' = "rt"
  /\ rts' = (rts \/ (/\ HardwareFlowControl /\ ~SoftwareLoopbackEnable
                     /\ ~HalfHandshake /\ ~SerialFifoFull(Receive)))
  /\ UNCHANGED <<fifos, control, wire, thre, cts, call, todo, Elapsed, rtStatus, status, TimeOut, sent, got>>

\* Software loopback: the byte leaves Transmit before Receive turns out full.
LoopBack ==
  /\ SoftwareLoopbackEnable
  /\ \/ /\ SerialFifoEmpty(Transmit)
        /\ ReturnsFromRt("EFI_SUCCESS") /\ UNCHANGED fifos
     \/ /\ ~SerialFifoEmpty(Transmit)
        /\ Transmit' = SerialFifoRemove(Transmit)
        /\ Receive' = SerialFifoAdd(Receive, First(Transmit))
        /\ IF SerialFifoFull(Receive) THEN ReturnsFromRt("EFI_OUT_OF_RESOURCES")
           ELSE IF SerialFifoEmpty(Transmit') THEN ReturnsFromRt("EFI_SUCCESS")
           ELSE Again
  /\ UNCHANGED <<uart, TimeOut, sent>>

\* while (Lsr.Bits.Thre == 1 && !SerialFifoEmpty (&SerialDevice->Transmit)),
\* with the line status as it was read.
Loops == IF thre /\ ~SerialFifoEmpty(Transmit') THEN Again ELSE ReturnsFromRt("EFI_SUCCESS")

TakeOne ==
  /\ ~SoftwareLoopbackEnable
  /\ wire # << >> /\ ~SerialFifoFull(Receive)
  /\ wire' = Tail(wire)
  /\ \/ Head(wire) = Bad /\ UNCHANGED <<Receive, rts>>
     \/ /\ Head(wire) # Bad
        /\ Receive' = SerialFifoAdd(Receive, Head(wire))
        /\ rts' = (rts /\ ~(HardwareFlowControl /\ ~HalfHandshake /\ SerialFifoFull(Receive')))
  /\ UNCHANGED <<Transmit, thre, cts, TimeOut, sent>>
  /\ Loops

ToSend == thre /\ ~SerialFifoEmpty(Transmit)
SendByte ==
  /\ Transmit' = SerialFifoRemove(Transmit)
  /\ sent' = First(Transmit)
  /\ thre' = FALSE

\* With half handshake, RTS is lowered before sending.
SendOne ==
  /\ ~SoftwareLoopbackEnable
  /\ wire = << >> \/ SerialFifoFull(Receive)
  /\ IF ToSend /\ HardwareFlowControl
     THEN /\ pc' = "cts" /\ rts' = (rts /\ ~HalfHandshake)
          /\ UNCHANGED <<Transmit, sent, thre, call, todo, Elapsed, rtStatus, status>>
     ELSE /\ IF ToSend THEN SendByte ELSE UNCHANGED <<Transmit, sent, thre>>
          /\ rts' = rts /\ Loops
  /\ UNCHANGED <<Receive, wire, cts, TimeOut>>

RtStep == pc = "rt" /\ (LoopBack \/ TakeOne \/ SendOne) /\ UNCHANGED <<control, got>>

\* CTS is read a limited number of times; with half handshake it is low active,
\* and RTS is raised afterwards.
ClearToSend == cts # HalfHandshake
WaitForCts ==
  /\ pc = "cts"
  /\ IF ClearToSend \/ TimeOut = MaxTimeOut
     THEN /\ TimeOut' = 0
          /\ IF ClearToSend THEN SendByte ELSE UNCHANGED <<Transmit, sent, thre>>
          /\ rts' = (rts \/ HalfHandshake)
          /\ Loops
     ELSE /\ TimeOut' = TimeOut + 1
          /\ UNCHANGED <<Transmit, sent, thre, rts, caller>>
  /\ UNCHANGED <<Receive, control, wire, cts, got>>

-----------------------------------------------------------------------------
(* Calls                                                                   *)

Finishes(s) ==
  /\ pc' = "idle" /\ status' = s
  /\ todo' = << >> /\ Elapsed' = 0 /\ rtStatus' = "EFI_SUCCESS" /\ UNCHANGED call
Polls(who) == pc' = "rtStart" /\ call' = who /\ status' = "EFI_SUCCESS" /\ UNCHANGED rtStatus

\* SerialWrite: one byte at a time, until Transmit is empty again.  A full
\* Transmit does not take the byte.
Write(buffer) ==
  /\ pc = "idle"
  /\ Transmit' = SerialFifoAdd(Transmit, buffer[1])
  /\ todo' = Tail(buffer) /\ Elapsed' = 0
  /\ Polls("write")
  /\ UNCHANGED <<Receive, control, uart, TimeOut, sent, got>>

WriteNext ==
  /\ call = "write" /\ rtStatus = "EFI_SUCCESS" /\ SerialFifoEmpty(Transmit)
  /\ IF todo = << >> THEN Finishes("EFI_SUCCESS") /\ UNCHANGED Transmit
     ELSE /\ Transmit' = SerialFifoAdd(Transmit, Head(todo))
          /\ todo' = Tail(todo) /\ Elapsed' = 0
          /\ Polls("write")

RetriesForever(who) == UNCHANGED <<todo, Elapsed>> /\ Polls(who)   \* mutant: no timeout
Stall(who) ==
  IF Elapsed >= Timeout THEN Finishes("EFI_TIMEOUT")
  ELSE Elapsed' = Elapsed + 1 /\ UNCHANGED todo /\ Polls(who)

WriteAgain ==
  /\ call = "write" /\ (rtStatus # "EFI_SUCCESS" \/ ~SerialFifoEmpty(Transmit))
  /\ Stall("write")
  /\ UNCHANGED Transmit

\* SerialRead: an error of the first poll is reported, later ones are not.
Read(n) ==
  /\ pc = "idle"
  /\ todo' = [i \in 1..n |-> 0] /\ Elapsed' = 0
  /\ Polls("read")
  /\ UNCHANGED <<fifos, control, uart, TimeOut, sent, got>>

ReadOn ==
  /\ call \in {"read", "poll"}
  /\ IF call = "read" /\ rtStatus # "EFI_SUCCESS" THEN Finishes("EFI_DEVICE_ERROR")
     ELSE pc' = "take" /\ UNCHANGED <<call, todo, Elapsed, rtStatus, status>>
  /\ UNCHANGED Transmit

NoLastPoll == Finishes("EFI_SUCCESS")   \* mutant: no poll after the last byte
LastPoll == UNCHANGED <<todo, Elapsed>> /\ Polls("readLast")

TakeByte ==
  /\ pc = "take"
  /\ IF todo = << >> THEN LastPoll /\ UNCHANGED <<Receive, got>>
     ELSE IF SerialFifoEmpty(Receive) THEN Stall("poll") /\ UNCHANGED <<Receive, got>>
     ELSE /\ got' = First(Receive)
          /\ Receive' = SerialFifoRemove(Receive)
          /\ todo' = Tail(todo) /\ Elapsed' = 0
          /\ UNCHANGED <<pc, call, rtStatus, status>>
  /\ UNCHANGED <<Transmit, control, uart, TimeOut, sent>>

GetControl ==
  /\ pc = "idle"
  /\ UNCHANGED <<todo, Elapsed>>
  /\ Polls("getControl")
  /\ UNCHANGED <<fifos, control, uart, TimeOut, sent, got>>

Done == call \in {"readLast", "getControl"} /\ Finishes("EFI_SUCCESS") /\ UNCHANGED Transmit

Return ==
  /\ pc = "return"
  /\ WriteNext \/ WriteAgain \/ ReadOn \/ Done
  /\ UNCHANGED <<Receive, control, uart, TimeOut, sent, got>>

\* The transmitter drains or the flush times out; no caller looks at which.
SerialFlushTransmitFifo == thre' \in {thre, TRUE}

SetControl(bits) ==
  /\ pc = "idle"
  /\ SerialFlushTransmitFifo
  /\ rts' = ("rts" \in bits)
  /\ SoftwareLoopbackEnable' = ("loop" \in bits)
  /\ HardwareFlowControl' = ("flow" \in bits)
  /\ status' = "EFI_SUCCESS" /\ call' = "none"
  /\ UNCHANGED <<fifos, BaudRate, divisor, wire, cts, TimeOut, pc, todo, Elapsed, rtStatus, sent, got>>

Requested(baud) == IF baud = 0 THEN DefaultBaudRate ELSE baud

SetAttributes(baud) ==
  LET verified == VerifyUartParameters(Requested(baud)) IN
  /\ pc = "idle"
  /\ call' = "none"
  /\ IF verified = << >> THEN status' = "EFI_INVALID_PARAMETER" /\ UNCHANGED <<BaudRate, divisor, thre>>
     ELSE /\ status' = "EFI_SUCCESS" /\ divisor' = verified[1] /\ BaudRate' = verified[2]
          /\ SerialFlushTransmitFifo
  /\ UNCHANGED <<fifos, SoftwareLoopbackEnable, HardwareFlowControl, wire, rts, cts, TimeOut, pc, todo, Elapsed,
                 rtStatus, sent, got>>

\* SerialReset: the UART's FIFOs are reset, the attributes and the flow control
\* set again, and the software FIFOs emptied.
Reset ==
  LET verified == VerifyUartParameters(BaudRate) IN
  /\ pc = "idle"
  /\ wire' = << >> /\ thre' = TRUE /\ call' = "none"
  /\ IF verified = << >> THEN status' = "EFI_DEVICE_ERROR" /\ UNCHANGED <<fifos, BaudRate, divisor, rts>>
     ELSE /\ status' = "EFI_SUCCESS" /\ divisor' = verified[1] /\ BaudRate' = verified[2]
          /\ rts' = FALSE
          /\ Receive' = EmptyFifo /\ Transmit' = EmptyFifo
  /\ UNCHANGED <<SoftwareLoopbackEnable, HardwareFlowControl, cts, TimeOut, pc, todo, Elapsed, rtStatus,
                 sent, got>>

-----------------------------------------------------------------------------
(* The UART and the peer (external)                                        *)

Sends == ~thre /\ thre' = TRUE /\ UNCHANGED <<wire, cts>>
\* A byte for which the UART has no room is lost; CTS only matters to flow control.
Arrives == Len(wire) < RxDepth /\ (\E b \in Byte \cup {Bad} : wire' = Append(wire, b)) /\ UNCHANGED <<thre, cts>>
PeerCts == HardwareFlowControl /\ cts' = ~cts /\ UNCHANGED <<wire, thre>>
Hardware == (Sends \/ Arrives \/ PeerCts) /\ UNCHANGED <<fifos, control, rts, caller, TimeOut, sent, got>>

Progress == RtStart \/ RtStep \/ WaitForCts \/ Return \/ TakeByte
Next ==
  \/ Progress \/ Hardware
  \/ \E b \in Buffers : Write(b)
  \/ \E n \in Counts : Read(n)
  \/ \E bits \in Controls : SetControl(bits)
  \/ \E baud \in Bauds : SetAttributes(baud)
  \/ GetControl \/ Reset

\* A call that was made goes on: nothing preempts it for good.  Nothing is
\* assumed about the UART and the peer.
Spec == Init /\ [][Next]_vars
FairSpec == Spec /\ WF_vars(Progress)

-----------------------------------------------------------------------------
(* Properties                                                              *)

\* The two ring buffers and the polling implement the line: no byte is lost,
\* duplicated or reordered between SerialWrite and THR, or between RBR and
\* SerialRead, whatever timeouts, errors and changes of mode come between.
Line == INSTANCE SerialLine WITH
          out <- Contents(Transmit), in <- Contents(Receive),
          Capacity <- SERIAL_MAX_FIFO_SIZE - 1
ImplementsLine == Line!LineSpec

\* With full handshake, a call that polled the UART leaves the peer stopped only
\* if there is no room for what it sends (else the peer would wait for ever for
\* a driver that waits for the peer).  SerialRead makes room and must poll again.
RtsRaised ==
  (pc = "idle" /\ call # "none" /\ HardwareFlowControl /\ ~HalfHandshake
     /\ ~SoftwareLoopbackEnable /\ ~rts) => SerialFifoFull(Receive)

\* VerifyUartParameters: what SetAttributes reports is what the divisor makes the
\* UART do, within 4%, and never more than what was asked for; a reset, which
\* asks for what was reported, changes nothing.
\* (Below 40 baud, where Rounded and Rate both round coarsely, a reset can lower
\* the rate again; none of Bauds is that low.)
Tolerated == (BaudRate * 100) \div Rate(divisor) \in 96..104
RatesKept ==
  [][/\ Tolerated'
     /\ \A baud \in Bauds : SetAttributes(baud) /\ status' = "EFI_SUCCESS" => BaudRate' <= Requested(baud)
     /\ Reset => status' = "EFI_SUCCESS" /\ UNCHANGED <<BaudRate, divisor>>]_vars

\* Every call returns, in spite of a silent peer and of bytes that keep coming,
\* unless the peer withholds CTS, or bytes with errors, which do not fill the
\* FIFO, come as fast as they are thrown away: only then nothing is sent.
Held == \/ pc = "cts" /\ ~ClearToSend
        \/ pc = "rt" /\ wire # << >> /\ Head(wire) = Bad
CallsReturn == (pc # "idle") ~> (pc = "idle" \/ Held)

\* "@retval EFI_TIMEOUT The write operation was stopped due to timeout": a write
\* ends.  (It does not: while CTS is withheld, SerialReceiveTransmit tries again
\* and again for as long as THR is empty, and SerialWrite's timeout is never
\* looked at.)
WriteEnds == (pc # "idle" /\ call = "write") ~> (pc = "idle")
=============================================================================
