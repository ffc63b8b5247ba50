---------------------------- MODULE SerialProofs ----------------------------
(***************************************************************************)
(* Proofs about Serial, for FIFOs of any size, any bytes, calls and        *)
(* timeouts: the ring buffers implement the line, RTS is raised again, and *)
(* the baud rate survives a reset.                                         *)
(***************************************************************************)
EXTENDS Serial, TLAPS

-----------------------------------------------------------------------------
(* Ring buffers                                                            *)

N == SERIAL_MAX_FIFO_SIZE
Fifo == [Head : Positions, Tail : Positions, Data : [Positions -> Byte]]
Length(f) == (f.Tail - f.Head) % N
Place(f, i) == (f.Head + i - 1) % N

\* Positions wrap at most once.
LEMMA Wrapping ==
  /\ N \in Nat /\ N >= 2 /\ Positions = 0..(N - 1)
  /\ \A x \in 0..(N - 1) : x % N = x
  /\ \A x \in N..(2 * N - 1) : x % N = x - N
  /\ \A x \in (1 - N)..(-1) : x % N = x + N
<1>1. N \in Nat /\ N >= 2 /\ Positions = 0..(N - 1)
  BY FifoAssumption DEF N, Positions
<1>. HIDE DEF N
<1>2. \A x \in 0..(N - 1) : x % N = x
  BY <1>1
<1>3. \A x \in N..(2 * N - 1) : x % N = x - N
  BY <1>1
<1>4. \A x \in (1 - N)..(-1) : x % N = x + N
  BY <1>1
<1>. QED  BY <1>1, <1>2, <1>3, <1>4

\* How many bytes there are.
LEMMA Lengths ==
  ASSUME NEW f \in Fifo
  PROVE  /\ Length(f) \in 0..(N - 1)
         /\ Length(f) = IF f.Tail >= f.Head THEN f.Tail - f.Head ELSE f.Tail - f.Head + N
         /\ f.Head \in 0..(N - 1) /\ f.Tail \in 0..(N - 1)
<1>1. f.Head \in 0..(N - 1) /\ f.Tail \in 0..(N - 1)
  BY Wrapping DEF Fifo
<1>2. CASE f.Tail >= f.Head
  <2>1. f.Tail - f.Head \in 0..(N - 1)
    BY <1>1, <1>2, Wrapping
  <2>. QED  BY <1>1, <1>2, <2>1, Wrapping DEF Length
<1>3. CASE f.Tail < f.Head
  <2>1. f.Tail - f.Head \in (1 - N)..(-1)
    BY <1>1, <1>3, Wrapping
  <2>2. Length(f) = f.Tail - f.Head + N
    BY <2>1, Wrapping DEF Length
  <2>. QED  BY SMTT(60), <1>1, <1>3, <2>1, <2>2, Wrapping
<1>. QED  BY <1>1, <1>2, <1>3

\* Where the i-th byte is.
LEMMA Places ==
  ASSUME NEW f \in Fifo, NEW i \in 1..N
  PROVE  /\ Place(f, i) \in Positions
         /\ Place(f, i) = IF f.Head + i - 1 < N THEN f.Head + i - 1 ELSE f.Head + i - 1 - N
<1>1. f.Head \in 0..(N - 1) /\ N \in Nat /\ Positions = 0..(N - 1)
  BY Wrapping DEF Fifo
<1>2. CASE f.Head + i - 1 < N
  <2>1. f.Head + i - 1 \in 0..(N - 1)
    BY <1>1, <1>2
  <2>. QED  BY <1>1, <1>2, <2>1, Wrapping DEF Place
<1>3. CASE f.Head + i - 1 >= N
  <2>1. PICK x \in N..(2 * N - 1) : x = f.Head + i - 1
    BY <1>1, <1>3
  <2>2. x % N = x - N
    BY Wrapping
  <2>4. Place(f, i) = f.Head + i - 1 - N
    BY <1>1, <2>1, <2>2 DEF Place
  <2>3. f.Head + i - 1 - N \in 0..(N - 1)
    BY <1>1, <1>3
  <2>. QED  BY <1>1, <1>3, <2>3, <2>4
<1>. QED  BY <1>1, <1>2, <1>3

\* The next position.
LEMMA Followings ==
  \A p \in Positions : /\ Following(p) \in Positions
                       /\ Following(p) = IF p = N - 1 THEN 0 ELSE p + 1
<1>. SUFFICES ASSUME NEW p \in Positions
              PROVE  /\ Following(p) \in Positions
                     /\ Following(p) = IF p = N - 1 THEN 0 ELSE p + 1
  OBVIOUS
<1>1. p \in 0..(N - 1) /\ N \in Nat /\ Positions = 0..(N - 1) /\ Following(p) = (p + 1) % N
  BY Wrapping DEF Following, N
<1>2. CASE p = N - 1
  <2>1. p + 1 \in N..(2 * N - 1) /\ p + 1 - N = 0
    BY <1>1, <1>2, Wrapping
  <2>. QED  BY <1>1, <1>2, <2>1, Wrapping
<1>3. CASE p # N - 1
  <2>1. p + 1 \in 0..(N - 1)
    BY <1>1, <1>3
  <2>. QED  BY <1>1, <1>3, <2>1, Wrapping
<1>. QED  BY <1>2, <1>3

\* What the tests for a full and an empty FIFO find.
LEMMA Limits ==
  ASSUME NEW f \in Fifo
  PROVE  /\ SerialFifoFull(f) <=> Length(f) = N - 1
         /\ SerialFifoEmpty(f) <=> Length(f) = 0
<1>1. f.Tail \in Positions
  BY DEF Fifo
<1>2. /\ f.Head \in 0..(N - 1) /\ f.Tail \in 0..(N - 1) /\ N \in Nat /\ N >= 2
      /\ Length(f) = IF f.Tail >= f.Head THEN f.Tail - f.Head ELSE f.Tail - f.Head + N
  BY Lengths, Wrapping
<1>3. Following(f.Tail) = IF f.Tail = N - 1 THEN 0 ELSE f.Tail + 1
  BY <1>1, Followings
<1>4. Following(f.Tail) = f.Head <=> Length(f) = N - 1
  BY <1>2, <1>3
<1>5. f.Head = f.Tail <=> Length(f) = 0
  BY <1>2
<1>. QED  BY <1>4, <1>5 DEF SerialFifoFull, SerialFifoEmpty

\* The bytes in a FIFO, as a sequence.
LEMMA ContentsTyped ==
  ASSUME NEW f \in Fifo
  PROVE  /\ Contents(f) \in Seq(Byte) /\ Len(Contents(f)) = Length(f)
         /\ \A i \in 1..Length(f) : Contents(f)[i] = f.Data[Place(f, i)]
<1>1. Contents(f) = [i \in 1..Length(f) |-> f.Data[Place(f, i)]]
  BY DEF Contents, Length, Place, N
<1>2. Length(f) \in 0..(N - 1) /\ N \in Nat
  BY Lengths, Wrapping
<1>3. \A i \in 1..Length(f) : f.Data[Place(f, i)] \in Byte
  BY <1>2, Places DEF Fifo
<1>. QED  BY <1>1, <1>2, <1>3

\* SerialFifoAdd appends, unless the FIFO is full.
LEMMA AddAppends ==
  ASSUME NEW f \in Fifo, NEW b \in Byte
  PROVE  /\ SerialFifoAdd(f, b) \in Fifo
         /\ SerialFifoFull(f) => SerialFifoAdd(f, b) = f
         /\ ~SerialFifoFull(f) => Contents(SerialFifoAdd(f, b)) = Append(Contents(f), b)
<1>1. SerialFifoFull(f) => SerialFifoAdd(f, b) = f
  BY DEF SerialFifoAdd
<1>2. ASSUME ~SerialFifoFull(f)
      PROVE  SerialFifoAdd(f, b) \in Fifo /\ Contents(SerialFifoAdd(f, b)) = Append(Contents(f), b)
  <2>. DEFINE g == Enqueued(f, b)
              l == Length(f)
  <2>1. /\ g = [Head |-> f.Head, Tail |-> Following(f.Tail), Data |-> [f.Data EXCEPT ![f.Tail] = b]]
        /\ SerialFifoAdd(f, b) = g
    BY <1>2 DEF Enqueued, SerialFifoAdd, Fifo
  <2>2. g \in Fifo /\ g.Head = f.Head /\ g.Tail = Following(f.Tail) /\ f.Tail \in Positions
    BY <2>1, Followings DEF Fifo
  <2>3. /\ \A p \in Positions : p # f.Tail => g.Data[p] = f.Data[p]
        /\ g.Data[f.Tail] = b
    BY <2>1 DEF Fifo
  <2>. HIDE DEF g
  <2>4. l \in 0..(N - 2) /\ N \in Nat /\ N >= 2
    BY <1>2, Limits, Lengths, Wrapping
  <2>5. Length(g) = l + 1
    BY <1>2, <2>2, <2>4, Lengths, Followings, Limits
  <2>. HIDE DEF l
  <2>6. \A i \in 1..N : Place(g, i) = Place(f, i)
    BY <2>2 DEF Place
  <2>7. l + 1 \in 1..N /\ Place(f, l + 1) = f.Tail
    <3>1. l + 1 \in 1..N
      BY <2>4
    <3>. QED  BY <3>1, <2>4, Places, Lengths DEF l
  <2>8. ASSUME NEW i \in 1..l
        PROVE  Place(f, i) # f.Tail /\ Place(f, i) \in Positions /\ i \in 1..N
    <3>1. i \in 1..N
      BY <2>4
    <3>. QED  BY <2>4, <3>1, Places, Lengths DEF l
  <2>9. /\ Len(Contents(g)) = l + 1 /\ Contents(g) \in Seq(Byte)
        /\ \A i \in 1..(l + 1) : Contents(g)[i] = g.Data[Place(g, i)]
    BY <2>2, <2>5, ContentsTyped
  <2>10. /\ Len(Contents(f)) = l /\ Contents(f) \in Seq(Byte)
         /\ \A i \in 1..l : Contents(f)[i] = f.Data[Place(f, i)]
    BY ContentsTyped DEF l
  <2>11. \A i \in 1..l : Contents(g)[i] = Contents(f)[i]
    BY <2>3, <2>4, <2>6, <2>8, <2>9, <2>10
  <2>12. Contents(g)[l + 1] = b
    BY <2>3, <2>4, <2>6, <2>7, <2>9
  <2>13. Contents(g) = Append(Contents(f), b)
    BY <2>4, <2>9, <2>10, <2>11, <2>12
  <2>. QED  BY <2>1, <2>2, <2>13
<1>. QED  BY <1>1, <1>2

\* SerialFifoRemove takes the first byte.
LEMMA RemoveTakes ==
  ASSUME NEW f \in Fifo, ~SerialFifoEmpty(f), 0 \in Byte
  PROVE  /\ SerialFifoRemove(f) \in Fifo
         /\ Contents(f) # << >> /\ First(f) = Head(Contents(f)) /\ First(f) \in Byte
         /\ Contents(SerialFifoRemove(f)) = Tail(Contents(f))
<1>. DEFINE g == SerialFifoRemove(f)
            l == Length(f)
<1>1. g = [Head |-> Following(f.Head), Tail |-> f.Tail, Data |-> [f.Data EXCEPT ![f.Head] = 0]]
  BY DEF SerialFifoRemove, Fifo
<1>2. g \in Fifo /\ g.Tail = f.Tail /\ g.Head = Following(f.Head) /\ f.Head \in Positions
  BY <1>1, Followings DEF Fifo
<1>3. \A p \in Positions : p # f.Head => g.Data[p] = f.Data[p]
  BY <1>1 DEF Fifo
<1>. HIDE DEF g
<1>4. l \in 1..(N - 1) /\ N \in Nat /\ N >= 2
  BY Limits, Lengths, Wrapping
<1>5. Length(g) = l - 1
  BY <1>2, <1>4, Lengths, Followings, Limits
<1>6. /\ Len(Contents(f)) = l /\ Contents(f) \in Seq(Byte)
      /\ \A i \in 1..l : Contents(f)[i] = f.Data[Place(f, i)]
  BY ContentsTyped
<1>7. /\ Len(Contents(g)) = l - 1 /\ Contents(g) \in Seq(Byte)
      /\ \A i \in 1..(l - 1) : Contents(g)[i] = g.Data[Place(g, i)]
  BY <1>2, <1>5, ContentsTyped
<1>. HIDE DEF l
<1>8. Place(f, 1) = f.Head
  <2>1. 1 \in 1..N
    BY <1>4
  <2>. QED  BY <1>4, <2>1, Places, Lengths
<1>9. ASSUME NEW i \in 1..(l - 1)
      PROVE  Place(g, i) = Place(f, i + 1) /\ Place(f, i + 1) # f.Head /\ Place(f, i + 1) \in Positions
  <2>1. i \in 1..N /\ i + 1 \in 1..N
    BY <1>4
  <2>2. /\ Place(g, i) = IF g.Head + i - 1 < N THEN g.Head + i - 1 ELSE g.Head + i - 1 - N
        /\ Place(f, i + 1) = IF f.Head + (i + 1) - 1 < N THEN f.Head + (i + 1) - 1 ELSE f.Head + (i + 1) - 1 - N
        /\ Place(f, i + 1) \in Positions
    BY <1>2, <2>1, Places
  <2>3. g.Head = IF f.Head = N - 1 THEN 0 ELSE f.Head + 1
    BY <1>2, Followings
  <2>. QED  BY <1>4, <2>2, <2>3, Lengths
<1>10. \A i \in 1..(l - 1) : Contents(g)[i] = Contents(f)[i + 1]
  BY SMTT(60), <1>3, <1>4, <1>6, <1>7, <1>9
<1>11. Contents(g) = Tail(Contents(f))
  BY <1>4, <1>6, <1>7, <1>10
<1>12. Contents(f) # << >> /\ First(f) = Head(Contents(f)) /\ First(f) \in Byte
  BY <1>2, <1>4, <1>6, <1>8 DEF First, Fifo
<1>. QED  BY <1>2, <1>11, <1>12 DEF g

-----------------------------------------------------------------------------
(* Baud rates                                                              *)

\* What VerifyUartParameters accepts can be programmed.
LEMMA Programmable ==
  ASSUME NEW baud \in Nat \ {0}, VerifyUartParameters(baud) # << >>
  PROVE  /\ VerifyUartParameters(baud)[1] \in 1..MaxDivisor
         /\ VerifyUartParameters(baud)[2] \in Nat \ {0}
<1>. DEFINE d == ComputedDivisor(baud)
<1>1. Rounded(baud) \in Nat
  <2>1. 16 * baud \in Nat \ {0}
    OBVIOUS
  <2>2. ClockRate \div (16 * baud) \in Nat
    BY <2>1, UartAssumption
  <2>. QED  BY <2>2 DEF Rounded
<1>2. d \in Nat \ {0}
  BY <1>1 DEF ComputedDivisor
<1>3. \A k \in Nat \ {0} : Rate(k) \in Nat
  <2>. SUFFICES ASSUME NEW k \in Nat \ {0} PROVE Rate(k) \in Nat
    OBVIOUS
  <2>1. 16 * k \in Nat \ {0}
    OBVIOUS
  <2>. QED  BY <2>1, UartAssumption DEF Rate
<1>. HIDE DEF d
<1>4. VerifyUartParameters(baud) =
        IF d > MaxDivisor \/ Rate(d) = 0 THEN << >>
        ELSE IF (baud * 100) \div Rate(d) \in 96..104 THEN <<d, baud>>
        ELSE IF Rate(d) < baud THEN <<d, Rate(d)>>
        ELSE IF d = MaxDivisor \/ Rate(d + 1) = 0 THEN << >>
        ELSE <<d + 1, Rate(d + 1)>>
  BY DEF VerifyUartParameters, d
<1>5. d \in 1..MaxDivisor /\ Rate(d) \in Nat \ {0}
  BY <1>2, <1>3, <1>4, UartAssumption
<1>6. \/ VerifyUartParameters(baud) = <<d, baud>>
      \/ VerifyUartParameters(baud) = <<d, Rate(d)>>
      \/ /\ d # MaxDivisor /\ Rate(d + 1) # 0
         /\ VerifyUartParameters(baud) = <<d + 1, Rate(d + 1)>>
  BY <1>4
<1>7. d # MaxDivisor => d + 1 \in 1..MaxDivisor /\ Rate(d + 1) \in Nat
  BY <1>3, <1>5, UartAssumption
<1>. QED  BY <1>5, <1>6, <1>7

-----------------------------------------------------------------------------
(* The inductive invariant                                                 *)

\* Where RTS may be down though there is room: a poll is about to raise it, the
\* reader goes on, or a caller has set it so.
MayBeDown == \/ pc = "rtStart"
             \/ pc = "take" /\ Elapsed = 0
             \/ pc = "idle" /\ call = "none"
Raised == (HardwareFlowControl /\ ~HalfHandshake /\ ~SoftwareLoopbackEnable /\ ~rts)
            => SerialFifoFull(Receive) \/ MayBeDown

\* CTS is only waited for with a byte to send.
Waiting == pc = "cts" => ~SerialFifoEmpty(Transmit)

SInv == TypeOK /\ Raised /\ Waiting

\* TypeOK part by part.
FifosTyped == Receive \in Fifo /\ Transmit \in Fifo
LineTyped  == /\ SoftwareLoopbackEnable \in BOOLEAN /\ HardwareFlowControl \in BOOLEAN
              /\ wire \in Seq(Byte \cup {Bad}) /\ Len(wire) <= RxDepth
              /\ thre \in BOOLEAN /\ rts \in BOOLEAN /\ cts \in BOOLEAN
RateTyped  == BaudRate \in Nat \ {0} /\ divisor \in 1..MaxDivisor
CallTyped  == /\ pc \in {"idle", "rtStart", "rt", "cts", "return", "take"}
              /\ call \in {"none", "write", "read", "poll", "readLast", "getControl"}
              /\ todo \in Seq(Byte) /\ Elapsed \in 0..Timeout /\ TimeOut \in 0..MaxTimeOut

\* The parts make up TypeOK.
LEMMA Parts == TypeOK <=> FifosTyped /\ LineTyped /\ RateTyped /\ CallTyped
BY DEF TypeOK, FifosTyped, LineTyped, RateTyped, CallTyped, Fifo

\* (stated again for the next state)
LEMMA PartsNext == TypeOK' <=> FifosTyped' /\ LineTyped' /\ RateTyped' /\ CallTyped'
BY DEF TypeOK, FifosTyped, LineTyped, RateTyped, CallTyped, Fifo

\* An empty FIFO.
LEMMA Emptied == EmptyFifo \in Fifo /\ Contents(EmptyFifo) = << >>
<1>1. EmptyFifo \in Fifo
  BY Wrapping, ByteAssumption DEF EmptyFifo, Fifo
<1>2. Length(EmptyFifo) = 0
  BY <1>1, Limits DEF EmptyFifo, SerialFifoEmpty
<1>. QED  BY <1>1, <1>2, ContentsTyped

\* The port is created with a reset.
LEMMA InitHolds == Init => SInv
<1>. SUFFICES ASSUME Init PROVE SInv
  OBVIOUS
<1>1. FifosTyped
  BY Emptied DEF Init, FifosTyped
<1>2. RateTyped
  BY Programmable, DefaultAssumption, UartAssumption DEF Init, RateTyped
<1>3. LineTyped
  <2>1. << >> \in Seq(Byte \cup {Bad}) /\ Len(<< >>) <= RxDepth
    BY UartAssumption
  <2>. QED  BY <2>1 DEF Init, LineTyped
<1>4. CallTyped
  BY UartAssumption DEF Init, CallTyped
<1>5. Raised /\ Waiting
  BY DEF Init, Raised, MayBeDown, Waiting
<1>. QED  BY <1>1, <1>2, <1>3, <1>4, <1>5, Parts DEF SInv

-----------------------------------------------------------------------------
(* SerialReceiveTransmit                                                   *)

\* FIFOs after a byte was added or removed.
LEMMA FifoSteps ==
  ASSUME SInv
  PROVE  /\ \A b \in Byte : /\ SerialFifoAdd(Receive, b) \in Fifo
                            /\ SerialFifoAdd(Transmit, b) \in Fifo
                            /\ ~SerialFifoEmpty(SerialFifoAdd(Transmit, b))
         /\ ~SerialFifoEmpty(Receive) => SerialFifoRemove(Receive) \in Fifo /\ First(Receive) \in Byte
         /\ ~SerialFifoEmpty(Transmit) => SerialFifoRemove(Transmit) \in Fifo /\ First(Transmit) \in Byte
<1>1. Receive \in Fifo /\ Transmit \in Fifo
  BY Parts DEF SInv, FifosTyped
<1>2. ASSUME NEW b \in Byte PROVE ~SerialFifoEmpty(SerialFifoAdd(Transmit, b))
  <2>1. CASE SerialFifoFull(Transmit)
    <3>1. Length(Transmit) # 0
      BY <1>1, <2>1, Limits, Wrapping
    <3>. QED  BY <1>1, <2>1, <3>1, AddAppends, Limits
  <2>2. CASE ~SerialFifoFull(Transmit)
    <3>1. /\ SerialFifoAdd(Transmit, b) \in Fifo
          /\ Contents(SerialFifoAdd(Transmit, b)) = Append(Contents(Transmit), b)
      BY <1>1, <2>2, AddAppends
    <3>2. Contents(Transmit) \in Seq(Byte)
      BY <1>1, ContentsTyped
    <3>3. Len(Contents(SerialFifoAdd(Transmit, b))) # 0
      BY <3>1, <3>2
    <3>. QED  BY <3>1, <3>3, ContentsTyped, Limits
  <2>. QED  BY <2>1, <2>2
<1>3. \A b \in Byte : SerialFifoAdd(Receive, b) \in Fifo /\ SerialFifoAdd(Transmit, b) \in Fifo
  BY <1>1, AddAppends
<1>4. /\ ~SerialFifoEmpty(Receive) => SerialFifoRemove(Receive) \in Fifo /\ First(Receive) \in Byte
      /\ ~SerialFifoEmpty(Transmit) => SerialFifoRemove(Transmit) \in Fifo /\ First(Transmit) \in Byte
  BY <1>1, RemoveTakes, ByteAssumption
<1>. QED  BY <1>2, <1>3, <1>4

\* The loop goes on or returns; the call stays what it is.
LEMMA LoopsTyped ==
  ASSUME SInv, \/ Loops \/ Again \/ \E s : ReturnsFromRt(s), UNCHANGED TimeOut
  PROVE  CallTyped' /\ pc' \in {"rt", "return"}
BY Parts DEF SInv, CallTyped, Loops, Again, ReturnsFromRt

\* RTS goes up if there is room.
LEMMA RtStartKeeps ==
  ASSUME SInv, RtStart
  PROVE  SInv'
<1>. USE DEF SInv
<1>1. /\ pc' = "rt" /\ UNCHANGED <<fifos, control, wire, thre, cts, call, todo, Elapsed, TimeOut>>
      /\ rts' = (rts \/ (/\ HardwareFlowControl /\ ~SoftwareLoopbackEnable
                         /\ ~HalfHandshake /\ ~SerialFifoFull(Receive)))
  BY DEF RtStart
<1>2. FifosTyped' /\ RateTyped' /\ CallTyped'
  BY <1>1, Parts DEF fifos, control, FifosTyped, RateTyped, CallTyped
<1>3. LineTyped'
  <2>1. rts' \in BOOLEAN
    BY <1>1
  <2>. QED  BY <1>1, <2>1, Parts DEF control, LineTyped
<1>4. Raised'
  <2>1. /\ SoftwareLoopbackEnable' = SoftwareLoopbackEnable /\ HardwareFlowControl' = HardwareFlowControl
        /\ Receive' = Receive
    BY <1>1 DEF control, fifos
  <2>2. ASSUME HardwareFlowControl, ~HalfHandshake, ~SoftwareLoopbackEnable, ~SerialFifoFull(Receive)
        PROVE  rts'
    BY <1>1, <2>2
  <2>3. SerialFifoFull(Receive') <=> SerialFifoFull(Receive)
    BY <2>1
  <2>. QED  BY <2>1, <2>2, <2>3 DEF Raised
<1>5. Waiting'
  BY <1>1 DEF Waiting
<1>. QED  BY <1>2, <1>3, <1>4, <1>5, PartsNext

\* Software loopback: no hardware is looked at.
LEMMA LoopBackKeeps ==
  ASSUME SInv, pc = "rt", LoopBack, UNCHANGED control
  PROVE  SInv'
<1>. USE DEF SInv
<1>1. CallTyped' /\ pc' \in {"rt", "return"}
  BY LoopsTyped DEF LoopBack
<1>2. FifosTyped'
  BY FifoSteps, Parts DEF LoopBack, FifosTyped, fifos
<1>3. LineTyped' /\ RateTyped'
  BY Parts DEF LoopBack, uart, control, LineTyped, RateTyped
<1>4. Raised' /\ Waiting'
  BY <1>1 DEF LoopBack, control, Raised, Waiting
<1>. QED  BY <1>1, <1>2, <1>3, <1>4, PartsNext

\* RTS goes down with the last byte that fits.
LEMMA TakeOneKeeps ==
  ASSUME SInv, pc = "rt", TakeOne, UNCHANGED control
  PROVE  SInv'
<1>. USE DEF SInv
<1>1. /\ wire # << >> /\ wire' = Tail(wire) /\ Loops /\ UNCHANGED <<Transmit, thre, cts, TimeOut>>
      /\ \/ Head(wire) = Bad /\ UNCHANGED <<Receive, rts>>
         \/ /\ Head(wire) # Bad
            /\ Receive' = SerialFifoAdd(Receive, Head(wire))
            /\ rts' = (rts /\ ~(HardwareFlowControl /\ ~HalfHandshake /\ SerialFifoFull(Receive')))
      /\ ~SerialFifoFull(Receive)
  BY DEF TakeOne
<1>2. wire \in Seq(Byte \cup {Bad}) /\ Len(wire) <= RxDepth /\ FifosTyped /\ LineTyped /\ RateTyped
  BY Parts DEF LineTyped
<1>3. CallTyped' /\ pc' \in {"rt", "return"}
  BY <1>1, LoopsTyped
<1>4. Head(wire) \in Byte \cup {Bad} /\ Tail(wire) \in Seq(Byte \cup {Bad}) /\ Len(Tail(wire)) <= RxDepth
  BY <1>1, <1>2, UartAssumption
<1>5. FifosTyped'
  BY <1>1, <1>2, <1>4, FifoSteps DEF FifosTyped
<1>6. LineTyped' /\ RateTyped'
  <2>1. rts' \in BOOLEAN
    BY <1>1, <1>2 DEF LineTyped
  <2>. QED  BY <1>1, <1>2, <1>4, <2>1 DEF LineTyped, RateTyped, control
<1>7. Raised'
  <2>1. /\ SoftwareLoopbackEnable' = SoftwareLoopbackEnable /\ HardwareFlowControl' = HardwareFlowControl
    BY DEF control
  <2>2. (HardwareFlowControl /\ ~HalfHandshake /\ ~SoftwareLoopbackEnable) => rts
    BY <1>1 DEF Raised, MayBeDown
  <2>3. CASE UNCHANGED <<Receive, rts>>
    BY <2>1, <2>2, <2>3 DEF Raised
  <2>4. CASE rts' = (rts /\ ~(HardwareFlowControl /\ ~HalfHandshake /\ SerialFifoFull(Receive')))
    BY <2>1, <2>2, <2>4 DEF Raised
  <2>. QED  BY <1>1, <2>3, <2>4
<1>8. Waiting'
  BY <1>3 DEF Waiting
<1>. QED  BY <1>3, <1>5, <1>6, <1>7, <1>8, PartsNext

\* Sending leaves the rest of the port alone.
LEMMA SendByteTyped ==
  ASSUME SInv, SendByte \/ UNCHANGED <<Transmit, thre>>, ~SerialFifoEmpty(Transmit) \/ UNCHANGED <<Transmit, thre>>
  PROVE  Transmit' \in Fifo /\ thre' \in BOOLEAN
BY FifoSteps, Parts DEF SInv, SendByte, FifosTyped, LineTyped

\* With full handshake sending does not touch RTS.
LEMMA SendOneKeeps ==
  ASSUME SInv, pc = "rt", SendOne, UNCHANGED control
  PROVE  SInv'
<1>. USE DEF SInv
<1>1. FifosTyped /\ LineTyped /\ RateTyped /\ CallTyped
  BY Parts
<1>2. Transmit' \in Fifo /\ thre' \in BOOLEAN
  <2>1. SendByte \/ UNCHANGED <<Transmit, thre>>
    BY DEF SendOne
  <2>2. ~SerialFifoEmpty(Transmit) \/ UNCHANGED <<Transmit, thre>>
    BY DEF SendOne, ToSend
  <2>. QED  BY <2>1, <2>2, SendByteTyped
<1>3. FifosTyped' /\ RateTyped'
  BY <1>1, <1>2 DEF SendOne, FifosTyped, RateTyped, control
<1>4. CallTyped'
  <2>1. CASE pc' = "cts" /\ UNCHANGED <<call, todo, Elapsed, TimeOut>>
    BY <1>1, <2>1 DEF CallTyped
  <2>. QED  BY <2>1, LoopsTyped DEF SendOne
<1>5. rts' = rts \/ rts' = (rts /\ ~HalfHandshake)
  BY DEF SendOne
<1>6. LineTyped'
  <2>1. rts' \in BOOLEAN
    BY <1>1, <1>5 DEF LineTyped
  <2>. QED  BY <1>1, <1>2, <2>1 DEF SendOne, LineTyped, control
<1>7. Raised'
  <2>1. (HardwareFlowControl /\ ~HalfHandshake /\ ~SoftwareLoopbackEnable /\ ~rts) => SerialFifoFull(Receive)
    BY DEF Raised, MayBeDown
  <2>2. ~HalfHandshake => (rts' <=> rts)
    BY <1>5
  <2>3. UNCHANGED <<SoftwareLoopbackEnable, HardwareFlowControl, Receive>>
    BY DEF SendOne, control
  <2>. QED  BY <2>1, <2>2, <2>3 DEF Raised
<1>8. Waiting'
  <2>1. pc' = "cts" => ~SerialFifoEmpty(Transmit) /\ UNCHANGED Transmit
    BY DEF SendOne, ToSend, Loops, Again, ReturnsFromRt
  <2>. QED  BY <2>1 DEF Waiting
<1>. QED  BY <1>3, <1>4, <1>6, <1>7, <1>8, PartsNext

\* Nor does the wait for CTS.
LEMMA WaitForCtsKeeps ==
  ASSUME SInv, WaitForCts
  PROVE  SInv'
<1>. USE DEF SInv
<1>1. /\ FifosTyped /\ LineTyped /\ RateTyped /\ CallTyped /\ pc = "cts" /\ ~SerialFifoEmpty(Transmit)
  BY Parts DEF WaitForCts, Waiting
<1>2. UNCHANGED <<Receive, control, wire, cts>>
  BY DEF WaitForCts
<1>3. CASE /\ TimeOut' = 0 /\ (SendByte \/ UNCHANGED <<Transmit, sent, thre>>)
           /\ rts' = (rts \/ HalfHandshake) /\ Loops
  <2>1. Transmit' \in Fifo /\ thre' \in BOOLEAN
    BY <1>1, <1>3, SendByteTyped
  <2>2. rts' \in BOOLEAN
    BY <1>1, <1>3, UartAssumption DEF LineTyped
  <2>3. CallTyped' /\ pc' \in {"rt", "return"}
    <3>1. TimeOut' \in 0..MaxTimeOut
      BY <1>3, UartAssumption
    <3>2. pc' \in {"rt", "return"} /\ UNCHANGED <<call, todo, Elapsed>>
      BY <1>3 DEF Loops, Again, ReturnsFromRt
    <3>. QED  BY <1>1, <3>1, <3>2 DEF CallTyped
  <2>4. FifosTyped' /\ LineTyped' /\ RateTyped'
    BY <1>1, <1>2, <2>1, <2>2 DEF FifosTyped, LineTyped, RateTyped, control
  <2>5. Raised'
    <3>1. (HardwareFlowControl /\ ~HalfHandshake /\ ~SoftwareLoopbackEnable /\ ~rts) => SerialFifoFull(Receive)
      BY <1>1 DEF Raised, MayBeDown
    <3>2. ~HalfHandshake => (rts' <=> rts)
      BY <1>3
    <3>. QED  BY <1>2, <3>1, <3>2 DEF Raised, control
  <2>6. Waiting'
    BY <2>3 DEF Waiting
  <2>. QED  BY <2>3, <2>4, <2>5, <2>6, PartsNext
<1>4. CASE /\ ~(ClearToSend \/ TimeOut = MaxTimeOut)
           /\ TimeOut' = TimeOut + 1 /\ UNCHANGED <<Transmit, sent, thre, rts, caller>>
  <2>1. TimeOut' \in 0..MaxTimeOut
    BY <1>1, <1>4, UartAssumption DEF CallTyped
  <2>2. FifosTyped' /\ LineTyped' /\ RateTyped' /\ CallTyped'
    BY <1>1, <1>2, <1>4, <2>1 DEF FifosTyped, LineTyped, RateTyped, CallTyped, control, caller
  <2>3. Raised' /\ Waiting'
    BY <1>1, <1>2, <1>4 DEF Raised, MayBeDown, Waiting, control, caller
  <2>. QED  BY <2>2, <2>3, PartsNext
<1>. QED  BY <1>3, <1>4 DEF WaitForCts

-----------------------------------------------------------------------------
(* Calls                                                                   *)

\* What ends a call or starts a poll.
LEMMA FinishesTyped ==
  ASSUME SInv, NEW s, Finishes(s), UNCHANGED TimeOut
  PROVE  CallTyped' /\ pc' = "idle" /\ call' = call
<1>1. << >> \in Seq(Byte) /\ 0 \in 0..Timeout
  BY UartAssumption
<1>. QED  BY <1>1, Parts DEF SInv, CallTyped, Finishes

\* A poll starts.
LEMMA PollsTyped ==
  ASSUME SInv, NEW who \in {"write", "read", "poll", "readLast", "getControl"}, Polls(who), UNCHANGED TimeOut,
         todo' \in Seq(Byte), Elapsed' \in 0..Timeout
  PROVE  CallTyped' /\ pc' = "rtStart"
BY Parts DEF SInv, CallTyped, Polls

\* A stall: another poll, or the timeout, which is never the first stall.
LEMMA StallTyped ==
  ASSUME SInv, NEW who \in {"write", "poll"}, Stall(who), UNCHANGED TimeOut
  PROVE  /\ CallTyped'
         /\ pc' = "rtStart" \/ (pc' = "idle" /\ Elapsed # 0 /\ call' = call)
<1>1. Elapsed \in 0..Timeout /\ todo \in Seq(Byte) /\ Timeout \in Nat \ {0}
  BY Parts, UartAssumption DEF SInv, CallTyped
<1>2. CASE Elapsed >= Timeout
  BY <1>1, <1>2, FinishesTyped DEF Stall
<1>3. CASE ~(Elapsed >= Timeout)
  <2>1. Elapsed' \in 0..Timeout /\ todo' \in Seq(Byte) /\ Polls(who)
    BY <1>1, <1>3 DEF Stall
  <2>. QED  BY <2>1, PollsTyped
<1>. QED  BY <1>2, <1>3

\* A step that touches neither the receiver nor the modes.
LEMMA CallerKeeps ==
  ASSUME SInv, UNCHANGED <<Receive, control, uart>>, Transmit' \in Fifo, CallTyped',
         \/ pc' \in {"rtStart", "take"} /\ (pc' = "take" => pc = "return" \/ (pc = "take" /\ Elapsed' = 0))
         \/ pc' = "idle" /\ (pc = "return" \/ (pc = "take" /\ Elapsed # 0))
  PROVE  SInv'
<1>1. FifosTyped' /\ LineTyped' /\ RateTyped'
  BY Parts DEF SInv, FifosTyped, LineTyped, RateTyped, control, uart
<1>2. Raised'
  BY DEF SInv, Raised, MayBeDown, control, uart
<1>3. Waiting'
  BY DEF Waiting
<1>. QED  BY <1>1, <1>2, <1>3, PartsNext DEF SInv

\* SerialWrite and SerialRead after a poll.
LEMMA ReturnKeeps ==
  ASSUME SInv, Return
  PROVE  SInv'
<1>1. /\ pc = "return" /\ UNCHANGED <<Receive, control, uart, TimeOut>> /\ Transmit \in Fifo
      /\ todo \in Seq(Byte) /\ Elapsed \in 0..Timeout
  BY Parts DEF Return, SInv, FifosTyped, CallTyped
<1>2. CASE WriteNext
  <2>1. CASE todo = << >>
    BY <1>1, <1>2, <2>1, FinishesTyped, CallerKeeps DEF WriteNext
  <2>2. CASE todo # << >>
    <3>1. Head(todo) \in Byte /\ Tail(todo) \in Seq(Byte) /\ 0 \in 0..Timeout
      BY <1>1, <2>2, UartAssumption
    <3>2. Transmit' \in Fifo
      BY <1>2, <2>2, <3>1, FifoSteps DEF WriteNext
    <3>3. CallTyped' /\ pc' = "rtStart"
      BY <1>1, <1>2, <2>2, <3>1, PollsTyped DEF WriteNext
    <3>. QED  BY <1>1, <3>2, <3>3, CallerKeeps
  <2>. QED  BY <2>1, <2>2
<1>3. CASE WriteAgain
  BY <1>1, <1>3, StallTyped, CallerKeeps DEF WriteAgain
<1>4. CASE ReadOn
  <2>1. CASE Finishes("EFI_DEVICE_ERROR")
    BY <1>1, <1>4, <2>1, FinishesTyped, CallerKeeps DEF ReadOn
  <2>2. CASE pc' = "take" /\ UNCHANGED <<call, todo, Elapsed, rtStatus, status>>
    <3>1. CallTyped'
      BY <1>1, <2>2, Parts DEF SInv, CallTyped
    <3>. QED  BY <1>1, <1>4, <2>2, <3>1, CallerKeeps DEF ReadOn
  <2>. QED  BY <1>4, <2>1, <2>2 DEF ReadOn
<1>5. CASE Done
  BY <1>1, <1>5, FinishesTyped, CallerKeeps DEF Done
<1>. QED  BY <1>2, <1>3, <1>4, <1>5 DEF Return

\* SerialRead makes room: it polls before it returns.
LEMMA TakeByteKeeps ==
  ASSUME SInv, TakeByte
  PROVE  SInv'
<1>1. /\ pc = "take" /\ UNCHANGED <<Transmit, control, uart, TimeOut>> /\ Transmit \in Fifo
      /\ todo \in Seq(Byte) /\ Elapsed \in 0..Timeout
  BY Parts DEF TakeByte, SInv, FifosTyped, CallTyped
<1>2. CASE todo = << >>
  <2>1. CallTyped' /\ pc' = "rtStart" /\ UNCHANGED Receive
    BY <1>1, <1>2, PollsTyped DEF TakeByte, LastPoll
  <2>. QED  BY <1>1, <2>1, CallerKeeps
<1>3. CASE todo # << >> /\ SerialFifoEmpty(Receive)
  <2>1. CallTyped' /\ (pc' = "rtStart" \/ (pc' = "idle" /\ Elapsed # 0)) /\ UNCHANGED Receive
    BY <1>1, <1>3, StallTyped DEF TakeByte
  <2>. QED  BY <1>1, <2>1, CallerKeeps
<1>4. CASE todo # << >> /\ ~SerialFifoEmpty(Receive)
  <2>1. /\ Receive' = SerialFifoRemove(Receive) /\ todo' = Tail(todo) /\ Elapsed' = 0
        /\ UNCHANGED <<pc, call, rtStatus, status>>
    BY <1>4 DEF TakeByte
  <2>2. FifosTyped' /\ LineTyped' /\ RateTyped'
    BY <1>1, <1>4, <2>1, FifoSteps, Parts DEF SInv, FifosTyped, LineTyped, RateTyped, control, uart
  <2>3. CallTyped'
    <3>1. Tail(todo) \in Seq(Byte) /\ 0 \in 0..Timeout
      BY <1>1, <1>4, UartAssumption
    <3>. QED  BY <1>1, <2>1, <3>1, Parts DEF SInv, CallTyped
  <2>4. Raised' /\ Waiting'
    BY <1>1, <2>1 DEF Raised, MayBeDown, Waiting
  <2>. QED  BY <2>2, <2>3, <2>4, PartsNext DEF SInv
<1>. QED  BY <1>2, <1>3, <1>4

\* A call that starts with a poll.
LEMMA CallKeeps ==
  ASSUME SInv, \/ \E b \in Buffers : Write(b)
               \/ \E n \in Counts : Read(n)
               \/ GetControl
  PROVE  SInv'
<1>1. Transmit \in Fifo /\ todo \in Seq(Byte) /\ Elapsed \in 0..Timeout /\ 0 \in 0..Timeout
  BY Parts, UartAssumption DEF SInv, FifosTyped, CallTyped
<1>2. ASSUME NEW b \in Buffers, Write(b) PROVE SInv'
  <2>1. b[1] \in Byte /\ Tail(b) \in Seq(Byte)
    BY CallAssumption
  <2>2. Transmit' \in Fifo
    BY <1>2, <2>1, FifoSteps DEF Write
  <2>3. CallTyped' /\ pc' = "rtStart"
    BY <1>1, <1>2, <2>1, PollsTyped DEF Write
  <2>. QED  BY <1>2, <2>2, <2>3, CallerKeeps DEF Write
<1>3. ASSUME NEW n \in Counts, Read(n) PROVE SInv'
  <2>1. [i \in 1..n |-> 0] \in Seq(Byte)
    BY CallAssumption, ByteAssumption
  <2>2. CallTyped' /\ pc' = "rtStart"
    BY <1>1, <1>3, <2>1, PollsTyped DEF Read
  <2>. QED  BY <1>1, <1>3, <2>2, CallerKeeps DEF Read, fifos
<1>4. ASSUME GetControl PROVE SInv'
  <2>1. CallTyped' /\ pc' = "rtStart"
    BY <1>1, <1>4, PollsTyped DEF GetControl
  <2>. QED  BY <1>1, <1>4, <2>1, CallerKeeps DEF GetControl, fifos
<1>. QED  BY <1>2, <1>3, <1>4

\* A call without a poll leaves RTS to its caller.
LEMMA SettingKeeps ==
  ASSUME SInv, pc = "idle", pc' = "idle", call' = "none", UNCHANGED <<todo, Elapsed, TimeOut>>,
         FifosTyped', LineTyped', RateTyped'
  PROVE  SInv'
<1>1. CallTyped'
  BY Parts DEF SInv, CallTyped
<1>2. Raised' /\ Waiting'
  BY DEF Raised, MayBeDown, Waiting
<1>. QED  BY <1>1, <1>2, PartsNext DEF SInv

\* SetControl sets RTS as its caller wants.
LEMMA SetControlKeeps ==
  ASSUME SInv, NEW bits, SetControl(bits)
  PROVE  SInv'
<1>1. FifosTyped' /\ RateTyped'
  BY Parts DEF SInv, SetControl, FifosTyped, RateTyped, fifos
<1>2. thre' \in BOOLEAN
  BY Parts DEF SInv, SetControl, SerialFlushTransmitFifo, LineTyped
<1>3. rts' \in BOOLEAN /\ SoftwareLoopbackEnable' \in BOOLEAN /\ HardwareFlowControl' \in BOOLEAN
  BY DEF SetControl
<1>4. LineTyped'
  BY <1>2, <1>3, Parts DEF SInv, SetControl, LineTyped
<1>. QED  BY <1>1, <1>4, SettingKeeps DEF SetControl

\* SetAttributes programs a divisor that VerifyUartParameters accepted.
LEMMA SetAttributesKeeps ==
  ASSUME SInv, NEW baud \in Bauds, SetAttributes(baud)
  PROVE  SInv'
<1>1. Requested(baud) \in Nat \ {0}
  BY CallAssumption, UartAssumption DEF Requested
<1>2. RateTyped'
  BY <1>1, Programmable, Parts DEF SInv, SetAttributes, RateTyped
<1>3. FifosTyped'
  BY Parts DEF SInv, SetAttributes, FifosTyped, fifos
<1>4. thre' \in BOOLEAN
  BY Parts DEF SInv, SetAttributes, SerialFlushTransmitFifo, LineTyped
<1>5. LineTyped'
  BY <1>4, Parts DEF SInv, SetAttributes, LineTyped
<1>. QED  BY <1>2, <1>3, <1>5, SettingKeeps DEF SetAttributes

\* SerialReset.
LEMMA ResetKeeps ==
  ASSUME SInv, Reset
  PROVE  SInv'
<1>1. BaudRate \in Nat \ {0} /\ FifosTyped /\ LineTyped /\ RateTyped
  BY Parts DEF SInv, RateTyped
<1>2. RateTyped'
  BY <1>1, Programmable DEF Reset, RateTyped
<1>3. FifosTyped'
  BY <1>1, Emptied DEF Reset, FifosTyped, fifos
<1>4. LineTyped'
  <2>1. << >> \in Seq(Byte \cup {Bad}) /\ Len(<< >>) <= RxDepth
    BY UartAssumption
  <2>2. rts' = FALSE \/ rts' = rts
    BY DEF Reset
  <2>. QED  BY <1>1, <2>1, <2>2 DEF Reset, LineTyped
<1>. QED  BY <1>2, <1>3, <1>4, SettingKeeps DEF Reset

\* The UART and the peer change neither FIFOs nor RTS.
LEMMA HardwareKeeps ==
  ASSUME SInv, Hardware
  PROVE  SInv'
<1>1. UNCHANGED <<fifos, control, rts, caller, TimeOut>>
  BY DEF Hardware
<1>2. FifosTyped' /\ RateTyped' /\ CallTyped'
  BY <1>1, Parts DEF SInv, FifosTyped, RateTyped, CallTyped, fifos, control, caller
<1>3. thre' \in BOOLEAN /\ cts' \in BOOLEAN
  BY Parts DEF SInv, Hardware, Sends, Arrives, PeerCts, LineTyped
<1>4. wire' \in Seq(Byte \cup {Bad}) /\ Len(wire') <= RxDepth
  <2>1. wire \in Seq(Byte \cup {Bad}) /\ Len(wire) <= RxDepth
    BY Parts DEF SInv, LineTyped
  <2>2. CASE wire' = wire
    BY <2>1, <2>2
  <2>3. ASSUME NEW b \in Byte \cup {Bad}, Len(wire) < RxDepth, wire' = Append(wire, b)
        PROVE  wire' \in Seq(Byte \cup {Bad}) /\ Len(wire') <= RxDepth
    BY <2>1, <2>3, UartAssumption
  <2>. QED  BY <2>2, <2>3 DEF Hardware, Sends, Arrives, PeerCts
<1>5. LineTyped'
  BY <1>1, <1>3, <1>4, Parts DEF SInv, LineTyped, control
<1>6. Raised' /\ Waiting'
  BY <1>1 DEF SInv, Raised, MayBeDown, Waiting, fifos, control, caller
<1>. QED  BY <1>2, <1>5, <1>6, PartsNext DEF SInv

\* The inductive invariant holds.
LEMMA Invariance == Spec => []SInv
<1>1. SInv /\ [Next]_vars => SInv'
  <2>. SUFFICES ASSUME SInv, [Next]_vars PROVE SInv'
    OBVIOUS
  <2>1. CASE RtStep
    BY <2>1, LoopBackKeeps, TakeOneKeeps, SendOneKeeps DEF RtStep
  <2>2. CASE Progress /\ ~RtStep
    BY <2>2, RtStartKeeps, WaitForCtsKeeps, ReturnKeeps, TakeByteKeeps DEF Progress
  <2>3. CASE Hardware
    BY <2>3, HardwareKeeps
  <2>4. CASE (\E b \in Buffers : Write(b)) \/ (\E n \in Counts : Read(n)) \/ GetControl
    BY <2>4, CallKeeps
  <2>5. CASE (\E bits \in Controls : SetControl(bits)) \/ (\E baud \in Bauds : SetAttributes(baud)) \/ Reset
    BY <2>5, SetControlKeeps, SetAttributesKeeps, ResetKeeps
  <2>6. CASE UNCHANGED vars
    <3>1. UNCHANGED <<fifos, control, uart, caller, TimeOut>>
      BY <2>6 DEF vars
    <3>2. FifosTyped' /\ LineTyped' /\ RateTyped' /\ CallTyped'
      BY <3>1, Parts DEF SInv, FifosTyped, LineTyped, RateTyped, CallTyped, fifos, control, uart, caller
    <3>3. Raised' /\ Waiting'
      BY <3>1 DEF SInv, Raised, MayBeDown, Waiting, fifos, control, uart, caller
    <3>. QED  BY <3>2, <3>3, PartsNext DEF SInv
  <2>. QED  BY <2>1, <2>2, <2>3, <2>4, <2>5, <2>6 DEF Next
<1>. QED  BY InitHolds, <1>1, PTL DEF Spec

-----------------------------------------------------------------------------
(* The serial line                                                         *)

Out == Contents(Transmit)
In  == Contents(Receive)
Capacity == N - 1

\* The two queues of the line.
LEMMA QueuesTyped ==
  ASSUME SInv
  PROVE  /\ Receive \in Fifo /\ Transmit \in Fifo
         /\ In \in Seq(Byte) /\ Out \in Seq(Byte)
         /\ SerialFifoFull(Receive) <=> ~(Len(In) < Capacity)
         /\ SerialFifoFull(Transmit) <=> ~(Len(Out) < Capacity)
         /\ wire \in Seq(Byte \cup {Bad})
<1>1. Receive \in Fifo /\ Transmit \in Fifo /\ wire \in Seq(Byte \cup {Bad})
  BY Parts DEF SInv, FifosTyped, LineTyped
<1>2. ASSUME NEW f \in Fifo
      PROVE  /\ Contents(f) \in Seq(Byte)
             /\ SerialFifoFull(f) <=> ~(Len(Contents(f)) < Capacity)
  BY ContentsTyped, Limits, Lengths, Wrapping DEF Capacity
<1>. QED  BY <1>1, <1>2 DEF In, Out

\* The line sees a step of the port as one of its own, or not at all.
LineNext == Line!Accept \/ Line!Send \/ Line!Loop \/ Line!Arrive \/ Line!Take \/ Line!Read \/ Line!Reset
LineStep == LineNext \/ UNCHANGED <<Out, In, wire, sent, got>>

\* SerialFifoAdd by SerialWrite; a full Transmit does not take the byte.
LEMMA Accepts ==
  ASSUME SInv, NEW b \in Byte, Transmit' = SerialFifoAdd(Transmit, b), UNCHANGED <<Receive, wire, sent, got>>
  PROVE  LineStep
<1>1. UNCHANGED In
  BY DEF In
<1>2. CASE SerialFifoFull(Transmit)
  BY <1>1, <1>2, QueuesTyped, AddAppends DEF LineStep, Out
<1>3. CASE ~SerialFifoFull(Transmit)
  <2>1. Len(Out) < Capacity /\ Out' = Append(Out, b)
    BY <1>3, QueuesTyped, AddAppends DEF Out
  <2>. QED  BY <1>1, <2>1 DEF LineStep, LineNext, Line!Accept, Out, In, Capacity, N
<1>. QED  BY <1>2, <1>3

\* A byte goes to THR.
LEMMA SendsFirst ==
  ASSUME SInv, ~SerialFifoEmpty(Transmit), SendByte, UNCHANGED <<Receive, wire, got>>
  PROVE  LineStep
<1>1. UNCHANGED In
  BY DEF In
<1>2. Out # << >> /\ sent' = Head(Out) /\ Out' = Tail(Out)
  BY QueuesTyped, RemoveTakes, ByteAssumption DEF SendByte, Out
<1>. QED  BY <1>1, <1>2 DEF LineStep, LineNext, Line!Send, Out, In

\* A byte goes from Transmit to Receive.
LEMMA LoopsBack ==
  ASSUME SInv, LoopBack, UNCHANGED got
  PROVE  LineStep
<1>1. UNCHANGED <<wire, sent>>
  BY DEF LoopBack, uart
<1>2. CASE UNCHANGED fifos
  BY <1>1, <1>2 DEF LineStep, fifos, In, Out
<1>3. CASE ~SerialFifoEmpty(Transmit)
  <2>1. Out # << >> /\ First(Transmit) = Head(Out) /\ Out' = Tail(Out) /\ First(Transmit) \in Byte
    BY <1>3, QueuesTyped, RemoveTakes, ByteAssumption DEF LoopBack, Out
  <2>2. In' = IF Len(In) < Capacity THEN Append(In, Head(Out)) ELSE In
    BY <1>3, <2>1, QueuesTyped, AddAppends DEF LoopBack, In
  <2>. QED  BY <1>1, <2>1, <2>2 DEF LineStep, LineNext, Line!Loop, Out, In, Capacity, N
<1>. QED  BY <1>2, <1>3 DEF LoopBack

\* A byte comes from RBR.
LEMMA Takes ==
  ASSUME SInv, TakeOne, UNCHANGED got
  PROVE  LineStep
<1>1. /\ wire # << >> /\ wire' = Tail(wire) /\ UNCHANGED <<Out, sent>> /\ Len(In) < Capacity
      /\ Head(wire) \in Byte \cup {Bad}
  BY QueuesTyped DEF TakeOne, Out
<1>2. CASE Head(wire) = Bad
  BY <1>1, <1>2 DEF TakeOne, LineStep, LineNext, Line!Take, Out, In
<1>3. CASE Head(wire) # Bad
  <2>1. In' = Append(In, Head(wire))
    BY <1>1, <1>3, QueuesTyped, AddAppends DEF TakeOne, In
  <2>. QED  BY <1>1, <1>3, <2>1 DEF LineStep, LineNext, Line!Take, Out, In, Capacity, N
<1>. QED  BY <1>2, <1>3

\* SerialRead takes a byte.
LEMMA Reads ==
  ASSUME SInv, TakeByte
  PROVE  LineStep
<1>1. UNCHANGED <<Out, wire, sent>>
  BY DEF TakeByte, uart, Out
<1>2. CASE UNCHANGED <<Receive, got>>
  BY <1>1, <1>2 DEF LineStep, In
<1>3. CASE ~SerialFifoEmpty(Receive) /\ got' = First(Receive) /\ Receive' = SerialFifoRemove(Receive)
  <2>1. In # << >> /\ got' = Head(In) /\ In' = Tail(In)
    BY <1>3, QueuesTyped, RemoveTakes, ByteAssumption DEF In
  <2>. QED  BY <1>1, <2>1 DEF LineStep, LineNext, Line!Read, Out, In
<1>. QED  BY <1>2, <1>3 DEF TakeByte

\* Steps of the loop and the wait for CTS that send, or do not.
LEMMA SendsOrNot ==
  ASSUME SInv, (pc = "rt" /\ SendOne /\ UNCHANGED got) \/ WaitForCts
  PROVE  LineStep
<1>1. UNCHANGED <<Receive, wire, got>>
  BY DEF SendOne, WaitForCts
<1>2. \/ UNCHANGED <<Transmit, sent>>
      \/ SendByte /\ ~SerialFifoEmpty(Transmit)
  BY DEF SendOne, ToSend, WaitForCts, SInv, Waiting
<1>3. CASE UNCHANGED <<Transmit, sent>>
  BY <1>1, <1>3 DEF LineStep, In, Out
<1>. QED  BY <1>1, <1>2, <1>3, SendsFirst

\* SerialReset empties the queues, or fails half-way.
LEMMA Resets ==
  ASSUME SInv, Reset
  PROVE  LineStep
<1>1. wire' = << >> /\ UNCHANGED <<sent, got>>
  BY DEF Reset
<1>2. CASE UNCHANGED fifos
  <2>1. UNCHANGED <<Out, In>>
    BY <1>2 DEF fifos, Out, In
  <2>. QED  BY <1>1, <2>1 DEF LineStep, LineNext, Line!Reset, Out, In
<1>3. CASE Receive' = EmptyFifo /\ Transmit' = EmptyFifo
  <2>1. Out' = << >> /\ In' = << >>
    BY <1>3, Emptied DEF Out, In
  <2>. QED  BY <1>1, <2>1 DEF LineStep, LineNext, Line!Reset, Out, In
<1>. QED  BY <1>2, <1>3 DEF Reset

\* What the UART does by itself.
LEMMA Arriving ==
  ASSUME Hardware
  PROVE  LineStep
<1>1. UNCHANGED <<Out, In, sent, got>>
  BY DEF Hardware, fifos, Out, In
<1>2. wire' = wire \/ \E b \in Byte \cup {Bad} : wire' = Append(wire, b)
  BY DEF Hardware, Sends, Arrives, PeerCts
<1>. QED  BY <1>1, <1>2 DEF LineStep, LineNext, Line!Arrive, Out, In

\* Calls and returns at most hand a byte to Transmit.
LEMMA CallsAccept ==
  ASSUME SInv, \/ \E b \in Buffers : Write(b)
               \/ Return
  PROVE  LineStep
<1>1. UNCHANGED <<Receive, wire, sent, got>>
  BY DEF Write, Return, uart
<1>2. UNCHANGED Transmit \/ \E b \in Byte : Transmit' = SerialFifoAdd(Transmit, b)
  <2>1. ASSUME NEW b \in Buffers, Write(b) PROVE \E c \in Byte : Transmit' = SerialFifoAdd(Transmit, c)
    <3>1. b[1] \in Byte
      BY CallAssumption
    <3>. QED  BY <2>1, <3>1 DEF Write
  <2>2. CASE Return
    <3>1. todo # << >> => Head(todo) \in Byte
      BY Parts DEF SInv, CallTyped
    <3>. QED  BY <2>2, <3>1 DEF Return, WriteNext, WriteAgain, ReadOn, Done
  <2>. QED  BY <2>1, <2>2
<1>3. CASE UNCHANGED Transmit
  BY <1>1, <1>3 DEF LineStep, In, Out
<1>. QED  BY <1>1, <1>2, <1>3, Accepts

\* Everything else leaves the line alone.
LEMMA LineStutters ==
  ASSUME UNCHANGED <<fifos, wire, sent, got>>
  PROVE  LineStep
BY DEF LineStep, fifos, In, Out

-----------------------------------------------------------------------------
(* Theorems                                                                *)

\* TypeOK of Serial: the ring buffers and the divisor stay in range, whatever is
\* called and arrives.
THEOREM SerialTyped == Spec => []TypeOK
BY Invariance, PTL DEF SInv

\* RtsRaised of Serial: a call that polled the UART leaves the peer stopped only
\* if there is no room for what it sends.
THEOREM PeerNotStopped == Spec => []RtsRaised
<1>1. SInv => RtsRaised
  BY DEF SInv, Raised, MayBeDown, RtsRaised
<1>. QED  BY Invariance, <1>1, PTL

\* ImplementsLine of Serial: for FIFOs of any size no byte is lost, duplicated or
\* reordered between SerialWrite and THR, or between RBR and SerialRead.
THEOREM BytesInOrder == Spec => ImplementsLine
<1>1. Init => Contents(Transmit) = << >> /\ Contents(Receive) = << >> /\ wire = << >>
  BY Emptied DEF Init
<1>2. SInv /\ [Next]_vars => [LineNext]_<<Out, In, wire, sent, got>>
  <2>. SUFFICES ASSUME SInv, [Next]_vars PROVE LineStep
    BY DEF LineStep
  <2>1. CASE RtStep
    BY <2>1, LoopsBack, Takes, SendsOrNot DEF RtStep
  <2>2. CASE WaitForCts
    BY <2>2, SendsOrNot
  <2>3. CASE RtStart \/ GetControl \/ (\E n \in Counts : Read(n)) \/ (\E bits \in Controls : SetControl(bits))
               \/ (\E baud \in Bauds : SetAttributes(baud)) \/ UNCHANGED vars
    <3>1. UNCHANGED <<fifos, wire, sent, got>>
      BY <2>3 DEF RtStart, GetControl, Read, SetControl, SetAttributes, vars, uart
    <3>. QED  BY <3>1, LineStutters
  <2>4. CASE Return \/ \E b \in Buffers : Write(b)
    BY <2>4, CallsAccept
  <2>5. CASE TakeByte
    BY <2>5, Reads
  <2>6. CASE Hardware \/ Reset
    BY <2>6, Arriving, Resets
  <2>. QED  BY <2>1, <2>2, <2>3, <2>4, <2>5, <2>6 DEF Next, Progress
<1>3. [LineNext]_<<Out, In, wire, sent, got>> = [LineNext]_(Line!lineVars)
  BY DEF Out, In, Line!lineVars
<1>4. SInv /\ [Next]_vars => [LineNext]_(Line!lineVars)
  BY <1>2, <1>3
<1>. QED  BY <1>1, <1>4, Invariance, PTL DEF Spec, ImplementsLine, Line!LineSpec, LineNext

-----------------------------------------------------------------------------
(* Baud rates that a reset keeps                                           *)

\* A product grows with its factors.
LEMMA Grows ==
  ASSUME NEW k \in Nat, NEW x \in Int, NEW y \in Int, x <= y
  PROVE  k * x <= k * y
OBVIOUS

\* Dividing is rounding down.
LEMMA Divided ==
  ASSUME NEW x \in Nat, NEW k \in Nat \ {0}
  PROVE  \E q \in Nat, r \in 0..(k - 1) : q = x \div k /\ r = x % k /\ x = k * q + r
<1>1. PICK q \in Int, r \in 0..(k - 1) : q = x \div k /\ r = x % k /\ x = k * q + r
  OBVIOUS
<1>2. q \in Nat
  <2>1. SUFFICES ASSUME q <= -1 PROVE FALSE
    OBVIOUS
  <2>2. k * q <= k * (-1)
    BY <2>1, Grows
  <2>3. k * (-1) = -k /\ k * q \in Int
    OBVIOUS
  <2>. QED  BY <1>1, <2>2, <2>3
<1>. QED  BY <1>1, <1>2

\* The rounded quotient of the clock rate is the only divisor within half a step.
LEMMA RoundedIs ==
  ASSUME NEW b \in Nat \ {0}
  PROVE  /\ Rounded(b) \in Nat
         /\ \A d \in Nat : Rounded(b) = d <=> 16 * (b * d) <= ClockRate + 8 * b /\ ClockRate < 16 * (b * d) + 8 * b
<1>. DEFINE e == Rounded(b)
<1>1. ClockRate \in Nat /\ 16 * b \in Nat \ {0}
  BY UartAssumption
<1>2. PICK q \in Nat, r \in 0..(16 * b - 1) :
        q = ClockRate \div (16 * b) /\ r = ClockRate % (16 * b) /\ ClockRate = (16 * b) * q + r
  BY <1>1, Divided
<1>3. e = IF r >= 8 * b THEN q + 1 ELSE q
  BY <1>2 DEF Rounded
<1>. HIDE DEF e
<1>4. (16 * b) * q = 16 * (b * q) /\ b * (q + 1) = b * q + b /\ b * q \in Nat
  OBVIOUS
<1>5. e \in Nat /\ b * e \in Nat /\ (b * e = IF r >= 8 * b THEN b * q + b ELSE b * q)
  BY <1>2, <1>3, <1>4
<1>6. 16 * (b * e) <= ClockRate + 8 * b /\ ClockRate < 16 * (b * e) + 8 * b
  <2>. DEFINE bq == b * q
              be == b * e
  <2>1. bq \in Nat /\ be \in Nat /\ (be = IF r >= 8 * b THEN bq + b ELSE bq) /\ ClockRate = 16 * bq + r
    BY <1>2, <1>4, <1>5
  <2>. HIDE DEF bq, be
  <2>2. 16 * be <= ClockRate + 8 * b /\ ClockRate < 16 * be + 8 * b
    BY <1>1, <2>1
  <2>. QED  BY <2>2 DEF be
<1>7. ASSUME NEW d \in Nat, 16 * (b * d) <= ClockRate + 8 * b, ClockRate < 16 * (b * d) + 8 * b
      PROVE  d = e
  <2>1. b * (e - 1) = b * e - b /\ b * (d - 1) = b * d - b /\ b * d \in Nat
    BY <1>5
  <2>2. CASE d < e
    <3>1. b * d <= b * e - b
      BY <1>5, <2>1, <2>2, Grows
    <3>. QED  BY <1>1, <1>5, <1>6, <1>7, <2>1, <3>1
  <2>3. CASE e < d
    <3>1. b * e <= b * d - b
      BY <1>5, <2>1, <2>3, Grows
    <3>. QED  BY <1>1, <1>5, <1>6, <1>7, <2>1, <3>1
  <2>. QED  BY <1>5, <2>2, <2>3
<1>. QED  BY <1>5, <1>6, <1>7 DEF e

\* The rate that a divisor makes.
LEMMA RateIs ==
  ASSUME NEW d \in Nat \ {0}
  PROVE  /\ Rate(d) \in Nat /\ d * Rate(d) \in Nat
         /\ 16 * (d * Rate(d)) <= ClockRate /\ ClockRate < 16 * (d * Rate(d)) + 16 * d
<1>. DEFINE R == Rate(d)
<1>1. ClockRate \in Nat /\ 16 * d \in Nat \ {0}
  BY UartAssumption
<1>2. PICK q \in Nat, m \in 0..(16 * d - 1) :
        q = ClockRate \div (16 * d) /\ m = ClockRate % (16 * d) /\ ClockRate = (16 * d) * q + m
  BY <1>1, Divided
<1>3. R = q
  BY <1>2 DEF Rate
<1>. HIDE DEF R
<1>4. (16 * d) * q = 16 * (d * q) /\ d * q \in Nat
  OBVIOUS
<1>5. 16 * (d * q) <= ClockRate /\ ClockRate < 16 * (d * q) + 16 * d
  <2>. DEFINE P == d * q
  <2>1. P \in Nat /\ ClockRate = 16 * P + m
    BY <1>2, <1>4
  <2>. HIDE DEF P
  <2>2. 16 * P <= ClockRate /\ ClockRate < 16 * P + 16 * d
    BY <1>1, <2>1
  <2>. QED  BY <2>2 DEF P
<1>. QED  BY <1>3, <1>4, <1>5 DEF R

\* What "within 4%" means.
LEMMA WithinPercent ==
  ASSUME NEW b \in Nat \ {0}, NEW R \in Nat \ {0}
  PROVE  (b * 100) \div R \in 96..104 <=> 96 * R <= 100 * b /\ 100 * b < 105 * R
<1>0. b * 100 \in Nat
  OBVIOUS
<1>1. PICK q \in Nat, r \in 0..(R - 1) : q = (b * 100) \div R /\ r = (b * 100) % R /\ b * 100 = R * q + r
  BY ZenonT(60), <1>0, Divided
<1>2. CASE q <= 95
  <2>1. R * q <= R * 95
    BY <1>1, <1>2, Grows
  <2>2. R * q \in Nat
    BY <1>1
  <2>. QED  BY <1>1, <1>2, <2>1, <2>2
<1>3. CASE q >= 105
  <2>1. R * 105 <= R * q
    BY <1>1, <1>3, Grows
  <2>2. R * q \in Nat
    BY <1>1
  <2>. QED  BY <1>1, <1>3, <2>1, <2>2
<1>4. CASE q \in 96..104
  <2>1. R * 96 <= R * q /\ R * q <= R * 104
    BY <1>1, <1>4, Grows
  <2>2. R * q \in Nat
    BY <1>1
  <2>. QED  BY <1>1, <1>4, <2>1, <2>2
<1>. QED  BY <1>1, <1>2, <1>3, <1>4

\* The four ways through VerifyUartParameters, with the products they compare.
Exact(b, d)  == 96 * Rate(d) <= 100 * b /\ 100 * b < 105 * Rate(d)
Below(b, d)  == Rate(d) < b /\ 105 * Rate(d) <= 100 * b
Beyond(b, d) == d # MaxDivisor /\ Rate(d + 1) # 0 /\ b < Rate(d) /\ 100 * b < 96 * Rate(d)

LEMMA Ways ==
  ASSUME NEW b \in Nat \ {0}, NEW d, d = ComputedDivisor(b), VerifyUartParameters(b) # << >>
  PROVE  /\ d \in 1..MaxDivisor /\ Rate(d) \in Nat \ {0} /\ Rounded(b) \in {0, d} /\ (Rounded(b) = 0 => d = 1)
         /\ \/ Exact(b, d) /\ VerifyUartParameters(b) = <<d, b>>
            \/ Below(b, d) /\ VerifyUartParameters(b) = <<d, Rate(d)>>
            \/ Beyond(b, d) /\ VerifyUartParameters(b) = <<d + 1, Rate(d + 1)>>
<1>1. Rounded(b) \in Nat
  BY RoundedIs
<1>2. d \in Nat \ {0} /\ Rounded(b) \in {0, d} /\ (Rounded(b) = 0 => d = 1)
  BY <1>1 DEF ComputedDivisor
<1>3. VerifyUartParameters(b) =
        IF d > MaxDivisor \/ Rate(d) = 0 THEN << >>
        ELSE IF (b * 100) \div Rate(d) \in 96..104 THEN <<d, b>>
        ELSE IF Rate(d) < b THEN <<d, Rate(d)>>
        ELSE IF d = MaxDivisor \/ Rate(d + 1) = 0 THEN << >>
        ELSE <<d + 1, Rate(d + 1)>>
  BY DEF VerifyUartParameters
<1>4. d \in 1..MaxDivisor /\ Rate(d) \in Nat \ {0}
  <2>1. ~(d > MaxDivisor) /\ Rate(d) # 0
    BY <1>3
  <2>2. Rate(d) \in Nat
    BY <1>2, RateIs
  <2>. QED  BY <1>2, <2>1, <2>2, UartAssumption
<1>5. (b * 100) \div Rate(d) \in 96..104 <=> Exact(b, d)
  BY <1>4, WithinPercent DEF Exact
<1>6. CASE Exact(b, d)
  BY <1>2, <1>3, <1>4, <1>5, <1>6
<1>7. CASE ~Exact(b, d) /\ Rate(d) < b
  <2>1. Below(b, d)
    BY <1>4, <1>7 DEF Exact, Below
  <2>. QED  BY <1>2, <1>3, <1>4, <1>5, <1>7, <2>1
<1>8. CASE ~Exact(b, d) /\ ~(Rate(d) < b)
  <2>1. d # MaxDivisor /\ Rate(d + 1) # 0 /\ VerifyUartParameters(b) = <<d + 1, Rate(d + 1)>>
    BY <1>3, <1>4, <1>5, <1>8
  <2>2. Beyond(b, d)
    BY <1>4, <1>8, <2>1 DEF Exact, Beyond
  <2>. QED  BY <1>2, <1>4, <2>1, <2>2
<1>. QED  BY <1>6, <1>7, <1>8

\* A rate that a divisor makes is kept if that divisor is the one computed for it.
LEMMA Settles ==
  ASSUME NEW d \in 1..MaxDivisor, Rate(d) # 0, 2 * d <= Rate(d)
  PROVE  VerifyUartParameters(Rate(d)) = <<d, Rate(d)>>
<1>. DEFINE R == Rate(d)
<1>1. d \in Nat \ {0} /\ ~(d > MaxDivisor) /\ R \in Nat \ {0} /\ ClockRate \in Nat
  BY RateIs, UartAssumption
<1>2. /\ d * R \in Nat /\ R * d = d * R
      /\ 16 * (d * R) <= ClockRate /\ ClockRate < 16 * (d * R) + 16 * d
  BY <1>1, RateIs
<1>3. 16 * (R * d) <= ClockRate + 8 * R /\ ClockRate < 16 * (R * d) + 8 * R
  <2>. DEFINE P == d * R
  <2>1. P \in Nat /\ 16 * P <= ClockRate /\ ClockRate < 16 * P + 16 * d /\ 2 * d <= R
    BY <1>2
  <2>. HIDE DEF P, R
  <2>2. 16 * P <= ClockRate + 8 * R /\ ClockRate < 16 * P + 8 * R
    BY <1>1, <2>1
  <2>. QED  BY <1>2, <2>2 DEF P
<1>. HIDE DEF R
<1>4. Rounded(R) = d
  BY <1>1, <1>3, RoundedIs
<1>5. ComputedDivisor(R) = d
  BY <1>1, <1>4 DEF ComputedDivisor
<1>6. (R * 100) \div R \in 96..104
  BY <1>1, WithinPercent
<1>7. VerifyUartParameters(R) = <<d, R>>
  BY <1>1, <1>5, <1>6 DEF VerifyUartParameters, R
<1>. QED  BY <1>7 DEF R

\* The rate is never more than what was asked for.
LEMMA NeverMore ==
  ASSUME NEW b \in Nat \ {0}, VerifyUartParameters(b) # << >>
  PROVE  VerifyUartParameters(b)[2] <= b
<1>. DEFINE d == ComputedDivisor(b)
<1>1. /\ d \in 1..MaxDivisor /\ Rate(d) \in Nat \ {0} /\ Rounded(b) \in {0, d} /\ (Rounded(b) = 0 => d = 1)
      /\ \/ Exact(b, d) /\ VerifyUartParameters(b) = <<d, b>>
         \/ Below(b, d) /\ VerifyUartParameters(b) = <<d, Rate(d)>>
         \/ Beyond(b, d) /\ VerifyUartParameters(b) = <<d + 1, Rate(d + 1)>>
  BY Ways
<1>. HIDE DEF d
<1>2. CASE VerifyUartParameters(b) = <<d, b>>
  BY <1>2
<1>3. CASE Below(b, d) /\ VerifyUartParameters(b) = <<d, Rate(d)>>
  BY <1>1, <1>3 DEF Below
<1>4. CASE Beyond(b, d) /\ VerifyUartParameters(b) = <<d + 1, Rate(d + 1)>>
  <2>. DEFINE S == Rate(d + 1)
              e == d + 1
              Q == b * d
  <2>1. d \in Nat \ {0} /\ e \in Nat \ {0} /\ ClockRate \in Nat
    BY <1>1, UartAssumption
  <2>2. S \in Nat /\ 16 * (e * S) <= ClockRate
    BY <2>1, RateIs
  <2>3. ClockRate < 16 * Q + 8 * b
    <3>1. b * 0 = 0 /\ Q \in Nat
      BY <2>1
    <3>2. Rounded(b) = d => ClockRate < 16 * (b * d) + 8 * b
      BY <2>1, RoundedIs
    <3>3. Rounded(b) = 0 => ClockRate < 16 * (b * 0) + 8 * b
      BY RoundedIs
    <3>. HIDE DEF Q
    <3>4. Rounded(b) = 0 => ClockRate < 16 * Q + 8 * b
      BY <2>1, <3>1, <3>3
    <3>. QED  BY <1>1, <3>2, <3>4 DEF Q
  <2>4. S <= b
    <3>. SUFFICES ASSUME b + 1 <= S PROVE FALSE
      BY <2>2
    <3>. HIDE DEF S
    <3>1. e * (b + 1) <= e * S
      BY <2>1, <2>2, Grows
    <3>2. e * (b + 1) = Q + b + e /\ Q \in Nat /\ e * S \in Nat
      BY <2>1, <2>2
    <3>. HIDE DEF e, Q
    <3>. QED  BY <2>1, <2>2, <2>3, <3>1, <3>2
  <2>. QED  BY <1>4, <2>4
<1>. QED  BY <1>1, <1>2, <1>3, <1>4

\* A rate of 50 baud or more that was programmed is programmed again.
LEMMA KeptBySetting ==
  ASSUME NEW b \in Nat \ {0}, VerifyUartParameters(b) # << >>, VerifyUartParameters(b)[2] >= 50
  PROVE  VerifyUartParameters(VerifyUartParameters(b)[2]) = VerifyUartParameters(b)
<1>. DEFINE d == ComputedDivisor(b)
            R == Rate(d)
            P == d * R
            Q == b * d
<1>1. /\ d \in 1..MaxDivisor /\ Rate(d) \in Nat \ {0} /\ Rounded(b) \in {0, d} /\ (Rounded(b) = 0 => d = 1)
      /\ \/ Exact(b, d) /\ VerifyUartParameters(b) = <<d, b>>
         \/ Below(b, d) /\ VerifyUartParameters(b) = <<d, Rate(d)>>
         \/ Beyond(b, d) /\ VerifyUartParameters(b) = <<d + 1, Rate(d + 1)>>
  BY Ways
<1>. HIDE DEF d
<1>2. d \in Nat \ {0} /\ R \in Nat \ {0} /\ ClockRate \in Nat /\ MaxDivisor \in Nat
  BY <1>1, UartAssumption
<1>3. P \in Nat /\ Q \in Nat /\ 16 * P <= ClockRate /\ ClockRate < 16 * P + 16 * d
  BY <1>2, RateIs
<1>4. Rounded(b) = d => 16 * Q <= ClockRate + 8 * b /\ ClockRate < 16 * Q + 8 * b
  BY <1>2, RoundedIs
<1>5. CASE VerifyUartParameters(b) = <<d, b>>
  BY <1>5
<1>6. CASE Below(b, d) /\ VerifyUartParameters(b) = <<d, R>>
  <2>1. R >= 50 /\ 105 * R <= 100 * b
    BY <1>6 DEF Below
  <2>2. 2 * d <= R
    <3>. SUFFICES ASSUME R < 2 * d PROVE FALSE
      BY <1>2
    <3>1. Rounded(b) = d
      BY <1>1, <1>2, <2>1
    <3>2. (2 * d - 1) * (105 * R) <= (2 * d - 1) * (100 * b)
      <4>1. 2 * d - 1 \in Nat /\ 105 * R \in Int /\ 100 * b \in Int
        BY <1>2
      <4>. HIDE DEF R
      <4>. QED  BY <2>1, <4>1, Grows
    <3>3. (2 * d - 1) * (105 * R) = 210 * P - 105 * R /\ (2 * d - 1) * (100 * b) = 200 * Q - 100 * b
      <4>. HIDE DEF R
      <4>. QED  BY <1>2
    <3>4. d * 50 <= P
      <4>. HIDE DEF R
      <4>. QED  BY <1>2, <2>1, Grows
    <3>. HIDE DEF P, Q, R
    <3>5. 210 * P - 105 * R <= 200 * Q - 100 * b
      BY <3>2, <3>3
    <3>6. 16 * Q <= ClockRate + 8 * b /\ ClockRate < 16 * P + 16 * d
      BY <1>3, <1>4, <3>1
    <3>7. 2 * P < 21 * R + 40 * d
      BY <1>2, <1>3, <3>5, <3>6
    <3>. QED  BY <1>2, <1>3, <3>4, <3>7
  <2>3. VerifyUartParameters(R) = <<d, R>>
    BY <1>1, <2>2, Settles
  <2>. QED  BY <1>6, <2>3
<1>7. CASE Beyond(b, d) /\ VerifyUartParameters(b) = <<d + 1, Rate(d + 1)>>
  <2>1. b < R /\ 100 * b < 96 * R /\ d + 1 \in 1..MaxDivisor /\ Rate(d + 1) # 0 /\ Rate(d + 1) >= 50
    BY <1>1, <1>2, <1>7 DEF Beyond
  <2>2. Rounded(b) = d
    <3>. SUFFICES ASSUME Rounded(b) = 0, d = 1 PROVE FALSE
      BY <1>1
    <3>1. ClockRate < 16 * (b * 0) + 8 * b
      BY RoundedIs
    <3>2. b * 0 = 0 /\ P = R
      <4>. HIDE DEF R
      <4>. QED  BY <1>2
    <3>. HIDE DEF P, R
    <3>. QED  BY <1>2, <1>3, <2>1, <3>1, <3>2
  <2>3. d < 12
    <3>. SUFFICES ASSUME 12 <= d PROVE FALSE
      BY <1>2
    <3>1. (2 * d + 1) * (100 * b) <= (2 * d + 1) * (96 * R)
      <4>1. 2 * d + 1 \in Nat /\ 96 * R \in Int /\ 100 * b \in Int /\ 100 * b <= 96 * R
        BY <1>2, <2>1
      <4>. HIDE DEF R
      <4>. QED  BY <4>1, Grows
    <3>2. (2 * d + 1) * (96 * R) = 192 * P + 96 * R /\ (2 * d + 1) * (100 * b) = 200 * Q + 100 * b
      <4>. HIDE DEF R
      <4>. QED  BY <1>2
    <3>3. R * 12 <= P
      <4>1. R * 12 <= R * d
        BY <1>2, Grows
      <4>2. R * d = P
        <5>. HIDE DEF R
        <5>. QED  BY <1>2
      <4>. QED  BY <4>1, <4>2
    <3>. HIDE DEF P, Q, R
    <3>4. 200 * Q + 100 * b <= 192 * P + 96 * R
      BY <3>1, <3>2
    <3>. QED  BY <1>2, <1>3, <1>4, <2>2, <3>3, <3>4
  <2>4. 2 * (d + 1) <= Rate(d + 1)
    <3>1. Rate(d + 1) \in Nat
      <4>1. d + 1 \in Nat \ {0}
        BY <1>2
      <4>. QED  BY <4>1, RateIs
    <3>. QED  BY <1>2, <2>1, <2>3, <3>1
  <2>5. VerifyUartParameters(Rate(d + 1)) = <<d + 1, Rate(d + 1)>>
    BY <2>1, <2>4, Settles
  <2>. QED  BY <1>7, <2>5
<1>. QED  BY <1>1, <1>5, <1>6, <1>7

\* What is accepted is within 4% of what the divisor makes.
LEMMA AcceptedTolerated ==
  ASSUME NEW b \in Nat \ {0}, VerifyUartParameters(b) # << >>
  PROVE  (VerifyUartParameters(b)[2] * 100) \div Rate(VerifyUartParameters(b)[1]) \in 96..104
<1>. DEFINE d == ComputedDivisor(b)
            Within(v) == (v[2] * 100) \div Rate(v[1]) \in 96..104
<1>1. /\ d \in 1..MaxDivisor /\ Rate(d) \in Nat \ {0}
      /\ \/ Exact(b, d) /\ VerifyUartParameters(b) = <<d, b>>
         \/ VerifyUartParameters(b) = <<d, Rate(d)>>
         \/ Beyond(b, d) /\ VerifyUartParameters(b) = <<d + 1, Rate(d + 1)>>
  BY Ways
<1>. HIDE DEF d
<1>2. CASE Exact(b, d) /\ VerifyUartParameters(b) = <<d, b>>
  <2>1. (b * 100) \div Rate(d) \in 96..104
    BY <1>1, <1>2, WithinPercent DEF Exact
  <2>. QED  BY <1>2, <2>1
<1>3. ASSUME NEW e \in Nat \ {0}, Rate(e) # 0 PROVE Within(<<e, Rate(e)>>)
  <2>1. Rate(e) \in Nat \ {0}
    BY <1>3, RateIs
  <2>2. (Rate(e) * 100) \div Rate(e) \in 96..104
    BY <2>1, WithinPercent
  <2>. QED  BY <2>2
<1>4. CASE VerifyUartParameters(b) = <<d, Rate(d)>>
  <2>1. Within(<<d, Rate(d)>>)
    BY <1>1, <1>3
  <2>. QED  BY <1>4, <2>1
<1>5. CASE Beyond(b, d) /\ VerifyUartParameters(b) = <<d + 1, Rate(d + 1)>>
  <2>1. Within(<<d + 1, Rate(d + 1)>>)
    BY <1>1, <1>3, <1>5 DEF Beyond
  <2>. QED  BY <1>5, <2>1
<1>. QED  BY <1>1, <1>2, <1>4, <1>5

\* Every rate the UART can be set to is at least 50, the lowest of the standard
\* rates (below 40, rounding is so coarse that a reset can lower the rate again).
NotSlow ==
  \A baud \in Bauds \cup {0} :
    VerifyUartParameters(Requested(baud)) # << >> => VerifyUartParameters(Requested(baud))[2] >= 50

\* The rate in force is one that VerifyUartParameters leaves alone.
RateInv == VerifyUartParameters(BaudRate) = <<divisor, BaudRate>>

\* What is requested is a rate.
LEMMA RequestedRate ==
  ASSUME NEW baud \in Bauds \cup {0}
  PROVE  Requested(baud) \in Nat \ {0}
BY CallAssumption, UartAssumption DEF Requested

\* Setting an accepted rate establishes the invariant.
LEMMA RateSet ==
  ASSUME NotSlow, NEW baud \in Bauds \cup {0}, NEW v, v = VerifyUartParameters(Requested(baud)), v # << >>
  PROVE  v = <<v[1], v[2]>> /\ VerifyUartParameters(v[2]) = <<v[1], v[2]>> /\ v[2] <= Requested(baud)
<1>1. Requested(baud) \in Nat \ {0}
  BY RequestedRate
<1>2. v[2] >= 50
  BY DEF NotSlow
<1>3. VerifyUartParameters(v[2]) = v /\ v[2] <= Requested(baud)
  BY <1>1, <1>2, KeptBySetting, NeverMore
<1>4. v = <<v[1], v[2]>>
  BY <1>1, Ways
<1>. QED  BY <1>3, <1>4

\* An accepted rate is within the tolerance.
LEMMA RateTolerated ==
  ASSUME TypeOK, RateInv
  PROVE  Tolerated
<1>1. BaudRate \in Nat \ {0} /\ VerifyUartParameters(BaudRate) # << >>
  BY DEF TypeOK, RateInv
<1>2. VerifyUartParameters(BaudRate)[1] = divisor /\ VerifyUartParameters(BaudRate)[2] = BaudRate
  BY DEF RateInv
<1>3. (VerifyUartParameters(BaudRate)[2] * 100) \div Rate(VerifyUartParameters(BaudRate)[1]) \in 96..104
  BY <1>1, AcceptedTolerated
<1>. QED  BY Zenon, <1>2, <1>3 DEF Tolerated

\* The port is created with the default rate.
LEMMA RateInit ==
  ASSUME NotSlow, Init
  PROVE  RateInv
<1>1. Requested(0) = DefaultBaudRate
  BY DEF Requested
<1>. QED  BY <1>1, RateSet, DefaultAssumption DEF Init, RateInv

\* SetAttributes programs what was accepted, or leaves the rate alone.
LEMMA RateOfSetting ==
  ASSUME NotSlow, RateInv, NEW baud \in Bauds, SetAttributes(baud)
  PROVE  RateInv' /\ (status' = "EFI_SUCCESS" => BaudRate' <= Requested(baud))
<1>. DEFINE v == VerifyUartParameters(Requested(baud))
<1>1. CASE v = << >>
  <2>1. UNCHANGED <<BaudRate, divisor>> /\ status' = "EFI_INVALID_PARAMETER"
    BY <1>1 DEF SetAttributes
  <2>. QED  BY <2>1 DEF RateInv
<1>2. CASE v # << >>
  <2>1. divisor' = v[1] /\ BaudRate' = v[2]
    BY <1>2 DEF SetAttributes
  <2>2. VerifyUartParameters(v[2]) = <<v[1], v[2]>> /\ v[2] <= Requested(baud)
    BY <1>2, RateSet
  <2>. QED  BY <2>1, <2>2 DEF RateInv
<1>. QED  BY <1>1, <1>2

\* A reset programs the rate in force again.
LEMMA RateOfReset ==
  ASSUME RateInv, Reset
  PROVE  status' = "EFI_SUCCESS" /\ UNCHANGED <<BaudRate, divisor>>
BY DEF RateInv, Reset

\* A step that sets no rate.
LEMMA RateStutters ==
  ASSUME RateInv, UNCHANGED control
  PROVE  RateInv'
BY DEF RateInv, control

\* The invariant is inductive.
LEMMA RateStep ==
  ASSUME NotSlow, RateInv, [Next]_vars
  PROVE  RateInv'
<1>1. CASE \E baud \in Bauds : SetAttributes(baud)
  BY <1>1, RateOfSetting
<1>2. CASE Reset
  BY <1>2, RateOfReset DEF RateInv
<1>3. CASE \E bits \in Controls : SetControl(bits)
  BY <1>3 DEF SetControl, RateInv
<1>4. CASE GetControl \/ Hardware \/ (\E b \in Buffers : Write(b)) \/ (\E n \in Counts : Read(n)) \/ UNCHANGED vars
  <2>1. UNCHANGED control
    BY <1>4 DEF GetControl, Hardware, Write, Read, vars
  <2>. QED  BY <2>1, RateStutters
<1>5. CASE Progress
  <2>1. UNCHANGED control
    BY <1>5 DEF Progress, RtStart, RtStep, LoopBack, TakeOne, SendOne, WaitForCts, Return, TakeByte
  <2>. QED  BY <2>1, RateStutters
<1>. QED  BY <1>1, <1>2, <1>3, <1>4, <1>5 DEF Next

\* RatesKept of Serial: for every clock and every divisor the UART has, the rate
\* that SetAttributes reports is within 4% of what the divisor makes and never
\* above what was asked for, and SerialReset never changes it and never fails.
THEOREM RateKept == ASSUME NotSlow PROVE Spec => RatesKept
<1>1. Init => RateInv
  BY RateInit
<1>2. RateInv /\ [Next]_vars => RateInv'
  BY RateStep
<1>3. TypeOK /\ RateInv => Tolerated
  BY RateTolerated
<1>4. TypeOK' /\ RateInv' => Tolerated'
  BY <1>3, PTL
<1>5. SInv /\ SInv' /\ RateInv /\ RateInv' /\ [Next]_vars =>
        [/\ Tolerated'
         /\ \A baud \in Bauds : SetAttributes(baud) /\ status' = "EFI_SUCCESS" => BaudRate' <= Requested(baud)
         /\ Reset => status' = "EFI_SUCCESS" /\ UNCHANGED <<BaudRate, divisor>>]_vars
  <2>. SUFFICES ASSUME SInv', RateInv, RateInv'
       PROVE  /\ Tolerated'
              /\ \A baud \in Bauds : SetAttributes(baud) /\ status' = "EFI_SUCCESS" => BaudRate' <= Requested(baud)
              /\ Reset => status' = "EFI_SUCCESS" /\ UNCHANGED <<BaudRate, divisor>>
    OBVIOUS
  <2>1. Tolerated'
    BY <1>4 DEF SInv
  <2>. QED  BY <2>1, RateOfSetting, RateOfReset
<1>. QED  BY <1>1, <1>2, <1>5, Invariance, PTL DEF Spec, RatesKept
=============================================================================
