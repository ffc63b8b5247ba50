----------------------------- MODULE MCNorFlash -----------------------------
(* Two blocks of three chunks of three cells.                              *)
EXTENDS NorFlash

\* A header with a programmed cell, a blank one, and one nobody validates.
ShortHeaders == <<0, 1>>
LongHeaders  == <<0, 1, 0>>

Data(n) == {[i \in 1..n |-> 0], [i \in 1..n |-> 1], [i \in 1..n |-> i % 2]}
WritesAt(places) ==
  UNION {{[lba |-> p[1], offset |-> p[2], data |-> d] : d \in Data(p[3])} : p \in places}

\* <<lba, offset, length>>: next to the header, inside a chunk, over two chunks,
\* over three, a whole block, and refused ones.
SoundWrites == WritesAt({<<0, 2, 1>>, <<0, 4, 2>>, <<0, 3, 6>>, <<1, 1, 7>>,
                         <<1, 0, 9>>, <<1, 6, 2>>, <<1, 8, 2>>, <<2, 0, 1>>})
\* Two cells across a chunk boundary.
Straddling  == WritesAt({<<0, 4, 2>>, <<0, 5, 2>>, <<1, 1, 7>>})

\* All bits programmed, none, every other one, or a valid header left over.
SomeResidues ==
  {[i \in 0..8 |-> 0], [i \in 0..8 |-> 1], [i \in 0..8 |-> 1 - (i % 2)],
   [i \in 0..8 |-> IF i = 1 THEN 1 ELSE 0]}

SoundErases == {<< <<0, 2>> >>, << <<1, 1>>, <<0, 1>> >>, << <<0, 1>>, <<1, 2>> >>,
                << <<1, 0>> >>, << >>}
NoErases    == {}
=============================================================================
