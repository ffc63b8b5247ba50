------------------------------ MODULE NorFlash ------------------------------
(***************************************************************************)
(* Drivers/VirtNorFlashDxe: the Firmware Volume Block service over a P30   *)
(* style NOR flash (external hardware) that holds the UEFI variables.      *)
(* Programming can only clear bits, a chunk at a time; setting them again  *)
(* takes an erase of the whole block.  NorFlashWriteSingleBlock patches a  *)
(* block in place when it can and rewrites it when it must.                *)
(*                                                                         *)
(* A call is split at the hardware commands, so that the device can fail   *)
(* and the power can go at each.  A byte is one bit here: what matters is  *)
(* which cells a command touches, and that programming is an AND.  Flash   *)
(* addresses are offsets from RegionBaseAddress.                           *)
(***************************************************************************)
EXTENDS Integers, Sequences, FiniteSetsExt

CONSTANTS
  Chunk,      \* P30_MAX_BUFFER_SIZE_IN_BYTES
  BlockSize, LastBlock,
  StartLba,   \* first block of the firmware volume in the region
  FvBlocks,   \* FvbNumLba
  Headers,    \* the combined super-header, as it is programmed
  Checked,    \* length of the part of it that ValidateFvHeader looks at
  Writes,     \* requests of FvbWrite: [lba, offset, data]
  Erases,     \* requests of FvbEraseBlocks: sequences of <<lba, count>>
  Residues,   \* contents an erase that is cut off can leave in a block
  Retry,      \* NOR_FLASH_ERASE_RETRY
  Faults,     \* "busy", "program", "erase", "relock", "power"
  MaxCalls    \* bound on the calls and power losses of a behaviour

Bit    == {0, 1}
Blocks == 0..LastBlock
Size   == (LastBlock + 1) * BlockSize
Cells  == 0..(Size - 1)
Block(b) == (b * BlockSize)..((b + 1) * BlockSize - 1)

ASSUME GeometryAssumption ==
  /\ Chunk \in Nat \ {0} /\ BlockSize \in Nat /\ LastBlock \in Nat
  /\ BlockSize % Chunk = 0 /\ 3 * Chunk <= BlockSize
  /\ StartLba \in Nat /\ FvBlocks \in Nat \ {0} /\ StartLba + FvBlocks <= LastBlock + 1
ASSUME HeadersAssumption ==
  /\ Headers \in Seq(Bit) /\ Len(Headers) <= Chunk
  /\ Checked \in 1..Len(Headers)
ASSUME RequestsAssumption ==
  /\ \A w \in Writes : /\ DOMAIN w = {"lba", "offset", "data"}
                       /\ w.lba \in Nat /\ w.offset \in Nat /\ w.data \in Seq(Bit)
  /\ \A ranges \in Erases : ranges \in Seq(Nat \X Nat)
ASSUME BoundsAssumption ==
  /\ Residues \subseteq [0..(BlockSize - 1) -> Bit]
  /\ Retry \in Nat \ {0} /\ MaxCalls \in Nat
  /\ Faults \subseteq {"busy", "program", "erase", "relock", "power"}

VARIABLES
  flash, locked,
  sr,        \* the program-error bit of the status register, kept until cleared
  shadow,    \* Instance->ShadowBuffer
  pc,        \* next hardware command of the call
  formatting,\* the call is NorFlashFvbInitialize
  op,        \* "patch" or "rewrite" a block, "erase" blocks, or "none"
  req, list, \* what FvbWrite and FvbEraseBlocks were called with
  blocks,    \* blocks still to be erased: ranges <<first, count>>
  tries,     \* erase attempts at the first of them
  chunks,    \* offsets in ShadowBuffer of the chunks still to be programmed
  target,    \* flash address ShadowBuffer is programmed to
  status,
  ready,     \* gEdkiiNvVarStoreFormattedGuid is installed
  calls,
  old,       \* history: the flash when the call began
  failed,    \* history: the device failed during the call, or an error was left uncleared
  kept       \* history: the volume was formatted, its header block not erased since

flashVars == <<flash, locked, sr>>
callVars  == <<op, req, list, target, old>>
loopVars  == <<blocks, tries, chunks>>
vars == <<flashVars, callVars, loopVars, shadow, pc, formatting, status, ready,
          calls, failed, kept>>

HeaderWrite == [lba |-> 0, offset |-> 0, data |-> Headers]
Request  == Writes \cup {HeaderWrite}
Statuses == {"EFI_SUCCESS", "EFI_BAD_BUFFER_SIZE", "EFI_DEVICE_ERROR", "EFI_INVALID_PARAMETER"}

\* Ranges of blocks that the device has.
Ranges == {r \in Blocks \X (1..(LastBlock + 1)) : r[1] + r[2] - 1 <= LastBlock}
\* The blocks of some ranges.
Listed(ranges) == UNION {ranges[i][1]..(ranges[i][1] + ranges[i][2] - 1) : i \in DOMAIN ranges}

\* The driver and the device are in a proper state; the blocks to be erased and
\* the chunks to be programmed lie in the device.
TypeOK ==
  /\ flash \in [Cells -> Bit] /\ old \in [Cells -> Bit]
  /\ locked \in [Blocks -> BOOLEAN]
  /\ sr \in BOOLEAN
  /\ shadow \in [0..(BlockSize - 1) -> Bit]
  /\ pc \in {"boot", "idle", "erase", "headers", "program"}
  /\ formatting \in BOOLEAN
  /\ op \in {"none", "patch", "rewrite", "erase"}
  /\ req \in Request
  /\ list \in Erases \cup {<< <<0, FvBlocks>> >>, << >>}
  /\ blocks \in Seq(Ranges)
  /\ tries \in 0..Retry
  /\ chunks \subseteq 0..(BlockSize - 1)
  /\ target \in Cells
  /\ status \in Statuses
  /\ ready \in BOOLEAN /\ failed \in BOOLEAN /\ kept \in BOOLEAN
  /\ calls \in 0..MaxCalls

Init ==
  /\ flash \in {[a \in Cells |-> v] : v \in Bit}
  /\ locked = [b \in Blocks |-> TRUE]
  /\ sr = FALSE
  /\ shadow = [i \in 0..(BlockSize - 1) |-> 0]
  /\ pc = "boot"
  /\ formatting = FALSE
  /\ op = "none" /\ req = HeaderWrite /\ list = << >>
  /\ blocks = << >> /\ tries = 0 /\ chunks = {} /\ target = 0
  /\ status = "EFI_SUCCESS"
  /\ ready = FALSE
  /\ calls = 0
  /\ old = flash /\ failed = FALSE /\ kept = FALSE

-----------------------------------------------------------------------------
(* Choosing between a patch and a rewrite                                  *)

\* NorFlashRead of len cells into ShadowBuffer, whose rest keeps its contents.
NoRead(addr, len) == shadow  \* mutant: the old data is not read
NorFlashRead(addr, len) ==
  [i \in DOMAIN shadow |-> IF i < len THEN flash[addr + i] ELSE shadow[i]]

\* The shadow buffer with the new data in it.
Merged(buffer, at, data) ==
  [i \in DOMAIN buffer |-> IF i \in at..(at + Len(data) - 1) THEN data[i - at + 1]
                           ELSE buffer[i]]

\* Some bit of the destination has to go from 0 to 1.
NeedsEraseFrom2(buffer, at, data) ==  \* mutant: the first cell is not compared
  \E i \in 2..Len(data) : buffer[at + i - 1] = 0 /\ data[i] = 1
NeedsErase(buffer, at, data) ==
  \E i \in 1..Len(data) : buffer[at + i - 1] = 0 /\ data[i] = 1

\* Chunks NorFlashWriteFullBlock programs: those that are not all ones.
AllButLast(buffer) ==  \* mutant: the loop ends a chunk early
  {o \in {k * Chunk : k \in 0..(BlockSize \div Chunk - 2)} :
     \E i \in o..(o + Chunk - 1) : buffer[i] = 0}
FullChunks(buffer) ==
  {o \in {k * Chunk : k \in 0..(BlockSize \div Chunk - 1)} :
     \E i \in o..(o + Chunk - 1) : buffer[i] = 0}

SpansBlock(offset, n) == offset >= BlockSize \/ n > BlockSize \/ offset + n > BlockSize
\* The length read before a patch: *NumBytes rounded up, whatever the offset.
ReadLength(n) == (n \div Chunk + 1) * Chunk

\* The call ends at once, before any hardware command.
Reject(result) ==
  /\ status' = result
  /\ pc' = "idle"
  /\ formatting' = FALSE
  /\ op' = "none"
  /\ UNCHANGED <<locked, shadow, target, loopVars, ready, kept>>

\* NorFlashUnlockSingleBlockIfNecessary.
NotUnlocked(b) == locked  \* mutant: the block is not unlocked
Unlocked(b) == [locked EXCEPT ![b] = FALSE]

Patch(b, buffer, skew, addr, n) ==
  /\ op' = "patch"
  /\ locked' = Unlocked(b)
  /\ pc' = "program"
  /\ shadow' = buffer
  /\ target' = addr
  /\ chunks' = IF skew + n > Chunk THEN {0, Chunk} ELSE {0}
  /\ UNCHANGED <<blocks, tries, status, formatting, ready, kept>>

Rewrite(b, buffer) ==
  /\ op' = "rewrite"
  /\ pc' = "erase"
  /\ shadow' = buffer
  /\ target' = b * BlockSize
  /\ blocks' = << <<b, 1>> >> /\ tries' = 0
  /\ chunks' = FullChunks(buffer)
  /\ kept' = (kept /\ b # StartLba)
  /\ UNCHANGED <<locked, status, formatting, ready>>

\* NorFlashWriteSingleBlock up to its first hardware write.
WriteSingleBlock(w) ==
  LET n       == Len(w.data)
      b       == StartLba + w.lba
      skew    == w.offset % Chunk
      addr    == b * BlockSize + w.offset - skew
      short   == (skew + n) <= 2 * Chunk
      bad     == SpansBlock(w.offset, n) \/ n = 0
      outside == IF short THEN addr + ReadLength(n) > Size ELSE b > LastBlock
      window  == NorFlashRead(addr, ReadLength(n))
      inPlace == short /\ ~NeedsErase(window, skew, w.data)
  IN /\ req' = w /\ old' = flash /\ failed' = sr
     /\ \/ bad /\ Reject("EFI_BAD_BUFFER_SIZE")
        \/ ~bad /\ outside /\ Reject("EFI_DEVICE_ERROR")
        \/ /\ ~bad /\ ~outside /\ inPlace
           /\ Patch(b, Merged(window, skew, w.data), skew, addr, n)
        \/ /\ ~bad /\ ~outside /\ ~inPlace
           /\ Rewrite(b, Merged(NorFlashRead(b * BlockSize, BlockSize), w.offset, w.data))
     /\ UNCHANGED <<list, flash, sr>>

\* FvbEraseBlocks verifies the whole list before it erases anything.
FirstInRange(ranges) ==  \* mutant: only the first range is verified
  ranges # << >> => ranges[1][2] # 0 /\ StartLba + ranges[1][1] + ranges[1][2] - 1 <= LastBlock
InRange(ranges) ==
  \A i \in DOMAIN ranges :
    ranges[i][2] # 0 /\ StartLba + ranges[i][1] + ranges[i][2] - 1 <= LastBlock

\* The ranges of the list, as blocks of the device.
InDevice(ranges) == [i \in DOMAIN ranges |-> <<StartLba + ranges[i][1], ranges[i][2]>>]

EraseBlocks(ranges) ==
  /\ list' = ranges /\ old' = flash /\ failed' = sr
  /\ IF ~InRange(ranges) THEN Reject("EFI_INVALID_PARAMETER") /\ UNCHANGED <<req, flash, sr>>
     ELSE IF ranges = << >> THEN Reject("EFI_SUCCESS") /\ UNCHANGED <<req, flash, sr>>
     ELSE /\ op' = "erase"
          /\ pc' = "erase"
          /\ blocks' = InDevice(ranges) /\ tries' = 0 /\ chunks' = {}
          /\ kept' = (kept /\ StartLba \notin Listed(InDevice(ranges)))
          /\ UNCHANGED <<flashVars, req, shadow, target, status, ready>>

-----------------------------------------------------------------------------
(* Calls                                                                   *)

\* ValidateFvHeader looks for the header at the start of the region.
ValidateFvHeader == \A i \in 1..Checked : flash[i - 1] = Headers[i]

\* NorFlashFvbInitialize, at every boot: without a valid header, or when the
\* boot mode asks for default settings, the volume is erased first.
Boot ==
  /\ pc = "boot"
  /\ \/ /\ ValidateFvHeader
        /\ pc' = "idle" /\ ready' = TRUE
        /\ op' = "none" /\ status' = "EFI_SUCCESS"
        /\ UNCHANGED <<flashVars, req, list, target, old, loopVars, shadow, formatting, failed, kept>>
     \/ /\ formatting' = TRUE
        /\ EraseBlocks(<< <<0, FvBlocks>> >>)
  /\ UNCHANGED calls

\* InitializeFvAndVariableStoreHeaders, after the erase.
InstallHeaders ==
  /\ pc = "headers"
  /\ WriteSingleBlock(HeaderWrite)
  /\ UNCHANGED calls

FvbWrite(w) ==
  /\ pc = "idle" /\ calls < MaxCalls
  /\ calls' = calls + 1
  /\ WriteSingleBlock(w)

FvbEraseBlocks(ranges) ==
  /\ pc = "idle" /\ calls < MaxCalls
  /\ calls' = calls + 1
  /\ EraseBlocks(ranges)
  /\ UNCHANGED formatting

-----------------------------------------------------------------------------
(* Hardware commands                                                       *)

\* The call returns.  A completed NorFlashFvbInitialize announces the volume.
Done(result) ==
  /\ status' = result
  /\ pc' = "idle"
  /\ formatting' = FALSE
  /\ ready' = (ready \/ (formatting /\ result = "EFI_SUCCESS"))
  /\ kept' = (kept \/ (formatting /\ result = "EFI_SUCCESS"))

Continue(next) == pc' = next /\ UNCHANGED <<status, formatting, ready, kept>>

\* The block to be erased, and what is left after it.
Current == blocks[1][1]
Remaining ==
  IF blocks[1][2] > 1 THEN [blocks EXCEPT ![1] = <<@[1] + 1, @[2] - 1>>] ELSE Tail(blocks)

\* The block is erased, and the call goes on.
Erased(b) ==
  /\ flash' = [a \in Cells |-> IF a \in Block(b) THEN 1 ELSE flash[a]]
  /\ locked' = Unlocked(b)
  /\ blocks' = Remaining /\ tries' = 0
  /\ IF Remaining # << >> THEN Continue("erase")
     ELSE IF formatting /\ op = "erase" THEN Continue("headers")
     ELSE IF chunks # {} THEN Continue("program")
     ELSE Done("EFI_SUCCESS")
  /\ UNCHANGED <<sr, failed>>

\* The device locks the block again: NorFlashUnlockAndEraseSingleBlock unlocks
\* and tries once more, a limited number of times.
RelockForever(b) ==  \* mutant: the attempts start over
  /\ "relock" \in Faults
  /\ locked' = [locked EXCEPT ![b] = TRUE]
  /\ sr' = FALSE /\ failed' = TRUE
  /\ tries' = (tries + 1) % Retry
  /\ Continue("erase")
  /\ UNCHANGED <<flash, blocks>>
Relocked(b) ==
  /\ "relock" \in Faults
  /\ locked' = [locked EXCEPT ![b] = TRUE]
  /\ sr' = FALSE /\ failed' = TRUE
  /\ tries' = tries + 1
  /\ IF tries + 1 < Retry THEN Continue("erase") ELSE Done("EFI_DEVICE_ERROR")
  /\ UNCHANGED <<flash, blocks>>

\* An erase that does not complete.
CutOff(b) ==
  \E half \in Residues :
    flash' = [a \in Cells |-> IF a \in Block(b) THEN half[a - b * BlockSize] ELSE flash[a]]

\* The erase fails and leaves the block undefined; the status is cleared.
EraseFailed(b) ==
  /\ "erase" \in Faults
  /\ CutOff(b)
  /\ locked' = Unlocked(b)
  /\ sr' = FALSE /\ failed' = TRUE
  /\ Done("EFI_DEVICE_ERROR")
  /\ UNCHANGED <<blocks, tries>>

EraseAttempt ==
  /\ pc = "erase"
  /\ Erased(Current) \/ Relocked(Current) \/ EraseFailed(Current)
  /\ UNCHANGED <<callVars, chunks, shadow, calls>>

\* Cells of the next chunk, and what programming some of them does.
ChunkCells(o) == (target + o)..(target + o + Chunk - 1)
NextCells == ChunkCells(Min(chunks))
Programmed(S) ==
  [a \in Cells |-> IF a \in S /\ shadow[a - target] = 0 THEN 0 ELSE flash[a]]

\* NorFlashWriteBuffer runs to its end: a locked block is not programmed, and
\* the status register is cleared only if it has no error in it.
WriteBuffer ==
  LET refused == locked[target \div BlockSize] IN
  /\ flash' = IF refused THEN flash ELSE Programmed(NextCells)
  /\ sr' = (sr \/ refused)
  /\ chunks' = chunks \ {Min(chunks)}
  /\ IF sr \/ refused THEN Done("EFI_DEVICE_ERROR")
     ELSE IF chunks = {Min(chunks)} THEN Done("EFI_SUCCESS")
     ELSE Continue("program")
  /\ UNCHANGED failed

\* The buffer never becomes available, or programming fails half-way.
WriteFailed ==
  /\ \/ "busy" \in Faults /\ UNCHANGED <<flash, sr>>
     \/ /\ "program" \in Faults
        /\ \E S \in SUBSET NextCells : flash' = Programmed(S)
        /\ sr' = TRUE
  /\ failed' = TRUE
  /\ Done("EFI_DEVICE_ERROR")
  /\ UNCHANGED chunks

ProgramChunk ==
  /\ pc = "program"
  /\ WriteBuffer \/ WriteFailed
  /\ UNCHANGED <<locked, callVars, blocks, tries, shadow, calls>>

\* Power goes, possibly in the middle of a command; RAM and status are lost and
\* the device locks its blocks.
PowerLoss ==
  /\ "power" \in Faults /\ calls < MaxCalls /\ pc # "boot"
  /\ \/ pc = "erase" /\ CutOff(Current)
     \/ pc = "program" /\ \E S \in SUBSET NextCells : flash' = Programmed(S)
     \/ pc \in {"idle", "headers"} /\ UNCHANGED flash
  /\ locked' = [b \in Blocks |-> TRUE]
  /\ sr' = FALSE
  /\ shadow' = [i \in DOMAIN shadow |-> 0]
  /\ pc' = "boot" /\ formatting' = FALSE /\ ready' = FALSE
  /\ blocks' = << >> /\ tries' = 0 /\ chunks' = {}
  /\ calls' = calls + 1
  /\ failed' = TRUE
  /\ UNCHANGED <<callVars, status, kept>>

-----------------------------------------------------------------------------
Progress == Boot \/ InstallHeaders \/ EraseAttempt \/ ProgramChunk
Requests ==
  \/ \E w \in Writes : FvbWrite(w)
  \/ \E ranges \in Erases : FvbEraseBlocks(ranges)
Next == Progress \/ Requests \/ PowerLoss

Spec == Init /\ [][Next]_vars
\* A call that was entered runs to its end.
FairSpec == Spec /\ WF_vars(Progress)
-----------------------------------------------------------------------------
(* Properties                                                              *)

Succeeded == pc = "idle" /\ status = "EFI_SUCCESS"
Base(w)  == (StartLba + w.lba) * BlockSize + w.offset
WriteRange(w) == Base(w)..(Base(w) + Len(w.data) - 1)
Written(f, w) == [a \in Cells |-> IF a \in WriteRange(w) THEN w.data[a - Base(w) + 1] ELSE f[a]]

\* FvbWrite "writes the specified number of bytes from the provided buffer to
\* the specified block and offset": when it returns EFI_SUCCESS the range holds
\* the data and every other cell is as it was, whichever way the block was
\* written and whatever went wrong before.
WriteExact == (Succeeded /\ op \in {"patch", "rewrite"}) => flash = Written(old, req)

\* A write that fails or is cut off by a power loss never reaches another block,
\* and a patch never even a cell outside the requested range, though whole
\* chunks are programmed.
WriteContained ==
  /\ op = "rewrite" => \A a \in Cells \ Block(StartLba + req.lba) : flash[a] = old[a]
  /\ op = "patch" => \A a \in Cells \ WriteRange(req) : flash[a] = old[a]

\* No block is listed twice.
Disjoint(ranges) ==
  \A i, j \in DOMAIN ranges :
    i # j => \/ ranges[i][1] + ranges[i][2] <= ranges[j][1]
             \/ ranges[j][1] + ranges[j][2] <= ranges[i][1]

\* FvbEraseBlocks: "The entire parameter list of blocks must be verified before
\* erasing any blocks".  A list it accepts is erased in order: what is still to
\* come and what is not listed is untouched, what is done is blank.
EraseInOrder ==
  /\ (pc = "idle" /\ status = "EFI_INVALID_PARAMETER") => flash = old
  /\ (op = "erase" /\ pc # "boot") =>
       /\ Listed(InDevice(list)) \subseteq Blocks
       /\ \A b \in Blocks \ Listed(InDevice(list)) : \A a \in Block(b) : flash[a] = old[a]
       /\ \A b \in Listed(InDevice(list)) \ Listed(blocks) : \A a \in Block(b) : flash[a] = 1
       /\ Disjoint(InDevice(list)) =>
            \A b \in Listed(blocks) : b # Current => \A a \in Block(b) : flash[a] = old[a]

\* "@retval EFI_DEVICE_ERROR The block device is malfunctioning and could not be
\* written" (VirtNorFlashFvb.c): an error means that the device failed, in this
\* call or, as the status register is not cleared after an error, in an earlier
\* one, or that the block is not on the device.
ErrorsAreReal ==
  (pc = "idle" /\ status = "EFI_DEVICE_ERROR") => failed \/ StartLba + req.lba \notin Blocks

\* The variables survive a power loss: as long as nobody erased the header
\* block, the next boot finds a valid header and does not erase the volume.
HeaderSurvives == kept => ValidateFvHeader

\* Every call returns: a block that keeps being locked is retried a limited
\* number of times.
CallsReturn == pc # "idle" ~> pc = "idle"
=============================================================================
