----------------------------- MODULE Dataflash -----------------------------
(***************************************************************************)
(* The block storage of poc/MassStorage: DataflashManager.c over the board *)
(* driver Board/Dataflash.h and the two dataflash chips.  A page of 16     *)
(* byte chunks lies on chip 1 or 2 as its number is even or odd; a write   *)
(* goes through one of the two RAM buffers of the chip, and a chip is busy *)
(* for a while after it was told to load a buffer or to program a page.    *)
(*                                                                         *)
(* The chips are external.  One chunk of the memory, any one (watch), is   *)
(* followed: mem is its value, and bufs holds, for the chip it lies on,    *)
(* the value at its place in each buffer.  Every other value is X.         *)
(***************************************************************************)
EXTENDS Naturals, Sequences

CONSTANTS Pages,            \* DATAFLASH_PAGES * DATAFLASH_TOTALCHIPS
          BlocksPerPage,    \* DATAFLASH_PAGE_SIZE / VIRTUAL_MEMORY_BLOCK_SIZE
          ChunksPerBlock,   \* VIRTUAL_MEMORY_BLOCK_SIZE >> 4
          ChunksPerPacket,  \* the size of an endpoint bank, in chunks
          WordSize,         \* the range of a uint16_t
          Data, X,          \* what a chunk may hold, and what is not known
          Lost,             \* what a call gets that meets a chip at work for another
          Offsets,          \* bound: the places in a page where a chunk is followed
          Functions,        \* the functions called
          MaxBlocks,        \* bound: the blocks of a call
          MaxShort,         \* bound: those of a call that meets a fault
          MaxRam,           \* bound: those of a call in the memory of the AVR
          MaxPast,          \* bound: blocks of a call past the end of the memory
          Interrupted       \* may resets, timeouts and restarts happen?

ASSUME SizeAssumption ==
  /\ Pages \in Nat \ {0} /\ Pages % 2 = 0 /\ BlocksPerPage \in Nat \ {0}
  /\ ChunksPerBlock \in Nat \ {0} /\ ChunksPerPacket \in Nat \ {0}
  /\ ChunksPerBlock % ChunksPerPacket = 0
  /\ WordSize \in Nat \ {0} /\ MaxBlocks \in 0..WordSize - 1
  /\ MaxShort \in Nat /\ MaxRam \in Nat /\ MaxPast \in Nat
  /\ Offsets \subseteq 0..BlocksPerPage * ChunksPerBlock - 1
ASSUME ChoiceAssumption ==
  /\ X \notin Data /\ Lost \notin Data \cup {X} /\ Interrupted \in BOOLEAN
  /\ Functions \subseteq {"write", "read", "write_ram", "read_ram", "check"}

VARIABLES watch, mem, bufs,     \* the chunk followed, in the memory and the buffers
          busy, using,          \* the chips at work, and on which buffer
          protected,            \* sector protection, by chip
          sel, open,            \* the chip selected, the command it is taking bytes for
          pc, fn, block, count, datum,        \* the call and its arguments
          page, at, inBlock, left, second,    \* its variables
          bank,                 \* chunks left in the current endpoint bank
          aborted,              \* State.IsMassStoreReset
          late,                 \* history: the chips still at work for an earlier call
          may,                  \* history: the values the chunk may have
          got, packets, result  \* history: value read, banks released, how a call ended

chipVars == <<mem, bufs, busy, using>>
busVars == <<sel, open>>
argVars == <<fn, block, count, datum, late>>
loopVars == <<page, at, inBlock, left, second>>
endVars == <<bank, packets>>
vars == <<watch, chipVars, protected, busVars, pc, argVars, loopVars, endVars,
          aborted, may, got, result>>

Chip == {1, 2}
PageChunks == BlocksPerPage * ChunksPerBlock
Locals == <<pc, fn, block, count, datum, loopVars, endVars, aborted, got, result>>

None == [op |-> "none"]

-----------------------------------------------------------------------------
(* The board driver.  A command goes to the selected chip, if there is one *)

\* Mutant: the chips take the pages by halves.
MutChipOf(p) == IF p >= Pages THEN 0 ELSE IF p >= Pages \div 2 THEN 2 ELSE 1

\* Dataflash_SelectChipFromPage: none for a page past the end.
ChipOf(p) == IF p >= Pages THEN 0 ELSE IF p % 2 = 1 THEN 2 ELSE 1

\* The page address a chip receives has lost the bit that selects the chip.
Row(p) == p \div 2

\* Dataflash_WaitWhileBusy returns.  With no chip selected the line floats,
\* and it may return or not.
Ready == sel \notin busy

-----------------------------------------------------------------------------
(* The chips.  One that is busy ignores commands on its memory, and what   *)
(* is written to the buffer it works with; what a call loses because of an  *)
(* earlier one is Lost.  The contents change when a command starts: nobody  *)
(* can look while it runs.                                                  *)

Here(c, p) == c = ChipOf(watch[1]) /\ Row(p) = Row(watch[1])

Work(c, b) == busy' = busy \cup {c} /\ using' = [using EXCEPT ![c] = b]

\* DF_CMD_MAINMEMTOBUFFn
Load(c, b, p) ==
  IF c = 0 \/ c \in busy
  THEN /\ bufs' = IF Here(c, p) /\ c \in late THEN [bufs EXCEPT ![b] = Lost] ELSE bufs
       /\ UNCHANGED <<mem, busy, using>>
  ELSE /\ Work(c, b) /\ UNCHANGED mem
       /\ bufs' = IF c = ChipOf(watch[1])
                  THEN [bufs EXCEPT ![b] = IF Here(c, p) THEN mem ELSE X] ELSE bufs

\* DF_CMD_BUFFnTOMAINMEMWITHERASE
Program(c, b, p) ==
  IF c = 0 \/ c \in busy THEN UNCHANGED chipVars
  ELSE /\ Work(c, b) /\ UNCHANGED bufs
       /\ mem' = IF Here(c, p) /\ ~protected[c] THEN bufs[b] ELSE mem

\* A chunk sent to the open command, which goes on at the next one.
Feed(v) ==
  /\ open' = IF open.op = "write" THEN [open EXCEPT !.at = (@ + 1) % PageChunks] ELSE open
  /\ bufs' = IF open.op = "write" /\ sel = ChipOf(watch[1]) /\ open.at = watch[2]
             THEN [bufs EXCEPT ![open.buf] =
                     IF sel \notin busy \/ using[sel] # open.buf THEN v
                     ELSE IF sel \in late THEN Lost ELSE X]
             ELSE bufs
  /\ UNCHANGED <<mem, busy, using>>

\* A chunk received from the open command.
Fetched == IF open.op # "read" \/ ~Here(sel, open.page) \/ open.at # watch[2] THEN X
           ELSE IF open.ok THEN mem ELSE Lost

ReadCommand(c, p, k) == [op |-> "read", page |-> p, at |-> k, ok |-> c \notin busy]
WriteCommand(b, k) == [op |-> "write", buf |-> b, at |-> k]

Done ==
  /\ \E c \in busy : /\ busy' = busy \ {c} /\ using' = [using EXCEPT ![c] = 1]
                    /\ late' = late \ {c}
  /\ UNCHANGED <<watch, mem, bufs, protected, busVars, may, Locals>>

-----------------------------------------------------------------------------
(* A call and its end.                                                     *)

\* Where the watched chunk comes in the data of the call, and where it is now.
Wanted == watch[1] * PageChunks + watch[2] - block * ChunksPerBlock
InCall == /\ block * ChunksPerBlock <= watch[1] * PageChunks + watch[2]
          /\ watch[1] * PageChunks + watch[2] < (block + count) * ChunksPerBlock
Current == (count - left) * ChunksPerBlock + inBlock
AtWatched == InCall /\ Current = Wanted

Writing == fn \in {"write", "write_ram"}
OnEndpoint == fn \in {"write", "read"}

\* WriteBlocks_RAM fills the first buffer where it programs from the second:
\* a page after one of chip 2 may get anything (line 353).
Misfilled == /\ fn = "write_ram"
             /\ \E p \in block \div BlocksPerPage..watch[1] - 1 : ChipOf(p) = 2

\* What a write leaves in the chunk, if it is one of its own, and what the
\* chunk may hold after one that was not finished.
Stored == IF Misfilled THEN Data \cup {X} ELSE {datum}
Unfinished == may' = IF Writing /\ InCall THEN may \cup Stored ELSE may

\* An early return: the chip stays selected, its command open.
ReturnEarly ==
  /\ pc' = "returned" /\ result' = "early" /\ Unfinished
  /\ UNCHANGED <<watch, protected, sel, argVars, loopVars, aborted, got>>

\* The caller goes on: nothing is left of the call.
Forget ==
  /\ fn' = "none" /\ block' = 0 /\ count' = 0 /\ datum' = X
  /\ page' = 0 /\ at' = 0 /\ inBlock' = 0 /\ left' = 0 /\ second' = FALSE
  /\ bank' = 0 /\ packets' = 0 /\ aborted' = FALSE /\ late' = busy /\ got' = X
  /\ result' = "none"

Return ==
  /\ pc = "returned" /\ pc' = "idle" /\ Forget
  /\ UNCHANGED <<watch, chipVars, protected, busVars, may>>

Begin(f, b, n, d) ==
  /\ pc = "idle" /\ f \in Functions
  /\ b + n <= Pages * BlocksPerPage + MaxPast
  /\ f \in {"write_ram", "read_ram"} => n <= MaxRam
  /\ fn' = f /\ block' = b /\ count' = n /\ datum' = d
  /\ page' = b \div BlocksPerPage /\ at' = (b % BlocksPerPage) * ChunksPerBlock
  /\ left' = n /\ sel' = ChipOf(page') /\ UNCHANGED late
  /\ UNCHANGED <<watch, protected, inBlock, second, endVars, aborted, may, got, result>>

-----------------------------------------------------------------------------
(* The endpoint.                                                           *)

\* Resets, timeouts and restarts come in short calls.
Fault == Interrupted /\ count <= MaxShort

\* Endpoint_WaitUntilReady returns: the host has sent a packet or taken one.
PacketReady ==
  /\ pc \in {"first", "packet"} /\ (Writing => left > 0)
  /\ bank' = ChunksPerPacket /\ pc' = "loop"
  /\ UNCHANGED <<watch, chipVars, protected, busVars, argVars, loopVars, packets,
                 aborted, may, got, result>>

\* It returns an error: disconnected, stalled or no packet for too long.
PacketFails ==
  /\ pc \in {"first", "packet"} /\ (Fault \/ (Writing /\ left = 0))
  /\ ReturnEarly /\ UNCHANGED <<chipVars, open, endVars>>

\* Mutant: the empty bank is not released, and nobody fills it again.
MutRelease == pc = "loop" /\ OnEndpoint /\ left > 0 /\ bank = 0 /\ UNCHANGED vars

\* Endpoint_ClearOUT or Endpoint_ClearIN in the loop.
Release ==
  /\ pc = "loop" /\ OnEndpoint /\ left > 0 /\ bank = 0
  /\ packets' = packets + 1 /\ pc' = "packet"
  /\ UNCHANGED <<watch, chipVars, protected, busVars, argVars, loopVars, bank,
                 aborted, may, got, result>>

\* Mutant: a bank that was emptied by the last chunk is not released.
MutReleaseLast == packets' = packets

\* The bank the call ends with is released if nothing is left in it.
ReleaseLast == packets' = (IF OnEndpoint /\ bank = 0 THEN packets + 1 ELSE packets)

\* The host resets the interface: the control handler sets the flag.
HostReset ==
  /\ Fault /\ OnEndpoint /\ pc /= "returned" /\ ~aborted
  /\ aborted' = TRUE
  /\ UNCHANGED <<watch, chipVars, protected, busVars, pc, argVars, loopVars, endVars,
                 may, got, result>>

-----------------------------------------------------------------------------
(* The loops.                                                              *)

\* The loop has a chunk to move, or has to go to the next page first.
InLoop == pc = "loop" /\ left > 0 /\ (OnEndpoint => bank > 0)

\* The counters after a chunk; the flag is looked at only then.
Count ==
  /\ at' = at + 1
  /\ IF inBlock + 1 = ChunksPerBlock THEN inBlock' = 0 /\ left' = left - 1
                                     ELSE inBlock' = inBlock + 1 /\ UNCHANGED left
  /\ UNCHANGED <<page, second>>
Continue ==
  /\ IF OnEndpoint /\ aborted
     THEN pc' = "returned" /\ result' = "early" /\ Unfinished
     ELSE UNCHANGED <<pc, result, may>>
  /\ bank' = (IF OnEndpoint THEN bank - 1 ELSE bank)
  /\ UNCHANGED <<watch, protected, sel, argVars, packets, aborted>>

\* The buffer that is loaded and programmed.
Buffer(s) == IF s THEN 2 ELSE 1

\* The buffer that is filled: WriteBlocks_RAM always takes the first.
Filled(s) == IF fn = "write_ram" THEN 1 ELSE Buffer(s)

\* Less than a page of data remains, by the arithmetic of a uint16_t.
Short(n) == (n * ChunksPerBlock) % WordSize < PageChunks

Switched == IF sel = 2 THEN ~second ELSE second

\* DataflashManager_WriteBlocks and _RAM: up to the wait for the load.
WriteBlocks ==
  \E f \in {"write", "write_ram"}, b \in 0..Pages * BlocksPerPage - 1,
     n \in 0..MaxBlocks, d \in Data :
    /\ Begin(f, b, n, d)
    /\ Load(sel', 1, page') /\ open' = None /\ pc' = "load"

Loaded ==
  /\ pc = "load" /\ Ready
  /\ open' = WriteCommand(1, at)
  /\ pc' = IF OnEndpoint THEN "first" ELSE "loop"
  /\ UNCHANGED <<watch, chipVars, protected, sel, argVars, loopVars, endVars,
                 aborted, may, got, result>>

\* The end of a page: it is programmed, and the write goes on in the next one.
WritePageEnd ==
  /\ InLoop /\ Writing /\ at = PageChunks /\ Ready
  /\ Program(sel, Buffer(second), page)
  /\ at' = 0 /\ page' = page + 1 /\ second' = Switched /\ sel' = ChipOf(page')
  /\ IF Short(left) THEN open' = None /\ pc' = "reload"
     ELSE open' = WriteCommand(Filled(second'), 0) /\ pc' = "loop"
  /\ UNCHANGED <<watch, protected, argVars, inBlock, left, endVars, aborted, may,
                 got, result>>

\* The rest of a page that is only partly written is loaded first.
Reload ==
  /\ pc = "reload" /\ Ready
  /\ Load(sel, Buffer(second), page) /\ pc' = "reloaded"
  /\ UNCHANGED <<watch, protected, busVars, argVars, loopVars, endVars, aborted,
                 may, got, result>>

\* Mutant: the second wait is left out.
MutReloaded ==
  /\ pc = "reloaded"
  /\ open' = WriteCommand(Filled(second), 0) /\ pc' = "loop"
  /\ UNCHANGED <<watch, chipVars, protected, sel, argVars, loopVars, endVars,
                 aborted, may, got, result>>

Reloaded ==
  /\ pc = "reloaded" /\ Ready
  /\ open' = WriteCommand(Filled(second), 0) /\ pc' = "loop"
  /\ UNCHANGED <<watch, chipVars, protected, sel, argVars, loopVars, endVars,
                 aborted, may, got, result>>

\* Mutant: the end of the page is not looked for.
MutWriteChunk ==
  /\ InLoop /\ Writing
  /\ Feed(IF AtWatched THEN datum ELSE X)
  /\ Count /\ Continue /\ UNCHANGED got

\* One chunk of the data, the watched one or another.
WriteChunk ==
  /\ InLoop /\ Writing /\ at < PageChunks
  /\ Feed(IF AtWatched THEN datum ELSE X)
  /\ Count /\ Continue /\ UNCHANGED got

\* Mutant: the last page is left in its buffer.
MutWriteLast ==
  /\ pc = "loop" /\ Writing /\ left = 0 /\ Ready
  /\ open' = None /\ pc' = "last"
  /\ UNCHANGED <<watch, chipVars, protected, sel, argVars, loopVars, endVars,
                 aborted, may, got, result>>

WriteLast ==
  /\ pc = "loop" /\ Writing /\ left = 0 /\ Ready
  /\ Program(sel, Buffer(second), page)
  /\ open' = None /\ pc' = "last"
  /\ UNCHANGED <<watch, protected, sel, argVars, loopVars, endVars, aborted, may,
                 got, result>>

Finish ==
  /\ ReleaseLast /\ sel' = 0 /\ open' = None
  /\ pc' = "returned" /\ result' = "ok"
  /\ UNCHANGED <<watch, chipVars, protected, argVars, loopVars, bank, aborted, got>>

WriteReturn ==
  /\ pc = "last" /\ Ready
  /\ may' = (IF InCall THEN Stored ELSE may)
  /\ Finish

\* DataflashManager_ReadBlocks and _RAM.
ReadBlocks ==
  \E f \in {"read", "read_ram"}, b \in 0..Pages * BlocksPerPage - 1, n \in 0..MaxBlocks :
    /\ Begin(f, b, n, X)
    /\ open' = ReadCommand(sel', page', at')
    /\ pc' = IF f = "read" THEN "first" ELSE "loop"
    /\ UNCHANGED chipVars

\* Mutant: the next page is read from where the last one began.
MutReadPageEnd ==
  /\ InLoop /\ ~Writing /\ at = PageChunks
  /\ at' = 0 /\ page' = page + 1 /\ sel' = ChipOf(page')
  /\ open' = ReadCommand(sel', page', (block % BlocksPerPage) * ChunksPerBlock)
  /\ UNCHANGED <<watch, chipVars, protected, pc, argVars, inBlock, left, second,
                 endVars, aborted, may, got, result>>

ReadPageEnd ==
  /\ InLoop /\ ~Writing /\ at = PageChunks
  /\ at' = 0 /\ page' = page + 1 /\ sel' = ChipOf(page')
  /\ open' = ReadCommand(sel', page', 0)
  /\ UNCHANGED <<watch, chipVars, protected, pc, argVars, inBlock, left, second,
                 endVars, aborted, may, got, result>>

ReadChunk ==
  /\ InLoop /\ ~Writing /\ at < PageChunks
  /\ got' = (IF AtWatched THEN Fetched ELSE got)
  /\ open' = (IF open.op = "read" THEN [open EXCEPT !.at = (@ + 1) % PageChunks] ELSE open)
  /\ Count /\ Continue /\ UNCHANGED chipVars

ReadReturn ==
  /\ pc = "loop" /\ fn \in {"read", "read_ram"} /\ left = 0
  /\ Finish /\ UNCHANGED may

\* DataflashManager_CheckDataflashOperation.  A chip that was left selected
\* takes the request for its identity as data of the command it was left in,
\* and answers anything.
CheckOperation ==
  /\ pc = "idle" /\ "check" \in Functions
  /\ result' \in IF sel = 1 /\ open /= None THEN {"fail", "ok"} ELSE {"ok"}
  /\ bufs' \in {bufs} \cup IF sel = 1 /\ open.op = "write" /\ ChipOf(watch[1]) = 1
                           THEN {[bufs EXCEPT ![open.buf] = X]} ELSE {}
  /\ sel' = 0 /\ open' = None /\ pc' = "returned"
  /\ UNCHANGED <<watch, mem, busy, using, protected, argVars, loopVars, endVars,
                 aborted, may, got>>

-----------------------------------------------------------------------------
(* Start and restart of the AVR; the chips keep what they have.            *)

\* Dataflash_Init and DataflashManager_ResetDataflashProtections.
Boot ==
  /\ pc = "boot" /\ pc' = "idle"
  /\ protected' = [c \in Chip |-> FALSE] /\ sel' = 0 /\ open' = None
  /\ UNCHANGED <<watch, chipVars, argVars, loopVars, endVars, aborted, may, got, result>>

Restart ==
  /\ Fault /\ pc \notin {"boot", "returned"}
  /\ pc' = "boot" /\ sel' = 0 /\ open' = None /\ Forget /\ Unfinished
  /\ UNCHANGED <<watch, chipVars, protected>>

Init ==
  /\ watch \in (0..Pages - 1) \X Offsets /\ mem = X
  /\ bufs = [b \in {1, 2} |-> X] /\ busy = {} /\ using = [c \in Chip |-> 1]
  /\ protected \in [Chip -> BOOLEAN] /\ sel = 0 /\ open = None
  /\ pc = "boot" /\ fn = "none" /\ block = 0 /\ count = 0 /\ datum = X
  /\ page = 0 /\ at = 0 /\ inBlock = 0 /\ left = 0 /\ second = FALSE
  /\ bank = 0 /\ aborted = FALSE /\ late = {}
  /\ may = Data \cup {X} /\ got = X /\ packets = 0 /\ result = "none"

Write == \/ Loaded \/ WritePageEnd \/ Reload \/ Reloaded
         \/ WriteChunk \/ WriteLast \/ WriteReturn
Read == ReadPageEnd \/ ReadChunk \/ ReadReturn
Endpoint == PacketReady \/ PacketFails \/ Release
Start == WriteBlocks \/ ReadBlocks \/ CheckOperation

Next == Start \/ Write \/ Read \/ Endpoint \/ Return \/ Boot \/ Done \/ HostReset \/ Restart

\* The firmware runs, and Endpoint_WaitUntilReady returns or times out; a
\* chip finishes what it does.  With no chip selected a wait may last for ever.
Fairness == /\ WF_vars(sel /= 0 /\ (Write \/ Read \/ Endpoint))
            /\ WF_vars(Return \/ Boot) /\ WF_vars(Done)

Spec == Init /\ [][Next]_vars
FairSpec == Spec /\ Fairness

-----------------------------------------------------------------------------
\* Every variable keeps its C type, and the counters stay within the page,
\* the block and the bank.
TypeOK ==
  /\ watch \in (0..Pages - 1) \X (0..PageChunks - 1) /\ mem \in Data \cup {X, Lost}
  /\ bufs \in [{1, 2} -> Data \cup {X, Lost}] /\ using \in [Chip -> {1, 2}]
  /\ busy \subseteq Chip /\ late \subseteq busy
  /\ protected \in [Chip -> BOOLEAN] /\ sel \in 0..2 /\ open.op \in {"none", "read", "write"}
  /\ pc \in {"boot", "idle", "load", "first", "packet", "loop", "reload", "reloaded",
             "last", "returned"}
  /\ fn \in {"none", "write", "read", "write_ram", "read_ram"}
  /\ block \in 0..Pages * BlocksPerPage - 1 /\ count \in 0..MaxBlocks
  /\ datum \in Data \cup {X} /\ page \in 0..Pages + MaxBlocks /\ at \in 0..PageChunks
  /\ inBlock \in 0..ChunksPerBlock - 1 /\ left \in 0..MaxBlocks /\ second \in BOOLEAN
  /\ bank \in 0..ChunksPerPacket /\ aborted \in BOOLEAN /\ may \subseteq Data \cup {X}
  /\ got \in Data \cup {X, Lost} /\ packets \in Nat
  /\ result \in {"none", "ok", "early", "fail"}

\* Between calls every chunk of the memory holds what the last write of its
\* block stored there; a write that was cut short by a reset, a timeout or a
\* restart leaves a chunk of its range old or new, and never touches another
\* (DataflashManager.c, lines 70-178).  Where WriteBlocks_RAM has lost a chunk
\* of its own, anything goes; and a chunk is lost where a write met its chip at
\* work for an earlier call.
DataKept == pc \in {"boot", "idle", "returned"} => mem \in may \cup {Lost}

\* A read that ran to its end returned what the memory should hold, unless it
\* met the chip at work for an earlier call.
ReadReturnsWritten ==
  pc = "returned" /\ result = "ok" /\ fn \in {"read", "read_ram"} /\ InCall
    => got \in may \cup {Lost}

\* No buffer is filled while its chip loads or programs from it for the same
\* call, but by WriteBlocks_RAM, which fills the wrong one.
ChipsRespected ==
  open.op = "write" /\ fn # "write_ram" /\ sel \notin late
    => ~(sel \in busy /\ using[sel] = open.buf)

\* A call that ran to its end took or filled exactly the packets its blocks
\* make up: nothing is left in the endpoint and nothing of what follows taken.
PacketsExact ==
  pc = "returned" /\ result = "ok" /\ OnEndpoint
    => packets * ChunksPerPacket = count * ChunksPerBlock

\* The firmware's place in the page is the place of the chip's pointer.
PointersAgree ==
  pc = "loop" /\ open.op /= "none" /\ left > 0 => open.at = at % PageChunks

\* A call whose blocks exist returns.
InDevice == block + count <= Pages * BlocksPerPage
CallReturns == pc \notin {"boot", "idle"} /\ InDevice ~> pc \in {"boot", "idle"}

\* DataflashManager.c, line 496: "Boolean true if all media chips are working,
\* false otherwise".  The chips of this model always work.
CheckIsTruthful == result /= "fail"
=============================================================================
