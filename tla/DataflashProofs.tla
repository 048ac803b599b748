--------------------------- MODULE DataflashProofs ---------------------------
(***************************************************************************)
(* What Dataflash.tla promises, for memories, pages, blocks and packets of *)
(* any size.                                                               *)
(***************************************************************************)
EXTENDS Dataflash, Integers, TLAPS

-----------------------------------------------------------------------------
(* Arithmetic of pages, blocks and chunks.                                 *)

\* A page holds at least one chunk.
LEMMA PageIsPositive == PageChunks \in Nat \ {0}
  BY SizeAssumption DEF PageChunks

\* Multiples keep the order.
LEMMA Below ==
  ASSUME NEW q \in Nat, NEW B \in Nat, NEW C \in Nat \ {0}, q < B
  PROVE  q * C \in Nat /\ q * C + C <= B * C
<1>1. B = q + 1 + (B - q - 1) /\ B - q - 1 \in Nat
  OBVIOUS
<1>2. (B - q - 1) * C >= 0
  BY <1>1
<1>3. B * C = q * C + C + (B - q - 1) * C
  OBVIOUS
<1>4. q * C \in Nat
  OBVIOUS
<1> QED
  BY <1>2, <1>3, <1>4

\* A place within its page.
LEMMA ModSmall ==
  ASSUME NEW N \in Nat \ {0}, NEW x \in 0..N - 1
  PROVE  x % N = x
  OBVIOUS

\* The place after it is that of the chip's pointer, which wraps.
LEMMA ModNext ==
  ASSUME NEW N \in Nat \ {0}, NEW x \in 0..N - 1
  PROVE  ((x % N) + 1) % N = (x + 1) % N
  BY ModSmall

\* Where a call starts: the page and the chunk are those of its first block.
LEMMA StartPlace ==
  ASSUME NEW b \in 0..Pages * BlocksPerPage - 1
  PROVE  /\ b \div BlocksPerPage \in 0..Pages - 1
         /\ (b % BlocksPerPage) * ChunksPerBlock \in 0..PageChunks - 1
         /\ (b \div BlocksPerPage) * PageChunks + (b % BlocksPerPage) * ChunksPerBlock
              = b * ChunksPerBlock
<1> DEFINE q == b \div BlocksPerPage
           r == b % BlocksPerPage
<1>1. q \in Nat /\ r \in 0..BlocksPerPage - 1 /\ b = q * BlocksPerPage + r
  BY SizeAssumption
<1> HIDE DEF q, r
<1>2. r * ChunksPerBlock \in Nat /\ r * ChunksPerBlock + ChunksPerBlock <= PageChunks
  BY <1>1, Below, SizeAssumption DEF PageChunks
<1>3. q < Pages
  <2> SUFFICES ASSUME q >= Pages PROVE FALSE
    BY <1>1, SizeAssumption
  <2>1. Pages * BlocksPerPage <= q * BlocksPerPage
    <3>1. CASE q = Pages
      BY <3>1, <1>1, SizeAssumption
    <3>2. CASE q > Pages
      BY <3>2, <1>1, Below, SizeAssumption
    <3> QED
      BY <3>1, <3>2, <1>1, SizeAssumption
  <2>2. q * BlocksPerPage \in Nat /\ Pages * BlocksPerPage \in Nat
    BY <1>1, SizeAssumption
  <2> QED
    BY <1>1, <2>1, <2>2
<1>4. q * PageChunks + r * ChunksPerBlock = b * ChunksPerBlock
  BY <1>1, SizeAssumption DEF PageChunks
<1> QED
  BY <1>1, <1>2, <1>3, <1>4, SizeAssumption, PageIsPositive DEF q, r

\* The two buffers.
LEMMA Flip ==
  ASSUME NEW s \in BOOLEAN
  PROVE  /\ Buffer(s) \in {1, 2} /\ Buffer(~s) \in {1, 2}
         /\ Buffer(s) # Buffer(~s) /\ Buffer(~~s) = Buffer(s)
<1>1. CASE s
  BY <1>1 DEF Buffer
<1>2. CASE ~s
  BY <1>2 DEF Buffer
<1> QED
  BY <1>1, <1>2

\* The chips take the pages in turn.
LEMMA NextChip ==
  ASSUME NEW p \in Nat
  PROVE  /\ ChipOf(p) \in 0..2
         /\ ChipOf(p) = 0 => ChipOf(p + 1) = 0
         /\ ChipOf(p) = 1 => ChipOf(p + 1) = 2
         /\ ChipOf(p) = 2 => ChipOf(p + 1) \in {0, 1}
  BY SizeAssumption DEF ChipOf

-----------------------------------------------------------------------------
(* The course of a call, whatever its data.                                *)

Flow ==
  /\ pc \in {"boot", "idle", "load", "first", "packet", "loop", "reload", "reloaded",
             "last", "returned"}
  /\ fn \in {"none", "write", "read", "write_ram", "read_ram"}
  /\ result \in {"none", "ok", "early", "fail"}
  /\ pc \in {"load", "reload", "reloaded", "last"} => Writing
  /\ pc \in {"first", "packet"} => OnEndpoint
  /\ pc = "loop" => fn # "none"
  /\ pc \in {"boot", "idle"} => fn = "none"

LEMMA FlowStarts == Init => Flow
  BY DEF Init, Flow

LEMMA FlowKept == Flow /\ [Next]_vars => Flow'
<1> SUFFICES ASSUME Flow, [Next]_vars PROVE Flow'
  OBVIOUS
<1> USE DEF Flow, Writing, OnEndpoint
<1>1. CASE WriteBlocks
  BY <1>1 DEF WriteBlocks, Begin
<1>2. CASE ReadBlocks
  BY <1>2 DEF ReadBlocks, Begin
<1>3. CASE CheckOperation
  BY <1>3 DEF CheckOperation, argVars
<1>4. CASE Loaded
  BY <1>4 DEF Loaded, argVars
<1>5. CASE WritePageEnd
  BY <1>5 DEF WritePageEnd, argVars
<1>6. CASE Reload \/ Reloaded
  BY <1>6 DEF Reload, Reloaded, argVars, InLoop
<1>7. CASE WriteChunk \/ ReadChunk
  BY <1>7 DEF WriteChunk, ReadChunk, Continue, argVars
<1>8. CASE WriteLast
  BY <1>8 DEF WriteLast, argVars
<1>9. CASE WriteReturn \/ ReadReturn
  BY <1>9 DEF WriteReturn, ReadReturn, Finish, argVars
<1>10. CASE ReadPageEnd
  BY <1>10 DEF ReadPageEnd, argVars
<1>11. CASE PacketReady \/ Release
  BY <1>11 DEF PacketReady, Release, argVars
<1>12. CASE PacketFails
  BY <1>12 DEF PacketFails, ReturnEarly, argVars
<1>13. CASE Return
  BY <1>13 DEF Return, Forget
<1>14. CASE Boot \/ HostReset
  BY <1>14 DEF Boot, HostReset, argVars
<1>15. CASE Done
  BY <1>15 DEF Done, Locals, argVars
<1>16. CASE Restart
  BY <1>16 DEF Restart, Forget
<1>17. CASE UNCHANGED vars
  BY <1>17 DEF vars, argVars
<1> QED
  BY <1>1, <1>2, <1>3, <1>4, <1>5, <1>6, <1>7, <1>8, <1>9, <1>10, <1>11, <1>12, <1>13,
     <1>14, <1>15, <1>16, <1>17 DEF Next, Start, Write, Read, Endpoint

-----------------------------------------------------------------------------
(* The chips and the command one of them is taking bytes for.              *)

Commands ==
  {None} \cup [op : {"read"}, page : Nat, at : 0..PageChunks - 1, ok : BOOLEAN]
         \cup [op : {"write"}, buf : {1, 2}, at : 0..PageChunks - 1]

Chips ==
  /\ busy \subseteq Chip /\ using \in [Chip -> {1, 2}]
  /\ sel \in 0..2 /\ open \in Commands
  /\ page \in Nat /\ at \in 0..PageChunks /\ second \in BOOLEAN

\* The place of the program in the page, where it matters to the chip.
Placed ==
  /\ pc = "load" => at < PageChunks
  /\ pc \in {"reload", "reloaded"} => at = 0

\* What an open command is: none, a read or a write, with its place.
LEMMA CommandKinds ==
  /\ None \in Commands /\ None.op = "none"
  /\ \A c \in Chip \cup {0}, p \in Nat, k \in 0..PageChunks - 1 :
       /\ ReadCommand(c, p, k) \in Commands
       /\ ReadCommand(c, p, k).op = "read" /\ ReadCommand(c, p, k).at = k
       /\ ReadCommand(c, p, k).ok = (c \notin busy)
  /\ \A b \in {1, 2}, k \in 0..PageChunks - 1 :
       /\ WriteCommand(b, k) \in Commands /\ WriteCommand(b, k).buf = b
       /\ WriteCommand(b, k).op = "write" /\ WriteCommand(b, k).at = k
  BY DEF Commands, None, ReadCommand, WriteCommand

\* A command that has gone on by one chunk is the same command.
LEMMA CommandAdvances ==
  ASSUME NEW c \in Commands, c.op # "none"
  PROVE  LET d == [c EXCEPT !.at = (@ + 1) % PageChunks]
         IN /\ d \in Commands /\ d.op = c.op /\ d.at = (c.at + 1) % PageChunks
            /\ c.op = "write" => c.buf \in {1, 2} /\ d.buf = c.buf
            /\ c.op = "read" => d.ok = c.ok
<1>1. \A k \in 0..PageChunks - 1 : (k + 1) % PageChunks \in 0..PageChunks - 1
  BY PageIsPositive
<1>2. CASE c \in [op : {"read"}, page : Nat, at : 0..PageChunks - 1, ok : BOOLEAN]
  BY <1>1, <1>2 DEF Commands
<1>3. CASE c \in [op : {"write"}, buf : {1, 2}, at : 0..PageChunks - 1]
  BY <1>1, <1>3 DEF Commands
<1> QED
  BY <1>2, <1>3 DEF Commands, None

\* A buffer that is filled is one of the two.
LEMMA FilledIsABuffer ==
  ASSUME NEW s \in BOOLEAN
  PROVE  Filled(s) \in {1, 2}
  BY Flip DEF Filled

\* A chip that is told to load or to program is busy on one of its buffers.
LEMMA WorkTyped ==
  ASSUME busy \subseteq Chip, using \in [Chip -> {1, 2}],
         NEW c \in 0..2, NEW b \in {1, 2}, NEW p,
         Load(c, b, p) \/ Program(c, b, p)
  PROVE  busy' \subseteq Chip /\ using' \in [Chip -> {1, 2}]
<1>1. CASE UNCHANGED chipVars
  BY <1>1 DEF chipVars
<1>2. CASE c # 0 /\ Work(c, b)
  BY <1>2 DEF Work, Chip
<1> QED
  BY <1>1, <1>2 DEF Load, Program

\* A chunk that is sent or received moves the chip's pointer on.
LEMMA FeedMoves ==
  ASSUME open \in Commands, NEW v, Feed(v)
  PROVE  /\ open' \in Commands /\ open'.op = open.op
         /\ open.op = "write" => open'.buf = open.buf /\ open'.at = (open.at + 1) % PageChunks
         /\ open.op # "write" => open' = open
         /\ UNCHANGED <<busy, using>>
<1>1. CASE open.op = "write"
  BY <1>1, CommandAdvances DEF Feed
<1>2. CASE open.op # "write"
  BY <1>2 DEF Feed
<1> QED
  BY <1>1, <1>2

LEMMA FetchMoves ==
  ASSUME open \in Commands, ReadChunk
  PROVE  /\ open' \in Commands /\ open'.op = open.op
         /\ open.op = "read" => open'.ok = open.ok /\ open'.at = (open.at + 1) % PageChunks
         /\ open.op # "read" => open' = open
         /\ UNCHANGED <<busy, using>>
  BY CommandAdvances DEF ReadChunk, chipVars

\* A chip is at work for an earlier call only while it is at work.
Lately == late \subseteq busy

Device == Flow /\ Chips /\ Placed /\ Lately

LEMMA LatelyKept == Lately /\ [Next]_vars => Lately'
<1> SUFFICES ASSUME Lately, [Next]_vars PROVE Lately'
  OBVIOUS
<1>1. CASE Done
  BY <1>1 DEF Done, Lately
<1>2. CASE Return \/ Restart
  BY <1>2 DEF Return, Restart, Forget, chipVars, Lately
<1>3. CASE late' = late /\ busy \subseteq busy'
  BY <1>3 DEF Lately
<1>4. \A c, b, p : Load(c, b, p) \/ Program(c, b, p) => busy \subseteq busy'
  BY DEF Load, Program, Work, chipVars
<1>5. CASE WriteBlocks \/ WritePageEnd \/ Reload \/ WriteLast
  BY <1>3, <1>4, <1>5 DEF WriteBlocks, Begin, WritePageEnd, Reload, WriteLast, argVars
<1> QED
  BY <1>1, <1>2, <1>3, <1>5
  DEF Next, Start, Write, Read, Endpoint, ReadBlocks, CheckOperation, Begin, Loaded, Reloaded,
      WriteChunk, Feed, WriteReturn, ReadPageEnd, ReadChunk, ReadReturn, Finish, Continue,
      PacketReady, PacketFails, ReturnEarly, Release, Boot, HostReset, argVars, chipVars, vars

LEMMA DeviceStarts == Init => Device
<1> SUFFICES ASSUME Init PROVE Device
  OBVIOUS
<1>1. using \in [Chip -> {1, 2}]
  BY DEF Init
<1>2. second \in BOOLEAN
  BY DEF Init
<1>3. Chips
  <2>1. busy = {} /\ sel = 0 /\ open = None /\ page = 0 /\ at = 0
    BY DEF Init
  <2> QED
    BY <1>1, <1>2, <2>1, CommandKinds, PageIsPositive DEF Chips
<1>4. Placed
  BY DEF Init, Placed
<1>5. Lately
  BY DEF Init, Lately
<1> QED
  BY <1>3, <1>4, <1>5, FlowStarts DEF Device

\* A call starts at a page of the memory and a chunk of the page.
LEMMA BeginTyped ==
  ASSUME NEW f, NEW b \in 0..Pages * BlocksPerPage - 1, NEW k, NEW d, Begin(f, b, k, d)
  PROVE  /\ page' \in Nat /\ at' \in 0..PageChunks - 1 /\ sel' = ChipOf(page') /\ sel' \in 1..2
         /\ second' = second
<1>1. page' \in 0..Pages - 1 /\ at' \in 0..PageChunks - 1
  BY StartPlace DEF Begin
<1>2. sel' = ChipOf(page') /\ second' = second
  BY DEF Begin
<1>3. sel' \in 1..2
  BY <1>1, <1>2, SizeAssumption DEF ChipOf
<1> QED
  BY <1>1, <1>2, <1>3, SizeAssumption

LEMMA DeviceKept == Device /\ [Next]_vars => Device'
<1> SUFFICES ASSUME Device, [Next]_vars PROVE Chips' /\ Placed'
  BY FlowKept, LatelyKept DEF Device
<1>1. Flow /\ Chips /\ Placed
  BY DEF Device
<1>2. CASE WriteBlocks
  <2>1. PICK f \in {"write", "write_ram"}, b \in 0..Pages * BlocksPerPage - 1,
             k \in 0..MaxBlocks, d \in Data :
          /\ Begin(f, b, k, d)
          /\ Load(sel', 1, page') /\ open' = None /\ pc' = "load"
    BY <1>2 DEF WriteBlocks
  <2>2. page' \in Nat /\ at' \in 0..PageChunks - 1 /\ sel' \in 1..2 /\ second' = second
    BY <2>1, BeginTyped
  <2>3. busy' \subseteq Chip /\ using' \in [Chip -> {1, 2}]
    BY <1>1, <2>1, <2>2, WorkTyped DEF Chips
  <2> QED
    BY <1>1, <2>1, <2>2, <2>3, CommandKinds, PageIsPositive DEF Chips, Placed
<1>3. CASE ReadBlocks
  <2>1. PICK f \in {"read", "read_ram"}, b \in 0..Pages * BlocksPerPage - 1,
             k \in 0..MaxBlocks :
          /\ Begin(f, b, k, X)
          /\ open' = ReadCommand(sel', page', at')
          /\ pc' = IF f = "read" THEN "first" ELSE "loop"
          /\ UNCHANGED chipVars
    BY <1>3 DEF ReadBlocks
  <2>2. page' \in Nat /\ at' \in 0..PageChunks - 1 /\ sel' \in 1..2 /\ second' = second
    BY <2>1, BeginTyped
  <2>3. open' \in Commands
    BY <2>1, <2>2, CommandKinds DEF Chip
  <2>4. UNCHANGED <<busy, using>>
    BY <2>1 DEF chipVars
  <2> QED
    BY <1>1, <2>1, <2>2, <2>3, <2>4, PageIsPositive DEF Chips, Placed
<1>4. CASE CheckOperation
  BY <1>1, <1>4, CommandKinds DEF CheckOperation, loopVars, Chips, Placed
<1>5. CASE Loaded
  <2>1. open' \in Commands
    BY <1>1, <1>5, CommandKinds, PageIsPositive DEF Loaded, Chips, Placed
  <2> QED
    BY <1>1, <1>5, <2>1 DEF Loaded, chipVars, loopVars, Chips, Placed
<1>6. CASE WritePageEnd
  <2>1. Buffer(second) \in {1, 2} /\ second' \in BOOLEAN
    BY <1>1, <1>6, Flip DEF WritePageEnd, Switched, Chips
  <2>2. busy' \subseteq Chip /\ using' \in [Chip -> {1, 2}]
    BY <1>1, <1>6, <2>1, WorkTyped DEF WritePageEnd, Chips
  <2>3. page' = page + 1 /\ at' = 0 /\ sel' = ChipOf(page')
    BY <1>6 DEF WritePageEnd
  <2>4. page' \in Nat /\ sel' \in 0..2
    BY <1>1, <2>3, NextChip DEF Chips
  <2>5. open' \in Commands
    BY <1>6, <2>1, CommandKinds, FilledIsABuffer, PageIsPositive DEF WritePageEnd
  <2>6. pc' \in {"reload", "loop"}
    BY <1>6 DEF WritePageEnd
  <2> QED
    BY <2>1, <2>2, <2>3, <2>4, <2>5, <2>6, PageIsPositive DEF Chips, Placed
<1>7. CASE Reload
  <2>1. Buffer(second) \in {1, 2}
    BY <1>1, Flip DEF Chips
  <2>2. busy' \subseteq Chip /\ using' \in [Chip -> {1, 2}]
    BY <1>1, <1>7, <2>1, WorkTyped DEF Reload, Chips
  <2> QED
    BY <1>1, <1>7, <2>2 DEF Reload, busVars, loopVars, Chips, Placed
<1>8. CASE Reloaded
  <2>1. open' \in Commands
    BY <1>1, <1>8, CommandKinds, FilledIsABuffer, PageIsPositive DEF Reloaded, Chips
  <2> QED
    BY <1>1, <1>8, <2>1 DEF Reloaded, chipVars, loopVars, Chips, Placed
<1>9. CASE WriteChunk
  <2>1. open' \in Commands /\ UNCHANGED <<busy, using>>
    BY <1>1, <1>9, FeedMoves DEF WriteChunk, Chips
  <2>2. at' \in 0..PageChunks
    BY <1>1, <1>9, PageIsPositive DEF WriteChunk, Count, Chips
  <2>3. UNCHANGED <<page, second, sel>> /\ pc' \in {"loop", "returned"}
    BY <1>9 DEF WriteChunk, Count, Continue, InLoop
  <2> QED
    BY <1>1, <2>1, <2>2, <2>3 DEF Chips, Placed
<1>10. CASE ReadChunk
  <2>1. open' \in Commands /\ UNCHANGED <<busy, using>>
    BY <1>1, <1>10, FetchMoves DEF Chips
  <2>2. at' \in 0..PageChunks
    BY <1>1, <1>10, PageIsPositive DEF ReadChunk, Count, Chips
  <2>3. UNCHANGED <<page, second, sel>> /\ pc' \in {"loop", "returned"}
    BY <1>10 DEF ReadChunk, Count, Continue, InLoop
  <2> QED
    BY <1>1, <2>1, <2>2, <2>3 DEF Chips, Placed
<1>11. CASE WriteLast
  <2>1. Buffer(second) \in {1, 2}
    BY <1>1, Flip DEF Chips
  <2>2. busy' \subseteq Chip /\ using' \in [Chip -> {1, 2}]
    BY <1>1, <1>11, <2>1, WorkTyped DEF WriteLast, Chips
  <2> QED
    BY <1>1, <1>11, <2>2, CommandKinds DEF WriteLast, loopVars, Chips, Placed
<1>12. CASE WriteReturn \/ ReadReturn
  BY <1>1, <1>12, CommandKinds
  DEF WriteReturn, ReadReturn, Finish, chipVars, loopVars, Chips, Placed
<1>13. CASE ReadPageEnd
  <2>1. page' = page + 1 /\ at' = 0 /\ sel' = ChipOf(page')
    BY <1>13 DEF ReadPageEnd
  <2>2. page' \in Nat /\ sel' \in 0..2
    BY <1>1, <2>1, NextChip DEF Chips
  <2>3. open' \in Commands
    BY <1>13, <2>2, CommandKinds, PageIsPositive DEF ReadPageEnd, Chip
  <2>4. UNCHANGED <<busy, using, second, pc>> /\ pc = "loop"
    BY <1>13 DEF ReadPageEnd, chipVars, InLoop
  <2> QED
    BY <1>1, <2>1, <2>2, <2>3, <2>4, PageIsPositive DEF Chips, Placed
<1>14. CASE PacketReady \/ Release \/ HostReset
  BY <1>1, <1>14 DEF PacketReady, Release, HostReset, chipVars, busVars, loopVars, Chips, Placed
<1>15. CASE PacketFails
  BY <1>1, <1>15 DEF PacketFails, ReturnEarly, chipVars, loopVars, Chips, Placed
<1>16. CASE Return \/ Restart
  <2>1. UNCHANGED <<busy, using>> /\ page' = 0 /\ at' = 0 /\ second' = FALSE
    BY <1>16 DEF Return, Restart, Forget, chipVars
  <2>2. \/ UNCHANGED <<sel, open>>
        \/ sel' = 0 /\ open' = None
    BY <1>16 DEF Return, Restart, busVars
  <2>3. pc' \in {"idle", "boot"} /\ second' \in BOOLEAN
    BY <1>16, <2>1 DEF Return, Restart
  <2>4. UNCHANGED <<busy, using>> /\ page' = 0 /\ at' = 0
    BY <2>1
  <2>5. sel' \in 0..2 /\ open' \in Commands
    BY <1>1, <2>2, CommandKinds DEF Chips
  <2> QED
    BY <1>1, <2>3, <2>4, <2>5, PageIsPositive DEF Chips, Placed
<1>17. CASE Boot
  BY <1>1, <1>17, CommandKinds DEF Boot, chipVars, loopVars, Chips, Placed
<1>18. CASE Done
  BY <1>1, <1>18 DEF Done, Locals, busVars, loopVars, Chips, Placed, Chip
<1>19. CASE UNCHANGED vars
  BY <1>1, <1>19 DEF vars, chipVars, busVars, loopVars, Chips, Placed
<1> QED
  BY <1>2, <1>3, <1>4, <1>5, <1>6, <1>7, <1>8, <1>9, <1>10, <1>11, <1>12, <1>13, <1>14,
     <1>15, <1>16, <1>17, <1>18, <1>19 DEF Next, Start, Write, Read, Endpoint

-----------------------------------------------------------------------------
(* The command a call has open, and its place in the page.                 *)

\* Where bytes move a command of the right kind is open, and the chip's
\* pointer stands where the program does; between pages none is open.
Opened ==
  /\ pc \in {"first", "packet", "loop"}
       => /\ open.op = IF Writing THEN "write" ELSE "read"
          /\ open.at = at % PageChunks
  /\ pc \in {"load", "reload", "reloaded", "last"} => open.op = "none"

LEMMA OpenedKept == Device /\ Opened /\ [Next]_vars => Opened'
<1> SUFFICES ASSUME Device, Opened, [Next]_vars PROVE Opened'
  OBVIOUS
<1>1. Flow /\ Chips /\ Placed
  BY DEF Device
<1>2. CASE WriteBlocks
  BY <1>2, CommandKinds DEF WriteBlocks, Opened
<1>3. CASE ReadBlocks
  <2>1. PICK f \in {"read", "read_ram"}, b \in 0..Pages * BlocksPerPage - 1,
             k \in 0..MaxBlocks :
          /\ Begin(f, b, k, X)
          /\ open' = ReadCommand(sel', page', at')
          /\ pc' = IF f = "read" THEN "first" ELSE "loop"
    BY <1>3 DEF ReadBlocks
  <2>2. page' \in Nat /\ at' \in 0..PageChunks - 1 /\ sel' \in Chip
    BY <2>1, BeginTyped DEF Chip
  <2>3. open'.op = "read" /\ open'.at = at'
    BY <2>1, <2>2, CommandKinds
  <2>4. at' % PageChunks = at'
    BY <2>2, PageIsPositive, ModSmall
  <2>5. ~Writing'
    BY <2>1 DEF Begin, Writing
  <2> QED
    BY <2>1, <2>3, <2>4, <2>5 DEF Opened
<1>4. CASE Loaded
  <2>1. /\ open' = WriteCommand(1, at) /\ at' = at /\ at \in 0..PageChunks - 1
        /\ pc' \in {"first", "loop"}
    BY <1>1, <1>4, PageIsPositive DEF Loaded, loopVars, Chips, Placed
  <2>2. open'.op = "write" /\ open'.at = at
    BY <2>1, CommandKinds
  <2>3. Writing'
    BY <1>1, <1>4 DEF Loaded, argVars, Writing, Flow
  <2>4. at % PageChunks = at
    BY <2>1, PageIsPositive, ModSmall
  <2> QED
    BY <2>1, <2>2, <2>3, <2>4 DEF Opened
<1>5. CASE WritePageEnd
  <2>1. /\ at' = 0
        /\ \/ pc' = "reload" /\ open' = None
           \/ pc' = "loop" /\ open' = WriteCommand(Filled(second'), 0)
    BY <1>5 DEF WritePageEnd
  <2>2. Filled(second') \in {1, 2}
    <3>1. second' \in BOOLEAN
      BY <1>1, <1>5 DEF WritePageEnd, Switched, Chips
    <3>2. fn' = fn
      BY <1>5 DEF WritePageEnd, argVars
    <3> QED
      BY <3>1, FilledIsABuffer
  <2>3. pc' = "loop" => open'.op = "write" /\ open'.at = 0
    BY <2>1, <2>2, CommandKinds, PageIsPositive
  <2>4. Writing'
    BY <1>5 DEF WritePageEnd, argVars, Writing
  <2>5. 0 % PageChunks = 0
    BY PageIsPositive, ModSmall
  <2> QED
    BY <2>1, <2>3, <2>4, <2>5, CommandKinds DEF Opened
<1>6. CASE Reload
  BY <1>6 DEF Reload, busVars, Opened
<1>7. CASE Reloaded
  <2>1. at' = 0 /\ pc' = "loop" /\ open' = WriteCommand(Filled(second), 0)
    BY <1>1, <1>7 DEF Reloaded, loopVars, Placed
  <2>2. open'.op = "write" /\ open'.at = 0
    BY <1>1, <2>1, CommandKinds, FilledIsABuffer, PageIsPositive DEF Chips
  <2>3. Writing'
    BY <1>1, <1>7 DEF Reloaded, argVars, Writing, Flow
  <2>4. 0 % PageChunks = 0
    BY PageIsPositive, ModSmall
  <2> QED
    BY <2>1, <2>2, <2>3, <2>4 DEF Opened
<1>8. CASE WriteChunk \/ ReadChunk
  <2>1. pc = "loop" /\ at \in 0..PageChunks - 1 /\ at' = at + 1
    BY <1>1, <1>8, PageIsPositive DEF WriteChunk, ReadChunk, InLoop, Count, Chips
  <2>2. pc' \in {"loop", "returned"} /\ fn' = fn
    BY <1>8, <2>1 DEF WriteChunk, ReadChunk, Continue, argVars
  <2>3. open.op = (IF Writing THEN "write" ELSE "read") /\ open.at = at % PageChunks
    BY <2>1 DEF Opened
  <2>4. open'.op = open.op /\ open'.at = (open.at + 1) % PageChunks
    <3>1. CASE WriteChunk
      BY <1>1, <2>3, <3>1, FeedMoves DEF WriteChunk, Chips
    <3>2. CASE ReadChunk
      <4>1. open.op = "read"
        BY <2>3, <3>2 DEF ReadChunk
      <4> QED
        BY <1>1, <3>2, <4>1, FetchMoves DEF Chips
    <3> QED
      BY <1>8, <3>1, <3>2
  <2>5. ((at % PageChunks) + 1) % PageChunks = (at + 1) % PageChunks
    BY <2>1, PageIsPositive, ModNext
  <2> QED
    BY <2>1, <2>2, <2>3, <2>4, <2>5 DEF Opened, Writing
<1>9. CASE WriteLast
  BY <1>9, CommandKinds DEF WriteLast, Opened
<1>10. CASE WriteReturn \/ ReadReturn
  BY <1>10 DEF WriteReturn, ReadReturn, Finish, Opened
<1>11. CASE ReadPageEnd
  <2>1. /\ at' = 0 /\ page' = page + 1 /\ sel' = ChipOf(page') /\ pc' = "loop"
        /\ open' = ReadCommand(sel', page', 0)
    BY <1>11 DEF ReadPageEnd, InLoop
  <2>2. page' \in Nat /\ sel' \in 0..2
    BY <1>1, <2>1, NextChip DEF Chips
  <2>3. open'.op = "read" /\ open'.at = 0
    BY <2>1, <2>2, CommandKinds, PageIsPositive DEF Chip
  <2>4. ~Writing'
    BY <1>11 DEF ReadPageEnd, argVars, Writing
  <2>5. 0 % PageChunks = 0
    BY PageIsPositive, ModSmall
  <2> QED
    BY <2>1, <2>3, <2>4, <2>5 DEF Opened
<1>12. CASE PacketReady \/ Release \/ HostReset
  BY <1>12 DEF PacketReady, Release, HostReset, busVars, loopVars, argVars, Opened, Writing
<1>13. CASE CheckOperation \/ PacketFails \/ Return \/ Restart \/ Boot
  BY <1>13 DEF CheckOperation, PacketFails, ReturnEarly, Return, Restart, Boot, Opened
<1>14. CASE Done
  BY <1>14 DEF Done, Locals, busVars, loopVars, argVars, Opened, Writing
<1>15. CASE UNCHANGED vars
  BY <1>15 DEF vars, busVars, loopVars, argVars, Opened, Writing
<1> QED
  BY <1>2, <1>3, <1>4, <1>5, <1>6, <1>7, <1>8, <1>9, <1>10, <1>11, <1>12, <1>13, <1>14,
     <1>15 DEF Next, Start, Write, Read, Endpoint

\* The firmware's place in the page is the place of the chip's pointer, in
\* every call, from whatever block and however many.
THEOREM PointersAlwaysAgree == Spec => []PointersAgree
<1>1. Init => Device /\ Opened
  BY DeviceStarts DEF Init, Opened
<1>2. Device /\ Opened /\ [Next]_vars => (Device /\ Opened)'
  BY DeviceKept, OpenedKept
<1>3. Device /\ Opened => PointersAgree
  BY DEF Opened, PointersAgree
<1> QED
  BY <1>1, <1>2, <1>3, PTL DEF Spec

-----------------------------------------------------------------------------
(* The buffers of the chips.                                               *)

\* A write turns the buffers with every page of chip 2: the buffer it fills is
\* not the one the selected chip is still busy with for this call, and by the
\* time it comes round to the other chip neither is that one.
Turned ==
  /\ pc \in {"first", "packet", "loop", "reload"} /\ sel \in busy \ late
       => using[sel] = Buffer(~second)
  /\ sel = 1 /\ 2 \in busy \ late => using[2] = Buffer(~second)
  /\ sel = 2 /\ 1 \in busy \ late => using[1] = Buffer(second)

Buffers ==
  /\ pc \in {"load", "first", "packet", "loop", "reload", "reloaded", "last"}
       => sel = ChipOf(page)
  /\ fn = "write" /\ pc # "returned" => Turned
  /\ fn = "write" /\ pc \in {"first", "packet", "loop"} => open.buf = Buffer(second)
  /\ pc \in {"boot", "idle", "load"} => second = FALSE
  /\ pc \in {"boot", "idle"} => late = busy
  /\ fn = "write_ram" => pc \notin {"first", "packet"}
  /\ fn = "write_ram" /\ pc = "returned" => open.op # "write"

Safe == Device /\ Opened /\ Buffers /\ ChipsRespected

LEMMA SafeStarts == Init => Safe
<1> SUFFICES ASSUME Init PROVE Safe
  OBVIOUS
<1>1. pc = "boot" /\ fn = "none" /\ open = None /\ second = FALSE /\ late = busy
  BY DEF Init
<1>2. Opened /\ Buffers /\ ChipsRespected
  BY <1>1, CommandKinds DEF Opened, Buffers, ChipsRespected
<1> QED
  BY <1>2, DeviceStarts DEF Safe

\* What a chip that is ready does when it is told to load or to program.
LEMMA WorkStarts ==
  ASSUME NEW c \in 0..2, NEW b \in {1, 2}, NEW p, c \notin busy,
         using \in [Chip -> {1, 2}], Load(c, b, p) \/ Program(c, b, p)
  PROVE  /\ c = 0 => UNCHANGED <<busy, using>>
         /\ c # 0 => /\ busy' = busy \cup {c} /\ using'[c] = b
                     /\ \A e \in Chip \ {c} : using'[e] = using[e]
  BY DEF Load, Program, Work, chipVars, Chip

\* A step that touches neither the chips nor the command.
LEMMA StillSafe ==
  ASSUME Safe, Device', Opened', UNCHANGED <<busy, using, sel, open, page, second, fn, late>>,
         \/ pc' = pc
         \/ pc = "first" /\ pc' \in {"loop", "packet", "returned"}
         \/ pc = "packet" /\ pc' \in {"loop", "returned"}
         \/ pc = "loop" /\ (pc' = "packet" \/ pc' = "returned") /\ fn # "write_ram"
  PROVE  Buffers' /\ ChipsRespected'
  BY DEF Safe, Buffers, Turned, ChipsRespected

\* A call that starts gives no chip but its own anything to do.
LEMMA StartSafe ==
  ASSUME Safe, Opened', WriteBlocks \/ ReadBlocks \/ CheckOperation
  PROVE  Buffers' /\ ChipsRespected'
<1>1. Device /\ Flow /\ Chips /\ Buffers
  BY DEF Safe, Device
<1>2. CASE WriteBlocks
  <2>1. PICK f \in {"write", "write_ram"}, b \in 0..Pages * BlocksPerPage - 1,
             k \in 0..MaxBlocks, d \in Data :
          /\ Begin(f, b, k, d)
          /\ Load(sel', 1, page') /\ open' = None /\ pc' = "load"
    BY <1>2 DEF WriteBlocks
  <2>2. sel' = ChipOf(page') /\ sel' \in 1..2 /\ second' = second
    BY <2>1, BeginTyped
  <2>3. pc = "idle" /\ fn' = f /\ late' = busy
    BY <1>1, <2>1 DEF Begin, Buffers
  <2>4. busy' \ late' \subseteq {sel'}
    BY <2>1, <2>2, <2>3 DEF Load, Work
  <2>5. second' = FALSE
    BY <1>1, <2>2, <2>3 DEF Buffers
  <2>6. Turned'
    BY <2>1, <2>2, <2>4 DEF Turned
  <2> QED
    BY <2>1, <2>2, <2>3, <2>5, <2>6, CommandKinds DEF Buffers, ChipsRespected
<1>3. CASE ReadBlocks
  <2>1. PICK f \in {"read", "read_ram"}, b \in 0..Pages * BlocksPerPage - 1,
             k \in 0..MaxBlocks :
          /\ Begin(f, b, k, X)
          /\ open' = ReadCommand(sel', page', at')
          /\ pc' = IF f = "read" THEN "first" ELSE "loop"
          /\ UNCHANGED chipVars
    BY <1>3 DEF ReadBlocks
  <2>2. page' \in Nat /\ at' \in 0..PageChunks - 1 /\ sel' = ChipOf(page') /\ sel' \in Chip
    BY <2>1, BeginTyped DEF Chip
  <2>3. fn' = f
    BY <2>1 DEF Begin
  <2>4. open'.op = "read"
    BY <2>1, <2>2, CommandKinds DEF Chip
  <2> QED
    BY <2>1, <2>2, <2>3, <2>4 DEF Buffers, ChipsRespected
<1>4. CASE CheckOperation
  <2>1. pc' = "returned" /\ open' = None /\ fn' = "none"
    BY <1>1, <1>4 DEF CheckOperation, argVars, Flow
  <2> QED
    BY <2>1, CommandKinds DEF Buffers, ChipsRespected
<1> QED
  BY <1>2, <1>3, <1>4

\* The end of a page: the chip is busy with the buffer that was filled, and
\* the write goes on with the other chip.
LEMMA WritePageEndSafe ==
  ASSUME Safe, Device', Opened', WritePageEnd
  PROVE  Buffers' /\ ChipsRespected'
<1>1. Flow /\ Chips /\ Buffers
  BY DEF Safe, Device
<1>2. /\ pc = "loop" /\ Writing /\ fn' = fn /\ sel \notin busy
      /\ Program(sel, Buffer(second), page)
      /\ page' = page + 1 /\ second' = Switched /\ sel' = ChipOf(page')
      /\ \/ pc' = "reload" /\ open' = None
         \/ pc' = "loop" /\ open' = WriteCommand(Filled(second'), 0)
  BY DEF WritePageEnd, InLoop, Ready, argVars
<1>3. sel = ChipOf(page) /\ page \in Nat /\ sel \in 0..2 /\ second \in BOOLEAN
  BY <1>1, <1>2 DEF Buffers, Chips
<1>4. second' \in BOOLEAN /\ Filled(second') \in {1, 2}
  BY <1>2, <1>3, FilledIsABuffer DEF Switched
<1>5. /\ sel = 0 => UNCHANGED <<busy, using>>
      /\ sel # 0 => /\ busy' = busy \cup {sel} /\ using'[sel] = Buffer(second)
                    /\ \A e \in Chip \ {sel} : using'[e] = using[e]
  BY <1>1, <1>2, <1>3, Flip, WorkStarts DEF Chips
<1>6. fn = "write" => Turned
  BY <1>1, <1>2 DEF Buffers
<1>7. busy \subseteq {1, 2} /\ late \subseteq busy /\ late' = late
  BY <1>1 DEF Safe, Device, Lately, Chips, Chip, WritePageEnd, argVars
<1>8. fn = "write" => Turned'
  <2> SUFFICES ASSUME fn = "write" PROVE Turned'
    OBVIOUS
  <2>1. CASE sel = 0
    <3>1. sel' = 0
      BY <1>2, <1>3, <2>1, NextChip
    <3>2. 0 \notin busy'
      BY <1>5, <1>7, <2>1
    <3> QED
      BY <3>1, <3>2 DEF Turned
  <2>2. CASE sel = 1
    <3>1. sel' = 2
      BY <1>2, <1>3, <2>2, NextChip
    <3>2. Buffer(~second') = Buffer(~second) /\ Buffer(second') = Buffer(second)
      <4>1. second' = second
        BY <1>2, <2>2 DEF Switched
      <4> QED
        BY <4>1
    <3>3. using'[1] = Buffer(second) /\ using'[2] = using[2] /\ busy' = busy \cup {1}
      BY <1>5, <2>2 DEF Chip
    <3>4. 2 \in busy \ late => using[2] = Buffer(~second)
      BY <1>6, <2>2 DEF Turned
    <3> QED
      BY <1>7, <3>1, <3>2, <3>3, <3>4 DEF Turned
  <2>3. CASE sel = 2
    <3>1. sel' \in {0, 1} /\ second' = ~second
      BY <1>2, <1>3, <2>3, NextChip DEF Switched
    <3>2. Buffer(~second') = Buffer(second)
      BY <1>3, <3>1, Flip
    <3>3. using'[2] = Buffer(second) /\ using'[1] = using[1] /\ busy' = busy \cup {2}
      BY <1>5, <2>3 DEF Chip
    <3>4. 1 \in busy \ late => using[1] = Buffer(second)
      BY <1>6, <2>3 DEF Turned
    <3>5. 0 \notin busy'
      BY <1>7, <3>3
    <3> QED
      BY <1>7, <3>1, <3>2, <3>3, <3>4, <3>5 DEF Turned
  <2> QED
    BY <1>3, <2>1, <2>2, <2>3
<1>9. /\ fn = "write" /\ pc' = "loop" => open'.op = "write" /\ open'.buf = Buffer(second')
      /\ pc' = "reload" => open'.op = "none"
  <2>1. fn = "write" => Filled(second') = Buffer(second')
    BY DEF Filled
  <2> QED
    BY <1>2, <1>4, <2>1, CommandKinds, PageIsPositive
<1>10. Buffers'
  BY <1>2, <1>8, <1>9 DEF Buffers, Writing
<1>11. fn = "write" /\ open'.op = "write" /\ sel' \in busy' \ late'
         => using'[sel'] # open'.buf
  <2> SUFFICES ASSUME fn = "write", open'.op = "write", sel' \in busy' \ late'
               PROVE  using'[sel'] # open'.buf
    OBVIOUS
  <2>1. pc' = "loop" /\ open'.buf = Buffer(second')
    BY <1>2, <1>9
  <2>2. using'[sel'] = Buffer(~second')
    BY <1>8, <2>1 DEF Turned
  <2> QED
    BY <1>4, <2>1, <2>2, Flip
<1> QED
  BY <1>2, <1>9, <1>10, <1>11 DEF ChipsRespected, Writing

\* The chip that is told to load the rest of a page, or to program the last
\* one, was ready.
LEMMA WorkSafe ==
  ASSUME Safe, Device', Opened', Reload \/ WriteLast
  PROVE  Buffers' /\ ChipsRespected'
<1>1. Flow /\ Chips /\ Buffers
  BY DEF Safe, Device
<1>2. /\ Load(sel, Buffer(second), page) \/ Program(sel, Buffer(second), page)
      /\ Writing /\ sel \notin busy
      /\ UNCHANGED <<fn, page, second, sel, late>>
  BY <1>1 DEF Reload, WriteLast, Ready, argVars, loopVars, busVars, Flow
<1>3. /\ pc \in {"loop", "reload"}
      /\ pc' \in {"reloaded", "last"} /\ open'.op = "none"
  BY CommandKinds DEF Reload, WriteLast, Opened
<1>4. sel = ChipOf(page) /\ sel \in 0..2 /\ second \in BOOLEAN /\ busy \subseteq {1, 2}
  BY <1>1, <1>3 DEF Buffers, Chips, Chip
<1>5. /\ sel = 0 => UNCHANGED <<busy, using>>
      /\ sel # 0 => /\ busy' = busy \cup {sel}
                    /\ \A e \in Chip \ {sel} : using'[e] = using[e]
  BY <1>1, <1>2, <1>4, Flip, WorkStarts DEF Chips
<1>6. fn = "write" => Turned'
  <2> SUFFICES ASSUME fn = "write" PROVE Turned'
    OBVIOUS
  <2>1. Turned
    BY <1>1, <1>3 DEF Buffers
  <2>2. Buffer(second') = Buffer(second) /\ Buffer(~second') = Buffer(~second)
    BY <1>2
  <2>3. /\ sel' = 1 /\ 2 \in busy' \ late' => 2 \in busy \ late /\ using'[2] = using[2]
        /\ sel' = 2 /\ 1 \in busy' \ late' => 1 \in busy \ late /\ using'[1] = using[1]
    BY <1>2, <1>4, <1>5 DEF Chip
  <2> QED
    BY <1>2, <1>3, <2>1, <2>2, <2>3 DEF Turned
<1>7. Buffers'
  BY <1>2, <1>3, <1>4, <1>6 DEF Buffers, Writing
<1> QED
  BY <1>3, <1>7 DEF ChipsRespected

\* The first chunk of a page goes to a buffer its chip is done with.
LEMMA OpenSafe ==
  ASSUME Safe, Device', Opened', Loaded \/ Reloaded
  PROVE  Buffers' /\ ChipsRespected'
<1>1. Flow /\ Chips /\ Placed /\ Buffers
  BY DEF Safe, Device
<1>2. /\ pc \in {"load", "reloaded"} /\ Writing /\ sel \notin busy
      /\ UNCHANGED <<busy, using, fn, page, second, sel, late>>
  BY <1>1 DEF Loaded, Reloaded, Ready, chipVars, argVars, loopVars, Flow
<1>3. sel = ChipOf(page) /\ (fn = "write" => Turned)
  BY <1>1, <1>2 DEF Buffers
<1>4. /\ open'.op = "write"
      /\ fn = "write" => open'.buf = Buffer(second)
      /\ fn = "write_ram" => pc' = "loop"
      /\ pc' \in {"first", "loop"}
  <2>1. CASE Loaded
    <3>1. open' = WriteCommand(1, at) /\ at \in 0..PageChunks - 1 /\ pc = "load"
      BY <1>1, <2>1, PageIsPositive DEF Loaded, Chips, Placed
    <3>2. Buffer(second) = 1
      BY <1>1, <3>1 DEF Buffers, Buffer
    <3>3. fn = "write_ram" => pc' = "loop"
      BY <2>1 DEF Loaded, OnEndpoint
    <3>4. pc' \in {"first", "loop"}
      BY <2>1 DEF Loaded
    <3> QED
      BY <3>1, <3>2, <3>3, <3>4, CommandKinds
  <2>2. CASE Reloaded
    <3>1. open' = WriteCommand(Filled(second), 0) /\ pc' = "loop"
      BY <2>2 DEF Reloaded
    <3>2. Filled(second) \in {1, 2} /\ (fn = "write" => Filled(second) = Buffer(second))
      BY <1>1, FilledIsABuffer DEF Filled, Chips
    <3> QED
      BY <3>1, <3>2, CommandKinds, PageIsPositive
  <2> QED
    BY <2>1, <2>2
<1>5. Buffer(second') = Buffer(second) /\ Buffer(~second') = Buffer(~second)
  BY <1>2
<1>6. fn = "write" => Turned'
  BY <1>2, <1>3, <1>5 DEF Turned
<1>7. Buffers'
  BY <1>2, <1>3, <1>4, <1>5, <1>6 DEF Buffers, Writing
<1> QED
  BY <1>2, <1>4, <1>7 DEF ChipsRespected

\* A chunk moves the pointer of the open command, and nothing else of it.
LEMMA ChunkSafe ==
  ASSUME Safe, Device', Opened', WriteChunk \/ ReadChunk
  PROVE  Buffers' /\ ChipsRespected'
<1>1. Flow /\ Chips /\ Buffers /\ ChipsRespected
  BY DEF Safe, Device
<1>2. /\ pc = "loop" /\ UNCHANGED <<fn, page, second, sel, late>>
      /\ pc' = pc \/ (pc' = "returned" /\ fn # "write_ram")
  BY DEF WriteChunk, ReadChunk, InLoop, Count, Continue, argVars, OnEndpoint
<1>3. open.op = IF Writing THEN "write" ELSE "read"
  BY <1>2 DEF Safe, Opened
<1>4. /\ UNCHANGED <<busy, using>> /\ open'.op = open.op
      /\ open.op = "write" => open'.buf = open.buf
      /\ open.op = "read" => open'.ok = open.ok
  <2>1. CASE WriteChunk
    BY <1>1, <1>3, <2>1, FeedMoves DEF WriteChunk, Chips
  <2>2. CASE ReadChunk
    <3>1. open.op = "read"
      BY <1>3, <2>2 DEF ReadChunk
    <3> QED
      BY <1>1, <2>2, <3>1, FetchMoves DEF Chips
  <2> QED
    BY <2>1, <2>2
<1>5. fn = "write" /\ pc' # "returned" => Turned'
  BY <1>1, <1>2, <1>4 DEF Buffers, Turned
<1>6. fn = "write" => open'.buf = Buffer(second)
  BY <1>1, <1>2, <1>3, <1>4 DEF Buffers, Writing
<1>7. Buffers'
  BY <1>1, <1>2, <1>4, <1>5, <1>6 DEF Buffers
<1> QED
  BY <1>1, <1>2, <1>4, <1>7 DEF ChipsRespected

\* A read that goes on with the next page fills no buffer.
LEMMA ReadPageEndSafe ==
  ASSUME Safe, Device', Opened', ReadPageEnd
  PROVE  Buffers' /\ ChipsRespected'
<1>1. Flow /\ Chips /\ Buffers
  BY DEF Safe, Device
<1>2. /\ page' = page + 1 /\ sel' = ChipOf(page') /\ pc = "loop" /\ pc' = pc
      /\ fn' = fn /\ open' = ReadCommand(sel', page', 0) /\ ~Writing
  BY DEF ReadPageEnd, InLoop, argVars
<1>3. fn \in {"read", "read_ram"}
  BY <1>1, <1>2 DEF Flow, Writing
<1>4. page' \in Nat /\ sel' \in Chip \cup {0}
  BY <1>1, <1>2, NextChip DEF Chips, Chip
<1>5. open'.op = "read"
  BY <1>2, <1>4, CommandKinds, PageIsPositive
<1> QED
  BY <1>2, <1>3, <1>5 DEF Buffers, ChipsRespected

\* The end of a call, its caller going on, and a restart.
LEMMA EndSafe ==
  ASSUME Safe, Device', Opened', WriteReturn \/ ReadReturn \/ Return \/ Restart \/ Boot
  PROVE  Buffers' /\ ChipsRespected'
<1>1. Flow /\ Chips /\ Buffers /\ ChipsRespected
  BY DEF Safe, Device
<1>2. CASE WriteReturn \/ ReadReturn
  <2>1. pc' = "returned" /\ open' = None /\ fn' = fn /\ busy' = busy
    BY <1>2 DEF WriteReturn, ReadReturn, Finish, argVars, chipVars
  <2> QED
    BY <1>1, <2>1, CommandKinds DEF Buffers, ChipsRespected
<1>3. CASE Return
  <2>1. /\ pc' = "idle" /\ fn' = "none" /\ second' = FALSE
        /\ UNCHANGED <<busy, using, sel, open>> /\ late' = busy
    BY <1>3 DEF Return, Forget, chipVars, busVars
  <2> QED
    BY <2>1 DEF Buffers, ChipsRespected
<1>4. CASE Restart
  <2>1. /\ pc' = "boot" /\ fn' = "none" /\ second' = FALSE /\ open' = None
        /\ late' = busy /\ busy' = busy
    BY <1>4 DEF Restart, Forget, chipVars
  <2> QED
    BY <2>1, CommandKinds DEF Buffers, ChipsRespected
<1>5. CASE Boot
  <2>1. /\ pc = "boot" /\ pc' = "idle" /\ fn' = fn /\ second' = second /\ open' = None
        /\ UNCHANGED <<busy, late>>
    BY <1>5 DEF Boot, argVars, loopVars, chipVars
  <2>2. fn = "none" /\ second = FALSE /\ late = busy
    BY <1>1, <2>1 DEF Flow, Buffers
  <2> QED
    BY <2>1, <2>2, CommandKinds DEF Buffers, ChipsRespected
<1> QED
  BY <1>2, <1>3, <1>4, <1>5

\* A chip that is done is busy with no buffer.
LEMMA DoneSafe ==
  ASSUME Safe, Device', Opened', Done
  PROVE  Buffers' /\ ChipsRespected'
<1>1. Flow /\ Chips /\ Buffers /\ ChipsRespected
  BY DEF Safe, Device
<1>2. UNCHANGED <<pc, fn, page, second, sel, open>>
  BY DEF Done, Locals, loopVars, busVars
<1>3. /\ busy' \subseteq busy /\ \A e \in busy' : using'[e] = using[e]
      /\ busy' \ late' \subseteq busy \ late /\ (late = busy => late' = busy')
  BY <1>1 DEF Done, Chips
<1>4. Turned => Turned'
  BY <1>2, <1>3 DEF Turned
<1>5. Buffers'
  BY <1>1, <1>2, <1>3, <1>4 DEF Buffers
<1> QED
  BY <1>1, <1>2, <1>3, <1>5 DEF ChipsRespected

LEMMA SafeKept == Safe /\ [Next]_vars => Safe'
<1> SUFFICES ASSUME Safe, [Next]_vars PROVE Safe'
  OBVIOUS
<1>1. Device' /\ Opened'
  BY DeviceKept, OpenedKept DEF Safe
<1>2. CASE WriteBlocks \/ ReadBlocks \/ CheckOperation
  BY <1>1, <1>2, StartSafe DEF Safe
<1>3. CASE WritePageEnd
  BY <1>1, <1>3, WritePageEndSafe DEF Safe
<1>4. CASE Reload \/ WriteLast
  BY <1>1, <1>4, WorkSafe DEF Safe
<1>5. CASE Loaded \/ Reloaded
  BY <1>1, <1>5, OpenSafe DEF Safe
<1>6. CASE WriteChunk \/ ReadChunk
  BY <1>1, <1>6, ChunkSafe DEF Safe
<1>7. CASE ReadPageEnd
  BY <1>1, <1>7, ReadPageEndSafe DEF Safe
<1>8. CASE WriteReturn \/ ReadReturn \/ Return \/ Restart \/ Boot
  BY <1>1, <1>8, EndSafe DEF Safe
<1>9. CASE Done
  BY <1>1, <1>9, DoneSafe DEF Safe
<1>10. CASE PacketReady \/ PacketFails \/ Release \/ HostReset \/ UNCHANGED vars
  <2>1. UNCHANGED <<busy, using, sel, open, page, second, fn, late>>
    BY <1>10 DEF PacketReady, PacketFails, ReturnEarly, Release, HostReset, vars, chipVars,
       busVars, loopVars, argVars
  <2>2. \/ pc' = pc
        \/ pc = "first" /\ pc' \in {"loop", "packet", "returned"}
        \/ pc = "packet" /\ pc' \in {"loop", "returned"}
        \/ pc = "loop" /\ (pc' = "packet" \/ pc' = "returned") /\ fn # "write_ram"
    BY <1>10 DEF PacketReady, PacketFails, ReturnEarly, Release, HostReset, vars, OnEndpoint
  <2> QED
    BY <1>1, <2>1, <2>2, StillSafe DEF Safe
<1> QED
  BY <1>2, <1>3, <1>4, <1>5, <1>6, <1>7, <1>8, <1>9, <1>10
  DEF Next, Start, Write, Read, Endpoint

\* No buffer is filled while its chip loads or programs from it for the same
\* call: however long the call, wherever it starts, whatever resets, timeouts
\* and restarts cut calls short, and whatever an earlier call has left the
\* chips to do.
THEOREM ChipsAlwaysRespected == Spec => []ChipsRespected
<1>1. Safe /\ [Next]_vars => Safe'
  BY SafeKept
<1>2. Safe => ChipsRespected
  BY DEF Safe
<1> QED
  BY <1>1, <1>2, SafeStarts, PTL DEF Spec

-----------------------------------------------------------------------------
(* The types.                                                              *)

Value == Data \cup {X}
Cell == Value \cup {Lost}

Content ==
  /\ watch \in (0..Pages - 1) \X (0..PageChunks - 1)
  /\ mem \in Cell /\ bufs \in [{1, 2} -> Cell] /\ datum \in Value
  /\ may \subseteq Value /\ got \in Cell

Switches == protected \in [Chip -> BOOLEAN] /\ aborted \in BOOLEAN

LEMMA ContentKept == Content /\ Device /\ [Next]_vars => Content'
<1> SUFFICES ASSUME Content, Device, [Next]_vars PROVE Content'
  OBVIOUS
<1>1. /\ X \in Value /\ \A d \in Data : d \in Value
      /\ Lost \in Cell /\ \A v \in Value : v \in Cell
  BY DEF Value, Cell
<1>2. second \in BOOLEAN /\ open \in Commands /\ Buffer(second) \in {1, 2}
  BY Flip DEF Device, Chips
<1>3. watch' = watch
  BY DEF Next, Start, Write, Read, Endpoint, WriteBlocks, ReadBlocks, CheckOperation, Begin,
     Loaded, WritePageEnd, Reload, Reloaded, WriteChunk, WriteLast, WriteReturn, ReadPageEnd,
     ReadChunk, ReadReturn, Finish, Continue, PacketReady, PacketFails, ReturnEarly, Release,
     Return, Boot, Done, HostReset, Restart, vars
<1>4. mem' \in Cell /\ bufs' \in [{1, 2} -> Cell]
  <2>1. \A c, p : \A b \in {1, 2} :
          Load(c, b, p) => mem' \in Cell /\ bufs' \in [{1, 2} -> Cell]
    BY <1>1 DEF Load, chipVars, Content
  <2>2. \A c, p : \A b \in {1, 2} :
          Program(c, b, p) => mem' \in Cell /\ bufs' \in [{1, 2} -> Cell]
    BY <1>1 DEF Program, chipVars, Content
  <2>3. ASSUME WriteChunk PROVE mem' \in Cell /\ bufs' \in [{1, 2} -> Cell]
    <3>1. PICK v \in Cell : Feed(v)
      BY <2>3, <1>1 DEF WriteChunk, Content
    <3>2. open.op = "write" => open.buf \in {1, 2}
      BY <1>2, CommandAdvances
    <3> QED
      BY <3>1, <3>2, <1>1 DEF Feed, Content
  <2>4. CASE WriteBlocks \/ Reload
    BY <2>1, <2>4, <1>2 DEF WriteBlocks, Reload
  <2>5. CASE WritePageEnd \/ WriteLast
    BY <2>2, <2>5, <1>2 DEF WritePageEnd, WriteLast
  <2>6. CASE CheckOperation
    BY <2>6, <1>1 DEF CheckOperation, Content
  <2>7. CASE UNCHANGED <<mem, bufs>>
    BY <2>7 DEF Content
  <2>8. \/ WriteChunk \/ WriteBlocks \/ Reload \/ WritePageEnd \/ WriteLast \/ CheckOperation
        \/ UNCHANGED <<mem, bufs>>
    BY DEF Next, Start, Write, Read, Endpoint, ReadBlocks, Loaded, Reloaded, WriteReturn,
       ReadPageEnd, ReadChunk, ReadReturn, Finish, PacketReady, PacketFails, Release,
       Return, Boot, Done, HostReset, Restart, chipVars, vars
  <2> QED
    BY <2>3, <2>4, <2>5, <2>6, <2>7, <2>8
<1>5. datum' \in Value
  <2>1. CASE Return \/ Restart
    BY <2>1, <1>1 DEF Return, Restart, Forget
  <2>2. CASE WriteBlocks \/ ReadBlocks
    BY <2>2, <1>1 DEF WriteBlocks, ReadBlocks, Begin
  <2>3. datum' = datum \/ Return \/ Restart \/ WriteBlocks \/ ReadBlocks
    BY DEF Next, Start, Write, Read, Endpoint, CheckOperation, Loaded, WritePageEnd, Reload,
       Reloaded, WriteChunk, WriteLast, WriteReturn, ReadPageEnd, ReadChunk, ReadReturn,
       Finish, Continue, PacketReady, PacketFails, ReturnEarly, Release, Boot, Done,
       HostReset, argVars, Locals, vars
  <2> QED
    BY <2>1, <2>2, <2>3 DEF Content
<1>6. may' \subseteq Value
  <2>4. Stored \subseteq Value
    BY DEF Stored, Content, Value
  <2>1. Unfinished => may' \subseteq Value
    BY <2>4 DEF Unfinished, Content
  <2>2. CASE WriteReturn
    BY <2>4, <2>2 DEF WriteReturn, Content
  <2>3. may' = may \/ Unfinished \/ WriteReturn
    BY DEF Next, Start, Write, Read, Endpoint, WriteBlocks, ReadBlocks, CheckOperation, Begin,
       Loaded, WritePageEnd, Reload, Reloaded, WriteChunk, WriteLast, ReadPageEnd, ReadChunk,
       ReadReturn, Continue, PacketReady, PacketFails, ReturnEarly, Release, Return, Boot,
       Done, HostReset, Restart, vars
  <2> QED
    BY <2>1, <2>2, <2>3 DEF Content
<1>7. got' \in Cell
  <2>1. CASE Return \/ Restart
    BY <2>1, <1>1 DEF Return, Restart, Forget
  <2>2. CASE ReadChunk
    BY <2>2, <1>1 DEF ReadChunk, Fetched, Content
  <2>3. got' = got \/ Return \/ Restart \/ ReadChunk
    BY DEF Next, Start, Write, Read, Endpoint, WriteBlocks, ReadBlocks, CheckOperation, Begin,
       Loaded, WritePageEnd, Reload, Reloaded, WriteChunk, WriteLast, WriteReturn,
       ReadPageEnd, ReadReturn, Finish, PacketReady, PacketFails, ReturnEarly, Release, Boot,
       Done, HostReset, Locals, vars
  <2> QED
    BY <2>1, <2>2, <2>3 DEF Content
<1> QED
  BY <1>3, <1>4, <1>5, <1>6, <1>7 DEF Content

LEMMA SwitchesKept == Switches /\ [Next]_vars => Switches'
  BY DEF Switches, Next, Start, Write, Read, Endpoint, WriteBlocks, ReadBlocks,
     CheckOperation, Begin, Loaded, WritePageEnd, Reload, Reloaded, WriteChunk, WriteLast,
     WriteReturn, ReadPageEnd, ReadChunk, ReadReturn, Finish, Continue, PacketReady,
     PacketFails, ReturnEarly, Release, Return, Forget, Boot, Done, HostReset, Restart,
     Locals, vars

-----------------------------------------------------------------------------
(* The chunks moved, the page reached and the packets released.            *)

\* What a call is in the middle of.
Working == {"load", "first", "packet", "loop", "reload", "reloaded", "last"}

Numbers ==
  /\ block \in 0..Pages * BlocksPerPage - 1 /\ count \in 0..MaxBlocks
  /\ inBlock \in 0..ChunksPerBlock - 1 /\ left \in 0..count
  /\ bank \in 0..ChunksPerPacket /\ packets \in Nat
  /\ left = 0 => inBlock = 0
  /\ pc \in {"boot", "idle"} => /\ count = 0 /\ left = 0 /\ inBlock = 0
                               /\ bank = 0 /\ packets = 0
  /\ pc = "load" => left = count /\ inBlock = 0
  /\ pc = "last" => left = 0

\* The page and the place in it are those of the chunk that comes next.
Position ==
  /\ pc \in Working
       => page * PageChunks + at = block * ChunksPerBlock + Current
  /\ page <= Pages + MaxBlocks

\* The packets released, and what was taken of the one in the bank, are the
\* chunks moved.
Packets ==
  OnEndpoint =>
    /\ pc \in {"load", "first"} => packets = 0 /\ left = count /\ inBlock = 0
    /\ pc = "packet" => packets * ChunksPerPacket = Current
    /\ pc \in {"loop", "reload", "reloaded", "last"}
         => packets * ChunksPerPacket + ChunksPerPacket = Current + bank
    /\ PacketsExact

\* Nothing was moved when a call starts, everything when nothing is left.
LEMMA CurrentIs ==
  ASSUME Numbers
  PROVE  /\ Current \in Nat
         /\ left = count /\ inBlock = 0 => Current = 0
         /\ left = 0 => Current = count * ChunksPerBlock
         /\ block * ChunksPerBlock + Current <= (block + count) * ChunksPerBlock
<1>1. count - left \in Nat /\ inBlock \in 0..ChunksPerBlock - 1 /\ count \in Nat
      /\ left \in Nat /\ block \in Nat /\ ChunksPerBlock \in Nat \ {0}
  BY SizeAssumption DEF Numbers
<1>2. (count - left) * ChunksPerBlock \in Nat
  BY <1>1
<1>3. left = count => (count - left) * ChunksPerBlock = 0
  BY <1>1
<1>4. left = 0 => inBlock = 0
  BY DEF Numbers
<1>5. (count - left) * ChunksPerBlock + inBlock <= count * ChunksPerBlock
  <2>1. CASE left = 0
    BY <1>1, <1>4, <2>1
  <2>2. CASE left > 0
    BY <1>1, <1>2, <2>2, Below
  <2> QED
    BY <1>1, <2>1, <2>2
<1>6. (block + count) * ChunksPerBlock = block * ChunksPerBlock + count * ChunksPerBlock
  BY <1>1
<1>7. block * ChunksPerBlock \in Nat /\ count * ChunksPerBlock \in Nat
  BY <1>1
<1> QED
  BY <1>1, <1>2, <1>3, <1>4, <1>5, <1>6, <1>7 DEF Current

\* A chunk more was moved.
LEMMA CountMoves ==
  ASSUME Numbers, left > 0, Count, count' = count
  PROVE  /\ Current' = Current + 1 /\ at' = at + 1 /\ page' = page
         /\ inBlock' \in 0..ChunksPerBlock - 1 /\ left' \in 0..count
         /\ left' = 0 => inBlock' = 0
<1>1. count \in Nat /\ left \in 1..count /\ inBlock \in 0..ChunksPerBlock - 1
      /\ ChunksPerBlock \in Nat \ {0}
  BY SizeAssumption DEF Numbers
<1>2. at' = at + 1 /\ page' = page
  BY DEF Count
<1>3. CASE inBlock + 1 = ChunksPerBlock
  <2>1. inBlock' = 0 /\ left' = left - 1
    BY <1>3 DEF Count
  <2>2. (count - left') * ChunksPerBlock = (count - left) * ChunksPerBlock + ChunksPerBlock
    BY <1>1, <2>1
  <2> QED
    BY <1>1, <1>2, <1>3, <2>1, <2>2 DEF Current
<1>4. CASE inBlock + 1 # ChunksPerBlock
  <2>1. inBlock' = inBlock + 1 /\ left' = left
    BY <1>4 DEF Count
  <2> QED
    BY <1>1, <1>2, <1>4, <2>1 DEF Current
<1> QED
  BY <1>3, <1>4

\* A page that starts within the blocks of the call is not far off.
LEMMA PageBounded ==
  ASSUME Numbers, NEW p \in Nat, p * PageChunks <= (block + count) * ChunksPerBlock
  PROVE  p <= Pages + MaxBlocks
<1> SUFFICES ASSUME p > Pages + MaxBlocks PROVE FALSE
  BY SizeAssumption
<1>1. block + count < Pages * BlocksPerPage + MaxBlocks
      /\ block + count \in Nat /\ Pages * BlocksPerPage \in Nat
  BY SizeAssumption DEF Numbers
<1>2. MaxBlocks <= MaxBlocks * BlocksPerPage /\ MaxBlocks * BlocksPerPage \in Nat
  <2>1. BlocksPerPage - 1 \in Nat /\ MaxBlocks * (BlocksPerPage - 1) >= 0
    BY SizeAssumption
  <2>2. MaxBlocks * BlocksPerPage = MaxBlocks * (BlocksPerPage - 1) + MaxBlocks
    BY SizeAssumption
  <2> QED
    BY <2>1, <2>2, SizeAssumption
<1>3. (Pages + MaxBlocks) * BlocksPerPage = Pages * BlocksPerPage + MaxBlocks * BlocksPerPage
  BY SizeAssumption
<1>4. block + count < (Pages + MaxBlocks) * BlocksPerPage
  BY <1>1, <1>2, <1>3, SizeAssumption
<1>5. (Pages + MaxBlocks) * BlocksPerPage \in Nat
  BY <1>1, <1>2, <1>3
<1>6. (block + count) * ChunksPerBlock
        < ((Pages + MaxBlocks) * BlocksPerPage) * ChunksPerBlock
  <2> DEFINE k == block + count
             l == (Pages + MaxBlocks) * BlocksPerPage
  <2>1. k \in Nat /\ l \in Nat /\ k < l /\ ChunksPerBlock \in Nat \ {0}
    BY <1>1, <1>4, <1>5, SizeAssumption
  <2> HIDE DEF k, l
  <2>2. k * ChunksPerBlock \in Nat /\ k * ChunksPerBlock + ChunksPerBlock <= l * ChunksPerBlock
    BY <2>1, Below
  <2>3. l * ChunksPerBlock \in Int
    BY <2>1
  <2>4. k * ChunksPerBlock < l * ChunksPerBlock
    BY <2>1, <2>2, <2>3
  <2> QED
    BY <2>4 DEF k, l
<1>7. ((Pages + MaxBlocks) * BlocksPerPage) * ChunksPerBlock = (Pages + MaxBlocks) * PageChunks
  BY SizeAssumption DEF PageChunks
<1>8. (Pages + MaxBlocks) * PageChunks < p * PageChunks
  <2>1. Pages + MaxBlocks \in Nat
    BY SizeAssumption
  <2>2. (Pages + MaxBlocks) * PageChunks + PageChunks <= p * PageChunks
    BY <2>1, PageIsPositive, Below
  <2>3. (Pages + MaxBlocks) * PageChunks \in Nat /\ p * PageChunks \in Nat
    BY <2>1, PageIsPositive
  <2> QED
    BY <2>2, <2>3, PageIsPositive
<1>9. /\ p * PageChunks \in Nat /\ (block + count) * ChunksPerBlock \in Nat
      /\ (Pages + MaxBlocks) * PageChunks \in Nat
  BY <1>1, PageIsPositive, SizeAssumption
<1> QED
  BY <1>6, <1>7, <1>8, <1>9

\* The packets of a call whose data end with the bank, or in an empty call
\* before it: whole packets, by the divisibility of a block.
LEMMA LastPacket ==
  ASSUME Numbers, left = 0,
         packets * ChunksPerPacket + ChunksPerPacket = Current + bank
  PROVE  (IF bank = 0 THEN packets + 1 ELSE packets) * ChunksPerPacket = count * ChunksPerBlock
<1> DEFINE k == ChunksPerBlock \div ChunksPerPacket
           t == count * k
<1>1. /\ packets \in Nat /\ bank \in 0..ChunksPerPacket /\ count \in Nat
      /\ ChunksPerPacket \in Nat \ {0} /\ Current = count * ChunksPerBlock
  BY CurrentIs, SizeAssumption DEF Numbers
<1>2. k \in Nat /\ ChunksPerBlock = k * ChunksPerPacket
  BY SizeAssumption
<1> HIDE DEF k
<1>3. t \in Nat /\ Current = t * ChunksPerPacket
  BY <1>1, <1>2
<1> HIDE DEF t
<1>4. (packets + 1) * ChunksPerPacket = packets * ChunksPerPacket + ChunksPerPacket
  BY <1>1
<1>5. /\ packets * ChunksPerPacket \in Nat /\ (packets + 1) * ChunksPerPacket \in Nat
      /\ t * ChunksPerPacket \in Nat
  BY <1>1, <1>3
<1>6. CASE bank = 0
  BY <1>1, <1>3, <1>4, <1>5, <1>6
<1>7. CASE bank = ChunksPerPacket
  BY <1>1, <1>3, <1>4, <1>5, <1>7
<1>8. CASE bank \in 1..ChunksPerPacket - 1
  <2>1. /\ t * ChunksPerPacket < packets * ChunksPerPacket + ChunksPerPacket
        /\ packets * ChunksPerPacket < t * ChunksPerPacket
    BY <1>1, <1>3, <1>5, <1>8
  <2>2. t <= packets
    <3> SUFFICES ASSUME packets < t PROVE FALSE
      BY <1>1, <1>3
    <3>1. packets * ChunksPerPacket + ChunksPerPacket <= t * ChunksPerPacket
      BY <1>1, <1>3, Below
    <3> QED
      BY <1>5, <1>1, <2>1, <3>1
  <2>3. CASE t = packets
    BY <1>5, <2>1, <2>3
  <2>4. CASE t < packets
    <3>1. t * ChunksPerPacket + ChunksPerPacket <= packets * ChunksPerPacket
      BY <1>1, <1>3, <2>4, Below
    <3> QED
      BY <1>1, <1>5, <2>1, <3>1
  <2> QED
    BY <1>1, <1>3, <2>2, <2>3, <2>4
<1> QED
  BY <1>1, <1>6, <1>7, <1>8

Counted == Numbers /\ Position /\ Packets

LEMMA CountedStarts == Init => Counted
<1> SUFFICES ASSUME Init PROVE Counted
  OBVIOUS
<1>1. /\ pc = "boot" /\ fn = "none" /\ block = 0 /\ count = 0 /\ page = 0 /\ inBlock = 0
      /\ left = 0 /\ bank = 0 /\ packets = 0
  BY DEF Init
<1>2. Pages * BlocksPerPage \in Nat \ {0}
  BY SizeAssumption
<1>3. Numbers
  BY <1>1, <1>2, SizeAssumption DEF Numbers
<1>4. Position /\ Packets
  BY <1>1, SizeAssumption DEF Position, Packets, Working, OnEndpoint
<1> QED
  BY <1>3, <1>4 DEF Counted

\* A call starts.
LEMMA BeginCounts ==
  ASSUME Counted, NEW f, NEW b \in 0..Pages * BlocksPerPage - 1, NEW k \in 0..MaxBlocks,
         NEW d, Begin(f, b, k, d), pc' \in {"load", "first", "loop"},
         f \in {"write", "read"} => pc' # "loop"
  PROVE  Counted'
<1>1. pc = "idle" /\ UNCHANGED <<inBlock, bank, packets>>
  BY DEF Begin, endVars
<1>2. inBlock = 0 /\ bank = 0 /\ packets = 0
  BY <1>1 DEF Counted, Numbers
<1>3. block' = b /\ count' = k /\ left' = k /\ fn' = f
  BY DEF Begin
<1>4. page' = b \div BlocksPerPage /\ at' = (b % BlocksPerPage) * ChunksPerBlock
  BY DEF Begin
<1>5. Numbers'
  BY <1>1, <1>2, <1>3, SizeAssumption DEF Numbers
<1>6. Current' = 0
  BY <1>3, <1>1, <1>2, SizeAssumption DEF Current
<1>7. page' \in 0..Pages - 1 /\ page' * PageChunks + at' = b * ChunksPerBlock
  BY <1>4, StartPlace
<1>8. b * ChunksPerBlock \in Nat
  BY SizeAssumption
<1>9. Position'
  BY <1>3, <1>6, <1>7, <1>8, SizeAssumption DEF Position
<1>10. Packets'
  BY <1>1, <1>2, <1>3 DEF Packets, PacketsExact, OnEndpoint
<1> QED
  BY <1>5, <1>9, <1>10 DEF Counted

\* The next page.
LEMMA PageCounts ==
  ASSUME Device, Counted, pc = "loop", pc' \in {"loop", "reload"}, at = PageChunks, at' = 0,
         page' = page + 1, UNCHANGED <<argVars, inBlock, left, endVars>>
  PROVE  Counted'
<1>1. UNCHANGED <<fn, block, count, inBlock, left, bank, packets>>
  BY DEF argVars, endVars
<1>2. Numbers /\ Position /\ Packets /\ page \in Nat
  BY DEF Counted, Device, Chips
<1>3. Current' = Current
  BY <1>1 DEF Current
<1>4. Numbers'
  BY <1>1, <1>2 DEF Numbers
<1>5. page' * PageChunks + at' = block' * ChunksPerBlock + Current'
  <2>1. page * PageChunks + PageChunks = block * ChunksPerBlock + Current
    BY <1>2 DEF Position, Working
  <2>2. page' * PageChunks = page * PageChunks + PageChunks /\ page' * PageChunks \in Nat
    BY <1>2, PageIsPositive
  <2> QED
    BY <1>1, <1>3, <2>1, <2>2
<1>6. page' \in Nat /\ at' \in Nat
  BY <1>2
<1>7. page' <= Pages + MaxBlocks
  <2>1. page' * PageChunks <= (block + count) * ChunksPerBlock
    <3>1. page' * PageChunks \in Nat
      BY <1>6, PageIsPositive
    <3>2. page' * PageChunks = block * ChunksPerBlock + Current
      BY <1>1, <1>3, <1>5, <3>1
    <3> QED
      BY <1>2, <3>2, CurrentIs
  <2> QED
    BY <1>2, <1>6, <2>1, PageBounded
<1>8. Packets'
  BY <1>1, <1>2, <1>3 DEF Packets, OnEndpoint, PacketsExact
<1> QED
  BY <1>4, <1>5, <1>7, <1>8 DEF Counted, Position

\* A chunk is moved.
LEMMA ChunkCounts ==
  ASSUME Device, Counted, WriteChunk \/ ReadChunk
  PROVE  Counted'
<1>1. /\ pc = "loop" /\ left > 0 /\ (OnEndpoint => bank > 0) /\ Count
      /\ UNCHANGED <<fn, block, count, packets>>
      /\ pc' \in {"loop", "returned"}
      /\ OnEndpoint => bank' = bank - 1
      /\ ~OnEndpoint => bank' = bank
      /\ (pc' = "loop" /\ UNCHANGED result) \/ result' = "early"
  BY DEF WriteChunk, ReadChunk, InLoop, Continue, argVars
<1>2. Numbers /\ Position /\ Packets /\ page \in Nat /\ at \in Nat
  BY PageIsPositive DEF Counted, Device, Chips
<1>3. /\ Current' = Current + 1 /\ at' = at + 1 /\ page' = page
      /\ inBlock' \in 0..ChunksPerBlock - 1 /\ left' \in 0..count
      /\ left' = 0 => inBlock' = 0
  BY <1>1, <1>2, CountMoves
<1>4. bank' \in 0..ChunksPerPacket
  BY <1>1, <1>2, SizeAssumption DEF Numbers
<1>5. Numbers'
  BY <1>1, <1>2, <1>3, <1>4 DEF Numbers
<1>6. Position'
  <2>1. page * PageChunks + at = block * ChunksPerBlock + Current
    BY <1>1, <1>2 DEF Position, Working
  <2>2. page * PageChunks \in Nat /\ block * ChunksPerBlock \in Nat /\ Current \in Nat
    BY <1>2, CurrentIs, PageIsPositive, SizeAssumption DEF Numbers
  <2>3. page' * PageChunks + at' = block' * ChunksPerBlock + Current'
    BY <1>1, <1>2, <1>3, <2>1, <2>2
  <2> QED
    BY <1>2, <1>3, <2>3 DEF Position
<1>7. Packets'
  <2> SUFFICES ASSUME OnEndpoint PROVE Packets'
    BY <1>1 DEF Packets, OnEndpoint
  <2>1. packets * ChunksPerPacket + ChunksPerPacket = Current + bank
    BY <1>1, <1>2 DEF Packets
  <2>2. packets * ChunksPerPacket \in Nat /\ Current \in Nat /\ bank \in Nat
        /\ ChunksPerPacket \in Nat
    BY <1>2, CurrentIs, SizeAssumption DEF Numbers
  <2>3. packets' * ChunksPerPacket + ChunksPerPacket = Current' + bank'
    BY <1>1, <1>3, <2>1, <2>2
  <2>4. PacketsExact'
    BY <1>1 DEF PacketsExact
  <2> QED
    BY <1>1, <2>3, <2>4 DEF Packets
<1> QED
  BY <1>5, <1>6, <1>7 DEF Counted

\* The endpoint: a packet comes, a bank is released, or neither.
LEMMA EndpointCounts ==
  ASSUME Counted, PacketReady \/ PacketFails \/ Release
  PROVE  Counted'
<1>1. Numbers /\ Position /\ Packets
  BY DEF Counted
<1>2. UNCHANGED <<fn, block, count, page, at, inBlock, left>>
  BY DEF PacketReady, PacketFails, ReturnEarly, Release, argVars, loopVars
<1>3. Current' = Current
  BY <1>2 DEF Current
<1>4. /\ packets \in Nat /\ ChunksPerPacket \in Nat \ {0} /\ Current \in Nat
      /\ packets * ChunksPerPacket \in Nat
  BY <1>1, CurrentIs, SizeAssumption DEF Numbers
<1>5. CASE PacketReady
  <2>1. pc \in {"first", "packet"} /\ pc' = "loop" /\ bank' = ChunksPerPacket /\ packets' = packets
    BY <1>5 DEF PacketReady
  <2>2. OnEndpoint => packets * ChunksPerPacket = Current
    <3> SUFFICES ASSUME OnEndpoint PROVE packets * ChunksPerPacket = Current
      OBVIOUS
    <3>1. CASE pc = "first"
      <4>1. packets = 0 /\ left = count /\ inBlock = 0
        BY <1>1, <3>1 DEF Packets
      <4> QED
        BY <1>1, <1>4, <4>1, CurrentIs
    <3>2. CASE pc = "packet"
      BY <1>1, <3>2 DEF Packets
    <3> QED
      BY <2>1, <3>1, <3>2
  <2>3. Numbers'
    BY <1>1, <1>2, <1>4, <2>1 DEF Numbers
  <2>4. Position'
    BY <1>1, <1>2, <1>3, <2>1 DEF Position, Working
  <2>5. Packets'
    BY <1>2, <1>3, <1>4, <2>1, <2>2 DEF Packets, OnEndpoint, PacketsExact
  <2> QED
    BY <2>3, <2>4, <2>5 DEF Counted
<1>6. CASE PacketFails
  <2>1. pc' = "returned" /\ result' = "early" /\ UNCHANGED <<bank, packets>>
    BY <1>6 DEF PacketFails, ReturnEarly, endVars
  <2> QED
    BY <1>1, <1>2, <2>1 DEF Counted, Numbers, Position, Working, Packets, PacketsExact
<1>7. CASE Release
  <2>1. /\ pc = "loop" /\ pc' = "packet" /\ bank = 0 /\ bank' = bank /\ packets' = packets + 1
        /\ OnEndpoint
    BY <1>7 DEF Release
  <2>2. packets' * ChunksPerPacket = Current'
    <3>1. packets * ChunksPerPacket + ChunksPerPacket = Current + bank
      BY <1>1, <2>1 DEF Packets
    <3>2. packets' * ChunksPerPacket = packets * ChunksPerPacket + ChunksPerPacket
      BY <1>4, <2>1
    <3> QED
      BY <1>3, <1>4, <2>1, <3>1, <3>2
  <2>3. Numbers'
    BY <1>1, <1>2, <2>1 DEF Numbers
  <2>4. Position'
    BY <1>1, <1>2, <1>3, <2>1 DEF Position, Working
  <2> QED
    BY <2>1, <2>2, <2>3, <2>4 DEF Counted, Packets, PacketsExact
<1> QED
  BY <1>5, <1>6, <1>7

\* A call ends: what is left in the bank decides on the last packet.
LEMMA FinishCounts ==
  ASSUME Device, Counted, WriteReturn \/ ReadReturn
  PROVE  Counted'
<1>1. Flow /\ Numbers /\ Position /\ Packets
  BY DEF Device, Counted
<1>2. /\ pc \in {"last", "loop"} /\ pc' = "returned" /\ left = 0 /\ ReleaseLast
      /\ UNCHANGED <<fn, block, count, page, at, inBlock, left, bank>>
  BY <1>1 DEF WriteReturn, ReadReturn, Finish, argVars, loopVars, Numbers
<1>3. packets' = IF OnEndpoint /\ bank = 0 THEN packets + 1 ELSE packets
  BY <1>2 DEF ReleaseLast
<1>4. Numbers'
  BY <1>1, <1>2, <1>3 DEF Numbers
<1>5. Position'
  BY <1>1, <1>2 DEF Position, Working
<1>6. OnEndpoint => packets' * ChunksPerPacket = count' * ChunksPerBlock
  <2> SUFFICES ASSUME OnEndpoint PROVE packets' * ChunksPerPacket = count' * ChunksPerBlock
    OBVIOUS
  <2>1. packets * ChunksPerPacket + ChunksPerPacket = Current + bank
    BY <1>1, <1>2 DEF Packets
  <2> QED
    BY <1>1, <1>2, <1>3, <2>1, LastPacket
<1>7. Packets'
  BY <1>2, <1>6 DEF Packets, PacketsExact, OnEndpoint
<1> QED
  BY <1>4, <1>5, <1>7 DEF Counted

\* A step that moves no chunk and releases no packet.
LEMMA StillCounts ==
  ASSUME Counted, UNCHANGED <<fn, block, count, page, at, inBlock, left, bank, packets>>,
         \/ UNCHANGED <<pc, result>>
         \/ pc = "boot" /\ pc' = "idle"
         \/ pc = "load" /\ pc' = (IF OnEndpoint THEN "first" ELSE "loop")
         \/ pc = "reload" /\ pc' = "reloaded"
         \/ pc = "reloaded" /\ pc' = "loop"
         \/ pc = "loop" /\ pc' = "last" /\ left = 0
         \/ pc' = "returned" /\ fn = "none"
  PROVE  Counted'
<1>1. Numbers /\ Position /\ Packets
  BY DEF Counted
<1>2. Current' = Current
  BY DEF Current
<1>3. Numbers'
  BY <1>1 DEF Numbers
<1>4. Position'
  BY <1>1, <1>2 DEF Position, Working
<1>5. Packets'
  BY <1>1, <1>2 DEF Packets, PacketsExact, OnEndpoint
<1> QED
  BY <1>3, <1>4, <1>5 DEF Counted

LEMMA CountedKept == Device /\ Counted /\ [Next]_vars => Counted'
<1> SUFFICES ASSUME Device, Counted, [Next]_vars PROVE Counted'
  OBVIOUS
<1>1. CASE WriteBlocks
  <2>1. PICK f \in {"write", "write_ram"}, b \in 0..Pages * BlocksPerPage - 1,
             k \in 0..MaxBlocks, d \in Data : Begin(f, b, k, d) /\ pc' = "load"
    BY <1>1 DEF WriteBlocks
  <2> QED
    BY <2>1, BeginCounts
<1>2. CASE ReadBlocks
  <2>1. PICK f \in {"read", "read_ram"}, b \in 0..Pages * BlocksPerPage - 1,
             k \in 0..MaxBlocks :
          Begin(f, b, k, X) /\ pc' = IF f = "read" THEN "first" ELSE "loop"
    BY <1>2 DEF ReadBlocks
  <2> QED
    BY <2>1, BeginCounts
<1>3. CASE WritePageEnd \/ ReadPageEnd
  <2>1. /\ pc = "loop" /\ pc' \in {"loop", "reload"} /\ at = PageChunks /\ at' = 0
        /\ page' = page + 1 /\ UNCHANGED <<argVars, inBlock, left, endVars>>
    BY <1>3 DEF WritePageEnd, ReadPageEnd, InLoop
  <2> QED
    BY <2>1, PageCounts
<1>4. CASE WriteChunk \/ ReadChunk
  BY <1>4, ChunkCounts
<1>5. CASE PacketReady \/ PacketFails \/ Release
  BY <1>5, EndpointCounts
<1>6. CASE WriteReturn \/ ReadReturn
  BY <1>6, FinishCounts
<1>7. CASE Return \/ Restart
  <2>1. /\ fn' = "none" /\ block' = 0 /\ count' = 0 /\ page' = 0 /\ inBlock' = 0 /\ left' = 0
        /\ bank' = 0 /\ packets' = 0 /\ pc' \in {"idle", "boot"}
    BY <1>7 DEF Return, Restart, Forget
  <2>2. Pages * BlocksPerPage \in Nat \ {0}
    BY SizeAssumption
  <2>3. Numbers'
    BY <2>1, <2>2, SizeAssumption DEF Numbers
  <2>4. Position' /\ Packets'
    BY <2>1, SizeAssumption DEF Position, Packets, Working, OnEndpoint
  <2> QED
    BY <2>3, <2>4 DEF Counted
<1>8. CASE \/ CheckOperation \/ Loaded \/ Reload \/ Reloaded \/ WriteLast \/ Boot \/ Done
           \/ HostReset \/ UNCHANGED vars
  <2>1. UNCHANGED <<fn, block, count, page, at, inBlock, left, bank, packets>>
    BY <1>8 DEF CheckOperation, Loaded, Reload, Reloaded, WriteLast, Boot, Done, HostReset,
       Locals, argVars, loopVars, endVars, vars
  <2>2. CASE CheckOperation
    <3>1. pc' = "returned" /\ fn = "none"
      BY <2>2 DEF CheckOperation, Device, Flow
    <3> QED
      BY <2>1, <3>1, StillCounts
  <2>3. CASE Loaded \/ Reload \/ Reloaded \/ WriteLast \/ Boot
    BY <2>1, <2>3, StillCounts DEF Loaded, Reload, Reloaded, WriteLast, Boot
  <2>4. CASE Done \/ HostReset \/ UNCHANGED vars
    <3>1. UNCHANGED <<pc, result>>
      BY <2>4 DEF Done, HostReset, Locals, vars
    <3> QED
      BY <2>1, <3>1, StillCounts
  <2> QED
    BY <1>8, <2>2, <2>3, <2>4
<1> QED
  BY <1>1, <1>2, <1>3, <1>4, <1>5, <1>6, <1>7, <1>8
  DEF Next, Start, Write, Read, Endpoint

-----------------------------------------------------------------------------
Whole == Device /\ Content /\ Switches /\ Counted

LEMMA WholeStarts == Init => Whole
<1> SUFFICES ASSUME Init PROVE Whole
  OBVIOUS
<1>1. Content
  <2>1. X \in Value
    BY DEF Value
  <2> QED
    BY <2>1, SizeAssumption DEF Init, Content, Cell, Value, PageChunks
<1>2. protected \in [Chip -> BOOLEAN]
  BY DEF Init
<1>3. aborted \in BOOLEAN
  BY DEF Init
<1> QED
  BY <1>1, <1>2, <1>3, DeviceStarts, CountedStarts DEF Whole, Switches

LEMMA WholeKept == Whole /\ [Next]_vars => Whole'
  BY DeviceKept, ContentKept, SwitchesKept, CountedKept DEF Whole

\* Every variable keeps its C type, and the counters stay within the page, the
\* block and the bank: a call never reaches further past the end of the memory
\* than its blocks do.
THEOREM TypeCorrect == Spec => []TypeOK
<1>1. Whole => TypeOK
  <2> SUFFICES ASSUME Whole PROVE TypeOK
    OBVIOUS
  <2>1. /\ Flow /\ Chips /\ Content /\ Switches /\ Numbers /\ page <= Pages + MaxBlocks
        /\ late \subseteq busy
    BY DEF Whole, Device, Lately, Counted, Position
  <2>2. open.op \in {"none", "read", "write"}
    BY <2>1 DEF Chips, Commands, None
  <2>3. /\ page \in 0..Pages + MaxBlocks /\ at \in 0..PageChunks /\ left \in 0..MaxBlocks
        /\ count \in 0..MaxBlocks
    BY <2>1, SizeAssumption DEF Chips, Numbers
  <2> QED
    BY <2>1, <2>2, <2>3 DEF TypeOK, Flow, Chips, Content, Switches, Numbers, Cell, Value
<1> QED
  BY <1>1, WholeStarts, WholeKept, PTL DEF Spec

\* A call that ran to its end took or filled exactly the packets its blocks make
\* up, for every size of a packet that divides a block.
THEOREM PacketsAlwaysExact == Spec => []PacketsExact
<1>1. Whole => PacketsExact
  BY DEF Whole, Counted, Packets, PacketsExact
<1> QED
  BY <1>1, WholeStarts, WholeKept, PTL DEF Spec
=============================================================================
