---------------------------- MODULE DataKeptProofs ----------------------------
(***************************************************************************)
(* The promise of Dataflash.tla about what the memory holds, for any chunk *)
(* of it, and for memories, pages, blocks and calls of any size.           *)
(***************************************************************************)
EXTENDS DataflashProofs

-----------------------------------------------------------------------------
(* The invariant.                                                          *)

Filling == {"first", "packet", "loop"}
Outside == {"boot", "idle", "returned"}

\* The call has gone past the chunk that is followed.
Past == page > watch[1] \/ (page = watch[1] /\ at > watch[2])

\* The page of the chunk was programmed, or lies before those of the call.
Programmed == page > watch[1] \/ pc = "last"

Booted == pc # "boot" => \A c \in Chip : protected[c] = FALSE

\* WriteBlocks_RAM goes wrong only after a page of chip 2; until then it uses
\* the first buffer of each chip, and each chip once.
Fresh == ~\E p \in block \div BlocksPerPage..page - 1 : ChipOf(p) = 2

FirstBuffer ==
  /\ pc \in Working => block \div BlocksPerPage <= page /\ block \div BlocksPerPage \in Nat
  /\ fn = "write_ram" /\ pc = "loop" => open.buf = 1
  /\ fn = "write_ram" /\ pc \in Working /\ Fresh =>
       /\ second = FALSE
       /\ sel = 1 => 2 \notin busy \ late
       /\ pc \in {"loop", "reload"} => sel \notin busy \ late

\* What the memory holds: the new value where the page was programmed in this
\* call, and otherwise what it may hold between calls.
Renewed == Writing /\ pc \in Working /\ InCall /\ Programmed

MemoryKept == IF Renewed THEN Misfilled \/ mem \in {datum, Lost} ELSE mem \in may \cup {Lost}

\* What the buffer that will be programmed holds for the chunk: the new value
\* once it was sent, and what the memory holds if it is none of the call.
BufferKept ==
  Writing /\ page = watch[1] =>
    /\ pc \in Filling /\ InCall /\ at > watch[2] /\ ~Misfilled
         => bufs[Buffer(second)] \in {datum, Lost}
    /\ pc \in Filling /\ ~InCall => bufs[Buffer(second)] \in {mem, Lost}
    /\ pc \in {"load", "reloaded"} => bufs[Buffer(second)] \in {mem, Lost}

\* What a read has found.
ReadKept ==
  fn \in {"read", "read_ram"} =>
    /\ pc \in Filling => open.page = page
    /\ pc \in Working /\ InCall /\ Past => got \in may \cup {Lost}
    /\ pc = "returned" /\ result = "ok" /\ InCall => got \in may \cup {Lost}

Held == FirstBuffer /\ MemoryKept /\ BufferKept /\ ReadKept
DataSafe == Whole /\ Safe /\ Booted /\ Held

-----------------------------------------------------------------------------
(* Where the call is as against the chunk that is followed.                *)

\* A place in a page, counted from the first chunk of the memory.
LEMMA Places ==
  ASSUME NEW v \in 0..Pages - 1, NEW w \in 0..PageChunks - 1,
         NEW p \in Nat, NEW a \in 0..PageChunks
  PROVE  /\ p * PageChunks + a \in Nat /\ v * PageChunks + w \in Nat
         /\ p * PageChunks + a > v * PageChunks + w <=> p > v \/ (p = v /\ a > w)
         /\ p = v /\ a = w => p * PageChunks + a = v * PageChunks + w
         /\ p * PageChunks + a = v * PageChunks + w /\ a < PageChunks => p = v /\ a = w
<1> DEFINE C == PageChunks
           P == p * C
           V == v * C
<1>1. v \in Nat /\ w \in Nat /\ a \in Nat /\ w < C /\ a <= C /\ C \in Nat \ {0}
  BY PageIsPositive, SizeAssumption
<1>2. P \in Nat /\ V \in Nat
  BY <1>1
<1>3. p > v => V + C <= P
  BY <1>1, Below
<1>4. p < v => P + C <= V
  BY <1>1, Below
<1>5. p = v => P = V
  OBVIOUS
<1> HIDE DEF C, P, V
<1>6. CASE p = v
  BY <1>1, <1>2, <1>5, <1>6 DEF C, P, V
<1>7. CASE p > v
  <2>1. P + a > V + w
    BY <1>1, <1>2, <1>3, <1>7
  <2>2. P + a # V + w /\ p # v
    BY <1>1, <1>2, <1>7, <2>1
  <2> QED
    BY <1>1, <1>2, <1>7, <2>1, <2>2 DEF C, P, V
<1>8. CASE p < v
  <2>1. P + a <= V + w
    BY <1>1, <1>2, <1>4, <1>8
  <2>2. a < C => P + a < V + w
    BY <1>1, <1>2, <1>4, <1>8
  <2>3. ~(P + a > V + w) /\ ~(p > v) /\ p # v
    BY <1>1, <1>2, <1>8, <2>1
  <2>4. a < C => P + a # V + w
    BY <1>1, <1>2, <2>2
  <2> QED
    BY <1>1, <1>2, <2>3, <2>4 DEF C, P, V
<1> QED
  BY <1>1, <1>6, <1>7, <1>8

\* A multiple that lies within a unit of another is the other.
LEMMA Multiple ==
  ASSUME NEW a \in Nat, NEW b \in Nat, NEW C \in Nat \ {0}, NEW i \in 0..C - 1,
         a * C = b * C + i
  PROVE  i = 0
<1>1. a * C \in Nat /\ b * C \in Nat
  OBVIOUS
<1>2. CASE a > b
  <2>1. b * C + C <= a * C
    BY <1>2, Below
  <2> QED
    BY <1>1, <2>1
<1>3. CASE a = b
  BY <1>1, <1>3
<1>4. CASE a < b
  <2>1. a * C + C <= b * C
    BY <1>4, Below
  <2> QED
    BY <1>1, <2>1
<1> QED
  BY <1>2, <1>3, <1>4

\* Facts about the call as numbers of chunks: where it is, where the chunk that
\* is followed is, and where the call starts and ends.
LEMMA CallPlaces ==
  ASSUME Whole, pc \in Working
  PROVE  /\ AtWatched /\ at < PageChunks => page = watch[1] /\ at = watch[2]
         /\ left > 0 /\ page = watch[1] /\ at = watch[2] => InCall /\ AtWatched
         /\ InCall /\ Past /\ left > 0 => ~AtWatched
         /\ InCall /\ left = 0 => Past
         /\ InCall /\ pc = "load" => ~Past
         /\ at = PageChunks /\ left > 0 /\ ~Short(left) /\ page + 1 = watch[1] => InCall
<1> DEFINE R == page * PageChunks + at
           W == watch[1] * PageChunks + watch[2]
           S == block * ChunksPerBlock
           E == (block + count) * ChunksPerBlock
           L == left * ChunksPerBlock
<1>1. Content /\ Chips /\ Numbers /\ Position
  BY DEF Whole, Device, Counted
<1>2. watch[1] \in 0..Pages - 1 /\ watch[2] \in 0..PageChunks - 1
  BY <1>1 DEF Content
<1>3. page \in Nat /\ at \in 0..PageChunks
  BY <1>1 DEF Chips
<1>4. /\ R \in Nat /\ W \in Nat
      /\ R > W <=> Past
      /\ page = watch[1] /\ at = watch[2] => R = W
      /\ R = W /\ at < PageChunks => page = watch[1] /\ at = watch[2]
  BY <1>2, <1>3, Places DEF Past
<1>5. /\ block \in Nat /\ count \in Nat /\ ChunksPerBlock \in Nat \ {0} /\ left \in Nat
      /\ left <= count /\ inBlock \in 0..ChunksPerBlock - 1
      /\ left = 0 => inBlock = 0
      /\ pc = "load" => left = count /\ inBlock = 0
  BY <1>1, SizeAssumption DEF Numbers
<1>6. S \in Nat /\ E \in Nat /\ L \in Nat
  BY <1>5
<1>7. InCall <=> S <= W /\ W < E
  BY DEF InCall
<1>8. Current \in Nat /\ R = S + Current
  BY <1>1, CurrentIs DEF Position
<1>9. AtWatched <=> InCall /\ R = W
  <2>1. Wanted = W - S
    <3>1. Wanted = watch[1] * PageChunks + (watch[2] - S)
      BY DEF Wanted
    <3>2. watch[1] * PageChunks \in Nat /\ watch[2] \in Nat
      BY <1>2, PageIsPositive, SizeAssumption
    <3> HIDE DEF S
    <3> QED
      BY <1>6, <3>1, <3>2
  <2>2. Current = Wanted <=> R = W
    <3> HIDE DEF R, W, S
    <3> QED
      BY <1>4, <1>6, <1>8, <2>1
  <2> QED
    BY <2>2 DEF AtWatched
<1>10. E + inBlock = R + L
  <2>1. (count - left) * ChunksPerBlock + L = count * ChunksPerBlock
    BY <1>5
  <2>2. E = S + count * ChunksPerBlock
    BY <1>5
  <2>3. Current = (count - left) * ChunksPerBlock + inBlock
    BY DEF Current
  <2>4. (count - left) * ChunksPerBlock \in Nat /\ count * ChunksPerBlock \in Nat
    BY <1>5
  <2> HIDE DEF R, S, E, L
  <2> QED
    BY <1>4, <1>5, <1>6, <1>8, <2>1, <2>2, <2>3, <2>4
<1>11. left > 0 => L >= ChunksPerBlock
  BY <1>5
<1>12. left = 0 => L = 0
  BY <1>5
<1>13. pc = "load" => Current = 0
  BY <1>1, <1>5, CurrentIs
<1>14. left > 0 => R < E
  <2> HIDE DEF R, E, L
  <2> QED
    BY <1>4, <1>5, <1>6, <1>10, <1>11
<1>15. left = 0 => R = E
  <2> HIDE DEF R, E, L
  <2> QED
    BY <1>4, <1>5, <1>6, <1>10, <1>12
<1>16. S <= R /\ (pc = "load" => R = S)
  <2> HIDE DEF R, S
  <2> QED
    BY <1>4, <1>6, <1>8, <1>13
<1>17. at = PageChunks /\ left > 0 /\ ~Short(left) /\ page + 1 = watch[1] => InCall
  <2> SUFFICES ASSUME at = PageChunks, ~Short(left), page + 1 = watch[1] PROVE InCall
    OBVIOUS
  <2>1. R = ((page + 1) * BlocksPerPage) * ChunksPerBlock /\ (page + 1) * BlocksPerPage \in Nat
    BY <1>3, SizeAssumption DEF PageChunks
  <2>2. R = (block + (count - left)) * ChunksPerBlock + inBlock /\ block + (count - left) \in Nat
    <3>1. (block + (count - left)) * ChunksPerBlock = S + (count - left) * ChunksPerBlock
      BY <1>5
    <3>2. Current = (count - left) * ChunksPerBlock + inBlock
      BY DEF Current
    <3>3. (count - left) * ChunksPerBlock \in Nat /\ count - left \in Nat
      BY <1>5
    <3> HIDE DEF R, S
    <3> QED
      BY <1>4, <1>5, <1>6, <1>8, <3>1, <3>2, <3>3
  <2>3. inBlock = 0
    <3> HIDE DEF R
    <3> QED
      BY <1>5, <2>1, <2>2, Multiple
  <2>4. L >= PageChunks
    <3>1. WordSize \in Nat \ {0} /\ PageChunks \in Nat \ {0}
      BY SizeAssumption, PageIsPositive
    <3>2. L % WordSize <= L /\ L % WordSize \in Nat
      <4> HIDE DEF L
      <4> QED
        BY <1>6, <3>1
    <3>3. ~(L % WordSize < PageChunks)
      BY DEF Short
    <3> HIDE DEF L
    <3> QED
      BY <1>6, <3>1, <3>2, <3>3
  <2>5. W = R + watch[2] /\ watch[2] \in Nat /\ watch[2] < PageChunks
    <3>1. (page + 1) * PageChunks = page * PageChunks + PageChunks
      BY <1>3, PageIsPositive
    <3>2. W = (page + 1) * PageChunks + watch[2]
      OBVIOUS
    <3> QED
      BY <1>2, <1>3, <3>1, <3>2, PageIsPositive
  <2> HIDE DEF R, W, S, E, L
  <2>6. S <= W /\ W < E
    BY <1>4, <1>6, <1>10, <1>16, <2>3, <2>4, <2>5, PageIsPositive
  <2> QED
    BY <1>7, <2>6
<1> HIDE DEF R, W, S, E, L
<1>18. left > 0 /\ R = W => InCall
  BY <1>4, <1>6, <1>7, <1>14, <1>16
<1>19. InCall /\ left = 0 => Past
  BY <1>4, <1>6, <1>7, <1>15
<1>20. InCall /\ pc = "load" => ~Past
  BY <1>4, <1>6, <1>7, <1>16
<1>21. Past => R # W
  BY <1>4
<1> QED
  BY <1>4, <1>9, <1>17, <1>18, <1>19, <1>20, <1>21

\* A call starts at its first chunk: it has passed none of its own.
LEMMA StartsBefore ==
  ASSUME watch[1] \in 0..Pages - 1, watch[2] \in 0..PageChunks - 1, watch' = watch,
         NEW f, NEW b \in 0..Pages * BlocksPerPage - 1, NEW k, NEW d, Begin(f, b, k, d)
  PROVE  InCall' => ~Past'
<1> DEFINE R == page' * PageChunks + at'
           W == watch[1] * PageChunks + watch[2]
<1>1. page' = b \div BlocksPerPage /\ at' = (b % BlocksPerPage) * ChunksPerBlock /\ block' = b
  BY DEF Begin
<1>2. page' \in 0..Pages - 1 /\ at' \in 0..PageChunks - 1 /\ R = block' * ChunksPerBlock
  BY <1>1, StartPlace
<1>3. page' \in Nat /\ at' \in 0..PageChunks
  BY <1>2, PageIsPositive, SizeAssumption
<1>4. R \in Nat /\ W \in Nat /\ (R > W <=> Past')
  BY <1>3, Places DEF Past
<1>5. InCall' => R <= W
  BY <1>2 DEF InCall
<1> QED
  BY <1>4, <1>5

\* The steps of a call leave its arguments alone.
LEMMA SameCall ==
  ASSUME UNCHANGED <<watch, fn, block, count, datum>>
  PROVE  /\ InCall' <=> InCall
         /\ Misfilled' <=> Misfilled
         /\ Writing' <=> Writing
<1>1. InCall' <=> InCall
  BY DEF InCall
<1>2. Misfilled' <=> Misfilled
  BY DEF Misfilled
<1>3. Writing' <=> Writing
  BY DEF Writing
<1> QED
  BY <1>1, <1>2, <1>3

-----------------------------------------------------------------------------
(* What the chips do.                                                      *)

\* A chip and a row name a page.
LEMMA RowsDiffer ==
  ASSUME NEW p \in Nat, NEW q \in 0..Pages - 1
  PROVE  /\ ChipOf(q) \in {1, 2}
         /\ ChipOf(q) = ChipOf(p) /\ Row(p) = Row(q) <=> p = q
<1>1. q \in Nat /\ q < Pages /\ Pages \in Nat
  BY SizeAssumption
<1>2. p = 2 * (p \div 2) + (p % 2) /\ q = 2 * (q \div 2) + (q % 2)
  BY <1>1
<1>3. p % 2 \in {0, 1} /\ q % 2 \in {0, 1} /\ p \div 2 \in Nat /\ q \div 2 \in Nat
  BY <1>1
<1>4. ChipOf(q) = IF q % 2 = 1 THEN 2 ELSE 1
  BY <1>1 DEF ChipOf
<1>5. ChipOf(p) # 0 => (p % 2 = 1 /\ ChipOf(p) = 2) \/ (p % 2 = 0 /\ ChipOf(p) = 1)
  BY <1>1, <1>3 DEF ChipOf
<1>6. ChipOf(q) = ChipOf(p) => p % 2 = q % 2
  BY <1>3, <1>4, <1>5
<1>7. Row(p) = Row(q) /\ p % 2 = q % 2 => p = q
  BY <1>2, <1>3 DEF Row
<1>8. ChipOf(q) \in {1, 2}
  BY <1>4
<1>9. p = q => ChipOf(q) = ChipOf(p) /\ Row(p) = Row(q)
  OBVIOUS
<1> QED
  BY <1>6, <1>7, <1>8, <1>9

\* A chip that is ready programs the chunk from its buffer, if the page is the
\* chunk's, and otherwise leaves it.
LEMMA ProgramDoes ==
  ASSUME Content, Booted, pc # "boot", NEW p \in Nat, NEW b \in {1, 2}, NEW c \in 0..2,
         c = ChipOf(p), c \notin busy, Program(c, b, p)
  PROVE  /\ bufs' = bufs
         /\ p = watch[1] => mem' = bufs[b]
         /\ p # watch[1] => mem' = mem
<1>1. watch[1] \in 0..Pages - 1
  BY DEF Content
<1>2. c = ChipOf(watch[1]) /\ Row(p) = Row(watch[1]) <=> p = watch[1]
  BY <1>1, RowsDiffer
<1>3. ChipOf(watch[1]) \in {1, 2}
  BY <1>1, RowsDiffer
<1>4. Here(c, p) <=> p = watch[1]
  BY <1>2 DEF Here
<1>5. c \in Chip => ~protected[c]
  BY DEF Booted
<1>6. CASE c = 0
  <2>1. p # watch[1]
    <3> SUFFICES ASSUME p = watch[1] PROVE FALSE
      OBVIOUS
    <3>1. c = ChipOf(watch[1])
      OBVIOUS
    <3> QED
      BY <1>3, <1>6, <3>1
  <2>2. UNCHANGED chipVars
    BY <1>6 DEF Program
  <2> QED
    BY <2>1, <2>2 DEF chipVars
<1>7. CASE c # 0
  <2>1. /\ UNCHANGED bufs
        /\ mem' = IF Here(c, p) /\ ~protected[c] THEN bufs[b] ELSE mem
    BY <1>7 DEF Program
  <2>2. p = watch[1] => c \in Chip
    BY <1>3 DEF Chip
  <2> QED
    BY <1>4, <1>5, <2>1, <2>2
<1> QED
  BY <1>6, <1>7

\* A chip loads the chunk into its buffer, if it is not at work for an earlier
\* call.
LEMMA LoadDoes ==
  ASSUME Content, NEW p \in Nat, NEW b \in {1, 2}, NEW c \in 0..2,
         c = ChipOf(p), c \in busy => c \in late, Load(c, b, p)
  PROVE  mem' = mem /\ (p = watch[1] => bufs'[b] \in {mem, Lost})
<1>1. watch[1] \in 0..Pages - 1 /\ bufs \in [{1, 2} -> Cell]
  BY DEF Content
<1>2. ChipOf(watch[1]) \in {1, 2}
  BY <1>1, RowsDiffer
<1>3. CASE c = 0
  <2>1. p # watch[1]
    <3> SUFFICES ASSUME p = watch[1] PROVE FALSE
      OBVIOUS
    <3>1. c = ChipOf(watch[1])
      OBVIOUS
    <3> QED
      BY <1>2, <1>3, <3>1
  <2> QED
    BY <1>3, <2>1 DEF Load
<1>5. CASE c # 0 /\ c \in busy
  <2>1. mem' = mem /\ bufs' = IF Here(c, p) THEN [bufs EXCEPT ![b] = Lost] ELSE bufs
    BY <1>5 DEF Load
  <2>2. p = watch[1] => Here(c, p)
    BY DEF Here
  <2> QED
    BY <1>1, <2>1, <2>2
<1>4. CASE c # 0 /\ c \notin busy
  <2>1. /\ UNCHANGED mem
        /\ bufs' = IF c = ChipOf(watch[1])
                   THEN [bufs EXCEPT ![b] = IF Here(c, p) THEN mem ELSE X] ELSE bufs
    BY <1>4 DEF Load
  <2>2. p = watch[1] => Here(c, p)
    BY DEF Here
  <2> QED
    BY <1>1, <2>1, <2>2
<1> QED
  BY <1>3, <1>4, <1>5

\* A chunk that is sent lands at its place in the buffer that will be programmed.
LEMMA FillDoes ==
  ASSUME DataSafe, WriteChunk, page = watch[1]
  PROVE  /\ at # watch[2] => bufs' = bufs
         /\ at = watch[2] => InCall
         /\ at = watch[2] /\ ~Misfilled => bufs'[Buffer(second)] \in {datum, Lost}
<1>1. /\ pc = "loop" /\ Writing /\ at < PageChunks /\ left > 0
      /\ Feed(IF AtWatched THEN datum ELSE X)
  BY DEF WriteChunk, InLoop
<1>2. Whole /\ Safe /\ Opened /\ Buffers /\ ChipsRespected /\ Chips /\ Content /\ FirstBuffer
  BY DEF DataSafe, Safe, Whole, Device, Held
<1>3. open.op = "write" /\ open.at = at
  <2>1. at \in 0..PageChunks - 1
    BY <1>1, <1>2, PageIsPositive DEF Chips
  <2>2. at % PageChunks = at
    BY <2>1, PageIsPositive, ModSmall
  <2> QED
    BY <1>1, <1>2, <2>2 DEF Opened
<1>4. sel = ChipOf(watch[1])
  BY <1>1, <1>2 DEF Buffers
<1>5. bufs' = IF at = watch[2]
              THEN [bufs EXCEPT ![open.buf] =
                      IF sel \notin busy \/ using[sel] # open.buf
                      THEN IF AtWatched THEN datum ELSE X
                      ELSE IF sel \in late THEN Lost ELSE X]
              ELSE bufs
  BY <1>1, <1>3, <1>4 DEF Feed
<1>6. at = watch[2] => InCall /\ AtWatched
  BY <1>1, <1>2, CallPlaces DEF Working
<1>7. ASSUME at = watch[2], ~Misfilled
      PROVE  /\ open.buf = Buffer(second)
             /\ sel \notin late => ~(sel \in busy /\ using[sel] = open.buf)
  <2>1. CASE fn = "write"
    BY <1>1, <1>2, <1>3, <2>1 DEF Buffers, ChipsRespected
  <2>2. CASE fn = "write_ram"
    <3>1. Fresh
      BY <1>7, <2>2 DEF Fresh, Misfilled
    <3>2. open.buf = 1 /\ second = FALSE /\ sel \notin busy \ late
      BY <1>1, <1>2, <2>2, <3>1 DEF FirstBuffer, Working
    <3> QED
      BY <3>2 DEF Buffer
  <2> QED
    BY <1>1, <2>1, <2>2 DEF Writing
<1>8. ASSUME at = watch[2], ~Misfilled PROVE bufs'[Buffer(second)] \in {datum, Lost}
  <2>1. \/ bufs' = [bufs EXCEPT ![Buffer(second)] = datum]
        \/ bufs' = [bufs EXCEPT ![Buffer(second)] = Lost]
    BY <1>5, <1>6, <1>7, <1>8
  <2>2. Buffer(second) \in {1, 2} /\ bufs \in [{1, 2} -> Cell]
    BY <1>2, Flip DEF Chips, Content
  <2> QED
    BY <2>1, <2>2
<1> QED
  BY <1>5, <1>6, <1>8

-----------------------------------------------------------------------------
(* What the steps keep.                                                    *)

\* The protections are taken off before anything else.
LEMMA BootedKept == Booted /\ [Next]_vars => Booted'
<1> SUFFICES ASSUME Booted, [Next]_vars PROVE Booted'
  OBVIOUS
<1>1. CASE Boot
  BY <1>1 DEF Booted, Boot
<1>2. CASE Restart
  BY <1>2 DEF Booted, Restart
<1>3. CASE Start \/ Write \/ Read \/ Endpoint \/ Return \/ Done \/ HostReset \/ UNCHANGED vars
  <2>1. protected' = protected
    BY <1>3 DEF Start, Write, Read, Endpoint, WriteBlocks, ReadBlocks, CheckOperation, Begin,
       Loaded, WritePageEnd, Reload, Reloaded, WriteChunk, WriteLast, WriteReturn,
       ReadPageEnd, ReadChunk, ReadReturn, Finish, Continue, PacketReady, PacketFails,
       ReturnEarly, Release, Return, Done, HostReset, vars
  <2>2. pc = "boot" => pc' = "boot"
    BY <1>3 DEF Start, Write, Read, Endpoint, WriteBlocks, ReadBlocks, CheckOperation, Begin,
       Loaded, WritePageEnd, Reload, Reloaded, WriteChunk, WriteLast, WriteReturn,
       ReadPageEnd, ReadChunk, ReadReturn, InLoop, PacketReady, PacketFails,
       Release, Return, Done, HostReset, Locals, vars
  <2> QED
    BY <2>1, <2>2 DEF Booted
<1> QED
  BY <1>1, <1>2, <1>3 DEF Next

\* After a call the memory must hold what it may, and a read what it should.
LEMMA EndKeeps ==
  ASSUME pc' \in Outside, mem' \in may' \cup {Lost},
         fn' \in {"read", "read_ram"} /\ result' = "ok" /\ InCall' => got' \in may' \cup {Lost}
  PROVE  Held'
<1>1. pc' \notin Working /\ pc' \notin Filling /\ pc' \notin {"load", "reloaded"}
  BY DEF Outside, Working, Filling
<1>2. FirstBuffer' /\ MemoryKept' /\ BufferKept'
  BY <1>1 DEF FirstBuffer, MemoryKept, Renewed, BufferKept, Working
<1>3. ReadKept'
  BY <1>1 DEF ReadKept
<1> QED
  BY <1>2, <1>3 DEF Held

\* A write that was cut short, wherever it was, leaves the chunk old or new.
LEMMA EarlyKeeps ==
  ASSUME Whole, Held, Unfinished, mem' = mem, pc' \in Outside,
         fn' = "none" \/ result' = "early"
  PROVE  Held'
<1>1. mem \in Cell /\ MemoryKept
  BY DEF Whole, Content, Held
<1>2. mem \in may' \cup {Lost}
  <2>1. CASE Renewed
    <3>1. may' = may \cup Stored
      BY <2>1 DEF Unfinished, Renewed
    <3>2. mem \in Stored \cup {Lost}
      BY <1>1, <2>1 DEF MemoryKept, Stored, Cell, Value
    <3> QED
      BY <3>1, <3>2
  <2>2. CASE ~Renewed
    BY <1>1, <2>2 DEF MemoryKept, Unfinished
  <2> QED
    BY <2>1, <2>2
<1> QED
  BY <1>2, EndKeeps

\* A step that moves no data.
LEMMA StillKeeps ==
  ASSUME Held, busy' \ late' \subseteq busy \ late,
         UNCHANGED <<watch, fn, block, count, datum>>,
         UNCHANGED <<mem, bufs, sel, open, page, at, second, may, got, result>>,
         pc' = pc \/ (pc \in Filling /\ pc' \in Filling /\ fn # "write_ram")
  PROVE  Held'
<1>1. /\ InCall' <=> InCall
      /\ Misfilled' <=> Misfilled
      /\ Writing' <=> Writing
  BY SameCall
<1>2. /\ pc' \in Working <=> pc \in Working
      /\ pc' \in Filling <=> pc \in Filling
      /\ pc' = "last" <=> pc = "last"
      /\ pc' \in {"load", "reloaded"} <=> pc \in {"load", "reloaded"}
      /\ pc' = "returned" <=> pc = "returned"
      /\ fn = "write_ram" => pc' = pc
  BY DEF Working, Filling
<1>3. FirstBuffer'
  <2>1. Fresh' <=> Fresh
    BY DEF Fresh
  <2> QED
    BY <1>2, <2>1 DEF Held, FirstBuffer
<1>4. MemoryKept'
  BY <1>1, <1>2 DEF Held, MemoryKept, Renewed, Programmed
<1>5. BufferKept'
  <2>1. Buffer(second') = Buffer(second)
    OBVIOUS
  <2> QED
    BY <1>1, <1>2, <2>1 DEF Held, BufferKept
<1>6. ReadKept'
  <2>1. Past' <=> Past
    BY DEF Past
  <2> QED
    BY <1>1, <1>2, <2>1 DEF Held, ReadKept
<1> QED
  BY <1>3, <1>4, <1>5, <1>6 DEF Held

\* A call that starts.
LEMMA StartKeeps ==
  ASSUME DataSafe, WriteBlocks \/ ReadBlocks
  PROVE  Held'
<1>1. Whole /\ Safe /\ Held /\ Content /\ Buffers /\ Flow
  BY DEF DataSafe, Whole, Device, Safe
<1>2. watch[1] \in 0..Pages - 1 /\ watch[2] \in 0..PageChunks - 1
  BY <1>1 DEF Content
<1>3. PICK f \in {"write", "write_ram", "read", "read_ram"},
           b \in 0..Pages * BlocksPerPage - 1, k \in 0..MaxBlocks, d \in Value :
        /\ Begin(f, b, k, d)
        /\ \/ f \in {"write", "write_ram"} /\ Load(sel', 1, page') /\ pc' = "load"
           \/ /\ f \in {"read", "read_ram"} /\ UNCHANGED chipVars
              /\ open' = ReadCommand(sel', page', at') /\ pc' \in {"first", "loop"}
  <2>1. CASE WriteBlocks
    <3>1. PICK f \in {"write", "write_ram"}, b \in 0..Pages * BlocksPerPage - 1,
               k \in 0..MaxBlocks, d \in Data :
            /\ Begin(f, b, k, d)
            /\ Load(sel', 1, page') /\ open' = None /\ pc' = "load"
      BY <2>1 DEF WriteBlocks
    <3>2. d \in Value
      BY DEF Value
    <3> QED
      BY <3>1, <3>2
  <2>2. CASE ReadBlocks
    <3>1. PICK f \in {"read", "read_ram"}, b \in 0..Pages * BlocksPerPage - 1,
               k \in 0..MaxBlocks :
            /\ Begin(f, b, k, X)
            /\ open' = ReadCommand(sel', page', at')
            /\ pc' = IF f = "read" THEN "first" ELSE "loop"
            /\ UNCHANGED chipVars
      BY <2>2 DEF ReadBlocks
    <3>2. pc' \in {"first", "loop"} /\ X \in Value
      BY <3>1 DEF Value
    <3> QED
      BY <3>1, <3>2
  <2> QED
    BY <2>1, <2>2
<1>4. /\ pc = "idle" /\ fn' = f /\ UNCHANGED <<watch, second, may, got, result>>
      /\ block' = b /\ page' = b \div BlocksPerPage /\ sel' = ChipOf(page')
      /\ late = busy /\ late' = late
  BY <1>1, <1>3 DEF Begin, Buffers
<1>5. page' \in 0..Pages - 1 /\ page' \in Nat
  BY <1>3, <1>4, StartPlace, SizeAssumption
<1>6. ~Past' \/ ~InCall'
  BY <1>2, <1>3, <1>4, StartsBefore
<1>7. second = FALSE /\ Buffer(second') = 1
  BY <1>1, <1>4 DEF Buffers, Buffer
<1>8. mem \in may \cup {Lost}
  BY <1>1, <1>4 DEF Held, MemoryKept, Renewed, Working
<1>9. CASE f \in {"write", "write_ram"} /\ Load(sel', 1, page') /\ pc' = "load"
  <2>1. sel' \in {1, 2}
    BY <1>4, <1>5, RowsDiffer
  <2>2. mem' = mem /\ (page' = watch[1] => bufs'[1] \in {mem, Lost})
    BY <1>1, <1>4, <1>5, <1>9, <2>1, LoadDoes
  <2>3. busy' \ late' \subseteq {sel'}
    BY <1>4, <1>9, <2>1 DEF Load, Work
  <2>4. FirstBuffer'
    <3>1. block' \div BlocksPerPage = page'
      BY <1>4
    <3>2. block' \div BlocksPerPage <= page' /\ block' \div BlocksPerPage \in Nat
      BY <1>5, <3>1
    <3>3. second' = FALSE /\ (sel' = 1 => 2 \notin busy' \ late')
      BY <1>4, <1>7, <2>3
    <3> QED
      BY <1>9, <3>2, <3>3 DEF FirstBuffer
  <2>5. MemoryKept'
    <3>1. Programmed' => page' > watch'[1]
      BY <1>9 DEF Programmed
    <3>2. page' > watch'[1] => Past'
      BY DEF Past
    <3>3. ~Renewed'
      BY <1>6, <3>1, <3>2 DEF Renewed
    <3> QED
      BY <1>4, <1>8, <2>2, <3>3 DEF MemoryKept
  <2>6. BufferKept'
    BY <1>4, <1>7, <1>9, <2>2 DEF BufferKept, Filling
  <2>7. ReadKept'
    BY <1>4, <1>9 DEF ReadKept
  <2> QED
    BY <2>4, <2>5, <2>6, <2>7 DEF Held
<1>10. CASE /\ f \in {"read", "read_ram"} /\ UNCHANGED chipVars
            /\ open' = ReadCommand(sel', page', at') /\ pc' \in {"first", "loop"}
  <2>1. ~Writing' /\ mem' = mem
    BY <1>4, <1>10 DEF Writing, chipVars
  <2>2. FirstBuffer'
    <3>1. block' \div BlocksPerPage = page'
      BY <1>4
    <3>2. block' \div BlocksPerPage <= page' /\ block' \div BlocksPerPage \in Nat
      BY <1>5, <3>1
    <3> QED
      BY <1>4, <1>10, <3>2 DEF FirstBuffer
  <2>3. MemoryKept' /\ BufferKept'
    BY <1>4, <1>8, <2>1 DEF MemoryKept, Renewed, BufferKept
  <2>4. open'.page = page'
    BY <1>10 DEF ReadCommand
  <2>5. ReadKept'
    BY <1>6, <1>10, <2>4 DEF ReadKept
  <2> QED
    BY <2>2, <2>3, <2>5 DEF Held
<1> QED
  BY <1>3, <1>9, <1>10

\* What every step of a write may use.
WriteStep ==
  /\ Writing /\ fn' = fn /\ pc \in Working
  /\ UNCHANGED <<watch, block, count, datum, late, got>>

LEMMA WriteFacts ==
  ASSUME DataSafe, WriteStep
  PROVE  /\ Held /\ Content /\ Chips /\ Placed /\ Buffers
         /\ page \in Nat /\ second \in BOOLEAN /\ Buffer(second) \in {1, 2}
         /\ sel = ChipOf(page) /\ sel \in 0..2 /\ busy \subseteq {1, 2}
         /\ InCall' <=> InCall
         /\ Misfilled' <=> Misfilled
         /\ Writing'
         /\ ReadKept'
<1>1. Held /\ Content /\ Chips /\ Placed /\ Buffers
  BY DEF DataSafe, Whole, Device, Safe
<1>2. page \in Nat /\ second \in BOOLEAN /\ sel \in 0..2 /\ busy \subseteq {1, 2}
  BY <1>1 DEF Chips, Chip
<1>3. Buffer(second) \in {1, 2}
  BY <1>2, Flip
<1>4. sel = ChipOf(page)
  BY <1>1 DEF Buffers, WriteStep, Working
<1>5. UNCHANGED <<watch, fn, block, count, datum>>
  BY DEF WriteStep
<1>6. /\ InCall' <=> InCall
      /\ Misfilled' <=> Misfilled
      /\ Writing' <=> Writing
  BY <1>5, SameCall
<1>7. ReadKept'
  BY DEF WriteStep, Writing, ReadKept
<1> QED
  BY <1>1, <1>2, <1>3, <1>4, <1>6, <1>7 DEF WriteStep

\* The first page is in its buffer, and so is what it holds before the call.
LEMMA LoadedKeeps ==
  ASSUME DataSafe, Loaded
  PROVE  Held'
<1>1. WriteStep
  BY DEF DataSafe, Whole, Device, Flow, Loaded, argVars, WriteStep, Working
<1>2. /\ pc = "load" /\ pc' \in {"first", "loop"} /\ sel \notin busy
      /\ open' = WriteCommand(1, at)
      /\ UNCHANGED <<mem, bufs, busy, sel, page, at, second, may>>
  BY DEF Loaded, Ready, chipVars, loopVars
<1>3. Placed /\ Chips /\ Held /\ at \in 0..PageChunks - 1
  BY <1>1, <1>2, WriteFacts, PageIsPositive DEF Placed, Chips
<1>4. FirstBuffer'
  <2>1. open'.buf = 1
    BY <1>2, <1>3, CommandKinds
  <2>2. Fresh' <=> Fresh
    BY <1>1, <1>2 DEF Fresh, WriteStep
  <2> QED
    BY <1>1, <1>2, <1>3, <2>1, <2>2 DEF Held, FirstBuffer, WriteStep, Working
<1>5. MemoryKept'
  BY <1>1, <1>2, WriteFacts DEF Held, MemoryKept, Renewed, Programmed, WriteStep, Working
<1>6. BufferKept'
  <2>1. InCall => ~Past
    BY <1>2, CallPlaces DEF DataSafe, Working
  <2>2. Buffer(second') = Buffer(second)
    BY <1>2
  <2>3. page = watch[1] => bufs[Buffer(second)] \in {mem, Lost}
    BY <1>1, <1>2, <1>3 DEF Held, BufferKept, WriteStep
  <2>4. InCall /\ page = watch[1] => ~(at > watch[2])
    BY <2>1 DEF Past
  <2>5. InCall' <=> InCall
    BY <1>1, WriteFacts
  <2> QED
    BY <1>1, <1>2, <2>2, <2>3, <2>4, <2>5 DEF BufferKept, WriteStep
<1> QED
  BY <1>1, <1>4, <1>5, <1>6, WriteFacts DEF Held

\* The rest of the last page is fetched into the buffer that will be programmed.
LEMMA ReloadKeeps ==
  ASSUME DataSafe, Reload
  PROVE  Held'
<1>1. WriteStep
  BY DEF DataSafe, Whole, Device, Flow, Reload, argVars, WriteStep, Working
<1>2. /\ pc = "reload" /\ pc' = "reloaded" /\ sel \notin busy
      /\ Load(sel, Buffer(second), page)
      /\ UNCHANGED <<sel, page, at, second, may>>
  BY DEF Reload, Ready, busVars, loopVars
<1>3. mem' = mem /\ (page = watch[1] => bufs'[Buffer(second)] \in {mem, Lost})
  BY <1>1, <1>2, WriteFacts, LoadDoes
<1>4. busy' \subseteq busy \cup {sel}
  BY <1>2 DEF Load, Work, chipVars
<1>5. FirstBuffer'
  <2>1. Fresh' <=> Fresh
    BY <1>1, <1>2 DEF Fresh, WriteStep
  <2>2. FirstBuffer
    BY <1>1, WriteFacts DEF Held
  <2> QED
    BY <1>1, <1>2, <1>4, <2>1, <2>2 DEF FirstBuffer, WriteStep, Working
<1>6. MemoryKept'
  BY <1>1, <1>2, <1>3, WriteFacts
  DEF Held, MemoryKept, Renewed, Programmed, WriteStep, Working
<1>7. BufferKept'
  <2>1. Buffer(second') = Buffer(second)
    BY <1>2
  <2> QED
    BY <1>1, <1>2, <1>3, <2>1 DEF BufferKept, WriteStep, Filling
<1> QED
  BY <1>1, <1>5, <1>6, <1>7, WriteFacts DEF Held

\* And the call goes on with it from the start of the page.
LEMMA ReloadedKeeps ==
  ASSUME DataSafe, Reloaded
  PROVE  Held'
<1>1. WriteStep
  BY DEF DataSafe, Whole, Device, Flow, Reloaded, argVars, WriteStep, Working
<1>2. /\ pc = "reloaded" /\ pc' = "loop" /\ sel \notin busy
      /\ open' = WriteCommand(Filled(second), 0)
      /\ UNCHANGED <<mem, bufs, busy, sel, page, at, second, may>>
  BY DEF Reloaded, Ready, chipVars, loopVars
<1>3. at = 0 /\ Held /\ watch[2] \in Nat
  BY <1>1, <1>2, WriteFacts, PageIsPositive DEF Placed, Content
<1>4. FirstBuffer'
  <2>1. Filled(second) \in {1, 2} /\ (fn = "write_ram" => Filled(second) = 1)
    BY <1>1, WriteFacts DEF Filled
  <2>2. fn = "write_ram" => open'.buf = 1
    BY <1>2, <2>1, CommandKinds, PageIsPositive
  <2>3. Fresh' <=> Fresh
    BY <1>1, <1>2 DEF Fresh, WriteStep
  <2> QED
    BY <1>1, <1>2, <1>3, <2>2, <2>3 DEF Held, FirstBuffer, WriteStep, Working
<1>5. MemoryKept'
  BY <1>1, <1>2, WriteFacts DEF Held, MemoryKept, Renewed, Programmed, WriteStep, Working
<1>6. BufferKept'
  <2>1. Buffer(second') = Buffer(second)
    BY <1>2
  <2>2. page = watch[1] => bufs[Buffer(second)] \in {mem, Lost}
    BY <1>1, <1>2, <1>3 DEF Held, BufferKept, WriteStep
  <2>3. ~(at > watch[2])
    BY <1>3
  <2> QED
    BY <1>1, <1>2, <2>1, <2>2, <2>3 DEF BufferKept, WriteStep
<1> QED
  BY <1>1, <1>4, <1>5, <1>6, WriteFacts DEF Held

\* A page is programmed, and the call goes on in the next: if that is not to be
\* loaded, all of it belongs to the call.
LEMMA PageEndKeeps ==
  ASSUME DataSafe, WritePageEnd
  PROVE  Held'
<1>1. WriteStep
  BY DEF WritePageEnd, InLoop, argVars, WriteStep, Working
<1>2. /\ pc = "loop" /\ left > 0 /\ at = PageChunks /\ sel \notin busy
      /\ Program(sel, Buffer(second), page)
      /\ at' = 0 /\ page' = page + 1 /\ second' = Switched /\ sel' = ChipOf(page')
      /\ may' = may
      /\ \/ pc' = "reload"
         \/ pc' = "loop" /\ ~Short(left) /\ open' = WriteCommand(Filled(second'), 0)
  BY DEF WritePageEnd, InLoop, Ready
<1>3. /\ Held /\ Content /\ page \in Nat /\ sel \in 0..2 /\ sel = ChipOf(page)
      /\ Buffer(second) \in {1, 2} /\ Booted /\ busy \subseteq {1, 2}
  BY <1>1, WriteFacts DEF DataSafe
<1>4. /\ bufs' = bufs
      /\ page = watch[1] => mem' = bufs[Buffer(second)]
      /\ page # watch[1] => mem' = mem
  BY <1>2, <1>3, ProgramDoes
<1>5. watch[1] \in Nat /\ watch[2] \in Nat /\ watch[2] < PageChunks
  BY <1>3, SizeAssumption, PageIsPositive DEF Content
<1>6. FirstBuffer'
  <2>1. FirstBuffer
    BY <1>3 DEF Held
  <2>2. block' \div BlocksPerPage <= page' /\ block' \div BlocksPerPage \in Nat
    BY <1>1, <1>2, <1>3, <2>1 DEF FirstBuffer, WriteStep
  <2>3. fn = "write_ram" /\ pc' = "loop" => open'.buf = 1
    <3>1. fn = "write_ram" => Filled(second') = 1
      BY DEF Filled
    <3> QED
      BY <1>2, <3>1, CommandKinds, PageIsPositive
  <2>4. Fresh' => Fresh /\ sel # 2
    <3> SUFFICES ASSUME Fresh' PROVE Fresh /\ sel # 2
      OBVIOUS
    <3>1. page' - 1 = page /\ block' = block /\ block \div BlocksPerPage \in Nat
          /\ block \div BlocksPerPage <= page
      BY <1>1, <1>2, <1>3, <2>1 DEF FirstBuffer, WriteStep
    <3>2. ~\E p \in block \div BlocksPerPage..page : ChipOf(p) = 2
      BY <3>1 DEF Fresh
    <3>3. Fresh
      BY <1>3, <3>1, <3>2 DEF Fresh
    <3>4. ChipOf(page) # 2
      BY <1>3, <3>1, <3>2
    <3> QED
      BY <1>3, <3>3, <3>4
  <2>5. ASSUME fn = "write_ram", Fresh'
        PROVE  /\ second' = FALSE /\ (sel' = 1 => 2 \notin busy' \ late')
               /\ sel' \notin busy' \ late'
    <3>1. /\ second = FALSE /\ (sel = 1 => 2 \notin busy \ late) /\ sel \in {0, 1}
          /\ late' = late
      BY <1>1, <1>3, <2>1, <2>4, <2>5 DEF FirstBuffer, WriteStep
    <3>2. second' = FALSE
      BY <1>2, <3>1 DEF Switched
    <3>3. busy' \subseteq busy \cup {sel} /\ (sel = 0 => busy' = busy)
      BY <1>2 DEF Program, Work, chipVars
    <3>4. sel = 0 => sel' = 0
      BY <1>2, <1>3, NextChip
    <3>5. sel = 1 => sel' = 2
      BY <1>2, <1>3, NextChip
    <3> QED
      BY <1>3, <3>1, <3>2, <3>3, <3>4, <3>5
  <2> QED
    BY <1>1, <2>2, <2>3, <2>5 DEF FirstBuffer, WriteStep
<1>7. MemoryKept'
  <2>1. Renewed' <=> InCall /\ page >= watch[1]
    <3>1. Programmed' <=> page + 1 > watch[1]
      BY <1>1, <1>2 DEF Programmed, WriteStep
    <3>2. page + 1 > watch[1] <=> page >= watch[1]
      BY <1>3, <1>5
    <3> QED
      BY <1>1, <1>2, <3>1, <3>2, WriteFacts DEF Renewed, Working
  <2>2. Renewed <=> InCall /\ page > watch[1]
    BY <1>1, <1>2 DEF Renewed, Programmed, WriteStep
  <2>3. CASE page = watch[1]
    <3>1. ~Renewed /\ mem \in may \cup {Lost}
      BY <1>3, <1>5, <2>2, <2>3 DEF Held, MemoryKept
    <3>2. InCall /\ ~Misfilled => bufs[Buffer(second)] \in {datum, Lost}
      BY <1>1, <1>2, <1>3, <1>5, <2>3 DEF Held, BufferKept, WriteStep, Filling
    <3>3. ~InCall => bufs[Buffer(second)] \in {mem, Lost}
      BY <1>1, <1>2, <1>3, <2>3 DEF Held, BufferKept, WriteStep, Filling
    <3> QED
      BY <1>1, <1>2, <1>4, <2>1, <2>3, <3>1, <3>2, <3>3, WriteFacts DEF MemoryKept, WriteStep
  <2>4. CASE page # watch[1]
    <3>1. Renewed' <=> Renewed
      BY <1>3, <1>5, <2>1, <2>2, <2>4
    <3> QED
      BY <1>1, <1>2, <1>3, <1>4, <2>4, <3>1, WriteFacts DEF Held, MemoryKept, WriteStep
  <2> QED
    BY <2>3, <2>4
<1>8. BufferKept'
  <2>1. at = PageChunks /\ left > 0 /\ ~Short(left) /\ page + 1 = watch[1] => InCall
    BY <1>1, CallPlaces DEF DataSafe, WriteStep
  <2>2. pc' = "loop" /\ page' = watch[1] => InCall'
    BY <1>1, <1>2, <2>1, WriteFacts
  <2>3. ~(at' > watch'[2])
    BY <1>1, <1>2, <1>5 DEF WriteStep
  <2>4. pc' \notin {"load", "reloaded"} /\ (pc' \in Filling => pc' = "loop") /\ watch' = watch
    BY <1>1, <1>2 DEF Filling, WriteStep
  <2>5. pc' \in Filling /\ page' = watch'[1] => InCall'
    BY <2>2, <2>4
  <2> QED
    BY <2>3, <2>4, <2>5, Zenon DEF BufferKept
<1> QED
  BY <1>1, <1>6, <1>7, <1>8, WriteFacts DEF Held

\* The last page is programmed: the chunk was sent before, or is none of the call.
LEMMA WriteLastKeeps ==
  ASSUME DataSafe, WriteLast
  PROVE  Held'
<1>1. WriteStep
  BY DEF WriteLast, argVars, WriteStep, Working
<1>2. /\ pc = "loop" /\ left = 0 /\ sel \notin busy /\ pc' = "last"
      /\ Program(sel, Buffer(second), page)
      /\ UNCHANGED <<sel, page, at, second, may>>
  BY DEF WriteLast, Ready, loopVars
<1>3. /\ Held /\ Content /\ page \in Nat /\ sel \in 0..2 /\ sel = ChipOf(page)
      /\ Buffer(second) \in {1, 2} /\ Booted
  BY <1>1, WriteFacts DEF DataSafe
<1>4. /\ page = watch[1] => mem' = bufs[Buffer(second)]
      /\ page # watch[1] => mem' = mem
  BY <1>2, <1>3, ProgramDoes
<1>5. FirstBuffer'
  <2>1. busy' \subseteq busy \cup {sel}
    BY <1>2 DEF Program, Work, chipVars
  <2>2. Fresh' <=> Fresh
    BY <1>1, <1>2 DEF Fresh, WriteStep
  <2> QED
    BY <1>1, <1>2, <1>3, <2>1, <2>2 DEF Held, FirstBuffer, WriteStep, Working
<1>6. MemoryKept'
  <2>1. Renewed' <=> InCall
    BY <1>1, <1>2, WriteFacts DEF Renewed, Programmed, Working
  <2>2. Renewed <=> InCall /\ page > watch[1]
    BY <1>1, <1>2 DEF Renewed, Programmed, WriteStep
  <2>3. InCall => page > watch[1] \/ (page = watch[1] /\ at > watch[2])
    BY <1>1, <1>2, CallPlaces DEF DataSafe, WriteStep, Past
  <2>4. CASE page = watch[1]
    <3>1. ~InCall => mem \in may \cup {Lost} /\ bufs[Buffer(second)] \in {mem, Lost}
      BY <1>1, <1>2, <1>3, <2>2, <2>4
      DEF Held, MemoryKept, BufferKept, WriteStep, Filling
    <3>2. ~(page > watch[1])
      BY <1>3, <2>4
    <3>3. InCall /\ ~Misfilled => bufs[Buffer(second)] \in {datum, Lost}
      BY <1>1, <1>2, <1>3, <2>3, <2>4, <3>2 DEF Held, BufferKept, WriteStep, Filling
    <3> QED
      BY <1>1, <1>2, <1>4, <2>1, <2>4, <3>1, <3>3, WriteFacts DEF MemoryKept, WriteStep
  <2>5. CASE page # watch[1]
    BY <1>1, <1>2, <1>3, <1>4, <2>1, <2>2, <2>3, <2>5, WriteFacts
    DEF Held, MemoryKept, WriteStep
  <2> QED
    BY <2>4, <2>5
<1>7. BufferKept'
  BY <1>2 DEF BufferKept, Filling
<1> QED
  BY <1>1, <1>5, <1>6, <1>7, WriteFacts DEF Held

\* A chunk that is sent.
LEMMA WriteChunkKeeps ==
  ASSUME DataSafe, WriteChunk
  PROVE  Held'
<1>1. WriteStep
  BY DEF WriteChunk, InLoop, Continue, argVars, WriteStep, Working
<1>2. /\ pc = "loop" /\ at < PageChunks /\ at' = at + 1
      /\ Feed(IF AtWatched THEN datum ELSE X)
      /\ UNCHANGED <<mem, busy, sel, page, second>>
  BY DEF WriteChunk, InLoop, Count, Continue, Feed
<1>3. /\ Held /\ Content /\ Chips /\ Whole /\ page \in Nat
  BY <1>1, WriteFacts DEF DataSafe
<1>4. CASE pc' = "returned" /\ result' = "early" /\ Unfinished
  BY <1>2, <1>3, <1>4, EarlyKeeps DEF Outside
<1>5. CASE UNCHANGED <<pc, result, may>>
  <2>1. FirstBuffer'
    <3>1. open.op = "write"
      BY <1>1, <1>2 DEF DataSafe, Safe, Opened, WriteStep
    <3>2. open'.buf = open.buf
      BY <1>2, <1>3, <3>1, FeedMoves DEF Chips
    <3>3. Fresh' <=> Fresh
      BY <1>1, <1>2 DEF Fresh, WriteStep
    <3> QED
      BY <1>1, <1>2, <1>3, <1>5, <3>2, <3>3 DEF Held, FirstBuffer, WriteStep
  <2>2. MemoryKept'
    BY <1>1, <1>2, <1>3, <1>5, WriteFacts
    DEF Held, MemoryKept, Renewed, Programmed, WriteStep
  <2>3. BufferKept'
    <3>1. ASSUME page = watch[1]
          PROVE  /\ InCall /\ at' > watch[2] /\ ~Misfilled => bufs'[Buffer(second)] \in {datum, Lost}
                 /\ ~InCall => bufs'[Buffer(second)] \in {mem, Lost}
      <4>1. CASE at = watch[2]
        BY <3>1, <4>1, FillDoes
      <4>2. CASE at # watch[2]
        <5>1. bufs' = bufs
          BY <3>1, <4>2, FillDoes
        <5>2. at' > watch[2] <=> at > watch[2]
          BY <1>2, <1>3, <4>2, PageIsPositive DEF Chips, Content
        <5> QED
          BY <1>1, <1>2, <1>3, <3>1, <5>1, <5>2 DEF Held, BufferKept, WriteStep, Filling
      <4> QED
        BY <4>1, <4>2
    <3>2. /\ Buffer(second') = Buffer(second) /\ pc' = "loop" /\ pc' \notin {"load", "reloaded"}
          /\ UNCHANGED <<page, watch, mem, datum>>
      BY <1>1, <1>2, <1>5 DEF WriteStep
    <3>3. /\ InCall' <=> InCall
          /\ Misfilled' <=> Misfilled
      BY <1>1, WriteFacts
    <3> HIDE DEF Buffer
    <3> QED
      BY <3>1, <3>2, <3>3 DEF BufferKept
  <2> QED
    BY <1>1, <2>1, <2>2, <2>3, WriteFacts DEF Held
<1> QED
  BY <1>4, <1>5 DEF WriteChunk, Continue

\* The call is over: its chunks are new.
LEMMA WriteReturnKeeps ==
  ASSUME DataSafe, WriteReturn
  PROVE  Held'
<1>1. WriteStep
  BY DEF DataSafe, Whole, Device, Flow, WriteReturn, Finish, argVars, WriteStep, Working
<1>2. pc = "last" /\ pc' = "returned" /\ mem' = mem /\ may' = (IF InCall THEN Stored ELSE may)
  BY DEF WriteReturn, Finish, chipVars
<1>3. Renewed <=> InCall
  BY <1>1, <1>2 DEF Renewed, Programmed, WriteStep
<1>4. mem' \in may' \cup {Lost}
  BY <1>1, <1>2, <1>3, WriteFacts DEF Held, MemoryKept, Stored, Content, Cell, Value
<1>5. fn' \notin {"read", "read_ram"}
  BY <1>1 DEF WriteStep, Writing
<1> QED
  BY <1>2, <1>4, <1>5, EndKeeps DEF Outside

\* What every step of a read may use.
ReadStep ==
  /\ fn \in {"read", "read_ram"} /\ fn' = fn /\ pc = "loop"
  /\ UNCHANGED <<watch, block, count, datum, mem>>

LEMMA ReadFacts ==
  ASSUME DataSafe, ReadStep
  PROVE  /\ Whole /\ Held /\ Content /\ Chips /\ page \in Nat
         /\ mem \in may \cup {Lost} /\ ~Writing /\ ~Writing' /\ BufferKept'
         /\ InCall' <=> InCall
<1>1. Whole /\ Held /\ Content /\ Chips /\ page \in Nat
  BY DEF DataSafe, Whole, Device, Chips
<1>2. ~Writing /\ ~Writing'
  BY DEF ReadStep, Writing
<1>3. UNCHANGED <<watch, fn, block, count, datum>>
  BY DEF ReadStep
<1>4. InCall' <=> InCall
  BY <1>3, SameCall
<1>5. mem \in may \cup {Lost}
  BY <1>1, <1>2 DEF Held, MemoryKept, Renewed
<1>6. BufferKept'
  BY <1>2 DEF BufferKept
<1> QED
  BY <1>1, <1>2, <1>4, <1>5, <1>6

\* A read goes on in the next page, at the chunk that follows.
LEMMA ReadPageEndKeeps ==
  ASSUME DataSafe, ReadPageEnd
  PROVE  Held'
<1>1. ReadStep
  BY DEF DataSafe, Whole, Device, Flow, ReadPageEnd, InLoop, argVars, chipVars, Writing,
     ReadStep
<1>2. /\ at = PageChunks /\ at' = 0 /\ page' = page + 1 /\ pc' = pc
      /\ open' = ReadCommand(sel', page', 0) /\ UNCHANGED <<may, got, result>>
  BY DEF ReadPageEnd, InLoop
<1>3. Held /\ page \in Nat /\ watch[1] \in Nat /\ watch[2] \in Nat /\ watch[2] < PageChunks
  BY <1>1, ReadFacts, SizeAssumption, PageIsPositive DEF Content
<1>4. FirstBuffer'
  <2>1. block' \div BlocksPerPage <= page' /\ block' \div BlocksPerPage \in Nat
    BY <1>1, <1>2, <1>3 DEF Held, FirstBuffer, ReadStep, Working
  <2> QED
    BY <1>1, <2>1 DEF FirstBuffer, ReadStep
<1>5. MemoryKept'
  BY <1>1, <1>2, ReadFacts DEF MemoryKept, Renewed, ReadStep
<1>6. ReadKept'
  <2>1. open'.page = page'
    BY <1>2 DEF ReadCommand
  <2>2. Past' <=> Past
    BY <1>1, <1>2, <1>3 DEF Past, ReadStep
  <2>3. InCall /\ Past => got \in may \cup {Lost}
    BY <1>1, <1>3 DEF Held, ReadKept, ReadStep, Working
  <2>4. pc' # "returned"
    BY <1>1, <1>2 DEF ReadStep
  <2> QED
    BY <1>1, <1>2, <2>1, <2>2, <2>3, <2>4, ReadFacts DEF ReadKept
<1> QED
  BY <1>1, <1>4, <1>5, <1>6, ReadFacts DEF Held

\* A chunk that is read is what the memory holds, or lost.
LEMMA ReadChunkKeeps ==
  ASSUME DataSafe, ReadChunk
  PROVE  Held'
<1>1. ReadStep
  BY DEF DataSafe, Whole, Device, Flow, ReadChunk, InLoop, Continue, argVars, chipVars,
     Writing, ReadStep
<1>2. /\ at < PageChunks /\ left > 0 /\ at' = at + 1 /\ UNCHANGED <<page, busy, second, sel>>
      /\ got' = (IF AtWatched THEN Fetched ELSE got)
  BY DEF ReadChunk, InLoop, Count, Continue, chipVars
<1>3. /\ Whole /\ Held /\ Safe /\ Chips /\ Content /\ ChipsRespected /\ Opened /\ Buffers
      /\ page \in Nat
  BY <1>1, ReadFacts DEF DataSafe, Safe
<1>4. at \in 0..PageChunks - 1 /\ watch[1] \in Nat /\ watch[2] \in Nat
  BY <1>2, <1>3, PageIsPositive, SizeAssumption DEF Chips, Content
<1>5. open.op = "read" /\ open.at = at /\ open.page = page /\ sel = ChipOf(page)
  <2>1. open.op = "read" /\ open.at = at % PageChunks
    BY <1>1, <1>3, ReadFacts DEF Opened, ReadStep
  <2>2. at % PageChunks = at
    BY <1>4, PageIsPositive, ModSmall
  <2>3. open.page = page /\ sel = ChipOf(page)
    BY <1>1, <1>3 DEF Held, ReadKept, Buffers, ReadStep, Filling
  <2> QED
    BY <2>1, <2>2, <2>3
<1>6. CASE pc' = "returned" /\ result' = "early" /\ Unfinished
  BY <1>1, <1>3, <1>6, EarlyKeeps DEF Outside, ReadStep
<1>7. CASE UNCHANGED <<pc, result, may>>
  <2>1. FirstBuffer'
    <3>1. block' \div BlocksPerPage <= page' /\ block' \div BlocksPerPage \in Nat
      BY <1>1, <1>2, <1>3 DEF Held, FirstBuffer, ReadStep, Working
    <3> QED
      BY <1>1, <3>1 DEF FirstBuffer, ReadStep
  <2>2. MemoryKept'
    BY <1>1, <1>7, ReadFacts DEF MemoryKept, Renewed, ReadStep
  <2>3. open'.page = page
    <3>1. open' = [open EXCEPT !.at = (open.at + 1) % PageChunks]
      BY <1>5 DEF ReadChunk
    <3>2. CASE open \in [op : {"read"}, page : Nat, at : 0..PageChunks - 1, ok : BOOLEAN]
      BY <1>5, <3>1, <3>2
    <3>3. CASE open \in [op : {"write"}, buf : {1, 2}, at : 0..PageChunks - 1]
      BY <1>5, <3>3
    <3>4. open # None
      BY <1>5 DEF None
    <3> QED
      BY <1>3, <3>2, <3>3, <3>4 DEF Chips, Commands
  <2>4. InCall /\ Past' => got' \in may \cup {Lost}
    <3> SUFFICES ASSUME InCall, Past' PROVE got' \in may \cup {Lost}
      OBVIOUS
    <3>1. CASE AtWatched
      <4>1. page = watch[1] /\ at = watch[2]
        BY <1>1, <1>2, <1>3, <3>1, CallPlaces DEF ReadStep, Working
      <4>2. Here(sel, open.page)
        BY <1>5, <4>1 DEF Here
      <4>3. got' \in {mem, Lost}
        BY <1>2, <1>5, <3>1, <4>1, <4>2 DEF Fetched
      <4> QED
        BY <1>1, <4>3, ReadFacts
    <3>2. CASE ~AtWatched
      <4>1. Past \/ (page = watch[1] /\ at = watch[2])
        <5>1. page > watch[1] \/ (page = watch[1] /\ at + 1 > watch[2])
          BY <1>1, <1>2 DEF Past, ReadStep
        <5>2. at + 1 > watch[2] <=> at > watch[2] \/ at = watch[2]
          BY <1>4
        <5> QED
          BY <5>1, <5>2 DEF Past
      <4>2. Past
        BY <1>1, <1>2, <1>3, <3>2, <4>1, CallPlaces DEF ReadStep, Working
      <4>3. got \in may \cup {Lost}
        BY <1>1, <1>3, <4>2 DEF Held, ReadKept, ReadStep, Working
      <4> QED
        BY <1>2, <3>2, <4>3
    <3> QED
      BY <3>1, <3>2
  <2>5. ReadKept'
    BY <1>1, <1>2, <1>7, <2>3, <2>4, ReadFacts DEF ReadKept, ReadStep
  <2> QED
    BY <1>1, <2>1, <2>2, <2>5, ReadFacts DEF Held
<1> QED
  BY <1>6, <1>7 DEF ReadChunk, Continue

\* A read that is over has read all its chunks.
LEMMA ReadReturnKeeps ==
  ASSUME DataSafe, ReadReturn
  PROVE  Held'
<1>1. ReadStep
  BY DEF ReadReturn, Finish, argVars, chipVars, ReadStep
<1>2. left = 0 /\ pc' = "returned" /\ UNCHANGED <<may, got>>
  BY DEF ReadReturn, Finish
<1>3. InCall => Past
  BY <1>1, <1>2, ReadFacts, CallPlaces DEF ReadStep, Working
<1>4. InCall' => got' \in may' \cup {Lost}
  BY <1>1, <1>2, <1>3, ReadFacts DEF Held, ReadKept, ReadStep, Working
<1>5. mem' \in may' \cup {Lost}
  BY <1>1, <1>2, ReadFacts DEF ReadStep
<1> QED
  BY <1>2, <1>4, <1>5, EndKeeps DEF Outside

\* Between calls nothing changes what the memory holds or may hold.
LEMMA IdleKeeps ==
  ASSUME DataSafe, Return \/ Boot \/ CheckOperation
  PROVE  Held'
<1>1. Held /\ Flow
  BY DEF DataSafe, Whole, Device
<1>2. pc \in Outside /\ pc' \in Outside /\ UNCHANGED <<mem, may>>
  BY DEF Return, Boot, CheckOperation, chipVars, Outside
<1>3. fn' = "none"
  BY <1>1 DEF Return, Forget, Boot, CheckOperation, argVars, Flow
<1>4. mem \in may \cup {Lost}
  BY <1>1, <1>2 DEF Held, MemoryKept, Renewed, Working, Outside
<1> QED
  BY <1>2, <1>3, <1>4, EndKeeps

LEMMA DataStarts == Init => DataSafe
<1> SUFFICES ASSUME Init PROVE DataSafe
  OBVIOUS
<1>1. pc = "boot" /\ fn = "none" /\ mem = X /\ may = Data \cup {X}
  BY DEF Init
<1>2. Booted
  BY <1>1 DEF Booted
<1>3. Held
  BY <1>1 DEF Held, FirstBuffer, MemoryKept, Renewed, BufferKept, ReadKept, Writing, Working
<1> QED
  BY <1>2, <1>3, WholeStarts, SafeStarts DEF DataSafe

LEMMA DataSafeKept == DataSafe /\ [Next]_vars => DataSafe'
<1> SUFFICES ASSUME DataSafe, [Next]_vars PROVE Held'
  BY WholeKept, SafeKept, BootedKept DEF DataSafe
<1>1. Whole /\ Held /\ Buffers
  BY DEF DataSafe, Safe
<1>2. CASE WriteBlocks \/ ReadBlocks
  BY <1>2, StartKeeps
<1>3. CASE Loaded
  BY <1>3, LoadedKeeps
<1>4. CASE WritePageEnd
  BY <1>4, PageEndKeeps
<1>5. CASE Reload \/ Reloaded
  BY <1>5, ReloadKeeps, ReloadedKeeps
<1>6. CASE WriteChunk
  BY <1>6, WriteChunkKeeps
<1>7. CASE WriteLast \/ WriteReturn
  BY <1>7, WriteLastKeeps, WriteReturnKeeps
<1>8. CASE ReadPageEnd
  BY <1>8, ReadPageEndKeeps
<1>9. CASE ReadChunk
  BY <1>9, ReadChunkKeeps
<1>10. CASE ReadReturn
  BY <1>10, ReadReturnKeeps
<1>11. CASE Return \/ Boot \/ CheckOperation
  BY <1>11, IdleKeeps
<1>12. CASE PacketFails
  <2>1. pc' = "returned" /\ result' = "early" /\ Unfinished /\ mem' = mem
    BY <1>12 DEF PacketFails, ReturnEarly, chipVars
  <2> QED
    BY <1>1, <2>1, EarlyKeeps DEF Outside
<1>13. CASE Restart
  <2>1. pc' = "boot" /\ fn' = "none" /\ Unfinished /\ mem' = mem
    BY <1>13 DEF Restart, Forget, chipVars
  <2> QED
    BY <1>1, <2>1, EarlyKeeps DEF Outside
<1>14. CASE PacketReady \/ Release \/ HostReset \/ Done \/ UNCHANGED vars
  <2>1. /\ UNCHANGED <<watch, fn, block, count, datum>>
        /\ busy' \ late' \subseteq busy \ late
        /\ UNCHANGED <<mem, bufs, sel, open, page, at, second, may, got, result>>
    BY <1>14 DEF PacketReady, Release, HostReset, Done, Locals, vars, chipVars, busVars,
       argVars, loopVars
  <2>2. pc' = pc \/ (pc \in Filling /\ pc' \in Filling /\ fn # "write_ram")
    BY <1>1, <1>14 DEF PacketReady, Release, HostReset, Done, Locals, vars, Filling,
       OnEndpoint, Buffers
  <2> QED
    BY <1>1, <2>1, <2>2, StillKeeps
<1> QED
  BY <1>2, <1>3, <1>4, <1>5, <1>6, <1>7, <1>8, <1>9, <1>10, <1>11, <1>12, <1>13, <1>14
  DEF Next, Start, Write, Read, Endpoint

-----------------------------------------------------------------------------
\* Every chunk of the memory holds between calls what the last write of its
\* block stored there, unless that write met the chip at work for an earlier
\* call: for any chunk, calls of any length at any place, past the end of the
\* memory too, and whatever resets, timeouts and restarts cut calls short.
THEOREM DataAlwaysKept == Spec => []DataKept
<1>1. DataSafe /\ [Next]_vars => DataSafe'
  BY DataSafeKept
<1>2. DataSafe => DataKept
  BY DEF DataSafe, Held, MemoryKept, Renewed, DataKept, Working
<1> QED
  BY <1>1, <1>2, DataStarts, PTL DEF Spec

\* And a read that ran to its end returned it, unless the read itself met the
\* chip at work for an earlier call.
THEOREM ReadsReturnWritten == Spec => []ReadReturnsWritten
<1>1. DataSafe /\ [Next]_vars => DataSafe'
  BY DataSafeKept
<1>2. DataSafe => ReadReturnsWritten
  BY DEF DataSafe, Held, ReadKept, ReadReturnsWritten
<1> QED
  BY <1>1, <1>2, DataStarts, PTL DEF Spec
=============================================================================
