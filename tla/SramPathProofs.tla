--------------------------- MODULE SramPathProofs ---------------------------
(***************************************************************************)
(* For every number of address lines, any bytes and any order of calls,    *)
(* no bus of the board is driven from both ends once init has run, and     *)
(* init leaves the bus machine at rest whatever state it powered up in.    *)
(* If no interrupt handler runs inside a pulse on the register's pins, the *)
(* address lines show what was asked for, every byte stays what was last   *)
(* written, and a read returns it.                                         *)
(***************************************************************************)
EXTENDS SramPath, SequenceTheorems, TLAPS

-----------------------------------------------------------------------------
(* The instructions the routines are made of.                              *)

Switch(P, V) == [pin : P, to : V, cycles : {1, 2}]

\* Those that leave the strobes, the reset and the direction of port A alone.
Neutral == Switch({"en", "counter"}, BOOLEAN) \cup Switch({"si"}, {0, 1})
           \cup Switch({"data"}, Data) \cup Switch({"none", "in"}, {FALSE})

\* A read makes port A an input and only ever raises the write strobe.
ReadInstr == Neutral \cup Switch({"out"}, {FALSE}) \cup Switch({"we"}, {TRUE})
             \cup Switch({"oe"}, BOOLEAN)

\* A write makes port A an output and only ever raises the output enable.
WriteInstr == Neutral \cup Switch({"out"}, {TRUE}) \cup Switch({"oe"}, {TRUE})
              \cup Switch({"we"}, BOOLEAN)

Instr == ReadInstr \cup WriteInstr \cup Switch({"reset"}, BOOLEAN)

LEMMA NopsAre ==
  ASSUME NEW k \in Nat
  PROVE  Nops(k) \in Seq(Switch({"none"}, {FALSE})) /\ Len(Nops(k)) = k
<1>1. Nops(k) \in [1..k -> Switch({"none"}, {FALSE})]
  BY DEF Nops, Nop, Switch
<1>2. Nops(k) \in Seq(Switch({"none"}, {FALSE}))
  BY <1>1, SeqDef
<1> QED
  BY <1>1, <1>2, LenProperties

LEMMA PulseIsNeutral == Sbi("en") \in Neutral /\ Cbi("en") \in Neutral
<1>1. Sbi("en") \in Switch({"en", "counter"}, BOOLEAN) BY DEF Sbi, Switch
<1>2. Cbi("en") \in Switch({"en", "counter"}, BOOLEAN) BY DEF Cbi, Switch
<1> QED BY <1>1, <1>2 DEF Neutral

LEMMA BitIsNeutral ==
  ASSUME NEW b \in {0, 1}
  PROVE  [pin |-> "si", to |-> b, cycles |-> 2] \in Neutral
<1>1. [pin |-> "si", to |-> b, cycles |-> 2] \in Switch({"si"}, {0, 1}) BY DEF Switch
<1> QED BY <1>1 DEF Neutral

\* An address is passed to the register without touching anything else.
LEMMA SregSetIs ==
  ASSUME NEW a \in Address
  PROVE  SregSet(a) \in Seq(Neutral) /\ Len(SregSet(a)) = 3 * W + 1
<1> DEFINE bit(j) == [pin |-> "si", to |-> a[W - 1 - j \div 3], cycles |-> 2]
           move(j) == CASE j % 3 = 1 -> bit(j)
                        [] j % 3 = 2 -> Cbi("en")
                        [] j % 3 = 0 -> Sbi("en")
           moves == [j \in 1..3 * W |-> move(j)]
<1>1. 3 * W \in Nat BY WidthAssumption
<1>2. ASSUME NEW j \in 1..3 * W PROVE move(j) \in Neutral
  <2>1. j % 3 \in 0..2 /\ j = 3 * (j \div 3) + (j % 3) /\ j \div 3 \in Nat
    BY WidthAssumption
  <2>2. CASE j % 3 = 1
    <3>1. W - 1 - j \div 3 \in 0..W - 1 BY <2>1, <2>2, WidthAssumption
    <3>2. a[W - 1 - j \div 3] \in {0, 1} BY <3>1 DEF Address
    <3>3. bit(j) \in Neutral BY <3>2, BitIsNeutral
    <3> HIDE DEF bit
    <3>4. move(j) = bit(j) BY <2>2
    <3> QED BY <3>3, <3>4
  <2>3. CASE j % 3 = 2
    <3> HIDE DEF bit
    <3>1. move(j) = Cbi("en") BY <2>3
    <3> QED BY <3>1, PulseIsNeutral
  <2>4. CASE j % 3 = 0
    <3> HIDE DEF bit
    <3>1. move(j) = Sbi("en") BY <2>4
    <3> QED BY <3>1, PulseIsNeutral
  <2> HIDE DEF move
  <2> QED BY <2>1, <2>2, <2>3, <2>4
<1>3. moves \in [1..3 * W -> Neutral]
  <2> HIDE DEF move
  <2> QED BY <1>2
<1> HIDE DEF move, moves
<1>4. moves \in Seq(Neutral) BY <1>1, <1>3, SeqDef
<1>5. Len(moves) = 3 * W BY <1>1, <1>3, <1>4, LenProperties
<1>6. <<Sbi("en")>> \in Seq(Neutral) /\ Len(<<Sbi("en")>>) = 1 BY PulseIsNeutral
<1>7. /\ <<Sbi("en")>> \o moves \in Seq(Neutral)
      /\ Len(<<Sbi("en")>> \o moves) = Len(<<Sbi("en")>>) + Len(moves)
  BY <1>4, <1>6, ConcatProperties
<1>8. SregSet(a) = <<Sbi("en")>> \o moves BY DEF SregSet, moves, move
<1> QED BY <1>1, <1>5, <1>6, <1>7, <1>8

-----------------------------------------------------------------------------
(* What each routine begins and ends with, and what it is made of.         *)

LEMMA Joined ==
  ASSUME NEW S, NEW s \in Seq(S), NEW t \in Seq(S), Len(s) > 0, Len(t) > 0
  PROVE  /\ s \o t \in Seq(S) /\ Len(s \o t) > 0
         /\ (s \o t)[1] = s[1] /\ (s \o t)[Len(s \o t)] = t[Len(t)]
<1>1. Len(s) \in Nat /\ Len(t) \in Nat BY LenProperties
<1>2. /\ s \o t \in Seq(S) /\ Len(s \o t) = Len(s) + Len(t)
      /\ \A i \in 1..Len(s) + Len(t) : (s \o t)[i] = IF i <= Len(s) THEN s[i] ELSE t[i - Len(s)]
  BY ConcatProperties
<1>3. (s \o t)[1] = s[1] BY <1>1, <1>2
<1>4. (s \o t)[Len(s) + Len(t)] = t[(Len(s) + Len(t)) - Len(s)] BY <1>1, <1>2
<1>5. (Len(s) + Len(t)) - Len(s) = Len(t) BY <1>1
<1> QED BY <1>1, <1>2, <1>3, <1>4, <1>5

\* The strobes raised, the address set and two cycles waited for.
Prologue(v, a) == <<OutPort("out", v)>> \o SregSet(a) \o BusOff \o Nops(2)

LEMMA InstructionsAre ==
  /\ Neutral \subseteq ReadInstr /\ Neutral \subseteq WriteInstr
  /\ Sbi("oe") \in ReadInstr /\ Sbi("we") \in ReadInstr /\ Cbi("oe") \in ReadInstr
  /\ Sbi("oe") \in WriteInstr /\ Sbi("we") \in WriteInstr /\ Cbi("we") \in WriteInstr
  /\ OutPort("out", FALSE) \in ReadInstr /\ OutPort("out", TRUE) \in WriteInstr
  /\ In \in Neutral /\ Nop \in Neutral
  /\ Cbi("counter") \in Neutral /\ Sbi("counter") \in Neutral
<1>1. Sbi("oe") \in Switch({"oe"}, {TRUE}) /\ Sbi("oe") \in Switch({"oe"}, BOOLEAN)
  BY DEF Sbi, Switch
<1>2. Sbi("we") \in Switch({"we"}, {TRUE}) /\ Sbi("we") \in Switch({"we"}, BOOLEAN)
  BY DEF Sbi, Switch
<1>3. Cbi("oe") \in Switch({"oe"}, BOOLEAN) /\ Cbi("we") \in Switch({"we"}, BOOLEAN)
  BY DEF Cbi, Switch
<1>4. /\ OutPort("out", FALSE) \in Switch({"out"}, {FALSE})
      /\ OutPort("out", TRUE) \in Switch({"out"}, {TRUE})
  BY DEF OutPort, Switch
<1>5. In \in Switch({"none", "in"}, {FALSE}) /\ Nop \in Switch({"none", "in"}, {FALSE})
  BY DEF In, Nop, Switch
<1>6. /\ Cbi("counter") \in Switch({"en", "counter"}, BOOLEAN)
      /\ Sbi("counter") \in Switch({"en", "counter"}, BOOLEAN)
  BY DEF Cbi, Sbi, Switch
<1> QED
  BY <1>1, <1>2, <1>3, <1>4, <1>5, <1>6 DEF ReadInstr, WriteInstr, Neutral

LEMMA ByteIsNeutral ==
  ASSUME NEW d \in Data
  PROVE  OutPort("data", d) \in Neutral
<1>1. OutPort("data", d) \in Switch({"data"}, Data) BY DEF OutPort, Switch
<1> QED BY <1>1 DEF Neutral

LEMMA WaitsAreNeutral ==
  ASSUME NEW k \in Nat \ {0}
  PROVE  Nops(k) \in Seq(Neutral) /\ Len(Nops(k)) > 0
<1>1. Nops(k) \in Seq(Switch({"none"}, {FALSE})) /\ Len(Nops(k)) = k BY NopsAre
<1>2. Switch({"none"}, {FALSE}) \subseteq Neutral BY DEF Switch, Neutral
<1> QED BY <1>1, <1>2, SeqMonotonic

LEMMA PrologueIs ==
  ASSUME NEW S, Neutral \subseteq S, Sbi("oe") \in S, Sbi("we") \in S,
         NEW v \in BOOLEAN, OutPort("out", v) \in S, NEW a \in Address
  PROVE  /\ Prologue(v, a) \in Seq(S) /\ Len(Prologue(v, a)) > 0
         /\ Prologue(v, a)[1] = OutPort("out", v)
<1> DEFINE first == <<OutPort("out", v)>>
<1>1. first \in Seq(S) /\ Len(first) > 0 /\ first[1] = OutPort("out", v) OBVIOUS
<1>2. SregSet(a) \in Seq(S) /\ Len(SregSet(a)) > 0
  BY SregSetIs, SeqMonotonic, WidthAssumption
<1>3. BusOff \in Seq(S) /\ Len(BusOff) > 0 BY DEF BusOff
<1>4. Nops(2) \in Seq(S) /\ Len(Nops(2)) > 0 BY WaitsAreNeutral, SeqMonotonic
<1> HIDE DEF first
<1>5. /\ first \o SregSet(a) \in Seq(S) /\ Len(first \o SregSet(a)) > 0
      /\ (first \o SregSet(a))[1] = OutPort("out", v)
  BY <1>1, <1>2, Joined
<1> DEFINE second == first \o SregSet(a)
<1> HIDE DEF second
<1>6. /\ second \o BusOff \in Seq(S) /\ Len(second \o BusOff) > 0
      /\ (second \o BusOff)[1] = OutPort("out", v)
  BY <1>3, <1>5, Joined DEF second
<1> DEFINE third == second \o BusOff
<1> HIDE DEF third
<1>7. /\ third \o Nops(2) \in Seq(S) /\ Len(third \o Nops(2)) > 0
      /\ (third \o Nops(2))[1] = OutPort("out", v)
  BY <1>4, <1>6, Joined DEF third
<1> QED BY <1>7 DEF Prologue, third, second, first

\* A read raises the output enable last.
LEMMA ReadIs ==
  ASSUME NEW a \in Address
  PROVE  /\ ReadCode(a) \in Seq(ReadInstr) /\ Len(ReadCode(a)) > 0
         /\ ReadCode(a)[1] = OutPort("out", FALSE)
         /\ ReadCode(a)[Len(ReadCode(a))] = Sbi("oe")
<1> DEFINE start == Prologue(FALSE, a)
           lower == <<Cbi("oe")>>
           raise == <<In, Sbi("oe")>>
<1>1. /\ start \in Seq(ReadInstr) /\ Len(start) > 0
      /\ start[1] = OutPort("out", FALSE)
  BY PrologueIs, InstructionsAre
<1>2. lower \in Seq(ReadInstr) /\ Len(lower) > 0 BY InstructionsAre
<1>3. Nops(5) \in Seq(ReadInstr) /\ Len(Nops(5)) > 0
  BY WaitsAreNeutral, SeqMonotonic, InstructionsAre
<1>4. raise \in Seq(ReadInstr) /\ Len(raise) > 0 /\ raise[Len(raise)] = Sbi("oe")
  <2>1. In \in ReadInstr /\ Sbi("oe") \in ReadInstr BY InstructionsAre
  <2> QED BY <2>1
<1> HIDE DEF start, lower, raise
<1>5. /\ start \o lower \in Seq(ReadInstr) /\ Len(start \o lower) > 0
      /\ (start \o lower)[1] = OutPort("out", FALSE)
  BY <1>1, <1>2, Joined
<1> DEFINE second == start \o lower
<1> HIDE DEF second
<1>6. /\ second \o Nops(5) \in Seq(ReadInstr) /\ Len(second \o Nops(5)) > 0
      /\ (second \o Nops(5))[1] = OutPort("out", FALSE)
  BY <1>3, <1>5, Joined DEF second
<1> DEFINE third == second \o Nops(5)
<1> HIDE DEF third
<1>7. /\ third \o raise \in Seq(ReadInstr) /\ Len(third \o raise) > 0
      /\ (third \o raise)[1] = OutPort("out", FALSE)
      /\ (third \o raise)[Len(third \o raise)] = Sbi("oe")
  BY <1>4, <1>6, Joined DEF third
<1>8. ReadCode(a) = third \o raise
  BY DEF ReadCode, third, second, start, lower, raise, Prologue
<1> QED BY <1>7, <1>8

\* A write raises the write strobe last.
LEMMA WriteIs ==
  ASSUME NEW a \in Address, NEW d \in Data
  PROVE  /\ WriteCode(a, d) \in Seq(WriteInstr) /\ Len(WriteCode(a, d)) > 0
         /\ WriteCode(a, d)[1] = OutPort("out", TRUE)
         /\ WriteCode(a, d)[Len(WriteCode(a, d))] = Sbi("we")
<1> DEFINE start == Prologue(TRUE, a)
           lower == <<OutPort("data", d), Cbi("we")>>
           raise == <<Sbi("we")>>
<1>1. /\ start \in Seq(WriteInstr) /\ Len(start) > 0
      /\ start[1] = OutPort("out", TRUE)
  BY PrologueIs, InstructionsAre
<1>2. lower \in Seq(WriteInstr) /\ Len(lower) > 0
  <2>1. OutPort("data", d) \in WriteInstr /\ Cbi("we") \in WriteInstr
    BY InstructionsAre, ByteIsNeutral
  <2> QED BY <2>1
<1>3. Nops(4) \in Seq(WriteInstr) /\ Len(Nops(4)) > 0
  BY WaitsAreNeutral, SeqMonotonic, InstructionsAre
<1>4. raise \in Seq(WriteInstr) /\ Len(raise) > 0 /\ raise[Len(raise)] = Sbi("we")
  BY InstructionsAre
<1> HIDE DEF start, lower, raise
<1>5. /\ start \o lower \in Seq(WriteInstr) /\ Len(start \o lower) > 0
      /\ (start \o lower)[1] = OutPort("out", TRUE)
  BY <1>1, <1>2, Joined
<1> DEFINE second == start \o lower
<1> HIDE DEF second
<1>6. /\ second \o Nops(4) \in Seq(WriteInstr) /\ Len(second \o Nops(4)) > 0
      /\ (second \o Nops(4))[1] = OutPort("out", TRUE)
  BY <1>3, <1>5, Joined DEF second
<1> DEFINE third == second \o Nops(4)
<1> HIDE DEF third
<1>7. /\ third \o raise \in Seq(WriteInstr) /\ Len(third \o raise) > 0
      /\ (third \o raise)[1] = OutPort("out", TRUE)
      /\ (third \o raise)[Len(third \o raise)] = Sbi("we")
  BY <1>4, <1>6, Joined DEF third
<1>8. WriteCode(a, d) = third \o raise
  BY DEF WriteCode, third, second, start, lower, raise, Prologue
<1> QED BY <1>7, <1>8

LEMMA BurstStartIs ==
  ASSUME NEW a \in Address
  PROVE  /\ BurstStartCode(a) \in Seq(WriteInstr) /\ Len(BurstStartCode(a)) > 0
         /\ BurstStartCode(a)[1] = OutPort("out", TRUE)
<1> DEFINE start == Prologue(TRUE, a)
           lower == <<Cbi("we")>>
<1>1. /\ start \in Seq(WriteInstr) /\ Len(start) > 0
      /\ start[1] = OutPort("out", TRUE)
  BY PrologueIs, InstructionsAre
<1>2. lower \in Seq(WriteInstr) /\ Len(lower) > 0 BY InstructionsAre
<1> HIDE DEF start, lower
<1>3. /\ start \o lower \in Seq(WriteInstr) /\ Len(start \o lower) > 0
      /\ (start \o lower)[1] = OutPort("out", TRUE)
  BY <1>1, <1>2, Joined
<1>4. BurstStartCode(a) = start \o lower BY DEF BurstStartCode, start, lower, Prologue
<1> QED BY <1>3, <1>4

LEMMA BurstPutIs ==
  ASSUME NEW d \in Data
  PROVE  BurstPutCode(d) \in Seq(Neutral) /\ Len(BurstPutCode(d)) > 0
<1> DEFINE start == <<OutPort("data", d)>>
           count == <<Cbi("counter"), Sbi("counter")>>
<1>1. start \in Seq(Neutral) /\ Len(start) > 0 BY ByteIsNeutral
<1>2. Nops(5) \in Seq(Neutral) /\ Len(Nops(5)) > 0 BY WaitsAreNeutral
<1>3. count \in Seq(Neutral) /\ Len(count) > 0
  <2>1. Cbi("counter") \in Neutral /\ Sbi("counter") \in Neutral BY InstructionsAre
  <2> QED BY <2>1
<1> HIDE DEF start, count
<1>4. start \o Nops(5) \in Seq(Neutral) /\ Len(start \o Nops(5)) > 0
  BY <1>1, <1>2, Joined
<1> DEFINE second == start \o Nops(5)
<1> HIDE DEF second
<1>5. second \o count \in Seq(Neutral) /\ Len(second \o count) > 0
  BY <1>3, <1>4, Joined DEF second
<1> QED BY <1>5 DEF BurstPutCode, second, start, count

\* init, instruction by instruction.
LEMMA InitIs ==
  /\ Len(InitCode) = 13
  /\ InitCode[1] = Sbi("oe") /\ InitCode[2] = Sbi("we") /\ InitCode[3] = Sbi("en")
  /\ InitCode[4] = Sbi("counter") /\ InitCode[5] = Sbi("reset")
  /\ InitCode[6] = Nop /\ InitCode[7] = Nop /\ InitCode[8] = Nop
  /\ InitCode[9] = Cbi("reset")
  /\ InitCode[10] = Nop /\ InitCode[11] = Nop /\ InitCode[12] = Nop /\ InitCode[13] = Nop
<1>1. Nops(3) = <<Nop, Nop, Nop>> BY DEF Nops
<1>2. Nops(4) = <<Nop, Nop, Nop, Nop>> BY DEF Nops
<1>3. InitCode = <<Sbi("oe"), Sbi("we"), Sbi("en"), Sbi("counter"), Sbi("reset")>>
                 \o <<Nop, Nop, Nop>> \o <<Cbi("reset")>> \o <<Nop, Nop, Nop, Nop>>
  BY <1>1, <1>2 DEF InitCode
<1> QED BY <1>3

-----------------------------------------------------------------------------
(* What an instruction does to the pins.                                   *)

PinState == [en : BOOLEAN, counter : BOOLEAN, we : BOOLEAN, oe : BOOLEAN,
             reset : BOOLEAN, si : {0, 1}, out : BOOLEAN, data : Data]

After(q, i) == IF i.pin \in DOMAIN q THEN [q EXCEPT ![i.pin] = i.to] ELSE q

LEMMA SetsOnePin ==
  ASSUME NEW q \in PinState, NEW i
  PROVE  /\ i.pin = "we" => After(q, i).we = i.to
         /\ i.pin = "oe" => After(q, i).oe = i.to
         /\ i.pin = "reset" => After(q, i).reset = i.to
         /\ i.pin = "out" => After(q, i).out = i.to
         /\ i.pin # "we" => After(q, i).we = q.we
         /\ i.pin # "oe" => After(q, i).oe = q.oe
         /\ i.pin # "reset" => After(q, i).reset = q.reset
         /\ i.pin # "out" => After(q, i).out = q.out
  BY DEF PinState, After

LEMMA PinsKeepTheirType ==
  ASSUME NEW q \in PinState, NEW i \in Instr
  PROVE  After(q, i) \in PinState
<1>1. CASE i \in Switch({"en", "counter", "we", "oe", "reset", "out"}, BOOLEAN)
  BY <1>1 DEF PinState, After, Switch
<1>2. CASE i \in Switch({"si"}, {0, 1})
  BY <1>2 DEF PinState, After, Switch
<1>3. CASE i \in Switch({"data"}, Data)
  BY <1>3 DEF PinState, After, Switch
<1>4. CASE i \in Switch({"none", "in"}, {FALSE})
  BY <1>4 DEF PinState, After, Switch
<1> QED
  BY <1>1, <1>2, <1>3, <1>4 DEF Instr, ReadInstr, WriteInstr, Neutral, Switch

LEMMA NeutralKeepsStrobes ==
  ASSUME NEW q \in PinState, NEW i \in Neutral
  PROVE  /\ After(q, i).we = q.we /\ After(q, i).oe = q.oe
         /\ After(q, i).reset = q.reset /\ After(q, i).out = q.out
<1>1. i.pin \notin {"we", "oe", "reset", "out"} BY DEF Neutral, Switch
<1> QED BY <1>1, SetsOnePin

LEMMA ReadsKeep ==
  ASSUME NEW q \in PinState, NEW i \in ReadInstr
  PROVE  /\ After(q, i).reset = q.reset
         /\ After(q, i).we = q.we \/ After(q, i).we = TRUE
         /\ After(q, i).out = q.out \/ After(q, i).out = FALSE
<1>1. CASE i \in Neutral BY <1>1, NeutralKeepsStrobes
<1>2. CASE i \in Switch({"out"}, {FALSE})
  <2>1. i.pin = "out" /\ i.to = FALSE BY <1>2 DEF Switch
  <2> QED BY <2>1, SetsOnePin
<1>3. CASE i \in Switch({"we"}, {TRUE})
  <2>1. i.pin = "we" /\ i.to = TRUE BY <1>3 DEF Switch
  <2> QED BY <2>1, SetsOnePin
<1>4. CASE i \in Switch({"oe"}, BOOLEAN)
  <2>1. i.pin = "oe" BY <1>4 DEF Switch
  <2> QED BY <2>1, SetsOnePin
<1> QED BY <1>1, <1>2, <1>3, <1>4 DEF ReadInstr

LEMMA WritesKeep ==
  ASSUME NEW q \in PinState, NEW i \in WriteInstr
  PROVE  /\ After(q, i).reset = q.reset
         /\ After(q, i).oe = q.oe \/ After(q, i).oe = TRUE
         /\ After(q, i).out = q.out \/ After(q, i).out = TRUE
<1>1. CASE i \in Neutral BY <1>1, NeutralKeepsStrobes
<1>2. CASE i \in Switch({"out"}, {TRUE})
  <2>1. i.pin = "out" /\ i.to = TRUE BY <1>2 DEF Switch
  <2> QED BY <2>1, SetsOnePin
<1>3. CASE i \in Switch({"oe"}, {TRUE})
  <2>1. i.pin = "oe" /\ i.to = TRUE BY <1>3 DEF Switch
  <2> QED BY <2>1, SetsOnePin
<1>4. CASE i \in Switch({"we"}, BOOLEAN)
  <2>1. i.pin = "we" BY <1>4 DEF Switch
  <2> QED BY <2>1, SetsOnePin
<1> QED BY <1>1, <1>2, <1>3, <1>4 DEF WriteInstr

LEMMA Sets ==
  ASSUME NEW q \in PinState
  PROVE  /\ After(q, Sbi("we")).we = TRUE /\ After(q, Sbi("oe")).oe = TRUE
         /\ After(q, Sbi("reset")).reset = TRUE /\ After(q, Cbi("reset")).reset = FALSE
         /\ \A v \in BOOLEAN : After(q, OutPort("out", v)).out = v
<1>1. /\ Sbi("we").pin = "we" /\ Sbi("we").to = TRUE
      /\ Sbi("oe").pin = "oe" /\ Sbi("oe").to = TRUE
      /\ Sbi("reset").pin = "reset" /\ Sbi("reset").to = TRUE
      /\ Cbi("reset").pin = "reset" /\ Cbi("reset").to = FALSE
  BY DEF Sbi, Cbi
<1>2. \A v \in BOOLEAN : OutPort("out", v).pin = "out" /\ OutPort("out", v).to = v
  BY DEF OutPort
<1>3. \A v \in BOOLEAN : After(q, OutPort("out", v)).out = v
  BY <1>2, SetsOnePin
<1>4. /\ After(q, Sbi("we")).we = TRUE /\ After(q, Sbi("oe")).oe = TRUE
      /\ After(q, Sbi("reset")).reset = TRUE /\ After(q, Cbi("reset")).reset = FALSE
  BY <1>1, SetsOnePin
<1> QED BY <1>3, <1>4

-----------------------------------------------------------------------------
(* The routines, one lemma for the program.                                *)

Count(c) == Len(Code(c))

LEMMA CodeIs ==
  ASSUME NEW c \in Calls
  PROVE  /\ Count(c) \in Nat \ {0} /\ \A k \in 1..Count(c) : Code(c)[k] \in Instr
         /\ c.fn = "init" => Code(c) = InitCode
         /\ c.fn = "read" =>
              /\ \A k \in 1..Count(c) : Code(c)[k] \in ReadInstr
              /\ Code(c)[1] = OutPort("out", FALSE) /\ Code(c)[Count(c)] = Sbi("oe")
         /\ c.fn \in {"write", "burst_start", "burst_end"} =>
              \A k \in 1..Count(c) : Code(c)[k] \in WriteInstr
         /\ c.fn \in {"write", "burst_start"} => Code(c)[1] = OutPort("out", TRUE)
         /\ c.fn \in {"write", "burst_end"} => Code(c)[Count(c)] = Sbi("we")
         /\ c.fn \in {"burst_put", "en_low"} =>
              \A k \in 1..Count(c) : Code(c)[k] \in Neutral
         /\ c.fn = "en_low" => Count(c) = 1
<1>1. ASSUME NEW S, Code(c) \in Seq(S), Len(Code(c)) > 0
      PROVE  Count(c) \in Nat \ {0} /\ \A k \in 1..Count(c) : Code(c)[k] \in S
  BY <1>1, LenProperties, ElementOfSeq DEF Count
<1>2. Neutral \subseteq Instr /\ ReadInstr \subseteq Instr /\ WriteInstr \subseteq Instr
  BY DEF Instr, ReadInstr
<1>3. CASE c.fn = "init"
  <2>1. Code(c) = InitCode BY <1>3 DEF Code
  <2>2. /\ Sbi("en") \in Instr /\ Sbi("counter") \in Instr /\ Nop \in Instr
        /\ Sbi("oe") \in Instr /\ Sbi("we") \in Instr
    BY <1>2, PulseIsNeutral, InstructionsAre
  <2>3. Sbi("reset") \in Instr /\ Cbi("reset") \in Instr
    <3>1. /\ Sbi("reset") \in Switch({"reset"}, BOOLEAN)
          /\ Cbi("reset") \in Switch({"reset"}, BOOLEAN)
      BY DEF Sbi, Cbi, Switch
    <3> QED BY <3>1 DEF Instr
  <2>4. ASSUME NEW k \in 1..13 PROVE InitCode[k] \in Instr
    <3>1. k \in {1, 2, 3, 4, 5, 6, 7, 8, 9, 10, 11, 12, 13} OBVIOUS
    <3> QED BY <2>2, <2>3, <3>1, InitIs
  <2>5. Count(c) = 13 BY <2>1, InitIs DEF Count
  <2> QED BY <1>3, <2>1, <2>4, <2>5
<1>4. CASE c.fn = "read"
  <2>1. Code(c) = ReadCode(c.addr) /\ c.addr \in Address BY <1>4 DEF Code, Calls
  <2>2. /\ Code(c) \in Seq(ReadInstr) /\ Len(Code(c)) > 0
        /\ Code(c)[1] = OutPort("out", FALSE) /\ Code(c)[Count(c)] = Sbi("oe")
    BY <2>1, ReadIs DEF Count
  <2>3. Count(c) \in Nat \ {0} /\ \A k \in 1..Count(c) : Code(c)[k] \in ReadInstr
    BY <1>1, <2>2
  <2> QED BY <1>2, <1>4, <2>2, <2>3
<1>5. CASE c.fn = "write"
  <2>1. Code(c) = WriteCode(c.addr, c.data) /\ c.addr \in Address /\ c.data \in Data
    BY <1>5 DEF Code, Calls
  <2>2. /\ Code(c) \in Seq(WriteInstr) /\ Len(Code(c)) > 0
        /\ Code(c)[1] = OutPort("out", TRUE) /\ Code(c)[Count(c)] = Sbi("we")
    BY <2>1, WriteIs DEF Count
  <2>3. Count(c) \in Nat \ {0} /\ \A k \in 1..Count(c) : Code(c)[k] \in WriteInstr
    BY <1>1, <2>2
  <2> QED BY <1>2, <1>5, <2>2, <2>3
<1>6. CASE c.fn = "burst_start"
  <2>1. Code(c) = BurstStartCode(c.addr) /\ c.addr \in Address BY <1>6 DEF Code, Calls
  <2>2. /\ Code(c) \in Seq(WriteInstr) /\ Len(Code(c)) > 0
        /\ Code(c)[1] = OutPort("out", TRUE)
    BY <2>1, BurstStartIs
  <2>3. Count(c) \in Nat \ {0} /\ \A k \in 1..Count(c) : Code(c)[k] \in WriteInstr
    BY <1>1, <2>2
  <2> QED BY <1>2, <1>6, <2>2, <2>3
<1>7. CASE c.fn = "burst_put"
  <2>1. Code(c) = BurstPutCode(c.data) /\ c.data \in Data BY <1>7 DEF Code, Calls
  <2>2. Code(c) \in Seq(Neutral) /\ Len(Code(c)) > 0 BY <2>1, BurstPutIs
  <2>3. Count(c) \in Nat \ {0} /\ \A k \in 1..Count(c) : Code(c)[k] \in Neutral
    BY <1>1, <2>2
  <2> QED BY <1>2, <1>7, <2>3
<1>8. CASE c.fn = "burst_end"
  <2>1. Code(c) = <<Sbi("oe"), Sbi("we")>> BY <1>8 DEF Code, BusOff
  <2>2. Sbi("oe") \in WriteInstr /\ Sbi("we") \in WriteInstr BY InstructionsAre
  <2>3. Code(c) \in Seq(WriteInstr) /\ Len(Code(c)) = 2 /\ Code(c)[2] = Sbi("we")
    BY <2>1, <2>2
  <2>4. Count(c) \in Nat \ {0} /\ \A k \in 1..Count(c) : Code(c)[k] \in WriteInstr
    BY <1>1, <2>3
  <2>5. Code(c)[Count(c)] = Sbi("we") BY <2>3 DEF Count
  <2> QED BY <1>2, <1>8, <2>4, <2>5
<1>9. CASE c.fn = "en_low"
  <2>1. Code(c) = <<Cbi("en")>> BY <1>9 DEF Code
  <2>2. Code(c) \in Seq(Neutral) /\ Len(Code(c)) = 1 BY <2>1, PulseIsNeutral
  <2>4. Count(c) = 1 BY <2>2 DEF Count
  <2>3. Count(c) \in Nat \ {0} /\ \A k \in 1..Count(c) : Code(c)[k] \in Neutral
    BY <1>1, <2>2
  <2> QED BY <1>2, <1>9, <2>3, <2>4
<1> QED
  BY <1>3, <1>4, <1>5, <1>6, <1>7, <1>8, <1>9 DEF Calls

-----------------------------------------------------------------------------
(* The types.                                                              *)

Byte == Data \cup {Z, X}

\* The instruction a routine is at, and how much of it is left.
Placed ==
  /\ step \in 1..Count(call) + 1
  /\ Finished => left = 0
  /\ ~Finished => left \in 1..Code(call)[step].cycles

LEMMA LevelIsAByte ==
  ASSUME NEW a \in Byte, NEW b \in Byte
  PROVE  Level({a, b}) \in Byte
BY DEF Level, Byte

LEMMA SampleIsAByte ==
  ASSUME NEW v \in Byte
  PROVE  Sample(v) \in Data \cup {X}
BY DEF Sample, Byte

LEMMA BusesAreBytes ==
  ASSUME TypeOK
  PROVE  AvrBus \in Byte /\ SramBus \in Byte
<1>1. /\ pins.data \in Data /\ cell \in Byte /\ lat.avr \in Byte /\ lat.sram \in Byte
      /\ Z \in Byte /\ X \in Byte /\ Data \subseteq Byte
  BY DEF TypeOK, Latches, Byte
<1>2. (IF pins.out THEN pins.data ELSE Z) \in Byte BY <1>1
<1>3. (IF SramDrives THEN IF addr = watch THEN cell ELSE X ELSE Z) \in Byte BY <1>1
<1> QED BY <1>1, <1>2, <1>3, LevelIsAByte DEF AvrBus, SramBus

\* The byte of the SRAM follows lines it does not drive itself.
LEMMA SettlesToAByte ==
  ASSUME lat' \in Latches, cell \in Data \cup {X}, Settle
  PROVE  cell' \in Data \cup {X}
<1>1. CASE pins'.we \/ addr' # watch
  BY <1>1 DEF Settle
<1>2. CASE ~pins'.we /\ addr' = watch
  <2>1. ~SramDrives' BY <1>2 DEF SramDrives
  <2>2. SramBus' = Level({Z, lat'.sram}) BY <2>1 DEF SramBus
  <2>3. lat'.sram \in Byte /\ Z \in Byte BY DEF Latches, Byte
  <2>4. SramBus' \in Byte BY <2>2, <2>3, LevelIsAByte
  <2> QED BY <1>2, <2>4, SampleIsAByte DEF Settle
<1> QED BY <1>1, <1>2

\* The bus machine goes only where its pins send it.
LEMMA MachineMoves ==
  ASSUME NEW s \in FsmState, NEW we \in BOOLEAN, NEW oe \in BOOLEAN
  PROVE  /\ FsmNext(s, we, oe) \in FsmState
         /\ FsmNext(s, we, oe) \in {"BUFAVR", "WE"} => ~we
         /\ FsmNext(s, we, oe) \in {"BUFSRAM", "OE"} => ~oe
         /\ FsmNext(s, we, oe) = "WE" => s = "BUFAVR"
         /\ FsmNext(s, we, oe) = "OE" => s = "BUFSRAM"
         /\ FsmNext(s, we, oe) = "BUFAVR" => s \in {"IDLE", "WE"}
         /\ FsmNext(s, we, oe) = "BUFSRAM" => s \in {"IDLE", "OE"}
BY DEF FsmNext, FsmState

LEMMA LatchesFollow ==
  ASSUME NEW s \in FsmState, NEW k \in Latches, NEW a \in Byte, NEW b \in Byte,
         NEW l \in Follow(s, k, a, b)
  PROVE  l \in Latches /\ l.avr = k.avr /\ l.sram = k.sram
<1>1. Sample(a) \in Byte /\ Sample(b) \in Byte BY SampleIsAByte DEF Byte
<1>2. /\ [k EXCEPT !.buffer = Sample(a)] \in Latches
      /\ [k EXCEPT !.buffer = Sample(b)] \in Latches
  BY <1>1 DEF Latches, Byte
<1>3. l = k \/ l = [k EXCEPT !.buffer = Sample(a)] \/ l = [k EXCEPT !.buffer = Sample(b)]
  BY DEF Follow
<1>4. /\ [k EXCEPT !.buffer = Sample(a)].avr = k.avr
      /\ [k EXCEPT !.buffer = Sample(a)].sram = k.sram
      /\ [k EXCEPT !.buffer = Sample(b)].avr = k.avr
      /\ [k EXCEPT !.buffer = Sample(b)].sram = k.sram
  BY DEF Latches
<1> QED BY <1>2, <1>3, <1>4

LEMMA OutputsAre ==
  ASSUME NEW s \in FsmState, NEW k \in Latches, NEW a \in Byte, NEW b \in Byte
  PROVE  LET o == FsmOutput(s, k, a, b)
         IN /\ o \in Latches
            /\ s = "IDLE" => o.avr = Z /\ o.sram = Z
            /\ s # "IDLE" /\ s # "OE" => o.avr = k.avr
            /\ s # "IDLE" /\ s # "WE" => o.sram = k.sram
<1>0. /\ k.avr \in Byte /\ k.sram \in Byte /\ k.buffer \in Byte
      /\ k = [avr |-> k.avr, sram |-> k.sram, buffer |-> k.buffer]
  BY DEF Latches, Byte
<1>1. Sample(a) \in Byte /\ Sample(b) \in Byte /\ Sample(k.buffer) \in Byte /\ Z \in Byte
  BY <1>0, SampleIsAByte DEF Byte
<1>2. CASE s = "IDLE"
  <2>1. FsmOutput(s, k, a, b) = [avr |-> Z, sram |-> Z, buffer |-> Z]
    BY <1>2 DEF FsmOutput
  <2> QED BY <1>1, <1>2, <2>1 DEF Latches, Byte
<1>3. CASE s = "WE"
  <2>1. FsmOutput(s, k, a, b) = [k EXCEPT !.sram = Sample(k.buffer)]
    BY <1>3 DEF FsmOutput
  <2> QED BY <1>1, <1>3, <2>1 DEF Latches, Byte
<1>4. CASE s = "OE"
  <2>1. FsmOutput(s, k, a, b) = [k EXCEPT !.avr = Sample(k.buffer)]
    BY <1>4 DEF FsmOutput
  <2> QED BY <1>1, <1>4, <2>1 DEF Latches, Byte
<1>5. CASE s = "BUFSRAM"
  <2>1. FsmOutput(s, k, a, b) = [k EXCEPT !.buffer = Sample(b)]
    BY <1>5 DEF FsmOutput
  <2> QED BY <1>1, <1>5, <2>1 DEF Latches, Byte
<1>6. CASE s = "BUFAVR"
  <2>1. FsmOutput(s, k, a, b) = [k EXCEPT !.buffer = Sample(a)]
    BY <1>6 DEF FsmOutput
  <2> QED BY <1>1, <1>6, <2>1 DEF Latches, Byte
<1> QED BY <1>2, <1>3, <1>4, <1>5, <1>6 DEF FsmState

LEMMA AddressesStay ==
  ASSUME NEW b \in Address, NEW en \in BOOLEAN, NEW counter \in BOOLEAN, NEW bit \in {0, 1}
  PROVE  SregEdge(b, en, counter, bit) \in Address /\ Inc(b) \in Address
<1> USE WidthAssumption
<1>1. \A k \in 0..W - 1 : k /= 0 => b[k - 1] \in {0, 1} BY SMT DEF Address
<1>2. ShiftIn(b, bit) \in Address BY <1>1 DEF Address, ShiftIn
<1>3. \A k \in 0..W - 1 : b[k] \in {0, 1} /\ 1 - b[k] \in {0, 1} BY SMT DEF Address
<1>4. Inc(b) \in Address BY <1>3 DEF Address, Inc
<1> QED BY <1>2, <1>4 DEF SregEdge

-----------------------------------------------------------------------------
(* What the two kinds of edges do.                                         *)

\* One cycle of an instruction, or its last one.
LEMMA Executing ==
  ASSUME TypeOK, Placed, Execute
  PROVE  /\ ~high /\ high' = TRUE /\ ~Finished /\ step \in 1..Count(call)
         /\ UNCHANGED <<call, addr, state, lat, specVars>>
         /\ \/ left = 2 /\ left' = 1 /\ UNCHANGED <<pins, step, result, clk>>
            \/ /\ left = 1 /\ step' = step + 1
               /\ pins' = After(pins, Code(call)[step]) /\ clk' = (clk /\ ~pins'.reset)
<1> DEFINE now == Code(call)[step]
<1>1. Count(call) \in Nat /\ step \in Nat BY CodeIs DEF TypeOK
<1>2. ~Finished /\ step \in 1..Count(call) BY <1>1 DEF Execute, Finished, Count, Placed
<1>3. now \in Instr BY <1>2, CodeIs DEF TypeOK
<1>4. now.cycles \in {1, 2}
  BY <1>3 DEF Instr, ReadInstr, WriteInstr, Neutral, Switch
<1>5. left \in {1, 2} BY <1>2, <1>4 DEF Placed
<1>6. CASE left = 2
  BY <1>2, <1>6 DEF Execute
<1>7. CASE left = 1
  BY <1>2, <1>7 DEF Execute, After
<1> QED BY <1>5, <1>6, <1>7

LEMMA ExecutingPlaces ==
  ASSUME TypeOK, Placed, Execute
  PROVE  Placed' /\ left' \in 0..2 /\ step' \in Nat \ {0}
<1>1. Count(call) \in Nat /\ step \in Nat BY CodeIs DEF TypeOK
<1>2. call' = call /\ step \in 1..Count(call) /\ ~Finished BY Executing
<1>3. \A k \in 1..Count(call) : Code(call)[k].cycles \in {1, 2}
  <2>1. \A k \in 1..Count(call) : Code(call)[k] \in Instr BY CodeIs DEF TypeOK
  <2> QED BY <2>1 DEF Instr, ReadInstr, WriteInstr, Neutral, Switch
<1>4. CASE left > 1
  <2>1. left' = left - 1 /\ step' = step BY <1>4 DEF Execute
  <2>2. left \in 1..Code(call)[step].cycles /\ Code(call)[step].cycles \in {1, 2}
    BY <1>2, <1>3 DEF Placed
  <2>3. left' \in 1..Code(call')[step'].cycles BY <1>2, <1>4, <2>1, <2>2
  <2>4. ~Finished' BY <1>2, <2>1 DEF Finished
  <2>5. left' \in 0..2 BY <1>4, <2>1, <2>2
  <2> QED BY <1>1, <1>2, <2>1, <2>3, <2>4, <2>5 DEF Placed
<1>5. CASE ~(left > 1)
  <2>1. /\ step' = step + 1
        /\ left' = IF step < Count(call) THEN Code(call)[step + 1].cycles ELSE 0
    BY <1>2, <1>5 DEF Execute, Count
  <2>2. CASE step < Count(call)
    <3>1. step' \in 1..Count(call) /\ left' = Code(call)[step'].cycles
      BY <1>1, <1>2, <2>1, <2>2
    <3>2. left' \in {1, 2} BY <1>3, <3>1
    <3>3. ~Finished' BY <1>1, <1>2, <3>1 DEF Finished, Count
    <3>4. left' \in 1..Code(call')[step'].cycles BY <1>2, <3>1, <3>2
    <3> QED BY <1>1, <1>2, <3>1, <3>2, <3>3, <3>4 DEF Placed
  <2>3. CASE ~(step < Count(call))
    <3>1. step' = Count(call) + 1 /\ left' = 0 BY <1>1, <1>2, <2>1, <2>3
    <3>2. Finished' BY <1>1, <1>2, <3>1 DEF Finished, Count
    <3> QED BY <1>1, <1>2, <3>1, <3>2 DEF Placed
  <2> QED BY <2>2, <2>3
<1> QED BY <1>4, <1>5

\* A falling edge moves the machine by its pins, and the latches with it.
LEMMA Clocking ==
  ASSUME TypeOK, CpldEdge
  PROVE  /\ high /\ high' = FALSE /\ clk' = (~pins.reset /\ ~clk)
         /\ UNCHANGED <<avrVars, specVars>>
         /\ addr' \in Address /\ state' \in FsmState /\ lat' \in Latches
         /\ state' = IF Toggles THEN FsmNext(state, pins.we, pins.oe) ELSE state
         /\ state' = state => lat'.avr = lat.avr /\ lat'.sram = lat.sram
         /\ state' # state =>
              /\ state' = "IDLE" => lat'.avr = Z /\ lat'.sram = Z
              /\ state' # "IDLE" /\ state' # "OE" => lat'.avr = lat.avr
              /\ state' # "IDLE" /\ state' # "WE" => lat'.sram = lat.sram
<1>1. PICK l \in Follow(state, lat, AvrBus, SramBus) :
        IF Toggles
        THEN /\ addr' = SregEdge(addr, pins.en, pins.counter, pins.si)
             /\ state' = IF pins.reset THEN "IDLE" ELSE FsmNext(state, pins.we, pins.oe)
             /\ lat' = IF state' = state THEN l
                       ELSE FsmOutput(state', l, AvrBus, SramBus)
        ELSE lat' = l /\ UNCHANGED <<addr, state>>
  BY DEF CpldEdge
<1>2. /\ state \in FsmState /\ lat \in Latches /\ addr \in Address
      /\ pins.we \in BOOLEAN /\ pins.oe \in BOOLEAN /\ pins.en \in BOOLEAN
      /\ pins.counter \in BOOLEAN /\ pins.si \in {0, 1}
  BY DEF TypeOK
<1>3. AvrBus \in Byte /\ SramBus \in Byte BY BusesAreBytes
<1>4. l \in Latches /\ l.avr = lat.avr /\ l.sram = lat.sram
  BY <1>2, <1>3, LatchesFollow
<1>5. high /\ high' = FALSE /\ clk' = (~pins.reset /\ ~clk) /\ UNCHANGED <<avrVars, specVars>>
  BY DEF CpldEdge
<1>6. state' = IF Toggles THEN FsmNext(state, pins.we, pins.oe) ELSE state
  BY <1>1 DEF Toggles
<1>7. state' \in FsmState BY <1>2, <1>6, MachineMoves
<1>8. addr' \in Address BY <1>1, <1>2, AddressesStay
<1>9. CASE state' = state
  <2>1. lat' = l BY <1>1, <1>9
  <2> QED BY <1>4, <1>5, <1>6, <1>7, <1>8, <1>9, <2>1
<1>10. CASE state' # state
  <2>1. lat' = FsmOutput(state', l, AvrBus, SramBus) BY <1>1, <1>10
  <2>2. /\ lat' \in Latches
        /\ state' = "IDLE" => lat'.avr = Z /\ lat'.sram = Z
        /\ state' # "IDLE" /\ state' # "OE" => lat'.avr = l.avr
        /\ state' # "IDLE" /\ state' # "WE" => lat'.sram = l.sram
    BY <1>3, <1>4, <1>7, <2>1, OutputsAre
  <2> QED BY <1>4, <1>5, <1>6, <1>7, <1>8, <1>10, <2>2
<1> QED BY <1>9, <1>10

LEMMA ClockingKeepsTypes ==
  ASSUME TypeOK, CpldEdge
  PROVE  TypeOK'
<1>1. cell' \in Data \cup {X}
  BY Clocking, SettlesToAByte DEF CpldEdge, TypeOK
<1>2. high' \in BOOLEAN /\ clk' \in BOOLEAN BY Clocking
<1> QED
  BY <1>1, <1>2, Clocking DEF TypeOK, avrVars, specVars

\* A routine starts at its first instruction.
LEMMA Starting ==
  ASSUME TypeOK, Call
  PROVE  /\ ~high /\ high' = TRUE /\ Finished /\ call' \in Calls
         /\ step' = 1 /\ left' = Code(call')[1].cycles /\ left' \in {1, 2}
         /\ call'.fn \in IF burst THEN {"burst_put", "burst_end"}
                         ELSE {"read", "write", "burst_start", "en_low"}
         /\ burst' = (call'.fn \in {"burst_start", "burst_put"})
         /\ UNCHANGED <<pins, sync, clk, addr, state, lat, cell, watch>>
         /\ cur' \in Address /\ want' \in Data \cup {X} /\ result' = X
<1>1. PICK c \in Calls :
        /\ c.fn \in IF burst THEN {"burst_put", "burst_end"}
                    ELSE {"read", "write", "burst_start", "en_low"}
        /\ Start(c)
        /\ burst' = (c.fn \in {"burst_start", "burst_put"})
        /\ cur' = CASE c.fn = "burst_start" -> c.addr
                    [] c.fn = "burst_put" -> Inc(cur)
                    [] OTHER -> cur
        /\ want' = CASE c.fn = "write" /\ c.addr = watch -> c.data
                     [] c.fn = "burst_put" /\ cur = watch -> c.data
                     [] c.fn \in {"burst_start", "burst_put"} /\ cur' = watch -> X
                     [] OTHER -> want
  BY DEF Call
<1>2. call' = c /\ step' = 1 /\ left' = Code(c)[1].cycles /\ result' = X
  BY <1>1 DEF Start
<1>3. left' \in {1, 2}
  <2>1. Count(c) \in Nat \ {0} BY CodeIs
  <2>2. 1 \in 1..Count(c) BY <2>1
  <2>3. Code(c)[1] \in Instr BY <2>2, CodeIs
  <2> QED BY <1>2, <2>3 DEF Instr, ReadInstr, WriteInstr, Neutral, Switch
<1>4. /\ c.fn = "burst_start" => c.addr \in Address
      /\ c.fn \in {"write", "burst_put"} => c.data \in Data
  BY DEF Calls
<1>5. cur \in Address /\ Inc(cur) \in Address
  <2>1. cur \in Address BY DEF TypeOK
  <2> QED BY <2>1, AddressesStay
<1>6. cur' \in Address BY <1>1, <1>4, <1>5
<1>7. want' \in Data \cup {X} BY <1>1, <1>4 DEF TypeOK
<1> QED
  BY <1>1, <1>2, <1>3, <1>6, <1>7 DEF Call, cpldVars

LEMMA TypesStart == Init => TypeOK /\ Placed
<1> SUFFICES ASSUME Init PROVE TypeOK /\ Placed
  OBVIOUS
<1>1. (CHOOSE d \in Data : TRUE) \in Data BY DataAssumption
<1>2. pins \in PinState BY <1>1 DEF Init, PinState
<1>3. call \in Calls /\ call.fn = "init" BY DEF Init, Calls
<1>4. Count(call) = 13 /\ Code(call)[1] = Sbi("oe") /\ Code(call) = InitCode
  BY <1>3, CodeIs, InitIs DEF Count
<1>5. step = 1 /\ left = 2 /\ Sbi("oe").cycles = 2 BY DEF Init, Sbi
<1>6. Placed BY <1>4, <1>5 DEF Placed, Finished, Count
<1>7. lat \in Latches BY DEF Init, Latches
<1>8. step \in Nat \ {0} /\ left \in 0..2 BY <1>5
<1>9. high \in BOOLEAN /\ clk \in BOOLEAN /\ burst \in BOOLEAN BY DEF Init
<1>10. /\ sync = X /\ result = X /\ cell = X /\ want = X
       /\ addr \in Address /\ state \in FsmState /\ watch \in Address /\ cur \in Address
  BY DEF Init
<1> QED
  BY <1>2, <1>3, <1>6, <1>7, <1>8, <1>9, <1>10 DEF TypeOK, PinState

LEMMA TypesKept == TypeOK /\ Placed /\ [Next]_vars => TypeOK' /\ Placed'
<1> SUFFICES ASSUME TypeOK, Placed, [Next]_vars PROVE TypeOK' /\ Placed'
  OBVIOUS
<1>1. CASE Call
  <2>1. Placed'
    <3>1. Count(call') \in Nat \ {0} BY <1>1, Starting, CodeIs
    <3>2. step' \in 1..Count(call') + 1 /\ ~Finished'
      BY <1>1, <3>1, Starting DEF Finished, Count
    <3> QED BY <1>1, <3>2, Starting DEF Placed
  <2>2. /\ call' \in Calls /\ cur' \in Address /\ want' \in Data \cup {X} /\ result' = X
        /\ UNCHANGED <<pins, sync, clk, addr, state, lat, cell, watch>>
    BY <1>1, Starting
  <2>3. step' \in Nat \ {0} /\ left' \in 0..2 BY <1>1, Starting
  <2>4. high' \in BOOLEAN /\ burst' \in BOOLEAN BY <1>1, Starting
  <2> QED BY <2>1, <2>2, <2>3, <2>4 DEF TypeOK
<1>2. CASE Execute
  <2>1. Placed' /\ left' \in 0..2 /\ step' \in Nat \ {0} BY <1>2, ExecutingPlaces
  <2>2. pins' \in PinState /\ clk' \in BOOLEAN
    <3>1. pins \in PinState /\ clk \in BOOLEAN BY DEF TypeOK, PinState
    <3>2. Code(call)[step] \in Instr BY <1>2, Executing, CodeIs DEF TypeOK
    <3>3. After(pins, Code(call)[step]) \in PinState BY <3>1, <3>2, PinsKeepTheirType
    <3> QED BY <1>2, <3>1, <3>3, Executing
  <2>3. cell' \in Data \cup {X}
    BY <1>2, Executing, SettlesToAByte DEF Execute, TypeOK
  <2>4. sync' \in Data \cup {Z, X} /\ result' \in Data \cup {Z, X}
    BY <1>2, BusesAreBytes DEF Execute, TypeOK, Byte
  <2> QED
    BY <1>2, <2>1, <2>2, <2>3, <2>4, Executing DEF TypeOK, PinState, specVars
<1>3. CASE Stall
  <2>1. sync' \in Data \cup {Z, X} BY <1>3, BusesAreBytes DEF Stall, Byte
  <2> QED BY <1>3, <2>1 DEF Stall, TypeOK, Placed, Finished, Count, cpldVars, specVars
<1>4. CASE CpldEdge
  <2>1. TypeOK' BY <1>4, ClockingKeepsTypes
  <2> QED BY <1>4, <2>1, Clocking DEF Placed, Finished, Count, avrVars
<1>5. CASE UNCHANGED vars
  BY <1>5 DEF vars, TypeOK, Placed, Finished, Count, avrVars, cpldVars, specVars
<1> QED BY <1>1, <1>2, <1>3, <1>4, <1>5 DEF Next

\* Every variable keeps its type, however wide the register: the bytes stay
\* bytes or levels of a line, and the machine in its five states.
THEOREM TypeCorrect == Spec => []TypeOK
<1>1. Init => TypeOK /\ Placed BY TypesStart
<1>2. TypeOK /\ Placed /\ [Next]_vars => (TypeOK /\ Placed)' BY TypesKept
<1> QED BY <1>1, <1>2, PTL DEF Spec

-----------------------------------------------------------------------------
(* The strobes and the direction of port A, routine by routine.            *)

Started == step > 1

Bursting == call.fn # "init" => burst = (call.fn \in {"burst_start", "burst_put"})

\* Only a read lowers the output enable, only a write or a burst the write
\* strobe, and each raises it again before the next routine may begin.
Strobes ==
  /\ call.fn = "read" => /\ pins.we /\ (step = 1 \/ Finished => pins.oe)
                         /\ Started => ~pins.out
  /\ call.fn \notin {"init", "read"} => pins.oe
  /\ call.fn \in {"write", "burst_start"} => /\ step = 1 => pins.we
                                             /\ Started => pins.out
  /\ call.fn \in {"write", "burst_end"} /\ Finished => pins.we
  /\ call.fn \in {"burst_put", "burst_end"} => pins.out
  /\ call.fn = "en_low" => pins.we
  /\ call.fn # "init" => ~pins.reset

\* init raises the strobes first and holds the machine in reset later.
Raised ==
  call.fn = "init" =>
    /\ ~burst /\ pins.out
    /\ step > 1 => pins.oe
    /\ step > 2 => pins.we
    /\ step <= 2 => ~pins.we
    /\ step <= 5 \/ step > 9 => ~pins.reset

Pins == Bursting /\ Strobes /\ Raised

LEMMA PinsStart == Init => Pins
<1> SUFFICES ASSUME Init PROVE Pins
  OBVIOUS
<1>1. call.fn = "init" /\ step = 1 /\ ~burst /\ pins.out /\ ~pins.we /\ ~pins.reset
  BY DEF Init
<1> QED BY <1>1 DEF Pins, Bursting, Strobes, Raised

\* What is true of the pins between two calls.
LEMMA PinsAtRest ==
  ASSUME TypeOK, Pins, Finished
  PROVE  /\ pins.oe /\ ~pins.reset /\ (~burst => pins.we) /\ (burst => pins.out)
         /\ Count(call) \in Nat \ {0} /\ Started
<1>1. Count(call) \in Nat \ {0} /\ step \in Nat BY CodeIs DEF TypeOK
<1>2. Started /\ step > Count(call) BY <1>1 DEF Started, Finished, Count
<1>3. CASE call.fn = "init"
  <2>1. Count(call) = 13 BY <1>3, CodeIs, InitIs DEF Count, TypeOK
  <2>2. step > 9 /\ step > 1 /\ step > 2 BY <1>1, <1>2, <2>1
  <2> QED BY <1>1, <1>2, <1>3, <2>2 DEF Pins, Raised
<1>4. CASE call.fn # "init"
  <2>1. call.fn \in {"read", "write", "burst_start", "burst_put", "burst_end", "en_low"}
    BY <1>4 DEF TypeOK, Calls
  <2>2. pins.oe /\ ~pins.reset BY <1>4, <2>1 DEF Pins, Strobes
  <2>3. CASE call.fn \in {"burst_start", "burst_put"}
    <3>1. burst BY <1>4, <2>3 DEF Pins, Bursting
    <3>2. pins.out BY <1>2, <2>3 DEF Pins, Strobes
    <3> QED BY <1>1, <1>2, <2>2, <3>1, <3>2
  <2>4. CASE call.fn \in {"read", "write", "burst_end", "en_low"}
    <3>1. ~burst BY <1>4, <2>4 DEF Pins, Bursting
    <3>2. pins.we BY <2>4 DEF Pins, Strobes
    <3> QED BY <1>1, <1>2, <2>2, <3>1, <3>2
  <2> QED BY <2>1, <2>3, <2>4
<1> QED BY <1>3, <1>4

LEMMA CallKeepsPins ==
  ASSUME TypeOK, Pins, Call
  PROVE  Pins'
<1>1. Finished BY Starting
<1>2. pins.oe /\ ~pins.reset /\ (~burst => pins.we) /\ (burst => pins.out)
  BY <1>1, PinsAtRest
<1>3. pins' = pins /\ step' = 1 /\ ~Started' /\ call'.fn # "init"
  BY Starting DEF Started
<1>4. ~Finished'
  <2>1. Count(call') \in Nat \ {0} BY Starting, CodeIs
  <2> QED BY <1>3, <2>1 DEF Finished, Count
<1>5. /\ burst => call'.fn \in {"burst_put", "burst_end"}
      /\ ~burst => call'.fn \in {"read", "write", "burst_start", "en_low"}
      /\ burst' = (call'.fn \in {"burst_start", "burst_put"})
  BY Starting
<1>6. Bursting' BY <1>5 DEF Bursting
<1>7. Strobes' BY <1>2, <1>3, <1>4, <1>5 DEF Strobes
<1>8. Raised' BY <1>3 DEF Raised
<1> QED BY <1>6, <1>7, <1>8 DEF Pins

\* The last cycle of an instruction.
LEMMA InstructionKeepsPins ==
  ASSUME TypeOK, Placed, Pins, Execute, left = 1
  PROVE  Pins'
<1> DEFINE i == Code(call)[step]
           q == After(pins, i)
<1>1. /\ pins' = q /\ step' = step + 1 /\ call' = call /\ burst' = burst
      /\ step \in 1..Count(call)
  BY Executing DEF specVars
<1>2. Count(call) \in Nat \ {0} /\ pins \in PinState /\ call \in Calls
  BY CodeIs DEF TypeOK, PinState
<1>3. step \in Nat \ {0} /\ Started' /\ step' # 1 /\ (Started <=> step # 1)
  BY <1>1, <1>2 DEF Started
<1>4. Finished' => step = Count(call)
  BY <1>1, <1>2 DEF Finished, Count
<1>5. Bursting' BY <1>1 DEF Pins, Bursting
<1>6. CASE call.fn = "init"
  <2>1. Strobes' BY <1>1, <1>6 DEF Strobes
  <2>2. Code(call) = InitCode /\ Count(call) = 13 BY <1>2, <1>6, CodeIs, InitIs DEF Count
  <2>3. step \in {1, 2, 3, 4, 5, 6, 7, 8, 9, 10, 11, 12, 13} BY <1>1, <2>2
  <2>4. q.out = pins.out
    <3>1. i.pin # "out"
      BY <2>2, <2>3, InitIs DEF Sbi, Cbi, Nop
    <3> QED BY <1>2, <3>1, SetsOnePin
  <2>5. step' > 1 => q.oe
    <3>1. CASE step = 1 BY <1>2, <2>2, <3>1, InitIs, Sets
    <3>2. CASE step # 1
      <4>1. i.pin # "oe" BY <2>2, <2>3, <3>2, InitIs DEF Sbi, Cbi, Nop
      <4>2. step > 1 BY <1>3, <3>2
      <4>3. pins.oe BY <1>6, <4>2 DEF Pins, Raised
      <4> QED BY <1>2, <4>1, <4>3, SetsOnePin
    <3> QED BY <3>1, <3>2
  <2>6. (step' > 2 => q.we) /\ (step' <= 2 => ~q.we)
    <3>1. CASE step = 1
      <4>1. i.pin # "we" BY <2>2, <3>1, InitIs DEF Sbi
      <4>2. ~pins.we BY <1>6, <3>1 DEF Pins, Raised
      <4>3. q.we = pins.we BY <1>2, <4>1, SetsOnePin
      <4> QED BY <1>1, <3>1, <4>2, <4>3
    <3>2. CASE step = 2
      <4>1. q.we = TRUE BY <1>2, <2>2, <3>2, InitIs, Sets
      <4> QED BY <1>1, <3>2, <4>1
    <3>3. CASE step # 1 /\ step # 2
      <4>1. i.pin # "we" BY <2>2, <2>3, <3>3, InitIs DEF Sbi, Cbi, Nop
      <4>2. step > 2 /\ ~(step' <= 2) BY <1>1, <1>3, <3>3
      <4>3. pins.we BY <1>6, <4>2 DEF Pins, Raised
      <4> QED BY <1>2, <4>1, <4>2, <4>3, SetsOnePin
    <3> QED BY <3>1, <3>2, <3>3
  <2>7. step' <= 5 \/ step' > 9 => ~q.reset
    <3>1. CASE step \in {1, 2, 3, 4, 10, 11, 12, 13}
      <4>1. i.pin # "reset" BY <2>2, <3>1, InitIs DEF Sbi, Nop
      <4>2. ~pins.reset BY <1>6, <3>1 DEF Pins, Raised
      <4> QED BY <1>2, <4>1, <4>2, SetsOnePin
    <3>2. CASE step = 9
      <4>1. q.reset = FALSE BY <1>2, <2>2, <3>2, InitIs, Sets
      <4> QED BY <4>1
    <3>3. CASE step \in {5, 6, 7, 8}
      BY <1>1, <3>3
    <3> QED BY <2>3, <3>1, <3>2, <3>3
  <2>8. Raised'
    <3>1. ~burst /\ pins.out BY <1>6 DEF Pins, Raised
    <3> QED BY <1>1, <2>4, <2>5, <2>6, <2>7, <3>1 DEF Raised
  <2> QED BY <1>5, <2>1, <2>8 DEF Pins
<1>7. CASE call.fn = "read"
  <2>1. /\ i \in ReadInstr /\ (step = 1 => i = OutPort("out", FALSE))
        /\ step = Count(call) => i = Sbi("oe")
    BY <1>1, <1>2, <1>7, CodeIs
  <2>2. pins.we /\ (Started => ~pins.out) /\ ~pins.reset
    BY <1>7 DEF Pins, Strobes
  <2>3. q.we /\ ~q.reset BY <1>2, <2>1, <2>2, ReadsKeep
  <2>4. ~q.out
    <3>1. step = 1 => q.out = FALSE BY <1>2, <2>1, Sets
    <3>2. step # 1 => ~q.out BY <1>2, <1>3, <2>1, <2>2, ReadsKeep
    <3> QED BY <3>1, <3>2
  <2>5. Finished' => q.oe
    <3>1. Finished' => q.oe = TRUE BY <1>2, <1>4, <2>1, Sets
    <3> QED BY <3>1
  <2>6. Strobes' BY <1>1, <1>3, <1>7, <2>3, <2>4, <2>5 DEF Strobes
  <2> QED BY <1>1, <1>5, <1>7, <2>6 DEF Pins, Raised
<1>8. CASE call.fn \in {"write", "burst_start", "burst_end"}
  <2>1. /\ i \in WriteInstr
        /\ call.fn \in {"write", "burst_start"} /\ step = 1 => i = OutPort("out", TRUE)
        /\ call.fn \in {"write", "burst_end"} /\ step = Count(call) => i = Sbi("we")
    BY <1>1, <1>2, <1>8, CodeIs
  <2>2. /\ pins.oe /\ ~pins.reset
        /\ call.fn \in {"write", "burst_start"} /\ Started => pins.out
        /\ call.fn = "burst_end" => pins.out
    BY <1>8 DEF Pins, Strobes
  <2>3. q.oe /\ ~q.reset BY <1>2, <2>1, <2>2, WritesKeep
  <2>4. q.out
    <3>1. call.fn \in {"write", "burst_start"} /\ step = 1 => q.out = TRUE
      BY <1>2, <2>1, Sets
    <3>2. pins.out => q.out BY <1>2, <2>1, WritesKeep
    <3> QED BY <1>3, <1>8, <2>2, <3>1, <3>2
  <2>5. call.fn \in {"write", "burst_end"} /\ Finished' => q.we
    <3>1. call.fn \in {"write", "burst_end"} /\ Finished' => q.we = TRUE
      BY <1>2, <1>4, <2>1, Sets
    <3> QED BY <3>1
  <2>6. Strobes' BY <1>1, <1>3, <1>8, <2>3, <2>4, <2>5 DEF Strobes
  <2> QED BY <1>1, <1>5, <1>8, <2>6 DEF Pins, Raised
<1>9. CASE call.fn \in {"burst_put", "en_low"}
  <2>1. i \in Neutral BY <1>1, <1>2, <1>9, CodeIs
  <2>2. /\ q.we = pins.we /\ q.oe = pins.oe /\ q.reset = pins.reset /\ q.out = pins.out
    BY <1>2, <2>1, NeutralKeepsStrobes
  <2>3. Strobes' BY <1>1, <1>9, <2>2 DEF Pins, Strobes
  <2> QED BY <1>1, <1>5, <1>9, <2>3 DEF Pins, Raised
<1> QED BY <1>2, <1>6, <1>7, <1>8, <1>9 DEF Calls

LEMMA PinsKept == TypeOK /\ Placed /\ Pins /\ [Next]_vars => Pins'
<1> SUFFICES ASSUME TypeOK, Placed, Pins, [Next]_vars PROVE Pins'
  OBVIOUS
<1>1. CASE Call BY <1>1, CallKeepsPins
<1>2. CASE Execute
  <2>1. CASE left = 1 BY <1>2, <2>1, InstructionKeepsPins
  <2>2. CASE left # 1
    <3>1. UNCHANGED <<call, pins, step, burst>> BY <1>2, <2>2, Executing DEF specVars
    <3> QED BY <3>1 DEF Pins, Bursting, Strobes, Raised, Started, Finished
  <2> QED BY <2>1, <2>2
<1>3. CASE Stall
  BY <1>3 DEF Stall, specVars, Pins, Bursting, Strobes, Raised, Started, Finished
<1>4. CASE CpldEdge
  <2>1. UNCHANGED <<call, pins, step, burst>> BY <1>4, Clocking DEF avrVars, specVars
  <2> QED BY <2>1 DEF Pins, Bursting, Strobes, Raised, Started, Finished
<1>5. CASE UNCHANGED vars
  BY <1>5 DEF vars, avrVars, specVars, Pins, Bursting, Strobes, Raised, Started, Finished
<1> QED BY <1>1, <1>2, <1>3, <1>4, <1>5 DEF Next

-----------------------------------------------------------------------------
(* The bus machine, once init has run.                                     *)

Reading == state \in {"BUFSRAM", "OE"}
Writing == state \in {"BUFAVR", "WE"}

\* A machine that has not yet seen its strobe rise sees it with the next edge.
Leaving ==
  /\ ~high /\ pins.we /\ Writing => ~clk
  /\ ~high /\ pins.oe /\ Reading => ~clk

\* Before the first instruction of a routine ends, the machine has left the
\* state the last routine had it in: a cycle at least lies between the two.
Rested ==
  call.fn # "init" /\ step = 1 =>
    /\ high /\ pins.we /\ Writing => ~clk
    /\ high /\ pins.oe /\ Reading => ~clk
    /\ ~high /\ pins.we => ~Writing
    /\ ~high /\ pins.oe => ~Reading

\* Each side is driven only where the machine reads or writes, and it reads
\* and writes only when the AVR listens or the SRAM does.
Clean == (lat.avr # Z => Reading) /\ (lat.sram # Z => Writing)

Calm ==
  call.fn # "init" =>
    /\ Clean /\ (pins.out => ~Reading)
    /\ call.fn = "read" /\ Started => ~Writing

LEMMA LeavingKept ==
  ASSUME TypeOK, Placed, Leaving, [Next]_vars
  PROVE  Leaving'
<1>1. CASE Call BY <1>1, Starting DEF Leaving
<1>2. CASE Execute BY <1>2, Executing DEF Leaving
<1>3. CASE Stall BY <1>3 DEF Stall, Leaving
<1>4. CASE CpldEdge
  <2>1. pins' = pins /\ clk' = (~pins.reset /\ ~clk) BY <1>4, Clocking DEF avrVars
  <2>2. CASE Toggles
    <3>1. state' = FsmNext(state, pins.we, pins.oe) BY <1>4, <2>2, Clocking
    <3>2. /\ Writing' => ~pins.we
          /\ Reading' => ~pins.oe
      BY <3>1, MachineMoves DEF TypeOK, Reading, Writing
    <3> QED BY <2>1, <3>2 DEF Leaving
  <2>3. CASE ~Toggles
    <3>1. ~clk' BY <2>1, <2>3 DEF Toggles
    <3> QED BY <3>1 DEF Leaving
  <2> QED BY <2>2, <2>3
<1>5. CASE UNCHANGED vars
  BY <1>5 DEF vars, avrVars, cpldVars, Leaving, Reading, Writing
<1> QED BY <1>1, <1>2, <1>3, <1>4, <1>5 DEF Next

LEMMA RestedKept ==
  ASSUME TypeOK, Placed, Pins, Leaving, Rested, [Next]_vars
  PROVE  Rested'
<1>1. CASE Call
  <2>1. ~high /\ high' = TRUE /\ UNCHANGED <<pins, clk, state>> BY <1>1, Starting
  <2> QED BY <2>1 DEF Leaving, Rested, Reading, Writing
<1>2. CASE Execute
  <2>1. ~high /\ high' = TRUE /\ call' = call /\ state' = state BY <1>2, Executing
  <2>2. CASE left = 1
    <3>1. step' = step + 1 BY <1>2, <2>2, Executing
    <3>2. step \in Nat \ {0} BY DEF TypeOK
    <3>3. step' # 1 BY <3>1, <3>2
    <3> QED BY <3>3 DEF Rested
  <2>3. CASE left # 1
    <3>1. UNCHANGED <<pins, step, clk>> BY <1>2, <2>3, Executing
    <3> QED BY <2>1, <3>1 DEF Rested, Reading, Writing
  <2> QED BY <2>2, <2>3
<1>3. CASE Stall
  BY <1>3 DEF Stall, cpldVars, Rested, Reading, Writing
<1>4. CASE CpldEdge
  <2> SUFFICES ASSUME call.fn # "init", step = 1
               PROVE  (pins.we => ~Writing') /\ (pins.oe => ~Reading')
    <3>1. UNCHANGED <<pins, call, step>> /\ high' = FALSE
      BY <1>4, Clocking DEF avrVars
    <3> QED BY <3>1 DEF Rested
  <2>1. high /\ ~pins.reset BY <1>4, Clocking DEF Pins, Strobes
  <2>2. CASE Toggles
    <3>1. state' = FsmNext(state, pins.we, pins.oe) BY <1>4, <2>2, Clocking
    <3> QED BY <3>1, MachineMoves DEF TypeOK, Reading, Writing
  <2>3. CASE ~Toggles
    <3>1. clk /\ state' = state BY <1>4, <2>1, <2>3, Clocking DEF Toggles
    <3>2. (pins.we => ~Writing) /\ (pins.oe => ~Reading) BY <2>1, <3>1 DEF Rested
    <3> QED BY <3>1, <3>2 DEF Reading, Writing
  <2> QED BY <2>2, <2>3
<1>5. CASE UNCHANGED vars
  BY <1>5 DEF vars, avrVars, cpldVars, Rested, Reading, Writing
<1> QED BY <1>1, <1>2, <1>3, <1>4, <1>5 DEF Next

LEMMA OneCannotBeBoth ==
  /\ state \in FsmState => ~(Reading /\ Writing)
  /\ state = "IDLE" <=> state \in FsmState /\ ~Reading /\ ~Writing
BY DEF Reading, Writing, FsmState

\* The latches stay clean whatever the pins.
LEMMA EdgesStayClean ==
  ASSUME TypeOK, CpldEdge, Clean
  PROVE  Clean'
<1>1. CASE state' = state
  <2>1. lat'.avr = lat.avr /\ lat'.sram = lat.sram BY <1>1, Clocking
  <2> QED BY <1>1, <2>1 DEF Clean, Reading, Writing
<1>2. CASE state' # state
  <2>1. /\ state' = "IDLE" => lat'.avr = Z /\ lat'.sram = Z
        /\ state' # "IDLE" /\ state' # "OE" => lat'.avr = lat.avr
        /\ state' # "IDLE" /\ state' # "WE" => lat'.sram = lat.sram
    BY <1>2, Clocking
  <2>2. state' = FsmNext(state, pins.we, pins.oe) BY <1>2, Clocking
  <2>3. /\ state' \in FsmState
        /\ state' = "BUFAVR" => state \in {"IDLE", "WE"}
        /\ state' = "BUFSRAM" => state \in {"IDLE", "OE"}
    BY <2>2, MachineMoves DEF TypeOK
  <2>4. CASE state' = "IDLE" BY <2>1, <2>4 DEF Clean
  <2>5. CASE state' = "WE"
    BY <2>1, <2>2, <2>5, MachineMoves DEF TypeOK, Clean, Reading, Writing
  <2>6. CASE state' = "OE"
    BY <2>1, <2>2, <2>6, MachineMoves DEF TypeOK, Clean, Reading, Writing
  <2>7. CASE state' = "BUFAVR" BY <2>1, <2>3, <2>7 DEF Clean, Reading, Writing
  <2>8. CASE state' = "BUFSRAM" BY <2>1, <2>3, <2>8 DEF Clean, Reading, Writing
  <2> QED BY <2>3, <2>4, <2>5, <2>6, <2>7, <2>8 DEF FsmState
<1> QED BY <1>1, <1>2

\* A port that drives is not one the machine reads the SRAM for.
LEMMA DrivingMeansNoRead ==
  ASSUME TypeOK, Placed, Pins, call.fn # "init", pins.out
  PROVE  pins.oe
<1>1. step = 1 \/ Started BY DEF TypeOK, Started
<1> QED BY <1>1 DEF Pins, Strobes

LEMMA EdgesStayCalm ==
  ASSUME TypeOK, Placed, Pins, Calm, CpldEdge
  PROVE  Calm'
<1> SUFFICES ASSUME call.fn # "init"
             PROVE  /\ Clean' /\ (pins.out => ~Reading')
                    /\ call.fn = "read" /\ Started => ~Writing'
  <2>1. UNCHANGED <<pins, call, step>> BY Clocking DEF avrVars
  <2> QED BY <2>1 DEF Calm, Started
<1>1. Clean' BY EdgesStayClean DEF Calm
<1>2. state' = FsmNext(state, pins.we, pins.oe) \/ state' = state BY Clocking
<1>3. CASE state' = state
  BY <1>1, <1>3 DEF Calm, Reading, Writing
<1>4. CASE state' = FsmNext(state, pins.we, pins.oe)
  <2>1. (pins.we => ~Writing') /\ (pins.oe => ~Reading')
    BY <1>4, MachineMoves DEF TypeOK, Reading, Writing
  <2>2. pins.out => pins.oe BY DrivingMeansNoRead
  <2>3. call.fn = "read" => pins.we BY DEF Pins, Strobes
  <2> QED BY <1>1, <2>1, <2>2, <2>3
<1> QED BY <1>2, <1>3, <1>4

\* The end of an instruction may turn the port around or raise a strobe.
LEMMA InstructionsStayCalm ==
  ASSUME TypeOK, Placed, Pins, Pins', Rested, Calm, Execute, left = 1
  PROVE  Calm'
<1> SUFFICES ASSUME call.fn # "init"
             PROVE  (pins'.out => ~Reading) /\ (call.fn = "read" => ~Writing)
  <2>1. call' = call /\ UNCHANGED <<state, lat>> BY Executing
  <2> QED BY <2>1 DEF Calm, Clean, Reading, Writing
<1>1. ~high /\ call' = call /\ step' = step + 1 /\ step \in 1..Count(call)
  BY Executing
<1>2. step \in Nat \ {0} BY DEF TypeOK
<1>3. Started' /\ (step = 1 \/ Started) BY <1>1, <1>2 DEF Started
<1>4. CASE call.fn = "read"
  <2>1. ~pins'.out BY <1>1, <1>3, <1>4 DEF Pins, Strobes
  <2>2. pins.we BY <1>4 DEF Pins, Strobes
  <2>3. CASE step = 1
    <3>1. ~Writing BY <1>1, <1>4, <2>2, <2>3 DEF Rested
    <3> QED BY <2>1, <3>1
  <2>4. CASE Started
    <3>1. ~Writing BY <1>4, <2>4 DEF Calm
    <3> QED BY <2>1, <3>1
  <2> QED BY <1>3, <2>3, <2>4
<1>5. CASE call.fn # "read"
  <2>1. pins.oe BY <1>5 DEF Pins, Strobes
  <2>2. CASE step = 1
    <3>1. ~Reading BY <1>1, <2>1, <2>2 DEF Rested
    <3> QED BY <1>5, <3>1
  <2>3. CASE Started
    <3>1. call.fn # "en_low"
      <4>1. call.fn = "en_low" => Count(call) = 1 BY CodeIs DEF TypeOK
      <4>2. Count(call) # 1 BY <1>1, <1>2, <2>3 DEF Started
      <4> QED BY <4>1, <4>2
    <3>2. pins.out
      <4>1. call.fn \in {"write", "burst_start", "burst_put", "burst_end"}
        BY <1>5, <3>1 DEF TypeOK, Calls
      <4> QED BY <2>3, <4>1 DEF Pins, Strobes
    <3>3. ~Reading BY <3>2 DEF Calm
    <3> QED BY <1>5, <3>3
  <2> QED BY <1>3, <2>2, <2>3
<1> QED BY <1>4, <1>5

-----------------------------------------------------------------------------
(* The bus machine while init wakes it up.                                 *)

Quiet == state = "IDLE" /\ lat.avr = Z /\ lat.sram = Z
Tidy == state = "IDLE" => lat.avr = Z /\ lat.sram = Z

\* The machine powers up in any state, with anything in its latches.  The low
\* strobes drive it out of an untidy IDLE before they rise, and then it comes
\* to rest with one edge of its clock, before the next pin is touched.
Waking ==
  call.fn = "init" =>
    /\ ~Tidy => step = 1 \/ (step = 2 /\ left = 2 /\ high /\ ~clk)
    /\ ~Tidy /\ step = 1 /\ left = 1 /\ ~high => ~clk
    /\ step = 3 /\ (~high \/ left = 1) => Quiet \/ ~clk
    /\ step = 3 /\ ~high /\ left = 1 => Quiet
    /\ step > 3 => Quiet

LEMMA WakingStarts == Init => Waking
<1> SUFFICES ASSUME Init PROVE Waking
  OBVIOUS
<1>1. step = 1 /\ left = 2 BY DEF Init
<1>2. left # 1 /\ step # 3 /\ ~(step > 3) BY <1>1
<1> QED BY <1>1, <1>2 DEF Waking

\* What the end of an instruction leaves for the next one.
LEMMA NextInstruction ==
  ASSUME TypeOK, Placed, Execute, left = 1, call.fn = "init"
  PROVE  (step = 1 => left' = 2) /\ (step = 2 => left' = 2)
<1>1. Code(call) = InitCode /\ Len(Code(call)) = 13
  BY CodeIs, InitIs DEF TypeOK
<1>2. left' = IF step < 13 THEN InitCode[step + 1].cycles ELSE 0
  BY <1>1 DEF Execute
<1>3. InitCode[1 + 1].cycles = 2 /\ InitCode[2 + 1].cycles = 2
  <2>1. 1 + 1 = 2 /\ 2 + 1 = 3 OBVIOUS
  <2>2. InitCode[2] = Sbi("we") /\ InitCode[3] = Sbi("en") BY InitIs
  <2> QED BY <2>1, <2>2 DEF Sbi
<1> QED BY <1>2, <1>3

LEMMA WakingWithInstructions ==
  ASSUME TypeOK, Placed, Pins, Waking, Execute, call.fn = "init"
  PROVE  Waking'
<1>1. /\ ~high /\ high' = TRUE /\ call' = call /\ UNCHANGED <<state, lat>>
      /\ step \in Nat \ {0}
  BY Executing DEF TypeOK
<1>2. (Tidy' <=> Tidy) /\ (Quiet' <=> Quiet) BY <1>1 DEF Tidy, Quiet
<1>3. ~Tidy => step = 1 BY <1>1 DEF Waking
<1>4. CASE left = 1
  <2>1. step' = step + 1 /\ clk' = (clk /\ ~pins'.reset) BY <1>4, Executing
  <2>2. (step = 1 => left' = 2) /\ (step = 2 => left' = 2) BY <1>4, NextInstruction
  <2>3. ~Tidy => ~clk BY <1>1, <1>3, <1>4 DEF Waking
  <2>4. ~Tidy' => step' = 2 /\ left' = 2 /\ high' /\ ~clk'
    <3>1. SUFFICES ASSUME ~Tidy' PROVE step' = 2 /\ left' = 2 /\ high' /\ ~clk'
      OBVIOUS
    <3>2. step = 1 /\ ~clk BY <1>2, <1>3, <2>3, <3>1
    <3>3. step' = 2 /\ left' = 2 BY <2>1, <2>2, <3>2
    <3>4. ~clk' BY <2>1, <3>2
    <3> QED BY <1>1, <3>3, <3>4
  <2>5. ~(step' = 3 /\ left' = 1) /\ step' # 1 BY <1>1, <2>1, <2>2
  <2>6. step' > 3 => Quiet'
    <3>1. CASE step = 3 BY <1>1, <1>2, <1>4, <3>1 DEF Waking
    <3>2. CASE step > 3 BY <1>2, <3>2 DEF Waking
    <3>3. CASE step \in {1, 2} BY <2>1, <3>3
    <3> QED BY <1>1, <3>1, <3>2, <3>3
  <2> QED BY <1>1, <2>4, <2>5, <2>6 DEF Waking
<1>5. CASE left # 1
  <2>1. left = 2 /\ left' = 1 /\ step' = step /\ clk' = clk BY <1>5, Executing
  <2>2. step = 3 => Quiet \/ ~clk BY <1>1 DEF Waking
  <2>3. step > 3 => Quiet BY DEF Waking
  <2> QED BY <1>1, <1>2, <1>3, <2>1, <2>2, <2>3 DEF Waking
<1> QED BY <1>4, <1>5

LEMMA WakingWithTime ==
  ASSUME TypeOK, Placed, Waking, Stall, call.fn = "init"
  PROVE  Waking'
<1>1. ~high /\ high' = TRUE /\ UNCHANGED <<call, step, left, clk, state, lat>>
  BY DEF Stall, cpldVars
<1>2. (Tidy' <=> Tidy) /\ (Quiet' <=> Quiet) BY <1>1 DEF Tidy, Quiet
<1>3. ~Tidy => step = 1 BY <1>1 DEF Waking
<1>4. step = 3 => Quiet \/ ~clk BY <1>1 DEF Waking
<1>5. step > 3 => Quiet BY DEF Waking
<1> QED BY <1>1, <1>2, <1>3, <1>4, <1>5 DEF Waking

LEMMA WakingWithEdges ==
  ASSUME TypeOK, Placed, Pins, Waking, CpldEdge, call.fn = "init"
  PROVE  Waking'
<1>1. /\ high /\ high' = FALSE /\ UNCHANGED <<call, step, left, pins>>
      /\ clk' = (~pins.reset /\ ~clk)
  BY Clocking DEF avrVars
<1>2. /\ step \in Nat \ {0} /\ state \in FsmState
      /\ pins.we \in BOOLEAN /\ pins.oe \in BOOLEAN
  BY DEF TypeOK
<1>3. CASE Toggles
  <2>1. ~clk /\ ~pins.reset /\ state' = FsmNext(state, pins.we, pins.oe)
    BY <1>3, Clocking DEF Toggles
  <2>2. Tidy \/ step <= 2 => Tidy'
    <3> SUFFICES ASSUME Tidy \/ step <= 2, state' = "IDLE"
                 PROVE  lat'.avr = Z /\ lat'.sram = Z
      BY DEF Tidy
    <3>1. CASE state' # state BY <3>1, Clocking
    <3>2. CASE state' = state
      <4>1. lat'.avr = lat.avr /\ lat'.sram = lat.sram BY <3>2, Clocking
      <4>2. Tidy
        <5>1. step <= 2 => ~pins.we BY DEF Pins, Raised
        <5>2. ~pins.we => FsmNext(state, pins.we, pins.oe) # "IDLE"
          BY <3>2 DEF FsmNext
        <5> QED BY <2>1, <5>1, <5>2
      <4> QED BY <3>2, <4>1, <4>2 DEF Tidy
    <3> QED BY <3>1, <3>2
  <2>3. Tidy'
    <3>1. Tidy \/ step <= 2 BY DEF Waking
    <3> QED BY <2>2, <3>1
  <2>4. step > 2 => Quiet'
    <3> SUFFICES ASSUME step > 2 PROVE Quiet'
      OBVIOUS
    <3>1. pins.we /\ pins.oe
      <4>1. step > 1 BY <1>2
      <4> QED BY <4>1 DEF Pins, Raised
    <3>2. state' = "IDLE" BY <2>1, <3>1 DEF FsmNext
    <3> QED BY <2>3, <3>2 DEF Quiet, Tidy
  <2>5. step = 3 \/ step > 3 => step > 2 BY <1>2
  <2> QED BY <1>1, <2>3, <2>4, <2>5 DEF Waking
<1>4. CASE ~Toggles
  <2>1. state' = state /\ ~clk' BY <1>1, <1>4, Clocking DEF Toggles
  <2>2. lat'.avr = lat.avr /\ lat'.sram = lat.sram BY <2>1, Clocking
  <2>3. (Tidy' <=> Tidy) /\ (Quiet' <=> Quiet) BY <2>1, <2>2 DEF Tidy, Quiet
  <2>4. step <= 5 => clk
    <3>1. step <= 5 => ~pins.reset BY DEF Pins, Raised
    <3> QED BY <1>4, <3>1 DEF Toggles
  <2>5. ~Tidy => step = 1
    <3>1. step = 2 => clk BY <2>4
    <3> QED BY <3>1 DEF Waking
  <2>6. step = 3 /\ left = 1 => Quiet
    <3>1. step = 3 => clk BY <2>4
    <3> QED BY <3>1 DEF Waking
  <2>7. step > 3 => Quiet BY DEF Waking
  <2> QED BY <1>1, <2>1, <2>3, <2>5, <2>6, <2>7 DEF Waking
<1> QED BY <1>3, <1>4

LEMMA WakingKept ==
  ASSUME TypeOK, Placed, Pins, Waking, [Next]_vars
  PROVE  Waking'
<1>1. CASE call.fn # "init"
  <2>1. call'.fn # "init"
    <3>1. CASE Call
      <4>1. call'.fn \in IF burst THEN {"burst_put", "burst_end"}
                         ELSE {"read", "write", "burst_start", "en_low"}
        BY <3>1, Starting
      <4> QED BY <4>1
    <3>2. CASE Execute BY <1>1, <3>2, Executing
    <3>3. CASE Stall BY <1>1, <3>3 DEF Stall
    <3>4. CASE CpldEdge BY <1>1, <3>4, Clocking DEF avrVars
    <3>5. CASE UNCHANGED vars BY <1>1, <3>5 DEF vars, avrVars
    <3> QED BY <3>1, <3>2, <3>3, <3>4, <3>5 DEF Next
  <2> QED BY <2>1 DEF Waking
<1>2. CASE call.fn = "init"
  <2>1. CASE Call
    <3>1. call'.fn \in IF burst THEN {"burst_put", "burst_end"}
                       ELSE {"read", "write", "burst_start", "en_low"}
      BY <2>1, Starting
    <3> QED BY <3>1 DEF Waking
  <2>2. CASE Execute BY <1>2, <2>2, WakingWithInstructions
  <2>3. CASE Stall BY <1>2, <2>3, WakingWithTime
  <2>4. CASE CpldEdge BY <1>2, <2>4, WakingWithEdges
  <2>5. CASE UNCHANGED vars
    BY <2>5 DEF vars, avrVars, cpldVars, Waking, Tidy, Quiet
  <2> QED BY <2>1, <2>2, <2>3, <2>4, <2>5 DEF Next
<1> QED BY <1>1, <1>2

LEMMA CalmKept ==
  ASSUME TypeOK, Placed, Pins, Pins', Rested, Calm, Waking, [Next]_vars
  PROVE  Calm'
<1>1. CASE Call
  <2>1. Finished /\ ~Started' /\ UNCHANGED <<pins, state, lat>>
    BY <1>1, Starting DEF Started
  <2>2. CASE call.fn = "init"
    <3>1. step > 3
      <4>1. Len(Code(call)) = 13 BY <2>2, CodeIs, InitIs DEF TypeOK
      <4>2. step > 13 /\ step \in Nat BY <2>1, <4>1 DEF Finished, TypeOK
      <4> QED BY <4>2
    <3>2. Quiet BY <2>2, <3>1 DEF Waking
    <3> QED BY <2>1, <3>2 DEF Quiet, Calm, Clean, Reading, Writing
  <2>3. CASE call.fn # "init"
    BY <2>1, <2>3 DEF Calm, Clean, Reading, Writing
  <2> QED BY <2>2, <2>3
<1>2. CASE Execute
  <2>1. CASE left = 1 BY <1>2, <2>1, InstructionsStayCalm
  <2>2. CASE left # 1
    <3>1. UNCHANGED <<call, pins, step, state, lat>> BY <1>2, <2>2, Executing
    <3> QED BY <3>1 DEF Calm, Clean, Reading, Writing, Started
  <2> QED BY <2>1, <2>2
<1>3. CASE Stall
  BY <1>3 DEF Stall, cpldVars, Calm, Clean, Reading, Writing, Started
<1>4. CASE CpldEdge BY <1>4, EdgesStayCalm
<1>5. CASE UNCHANGED vars
  BY <1>5 DEF vars, avrVars, cpldVars, Calm, Clean, Reading, Writing, Started
<1> QED BY <1>1, <1>2, <1>3, <1>4, <1>5 DEF Next

-----------------------------------------------------------------------------
(* The inductive invariant, and what it gives.                             *)

IInv == TypeOK /\ Placed /\ Pins /\ Leaving /\ Rested /\ Calm /\ Waking

LEMMA IInvStarts == Init => IInv
<1> SUFFICES ASSUME Init PROVE IInv
  OBVIOUS
<1>1. call.fn = "init" /\ ~pins.we /\ ~pins.oe BY DEF Init
<1>2. Leaving /\ Rested /\ Calm BY <1>1 DEF Leaving, Rested, Calm
<1> QED BY <1>2, TypesStart, PinsStart, WakingStarts DEF IInv

LEMMA IInvKept == IInv /\ [Next]_vars => IInv'
<1> SUFFICES ASSUME IInv, [Next]_vars PROVE IInv'
  OBVIOUS
<1>1. TypeOK' /\ Placed' BY TypesKept DEF IInv
<1>2. Pins' BY PinsKept DEF IInv
<1>3. Leaving' /\ Rested' /\ Waking' BY LeavingKept, RestedKept, WakingKept DEF IInv
<1>4. Calm' BY <1>2, CalmKept DEF IInv
<1> QED BY <1>1, <1>2, <1>3, <1>4 DEF IInv

LEMMA IInvIsEnough == IInv => NoContention
<1> SUFFICES ASSUME IInv, call.fn # "init"
             PROVE  /\ ~(AvrDrives /\ lat.avr # Z) /\ ~(SramDrives /\ lat.sram # Z)
                    /\ lat.avr = Z \/ lat.sram = Z
  BY DEF NoContention
<1>1. Clean /\ (pins.out => ~Reading) BY DEF IInv, Calm
<1>2. ~(AvrDrives /\ lat.avr # Z) BY <1>1 DEF AvrDrives, Clean
<1>3. lat.avr = Z \/ lat.sram = Z
  BY <1>1, OneCannotBeBoth DEF Clean, IInv, TypeOK
<1>4. ~(SramDrives /\ lat.sram # Z)
  <2> SUFFICES ASSUME ~pins.oe PROVE ~Writing
    BY <1>1 DEF SramDrives, Clean
  <2>1. call.fn = "read" /\ step # 1 BY DEF IInv, Pins, Strobes
  <2>2. Started BY <2>1 DEF IInv, TypeOK, Started
  <2> QED BY <2>1, <2>2 DEF IInv, Calm
<1> QED BY <1>2, <1>3, <1>4

\* The CPLD and the AVR never drive the data lines between them at once, nor
\* the CPLD and the SRAM theirs, nor the CPLD both: for every width of the
\* address, every byte, every order of reads, writes and bursts, whatever time
\* lies between their instructions, and whatever state the CPLD powers up in.
THEOREM NeverInContention == Spec => []NoContention
<1>1. Init => IInv BY IInvStarts
<1>2. IInv /\ [Next]_vars => IInv' BY IInvKept
<1>3. IInv => NoContention BY IInvIsEnough
<1> QED BY <1>1, <1>2, <1>3, PTL DEF Spec

-----------------------------------------------------------------------------
(* The routines, instruction by instruction.                               *)

Base == 3 * W + 6

\* Concatenation, under a name of its own so that the provers only use the
\* lemma about it.
Cat(s, t) == s \o t

\* What stands where in a concatenation.
LEMMA Appended ==
  ASSUME NEW S, NEW s \in Seq(S), NEW t \in Seq(S)
  PROVE  /\ Cat(s, t) \in Seq(S) /\ Len(Cat(s, t)) = Len(s) + Len(t)
         /\ \A k \in 1..Len(s) : Cat(s, t)[k] = s[k]
         /\ \A k \in 1..Len(t) : Cat(s, t)[Len(s) + k] = t[k]
<1>1. Len(s) \in Nat /\ Len(t) \in Nat BY LenProperties
<1>2. /\ Cat(s, t) \in Seq(S) /\ Len(Cat(s, t)) = Len(s) + Len(t)
      /\ \A i \in 1..Len(s) + Len(t) :
           Cat(s, t)[i] = IF i <= Len(s) THEN s[i] ELSE t[i - Len(s)]
  BY ConcatProperties DEF Cat
<1>3. \A k \in 1..Len(s) : Cat(s, t)[k] = s[k] BY <1>1, <1>2
<1>4. ASSUME NEW k \in 1..Len(t) PROVE Cat(s, t)[Len(s) + k] = t[k]
  <2>1. /\ Len(s) + k \in 1..Len(s) + Len(t) /\ ~(Len(s) + k <= Len(s))
        /\ (Len(s) + k) - Len(s) = k
    BY <1>1
  <2>2. Cat(s, t)[Len(s) + k] = t[(Len(s) + k) - Len(s)] BY <1>2, <2>1
  <2> QED BY <2>1, <2>2
<1> QED BY <1>2, <1>3, <1>4

\* The same for two pieces of program.
LEMMA Following ==
  ASSUME NEW s, NEW t, s \in Seq(Instr), t \in Seq(Instr)
  PROVE  /\ Cat(s, t) \in Seq(Instr) /\ Len(Cat(s, t)) = Len(s) + Len(t)
         /\ \A k \in 1..Len(s) : Cat(s, t)[k] = s[k]
         /\ \A k \in 1..Len(t) : Cat(s, t)[Len(s) + k] = t[k]
<1>1. Cat(s, t) \in Seq(Instr) /\ Len(Cat(s, t)) = Len(s) + Len(t) BY Appended
<1>2. \A k \in 1..Len(s) : Cat(s, t)[k] = s[k] BY Appended
<1>3. \A k \in 1..Len(t) : Cat(s, t)[Len(s) + k] = t[k] BY Appended
<1> QED BY <1>1, <1>2, <1>3

SetBit(a, k) == [pin |-> "si", to |-> a[k - 1], cycles |-> 2]

\* Bit k of an address is passed when k bits are left to pass.
LEMMA SregSetAt ==
  ASSUME NEW a \in Address
  PROVE  /\ SregSet(a)[1] = Sbi("en")
         /\ \A k \in 1..W : /\ SregSet(a)[3 * (W - k) + 2] = SetBit(a, k)
                            /\ SregSet(a)[3 * (W - k) + 3] = Cbi("en")
                            /\ SregSet(a)[3 * (W - k) + 4] = Sbi("en")
<1> DEFINE move(j) == CASE j % 3 = 1 -> [pin |-> "si", to |-> a[W - 1 - j \div 3], cycles |-> 2]
                        [] j % 3 = 2 -> Cbi("en")
                        [] j % 3 = 0 -> Sbi("en")
           moves == [j \in 1..3 * W |-> move(j)]
<1>1. 3 * W \in Nat BY WidthAssumption
<1>2. SregSet(a) = Cat(<<Sbi("en")>>, moves) BY DEF SregSet, Cat
<1>3. moves \in Seq({move(j) : j \in 1..3 * W})
  <2> HIDE DEF move
  <2>1. moves \in [1..3 * W -> {move(j) : j \in 1..3 * W}] OBVIOUS
  <2> QED BY <1>1, <2>1, SeqDef
<1>4. Len(moves) = 3 * W
  <2> HIDE DEF move
  <2> QED BY <1>1, <1>3, LenProperties
<1> DEFINE S == {move(j) : j \in 1..3 * W} \cup {Sbi("en")}
<1>5. moves \in Seq(S) /\ <<Sbi("en")>> \in Seq(S) /\ Len(<<Sbi("en")>>) = 1
  <2> HIDE DEF move, moves
  <2>1. {move(j) : j \in 1..3 * W} \subseteq S OBVIOUS
  <2>2. moves \in Seq(S) BY <1>3, <2>1, SeqMonotonic
  <2> QED BY <2>2
<1>6. \A j \in 1..3 * W : moves[j] = move(j)
  <2> HIDE DEF move
  <2> QED OBVIOUS
<1> HIDE DEF moves, S
<1>7. /\ \A k \in 1..1 : Cat(<<Sbi("en")>>, moves)[k] = <<Sbi("en")>>[k]
      /\ \A k \in 1..3 * W : Cat(<<Sbi("en")>>, moves)[1 + k] = moves[k]
  <2>1. moves \in Seq(S) /\ <<Sbi("en")>> \in Seq(S) BY <1>5
  <2> DEFINE one == <<Sbi("en")>>
  <2>2. Len(one) = 1 BY <1>5
  <2> HIDE DEF one
  <2>7. moves \in Seq(S) /\ one \in Seq(S) BY <2>1 DEF one
  <2>3. \A k \in 1..Len(one) : Cat(one, moves)[k] = one[k] BY <2>7, Appended
  <2>4. \A k \in 1..Len(moves) : Cat(one, moves)[Len(one) + k] = moves[k]
    BY <2>7, Appended
  <2>5. \A k \in 1..1 : Cat(one, moves)[k] = one[k] BY <2>2, <2>3
  <2>6. \A k \in 1..3 * W : Cat(one, moves)[1 + k] = moves[k] BY <1>4, <2>2, <2>4
  <2> QED BY <2>5, <2>6 DEF one
<1>8. SregSet(a)[1] = Sbi("en") BY <1>2, <1>7
<1>9. \A j \in 1..3 * W : SregSet(a)[1 + j] = move(j) BY <1>2, <1>6, <1>7
<1>10. ASSUME NEW k \in 1..W
       PROVE  /\ SregSet(a)[3 * (W - k) + 2] = SetBit(a, k)
              /\ SregSet(a)[3 * (W - k) + 3] = Cbi("en")
              /\ SregSet(a)[3 * (W - k) + 4] = Sbi("en")
  <2> DEFINE j == 3 * (W - k) + 1
  <2>1. /\ j \in 1..3 * W /\ j + 1 \in 1..3 * W /\ j + 2 \in 1..3 * W
        /\ 1 + j = 3 * (W - k) + 2 /\ 1 + (j + 1) = 3 * (W - k) + 3
        /\ 1 + (j + 2) = 3 * (W - k) + 4
    BY WidthAssumption
  <2>2. j % 3 = 1 /\ j \div 3 = W - k /\ (j + 1) % 3 = 2 /\ (j + 2) % 3 = 0
    BY WidthAssumption
  <2>3. W - 1 - (W - k) = k - 1 BY WidthAssumption
  <2> HIDE DEF j
  <2>4. move(j) = SetBit(a, k) BY <2>2, <2>3 DEF SetBit
  <2>5. move(j + 1) = Cbi("en") /\ move(j + 2) = Sbi("en") BY <2>2
  <2> HIDE DEF move
  <2>6. /\ SregSet(a)[1 + j] = move(j) /\ SregSet(a)[1 + (j + 1)] = move(j + 1)
        /\ SregSet(a)[1 + (j + 2)] = move(j + 2)
    BY <1>9, <2>1
  <2> QED BY <2>1, <2>4, <2>5, <2>6
<1> QED BY <1>8, <1>10

\* The waits, written out.
LEMMA NopsAt ==
  /\ Nops(2) = <<Nop, Nop>> /\ Nops(4) = <<Nop, Nop, Nop, Nop>>
  /\ Nops(5) = <<Nop, Nop, Nop, Nop, Nop>>
BY DEF Nops

\* The pieces the routines are put together from are instructions.
LEMMA PartsAreInstr ==
  /\ Neutral \subseteq Instr
  /\ \A v \in BOOLEAN : OutPort("out", v) \in Instr
  /\ \A d \in Data : OutPort("data", d) \in Instr
  /\ Sbi("oe") \in Instr /\ Sbi("we") \in Instr /\ Cbi("oe") \in Instr /\ Cbi("we") \in Instr
  /\ Nop \in Instr /\ In \in Instr /\ Cbi("counter") \in Instr /\ Sbi("counter") \in Instr
<1>1. Neutral \subseteq Instr /\ ReadInstr \subseteq Instr /\ WriteInstr \subseteq Instr
  BY DEF Instr, ReadInstr
<1>2. \A v \in BOOLEAN : OutPort("out", v) \in Instr BY <1>1, InstructionsAre
<1>3. \A d \in Data : OutPort("data", d) \in Instr BY <1>1, ByteIsNeutral
<1> QED BY <1>1, <1>2, <1>3, InstructionsAre

\* The instructions every access begins with, one by one.
LEMMA PrologueAt ==
  ASSUME NEW a \in Address, NEW v \in BOOLEAN
  PROVE  /\ Prologue(v, a) \in Seq(Instr) /\ Len(Prologue(v, a)) = Base
         /\ Prologue(v, a)[1] = OutPort("out", v) /\ Prologue(v, a)[2] = Sbi("en")
         /\ \A k \in 1..W : /\ Prologue(v, a)[3 * (W - k) + 3] = SetBit(a, k)
                            /\ Prologue(v, a)[3 * (W - k) + 4] = Cbi("en")
                            /\ Prologue(v, a)[3 * (W - k) + 5] = Sbi("en")
         /\ Prologue(v, a)[3 * W + 3] = Sbi("oe") /\ Prologue(v, a)[3 * W + 4] = Sbi("we")
         /\ Prologue(v, a)[3 * W + 5] = Nop /\ Prologue(v, a)[3 * W + 6] = Nop
<1> DEFINE first == <<OutPort("out", v)>>
           second == Cat(first, SregSet(a))
           third == Cat(second, BusOff)
<1>0. W \in Nat /\ W > 0 BY WidthAssumption
<1>1. first \in Seq(Instr) /\ Len(first) = 1 /\ first[1] = OutPort("out", v)
  <2>1. OutPort("out", v) \in Instr BY PartsAreInstr
  <2> QED BY <2>1
<1>2. SregSet(a) \in Seq(Instr) /\ Len(SregSet(a)) = 3 * W + 1
  BY SregSetIs, SeqMonotonic, PartsAreInstr
<1>3. BusOff \in Seq(Instr) /\ Len(BusOff) = 2 /\ BusOff[1] = Sbi("oe") /\ BusOff[2] = Sbi("we")
  <2>1. Sbi("oe") \in Instr /\ Sbi("we") \in Instr BY PartsAreInstr
  <2> QED BY <2>1 DEF BusOff
<1>4. Nops(2) \in Seq(Instr) /\ Len(Nops(2)) = 2 /\ Nops(2)[1] = Nop /\ Nops(2)[2] = Nop
  <2>1. <<Nop, Nop>> \in Seq(Instr) /\ Len(<<Nop, Nop>>) = 2
    <3>1. Nop \in Instr BY PartsAreInstr
    <3> QED BY <3>1
  <2>2. <<Nop, Nop>>[1] = Nop /\ <<Nop, Nop>>[2] = Nop OBVIOUS
  <2> QED BY <2>1, <2>2, NopsAt, Zenon
<1> HIDE DEF first
<1>5. /\ second \in Seq(Instr) /\ Len(second) = 1 + (3 * W + 1)
      /\ \A k \in 1..1 : second[k] = first[k]
      /\ \A k \in 1..3 * W + 1 : second[1 + k] = SregSet(a)[k]
  <2>1. first \in Seq(Instr) /\ SregSet(a) \in Seq(Instr) BY <1>1, <1>2
  <2>2. /\ Cat(first, SregSet(a)) \in Seq(Instr)
        /\ Len(Cat(first, SregSet(a))) = Len(first) + Len(SregSet(a))
        /\ \A k \in 1..Len(first) : Cat(first, SregSet(a))[k] = first[k]
        /\ \A k \in 1..Len(SregSet(a)) : Cat(first, SregSet(a))[Len(first) + k] = SregSet(a)[k]
    BY <2>1, Following
  <2>3. Len(first) = 1 /\ Len(SregSet(a)) = 3 * W + 1 BY <1>1, <1>2
  <2> QED BY <1>0, <2>2, <2>3
<1> HIDE DEF second
<1>6. /\ third \in Seq(Instr) /\ Len(third) = (3 * W + 2) + 2
      /\ \A k \in 1..3 * W + 2 : third[k] = second[k]
      /\ \A k \in 1..2 : third[(3 * W + 2) + k] = BusOff[k]
  <2>1. second \in Seq(Instr) /\ BusOff \in Seq(Instr) BY <1>3, <1>5
  <2>2. /\ Cat(second, BusOff) \in Seq(Instr)
        /\ Len(Cat(second, BusOff)) = Len(second) + Len(BusOff)
        /\ \A k \in 1..Len(second) : Cat(second, BusOff)[k] = second[k]
        /\ \A k \in 1..Len(BusOff) : Cat(second, BusOff)[Len(second) + k] = BusOff[k]
    BY <2>1, Following
  <2>3. Len(second) = 3 * W + 2 /\ Len(BusOff) = 2 BY <1>0, <1>3, <1>5
  <2> QED BY <1>0, <2>2, <2>3
<1> HIDE DEF third
<1> DEFINE p == Cat(third, Nops(2))
<1>7. /\ p \in Seq(Instr) /\ Len(p) = (3 * W + 4) + 2
      /\ \A k \in 1..3 * W + 4 : p[k] = third[k]
      /\ \A k \in 1..2 : p[(3 * W + 4) + k] = Nops(2)[k]
  <2>1. third \in Seq(Instr) /\ Nops(2) \in Seq(Instr) BY <1>4, <1>6
  <2>2. /\ Cat(third, Nops(2)) \in Seq(Instr)
        /\ Len(Cat(third, Nops(2))) = Len(third) + Len(Nops(2))
        /\ \A k \in 1..Len(third) : Cat(third, Nops(2))[k] = third[k]
        /\ \A k \in 1..Len(Nops(2)) : Cat(third, Nops(2))[Len(third) + k] = Nops(2)[k]
    BY <2>1, Following
  <2>3. Len(third) = 3 * W + 4 /\ Len(Nops(2)) = 2 BY <1>0, <1>4, <1>6
  <2> QED BY <1>0, <2>2, <2>3
<1>8. Prologue(v, a) = p BY DEF Prologue, p, third, second, first, Cat
<1> HIDE DEF p
<1>9. /\ p[1] = OutPort("out", v) /\ \A k \in 1..3 * W + 1 : p[1 + k] = SregSet(a)[k]
      /\ p[3 * W + 3] = Sbi("oe") /\ p[3 * W + 4] = Sbi("we")
      /\ p[3 * W + 5] = Nop /\ p[3 * W + 6] = Nop /\ Len(p) = 3 * W + 6
  <2>1. \A k \in 1..3 * W + 2 : p[k] = second[k]
    <3> TAKE k \in 1..3 * W + 2
    <3>1. k \in 1..3 * W + 4 BY <1>0
    <3> QED BY <1>6, <1>7, <3>1
  <2>2. p[1] = OutPort("out", v)
    <3>1. 1 \in 1..3 * W + 2 /\ 1 \in 1..1 BY <1>0
    <3> QED BY <1>1, <1>5, <2>1, <3>1
  <2>3. ASSUME NEW k \in 1..3 * W + 1 PROVE p[1 + k] = SregSet(a)[k]
    <3>1. 1 + k \in 1..3 * W + 2 BY <1>0
    <3> QED BY <1>5, <2>1, <3>1
  <2>4. /\ (3 * W + 2) + 1 = 3 * W + 3 /\ (3 * W + 2) + 2 = 3 * W + 4
        /\ (3 * W + 4) + 1 = 3 * W + 5 /\ (3 * W + 4) + 2 = 3 * W + 6
        /\ 3 * W + 3 \in 1..3 * W + 4 /\ 3 * W + 4 \in 1..3 * W + 4
        /\ 1 \in 1..2 /\ 2 \in 1..2
    BY <1>0
  <2>5. p[3 * W + 3] = Sbi("oe") /\ p[3 * W + 4] = Sbi("we")
    BY <1>3, <1>6, <1>7, <2>4
  <2>6. p[3 * W + 5] = Nop /\ p[3 * W + 6] = Nop /\ Len(p) = 3 * W + 6
    BY <1>4, <1>7, <2>4
  <2> QED BY <2>2, <2>3, <2>5, <2>6
<1>10. p[2] = Sbi("en")
  <2>1. 1 \in 1..3 * W + 1 /\ 1 + 1 = 2 BY <1>0
  <2>2. p[1 + 1] = SregSet(a)[1] BY <1>9, <2>1
  <2> QED BY <2>1, <2>2, SregSetAt
<1>11. ASSUME NEW k \in 1..W
       PROVE  /\ p[3 * (W - k) + 3] = SetBit(a, k) /\ p[3 * (W - k) + 4] = Cbi("en")
              /\ p[3 * (W - k) + 5] = Sbi("en")
  <2> DEFINE m == 3 * (W - k)
  <2>1. /\ m + 2 \in 1..3 * W + 1 /\ m + 3 \in 1..3 * W + 1 /\ m + 4 \in 1..3 * W + 1
        /\ 1 + (m + 2) = m + 3 /\ 1 + (m + 3) = m + 4 /\ 1 + (m + 4) = m + 5
    BY <1>0
  <2>2. /\ SregSet(a)[m + 2] = SetBit(a, k) /\ SregSet(a)[m + 3] = Cbi("en")
        /\ SregSet(a)[m + 4] = Sbi("en")
    BY SregSetAt
  <2> HIDE DEF m
  <2>3. /\ p[1 + (m + 2)] = SregSet(a)[m + 2] /\ p[1 + (m + 3)] = SregSet(a)[m + 3]
        /\ p[1 + (m + 4)] = SregSet(a)[m + 4]
    BY <1>9, <2>1
  <2> QED BY <2>1, <2>2, <2>3 DEF m
<1> QED BY <1>7, <1>8, <1>9, <1>10, <1>11 DEF Base

\* A routine is its beginning and the rest of it.
LEMMA Regrouped ==
  ASSUME NEW p \in Seq(Instr), NEW s \in Seq(Instr), NEW t \in Seq(Instr), NEW u \in Seq(Instr)
  PROVE  Cat(Cat(Cat(p, s), t), u) = Cat(p, Cat(Cat(s, t), u))
<1>1. \A x, y, z \in Seq(Instr) : Cat(Cat(x, y), z) = Cat(x, Cat(y, z))
  BY ConcatAssociative, SMTT(60) DEF Cat
<1>2. \A x, y \in Seq(Instr) : Cat(x, y) \in Seq(Instr) BY Appended
<1>3. Cat(s, t) \in Seq(Instr) BY <1>2
<1>4. Cat(Cat(p, s), t) = Cat(p, Cat(s, t)) BY <1>1
<1>5. Cat(Cat(p, Cat(s, t)), u) = Cat(p, Cat(Cat(s, t), u)) BY <1>1, <1>3
<1> QED BY <1>4, <1>5

\* A routine that begins as SRAM_read, SRAM_write and a burst do.
Begins(code, v, a) ==
  /\ code[1] = OutPort("out", v) /\ code[2] = Sbi("en")
  /\ \A k \in 1..W : /\ code[3 * (W - k) + 3] = SetBit(a, k)
                     /\ code[3 * (W - k) + 4] = Cbi("en")
                     /\ code[3 * (W - k) + 5] = Sbi("en")
  /\ code[3 * W + 3] = Sbi("oe") /\ code[3 * W + 4] = Sbi("we")
  /\ code[3 * W + 5] = Nop /\ code[3 * W + 6] = Nop

\* A routine that continues the prologue begins like it.
LEMMA Beginning ==
  ASSUME NEW a \in Address, NEW v \in BOOLEAN, NEW t, t \in Seq(Instr)
  PROVE  /\ Len(Cat(Prologue(v, a), t)) = Base + Len(t)
         /\ Begins(Cat(Prologue(v, a), t), v, a)
         /\ \A k \in 1..Len(t) : Cat(Prologue(v, a), t)[Base + k] = t[k]
<1> DEFINE p == Prologue(v, a)
           c == Cat(p, t)
<1>0. W \in Nat /\ W > 0 BY WidthAssumption
<1>1. p \in Seq(Instr) /\ Len(p) = Base BY PrologueAt
<1>2. p[1] = OutPort("out", v) /\ p[2] = Sbi("en") BY PrologueAt
<1>3. \A k \in 1..W : /\ p[3 * (W - k) + 3] = SetBit(a, k)
                      /\ p[3 * (W - k) + 4] = Cbi("en")
                      /\ p[3 * (W - k) + 5] = Sbi("en")
  BY PrologueAt
<1>4. /\ p[3 * W + 3] = Sbi("oe") /\ p[3 * W + 4] = Sbi("we")
      /\ p[3 * W + 5] = Nop /\ p[3 * W + 6] = Nop
  BY PrologueAt
<1> HIDE DEF p
<1>5. p \in Seq(Instr) BY <1>1
<1>6. Len(c) = Len(p) + Len(t) BY <1>5, Following
<1>7. \A k \in 1..Len(p) : c[k] = p[k] BY <1>5, Following
<1>8. \A k \in 1..Len(t) : c[Len(p) + k] = t[k] BY <1>5, Following
<1> HIDE DEF c
<1>9. \A k \in 1..Base : c[k] = p[k] BY <1>1, <1>7
<1>10. \A k \in 1..Len(t) : c[Base + k] = t[k] BY <1>1, <1>8
<1>11. Begins(c, v, a)
  <2>1. c[1] = p[1] /\ c[2] = p[2] BY <1>0, <1>9 DEF Base
  <2>2. ASSUME NEW k \in 1..W
        PROVE  /\ c[3 * (W - k) + 3] = SetBit(a, k)
               /\ c[3 * (W - k) + 4] = Cbi("en")
               /\ c[3 * (W - k) + 5] = Sbi("en")
    <3> DEFINE m == 3 * (W - k)
    <3>1. m + 3 \in 1..Base /\ m + 4 \in 1..Base /\ m + 5 \in 1..Base
      BY <1>0 DEF Base
    <3>2. p[m + 3] = SetBit(a, k) /\ p[m + 4] = Cbi("en") /\ p[m + 5] = Sbi("en")
      BY <1>3
    <3> HIDE DEF m
    <3>3. c[m + 3] = SetBit(a, k) /\ c[m + 4] = Cbi("en") /\ c[m + 5] = Sbi("en")
      BY <1>9, <3>1, <3>2
    <3> QED BY <3>3 DEF m
  <2>3. /\ c[3 * W + 3] = p[3 * W + 3] /\ c[3 * W + 4] = p[3 * W + 4]
        /\ c[3 * W + 5] = p[3 * W + 5] /\ c[3 * W + 6] = p[3 * W + 6]
    BY <1>0, <1>9 DEF Base
  <2> QED BY <1>2, <1>4, <2>1, <2>2, <2>3 DEF Begins
<1> QED BY <1>1, <1>6, <1>10, <1>11 DEF c, p

\* The arguments of the calls.
LEMMA CallsHold ==
  ASSUME NEW c \in Calls
  PROVE  /\ c.fn \in {"read", "write", "burst_start"} => c.addr \in Address
         /\ c.fn \in {"write", "burst_put"} => c.data \in Data
<1>1. CASE c \in [fn : {"read", "burst_start"}, addr : Address] BY <1>1
<1>2. CASE c \in [fn : {"write"}, addr : Address, data : Data] BY <1>2
<1>3. CASE c \in [fn : {"burst_put"}, data : Data] BY <1>3
<1>4. CASE c \in [fn : {"burst_end", "en_low", "init"}] BY <1>4
<1> QED BY <1>1, <1>2, <1>3, <1>4 DEF Calls

\* The instructions of SRAM_read, by number.
LEMMA ReadAt ==
  ASSUME NEW c \in Calls, c.fn = "read"
  PROVE  /\ Count(c) = Base + 8 /\ Begins(Code(c), FALSE, c.addr)
         /\ Code(c)[Base + 1] = Cbi("oe")
         /\ \A k \in Base + 2..Base + 6 : Code(c)[k] = Nop
         /\ Code(c)[Base + 7] = In /\ Code(c)[Base + 8] = Sbi("oe")
<1> DEFINE p == Prologue(FALSE, c.addr)
           t == (<<Cbi("oe")>> \o <<Nop, Nop, Nop, Nop, Nop>>) \o <<In, Sbi("oe")>>
<1>0. Base \in Nat BY WidthAssumption DEF Base
<1>1. c.addr \in Address BY CallsHold
<1>2. /\ <<Cbi("oe")>> \in Seq(Instr) /\ <<Nop, Nop, Nop, Nop, Nop>> \in Seq(Instr)
      /\ <<In, Sbi("oe")>> \in Seq(Instr) /\ t \in Seq(Instr)
  <2>1. Cbi("oe") \in Instr /\ Nop \in Instr /\ In \in Instr /\ Sbi("oe") \in Instr
    BY PartsAreInstr
  <2> QED BY <2>1
<1>3. p \in Seq(Instr) BY <1>1, PrologueAt
<1>4. Code(c) = ((p \o <<Cbi("oe")>>) \o <<Nop, Nop, Nop, Nop, Nop>>) \o <<In, Sbi("oe")>>
  BY NopsAt DEF Code, ReadCode, Prologue
<1>6. Len(t) = 8 OBVIOUS
<1>7. /\ t[1] = Cbi("oe") /\ t[2] = Nop /\ t[3] = Nop /\ t[4] = Nop /\ t[5] = Nop
      /\ t[6] = Nop /\ t[7] = In /\ t[8] = Sbi("oe")
  OBVIOUS
<1> HIDE DEF p, t
<1>8. Code(c) = Cat(p, t)
  <2>1. (p \o <<Cbi("oe")>>) \o <<Nop, Nop, Nop, Nop, Nop>> \o <<In, Sbi("oe")>> =
          p \o ((<<Cbi("oe")>> \o <<Nop, Nop, Nop, Nop, Nop>>) \o <<In, Sbi("oe")>>)
    <3> DEFINE x == <<Cbi("oe")>>
               y == <<Nop, Nop, Nop, Nop, Nop>>
               z == <<In, Sbi("oe")>>
    <3>1. x \in Seq(Instr) /\ y \in Seq(Instr) /\ z \in Seq(Instr) BY <1>2
    <3> HIDE DEF x, y, z
    <3>2. Cat(Cat(Cat(p, x), y), z) = Cat(p, Cat(Cat(x, y), z))
      BY <1>3, <3>1, Regrouped
    <3> QED BY <3>2, Zenon DEF x, y, z, Cat
  <2> QED BY <1>4, <2>1, Zenon DEF Cat, t
<1>9. t \in Seq(Instr) BY <1>2
<1>10. /\ Len(Code(c)) = Base + Len(t) /\ Begins(Code(c), FALSE, c.addr)
       /\ \A k \in 1..Len(t) : Code(c)[Base + k] = t[k]
  <2>1. Len(Cat(p, t)) = Base + Len(t) BY <1>1, <1>9, Beginning DEF p
  <2>2. Begins(Cat(p, t), FALSE, c.addr) BY <1>1, <1>9, Beginning DEF p
  <2>3. \A k \in 1..Len(t) : Cat(p, t)[Base + k] = t[k] BY <1>1, <1>9, Beginning DEF p
  <2> QED BY <1>8, <2>1, <2>2, <2>3, Zenon
<1>11. \A k \in 1..8 : Code(c)[Base + k] = t[k] BY <1>6, <1>10
<1>12. ASSUME NEW k \in Base + 2..Base + 6 PROVE Code(c)[k] = Nop
  <2>1. k - Base \in {2, 3, 4, 5, 6} /\ k - Base \in 1..8 /\ Base + (k - Base) = k BY <1>0
  <2>2. Code(c)[Base + (k - Base)] = t[k - Base] BY <1>11, <2>1
  <2>3. t[k - Base] = Nop BY <1>7, <2>1
  <2> QED BY <2>1, <2>2, <2>3
<1>13. /\ Code(c)[Base + 1] = t[1] /\ Code(c)[Base + 7] = t[7] /\ Code(c)[Base + 8] = t[8]
  BY <1>11
<1> QED BY <1>6, <1>7, <1>10, <1>12, <1>13 DEF Count

\* The instructions of SRAM_write, by number.
LEMMA WriteAt ==
  ASSUME NEW c \in Calls, c.fn = "write"
  PROVE  /\ Count(c) = Base + 7 /\ Begins(Code(c), TRUE, c.addr)
         /\ Code(c)[Base + 1] = OutPort("data", c.data) /\ Code(c)[Base + 2] = Cbi("we")
         /\ \A k \in Base + 3..Base + 6 : Code(c)[k] = Nop
         /\ Code(c)[Base + 7] = Sbi("we")
<1> DEFINE p == Prologue(TRUE, c.addr)
           out == OutPort("data", c.data)
           t == (<<out, Cbi("we")>> \o <<Nop, Nop, Nop, Nop>>) \o <<Sbi("we")>>
<1>0. Base \in Nat BY WidthAssumption DEF Base
<1>1. c.addr \in Address /\ c.data \in Data BY CallsHold
<1>2. /\ <<out, Cbi("we")>> \in Seq(Instr) /\ <<Nop, Nop, Nop, Nop>> \in Seq(Instr)
      /\ <<Sbi("we")>> \in Seq(Instr) /\ t \in Seq(Instr)
  <2>1. out \in Instr /\ Cbi("we") \in Instr /\ Nop \in Instr /\ Sbi("we") \in Instr
    BY <1>1, PartsAreInstr
  <2> HIDE DEF out
  <2> QED BY <2>1
<1>3. p \in Seq(Instr) BY <1>1, PrologueAt
<1>4. Code(c) = ((p \o <<out, Cbi("we")>>) \o <<Nop, Nop, Nop, Nop>>) \o <<Sbi("we")>>
  BY NopsAt DEF Code, WriteCode, Prologue
<1> HIDE DEF out
<1>6. Len(t) = 7 OBVIOUS
<1>7. /\ t[1] = out /\ t[2] = Cbi("we") /\ t[3] = Nop /\ t[4] = Nop /\ t[5] = Nop
      /\ t[6] = Nop /\ t[7] = Sbi("we")
  OBVIOUS
<1> HIDE DEF p, t
<1>8. Code(c) = Cat(p, t)
  <2>1. (p \o <<out, Cbi("we")>>) \o <<Nop, Nop, Nop, Nop>> \o <<Sbi("we")>> =
          p \o ((<<out, Cbi("we")>> \o <<Nop, Nop, Nop, Nop>>) \o <<Sbi("we")>>)
    <3> DEFINE x == <<out, Cbi("we")>>
               y == <<Nop, Nop, Nop, Nop>>
               z == <<Sbi("we")>>
    <3>1. x \in Seq(Instr) /\ y \in Seq(Instr) /\ z \in Seq(Instr) BY <1>2
    <3> HIDE DEF x, y, z
    <3>2. Cat(Cat(Cat(p, x), y), z) = Cat(p, Cat(Cat(x, y), z))
      BY <1>3, <3>1, Regrouped
    <3> QED BY <3>2, Zenon DEF x, y, z, Cat
  <2> QED BY <1>4, <2>1, Zenon DEF Cat, t
<1>9. t \in Seq(Instr) BY <1>2
<1>10. /\ Len(Code(c)) = Base + Len(t) /\ Begins(Code(c), TRUE, c.addr)
       /\ \A k \in 1..Len(t) : Code(c)[Base + k] = t[k]
  <2>1. Len(Cat(p, t)) = Base + Len(t) BY <1>1, <1>9, Beginning DEF p
  <2>2. Begins(Cat(p, t), TRUE, c.addr) BY <1>1, <1>9, Beginning DEF p
  <2>3. \A k \in 1..Len(t) : Cat(p, t)[Base + k] = t[k] BY <1>1, <1>9, Beginning DEF p
  <2> QED BY <1>8, <2>1, <2>2, <2>3, Zenon
<1>11. \A k \in 1..7 : Code(c)[Base + k] = t[k] BY <1>6, <1>10
<1>12. ASSUME NEW k \in Base + 3..Base + 6 PROVE Code(c)[k] = Nop
  <2>1. k - Base \in {3, 4, 5, 6} /\ k - Base \in 1..7 /\ Base + (k - Base) = k BY <1>0
  <2>2. Code(c)[Base + (k - Base)] = t[k - Base] BY <1>11, <2>1
  <2>3. t[k - Base] = Nop BY <1>7, <2>1
  <2> QED BY <2>1, <2>2, <2>3
<1>13. /\ Code(c)[Base + 1] = t[1] /\ Code(c)[Base + 2] = t[2] /\ Code(c)[Base + 7] = t[7]
  BY <1>11
<1> QED BY <1>6, <1>7, <1>10, <1>12, <1>13 DEF Count, out

\* The instructions of SRAM_burst_start, by number.
LEMMA BurstStartAt ==
  ASSUME NEW c \in Calls, c.fn = "burst_start"
  PROVE  /\ Count(c) = Base + 1 /\ Begins(Code(c), TRUE, c.addr)
         /\ Code(c)[Base + 1] = Cbi("we")
<1> DEFINE t == <<Cbi("we")>>
<1>1. c.addr \in Address BY CallsHold
<1>2. t \in Seq(Instr)
  <2>1. Cbi("we") \in Instr BY PartsAreInstr
  <2> QED BY <2>1
<1>3. Code(c) = Cat(Prologue(TRUE, c.addr), t) BY DEF Code, BurstStartCode, Prologue, Cat
<1>4. Len(t) = 1 /\ t[1] = Cbi("we") OBVIOUS
<1> HIDE DEF t
<1>5. /\ Len(Code(c)) = Base + Len(t) /\ Begins(Code(c), TRUE, c.addr)
      /\ \A k \in 1..Len(t) : Code(c)[Base + k] = t[k]
  <2> DEFINE p == Prologue(TRUE, c.addr)
  <2>1. Len(Cat(p, t)) = Base + Len(t) BY <1>1, <1>2, Beginning
  <2>2. Begins(Cat(p, t), TRUE, c.addr) BY <1>1, <1>2, Beginning
  <2>3. \A k \in 1..Len(t) : Cat(p, t)[Base + k] = t[k] BY <1>1, <1>2, Beginning
  <2> QED BY <1>3, <2>1, <2>2, <2>3, Zenon
<1>6. Code(c)[Base + 1] = t[1] BY <1>4, <1>5
<1> QED BY <1>4, <1>5, <1>6 DEF Count

\* The instructions of a byte of a burst, by number.
LEMMA BurstPutAt ==
  ASSUME NEW c \in Calls, c.fn = "burst_put"
  PROVE  /\ Count(c) = 8 /\ Code(c)[1] = OutPort("data", c.data)
         /\ \A k \in 2..6 : Code(c)[k] = Nop
         /\ Code(c)[7] = Cbi("counter") /\ Code(c)[8] = Sbi("counter")
<1>1. Code(c) = <<OutPort("data", c.data)>> \o <<Nop, Nop, Nop, Nop, Nop>>
                \o <<Cbi("counter"), Sbi("counter")>>
  BY NopsAt DEF Code, BurstPutCode
<1>2. ASSUME NEW k \in 2..6 PROVE Code(c)[k] = Nop
  <2>1. k \in {2, 3, 4, 5, 6} OBVIOUS
  <2>2. /\ Code(c)[2] = Nop /\ Code(c)[3] = Nop /\ Code(c)[4] = Nop /\ Code(c)[5] = Nop
        /\ Code(c)[6] = Nop
    BY <1>1
  <2> QED BY <2>1, <2>2
<1>3. /\ Len(Code(c)) = 8 /\ Code(c)[1] = OutPort("data", c.data)
      /\ Code(c)[7] = Cbi("counter") /\ Code(c)[8] = Sbi("counter")
  BY <1>1
<1> QED BY <1>2, <1>3 DEF Count

\* The instructions of SRAM_burst_end.
LEMMA BurstEndAt ==
  ASSUME NEW c \in Calls, c.fn = "burst_end"
  PROVE  Count(c) = 2 /\ Code(c)[1] = Sbi("oe") /\ Code(c)[2] = Sbi("we")
BY DEF Code, BusOff, Count

\* The instruction between the calls of read_back.
LEMMA EnLowAt ==
  ASSUME NEW c \in Calls, c.fn = "en_low"
  PROVE  Count(c) = 1 /\ Code(c)[1] = Cbi("en")
BY DEF Code, Count

-----------------------------------------------------------------------------
(* The pins, instruction by instruction.                                   *)

\* An instruction moves the one pin it names.
LEMMA PinBecomes ==
  ASSUME NEW q \in PinState, NEW i
  PROVE  /\ After(q, i).en = IF i.pin = "en" THEN i.to ELSE q.en
         /\ After(q, i).counter = IF i.pin = "counter" THEN i.to ELSE q.counter
         /\ After(q, i).si = IF i.pin = "si" THEN i.to ELSE q.si
         /\ After(q, i).data = IF i.pin = "data" THEN i.to ELSE q.data
         /\ After(q, i).we = IF i.pin = "we" THEN i.to ELSE q.we
         /\ After(q, i).oe = IF i.pin = "oe" THEN i.to ELSE q.oe
  BY DEF PinState, After

\* The pin and the level of every instruction.
LEMMA PinNames ==
  /\ \A p \in {"en", "counter", "we", "oe"} :
       /\ Sbi(p).pin = p /\ Sbi(p).to = TRUE /\ Sbi(p).cycles = 2
       /\ Cbi(p).pin = p /\ Cbi(p).to = FALSE /\ Cbi(p).cycles = 2
  /\ \A v : OutPort("out", v).pin = "out"
  /\ \A d : OutPort("data", d).pin = "data" /\ OutPort("data", d).to = d
  /\ \A a, k : SetBit(a, k).pin = "si" /\ SetBit(a, k).to = a[k - 1]
  /\ Nop.pin = "none" /\ In.pin = "in"
BY DEF Sbi, Cbi, OutPort, SetBit, Nop, In

\* The instructions of the prologue, one after the other.
LEMMA WhichOfPrologue ==
  ASSUME NEW k \in 1..Base
  PROVE  \/ k = 1 \/ k = 2 \/ k = 3 * W + 3 \/ k = 3 * W + 4 \/ k = 3 * W + 5 \/ k = 3 * W + 6
         \/ \E b \in 1..W : k \in {3 * (W - b) + 3, 3 * (W - b) + 4, 3 * (W - b) + 5}
<1>0. W \in Nat /\ W > 0 BY WidthAssumption
<1> SUFFICES ASSUME k > 2, k < 3 * W + 3
             PROVE  \E b \in 1..W : k \in {3 * (W - b) + 3, 3 * (W - b) + 4, 3 * (W - b) + 5}
  BY <1>0 DEF Base
<1> DEFINE b == W - ((k - 3) \div 3)
<1>1. k - 3 = 3 * ((k - 3) \div 3) + ((k - 3) % 3) /\ (k - 3) % 3 \in 0..2 BY <1>0
<1>2. (k - 3) \div 3 \in 0..W - 1 BY <1>0, <1>1
<1>3. b \in 1..W /\ W - b = (k - 3) \div 3 BY <1>0, <1>2
<1>4. k \in {3 * (W - b) + 3, 3 * (W - b) + 4, 3 * (W - b) + 5} BY <1>0, <1>1, <1>2, <1>3
<1> QED BY <1>3, <1>4

\* The prologue only raises strobes, and leaves the counter alone.
LEMMA PrologueInstructions ==
  ASSUME NEW code, NEW v, NEW a, Begins(code, v, a), NEW k \in 1..Base
  PROVE  /\ code[k].pin \in {"out", "en", "si", "oe", "we", "none"}
         /\ code[k].pin \in {"oe", "we"} => code[k].to = TRUE
         /\ k > 3 * W + 2 => code[k].pin \in {"oe", "we", "none"}
<1>0. W \in Nat /\ W > 0 BY WidthAssumption
<1>1. CASE k = 1 BY <1>0, <1>1, PinNames DEF Begins
<1>2. CASE k = 2 BY <1>0, <1>2, PinNames DEF Begins
<1>3. CASE k = 3 * W + 3 \/ k = 3 * W + 4 BY <1>3, PinNames DEF Begins
<1>4. CASE k = 3 * W + 5 \/ k = 3 * W + 6 BY <1>4, PinNames DEF Begins
<1>5. ASSUME NEW b \in 1..W, k \in {3 * (W - b) + 3, 3 * (W - b) + 4, 3 * (W - b) + 5}
      PROVE  code[k].pin \in {"en", "si"} /\ ~(k > 3 * W + 2)
  <2>1. ~(k > 3 * W + 2) BY <1>0, <1>5
  <2>2. code[k] \in {SetBit(a, b), Cbi("en"), Sbi("en")} BY <1>5 DEF Begins
  <2> QED BY <2>1, <2>2, PinNames
<1> QED BY <1>1, <1>2, <1>3, <1>4, <1>5, WhichOfPrologue

Addressed == call.fn \in {"read", "write", "burst_start"}

\* The pins of the register while an address is passed to it.
Addressing ==
  Addressed =>
    /\ pins.counter
    /\ step > 2 => (pins.en <=> \A k \in 1..W : step # 3 * (W - k) + 5)
    /\ \A k \in 1..W : step \in {3 * (W - k) + 4, 3 * (W - k) + 5} =>
         pins.si = call.addr[k - 1]

\* The strobes, the counter and the byte on the port.
Levels ==
  /\ call.fn = "read" => (pins.oe <=> step \notin Base + 2..Base + 8)
  /\ call.fn = "write" => /\ pins.we <=> step \notin Base + 3..Base + 7
                          /\ step > Base + 1 => pins.data = call.data
  /\ call.fn = "burst_start" => (pins.we <=> step <= Base + 1)
  /\ call.fn = "burst_put" => /\ pins.en /\ (pins.counter <=> step # 8) /\ ~pins.we
                              /\ step > 1 => pins.data = call.data
  /\ call.fn = "burst_end" => pins.en /\ pins.counter /\ (pins.we <=> step > 2)
  /\ call.fn = "en_low" => pins.counter
  /\ call.fn = "init" /\ step > 4 => pins.counter

Wires == Addressing /\ Levels

\* A routine that passes an address, and how long it is.
LEMMA AddressedAt ==
  ASSUME NEW c \in Calls, c.fn \in {"read", "write", "burst_start"}
  PROVE  /\ \E v : Begins(Code(c), v, c.addr)
         /\ Count(c) = IF c.fn = "read" THEN Base + 8
                       ELSE IF c.fn = "write" THEN Base + 7 ELSE Base + 1
         /\ \A k \in Base + 1..Count(c) : Code(c)[k].pin \notin {"en", "counter", "si"}
<1>0. Base \in Nat BY WidthAssumption DEF Base
<1>1. CASE c.fn = "read"
  <2>1. /\ Count(c) = Base + 8 /\ Begins(Code(c), FALSE, c.addr)
        /\ Code(c)[Base + 1] = Cbi("oe") /\ Code(c)[Base + 7] = In
        /\ \A k \in Base + 2..Base + 6 : Code(c)[k] = Nop
        /\ Code(c)[Base + 8] = Sbi("oe")
    BY <1>1, ReadAt
  <2>2. ASSUME NEW k \in Base + 1..Base + 8
        PROVE  Code(c)[k].pin \notin {"en", "counter", "si"}
    <3>1. k = Base + 1 \/ k \in Base + 2..Base + 6 \/ k = Base + 7 \/ k = Base + 8 BY <1>0
    <3>2. Code(c)[k] \in {Cbi("oe"), Nop, In, Sbi("oe")} BY <2>1, <3>1
    <3> QED BY <3>2, PinNames
  <2> QED BY <1>1, <2>1, <2>2
<1>2. CASE c.fn = "write"
  <2>1. /\ Count(c) = Base + 7 /\ Begins(Code(c), TRUE, c.addr)
        /\ Code(c)[Base + 1] = OutPort("data", c.data) /\ Code(c)[Base + 2] = Cbi("we")
        /\ \A k \in Base + 3..Base + 6 : Code(c)[k] = Nop
        /\ Code(c)[Base + 7] = Sbi("we")
    BY <1>2, WriteAt
  <2>2. ASSUME NEW k \in Base + 1..Base + 7
        PROVE  Code(c)[k].pin \notin {"en", "counter", "si"}
    <3>1. k = Base + 1 \/ k = Base + 2 \/ k \in Base + 3..Base + 6 \/ k = Base + 7 BY <1>0
    <3>2. Code(c)[k] \in {OutPort("data", c.data), Cbi("we"), Nop, Sbi("we")} BY <2>1, <3>1
    <3> QED BY <3>2, PinNames
  <2> QED BY <1>2, <2>1, <2>2
<1>3. CASE c.fn = "burst_start"
  <2>1. /\ Count(c) = Base + 1 /\ Begins(Code(c), TRUE, c.addr)
        /\ Code(c)[Base + 1] = Cbi("we")
    BY <1>3, BurstStartAt
  <2>2. ASSUME NEW k \in Base + 1..Base + 1
        PROVE  Code(c)[k].pin \notin {"en", "counter", "si"}
    <3>1. k = Base + 1 BY <1>0
    <3> QED BY <2>1, <3>1, PinNames
  <2> QED BY <1>3, <2>1, <2>2
<1> QED BY <1>1, <1>2, <1>3

\* The end of an instruction, pin by pin.
LEMMA PinsMove ==
  ASSUME TypeOK, Placed, Execute, left = 1
  PROVE  LET i == Code(call)[step]
         IN /\ step' = step + 1 /\ call' = call /\ step \in 1..Count(call)
            /\ pins'.en = IF i.pin = "en" THEN i.to ELSE pins.en
            /\ pins'.counter = IF i.pin = "counter" THEN i.to ELSE pins.counter
            /\ pins'.si = IF i.pin = "si" THEN i.to ELSE pins.si
            /\ pins'.data = IF i.pin = "data" THEN i.to ELSE pins.data
            /\ pins'.we = IF i.pin = "we" THEN i.to ELSE pins.we
            /\ pins'.oe = IF i.pin = "oe" THEN i.to ELSE pins.oe
<1>1. pins \in PinState BY DEF TypeOK, PinState
<1>2. step' = step + 1 /\ call' = call /\ step \in 1..Count(call) BY Executing
<1>3. pins' = After(pins, Code(call)[step]) BY Executing
<1> QED BY <1>1, <1>2, <1>3, PinBecomes

\* Below the lengths of the prologue the numbers of the pulses are apart.
LEMMA Apart ==
  ASSUME NEW j \in 1..W, NEW k \in 1..W
  PROVE  /\ 3 * (W - j) + 3 # 3 * (W - k) + 4 /\ 3 * (W - j) + 3 # 3 * (W - k) + 5
         /\ 3 * (W - j) + 4 # 3 * (W - k) + 5
         /\ 3 * (W - j) + 3 = 3 * (W - k) + 3 => j = k
         /\ 3 * (W - j) + 4 = 3 * (W - k) + 4 => j = k
         /\ 3 * (W - j) + 5 = 3 * (W - k) + 5 => j = k
         /\ 3 * (W - j) + 6 # 3 * (W - k) + 4 /\ 3 * (W - j) + 6 # 3 * (W - k) + 5
         /\ 3 * (W - k) + 5 < 3 * W + 3 /\ 3 * (W - k) + 3 > 2
BY WidthAssumption

\* The end of an instruction while an address is passed.
LEMMA AddressingMoves ==
  ASSUME TypeOK, Placed, Addressing, Execute, left = 1, Addressed
  PROVE  Addressing'
<1> DEFINE i == Code(call)[step]
<1>0. W \in Nat /\ W > 0 /\ Base = 3 * W + 6 BY WidthAssumption DEF Base
<1>1. /\ step' = step + 1 /\ call' = call /\ step \in 1..Count(call)
      /\ pins'.en = (IF i.pin = "en" THEN i.to ELSE pins.en)
      /\ pins'.counter = (IF i.pin = "counter" THEN i.to ELSE pins.counter)
      /\ pins'.si = (IF i.pin = "si" THEN i.to ELSE pins.si)
  BY PinsMove
<1>2. /\ pins.counter /\ (step > 2 => (pins.en <=> \A k \in 1..W : step # 3 * (W - k) + 5))
      /\ \A k \in 1..W : step \in {3 * (W - k) + 4, 3 * (W - k) + 5} =>
           pins.si = call.addr[k - 1]
      /\ pins.en \in BOOLEAN
  BY DEF Addressing, TypeOK
<1>3. /\ \E v : Begins(Code(call), v, call.addr)
      /\ \A k \in Base + 1..Count(call) : Code(call)[k].pin \notin {"en", "counter", "si"}
  BY AddressedAt DEF TypeOK, Addressed
<1>4. PICK v : Begins(Code(call), v, call.addr) BY <1>3
<1>5. \A k \in 1..Base : Code(call)[k].pin # "counter" BY <1>4, PrologueInstructions
<1>6. step \in Nat /\ step >= 1 BY <1>1
<1>7. pins'.counter
  <2>1. i.pin # "counter" BY <1>0, <1>1, <1>3, <1>5
  <2> QED BY <1>1, <1>2, <2>1
<1>8. \A j \in 1..W, k \in 1..W :
        /\ 3 * (W - j) + 3 # 3 * (W - k) + 4 /\ 3 * (W - j) + 3 # 3 * (W - k) + 5
        /\ 3 * (W - j) + 4 # 3 * (W - k) + 5
        /\ 3 * (W - j) + 3 = 3 * (W - k) + 3 => j = k
        /\ 3 * (W - j) + 4 = 3 * (W - k) + 4 => j = k
        /\ 3 * (W - j) + 5 = 3 * (W - k) + 5 => j = k
        /\ 3 * (W - j) + 6 # 3 * (W - k) + 4 /\ 3 * (W - j) + 6 # 3 * (W - k) + 5
        /\ 3 * (W - k) + 5 < 3 * W + 3 /\ 3 * (W - k) + 3 > 2
  BY Apart
<1> SUFFICES /\ step' > 2 => (pins'.en <=> \A k \in 1..W : step' # 3 * (W - k) + 5)
             /\ \A k \in 1..W : step' \in {3 * (W - k) + 4, 3 * (W - k) + 5} =>
                  pins'.si = call.addr[k - 1]
  BY <1>1, <1>7 DEF Addressing
<1>9. CASE step = 1
  <2>1. ~(step' > 2) BY <1>1, <1>9
  <2>2. \A k \in 1..W : step' \notin {3 * (W - k) + 4, 3 * (W - k) + 5}
    BY <1>0, <1>1, <1>9
  <2> QED BY <2>1, <2>2
<1>10. CASE step = 2
  <2>1. i = Sbi("en") BY <1>4, <1>10 DEF Begins
  <2>2. pins'.en = TRUE BY <1>1, <2>1, PinNames
  <2>3. \A k \in 1..W : step' \notin {3 * (W - k) + 4, 3 * (W - k) + 5}
    BY <1>0, <1>1, <1>10
  <2> QED BY <2>2, <2>3
<1>11. ASSUME NEW b \in 1..W, step = 3 * (W - b) + 3
       PROVE  /\ pins'.en <=> \A k \in 1..W : step' # 3 * (W - k) + 5
              /\ \A k \in 1..W : step' \in {3 * (W - k) + 4, 3 * (W - k) + 5} =>
                   pins'.si = call.addr[k - 1]
  <2>1. i = SetBit(call.addr, b) BY <1>4, <1>11 DEF Begins
  <2>2. pins'.en = pins.en /\ pins'.si = call.addr[b - 1] BY <1>1, <2>1, PinNames
  <2>3. step' = 3 * (W - b) + 4 BY <1>0, <1>1, <1>11
  <2>4. step > 2 /\ \A k \in 1..W : step # 3 * (W - k) + 5 BY <1>8, <1>11
  <2>5. pins.en BY <1>2, <2>4
  <2>6. \A k \in 1..W : step' # 3 * (W - k) + 5 BY <1>8, <2>3
  <2>7. \A k \in 1..W : step' = 3 * (W - k) + 4 => k = b BY <1>8, <2>3
  <2> QED BY <2>2, <2>5, <2>6, <2>7
<1>12. ASSUME NEW b \in 1..W, step = 3 * (W - b) + 4
       PROVE  /\ pins'.en <=> \A k \in 1..W : step' # 3 * (W - k) + 5
              /\ \A k \in 1..W : step' \in {3 * (W - k) + 4, 3 * (W - k) + 5} =>
                   pins'.si = call.addr[k - 1]
  <2>1. i = Cbi("en") BY <1>4, <1>12 DEF Begins
  <2>2. pins'.en = FALSE /\ pins'.si = pins.si BY <1>1, <2>1, PinNames
  <2>3. step' = 3 * (W - b) + 5 BY <1>0, <1>1, <1>12
  <2>4. \A k \in 1..W : step' = 3 * (W - k) + 5 => k = b BY <1>8, <2>3
  <2>5. \A k \in 1..W : step' # 3 * (W - k) + 4 BY <1>8, <2>3
  <2>6. pins.si = call.addr[b - 1] BY <1>2, <1>12
  <2> QED BY <2>2, <2>3, <2>4, <2>5, <2>6
<1>13. ASSUME NEW b \in 1..W, step = 3 * (W - b) + 5
       PROVE  /\ pins'.en <=> \A k \in 1..W : step' # 3 * (W - k) + 5
              /\ \A k \in 1..W : step' \in {3 * (W - k) + 4, 3 * (W - k) + 5} =>
                   pins'.si = call.addr[k - 1]
  <2>1. i = Sbi("en") BY <1>4, <1>13 DEF Begins
  <2>2. pins'.en = TRUE BY <1>1, <2>1, PinNames
  <2>3. step' = 3 * (W - b) + 6 BY <1>0, <1>1, <1>13
  <2>4. \A k \in 1..W : step' # 3 * (W - k) + 5 /\ step' # 3 * (W - k) + 4 BY <1>8, <2>3
  <2> QED BY <2>2, <2>4
<1>14. CASE step > 3 * W + 2
  <2>1. i.pin \notin {"en", "si"}
    <3>1. CASE step \in 1..Base BY <1>4, <1>14, <3>1, PrologueInstructions
    <3>2. CASE step \notin 1..Base
      <4>1. step \in Base + 1..Count(call) BY <1>0, <1>1, <1>6, <3>2
      <4> QED BY <1>3, <4>1
    <3> QED BY <3>1, <3>2
  <2>2. pins'.en = pins.en BY <1>1, <2>1
  <2>3. \A k \in 1..W : /\ step # 3 * (W - k) + 5
                        /\ step' # 3 * (W - k) + 5 /\ step' # 3 * (W - k) + 4
    BY <1>0, <1>1, <1>14
  <2>4. step > 2 BY <1>0, <1>6, <1>14
  <2> QED BY <1>2, <2>2, <2>3, <2>4
<1>15. \/ step = 1 \/ step = 2 \/ step > 3 * W + 2
       \/ \E b \in 1..W : step \in {3 * (W - b) + 3, 3 * (W - b) + 4, 3 * (W - b) + 5}
  <2>1. CASE step \in 1..Base
    <3>1. 3 * W + 3 > 3 * W + 2 /\ 3 * W + 4 > 3 * W + 2 /\ 3 * W + 5 > 3 * W + 2
          /\ 3 * W + 6 > 3 * W + 2
      BY <1>0
    <3> QED BY <2>1, <3>1, WhichOfPrologue
  <2>2. CASE step \notin 1..Base BY <1>0, <1>6, <2>2
  <2> QED BY <2>1, <2>2
<1> QED BY <1>9, <1>10, <1>11, <1>12, <1>13, <1>14, <1>15

\* The end of an instruction of any routine.
LEMMA LevelsMove ==
  ASSUME TypeOK, Placed, Pins, Levels, Execute, left = 1
  PROVE  Levels'
<1> DEFINE i == Code(call)[step]
<1>0. W \in Nat /\ W > 0 /\ Base = 3 * W + 6 BY WidthAssumption DEF Base
<1>1. /\ step' = step + 1 /\ call' = call /\ step \in 1..Count(call)
      /\ pins'.en = (IF i.pin = "en" THEN i.to ELSE pins.en)
      /\ pins'.counter = (IF i.pin = "counter" THEN i.to ELSE pins.counter)
      /\ pins'.data = (IF i.pin = "data" THEN i.to ELSE pins.data)
      /\ pins'.we = (IF i.pin = "we" THEN i.to ELSE pins.we)
      /\ pins'.oe = (IF i.pin = "oe" THEN i.to ELSE pins.oe)
  BY PinsMove
<1>2. /\ call \in Calls /\ step \in Nat /\ step >= 1
      /\ pins.we \in BOOLEAN /\ pins.oe \in BOOLEAN /\ pins.en \in BOOLEAN
      /\ pins.counter \in BOOLEAN
  BY DEF TypeOK
<1> HIDE DEF i
<1>3. CASE call.fn = "read"
  <2>1. pins.oe <=> step \notin Base + 2..Base + 8 BY <1>3 DEF Levels
  <2>2. /\ Count(call) = Base + 8 /\ Begins(Code(call), FALSE, call.addr)
        /\ Code(call)[Base + 1] = Cbi("oe") /\ Code(call)[Base + 7] = In
        /\ \A k \in Base + 2..Base + 6 : Code(call)[k] = Nop
        /\ Code(call)[Base + 8] = Sbi("oe")
    BY <1>2, <1>3, ReadAt
  <2>3. pins'.oe <=> step' \notin Base + 2..Base + 8
    <3>1. CASE step \in 1..Base
      <4>1. i.pin = "oe" => i.to = TRUE BY <2>2, <3>1, PrologueInstructions DEF i
      <4>2. step \notin Base + 2..Base + 8 /\ step' \notin Base + 2..Base + 8
        BY <1>0, <1>1, <3>1
      <4> QED BY <1>1, <2>1, <4>1, <4>2
    <3>2. CASE step = Base + 1
      <4>1. i.pin = "oe" /\ i.to = FALSE BY <2>2, <3>2, PinNames DEF i
      <4>2. step' \in Base + 2..Base + 8 BY <1>0, <1>1, <3>2
      <4> QED BY <1>1, <4>1, <4>2
    <3>3. CASE step \in Base + 2..Base + 7
      <4>1. i = Nop \/ i = In
        <5>1. step \in Base + 2..Base + 6 \/ step = Base + 7 BY <1>0, <3>3
        <5> QED BY <2>2, <5>1 DEF i
      <4>2. i.pin # "oe" BY <4>1, PinNames
      <4>3. step \in Base + 2..Base + 8 /\ step' \in Base + 2..Base + 8 BY <1>0, <1>1, <3>3
      <4> QED BY <1>1, <2>1, <4>2, <4>3
    <3>4. CASE step = Base + 8
      <4>1. i.pin = "oe" /\ i.to = TRUE BY <2>2, <3>4, PinNames DEF i
      <4>2. step' \notin Base + 2..Base + 8 BY <1>0, <1>1, <3>4
      <4> QED BY <1>1, <4>1, <4>2
    <3> QED BY <1>0, <1>1, <2>2, <3>1, <3>2, <3>3, <3>4
  <2> QED BY <1>1, <1>3, <2>3 DEF Levels
<1>4. CASE call.fn = "write"
  <2>1. /\ pins.we <=> step \notin Base + 3..Base + 7
        /\ step > Base + 1 => pins.data = call.data
    BY <1>4 DEF Levels
  <2>2. /\ Count(call) = Base + 7 /\ Begins(Code(call), TRUE, call.addr)
        /\ Code(call)[Base + 1] = OutPort("data", call.data) /\ Code(call)[Base + 2] = Cbi("we")
        /\ \A k \in Base + 3..Base + 6 : Code(call)[k] = Nop
        /\ Code(call)[Base + 7] = Sbi("we")
    BY <1>2, <1>4, WriteAt
  <2>3. /\ pins'.we <=> step' \notin Base + 3..Base + 7
        /\ step' > Base + 1 => pins'.data = call.data
    <3>1. CASE step \in 1..Base
      <4>1. i.pin = "we" => i.to = TRUE BY <2>2, <3>1, PrologueInstructions DEF i
      <4>2. step \notin Base + 3..Base + 7 /\ step' \notin Base + 3..Base + 7
            /\ ~(step' > Base + 1)
        BY <1>0, <1>1, <3>1
      <4> QED BY <1>1, <2>1, <4>1, <4>2
    <3>2. CASE step = Base + 1
      <4>1. i.pin = "data" /\ i.to = call.data BY <2>2, <3>2, PinNames DEF i
      <4>2. step \notin Base + 3..Base + 7 /\ step' \notin Base + 3..Base + 7
        BY <1>0, <1>1, <3>2
      <4> QED BY <1>1, <2>1, <4>1, <4>2
    <3>3. CASE step = Base + 2
      <4>1. i.pin = "we" /\ i.to = FALSE BY <2>2, <3>3, PinNames DEF i
      <4>2. step' \in Base + 3..Base + 7 /\ step > Base + 1 BY <1>0, <1>1, <3>3
      <4> QED BY <1>1, <2>1, <4>1, <4>2
    <3>4. CASE step \in Base + 3..Base + 6
      <4>1. i.pin = "none" BY <2>2, <3>4, PinNames DEF i
      <4>2. step \in Base + 3..Base + 7 /\ step' \in Base + 3..Base + 7 /\ step > Base + 1
        BY <1>0, <1>1, <3>4
      <4> QED BY <1>1, <2>1, <4>1, <4>2
    <3>5. CASE step = Base + 7
      <4>1. i.pin = "we" /\ i.to = TRUE BY <2>2, <3>5, PinNames DEF i
      <4>2. step' \notin Base + 3..Base + 7 /\ step > Base + 1 BY <1>0, <1>1, <3>5
      <4> QED BY <1>1, <2>1, <4>1, <4>2
    <3> QED BY <1>0, <1>1, <2>2, <3>1, <3>2, <3>3, <3>4, <3>5
  <2> QED BY <1>1, <1>4, <2>3 DEF Levels
<1>5. CASE call.fn = "burst_start"
  <2>1. pins.we <=> step <= Base + 1 BY <1>5 DEF Levels
  <2>2. /\ Count(call) = Base + 1 /\ Begins(Code(call), TRUE, call.addr)
        /\ Code(call)[Base + 1] = Cbi("we")
    BY <1>2, <1>5, BurstStartAt
  <2>3. pins'.we <=> step' <= Base + 1
    <3>1. CASE step \in 1..Base
      <4>1. i.pin = "we" => i.to = TRUE BY <2>2, <3>1, PrologueInstructions DEF i
      <4>2. step <= Base + 1 /\ step' <= Base + 1 BY <1>0, <1>1, <3>1
      <4> QED BY <1>1, <2>1, <4>1, <4>2
    <3>2. CASE step = Base + 1
      <4>1. i.pin = "we" /\ i.to = FALSE BY <2>2, <3>2, PinNames DEF i
      <4>2. ~(step' <= Base + 1) BY <1>0, <1>1, <3>2
      <4> QED BY <1>1, <4>1, <4>2
    <3> QED BY <1>0, <1>1, <2>2, <3>1, <3>2
  <2> QED BY <1>1, <1>5, <2>3 DEF Levels
<1>6. CASE call.fn = "burst_put"
  <2>1. /\ pins.en /\ (pins.counter <=> step # 8) /\ ~pins.we
        /\ step > 1 => pins.data = call.data
    BY <1>6 DEF Levels
  <2>2. /\ Count(call) = 8 /\ Code(call)[1] = OutPort("data", call.data)
        /\ \A k \in 2..6 : Code(call)[k] = Nop
        /\ Code(call)[7] = Cbi("counter") /\ Code(call)[8] = Sbi("counter")
    BY <1>2, <1>6, BurstPutAt
  <2>3. /\ pins'.en /\ (pins'.counter <=> step' # 8) /\ ~pins'.we
        /\ step' > 1 => pins'.data = call.data
    <3>1. CASE step = 1
      <4>1. i.pin = "data" /\ i.to = call.data BY <2>2, <3>1, PinNames DEF i
      <4> QED BY <1>1, <2>1, <3>1, <4>1
    <3>2. CASE step \in 2..6
      <4>1. i.pin = "none" BY <2>2, <3>2, PinNames DEF i
      <4>2. step > 1 /\ step # 8 /\ step' # 8 BY <1>1, <3>2
      <4> QED BY <1>1, <2>1, <4>1, <4>2
    <3>3. CASE step = 7
      <4>1. i.pin = "counter" /\ i.to = FALSE BY <2>2, <3>3, PinNames DEF i
      <4> QED BY <1>1, <2>1, <3>3, <4>1
    <3>4. CASE step = 8
      <4>1. i.pin = "counter" /\ i.to = TRUE BY <2>2, <3>4, PinNames DEF i
      <4> QED BY <1>1, <2>1, <3>4, <4>1
    <3>5. step = 1 \/ step \in 2..6 \/ step = 7 \/ step = 8 BY <1>1, <2>2
    <3> QED BY <3>1, <3>2, <3>3, <3>4, <3>5
  <2> QED BY <1>1, <1>6, <2>3 DEF Levels
<1>7. CASE call.fn = "burst_end"
  <2>1. pins.en /\ pins.counter /\ (pins.we <=> step > 2) BY <1>7 DEF Levels
  <2>2. Count(call) = 2 /\ Code(call)[1] = Sbi("oe") /\ Code(call)[2] = Sbi("we")
    BY <1>2, <1>7, BurstEndAt
  <2>3. pins'.en /\ pins'.counter /\ (pins'.we <=> step' > 2)
    <3>1. CASE step = 1
      <4>1. i.pin = "oe" BY <2>2, <3>1, PinNames DEF i
      <4> QED BY <1>1, <2>1, <3>1, <4>1
    <3>2. CASE step = 2
      <4>1. i.pin = "we" /\ i.to = TRUE BY <2>2, <3>2, PinNames DEF i
      <4> QED BY <1>1, <2>1, <3>2, <4>1
    <3>3. step = 1 \/ step = 2 BY <1>1, <2>2
    <3> QED BY <3>1, <3>2, <3>3
  <2> QED BY <1>1, <1>7, <2>3 DEF Levels
<1>8. CASE call.fn = "en_low"
  <2>1. Count(call) = 1 /\ Code(call)[1] = Cbi("en") BY <1>2, <1>8, EnLowAt
  <2>2. step = 1 BY <1>1, <2>1
  <2>3. i.pin = "en" BY <2>1, <2>2, PinNames DEF i
  <2>4. pins.counter BY <1>8 DEF Levels
  <2>5. pins'.counter BY <1>1, <2>3, <2>4
  <2> QED BY <1>1, <1>8, <2>5 DEF Levels
<1>9. CASE call.fn = "init"
  <2>1. Code(call) = InitCode /\ Count(call) = 13
    BY <1>2, <1>9, CodeIs, InitIs DEF Count
  <2>2. step \in {1, 2, 3, 4, 5, 6, 7, 8, 9, 10, 11, 12, 13} BY <1>1, <2>1
  <2>3. step' > 4 => pins'.counter
    <3>1. CASE step = 4
      <4>1. i = Sbi("counter") BY <2>1, <3>1, InitIs DEF i
      <4>2. i.pin = "counter" /\ i.to = TRUE BY <4>1, PinNames
      <4> QED BY <1>1, <4>2
    <3>2. CASE step > 4
      <4>1. i.pin # "counter"
        <5>1. step \in {5, 6, 7, 8, 9, 10, 11, 12, 13} BY <2>2, <3>2
        <5> QED BY <2>1, <5>1, InitIs DEF i, Sbi, Cbi, Nop
      <4>2. pins.counter BY <1>9, <3>2 DEF Levels
      <4> QED BY <1>1, <4>1, <4>2
    <3>3. CASE step < 4 BY <1>1, <1>2, <3>3
    <3> QED BY <1>2, <3>1, <3>2, <3>3
  <2> QED BY <1>1, <1>9, <2>3 DEF Levels
<1>10. call.fn \in {"read", "write", "burst_start", "burst_put", "burst_end", "en_low", "init"}
  BY <1>2 DEF Calls
<1> QED BY <1>3, <1>4, <1>5, <1>6, <1>7, <1>8, <1>9, <1>10

\* The register's pins between two calls.
LEMMA RegisterAtRest ==
  ASSUME TypeOK, Placed, Pins, Wires, Finished
  PROVE  pins.counter /\ (burst => pins.en /\ ~pins.we)
<1>0. W \in Nat /\ W > 0 /\ Base = 3 * W + 6 BY WidthAssumption DEF Base
<1>1. call \in Calls /\ step \in Nat /\ Count(call) \in Nat /\ step = Count(call) + 1
  BY CodeIs DEF TypeOK, Placed, Finished, Count
<1>2. CASE Addressed
  <2>1. pins.counter BY <1>2 DEF Wires, Addressing
  <2>2. burst => call.fn = "burst_start"
    BY <1>2 DEF Pins, Bursting, Addressed
  <2>3. ASSUME call.fn = "burst_start" PROVE pins.en /\ ~pins.we
    <3>1. step = Base + 2
      <4>1. Count(call) = Base + 1 BY <1>1, <2>3, BurstStartAt
      <4> QED BY <1>0, <1>1, <4>1
    <3>2. step > 2 /\ ~(step <= Base + 1) /\ \A k \in 1..W : step # 3 * (W - k) + 5
      BY <1>0, <3>1
    <3> QED BY <1>2, <2>3, <3>2 DEF Wires, Addressing, Levels
  <2> QED BY <2>1, <2>2, <2>3
<1>3. CASE call.fn = "burst_put"
  <2>1. step = 9 BY <1>1, <1>3, BurstPutAt
  <2> QED BY <1>3, <2>1 DEF Wires, Levels
<1>4. CASE call.fn \in {"burst_end", "en_low"}
  <2>1. ~burst BY <1>4 DEF Pins, Bursting
  <2> QED BY <1>4, <2>1 DEF Wires, Levels
<1>5. CASE call.fn = "init"
  <2>1. Count(call) = 13 BY <1>1, <1>5, CodeIs, InitIs DEF Count
  <2>2. step > 4 BY <1>1, <2>1
  <2>3. ~burst BY <1>5 DEF Pins, Raised
  <2> QED BY <1>5, <2>2, <2>3 DEF Wires, Levels
<1>6. call.fn \in {"read", "write", "burst_start", "burst_put", "burst_end", "en_low", "init"}
  BY <1>1 DEF Calls
<1> QED BY <1>2, <1>3, <1>4, <1>5, <1>6 DEF Addressed

\* Every step keeps the pins where the routine has them.
LEMMA WiresKept == TypeOK /\ Placed /\ Pins /\ Wires /\ [Next]_vars => Wires'
<1> SUFFICES ASSUME TypeOK, Placed, Pins, Wires, [Next]_vars PROVE Wires'
  OBVIOUS
<1>1. CASE Call
  <2>0. W \in Nat /\ W > 0 /\ Base = 3 * W + 6 BY WidthAssumption DEF Base
  <2>1. /\ Finished /\ step' = 1 /\ pins' = pins
        /\ call'.fn \in IF burst THEN {"burst_put", "burst_end"}
                        ELSE {"read", "write", "burst_start", "en_low"}
    BY <1>1, Starting
  <2>2. pins.counter /\ (burst => pins.en /\ ~pins.we) BY <2>1, RegisterAtRest
  <2>3. pins.oe /\ (~burst => pins.we) BY <2>1, PinsAtRest
  <2>4. /\ 1 \notin Base + 2..Base + 8 /\ 1 \notin Base + 3..Base + 7 /\ 1 <= Base + 1
        /\ ~(1 > Base + 1) /\ ~(1 > 2) /\ ~(1 > 1) /\ 1 # 8
        /\ \A k \in 1..W : 1 \notin {3 * (W - k) + 4, 3 * (W - k) + 5}
    BY <2>0
  <2>5. Addressing' BY <2>1, <2>2, <2>4 DEF Addressing, Addressed
  <2>6. Levels' BY <2>1, <2>2, <2>3, <2>4 DEF Levels
  <2> QED BY <2>5, <2>6 DEF Wires
<1>2. CASE Execute
  <2>1. CASE left = 1
    <3>1. Levels' BY <1>2, <2>1, LevelsMove DEF Wires
    <3>2. Addressing'
      <4>1. CASE Addressed BY <1>2, <2>1, <4>1, AddressingMoves DEF Wires
      <4>2. CASE ~Addressed
        <5>1. call' = call BY <1>2, Executing
        <5> QED BY <4>2, <5>1 DEF Addressing, Addressed
      <4> QED BY <4>1, <4>2
    <3> QED BY <3>1, <3>2 DEF Wires
  <2>2. CASE left # 1
    <3>1. UNCHANGED <<call, pins, step>> BY <1>2, <2>2, Executing
    <3> QED BY <3>1 DEF Wires, Addressing, Addressed, Levels
  <2> QED BY <2>1, <2>2
<1>3. CASE Stall
  BY <1>3 DEF Stall, Wires, Addressing, Addressed, Levels
<1>4. CASE CpldEdge
  <2>1. UNCHANGED <<call, pins, step>> BY <1>4, Clocking DEF avrVars
  <2> QED BY <2>1 DEF Wires, Addressing, Addressed, Levels
<1>5. CASE UNCHANGED vars
  BY <1>5 DEF vars, avrVars, Wires, Addressing, Addressed, Levels
<1> QED BY <1>1, <1>2, <1>3, <1>4, <1>5 DEF Next

LEMMA WiresStart == Init => Wires
<1> SUFFICES ASSUME Init PROVE Wires
  OBVIOUS
<1>1. call.fn = "init" /\ step = 1 BY DEF Init
<1> QED BY <1>1 DEF Wires, Addressing, Addressed, Levels

-----------------------------------------------------------------------------
(* The address lines.                                                      *)

\* The bits of the argument from bit k up have been shifted in, in order.
Shifted(k) == \A j \in 0..(W - k) - 1 : addr[j] = call.addr[k + j]

\* Whether the register has seen the pulse it is in: of the two falling edges
\* of a pulse one is an edge of its clock.
Pulsed == IF left = 2 /\ high THEN FALSE ELSE IF left = 1 /\ ~high THEN TRUE ELSE clk

\* Where the address register is, while an address is passed and after.
Passing ==
  Addressed =>
    /\ \A k \in 1..W :
         /\ step \in {3 * (W - k) + 3, 3 * (W - k) + 4} => Shifted(k)
         /\ step = 3 * (W - k) + 5 => Shifted(IF Pulsed THEN k - 1 ELSE k)
    /\ step > 3 * W + 2 => addr = call.addr

\* Where it is in a burst.
Counting ==
  /\ call.fn = "burst_start" => cur = call.addr
  /\ call.fn = "burst_put" =>
       /\ step < 8 => Inc(addr) = cur
       /\ step = 8 => IF Pulsed THEN addr = cur ELSE Inc(addr) = cur
       /\ step > 8 => addr = cur
  /\ call.fn = "burst_end" => addr = cur

Lines == Passing /\ Counting

\* One more bit of the address, shifted in below the others.
LEMMA ShiftStep ==
  ASSUME NEW b \in Address, NEW a \in Address, NEW k \in 0..W - 1,
         \A j \in 0..(W - (k + 1)) - 1 : b[j] = a[(k + 1) + j]
  PROVE  \A j \in 0..(W - k) - 1 : ShiftIn(b, a[k])[j] = a[k + j]
<1> USE WidthAssumption
<1> TAKE j \in 0..(W - k) - 1
<1>1. j \in 0..W - 1 BY SMT
<1>2. CASE j = 0 BY <1>1, <1>2, SMT DEF ShiftIn
<1>3. CASE j /= 0
  <2>1. j - 1 \in 0..(W - (k + 1)) - 1 /\ (k + 1) + (j - 1) = k + j BY <1>3, SMT
  <2>2. b[j - 1] = a[k + j] BY <2>1
  <2>3. ShiftIn(b, a[k])[j] = b[j - 1] BY <1>1, <1>3 DEF ShiftIn
  <2> QED BY <2>2, <2>3
<1> QED BY <1>2, <1>3

\* Two addresses with the same bits are the same.
LEMMA SameBits ==
  ASSUME NEW a \in Address, NEW b \in Address, \A k \in 0..W - 1 : a[k] = b[k]
  PROVE  a = b
<1>1. a = [k \in 0..W - 1 |-> a[k]] BY Zenon DEF Address
<1>2. b = [k \in 0..W - 1 |-> b[k]] BY Zenon DEF Address
<1>3. [k \in 0..W - 1 |-> a[k]] = [k \in 0..W - 1 |-> b[k]] BY Zenon
<1> QED BY <1>1, <1>2, <1>3, Zenon

\* The last bit of an address in, the register holds it.
LEMMA AllShifted ==
  ASSUME TypeOK, Addressed, Shifted(0)
  PROVE  addr = call.addr
<1>1. addr \in Address /\ call.addr \in Address
  BY CallsHold DEF TypeOK, Addressed
<1>2. ASSUME NEW j \in 0..W - 1 PROVE addr[j] = call.addr[j]
  <2>1. j \in 0..(W - 0) - 1 /\ 0 + j = j BY WidthAssumption
  <2>2. addr[j] = call.addr[0 + j] BY <2>1 DEF Shifted
  <2> QED BY <2>1, <2>2
<1> QED BY <1>1, <1>2, SameBits

\* The cycles of the instruction that follows.
LEMMA NextCycles ==
  ASSUME TypeOK, Placed, Execute, left = 1, step + 1 \in 1..Count(call)
  PROVE  left' = Code(call)[step + 1].cycles
<1>1. step \in Nat /\ Count(call) \in Nat BY CodeIs DEF TypeOK
<1>2. step < Len(Code(call)) BY <1>1 DEF Count
<1> QED BY <1>2 DEF Execute

\* The two instructions of a pulse.
LEMMA PulsesAt ==
  ASSUME NEW c \in Calls
  PROVE  /\ c.fn \in {"read", "write", "burst_start"} =>
              \A k \in 1..W : /\ 3 * (W - k) + 5 \in 2..Count(c)
                              /\ Code(c)[3 * (W - k) + 5] = Sbi("en")
                              /\ Code(c)[3 * (W - k) + 4] = Cbi("en")
         /\ c.fn = "burst_put" => /\ Count(c) = 8 /\ Code(c)[8] = Sbi("counter")
                                  /\ Code(c)[7] = Cbi("counter")
<1>0. W \in Nat /\ W > 0 /\ Base = 3 * W + 6 BY WidthAssumption DEF Base
<1>1. ASSUME c.fn \in {"read", "write", "burst_start"}, NEW k \in 1..W
      PROVE  /\ 3 * (W - k) + 5 \in 2..Count(c)
             /\ Code(c)[3 * (W - k) + 5] = Sbi("en")
             /\ Code(c)[3 * (W - k) + 4] = Cbi("en")
  <2>1. PICK v : Begins(Code(c), v, c.addr) BY <1>1, AddressedAt
  <2>2. Count(c) \in {Base + 1, Base + 7, Base + 8} BY <1>1, AddressedAt
  <2>3. 3 * (W - k) + 5 \in 2..Count(c) BY <1>0, <2>2
  <2> QED BY <2>1, <2>3 DEF Begins
<1> QED BY <1>1, BurstPutAt

\* No cycle is lost inside a pulse if no handler runs there.
LEMMA NoStallInPulse ==
  ASSUME ~InterruptsInPulse, TypeOK, Placed, Stall
  PROVE  /\ Addressed => \A k \in 1..W : step # 3 * (W - k) + 5
         /\ call.fn = "burst_put" => step # 8
<1>0. W \in Nat /\ W > 0 BY WidthAssumption
<1>1. ~InPulse BY DEF Stall
<1>2. call \in Calls BY DEF TypeOK
<1>3. ASSUME Addressed, NEW k \in 1..W, step = 3 * (W - k) + 5 PROVE FALSE
  <2>1. /\ 3 * (W - k) + 5 \in 2..Count(call)
        /\ Code(call)[3 * (W - k) + 5] = Sbi("en")
        /\ Code(call)[3 * (W - k) + 4] = Cbi("en")
    BY <1>2, <1>3, PulsesAt DEF Addressed
  <2>2. step - 1 = 3 * (W - k) + 4 /\ step > 1 /\ ~(step > Count(call))
    <3>1. Count(call) \in Nat BY <1>2, CodeIs
    <3> QED BY <1>0, <1>3, <2>1, <3>1
  <2>3. Code(call)[step] = Sbi("en") /\ Code(call)[step - 1] = Cbi("en")
    BY <1>3, <2>1, <2>2
  <2>4. Code(call)[step].pin = "en" BY <2>3, PinNames
  <2> QED BY <1>1, <2>2, <2>3, <2>4 DEF InPulse, Finished, Count
<1>4. ASSUME call.fn = "burst_put", step = 8 PROVE FALSE
  <2>1. Count(call) = 8 /\ Code(call)[8] = Sbi("counter") /\ Code(call)[7] = Cbi("counter")
    BY <1>2, <1>4, PulsesAt
  <2>2. step - 1 = 7 /\ step > 1 /\ ~(step > Count(call)) BY <1>4, <2>1
  <2>3. Code(call)[step] = Sbi("counter") /\ Code(call)[step - 1] = Cbi("counter")
    BY <1>4, <2>1, <2>2
  <2>4. Code(call)[step].pin = "counter" BY <2>3, PinNames
  <2> QED BY <1>1, <2>2, <2>3, <2>4 DEF InPulse, Finished, Count
<1> QED BY <1>3, <1>4

\* One of the two edges in a pulse reaches the register.
LEMMA PulseEdge ==
  ASSUME TypeOK, CpldEdge, ~pins.reset, left \in {1, 2}
  PROVE  \/ ~clk /\ ~Pulsed /\ Pulsed'
         \/ clk /\ (Pulsed' <=> Pulsed)
<1>1. high /\ high' = FALSE /\ clk' = ~clk /\ left' = left
  BY Clocking DEF avrVars
<1>2. ASSUME left = 1
      PROVE  (Pulsed <=> clk) /\ Pulsed'
  BY <1>1, <1>2 DEF Pulsed
<1>3. ASSUME left = 2
      PROVE  ~Pulsed /\ (Pulsed' <=> clk')
  BY <1>1, <1>3 DEF Pulsed
<1> QED BY <1>1, <1>2, <1>3 DEF Pulsed

\* What a falling edge does to the register.
LEMMA RegisterMoves ==
  ASSUME TypeOK, CpldEdge, ~pins.reset
  PROVE  addr' = IF clk THEN addr ELSE SregEdge(addr, pins.en, pins.counter, pins.si)
BY DEF CpldEdge, Toggles

\* The instructions of an address being passed.
LEMMA PassingWithInstructions ==
  ASSUME TypeOK, Placed, Passing, Execute, Addressed
  PROVE  Passing'
<1>0. W \in Nat /\ W > 0 /\ Base = 3 * W + 6 BY WidthAssumption DEF Base
<1>1. /\ ~high /\ high' = TRUE /\ call' = call /\ addr' = addr /\ step \in 1..Count(call)
      /\ step \in Nat /\ call \in Calls
  BY Executing DEF TypeOK
<1>2. \A k : Shifted(k)' <=> Shifted(k) BY <1>1 DEF Shifted
<1>3. CASE left # 1
  <2>1. left = 2 /\ left' = 1 /\ step' = step /\ clk' = clk BY <1>3, Executing
  <2>2. Pulsed' <=> Pulsed BY <1>1, <2>1 DEF Pulsed
  <2> QED BY <1>1, <1>2, <2>1, <2>2 DEF Passing, Addressed
<1>4. CASE left = 1
  <2>1. step' = step + 1 BY <1>4, Executing
  <2>2. Pulsed BY <1>1, <1>4 DEF Pulsed
  <2>3. ASSUME NEW k \in 1..W, step' = 3 * (W - k) + 4 PROVE Shifted(k)
    <3>1. step = 3 * (W - k) + 3 BY <1>0, <1>1, <2>1, <2>3
    <3> QED BY <3>1 DEF Passing
  <2>4. ASSUME NEW k \in 0..W, step' = 3 * (W - k) + 3 PROVE Shifted(k)
    <3>1. CASE k = W
      <4>1. \A j \in 0..(W - k) - 1 : FALSE BY <1>0, <3>1
      <4> QED BY <4>1 DEF Shifted
    <3>2. CASE k # W
      <4>1. k + 1 \in 1..W /\ step = 3 * (W - (k + 1)) + 5 /\ (k + 1) - 1 = k
        BY <1>0, <1>1, <2>1, <2>4, <3>2
      <4>2. Shifted((k + 1) - 1) BY <2>2, <4>1 DEF Passing
      <4> QED BY <4>1, <4>2
    <3> QED BY <3>1, <3>2
  <2>5. ASSUME NEW k \in 1..W, step' = 3 * (W - k) + 5 PROVE ~Pulsed' /\ Shifted(k)
    <3>1. step = 3 * (W - k) + 4 BY <1>0, <1>1, <2>1, <2>5
    <3>2. Shifted(k) BY <3>1 DEF Passing
    <3>3. step + 1 \in 1..Count(call) /\ Code(call)[step + 1] = Sbi("en")
      <4>1. /\ 3 * (W - k) + 5 \in 2..Count(call)
            /\ Code(call)[3 * (W - k) + 5] = Sbi("en")
        BY <1>1, PulsesAt DEF Addressed
      <4>2. 3 * (W - k) + 5 = step + 1 BY <2>1, <2>5
      <4>3. step + 1 \in 1..Count(call) BY <1>1, <4>1, <4>2
      <4> QED BY <4>1, <4>2, <4>3
    <3>4. left' = 2
      <4>1. left' = Code(call)[step + 1].cycles BY <1>4, <3>3, NextCycles
      <4> QED BY <3>3, <4>1, PinNames
    <3> QED BY <1>1, <3>2, <3>4 DEF Pulsed
  <2>6. step' > 3 * W + 2 => addr = call.addr
    <3>1. CASE step > 3 * W + 2 BY <3>1 DEF Passing
    <3>2. CASE step = 3 * W + 2
      <4>1. step' = 3 * (W - 0) + 3 /\ 0 \in 0..W BY <1>0, <2>1, <3>2
      <4>2. Shifted(0) BY <2>4, <4>1
      <4> QED BY <4>2, AllShifted
    <3> QED BY <1>0, <1>1, <2>1, <3>1, <3>2
  <2>7. ASSUME NEW k \in 1..W
        PROVE  /\ step' \in {3 * (W - k) + 3, 3 * (W - k) + 4} => Shifted(k)'
               /\ step' = 3 * (W - k) + 5 => ~Pulsed' /\ Shifted(k)'
    BY <1>0, <1>2, <2>3, <2>4, <2>5
  <2> QED BY <1>1, <2>6, <2>7 DEF Passing, Addressed
<1> QED BY <1>3, <1>4

\* The edges of the CPLD while an address is passed.
LEMMA PassingWithEdges ==
  ASSUME TypeOK, Placed, Pins, Wires, Passing, CpldEdge, Addressed
  PROVE  Passing'
<1>0. W \in Nat /\ W > 0 /\ Base = 3 * W + 6 BY WidthAssumption DEF Base
<1>1. UNCHANGED <<call, step, left>> /\ ~pins.reset
  BY Clocking DEF avrVars, Pins, Strobes, Addressed
<1>2. addr' = IF clk THEN addr ELSE SregEdge(addr, pins.en, pins.counter, pins.si)
  BY <1>1, RegisterMoves
<1>3. /\ pins.counter /\ (step > 2 => (pins.en <=> \A k \in 1..W : step # 3 * (W - k) + 5))
      /\ \A k \in 1..W : step \in {3 * (W - k) + 4, 3 * (W - k) + 5} =>
           pins.si = call.addr[k - 1]
  BY DEF Wires, Addressing
<1>4. pins.en => addr' = addr BY <1>2, <1>3 DEF SregEdge
<1>5. addr' = addr => \A k : Shifted(k)' <=> Shifted(k) BY <1>1 DEF Shifted
<1>6. /\ call \in Calls /\ step \in Nat /\ addr \in Address /\ call.addr \in Address
  BY CallsHold DEF TypeOK, Addressed
<1>7. ASSUME NEW k \in 1..W, step \in {3 * (W - k) + 3, 3 * (W - k) + 4} PROVE Shifted(k)'
  <2>1. step > 2 /\ \A j \in 1..W : step # 3 * (W - j) + 5 BY <1>0, <1>7
  <2>2. addr' = addr BY <1>3, <1>4, <2>1
  <2>3. Shifted(k) BY <1>7 DEF Passing
  <2> QED BY <1>5, <2>2, <2>3
<1>8. ASSUME NEW k \in 1..W, step = 3 * (W - k) + 5
      PROVE  (IF Pulsed' THEN Shifted(k - 1)' ELSE Shifted(k)')
  <2>1. step > 2 /\ ~pins.en /\ pins.si = call.addr[k - 1]
    <3>1. step > 2 BY <1>0, <1>8
    <3> QED BY <1>3, <1>8, <3>1
  <2>2. left \in {1, 2}
    <3>1. 3 * (W - k) + 5 \in 2..Count(call) BY <1>6, PulsesAt DEF Addressed
    <3>2. ~Finished BY <1>6, <1>8, <3>1, CodeIs DEF Finished, Count
    <3>3. left \in 1..Code(call)[step].cycles /\ left \in 0..2 BY <3>2 DEF Placed, TypeOK
    <3>4. Code(call)[step].cycles = 2 BY <1>6, <1>8, PulsesAt, PinNames DEF Addressed
    <3> QED BY <3>3, <3>4
  <2>3. IF Pulsed THEN Shifted(k - 1) ELSE Shifted(k) BY <1>8 DEF Passing
  <2>4. CASE clk
    <3>1. addr' = addr /\ (Pulsed' <=> Pulsed) BY <1>1, <1>2, <2>2, <2>4, PulseEdge
    <3> QED BY <1>5, <2>3, <3>1
  <2>5. CASE ~clk
    <3>1. ~Pulsed /\ Pulsed' BY <1>1, <2>2, <2>5, PulseEdge
    <3>2. Shifted(k) BY <2>3, <3>1
    <3>3. addr' = ShiftIn(addr, call.addr[k - 1]) BY <1>2, <2>1, <2>5 DEF SregEdge
    <3>4. k - 1 \in 0..W - 1 /\ (k - 1) + 1 = k BY <1>0
    <3>5. \A j \in 0..(W - ((k - 1) + 1)) - 1 : addr[j] = call.addr[((k - 1) + 1) + j]
      BY <3>2, <3>4 DEF Shifted
    <3>6. \A j \in 0..(W - (k - 1)) - 1 :
            ShiftIn(addr, call.addr[k - 1])[j] = call.addr[(k - 1) + j]
      BY <1>6, <3>4, <3>5, ShiftStep
    <3>7. Shifted(k - 1)' BY <1>1, <3>3, <3>6 DEF Shifted
    <3> QED BY <3>1, <3>7
  <2> QED BY <2>4, <2>5
<1>9. step > 3 * W + 2 => addr' = call.addr
  <2> SUFFICES ASSUME step > 3 * W + 2 PROVE addr' = call.addr
    OBVIOUS
  <2>1. step > 2 /\ \A j \in 1..W : step # 3 * (W - j) + 5 BY <1>0, <1>6
  <2>2. addr' = addr BY <1>3, <1>4, <2>1
  <2> QED BY <2>2 DEF Passing
<1>10. ASSUME NEW k \in 1..W, step = 3 * (W - k) + 5
       PROVE  Shifted(IF Pulsed THEN k - 1 ELSE k)'
  BY <1>8, <1>10
<1> QED BY <1>1, <1>7, <1>9, <1>10 DEF Passing, Addressed

\* What a call leaves in the variables of the specification.
LEMMA CallSets ==
  ASSUME Call
  PROVE  /\ cur' = CASE call'.fn = "burst_start" -> call'.addr
                     [] call'.fn = "burst_put" -> Inc(cur)
                     [] OTHER -> cur
         /\ want' = CASE call'.fn = "write" /\ call'.addr = watch -> call'.data
                      [] call'.fn = "burst_put" /\ cur = watch -> call'.data
                      [] call'.fn \in {"burst_start", "burst_put"} /\ cur' = watch -> X
                      [] OTHER -> want
BY DEF Call, Start

\* The routine that has returned inside a burst, and where the register is.
LEMMA BurstAtRest ==
  ASSUME TypeOK, Placed, Pins, Lines, Finished, burst
  PROVE  addr = cur
<1>0. W \in Nat /\ W > 0 /\ Base = 3 * W + 6 BY WidthAssumption DEF Base
<1>1. call \in Calls /\ step \in Nat /\ Count(call) \in Nat /\ step = Count(call) + 1
  BY CodeIs DEF TypeOK, Placed, Finished, Count
<1>2. call.fn \in {"burst_start", "burst_put"} BY DEF Pins, Bursting, Raised
<1>3. CASE call.fn = "burst_start"
  <2>1. Count(call) = Base + 1 BY <1>1, <1>3, BurstStartAt
  <2>2. step > 3 * W + 2 BY <1>0, <1>1, <2>1
  <2> QED BY <1>3, <2>2 DEF Lines, Passing, Counting, Addressed
<1>4. CASE call.fn = "burst_put"
  <2>1. Count(call) = 8 BY <1>1, <1>4, BurstPutAt
  <2>2. step > 8 BY <1>1, <2>1
  <2> QED BY <1>4, <2>2 DEF Lines, Counting
<1> QED BY <1>2, <1>3, <1>4

\* The instructions of a burst.
LEMMA CountingWithInstructions ==
  ASSUME TypeOK, Placed, Counting, Execute
  PROVE  Counting'
<1>1. /\ ~high /\ high' = TRUE /\ UNCHANGED <<call, addr, cur>> /\ step \in 1..Count(call)
      /\ step \in Nat /\ call \in Calls
  BY Executing DEF TypeOK, specVars
<1>2. CASE left # 1
  <2>1. left = 2 /\ left' = 1 /\ step' = step /\ clk' = clk BY <1>2, Executing
  <2>2. Pulsed' <=> Pulsed BY <1>1, <2>1 DEF Pulsed
  <2> QED BY <1>1, <2>1, <2>2 DEF Counting
<1>3. CASE left = 1
  <2>1. step' = step + 1 BY <1>3, Executing
  <2>2. Pulsed BY <1>1, <1>3 DEF Pulsed
  <2> SUFFICES ASSUME call.fn = "burst_put"
               PROVE  /\ step' < 8 => Inc(addr) = cur
                      /\ step' = 8 => IF Pulsed' THEN addr = cur ELSE Inc(addr) = cur
                      /\ step' > 8 => addr = cur
    BY <1>1 DEF Counting
  <2>3. Count(call) = 8 /\ Code(call)[8] = Sbi("counter") BY <1>1, PulsesAt
  <2>4. CASE step < 7
    <3>1. step < 8 /\ step' < 8 BY <1>1, <2>1, <2>4
    <3>2. Inc(addr) = cur BY <3>1 DEF Counting
    <3> QED BY <1>1, <2>1, <2>4, <3>2
  <2>5. CASE step = 7
    <3>1. left' = Code(call)[step + 1].cycles BY <1>3, <2>3, <2>5, NextCycles
    <3>2. left' = 2 BY <2>3, <2>5, <3>1, PinNames
    <3>3. ~Pulsed' BY <1>1, <3>2 DEF Pulsed
    <3>4. Inc(addr) = cur BY <2>5 DEF Counting
    <3> QED BY <2>1, <2>5, <3>3, <3>4
  <2>6. CASE step = 8
    <3>1. addr = cur BY <2>2, <2>6 DEF Counting
    <3> QED BY <2>1, <2>6, <3>1
  <2> QED BY <1>1, <2>3, <2>4, <2>5, <2>6
<1> QED BY <1>2, <1>3

\* The edges of the CPLD in a burst.
LEMMA CountingWithEdges ==
  ASSUME TypeOK, Placed, Pins, Wires, Counting, CpldEdge
  PROVE  Counting'
<1>1. UNCHANGED <<call, step, left, cur>> BY Clocking DEF avrVars, specVars
<1>2. CASE call.fn = "burst_put"
  <2>1. pins.en /\ (pins.counter <=> step # 8) /\ ~pins.reset
    BY <1>2 DEF Wires, Levels, Pins, Strobes
  <2>2. addr' = IF clk THEN addr ELSE SregEdge(addr, pins.en, pins.counter, pins.si)
    BY <2>1, RegisterMoves
  <2>3. step # 8 => addr' = addr BY <2>1, <2>2 DEF SregEdge
  <2>4. ASSUME step = 8
        PROVE  IF Pulsed' THEN addr' = cur ELSE Inc(addr') = cur
    <3>1. left \in {1, 2}
      <4>1. Count(call) = 8 /\ Code(call)[8] = Sbi("counter") BY <1>2, PulsesAt DEF TypeOK
      <4>2. ~Finished BY <2>4, <4>1 DEF Finished, Count
      <4>3. left \in 1..2 BY <2>4, <4>1, <4>2, PinNames DEF Placed
      <4> QED BY <4>3
    <3>2. CASE clk
      <4>1. addr' = addr /\ (Pulsed' <=> Pulsed) BY <2>1, <2>2, <3>1, <3>2, PulseEdge
      <4> QED BY <1>2, <2>4, <4>1 DEF Counting
    <3>3. CASE ~clk
      <4>1. ~Pulsed /\ Pulsed' BY <2>1, <3>1, <3>3, PulseEdge
      <4>2. addr' = Inc(addr) BY <2>1, <2>2, <2>4, <3>3 DEF SregEdge
      <4>3. Inc(addr) = cur BY <1>2, <2>4, <4>1 DEF Counting
      <4> QED BY <4>1, <4>2, <4>3
    <3> QED BY <3>2, <3>3
  <2>5. step \in Nat BY DEF TypeOK
  <2>6. /\ step < 8 => Inc(addr') = cur
        /\ step > 8 => addr' = cur
    BY <1>2, <2>3, <2>5 DEF Counting
  <2> QED BY <1>1, <1>2, <2>4, <2>6 DEF Counting
<1>3. CASE call.fn = "burst_end"
  <2>1. pins.en /\ pins.counter /\ ~pins.reset
    BY <1>3 DEF Wires, Levels, Pins, Strobes
  <2>2. addr' = addr BY <2>1, RegisterMoves DEF SregEdge
  <2> QED BY <1>1, <1>3, <2>2 DEF Counting
<1>4. CASE call.fn \notin {"burst_put", "burst_end"}
  BY <1>1, <1>4 DEF Counting
<1> QED BY <1>2, <1>3, <1>4

\* A call finds the register where the last one left it.
LEMMA CallKeepsLines ==
  ASSUME TypeOK, Placed, Pins, Lines, Call
  PROVE  Lines'
<1>0. W \in Nat /\ W > 0 BY WidthAssumption
<1>1. /\ Finished /\ step' = 1 /\ addr' = addr
      /\ call'.fn \in IF burst THEN {"burst_put", "burst_end"}
                      ELSE {"read", "write", "burst_start", "en_low"}
  BY Starting
<1>2. Passing'
  <2>1. /\ \A k \in 1..W : 1 \notin {3 * (W - k) + 3, 3 * (W - k) + 4, 3 * (W - k) + 5}
        /\ ~(1 > 3 * W + 2)
    BY <1>0
  <2> QED BY <1>1, <2>1 DEF Passing
<1>3. Counting'
  <2>1. burst => addr = cur BY <1>1, BurstAtRest
  <2>2. CASE call'.fn = "burst_start" BY <2>2, CallSets DEF Counting
  <2>3. CASE call'.fn = "burst_put"
    <3>1. cur' = Inc(cur) /\ addr = cur BY <1>1, <2>1, <2>3, CallSets
    <3>2. step' < 8 /\ ~(step' = 8) /\ ~(step' > 8) BY <1>1
    <3> QED BY <1>1, <2>3, <3>1, <3>2 DEF Counting
  <2>4. CASE call'.fn = "burst_end"
    <3>1. cur' = cur /\ addr = cur BY <1>1, <2>1, <2>4, CallSets
    <3> QED BY <1>1, <2>4, <3>1 DEF Counting
  <2>5. CASE call'.fn \notin {"burst_start", "burst_put", "burst_end"}
    BY <2>5 DEF Counting
  <2> QED BY <2>2, <2>3, <2>4, <2>5
<1> QED BY <1>2, <1>3 DEF Lines

\* Every step keeps the register in line with the routine, if no handler
\* stretches a pulse.
LEMMA LinesKept ==
  ASSUME ~InterruptsInPulse, TypeOK, Placed, Pins, Wires, Lines, [Next]_vars
  PROVE  Lines'
<1>0. Passing /\ Counting BY DEF Lines
<1>1. CASE Call BY <1>1, CallKeepsLines
<1>2. CASE Execute
  <2>1. Passing'
    <3>1. CASE Addressed BY <1>0, <1>2, <3>1, PassingWithInstructions
    <3>2. CASE ~Addressed
      <4>1. call' = call BY <1>2, Executing
      <4> QED BY <3>2, <4>1 DEF Passing, Addressed
    <3> QED BY <3>1, <3>2
  <2> QED BY <1>0, <1>2, <2>1, CountingWithInstructions DEF Lines
<1>3. CASE Stall
  <2>1. UNCHANGED <<call, step, addr, cur>> BY <1>3 DEF Stall, cpldVars, specVars
  <2>2. /\ Addressed => \A k \in 1..W : step # 3 * (W - k) + 5
        /\ call.fn = "burst_put" => step # 8
    BY <1>3, NoStallInPulse
  <2>3. \A k : Shifted(k)' <=> Shifted(k) BY <2>1 DEF Shifted
  <2>4. Passing' BY <1>0, <2>1, <2>2, <2>3 DEF Passing, Addressed
  <2>5. Counting' BY <1>0, <2>1, <2>2 DEF Counting
  <2> QED BY <2>4, <2>5 DEF Lines
<1>4. CASE CpldEdge
  <2>1. Passing'
    <3>1. CASE Addressed BY <1>0, <1>4, <3>1, PassingWithEdges
    <3>2. CASE ~Addressed
      <4>1. call' = call BY <1>4, Clocking DEF avrVars
      <4> QED BY <3>2, <4>1 DEF Passing, Addressed
    <3> QED BY <3>1, <3>2
  <2> QED BY <1>0, <1>4, <2>1, CountingWithEdges DEF Lines
<1>5. CASE UNCHANGED vars
  <2>1. UNCHANGED <<call, step, left, high, clk, addr, cur>>
    BY <1>5 DEF vars, avrVars, cpldVars, specVars
  <2>2. /\ \A k : Shifted(k)' <=> Shifted(k)
        /\ Pulsed' <=> Pulsed
    BY <2>1 DEF Shifted, Pulsed
  <2> QED BY <1>0, <2>1, <2>2 DEF Lines, Passing, Counting, Addressed
<1> QED BY <1>1, <1>2, <1>3, <1>4, <1>5 DEF Next

LEMMA LinesStart == Init => Lines
<1> SUFFICES ASSUME Init PROVE Lines
  OBVIOUS
<1>1. call.fn = "init" BY DEF Init
<1> QED BY <1>1 DEF Lines, Passing, Counting, Addressed

\* Between calls the lines show the address of the call, or the burst's.
LEMMA LinesAreEnough ==
  ASSUME TypeOK, Placed, Pins, Lines
  PROVE  AddressReached
<1> SUFFICES ASSUME Finished
             PROVE  /\ call.fn \in {"read", "write"} => addr = call.addr
                    /\ call.fn \in {"burst_start", "burst_put"} => addr = cur
  BY DEF AddressReached
<1>0. W \in Nat /\ W > 0 /\ Base = 3 * W + 6 BY WidthAssumption DEF Base
<1>1. call \in Calls /\ step \in Nat /\ Count(call) \in Nat /\ step = Count(call) + 1
  BY CodeIs DEF TypeOK, Placed, Finished, Count
<1>2. ASSUME call.fn \in {"read", "write"} PROVE addr = call.addr
  <2>1. Count(call) \in {Base + 7, Base + 8} BY <1>1, <1>2, AddressedAt
  <2>2. step > 3 * W + 2 BY <1>0, <1>1, <2>1
  <2> QED BY <1>2, <2>2 DEF Lines, Passing, Addressed
<1>3. ASSUME call.fn \in {"burst_start", "burst_put"} PROVE addr = cur
  <2>1. burst BY <1>3 DEF Pins, Bursting
  <2> QED BY <2>1, BurstAtRest
<1> QED BY <1>2, <1>3

-----------------------------------------------------------------------------
(* The data lines.                                                         *)

\* A line with one driver carries what that driver puts on it.
LEMMA LevelOfOne == \A v : Level({Z, v}) = v /\ Level({v, Z}) = v
<1>1. ASSUME NEW v PROVE Level({Z, v}) = v
  <2>1. CASE v = Z
    <3>1. {Z, v} \ {Z} = {} BY <2>1
    <3> QED BY <2>1, <3>1 DEF Level
  <2>2. CASE v # Z
    <3>1. {Z, v} \ {Z} = {v} BY <2>2
    <3>2. (CHOOSE u \in {v} : TRUE) = v OBVIOUS
    <3>3. {v} # {} /\ \E u \in {v} : {v} = {u} OBVIOUS
    <3> QED BY <3>1, <3>2, <3>3 DEF Level
  <2> QED BY <2>1, <2>2
<1>2. \A v : {v, Z} = {Z, v} OBVIOUS
<1> QED BY <1>1, <1>2

\* A byte that is driven is taken as it is.
LEMMA BytesSampled ==
  /\ \A d \in Data \cup {X} : d # Z /\ Sample(d) = d
  /\ Z \notin Data
BY LevelAssumption DEF Sample

\* While the write strobe is low, the byte the lines address is the one the
\* CPLD puts on the data lines.
Settled == ~pins.we /\ addr = watch => cell = Sample(lat.sram)

\* The byte moves only while the strobe is low, and then with the latch.
LEMMA ByteSettles ==
  ASSUME Settle
  PROVE  cell' = IF ~pins'.we /\ addr' = watch THEN Sample(lat'.sram) ELSE cell
<1>1. CASE ~pins'.we /\ addr' = watch
  <2>1. ~SramDrives' BY <1>1 DEF SramDrives
  <2>2. SramBus' = lat'.sram
    <3>1. SramBus' = Level({Z, lat'.sram}) BY <2>1 DEF SramBus
    <3> QED BY <3>1, LevelOfOne
  <2> QED BY <1>1, <2>2 DEF Settle
<1>2. CASE ~(~pins'.we /\ addr' = watch) BY <1>2 DEF Settle
<1> QED BY <1>1, <1>2

\* Every step leaves the addressed byte settled.
LEMMA SettledKept == TypeOK /\ Settled /\ [Next]_vars => Settled'
<1> SUFFICES ASSUME TypeOK, Settled, [Next]_vars PROVE Settled'
  OBVIOUS
<1>1. CASE Call BY <1>1, Starting DEF Settled
<1>2. CASE Execute
  <2>1. Settle /\ watch' = watch BY <1>2 DEF Execute, specVars
  <2> QED BY <2>1, ByteSettles DEF Settled
<1>3. CASE Stall BY <1>3 DEF Stall, cpldVars, specVars, Settled
<1>4. CASE CpldEdge
  <2>1. Settle /\ watch' = watch BY <1>4 DEF CpldEdge, specVars
  <2> QED BY <2>1, ByteSettles DEF Settled
<1>5. CASE UNCHANGED vars
  BY <1>5 DEF vars, avrVars, cpldVars, specVars, Settled
<1> QED BY <1>1, <1>2, <1>3, <1>4, <1>5 DEF Next

LEMMA SettledStart == Init => Settled
<1> SUFFICES ASSUME Init PROVE Settled
  OBVIOUS
<1>1. cell = X /\ lat.sram \in {Z, X} BY DEF Init
<1>2. Sample(lat.sram) = X BY <1>1 DEF Sample
<1> QED BY <1>1, <1>2 DEF Settled

\* A byte on its way in, from the bus of the AVR to the buffer and from there
\* to the lines of the SRAM.
Fed(d) == state = "BUFAVR" => lat.buffer = d
Passed(d) == Fed(d) /\ (state = "WE" => lat.sram = d)

\* An edge while the write strobe is low: the machine goes round BUFAVR and
\* WE, and the byte goes one station on.
LEMMA ByteMovesIn ==
  ASSUME TypeOK, CpldEdge, ~pins.reset, ~pins.we, ~Reading,
         NEW d \in Data, AvrBus = d
  PROVE  /\ clk' = ~clk
         /\ ~clk => /\ Writing' /\ Fed(d)' /\ (Fed(d) => Passed(d)')
                    /\ Writing /\ Passed(d) => lat'.sram = d
         /\ clk => /\ state' = state /\ lat'.sram = lat.sram
                   /\ Fed(d) => Fed(d)'
                   /\ Passed(d) => Passed(d)'
<1>1. PICK l \in Follow(state, lat, AvrBus, SramBus) :
        IF Toggles
        THEN /\ addr' = SregEdge(addr, pins.en, pins.counter, pins.si)
             /\ state' = IF pins.reset THEN "IDLE" ELSE FsmNext(state, pins.we, pins.oe)
             /\ lat' = IF state' = state THEN l
                       ELSE FsmOutput(state', l, AvrBus, SramBus)
        ELSE lat' = l /\ UNCHANGED <<addr, state>>
  BY DEF CpldEdge
<1>2. /\ state \in {"IDLE", "BUFAVR", "WE"} /\ lat \in Latches /\ clk \in BOOLEAN
      /\ Sample(d) = d /\ AvrBus \in Byte /\ SramBus \in Byte /\ state \in FsmState
  BY BytesSampled, BusesAreBytes DEF TypeOK, FsmState, Reading
<1>3. clk' = ~clk BY DEF CpldEdge
<1>4. /\ l \in Latches /\ l.avr = lat.avr /\ l.sram = lat.sram
      /\ l.buffer = lat.buffer \/ (state = "BUFAVR" /\ l.buffer = d)
  <2>1. l \in Latches /\ l.avr = lat.avr /\ l.sram = lat.sram BY <1>2, LatchesFollow
  <2>2. l = lat \/ (state = "BUFAVR" /\ l = [lat EXCEPT !.buffer = d])
    BY <1>2 DEF Follow
  <2>3. [lat EXCEPT !.buffer = d].buffer = d BY <1>2 DEF Latches
  <2> QED BY <2>1, <2>2, <2>3
<1>5. ASSUME ~clk
      PROVE  /\ Writing' /\ Fed(d)' /\ (Fed(d) => Passed(d)')
             /\ Writing /\ Passed(d) => lat'.sram = d
  <2>1. /\ state' = IF state = "BUFAVR" THEN "WE" ELSE "BUFAVR"
        /\ lat' = FsmOutput(state', l, AvrBus, SramBus)
    <3>1. state' = FsmNext(state, pins.we, pins.oe) BY <1>1, <1>5 DEF Toggles
    <3>2. state' = IF state = "BUFAVR" THEN "WE" ELSE "BUFAVR"
      BY <1>2, <3>1 DEF FsmNext
    <3> QED BY <1>1, <1>2, <1>5, <3>2 DEF Toggles
  <2>2. CASE state = "BUFAVR"
    <3>1. state' = "WE" /\ lat' = [l EXCEPT !.sram = Sample(l.buffer)]
      BY <2>1, <2>2 DEF FsmOutput
    <3>2. lat'.sram = Sample(l.buffer) BY <1>4, <3>1 DEF Latches
    <3>3. Fed(d) => lat'.sram = d BY <1>2, <1>4, <2>2, <3>2 DEF Fed
    <3> QED BY <3>1, <3>3 DEF Fed, Passed, Writing
  <2>3. CASE state # "BUFAVR"
    <3>1. state' = "BUFAVR" /\ lat' = [l EXCEPT !.buffer = Sample(AvrBus)]
      BY <2>1, <2>3 DEF FsmOutput
    <3>2. lat'.buffer = d /\ lat'.sram = lat.sram BY <1>2, <1>4, <3>1 DEF Latches
    <3> QED BY <2>3, <3>1, <3>2 DEF Fed, Passed, Writing
  <2> QED BY <2>2, <2>3
<1>6. ASSUME clk
      PROVE  /\ state' = state /\ lat'.sram = lat.sram
             /\ Fed(d) => Fed(d)'
             /\ Passed(d) => Passed(d)'
  <2>1. lat' = l /\ state' = state BY <1>1, <1>6 DEF Toggles
  <2> QED BY <1>4, <2>1 DEF Fed, Passed
<1> QED BY <1>2, <1>3, <1>5, <1>6

\* The same on the way out, from the lines of the SRAM to the AVR's.
Fetched == /\ state = "BUFSRAM" => lat.buffer = cell
           /\ state = "OE" => lat.avr = cell

LEMMA ByteMovesOut ==
  ASSUME TypeOK, CpldEdge, ~pins.reset, pins.we, ~pins.oe, ~Writing,
         SramBus = cell
  PROVE  /\ clk' = ~clk /\ cell' = cell
         /\ ~clk => /\ Reading' /\ (Fetched => Fetched')
                    /\ Reading /\ Fetched => lat'.avr = cell
         /\ clk => /\ state' = state /\ lat'.avr = lat.avr
                   /\ Fetched => Fetched'
<1>1. PICK l \in Follow(state, lat, AvrBus, SramBus) :
        IF Toggles
        THEN /\ addr' = SregEdge(addr, pins.en, pins.counter, pins.si)
             /\ state' = IF pins.reset THEN "IDLE" ELSE FsmNext(state, pins.we, pins.oe)
             /\ lat' = IF state' = state THEN l
                       ELSE FsmOutput(state', l, AvrBus, SramBus)
        ELSE lat' = l /\ UNCHANGED <<addr, state>>
  BY DEF CpldEdge
<1>2. /\ state \in {"IDLE", "BUFSRAM", "OE"} /\ lat \in Latches /\ clk \in BOOLEAN
      /\ Sample(cell) = cell /\ AvrBus \in Byte /\ SramBus \in Byte /\ state \in FsmState
  BY BytesSampled, BusesAreBytes DEF TypeOK, FsmState, Writing
<1>3. clk' = ~clk BY DEF CpldEdge
<1>4. /\ l \in Latches /\ l.avr = lat.avr /\ l.sram = lat.sram
      /\ l.buffer = lat.buffer \/ (state = "BUFSRAM" /\ l.buffer = cell)
  <2>1. l \in Latches /\ l.avr = lat.avr /\ l.sram = lat.sram BY <1>2, LatchesFollow
  <2>2. l = lat \/ (state = "BUFSRAM" /\ l = [lat EXCEPT !.buffer = cell])
    BY <1>2 DEF Follow
  <2>3. [lat EXCEPT !.buffer = cell].buffer = cell BY <1>2 DEF Latches
  <2> QED BY <2>1, <2>2, <2>3
<1>5. cell' = cell
  <2>1. Settle /\ pins' = pins BY DEF CpldEdge, avrVars
  <2> QED BY <2>1, ByteSettles
<1>6. ASSUME ~clk
      PROVE  /\ Reading' /\ (Fetched => Fetched')
             /\ Reading /\ Fetched => lat'.avr = cell
  <2>1. /\ state' = IF state = "BUFSRAM" THEN "OE" ELSE "BUFSRAM"
        /\ lat' = FsmOutput(state', l, AvrBus, SramBus)
    <3>1. state' = FsmNext(state, pins.we, pins.oe) BY <1>1, <1>6 DEF Toggles
    <3>2. state' = IF state = "BUFSRAM" THEN "OE" ELSE "BUFSRAM"
      BY <1>2, <3>1 DEF FsmNext
    <3> QED BY <1>1, <1>2, <1>6, <3>2 DEF Toggles
  <2>2. CASE state = "BUFSRAM"
    <3>1. state' = "OE" /\ lat' = [l EXCEPT !.avr = Sample(l.buffer)]
      BY <2>1, <2>2 DEF FsmOutput
    <3>2. lat'.avr = Sample(l.buffer) BY <1>4, <3>1 DEF Latches
    <3>3. Fetched => lat'.avr = cell BY <1>2, <1>4, <2>2, <3>2 DEF Fetched
    <3> QED BY <1>5, <3>1, <3>3 DEF Fetched, Reading
  <2>3. CASE state # "BUFSRAM"
    <3>1. state' = "BUFSRAM" /\ lat' = [l EXCEPT !.buffer = Sample(SramBus)]
      BY <2>1, <2>3 DEF FsmOutput
    <3>2. lat'.buffer = cell /\ lat'.avr = lat.avr BY <1>2, <1>4, <3>1 DEF Latches
    <3> QED BY <1>5, <2>3, <3>1, <3>2 DEF Fetched, Reading
  <2> QED BY <2>2, <2>3
<1>7. ASSUME clk
      PROVE  /\ state' = state /\ lat'.avr = lat.avr
             /\ Fetched => Fetched'
  <2>1. lat' = l /\ state' = state BY <1>1, <1>7 DEF Toggles
  <2> QED BY <1>4, <1>5, <2>1 DEF Fetched
<1> QED BY <1>2, <1>3, <1>5, <1>6, <1>7

\* A machine at rest stays there while both strobes are high.
LEMMA IdleStays ==
  ASSUME TypeOK, CpldEdge, pins.we, pins.oe, state = "IDLE"
  PROVE  state' = "IDLE"
<1>1. FsmNext(state, pins.we, pins.oe) = "IDLE" BY DEF FsmNext
<1> QED BY <1>1, Clocking

\* After the first instruction of a routine with both strobes high it rests.
LEMMA IdleFirst ==
  ASSUME TypeOK, Rested, call.fn # "init", step = 1, ~high, pins.we, pins.oe
  PROVE  state = "IDLE"
<1>1. ~Writing /\ ~Reading BY DEF Rested
<1> QED BY <1>1, OneCannotBeBoth DEF TypeOK

\* What is on the two buses once init has run.
LEMMA BusesCarry ==
  ASSUME TypeOK, Calm, call.fn # "init"
  PROVE  /\ pins.out => AvrBus = pins.data /\ pins.data \in Data /\ ~Reading
         /\ ~pins.out => AvrBus = lat.avr
         /\ ~pins.oe /\ pins.we /\ ~Writing /\ addr = watch => SramBus = cell
<1>1. Clean /\ (pins.out => ~Reading) BY DEF Calm
<1>2. pins.out => lat.avr = Z BY <1>1 DEF Clean
<1>3. ~Writing => lat.sram = Z BY <1>1 DEF Clean
<1>4. pins.out => AvrBus = pins.data
  <2>1. pins.out => AvrBus = Level({pins.data, Z}) BY <1>2 DEF AvrBus
  <2> QED BY <2>1, LevelOfOne
<1>5. ~pins.out => AvrBus = lat.avr
  <2>1. ~pins.out => AvrBus = Level({Z, lat.avr}) BY DEF AvrBus
  <2> QED BY <2>1, LevelOfOne
<1>6. ~pins.oe /\ pins.we /\ ~Writing /\ addr = watch => SramBus = cell
  <2>1. ~pins.oe /\ pins.we /\ ~Writing /\ addr = watch => SramBus = Level({cell, Z})
    BY <1>3 DEF SramBus, SramDrives
  <2> QED BY <2>1, LevelOfOne
<1>7. pins.data \in Data BY DEF TypeOK
<1> QED BY <1>1, <1>4, <1>5, <1>6, <1>7

-----------------------------------------------------------------------------
(* The waits of the routines, counted in clocks of the machine.            *)

\* The falling edges since an instruction of the routine was reached, if every
\* cycle since was one of the routine's.
Edges(first) == (step - first) + IF high THEN 0 ELSE 1

\* k of them at least were clocks of the machine, every second one is.
Clocks(first, k) == Edges(first) >= 2 * k \/ (Edges(first) >= 2 * k - 1 /\ clk)

\* With an instruction, or time spent elsewhere, no fewer are needed.
LEMMA BetweenEdges ==
  ASSUME TypeOK, Placed, Execute \/ Stall
  PROVE  /\ ~high /\ high' = TRUE /\ (clk' => clk)
         /\ UNCHANGED <<call, addr, state, lat, watch, want, burst, cur>>
         /\ \/ step' = step
            \/ step' = step + 1 /\ step \in 1..Count(call) /\ Execute /\ left = 1
         /\ \A first \in Nat, k \in Nat : Clocks(first, k)' => Clocks(first, k)
<1>1. /\ ~high /\ high' = TRUE /\ (clk' => clk)
      /\ UNCHANGED <<call, addr, state, lat, watch, want, burst, cur>>
      /\ \/ step' = step
         \/ step' = step + 1 /\ step \in 1..Count(call) /\ Execute /\ left = 1
  <2>1. CASE Execute
    <3>1. /\ ~high /\ high' = TRUE /\ step \in 1..Count(call)
          /\ UNCHANGED <<call, addr, state, lat, watch, want, burst, cur>>
      BY <2>1, Executing DEF specVars
    <3>2. \/ left = 2 /\ step' = step /\ clk' = clk
          \/ left = 1 /\ step' = step + 1 /\ clk' = (clk /\ ~pins'.reset)
      BY <2>1, Executing
    <3>3. clk' => clk BY <3>2
    <3>4. \/ step' = step
          \/ step' = step + 1 /\ step \in 1..Count(call) /\ Execute /\ left = 1
      BY <2>1, <3>1, <3>2
    <3> QED BY <3>1, <3>3, <3>4, Zenon
  <2>2. CASE Stall BY <2>2 DEF Stall, cpldVars, specVars
  <2> QED BY <2>1, <2>2
<1>2. step \in Nat /\ step' \in Nat BY <1>1 DEF TypeOK
<1>3. ASSUME NEW first \in Nat PROVE Edges(first)' <= Edges(first) /\ Edges(first) \in Int
  <2>1. Edges(first)' = step' - first BY <1>1, <1>2 DEF Edges
  <2>2. Edges(first) = (step - first) + 1 BY <1>1 DEF Edges
  <2>3. step' - first <= (step - first) + 1
    <3>1. step' = step \/ step' = step + 1 BY <1>1
    <3>2. step \in Int /\ first \in Int BY <1>2, <1>3
    <3>3. CASE step' = step BY <3>2, <3>3
    <3>4. CASE step' = step + 1 BY <3>2, <3>4
    <3> QED BY <3>1, <3>3, <3>4
  <2>4. (step - first) + 1 \in Int BY <1>2, <1>3
  <2> QED BY <2>1, <2>2, <2>3, <2>4
<1>4. ASSUME NEW first \in Nat, NEW k \in Nat, Clocks(first, k)' PROVE Clocks(first, k)
  <2>1. Edges(first)' <= Edges(first) /\ Edges(first) \in Int /\ Edges(first)' \in Int
    <3>1. Edges(first)' = step' - first BY <1>1, <1>2 DEF Edges
    <3> QED BY <1>1, <1>2, <1>3, <3>1
  <2>2. Edges(first)' >= 2 * k \/ (Edges(first)' >= 2 * k - 1 /\ clk') BY <1>4 DEF Clocks
  <2> QED BY <1>1, <2>1, <2>2 DEF Clocks
<1> QED BY <1>1, <1>4

\* An edge that is a clock adds one.
LEMMA ClocksAdd ==
  ASSUME TypeOK, CpldEdge, ~pins.reset, NEW first \in Nat, NEW k \in Nat
  PROVE  /\ clk /\ Clocks(first, k)' => Clocks(first, k)
         /\ ~clk /\ Clocks(first, k + 1)' => Clocks(first, k)
<1>1. high /\ high' = FALSE /\ step' = step /\ clk' = ~clk /\ step \in Nat
  BY Clocking DEF avrVars, TypeOK
<1>2. Edges(first)' = (step - first) + 1 /\ Edges(first) = step - first
  BY <1>1 DEF Edges
<1> DEFINE m == step - first
<1>3. m \in Int BY <1>1
<1>4. clk /\ Clocks(first, k)' => Clocks(first, k)
  <2>1. ASSUME clk, Clocks(first, k)' PROVE m >= 2 * k - 1
    <3>1. m + 1 >= 2 * k BY <1>1, <1>2, <2>1 DEF Clocks
    <3> QED BY <1>3, <3>1
  <2> QED BY <1>2, <2>1 DEF Clocks
<1>5. ~clk /\ Clocks(first, k + 1)' => Clocks(first, k)
  <2>1. ASSUME ~clk, Clocks(first, k + 1)' PROVE m >= 2 * k
    <3>1. m + 1 >= 2 * (k + 1) \/ m + 1 >= 2 * (k + 1) - 1
      BY <1>2, <2>1 DEF Clocks
    <3> QED BY <1>3, <3>1
  <2> QED BY <1>2, <2>1 DEF Clocks
<1> QED BY <1>4, <1>5

-----------------------------------------------------------------------------
(* Bytes on their way into the SRAM.                                       *)

\* SRAM_write finds the machine at rest, and holds its strobe low until the
\* byte is on the lines of the SRAM.
StoringWrite ==
  call.fn = "write" =>
    /\ step \in 2..Base + 2 => state = "IDLE"
    /\ step \in Base + 3..Base + 7 =>
         /\ Passed(call.data)
         /\ Clocks(Base + 3, 1) => Writing
         /\ Clocks(Base + 3, 2) => lat.sram = call.data

\* A burst leaves the machine writing, going round until its end.
StoringStart ==
  call.fn = "burst_start" =>
    /\ step \in 2..Base + 1 => state = "IDLE"
    /\ Finished /\ ~high /\ clk => Writing

\* The waits of SRAM_burst_write are as long as a byte needs to get through.
StoringPut ==
  call.fn = "burst_put" =>
    /\ Started \/ ~high \/ clk => Writing
    /\ Started => /\ Clocks(2, 1) => Fed(call.data)
                  /\ Clocks(2, 2) => Passed(call.data)
                  /\ Clocks(2, 3) => Passed(call.data) /\ lat.sram = call.data

Storing == StoringWrite /\ StoringStart /\ StoringPut

\* Every step keeps SRAM_write on its way.
LEMMA WriteStores ==
  ASSUME TypeOK, Placed, Pins, Wires, Rested, Calm, StoringWrite, [Next]_vars
  PROVE  StoringWrite'
<1>0. Base \in Nat /\ Base > 2 BY WidthAssumption DEF Base
<1>1. CASE Call
  <2>1. step' = 1 BY <1>1, Starting
  <2>2. 1 \notin 2..Base + 2 /\ 1 \notin Base + 3..Base + 7 BY <1>0
  <2> QED BY <2>1, <2>2 DEF StoringWrite
<1>2. CASE Execute \/ Stall
  <2>1. /\ ~high /\ high' = TRUE /\ (clk' => clk) /\ UNCHANGED <<call, state, lat>>
        /\ step' = step \/ (step' = step + 1 /\ step \in 1..Count(call))
        /\ step \in Nat \ {0} /\ call \in Calls
    BY <1>2, BetweenEdges DEF TypeOK
  <2>2. \A k \in Nat : Clocks(Base + 3, k)' => Clocks(Base + 3, k)
    <3>1. Base + 3 \in Nat BY <1>0
    <3> QED BY <1>2, <3>1, BetweenEdges
  <2> SUFFICES ASSUME call.fn = "write"
               PROVE  /\ step' \in 2..Base + 2 => state = "IDLE"
                      /\ step' \in Base + 3..Base + 7 =>
                           /\ Passed(call.data)
                           /\ Clocks(Base + 3, 1)' => Writing
                           /\ Clocks(Base + 3, 2)' => lat.sram = call.data
    BY <2>1 DEF StoringWrite, Passed, Fed, Writing
  <2>3. step' \in 2..Base + 2 => state = "IDLE"
    <3>1. CASE step \in 2..Base + 2 BY <3>1 DEF StoringWrite
    <3>2. CASE step = 1
      <4>1. pins.we /\ pins.oe BY <3>2 DEF Pins, Strobes
      <4>2. call.fn # "init" OBVIOUS
      <4> QED BY <2>1, <3>2, <4>1, <4>2, IdleFirst
    <3> QED BY <1>0, <2>1, <3>1, <3>2
  <2>4. ASSUME step' \in Base + 3..Base + 7
        PROVE  /\ Passed(call.data)
               /\ Clocks(Base + 3, 1)' => Writing
               /\ Clocks(Base + 3, 2)' => lat.sram = call.data
    <3>1. CASE step \in Base + 3..Base + 7
      <4>1. /\ Clocks(Base + 3, 1)' => Clocks(Base + 3, 1)
            /\ Clocks(Base + 3, 2)' => Clocks(Base + 3, 2)
        BY <2>2
      <4> QED BY <3>1, <4>1 DEF StoringWrite
    <3>2. CASE step = Base + 2
      <4>1. state = "IDLE"
        <5>1. step \in 2..Base + 2 BY <1>0, <3>2
        <5> QED BY <5>1 DEF StoringWrite
      <4>2. step' = Base + 3 BY <1>0, <2>1, <2>4, <3>2
      <4>3. ~Clocks(Base + 3, 1)' /\ ~Clocks(Base + 3, 2)'
        BY <1>0, <2>1, <4>2 DEF Clocks, Edges
      <4> QED BY <4>1, <4>3 DEF Passed, Fed
    <3> QED BY <1>0, <2>1, <2>4, <3>1, <3>2
  <2> QED BY <2>3, <2>4
<1>3. CASE CpldEdge
  <2>1. UNCHANGED <<call, step, pins>> /\ step \in Nat /\ call \in Calls
    BY <1>3, Clocking DEF avrVars, TypeOK
  <2> SUFFICES ASSUME call.fn = "write"
               PROVE  /\ step \in 2..Base + 2 => state' = "IDLE"
                      /\ step \in Base + 3..Base + 7 =>
                           /\ Passed(call.data)'
                           /\ Clocks(Base + 3, 1)' => Writing'
                           /\ Clocks(Base + 3, 2)' => lat'.sram = call.data
    BY <2>1 DEF StoringWrite, Passed, Fed
  <2>2. /\ pins.we <=> step \notin Base + 3..Base + 7
        /\ step > Base + 1 => pins.data = call.data
        /\ pins.oe /\ (step > 1 => pins.out) /\ ~pins.reset
    BY DEF Wires, Levels, Pins, Strobes, Started
  <2>3. ASSUME step \in 2..Base + 2 PROVE state' = "IDLE"
    <3>1. state = "IDLE" BY <2>3 DEF StoringWrite
    <3>2. pins.we BY <1>0, <2>2, <2>3
    <3> QED BY <1>3, <2>2, <3>1, <3>2, IdleStays
  <2>4. ASSUME step \in Base + 3..Base + 7
        PROVE  /\ Passed(call.data)'
               /\ Clocks(Base + 3, 1)' => Writing'
               /\ Clocks(Base + 3, 2)' => lat'.sram = call.data
    <3>1. step > 1 /\ step > Base + 1 BY <1>0, <2>4
    <3>2. AvrBus = call.data /\ call.data \in Data /\ ~Reading /\ ~pins.we
      <4>1. call.fn # "init" OBVIOUS
      <4> QED BY <2>2, <2>4, <3>1, <4>1, BusesCarry
    <3>3. /\ ~clk => /\ Writing' /\ Fed(call.data)' /\ (Fed(call.data) => Passed(call.data)')
                     /\ Writing /\ Passed(call.data) => lat'.sram = call.data
          /\ clk => /\ state' = state /\ lat'.sram = lat.sram
                    /\ Fed(call.data) => Fed(call.data)'
                    /\ Passed(call.data) => Passed(call.data)'
      <4> DEFINE d == call.data
      <4>1. d \in Data /\ AvrBus = d BY <3>2
      <4>2. d' = d BY <2>1
      <4> HIDE DEF d
      <4>3. PICK e \in Data : e = d BY <4>1
      <4>4. /\ ~clk => /\ Writing' /\ Fed(e)' /\ (Fed(e) => Passed(e)')
                       /\ Writing /\ Passed(e) => lat'.sram = e
            /\ clk => /\ state' = state /\ lat'.sram = lat.sram
                      /\ Fed(e) => Fed(e)'
                      /\ Passed(e) => Passed(e)'
        BY <1>3, <2>2, <3>2, <4>1, <4>3, ByteMovesIn
      <4> QED BY <4>2, <4>3, <4>4 DEF d, Fed, Passed
    <3>4. /\ Passed(call.data)
          /\ Clocks(Base + 3, 1) => Writing
          /\ Clocks(Base + 3, 2) => lat.sram = call.data
      BY <2>4 DEF StoringWrite
    <3>5. /\ clk /\ Clocks(Base + 3, 1)' => Clocks(Base + 3, 1)
          /\ clk /\ Clocks(Base + 3, 2)' => Clocks(Base + 3, 2)
          /\ ~clk /\ Clocks(Base + 3, 2)' => Clocks(Base + 3, 1)
      <4>1. Base + 3 \in Nat /\ 1 \in Nat /\ 2 \in Nat /\ 1 + 1 = 2 BY <1>0
      <4> HIDE DEF Base
      <4>2. /\ clk /\ Clocks(Base + 3, 1)' => Clocks(Base + 3, 1)
            /\ clk /\ Clocks(Base + 3, 2)' => Clocks(Base + 3, 2)
            /\ ~clk /\ Clocks(Base + 3, 1 + 1)' => Clocks(Base + 3, 1)
        BY <1>3, <2>2, <4>1, ClocksAdd
      <4> QED BY <4>1, <4>2
    <3>6. clk => Writing' = Writing BY <3>3 DEF Writing
    <3>7. Passed(call.data)' BY <3>3, <3>4 DEF Passed
    <3>8. Clocks(Base + 3, 1)' => Writing' BY <3>3, <3>4, <3>5, <3>6
    <3>9. Clocks(Base + 3, 2)' => lat'.sram = call.data BY <3>3, <3>4, <3>5
    <3> QED BY <3>7, <3>8, <3>9
  <2> QED BY <2>3, <2>4
<1>4. CASE UNCHANGED vars
  BY <1>4 DEF vars, avrVars, cpldVars, StoringWrite, Passed, Fed, Writing, Clocks, Edges
<1> QED BY <1>1, <1>2, <1>3, <1>4 DEF Next

\* Every step keeps SRAM_burst_start on its way.
LEMMA StartStores ==
  ASSUME TypeOK, Placed, Pins, Wires, Rested, Calm, StoringStart, [Next]_vars
  PROVE  StoringStart'
<1>0. Base \in Nat /\ Base > 2 BY WidthAssumption DEF Base
<1>1. CASE Call
  <2>1. step' = 1 /\ high' = TRUE BY <1>1, Starting
  <2>2. 1 \notin 2..Base + 1 BY <1>0
  <2> QED BY <2>1, <2>2 DEF StoringStart
<1>2. CASE Execute \/ Stall
  <2>1. /\ ~high /\ high' = TRUE /\ UNCHANGED <<call, state>>
        /\ step' = step \/ (step' = step + 1 /\ step \in 1..Count(call))
        /\ step \in Nat \ {0}
    BY <1>2, BetweenEdges DEF TypeOK
  <2> SUFFICES ASSUME call.fn = "burst_start", step' \in 2..Base + 1
               PROVE  state = "IDLE"
    BY <2>1 DEF StoringStart
  <2>2. CASE step \in 2..Base + 1 BY <2>2 DEF StoringStart
  <2>3. CASE step = 1
    <3>1. pins.we /\ pins.oe BY <2>3 DEF Pins, Strobes
    <3>2. call.fn # "init" OBVIOUS
    <3> QED BY <2>1, <2>3, <3>1, <3>2, IdleFirst
  <2> QED BY <1>0, <2>1, <2>2, <2>3
<1>3. CASE CpldEdge
  <2>1. UNCHANGED <<call, step, pins>> /\ step \in Nat /\ call \in Calls
    BY <1>3, Clocking DEF avrVars, TypeOK
  <2> SUFFICES ASSUME call.fn = "burst_start"
               PROVE  /\ step \in 2..Base + 1 => state' = "IDLE"
                      /\ Finished /\ clk' => Writing'
    BY <2>1 DEF StoringStart, Finished
  <2>2. /\ pins.we <=> step <= Base + 1
        /\ pins.oe /\ (step > 1 => pins.out) /\ ~pins.reset
    BY DEF Wires, Levels, Pins, Strobes, Started
  <2>3. ASSUME step \in 2..Base + 1 PROVE state' = "IDLE"
    <3>1. state = "IDLE" BY <2>3 DEF StoringStart
    <3>2. pins.we BY <1>0, <2>2, <2>3
    <3> QED BY <1>3, <2>2, <3>1, <3>2, IdleStays
  <2>4. ASSUME Finished, clk' PROVE Writing'
    <3>1. step > 1 /\ ~pins.we
      <4>1. Count(call) = Base + 1 BY <2>1, BurstStartAt
      <4>2. step > Count(call) BY <2>4 DEF Finished, Count
      <4> QED BY <1>0, <2>1, <2>2, <4>1, <4>2
    <3>2. call.fn # "init" OBVIOUS
    <3>3. AvrBus = pins.data /\ pins.data \in Data /\ ~Reading
      BY <2>2, <3>1, <3>2, BusesCarry
    <3>4. PICK e \in Data : AvrBus = e BY <3>3
    <3>5. clk' = ~clk /\ (~clk => Writing') BY <1>3, <2>2, <3>1, <3>3, <3>4, ByteMovesIn
    <3> QED BY <2>4, <3>5
  <2> QED BY <2>3, <2>4
<1>4. CASE UNCHANGED vars
  BY <1>4 DEF vars, avrVars, cpldVars, StoringStart, Writing, Finished
<1> QED BY <1>1, <1>2, <1>3, <1>4 DEF Next

\* A burst in progress between two calls: the machine writes, or will with
\* the next edge.
LEMMA BurstGoesOn ==
  ASSUME TypeOK, Pins, Storing, Finished, burst, ~high, clk
  PROVE  Writing
<1>1. call.fn \in {"burst_start", "burst_put"} BY DEF TypeOK, Pins, Bursting, Raised
<1> QED BY <1>1 DEF Storing, StoringStart, StoringPut

\* Every step keeps a byte of a burst on its way.
LEMMA PutStores ==
  ASSUME TypeOK, Placed, Pins, Wires, Calm, Storing, [Next]_vars
  PROVE  StoringPut'
<1>1. CASE Call
  <2>1. /\ ~high /\ high' = TRUE /\ Finished /\ step' = 1 /\ UNCHANGED <<clk, state>>
        /\ call'.fn = "burst_put" => burst
    BY <1>1, Starting
  <2>2. ~Started' BY <2>1 DEF Started
  <2>3. call'.fn = "burst_put" /\ clk => Writing BY <2>1, BurstGoesOn
  <2> QED BY <2>1, <2>2, <2>3 DEF StoringPut, Writing
<1>2. CASE Execute \/ Stall
  <2>1. /\ ~high /\ high' = TRUE /\ (clk' => clk) /\ UNCHANGED <<call, state, lat>>
        /\ step' = step \/ (step' = step + 1 /\ step \in 1..Count(call))
        /\ step \in Nat \ {0} /\ call \in Calls
    BY <1>2, BetweenEdges DEF TypeOK
  <2>2. /\ Clocks(2, 1)' => Clocks(2, 1)
        /\ Clocks(2, 2)' => Clocks(2, 2)
        /\ Clocks(2, 3)' => Clocks(2, 3)
    BY <1>2, BetweenEdges
  <2> SUFFICES ASSUME call.fn = "burst_put"
               PROVE  /\ Writing
                      /\ Started' => /\ Clocks(2, 1)' => Fed(call.data)
                                     /\ Clocks(2, 2)' => Passed(call.data)
                                     /\ Clocks(2, 3)' => /\ Passed(call.data)
                                                         /\ lat.sram = call.data
    BY <2>1 DEF StoringPut, Passed, Fed, Writing
  <2>3. Writing BY <2>1 DEF Storing, StoringPut
  <2>4. CASE Started
    BY <2>2, <2>3, <2>4 DEF Storing, StoringPut
  <2>5. CASE ~Started
    <3>1. step = 1 BY <2>1, <2>5 DEF Started
    <3>2. Started' => step' = 2 BY <2>1, <3>1 DEF Started
    <3>3. step' = 2 => ~Clocks(2, 1)' /\ ~Clocks(2, 2)' /\ ~Clocks(2, 3)'
      BY <2>1 DEF Clocks, Edges
    <3> QED BY <2>3, <3>2, <3>3
  <2> QED BY <2>4, <2>5
<1>3. CASE CpldEdge
  <2>1. UNCHANGED <<call, step, pins>> /\ high' = FALSE /\ step \in Nat /\ call \in Calls
    BY <1>3, Clocking DEF avrVars, TypeOK
  <2> SUFFICES ASSUME call.fn = "burst_put"
               PROVE  /\ Writing'
                      /\ Started => /\ Clocks(2, 1)' => Fed(call.data)'
                                    /\ Clocks(2, 2)' => Passed(call.data)'
                                    /\ Clocks(2, 3)' => /\ Passed(call.data)'
                                                        /\ lat'.sram = call.data
    BY <2>1 DEF StoringPut, Started, Passed, Fed
  <2>2. /\ ~pins.we /\ pins.out /\ ~pins.reset
        /\ step > 1 => pins.data = call.data
    BY DEF Wires, Levels, Pins, Strobes
  <2>3. AvrBus = pins.data /\ pins.data \in Data /\ ~Reading
    <3>1. call.fn # "init" OBVIOUS
    <3> QED BY <2>2, <3>1, BusesCarry
  <2>4. PICK e \in Data : AvrBus = e /\ e = pins.data BY <2>3
  <2>5. /\ ~clk => /\ Writing' /\ Fed(e)' /\ (Fed(e) => Passed(e)')
                   /\ Writing /\ Passed(e) => lat'.sram = e
        /\ clk => /\ state' = state /\ lat'.sram = lat.sram
                  /\ Fed(e) => Fed(e)'
                  /\ Passed(e) => Passed(e)'
    BY <1>3, <2>2, <2>3, <2>4, ByteMovesIn
  <2>6. Writing'
    <3>1. clk => Writing BY DEF Storing, StoringPut
    <3> QED BY <2>5, <3>1 DEF Writing
  <2>7. ASSUME Started
        PROVE  /\ Clocks(2, 1)' => Fed(call.data)'
               /\ Clocks(2, 2)' => Passed(call.data)'
               /\ Clocks(2, 3)' => Passed(call.data)' /\ lat'.sram = call.data
    <3>1. e = call.data /\ call' = call BY <2>1, <2>2, <2>4, <2>7 DEF Started
    <3>2. /\ Writing /\ (Clocks(2, 1) => Fed(e)) /\ (Clocks(2, 2) => Passed(e))
          /\ Clocks(2, 3) => Passed(e) /\ lat.sram = e
      BY <2>7, <3>1 DEF Storing, StoringPut
    <3>3. /\ clk /\ Clocks(2, 1)' => Clocks(2, 1)
          /\ clk /\ Clocks(2, 2)' => Clocks(2, 2)
          /\ clk /\ Clocks(2, 3)' => Clocks(2, 3)
          /\ ~clk /\ Clocks(2, 2)' => Clocks(2, 1)
          /\ ~clk /\ Clocks(2, 3)' => Clocks(2, 2)
      <4>1. /\ clk /\ Clocks(2, 1)' => Clocks(2, 1)
            /\ clk /\ Clocks(2, 2)' => Clocks(2, 2)
            /\ clk /\ Clocks(2, 3)' => Clocks(2, 3)
            /\ ~clk /\ Clocks(2, 1 + 1)' => Clocks(2, 1)
            /\ ~clk /\ Clocks(2, 2 + 1)' => Clocks(2, 2)
        BY <1>3, <2>2, ClocksAdd
      <4>2. 1 + 1 = 2 /\ 2 + 1 = 3 OBVIOUS
      <4> QED BY <4>1, <4>2
    <3>4. Passed(e) => Fed(e) BY DEF Passed
    <3>5. Clocks(2, 1)' => Fed(e)' BY <2>5, <3>2, <3>3
    <3>6. Clocks(2, 2)' => Passed(e)' BY <2>5, <3>2, <3>3
    <3>7. Clocks(2, 3)' => Passed(e)' /\ lat'.sram = e BY <2>5, <3>2, <3>3, <3>4
    <3>8. (Fed(e)' <=> Fed(call.data)') /\ (Passed(e)' <=> Passed(call.data)')
      BY <3>1 DEF Fed, Passed
    <3> QED BY <3>1, <3>5, <3>6, <3>7, <3>8
  <2> QED BY <2>6, <2>7
<1>4. CASE UNCHANGED vars
  BY <1>4 DEF vars, avrVars, cpldVars, Storing, StoringPut, Started, Passed, Fed, Writing,
              Clocks, Edges
<1> QED BY <1>1, <1>2, <1>3, <1>4 DEF Next

LEMMA StoringKept ==
  ASSUME TypeOK, Placed, Pins, Wires, Rested, Calm, Storing, [Next]_vars
  PROVE  Storing'
BY WriteStores, StartStores, PutStores DEF Storing

LEMMA StoringBegins == Init => Storing
<1> SUFFICES ASSUME Init PROVE Storing
  OBVIOUS
<1>1. call.fn = "init" BY DEF Init
<1> QED BY <1>1 DEF Storing, StoringWrite, StoringStart, StoringPut

-----------------------------------------------------------------------------
(* The byte that is followed.                                              *)

\* What the program last wrote there, routine by routine.
Meant ==
  /\ call.fn = "init" => want = X
  /\ call.fn = "write" /\ call.addr = watch => want = call.data
  /\ call.fn \in {"burst_start", "burst_put", "burst_end"} /\ cur = watch => want = X
  /\ call.fn = "burst_put" /\ addr = watch => want \in {X, call.data}

\* The SRAM holds it, unless the routine that writes it is still to.
Written ==
  \/ want = X
  \/ cell = want
  \/ call.fn = "write" /\ call.addr = watch /\ ~Finished
  \/ call.fn = "burst_put" /\ addr = watch /\ step < 8

Held == Meant /\ Written

\* Counting leaves no address where it was.
LEMMA IncMoves ==
  ASSUME NEW b \in Address
  PROVE  Inc(b) # b
<1>1. 0 \in 0..W - 1 BY WidthAssumption
<1>2. b[0] \in {0, 1} BY <1>1 DEF Address
<1>3. Inc(b)[0] = 1 - b[0]
  <2>1. \A j \in 0..0 - 1 : b[j] = 1 OBVIOUS
  <2> QED BY <1>1, <2>1 DEF Inc
<1>4. Inc(b)[0] # b[0] BY <1>2, <1>3
<1> QED BY <1>4

\* The register moves in a burst only in the counter's pulse, to the address
\* counted.
LEMMA PutMoves ==
  ASSUME TypeOK, Placed, Pins, Wires, Counting, CpldEdge, call.fn = "burst_put"
  PROVE  /\ step # 8 => addr' = addr
         /\ step = 8 => addr' = addr \/ addr' = cur
<1>1. pins.en /\ (pins.counter <=> step # 8) /\ ~pins.reset
  BY DEF Wires, Levels, Pins, Strobes
<1>2. addr' = IF clk THEN addr ELSE SregEdge(addr, pins.en, pins.counter, pins.si)
  BY <1>1, RegisterMoves
<1>3. step # 8 => addr' = addr BY <1>1, <1>2 DEF SregEdge
<1>4. ASSUME step = 8, ~clk PROVE addr' = cur
  <2>1. Count(call) = 8 /\ Code(call)[8] = Sbi("counter") BY PulsesAt DEF TypeOK
  <2>2. ~Finished BY <1>4, <2>1 DEF Finished, Count
  <2>3. left \in 1..2 BY <1>4, <2>1, <2>2, PinNames DEF Placed
  <2>4. left \in {1, 2} BY <2>3
  <2>5. ~Pulsed BY <1>1, <1>4, <2>4, PulseEdge
  <2>6. Inc(addr) = cur BY <1>4, <2>5 DEF Counting
  <2> QED BY <1>1, <1>2, <1>4, <2>6 DEF SregEdge
<1> QED BY <1>2, <1>3, <1>4

\* The two instructions that lower the write strobe.
LEMMA StrobeFalls ==
  ASSUME TypeOK, Placed, Pins, Pins', Levels, Levels', Execute, left = 1,
         call.fn # "init", pins.we, ~pins'.we
  PROVE  \/ call.fn = "write" /\ step = Base + 2
         \/ call.fn = "burst_start" /\ step = Base + 1
<1>0. Base \in Nat BY WidthAssumption DEF Base
<1>1. call' = call /\ step' = step + 1 /\ step \in Nat /\ call \in Calls
  BY Executing DEF TypeOK
<1>2. call.fn \in {"write", "burst_start", "burst_end"}
  BY <1>1 DEF Calls, Pins, Strobes, Levels
<1>3. CASE call.fn = "write"
  <2>1. step \notin Base + 3..Base + 7 /\ step + 1 \in Base + 3..Base + 7
    BY <1>1, <1>3 DEF Levels
  <2> QED BY <1>0, <1>1, <1>3, <2>1
<1>4. CASE call.fn = "burst_start"
  <2>1. step <= Base + 1 /\ ~(step + 1 <= Base + 1) BY <1>1, <1>4 DEF Levels
  <2> QED BY <1>0, <1>1, <1>4, <2>1
<1>5. CASE call.fn = "burst_end"
  <2>1. step > 2 /\ ~(step + 1 > 2) BY <1>1, <1>5 DEF Levels
  <2> QED BY <1>1, <2>1
<1> QED BY <1>2, <1>3, <1>4, <1>5

\* The addressed routines show their address from here on.
LEMMA AddressShown ==
  ASSUME TypeOK, Lines, Addressed, step >= Base
  PROVE  addr = call.addr
<1>1. W \in Nat /\ Base = 3 * W + 6 /\ step \in Nat BY WidthAssumption DEF Base, TypeOK
<1>2. step > 3 * W + 2 BY <1>1
<1> QED BY <1>2 DEF Lines, Passing

\* Every step keeps track of what was last written.
LEMMA MeantKept ==
  ASSUME TypeOK, Placed, Pins, Wires, Lines, Meant, [Next]_vars
  PROVE  Meant'
<1>1. CASE Call
  <2>1. /\ Finished /\ step' = 1 /\ addr' = addr /\ watch' = watch
        /\ call'.fn \in IF burst THEN {"burst_put", "burst_end"}
                        ELSE {"read", "write", "burst_start", "en_low"}
    BY <1>1, Starting
  <2>2. burst => addr = cur BY <2>1, BurstAtRest
  <2>3. cur \in Address /\ Inc(cur) # cur BY IncMoves DEF TypeOK
  <2>4. CASE call'.fn = "write" BY <1>1, <2>1, <2>4, CallSets DEF Meant
  <2>5. CASE call'.fn = "burst_start" BY <1>1, <2>1, <2>5, CallSets DEF Meant
  <2>6. CASE call'.fn = "burst_put"
    <3>1. cur' = Inc(cur) /\ addr = cur BY <1>1, <2>1, <2>2, <2>6, CallSets
    <3>2. cur = watch => want' = call'.data
      <4>1. cur = watch => cur' # watch BY <2>3, <3>1
      <4> QED BY <1>1, <2>6, <4>1, CallSets
    <3>3. cur' = watch => want' = X
      <4>1. cur' = watch => cur # watch BY <2>3, <3>1
      <4> QED BY <1>1, <2>6, <4>1, CallSets
    <3> QED BY <2>1, <2>6, <3>1, <3>2, <3>3 DEF Meant
  <2>7. CASE call'.fn = "burst_end"
    <3>1. cur' = cur /\ want' = want /\ burst BY <1>1, <2>1, <2>7, CallSets
    <3>2. call.fn \in {"burst_start", "burst_put"} BY <3>1 DEF Pins, Bursting, Raised
    <3> QED BY <2>1, <2>7, <3>1, <3>2 DEF Meant
  <2>8. CASE call'.fn \in {"read", "en_low"} BY <2>8 DEF Meant
  <2> QED BY <2>1, <2>4, <2>5, <2>6, <2>7, <2>8
<1>2. CASE Execute \/ Stall
  <2>1. UNCHANGED <<call, addr, watch, want, cur>> BY <1>2, BetweenEdges
  <2> QED BY <2>1 DEF Meant
<1>3. CASE CpldEdge
  <2>1. UNCHANGED <<call, watch, want, cur, step>> BY <1>3, Clocking DEF avrVars, specVars
  <2>2. ASSUME call.fn = "burst_put", addr' = watch PROVE want \in {X, call.data}
    <3>1. addr' = addr \/ addr' = cur BY <1>3, <2>2, PutMoves DEF Lines
    <3> QED BY <2>2, <3>1 DEF Meant
  <2> QED BY <2>1, <2>2 DEF Meant
<1>4. CASE UNCHANGED vars
  BY <1>4 DEF vars, avrVars, cpldVars, specVars, Meant
<1> QED BY <1>1, <1>2, <1>3, <1>4 DEF Next

\* A call touches no byte of the SRAM.
LEMMA WrittenWithCall ==
  ASSUME TypeOK, Placed, Pins, Lines, Written, Call
  PROVE  Written'
<1>1. /\ Finished /\ step' = 1 /\ addr' = addr /\ watch' = watch /\ cell' = cell
      /\ call'.fn \in IF burst THEN {"burst_put", "burst_end"}
                      ELSE {"read", "write", "burst_start", "en_low"}
      /\ call' \in Calls
  BY Starting
<1>2. burst => addr = cur BY <1>1, BurstAtRest
<1>3. want = X \/ cell = want
  <2>1. call.fn = "burst_put" => ~(step < 8)
    <3>1. call.fn = "burst_put" => Count(call) = 8 BY BurstPutAt DEF TypeOK
    <3>2. step > Count(call) /\ step \in Nat BY <1>1 DEF Finished, Count, TypeOK
    <3> QED BY <3>1, <3>2
  <2> QED BY <1>1, <2>1 DEF Written
<1>4. CASE call'.fn = "write" /\ call'.addr = watch
  <2>1. ~Finished'
    <3>1. Count(call') \in Nat \ {0} BY <1>1, CodeIs
    <3> QED BY <1>1, <3>1 DEF Finished, Count
  <2> QED BY <1>1, <1>4, <2>1 DEF Written
<1>5. CASE call'.fn = "burst_put" /\ cur = watch
  <2>1. addr' = watch /\ step' < 8 BY <1>1, <1>2, <1>5
  <2> QED BY <1>1, <1>5, <2>1 DEF Written
<1>6. CASE /\ ~(call'.fn = "write" /\ call'.addr = watch)
           /\ ~(call'.fn = "burst_put" /\ cur = watch)
  <2>1. want' = X \/ want' = want BY <1>6, CallSets
  <2> QED BY <1>1, <1>3, <2>1 DEF Written
<1> QED BY <1>4, <1>5, <1>6

\* The end of an instruction may open or close the SRAM to the data lines: it
\* closes it only once the byte is there.
LEMMA WrittenWithInstructions ==
  ASSUME TypeOK, Placed, Pins, Pins', Wires, Wires', Lines, Settled, Storing, Meant,
         Written, Execute
  PROVE  Written'
<1>0. W \in Nat /\ W > 0 /\ Base = 3 * W + 6 BY WidthAssumption DEF Base
<1>1. /\ ~high /\ UNCHANGED <<call, addr, lat, watch, want, cur>>
      /\ step \in 1..Count(call) /\ step \in Nat /\ call \in Calls
      /\ pins.we \in BOOLEAN
  BY Executing DEF TypeOK, specVars
<1>2. cell' = IF ~pins'.we /\ addr = watch THEN Sample(lat.sram) ELSE cell
  BY <1>1, ByteSettles DEF Execute
<1> SUFFICES ASSUME want # X PROVE Written'
  BY <1>1 DEF Written
<1>3. call.fn # "init" BY DEF Meant
<1>4. \/ left # 1 /\ UNCHANGED <<pins, step>>
      \/ left = 1 /\ step' = step + 1
  BY Executing
<1>5. CASE cell' = cell
  <2>1. CASE cell = want BY <1>1, <1>5, <2>1 DEF Written
  <2>2. CASE call.fn = "write" /\ call.addr = watch /\ ~Finished
    <3>1. CASE ~Finished' BY <1>1, <2>2, <3>1 DEF Written
    <3>2. CASE Finished'
      <4>1. Count(call) = Base + 7 BY <1>1, <2>2, WriteAt
      <4>2. step = Base + 7
        <5>1. step' > Count(call) BY <1>1, <3>2 DEF Finished, Count
        <5>2. step' = step \/ step' = step + 1 BY <1>4
        <5> QED BY <1>0, <1>1, <4>1, <5>1, <5>2
      <4>3. step \in Base + 3..Base + 7 /\ step >= Base BY <1>0, <4>2
      <4>4. Clocks(Base + 3, 2)
        <5>1. Edges(Base + 3) = 5
          <6>1. Edges(Base + 3) = (step - (Base + 3)) + 1 BY <1>1 DEF Edges
          <6> QED BY <1>0, <4>2, <6>1
        <5> QED BY <5>1 DEF Clocks
      <4>5. lat.sram = call.data BY <2>2, <4>3, <4>4 DEF Storing, StoringWrite
      <4>6. ~pins.we BY <2>2, <4>3 DEF Wires, Levels
      <4>7. addr = watch BY <2>2, <4>3, AddressShown DEF Addressed
      <4>8. call.data \in Data BY <1>1, <2>2, CallsHold
      <4>9. cell = call.data BY <4>5, <4>6, <4>7, <4>8, BytesSampled DEF Settled
      <4>10. want = call.data BY <2>2 DEF Meant
      <4> QED BY <1>1, <1>5, <4>9, <4>10 DEF Written
    <3> QED BY <3>1, <3>2
  <2>3. CASE call.fn = "burst_put" /\ addr = watch /\ step < 8
    <3>1. ~pins'.we BY <1>1, <2>3 DEF Wires, Levels
    <3>2. CASE step' < 8 BY <1>1, <2>3, <3>2 DEF Written
    <3>3. CASE ~(step' < 8)
      <4>1. step = 7 BY <1>1, <1>4, <2>3, <3>3
      <4>2. Started /\ Clocks(2, 3) BY <1>1, <4>1 DEF Started, Clocks, Edges
      <4>3. lat.sram = call.data BY <2>3, <4>2 DEF Storing, StoringPut
      <4>4. call.data \in Data BY <1>1, <2>3, CallsHold
      <4>5. cell' = call.data BY <1>2, <2>3, <3>1, <4>3, <4>4, BytesSampled
      <4>6. want = call.data BY <2>3 DEF Meant
      <4> QED BY <1>1, <4>5, <4>6 DEF Written
    <3> QED BY <3>2, <3>3
  <2> QED BY <2>1, <2>2, <2>3 DEF Written
<1>6. CASE cell' # cell
  <2>1. ~pins'.we /\ addr = watch /\ pins.we BY <1>2, <1>6 DEF Settled
  <2>2. left = 1 BY <1>4, <2>1
  <2>3. \/ call.fn = "write" /\ step = Base + 2
        \/ call.fn = "burst_start" /\ step = Base + 1
    BY <1>3, <2>1, <2>2, StrobeFalls DEF Wires
  <2>4. addr = call.addr
    <3>1. step >= Base BY <1>0, <2>3
    <3> QED BY <2>3, <3>1, AddressShown DEF Addressed
  <2>5. CASE call.fn = "write" /\ step = Base + 2
    <3>1. Count(call) = Base + 7 BY <1>1, <2>5, WriteAt
    <3>2. step' = Base + 3
      <4>1. step' = step + 1 BY <1>4, <2>2
      <4> QED BY <1>0, <2>5, <4>1
    <3>3. ~Finished' BY <1>0, <1>1, <3>1, <3>2 DEF Finished, Count
    <3> QED BY <1>1, <2>1, <2>4, <2>5, <3>3 DEF Written
  <2>6. CASE call.fn = "burst_start"
    <3>1. cur = watch BY <2>1, <2>4, <2>6 DEF Lines, Counting
    <3>2. want = X BY <2>6, <3>1 DEF Meant
    <3> QED BY <3>2
  <2> QED BY <2>3, <2>5, <2>6
<1> QED BY <1>5, <1>6

\* A falling edge may change the data lines while the SRAM is open to them.
LEMMA WrittenWithEdges ==
  ASSUME TypeOK, Placed, Pins, Wires, Lines, Lines', Storing', Meant, Written, CpldEdge
  PROVE  Written'
<1>0. W \in Nat /\ W > 0 /\ Base = 3 * W + 6 BY WidthAssumption DEF Base
<1>1. /\ high' = FALSE /\ UNCHANGED <<pins, call, step, watch, want, cur>>
      /\ step \in 1..Count(call) + 1 /\ step \in Nat /\ call \in Calls
      /\ Count(call) \in Nat
  BY Clocking, CodeIs DEF avrVars, specVars, TypeOK, Placed
<1>2. cell' = IF ~pins.we /\ addr' = watch THEN Sample(lat'.sram) ELSE cell
  BY <1>1, ByteSettles DEF CpldEdge
<1> SUFFICES ASSUME want # X PROVE Written'
  BY <1>1 DEF Written
<1>3. call.fn # "init" BY DEF Meant
<1>4. CASE call.fn \in {"read", "en_low"}
  <2>1. pins.we BY <1>4 DEF Pins, Strobes
  <2> QED BY <1>1, <1>2, <1>4, <2>1 DEF Written
<1>5. CASE call.fn = "write"
  <2>1. CASE cell' = cell BY <1>1, <1>5, <2>1 DEF Written, Finished
  <2>2. CASE cell' # cell
    <3>1. ~pins.we /\ addr' = watch BY <1>2, <2>2
    <3>2. step \in Base + 3..Base + 7 BY <1>5, <3>1 DEF Wires, Levels
    <3>3. ~Finished'
      <4>1. Count(call) = Base + 7 BY <1>1, <1>5, WriteAt
      <4> QED BY <1>0, <1>1, <3>2, <4>1 DEF Finished, Count
    <3>4. addr' = call.addr
      <4>1. step > 3 * W + 2 BY <1>0, <3>2
      <4> QED BY <1>1, <1>5, <4>1 DEF Lines, Passing, Addressed
    <3> QED BY <1>1, <1>5, <3>1, <3>3, <3>4 DEF Written
  <2> QED BY <2>1, <2>2
<1>6. CASE call.fn = "burst_start"
  <2>1. CASE cell' = cell BY <1>1, <1>6, <2>1 DEF Written
  <2>2. CASE cell' # cell
    <3>1. ~pins.we /\ addr' = watch BY <1>2, <2>2
    <3>2. ~(step <= Base + 1) BY <1>6, <3>1 DEF Wires, Levels
    <3>3. step > 3 * W + 2 BY <1>0, <1>1, <3>2
    <3>4. addr' = call.addr BY <1>1, <1>6, <3>3 DEF Lines, Passing, Addressed
    <3>5. cur = watch BY <1>6, <3>1, <3>4 DEF Lines, Counting
    <3> QED BY <1>6, <3>5 DEF Meant
  <2> QED BY <2>1, <2>2
<1>7. CASE call.fn = "burst_end"
  <2>1. CASE cell' = cell BY <1>1, <1>7, <2>1 DEF Written
  <2>2. CASE cell' # cell
    <3>1. addr' = watch BY <1>2, <2>2
    <3>2. addr' = cur BY <1>1, <1>7 DEF Lines, Counting
    <3> QED BY <1>7, <3>1, <3>2 DEF Meant
  <2> QED BY <2>1, <2>2
<1>8. CASE call.fn = "burst_put"
  <2>1. ~pins.we BY <1>8 DEF Wires, Levels
  <2>2. /\ step # 8 => addr' = addr
        /\ step = 8 => addr' = addr \/ addr' = cur
    BY <1>8, PutMoves DEF Lines
  <2>3. CASE addr' # watch
    <3>1. cell' = cell BY <1>2, <2>3
    <3>2. ~(addr = watch /\ step < 8) BY <1>1, <2>2, <2>3
    <3>3. cell = want BY <1>8, <3>2 DEF Written
    <3> QED BY <1>1, <3>1, <3>3 DEF Written
  <2>4. CASE addr' = watch /\ step < 8 BY <1>1, <1>8, <2>4 DEF Written
  <2>5. CASE addr' = watch /\ ~(step < 8)
    <3>1. cell' = Sample(lat'.sram) BY <1>2, <2>1, <2>5
    <3>2. lat'.sram = call.data
      <4>1. Started' /\ Clocks(2, 3)'
        <5>1. Edges(2)' = (step - 2) + 1 BY <1>1 DEF Edges
        <5>2. Edges(2)' >= 2 * 3 BY <1>1, <2>5, <5>1
        <5> QED BY <1>1, <2>5, <5>2 DEF Started, Clocks
      <4> QED BY <1>1, <1>8, <4>1 DEF Storing, StoringPut
    <3>3. call.data \in Data BY <1>1, <1>8, CallsHold
    <3>4. cell' = call.data BY <3>1, <3>2, <3>3, BytesSampled
    <3>5. want = call.data
      <4>1. want \in {X, call.data}
        <5>1. CASE addr' = addr BY <1>8, <2>5, <5>1 DEF Meant
        <5>2. CASE addr' = cur BY <1>8, <2>5, <5>2 DEF Meant
        <5> QED BY <1>1, <2>2, <5>1, <5>2
      <4> QED BY <4>1
    <3> QED BY <1>1, <3>4, <3>5 DEF Written
  <2> QED BY <2>3, <2>4, <2>5
<1>9. call.fn \in {"read", "en_low", "write", "burst_start", "burst_end", "burst_put"}
  BY <1>1, <1>3 DEF Calls
<1> QED BY <1>4, <1>5, <1>6, <1>7, <1>8, <1>9

\* Every step keeps the byte, or finishes writing it.
LEMMA HeldKept ==
  ASSUME TypeOK, Placed, Pins, Pins', Wires, Wires', Lines, Lines', Settled,
         Storing, Storing', Held, [Next]_vars
  PROVE  Held'
<1>0. Meant /\ Written BY DEF Held
<1>1. Meant' BY <1>0, MeantKept
<1>2. CASE Call BY <1>0, <1>1, <1>2, WrittenWithCall DEF Held
<1>3. CASE Execute BY <1>0, <1>1, <1>3, WrittenWithInstructions DEF Held
<1>4. CASE Stall
  <2>1. UNCHANGED <<call, step, addr, cell, watch, want>>
    BY <1>4 DEF Stall, cpldVars, specVars
  <2> QED BY <1>0, <1>1, <2>1 DEF Held, Written, Finished
<1>5. CASE CpldEdge BY <1>0, <1>1, <1>5, WrittenWithEdges DEF Held
<1>6. CASE UNCHANGED vars
  BY <1>0, <1>1, <1>6 DEF vars, avrVars, cpldVars, specVars, Held, Written, Finished
<1> QED BY <1>2, <1>3, <1>4, <1>5, <1>6 DEF Next

LEMMA HeldStarts == Init => Held
<1> SUFFICES ASSUME Init PROVE Held
  OBVIOUS
<1>1. call.fn = "init" /\ want = X BY DEF Init
<1> QED BY <1>1 DEF Held, Meant, Written

\* Between calls nothing is still to be written.
LEMMA HeldIsEnough ==
  ASSUME TypeOK, Held
  PROVE  ByteIsKept
<1> SUFFICES ASSUME Finished, want # X PROVE cell = want
  BY DEF ByteIsKept
<1>1. call.fn = "burst_put" => ~(step < 8)
  <2>1. call.fn = "burst_put" => Count(call) = 8 BY BurstPutAt DEF TypeOK
  <2>2. step > Count(call) /\ step \in Nat BY DEF Finished, Count, TypeOK
  <2> QED BY <2>1, <2>2
<1> QED BY <1>1 DEF Held, Written

-----------------------------------------------------------------------------
(* Bytes on their way out of it.                                           *)

\* SRAM_read finds the machine at rest, holds its strobe low until the byte
\* is on the port, and takes it from there.
Fetching ==
  call.fn = "read" =>
    /\ step \in 2..Base + 1 => state = "IDLE"
    /\ call.addr = watch =>
         /\ step \in Base + 2..Base + 7 => Fetched
         /\ step \in Base + 2..Base + 6 => /\ Clocks(Base + 2, 1) => Reading
                                           /\ Clocks(Base + 2, 2) => lat.avr = cell
         /\ step = Base + 7 => Reading /\ lat.avr = cell /\ sync = cell
         /\ step > Base + 7 => result = cell

\* The instructions of SRAM_read, and the time between them.
LEMMA FetchingWithCycles ==
  ASSUME TypeOK, Placed, Pins, Pins', Rested, Calm, Fetching, Execute \/ Stall
  PROVE  Fetching'
<1>0. Base \in Nat /\ Base > 2 BY WidthAssumption DEF Base
<1>1. /\ ~high /\ high' = TRUE /\ UNCHANGED <<call, addr, state, lat, watch>>
      /\ \/ step' = step
         \/ step' = step + 1 /\ step \in 1..Count(call) /\ Execute /\ left = 1
      /\ step \in Nat \ {0} /\ call \in Calls
  BY BetweenEdges DEF TypeOK
<1> SUFFICES ASSUME call.fn = "read" PROVE Fetching'
  BY <1>1 DEF Fetching
<1>2. call.fn # "init" /\ pins.we /\ pins'.we /\ (step > 1 => ~pins.out)
  BY <1>1 DEF Pins, Strobes, Started
<1>3. cell' = cell
  <2>1. CASE Execute
    <3>1. Settle BY <2>1 DEF Execute
    <3> QED BY <1>2, <3>1, ByteSettles
  <2>2. CASE Stall BY <2>2 DEF Stall
  <2> QED BY <2>1, <2>2
<1>4. step' \in 2..Base + 1 => state = "IDLE"
  <2>1. CASE step \in 2..Base + 1 BY <2>1 DEF Fetching
  <2>2. CASE step = 1
    <3>1. pins.oe BY <2>2 DEF Pins, Strobes
    <3> QED BY <1>1, <1>2, <2>2, <3>1, IdleFirst
  <2> QED BY <1>0, <1>1, <2>1, <2>2
<1>5. ASSUME call.addr = watch
      PROVE  /\ step' \in Base + 2..Base + 7 => Fetched
             /\ step' \in Base + 2..Base + 6 => /\ Clocks(Base + 2, 1)' => Reading
                                                /\ Clocks(Base + 2, 2)' => lat.avr = cell
             /\ step' = Base + 7 => Reading /\ lat.avr = cell /\ sync' = cell
             /\ step' > Base + 7 => result' = cell
  <2>1. CASE step = Base + 1
    <3>1. state = "IDLE"
      <4>1. step \in 2..Base + 1 BY <1>0, <2>1
      <4> QED BY <4>1 DEF Fetching
    <3>2. Fetched BY <3>1 DEF Fetched
    <3>3. step' = Base + 1 \/ step' = Base + 2 BY <1>0, <1>1, <2>1
    <3>4. step' = Base + 2 => ~Clocks(Base + 2, 1)' /\ ~Clocks(Base + 2, 2)'
      BY <1>0, <1>1 DEF Clocks, Edges
    <3> QED BY <1>0, <3>2, <3>3, <3>4
  <2>2. CASE step \in Base + 2..Base + 6
    <3>1. /\ Fetched /\ (Clocks(Base + 2, 1) => Reading)
          /\ Clocks(Base + 2, 2) => lat.avr = cell
      <4>1. step \in Base + 2..Base + 7 BY <1>0, <2>2
      <4> QED BY <1>5, <2>2, <4>1 DEF Fetching
    <3>2. /\ Clocks(Base + 2, 1)' => Clocks(Base + 2, 1)
          /\ Clocks(Base + 2, 2)' => Clocks(Base + 2, 2)
      <4>1. Base + 2 \in Nat BY <1>0
      <4> QED BY <4>1, BetweenEdges
    <3>3. ASSUME step' = Base + 7 PROVE Reading /\ lat.avr = cell /\ sync' = cell
      <4>1. step = Base + 6 BY <1>0, <1>1, <2>2, <3>3
      <4>2. Execute BY <1>0, <1>1, <3>3, <4>1
      <4>3. Edges(Base + 2) = 5
        <5>1. Edges(Base + 2) = (step - (Base + 2)) + 1 BY <1>1 DEF Edges
        <5> QED BY <1>0, <4>1, <5>1
      <4>4. Clocks(Base + 2, 1) /\ Clocks(Base + 2, 2) BY <4>3 DEF Clocks
      <4>5. sync' = lat.avr
        <5>1. sync' = AvrBus BY <4>2 DEF Execute
        <5>2. ~pins.out BY <1>0, <1>2, <4>1
        <5> QED BY <1>2, <5>1, <5>2, BusesCarry
      <4> QED BY <3>1, <4>4, <4>5
    <3>4. ~(step' > Base + 7) BY <1>0, <1>1, <2>2
    <3> QED BY <3>1, <3>2, <3>3, <3>4
  <2>3. CASE step = Base + 7
    <3>1. Reading /\ lat.avr = cell /\ sync = cell /\ Fetched
      <4>1. step \in Base + 2..Base + 7 BY <1>0, <2>3
      <4> QED BY <1>5, <2>3, <4>1 DEF Fetching
    <3>2. sync' = lat.avr
      <4>1. sync' = AvrBus BY DEF Execute, Stall
      <4>2. ~pins.out BY <1>0, <1>2, <2>3
      <4> QED BY <1>2, <4>1, <4>2, BusesCarry
    <3>3. step' > Base + 7 => result' = cell
      <4>1. Code(call)[Base + 7] = In BY <1>1, ReadAt
      <4>2. ASSUME step' > Base + 7 PROVE result' = sync
        <5>1. Execute /\ left = 1 BY <1>0, <1>1, <2>3, <4>2
        <5>2. ~(left > 1) BY <5>1
        <5>3. result' = IF Code(call)[step].pin = "in" THEN sync ELSE result
          BY <5>1, <5>2 DEF Execute
        <5> QED BY <2>3, <4>1, <5>3, PinNames
      <4> QED BY <3>1, <4>2
    <3>4. step' \notin Base + 2..Base + 6 BY <1>0, <1>1, <2>3
    <3> QED BY <3>1, <3>2, <3>3, <3>4
  <2>4. CASE step > Base + 7
    <3>1. result = cell BY <1>5, <2>4 DEF Fetching
    <3>2. result' = result
      <4>1. CASE Stall BY <4>1 DEF Stall
      <4>2. CASE Execute
        <5>1. Count(call) = Base + 8 /\ Code(call)[Base + 8] = Sbi("oe") BY <1>1, ReadAt
        <5>2. step \in 1..Count(call) BY <4>2, Executing
        <5>3. step = Base + 8 BY <1>0, <2>4, <5>1, <5>2
        <5>4. Code(call)[step].pin # "in" BY <5>1, <5>3, PinNames
        <5> QED BY <4>2, <5>4 DEF Execute
      <4> QED BY <4>1, <4>2
    <3>3. step' > Base + 7 BY <1>0, <1>1, <2>4
    <3> QED BY <1>0, <3>1, <3>2, <3>3
  <2>5. CASE step < Base + 1
    <3>1. ~(step' > Base + 1) /\ step' \in Nat BY <1>0, <1>1, <2>5
    <3> QED BY <1>0, <3>1
  <2> QED BY <1>0, <1>1, <2>1, <2>2, <2>3, <2>4, <2>5
<1> QED BY <1>1, <1>3, <1>4, <1>5 DEF Fetching, Fetched, Reading

\* The edges of the CPLD in SRAM_read.
LEMMA FetchingWithEdges ==
  ASSUME TypeOK, Placed, Pins, Wires, Lines, Calm, Fetching, CpldEdge
  PROVE  Fetching'
<1>0. Base \in Nat /\ Base > 2 BY WidthAssumption DEF Base
<1>1. UNCHANGED <<pins, call, step, watch, sync, result>> /\ step \in Nat /\ call \in Calls
  BY Clocking DEF avrVars, specVars, TypeOK
<1> SUFFICES ASSUME call.fn = "read" PROVE Fetching'
  BY <1>1 DEF Fetching
<1>2. /\ call.fn # "init" /\ pins.we /\ ~pins.reset
      /\ pins.oe <=> step \notin Base + 2..Base + 8
  BY DEF Pins, Strobes, Wires, Levels
<1>3. cell' = cell
  <2>1. Settle BY DEF CpldEdge
  <2> QED BY <1>1, <1>2, <2>1, ByteSettles
<1>4. ASSUME step \in 2..Base + 1 PROVE state' = "IDLE"
  <2>1. state = "IDLE" BY <1>4 DEF Fetching
  <2>2. pins.oe BY <1>0, <1>2, <1>4
  <2> QED BY <1>2, <2>1, <2>2, IdleStays
<1>5. ASSUME call.addr = watch, step \in Base + 2..Base + 7
      PROVE  /\ Fetched'
             /\ step \in Base + 2..Base + 6 => /\ Clocks(Base + 2, 1)' => Reading'
                                               /\ Clocks(Base + 2, 2)' => lat'.avr = cell
             /\ step = Base + 7 => Reading' /\ lat'.avr = cell
  <2>1. step > 1 /\ step >= Base /\ step \in Base + 2..Base + 8 BY <1>0, <1>5
  <2>2. addr = watch BY <1>5, <2>1, AddressShown DEF Addressed
  <2>3. ~pins.oe /\ ~Writing BY <1>2, <2>1 DEF Calm, Started
  <2>4. SramBus = cell BY <1>2, <2>2, <2>3, BusesCarry
  <2>5. /\ ~clk => /\ Reading' /\ (Fetched => Fetched')
                   /\ Reading /\ Fetched => lat'.avr = cell
        /\ clk => /\ state' = state /\ lat'.avr = lat.avr
                  /\ Fetched => Fetched'
        /\ clk' = ~clk
    BY <1>2, <2>3, <2>4, ByteMovesOut
  <2>6. /\ Fetched
        /\ step \in Base + 2..Base + 6 => /\ Clocks(Base + 2, 1) => Reading
                                          /\ Clocks(Base + 2, 2) => lat.avr = cell
        /\ step = Base + 7 => Reading /\ lat.avr = cell
    BY <1>5 DEF Fetching
  <2>7. clk => (Reading' <=> Reading) BY <2>5 DEF Reading
  <2>8. /\ clk /\ Clocks(Base + 2, 1)' => Clocks(Base + 2, 1)
        /\ clk /\ Clocks(Base + 2, 2)' => Clocks(Base + 2, 2)
        /\ ~clk /\ Clocks(Base + 2, 2)' => Clocks(Base + 2, 1)
    <3>1. Base + 2 \in Nat /\ 1 \in Nat /\ 2 \in Nat /\ 1 + 1 = 2 BY <1>0
    <3> HIDE DEF Base
    <3>2. /\ clk /\ Clocks(Base + 2, 1)' => Clocks(Base + 2, 1)
          /\ clk /\ Clocks(Base + 2, 2)' => Clocks(Base + 2, 2)
          /\ ~clk /\ Clocks(Base + 2, 1 + 1)' => Clocks(Base + 2, 1)
      BY <1>2, <3>1, ClocksAdd
    <3> QED BY <3>1, <3>2
  <2>9. Fetched' BY <2>5, <2>6
  <2>10. ASSUME step = Base + 7 PROVE Reading' /\ lat'.avr = cell
    BY <2>5, <2>6, <2>7, <2>10
  <2>11. ASSUME step \in Base + 2..Base + 6
         PROVE  /\ Clocks(Base + 2, 1)' => Reading'
                /\ Clocks(Base + 2, 2)' => lat'.avr = cell
    <3>1. /\ Clocks(Base + 2, 1) => Reading
          /\ Clocks(Base + 2, 2) => lat.avr = cell
      BY <2>6, <2>11
    <3>2. Clocks(Base + 2, 1)' => Reading' BY <2>5, <2>7, <2>8, <3>1
    <3>3. Clocks(Base + 2, 2)' => lat'.avr = cell BY <2>5, <2>6, <2>8, <3>1
    <3> QED BY <3>2, <3>3
  <2> QED BY <2>9, <2>10, <2>11
<1>6. ASSUME call.addr = watch, step > Base + 7 PROVE result = cell
  BY <1>6 DEF Fetching
<1>7. ASSUME call.addr = watch, step = Base + 7 PROVE sync = cell
  BY <1>7 DEF Fetching
<1>8. step \in Base + 2..Base + 6 => step \in Base + 2..Base + 7 BY <1>0
<1>9. step = Base + 7 => step \in Base + 2..Base + 7 BY <1>0
<1>10. step' \in 2..Base + 1 => state' = "IDLE" BY <1>1, <1>4
<1>11. ASSUME call.addr = watch
       PROVE  /\ step' \in Base + 2..Base + 7 => Fetched'
              /\ step' \in Base + 2..Base + 6 =>
                   /\ Clocks(Base + 2, 1)' => Reading'
                   /\ Clocks(Base + 2, 2)' => lat'.avr = cell'
              /\ step' = Base + 7 => Reading' /\ lat'.avr = cell' /\ sync' = cell'
              /\ step' > Base + 7 => result' = cell'
  BY <1>1, <1>3, <1>5, <1>6, <1>7, <1>8, <1>9, <1>11
<1> QED BY <1>1, <1>10, <1>11 DEF Fetching

\* Every step keeps SRAM_read on its way.
LEMMA FetchingKept ==
  ASSUME TypeOK, Placed, Pins, Pins', Wires, Lines, Rested, Calm, Fetching, [Next]_vars
  PROVE  Fetching'
<1>1. CASE Call
  <2>1. step' = 1 BY <1>1, Starting
  <2>2. Base \in Nat BY WidthAssumption DEF Base
  <2>3. 1 \notin 2..Base + 1 /\ 1 \notin Base + 2..Base + 7 /\ 1 \notin Base + 2..Base + 6
        /\ 1 # Base + 7 /\ ~(1 > Base + 7)
    BY <2>2
  <2> QED BY <2>1, <2>3 DEF Fetching
<1>2. CASE Execute \/ Stall BY <1>2, FetchingWithCycles
<1>3. CASE CpldEdge BY <1>3, FetchingWithEdges
<1>4. CASE UNCHANGED vars
  BY <1>4 DEF vars, avrVars, cpldVars, specVars, Fetching, Fetched, Reading, Clocks, Edges
<1> QED BY <1>1, <1>2, <1>3, <1>4 DEF Next

LEMMA FetchingStarts == Init => Fetching
<1> SUFFICES ASSUME Init PROVE Fetching
  OBVIOUS
<1>1. call.fn = "init" BY DEF Init
<1> QED BY <1>1 DEF Fetching

\* A read that has returned has the byte of the SRAM, the last one written.
LEMMA FetchingIsEnough ==
  ASSUME TypeOK, Fetching, ByteIsKept
  PROVE  ReadReturnsWritten
<1> SUFFICES ASSUME Finished, call.fn = "read", call.addr = watch, want # X
             PROVE  result = want
  BY DEF ReadReturnsWritten
<1>1. cell = want BY DEF ByteIsKept
<1>2. step > Base + 7
  <2>1. Base \in Nat /\ step \in Nat BY WidthAssumption DEF Base, TypeOK
  <2>2. Count(call) = Base + 8 BY ReadAt DEF TypeOK
  <2>3. step > Count(call) BY DEF Finished, Count
  <2> QED BY <2>1, <2>2, <2>3
<1> QED BY <1>1, <1>2 DEF Fetching

-----------------------------------------------------------------------------
(* The inductive invariant of the data path, and what it gives.            *)

Sound == IInv /\ Wires /\ Lines /\ Settled /\ Storing /\ Held /\ Fetching

\* Power-up satisfies it: nothing is known and nothing is under way.
LEMMA SoundStarts == Init => Sound
BY IInvStarts, WiresStart, LinesStart, SettledStart, StoringBegins, HeldStarts,
   FetchingStarts DEF Sound

\* No step breaks it, if no handler runs inside a pulse.
LEMMA SoundKept ==
  ASSUME ~InterruptsInPulse
  PROVE  Sound /\ [Next]_vars => Sound'
<1> SUFFICES ASSUME Sound, [Next]_vars PROVE Sound'
  OBVIOUS
<1>1. /\ TypeOK /\ Placed /\ Pins /\ Rested /\ Calm
      /\ Wires /\ Lines /\ Settled /\ Storing /\ Held /\ Fetching
  BY DEF Sound, IInv
<1>2. IInv' BY IInvKept DEF Sound
<1>3. Pins' BY <1>2 DEF IInv
<1>4. Wires' BY <1>1, WiresKept
<1>5. Lines' BY <1>1, LinesKept
<1>6. Settled' BY <1>1, SettledKept
<1>7. Storing' BY <1>1, StoringKept
<1>8. Held' BY <1>1, <1>3, <1>4, <1>5, <1>7, HeldKept
<1>9. Fetching' BY <1>1, <1>3, FetchingKept
<1> QED BY <1>2, <1>4, <1>5, <1>6, <1>7, <1>8, <1>9 DEF Sound

\* Between calls it says what the three properties say.
LEMMA SoundIsEnough == Sound => AddressReached /\ ByteIsKept /\ ReadReturnsWritten
<1> SUFFICES ASSUME Sound PROVE AddressReached /\ ByteIsKept /\ ReadReturnsWritten
  OBVIOUS
<1>1. TypeOK /\ Placed /\ Pins /\ Lines /\ Held /\ Fetching BY DEF Sound, IInv
<1>2. ByteIsKept BY <1>1, HeldIsEnough
<1> QED BY <1>1, <1>2, LinesAreEnough, FetchingIsEnough

\* The three promises hold together.
LEMMA SoundAlways ==
  ASSUME ~InterruptsInPulse
  PROVE  Spec => [](AddressReached /\ ByteIsKept /\ ReadReturnsWritten)
<1>1. Init => Sound BY SoundStarts
<1>2. Sound /\ [Next]_vars => Sound' BY SoundKept
<1>3. Sound => AddressReached /\ ByteIsKept /\ ReadReturnsWritten BY SoundIsEnough
<1> QED BY <1>1, <1>2, <1>3, PTL DEF Spec

\* SRAM_read, SRAM_write and a burst leave the address lines at the address
\* asked for, or counted to, if no interrupt handler runs inside a pulse: one
\* edge of the divided clock falls into each pulse, wherever the edges are.
THEOREM AddressIsReached ==
  ASSUME ~InterruptsInPulse
  PROVE  Spec => []AddressReached
BY SoundAlways, PTL

\* Between calls every byte of the SRAM is the one last written there: for
\* every width of the address, every byte, every sequence of calls and all the
\* time that may pass between and inside them, outside the pulses.
THEOREM BytesAreKept ==
  ASSUME ~InterruptsInPulse
  PROVE  Spec => []ByteIsKept
BY SoundAlways, PTL

\* A read returns the byte last written at its address: the waits of SRAM_read
\* are as long as the machine, the latches and the synchronizer need, whatever
\* the phase of the divided clock.
THEOREM ReadsReturnTheByte ==
  ASSUME ~InterruptsInPulse
  PROVE  Spec => []ReadReturnsWritten
BY SoundAlways, PTL
=============================================================================
