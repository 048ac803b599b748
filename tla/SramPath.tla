------------------------------ MODULE SramPath ------------------------------
(***************************************************************************)
(* The firmware of poc/poc_sreg/main.c reading and writing the SRAM        *)
(* through the CPLD (cpld/hdl/system.v).  The program of the AVR is the    *)
(* sequence of its instructions with their cycles; the CPLD, its two       *)
(* divided clocks and the SRAM react to the pins.                          *)
(*                                                                         *)
(* The two edges of the AVR's clock alternate: at the rising one an        *)
(* instruction ends and pins change, at the falling one the dividers       *)
(* toggle and, every second time, the address register and the bus         *)
(* machine are clocked.  One byte of the SRAM, at any address (watch), is  *)
(* followed; the others read as unknown.                                   *)
(***************************************************************************)
EXTENDS Cpld, Sequences

CONSTANT InterruptsInPulse  \* may a handler run between the cbi and the sbi of a pulse?

ASSUME InterruptAssumption == InterruptsInPulse \in BOOLEAN

VARIABLES pins,             \* what the AVR drives
          call, step, left, \* the routine running, its next instruction, its cycles left
          sync, result,     \* the input synchronizer of port A, the byte read
          high,             \* the clock of the AVR
          clk,              \* sreg_clk and fsm_clk: two dividers with the same inputs
          addr, state, lat, \* sreg.v and bus.v
          watch, cell,      \* one address of the SRAM and the byte there
          want,             \* the byte the program last wrote there, X if unknown
          burst, cur        \* inside a burst, and the address it has reached

avrVars == <<pins, call, step, left, sync, result>>
cpldVars == <<clk, addr, state, lat>>
specVars == <<watch, want, burst, cur>>
vars == <<avrVars, high, cpldVars, cell, specVars>>

-----------------------------------------------------------------------------
(* The program.                                                            *)

\* sbi and cbi take two cycles, out, in and nop one.
Sbi(p) == [pin |-> p, to |-> TRUE, cycles |-> 2]
Cbi(p) == [pin |-> p, to |-> FALSE, cycles |-> 2]
OutPort(p, v) == [pin |-> p, to |-> v, cycles |-> 1]
Nop == [pin |-> "none", to |-> FALSE, cycles |-> 1]
In == [pin |-> "in", to |-> FALSE, cycles |-> 1]
Nops(k) == [j \in 1..k |-> Nop]

\* The bits of an address, high bit first, each followed by a pulse.
SregSet(a) ==
  <<Sbi("en")>> \o
  [j \in 1..3 * W |->
     CASE j % 3 = 1 -> [pin |-> "si", to |-> a[W - 1 - j \div 3], cycles |-> 2]
       [] j % 3 = 2 -> Cbi("en")
       [] j % 3 = 0 -> Sbi("en")]

BusOff == <<Sbi("oe"), Sbi("we")>>

\* Mutant: a read samples the port two cycles after it enables the SRAM.
MutReadCode(a) ==
  <<OutPort("out", FALSE)>> \o SregSet(a) \o BusOff \o Nops(2)
  \o <<Cbi("oe")>> \o Nops(2) \o <<In, Sbi("oe")>>

\* Mutant: a read leaves the port an output.
MutDrivingReadCode(a) ==
  SregSet(a) \o BusOff \o Nops(2) \o <<Cbi("oe")>> \o Nops(5) \o <<In, Sbi("oe")>>

ReadCode(a) ==
  <<OutPort("out", FALSE)>> \o SregSet(a) \o BusOff \o Nops(2)
  \o <<Cbi("oe")>> \o Nops(5) \o <<In, Sbi("oe")>>

\* Mutant: the write strobe is as short as two instructions make it.
MutWriteCode(a, d) ==
  <<OutPort("out", TRUE)>> \o SregSet(a) \o BusOff \o Nops(2)
  \o <<OutPort("data", d), Cbi("we"), Sbi("we")>>

WriteCode(a, d) ==
  <<OutPort("out", TRUE)>> \o SregSet(a) \o BusOff \o Nops(2)
  \o <<OutPort("data", d), Cbi("we")>> \o Nops(4) \o <<Sbi("we")>>

BurstStartCode(a) ==
  <<OutPort("out", TRUE)>> \o SregSet(a) \o BusOff \o Nops(2) \o <<Cbi("we")>>

\* SRAM_burst_write and SRAM_burst_inc, as the loop calls them.
BurstPutCode(d) ==
  <<OutPort("data", d)>> \o Nops(5) \o <<Cbi("counter"), Sbi("counter")>>

\* init: the waits are shorter here than in the code.
InitCode == <<Sbi("oe"), Sbi("we"), Sbi("en"), Sbi("counter"), Sbi("reset")>>
            \o Nops(3) \o <<Cbi("reset")>> \o Nops(4)

Code(c) ==
  CASE c.fn = "init"        -> InitCode
    [] c.fn = "read"        -> ReadCode(c.addr)
    [] c.fn = "write"       -> WriteCode(c.addr, c.data)
    [] c.fn = "burst_start" -> BurstStartCode(c.addr)
    [] c.fn = "burst_put"   -> BurstPutCode(c.data)
    [] c.fn = "burst_end"   -> BusOff
    [] c.fn = "en_low"      -> <<Cbi("en")>>   \* read_back, between its calls

Calls == [fn : {"read", "burst_start"}, addr : Address]
         \cup [fn : {"write"}, addr : Address, data : Data]
         \cup [fn : {"burst_put"}, data : Data]
         \cup [fn : {"burst_end", "en_low", "init"}]

Finished == step > Len(Code(call))

\* Between the two instructions of a pulse on the register's pins.
InPulse == /\ ~Finished /\ step > 1
           /\ LET now == Code(call)[step] last == Code(call)[step - 1]
              IN now.pin \in {"en", "counter"} /\ last = Cbi(now.pin)

-----------------------------------------------------------------------------
(* The buses.                                                              *)

AvrDrives == pins.out
AvrBus == Level({IF pins.out THEN pins.data ELSE Z, lat.avr})

\* The SRAM drives its data lines when it is read, and only then (system.v
\* passes both strobes through and selects the chip when either is low).
SramDrives == ~pins.oe /\ pins.we
SramBus == Level({IF SramDrives THEN IF addr = watch THEN cell ELSE X ELSE Z,
                  lat.sram})

\* While the write strobe is low the addressed byte follows the data lines.
Settle == cell' = IF ~pins'.we /\ addr' = watch THEN Sample(SramBus') ELSE cell

Init ==
  /\ pins = [en |-> FALSE, counter |-> FALSE, we |-> FALSE, oe |-> FALSE,
             reset |-> FALSE, si |-> 0, out |-> TRUE, data |-> CHOOSE d \in Data : TRUE]
  /\ call = [fn |-> "init"] /\ step = 1 /\ left = 2 /\ sync = X /\ result = X
  /\ high = FALSE /\ clk \in BOOLEAN /\ addr \in Address /\ state \in FsmState
  /\ lat \in [avr : {Z, X}, sram : {Z, X}, buffer : {X}]
  /\ watch \in Address /\ cell = X /\ want = X /\ burst = FALSE /\ cur = addr

-----------------------------------------------------------------------------
(* Rising edges: the AVR.                                                  *)

Start(c) == /\ call' = c /\ step' = 1 /\ left' = Code(c)[1].cycles
            /\ result' = X

\* A routine is called; one cycle at least passes between two of them.
Call ==
  /\ ~high /\ Finished
  /\ \E c \in Calls :
       /\ c.fn \in IF burst THEN {"burst_put", "burst_end"}
                   ELSE {"read", "write", "burst_start", "en_low"}
       /\ Start(c)
       /\ burst' = (c.fn \in {"burst_start", "burst_put"})
       /\ cur' = CASE c.fn = "burst_start" -> c.addr
                   [] c.fn = "burst_put" -> Inc(cur)
                   [] OTHER -> cur
       /\ want' = CASE c.fn = "write" /\ c.addr = watch -> c.data
                    [] c.fn = "burst_put" /\ cur = watch -> c.data
                    [] c.fn \in {"burst_start", "burst_put"} /\ cur' = watch -> X
                    [] OTHER -> want
  /\ high' = TRUE
  /\ UNCHANGED <<pins, sync, cpldVars, cell, watch>>

\* A cycle of an instruction; in the last one its effect appears.
Execute ==
  /\ ~high /\ ~Finished
  /\ high' = TRUE /\ sync' = AvrBus
  /\ IF left > 1
     THEN left' = left - 1 /\ UNCHANGED <<pins, call, step, result, clk>>
     ELSE LET now == Code(call)[step]
          IN /\ pins' = IF now.pin \in DOMAIN pins
                        THEN [pins EXCEPT ![now.pin] = now.to] ELSE pins
             /\ result' = IF now.pin = "in" THEN sync ELSE result
             /\ step' = step + 1
             /\ left' = IF step < Len(Code(call)) THEN Code(call)[step + 1].cycles
                        ELSE 0
             /\ clk' = (clk /\ ~pins'.reset)
             /\ UNCHANGED call
  /\ UNCHANGED <<addr, state, lat, specVars>>
  /\ Settle

\* A cycle spent elsewhere: between calls, in the code around the accesses, in
\* an interrupt handler.
Stall ==
  /\ ~high /\ high' = TRUE /\ sync' = AvrBus
  /\ ~Finished => left = Code(call)[step].cycles
  /\ InPulse => InterruptsInPulse
  /\ UNCHANGED <<pins, call, step, left, result, cpldVars, cell, specVars>>

-----------------------------------------------------------------------------
(* Falling edges: the CPLD.                                                *)

\* The divided clocks toggle, unless reset holds the dividers.
Toggles == ~pins.reset /\ ~clk

CpldEdge ==
  /\ high /\ high' = FALSE
  /\ clk' = (~pins.reset /\ ~clk)
  /\ \E l \in Follow(state, lat, AvrBus, SramBus) :
       IF Toggles
       THEN /\ addr' = SregEdge(addr, pins.en, pins.counter, pins.si)
            /\ state' = IF pins.reset THEN "IDLE" ELSE FsmNext(state, pins.we, pins.oe)
            /\ lat' = IF state' = state THEN l
                      ELSE FsmOutput(state', l, AvrBus, SramBus)
       ELSE lat' = l /\ UNCHANGED <<addr, state>>
  /\ UNCHANGED <<avrVars, specVars>>
  /\ Settle

Next == Call \/ Execute \/ Stall \/ CpldEdge

Spec == Init /\ [][Next]_vars

-----------------------------------------------------------------------------
\* The pins, the registers and the levels are what the hardware has.
TypeOK ==
  /\ pins \in [en : BOOLEAN, counter : BOOLEAN, we : BOOLEAN, oe : BOOLEAN,
               reset : BOOLEAN, si : {0, 1}, out : BOOLEAN, data : Data]
  /\ call \in Calls /\ step \in Nat \ {0} /\ left \in 0..2
  /\ sync \in Data \cup {Z, X} /\ result \in Data \cup {Z, X}
  /\ high \in BOOLEAN /\ clk \in BOOLEAN
  /\ addr \in Address /\ state \in FsmState /\ lat \in Latches
  /\ watch \in Address /\ cell \in Data \cup {X} /\ want \in Data \cup {X}
  /\ burst \in BOOLEAN /\ cur \in Address

\* Between calls every byte of the SRAM is the one the program last wrote
\* there, by SRAM_write or in a burst: nothing else the program does disturbs
\* it.  A burst is taken to spoil the byte after its last one.
ByteIsKept == Finished /\ want /= X => cell = want

\* SRAM_read returns what was last written at its address.
ReadReturnsWritten ==
  Finished /\ call.fn = "read" /\ call.addr = watch /\ want /= X => result = want

\* When a call that takes an address returns, the SRAM's address lines show it,
\* and in a burst they show the address the burst has counted to.
AddressReached ==
  Finished => CASE call.fn \in {"read", "write"} -> addr = call.addr
                [] call.fn \in {"burst_start", "burst_put"} -> addr = cur
                [] OTHER -> TRUE

\* Once init has run, the CPLD and the AVR never drive the data lines between
\* them at once, nor the CPLD and the SRAM theirs, nor the CPLD both, in any
\* order of reads, writes and bursts and whatever time lies between them.
NoContention ==
  call.fn /= "init" =>
    /\ ~(AvrDrives /\ lat.avr /= Z) /\ ~(SramDrives /\ lat.sram /= Z)
    /\ lat.avr = Z \/ lat.sram = Z
=============================================================================
