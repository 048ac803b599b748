# quickdev2 in TLA+

quickdev2 is a cartridge development board: an AVR talks to an SRAM through a
CPLD, to a PC over a serial line and over USB, and stores data on two dataflash
chips. This directory models the parts of it that are hard to test (interrupt
handlers against the main thread, two clock domains, chips that are busy, a host
that aborts), checks the models with TLC and proves the central facts with TLAPS.

Paths are relative to `src/`. `LUFA` stands for `tools/lufa20100219/LUFA`, the
version `poc/MassStorage/makefile` links.

## 1. Inventory

| Component | State it keeps | Operations | What is hard | What makes it correct |
|---|---|---|---|---|
| Serial driver `poc/poc_sreg/uart.c` (copied in `poc/MassStorage`) | two rings with `uint8_t` indices, UDRIE | `uart_putchar`, `uart_getchar`, `uart_available`, two handlers | a handler between any two accesses of the main thread | each ring is a bounded FIFO, nothing waiting while the interrupt is off, every byte sent, a count never too high |
| Clock divider `cpld/hdl/clockdivide.v` | `count`, `out1`, `out2` on both edges | reset, clock edges | odd divisors, 0 and 1, reset at any edge | exact period and duty cycle, never stops |
| Address register `cpld/hdl/sreg.v` with `sreg_set`, `SRAM_burst_inc` of `poc/poc_sreg/main.c` | `buffer`; pins; loop counter | shift in, count up | two-cycle pulses against a divided clock of unknown phase; handlers in a pulse | register = address set + increments |
| Bus machine and SRAM path `cpld/hdl/bus.v`, `system.v`, `main.c` | machine state, latches, pins, synchronizer | read, write, burst | strobes and nops against two divided clocks, turning the bus around | bytes kept and read back, no bus driven from both ends |
| Dataflash manager `poc/MassStorage/Lib/DataflashManager.c`, `Board/Dataflash.h` | page, chunk and block counters, buffer in use, selected chip | write/read blocks (endpoint and RAM), check, reset protection | two chips and two buffers in rotation, busy chips, early returns | data kept and read back, busy buffers left alone, exactly the packets of the call |
| SCSI command set `poc/MassStorage/Lib/SCSI.c` | `SenseData` | ten commands | lengths after early returns, refusals | status and residue match what was done |
| Mass storage class driver `LUFA/Drivers/USB/Class/Device/MassStorage.c` | `CommandBlock`, `CommandStatus`, `IsMassStoreReset` | main task, control requests in a handler | reset at any step, stalls cleared by the host | every command answered, by its own answer only |
| USB device core `LUFA/.../USBInterrupt.c`, `USBTask.c`, `DevChapter9.c`, `Endpoint.c`, `LowLevel.c` | `USB_DeviceState`, `USB_ConfigurationNumber`, `USB_ControlRequest`, the selected endpoint, interrupt enables | bus events, standard requests, streams | two handlers and the main loop share the selected endpoint and the request; bus events pending together | state and endpoints agree, the selected endpoint is given back, every request is answered, the clock comes back |
| Demonstration loops of `main.c` | none beyond the calls | sequences of the above | | covered by any order of calls |
| Test bench, constraints, descriptors, LEDs, buttons, rest of LUFA, bootloaders | none of interest | | | not modelled, see 7 |

Interaction: `main.c` calls the serial driver and drives the CPLD pins; the CPLD
divides the AVR's clock for `sreg.v` and `bus.v`. In `poc/MassStorage` the main
loop calls the class driver, which calls SCSI, which calls the dataflash
manager; the control endpoint's handler (`INTERRUPT_CONTROL_ENDPOINT`) talks to
all of them through `IsMassStoreReset` and the endpoints' banks and stalls.
`PROJECT.json` lists the hazards line by line.

## 2. Modules

| Module | Models | State and actions against the code |
|---|---|---|
| `ByteFifo` | what each ring promises | abstract bounded queue; `Uart` implements it twice |
| `Uart` (`MCUart`) | `uart.c` | one action per access of a volatile by the main thread (`PutWait`, `PutStore`, `PutHead`, `PutEnable`, `GetWait`, ...), one per outcome of a handler (`UdreSend`, `UdreEmpty`, `RxStore`, `RxDrop`). `Shift` and `Arrive` are the USART |
| `UartProofs` | theorems about `Uart` | |
| `ClockDivide` (`MCClockDivide`) | `clockdivide.v` | `Rise`, `Fall` and reset edges; `phase` is history |
| `ClockDivideProofs` | theorems about `ClockDivide` | |
| `Cpld` | `sreg.v`, `bus.v` as functions | next register, next machine state, latches, bus levels |
| `ShiftReg` | `Cpld`'s register under `sreg_set` and `SRAM_burst_inc` | a step is a cycle of the AVR |
| `ShiftRegProofs` | theorems about `ShiftReg` | |
| `SramPath` | the whole CPLD under the firmware's calls | a call is the list of its instructions with their cycles; `Execute` ends one, `CpldEdge` is the falling edge |
| `SramPathProofs` | theorems about `SramPath` | |
| `Dataflash` | `DataflashManager.c` over two chips | a step per pass of a loop or per wait; the chips (`busy`, `bufs`, `mem`) are external. One chunk is followed. `HostReset`, `PacketFails` and `Restart` cut calls short; `late` (history) are the chips still at work for an earlier call, and `Lost` is what a call gets that meets one |
| `DataflashProofs` | theorems about `Dataflash`: its control, its chips, its types | |
| `DataKeptProofs` | theorems about `Dataflash`: its data | |
| `Transport` | what the mass storage device promises its host | a command is open until answered or abandoned, carries no more than it asked for, and is answered with a residue that is true of the useful part, padding apart |
| `BulkOnly` (`MCBulkOnly`) | class driver and SCSI with a host | a step per call of the endpoint API; the host's control requests, `BusReset` and `Configure` run in the handlers, between any two steps. `Astray` is the main loop on the control endpoint a bus reset has left selected |
| `BulkOnlyProofs` | theorems about `BulkOnly` | |
| `UsbDevice` | both USB handlers, `USB_USBTask` from the main loop, the procedures for control requests, host and bus | one action per procedure or wait; `GeneralInterrupt` is `USB_GEN_vect` as the composition of its sections in their order. `pc`, `job`, `left`, `full`, `prev` have one entry for the handler and one for the main loop, since both run the same code |
| `UsbDeviceProofs` | theorems about `UsbDevice` | |

`SramPath` composes the register, the machine and the wiring of `Cpld` with the
firmware. `BulkOnly` is the layer above `Dataflash`: it keeps the endpoint side
of `ReadBlocks` and `WriteBlocks` (banks, early returns, the flag read after
every chunk) and leaves the memory to `Dataflash`; the two meet at the packets,
which `Dataflash` shows to be exactly those of the call (`PacketsExact`).
`UsbDevice` is the layer below `BulkOnly`: it has the handlers in full and the
data endpoints as one flag, where `BulkOnly` has the data endpoints in full and
the handlers as atomic steps. What `BulkOnly` takes from it is that a handler
gives the selected endpoint back unless there was a bus reset (`SelectionKept`)
and that a configured device has its endpoints (`ConfiguredMeansEndpoints`).

## 3. Runs

| Run | Bounds | What it shows |
|---|---|---|
| `uart` | rings of 3, two byte values, 3 sent, 4 received | FIFO both ways, `TxArmed`, `PromiseKept`, drops only when full, `TxDelivers`, `PutReturns`. Both rings fill, wrap and empty |
| `clock_divide` | all 256 divisors | exact period, no missing edge, keeps running |
| `shift_reg` | 4 address lines | `AddressExact` in every phase |
| `sram_path` | 2 address lines, 2 data values | bytes kept and read back, `AddressReached`, `NoContention`, in any order of calls |
| `sram_path_interrupted` | as above, one value | violation, see 6 |
| `dataflash` | 4 pages of 2 blocks of 2 chunks, up to 4 blocks a call, words of 6 values; faults and RAM calls up to 2 blocks, one block past the end; the first and the last chunk of a page followed | `DataKept`, `ReadReturnsWritten`, `ChipsRespected`, `PacketsExact`, `PointersAgree`, `CallReturns`, with aborts, timeouts, restarts and chips still at work for an earlier call. A call crosses both chips, uses both buffers, starts and ends inside a page, and wraps the product of line 114 |
| `dataflash_check` | 4 pages, up to 4 blocks | violation, see 6 |
| `bulk_only` | 3 commands of 12 kinds, one of them given up and one bus reset at any step, any wait timing out on a slow host, 32-byte endpoint, blocks of two packets, INQUIRY and REQUEST SENSE with allocation lengths below and above what they have to say | `AnswersItsCommand`, `ResidueExact`, `CommandAnswered`, `ResetCompletes`, and that `BulkOnly` implements `Transport` |
| `bulk_only_short_out`, `bulk_only_reset`, `bulk_only_sense` | 1, 2 and 2 commands, no bus reset | violations, see 6 |
| `usb_device` | 3 requests of 6 kinds, 2 bus events | `ConfiguredMeansEndpoints`, `SelectionKept`, `AddressHeld`, `RequestAnswered`, `HandlerReturns`, `WakesUp` |

Why the bounds are enough. A ring of 3 has an empty, a partly full and a full
state and its indices wrap within 3 bytes; the proofs cover the other sizes. The
register and the machine look at one bit and one byte at a time; the proofs of
`ShiftReg` and `SramPath` cover every width. Four pages are two rounds of
the two chips, so a call of four blocks that starts inside a page uses both chips
and both buffers, and words of 6 values wrap the multiplication as it does on 16 bits.
`Offsets` are the places in a page where a chunk is followed, one in each of its blocks,
at its first byte and at its last; the proofs follow any chunk. In `bulk_only`, the third
command meets what the first two left behind. In `dataflash`, a call cut short
leaves one page in a buffer and a chip selected whatever its length, so two
blocks (up to two pages, one on each chip) are enough for the faults. In
`usb_device`, three requests are an address, a configuration and one more, or one
more while the main loop still works on the first; two events are a suspension
and the reset that ends it, or a reset while the one before is still pending.
`Unconfigure` is left to the proofs, which cover every request; it differs from
`Configure` in the number it stores.
`AtTheBound` (BulkOnly) lets the last command end where only another one could
end the stall that a main loop of before a bus reset waits for.

What is assumed. `HostWaits` (BulkOnly): after a
mass storage reset the host waits until the main loop is back at its start; `bulk_only_reset`
shows what happens otherwise, which includes a command the main loop flushes
unread. The commands of `MCWellBehaved` agree with their wrapper on direction
and length and ask for some data where there is some, be it less or more than a response
holds; a refused command with data to the device has more than one packet of it; `bulk_only_short_out` drops
the last condition. `InterruptsInPulse = FALSE` (ShiftReg, SramPath): no handler
runs between the two instructions of a pulse; `sram_path_interrupted` drops it.
`Misfilled` (Dataflash): a chunk `WriteBlocks_RAM` fills in the wrong buffer may
hold anything, and one cut short after that may leave anything in the chunks of
its call (`Stored`), see 6.

Five history variables say when a promise is off. `late` (Dataflash) is in section 2:
a call that meets a chip still at work for an earlier one loses what it does there.
`slow` (BulkOnly): the device has waited `USB_STREAM_TIMEOUT_MS` for a host that did
mean to serve the endpoint (`GiveUpOn`); the residue of that command is then wrong
(see 6), and the next command makes the main loop `stale`. `stale` (BulkOnly): a bus reset
or the configuration after it found the main loop at work, or a command came after it
had lost patience with the host. Until the next mass
storage reset the loop may answer the next command with what is left of another (after a
bus reset it goes on with a wiped command, on the control endpoint at first,
`Astray`); the host must then
give up and reset (`MustGiveUp`), and the run shows that this always brings the
two back together (`CommandAnswered` has no such exception). `hasty` (UsbDevice):
the host made a request before the last was answered, sent one in the last
instructions of the handler (which stalls it or clears it unseen, lines 118-122
of `DevChapter9.c` and 240 of `USBInterrupt.c`), or left in the middle of one.
`late` (UsbDevice): a SETUP packet arrived in the very instruction in which the
main loop tests for it, so main loop and handler both handle it. `SelectionKept`
and `RequestAnswered` hold even then. `ConfiguredMeansEndpoints` and `AddressHeld`
do not: the main loop may come to its own copy of SET CONFIGURATION or SET ADDRESS
after the host has gone on, and set a state of long ago.

`CHECK_DEADLOCK FALSE` in `Uart.cfg`: the bounded program ends. In
`BulkOnlyShortOut.cfg`: the two sides waiting for each other is its subject. In
`UsbDevice.cfg`: a handler that waits for a host that has gone away stops the
device for ever (see 6); with a host that stays the handler returns and the request
is answered (`HandlerReturns`, `RequestAnswered`).

## 4. Fairness

- `Uart`: the main thread goes on with a call it can go on with, a pending and
  enabled interrupt is taken, the data register empties. An AVR with its clock
  and `sei` does all three. Calls and arrivals are free.
- `ClockDivide`: the input clock never stops.
- `Dataflash`: the firmware runs while it has a chip selected, `Endpoint_WaitUntilReady`
  times out or succeeds, a busy chip finishes.
- `BulkOnly`: the main loop runs; the host serves the command it sent, configures
  the device after a bus reset, and gives up in the end a command whose wrapper was
  malformed or that a bus reset has let go astray (a host has a timeout; USB bulk-only
  transport obliges it to reset then). It need not send anything, and is never
  obliged to give up a good command otherwise.
- `UsbDevice`: a handler runs when its interrupt is pending, the host carries on with
  a transfer it has begun, and a bus that is not suspended is not silent (frames
  every millisecond). The main loop is not assumed to run.

## 5. Proofs

`UartProofs`, for every ring size from 2 to 256: `TypeCorrect`, `NeverDisarmed`
(`TxArmed`), `PromisesAreKept`, `DropsOnlyWhenFull`, and the refinements
`TxRefinesFifo` and `RxRefinesFifo`. None of these is inductive. The invariant is

    IInv == TypeOK /\ MainOK /\ TxHolds /\ RxHolds /\ TxArmed /\ PromiseKept

`TxHolds` and `RxHolds` say that the slots from tail to head are exactly the bytes
stored and not yet taken, in order; `MainOK` ties the locals of the main thread
(`i` is the successor of the head, the slot it names is free; the
head `uart_available` has read counts no byte that is not there) to the rings while handlers run. The
ring arithmetic is in lemmas (`AdvanceIsSuccessor`, `AdvanceIsInjective`,
`RingPush`, `RingPop`); each action then has one step per conjunct it disturbs.
The refinement theorems map every step to an enqueue, a dequeue or a stutter.

`ShiftRegProofs`, for every number of address lines: `TypeCorrect` and
`AddressAlwaysExact` (`AddressExact`) under `~InterruptsInPulse`, from

    IInv == TypeOK /\ Setting /\ Counting /\ Pins /\ AddressExact

where `Setting` relates the bits already shifted in to the argument, in whichever
phase the divided clock is, and `Counting` says whether the pulse in progress has
been counted yet. Without the assumption the theorem is false, as the violation run shows.
That counting up adds one to the address needs induction over the bits. The library's
induction theorem takes a predicate as an
operator, which no prover here can instantiate; `SetInduction` states induction of a
set of numbers instead, and rests on the fact that inclusion of finite sets is well
founded (a least number `n` outside the set would make `0..n` minimal). `Recursion`
gives from it the functions `Weight` and `Worth` their existence, and then
`IncAddsOne` goes up the register bit by bit, with the
carry as part of its induction hypothesis.

`SramPathProofs`, for every number of address lines and any set of bytes: `TypeCorrect`, and
`NeverInContention` (`NoContention`), with interrupts in a pulse or without, from

    IInv == TypeOK /\ Placed /\ Pins /\ Leaving /\ Rested /\ Calm /\ Waking

What is needed of the routines is which instructions they are made of and which come
first and last, not how long they are: `CodeIs`. `Pins` then says where the strobes
and port A stand in each routine. The machine sees a strobe rise late: `Leaving` and
`Rested` say that with the edge after, and so before the first instruction of the next
routine ends, it has left the state the last routine had it in. `Calm` is the
property with what it rests on (`Clean`: each latch drives only in its half of the
machine). `Waking` covers `init`, which meets the machine in any state: it is at rest
before the enable pin is touched.

The data path needs more. `AddressIsReached` (`AddressReached`), `BytesAreKept`
(`ByteIsKept`) and `ReadsReturnTheByte` (`ReadReturnsWritten`), for every width, any
set of bytes, any order of calls and any time between two instructions that are not
the two of a pulse, come from

    Sound == IInv /\ Wires /\ Lines /\ Settled /\ Storing /\ Held /\ Fetching

- `Wires` says, instruction by instruction, what the pins are, and that the address
  they will pass is that of the call;
- `Lines` says where the address register is. Of the two falling edges in a pulse
  exactly one is an edge of its clock, and `Pulsed` says whether that one has been;
- `Settled`: while the write strobe is low, the byte addressed is what the CPLD drives.
  Without it a strobe that rises could leave behind any earlier byte;
- `Storing` follows a byte from the port through the latch of the machine to the
  SRAM. What has happened at an instruction is what the clock cycles since the strobe
  fell have had time for (`Clocks`), whichever phase they began in: this is where the
  number of `nop`s in `SRAM_write` and `SRAM_burst_write` enters;
- `Held` relates the byte that is followed to what the routine that runs is about to
  do to it: it differs from what the program wrote only before the instruction that
  stores it, and only in that routine;
- `Fetching` is `Storing` the other way round: SRAM, latch, synchronizer, `result`.

None of the three is inductive: `ByteIsKept` says nothing of a call that is still running,
nor of the address on the lines or the byte in the latch with which it will write. With a handler inside a pulse `Lines` fails
first: `sram_path_interrupted` is that counterexample, so `~InterruptsInPulse` is a
hypothesis of the three and not a convenience. `Sound` was checked by TLC, on the
instance of `sram_path`, before it was proved.

`UsbDeviceProofs`, for any number of requests and of events on the bus:
`TypeCorrect`, `SelectionAlwaysKept` (`SelectionKept`), `AddressAlwaysHeld`
(`AddressHeld`) and `ConfiguredAlwaysMeansEndpoints` (`ConfiguredMeansEndpoints`), from

    IInv == TypeOK /\ GivenBack /\ SelectionKept /\ Outside
            /\ Exchange /\ AddressHeld /\ Standing

None of the three properties is inductive. The selection needs `GivenBack`: while
the handler runs it holds what the main loop had selected. The address needs
`Exchange`, which says how far both sides of a transfer have come: that the packet
the handler waits to be rid of before it changes the address is the status packet of
this request, which the host has not given up (`~hasty`) and of which the main
loop has not had a part (`~late`, with `Outside`). The configuration needs
`Standing`: the handler of the bus is entered only with the reset interrupt enabled, and between
a reset and its handler, or inside SET CONFIGURATION, the three may disagree, and nowhere
else. `GeneralInterrupt` composes four sections; what it does is reduced
section by section (`SectionsTyped`, `SectionsKeep`) to `InterruptState`.

`ClockDivideProofs`, for every divisor that fits the eight bits of `N`: `TypeCorrect`,
`NeverLateAlways` and `NeverEarlyAlways`, from

    IInv == Levels /\ Numbers /\ AtRest /\ Passed /\ InStep

`InStep` is what makes the period exact: the edges passed since the last change of the output
are what the counter and the level of the clock make them, in the first half of an odd
divisor (where the second flip-flop has not followed the first) and in the second.

`DataflashProofs`, for every geometry with whole blocks in a page and whole packets in
a block, and calls of every length. No property of it is inductive either. The invariant is built in layers:

- `Device == Flow /\ Chips /\ Placed /\ Lately`: where a call stands, and what its chips
  may be, those still at work for an earlier call among them;
- `Opened`: the command that is open is of the right kind and its pointer is
  where the program is (`PointersAgree`), and between pages none is open;
- `Safe`: with `Buffers`, whose part `Turned` says which buffer a busy chip of
  a write is busy with. The buffers change only after chip 2, so at chip 1 the question is what
  chip 2 still does, and the other way round (`ChipsRespected`);
- `Whole`: with `Content`, `Switches` and `Counted`, which ties packets, blocks and
  place in the page together through the product of line 114 (`TypeOK`, `PacketsExact`).

`DataKeptProofs` adds `Held` to these, for `DataAlwaysKept`
(`DataKept`) and `ReadsReturnWritten` (`ReadReturnsWritten`):

    Held == FirstBuffer /\ MemoryKept /\ BufferKept /\ ReadKept

`MemoryKept` says what the memory holds of the chunk that is followed, by whether its page
has been programmed in this call; `BufferKept` what the buffer holds that will be
programmed, without which the former is not inductive; `ReadKept` what a read
has found so far. `FirstBuffer` is for `WriteBlocks_RAM`: as long as it has not gone
wrong it works with the first buffer of chips that are idle.

`BulkOnlyProofs` proves `TypeCorrect` for every set of commands, size of the endpoint
and number of bus resets. It rests on `Chunked`: transfers move whole chunks, so what
is left of one is either nothing or a chunk, and a bank of data has room for whole
chunks or, while a status is written, for its 13 bytes. `AnswersAlwaysItsCommand`
(`AnswersItsCommand`) and `ResidueAlwaysExact` (`ResidueExact`) are for a host that
waits after a mass storage reset (`HostWaits`) and whose commands are `WellBehaved`:
they go in the direction of their wrapper and ask for some data, READ CAPACITY for all it
has to say. Run `bulk_only` evaluates that its commands are (`MCKnown`). The invariant is

    Safe == Bus /\ Resting /\ Refusing /\ Course

`Bus` is how the resets stand to the main loop; `Resting` that nothing is in a
bank between commands; `Refusing` that a wrapper that is not valid gets no further
than `Validate`. `Course` says where a valid command is at every step of the main
loop: how far the host is, what is in either bank, what has been moved, what is
still in `DataTransferLength` and, in `Streaming`, `Relayed` and `Padded`, which of the
two streams of a padded response is under way. Without it neither property survives a
single `Stream`. It says nothing once a bus reset has met the main loop at work
(`stale`), until a mass storage reset has flushed both endpoints. Nor does it once the
device has given up waiting for a slow host (`slow`): from there `Lagging` shows that
what is in the IN bank is still of this command, which `AnswersItsCommand` promises then
too.
`TransportImplemented` (`ImplementsTransport`) adds two invariants: `Tally`, that what has been carried to
the host or is in the bank is the data that has been moved and, beyond that, padding, and
that data to the device has been carried before it is moved, which makes the residue true of what crossed the bus; and
`Spent`, that the host keeps no answer of before a recovery. The steps of the main
loop are then not seen, but for the flush that ends `stale` after the host has finished.

The proofs assume only the named `ASSUME`s of the modules, which TLC evaluates, and
the constants each theorem names (`~InterruptsInPulse`, `HostWaits`, `WellBehaved`).

Model-checked only: the nine liveness properties, `ENABLED` and fairness being out of the
prover's reach. Every invariant and every action property of the runs that pass, and every
refinement, is proved.

## 6. Where the code and its documents disagree

- `sram_path_interrupted`: a serial handler in the middle of an enable pulse shifts
  the address several times (`main.c:285`).
- `dataflash_check`: after an early return the chip stays selected in an open
  command, and the check of the chips fails though they work (`DataflashManager.c:503`).
- `bulk_only_short_out`: a refused command with one packet of data leaves device and
  host waiting for each other (`MassStorage.c:121`).
- `bulk_only_reset`: an aborted command still sends its data or its status, which
  the next command may receive (`MassStorage.c:124`).
- `bulk_only_sense`: the sense data is reset before REQUEST SENSE is dispatched
  (`SCSI.c:92`), so the reason of a failure is never returned.

Observed while modelling, and without a run of their own:

- When the lines move as the cable is pulled from a suspended device, the handler of
  the bus sets `DEVICE_STATE_Unattached` and, forty lines on in the same pass, the state
  of a device that wakes up: it stays addressed or configured with no cable in.
- `DataflashManager_WriteBlocks_RAM` switches buffers after a page of chip 2 and
  programs the other one, but always fills the first (`DataflashManager.c:353`):
  the data of the next page is lost. The firmware never calls it. With
  `Misfilled == FALSE`, run `dataflash` finds it. For the same reason it fills a buffer
  its chip is still programming from, from the third page on, which is why
  `ChipsRespected` excepts it.
- `Endpoint_ClearStatusStage` and the streams wait for the host or for
  `DEVICE_STATE_Unattached` (`Endpoint.c:75-97`), a state only `USB_GEN_vect` sets;
  but in this firmware they run inside `USB_COM_vect`, which blocks interrupts
  (`USBInterrupt.c:234`). If the host goes away in the middle of a request, the
  device never returns from the handler, and `EVENT_USB_Device_Disconnect`
  (`Events.h:178-179`) never fires.
- `DataflashManager.c:62` and `:194` load or read a page without waiting for the chip. A
  call that returns early leaves a chip at work, and so does one that runs to its end,
  for line 166 waits only for the chip that was selected last. The next call that comes
  before that chip is done loads or reads nothing: the rest of a page it writes is lost,
  or it returns garbage. The model has these calls (`late`), and what they get is `Lost`.
- A transfer that times out on a host that was only slow returns early, and
  `SCSI.c:279-285` subtracts its whole length and succeeds: the residue is too small.
  The next command finds the bank of the last one. `bulk_only` shows that host and
  device come together again (`CommandAnswered`).
- The bytes INQUIRY pads with are an uninitialised array (`SCSI.c:160-163`), where the
  comment above says "Pad out remaining bytes with 0x00".
- INQUIRY and REQUEST SENSE with an allocation length of 0 send an empty packet
  (`SCSI.c:166`, `186`) that a host which expects no data would take for its status. The
  commands of the model ask for at least one byte.
- A SETUP packet that arrives in the tail of the handler is stalled by
  `DevChapter9.c:118-122` although nobody has read it. After SET CONFIGURATION the
  selected endpoint there is a data endpoint, and `USBInterrupt.c:240` clears the
  flag of whichever endpoint was restored.
- `USBInterrupt.c:129` sets `DEVICE_STATE_Addressed` on every wake up without a
  configuration, and one comes with every bus reset, though
  `LUFA/Drivers/USB/LowLevel/Device.h:159-161` says the state means "that the
  device has been addressed by the USB Host".
- `USBTask.h:160-161` says the control endpoint can "instead be managed via interrupts
  entirely by the library"; `poc/MassStorage/MassStorage.c:93` calls `USB_USBTask` as
  well, which is what makes `late` possible.

## 7. Not modelled

Losses inside the USART (`uart.c:130` never reads the overrun flag); the `uint8_t`
argument of `SRAM_burst_start` (its caller passes 0); a restart of the AVR with the
SRAM's contents worth keeping, when `init` pulls every strobe low first. In
`BulkOnly`: allocation lengths of 0, hosts that disagree with
their own wrapper, suspension in the middle of a command. In `UsbDevice`: the remote
wake-up flag, `USB_ShutDown` (never called), the read-modify-write of `UEINTX`
against a packet of the same instant. The window between the main loop's test and
the handler is modelled at the first read of the flag, where it does harm.

Test bench and constraints are stimuli and pins; descriptors are constants; LEDs,
buttons and joystick have no state. The remainder of the tree, more than nine
tenths of its lines, is the LUFA distribution with its host mode, demos,
bootloaders, uIP and FatFs: none of it is linked into the two firmwares of this
repository, and nothing here calls it, so there is no use to model it from. That
is why the modelled share of all lines is small while every part of the program's
own C and Verilog with state is covered.

## 8. Plan

1. Serial driver: modelled, checked, safety and refinement proved.
2. CPLD and its firmware: modelled and checked; every invariant of `ShiftReg`,
   `ClockDivide` and `SramPath` proved. Left: the SRAM as a whole (`ByteIsKept` follows
   any one byte) as an abstract memory that `SramPath` implements.
3. Dataflash: modelled and checked with its faults, every invariant proved.
4. Class driver and SCSI: modelled and checked, with bus resets; every invariant and
   the refinement of `Transport` proved.
5. USB device core: modelled, checked, safety proved.
