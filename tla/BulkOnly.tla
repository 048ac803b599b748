------------------------------ MODULE BulkOnly ------------------------------
(***************************************************************************)
(* The mass storage class driver of the firmware (LUFA's Class/Device/     *)
(* MassStorage.c), the SCSI command set under it (SCSI.c) and a host that  *)
(* speaks the bulk-only transport: commands, data, status, stalls and      *)
(* reset recovery, and the resetting of the bus.  Control requests are     *)
(* handled by the interrupt handler of the control endpoint                *)
(* (INTERRUPT_CONTROL_ENDPOINT in the makefile), and bus resets by         *)
(* another, between any two steps of the main loop.                        *)
(*                                                                         *)
(* The dataflash below is the subject of module Dataflash; here it is the  *)
(* endpoint side of DataflashManager.c only.                               *)
(***************************************************************************)
EXTENDS Integers, FiniteSets

CONSTANTS
  EndpointSize, \* MASS_STORAGE_IO_EPSIZE: bytes in the bank of an endpoint
  BlockSize,    \* VIRTUAL_MEMORY_BLOCK_SIZE
  Commands,     \* the commands the host may send
  MaxCommands,  \* bound: commands of a behaviour
  MaxGiveUps,   \* bound: commands the host abandons
  MaxBusResets, \* bound: times the host resets the bus
  LengthRange,  \* the range of DataTransferLength
  HostWaits     \* TRUE: after a reset the host waits for the main loop

Directions == {"in", "out"}

(* A command: its operation, whether its wrapper is valid, whether a field  *)
(* of it makes its handler refuse it, and the direction and length of its   *)
(* data, which the wrapper and the command itself agree on (the length is    *)
(* also the allocation length of INQUIRY and REQUEST SENSE, 16 and 8 bits). *)
CommandAssumption ==
  /\ HostWaits \in BOOLEAN
  /\ MaxCommands \in Nat /\ MaxGiveUps \in Nat /\ MaxBusResets \in Nat
  /\ BlockSize \in Nat \ {0} /\ LengthRange \in Nat \ {0}
  /\ EndpointSize \in {32, 64} /\ BlockSize % EndpointSize = 0
  /\ Commands \subseteq
       [op : {"ready", "diagnostic", "inquiry", "sense", "capacity", "read", "write", "unknown"},
        valid : BOOLEAN, refused : BOOLEAN, direction : Directions,
        length : 0..LengthRange - 1]
  /\ \A c \in Commands : /\ c.op \in {"read", "write"} => c.length % BlockSize = 0
                         /\ c.op = "inquiry" => c.length < 2^16
                         /\ c.op = "sense" => c.length < 2^8

ASSUME CommandAssumption

Header == 15       \* sizeof(MS_CommandBlockWrapper_t) - 16
CommandData == 10  \* SCSICommandLength
Wrapper == 31      \* bytes of a command wrapper on the wire
Status == 13       \* sizeof(MS_CommandStatusWrapper_t)
Chunk == 16        \* bytes DataflashManager.c moves at a time
Half == 4          \* sizeof(uint32_t)

(* What INQUIRY, REQUEST SENSE and READ CAPACITY (10) have to say.          *)
Response == [inquiry |-> 36, sense |-> 18, capacity |-> 8]

(* BytesTransferred of their handlers: not more than was asked for, except  *)
(* by READ CAPACITY (10), which has no allocation length.                   *)
Relevant(c) == IF c.op = "capacity" \/ c.length >= Response[c.op] THEN Response[c.op]
                                                                 ELSE c.length

(* A host that knows the commands: it asks for data where there is some.    *)
WellBehaved(c) ==
  /\ c.op \in {"ready", "diagnostic"} => c.length = 0
  /\ c.op \in DOMAIN Response => c.direction = "in" /\ c.length > 0
  /\ c.op = "capacity" => c.length >= Response[c.op]
  /\ c.op = "read" => c.direction = "in"
  /\ c.op = "write" => c.direction = "out"

VARIABLES
  pc,        \* the main loop: the next step of MS_Device_USBTask
  left,      \* bytes the running transfer still has to move
  amount,    \* the bytes a handler of SCSI.c means to move, a local of it
  padding,   \* the bytes it adds up to the allocation length, another
  block,     \* State.CommandBlock: tag, command and DataTransferLength
  csw,       \* State.CommandStatus
  massReset, \* State.IsMassStoreReset
  senseKey,  \* SenseData.SenseKey
  out,       \* the bank of the OUT endpoint
  in,        \* the bank of the IN endpoint
  stalled,   \* STALLRQ of each endpoint
  moved,     \* data bytes of the running command the device has moved,
             \* padding not counted
  host,      \* the stage of the host
  tag,       \* the tag of the host's last command: how many it has sent
  command,   \* that command
  carried,   \* data bytes of it the host has sent or received
  residue,   \* the residue of the last answer
  giveUps,   \* how many commands the host has abandoned
  busResets, \* how often it has reset the bus
  ready,     \* USB_DeviceState is DEVICE_STATE_Configured
  lost,      \* the main loop works on the control endpoint without knowing
  stale,     \* history: a bus reset or the configuration after it met it
             \* at work, or a command was sent to it when it was slow, and
             \* no mass storage reset was carried out since
  slow       \* history: a transfer or the status of the command gave up
             \* waiting for a host that did mean to serve the endpoint

device == <<pc, left, amount, padding, block, csw, massReset, senseKey, moved>>
busVars == <<busResets, ready, lost, stale, slow>>
hostVars == <<host, tag, command, carried, residue, giveUps, busVars>>
vars == <<device, out, in, stalled, hostVars>>

NoCommand == [op |-> "none", valid |-> FALSE, refused |-> FALSE,
              direction |-> "out", length |-> 0]
Zeroed == [NoCommand EXCEPT !.op = "ready"]
NoStatus == [tag |-> 0, status |-> "none", residue |-> 0]

(* The bank of the OUT endpoint holds what is left of one packet.           *)
Empty == [kind |-> "none", bytes |-> 0]
(* The bank of the IN endpoint: its bytes, the commands they were written   *)
(* for, the status wrapper among them, and whether it is the host's turn.   *)
Fresh == [bytes |-> 0, tags |-> {}, csw |-> NoStatus, sent |-> FALSE]

Init ==
  /\ pc = "task" /\ left = 0 /\ amount = 0 /\ padding = 0
  /\ block = [tag |-> 0, command |-> NoCommand, length |-> 0]
  /\ csw = NoStatus /\ massReset = FALSE /\ senseKey = "good" /\ moved = 0
  /\ out = Empty /\ in = Fresh
  /\ stalled = [d \in Directions |-> FALSE]
  /\ host = "idle" /\ tag = 0 /\ command = NoCommand
  /\ carried = 0 /\ residue = 0 /\ giveUps = 0
  /\ busResets = 0 /\ ready = TRUE /\ lost = FALSE /\ stale = FALSE /\ slow = FALSE

(* Endpoint_IsReadWriteAllowed *)
OutAllowed == out.bytes > 0
InAllowed == ready /\ ~in.sent /\ in.bytes < EndpointSize

(* Endpoint_WaitUntilReady gives up when the endpoint stalls, or when the   *)
(* host has not served it for USB_STREAM_TIMEOUT_MS, be it that it does not *)
(* mean to or that it is slow; one that a bus reset has disabled is never   *)
(* ready.                                                                   *)
InFails == ~ready \/ in.sent
OutFails == out.kind = "none"

(* A wait for an endpoint has failed that the host would have served.       *)
Serves(d) == /\ ready /\ ~stalled[d]
             /\ \/ host = "data" /\ command.direction = d
                \/ host = "status" /\ d = "in"
GiveUpOn(d) == slow' = (slow \/ (Serves(d) /\ ~stale))

(* Endpoint_Write_Stream_LE and the like: n bytes of the running command.   *)
Write(n) == [in EXCEPT !.bytes = @ + n, !.tags = @ \cup {block.tag}]

-----------------------------------------------------------------------------
(* MS_Device_USBTask and MS_Device_ReadInCommandBlock                       *)

Goto(step) == pc' = step

Task ==
  /\ pc = "task" /\ ready
  /\ IF OutAllowed THEN left' = Header /\ Goto("header")
                   ELSE UNCHANGED left /\ Goto("reset")
  /\ UNCHANGED <<amount, padding, block, csw, massReset, senseKey, moved, out, in, stalled, hostVars>>

(* The whole header in the bank: it is a command wrapper only if nothing of *)
(* the packet was read before.                                              *)
ReadHeader ==
  /\ pc = "header" /\ out.bytes >= left
  /\ block' = IF out.kind = "wrapper" /\ out.bytes = Wrapper /\ left = Header
              THEN [tag |-> tag, command |-> command, length |-> command.length]
              ELSE [tag |-> 0, command |-> NoCommand, length |-> 0]
  /\ out' = [out EXCEPT !.bytes = @ - left]
  /\ Goto("validate")
  /\ UNCHANGED <<left, amount, padding, csw, massReset, senseKey, moved, in, stalled, hostVars>>

(* The bank ends within the header: it is released and the rest awaited.    *)
ReadPartOfHeader ==
  /\ pc = "header" /\ OutAllowed /\ out.bytes < left
  /\ left' = left - out.bytes
  /\ out' = Empty
  /\ Goto(IF massReset THEN "reset" ELSE "header")
  /\ UNCHANGED <<amount, padding, block, csw, massReset, senseKey, moved, in, stalled, hostVars>>

(* Nothing comes: the stream returns an error.                              *)
ReadNothing ==
  /\ pc \in {"header", "body"} /\ out.kind = "none"
  /\ Goto("reset")
  /\ UNCHANGED <<left, amount, padding, block, csw, massReset, senseKey, moved, out, in, stalled, hostVars>>

Validate ==
  /\ pc = "validate"
  /\ IF block.command.valid
     THEN /\ left' = CommandData /\ Goto("body")
          /\ UNCHANGED stalled
     ELSE /\ stalled' = [stalled EXCEPT !["out"] = TRUE] /\ Goto("refuse")
          /\ UNCHANGED left
  /\ UNCHANGED <<amount, padding, block, csw, massReset, senseKey, moved, out, in, hostVars>>

RefuseWrapper ==
  /\ pc = "refuse"
  /\ stalled' = [stalled EXCEPT !["in"] = TRUE]
  /\ Goto("reset")
  /\ UNCHANGED <<left, amount, padding, block, csw, massReset, senseKey, moved, out, in, hostVars>>

(* The command itself.  If the bank was flushed after the header, these are *)
(* the first bytes of another wrapper, and no command has that code.        *)
ReadBody ==
  /\ pc = "body" /\ out.bytes >= left
  /\ block' = IF out.bytes = Wrapper - Header THEN block
              ELSE [block EXCEPT !.command.op = "unknown"]
  /\ out' = [out EXCEPT !.bytes = @ - left]
  /\ Goto("clearout")
  /\ UNCHANGED <<left, amount, padding, csw, massReset, senseKey, moved, in, stalled, hostVars>>

ClearOUT ==
  /\ pc = "clearout"
  /\ out' = Empty
  /\ Goto("dispatch")
  /\ UNCHANGED <<left, amount, padding, block, csw, massReset, senseKey, moved, in, stalled, hostVars>>

-----------------------------------------------------------------------------
(* SCSI_DecodeSCSICommand and the handlers of SCSI.c                        *)

NoData == {"ready"}  \* TEST UNIT READY, PREVENT REMOVAL, VERIFY (10)

Sense(key) == senseKey' = key /\ UNCHANGED <<left, amount, padding>> /\ Goto("status")
Transfer(n, total, pad, step) ==
  senseKey' = "good" /\ left' = n /\ amount' = total /\ padding' = pad /\ Goto(step)

Dispatch ==
  /\ pc = "dispatch"
  /\ LET c == block.command IN
     \/ /\ c.op = "unknown" \/ c.refused
        /\ Sense("illegal") /\ UNCHANGED block
     \/ /\ c.op \in NoData
        /\ Sense("good") /\ block' = [block EXCEPT !.length = 0]
     \/ /\ c.op = "diagnostic" /\ ~c.refused
        /\ \/ Sense("good") /\ block' = [block EXCEPT !.length = 0]
           \/ Sense("hardware") /\ UNCHANGED block
     \/ /\ c.op \in {"inquiry", "sense"} /\ ~c.refused
        /\ Transfer(Relevant(c), Relevant(c), c.length - Relevant(c), "stream")
        /\ UNCHANGED block
     \/ /\ c.op = "capacity" /\ ~c.refused
        /\ Transfer(Half, Response[c.op], 0, "half") /\ UNCHANGED block
     \/ /\ c.op \in {"read", "write"} /\ ~c.refused
        /\ Transfer(c.length, c.length, 0, c.op) /\ UNCHANGED block
  /\ moved' = 0
  /\ UNCHANGED <<csw, massReset, out, in, stalled, hostVars>>

(* Fault: the last packet is not sent. *)
MutFinish ==
  /\ pc = "finish" /\ Goto("account")
  /\ UNCHANGED <<left, amount, padding, block, csw, massReset, senseKey, moved, out, in, stalled, hostVars>>

(* The handlers do not look at what Endpoint_Write_Stream returns: the two  *)
(* halves of the capacity, or the data and its padding, and then the        *)
(* Endpoint_ClearIN that sends the last packet.                             *)
NextStream ==
  \/ pc = "half" /\ Goto("stream") /\ left' = Half /\ UNCHANGED padding
  \/ pc = "stream" /\ Goto("pad") /\ left' = padding /\ padding' = 0
  \/ pc = "pad" /\ Goto("finish") /\ left' = 0 /\ UNCHANGED padding

(* Endpoint_Write_Stream without a callback: a full bank is sent when there *)
(* is more to write.                                                        *)
Streams == {"half", "stream", "pad"}
Stream ==
  /\ pc \in Streams /\ ready /\ ~in.sent
  /\ LET n == IF left < EndpointSize - in.bytes THEN left
                                               ELSE EndpointSize - in.bytes IN
     /\ in' = [Write(n) EXCEPT !.sent = left > n]
     /\ moved' = IF pc = "pad" THEN moved ELSE moved + n
     /\ IF left = n THEN NextStream ELSE left' = left - n /\ UNCHANGED <<pc, padding>>
  /\ UNCHANGED <<amount, block, csw, massReset, senseKey, out, stalled, hostVars>>

StreamFails ==
  /\ pc \in Streams /\ InFails
  /\ NextStream /\ GiveUpOn("in")
  /\ UNCHANGED <<amount, block, csw, massReset, senseKey, moved, out, in, stalled,
                 host, tag, command, carried, residue, giveUps, busResets, ready, lost, stale>>

(* It sends what the bank holds, even if that is nothing, and does nothing  *)
(* to a bank that is with the host or disabled.                             *)
Finish ==
  /\ pc = "finish" /\ Goto("account")
  /\ in' = IF ready /\ ~in.sent THEN [Write(0) EXCEPT !.sent = TRUE] ELSE in
  /\ UNCHANGED <<left, amount, padding, block, csw, massReset, senseKey, moved, out, stalled, hostVars>>

(* Fault: one chunk more than the length of the transfer. *)
MutReadChunk ==
  /\ pc = "read" /\ InAllowed
  /\ in' = Write(Chunk) /\ left' = left - Chunk /\ moved' = moved + Chunk
  /\ Goto(IF massReset THEN "account" ELSE "read")
  /\ UNCHANGED <<amount, padding, block, csw, massReset, senseKey, out, stalled, hostVars>>

(* DataflashManager_ReadBlocks and _WriteBlocks, as the endpoints see them: *)
(* the flag of the class driver is read after every chunk, and the last     *)
(* bank is released if nothing fits in it or is left in it.                 *)
ReadChunk ==
  /\ pc = "read" /\ left > 0 /\ InAllowed
  /\ in' = Write(Chunk) /\ left' = left - Chunk /\ moved' = moved + Chunk
  /\ Goto(IF massReset THEN "account" ELSE "read")
  /\ UNCHANGED <<amount, padding, block, csw, massReset, senseKey, out, stalled, hostVars>>

ReadBankFull ==
  /\ pc = "read" /\ left > 0 /\ in.bytes = EndpointSize /\ ~in.sent
  /\ in' = [in EXCEPT !.sent = TRUE]
  /\ UNCHANGED <<pc, left, amount, padding, block, csw, massReset, senseKey, moved, out, stalled, hostVars>>

ReadEnd ==
  /\ pc = "read" /\ left = 0
  /\ in' = [in EXCEPT !.sent = @ \/ in.bytes = EndpointSize]
  /\ Goto("account")
  /\ UNCHANGED <<left, amount, padding, block, csw, massReset, senseKey, moved, out, stalled, hostVars>>

WriteChunk ==
  /\ pc = "write" /\ left > 0 /\ OutAllowed
  /\ out' = [out EXCEPT !.bytes = IF @ < Chunk THEN 0 ELSE @ - Chunk]
  /\ left' = left - Chunk /\ moved' = moved + Chunk
  /\ Goto(IF massReset THEN "account" ELSE "write")
  /\ UNCHANGED <<amount, padding, block, csw, massReset, senseKey, in, stalled, hostVars>>

WriteBankEmpty ==
  /\ pc = "write" /\ left > 0 /\ out.kind # "none" /\ ~OutAllowed
  /\ out' = Empty
  /\ UNCHANGED <<pc, left, amount, padding, block, csw, massReset, senseKey, moved, in, stalled, hostVars>>

WriteEnd ==
  /\ pc = "write" /\ left = 0
  /\ out' = IF OutAllowed THEN out ELSE Empty
  /\ Goto("account")
  /\ UNCHANGED <<left, amount, padding, block, csw, massReset, senseKey, moved, in, stalled, hostVars>>

(* Endpoint_WaitUntilReady fails: the transfer ends where it is.            *)
TransferFails ==
  /\ \/ pc = "read" /\ left > 0 /\ InFails /\ GiveUpOn("in")
     \/ pc = "write" /\ left > 0 /\ OutFails /\ GiveUpOn("out")
  /\ Goto("account")
  /\ UNCHANGED <<left, amount, padding, block, csw, massReset, senseKey, moved, out, in, stalled, host,
                 tag, command, carried, residue, giveUps, busResets, ready, lost, stale>>

(* Fault: the length is not brought up to date. *)
MutAccount ==
  /\ pc = "account" /\ Goto("status")
  /\ UNCHANGED <<left, amount, padding, block, csw, massReset, senseKey, moved, out, in, stalled, hostVars>>

(* The handlers subtract what they meant to transfer, in a uint32_t.        *)
Account ==
  /\ pc = "account"
  /\ block' = [block EXCEPT !.length = (@ - amount) % LengthRange]
  /\ amount' = 0 /\ left' = 0
  /\ Goto("status")
  /\ UNCHANGED <<padding, csw, massReset, senseKey, moved, out, in, stalled, hostVars>>

-----------------------------------------------------------------------------
(* The end of MS_Device_USBTask and MS_Device_ReturnCommandStatus           *)

(* Fault: any failure stalls the endpoint, its residue unseen. *)
MutFillStatus ==
  /\ pc = "status"
  /\ csw' = [tag     |-> block.tag,
             status  |-> IF senseKey = "good" THEN "pass" ELSE "fail",
             residue |-> block.length]
  /\ stalled' = [stalled EXCEPT ![block.command.direction] = @ \/ senseKey # "good"]
  /\ Goto("waitout")
  /\ UNCHANGED <<left, amount, padding, block, massReset, senseKey, moved, out, in, hostVars>>

FillStatus ==
  /\ pc = "status"
  /\ csw' = [tag     |-> block.tag,
             status  |-> IF senseKey = "good" THEN "pass" ELSE "fail",
             residue |-> block.length]
  /\ stalled' = [stalled EXCEPT ![block.command.direction] =
                   @ \/ (senseKey # "good" /\ block.length # 0)]
  /\ Goto("waitout")
  /\ UNCHANGED <<left, amount, padding, block, massReset, senseKey, moved, out, in, hostVars>>

WaitWhileStalled ==
  /\ \/ pc = "waitout" /\ ~stalled["out"] /\ Goto("waitin")
     \/ pc = "waitin" /\ ~stalled["in"] /\ Goto("csw")
     \/ pc = "waitout" /\ stalled["out"] /\ massReset /\ Goto("reset")
     \/ pc = "waitin" /\ stalled["in"] /\ massReset /\ Goto("reset")
  /\ UNCHANGED <<left, amount, padding, block, csw, massReset, senseKey, moved, out, in, stalled, hostVars>>

WriteStatus ==
  /\ pc = "csw" /\ InAllowed
  /\ in' = [Write(Status) EXCEPT !.csw = csw]
  /\ Goto("clearin")
  /\ UNCHANGED <<left, amount, padding, block, csw, massReset, senseKey, moved, out, stalled, hostVars>>

(* A bank left full is sent first, and then the callback looks at the flag. *)
FlushBeforeStatus ==
  /\ pc = "csw" /\ in.bytes = EndpointSize /\ ~in.sent
  /\ in' = [in EXCEPT !.sent = TRUE]
  /\ Goto(IF massReset THEN "reset" ELSE "csw")
  /\ UNCHANGED <<left, amount, padding, block, csw, massReset, senseKey, moved, out, stalled, hostVars>>

StatusFails ==
  /\ pc = "csw" /\ InFails
  /\ Goto("reset") /\ GiveUpOn("in")
  /\ UNCHANGED <<left, amount, padding, block, csw, massReset, senseKey, moved, out, in, stalled, host,
                 tag, command, carried, residue, giveUps, busResets, ready, lost, stale>>

ClearIN ==
  /\ pc = "clearin"
  /\ in' = [in EXCEPT !.sent = TRUE]
  /\ Goto("reset")
  /\ UNCHANGED <<left, amount, padding, block, csw, massReset, senseKey, moved, out, stalled, hostVars>>

(* Fault: only the OUT endpoint is flushed. *)
MutResetFIFOs ==
  /\ pc = "reset"
  /\ \/ /\ massReset /\ Goto("unstall")
        /\ out' = Empty /\ stale' = FALSE /\ slow' = FALSE
     \/ ~massReset /\ Goto("task") /\ UNCHANGED <<out, stale, slow>>
  /\ UNCHANGED <<left, amount, padding, block, csw, massReset, senseKey, moved, in, stalled, host, tag,
                 command, carried, residue, giveUps, busResets, ready, lost>>

ResetFIFOs ==
  /\ pc = "reset"
  /\ \/ /\ massReset /\ Goto("unstall")
        /\ out' = Empty /\ in' = Fresh /\ stale' = FALSE /\ slow' = FALSE
     \/ ~massReset /\ Goto("task") /\ UNCHANGED <<out, in, stale, slow>>
  /\ UNCHANGED <<left, amount, padding, block, csw, massReset, senseKey, moved, stalled, host, tag,
                 command, carried, residue, giveUps, busResets, ready, lost>>

(* Fault: the flag is left set. *)
MutEndReset ==
  /\ pc = "unstall"
  /\ stalled' = [d \in Directions |-> FALSE]
  /\ Goto("task")
  /\ UNCHANGED <<left, amount, padding, block, csw, massReset, senseKey, moved, out, in, hostVars>>

EndReset ==
  /\ pc = "unstall"
  /\ stalled' = [d \in Directions |-> FALSE]
  /\ massReset' = FALSE
  /\ Goto("task")
  /\ UNCHANGED <<left, amount, padding, block, csw, senseKey, moved, out, in, hostVars>>

(* After a bus reset the control endpoint is the selected one until the     *)
(* main loop selects another: what it reads is no command, what it writes   *)
(* and stalls is not the endpoint it means, and its waits time out.         *)
Astray ==
  /\ lost
  /\ \/ /\ pc \in Streams \cup {"finish", "read", "write"}
        /\ Goto("account") /\ UNCHANGED <<block, csw, lost>>
     \/ /\ pc \in {"header", "body", "refuse", "csw", "clearin"}
        /\ Goto("reset") /\ lost' = FALSE /\ UNCHANGED <<block, csw>>
     \/ /\ pc = "header" /\ Goto("validate")
        /\ block' = [tag |-> 0, command |-> NoCommand, length |-> 0]
        /\ UNCHANGED <<csw, lost>>
     \/ /\ pc = "validate"
        /\ IF block.command.valid THEN Goto("body") /\ UNCHANGED lost
                                  ELSE Goto("refuse") /\ lost' = FALSE
        /\ UNCHANGED <<block, csw>>
     \/ /\ pc = "body" /\ Goto("clearout")
        /\ block' = [block EXCEPT !.command.op = "unknown"]
        /\ UNCHANGED <<csw, lost>>
     \/ /\ pc = "clearout" /\ Goto("dispatch")
        /\ lost' = (block.command.direction = "out")
        /\ UNCHANGED <<block, csw>>
     \/ /\ pc = "status" /\ Goto("waitout") /\ lost' = FALSE
        /\ csw' = [tag     |-> block.tag,
                   status  |-> IF senseKey = "good" THEN "pass" ELSE "fail",
                   residue |-> block.length]
        /\ UNCHANGED block
  /\ UNCHANGED <<left, amount, padding, massReset, senseKey, moved, out, in, stalled, host, tag,
                 command, carried, residue, giveUps, busResets, ready, stale, slow>>

OnEndpoint ==
  \/ Task \/ ReadHeader \/ ReadPartOfHeader \/ ReadNothing \/ Validate
  \/ RefuseWrapper \/ ReadBody \/ ClearOUT
  \/ Stream \/ StreamFails \/ Finish
  \/ ReadChunk \/ ReadBankFull \/ ReadEnd \/ WriteChunk \/ WriteBankEmpty \/ WriteEnd
  \/ TransferFails \/ FillStatus
  \/ WriteStatus \/ FlushBeforeStatus \/ StatusFails \/ ClearIN
  \/ ResetFIFOs \/ EndReset

(* Dispatching, accounting and the loops on a stall, which the bus reset    *)
(* has cleared on every endpoint, are the same whatever is selected.        *)
Main == (~lost /\ OnEndpoint) \/ Dispatch \/ Account \/ WaitWhileStalled \/ Astray

-----------------------------------------------------------------------------
(* The host, and the handler of its control requests                        *)

SendCommand ==
  /\ host = "idle" /\ tag < MaxCommands
  /\ out.kind = "none" /\ ~stalled["out"]
  /\ HostWaits => ~massReset /\ (pc = "task" \/ stale)
  /\ \E c \in Commands :
       /\ command' = c
       /\ host' = IF c.length = 0 THEN "status" ELSE "data"
  /\ tag' = tag + 1 /\ carried' = 0 /\ residue' = 0
  /\ out' = [kind |-> "wrapper", bytes |-> Wrapper]
  /\ stale' = (stale \/ slow) /\ slow' = FALSE
  /\ UNCHANGED <<device, in, stalled, giveUps, busResets, ready, lost>>

(* A packet shorter than the endpoint ends the data.                        *)
TakeData ==
  /\ host = "data" /\ command.direction = "in"
  /\ in.sent /\ ~stalled["in"]
  /\ in' = Fresh
  /\ carried' = carried + in.bytes
  /\ host' = IF in.bytes < EndpointSize \/ carried' >= command.length
             THEN "status" ELSE "data"
  /\ UNCHANGED <<device, out, stalled, tag, command, residue, giveUps, busVars>>

SendData ==
  /\ host = "data" /\ command.direction = "out"
  /\ out.kind = "none" /\ ~stalled["out"]
  /\ LET rest == command.length - carried
         n == IF rest < EndpointSize THEN rest ELSE EndpointSize IN
     /\ out' = [kind |-> "data", bytes |-> n]
     /\ carried' = carried + n
     /\ host' = IF n = rest THEN "status" ELSE "data"
  /\ UNCHANGED <<device, in, stalled, tag, command, residue, giveUps, busVars>>

(* USB_Device_ClearSetFeature, from the interrupt handler.                  *)
ClearFeature(d) ==
  /\ stalled' = [stalled EXCEPT ![d] = FALSE]
  /\ IF d = "in" THEN in' = Fresh /\ UNCHANGED out
                 ELSE out' = Empty /\ UNCHANGED in
  /\ UNCHANGED <<device, tag, command, carried, residue, giveUps, busVars>>

(* A command that meets a stall is not sent; the host resets the device.    *)
SeeStall ==
  \/ /\ host = "idle" /\ stalled["out"] /\ host' = "giveup" /\ residue' = 0
     /\ UNCHANGED <<device, out, in, stalled, tag, command, carried, giveUps, busVars>>
  \/ /\ host = "data" /\ stalled[command.direction]
     /\ ClearFeature(command.direction) /\ host' = "status"
  \/ /\ host = "status" /\ stalled["in"]
     /\ ClearFeature("in") /\ UNCHANGED host

TakeStatus ==
  /\ host = "status" /\ in.sent /\ ~stalled["in"]
  /\ in' = Fresh
  /\ IF in.csw.tag = tag THEN host' = "idle" /\ residue' = in.csw.residue
                         ELSE host' = "giveup" /\ UNCHANGED residue
  /\ UNCHANGED <<device, out, stalled, tag, command, carried, giveUps, busVars>>

(* The host abandons a command: always one whose wrapper is wrong, and one  *)
(* that meets a main loop still busy with a command of before a bus reset.  *)
MustGiveUp == stale \/ slow \/ ~command.valid

GiveUp ==
  /\ host \in {"data", "status"}
  /\ host' = "giveup"
  /\ \/ MustGiveUp /\ UNCHANGED giveUps
     \/ ~MustGiveUp /\ giveUps < MaxGiveUps /\ giveUps' = giveUps + 1
  /\ UNCHANGED <<device, out, in, stalled, tag, command, carried, residue, busVars>>

(* MS_Device_ProcessControlRequest, from the interrupt handler.             *)
MassStorageReset ==
  /\ host = "giveup"
  /\ massReset' = TRUE
  /\ host' = "clearin"
  /\ UNCHANGED <<pc, left, amount, padding, block, csw, senseKey, moved, out, in, stalled,
                 tag, command, carried, residue, giveUps, busVars>>

ClearBoth ==
  \/ host = "clearin" /\ ClearFeature("in") /\ host' = "clearout"
  \/ host = "clearout" /\ ClearFeature("out") /\ host' = "idle"

(* The host resets the bus: the handler of USB_INT_EORSTI, which ends with  *)
(* the control endpoint selected.  Where the main loop is about to select   *)
(* an endpoint itself, or has just done so, this may or may not matter.     *)
Selects == {"task", "waitout", "reset", "unstall"}
MaySelect == pc \in {"refuse", "waitin"}
             \/ (pc = "dispatch" /\ block.command.direction = "in")

BusReset ==
  /\ busResets < MaxBusResets /\ host # "reset"
  /\ busResets' = busResets + 1 /\ host' = "reset" /\ residue' = 0
  /\ ready' = FALSE /\ out' = Empty /\ in' = Fresh
  /\ stalled' = [d \in Directions |-> FALSE]
  /\ lost' \in IF MaySelect THEN BOOLEAN ELSE {pc \notin Selects}
  /\ stale' = (stale \/ pc # "task") /\ slow' = FALSE
  /\ UNCHANGED <<device, tag, command, carried, giveUps>>

(* SET CONFIGURATION, and MS_Device_ConfigureEndpoints from its handler.  A *)
(* command block of zeros has the code of TEST UNIT READY.                  *)
Configure ==
  /\ host = "reset" /\ host' = "idle" /\ ready' = TRUE
  /\ block' = [tag |-> 0, command |-> Zeroed, length |-> 0]
  /\ csw' = NoStatus /\ massReset' = FALSE
  /\ in' = Fresh /\ out' = Empty
  /\ stale' = (stale \/ pc # "task")
  /\ UNCHANGED <<pc, left, amount, padding, senseKey, moved, stalled, tag, command, carried, residue,
                 giveUps, busResets, lost, slow>>

Serve == \/ TakeData \/ SendData \/ SeeStall \/ TakeStatus
         \/ MassStorageReset \/ ClearBoth \/ Configure

(* Bound: beyond its last command no host would end the stall that a main   *)
(* loop of before a bus reset waits for.                                    *)
AtTheBound == host = "idle" /\ tag = MaxCommands /\ stale /\ UNCHANGED vars

Next == Main \/ SendCommand \/ Serve \/ GiveUp \/ BusReset \/ AtTheBound

Spec == Init /\ [][Next]_vars

(* The main loop runs, the host serves the command it has sent, and gives   *)
(* up in the end one that it must.  It need not send another one.           *)
FairSpec ==
  /\ Spec /\ WF_vars(Main) /\ WF_vars(Serve)
  /\ WF_vars(MustGiveUp /\ GiveUp)

-----------------------------------------------------------------------------
(* Properties                                                               *)

Steps == {"task", "header", "validate", "refuse", "body", "clearout",
          "dispatch", "half", "stream", "pad", "finish", "read", "write", "account", "status",
          "waitout", "waitin", "csw", "clearin", "reset", "unstall"}

(* Every variable has its type.                                             *)
TypeOK ==
  /\ pc \in Steps /\ left \in Nat /\ amount \in Nat /\ padding \in Nat
  /\ block.tag \in 0..MaxCommands /\ block.length \in 0..LengthRange - 1
  /\ csw.tag \in 0..MaxCommands /\ csw.residue \in 0..LengthRange - 1
  /\ csw.status \in {"none", "pass", "fail"}
  /\ massReset \in BOOLEAN /\ senseKey \in {"good", "illegal", "hardware"}
  /\ out.kind \in {"none", "wrapper", "data"} /\ out.bytes \in 0..EndpointSize
  /\ in.bytes \in 0..EndpointSize /\ in.tags \subseteq 0..MaxCommands
  /\ in.csw.tag \in 0..MaxCommands /\ in.sent \in BOOLEAN
  /\ stalled \in [Directions -> BOOLEAN]
  /\ moved \in Nat /\ carried \in Nat
  /\ host \in {"idle", "data", "status", "giveup", "clearin", "clearout", "reset"}
  /\ tag \in 0..MaxCommands /\ giveUps \in 0..MaxGiveUps
  /\ residue \in 0..LengthRange - 1 /\ busResets \in 0..MaxBusResets
  /\ ready \in BOOLEAN /\ lost \in BOOLEAN
  /\ stale \in BOOLEAN /\ slow \in BOOLEAN

(* Every packet the host takes while it carries out a command was written   *)
(* for that command: no data or status of an earlier one survives a stall,  *)
(* an abort or a reset, and a status wrapper never shares a packet with     *)
(* data (MassStorage.c:115, 128-141, 196-215).  The exceptions are commands *)
(* sent after a bus reset that met the main loop in the middle of one, or   *)
(* to a device that had given up waiting for a slow host (stale).           *)
AnswersItsCommand ==
  (in.sent /\ host \in {"data", "status"} /\ ~stalled["in"] /\ ~stale) =>
    /\ in.tags = {tag}
    /\ in.csw.tag # 0 => in.bytes = Status

(* The residue of a status wrapper is what the host asked for less the data *)
(* that was moved, padding not counted, whichever way the command ended and *)
(* whatever wrapped on the way (MassStorage.c:116; SCSI.c:121, 169, 189,    *)
(* 207, 241, 285).  Not promised: the residue of a command on which the     *)
(* device lost patience with a host that was only slow, when SCSI.c:285     *)
(* subtracts what was never moved (slow).                                   *)
ResidueExact ==
  (in.sent /\ in.csw.tag = tag /\ host \in {"data", "status"} /\ ~stale /\ ~slow) =>
    in.csw.residue = command.length - moved

(* Every command is answered, or given up by the host of its own accord:    *)
(* the stalls of the device and the waiting of MS_Device_ReturnCommandStatus*)
(* never leave the two waiting for each other (MassStorage.c:186-206), nor  *)
(* does a bus reset that leaves the main loop with another endpoint and its *)
(* state wiped (MassStorage.c:79, USBInterrupt.c:145), nor a transfer or a  *)
(* status that was given up on while the host was slow (Endpoint.c:100-134).*)
CommandAnswered == (host \in {"data", "status"}) ~> (host = "idle")

(* A mass storage reset is always carried out, wherever it meets the main   *)
(* loop (MassStorage.c:128-141).                                            *)
ResetCompletes == massReset ~> ~massReset

(* The class driver implements the abstract transport: between the packets, *)
(* stalls, timeouts and handlers, a host sees commands that are open until  *)
(* answered, no more data than asked for, and residues that tell all.       *)
Settled == ~stale /\ ~slow /\ host \in {"idle", "data", "status"}
Useful == IF command.op \in DOMAIN Response /\ carried > Relevant(command)
          THEN Relevant(command) ELSE carried
Abstract == INSTANCE Transport WITH
  stage   <- IF ~Settled THEN "recovering" ELSE IF host = "idle" THEN "idle" ELSE "open",
  command <- IF Settled /\ host # "idle" THEN command ELSE NoCommand,
  carried <- IF Settled /\ host # "idle" THEN carried ELSE 0,
  useful  <- IF Settled /\ host # "idle" THEN Useful ELSE 0,
  residue <- IF Settled /\ host = "idle" THEN residue ELSE 0
ImplementsTransport == Abstract!Spec

(* SCSI.c:73-74 of SenseData: "for the last issued SCSI command, which is   *)
(* returned to the host after a SCSI REQUEST SENSE command is issued.  This *)
(* gives information on exactly why the last command failed to complete."   *)
SenseExplains ==
  (pc = "stream" /\ block.command.op = "sense" /\ csw.status = "fail")
    => senseKey # "good"

(* What Device/MassStorage.h:92-93 says of the status wrapper: it tells    *)
(* the host that the command failed.  A host that keeps waiting for a       *)
(* failed command is told.                                                  *)
FailureReturned ==
  (pc = "waitout" /\ csw.status = "fail" /\ csw.tag = tag /\ host \in {"data", "status"})
    ~> (host \notin {"data", "status"})

=============================================================================
