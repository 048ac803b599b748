------------------------------ MODULE UsbDevice ------------------------------
(***************************************************************************)
(* The USB device core of the firmware (LUFA): the two interrupt handlers, *)
(* USB_GEN_vect for the bus and USB_COM_vect for the control endpoint, the *)
(* main loop that calls USB_USBTask as well, and the host.                 *)
(*                                                                         *)
(* Both the second handler and the main loop run the procedures for        *)
(* control requests (DevChapter9.c).  A handler blocks interrupts, so it   *)
(* runs alone until it returns, and the main loop runs when no interrupt   *)
(* is pending; the bus goes on all the time.  The bus, the registers of    *)
(* the controller and the host are external.                               *)
(***************************************************************************)
EXTENDS Integers

CONSTANTS
  Requests,      \* the requests the host makes
  MaxRequests,   \* bound: how many it makes; none after it was hasty
  MaxEvents      \* bound: how often it resets or suspends the bus or the cable
                 \* is pulled

(* Requests with a data stage to the host, those without one that the       *)
(* device obeys, and those it does not know or refuses.                     *)
Reads == {"GetStatus", "GetConfiguration", "GetDescriptor", "GetMaxLUN"}
Orders == {"SetAddress", "Configure", "Unconfigure", "Halt", "Unhalt", "MassStorageReset"}
ClassRequests == {"GetMaxLUN", "MassStorageReset"}

ASSUME BoundAssumption ==
  /\ Requests \subseteq Reads \cup Orders \cup {"unknown"}
  /\ MaxRequests \in Nat /\ MaxEvents \in Nat

VARIABLES
  state,     \* USB_DeviceState
  config,    \* USB_ConfigurationNumber
  request,   \* USB_ControlRequest
  pc,        \* the next step of the main loop and of the handler
  job,       \* the request each of them has read, then the one it obeys
  left,      \* packets each of them has still to stream
  full,      \* LastPacketFull of each
  prev,      \* the endpoint each of them will select again
  selected,  \* the endpoint selected: the control or a data endpoint
  enabled,   \* the interrupts enabled
  flags,     \* the interrupts of the bus that have occurred
  frozen,    \* is the clock of the controller stopped?
  address,   \* UDADDR
  live,      \* are the data endpoints configured?
  halted,    \* STALLRQ of the data endpoints
  setup,     \* control endpoint: the SETUP packet not yet cleared
  in,        \* control endpoint: the packet for the host
  outReceived, \* control endpoint: a packet of the host
  stall,     \* control endpoint: STALLRQ
  host,      \* the stage of the host's control transfer
  asked,     \* its request
  hostAddress, \* the address it uses
  attached, reached, asleep, \* is the cable in, has the bus been reset since,
                             \* is it suspended?
  requests, events, \* how many there were
  mine,      \* history: the endpoint the main loop has selected last
  wiped,     \* history: a bus reset has selected another one since
  late,      \* history: the main loop has started on a request itself
  hasty      \* history: the host did not wait for an answer or for the handler

stateVars == <<state, config>>
runVars == <<request, pc, job, left, full, prev>>
selVars == <<selected, mine, wiped>>
intVars == <<enabled, flags, frozen>>
dataVars == <<live, halted>>
controlVars == <<setup, in, outReceived, stall>>
hostVars == <<host, asked, hostAddress, attached, reached, asleep, requests, events, hasty>>
vars == <<stateVars, runVars, selVars, intVars, address, dataVars, controlVars,
          hostVars, late>>

Contexts == {"main", "handler"}

Init ==
  /\ state = "Unattached" /\ config = 0 /\ request = "unknown"
  /\ pc = [main |-> "class", handler |-> "idle"]
  /\ job = [w \in Contexts |-> "unknown"] /\ left = [w \in Contexts |-> 0]
  /\ full = [w \in Contexts |-> FALSE] /\ prev = [w \in Contexts |-> "control"]
  /\ selected = "control" /\ mine = "control" /\ wiped = FALSE
  /\ enabled = {"VBUS", "SUSPEND", "EORSTI"} /\ flags = {"VBUS"} /\ frozen = FALSE
  /\ address = 0 /\ live = FALSE /\ halted = FALSE
  /\ setup = "none" /\ in = "free" /\ outReceived = FALSE /\ stall = FALSE
  /\ host = "idle" /\ asked = "unknown" /\ hostAddress = 0
  /\ attached = TRUE /\ reached = FALSE /\ asleep = FALSE
  /\ requests = 0 /\ events = 0
  /\ late = FALSE /\ hasty = FALSE

BusPending == flags \cap enabled # {}
SetupPending == "RXSTPI" \in enabled /\ setup # "none"

(* Who may take a step: the handler, or the main loop between handlers.     *)
Runs(w) == w = "handler" \/ (pc["handler"] = "idle" /\ ~BusPending /\ ~SetupPending)
At(w, step) == pc[w] = step /\ Runs(w)
Goto(w, step) == pc' = [pc EXCEPT ![w] = step]
Select(w, e) ==
  /\ selected' = e
  /\ IF w = "main" THEN mine' = e /\ wiped' = FALSE ELSE UNCHANGED <<mine, wiped>>

-----------------------------------------------------------------------------
(* The handler of the bus, ISR(USB_GEN_vect): its sections in their order,  *)
(* each on what the one before has left.  What comes while it runs makes it *)
(* run once more.                                                           *)

Occurred(r, i) == i \in r.flags /\ i \in r.enabled

Vbus(r) ==
  IF ~Occurred(r, "VBUS") THEN r
  ELSE [r EXCEPT !.flags = @ \ {"VBUS"}, !.state = IF attached THEN "Powered" ELSE "Unattached"]

(* Fault: the wake up interrupt is not enabled. *)
MutSuspended(r) ==
  IF ~Occurred(r, "SUSPEND") THEN r
  ELSE [r EXCEPT !.flags = @ \ {"SUSPEND"}, !.enabled = @ \ {"SUSPEND"},
                 !.frozen = TRUE, !.state = "Suspended"]

Suspended(r) ==
  IF ~Occurred(r, "SUSPEND") THEN r
  ELSE [r EXCEPT !.flags = @ \ {"SUSPEND"}, !.enabled = (@ \ {"SUSPEND"}) \cup {"WAKEUP"},
                 !.frozen = TRUE, !.state = "Suspended"]

Wakeup(r) ==
  IF ~Occurred(r, "WAKEUP") THEN r
  ELSE [r EXCEPT !.flags = @ \ {"WAKEUP"}, !.enabled = (@ \ {"WAKEUP"}) \cup {"SUSPEND"},
                 !.frozen = FALSE, !.state = IF config # 0 THEN "Configured" ELSE "Addressed"]

(* Fault: the configuration outlives the bus reset. *)
MutEndOfReset(r) ==
  IF ~Occurred(r, "EORSTI") THEN r
  ELSE [r EXCEPT !.flags = @ \ {"EORSTI", "SUSPEND"},
                 !.enabled = (@ \ {"SUSPEND"}) \cup {"WAKEUP", "RXSTPI"},
                 !.state = "Default"]

EndOfReset(r) ==
  IF ~Occurred(r, "EORSTI") THEN r
  ELSE [r EXCEPT !.flags = @ \ {"EORSTI", "SUSPEND"},
                 !.enabled = (@ \ {"SUSPEND"}) \cup {"WAKEUP", "RXSTPI"},
                 !.state = "Default", !.config = 0]

(* The end of a bus reset: Endpoint_ClearEndpoints disables every endpoint, *)
(* its stall with it, and the control endpoint is configured again and      *)
(* stays selected.                                                          *)
ClearEndpoints ==
  /\ live' = FALSE /\ halted' = FALSE
  /\ setup' = "none" /\ in' = "free" /\ outReceived' = FALSE /\ stall' = FALSE
  /\ selected' = "control" /\ wiped' = TRUE /\ UNCHANGED mine

GeneralInterrupt ==
  /\ pc["handler"] = "idle" /\ BusPending
  /\ LET before == [flags |-> flags, enabled |-> enabled, state |-> state,
                    config |-> config, frozen |-> frozen]
         after == EndOfReset(Wakeup(Suspended(Vbus(before)))) IN
     /\ flags' = after.flags /\ enabled' = after.enabled /\ frozen' = after.frozen
     /\ state' = after.state /\ config' = after.config
     /\ IF Occurred(before, "EORSTI") THEN ClearEndpoints
                                      ELSE UNCHANGED <<dataVars, controlVars, selVars>>
  /\ UNCHANGED <<runVars, address, hostVars, late>>

-----------------------------------------------------------------------------
(* The handler of the control endpoint, ISR(USB_COM_vect), up to the        *)
(* request and after it.  What it calls, USB_USBTask, saves and selects the *)
(* same endpoint once more.                                                 *)

ControlInterrupt ==
  /\ pc["handler"] = "idle" /\ ~BusPending /\ SetupPending
  /\ prev' = [prev EXCEPT !["handler"] = selected]
  /\ \/ state = "Unattached" /\ Goto("handler", "exit") /\ UNCHANGED selVars
     \/ state # "Unattached" /\ Goto("handler", "read") /\ Select("handler", "control")
  /\ UNCHANGED <<stateVars, request, job, left, full, intVars, address, dataVars,
                 controlVars, hostVars, late>>

(* Fault: the endpoint is not selected again. *)
MutExit ==
  /\ pc["handler"] = "exit" /\ Goto("handler", "idle")
  /\ prev' = [prev EXCEPT !["handler"] = "control"]
  /\ setup' = IF prev["handler"] = "control" THEN "none" ELSE setup
  /\ UNCHANGED <<stateVars, request, job, left, full, selVars, intVars, address,
                 dataVars, in, outReceived, stall, hostVars, late>>

(* The flag that is cleared is that of the endpoint just selected again.    *)
Exit ==
  /\ pc["handler"] = "exit" /\ Goto("handler", "idle")
  /\ prev' = [prev EXCEPT !["handler"] = "control"]
  /\ Select("handler", prev["handler"])
  /\ setup' = IF prev["handler"] = "control" THEN "none" ELSE setup
  /\ UNCHANGED <<stateVars, request, job, left, full, intVars, address, dataVars,
                 in, outReceived, stall, hostVars, late>>

-----------------------------------------------------------------------------
(* The main loop                                                            *)

(* MS_Device_USBTask selects its endpoints, if the device is configured.    *)
Class ==
  /\ At("main", "class") /\ Goto("main", "task")
  /\ \/ state = "Configured" /\ Select("main", "data")
     \/ state # "Configured" /\ UNCHANGED selVars
  /\ UNCHANGED <<stateVars, request, job, left, full, prev, intVars, address, dataVars,
                 controlVars, hostVars, late>>

DeviceTask ==
  /\ At("main", "task")
  /\ \/ /\ state = "Unattached" /\ Goto("main", "class") /\ UNCHANGED <<prev, selVars>>
     \/ /\ state # "Unattached" /\ Goto("main", "test")
        /\ prev' = [prev EXCEPT !["main"] = selected] /\ Select("main", "control")
  /\ UNCHANGED <<stateVars, request, job, left, full, intVars, address, dataVars,
                 controlVars, hostVars, late>>

(* The flag may be set in the very instruction that reads it, and the       *)
(* interrupt is taken after it.                                             *)
Test ==
  /\ pc["main"] = "test" /\ pc["handler"] = "idle"
  /\ \/ setup = "none" /\ Goto("main", "restore") /\ UNCHANGED late
     \/ setup # "none" /\ Goto("main", "read") /\ late' = TRUE
  /\ UNCHANGED <<stateVars, request, job, left, full, prev, selVars, intVars, address,
                 dataVars, controlVars, hostVars>>

Restore ==
  /\ At("main", "restore") /\ Goto("main", "class")
  /\ prev' = [prev EXCEPT !["main"] = "control"]
  /\ Select("main", prev["main"])
  /\ UNCHANGED <<stateVars, request, job, left, full, intVars, address, dataVars,
                 controlVars, hostVars, late>>

MainLoop == Class \/ DeviceTask \/ Test \/ Restore

-----------------------------------------------------------------------------
(* USB_Device_ProcessControlRequest and what it calls                       *)

(* The variables of a procedure are gone when it returns.                   *)
Forget(w) ==
  /\ job' = [job EXCEPT ![w] = "unknown"]
  /\ left' = [left EXCEPT ![w] = 0] /\ full' = [full EXCEPT ![w] = FALSE]

After(w) == IF w = "main" THEN "restore" ELSE "exit"

(* The eight bytes of the packet.  There is none left for a main loop that  *)
(* comes after the handler: it reads the old bytes again, or anything.      *)
ReadRequest(w) ==
  /\ At(w, "read") /\ Goto(w, "dispatch")
  /\ request' \in IF setup # "none" THEN {setup} ELSE {request, "unknown"}
  /\ job' = [job EXCEPT ![w] = request']
  /\ UNCHANGED <<stateVars, left, full, prev, selVars, intVars, address, dataVars,
                 controlVars, hostVars, late>>

(* A procedure is chosen by the type that was kept and by the code that is  *)
(* in USB_ControlRequest now; class requests look at both there, and for    *)
(* the packet once more.                                                    *)
Type(r) == IF r \in Reads THEN "read" ELSE IF r \in {"Halt", "Unhalt"} THEN "endpoint" ELSE "order"
Known(w) ==
  /\ request # "unknown"
  /\ IF request \in ClassRequests THEN setup # "none"
     ELSE job[w] \notin ClassRequests \cup {"unknown"} /\ Type(job[w]) = Type(request)
Dispatching(w, rs) == At(w, "dispatch") /\ request \in rs /\ Known(w)

(* GetStatus, GetConfiguration, GetMaxLUN: one short packet.                *)
Answer(w) ==
  /\ Dispatching(w, Reads \ {"GetDescriptor"})
  /\ Goto(w, "status") /\ setup' = "none" /\ in' = "short"
  /\ job' = [job EXCEPT ![w] = request]
  /\ UNCHANGED <<stateVars, request, left, full, prev, selVars, intVars, address,
                 dataVars, outReceived, stall, hostVars, late>>

(* A descriptor of one or two packets; the last may be a full one.          *)
GetDescriptor(w) ==
  /\ Dispatching(w, {"GetDescriptor"})
  /\ Goto(w, "stream") /\ setup' = "none"
  /\ \E n \in 1..2 : left' = [left EXCEPT ![w] = n]
  /\ full' = [full EXCEPT ![w] = FALSE]
  /\ job' = [job EXCEPT ![w] = request]
  /\ UNCHANGED <<stateVars, request, prev, selVars, intVars, address, dataVars,
                 in, outReceived, stall, hostVars, late>>

(* USB_Device_ClearSetFeature selects the endpoint and the control endpoint *)
(* again; SET CONFIGURATION takes the number before the status stage.       *)
Obey(w) ==
  /\ Dispatching(w, Orders)
  /\ Goto(w, "status") /\ setup' = "none"
  /\ config' = CASE request = "Configure" -> 1 [] request = "Unconfigure" -> 0 [] OTHER -> config
  /\ halted' = IF request \in {"Halt", "Unhalt"} /\ live THEN request = "Halt" ELSE halted
  /\ IF request \in {"Halt", "Unhalt"} THEN Select(w, "control") ELSE UNCHANGED selVars
  /\ job' = [job EXCEPT ![w] = request]
  /\ UNCHANGED <<state, request, left, full, prev, intVars, address, live,
                 in, outReceived, stall, hostVars, late>>

(* Unknown, or refused by a handler that returns before it clears SETUP.    *)
Ignore(w) ==
  /\ At(w, "dispatch") /\ ~Known(w)
  /\ Goto(w, "finish")
  /\ UNCHANGED <<stateVars, request, job, left, full, prev, selVars, intVars, address,
                 dataVars, controlVars, hostVars, late>>

Send(packet) == in = "free" /\ in' = packet

(* Fault: the count goes on with a packet of nothing. *)
MutStream(w) ==
  /\ At(w, "stream") /\ setup = "none" /\ ~outReceived /\ state # "Unattached"
  /\ left[w] > 0 \/ full[w]
  /\ \E more \in IF left[w] > 1 THEN {TRUE} ELSE IF left[w] = 1 THEN BOOLEAN ELSE {FALSE} :
       /\ Send(IF more THEN "full" ELSE "short")
       /\ full' = [full EXCEPT ![w] = more]
       /\ left' = [left EXCEPT ![w] = @ - 1]
  /\ UNCHANGED <<stateVars, request, pc, job, prev, selVars, intVars, address, dataVars,
                 setup, outReceived, stall, hostVars, late>>

(* Endpoint_Write_Control_PStream_LE: a packet, the last of which is short, *)
(* be it of nothing.                                                        *)
Stream(w) ==
  /\ At(w, "stream") /\ setup = "none" /\ ~outReceived /\ state # "Unattached"
  /\ left[w] > 0 \/ full[w]
  /\ \E more \in IF left[w] > 1 THEN {TRUE} ELSE IF left[w] = 1 THEN BOOLEAN ELSE {FALSE} :
       /\ Send(IF more THEN "full" ELSE "short")
       /\ full' = [full EXCEPT ![w] = more]
       /\ left' = [left EXCEPT ![w] = IF @ = 0 THEN 0 ELSE @ - 1]
  /\ UNCHANGED <<stateVars, request, pc, job, prev, selVars, intVars, address, dataVars,
                 setup, outReceived, stall, hostVars, late>>

(* Fault: a last packet that was full is not followed by an empty one. *)
MutStreamEnds(w) ==
  /\ At(w, "stream")
  /\ LET sent == left[w] = 0 IN
     \/ ~sent /\ (setup # "none" \/ (~outReceived /\ state = "Unattached"))
        /\ Goto(w, "clearout")
     \/ (sent \/ (setup = "none" /\ outReceived)) /\ Goto(w, "streamed")
  /\ UNCHANGED <<stateVars, request, job, left, full, prev, selVars, intVars, address,
                 dataVars, controlVars, hostVars, late>>

(* The loop ends with the data, or because the host has seen enough; or the *)
(* stream is given up, because of another SETUP packet or of a detachment.  *)
StreamEnds(w) ==
  /\ At(w, "stream")
  /\ LET sent == left[w] = 0 /\ ~full[w] IN
     \/ ~sent /\ (setup # "none" \/ (~outReceived /\ state = "Unattached"))
        /\ Goto(w, "clearout")
     \/ (sent \/ (setup = "none" /\ outReceived)) /\ Goto(w, "streamed")
  /\ UNCHANGED <<stateVars, request, job, left, full, prev, selVars, intVars, address,
                 dataVars, controlVars, hostVars, late>>

Streamed(w) ==
  /\ At(w, "streamed") /\ (outReceived \/ state = "Unattached")
  /\ Goto(w, "clearout")
  /\ UNCHANGED <<stateVars, request, job, left, full, prev, selVars, intVars, address,
                 dataVars, controlVars, hostVars, late>>

ClearOUT(w) ==
  /\ At(w, "clearout") /\ Goto(w, "finish")
  /\ outReceived' = FALSE
  /\ UNCHANGED <<stateVars, request, job, left, full, prev, selVars, intVars, address,
                 dataVars, setup, in, stall, hostVars, late>>

(* Endpoint_ClearStatusStage goes by the direction in USB_ControlRequest,   *)
(* which for a main loop may be that of another request by now.             *)
StatusStage(w) ==
  /\ At(w, "status")
  /\ \/ request \in Reads \cup {"unknown"} /\ outReceived
        /\ outReceived' = FALSE /\ UNCHANGED in
     \/ request \in Orders \cup {"unknown"} /\ Send("short") /\ UNCHANGED outReceived
     \/ state = "Unattached" /\ UNCHANGED <<in, outReceived>>
  /\ Goto(w, CASE job[w] = "SetAddress" -> "settle"
               [] job[w] \in {"Configure", "Unconfigure"} -> "configure"
               [] OTHER -> "finish")
  /\ UNCHANGED <<stateVars, request, job, left, full, prev, selVars, intVars, address,
                 dataVars, setup, stall, hostVars, late>>

(* Fault: the address changes before the host has seen the status stage. *)
MutSetAddress(w) ==
  /\ At(w, "settle") /\ Goto(w, "finish")
  /\ IF state = "Unattached" THEN UNCHANGED <<state, address>>
     ELSE state' = "Addressed" /\ address' = 1
  /\ UNCHANGED <<config, request, job, left, full, prev, selVars, intVars, dataVars,
                 controlVars, hostVars, late>>

(* The rest of USB_Device_SetAddress: the new address is for the time after *)
(* the status stage, so the packet must have been taken.                    *)
SetAddress(w) ==
  /\ At(w, "settle") /\ Goto(w, "finish")
  /\ \/ in = "free" /\ state' = "Addressed" /\ address' = 1
     \/ in # "free" /\ state = "Unattached" /\ UNCHANGED <<state, address>>
  /\ UNCHANGED <<config, request, job, left, full, prev, selVars, intVars, dataVars,
                 controlVars, hostVars, late>>

(* The rest of USB_Device_SetConfiguration, and the configuration of the    *)
(* endpoints by its event: the last of them stays selected.                 *)
SetConfiguration(w) ==
  /\ At(w, "configure") /\ Goto(w, "finish")
  /\ state' = IF config # 0 THEN "Configured" ELSE "Addressed"
  /\ live' = TRUE /\ Select(w, "data")
  /\ UNCHANGED <<config, request, job, left, full, prev, intVars, address, halted,
                 controlVars, hostVars, late>>

(* Fault: what nobody has handled is not stalled. *)
MutFinish(w) ==
  /\ At(w, "finish") /\ Goto(w, After(w)) /\ Forget(w)
  /\ IF selected = "control" THEN setup' = "none" ELSE UNCHANGED setup
  /\ UNCHANGED <<stateVars, request, prev, selVars, intVars, address,
                 dataVars, in, outReceived, stall, hostVars, late>>

(* A SETUP packet that is still there, or there again, is stalled.          *)
Finish(w) ==
  /\ At(w, "finish") /\ Goto(w, After(w)) /\ Forget(w)
  /\ IF selected = "control" /\ setup # "none"
     THEN setup' = "none" /\ stall' = TRUE
     ELSE UNCHANGED <<setup, stall>>
  /\ UNCHANGED <<stateVars, request, prev, selVars, intVars, address,
                 dataVars, in, outReceived, hostVars, late>>

ProcessControlRequest(w) ==
  \/ ReadRequest(w) \/ Answer(w) \/ GetDescriptor(w) \/ Obey(w) \/ Ignore(w)
  \/ Stream(w) \/ StreamEnds(w) \/ Streamed(w) \/ ClearOUT(w)
  \/ StatusStage(w) \/ SetAddress(w) \/ SetConfiguration(w) \/ Finish(w)

Handler == GeneralInterrupt \/ ControlInterrupt \/ Exit \/ ProcessControlRequest("handler")
Main == MainLoop \/ ProcessControlRequest("main")

-----------------------------------------------------------------------------
(* The host and its control transfers                                       *)

device == <<stateVars, runVars, selVars, late>>

(* The handler will not see another packet, and clears its flag.            *)
Leaving == \/ pc["handler"] \in {"configure", "exit"}
           \/ pc["handler"] = "finish" /\ selected = "data"

(* SETUP is always accepted: the endpoint forgets what it had.              *)
SendSetup ==
  /\ attached /\ reached /\ ~asleep /\ ~frozen /\ "EORSTI" \notin flags
  /\ address = hostAddress /\ requests < MaxRequests /\ ~hasty
  /\ requests' = requests + 1
  /\ \E r \in Requests :
       /\ setup' = r /\ asked' = r
       /\ host' = IF r \in Reads THEN "data" ELSE "status"
  /\ in' = "free" /\ outReceived' = FALSE /\ stall' = FALSE
  /\ flags' = flags \cup {"WAKEUP"}
  /\ hasty' = (host # "idle" \/ outReceived \/ Leaving)
  /\ UNCHANGED <<device, enabled, frozen, address, dataVars, hostAddress, attached,
                 reached, asleep, events>>

(* A host that has what it asked for may end the data with a full packet.   *)
TakeData ==
  /\ host = "data" /\ in # "free" /\ ~stall
  /\ in' = "free"
  /\ host' \in IF in = "short" THEN {"status"} ELSE {"data", "status"}
  /\ UNCHANGED <<device, intVars, address, dataVars, setup, outReceived, stall, asked,
                 hostAddress, attached, reached, asleep, requests, events, hasty>>

SendStatus ==
  /\ host = "status" /\ asked \in Reads /\ setup = "none" /\ ~outReceived /\ ~stall
  /\ outReceived' = TRUE /\ host' = "idle" /\ asked' = "unknown"
  /\ UNCHANGED <<device, intVars, address, dataVars, setup, in, stall,
                 hostAddress, attached, reached, asleep, requests, events, hasty>>

TakeStatus ==
  /\ host = "status" /\ asked \notin Reads /\ in # "free" /\ ~stall
  /\ in' = "free" /\ host' = "idle" /\ asked' = "unknown"
  /\ hostAddress' = IF asked = "SetAddress" THEN 1 ELSE hostAddress
  /\ UNCHANGED <<device, intVars, address, dataVars, setup, outReceived, stall,
                 attached, reached, asleep, requests, events, hasty>>

SeeStall ==
  /\ host # "idle" /\ stall /\ host' = "idle" /\ asked' = "unknown"
  /\ UNCHANGED <<device, intVars, address, dataVars, controlVars, hostAddress,
                 attached, reached, asleep, requests, events, hasty>>

Serve == TakeData \/ SendStatus \/ TakeStatus \/ SeeStall

-----------------------------------------------------------------------------
(* The bus.  A reset and the silence of a suspension last milliseconds: a   *)
(* handler that does not wait for the host has returned by then.            *)
Lasts == host = "idle" => pc["handler"] = "idle"

BusReset ==
  /\ attached /\ ~frozen /\ Lasts /\ events < MaxEvents
  /\ events' = events + 1
  /\ flags' = flags \cup {"EORSTI", "WAKEUP"}
  /\ address' = 0 /\ hostAddress' = 0 /\ live' = FALSE
  /\ host' = "idle" /\ asked' = "unknown" /\ reached' = TRUE /\ asleep' = FALSE
  /\ hasty' = (hasty \/ host # "idle")
  /\ UNCHANGED <<device, enabled, frozen, halted, controlVars, attached, requests>>

Suspend ==
  /\ attached /\ reached /\ ~asleep /\ host = "idle" /\ Lasts
  /\ events < MaxEvents
  /\ events' = events + 1
  /\ asleep' = TRUE /\ flags' = flags \cup {"SUSPEND"}
  /\ UNCHANGED <<device, enabled, frozen, address, dataVars, controlVars, host, asked,
                 hostAddress, attached, reached, hasty, requests>>

(* Anything on the bus sets the flag: a frame, a resume, a reset signal.    *)
Activity ==
  /\ attached /\ (asleep \/ "WAKEUP" \notin flags)
  /\ asleep' = FALSE /\ flags' = flags \cup {"WAKEUP"}
  /\ UNCHANGED <<device, enabled, frozen, address, dataVars, controlVars, host, asked,
                 hostAddress, attached, reached, requests, events, hasty>>

(* The cable is pulled or put in; the lines may be seen to move.            *)
Detach ==
  /\ attached /\ events < MaxEvents
  /\ events' = events + 1
  /\ attached' = FALSE /\ reached' = FALSE /\ asleep' = FALSE /\ host' = "idle" /\ asked' = "unknown"
  /\ \E lines \in {{}, {"WAKEUP"}} : flags' = flags \cup {"VBUS"} \cup lines
  /\ hasty' = (hasty \/ host # "idle")
  /\ UNCHANGED <<device, enabled, frozen, address, dataVars, controlVars, hostAddress, requests>>

Attach ==
  /\ ~attached /\ attached' = TRUE /\ flags' = flags \cup {"VBUS"}
  /\ UNCHANGED <<device, enabled, frozen, address, dataVars, controlVars, host, asked,
                 hostAddress, reached, asleep, requests, events, hasty>>

Bus == BusReset \/ Suspend \/ Activity \/ Detach \/ Attach

Next == Handler \/ Main \/ SendSetup \/ Serve \/ Bus

Spec == Init /\ [][Next]_vars

(* The handlers run, the host carries on with a transfer it has begun, and  *)
(* a bus in use is not silent.                                              *)
FairSpec == Spec /\ WF_vars(Handler) /\ WF_vars(Serve) /\ WF_vars(~asleep /\ Activity)

-----------------------------------------------------------------------------
(* Properties                                                               *)

Steps == {"read", "dispatch", "status", "stream", "streamed", "clearout", "settle",
          "configure", "finish"}

(* Every variable has its type; a stream is never longer than its data.     *)
TypeOK ==
  /\ state \in {"Unattached", "Powered", "Default", "Addressed", "Configured", "Suspended"}
  /\ pc \in [Contexts -> Steps \cup {"class", "task", "test", "restore", "idle", "exit"}]
  /\ pc["main"] \notin {"idle", "exit"}
  /\ pc["handler"] \notin {"class", "task", "test", "restore"}
  /\ request \in Requests \cup {"unknown"} /\ job \in [Contexts -> Requests \cup {"unknown"}]
  /\ setup \in Requests \cup {"none"} /\ asked \in Requests \cup {"unknown"}
  /\ prev \in [Contexts -> {"control", "data"}]
  /\ selected \in {"control", "data"} /\ mine \in {"control", "data"}
  /\ flags \subseteq {"VBUS", "SUSPEND", "WAKEUP", "EORSTI"}
  /\ enabled \subseteq {"VBUS", "SUSPEND", "WAKEUP", "EORSTI", "RXSTPI"}
  /\ in \in {"free", "full", "short"} /\ host \in {"idle", "data", "status"}
  /\ left \in [Contexts -> 0..2] /\ config \in 0..1
  /\ address \in 0..1 /\ hostAddress \in 0..1
  /\ requests \in 0..MaxRequests /\ events \in 0..MaxEvents
  /\ full \in [Contexts -> BOOLEAN] /\ frozen \in BOOLEAN /\ live \in BOOLEAN
  /\ halted \in BOOLEAN /\ outReceived \in BOOLEAN /\ stall \in BOOLEAN
  /\ attached \in BOOLEAN /\ reached \in BOOLEAN /\ asleep \in BOOLEAN
  /\ wiped \in BOOLEAN /\ late \in BOOLEAN /\ hasty \in BOOLEAN

(* Whenever the main loop can look, a device that says it is configured has *)
(* a configuration and its endpoints, through resets, suspensions and       *)
(* detachments in any order (USBInterrupt.c:72-156, DevChapter9.c:193-204). *)
ConfiguredMeansEndpoints ==
  (state = "Configured" /\ pc["handler"] = "idle" /\ "EORSTI" \notin flags /\ ~late) =>
    config # 0 /\ live

(* The handlers leave the endpoint selected that the main loop had selected,*)
(* unless there was a bus reset (USBInterrupt.c:145-149, 236-242,           *)
(* USBTask.c:65-73).                                                        *)
SelectionKept == pc["handler"] = "idle" => (selected = mine \/ wiped)

(* The device answers at the address the host uses from the first packet of *)
(* a transfer to the last (DevChapter9.c:129-142).                          *)
AddressHeld == (host # "idle" /\ ~hasty /\ ~late) => address = hostAddress

(* A request gets its data and status, or a stall: a host that waits for    *)
(* the one before is never left without an answer (DevChapter9.c:49-123,    *)
(* Endpoint.c:75-97, USBInterrupt.c:234-243).                               *)
RequestAnswered == (host # "idle") ~> (host = "idle" \/ hasty)

(* A device whose clock is stopped on a bus in use gets its clock back      *)
(* (USBInterrupt.c:89-132).                                                 *)
WakesUp == (frozen /\ attached /\ ~asleep) ~> (~frozen \/ ~attached \/ asleep \/ hasty)

(* The handler of the control endpoint, which blocks every other, returns   *)
(* if the host carries on: it never waits for a packet the host does not    *)
(* owe it (Endpoint.c:75-97, Template_Endpoint_Control_W.c:15-44,           *)
(* DevChapter9.c:135-138).                                                  *)
HandlerReturns == (pc["handler"] # "idle") ~> (pc["handler"] = "idle" \/ hasty)
=============================================================================
