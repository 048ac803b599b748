--------------------------- MODULE UsbDeviceProofs ---------------------------
(***************************************************************************)
(* Proofs about UsbDevice, for any number of requests and of resets,       *)
(* suspensions and detachments: the types, the selection of the endpoint,  *)
(* the address and the configuration.                                      *)
(***************************************************************************)
EXTENDS UsbDevice, TLAPS

(* TypeOK in three parts, for the provers: words and sets of words, numbers,*)
(* and Booleans.                                                            *)
Words ==
  /\ state \in {"Unattached", "Powered", "Default", "Addressed", "Configured", "Suspended"}
  /\ pc \in [Contexts -> Steps \cup {"class", "task", "test", "restore", "idle", "exit"}]
  /\ pc["main"] \notin {"idle", "exit"}
  /\ pc["handler"] \notin {"class", "task", "test", "restore"}
  /\ request \in Requests \cup {"unknown"} /\ job \in [Contexts -> Requests \cup {"unknown"}]
  /\ setup \in Requests \cup {"none"} /\ asked \in Requests \cup {"unknown"}
  /\ prev \in [Contexts -> {"control", "data"}]
  /\ selected \in {"control", "data"} /\ mine \in {"control", "data"}
  /\ flags \subseteq {"VBUS", "SUSPEND", "WAKEUP", "EORSTI"}
  /\ enabled \subseteq {"VBUS", "SUSPEND", "WAKEUP", "EORSTI", "RXSTPI"}
  /\ in \in {"free", "full", "short"} /\ host \in {"idle", "data", "status"}

Numbers ==
  /\ left \in [Contexts -> 0..2] /\ config \in 0..1
  /\ address \in 0..1 /\ hostAddress \in 0..1
  /\ requests \in 0..MaxRequests /\ events \in 0..MaxEvents

Bits ==
  /\ full \in [Contexts -> BOOLEAN] /\ frozen \in BOOLEAN /\ live \in BOOLEAN
  /\ halted \in BOOLEAN /\ outReceived \in BOOLEAN /\ stall \in BOOLEAN
  /\ attached \in BOOLEAN /\ reached \in BOOLEAN /\ asleep \in BOOLEAN
  /\ wiped \in BOOLEAN /\ late \in BOOLEAN /\ hasty \in BOOLEAN

(* The three parts are TypeOK.                                              *)
LEMMA Split == TypeOK <=> Words /\ Numbers /\ Bits
  BY DEF TypeOK, Words, Numbers, Bits

(* What the sections of the handler of the bus hand on.                     *)
Registers == [flags : SUBSET {"VBUS", "SUSPEND", "WAKEUP", "EORSTI"},
              enabled : SUBSET {"VBUS", "SUSPEND", "WAKEUP", "EORSTI", "RXSTPI"},
              state : {"Unattached", "Powered", "Default", "Addressed", "Configured",
                       "Suspended"},
              config : 0..1, frozen : BOOLEAN]

(* Each section of the handler of the bus hands on registers of their types.*)
LEMMA SectionsTyped ==
  ASSUME NEW r \in Registers, config \in 0..1
  PROVE  /\ Vbus(r) \in Registers /\ Suspended(r) \in Registers
         /\ Wakeup(r) \in Registers /\ EndOfReset(r) \in Registers
<1>1. Vbus(r) \in Registers BY DEF Registers, Vbus
<1>2. Suspended(r) \in Registers BY DEF Registers, Suspended
<1>3. Wakeup(r) \in Registers BY DEF Registers, Wakeup
<1>4. EndOfReset(r) \in Registers
  <2>1. r.flags \ {"EORSTI", "SUSPEND"} \in SUBSET {"VBUS", "SUSPEND", "WAKEUP", "EORSTI"}
    BY DEF Registers
  <2>2. (r.enabled \ {"SUSPEND"}) \cup {"WAKEUP", "RXSTPI"}
          \in SUBSET {"VBUS", "SUSPEND", "WAKEUP", "EORSTI", "RXSTPI"}
    BY DEF Registers
  <2> DEFINE r1 == [r EXCEPT !.flags = @ \ {"EORSTI", "SUSPEND"}]
             r2 == [r1 EXCEPT !.enabled = (@ \ {"SUSPEND"}) \cup {"WAKEUP", "RXSTPI"}]
             r3 == [r2 EXCEPT !.state = "Default"]
             r4 == [r3 EXCEPT !.config = 0]
  <2>3. r1 \in Registers /\ r1.enabled = r.enabled BY <2>1 DEF Registers
  <2>4. r2 \in Registers
    <3> HIDE DEF r1
    <3> QED BY <2>2, <2>3 DEF Registers
  <2>5. r3 \in Registers
    <3> HIDE DEF r1, r2
    <3> QED BY <2>4 DEF Registers
  <2>6. r4 \in Registers
    <3> HIDE DEF r1, r2, r3
    <3> QED BY <2>5 DEF Registers
  <2>7. EndOfReset(r) = IF ~Occurred(r, "EORSTI") THEN r ELSE r4 BY Zenon DEF EndOfReset
  <2> QED BY <2>6, <2>7, Zenon
<1> QED BY <1>1, <1>2, <1>3, <1>4

(* The handler of the bus keeps the types of what it writes, and writes     *)
(* nothing else.                                                            *)
LEMMA InterruptTyped ==
  ASSUME TypeOK, GeneralInterrupt
  PROVE  /\ flags' \subseteq {"VBUS", "SUSPEND", "WAKEUP", "EORSTI"}
         /\ enabled' \subseteq {"VBUS", "SUSPEND", "WAKEUP", "EORSTI", "RXSTPI"}
         /\ state' \in {"Unattached", "Powered", "Default", "Addressed", "Configured",
                        "Suspended"}
         /\ config' \in 0..1 /\ frozen' \in BOOLEAN
         /\ ClearEndpoints \/ UNCHANGED <<dataVars, controlVars, selVars>>
         /\ UNCHANGED <<runVars, address, hostVars, late>>
<1> DEFINE before == [flags |-> flags, enabled |-> enabled, state |-> state,
                      config |-> config, frozen |-> frozen]
           after == EndOfReset(Wakeup(Suspended(Vbus(before))))
<1>1. before \in Registers BY DEF TypeOK, Registers
<1>2. config \in 0..1 BY DEF TypeOK
<1>3. after \in Registers BY <1>1, <1>2, SectionsTyped
<1>4. /\ flags' = after.flags /\ enabled' = after.enabled /\ frozen' = after.frozen
      /\ state' = after.state /\ config' = after.config
  BY DEF GeneralInterrupt
<1>5. /\ ClearEndpoints \/ UNCHANGED <<dataVars, controlVars, selVars>>
      /\ UNCHANGED <<runVars, address, hostVars, late>>
  BY DEF GeneralInterrupt
<1> HIDE DEF after
<1> QED BY <1>3, <1>4, <1>5 DEF Registers

(* Every step keeps the types of the words.                                 *)
LEMMA WordsKept ==
  ASSUME TypeOK, [Next]_vars
  PROVE  Words'
<1> USE BoundAssumption DEF TypeOK, Words, Contexts, Steps, Reads, Orders, At, Runs,
        Goto, Select, Forget, After, Send, vars, stateVars, runVars, selVars, intVars,
        dataVars, controlVars, hostVars, device
<1>1. CASE UNCHANGED vars BY <1>1
<1>2. CASE GeneralInterrupt BY <1>2, InterruptTyped DEF ClearEndpoints
<1>3. CASE ControlInterrupt BY <1>3 DEF ControlInterrupt, SetupPending
<1>4. CASE Exit BY <1>4 DEF Exit
<1>5. CASE Class BY <1>5 DEF Class
<1>6. CASE DeviceTask BY <1>6 DEF DeviceTask
<1>7. CASE Test BY <1>7 DEF Test
<1>8. CASE Restore BY <1>8 DEF Restore
<1>9. CASE SendSetup BY <1>9 DEF SendSetup
<1>10. CASE TakeData BY <1>10 DEF TakeData
<1>11. CASE SendStatus BY <1>11 DEF SendStatus
<1>12. CASE TakeStatus BY <1>12 DEF TakeStatus
<1>13. CASE SeeStall BY <1>13 DEF SeeStall
<1>14. CASE BusReset BY <1>14 DEF BusReset, Lasts
<1>15. CASE Suspend BY <1>15 DEF Suspend
<1>16. CASE Activity BY <1>16 DEF Activity
<1>17. CASE Detach BY <1>17 DEF Detach
<1>18. CASE Attach BY <1>18 DEF Attach
<1>19. ASSUME NEW w \in Contexts, ReadRequest(w) PROVE Words' BY <1>19 DEF ReadRequest
<1>20. ASSUME NEW w \in Contexts, Answer(w) PROVE Words'
  BY <1>20 DEF Answer, Dispatching, Known
<1>21. ASSUME NEW w \in Contexts, GetDescriptor(w) PROVE Words'
  BY <1>21 DEF GetDescriptor, Dispatching, Known
<1>22. ASSUME NEW w \in Contexts, Obey(w) PROVE Words'
  BY <1>22 DEF Obey, Dispatching, Known
<1>23. ASSUME NEW w \in Contexts, Ignore(w) PROVE Words' BY <1>23 DEF Ignore
<1>24. ASSUME NEW w \in Contexts, Stream(w) PROVE Words' BY <1>24 DEF Stream
<1>25. ASSUME NEW w \in Contexts, StreamEnds(w) PROVE Words' BY <1>25 DEF StreamEnds
<1>26. ASSUME NEW w \in Contexts, Streamed(w) PROVE Words' BY <1>26 DEF Streamed
<1>27. ASSUME NEW w \in Contexts, ClearOUT(w) PROVE Words' BY <1>27 DEF ClearOUT
<1>28. ASSUME NEW w \in Contexts, StatusStage(w) PROVE Words' BY <1>28 DEF StatusStage
<1>29. ASSUME NEW w \in Contexts, SetAddress(w) PROVE Words' BY <1>29 DEF SetAddress
<1>30. ASSUME NEW w \in Contexts, SetConfiguration(w) PROVE Words'
  BY <1>30 DEF SetConfiguration
<1>31. ASSUME NEW w \in Contexts, Finish(w) PROVE Words' BY <1>31 DEF Finish
<1> QED BY <1>1, <1>2, <1>3, <1>4, <1>5, <1>6, <1>7, <1>8, <1>9, <1>10, <1>11, <1>12,
     <1>13, <1>14, <1>15, <1>16, <1>17, <1>18, <1>19, <1>20, <1>21, <1>22, <1>23,
     <1>24, <1>25, <1>26, <1>27, <1>28, <1>29, <1>30, <1>31 DEF Next, Handler, Main,
     MainLoop, ProcessControlRequest, Serve, Bus

(* Every step keeps the numbers in their bounds: a stream never counts below*)
(* nothing.                                                                 *)
LEMMA NumbersKept ==
  ASSUME TypeOK, [Next]_vars
  PROVE  Numbers'
<1> USE BoundAssumption DEF TypeOK, Numbers, Contexts, Steps, Reads, Orders, At, Runs,
        Goto, Select, Forget, After, Send, vars, stateVars, runVars, selVars, intVars,
        dataVars, controlVars, hostVars, device
<1>1. CASE UNCHANGED vars BY <1>1
<1>2. CASE GeneralInterrupt BY <1>2, InterruptTyped DEF ClearEndpoints
<1>3. CASE ControlInterrupt BY <1>3 DEF ControlInterrupt, SetupPending
<1>4. CASE Exit BY <1>4 DEF Exit
<1>5. CASE Class BY <1>5 DEF Class
<1>6. CASE DeviceTask BY <1>6 DEF DeviceTask
<1>7. CASE Test BY <1>7 DEF Test
<1>8. CASE Restore BY <1>8 DEF Restore
<1>9. CASE SendSetup BY <1>9 DEF SendSetup
<1>10. CASE TakeData BY <1>10 DEF TakeData
<1>11. CASE SendStatus BY <1>11 DEF SendStatus
<1>12. CASE TakeStatus BY <1>12 DEF TakeStatus
<1>13. CASE SeeStall BY <1>13 DEF SeeStall
<1>14. CASE BusReset BY <1>14 DEF BusReset, Lasts
<1>15. CASE Suspend BY <1>15 DEF Suspend
<1>16. CASE Activity BY <1>16 DEF Activity
<1>17. CASE Detach BY <1>17 DEF Detach
<1>18. CASE Attach BY <1>18 DEF Attach
<1>19. ASSUME NEW w \in Contexts, ReadRequest(w) PROVE Numbers'
  BY <1>19 DEF ReadRequest
<1>20. ASSUME NEW w \in Contexts, Answer(w) PROVE Numbers'
  BY <1>20 DEF Answer, Dispatching, Known
<1>21. ASSUME NEW w \in Contexts, GetDescriptor(w) PROVE Numbers'
  BY <1>21 DEF GetDescriptor, Dispatching, Known
<1>22. ASSUME NEW w \in Contexts, Obey(w) PROVE Numbers'
  BY <1>22 DEF Obey, Dispatching, Known
<1>23. ASSUME NEW w \in Contexts, Ignore(w) PROVE Numbers' BY <1>23 DEF Ignore
<1>24. ASSUME NEW w \in Contexts, Stream(w) PROVE Numbers' BY <1>24 DEF Stream
<1>25. ASSUME NEW w \in Contexts, StreamEnds(w) PROVE Numbers' BY <1>25 DEF StreamEnds
<1>26. ASSUME NEW w \in Contexts, Streamed(w) PROVE Numbers' BY <1>26 DEF Streamed
<1>27. ASSUME NEW w \in Contexts, ClearOUT(w) PROVE Numbers' BY <1>27 DEF ClearOUT
<1>28. ASSUME NEW w \in Contexts, StatusStage(w) PROVE Numbers'
  BY <1>28 DEF StatusStage
<1>29. ASSUME NEW w \in Contexts, SetAddress(w) PROVE Numbers' BY <1>29 DEF SetAddress
<1>30. ASSUME NEW w \in Contexts, SetConfiguration(w) PROVE Numbers'
  BY <1>30 DEF SetConfiguration
<1>31. ASSUME NEW w \in Contexts, Finish(w) PROVE Numbers' BY <1>31 DEF Finish
<1> QED BY <1>1, <1>2, <1>3, <1>4, <1>5, <1>6, <1>7, <1>8, <1>9, <1>10, <1>11, <1>12,
     <1>13, <1>14, <1>15, <1>16, <1>17, <1>18, <1>19, <1>20, <1>21, <1>22, <1>23,
     <1>24, <1>25, <1>26, <1>27, <1>28, <1>29, <1>30, <1>31 DEF Next, Handler, Main,
     MainLoop, ProcessControlRequest, Serve, Bus

(* Every step keeps the Booleans.                                           *)
LEMMA BitsKept ==
  ASSUME TypeOK, [Next]_vars
  PROVE  Bits'
<1> USE BoundAssumption DEF TypeOK, Bits, Contexts, Steps, Reads, Orders, At, Runs,
        Goto, Select, Forget, After, Send, vars, stateVars, runVars, selVars, intVars,
        dataVars, controlVars, hostVars, device
<1>1. CASE UNCHANGED vars BY <1>1, ZenonT(60)
<1>2. CASE GeneralInterrupt
  <2>1. frozen' \in BOOLEAN BY <1>2, InterruptTyped
  <2>2. UNCHANGED <<full, attached, reached, asleep, late, hasty>>
    BY <1>2, InterruptTyped
  <2>3. /\ live' \in BOOLEAN /\ outReceived' \in BOOLEAN /\ wiped' \in BOOLEAN
        /\ halted' \in BOOLEAN /\ stall' \in BOOLEAN
    <3>1. CASE ClearEndpoints BY <3>1, ZenonT(60) DEF ClearEndpoints
    <3>2. CASE UNCHANGED <<dataVars, controlVars, selVars>> BY <3>2, ZenonT(60)
    <3> QED BY <1>2, <3>1, <3>2, InterruptTyped
  <2> QED BY <2>1, <2>2, <2>3, ZenonT(60)
<1>3. CASE ControlInterrupt BY <1>3, ZenonT(60) DEF ControlInterrupt, SetupPending
<1>4. CASE Exit BY <1>4, ZenonT(60) DEF Exit
<1>5. CASE Class BY <1>5, ZenonT(60) DEF Class
<1>6. CASE DeviceTask BY <1>6, ZenonT(60) DEF DeviceTask
<1>7. CASE Test BY <1>7, ZenonT(60) DEF Test
<1>8. CASE Restore BY <1>8, ZenonT(60) DEF Restore
<1>9. CASE SendSetup BY <1>9, ZenonT(60) DEF SendSetup
<1>10. CASE TakeData BY <1>10, ZenonT(60) DEF TakeData
<1>11. CASE SendStatus BY <1>11, ZenonT(60) DEF SendStatus
<1>12. CASE TakeStatus BY <1>12, ZenonT(60) DEF TakeStatus
<1>13. CASE SeeStall BY <1>13, ZenonT(60) DEF SeeStall
<1>14. CASE BusReset BY <1>14, ZenonT(60) DEF BusReset, Lasts
<1>15. CASE Suspend BY <1>15, ZenonT(60) DEF Suspend
<1>16. CASE Activity BY <1>16, ZenonT(60) DEF Activity
<1>17. CASE Detach BY <1>17, ZenonT(60) DEF Detach
<1>18. CASE Attach BY <1>18, ZenonT(60) DEF Attach
<1>19. ASSUME NEW w \in Contexts, ReadRequest(w) PROVE Bits'
  BY <1>19, ZenonT(60) DEF ReadRequest
<1>20. ASSUME NEW w \in Contexts, Answer(w) PROVE Bits'
  BY <1>20, ZenonT(60) DEF Answer, Dispatching, Known
<1>21. ASSUME NEW w \in Contexts, GetDescriptor(w) PROVE Bits'
  BY <1>21, ZenonT(60) DEF GetDescriptor, Dispatching, Known
<1>22. ASSUME NEW w \in Contexts, Obey(w) PROVE Bits'
  BY <1>22, ZenonT(60) DEF Obey, Dispatching, Known
<1>23. ASSUME NEW w \in Contexts, Ignore(w) PROVE Bits' BY <1>23, ZenonT(60) DEF Ignore
<1>24. ASSUME NEW w \in Contexts, Stream(w) PROVE Bits'
  <2>1. PICK more \in BOOLEAN : full' = [full EXCEPT ![w] = more] BY <1>24, ZenonT(60) DEF Stream
  <2> QED BY <1>24, <2>1, ZenonT(60) DEF Stream
<1>25. ASSUME NEW w \in Contexts, StreamEnds(w) PROVE Bits'
  BY <1>25, ZenonT(60) DEF StreamEnds
<1>26. ASSUME NEW w \in Contexts, Streamed(w) PROVE Bits' BY <1>26, ZenonT(60) DEF Streamed
<1>27. ASSUME NEW w \in Contexts, ClearOUT(w) PROVE Bits' BY <1>27, ZenonT(60) DEF ClearOUT
<1>28. ASSUME NEW w \in Contexts, StatusStage(w) PROVE Bits'
  BY <1>28, ZenonT(60) DEF StatusStage
<1>29. ASSUME NEW w \in Contexts, SetAddress(w) PROVE Bits'
  BY <1>29, ZenonT(60) DEF SetAddress
<1>30. ASSUME NEW w \in Contexts, SetConfiguration(w) PROVE Bits'
  BY <1>30, ZenonT(60) DEF SetConfiguration
<1>31. ASSUME NEW w \in Contexts, Finish(w) PROVE Bits' BY <1>31, ZenonT(60) DEF Finish
<1> QED BY <1>1, <1>2, <1>3, <1>4, <1>5, <1>6, <1>7, <1>8, <1>9, <1>10, <1>11, <1>12,
     <1>13, <1>14, <1>15, <1>16, <1>17, <1>18, <1>19, <1>20, <1>21, <1>22, <1>23,
     <1>24, <1>25, <1>26, <1>27, <1>28, <1>29, <1>30, <1>31 DEF Next, Handler, Main,
     MainLoop, ProcessControlRequest, Serve, Bus

-----------------------------------------------------------------------------
(* Between ControlInterrupt and Exit the handler holds the endpoint that    *)
(* the main loop had selected.                                              *)
GivenBack == pc["handler"] # "idle" => (prev["handler"] = mine \/ wiped)

(* The main loop is in none of the procedures, unless it is late.           *)
Outside == ~late => pc["main"] \in {"class", "task", "test", "restore"}

(* How far an exchange has come, with a host that waits: a SETUP packet is  *)
(* the request the host stands by; the handler holds the same one, and the  *)
(* host is still there when the status stage of an order is sent.           *)
Exchange ==
  ~hasty /\ ~late =>
    /\ setup # "none" => /\ setup = asked /\ in = "free" /\ ~stall
                         /\ host = IF setup \in Reads THEN "data" ELSE "status"
    /\ pc["handler"] = "read" => setup # "none"
    /\ pc["handler"] = "dispatch" => setup # "none" /\ request = setup
    /\ pc["handler"] \notin {"idle", "exit"} => state # "Unattached"
    /\ pc["handler"] = "status" => /\ request = job["handler"]
                                   /\ job["handler"] \in Reads \cup Orders
    /\ pc["handler"] = "status" /\ job["handler"] \in Orders =>
         /\ setup = "none" /\ in = "free" /\ ~stall
         /\ host = "status" /\ asked = job["handler"]
    /\ pc["handler"] = "settle" =>
         \/ hostAddress = 1
         \/ /\ setup = "none" /\ in # "free" /\ ~stall
            /\ host = "status" /\ asked = "SetAddress"

(* The handler is at work on a configuration.                               *)
Configuring == /\ pc["handler"] \in {"status", "configure"}
               /\ job["handler"] \in {"Configure", "Unconfigure"}

(* Outside of that, and between a bus reset and its interrupt, the state,   *)
(* the configuration and the endpoints go together.                         *)
Standing ==
  /\ "EORSTI" \in enabled
  /\ ~late /\ pc["handler"] = "configure" => Configuring
  /\ ~late /\ "EORSTI" \notin flags /\ ~Configuring =>
       /\ config # 0 => live
       /\ state = "Configured" => config # 0

(* The handler gives back the endpoint it has found, and what the main loop *)
(* had selected stays selected between handlers.                            *)
LEMMA SelectionStep ==
  ASSUME TypeOK, GivenBack, SelectionKept, [Next]_vars
  PROVE  GivenBack' /\ SelectionKept'
<1> USE BoundAssumption DEF TypeOK, GivenBack, SelectionKept, Contexts, Steps, Reads,
        Orders, At, Runs, Goto, Select, Forget, After, Send, vars, stateVars, runVars,
        selVars, intVars, dataVars, controlVars, hostVars, device
<1>1. CASE UNCHANGED vars BY <1>1
<1>2. CASE GeneralInterrupt
  <2>1. pc["handler"] = "idle" /\ UNCHANGED <<pc, prev>>
    BY <1>2, InterruptTyped DEF GeneralInterrupt
  <2> QED BY <2>1, InterruptTyped, <1>2 DEF ClearEndpoints
<1>3. CASE ControlInterrupt BY <1>3 DEF ControlInterrupt, SetupPending
<1>4. CASE Exit BY <1>4 DEF Exit
<1>5. CASE Class BY <1>5 DEF Class
<1>6. CASE DeviceTask BY <1>6 DEF DeviceTask
<1>7. CASE Test BY <1>7 DEF Test
<1>8. CASE Restore BY <1>8 DEF Restore
<1>9. CASE SendSetup BY <1>9 DEF SendSetup
<1>10. CASE TakeData BY <1>10 DEF TakeData
<1>11. CASE SendStatus BY <1>11 DEF SendStatus
<1>12. CASE TakeStatus BY <1>12 DEF TakeStatus
<1>13. CASE SeeStall BY <1>13 DEF SeeStall
<1>14. CASE BusReset BY <1>14 DEF BusReset, Lasts
<1>15. CASE Suspend BY <1>15 DEF Suspend
<1>16. CASE Activity BY <1>16 DEF Activity
<1>17. CASE Detach BY <1>17 DEF Detach
<1>18. CASE Attach BY <1>18 DEF Attach
<1>19. ASSUME NEW w \in Contexts, ReadRequest(w) PROVE GivenBack' /\ SelectionKept'
  BY <1>19 DEF ReadRequest
<1>20. ASSUME NEW w \in Contexts, Answer(w) PROVE GivenBack' /\ SelectionKept'
  BY <1>20 DEF Answer, Dispatching, Known
<1>21. ASSUME NEW w \in Contexts, GetDescriptor(w) PROVE GivenBack' /\ SelectionKept'
  BY <1>21 DEF GetDescriptor, Dispatching, Known
<1>22. ASSUME NEW w \in Contexts, Obey(w) PROVE GivenBack' /\ SelectionKept'
  BY <1>22 DEF Obey, Dispatching, Known
<1>23. ASSUME NEW w \in Contexts, Ignore(w) PROVE GivenBack' /\ SelectionKept'
  BY <1>23 DEF Ignore
<1>24. ASSUME NEW w \in Contexts, Stream(w) PROVE GivenBack' /\ SelectionKept'
  BY <1>24 DEF Stream
<1>25. ASSUME NEW w \in Contexts, StreamEnds(w) PROVE GivenBack' /\ SelectionKept'
  BY <1>25 DEF StreamEnds
<1>26. ASSUME NEW w \in Contexts, Streamed(w) PROVE GivenBack' /\ SelectionKept'
  BY <1>26 DEF Streamed
<1>27. ASSUME NEW w \in Contexts, ClearOUT(w) PROVE GivenBack' /\ SelectionKept'
  BY <1>27 DEF ClearOUT
<1>28. ASSUME NEW w \in Contexts, StatusStage(w) PROVE GivenBack' /\ SelectionKept'
  BY <1>28 DEF StatusStage
<1>29. ASSUME NEW w \in Contexts, SetAddress(w) PROVE GivenBack' /\ SelectionKept'
  BY <1>29 DEF SetAddress
<1>30. ASSUME NEW w \in Contexts, SetConfiguration(w) PROVE GivenBack' /\ SelectionKept'
  BY <1>30 DEF SetConfiguration
<1>31. ASSUME NEW w \in Contexts, Finish(w) PROVE GivenBack' /\ SelectionKept'
  BY <1>31 DEF Finish
<1> QED BY <1>1, <1>2, <1>3, <1>4, <1>5, <1>6, <1>7, <1>8, <1>9, <1>10, <1>11, <1>12,
     <1>13, <1>14, <1>15, <1>16, <1>17, <1>18, <1>19, <1>20, <1>21, <1>22, <1>23,
     <1>24, <1>25, <1>26, <1>27, <1>28, <1>29, <1>30, <1>31 DEF Next, Handler, Main,
     MainLoop, ProcessControlRequest, Serve, Bus

(* A main loop that is not late never enters a procedure for requests.      *)
LEMMA OutsideStep ==
  ASSUME TypeOK, Outside, [Next]_vars
  PROVE  Outside'
<1> USE BoundAssumption DEF TypeOK, Outside, Contexts, Steps, Reads, Orders, At, Runs,
        Goto, Select, Forget, After, Send, vars, stateVars, runVars, selVars, intVars,
        dataVars, controlVars, hostVars, device
<1>1. CASE UNCHANGED vars BY <1>1
<1>2. CASE GeneralInterrupt BY <1>2, InterruptTyped
<1>3. CASE ControlInterrupt BY <1>3 DEF ControlInterrupt, SetupPending
<1>4. CASE Exit BY <1>4 DEF Exit
<1>5. CASE Class BY <1>5 DEF Class
<1>6. CASE DeviceTask BY <1>6 DEF DeviceTask
<1>7. CASE Test BY <1>7 DEF Test
<1>8. CASE Restore BY <1>8 DEF Restore
<1>9. CASE SendSetup BY <1>9 DEF SendSetup
<1>10. CASE TakeData BY <1>10 DEF TakeData
<1>11. CASE SendStatus BY <1>11 DEF SendStatus
<1>12. CASE TakeStatus BY <1>12 DEF TakeStatus
<1>13. CASE SeeStall BY <1>13 DEF SeeStall
<1>14. CASE BusReset BY <1>14 DEF BusReset, Lasts
<1>15. CASE Suspend BY <1>15 DEF Suspend
<1>16. CASE Activity BY <1>16 DEF Activity
<1>17. CASE Detach BY <1>17 DEF Detach
<1>18. CASE Attach BY <1>18 DEF Attach
<1>19. ASSUME NEW w \in Contexts, ReadRequest(w) PROVE Outside'
  BY <1>19 DEF ReadRequest
<1>20. ASSUME NEW w \in Contexts, Answer(w) PROVE Outside'
  BY <1>20 DEF Answer, Dispatching, Known
<1>21. ASSUME NEW w \in Contexts, GetDescriptor(w) PROVE Outside'
  BY <1>21 DEF GetDescriptor, Dispatching, Known
<1>22. ASSUME NEW w \in Contexts, Obey(w) PROVE Outside'
  BY <1>22 DEF Obey, Dispatching, Known
<1>23. ASSUME NEW w \in Contexts, Ignore(w) PROVE Outside' BY <1>23 DEF Ignore
<1>24. ASSUME NEW w \in Contexts, Stream(w) PROVE Outside' BY <1>24 DEF Stream
<1>25. ASSUME NEW w \in Contexts, StreamEnds(w) PROVE Outside' BY <1>25 DEF StreamEnds
<1>26. ASSUME NEW w \in Contexts, Streamed(w) PROVE Outside' BY <1>26 DEF Streamed
<1>27. ASSUME NEW w \in Contexts, ClearOUT(w) PROVE Outside' BY <1>27 DEF ClearOUT
<1>28. ASSUME NEW w \in Contexts, StatusStage(w) PROVE Outside'
  BY <1>28 DEF StatusStage
<1>29. ASSUME NEW w \in Contexts, SetAddress(w) PROVE Outside' BY <1>29 DEF SetAddress
<1>30. ASSUME NEW w \in Contexts, SetConfiguration(w) PROVE Outside'
  BY <1>30 DEF SetConfiguration
<1>31. ASSUME NEW w \in Contexts, Finish(w) PROVE Outside' BY <1>31 DEF Finish
<1> QED BY <1>1, <1>2, <1>3, <1>4, <1>5, <1>6, <1>7, <1>8, <1>9, <1>10, <1>11, <1>12,
     <1>13, <1>14, <1>15, <1>16, <1>17, <1>18, <1>19, <1>20, <1>21, <1>22, <1>23,
     <1>24, <1>25, <1>26, <1>27, <1>28, <1>29, <1>30, <1>31 DEF Next, Handler, Main,
     MainLoop, ProcessControlRequest, Serve, Bus

(* The stages of an exchange follow each other on both sides, and both      *)
(* change to the new address in it.                                         *)
LEMMA ExchangeStep ==
  ASSUME TypeOK, Outside, Exchange, AddressHeld, [Next]_vars
  PROVE  Exchange' /\ AddressHeld'
<1> USE BoundAssumption DEF TypeOK, Outside, Exchange, AddressHeld, ClassRequests,
        Contexts, Steps, Reads, Orders, At, Runs, Goto, Select, Forget, After, Send,
        vars, stateVars, runVars, selVars, intVars, dataVars, controlVars, hostVars,
        device
<1>1. CASE UNCHANGED vars BY <1>1
<1>2. CASE GeneralInterrupt
  <2>1. pc["handler"] = "idle" BY <1>2 DEF GeneralInterrupt
  <2>2. UNCHANGED <<pc, host, asked, hasty, late, address, hostAddress>>
    BY <1>2, InterruptTyped
  <2>3. setup' = "none" \/ UNCHANGED controlVars BY <1>2, InterruptTyped DEF ClearEndpoints
  <2> QED BY <2>1, <2>2, <2>3
<1>3. CASE ControlInterrupt BY <1>3 DEF ControlInterrupt, SetupPending
<1>4. CASE Exit BY <1>4 DEF Exit
<1>5. CASE Class BY <1>5 DEF Class
<1>6. CASE DeviceTask BY <1>6 DEF DeviceTask
<1>7. CASE Test BY <1>7 DEF Test
<1>8. CASE Restore BY <1>8 DEF Restore
<1>9. CASE SendSetup BY <1>9 DEF SendSetup
<1>10. CASE TakeData BY <1>10 DEF TakeData
<1>11. CASE SendStatus BY <1>11 DEF SendStatus
<1>12. CASE TakeStatus BY <1>12 DEF TakeStatus
<1>13. CASE SeeStall BY <1>13 DEF SeeStall
<1>14. CASE BusReset BY <1>14 DEF BusReset, Lasts
<1>15. CASE Suspend BY <1>15 DEF Suspend
<1>16. CASE Activity BY <1>16 DEF Activity
<1>17. CASE Detach BY <1>17 DEF Detach
<1>18. CASE Attach BY <1>18 DEF Attach
<1>19. ASSUME NEW w \in Contexts, ReadRequest(w) PROVE Exchange' /\ AddressHeld'
  BY <1>19 DEF ReadRequest
<1>20. ASSUME NEW w \in Contexts, Answer(w) PROVE Exchange' /\ AddressHeld'
  BY <1>20 DEF Answer, Dispatching, Known
<1>21. ASSUME NEW w \in Contexts, GetDescriptor(w) PROVE Exchange' /\ AddressHeld'
  BY <1>21 DEF GetDescriptor, Dispatching, Known
<1>22. ASSUME NEW w \in Contexts, Obey(w) PROVE Exchange' /\ AddressHeld'
  BY <1>22 DEF Obey, Dispatching, Known
<1>23. ASSUME NEW w \in Contexts, Ignore(w) PROVE Exchange' /\ AddressHeld'
  BY <1>23 DEF Ignore
<1>24. ASSUME NEW w \in Contexts, Stream(w) PROVE Exchange' /\ AddressHeld'
  BY <1>24 DEF Stream
<1>25. ASSUME NEW w \in Contexts, StreamEnds(w) PROVE Exchange' /\ AddressHeld'
  BY <1>25 DEF StreamEnds
<1>26. ASSUME NEW w \in Contexts, Streamed(w) PROVE Exchange' /\ AddressHeld'
  BY <1>26 DEF Streamed
<1>27. ASSUME NEW w \in Contexts, ClearOUT(w) PROVE Exchange' /\ AddressHeld'
  BY <1>27 DEF ClearOUT
<1>28. ASSUME NEW w \in Contexts, StatusStage(w) PROVE Exchange' /\ AddressHeld'
  BY <1>28 DEF StatusStage
<1>29. ASSUME NEW w \in Contexts, SetAddress(w) PROVE Exchange' /\ AddressHeld'
  BY <1>29 DEF SetAddress
<1>30. ASSUME NEW w \in Contexts, SetConfiguration(w) PROVE Exchange' /\ AddressHeld'
  BY <1>30 DEF SetConfiguration
<1>31. ASSUME NEW w \in Contexts, Finish(w) PROVE Exchange' /\ AddressHeld'
  BY <1>31 DEF Finish
<1> QED BY <1>1, <1>2, <1>3, <1>4, <1>5, <1>6, <1>7, <1>8, <1>9, <1>10, <1>11, <1>12,
     <1>13, <1>14, <1>15, <1>16, <1>17, <1>18, <1>19, <1>20, <1>21, <1>22, <1>23,
     <1>24, <1>25, <1>26, <1>27, <1>28, <1>29, <1>30, <1>31 DEF Next, Handler, Main,
     MainLoop, ProcessControlRequest, Serve, Bus

-----------------------------------------------------------------------------
(* What the sections of the handler of the bus keep.                        *)
Keeps(r, s) ==
  /\ s.config = r.config
  /\ "EORSTI" \in s.flags <=> "EORSTI" \in r.flags
  /\ "EORSTI" \in s.enabled <=> "EORSTI" \in r.enabled
  /\ s.state = "Configured" => r.state = "Configured" \/ config # 0

(* The first three sections touch neither the configuration nor the bus     *)
(* reset, and say Configured only with a configuration.                     *)
LEMMA SectionsKeep ==
  ASSUME NEW r \in Registers
  PROVE  Keeps(r, Vbus(r)) /\ Keeps(r, Suspended(r)) /\ Keeps(r, Wakeup(r))
<1>1. Keeps(r, Vbus(r)) BY DEF Registers, Keeps, Vbus
<1>2. Keeps(r, Suspended(r)) BY DEF Registers, Keeps, Suspended
<1>3. Keeps(r, Wakeup(r)) BY DEF Registers, Keeps, Wakeup
<1> QED BY <1>1, <1>2, <1>3

(* A bus reset takes the configuration away, and without one the handler of *)
(* the bus leaves configuration and endpoints alone.                        *)
LEMMA InterruptState ==
  ASSUME TypeOK, GeneralInterrupt, "EORSTI" \in enabled
  PROVE  /\ pc["handler"] = "idle" /\ "EORSTI" \in enabled'
         /\ "EORSTI" \in flags => state' = "Default" /\ config' = 0
         /\ "EORSTI" \notin flags =>
              /\ UNCHANGED <<config, live>>
              /\ state' = "Configured" => state = "Configured" \/ config # 0
<1> DEFINE r0 == [flags |-> flags, enabled |-> enabled, state |-> state,
                  config |-> config, frozen |-> frozen]
           r1 == Vbus(r0)
           r2 == Suspended(r1)
           r3 == Wakeup(r2)
           r4 == EndOfReset(r3)
<1>1. r0 \in Registers /\ config \in 0..1 BY DEF TypeOK, Registers
<1>2. r1 \in Registers /\ r2 \in Registers /\ r3 \in Registers BY <1>1, SectionsTyped
<1>3. Keeps(r0, r1) /\ Keeps(r1, r2) /\ Keeps(r2, r3) BY <1>1, <1>2, SectionsKeep
<1>4. /\ flags' = r4.flags /\ enabled' = r4.enabled /\ state' = r4.state /\ config' = r4.config
      /\ pc["handler"] = "idle"
  BY DEF GeneralInterrupt
<1>5. "EORSTI" \notin flags => UNCHANGED live BY DEF GeneralInterrupt, Occurred, dataVars
<1>6. Keeps(r0, r3)
  <2> HIDE DEF r0, r1, r2, r3
  <2> QED BY <1>3 DEF Keeps
<1>7. r0.config = config /\ r0.flags = flags /\ r0.enabled = enabled /\ r0.state = state
  OBVIOUS
<1>8. Occurred(r3, "EORSTI") <=> "EORSTI" \in flags
  <2> HIDE DEF r0, r1, r2, r3
  <2> QED BY <1>6, <1>7 DEF Keeps, Occurred
<1> HIDE DEF r0, r1, r2, r3
<1>9. "EORSTI" \in flags =>
        r4.state = "Default" /\ r4.config = 0 /\ "EORSTI" \in r4.enabled
  BY <1>2, <1>6, <1>7, <1>8 DEF EndOfReset, Registers, Keeps
<1>10. "EORSTI" \notin flags => r4 = r3 BY <1>8, Zenon DEF EndOfReset
<1> HIDE DEF r4
<1> QED BY <1>4, <1>5, <1>6, <1>7, <1>9, <1>10 DEF Keeps

(* The handler of the bus keeps them together.                              *)
LEMMA InterruptStanding ==
  ASSUME TypeOK, Standing, GeneralInterrupt
  PROVE  Standing'
<1>1. "EORSTI" \in enabled BY DEF Standing
<1>2. pc["handler"] = "idle" /\ "EORSTI" \in enabled' BY <1>1, InterruptState
<1>3. UNCHANGED <<pc, job, late>> BY InterruptTyped DEF runVars
<1>4. ~Configuring' BY <1>2, <1>3 DEF Configuring
<1>5. CASE "EORSTI" \in flags
  <2>1. state' = "Default" /\ config' = 0 BY <1>1, <1>5, InterruptState
  <2> QED BY <1>2, <1>3, <2>1 DEF Standing
<1>6. CASE "EORSTI" \notin flags
  <2>1. UNCHANGED <<config, live>> BY <1>1, <1>6, InterruptState
  <2>2. state' = "Configured" => state = "Configured" \/ config # 0
    BY <1>1, <1>6, InterruptState
  <2>3. ~Configuring BY <1>2 DEF Configuring
  <2>4. ~late => (config # 0 => live) /\ (state = "Configured" => config # 0)
    BY <1>6, <2>3 DEF Standing
  <2> QED BY <1>2, <1>3, <2>1, <2>2, <2>4 DEF Standing
<1> QED BY <1>5, <1>6

(* State, configuration and endpoints stay together.                        *)
LEMMA StandingStep ==
  ASSUME TypeOK, Outside, Standing, [Next]_vars
  PROVE  Standing'
<1> USE BoundAssumption DEF TypeOK, Outside, Standing, Configuring, Contexts, Steps,
        Reads, Orders, At, Runs, Goto, Select, Forget, After, Send, vars, stateVars,
        runVars, selVars, intVars, dataVars, controlVars, hostVars, device
<1>1. CASE UNCHANGED vars BY <1>1
<1>2. CASE GeneralInterrupt
  <2> USE DEF Standing
  <2> QED BY <1>2, InterruptStanding
<1>3. CASE ControlInterrupt BY <1>3 DEF ControlInterrupt, SetupPending
<1>4. CASE Exit BY <1>4 DEF Exit
<1>5. CASE Class BY <1>5 DEF Class
<1>6. CASE DeviceTask BY <1>6 DEF DeviceTask
<1>7. CASE Test BY <1>7 DEF Test
<1>8. CASE Restore BY <1>8 DEF Restore
<1>9. CASE SendSetup BY <1>9 DEF SendSetup
<1>10. CASE TakeData BY <1>10 DEF TakeData
<1>11. CASE SendStatus BY <1>11 DEF SendStatus
<1>12. CASE TakeStatus BY <1>12 DEF TakeStatus
<1>13. CASE SeeStall BY <1>13 DEF SeeStall
<1>14. CASE BusReset BY <1>14 DEF BusReset, Lasts
<1>15. CASE Suspend BY <1>15 DEF Suspend
<1>16. CASE Activity BY <1>16 DEF Activity
<1>17. CASE Detach BY <1>17 DEF Detach
<1>18. CASE Attach BY <1>18 DEF Attach
<1>19. ASSUME NEW w \in Contexts, ReadRequest(w) PROVE Standing'
  BY <1>19 DEF ReadRequest
<1>20. ASSUME NEW w \in Contexts, Answer(w) PROVE Standing'
  BY <1>20 DEF Answer, Dispatching, Known
<1>21. ASSUME NEW w \in Contexts, GetDescriptor(w) PROVE Standing'
  BY <1>21 DEF GetDescriptor, Dispatching, Known
<1>22. ASSUME NEW w \in Contexts, Obey(w) PROVE Standing'
  BY <1>22 DEF Obey, Dispatching, Known
<1>23. ASSUME NEW w \in Contexts, Ignore(w) PROVE Standing' BY <1>23 DEF Ignore
<1>24. ASSUME NEW w \in Contexts, Stream(w) PROVE Standing' BY <1>24 DEF Stream
<1>25. ASSUME NEW w \in Contexts, StreamEnds(w) PROVE Standing'
  BY <1>25 DEF StreamEnds
<1>26. ASSUME NEW w \in Contexts, Streamed(w) PROVE Standing' BY <1>26 DEF Streamed
<1>27. ASSUME NEW w \in Contexts, ClearOUT(w) PROVE Standing' BY <1>27 DEF ClearOUT
<1>28. ASSUME NEW w \in Contexts, StatusStage(w) PROVE Standing'
  BY <1>28 DEF StatusStage
<1>29. ASSUME NEW w \in Contexts, SetAddress(w) PROVE Standing'
  BY <1>29 DEF SetAddress
<1>30. ASSUME NEW w \in Contexts, SetConfiguration(w) PROVE Standing'
  BY <1>30 DEF SetConfiguration
<1>31. ASSUME NEW w \in Contexts, Finish(w) PROVE Standing' BY <1>31 DEF Finish
<1> QED BY <1>1, <1>2, <1>3, <1>4, <1>5, <1>6, <1>7, <1>8, <1>9, <1>10, <1>11, <1>12,
     <1>13, <1>14, <1>15, <1>16, <1>17, <1>18, <1>19, <1>20, <1>21, <1>22, <1>23,
     <1>24, <1>25, <1>26, <1>27, <1>28, <1>29, <1>30, <1>31 DEF Next, Handler, Main,
     MainLoop, ProcessControlRequest, Serve, Bus

-----------------------------------------------------------------------------
(* The inductive invariant.                                                 *)
IInv == /\ TypeOK /\ GivenBack /\ SelectionKept /\ Outside
        /\ Exchange /\ AddressHeld /\ Standing

(* It holds at power on.                                                    *)
LEMMA Start == Init => IInv
<1> SUFFICES ASSUME Init PROVE IInv OBVIOUS
<1>1. Words BY DEF Init, Words, Contexts, Steps
<1>2. Numbers BY BoundAssumption DEF Init, Numbers, Contexts
<1>3. Bits BY Zenon DEF Init, Bits, Contexts
<1>4. TypeOK BY <1>1, <1>2, <1>3, Split
<1>5. GivenBack /\ SelectionKept /\ Outside BY DEF Init, GivenBack, SelectionKept, Outside
<1>6. Exchange /\ AddressHeld BY DEF Init, Exchange, AddressHeld
<1>7. Standing BY DEF Init, Standing, Configuring
<1> QED BY <1>4, <1>5, <1>6, <1>7 DEF IInv

(* Every step of the device, the host and the bus keeps it.                 *)
LEMMA Step == IInv /\ [Next]_vars => IInv'
<1> SUFFICES ASSUME IInv, [Next]_vars PROVE IInv' OBVIOUS
<1>1. /\ TypeOK /\ GivenBack /\ SelectionKept /\ Outside
      /\ Exchange /\ AddressHeld /\ Standing
  BY DEF IInv
<1>2. Words' /\ Numbers' /\ Bits' BY <1>1, WordsKept, NumbersKept, BitsKept
<1>3. TypeOK' BY <1>2, Split, PTL
<1>4. GivenBack' /\ SelectionKept' BY <1>1, SelectionStep
<1>5. Outside' BY <1>1, OutsideStep
<1>6. Exchange' /\ AddressHeld' BY <1>1, ExchangeStep
<1>7. Standing' BY <1>1, StandingStep
<1> QED BY <1>3, <1>4, <1>5, <1>6, <1>7 DEF IInv

(* The inductive invariant always holds.                                    *)
LEMMA Always == Spec => []IInv
<1>1. Init => IInv BY Start
<1>2. IInv /\ [Next]_vars => IInv' BY Step
<1> QED BY <1>1, <1>2, PTL DEF Spec

(* Every variable keeps its type: no stream sends more than its data and one*)
(* packet of nothing (Endpoint_Write_Control_PStream_LE).                   *)
THEOREM TypeCorrect == Spec => []TypeOK
<1>1. IInv => TypeOK BY DEF IInv
<1> QED BY <1>1, Always, PTL

(* Whatever the handlers did, the main loop finds the endpoint it had       *)
(* selected, unless the bus was reset (USBInterrupt.c:145-149, 236-242,     *)
(* USBTask.c:65-73).                                                        *)
THEOREM SelectionAlwaysKept == Spec => []SelectionKept
<1>1. IInv => SelectionKept BY DEF IInv
<1> QED BY <1>1, Always, PTL

(* The device answers at the address the host uses from the first packet of *)
(* a transfer to the last, across the change of the address                 *)
(* (DevChapter9.c:129-142).                                                 *)
THEOREM AddressAlwaysHeld == Spec => []AddressHeld
<1>1. IInv => AddressHeld BY DEF IInv
<1> QED BY <1>1, Always, PTL

(* A device that says it is configured has a configuration and its          *)
(* endpoints, after resets, suspensions and detachments in any order        *)
(* (USBInterrupt.c:72-156, DevChapter9.c:193-204).                          *)
THEOREM ConfiguredAlwaysMeansEndpoints == Spec => []ConfiguredMeansEndpoints
<1>1. IInv => ConfiguredMeansEndpoints
  BY DEF IInv, Standing, Configuring, ConfiguredMeansEndpoints
<1> QED BY <1>1, Always, PTL
=============================================================================
