--------------------------- MODULE BulkOnlyProofs ---------------------------
(***************************************************************************)
(* The class driver and its host, for any commands, any number of them, of *)
(* commands given up and of bus resets: the types of every variable, and   *)
(* for a host that waits for the main loop and asks for what the commands  *)
(* have, that every packet answers the command it is taken for, that every *)
(* residue is exact and that the transport is implemented.                 *)
(***************************************************************************)
EXTENDS BulkOnly, TLAPS

-----------------------------------------------------------------------------
(* The types                                                               *)

(* The commands, and what the driver makes of one it does not know. Reads  *)
(* and writes are of whole chunks, or DataflashManager.c would count past  *)
(* zero.                                                                   *)
AllCommands ==
  {c \in [op : {"none", "ready", "diagnostic", "inquiry", "sense", "capacity", "read", "write",
                "unknown"},
          valid : BOOLEAN, refused : BOOLEAN, direction : Directions,
          length : 0..LengthRange - 1] :
     c.op \in {"read", "write"} => c.length % Chunk = 0}

(* The command block, the status wrapper and the two banks.                *)
Blocks == [tag : 0..MaxCommands, command : AllCommands, length : 0..LengthRange - 1]
Wrappers == [tag : 0..MaxCommands, status : {"none", "pass", "fail"},
             residue : 0..LengthRange - 1]
OutBanks == [kind : {"none", "wrapper", "data"}, bytes : 0..EndpointSize]
InBanks == [bytes : 0..EndpointSize, tags : SUBSET (0..MaxCommands), csw : Wrappers,
            sent : BOOLEAN]

(* TypeOK in two halves, the records as members of a set.                  *)
Device ==
  /\ pc \in Steps /\ senseKey \in {"good", "illegal", "hardware"} /\ massReset \in BOOLEAN
  /\ left \in Nat /\ amount \in Nat /\ padding \in Nat /\ moved \in Nat
  /\ block \in Blocks /\ csw \in Wrappers /\ out \in OutBanks /\ in \in InBanks
  /\ stalled \in [Directions -> BOOLEAN]
HostSide ==
  /\ host \in {"idle", "data", "status", "giveup", "clearin", "clearout", "reset"}
  /\ tag \in 0..MaxCommands /\ giveUps \in 0..MaxGiveUps
  /\ command \in AllCommands /\ carried \in Nat
  /\ residue \in 0..LengthRange - 1 /\ busResets \in 0..MaxBusResets
  /\ ready \in BOOLEAN /\ lost \in BOOLEAN /\ stale \in BOOLEAN /\ slow \in BOOLEAN

(* What keeps the counts in their ranges: chunks fit in a bank, a status   *)
(* wrapper in what is left of one, and a host never sends more than it has *)
(* announced.                                                              *)
Chunked ==
  /\ pc \in {"read", "write"} => left % Chunk = 0
  /\ ~in.sent => \/ in.bytes % Chunk = 0 \/ pc \in Streams \cup {"finish"}
                 \/ pc = "clearin" /\ in.bytes % Chunk = 13
  /\ ~ready => in.bytes = 0
  /\ lost => in = Fresh
  /\ host = "data" /\ command.direction = "out" => carried < command.length

(* The inductive invariant of the types.                                   *)
Typed == Device /\ HostSide /\ Chunked

(* The values the variables are reset to have their types.                 *)
LEMMA Literals ==
  /\ Fresh.bytes = 0 /\ Fresh.sent = FALSE
  /\ Fresh \in InBanks /\ Empty \in OutBanks /\ NoStatus \in Wrappers
  /\ NoCommand \in AllCommands /\ Zeroed \in AllCommands
<1>1. Fresh \in InBanks /\ Empty \in OutBanks /\ NoStatus \in Wrappers
  BY CommandAssumption DEF CommandAssumption, Fresh, InBanks, Empty, OutBanks, NoStatus, Wrappers
<1>2. NoCommand \in AllCommands
  BY CommandAssumption DEF CommandAssumption, NoCommand, AllCommands, Directions
<1>3. Zeroed \in AllCommands
  BY <1>2 DEF Zeroed, AllCommands
<1>4. Fresh.bytes = 0 /\ Fresh.sent = FALSE BY DEF Fresh
<1> QED BY <1>1, <1>2, <1>3, <1>4

(* A read or write is of whole packets.                                    *)
LEMMA Blocky ==
  ASSUME NEW c \in Commands, c.op \in {"read", "write"}
  PROVE  c.length % EndpointSize = 0
<1>1. c.length \in Nat
  BY CommandAssumption DEF CommandAssumption
<1> DEFINE L == c.length
<1>0. L \in Nat /\ L % BlockSize = 0 /\ BlockSize % EndpointSize = 0 /\ BlockSize \in Nat \ {0}
      /\ EndpointSize \in Nat \ {0}
  BY <1>1, CommandAssumption DEF CommandAssumption
<1> HIDE DEF L
<1>2. L = BlockSize * (L \div BlockSize) /\ L \div BlockSize \in Nat
  BY <1>0
<1>3. BlockSize = EndpointSize * (BlockSize \div EndpointSize)
      /\ BlockSize \div EndpointSize \in Nat
  BY <1>0
<1> DEFINE p == L \div BlockSize  q == BlockSize \div EndpointSize
<1>4. p \in Nat /\ q \in Nat /\ L = (EndpointSize * q) * p
  BY <1>2, <1>3
<1> HIDE DEF p, q
<1>5. L = EndpointSize * (q * p) /\ q * p \in Nat
  BY <1>4, <1>0
<1> DEFINE r == q * p
<1>6. r \in Nat /\ L = EndpointSize * r
  BY <1>5
<1> HIDE DEF r
<1>7. L % EndpointSize = 0
  <2>1. CASE EndpointSize = 32 BY <2>1, <1>6
  <2>2. CASE EndpointSize = 64 BY <2>2, <1>6
  <2> QED BY <2>1, <2>2, CommandAssumption DEF CommandAssumption
<1> QED BY <1>7 DEF L

(* The commands of the host are commands of the driver.                    *)
LEMMA Sizes == Commands \subseteq AllCommands
<1> SUFFICES ASSUME NEW c \in Commands PROVE c \in AllCommands
  OBVIOUS
<1>1. c \in [op : {"ready", "diagnostic", "inquiry", "sense", "capacity", "read",
              "write", "unknown"},
        valid : BOOLEAN, refused : BOOLEAN, direction : Directions,
        length : 0..LengthRange - 1]
  BY CommandAssumption DEF CommandAssumption
<1>2. c.op \in {"read", "write"} => c.length % EndpointSize = 0
  BY Blocky
<1>3. c.op \in {"read", "write"} => c.length % Chunk = 0
  <2>1. CASE EndpointSize = 32 BY <2>1, <1>1, <1>2 DEF Chunk
  <2>2. CASE EndpointSize = 64 BY <2>2, <1>1, <1>2 DEF Chunk
  <2> QED BY <2>1, <2>2, CommandAssumption DEF CommandAssumption
<1> QED BY <1>1, <1>3 DEF AllCommands

(* The parts of the records have their types.                              *)
LEMMA Fields ==
  ASSUME Device
  PROVE  /\ block.tag \in 0..MaxCommands /\ block.command \in AllCommands
         /\ block.length \in 0..LengthRange - 1
         /\ out.bytes \in Int /\ out.bytes >= 0 /\ out.bytes <= EndpointSize
         /\ in.bytes \in Int /\ in.bytes >= 0 /\ in.bytes <= EndpointSize
         /\ in.tags \in SUBSET (0..MaxCommands) /\ in.csw \in Wrappers /\ in.sent \in BOOLEAN
         /\ block.command.direction \in Directions /\ block.command.length \in Nat
         /\ block.command.length \in 0..LengthRange - 1
         /\ (block.command.op \in {"read", "write"} => block.command.length % Chunk = 0)
         /\ in.csw.residue \in 0..LengthRange - 1
<1> USE CommandAssumption DEF CommandAssumption
<1>1. block.tag \in 0..MaxCommands /\ block.command \in AllCommands
      /\ block.length \in 0..LengthRange - 1
  BY DEF Device, Blocks
<1>2. out.bytes \in 0..EndpointSize BY DEF Device, OutBanks
<1>3. /\ in.bytes \in 0..EndpointSize
      /\ in.tags \in SUBSET (0..MaxCommands) /\ in.csw \in Wrappers /\ in.sent \in BOOLEAN
  BY DEF Device, InBanks
<1>4. in.csw.residue \in 0..LengthRange - 1 BY <1>3 DEF Wrappers
<1>5. /\ block.command.direction \in Directions
      /\ block.command.length \in 0..LengthRange - 1
      /\ (block.command.op \in {"read", "write"} => block.command.length % Chunk = 0)
  BY <1>1 DEF AllCommands
<1> QED BY <1>1, <1>2, <1>3, <1>4, <1>5

(* So have the parts of a command.                                         *)
LEMMA CommandFields ==
  \A c \in AllCommands :
     /\ c.length \in 0..LengthRange - 1 /\ c.direction \in Directions
     /\ c.op \in {"read", "write"} => c.length % Chunk = 0
BY DEF AllCommands

(* A bank of the OUT endpoint with other bytes is one.                     *)
LEMMA OutOf ==
  ASSUME NEW o \in OutBanks, NEW n \in Int, n >= 0, n <= EndpointSize
  PROVE  [o EXCEPT !.bytes = n] \in OutBanks
BY CommandAssumption DEF CommandAssumption, OutBanks

(* A bank of the IN endpoint that is sent, or given a status wrapper, is   *)
(* one.                                                                    *)
LEMMA InOf ==
  ASSUME NEW i \in InBanks
  PROVE  /\ \A b \in BOOLEAN : /\ [i EXCEPT !.sent = b] \in InBanks
                               /\ [i EXCEPT !.sent = b].sent = b
                               /\ [i EXCEPT !.sent = b].bytes = i.bytes
                               /\ [i EXCEPT !.sent = b].tags = i.tags
                               /\ [i EXCEPT !.sent = b].csw = i.csw
         /\ \A w \in Wrappers : /\ [i EXCEPT !.csw = w] \in InBanks
                                /\ [i EXCEPT !.csw = w].sent = i.sent
                                /\ [i EXCEPT !.csw = w].bytes = i.bytes
                                /\ [i EXCEPT !.csw = w].tags = i.tags
                                /\ [i EXCEPT !.csw = w].csw = w
BY DEF InBanks

(* What Write leaves in a bank that has room.                              *)
LEMMA WriteOf ==
  ASSUME Device, NEW n \in Nat, in.bytes + n <= EndpointSize
  PROVE  Write(n) \in InBanks /\ Write(n).bytes = in.bytes + n /\ Write(n).sent = in.sent
         /\ Write(n).csw = in.csw /\ Write(n).tags = in.tags \cup {block.tag}
<1>1. in \in InBanks BY DEF Device
<1>2. block.tag \in 0..MaxCommands BY Fields
<1>3. in.bytes + n \in 0..EndpointSize
  BY Fields, CommandAssumption DEF CommandAssumption
<1>4. in.tags \cup {block.tag} \in SUBSET (0..MaxCommands)
  BY Fields
<1> QED BY <1>1, <1>3, <1>4 DEF Write, InBanks

(* A block filled, shortened or not understood is one.                     *)
LEMMA BlockOf ==
  /\ \A t \in 0..MaxCommands, c \in AllCommands, n \in 0..LengthRange - 1 :
        [tag |-> t, command |-> c, length |-> n] \in Blocks
  /\ \A b \in Blocks, n \in 0..LengthRange - 1 : [b EXCEPT !.length = n] \in Blocks
  /\ \A b \in Blocks : [b EXCEPT !.command.op = "unknown"] \in Blocks
<1>1. \A c \in AllCommands : [c EXCEPT !.op = "unknown"] \in AllCommands
  BY DEF AllCommands
<1> QED BY <1>1 DEF Blocks

(* A status wrapper is made of its parts.                                  *)
LEMMA WrapperOf ==
  \A t \in 0..MaxCommands, s \in {"none", "pass", "fail"}, n \in 0..LengthRange - 1 :
        [tag |-> t, status |-> s, residue |-> n] \in Wrappers
BY DEF Wrappers

(* The parts of a response are numbers of bytes.                           *)
LEMMA Parts ==
  ASSUME NEW c \in AllCommands, c.op \in {"inquiry", "sense"}
  PROVE  /\ Relevant(c) \in Nat /\ c.length - Relevant(c) \in Nat
         /\ Relevant(c) <= Response[c.op]
         /\ Relevant(c) = c.length \/ Relevant(c) = Response[c.op]
         /\ Response[c.op] \in {18, 36}
         /\ c.length > 0 => Relevant(c) > 0
<1>1. c.length \in Nat BY DEF AllCommands
<1>2. Response[c.op] \in {18, 36} BY DEF Response
<1> QED BY <1>1, <1>2 DEF Relevant

(* A wait that fails leaves the history of such waits a truth value.       *)
LEMMA SlowTyped ==
  ASSUME HostSide, NEW d \in Directions, GiveUpOn(d) PROVE slow' \in BOOLEAN
BY DEF HostSide, GiveUpOn, Serves

(* Task keeps the types.                                                   *)
LEMMA TaskTyped ==
  ASSUME Typed, ~lost, Task PROVE Typed'
<1> USE CommandAssumption DEF CommandAssumption, Typed, device, hostVars, busVars, Goto, Steps, Streams
<1>1. Device' BY DEF Task, Device, Header
<1>2. HostSide' BY DEF Task, HostSide
<1>3. Chunked' BY Fields DEF Task, Chunked
<1> QED BY <1>1, <1>2, <1>3

(* ReadHeader keeps the types.                                             *)
LEMMA ReadHeaderTyped ==
  ASSUME Typed, ~lost, ReadHeader PROVE Typed'
<1> USE CommandAssumption DEF CommandAssumption, Typed, device, hostVars, busVars, Goto, Steps, Streams
<1>1. Device'
  <2>1. block' \in Blocks
    <3>1. command.length \in 0..LengthRange - 1 BY CommandFields DEF HostSide
    <3>2. 0 \in 0..LengthRange - 1 /\ 0 \in 0..MaxCommands OBVIOUS
    <3> QED BY <3>1, <3>2, BlockOf, Literals DEF ReadHeader, HostSide
  <2>2. out' \in OutBanks
    <3>1. out.bytes - left \in Int /\ out.bytes - left >= 0 /\ out.bytes - left <= EndpointSize
      BY Fields DEF ReadHeader, Device
    <3> QED BY <3>1, OutOf DEF ReadHeader, Device
  <2> QED BY <2>1, <2>2 DEF ReadHeader, Device
<1>2. HostSide' BY DEF ReadHeader, HostSide
<1>3. Chunked' BY Fields DEF ReadHeader, Chunked
<1> QED BY <1>1, <1>2, <1>3

(* ReadPartOfHeader keeps the types.                                       *)
LEMMA ReadPartOfHeaderTyped ==
  ASSUME Typed, ~lost, ReadPartOfHeader PROVE Typed'
<1> USE CommandAssumption DEF CommandAssumption, Typed, device, hostVars, busVars, Goto, Steps, Streams
<1>1. Device' BY Literals, Fields DEF ReadPartOfHeader, Device
<1>2. HostSide' BY DEF ReadPartOfHeader, HostSide
<1>3. Chunked' BY Fields DEF ReadPartOfHeader, Chunked
<1> QED BY <1>1, <1>2, <1>3

(* ReadNothing keeps the types.                                            *)
LEMMA ReadNothingTyped ==
  ASSUME Typed, ~lost, ReadNothing PROVE Typed'
<1> USE CommandAssumption DEF CommandAssumption, Typed, device, hostVars, busVars, Goto, Steps, Streams
<1>1. Device' BY Literals, Fields DEF ReadNothing, Device
<1>2. HostSide' BY DEF ReadNothing, HostSide
<1>3. Chunked' BY Fields DEF ReadNothing, Chunked
<1> QED BY <1>1, <1>2, <1>3

(* Validate keeps the types.                                               *)
LEMMA ValidateTyped ==
  ASSUME Typed, ~lost, Validate PROVE Typed'
<1> USE CommandAssumption DEF CommandAssumption, Typed, device, hostVars, busVars, Goto, Steps, Streams
<1>a. stalled' \in [Directions -> BOOLEAN] /\ left' \in Nat /\ pc' \in Steps
  <2>1. CASE block.command.valid BY <2>1 DEF Validate, Device, CommandData
  <2>2. CASE ~block.command.valid
    <3>1. stalled' = [stalled EXCEPT !["out"] = TRUE] /\ pc' = "refuse" /\ left' = left
      BY <2>2, Zenon DEF Validate
    <3> QED BY <3>1 DEF Device
  <2> QED BY <2>1, <2>2
<1>1. Device' BY <1>a DEF Validate, Device
<1>2. HostSide' BY DEF Validate, HostSide
<1>3. Chunked' BY Fields DEF Validate, Chunked
<1> QED BY <1>1, <1>2, <1>3

(* RefuseWrapper keeps the types.                                          *)
LEMMA RefuseWrapperTyped ==
  ASSUME Typed, ~lost, RefuseWrapper PROVE Typed'
<1> USE CommandAssumption DEF CommandAssumption, Typed, device, hostVars, busVars, Goto, Steps, Streams
<1>1. Device' BY Literals, Fields DEF RefuseWrapper, Device
<1>2. HostSide' BY DEF RefuseWrapper, HostSide
<1>3. Chunked' BY Fields DEF RefuseWrapper, Chunked
<1> QED BY <1>1, <1>2, <1>3

(* ReadBody keeps the types.                                               *)
LEMMA ReadBodyTyped ==
  ASSUME Typed, ~lost, ReadBody PROVE Typed'
<1> USE CommandAssumption DEF CommandAssumption, Typed, device, hostVars, busVars, Goto, Steps, Streams
<1>1. Device'
  <2>1. block' \in Blocks BY BlockOf DEF ReadBody, Device
  <2>2. out' \in OutBanks
    <3>1. out.bytes - left \in Int /\ out.bytes - left >= 0 /\ out.bytes - left <= EndpointSize
      BY Fields DEF ReadBody, Device
    <3> QED BY <3>1, OutOf DEF ReadBody, Device
  <2> QED BY <2>1, <2>2 DEF ReadBody, Device
<1>2. HostSide' BY DEF ReadBody, HostSide
<1>3. Chunked' BY Fields DEF ReadBody, Chunked
<1> QED BY <1>1, <1>2, <1>3

(* ClearOUT keeps the types.                                               *)
LEMMA ClearOUTTyped ==
  ASSUME Typed, ~lost, ClearOUT PROVE Typed'
<1> USE CommandAssumption DEF CommandAssumption, Typed, device, hostVars, busVars, Goto, Steps, Streams
<1>1. Device' BY Literals, Fields DEF ClearOUT, Device
<1>2. HostSide' BY DEF ClearOUT, HostSide
<1>3. Chunked' BY Fields DEF ClearOUT, Chunked
<1> QED BY <1>1, <1>2, <1>3

(* Dispatch keeps the types.                                               *)
LEMMA DispatchTyped ==
  ASSUME Typed, Dispatch PROVE Typed'
<1> USE CommandAssumption DEF CommandAssumption, Typed, device, hostVars, busVars, Goto, Steps, Streams
<1>1. Device'
  <2>1. block' \in Blocks
    <3>1. 0 \in 0..LengthRange - 1 OBVIOUS
    <3>2. [block EXCEPT !.length = 0] \in Blocks BY <3>1, BlockOf DEF Device
    <3> QED BY <3>2 DEF Dispatch, Device
  <2>2. left' \in Nat /\ amount' \in Nat /\ padding' \in Nat
    <3>1. block.command \in AllCommands /\ block.command.length \in Nat BY Fields
    <3>2. Response["capacity"] \in Nat /\ Half \in Nat BY DEF Response, Half
    <3> QED BY <3>1, <3>2, Parts DEF Dispatch, Sense, Transfer, Device
  <2>3. pc' \in Steps /\ senseKey' \in {"good", "illegal", "hardware"} /\ moved' = 0
    BY DEF Dispatch, Sense, Transfer
  <2> QED BY <2>1, <2>2, <2>3 DEF Dispatch, Device
<1>2. HostSide' BY DEF Dispatch, HostSide
<1>3. Chunked' BY Fields DEF Dispatch, Sense, Transfer, Chunked
<1> QED BY <1>1, <1>2, <1>3

(* Stream keeps the types.                                                 *)
LEMMA StreamTyped ==
  ASSUME Typed, ~lost, Stream PROVE Typed'
<1> USE CommandAssumption DEF CommandAssumption, Typed, device, hostVars, busVars, Goto
<1> DEFINE n == IF left < EndpointSize - in.bytes THEN left ELSE EndpointSize - in.bytes
<1>a. n \in Nat /\ in.bytes + n <= EndpointSize /\ left - n \in Nat /\ moved + n \in Nat
  BY Fields DEF Device
<1>b. /\ in' = [Write(n) EXCEPT !.sent = left > n]
      /\ moved' = IF pc = "pad" THEN moved ELSE moved + n
      /\ IF left = n THEN NextStream ELSE left' = left - n /\ UNCHANGED <<pc, padding>>
  BY DEF Stream
<1> HIDE DEF n
<1>c. in' \in InBanks /\ in'.sent = (left > n)
  <2>1. Write(n) \in InBanks BY <1>a, WriteOf
  <2> DEFINE more == left > n
  <2>2. more \in BOOLEAN OBVIOUS
  <2>3. in' = [Write(n) EXCEPT !.sent = more] BY <1>b
  <2> HIDE DEF more
  <2>4. [Write(n) EXCEPT !.sent = more] \in InBanks /\ [Write(n) EXCEPT !.sent = more].sent = more
    BY <2>1, <2>2, InOf
  <2>5. in' \in InBanks /\ in'.sent = more BY <2>3, <2>4, Zenon
  <2> QED BY <2>5, Zenon DEF more
<1>d. /\ left' \in Nat /\ moved' \in Nat /\ padding' \in Nat
      /\ pc' \in Streams \cup {"finish"}
  BY <1>a, <1>b DEF NextStream, Device, Half, Stream, Streams
<1>1. Device'
  <2>1. pc' \in Steps BY <1>d DEF Steps, Streams
  <2> QED BY <1>c, <1>d, <2>1 DEF Stream, Device
<1>2. HostSide' BY DEF Stream, HostSide
<1>3. Chunked'
  <2>1. pc' \notin {"read", "write"} BY <1>d DEF Streams
  <2> QED BY <1>d, <2>1 DEF Stream, Chunked
<1> QED BY <1>1, <1>2, <1>3

(* StreamFails keeps the types.                                            *)
LEMMA StreamFailsTyped ==
  ASSUME Typed, ~lost, StreamFails PROVE Typed'
<1> USE CommandAssumption DEF CommandAssumption, Typed, device, hostVars, busVars, Goto
<1>a. left' \in Nat /\ padding' \in Nat /\ pc' \in Streams \cup {"finish"}
  BY DEF StreamFails, NextStream, Device, Half, Streams
<1>1. Device'
  <2>1. pc' \in Steps BY <1>a DEF Steps, Streams
  <2> QED BY <1>a, <2>1 DEF StreamFails, Device
<1>2. HostSide'
  <2>1. slow' \in BOOLEAN BY SlowTyped DEF StreamFails, Directions
  <2> QED BY <2>1 DEF StreamFails, HostSide
<1>3. Chunked'
  <2>1. pc' \notin {"read", "write"} BY <1>a DEF Streams
  <2> QED BY <1>a, <2>1 DEF StreamFails, Chunked
<1> QED BY <1>1, <1>2, <1>3

(* Finish keeps the types.                                                 *)
LEMMA FinishTyped ==
  ASSUME Typed, ~lost, Finish PROVE Typed'
<1> USE CommandAssumption DEF CommandAssumption, Typed, device, hostVars, busVars, Goto
<1>a. in' \in InBanks /\ ((in' = in /\ (in.sent \/ ~ready)) \/ (in'.sent /\ ready))
  <2>1. CASE ready /\ ~in.sent
    <3>1. Write(0) \in InBanks BY WriteOf, Fields
    <3>2. in' = [Write(0) EXCEPT !.sent = TRUE] BY <2>1 DEF Finish
    <3> QED BY <2>1, <3>1, <3>2, InOf
  <2>2. CASE ~(ready /\ ~in.sent)
    <3>1. in' = in BY <2>2 DEF Finish
    <3> QED BY <2>2, <3>1 DEF Device
  <2> QED BY <2>1, <2>2
<1>1. Device' BY <1>a DEF Finish, Device, Steps
<1>2. HostSide' BY DEF Finish, HostSide
<1>3. Chunked' BY <1>a, Fields DEF Finish, Chunked, Chunk
<1> QED BY <1>1, <1>2, <1>3

(* ReadChunk keeps the types.                                              *)
LEMMA ReadChunkTyped ==
  ASSUME Typed, ~lost, ReadChunk PROVE Typed'
<1> USE CommandAssumption DEF CommandAssumption, Typed, device, hostVars, busVars, Goto, Steps, Streams
<1>a. /\ in.bytes + Chunk <= EndpointSize /\ left - Chunk \in Nat /\ (left - Chunk) % Chunk = 0
      /\ (in.bytes + Chunk) % Chunk = 0
  <2>1. in.bytes % Chunk = 0 /\ left % Chunk = 0 /\ left > 0 /\ in.bytes < EndpointSize
    BY DEF ReadChunk, InAllowed, Chunked, Streams
  <2> QED BY <2>1, Fields DEF Chunk, Device
<1>b. in' \in InBanks /\ in'.bytes = in.bytes + Chunk
  BY <1>a, WriteOf DEF ReadChunk, Chunk
<1>1. Device' BY <1>a, <1>b DEF ReadChunk, Device, Chunk
<1>2. HostSide' BY DEF ReadChunk, HostSide
<1>3. Chunked' BY <1>a, <1>b DEF ReadChunk, InAllowed, Chunked
<1> QED BY <1>1, <1>2, <1>3

(* ReadBankFull keeps the types.                                           *)
LEMMA ReadBankFullTyped ==
  ASSUME Typed, ~lost, ReadBankFull PROVE Typed'
<1> USE CommandAssumption DEF CommandAssumption, Typed, device, hostVars, busVars, Goto, Steps, Streams
<1>a. in' \in InBanks /\ in'.sent = TRUE BY InOf DEF ReadBankFull, Device
<1>1. Device' BY <1>a DEF ReadBankFull, Device
<1>2. HostSide' BY DEF ReadBankFull, HostSide
<1>3. Chunked' BY <1>a DEF ReadBankFull, Chunked
<1> QED BY <1>1, <1>2, <1>3

(* ReadEnd keeps the types.                                                *)
LEMMA ReadEndTyped ==
  ASSUME Typed, ~lost, ReadEnd PROVE Typed'
<1> USE CommandAssumption DEF CommandAssumption, Typed, device, hostVars, busVars, Goto, Steps, Streams
<1>a. in' \in InBanks /\ in'.bytes = in.bytes /\ (in.sent => in'.sent)
  <2>1. (in.sent \/ in.bytes = EndpointSize) \in BOOLEAN OBVIOUS
  <2>2. in' = [in EXCEPT !.sent = (in.sent \/ in.bytes = EndpointSize)] BY DEF ReadEnd
  <2>3. in \in InBanks BY DEF Device
  <2>4. in' \in InBanks /\ in'.sent = (in.sent \/ in.bytes = EndpointSize)
        /\ in'.bytes = in.bytes
    <3>1. \A b \in BOOLEAN : /\ [in EXCEPT !.sent = b] \in InBanks
                             /\ [in EXCEPT !.sent = b].sent = b
                             /\ [in EXCEPT !.sent = b].bytes = in.bytes
      BY <2>3, InOf
    <3> QED BY <2>1, <2>2, <3>1, Zenon
  <2> QED BY <2>4
<1>1. Device' BY <1>a DEF ReadEnd, Device
<1>2. HostSide' BY DEF ReadEnd, HostSide
<1>3. Chunked' BY <1>a DEF ReadEnd, Chunked
<1> QED BY <1>1, <1>2, <1>3

(* WriteChunk keeps the types.                                             *)
LEMMA WriteChunkTyped ==
  ASSUME Typed, ~lost, WriteChunk PROVE Typed'
<1> USE CommandAssumption DEF CommandAssumption, Typed, device, hostVars, busVars, Goto, Steps, Streams
<1>a. left - Chunk \in Nat /\ (left - Chunk) % Chunk = 0
  BY DEF WriteChunk, Chunked, Device, Chunk
<1>b. out' \in OutBanks
  <2> DEFINE n == IF out.bytes < Chunk THEN 0 ELSE out.bytes - Chunk
  <2>1. n \in Int /\ n >= 0 /\ n <= EndpointSize BY Fields DEF Chunk
  <2>2. out' = [out EXCEPT !.bytes = n] BY DEF WriteChunk
  <2> QED BY <2>1, <2>2, OutOf DEF Device
<1>1. Device' BY <1>a, <1>b DEF WriteChunk, Device, Chunk
<1>2. HostSide' BY DEF WriteChunk, HostSide
<1>3. Chunked' BY <1>a DEF WriteChunk, Chunked
<1> QED BY <1>1, <1>2, <1>3

(* WriteBankEmpty keeps the types.                                         *)
LEMMA WriteBankEmptyTyped ==
  ASSUME Typed, ~lost, WriteBankEmpty PROVE Typed'
<1> USE CommandAssumption DEF CommandAssumption, Typed, device, hostVars, busVars, Goto, Steps, Streams
<1>1. Device' BY Literals, Fields DEF WriteBankEmpty, Device
<1>2. HostSide' BY DEF WriteBankEmpty, HostSide
<1>3. Chunked' BY Fields DEF WriteBankEmpty, Chunked
<1> QED BY <1>1, <1>2, <1>3

(* WriteEnd keeps the types.                                               *)
LEMMA WriteEndTyped ==
  ASSUME Typed, ~lost, WriteEnd PROVE Typed'
<1> USE CommandAssumption DEF CommandAssumption, Typed, device, hostVars, busVars, Goto, Steps, Streams
<1>1. Device' BY Literals, Fields DEF WriteEnd, Device
<1>2. HostSide' BY DEF WriteEnd, HostSide
<1>3. Chunked' BY Fields DEF WriteEnd, Chunked
<1> QED BY <1>1, <1>2, <1>3

(* TransferFails keeps the types.                                          *)
LEMMA TransferFailsTyped ==
  ASSUME Typed, ~lost, TransferFails PROVE Typed'
<1> USE CommandAssumption DEF CommandAssumption, Typed, device, hostVars, busVars, Goto, Steps, Streams
<1>1. Device' BY Literals, Fields DEF TransferFails, Device
<1>2. HostSide'
  <2>1. slow' \in BOOLEAN BY SlowTyped DEF TransferFails, Directions
  <2> QED BY <2>1 DEF TransferFails, HostSide
<1>3. Chunked' BY Fields DEF TransferFails, Chunked
<1> QED BY <1>1, <1>2, <1>3

(* Account keeps the types.                                                *)
LEMMA AccountTyped ==
  ASSUME Typed, Account PROVE Typed'
<1> USE CommandAssumption DEF CommandAssumption, Typed, device, hostVars, busVars, Goto, Steps, Streams
<1>a. block' \in Blocks
  <2> DEFINE d == block.length - amount
  <2>1. d \in Int BY Fields DEF Device
  <2> HIDE DEF d
  <2>2. d % LengthRange \in 0..LengthRange - 1 BY <2>1
  <2>3. block' = [block EXCEPT !.length = d % LengthRange] BY DEF Account, d
  <2> QED BY <2>2, <2>3, BlockOf DEF Device
<1>1. Device' BY <1>a DEF Account, Device
<1>2. HostSide' BY DEF Account, HostSide
<1>3. Chunked' BY Fields DEF Account, Chunked
<1> QED BY <1>1, <1>2, <1>3

(* FillStatus keeps the types.                                             *)
LEMMA FillStatusTyped ==
  ASSUME Typed, ~lost, FillStatus PROVE Typed'
<1> USE CommandAssumption DEF CommandAssumption, Typed, device, hostVars, busVars, Goto, Steps, Streams
<1>a. csw' \in Wrappers
  <2>1. (IF senseKey = "good" THEN "pass" ELSE "fail") \in {"none", "pass", "fail"} OBVIOUS
  <2> QED BY <2>1, WrapperOf, Fields DEF FillStatus
<1>b. stalled' \in [Directions -> BOOLEAN] BY Fields DEF FillStatus, Device
<1>1. Device' BY <1>a, <1>b DEF FillStatus, Device
<1>2. HostSide' BY DEF FillStatus, HostSide
<1>3. Chunked' BY Fields DEF FillStatus, Chunked
<1> QED BY <1>1, <1>2, <1>3

(* WaitWhileStalled keeps the types.                                       *)
LEMMA WaitWhileStalledTyped ==
  ASSUME Typed, WaitWhileStalled PROVE Typed'
<1> USE CommandAssumption DEF CommandAssumption, Typed, device, hostVars, busVars, Goto, Steps, Streams
<1>1. Device' BY Literals, Fields DEF WaitWhileStalled, Device
<1>2. HostSide' BY DEF WaitWhileStalled, HostSide
<1>3. Chunked' BY Fields DEF WaitWhileStalled, Chunked
<1> QED BY <1>1, <1>2, <1>3

(* WriteStatus keeps the types.                                            *)
LEMMA WriteStatusTyped ==
  ASSUME Typed, ~lost, WriteStatus PROVE Typed'
<1> USE CommandAssumption DEF CommandAssumption, Typed, device, hostVars, busVars, Goto, Steps, Streams
<1>a. in.bytes % Chunk = 0 /\ in.bytes < EndpointSize /\ ~in.sent
  BY DEF WriteStatus, InAllowed, Chunked
<1>b. in.bytes + Status <= EndpointSize /\ (in.bytes + Status) % Chunk = 13
  BY <1>a, Fields DEF Chunk, Status
<1>c. in' \in InBanks /\ in'.bytes = in.bytes + Status
  BY <1>b, WriteOf, InOf DEF WriteStatus, Status, Device
<1>1. Device' BY <1>c DEF WriteStatus, Device
<1>2. HostSide' BY DEF WriteStatus, HostSide
<1>3. Chunked' BY <1>b, <1>c DEF WriteStatus, InAllowed, Chunked
<1> QED BY <1>1, <1>2, <1>3

(* FlushBeforeStatus keeps the types.                                      *)
LEMMA FlushBeforeStatusTyped ==
  ASSUME Typed, ~lost, FlushBeforeStatus PROVE Typed'
<1> USE CommandAssumption DEF CommandAssumption, Typed, device, hostVars, busVars, Goto, Steps, Streams
<1>a. in' \in InBanks /\ in'.sent = TRUE BY InOf DEF FlushBeforeStatus, Device
<1>1. Device' BY <1>a DEF FlushBeforeStatus, Device
<1>2. HostSide' BY DEF FlushBeforeStatus, HostSide
<1>3. Chunked' BY <1>a DEF FlushBeforeStatus, Chunked
<1> QED BY <1>1, <1>2, <1>3

(* StatusFails keeps the types.                                            *)
LEMMA StatusFailsTyped ==
  ASSUME Typed, ~lost, StatusFails PROVE Typed'
<1> USE CommandAssumption DEF CommandAssumption, Typed, device, hostVars, busVars, Goto, Steps, Streams
<1>1. Device' BY Literals, Fields DEF StatusFails, Device
<1>2. HostSide'
  <2>1. slow' \in BOOLEAN BY SlowTyped DEF StatusFails, Directions
  <2> QED BY <2>1 DEF StatusFails, HostSide
<1>3. Chunked' BY Fields DEF StatusFails, Chunked
<1> QED BY <1>1, <1>2, <1>3

(* ClearIN keeps the types.                                                *)
LEMMA ClearINTyped ==
  ASSUME Typed, ~lost, ClearIN PROVE Typed'
<1> USE CommandAssumption DEF CommandAssumption, Typed, device, hostVars, busVars, Goto, Steps, Streams
<1>a. in' \in InBanks /\ in'.sent = TRUE BY InOf DEF ClearIN, Device
<1>1. Device' BY <1>a DEF ClearIN, Device
<1>2. HostSide' BY DEF ClearIN, HostSide
<1>3. Chunked' BY <1>a DEF ClearIN, Chunked
<1> QED BY <1>1, <1>2, <1>3

(* ResetFIFOs keeps the types.                                             *)
LEMMA ResetFIFOsTyped ==
  ASSUME Typed, ~lost, ResetFIFOs PROVE Typed'
<1> USE CommandAssumption DEF CommandAssumption, Typed, device, hostVars, busVars, Goto, Steps, Streams
<1>1. Device' BY Literals, Fields DEF ResetFIFOs, Device
<1>2. HostSide' BY DEF ResetFIFOs, HostSide
<1>3. Chunked'
  <2>1. Fresh.bytes = 0 /\ Fresh.bytes % Chunk = 0 BY Literals DEF Chunk
  <2> QED BY <2>1 DEF ResetFIFOs, Chunked
<1> QED BY <1>1, <1>2, <1>3

(* EndReset keeps the types.                                               *)
LEMMA EndResetTyped ==
  ASSUME Typed, ~lost, EndReset PROVE Typed'
<1> USE CommandAssumption DEF CommandAssumption, Typed, device, hostVars, busVars, Goto, Steps, Streams
<1>1. Device' BY Literals, Fields DEF EndReset, Device
<1>2. HostSide' BY DEF EndReset, HostSide
<1>3. Chunked' BY Fields DEF EndReset, Chunked
<1> QED BY <1>1, <1>2, <1>3

(* Astray keeps the types.                                                 *)
LEMMA AstrayTyped ==
  ASSUME Typed, Astray PROVE Typed'
<1> USE CommandAssumption DEF CommandAssumption, Typed, device, hostVars, busVars, Goto, Steps, Streams
<1>a. block' \in Blocks
  <2>1. [tag |-> 0, command |-> NoCommand, length |-> 0] \in Blocks
    <3>1. 0 \in 0..LengthRange - 1 /\ 0 \in 0..MaxCommands OBVIOUS
    <3> QED BY <3>1, BlockOf, Literals
  <2>2. [block EXCEPT !.command.op = "unknown"] \in Blocks BY BlockOf DEF Device
  <2> QED BY <2>1, <2>2 DEF Astray, Device
<1>b. csw' \in Wrappers
  <2>1. (IF senseKey = "good" THEN "pass" ELSE "fail") \in {"none", "pass", "fail"} OBVIOUS
  <2>2. [tag |-> block.tag, status |-> IF senseKey = "good" THEN "pass" ELSE "fail",
         residue |-> block.length] \in Wrappers
    BY <2>1, WrapperOf, Fields
  <2>3. csw' = csw \/ csw' = [tag |-> block.tag,
                              status |-> IF senseKey = "good" THEN "pass" ELSE "fail",
                              residue |-> block.length]
    BY DEF Astray
  <2> QED BY <2>2, <2>3 DEF Device
<1>1. Device' BY <1>a, <1>b DEF Astray, Device
<1>2. HostSide' BY DEF Astray, HostSide
<1>3. Chunked'
  <2>1. Fresh.bytes = 0 /\ Fresh.bytes % Chunk = 0 BY Literals DEF Chunk
  <2>2. pc' \notin {"read", "write"} BY DEF Astray
  <2>3. in' = Fresh /\ UNCHANGED <<host, command, carried>> BY DEF Astray, Chunked
  <2> QED BY <2>1, <2>2, <2>3 DEF Chunked
<1> QED BY <1>1, <1>2, <1>3

(* SendCommand keeps the types.                                            *)
LEMMA SendCommandTyped ==
  ASSUME Typed, SendCommand PROVE Typed'
<1> USE CommandAssumption DEF CommandAssumption, Typed, device, hostVars, busVars, Goto, Steps, Streams
<1>a. out' \in OutBanks BY DEF SendCommand, OutBanks, Wrapper
<1>1. Device' BY <1>a DEF SendCommand, Device
<1>2. HostSide'
  <2>1. stale' \in BOOLEAN /\ slow' \in BOOLEAN BY DEF SendCommand
  <2>2. /\ carried' = 0 /\ residue' = 0 /\ host' \in {"status", "data"} /\ command' \in AllCommands
        /\ UNCHANGED <<giveUps, busResets, ready, lost>>
        /\ tag' = tag + 1 /\ tag < MaxCommands
    BY Sizes DEF SendCommand
  <2> HIDE DEF Typed
  <2> QED BY <2>1, <2>2 DEF Typed, HostSide
<1>3. Chunked' BY Fields DEF SendCommand, Chunked
<1> QED BY <1>1, <1>2, <1>3

(* TakeData keeps the types.                                               *)
LEMMA TakeDataTyped ==
  ASSUME Typed, TakeData PROVE Typed'
<1> USE CommandAssumption DEF CommandAssumption, Typed, device, hostVars, busVars, Goto, Steps, Streams
<1>1. Device' BY Literals, Fields DEF TakeData, Device
<1>2. HostSide' BY Literals, Fields, Sizes DEF TakeData, HostSide
<1>3. Chunked'
  <2>1. Fresh.bytes = 0 /\ Fresh.bytes % Chunk = 0 BY Literals DEF Chunk
  <2> QED BY <2>1 DEF TakeData, Chunked
<1> QED BY <1>1, <1>2, <1>3

(* SendData keeps the types.                                               *)
LEMMA SendDataTyped ==
  ASSUME Typed, SendData PROVE Typed'
<1> USE CommandAssumption DEF CommandAssumption, Typed, device, hostVars, busVars, Goto, Steps, Streams
<1> DEFINE rest == command.length - carried
           n == IF rest < EndpointSize THEN rest ELSE EndpointSize
<1>a. rest \in Int /\ rest > 0 /\ carried \in Nat
  BY CommandFields DEF SendData, Chunked, HostSide
<1>b. n \in 0..EndpointSize /\ carried + n \in Nat BY <1>a
<1>c. /\ out' = [kind |-> "data", bytes |-> n] /\ carried' = carried + n
      /\ host' = (IF n = rest THEN "status" ELSE "data")
  BY DEF SendData
<1>d. n # rest => carried + n < command.length
  <2>1. command.length \in Nat BY CommandFields DEF HostSide
  <2> QED BY <1>a, <2>1
<1> HIDE DEF rest, n
<1>e. out' \in OutBanks BY <1>b, <1>c DEF OutBanks
<1>1. Device' BY <1>e DEF SendData, Device
<1>2. HostSide' BY <1>b, <1>c DEF SendData, HostSide
<1>3. Chunked' BY <1>c, <1>d DEF SendData, Chunked
<1> QED BY <1>1, <1>2, <1>3

(* SeeStall keeps the types.                                               *)
LEMMA SeeStallTyped ==
  ASSUME Typed, SeeStall PROVE Typed'
<1> USE CommandAssumption DEF CommandAssumption, Typed, device, hostVars, busVars, Goto, Steps, Streams
<1>1. Device' BY Literals DEF SeeStall, ClearFeature, Device
<1>2. HostSide' BY DEF SeeStall, ClearFeature, HostSide
<1>3. Chunked'
  <2>1. Fresh.bytes = 0 /\ Fresh.bytes % Chunk = 0 BY Literals DEF Chunk
  <2> QED BY <2>1 DEF SeeStall, ClearFeature, Chunked
<1> QED BY <1>1, <1>2, <1>3

(* TakeStatus keeps the types.                                             *)
LEMMA TakeStatusTyped ==
  ASSUME Typed, TakeStatus PROVE Typed'
<1> USE CommandAssumption DEF CommandAssumption, Typed, device, hostVars, busVars, Goto, Steps, Streams
<1>1. Device' BY Literals, Fields DEF TakeStatus, Device
<1>2. HostSide' BY Literals, Fields, Sizes DEF TakeStatus, HostSide
<1>3. Chunked'
  <2>1. Fresh.bytes = 0 /\ Fresh.bytes % Chunk = 0 BY Literals DEF Chunk
  <2> QED BY <2>1 DEF TakeStatus, Chunked
<1> QED BY <1>1, <1>2, <1>3

(* MassStorageReset keeps the types.                                       *)
LEMMA MassStorageResetTyped ==
  ASSUME Typed, MassStorageReset PROVE Typed'
<1> USE CommandAssumption DEF CommandAssumption, Typed, device, hostVars, busVars, Goto, Steps, Streams
<1>1. Device' BY Literals, Fields DEF MassStorageReset, Device
<1>2. HostSide' BY Literals, Fields, Sizes DEF MassStorageReset, HostSide
<1>3. Chunked' BY Fields DEF MassStorageReset, Chunked
<1> QED BY <1>1, <1>2, <1>3

(* ClearBoth keeps the types.                                              *)
LEMMA ClearBothTyped ==
  ASSUME Typed, ClearBoth PROVE Typed'
<1> USE CommandAssumption DEF CommandAssumption, Typed, device, hostVars, busVars, Goto, Steps, Streams
<1>1. Device' BY Literals DEF ClearBoth, ClearFeature, Device
<1>2. HostSide' BY DEF ClearBoth, ClearFeature, HostSide
<1>3. Chunked'
  <2>1. Fresh.bytes = 0 /\ Fresh.bytes % Chunk = 0 BY Literals DEF Chunk
  <2> QED BY <2>1 DEF ClearBoth, ClearFeature, Chunked
<1> QED BY <1>1, <1>2, <1>3

(* GiveUp keeps the types.                                                 *)
LEMMA GiveUpTyped ==
  ASSUME Typed, GiveUp PROVE Typed'
<1> USE CommandAssumption DEF CommandAssumption, Typed, device, hostVars, busVars, Goto, Steps, Streams
<1>1. Device' BY Literals, Fields DEF GiveUp, Device
<1>2. HostSide' BY Literals, Fields, Sizes DEF GiveUp, HostSide
<1>3. Chunked' BY Fields DEF GiveUp, Chunked
<1> QED BY <1>1, <1>2, <1>3

(* BusReset keeps the types.                                               *)
LEMMA BusResetTyped ==
  ASSUME Typed, BusReset PROVE Typed'
<1> USE CommandAssumption DEF CommandAssumption, Typed, device, hostVars, busVars, Goto, Steps, Streams
<1>1. Device' BY Literals, Fields DEF BusReset, Device
<1>a. lost' \in BOOLEAN /\ stale' \in BOOLEAN /\ slow' \in BOOLEAN BY DEF BusReset
<1>b. /\ busResets' \in 0..MaxBusResets /\ residue' \in 0..LengthRange - 1 /\ carried' \in Nat
      /\ tag' \in 0..MaxCommands /\ giveUps' \in 0..MaxGiveUps /\ command' \in AllCommands
  BY DEF BusReset, HostSide
<1>c. host' = "reset" /\ ready' = FALSE BY DEF BusReset
<1>2. HostSide' BY <1>a, <1>b, <1>c DEF HostSide
<1>3. Chunked'
  <2>1. Fresh.bytes = 0 /\ Fresh.bytes % Chunk = 0 BY Literals DEF Chunk
  <2> QED BY <2>1 DEF BusReset, Chunked
<1> QED BY <1>1, <1>2, <1>3

(* Configure keeps the types.                                              *)
LEMMA ConfigureTyped ==
  ASSUME Typed, Configure PROVE Typed'
<1> USE CommandAssumption DEF CommandAssumption, Typed, device, hostVars, busVars, Goto, Steps, Streams
<1>a. block' \in Blocks
  <2>1. 0 \in 0..LengthRange - 1 /\ 0 \in 0..MaxCommands OBVIOUS
  <2> QED BY <2>1, BlockOf, Literals DEF Configure
<1>1. Device' BY <1>a, Literals DEF Configure, Device
<1>2. HostSide' BY Literals, Fields, Sizes DEF Configure, HostSide
<1>3. Chunked'
  <2>1. Fresh.bytes = 0 /\ Fresh.bytes % Chunk = 0 BY Literals DEF Chunk
  <2> QED BY <2>1 DEF Configure, Chunked
<1> QED BY <1>1, <1>2, <1>3

(* The program starts with the types.                                      *)
LEMMA TypedStarts == Init => Typed
<1> USE CommandAssumption DEF CommandAssumption
<1> SUFFICES ASSUME Init PROVE Typed
  OBVIOUS
<1>1. [tag |-> 0, command |-> NoCommand, length |-> 0] \in Blocks
  <2>1. 0 \in 0..LengthRange - 1 /\ 0 \in 0..MaxCommands OBVIOUS
  <2> QED BY <2>1, BlockOf, Literals
<1>2. Device BY <1>1, Literals DEF Init, Device, Steps
<1>3. HostSide
  <2>1. ready \in BOOLEAN /\ lost \in BOOLEAN /\ stale \in BOOLEAN /\ slow \in BOOLEAN
    BY DEF Init
  <2>2. /\ host = "idle" /\ tag \in 0..MaxCommands /\ giveUps \in 0..MaxGiveUps
        /\ command \in AllCommands /\ carried \in Nat
        /\ residue \in 0..LengthRange - 1 /\ busResets \in 0..MaxBusResets
    BY Literals DEF Init
  <2> QED BY <2>1, <2>2 DEF HostSide
<1>4. Chunked BY Literals DEF Init, Chunked, Chunk
<1> QED BY <1>2, <1>3, <1>4 DEF Typed

(* Every step keeps them.                                                  *)
LEMMA TypedKept == Typed /\ [Next]_vars => Typed'
<1> SUFFICES ASSUME Typed, [Next]_vars PROVE Typed'
  OBVIOUS
<1>1. CASE ~lost /\ OnEndpoint
  BY <1>1, TaskTyped, ReadHeaderTyped, ReadPartOfHeaderTyped, ReadNothingTyped, ValidateTyped,
     RefuseWrapperTyped, ReadBodyTyped, ClearOUTTyped, StreamTyped, StreamFailsTyped, FinishTyped, ReadChunkTyped,
     ReadBankFullTyped, ReadEndTyped, WriteChunkTyped, WriteBankEmptyTyped, WriteEndTyped,
     TransferFailsTyped, FillStatusTyped, WriteStatusTyped, FlushBeforeStatusTyped,
     StatusFailsTyped, ClearINTyped, ResetFIFOsTyped, EndResetTyped DEF OnEndpoint
<1>2. CASE Main
  BY <1>1, <1>2, DispatchTyped, AccountTyped, WaitWhileStalledTyped, AstrayTyped DEF Main
<1>3. CASE Serve
  BY <1>3, TakeDataTyped, SendDataTyped, SeeStallTyped, TakeStatusTyped, MassStorageResetTyped,
     ClearBothTyped, ConfigureTyped DEF Serve
<1>4. CASE SendCommand \/ GiveUp \/ BusReset
  BY <1>4, SendCommandTyped, GiveUpTyped, BusResetTyped
<1>5. CASE AtTheBound \/ UNCHANGED vars
  BY <1>5 DEF AtTheBound, vars, device, hostVars, busVars, Typed, Device, HostSide, Chunked
<1> QED BY <1>2, <1>3, <1>4, <1>5 DEF Next

(* They are those of TypeOK.                                               *)
LEMMA TypedIsTypeOK == Typed => TypeOK
<1> SUFFICES ASSUME Typed PROVE TypeOK
  OBVIOUS
<1>1. block.tag \in 0..MaxCommands /\ block.length \in 0..LengthRange - 1
  BY DEF Typed, Device, Blocks
<1>2. /\ csw.tag \in 0..MaxCommands /\ csw.residue \in 0..LengthRange - 1
      /\ csw.status \in {"none", "pass", "fail"}
  BY DEF Typed, Device, Wrappers
<1>3. out.kind \in {"none", "wrapper", "data"} /\ out.bytes \in 0..EndpointSize
  BY DEF Typed, Device, OutBanks
<1>4. /\ in.bytes \in 0..EndpointSize /\ in.tags \subseteq 0..MaxCommands
      /\ in.csw.tag \in 0..MaxCommands /\ in.sent \in BOOLEAN
  BY DEF Typed, Device, InBanks, Wrappers
<1> QED BY <1>1, <1>2, <1>3, <1>4, Zenon DEF Typed, Device, HostSide, TypeOK

(* Every variable has its type in every reachable state: no count of the   *)
(* transfers of SCSI.c and DataflashManager.c leaves its range, and no     *)
(* packet is longer than its bank.                                         *)
THEOREM TypeCorrect == Spec => []TypeOK
<1> QED BY TypedStarts, TypedKept, TypedIsTypeOK, PTL DEF Spec

-----------------------------------------------------------------------------
(* The command and its answer                                              *)

(* The host of the two theorems.                                           *)
Friendly == HostWaits /\ \A c \in Commands : WellBehaved(c)

(* A command the host waits for, on a driver that no bus reset has met at  *)
(* work; and one for whose sake the driver has waited too short.           *)
Live == ~stale /\ ~slow /\ host \in {"data", "status"}
Late == ~stale /\ slow /\ host \in {"data", "status"}
NoStall == stalled = [d \in Directions |-> FALSE]

(* How the resets stand to the main loop, whatever the command.            *)
Bus ==
  /\ ready <=> host # "reset"
  /\ lost => stale
  /\ massReset => host \notin {"data", "status"}
  /\ ~stale /\ host = "reset" => pc \in {"task", "unstall"}
  /\ ~stale /\ pc = "unstall" => massReset /\ in = Fresh /\ out = Empty
  /\ host \in {"data", "status"} => tag >= 1 /\ command \in Commands

(* Between commands nothing is in a bank and nothing stalls.               *)
Resting ==
  /\ ~stale /\ ~slow
  /\ \/ host \in {"idle", "clearin", "clearout"} /\ ~massReset
     \/ host = "reset" /\ pc = "task"
  => in = Fresh /\ out = Empty /\ NoStall /\ pc \in {"task", "reset"}

(* A wrapper that is not valid never gets as far as a command.             *)
Refusing ==
  Live /\ ~command.valid =>
    /\ in = Fresh /\ pc \in {"task", "header", "validate", "refuse", "reset"}
    /\ pc = "validate" => ~block.command.valid

(* The parts of Course. The block is the wrapper the host has sent.        *)
Held == block = [tag |-> tag, command |-> command, length |-> command.length]

(* Nothing of the command has been moved yet.                              *)
Untouched ==
  /\ in = Fresh /\ NoStall /\ carried = 0
  /\ host = IF command.length = 0 THEN "status" ELSE "data"
HostStep == host = "data" <=> carried < command.length

(* Of the data of the host, n bytes are used and the rest is in the bank.  *)
Received(n) ==
  /\ out = Empty \/ out.kind = "data"
  /\ carried = n + out.bytes /\ carried <= command.length
  /\ HostStep

(* The last packet of the data is in the bank.                             *)
Waiting ==
  /\ in.sent /\ in.tags = {tag} /\ in.csw = NoStatus
  /\ command.direction = "in" /\ host = "data"
  /\ in.bytes < EndpointSize \/ carried + in.bytes >= command.length

(* The block is of the command of the host.                                *)
Owned == block.tag = tag /\ block.command.direction = command.direction

(* The status is in the bank, alone.                                       *)
Answered ==
  /\ in.sent /\ in.tags = {tag} /\ in.bytes = Status
  /\ in.csw.tag = tag /\ in.csw.residue = command.length - moved
  /\ host = "status" /\ NoStall /\ out = Empty

(* The streams: what they write in all, and the bank they write to, which  *)
(* is the host's while it is full and there is more to come.               *)
Total == IF command.op = "capacity" THEN Response["capacity"] ELSE command.length
Filling ==
  /\ in.csw = NoStatus /\ in.tags \in {{}, {tag}} /\ (in.bytes > 0 => in.tags = {tag})
  /\ in.sent => in.bytes = EndpointSize /\ left > 0
  /\ in.bytes > 0 \/ left > 0
Streaming ==
  /\ Held /\ NoStall /\ senseKey = "good" /\ out = Empty /\ host = "data"
  /\ command.op \in DOMAIN Response /\ amount = Relevant(command) /\ Filling
Halved ==
  /\ carried + in.bytes = moved /\ moved + left + Half = amount /\ left > 0
  /\ padding = 0 /\ command.op = "capacity"
Relayed ==
  /\ carried + in.bytes = moved /\ moved + left = amount /\ left > 0
  /\ amount + padding = Total
Padded ==
  moved = amount /\ carried + in.bytes + left = Total /\ carried + in.bytes >= amount

(* The transfers of _ReadBlocks and _WriteBlocks.                          *)
ReadingBlocks ==
  /\ Held /\ NoStall /\ senseKey = "good" /\ out = Empty /\ command.op = "read"
  /\ amount = command.length /\ moved + left = amount
  /\ carried + in.bytes = moved /\ carried % EndpointSize = 0 /\ HostStep
  /\ in = Fresh \/ (in.bytes > 0 /\ in.csw = NoStatus /\ in.tags = {tag})
  /\ in.sent => in.bytes = EndpointSize
WritingBlocks ==
  /\ Held /\ NoStall /\ senseKey = "good" /\ in = Fresh /\ command.op = "write"
  /\ amount = command.length /\ moved + left = amount
  /\ Received(moved) /\ out.bytes % Chunk = 0 /\ carried % EndpointSize = 0

(* They end with all of it moved.                                          *)
Accounting ==
  /\ Owned /\ block.length = command.length /\ NoStall /\ senseKey = "good" /\ out = Empty
  /\ moved = amount /\ amount <= command.length
  /\ (in = Fresh /\ host = "status") \/ Waiting

(* Before and after the status wrapper is filled: a failure that leaves    *)
(* something unmoved stalls the endpoint of the data, and nothing else     *)
(* does.                                                                   *)
Due == Owned /\ block.length = command.length - moved
Failed == senseKey # "good" /\ block.length # 0
StatusDue ==
  /\ Due /\ NoStall
  /\ \/ in = Fresh /\ out = Empty /\ host = "status"
     \/ out = Empty /\ Waiting /\ senseKey = "good"
     \/ in = Fresh /\ Failed /\ (out = Empty \/ command.direction = "out")
Filled == Due /\ csw.tag = tag /\ csw.residue = block.length
Ready == out = Empty /\ ((in = Fresh /\ host = "status") \/ Waiting)
Halting ==
  /\ Filled
  /\ \A d \in Directions : stalled[d] => d = command.direction
  /\ \/ Ready /\ NoStall
     \/ in = Fresh /\ stalled[command.direction] /\ (out = Empty \/ command.direction = "out")

(* Where a valid command is at every step of the main loop.                *)
Course ==
  Live /\ command.valid =>
   /\ pc = "task" => (out = [kind |-> "wrapper", bytes |-> Wrapper] /\ Untouched) \/ Answered
   /\ pc = "header" => out = [kind |-> "wrapper", bytes |-> Wrapper] /\ Untouched
                       /\ left = Header
   /\ pc = "validate" => Held /\ Untouched
                         /\ out = [kind |-> "wrapper", bytes |-> Wrapper - Header]
   /\ pc = "body" => Held /\ Untouched /\ out = [kind |-> "wrapper", bytes |-> Wrapper - Header]
                     /\ left = CommandData
   /\ pc = "clearout" => Held /\ Untouched /\ out.kind = "wrapper"
   /\ pc = "dispatch" => Held /\ IF command.direction = "in" THEN Untouched /\ out = Empty
                                 ELSE in = Fresh /\ NoStall /\ Received(0)
                                      /\ (out = Empty \/ out.bytes > 0)
                                      /\ (command.op = "write" => carried % EndpointSize = 0)
   /\ pc \in {"half", "stream", "pad", "finish"} => Streaming
   /\ pc = "half" => Halved
   /\ pc = "stream" => Relayed
   /\ pc = "pad" => Padded
   /\ pc = "finish" => Padded /\ left = 0
   /\ pc = "read" => ReadingBlocks
   /\ pc = "write" => WritingBlocks
   /\ pc = "account" => Accounting
   /\ pc = "status" => StatusDue
   /\ pc = "waitout" => Halting
   /\ pc = "waitin" => Halting /\ ~stalled["out"] /\ out = Empty
   /\ pc = "csw" => Filled /\ Ready /\ NoStall
   /\ pc = "clearin" => /\ Filled /\ out = Empty /\ host = "status" /\ NoStall
                        /\ in = [bytes |-> Status, tags |-> {tag}, csw |-> csw, sent |-> FALSE]
   /\ pc = "reset" => Answered
   /\ pc \notin {"refuse", "unstall"}

(* The inductive invariant of the two properties.                          *)
Safe == Bus /\ Resting /\ Refusing /\ Course

(* What the host asks for while it waits for its command.                  *)
LEMMA Asked ==
  ASSUME Friendly, Typed, Bus, Live
  PROVE  /\ command \in Commands /\ command.length \in Nat /\ command.length < LengthRange
         /\ command.op \in DOMAIN Response =>
              command.direction = "in" /\ command.length > 0
         /\ command.op = "capacity" => command.length >= 8
         /\ command.op \in {"read", "write"} => command.length % EndpointSize = 0
         /\ command.op = "read" => command.direction = "in"
         /\ command.op = "write" => command.direction = "out"
         /\ command.op \in {"ready", "diagnostic"} => command.length = 0
<1>1. command \in Commands BY DEF Bus, Live
<1>2. command.length \in 0..LengthRange - 1 BY CommandFields DEF Typed, HostSide
<1>3. command.op \in {"read", "write"} => command.length % EndpointSize = 0
  BY <1>1, Blocky
<1>4. WellBehaved(command) BY <1>1 DEF Friendly
<1> QED BY <1>1, <1>2, <1>3, <1>4, CommandAssumption DEF WellBehaved, CommandAssumption, Response

(* What it gets of a command that has something to say.                    *)
LEMMA Sums ==
  ASSUME Friendly, Typed, Bus, Live, command.op \in DOMAIN Response
  PROVE  /\ command.direction = "in" /\ command.length \in Nat
         /\ Relevant(command) \in Nat /\ Relevant(command) > 0
         /\ Total \in Nat /\ Relevant(command) <= Total /\ Total <= command.length
         /\ command.op = "capacity" => Relevant(command) = 8 /\ Total = 8
         /\ command.op # "capacity" => Total = command.length
<1>1. /\ command.direction = "in" /\ command.length \in Nat /\ command.length > 0
      /\ command.op = "capacity" => command.length >= 8
  BY Asked
<1>2. Response["inquiry"] = 36 /\ Response["sense"] = 18 /\ Response["capacity"] = 8
      /\ command.op \in {"inquiry", "sense", "capacity"}
  BY DEF Response
<1>3. CASE command.op = "capacity" BY <1>1, <1>2, <1>3 DEF Relevant, Total
<1>4. CASE command.op = "inquiry" BY <1>1, <1>2, <1>4 DEF Relevant, Total
<1>5. CASE command.op = "sense" BY <1>1, <1>2, <1>5 DEF Relevant, Total
<1> QED BY <1>2, <1>3, <1>4, <1>5

(* Task keeps the course of a command.                                     *)
LEMMA TaskCourse ==
  ASSUME Friendly, Typed, Safe, ~lost, Task PROVE Course'
<1> USE DEF Safe, Typed, device, hostVars, busVars, Goto
<1> SUFFICES ASSUME Live', command'.valid
             PROVE  Course'
  BY DEF Course
<1>1. Live /\ command.valid /\ UNCHANGED <<host, tag, command, carried>>
  BY DEF Task, Bus, Live
<1> QED
  BY <1>1 DEF Task, Course, NoStall, OutAllowed, Empty, Untouched, Answered, Wrapper

(* ReadHeader keeps the course of a command.                               *)
LEMMA ReadHeaderCourse ==
  ASSUME Friendly, Typed, Safe, ~lost, ReadHeader PROVE Course'
<1> USE DEF Safe, Typed, device, hostVars, busVars, Goto
<1> SUFFICES ASSUME Live', command'.valid
             PROVE  Course'
  BY DEF Course
<1>1. Live /\ command.valid /\ UNCHANGED <<host, tag, command, carried>>
  BY DEF ReadHeader, Bus, Live
<1> QED BY <1>1 DEF ReadHeader, Course, NoStall, Untouched, Held

(* ReadPartOfHeader keeps the course of a command.                         *)
LEMMA ReadPartOfHeaderCourse ==
  ASSUME Friendly, Typed, Safe, ~lost, ReadPartOfHeader PROVE Course'
<1> USE DEF Safe, Typed, device, hostVars, busVars, Goto
<1> SUFFICES ASSUME Live', command'.valid
             PROVE  Course'
  BY DEF Course
<1>1. Live /\ command.valid /\ UNCHANGED <<host, tag, command, carried>>
  BY DEF ReadPartOfHeader, Bus, Live
<1> QED BY <1>1 DEF ReadPartOfHeader, Course, Wrapper, Header

(* ReadNothing keeps the course of a command.                              *)
LEMMA ReadNothingCourse ==
  ASSUME Friendly, Typed, Safe, ~lost, ReadNothing PROVE Course'
<1> USE DEF Safe, Typed, device, hostVars, busVars, Goto
<1> SUFFICES ASSUME Live', command'.valid
             PROVE  Course'
  BY DEF Course
<1>1. Live /\ command.valid /\ UNCHANGED <<host, tag, command, carried>>
  BY DEF ReadNothing, Bus, Live
<1> QED BY <1>1 DEF ReadNothing, Course

(* Validate keeps the course of a command.                                 *)
LEMMA ValidateCourse ==
  ASSUME Friendly, Typed, Safe, ~lost, Validate PROVE Course'
<1> USE DEF Safe, Typed, device, hostVars, busVars, Goto
<1> SUFFICES ASSUME Live', command'.valid
             PROVE  Course'
  BY DEF Course
<1>1. Live /\ command.valid /\ UNCHANGED <<host, tag, command, carried>>
  BY DEF Validate, Bus, Live
<1> QED BY <1>1 DEF Validate, Course, NoStall, Held, Untouched

(* RefuseWrapper keeps the course of a command.                            *)
LEMMA RefuseWrapperCourse ==
  ASSUME Friendly, Typed, Safe, ~lost, RefuseWrapper PROVE Course'
<1> USE DEF Safe, Typed, device, hostVars, busVars, Goto
<1> SUFFICES ASSUME Live', command'.valid
             PROVE  Course'
  BY DEF Course
<1>1. Live /\ command.valid /\ UNCHANGED <<host, tag, command, carried>>
  BY DEF RefuseWrapper, Bus, Live
<1> QED BY <1>1 DEF RefuseWrapper, Course

(* ReadBody keeps the course of a command.                                 *)
LEMMA ReadBodyCourse ==
  ASSUME Friendly, Typed, Safe, ~lost, ReadBody PROVE Course'
<1> USE DEF Safe, Typed, device, hostVars, busVars, Goto
<1> SUFFICES ASSUME Live', command'.valid
             PROVE  Course'
  BY DEF Course
<1>1. Live /\ command.valid /\ UNCHANGED <<host, tag, command, carried>>
  BY DEF ReadBody, Bus, Live
<1> QED BY <1>1 DEF ReadBody, Course, NoStall, Held, Untouched

(* ClearOUT keeps the course of a command.                                 *)
LEMMA ClearOUTCourse ==
  ASSUME Friendly, Typed, Safe, ~lost, ClearOUT PROVE Course'
<1> USE DEF Safe, Typed, device, hostVars, busVars, Goto
<1> SUFFICES ASSUME Live', command'.valid
             PROVE  Course'
  BY DEF Course
<1>1. Live /\ command.valid /\ UNCHANGED <<host, tag, command, carried>>
  BY DEF ClearOUT, Bus, Live
<1>2. Held /\ Untouched BY <1>1 DEF ClearOUT, Course
<1>3. command.length \in Nat BY <1>1, Asked
<1>4. Held' /\ Untouched' /\ out' = Empty /\ pc' = "dispatch"
  BY <1>2 DEF ClearOUT, Held, Untouched, NoStall
<1>5. in' = Fresh /\ NoStall' BY <1>4 DEF Untouched
<1>6. carried' = 0 /\ 0 % EndpointSize = 0
  BY <1>4, CommandAssumption DEF Untouched, CommandAssumption
<1>7. Received(0)' BY <1>1, <1>2, <1>3, <1>4 DEF Received, Untouched, HostStep, Empty
<1> QED BY <1>4, <1>5, <1>6, <1>7 DEF Course

(* Stream keeps the course of a command.                                   *)
LEMMA StreamCourse ==
  ASSUME Friendly, Typed, Safe, ~lost, Stream PROVE Course'
<1> USE DEF Safe, Typed, device, hostVars, busVars, Goto
<1> SUFFICES ASSUME Live', command'.valid
             PROVE  Course'
  BY DEF Course
<1>1. Live /\ command.valid /\ UNCHANGED <<host, tag, command, carried>>
  BY DEF Stream, Bus, Live
<1>2. Streaming BY <1>1 DEF Stream, Streams, Course
<1> DEFINE n == IF left < EndpointSize - in.bytes THEN left ELSE EndpointSize - in.bytes
<1>3. /\ in' = [Write(n) EXCEPT !.sent = left > n]
      /\ moved' = IF pc = "pad" THEN moved ELSE moved + n
      /\ IF left = n THEN NextStream ELSE left' = left - n /\ UNCHANGED <<pc, padding>>
      /\ pc \in {"half", "stream", "pad"} /\ in.sent = FALSE
      /\ UNCHANGED <<amount, block, senseKey, out, stalled>>
  BY Fields DEF Stream, Streams
<1>4. /\ left \in Nat /\ amount \in Nat /\ padding \in Nat /\ moved \in Nat /\ carried \in Nat
      /\ in.bytes \in Nat /\ in.bytes <= EndpointSize /\ EndpointSize \in Nat /\ EndpointSize > 0
  BY Fields, CommandAssumption DEF CommandAssumption, Device, HostSide
<1>5. /\ n \in Nat /\ n <= left /\ in.bytes + n <= EndpointSize
      /\ n # left => in.bytes + n = EndpointSize /\ left > n
  BY <1>4
<1> HIDE DEF n
<1>6. /\ Write(n) \in InBanks /\ Write(n).bytes = in.bytes + n /\ Write(n).csw = NoStatus
      /\ Write(n).tags = {tag}
  <2>1. in.csw = NoStatus /\ in.tags \in {{}, {tag}} /\ block.tag = tag
    BY <1>2 DEF Streaming, Filling, Held
  <2>2. in.tags \cup {block.tag} = {tag} BY <2>1
  <2> QED BY <1>5, <2>1, <2>2, WriteOf
<1>7. /\ in'.bytes = in.bytes + n /\ in'.csw = NoStatus /\ in'.tags = {tag'}
      /\ in'.sent = (left > n)
  <2>1. (left > n) \in BOOLEAN OBVIOUS
  <2> QED BY <1>1, <1>3, <1>6, <2>1, InOf
<1>8. /\ Held' /\ NoStall' /\ senseKey' = "good" /\ out' = Empty /\ host' = "data"
      /\ command'.op \in DOMAIN Response /\ amount' = Relevant(command')
      /\ Total' = Total
  BY <1>1, <1>2, <1>3 DEF Streaming, NoStall, Held, Total
<1>9. CASE n # left
  <2>1. left' = left - n /\ left' > 0 /\ UNCHANGED <<pc, padding>> /\ in'.bytes = EndpointSize
    BY <1>3, <1>4, <1>5, <1>7, <1>9
  <2>2. Filling' BY <1>4, <1>7, <2>1 DEF Filling
  <2>3. Streaming' BY <1>8, <2>2 DEF Streaming
  <2>4. CASE pc = "half"
    <3>1. Halved BY <1>1, <2>4 DEF Course
    <3>2. moved' = moved + n BY <1>3, <2>4
    <3>3. Halved' BY <1>1, <1>3, <1>4, <1>5, <1>7, <2>1, <3>1, <3>2 DEF Halved, Half
    <3> QED BY <2>1, <2>3, <2>4, <3>3 DEF Course
  <2>5. CASE pc = "stream"
    <3>1. Relayed BY <1>1, <2>5 DEF Course
    <3>2. moved' = moved + n BY <1>3, <2>5
    <3>3. Relayed' BY <1>1, <1>3, <1>4, <1>5, <1>7, <1>8, <2>1, <3>1, <3>2 DEF Relayed
    <3> QED BY <2>1, <2>3, <2>5, <3>3 DEF Course
  <2>6. CASE pc = "pad"
    <3>1. Padded BY <1>1, <2>6 DEF Course
    <3>2. moved' = moved BY <1>3, <2>6
    <3>4. /\ moved = amount /\ carried + in.bytes + left = Total
          /\ carried + in.bytes >= amount
      BY <3>1 DEF Padded
    <3>5. /\ carried' = carried /\ moved' = moved /\ amount' = amount /\ Total' = Total
          /\ in'.bytes = in.bytes + n /\ left' = left - n
      BY <1>1, <1>3, <1>7, <1>8, <2>1, <3>2
    <3>6. /\ moved' = amount' /\ carried' + in'.bytes + left' = Total'
          /\ carried' + in'.bytes >= amount'
      BY ONLY <3>4, <3>5, <1>4, <1>5
    <3>3. Padded' BY <3>6 DEF Padded
    <3> QED BY <2>1, <2>3, <2>6, <3>3 DEF Course
  <2> QED BY <1>3, <2>4, <2>5, <2>6
<1>10. CASE n = left
  <2>1. in'.sent = FALSE /\ in'.bytes > 0
    <3>1. in.bytes > 0 \/ left > 0 BY <1>2 DEF Streaming, Filling
    <3>2. in'.bytes > 0 BY ONLY <1>4, <1>5, <1>7, <1>10, <3>1
    <3>3. ~(left > n) BY ONLY <1>4, <1>5, <1>10
    <3>4. (left > n) = FALSE BY ONLY <3>3
    <3>5. in'.sent = (left > n) BY <1>7
    <3>6. in'.sent = FALSE BY <3>4, <3>5
    <3> QED BY <3>2, <3>6
  <2>2. Filling' BY <1>7, <2>1 DEF Filling
  <2>3. Streaming' BY <1>8, <2>2 DEF Streaming
  <2>a. NextStream BY <1>3, <1>10
  <2>b. Relevant(command) = amount /\ (command.op = "capacity" => Relevant(command) = Total)
    BY <1>1, <1>2, Sums DEF Streaming
  <2>4. CASE pc = "half"
    <3>1. Halved BY <1>1, <2>4 DEF Course
    <3>2. moved' = moved + n /\ pc' = "stream" /\ left' = Half /\ padding' = padding
      BY <1>3, <2>4, <2>a DEF NextStream
    <3>3. Relayed'
      BY <1>1, <1>3, <1>4, <1>5, <1>7, <1>8, <1>10, <2>b, <3>1, <3>2 DEF Halved, Relayed, Half
    <3> QED BY <2>3, <3>2, <3>3 DEF Course
  <2>5. CASE pc = "stream"
    <3>1. Relayed BY <1>1, <2>5 DEF Course
    <3>2. moved' = moved + n /\ pc' = "pad" /\ left' = padding
      BY <1>3, <2>5, <2>a DEF NextStream
    <3>3. Padded'
      BY <1>1, <1>3, <1>4, <1>5, <1>7, <1>8, <1>10, <3>1, <3>2 DEF Relayed, Padded
    <3> QED BY <2>3, <3>2, <3>3 DEF Course
  <2>6. CASE pc = "pad"
    <3>1. Padded BY <1>1, <2>6 DEF Course
    <3>2. moved' = moved /\ pc' = "finish" /\ left' = 0 BY <1>3, <2>6, <2>a DEF NextStream
    <3>4. /\ moved = amount /\ carried + in.bytes + left = Total
          /\ carried + in.bytes >= amount
      BY <3>1 DEF Padded
    <3>5. /\ carried' = carried /\ moved' = moved /\ amount' = amount /\ Total' = Total
          /\ in'.bytes = in.bytes + n /\ left' = left - n
      BY <1>1, <1>3, <1>4, <1>7, <1>8, <1>10, <3>2
    <3>6. /\ moved' = amount' /\ carried' + in'.bytes + left' = Total'
          /\ carried' + in'.bytes >= amount'
      BY ONLY <3>4, <3>5, <1>4, <1>5
    <3>3. Padded' BY <3>6 DEF Padded
    <3> QED BY <2>3, <3>2, <3>3 DEF Course
  <2> QED BY <1>3, <2>4, <2>5, <2>6
<1> QED BY <1>9, <1>10

(* A wait that fails for a command that is live makes the driver late.     *)
LEMMA FailsLate ==
  ASSUME Friendly, Typed, Safe, ~lost, StreamFails \/ TransferFails \/ StatusFails
  PROVE  ~Live'
<1> USE DEF Safe, Typed, device, hostVars, busVars, Goto
<1> SUFFICES ASSUME Live' PROVE FALSE
  OBVIOUS
<1>1. Live /\ UNCHANGED <<host, stale>> /\ ready
  BY DEF StreamFails, TransferFails, StatusFails, GiveUpOn, Bus, Live
<1>a. command.valid BY <1>1 DEF StreamFails, TransferFails, StatusFails, Streams, Refusing
<1>2. ASSUME NEW d \in Directions, GiveUpOn(d) PROVE ~Serves(d)
  BY <1>1, <1>2 DEF GiveUpOn, Live
<1>3. CASE StreamFails
  <2>1. Streaming /\ command.direction = "in"
    BY <1>1, <1>a, <1>3, Asked DEF StreamFails, Streams, Course, Streaming
  <2>2. Serves("in") BY <1>1, <2>1 DEF Serves, Streaming, NoStall, Directions
  <2> QED BY <1>2, <1>3, <2>2 DEF StreamFails, Directions
<1>4. CASE TransferFails /\ pc = "read"
  <2>1. NoStall /\ command.direction = "in"
    BY <1>1, <1>a, <1>4, Asked DEF Course, ReadingBlocks
  <2>2. Serves("in") BY <1>1, <2>1 DEF Serves, Live, NoStall, Directions
  <2> QED BY <1>2, <1>4, <2>2 DEF TransferFails, Directions
<1>5. CASE TransferFails /\ pc = "write"
  <2>1. WritingBlocks /\ left > 0 /\ out.kind = "none"
    BY <1>1, <1>a, <1>5 DEF TransferFails, OutFails, Course
  <2>2. ~stalled["out"] BY <2>1 DEF WritingBlocks, NoStall, Directions
  <2>3. out.bytes = 0 BY <2>1 DEF WritingBlocks, Received, Empty
  <2>4. command.direction = "out" /\ command.length \in Nat
    BY <1>1, <2>1, Asked DEF WritingBlocks
  <2>5. carried < command.length
    BY <2>1, <2>3, <2>4 DEF WritingBlocks, Received, Device, HostSide
  <2>6. Serves("out")
    BY <1>1, <2>1, <2>2, <2>4, <2>5 DEF Serves, WritingBlocks, Received, HostStep
  <2> QED BY <1>2, <1>5, <2>6 DEF TransferFails, Directions
<1>6. CASE StatusFails
  <2>1. Ready /\ NoStall BY <1>1, <1>a, <1>6 DEF StatusFails, Course
  <2>2. Waiting BY <1>1, <1>6, <2>1, Literals DEF StatusFails, InFails, Ready
  <2>3. Serves("in") BY <1>1, <2>1, <2>2 DEF Waiting, Serves, NoStall, Directions
  <2> QED BY <1>2, <1>6, <2>3 DEF StatusFails, Directions
<1> QED BY <1>3, <1>4, <1>5, <1>6 DEF TransferFails

(* StreamFails keeps the course of a command.                              *)
LEMMA StreamFailsCourse ==
  ASSUME Friendly, Typed, Safe, ~lost, StreamFails PROVE Course'
BY FailsLate DEF Course

(* Finish keeps the course of a command.                                   *)
LEMMA FinishCourse ==
  ASSUME Friendly, Typed, Safe, ~lost, Finish PROVE Course'
<1> USE DEF Safe, Typed, device, hostVars, busVars, Goto
<1> SUFFICES ASSUME Live', command'.valid
             PROVE  Course'
  BY DEF Course
<1>1. Live /\ command.valid /\ UNCHANGED <<host, tag, command, carried>>
  BY DEF Finish, Bus, Live
<1>2. Streaming /\ Padded /\ left = 0 /\ ready BY <1>1 DEF Finish, Course, Bus, Live
<1>3. in.sent = FALSE /\ in.bytes > 0 /\ in.csw = NoStatus /\ in.tags = {tag}
      /\ block.tag = tag
  BY <1>2, Fields DEF Streaming, Filling, Held
<1>4. in' = [Write(0) EXCEPT !.sent = TRUE] /\ pc' = "account"
      /\ UNCHANGED <<amount, block, moved, senseKey, out, stalled>>
  BY <1>2, <1>3 DEF Finish
<1>5. /\ in'.sent /\ in'.bytes = in.bytes /\ in'.csw = NoStatus /\ in'.tags = {tag'}
  <2>1. Write(0) \in InBanks /\ Write(0).bytes = in.bytes /\ Write(0).csw = in.csw
        /\ Write(0).tags = {tag}
    BY <1>3, WriteOf, Fields
  <2> QED BY <1>1, <1>3, <1>4, <2>1, InOf
<1>6. /\ command.direction = "in" /\ command.length \in Nat /\ amount \in Nat
      /\ amount <= command.length
      /\ in.bytes < EndpointSize \/ carried + in.bytes >= command.length
  <2>1. /\ command.direction = "in" /\ command.length \in Nat /\ amount \in Nat
        /\ amount <= command.length /\ Total \in Nat
        /\ command.op = "capacity" => Total = 8
        /\ command.op # "capacity" => Total = command.length
    BY <1>1, <1>2, Sums DEF Streaming
  <2>2. carried + in.bytes = Total /\ carried \in Nat /\ in.bytes \in Nat
    BY <1>2, Fields DEF Padded, HostSide
  <2> QED BY <2>1, <2>2, CommandAssumption DEF CommandAssumption
<1>7. Waiting' BY <1>1, <1>2, <1>5, <1>6 DEF Waiting, Streaming
<1>8. Owned' /\ block'.length = command'.length
  BY <1>1, <1>2, <1>4 DEF Owned, Held, Streaming
<1>9. NoStall' /\ senseKey' = "good" /\ out' = Empty /\ moved' = amount'
      /\ amount' <= command'.length
  BY <1>1, <1>2, <1>4, <1>6 DEF Streaming, Padded, NoStall
<1>10. Accounting' BY <1>7, <1>8, <1>9 DEF Accounting
<1> QED BY <1>4, <1>10 DEF Course

(* ReadChunk keeps the course of a command.                                *)
LEMMA ReadChunkCourse ==
  ASSUME Friendly, Typed, Safe, ~lost, ReadChunk PROVE Course'
<1> USE DEF Safe, Typed, device, hostVars, busVars, Goto
<1> SUFFICES ASSUME Live', command'.valid
             PROVE  Course'
  BY DEF Course
<1>1. Live /\ command.valid /\ UNCHANGED <<host, tag, command, carried>>
  BY DEF ReadChunk, Bus, Live
<1>2. ReadingBlocks BY <1>1 DEF ReadChunk, Course
<1>3. /\ in.bytes + Chunk <= EndpointSize /\ ~in.sent /\ left \in Nat /\ moved \in Nat
  <2>1. in.bytes % Chunk = 0 /\ in.bytes < EndpointSize /\ ~in.sent
    BY DEF ReadChunk, InAllowed, Chunked, Streams
  <2> QED BY <2>1, Fields, CommandAssumption DEF Chunk, Device, CommandAssumption
<1>4. ~massReset BY <1>1 DEF Bus, Live
<1>5. /\ in' = Write(Chunk) /\ left' = left - Chunk /\ moved' = moved + Chunk /\ pc' = "read"
      /\ UNCHANGED <<amount, block, senseKey, out, stalled>>
  BY <1>4 DEF ReadChunk
<1>6. /\ in'.bytes = in.bytes + Chunk /\ in'.sent = in.sent /\ in'.csw = in.csw
      /\ in'.tags = in.tags \cup {block.tag}
  BY <1>3, <1>5, WriteOf DEF Chunk
<1>7. in.csw = NoStatus /\ (in.tags = {} \/ in.tags = {tag})
  BY <1>2 DEF ReadingBlocks, Fresh
<1>8. block.tag = tag BY <1>2 DEF ReadingBlocks, Held
<1>9. ~in'.sent /\ in'.csw = NoStatus /\ in'.tags = {tag'} /\ in'.bytes > 0
  <2>1. ~in'.sent /\ in'.csw = NoStatus BY <1>3, <1>6, <1>7
  <2>2. in'.tags = {tag'} BY <1>1, <1>6, <1>7, <1>8
  <2>3. in'.bytes > 0 BY <1>6, Fields DEF Chunk
  <2> QED BY <2>1, <2>2, <2>3
<1>10. /\ moved' + left' = amount' /\ carried' + in'.bytes = moved'
  BY <1>1, <1>2, <1>3, <1>5, <1>6, Fields DEF ReadingBlocks, Chunk, HostSide
<1>11. /\ Held' /\ NoStall' /\ senseKey' = "good" /\ out' = Empty /\ command'.op = "read"
       /\ amount' = command'.length
       /\ carried' % EndpointSize = 0 /\ HostStep'
  BY <1>1, <1>2, <1>5 DEF ReadingBlocks, Held, NoStall, HostStep
<1>12. ReadingBlocks' BY <1>9, <1>10, <1>11 DEF ReadingBlocks
<1> QED BY <1>5, <1>12 DEF Course

(* ReadBankFull keeps the course of a command.                             *)
LEMMA ReadBankFullCourse ==
  ASSUME Friendly, Typed, Safe, ~lost, ReadBankFull PROVE Course'
<1> USE DEF Safe, Typed, device, hostVars, busVars, Goto
<1> SUFFICES ASSUME Live', command'.valid
             PROVE  Course'
  BY DEF Course
<1>1. Live /\ command.valid /\ UNCHANGED <<host, tag, command, carried>>
  BY DEF ReadBankFull, Bus, Live
<1>2. ReadingBlocks BY <1>1 DEF ReadBankFull, Course
<1>3. /\ in' = [in EXCEPT !.sent = TRUE] /\ pc' = "read" /\ in.bytes = EndpointSize
      /\ UNCHANGED <<left, amount, block, moved, senseKey, out, stalled>>
  BY DEF ReadBankFull
<1>4. in'.sent /\ in'.bytes = EndpointSize /\ in'.csw = in.csw /\ in'.tags = in.tags
  BY <1>3, InOf DEF Device
<1>5. in.bytes > 0 /\ in # Fresh
  BY <1>3, CommandAssumption, Literals DEF CommandAssumption
<1>6. in'.csw = NoStatus /\ in'.tags = {tag'} /\ in'.bytes > 0
  BY <1>1, <1>2, <1>3, <1>4, <1>5 DEF ReadingBlocks
<1>7. moved' + left' = amount' /\ carried' + in'.bytes = moved'
  BY <1>1, <1>2, <1>3, <1>4 DEF ReadingBlocks
<1>8. /\ Held' /\ NoStall' /\ senseKey' = "good" /\ out' = Empty /\ command'.op = "read"
      /\ amount' = command'.length
      /\ carried' % EndpointSize = 0 /\ HostStep'
  BY <1>1, <1>2, <1>3 DEF ReadingBlocks, Held, NoStall, HostStep
<1>9. ReadingBlocks' BY <1>4, <1>6, <1>7, <1>8 DEF ReadingBlocks
<1> QED BY <1>3, <1>9 DEF Course

(* ReadEnd keeps the course of a command.                                  *)
LEMMA ReadEndCourse ==
  ASSUME Friendly, Typed, Safe, ~lost, ReadEnd PROVE Course'
<1> USE DEF Safe, Typed, device, hostVars, busVars, Goto
<1> SUFFICES ASSUME Live', command'.valid
             PROVE  Course'
  BY DEF Course
<1>1. Live /\ command.valid /\ UNCHANGED <<host, tag, command, carried>>
  BY DEF ReadEnd, Bus, Live
<1>2. ReadingBlocks BY <1>1 DEF ReadEnd, Course
<1>3. /\ command.length \in Nat /\ command.length % EndpointSize = 0 /\ command.direction = "in"
  BY <1>1, <1>2, Asked DEF ReadingBlocks
<1>4. /\ carried + in.bytes = command.length /\ moved = amount /\ amount = command.length
      /\ carried % EndpointSize = 0
  BY <1>2 DEF ReadEnd, ReadingBlocks, Device
<1>5. in.bytes = 0 \/ in.bytes = EndpointSize
  <2>1. carried \in Nat /\ in.bytes \in Nat /\ in.bytes <= EndpointSize
    BY Fields DEF HostSide
  <2>2. CASE EndpointSize = 32 BY <2>1, <2>2, <1>3, <1>4
  <2>3. CASE EndpointSize = 64 BY <2>1, <2>3, <1>3, <1>4
  <2> QED BY <2>2, <2>3, CommandAssumption DEF CommandAssumption
<1>6. /\ in' = [in EXCEPT !.sent = (in.sent \/ in.bytes = EndpointSize)] /\ pc' = "account"
      /\ UNCHANGED <<left, amount, block, moved, senseKey, out, stalled>>
  BY DEF ReadEnd
<1>7. /\ Owned' /\ block'.length = command'.length /\ NoStall' /\ senseKey' = "good"
      /\ out' = Empty
      /\ moved' = amount' /\ amount' <= command'.length
  BY <1>1, <1>2, <1>3, <1>4, <1>6 DEF ReadingBlocks, Held, Owned, NoStall
<1>8. CASE in.bytes = 0
  <2>1. in = Fresh BY <1>2, <1>8 DEF ReadingBlocks
  <2>2. in' = Fresh
    <3>1. in.bytes # EndpointSize BY <1>8, CommandAssumption DEF CommandAssumption
    <3>2. (in.sent \/ in.bytes = EndpointSize) = FALSE BY <2>1, <3>1, Literals
    <3>3. in' = [Fresh EXCEPT !.sent = FALSE] BY <2>1, <3>2, <1>6
    <3> QED BY <3>3 DEF Fresh
  <2>3. host' = "status"
    <3>1. ~(carried < command.length) BY <1>4, <1>8, <1>3 DEF HostSide
    <3>2. host # "data" BY <1>2, <3>1 DEF ReadingBlocks, HostStep
    <3> QED BY <3>2, <1>1 DEF Live
  <2>4. Accounting' BY <1>7, <2>2, <2>3 DEF Accounting
  <2> QED BY <1>6, <2>4 DEF Course
<1>9. CASE in.bytes = EndpointSize
  <2>1. in # Fresh BY <1>9, Literals, CommandAssumption DEF CommandAssumption
  <2>2. in.csw = NoStatus /\ in.tags = {tag} BY <1>2, <2>1 DEF ReadingBlocks
  <2>3. in' = [in EXCEPT !.sent = TRUE] BY <1>6, <1>9
  <2>4. in'.sent /\ in'.bytes = in.bytes /\ in'.csw = NoStatus /\ in'.tags = {tag'}
    BY <1>1, <2>2, <2>3, InOf DEF Device
  <2>5. host' = "data"
    <3>1. carried < command.length
      BY <1>3, <1>4, <1>9, CommandAssumption DEF HostSide, CommandAssumption
    <3> QED BY <3>1, <1>1, <1>2 DEF ReadingBlocks, HostStep
  <2>6. carried' + in'.bytes >= command'.length BY <1>1, <1>3, <1>4, <2>4
  <2>7. Waiting' BY <1>1, <1>3, <2>4, <2>5, <2>6 DEF Waiting
  <2>8. Accounting' BY <1>7, <2>7 DEF Accounting
  <2> QED BY <1>6, <2>8 DEF Course
<1> QED BY <1>5, <1>8, <1>9

(* WriteChunk keeps the course of a command.                               *)
LEMMA WriteChunkCourse ==
  ASSUME Friendly, Typed, Safe, ~lost, WriteChunk PROVE Course'
<1> USE DEF Safe, Typed, device, hostVars, busVars, Goto
<1> SUFFICES ASSUME Live', command'.valid
             PROVE  Course'
  BY DEF Course
<1>1. Live /\ command.valid /\ UNCHANGED <<host, tag, command, carried>>
  BY DEF WriteChunk, Bus, Live
<1>2. WritingBlocks BY <1>1 DEF WriteChunk, Course
<1>3. ~massReset BY <1>1 DEF Bus, Live
<1>4. out.bytes > 0 /\ out.bytes % Chunk = 0
  BY <1>2 DEF WriteChunk, OutAllowed, WritingBlocks
<1>5. out.bytes >= Chunk /\ (out.bytes - Chunk) % Chunk = 0 /\ out.bytes - Chunk \in Nat
  BY <1>4, Fields DEF Chunk
<1>6. /\ out' = [out EXCEPT !.bytes = out.bytes - Chunk] /\ left' = left - Chunk
      /\ moved' = moved + Chunk /\ pc' = "write"
      /\ UNCHANGED <<amount, block, senseKey, in, stalled>>
  BY <1>3, <1>5, Fields DEF WriteChunk, Chunk
<1>7. out'.bytes = out.bytes - Chunk /\ out'.kind = out.kind
  BY <1>6 DEF Device, OutBanks
<1>8. out'.kind = "data"
  BY <1>2, <1>4, <1>7 DEF WritingBlocks, Received, Empty
<1>9. /\ moved' + left' = amount' /\ carried' = moved' + out'.bytes
  BY <1>1, <1>2, <1>6, <1>7, Fields DEF WritingBlocks, Received, Chunk, Device, HostSide
<1>10. Received(moved)'
  BY <1>1, <1>2, <1>8, <1>9 DEF WritingBlocks, Received, HostStep
<1>11. /\ Held' /\ NoStall' /\ senseKey' = "good" /\ in' = Fresh /\ command'.op = "write"
       /\ amount' = command'.length
       /\ carried' % EndpointSize = 0
  BY <1>1, <1>2, <1>6 DEF WritingBlocks, Held, NoStall
<1>12. WritingBlocks' BY <1>5, <1>7, <1>9, <1>10, <1>11 DEF WritingBlocks
<1> QED BY <1>6, <1>12 DEF Course

(* WriteBankEmpty keeps the course of a command.                           *)
LEMMA WriteBankEmptyCourse ==
  ASSUME Friendly, Typed, Safe, ~lost, WriteBankEmpty PROVE Course'
<1> USE DEF Safe, Typed, device, hostVars, busVars, Goto
<1> SUFFICES ASSUME Live', command'.valid
             PROVE  Course'
  BY DEF Course
<1>1. Live /\ command.valid /\ UNCHANGED <<host, tag, command, carried>>
  BY DEF WriteBankEmpty, Bus, Live
<1>2. WritingBlocks BY <1>1 DEF WriteBankEmpty, Course
<1>3. out.bytes = 0 BY Fields DEF WriteBankEmpty, OutAllowed
<1>4. out' = Empty /\ pc' = "write"
      /\ UNCHANGED <<left, amount, block, moved, senseKey, in, stalled>>
  BY DEF WriteBankEmpty
<1>5. out'.bytes = 0 BY <1>4 DEF Empty
<1>6. Received(moved)'
  BY <1>1, <1>2, <1>3, <1>4, <1>5 DEF WritingBlocks, Received, HostStep
<1>7. /\ Held' /\ NoStall' /\ senseKey' = "good" /\ in' = Fresh /\ command'.op = "write"
      /\ amount' = command'.length
      /\ carried' % EndpointSize = 0 /\ moved' + left' = amount'
  BY <1>1, <1>2, <1>4 DEF WritingBlocks, Held, NoStall
<1>8. WritingBlocks' BY <1>5, <1>6, <1>7 DEF WritingBlocks, Chunk
<1> QED BY <1>4, <1>8 DEF Course

(* WriteEnd keeps the course of a command.                                 *)
LEMMA WriteEndCourse ==
  ASSUME Friendly, Typed, Safe, ~lost, WriteEnd PROVE Course'
<1> USE DEF Safe, Typed, device, hostVars, busVars, Goto
<1> SUFFICES ASSUME Live', command'.valid
             PROVE  Course'
  BY DEF Course
<1>1. Live /\ command.valid /\ UNCHANGED <<host, tag, command, carried>>
  BY DEF WriteEnd, Bus, Live
<1>2. WritingBlocks BY <1>1 DEF WriteEnd, Course
<1>3. command.length \in Nat BY <1>1, Asked
<1>4. moved = amount /\ amount = command.length
  BY <1>2 DEF WriteEnd, WritingBlocks, Device
<1>5. out.bytes = 0 /\ carried = command.length
  BY <1>2, <1>3, <1>4, Fields DEF WritingBlocks, Received, HostSide
<1>6. out' = Empty /\ pc' = "account"
      /\ UNCHANGED <<left, amount, block, moved, senseKey, in, stalled>>
  BY <1>5 DEF WriteEnd, OutAllowed
<1>7. host' = "status"
  <2>1. host # "data" BY <1>2, <1>3, <1>5 DEF WritingBlocks, Received, HostStep
  <2> QED BY <2>1, <1>1 DEF Live
<1>8. Owned' /\ block'.length = command'.length
  BY <1>1, <1>2, <1>6 DEF WritingBlocks, Held, Owned
<1>9. NoStall' /\ senseKey' = "good" /\ in' = Fresh
  BY <1>2, <1>6 DEF WritingBlocks, NoStall
<1>10. moved' = amount' /\ amount' <= command'.length BY <1>1, <1>3, <1>4, <1>6
<1>11. Accounting' BY <1>6, <1>7, <1>8, <1>9, <1>10 DEF Accounting
<1> QED BY <1>6, <1>11 DEF Course

(* TransferFails keeps the course of a command.                            *)
LEMMA TransferFailsCourse ==
  ASSUME Friendly, Typed, Safe, ~lost, TransferFails PROVE Course'
BY FailsLate DEF Course

(* FillStatus keeps the course of a command.                               *)
LEMMA FillStatusCourse ==
  ASSUME Friendly, Typed, Safe, ~lost, FillStatus PROVE Course'
<1> USE DEF Safe, Typed, device, hostVars, busVars, Goto
<1> SUFFICES ASSUME Live', command'.valid
             PROVE  Course'
  BY DEF Course
<1>1. Live /\ command.valid /\ UNCHANGED <<host, tag, command, carried>>
  BY DEF FillStatus, Bus, Live
<1>2. StatusDue BY <1>1 DEF FillStatus, Course
<1>3. /\ csw' = [tag |-> block.tag, status |-> IF senseKey = "good" THEN "pass" ELSE "fail",
                  residue |-> block.length]
      /\ pc' = "waitout" /\ UNCHANGED <<block, moved, in, out>>
      /\ stalled' = [stalled EXCEPT ![block.command.direction] = @ \/ Failed]
  BY DEF FillStatus, Failed
<1>4. Filled' BY <1>1, <1>2, <1>3 DEF Filled, StatusDue, Due, Owned
<1>5. block.command.direction = command.direction /\ command.direction \in Directions
  BY <1>2, CommandFields DEF StatusDue, Due, Owned, HostSide
<1>6. /\ stalled'[command.direction] <=> Failed
      /\ \A d \in Directions : stalled'[d] => d = command.direction
  BY <1>2, <1>3, <1>5 DEF StatusDue, NoStall, Directions
<1>7. \A d \in Directions : stalled'[d] => d = command'.direction
  BY <1>1, <1>6
<1>8. CASE Failed
  <2>1. stalled'[command'.direction] BY <1>1, <1>6, <1>8
  <2>2. CASE in = Fresh /\ (out = Empty \/ command.direction = "out")
    <3>1. Halting' BY <1>1, <1>3, <1>4, <1>7, <2>1, <2>2 DEF Halting
    <3> QED BY <1>3, <3>1 DEF Course
  <2>3. CASE senseKey = "good"
    BY <1>8, <2>3 DEF Failed
  <2> QED BY <1>2, <2>2, <2>3 DEF StatusDue
<1>9. CASE ~Failed
  <2>1. stalled' = [d \in Directions |-> FALSE]
    BY <1>2, <1>3, <1>5, <1>9 DEF StatusDue, NoStall
  <2>2. Ready' BY <1>1, <1>2, <1>3, <1>9 DEF StatusDue, Ready, Waiting
  <2>3. Halting' BY <1>4, <1>7, <2>1, <2>2 DEF Halting, NoStall
  <2> QED BY <1>3, <2>3 DEF Course
<1> QED BY <1>8, <1>9

(* WriteStatus keeps the course of a command.                              *)
LEMMA WriteStatusCourse ==
  ASSUME Friendly, Typed, Safe, ~lost, WriteStatus PROVE Course'
<1> USE DEF Safe, Typed, device, hostVars, busVars, Goto
<1> SUFFICES ASSUME Live', command'.valid
             PROVE  Course'
  BY DEF Course
<1>1. Live /\ command.valid /\ UNCHANGED <<host, tag, command, carried>>
  BY DEF WriteStatus, Bus, Live
<1>2. Filled /\ Ready /\ NoStall BY <1>1 DEF WriteStatus, Course
<1>3. in = Fresh /\ host = "status" /\ out = Empty
  BY <1>2 DEF WriteStatus, InAllowed, Ready, Waiting
<1>4. /\ in' = [Write(Status) EXCEPT !.csw = csw] /\ pc' = "clearin"
      /\ UNCHANGED <<block, csw, moved, out, stalled>>
  BY DEF WriteStatus
<1>5. in.bytes = 0 /\ in.tags = {} /\ in.sent = FALSE BY <1>3 DEF Fresh
<1>6. block.tag = tag BY <1>2 DEF Filled, Due, Owned
<1>7. /\ Write(Status) \in InBanks /\ Write(Status).bytes = Status
      /\ Write(Status).tags = {tag} /\ Write(Status).sent = FALSE
  <2>1. Status \in Nat /\ in.bytes + Status <= EndpointSize /\ in.bytes + Status = Status
    BY <1>5, CommandAssumption DEF Status, CommandAssumption
  <2> QED BY <1>5, <1>6, <2>1, WriteOf
<1>8. in' = [bytes |-> Status, tags |-> {tag}, csw |-> csw, sent |-> FALSE]
  BY <1>4, <1>7 DEF InBanks
<1>9. in' = [bytes |-> Status, tags |-> {tag'}, csw |-> csw', sent |-> FALSE]
  BY <1>1, <1>4, <1>8
<1>10. Filled' /\ NoStall' BY <1>1, <1>2, <1>4 DEF Filled, Due, Owned, NoStall
<1> QED BY <1>1, <1>3, <1>4, <1>9, <1>10 DEF Course

(* FlushBeforeStatus keeps the course of a command.                        *)
LEMMA FlushBeforeStatusCourse ==
  ASSUME Friendly, Typed, Safe, ~lost, FlushBeforeStatus PROVE Course'
<1> USE DEF Safe, Typed, device, hostVars, busVars, Goto
<1> SUFFICES ASSUME Live', command'.valid
             PROVE  Course'
  BY DEF Course
<1>1. Live /\ command.valid /\ UNCHANGED <<host, tag, command, carried>>
  BY DEF FlushBeforeStatus, Bus, Live
<1>2. Ready BY <1>1 DEF FlushBeforeStatus, Course
<1>3. in = Fresh BY <1>2 DEF FlushBeforeStatus, Ready, Waiting
<1>4. in.bytes = 0 /\ in.bytes = EndpointSize BY <1>3, Literals DEF FlushBeforeStatus
<1> QED BY <1>4, CommandAssumption DEF CommandAssumption

(* StatusFails keeps the course of a command.                              *)
LEMMA StatusFailsCourse ==
  ASSUME Friendly, Typed, Safe, ~lost, StatusFails PROVE Course'
BY FailsLate DEF Course

(* ClearIN keeps the course of a command.                                  *)
LEMMA ClearINCourse ==
  ASSUME Friendly, Typed, Safe, ~lost, ClearIN PROVE Course'
<1> USE DEF Safe, Typed, device, hostVars, busVars, Goto
<1> SUFFICES ASSUME Live', command'.valid
             PROVE  Course'
  BY DEF Course
<1>1. Live /\ command.valid /\ UNCHANGED <<host, tag, command, carried>>
  BY DEF ClearIN, Bus, Live
<1> QED BY <1>1 DEF ClearIN, Course, NoStall, Filled, Due, Answered

(* ResetFIFOs keeps the course of a command.                               *)
LEMMA ResetFIFOsCourse ==
  ASSUME Friendly, Typed, Safe, ~lost, ResetFIFOs PROVE Course'
<1> USE DEF Safe, Typed, device, hostVars, busVars, Goto
<1> SUFFICES ASSUME Live', command'.valid
             PROVE  Course'
  BY DEF Course
<1>1. Live /\ command.valid /\ UNCHANGED <<host, tag, command, carried>>
  BY DEF ResetFIFOs, Bus, Live
<1> QED BY <1>1 DEF ResetFIFOs, Bus, Course, NoStall, Answered

(* EndReset keeps the course of a command.                                 *)
LEMMA EndResetCourse ==
  ASSUME Friendly, Typed, Safe, ~lost, EndReset PROVE Course'
<1> USE DEF Safe, Typed, device, hostVars, busVars, Goto
<1> SUFFICES ASSUME Live', command'.valid
             PROVE  Course'
  BY DEF Course
<1>1. Live /\ command.valid /\ UNCHANGED <<host, tag, command, carried>>
  BY DEF EndReset, Bus, Live
<1> QED BY <1>1 DEF EndReset, Course

(* Dispatch keeps the course of a command.                                 *)
LEMMA DispatchCourse ==
  ASSUME Friendly, Typed, Safe, Dispatch PROVE Course'
<1> USE DEF Safe, Typed, device, hostVars, busVars, Goto
<1> SUFFICES ASSUME Live', command'.valid
             PROVE  Course'
  BY DEF Course
<1>1. Live /\ command.valid /\ UNCHANGED <<host, tag, command, carried>>
  BY DEF Dispatch, Bus, Live
<1>2. Held BY <1>1 DEF Dispatch, Course
<1>3. block.tag = tag /\ block.command = command /\ block.length = command.length
  BY <1>2 DEF Held
<1>4. in = Fresh /\ NoStall BY <1>1 DEF Dispatch, Course, Untouched
<1>5. moved' = 0 /\ UNCHANGED <<in, out, stalled>> BY DEF Dispatch
<1>6. command.length \in Nat BY <1>1, Asked
<1>7. /\ command.direction = "in" => out = Empty /\ Untouched
      /\ command.direction # "in" =>
           /\ Received(0) /\ (out = Empty \/ out.bytes > 0) /\ command.direction = "out"
           /\ command.op = "write" => carried % EndpointSize = 0
  <2>1. command.direction \in Directions BY CommandFields DEF HostSide
  <2> QED BY <1>1, <2>1 DEF Dispatch, Course, Directions
<1>8. in' = Fresh /\ NoStall' BY <1>4, <1>5 DEF NoStall
<1>9. command.length = 0 => out = Empty /\ host = "status"
  <2>1. ASSUME command.length = 0, command.direction = "in" PROVE out = Empty /\ host = "status"
    BY <1>7, <2>1 DEF Untouched
  <2>2. ASSUME command.length = 0, command.direction # "in" PROVE out = Empty /\ host = "status"
    <3>1. Received(0) /\ (out = Empty \/ out.bytes > 0) BY <1>7, <2>2
    <3>2. carried = 0 /\ out.bytes = 0
      BY <2>2, <3>1, Fields DEF Received, HostSide
    <3>3. host # "data" BY <2>2, <3>1, <3>2 DEF Received, HostStep
    <3> QED BY <1>1, <3>1, <3>2, <3>3 DEF Live
  <2> QED BY <2>1, <2>2
<1>10. CASE (command.op = "unknown" \/ command.refused) /\ Sense("illegal") /\ UNCHANGED block
  <2>1. senseKey' = "illegal" /\ pc' = "status" /\ block' = block BY <1>10 DEF Sense
  <2>2. Due' BY <1>1, <1>3, <1>5, <1>6, <2>1 DEF Due, Owned
  <2>3. CASE command.length = 0
    <3>1. StatusDue' BY <1>1, <1>5, <1>8, <1>9, <2>2, <2>3 DEF StatusDue
    <3> QED BY <2>1, <3>1 DEF Course
  <2>4. CASE command.length # 0
    <3>1. Failed' BY <1>3, <2>1, <2>4 DEF Failed
    <3>2. out' = Empty \/ command'.direction = "out" BY <1>1, <1>5, <1>7
    <3>3. StatusDue' BY <1>8, <2>2, <3>1, <3>2 DEF StatusDue
    <3> QED BY <2>1, <3>3 DEF Course
  <2> QED BY <2>3, <2>4
<1>11. ASSUME command.op \in {"ready", "diagnostic"}, pc' = "status",
              block' = [block EXCEPT !.length = 0] \/ block' = block
       PROVE  Course'
  <2>1. command.length = 0 BY <1>1, <1>11, Asked
  <2>2. block'.tag = tag /\ block'.command = command /\ block'.length = 0
    BY <1>3, <1>11, <2>1 DEF Device, Blocks
  <2>3. Due' BY <1>1, <1>5, <2>1, <2>2 DEF Due, Owned
  <2>4. StatusDue' BY <1>1, <1>5, <1>8, <1>9, <2>1, <2>3 DEF StatusDue
  <2> QED BY <1>11, <2>4 DEF Course
<1>12. ASSUME command.op \in DOMAIN Response, senseKey' = "good", UNCHANGED block,
              amount' = Relevant(command), left' > 0, pc' \in {"half", "stream"},
              pc' = "half" => Halved', pc' = "stream" => Relayed'
       PROVE  Course'
  <2>1. command.direction = "in" /\ command.length > 0 BY <1>1, <1>12, Asked
  <2>2. host' = "data" /\ out' = Empty
    BY <1>1, <1>5, <1>6, <1>7, <2>1 DEF Untouched
  <2>3. Held' BY <1>1, <1>2, <1>12 DEF Held
  <2>4. Filling' BY <1>8, <1>12, Literals DEF Filling, Fresh
  <2>5. Streaming' BY <1>1, <1>8, <1>12, <2>2, <2>3, <2>4 DEF Streaming
  <2> QED BY <1>12, <2>5 DEF Course
<1>15. CASE /\ command.op \in {"inquiry", "sense"} /\ UNCHANGED block
            /\ Transfer(Relevant(command), Relevant(command),
                        command.length - Relevant(command), "stream")
  <2>1. /\ senseKey' = "good" /\ left' = Relevant(command) /\ amount' = Relevant(command)
        /\ padding' = command.length - Relevant(command) /\ pc' = "stream"
    BY <1>15 DEF Transfer
  <2>2. command.op \in DOMAIN Response BY <1>15 DEF Response
  <2>3. /\ Relevant(command) \in Nat /\ Relevant(command) > 0 /\ Total = command.length
        /\ command.direction = "in"
    BY <1>1, <1>15, <2>2, Sums
  <2>4. carried' = 0 /\ in'.bytes = 0 /\ Total' = Total
    BY <1>1, <1>7, <1>8, <2>3, Literals DEF Untouched, Total
  <2>5. Relayed' BY <1>5, <1>6, <2>1, <2>3, <2>4 DEF Relayed
  <2> QED BY <1>12, <1>15, <2>1, <2>2, <2>3, <2>5
<1>16. CASE /\ command.op = "capacity" /\ UNCHANGED block
            /\ Transfer(Half, Response[command.op], 0, "half")
  <2>1. /\ senseKey' = "good" /\ left' = 4 /\ amount' = 8 /\ padding' = 0 /\ pc' = "half"
    BY <1>16 DEF Transfer, Half, Response
  <2>2. command.op \in DOMAIN Response BY <1>16 DEF Response
  <2>3. Relevant(command) = 8 /\ command.direction = "in" BY <1>1, <1>16, <2>2, Sums
  <2>4. carried' = 0 /\ in'.bytes = 0 BY <1>1, <1>7, <1>8, <2>3, Literals DEF Untouched
  <2>5. Halved' BY <1>1, <1>5, <1>16, <2>1, <2>4 DEF Halved, Half
  <2> QED BY <1>12, <1>16, <2>1, <2>2, <2>3, <2>5
<1>13. CASE command.op = "read" /\ Transfer(command.length, command.length, 0, "read") /\ UNCHANGED block
  <2>1. /\ senseKey' = "good" /\ left' = command.length /\ amount' = command.length
        /\ pc' = "read" /\ block' = block
    BY <1>13 DEF Transfer
  <2>2. command.direction = "in" BY <1>1, <1>13, Asked
  <2>3. carried = 0 /\ out' = Empty /\ HostStep
    BY <1>1, <1>5, <1>6, <1>7, <2>2 DEF Untouched, HostStep
  <2>4. Held' /\ HostStep' BY <1>1, <1>2, <2>1, <2>3 DEF Held, HostStep
  <2>5. in'.bytes = 0 /\ in'.sent = FALSE BY <1>8, Literals
  <2>6. moved' + left' = amount' /\ carried' + in'.bytes = moved' /\ carried' % EndpointSize = 0
    BY <1>1, <1>5, <1>6, <2>1, <2>3, <2>5, CommandAssumption DEF CommandAssumption
  <2>7. ReadingBlocks'
    BY <1>1, <1>8, <1>13, <2>1, <2>3, <2>4, <2>5, <2>6 DEF ReadingBlocks
  <2> QED BY <2>1, <2>7 DEF Course
<1>14. CASE command.op = "write" /\ Transfer(command.length, command.length, 0, "write") /\ UNCHANGED block
  <2>1. /\ senseKey' = "good" /\ left' = command.length /\ amount' = command.length
        /\ pc' = "write" /\ block' = block
    BY <1>14 DEF Transfer
  <2>2. command.direction = "out" /\ command.length % EndpointSize = 0
    BY <1>1, <1>14, Asked
  <2>3. Received(0) /\ carried % EndpointSize = 0 BY <1>7, <1>14, <2>2
  <2>4. Received(moved)' BY <1>1, <1>5, <2>3 DEF Received, HostStep
  <2>5. carried' % EndpointSize = 0 /\ out'.bytes % Chunk = 0
    <3>1. out'.bytes = carried BY <1>5, <2>3, Fields DEF Received
    <3>2. carried % Chunk = 0
      <4>1. CASE EndpointSize = 32 BY <2>3, <4>1 DEF HostSide, Chunk
      <4>2. CASE EndpointSize = 64 BY <2>3, <4>2 DEF HostSide, Chunk
      <4> QED BY <4>1, <4>2, CommandAssumption DEF CommandAssumption
    <3> QED BY <1>1, <2>3, <3>1, <3>2
  <2>6. Held' BY <1>1, <1>2, <2>1 DEF Held
  <2>7. moved' + left' = amount' BY <1>5, <1>6, <2>1
  <2>8. WritingBlocks'
    BY <1>1, <1>8, <1>14, <2>1, <2>4, <2>5, <2>6, <2>7 DEF WritingBlocks
  <2> QED BY <2>1, <2>8 DEF Course
<1> QED
  <2>1. CASE block.command.op \in NoData /\ Sense("good")
             /\ block' = [block EXCEPT !.length = 0]
    BY <1>3, <1>11, <2>1 DEF NoData, Sense
  <2>2. CASE /\ block.command.op = "diagnostic"
             /\ \/ Sense("good") /\ block' = [block EXCEPT !.length = 0]
                \/ Sense("hardware") /\ UNCHANGED block
    BY <1>3, <1>11, <2>2 DEF Sense
  <2> QED BY <1>3, <1>10, <1>13, <1>14, <1>15, <1>16, <2>1, <2>2 DEF Dispatch

(* Account keeps the course of a command.                                  *)
LEMMA AccountCourse ==
  ASSUME Friendly, Typed, Safe, Account PROVE Course'
<1> USE DEF Safe, Typed, device, hostVars, busVars, Goto
<1> SUFFICES ASSUME Live', command'.valid
             PROVE  Course'
  BY DEF Course
<1>1. Live /\ command.valid /\ UNCHANGED <<host, tag, command, carried>>
  BY DEF Account, Bus, Live
<1>2. Accounting BY <1>1 DEF Account, Course
<1>3. command.length \in Nat /\ command.length < LengthRange BY <1>1, Asked
<1>4. block' = [block EXCEPT !.length = (block.length - amount) % LengthRange]
      /\ pc' = "status" /\ UNCHANGED <<moved, senseKey, in, out, stalled>>
  BY DEF Account
<1>5. (block.length - amount) % LengthRange = command.length - moved
  <2> DEFINE d == block.length - amount
  <2>1. d \in Nat /\ d < LengthRange /\ d = command.length - moved
    <3>1. block.length = command.length /\ moved = amount /\ amount <= command.length
      BY <1>2 DEF Accounting
    <3>2. amount \in Nat BY DEF Device
    <3>3. LengthRange \in Nat BY CommandAssumption DEF CommandAssumption
    <3> QED BY <1>3, <3>1, <3>2, <3>3
  <2>2. LengthRange \in Nat \ {0} BY CommandAssumption DEF CommandAssumption
  <2> HIDE DEF d
  <2>3. d % LengthRange = d BY <2>1, <2>2
  <2> QED BY <2>1, <2>3 DEF d
<1>6. /\ block'.tag = block.tag /\ block'.command = block.command
      /\ block'.length = command.length - moved
  BY <1>4, <1>5 DEF Device, Blocks
<1>7. Due' BY <1>1, <1>2, <1>4, <1>6 DEF Accounting, Due, Owned
<1>8. /\ NoStall' /\ out' = Empty /\ senseKey' = "good"
      /\ ((in' = Fresh /\ host' = "status") \/ Waiting')
  BY <1>1, <1>2, <1>4 DEF Accounting, Waiting, NoStall
<1>9. StatusDue' BY <1>7, <1>8 DEF StatusDue
<1> QED BY <1>4, <1>9 DEF Course

(* WaitWhileStalled keeps the course of a command.                         *)
LEMMA WaitWhileStalledCourse ==
  ASSUME Friendly, Typed, Safe, WaitWhileStalled PROVE Course'
<1> USE DEF Safe, Typed, device, hostVars, busVars, Goto
<1> SUFFICES ASSUME Live', command'.valid
             PROVE  Course'
  BY DEF Course
<1>1. Live /\ command.valid /\ UNCHANGED <<host, tag, command, carried>>
  BY DEF WaitWhileStalled, Bus, Live
<1>2. ~massReset BY <1>1 DEF Bus, Live
<1>3. UNCHANGED <<block, csw, moved, senseKey, out, in, stalled>>
  BY DEF WaitWhileStalled
<1>4. CASE pc = "waitout" /\ ~stalled["out"] /\ pc' = "waitin"
  <2>1. Halting BY <1>1, <1>4 DEF Course
  <2>2. out = Empty BY <1>4, <2>1 DEF Halting, Ready
  <2>3. Halting'
    BY <1>1, <1>3, <2>1 DEF Halting, Filled, Due, Owned, Ready, Waiting, NoStall
  <2> QED BY <1>3, <1>4, <2>2, <2>3 DEF Course
<1>5. CASE pc = "waitin" /\ ~stalled["in"] /\ pc' = "csw"
  <2>1. Halting /\ ~stalled["out"] /\ out = Empty BY <1>1, <1>5 DEF Course
  <2>2. ~stalled[command.direction]
    BY <1>5, <2>1, CommandFields DEF HostSide, Directions
  <2>3. Ready /\ NoStall /\ Filled BY <2>1, <2>2 DEF Halting
  <2>4. Ready' /\ NoStall' /\ Filled'
    BY <1>1, <1>3, <2>3 DEF Filled, Due, Owned, Ready, Waiting, NoStall
  <2> QED BY <1>5, <2>4 DEF Course
<1> QED BY <1>2, <1>4, <1>5 DEF WaitWhileStalled

(* Astray keeps the course of a command.                                   *)
LEMMA AstrayCourse ==
  ASSUME Friendly, Typed, Safe, Astray PROVE Course'
<1> USE DEF Safe, Typed, device, hostVars, busVars, Goto
<1> SUFFICES ASSUME Live', command'.valid
             PROVE  Course'
  BY DEF Course
<1>1. Live /\ command.valid /\ UNCHANGED <<host, tag, command, carried>>
  BY DEF Astray, Bus, Live
<1> QED BY <1>1 DEF Astray, Bus, Live

(* SendCommand keeps the course of a command.                              *)
LEMMA SendCommandCourse ==
  ASSUME Friendly, Typed, Safe, SendCommand PROVE Course'
<1> USE DEF Safe, Typed, device, hostVars, busVars, Goto
<1> SUFFICES ASSUME Live', command'.valid PROVE Course'
  BY DEF Course
<1>1. ~stale /\ ~slow /\ host = "idle" /\ ~massReset /\ pc = "task"
  BY DEF SendCommand, Friendly, Live
<1>2. in = Fresh /\ NoStall BY <1>1 DEF Resting
<1>3. /\ pc' = "task" /\ in' = Fresh /\ NoStall' /\ carried' = 0
      /\ out' = [kind |-> "wrapper", bytes |-> Wrapper]
      /\ host' = (IF command'.length = 0 THEN "status" ELSE "data")
  BY <1>1, <1>2 DEF SendCommand, NoStall
<1> QED BY <1>3 DEF Course, Untouched

(* TakeData keeps the course of a command.                                 *)
LEMMA TakeDataCourse ==
  ASSUME Friendly, Typed, Safe, TakeData PROVE Course'
<1> USE DEF Safe, Typed, device, hostVars, busVars, Goto
<1> SUFFICES ASSUME Live', command'.valid PROVE Course'
  BY DEF Course
<1>1. /\ Live /\ host = "data" /\ command.valid /\ in.sent /\ command.direction = "in"
      /\ UNCHANGED <<pc, left, amount, padding, block, csw, senseKey, moved, out, stalled, tag,
                      command>>
  BY DEF TakeData, Live
<1>2. in' = Fresh /\ carried' = carried + in.bytes /\ in # Fresh
  BY <1>1, Literals DEF TakeData
<1>3. host' = (IF in.bytes < EndpointSize \/ carried' >= command.length THEN "status" ELSE "data")
  BY DEF TakeData
<1>4. command.length \in Nat /\ EndpointSize \in Nat /\ carried \in Nat /\ in.bytes \in Nat
  BY <1>1, Asked, Fields, CommandAssumption DEF CommandAssumption, HostSide
<1>5. in'.bytes = 0 /\ in'.sent = FALSE BY <1>2, Literals
<1>6. CASE pc \in {"half", "stream", "pad", "finish"}
  <2>1. Streaming BY <1>1, <1>6 DEF Course
  <2>2. in.bytes = EndpointSize /\ left > 0 BY <1>1, <2>1 DEF Streaming, Filling
  <2>3. /\ Total \in Nat /\ Total <= command.length /\ amount <= Total /\ amount \in Nat
        /\ left \in Nat /\ moved \in Nat
    BY <1>1, <2>1, Sums DEF Streaming, Device
  <2>4. carried + in.bytes < Total
    <3>1. CASE pc = "half" BY <1>1, <1>4, <2>2, <2>3, <3>1 DEF Course, Halved, Half
    <3>2. CASE pc = "stream" BY <1>1, <1>4, <2>2, <2>3, <3>2 DEF Course, Relayed
    <3>3. CASE pc \in {"pad", "finish"} BY <1>1, <1>4, <2>2, <2>3, <3>3 DEF Course, Padded
    <3> QED BY <1>6, <3>1, <3>2, <3>3
  <2>5. carried' < command.length BY <1>2, <1>4, <2>3, <2>4
  <2>6. host' = "data" BY <1>2, <1>3, <1>4, <2>2, <2>5
  <2>7. Filling' BY <1>1, <1>2, <2>2, Literals DEF Filling, Fresh
  <2>8. carried' + in'.bytes = carried + in.bytes BY <1>2, <1>4, <1>5
  <2>9. Streaming' /\ Total' = Total
    BY <1>1, <2>1, <2>6, <2>7 DEF Streaming, Held, NoStall, Total
  <2>10. (Halved => Halved') /\ (Relayed => Relayed') /\ (Padded => Padded')
    BY <1>1, <2>8, <2>9 DEF Halved, Relayed, Padded
  <2> QED BY <1>1, <1>6, <2>9, <2>10 DEF Course
<1>7. CASE pc = "read"
  <2>1. ReadingBlocks BY <1>1, <1>7 DEF Course
  <2>2. in.bytes = EndpointSize /\ carried + in.bytes = moved
    BY <1>1, <1>2, <2>1 DEF ReadingBlocks
  <2>3. carried' % EndpointSize = 0
    <3>1. carried % EndpointSize = 0 BY <2>1 DEF ReadingBlocks
    <3>2. CASE EndpointSize = 32 BY <1>2, <1>4, <2>2, <3>1, <3>2
    <3>3. CASE EndpointSize = 64 BY <1>2, <1>4, <2>2, <3>1, <3>3
    <3> QED BY <3>2, <3>3, CommandAssumption DEF CommandAssumption
  <2>4. carried' + in'.bytes = moved' BY <1>1, <1>2, <1>4, <1>5, <2>2
  <2>5. HostStep' BY <1>1, <1>2, <1>3, <1>4, <2>2 DEF HostStep
  <2>6. ReadingBlocks'
    BY <1>1, <1>2, <1>5, <2>1, <2>3, <2>4, <2>5 DEF ReadingBlocks, Held, NoStall
  <2> QED BY <1>1, <1>7, <2>6 DEF Course
<1>8. ASSUME Waiting PROVE in' = Fresh /\ host' = "status"
  BY <1>2, <1>3, <1>8 DEF Waiting
<1>9. CASE pc = "account"
  <2>1. Accounting /\ Waiting BY <1>1, <1>2, <1>9 DEF Course, Accounting
  <2>2. Accounting' BY <1>1, <1>8, <2>1 DEF Accounting, Owned, NoStall
  <2> QED BY <1>1, <1>9, <2>2 DEF Course
<1>10. CASE pc = "status"
  <2>1. StatusDue /\ Waiting /\ out = Empty BY <1>1, <1>2, <1>10 DEF Course, StatusDue
  <2>2. StatusDue' BY <1>1, <1>8, <2>1 DEF StatusDue, Due, Owned, NoStall
  <2> QED BY <1>1, <1>10, <2>2 DEF Course
<1>11. CASE pc \in {"waitout", "waitin"}
  <2>1. Halting /\ Ready /\ NoStall /\ Waiting
    BY <1>1, <1>2, <1>11 DEF Course, Halting, Ready
  <2>2. Ready' BY <1>1, <1>8, <2>1 DEF Ready
  <2>3. Halting' BY <1>1, <2>1, <2>2 DEF Halting, Filled, Due, Owned, NoStall
  <2>4. pc = "waitin" => ~stalled["out"] /\ out = Empty BY <1>1 DEF Course
  <2> QED BY <1>1, <1>11, <2>3, <2>4 DEF Course
<1>12. CASE pc = "csw"
  <2>1. Filled /\ Ready /\ NoStall /\ Waiting BY <1>1, <1>2, <1>12 DEF Course, Ready
  <2>2. Ready' BY <1>1, <1>8, <2>1 DEF Ready
  <2>3. Filled' /\ NoStall' BY <1>1, <2>1 DEF Filled, Due, Owned, NoStall
  <2> QED BY <1>1, <1>12, <2>2, <2>3 DEF Course
<1>13. pc \in {"half", "stream", "pad", "finish", "read", "account", "status", "waitout", "waitin", "csw"}
  BY <1>1, <1>2 DEF Course, Untouched, Answered, WritingBlocks, Device, Steps
<1> QED BY <1>6, <1>7, <1>9, <1>10, <1>11, <1>12, <1>13

(* SendData keeps the course of a command.                                 *)
LEMMA SendDataCourse ==
  ASSUME Friendly, Typed, Safe, SendData PROVE Course'
<1> USE DEF Safe, Typed, device, hostVars, busVars, Goto
<1> SUFFICES ASSUME Live', command'.valid PROVE Course'
  BY DEF Course
<1> DEFINE rest == command.length - carried
           n == IF rest < EndpointSize THEN rest ELSE EndpointSize
<1>1. /\ Live /\ host = "data" /\ command.valid /\ command.direction = "out"
      /\ out.kind = "none" /\ ~stalled["out"]
      /\ UNCHANGED <<pc, left, amount, block, csw, senseKey, moved, in, stalled, tag, command>>
  BY DEF SendData, Live
<1>2. /\ out' = [kind |-> "data", bytes |-> n] /\ carried' = carried + n
      /\ host' = (IF n = rest THEN "status" ELSE "data")
  BY DEF SendData
<1>3. command.length \in Nat /\ carried \in Nat /\ carried < command.length
  BY <1>1, Asked DEF HostSide, Chunked
<1>4. n \in Nat /\ n > 0 /\ carried + n <= command.length
      /\ (n = rest <=> ~(carried + n < command.length))
  BY <1>3, CommandAssumption DEF CommandAssumption
<1>5. ASSUME command.op = "write", carried % EndpointSize = 0
      PROVE  n = EndpointSize /\ (carried + n) % EndpointSize = 0 /\ n % Chunk = 0
  <2>1. command.length % EndpointSize = 0 BY <1>1, <1>5, Asked
  <2>2. CASE EndpointSize = 32 BY <1>3, <1>5, <2>1, <2>2 DEF Chunk
  <2>3. CASE EndpointSize = 64 BY <1>3, <1>5, <2>1, <2>3 DEF Chunk
  <2> QED BY <2>2, <2>3, CommandAssumption DEF CommandAssumption
<1> HIDE DEF rest, n
<1>6. out'.kind = "data" /\ out'.bytes = n /\ out' # Empty BY <1>2 DEF Empty
<1>7. HostStep' /\ carried' <= command'.length
  BY <1>1, <1>2, <1>3, <1>4 DEF HostStep
<1>8. CASE pc = "dispatch"
  <2>1. /\ Held /\ in = Fresh /\ NoStall /\ Received(0)
        /\ (command.op = "write" => carried % EndpointSize = 0)
    BY <1>1, <1>8 DEF Course
  <2>2. out = Empty BY <1>1, <2>1 DEF Received
  <2>3. carried = 0 BY <2>1, <2>2 DEF Received, Empty
  <2>4. Received(0)' BY <1>2, <1>4, <1>6, <1>7, <2>3 DEF Received
  <2>5. Held' /\ NoStall' /\ in' = Fresh BY <1>1, <2>1 DEF Held, NoStall
  <2>6. command'.op = "write" => carried' % EndpointSize = 0 BY <1>1, <1>2, <1>5, <2>1
  <2>7. out'.bytes > 0 /\ command'.direction # "in" BY <1>1, <1>4, <1>6
  <2> QED BY <1>1, <1>8, <2>4, <2>5, <2>6, <2>7 DEF Course
<1>9. CASE pc = "write"
  <2>1. WritingBlocks BY <1>1, <1>9 DEF Course
  <2>2. out = Empty BY <1>1, <2>1 DEF WritingBlocks, Received
  <2>3. carried = moved BY <2>1, <2>2 DEF WritingBlocks, Received, Empty, Device
  <2>4. Received(moved)' BY <1>1, <1>2, <1>4, <1>6, <1>7, <2>3 DEF Received
  <2>5. carried' % EndpointSize = 0 /\ out'.bytes % Chunk = 0
    BY <1>2, <1>5, <1>6, <2>1 DEF WritingBlocks
  <2>6. WritingBlocks' BY <1>1, <2>1, <2>4, <2>5 DEF WritingBlocks, Held, NoStall
  <2> QED BY <1>1, <1>9, <2>6 DEF Course
<1>10. CASE pc = "status"
  <2>1. StatusDue /\ in = Fresh /\ Failed BY <1>1, <1>10 DEF Course, StatusDue, Waiting
  <2>2. StatusDue' BY <1>1, <2>1 DEF StatusDue, Due, Owned, NoStall, Failed
  <2> QED BY <1>1, <1>10, <2>2 DEF Course
<1>11. pc \in {"dispatch", "write", "status"}
  <2>1. ~Waiting /\ ~Answered BY <1>1 DEF Waiting, Answered
  <2>2. pc \notin {"task", "header", "validate", "body", "clearout", "reset", "clearin"}
    BY <1>1, <2>1 DEF Course
  <2>3. pc \notin {"half", "stream", "pad", "finish", "read"}
    <3>1. ASSUME pc \in {"half", "stream", "pad", "finish", "read"}
          PROVE  command.op \in DOMAIN Response \/ command.op = "read"
      BY <1>1, <3>1 DEF Course, Streaming, ReadingBlocks
    <3> QED BY <1>1, <3>1, Asked
  <2>4. ~Ready BY <1>1, <2>1 DEF Ready
  <2>5. pc \notin {"waitout", "waitin", "csw"} BY <1>1, <2>4 DEF Course, Halting
  <2>6. pc # "account" BY <1>1, <2>1 DEF Course, Accounting
  <2> QED BY <1>1, <2>2, <2>3, <2>5, <2>6 DEF Course, Device, Steps
<1> QED BY <1>8, <1>9, <1>10, <1>11

(* SeeStall keeps the course of a command.                                 *)
LEMMA SeeStallCourse ==
  ASSUME Friendly, Typed, Safe, SeeStall PROVE Course'
<1> USE DEF Safe, Typed, device, hostVars, busVars, Goto
<1> SUFFICES ASSUME Live', command'.valid PROVE Course'
  BY DEF Course
<1>1. /\ Live /\ command.valid
      /\ UNCHANGED <<pc, left, amount, block, csw, senseKey, moved, tag, command, carried>>
  BY DEF SeeStall, ClearFeature, Live
<1>2. \E d \in Directions :
        /\ stalled[d] /\ ClearFeature(d) /\ host' = "status"
  BY <1>1, CommandFields DEF SeeStall, Live, HostSide, Directions
<1>3. PICK d \in Directions : stalled[d] /\ ClearFeature(d) /\ host' = "status" BY <1>2
<1>4. ~NoStall BY <1>3 DEF NoStall
<1>5. pc \in {"waitout", "waitin"}
  BY <1>1, <1>4 DEF Course, Untouched, Answered, Streaming, ReadingBlocks, WritingBlocks,
                   Accounting, StatusDue, Device, Steps
<1>6. Halting BY <1>1, <1>5 DEF Course
<1>7. d = command.direction BY <1>3, <1>6 DEF Halting
<1>8. in = Fresh /\ (out = Empty \/ d = "out") /\ Filled BY <1>4, <1>6, <1>7 DEF Halting
<1>9. in' = Fresh /\ out' = Empty BY <1>3, <1>8 DEF ClearFeature, Directions
<1>10. stalled' = [e \in Directions |-> FALSE]
  <2>1. \A e \in Directions : stalled[e] => e = d BY <1>6, <1>7 DEF Halting
  <2>2. stalled' = [stalled EXCEPT ![d] = FALSE] BY <1>3 DEF ClearFeature
  <2> QED BY <2>1, <2>2 DEF Device
<1>11. Filled' BY <1>1, <1>8 DEF Filled, Due, Owned
<1>12. Ready' BY <1>3, <1>9 DEF Ready
<1>13. Halting' /\ ~stalled'["out"]
  BY <1>10, <1>11, <1>12 DEF Halting, NoStall, Directions
<1> QED BY <1>1, <1>5, <1>9, <1>13 DEF Course

(* TakeStatus keeps the course of a command.                               *)
LEMMA TakeStatusCourse ==
  ASSUME Friendly, Typed, Safe, TakeStatus PROVE Course'
<1> USE DEF Safe, Typed, device, hostVars, busVars, Goto
<1>1. ~Live' BY DEF TakeStatus, ClearFeature, Live
<1> QED BY <1>1 DEF Course

(* MassStorageReset keeps the course of a command.                         *)
LEMMA MassStorageResetCourse ==
  ASSUME Friendly, Typed, Safe, MassStorageReset PROVE Course'
<1> USE DEF Safe, Typed, device, hostVars, busVars, Goto
<1>1. ~Live' BY DEF MassStorageReset, ClearFeature, Live
<1> QED BY <1>1 DEF Course

(* ClearBoth keeps the course of a command.                                *)
LEMMA ClearBothCourse ==
  ASSUME Friendly, Typed, Safe, ClearBoth PROVE Course'
<1> USE DEF Safe, Typed, device, hostVars, busVars, Goto
<1>1. ~Live' BY DEF ClearBoth, ClearFeature, Live
<1> QED BY <1>1 DEF Course

(* GiveUp keeps the course of a command.                                   *)
LEMMA GiveUpCourse ==
  ASSUME Friendly, Typed, Safe, GiveUp PROVE Course'
<1> USE DEF Safe, Typed, device, hostVars, busVars, Goto
<1>1. ~Live' BY DEF GiveUp, ClearFeature, Live
<1> QED BY <1>1 DEF Course

(* BusReset keeps the course of a command.                                 *)
LEMMA BusResetCourse ==
  ASSUME Friendly, Typed, Safe, BusReset PROVE Course'
<1> USE DEF Safe, Typed, device, hostVars, busVars, Goto
<1>1. ~Live' BY DEF BusReset, ClearFeature, Live
<1> QED BY <1>1 DEF Course

(* Configure keeps the course of a command.                                *)
LEMMA ConfigureCourse ==
  ASSUME Friendly, Typed, Safe, Configure PROVE Course'
<1> USE DEF Safe, Typed, device, hostVars, busVars, Goto
<1>1. ~Live' BY DEF Configure, ClearFeature, Live
<1> QED BY <1>1 DEF Course

(* Task keeps the invariant.                                               *)
LEMMA TaskSafe ==
  ASSUME Friendly, Typed, Safe, ~lost, Task PROVE Safe'
<1> USE DEF Safe, Typed, device, hostVars, busVars, Goto, Live, NoStall
<1>1. Bus' BY DEF Task, Bus
<1>a. ~OutAllowed \/ out # Empty BY DEF OutAllowed, Empty
<1>2. Resting' BY <1>a DEF Task, Resting
<1>3. Refusing' BY DEF Task, Refusing
<1>4. Course' BY TaskCourse
<1> QED BY <1>1, <1>2, <1>3, <1>4

(* ReadHeader keeps the invariant.                                         *)
LEMMA ReadHeaderSafe ==
  ASSUME Friendly, Typed, Safe, ~lost, ReadHeader PROVE Safe'
<1> USE DEF Safe, Typed, device, hostVars, busVars, Goto, Live, NoStall, Zeroed, NoCommand
<1>1. Bus' BY DEF ReadHeader, Bus
<1>2. Resting' BY DEF ReadHeader, Resting
<1>3. Refusing' BY DEF ReadHeader, Refusing
<1>4. Course' BY ReadHeaderCourse
<1> QED BY <1>1, <1>2, <1>3, <1>4

(* ReadPartOfHeader keeps the invariant.                                   *)
LEMMA ReadPartOfHeaderSafe ==
  ASSUME Friendly, Typed, Safe, ~lost, ReadPartOfHeader PROVE Safe'
<1> USE DEF Safe, Typed, device, hostVars, busVars, Goto, Live, NoStall
<1>1. Bus' BY DEF ReadPartOfHeader, Bus
<1>2. Resting' BY DEF ReadPartOfHeader, Resting
<1>3. Refusing' BY DEF ReadPartOfHeader, Refusing
<1>4. Course' BY ReadPartOfHeaderCourse
<1> QED BY <1>1, <1>2, <1>3, <1>4

(* ReadNothing keeps the invariant.                                        *)
LEMMA ReadNothingSafe ==
  ASSUME Friendly, Typed, Safe, ~lost, ReadNothing PROVE Safe'
<1> USE DEF Safe, Typed, device, hostVars, busVars, Goto, Live, NoStall
<1>1. Bus' BY DEF ReadNothing, Bus
<1>2. Resting' BY DEF ReadNothing, Resting
<1>3. Refusing' BY DEF ReadNothing, Refusing
<1>4. Course' BY ReadNothingCourse
<1> QED BY <1>1, <1>2, <1>3, <1>4

(* Validate keeps the invariant.                                           *)
LEMMA ValidateSafe ==
  ASSUME Friendly, Typed, Safe, ~lost, Validate PROVE Safe'
<1> USE DEF Safe, Typed, device, hostVars, busVars, Goto, Live, NoStall
<1>1. Bus' BY DEF Validate, Bus
<1>2. Resting' BY DEF Validate, Resting
<1>3. Refusing' BY DEF Validate, Refusing
<1>4. Course' BY ValidateCourse
<1> QED BY <1>1, <1>2, <1>3, <1>4

(* RefuseWrapper keeps the invariant.                                      *)
LEMMA RefuseWrapperSafe ==
  ASSUME Friendly, Typed, Safe, ~lost, RefuseWrapper PROVE Safe'
<1> USE DEF Safe, Typed, device, hostVars, busVars, Goto, Live, NoStall
<1>1. Bus' BY DEF RefuseWrapper, Bus
<1>2. Resting' BY DEF RefuseWrapper, Resting
<1>3. Refusing' BY DEF RefuseWrapper, Refusing
<1>4. Course' BY RefuseWrapperCourse
<1> QED BY <1>1, <1>2, <1>3, <1>4

(* ReadBody keeps the invariant.                                           *)
LEMMA ReadBodySafe ==
  ASSUME Friendly, Typed, Safe, ~lost, ReadBody PROVE Safe'
<1> USE DEF Safe, Typed, device, hostVars, busVars, Goto, Live, NoStall
<1>1. Bus' BY DEF ReadBody, Bus
<1>2. Resting' BY DEF ReadBody, Resting
<1>3. Refusing' BY DEF ReadBody, Refusing
<1>4. Course' BY ReadBodyCourse
<1> QED BY <1>1, <1>2, <1>3, <1>4

(* ClearOUT keeps the invariant.                                           *)
LEMMA ClearOUTSafe ==
  ASSUME Friendly, Typed, Safe, ~lost, ClearOUT PROVE Safe'
<1> USE DEF Safe, Typed, device, hostVars, busVars, Goto, Live, NoStall
<1>1. Bus' BY DEF ClearOUT, Bus
<1>2. Resting' BY DEF ClearOUT, Resting
<1>3. Refusing' BY DEF ClearOUT, Refusing
<1>4. Course' BY ClearOUTCourse
<1> QED BY <1>1, <1>2, <1>3, <1>4

(* Stream keeps the invariant.                                             *)
LEMMA StreamSafe ==
  ASSUME Friendly, Typed, Safe, ~lost, Stream PROVE Safe'
<1> USE DEF Safe, Typed, device, hostVars, busVars, Goto, Live, NoStall, NextStream, Streams
<1>1. Bus' BY DEF Stream, Bus
<1>2. Resting' BY DEF Stream, Resting
<1>3. Refusing' BY DEF Stream, Refusing
<1>4. Course' BY StreamCourse
<1> QED BY <1>1, <1>2, <1>3, <1>4

(* StreamFails keeps the invariant.                                      *)
LEMMA StreamFailsSafe ==
  ASSUME Friendly, Typed, Safe, ~lost, StreamFails PROVE Safe'
<1> USE DEF Safe, Typed, device, hostVars, busVars, Goto, Live, NoStall, NextStream, Streams, GiveUpOn
<1>1. Bus' BY DEF StreamFails, Bus
<1>2. Resting' BY DEF StreamFails, Resting
<1>3. Refusing' BY DEF StreamFails, Refusing
<1>4. Course' BY StreamFailsCourse
<1> QED BY <1>1, <1>2, <1>3, <1>4

(* Finish keeps the invariant.                                           *)
LEMMA FinishSafe ==
  ASSUME Friendly, Typed, Safe, ~lost, Finish PROVE Safe'
<1> USE DEF Safe, Typed, device, hostVars, busVars, Goto, Live, NoStall
<1>1. Bus' BY DEF Finish, Bus
<1>2. Resting' BY DEF Finish, Resting
<1>3. Refusing' BY DEF Finish, Refusing
<1>4. Course' BY FinishCourse
<1> QED BY <1>1, <1>2, <1>3, <1>4

(* ReadChunk keeps the invariant.                                          *)
LEMMA ReadChunkSafe ==
  ASSUME Friendly, Typed, Safe, ~lost, ReadChunk PROVE Safe'
<1> USE DEF Safe, Typed, device, hostVars, busVars, Goto, Live, NoStall
<1>1. Bus' BY DEF ReadChunk, Bus
<1>2. Resting' BY DEF ReadChunk, Resting
<1>3. Refusing' BY DEF ReadChunk, Refusing
<1>4. Course' BY ReadChunkCourse
<1> QED BY <1>1, <1>2, <1>3, <1>4

(* ReadBankFull keeps the invariant.                                       *)
LEMMA ReadBankFullSafe ==
  ASSUME Friendly, Typed, Safe, ~lost, ReadBankFull PROVE Safe'
<1> USE DEF Safe, Typed, device, hostVars, busVars, Goto, Live, NoStall
<1>1. Bus' BY DEF ReadBankFull, Bus
<1>2. Resting' BY DEF ReadBankFull, Resting
<1>3. Refusing' BY DEF ReadBankFull, Refusing
<1>4. Course' BY ReadBankFullCourse
<1> QED BY <1>1, <1>2, <1>3, <1>4

(* ReadEnd keeps the invariant.                                            *)
LEMMA ReadEndSafe ==
  ASSUME Friendly, Typed, Safe, ~lost, ReadEnd PROVE Safe'
<1> USE DEF Safe, Typed, device, hostVars, busVars, Goto, Live, NoStall
<1>1. Bus' BY DEF ReadEnd, Bus
<1>2. Resting' BY DEF ReadEnd, Resting
<1>3. Refusing' BY DEF ReadEnd, Refusing
<1>4. Course' BY ReadEndCourse
<1> QED BY <1>1, <1>2, <1>3, <1>4

(* WriteChunk keeps the invariant.                                         *)
LEMMA WriteChunkSafe ==
  ASSUME Friendly, Typed, Safe, ~lost, WriteChunk PROVE Safe'
<1> USE DEF Safe, Typed, device, hostVars, busVars, Goto, Live, NoStall
<1>1. Bus' BY DEF WriteChunk, Bus
<1>2. Resting' BY DEF WriteChunk, Resting
<1>3. Refusing' BY DEF WriteChunk, Refusing
<1>4. Course' BY WriteChunkCourse
<1> QED BY <1>1, <1>2, <1>3, <1>4

(* WriteBankEmpty keeps the invariant.                                     *)
LEMMA WriteBankEmptySafe ==
  ASSUME Friendly, Typed, Safe, ~lost, WriteBankEmpty PROVE Safe'
<1> USE DEF Safe, Typed, device, hostVars, busVars, Goto, Live, NoStall
<1>1. Bus' BY DEF WriteBankEmpty, Bus
<1>2. Resting' BY DEF WriteBankEmpty, Resting
<1>3. Refusing' BY DEF WriteBankEmpty, Refusing
<1>4. Course' BY WriteBankEmptyCourse
<1> QED BY <1>1, <1>2, <1>3, <1>4

(* WriteEnd keeps the invariant.                                           *)
LEMMA WriteEndSafe ==
  ASSUME Friendly, Typed, Safe, ~lost, WriteEnd PROVE Safe'
<1> USE DEF Safe, Typed, device, hostVars, busVars, Goto, Live, NoStall
<1>1. Bus' BY DEF WriteEnd, Bus
<1>2. Resting' BY DEF WriteEnd, Resting
<1>3. Refusing' BY DEF WriteEnd, Refusing
<1>4. Course' BY WriteEndCourse
<1> QED BY <1>1, <1>2, <1>3, <1>4

(* TransferFails keeps the invariant.                                      *)
LEMMA TransferFailsSafe ==
  ASSUME Friendly, Typed, Safe, ~lost, TransferFails PROVE Safe'
<1> USE DEF Safe, Typed, device, hostVars, busVars, Goto, Live, NoStall, GiveUpOn
<1>1. Bus' BY DEF TransferFails, Bus
<1>2. Resting' BY DEF TransferFails, Resting
<1>3. Refusing' BY DEF TransferFails, Refusing
<1>4. Course' BY TransferFailsCourse
<1> QED BY <1>1, <1>2, <1>3, <1>4

(* FillStatus keeps the invariant.                                         *)
LEMMA FillStatusSafe ==
  ASSUME Friendly, Typed, Safe, ~lost, FillStatus PROVE Safe'
<1> USE DEF Safe, Typed, device, hostVars, busVars, Goto, Live, NoStall
<1>1. Bus' BY DEF FillStatus, Bus
<1>2. Resting' BY DEF FillStatus, Resting
<1>3. Refusing' BY DEF FillStatus, Refusing
<1>4. Course' BY FillStatusCourse
<1> QED BY <1>1, <1>2, <1>3, <1>4

(* WriteStatus keeps the invariant.                                        *)
LEMMA WriteStatusSafe ==
  ASSUME Friendly, Typed, Safe, ~lost, WriteStatus PROVE Safe'
<1> USE DEF Safe, Typed, device, hostVars, busVars, Goto, Live, NoStall
<1>1. Bus' BY DEF WriteStatus, Bus
<1>2. Resting' BY DEF WriteStatus, Resting
<1>3. Refusing' BY DEF WriteStatus, Refusing
<1>4. Course' BY WriteStatusCourse
<1> QED BY <1>1, <1>2, <1>3, <1>4

(* FlushBeforeStatus keeps the invariant.                                  *)
LEMMA FlushBeforeStatusSafe ==
  ASSUME Friendly, Typed, Safe, ~lost, FlushBeforeStatus PROVE Safe'
<1> USE DEF Safe, Typed, device, hostVars, busVars, Goto, Live, NoStall
<1>1. Bus' BY DEF FlushBeforeStatus, Bus
<1>2. Resting' BY DEF FlushBeforeStatus, Resting
<1>3. Refusing' BY DEF FlushBeforeStatus, Refusing
<1>4. Course' BY FlushBeforeStatusCourse
<1> QED BY <1>1, <1>2, <1>3, <1>4

(* StatusFails keeps the invariant.                                        *)
LEMMA StatusFailsSafe ==
  ASSUME Friendly, Typed, Safe, ~lost, StatusFails PROVE Safe'
<1> USE DEF Safe, Typed, device, hostVars, busVars, Goto, Live, NoStall, GiveUpOn
<1>1. Bus' BY DEF StatusFails, Bus
<1>2. Resting' BY DEF StatusFails, Resting
<1>3. Refusing' BY DEF StatusFails, Refusing
<1>4. Course' BY StatusFailsCourse
<1> QED BY <1>1, <1>2, <1>3, <1>4

(* ClearIN keeps the invariant.                                            *)
LEMMA ClearINSafe ==
  ASSUME Friendly, Typed, Safe, ~lost, ClearIN PROVE Safe'
<1> USE DEF Safe, Typed, device, hostVars, busVars, Goto, Live, NoStall
<1>1. Bus' BY DEF ClearIN, Bus
<1>2. Resting' BY DEF ClearIN, Resting
<1>3. Refusing' BY DEF ClearIN, Refusing
<1>4. Course' BY ClearINCourse
<1> QED BY <1>1, <1>2, <1>3, <1>4

(* ResetFIFOs keeps the invariant.                                         *)
LEMMA ResetFIFOsSafe ==
  ASSUME Friendly, Typed, Safe, ~lost, ResetFIFOs PROVE Safe'
<1> USE DEF Safe, Typed, device, hostVars, busVars, Goto, Live, NoStall
<1>1. Bus' BY DEF ResetFIFOs, Bus
<1>2. Resting' BY DEF ResetFIFOs, Bus, Resting
<1>3. Refusing' BY DEF ResetFIFOs, Bus, Refusing
<1>4. Course' BY ResetFIFOsCourse
<1> QED BY <1>1, <1>2, <1>3, <1>4

(* EndReset keeps the invariant.                                           *)
LEMMA EndResetSafe ==
  ASSUME Friendly, Typed, Safe, ~lost, EndReset PROVE Safe'
<1> USE DEF Safe, Typed, device, hostVars, busVars, Goto, Live, NoStall
<1>1. Bus' BY DEF EndReset, Bus
<1>2. Resting' BY DEF EndReset, Bus, Resting
<1>3. Refusing' BY DEF EndReset, Refusing
<1>4. Course' BY EndResetCourse
<1> QED BY <1>1, <1>2, <1>3, <1>4

(* Dispatch keeps the invariant.                                           *)
LEMMA DispatchSafe ==
  ASSUME Friendly, Typed, Safe, Dispatch PROVE Safe'
<1> USE DEF Safe, Typed, device, hostVars, busVars, Goto, Live, NoStall
<1>1. Bus' BY DEF Dispatch, Sense, Transfer, Bus
<1>2. Resting' BY DEF Dispatch, Bus, Resting
<1>3. Refusing' BY DEF Dispatch, Refusing
<1>4. Course' BY DispatchCourse
<1> QED BY <1>1, <1>2, <1>3, <1>4

(* Account keeps the invariant.                                            *)
LEMMA AccountSafe ==
  ASSUME Friendly, Typed, Safe, Account PROVE Safe'
<1> USE DEF Safe, Typed, device, hostVars, busVars, Goto, Live, NoStall
<1>1. Bus' BY DEF Account, Bus
<1>2. Resting' BY DEF Account, Resting
<1>3. Refusing' BY DEF Account, Refusing
<1>4. Course' BY AccountCourse
<1> QED BY <1>1, <1>2, <1>3, <1>4

(* WaitWhileStalled keeps the invariant.                                   *)
LEMMA WaitWhileStalledSafe ==
  ASSUME Friendly, Typed, Safe, WaitWhileStalled PROVE Safe'
<1> USE DEF Safe, Typed, device, hostVars, busVars, Goto, Live, NoStall
<1>1. Bus' BY DEF WaitWhileStalled, Bus
<1>2. Resting' BY DEF WaitWhileStalled, Resting
<1>3. Refusing' BY DEF WaitWhileStalled, Refusing
<1>4. Course' BY WaitWhileStalledCourse
<1> QED BY <1>1, <1>2, <1>3, <1>4

(* Astray keeps the invariant.                                             *)
LEMMA AstraySafe ==
  ASSUME Friendly, Typed, Safe, Astray PROVE Safe'
<1> USE DEF Safe, Typed, device, hostVars, busVars, Goto, Live, NoStall
<1>1. Bus' BY DEF Astray, Bus
<1>2. Resting' BY DEF Astray, Bus, Resting
<1>3. Refusing' BY DEF Astray, Bus, Refusing
<1>4. Course' BY AstrayCourse
<1> QED BY <1>1, <1>2, <1>3, <1>4

(* SendCommand keeps the invariant.                                        *)
LEMMA SendCommandSafe ==
  ASSUME Friendly, Typed, Safe, SendCommand PROVE Safe'
<1> USE DEF Safe, Typed, device, hostVars, busVars, Goto, Live, NoStall
<1>a. /\ tag' = tag + 1 /\ tag' >= 1 /\ command' \in Commands /\ host' \in {"data", "status"}
      /\ host = "idle"
  BY DEF SendCommand, HostSide
<1>b. ~massReset BY DEF SendCommand, Friendly
<1>1. Bus'
  <2>1. ready' = ready /\ ready /\ host' # "reset" BY <1>a DEF SendCommand, Bus
  <2>2. (lost' => stale') /\ ~massReset' BY <1>b DEF SendCommand, Bus
  <2>3. ~stale' => pc' # "unstall" BY DEF SendCommand, Friendly
  <2> QED BY <1>a, <2>1, <2>2, <2>3 DEF Bus
<1>2. Resting' BY DEF SendCommand, Resting
<1>3. Refusing'
  <2>1. ~stale /\ ~slow => in = Fresh /\ pc = "task"
    BY <1>a, <1>b DEF SendCommand, Friendly, Resting
  <2> QED BY <2>1 DEF SendCommand, Refusing
<1>4. Course' BY SendCommandCourse
<1> QED BY <1>1, <1>2, <1>3, <1>4

(* TakeData keeps the invariant.                                           *)
LEMMA TakeDataSafe ==
  ASSUME Friendly, Typed, Safe, TakeData PROVE Safe'
<1> USE DEF Safe, Typed, device, hostVars, busVars, Goto, Live, NoStall
<1>1. Bus' BY DEF TakeData, Bus
<1>2. Resting' BY DEF TakeData, Resting
<1>3. Refusing' BY DEF TakeData, Refusing
<1>4. Course' BY TakeDataCourse
<1> QED BY <1>1, <1>2, <1>3, <1>4

(* SendData keeps the invariant.                                           *)
LEMMA SendDataSafe ==
  ASSUME Friendly, Typed, Safe, SendData PROVE Safe'
<1> USE DEF Safe, Typed, device, hostVars, busVars, Goto, Live, NoStall
<1>1. Bus' BY DEF SendData, Bus
<1>2. Resting' BY DEF SendData, Resting
<1>3. Refusing' BY DEF SendData, Refusing
<1>4. Course' BY SendDataCourse
<1> QED BY <1>1, <1>2, <1>3, <1>4

(* SeeStall keeps the invariant.                                           *)
LEMMA SeeStallSafe ==
  ASSUME Friendly, Typed, Safe, SeeStall PROVE Safe'
<1> USE DEF Safe, Typed, device, hostVars, busVars, Goto, Live, NoStall, ClearFeature
<1>1. Bus' BY DEF SeeStall, Bus
<1>2. Resting' BY DEF SeeStall, Resting
<1>3. Refusing' BY DEF SeeStall, Refusing
<1>4. Course' BY SeeStallCourse
<1> QED BY <1>1, <1>2, <1>3, <1>4

(* TakeStatus keeps the invariant.                                         *)
LEMMA TakeStatusSafe ==
  ASSUME Friendly, Typed, Safe, TakeStatus PROVE Safe'
<1> USE DEF Safe, Typed, device, hostVars, busVars, Goto, Live, NoStall
<1>1. Bus' BY DEF TakeStatus, Bus
<1>2. Resting'
  <2> SUFFICES ASSUME ~stale, ~slow, host' = "idle" PROVE out = Empty /\ NoStall
    /\ pc \in {"task", "reset"}
    BY DEF TakeStatus, Resting
  <2>1. in.sent /\ in.csw.tag = tag /\ host = "status" /\ tag >= 1
    BY DEF TakeStatus, Bus
  <2>2. in # Fresh BY <2>1, Literals
  <2>3. command.valid BY <2>1, <2>2 DEF Refusing
  <2>4. ~Waiting BY <2>1 DEF Waiting
  <2>5. in.csw # NoStatus BY <2>1 DEF NoStatus, HostSide
  <2>6. pc \in {"task", "reset"} /\ Answered
    <3>1. pc \notin {"header", "validate", "body", "clearout", "dispatch", "write"}
      BY <2>1, <2>2, <2>3 DEF Course, Untouched, WritingBlocks
    <3>2. pc \notin {"half", "stream", "pad", "finish", "read"}
      BY <2>1, <2>2, <2>3, <2>5 DEF Course, Streaming, Filling, ReadingBlocks
    <3>3. pc \notin {"account", "status", "waitout", "waitin", "csw"}
      BY <2>1, <2>2, <2>3, <2>4 DEF Course, Accounting, StatusDue, Halting, Ready
    <3>4. pc # "clearin" BY <2>1, <2>3 DEF Course
    <3> QED
      BY <2>1, <2>2, <2>3, <3>1, <3>2, <3>3, <3>4 DEF Course, Untouched, Device, Steps
  <2> QED BY <2>6 DEF Answered
<1>3. Refusing' BY DEF TakeStatus, Refusing
<1>4. Course' BY TakeStatusCourse
<1> QED BY <1>1, <1>2, <1>3, <1>4

(* MassStorageReset keeps the invariant.                                   *)
LEMMA MassStorageResetSafe ==
  ASSUME Friendly, Typed, Safe, MassStorageReset PROVE Safe'
<1> USE DEF Safe, Typed, device, hostVars, busVars, Goto, Live, NoStall
<1>1. Bus' BY DEF MassStorageReset, Bus
<1>2. Resting' BY DEF MassStorageReset, Resting
<1>3. Refusing' BY DEF MassStorageReset, Refusing
<1>4. Course' BY MassStorageResetCourse
<1> QED BY <1>1, <1>2, <1>3, <1>4

(* ClearBoth keeps the invariant.                                          *)
LEMMA ClearBothSafe ==
  ASSUME Friendly, Typed, Safe, ClearBoth PROVE Safe'
<1> USE DEF Safe, Typed, device, hostVars, busVars, Goto, Live, NoStall, ClearFeature
<1>1. Bus' BY DEF ClearBoth, Bus
<1>2. Resting' BY DEF ClearBoth, Resting
<1>3. Refusing' BY DEF ClearBoth, Refusing
<1>4. Course' BY ClearBothCourse
<1> QED BY <1>1, <1>2, <1>3, <1>4

(* GiveUp keeps the invariant.                                             *)
LEMMA GiveUpSafe ==
  ASSUME Friendly, Typed, Safe, GiveUp PROVE Safe'
<1> USE DEF Safe, Typed, device, hostVars, busVars, Goto, Live, NoStall
<1>1. Bus' BY DEF GiveUp, Bus
<1>2. Resting' BY DEF GiveUp, Resting
<1>3. Refusing' BY DEF GiveUp, Refusing
<1>4. Course' BY GiveUpCourse
<1> QED BY <1>1, <1>2, <1>3, <1>4

(* BusReset keeps the invariant.                                           *)
LEMMA BusResetSafe ==
  ASSUME Friendly, Typed, Safe, BusReset PROVE Safe'
<1> USE DEF Safe, Typed, device, hostVars, busVars, Goto, Live, NoStall
<1>a. /\ ready' = FALSE /\ host' = "reset" /\ stale' = (stale \/ pc # "task") /\ pc' = pc
      /\ massReset' = massReset
  BY DEF BusReset
<1>b. lost' => stale'
  <2>1. ASSUME lost' PROVE pc # "task"
    <3>1. CASE MaySelect BY <3>1 DEF MaySelect
    <3>2. CASE ~MaySelect BY <2>1, <3>2 DEF BusReset, Selects
    <3> QED BY <3>1, <3>2
  <2> QED BY <1>a, <2>1
<1>1. Bus' BY <1>a, <1>b DEF Bus
<1>2. Resting' BY DEF BusReset, Resting
<1>3. Refusing' BY DEF BusReset, Refusing
<1>4. Course' BY BusResetCourse
<1> QED BY <1>1, <1>2, <1>3, <1>4

(* Configure keeps the invariant.                                          *)
LEMMA ConfigureSafe ==
  ASSUME Friendly, Typed, Safe, Configure PROVE Safe'
<1> USE DEF Safe, Typed, device, hostVars, busVars, Goto, Live, NoStall, Zeroed, NoCommand
<1>1. Bus' BY DEF Configure, Bus
<1>2. Resting' BY DEF Configure, Resting
<1>3. Refusing' BY DEF Configure, Refusing
<1>4. Course' BY ConfigureCourse
<1> QED BY <1>1, <1>2, <1>3, <1>4

(* The program starts at rest.                                             *)
LEMMA SafeStarts == Init => Safe
<1> SUFFICES ASSUME Init PROVE Safe
  OBVIOUS
<1>1. Bus BY DEF Init, Bus
<1>2. Resting BY DEF Init, Resting, NoStall
<1>3. Refusing /\ Course BY DEF Init, Refusing, Course, Live
<1> QED BY <1>1, <1>2, <1>3 DEF Safe

(* Every step keeps the invariant.                                         *)
LEMMA SafeKept ==
  ASSUME Friendly
  PROVE  Typed /\ Safe /\ [Next]_vars => Safe'
<1> SUFFICES ASSUME Typed, Safe, [Next]_vars PROVE Safe'
  OBVIOUS
<1>1. CASE ~lost /\ OnEndpoint
  BY <1>1, TaskSafe, ReadHeaderSafe, ReadPartOfHeaderSafe, ReadNothingSafe, ValidateSafe,
     RefuseWrapperSafe, ReadBodySafe, ClearOUTSafe, StreamSafe, StreamFailsSafe, FinishSafe, ReadChunkSafe,
     ReadBankFullSafe, ReadEndSafe, WriteChunkSafe, WriteBankEmptySafe, WriteEndSafe,
     TransferFailsSafe, FillStatusSafe, WriteStatusSafe, FlushBeforeStatusSafe,
     StatusFailsSafe, ClearINSafe, ResetFIFOsSafe, EndResetSafe DEF OnEndpoint
<1>2. CASE Main
  BY <1>1, <1>2, DispatchSafe, AccountSafe, WaitWhileStalledSafe, AstraySafe DEF Main
<1>3. CASE Serve
  BY <1>3, TakeDataSafe, SendDataSafe, SeeStallSafe, TakeStatusSafe, MassStorageResetSafe,
     ClearBothSafe, ConfigureSafe DEF Serve
<1>4. CASE SendCommand \/ GiveUp \/ BusReset
  BY <1>4, SendCommandSafe, GiveUpSafe, BusResetSafe
<1>5. CASE AtTheBound \/ UNCHANGED vars
  BY <1>5 DEF AtTheBound, vars, device, hostVars, busVars, Safe, Bus, Resting, Refusing, Course,
     Live, NoStall, Held, Untouched, HostStep, Received, Waiting, Owned, Answered, Streaming,
     Filling, Total, Halved, Relayed, Padded, ReadingBlocks, WritingBlocks, Accounting, Due, Failed, StatusDue, Filled, Ready, Halting
<1> QED BY <1>2, <1>3, <1>4, <1>5 DEF Next

(* What a host that waits finds in a packet.                               *)
LEMMA Packets ==
  ASSUME Typed, Safe, in.sent, Live
  PROVE  /\ command.valid /\ tag >= 1
         /\ pc \in {"task", "reset", "half", "stream", "pad", "read", "account", "status", "waitout", "waitin",
                   "csw"}
         /\ Answered \/ (in.tags = {tag} /\ in.csw = NoStatus)
<1> USE DEF Safe
<1>1. in # Fresh /\ command.valid /\ tag >= 1
  BY Literals DEF Bus, Refusing, Live
<1>2. ASSUME Waiting PROVE in.tags = {tag} /\ in.csw = NoStatus BY <1>2 DEF Waiting
<1>3. CASE pc \in {"task", "reset"} BY <1>1, <1>3 DEF Course, Untouched
<1>4. CASE pc \in {"half", "stream", "pad", "read"}
  <2>1. EndpointSize > 0 BY CommandAssumption DEF CommandAssumption
  <2> QED BY <1>1, <1>4, <2>1 DEF Course, Streaming, Filling, ReadingBlocks
<1>5. CASE pc \in {"account", "status", "waitout", "waitin", "csw"}
  BY <1>1, <1>2, <1>5 DEF Course, Accounting, StatusDue, Halting, Ready
<1>6. pc # "clearin" BY <1>1 DEF Course
<1>7. pc \notin {"header", "validate", "body", "clearout", "dispatch", "write", "finish"}
  BY <1>1 DEF Course, Untouched, Streaming, Filling, WritingBlocks
<1>8. pc \notin {"refuse", "unstall"} BY <1>1 DEF Course
<1>9. pc \in Steps BY DEF Typed, Device
<1> QED BY <1>1, <1>3, <1>4, <1>5, <1>6, <1>7, <1>8, <1>9 DEF Steps

(* Once the driver has waited too short it goes through the rest of the    *)
(* command, with nothing in its bank that is not of it, and takes no other *)
(* command up.                                                             *)
Serving == {"half", "stream", "pad", "finish", "account", "status", "waitout", "waitin", "csw",
            "clearin"}
Lagging ==
  Late =>
    /\ out.kind # "wrapper" /\ in.tags \in {{}, {tag}} /\ (in.sent => in.tags = {tag})
    /\ in.csw = NoStatus \/ (in.csw.tag = tag /\ in.bytes = Status)
    /\ pc \in Serving \cup {"reset", "task", "header", "validate", "refuse"}
    /\ pc \in Serving => block.tag = tag /\ NoStall /\ senseKey = "good"
    /\ pc \in Serving \ {"clearin"} => in.csw = NoStatus
    /\ pc \in {"account", "status", "waitout", "waitin", "csw"} => in.sent \/ in = Fresh
    /\ pc \in {"waitout", "waitin", "csw", "clearin"} => csw.tag = tag
    /\ pc = "clearin" =>
         in = [bytes |-> Status, tags |-> {tag}, csw |-> csw, sent |-> FALSE]
    /\ pc = "validate" => ~block.command.valid

(* The wait that was too short is of a transfer or of the status.          *)
LEMMA LateStarts ==
  ASSUME Friendly, Typed, Safe, ~lost, Live, StreamFails \/ TransferFails \/ StatusFails
  PROVE  Lagging'
<1> USE DEF Safe, Typed, device, hostVars, busVars, Goto, Lagging, Serving
<1>1. /\ command.valid /\ ready
      /\ UNCHANGED <<host, tag, block, csw, senseKey, in, out, stalled>>
  BY DEF StreamFails, TransferFails, StatusFails, Refusing, Bus, Live, Streams
<1>a. EndpointSize > 0 /\ Fresh.tags = {} /\ Fresh.csw = NoStatus
  BY CommandAssumption DEF CommandAssumption, Fresh
<1>2. CASE StreamFails
  <2>1. Streaming BY <1>1, <1>2 DEF StreamFails, Streams, Course
  <2>2. pc' \in {"stream", "pad", "finish"} BY <1>2 DEF StreamFails, NextStream
  <2>3. /\ in.csw = NoStatus /\ in.tags \in {{}, {tag}} /\ (in.sent => in.tags = {tag})
        /\ block.tag = tag /\ NoStall /\ senseKey = "good" /\ out.kind # "wrapper"
    BY <1>a, <2>1 DEF Streaming, Filling, Held, Empty
  <2> QED BY <1>1, <2>2, <2>3 DEF NoStall
<1>3. CASE TransferFails /\ pc = "read"
  <2>1. ReadingBlocks /\ in.sent BY <1>1, <1>3 DEF TransferFails, Course, InFails
  <2>2. /\ in.csw = NoStatus /\ in.tags = {tag} /\ block.tag = tag /\ NoStall
        /\ senseKey = "good" /\ out.kind # "wrapper"
    BY <1>a, <2>1, Literals DEF ReadingBlocks, Held, Empty
  <2> QED BY <1>1, <1>3, <2>1, <2>2 DEF TransferFails, NoStall
<1>4. CASE TransferFails /\ pc = "write"
  <2>1. WritingBlocks BY <1>1, <1>4 DEF Course
  <2>2. /\ in = Fresh /\ in.sent = FALSE /\ block.tag = tag /\ NoStall
        /\ senseKey = "good" /\ out.kind # "wrapper"
    BY <2>1, Literals DEF WritingBlocks, Received, Held, Empty
  <2> QED BY <1>1, <1>4, <1>a, <2>2 DEF TransferFails, NoStall
<1>5. CASE StatusFails
  <2>1. Ready BY <1>1, <1>5 DEF StatusFails, Course
  <2>2. in.sent BY <1>1, <1>5 DEF StatusFails, InFails
  <2>3. Waiting /\ out = Empty BY <2>1, <2>2, Literals DEF Ready
  <2>4. in.csw = NoStatus /\ in.tags = {tag} /\ out.kind # "wrapper"
    BY <2>3 DEF Waiting, Empty
  <2> QED BY <1>1, <1>5, <2>4 DEF StatusFails
<1> QED BY <1>2, <1>3, <1>4, <1>5 DEF TransferFails

(* The main loop goes on from there.                                       *)
LEMMA LateEndpoint ==
  ASSUME Friendly, Typed, Safe, Lagging, ~lost, OnEndpoint, Late, Late', massReset = FALSE,
         UNCHANGED <<host, tag>>
  PROVE  Lagging'
<1> USE DEF Safe, Typed, device, hostVars, busVars, Goto, Serving
<1>1. /\ ready /\ in \in InBanks /\ in.sent \in BOOLEAN
      /\ Fresh.tags = {} /\ Fresh.csw = NoStatus /\ Fresh.bytes = 0
      /\ EndpointSize \in Nat /\ EndpointSize > Status
  BY Fields, CommandAssumption DEF Bus, Late, Device, Fresh, CommandAssumption, Status
<1>2. CASE Task BY <1>2 DEF Task, Lagging
<1>3. CASE ReadHeader BY <1>3 DEF ReadHeader, Lagging, NoCommand
<1>4. CASE ReadPartOfHeader BY <1>4 DEF ReadPartOfHeader, Lagging, Empty
<1>5. CASE ReadNothing \/ RefuseWrapper BY <1>5 DEF ReadNothing, RefuseWrapper, Lagging
<1>6. CASE Validate BY <1>6 DEF Validate, Lagging
<1>7. CASE ReadBody \/ ClearOUT \/ EndReset
  BY <1>7 DEF ReadBody, ClearOUT, EndReset, Lagging
<1>8. CASE \/ ReadChunk \/ ReadBankFull \/ ReadEnd \/ WriteChunk \/ WriteBankEmpty \/ WriteEnd
           \/ TransferFails
  BY <1>8 DEF ReadChunk, ReadBankFull, ReadEnd, WriteChunk, WriteBankEmpty, WriteEnd,
              TransferFails, Lagging
<1>9. CASE Stream
  <2> DEFINE n == IF left < EndpointSize - in.bytes THEN left ELSE EndpointSize - in.bytes
  <2>1. n \in Nat /\ in.bytes + n <= EndpointSize BY <1>1, Fields DEF Device
  <2>2. /\ in' = [Write(n) EXCEPT !.sent = left > n] /\ pc \in {"half", "stream", "pad"}
        /\ pc' \in {"half", "stream", "pad", "finish"}
        /\ UNCHANGED <<block, senseKey, csw, stalled, out>>
    BY <1>9 DEF Stream, NextStream, Streams
  <2> HIDE DEF n
  <2>3. Write(n) \in InBanks /\ Write(n).tags = {tag} /\ Write(n).csw = NoStatus
    BY <2>1, <2>2, WriteOf DEF Lagging
  <2>4. in'.tags = {tag} /\ in'.csw = NoStatus
    <3>1. (left > n) \in BOOLEAN OBVIOUS
    <3> QED BY <2>2, <2>3, <3>1, InOf
  <2> QED BY <2>2, <2>4 DEF Lagging, NoStall
<1>10. CASE StreamFails
  <2>1. /\ pc \in {"half", "stream", "pad"} /\ pc' \in {"stream", "pad", "finish"}
        /\ UNCHANGED <<block, senseKey, csw, stalled, in, out>>
    BY <1>10 DEF StreamFails, NextStream, Streams
  <2> QED BY <2>1 DEF Lagging, NoStall
<1>11. CASE Finish
  <2>1. pc = "finish" /\ pc' = "account" /\ UNCHANGED <<block, senseKey, csw, stalled, out>>
    BY <1>11 DEF Finish
  <2>2. in'.sent /\ in'.tags = {tag} /\ in'.csw = NoStatus
    <3>1. CASE in.sent BY <1>11, <2>1, <3>1 DEF Finish, Lagging
    <3>2. CASE ~in.sent
      <4>1. in' = [Write(0) EXCEPT !.sent = TRUE] BY <1>1, <1>11, <3>2 DEF Finish
      <4>2. Write(0) \in InBanks /\ Write(0).tags = {tag} /\ Write(0).csw = NoStatus
        BY <2>1, WriteOf, Fields DEF Lagging
      <4> QED BY <4>1, <4>2, InOf
    <3> QED BY <3>1, <3>2
  <2> QED BY <2>1, <2>2 DEF Lagging, NoStall
<1>12. CASE FillStatus
  <2>1. /\ csw'.tag = block.tag /\ pc = "status" /\ pc' = "waitout"
        /\ UNCHANGED <<block, senseKey, in, out>>
    BY <1>12 DEF FillStatus
  <2>2. stalled' = stalled
    BY <1>12, Fields DEF FillStatus, Lagging, Device
  <2> QED BY <2>1, <2>2 DEF Lagging, NoStall
<1>13. CASE WriteStatus
  <2>1. in = Fresh /\ block.tag = tag /\ csw.tag = tag
    BY <1>13 DEF WriteStatus, InAllowed, Lagging
  <2>2. /\ Write(Status) \in InBanks /\ Write(Status).bytes = Status
        /\ Write(Status).tags = {tag} /\ Write(Status).sent = FALSE
    BY <1>1, <2>1, WriteOf, Literals DEF Status
  <2>3. in' = [bytes |-> Status, tags |-> {tag}, csw |-> csw, sent |-> FALSE]
    BY <1>13, <2>2 DEF WriteStatus, InBanks
  <2>4. in'.tags = {tag} /\ in'.bytes = Status /\ in'.csw = csw /\ in'.sent = FALSE BY <2>3
  <2>5. /\ pc = "csw" /\ pc' = "clearin" /\ UNCHANGED <<block, senseKey, csw, stalled, out>>
    BY <1>13 DEF WriteStatus
  <2> QED BY <2>1, <2>3, <2>4, <2>5 DEF Lagging, NoStall
<1>14. CASE FlushBeforeStatus
  BY <1>1, <1>14 DEF FlushBeforeStatus, Lagging, Status
<1>15. CASE StatusFails
  <2>1. pc = "csw" /\ pc' = "reset" /\ UNCHANGED <<in, out>> BY <1>15 DEF StatusFails
  <2> QED BY <2>1 DEF Lagging
<1>16. CASE ClearIN
  <2>1. pc = "clearin" /\ pc' = "reset" /\ UNCHANGED out /\ in' = [in EXCEPT !.sent = TRUE]
    BY <1>16 DEF ClearIN
  <2>2. /\ in'.sent /\ in'.bytes = in.bytes /\ in'.csw = in.csw /\ in'.tags = in.tags
    BY <1>1, <2>1, InOf
  <2> QED BY <2>1, <2>2 DEF Lagging
<1>17. CASE ResetFIFOs BY <1>17 DEF ResetFIFOs, Lagging
<1> QED
  BY <1>2, <1>3, <1>4, <1>5, <1>6, <1>7, <1>8, <1>9, <1>10, <1>11, <1>12, <1>13, <1>14, <1>15,
     <1>16, <1>17 DEF OnEndpoint

(* What no step of the main loop touches while the host waits.             *)
LEMMA MainFrame ==
  ASSUME Main
  PROVE  /\ UNCHANGED <<host, tag, command, carried, residue>>
         /\ (UNCHANGED stale /\ (slow => slow'))
              \/ (massReset /\ stale' = FALSE /\ slow' = FALSE)
         /\ slow' = slow \/ slow' = FALSE
              \/ (~lost /\ (StreamFails \/ TransferFails \/ StatusFails))
         /\ massReset' = massReset \/ massReset' = FALSE
<1> USE DEF device, hostVars, busVars
<1>1. CASE ~lost /\ (StreamFails \/ TransferFails \/ StatusFails)
  BY <1>1 DEF StreamFails, TransferFails, StatusFails, GiveUpOn
<1>2. CASE ResetFIFOs BY <1>2 DEF ResetFIFOs
<1>3. CASE \/ Task \/ ReadHeader \/ ReadPartOfHeader \/ ReadNothing \/ Validate \/ RefuseWrapper
           \/ ReadBody \/ ClearOUT \/ Stream \/ Finish \/ ReadChunk \/ ReadBankFull \/ ReadEnd
           \/ WriteChunk \/ WriteBankEmpty \/ WriteEnd \/ FillStatus \/ WriteStatus
           \/ FlushBeforeStatus \/ ClearIN \/ EndReset
  BY <1>3 DEF Task, ReadHeader, ReadPartOfHeader, ReadNothing, Validate, RefuseWrapper,
     ReadBody, ClearOUT, Stream, Finish, ReadChunk, ReadBankFull, ReadEnd, WriteChunk,
     WriteBankEmpty, WriteEnd, FillStatus, WriteStatus, FlushBeforeStatus, ClearIN, EndReset
<1>4. CASE Dispatch \/ Account \/ WaitWhileStalled \/ Astray
  BY <1>4 DEF Dispatch, Account, WaitWhileStalled, Astray
<1> QED BY <1>1, <1>2, <1>3, <1>4 DEF Main, OnEndpoint

(* Every step keeps it.                                                    *)
LEMMA LaggingKept ==
  ASSUME Friendly, Typed, Safe, Lagging, [Next]_vars PROVE Lagging'
<1> USE DEF Safe, Typed, device, hostVars, busVars, Goto
<1> SUFFICES ASSUME Late' PROVE Lagging'
  BY DEF Lagging
<1>1. CASE Main
  <2>1. UNCHANGED <<host, tag>> /\ host \in {"data", "status"} BY <1>1, MainFrame DEF Late
  <2>2. massReset = FALSE BY <2>1 DEF Bus, Device
  <2>3. ~stale BY <1>1, <2>2, MainFrame DEF Late
  <2>4. CASE slow
    <3>1. Late BY <2>1, <2>3, <2>4 DEF Late
    <3>2. CASE ~lost /\ OnEndpoint BY <2>1, <2>2, <3>1, <3>2, LateEndpoint
    <3>3. CASE Dispatch BY <3>1, <3>3 DEF Dispatch, Lagging, Serving
    <3>4. CASE Account
      <4>1. block'.tag = block.tag BY <3>4 DEF Account, Device, Blocks
      <4>2. pc = "account" /\ pc' = "status"
            /\ UNCHANGED <<csw, senseKey, in, out, stalled>>
        BY <3>4 DEF Account
      <4> QED BY <2>1, <3>1, <4>1, <4>2 DEF Lagging, Serving, NoStall
    <3>5. CASE WaitWhileStalled
      <4>1. /\ pc \in {"waitout", "waitin"} /\ pc' \in {"waitin", "csw"}
            /\ UNCHANGED <<block, csw, senseKey, in, out, stalled>>
        BY <2>2, <3>5 DEF WaitWhileStalled
      <4> QED BY <2>1, <3>1, <4>1 DEF Lagging, Serving, NoStall
    <3>6. CASE Astray BY <2>3, <3>6 DEF Astray, Bus
    <3> QED BY <1>1, <3>2, <3>3, <3>4, <3>5, <3>6 DEF Main
  <2>5. CASE ~slow
    <3>1. Live BY <2>1, <2>3, <2>5 DEF Live
    <3>2. ~lost /\ (StreamFails \/ TransferFails \/ StatusFails)
      BY <1>1, <2>5, MainFrame DEF Late, HostSide
    <3> QED BY <3>1, <3>2, LateStarts
  <2> QED BY <2>4, <2>5
<1>2. CASE TakeData
  <2>1. Late /\ in.sent /\ in' = Fresh
        /\ UNCHANGED <<pc, block, csw, senseKey, out, stalled, tag>>
    BY <1>2 DEF TakeData, Late
  <2>2. pc # "clearin" BY <2>1 DEF Lagging
  <2> QED BY <2>1, <2>2 DEF Lagging, Serving, NoStall, Fresh
<1>3. CASE SendData
  <2>1. Late /\ out'.kind = "data"
        /\ UNCHANGED <<pc, block, csw, senseKey, in, stalled, tag>>
    BY <1>3 DEF SendData, Late
  <2> QED BY <2>1 DEF Lagging, Serving, NoStall
<1>4. CASE SeeStall
  <2>1. /\ Late /\ ~NoStall /\ (in' = in \/ in' = Fresh) /\ (out' = out \/ out' = Empty)
        /\ UNCHANGED <<pc, block, tag>>
    <3>1. /\ Late /\ (in' = in \/ in' = Fresh) /\ (out' = out \/ out' = Empty)
          /\ UNCHANGED <<pc, block, tag>>
      <4>1. host \in {"data", "status"} /\ \E d \in Directions : ClearFeature(d)
        BY <1>4, CommandFields DEF SeeStall, Late, HostSide, Directions
      <4>2. PICK d \in Directions : ClearFeature(d) BY <4>1
      <4>3. Late BY <4>1, <4>2 DEF ClearFeature, Late
      <4> QED BY <4>2, <4>3 DEF ClearFeature
    <3>2. \E d \in Directions : stalled[d]
      BY <1>4, CommandFields DEF SeeStall, Directions, HostSide
    <3> QED BY <3>1, <3>2 DEF NoStall
  <2>2. pc \in {"reset", "task", "header", "validate", "refuse"} BY <2>1 DEF Lagging
  <2> QED BY <2>1, <2>2 DEF Lagging, Serving, Fresh, Empty
<1>5. CASE \/ TakeStatus \/ MassStorageReset \/ ClearBoth \/ Configure \/ GiveUp \/ BusReset
           \/ SendCommand
  BY <1>5 DEF TakeStatus, MassStorageReset, ClearBoth, ClearFeature, Configure, GiveUp, BusReset,
     SendCommand, Late
<1>6. CASE AtTheBound \/ UNCHANGED vars
  BY <1>6 DEF AtTheBound, vars, Lagging, Late, NoStall
<1> QED BY <1>1, <1>2, <1>3, <1>4, <1>5, <1>6 DEF Next, Serve

(* The invariant is enough.                                                *)
LEMMA SafeAnswers ==
  ASSUME Typed, Safe, Lagging
  PROVE  AnswersItsCommand /\ ResidueExact
<1>1. NoStatus.tag = 0 /\ slow \in BOOLEAN BY DEF NoStatus, Typed, HostSide
<1>2. AnswersItsCommand
  <2>1. CASE Live BY <1>1, <2>1, Packets DEF AnswersItsCommand, Answered
  <2>2. CASE Late BY <1>1, <2>2 DEF AnswersItsCommand, Lagging
  <2> QED BY <1>1, <2>1, <2>2 DEF AnswersItsCommand, Live, Late
<1>3. ResidueExact
  BY <1>1, Packets DEF ResidueExact, Answered, Live
<1> QED BY <1>2, <1>3

(* No data and no status of an earlier command reaches a host that waits   *)
(* for its command, through any stall, timeout, abort, mass storage reset  *)
(* or bus reset that the main loop has recovered from.                     *)
THEOREM AnswersAlwaysItsCommand ==
  ASSUME HostWaits, \A c \in Commands : WellBehaved(c)
  PROVE  Spec => []AnswersItsCommand
<1>1. Friendly BY DEF Friendly
<1>2. Typed /\ Safe /\ [Next]_vars => Safe' BY <1>1, SafeKept
<1>3. Typed /\ Safe /\ Lagging /\ [Next]_vars => Lagging' BY <1>1, LaggingKept
<1>4. Init => Lagging BY DEF Init, Lagging, Late
<1>5. Typed /\ Safe /\ Lagging => AnswersItsCommand BY SafeAnswers
<1> QED BY <1>2, <1>3, <1>4, <1>5, SafeStarts, TypedStarts, TypedKept, PTL DEF Spec

(* The residue of every status wrapper is what was asked for less what was *)
(* moved, padding not counted, whatever allocation length a command has,   *)
(* unless its transfer gave up on a host that was only slow.               *)
THEOREM ResidueAlwaysExact ==
  ASSUME HostWaits, \A c \in Commands : WellBehaved(c)
  PROVE  Spec => []ResidueExact
<1>1. Friendly BY DEF Friendly
<1>2. Typed /\ Safe /\ [Next]_vars => Safe' BY <1>1, SafeKept
<1>3. Typed /\ Safe /\ Lagging /\ [Next]_vars => Lagging' BY <1>1, LaggingKept
<1>4. Init => Lagging BY DEF Init, Lagging, Late
<1>5. Typed /\ Safe /\ Lagging => ResidueExact BY SafeAnswers
<1> QED BY <1>2, <1>3, <1>4, <1>5, SafeStarts, TypedStarts, TypedKept, PTL DEF Spec

-----------------------------------------------------------------------------
(* The transport                                                           *)

(* The data that waits for the host in its bank.                           *)
InBank == IF in.csw = NoStatus THEN in.bytes ELSE 0

(* From the end of its transfer to the moment the command is answered.     *)
Moving ==
  \/ pc \in {"account", "status", "waitout", "waitin", "csw", "clearin", "reset"}
  \/ pc = "task" /\ in.sent

(* Of n bytes to the host, those that are not padding.                     *)
Clip(n) == IF command.op \in DOMAIN Response /\ n > Relevant(command)
           THEN Relevant(command) ELSE n

(* Data to the host has been carried or is in the bank when it has been    *)
(* moved; data to the device is moved after it has been carried.           *)
Tally ==
  Live /\ command.valid /\ Moving =>
    /\ command.direction = "in" =>
         moved = Clip(carried + InBank) /\ carried + InBank <= command.length
    /\ command.direction = "out" => moved <= carried

(* What the last answer said is forgotten with the next command, and when  *)
(* the host recovers from a failure.                                       *)
Spent == host # "idle" \/ massReset => residue = 0

(* The inductive invariant of the refinement.                              *)
Told == Typed /\ Safe /\ Spent /\ Tally

(* The main loop keeps Tally where it changes nothing Tally speaks of.     *)
LEMMA TallyStays ==
  ASSUME Tally, UNCHANGED <<command, carried, moved>>, InBank' = InBank,
         Live' => Live, Moving' => Moving
  PROVE  Tally'
BY DEF Tally, Clip

(* Before that, Course has the account of data to the host.                *)
LEMMA Counted ==
  ASSUME Friendly, Typed, Safe, Live, command.valid,
         pc \in {"half", "stream", "pad", "finish", "read"}
  PROVE  /\ command.direction = "in" /\ in.csw = NoStatus
         /\ moved = Clip(carried + in.bytes) /\ carried + in.bytes <= command.length
<1> USE DEF Safe, Typed
<1>1. /\ left \in Nat /\ moved \in Nat /\ carried \in Nat /\ in.bytes \in Nat
      /\ command.length \in Nat
  BY Fields, Asked DEF Device, HostSide
<1>2. CASE pc = "read"
  <2>1. ReadingBlocks /\ command.direction = "in" BY <1>2, Asked DEF Course, ReadingBlocks
  <2>2. in.csw = NoStatus BY <2>1, Literals DEF ReadingBlocks, Fresh
  <2>3. command.op \notin DOMAIN Response BY <2>1 DEF ReadingBlocks, Response
  <2> QED BY <1>1, <2>1, <2>2, <2>3 DEF ReadingBlocks, Clip
<1>3. CASE pc # "read"
  <2>1. Streaming BY <1>3 DEF Course
  <2>2. /\ command.direction = "in" /\ Total <= command.length /\ Total \in Nat
        /\ amount = Relevant(command) /\ amount \in Nat /\ amount <= Total
        /\ in.csw = NoStatus /\ command.op \in DOMAIN Response
    BY <2>1, Sums DEF Streaming, Filling
  <2>3. CASE pc = "half"
    BY <1>1, <2>2, <2>3 DEF Course, Halved, Half, Clip
  <2>4. CASE pc = "stream"
    BY <1>1, <2>2, <2>4 DEF Course, Relayed, Clip
  <2>5. CASE pc \in {"pad", "finish"}
    BY <1>1, <2>2, <2>5 DEF Course, Padded, Clip
  <2> QED BY <1>3, <2>2, <2>3, <2>4, <2>5
<1> QED BY <1>2, <1>3

(* What a command that is live has moved fits in it.                       *)
LEMMA Within ==
  ASSUME Friendly, Typed, Safe, Tally, in.sent, Live
  PROVE  /\ command.valid /\ moved \in Nat /\ carried \in Nat
         /\ command.length \in Nat /\ in.bytes \in Nat
         /\ command.direction \in Directions
         /\ command.direction = "in" =>
              moved = Clip(carried + InBank) /\ carried + InBank <= command.length
         /\ command.direction = "out" => moved <= carried
<1> USE DEF Safe, Typed
<1>1. command.valid /\ (Moving \/ pc \in {"half", "stream", "pad", "read"})
  BY Packets DEF Moving
<1>2. /\ moved \in Nat /\ carried \in Nat /\ in.bytes \in Nat
      /\ command \in AllCommands
  BY Fields DEF Device, HostSide
<1>3. command.length \in Nat /\ command.direction \in Directions
  BY <1>2, CommandFields, Asked
<1>4. CASE pc \in {"half", "stream", "pad", "read"}
  <2>1. command.direction = "in" /\ InBank = in.bytes BY <1>1, <1>4, Counted DEF InBank
  <2> QED BY <1>1, <1>2, <1>3, <1>4, <2>1, Counted
<1>5. CASE Moving BY <1>1, <1>2, <1>3, <1>5 DEF Tally
<1> QED BY <1>1, <1>4, <1>5

(* The steps of the main loop, on the endpoint it means.                   *)
LEMMA EndpointTally ==
  ASSUME Friendly, Typed, Safe, Safe', Tally, ~lost, OnEndpoint
  PROVE  Tally'
<1> USE DEF Safe, Typed, device, hostVars, busVars, Goto
<1> SUFFICES ASSUME Live', command'.valid, Moving' PROVE Tally'
  BY DEF Tally
<1>a. Main BY DEF Main
<1>1. UNCHANGED <<host, tag, command, carried>> BY <1>a, MainFrame
<1>2. massReset = FALSE
  <2>1. host \in {"data", "status"} BY <1>1 DEF Live
  <2> QED BY <2>1 DEF Bus, Device
<1>3. ~stale /\ ~slow
  <2>1. UNCHANGED stale /\ (slow => slow') BY <1>a, <1>2, MainFrame
  <2>2. ~stale' /\ ~slow' BY DEF Live
  <2> QED BY <2>1, <2>2, Zenon
<1>4. Live /\ command.valid /\ tag >= 1 BY <1>1, <1>3 DEF Live, Bus
<1>5. /\ moved \in Nat /\ carried \in Nat /\ in.bytes \in Nat /\ left \in Nat
      /\ command \in AllCommands /\ in \in InBanks
  BY Fields DEF Device, HostSide
<1>6. CASE Task
  <2>1. pc = "task" /\ (out = [kind |-> "wrapper", bytes |-> Wrapper] \/ Answered)
    BY <1>4, <1>6 DEF Task, Course
  <2>2. pc' = "reset" => Answered
    BY <1>6, <2>1 DEF Task, OutAllowed, Wrapper
  <2>3. Moving BY <1>6, <2>1, <2>2 DEF Task, Moving, Answered
  <2> QED BY <1>1, <1>4, <1>6, <2>3, TallyStays DEF Task, InBank
<1>7. CASE ReadHeader \/ Validate \/ ReadBody \/ ClearOUT
  BY <1>7 DEF ReadHeader, Validate, ReadBody, ClearOUT, Moving
<1>8. CASE ReadPartOfHeader BY <1>2, <1>8 DEF ReadPartOfHeader, Moving
<1>9. CASE ReadNothing \/ RefuseWrapper \/ EndReset
  BY <1>4, <1>9 DEF ReadNothing, RefuseWrapper, EndReset, Course
<1>10. CASE Stream \/ ReadChunk \/ ReadBankFull \/ WriteChunk \/ WriteBankEmpty
  BY <1>2, <1>10 DEF Stream, Streams, NextStream, ReadChunk, ReadBankFull, WriteChunk,
                    WriteBankEmpty, Moving
<1>11. CASE Finish \/ ReadEnd
  <2>1. /\ command.direction = "in" /\ in.csw = NoStatus
        /\ moved = Clip(carried + in.bytes) /\ carried + in.bytes <= command.length
    BY <1>4, <1>11, Counted DEF Finish, ReadEnd
  <2>2. in'.bytes = in.bytes /\ in'.csw = in.csw
    <3>1. CASE Finish
      <4>1. in' = in \/ in' = [Write(0) EXCEPT !.sent = TRUE] BY <3>1 DEF Finish
      <4>2. Write(0) \in InBanks /\ Write(0).bytes = in.bytes /\ Write(0).csw = in.csw
        BY <1>5, WriteOf, Fields
      <4>3. CASE in' = in BY <4>3
      <4>4. CASE in' = [Write(0) EXCEPT !.sent = TRUE]
        <5>1. in'.bytes = Write(0).bytes /\ in'.csw = Write(0).csw BY <4>2, <4>4, InOf
        <5> QED BY <4>2, <5>1
      <4> QED BY <4>1, <4>3, <4>4
    <3>2. CASE ReadEnd
      <4>1. \E b \in BOOLEAN : in' = [in EXCEPT !.sent = b] BY <3>2, Fields DEF ReadEnd
      <4> QED BY <1>5, <4>1, InOf
    <3> QED BY <1>11, <3>1, <3>2
  <2>3. InBank' = in.bytes BY <2>1, <2>2 DEF InBank
  <2>4. moved' = moved BY <1>11 DEF Finish, ReadEnd
  <2> QED BY <1>1, <2>1, <2>3, <2>4 DEF Tally, Clip
<1>12. CASE WriteEnd
  <2>1. WritingBlocks BY <1>4, <1>12 DEF WriteEnd, Course
  <2>2. command.direction # "in" BY <1>4, <2>1, Asked DEF WritingBlocks
  <2>3. moved <= carried BY <1>5, <2>1, Fields DEF WritingBlocks, Received
  <2> QED BY <1>1, <1>12, <2>2, <2>3 DEF WriteEnd, Tally
<1>b. ~(StreamFails \/ TransferFails \/ StatusFails) BY FailsLate
<1>13. CASE FillStatus
  BY <1>1, <1>4, <1>13, TallyStays DEF FillStatus, InBank, Moving
<1>14. CASE FlushBeforeStatus \/ ClearIN
  <2>1. in' = [in EXCEPT !.sent = TRUE] BY <1>14 DEF FlushBeforeStatus, ClearIN
  <2>2. in'.bytes = in.bytes /\ in'.csw = in.csw BY <1>5, <2>1, InOf
  <2> QED BY <1>1, <1>4, <1>14, <2>2, TallyStays DEF FlushBeforeStatus, ClearIN, InBank, Moving
<1>15. CASE ResetFIFOs
  BY <1>1, <1>2, <1>4, <1>15, TallyStays DEF ResetFIFOs, InBank, Moving
<1>16. CASE WriteStatus
  <2>1. Filled /\ in = Fresh
    BY <1>4, <1>16 DEF WriteStatus, Course, Ready, Waiting, InAllowed
  <2>2. in'.csw = csw BY <1>16, Fields DEF WriteStatus, Write
  <2>3. in'.csw # NoStatus BY <1>4, <2>1, <2>2 DEF Filled, NoStatus
  <2>4. InBank = 0 /\ InBank' = 0 BY <2>1, <2>3, Literals DEF InBank
  <2> QED BY <1>1, <1>4, <1>16, <2>4, TallyStays DEF WriteStatus, Moving
<1> QED
  BY <1>6, <1>7, <1>8, <1>9, <1>10, <1>11, <1>12, <1>b, <1>13, <1>14, <1>15, <1>16
     DEF OnEndpoint

(* The other steps of the main loop.                                       *)
LEMMA MainTally ==
  ASSUME Friendly, Typed, Safe, Safe', Tally, Main
  PROVE  Tally'
<1> USE DEF Safe, Typed, device, hostVars, busVars, Goto
<1>1. CASE ~lost /\ OnEndpoint BY <1>1, EndpointTally
<1>2. CASE Dispatch
  <2> SUFFICES ASSUME Live', command'.valid, Moving' PROVE Tally'
    BY DEF Tally
  <2>1. Live /\ command.valid /\ pc = "dispatch" /\ UNCHANGED <<command, carried, in>>
    BY <1>2 DEF Dispatch, Live
  <2>2. moved' = 0 /\ carried \in Nat BY <1>2 DEF Dispatch, HostSide
  <2>3. CASE command.direction = "in"
    <3>1. in.bytes = 0 /\ carried = 0
      BY <2>1, <2>3, Literals DEF Course, Untouched
    <3>2. command.length \in Nat BY <2>1, Asked
    <3>3. carried + InBank = 0 BY <3>1 DEF InBank
    <3>4. Clip(0) = 0
      <4>1. command.op \in DOMAIN Response => Relevant(command) \in Nat BY <2>1, Sums
      <4> QED BY <4>1 DEF Clip
    <3>5. (carried + InBank)' = 0 /\ Clip(0)' = 0 BY <2>1, <3>3, <3>4 DEF InBank, Clip
    <3> QED BY <2>1, <2>2, <2>3, <3>2, <3>5 DEF Tally
  <2>4. CASE command.direction # "in"
    BY <2>1, <2>2, <2>4 DEF Tally
  <2> QED BY <2>3, <2>4
<1>3. CASE Account \/ WaitWhileStalled
  BY <1>3, TallyStays DEF Account, WaitWhileStalled, InBank, Moving, Live
<1>4. CASE Astray
  BY <1>4 DEF Astray, Bus, Tally, Live
<1> QED BY <1>1, <1>2, <1>3, <1>4 DEF Main

(* A bank is empty when the host sees a stall.                             *)
LEMMA StallEmpties ==
  ASSUME Friendly, Typed, Safe, Live, command.valid, command.direction = "in",
         stalled["in"]
  PROVE  in = Fresh
<1> USE DEF Safe, Typed
<1>1. ~NoStall BY DEF NoStall, Directions
<1>2. CASE pc \in {"waitout", "waitin"}
  BY <1>1, <1>2 DEF Course, Halting
<1>3. CASE pc \in {"task", "header", "validate", "body", "clearout"}
  BY <1>1, <1>3 DEF Course, Untouched, Answered
<1>4. CASE pc \in {"dispatch", "half", "stream", "pad", "finish", "read", "write", "account"}
  BY <1>1, <1>4 DEF Course, Untouched, Streaming, ReadingBlocks, WritingBlocks, Accounting
<1>5. CASE pc \in {"status", "csw", "clearin", "reset", "refuse", "unstall"}
  BY <1>1, <1>5 DEF Course, StatusDue, Answered
<1> QED BY <1>2, <1>3, <1>4, <1>5 DEF Device, Steps

(* The steps of the host and of the handlers.                              *)
LEMMA HostTally ==
  ASSUME Friendly, Typed, Safe, Safe', Tally, Serve \/ SendCommand \/ GiveUp \/ BusReset
  PROVE  Tally'
<1> USE DEF Safe, Typed, device, hostVars, busVars
<1> SUFFICES ASSUME Live', command'.valid, Moving' PROVE Tally'
  BY DEF Tally
<1>0. moved \in Nat /\ carried \in Nat /\ in.bytes \in Nat
  BY Fields DEF Device, HostSide
<1>1. CASE SendCommand
  <2>1. ~stale /\ ~slow /\ host = "idle" /\ ~massReset /\ pc = "task" /\ UNCHANGED <<pc, in>>
    BY <1>1 DEF SendCommand, Live, Friendly
  <2>2. ~in.sent BY <2>1, Literals DEF Resting
  <2> QED BY <2>1, <2>2 DEF Moving
<1>2. CASE TakeData
  <2>1. Live /\ in.sent /\ host = "data" /\ command.direction = "in"
        /\ UNCHANGED <<command, moved>> /\ in' = Fresh /\ carried' = carried + in.bytes
    BY <1>2 DEF TakeData, Live
  <2>2. in.csw = NoStatus BY <2>1, Packets DEF Answered
  <2>3. moved = Clip(carried + in.bytes) /\ carried + in.bytes <= command.length
    BY <2>1, <2>2, Within DEF InBank
  <2>4. (carried + InBank)' = carried + in.bytes BY <1>0, <2>1, Literals DEF InBank
  <2> QED BY <2>1, <2>3, <2>4 DEF Tally, Clip
<1>3. CASE SendData
  <2>1. /\ Live /\ command.direction = "out" /\ UNCHANGED <<pc, in, command, moved>>
        /\ carried' = carried + IF command.length - carried < EndpointSize
                               THEN command.length - carried ELSE EndpointSize
        /\ host = "data"
    BY <1>3 DEF SendData, Live
  <2>2. Tally => moved <= carried BY <2>1 DEF Tally, Moving
  <2>3. carried' >= carried /\ carried' \in Nat
    <3>1. carried < command.length BY <2>1 DEF Chunked
    <3>2. command.length \in Nat BY <2>1, Asked
    <3> QED BY <1>0, <2>1, <3>1, <3>2, CommandAssumption DEF CommandAssumption
  <2> QED BY <1>0, <2>1, <2>2, <2>3 DEF Tally
<1>4. CASE SeeStall
  <2>1. Live /\ command.valid /\ UNCHANGED <<pc, command, moved, carried>>
    BY <1>4 DEF SeeStall, ClearFeature, Live
  <2>2. in' = in \/ (in' = Fresh /\ stalled["in"])
    BY <1>4 DEF SeeStall, ClearFeature
  <2>3. CASE command.direction = "in"
    <3>1. in' = in BY <2>1, <2>2, <2>3, StallEmpties
    <3> QED BY <2>1, <3>1, TallyStays DEF Moving, InBank
  <2>4. CASE command.direction # "in"
    <3>1. Moving BY <2>1, <2>2, Literals DEF Moving
    <3> QED BY <2>1, <2>4, <3>1 DEF Tally
  <2> QED BY <2>3, <2>4
<1>5. CASE TakeStatus \/ MassStorageReset \/ ClearBoth \/ Configure \/ GiveUp \/ BusReset
  BY <1>5 DEF TakeStatus, MassStorageReset, ClearBoth, ClearFeature, Configure, GiveUp, BusReset, Live
<1> QED BY <1>1, <1>2, <1>3, <1>4, <1>5 DEF Serve

(* The last answer is forgotten in time.                                   *)
LEMMA SpentKept ==
  ASSUME Typed, Safe, Spent, [Next]_vars PROVE Spent'
<1> USE DEF Safe, Spent, device, hostVars, busVars
<1>1. CASE Main BY <1>1, MainFrame
<1>2. CASE SendCommand \/ GiveUp \/ BusReset
  BY <1>2 DEF SendCommand, GiveUp, BusReset
<1>3. CASE TakeStatus BY <1>3 DEF TakeStatus, Bus
<1>4. CASE TakeData \/ SendData \/ SeeStall \/ MassStorageReset \/ ClearBoth \/ Configure
  BY <1>4 DEF TakeData, SendData, SeeStall, MassStorageReset, ClearBoth, ClearFeature, Configure
<1>5. CASE AtTheBound \/ UNCHANGED vars
  BY <1>5 DEF AtTheBound, vars
<1> QED BY <1>1, <1>2, <1>3, <1>4, <1>5 DEF Next, Serve

(* The invariant is kept.                                                  *)
LEMMA ToldKept ==
  ASSUME Friendly
  PROVE  (Init => Told) /\ (Told /\ [Next]_vars => Told')
<1>1. Init => Told
  <2>1. Init => Spent /\ Tally BY DEF Init, Spent, Tally, Live
  <2> QED BY <2>1, SafeStarts, TypedStarts DEF Told
<1>2. ASSUME Told, [Next]_vars PROVE Told'
  <2>1. Typed' /\ Safe' BY <1>2, SafeKept, TypedKept DEF Told
  <2>2. Spent' BY <1>2, SpentKept DEF Told
  <2>3. CASE Next /\ ~AtTheBound
    BY <1>2, <2>1, <2>2, <2>3, MainTally, HostTally DEF Told, Next
  <2>4. CASE AtTheBound \/ UNCHANGED vars
    BY <1>2, <2>1, <2>2, <2>4 DEF Told, AtTheBound, vars, device, hostVars, busVars, Tally, Live,
     Moving, InBank, Clip
  <2> QED BY <1>2, <2>1, <2>2, <2>3, <2>4 DEF Told
<1> QED BY <1>1, <1>2

(* The main loop goes unseen, but for the end of a reset it was late for.  *)
LEMMA MainImplements ==
  ASSUME Friendly, Told, Main
  PROVE  Abstract!Recover \/ Abstract!Abandon \/ UNCHANGED Abstract!vars
<1> USE DEF Told, Safe, Typed
<1>1. UNCHANGED <<host, command, carried, residue>> BY MainFrame
<1>2. (UNCHANGED stale /\ (slow => slow')) \/ (massReset /\ stale' = FALSE /\ slow' = FALSE)
  BY MainFrame
<1>3. CASE Settled' = Settled
  BY <1>1, <1>3 DEF Abstract!vars, Useful
<1>4. CASE ~Settled /\ Settled'
  <2>1. massReset BY <1>1, <1>2, <1>4 DEF Settled
  <2>2. host \notin {"data", "status"} /\ residue = 0 BY <2>1 DEF Bus, Spent
  <2> QED BY <1>1, <1>4, <2>2 DEF Abstract!Recover, Settled
<1>5. CASE Settled /\ ~Settled' BY <1>5 DEF Abstract!Abandon
<1>6. Settled \in BOOLEAN /\ Settled' \in BOOLEAN BY DEF Settled
<1> QED BY <1>3, <1>4, <1>5, <1>6

(* Data in either direction is carried, and no more than was asked for.    *)
LEMMA DataImplements ==
  ASSUME Friendly, Told, TakeData \/ SendData
  PROVE  Abstract!Carry \/ UNCHANGED Abstract!vars
<1> USE DEF Told, Safe, Typed, hostVars, busVars
<1>1. /\ UNCHANGED <<stale, slow, command, residue>> /\ host = "data"
      /\ host' \in {"data", "status"}
  BY DEF TakeData, SendData
<1>2. CASE stale \/ slow BY <1>1, <1>2 DEF Abstract!vars, Settled
<1>3. CASE ~stale /\ ~slow
  <2>1. Live BY <1>1, <1>3 DEF Live
  <2>2. Settled /\ Settled' BY <1>1, <1>3 DEF Settled
  <2>3. carried \in Nat /\ command.length \in Nat BY <2>1, Asked DEF HostSide
  <2>4. \E n \in Nat : carried' = carried + n /\ carried + n <= command.length
    <3>1. CASE TakeData
      <4>1. in.sent /\ carried' = carried + in.bytes /\ command.direction = "in"
        BY <3>1 DEF TakeData
      <4>2. ~Answered BY <1>1 DEF Answered
      <4>3. in.csw = NoStatus BY <2>1, <4>1, <4>2, Packets
      <4> QED BY <2>1, <2>3, <4>1, <4>2, <4>3, Within DEF InBank
    <3>2. CASE SendData
      <4>1. carried < command.length BY <3>2 DEF SendData, Chunked
      <4>2. carried' = carried + IF command.length - carried < EndpointSize
                               THEN command.length - carried ELSE EndpointSize
        BY <3>2 DEF SendData
      <4> QED BY <2>3, <4>1, <4>2, CommandAssumption DEF CommandAssumption
    <3> QED BY <3>1, <3>2
  <2>5. PICK n \in Nat : carried' = carried + n /\ carried + n <= command.length BY <2>4
  <2>6. \E u \in 0..n : Useful' = Useful + u
    <3>1. CASE command.op \in DOMAIN Response
      <4>1. Relevant(command) \in Nat BY <2>1, <3>1, Sums
      <4> DEFINE r == Relevant(command)
                 clip(m) == IF m > r THEN r ELSE m
      <4>2. Useful = clip(carried) /\ Useful' = clip(carried + n)
        BY <1>1, <2>5, <3>1 DEF Useful
      <4>3. r \in Nat BY <4>1
      <4> HIDE DEF r
      <4>4. clip(carried + n) - clip(carried) \in 0..n BY <2>3, <2>5, <4>3
      <4>5. clip(carried + n) = clip(carried) + (clip(carried + n) - clip(carried))
        BY <2>3, <2>5, <4>3
      <4> QED BY <4>2, <4>4, <4>5
    <3>2. CASE command.op \notin DOMAIN Response
      <4>1. Useful = carried /\ Useful' = carried + n BY <1>1, <2>5, <3>2 DEF Useful
      <4>2. n \in 0..n OBVIOUS
      <4> QED BY <4>1, <4>2
    <3> QED BY <3>1, <3>2
  <2>7. CASE n = 0
    <3>1. carried' = carried BY <2>3, <2>5, <2>7
    <3>2. Useful' = Useful BY <1>1, <3>1 DEF Useful
    <3> QED BY <1>1, <2>2, <3>1, <3>2 DEF Abstract!vars
  <2>8. CASE n # 0
    <3>1. n \in 1..(command.length - carried) BY <2>3, <2>5, <2>8
    <3> QED BY <1>1, <2>2, <2>5, <2>6, <3>1 DEF Abstract!Carry
  <2> QED BY <2>7, <2>8
<1>4. stale \in BOOLEAN /\ slow \in BOOLEAN BY DEF HostSide
<1> QED BY <1>2, <1>3, <1>4

(* A status with the tag of the command answers it; any other is a failure.*)
LEMMA StatusImplements ==
  ASSUME Friendly, Told, TakeStatus
  PROVE  Abstract!Answer \/ Abstract!Abandon \/ UNCHANGED Abstract!vars
<1> USE DEF Told, Safe, Typed, hostVars, busVars
<1>1. UNCHANGED <<stale, slow, command, carried>> /\ host = "status" /\ in.sent
  BY DEF TakeStatus
<1>2. CASE stale \/ slow BY <1>1, <1>2 DEF Abstract!vars, Settled
<1>3. CASE ~stale /\ ~slow /\ in.csw.tag # tag
  <2>1. host' = "giveup" BY <1>3 DEF TakeStatus
  <2> QED BY <2>1 DEF Abstract!Abandon, Settled
<1>4. CASE ~stale /\ ~slow /\ in.csw.tag = tag
  <2>1. host' = "idle" /\ residue' = in.csw.residue BY <1>4 DEF TakeStatus
  <2>2. Settled /\ Settled' BY <1>1, <1>4, <2>1 DEF Settled
  <2>3. Live BY <1>1, <1>4 DEF Live
  <2>4. Answered BY <1>1, <1>4, <2>3, Packets DEF NoStatus
  <2>5. residue' = command.length - moved BY <2>1, <2>4 DEF Answered
  <2>6. InBank = 0 BY <1>1, <1>4, <2>3, Packets DEF NoStatus, InBank
  <2>a. /\ moved \in Nat /\ carried \in Nat /\ command.length \in Nat
        /\ command.direction \in Directions
        /\ command.direction = "in" => moved = Clip(carried + InBank)
        /\ command.direction = "out" => moved <= carried
    BY <1>1, <2>3, Within
  <2>b. command.direction = "in" => moved = Useful
    <3>1. carried + InBank = carried BY <2>6, <2>a
    <3> QED BY <2>a, <3>1 DEF Clip, Useful
  <2>c. command.direction = "out" => Useful = carried
    BY <2>3, Asked DEF Useful
  <2>7. residue' \in IF command.direction = "in" THEN {command.length - Useful}
                    ELSE (command.length - Useful)..command.length
    BY <2>5, <2>a, <2>b, <2>c DEF Directions
  <2> QED BY <1>1, <2>1, <2>2, <2>7 DEF Abstract!Answer
<1>5. stale \in BOOLEAN /\ slow \in BOOLEAN BY DEF HostSide
<1> QED BY <1>2, <1>3, <1>4, <1>5

(* Every other step of the host or of a handler opens a command, abandons  *)
(* one or ends a recovery.                                                 *)
LEMMA HostImplements ==
  ASSUME Friendly, Told,
         \/ SendCommand \/ SeeStall \/ MassStorageReset \/ ClearBoth \/ Configure
         \/ GiveUp \/ BusReset
  PROVE  \/ Abstract!Open \/ Abstract!Abandon \/ Abstract!Recover
         \/ UNCHANGED Abstract!vars
<1> USE DEF Told, Safe, Typed, device, hostVars, busVars
<1>0. stale \in BOOLEAN /\ slow \in BOOLEAN /\ pc \in Steps BY DEF HostSide, Device
<1>1. CASE SendCommand
  <2>1. CASE stale \/ slow BY <2>1, <1>1 DEF SendCommand, Abstract!vars, Settled
  <2>2. CASE ~stale /\ ~slow
    <3>1. Settled /\ Settled' /\ host = "idle" /\ host' # "idle" /\ carried' = 0
          /\ command' \in Commands /\ residue' = 0
      BY <1>1, <2>2 DEF SendCommand, Settled
    <3>2. Useful' = 0
      <4>1. command' \in AllCommands BY <3>1, Sizes
      <4>2. command'.op \in DOMAIN Response => Relevant(command') \in Nat
        <5>1. command'.length \in Nat BY <4>1, CommandFields, CommandAssumption DEF CommandAssumption
        <5>2. Response["inquiry"] = 36 /\ Response["sense"] = 18 /\ Response["capacity"] = 8
              /\ DOMAIN Response = {"inquiry", "sense", "capacity"}
          BY DEF Response
        <5> QED BY <5>1, <5>2 DEF Relevant
      <4> QED BY <3>1, <4>2 DEF Useful
    <3> QED BY <3>1, <3>2 DEF Abstract!Open
  <2> QED BY <2>1, <2>2
<1>2. CASE SeeStall
  <2>1. CASE host = "idle" /\ host' = "giveup"
    BY <2>1 DEF Abstract!Abandon, Settled
  <2>2. CASE /\ host \in {"data", "status"} /\ host' = "status"
             /\ UNCHANGED <<stale, slow, command, carried, residue>>
    BY <2>2 DEF Abstract!vars, Settled, Useful
  <2> QED BY <1>2, <2>1, <2>2 DEF SeeStall, ClearFeature
<1>3. CASE GiveUp \/ BusReset
  <2>1. host' \in {"giveup", "reset"} BY <1>3 DEF GiveUp, BusReset
  <2> QED BY <2>1 DEF Abstract!Abandon, Settled
<1>4. CASE MassStorageReset
  BY <1>4 DEF MassStorageReset, Abstract!vars, Settled
<1>5. CASE ClearBoth \/ Configure
  <2>1. /\ host \in {"clearin", "clearout", "reset"} /\ host' \in {"clearout", "idle"}
        /\ residue' = 0
    BY <1>5 DEF ClearBoth, ClearFeature, Configure, Spent
  <2> QED BY <2>1 DEF Abstract!Recover, Abstract!vars, Settled
<1> QED BY <1>1, <1>2, <1>3, <1>4, <1>5

(* The class driver implements the abstract transport: for a host that     *)
(* waits, every step opens a command, carries data of it, answers it with  *)
(* a residue that tells all, abandons it, or is not seen at all.           *)
THEOREM TransportImplemented ==
  ASSUME HostWaits, \A c \in Commands : WellBehaved(c)
  PROVE  Spec => ImplementsTransport
<1>1. Friendly BY DEF Friendly
<1>2. Init => Abstract!Init BY DEF Init, Abstract!Init, Settled
<1>3. ASSUME Told, [Next]_vars PROVE [Abstract!Next]_Abstract!vars
  <2>1. CASE Main BY <1>1, <1>3, <2>1, MainImplements DEF Abstract!Next
  <2>2. CASE TakeData \/ SendData BY <1>1, <1>3, <2>2, DataImplements DEF Abstract!Next
  <2>3. CASE TakeStatus BY <1>1, <1>3, <2>3, StatusImplements DEF Abstract!Next
  <2>4. CASE \/ SendCommand \/ SeeStall \/ MassStorageReset \/ ClearBoth \/ Configure
             \/ GiveUp \/ BusReset
    BY <1>1, <1>3, <2>4, HostImplements DEF Abstract!Next
  <2>5. CASE AtTheBound \/ UNCHANGED vars
    BY <2>5 DEF AtTheBound, vars, hostVars, busVars, Abstract!vars, Settled, Useful
  <2> QED BY <1>3, <2>1, <2>2, <2>3, <2>4, <2>5 DEF Next, Serve
<1>4. (Init => Told) /\ (Told /\ [Next]_vars => Told') BY <1>1, ToldKept
<1> QED BY <1>2, <1>3, <1>4, PTL DEF Spec, ImplementsTransport, Abstract!Spec
=============================================================================
