----------------------------- MODULE Transport -----------------------------
(***************************************************************************)
(* What the mass storage device promises its host: a command is open until *)
(* it is answered or abandoned, no more data is carried than it asked for, *)
(* and its answer says truly how much of it was left undone.  Module       *)
(* BulkOnly, the class driver with its packets, stalls and handlers,       *)
(* implements this.                                                        *)
(***************************************************************************)
EXTENDS Integers

CONSTANTS
  Commands,  \* each with the direction and the length of its data
  NoCommand  \* no command is open

VARIABLES
  stage,     \* "idle", "open" or "recovering"
  command,   \* the open command
  carried,   \* bytes for it that have crossed the bus
  useful,    \* those of them that are data of the command, not padding
  residue    \* what the last answer said was left undone

vars == <<stage, command, carried, useful, residue>>

Init == stage = "idle" /\ command = NoCommand /\ carried = 0 /\ useful = 0 /\ residue = 0

Open ==
  /\ stage = "idle" /\ stage' = "open"
  /\ \E c \in Commands : command' = c
  /\ carried' = 0 /\ useful' = 0 /\ residue' = 0

Carry ==
  /\ stage = "open"
  /\ \E n \in 1..(command.length - carried) :
       carried' = carried + n /\ \E u \in 0..n : useful' = useful + u
  /\ UNCHANGED <<stage, command, residue>>

(* Data to the host counts when the host has it; data to the device counts  *)
(* when the device has used it, which may be less than was sent.            *)
Answer ==
  /\ stage = "open" /\ stage' = "idle"
  /\ residue' \in IF command.direction = "in" THEN {command.length - useful}
                  ELSE (command.length - useful)..command.length
  /\ command' = NoCommand /\ carried' = 0 /\ useful' = 0

Abandon ==
  /\ stage' = "recovering"
  /\ command' = NoCommand /\ carried' = 0 /\ useful' = 0 /\ residue' = 0

Recover ==
  /\ stage = "recovering" /\ stage' = "idle"
  /\ UNCHANGED <<command, carried, useful, residue>>

Next == Open \/ Carry \/ Answer \/ Abandon \/ Recover

Spec == Init /\ [][Next]_vars
=============================================================================
