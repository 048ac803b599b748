----------------------------- MODULE MCBulkOnly -----------------------------
(* The commands of a host, for bulk-only transport over a 32-byte endpoint  *)
(* and blocks of two packets.                                               *)
EXTENDS BulkOnly

Cmd(op, direction, length) ==
  [op |-> op, valid |-> TRUE, refused |-> FALSE,
   direction |-> direction, length |-> length]
Refused(c) == [c EXCEPT !.refused = TRUE]

MCWellBehaved ==
  {Cmd("ready", "out", 0), Cmd("diagnostic", "out", 0), Refused(Cmd("diagnostic", "out", 0)),
   Cmd("inquiry", "in", 40), Cmd("sense", "in", 32), Cmd("sense", "in", 8),
   Cmd("capacity", "in", 8), Cmd("read", "in", 64), Cmd("write", "out", 64),
   Refused(Cmd("write", "out", 64)), Cmd("unknown", "in", 24),
   [Cmd("ready", "out", 0) EXCEPT !.valid = FALSE]}

(* Their host is the one of the theorems of BulkOnlyProofs.                 *)
ASSUME MCKnown == \A c \in MCWellBehaved : WellBehaved(c)

(* A command the firmware does not know, with one packet of data.           *)
MCShortOut == MCWellBehaved \cup {Cmd("unknown", "out", 24)}
=============================================================================
