---------------------------- MODULE StdoutChannel ----------------------------
(***************************************************************************)
(* What the stdout path of ClaudeCLIWrapper promises its caller: a FIFO     *)
(* channel of lines.  The external process puts a line at the tail; the    *)
(* caller takes the line at the head and records it in its log unless it   *)
(* is junk (a line it cannot parse).  No line is lost, duplicated or       *)
(* overtaken on the way, whatever the reader thread does in between.       *)
(***************************************************************************)
EXTENDS Sequences

CONSTANTS
  Lines,      \* the lines the process may write
  Junk        \* those the caller skips without logging

VARIABLES
  chan,       \* the lines written and not yet taken, oldest first
  log         \* the lines the caller has taken and kept, oldest first

vars == <<chan, log>>

Init == chan = <<>> /\ log = <<>>

(* The process writes line l.                                              *)
Put(l) == chan' = Append(chan, l) /\ UNCHANGED log

(* The caller takes the oldest line, and keeps it unless it is junk.       *)
Take ==
  /\ chan # <<>> /\ chan' = Tail(chan)
  /\ log' = IF Head(chan) \in Junk THEN log ELSE Append(log, Head(chan))

Next == (\E l \in Lines : Put(l)) \/ Take

Spec == Init /\ [][Next]_vars
=============================================================================
