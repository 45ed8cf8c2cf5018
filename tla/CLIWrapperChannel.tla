-------------------------- MODULE CLIWrapperChannel --------------------------
(***************************************************************************)
(* The stdout path of CLIWrapper implements StdoutChannel.  The abstract   *)
(* channel is the stdout_queue followed by the lines still in the pipe:    *)
(* the process's write is a Put, the wait loop's get is a Take, and the    *)
(* reader thread's move from pipe to queue is a stutter.  The abstract    *)
(* log is event_log.                                                       *)
(***************************************************************************)
EXTENDS CLIWrapper

(* The lines json.loads rejects.                                          *)
Unparsable == {l \in Line : l.kind = "garbage"}

Channel == INSTANCE StdoutChannel
             WITH chan <- outQ \o outP, log <- eventLog,
                  Lines <- Line, Junk <- Unparsable

(* Every behaviour of the client and the process, seen through the         *)
(* mapping, is a behaviour of the FIFO channel: readline/put in            *)
(* _reader_thread and get in wait_for_result never lose, duplicate or      *)
(* reorder a stdout line, and event_log holds exactly the parsed lines     *)
(* taken so far, in the order the process wrote them (spec section 5:      *)
(* events surface in the order the process emitted them).  A reader that   *)
(* ends on a decoding error loses a line and breaks this.                  *)
StdoutFIFO == Channel!Spec
=============================================================================
