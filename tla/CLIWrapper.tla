----------------------------- MODULE CLIWrapper -----------------------------
(***************************************************************************)
(* The full-duplex client ClaudeCLIWrapper of                              *)
(* src/scripts/test_cc_cli_multiplex.py and the external process it        *)
(* drives.  Five actors interleave:                                        *)
(*   - the caller thread: start, send_raw, wait_for_result, stop;          *)
(*   - two _reader_thread daemons, one per output pipe, moving lines from  *)
(*     the OS pipe to stdout_queue / stderr_queue;                         *)
(*   - the _stderr_logger daemon draining stderr_queue while running;      *)
(*   - the external process (the environment): it reads one request at a   *)
(*     time from stdin, writes events to stdout and diagnostics to stderr, *)
(*     ends each request with a "result" line, and may crash or exit on    *)
(*     SIGTERM.                                                            *)
(* A stdout line is a record [req, kind]: the request it answers and its   *)
(* JSON "type" abstracted to a kind.  A stderr line carries nothing the    *)
(* wrapper looks at, so stderr pipe and queue are counts.  Time is the     *)
(* number of empty 0.2 s polls of the current wait.                        *)
(***************************************************************************)
EXTENDS Naturals, Sequences, SequencesExt

CONSTANTS
  MaxReq,     \* requests the caller may send (request ids 1..MaxReq)
  MaxEvents,  \* non-terminal stdout lines the process writes per request
  MaxDiag,    \* stderr lines the process may need to write per request
  PipeCap,    \* capacity, in lines, of each OS pipe
  Timeout,    \* wait_for_result deadline, in empty polls
  MaxWaits,   \* wait_for_result calls the caller may make
  EmitKinds,  \* kinds of non-terminal stdout line the process writes
  CanCrash,   \* whether the process may die without being terminated
  DecodeErrors \* whether the process may write a line the reader's text
               \* decoding rejects (text=True decodes by the locale)

(* The "type" of a stdout line, as wait_for_result tells them apart.       *)
(* "garbage" is a line json.loads rejects; "error_str" an error event      *)
(* whose "error" field is a string, "error_obj" one where it is an object. *)
Kinds == {"progress", "tool_use", "assistant", "error_obj", "error_str",
          "other", "garbage", "result"}

ASSUME ConstAssumption ==
  /\ MaxReq \in Nat \ {0}
  /\ MaxEvents \in Nat
  /\ MaxDiag \in Nat
  /\ PipeCap \in Nat \ {0}
  /\ Timeout \in Nat
  /\ MaxWaits \in Nat
  /\ EmitKinds \subseteq Kinds \ {"result"}
  /\ CanCrash \in BOOLEAN
  /\ DecodeErrors \in BOOLEAN

Line == [req : 1..MaxReq, kind : Kinds]
Outcome == [ok : BOOLEAN, why : {"result", "timeout", "exited"},
            evs : Seq(Line), sentAt : 0..MaxReq, pending : BOOLEAN]
NoReq == [cur |-> 0, n |-> 0, d |-> 0, need |-> 0]

VARIABLES
  proc,      \* the child: "none" before Popen, then "running" / "exited"
  termSent,  \* SIGTERM has been sent to the child
  child,     \* request the child works on (cur = 0: none), lines written
  stdinP,    \* request ids in the stdin pipe, not yet read by the child
  outP,      \* lines in the stdout pipe, not yet read by the reader
  errP,      \* lines in the stderr pipe
  running,   \* self.running
  outQ,      \* self.stdout_queue
  errQ,      \* self.stderr_queue (its length)
  outRd, errRd, logger,  \* the three daemon threads
  pc,        \* where the caller thread is
  raised,    \* the exception that escaped to the caller, if any
  elapsed,   \* empty polls of the current wait_for_result
  evs,       \* the local list `events` of the current wait_for_result
  sentAt,    \* (history) requests sent when the current wait began
  eventLog,  \* self.event_log
  waits,     \* (history) the outcome of every finished wait_for_result
  sent       \* (history) requests written to stdin so far

envVars == <<proc, termSent, child, stdinP, outP, errP>>
thrVars == <<running, outQ, errQ, outRd, errRd, logger>>
callerVars == <<pc, raised, elapsed, evs, sentAt, eventLog, waits, sent>>
vars == <<envVars, thrVars, callerVars>>

IsResult(l) == l.kind = "result"
(* The number of result lines in a sequence of lines.                      *)
ResultCount(s) == Cardinality({k \in DOMAIN s : IsResult(s[k])})
(* A result line is in the stdout queue or pipe, not yet read by a wait.   *)
ResultPending == \E l \in ToSet(outQ \o outP) : IsResult(l)

(* ClaudeCLIWrapper.__init__: no process, empty queues, not running.       *)
Init ==
  /\ proc = "none" /\ termSent = FALSE /\ child = NoReq
  /\ stdinP = <<>> /\ outP = <<>> /\ errP = 0
  /\ running = FALSE /\ outQ = <<>> /\ errQ = 0
  /\ outRd = "idle" /\ errRd = "idle" /\ logger = "idle"
  /\ pc = "new" /\ raised = "none" /\ elapsed = 0 /\ evs = <<>>
  /\ sentAt = 0 /\ eventLog = <<>> /\ waits = <<>> /\ sent = 0
-----------------------------------------------------------------------------
(***************************************************************************)
(* The caller thread.                                                      *)
(***************************************************************************)

(* A plausible bug: start launches no reader thread for stderr.           *)
start_no_stderr_thread ==
  /\ pc = "new"
  /\ proc' = "running" /\ running' = TRUE /\ pc' = "idle"
  /\ outRd' = "reading" /\ logger' = "alive"
  /\ UNCHANGED <<termSent, child, stdinP, outP, errP, outQ, errQ, errRd,
                 raised, elapsed, evs, sentAt, eventLog, waits, sent>>

(* start: Popen either raises (executable missing: the exception escapes)  *)
(* or returns; then running is set and the three daemons are started.      *)
start ==
  /\ pc = "new"
  /\ \/ /\ proc' = "running" /\ running' = TRUE /\ pc' = "idle"
        /\ outRd' = "reading" /\ errRd' = "reading" /\ logger' = "alive"
        /\ UNCHANGED raised
     \/ /\ pc' = "raised" /\ raised' = "launch"
        /\ UNCHANGED <<proc, running, outRd, errRd, logger>>
  /\ UNCHANGED <<termSent, child, stdinP, outP, errP, outQ, errQ,
                 elapsed, evs, sentAt, eventLog, waits, sent>>

(* send_raw, first half: refuse (return False) unless process.poll() says  *)
(* the child runs.  Refusing changes nothing, so only the other case is a  *)
(* step.  send_message only builds the payload and calls send_raw.         *)
send_raw_check ==
  /\ pc = "idle" /\ sent < MaxReq
  /\ proc = "running"
  /\ pc' = "send"
  /\ UNCHANGED <<envVars, thrVars, raised, elapsed, evs, sentAt, eventLog,
                 waits, sent>>

(* A plausible bug: BrokenPipeError is not caught and escapes send_raw.   *)
send_raw_write_uncaught ==
  /\ pc = "send"
  /\ \/ /\ proc = "running" /\ Len(stdinP) < PipeCap
        /\ stdinP' = Append(stdinP, sent + 1) /\ sent' = sent + 1
        /\ pc' = "idle" /\ UNCHANGED raised
     \/ /\ proc = "exited"
        /\ pc' = "raised" /\ raised' = "broken_pipe"
        /\ UNCHANGED <<stdinP, sent>>
  /\ UNCHANGED <<proc, termSent, child, outP, errP, thrVars,
                 elapsed, evs, sentAt, eventLog, waits>>

(* send_raw, second half: stdin.write + flush.  The write blocks while the *)
(* pipe is full; it raises BrokenPipeError (caught: return False) if the   *)
(* child died since the poll.                                              *)
send_raw_write ==
  /\ pc = "send"
  /\ \/ /\ proc = "running" /\ Len(stdinP) < PipeCap
        /\ stdinP' = Append(stdinP, sent + 1) /\ sent' = sent + 1
     \/ /\ proc = "exited"
        /\ UNCHANGED <<stdinP, sent>>
  /\ pc' = "idle"
  /\ UNCHANGED <<proc, termSent, child, outP, errP, thrVars, raised,
                 elapsed, evs, sentAt, eventLog, waits>>

(* wait_for_result: start_time and the empty local list `events`.          *)
wait_for_result_begin ==
  /\ pc = "idle" /\ Len(waits) < MaxWaits
  /\ pc' = "wcheck" /\ elapsed' = 0 /\ evs' = <<>> /\ sentAt' = sent
  /\ UNCHANGED <<envVars, thrVars, raised, eventLog, waits, sent>>

(* Return (ok, events) from wait_for_result, recording the outcome.        *)
Finish(ok, why, es) ==
  /\ waits' = Append(waits, [ok |-> ok, why |-> why, evs |-> es,
                             sentAt |-> sentAt, pending |-> ResultPending])
  /\ pc' = "idle"

(* A plausible bug: the deadline compared against one poll too late.      *)
wait_for_result_check_late ==
  /\ pc = "wcheck"
  /\ \/ /\ elapsed > Timeout + 1 /\ Finish(FALSE, "timeout", evs)
     \/ /\ elapsed <= Timeout + 1 /\ proc = "exited" /\ Finish(FALSE, "exited", evs)
     \/ /\ elapsed <= Timeout + 1 /\ proc = "running" /\ pc' = "wget"
        /\ UNCHANGED waits
  /\ UNCHANGED <<envVars, thrVars, raised, elapsed, evs, sentAt, eventLog,
                 sent>>

(* One turn of the loop, first half: the deadline check (check_status only *)
(* polls), then the process.poll() check; otherwise go on to the get.      *)
wait_for_result_check ==
  /\ pc = "wcheck"
  /\ \/ /\ elapsed > Timeout /\ Finish(FALSE, "timeout", evs)
     \/ /\ elapsed <= Timeout /\ proc = "exited" /\ Finish(FALSE, "exited", evs)
     \/ /\ elapsed <= Timeout /\ proc = "running" /\ pc' = "wget"
        /\ UNCHANGED waits
  /\ UNCHANGED <<envVars, thrVars, raised, elapsed, evs, sentAt, eventLog,
                 sent>>

(* A plausible bug: the deadline is measured from a start time taken anew  *)
(* on every turn, so empty polls never add up.                             *)
queue_empty_poll_no_clock ==
  /\ outQ = <<>>
  /\ pc' = "wcheck"
  /\ UNCHANGED <<outQ, elapsed, evs, eventLog, waits, raised>>

(* stdout_queue.get(timeout=0.2) finds the queue empty: 0.2 s pass and    *)
(* the loop goes round (queue.Empty: continue).                            *)
queue_empty_poll ==
  /\ outQ = <<>>
  /\ elapsed' = elapsed + 1 /\ pc' = "wcheck"
  /\ UNCHANGED <<outQ, evs, eventLog, waits, raised>>

(* A plausible bug: an error event, like a result, ends the wait.          *)
handle_event_error_terminal(l) ==
  \/ /\ l.kind \in {"result", "error_obj", "error_str"}
     /\ Finish(TRUE, "result", Append(evs, l)) /\ UNCHANGED raised
  \/ /\ l.kind \notin {"result", "error_obj", "error_str"}
     /\ pc' = "wcheck" /\ UNCHANGED <<waits, raised>>

(* The dispatch on event["type"] of a parsed line: "result" returns True;  *)
(* an error whose "error" field is a string makes .get('message') raise    *)
(* AttributeError, which nothing catches; every other type (progress,      *)
(* tool_use, nested tool_use in assistant/user, error objects, unknown     *)
(* types) is only logged, and the loop goes round.                         *)
handle_event(l) ==
  \/ /\ IsResult(l) /\ Finish(TRUE, "result", Append(evs, l))
     /\ UNCHANGED raised
  \/ /\ l.kind = "error_str" /\ pc' = "raised" /\ raised' = "attr"
     /\ UNCHANGED waits
  \/ /\ l.kind \notin {"result", "error_str"} /\ pc' = "wcheck"
     /\ UNCHANGED <<waits, raised>>

(* stdout_queue.get returns a line.  A line json.loads rejects is skipped; *)
(* any other is appended to events and to event_log, then dispatched.      *)
queue_line ==
  /\ outQ # <<>>
  /\ outQ' = Tail(outQ)
  /\ LET l == Head(outQ) IN
       \/ /\ l.kind = "garbage" /\ pc' = "wcheck"
          /\ UNCHANGED <<evs, eventLog, waits, raised>>
       \/ /\ l.kind # "garbage"
          /\ evs' = Append(evs, l) /\ eventLog' = Append(eventLog, l)
          /\ handle_event(l)
  /\ UNCHANGED elapsed

(* Second half of a turn of the loop: stdout_queue.get(timeout=0.2).       *)
wait_for_result_get ==
  /\ pc = "wget"
  /\ queue_empty_poll \/ queue_line
  /\ UNCHANGED <<envVars, running, errQ, outRd, errRd, logger, sentAt, sent>>

(* A plausible bug: stop sends SIGTERM and returns without waiting.        *)
stop_no_wait ==
  /\ pc = "idle"
  /\ running' = FALSE
  /\ \/ /\ proc = "running" /\ termSent' = TRUE
     \/ /\ proc # "running" /\ UNCHANGED termSent
  /\ UNCHANGED <<proc, child, stdinP, outP, errP, outQ, errQ, outRd, errRd,
                 logger, pc, raised, elapsed, evs, sentAt, eventLog, waits, sent>>

(* stop: clear running; if the child still runs, terminate() it and        *)
(* wait(timeout=5).  Otherwise stop is a no-op beyond the flag.            *)
stop ==
  /\ pc = "idle"
  /\ running' = FALSE
  /\ \/ /\ proc = "running" /\ termSent' = TRUE /\ pc' = "stopping"
     \/ /\ proc # "running" /\ UNCHANGED <<termSent, pc>>
  /\ UNCHANGED <<proc, child, stdinP, outP, errP, outQ, errQ, outRd, errRd,
                 logger, raised, elapsed, evs, sentAt, eventLog, waits, sent>>

(* process.wait(timeout=5) returns once the child has exited ...           *)
stop_wait_return ==
  /\ pc = "stopping" /\ proc = "exited"
  /\ pc' = "idle"
  /\ UNCHANGED <<envVars, thrVars, raised, elapsed, evs, sentAt, eventLog,
                 waits, sent>>

(* ... or raises TimeoutExpired, uncaught, if it has not within 5 s.       *)
stop_wait_expire ==
  /\ pc = "stopping" /\ proc = "running"
  /\ pc' = "raised" /\ raised' = "timeout_expired"
  /\ UNCHANGED <<envVars, thrVars, elapsed, evs, sentAt, eventLog, waits,
                 sent>>
-----------------------------------------------------------------------------
(***************************************************************************)
(* The daemon threads.                                                     *)
(***************************************************************************)

(* _reader_thread on stdout: readline returns the next line of the pipe,   *)
(* which is put on stdout_queue ('' only comes at end of stream).          *)
reader_thread_stdout ==
  /\ outRd = "reading" /\ outP # <<>>
  /\ outQ' = Append(outQ, Head(outP)) /\ outP' = Tail(outP)
  /\ UNCHANGED <<proc, termSent, child, stdinP, errP, running, errQ, outRd,
                 errRd, logger, callerVars>>

(* readline returns '' once the child has exited and the pipe is drained:  *)
(* the loop ends and the thread exits.                                     *)
reader_thread_stdout_eof ==
  /\ outRd = "reading" /\ proc = "exited" /\ outP = <<>>
  /\ outRd' = "done"
  /\ UNCHANGED <<envVars, running, outQ, errQ, errRd, logger, callerVars>>

(* readline raises (a line the decoding rejects): the try wraps the whole *)
(* loop, so the except at lines 55-57 logs and the thread ends.  The line  *)
(* is lost, and nothing reads the pipe again: later lines stay unread.     *)
reader_thread_stdout_fail ==
  /\ outRd = "reading" /\ DecodeErrors /\ outP # <<>>
  /\ outP' = Tail(outP) /\ outRd' = "done"
  /\ UNCHANGED <<proc, termSent, child, stdinP, errP, running, outQ, errQ,
                 errRd, logger, callerVars>>

(* The same thread body on stderr, feeding stderr_queue.                   *)
reader_thread_stderr ==
  /\ errRd = "reading" /\ errP > 0
  /\ errQ' = errQ + 1 /\ errP' = errP - 1
  /\ UNCHANGED <<proc, termSent, child, stdinP, outP, running, outQ, outRd,
                 errRd, logger, callerVars>>

(* The same failure on stderr: the pipe is never drained again.           *)
reader_thread_stderr_fail ==
  /\ errRd = "reading" /\ DecodeErrors /\ errP > 0
  /\ errP' = errP - 1 /\ errRd' = "done"
  /\ UNCHANGED <<proc, termSent, child, stdinP, outP, running, outQ, errQ,
                 outRd, logger, callerVars>>

reader_thread_stderr_eof ==
  /\ errRd = "reading" /\ proc = "exited" /\ errP = 0
  /\ errRd' = "done"
  /\ UNCHANGED <<envVars, running, outQ, errQ, outRd, logger, callerVars>>

(* _stderr_logger: while running, take a line off stderr_queue and log it. *)
stderr_logger ==
  /\ logger = "alive" /\ running /\ errQ > 0
  /\ errQ' = errQ - 1
  /\ UNCHANGED <<envVars, running, outQ, outRd, errRd, logger, callerVars>>

(* The while condition fails once stop has cleared running.                *)
stderr_logger_exit ==
  /\ logger = "alive" /\ ~running
  /\ logger' = "done"
  /\ UNCHANGED <<envVars, running, outQ, errQ, outRd, errRd, callerVars>>
-----------------------------------------------------------------------------
(***************************************************************************)
(* The external process (not code of this repository: its behaviour at the *)
(* protocol boundary).  It serves one request at a time, in stdin order;   *)
(* a write to a full pipe blocks it.                                       *)
(***************************************************************************)
ChildServes == proc = "running" /\ child.cur # 0

(* Read the next request; it will need `need` stderr lines written.        *)
ChildRead ==
  /\ proc = "running" /\ child.cur = 0 /\ stdinP # <<>>
  /\ \E k \in 0..MaxDiag :
       child' = [cur |-> Head(stdinP), n |-> 0, d |-> 0, need |-> k]
  /\ stdinP' = Tail(stdinP)
  /\ UNCHANGED <<proc, termSent, outP, errP, thrVars, callerVars>>

ChildEmit ==
  /\ ChildServes /\ child.n < MaxEvents /\ Len(outP) < PipeCap
  /\ \E k \in EmitKinds : outP' = Append(outP, [req |-> child.cur, kind |-> k])
  /\ child' = [child EXCEPT !.n = @ + 1]
  /\ UNCHANGED <<proc, termSent, stdinP, errP, thrVars, callerVars>>

ChildDiag ==
  /\ ChildServes /\ child.d < child.need /\ errP < PipeCap
  /\ errP' = errP + 1 /\ child' = [child EXCEPT !.d = @ + 1]
  /\ UNCHANGED <<proc, termSent, stdinP, outP, thrVars, callerVars>>

(* The request ends with its result line, after its stderr output.         *)
ChildResult ==
  /\ ChildServes /\ child.d = child.need /\ Len(outP) < PipeCap
  /\ outP' = Append(outP, [req |-> child.cur, kind |-> "result"])
  /\ child' = NoReq
  /\ UNCHANGED <<proc, termSent, stdinP, errP, thrVars, callerVars>>

(* Death by crash, or by SIGTERM once sent: unread stdin is lost, what it  *)
(* wrote to its output pipes stays readable.                               *)
ChildExit ==
  /\ proc = "running" /\ (CanCrash \/ termSent)
  /\ proc' = "exited" /\ child' = NoReq /\ stdinP' = <<>>
  /\ UNCHANGED <<termSent, outP, errP, thrVars, callerVars>>
-----------------------------------------------------------------------------
Caller ==
  \/ start \/ send_raw_check \/ send_raw_write
  \/ wait_for_result_begin \/ wait_for_result_check \/ wait_for_result_get
  \/ stop \/ stop_wait_return \/ stop_wait_expire

Daemons ==
  \/ reader_thread_stdout \/ reader_thread_stdout_eof \/ reader_thread_stdout_fail
  \/ reader_thread_stderr \/ reader_thread_stderr_eof \/ reader_thread_stderr_fail
  \/ stderr_logger \/ stderr_logger_exit

Child == ChildRead \/ ChildEmit \/ ChildDiag \/ ChildResult \/ ChildExit

Next == Caller \/ Daemons \/ Child

Spec == Init /\ [][Next]_vars

(* The daemons block only in readline / get, so the OS schedules each one  *)
(* whenever it can move; the child is assumed to serve what it has read.   *)
(* The caller's wait loop never blocks for long (0.2 s polls), and a       *)
(* blocked stdin.write completes once the pipe has room or the child has   *)
(* died.  Nothing obliges the caller to send, wait or stop, the child to   *)
(* crash, or a line to fail decoding.                                      *)
Fairness ==
  /\ WF_vars(reader_thread_stdout) /\ WF_vars(reader_thread_stderr)
  /\ WF_vars(stderr_logger)
  /\ WF_vars(ChildRead \/ ChildDiag \/ ChildResult)
  /\ WF_vars(wait_for_result_check) /\ WF_vars(wait_for_result_get)
  /\ WF_vars(send_raw_write)

FairSpec == Spec /\ Fairness
-----------------------------------------------------------------------------
(***************************************************************************)
(* Properties.                                                             *)
(***************************************************************************)

TypeOK ==
  /\ proc \in {"none", "running", "exited"} /\ termSent \in BOOLEAN
  /\ child \in [cur : 0..MaxReq, n : 0..MaxEvents, d : 0..MaxDiag,
                need : 0..MaxDiag]
  /\ stdinP \in Seq(1..MaxReq) /\ outP \in Seq(Line) /\ errP \in 0..PipeCap
  /\ running \in BOOLEAN /\ outQ \in Seq(Line) /\ errQ \in Nat
  /\ outRd \in {"idle", "reading", "done"} /\ errRd \in {"idle", "reading", "done"}
  /\ logger \in {"idle", "alive", "done"}
  /\ pc \in {"new", "idle", "send", "wcheck", "wget", "stopping", "raised"}
  /\ raised \in {"none", "launch", "attr", "timeout_expired"}
  /\ elapsed \in 0..(Timeout + 1) /\ evs \in Seq(Line) /\ sentAt \in 0..MaxReq
  /\ eventLog \in Seq(Line) /\ waits \in Seq(Outcome) /\ sent \in 0..MaxReq

(* The number of waits that returned True.                                 *)
SuccessCount(w) == Cardinality({k \in DOMAIN w : w[k].ok})
Waiting == pc \in {"wcheck", "wget"}

(* Results are neither invented nor swallowed: a wait that returned True   *)
(* holds exactly one result, as its last event; one that returned False,   *)
(* or is still looping, holds none; and every result that reached          *)
(* event_log ended a successful wait.  Breaks if the loop went on past a   *)
(* result, or ended on a non-result type (an error treated as terminal).   *)
WaitResultAccounting ==
  /\ \A i \in DOMAIN waits :
       /\ ResultCount(waits[i].evs) = IF waits[i].ok THEN 1 ELSE 0
       /\ waits[i].ok => IsResult(Last(waits[i].evs))
  /\ Waiting => ResultCount(evs) = 0
  /\ ResultCount(eventLog) = SuccessCount(waits)

(* The k-th wait_for_result returns the result of the k-th request sent,   *)
(* when k requests had been sent by then (the send/wait pairing the        *)
(* harness relies on, spec section 8: the result of one wait never holds   *)
(* events of another send).                                                *)
PairsInOrder ==
  \A i \in DOMAIN waits :
    waits[i].ok /\ waits[i].sentAt >= i => Last(waits[i].evs).req = i

(* wait_for_result reports that the process exited only when no result    *)
(* it wrote is still waiting in the stdout pipe or stdout_queue (spec      *)
(* section 8: success iff a result appears before the process exits).      *)
ExitedOnlyWithoutResult ==
  \A i \in DOMAIN waits : waits[i].why = "exited" => ~waits[i].pending

(* An error event is recorded and never aborts wait_for_result (spec       *)
(* sections 4.5 and 7: LogicalError does not end the wait).                *)
ErrorEventNonFatal == raised # "attr"

(* stop() never raises: it waits a grace period and is idempotent (spec    *)
(* sections 4.1 and 8).                                                    *)
StopNeverRaises == raised # "timeout_expired"

(* Once stop() has returned, the process is dead: stop waits for its exit *)
(* or raises, never returns on a live process (spec section 8: poll()      *)
(* right after stop() reports not-running).  Harness test 5 relies on it  *)
(* to restart the agent on the same session id with the old one gone.      *)
StopLeavesNoChild ==
  pc \in {"idle", "send", "wcheck", "wget"} /\ ~running => proc = "exited"

(* send_raw never raises: the write either delivers the request, or, when *)
(* the child died after the poll() guard, BrokenPipeError is caught and    *)
(* send_raw returns False (spec sections 4.4 and 7: TransportError is a    *)
(* boolean failure, not an exception).                                     *)
SendNeverRaises ==
  [][pc = "send" /\ pc' # "send" =>
       pc' = "idle" /\ (sent' = sent + 1 \/ proc = "exited")]_vars

Delivered(r) == [req |-> r, kind |-> "result"] \in ToSet(eventLog \o outQ)

(* No pipe deadlock: a request the process has read is eventually answered *)
(* on stdout_queue, or the process dies, however much it writes to stderr  *)
(* before answering (harness test 3).  Needs both reader threads draining. *)
RequestAnsweredOrDied ==
  \A r \in 1..MaxReq : (child.cur = r) ~> (Delivered(r) \/ proc = "exited")

(* send_raw always returns: a write blocked on a full stdin pipe completes *)
(* once the child reads on, or fails once it dies.  The child reads on     *)
(* only if its own output is drained, so this needs both reader threads.   *)
SendReturns == pc = "send" ~> pc # "send"

(* wait_for_result always returns, even when the process hangs silently:   *)
(* the deadline check ends the loop.                                       *)
WaitReturns == Waiting ~> ~Waiting
=============================================================================
