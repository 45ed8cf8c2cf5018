-------------------------- MODULE CLIWrapperProofs --------------------------
(***************************************************************************)
(* Machine-checked proofs about CLIWrapper, for every value of the         *)
(* constants allowed by ConstAssumption.                                   *)
(***************************************************************************)
EXTENDS CLIWrapper, SequenceTheorems, TLAPS

(***************************************************************************)
(* TypeOK is not inductive by itself: two counters are incremented by      *)
(* steps that rely on a guard checked one step earlier by the caller       *)
(* thread.  wait_for_result_get adds an empty poll only after              *)
(* wait_for_result_check saw the deadline not passed, and send_raw_write   *)
(* issues request sent + 1 only after send_raw_check saw sent < MaxReq.    *)
(***************************************************************************)
WaitBound == pc = "wget" => elapsed <= Timeout
SendBound == pc = "send" => sent < MaxReq

IInv == TypeOK /\ WaitBound /\ SendBound

(***************************************************************************)
(* TypeOK split by the actor that owns the variables, so that a step is    *)
(* checked only against the part it changes.                               *)
(***************************************************************************)
ChildT == [cur : 0..MaxReq, n : 0..MaxEvents, d : 0..MaxDiag, need : 0..MaxDiag]
TEnv ==
  /\ proc \in {"none", "running", "exited"} /\ termSent \in BOOLEAN
  /\ child \in ChildT
  /\ stdinP \in Seq(1..MaxReq) /\ outP \in Seq(Line) /\ errP \in 0..PipeCap
TThr ==
  /\ running \in BOOLEAN /\ outQ \in Seq(Line) /\ errQ \in Nat
  /\ outRd \in {"idle", "reading", "done"} /\ errRd \in {"idle", "reading", "done"}
  /\ logger \in {"idle", "alive", "done"}
TCtl ==
  /\ pc \in {"new", "idle", "send", "wcheck", "wget", "stopping", "raised"}
  /\ raised \in {"none", "launch", "attr", "timeout_expired"}
  /\ elapsed \in 0..(Timeout + 1) /\ sentAt \in 0..MaxReq /\ sent \in 0..MaxReq
  /\ WaitBound /\ SendBound
THist == evs \in Seq(Line) /\ eventLog \in Seq(Line) /\ waits \in Seq(Outcome)

LEMMA IInvSplit == IInv <=> TEnv /\ TThr /\ TCtl /\ THist
  BY DEF IInv, TypeOK, TEnv, ChildT, TThr, TCtl, THist

LEMMA InitIInv == Init => IInv
  <1> SUFFICES ASSUME Init PROVE IInv
    OBVIOUS
  <1> USE ConstAssumption
  <1>1. <<>> \in Seq(Line) /\ <<>> \in Seq(Outcome) /\ <<>> \in Seq(1..MaxReq)
    BY EmptySeq
  <1>2. child \in [cur : 0..MaxReq, n : 0..MaxEvents, d : 0..MaxDiag,
                   need : 0..MaxDiag]
    BY DEF Init, NoReq
  <1>3. /\ stdinP \in Seq(1..MaxReq) /\ outP \in Seq(Line)
        /\ outQ \in Seq(Line) /\ evs \in Seq(Line) /\ eventLog \in Seq(Line)
        /\ waits \in Seq(Outcome)
    BY <1>1 DEF Init
  <1>4. /\ errP \in 0..PipeCap /\ errQ \in Nat /\ elapsed \in 0..(Timeout + 1)
        /\ sentAt \in 0..MaxReq /\ sent \in 0..MaxReq
    BY DEF Init
  <1>5. /\ proc \in {"none", "running", "exited"} /\ termSent \in BOOLEAN
        /\ running \in BOOLEAN
        /\ outRd \in {"idle", "reading", "done"}
        /\ errRd \in {"idle", "reading", "done"}
        /\ logger \in {"idle", "alive", "done"}
    BY DEF Init
  <1>7. /\ pc \in {"new", "idle", "send", "wcheck", "wget", "stopping", "raised"}
        /\ raised \in {"none", "launch", "attr", "timeout_expired"}
        /\ WaitBound /\ SendBound
    BY DEF Init, WaitBound, SendBound
  <1>6. QED
    BY <1>2, <1>3, <1>4, <1>5, <1>7 DEF IInv, TypeOK

(* ResultPending, recorded in an Outcome, is a truth value.                *)
LEMMA PendingBool == ResultPending \in BOOLEAN
  BY Zenon DEF ResultPending

(* The child's counters stay within their bounds when bumped under guard.  *)
LEMMA ChildBumpN ==
  ASSUME NEW c \in ChildT, NEW c2, c.n < MaxEvents, c2 = [c EXCEPT !.n = @ + 1]
  PROVE  c2 \in ChildT
  BY ConstAssumption DEF ChildT

LEMMA ChildBumpD ==
  ASSUME NEW c \in ChildT, NEW c2, c.d < c.need, c2 = [c EXCEPT !.d = @ + 1]
  PROVE  c2 \in ChildT
  BY ConstAssumption DEF ChildT

LEMMA EnvUnchanged == TEnv /\ UNCHANGED envVars => TEnv'
  BY DEF TEnv, envVars
LEMMA ThrUnchanged == TThr /\ UNCHANGED thrVars => TThr'
  BY DEF TThr, thrVars
LEMMA HistUnchanged == THist /\ UNCHANGED <<evs, eventLog, waits>> => THist'
  BY DEF THist

(* An outcome returned by wait_for_result is an Outcome.                   *)
LEMMA OutcomeType ==
  ASSUME NEW ok \in BOOLEAN, NEW why \in {"result", "timeout", "exited"},
         NEW es \in Seq(Line), sentAt \in 0..MaxReq
  PROVE  [ok |-> ok, why |-> why, evs |-> es, sentAt |-> sentAt,
          pending |-> ResultPending] \in Outcome
  BY PendingBool DEF Outcome

LEMMA NextIInv == IInv /\ [Next]_vars => IInv'
  <1> SUFFICES ASSUME TEnv, TThr, TCtl, THist, [Next]_vars
               PROVE  TEnv' /\ TThr' /\ TCtl' /\ THist'
    BY DEF IInv, TypeOK, TEnv, ChildT, TThr, TCtl, THist
  <1> USE ConstAssumption
  <1>1. CASE start
    <2>1. TThr'
      BY <1>1 DEF start, TThr
    <2>2. TCtl'
      BY <1>1 DEF start, TCtl, WaitBound, SendBound
    <2>3. TEnv'
      BY <1>1 DEF start, TEnv
    <2>4. THist'
      BY <1>1 DEF start, THist
    <2>5. QED
      BY <2>1, <2>2, <2>3, <2>4
  <1>2. CASE send_raw_check
    <2>1. TCtl'
      BY <1>2 DEF send_raw_check, TCtl, WaitBound, SendBound
    <2>2. TEnv' /\ TThr' /\ THist'
      BY <1>2 DEF send_raw_check, TEnv, TThr, THist, envVars, thrVars
    <2>3. QED
      BY <2>1, <2>2
  <1>3. CASE send_raw_write
    <2>1. CASE proc = "running" /\ Len(stdinP) < PipeCap
              /\ stdinP' = Append(stdinP, sent + 1) /\ sent' = sent + 1
      <3>1. sent + 1 \in 1..MaxReq
        BY <1>3 DEF send_raw_write, TCtl, SendBound
      <3>2. stdinP' \in Seq(1..MaxReq)
        BY <2>1, <3>1, AppendProperties DEF TEnv
      <3>3. TEnv'
        BY <1>3, <3>2 DEF send_raw_write, TEnv
      <3>4. TCtl'
        BY <1>3, <2>1, <3>1 DEF send_raw_write, TCtl, WaitBound, SendBound
      <3>5. QED
        BY <1>3, <3>3, <3>4, ThrUnchanged, HistUnchanged DEF send_raw_write
    <2>2. CASE proc = "exited" /\ UNCHANGED <<stdinP, sent>>
      <3>1. TEnv'
        BY <1>3, <2>2 DEF send_raw_write, TEnv
      <3>2. TCtl'
        BY <1>3, <2>2 DEF send_raw_write, TCtl, WaitBound, SendBound
      <3>3. QED
        BY <1>3, <3>1, <3>2, ThrUnchanged, HistUnchanged DEF send_raw_write
    <2>3. QED
      BY <1>3, <2>1, <2>2 DEF send_raw_write
  <1>4. CASE wait_for_result_begin
    <2>1. TCtl' /\ THist'
      BY <1>4, EmptySeq DEF wait_for_result_begin, TCtl, THist, WaitBound,
         SendBound
    <2>2. QED
      BY <1>4, <2>1, EnvUnchanged, ThrUnchanged DEF wait_for_result_begin
  <1>5. CASE wait_for_result_check
    <2>1. waits' \in Seq(Outcome)
      <3>1. CASE elapsed > Timeout
        <4>1. waits' = Append(waits, [ok |-> FALSE, why |-> "timeout",
                evs |-> evs, sentAt |-> sentAt, pending |-> ResultPending])
          BY <1>5, <3>1 DEF wait_for_result_check, Finish, TCtl
        <4>2. QED
          BY <4>1, OutcomeType, AppendProperties DEF TCtl, THist
      <3>2. CASE elapsed <= Timeout /\ proc = "exited"
        <4>1. waits' = Append(waits, [ok |-> FALSE, why |-> "exited",
                evs |-> evs, sentAt |-> sentAt, pending |-> ResultPending])
          BY <1>5, <3>2 DEF wait_for_result_check, Finish, TCtl
        <4>2. QED
          BY <4>1, OutcomeType, AppendProperties DEF TCtl, THist
      <3>3. CASE elapsed <= Timeout /\ proc = "running"
        <4>1. waits' = waits
          BY <1>5, <3>3 DEF wait_for_result_check, Finish, TCtl
        <4>2. QED
          BY <4>1 DEF THist
      <3>4. QED
        BY <1>5, <3>1, <3>2, <3>3 DEF wait_for_result_check
    <2>2. TCtl'
      BY <1>5 DEF wait_for_result_check, Finish, TCtl, WaitBound, SendBound
    <2>3. QED
      BY <1>5, <2>1, <2>2, EnvUnchanged, ThrUnchanged
      DEF wait_for_result_check, THist
  <1>6. CASE wait_for_result_get
    <2>1. CASE queue_empty_poll
      <3>1. TCtl'
        BY <1>6, <2>1 DEF wait_for_result_get, queue_empty_poll, TCtl,
           WaitBound, SendBound
      <3>2. TThr'
        BY <1>6, <2>1 DEF wait_for_result_get, queue_empty_poll, TThr
      <3>3. QED
        BY <1>6, <2>1, <3>1, <3>2, EnvUnchanged, HistUnchanged
        DEF wait_for_result_get, queue_empty_poll
    <2>2. CASE queue_line
      <3> DEFINE l == Head(outQ)
      <3>1. outQ # <<>> /\ l \in Line /\ Tail(outQ) \in Seq(Line)
        BY <2>2, HeadTailProperties DEF queue_line, TThr
      <3>2. Append(evs, l) \in Seq(Line) /\ Append(eventLog, l) \in Seq(Line)
        BY <3>1, AppendProperties DEF THist
      <3>3. Append(waits, [ok |-> TRUE, why |-> "result",
                           evs |-> Append(evs, l), sentAt |-> sentAt,
                           pending |-> ResultPending]) \in Seq(Outcome)
        BY <3>2, OutcomeType, AppendProperties DEF THist, TCtl
      <3>4. THist'
        BY <2>2, <3>2, <3>3 DEF queue_line, handle_event, Finish, THist
      <3>5. TCtl'
        BY <1>6, <2>2 DEF wait_for_result_get, queue_line, handle_event,
           Finish, TCtl, WaitBound, SendBound
      <3>6. TThr'
        BY <1>6, <2>2, <3>1 DEF wait_for_result_get, queue_line, TThr
      <3>7. QED
        BY <1>6, <3>4, <3>5, <3>6, EnvUnchanged DEF wait_for_result_get
    <2>3. QED
      BY <1>6, <2>1, <2>2 DEF wait_for_result_get
  <1>7. CASE stop \/ stop_wait_return \/ stop_wait_expire
    <2>1. TThr'
      BY <1>7 DEF stop, stop_wait_return, stop_wait_expire, TThr, thrVars
    <2>4. TCtl'
      BY <1>7 DEF stop, stop_wait_return, stop_wait_expire, TCtl,
         WaitBound, SendBound
    <2>2. TEnv'
      BY <1>7 DEF stop, stop_wait_return, stop_wait_expire, TEnv, envVars
    <2>3. THist'
      BY <1>7 DEF stop, stop_wait_return, stop_wait_expire, THist
    <2>5. QED
      BY <2>1, <2>2, <2>3, <2>4
  <1>8. CASE Daemons
    <2>1. TEnv' /\ TThr'
      <3>1. CASE reader_thread_stdout
        <4>1. outP # <<>> /\ Head(outP) \in Line /\ Tail(outP) \in Seq(Line)
          BY <3>1, HeadTailProperties DEF reader_thread_stdout, TEnv
        <4>2. Append(outQ, Head(outP)) \in Seq(Line)
          BY <4>1, AppendProperties DEF TThr
        <4>3. QED
          BY <3>1, <4>1, <4>2 DEF reader_thread_stdout, TEnv, TThr
      <3>2. CASE reader_thread_stderr \/ reader_thread_stderr_fail
        BY <3>2 DEF reader_thread_stderr, reader_thread_stderr_fail, TEnv, TThr
      <3>5. CASE reader_thread_stdout_fail
        <4>1. outP # <<>> /\ Tail(outP) \in Seq(Line)
          BY <3>5, HeadTailProperties DEF reader_thread_stdout_fail, TEnv
        <4>2. QED
          BY <3>5, <4>1 DEF reader_thread_stdout_fail, TEnv, TThr
      <3>3. CASE reader_thread_stdout_eof \/ reader_thread_stderr_eof
                 \/ stderr_logger \/ stderr_logger_exit
        BY <3>3 DEF reader_thread_stdout_eof, reader_thread_stderr_eof,
           stderr_logger, stderr_logger_exit, TEnv, TThr, envVars
      <3>4. QED
        BY <1>8, <3>1, <3>2, <3>3, <3>5 DEF Daemons
    <2>2. UNCHANGED callerVars
      BY <1>8 DEF Daemons, reader_thread_stdout, reader_thread_stdout_eof,
         reader_thread_stdout_fail, reader_thread_stderr,
         reader_thread_stderr_eof, reader_thread_stderr_fail, stderr_logger,
         stderr_logger_exit
    <2>3. TCtl' /\ THist'
      BY <2>2 DEF callerVars, TCtl, THist, WaitBound, SendBound
    <2>4. QED
      BY <2>1, <2>3
  <1>9. CASE Child
    <2>1. TEnv'
      <3>1. CASE ChildRead
        <4>1. stdinP # <<>> /\ Head(stdinP) \in 1..MaxReq
              /\ Tail(stdinP) \in Seq(1..MaxReq)
          BY <3>1, HeadTailProperties DEF ChildRead, TEnv, ChildT
        <4>2. QED
          BY <3>1, <4>1 DEF ChildRead, TEnv, ChildT
      <3>2. CASE ChildEmit
        <4>1. PICK k \in EmitKinds :
                outP' = Append(outP, [req |-> child.cur, kind |-> k])
          BY <3>2 DEF ChildEmit
        <4>2. [req |-> child.cur, kind |-> k] \in Line
          BY <3>2 DEF ChildEmit, ChildServes, TEnv, ChildT, Line
        <4>3. outP' \in Seq(Line)
          BY <4>1, <4>2, AppendProperties DEF TEnv, ChildT
        <4>5. child' \in ChildT
          BY <3>2, ChildBumpN DEF ChildEmit, ChildServes, TEnv, ChildT
        <4>6. QED
          BY <3>2, <4>3, <4>5 DEF ChildEmit, TEnv, ChildT
      <3>3. CASE ChildDiag
        <4>2. child' \in ChildT
          BY <3>3, ChildBumpD DEF ChildDiag, ChildServes, TEnv, ChildT
        <4>3. QED
          BY <3>3, <4>2 DEF ChildDiag, TEnv, ChildT
      <3>4. CASE ChildResult
        <4>1. [req |-> child.cur, kind |-> "result"] \in Line
          BY <3>4 DEF ChildResult, ChildServes, TEnv, ChildT, Line, Kinds
        <4>2. outP' \in Seq(Line)
          BY <3>4, <4>1, AppendProperties DEF ChildResult, TEnv, ChildT
        <4>3. QED
          BY <3>4, <4>2 DEF ChildResult, TEnv, ChildT, NoReq
      <3>5. CASE ChildExit
        BY <3>5, EmptySeq DEF ChildExit, TEnv, ChildT, NoReq
      <3>6. QED
        BY <1>9, <3>1, <3>2, <3>3, <3>4, <3>5 DEF Child
    <2>2. UNCHANGED <<thrVars, callerVars>>
      BY <1>9 DEF Child, ChildRead, ChildEmit, ChildDiag, ChildResult,
         ChildExit
    <2>3. TThr' /\ TCtl' /\ THist'
      BY <2>2 DEF thrVars, callerVars, TThr, TCtl, THist, WaitBound, SendBound
    <2>4. QED
      BY <2>1, <2>3
  <1>10. CASE UNCHANGED vars
    BY <1>10, EnvUnchanged, ThrUnchanged, HistUnchanged
    DEF vars, callerVars, TCtl, WaitBound, SendBound
  <1>11. QED
    BY <1>1, <1>2, <1>3, <1>4, <1>5, <1>6, <1>7, <1>8, <1>9, <1>10
    DEF Next, Caller

(* Type correctness of every reachable state of the wrapper, its threads   *)
(* and the process: queues and pipes hold well-formed lines, the wait      *)
(* loop's poll counter never passes Timeout + 1 and request ids never pass *)
(* MaxReq.                                                                 *)
THEOREM TypeCorrect == Spec => []TypeOK
  <1>1. Init => IInv
    BY InitIInv
  <1>2. IInv /\ [Next]_vars => IInv'
    BY NextIInv
  <1>3. IInv => TypeOK
    BY DEF IInv
  <1>4. QED
    BY <1>1, <1>2, <1>3, PTL DEF Spec

(***************************************************************************)
(* StopLeavesNoChild.  It is not inductive alone: stop may leave the       *)
(* caller in "stopping", where running is already cleared and the child    *)
(* still lives, and a caller state after a successful start must know the  *)
(* process was launched.                                                   *)
(***************************************************************************)
StoppingCleared == pc = "stopping" => ~running
Launched ==
  pc \in {"idle", "send", "wcheck", "wget", "stopping"}
    => proc \in {"running", "exited"}

SInv == StopLeavesNoChild /\ StoppingCleared /\ Launched

LEMMA InitSInv == Init => SInv
  BY DEF Init, SInv, StopLeavesNoChild, StoppingCleared, Launched

LEMMA NextSInv == SInv /\ [Next]_vars => SInv'
  <1> SUFFICES ASSUME SInv, [Next]_vars PROVE SInv'
    OBVIOUS
  <1> USE DEF SInv, StopLeavesNoChild, StoppingCleared, Launched
  <1>1. CASE start
    BY <1>1 DEF start
  <1>2. CASE send_raw_check \/ send_raw_write \/ wait_for_result_begin
    BY <1>2 DEF send_raw_check, send_raw_write, wait_for_result_begin,
                envVars, thrVars
  <1>3. CASE wait_for_result_check
    BY <1>3 DEF wait_for_result_check, Finish, envVars, thrVars
  <1>4. CASE wait_for_result_get
    BY <1>4 DEF wait_for_result_get, queue_empty_poll, queue_line,
                handle_event, Finish, envVars
  <1>5. CASE stop
    BY <1>5 DEF stop
  <1>6. CASE stop_wait_return \/ stop_wait_expire
    BY <1>6 DEF stop_wait_return, stop_wait_expire, envVars, thrVars
  <1>7. CASE Daemons
    BY <1>7 DEF Daemons, reader_thread_stdout, reader_thread_stdout_eof,
                reader_thread_stdout_fail, reader_thread_stderr,
                reader_thread_stderr_eof, reader_thread_stderr_fail,
                stderr_logger, stderr_logger_exit, envVars, callerVars
  <1>8. CASE Child
    BY <1>8 DEF Child, ChildRead, ChildEmit, ChildDiag, ChildResult,
                ChildExit, thrVars, callerVars
  <1>9. CASE UNCHANGED vars
    BY <1>9 DEF vars, envVars, thrVars, callerVars
  <1>10. QED
    BY <1>1, <1>2, <1>3, <1>4, <1>5, <1>6, <1>7, <1>8, <1>9 DEF Next, Caller

(* Once stop() has returned the process is dead, for every value of the    *)
(* constants: stop waits for the child's exit or raises (the property      *)
(* harness test 5's restart on the same session id relies on).             *)
THEOREM StopSafe == Spec => []StopLeavesNoChild
  <1>1. Init => SInv
    BY InitSInv
  <1>2. SInv /\ [Next]_vars => SInv'
    BY NextSInv
  <1>3. SInv => StopLeavesNoChild
    BY DEF SInv
  <1>4. QED
    BY <1>1, <1>2, <1>3, PTL DEF Spec

(***************************************************************************)
(* SendNeverRaises.  Only send_raw_write leaves pc = "send": every other   *)
(* caller action starts from another pc, and the daemons and the child do  *)
(* not touch the caller's variables.  Both branches of the write return    *)
(* to "idle": the delivery counts the request, and a BrokenPipeError (the  *)
(* child exited after the poll) is caught.  No invariant is needed.        *)
(***************************************************************************)
SendStep == pc = "send" /\ pc' # "send" =>
              pc' = "idle" /\ (sent' = sent + 1 \/ proc = "exited")

LEMMA SendStepHolds == [Next]_vars => [SendStep]_vars
  <1> SUFFICES ASSUME [Next]_vars, pc = "send", pc' # "send"
               PROVE  pc' = "idle" /\ (sent' = sent + 1 \/ proc = "exited")
    BY DEF SendStep
  <1>1. CASE send_raw_write
    BY <1>1 DEF send_raw_write
  <1>2. CASE \/ start \/ send_raw_check \/ wait_for_result_begin
             \/ wait_for_result_check \/ wait_for_result_get
             \/ stop \/ stop_wait_return \/ stop_wait_expire
    BY <1>2 DEF start, send_raw_check, wait_for_result_begin,
                wait_for_result_check, wait_for_result_get, stop,
                stop_wait_return, stop_wait_expire
  <1>3. CASE Daemons \/ Child \/ UNCHANGED vars
    BY <1>3 DEF Daemons, reader_thread_stdout, reader_thread_stdout_eof,
                reader_thread_stdout_fail, reader_thread_stderr,
                reader_thread_stderr_eof, reader_thread_stderr_fail,
                stderr_logger, stderr_logger_exit, Child, ChildRead,
                ChildEmit, ChildDiag, ChildResult, ChildExit, callerVars, vars
  <1>4. QED
    BY <1>1, <1>2, <1>3 DEF Next, Caller

(* For every value of the constants, send_raw returns normally once it has *)
(* passed its poll() guard: the request is delivered, or the child died    *)
(* and the BrokenPipeError of lines 76-79 is caught (spec sections 4.4, 7).*)
THEOREM SendSafe == Spec => SendNeverRaises
  <1>1. [Next]_vars => [SendStep]_vars
    BY SendStepHolds
  <1>2. QED
    BY <1>1, PTL DEF Spec, SendNeverRaises, SendStep
=============================================================================
