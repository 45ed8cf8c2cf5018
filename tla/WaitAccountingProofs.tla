------------------------- MODULE WaitAccountingProofs -------------------------
(***************************************************************************)
(* Proof of WaitResultAccounting for every value of the constants: the     *)
(* results counted in each wait's events, in the running wait's events and *)
(* in event_log agree with the waits that returned True.  It rests on the  *)
(* type invariant of CLIWrapperProofs and on how the counts grow when a    *)
(* sequence is appended to.                                                *)
(***************************************************************************)
EXTENDS CLIWrapperProofs, FiniteSetTheorems

(* Adding index n+1 to a set of indices in 1..n adds one to its size.      *)
LEMMA CountExtend ==
  ASSUME NEW n \in Nat, NEW A \in SUBSET (1..n), NEW b \in BOOLEAN
  PROVE  /\ Cardinality(A) \in Nat
         /\ Cardinality(A \cup (IF b THEN {n + 1} ELSE {}))
              = Cardinality(A) + (IF b THEN 1 ELSE 0)
  <1>0. IsFiniteSet(1..n)
    BY FS_Interval
  <1>1. IsFiniteSet(A)
    BY <1>0, FS_Subset
  <1>2. Cardinality(A) \in Nat
    BY <1>1, FS_CardinalityType
  <1>3. CASE b
    <2>1. n + 1 \notin A
      OBVIOUS
    <2>2. Cardinality(A \cup {n + 1}) = Cardinality(A) + 1
      BY <1>1, <2>1, FS_AddElement
    <2>3. QED
      BY <1>3, <2>2, <1>2
  <1>4. CASE ~b
    BY <1>4, <1>2
  <1>5. QED
    BY <1>2, <1>3, <1>4

(* The result lines of a sequence of lines, and how appending l changes    *)
(* their count.                                                            *)
LEMMA ResultCountAppend ==
  ASSUME NEW s \in Seq(Line), NEW l \in Line
  PROVE  /\ ResultCount(s) \in Nat
         /\ ResultCount(Append(s, l))
              = ResultCount(s) + (IF IsResult(l) THEN 1 ELSE 0)
  <1> DEFINE A == {k \in DOMAIN s : IsResult(s[k])}
             B == {k \in DOMAIN Append(s, l) : IsResult(Append(s, l)[k])}
  <1>1. Len(s) \in Nat /\ DOMAIN s = 1..Len(s)
    BY LenProperties
  <1>2. B = A \cup (IF IsResult(l) THEN {Len(s) + 1} ELSE {})
    <2>1. DOMAIN Append(s, l) = 1..(Len(s) + 1)
      BY <1>1, AppendProperties, LenProperties
    <2>2. \A k \in 1..Len(s) : Append(s, l)[k] = s[k]
      BY AppendProperties
    <2>3. Append(s, l)[Len(s) + 1] = l
      BY AppendProperties
    <2>4. QED
      BY <1>1, <2>1, <2>2, <2>3
  <1>3. A \in SUBSET (1..Len(s)) /\ IsResult(l) \in BOOLEAN
    BY <1>1 DEF IsResult
  <1>4. /\ Cardinality(A) \in Nat
        /\ Cardinality(A \cup (IF IsResult(l) THEN {Len(s) + 1} ELSE {}))
             = Cardinality(A) + (IF IsResult(l) THEN 1 ELSE 0)
    BY <1>1, <1>3, CountExtend
  <1>5. QED
    BY <1>2, <1>4 DEF ResultCount

(* The same for the waits that returned True.                              *)
LEMMA SuccessCountAppend ==
  ASSUME NEW w \in Seq(Outcome), NEW o \in Outcome
  PROVE  /\ SuccessCount(w) \in Nat
         /\ SuccessCount(Append(w, o))
              = SuccessCount(w) + (IF o.ok THEN 1 ELSE 0)
  <1> DEFINE A == {k \in DOMAIN w : w[k].ok}
             B == {k \in DOMAIN Append(w, o) : Append(w, o)[k].ok}
  <1>1. Len(w) \in Nat /\ DOMAIN w = 1..Len(w)
    BY LenProperties
  <1>2. B = A \cup (IF o.ok THEN {Len(w) + 1} ELSE {})
    <2>1. DOMAIN Append(w, o) = 1..(Len(w) + 1)
      BY <1>1, AppendProperties, LenProperties
    <2>2. \A k \in 1..Len(w) : Append(w, o)[k] = w[k]
      BY AppendProperties
    <2>3. Append(w, o)[Len(w) + 1] = o
      BY AppendProperties
    <2>4. QED
      BY <1>1, <2>1, <2>2, <2>3
  <1>3. A \in SUBSET (1..Len(w)) /\ o.ok \in BOOLEAN
    BY <1>1 DEF Outcome
  <1>4. /\ Cardinality(A) \in Nat
        /\ Cardinality(A \cup (IF o.ok THEN {Len(w) + 1} ELSE {}))
             = Cardinality(A) + (IF o.ok THEN 1 ELSE 0)
    BY <1>1, <1>3, CountExtend
  <1>5. QED
    BY <1>2, <1>4 DEF SuccessCount

(* The counts are natural numbers.                                         *)
LEMMA CountNat ==
  ASSUME NEW s \in Seq(Line), NEW w \in Seq(Outcome)
  PROVE  ResultCount(s) \in Nat /\ SuccessCount(w) \in Nat
  <1>1. {k \in DOMAIN s : IsResult(s[k])} \in SUBSET (1..Len(s))
        /\ {k \in DOMAIN w : w[k].ok} \in SUBSET (1..Len(w))
        /\ Len(s) \in Nat /\ Len(w) \in Nat
    BY LenProperties
  <1>2. QED
    BY <1>1, CountExtend DEF ResultCount, SuccessCount

(* Nothing is counted in an empty sequence.                                *)
LEMMA CountEmpty == ResultCount(<<>>) = 0 /\ SuccessCount(<<>>) = 0
  BY FS_EmptySet DEF ResultCount, SuccessCount

(***************************************************************************)
(* WaitResultAccounting is inductive once the types are known: its three   *)
(* parts are split so that a step is checked against the part it changes.  *)
(***************************************************************************)
(* A returned wait holds one result, as its last event, iff it returned    *)
(* True.                                                                   *)
WaitGood(o) ==
  /\ ResultCount(o.evs) = IF o.ok THEN 1 ELSE 0
  /\ o.ok => IsResult(Last(o.evs))

WA1 == \A i \in DOMAIN waits : WaitGood(waits[i])
WA2 == Waiting => ResultCount(evs) = 0
WA3 == ResultCount(eventLog) = SuccessCount(waits)

LEMMA WRASplit == WaitResultAccounting <=> WA1 /\ WA2 /\ WA3
  BY DEF WaitResultAccounting, WA1, WA2, WA3, WaitGood

(* Recording a good outcome keeps every recorded outcome good.             *)
LEMMA WaitsAppend ==
  ASSUME NEW w \in Seq(Outcome), NEW o \in Outcome,
         \A i \in DOMAIN w : WaitGood(w[i]), WaitGood(o)
  PROVE  \A i \in DOMAIN Append(w, o) : WaitGood(Append(w, o)[i])
  <1>1. DOMAIN Append(w, o) = 1..(Len(w) + 1) /\ DOMAIN w = 1..Len(w)
    BY AppendProperties, LenProperties
  <1>2. \A i \in 1..Len(w) : Append(w, o)[i] = w[i]
    BY AppendProperties
  <1>3. Append(w, o)[Len(w) + 1] = o
    BY AppendProperties
  <1>4. QED
    BY <1>1, <1>2, <1>3, LenProperties

(* wait_for_result returns, recording outcome o: the waits stay good and   *)
(* the count of successes grows by o.ok.                                   *)
LEMMA FinishStep ==
  ASSUME NEW ok \in BOOLEAN, NEW why \in {"result", "timeout", "exited"},
         NEW es \in Seq(Line), sentAt \in 0..MaxReq, THist, WA1,
         Finish(ok, why, es),
         ResultCount(es) = IF ok THEN 1 ELSE 0, ok => IsResult(Last(es))
  PROVE  /\ WA1'
         /\ SuccessCount(waits') = SuccessCount(waits) + (IF ok THEN 1 ELSE 0)
         /\ pc' = "idle"
  <1> DEFINE o == [ok |-> ok, why |-> why, evs |-> es, sentAt |-> sentAt,
                   pending |-> ResultPending]
  <1>1. o \in Outcome
    BY OutcomeType
  <1>2. waits' = Append(waits, o) /\ pc' = "idle"
    BY DEF Finish
  <1>3. WaitGood(o)
    BY DEF WaitGood
  <1>4. waits \in Seq(Outcome)
    BY DEF THist
  <1>5. WA1'
    BY <1>1, <1>2, <1>3, <1>4, WaitsAppend DEF WA1
  <1>6. SuccessCount(waits') = SuccessCount(waits) + (IF ok THEN 1 ELSE 0)
    BY <1>1, <1>2, <1>4, SuccessCountAppend
  <1>7. QED
    BY <1>2, <1>5, <1>6

(* Every step of the client keeps WaitResultAccounting.                   *)
LEMMA NextWRA ==
  IInv /\ WaitResultAccounting /\ [Next]_vars => WaitResultAccounting'
  <1> SUFFICES ASSUME TEnv, TThr, TCtl, THist, WA1, WA2, WA3, [Next]_vars
               PROVE  WA1' /\ WA2' /\ WA3'
    BY IInvSplit DEF WaitResultAccounting, WA1, WA2, WA3, WaitGood
  <1>0. evs \in Seq(Line) /\ eventLog \in Seq(Line) /\ waits \in Seq(Outcome)
        /\ sentAt \in 0..MaxReq
    BY DEF THist, TCtl
  <1>1. CASE UNCHANGED <<pc, evs, eventLog, waits>>
    BY <1>1 DEF WA1, WA2, WA3, Waiting
  <1>2. CASE \/ start \/ send_raw_check \/ send_raw_write
             \/ stop \/ stop_wait_return \/ stop_wait_expire
    <2>1. UNCHANGED <<evs, eventLog, waits>> /\ ~Waiting'
      BY <1>2 DEF start, send_raw_check, send_raw_write, stop,
                  stop_wait_return, stop_wait_expire, Waiting
    <2>2. QED
      BY <2>1 DEF WA1, WA2, WA3
  <1>3. CASE wait_for_result_begin
    <2>1. evs' = <<>> /\ UNCHANGED <<eventLog, waits>>
      BY <1>3 DEF wait_for_result_begin
    <2>2. QED
      BY <2>1, CountEmpty DEF WA1, WA2, WA3
  <1>4. CASE wait_for_result_check
    <2>1. pc = "wcheck" /\ ResultCount(evs) = 0
      BY <1>4 DEF wait_for_result_check, WA2, Waiting
    <2>2. UNCHANGED <<evs, eventLog>>
      BY <1>4 DEF wait_for_result_check
    <2>3. CASE \E why \in {"timeout", "exited"} : Finish(FALSE, why, evs)
      <3>1. PICK why \in {"timeout", "exited"} : Finish(FALSE, why, evs)
        BY <2>3
      <3>2. /\ why \in {"result", "timeout", "exited"}
            /\ ResultCount(evs) = IF FALSE THEN 1 ELSE 0
            /\ FALSE => IsResult(Last(evs))
        BY <2>1
      <3>3. WA1' /\ SuccessCount(waits') = SuccessCount(waits) + 0
            /\ pc' = "idle"
        BY <1>0, <3>1, <3>2, FinishStep
      <3>4. QED
        BY <1>0, <2>2, <3>3, CountNat DEF WA2, WA3, Waiting
    <2>4. CASE pc' = "wget" /\ UNCHANGED waits
      BY <2>1, <2>2, <2>4 DEF WA1, WA2, WA3, Waiting
    <2>5. QED
      BY <1>4, <2>3, <2>4 DEF wait_for_result_check
  <1>5. CASE wait_for_result_get /\ queue_empty_poll
    BY <1>5 DEF wait_for_result_get, queue_empty_poll, WA1, WA2, WA3, Waiting
  <1>6. CASE wait_for_result_get /\ queue_line
    <2> DEFINE l == Head(outQ)
    <2>1. pc = "wget" /\ ResultCount(evs) = 0 /\ outQ # <<>>
      BY <1>6 DEF wait_for_result_get, queue_line, WA2, Waiting
    <2>2. l \in Line
      BY <2>1, HeadTailProperties DEF TThr
    <2>3. CASE l.kind = "garbage"
      <3>1. UNCHANGED <<evs, eventLog, waits>> /\ pc' = "wcheck"
        BY <1>6, <2>3 DEF queue_line
      <3>2. QED
        BY <2>1, <3>1 DEF WA1, WA2, WA3, Waiting
    <2>4. CASE l.kind # "garbage"
      <3>1. evs' = Append(evs, l) /\ eventLog' = Append(eventLog, l)
            /\ handle_event(l)
        BY <1>6, <2>4 DEF queue_line
      <3>2. /\ ResultCount(evs') = IF IsResult(l) THEN 1 ELSE 0
            /\ ResultCount(eventLog')
                 = ResultCount(eventLog) + (IF IsResult(l) THEN 1 ELSE 0)
        BY <1>0, <2>1, <2>2, <3>1, ResultCountAppend
      <3>3. CASE IsResult(l)
        <4>1. Finish(TRUE, "result", Append(evs, l))
          BY <3>1, <3>3 DEF handle_event, IsResult
        <4>2. Last(Append(evs, l)) = l
          BY <1>0, <2>2, AppendProperties DEF Last
        <4>3. Append(evs, l) \in Seq(Line)
          BY <1>0, <2>2, AppendProperties
        <4>4. WA1' /\ SuccessCount(waits') = SuccessCount(waits) + 1
              /\ pc' = "idle"
          BY <1>0, <3>1, <3>2, <3>3, <4>1, <4>2, <4>3, FinishStep
        <4>5. QED
          BY <3>2, <3>3, <4>4 DEF WA2, WA3, Waiting
      <3>4. CASE ~IsResult(l)
        <4>1. UNCHANGED waits /\ pc' \in {"raised", "wcheck"}
          BY <3>1, <3>4 DEF handle_event, IsResult
        <4>2. QED
          BY <1>0, <3>2, <3>4, <4>1, CountNat DEF WA1, WA2, WA3, Waiting
      <3>5. QED
        BY <3>3, <3>4
    <2>5. QED
      BY <2>3, <2>4
  <1>7. CASE Daemons \/ Child \/ UNCHANGED vars
    BY <1>7, <1>1 DEF Daemons, reader_thread_stdout, reader_thread_stdout_eof,
                     reader_thread_stdout_fail, reader_thread_stderr,
                     reader_thread_stderr_eof, reader_thread_stderr_fail,
                     stderr_logger, stderr_logger_exit, Child, ChildRead,
                     ChildEmit, ChildDiag, ChildResult, ChildExit,
                     callerVars, vars
  <1>8. QED
    BY <1>2, <1>3, <1>4, <1>5, <1>6, <1>7
    DEF Next, Caller, wait_for_result_get

(* For every value of the constants: a wait_for_result that returned True *)
(* holds exactly one result, as its last event; one that returned False or *)
(* is still looping holds none; and event_log holds exactly as many        *)
(* results as there were successful waits (the dispatch of lines 111-130). *)
THEOREM WaitAccounting == Spec => []WaitResultAccounting
  <1>1. Init => IInv /\ WaitResultAccounting
    BY InitIInv, CountEmpty DEF Init, WaitResultAccounting, Waiting
  <1>2. IInv /\ WaitResultAccounting /\ [Next]_vars
          => (IInv /\ WaitResultAccounting)'
    BY NextIInv, NextWRA
  <1>3. QED
    BY <1>1, <1>2, PTL DEF Spec
=============================================================================
