--------------------------- MODULE ServicesProofs ----------------------------
(* Theorems about what a target does for its controller: Broker, AsyncJob,      *)
(* Calls, Selects, FilePush and FileTransfer, for any callers, streams, chains,  *)
(* receivers, contexts and transfers, any number of calls and messages, any size *)
(* of the self-pipe, the pools, the files and the window.                       *)
EXTENDS Broker, AsyncJob, Calls, Selects, FilePush, FileTransfer, SequenceLemmas, TLAPS

-----------------------------------------------------------------------------
(* Broker: calls deferred to the I/O thread                                     *)

-----------------------------------------------------------------------------
(* The inductive invariant *)

\* While the broker serves the self-pipe it is open, and the broker reads it only
\* with a byte in it.
Serving == /\ bpc \in {"loop", "dispatch", "drain"} => WakerOpen
           /\ bpc = "dispatch" /\ Waker \in ready => bytes > 0
           /\ bpc \in {"loop", "drain"} => Waker \notin ready

Queued(i)  == \E k \in DOMAIN deferred : deferred[k].id = i
Entered(i) == i \in ran \/ Queued(i)
Refused(i) == <<i, "exitted">> \in raised

\* The n-th call of c has yet to append, if it was begun.
Beyond(c, n) == n > calls[c] \/ (n = calls[c] /\ pc[c] \in {"check", "append"})

\* A function enters the deque at most once, and each call that is past its append
\* has entered it, or was refused.
Entry == \A c \in Callers, n \in 1..MaxCalls :
           /\ Entered(<<c, n>>) => ~Beyond(c, n)
           /\ ~Beyond(c, n) => Entered(<<c, n>>) \/ Refused(<<c, n>>)

\* Refusals are final: no later call of the thread enters.
Refusal == \A c \in Callers, n \in 1..MaxCalls :
             Refused(<<c, n>>) => /\ exitted
                                  /\ ~Beyond(c, n)
                                  /\ pc[c] \in {"idle", "check"}
                                  /\ \A m \in n..MaxCalls : ~Entered(<<c, m>>)

\* The deque holds the calls of a thread in their order, all later than those run.
Ordered == \A j, k \in DOMAIN deferred :
             j < k /\ deferred[j].id[1] = deferred[k].id[1] =>
               deferred[j].id[2] < deferred[k].id[2]
Later == \A c \in Callers, m, n \in 1..MaxCalls :
           <<c, m>> \in ran /\ Queued(<<c, n>>) => m < n

History == Entry /\ Refusal /\ Ordered /\ Later /\ InOrder

-----------------------------------------------------------------------------
(* Type correctness and the self-pipe *)

\* A thread inside defer() or defer_sync() has begun a call.
Begun == \A c \in Callers : pc[c] # "idle" => calls[c] \in 1..MaxCalls

PipeInv == TypeOK /\ Begun /\ Serving /\ Armed

LEMMA InitPipe == Init => PipeInv
<1> SUFFICES ASSUME Init PROVE PipeInv
  OBVIOUS
<1> USE BrokerAssumption DEF BrokerAssumption, Init
<1>1. [does |-> "call", stream |-> NoStream] \in Ops
  BY DEF Ops
<1>2. TypeOK
  <2>1. alive \in BOOLEAN /\ exitted \in BOOLEAN /\ expired \in BOOLEAN
    OBVIOUS
  <2>2. op \in [Callers -> Ops] /\ deferred \in Seq(Jobs)
    BY <1>1
  <2>3. /\ readers \subseteq Streams \cup {Waker} /\ closed \subseteq Streams \cup {Waker}
        /\ ready \subseteq Streams \cup {Waker} /\ leaving \subseteq Streams \cup {Waker}
        /\ ran \subseteq Ids /\ accepted \subseteq Ids
        /\ raised \subseteq Ids \X {"exitted", "full", "closed"}
    OBVIOUS
  <2>4. /\ bytes \in 0..PipeSize
        /\ pc \in [Callers -> {"idle", "check", "append", "wake", "write", "waiting"}]
        /\ calls \in [Callers -> 0..MaxCalls]
    OBVIOUS
  <2> QED
    BY <2>1, <2>2, <2>3, <2>4 DEF TypeOK
<1>3. Begun /\ Serving /\ Armed
  BY DEF Begun, Serving, Armed, WakerOpen
<1> QED
  BY <1>2, <1>3 DEF PipeInv

LEMMA TypeStep ==
  ASSUME TypeOK, Begun, Serving, [Next]_vars
  PROVE  TypeOK' /\ Begun'
<1> USE BrokerAssumption DEF BrokerAssumption, TypeOK, Begun
<1>1. CASE UNCHANGED vars
  BY <1>1 DEF vars, brokerVars, wakerVars, callerVars
<1>2. ASSUME NEW c \in Callers, NEW o \in Ops, Begin(c, o)
      PROVE  TypeOK' /\ Begun'
  BY <1>2 DEF Begin, brokerVars, wakerVars
<1>3. ASSUME NEW c \in Callers, CallerNext(c)
      PROVE  TypeOK' /\ Begun'
  <2>1. Id(c) \in Ids
    BY <1>3 DEF CallerNext, DeferRefused, DeferChecked, DeferAppend, DeferWake,
                DeferWrite, SyncReturn, Ids, Id
  <2>2. CASE DeferRefused(c)
    BY <2>1, <2>2 DEF DeferRefused, brokerVars, wakerVars
  <2>3. CASE DeferChecked(c)
    BY <2>1, <2>3 DEF DeferChecked, brokerVars, wakerVars
  <2>4. CASE DeferAppend(c)
    <3>1. [id |-> Id(c), op |-> op[c]] \in Jobs
      BY <2>1 DEF Jobs
    <3> QED
      BY <3>1, <2>4 DEF DeferAppend, Push, brokerVars
  <2>5. CASE DeferWake(c)
    BY <2>1, <2>5 DEF DeferWake, Accept, brokerVars, wakerVars
  <2>6. CASE DeferWrite(c)
    <3>1. bytes' \in 0..PipeSize
      BY <2>6 DEF DeferWrite
    <3>2. pc' \in [Callers -> {"idle", "check", "append", "wake", "write", "waiting"}]
      BY <2>6 DEF DeferWrite, Accept, Fail
    <3>3. accepted' \subseteq Ids /\ raised' \subseteq Ids \X {"exitted", "full", "closed"}
      BY <2>1, <2>6 DEF DeferWrite, Accept, Fail
    <3>4. \A d \in Callers : pc'[d] # "idle" => pc[d] # "idle"
      BY <2>6 DEF DeferWrite, Accept, Fail
    <3>5. UNCHANGED <<brokerVars, deferred, op, calls, ran>>
      BY <2>6 DEF DeferWrite
    <3> QED
      BY <3>1, <3>2, <3>3, <3>4, <3>5 DEF brokerVars
  <2>7. CASE SyncReturn(c)
    BY <2>1, <2>7 DEF SyncReturn, brokerVars, wakerVars
  <2> QED
    BY <1>3, <2>2, <2>3, <2>4, <2>5, <2>6, <2>7 DEF CallerNext
<1>4. CASE BrokerNext
  <2> USE DEF brokerVars, wakerVars, callerVars
  <2>1. CASE Poll
    BY <2>1 DEF Poll, WakerReadable
  <2>2. CASE PollGrace
    BY <2>2 DEF PollGrace
  <2>3. CASE ReadWaker
    BY <2>3 DEF ReadWaker, Serving
  <2>4. CASE Drain
    <3>1. /\ Head(deferred) \in Jobs
          /\ Tail(deferred) \in Seq(Jobs)
      BY <2>4 DEF Drain
    <3>2. Head(deferred).id \in Ids /\ Head(deferred).op \in Ops
      BY <3>1 DEF Jobs
    <3>3. Head(deferred).op.does = "receive" => Head(deferred).op.stream \in Streams
      BY <3>2 DEF Ops
    <3> QED
      BY <3>1, <3>2, <3>3, <2>4 DEF Drain, NextJob, Remaining
  <2>5. CASE DrainEnd
    BY <2>5 DEF DrainEnd
  <2>6. CASE Crash
    BY <2>6 DEF Crash
  <2>7. CASE BeginShutdown
    BY <2>7 DEF BeginShutdown
  <2>8. CASE Deadline \/ GraceEnd \/ SetExitted
    BY <2>8 DEF Deadline, GraceEnd, SetExitted
  <2>9. CASE BrokerExit
    BY <2>9 DEF BrokerExit, Disconnect
  <2>10. ASSUME NEW s \in Streams, Dispatch(s)
         PROVE  TypeOK' /\ Begun'
    BY <2>10 DEF Dispatch, Disconnect
  <2>11. ASSUME NEW s \in Streams \cup {Waker}, ShutdownStream(s)
         PROVE  TypeOK' /\ Begun'
    BY <2>11 DEF ShutdownStream, Disconnect
  <2> QED
    BY <1>4, <2>1, <2>2, <2>3, <2>4, <2>5, <2>6, <2>7, <2>8, <2>9, <2>10, <2>11
       DEF BrokerNext
<1> QED
  BY <1>1, <1>2, <1>3, <1>4 DEF Next

\* Armed holds because the append comes before the byte, the byte before the
\* caller returns, and the broker reads a byte before it drains the deque.
LEMMA PipeStep ==
  ASSUME TypeOK, Begun, Serving, Armed, [Next]_vars
  PROVE  Serving' /\ Armed'
<1> USE BrokerAssumption DEF BrokerAssumption, TypeOK, Serving, Armed, WakerOpen
<1>1. CASE UNCHANGED vars
  BY <1>1 DEF vars, brokerVars, wakerVars, callerVars
<1>2. ASSUME NEW c \in Callers, NEW o \in Ops, Begin(c, o)
      PROVE  Serving' /\ Armed'
  BY <1>2 DEF Begin, brokerVars, wakerVars
<1>3. ASSUME NEW c \in Callers, CallerNext(c)
      PROVE  Serving' /\ Armed'
  <2>2. CASE DeferRefused(c)
    BY <2>2 DEF DeferRefused, brokerVars, wakerVars
  <2>3. CASE DeferChecked(c)
    BY <2>3 DEF DeferChecked, brokerVars, wakerVars
  <2>4. CASE DeferAppend(c)
    BY <2>4 DEF DeferAppend, brokerVars
  <2>5. CASE DeferWake(c)
    BY <2>5 DEF DeferWake, Accept, brokerVars, wakerVars
  <2>6. CASE DeferWrite(c)
    BY <2>6 DEF DeferWrite, Accept, Fail, brokerVars
  <2>7. CASE SyncReturn(c)
    BY <2>7 DEF SyncReturn, brokerVars, wakerVars
  <2> QED
    BY <1>3, <2>2, <2>3, <2>4, <2>5, <2>6, <2>7 DEF CallerNext
<1>4. CASE BrokerNext
  <2> USE DEF brokerVars, wakerVars, callerVars
  <2>1. CASE Poll
    <3>1. Waker \in ready' <=> WakerReadable
      BY <2>1 DEF Poll
    <3>2. /\ bpc = "loop" /\ bpc' = "dispatch"
          /\ UNCHANGED <<closed, deferred, bytes, pc>>
      BY <2>1 DEF Poll
    <3> QED
      BY <3>1, <3>2 DEF WakerReadable
  <2>2. CASE PollGrace
    BY <2>2 DEF PollGrace
  <2>3. CASE ReadWaker
    BY <2>3 DEF ReadWaker
  <2>4. CASE Drain
    BY <2>4 DEF Drain
  <2>5. CASE DrainEnd
    BY <2>5 DEF DrainEnd, Drained
  <2>6. CASE Crash
    BY <2>6 DEF Crash
  <2>7. CASE BeginShutdown
    BY <2>7 DEF BeginShutdown
  <2>8. CASE Deadline \/ GraceEnd \/ SetExitted
    BY <2>8 DEF Deadline, GraceEnd, SetExitted
  <2>9. CASE BrokerExit
    BY <2>9 DEF BrokerExit
  <2>10. ASSUME NEW s \in Streams, Dispatch(s)
         PROVE  Serving' /\ Armed'
    <3>1. /\ Waker \in ready' <=> Waker \in ready
          /\ Waker \in closed' <=> Waker \in closed
          /\ ready' = {} => Waker \notin ready
          /\ bpc \in {"dispatch", "gracecall"}
          /\ bpc' = IF ready' # {} THEN bpc ELSE IF bpc = "gracecall" THEN "grace" ELSE "loop"
          /\ UNCHANGED <<deferred, bytes, pc>>
      BY <2>10 DEF Dispatch, Disconnect
    <3> QED
      BY <3>1
  <2>11. ASSUME NEW s \in Streams \cup {Waker}, ShutdownStream(s)
         PROVE  Serving' /\ Armed'
    BY <2>11 DEF ShutdownStream
  <2> QED
    BY <1>4, <2>1, <2>2, <2>3, <2>4, <2>5, <2>6, <2>7, <2>8, <2>9, <2>10, <2>11
       DEF BrokerNext
<1> QED
  BY <1>1, <1>2, <1>3, <1>4 DEF Next

\* Types are kept.
THEOREM TypesCorrect == Spec => []TypeOK
<1>1. PipeInv /\ [Next]_vars => PipeInv'
  BY TypeStep, PipeStep DEF PipeInv
<1>2. PipeInv => TypeOK
  BY DEF PipeInv
<1> QED
  BY InitPipe, <1>1, <1>2, PTL DEF Spec

\* No lost wakeup: the broker never sleeps on a deque with functions in it.
THEOREM NoLostWakeup == Spec => []Armed
<1>1. PipeInv /\ [Next]_vars => PipeInv'
  BY TypeStep, PipeStep DEF PipeInv
<1>2. PipeInv => Armed
  BY DEF PipeInv
<1> QED
  BY InitPipe, <1>1, <1>2, PTL DEF Spec

-----------------------------------------------------------------------------
(* The life of a deferred function *)

\* Appending leaves the elements where they are.
LEMMA AppendIndexes ==
  ASSUME NEW S, NEW s \in Seq(S), NEW e \in S
  PROVE  /\ Append(s, e) \in Seq(S)
         /\ DOMAIN Append(s, e) = 1..(Len(s) + 1)
         /\ \A j \in 1..Len(s) : Append(s, e)[j] = s[j]
         /\ Append(s, e)[Len(s) + 1] = e
  OBVIOUS

\* Taking the head shifts them down by one.
LEMMA TailIndexes ==
  ASSUME NEW S, NEW s \in Seq(S), s # <<>>
  PROVE  /\ Len(s) \in Nat \ {0}
         /\ DOMAIN s = 1..Len(s)
         /\ Head(s) = s[1]
         /\ Tail(s) \in Seq(S)
         /\ DOMAIN Tail(s) = 1..(Len(s) - 1)
         /\ \A j \in 1..(Len(s) - 1) : Tail(s)[j] = s[j + 1]
  OBVIOUS

\* A step of no consequence to the history.
LEMMA HistoryKept ==
  ASSUME History, UNCHANGED <<deferred, ran, raised>>, exitted => exitted',
         \A c \in Callers, n \in 1..MaxCalls : Beyond(c, n)' <=> Beyond(c, n),
         \A c \in Callers : pc[c] \in {"idle", "check"} /\ exitted =>
                              pc'[c] \in {"idle", "check"}
  PROVE  History'
<1>1. /\ \A i : Refused(i)' <=> Refused(i)
      /\ \A i : Queued(i)' <=> Queued(i)
  BY DEF Refused, Queued
<1>2. \A i : Entered(i)' <=> Entered(i)
  BY <1>1 DEF Entered
<1>3. Entry'
  BY <1>1, <1>2 DEF History, Entry
<1>4. Refusal'
  BY <1>1, <1>2 DEF History, Refusal
<1>5. Ordered' /\ Later' /\ InOrder'
  BY <1>1 DEF History, Ordered, Later, InOrder
<1> QED
  BY <1>3, <1>4, <1>5 DEF History

LEMMA HistoryRefused ==
  ASSUME TypeOK, Begun, History, NEW c \in Callers, DeferRefused(c)
  PROVE  History'
<1> USE BrokerAssumption DEF BrokerAssumption
<1>1. /\ pc[c] = "check" /\ exitted
      /\ raised' = raised \cup {<<Id(c), "exitted">>}
      /\ UNCHANGED <<deferred, ran, calls, exitted>>
      /\ \A d \in Callers : pc'[d] = IF d = c THEN "idle" ELSE pc[d]
  BY DEF DeferRefused, TypeOK, brokerVars, wakerVars
<1>2. \A i : Entered(i)' <=> Entered(i)
  BY <1>1 DEF Entered, Queued
<1>3. \A i : Refused(i)' <=> Refused(i) \/ i = Id(c)
  BY <1>1 DEF Refused
<1>4. \A d \in Callers, n \in 1..MaxCalls :
        Beyond(d, n) <=> Beyond(d, n)' \/ <<d, n>> = Id(c)
  BY <1>1 DEF Beyond, Id
<1>5. calls[c] \in 1..MaxCalls /\ ~Beyond(c, calls[c])'
  BY <1>1 DEF Begun, Beyond
<1>6. Entry'
  BY <1>2, <1>3, <1>4 DEF History, Entry
<1>7. Refusal'
  <2> SUFFICES ASSUME NEW d \in Callers, NEW n \in 1..MaxCalls, Refused(<<d, n>>)'
               PROVE  /\ exitted'
                      /\ ~Beyond(d, n)'
                      /\ pc'[d] \in {"idle", "check"}
                      /\ \A m \in n..MaxCalls : ~Entered(<<d, m>>)'
    BY DEF Refusal
  <2>1. CASE Refused(<<d, n>>)
    BY <2>1, <1>1, <1>2, <1>4 DEF History, Refusal
  <2>2. CASE <<d, n>> = Id(c)
    <3>1. d = c /\ n = calls[c]
      BY <2>2 DEF Id
    <3>2. \A m \in n..MaxCalls : Beyond(c, m)
      BY <3>1, <1>1, <1>5 DEF Beyond
    <3>3. \A m \in n..MaxCalls : ~Entered(<<c, m>>)
      BY <3>2 DEF History, Entry
    <3> QED
      BY <3>1, <3>3, <1>1, <1>2, <1>5
  <2> QED
    BY <2>1, <2>2, <1>3
<1>8. Ordered' /\ Later' /\ InOrder'
  BY <1>1 DEF History, Ordered, Later, InOrder, Queued
<1> QED
  BY <1>6, <1>7, <1>8 DEF History

LEMMA HistoryAppend ==
  ASSUME TypeOK, Begun, History, NEW c \in Callers, DeferAppend(c)
  PROVE  History'
<1> USE BrokerAssumption DEF BrokerAssumption
<1> DEFINE job == [id |-> Id(c), op |-> op[c]]
           L   == Len(deferred)
<1>1. /\ pc[c] = "append"
      /\ calls[c] \in 1..MaxCalls
      /\ deferred' = Append(deferred, job)
      /\ UNCHANGED <<ran, raised, calls, exitted>>
      /\ \A d \in Callers : pc'[d] = IF d = c THEN "wake" ELSE pc[d]
  BY DEF DeferAppend, Push, TypeOK, Begun, brokerVars
<1>2. /\ deferred \in Seq(Jobs) /\ job \in Jobs
  BY <1>1 DEF TypeOK, Jobs, Ids, Id
<1>3. /\ L \in Nat /\ DOMAIN deferred = 1..L /\ DOMAIN deferred' = 1..(L + 1)
      /\ \A j \in 1..L : deferred'[j] = deferred[j]
      /\ deferred'[L + 1].id = <<c, calls[c]>>
      /\ \A j \in 1..L : deferred[j] \in Jobs
  BY <1>1, <1>2, AppendIndexes DEF Id
<1> HIDE DEF job, L
<1>4. \A i : Queued(i)' <=> Queued(i) \/ i = <<c, calls[c]>>
  <2>1. ASSUME NEW i, NEW j \in 1..(L + 1), deferred'[j].id = i
        PROVE  Queued(i) \/ i = <<c, calls[c]>>
    <3>1. j \in 1..L \/ j = L + 1
      BY <1>3
    <3> QED
      BY <3>1, <2>1, <1>3 DEF Queued
  <2>2. ASSUME NEW i, NEW j \in 1..L, deferred[j].id = i
        PROVE  Queued(i)'
    <3>1. j \in DOMAIN deferred' /\ deferred'[j].id = i
      BY <2>2, <1>3
    <3> QED
      BY <3>1 DEF Queued
  <2>3. Queued(<<c, calls[c]>>)'
    <3>1. L + 1 \in DOMAIN deferred'
      BY <1>3
    <3> QED
      BY <3>1, <1>1, <1>3 DEF Queued
  <2> QED
    BY <2>1, <2>2, <2>3, <1>1, <1>3 DEF Queued
<1>5. \A i : Entered(i)' <=> Entered(i) \/ i = <<c, calls[c]>>
  BY <1>1, <1>4 DEF Entered
<1>6. \A i : Refused(i)' <=> Refused(i)
  BY <1>1 DEF Refused
<1>7. \A d \in Callers, n \in 1..MaxCalls :
        Beyond(d, n) <=> Beyond(d, n)' \/ <<d, n>> = <<c, calls[c]>>
  BY <1>1 DEF Beyond
<1>8. ~Beyond(c, calls[c])'
  BY <1>1 DEF Beyond
<1>9. \A n \in 1..MaxCalls : Entered(<<c, n>>) => n < calls[c]
  BY <1>1 DEF History, Entry, Beyond, TypeOK
<1>10. Entry'
  <2> SUFFICES ASSUME NEW d \in Callers, NEW n \in 1..MaxCalls
               PROVE  /\ Entered(<<d, n>>)' => ~Beyond(d, n)'
                      /\ ~Beyond(d, n)' => Entered(<<d, n>>)' \/ Refused(<<d, n>>)'
    BY DEF Entry
  <2>1. CASE <<d, n>> = <<c, calls[c]>>
    <3>1. d = c /\ n = calls'[c]
      BY <2>1, <1>1
    <3>2. ~Beyond(d, n)'
      BY <3>1, <1>8
    <3> QED
      BY <2>1, <3>2, <1>5
  <2>2. CASE <<d, n>> # <<c, calls[c]>>
    <3>1. /\ Entered(<<d, n>>)' <=> Entered(<<d, n>>)
          /\ Refused(<<d, n>>)' <=> Refused(<<d, n>>)
          /\ Beyond(d, n)' <=> Beyond(d, n)
      BY <2>2, <1>5, <1>6, <1>7
    <3> QED
      BY <3>1 DEF History, Entry
  <2> QED
    BY <2>1, <2>2
<1>11. Refusal'
  BY <1>1, <1>5, <1>6, <1>7 DEF History, Refusal
<1>12. Ordered'
  <2> SUFFICES ASSUME NEW j \in 1..(L + 1), NEW k \in 1..(L + 1), j < k,
                      deferred'[j].id[1] = deferred'[k].id[1]
               PROVE  deferred'[j].id[2] < deferred'[k].id[2]
    BY <1>3 DEF Ordered
  <2>1. j \in 1..L /\ deferred'[j] = deferred[j]
    BY <1>3
  <2>2. CASE k = L + 1
    <3>1. deferred[j].id[1] = c
      BY <2>1, <2>2, <1>3
    <3>2. deferred[j].id \in Callers \X (1..MaxCalls)
      BY <2>1, <1>3 DEF Jobs, Ids
    <3>3. deferred[j].id = <<c, deferred[j].id[2]>> /\ deferred[j].id[2] \in 1..MaxCalls
      BY <3>1, <3>2
    <3>4. Entered(<<c, deferred[j].id[2]>>)
      BY <3>3, <2>1, <1>3 DEF Entered, Queued
    <3> QED
      BY <3>3, <3>4, <2>1, <2>2, <1>3, <1>9
  <2>3. CASE k \in 1..L
    BY <2>1, <2>3, <1>3 DEF History, Ordered
  <2> QED
    BY <2>2, <2>3, <1>3
<1>13. Later'
  BY <1>1, <1>4, <1>9 DEF History, Later, Entered
<1>14. InOrder'
  BY <1>1 DEF History, InOrder
<1> QED
  BY <1>10, <1>11, <1>12, <1>13, <1>14 DEF History

LEMMA HistoryDrain ==
  ASSUME TypeOK, History, Drain
  PROVE  History'
<1> USE BrokerAssumption DEF BrokerAssumption
<1> DEFINE id == Head(deferred).id
           L  == Len(deferred)
<1>1. /\ deferred # <<>>
      /\ deferred' = Tail(deferred)
      /\ ran' = ran \cup {id}
      /\ UNCHANGED <<raised, calls, pc, exitted>>
  BY DEF Drain, NextJob, Remaining, callerVars
<1>2. /\ L \in Nat \ {0} /\ DOMAIN deferred = 1..L /\ DOMAIN deferred' = 1..(L - 1)
      /\ \A j \in 1..(L - 1) : deferred'[j] = deferred[j + 1]
      /\ id = deferred[1].id
      /\ deferred[1] \in Jobs
  BY <1>1, TailIndexes DEF TypeOK
<1> HIDE DEF id, L
<1>3. PICK c \in Callers, n \in 1..MaxCalls : id = <<c, n>>
  BY <1>2 DEF Jobs, Ids
<1>4. /\ \A i : Queued(i)' => Queued(i)
      /\ \A i : Queued(i) => Queued(i)' \/ i = id
      /\ Queued(id)
  <2>1. ASSUME NEW i, NEW j \in 1..(L - 1), deferred'[j].id = i
        PROVE  Queued(i)
    <3>1. j + 1 \in DOMAIN deferred /\ deferred[j + 1].id = i
      BY <2>1, <1>2
    <3> QED
      BY <3>1 DEF Queued
  <2>2. ASSUME NEW i, NEW k \in 1..L, deferred[k].id = i
        PROVE  Queued(i)' \/ i = id
    <3>1. CASE k = 1
      BY <3>1, <2>2, <1>2
    <3>2. CASE k # 1
      <4>1. k - 1 \in DOMAIN deferred' /\ deferred'[k - 1].id = i
        BY <3>2, <2>2, <1>2
      <4> QED
        BY <4>1 DEF Queued
    <3> QED
      BY <3>1, <3>2
  <2>3. Queued(id)
    BY <1>2 DEF Queued
  <2> QED
    BY <2>1, <2>2, <2>3, <1>2 DEF Queued
<1>5. \A i : Entered(i)' <=> Entered(i)
  BY <1>1, <1>4 DEF Entered
<1>6. \A i : Refused(i)' <=> Refused(i)
  BY <1>1 DEF Refused
<1>7. \A d \in Callers, m \in 1..MaxCalls : Beyond(d, m)' <=> Beyond(d, m)
  BY <1>1 DEF Beyond
<1>8. Entry' /\ Refusal'
  BY <1>1, <1>5, <1>6, <1>7 DEF History, Entry, Refusal
<1>9. Ordered'
  <2> SUFFICES ASSUME NEW j \in 1..(L - 1), NEW k \in 1..(L - 1), j < k,
                      deferred'[j].id[1] = deferred'[k].id[1]
               PROVE  deferred'[j].id[2] < deferred'[k].id[2]
    BY <1>2 DEF Ordered
  <2>1. /\ j + 1 \in DOMAIN deferred /\ k + 1 \in DOMAIN deferred /\ j + 1 < k + 1
        /\ deferred'[j] = deferred[j + 1] /\ deferred'[k] = deferred[k + 1]
    BY <1>2
  <2> QED
    BY <2>1 DEF History, Ordered
\* what stays on the deque behind the head is later than the head
<1>10. \A m \in 1..MaxCalls : Queued(<<c, m>>)' => n < m
  <2> SUFFICES ASSUME NEW m \in 1..MaxCalls, NEW j \in 1..(L - 1),
                      deferred'[j].id = <<c, m>>
               PROVE  n < m
    BY <1>2 DEF Queued
  <2>1. 1 \in DOMAIN deferred /\ j + 1 \in DOMAIN deferred /\ 1 < j + 1
    BY <1>2
  <2>2. deferred[1].id = <<c, n>> /\ deferred[j + 1].id = <<c, m>>
    BY <1>2, <1>3
  <2>3. deferred[1].id[1] = deferred[j + 1].id[1] =>
          deferred[1].id[2] < deferred[j + 1].id[2]
    BY <2>1 DEF History, Ordered
  <2> QED
    BY <2>2, <2>3
<1>11. Later'
  BY <1>1, <1>3, <1>4, <1>10 DEF History, Later
\* what was deferred before the head has run
<1>12. \A m \in 1..MaxCalls : m < n => <<c, m>> \in ran
  <2> SUFFICES ASSUME NEW m \in 1..MaxCalls, m < n
               PROVE  <<c, m>> \in ran
    OBVIOUS
  <2>1. Entered(<<c, n>>)
    BY <1>3, <1>4 DEF Entered
  <2>2. ~Beyond(c, m)
    BY <2>1 DEF History, Entry, Beyond, TypeOK
  <2>3. ~Refused(<<c, m>>)
    BY <2>1 DEF History, Refusal
  <2>4. ~Queued(<<c, m>>)
    BY <1>3, <1>4, <1>10
  <2> QED
    BY <2>2, <2>3, <2>4 DEF History, Entry, Entered
<1>13. InOrder'
  BY <1>1, <1>3, <1>12 DEF History, InOrder
<1> QED
  BY <1>8, <1>9, <1>11, <1>13 DEF History

LEMMA InitHistory == Init => History
  BY BrokerAssumption DEF BrokerAssumption, Init, History, Entry, Refusal, Ordered, Later,
                          InOrder, Entered, Queued, Refused, Beyond

LEMMA HistoryStep ==
  ASSUME TypeOK, Begun, History, [Next]_vars
  PROVE  History'
<1> USE BrokerAssumption DEF BrokerAssumption
<1>1. CASE UNCHANGED vars
  BY <1>1, HistoryKept DEF vars, brokerVars, wakerVars, callerVars, Beyond
<1>2. ASSUME NEW c \in Callers, NEW o \in Ops, Begin(c, o)
      PROVE  History'
  <2>1. \A d \in Callers, n \in 1..MaxCalls : Beyond(d, n)' <=> Beyond(d, n)
    BY <1>2 DEF Begin, Beyond, TypeOK
  <2>2. \A d \in Callers : pc[d] \in {"idle", "check"} => pc'[d] \in {"idle", "check"}
    BY <1>2 DEF Begin, TypeOK
  <2>3. UNCHANGED <<deferred, ran, raised, exitted>>
    BY <1>2 DEF Begin, brokerVars, wakerVars
  <2> QED
    BY <2>1, <2>2, <2>3, HistoryKept
<1>3. ASSUME NEW c \in Callers, CallerNext(c)
      PROVE  History'
  <2>1. CASE DeferRefused(c)
    BY <2>1, HistoryRefused
  <2>2. CASE DeferChecked(c)
    <3>1. \A d \in Callers, n \in 1..MaxCalls : Beyond(d, n)' <=> Beyond(d, n)
      BY <2>2 DEF DeferChecked, Beyond, TypeOK
    <3>2. UNCHANGED <<deferred, ran, raised, exitted>> /\ ~exitted
      BY <2>2 DEF DeferChecked, brokerVars, wakerVars
    <3> QED
      BY <3>1, <3>2, HistoryKept
  <2>3. CASE DeferAppend(c)
    BY <2>3, HistoryAppend
  <2>4. CASE DeferWake(c) \/ DeferWrite(c) \/ SyncReturn(c)
    <3>1. /\ pc[c] \in {"wake", "write", "waiting"}
          /\ \A d \in Callers : d # c => pc'[d] = pc[d]
          /\ pc'[c] \in {"idle", "write", "waiting"}
          /\ UNCHANGED <<deferred, ran, calls, exitted>>
      BY <2>4 DEF DeferWake, DeferWrite, SyncReturn, Accept, Fail, TypeOK,
                  brokerVars, wakerVars
    <3>2. \A i : Refused(i)' <=> Refused(i)
      BY <2>4 DEF DeferWake, DeferWrite, SyncReturn, Accept, Fail, Refused
    <3>3. \A i : Entered(i)' <=> Entered(i)
      BY <3>1 DEF Entered, Queued
    <3>4. \A d \in Callers, n \in 1..MaxCalls : Beyond(d, n)' <=> Beyond(d, n)
      BY <3>1 DEF Beyond
    <3>5. Entry'
      BY <3>2, <3>3, <3>4 DEF History, Entry
    <3>6. Refusal'
      BY <3>1, <3>2, <3>3, <3>4 DEF History, Refusal
    <3>7. Ordered' /\ Later' /\ InOrder'
      BY <3>1 DEF History, Ordered, Later, InOrder, Queued
    <3> QED
      BY <3>5, <3>6, <3>7 DEF History
  <2> QED
    BY <1>3, <2>1, <2>2, <2>3, <2>4 DEF CallerNext
<1>4. CASE BrokerNext
  <2>1. CASE Drain
    BY <2>1, HistoryDrain
  <2>2. CASE \/ Poll \/ PollGrace \/ ReadWaker \/ DrainEnd \/ Crash \/ BeginShutdown
             \/ Deadline \/ GraceEnd \/ SetExitted \/ BrokerExit
             \/ \E s \in Streams : Dispatch(s)
             \/ \E s \in Streams \cup {Waker} : ShutdownStream(s)
    <3>1. deferred' = deferred /\ ran' = ran /\ raised' = raised /\ pc' = pc /\ calls' = calls
      <4>1. CASE Poll \/ PollGrace \/ ReadWaker \/ DrainEnd \/ Crash \/ BeginShutdown
        BY <4>1 DEF Poll, PollGrace, ReadWaker, DrainEnd, Crash, BeginShutdown,
                    wakerVars, callerVars
      <4>2. CASE \/ Deadline \/ GraceEnd \/ SetExitted \/ BrokerExit
                 \/ \E s \in Streams : Dispatch(s)
                 \/ \E s \in Streams \cup {Waker} : ShutdownStream(s)
        BY <4>2 DEF Deadline, GraceEnd, SetExitted, BrokerExit, Dispatch, ShutdownStream,
                    wakerVars, callerVars
      <4> QED
        BY <2>2, <4>1, <4>2
    <3>3. exitted => exitted'
      BY <2>2 DEF Poll, PollGrace, ReadWaker, DrainEnd, Crash, BeginShutdown, Deadline,
                  GraceEnd, SetExitted, BrokerExit, Dispatch, ShutdownStream
    <3>2. \A d \in Callers, n \in 1..MaxCalls : Beyond(d, n)' <=> Beyond(d, n)
      BY <3>1 DEF Beyond
    <3> QED
      BY <3>1, <3>2, <3>3, HistoryKept
  <2> QED
    BY <1>4, <2>1, <2>2 DEF BrokerNext
<1> QED
  BY <1>1, <1>2, <1>3, <1>4 DEF Next

LEMMA HistoryGivesRunOnce ==
  ASSUME TypeOK, History
  PROVE  RunOnce
<1>1. ASSUME NEW j \in DOMAIN deferred
      PROVE  /\ deferred[j].id \in Ids
             /\ Queued(deferred[j].id)
             /\ deferred[j].id \notin ran
  <2>1. deferred[j].id \in Ids
    <3>1. deferred[j] \in Jobs
      BY DEF TypeOK
    <3> QED
      BY <3>1 DEF Jobs
  <2>2. PICK c \in Callers, n \in 1..MaxCalls : deferred[j].id = <<c, n>>
    BY <2>1 DEF Ids
  <2>3. Queued(<<c, n>>)
    BY <2>2 DEF Queued
  <2>4. ~(n < n)
    OBVIOUS
  <2> QED
    BY <2>1, <2>2, <2>3, <2>4 DEF History, Later
<1>2. ASSUME NEW j \in DOMAIN deferred, NEW k \in DOMAIN deferred,
             deferred[j].id = deferred[k].id
      PROVE  j = k
  <2>1. j \in Nat /\ k \in Nat /\ deferred[j].id[2] \in Nat
    BY <1>1, BrokerAssumption DEF BrokerAssumption, TypeOK, Ids
  <2>2. ~(j < k) /\ ~(k < j)
    BY <2>1, <1>2 DEF History, Ordered
  <2> QED
    BY <2>1, <2>2
<1>3. ASSUME NEW i \in Ids, <<i, "exitted">> \in raised
      PROVE  ~Entered(i)
  <2>1. PICK c \in Callers, n \in 1..MaxCalls : i = <<c, n>>
    BY DEF Ids
  <2>2. Refused(<<c, n>>) /\ n \in n..MaxCalls
    BY <2>1, <1>3, BrokerAssumption DEF BrokerAssumption, Refused
  <2> QED
    BY <2>1, <2>2 DEF History, Refusal
<1> QED
  BY <1>1, <1>2, <1>3 DEF RunOnce, Entered, Queued

LifeInv == PipeInv /\ History

\* A deferred function runs at most once, and never after its defer() was refused.
THEOREM RunsOnce == Spec => []RunOnce
<1>1. LifeInv /\ [Next]_vars => LifeInv'
  BY TypeStep, PipeStep, HistoryStep DEF PipeInv, LifeInv
<1>2. LifeInv => RunOnce
  BY HistoryGivesRunOnce DEF PipeInv, LifeInv
<1>3. Init => LifeInv
  BY InitPipe, InitHistory DEF LifeInv
<1> QED
  BY <1>1, <1>2, <1>3, PTL DEF Spec

\* The functions of a thread run in the order it deferred them.
THEOREM RunsInOrder == Spec => []InOrder
<1>1. LifeInv /\ [Next]_vars => LifeInv'
  BY TypeStep, PipeStep, HistoryStep DEF PipeInv, LifeInv
<1>2. LifeInv => InOrder
  BY DEF LifeInv, History
<1>3. Init => LifeInv
  BY InitPipe, InitHistory DEF LifeInv
<1> QED
  BY <1>1, <1>2, <1>3, PTL DEF Spec

\* What is given to defer() runs once, if at all, and in the order of the thread that gave it.
THEOREM DeferredCorrect == Spec => []DeferredSafe
  BY RunsOnce, RunsInOrder, PTL DEF DeferredSafe

-----------------------------------------------------------------------------
(* AsyncJob: the reports of an asynchronous job                                 *)

Updating == Step \in {"open", "close", "rename"}
\* The reports that run() writes, with the except clause that covers each.
Report(what, handler) == main[2] = what /\ main[3] = handler
Reported == status \in Final \/ (status = "torn" /\ fired = "close")

\* The ranges of the fields, and the reports a step may be writing.
JobFields ==
  /\ limited \in BOOLEAN /\ told \in BOOLEAN /\ armed \in BOOLEAN /\ moduleRaised \in BOOLEAN /\ shutDown \in BOOLEAN
  /\ descriptor \in {"none", "temporary", "status"}
  /\ Step \in {"open", "close", "rename", "tell", "module", "check", "finally", "returned", "killed"}
  /\ Updating => \/ Report("started", "run") \/ Report("failed", "run")
                 \/ Report("failed", "none") \/ Report("result", "parse")
\* Before the controller is told, no alarm can strike: the first report goes through.
FirstReport ==
  /\ Updating /\ main[2] = "started" => ~armed /\ ~shutDown /\ fired = "no"
  /\ Step = "tell" => status = "started" /\ ~armed /\ ~shutDown /\ fired = "no"
  /\ ~(Updating /\ main[2] = "started") => status # "none"
  /\ told => ~(Updating /\ main[2] = "started")
\* What the temporary file holds before it is renamed, and what becomes of it if the alarm strikes.
TemporaryFile ==
  /\ descriptor # "none" => Step \in {"close", "killed"}
  /\ Step = "close" => descriptor # "none" /\ (descriptor = "status" => fired = "close" /\ temporary = "none")
  /\ Step = "rename" => temporary = main[2] \/ (temporary = "none" /\ fired \in {"close", "rename"})
\* A final report is there once the alarm has struck, and before the broker is told to go.
LastReport ==
  /\ fired # "no" => Reported
  /\ shutDown \/ Step \in {"finally", "returned", "killed"} => Reported
\* The result of a module that the alarm interrupted is not written.
Interrupted ==
  fired = "module" /\ ~moduleRaised => status = "timeout" /\ Step \in {"module", "check", "finally", "returned", "killed"}

JobInv == JobTypeOK /\ JobFields /\ FirstReport /\ TemporaryFile /\ LastReport /\ Interrupted

LEMMA InitJob == JobInit => JobInv
<1> SUFFICES ASSUME JobInit PROVE JobInv
  OBVIOUS
<1>1. main[1] = "open" /\ main[2] = "started" /\ main[3] = "run"
  BY DEF JobInit
<1>2. limited \in BOOLEAN
  BY JobAssumption DEF JobInit
<1> QED
  BY <1>1, <1>2 DEF JobInit, JobInv, JobTypeOK, JobFields, FirstReport, TemporaryFile, LastReport, Interrupted, Updating,
                    Step, Report, Reported, Final

\* The parts of a triple.
LEMMA TripleFields ==
  ASSUME NEW t, NEW a, NEW b, NEW c, t = <<a, b, c>>
  PROVE  t[1] = a /\ t[2] = b /\ t[3] = c
  OBVIOUS

\* Where an exception goes.
LEMMA ParseHandled == Handle("parse")[1] = "open" /\ Handle("parse")[2] = "failed" /\ Handle("parse")[3] = "run"
  BY TripleFields DEF Handle
LEMMA RunHandled == Handle("run")[1] = "open" /\ Handle("run")[2] = "failed" /\ Handle("run")[3] = "none"
  BY TripleFields DEF Handle
LEMMA NoneHandled == Handle("none")[1] = "finally"
  BY TripleFields DEF Handle

\* What follows a rename, and the check of the result.
LEMMA RenameGoes ==
  ASSUME JobFields, UpdateRename
  PROVE  \/ temporary # "none" /\ main[2] = "started" /\ main'[1] = "tell"
         \/ temporary # "none" /\ main[2] # "started" /\ main'[1] = "finally"
         \/ temporary = "none" /\ main[3] = "run" /\ main'[1] = "open" /\ main'[2] = "failed" /\ main'[3] = "none"
         \/ temporary = "none" /\ main[3] = "parse" /\ main'[1] = "open" /\ main'[2] = "failed" /\ main'[3] = "run"
         \/ temporary = "none" /\ main[3] = "none" /\ main'[1] = "finally"
<1>1. CASE temporary # "none"
  <2>1. CASE main[2] = "started"
    <3>1. main' = <<"tell", "", "">>
      BY <1>1, <2>1 DEF UpdateRename, Continue
    <3> QED
      BY <1>1, <2>1, <3>1, TripleFields
  <2>2. CASE main[2] # "started"
    <3>1. main' = <<"finally", "", "">>
      BY <1>1, <2>2 DEF UpdateRename, Continue
    <3> QED
      BY <1>1, <2>2, <3>1, TripleFields
  <2> QED
    BY <2>1, <2>2
<1>2. CASE temporary = "none"
  <2>1. main[3] = "run" \/ main[3] = "parse" \/ main[3] = "none"
    BY DEF UpdateRename, JobFields, Updating, Report
  <2>2. main' = Handle(main[3])
    BY <1>2 DEF UpdateRename
  <2> QED
    BY <1>2, <2>1, <2>2, ParseHandled, RunHandled, NoneHandled
<1> QED
  BY <1>1, <1>2

LEMMA CheckGoes ==
  ASSUME Check
  PROVE  \/ fired # "no" /\ main'[1] = "finally"
         \/ fired = "no" /\ main'[1] = "open" /\ main'[2] = "result" /\ main'[3] = "parse"
         \/ fired = "no" /\ main'[1] = "open" /\ main'[2] = "failed" /\ main'[3] = "run"
<1>1. CASE fired # "no"
  <2>1. main' = <<"finally", "", "">>
    BY <1>1 DEF Check
  <2> QED
    BY <1>1, <2>1, TripleFields
<1>2. CASE fired = "no"
  <2>1. main' = <<"open", "result", "parse">> \/ main' = Handle("parse")
    BY <1>2 DEF Check
  <2>2. CASE main' = <<"open", "result", "parse">>
    <3>1. main'[1] = "open" /\ main'[2] = "result" /\ main'[3] = "parse"
      BY <2>2, TripleFields
    <3> QED
      BY <1>2, <3>1
  <2>3. CASE main' = Handle("parse")
    BY <1>2, <2>3, ParseHandled
  <2> QED
    BY <2>1, <2>2, <2>3
<1> QED
  BY <1>1, <1>2

\* Every step of the runner and every alarm keeps the reports in order.
LEMMA JobStep == JobInv /\ [JobNext]_jobVars => JobInv'
<1> SUFFICES ASSUME JobInv, [JobNext]_jobVars PROVE JobInv'
  OBVIOUS
<1>0. JobTypeOK /\ JobFields /\ FirstReport /\ TemporaryFile /\ LastReport /\ Interrupted
  BY DEF JobInv
<1> USE <1>0 DEF JobTypeOK, JobFields, FirstReport, TemporaryFile, LastReport, Interrupted, Updating, Step, Report,
            Reported, Final
<1>1. CASE UpdateOpen
  <2>1. main'[1] = "close" /\ main'[2] = main[2] /\ main'[3] = main[3]
    BY <1>1 DEF UpdateOpen
  <2>2. JobTypeOK'
    BY <1>1, <2>1 DEF UpdateOpen
  <2>3. JobFields'
    BY <1>1, <2>1 DEF UpdateOpen
  <2>4. FirstReport'
    BY <1>1, <2>1 DEF UpdateOpen
  <2>5. TemporaryFile'
    BY <1>1, <2>1 DEF UpdateOpen
  <2>6. LastReport'
    BY <1>1, <2>1 DEF UpdateOpen
  <2>7. Interrupted'
    BY <1>1, <2>1 DEF UpdateOpen
  <2> QED
    BY <2>2, <2>3, <2>4, <2>5, <2>6, <2>7 DEF JobInv
<1>2. CASE UpdateClose
  <2>1. main'[1] = "rename" /\ main'[2] = main[2] /\ main'[3] = main[3]
    BY <1>2 DEF UpdateClose
  <2>2. JobTypeOK'
    BY <1>2, <2>1 DEF UpdateClose
  <2>3. JobFields'
    BY <1>2, <2>1 DEF UpdateClose
  <2>4. FirstReport'
    BY <1>2, <2>1 DEF UpdateClose
  <2>5. TemporaryFile'
    BY <1>2, <2>1 DEF UpdateClose
  <2>6. LastReport'
    BY <1>2, <2>1 DEF UpdateClose
  <2>7. Interrupted'
    BY <1>2, <2>1 DEF UpdateClose
  <2> QED
    BY <2>2, <2>3, <2>4, <2>5, <2>6, <2>7 DEF JobInv
<1>3. CASE UpdateRename
  <2>1. \/ temporary # "none" /\ main[2] = "started" /\ main'[1] = "tell"
        \/ temporary # "none" /\ main[2] # "started" /\ main'[1] = "finally"
        \/ temporary = "none" /\ main[3] = "run" /\ main'[1] = "open" /\ main'[2] = "failed" /\ main'[3] = "none"
        \/ temporary = "none" /\ main[3] = "parse" /\ main'[1] = "open" /\ main'[2] = "failed" /\ main'[3] = "run"
        \/ temporary = "none" /\ main[3] = "none" /\ main'[1] = "finally"
    BY <1>3, RenameGoes
  <2>2. JobTypeOK'
    BY <1>3, <2>1 DEF UpdateRename, Continue, Handle
  <2>3. JobFields'
    BY <1>3, <2>1 DEF UpdateRename, Continue, Handle
  <2>4. FirstReport'
    BY <1>3, <2>1 DEF UpdateRename, Continue, Handle
  <2>5. TemporaryFile'
    BY <1>3, <2>1 DEF UpdateRename, Continue, Handle
  <2>6. LastReport'
    BY <1>3, <2>1 DEF UpdateRename, Continue, Handle
  <2>7. Interrupted'
    BY <1>3, <2>1 DEF UpdateRename, Continue, Handle
  <2> QED
    BY <2>2, <2>3, <2>4, <2>5, <2>6, <2>7 DEF JobInv
<1>4. CASE Tell
  <2>1. main'[1] = "module" /\ main[1] = "tell"
    BY <1>4 DEF Tell
  <2>2. JobTypeOK'
    BY <1>4, <2>1 DEF Tell
  <2>3. JobFields'
    BY <1>4, <2>1 DEF Tell
  <2>4. FirstReport'
    BY <1>4, <2>1 DEF Tell
  <2>5. TemporaryFile'
    BY <1>4, <2>1 DEF Tell
  <2>6. LastReport'
    BY <1>4, <2>1 DEF Tell
  <2>7. Interrupted'
    BY <1>4, <2>1 DEF Tell
  <2> QED
    BY <2>2, <2>3, <2>4, <2>5, <2>6, <2>7 DEF JobInv
<1>5. CASE ModuleReturns
  <2>1. main'[1] = "check" /\ main[1] = "module"
    BY <1>5 DEF ModuleReturns
  <2>2. JobTypeOK'
    BY <1>5, <2>1 DEF ModuleReturns
  <2>3. JobFields'
    BY <1>5, <2>1 DEF ModuleReturns
  <2>4. FirstReport'
    BY <1>5, <2>1 DEF ModuleReturns
  <2>5. TemporaryFile'
    BY <1>5, <2>1 DEF ModuleReturns
  <2>6. LastReport'
    BY <1>5, <2>1 DEF ModuleReturns
  <2>7. Interrupted'
    BY <1>5, <2>1 DEF ModuleReturns
  <2> QED
    BY <2>2, <2>3, <2>4, <2>5, <2>6, <2>7 DEF JobInv
<1>6. CASE ModuleRaises
  <2>1. main'[1] = "open" /\ main'[2] = "failed" /\ main'[3] = "none"
    BY <1>6 DEF ModuleRaises, Handle
  <2>2. JobTypeOK'
    BY <1>6, <2>1 DEF ModuleRaises, Handle
  <2>3. JobFields'
    BY <1>6, <2>1 DEF ModuleRaises, Handle
  <2>4. FirstReport'
    BY <1>6, <2>1 DEF ModuleRaises, Handle
  <2>5. TemporaryFile'
    BY <1>6, <2>1 DEF ModuleRaises, Handle
  <2>6. LastReport'
    BY <1>6, <2>1 DEF ModuleRaises, Handle
  <2>7. Interrupted'
    BY <1>6, <2>1 DEF ModuleRaises, Handle
  <2> QED
    BY <2>2, <2>3, <2>4, <2>5, <2>6, <2>7 DEF JobInv
<1>7. CASE Check
  <2>1. \/ fired # "no" /\ main'[1] = "finally"
        \/ fired = "no" /\ main'[1] = "open" /\ main'[2] = "result" /\ main'[3] = "parse"
        \/ fired = "no" /\ main'[1] = "open" /\ main'[2] = "failed" /\ main'[3] = "run"
    BY <1>7, CheckGoes
  <2>2. JobTypeOK'
    BY <1>7, <2>1 DEF Check, Handle
  <2>3. JobFields'
    BY <1>7, <2>1 DEF Check, Handle
  <2>4. FirstReport'
    BY <1>7, <2>1 DEF Check, Handle
  <2>5. TemporaryFile'
    BY <1>7, <2>1 DEF Check, Handle
  <2>6. LastReport'
    BY <1>7, <2>1 DEF Check, Handle
  <2>7. Interrupted'
    BY <1>7, <2>1 DEF Check, Handle
  <2> QED
    BY <2>2, <2>3, <2>4, <2>5, <2>6, <2>7 DEF JobInv
<1>8. CASE Finally
  <2>1. main'[1] = "returned"
    BY <1>8 DEF Finally
  <2>2. JobTypeOK'
    BY <1>8, <2>1 DEF Finally
  <2>3. JobFields'
    BY <1>8, <2>1 DEF Finally
  <2>4. FirstReport'
    BY <1>8, <2>1 DEF Finally
  <2>5. TemporaryFile'
    BY <1>8, <2>1 DEF Finally
  <2>6. LastReport'
    BY <1>8, <2>1 DEF Finally
  <2>7. Interrupted'
    BY <1>8, <2>1 DEF Finally
  <2> QED
    BY <2>2, <2>3, <2>4, <2>5, <2>6, <2>7 DEF JobInv
<1>9. CASE OnSigalrm
  <2>1. main' = main
    BY <1>9 DEF OnSigalrm
  <2>2. JobTypeOK'
    BY <1>9, <2>1 DEF OnSigalrm
  <2>3. JobFields'
    BY <1>9, <2>1 DEF OnSigalrm
  <2>4. FirstReport'
    BY <1>9, <2>1 DEF OnSigalrm
  <2>5. TemporaryFile'
    BY <1>9, <2>1 DEF OnSigalrm
  <2>6. LastReport'
    BY <1>9, <2>1 DEF OnSigalrm
  <2>7. Interrupted'
    BY <1>9, <2>1 DEF OnSigalrm
  <2> QED
    BY <2>2, <2>3, <2>4, <2>5, <2>6, <2>7 DEF JobInv
<1>10. CASE Killed
  <2>1. main'[1] = "killed"
    BY <1>10 DEF Killed
  <2>2. JobTypeOK'
    BY <1>10, <2>1 DEF Killed
  <2>3. JobFields'
    BY <1>10, <2>1 DEF Killed
  <2>4. FirstReport'
    BY <1>10, <2>1 DEF Killed
  <2>5. TemporaryFile'
    BY <1>10, <2>1 DEF Killed
  <2>6. LastReport'
    BY <1>10, <2>1 DEF Killed
  <2>7. Interrupted'
    BY <1>10, <2>1 DEF Killed
  <2> QED
    BY <2>2, <2>3, <2>4, <2>5, <2>6, <2>7 DEF JobInv
<1>11. CASE UNCHANGED jobVars
  BY <1>11 DEF jobVars, JobInv
<1> QED
  BY <1>1, <1>2, <1>3, <1>4, <1>5, <1>6, <1>7, <1>8, <1>9, <1>10, <1>11 DEF JobNext, MainSteps

\* A report of a timeout that nothing may replace.
LEMMA TimeoutKept ==
  JobInv /\ [JobNext]_jobVars => [status = "timeout" /\ fired = "module" /\ ~moduleRaised' => status' = status]_jobVars
<1> SUFFICES ASSUME JobInv, [JobNext]_jobVars, status = "timeout", fired = "module", ~moduleRaised' PROVE status' = status
  BY DEF jobVars
<1>1. moduleRaised \in BOOLEAN => moduleRaised = moduleRaised' \/ Step = "module"
  BY DEF JobNext, MainSteps, UpdateOpen, UpdateClose, UpdateRename, Tell, ModuleReturns, ModuleRaises, Check, Finally,
         OnSigalrm, Killed, jobVars
<1> QED
  BY DEF JobInv, JobFields, Interrupted, Updating, Step, JobNext, MainSteps, UpdateOpen, UpdateClose, UpdateRename, Tell,
         ModuleReturns, ModuleRaises, Check, Finally, OnSigalrm, Killed, jobVars

\* Wherever the alarm strikes and whenever the broker kills the process: the status file is there
\* when the controller is told of the job, a process that ended left a final status in it (a torn
\* one only if the alarm struck while it was written), and a timeout is not overwritten.
THEOREM JobReported == JobSpec => JobSafe
<1>1. JobInv => JobTypeOK /\ EndReported /\ ToldWhenThere
  BY DEF JobInv, EndReported, ToldWhenThere, LastReport, Reported, FirstReport, Step, Updating
<1> QED
  BY <1>1, InitJob, JobStep, TimeoutKept, PTL DEF JobSpec, JobSafe, TimeoutStands

-----------------------------------------------------------------------------
(* Calls: a chain of calls stops at its first failure                           *)

Kinds == {"silent", "call", "forget"}
CallOuts == {"returned", "raised", "refused", "unparsed", "forgot"}
Requests == [chain : Chains, number : Nat, kind : Kinds]
Records == [kind : Kinds, out : CallOuts]
CallReplies == [chain : Chains, number : Nat, result : Nat]

\* The ranges of the fields.
CallsFields ==
  /\ made \in [Chains -> Nat] /\ chainCalls \in Seq(Requests)
  /\ executed \in [Chains -> Seq(Records)] /\ replies \subseteq CallReplies
  /\ \A c \in Chains : Len(executed[c]) <= made[c]
\* The requests of a chain that wait are those it has made since, in that order.
InLine ==
  /\ \A p \in 1..Len(chainCalls) :
       chainCalls[p].number \in Len(executed[chainCalls[p].chain]) + 1..made[chainCalls[p].chain]
  /\ \A p, q \in 1..Len(chainCalls) :
       p < q /\ chainCalls[p].chain = chainCalls[q].chain => chainCalls[p].number < chainCalls[q].number
  /\ \A c \in Chains : \A k \in Len(executed[c]) + 1..made[c] :
       \E p \in 1..Len(chainCalls) : chainCalls[p].chain = c /\ chainCalls[p].number = k
\* A request is answered once, after it was taken.
Answers ==
  /\ \A a \in replies : a.number \in 1..Len(executed[a.chain])
  /\ \A a, b \in replies : a.chain = b.chain /\ a.number = b.number => a = b
\* A chain was not reset between two of its requests.
Unforgotten(c, i, j) == \A k \in i..j : executed[c][k].out # "forgot"
\* What the dispatcher keeps for a chain is the request of its own that raised and was not forgotten.
KeptFailures ==
  /\ DOMAIN failed \subseteq Pipelined
  /\ \A c \in DOMAIN failed : /\ failed[c] \in 1..Len(executed[c]) /\ executed[c][failed[c]].out = "raised"
                              /\ Unforgotten(c, failed[c], Len(executed[c]))
  /\ \A c \in Pipelined : \A i \in 1..Len(executed[c]) :
       executed[c][i].out = "raised" /\ Unforgotten(c, i, Len(executed[c])) => c \in DOMAIN failed
\* Nothing of a chain runs between a failure and a reset.
Stops ==
  \A c \in Pipelined : \A i, j \in 1..Len(executed[c]) :
    i < j /\ executed[c][i].out = "raised" /\ executed[c][j].out \in {"returned", "raised"} => ~Unforgotten(c, i, j)
\* What is refused follows a failure that stands, and the answer names that failure.
RefusedForCause ==
  \A c \in Chains : \A j \in 1..Len(executed[c]) : executed[c][j].out = "refused" =>
    \E i \in 1..(j - 1) : /\ executed[c][i].out = "raised" /\ Unforgotten(c, i, j)
                          /\ \A a \in replies : a.chain = c /\ a.number = j => a.result = i

CallsInv == CallsFields /\ InLine /\ Answers /\ KeptFailures /\ Stops /\ RefusedForCause

LEMMA InitCalls == CallsInit => CallsInv
<1> SUFFICES ASSUME CallsInit PROVE CallsInv
  OBVIOUS
<1> USE DEF CallsInit
<1>1. \A c \in Chains : Len(executed[c]) = 0 /\ made[c] = 0
  OBVIOUS
<1>2. CallsFields
  BY <1>1 DEF CallsFields
<1>3. InLine
  BY <1>1 DEF InLine
<1>4. Answers
  BY DEF Answers
<1>5. KeptFailures
  BY <1>1, CallsAssumption DEF KeptFailures
<1>6. Stops /\ RefusedForCause
  BY <1>1, CallsAssumption DEF Stops, RefusedForCause
<1> QED
  BY <1>2, <1>3, <1>4, <1>5, <1>6 DEF CallsInv

\* A request joins the end of the line.
LEMMA MakeKeeps == ASSUME CallsInv, NEW c \in Chains, NEW kind \in Kinds, Make(c, kind) PROVE CallsInv'
<1> DEFINE r == Request(c, kind)
<1>0. CallsFields /\ InLine /\ Answers /\ KeptFailures /\ Stops /\ RefusedForCause
  BY DEF CallsInv
<1>1. UNCHANGED <<failed, executed, replies>> /\ chainCalls' = Append(chainCalls, r)
      /\ made' = [made EXCEPT ![c] = made[c] + 1]
  BY DEF Make
<1>2. made[c] \in Nat /\ r \in Requests /\ r.chain = c /\ r.number = made[c] + 1
  BY <1>0 DEF CallsFields, Requests, Request
<1>3. CallsFields'
  <2>1. made' \in [Chains -> Nat]
    BY <1>0, <1>1, <1>2 DEF CallsFields
  <2>2. chainCalls' \in Seq(Requests)
    BY <1>0, <1>1, <1>2 DEF CallsFields
  <2>3. \A d \in Chains : Len(executed'[d]) = Len(executed[d]) /\ Len(executed[d]) \in Nat /\ Len(executed[d]) <= made[d] /\ made[d] \in Nat
    BY <1>0, <1>1 DEF CallsFields
  <2>4. \A d \in Chains : Len(executed'[d]) <= made'[d]
    BY <1>0, <1>1, <1>2, <2>3 DEF CallsFields
  <2> QED
    BY <1>0, <1>1, <2>1, <2>2, <2>4 DEF CallsFields
<1>4. InLine'
  <2>1. \A d \in Chains : /\ Len(executed'[d]) = Len(executed[d]) /\ Len(executed[d]) \in Nat /\ made[d] \in Nat
                          /\ made'[d] = IF d = c THEN made[c] + 1 ELSE made[d]
    BY <1>0, <1>1, <1>2 DEF CallsFields
  <2>2. /\ Len(chainCalls) \in Nat /\ Len(chainCalls') = Len(chainCalls) + 1
        /\ \A p \in 1..Len(chainCalls) : chainCalls'[p] = chainCalls[p] /\ chainCalls[p].chain \in Chains
                                         /\ chainCalls[p].number \in Nat
        /\ chainCalls'[Len(chainCalls) + 1] = r
    <3> HIDE DEF r
    <3>1. chainCalls \in Seq(Requests)
      BY <1>0 DEF CallsFields
    <3>2. \A p \in 1..Len(chainCalls) : chainCalls[p] \in Requests
      BY <3>1
    <3> QED
      BY <1>1, <3>1, <3>2 DEF Requests
  <2> HIDE DEF r
  <2>3. \A p \in 1..Len(chainCalls') : p \in 1..Len(chainCalls) \/ p = Len(chainCalls) + 1
    BY <2>2
  <2>4. \A p \in 1..Len(chainCalls) : p \in 1..Len(chainCalls') /\ p < Len(chainCalls) + 1
    BY <2>2
  <2>5. Len(executed[c]) <= made[c]
    BY <1>0 DEF CallsFields
  <2>6. \A p \in 1..Len(chainCalls') :
          chainCalls'[p].number \in Len(executed'[chainCalls'[p].chain]) + 1..made'[chainCalls'[p].chain]
    <3> TAKE p \in 1..Len(chainCalls')
    <3>1. CASE p = Len(chainCalls) + 1
      <4>1. chainCalls'[p].number = made[c] + 1 /\ chainCalls'[p].chain = c
        BY <1>2, <2>2, <3>1
      <4>2. Len(executed'[c]) = Len(executed[c]) /\ made'[c] = made[c] + 1 /\ Len(executed[c]) \in Nat
        BY <2>1
      <4> QED
        BY <1>2, <2>5, <4>1, <4>2
    <3>2. CASE p \in 1..Len(chainCalls)
      <4>1. chainCalls[p].number \in Len(executed[chainCalls[p].chain]) + 1..made[chainCalls[p].chain]
        BY <1>0, <3>2 DEF InLine
      <4>2. chainCalls'[p] = chainCalls[p] /\ chainCalls[p].chain \in Chains /\ chainCalls[p].number \in Nat
        BY <2>2, <3>2
      <4> DEFINE d == chainCalls[p].chain
                 n == chainCalls[p].number
      <4>3. d \in Chains /\ n \in Nat /\ n \in Len(executed[d]) + 1..made[d]
        BY <4>1, <4>2
      <4> HIDE DEF d, n
      <4>4. Len(executed'[d]) = Len(executed[d]) /\ Len(executed[d]) \in Nat /\ made[d] \in Nat
            /\ (made'[d] = made[d] \/ made'[d] = made[d] + 1)
        BY <2>1, <4>3
      <4>5. n \in Len(executed'[d]) + 1..made'[d]
        BY <4>3, <4>4
      <4> QED
        BY <4>2, <4>5 DEF d, n
    <3> QED
      BY <2>3, <3>1, <3>2
  <2>7. \A p, q \in 1..Len(chainCalls') :
          p < q /\ chainCalls'[p].chain = chainCalls'[q].chain => chainCalls'[p].number < chainCalls'[q].number
    <3> TAKE p, q \in 1..Len(chainCalls')
    <3> HAVE p < q /\ chainCalls'[p].chain = chainCalls'[q].chain
    <3>1. p \in 1..Len(chainCalls) /\ p \in Nat
      BY <2>2
    <3>2. CASE q = Len(chainCalls) + 1
      <4>1. chainCalls[p].chain = c /\ chainCalls[p].number \in Len(executed[c]) + 1..made[c]
        BY <1>0, <1>2, <2>2, <3>1, <3>2 DEF InLine
      <4> QED
        BY <1>2, <2>1, <2>2, <3>1, <3>2, <4>1
    <3>3. CASE q \in 1..Len(chainCalls)
      BY <1>0, <2>2, <3>1, <3>3 DEF InLine
    <3> QED
      BY <2>3, <3>2, <3>3
  <2>8. \A d \in Chains : \A k \in Len(executed'[d]) + 1..made'[d] :
          \E p \in 1..Len(chainCalls') : chainCalls'[p].chain = d /\ chainCalls'[p].number = k
    <3> TAKE d \in Chains
    <3> TAKE k \in Len(executed'[d]) + 1..made'[d]
    <3>1. CASE d = c /\ k = made[c] + 1
      <4>1. Len(chainCalls) + 1 \in 1..Len(chainCalls')
        BY <2>2
      <4> QED
        BY <1>2, <2>2, <3>1, <4>1
    <3>2. CASE ~(d = c /\ k = made[c] + 1)
      <4>1. k \in Len(executed[d]) + 1..made[d]
        BY <2>1, <3>2
      <4>2. PICK p \in 1..Len(chainCalls) : chainCalls[p].chain = d /\ chainCalls[p].number = k
        BY <1>0, <4>1 DEF InLine
      <4> QED
        BY <2>2, <2>4, <4>2
    <3> QED
      BY <3>1, <3>2
  <2> QED
    BY <2>6, <2>7, <2>8 DEF InLine
<1>5. Answers' /\ KeptFailures' /\ Stops' /\ RefusedForCause'
  BY <1>0, <1>1 DEF Answers, KeptFailures, Stops, RefusedForCause, Unforgotten
<1> QED
  BY <1>3, <1>4, <1>5 DEF CallsInv

-----------------------------------------------------------------------------
(* The dispatcher takes the next request *)

\* It is the first of its chain that was not executed.
LEMMA NextOfChain ==
  ASSUME CallsFields, InLine, chainCalls # << >>
  PROVE  /\ Head(chainCalls) \in Requests /\ Head(chainCalls).chain \in Chains
         /\ Head(chainCalls).number = Len(executed[Head(chainCalls).chain]) + 1
         /\ Head(chainCalls).number <= made[Head(chainCalls).chain]
<1> DEFINE r == chainCalls[1]
<1>1. /\ Len(chainCalls) \in Nat \ {0} /\ 1 \in 1..Len(chainCalls) /\ Head(chainCalls) = r
      /\ \A p \in 1..Len(chainCalls) : chainCalls[p] \in Requests
  BY DEF CallsFields
<1>2. r \in Requests /\ r.chain \in Chains /\ r.number \in Nat
  BY <1>1 DEF Requests
<1>3. Len(executed[r.chain]) \in Nat /\ made[r.chain] \in Nat
  BY <1>2 DEF CallsFields
<1>4. r.number \in Len(executed[r.chain]) + 1..made[r.chain]
  BY <1>1 DEF InLine
<1>5. Len(executed[r.chain]) + 1 \in Len(executed[r.chain]) + 1..made[r.chain]
  BY <1>2, <1>3, <1>4
<1>6. PICK p \in 1..Len(chainCalls) : chainCalls[p].chain = r.chain /\ chainCalls[p].number = Len(executed[r.chain]) + 1
  BY <1>2, <1>5 DEF InLine
<1>7. p = 1 \/ 1 < p
  BY <1>1
<1>8. 1 < p => r.number < chainCalls[p].number
  BY <1>1, <1>6 DEF InLine
<1> HIDE DEF r
<1> QED
  BY <1>1, <1>2, <1>3, <1>4, <1>6, <1>7, <1>8

\* The requests that wait move up.
LEMMA LineMovesUp ==
  ASSUME CallsFields, InLine, chainCalls # << >>, UNCHANGED made, chainCalls' = Tail(chainCalls),
         \A d \in Chains : Len(executed'[d]) = Len(executed[d]) + (IF d = Head(chainCalls).chain THEN 1 ELSE 0)
  PROVE  InLine' /\ chainCalls' \in Seq(Requests) /\ \A d \in Chains : Len(executed'[d]) <= made'[d]
<1> DEFINE r == Head(chainCalls)
<1>1. r.chain \in Chains /\ r.number = Len(executed[r.chain]) + 1 /\ r.number <= made[r.chain]
  BY NextOfChain
<1>2. /\ Len(chainCalls) \in Nat \ {0} /\ chainCalls' \in Seq(Requests) /\ Len(chainCalls') = Len(chainCalls) - 1
      /\ \A p \in 1..Len(chainCalls') : p + 1 \in 1..Len(chainCalls) /\ 1 < p + 1 /\ chainCalls'[p] = chainCalls[p + 1]
      /\ chainCalls[1] = r /\ 1 \in 1..Len(chainCalls)
      /\ \A p \in 1..Len(chainCalls) : p = 1 \/ (p - 1 \in 1..Len(chainCalls') /\ p = (p - 1) + 1)
  <2>1. chainCalls \in Seq(Requests) /\ chainCalls # << >>
    BY DEF CallsFields
  <2>2. /\ Len(chainCalls) \in Nat \ {0} /\ chainCalls' \in Seq(Requests) /\ Len(chainCalls') = Len(chainCalls) - 1
        /\ \A p \in 1..Len(chainCalls') : chainCalls'[p] = chainCalls[p + 1]
        /\ chainCalls[1] = r
    BY <2>1
  <2> HIDE DEF r
  <2> DEFINE n == Len(chainCalls)
             m == Len(chainCalls')
  <2>3. n \in Nat \ {0} /\ m = n - 1
    BY <2>2
  <2> HIDE DEF n, m
  <2>4. \A p \in 1..m : p + 1 \in 1..n /\ 1 < p + 1
    BY <2>3
  <2>5. 1 \in 1..n /\ \A p \in 1..n : p = 1 \/ (p - 1 \in 1..m /\ p = (p - 1) + 1)
    BY <2>3
  <2> QED
    BY <2>2, <2>4, <2>5 DEF n, m
<1>3. \A p \in 1..Len(chainCalls) : chainCalls[p].chain \in Chains /\ chainCalls[p].number \in Nat
  <2>1. \A p \in 1..Len(chainCalls) : chainCalls[p] \in Requests
    BY DEF CallsFields
  <2> QED
    BY <2>1 DEF Requests
<1>4. \A d \in Chains : Len(executed[d]) \in Nat /\ made[d] \in Nat /\ Len(executed[d]) <= made[d]
  <2> SUFFICES ASSUME NEW d \in Chains PROVE Len(executed[d]) \in Nat /\ made[d] \in Nat /\ Len(executed[d]) <= made[d]
    OBVIOUS
  <2>1. executed[d] \in Seq(Records) /\ made[d] \in Nat /\ Len(executed[d]) <= made[d]
    BY DEF CallsFields
  <2> QED
    BY <2>1
<1> HIDE DEF r
<1>5. \A d \in Chains : Len(executed'[d]) = Len(executed[d]) + (IF d = r.chain THEN 1 ELSE 0)
  BY DEF r
<1>10. made' = made
  OBVIOUS
<1>6. \A d \in Chains : Len(executed'[d]) <= made'[d]
  <2> TAKE d \in Chains
  <2>0. made'[d] = made[d] /\ made[d] \in Nat /\ Len(executed[d]) \in Nat /\ Len(executed[d]) <= made[d]
    BY <1>4, <1>10
  <2>1. CASE d = r.chain
    <3>1. Len(executed'[d]) = Len(executed[d]) + 1
      BY <1>5, <2>1
    <3>2. Len(executed[d]) + 1 <= made[d]
      BY <1>1, <2>1
    <3> QED
      BY <2>0, <3>1, <3>2
  <2>2. CASE d # r.chain
    <3>1. Len(executed'[d]) = Len(executed[d]) + 0
      BY <1>5, <2>2
    <3> QED
      BY <2>0, <3>1
  <2> QED
    BY <2>1, <2>2
<1>7. \A p \in 1..Len(chainCalls') :
        chainCalls'[p].number \in Len(executed'[chainCalls'[p].chain]) + 1..made'[chainCalls'[p].chain]
  <2> TAKE p \in 1..Len(chainCalls')
  <2>1. chainCalls'[p] = chainCalls[p + 1] /\ p + 1 \in 1..Len(chainCalls) /\ 1 < p + 1
    BY <1>2
  <2>2. chainCalls[p + 1].number \in Len(executed[chainCalls[p + 1].chain]) + 1..made[chainCalls[p + 1].chain]
    BY <2>1 DEF InLine
  <2>3. chainCalls[p + 1].chain = r.chain => r.number < chainCalls[p + 1].number
    BY <1>2, <2>1 DEF InLine
  <2>4. chainCalls[p + 1].chain \in Chains /\ chainCalls[p + 1].number \in Nat
    BY <1>3, <2>1
  <2> QED
    <3> DEFINE d == chainCalls[p + 1].chain
               n == chainCalls[p + 1].number
    <3>1. d \in Chains /\ n \in Nat /\ n \in Len(executed[d]) + 1..made[d] /\ (d = r.chain => r.number < n)
      BY <2>2, <2>3, <2>4
    <3> HIDE DEF d, n
    <3>3. Len(executed[d]) \in Nat /\ made[d] \in Nat
      BY <1>4, <3>1
    <3>2. n \in Len(executed'[d]) + 1..made[d]
      <4>1. CASE d = r.chain
        <5>1. Len(executed'[d]) = Len(executed[d]) + 1 /\ r.number = Len(executed[d]) + 1
          BY <1>1, <1>5, <3>1, <4>1
        <5> QED
          BY <3>1, <3>3, <4>1, <5>1
      <4>2. CASE d # r.chain
        <5>1. Len(executed'[d]) = Len(executed[d]) + 0
          BY <1>5, <3>1, <4>2
        <5> QED
          BY <3>1, <3>3, <5>1
      <4> QED
        BY <4>1, <4>2
    <3> QED
      BY <1>10, <2>1, <3>2 DEF d, n
<1>8. \A p, q \in 1..Len(chainCalls') :
        p < q /\ chainCalls'[p].chain = chainCalls'[q].chain => chainCalls'[p].number < chainCalls'[q].number
  <2> TAKE p, q \in 1..Len(chainCalls')
  <2> HAVE p < q /\ chainCalls'[p].chain = chainCalls'[q].chain
  <2>1. p + 1 < q + 1
    BY <1>2
  <2> QED
    BY <1>2, <2>1 DEF InLine
<1>9. \A d \in Chains : \A k \in Len(executed'[d]) + 1..made'[d] :
        \E p \in 1..Len(chainCalls') : chainCalls'[p].chain = d /\ chainCalls'[p].number = k
  <2> TAKE d \in Chains
  <2> TAKE k \in Len(executed'[d]) + 1..made'[d]
  <2>1. k \in Len(executed[d]) + 1..made[d] /\ ~(d = r.chain /\ k = r.number)
    <3>1. Len(executed[d]) \in Nat /\ made[d] \in Nat /\ made'[d] = made[d]
      BY <1>4, <1>10
    <3>2. CASE d = r.chain
      <4>1. Len(executed'[d]) = Len(executed[d]) + 1 /\ r.number = Len(executed[d]) + 1
        BY <1>1, <1>5, <3>2
      <4>2. k \in Len(executed[d]) + 2..made[d]
        BY <3>1, <4>1
      <4> QED
        BY <3>1, <4>1, <4>2
    <3>3. CASE d # r.chain
      <4>1. Len(executed'[d]) = Len(executed[d]) + 0
        BY <1>5, <3>3
      <4> QED
        BY <3>1, <3>3, <4>1
    <3> QED
      BY <3>2, <3>3
  <2>2. PICK p \in 1..Len(chainCalls) : chainCalls[p].chain = d /\ chainCalls[p].number = k
    BY <2>1 DEF InLine
  <2>3. p # 1
    BY <1>2, <2>1, <2>2
  <2>4. p - 1 \in 1..Len(chainCalls') /\ chainCalls'[p - 1] = chainCalls[p]
    BY <1>2, <2>2, <2>3
  <2> QED
    BY <2>2, <2>4
<1> QED
  BY <1>2, <1>6, <1>7, <1>8, <1>9 DEF InLine

\* What one more record does to the records of a chain.
LEMMA OneMore ==
  ASSUME CallsFields, NEW c \in Chains, NEW e \in Records,
         executed' = [executed EXCEPT ![c] = Append(executed[c], e)]
  PROVE  /\ executed' \in [Chains -> Seq(Records)]
         /\ \A d \in Chains : Len(executed[d]) \in Nat /\ Len(executed'[d]) = Len(executed[d]) + (IF d = c THEN 1 ELSE 0)
         /\ \A d \in Chains : \A i \in 1..Len(executed[d]) : executed'[d][i] = executed[d][i]
         /\ executed'[c][Len(executed[c]) + 1] = e
<1>1. executed[c] \in Seq(Records) /\ \A d \in Chains : Len(executed[d]) \in Nat
  BY DEF CallsFields
<1>2. Append(executed[c], e) \in Seq(Records)
  BY <1>1
<1>3. executed'[c] = Append(executed[c], e) /\ \A d \in Chains : d # c => executed'[d] = executed[d]
  BY DEF CallsFields
<1>4. executed' \in [Chains -> Seq(Records)]
  BY <1>2 DEF CallsFields
<1>5. Len(Append(executed[c], e)) = Len(executed[c]) + 1 /\ Append(executed[c], e)[Len(executed[c]) + 1] = e
      /\ \A i \in 1..Len(executed[c]) : Append(executed[c], e)[i] = executed[c][i]
  BY <1>1
<1> QED
  BY <1>1, <1>3, <1>4, <1>5

\* The dispatcher records what became of the request, and answers it or not.
Taken(kind, out, result) ==
  /\ chainCalls # << >> /\ kind \in Kinds /\ out \in CallOuts /\ result \in Nat
  /\ chainCalls' = Tail(chainCalls) /\ UNCHANGED made
  /\ executed' = [executed EXCEPT ![Head(chainCalls).chain] = Append(executed[Head(chainCalls).chain], [kind |-> kind, out |-> out])]
  /\ \/ replies' = replies
     \/ replies' = replies \cup {[chain |-> Head(chainCalls).chain, number |-> Head(chainCalls).number, result |-> result]}

\* What the dispatcher has recorded of a request.
LEMMA RecordOf ==
  ASSUME CallsInv, NEW kind, NEW out, NEW result, Taken(kind, out, result),
         NEW c, c = Head(chainCalls).chain, NEW n, n = Head(chainCalls).number
  PROVE  /\ c \in Chains /\ n \in Nat /\ n = Len(executed[c]) + 1
         /\ executed' \in [Chains -> Seq(Records)]
         /\ \A d \in Chains : Len(executed[d]) \in Nat /\ Len(executed'[d]) = IF d = c THEN n ELSE Len(executed[d])
         /\ \A d \in Chains : \A i \in 1..Len(executed[d]) : executed'[d][i] = executed[d][i]
         /\ executed'[c][n].out = out
<1>1. CallsFields /\ InLine
  BY DEF CallsInv
<1>2. Head(chainCalls) \in Requests /\ c \in Chains /\ n = Len(executed[c]) + 1
  BY <1>1, NextOfChain DEF Taken
<1> DEFINE e == [kind |-> kind, out |-> out]
<1>3. e \in Records /\ e.out = out /\ executed' = [executed EXCEPT ![c] = Append(executed[c], e)]
  BY DEF Taken, Records
<1> HIDE DEF e
<1>4. /\ executed' \in [Chains -> Seq(Records)]
      /\ \A d \in Chains : Len(executed[d]) \in Nat /\ Len(executed'[d]) = Len(executed[d]) + (IF d = c THEN 1 ELSE 0)
      /\ \A d \in Chains : \A i \in 1..Len(executed[d]) : executed'[d][i] = executed[d][i]
      /\ executed'[c][Len(executed[c]) + 1] = e
  BY <1>1, <1>2, <1>3, OneMore
<1>5. \A d \in Chains : Len(executed[d]) \in Nat /\ Len(executed'[d]) = IF d = c THEN n ELSE Len(executed[d])
  <2> TAKE d \in Chains
  <2>1. CASE d = c
    BY <1>2, <1>4, <2>1
  <2>2. CASE d # c
    <3>1. Len(executed'[d]) = Len(executed[d]) + 0 /\ Len(executed[d]) \in Nat
      BY <1>4, <2>2
    <3> QED
      BY <2>2, <3>1
  <2> QED
    BY <2>1, <2>2
<1> QED
  BY <1>2, <1>3, <1>4, <1>5

\* The line, the records and the answers stay in step.
LEMMA TakenFields ==
  ASSUME CallsInv, NEW kind, NEW out, NEW result, Taken(kind, out, result)
  PROVE  CallsFields' /\ InLine' /\ Answers'
<1> DEFINE c == Head(chainCalls).chain
           n == Head(chainCalls).number
<1>1. CallsFields /\ InLine /\ Answers /\ chainCalls # << >> /\ UNCHANGED made /\ chainCalls' = Tail(chainCalls) /\ result \in Nat
  BY DEF CallsInv, Taken
<1>2. /\ c \in Chains /\ n \in Nat /\ n = Len(executed[c]) + 1
      /\ executed' \in [Chains -> Seq(Records)]
      /\ \A d \in Chains : Len(executed[d]) \in Nat /\ Len(executed'[d]) = IF d = c THEN n ELSE Len(executed[d])
  BY RecordOf
<1>3. \A d \in Chains : Len(executed'[d]) = Len(executed[d]) + (IF d = Head(chainCalls).chain THEN 1 ELSE 0)
  <2> TAKE d \in Chains
  <2>1. CASE d = c
    BY <1>2, <2>1
  <2>2. CASE d # c
    <3>1. Len(executed'[d]) = Len(executed[d]) /\ Len(executed[d]) \in Nat
      BY <1>2, <2>2
    <3> QED
      BY <2>2, <3>1
  <2> QED
    BY <2>1, <2>2
<1>4. InLine' /\ chainCalls' \in Seq(Requests) /\ \A d \in Chains : Len(executed'[d]) <= made'[d]
  BY <1>1, <1>3, LineMovesUp
<1> DEFINE a0 == [chain |-> c, number |-> n, result |-> result]
<1>5. a0 \in CallReplies /\ a0.chain = c /\ a0.number = n
  BY <1>1, <1>2 DEF CallReplies
<1>6. replies' = replies \/ replies' = replies \cup {a0}
  BY DEF Taken
<1> HIDE DEF a0, c, n
<1>7. replies' \subseteq CallReplies
  BY <1>1, <1>5, <1>6 DEF CallsFields
<1>8. CallsFields'
  BY <1>1, <1>2, <1>4, <1>7 DEF CallsFields
<1>9. \A a \in replies : a.chain \in Chains /\ a.number \in 1..Len(executed[a.chain])
  BY <1>1 DEF CallsFields, CallReplies, Answers
<1>10. \A a \in replies' : a.number \in 1..Len(executed'[a.chain])
  <2> TAKE a \in replies'
  <2>1. CASE a \in replies
    <3>1. a.chain \in Chains /\ a.number \in 1..Len(executed[a.chain])
      BY <1>9, <2>1
    <3>2. Len(executed[a.chain]) \in Nat /\ Len(executed'[a.chain]) \in {Len(executed[a.chain]), Len(executed[a.chain]) + 1}
      BY <1>2, <3>1
    <3> QED
      BY <3>1, <3>2
  <2>2. CASE a = a0
    <3>1. Len(executed'[c]) = n /\ n \in 1..n
      BY <1>2
    <3> QED
      BY <1>5, <2>2, <3>1
  <2> QED
    BY <1>6, <2>1, <2>2
<1>11. \A a \in replies : ~(a.chain = a0.chain /\ a.number = a0.number)
  <2> SUFFICES ASSUME NEW a \in replies, a.chain = c, a.number = n PROVE FALSE
    BY <1>5
  <2>1. n \in 1..Len(executed[c]) /\ Len(executed[c]) \in Nat
    BY <1>2, <1>9
  <2> QED
    BY <1>2, <2>1
<1>12. \A a, b \in replies' : a.chain = b.chain /\ a.number = b.number => a = b
  BY <1>1, <1>6, <1>11 DEF Answers
<1> QED
  BY <1>4, <1>8, <1>10, <1>12 DEF Answers

\* Where a chain was not reset before the record, it was not reset after it.
LEMMA ResetsSeen ==
  ASSUME CallsInv, NEW kind, NEW out, NEW result, Taken(kind, out, result),
         NEW c, c = Head(chainCalls).chain, NEW n, n = Head(chainCalls).number
  PROVE  /\ \A d \in Chains : \A i, j \in 1..Len(executed[d]) : Unforgotten(d, i, j) <=> \A k \in i..j : executed'[d][k].out # "forgot"
         /\ \A i \in 1..Len(executed[c]) : (\A k \in i..n : executed'[c][k].out # "forgot") <=> Unforgotten(c, i, Len(executed[c])) /\ out # "forgot"
<1>1. /\ c \in Chains /\ n \in Nat /\ n = Len(executed[c]) + 1
      /\ \A d \in Chains : Len(executed[d]) \in Nat
      /\ \A d \in Chains : \A i \in 1..Len(executed[d]) : executed'[d][i] = executed[d][i]
      /\ executed'[c][n].out = out
  BY RecordOf
<1>2. \A d \in Chains : \A i, j \in 1..Len(executed[d]) : Unforgotten(d, i, j) <=> \A k \in i..j : executed'[d][k].out # "forgot"
  <2> TAKE d \in Chains
  <2> TAKE i, j \in 1..Len(executed[d])
  <2>1. \A k \in i..j : k \in 1..Len(executed[d])
    BY <1>1
  <2> QED
    BY <1>1, <2>1 DEF Unforgotten
<1>3. \A i \in 1..Len(executed[c]) : (\A k \in i..n : executed'[c][k].out # "forgot") <=> Unforgotten(c, i, Len(executed[c])) /\ out # "forgot"
  <2> TAKE i \in 1..Len(executed[c])
  <2> DEFINE m == Len(executed[c])
  <2>1. m \in Nat /\ i \in 1..m /\ n = m + 1
    BY <1>1
  <2> HIDE DEF m
  <2>2. \A k \in i..n : k \in i..m \/ k = n
    BY <2>1
  <2>3. (\A k \in i..m : k \in i..n /\ k \in 1..m) /\ n \in i..n
    BY <2>1
  <2>4. \A k \in i..m : executed'[c][k] = executed[c][k]
    BY <1>1, <2>3 DEF m
  <2>5. Unforgotten(c, i, m) <=> \A k \in i..m : executed[c][k].out # "forgot"
    BY DEF Unforgotten
  <2>6. (\A k \in i..n : executed'[c][k].out # "forgot") <=> Unforgotten(c, i, m) /\ out # "forgot"
    BY <1>1, <2>2, <2>3, <2>4, <2>5
  <2> QED
    BY <2>6 DEF m
<1> QED
  BY <1>2, <1>3

\* A call that ran belongs to a chain without a failure, so nothing is in its way.
LEMMA TakenStops ==
  ASSUME CallsInv, NEW kind, NEW out, NEW result, Taken(kind, out, result),
         out \in {"returned", "raised"} => Head(chainCalls).chain \notin DOMAIN failed
  PROVE  Stops'
<1> DEFINE c == Head(chainCalls).chain
           n == Head(chainCalls).number
<1>0. Stops /\ KeptFailures
  BY DEF CallsInv
<1>1. /\ c \in Chains /\ n \in Nat /\ n = Len(executed[c]) + 1
      /\ \A d \in Chains : Len(executed[d]) \in Nat /\ Len(executed'[d]) = IF d = c THEN n ELSE Len(executed[d])
      /\ \A d \in Chains : \A i \in 1..Len(executed[d]) : executed'[d][i] = executed[d][i]
      /\ executed'[c][n].out = out
  BY RecordOf
<1>2. /\ \A d \in Chains : \A i, j \in 1..Len(executed[d]) : Unforgotten(d, i, j) <=> \A k \in i..j : executed'[d][k].out # "forgot"
      /\ \A i \in 1..Len(executed[c]) : (\A k \in i..n : executed'[c][k].out # "forgot") <=> Unforgotten(c, i, Len(executed[c])) /\ out # "forgot"
  BY ResetsSeen
<1>3. out \in {"returned", "raised"} => c \notin DOMAIN failed
  OBVIOUS
<1> HIDE DEF c, n
<1>4. \A d \in Pipelined : \A i, j \in 1..Len(executed'[d]) :
        i < j /\ executed'[d][i].out = "raised" /\ executed'[d][j].out \in {"returned", "raised"}
          => ~(\A k \in i..j : executed'[d][k].out # "forgot")
  <2> TAKE d \in Pipelined
  <2> TAKE i, j \in 1..Len(executed'[d])
  <2> HAVE i < j /\ executed'[d][i].out = "raised" /\ executed'[d][j].out \in {"returned", "raised"}
  <2>0. d \in Chains
    BY CallsAssumption
  <2>1. CASE j \in 1..Len(executed[d])
    <3>1. i \in 1..Len(executed[d])
      BY <1>1, <2>0, <2>1
    <3>2. executed'[d][i] = executed[d][i] /\ executed'[d][j] = executed[d][j]
      BY <1>1, <2>0, <2>1, <3>1
    <3>3. ~Unforgotten(d, i, j)
      BY <1>0, <2>1, <3>1, <3>2 DEF Stops
    <3> QED
      BY <1>2, <2>0, <2>1, <3>1, <3>3
  <2>2. CASE j \notin 1..Len(executed[d])
    <3>1. d = c /\ j = n
      <4>1. d = c
        BY <1>1, <2>0, <2>2
      <4> QED
        BY <1>1, <2>2, <4>1
    <3>2. i \in 1..Len(executed[c])
      BY <1>1, <3>1
    <3>3. executed[c][i].out = "raised" /\ c \notin DOMAIN failed
      BY <1>1, <1>3, <3>1, <3>2
    <3>4. ~Unforgotten(c, i, Len(executed[c]))
      BY <1>0, <3>1, <3>2, <3>3 DEF KeptFailures
    <3> QED
      BY <1>2, <3>1, <3>2, <3>4
  <2> QED
    BY <2>1, <2>2
<1> QED
  BY <1>4 DEF Stops, Unforgotten

\* A call that was refused had a failure of its own chain before it, and is answered with that.
LEMMA TakenRefused ==
  ASSUME CallsInv, NEW kind, NEW out, NEW result, Taken(kind, out, result),
         out = "refused" => Head(chainCalls).chain \in DOMAIN failed /\ result = failed[Head(chainCalls).chain]
  PROVE  RefusedForCause'
<1> DEFINE c == Head(chainCalls).chain
           n == Head(chainCalls).number
           a0 == [chain |-> c, number |-> n, result |-> result]
<1>0. RefusedForCause /\ KeptFailures /\ Answers
  BY DEF CallsInv
<1>1. /\ c \in Chains /\ n \in Nat /\ n = Len(executed[c]) + 1
      /\ \A d \in Chains : Len(executed[d]) \in Nat /\ Len(executed'[d]) = IF d = c THEN n ELSE Len(executed[d])
      /\ \A d \in Chains : \A i \in 1..Len(executed[d]) : executed'[d][i] = executed[d][i]
      /\ executed'[c][n].out = out
  BY RecordOf
<1>2. /\ \A d \in Chains : \A i, j \in 1..Len(executed[d]) : Unforgotten(d, i, j) <=> \A k \in i..j : executed'[d][k].out # "forgot"
      /\ \A i \in 1..Len(executed[c]) : (\A k \in i..n : executed'[c][k].out # "forgot") <=> Unforgotten(c, i, Len(executed[c])) /\ out # "forgot"
  BY ResetsSeen
<1>3. out = "refused" => c \in DOMAIN failed /\ result = failed[c]
  OBVIOUS
<1>4. (replies' = replies \/ replies' = replies \cup {a0}) /\ a0.chain = c /\ a0.number = n /\ a0.result = result
  BY DEF Taken
<1> HIDE DEF c, n, a0
<1>5. \A d \in Chains : \A j \in 1..Len(executed'[d]) : executed'[d][j].out = "refused" =>
        \E i \in 1..(j - 1) : /\ executed'[d][i].out = "raised" /\ \A k \in i..j : executed'[d][k].out # "forgot"
                              /\ \A a \in replies' : a.chain = d /\ a.number = j => a.result = i
  <2> TAKE d \in Chains
  <2> TAKE j \in 1..Len(executed'[d])
  <2> HAVE executed'[d][j].out = "refused"
  <2>1. CASE j \in 1..Len(executed[d])
    <3>1. executed[d][j].out = "refused"
      BY <1>1, <2>1
    <3>2. PICK i \in 1..(j - 1) : /\ executed[d][i].out = "raised" /\ Unforgotten(d, i, j)
                                  /\ \A a \in replies : a.chain = d /\ a.number = j => a.result = i
      BY <1>0, <2>1, <3>1 DEF RefusedForCause
    <3>3. i \in 1..Len(executed[d])
      BY <1>1, <2>1
    <3>4. executed'[d][i].out = "raised" /\ \A k \in i..j : executed'[d][k].out # "forgot"
      BY <1>1, <1>2, <2>1, <3>2, <3>3
    <3>5. ~(a0.chain = d /\ a0.number = j)
      BY <1>1, <1>4, <2>1
    <3>6. \A a \in replies' : a.chain = d /\ a.number = j => a.result = i
      BY <1>4, <3>2, <3>5
    <3> QED
      BY <3>4, <3>6
  <2>2. CASE j \notin 1..Len(executed[d])
    <3>1. d = c /\ j = n
      <4>1. d = c
        BY <1>1, <2>2
      <4> QED
        BY <1>1, <2>2, <4>1
    <3>2. out = "refused" /\ c \in DOMAIN failed /\ result = failed[c]
      BY <1>1, <1>3, <3>1
    <3>3. /\ failed[c] \in 1..Len(executed[c]) /\ executed[c][failed[c]].out = "raised"
          /\ Unforgotten(c, failed[c], Len(executed[c]))
      BY <1>0, <3>2 DEF KeptFailures
    <3>4. result \in 1..(j - 1)
      BY <1>1, <3>1, <3>2, <3>3
    <3>5. executed'[d][result].out = "raised" /\ \A k \in result..j : executed'[d][k].out # "forgot"
      BY <1>1, <1>2, <3>1, <3>2, <3>3
    <3>6. \A a \in replies : ~(a.chain = c /\ a.number = n)
      <4> SUFFICES ASSUME NEW a \in replies, a.chain = c, a.number = n PROVE FALSE
        OBVIOUS
      <4>1. n \in 1..Len(executed[c]) /\ Len(executed[c]) \in Nat
        BY <1>0, <1>1 DEF Answers
      <4> QED
        BY <1>1, <4>1
    <3>7. \A a \in replies' : a.chain = d /\ a.number = j => a.result = result
      BY <1>4, <3>1, <3>6
    <3> QED
      BY <3>4, <3>5, <3>7
  <2> QED
    BY <2>1, <2>2
<1> QED
  BY <1>5 DEF RefusedForCause, Unforgotten

\* What is kept for other chains stays; for the chain of the request, what raised or stood before.
LEMMA TakenKept ==
  ASSUME CallsInv, NEW kind, NEW out, NEW result, Taken(kind, out, result),
         NEW c, c = Head(chainCalls).chain, NEW n, n = Head(chainCalls).number,
         \A d : d # c => (d \in DOMAIN failed' <=> d \in DOMAIN failed),
         \A d \in DOMAIN failed' : d # c => failed'[d] = failed[d],
         c \in DOMAIN failed' => c \in Pipelined /\ out # "forgot"
                                 /\ \/ out = "raised" /\ failed'[c] = n
                                    \/ c \in DOMAIN failed /\ failed'[c] = failed[c],
         c \in DOMAIN failed' \/ out = "forgot" \/ c \notin Pipelined \/ (c \notin DOMAIN failed /\ out # "raised")
  PROVE  KeptFailures'
<1>0. KeptFailures /\ out \in CallOuts
  BY DEF CallsInv, Taken
<1>1. /\ c \in Chains /\ n \in Nat /\ n = Len(executed[c]) + 1
      /\ \A d \in Chains : Len(executed[d]) \in Nat /\ Len(executed'[d]) = IF d = c THEN n ELSE Len(executed[d])
      /\ \A d \in Chains : \A i \in 1..Len(executed[d]) : executed'[d][i] = executed[d][i]
      /\ executed'[c][n].out = out
  BY RecordOf
<1>2. /\ \A d \in Chains : \A i, j \in 1..Len(executed[d]) : Unforgotten(d, i, j) <=> \A k \in i..j : executed'[d][k].out # "forgot"
      /\ \A i \in 1..Len(executed[c]) : (\A k \in i..n : executed'[c][k].out # "forgot") <=> Unforgotten(c, i, Len(executed[c])) /\ out # "forgot"
  BY ResetsSeen
<1>3. DOMAIN failed' \subseteq Pipelined
  BY <1>0 DEF KeptFailures
<1>4. \A d \in DOMAIN failed' : /\ failed'[d] \in 1..Len(executed'[d]) /\ executed'[d][failed'[d]].out = "raised"
                                /\ \A k \in failed'[d]..Len(executed'[d]) : executed'[d][k].out # "forgot"
  <2> TAKE d \in DOMAIN failed'
  <2>0. d \in Chains
    BY <1>3, CallsAssumption
  <2>1. CASE d # c
    <3>1. d \in DOMAIN failed /\ failed'[d] = failed[d] /\ Len(executed'[d]) = Len(executed[d])
      BY <1>1, <2>0, <2>1
    <3>2. /\ failed[d] \in 1..Len(executed[d]) /\ executed[d][failed[d]].out = "raised"
          /\ Unforgotten(d, failed[d], Len(executed[d]))
      BY <1>0, <3>1 DEF KeptFailures
    <3>3. Len(executed[d]) \in 1..Len(executed[d])
      BY <1>1, <2>0, <3>2
    <3>4. executed'[d][failed[d]] = executed[d][failed[d]]
      BY <1>1, <2>0, <3>2
    <3>5. \A k \in failed[d]..Len(executed[d]) : executed'[d][k].out # "forgot"
      BY <1>2, <2>0, <3>2, <3>3
    <3> QED
      BY <3>1, <3>2, <3>4, <3>5
  <2>2. CASE d = c /\ out = "raised" /\ failed'[c] = n
    <3>1. n \in 1..n /\ Len(executed'[c]) = n /\ \A k \in n..n : k = n
      BY <1>1
    <3> QED
      BY <1>1, <2>2, <3>1
  <2>3. CASE d = c /\ c \in DOMAIN failed /\ failed'[c] = failed[c] /\ out # "forgot"
    <3>2. /\ failed[c] \in 1..Len(executed[c]) /\ executed[c][failed[c]].out = "raised"
          /\ Unforgotten(c, failed[c], Len(executed[c]))
      BY <1>0, <2>3 DEF KeptFailures
    <3>3. failed[c] \in 1..n /\ Len(executed'[c]) = n
      BY <1>1, <3>2
    <3>4. executed'[c][failed[c]].out = "raised"
      BY <1>1, <3>2
    <3>5. \A k \in failed[c]..n : executed'[c][k].out # "forgot"
      BY <1>2, <2>3, <3>2
    <3> QED
      BY <2>3, <3>3, <3>4, <3>5
  <2> QED
    BY <2>1, <2>2, <2>3
<1>5. \A d \in Pipelined : \A i \in 1..Len(executed'[d]) :
        executed'[d][i].out = "raised" /\ (\A k \in i..Len(executed'[d]) : executed'[d][k].out # "forgot") => d \in DOMAIN failed'
  <2> TAKE d \in Pipelined
  <2> TAKE i \in 1..Len(executed'[d])
  <2> HAVE executed'[d][i].out = "raised" /\ (\A k \in i..Len(executed'[d]) : executed'[d][k].out # "forgot")
  <2>0. d \in Chains
    BY CallsAssumption
  <2>1. CASE d # c
    <3>1. Len(executed'[d]) = Len(executed[d]) /\ Len(executed[d]) \in 1..Len(executed[d]) /\ i \in 1..Len(executed[d])
      <4>1. Len(executed'[d]) = Len(executed[d]) /\ Len(executed[d]) \in Nat
        BY <1>1, <2>0, <2>1
      <4> QED
        BY <4>1
    <3>2. executed[d][i].out = "raised" /\ Unforgotten(d, i, Len(executed[d]))
      BY <1>1, <1>2, <2>0, <3>1
    <3>3. d \in DOMAIN failed
      BY <1>0, <3>1, <3>2 DEF KeptFailures
    <3> QED
      BY <2>1, <3>3
  <2>2. CASE d = c
    <3>1. Len(executed'[c]) = n /\ n \in i..n
      <4>1. Len(executed'[c]) = n
        BY <1>1
      <4> QED
        BY <1>1, <2>2, <4>1
    <3>2. out # "forgot"
      BY <1>1, <2>2, <3>1
    <3>3. c \in DOMAIN failed \/ out = "raised"
      <4>1. CASE i = n
        BY <1>1, <2>2, <4>1
      <4>2. CASE i # n
        <5>1. i \in 1..Len(executed[c])
          BY <1>1, <2>2, <3>1, <4>2
        <5>2. executed[c][i].out = "raised" /\ Unforgotten(c, i, Len(executed[c]))
          BY <1>1, <1>2, <2>2, <3>1, <5>1
        <5> QED
          BY <1>0, <2>2, <5>1, <5>2 DEF KeptFailures
      <4> QED
        BY <4>1, <4>2
    <3> QED
      BY <2>2, <3>2, <3>3
  <2> QED
    BY <2>1, <2>2
<1> QED
  BY <1>3, <1>4, <1>5 DEF KeptFailures, Unforgotten

\* The dispatcher refuses, runs, cannot parse or forgets.
LEMMA DispatchKeeps == ASSUME CallsInv, DispatchCall PROVE CallsInv'
<1> DEFINE r == Head(chainCalls)
<1>0. CallsFields /\ InLine /\ KeptFailures
  BY DEF CallsInv
<1>1. chainCalls # << >> /\ chainCalls' = Tail(chainCalls) /\ UNCHANGED made
      /\ (Refuse(r) \/ Execute(r) \/ Unparsed(r) \/ ForgetChain(r))
  BY DEF DispatchCall
<1>2. r \in Requests /\ r.chain \in Chains /\ r.number \in Nat /\ r.kind \in Kinds
  BY <1>0, <1>1, NextOfChain DEF Requests
<1>3. ASSUME NEW out \in CallOuts, NEW result \in Nat, Outcome(r, out), ReplyWith(r, result) \/ replies' = replies
      PROVE  Taken(r.kind, out, result)
  BY <1>1, <1>2, <1>3 DEF Taken, Outcome, ReplyWith
<1>4. CASE Refuse(r)
  <2> DEFINE x == failed[r.chain]
  <2>1. r.chain \in DOMAIN failed /\ Outcome(r, "refused") /\ ReplyWith(r, x) /\ UNCHANGED failed
    BY <1>4 DEF Refuse
  <2>2. x \in Nat /\ r.chain \in Pipelined
    <3>1. failed[r.chain] \in 1..Len(executed[r.chain])
      BY <1>0, <2>1 DEF KeptFailures
    <3> QED
      BY <1>0, <2>1, <3>1 DEF KeptFailures
  <2>3. Taken(r.kind, "refused", x)
    BY <1>3, <2>1, <2>2 DEF CallOuts
  <2>4. CallsFields' /\ InLine' /\ Answers'
    BY <2>3, TakenFields
  <2>5. Stops' /\ RefusedForCause'
    BY <2>1, <2>3, TakenStops, TakenRefused
  <2>6. KeptFailures'
    BY <2>1, <2>2, <2>3, TakenKept
  <2> QED
    BY <2>4, <2>5, <2>6 DEF CallsInv
<1>5. CASE Execute(r)
  <2>1. CASE Outcome(r, "returned") /\ ReplyWith(r, 0) /\ UNCHANGED failed
    <3>1. r.chain \notin DOMAIN failed
      BY <1>5 DEF Execute
    <3>2. Taken(r.kind, "returned", 0)
      BY <1>3, <2>1 DEF CallOuts
    <3>3. CallsFields' /\ InLine' /\ Answers'
      BY <3>2, TakenFields
    <3>4. Stops' /\ RefusedForCause'
      BY <3>1, <3>2, TakenStops, TakenRefused
    <3>5. KeptFailures'
      BY <2>1, <3>1, <3>2, TakenKept
    <3> QED
      BY <3>3, <3>4, <3>5 DEF CallsInv
  <2>2. CASE /\ Outcome(r, "raised") /\ ReplyWith(r, r.number)
             /\ IF r.chain \in Pipelined THEN KeepFailure(r) ELSE UNCHANGED failed
    <3>1. r.chain \notin DOMAIN failed
      BY <1>5 DEF Execute
    <3>2. Taken(r.kind, "raised", r.number)
      BY <1>2, <1>3, <2>2 DEF CallOuts
    <3>3. CallsFields' /\ InLine' /\ Answers'
      BY <3>2, TakenFields
    <3>4. Stops' /\ RefusedForCause'
      BY <3>1, <3>2, TakenStops, TakenRefused
    <3>5. CASE r.chain \in Pipelined
      <4>1. /\ DOMAIN failed' = DOMAIN failed \cup {r.chain} /\ failed'[r.chain] = r.number
            /\ \A d \in DOMAIN failed' : d # r.chain => failed'[d] = failed[d]
        BY <2>2, <3>5 DEF KeepFailure
      <4>2. KeptFailures'
        BY <3>2, <3>5, <4>1, TakenKept
      <4> QED
        BY <3>3, <3>4, <4>2 DEF CallsInv
    <3>6. CASE r.chain \notin Pipelined
      <4>2. KeptFailures'
        BY <2>2, <3>1, <3>2, <3>6, TakenKept
      <4> QED
        BY <3>3, <3>4, <4>2 DEF CallsInv
    <3> QED
      BY <3>5, <3>6
  <2> QED
    BY <1>5, <2>1, <2>2 DEF Execute
<1>6. CASE Unparsed(r)
  <2>1. Outcome(r, "unparsed") /\ ReplyWith(r, r.number) /\ UNCHANGED failed
    BY <1>6 DEF Unparsed
  <2>2. Taken(r.kind, "unparsed", r.number)
    BY <1>2, <1>3, <2>1 DEF CallOuts
  <2>3. CallsFields' /\ InLine' /\ Answers'
    BY <2>2, TakenFields
  <2>4. Stops' /\ RefusedForCause'
    BY <2>2, TakenStops, TakenRefused
  <2>5. KeptFailures'
    <3>1. r.chain \in DOMAIN failed => r.chain \in Pipelined
      BY <1>0 DEF KeptFailures
    <3> QED
      BY <2>1, <2>2, <3>1, TakenKept
  <2> QED
    BY <2>3, <2>4, <2>5 DEF CallsInv
<1>7. CASE ForgetChain(r)
  <2>1. failed' = [c \in DOMAIN failed \ {r.chain} |-> failed[c]] /\ Outcome(r, "forgot") /\ UNCHANGED replies
    BY <1>7 DEF ForgetChain
  <2>2. Taken(r.kind, "forgot", 0)
    BY <1>3, <2>1 DEF CallOuts
  <2>3. CallsFields' /\ InLine' /\ Answers'
    BY <2>2, TakenFields
  <2>4. Stops' /\ RefusedForCause'
    BY <2>2, TakenStops, TakenRefused
  <2>5. DOMAIN failed' = DOMAIN failed \ {r.chain} /\ \A d \in DOMAIN failed' : failed'[d] = failed[d]
    BY <2>1
  <2>6. KeptFailures'
    BY <2>2, <2>5, TakenKept
  <2> QED
    BY <2>3, <2>4, <2>6 DEF CallsInv
<1> QED
  BY <1>1, <1>4, <1>5, <1>6, <1>7

LEMMA CallsStep == CallsInv /\ [CallsNext]_callsVars => CallsInv'
<1> SUFFICES ASSUME CallsInv, [CallsNext]_callsVars PROVE CallsInv'
  OBVIOUS
<1>1. CASE UNCHANGED callsVars
  BY <1>1 DEF callsVars, CallsInv, CallsFields, InLine, Answers, KeptFailures, Stops, RefusedForCause, Unforgotten
<1>2. ASSUME NEW c \in Chains, CallNoReply(c) \/ CallAsync(c) \/ Reset(c) PROVE CallsInv'
  <2>1. Make(c, "silent") \/ Make(c, "call") \/ Make(c, "forget")
    BY <1>2 DEF CallNoReply, CallAsync, Reset
  <2> QED
    BY <2>1, MakeKeeps DEF Kinds
<1>3. CASE DispatchCall
  BY <1>3, DispatchKeeps
<1>4. CASE DispatcherCloses
  <2>1. UNCHANGED <<made, chainCalls, failed, executed, replies>>
    BY <1>4 DEF DispatcherCloses
  <2>2. CallsFields' /\ InLine' /\ Answers'
    BY <2>1 DEF CallsInv, CallsFields, InLine, Answers
  <2>3. KeptFailures' /\ Stops' /\ RefusedForCause'
    BY <2>1 DEF CallsInv, KeptFailures, Stops, RefusedForCause, Unforgotten
  <2> QED
    BY <2>2, <2>3 DEF CallsInv
<1>5. CallsNext => (\E c \in Chains : CallNoReply(c) \/ CallAsync(c) \/ Reset(c)) \/ DispatchCall \/ DispatcherCloses
  BY DEF CallsNext
<1> QED
  BY <1>1, <1>2, <1>3, <1>4, <1>5

\* What CallChain and Dispatcher promise holds in every state.
LEMMA CallsInvSafe == CallsInv => CallsSafe
<1> SUFFICES ASSUME CallsInv PROVE CallsSafe
  OBVIOUS
<1>0. CallsFields /\ Answers /\ KeptFailures /\ Stops /\ RefusedForCause
  BY DEF CallsInv
<1>1. \A c \in Chains : executed[c] \in Seq(Records) /\ DOMAIN executed[c] = 1..Len(executed[c])
  BY <1>0 DEF CallsFields
<1>2. CallsTypeOK
  <2>1. \A c \in Chains : Outs(c) \subseteq CallOuts
    <3> TAKE c \in Chains
    <3>1. \A i \in DOMAIN executed[c] : executed[c][i] \in Records
      BY <1>1
    <3> QED
      BY <3>1 DEF Outs, Records
  <2> QED
    BY <1>0, <2>1 DEF CallsTypeOK, CallsFields, Answers, KeptFailures, CallOuts
<1>3. ChainStops
  <2> SUFFICES ASSUME NEW c \in Pipelined, NEW i \in DOMAIN executed[c], NEW j \in DOMAIN executed[c],
                      i < j, executed[c][i].out = "raised", executed[c][j].out \in {"returned", "raised"}
               PROVE  \E k \in i..j : executed[c][k].out = "forgot"
    BY DEF ChainStops, StopsAfter
  <2>1. i \in 1..Len(executed[c]) /\ j \in 1..Len(executed[c])
    BY <1>1, CallsAssumption
  <2> QED
    BY <1>0, <2>1 DEF Stops, Unforgotten
<1>4. RefusedForOwn
  <2> SUFFICES ASSUME NEW c \in Chains, NEW j \in DOMAIN executed[c], executed[c][j].out = "refused"
               PROVE  \E i \in 1..(j - 1) :
                        /\ executed[c][i].out = "raised" /\ \A k \in i..j : executed[c][k].out # "forgot"
                        /\ \A a \in replies : a.chain = c /\ a.number = j => a.result = i
    BY DEF RefusedForOwn
  <2>1. j \in 1..Len(executed[c])
    BY <1>1
  <2> QED
    BY <1>0, <2>1 DEF RefusedForCause, Unforgotten
<1> QED
  BY <1>2, <1>3, <1>4 DEF CallsSafe

\* After a call of a pipelined chain raised, the calls sent behind it do not run until the chain is
\* reset, and those refused are refused with the exception of their own chain (CallChain and
\* Dispatcher), for any chains and any number of calls.
THEOREM CallsCorrect == CallsSpec => []CallsSafe
<1>1. CallsSpec => []CallsInv
  BY InitCalls, CallsStep, PTL DEF CallsSpec
<1> QED
  BY <1>1, CallsInvSafe, PTL

-----------------------------------------------------------------------------
(* Selects: a message of a member is announced                                  *)

OwnerSteps == {"loop", "added", "notifies", "puts", "gets", "holds", "done"}
Holds == {"added", "notifies", "puts", "holds"}
\* The ranges of the fields, and where the owner of the select holds a receiver.
SelectFields ==
  /\ oneshot \in BOOLEAN
  /\ queue \in [Receivers -> Nat] /\ posted \in [Receivers -> Nat]
  /\ yielded \in [Receivers -> Nat] /\ lost \in [Receivers -> Nat]
  /\ posting \subseteq Receivers /\ members \subseteq Receivers /\ notify \subseteq members
  /\ tokens \in Seq(Receivers)
  /\ owner[1] \in OwnerSteps /\ owner[3] \in Nat
  /\ IF owner[1] \in Holds THEN owner[2] \in Receivers ELSE owner[2] = Nobody
  /\ owner[1] \in {"added", "notifies", "puts"} => owner[2] \in members
  /\ owner[1] # "puts" => owner[3] = 0
\* A message posted is queued, yielded or lost with its receiver, once.
Conserved == \A r \in Receivers : posted[r] = queue[r] + yielded[r] + lost[r]
\* What announces a message of r: a notification in the latch, the poster that has still to give
\* its own, those that add() has still to put, and the one that get_event() has taken.
Announcements(r) ==
  Occurrences(tokens, r) + (IF r \in posting THEN 1 ELSE 0)
  + (IF owner[2] = r THEN owner[3] + (IF owner[1] = "holds" THEN 1 ELSE 0) ELSE 0)
\* Every message of a member is announced, but while add() still has to look.
AllAnnounced ==
  \A r \in notify : ~(owner[1] = "notifies" /\ owner[2] = r) => queue[r] <= Announcements(r)

SelectsInv == SelectFields /\ Conserved /\ AllAnnounced

\* A count that changes for one receiver.
LEMMA Counting ==
  ASSUME NEW S, NEW f \in [S -> Nat], NEW r \in S, NEW n \in Nat, NEW g, g = [f EXCEPT ![r] = n]
  PROVE  g \in [S -> Nat] /\ \A s \in S : g[s] = IF s = r THEN n ELSE f[s]
  OBVIOUS

LEMMA InitSelects == SelectsInit => SelectsInv
<1> SUFFICES ASSUME SelectsInit PROVE SelectsInv
  OBVIOUS
<1> USE DEF SelectsInit, Zero
<1>1. owner[1] = "loop" /\ owner[2] = Nobody /\ owner[3] = 0
  BY TripleFields
<1>2. SelectFields
  BY <1>1 DEF SelectFields, OwnerSteps, Holds
<1>3. Conserved
  BY DEF Conserved
<1>4. AllAnnounced
  BY DEF AllAnnounced
<1> QED
  BY <1>2, <1>3, <1>4 DEF SelectsInv

LEMMA AnnouncementsType ==
  ASSUME SelectFields, NEW r \in Receivers
  PROVE  Announcements(r) \in Nat /\ Occurrences(tokens, r) \in Nat
<1>1. Occurrences(tokens, r) \in Nat
  BY OccurrencesType DEF SelectFields
<1> QED
  BY <1>1 DEF SelectFields, Announcements

\* Messages arrive: _on_receive() of a receiver, and the notification of its select.
LEMMA PostKeeps == ASSUME SelectsInv, NEW r \in Receivers, Post(r) PROVE SelectsInv'
<1> USE DEF SelectsInv
<1>1. SelectFields'
  <2>1. posted' \in [Receivers -> Nat] /\ queue' \in [Receivers -> Nat]
    <3>1. posted \in [Receivers -> Nat] /\ posted[r] + 1 \in Nat /\ queue \in [Receivers -> Nat] /\ queue[r] + 1 \in Nat
      BY DEF SelectFields
    <3>2. posted' = [posted EXCEPT ![r] = posted[r] + 1] /\ queue' = [queue EXCEPT ![r] = queue[r] + 1]
      BY DEF Post
    <3> QED
      BY <3>1, <3>2, Counting
  <2>2. posting' \subseteq Receivers
    BY DEF Post, SelectFields
  <2> QED
    BY <2>1, <2>2 DEF Post, SelectFields
<1>2. Conserved'
  BY DEF Post, SelectFields, Conserved
<1>3. AllAnnounced'
  <2> SUFFICES ASSUME NEW s \in notify', ~(owner[1] = "notifies" /\ owner[2] = s)' PROVE (queue[s] <= Announcements(s))'
    BY DEF AllAnnounced
  <2>1. s \in notify /\ s \in Receivers /\ owner' = owner /\ tokens' = tokens
    BY DEF Post, SelectFields
  <2>2. queue[s] <= Announcements(s)
    BY <2>1 DEF AllAnnounced
  <2>3. Occurrences(tokens, s) \in Nat
    BY <2>1, AnnouncementsType
  <2>4. Occurrences(tokens, s)' = Occurrences(tokens, s)
    BY <2>1 DEF Occurrences
  <2>5. /\ queue'[s] = queue[s] + (IF s = r THEN 1 ELSE 0) /\ queue[s] \in Nat /\ owner[3] \in Nat
        /\ r \notin posting /\ posting' = posting \cup {r}
    <3>1. queue \in [Receivers -> Nat] /\ queue[r] + 1 \in Nat /\ owner[3] \in Nat
      BY DEF SelectFields
    <3>2. queue' = [queue EXCEPT ![r] = queue[r] + 1]
      BY DEF Post
    <3>3. queue'[s] = IF s = r THEN queue[r] + 1 ELSE queue[s]
      BY <2>1, <3>1, <3>2, Counting
    <3> QED
      BY <2>1, <3>1, <3>3 DEF Post
  <2> QED
    BY <2>1, <2>2, <2>3, <2>4, <2>5 DEF Announcements
<1> QED
  BY <1>1, <1>2, <1>3

LEMMA PostNotifyKeeps == ASSUME SelectsInv, NEW r \in Receivers, PostNotify(r) PROVE SelectsInv'
<1> USE DEF SelectsInv
<1>1. SelectFields'
  BY DEF PostNotify, SelectFields
<1>2. Conserved'
  BY DEF PostNotify, SelectFields, Conserved
<1>3. AllAnnounced'
  <2> SUFFICES ASSUME NEW s \in notify', ~(owner[1] = "notifies" /\ owner[2] = s)' PROVE (queue[s] <= Announcements(s))'
    BY DEF AllAnnounced
  <2>1. s \in notify /\ s \in Receivers /\ owner' = owner /\ queue' = queue
    BY DEF PostNotify, SelectFields
  <2>2. queue[s] <= Announcements(s)
    BY <2>1 DEF AllAnnounced
  <2>3. Occurrences(tokens, s) \in Nat
    BY <2>1, AnnouncementsType
  <2>4. Occurrences(tokens, s)' = Occurrences(tokens, s) + (IF s = r THEN 1 ELSE 0)
    <3>1. tokens \in Seq(Receivers)
      BY DEF SelectFields
    <3>2. Occurrences(Append(tokens, r), s) = Occurrences(tokens, s) + (IF r = s THEN 1 ELSE 0)
      BY <3>1, OccurrencesAppend
    <3>3. CASE r \in notify
      <4>1. tokens' = Append(tokens, r)
        BY <3>3 DEF PostNotify
      <4> QED
        BY <4>1, <3>2
    <3>4. CASE r \notin notify
      <4>1. tokens' = tokens /\ s # r
        BY <3>4, <2>1 DEF PostNotify
      <4> QED
        BY <4>1, <2>3
    <3> QED
      BY <3>3, <3>4
  <2> QED
    BY <2>1, <2>2, <2>3, <2>4 DEF PostNotify, SelectFields, Announcements
<1> QED
  BY <1>1, <1>2, <1>3

\* add(): the receiver joins, and what it already holds is announced.
LEMMA AddKeeps == ASSUME SelectsInv, NEW r \in Receivers, Add(r) PROVE SelectsInv'
<1> USE DEF SelectsInv
<1>1. owner'[1] = "added" /\ owner'[2] = r /\ owner'[3] = 0 /\ owner[1] = "loop"
  BY TripleFields DEF Add, At
<1>2. SelectFields'
  BY <1>1 DEF Add, SelectFields, OwnerSteps, Holds
<1>3. Conserved'
  BY DEF Add, SelectFields, Conserved
<1>4. AllAnnounced'
  <2> SUFFICES ASSUME NEW s \in notify' PROVE (queue[s] <= Announcements(s))'
    BY DEF AllAnnounced
  <2>1. s \in notify /\ s \in Receivers /\ s # r /\ tokens' = tokens /\ posting' = posting
    BY DEF Add, SelectFields
  <2>2. queue[s] <= Announcements(s)
    BY <1>1, <2>1 DEF AllAnnounced
  <2>3. Occurrences(tokens, s) \in Nat
    BY <2>1, AnnouncementsType
  <2>4. Occurrences(tokens, s)' = Occurrences(tokens, s)
    BY <2>1 DEF Occurrences
  <2> QED
    BY <1>1, <2>1, <2>2, <2>3, <2>4 DEF Add, SelectFields, Announcements
<1> QED
  BY <1>2, <1>3, <1>4

LEMMA AddNotifyKeeps == ASSUME SelectsInv, AddNotify PROVE SelectsInv'
<1> USE DEF SelectsInv
<1>1. owner'[1] = "notifies" /\ owner'[2] = owner[2] /\ owner'[3] = 0 /\ owner[1] = "added"
  BY TripleFields DEF AddNotify, At, Held
<1>2. SelectFields'
  BY <1>1 DEF AddNotify, SelectFields, OwnerSteps, Holds, Held
<1>3. Conserved'
  BY DEF AddNotify, SelectFields, Conserved
<1>4. AllAnnounced'
  <2> SUFFICES ASSUME NEW s \in notify', ~(owner[1] = "notifies" /\ owner[2] = s)' PROVE (queue[s] <= Announcements(s))'
    BY DEF AllAnnounced
  <2>1. s \in notify /\ s \in Receivers /\ s # owner[2] /\ tokens' = tokens /\ posting' = posting
    BY <1>1 DEF AddNotify, SelectFields, Held
  <2>2. queue[s] <= Announcements(s)
    BY <1>1, <2>1 DEF AllAnnounced
  <2>3. Occurrences(tokens, s) \in Nat
    BY <2>1, AnnouncementsType
  <2>4. Occurrences(tokens, s)' = Occurrences(tokens, s)
    BY <2>1 DEF Occurrences
  <2> QED
    BY <1>1, <2>1, <2>2, <2>3, <2>4 DEF AddNotify, SelectFields, Announcements
<1> QED
  BY <1>2, <1>3, <1>4

LEMMA AddSizeKeeps == ASSUME SelectsInv, AddSize PROVE SelectsInv'
<1> USE DEF SelectsInv
<1>1. owner'[1] = "puts" /\ owner'[2] = owner[2] /\ owner'[3] = queue[owner[2]] /\ owner[1] = "notifies"
  BY TripleFields DEF AddSize, At, Held
<1>2. SelectFields'
  BY <1>1 DEF AddSize, SelectFields, OwnerSteps, Holds, Held
<1>3. Conserved'
  BY DEF AddSize, SelectFields, Conserved
<1>4. AllAnnounced'
  <2> SUFFICES ASSUME NEW s \in notify' PROVE (queue[s] <= Announcements(s))'
    BY DEF AllAnnounced
  <2>1. s \in notify /\ s \in Receivers /\ tokens' = tokens /\ posting' = posting /\ queue' = queue
    BY DEF AddSize, SelectFields
  <2>2. s # owner[2] => queue[s] <= Announcements(s)
    BY <2>1 DEF AllAnnounced
  <2>3. Occurrences(tokens, s) \in Nat
    BY <2>1, AnnouncementsType
  <2>4. Occurrences(tokens, s)' = Occurrences(tokens, s)
    BY <2>1 DEF Occurrences
  <2> QED
    BY <1>1, <2>1, <2>2, <2>3, <2>4 DEF SelectFields, Announcements
<1> QED
  BY <1>2, <1>3, <1>4

LEMMA AddPutKeeps == ASSUME SelectsInv, AddPut PROVE SelectsInv'
<1> USE DEF SelectsInv
<1>0. owner[1] = "puts" /\ owner[2] \in Receivers /\ owner[3] \in Nat /\ tokens \in Seq(Receivers) /\ Nobody \notin Receivers
  BY SelectsAssumption DEF AddPut, At, SelectFields, Holds, Nobody
<1>1. \/ owner[3] = 0 /\ owner'[1] = "loop" /\ owner'[2] = Nobody /\ owner'[3] = 0 /\ tokens' = tokens
      \/ /\ owner[3] # 0 /\ owner'[1] = "puts" /\ owner'[2] = owner[2] /\ owner'[3] = owner[3] - 1
         /\ tokens' = Append(tokens, owner[2])
  <2>1. CASE owner[3] = 0
    BY <2>1, TripleFields DEF AddPut
  <2>2. CASE owner[3] # 0
    BY <2>2, TripleFields DEF AddPut, Held
  <2> QED
    BY <2>1, <2>2
<1>2. SelectFields'
  <2>1. tokens' \in Seq(Receivers)
    BY <1>0, <1>1
  <2>2. UNCHANGED <<oneshot, queue, posted, yielded, lost, posting, members, notify>>
    BY DEF AddPut
  <2>3. /\ owner'[1] \in OwnerSteps /\ owner'[3] \in Nat
        /\ IF owner'[1] \in Holds THEN owner'[2] \in Receivers ELSE owner'[2] = Nobody
        /\ owner'[1] \in {"added", "notifies", "puts"} => owner'[2] \in members
        /\ owner'[1] # "puts" => owner'[3] = 0
    <3>1. CASE owner[3] = 0
      BY <1>0, <1>1, <3>1 DEF OwnerSteps, Holds
    <3>2. CASE owner[3] # 0
      <4>1. owner[2] \in members /\ owner[3] - 1 \in Nat
        BY <1>0, <3>2 DEF SelectFields
      <4> QED
        BY <1>0, <1>1, <3>2, <4>1 DEF OwnerSteps, Holds
    <3> QED
      BY <3>1, <3>2
  <2> QED
    BY <2>1, <2>2, <2>3 DEF SelectFields
<1>3. Conserved'
  BY DEF AddPut, SelectFields, Conserved
<1>4. AllAnnounced'
  <2> SUFFICES ASSUME NEW s \in notify' PROVE (queue[s] <= Announcements(s))'
    BY DEF AllAnnounced
  <2>1. s \in notify /\ s \in Receivers /\ s # Nobody /\ posting' = posting /\ queue' = queue
    BY <1>0 DEF AddPut, SelectFields
  <2>2. queue[s] <= Announcements(s)
    BY <1>0, <2>1 DEF AllAnnounced
  <2>3. Occurrences(tokens, s) \in Nat
    BY <2>1, AnnouncementsType
  <2>4. Occurrences(Append(tokens, owner[2]), s) = Occurrences(tokens, s) + (IF owner[2] = s THEN 1 ELSE 0)
    BY <1>0, OccurrencesAppend
  <2>5. Occurrences(tokens, s)' = Occurrences(tokens', s)
    BY DEF Occurrences
  <2>6. queue[s] \in Nat
    BY <2>1 DEF SelectFields
  <2>7. CASE owner[3] = 0
    BY <1>0, <1>1, <2>1, <2>2, <2>3, <2>5, <2>6, <2>7 DEF Announcements
  <2>8. CASE owner[3] # 0
    <3>1. owner'[1] = "puts" /\ owner'[2] = owner[2] /\ owner'[3] = owner[3] - 1 /\ tokens' = Append(tokens, owner[2])
      BY <1>1, <2>8
    <3>2. Occurrences(tokens', s) = Occurrences(tokens, s) + (IF owner[2] = s THEN 1 ELSE 0)
      BY <3>1, <2>4
    <3>3. Announcements(s)' = Occurrences(tokens', s) + (IF s \in posting THEN 1 ELSE 0)
                              + (IF owner[2] = s THEN owner[3] - 1 ELSE 0)
      BY <1>0, <2>1, <2>5, <3>1 DEF Announcements
    <3>4. Announcements(s) = Occurrences(tokens, s) + (IF s \in posting THEN 1 ELSE 0)
                             + (IF owner[2] = s THEN owner[3] ELSE 0)
      BY <1>0 DEF Announcements
    <3> QED
      BY <1>0, <2>1, <2>2, <2>3, <2>6, <3>2, <3>3, <3>4
  <2> QED
    BY <2>7, <2>8
<1> QED
  BY <1>2, <1>3, <1>4

\* The owner iterates: a token, then the message it announces.
LEMMA IterateKeeps == ASSUME SelectsInv, Iterate PROVE SelectsInv'
<1> USE DEF SelectsInv
<1>0. owner[1] = "loop" /\ owner[3] = 0 /\ Nobody \notin Receivers
  BY SelectsAssumption DEF Iterate, At, SelectFields, Nobody
<1>1. owner'[1] \in {"done", "gets"} /\ owner'[2] = Nobody /\ owner'[3] = 0
  <2>1. CASE members = {}
    BY <2>1, TripleFields DEF Iterate
  <2>2. CASE members # {}
    BY <2>2, TripleFields DEF Iterate
  <2> QED
    BY <2>1, <2>2
<1>2. SelectFields'
  BY <1>1 DEF Iterate, SelectFields, OwnerSteps, Holds
<1>3. Conserved'
  BY DEF Iterate, SelectFields, Conserved
<1>4. AllAnnounced'
  <2> SUFFICES ASSUME NEW s \in notify' PROVE (queue[s] <= Announcements(s))'
    BY DEF AllAnnounced
  <2>1. s \in notify /\ s \in Receivers /\ s # Nobody /\ posting' = posting /\ queue' = queue /\ tokens' = tokens
    BY <1>0 DEF Iterate, SelectFields
  <2>2. queue[s] <= Announcements(s)
    BY <1>0, <2>1 DEF AllAnnounced
  <2>3. Occurrences(tokens, s) \in Nat
    BY <2>1, AnnouncementsType
  <2>4. Occurrences(tokens, s)' = Occurrences(tokens, s)
    BY <2>1 DEF Occurrences
  <2> QED
    BY <1>0, <1>1, <2>1, <2>2, <2>3, <2>4 DEF SelectFields, Announcements
<1> QED
  BY <1>2, <1>3, <1>4

LEMMA GetTokenKeeps == ASSUME SelectsInv, GetToken PROVE SelectsInv'
<1> USE DEF SelectsInv
<1>0. owner[1] = "gets" /\ owner[3] = 0 /\ tokens \in Seq(Receivers) /\ tokens # << >> /\ Head(tokens) \in Receivers
  BY DEF GetToken, At, SelectFields
<1>1. owner'[1] = "holds" /\ owner'[2] = Head(tokens) /\ owner'[3] = 0 /\ tokens' = Tail(tokens)
  BY TripleFields DEF GetToken
<1>2. SelectFields'
  <2>1. tokens' \in Seq(Receivers)
    BY <1>0, <1>1
  <2>2. UNCHANGED <<oneshot, queue, posted, yielded, lost, posting, members, notify>>
    BY DEF GetToken
  <2> QED
    BY <1>0, <1>1, <2>1, <2>2 DEF SelectFields, OwnerSteps, Holds
<1>3. Conserved'
  BY DEF GetToken, SelectFields, Conserved
<1>4. AllAnnounced'
  <2> SUFFICES ASSUME NEW s \in notify' PROVE (queue[s] <= Announcements(s))'
    BY DEF AllAnnounced
  <2>1. s \in notify /\ s \in Receivers /\ posting' = posting /\ queue' = queue
    BY <1>0 DEF GetToken, SelectFields
  <2>2. queue[s] <= Announcements(s)
    BY <1>0, <2>1 DEF AllAnnounced
  <2>3. Occurrences(tokens, s) \in Nat
    BY <2>1, AnnouncementsType
  <2>4. Occurrences(tokens, s) = Occurrences(Tail(tokens), s) + (IF Head(tokens) = s THEN 1 ELSE 0)
    BY <1>0, OccurrencesTail
  <2>5. Occurrences(tokens, s)' = Occurrences(Tail(tokens), s) /\ Occurrences(Tail(tokens), s) \in Nat
    <3>1. Tail(tokens) \in Seq(Receivers)
      BY <1>0
    <3>2. Occurrences(Tail(tokens), s) \in Nat
      BY <3>1, OccurrencesType
    <3> QED
      BY <1>1, <3>2 DEF Occurrences
  <2> QED
    BY <1>0, <1>1, <2>1, <2>2, <2>3, <2>4, <2>5 DEF SelectFields, Announcements
<1> QED
  BY <1>2, <1>3, <1>4

LEMMA TakeNothingKeeps == ASSUME SelectsInv, TakeNothing PROVE SelectsInv'
<1> USE DEF SelectsInv
<1>1. owner'[1] = "gets" /\ owner'[2] = Nobody /\ owner'[3] = 0 /\ owner[1] = "holds" /\ owner[3] = 0 /\ queue[owner[2]] = 0
  BY TripleFields DEF TakeNothing, At, Held, SelectFields
<1>2. SelectFields'
  BY <1>1 DEF TakeNothing, SelectFields, OwnerSteps, Holds
<1>3. Conserved'
  BY DEF TakeNothing, SelectFields, Conserved
<1>4. AllAnnounced'
  <2> SUFFICES ASSUME NEW s \in notify' PROVE (queue[s] <= Announcements(s))'
    BY DEF AllAnnounced
  <2>1. s \in notify /\ s \in Receivers /\ s # Nobody /\ posting' = posting /\ queue' = queue /\ tokens' = tokens
    BY SelectsAssumption DEF TakeNothing, SelectFields, Nobody
  <2>2. queue[s] <= Announcements(s)
    BY <1>1, <2>1 DEF AllAnnounced
  <2>3. Occurrences(tokens, s) \in Nat
    BY <2>1, AnnouncementsType
  <2>4. Occurrences(tokens, s)' = Occurrences(tokens, s)
    BY <2>1 DEF Occurrences
  <2> QED
    BY <1>1, <2>1, <2>2, <2>3, <2>4 DEF SelectFields, Announcements
<1> QED
  BY <1>2, <1>3, <1>4

LEMMA TakeMessageKeeps == ASSUME SelectsInv, TakeMessage PROVE SelectsInv'
<1> USE DEF SelectsInv
<1>1. owner'[1] = "loop" /\ owner'[2] = Nobody /\ owner'[3] = 0 /\ owner[1] = "holds" /\ owner[3] = 0
      /\ owner[2] \in Receivers /\ queue[owner[2]] > 0 /\ queue' = [queue EXCEPT ![owner[2]] = @ - 1]
  BY TripleFields DEF TakeMessage, At, Held, SelectFields, Holds
<1>5. \/ UNCHANGED yielded /\ lost' = [lost EXCEPT ![owner[2]] = @ + 1]
      \/ UNCHANGED lost /\ yielded' = [yielded EXCEPT ![owner[2]] = @ + 1]
  BY DEF TakeMessage, Held
<1>6. queue' \in [Receivers -> Nat] /\ yielded' \in [Receivers -> Nat] /\ lost' \in [Receivers -> Nat]
  <2>1. /\ queue \in [Receivers -> Nat] /\ yielded \in [Receivers -> Nat] /\ lost \in [Receivers -> Nat]
        /\ queue[owner[2]] - 1 \in Nat /\ yielded[owner[2]] + 1 \in Nat /\ lost[owner[2]] + 1 \in Nat
    BY <1>1 DEF SelectFields
  <2>2. queue' \in [Receivers -> Nat]
    BY <1>1, <2>1, Counting
  <2>3. CASE UNCHANGED yielded /\ lost' = [lost EXCEPT ![owner[2]] = @ + 1]
    BY <1>1, <2>1, <2>2, <2>3, Counting
  <2>4. CASE UNCHANGED lost /\ yielded' = [yielded EXCEPT ![owner[2]] = @ + 1]
    BY <1>1, <2>1, <2>2, <2>4, Counting
  <2> QED
    BY <1>5, <2>3, <2>4
<1>2. SelectFields'
  <2>1. members' \subseteq Receivers /\ notify' \subseteq members'
    BY DEF TakeMessage, SelectFields
  <2> QED
    BY <1>1, <1>6, <2>1 DEF TakeMessage, SelectFields, OwnerSteps, Holds
<1>3. Conserved'
  <2> SUFFICES ASSUME NEW r \in Receivers PROVE (posted[r] = queue[r] + yielded[r] + lost[r])'
    BY DEF Conserved
  <2>1. posted[r] = queue[r] + yielded[r] + lost[r] /\ posted' = posted
    BY DEF Conserved, TakeMessage
  <2>2. queue[r] \in Nat /\ yielded[r] \in Nat /\ lost[r] \in Nat
    BY DEF SelectFields
  <2>3. queue'[r] = queue[r] - (IF r = owner[2] THEN 1 ELSE 0)
    BY <1>1, <2>2 DEF SelectFields
  <2>4. yielded'[r] + lost'[r] = yielded[r] + lost[r] + (IF r = owner[2] THEN 1 ELSE 0)
    <3>1. yielded \in [Receivers -> Nat] /\ lost \in [Receivers -> Nat]
      BY DEF SelectFields
    <3>2. CASE UNCHANGED yielded /\ lost' = [lost EXCEPT ![owner[2]] = @ + 1]
      <4>1. lost'[r] = lost[r] + (IF r = owner[2] THEN 1 ELSE 0)
        BY <1>1, <2>2, <3>1, <3>2
      <4> QED
        BY <2>2, <3>2, <4>1
    <3>3. CASE UNCHANGED lost /\ yielded' = [yielded EXCEPT ![owner[2]] = @ + 1]
      <4>1. yielded'[r] = yielded[r] + (IF r = owner[2] THEN 1 ELSE 0)
        BY <1>1, <2>2, <3>1, <3>3
      <4> QED
        BY <2>2, <3>3, <4>1
    <3> QED
      BY <1>5, <3>2, <3>3
  <2>5. queue'[r] \in Nat /\ yielded'[r] \in Nat /\ lost'[r] \in Nat
    BY <1>6
  <2> QED
    BY <2>1, <2>2, <2>3, <2>4, <2>5
<1>4. AllAnnounced'
  <2> SUFFICES ASSUME NEW s \in notify' PROVE (queue[s] <= Announcements(s))'
    BY DEF AllAnnounced
  <2>1. s \in notify /\ s \in Receivers /\ s # Nobody /\ posting' = posting /\ tokens' = tokens
    BY SelectsAssumption DEF TakeMessage, SelectFields, Nobody
  <2>2. queue[s] <= Announcements(s)
    BY <1>1, <2>1 DEF AllAnnounced
  <2>3. Occurrences(tokens, s) \in Nat
    BY <2>1, AnnouncementsType
  <2>4. Occurrences(tokens, s)' = Occurrences(tokens, s)
    BY <2>1 DEF Occurrences
  <2> QED
    BY <1>1, <2>1, <2>2, <2>3, <2>4 DEF SelectFields, Announcements
<1> QED
  BY <1>2, <1>3, <1>4

\* remove(): the receiver leaves with what it holds.
LEMMA RemoveReceiverKeeps == ASSUME SelectsInv, NEW r \in Receivers, RemoveReceiver(r) PROVE SelectsInv'
<1> USE DEF SelectsInv
<1>1. SelectFields'
  BY DEF RemoveReceiver, At, SelectFields
<1>2. Conserved'
  BY DEF RemoveReceiver, SelectFields, Conserved
<1>3. AllAnnounced'
  <2> SUFFICES ASSUME NEW s \in notify' PROVE (queue[s] <= Announcements(s))'
    BY DEF AllAnnounced
  <2>1. s \in notify /\ s \in Receivers /\ UNCHANGED <<posting, tokens, owner, queue>> /\ owner[1] = "loop"
    BY DEF RemoveReceiver, SelectFields, At
  <2>2. queue[s] <= Announcements(s)
    BY <2>1 DEF AllAnnounced
  <2> QED
    BY <2>1, <2>2 DEF Announcements, Occurrences
<1> QED
  BY <1>1, <1>2, <1>3

LEMMA SelectsStep == SelectsInv /\ [SelectsNext]_selectVars => SelectsInv'
<1>1. ASSUME SelectsInv, UNCHANGED selectVars PROVE SelectsInv'
  BY <1>1 DEF selectVars, SelectsInv, SelectFields, Conserved, AllAnnounced, Announcements, Occurrences
<1> QED
  BY <1>1, PostKeeps, PostNotifyKeeps, AddKeeps, AddNotifyKeeps, AddSizeKeeps, AddPutKeeps, IterateKeeps, GetTokenKeeps,
     TakeNothingKeeps, TakeMessageKeeps, RemoveReceiverKeeps DEF SelectsNext, Owner, Posters

\* However many receivers a select has and however their messages overlap with the construction,
\* the iteration and removals: no message is lost from the accounts, and each message of a member
\* is announced, or about to be.
THEOREM SelectsCorrect == SelectsSpec => []SelectsSafe
<1>1. SelectsInv => SelectsSafe
  <2> SUFFICES ASSUME SelectsInv PROVE SelectsTypeOK /\ NoneOverlooked
    BY DEF SelectsSafe
  <2>1. SelectFields
    BY DEF SelectsInv
  <2>2. SelectsTypeOK
    <3>1. ToSet(tokens) \subseteq Receivers
      BY <2>1 DEF SelectFields, ToSet
    <3> QED
      BY <2>1, <3>1 DEF SelectsInv, SelectFields, Conserved, SelectsTypeOK
  <2>3. NoneOverlooked
    <3> SUFFICES ASSUME NEW r \in notify, ~(At("notifies") /\ Held = r)
                 PROVE  queue[r] <= Cardinality({i \in DOMAIN tokens : tokens[i] = r})
                                    + (IF r \in posting THEN 1 ELSE 0) + (IF Held = r THEN owner[3] + 1 ELSE 0)
      BY DEF NoneOverlooked
    <3>1. r \in Receivers /\ queue[r] \in Nat
      BY <2>1 DEF SelectFields
    <3>2. Occurrences(tokens, r) \in Nat
      BY <2>1, <3>1, AnnouncementsType
    <3>3. queue[r] <= Announcements(r)
      BY DEF SelectsInv, AllAnnounced, At, Held
    <3>4. owner[3] \in Nat
      BY <2>1 DEF SelectFields
    <3>5. Cardinality({i \in DOMAIN tokens : tokens[i] = r}) = Occurrences(tokens, r)
      BY DEF Occurrences
    <3> QED
      BY <3>1, <3>2, <3>3, <3>4, <3>5 DEF Announcements, Held
  <2> QED
    BY <2>2, <2>3
<1> QED
  BY <1>1, InitSelects, SelectsStep, PTL DEF SelectsSpec

-----------------------------------------------------------------------------
(* FilePush: a file goes down the tree, once over each stream                   *)

\* Holder k is below n.
Beneath(n, k) == k \in Holders /\ \E j \in Holders \cap Lineage[k] : Over[j] = n

\* What threads of n have to do: what may wait for the file, what they send, what they are asked.
Tasks == {"forward", "data", "name", "forward call", "store call", "wake"} \X (Holders \cup Readers)
Waits(n) == {task \in Tasks : task[1] = "wake" \/ (task[1] = "forward" /\ Beneath(n, task[2]))}
Sends(n) == {task \in Tasks : task[1] \in {"data", "name"} /\ Beneath(n, task[2])}
Asked(n) == {task \in Tasks : /\ n # Source /\ task[1] \in {"forward call", "store call"}
                              /\ Beneath(n, task[2]) \/ (task[1] = "store call" /\ task[2] = n)}
First(n) == Waits(n) \cup Sends(n) \cup Asked(n)
Calls == [kind : {"forward call", "store call"}, to : Holders]
CallsOf(n) == {r \in Calls : <<r.kind, r.to>> \in Asked(n)}
WorkOf(n, s) == s = <<>> \/ (s[1] \in First(n) /\ Tail(s) \in Seq(Waits(n)))

PushFields ==
  /\ cached \subseteq Members /\ sentOn \subseteq Holders /\ copies \in [Holders -> Nat]
  /\ awaiting \in [Members -> Seq(Tasks)] /\ requests \in [Members -> Seq(Calls)] /\ work \in [Threads -> Seq(Tasks)]
\* Everyone is asked for what is below: the file gets nearer with every hop.
Placed ==
  /\ \A n \in Members : /\ awaiting[n] \in Seq(Waits(n)) /\ requests[n] \in Seq(CallsOf(n))
                        /\ n \in cached \cup {Source} => awaiting[n] = <<>>
  /\ \A w \in Threads : WorkOf(w[1], work[w])
\* The threads that will send the data over the stream to n, having decided so.
SendsTo(n) == {w \in Threads : w[1] = Over[n] /\ Doing(w, "data") /\ HopTo(w[1], work[w][1][2]) = n}
Counted == \A n \in Holders : /\ copies[n] + Cardinality(SendsTo(n)) <= PoolSize
                              /\ n \notin sentOn => copies[n] = 0
PushInv == PushFields /\ Placed /\ Counted

\* Below a member there is a next hop.
LEMMA LineageStep ==
  ASSUME NEW k \in Holders, NEW n \in Lineage[k], n # k
  PROVE  Beneath(n, k)
<1> DEFINE All == Holders \cup {Source}
           Fewest(S) == k \in S /\ \A j \in S \cap Holders : Over[j] \in S
<1>1. Lineage[k] = {m \in All : \A S \in SUBSET All : Fewest(S) => m \in S}
  BY DEF Lineage
<1>2. Fewest(Lineage[k])
  BY <1>1, PushAssumption DEF PushAssumption
<1>3. SUFFICES ASSUME \A j \in Holders \cap Lineage[k] : Over[j] # n PROVE FALSE
  BY DEF Beneath
<1>4. Fewest(Lineage[k] \ {n}) /\ Lineage[k] \ {n} \in SUBSET All
  BY <1>1, <1>2, <1>3
<1> HIDE DEF Fewest
<1> QED BY <1>1, <1>4

\* stream_by_id(): the next hop is a child, and what is below n is it or below it.
LEMMA HopIs ==
  ASSUME NEW n \in Members, NEW k, Beneath(n, k)
  PROVE  /\ HopTo(n, k) \in Holders /\ Over[HopTo(n, k)] = n
         /\ HopTo(n, k) = k \/ Beneath(HopTo(n, k), k)
<1>1. HopTo(n, k) \in Holders \cap Lineage[k] /\ Over[HopTo(n, k)] = n
  BY DEF Beneath, HopTo
<1>2. k \in Holders
  BY DEF Beneath
<1> QED BY <1>1, <1>2, LineageStep

\* Every holder is below the source.
LEMMA AllBeneath == ASSUME NEW k \in Holders PROVE Beneath(Source, k)
  BY LineageStep, PushAssumption DEF PushAssumption

LEMMA InPool ==
  ASSUME NEW n, NEW W \in SUBSET ({n} \X (1..PoolSize))
  PROVE  IsFiniteSet(W) /\ Cardinality(W) \in Nat /\ Cardinality(W) <= PoolSize
<1> DEFINE T == {n} \X (1..PoolSize)
<1>1. PoolSize \in Nat
  BY PushAssumption DEF PushAssumption
<1>2. IsFiniteSet({n}) /\ Cardinality({n}) = 1
  BY FS_Singleton
<1>3. IsFiniteSet(1..PoolSize) /\ Cardinality(1..PoolSize) = PoolSize
  BY <1>1, FS_Interval
<1>4. IsFiniteSet(T) /\ Cardinality(T) = PoolSize
  <2> DEFINE A == {n}
             B == 1..PoolSize
  <2>1. IsFiniteSet(A) /\ IsFiniteSet(B) /\ T = A \X B /\ Cardinality(A) = 1 /\ Cardinality(B) = PoolSize
    BY <1>2, <1>3
  <2> HIDE DEF A, B, T
  <2>2. IsFiniteSet(A \X B) /\ Cardinality(A \X B) = Cardinality(A) * Cardinality(B)
    BY <2>1, FS_Product
  <2>3. Cardinality(A \X B) = 1 * PoolSize
    BY <2>1, <2>2, Zenon
  <2> QED BY <1>1, <2>1, <2>2, <2>3
<1>5. W \in SUBSET T
  OBVIOUS
<1>6. IsFiniteSet(W) /\ Cardinality(W) <= Cardinality(T)
  BY <1>4, <1>5, FS_Subset
<1>7. Cardinality(W) \in Nat
  BY <1>6, FS_CardinalityType
<1> HIDE DEF T
<1> QED BY <1>1, <1>4, <1>6, <1>7

LEMMA SendingInPool == \A n : IsFiniteSet(SendsTo(n)) /\ Cardinality(SendsTo(n)) \in Nat /\ Cardinality(SendsTo(n)) <= PoolSize
<1> TAKE n
<1>1. SendsTo(n) \in SUBSET ({Over[n]} \X (1..PoolSize))
  BY DEF SendsTo, Threads
<1> QED BY <1>1, InPool

\* A thread that does not take up or finish sending data.
LEMMA SendingKept ==
  ASSUME PushFields, NEW w \in Threads, NEW v \in Seq(Tasks), work' = [work EXCEPT ![w] = v],
         work[w] = <<>> \/ work[w][1][1] # "data", v = <<>> \/ v[1][1] # "data",
         UNCHANGED <<copies, sentOn>>, Counted
  PROVE  Counted'
<1>1. \A u \in Threads : u # w => work'[u] = work[u]
  BY DEF PushFields
<1>2. work'[w] = v
  BY DEF PushFields
<1>3. \A n : SendsTo(n)' = SendsTo(n)
  BY <1>1, <1>2 DEF SendsTo, Doing, Free
<1> QED BY <1>3 DEF Counted

\* What waits is done by a thread in its order.
LEMMA LaterWork ==
  ASSUME NEW n, NEW s \in Seq(Waits(n))
  PROVE  WorkOf(n, s) /\ s \in Seq(Tasks) /\ (s = <<>> \/ s[1][1] # "data")
<1>1. s \in Seq(Tasks)
  BY DEF Waits
<1>2. s = <<>> \/ (s[1] \in Waits(n) /\ Tail(s) \in Seq(Waits(n)))
  OBVIOUS
<1> QED BY <1>1, <1>2 DEF WorkOf, First, Waits

LEMMA PlacedWork ==
  ASSUME PushFields, Placed, NEW w \in Threads, NEW v \in Seq(Tasks), WorkOf(w[1], v),
         work' = [work EXCEPT ![w] = v], UNCHANGED <<awaiting, requests, cached>>
  PROVE  Placed' /\ work' \in [Threads -> Seq(Tasks)]
<1>1. work' \in [Threads -> Seq(Tasks)] /\ \A u \in Threads : work'[u] = IF u = w THEN v ELSE work[u]
  BY DEF PushFields
<1> QED BY <1>1 DEF Placed

LEMMA ThreadOf == \A w \in Threads : w[1] \in Members
  BY DEF Threads

LEMMA PushInitially == PushInit => PushInv
<1> SUFFICES ASSUME PushInit PROVE PushInv
  OBVIOUS
<1>1. PushFields
  BY DEF PushInit, PushFields
<1>2. Placed
  BY DEF PushInit, Placed, WorkOf
<1>3. \A n : SendsTo(n) = {}
  BY DEF PushInit, SendsTo, Doing, Free
<1>4. Counted
  <2>1. Cardinality({}) = 0
    BY FS_EmptySet
  <2>2. PoolSize \in Nat \ {0} /\ \A n \in Holders : copies[n] = 0
    BY PushAssumption DEF PushAssumption, PushInit
  <2>3. \A n \in Holders : copies[n] + Cardinality(SendsTo(n)) <= PoolSize
    BY <1>3, <2>1, <2>2
  <2> QED BY <2>2, <2>3 DEF Counted
<1> QED BY <1>1, <1>2, <1>4 DEF PushInv

LEMMA PropagateKeeps ==
  ASSUME PushInv, NEW w \in Threads, NEW k \in Targets, PropagateTo(w, k)
  PROVE  PushInv'
<1> DEFINE v == << <<"forward", k>> >>
<1>1. PushFields /\ Placed /\ Counted
  BY DEF PushInv
<1>2. work[w] = <<>> /\ w[1] = Source /\ work' = [work EXCEPT ![w] = v] /\ cached' = cached \cup {Source}
      /\ UNCHANGED <<awaiting, sentOn, requests, copies>>
  BY DEF PropagateTo, Free
<1>3. k \in Holders /\ Beneath(Source, k)
  BY AllBeneath, PushAssumption DEF PushAssumption
<1>4. <<"forward", k>> \in Waits(Source) /\ v \in Seq(Waits(Source))
  <2>1. <<"forward", k>> \in Tasks
    BY <1>3 DEF Tasks
  <2>2. <<"forward", k>> \in Waits(Source)
    BY <1>3, <2>1 DEF Waits
  <2> QED BY <2>2
<1>5. WorkOf(Source, v) /\ v \in Seq(Tasks) /\ (v = <<>> \/ v[1][1] # "data")
  BY <1>4, LaterWork
<1> HIDE DEF v
<1>6. Counted'
  BY <1>1, <1>2, <1>5, SendingKept
<1>7. work' \in [Threads -> Seq(Tasks)] /\ \A u \in Threads : work'[u] = IF u = w THEN v ELSE work[u]
  BY <1>1, <1>2, <1>5 DEF PushFields
<1>8. PushFields'
  BY <1>1, <1>2, <1>7 DEF PushFields, Members
<1>9. Placed'
  BY <1>1, <1>2, <1>5, <1>7 DEF Placed
<1> QED BY <1>6, <1>8, <1>9 DEF PushInv

LEMMA TakeRequestKeeps ==
  ASSUME PushInv, NEW w \in Threads, TakeRequest(w)
  PROVE  PushInv'
<1> DEFINE n == w[1]
           r == Head(requests[n])
           v == << <<r.kind, r.to>> >>
<1>1. PushFields /\ Placed /\ Counted /\ n \in Members
  BY ThreadOf DEF PushInv
<1>2. work[w] = <<>> /\ work' = [work EXCEPT ![w] = v] /\ requests[n] # <<>> /\ requests' = [requests EXCEPT ![n] = Tail(@)]
      /\ UNCHANGED <<awaiting, sentOn, cached, copies>>
  BY DEF TakeRequest, Free
<1>3. requests[n] \in Seq(CallsOf(n))
  BY <1>1 DEF Placed
<1>4. r \in CallsOf(n) /\ Tail(requests[n]) \in Seq(CallsOf(n))
  <2> DEFINE S == CallsOf(n)
             q == requests[n]
  <2>1. q \in Seq(S) /\ q # <<>>
    BY <1>2, <1>3
  <2> HIDE DEF S, q
  <2>2. Head(q) \in S /\ Tail(q) \in Seq(S)
    BY <2>1
  <2> QED BY <2>2 DEF S, q
<1>5. <<r.kind, r.to>> \in Asked(n)
  BY <1>4 DEF CallsOf
<1> DEFINE task == <<r.kind, r.to>>
<1>6. WorkOf(n, v) /\ v \in Seq(Tasks) /\ v[1][1] # "data"
  <2>1. task \in Tasks /\ task[1] # "data" /\ task \in First(n)
    BY <1>5 DEF First, Asked
  <2> HIDE DEF task
  <2>2. Tail(<<task>>) = <<>> /\ <<task>>[1] = task /\ <<task>> \in Seq(Tasks) /\ <<>> \in Seq(Waits(n))
    BY <2>1
  <2> QED BY <2>1, <2>2 DEF WorkOf, task
<1> HIDE DEF v, r
<1>7. Counted'
  BY <1>1, <1>2, <1>6, SendingKept
<1>8. work' \in [Threads -> Seq(Tasks)] /\ \A u \in Threads : work'[u] = IF u = w THEN v ELSE work[u]
  BY <1>1, <1>2, <1>6 DEF PushFields
<1>9. \A m \in Members : requests'[m] = IF m = n THEN Tail(requests[n]) ELSE requests[m]
  BY <1>1, <1>2 DEF PushFields
<1>10. Tail(requests[n]) \in Seq(Calls)
  BY <1>1, <1>2 DEF PushFields
<1>11. requests' \in [Members -> Seq(Calls)]
  BY <1>1, <1>2, <1>10 DEF PushFields
<1>12. PushFields'
  BY <1>1, <1>2, <1>8, <1>11 DEF PushFields
<1>13. Placed'
  BY <1>1, <1>2, <1>4, <1>6, <1>8, <1>9 DEF Placed
<1> QED BY <1>7, <1>12, <1>13 DEF PushInv

LEMMA StoreKeeps ==
  ASSUME PushInv, NEW w \in Threads, StoreAndForward(w)
  PROVE  PushInv'
<1> DEFINE n == w[1]
           k == work[w][1][2]
           a == IF k = n THEN <<>> ELSE << <<"forward", k>> >>
           v == a \o awaiting[n]
<1>1. PushFields /\ Placed /\ Counted /\ n \in Members /\ work[w] \in Seq(Tasks)
  BY ThreadOf DEF PushInv, PushFields
<1>2. /\ work[w] # <<>> /\ work[w][1][1] = "store call" /\ work' = [work EXCEPT ![w] = v]
      /\ cached' = cached \cup {n} /\ awaiting' = [awaiting EXCEPT ![n] = <<>>] /\ UNCHANGED <<requests, sentOn, copies>>
  BY DEF StoreAndForward, Doing, Free
<1>3. work[w][1] \in Asked(n)
  BY <1>1, <1>2 DEF Placed, WorkOf, First, Waits, Sends
<1>4. k = n \/ (<<"forward", k>> \in Tasks /\ Beneath(n, k))
  BY <1>2, <1>3 DEF Asked, Tasks, Beneath
<1>5. a \in Seq(Waits(n))
  <2>1. k = n \/ <<"forward", k>> \in Waits(n)
    BY <1>4 DEF Waits
  <2>2. CASE k = n
    BY <2>2, EmptySeq
  <2>3. CASE k # n
    BY <2>1, <2>3
  <2> QED BY <2>2, <2>3
<1>6. awaiting[n] \in Seq(Waits(n))
  BY <1>1 DEF Placed
<1>7. v \in Seq(Waits(n))
  <2> HIDE DEF a
  <2> QED BY <1>5, <1>6
<1>8. WorkOf(n, v) /\ v \in Seq(Tasks) /\ (v = <<>> \/ v[1][1] # "data")
  <2> HIDE DEF v
  <2> QED BY <1>7, LaterWork
<1> HIDE DEF v
<1>9. Counted'
  BY <1>1, <1>2, <1>8, SendingKept
<1>10. work' \in [Threads -> Seq(Tasks)] /\ \A u \in Threads : work'[u] = IF u = w THEN v ELSE work[u]
  BY <1>1, <1>2, <1>8 DEF PushFields
<1>11. awaiting' \in [Members -> Seq(Tasks)] /\ \A m \in Members : awaiting'[m] = IF m = n THEN <<>> ELSE awaiting[m]
  <2>1. <<>> \in Seq(Tasks)
    BY EmptySeq
  <2> QED BY <1>1, <1>2, <2>1 DEF PushFields
<1>12. PushFields'
  BY <1>1, <1>2, <1>10, <1>11 DEF PushFields
<1>13. Placed'
  <2>1. \A m : <<>> \in Seq(Waits(m))
    BY EmptySeq
  <2> QED BY <1>1, <1>2, <1>8, <1>10, <1>11, <2>1 DEF Placed
<1> QED BY <1>9, <1>12, <1>13 DEF PushInv

LEMMA ForwardCallKeeps ==
  ASSUME PushInv, NEW w \in Threads, ForwardCall(w)
  PROVE  PushInv'
<1> DEFINE n == w[1]
           task == <<"forward", work[w][1][2]>>
           v == IF n \in cached THEN <<task>> ELSE <<>>
<1>1. PushFields /\ Placed /\ Counted /\ n \in Members /\ work[w] \in Seq(Tasks)
  BY ThreadOf DEF PushInv, PushFields
<1>2. /\ work[w] # <<>> /\ work[w][1][1] = "forward call" /\ UNCHANGED <<cached, requests, sentOn, copies>>
      /\ work' = [work EXCEPT ![w] = v]
      /\ awaiting' = IF n \in cached THEN awaiting ELSE [awaiting EXCEPT ![n] = Append(@, task)]
  BY DEF ForwardCall, Doing, Free
<1>3. work[w][1] \in Asked(n)
  BY <1>1, <1>2 DEF Placed, WorkOf, First, Waits, Sends
<1>4. task \in Tasks /\ Beneath(n, work[w][1][2]) /\ n # Source
  BY <1>2, <1>3 DEF Asked, Tasks, Beneath
<1>5. task \in Waits(n) /\ v \in Seq(Waits(n))
  <2>1. task \in Waits(n)
    BY <1>4 DEF Waits
  <2>2. <<task>> \in Seq(Waits(n)) /\ <<>> \in Seq(Waits(n))
    BY <2>1, EmptySeq
  <2> QED BY <2>1, <2>2
<1>6. awaiting[n] \in Seq(Waits(n)) /\ awaiting[n] \in Seq(Tasks)
  BY <1>1 DEF Placed, PushFields
<1> HIDE DEF task
<1>7. Append(awaiting[n], task) \in Seq(Waits(n)) /\ Append(awaiting[n], task) \in Seq(Tasks)
  BY <1>4, <1>5, <1>6
<1>8. WorkOf(n, v) /\ v \in Seq(Tasks) /\ (v = <<>> \/ v[1][1] # "data")
  <2> HIDE DEF v
  <2> QED BY <1>5, LaterWork
<1> HIDE DEF v
<1>9. Counted'
  BY <1>1, <1>2, <1>8, SendingKept
<1>10. work' \in [Threads -> Seq(Tasks)] /\ \A u \in Threads : work'[u] = IF u = w THEN v ELSE work[u]
  BY <1>1, <1>2, <1>8 DEF PushFields
<1>11. /\ awaiting' \in [Members -> Seq(Tasks)]
       /\ \A m \in Members : awaiting'[m] = IF m = n /\ n \notin cached THEN Append(awaiting[n], task) ELSE awaiting[m]
  BY <1>1, <1>2, <1>7 DEF PushFields
<1>12. PushFields'
  BY <1>1, <1>2, <1>10, <1>11 DEF PushFields
<1>13. Placed'
  BY <1>1, <1>2, <1>4, <1>7, <1>8, <1>10, <1>11 DEF Placed
<1> QED BY <1>9, <1>12, <1>13 DEF PushInv

\* The head of what a thread does is replaced or done.
LEMMA Advance ==
  ASSUME PushInv, NEW w \in Threads, work[w] # <<>>
  PROVE  /\ Tail(work[w]) \in Seq(Waits(w[1])) /\ WorkOf(w[1], Tail(work[w])) /\ Tail(work[w]) \in Seq(Tasks)
         /\ Tail(work[w]) = <<>> \/ Tail(work[w])[1][1] # "data"
         /\ \A task \in First(w[1]) : LET v == <<task>> \o Tail(work[w]) IN WorkOf(w[1], v) /\ v \in Seq(Tasks) /\ v # <<>> /\ v[1] = task
<1>1. Tail(work[w]) \in Seq(Waits(w[1]))
  BY DEF PushInv, Placed, WorkOf
<1> DEFINE t == Tail(work[w])
<1>2. t \in Seq(Waits(w[1]))
  BY <1>1
<1> HIDE DEF t
<1>3. WorkOf(w[1], t) /\ t \in Seq(Tasks) /\ (t = <<>> \/ t[1][1] # "data")
  BY <1>2, LaterWork
<1>4. ASSUME NEW task \in First(w[1])
      PROVE  LET v == <<task>> \o t IN WorkOf(w[1], v) /\ v \in Seq(Tasks) /\ v # <<>> /\ v[1] = task
  <2>1. task \in Tasks
    BY <1>4 DEF First, Waits, Sends, Asked
  <2>2. (<<task>> \o t) \in Seq(Tasks) /\ (<<task>> \o t) # <<>> /\ (<<task>> \o t)[1] = task /\ Tail(<<task>> \o t) = t
    BY <1>3, <2>1
  <2> QED BY <1>2, <2>2, <1>4 DEF WorkOf
<1> QED BY <1>2, <1>3, <1>4 DEF t

LEMMA DecideKeeps ==
  ASSUME PushInv, NEW w \in Threads, Decide(w)
  PROVE  PushInv'
<1> DEFINE n == w[1]
           k == work[w][1][2]
           task == <<IF HopTo(n, k) \in sentOn THEN "name" ELSE "data", k>>
           v == <<task>> \o Tail(work[w])
<1>1. PushFields /\ Placed /\ Counted /\ n \in Members /\ work[w] \in Seq(Tasks)
  BY ThreadOf DEF PushInv, PushFields
<1>2. /\ work[w] # <<>> /\ work[w][1][1] = "forward" /\ UNCHANGED <<cached, awaiting, requests, sentOn, copies>>
      /\ work' = [work EXCEPT ![w] = v]
  BY DEF Decide, Doing, Free
<1>3. Beneath(n, k)
  BY <1>1, <1>2 DEF Placed, WorkOf, First, Waits, Sends, Asked
<1>4. task \in First(n) /\ task[1] \in {"name", "data"} /\ (task[1] = "data" => HopTo(n, k) \notin sentOn) /\ task[2] = k
  BY <1>3 DEF First, Sends, Tasks, Beneath
<1> HIDE DEF task
<1>5. WorkOf(n, v) /\ v \in Seq(Tasks) /\ v # <<>> /\ v[1] = task
  BY <1>2, <1>4, Advance
<1> HIDE DEF v
<1>6. Placed' /\ work' \in [Threads -> Seq(Tasks)]
  BY <1>1, <1>2, <1>5, PlacedWork
<1>7. PushFields'
  BY <1>1, <1>2, <1>6 DEF PushFields
<1>8. Counted'
  <2>1. CASE task[1] = "name"
    BY <1>1, <1>2, <1>5, <2>1, SendingKept
  <2>2. CASE task[1] = "data"
    <3>1. \A u \in Threads : work'[u] = IF u = w THEN v ELSE work[u]
      BY <1>1, <1>2 DEF PushFields
    <3>2. \A m \in Holders : m # HopTo(n, k) => SendsTo(m)' = SendsTo(m)
      BY <1>2, <1>4, <1>5, <3>1, <2>2 DEF SendsTo, Doing, Free
    <3>3. (\A m : Cardinality(SendsTo(m)) <= PoolSize /\ Cardinality(SendsTo(m)) \in Nat)'
      <4>1. \A m : SendsTo(m)' \in SUBSET ({Over[m]} \X (1..PoolSize))
        BY DEF SendsTo, Threads
      <4> QED BY <4>1, InPool
    <3> QED BY <1>1, <1>2, <1>4, <2>2, <3>2, <3>3 DEF Counted
  <2> QED BY <1>4, <2>1, <2>2
<1> QED BY <1>6, <1>7, <1>8 DEF PushInv

LEMMA SendDataKeeps ==
  ASSUME PushInv, NEW w \in Threads, SendData(w)
  PROVE  PushInv'
<1> DEFINE n == w[1]
           k == work[w][1][2]
           j == HopTo(n, k)
           v == Tail(work[w])
           r == [kind |-> "store call", to |-> k]
<1>1. PushFields /\ Placed /\ Counted /\ n \in Members /\ work[w] \in Seq(Tasks)
  BY ThreadOf DEF PushInv, PushFields
<1>2. /\ work[w] # <<>> /\ work[w][1][1] = "data" /\ UNCHANGED <<cached, awaiting>> /\ work' = [work EXCEPT ![w] = v]
      /\ requests' = [requests EXCEPT ![j] = Append(@, r)] /\ sentOn' = sentOn \cup {j} /\ copies' = [copies EXCEPT ![j] = @ + 1]
  BY DEF SendData, Doing, Free
<1>3. Beneath(n, k)
  BY <1>1, <1>2 DEF Placed, WorkOf, First, Waits, Sends, Asked
<1>4. j \in Holders /\ j \in Members /\ Over[j] = n /\ (j = k \/ Beneath(j, k)) /\ k \in Holders
  BY <1>1, <1>3, HopIs DEF Members, Beneath
<1>5. WorkOf(n, v) /\ v \in Seq(Tasks) /\ (v = <<>> \/ v[1][1] # "data")
  BY <1>2, Advance
<1> HIDE DEF v, j
<1>6. work' \in [Threads -> Seq(Tasks)] /\ \A u \in Threads : work'[u] = IF u = w THEN v ELSE work[u]
  BY <1>1, <1>2, <1>5 DEF PushFields
<1>7. r \in Calls /\ r \in CallsOf(j)
  <2>1. r \in Calls /\ <<r.kind, r.to>> = <<"store call", k>>
    BY <1>4 DEF Calls
  <2>2. <<"store call", k>> \in Asked(j)
    BY <1>4, PushAssumption DEF PushAssumption, Asked, Tasks
  <2> QED BY <2>1, <2>2 DEF CallsOf
<1> HIDE DEF r
<1>8. /\ requests[j] \in Seq(CallsOf(j)) /\ requests[j] \in Seq(Calls)
      /\ Append(requests[j], r) \in Seq(Calls) /\ Append(requests[j], r) \in Seq(CallsOf(j))
  <2>1. requests[j] \in Seq(CallsOf(j)) /\ requests[j] \in Seq(Calls)
    BY <1>1, <1>4 DEF PushFields, Placed
  <2> QED BY <1>7, <2>1
<1>9. /\ requests' \in [Members -> Seq(Calls)]
      /\ \A m \in Members : requests'[m] = IF m = j THEN Append(requests[j], r) ELSE requests[m]
  BY <1>1, <1>2, <1>4, <1>8 DEF PushFields
<1>10. copies' \in [Holders -> Nat] /\ \A m \in Holders : copies'[m] = IF m = j THEN copies[j] + 1 ELSE copies[m]
  BY <1>1, <1>2, <1>4 DEF PushFields
<1>11. PushFields'
  BY <1>1, <1>2, <1>4, <1>6, <1>9, <1>10 DEF PushFields
<1>12. Placed'
  BY <1>1, <1>2, <1>5, <1>6, <1>8, <1>9 DEF Placed
<1>13. Counted'
  <2> SUFFICES ASSUME NEW m \in Holders PROVE copies'[m] + Cardinality(SendsTo(m)') <= PoolSize /\ (m \notin sentOn' => copies'[m] = 0)
    BY DEF Counted
  <2>1. /\ copies[m] \in Nat /\ copies[m] + Cardinality(SendsTo(m)) <= PoolSize /\ (m \notin sentOn => copies[m] = 0)
        /\ IsFiniteSet(SendsTo(m)) /\ Cardinality(SendsTo(m)) \in Nat /\ PoolSize \in Nat
    BY <1>1, SendingInPool, PushAssumption DEF PushAssumption, PushFields, Counted
  <2>2. CASE m = j
    <3>1. w \in SendsTo(m)
      BY <1>2, <1>4, <2>2 DEF SendsTo, Doing, Free, j
    <3>2. ~(Doing(w, "data"))'
      BY <1>5, <1>6 DEF Doing, Free
    <3>3. SendsTo(m)' = SendsTo(m) \ {w}
      BY <1>6, <3>2 DEF SendsTo, Doing, Free
    <3>4. Cardinality(SendsTo(m) \ {w}) = Cardinality(SendsTo(m)) - 1
      BY <2>1, <3>1, FS_RemoveElement
    <3>5. Cardinality(SendsTo(m)') = Cardinality(SendsTo(m)) - 1 /\ copies'[m] = copies[m] + 1 /\ m \in sentOn'
      BY <1>2, <1>10, <2>2, <3>3, <3>4
    <3> QED BY <2>1, <3>5
  <2>3. CASE m # j
    <3>1. SendsTo(m)' = SendsTo(m)
      BY <1>2, <1>5, <1>6, <2>3 DEF SendsTo, Doing, Free, j
    <3>2. copies'[m] = copies[m]
      BY <1>10, <2>3
    <3> QED BY <1>2, <2>1, <3>1, <3>2
  <2> QED BY <2>2, <2>3
<1> QED BY <1>11, <1>12, <1>13 DEF PushInv

LEMMA SendNameKeeps ==
  ASSUME PushInv, NEW w \in Threads, SendName(w)
  PROVE  PushInv'
<1> DEFINE n == w[1]
           k == work[w][1][2]
           j == HopTo(n, k)
           v == Tail(work[w])
           r == [kind |-> "forward call", to |-> k]
<1>1. PushFields /\ Placed /\ Counted /\ n \in Members /\ work[w] \in Seq(Tasks)
  BY ThreadOf DEF PushInv, PushFields
<1>2. /\ work[w] # <<>> /\ work[w][1][1] = "name" /\ UNCHANGED <<cached, awaiting, sentOn, copies>> /\ work' = [work EXCEPT ![w] = v]
      /\ requests' = IF j = k THEN requests ELSE [requests EXCEPT ![j] = Append(@, r)]
  BY DEF SendName, Doing, Free
<1>3. Beneath(n, k)
  BY <1>1, <1>2 DEF Placed, WorkOf, First, Waits, Sends, Asked
<1>4. j \in Holders /\ j \in Members /\ (j = k \/ Beneath(j, k)) /\ k \in Holders
  BY <1>1, <1>3, HopIs DEF Members, Beneath
<1>5. WorkOf(n, v) /\ v \in Seq(Tasks) /\ (v = <<>> \/ v[1][1] # "data")
  BY <1>2, Advance
<1> HIDE DEF v, j
<1>6. Counted'
  BY <1>1, <1>2, <1>5, SendingKept
<1>7. work' \in [Threads -> Seq(Tasks)] /\ \A u \in Threads : work'[u] = IF u = w THEN v ELSE work[u]
  BY <1>1, <1>2, <1>5 DEF PushFields
<1>8. j # k => r \in Calls /\ r \in CallsOf(j)
  <2>1. r \in Calls /\ <<r.kind, r.to>> = <<"forward call", k>>
    BY <1>4 DEF Calls
  <2>2. j # k => <<"forward call", k>> \in Asked(j)
    BY <1>4, PushAssumption DEF PushAssumption, Asked, Tasks
  <2> QED BY <2>1, <2>2 DEF CallsOf
<1> HIDE DEF r
<1>9. /\ requests[j] \in Seq(CallsOf(j)) /\ requests[j] \in Seq(Calls)
      /\ j # k => Append(requests[j], r) \in Seq(Calls) /\ Append(requests[j], r) \in Seq(CallsOf(j))
  <2>1. requests[j] \in Seq(CallsOf(j)) /\ requests[j] \in Seq(Calls)
    BY <1>1, <1>4 DEF PushFields, Placed
  <2> QED BY <1>8, <2>1
<1>10. /\ requests' \in [Members -> Seq(Calls)]
       /\ \A m \in Members : requests'[m] = IF m = j /\ j # k THEN Append(requests[j], r) ELSE requests[m]
  BY <1>1, <1>2, <1>4, <1>9 DEF PushFields
<1>11. PushFields'
  BY <1>1, <1>2, <1>7, <1>10 DEF PushFields
<1>12. Placed'
  BY <1>1, <1>2, <1>5, <1>7, <1>9, <1>10 DEF Placed
<1> QED BY <1>6, <1>11, <1>12 DEF PushInv

LEMMA WakeKeeps ==
  ASSUME PushInv, NEW w \in Threads, Wake(w)
  PROVE  PushInv'
<1> DEFINE v == Tail(work[w])
<1>1. PushFields /\ Placed /\ Counted
  BY DEF PushInv
<1>2. /\ work[w] # <<>> /\ work[w][1][1] = "wake" /\ work' = [work EXCEPT ![w] = v]
      /\ UNCHANGED <<cached, awaiting, requests, sentOn, copies>>
  BY DEF Wake, Doing, Free
<1>3. WorkOf(w[1], v) /\ v \in Seq(Tasks) /\ (v = <<>> \/ v[1][1] # "data")
  BY <1>2, Advance
<1> HIDE DEF v
<1>4. Counted'
  BY <1>1, <1>2, <1>3, SendingKept
<1>5. Placed' /\ work' \in [Threads -> Seq(Tasks)]
  BY <1>1, <1>2, <1>3, PlacedWork
<1>6. PushFields'
  BY <1>1, <1>2, <1>5 DEF PushFields
<1> QED BY <1>4, <1>5, <1>6 DEF PushInv

LEMMA GetFileKeeps ==
  ASSUME PushInv, NEW r \in Readers, GetFile(r)
  PROVE  PushInv'
<1> DEFINE n == ReaderAt[r]
           task == <<"wake", r>>
<1>1. PushFields /\ Placed /\ Counted /\ n \in Members /\ n # Source
  BY PushAssumption DEF PushInv, PushAssumption, Members
<1>2. /\ UNCHANGED <<cached, requests, sentOn, work, copies>>
      /\ awaiting' = IF n \in cached THEN awaiting ELSE [awaiting EXCEPT ![n] = Append(@, task)]
  BY DEF GetFile
<1>3. task \in Tasks /\ task \in Waits(n)
  BY DEF Waits, Tasks
<1>4. awaiting[n] \in Seq(Waits(n)) /\ awaiting[n] \in Seq(Tasks)
  BY <1>1 DEF Placed, PushFields
<1> HIDE DEF task
<1>5. Append(awaiting[n], task) \in Seq(Waits(n)) /\ Append(awaiting[n], task) \in Seq(Tasks)
  BY <1>3, <1>4
<1>6. /\ awaiting' \in [Members -> Seq(Tasks)]
      /\ \A m \in Members : awaiting'[m] = IF m = n /\ n \notin cached THEN Append(awaiting[n], task) ELSE awaiting[m]
  BY <1>1, <1>2, <1>5 DEF PushFields
<1>7. PushFields'
  BY <1>1, <1>2, <1>6 DEF PushFields
<1>8. Placed'
  BY <1>1, <1>2, <1>5, <1>6 DEF Placed
<1>9. Counted'
  <2>1. \A m : SendsTo(m)' = SendsTo(m)
    BY <1>2 DEF SendsTo, Doing, Free
  <2> QED BY <1>1, <1>2, <2>1 DEF Counted
<1> QED BY <1>7, <1>8, <1>9 DEF PushInv

\* Every step of a pool, every get() and every propagate_to() keeps the count of what is sent.
LEMMA PushStep == PushInv /\ [PushNext]_pushVars => PushInv'
<1> SUFFICES ASSUME PushInv, [PushNext]_pushVars PROVE PushInv'
  OBVIOUS
<1>1. CASE Pools
  BY <1>1, TakeRequestKeeps, StoreKeeps, ForwardCallKeeps, DecideKeeps, SendDataKeeps, SendNameKeeps, WakeKeeps DEF Pools
<1>2. CASE \E w \in Threads, k \in Targets : PropagateTo(w, k)
  BY <1>2, PropagateKeeps
<1>3. CASE \E r \in Readers : GetFile(r)
  BY <1>3, GetFileKeeps
<1>4. CASE UNCHANGED pushVars
  <2>1. UNCHANGED <<cached, awaiting, requests, sentOn, work, copies>>
    BY <1>4 DEF pushVars
  <2>2. \A m : SendsTo(m)' = SendsTo(m)
    BY <2>1 DEF SendsTo, Doing, Free
  <2> QED BY <2>1, <2>2 DEF PushInv, PushFields, Placed, Counted
<1> QED BY <1>1, <1>2, <1>3, <1>4 DEF PushNext

LEMMA PushSafely == PushInv => PushSafe
<1> SUFFICES ASSUME PushInv PROVE PushSafe
  OBVIOUS
<1>1. PushTypeOK
  BY DEF PushInv, PushFields, Placed, PushTypeOK
<1>2. \A n \in Holders : copies[n] \in Nat /\ Cardinality(SendsTo(n)) \in Nat /\ copies[n] + Cardinality(SendsTo(n)) <= PoolSize
  BY SendingInPool DEF PushInv, PushFields, Counted
<1>3. ResentOnlyInRace
  BY <1>2, PushAssumption DEF PushAssumption, ResentOnlyInRace
<1> QED BY <1>1, <1>3 DEF PushSafe

\* A pushed file crosses a stream once for every thread that was forwarding it at the same time at
\* most, and who waits for it at a context waits only while it is not there: for any tree of
\* contexts, any targets and readers, and any size of the pools.
THEOREM PushCorrect == PushSpec => []PushSafe
<1>1. PushInit => PushInv
  BY PushInitially
<1>2. PushInv /\ [PushNext]_pushVars => PushInv'
  BY PushStep
<1>3. PushInv => PushSafe
  BY PushSafely
<1> QED BY <1>1, <1>2, <1>3, PTL DEF PushSpec

-----------------------------------------------------------------------------
(* FileTransfer: the window and the books of the streams of FileService         *)

Count(q) == Cardinality(BytesOf(q))

\* A finite family of finite sets.
LEMMA FamilyFinite ==
  ASSUME NEW I, IsFiniteSet(I), NEW F, \A i \in I : IsFiniteSet(F[i])
  PROVE  IsFiniteSet(UNION {F[i] : i \in I})
<1> DEFINE All == {F[i] : i \in I}
           f == [i \in I |-> F[i]]
<1>1. f \in Surjection(I, All)
  BY DEF Surjection
<1>2. IsFiniteSet(All)
  BY <1>1, FS_Surjection
<1>3. \A T \in All : IsFiniteSet(T)
  OBVIOUS
<1> HIDE DEF All
<1>4. IsFiniteSet(UNION All)
  BY <1>2, <1>3, FS_UNION
<1> QED BY <1>4 DEF All

\* One row of n.
LEMMA Row ==
  ASSUME NEW x, NEW B, IsFiniteSet(B)
  PROVE  IsFiniteSet({x} \X B) /\ Cardinality({x} \X B) = Cardinality(B)
<1> DEFINE A == {x}
<1>1. IsFiniteSet(A) /\ Cardinality(A) = 1
  BY FS_Singleton
<1>2. Cardinality(B) \in Nat
  BY FS_CardinalityType
<1> HIDE DEF A
<1>3. IsFiniteSet(A \X B) /\ Cardinality(A \X B) = Cardinality(A) * Cardinality(B)
  BY <1>1, FS_Product
<1>4. Cardinality(A \X B) = 1 * Cardinality(B)
  BY <1>1, <1>3, Zenon
<1> QED BY <1>2, <1>3, <1>4 DEF A

LEMMA RowOf ==
  ASSUME NEW x, NEW n \in Nat
  PROVE  IsFiniteSet({x} \X (1..n)) /\ Cardinality({x} \X (1..n)) = n
<1>1. IsFiniteSet(1..n) /\ Cardinality(1..n) = n
  BY FS_Interval
<1> QED BY <1>1, Row

LEMMA BytesFinite ==
  ASSUME NEW q \in Seq(Nat)
  PROVE  IsFiniteSet(BytesOf(q)) /\ Count(q) \in Nat
<1> DEFINE I == DOMAIN q
           F == [i \in I |-> {i} \X (1..q[i])]
<1>1. IsFiniteSet(I)
  <2>1. I = 1..Len(q) /\ Len(q) \in Nat
    OBVIOUS
  <2> QED BY <2>1, FS_Interval
<1>2. \A i \in I : IsFiniteSet(F[i])
  <2> TAKE i \in I
  <2>1. q[i] \in Nat
    OBVIOUS
  <2>2. IsFiniteSet({i} \X (1..q[i]))
    BY <2>1, RowOf
  <2> QED BY <2>2
<1>3. BytesOf(q) = UNION {F[i] : i \in I}
  BY DEF BytesOf
<1> HIDE DEF I, F
<1>4. IsFiniteSet(BytesOf(q))
  BY <1>1, <1>2, <1>3, FamilyFinite
<1> QED BY <1>4, FS_CardinalityType DEF Count

LEMMA NoBytes == Count(<<>>) = 0
<1>1. BytesOf(<<>>) = {}
  BY DEF BytesOf
<1> QED BY <1>1, FS_EmptySet DEF Count

LEMMA InBytes ==
  ASSUME NEW q \in Seq(Nat)
  PROVE  \A u : u \in BytesOf(q) <=> \E j \in 1..Len(q) : \E b \in 1..q[j] : u = <<j, b>>
<1>1. DOMAIN q = 1..Len(q)
  OBVIOUS
<1>2. \A u : u \in BytesOf(q) <=> \E j \in 1..Len(q) : u \in {j} \X (1..q[j])
  BY <1>1 DEF BytesOf
<1>3. \A j, u : u \in {j} \X (1..q[j]) <=> \E b \in 1..q[j] : u = <<j, b>>
  OBVIOUS
<1> QED BY <1>2, <1>3

\* r is q without its i-th chunk.
Without(q, i, r) == /\ i \in 1..Len(q) /\ Len(r) = Len(q) - 1
                    /\ \A j \in 1..Len(r) : r[j] = IF j < i THEN q[j] ELSE q[j + 1]

LEMMA CountWithout ==
  ASSUME NEW q \in Seq(Nat), NEW r \in Seq(Nat), NEW i, Without(q, i, r)
  PROVE  Count(q) = Count(r) + q[i]
<1> DEFINE R == {i} \X (1..q[i])
           S == BytesOf(q) \ R
           To(u) == <<IF u[1] < i THEN u[1] ELSE u[1] + 1, u[2]>>
           f == [u \in BytesOf(r) |-> To(u)]
<1>1. /\ DOMAIN q = 1..Len(q) /\ DOMAIN r = 1..Len(r) /\ Len(q) \in Nat /\ Len(r) \in Nat /\ i \in 1..Len(q)
      /\ Len(r) = Len(q) - 1 /\ q[i] \in Nat /\ \A j \in 1..Len(r) : r[j] = IF j < i THEN q[j] ELSE q[j + 1]
  BY DEF Without
<1>2. \A u : u \in BytesOf(r) <=> \E j \in 1..Len(r) : \E b \in 1..r[j] : u = <<j, b>>
  BY InBytes
<1>3. \A u : u \in BytesOf(q) <=> \E j \in 1..Len(q) : \E b \in 1..q[j] : u = <<j, b>>
  BY InBytes
<1>4. ASSUME NEW u \in BytesOf(r) PROVE To(u) \in S
  <2>1. PICK j \in 1..Len(r) : \E b \in 1..r[j] : u = <<j, b>>
    BY <1>2
  <2>2. PICK b \in 1..r[j] : u = <<j, b>>
    BY <2>1
  <2>3. \A k \in 1..Len(q) : b \in 1..q[k] /\ k # i => <<k, b>> \in S
    BY <1>3
  <2>4. CASE j < i
    <3>1. To(u) = <<j, b>> /\ j \in 1..Len(q) /\ b \in 1..q[j] /\ j # i
      BY <1>1, <2>2, <2>4
    <3> HIDE DEF S, To
    <3> QED BY <2>3, <3>1
  <2>5. CASE ~(j < i)
    <3>1. To(u) = <<j + 1, b>> /\ j + 1 \in 1..Len(q) /\ b \in 1..q[j + 1] /\ j + 1 # i
      BY <1>1, <2>2, <2>5
    <3> HIDE DEF S, To
    <3> QED BY <2>3, <3>1
  <2> QED BY <2>4, <2>5
<1>5. ASSUME NEW u \in BytesOf(r), NEW v \in BytesOf(r), To(u) = To(v) PROVE u = v
  <2>1. PICK j \in 1..Len(r) : \E b \in 1..r[j] : u = <<j, b>>
    BY <1>2
  <2>2. PICK b \in 1..r[j] : u = <<j, b>>
    BY <2>1
  <2>3. PICK k \in 1..Len(r) : \E c \in 1..r[k] : v = <<k, c>>
    BY <1>2
  <2>4. PICK c \in 1..r[k] : v = <<k, c>>
    BY <2>3
  <2>5. (IF j < i THEN j ELSE j + 1) = (IF k < i THEN k ELSE k + 1) /\ b = c
    BY <1>5, <2>2, <2>4
  <2>6. j \in Int /\ k \in Int /\ i \in Int
    BY <1>1
  <2>7. j = k
    BY <2>5, <2>6
  <2> QED BY <2>2, <2>4, <2>5, <2>7
<1>6. ASSUME NEW v \in S PROVE \E u \in BytesOf(r) : To(u) = v
  <2>1. PICK j \in 1..Len(q) : \E b \in 1..q[j] : v = <<j, b>>
    BY <1>3
  <2>2. PICK b \in 1..q[j] : v = <<j, b>>
    BY <2>1
  <2>3. j # i
    BY <2>2
  <2>4. CASE j < i
    <3>0. j \in 1..Len(r)
      BY <1>1, <2>4
    <3>1. j \in 1..Len(r) /\ r[j] = q[j]
      BY <1>1, <2>4, <3>0
    <3>2. <<j, b>> \in BytesOf(r) /\ To(<<j, b>>) = <<j, b>>
      BY <1>2, <2>4, <3>1
    <3> QED BY <2>2, <3>2
  <2>5. CASE ~(j < i)
    <3>1. j - 1 \in 1..Len(r) /\ ~(j - 1 < i) /\ (j - 1) + 1 = j /\ r[j - 1] = q[j]
      BY <1>1, <2>3, <2>5
    <3>2. <<j - 1, b>> \in BytesOf(r) /\ To(<<j - 1, b>>) = <<j, b>>
      BY <1>2, <3>1
    <3> QED BY <2>2, <3>2
  <2> QED BY <2>4, <2>5
<1>7. f \in Bijection(BytesOf(r), S)
  <2> HIDE DEF S, To
  <2>1. f \in [BytesOf(r) -> S] /\ \A u \in BytesOf(r) : f[u] = To(u)
    BY <1>4
  <2> HIDE DEF f
  <2> QED BY <1>5, <1>6, <2>1 DEF Bijection, Injection, Surjection, IsInjective
<1>8. IsFiniteSet(BytesOf(r)) /\ Count(r) \in Nat
  BY BytesFinite
<1>9. IsFiniteSet(S) /\ Cardinality(S) = Count(r)
  <2>1. ExistsBijection(BytesOf(r), S)
    BY <1>7 DEF ExistsBijection
  <2> HIDE DEF S
  <2> QED BY <1>8, <2>1, FS_Bijection DEF Count
<1>10. IsFiniteSet(R) /\ Cardinality(R) = q[i]
  BY <1>1, RowOf
<1>11. BytesOf(q) = S \cup R /\ S \cap R = {}
  BY <1>1, <1>3
<1> HIDE DEF S, R
<1>12. Cardinality(S \cup R) = Cardinality(S) + Cardinality(R) - Cardinality({})
  BY <1>9, <1>10, <1>11, FS_Union
<1>13. Count(q) = Cardinality(S) + Cardinality(R) - 0
  BY <1>11, <1>12, FS_EmptySet DEF Count
<1> QED BY <1>1, <1>8, <1>9, <1>10, <1>13

LEMMA SeqSteps ==
  ASSUME NEW S, NEW q \in Seq(S)
  PROVE  /\ Len(q) \in Nat /\ DOMAIN q = 1..Len(q) /\ \A j \in 1..Len(q) : q[j] \in S
         /\ \A e \in S : /\ Append(q, e) \in Seq(S) /\ Len(Append(q, e)) = Len(q) + 1 /\ Append(q, e)[Len(q) + 1] = e
                         /\ \A j \in 1..Len(q) : Append(q, e)[j] = q[j]
         /\ q # <<>> => /\ Len(q) > 0 /\ Head(q) = q[1] /\ Head(q) \in S /\ Tail(q) \in Seq(S) /\ Len(Tail(q)) = Len(q) - 1
                        /\ \A j \in 1..Len(Tail(q)) : Tail(q)[j] = q[j + 1]
  OBVIOUS

LEMMA Removed ==
  ASSUME NEW S, NEW q \in Seq(S), NEW i \in 1..Len(q)
  PROVE  /\ RemoveAt(q, i) \in Seq(S) /\ Len(RemoveAt(q, i)) = Len(q) - 1
         /\ \A j \in 1..Len(RemoveAt(q, i)) : RemoveAt(q, i)[j] = IF j < i THEN q[j] ELSE q[j + 1]
<1> DEFINE a == SubSeq(q, 1, i - 1)
           b == SubSeq(q, i + 1, Len(q))
<1>1. /\ a \in Seq(S) /\ Len(a) = i - 1 /\ \A j \in 1..Len(a) : a[j] = q[j]
  OBVIOUS
<1>2. /\ b \in Seq(S) /\ Len(b) = Len(q) - i /\ \A j \in 1..Len(b) : b[j] = q[i + j]
  OBVIOUS
<1>3. RemoveAt(q, i) = a \o b
  BY DEF RemoveAt
<1>4. Len(q) \in Nat /\ i \in Nat /\ 1 <= i /\ i <= Len(q)
  OBVIOUS
<1> HIDE DEF a, b
<1>5. /\ a \o b \in Seq(S) /\ Len(a \o b) = Len(a) + Len(b)
      /\ \A j \in 1..Len(a) + Len(b) : (a \o b)[j] = IF j <= Len(a) THEN a[j] ELSE b[j - Len(a)]
  <2>1. a \in Seq(S) /\ b \in Seq(S)
    BY <1>1, <1>2
  <2> QED BY <2>1, Concat
<1>6. ASSUME NEW j \in 1..Len(q) - 1 PROVE (a \o b)[j] = IF j < i THEN q[j] ELSE q[j + 1]
  <2>1. j \in 1..Len(a) + Len(b) /\ (a \o b)[j] = IF j <= Len(a) THEN a[j] ELSE b[j - Len(a)]
    BY <1>1, <1>2, <1>4, <1>5
  <2>2. CASE j < i
    <3>1. j <= Len(a) /\ j \in 1..Len(a)
      BY <1>1, <1>4, <2>2
    <3> QED BY <1>1, <2>1, <2>2, <3>1
  <2>3. CASE ~(j < i)
    <3>1. ~(j <= Len(a)) /\ j - Len(a) \in 1..Len(b) /\ i + (j - Len(a)) = j + 1
      BY <1>1, <1>2, <1>4, <2>3
    <3> QED BY <1>2, <2>1, <2>3, <3>1
  <2> QED BY <2>2, <2>3
<1>7. Len(a \o b) = Len(q) - 1
  BY <1>1, <1>2, <1>4, <1>5
<1> QED BY <1>3, <1>5, <1>6, <1>7

LEMMA CountAppend ==
  ASSUME NEW q \in Seq(Nat), NEW n \in Nat
  PROVE  Count(Append(q, n)) = Count(q) + n
<1> DEFINE r == Append(q, n)
<1>1. Len(q) \in Nat /\ r \in Seq(Nat) /\ Len(r) = Len(q) + 1 /\ r[Len(q) + 1] = n /\ \A j \in 1..Len(q) : r[j] = q[j]
  BY SeqSteps
<1> HIDE DEF r
<1>2. Without(r, Len(q) + 1, q)
  BY <1>1 DEF Without
<1>3. Count(r) = Count(q) + r[Len(q) + 1]
  BY <1>1, <1>2, CountWithout
<1> QED BY <1>1, <1>3 DEF r

LEMMA CountTail ==
  ASSUME NEW q \in Seq(Nat), q # <<>>
  PROVE  Count(q) = Count(Tail(q)) + Head(q)
<1>1. /\ Len(q) \in Nat /\ Len(q) > 0 /\ Head(q) = q[1] /\ Tail(q) \in Seq(Nat) /\ Len(Tail(q)) = Len(q) - 1
      /\ \A j \in 1..Len(Tail(q)) : Tail(q)[j] = q[j + 1]
  BY SeqSteps
<1>2. Without(q, 1, Tail(q))
  BY <1>1 DEF Without
<1>3. Count(q) = Count(Tail(q)) + q[1]
  BY <1>1, <1>2, CountWithout
<1> QED BY <1>1, <1>3

LEMMA CountRemoved ==
  ASSUME NEW q \in Seq(Nat), NEW i \in 1..Len(q)
  PROVE  Count(q) = Count(RemoveAt(q, i)) + q[i]
<1>1. RemoveAt(q, i) \in Seq(Nat) /\ Without(q, i, RemoveAt(q, i))
  BY Removed DEF Without
<1> QED BY <1>1, CountWithout

-----------------------------------------------------------------------------
\* What is under way to, or from, the transfers of S.
Under(S, q) == UNION {{t} \X BytesOf(q[t]) : t \in S}
Way(S, q) == Cardinality(Under(S, q))
Queues == [Transfers -> Seq(Nat)]

LEMMA WayFinite ==
  ASSUME NEW S \in SUBSET Transfers, NEW q \in Queues
  PROVE  IsFiniteSet(Under(S, q)) /\ Way(S, q) \in Nat
<1> DEFINE F == [t \in S |-> {t} \X BytesOf(q[t])]
<1>1. IsFiniteSet(S)
  BY FS_Subset, TransferAssumption DEF TransferAssumption
<1>2. \A t \in S : IsFiniteSet(F[t])
  <2> TAKE t \in S
  <2>1. q[t] \in Seq(Nat)
    BY DEF Queues
  <2>2. IsFiniteSet({t} \X BytesOf(q[t]))
    BY <2>1, BytesFinite, Row
  <2> QED BY <2>2
<1>3. Under(S, q) = UNION {F[t] : t \in S}
  BY DEF Under
<1> HIDE DEF F
<1>4. IsFiniteSet(Under(S, q))
  BY <1>1, <1>2, <1>3, FamilyFinite
<1> QED BY <1>4, FS_CardinalityType DEF Way

LEMMA WaySame ==
  ASSUME NEW S \in SUBSET Transfers, NEW q \in Queues, NEW r \in Queues, \A t \in S : q[t] = r[t]
  PROVE  Way(S, q) = Way(S, r)
<1>1. Under(S, q) = Under(S, r)
  BY DEF Under
<1> QED BY <1>1 DEF Way

LEMMA WayWithout ==
  ASSUME NEW S \in SUBSET Transfers, NEW q \in Queues, NEW t \in S
  PROVE  Way(S, q) = Way(S \ {t}, q) + Count(q[t])
<1> DEFINE A == Under(S \ {t}, q)
           B == {t} \X BytesOf(q[t])
<1>1. q[t] \in Seq(Nat)
  BY DEF Queues
<1>2. IsFiniteSet(B) /\ Cardinality(B) = Count(q[t])
  BY <1>1, BytesFinite, Row DEF Count
<1>3. IsFiniteSet(A) /\ Cardinality(A) = Way(S \ {t}, q)
  BY WayFinite DEF Way
<1>4. Under(S, q) = A \cup B /\ A \cap B = {}
  BY DEF Under
<1> HIDE DEF A, B
<1>5. Cardinality(A \cup B) = Cardinality(A) + Cardinality(B) - Cardinality({})
  BY <1>2, <1>3, <1>4, FS_Union
<1>6. Way(S, q) = Cardinality(A) + Cardinality(B) - 0
  BY <1>4, <1>5, FS_EmptySet DEF Way
<1>7. Cardinality(A) \in Nat /\ Cardinality(B) \in Nat
  BY <1>2, <1>3, FS_CardinalityType
<1> QED BY <1>2, <1>3, <1>6, <1>7

\* The todo of one transfer changes.
LEMMA WayChange ==
  ASSUME NEW S \in SUBSET Transfers, NEW q \in Queues, NEW r \in Queues, NEW t \in S, \A u \in S \ {t} : q[u] = r[u]
  PROVE  Way(S, r) + Count(q[t]) = Way(S, q) + Count(r[t])
<1>1. Way(S, q) = Way(S \ {t}, q) + Count(q[t]) /\ Way(S, r) = Way(S \ {t}, r) + Count(r[t])
  BY WayWithout
<1>2. Way(S \ {t}, q) = Way(S \ {t}, r)
  BY WaySame
<1>3. Way(S \ {t}, q) \in Nat
  BY WayFinite
<1>4. Count(q[t]) \in Nat /\ Count(r[t]) \in Nat
  BY BytesFinite DEF Queues
<1> QED BY <1>1, <1>2, <1>3, <1>4

-----------------------------------------------------------------------------
Ended(q) == \E i \in 1..Len(q) : q[i] = 0
EndsOnce(q) == \A i \in 1..Len(q) : q[i] = 0 => i = Len(q)

LEMMA AppendEnds ==
  ASSUME NEW q \in Seq(Nat), ~Ended(q), NEW n \in Nat
  PROVE  EndsOnce(Append(q, n)) /\ (n > 0 => ~Ended(Append(q, n)))
<1>1. /\ Len(q) \in Nat /\ Len(Append(q, n)) = Len(q) + 1 /\ Append(q, n)[Len(q) + 1] = n
      /\ \A j \in 1..Len(q) : Append(q, n)[j] = q[j]
  BY SeqSteps
<1>2. \A j \in 1..Len(q) : q[j] # 0
  BY DEF Ended
<1>3. \A j \in 1..Len(q) + 1 : j \in 1..Len(q) \/ j = Len(q) + 1
  BY <1>1
<1> QED BY <1>1, <1>2, <1>3 DEF EndsOnce, Ended

LEMMA TailEnds ==
  ASSUME NEW q \in Seq(Nat), q # <<>>, EndsOnce(q)
  PROVE  /\ EndsOnce(Tail(q)) /\ (Ended(Tail(q)) => Ended(q))
         /\ Head(q) = 0 => Tail(q) = <<>> /\ Ended(q)
<1>1. /\ Len(q) \in Nat /\ Len(q) > 0 /\ Head(q) = q[1] /\ Tail(q) \in Seq(Nat) /\ Len(Tail(q)) = Len(q) - 1
      /\ \A j \in 1..Len(Tail(q)) : Tail(q)[j] = q[j + 1]
  BY SeqSteps
<1>2. \A j \in 1..Len(Tail(q)) : j + 1 \in 1..Len(q) /\ (j + 1 = Len(q) => j = Len(Tail(q)))
  <2> DEFINE k == Len(q)
             m == Len(Tail(q))
  <2>1. k \in Nat /\ m = k - 1
    BY <1>1
  <2> HIDE DEF k, m
  <2>2. \A j \in 1..m : j + 1 \in 1..k /\ (j + 1 = k => j = m)
    BY <2>1
  <2> QED BY <2>2 DEF k, m
<1>3. EndsOnce(Tail(q)) /\ (Ended(Tail(q)) => Ended(q))
  BY <1>1, <1>2 DEF EndsOnce, Ended
<1>4. ASSUME Head(q) = 0 PROVE Tail(q) = <<>> /\ Ended(q)
  <2>1. 1 \in 1..Len(q) /\ q[1] = 0
    BY <1>1, <1>4
  <2>2. Len(q) = 1
    BY <2>1 DEF EndsOnce
  <2>3. Len(Tail(q)) = 0
    BY <1>1, <2>2
  <2>4. Tail(q) = <<>>
    <3>1. Tail(q) \in Seq(Nat)
      BY <1>1
    <3> QED BY <2>3, <3>1, EmptySeq
  <2> QED BY <2>1, <2>4 DEF Ended
<1> QED BY <1>3, <1>4

LEMMA SendNextType ==
  ASSUME fileSize \in [Transfers -> Nat]
  PROVE  SendNext \in [Sending -> Sending]
<1>1. ASSUME NEW r \in Sending PROVE SendNext[r] \in Sending
  <2> DEFINE t == Head(r.jobs)
             n == Least(Chunk, fileSize[t] - r.pos[t])
  <2>0. /\ r.jobs \in Seq(Transfers) /\ r.unacked \in Nat /\ r.pos \in [Transfers -> Nat] /\ r.out \in [Transfers -> Seq(Nat)]
        /\ r = [jobs |-> r.jobs, unacked |-> r.unacked, pos |-> r.pos, out |-> r.out]
    BY DEF Sending
  <2>1. CASE r.jobs = <<>> \/ r.unacked >= Window
    BY <2>1 DEF SendNext
  <2>2. CASE ~(r.jobs = <<>> \/ r.unacked >= Window)
    <3>1. t \in Transfers /\ Tail(r.jobs) \in Seq(Transfers)
      BY <2>0, <2>2, SeqSteps
    <3>2. SendNext[r] = IF n > 0 THEN [r EXCEPT !.unacked = @ + n, !.pos[t] = @ + n, !.out[t] = Append(@, n)]
                                 ELSE [r EXCEPT !.jobs = Tail(@), !.out[t] = Append(@, 0)]
      BY <2>2 DEF SendNext
    <3>3. n \in Int /\ Chunk \in Nat /\ r.out[t] \in Seq(Nat) /\ r.pos[t] \in Nat
      BY <2>0, <3>1, TransferAssumption DEF TransferAssumption, Least
    <3> HIDE DEF t, n
    <3>4. CASE n > 0
      <4>1. Append(r.out[t], n) \in Seq(Nat) /\ r.unacked + n \in Nat /\ r.pos[t] + n \in Nat
        BY <2>0, <3>3, <3>4, SeqSteps
      <4>2. SendNext[r] = [jobs |-> r.jobs, unacked |-> r.unacked + n, pos |-> [r.pos EXCEPT ![t] = @ + n],
                           out |-> [r.out EXCEPT ![t] = Append(@, n)]]
        BY <2>0, <3>2, <3>4
      <4>3. [r.pos EXCEPT ![t] = @ + n] \in [Transfers -> Nat] /\ [r.out EXCEPT ![t] = Append(@, n)] \in [Transfers -> Seq(Nat)]
        BY <2>0, <4>1
      <4> QED BY <2>0, <4>1, <4>2, <4>3 DEF Sending
    <3>5. CASE ~(n > 0)
      <4>1. Append(r.out[t], 0) \in Seq(Nat)
        BY <3>3, SeqSteps
      <4>2. SendNext[r] = [jobs |-> Tail(r.jobs), unacked |-> r.unacked, pos |-> r.pos,
                           out |-> [r.out EXCEPT ![t] = Append(@, 0)]]
        BY <2>0, <3>2, <3>5
      <4> QED BY <2>0, <3>1, <4>1, <4>2 DEF Sending
    <3> QED BY <3>4, <3>5
  <2> QED BY <2>1, <2>2
<1> QED BY <1>1 DEF SendNext

\* One turn, said of its fields.
Idle(r, q) == q = r /\ (r.jobs = <<>> \/ r.unacked >= Window)
Sent(r, q, t, n) ==
  /\ r.jobs # <<>> /\ r.unacked < Window /\ t = Head(r.jobs) /\ t \in Transfers
  /\ n \in Nat /\ n > 0 /\ n <= Chunk /\ n <= fileSize[t] - r.pos[t]
  /\ q.jobs = r.jobs /\ q.unacked = r.unacked + n
  /\ q.pos = [r.pos EXCEPT ![t] = r.pos[t] + n] /\ q.out = [r.out EXCEPT ![t] = Append(r.out[t], n)]
Closed(r, q, t) ==
  /\ r.jobs # <<>> /\ r.unacked < Window /\ t = Head(r.jobs) /\ t \in Transfers
  /\ fileSize[t] <= r.pos[t]
  /\ q.jobs = Tail(r.jobs) /\ q.unacked = r.unacked
  /\ q.pos = r.pos /\ q.out = [r.out EXCEPT ![t] = Append(r.out[t], 0)]

LEMMA SendNextIs ==
  ASSUME fileSize \in [Transfers -> Nat], NEW r \in Sending
  PROVE  \/ Idle(r, SendNext[r])
         \/ \E t, n : Sent(r, SendNext[r], t, n)
         \/ \E t : Closed(r, SendNext[r], t)
<1> DEFINE t == Head(r.jobs)
           n == Least(Chunk, fileSize[t] - r.pos[t])
           q == SendNext[r]
<1>0. /\ r.jobs \in Seq(Transfers) /\ r.unacked \in Nat /\ r.pos \in [Transfers -> Nat] /\ r.out \in [Transfers -> Seq(Nat)]
      /\ r = [jobs |-> r.jobs, unacked |-> r.unacked, pos |-> r.pos, out |-> r.out]
  BY DEF Sending
<1>1. CASE r.jobs = <<>> \/ r.unacked >= Window
  BY <1>1 DEF SendNext, Idle
<1>2. CASE ~(r.jobs = <<>> \/ r.unacked >= Window)
  <2>1. t \in Transfers /\ r.jobs # <<>> /\ r.unacked < Window /\ Window \in Nat /\ Chunk \in Nat /\ Chunk > 0
    BY <1>0, <1>2, SeqSteps, TransferAssumption DEF TransferAssumption
  <2>2. q = IF n > 0 THEN [r EXCEPT !.unacked = @ + n, !.pos[t] = @ + n, !.out[t] = Append(@, n)]
                     ELSE [r EXCEPT !.jobs = Tail(@), !.out[t] = Append(@, 0)]
    BY <1>2 DEF SendNext
  <2>3. r.pos[t] \in Nat /\ fileSize[t] \in Nat /\ n \in Int /\ n <= Chunk /\ n <= fileSize[t] - r.pos[t]
        /\ (n <= 0 => fileSize[t] <= r.pos[t])
    BY <1>0, <2>1 DEF Least
  <2> HIDE DEF n, q
  <2>4. CASE n > 0
    <3>1. q = [jobs |-> r.jobs, unacked |-> r.unacked + n, pos |-> [r.pos EXCEPT ![t] = r.pos[t] + n],
               out |-> [r.out EXCEPT ![t] = Append(r.out[t], n)]]
      BY <1>0, <2>2, <2>4
    <3>2. Sent(r, q, t, n)
      <4>1. n \in Nat
        BY <2>3, <2>4
      <4> HIDE DEF t
      <4> QED BY <2>1, <2>3, <2>4, <3>1, <4>1 DEF Sent, t
    <3> QED BY <3>2 DEF q
  <2>5. CASE ~(n > 0)
    <3>1. q = [jobs |-> Tail(r.jobs), unacked |-> r.unacked, pos |-> r.pos, out |-> [r.out EXCEPT ![t] = Append(r.out[t], 0)]]
      BY <1>0, <2>2, <2>5
    <3>2. Closed(r, q, t)
      BY <2>1, <2>3, <2>5, <3>1 DEF Closed
    <3> QED BY <3>2 DEF q
  <2> QED BY <2>4, <2>5
<1> QED BY <1>1, <1>2

\* What was sent to a transfer since position and toTarget, to p and o.
SentTo(t, p, o) ==
  /\ p <= fileSize[t] /\ p + Count(toTarget[t]) = position[t] + Count(o)
  /\ EndsOnce(o) /\ (Ended(o) => p = fileSize[t] \/ (p = position[t] /\ Ended(toTarget[t])))

\* The books of a stream with transfers of J to serve and b unacknowledged; S live.
Books(J, S, b) ==
  {r \in Sending :
    /\ \A i \in 1..Len(r.jobs) : r.jobs[i] \in J /\ ~Ended(r.out[r.jobs[i]])
    /\ IsInjective(r.jobs)
    /\ r.unacked < Window + Chunk
    /\ \A t \in Transfers : SentTo(t, r.pos[t], r.out[t])
    /\ \A t \in Transfers \ J : r.out[t] = toTarget[t] /\ r.pos[t] = position[t]
    /\ Way(S, r.out) + b <= r.unacked + Way(S, toTarget)
    /\ J \subseteq S => Way(S, r.out) + b = r.unacked + Way(S, toTarget)}

\* A todo grows.
Grown(q, r, t, n) == r[t] = Append(q[t], n) /\ \A u \in Transfers \ {t} : r[u] = q[u]
Heavier(S, q, r, t, n) == Way(S, r) <= Way(S, q) + n /\ (t \in S => Way(S, r) = Way(S, q) + n)

LEMMA WayGrows ==
  ASSUME NEW S \in SUBSET Transfers, NEW q \in Queues, NEW r \in Queues, NEW t \in Transfers, NEW n \in Nat, Grown(q, r, t, n)
  PROVE  Heavier(S, q, r, t, n)
<1>0. r[t] = Append(q[t], n) /\ \A u \in Transfers \ {t} : r[u] = q[u]
  BY DEF Grown
<1> SUFFICES Way(S, r) <= Way(S, q) + n /\ (t \in S => Way(S, r) = Way(S, q) + n)
  BY DEF Heavier
<1>1. q[t] \in Seq(Nat) /\ Count(r[t]) = Count(q[t]) + n /\ Count(q[t]) \in Nat
  <2>1. q[t] \in Seq(Nat)
    BY DEF Queues
  <2> QED BY <1>0, <2>1, CountAppend, BytesFinite
<1>3. Way(S, q) \in Nat /\ Way(S, r) \in Nat
  BY WayFinite
<1>4. CASE t \in S
  <2>0. \A u \in S \ {t} : q[u] = r[u]
    BY <1>0
  <2>1. Way(S, r) + Count(q[t]) = Way(S, q) + Count(r[t])
    BY <1>4, <2>0, WayChange
  <2> DEFINE a == Way(S, r)
             c == Way(S, q)
             d == Count(q[t])
             e == Count(r[t])
  <2>2. a + d = c + e /\ e = d + n /\ d \in Nat /\ a \in Nat /\ c \in Nat
    BY <1>1, <1>3, <2>1
  <2> HIDE DEF a, c, d, e
  <2>3. a = c + n
    BY <2>2
  <2>4. a <= c + n
    BY <2>2
  <2> QED BY <2>3, <2>4 DEF a, c
<1>5. CASE t \notin S
  <2>0. \A u \in S : q[u] = r[u]
    BY <1>0, <1>5
  <2>1. Way(S, q) = Way(S, r)
    BY <2>0, WaySame
  <2> QED BY <1>3, <1>5, <2>1
<1> QED BY <1>4, <1>5

LEMMA SendNextKeeps ==
  ASSUME fileSize \in [Transfers -> Nat], position \in [Transfers -> Nat], toTarget \in Queues,
         NEW J \in SUBSET Transfers, NEW S \in SUBSET Transfers, NEW b \in Nat, NEW r \in Books(J, S, b)
  PROVE  SendNext[r] \in Books(J, S, b)
<1> DEFINE q == SendNext[r]
<1>1. /\ r \in Sending /\ r.jobs \in Seq(Transfers) /\ r.unacked \in Nat /\ r.pos \in [Transfers -> Nat]
      /\ r.out \in Queues
  BY DEF Books, Sending, Queues
<1>2. q \in Sending /\ q.out \in Queues
  <2>1. q \in Sending
    BY <1>1, SendNextType
  <2> HIDE DEF q
  <2> QED BY <2>1 DEF Sending, Queues
<1>3. Idle(r, q) \/ (\E t, n : Sent(r, q, t, n)) \/ (\E t : Closed(r, q, t))
  BY <1>1, SendNextIs
<1>4. /\ \A i \in 1..Len(r.jobs) : r.jobs[i] \in J /\ ~Ended(r.out[r.jobs[i]])
      /\ IsInjective(r.jobs) /\ r.unacked < Window + Chunk
      /\ \A t \in Transfers : SentTo(t, r.pos[t], r.out[t])
      /\ \A t \in Transfers \ J : r.out[t] = toTarget[t] /\ r.pos[t] = position[t]
      /\ Way(S, r.out) + b <= r.unacked + Way(S, toTarget)
      /\ J \subseteq S => Way(S, r.out) + b = r.unacked + Way(S, toTarget)
  BY DEF Books
<1>5. Window \in Nat /\ Chunk \in Nat /\ Way(S, r.out) \in Nat /\ Way(S, toTarget) \in Nat
  BY <1>1, WayFinite, TransferAssumption DEF TransferAssumption
<1> HIDE DEF q
<1>6. CASE Idle(r, q)
  BY <1>6 DEF Idle, q
<1>7. ASSUME NEW t, NEW n, Sent(r, q, t, n) PROVE q \in Books(J, S, b)
  <2>0. /\ r.jobs # <<>> /\ r.unacked < Window /\ t = Head(r.jobs) /\ t \in Transfers
        /\ n \in Nat /\ n > 0 /\ n <= Chunk /\ n <= fileSize[t] - r.pos[t]
        /\ q.jobs = r.jobs /\ q.unacked = r.unacked + n
        /\ q.pos = [r.pos EXCEPT ![t] = r.pos[t] + n] /\ q.out = [r.out EXCEPT ![t] = Append(r.out[t], n)]
    BY <1>7 DEF Sent
  <2>1. t \in J /\ ~Ended(r.out[t]) /\ r.out[t] \in Seq(Nat)
    <3>1. 1 \in 1..Len(r.jobs) /\ t = r.jobs[1]
      BY <1>1, <2>0, SeqSteps
    <3>2. t \in J /\ ~Ended(r.out[t])
      BY <1>4, <3>1
    <3>3. r.out[t] \in Seq(Nat)
      <4>1. t \in Transfers /\ r.out \in Queues
        BY <1>1, <2>0
      <4> QED BY <4>1 DEF Queues
    <3> QED BY <3>2, <3>3
  <2>2. /\ q.out[t] = Append(r.out[t], n) /\ q.pos[t] = r.pos[t] + n
        /\ \A u \in Transfers \ {t} : q.out[u] = r.out[u] /\ q.pos[u] = r.pos[u]
    BY <1>1, <2>0 DEF Queues
  <2>3. ~Ended(q.out[t]) /\ EndsOnce(q.out[t]) /\ Count(q.out[t]) = Count(r.out[t]) + n
    BY <2>0, <2>1, <2>2, AppendEnds, CountAppend
  <2>4. \A i \in 1..Len(q.jobs) : q.jobs[i] \in J /\ ~Ended(q.out[q.jobs[i]])
    <3> TAKE i \in 1..Len(q.jobs)
    <3>1. i \in 1..Len(r.jobs) /\ q.jobs[i] = r.jobs[i] /\ r.jobs[i] \in Transfers
      BY <1>1, <2>0, SeqSteps
    <3> QED BY <1>4, <2>2, <2>3, <3>1
  <2>5. \A u \in Transfers : SentTo(u, q.pos[u], q.out[u])
    <3> TAKE u \in Transfers
    <3>1. CASE u # t
      BY <1>4, <2>2, <3>1
    <3>2. CASE u = t
      <4>1. r.pos[t] + Count(toTarget[t]) = position[t] + Count(r.out[t])
        BY <1>4, <2>0 DEF SentTo
      <4>2. /\ r.pos[t] \in Nat /\ position[t] \in Nat /\ fileSize[t] \in Nat
            /\ Count(toTarget[t]) \in Nat /\ Count(r.out[t]) \in Nat
        BY <1>1, <2>0, <2>1, BytesFinite DEF Queues
      <4>3. q.pos[t] + Count(toTarget[t]) = position[t] + Count(q.out[t]) /\ q.pos[t] <= fileSize[t]
        <5>1. n \in Nat /\ n <= fileSize[t] - r.pos[t]
          BY <2>0
        <5>2. q.pos[t] = r.pos[t] + n /\ Count(q.out[t]) = Count(r.out[t]) + n
          BY <2>2, <2>3
        <5> QED BY <4>1, <4>2, <5>1, <5>2
      <4> QED BY <2>3, <3>2, <4>3 DEF SentTo
    <3> QED BY <3>1, <3>2
  <2>6. \A u \in Transfers \ J : q.out[u] = toTarget[u] /\ q.pos[u] = position[u]
    BY <1>4, <2>1, <2>2
  <2>7. Way(S, q.out) <= Way(S, r.out) + n /\ (t \in S => Way(S, q.out) = Way(S, r.out) + n) /\ Way(S, q.out) \in Nat
    <3>1. t \in Transfers /\ n \in Nat
      BY <2>0
    <3>4. q.out[t] = Append(r.out[t], n) /\ \A u \in Transfers \ {t} : q.out[u] = r.out[u]
      BY <2>2
    <3>5. r.out \in Queues /\ q.out \in Queues
      BY <1>1, <1>2
    <3>6. Way(S, q.out) \in Nat
      BY <3>5, WayFinite
    <3> DEFINE ro == r.out
               qo == q.out
    <3> HIDE DEF ro, qo
    <3>7. Heavier(S, ro, qo, t, n)
      <4>1. Grown(ro, qo, t, n) /\ ro \in Queues /\ qo \in Queues
        BY <3>4, <3>5 DEF Grown, ro, qo
      <4> QED BY <3>1, <4>1, WayGrows
    <3> QED BY <3>6, <3>7 DEF Heavier, ro, qo
  <2>8. Way(S, q.out) + b <= q.unacked + Way(S, toTarget) /\ q.unacked < Window + Chunk
    <3>1. Way(S, r.out) + b <= r.unacked + Way(S, toTarget) /\ r.unacked \in Nat
      BY <1>1, <1>4
    <3>2. r.unacked < Window /\ q.unacked = r.unacked + n
      BY <1>1, <2>0
    <3>3. n \in Nat /\ n <= Chunk
      BY <1>5, <2>0
    <3> QED BY <1>5, <2>7, <3>1, <3>2, <3>3
  <2>9. J \subseteq S => Way(S, q.out) + b = q.unacked + Way(S, toTarget)
    <3>1. J \subseteq S => Way(S, r.out) + b = r.unacked + Way(S, toTarget)
      BY <1>4
    <3>2. q.unacked = r.unacked + n /\ n \in Nat /\ r.unacked \in Nat
      BY <1>1, <2>0
    <3>3. J \subseteq S => t \in S
      BY <2>1
    <3> QED BY <1>5, <2>7, <3>1, <3>2, <3>3
  <2>10. IsInjective(q.jobs)
    BY <1>4, <2>0
  <2> QED BY <1>2, <2>4, <2>5, <2>6, <2>8, <2>9, <2>10 DEF Books
<1>8. ASSUME NEW t, Closed(r, q, t) PROVE q \in Books(J, S, b)
  <2>0. /\ r.jobs # <<>> /\ r.unacked < Window /\ t = Head(r.jobs) /\ t \in Transfers
        /\ fileSize[t] <= r.pos[t]
        /\ q.jobs = Tail(r.jobs) /\ q.unacked = r.unacked
        /\ q.pos = r.pos /\ q.out = [r.out EXCEPT ![t] = Append(r.out[t], 0)]
    BY <1>8 DEF Closed
  <2>a. Len(r.jobs) \in Nat /\ Len(r.jobs) > 0 /\ t = r.jobs[1] /\ Len(q.jobs) = Len(r.jobs) - 1 /\ q.jobs \in Seq(Transfers)
        /\ \A i \in 1..Len(q.jobs) : q.jobs[i] = r.jobs[i + 1]
    BY <1>1, <2>0, SeqSteps
  <2>b. \A i \in 1..Len(q.jobs) : i + 1 \in 1..Len(r.jobs) /\ i + 1 # 1
    <3> DEFINE k == Len(r.jobs)
               m == Len(q.jobs)
    <3>1. k \in Nat /\ m = k - 1
      BY <2>a
    <3> HIDE DEF k, m
    <3>2. \A i \in 1..m : i + 1 \in 1..k /\ i + 1 # 1
      BY <3>1
    <3> QED BY <3>2 DEF k, m
  <2>1. t \in J /\ ~Ended(r.out[t]) /\ r.out[t] \in Seq(Nat)
    <3>1. 1 \in 1..Len(r.jobs)
      BY <2>a
    <3> QED BY <1>1, <1>4, <2>0, <2>a, <3>1 DEF Queues
  <2>c. \A i, j \in 1..Len(r.jobs) : r.jobs[i] = r.jobs[j] => i = j
    <3>1. DOMAIN r.jobs = 1..Len(r.jobs)
      BY <1>1, SeqSteps
    <3> QED BY <1>4, <3>1 DEF IsInjective
  <2>2. /\ q.out[t] = Append(r.out[t], 0) /\ \A u \in Transfers : q.pos[u] = r.pos[u]
        /\ \A u \in Transfers \ {t} : q.out[u] = r.out[u]
    BY <1>1, <2>0 DEF Queues
  <2>3. EndsOnce(q.out[t]) /\ Count(q.out[t]) = Count(r.out[t]) + 0
    <3>1. 0 \in Nat
      OBVIOUS
    <3> QED BY <2>1, <2>2, <3>1, AppendEnds, CountAppend
  <2>4. \A i \in 1..Len(q.jobs) : q.jobs[i] \in J /\ ~Ended(q.out[q.jobs[i]])
    <3> TAKE i \in 1..Len(q.jobs)
    <3>1. i + 1 \in 1..Len(r.jobs) /\ q.jobs[i] = r.jobs[i + 1] /\ q.jobs[i] # t /\ q.jobs[i] \in Transfers
      <4>1. 1 \in 1..Len(r.jobs)
        BY <2>a
      <4> QED BY <2>a, <2>b, <2>c, <4>1, SeqSteps
    <3> QED BY <1>4, <2>2, <3>1
  <2>5. \A u \in Transfers : SentTo(u, q.pos[u], q.out[u])
    <3> TAKE u \in Transfers
    <3>1. CASE u # t
      BY <1>4, <2>2, <3>1
    <3>2. CASE u = t
      <4>1. r.pos[t] <= fileSize[t] /\ r.pos[t] + Count(toTarget[t]) = position[t] + Count(r.out[t])
        BY <1>4, <2>0 DEF SentTo
      <4>2. r.pos[t] \in Nat /\ fileSize[t] \in Nat /\ Count(r.out[t]) \in Nat
        BY <1>1, <2>0, <2>1, BytesFinite
      <4>3. q.pos[t] = fileSize[t] /\ q.pos[t] <= fileSize[t] /\ Count(q.out[t]) = Count(r.out[t])
        BY <2>0, <2>2, <2>3, <4>1, <4>2
      <4> QED BY <2>2, <2>3, <3>2, <4>1, <4>3 DEF SentTo
    <3> QED BY <3>1, <3>2
  <2>6. \A u \in Transfers \ J : q.out[u] = toTarget[u] /\ q.pos[u] = position[u]
    BY <1>4, <2>1, <2>2
  <2>7. Way(S, q.out) <= Way(S, r.out) + 0 /\ (t \in S => Way(S, q.out) = Way(S, r.out) + 0) /\ Way(S, q.out) \in Nat
    <3>1. 0 \in Nat
      OBVIOUS
    <3>2. t \in Transfers
      BY <2>0
    <3>4. q.out[t] = Append(r.out[t], 0) /\ \A u \in Transfers \ {t} : q.out[u] = r.out[u]
      BY <2>2
    <3>5. r.out \in Queues /\ q.out \in Queues
      BY <1>1, <1>2
    <3>6. Way(S, q.out) \in Nat
      BY <3>5, WayFinite
    <3> DEFINE ro == r.out
               qo == q.out
    <3> HIDE DEF ro, qo
    <3>7. Heavier(S, ro, qo, t, 0)
      <4>1. Grown(ro, qo, t, 0) /\ ro \in Queues /\ qo \in Queues
        BY <3>4, <3>5 DEF Grown, ro, qo
      <4> QED BY <3>1, <3>2, <4>1, WayGrows
    <3> QED BY <3>6, <3>7 DEF Heavier, ro, qo
  <2>8. Way(S, q.out) + b <= q.unacked + Way(S, toTarget) /\ q.unacked < Window + Chunk
    <3>1. Way(S, r.out) + b <= r.unacked + Way(S, toTarget) /\ r.unacked \in Nat
      BY <1>1, <1>4
    <3>2. r.unacked < Window /\ q.unacked = r.unacked + 0
      BY <1>1, <2>0
    <3>3. 0 \in Nat /\ 0 <= Chunk
      BY <1>5, <2>0
    <3> QED BY <1>5, <2>7, <3>1, <3>2, <3>3
  <2>9. J \subseteq S => Way(S, q.out) + b = q.unacked + Way(S, toTarget)
    <3>1. J \subseteq S => Way(S, r.out) + b = r.unacked + Way(S, toTarget)
      BY <1>4
    <3>2. q.unacked = r.unacked + 0 /\ 0 \in Nat /\ r.unacked \in Nat
      BY <1>1, <2>0
    <3>3. J \subseteq S => t \in S
      BY <2>1
    <3> QED BY <1>5, <2>7, <3>1, <3>2, <3>3
  <2>10. IsInjective(q.jobs)
    <3>1. DOMAIN q.jobs = 1..Len(q.jobs)
      BY <2>a, SeqSteps
    <3>2. \A i, j \in 1..Len(q.jobs) : q.jobs[i] = q.jobs[j] => i = j
      <4> TAKE i, j \in 1..Len(q.jobs)
      <4>1. q.jobs[i] = r.jobs[i + 1] /\ q.jobs[j] = r.jobs[j + 1] /\ i + 1 \in 1..Len(r.jobs) /\ j + 1 \in 1..Len(r.jobs)
        BY <2>a, <2>b
      <4>2. q.jobs[i] = q.jobs[j] => i + 1 = j + 1
        BY <2>c, <4>1
      <4> QED BY <4>2
    <3> QED BY <3>1, <3>2 DEF IsInjective
  <2> QED BY <1>2, <2>4, <2>5, <2>6, <2>8, <2>9, <2>10 DEF Books
<1> QED BY <1>3, <1>6, <1>7, <1>8 DEF q

LEMMA ScheduleKeeps ==
  ASSUME fileSize \in [Transfers -> Nat], position \in [Transfers -> Nat], toTarget \in Queues,
         NEW J \in SUBSET Transfers, NEW S \in SUBSET Transfers, NEW b \in Nat, NEW s \in Books(J, S, b)
  PROVE  Schedule(s) \in Books(J, S, b)
<1> DEFINE B == Books(J, S, b)
           n == Turns
           F == [x \in (1..n) \X B |-> SendNext[x[2]]]
           After(f) == f = [k \in 0..n |-> IF k = 0 THEN s ELSE SendNext[f[k - 1]]]
           after == CHOOSE f : After(f)
<1>1. n \in Nat
  BY TransferAssumption, FS_CardinalityType DEF TransferAssumption, Turns
<1>2. \A x \in B : SendNext[x] \in B
  BY SendNextKeeps
<1>3. Schedule(s) = after[n]
  BY DEF Schedule
<1> HIDE DEF B, n
<1>4. F \in [(1..n) \X B -> B]
  BY <1>2
<1>5. s \in B
  BY DEF B
<1>a. PICK h \in [0..n -> B] : IsLoop(h, F, s, n)
  <2> HIDE DEF F
  <2> QED BY <1>1, <1>4, <1>5, StepsIn
<1>6. h[0] = s /\ \A k \in 1..n : h[k] = F[<<k, h[k - 1]>>]
  BY <1>a DEF IsLoop
<1>7. After(h)
  <2>1. ASSUME NEW k \in 0..n PROVE h[k] = IF k = 0 THEN s ELSE SendNext[h[k - 1]]
    <3>1. CASE k = 0
      BY <1>6, <3>1
    <3>2. CASE k # 0
      <4>1. k \in 1..n /\ k - 1 \in 0..n
        BY <1>1, <3>2
      <4>2. h[k - 1] \in B /\ h[k] = F[<<k, h[k - 1]>>]
        BY <1>6, <4>1
      <4> QED BY <3>2, <4>1, <4>2
    <3> QED BY <3>1, <3>2
  <2> QED BY <1>6, <2>1
<1>8. After(after)
  <2> HIDE DEF After
  <2> QED BY <1>7
<1> HIDE DEF after
<1>9. after[0] = s /\ \A k \in 1..n : after[k] = SendNext[after[k - 1]]
  <2>1. 0 \in 0..n /\ \A k \in 1..n : k \in 0..n /\ k # 0
    BY <1>1
  <2> QED BY <1>8, <2>1
<1>10. \A k \in 1..n : after[k - 1] \in B => after[k] \in B
  BY <1>2, <1>9
<1>11. \A k \in 0..n : after[k] \in B
  <2> HIDE DEF After, F
  <2> QED BY <1>1, <1>5, <1>9, <1>10, UpTo
<1> QED BY <1>1, <1>3, <1>11 DEF B

-----------------------------------------------------------------------------
\* The invariant.
TransferFields ==
  /\ fileSize \in [Transfers -> Nat] /\ promised \in [Transfers -> Nat] /\ position \in [Transfers -> Nat]
  /\ got \in [Transfers -> Nat] /\ jobs \in [TransferStreams -> Seq(Transfers)]
  /\ unacked \in [TransferStreams -> Nat] /\ toTarget \in Queues /\ acks \in Queues
  /\ transfer \in [Transfers -> {"idle", "asked", "receiving", "ok", "interrupted", "refused", "dead"}]
  /\ changed \subseteq Transfers /\ serving \in BOOLEAN

Sent0 == {"idle", "asked", "receiving"}

\* What was read of a file has come or is on its way, and ends where the file does.
Served(t) ==
  /\ position[t] <= fileSize[t] /\ fileSize[t] <= MaxSize
  /\ got[t] + Count(toTarget[t]) <= position[t]
  /\ transfer[t] \in Sent0 => got[t] + Count(toTarget[t]) = position[t]
  /\ transfer[t] \in {"idle", "asked"} => toTarget[t] = <<>>
  /\ EndsOnce(toTarget[t])
  /\ serving /\ t \notin changed => /\ Ended(toTarget[t]) => position[t] = fileSize[t]
                                    /\ transfer[t] = "receiving" => promised[t] = fileSize[t]
  /\ transfer[t] = "interrupted" => t \in changed \/ ~serving

\* The jobs of a stream are transfers that were not ended, each once.
Sendable(s) == {t \in Behind(s) : transfer[t] \in {"receiving", "dead"}}
QueuedOnce(s) ==
  /\ \A i \in 1..Len(jobs[s]) : jobs[s][i] \in Sendable(s) /\ ~Ended(toTarget[jobs[s][i]])
  /\ IsInjective(jobs[s])
  /\ ~serving => jobs[s] = <<>>

Alive(s) == {t \in Behind(s) : ~Dead(t)}
Balanced(s) ==
  /\ unacked[s] < Window + Chunk
  /\ Way(Alive(s), toTarget) < Window + Chunk
  /\ serving => Way(Alive(s), toTarget) + Way(Alive(s), acks) <= unacked[s]
  /\ serving /\ Behind(s) \subseteq Alive(s) => Way(Alive(s), toTarget) + Way(Alive(s), acks) = unacked[s]

TransferInv ==
  /\ TransferFields
  /\ \A t \in Transfers : Served(t)
  /\ \A s \in TransferStreams : QueuedOnce(s) /\ Balanced(s)

\* What a run of the loop does, for the transfers of J behind s, with b unacknowledged before.
Pumped(s, J, b) ==
  /\ jobs' \in [TransferStreams -> Seq(Transfers)] /\ unacked' \in [TransferStreams -> Nat]
  /\ position' \in [Transfers -> Nat] /\ toTarget' \in Queues
  /\ \A r \in TransferStreams \ {s} : jobs'[r] = jobs[r] /\ unacked'[r] = unacked[r]
  /\ \A t \in Transfers : /\ Dead(t) => toTarget'[t] = <<>>
                          /\ ~Dead(t) => SentTo(t, position'[t], toTarget'[t])
                          /\ ~Dead(t) /\ t \notin J => toTarget'[t] = toTarget[t]
                          /\ position'[t] <= fileSize[t] /\ position[t] <= position'[t] + Count(toTarget[t])
                          /\ t \notin J => position'[t] = position[t]
  /\ \A i \in 1..Len(jobs'[s]) : jobs'[s][i] \in J /\ ~Ended(toTarget'[jobs'[s][i]])
  /\ IsInjective(jobs'[s])
  /\ unacked'[s] < Window + Chunk
  /\ Way(Alive(s), toTarget') + b <= unacked'[s] + Way(Alive(s), toTarget)
  /\ J \subseteq Alive(s) => Way(Alive(s), toTarget') + b = unacked'[s] + Way(Alive(s), toTarget)

LEMMA PumpDoes ==
  ASSUME TransferFields, \A t \in Transfers : Served(t), NEW s \in TransferStreams, NEW todo \in Seq(Transfers), NEW b \in Nat,
         b < Window + Chunk, NEW J \in SUBSET Transfers, \A i \in 1..Len(todo) : todo[i] \in J /\ ~Ended(toTarget[todo[i]]),
         IsInjective(todo), Pump(s, todo, b)
  PROVE  Pumped(s, J, b)
<1> DEFINE r0 == [jobs |-> todo, unacked |-> b, pos |-> position, out |-> toTarget]
           r == Schedule(r0)
           S == Alive(s)
<1>1. /\ fileSize \in [Transfers -> Nat] /\ position \in [Transfers -> Nat] /\ toTarget \in Queues
      /\ jobs \in [TransferStreams -> Seq(Transfers)] /\ unacked \in [TransferStreams -> Nat]
  BY DEF TransferFields
<1>2. S \in SUBSET Transfers /\ \A t \in S : ~Dead(t)
  BY DEF Alive, Behind
<1>3. \A t \in Transfers : Count(toTarget[t]) \in Nat
  BY <1>1, BytesFinite DEF Queues
<1>4. r0 \in Sending
  BY <1>1 DEF Sending, Queues
<1>5. r0 \in Books(J, S, b)
  <2>1. r0.jobs = todo /\ r0.unacked = b /\ r0.pos = position /\ r0.out = toTarget
    OBVIOUS
  <2> HIDE DEF r0, S
  <2>2. \A t \in Transfers : SentTo(t, r0.pos[t], r0.out[t])
    <3> TAKE t \in Transfers
    <3>1. position[t] <= fileSize[t] /\ EndsOnce(toTarget[t])
      BY DEF Served
    <3> QED BY <2>1, <3>1 DEF SentTo
  <2>3. Way(S, toTarget) \in Nat
    BY <1>1, <1>2, WayFinite
  <2>4. Way(S, r0.out) + b <= r0.unacked + Way(S, toTarget) /\ Way(S, r0.out) + b = r0.unacked + Way(S, toTarget)
    <3> DEFINE w == Way(S, toTarget)
    <3>1. w \in Nat
      BY <2>3
    <3> HIDE DEF w
    <3>2. w + b <= b + w /\ w + b = b + w
      BY <3>1
    <3> QED BY <2>1, <3>2 DEF w
  <2>5. \A i \in 1..Len(r0.jobs) : r0.jobs[i] \in J /\ ~Ended(r0.out[r0.jobs[i]])
    BY <2>1
  <2>6. \A t \in Transfers \ J : r0.out[t] = toTarget[t] /\ r0.pos[t] = position[t]
    BY <2>1
  <2>7. IsInjective(r0.jobs) /\ r0.unacked < Window + Chunk
    BY <2>1
  <2> QED BY <1>4, <2>2, <2>4, <2>5, <2>6, <2>7 DEF Books
<1>6. r \in Books(J, S, b)
  <2> HIDE DEF r0, S
  <2> QED BY <1>1, <1>2, <1>5, ScheduleKeeps
<1>7. /\ r.jobs \in Seq(Transfers) /\ r.unacked \in Nat /\ r.pos \in [Transfers -> Nat] /\ r.out \in Queues
      /\ \A i \in 1..Len(r.jobs) : r.jobs[i] \in J /\ ~Ended(r.out[r.jobs[i]])
      /\ IsInjective(r.jobs) /\ r.unacked < Window + Chunk
      /\ \A t \in Transfers : SentTo(t, r.pos[t], r.out[t])
      /\ \A t \in Transfers \ J : r.out[t] = toTarget[t] /\ r.pos[t] = position[t]
      /\ Way(S, r.out) + b <= r.unacked + Way(S, toTarget)
      /\ J \subseteq S => Way(S, r.out) + b = r.unacked + Way(S, toTarget)
  <2> HIDE DEF r, S
  <2> QED BY <1>6 DEF Books, Sending, Queues
<1>8. /\ jobs' = [jobs EXCEPT ![s] = r.jobs] /\ unacked' = [unacked EXCEPT ![s] = r.unacked]
      /\ position' = r.pos /\ toTarget' = [t \in Transfers |-> IF Dead(t) THEN <<>> ELSE r.out[t]]
  BY DEF Pump
<1> HIDE DEF r
<1>9. jobs' \in [TransferStreams -> Seq(Transfers)] /\ unacked' \in [TransferStreams -> Nat]
      /\ jobs'[s] = r.jobs /\ unacked'[s] = r.unacked
      /\ \A u \in TransferStreams \ {s} : jobs'[u] = jobs[u] /\ unacked'[u] = unacked[u]
  BY <1>1, <1>7, <1>8
<1>10. /\ toTarget' \in Queues
       /\ \A t \in Transfers : (Dead(t) => toTarget'[t] = <<>>) /\ (~Dead(t) => toTarget'[t] = r.out[t])
  <2>1. <<>> \in Seq(Nat)
    BY EmptySeq
  <2> QED BY <1>7, <1>8, <2>1 DEF Queues
<1>11. ASSUME NEW t \in Transfers
       PROVE  r.pos[t] <= fileSize[t] /\ position[t] <= r.pos[t] + Count(toTarget[t])
  <2>1. r.pos[t] <= fileSize[t] /\ r.pos[t] + Count(toTarget[t]) = position[t] + Count(r.out[t])
    BY <1>7 DEF SentTo
  <2>2. Count(r.out[t]) \in Nat /\ Count(toTarget[t]) \in Nat /\ r.pos[t] \in Nat /\ position[t] \in Nat
    BY <1>1, <1>3, <1>7, BytesFinite DEF Queues
  <2> QED BY <2>1, <2>2
<1>12. \A i \in 1..Len(jobs'[s]) : jobs'[s][i] \in J /\ ~Ended(toTarget'[jobs'[s][i]])
  <2>1. ~Ended(<<>>)
    BY DEF Ended
  <2> QED BY <1>7, <1>9, <1>10, <2>1
<1>13. Way(S, toTarget') = Way(S, r.out)
  <2>1. \A t \in S : toTarget'[t] = r.out[t]
    BY <1>2, <1>10
  <2> HIDE DEF S
  <2> QED BY <1>2, <1>7, <1>10, <2>1, WaySame
<1>14. Way(S, toTarget') + b <= unacked'[s] + Way(S, toTarget)
  BY <1>7, <1>9, <1>13
<1>15. J \subseteq S => Way(S, toTarget') + b = unacked'[s] + Way(S, toTarget)
  BY <1>7, <1>9, <1>13
<1>16. \A t \in Transfers : /\ Dead(t) => toTarget'[t] = <<>>
                            /\ ~Dead(t) => SentTo(t, position'[t], toTarget'[t])
                            /\ ~Dead(t) /\ t \notin J => toTarget'[t] = toTarget[t]
                            /\ position'[t] <= fileSize[t] /\ position[t] <= position'[t] + Count(toTarget[t])
                            /\ t \notin J => position'[t] = position[t]
  BY <1>7, <1>8, <1>10, <1>11
<1>17. position' \in [Transfers -> Nat] /\ IsInjective(jobs'[s]) /\ unacked'[s] < Window + Chunk
  BY <1>7, <1>8, <1>9
<1> QED BY <1>9, <1>10, <1>12, <1>14, <1>15, <1>16, <1>17 DEF Pumped

LEMMA Numbers ==
  ASSUME TransferInv
  PROVE  /\ \A t \in Transfers : /\ fileSize[t] \in Nat /\ promised[t] \in Nat /\ position[t] \in Nat /\ got[t] \in Nat
                                 /\ toTarget[t] \in Seq(Nat) /\ acks[t] \in Seq(Nat)
                                 /\ Count(toTarget[t]) \in Nat /\ Count(acks[t]) \in Nat
         /\ \A s \in TransferStreams : /\ jobs[s] \in Seq(Transfers) /\ unacked[s] \in Nat
                                       /\ Alive(s) \in SUBSET Transfers /\ Alive(s) \subseteq Behind(s)
                                       /\ Way(Alive(s), toTarget) \in Nat /\ Way(Alive(s), acks) \in Nat
         /\ Window \in Nat /\ Chunk \in Nat /\ Window > 0 /\ Chunk > 0
<1>0. TransferFields
  BY DEF TransferInv
<1>1. \A t \in Transfers : /\ fileSize[t] \in Nat /\ promised[t] \in Nat /\ position[t] \in Nat /\ got[t] \in Nat
                           /\ toTarget[t] \in Seq(Nat) /\ acks[t] \in Seq(Nat)
  BY <1>0 DEF TransferFields, Queues
<1>2. \A t \in Transfers : Count(toTarget[t]) \in Nat /\ Count(acks[t]) \in Nat
  BY <1>1, BytesFinite
<1>3. \A s \in TransferStreams : /\ jobs[s] \in Seq(Transfers) /\ unacked[s] \in Nat
                                 /\ Alive(s) \in SUBSET Transfers /\ Alive(s) \subseteq Behind(s)
  BY <1>0 DEF TransferFields, Alive, Behind
<1>4. \A s \in TransferStreams : Way(Alive(s), toTarget) \in Nat /\ Way(Alive(s), acks) \in Nat
  <2>1. toTarget \in Queues /\ acks \in Queues
    BY <1>0 DEF TransferFields
  <2> QED BY <1>3, <2>1, WayFinite
<1> QED BY <1>1, <1>2, <1>3, <1>4, TransferAssumption DEF TransferAssumption

LEMMA WayNothing ==
  ASSUME NEW S \in SUBSET Transfers, NEW q \in Queues, \A t \in S : q[t] = <<>>
  PROVE  Way(S, q) = 0
<1>1. Under(S, q) = {}
  BY DEF Under, BytesOf
<1> QED BY <1>1, FS_EmptySet DEF Way

LEMMA TransferInitially == TransferInit => TransferInv
<1> SUFFICES ASSUME TransferInit PROVE TransferInv
  OBVIOUS
<1>1. Window \in Nat /\ Chunk \in Nat /\ Window > 0 /\ Chunk > 0 /\ MaxSize \in Nat
  BY TransferAssumption DEF TransferAssumption
<1>2. <<>> \in Seq(Nat) /\ <<>> \in Seq(Transfers) /\ Len(<<>>) = 0
  BY EmptySeq
<1>3. toTarget \in Queues /\ acks \in Queues /\ \A t \in Transfers : toTarget[t] = <<>> /\ acks[t] = <<>>
  BY <1>2 DEF TransferInit, Queues
<1>4. TransferFields
  BY <1>1, <1>2, <1>3 DEF TransferInit, TransferFields
<1>5. ASSUME NEW t \in Transfers PROVE Served(t)
  <2>1. Count(<<>>) = 0 /\ EndsOnce(<<>>) /\ ~Ended(<<>>)
    BY NoBytes DEF EndsOnce, Ended
  <2>2. /\ toTarget[t] = <<>> /\ position[t] = 0 /\ got[t] = 0 /\ transfer[t] = "idle" /\ fileSize[t] \in {0, MaxSize}
    BY <1>3 DEF TransferInit
  <2> QED BY <1>1, <2>1, <2>2 DEF Served, Sent0
<1>6. ASSUME NEW s \in TransferStreams PROVE QueuedOnce(s) /\ Balanced(s)
  <2>1. jobs[s] = <<>> /\ unacked[s] = 0 /\ serving = TRUE
    BY DEF TransferInit
  <2>2. IsInjective(<<>>)
    BY DEF IsInjective
  <2>3. QueuedOnce(s)
    BY <1>2, <2>1, <2>2 DEF QueuedOnce
  <2>4. Alive(s) \in SUBSET Transfers
    BY DEF Alive, Behind
  <2>5. Way(Alive(s), toTarget) = 0 /\ Way(Alive(s), acks) = 0
    BY <1>3, <2>4, WayNothing
  <2> QED BY <1>1, <2>1, <2>3, <2>5 DEF Balanced
<1> QED BY <1>4, <1>5, <1>6 DEF TransferInv

LEMMA FetchKeeps ==
  ASSUME TransferInv, NEW t \in Transfers, Fetch(t)
  PROVE  TransferInv'
<1>1. /\ transfer[t] = "idle" /\ transfer' = [transfer EXCEPT ![t] = "asked"]
      /\ UNCHANGED <<fileSize, promised, position, jobs, unacked, toTarget, acks, got, changed, serving>>
  BY DEF Fetch
<1>2. TransferFields'
  BY <1>1 DEF TransferInv, TransferFields
<1>3. transfer'[t] = "asked" /\ \A u \in Transfers \ {t} : transfer'[u] = transfer[u]
  BY <1>1 DEF TransferInv, TransferFields
<1>4. ASSUME NEW u \in Transfers PROVE Served(u)'
  <2>1. Served(u)
    BY DEF TransferInv
  <2>2. u = t \/ transfer'[u] = transfer[u]
    BY <1>3
  <2> QED BY <1>1, <1>3, <2>1, <2>2 DEF Served, Sent0
<1>5. \A s \in TransferStreams : Sendable(s)' = Sendable(s) /\ Alive(s)' = Alive(s)
  BY <1>1, <1>3 DEF Sendable, Alive, Dead, Behind
<1>6. ASSUME NEW s \in TransferStreams PROVE QueuedOnce(s)' /\ Balanced(s)'
  <2>1. QueuedOnce(s) /\ Balanced(s)
    BY DEF TransferInv
  <2> QED BY <1>1, <1>5, <2>1 DEF QueuedOnce, Balanced
<1> QED BY <1>2, <1>4, <1>6 DEF TransferInv

LEMMA FileChangesKeeps ==
  ASSUME TransferInv, NEW t \in Transfers, NEW n \in 0..MaxSize, FileChanges(t, n)
  PROVE  TransferInv'
<1>1. /\ transfer[t] = "receiving" /\ t \notin changed /\ n \in position[t]..MaxSize
      /\ fileSize' = [fileSize EXCEPT ![t] = n] /\ changed' = changed \cup {t}
      /\ UNCHANGED <<promised, position, jobs, unacked, toTarget, acks, got, transfer, serving>>
  BY DEF FileChanges
<1>2. TransferFields'
  <2>1. n \in Nat
    BY TransferAssumption DEF TransferAssumption
  <2> QED BY <1>1, <2>1 DEF TransferInv, TransferFields
<1>3. fileSize'[t] = n /\ \A u \in Transfers \ {t} : fileSize'[u] = fileSize[u]
  BY <1>1 DEF TransferInv, TransferFields
<1>4. ASSUME NEW u \in Transfers PROVE Served(u)'
  <2>1. Served(u)
    BY DEF TransferInv
  <2>2. CASE u # t
    BY <1>1, <1>3, <2>1, <2>2 DEF Served
  <2>3. CASE u = t
    <3>1. position[t] <= n /\ n <= MaxSize
      BY <1>1, Numbers, TransferAssumption DEF TransferAssumption
    <3> QED BY <1>1, <1>3, <2>1, <2>3, <3>1 DEF Served
  <2> QED BY <2>2, <2>3
<1>5. \A s \in TransferStreams : Sendable(s)' = Sendable(s) /\ Alive(s)' = Alive(s)
  BY <1>1 DEF Sendable, Alive, Dead, Behind
<1>6. ASSUME NEW s \in TransferStreams PROVE QueuedOnce(s)' /\ Balanced(s)'
  <2>1. QueuedOnce(s) /\ Balanced(s)
    BY DEF TransferInv
  <2> QED BY <1>1, <1>5, <2>1 DEF QueuedOnce, Balanced
<1> QED BY <1>2, <1>4, <1>6 DEF TransferInv

LEMMA ContextDiesKeeps ==
  ASSUME TransferInv, NEW t \in Transfers, ContextDies(t)
  PROVE  TransferInv'
<1>1. /\ transfer[t] = "receiving" /\ transfer' = [transfer EXCEPT ![t] = "dead"]
      /\ toTarget' = [toTarget EXCEPT ![t] = <<>>]
      /\ UNCHANGED <<fileSize, promised, position, jobs, unacked, acks, got, changed, serving>>
  BY DEF ContextDies
<1>2. TransferFields'
  <2>1. <<>> \in Seq(Nat)
    BY EmptySeq
  <2> QED BY <1>1, <2>1 DEF TransferInv, TransferFields, Queues
<1>3. /\ transfer'[t] = "dead" /\ toTarget'[t] = <<>>
      /\ \A u \in Transfers \ {t} : transfer'[u] = transfer[u] /\ toTarget'[u] = toTarget[u]
  BY <1>1 DEF TransferInv, TransferFields, Queues
<1>4. ASSUME NEW u \in Transfers PROVE Served(u)'
  <2>1. Served(u)
    BY DEF TransferInv
  <2>2. CASE u # t
    BY <1>1, <1>3, <2>1, <2>2 DEF Served, Sent0
  <2>3. CASE u = t
    <3>1. Count(toTarget[t]) \in Nat /\ got[t] \in Nat /\ position[t] \in Nat /\ got[t] + Count(toTarget[t]) <= position[t]
      BY <2>1, <2>3, Numbers DEF Served
    <3>2. Count(toTarget'[t]) = 0 /\ EndsOnce(toTarget'[t]) /\ ~Ended(toTarget'[t])
      BY <1>3, NoBytes DEF EndsOnce, Ended
    <3>3. got[t] + 0 <= position[t]
      BY <3>1
    <3> QED BY <1>1, <1>3, <2>1, <2>3, <3>2, <3>3 DEF Served, Sent0
  <2> QED BY <2>2, <2>3
<1>5. \A s \in TransferStreams : Sendable(s)' = Sendable(s) /\ Alive(s)' = Alive(s) \ {t}
  BY <1>1, <1>3 DEF Sendable, Alive, Dead, Behind
<1>6. ASSUME NEW s \in TransferStreams PROVE QueuedOnce(s)' /\ Balanced(s)'
  <2>1. QueuedOnce(s) /\ Balanced(s)
    BY DEF TransferInv
  <2>2. QueuedOnce(s)'
    <3>1. ~Ended(<<>>)
      BY DEF Ended
    <3>2. \A i \in 1..Len(jobs[s]) : jobs[s][i] \in Transfers
      BY Numbers
    <3> QED BY <1>1, <1>3, <1>5, <2>1, <3>1, <3>2 DEF QueuedOnce
  <2> DEFINE A == Alive(s)
             A1 == A \ {t}
  <2>3. toTarget \in Queues /\ acks \in Queues /\ toTarget' \in Queues /\ A \in SUBSET Transfers /\ A1 \in SUBSET Transfers
    BY <1>2, Numbers DEF TransferInv, TransferFields
  <2>4. /\ Way(A1, toTarget') = Way(A1, toTarget) /\ Way(A1, toTarget) \in Nat /\ Way(A1, acks) \in Nat
        /\ Way(A, toTarget) \in Nat /\ Way(A, acks) \in Nat
    <3>1. \A u \in A1 : toTarget'[u] = toTarget[u]
      BY <1>3, <2>3
    <3> HIDE DEF A1, A
    <3> QED BY <2>3, <3>1, WaySame, WayFinite
  <2>5. Way(A1, toTarget) <= Way(A, toTarget) /\ Way(A1, acks) <= Way(A, acks)
    <3>1. CASE t \in A
      <4>1. Way(A, toTarget) = Way(A1, toTarget) + Count(toTarget[t]) /\ Way(A, acks) = Way(A1, acks) + Count(acks[t])
        <5> HIDE DEF A
        <5> QED BY <2>3, <3>1, WayWithout
      <4>2. Count(toTarget[t]) \in Nat /\ Count(acks[t]) \in Nat
        BY Numbers
      <4> HIDE DEF A, A1
      <4> QED BY <2>4, <4>1, <4>2
    <3>2. CASE t \notin A
      <4>1. A1 = A
        BY <3>2
      <4> HIDE DEF A, A1
      <4> QED BY <2>4, <4>1
    <3> QED BY <3>1, <3>2
  <2>6. Balanced(s)'
    <3>1. CASE t \in Behind(s)
      <4>1. ~(Behind(s) \subseteq Alive(s)')
        BY <1>5, <3>1
      <4>2. /\ unacked[s] < Window + Chunk /\ Way(A, toTarget) < Window + Chunk
            /\ serving => Way(A, toTarget) + Way(A, acks) <= unacked[s]
        BY <2>1 DEF Balanced
      <4> HIDE DEF A, A1
      <4>3. Way(A1, toTarget') < Window + Chunk /\ (serving => Way(A1, toTarget') + Way(A1, acks) <= unacked[s])
        BY <2>4, <2>5, <4>2, Numbers
      <4>4. Behind(s)' = Behind(s)
        BY DEF Behind
      <4> QED BY <1>1, <1>5, <4>1, <4>2, <4>3, <4>4 DEF Balanced, A1, A
    <3>2. CASE t \notin Behind(s)
      <4>1. A1 = A /\ A \subseteq Behind(s)
        BY <3>2 DEF Alive
      <4>2. Alive(s)' = Alive(s) /\ Way(Alive(s), toTarget') = Way(Alive(s), toTarget) /\ Behind(s)' = Behind(s)
        BY <1>5, <2>4, <4>1 DEF Behind
      <4> QED BY <1>1, <2>1, <4>2 DEF Balanced
    <3> QED BY <3>1, <3>2
  <2> QED BY <2>2, <2>6
<1> QED BY <1>2, <1>4, <1>6 DEF TransferInv

\* The close of a sender holds no bytes.
LEMMA NoMoreBytes ==
  ASSUME NEW q \in Seq(Nat)
  PROVE  BytesOf(Append(q, 0)) = BytesOf(q)
<1> DEFINE r == Append(q, 0)
<1>1. r \in Seq(Nat) /\ Len(q) \in Nat /\ Len(r) = Len(q) + 1 /\ r[Len(q) + 1] = 0 /\ \A j \in 1..Len(q) : r[j] = q[j]
  <2>1. 0 \in Nat
    OBVIOUS
  <2> QED BY <2>1, SeqSteps
<1> HIDE DEF r
<1>2. \A j : j \in 1..Len(r) <=> j \in 1..Len(q) \/ j = Len(q) + 1
  <2> DEFINE k == Len(q)
             m == Len(r)
  <2>1. k \in Nat /\ m = k + 1
    BY <1>1
  <2> HIDE DEF k, m
  <2>2. \A j : j \in 1..m <=> j \in 1..k \/ j = k + 1
    BY <2>1
  <2> QED BY <2>2 DEF k, m
<1>3. (1..r[Len(q) + 1]) = {}
  BY <1>1
<1>4. \A u : u \in BytesOf(r) <=> \E j \in 1..Len(r) : \E c \in 1..r[j] : u = <<j, c>>
  BY <1>1, InBytes
<1>5. \A u : u \in BytesOf(q) <=> \E j \in 1..Len(q) : \E c \in 1..q[j] : u = <<j, c>>
  BY InBytes
<1>6. \A u : u \in BytesOf(r) <=> u \in BytesOf(q)
  <2>1. ASSUME NEW u, u \in BytesOf(r) PROVE u \in BytesOf(q)
    <3>1. PICK j \in 1..Len(r) : \E c \in 1..r[j] : u = <<j, c>>
      BY <1>4, <2>1
    <3>2. j # Len(q) + 1
      BY <1>3, <3>1
    <3>3. j \in 1..Len(q) /\ r[j] = q[j]
      BY <1>1, <1>2, <3>2
    <3> QED BY <1>5, <3>1, <3>3
  <2>2. ASSUME NEW u, u \in BytesOf(q) PROVE u \in BytesOf(r)
    <3>1. PICK j \in 1..Len(q) : \E c \in 1..q[j] : u = <<j, c>>
      BY <1>5, <2>2
    <3>2. j \in 1..Len(r) /\ r[j] = q[j]
      BY <1>1, <1>2
    <3> QED BY <1>4, <3>1, <3>2
  <2> QED BY <2>1, <2>2
<1>7. BytesOf(r) = BytesOf(q)
  BY <1>6
<1> QED BY <1>7 DEF r

LEMMA OnShutdownKeeps ==
  ASSUME TransferInv, OnShutdown
  PROVE  TransferInv'
<1>1. /\ serving /\ serving' = FALSE
      /\ toTarget' = [t \in Transfers |-> IF \E s \in TransferStreams : t \in ToSet(jobs[s]) /\ ~Dead(t)
                                      THEN Append(toTarget[t], 0) ELSE toTarget[t]]
      /\ jobs' = [s \in TransferStreams |-> <<>>]
      /\ UNCHANGED <<fileSize, promised, position, unacked, acks, got, transfer, changed>>
  BY DEF OnShutdown
<1>2. ASSUME NEW t \in Transfers
      PROVE  /\ toTarget'[t] \in Seq(Nat) /\ BytesOf(toTarget'[t]) = BytesOf(toTarget[t]) /\ EndsOnce(toTarget'[t])
             /\ transfer[t] \in {"idle", "asked"} => toTarget'[t] = <<>>
  <2>0. Served(t) /\ toTarget[t] \in Seq(Nat) /\ Count(toTarget[t]) \in Nat /\ 0 \in Nat
    BY Numbers DEF TransferInv
  <2>1. CASE \E s \in TransferStreams : t \in ToSet(jobs[s]) /\ ~Dead(t)
    <3>1. PICK s \in TransferStreams : t \in ToSet(jobs[s])
      BY <2>1
    <3>2. PICK i \in 1..Len(jobs[s]) : t = jobs[s][i]
      <4>1. DOMAIN jobs[s] = 1..Len(jobs[s])
        <5>1. jobs[s] \in Seq(Transfers)
          BY Numbers
        <5> QED BY <5>1, SeqSteps
      <4> QED BY <3>1, <4>1 DEF ToSet
    <3>3. ~Ended(toTarget[t]) /\ transfer[t] \in {"receiving", "dead"}
      BY <3>2 DEF TransferInv, QueuedOnce, Sendable
    <3>4. toTarget'[t] = Append(toTarget[t], 0)
      BY <1>1, <2>1
    <3>5. BytesOf(Append(toTarget[t], 0)) = BytesOf(toTarget[t]) /\ Append(toTarget[t], 0) \in Seq(Nat) /\ EndsOnce(Append(toTarget[t], 0))
      BY <2>0, <3>3, NoMoreBytes, SeqSteps, AppendEnds
    <3> QED BY <3>3, <3>4, <3>5
  <2>2. CASE ~ \E s \in TransferStreams : t \in ToSet(jobs[s]) /\ ~Dead(t)
    BY <1>1, <2>0, <2>2 DEF Served
  <2> QED BY <2>1, <2>2
<1>3. toTarget' \in Queues
  BY <1>1, <1>2 DEF Queues
<1>4. TransferFields'
  <2>1. <<>> \in Seq(Transfers)
    BY EmptySeq
  <2> QED BY <1>1, <1>3, <2>1 DEF TransferInv, TransferFields
<1>5. ASSUME NEW t \in Transfers PROVE Served(t)'
  <2>1. Served(t)
    BY DEF TransferInv
  <2>2. Count(toTarget'[t]) = Count(toTarget[t])
    BY <1>2 DEF Count
  <2> QED BY <1>1, <1>2, <2>1, <2>2 DEF Served
<1>6. ASSUME NEW s \in TransferStreams PROVE QueuedOnce(s)' /\ Balanced(s)'
  <2>1. QueuedOnce(s) /\ Balanced(s)
    BY DEF TransferInv
  <2>2. Len(<<>>) = 0 /\ IsInjective(<<>>) /\ jobs'[s] = <<>>
    BY <1>1, EmptySeq DEF IsInjective
  <2>3. QueuedOnce(s)'
    BY <2>2 DEF QueuedOnce
  <2>4. Alive(s)' = Alive(s)
    BY <1>1 DEF Alive, Dead, Behind
  <2>5. Way(Alive(s), toTarget') = Way(Alive(s), toTarget)
    <3> DEFINE A == Alive(s)
    <3>1. A \in SUBSET Transfers
      BY Numbers
    <3> HIDE DEF A
    <3>2. Under(A, toTarget') = Under(A, toTarget)
      BY <1>2, <3>1 DEF Under
    <3> QED BY <3>2 DEF A, Way
  <2> QED BY <1>1, <2>1, <2>3, <2>4, <2>5 DEF Balanced
<1> QED BY <1>4, <1>5, <1>6 DEF TransferInv

\* A chunk moves from its way to the target to the way back.
Moves(q, q1, a, a1, t) ==
  /\ q[t] # <<>> /\ q1[t] = Tail(q[t]) /\ a1[t] = Append(a[t], Head(q[t]))
  /\ \A u \in Transfers \ {t} : q1[u] = q[u] /\ a1[u] = a[u]
Steady(S, q, q1, a, a1) == Way(S, q1) <= Way(S, q) /\ Way(S, q1) + Way(S, a1) = Way(S, q) + Way(S, a)

LEMMA WayMoves ==
  ASSUME NEW S \in SUBSET Transfers, NEW q \in Queues, NEW q1 \in Queues, NEW a \in Queues, NEW a1 \in Queues,
         NEW t \in Transfers, Moves(q, q1, a, a1, t)
  PROVE  Steady(S, q, q1, a, a1)
<1>0. /\ q[t] # <<>> /\ q1[t] = Tail(q[t]) /\ a1[t] = Append(a[t], Head(q[t]))
      /\ \A u \in Transfers \ {t} : q1[u] = q[u] /\ a1[u] = a[u]
  BY DEF Moves
<1> SUFFICES Way(S, q1) <= Way(S, q) /\ Way(S, q1) + Way(S, a1) = Way(S, q) + Way(S, a)
  BY DEF Steady
<1>1. q[t] \in Seq(Nat) /\ a[t] \in Seq(Nat) /\ Head(q[t]) \in Nat
  <2>1. q[t] \in Seq(Nat) /\ a[t] \in Seq(Nat)
    BY DEF Queues
  <2> QED BY <1>0, <2>1, SeqSteps
<1>2. Count(q[t]) = Count(q1[t]) + Head(q[t]) /\ Count(a1[t]) = Count(a[t]) + Head(q[t])
  BY <1>0, <1>1, CountTail, CountAppend
<1>3. Count(q[t]) \in Nat /\ Count(a[t]) \in Nat /\ Count(q1[t]) \in Nat /\ Count(a1[t]) \in Nat
  BY BytesFinite DEF Queues
<1>4. Way(S, q) \in Nat /\ Way(S, q1) \in Nat /\ Way(S, a) \in Nat /\ Way(S, a1) \in Nat
  BY WayFinite
<1>5. CASE t \in S
  <2>1. (\A u \in S \ {t} : q[u] = q1[u]) /\ (\A u \in S \ {t} : a[u] = a1[u])
    BY <1>0
  <2>2. Way(S, q1) + Count(q[t]) = Way(S, q) + Count(q1[t]) /\ Way(S, a1) + Count(a[t]) = Way(S, a) + Count(a1[t])
    BY <1>5, <2>1, WayChange
  <2> DEFINE w == Way(S, q)
             w1 == Way(S, q1)
             v == Way(S, a)
             v1 == Way(S, a1)
             c == Count(q[t])
             c1 == Count(q1[t])
             d == Count(a[t])
             d1 == Count(a1[t])
             n == Head(q[t])
  <2>3. /\ w \in Nat /\ w1 \in Nat /\ v \in Nat /\ v1 \in Nat /\ c \in Nat /\ c1 \in Nat /\ d \in Nat /\ d1 \in Nat /\ n \in Nat
        /\ c = c1 + n /\ d1 = d + n /\ w1 + c = w + c1 /\ v1 + d = v + d1
    BY <1>1, <1>2, <1>3, <1>4, <2>2
  <2> HIDE DEF w, w1, v, v1, c, c1, d, d1, n
  <2>4. w = w1 + n
    BY <2>3
  <2>5. v1 = v + n
    BY <2>3
  <2>6. w1 <= w /\ w1 + v1 = w + v
    BY <2>3, <2>4, <2>5
  <2> QED BY <2>6 DEF w, w1, v, v1
<1>6. CASE t \notin S
  <2>1. (\A u \in S : q[u] = q1[u]) /\ (\A u \in S : a[u] = a1[u])
    BY <1>0, <1>6
  <2>2. Way(S, q) = Way(S, q1) /\ Way(S, a) = Way(S, a1)
    BY <2>1, WaySame
  <2> QED BY <1>4, <2>2
<1> QED BY <1>5, <1>6

LEMMA ReceiveKeeps ==
  ASSUME TransferInv, NEW t \in Transfers, Receive(t)
  PROVE  TransferInv'
<1> DEFINE n == Head(toTarget[t])
<1>1. /\ transfer[t] = "receiving" /\ toTarget[t] # <<>> /\ toTarget' = [toTarget EXCEPT ![t] = Tail(toTarget[t])]
      /\ UNCHANGED <<fileSize, promised, position, jobs, unacked, changed, serving>>
  BY DEF Receive
<1>2. /\ n > 0 => /\ got' = [got EXCEPT ![t] = got[t] + n] /\ acks' = [acks EXCEPT ![t] = Append(acks[t], n)]
                  /\ transfer' = transfer
      /\ ~(n > 0) => /\ transfer' = [transfer EXCEPT ![t] = IF got[t] = promised[t] THEN "ok" ELSE "interrupted"]
                     /\ got' = got /\ acks' = acks
  BY DEF Receive
<1>3. /\ toTarget[t] \in Seq(Nat) /\ acks[t] \in Seq(Nat) /\ n \in Nat /\ Tail(toTarget[t]) \in Seq(Nat)
      /\ Append(acks[t], n) \in Seq(Nat)
  <2>1. toTarget[t] \in Seq(Nat) /\ acks[t] \in Seq(Nat)
    BY Numbers
  <2> QED BY <1>1, <2>1, SeqSteps
<1>4. /\ toTarget' \in Queues /\ toTarget'[t] = Tail(toTarget[t]) /\ \A u \in Transfers \ {t} : toTarget'[u] = toTarget[u]
      /\ toTarget \in Queues /\ acks \in Queues
  BY <1>1, <1>3 DEF TransferInv, TransferFields, Queues
<1>5. Count(toTarget[t]) = Count(toTarget'[t]) + n /\ Count(toTarget'[t]) \in Nat
  BY <1>1, <1>3, <1>4, CountTail, BytesFinite
<1>6. Served(t)
  BY DEF TransferInv
<1>7. EndsOnce(toTarget'[t]) /\ (Ended(toTarget'[t]) => Ended(toTarget[t])) /\ (n = 0 => toTarget'[t] = <<>> /\ Ended(toTarget[t]))
  BY <1>1, <1>3, <1>4, <1>6, TailEnds DEF Served
<1> HIDE DEF n
<1>8. CASE n > 0
  <2>1. got' = [got EXCEPT ![t] = got[t] + n] /\ acks' = [acks EXCEPT ![t] = Append(acks[t], n)] /\ transfer' = transfer
    BY <1>2, <1>8
  <2>2. /\ acks' \in Queues /\ acks'[t] = Append(acks[t], n) /\ got'[t] = got[t] + n /\ got[t] \in Nat
        /\ \A u \in Transfers \ {t} : acks'[u] = acks[u] /\ got'[u] = got[u]
    BY <1>3, <1>4, <2>1 DEF TransferInv, TransferFields, Queues
  <2>3. TransferFields'
    <3>1. got' \in [Transfers -> Nat]
      <4>1. got[t] + n \in Nat
        BY <1>3, <2>2
      <4> QED BY <2>1, <4>1 DEF TransferInv, TransferFields
    <3> QED BY <1>1, <1>4, <2>1, <2>2, <3>1 DEF TransferInv, TransferFields
  <2>4. ASSUME NEW u \in Transfers PROVE Served(u)'
    <3>1. Served(u)
      BY DEF TransferInv
    <3>2. CASE u # t
      BY <1>1, <1>4, <2>1, <2>2, <3>1, <3>2 DEF Served, Sent0
    <3>3. CASE u = t
      <4>1. got'[t] + Count(toTarget'[t]) = got[t] + Count(toTarget[t])
        BY <1>3, <1>5, <2>2
      <4>2. transfer[t] \notin {"idle", "asked", "interrupted"}
        BY <1>1
      <4> QED BY <1>1, <1>6, <1>7, <2>1, <3>3, <4>1, <4>2 DEF Served, Sent0
    <3> QED BY <3>2, <3>3
  <2>5. \A s \in TransferStreams : Sendable(s)' = Sendable(s) /\ Alive(s)' = Alive(s) /\ Behind(s)' = Behind(s)
    BY <2>1 DEF Sendable, Alive, Dead, Behind
  <2>6. ASSUME NEW s \in TransferStreams PROVE QueuedOnce(s)' /\ Balanced(s)'
    <3>1. QueuedOnce(s) /\ Balanced(s)
      BY DEF TransferInv
    <3>2. QueuedOnce(s)'
      <4>1. \A i \in 1..Len(jobs[s]) : jobs[s][i] \in Transfers
        BY Numbers
      <4> QED BY <1>1, <1>4, <1>7, <2>5, <3>1, <4>1 DEF QueuedOnce
    <3> DEFINE A == Alive(s)
    <3>3. A \in SUBSET Transfers
      BY Numbers
    <3>4. Way(A, toTarget') <= Way(A, toTarget) /\ Way(A, toTarget') + Way(A, acks') = Way(A, toTarget) + Way(A, acks)
      <4> HIDE DEF A
      <4>1. acks'[t] = Append(acks[t], Head(toTarget[t])) /\ toTarget[t] # <<>> /\ toTarget'[t] = Tail(toTarget[t])
        BY <1>1, <1>4, <2>2 DEF n
      <4>2. \A u \in Transfers \ {t} : toTarget'[u] = toTarget[u] /\ acks'[u] = acks[u]
        BY <1>4, <2>2
      <4>3. toTarget \in Queues /\ toTarget' \in Queues /\ acks \in Queues /\ acks' \in Queues
        BY <1>4, <2>2
      <4>4. Moves(toTarget, toTarget', acks, acks', t)
        BY <4>1, <4>2 DEF Moves
      <4>5. Steady(A, toTarget, toTarget', acks, acks')
        BY <3>3, <4>3, <4>4, WayMoves
      <4> QED BY <4>5 DEF Steady
    <3>5. Way(A, toTarget') \in Nat /\ Way(A, toTarget) \in Nat
      <4> HIDE DEF A
      <4> QED BY <1>4, <3>3, WayFinite
    <3>6. Balanced(s)'
      <4>1. Way(A, toTarget) < Window + Chunk
        BY <3>1 DEF Balanced
      <4>2. Way(A, toTarget') < Window + Chunk
        <5> HIDE DEF A
        <5> QED BY <3>4, <3>5, <4>1, Numbers
      <4> QED BY <1>1, <2>5, <3>1, <3>4, <4>2 DEF Balanced
    <3> QED BY <3>2, <3>6
  <2> QED BY <2>3, <2>4, <2>6 DEF TransferInv
<1>9. CASE ~(n > 0)
  <2>1. /\ transfer' = [transfer EXCEPT ![t] = IF got[t] = promised[t] THEN "ok" ELSE "interrupted"]
        /\ got' = got /\ acks' = acks
    BY <1>2, <1>9
  <2>2. n = 0 /\ toTarget'[t] = <<>> /\ Ended(toTarget[t])
    BY <1>3, <1>7, <1>9
  <2>3. TransferFields'
    BY <1>1, <1>4, <2>1 DEF TransferInv, TransferFields
  <2>4. /\ transfer'[t] \in {"ok", "interrupted"} /\ (transfer'[t] = "interrupted" => got[t] # promised[t])
        /\ \A u \in Transfers \ {t} : transfer'[u] = transfer[u]
    BY <2>1 DEF TransferInv, TransferFields
  <2>5. ASSUME NEW u \in Transfers PROVE Served(u)'
    <3>1. Served(u)
      BY DEF TransferInv
    <3>2. CASE u # t
      BY <1>1, <1>4, <2>1, <2>4, <3>1, <3>2 DEF Served, Sent0
    <3>3. CASE u = t
      <4>1. Count(toTarget'[t]) = 0 /\ Count(toTarget[t]) = 0
        BY <1>5, <2>2, NoBytes
      <4>2. got[t] = position[t]
        <5>1. got[t] + 0 = position[t] /\ got[t] \in Nat
          BY <1>1, <1>6, <4>1, Numbers DEF Served, Sent0
        <5> QED BY <5>1
      <4>3. serving /\ t \notin changed => got[t] = promised[t]
        BY <1>1, <1>6, <2>2, <4>2 DEF Served
      <4>4. got'[t] + Count(toTarget'[t]) <= position'[t]
        BY <1>1, <1>6, <2>1, <4>1 DEF Served
      <4>5. ~Ended(toTarget'[t])
        BY <2>2 DEF Ended
      <4> QED BY <1>1, <1>6, <1>7, <2>1, <2>4, <3>3, <4>3, <4>4, <4>5 DEF Served, Sent0
    <3> QED BY <3>2, <3>3
  <2>6. ASSUME NEW s \in TransferStreams PROVE QueuedOnce(s)' /\ Balanced(s)'
    <3>1. QueuedOnce(s) /\ Balanced(s)
      BY DEF TransferInv
    <3>2. Alive(s)' = Alive(s) /\ Behind(s)' = Behind(s) /\ \A u \in Sendable(s) \ {t} : u \in Sendable(s)'
      <4>1. transfer'[t] # "dead" /\ transfer[t] # "dead"
        BY <1>1, <2>4
      <4> QED BY <2>4, <4>1 DEF Sendable, Alive, Dead, Behind
    <3>3. QueuedOnce(s)'
      <4>1. \A i \in 1..Len(jobs[s]) : jobs[s][i] \in Transfers
        BY Numbers
      <4>2. \A i \in 1..Len(jobs[s]) : jobs[s][i] # t
        BY <2>2, <3>1 DEF QueuedOnce
      <4> QED BY <1>1, <1>4, <3>1, <3>2, <4>1, <4>2 DEF QueuedOnce
    <3> DEFINE A == Alive(s)
    <3>4. A \in SUBSET Transfers
      BY Numbers
    <3>5. Way(A, toTarget') = Way(A, toTarget)
      <4> HIDE DEF A
      <4>1. BytesOf(toTarget[t]) = {}
        <5>1. IsFiniteSet(BytesOf(toTarget[t])) /\ Cardinality(BytesOf(toTarget[t])) = 0
          <6>1. IsFiniteSet(BytesOf(toTarget[t]))
            BY <1>3, BytesFinite
          <6>2. Count(toTarget'[t]) = 0
            BY <2>2, NoBytes
          <6>3. Count(toTarget[t]) = 0
            BY <1>5, <2>2, <6>2
          <6> QED BY <6>1, <6>3 DEF Count
        <5> QED BY <5>1, FS_EmptySet
      <4>2. BytesOf(toTarget'[t]) = {}
        BY <2>2 DEF BytesOf
      <4>3. \A u \in A : BytesOf(toTarget'[u]) = BytesOf(toTarget[u])
        BY <1>4, <3>4, <4>1, <4>2
      <4>4. Under(A, toTarget') = Under(A, toTarget)
        BY <4>3 DEF Under
      <4> QED BY <4>4 DEF Way
    <3>6. Balanced(s)'
      BY <1>1, <2>1, <3>1, <3>2, <3>5 DEF Balanced
    <3> QED BY <3>3, <3>6
  <2> QED BY <2>3, <2>5, <2>6 DEF TransferInv
<1> QED BY <1>8, <1>9

\* A run of the loop keeps what concerns a transfer.
LEMMA PumpServes ==
  ASSUME TransferInv, NEW s \in TransferStreams, NEW J \in SUBSET Transfers, NEW b, Pumped(s, J, b), NEW u \in Transfers
  PROVE  /\ position'[u] <= fileSize[u] /\ EndsOnce(toTarget'[u])
         /\ got[u] + Count(toTarget'[u]) <= position'[u]
         /\ transfer[u] \in Sent0 => got[u] + Count(toTarget'[u]) = position'[u]
         /\ transfer[u] \in {"idle", "asked"} /\ u \notin J => toTarget'[u] = <<>>
         /\ serving /\ u \notin changed => (Ended(toTarget'[u]) => position'[u] = fileSize[u])
<1>1. /\ Dead(u) => toTarget'[u] = <<>>
      /\ ~Dead(u) => SentTo(u, position'[u], toTarget'[u])
      /\ ~Dead(u) /\ u \notin J => toTarget'[u] = toTarget[u]
      /\ position'[u] <= fileSize[u] /\ position[u] <= position'[u] + Count(toTarget[u])
      /\ position' \in [Transfers -> Nat] /\ toTarget' \in Queues
  BY DEF Pumped
<1>2. Served(u)
  BY DEF TransferInv
<1>3. /\ got[u] \in Nat /\ position[u] \in Nat /\ position'[u] \in Nat /\ Count(toTarget[u]) \in Nat /\ Count(toTarget'[u]) \in Nat
  <2>1. toTarget'[u] \in Seq(Nat)
    BY <1>1 DEF Queues
  <2> QED BY <1>1, <2>1, Numbers, BytesFinite
<1>4. CASE Dead(u)
  <2>1. Count(toTarget'[u]) = 0 /\ EndsOnce(toTarget'[u]) /\ ~Ended(toTarget'[u])
    BY <1>1, <1>4, NoBytes DEF EndsOnce, Ended
  <2>2. got[u] + Count(toTarget[u]) <= position[u] /\ toTarget[u] = toTarget[u]
    BY <1>2 DEF Served
  <2>3. got[u] <= position'[u] /\ got[u] + 0 = got[u]
    BY <1>1, <1>3, <2>2
  <2>4. transfer[u] = "dead"
    BY <1>4 DEF Dead
  <2> QED BY <1>1, <2>1, <2>3, <2>4 DEF Sent0
<1>5. CASE ~Dead(u)
  <2>1. position'[u] + Count(toTarget[u]) = position[u] + Count(toTarget'[u]) /\ EndsOnce(toTarget'[u])
        /\ (Ended(toTarget'[u]) => position'[u] = fileSize[u] \/ (position'[u] = position[u] /\ Ended(toTarget[u])))
    BY <1>1, <1>5 DEF SentTo
  <2>2. got[u] + Count(toTarget[u]) <= position[u] /\ (transfer[u] \in Sent0 => got[u] + Count(toTarget[u]) = position[u])
    BY <1>2 DEF Served
  <2>3. got[u] + Count(toTarget'[u]) <= position'[u]
    BY <1>3, <2>1, <2>2
  <2>4. transfer[u] \in Sent0 => got[u] + Count(toTarget'[u]) = position'[u]
    BY <1>3, <2>1, <2>2
  <2>5. serving /\ u \notin changed => (Ended(toTarget'[u]) => position'[u] = fileSize[u])
    BY <1>2, <2>1 DEF Served
  <2>6. transfer[u] \in {"idle", "asked"} /\ u \notin J => toTarget'[u] = <<>>
    BY <1>1, <1>2, <1>5 DEF Served
  <2> QED BY <1>1, <2>1, <2>3, <2>4, <2>5, <2>6
<1> QED BY <1>4, <1>5

\* A run of the loop for one stream leaves what is under way on the others.
LEMMA PumpElsewhere ==
  ASSUME TransferInv, NEW s \in TransferStreams, NEW J \in SUBSET Behind(s), NEW b, Pumped(s, J, b), NEW r \in TransferStreams, r # s
  PROVE  /\ Way(Alive(r), toTarget') = Way(Alive(r), toTarget) /\ jobs'[r] = jobs[r] /\ unacked'[r] = unacked[r]
         /\ \A u \in Behind(r) : Ended(toTarget'[u]) => Ended(toTarget[u])
<1> DEFINE A == Alive(r)
<1>1. A \in SUBSET Transfers /\ (\A u \in A : ~Dead(u) /\ u \notin J) /\ \A u \in Behind(r) : u \in Transfers /\ u \notin J
  BY DEF Alive, Behind
<1>2. toTarget \in Queues /\ toTarget' \in Queues
  BY DEF TransferInv, TransferFields, Pumped
<1>3. \A u \in A : toTarget'[u] = toTarget[u]
  BY <1>1 DEF Pumped
<1>4. Way(A, toTarget') = Way(A, toTarget)
  <2> HIDE DEF A
  <2> QED BY <1>1, <1>2, <1>3, WaySame
<1>5. \A u \in Behind(r) : Ended(toTarget'[u]) => Ended(toTarget[u])
  <2> TAKE u \in Behind(r)
  <2>1. (Dead(u) => toTarget'[u] = <<>>) /\ (~Dead(u) => toTarget'[u] = toTarget[u])
    BY <1>1 DEF Pumped
  <2>2. ~Ended(<<>>)
    BY DEF Ended
  <2> QED BY <2>1, <2>2
<1>6. jobs'[r] = jobs[r] /\ unacked'[r] = unacked[r]
  BY DEF Pumped
<1> QED BY <1>4, <1>5, <1>6

\* After a run of the loop the books of its stream are true again.
LEMMA Rebalanced ==
  ASSUME TransferInv, NEW s \in TransferStreams, NEW J \in SUBSET Behind(s), NEW b \in Nat, Pumped(s, J, b),
         serving, serving' = serving, Alive(s)' = Alive(s), Behind(s)' = Behind(s), toTarget' \in Queues, acks' \in Queues,
         b + Way(Alive(s), acks) = unacked[s] + Way(Alive(s), acks')
  PROVE  Balanced(s)'
<1> DEFINE T == Way(Alive(s), toTarget)
           T1 == Way(Alive(s), toTarget')
           A == Way(Alive(s), acks)
           A1 == Way(Alive(s), acks')
           U == unacked[s]
           U1 == unacked'[s]
<1>1. T \in Nat /\ A \in Nat /\ U \in Nat /\ Window \in Nat /\ Chunk \in Nat
  BY Numbers
<1>2. T1 \in Nat /\ A1 \in Nat
  <2> DEFINE L == Alive(s)
  <2>1. L \in SUBSET Transfers
    BY Numbers
  <2> HIDE DEF L
  <2>2. Way(L, toTarget') \in Nat /\ Way(L, acks') \in Nat
    BY <2>1, WayFinite
  <2> QED BY <2>2 DEF L
<1>3. U1 \in Nat /\ U1 < Window + Chunk /\ T1 + b <= U1 + T /\ (J \subseteq Alive(s) => T1 + b = U1 + T)
  BY DEF Pumped
<1>4. T + A <= U /\ (Behind(s) \subseteq Alive(s) => T + A = U)
  BY DEF TransferInv, Balanced
<1>5. b + A = U + A1
  OBVIOUS
<1>6. J \subseteq Behind(s)
  OBVIOUS
<1> DEFINE W == Window + Chunk
<1>7. W \in Nat /\ U1 < W
  BY <1>1, <1>3
<1> HIDE DEF T, T1, A, A1, U, U1, W
<1>8. T1 + A1 <= U1 /\ T1 < W
  BY <1>1, <1>2, <1>3, <1>4, <1>5, <1>7
<1>9. Behind(s) \subseteq Alive(s) => T1 + A1 = U1
  <2>1. Behind(s) \subseteq Alive(s) => J \subseteq Alive(s)
    BY <1>6
  <2> QED BY <1>1, <1>2, <1>3, <1>4, <1>5, <2>1
<1> QED BY <1>3, <1>7, <1>8, <1>9 DEF T1, A1, U1, W, Balanced

LEMMA ServeKeeps ==
  ASSUME TransferInv, NEW t \in Transfers, Serve(t)
  PROVE  TransferInv'
<1> DEFINE s == StreamOf[t]
<1>0. s \in TransferStreams
  BY TransferAssumption DEF TransferAssumption
<1>1. transfer[t] = "asked" /\ UNCHANGED <<fileSize, acks, got, changed, serving>>
  BY DEF Serve
<1>2. CASE ~(serving /\ t \in Registered)
  <2>1. transfer' = [transfer EXCEPT ![t] = "refused"] /\ UNCHANGED <<promised, position, jobs, unacked, toTarget>>
    BY <1>2 DEF Serve
  <2>2. TransferFields'
    BY <1>1, <2>1 DEF TransferInv, TransferFields
  <2>3. transfer'[t] = "refused" /\ \A u \in Transfers \ {t} : transfer'[u] = transfer[u]
    BY <2>1 DEF TransferInv, TransferFields
  <2>4. ASSUME NEW u \in Transfers PROVE Served(u)'
    <3>1. Served(u)
      BY DEF TransferInv
    <3>2. u = t \/ transfer'[u] = transfer[u]
      BY <2>3
    <3> QED BY <1>1, <2>1, <2>3, <3>1, <3>2 DEF Served, Sent0
  <2>5. \A r \in TransferStreams : Sendable(r)' = Sendable(r) /\ Alive(r)' = Alive(r)
    BY <1>1, <2>3 DEF Sendable, Alive, Dead, Behind
  <2>6. ASSUME NEW r \in TransferStreams PROVE QueuedOnce(r)' /\ Balanced(r)'
    <3>1. QueuedOnce(r) /\ Balanced(r)
      BY DEF TransferInv
    <3> QED BY <1>1, <2>1, <2>5, <3>1 DEF QueuedOnce, Balanced
  <2> QED BY <2>2, <2>4, <2>6 DEF TransferInv
<1>3. CASE serving /\ t \in Registered
  <2> DEFINE todo == Append(jobs[s], t)
             J == Sendable(s) \cup {t}
  <2>1. /\ transfer' = [transfer EXCEPT ![t] = "receiving"] /\ promised' = [promised EXCEPT ![t] = fileSize[t]]
        /\ Pump(s, todo, unacked[s])
    BY <1>3 DEF Serve
  <2>2. Served(t) /\ QueuedOnce(s) /\ Balanced(s)
    BY <1>0 DEF TransferInv
  <2>3. /\ transfer'[t] = "receiving" /\ \A u \in Transfers \ {t} : transfer'[u] = transfer[u] /\ promised'[u] = promised[u]
        /\ promised'[t] = fileSize[t]
    BY <2>1 DEF TransferInv, TransferFields
  <2>4. t \in Behind(s) /\ t \notin Sendable(s) /\ Sendable(s) \subseteq Behind(s) /\ Behind(s) \subseteq Transfers
    BY <1>1 DEF Behind, Sendable
  <2>5. jobs[s] \in Seq(Transfers) /\ unacked[s] \in Nat
    BY <1>0, Numbers
  <2>6. /\ Len(jobs[s]) \in Nat /\ todo \in Seq(Transfers) /\ Len(todo) = Len(jobs[s]) + 1 /\ todo[Len(jobs[s]) + 1] = t
        /\ \A i \in 1..Len(jobs[s]) : todo[i] = jobs[s][i]
    <3> HIDE DEF s
    <3> QED BY <2>5, SeqSteps
  <2> HIDE DEF todo, s
  <2>7. \A i \in 1..Len(todo) : i \in 1..Len(jobs[s]) \/ i = Len(jobs[s]) + 1
    <3> DEFINE k == Len(jobs[s])
               m == Len(todo)
    <3>1. k \in Nat /\ m = k + 1
      BY <2>6
    <3> HIDE DEF k, m
    <3>2. \A i \in 1..m : i \in 1..k \/ i = k + 1
      BY <3>1
    <3> QED BY <3>2 DEF k, m
  <2>8. \A i \in 1..Len(todo) : todo[i] \in J /\ ~Ended(toTarget[todo[i]])
    <3>1. ~Ended(toTarget[t])
      BY <1>1, <2>2 DEF Served, Ended
    <3>2. \A i \in 1..Len(jobs[s]) : jobs[s][i] \in Sendable(s) /\ ~Ended(toTarget[jobs[s][i]])
      BY <2>2 DEF QueuedOnce
    <3> QED BY <2>6, <2>7, <3>1, <3>2
  <2>9. IsInjective(todo)
    <3>1. DOMAIN todo = 1..Len(todo) /\ DOMAIN jobs[s] = 1..Len(jobs[s])
      BY <2>5, <2>6, SeqSteps
    <3>2. \A i, j \in 1..Len(jobs[s]) : jobs[s][i] = jobs[s][j] => i = j
      BY <2>2, <3>1 DEF QueuedOnce, IsInjective
    <3>3. \A i \in 1..Len(jobs[s]) : jobs[s][i] # t
      BY <2>2, <2>4 DEF QueuedOnce
    <3>4. \A i, j \in 1..Len(todo) : todo[i] = todo[j] => i = j
      BY <2>6, <2>7, <3>2, <3>3
    <3> QED BY <3>1, <3>4 DEF IsInjective
  <2>10. Pumped(s, J, unacked[s])
    <3>1. unacked[s] < Window + Chunk
      BY <2>2 DEF Balanced
    <3>2. J \in SUBSET Transfers
      BY <2>4
    <3> HIDE DEF J
    <3> QED BY <1>0, <2>1, <2>5, <2>6, <2>8, <2>9, <3>1, <3>2, PumpDoes DEF TransferInv
  <2>11. TransferFields'
    <3>1. /\ jobs' \in [TransferStreams -> Seq(Transfers)] /\ unacked' \in [TransferStreams -> Nat]
          /\ position' \in [Transfers -> Nat] /\ toTarget' \in Queues
      BY <2>10 DEF Pumped
    <3>2. promised' \in [Transfers -> Nat]
      BY <2>1, Numbers DEF TransferInv, TransferFields
    <3>3. transfer' \in [Transfers -> {"idle", "asked", "receiving", "ok", "interrupted", "refused", "dead"}]
      BY <2>1 DEF TransferInv, TransferFields
    <3> QED BY <1>1, <3>1, <3>2, <3>3 DEF TransferInv, TransferFields
  <2>12. J \in SUBSET Behind(s) /\ J \in SUBSET Transfers
    BY <2>4
  <2>13. ASSUME NEW u \in Transfers PROVE Served(u)'
    <3>1. Served(u)
      BY DEF TransferInv
    <3>2. /\ position'[u] <= fileSize[u] /\ EndsOnce(toTarget'[u])
          /\ got[u] + Count(toTarget'[u]) <= position'[u]
          /\ transfer[u] \in Sent0 => got[u] + Count(toTarget'[u]) = position'[u]
          /\ transfer[u] \in {"idle", "asked"} /\ u \notin J => toTarget'[u] = <<>>
          /\ serving /\ u \notin changed => (Ended(toTarget'[u]) => position'[u] = fileSize[u])
      <4> HIDE DEF J
      <4> QED BY <1>0, <2>10, <2>12, PumpServes
    <3>3. CASE u = t
      BY <1>1, <2>3, <3>1, <3>2, <3>3 DEF Served, Sent0
    <3>4. CASE u # t
      <4>1. transfer[u] \in {"idle", "asked"} => u \notin J
        BY <3>4 DEF Sendable
      <4> HIDE DEF J
      <4> QED BY <1>1, <2>3, <3>1, <3>2, <3>4, <4>1 DEF Served, Sent0
    <3> QED BY <3>3, <3>4
  <2>14. \A r \in TransferStreams : /\ Alive(r)' = Alive(r) /\ Behind(r)' = Behind(r)
                                    /\ r # s => Sendable(r)' = Sendable(r)
    BY <1>1, <2>3, <2>4 DEF Sendable, Alive, Dead, Behind
  <2>15. Sendable(s)' = J
    BY <1>1, <2>3, <2>4 DEF Sendable, Behind
  <2>16. ASSUME NEW r \in TransferStreams PROVE QueuedOnce(r)' /\ Balanced(r)'
    <3>1. QueuedOnce(r) /\ Balanced(r)
      BY DEF TransferInv
    <3>2. CASE r # s
      <4>1. /\ Way(Alive(r), toTarget') = Way(Alive(r), toTarget) /\ jobs'[r] = jobs[r] /\ unacked'[r] = unacked[r]
            /\ \A u \in Behind(r) : Ended(toTarget'[u]) => Ended(toTarget[u])
        <5> HIDE DEF J
        <5> QED BY <1>0, <2>10, <2>12, <3>2, PumpElsewhere
      <4>2. QueuedOnce(r)'
        BY <1>1, <2>14, <3>1, <3>2, <4>1 DEF QueuedOnce, Sendable
      <4>3. Balanced(r)'
        BY <1>1, <2>14, <3>1, <4>1 DEF Balanced
      <4> QED BY <4>2, <4>3
    <3>3. CASE r = s
      <4>1. QueuedOnce(s)'
        <5>1. (\A i \in 1..Len(jobs'[s]) : jobs'[s][i] \in J /\ ~Ended(toTarget'[jobs'[s][i]])) /\ IsInjective(jobs'[s])
          BY <2>10 DEF Pumped
        <5> QED BY <1>1, <1>3, <2>15, <5>1 DEF QueuedOnce
      <4>2. Balanced(s)'
        <5> HIDE DEF J
        <5>1. unacked[s] + Way(Alive(s), acks) = unacked[s] + Way(Alive(s), acks')
          BY <1>1
        <5>2. Alive(s)' = Alive(s) /\ Behind(s)' = Behind(s)
          BY <1>0, <2>14
        <5>3. toTarget' \in Queues /\ acks' \in Queues
          BY <2>11 DEF TransferFields
        <5>4. serving /\ serving' = serving
          BY <1>1, <1>3
        <5> QED BY <1>0, <2>5, <2>10, <2>12, <5>1, <5>2, <5>3, <5>4, Rebalanced
      <4> QED BY <3>3, <4>1, <4>2
    <3> QED BY <3>2, <3>3
  <2> QED BY <2>11, <2>13, <2>16 DEF TransferInv
<1> QED BY <1>2, <1>3

LEMMA AcknowledgeKeeps ==
  ASSUME TransferInv, NEW t \in Transfers, NEW i, Acknowledge(t, i)
  PROVE  TransferInv'
<1> DEFINE s == StreamOf[t]
           n == acks[t][i]
<1>0. s \in TransferStreams
  BY TransferAssumption DEF TransferAssumption
<1>1. /\ serving /\ i \in DOMAIN acks[t] /\ acks' = [acks EXCEPT ![t] = RemoveAt(acks[t], i)]
      /\ UNCHANGED <<fileSize, promised, got, transfer, changed, serving>>
  BY DEF Acknowledge
<1>2. /\ acks[t] \in Seq(Nat) /\ i \in 1..Len(acks[t]) /\ n \in Nat /\ RemoveAt(acks[t], i) \in Seq(Nat)
      /\ Count(acks[t]) = Count(RemoveAt(acks[t], i)) + n
  <2>1. acks[t] \in Seq(Nat)
    BY Numbers
  <2>2. i \in 1..Len(acks[t]) /\ n \in Nat
    BY <1>1, <2>1, SeqSteps
  <2> QED BY <2>1, <2>2, Removed, CountRemoved
<1>3. /\ acks \in Queues /\ acks' \in Queues /\ acks'[t] = RemoveAt(acks[t], i)
      /\ \A u \in Transfers \ {t} : acks[u] = acks'[u]
  BY <1>1, <1>2 DEF TransferInv, TransferFields, Queues
<1>4. \A r \in TransferStreams : Alive(r)' = Alive(r) /\ Behind(r)' = Behind(r) /\ Sendable(r)' = Sendable(r)
  BY <1>1 DEF Sendable, Alive, Dead, Behind
<1>5. ASSUME NEW r \in TransferStreams, t \notin Alive(r) PROVE Way(Alive(r), acks') = Way(Alive(r), acks)
  <2> DEFINE A == Alive(r)
  <2>1. A \in SUBSET Transfers /\ \A u \in A : acks[u] = acks'[u]
    BY <1>3, <1>5, Numbers
  <2> HIDE DEF A
  <2>2. Way(A, acks) = Way(A, acks')
    BY <1>3, <2>1, WaySame
  <2> QED BY <2>2 DEF A
<1>6. CASE Dead(t)
  <2>1. UNCHANGED <<jobs, unacked, position, toTarget>>
    BY <1>6 DEF Acknowledge
  <2>2. TransferFields'
    BY <1>1, <1>3, <2>1 DEF TransferInv, TransferFields
  <2>3. ASSUME NEW u \in Transfers PROVE Served(u)'
    <3>1. Served(u)
      BY DEF TransferInv
    <3> QED BY <1>1, <2>1, <3>1 DEF Served
  <2>4. ASSUME NEW r \in TransferStreams PROVE QueuedOnce(r)' /\ Balanced(r)'
    <3>1. QueuedOnce(r) /\ Balanced(r)
      BY DEF TransferInv
    <3>2. Way(Alive(r), acks') = Way(Alive(r), acks)
      <4>1. t \notin Alive(r)
        BY <1>6 DEF Alive
      <4> QED BY <1>5, <4>1
    <3> QED BY <1>1, <1>4, <2>1, <3>1, <3>2 DEF QueuedOnce, Balanced
  <2> QED BY <2>2, <2>3, <2>4 DEF TransferInv
<1>7. CASE ~Dead(t)
  <2> DEFINE b == unacked[s] - Least(unacked[s], n)
             J == Sendable(s)
  <2>1. Pump(s, jobs[s], b)
    BY <1>7 DEF Acknowledge
  <2>2. QueuedOnce(s) /\ Balanced(s)
    BY <1>0 DEF TransferInv
  <2>3. t \in Alive(s)
    BY <1>7 DEF Alive, Behind
  <2> HIDE DEF s
  <2>4. jobs[s] \in Seq(Transfers) /\ unacked[s] \in Nat
    BY <1>0, Numbers
  <2>5. Way(Alive(s), acks) = Way(Alive(s), acks') + n /\ Way(Alive(s), acks') \in Nat
    <3> DEFINE A == Alive(s)
    <3>1. A \in SUBSET Transfers /\ t \in A
      BY <1>0, <2>3, Numbers
    <3> HIDE DEF A
    <3>2. \A u \in A \ {t} : acks[u] = acks'[u]
      BY <1>3, <3>1
    <3>3. Way(A, acks') + Count(acks[t]) = Way(A, acks) + Count(acks'[t])
      BY <1>3, <3>1, <3>2, WayChange
    <3>4. Way(A, acks) \in Nat /\ Way(A, acks') \in Nat /\ Count(RemoveAt(acks[t], i)) \in Nat
      BY <1>2, <1>3, <3>1, WayFinite, BytesFinite
    <3> DEFINE w == Way(A, acks)
               w1 == Way(A, acks')
               c == Count(acks[t])
               c1 == Count(RemoveAt(acks[t], i))
    <3>5. w \in Nat /\ w1 \in Nat /\ c1 \in Nat /\ n \in Nat /\ c = c1 + n /\ w1 + c = w + c1
      BY <1>2, <1>3, <3>3, <3>4
    <3> HIDE DEF w, w1, c, c1, n
    <3>6. w = w1 + n
      BY <3>5
    <3> QED BY <3>4, <3>6 DEF w, w1, A
  <2>6. n <= unacked[s] /\ b = unacked[s] - n /\ b \in Nat /\ b < Window + Chunk
    <3>1. Way(Alive(s), toTarget) + Way(Alive(s), acks) <= unacked[s] /\ unacked[s] < Window + Chunk
      BY <1>1, <2>2 DEF Balanced
    <3>2. Way(Alive(s), toTarget) \in Nat /\ Window \in Nat /\ Chunk \in Nat
      BY <1>0, Numbers
    <3> DEFINE w == Way(Alive(s), toTarget)
               a == Way(Alive(s), acks)
               a1 == Way(Alive(s), acks')
               U == unacked[s]
    <3>3. w \in Nat /\ a1 \in Nat /\ n \in Nat /\ U \in Nat /\ a = a1 + n /\ w + a <= U /\ U < Window + Chunk
      BY <1>2, <2>4, <2>5, <3>1, <3>2
    <3> HIDE DEF w, a, a1, n
    <3>4. n <= U
      BY <3>3
    <3>5. b = U - n
      <4>1. Least(U, n) = n
        BY <3>3, <3>4 DEF Least
      <4> QED BY <4>1
    <3> HIDE DEF b
    <3> QED BY <3>2, <3>3, <3>4, <3>5
  <2>7. Pumped(s, J, b)
    <3>1. \A k \in 1..Len(jobs[s]) : jobs[s][k] \in J /\ ~Ended(toTarget[jobs[s][k]])
      BY <2>2 DEF QueuedOnce
    <3>2. IsInjective(jobs[s]) /\ J \in SUBSET Transfers
      BY <2>2 DEF QueuedOnce, Sendable, Behind
    <3> HIDE DEF J, b
    <3> QED BY <1>0, <2>1, <2>4, <2>6, <3>1, <3>2, PumpDoes DEF TransferInv
  <2>8. TransferFields'
    <3>1. /\ jobs' \in [TransferStreams -> Seq(Transfers)] /\ unacked' \in [TransferStreams -> Nat]
          /\ position' \in [Transfers -> Nat] /\ toTarget' \in Queues
      BY <2>7 DEF Pumped
    <3> QED BY <1>1, <1>3, <3>1 DEF TransferInv, TransferFields
  <2>9. J \in SUBSET Behind(s) /\ J \in SUBSET Transfers
    BY DEF Sendable, Behind
  <2>10. ASSUME NEW u \in Transfers PROVE Served(u)'
    <3>1. Served(u)
      BY DEF TransferInv
    <3>2. /\ position'[u] <= fileSize[u] /\ EndsOnce(toTarget'[u])
          /\ got[u] + Count(toTarget'[u]) <= position'[u]
          /\ transfer[u] \in Sent0 => got[u] + Count(toTarget'[u]) = position'[u]
          /\ transfer[u] \in {"idle", "asked"} /\ u \notin J => toTarget'[u] = <<>>
          /\ serving /\ u \notin changed => (Ended(toTarget'[u]) => position'[u] = fileSize[u])
      <4> HIDE DEF J, b
      <4> QED BY <1>0, <2>7, <2>9, PumpServes
    <3>3. transfer[u] \in {"idle", "asked"} => u \notin J
      BY DEF Sendable
    <3> HIDE DEF J
    <3> QED BY <1>1, <3>1, <3>2, <3>3 DEF Served
  <2>11. ASSUME NEW r \in TransferStreams PROVE QueuedOnce(r)' /\ Balanced(r)'
    <3>1. QueuedOnce(r) /\ Balanced(r)
      BY DEF TransferInv
    <3>2. CASE r # s
      <4>1. /\ Way(Alive(r), toTarget') = Way(Alive(r), toTarget) /\ jobs'[r] = jobs[r] /\ unacked'[r] = unacked[r]
            /\ \A u \in Behind(r) : Ended(toTarget'[u]) => Ended(toTarget[u])
        <5> HIDE DEF J, b
        <5> QED BY <1>0, <2>7, <2>9, <3>2, PumpElsewhere
      <4>2. QueuedOnce(r)'
        BY <1>1, <1>4, <3>1, <4>1 DEF QueuedOnce, Sendable
      <4>3. Balanced(r)'
        <5>1. t \notin Alive(r)
          BY <3>2 DEF Alive, Behind, s
        <5>2. Way(Alive(r), acks') = Way(Alive(r), acks)
          BY <1>5, <5>1
        <5> QED BY <1>1, <1>4, <3>1, <4>1, <5>2 DEF Balanced
      <4> QED BY <4>2, <4>3
    <3>3. CASE r = s
      <4>1. QueuedOnce(s)'
        <5>1. (\A k \in 1..Len(jobs'[s]) : jobs'[s][k] \in J /\ ~Ended(toTarget'[jobs'[s][k]])) /\ IsInjective(jobs'[s])
          BY <2>7 DEF Pumped
        <5> QED BY <1>0, <1>1, <1>4, <5>1 DEF QueuedOnce
      <4>2. Balanced(s)'
        <5>1. b + Way(Alive(s), acks) = unacked[s] + Way(Alive(s), acks')
          <6> DEFINE a == Way(Alive(s), acks)
                     a1 == Way(Alive(s), acks')
                     U == unacked[s]
          <6>1. a1 \in Nat /\ n \in Nat /\ U \in Nat /\ a = a1 + n /\ b = U - n
            BY <1>2, <2>4, <2>5, <2>6
          <6> HIDE DEF a, a1, U, b, n
          <6>2. b + a = U + a1
            BY <6>1
          <6> QED BY <6>2 DEF a, a1, U
        <5>2. Alive(s)' = Alive(s) /\ Behind(s)' = Behind(s)
          BY <1>0, <1>4
        <5>3. toTarget' \in Queues /\ acks' \in Queues
          BY <2>8 DEF TransferFields
        <5>4. serving /\ serving' = serving
          BY <1>1
        <5> HIDE DEF b, J
        <5> QED BY <1>0, <2>6, <2>7, <2>9, <5>1, <5>2, <5>3, <5>4, Rebalanced
      <4> QED BY <3>3, <4>1, <4>2
    <3> QED BY <3>2, <3>3
  <2> QED BY <2>8, <2>10, <2>11 DEF TransferInv
<1> QED BY <1>6, <1>7

LEMMA TransferStep == TransferInv /\ [TransferNext]_transferVars => TransferInv'
<1> SUFFICES ASSUME TransferInv, [TransferNext]_transferVars PROVE TransferInv'
  OBVIOUS
<1>1. CASE UNCHANGED transferVars
  <2>1. TransferFields'
    BY <1>1 DEF transferVars, TransferInv, TransferFields
  <2>2. ASSUME NEW t \in Transfers PROVE Served(t)'
    <3>1. Served(t)
      BY DEF TransferInv
    <3> QED BY <1>1, <3>1 DEF transferVars, Served
  <2>3. ASSUME NEW s \in TransferStreams PROVE QueuedOnce(s)' /\ Balanced(s)'
    <3>1. QueuedOnce(s) /\ Balanced(s)
      BY DEF TransferInv
    <3>2. Alive(s)' = Alive(s) /\ Behind(s)' = Behind(s) /\ Sendable(s)' = Sendable(s)
      BY <1>1 DEF transferVars, Alive, Behind, Sendable, Dead
    <3> QED BY <1>1, <3>1, <3>2 DEF transferVars, QueuedOnce, Balanced
  <2> QED BY <2>1, <2>2, <2>3 DEF TransferInv
<1>2. CASE OnShutdown
  BY <1>2, OnShutdownKeeps
<1>3. ASSUME NEW t \in Transfers, Serve(t) \/ Receive(t) \/ Fetch(t) \/ ContextDies(t) PROVE TransferInv'
  BY <1>3, ServeKeeps, ReceiveKeeps, FetchKeeps, ContextDiesKeeps
<1>4. ASSUME NEW t \in Transfers, NEW i, Acknowledge(t, i) PROVE TransferInv'
  BY <1>4, AcknowledgeKeeps
<1>5. ASSUME NEW t \in Transfers, NEW n \in 0..MaxSize, FileChanges(t, n) PROVE TransferInv'
  BY <1>5, FileChangesKeeps
<1> QED BY <1>1, <1>2, <1>3, <1>4, <1>5 DEF TransferNext, TransferProgress

\* The invariant gives what FileService promises.
LEMMA TransferSafely == TransferInv => TransferSafe
<1> SUFFICES ASSUME TransferInv PROVE TransferSafe
  OBVIOUS
<1>1. ASSUME NEW s \in TransferStreams
      PROVE  ToSet(jobs[s]) \subseteq {t \in Behind(s) : transfer[t] \in {"receiving", "dead"}} /\ IsInjective(jobs[s]) /\ unacked[s] \in Nat
  <2>1. DOMAIN jobs[s] = 1..Len(jobs[s]) /\ unacked[s] \in Nat
    BY Numbers, SeqSteps
  <2> QED BY <2>1 DEF TransferInv, QueuedOnce, Sendable, ToSet
<1>2. ASSUME NEW t \in Transfers PROVE got[t] <= position[t] /\ position[t] <= MaxSize
  <2>1. position[t] <= fileSize[t] /\ fileSize[t] <= MaxSize /\ got[t] + Count(toTarget[t]) <= position[t]
    BY DEF TransferInv, Served
  <2>2. position[t] \in Nat /\ fileSize[t] \in Nat /\ got[t] \in Nat /\ Count(toTarget[t]) \in Nat /\ MaxSize \in Nat
    BY Numbers, TransferAssumption DEF TransferAssumption
  <2> QED BY <2>1, <2>2
<1>3. TransferTypeOK
  BY <1>1, <1>2 DEF TransferTypeOK
<1>4. \A s, q : OnTheWay(s, q) = Way(Alive(s), q)
  BY DEF OnTheWay, Way, Under, Alive
<1>5. ASSUME NEW s \in TransferStreams, serving
      PROVE  Lost(s) >= 0 /\ (Lost(s) > 0 => \E t \in Behind(s) : Dead(t))
  <2> DEFINE T == Way(Alive(s), toTarget)
             A == Way(Alive(s), acks)
             U == unacked[s]
  <2>1. T \in Nat /\ A \in Nat /\ U \in Nat
    BY Numbers
  <2>2. T + A <= U /\ (Behind(s) \subseteq Alive(s) => T + A = U)
    BY <1>5 DEF TransferInv, Balanced
  <2>3. Lost(s) = U - T - A
    BY <1>4 DEF Lost
  <2>4. (\A t \in Behind(s) : ~Dead(t)) => Behind(s) \subseteq Alive(s)
    BY DEF Alive
  <2> HIDE DEF T, A, U
  <2>5. U - T - A >= 0 /\ (U - T - A > 0 => ~(Behind(s) \subseteq Alive(s)))
    BY <2>1, <2>2
  <2> QED BY <2>3, <2>4, <2>5
<1>6. AccountsBalance
  BY <1>5 DEF AccountsBalance
<1>7. WindowHeld
  BY <1>4 DEF TransferInv, Balanced, WindowHeld
<1>8. InterruptedForCause
  BY DEF TransferInv, Served, InterruptedForCause
<1> QED BY <1>3, <1>6, <1>7, <1>8 DEF TransferSafe

\* FileService keeps true books: what a stream has unacknowledged is what is under way on it,
\* within the window and a chunk, whatever the order of acknowledgements, the deaths of
\* targets and the shutdown; and a transfer is cut short only by a change of its file or the shutdown.
THEOREM TransferCorrect == TransferSpec => []TransferSafe
<1>1. TransferInit => TransferInv
  BY TransferInitially
<1>2. TransferInv /\ [TransferNext]_transferVars => TransferInv'
  BY TransferStep
<1>3. TransferInv => TransferSafe
  BY TransferSafely
<1> QED BY <1>1, <1>2, <1>3, PTL DEF TransferSpec
=============================================================================
