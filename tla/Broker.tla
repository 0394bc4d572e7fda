------------------------------- MODULE Broker -------------------------------
(***************************************************************************)
(* mitogen.core.Broker and its Waker: one thread multiplexes streams; any  *)
(* other thread changes its state by deferring a function, which it puts   *)
(* on a deque before it writes a byte to the broker's self-pipe.  Nothing  *)
(* here takes a lock, so every read of a flag, append, write and popleft   *)
(* of the callers interleaves with the broker's steps.                     *)
(*                                                                         *)
(* A stream is in the poller when its receive side is registered; write    *)
(* sides come and go with it and are left out.  The poller is the one of   *)
(* core.py, over select(); timers belong to mitogen.parent.                *)
(***************************************************************************)
EXTENDS Naturals, Sequences, FiniteSets

CONSTANTS Callers,     \* threads other than the broker's
          Streams,     \* streams that callers may register
          Lingering,   \* those whose on_shutdown() does not disconnect them
          Passive,     \* those whose receive side has keep_alive unset
          MaxCalls,    \* bound on the calls of each caller
          PipeSize,    \* bytes the self-pipe holds before a write would block
          Waker,       \* the stream of the self-pipe
          NoStream     \* argument of the calls that have none

ASSUME BrokerAssumption == /\ Lingering \subseteq Streams
                           /\ Passive \subseteq Streams
                           /\ Waker \notin Streams
                           /\ NoStream \notin Streams
                           /\ MaxCalls \in Nat
                           /\ PipeSize \in Nat \ {0}

VARIABLES alive,      \* Broker._alive
          exitted,    \* Broker._exitted
          bpc,        \* where the broker thread is
          readers,    \* streams whose receive side is in Broker.poller
          closed,     \* streams whose sides on_disconnect() has closed
          ready,      \* sides _poll() has yet to yield in this iteration
          leaving,    \* sides _broker_shutdown() has yet to call
          expired,    \* the deadline of _broker_shutdown() has passed
          deferred,   \* Waker._deferred
          bytes,      \* bytes in the self-pipe
          pc,         \* where each caller is
          op,         \* the function each caller is deferring
          calls,      \* number of calls each caller has begun
          ran,        \* identities of the deferred functions that were run
          accepted,   \* identities of the calls whose defer() returned
          raised      \* <<identity, cause>> of the calls whose defer() raised

brokerVars == <<alive, exitted, bpc, readers, closed, ready, leaving, expired>>
wakerVars  == <<deferred, bytes>>
callerVars == <<pc, op, calls, accepted, raised>>
vars == <<brokerVars, wakerVars, callerVars, ran>>

\* What a deferred function does: nothing the broker sees, an answer to
\* defer_sync(), Broker.shutdown()'s _shutdown(), raise, or start_receive().
Ops == [does : {"call", "sync", "stop", "raise"}, stream : {NoStream}]
         \cup [does : {"receive"}, stream : Streams]

Ids  == Callers \X (1..MaxCalls)
Id(c) == <<c, calls[c]>>
Jobs == [id : Ids, op : Ops]

WakerOpen == Waker \notin closed

TypeOK == /\ alive \in BOOLEAN /\ exitted \in BOOLEAN /\ expired \in BOOLEAN
          /\ bpc \in {"loop", "dispatch", "drain", "shutdown", "grace", "gracecall",
                      "exiting", "exit", "done"}
          /\ readers \subseteq Streams \cup {Waker}
          /\ closed \subseteq Streams \cup {Waker}
          /\ ready \subseteq Streams \cup {Waker}
          /\ leaving \subseteq Streams \cup {Waker}
          /\ deferred \in Seq(Jobs)
          /\ bytes \in 0..PipeSize
          /\ pc \in [Callers -> {"idle", "check", "append", "wake", "write", "waiting"}]
          /\ op \in [Callers -> Ops]
          /\ calls \in [Callers -> 0..MaxCalls]
          /\ ran \subseteq Ids
          /\ accepted \subseteq Ids
          /\ raised \subseteq Ids \X {"exitted", "full", "closed"}

Init == /\ alive = TRUE
        /\ exitted = FALSE
        /\ bpc = "loop"
        /\ readers = {Waker}
        /\ closed = {}
        /\ ready = {}
        /\ leaving = {}
        /\ expired = FALSE
        /\ deferred = <<>>
        /\ bytes = 0
        /\ pc = [c \in Callers |-> "idle"]
        /\ op = [c \in Callers |-> [does |-> "call", stream |-> NoStream]]
        /\ calls = [c \in Callers |-> 0]
        /\ ran = {}
        /\ accepted = {}
        /\ raised = {}

-----------------------------------------------------------------------------
(* Callers: defer(), defer_sync(), shutdown(), start_receive() *)

\* shutdown() defers only if it finds the broker running, and start_receive()
\* asserts that the side is open.
Begin(c, o) ==
  /\ pc[c] = "idle"
  /\ calls[c] < MaxCalls
  /\ o.does = "stop" => alive /\ ~exitted
  /\ o.stream \notin closed
  /\ calls' = [calls EXCEPT ![c] = @ + 1]
  /\ op' = [op EXCEPT ![c] = o]
  /\ pc' = [pc EXCEPT ![c] = "check"]
  /\ UNCHANGED <<brokerVars, wakerVars, accepted, raised, ran>>

DeferRefused(c) ==
  /\ pc[c] = "check"
  /\ exitted
  /\ raised' = raised \cup {<<Id(c), "exitted">>}
  /\ pc' = [pc EXCEPT ![c] = "idle"]
  /\ UNCHANGED <<brokerVars, wakerVars, op, calls, accepted, ran>>

DeferChecked(c) ==
  /\ pc[c] = "check"
  /\ ~exitted
  /\ pc' = [pc EXCEPT ![c] = "append"]
  /\ UNCHANGED <<brokerVars, wakerVars, op, calls, accepted, raised, ran>>

PushLeft(job) == <<job>> \o deferred    \* mutation: appendleft() for append()
Push(job)     == Append(deferred, job)
DeferAppend(c) ==
  /\ pc[c] = "append"
  /\ deferred' = Push([id |-> Id(c), op |-> op[c]])
  /\ pc' = [pc EXCEPT ![c] = "wake"]
  /\ UNCHANGED <<brokerVars, bytes, op, calls, accepted, raised, ran>>

Accept(c) ==
  /\ accepted' = accepted \cup {Id(c)}
  /\ pc' = [pc EXCEPT ![c] = IF op[c].does = "sync" THEN "waiting" ELSE "idle"]
  /\ UNCHANGED raised

Fail(c, cause) ==
  /\ raised' = raised \cup {<<Id(c), cause>>}
  /\ pc' = [pc EXCEPT ![c] = "idle"]
  /\ UNCHANGED accepted

\* _wake(): Side.write() returns at once if the side is closed, or goes on to
\* write to its descriptor.
DeferWake(c) ==
  /\ pc[c] = "wake"
  /\ \/ ~WakerOpen /\ Accept(c)
     \/ WakerOpen /\ pc' = [pc EXCEPT ![c] = "write"] /\ UNCHANGED <<accepted, raised>>
  /\ UNCHANGED <<brokerVars, wakerVars, op, calls, ran>>

\* The pipe may be full (EWOULDBLOCK), or closed since the check (EBADF).
DeferWrite(c) ==
  /\ pc[c] = "write"
  /\ \/ /\ WakerOpen /\ bytes < PipeSize
        /\ bytes' = bytes + 1
        /\ Accept(c)
     \/ /\ WakerOpen /\ bytes = PipeSize
        /\ Fail(c, "full")
        /\ UNCHANGED bytes
     \/ /\ ~WakerOpen
        /\ Fail(c, "closed")
        /\ UNCHANGED bytes
  /\ UNCHANGED <<brokerVars, deferred, op, calls, ran>>

\* latch.get() of defer_sync()
SyncReturn(c) ==
  /\ pc[c] = "waiting"
  /\ Id(c) \in ran
  /\ pc' = [pc EXCEPT ![c] = "idle"]
  /\ UNCHANGED <<brokerVars, wakerVars, op, calls, accepted, raised, ran>>

-----------------------------------------------------------------------------
(* The broker thread *)

\* Protocol.on_disconnect(): the stream leaves the poller, its sides are closed.
Disconnect(S) == readers' = readers \ S /\ closed' = closed \cup S

WakerAssumed  == WakerOpen    \* mutation: assume that there is a byte to read
WakerReadable == WakerOpen /\ bytes > 0

\* poll() yields the self-pipe whenever it is readable; whether another stream
\* is readable is up to its peer.
Poll ==
  /\ bpc = "loop"
  /\ alive
  /\ readers \cap closed = {}
  /\ \E S \in SUBSET (readers \ {Waker}) :
       ready' = S \cup (IF WakerReadable THEN {Waker} ELSE {})
  /\ ready' # {}
  /\ bpc' = "dispatch"
  /\ UNCHANGED <<alive, exitted, readers, closed, leaving, expired, wakerVars,
                 callerVars, ran>>

KeepAlive == readers \ Passive # {}

\* poll() with the time left before the deadline
PollGrace ==
  /\ bpc = "grace"
  /\ KeepAlive
  /\ ~expired
  /\ readers \cap closed = {}
  /\ ready' \in SUBSET readers \ {{}}
  /\ bpc' = "gracecall"
  /\ UNCHANGED <<alive, exitted, readers, closed, leaving, expired, wakerVars,
                 callerVars, ran>>

\* _call() of a stream's handler: an event for a side that has left the poller
\* is discarded; a handler may disconnect its stream, by raising or on its own,
\* or call Broker.shutdown().
Dispatch(s) ==
  /\ bpc \in {"dispatch", "gracecall"}
  /\ s \in ready \ {Waker}
  /\ ready' = ready \ {s}
  /\ \/ UNCHANGED <<readers, closed, alive>>
     \/ s \in readers /\ Disconnect({s}) /\ UNCHANGED alive
     \/ s \in readers /\ alive' = FALSE /\ UNCHANGED <<readers, closed>>
  /\ bpc' = IF ready' # {} THEN bpc ELSE IF bpc = "gracecall" THEN "grace" ELSE "loop"
  /\ UNCHANGED <<exitted, leaving, expired, wakerVars, callerVars, ran>>

\* Waker.on_receive(), entered after reading one byte
ReadWaker ==
  /\ bpc = "dispatch"
  /\ Waker \in ready
  /\ bytes' = bytes - 1
  /\ ready' = ready \ {Waker}
  /\ bpc' = "drain"
  /\ UNCHANGED <<alive, exitted, readers, closed, leaving, expired, deferred,
                 callerVars, ran>>

NextJob == Head(deferred)
\* mutation: a function that raises stays on the deque
Retried   == IF NextJob.op.does = "raise" THEN deferred ELSE Tail(deferred)
Remaining == Tail(deferred)

\* A function that raises makes on_receive() call Broker.shutdown().  A stream
\* that is registered again has its pending event discarded.
Drain ==
  LET job == NextJob IN
  /\ bpc = "drain"
  /\ deferred # <<>>
  /\ deferred' = Remaining
  /\ ran' = ran \cup {job.id}
  /\ alive' = (alive /\ job.op.does \notin {"stop", "raise"})
  /\ readers' = IF job.op.does = "receive" THEN readers \cup {job.op.stream} ELSE readers
  /\ ready' = ready \ {job.op.stream}
  /\ UNCHANGED <<exitted, bpc, closed, leaving, expired, bytes, callerVars>>

DrainedOne == TRUE    \* mutation: return before the deque is empty
Drained    == deferred = <<>>
DrainEnd ==
  /\ bpc = "drain"
  /\ Drained
  /\ bpc' = IF ready = {} THEN "loop" ELSE "dispatch"
  /\ UNCHANGED <<alive, exitted, readers, closed, ready, leaving, expired, wakerVars,
                 callerVars, ran>>

\* An exception ends _do_broker_main() if poll() raises it, which select() does
\* for a descriptor that is closed, or if an on_disconnect() or a listener does.
Crash ==
  /\ \/ bpc \in {"loop", "grace"} /\ readers \cap closed # {}
     \/ bpc \in {"dispatch", "gracecall"} /\ ready \ {Waker} # {}
     \/ bpc = "shutdown"
  /\ bpc' = "exiting"
  /\ ready' = {}
  /\ leaving' = {}
  /\ UNCHANGED <<alive, exitted, readers, closed, expired, wakerVars, callerVars, ran>>

BeginShutdown ==
  /\ bpc = "loop"
  /\ ~alive
  /\ leaving' = readers
  /\ bpc' = "shutdown"
  /\ UNCHANGED <<alive, exitted, readers, closed, ready, expired, wakerVars,
                 callerVars, ran>>

\* Protocol.on_shutdown() disconnects, also the self-pipe; so does raising.
ShutdownStream(s) ==
  /\ bpc = "shutdown"
  /\ s \in leaving
  /\ leaving' = leaving \ {s}
  /\ \/ Disconnect({s})
     \/ s \in Lingering /\ UNCHANGED <<readers, closed>>
  /\ bpc' = IF leaving' = {} THEN "grace" ELSE bpc
  /\ UNCHANGED <<alive, exitted, ready, expired, wakerVars, callerVars, ran>>

Deadline ==
  /\ bpc \in {"grace", "gracecall"}
  /\ ~expired
  /\ expired' = TRUE
  /\ UNCHANGED <<alive, exitted, bpc, readers, closed, ready, leaving, wakerVars,
                 callerVars, ran>>

GraceForever == ~KeepAlive    \* mutation: no deadline
GraceOver    == ~KeepAlive \/ expired
GraceEnd ==
  /\ bpc = "grace"
  /\ GraceOver
  /\ bpc' = "exiting"
  /\ UNCHANGED <<alive, exitted, readers, closed, ready, leaving, expired, wakerVars,
                 callerVars, ran>>

SetExitted ==
  /\ bpc = "exiting"
  /\ alive' = FALSE
  /\ exitted' = TRUE
  /\ bpc' = "exit"
  /\ UNCHANGED <<readers, closed, ready, leaving, expired, wakerVars, callerVars, ran>>

BrokerExit ==
  /\ bpc = "exit"
  /\ Disconnect(readers)
  /\ bpc' = "done"
  /\ UNCHANGED <<alive, exitted, ready, leaving, expired, wakerVars, callerVars, ran>>

BrokerNext == \/ Poll \/ PollGrace \/ ReadWaker \/ Drain \/ DrainEnd \/ Crash
              \/ BeginShutdown \/ Deadline \/ GraceEnd \/ SetExitted \/ BrokerExit
              \/ \E s \in Streams : Dispatch(s)
              \/ \E s \in Streams \cup {Waker} : ShutdownStream(s)

CallerNext(c) == \/ DeferRefused(c) \/ DeferChecked(c) \/ DeferAppend(c)
                 \/ DeferWake(c) \/ DeferWrite(c) \/ SyncReturn(c)

Next == \/ BrokerNext
        \/ \E c \in Callers : CallerNext(c) \/ \E o \in Ops : Begin(c, o)

Spec == Init /\ [][Next]_vars

\* Every thread is scheduled, and time passes.
Fairness == /\ WF_vars(BrokerNext)
            /\ WF_vars(Deadline)
            /\ \A c \in Callers : WF_vars(CallerNext(c))
FairSpec == Spec /\ Fairness

-----------------------------------------------------------------------------
\* No lost wakeup: while the broker serves its self-pipe and a function is on the
\* deque, the broker is about to look, or a byte in the pipe will make it look,
\* or the thread that appended is about to write that byte.
Armed ==
  (deferred # <<>> /\ WakerOpen /\ bpc \in {"loop", "dispatch", "drain"}) =>
    \/ bpc = "drain"
    \/ Waker \in ready
    \/ bytes > 0
    \/ \E c \in Callers : pc[c] \in {"wake", "write"}

\* A deferred function runs at most once, also if it raises, and the function of
\* a defer() that Error refused never does: what is on the deque has not run, and
\* no two of its elements are the same call.
RunOnce ==
  /\ \A j, k \in DOMAIN deferred : deferred[j].id = deferred[k].id => j = k
  /\ \A j \in DOMAIN deferred : deferred[j].id \notin ran
  /\ \A i \in Ids : <<i, "exitted">> \in raised =>
       i \notin ran /\ \A j \in DOMAIN deferred : deferred[j].id # i

\* The functions that a thread defers run in the order it deferred them, those of
\* a defer() that raised because the pipe was full or closed included: none of them
\* is overtaken by one deferred later, and none is left behind by a shutdown.
InOrder ==
  \A c \in Callers : \A i, j \in 1..MaxCalls :
    i < j /\ <<c, j>> \in ran => <<c, i>> \in ran

\* What the loop promises for the functions it is given: once, and in order.
DeferredSafe == RunOnce /\ InOrder

\* While the broker stays up, a function whose defer() returned is run.
AcceptedRuns == []<>(~alive \/ accepted \subseteq ran)

\* Broker.shutdown() stops the broker, whatever its streams do: they have until
\* the deadline.
StopEnds == []<>(bpc = "done" \/ \A c \in Callers : op[c].does = "stop" => Id(c) \notin accepted)

-----------------------------------------------------------------------------
\* "Use defer_sync to block until a result is available": every defer_sync()
\* that got past defer() returns.  It does not, when it races the shutdown.
SyncReturns == \A c \in Callers : (pc[c] = "waiting") ~> (pc[c] = "idle")
=============================================================================
