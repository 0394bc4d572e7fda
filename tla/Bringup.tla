------------------------------ MODULE Bringup -------------------------------
(* mitogen.parent.Connection, Reaper and TimerList on the broker of a parent:   *)
(* connection attempts with their deadline, the loss of the pipes of the child, *)
(* and the shutdown of the broker, which calls its listeners one by one while   *)
(* they leave the list.  How a child is reaped goes on after the attempt.       *)
(*                                                                              *)
(* Time is reduced to timers that may expire.  What a child says is Login's.    *)
EXTENDS Integers, Sequences, FiniteSets, SequencesExt

CONSTANTS Attempts, Detached,  \* Detached: children that may live on
          HasStderr,           \* those started with a stderr stream of their own
          Stubborn,            \* those that ignore SIGTERM
          TermAt, KillAt, MaxTries  \* tries of the Reaper: 2, 6 and 20 in the code
ASSUME BringupAssumption ==
  /\ Detached \cup HasStderr \cup Stubborn \subseteq Attempts
  /\ TermAt \in Nat \ {0} /\ KillAt \in Nat /\ MaxTries \in Nat /\ TermAt < KillAt

VARIABLES conn,      \* the Connection of each attempt
          child,     \* its process: none, runs, exited, reaped
          caller,    \* the thread in connect(): calls, waits, returned, raised
          listeners, \* of the broker's 'shutdown' signal, in the order of listen()
          broker,    \* runs, fires, streams (on_shutdown), grace, exiting, exited
          next,      \* listener that fire() calls next
          late       \* attempts that began after the signal had been fired

bringupVars == <<conn, child, caller, listeners, broker, next, late>>

\* exception "no": none yet; tries 0: no Reaper.
Unstarted == [stdio |-> "none", stderr |-> "none", timer |-> FALSE, exception |-> "no", puts |-> 0,
              registered |-> FALSE, tries |-> 0, reapTimer |-> FALSE, signals |-> <<>>]

BringupInit ==
  /\ conn = [a \in Attempts |-> Unstarted] /\ child = [a \in Attempts |-> "none"]
  /\ caller = [a \in Attempts |-> "calls"] /\ listeners = <<>>
  /\ broker = "runs" /\ next = 1 /\ late = {}

Listener(kind, a) == <<kind, a>>
Pending(a) == conn[a].timer
Unlisten(ls, l) == IF l \in ToSet(ls) THEN RemoveFirst(ls, l) ELSE ls

-----------------------------------------------------------------------------
\* A child that announced that it would go its own way, once it was connected.
IsDetached(a, s) == a \in Detached /\ s.c.registered

\* What a handler on the broker thread does to attempt a: s holds its connection c,
\* its child p and the listeners ls.
State(a) == [c |-> conn[a], p |-> child[a], ls |-> listeners]
Becomes(a, s) ==
  /\ conn' = [conn EXCEPT ![a] = s.c] /\ child' = [child EXCEPT ![a] = s.p]
  /\ listeners' = s.ls

\* mutation: an attempt that is complete still listens.
CompleteListening(a, s) ==
  [s EXCEPT !.c = [s.c EXCEPT !.timer = FALSE, !.puts = @ + 1, !.registered = (s.c.exception = "no") \/ @]]

\* mutation: the latch is filled on success only.
CompleteSilent(a, s) ==
  [s EXCEPT !.c = [s.c EXCEPT !.timer = FALSE, !.puts = @ + (IF s.c.exception = "no" THEN 1 ELSE 0),
                            !.registered = (s.c.exception = "no") \/ @],
            !.ls = IF s.c.exception = "no" THEN Unlisten(@, Listener("conn", a)) ELSE @]

\* _complete_connection()
Complete(a, s) ==
  [s EXCEPT !.c = [s.c EXCEPT !.timer = FALSE, !.puts = @ + 1, !.registered = (s.c.exception = "no") \/ @],
            !.ls = IF s.c.exception = "no" THEN Unlisten(@, Listener("conn", a)) ELSE @]

\* The first lines of _fail_connection(): only the first exception counts.
NoteException(a, s, e) ==
  IF s.c.exception # "no" THEN s
  ELSE [s EXCEPT !.c = [s.c EXCEPT !.exception = e], !.ls = Unlisten(@, Listener("conn", a))]

\* mutation: SIGKILL comes first.
SignalHard(a, s) ==
  CASE ~IsDetached(a, s) /\ s.c.tries = TermAt -> [s EXCEPT !.c = [s.c EXCEPT !.signals = Append(@, "KILL")], !.p = "exited"]
    [] OTHER -> s

\* _signal_child() on its tries.
SignalChild(a, s) ==
  CASE ~IsDetached(a, s) /\ s.c.tries = TermAt ->
         [s EXCEPT !.c = [s.c EXCEPT !.signals = Append(@, "TERM")], !.p = IF a \in Stubborn THEN @ ELSE "exited"]
    [] ~IsDetached(a, s) /\ s.c.tries = KillAt ->
         [s EXCEPT !.c = [s.c EXCEPT !.signals = Append(@, "KILL")], !.p = "exited"]
    [] OTHER -> s

\* _remove_timer(): the listener goes only with a timer that is still active.
RemoveTimer(a, s) ==
  IF s.c.reapTimer THEN [s EXCEPT !.c.reapTimer = FALSE, !.ls = Unlisten(@, Listener("reap", a))] ELSE s

\* mutation: a child that is still there is looked at once more without a timer.
ReapOnce(a, s) ==
  CASE s.p = "exited" -> RemoveTimer(a, [s EXCEPT !.c = [s.c EXCEPT !.tries = @ + 1], !.p = "reaped"])
    [] OTHER -> SignalChild(a, [s EXCEPT !.c.tries = @ + 1])

\* mutation: it is never given up.
ReapForever(a, s) ==
  CASE s.p = "exited" -> RemoveTimer(a, [s EXCEPT !.c = [s.c EXCEPT !.tries = @ + 1], !.p = "reaped"])
    [] OTHER ->
         SignalChild(a, [s EXCEPT !.c = [s.c EXCEPT !.tries = @ + 1, !.reapTimer = TRUE],
                                  !.ls = IF s.c.tries = 0 THEN Append(@, Listener("reap", a)) ELSE @])

\* Reaper.reap()
Reap(a, s) ==
  CASE s.p = "exited" -> RemoveTimer(a, [s EXCEPT !.c = [s.c EXCEPT !.tries = @ + 1], !.p = "reaped"])
    [] s.p # "exited" /\ s.c.tries = MaxTries -> RemoveTimer(a, [s EXCEPT !.c.tries = @ + 1])
    [] OTHER ->
         SignalChild(a, [s EXCEPT !.c = [s.c EXCEPT !.tries = @ + 1, !.reapTimer = TRUE],
                                  !.ls = IF s.c.tries = 0 THEN Append(@, Listener("reap", a)) ELSE @])

\* _on_streams_disconnected(): both streams are closed, so that the failure finds
\* nothing more to disconnect.
BothGone(a, s) ==
  LET f == IF s.c.timer
           THEN Complete(a, NoteException(a, [s EXCEPT !.c.timer = FALSE], "eof")) ELSE s
  IN IF f.c.tries > 0 THEN f ELSE Reap(a, f)

\* mutation: the loss of stdout fails the attempt, before stderr is read to its end.
StdioGoneEarly(a, s) == IF s.c.stdio # "open" THEN s ELSE BothGone(a, [s EXCEPT !.c.stdio = "closed"])

\* on_disconnect() of either stream, with on_stdio_disconnect(), on_stderr_disconnect().
StdioGone(a, s) ==
  IF s.c.stdio # "open" THEN s
  ELSE LET t == [s EXCEPT !.c.stdio = "closed"] IN IF t.c.stderr # "open" THEN BothGone(a, t) ELSE t
StderrGone(a, s) ==
  IF s.c.stderr # "open" THEN s
  ELSE LET t == [s EXCEPT !.c.stderr = "closed"] IN IF t.c.stdio # "open" THEN BothGone(a, t) ELSE t

\* _fail_connection()
Fail(a, s, e) == Complete(a, StderrGone(a, StdioGone(a, NoteException(a, s, e))))

-----------------------------------------------------------------------------
\* connect(), on a thread of the program: the rest is deferred to the broker, which
\* runs it unless it exits before.
Connect(a) ==
  /\ caller[a] = "calls" /\ broker # "exited" /\ caller' = [caller EXCEPT ![a] = "waits"]
  /\ UNCHANGED <<conn, child, listeners, broker, next, late>>

Looping == broker \in {"runs", "grace"}

\* _async_connect(): the child starts, or start_child() raises.
AsyncConnect(a) ==
  /\ Looping /\ caller[a] = "waits" /\ conn[a] = Unstarted
  /\ LET s == [State(a) EXCEPT !.c = [conn[a] EXCEPT !.timer = TRUE], !.ls = Append(@, Listener("conn", a))]
     IN \/ Becomes(a, Fail(a, s, "start"))
        \/ Becomes(a, [s EXCEPT !.c = [s.c EXCEPT !.stdio = "open", !.stderr = IF a \in HasStderr THEN "open" ELSE "none"],
                                !.p = "runs"])
  /\ late' = IF broker = "grace" THEN late \cup {a} ELSE late
  /\ UNCHANGED <<caller, broker, next>>

\* The third marker of the bootstrap, a prompt that cannot be answered, the deadline.
Booted(a) ==
  /\ Looping /\ Pending(a) /\ conn[a].stdio = "open" /\ child[a] = "runs"
  /\ Becomes(a, Complete(a, State(a))) /\ UNCHANGED <<caller, broker, next, late>>
Refused(a) ==
  /\ Looping /\ Pending(a) /\ (conn[a].stderr = "open" \/ conn[a].stdio = "open")
  /\ Becomes(a, Fail(a, State(a), "password")) /\ UNCHANGED <<caller, broker, next, late>>
\* TimerList.expire() with _on_timer_expired(): the timer is inactive by then.
TimerExpired(a) ==
  /\ Looping /\ Pending(a)
  /\ Becomes(a, Fail(a, [State(a) EXCEPT !.c.timer = FALSE], "timeout"))
  /\ UNCHANGED <<caller, broker, next, late>>

\* The child exits; each of its pipes reads as empty some time later.
ChildExits(a) ==
  /\ child[a] = "runs" /\ child' = [child EXCEPT ![a] = "exited"]
  /\ UNCHANGED <<conn, caller, listeners, broker, next, late>>
StdioEof(a) ==
  /\ Looping /\ child[a] # "runs" /\ conn[a].stdio = "open"
  /\ Becomes(a, StdioGone(a, State(a))) /\ UNCHANGED <<caller, broker, next, late>>
StderrEof(a) ==
  /\ Looping /\ child[a] # "runs" /\ conn[a].stderr = "open"
  /\ Becomes(a, StderrGone(a, State(a))) /\ UNCHANGED <<caller, broker, next, late>>
\* The connection is lost while the child runs on (its pipes are closed).
PipesLost(a) ==
  /\ Looping /\ child[a] = "runs" /\ conn[a].stdio = "open"
  /\ Becomes(a, StderrGone(a, StdioGone(a, State(a)))) /\ UNCHANGED <<caller, broker, next, late>>

\* TimerList.expire() with Reaper.reap().
ReapTimer(a) ==
  /\ Looping /\ conn[a].reapTimer
  /\ Becomes(a, Reap(a, [State(a) EXCEPT !.c.reapTimer = FALSE]))
  /\ UNCHANGED <<caller, broker, next, late>>

\* connect() goes on when the latch has an element.
\* mutation: the exception is not looked at.
ReturnAnyway(a) ==
  /\ caller[a] = "waits" /\ conn[a].puts > 0 /\ caller' = [caller EXCEPT ![a] = "returned"]
  /\ UNCHANGED <<conn, child, listeners, broker, next, late>>
Return(a) ==
  /\ caller[a] = "waits" /\ conn[a].puts > 0
  /\ caller' = [caller EXCEPT ![a] = IF conn[a].exception = "no" THEN "returned" ELSE "raised"]
  /\ UNCHANGED <<conn, child, listeners, broker, next, late>>

-----------------------------------------------------------------------------
\* Broker.shutdown(), then fire(): the list is walked by index while the functions
\* take themselves off it.
Shutdown ==
  /\ broker = "runs" /\ broker' = "fires" /\ next' = 1
  /\ UNCHANGED <<conn, child, caller, listeners, late>>
FireConnection ==
  /\ broker = "fires" /\ next <= Len(listeners) /\ listeners[next][1] = "conn"
  /\ LET a == listeners[next][2] IN Becomes(a, Fail(a, State(a), "shutdown"))
  /\ next' = next + 1 /\ UNCHANGED <<caller, broker, late>>
FireReaper ==
  /\ broker = "fires" /\ next <= Len(listeners) /\ listeners[next][1] = "reap"
  /\ LET a == listeners[next][2]
     IN conn' = IF IsDetached(a, State(a)) THEN [conn EXCEPT ![a].reapTimer = FALSE] ELSE conn
  /\ next' = next + 1 /\ UNCHANGED <<child, listeners, caller, broker, late>>
Fired ==
  /\ broker = "fires" /\ next > Len(listeners) /\ broker' = "streams"
  /\ UNCHANGED <<conn, child, caller, listeners, next, late>>

\* on_shutdown() of every stream: one that is connected asks its child to go, all
\* others are disconnected.
OpenConnections == {a \in Attempts : conn[a].stdio = "open" \/ conn[a].stderr = "open"}
StreamShutdown(a, s) == StderrGone(a, IF s.c.registered THEN s ELSE StdioGone(a, s))
\* mutation: the streams are not asked.
StreamsNot ==
  /\ broker = "streams" /\ broker' = "grace"
  /\ UNCHANGED <<conn, child, caller, listeners, next, late>>

ShutdownStreams ==
  /\ broker = "streams"
  /\ \/ \E a \in {b \in OpenConnections : ~conn[b].registered \/ conn[b].stderr = "open"} :
           Becomes(a, StreamShutdown(a, State(a))) /\ UNCHANGED broker
     \/ /\ \A a \in OpenConnections : conn[a].registered /\ conn[a].stderr # "open"
        /\ broker' = "grace" /\ UNCHANGED <<conn, child, listeners>>
  /\ UNCHANGED <<caller, next, late>>

\* Broker.keep_alive(): a stream is left, or a timer.
KeepAlive == OpenConnections # {} \/ \E a \in Attempts : conn[a].timer \/ conn[a].reapTimer

\* The grace period ends with nothing left to wait for, or with its deadline;
\* _broker_exit() disconnects what is still there.
GraceOver ==
  /\ broker = "grace" /\ ~KeepAlive /\ broker' = "exiting"
  /\ UNCHANGED <<conn, child, caller, listeners, next, late>>
DeadlineOver ==
  /\ broker = "grace" /\ KeepAlive /\ broker' = "exiting"
  /\ UNCHANGED <<conn, child, caller, listeners, next, late>>
Exit ==
  /\ broker = "exiting"
  /\ \/ \E a \in OpenConnections :
          Becomes(a, StderrGone(a, StdioGone(a, State(a)))) /\ UNCHANGED broker
     \/ OpenConnections = {} /\ broker' = "exited" /\ UNCHANGED <<conn, child, listeners>>
  /\ UNCHANGED <<caller, next, late>>

BrokerSteps ==
  \/ FireConnection \/ FireReaper \/ Fired \/ ShutdownStreams \/ GraceOver \/ Exit
  \/ \E a \in Attempts : AsyncConnect(a) \/ TimerExpired(a) \/ StdioEof(a) \/ StderrEof(a) \/ ReapTimer(a)
BringupNext ==
  \/ BrokerSteps \/ Shutdown \/ DeadlineOver
  \/ \E a \in Attempts : Connect(a) \/ Booted(a) \/ Refused(a) \/ ChildExits(a) \/ PipesLost(a) \/ Return(a)
BringupSpec == BringupInit /\ [][BringupNext]_bringupVars

-----------------------------------------------------------------------------
BringupTypeOK ==
  /\ \A a \in Attempts : conn[a].registered => conn[a].stdio # "none"
  /\ \A a \in Attempts : conn[a].tries \in 0..(MaxTries + 1) /\ Len(conn[a].signals) <= 2
  /\ broker \in {"runs", "fires", "streams", "grace", "exiting", "exited"}

\* An attempt is either registered or failed, for good, and its caller learns the
\* same, however often the latch is filled (connect() against _fail_connection()).
OneOutcome ==
  \A a \in Attempts :
    /\ ~(conn[a].registered /\ conn[a].exception # "no")
    /\ (caller[a] = "returned" => conn[a].registered) /\ (caller[a] = "raised" => conn[a].exception # "no")
    /\ (conn[a].puts > 0 <=> conn[a].registered \/ conn[a].exception # "no")

\* A connection listens to the shutdown of the broker exactly while it is pending,
\* so that unlisten() never raises and no listener of an attempt is left behind.
ListensWhilePending ==
  \A a \in Attempts :
    Cardinality({i \in DOMAIN listeners : listeners[i] = Listener("conn", a)}) = IF Pending(a) THEN 1 ELSE 0

\* Failing for the loss of the pipes waits for both, so that the log of the child
\* is complete (on_stdio_disconnect()).
EofAfterBoth == \A a \in Attempts : conn[a].exception = "eof" => conn[a].stdio # "open" /\ conn[a].stderr # "open"

\* No attempt is left pending by the shutdown of the broker, although fire() steps
\* over listeners: the streams are disconnected next.
ShutdownSettles == broker \in {"grace", "exiting", "exited"} => \A a \in Attempts \ late : ~Pending(a)

\* SIGKILL only after SIGTERM, and neither to a child that may live on.
TermFirst ==
  \A a \in Attempts : /\ (IsDetached(a, State(a)) => conn[a].signals = <<>>)
                      /\ conn[a].signals \in {<<>>, <<"TERM">>, <<"TERM", "KILL">>}

\* The grace period lasts, its deadline aside, until each child that lost its
\* streams was reaped or given up, and never waits for a detached one.
GraceWaits ==
  [][GraceOver => \A a \in Attempts :
       \/ IsDetached(a, State(a)) \/ child[a] \in {"none", "reaped"} \/ conn[a].tries > MaxTries]_bringupVars
\* Every call of connect() returns, unless the broker exits before it sees it.
ConnectReturns == []<>(\A a \in Attempts : caller[a] = "waits" => broker = "exited" /\ conn[a] = Unstarted)

\* A child that exited and lost its streams does not stay a zombie while the broker runs.
NoZombie ==
  []<>(broker # "runs" \/ \A a \in Attempts :
         child[a] = "exited" => conn[a].tries > MaxTries)

\* What Connection and Reaper promise: each attempt has one outcome that its caller learns,
\* whatever is lost first and whenever the broker stops, and its child is signalled gently,
\* waited for and reaped.
BringupSafe ==
  /\ [](BringupTypeOK /\ OneOutcome /\ ListensWhilePending /\ EofAfterBoth /\ ShutdownSettles /\ TermFirst)
  /\ GraceWaits
=============================================================================
