-------------------------------- MODULE Logs --------------------------------
(* The log of a child: LogHandler buffers what the threads of the child log     *)
(* until ExternalContext uncorks it; IoLoggerProtocol turns what the child and  *)
(* its processes write to stdout into records, and drains it at the shutdown.   *)
(*                                                                              *)
(* A record is its thread and number, and whether uncork() was under way when   *)
(* the thread looked up LogHandler._send.                                       *)
EXTENDS Integers, Sequences, FiniteSets

CONSTANTS Loggers, MaxRecords,  \* threads other than the main one, and bound on the records of each
          MaxLines              \* bound on the lines written to stdout
ASSUME LogsAssumption == MaxRecords \in Nat /\ MaxLines \in Nat

VARIABLES emitted,   \* records each thread has begun
          emitting,  \* where each thread is: idle, or <<function it found, uncorking>>
          direct,    \* self._send is context.send
          held,      \* self._buffer
          done,      \* uncork() has set it to None
          uncorking, \* position of uncork() in the buffer; 0 before and after
          routed,    \* FORWARD_LOG messages, in the order they are sent
          written,   \* lines written to stdout
          unread,    \* those in the socket
          writable,  \* the write end is not shut down
          ioClosed   \* the logger's stream is disconnected

logVars == <<emitted, emitting, direct, held, done, uncorking, routed, written, unread, writable, ioClosed>>
Idle == <<"idle", FALSE>>

LogsInit ==
  /\ emitted = [t \in Loggers |-> 0] /\ emitting = [t \in Loggers |-> Idle]
  /\ direct = FALSE /\ held = <<>> /\ done = FALSE /\ uncorking = 0 /\ routed = <<>>
  /\ written = 0 /\ unread = 0 /\ writable = TRUE /\ ioClosed = FALSE

ioSame == UNCHANGED <<written, unread, writable, ioClosed>>
Record(t) == [thread |-> t, number |-> emitted[t], during |-> emitting[t][2]]

\* emit(): the attribute _send is looked up, and then called.
Emit(t) ==
  /\ emitting[t] = Idle /\ emitted[t] < MaxRecords
  /\ emitted' = [emitted EXCEPT ![t] = @ + 1]
  /\ emitting' = [emitting EXCEPT ![t] = <<IF direct THEN "direct" ELSE "locked", uncorking # 0>>]
  /\ UNCHANGED <<direct, held, done, uncorking, routed>> /\ ioSame
\* mutation: a record that waited for the lock goes to the buffer in any case.
SendLockedBuffered(t) ==
  /\ emitting[t][1] = "locked" /\ uncorking = 0 /\ emitting' = [emitting EXCEPT ![t] = Idle]
  /\ IF done THEN UNCHANGED <<routed, held>> ELSE held' = Append(held, Record(t)) /\ UNCHANGED routed
  /\ UNCHANGED <<emitted, direct, done, uncorking>> /\ ioSame
\* _send(), under the lock that uncork() holds.
SendLocked(t) ==
  /\ emitting[t][1] = "locked" /\ uncorking = 0 /\ emitting' = [emitting EXCEPT ![t] = Idle]
  /\ IF done THEN routed' = Append(routed, Record(t)) /\ UNCHANGED held
     ELSE held' = Append(held, Record(t)) /\ UNCHANGED routed
  /\ UNCHANGED <<emitted, direct, done, uncorking>> /\ ioSame
SendDirect(t) ==
  /\ emitting[t][1] = "direct" /\ emitting' = [emitting EXCEPT ![t] = Idle]
  /\ routed' = Append(routed, Record(t)) /\ UNCHANGED <<emitted, direct, held, done, uncorking>> /\ ioSame

\* uncork(): takes the lock, and replaces _send first.
Uncork ==
  /\ ~done /\ uncorking = 0 /\ uncorking' = 1 /\ direct' = TRUE
  /\ UNCHANGED <<emitted, emitting, held, done, routed>> /\ ioSame
\* mutation: the newest first.
UncorkNewest ==
  /\ uncorking # 0 /\ uncorking <= Len(held)
  /\ routed' = Append(routed, held[Len(held) + 1 - uncorking]) /\ uncorking' = uncorking + 1
  /\ UNCHANGED <<emitted, emitting, direct, held, done>> /\ ioSame
UncorkSend ==
  /\ uncorking # 0 /\ uncorking <= Len(held)
  /\ routed' = Append(routed, held[uncorking]) /\ uncorking' = uncorking + 1
  /\ UNCHANGED <<emitted, emitting, direct, held, done>> /\ ioSame
\* mutation: the lock is kept.
UncorkHolds ==
  /\ uncorking # 0 /\ uncorking > Len(held) /\ done' = TRUE /\ held' = <<>>
  /\ UNCHANGED <<emitted, emitting, direct, routed, uncorking>> /\ ioSame
UncorkDone ==
  /\ uncorking # 0 /\ uncorking > Len(held) /\ done' = TRUE /\ held' = <<>> /\ uncorking' = 0
  /\ UNCHANGED <<emitted, emitting, direct, routed>> /\ ioSame

-----------------------------------------------------------------------------
recordsSame == UNCHANGED <<emitted, emitting, direct, held, done, uncorking, routed>>
\* Any process that has descriptor 1; after the shutdown of the socket it gets EPIPE.
WriteLine ==
  /\ writable /\ written < MaxLines /\ written' = written + 1 /\ unread' = unread + 1
  /\ UNCHANGED <<writable, ioClosed>> /\ recordsSame
\* on_receive(); an empty read, possible once the write end is shut down, disconnects.
ReadLines ==
  /\ ~ioClosed /\ recordsSame /\ UNCHANGED <<written, writable>>
  /\ \/ unread > 0 /\ unread' = 0 /\ UNCHANGED ioClosed
     \/ unread = 0 /\ ~writable /\ ioClosed' = TRUE /\ UNCHANGED unread
\* mutation: the stream is disconnected at once.
IoShutdownNow ==
  /\ writable /\ writable' = FALSE /\ ioClosed' = TRUE
  /\ UNCHANGED <<written, unread>> /\ recordsSame
\* IoLoggerProtocol.on_shutdown()
IoShutdown ==
  /\ writable /\ writable' = FALSE
  /\ UNCHANGED <<written, unread, ioClosed>> /\ recordsSame

Uncorking == Uncork \/ UncorkSend \/ UncorkDone
LogsNext ==
  \/ \E t \in Loggers : Emit(t) \/ SendLocked(t) \/ SendDirect(t)
  \/ Uncorking \/ WriteLine \/ ReadLines \/ IoShutdown
LogsSpec == LogsInit /\ [][LogsNext]_logVars

-----------------------------------------------------------------------------
\* No record is lost or sent twice, whether its thread found the buffer, the lock
\* or the context (LogHandler's "avoids any possible race").
RecordsConserved ==
  LET all == SubSeq(held, IF uncorking = 0 THEN 1 ELSE uncorking, Len(held)) \o routed
  IN /\ \A i, j \in DOMAIN all : all[i].thread = all[j].thread /\ all[i].number = all[j].number => i = j
     /\ \A t \in Loggers : Cardinality({i \in DOMAIN all : all[i].thread = t})
                           = emitted[t] - (IF emitting[t] = Idle THEN 0 ELSE 1)

\* The records of a thread arrive in order, except that those logged while the
\* buffer is being sent may overtake it.
OrderUnlessUncorking ==
  \A i, j \in DOMAIN routed : i < j /\ routed[i].thread = routed[j].thread
                              /\ routed[i].number > routed[j].number => routed[i].during

\* Every record that was buffered is sent in the end.
RecordsArrive == []<>(uncorking = 0 /\ \A t \in Loggers : emitting[t] = Idle)

\* What was written before the shutdown is read before the stream goes.
LinesDrained == ioClosed => unread = 0

\* What log forwarding promises: each record goes out once, in its order except while the buffer
\* is being sent, and what was printed before a shutdown is read.
LogsSafe == RecordsConserved /\ OrderUnlessUncorking /\ LinesDrained
=============================================================================
