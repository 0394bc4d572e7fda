---------------------------- MODULE FileTransfer ----------------------------
(* mitogen.service.FileService and the targets that fetch from it               *)
(* (FileService.get(), ansible_mitogen.target.transfer_file()).  The transfers  *)
(* to the contexts behind one stream are queued; bytes are sent while fewer     *)
(* than a window are unacknowledged, and every acknowledgement refills it.      *)
(*                                                                              *)
(* Sizes are counted in units, Chunk to a message.  File contents and metadata  *)
(* other than the size are left out.                                            *)
EXTENDS Integers, Sequences, FiniteSets, SequencesExt

CONSTANTS Transfers,            \* fetches made, each by a context of its own
          TransferStreams, StreamOf,    \* the stream that leads to that context
          Registered,           \* transfers whose path was registered
          Mortal,               \* transfers whose context may die, the stream staying up
          Window, Chunk, MaxSize

ASSUME TransferAssumption ==
  /\ IsFiniteSet(Transfers)
  /\ StreamOf \in [Transfers -> TransferStreams] /\ Registered \cup Mortal \subseteq Transfers
  /\ Window \in Nat \ {0} /\ Chunk \in Nat \ {0} /\ MaxSize \in Nat

VARIABLES fileSize,   \* of the file on disk
          promised,   \* metadata["size"] of the reply to fetch()
          position,   \* of the open file of a transfer
          jobs,       \* FileStreamState.jobs
          unacked,    \* FileStreamState.unacked
          toTarget,   \* chunks, and 0 for the close of the sender, on their way
          acks,       \* acknowledge() calls on their way
          got,        \* received_bytes
          transfer,   \* what FileService.get() has come to
          changed,    \* files that changed while they were being sent
          serving     \* the pool runs: on_shutdown() was not called

transferVars == <<fileSize, promised, position, jobs, unacked, toTarget, acks, got, transfer, changed, serving>>

TransferInit ==
  /\ fileSize \in [Transfers -> {0, MaxSize}]
  /\ promised = [t \in Transfers |-> 0] /\ position = promised /\ got = promised
  /\ jobs = [s \in TransferStreams |-> <<>>] /\ unacked = [s \in TransferStreams |-> 0]
  /\ toTarget = [t \in Transfers |-> <<>>] /\ acks = toTarget
  /\ transfer = [t \in Transfers |-> "idle"]
  /\ changed = {} /\ serving = TRUE

Busy == {"asked", "receiving"}
Dead(t) == transfer[t] = "dead"
Least(m, n) == IF m < n THEN m ELSE n

-----------------------------------------------------------------------------
\* What is sent over one stream, and to whom.
Sending == [jobs : Seq(Transfers), unacked : Nat, pos : [Transfers -> Nat], out : [Transfers -> Seq(Nat)]]

\* mutation: one more chunk is sent when the window is full.
SendMore == [s \in Sending |->
  IF s.jobs = <<>> \/ s.unacked > Window THEN s
  ELSE LET t == Head(s.jobs)
           n == Least(Chunk, fileSize[t] - s.pos[t])
       IN IF n > 0
          THEN [s EXCEPT !.unacked = @ + n, !.pos[t] = @ + n, !.out[t] = Append(@, n)]
          ELSE [s EXCEPT !.jobs = Tail(@), !.out[t] = Append(@, 0)]]
\* mutation: every chunk counts in full.
SendFull == [s \in Sending |->
  IF s.jobs = <<>> \/ s.unacked >= Window THEN s
  ELSE LET t == Head(s.jobs)
           n == Least(Chunk, fileSize[t] - s.pos[t])
       IN IF n > 0
          THEN [s EXCEPT !.unacked = @ + Chunk, !.pos[t] = @ + n, !.out[t] = Append(@, n)]
          ELSE [s EXCEPT !.jobs = Tail(@), !.out[t] = Append(@, 0)]]
\* mutation: a short read is taken for the end of the file.
SendShort == [s \in Sending |->
  IF s.jobs = <<>> \/ s.unacked >= Window THEN s
  ELSE LET t == Head(s.jobs)
           n == Least(Chunk, fileSize[t] - s.pos[t])
       IN IF n = Chunk
          THEN [s EXCEPT !.unacked = @ + n, !.pos[t] = @ + n, !.out[t] = Append(@, n)]
          ELSE [s EXCEPT !.jobs = Tail(@), !.out[t] = Append(@, 0)]]

\* A turn of the loop in _schedule_pending_unlocked(): a chunk, or the end, of the first transfer.
SendNext == [s \in Sending |->
  IF s.jobs = <<>> \/ s.unacked >= Window THEN s
  ELSE LET t == Head(s.jobs)
           n == Least(Chunk, fileSize[t] - s.pos[t])
       IN IF n > 0
          THEN [s EXCEPT !.unacked = @ + n, !.pos[t] = @ + n, !.out[t] = Append(@, n)]
          ELSE [s EXCEPT !.jobs = Tail(@), !.out[t] = Append(@, 0)]]

\* _schedule_pending_unlocked(): the first transfer gets the window until its end.  A turn
\* adds to what is unacknowledged or ends a transfer, so that the loop is over by then.
Turns == Window + Cardinality(Transfers)
Schedule(s) ==
  LET after[k \in 0..Turns] == IF k = 0 THEN s ELSE SendNext[after[k - 1]]
  IN after[Turns]

\* What is sent to a context that died goes nowhere.
Pump(s, queue, bytes) ==
  LET r == Schedule([jobs |-> queue, unacked |-> bytes, pos |-> position, out |-> toTarget])
  IN /\ jobs' = [jobs EXCEPT ![s] = r.jobs] /\ unacked' = [unacked EXCEPT ![s] = r.unacked]
     /\ position' = r.pos
     /\ toTarget' = [t \in Transfers |-> IF Dead(t) THEN <<>> ELSE r.out[t]]

\* mutation: a context fetches again what it is receiving.
FetchAgain(t) ==
  /\ transfer[t] \in {"idle", "receiving"} /\ transfer' = [transfer EXCEPT ![t] = "asked"]
  /\ UNCHANGED <<fileSize, promised, position, jobs, unacked, toTarget, acks, got, changed, serving>>

\* FileService.get(): the call to fetch().
Fetch(t) ==
  /\ transfer[t] = "idle" /\ transfer' = [transfer EXCEPT ![t] = "asked"]
  /\ UNCHANGED <<fileSize, promised, position, jobs, unacked, toTarget, acks, got, changed, serving>>

\* fetch(): the reply with the metadata, then the first chunks.
Serve(t) ==
  /\ transfer[t] = "asked"
  /\ IF serving /\ t \in Registered
     THEN /\ transfer' = [transfer EXCEPT ![t] = "receiving"]
          /\ promised' = [promised EXCEPT ![t] = fileSize[t]]
          /\ Pump(StreamOf[t], Append(jobs[StreamOf[t]], t), unacked[StreamOf[t]])
     ELSE /\ transfer' = [transfer EXCEPT ![t] = "refused"]
          /\ UNCHANGED <<promised, position, jobs, unacked, toTarget>>
  /\ UNCHANGED <<fileSize, acks, got, changed, serving>>

\* The loop of FileService.get() over the receiver: a chunk is acknowledged, the
\* end compares what came with what was promised.
Receive(t) ==
  /\ transfer[t] = "receiving" /\ toTarget[t] # <<>>
  /\ LET n == Head(toTarget[t]) IN
     IF n > 0
     THEN /\ got' = [got EXCEPT ![t] = @ + n] /\ acks' = [acks EXCEPT ![t] = Append(@, n)]
          /\ UNCHANGED transfer
     ELSE /\ transfer' = [transfer EXCEPT ![t] = IF got[t] = promised[t] THEN "ok" ELSE "interrupted"]
          /\ UNCHANGED <<got, acks>>
  /\ toTarget' = [toTarget EXCEPT ![t] = Tail(@)]
  /\ UNCHANGED <<fileSize, promised, position, jobs, unacked, changed, serving>>

\* mutation: the window is not refilled.
AcknowledgeOnly(t, i) ==
  /\ serving /\ i \in DOMAIN acks[t] /\ acks' = [acks EXCEPT ![t] = RemoveAt(@, i)]
  /\ unacked' = [unacked EXCEPT ![StreamOf[t]] = @ - Least(@, acks[t][i])]
  /\ UNCHANGED <<fileSize, promised, position, jobs, toTarget, got, transfer, changed, serving>>

\* acknowledge(), in any order: each runs on some thread of the pool.  One from a
\* context that died finds no stream, and is lost.
Acknowledge(t, i) ==
  /\ serving /\ i \in DOMAIN acks[t] /\ acks' = [acks EXCEPT ![t] = RemoveAt(@, i)]
  /\ IF Dead(t) THEN UNCHANGED <<jobs, unacked, position, toTarget>>
     ELSE LET s == StreamOf[t] IN Pump(s, jobs[s], unacked[s] - Least(unacked[s], acks[t][i]))
  /\ UNCHANGED <<fileSize, promised, got, transfer, changed, serving>>

\* on_shutdown(): every sender is closed, the last job first.
OnShutdown ==
  /\ serving /\ serving' = FALSE
  /\ toTarget' = [t \in Transfers |-> IF \E s \in TransferStreams : t \in ToSet(jobs[s]) /\ ~Dead(t)
                                      THEN Append(toTarget[t], 0) ELSE toTarget[t]]
  /\ jobs' = [s \in TransferStreams |-> <<>>]
  /\ UNCHANGED <<fileSize, promised, position, unacked, acks, got, transfer, changed>>

\* A file shrinks or grows while it is sent.
FileChanges(t, n) ==
  /\ transfer[t] = "receiving" /\ t \notin changed
  /\ n \in position[t]..MaxSize /\ n # fileSize[t]
  /\ fileSize' = [fileSize EXCEPT ![t] = n] /\ changed' = changed \cup {t}
  /\ UNCHANGED <<promised, position, jobs, unacked, toTarget, acks, got, transfer, serving>>

\* The context dies, what is on its way to it is lost.
ContextDies(t) ==
  /\ t \in Mortal /\ transfer[t] = "receiving"
  /\ transfer' = [transfer EXCEPT ![t] = "dead"] /\ toTarget' = [toTarget EXCEPT ![t] = <<>>]
  /\ UNCHANGED <<fileSize, promised, position, jobs, unacked, acks, got, changed, serving>>

TransferProgress == \E t \in Transfers : Serve(t) \/ Receive(t) \/ \E i \in DOMAIN acks[t] : Acknowledge(t, i)

TransferNext ==
  \/ TransferProgress \/ OnShutdown
  \/ \E t \in Transfers : Fetch(t) \/ ContextDies(t) \/ \E n \in 0..MaxSize : FileChanges(t, n)
TransferSpec == TransferInit /\ [][TransferNext]_transferVars

-----------------------------------------------------------------------------
Behind(s) == {t \in Transfers : StreamOf[t] = s}
\* The bytes of a queue of chunks, one by one.
BytesOf(queue) == UNION {{i} \X (1..queue[i]) : i \in DOMAIN queue}
OnTheWay(s, queue) == Cardinality(UNION {{t} \X BytesOf(queue[t]) : t \in {t \in Behind(s) : ~Dead(t)}})
\* Bytes that count as unacknowledged and never will be acknowledged.
Lost(s) == unacked[s] - OnTheWay(s, toTarget) - OnTheWay(s, acks)

TransferTypeOK ==
  /\ \A s \in TransferStreams : /\ ToSet(jobs[s]) \subseteq {t \in Behind(s) : transfer[t] \in {"receiving", "dead"}}
                        /\ IsInjective(jobs[s]) /\ unacked[s] \in Nat
  /\ \A t \in Transfers : got[t] <= position[t] /\ position[t] <= MaxSize

\* The count of unacknowledged bytes is what is under way to the targets of the
\* stream and back, and exceeds it only when one of them died (acknowledge()).
AccountsBalance ==
  \A s \in TransferStreams : serving =>
    /\ Lost(s) >= 0 /\ (Lost(s) > 0 => \E t \in Behind(s) : Dead(t))

\* Between the service and the targets of a stream there is never more than the
\* window and the chunk that crossed its limit (window_size_bytes).
WindowHeld == \A s \in TransferStreams : OnTheWay(s, toTarget) < Window + Chunk

\* A transfer is only cut short by a change of its file or the shutdown of the service.
InterruptedForCause == \A t \in Transfers : transfer[t] = "interrupted" => t \in changed \/ ~serving

\* Every fetch ends, however many share the stream, as long as the bytes lost with
\* contexts that died leave room in the window (_schedule_pending_unlocked()).
TransfersEnd ==
  []<>(\A t \in Transfers : transfer[t] \in Busy => Lost(StreamOf[t]) >= Window)

\* What FileService promises: transfers are uncut, within the window of their stream, and its
\* books of unacknowledged bytes stay true through deaths and shutdown.
TransferSafe == TransferTypeOK /\ AccountsBalance /\ WindowHeld /\ InterruptedForCause
=============================================================================
