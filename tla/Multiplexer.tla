---------------------------- MODULE Multiplexer ----------------------------
(* The processes of one Ansible run: the top level forks its multiplexers    *)
(* one by one and waits for a byte from each, then forks workers, and tells  *)
(* the multiplexers to go by shutting a socket when it exits; workers attach *)
(* to the multiplexer of their host through its UNIX socket.                 *)
EXTENDS Naturals, FiniteSets

CONSTANTS MuxCount, Workers, HomeOf,   \* HomeOf[w]: the multiplexer that the host's name hashes to
          MaxKills                     \* processes that die of a signal
ASSUME MuxAssumption == MuxCount \in Nat \ {0} /\ HomeOf \in [Workers -> 1..MuxCount] /\ MaxKills \in Nat

VARIABLES top,      \* "starting", "running", "draining", "gone" or "killed"
          started,  \* multiplexers forked
          bytes,    \* "1"s in the socket pair
          shut,     \* parent_sock is shut for writing
          mux,      \* "none", "setup", "stuck", "listening", "serving", "stopping", "exited", "killed"
          bound,    \* the socket's path exists
          queue,    \* clients in the listener's backlog
          worker,   \* state of a worker process
          kills
muVars == <<top, started, bytes, shut, mux, bound, queue, worker, kills>>

MuxIds == 1..MuxCount
Gone(m) == mux[m] \in {"exited", "killed"}
Live(w) == worker[w] \notin {"none", "exited"}
\* Workers are forked with a copy of parent_sock: it closes with the last of them.
EndOfFile == shut \/ (top = "killed" /\ \A w \in Workers : ~Live(w))

MultiplexerInit ==
  /\ top = "starting" /\ started = 0 /\ bytes = 0 /\ shut = FALSE
  /\ mux = [m \in MuxIds |-> "none"] /\ bound = [m \in MuxIds |-> FALSE]
  /\ queue = [m \in MuxIds |-> {}] /\ worker = [w \in Workers |-> "none"] /\ kills = 0

MuxBecomes(m, what) == mux' = [mux EXCEPT ![m] = what]
WorkerBecomes(w, what) == worker' = [worker EXCEPT ![w] = what]
topSame == UNCHANGED <<top, started, bytes, shut, kills>>
muxSame == UNCHANGED <<mux, bound, queue>>

-----------------------------------------------------------------------------
\* The top level: ClassicWorkerModel.__init__(), MuxProcess.start().
\* mutation: multiplexers are forked without waiting for the one before, nor for the last.
StartAll ==
  /\ top = "starting" /\ started < MuxCount
  /\ started' = started + 1 /\ MuxBecomes(started + 1, "setup")
  /\ top' = IF started + 1 = MuxCount THEN "running" ELSE "starting"
  /\ UNCHANGED <<bytes, shut, bound, queue, worker, kills>>
StartMux ==
  /\ top = "starting" /\ started < MuxCount /\ bytes = 0
  /\ \A m \in 1..started : mux[m] \in {"serving", "killed"}
  /\ started' = started + 1 /\ MuxBecomes(started + 1, "setup")
  /\ UNCHANGED <<top, bytes, shut, bound, queue, worker, kills>>
\* recv(): the byte of the multiplexer started last.
ReadByte ==
  /\ top = "starting" /\ bytes > 0 /\ bytes' = bytes - 1
  /\ top' = IF started = MuxCount THEN "running" ELSE "starting"
  /\ UNCHANGED <<started, shut, mux, bound, queue, worker, kills>>
ForkWorker(w) ==
  /\ top = "running" /\ worker[w] = "none" /\ WorkerBecomes(w, "forked")
  /\ topSame /\ muxSame
\* _on_process_exit(), run by every process that inherited the handler and exits.
\* mutation: the process that registered it is not told from those that inherited it.
ShutsForAll(w) == shut' = TRUE
ShutsForAny(w) == UNCHANGED shut
TopExits ==
  /\ top = "running" /\ shut' = TRUE /\ top' = "draining"
  /\ UNCHANGED <<started, bytes, mux, bound, queue, worker, kills>>
\* recv() returns once every multiplexer has closed its end; waitpid() takes each.
\* mutation: the top level does not wait for the multiplexers.
TopGone == top = "draining" /\ top' = "gone" /\ UNCHANGED <<started, bytes, shut, mux, bound, queue, worker, kills>>
TopReaps ==
  /\ top = "draining" /\ \A m \in MuxIds : Gone(m)
  /\ top' = "gone" /\ UNCHANGED <<started, bytes, shut, mux, bound, queue, worker, kills>>
TopKilled ==
  /\ top \in {"running", "draining"} /\ kills < MaxKills /\ kills' = kills + 1 /\ top' = "killed"
  /\ UNCHANGED <<started, bytes, shut, mux, bound, queue, worker>>

-----------------------------------------------------------------------------
\* A multiplexer: MuxProcess.worker_main().
ListenAt(m) ==
  /\ mux[m] = "setup" /\ MuxBecomes(m, "listening") /\ bound' = [bound EXCEPT ![m] = TRUE]
  /\ UNCHANGED <<queue, worker>> /\ topSame
\* worker_main() raises: the broker's thread keeps the process, and the top level, which holds the
\* other end of the pair itself, waits for its byte without end.
MuxSetupFails(m) ==
  /\ mux[m] = "setup" /\ kills < MaxKills /\ kills' = kills + 1 /\ MuxBecomes(m, "stuck")
  /\ UNCHANGED <<top, started, bytes, shut, bound, queue, worker>>
\* mutation: the top level is told before the socket listens.
SayEarly(m) ==
  /\ mux[m] \in {"setup", "listening"} /\ bytes' = bytes + 1 /\ MuxBecomes(m, IF mux[m] = "setup" THEN "setup" ELSE "serving")
  /\ top = "starting" /\ bytes = 0
  /\ UNCHANGED <<top, started, shut, bound, queue, worker, kills>>
SayReady(m) ==
  /\ mux[m] = "listening" /\ MuxBecomes(m, "serving") /\ bytes' = bytes + 1
  /\ UNCHANGED <<top, started, shut, bound, queue, worker, kills>>
MuxWakes(m) ==
  /\ mux[m] = "serving" /\ EndOfFile /\ MuxBecomes(m, "stopping")
  /\ UNCHANGED <<bound, queue, worker>> /\ topSame
\* A client whose connection is closed: a call that waits fails, an empty answer is no identity.
Cut(w) == CASE worker[w] = "asked" -> "raised"
            [] worker[w] = "connected" -> "lost"
            [] OTHER -> worker[w]
\* mutation: the path is left behind.
LeavePath(m) == UNCHANGED bound
RemovePath(m) == bound' = [bound EXCEPT ![m] = FALSE]
\* Broker.shutdown() and join(): the listener unlinks its path, every stream is closed.
MuxExits(m) ==
  /\ mux[m] = "stopping" /\ MuxBecomes(m, "exited") /\ RemovePath(m)
  /\ queue' = [queue EXCEPT ![m] = {}]
  /\ worker' = [w \in Workers |-> IF HomeOf[w] = m THEN Cut(w) ELSE worker[w]]
  /\ topSame
MuxKilled(m) ==
  /\ mux[m] \in {"serving", "stopping"} /\ kills < MaxKills /\ kills' = kills + 1
  /\ MuxBecomes(m, "killed") /\ queue' = [queue EXCEPT ![m] = {}]
  /\ worker' = [w \in Workers |-> IF HomeOf[w] = m THEN Cut(w) ELSE worker[w]]
  /\ UNCHANGED <<top, started, bytes, shut, bound>>

-----------------------------------------------------------------------------
\* A worker: unix.connect(), and Listener.on_accept_client() at the other end.
Attach(w) ==
  LET m == HomeOf[w] IN
  /\ worker[w] = "forked"
  /\ \/ /\ bound[m] /\ mux[m] \in {"listening", "serving", "stopping"}
        /\ WorkerBecomes(w, "asked") /\ queue' = [queue EXCEPT ![m] = @ \union {w}]
     \/ /\ ~bound[m] \/ Gone(m)                        \* ENOENT, ECONNREFUSED: ConnectError
        /\ WorkerBecomes(w, "refused") /\ UNCHANGED queue
  /\ UNCHANGED <<mux, bound>> /\ topSame
Accept(m, w) ==
  /\ mux[m] \in {"listening", "serving"} /\ w \in queue[m] /\ queue' = [queue EXCEPT ![m] = @ \ {w}]
  /\ IF worker[w] = "asked" THEN WorkerBecomes(w, "connected") ELSE UNCHANGED worker
  /\ UNCHANGED <<mux, bound>> /\ topSame
\* The task is done or has failed; the process exits, and runs the handlers it inherited.
WorkerExits(w) ==
  /\ worker[w] \in {"connected", "refused", "raised", "lost"} /\ WorkerBecomes(w, "exited")
  /\ ShutsForAny(w)
  /\ UNCHANGED <<top, started, bytes, kills>> /\ muxSame
WorkerKilled(w) ==
  /\ Live(w) /\ kills < MaxKills /\ kills' = kills + 1 /\ WorkerBecomes(w, "exited")
  /\ UNCHANGED <<top, started, bytes, shut>> /\ muxSame

MuxSteps == \E m \in MuxIds : \/ ListenAt(m) \/ SayReady(m) \/ MuxWakes(m) \/ MuxExits(m)
                             \/ \E w \in Workers : Accept(m, w)
WorkerSteps == \E w \in Workers : Attach(w) \/ WorkerExits(w)
MultiplexerNext ==
  \/ StartMux \/ ReadByte \/ TopExits \/ TopReaps \/ TopKilled
  \/ \E m \in MuxIds : MuxKilled(m) \/ MuxSetupFails(m)
  \/ \E w \in Workers : ForkWorker(w) \/ WorkerKilled(w)
  \/ MuxSteps \/ WorkerSteps
MultiplexerSpec == MultiplexerInit /\ [][MultiplexerNext]_muVars

-----------------------------------------------------------------------------
MultiplexerTypeOK ==
  /\ top \in {"starting", "running", "draining", "gone", "killed"} /\ started \in 0..MuxCount /\ bytes \in 0..1
  /\ mux \in [MuxIds -> {"none", "setup", "stuck", "listening", "serving", "stopping", "exited", "killed"}]
  /\ worker \in [Workers -> {"none", "forked", "asked", "connected", "refused", "raised", "lost", "exited"}]
  /\ \A m \in MuxIds : queue[m] \subseteq Workers

\* A worker is refused only when its multiplexer died or the run is over: the top level does not
\* fork workers before every socket listens.
RefusedOnlyAtEnd ==
  \A w \in Workers : worker[w] \in {"refused", "raised", "lost"} =>
    mux[HomeOf[w]] = "killed" \/ top \in {"draining", "gone", "killed"}
\* The multiplexers serve until the top level goes, whatever workers do: one that exits must not
\* run the handler it inherited.
OutliveWorkers == (\E m \in MuxIds : mux[m] \in {"stopping", "exited"}) => top \in {"draining", "gone", "killed"}
\* When the top level has exited no multiplexer is left to write on the terminal, and only one
\* that was killed leaves its socket behind.
NothingLeftBehind == top = "gone" => \A m \in MuxIds : Gone(m) /\ (bound[m] => mux[m] = "killed")
\* No multiplexer outlives the run, also when the top level is killed and workers hold copies of
\* its socket.
NoOrphans == []<>(top \in {"starting", "running"} \/ \A m \in MuxIds : Gone(m))
\* A worker that attaches gets an answer.
AttachEnds == \A w \in Workers : []<>(worker[w] \notin {"forked", "asked"})

\* What the process model promises: multiplexers serve every worker as long as the top level
\* lives and not longer, and nothing stays behind.
MultiplexerSafe == MultiplexerTypeOK /\ RefusedOnlyAtEnd /\ OutliveWorkers /\ NothingLeftBehind
=============================================================================
