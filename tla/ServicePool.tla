----------------------------- MODULE ServicePool -----------------------------
(***************************************************************************)
(* mitogen.service.Pool in a child process.  Until a pool exists, requests *)
(* for services go to a receiver of the Dispatcher; its notification       *)
(* function asks the main thread to construct the pool, which takes over   *)
(* the handle and that receiver while the broker thread goes on receiving. *)
(* The pool's threads share a Select over both receivers: a request is in  *)
(* its receiver, a token for the receiver in the Select.  A service is     *)
(* constructed by the first thread that needs it.  The broker thread stops *)
(* the pool and joins its threads when it shuts down.                      *)
(***************************************************************************)
EXTENDS Naturals, Sequences, FiniteSets, SequencesExt

CONSTANTS Msgs,        \* requests, each delivered at most once
          MaxSent,     \* bound on the requests that arrive
          Services,
          Target,      \* the service of each request
          Quiet,       \* requests of methods with @no_reply
          Serialized,  \* services whose invoker_class is SerializedInvoker
          Workers,     \* threads of the pool
          None

Receivers == {"stub", "own"}    \* Dispatcher._service_recv, Pool._receiver

ASSUME PoolAssumption == /\ Target \in [Msgs -> Services]
                         /\ Quiet \subseteq Msgs
                         /\ Serialized \subseteq Services
                         /\ None \notin Msgs \cup Workers \cup Receivers
                         /\ MaxSent \in Nat
                         /\ IsFiniteSet(Workers)

Invokers  == Services \X {"added", "final"}

VARIABLES handler,    \* the receiver that handles CALL_SERVICE
          notify,     \* Receiver.notify
          box,        \* what is buffered in each receiver
          open,       \* the receivers whose latch is not closed
          tokens,     \* Pool._select._latch
          selecting,  \* it is not closed
          summoned,   \* the sentinel is in the queue of the main thread
          dispatching,\* that queue is not closed
          main,       \* where the main thread is, and the receiver it is adding
          listening,  \* the pool listens for the shutdown of the broker
          bpc, cur,   \* where the broker thread is; <<receiver, request>> in hand
          closed,     \* Pool.closed
          sent,       \* requests that arrived
          pc, src,    \* where each worker is, and the token it took
          msg, inv,   \* the request and the invoker it has in hand
          registry,   \* Pool._invoker_by_name, and which of the two it holds
          holder,     \* the holder of Pool._lock
          built,      \* number of times each service was constructed
          queue,      \* SerializedInvoker._queue
          running,    \* SerializedInvoker._running
          replies,    \* number of replies to each request
          ended       \* requests that are dealt with

selectVars == <<handler, notify, box, open, tokens, selecting>>
mainVars   == <<summoned, dispatching, main, listening>>
brokerVars == <<bpc, cur, closed, sent>>
workerVars == <<pc, src, msg, inv>>
poolVars   == <<registry, holder, built, queue, running>>
replyVars  == <<replies, ended>>
vars == <<selectVars, mainVars, brokerVars, workerVars, poolVars, replyVars>>

TypeOK ==
  /\ handler \in Receivers \cup {"none"}
  /\ notify \in [Receivers -> {"none", "stub", "select"}]
  /\ box \in [Receivers -> Seq(Msgs)]
  /\ open \subseteq Receivers
  /\ tokens \in Seq(Receivers)
  /\ {selecting, summoned, dispatching, listening, closed} \subseteq BOOLEAN
  /\ main \in {"dispatch", "receiver", "add", "size", "mute", "start", "listen", "running"}
              \X Receivers
  /\ bpc \in {"loop", "put", "notify", "call", "stop", "close", "select", "join", "grace", "done"}
  /\ cur \in Receivers \X (Msgs \cup {None})
  /\ sent \subseteq Msgs
  /\ pc \in [Workers -> {"off", "check", "select", "fetch", "find", "lock", "permit", "import",
                         "add", "publish", "invoke", "pop", "method", "exited"}]
  /\ src \in [Workers -> Receivers \cup {None}]
  /\ msg \in [Workers -> Msgs \cup {None}]
  /\ inv \in [Workers -> Invokers \cup {<<>>}]
  /\ registry \in [Services -> {"none", "added", "final"}]
  /\ holder \in Workers \cup {None}
  /\ built \in [Services -> Nat]
  /\ queue \in [Invokers -> Seq(Msgs)]
  /\ running \in [Invokers -> BOOLEAN]
  /\ replies \in [Msgs -> Nat]
  /\ ended \subseteq Msgs

Init ==
  /\ handler = "stub"
  /\ notify = [r \in Receivers |-> IF r = "stub" THEN "stub" ELSE "none"]
  /\ box = [r \in Receivers |-> <<>>]
  /\ open = Receivers
  /\ tokens = <<>>
  /\ selecting = TRUE
  /\ summoned = FALSE
  /\ dispatching = TRUE
  /\ main = <<"dispatch", "own">>
  /\ listening = FALSE
  /\ bpc = "loop"
  /\ cur = <<"stub", None>>
  /\ closed = FALSE
  /\ sent = {}
  /\ pc = [w \in Workers |-> "off"]
  /\ src = [w \in Workers |-> None]
  /\ msg = [w \in Workers |-> None]
  /\ inv = [w \in Workers |-> <<>>]
  /\ registry = [s \in Services |-> "none"]
  /\ holder = None
  /\ built = [s \in Services |-> 0]
  /\ queue = [i \in Invokers |-> <<>>]
  /\ running = [i \in Invokers |-> FALSE]
  /\ replies = [m \in Msgs |-> 0]
  /\ ended = {}

-----------------------------------------------------------------------------
(* The main thread constructs the pool *)

\* The sentinel: get_or_create_pool() does nothing if there is a pool.
InitServicePool ==
  /\ summoned
  /\ dispatching
  /\ main[1] \in {"dispatch", "running"}
  /\ summoned' = FALSE
  /\ main' = IF main[1] = "dispatch" THEN <<"receiver", "own">> ELSE main
  /\ UNCHANGED <<selectVars, dispatching, listening, brokerVars, workerVars, poolVars, replyVars>>

NewReceiver ==
  /\ main[1] = "receiver"
  /\ handler' = "own"
  /\ main' = <<"add", "own">>
  /\ UNCHANGED <<notify, box, open, tokens, selecting, summoned, dispatching, listening,
                 brokerVars, workerVars, poolVars, replyVars>>

\* Select.add(): the function first, then a token for each buffered request.
AddNotify(r) ==
  /\ main = <<"add", r>>
  /\ notify' = [notify EXCEPT ![r] = "select"]
  /\ main' = <<"size", r>>
  /\ UNCHANGED <<handler, box, open, tokens, selecting, summoned, dispatching, listening,
                 brokerVars, workerVars, poolVars, replyVars>>

BufferedNone(r) == {}    \* mutation: no tokens for what is buffered
Buffered(r)     == DOMAIN box[r]

AddBuffered(r) ==
  /\ main = <<"size", r>>
  /\ tokens' = tokens \o [k \in Buffered(r) |-> r]
  /\ main' = IF r = "own" THEN <<"mute", "stub">> ELSE <<"start", "stub">>
  /\ UNCHANGED <<handler, notify, box, open, selecting, summoned, dispatching, listening,
                 brokerVars, workerVars, poolVars, replyVars>>

Mute ==
  /\ main[1] = "mute"
  /\ notify' = [notify EXCEPT !["stub"] = "none"]
  /\ main' = <<"add", "stub">>
  /\ UNCHANGED <<handler, box, open, tokens, selecting, summoned, dispatching, listening,
                 brokerVars, workerVars, poolVars, replyVars>>

StartThreads ==
  /\ main[1] = "start"
  /\ pc' = [w \in Workers |-> "check"]
  /\ main' = <<"listen", "stub">>
  /\ UNCHANGED <<selectVars, summoned, dispatching, listening, brokerVars, src, msg, inv,
                 poolVars, replyVars>>

Listen ==
  /\ main[1] = "listen"
  /\ listening' = TRUE
  /\ main' = <<"running", "stub">>
  /\ UNCHANGED <<selectVars, summoned, dispatching, brokerVars, workerVars, poolVars, replyVars>>

MainNext == InitServicePool \/ NewReceiver \/ Mute \/ StartThreads \/ Listen
              \/ \E r \in Receivers : AddNotify(r) \/ AddBuffered(r)

-----------------------------------------------------------------------------
(* The broker thread receives requests: Receiver._on_receive() *)

Deliver(m) ==
  /\ bpc = "loop"
  /\ m \notin sent
  /\ Cardinality(sent) < MaxSent
  /\ handler # "none"
  /\ sent' = sent \cup {m}
  /\ cur' = <<handler, m>>
  /\ bpc' = "put"
  /\ UNCHANGED <<selectVars, mainVars, closed, workerVars, poolVars, replyVars>>

BrokerPut ==
  /\ bpc = "put"
  /\ box' = [box EXCEPT ![cur[1]] = Append(@, cur[2])]
  /\ bpc' = "notify"
  /\ UNCHANGED <<handler, notify, open, tokens, selecting, mainVars, cur, closed, sent,
                 workerVars, poolVars, replyVars>>

BrokerTest ==
  /\ bpc = "notify"
  /\ bpc' = IF notify[cur[1]] = "none" THEN "loop" ELSE "call"
  /\ UNCHANGED <<selectVars, mainVars, cur, closed, sent, workerVars, poolVars, replyVars>>

\* The attribute is read again; that calling None raises is logged.
BrokerNotify ==
  /\ bpc = "call"
  /\ tokens' = IF notify[cur[1]] = "select" THEN Append(tokens, cur[1]) ELSE tokens
  /\ summoned' = (summoned \/ notify[cur[1]] = "stub")
  /\ bpc' = "loop"
  /\ UNCHANGED <<handler, notify, box, open, selecting, dispatching, main, listening, cur, closed,
                 sent, workerVars, poolVars, replyVars>>

(* and shuts down: the listeners of the Dispatcher and of the pool *)

Shutdown ==
  /\ bpc = "loop"
  /\ notify' = [notify EXCEPT !["stub"] = IF @ = "stub" THEN "none" ELSE @]
  /\ dispatching' = FALSE
  /\ bpc' = "stop"
  /\ UNCHANGED <<handler, box, open, tokens, selecting, summoned, main, listening, cur, closed,
                 sent, workerVars, poolVars, replyVars>>

Stop ==
  /\ bpc = "stop"
  /\ closed' = listening
  /\ bpc' = IF listening THEN "close" ELSE "grace"
  /\ UNCHANGED <<selectVars, mainVars, cur, sent, workerVars, poolVars, replyVars>>

CloseReceiver ==
  /\ bpc = "close"
  /\ handler' = "none"
  /\ open' = open \ {"own"}
  /\ bpc' = "select"
  /\ UNCHANGED <<notify, box, tokens, selecting, mainVars, cur, closed, sent, workerVars,
                 poolVars, replyVars>>

StillSelecting == TRUE    \* mutation: Select.close() leaves its latch open
Selecting      == FALSE
CloseSelect ==
  /\ bpc = "select"
  /\ notify' = [r \in Receivers |-> "none"]
  /\ selecting' = Selecting
  /\ bpc' = "join"
  /\ UNCHANGED <<handler, box, open, tokens, mainVars, cur, closed, sent, workerVars, poolVars,
                 replyVars>>

Join ==
  /\ bpc = "join"
  /\ \A w \in Workers : pc[w] = "exited"
  /\ bpc' = "grace"
  /\ UNCHANGED <<selectVars, mainVars, cur, closed, sent, workerVars, poolVars, replyVars>>

BrokerExit ==
  /\ bpc = "grace"
  /\ bpc' = "done"
  /\ UNCHANGED <<selectVars, mainVars, cur, closed, sent, workerVars, poolVars, replyVars>>

BrokerNext == \/ BrokerPut \/ BrokerTest \/ BrokerNotify
              \/ Stop \/ CloseReceiver \/ CloseSelect \/ Join \/ BrokerExit

-----------------------------------------------------------------------------
(* Workers: Pool._worker_run() *)

Goto(w, label) == pc' = [pc EXCEPT ![w] = label]

CheckClosed(w) ==
  /\ pc[w] = "check"
  /\ Goto(w, IF closed THEN "exited" ELSE "select")
  /\ UNCHANGED <<selectVars, mainVars, brokerVars, src, msg, inv, poolVars, replyVars>>

\* Select.get_event(): a token, then without blocking a request of its receiver.
TakeToken(w) ==
  /\ pc[w] = "select"
  /\ selecting
  /\ tokens # <<>>
  /\ src' = [src EXCEPT ![w] = Head(tokens)]
  /\ tokens' = Tail(tokens)
  /\ Goto(w, "fetch")
  /\ UNCHANGED <<handler, notify, box, open, selecting, mainVars, brokerVars, msg, inv, poolVars,
                 replyVars>>

\* LatchError, or Error if the Select has no receiver left
Leave(w) ==
  /\ pc[w] = "select"
  /\ ~selecting
  /\ Goto(w, "exited")
  /\ UNCHANGED <<selectVars, mainVars, brokerVars, src, msg, inv, poolVars, replyVars>>

Fetch(w) ==
  LET r == src[w] IN
  /\ pc[w] = "fetch"
  /\ src' = [src EXCEPT ![w] = None]
  /\ \/ r \notin open /\ Goto(w, "exited") /\ UNCHANGED <<box, msg>>
     \/ r \in open /\ box[r] = <<>> /\ Goto(w, "select") /\ UNCHANGED <<box, msg>>
     \/ /\ r \in open /\ box[r] # <<>>
        /\ msg' = [msg EXCEPT ![w] = Head(box[r])]
        /\ box' = [box EXCEPT ![r] = Tail(@)]
        /\ Goto(w, "find")
  /\ UNCHANGED <<handler, notify, open, tokens, selecting, mainVars, brokerVars, inv, poolVars,
                 replyVars>>

\* The worker is done with its request; n replies were sent.
End(w, n) == /\ ended' = ended \cup {msg[w]}
             /\ replies' = [replies EXCEPT ![msg[w]] = @ + n]
             /\ msg' = [msg EXCEPT ![w] = None]
             /\ inv' = [inv EXCEPT ![w] = IF pc'[w] = "pop" THEN @ ELSE <<>>]

Use(w, which) == inv' = [inv EXCEPT ![w] = <<Target[msg[w]], which>>]

\* get_invoker() looks without the lock; a malformed request is refused.
Find(w) ==
  LET s == Target[msg[w]] IN
  /\ pc[w] = "find"
  /\ \/ registry[s] # "none" /\ Use(w, registry[s]) /\ Goto(w, "invoke") /\ UNCHANGED <<msg, replyVars>>
     \/ registry[s] = "none" /\ Goto(w, "lock") /\ UNCHANGED <<msg, inv, replyVars>>
     \/ Goto(w, "check") /\ End(w, 1)
  /\ UNCHANGED <<selectVars, mainVars, brokerVars, src, poolVars>>

\* mutation: do not look again.
MissingUnchecked(s) == TRUE
Missing(s) == registry[s] = "none"

Lock(w) ==
  LET s == Target[msg[w]] IN
  /\ pc[w] = "lock"
  /\ holder = None
  /\ \/ ~Missing(s) /\ Use(w, registry[s]) /\ Goto(w, "invoke") /\ UNCHANGED holder
     \/ Missing(s) /\ holder' = w /\ Goto(w, "permit") /\ UNCHANGED inv
  /\ UNCHANGED <<selectVars, mainVars, brokerVars, src, msg, registry, built, queue, running,
                 replyVars>>

\* The exception leaves get_invoker().
ActivateFails(w) == holder' = None /\ Goto(w, "check") /\ End(w, 1)

\* Activator.activate(): the sender may lack the authority; the module may have to
\* be requested from the parent.
Permit(w) ==
  /\ pc[w] = "permit"
  /\ \/ ActivateFails(w)
     \/ Goto(w, "import") /\ UNCHANGED <<holder, msg, inv, replyVars>>
     \/ Goto(w, "add") /\ UNCHANGED <<holder, msg, inv, replyVars>>
  /\ UNCHANGED <<selectVars, mainVars, brokerVars, src, registry, built, queue, running>>

\* The module arrives by way of the broker.
LoadModule(w) ==
  /\ pc[w] = "import"
  /\ bpc \in {"loop", "grace"}
  /\ \/ ActivateFails(w)
     \/ Goto(w, "add") /\ UNCHANGED <<holder, msg, inv, replyVars>>
  /\ UNCHANGED <<selectVars, mainVars, brokerVars, src, registry, built, queue, running>>

\* Pool.add() registers one invoker, get_invoker() then another.
Add(w) ==
  LET s == Target[msg[w]] IN
  /\ pc[w] = "add"
  /\ built' = [built EXCEPT ![s] = @ + 1]
  /\ registry' = [registry EXCEPT ![s] = "added"]
  /\ Goto(w, "publish")
  /\ UNCHANGED <<selectVars, mainVars, brokerVars, src, msg, inv, holder, queue, running, replyVars>>

Publish(w) ==
  /\ pc[w] = "publish"
  /\ registry' = [registry EXCEPT ![Target[msg[w]]] = "final"]
  /\ Use(w, "final")
  /\ holder' = None
  /\ Goto(w, "invoke")
  /\ UNCHANGED <<selectVars, mainVars, brokerVars, src, msg, built, queue, running, replyVars>>

FirstAlways(i) == TRUE    \* mutation: whoever enqueues runs the queue
First(i)       == ~running[i]

\* Invoker.invoke(), SerializedInvoker.invoke()
Invoke(w) ==
  LET i == inv[w] IN
  /\ pc[w] = "invoke"
  /\ \/ /\ i[1] \notin Serialized
        /\ Goto(w, "method")
        /\ UNCHANGED <<msg, inv, queue, running>>
     \/ /\ i[1] \in Serialized
        /\ queue' = [queue EXCEPT ![i] = Append(@, msg[w])]
        /\ running' = [running EXCEPT ![i] = TRUE]
        /\ msg' = [msg EXCEPT ![w] = None]
        /\ inv' = [inv EXCEPT ![w] = IF First(i) THEN i ELSE <<>>]
        /\ Goto(w, IF First(i) THEN "pop" ELSE "check")
  /\ UNCHANGED <<selectVars, mainVars, brokerVars, src, registry, holder, built, replyVars>>

StillRunning(i) == running    \* mutation: _running is not reset
NotRunning(i)   == [running EXCEPT ![i] = FALSE]

\* SerializedInvoker._pop()
Pop(w) ==
  LET i == inv[w] IN
  /\ pc[w] = "pop"
  /\ \/ /\ queue[i] = <<>>
        /\ running' = NotRunning(i)
        /\ inv' = [inv EXCEPT ![w] = <<>>]
        /\ Goto(w, "check")
        /\ UNCHANGED <<queue, msg>>
     \/ /\ queue[i] # <<>>
        /\ msg' = [msg EXCEPT ![w] = Head(queue[i])]
        /\ queue' = [queue EXCEPT ![i] = Tail(@)]
        /\ Goto(w, "method")
        /\ UNCHANGED <<running, inv>>
  /\ UNCHANGED <<selectVars, mainVars, brokerVars, src, registry, holder, built, replyVars>>

\* mutation: the pool answers what SerializedInvoker has answered
RepliesTwice(m) == IF m \in Quiet THEN {0, 1} ELSE {1, 2}
Replies(m)      == IF m \in Quiet THEN {0, 1} ELSE {1}

\* The method returns or raises.  A method with @no_reply that raises is answered.
Method(w) ==
  /\ pc[w] = "method"
  /\ Goto(w, IF inv[w][1] \in Serialized THEN "pop" ELSE "check")
  /\ \E n \in Replies(msg[w]) : End(w, n)
  /\ UNCHANGED <<selectVars, mainVars, brokerVars, src, poolVars>>

Work(w) == \/ CheckClosed(w) \/ TakeToken(w) \/ Leave(w) \/ Fetch(w) \/ Find(w) \/ Lock(w)
           \/ Permit(w) \/ LoadModule(w) \/ Add(w) \/ Publish(w) \/ Invoke(w) \/ Pop(w) \/ Method(w)

-----------------------------------------------------------------------------
Next == \/ MainNext
        \/ BrokerNext
        \/ Shutdown
        \/ \E m \in Msgs : Deliver(m)
        \/ \E w \in Workers : Work(w)

Spec == Init /\ [][Next]_vars

\* Threads run, methods end, and the parent answers requests for modules; nobody
\* has to send requests or to shut the process down.
FairSpec == /\ Spec
            /\ WF_vars(MainNext)
            /\ WF_vars(BrokerNext)
            /\ \A w \in Workers : WF_vars(Work(w))

-----------------------------------------------------------------------------
Count(seq, x) == Cardinality({k \in DOMAIN seq : seq[k] = x})

\* No request is left behind when the pool takes over from the Dispatcher: until
\* the process shuts down, something announces each one that a receiver buffers.
Announced ==
  bpc \in {"loop", "put", "notify", "call"} => \A r \in Receivers :
    CASE notify[r] = "select" /\ main # <<"size", r>> ->
           Len(box[r]) <= Count(tokens, r) + Cardinality({w \in Workers : src[w] = r})
                          + (IF bpc \in {"notify", "call"} /\ cur[1] = r THEN 1 ELSE 0)
      [] notify[r] = "stub" /\ main[1] = "dispatch" ->
           box[r] # <<>> => summoned \/ bpc \in {"notify", "call"}
      [] OTHER -> main[1] # "running"

\* A service is constructed once, although threads look for it without the lock.
BuiltOnce == \A s \in Services : built[s] <= 1

\* One thread at a time runs the queue of a SerializedInvoker, and as long as
\* something is on it one does.
OneRunner ==
  \A i \in Invokers : i[1] \in Serialized =>
    LET runners == {w \in Workers : inv[w] = i /\ pc[w] \in {"pop", "method"}} IN
    /\ Cardinality(runners) <= 1
    /\ queue[i] # <<>> => runners # {}

\* A request is answered once, or not at all if it expects no answer.
AnsweredOnce ==
  \A m \in Msgs : /\ replies[m] <= 1
                  /\ m \in ended \ Quiet => replies[m] = 1

\* Every request that arrives is dealt with, unless the process shuts down.
Up == bpc \in {"loop", "put", "notify", "call"}
Served == []<>(~Up \/ sent \subseteq ended)

\* Pool.stop() returns, unless a thread waits for a module.
StopReturns == []<>(bpc # "join" \/ \E w \in Workers : pc[w] = "import")

\* What the pool promises its callers in every interleaving of its workers with the dispatch
\* of requests, the import of services and a shutdown.
PoolSafe == TypeOK /\ Announced /\ BuiltOnce /\ OneRunner /\ AnsweredOnce

\* Requests are served, and stopping the pool comes to an end.
PoolLive ==
  /\ Served
  /\ StopReturns

-----------------------------------------------------------------------------
(* What a comment says and the code does not do *)

\* "ensure _on_broker_exit() can always SIGTERM": a broker that shuts down exits.
BrokerExits == (bpc = "stop") ~> (bpc = "done")

=============================================================================
