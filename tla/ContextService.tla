--------------------------- MODULE ContextService ---------------------------
(***************************************************************************)
(* ansible_mitogen.services.ContextService: the threads of a service pool  *)
(* serve get() and put() for worker processes, sharing one connection      *)
(* among all requests with the same configuration key, while the broker    *)
(* thread reports contexts that disconnect.  _lock guards the tables in    *)
(* some places; the steps outside it are actions of their own.             *)
(*                                                                         *)
(* A stack of connections is abstracted to its last hop, below one via     *)
(* context that stays connected, with enable_lru.  A client stands for a   *)
(* worker and for the pool thread serving its get().                       *)
(***************************************************************************)
EXTENDS Naturals, Sequences, SequencesExt, FiniteSets

CONSTANTS Clients, Keys, Contexts,
          MaxInterpreters,  \* ContextService.max_interpreters
          Unreliable,       \* contexts that may disconnect without being told to
          Resets,           \* whether reset() and shutdown_all() are called
          None

ASSUME ContextAssumption == /\ MaxInterpreters \in Nat \ {0}
                            /\ Unreliable \subseteq Contexts
                            /\ Resets \in BOOLEAN
                            /\ None \notin Keys \cup Contexts
                            /\ "error" \notin Contexts

VARIABLES response,   \* _response_by_key
          latches,    \* _latches_by_key: the clients waiting for each key
          refs,       \* _refs_by_context
          lru,        \* _lru_by_via[via]
          keyOf,      \* _key_by_context
          viaOf,      \* contexts that _via_by_context has
          made,       \* the key of the configuration each context was made with
          life,       \* "new", "up", "leaving" (told to shut down) or "down"
          listening,  \* contexts with a listener for their disconnect signal
          dropped,    \* disconnected contexts the listener has yet to handle
          ctxPc, want, \* where each client is, and the key it wants
          conn,       \* the context each thread is connecting
          count,      \* count of _wait_or_start(), then the sum it stores
          answer      \* what was put in the latch of each client

tables  == <<response, latches, refs, lru, keyOf, viaOf>>
network == <<made, life, listening, dropped>>
locals  == <<want, conn, count>>
ctxVars == <<tables, network, ctxPc, locals, answer>>

Connecting == {"method", "lru", "listen", "init", "key", "zero", "produce", "failed"}
Recording  == {"record", "read", "add"}

ContextsTypeOK ==
  /\ response \in [Keys -> Contexts \cup {None}]
  /\ latches \in [Keys -> SUBSET Clients]
  /\ refs \in [Contexts -> Nat \cup {None}]
  /\ lru \in Seq(Contexts)
  /\ keyOf \in [Contexts -> Keys \cup {None}]
  /\ viaOf \subseteq Contexts
  /\ made \in [Contexts -> Keys \cup {None}]
  /\ life \in [Contexts -> {"new", "up", "leaving", "down"}]
  /\ listening \subseteq Contexts
  /\ dropped \subseteq Contexts
  /\ ctxPc \in [Clients -> {"idle", "wait", "holding"} \cup Connecting \cup Recording]
  /\ want \in [Clients -> Keys \cup {None}]
  /\ conn \in [Clients -> Contexts \cup {None}]
  /\ count \in [Clients -> Nat]
  /\ answer \in [Clients -> Contexts \cup {None, "error"}]

ContextsInit ==
  /\ response = [k \in Keys |-> None]
  /\ latches = [k \in Keys |-> {}]
  /\ refs = [c \in Contexts |-> None]
  /\ lru = <<>>
  /\ keyOf = [c \in Contexts |-> None]
  /\ viaOf = {}
  /\ made = [c \in Contexts |-> None]
  /\ life = [c \in Contexts |-> "new"]
  /\ listening = {}
  /\ dropped = {}
  /\ ctxPc = [t \in Clients |-> "idle"]
  /\ want = [t \in Clients |-> None]
  /\ conn = [t \in Clients |-> None]
  /\ count = [t \in Clients |-> 0]
  /\ answer = [t \in Clients |-> None]

Goto(t, label) == ctxPc' = [ctxPc EXCEPT ![t] = label]

\* The thread is done with the connection it was making.
DropConn(t) == /\ conn' = [conn EXCEPT ![t] = None]
               /\ count' = [count EXCEPT ![t] = 0]

-----------------------------------------------------------------------------
(* _forget_context_unlocked() and _shutdown_unlocked(), under the lock *)

\* The tables without the contexts of C, which all have a key.
Forget(C) ==
  LET ks == {keyOf[c] : c \in C} IN
  /\ response' = [k \in Keys |-> IF k \in ks THEN None ELSE response[k]]
  /\ latches' = [k \in Keys |-> IF k \in ks THEN {} ELSE latches[k]]
  /\ keyOf' = [c \in Contexts |-> IF c \in C THEN None ELSE keyOf[c]]
  /\ refs' = [c \in Contexts |-> IF c \in C THEN None ELSE refs[c]]

Known(C) == {c \in C : keyOf[c] # None}

Leave(C) == [c \in Contexts |-> IF c \in C /\ life[c] = "up" THEN "leaving" ELSE life[c]]

Shutdown(C) ==
  /\ life' = Leave(C)
  /\ Forget(Known(C))

-----------------------------------------------------------------------------
(* get() *)

\* _wait_or_start() with the lock held: the connection exists; a count that is
\* missing raises KeyError, which is the reply.
Hit(t, k) ==
  /\ ctxPc[t] = "idle"
  /\ response[k] # None
  /\ \/ /\ refs[response[k]] # None
        /\ refs' = [refs EXCEPT ![response[k]] = @ + 1]
        /\ answer' = [answer EXCEPT ![t] = response[k]]
     \/ /\ refs[response[k]] = None
        /\ answer' = [answer EXCEPT ![t] = "error"]
        /\ UNCHANGED refs
  /\ want' = [want EXCEPT ![t] = k]
  /\ Goto(t, "wait")
  /\ UNCHANGED <<response, latches, lru, keyOf, viaOf, network, conn, count>>

\* The first to wait for a key makes the connection.
FirstAlways(k) == TRUE    \* mutation: whoever waits makes a connection
First(k)       == latches[k] = {}

Miss(t, k) ==
  /\ ctxPc[t] = "idle"
  /\ response[k] = None
  /\ latches' = [latches EXCEPT ![k] = @ \cup {t}]
  /\ want' = [want EXCEPT ![t] = k]
  /\ Goto(t, IF First(k) THEN "method" ELSE "wait")
  /\ UNCHANGED <<response, refs, lru, keyOf, viaOf, network, conn, count, answer>>

\* _connect(): the method of the router, which may fail.
Method(t) ==
  /\ ctxPc[t] = "method"
  /\ \/ \E c \in Contexts :
          /\ life[c] = "new"
          /\ life' = [life EXCEPT ![c] = "up"]
          /\ made' = [made EXCEPT ![c] = want[t]]
          /\ conn' = [conn EXCEPT ![t] = c]
          /\ Goto(t, "lru")
     \/ Goto(t, "failed") /\ UNCHANGED <<life, made, conn>>
  /\ UNCHANGED <<tables, listening, dropped, want, count, answer>>

\* The scan of _update_lru_unlocked() for a context to destroy stops at the first
\* one, from the end, whose count is 0 or, with a KeyError, unknown.
Scanned == {i \in DOMAIN lru : refs[lru[i]] \in {0, None}}
Newest  == lru[Max(Scanned)]

\* What remains of the list without the contexts of C, in the same order.
Kept(C)     == {i \in DOMAIN lru : lru[i] \notin C}
Place(K, i) == Cardinality({j \in K : j <= i})
Nth(K, n)   == CHOOSE i \in K : Place(K, i) = n

EvictedNone(C) == lru    \* mutation: keep them in the list
Evicted(C)     == [n \in 1..Cardinality(Kept(C)) |-> lru[Nth(Kept(C), n)]]

UpdateLru(t) ==
  /\ ctxPc[t] = "lru"
  /\ \/ /\ Len(lru) < MaxInterpreters
        /\ viaOf' = viaOf \cup {conn[t]}
        /\ lru' = Append(lru, conn[t])
        /\ Goto(t, "listen")
        /\ UNCHANGED <<response, latches, refs, keyOf, life>>
     \/ /\ Len(lru) >= MaxInterpreters
        /\ Scanned = {}
        /\ viaOf' = viaOf \cup {conn[t]}
        /\ Goto(t, "listen")
        /\ UNCHANGED <<response, latches, refs, lru, keyOf, life>>
     \/ /\ Len(lru) >= MaxInterpreters
        /\ Scanned # {}
        /\ refs[Newest] = 0
        /\ Shutdown({Newest})
        /\ lru' = IF Newest \in viaOf THEN Append(Evicted({Newest}), conn[t]) ELSE lru
        /\ viaOf' = (viaOf \cup {conn[t]}) \ Known({Newest})
        /\ Goto(t, "listen")
     \* KeyError
     \/ /\ Len(lru) >= MaxInterpreters
        /\ Scanned # {}
        /\ refs[Newest] = None
        /\ viaOf' = viaOf \cup {conn[t]}
        /\ Goto(t, "failed")
        /\ UNCHANGED <<response, latches, refs, lru, keyOf, life>>
  /\ UNCHANGED <<made, listening, dropped, locals, answer>>

\* A listener that comes after the signal is not called.
Listen(t) ==
  /\ ctxPc[t] = "listen"
  /\ listening' = listening \cup {conn[t]}
  /\ Goto(t, "init")
  /\ UNCHANGED <<tables, made, life, dropped, locals, answer>>

\* The call of init_child() succeeds only while the context is connected.
InitChild(t) ==
  /\ ctxPc[t] = "init"
  /\ \/ life[conn[t]] # "down" /\ Goto(t, "key")
     \/ Goto(t, "failed")
  /\ UNCHANGED <<tables, network, locals, answer>>

SetKey(t) ==
  /\ ctxPc[t] = "key"
  /\ keyOf' = [keyOf EXCEPT ![conn[t]] = want[t]]
  /\ Goto(t, "zero")
  /\ UNCHANGED <<response, latches, refs, lru, viaOf, network, locals, answer>>

ZeroRefs(t) ==
  /\ ctxPc[t] = "zero"
  /\ refs' = [refs EXCEPT ![conn[t]] = 0]
  /\ Goto(t, "produce")
  /\ UNCHANGED <<response, latches, lru, keyOf, viaOf, network, locals, answer>>

\* _produce_response(): every waiter of a key gets the same response; popping a
\* key without waiters raises KeyError.
WaitersAny(k) == UNION {latches[j] : j \in Keys}    \* mutation: wake every key
Waiters(k)    == latches[k]

Produce(k, r) ==
  /\ latches[k] # {}
  /\ answer' = [t \in Clients |-> IF t \in Waiters(k) THEN r ELSE answer[t]]
  /\ latches' = [latches EXCEPT ![k] = {}]

ProduceResponse(t) ==
  /\ ctxPc[t] = "produce"
  /\ \/ /\ Produce(want[t], conn[t])
        /\ count' = [count EXCEPT ![t] = Cardinality(latches[want[t]])]
        /\ Goto(t, "record")
     \/ /\ latches[want[t]] = {}
        /\ Goto(t, "failed")
        /\ UNCHANGED <<answer, latches, count>>
  /\ UNCHANGED <<response, refs, lru, keyOf, viaOf, network, want, conn>>

\* What follows runs without the lock.
Record(t) ==
  /\ ctxPc[t] = "record"
  /\ response' = [response EXCEPT ![want[t]] = conn[t]]
  /\ Goto(t, "read")
  /\ UNCHANGED <<latches, refs, lru, keyOf, viaOf, network, locals, answer>>

ReadRefs(t) ==
  /\ ctxPc[t] = "read"
  /\ \/ /\ refs[conn[t]] # None
        /\ count' = [count EXCEPT ![t] = @ + refs[conn[t]]]
        /\ Goto(t, "add")
     \/ /\ refs[conn[t]] = None
        /\ Goto(t, "failed")
        /\ UNCHANGED count
  /\ UNCHANGED <<tables, network, want, conn, answer>>

AddRefs(t) ==
  /\ ctxPc[t] = "add"
  /\ refs' = [refs EXCEPT ![conn[t]] = count[t]]
  /\ DropConn(t)
  /\ Goto(t, "wait")
  /\ UNCHANGED <<response, latches, lru, keyOf, viaOf, network, want, answer>>

\* The exception handler answers the waiters with the exception; if there is none
\* left it raises in turn, and so does the get().
FailedSilently(t) == UNCHANGED <<latches, answer>>    \* mutation: no handler
FailedAnswer(t) ==
  \/ Produce(want[t], "error")
  \/ latches[want[t]] = {} /\ answer' = [answer EXCEPT ![t] = "error"] /\ UNCHANGED latches

Failed(t) ==
  /\ ctxPc[t] = "failed"
  /\ FailedAnswer(t)
  /\ DropConn(t)
  /\ Goto(t, "wait")
  /\ UNCHANGED <<response, refs, lru, keyOf, viaOf, network, want>>

Done(t) == /\ Goto(t, "idle")
           /\ want' = [want EXCEPT ![t] = None]
           /\ answer' = [answer EXCEPT ![t] = None]

\* latch.get(): the reply goes to the worker.
Return(t) ==
  /\ ctxPc[t] = "wait"
  /\ answer[t] # None
  /\ \/ answer[t] # "error" /\ Goto(t, "holding") /\ UNCHANGED <<want, answer>>
     \/ answer[t] = "error" /\ Done(t)
  /\ UNCHANGED <<tables, network, conn, count>>

-----------------------------------------------------------------------------
(* put(), reset(), shutdown_all() *)

CountedAny(c) == refs[c] # None    \* mutation: count below zero
Counted(c)    == refs[c] \notin {0, None}

Put(t) ==
  /\ ctxPc[t] = "holding"
  /\ refs' = IF Counted(answer[t]) THEN [refs EXCEPT ![answer[t]] = @ - 1] ELSE refs
  /\ Done(t)
  /\ UNCHANGED <<response, latches, lru, keyOf, viaOf, network, conn, count>>

\* reset() goes on to wait for the disconnect, without the lock.
Reset(k) ==
  LET c == response[k] IN
  /\ Resets
  /\ c # None
  /\ Shutdown({c})
  /\ lru' = IF c \in viaOf THEN Evicted({c}) ELSE lru
  /\ viaOf' = viaOf \ Known({c})
  /\ UNCHANGED <<made, listening, dropped, ctxPc, locals, answer>>

ShutdownAll ==
  /\ Resets
  /\ Known(Contexts) # {}
  /\ Shutdown(Known(Contexts))
  /\ lru' = Evicted(Known(Contexts) \cap viaOf)
  /\ viaOf' = viaOf \ Known(Contexts)
  /\ UNCHANGED <<made, listening, dropped, ctxPc, locals, answer>>

-----------------------------------------------------------------------------
(* The broker thread *)

\* A context disconnects: because it was told to, or because its connection fails.
ContextDisconnect(c) ==
  /\ life[c] = "leaving" \/ (life[c] = "up" /\ c \in Unreliable)
  /\ life' = [life EXCEPT ![c] = "down"]
  /\ dropped' = dropped \cup ({c} \cap listening)
  /\ UNCHANGED <<tables, made, listening, ctxPc, locals, answer>>

OnContextDisconnect(c) ==
  /\ c \in dropped
  /\ dropped' = dropped \ {c}
  /\ Forget(Known({c}))
  /\ viaOf' = viaOf \ Known({c})
  /\ UNCHANGED <<lru, made, life, listening, ctxPc, locals, answer>>

-----------------------------------------------------------------------------
Serve(t) == \/ Method(t) \/ UpdateLru(t) \/ Listen(t) \/ InitChild(t)
            \/ SetKey(t) \/ ZeroRefs(t) \/ ProduceResponse(t) \/ Record(t)
            \/ ReadRefs(t) \/ AddRefs(t) \/ Failed(t) \/ Return(t)

ContextsNext == \/ \E t \in Clients : Serve(t) \/ Put(t) \/ \E k \in Keys : Hit(t, k) \/ Miss(t, k)
                \/ \E k \in Keys : Reset(k)
                \/ ShutdownAll
                \/ \E c \in Contexts : ContextDisconnect(c) \/ OnContextDisconnect(c)

ContextsSpec == ContextsInit /\ [][ContextsNext]_ctxVars

\* Pool threads and the broker run; connection attempts end, one way or the other.
ContextsFairness == /\ \A t \in Clients : WF_ctxVars(Serve(t))
                    /\ \A c \in Contexts : WF_ctxVars(OnContextDisconnect(c))
ContextsFairSpec == ContextsSpec /\ ContextsFairness

-----------------------------------------------------------------------------
\* Whatever disconnects and however requests interleave, a client is given a
\* context of the configuration it asked for.
AnswersMatch ==
  \A t \in Clients : ctxPc[t] \in {"wait", "holding"} /\ answer[t] \in Contexts =>
                       made[answer[t]] = want[t]

\* No client waits for a connection that nobody is making: as long as a key has
\* waiters, one of the threads it counts on will produce a response or a failure.
\* Else every later request for the key would wait too, for ever.
Pursued ==
  \A k \in Keys : latches[k] # {} =>
    \E t \in Clients : want[t] = k /\ ctxPc[t] \in Connecting

\* The interpreters below a via context stay within the maximum.
LruBounded == Len(lru) <= MaxInterpreters /\ IsInjective(lru)

\* No two threads make the same connection at once.
ConnectsOnce ==
  \A t, u \in Clients :
    /\ want[t] = want[u]
    /\ ctxPc[t] \in Connecting \ {"failed"}
    /\ ctxPc[u] \in Connecting \ {"failed"}
    => t = u

\* Every get() is answered.
Answered == \A t \in Clients : []<>(ctxPc[t] # "wait")

\* What ContextService promises whatever disconnects: the configuration asked for, nobody left
\* waiting for nobody, and interpreters within the maximum.
ContextSafe == ContextsTypeOK /\ LruBounded /\ AnswersMatch /\ Pursued
=============================================================================
