-------------------------------- MODULE Latch --------------------------------
(***************************************************************************)
(* mitogen.core.Latch: a queue whose waiters sleep in poll() on the read   *)
(* side of a socketpair taken from a pool shared by the process.  put()    *)
(* chooses the sleeper to wake while it holds the latch's lock and writes  *)
(* the sleeper's cookie to the socketpair after releasing it; the sleeper  *)
(* takes the lock again, consumes the cookie and pops its item.            *)
(*                                                                         *)
(* Each action is one lock-protected region, or one system call made       *)
(* outside the lock.  A cookie names a process, a latch and a thread: with *)
(* one process and one latch it is the sleeping thread.                    *)
(***************************************************************************)
EXTENDS Naturals, Sequences, SequencesExt

CONSTANTS Threads,   \* callers of put(), get() and close()
          Timed,     \* the threads that pass a timeout to get()
          Pairs,     \* the socketpairs the process may ever create
          MaxPuts    \* bound on the accepted puts of one behaviour

ASSUME LatchAssumption == Timed \subseteq Threads /\ MaxPuts \in Nat

VARIABLES closed,    \* Latch.closed
          accepted,  \* number of put() calls accepted so far; the k-th is item k
          queue,     \* Latch._queue
          sleeping,  \* Latch._sleeping: entries [pair, thread], in arrival order
          waking,    \* Latch._waking
          pipe,      \* cookies written to each socketpair and not yet received
          idle,      \* Latch._cls_idle_socketpairs
          made,      \* Latch._cls_all_sockets, as socketpairs
          pc,        \* where each thread is
          entry,     \* locals (wsock, cookie) of the call each thread is in
          result     \* outcome of the last get() each thread completed

vars == <<closed, accepted, queue, sleeping, waking, pipe, idle, made,
          pc, entry, result>>

Entries == [pair : Pairs, thread : Threads]
NoEntry == <<>>

Outcomes == {"none", "item", "timeout", "closed", "cookie", "unassigned", "index"}
Outcome(st) == [st |-> st, item |-> 0]
Got(i)      == [st |-> "item", item |-> i]

TypeOK == /\ closed \in BOOLEAN
          /\ accepted \in 0..MaxPuts
          /\ queue \in Seq(1..MaxPuts)
          /\ sleeping \in Seq(Entries)
          /\ waking \in Nat
          /\ pipe \in [Pairs -> Seq(Threads)]
          /\ made \subseteq Pairs
          /\ idle \subseteq made
          /\ pc \in [Threads -> {"ready", "polling", "relock", "waking"}]
          /\ entry \in [Threads -> Entries \cup {NoEntry}]
          /\ \A t \in Threads : pc[t] # "ready" => entry[t] \in Entries
          /\ result \in [Threads -> [st : Outcomes, item : 0..MaxPuts]]

Init == /\ closed = FALSE
        /\ accepted = 0
        /\ queue = <<>>
        /\ sleeping = <<>>
        /\ waking = 0
        /\ pipe = [p \in Pairs |-> <<>>]
        /\ idle = {}
        /\ made = {}
        /\ pc = [t \in Threads |-> "ready"]
        /\ entry = [t \in Threads |-> NoEntry]
        /\ result = [t \in Threads |-> Outcome("none")]

-----------------------------------------------------------------------------
(* get() *)

GetClosed(t) ==
  /\ pc[t] = "ready"
  /\ closed
  /\ result' = [result EXCEPT ![t] = Outcome("closed")]
  /\ UNCHANGED <<closed, accepted, queue, sleeping, waking, pipe, idle, made,
                 pc, entry>>

\* The item a running thread may take: the first Len(sleeping) items are left
\* to the sleepers.
SpareFirst == 1    \* mutation: take the oldest item
Spare == Len(sleeping) + 1

GetNow(t) ==
  /\ pc[t] = "ready"
  /\ ~closed
  /\ Len(queue) >= Spare
  /\ result' = [result EXCEPT ![t] = Got(queue[Spare])]
  /\ queue' = RemoveAt(queue, Spare)
  /\ UNCHANGED <<closed, accepted, sleeping, waking, pipe, idle, made, pc, entry>>

\* block=False
GetEmpty(t) ==
  /\ pc[t] = "ready"
  /\ ~closed
  /\ Len(queue) < Spare
  /\ result' = [result EXCEPT ![t] = Outcome("timeout")]
  /\ UNCHANGED <<closed, accepted, queue, sleeping, waking, pipe, idle, made,
                 pc, entry>>

\* mutations: leave the socketpair in the pool; forget to record a new one
GetSocketpairShared(p) ==
  /\ p \in idle \/ (idle = {} /\ p \notin made)
  /\ made' = made \cup {p}
  /\ UNCHANGED idle
GetSocketpairUnrecorded(p) ==
  \/ p \in idle /\ idle' = idle \ {p} /\ UNCHANGED made
  \/ idle = {} /\ p \notin made /\ UNCHANGED <<idle, made>>
GetSocketpair(p) ==
  \/ /\ p \in idle
     /\ idle' = idle \ {p}
     /\ UNCHANGED made
  \/ /\ idle = {}
     /\ p \notin made
     /\ made' = made \cup {p}
     /\ UNCHANGED idle

GetSleep(t, p) ==
  LET e == [pair |-> p, thread |-> t] IN
  /\ pc[t] = "ready"
  /\ ~closed
  /\ Len(queue) < Spare
  /\ GetSocketpair(p)
  /\ sleeping' = Append(sleeping, e)
  /\ entry' = [entry EXCEPT ![t] = e]
  /\ pc' = [pc EXCEPT ![t] = "polling"]
  /\ UNCHANGED <<closed, accepted, queue, waking, pipe, result>>

\* poll() returns because the socketpair is readable, or because time is up.
PollReadable(t) ==
  /\ pc[t] = "polling"
  /\ pipe[entry[t].pair] # <<>>
  /\ pc' = [pc EXCEPT ![t] = "relock"]
  /\ UNCHANGED <<closed, accepted, queue, sleeping, waking, pipe, idle, made,
                 entry, result>>

PollTimeout(t) ==
  /\ pc[t] = "polling"
  /\ pc' = [pc EXCEPT ![t] = "relock"]
  /\ UNCHANGED <<closed, accepted, queue, sleeping, waking, pipe, idle, made,
                 entry, result>>

\* The part of _get_sleep() every outcome shares: entry k leaves _sleeping and
\* its socketpair goes back to the pool.
LeaveSleep(t, k) ==
  /\ pc[t] = "relock"
  /\ k \in DOMAIN sleeping
  /\ sleeping[k] = entry[t]
  /\ sleeping' = RemoveAt(sleeping, k)
  /\ idle' = idle \cup {entry[t].pair}
  /\ pc' = [pc EXCEPT ![t] = "ready"]
  /\ entry' = [entry EXCEPT ![t] = NoEntry]
  /\ UNCHANGED <<closed, accepted, made>>

\* recv() fails with EAGAIN.
WakeTimeout(t, k) ==
  /\ LeaveSleep(t, k)
  /\ pipe[entry[t].pair] = <<>>
  /\ result' = [result EXCEPT ![t] = Outcome("timeout")]
  /\ UNCHANGED <<queue, waking, pipe>>

Recv(t, cookie) ==
  LET p == entry[t].pair IN
  /\ pipe[p] # <<>>
  /\ cookie = Head(pipe[p])
  /\ pipe' = [pipe EXCEPT ![p] = Tail(@)]

\* One of the two assertions fails.
WakeAssert(t, k) ==
  /\ LeaveSleep(t, k)
  /\ \E cookie \in Threads :
       /\ Recv(t, cookie)
       /\ \/ /\ cookie # t
             /\ result' = [result EXCEPT ![t] = Outcome("cookie")]
          \/ /\ cookie = t
             /\ k > waking
             /\ result' = [result EXCEPT ![t] = Outcome("unassigned")]
  /\ UNCHANGED <<queue, waking>>

WakeClosed(t, k) ==
  /\ LeaveSleep(t, k)
  /\ Recv(t, t)
  /\ k <= waking
  /\ closed
  /\ waking' = waking - 1
  /\ result' = [result EXCEPT ![t] = Outcome("closed")]
  /\ UNCHANGED queue

WakeItem(t, k) ==
  /\ LeaveSleep(t, k)
  /\ Recv(t, t)
  /\ k <= waking
  /\ ~closed
  /\ waking' = waking - 1
  /\ \/ /\ k <= Len(queue)
        /\ result' = [result EXCEPT ![t] = Got(queue[k])]
        /\ queue' = RemoveAt(queue, k)
     \/ /\ k > Len(queue)    \* IndexError of list.pop()
        /\ result' = [result EXCEPT ![t] = Outcome("index")]
        /\ UNCHANGED queue

GetWake(t) == \E k \in DOMAIN sleeping : \/ WakeTimeout(t, k) \/ WakeAssert(t, k)
                                         \/ WakeClosed(t, k)  \/ WakeItem(t, k)

-----------------------------------------------------------------------------
(* put() and close(); a put() on a closed latch raises and changes nothing *)

ChosenLast == sleeping[Len(sleeping)]    \* mutation: wake the newest sleeper
Chosen == sleeping[waking + 1]

Put(t) ==
  /\ pc[t] = "ready"
  /\ ~closed
  /\ accepted < MaxPuts
  /\ accepted' = accepted + 1
  /\ queue' = Append(queue, accepted')
  /\ \/ /\ waking < Len(sleeping)
        /\ entry' = [entry EXCEPT ![t] = Chosen]
        /\ waking' = waking + 1
        /\ pc' = [pc EXCEPT ![t] = "waking"]
     \/ /\ waking >= Len(sleeping)
        /\ UNCHANGED <<entry, waking, pc>>
  /\ UNCHANGED <<closed, sleeping, pipe, idle, made, result>>

\* _wake(), called by put() without the lock
PutWake(t) ==
  /\ pc[t] = "waking"
  /\ pipe' = [pipe EXCEPT ![entry[t].pair] = Append(@, entry[t].thread)]
  /\ pc' = [pc EXCEPT ![t] = "ready"]
  /\ entry' = [entry EXCEPT ![t] = NoEntry]
  /\ UNCHANGED <<closed, accepted, queue, sleeping, waking, idle, made, result>>

\* close() writes its cookies while it holds the lock.
\* mutations: wake everybody again; stop one short
UnwokenAll   == DOMAIN sleeping
UnwokenShort == {k \in DOMAIN sleeping : k > waking /\ k < Len(sleeping)}
Unwoken == {k \in DOMAIN sleeping : k > waking}

Woken(p) == CHOOSE k \in Unwoken : sleeping[k].pair = p

Close(t) ==
  /\ pc[t] = "ready"
  /\ closed' = TRUE
  /\ pipe' = [p \in Pairs |-> IF \E k \in Unwoken : sleeping[k].pair = p
                              THEN Append(pipe[p], sleeping[Woken(p)].thread)
                              ELSE pipe[p]]
  /\ waking' = IF waking < Len(sleeping) THEN Len(sleeping) ELSE waking
  /\ UNCHANGED <<accepted, queue, sleeping, idle, made, pc, entry, result>>

-----------------------------------------------------------------------------
Next == \/ \E t \in Threads :
             \/ GetClosed(t) \/ GetNow(t) \/ GetEmpty(t)
             \/ \E p \in Pairs : GetSleep(t, p)
             \/ PollReadable(t) \/ GetWake(t)
             \/ Put(t) \/ PutWake(t) \/ Close(t)
        \/ \E t \in Timed : PollTimeout(t)

\* The kernel reports a readable socketpair and an expired timer, and a thread
\* that has something to do is scheduled; nobody is obliged to call anything.
Fairness == /\ \A t \in Threads : /\ WF_vars(PollReadable(t))
                                  /\ WF_vars(GetWake(t))
                                  /\ WF_vars(PutWake(t))
            /\ \A t \in Timed : WF_vars(PollTimeout(t))

Spec == Init /\ [][Next]_vars

FairSpec == Spec /\ Fairness

-----------------------------------------------------------------------------
(* Properties that hold with and without timeouts *)

InGet(t) == pc[t] \in {"polling", "relock"}

\* A thread inside get() is on _sleeping exactly once, under the socketpair and
\* cookie its call holds, and nobody else is on the list: the index() of
\* _get_sleep() never fails and never finds another call's entry.  No
\* socketpair is lent to two sleepers, or lent while _cls_idle_socketpairs
\* still offers it.
SleepersExact ==
  /\ \A t \in Threads : InGet(t) => /\ entry[t].thread = t
                                    /\ \E k \in DOMAIN sleeping : sleeping[k] = entry[t]
  /\ \A k \in DOMAIN sleeping : /\ InGet(sleeping[k].thread)
                                /\ sleeping[k] = entry[sleeping[k].thread]
                                /\ sleeping[k].pair \in made \ idle
  /\ \A j, k \in DOMAIN sleeping : sleeping[j].pair = sleeping[k].pair => j = k

-----------------------------------------------------------------------------

(* Properties that hold when no get() has a timeout *)

\* Neither assertion of _get_sleep() fails and queue.pop(i) finds its item.
NoAssertFails == \A t \in Threads :
                   result[t].st \notin {"cookie", "unassigned", "index"}

\* A socketpair with something to read belongs to a chosen sleeper (its index is
\* below _waking) and holds that sleeper's cookie, once.
PipeCookies ==
  \A p \in Pairs : pipe[p] # <<>> =>
    \E k \in DOMAIN sleeping : /\ k <= waking
                               /\ sleeping[k].pair = p
                               /\ pipe[p] = <<sleeping[k].thread>>

\* A put() between its unlock and its write is about to wake a chosen sleeper
\* that nobody else has woken or is about to wake.
PutCookies ==
  \A u \in Threads : pc[u] = "waking" =>
    /\ \E k \in DOMAIN sleeping : k <= waking /\ sleeping[k] = entry[u]
    /\ pipe[entry[u].pair] = <<>>
    /\ \A v \in Threads \ {u} : pc[v] = "waking" => entry[v] # entry[u]

\* A chosen sleeper has its cookie or will get it.
DueCookies ==
  \A k \in DOMAIN sleeping : k <= waking =>
    \/ pipe[sleeping[k].pair] # <<>>
    \/ \E u \in Threads : pc[u] = "waking" /\ entry[u] = sleeping[k]

\* A thread leaves poll() only for a cookie.
SeenCookies == \A t \in Threads : pc[t] = "relock" => pipe[entry[t].pair] # <<>>

\* Every wakeup is delivered once, to the sleeper it was meant for, although
\* put() writes it after the unlock and socketpairs are reused.
Cookies == PipeCookies /\ PutCookies /\ DueCookies /\ SeenCookies

\* While the latch is open every chosen sleeper has an item, and an item that
\* no sleeper was chosen for means that nobody is left to choose; once it is
\* closed every sleeper has been chosen.
Assigned ==
  /\ waking <= Len(sleeping)
  /\ closed => waking = Len(sleeping)
  /\ ~closed => /\ waking <= Len(queue)
                /\ waking < Len(sleeping) => Len(queue) = waking

\* The refinement: a chosen sleeper holds the item at its index of _queue, the
\* other sleepers wait, and the items beyond those handed over are buffered.
SleeperOf(k) == sleeping[k].thread

AbsInbox == [t \in Threads |->
               IF \E k \in DOMAIN sleeping : k <= waking /\ SleeperOf(k) = t
               THEN IF closed THEN Outcome("closed")
                    ELSE Got(queue[CHOOSE k \in DOMAIN sleeping : SleeperOf(k) = t])
               ELSE Outcome("none")]

AbsWaiting == [k \in 1..(Len(sleeping) - waking) |-> SleeperOf(waking + k)]

AbsItems == IF closed THEN <<>> ELSE SubSeq(queue, waking + 1, Len(queue))

Abstract == INSTANCE LatchQueue WITH items <- AbsItems, waiting <- AbsWaiting,
                                     inbox <- AbsInbox

\* Threads that never time out see LatchQueue: items are handed to waiters in
\* arrival order on both sides.
ImplementsQueue == Abstract!Spec

\* close() is documented to "cause every sleeping thread to be woken": a thread
\* asleep when the latch is closed leaves get().
CloseWakes == \A t \in Threads : (closed /\ InGet(t)) ~> ~InGet(t)

\* A waiter with an item, or with a closed latch, returns.
LatchLive == CloseWakes /\ Abstract!Fairness
=============================================================================
