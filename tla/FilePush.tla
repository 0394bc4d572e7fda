------------------------------ MODULE FilePush ------------------------------
(* mitogen.service.PushFileService: a file is pushed from the master down a      *)
(* tree of contexts, with its data the first time over each stream and by name   *)
(* after that, and get() waits until it arrives.  The services of a context run  *)
(* on the threads of its pool: requests are taken in order and run concurrently. *)
(*                                                                               *)
(* One file: files do not interact, but for the lock a few steps hold.           *)
EXTENDS Integers, Sequences, FiniteSets

CONSTANTS Source, Holders, Over,  \* a tree: Over[n] is the parent of holder n
          PoolSize,               \* threads of each pool
          Targets,                \* contexts the file is pushed to
          Readers, ReaderAt       \* threads that call get(), and where

\* Lineage[k]: k and those it is below.
Lineage ==
  [k \in Holders |->
     {n \in Holders \cup {Source} :
        \A S \in SUBSET (Holders \cup {Source}) : k \in S /\ (\A j \in S \cap Holders : Over[j] \in S) => n \in S}]

ASSUME PushAssumption ==
  /\ Source \notin Holders /\ Over \in [Holders -> Holders \cup {Source}]
  /\ PoolSize \in Nat \ {0} /\ Targets \subseteq Holders /\ ReaderAt \in [Readers -> Holders]
  /\ \A k \in Holders : Source \in Lineage[k]

Members == Holders \cup {Source}
Threads == Members \X (1..PoolSize)

VARIABLES pushed,    \* targets propagate_to() was called for
          cached,    \* contexts whose _cache has the file
          awaiting,  \* _waiters: what runs when the file arrives
          sentOn,    \* holders over whose stream the data was sent
          requests,  \* store_and_forward() and forward() calls on their way to n
          work,      \* what a pool thread has yet to do: <<kind, who>>
          holdsLock, \* the thread that holds the lock of the service of n, or NoThread
          reading,   \* get() of a reader: "no", "waits" or "done"
          copies     \* how often the data was sent to n

pushVars == <<pushed, cached, awaiting, sentOn, requests, work, holdsLock, reading, copies>>
NoThread == <<>>

PushInit ==
  /\ pushed = {} /\ cached = {} /\ sentOn = {}
  /\ awaiting = [n \in Members |-> <<>>] /\ requests = [n \in Members |-> <<>>]
  /\ work = [w \in Threads |-> <<>>] /\ holdsLock = [n \in Members |-> NoThread]
  /\ reading = [r \in Readers |-> "no"] /\ copies = [n \in Holders |-> 0]

\* The holder below n that k is, or is below.
HopTo(n, k) == CHOOSE j \in Holders \cap Lineage[k] : Over[j] = n
Free(w) == work[w] = <<>>

-----------------------------------------------------------------------------
\* propagate_to(), by a thread of the pool of the master.
PropagateTo(w, k) ==
  /\ w[1] = Source /\ Free(w) /\ k \in Targets \ pushed
  /\ pushed' = pushed \cup {k} /\ cached' = cached \cup {Source}
  /\ work' = [work EXCEPT ![w] = << <<"forward", k>> >>]
  /\ UNCHANGED <<awaiting, sentOn, requests, holdsLock, reading, copies>>

\* Pool._worker_run(): a thread takes the next request; another may overtake it to the lock.
TakeRequest(w) ==
  LET n == w[1] IN
  /\ Free(w) /\ requests[n] # <<>> /\ requests' = [requests EXCEPT ![n] = Tail(@)]
  /\ work' = [work EXCEPT ![w] = << <<Head(requests[n]).kind, Head(requests[n]).to>> >>]
  /\ UNCHANGED <<pushed, cached, awaiting, sentOn, holdsLock, reading, copies>>
Doing(w, what) == ~Free(w) /\ work[w][1][1] = what

\* mutation: those who waited are dropped.
StoreOnly(w) ==
  LET n == w[1]
      k == work[w][1][2] IN
  /\ Doing(w, "store call") /\ holdsLock[n] = NoThread
  /\ cached' = cached \cup {n} /\ awaiting' = [awaiting EXCEPT ![n] = <<>>]
  /\ work' = [work EXCEPT ![w] = IF k = n THEN <<>> ELSE << <<"forward", k>> >>]
  /\ UNCHANGED <<pushed, sentOn, requests, holdsLock, reading, copies>>

\* store_and_forward(): the file is cached and the waiters taken off, under the
\* lock; then it is forwarded and the waiters run, without it.
StoreAndForward(w) ==
  LET n == w[1]
      k == work[w][1][2] IN
  /\ Doing(w, "store call") /\ holdsLock[n] = NoThread
  /\ cached' = cached \cup {n} /\ awaiting' = [awaiting EXCEPT ![n] = <<>>]
  /\ work' = [work EXCEPT ![w] = (IF k = n THEN <<>> ELSE << <<"forward", k>> >>) \o awaiting[n]]
  /\ UNCHANGED <<pushed, sentOn, requests, holdsLock, reading, copies>>

\* forward(): at once, with the lock held to its end, or when the file arrives.
ForwardCall(w) ==
  LET n == w[1]
      op == <<"forward", work[w][1][2]>> IN
  /\ Doing(w, "forward call") /\ holdsLock[n] = NoThread
  /\ IF n \in cached
     THEN /\ work' = [work EXCEPT ![w] = <<op>>] /\ holdsLock' = [holdsLock EXCEPT ![n] = w]
          /\ UNCHANGED awaiting
     ELSE /\ awaiting' = [awaiting EXCEPT ![n] = Append(@, op)] /\ UNCHANGED holdsLock
          /\ work' = [work EXCEPT ![w] = <<>>]
  /\ UNCHANGED <<pushed, cached, sentOn, requests, reading, copies>>

\* _forward() tests whether the data was sent over the stream before.
Decide(w) ==
  LET n == w[1]
      k == work[w][1][2] IN
  /\ Doing(w, "forward")
  /\ work' = [work EXCEPT ![w] = << <<IF HopTo(n, k) \in sentOn THEN "name" ELSE "data", k>> >> \o Tail(@)]
  /\ UNCHANGED <<pushed, cached, awaiting, sentOn, requests, holdsLock, reading, copies>>

Unlock(w) == holdsLock' = [holdsLock EXCEPT ![w[1]] = IF @ = w THEN NoThread ELSE @]

\* mutation: the stream is not remembered.
SendDataAgain(w) ==
  LET k == work[w][1][2]
      j == HopTo(w[1], k) IN
  /\ Doing(w, "data")
  /\ requests' = [requests EXCEPT ![j] = Append(@, [kind |-> "store call", to |-> k])]
  /\ copies' = [copies EXCEPT ![j] = @ + 1]
  /\ work' = [work EXCEPT ![w] = Tail(@)] /\ Unlock(w)
  /\ UNCHANGED <<pushed, cached, awaiting, sentOn, reading>>

\* _forward() sends the data, and then remembers the stream.
SendData(w) ==
  LET k == work[w][1][2]
      j == HopTo(w[1], k) IN
  /\ Doing(w, "data")
  /\ requests' = [requests EXCEPT ![j] = Append(@, [kind |-> "store call", to |-> k])]
  /\ sentOn' = sentOn \cup {j} /\ copies' = [copies EXCEPT ![j] = @ + 1]
  /\ work' = [work EXCEPT ![w] = Tail(@)] /\ Unlock(w)
  /\ UNCHANGED <<pushed, cached, awaiting, reading>>

\* _forward() asks the child to pass on what it was sent, unless it is the target.
SendName(w) ==
  LET k == work[w][1][2]
      j == HopTo(w[1], k) IN
  /\ Doing(w, "name")
  /\ requests' = IF j = k THEN requests ELSE [requests EXCEPT ![j] = Append(@, [kind |-> "forward call", to |-> k])]
  /\ work' = [work EXCEPT ![w] = Tail(@)] /\ Unlock(w)
  /\ UNCHANGED <<pushed, cached, awaiting, sentOn, reading, copies>>

\* mutation: the cache is not looked at.
GetWaits(r) ==
  /\ reading[r] = "no" /\ holdsLock[ReaderAt[r]] = NoThread
  /\ reading' = [reading EXCEPT ![r] = "waits"]
  /\ awaiting' = [awaiting EXCEPT ![ReaderAt[r]] = Append(@, <<"wake", r>>)]
  /\ UNCHANGED <<pushed, cached, sentOn, requests, work, holdsLock, copies>>

\* get()
GetFile(r) ==
  /\ reading[r] = "no" /\ holdsLock[ReaderAt[r]] = NoThread
  /\ IF ReaderAt[r] \in cached
     THEN reading' = [reading EXCEPT ![r] = "done"] /\ UNCHANGED awaiting
     ELSE /\ reading' = [reading EXCEPT ![r] = "waits"]
          /\ awaiting' = [awaiting EXCEPT ![ReaderAt[r]] = Append(@, <<"wake", r>>)]
  /\ UNCHANGED <<pushed, cached, sentOn, requests, work, holdsLock, copies>>

\* The callback that get() left: its latch is filled.
Wake(w) ==
  /\ Doing(w, "wake")
  /\ reading' = [reading EXCEPT ![work[w][1][2]] = "done"]
  /\ work' = [work EXCEPT ![w] = Tail(@)]
  /\ UNCHANGED <<pushed, cached, awaiting, sentOn, requests, holdsLock, copies>>

Pools == \E w \in Threads : \/ TakeRequest(w) \/ StoreAndForward(w) \/ ForwardCall(w) \/ Decide(w)
                            \/ SendData(w) \/ SendName(w) \/ Wake(w)
PushNext == \/ Pools
            \/ \E w \in Threads, k \in Targets : PropagateTo(w, k)
            \/ \E r \in Readers : GetFile(r)
PushSpec == PushInit /\ [][PushNext]_pushVars

-----------------------------------------------------------------------------
PushTypeOK ==
  /\ \A n \in Members : awaiting[n] # <<>> => n \notin cached
  /\ sentOn \subseteq Holders

\* A file that was pushed to a context arrives there, and a thread that waits for
\* it gets it, whatever order the threads of the pools on the way run in.
PushArrives ==
  []<>(/\ pushed \subseteq cached
       /\ \A r \in Readers : reading[r] = "waits" => ReaderAt[r] \notin pushed)

\* The data crosses a stream once for every thread that was forwarding at the same
\* time, and never again after that (_sent_by_stream is tested without the lock).
ResentOnlyInRace == \A n \in Holders : copies[n] <= PoolSize

\* What PushFileService promises: that a pushed file crosses a stream more
\* than once only in the race of its forwarding threads.
PushSafe == PushTypeOK /\ ResentOnlyInRace
=============================================================================
