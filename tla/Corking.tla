------------------------------ MODULE Corking ------------------------------
(* os_fork.Corker (Python 2.4 and 2.5): before os.fork(), every thread of the *)
(* pools and brokers is made to write to a full socket, where it blocks        *)
(* outside the interpreter's locks; the sockets are closed after the fork.     *)
EXTENDS Naturals, FiniteSets

CONSTANTS Threads, MaxForks      \* the threads of a pool; one broker
ASSUME CorkingAssumption == IsFiniteSet(Threads) /\ MaxForks \in Nat
VARIABLES
  poolThread,   \* "idle", "calling" (waits for an answer that the broker delivers) or "blocked"
  corksQueued,  \* _do_cork calls in the pool's queue
  ioThread,     \* the broker: "running", "asked" or "blocked"
  forker,       \* "working", "corking", "verifying", "forking" or "uncorking"
  forks
coVars == <<poolThread, corksQueued, ioThread, forker, forks>>

CorkingInit == /\ poolThread = [t \in Threads |-> "idle"] /\ corksQueued = 0 /\ ioThread = "running"
               /\ forker = "working" /\ forks = 0
ThreadBecomes(t, what) == poolThread' = [poolThread EXCEPT ![t] = what]

\* Service calls of the pool.
BeginCall(t) ==
  /\ poolThread[t] = "idle" /\ ThreadBecomes(t, "calling")
  /\ UNCHANGED <<corksQueued, ioThread, forker, forks>>
EndCall(t) ==
  /\ poolThread[t] = "calling" /\ ioThread # "blocked" /\ ThreadBecomes(t, "idle")
  /\ UNCHANGED <<corksQueued, ioThread, forker, forks>>
\* _do_cork(): a thread that takes one blocks, so each thread takes one of them.
BlockThread(t) ==
  /\ corksQueued > 0 /\ poolThread[t] = "idle"
  /\ corksQueued' = corksQueued - 1 /\ ThreadBecomes(t, "blocked")
  /\ UNCHANGED <<ioThread, forker, forks>>
BlockBroker == ioThread = "asked" /\ ioThread' = "blocked" /\ UNCHANGED <<poolThread, corksQueued, forker, forks>>

\* wrap_os__fork().
\* mutation: one call is queued for the pool, not one for each of its threads.
CorkOne ==
  /\ forker = "working" /\ forks < MaxForks /\ forker' = "verifying"
  /\ corksQueued' = 1 /\ ioThread' = "asked" /\ UNCHANGED <<poolThread, forks>>
Cork ==
  /\ forker = "working" /\ forks < MaxForks /\ forker' = "verifying"
  /\ corksQueued' = Cardinality(Threads) /\ ioThread' = "asked" /\ UNCHANGED <<poolThread, forks>>
\* mutation: the fork does not wait until the threads have entered write().
VerifyNothing == forker = "verifying" /\ forker' = "forking" /\ UNCHANGED <<poolThread, corksQueued, ioThread, forks>>
\* _verify_one() of every socket: each has begun to fill.
Verify ==
  /\ forker = "verifying" /\ corksQueued = 0 /\ ioThread = "blocked" /\ forker' = "forking"
  /\ UNCHANGED <<poolThread, corksQueued, ioThread, forks>>
Fork == forker = "forking" /\ forks' = forks + 1 /\ forker' = "uncorking" /\ UNCHANGED <<poolThread, corksQueued, ioThread>>
\* mutation: the broker's socket stays open.
UncorkPool ==
  /\ forker = "uncorking" /\ forker' = "working" /\ UNCHANGED <<ioThread, corksQueued, forks>>
  /\ poolThread' = [t \in Threads |-> IF poolThread[t] = "blocked" THEN "idle" ELSE poolThread[t]]
Uncork ==
  /\ forker = "uncorking" /\ forker' = "working" /\ ioThread' = "running" /\ UNCHANGED <<corksQueued, forks>>
  /\ poolThread' = [t \in Threads |-> IF poolThread[t] = "blocked" THEN "idle" ELSE poolThread[t]]

ThreadSteps == BlockBroker \/ \E t \in Threads : EndCall(t) \/ BlockThread(t)
CorkingNext == \/ ThreadSteps \/ \E t \in Threads : BeginCall(t)
               \/ Cork \/ Verify \/ Fork \/ Uncork
CorkingFair == WF_coVars(ThreadSteps) /\ WF_coVars(Verify \/ Fork \/ Uncork)
CorkingSpec == CorkingInit /\ [][CorkingNext]_coVars

-----------------------------------------------------------------------------
\* At the fork no thread runs that could hold a lock: the child would find it locked for ever.
QuietAtFork == forker = "forking" => ioThread = "blocked" /\ \A t \in Threads : poolThread[t] = "blocked"
\* After a fork that returns, every thread goes on.
ThreadsResume == []<>(forker = "verifying" \/ (ioThread # "blocked" /\ \A t \in Threads : poolThread[t] # "blocked"))
=============================================================================
