----------------------------- MODULE IdAllocator -----------------------------
(***************************************************************************)
(* mitogen.master.IdAllocator, which issues context IDs by incrementing a  *)
(* counter, and mitogen.parent.ChildIdAllocator, which issues them from a  *)
(* block that it requests from the master with an ALLOCATE_ID message.     *)
(* The threads of a child share its allocator and its lock, which is held  *)
(* while a request is under way.                                           *)
(***************************************************************************)
EXTENDS Naturals, Sequences, SequencesExt

CONSTANTS Master, Children,  \* processes
          IdThreads,         \* threads that call allocate()
          Home,              \* the process of each thread
          BlockSize,         \* IdAllocator.BLOCK_SIZE
          MaxCalls,          \* bound on the calls of each thread
          None

ASSUME IdAssumption == /\ Master \notin Children
                       /\ Home \in [IdThreads -> Children \cup {Master}]
                       /\ BlockSize \in Nat \ {0}
                       /\ MaxCalls \in Nat
                       /\ None \notin IdThreads

VARIABLES next,       \* IdAllocator.next_id
          it,         \* ChildIdAllocator.it: the next ID and the end of its range
          lock,       \* the thread that holds ChildIdAllocator.lock
          connected,  \* children that can reach the master
          requests,   \* children whose ALLOCATE_ID is on its way to the master
          reply,      \* the block on its way to each child, or <<>>
          idPc, calls, \* where each thread is, and the calls it has begun
          issued      \* the IDs that allocate() returned, in order

network == <<connected, requests, reply>>
idVars == <<next, it, lock, network, idPc, calls, issued>>

Ranges == {r \in [lo : Nat, hi : Nat] : r.lo <= r.hi}

EmptyLate(r) == r.lo > r.hi    \* mutation: the end of the range is issued too
Empty(r)     == r.lo >= r.hi

IdTypeOK == /\ next \in Nat \ {0}
            /\ it \in [Children -> Ranges]
            /\ lock \in [Children -> IdThreads \cup {None}]
            /\ connected \subseteq Children
            /\ requests \subseteq Children
            /\ reply \in [Children -> Ranges \cup {<<>>}]
            /\ idPc \in [IdThreads -> {"idle", "call", "await"}]
            /\ calls \in [IdThreads -> 0..MaxCalls]
            /\ issued \in Seq(Nat)

IdInit == /\ next = 1
          /\ it = [c \in Children |-> [lo |-> 0, hi |-> 0]]
          /\ lock = [c \in Children |-> None]
          /\ connected = Children
          /\ requests = {}
          /\ reply = [c \in Children |-> <<>>]
          /\ idPc = [t \in IdThreads |-> "idle"]
          /\ calls = [t \in IdThreads |-> 0]
          /\ issued = <<>>

-----------------------------------------------------------------------------
Call(t) == /\ idPc[t] = "idle"
           /\ calls[t] < MaxCalls
           /\ idPc' = [idPc EXCEPT ![t] = "call"]
           /\ calls' = [calls EXCEPT ![t] = @ + 1]
           /\ UNCHANGED <<next, it, lock, network, issued>>

\* IdAllocator.allocate()
Allocate(t) ==
  /\ idPc[t] = "call"
  /\ Home[t] = Master
  /\ issued' = Append(issued, next)
  /\ next' = next + 1
  /\ idPc' = [idPc EXCEPT ![t] = "idle"]
  /\ UNCHANGED <<it, lock, network, calls>>

\* ChildIdAllocator.allocate(): the lock is free and the block has an ID left
AllocateChild(t) ==
  LET c == Home[t] IN
  /\ idPc[t] = "call"
  /\ c \in Children
  /\ lock[c] = None
  /\ ~Empty(it[c])
  /\ issued' = Append(issued, it[c].lo)
  /\ it' = [it EXCEPT ![c].lo = @ + 1]
  /\ idPc' = [idPc EXCEPT ![t] = "idle"]
  /\ UNCHANGED <<next, lock, network, calls>>

\* otherwise it asks for a block, keeping the lock
RequestBlock(t) ==
  LET c == Home[t] IN
  /\ idPc[t] = "call"
  /\ c \in Children
  /\ lock[c] = None
  /\ Empty(it[c])
  /\ lock' = [lock EXCEPT ![c] = t]
  /\ requests' = IF c \in connected THEN requests \cup {c} ELSE requests
  /\ idPc' = [idPc EXCEPT ![t] = "await"]
  /\ UNCHANGED <<next, it, connected, reply, calls, issued>>

BlockEndIncluded(start) == start + BlockSize + 1    \* mutation: last ID included
BlockEnd(start)         == start + BlockSize

\* IdAllocator.on_allocate_id(); the reply is lost if the child is gone
OnAllocateId(c) ==
  /\ c \in requests
  /\ requests' = requests \ {c}
  /\ next' = next + BlockSize
  /\ reply' = IF c \in connected
                THEN [reply EXCEPT ![c] = [lo |-> next, hi |-> BlockEnd(next)]]
                ELSE reply
  /\ UNCHANGED <<it, lock, connected, idPc, calls, issued>>

KeptLock(c) == lock    \* mutation: no finally
Unlocked(c) == [lock EXCEPT ![c] = None]

\* The block replaces the range; the thread calls allocate() again.
ReceiveBlock(t) ==
  LET c == Home[t] IN
  /\ idPc[t] = "await"
  /\ reply[c] # <<>>
  /\ it' = [it EXCEPT ![c] = reply[c]]
  /\ reply' = [reply EXCEPT ![c] = <<>>]
  /\ lock' = Unlocked(c)
  /\ idPc' = [idPc EXCEPT ![t] = "call"]
  /\ UNCHANGED <<next, connected, requests, calls, issued>>

\* send_await() raises ChannelError
ChannelLost(t) ==
  LET c == Home[t] IN
  /\ idPc[t] = "await"
  /\ c \notin connected
  /\ lock' = Unlocked(c)
  /\ reply' = [reply EXCEPT ![c] = <<>>]
  /\ idPc' = [idPc EXCEPT ![t] = "idle"]
  /\ UNCHANGED <<next, it, connected, requests, calls, issued>>

Disconnect(c) ==
  /\ c \in connected
  /\ connected' = connected \ {c}
  /\ UNCHANGED <<next, it, lock, requests, reply, idPc, calls, issued>>

Serve(t) == Allocate(t) \/ AllocateChild(t) \/ RequestBlock(t) \/ ReceiveBlock(t) \/ ChannelLost(t)

IdNext == \/ \E t \in IdThreads : Call(t) \/ Serve(t)
          \/ \E c \in Children : OnAllocateId(c) \/ Disconnect(c)

IdSpec == IdInit /\ [][IdNext]_idVars

\* Threads run, and the master serves the requests it receives.
IdFairness == /\ \A t \in IdThreads : WF_idVars(Serve(t))
              /\ \A c \in Children : WF_idVars(OnAllocateId(c))
IdFairSpec == IdSpec /\ IdFairness

-----------------------------------------------------------------------------
\* An ID is held back in at most one place, and none that was issued is: the
\* ranges of the children, the blocks in flight and the master's counter are
\* disjoint.  This is what "without risk of conflict" rests on.
Within(id, r) == r.lo <= id /\ id < r.hi
Stock(c) == {it[c]} \cup ({reply[c]} \ {<<>>})
Apart ==
  /\ \A i \in DOMAIN issued : issued[i] < next
  /\ \A c \in Children : \A r \in Stock(c) : ~Empty(r) =>
       /\ r.hi <= next
       /\ \A i \in DOMAIN issued : ~Within(issued[i], r)
       /\ \A d \in Children \ {c} : \A q \in Stock(d) : ~Empty(q) => r.hi <= q.lo \/ q.hi <= r.lo

\* No ID is issued twice, by whichever process.
FreshOnly == INSTANCE FreshIds
ImplementsFresh == FreshOnly!Spec

\* A child's lock is not held for ever: the master answers or the channel is lost.
LockFreed == \A c \in Children : []<>(lock[c] = None)

=============================================================================
