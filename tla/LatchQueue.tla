----------------------------- MODULE LatchQueue -----------------------------
(***************************************************************************)
(* What mitogen.core.Latch promises, without sockets or locks: a FIFO of   *)
(* items and a FIFO of waiting threads.  An accepted item goes to the      *)
(* thread that has waited longest, or is buffered when nobody waits;       *)
(* closing turns every waiting thread away.  The module Latch refines it.  *)
(***************************************************************************)
EXTENDS Naturals, Sequences

CONSTANTS Threads,   \* callers of put(), get() and close()
          MaxPuts    \* bound on the accepted puts of one behaviour

VARIABLES closed,    \* close() was called
          accepted,  \* number of put() calls accepted so far; the k-th is item k
          items,     \* accepted items nobody was handed, oldest first
          waiting,   \* threads waiting for an item, longest first
          inbox,     \* what each thread was handed but has not returned yet
          result     \* outcome of the last get() each thread completed

vars == <<closed, accepted, items, waiting, inbox, result>>

Item(i)  == [st |-> "item", item |-> i]
Nothing  == [st |-> "none", item |-> 0]
TimedOut == [st |-> "timeout", item |-> 0]
Rejected == [st |-> "closed", item |-> 0]

Idle(t) == inbox[t] = Nothing /\ \A k \in DOMAIN waiting : waiting[k] # t

Init == /\ closed = FALSE
        /\ accepted = 0
        /\ items = <<>>
        /\ waiting = <<>>
        /\ inbox = [t \in Threads |-> Nothing]
        /\ result = [t \in Threads |-> Nothing]

Put(t) == /\ Idle(t)
          /\ ~closed
          /\ accepted < MaxPuts
          /\ accepted' = accepted + 1
          /\ \/ /\ waiting = <<>>
                /\ items' = Append(items, accepted')
                /\ UNCHANGED <<waiting, inbox>>
             \/ /\ waiting # <<>>
                /\ inbox' = [inbox EXCEPT ![Head(waiting)] = Item(accepted')]
                /\ waiting' = Tail(waiting)
                /\ UNCHANGED items
          /\ UNCHANGED <<closed, result>>

Take(t) == /\ Idle(t)
           /\ ~closed
           /\ items # <<>>
           /\ result' = [result EXCEPT ![t] = Item(Head(items))]
           /\ items' = Tail(items)
           /\ UNCHANGED <<closed, accepted, waiting, inbox>>

\* A call that finds nothing and may not wait, or finds the latch closed.
Refuse(t) == /\ Idle(t)
             /\ \/ closed /\ result' = [result EXCEPT ![t] = Rejected]
                \/ /\ ~closed
                   /\ items = <<>>
                   /\ result' = [result EXCEPT ![t] = TimedOut]
             /\ UNCHANGED <<closed, accepted, items, waiting, inbox>>

Wait(t) == /\ Idle(t)
           /\ ~closed
           /\ items = <<>>
           /\ waiting' = Append(waiting, t)
           /\ UNCHANGED <<closed, accepted, items, inbox, result>>

Return(t) == /\ inbox[t] # Nothing
             /\ result' = [result EXCEPT ![t] = inbox[t]]
             /\ inbox' = [inbox EXCEPT ![t] = Nothing]
             /\ UNCHANGED <<closed, accepted, items, waiting>>

\* Items nobody has returned with by now are lost, handed over or not.
Close(t) == /\ Idle(t)
            /\ closed' = TRUE
            /\ items' = <<>>
            /\ waiting' = <<>>
            /\ inbox' = [u \in Threads |-> IF Idle(u) THEN Nothing ELSE Rejected]
            /\ UNCHANGED <<accepted, result>>

Next == \E t \in Threads : Put(t) \/ Take(t) \/ Refuse(t) \/ Wait(t)
                              \/ Return(t) \/ Close(t)

Spec == Init /\ [][Next]_vars

\* A thread that was handed something returns with it.
Fairness == \A t \in Threads : WF_vars(Return(t))
=============================================================================
