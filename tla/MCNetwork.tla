----------------------------- MODULE MCNetwork ------------------------------
(* Instances of Handlers, Routing, Framing, ThreadWatch and Corking for TLC,   *)
(* one component per behaviour: two threads of one process that call the same  *)
(* context; a tree of four contexts, M above A and B, A above A1, in which B   *)
(* and A1 call each other; a stream through a pipe shorter than a message;     *)
(* three brokers of a main thread that exits; a pool of two threads and a      *)
(* process that forks.                                                         *)
EXTENDS Handlers, Routing, Framing, ThreadWatch, Corking, TLC

CONSTANTS c1, c2, p1, M, A, B, A1, x, y

MCPeerOf == [c \in Callers |-> p1]
MCUp == (A :> M) @@ (B :> M) @@ (A1 :> A)
MCFrom == (x :> B) @@ (y :> A1)
MCTo == (x :> A1) @@ (y :> B)

VARIABLE part   \* the component that runs

\* A component that does not run stays in its initial state, where fairness asks
\* nothing of it.
AllInit ==
  /\ HandlersInit /\ RoutingInit /\ FramingInit /\ ThreadWatchInit /\ CorkingInit
  /\ part \in {"handlers", "routing", "framing", "watch", "corking"}
  /\ part # "routing" => ~oneway
  /\ part # "watch" => ~forkedOff
AllNext ==
  \/ part = "handlers" /\ HandlersNext /\ UNCHANGED <<routingVars, frVars, twVars, coVars, part>>
  \/ part = "routing" /\ RoutingNext /\ UNCHANGED <<handlersVars, frVars, twVars, coVars, part>>
  \/ part = "framing" /\ FramingNext /\ UNCHANGED <<handlersVars, routingVars, twVars, coVars, part>>
  \/ part = "watch" /\ ThreadWatchNext /\ UNCHANGED <<handlersVars, routingVars, frVars, coVars, part>>
  \/ part = "corking" /\ CorkingNext /\ UNCHANGED <<handlersVars, routingVars, frVars, twVars, part>>
AllSpec == AllInit /\ [][AllNext]_<<handlersVars, routingVars, frVars, twVars, coVars, part>>
\* The fairness of the component that runs; part comes first, for TLC's sake.
AllFairSpec == /\ AllSpec
               /\ WF_handlersVars(part = "handlers" /\ BrokerStep)
               /\ \A c \in Callers : /\ WF_handlersVars(part = "handlers" /\ CallerStep(c))
                                     /\ WF_handlersVars(part = "handlers" /\ InvokeReply(c))
               /\ WF_routingVars(part = "routing" /\ Progress)
               /\ FramingFair /\ ThreadWatchFair /\ CorkingFair

\* What ends or comes about, whatever is lost on the way: calls are answered, in one process and
\* across the tree, streams are drained, the only broker of a main thread that exited is shut
\* down, and the threads of a process that forked go on.
NetworkLive == /\ CallsAnswered
               /\ EveryCallEnds
               /\ Drained
               /\ LoneBrokerShut
               /\ ThreadsResume
=============================================================================
