-------------------------- MODULE MCContextService --------------------------
(* Instances of ContextService and Broker for TLC, one component per behaviour. *)
(* Their safety under symmetry: two clients ask for two configurations with one *)
(* interpreter, connections that fail and resets; two threads defer two         *)
(* functions each, with one stream that lingers.                                *)
EXTENDS ContextService, Broker, TLC

CONSTANTS t1, t2, t3, k1, k2, x1, x2, x3, c1, c2

VARIABLE part   \* the component that runs

AllInit == ContextsInit /\ Init /\ part \in {"contexts", "broker"}
AllNext == \/ part = "contexts" /\ ContextsNext /\ UNCHANGED <<vars, part>>
           \/ part = "broker" /\ Next /\ UNCHANGED <<ctxVars, part>>
AllSpec == AllInit /\ [][AllNext]_<<ctxVars, vars, part>>

\* ContextService alone, with its fairness.
LoneSpec == /\ ContextsInit /\ Init /\ part = "contexts"
            /\ [][ContextsNext /\ UNCHANGED <<vars, part>>]_<<ctxVars, vars, part>>
            /\ ContextsFairness

Symmetry == Permutations(Clients) \cup Permutations(Contexts) \cup Permutations(Callers)
=============================================================================
