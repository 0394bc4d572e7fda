----------------------------- MODULE MCAnsible ------------------------------
(* Instances of ContextService, Multiplexer, Affinity, TaskRunner, EnvFiles and  *)
(* ConnectionPlugin for TLC, one component per behaviour: three clients that ask *)
(* for one configuration, with connections that hold; two multiplexers and three *)
(* workers, two of them of the same one, with deaths; three workers and the      *)
(* controller that take CPU tickets; three tasks in one interpreter; two watched *)
(* files that are edited; a worker that runs actions on hosts behind each other. *)
EXTENDS ContextService, Multiplexer, Affinity, TaskRunner, EnvFiles, ConnectionPlugin, TLC

CONSTANTS t1, t2, t3, k1, x1, x2

MCHomeOf == "w1" :> 1 @@ "w2" :> 1 @@ "w3" :> 2
\* "a" is reached directly, or is part of a cycle with the others.
MCVias == {v \in [Hosts -> Hosts \union {NoMux}] :
             (v["a"] = NoMux /\ v["b"] # "b" /\ v["c"] # "c") \/ v = [h \in Hosts |-> IF h = "a" THEN "b" ELSE "a"]}
MCMuxOf == [h \in Hosts |-> IF h = "a" THEN "m1" ELSE "m2"]

VARIABLE part   \* the component that runs

\* Processes that all have a CPU, for the parts in which another component runs.
AffinityEnded ==
  /\ sem = 1 /\ holder = Nobody /\ counter = 0 /\ assigned = << >> /\ deaths = 0
  /\ step = [w \in Balanced |-> "pinned"] /\ n = [w \in Balanced |-> 0] /\ cpu = [w \in Balanced |-> Shift]

AllInit ==
  /\ ContextsInit /\ MultiplexerInit /\ TaskInit /\ EnvFilesInit /\ PluginInit
  /\ part \in {"contexts", "muxes", "affinity", "tasks", "files", "plugin"}
  /\ IF part = "affinity" THEN AffinityInit ELSE AffinityEnded
  /\ part # "files" => content = [f \in Watched |-> {}] /\ source = [k \in EnvKeys |-> "none"]
  /\ part # "plugin" => via = [h \in Hosts |-> NoMux]
AllNext ==
  \/ part = "contexts" /\ ContextsNext /\ UNCHANGED <<muVars, afVars, tkVars, efVars, plVars, part>>
  \/ part = "muxes" /\ MultiplexerNext /\ UNCHANGED <<ctxVars, afVars, tkVars, efVars, plVars, part>>
  \/ part = "affinity" /\ AffinityNext /\ UNCHANGED <<ctxVars, muVars, tkVars, efVars, plVars, part>>
  \/ part = "tasks" /\ TaskNext /\ UNCHANGED <<ctxVars, muVars, afVars, efVars, plVars, part>>
  \/ part = "files" /\ EnvFilesNext /\ UNCHANGED <<ctxVars, muVars, afVars, tkVars, plVars, part>>
  \/ part = "plugin" /\ PluginNext /\ UNCHANGED <<ctxVars, muVars, afVars, tkVars, efVars, part>>
AllSpec == AllInit /\ [][AllNext]_<<ctxVars, muVars, afVars, tkVars, efVars, plVars, part>>
\* The fairness of the component that runs; part comes first, for TLC's sake.
AllFairSpec ==
  /\ AllSpec
  /\ \A t \in Clients : WF_ctxVars(part = "contexts" /\ Serve(t))
  /\ \A c \in Contexts : WF_ctxVars(part = "contexts" /\ OnContextDisconnect(c))
  /\ WF_muVars(part = "muxes" /\ (StartMux \/ ReadByte \/ TopReaps))
  /\ WF_muVars(part = "muxes" /\ MuxSteps) /\ WF_muVars(part = "muxes" /\ WorkerSteps)
  /\ \A w \in Balanced : WF_afVars(part = "affinity" /\ (Lock(w) \/ Read(w) \/ Write(w) \/ Unlock(w) \/ Pin(w)))

\* While connections hold every request for one is answered, after connecting once; multiplexers
\* end with the run and workers that attach get an answer; everybody gets a processor.
AnsibleLive == /\ []ConnectsOnce
               /\ Answered
               /\ NoOrphans
               /\ AttachEnds
               /\ AllPinned
=============================================================================
