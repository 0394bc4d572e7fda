----------------------------- MODULE MCServices -----------------------------
(* Instances of FileTransfer, FilePush, Calls, Selects, AsyncJob and Broker for  *)
(* TLC, one component per behaviour: three transfers behind one stream, one of them to a  *)
(* context that may die; a file pushed from M to P and on to K1 and K2; two call *)
(* chains, one pipelined; a select of two receivers; one asynchronous job; two   *)
(* threads that use a broker with a stream that lingers and one that is passive. *)
EXTENDS FileTransfer, FilePush, Calls, Selects, AsyncJob, Broker, TLC

CONSTANTS c1, c2, s1, s2

MCStreamOf == [t \in Transfers |-> "s"]
MCOver == "P" :> "M" @@ "K1" :> "P" @@ "K2" :> "P"
MCReaderAt == "r1" :> "K1" @@ "r2" :> "P"
MCChainCalls == "ca" :> 4 @@ "cb" :> 1

VARIABLE part   \* the component that runs

\* A select that has ended, for the parts in which another component runs.
SelectsEnded ==
  /\ oneshot = FALSE /\ posts = Zero /\ posted = Zero /\ posting = {} /\ queue = Zero /\ notify = {}
  /\ members = {} /\ removed = {} /\ tokens = <<>> /\ owner = <<"done", Nobody, 0>> /\ yielded = Zero /\ lost = Zero

AllInit ==
  /\ TransferInit /\ PushInit /\ CallsInit /\ JobInit /\ Init
  /\ part \in {"transfer", "push", "calls", "selects", "job", "broker"}
  /\ part # "transfer" => fileSize = [t \in Transfers |-> 0]
  /\ IF part = "selects" THEN SelectsInit ELSE SelectsEnded
  /\ part # "job" => ~limited
AllNext ==
  \/ part = "transfer" /\ TransferNext /\ UNCHANGED <<pushVars, callsVars, selectVars, jobVars, vars, part>>
  \/ part = "push" /\ PushNext /\ UNCHANGED <<transferVars, callsVars, selectVars, jobVars, vars, part>>
  \/ part = "calls" /\ CallsNext /\ UNCHANGED <<transferVars, pushVars, selectVars, jobVars, vars, part>>
  \/ part = "selects" /\ SelectsNext /\ UNCHANGED <<transferVars, pushVars, callsVars, jobVars, vars, part>>
  \/ part = "job" /\ JobNext /\ UNCHANGED <<transferVars, pushVars, callsVars, selectVars, vars, part>>
  \/ part = "broker" /\ Next /\ UNCHANGED <<transferVars, pushVars, callsVars, selectVars, jobVars, part>>
AllSpec == AllInit /\ [][AllNext]_<<transferVars, pushVars, callsVars, selectVars, jobVars, vars, part>>
\* The fairness of the component that runs; part comes first, for TLC's sake.
AllFairSpec == /\ AllSpec
               /\ WF_transferVars(part = "transfer" /\ TransferProgress)
               /\ WF_pushVars(part = "push" /\ Pools)
               /\ WF_callsVars(part = "calls" /\ DispatchCall)
               /\ WF_selectVars(part = "selects" /\ Owner) /\ WF_selectVars(part = "selects" /\ Posters)
               /\ WF_vars(part = "broker" /\ BrokerNext) /\ WF_vars(part = "broker" /\ Deadline)
               /\ \A c \in Callers : WF_vars(part = "broker" /\ CallerNext(c))

\* What is accepted is done: transfers end, pushed files arrive, calls return, messages are
\* gathered and given out, and the broker runs what it took and stops when told.
ServicesLive == /\ TransfersEnd
                /\ PushArrives
                /\ CallsReturn
                /\ GatherEnds
                /\ EventsFlow
                /\ AcceptedRuns
                /\ StopEnds
=============================================================================
