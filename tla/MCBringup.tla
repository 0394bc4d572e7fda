----------------------------- MODULE MCBringup ------------------------------
(* Instances of Bringup, Login, Spawn, Startup, Logs, Polling and Latch for TLC, *)
(* one component per behaviour: two connection attempts on one broker; a login   *)
(* by each method and kind of password; every way of starting a child, with each *)
(* of its calls failing; a child that comes up through pipes smaller than its    *)
(* source; two threads that log while the log is uncorked; a poller that threads *)
(* feed with streams over two descriptors; two threads whose get() times out.    *)
EXTENDS Bringup, Login, Spawn, Startup, Logs, Polling, Latch, TLC

CONSTANTS t1, t2, p1, p2

VARIABLE part   \* the component that runs

\* A login that is over and a child that is up, for the other parts.
LoginEnded ==
  /\ method = "sudo" /\ given = "none" /\ program = "exited" /\ asks = 1 /\ typed = 0
  /\ output = [i \in Streams2 |-> <<>>] /\ trailer = output
  /\ promptShut = FALSE /\ sent = FALSE /\ writes = 0 /\ outcome = "required" /\ torn = FALSE
StartupEnded ==
  /\ forked = TRUE /\ parent = "connected" /\ toChild = <<>> /\ fromChild = <<>> /\ messages = MaxMessages
  /\ stolen = 0 /\ stage = <<"gone", 0>> /\ script = Pipe /\ core = Pipe
  /\ main = <<"dispatches", 0>> /\ corked = FALSE /\ received = messages

AllInit ==
  /\ BringupInit /\ SpawnInit /\ LogsInit /\ PollingInit /\ Init
  /\ part \in {"bringup", "login", "spawn", "startup", "logs", "polling", "latch"}
  /\ IF part = "login" THEN LoginInit ELSE LoginEnded
  /\ IF part = "startup" THEN StartupInit ELSE StartupEnded
  /\ part # "spawn" => way = [function |-> "tty", pipes |-> FALSE, stderrPipe |-> FALSE]
AllNext ==
  \/ part = "bringup" /\ BringupNext /\ UNCHANGED <<loginVars, spawnVars, startupVars, logVars, poVars, vars, part>>
  \/ part = "login" /\ LoginNext /\ UNCHANGED <<bringupVars, spawnVars, startupVars, logVars, poVars, vars, part>>
  \/ part = "spawn" /\ SpawnNext /\ UNCHANGED <<bringupVars, loginVars, startupVars, logVars, poVars, vars, part>>
  \/ part = "startup" /\ StartupNext /\ UNCHANGED <<bringupVars, loginVars, spawnVars, logVars, poVars, vars, part>>
  \/ part = "logs" /\ LogsNext /\ UNCHANGED <<bringupVars, loginVars, spawnVars, startupVars, poVars, vars, part>>
  \/ part = "polling" /\ PollingNext /\ UNCHANGED <<bringupVars, loginVars, spawnVars, startupVars, logVars, vars, part>>
  \/ part = "latch" /\ Next /\ UNCHANGED <<bringupVars, loginVars, spawnVars, startupVars, logVars, poVars, part>>
AllSpec == AllInit /\ [][AllNext]_<<bringupVars, loginVars, spawnVars, startupVars, logVars, poVars, vars, part>>
\* The fairness of the component that runs; part comes first, for TLC's sake.
AllFairSpec ==
  /\ AllSpec
  /\ WF_bringupVars(part = "bringup" /\ BrokerSteps)
  /\ WF_bringupVars(part = "bringup" /\ \E a \in Attempts : Return(a))
  /\ WF_loginVars(part = "login" /\ LoginNext)
  /\ WF_startupVars(part = "startup" /\ StageSteps) /\ WF_startupVars(part = "startup" /\ MainSteps)
  /\ WF_startupVars(part = "startup" /\ (ReadMarker \/ Receives))
  /\ WF_logVars(part = "logs" /\ (\/ UncorkSend \/ UncorkDone \/ ReadLines
                                  \/ \E t \in Loggers : SendLocked(t) \/ SendDirect(t)))
  /\ WF_poVars(part = "polling" /\ \E f \in checked : Defer(f))
  /\ WF_poVars(part = "polling" /\ (\/ Poll(FALSE) \/ OnAccept \/ OnWaker \/ RunDeferred
                                    \/ \E fd \in Fds : OnReady(fd)))

\* What is started comes to its end: connect() returns, no child stays a zombie, logins end,
\* children come up, records are sent, and the poller notices what arrives.
BringupLive == /\ ConnectReturns
               /\ NoZombie
               /\ LoginEnds
               /\ StartsUp
               /\ RecordsArrive
               /\ Noticed
=============================================================================
