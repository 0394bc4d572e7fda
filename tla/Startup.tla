------------------------------ MODULE Startup -------------------------------
(* How a child comes up: Connection._first_stage() forks, the first stage reads *)
(* the source from the connection and feeds it to the interpreter twice through *)
(* pipes, and ExternalContext.main() reaps it, takes the connection over and    *)
(* says so.  The parent sends the source after the first marker and messages    *)
(* after the third (BootstrapProtocol).  With mitogen.fork the child is the     *)
(* interpreter at once.                                                         *)
(*                                                                              *)
(* Bytes are counted in units: the source has SourceSize of them, a pipe holds  *)
(* PipeSize.                                                                    *)
EXTENDS Integers, Sequences, FiniteSets

CONSTANTS SourceSize, PipeSize, MaxMessages
ASSUME StartupAssumption == {SourceSize, PipeSize, MaxMessages} \subseteq Nat \ {0}

VARIABLES forked,     \* the child was made by mitogen.fork
          parent,     \* BootstrapProtocol: waits, fed, connected
          toChild,    \* what is in the connection, towards the child
          fromChild,  \* markers on their way to the parent
          messages,   \* messages the parent has sent
          stolen,     \* messages read by the first stage
          stage,      \* what the first stage is doing: <<step, units left>>
          script,     \* the pipe to stdin of the interpreter
          core,       \* the pipe to descriptor 101
          main,       \* what the interpreter is doing: <<step, units read>>
          corked,     \* LogHandler buffers
          received    \* messages the router of the child received

startupVars == <<forked, parent, toChild, fromChild, messages, stolen, stage, script, core, main, corked, received>>

\* Writers: the processes that hold the write end open.
Pipe == [held |-> 0, writers |-> {"stage", "main"}]

StartupInit ==
  /\ forked \in BOOLEAN
  /\ parent = "waits" /\ toChild = <<>> /\ fromChild = <<>> /\ messages = 0 /\ stolen = 0
  /\ stage = IF forked THEN <<"gone", 0>> ELSE <<"hello", 0>>
  /\ script = Pipe /\ core = Pipe
  /\ main = IF forked THEN <<"announce", 0>> ELSE <<"closes", 0>>
  /\ corked = TRUE /\ received = 0

Doing(process, what) == process[1] = what
stageSame == UNCHANGED <<forked, parent, messages, main, corked, received>>
mainSame == UNCHANGED <<forked, parent, messages, stolen, stage>>

-----------------------------------------------------------------------------
\* mutation: the second marker is taken for the third.
ReadMarkerEarly ==
  /\ fromChild # <<>> /\ fromChild' = Tail(fromChild)
  /\ CASE Head(fromChild) = "ec0" -> toChild' = toChild \o [i \in 1..SourceSize |-> "source"] /\ parent' = "connected"
       [] Head(fromChild) # "ec0" -> parent' = "connected" /\ UNCHANGED toChild
  /\ UNCHANGED <<forked, messages, stolen, stage, script, core, main, corked, received>>
\* The parent: BootstrapProtocol's markers, then the router.
ReadMarker ==
  /\ fromChild # <<>> /\ fromChild' = Tail(fromChild)
  /\ CASE Head(fromChild) = "ec0" -> toChild' = toChild \o [i \in 1..SourceSize |-> "source"] /\ parent' = "fed"
       [] Head(fromChild) = "ec1" -> UNCHANGED <<toChild, parent>>
       [] Head(fromChild) = "ec2" -> parent' = "connected" /\ UNCHANGED toChild
  /\ UNCHANGED <<forked, messages, stolen, stage, script, core, main, corked, received>>
SendMessage ==
  /\ parent = "connected" /\ messages < MaxMessages
  /\ messages' = messages + 1 /\ toChild' = Append(toChild, "message")
  /\ UNCHANGED <<forked, parent, fromChild, stolen, stage, script, core, main, corked, received>>

-----------------------------------------------------------------------------
\* The first stage.  What it reads is buffered: it may take what lies behind the source.
StageHello ==
  /\ Doing(stage, "hello") /\ fromChild' = Append(fromChild, "ec0") /\ stage' = <<"reads", SourceSize>>
  /\ stageSame /\ UNCHANGED <<toChild, stolen, script, core>>
StageReads ==
  /\ Doing(stage, "reads") /\ toChild # <<>>
  /\ \E n \in 1..Len(toChild) :
       LET left == stage[2] - n
       IN /\ toChild' = SubSeq(toChild, n + 1, Len(toChild))
          /\ stolen' = IF left < 0 THEN stolen - left ELSE stolen
          /\ stage' = IF left <= 0 THEN <<"script", SourceSize>> ELSE <<"reads", left>>
  /\ stageSame /\ UNCHANGED <<fromChild, script, core>>
\* The source goes to the interpreter, then once more to descriptor 101.
StageWrites ==
  \/ /\ Doing(stage, "script") /\ stage[2] > 0 /\ script.held < PipeSize
     /\ script' = [script EXCEPT !.held = @ + 1] /\ stage' = <<"script", stage[2] - 1>>
     /\ stageSame /\ UNCHANGED <<toChild, fromChild, stolen, core>>
  \/ /\ Doing(stage, "script") /\ stage[2] = 0
     /\ script' = [script EXCEPT !.writers = @ \ {"stage"}] /\ stage' = <<"core", SourceSize>>
     /\ stageSame /\ UNCHANGED <<toChild, fromChild, stolen, core>>
  \/ /\ Doing(stage, "core") /\ stage[2] > 0 /\ core.held < PipeSize
     /\ core' = [core EXCEPT !.held = @ + 1] /\ stage' = <<"core", stage[2] - 1>>
     /\ stageSame /\ UNCHANGED <<toChild, fromChild, stolen, script>>
  \/ /\ Doing(stage, "core") /\ stage[2] = 0
     /\ core' = [core EXCEPT !.writers = @ \ {"stage"}] /\ stage' = <<"exits", 0>>
     /\ fromChild' = Append(fromChild, "ec1")
     /\ stageSame /\ UNCHANGED <<toChild, stolen, script>>
StageExits ==
  /\ Doing(stage, "exits") /\ stage' = <<"zombie", 0>>
  /\ stageSame /\ UNCHANGED <<toChild, fromChild, stolen, script, core>>

-----------------------------------------------------------------------------
\* The interpreter.  Before exec() it closes the ends that the first stage uses.
\* mutation: it keeps the write end of its own stdin.
KeepsEnd ==
  /\ Doing(main, "closes") /\ main' = <<"script", 0>>
  /\ core' = [core EXCEPT !.writers = @ \ {"main"}]
  /\ mainSame /\ UNCHANGED <<toChild, fromChild, script, corked, received>>
ClosesEnds ==
  /\ Doing(main, "closes") /\ main' = <<"script", 0>>
  /\ script' = [script EXCEPT !.writers = @ \ {"main"}] /\ core' = [core EXCEPT !.writers = @ \ {"main"}]
  /\ mainSame /\ UNCHANGED <<toChild, fromChild, corked, received>>
\* python reads its program until the end of the file, _setup_importer() the source.
ReadsScript ==
  /\ Doing(main, "script")
  /\ \/ script.held > 0 /\ script' = [script EXCEPT !.held = @ - 1] /\ main' = <<"script", main[2] + 1>>
     \/ script.held = 0 /\ script.writers = {} /\ main' = <<"core", 0>> /\ UNCHANGED script
  /\ mainSame /\ UNCHANGED <<toChild, fromChild, core, corked, received>>
\* mutation: the importer takes what is there.
ReadsCoreShort ==
  /\ Doing(main, "core")
  /\ \/ core.held > 0 /\ core' = [core EXCEPT !.held = @ - 1] /\ main' = <<"core", main[2] + 1>>
     \/ core.held = 0 /\ main' = <<"reaps", main[2]>> /\ UNCHANGED core
  /\ mainSame /\ UNCHANGED <<toChild, fromChild, script, corked, received>>
ReadsCore ==
  /\ Doing(main, "core")
  /\ \/ core.held > 0 /\ core' = [core EXCEPT !.held = @ - 1] /\ main' = <<"core", main[2] + 1>>
     \/ core.held = 0 /\ core.writers = {} /\ main' = <<"reaps", main[2]>> /\ UNCHANGED core
  /\ mainSame /\ UNCHANGED <<toChild, fromChild, script, corked, received>>
\* mutation: the first stage is not waited for.
ReapsNot ==
  /\ Doing(main, "reaps") /\ main' = <<"announce", main[2]>>
  /\ mainSame /\ UNCHANGED <<toChild, fromChild, script, core, corked, received>>
\* _reap_first_stage()
Reaps ==
  /\ Doing(main, "reaps") /\ Doing(stage, "zombie") /\ main' = <<"announce", main[2]>>
  /\ stage' = <<"gone", 0>>
  /\ UNCHANGED <<forked, parent, messages, stolen, toChild, fromChild, script, core, corked, received>>
\* The third marker; a forked child has sent it before main().
Announces ==
  /\ Doing(main, "announce") /\ fromChild' = Append(fromChild, "ec2") /\ main' = <<"uncorks", main[2]>>
  /\ mainSame /\ UNCHANGED <<toChild, script, core, corked, received>>
\* LogHandler.uncork(), then Dispatcher.run().
Uncorks ==
  /\ Doing(main, "uncorks") /\ corked' = FALSE /\ main' = <<"dispatches", main[2]>>
  /\ mainSame /\ UNCHANGED <<toChild, fromChild, script, core, received>>
\* The broker of the child reads the connection from _setup_stdio() on.
Receives ==
  /\ main[1] \in {"announce", "uncorks", "dispatches"} /\ toChild # <<>>
  /\ received' = received + 1 /\ toChild' = Tail(toChild)
  /\ mainSame /\ UNCHANGED <<fromChild, script, core, main, corked>>

StageSteps == StageHello \/ StageReads \/ StageWrites \/ StageExits
MainSteps == ClosesEnds \/ ReadsScript \/ ReadsCore \/ Reaps \/ Announces \/ Uncorks
StartupNext == StageSteps \/ MainSteps \/ ReadMarker \/ SendMessage \/ Receives
StartupSpec == StartupInit /\ [][StartupNext]_startupVars

-----------------------------------------------------------------------------
\* The first stage, whose reads are buffered, never takes a message: the parent sends
\* none before the last marker (_on_ec1_received() against _on_ec2_received()).
NothingStolen == stolen = 0

\* The interpreter runs the whole source and keeps a whole copy of it.
SourceWhole ==
  /\ main[1] \in {"core"} => script.held = 0 /\ main[2] <= SourceSize
  /\ main[1] \in {"reaps", "announce", "uncorks", "dispatches"} /\ ~forked => main[2] = SourceSize

\* The child answers only when its first stage is gone: the markers arrive in order.
MarkersInOrder ==
  /\ main[1] \in {"announce", "uncorks", "dispatches"} => Doing(stage, "gone")
  /\ \A i, j \in DOMAIN fromChild : i < j => fromChild[i] # "ec2"

\* Every child that starts comes up: two processes and two bounded pipes never wait
\* for each other in a circle.
StartsUp == []<>(Doing(main, "dispatches") /\ ~corked /\ parent = "connected" /\ received = messages)

\* What the first stage and ExternalContext.main() promise the parent: a child that is up has
\* its whole source, and no byte goes to the wrong reader.
StartupSafe == NothingStolen /\ SourceWhole /\ MarkersInOrder
=============================================================================
