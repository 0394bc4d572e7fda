------------------------------- MODULE Spawn --------------------------------
(* The descriptors a parent opens and closes to start a child:                  *)
(* mitogen.parent.create_child(), tty_create_child() and                        *)
(* hybrid_tty_create_child() over create_best_pipe() and openpty().  Every call *)
(* that opens something may fail, and an except clause closes what was opened.  *)
(*                                                                              *)
(* A way of starting is a sequence of calls; a call opens or closes descriptors *)
(* and names what is closed when it raises.                                     *)
EXTENDS Integers, Sequences, FiniteSets

VARIABLES way,     \* function, with the arguments that matter
          step,    \* calls made
          opened,  \* descriptors open in the parent
          childState   \* trying, started, failed

spawnVars == <<way, step, opened, childState>>

Ways == [function : {"child"}, pipes : BOOLEAN, stderrPipe : BOOLEAN] \cup
        [function : {"hybrid"}, pipes : BOOLEAN, stderrPipe : {FALSE}] \cup
        [function : {"tty", "fork"}, pipes : {FALSE}, stderrPipe : {FALSE}]

Opens(fds, cleanup) == <<[does |-> "opens", fds |-> fds, cleanup |-> cleanup]>>
Closes(fds) == <<[does |-> "closes", fds |-> fds, cleanup |-> {}]>>
Starts(cleanup) == <<[does |-> "starts", fds |-> {}, cleanup |-> cleanup]>>

\* Ends of a socket pair, or of two pipes where SELinux is enabled.
Parents(w) == IF w.pipes THEN {"parent_rfp", "parent_wfp"} ELSE {"parentfp"}
Childs(w) == IF w.pipes THEN {"child_rfp", "child_wfp"} ELSE {"childfp"}

\* mutation: the first pipe stays when the second cannot be had.
BestPipeLeaks(w, held) ==
  IF w.pipes THEN Opens({"parent_rfp", "child_wfp"}, held) \o Opens({"child_rfp", "parent_wfp"}, held)
  ELSE Opens({"parentfp", "childfp"}, held)

\* create_best_pipe(), with what the caller closes when it raises.
BestPipe(w, held) ==
  IF w.pipes THEN Opens({"parent_rfp", "child_wfp"}, held)
                  \o Opens({"child_rfp", "parent_wfp"}, held \cup {"parent_rfp", "child_wfp"})
  ELSE Opens({"parentfp", "childfp"}, held)

\* mutation: the except clause forgets the pipe for stderr.
CreateChildLeaks(w) ==
  LET all == Parents(w) \cup Childs(w)
      err == IF w.stderrPipe THEN {"stderr", "stderr_r"} ELSE {}
  IN BestPipe(w, {}) \o (IF w.stderrPipe THEN Opens(err, {}) ELSE <<>>)
     \o Starts(all) \o Closes(Childs(w) \cup (err \ {"stderr_r"}))

\* create_child(): the pipe for stderr is made outside of the try.
CreateChild(w) ==
  LET all == Parents(w) \cup Childs(w)
      err == IF w.stderrPipe THEN {"stderr", "stderr_r"} ELSE {}
  IN BestPipe(w, {}) \o (IF w.stderrPipe THEN Opens(err, {}) ELSE <<>>)
     \o Starts(all \cup err) \o Closes(Childs(w) \cup (err \ {"stderr_r"}))

\* openpty(), by the library or by hand, closes what it has when it raises.
Openpty == Opens({"master_fp", "slave_fp"}, {})

\* tty_create_child()
TtyCreateChild == Openpty \o Starts({"master_fp", "slave_fp"}) \o Closes({"slave_fp"})

\* hybrid_tty_create_child()
HybridTtyCreateChild(w) ==
  LET tty == {"master_fp", "slave_fp"}
  IN Openpty \o BestPipe(w, tty) \o Starts(tty \cup Parents(w) \cup Childs(w))
     \o Closes({"slave_fp"} \cup Childs(w))

\* mitogen.fork.Connection.start_child()
ForkChild(w) == BestPipe(w, {}) \o Starts({}) \o Closes({"childfp"})

Calls(w) == CASE w.function = "child" -> CreateChild(w)
              [] w.function = "tty" -> TtyCreateChild
              [] w.function = "hybrid" -> HybridTtyCreateChild(w)
              [] w.function = "fork" -> ForkChild(w)

SpawnInit == way \in Ways /\ step = 0 /\ opened = {} /\ childState = "trying"

\* The next call succeeds, or raises.
Call ==
  /\ childState = "trying" /\ step < Len(Calls(way))
  /\ LET c == Calls(way)[step + 1]
     IN \/ /\ opened' = IF c.does = "closes" THEN opened \ c.fds ELSE opened \cup c.fds
           /\ step' = step + 1
           /\ childState' = IF step + 1 = Len(Calls(way)) THEN "started" ELSE "trying"
        \/ /\ c.does # "closes" /\ opened' = opened \ c.cleanup /\ childState' = "failed"
           /\ UNCHANGED step
  /\ UNCHANGED way
SpawnNext == Call
SpawnSpec == SpawnInit /\ [][SpawnNext]_spawnVars

-----------------------------------------------------------------------------
\* What the Process object of the child holds.
Kept == CASE way.function = "child" -> Parents(way) \cup (IF way.stderrPipe THEN {"stderr_r"} ELSE {})
          [] way.function = "tty" -> {"master_fp"}
          [] way.function = "hybrid" -> Parents(way) \cup {"master_fp"}
          [] way.function = "fork" -> {"parentfp"}

\* Two calls are outside of every try, and follow create_best_pipe(): the pipe() for stderr
\* of create_child() and the os.fork() of start_child().
Unguarded(w, made) == made = Len(BestPipe(w, {})) /\ (w.stderrPipe \/ w.function = "fork")

\* A child that was started leaves exactly the parent's ends open, so that its loss is
\* seen as an end of file.  Whatever call of a child that could not be started raises, every
\* descriptor has been closed again; those two calls, and they alone, leave the four or
\* two ends of create_best_pipe() to the garbage collector.
DescriptorsBalance ==
  /\ childState = "started" => opened = Kept
  /\ childState = "failed" =>
       opened = IF Unguarded(way, step) THEN Parents(way) \cup Childs(way) ELSE {}

=============================================================================
