---------------------------- MODULE ThreadWatch ----------------------------
(* master.ThreadWatcher: brokers constructed with a watcher are shut down    *)
(* when the main thread exits, by a third thread that waits for it and then  *)
(* walks the list of watchers; shutdown() takes a broker off that list.  The *)
(* process may fork, and the child construct brokers of its own.             *)
EXTENDS Naturals, FiniteSets, SequencesExt

CONSTANT Watchers
VARIABLES
  mainThread,  \* "runs" or "exited"
  forkedOff,   \* the process is a fork of the one that last touched the class: _cls_pid differs
  known,       \* _cls_thread_by_target names a thread for the main thread
  watchThread, \* the thread: "none", "joining", "walking" or "done"
  place,       \* the loop's position in the list
  watching,    \* _cls_instances_by_target of the main thread
  built, down   \* brokers constructed in this process, and shut down
twVars == <<mainThread, forkedOff, known, watchThread, place, watching, built, down>>

ThreadWatchInit ==
  /\ mainThread = "runs" /\ forkedOff \in BOOLEAN
  \* a child inherits the names of its parent's threads, and none of the threads
  /\ \/ known = FALSE /\ watching = << >>
     \/ forkedOff /\ known = TRUE /\ \E b \in Watchers : watching = <<b>>
  /\ watchThread = "none" /\ place = 1 /\ built = {} /\ down = {}

Inherited == IF forkedOff THEN [list |-> << >>, known |-> FALSE] ELSE [list |-> watching, known |-> known]
\* mutation: install() and remove() trust what a fork inherited.
NoReset == [list |-> watching, known |-> known]
Reset == Inherited

\* Broker.__init__(): ThreadWatcher.watch() of the thread that constructs it.
Construct(b) ==
  /\ mainThread = "runs" /\ b \notin built /\ built' = built \union {b}
  /\ watching' = Append(Reset.list, b) /\ known' = TRUE /\ forkedOff' = FALSE
  /\ watchThread' = IF Reset.known THEN watchThread ELSE "joining"
  /\ UNCHANGED <<mainThread, place, down>>
\* Broker.shutdown() of any thread ends with ThreadWatcher.remove().
Shut(b) == down' = down \union {b} /\ watching' = RemoveFirst(Reset.list, b)
UserShutdown(b) ==
  /\ b \in built \ down /\ Shut(b)
  /\ UNCHANGED <<mainThread, forkedOff, known, watchThread, place, built>>
MainExits ==
  /\ mainThread = "runs" /\ mainThread' = "exited"
  /\ UNCHANGED <<forkedOff, known, watchThread, place, watching, built, down>>
Join ==
  /\ watchThread = "joining" /\ mainThread = "exited" /\ watchThread' = "walking"
  /\ UNCHANGED <<mainThread, forkedOff, known, place, watching, built, down>>
\* on_join() of the next watcher, which leaves the list the loop walks.
\* mutation: the thread ends with the first of its watchers.
OnJoinFirst ==
  /\ watchThread = "walking" /\ watchThread' = "done"
  /\ UNCHANGED <<mainThread, forkedOff, known, place, watching, built, down>>
OnJoin ==
  /\ watchThread = "walking"
  /\ \/ place <= Len(watching) /\ Shut(watching[place]) /\ place' = place + 1 /\ UNCHANGED watchThread
     \/ place > Len(watching) /\ watchThread' = "done" /\ UNCHANGED <<place, watching, down>>
  /\ UNCHANGED <<mainThread, forkedOff, known, built>>

ThreadWatchNext == \/ \E b \in Watchers : Construct(b) \/ UserShutdown(b)
                   \/ MainExits \/ Join \/ OnJoin
ThreadWatchSpec == ThreadWatchInit /\ [][ThreadWatchNext]_twVars
ThreadWatchFair == WF_twVars(Join \/ OnJoin)

-----------------------------------------------------------------------------
\* A broker that lives is on the list that a thread of this very process waits to walk,
\* whatever the fork left in the tables; and the walk, of a list that shutdown() shortens
\* meanwhile, misses at most one broker for each that was shut down.
BrokersWatched ==
  LET live == built \ down
  IN /\ live # {} => watchThread # "none"
     /\ \A b \in live : Contains(watching, b)
     /\ watchThread = "done" => Cardinality(live) <= Cardinality(down)
\* A broker that is alone when the main thread exits is shut down, in a forked child too.
LoneBrokerShut == []<>(mainThread = "runs" \/ Cardinality(built) # 1 \/ built = down)
=============================================================================
