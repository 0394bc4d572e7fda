# Verification of the Mitogen runtime

This repository is an Ansible course. Its playbooks, roles and inventories are declarative, and its scripts
(`get_inventory.py`, `library/github_repo.py`, `zabbix/zabbix.py`, `filter_plugins/`, `todo-flask-postgres/`) are short
and sequential. The program with behaviour of its own is the copy of **mitogen-0.2.9** it carries and configures as
Ansible's strategy plug-in: a distributed, multi-threaded runtime of about 14 000 lines in `mitogen/` and 9 000 in
`ansible_mitogen/`, which has no tests here. This directory models it in TLA+, checks the models with TLC and proves
theorems about them with TLAPS. Paths below are relative to `src/mitogen-0.2.9/`.

## Inventory

A mitogen process has one *broker thread*, which runs an I/O loop over the streams to other processes, and any number of
other threads: the main thread, which in a child dispatches calls, the threads of a *service pool*, and the user's.
Processes form a tree; messages name a destination context and a handle there. Under Ansible the top of the tree is a
*multiplexer* process, to which Ansible's workers attach through a UNIX socket.

| component | state | operations | module |
| --- | --- | --- | --- |
| `Latch` (core.py) | queue, sleepers, `_waking`; socketpairs pooled per process | `get`, `put`, `close` | `Latch`, `LatchQueue` |
| `Broker`, `Waker` (core.py) | flags, poller, deque of deferred functions, self-pipe | `defer`, `defer_sync`, `shutdown`, `start_receive`, the loop | `Broker` |
| pollers (core.py, parent.py) | registrations by descriptor | register, poll, dispatch of events | `Polling` |
| `Stream`, `MitogenProtocol`, `BufferedWriter` (core.py) | buffers of both ends | write, read, cut into messages | `Framing` |
| `Router` handlers, `Receiver` (core.py) | handlers by handle and by respondent | `add_handler`, `del_handler`, `_invoke` | `Handlers` |
| `Router` routes, `RouteMonitor` (core.py, parent.py) | routes, contexts that a stream heard from | `_async_route`, `ADD_ROUTE`, `DEL_ROUTE`, disconnection | `Routing` |
| ID allocation (master.py, parent.py) | the counter, a range per child | `allocate`, `ALLOCATE_ID` | `IdAllocator`, `FreshIds` |
| `CallChain`, `Dispatcher` (parent.py, core.py) | remembered errors by chain | calls, `forget_chain` | `Calls` |
| `Select` (select.py) | members, tokens | `add`, `remove`, `get_event`, iteration | `Selects` |
| service pool (service.py) | receivers, tokens, invokers, their queues | requests, activation, `stop` | `ServicePool` |
| `FileService`, `PushFileService` (service.py) | windows, jobs; files, waiters, what was sent | `fetch`, `acknowledge`; `store_and_forward`, `forward`, `get` | `FileTransfer`, `FilePush` |
| `Importer`, `ModuleForwarder`, `ModuleResponder` | caches, callbacks, modules sent by stream | `GET_MODULE`, `LOAD_MODULE`, `FORWARD_MODULE` | `Imports` |
| `ModuleFinder`, `module_finder`, `ModuleDepService` | caches | searches for source code and for what it imports | `ModuleSearch` |
| `Connection`, `Reaper`, `TimerList` (parent.py) | exception, latch, streams, timers | connect, time out, fail, reap | `Bringup` |
| connection methods (ssh.py, sudo.py, su.py, doas.py) | what was asked and sent | conversations | `Login` |
| `create_child` and its kind (parent.py) | descriptors | start | `Spawn` |
| first stage, `ExternalContext` (parent.py, core.py) | pipes, stages | bootstrap | `Startup` |
| `LogHandler`, `IoLogger` (core.py) | buffer, cork | log, uncork, drain | `Logs` |
| `ThreadWatcher`, `Corker` (master.py, os_fork.py) | watchers, sockets | exit of the main thread, `os.fork()` | `ThreadWatch`, `Corking` |
| `ContextService` (services.py) | responses, waiters, reference counts, LRU lists | `get`, `put`, `reset`, `shutdown_all`, disconnection | `ContextService` |
| `MuxProcess`, unix listener (process.py, unix.py) | processes, sockets | start, attach, exit | `Multiplexer` |
| connection plug-in (connection.py) | binding, chain, references, parent | connect, `close`, `reset`, delegation | `ConnectionPlugin` |
| runner, planner, target (ansible_mitogen/) | patches of the process, forked children | run a task, revert | `TaskRunner`, `EnvFiles` |
| `AsyncRunner` (target.py) | status file | start, result, alarm | `AsyncJob` |
| `affinity.py` | shared counter, semaphore | policies | `Affinity` |

What is hard, and what makes the components correct:

- **Wakeups outside a lock** (`Latch.put()` chooses under the lock and writes after it) and **no lock at all**
  (`Waker.defer()`, the handler table, `PushFileService._forward()`): nothing may be lost, doubled or misdirected.
- **Hand-overs**: the receiver of service requests from the `Dispatcher` to the pool, the log from its buffer to the
  parent, the connection from the first stage to the interpreter, descriptors from one stream to the next.
- **Steps after an unlock**: `ContextService` answers, records and counts in three steps while contexts disconnect.
- **News that travels with the messages it is about**: routes, modules, acknowledgements. What arrives first must suffice.
- **Everyone waiting on everyone**: a lock held while the master is asked for IDs, a first stage that feeds two pipes, a
  broker thread that joins threads that wait for the broker thread, a fork that corks the threads it must not deadlock with.
- **Failure at any step**: of a connection attempt, a start, a task set-up, an activation; and of any process.
- **Limits**: the window of a transfer, a full pipe, the number of interpreters, a counter of eight bits.

`PROJECT.json` lists every component with its status, and the hazards at the lines where they bite.

## How to read the modules

Definitions named after methods translate them; `map` in `PROJECT.json` gives the lines of each. An action is what the
code does between two points where another thread, process or signal can get in: a region under a lock, a system call, or, where there is no
lock, each access to a shared dict, set or deque. A broker thread that shares nothing handles a message in one step. A
definition whose comment starts with `mutation` is a plausible fault of the definition beside it: with the fault in its
place the property that `mutants` names fails, which shows that the property depends on that line of the code. No
specification uses it.

Modules that are checked together name their variables apart and prefix `Init`, `Next` and the type invariant with their
name. `Something`**`Safe`** is what a component promises that a finite behaviour can break: the conjunction of the invariants
and action properties that the tables below list for it, with its type invariant (as a conjunction of boxes where it holds
an action property). Its liveness properties are gathered in `PoolLive`, `ContextLive` and `BrokerLive`, or, for the modules that
share a run, in the **`Live`** of the MC module (`NetworkLive`, `UpstreamLive`, `ServicesLive`, `BringupLive`, `AnsibleLive`).

The **MC** modules name model values and the function values a .cfg cannot write. `MCNetwork`, `MCUpstream`, `MCServices`,
`MCBringup`, `MCAnsible` and `MCContextService` hold several components: the variable `part` chooses in the initial state the one that runs,
and the others stay in an initial state, so that a behaviour is one of one component. They share a run because their
subjects are related and each is small; nothing interacts. Interaction is within the modules: `ServicePool` has the broker thread,
main thread, Select, receivers and invokers; `Imports` and `Routing` a tree of processes; `Startup` the parent and both processes of
a child; `ContextService` the pool threads, their clients and the broker's listeners; `Multiplexer` all processes of a run.

## Modules

**Latch, LatchQueue.** `GetSleep` is `get()` up to the call of `_get_sleep()`, `PollReadable` and `PollTimeout` are
`poll()`, `GetWake` is the second region of `_get_sleep()`; `Put` and `PutWake` are `put()` before and after its unlock.
`pipe` holds the cookies in each socketpair; the k-th accepted item is k. `Timed` is the set of threads that pass a
timeout: some properties hold only when it is empty, and that is part of what the module says. `LatchQueue` promises
items first-in first-out, handed to the thread that has waited longest; in `Latch!Abstract` a chosen sleeper (index up
to `waking`) holds the item at its index of `_queue`, other sleepers wait, items beyond are buffered. *Left out*:
`KeyboardInterrupt` in `poll()`, `_on_fork()`.
Properties: `SleepersExact` (the list of sleepers is exact, no socketpair is lent twice), `Cookies` (each reaches its sleeper
once), `NoAssertFails`, `ImplementsQueue`; `LatchLive` = `CloseWakes` and the fairness of `LatchQueue`, that who was handed
something returns with it.

**Broker.** `DeferChecked`, `DeferAppend`, `DeferWake` and `DeferWrite` are the steps of `Waker.defer()`; `Poll`,
`Dispatch`, `ReadWaker`, `Drain` and `DrainEnd` the loop; `BeginShutdown` to `BrokerExit` the end of `_do_broker_main()`. A deferred
function is a record of what it does: nothing, answer a `defer_sync()`, stop the broker, raise, register a stream.
Streams differ in whether they disconnect at shutdown (`Lingering`) and count as alive (`Passive`). `Crash` is the
exception that `poll()` raises for a descriptor closed before its registration ran. Properties: `Armed` (no lost wakeup), `DeferredSafe` = `RunOnce`, `InOrder`;
`BrokerLive` = `AcceptedRuns` + `StopEnds`.

**ContextService.** A stack of connections is reduced to its last hop below one via context. Regions under `_lock` are
one action; `Record`, `ReadRefs` and `AddRefs` are the steps after `_produce_response()`, without the lock. A client is
a worker together with the pool thread that serves it. `ContextSafe` = types, `LruBounded`, `AnswersMatch`, `Pursued`;
`ContextLive` = `ConnectsOnce` + `Answered`, which hold while nothing disconnects.

**IdAllocator, FreshIds.** `Allocate` is the master's; `AllocateChild`, `RequestBlock`, `ReceiveBlock` and `ChannelLost`
are the steps of `ChildIdAllocator.allocate()` around its lock; `OnAllocateId` serves a request. `FreshIds` says only
that issued IDs are distinct. Properties: `Apart`, `ImplementsFresh`, `LockFreed`.

**ServicePool.** The main thread (`InitServicePool` to `Listen`) constructs the pool; the broker thread (`Deliver` to
`BrokerNotify`) runs `Receiver._on_receive()`, `notify` being read twice as in the code, and shuts down (`Shutdown` to
`BrokerExit`); a worker runs `Pool._worker_run()` from `CheckClosed` to `Method`. `registry` says whether a name maps to
the invoker that `Pool.add()` registers or to the one `get_invoker()` replaces it with. The checks of names, arguments and policies
are one outcome, a refusal. `PoolSafe` = types, `Announced`, `BuiltOnce`, `OneRunner`, `AnsweredOnce`; `PoolLive` = `Served` + `StopReturns`.
*Left out*: `DeduplicatingInvoker` (no service here uses it), `defer()`.

The others, with the parts of their `Safe` property; those after the semicolon are liveness:

| module | what it models | properties |
| --- | --- | --- |
| `Handlers` | threads that call, time out and close; the broker that delivers, disconnects respondents and exits; each access to the two tables is a step, so that two threads may both create the set of a respondent | `AnsweredAtMostOnce`, `NoStaleHandle`, `EveryCallListed`; `CallsAnswered` |
| `Routing` | a tree of contexts with FIFO links that break; source verification, dead replies, news of routes | `HonestVerified`, `RoutesConverge`; `EveryCallEnds` |
| `Framing` | one direction of a stream through a small pipe: partial writes, joined chunks, a foreign byte, a message too long, the end | `BytesConserved`, `MessagesWhole`, `HeadersWhole`, `InterestMatches`, `DroppedForCause`; `Drained` |
| `ThreadWatch` | watchers of a main thread that exits, the list that shrinks while it is walked, a fork | `BrokersWatched`; `LoneBrokerShut` |
| `Corking` | the threads of a pool and a broker, held at corks around a fork | `QuietAtFork`; `ThreadsResume` |
| `Imports` | importers, forwarders and the responder along a chain; modules sent unasked; loss of the parent | `SentOnce`, `ForwardFinds`, `NoFalseMiss`; `ImportEnds` |
| `ModuleSearch` | the finders on any `sys.modules`, import statements of any level, `scan()` and its cache, against Python's import | `RelatedComplete`, `SourceFound`, `DepsComplete` |
| `FileTransfer` | the window of a stream with queued transfers, targets that may die, files that change | `AccountsBalance`, `WindowHeld`, `InterruptedForCause`; `TransfersEnd` |
| `FilePush` | a file pushed down a tree by the threads of each pool, `get()` waiting for it | `ResentOnlyInRace`; `PushArrives` |
| `Calls` | chains of calls, pipelined or not; exceptions remembered and forgotten; `no_reply` | `ChainStops`, `RefusedForOwn`; `CallsReturn` |
| `Selects` | a select of receivers that other threads fill while they are added; oneshot | `NoneOverlooked`; `GatherEnds`, `EventsFlow` |
| `AsyncJob` | the job, its status file and temporary file, the alarm between any two steps, the exit | `EndReported`, `ToldWhenThere`, `TimeoutStands` |
| `Bringup` | connection attempts: deadline, loss of each pipe, shutdown; listeners walked as they leave; tries of the Reaper; grace | `OneOutcome`, `ListensWhilePending`, `EofAfterBoth`, `ShutdownSettles`, `TermFirst`, `GraceWaits`; `ConnectReturns`, `NoZombie` |
| `Login` | the conversations of ssh, sudo, su and doas, output read in pieces of any length | `BlamedIfWrong`, `RightConnects`, `OneAnswer`, `RequiredNamed`; `LoginEnds` |
| `Spawn` | the descriptors each way of starting a child opens and closes, each call failing in turn | `DescriptorsBalance` |
| `Startup` | first stage, interpreter and parent, through pipes smaller than the source | `NothingStolen`, `SourceWhole`, `MarkersInOrder`; `StartsUp` |
| `Logs` | threads that log while the buffer is sent; lines of stdout up to the shutdown | `RecordsConserved`, `OrderUnlessUncorking`, `LinesDrained`; `RecordsArrive` |
| `Polling` | the epoll poller: streams over reused descriptors, registrations deferred by threads, events handled in turn | `NeverMisled`, `RegisteredOpen`, `CrashOnlyRaced`; `Noticed` |
| `Multiplexer` | top level, multiplexers and workers with their inherited sockets and handlers; kills | `RefusedOnlyAtEnd`, `OutliveWorkers`, `NothingLeftBehind`; `NoOrphans`, `AttachEnds` |
| `Affinity` | the shared counter and semaphore, and the policies | `OffReserved`, `TicketsDistinct`; `AllPinned` |
| `TaskRunner` | choice of process, patches and their reversal, a child per isolated task, failures | `CleanBetweenTasks`, `NoForeignUtils`, `OwnOutput`, `ChildrenEnd` |
| `EnvFiles` | two watched files and the environment they feed | `NoRemnants`, `EditsReflected`, `InheritedKept` |
| `ConnectionPlugin` | a worker that runs actions on hosts behind each other, delegated, reset, or with a lost target or multiplexer | `RefsBalance`, `HopsHeld`, `ParentMatches`, `BrokerBound`, `StackSound` |

Where the code is not as good as one would wish, the property says so in its statement: `ResentOnlyInRace`,
`CrashOnlyRaced`, `BlamedIfWrong` (a prompt read in two pieces), `EndReported` (an unreadable file if the alarm strikes
while the result is written), `EditsReflected` (a key named in both files), `BrokerBound` (no multiplexer to be reached),
`ChildrenEnd` (sending the module failed), `DescriptorsBalance` (the `pipe()` for stderr of `create_child()` and the
`os.fork()` of `start_child()` are outside of every `try`: at these two calls, and at no other, the ends made by
`create_best_pipe()` stay open), `LoneBrokerShut` (only a broker that is alone is surely shut), `BrokersWatched` (the walk may miss
as many brokers as were shut down), `CallsAnswered` and `EveryCallListed` (a handle in a set of its respondent that another
`add_handler()` has replaced), `ChainStops` (an exception that a function raised, not one in reading the request).

## Runs

| run | what it asks | instance |
| --- | --- | --- |
| `broker_sync` | finding: `defer_sync()` never returns | 2 callers |
| `context` | `ContextSafe` with disconnections, `reset()` and `shutdown_all()`; `Broker`: `Armed`, `DeferredSafe` | 2 clients, 2 keys, 2 contexts, 1 interpreter; 2 callers, 2 calls each, a pipe of 2 bytes, a lingering stream |
| `context_hang` | finding: waiters are never answered | 2 clients, 1 key, contexts that disconnect |
| `pool` | `PoolSafe`, `PoolLive` | 2 of 3 possible requests, 2 services, one serialized, 2 workers |
| `pool_exit` | finding: the broker never exits | the same |
| `network` | `Handlers`, `Routing`, `Framing`, `ThreadWatch`, `Corking` | 2 callers of one context; the tree M above A and B, A above A1, calls between B and A1; bodies of 0, 1 and 3 units (limit 2), headers of 2, a pipe of 3; 3 watchers; 2 threads, 2 forks |
| `network_respondent` | finding: a handler is never told of a disconnection | the same |
| `upstream` | `IdAllocator`, `Imports`, `ModuleSearch`; `Latch` without timeouts: `ImplementsQueue`, `Cookies`, `NoAssertFails`, `LatchLive` | master with 1 thread, children with 3 and 1, blocks of 2; a chain M, P, K importing 6 modules in 2 threads; 288 programs, 256 contents of `sys.modules`; 3 threads, 3 socketpairs, 2 items |
| `services` | `FileTransfer`, `FilePush`, `Calls`, `Selects`, `AsyncJob`, `Broker` (live) | 3 transfers over a stream, window 3, chunk 2, sizes up to 5; pools of 2 in a tree of 4; a pipelined chain of 4 calls and another; 2 receivers, 2 messages each; with and without a time limit; 2 callers, a lingering and a passive stream |
| `services_chain` | finding: a chain goes on after a call that could not be read | the same |
| `bringup` | `Bringup`, `Login`, `Spawn`, `Startup`, `Logs`, `Polling`, `Latch` with timeouts | 2 attempts, tries 1, 2 and 3; 4 methods, 3 questions; every way of starting; source 3, pipes 2; 2 threads with 2 records; 3 streams over 2 descriptors; 2 timed threads, 3 items |
| `ansible` | `ContextService` (live), `Multiplexer`, `Affinity`, `TaskRunner`, `EnvFiles`, `ConnectionPlugin` | 3 clients of one key, 2 contexts; 2 multiplexers, 3 workers, 2 kills; 3 CPUs, a counter modulo 4; 3 tasks; 3 edits; 3 hosts over 2 multiplexers, 3 requests, 2 mishaps |

Why these bounds are enough for the cases of interest. With three threads on a latch two sleep, one of which leaves while
the other is chosen, and a putter is between its unlock and its write. A self-pipe of two bytes fills with two callers. Two clients and
one interpreter make each connection evict the other's. A block of two IDs runs out under three threads, so that a second is
requested while another child and the master allocate. A pipe of three units takes part of a message of any length but
the shortest, and the two longest bodies differ in whether they exceed the limit. A chain of three contexts has a middle
one that both imports and forwards. A window of three with chunks of two is overshot, and one transfer waits behind two. Two threads in each
pool forward one file at once. Pipes of two hold back a source of three. Three streams over two descriptors reuse one
under an event that names it. A counter modulo four wraps with four processes. Three tasks make a task run after one that ran
after another. Every bound is a constant that stops an environment; when it is used up the system stops by design, hence
no run checks for deadlock: that nobody waits for ever is what the liveness properties say.
`context` and `context_hang` exclude each other: the second shows what the first may not promise. So do `network` and
`network_respondent`, `services` and `services_chain`, on the same instance: `CallsAnswered` is `RespondentsHeard`, and `ChainStops`
is `AnyFailureStops`, less the case found. (`Upstream.cfg` and `Context.cfg` hold a second subject each: the latch on which the threads of a child wait,
and the broker that connects contexts.)

### Fairness

Weak fairness of the steps of a thread says that the operating system schedules it and that a lock that is free often
enough is obtained; no thread takes a lock twice, and each region under a lock is one action. Fairness of broker steps
(`BrokerStep`, `Progress`, `Pools`, `BrokerSteps`, `Poll` …) says that a broker serves what is ready, which its loop does
one event after another. `Deadline` and timers are fair because time passes; `OnAllocateId` and `LoadModule` because the parent serves
what it receives or the channel is lost; the steps of the other end of a pipe because it is a program that reads or exits. Methods of services
and functions that are called are assumed to end. Nobody is obliged to begin an operation, to time out, to send, to log,
to disconnect, to die or to shut anything down. In the modules with `part` fairness is conditioned on the part that runs;
the others ask nothing.

## Findings

Runs that end in a violation, each of something the repository says in a docstring or a comment:

- `broker_sync`: a function deferred late in a shutdown is accepted and never run, so `defer_sync()` sleeps for ever.
- `context_hang`: a context that disconnects before `_produce_response()` takes the list of waiters with it.
- `pool_exit`: the listener of the pool joins its threads on the broker thread, while one of them waits for a module that
  the broker thread has to receive.
- `network_respondent`: two threads call a context that no handler is registered for yet. Both find no set in `add_handler()`
  (core.py:3179), both store one, and the second store discards the set that may hold the handle of the first. `on_disconnect` walks the
  other set: the handler is not told, against the docstring (core.py:3131-3134), and its caller waits for ever.
- `services_chain`: an exception of `_parse_request()` (core.py:3660-3663) is returned without the chain, so nothing is recorded, and calls
  pipelined behind it run. The docstrings of `Dispatcher` (core.py:3601-3603) and `CallChain` (parent.py:1766-1769) say that any
  exception fails them all. Code and documentation differ; which of the two is meant is not decided here.

Other differences between the code and what it seems to intend, seen while modelling. The models contain the behaviour
where it is within their scope, and no run is kept for them:

- *core.py*: a timed `Latch.get()` that gives up between the choice and the write of a `put()` leaves a stale cookie in a
  pooled socketpair and `_waking` too high, so that an assertion of `_get_sleep()` can fail later; `Waker.defer()` accepts functions throughout the
  shutdown though its docstring promises `Error`, and the grace period does not wait for them; `Waker._wake()` raises for
  exactly the two errors it means to ignore; `fire()` iterates a list from which listeners remove themselves and skips
  some; `Receiver.close()` raises `KeyError` if `_invoke()` deletes its handler first; a dead `LOAD_MODULE` is ignored, and a dead
  `CALL_SERVICE` makes a worker of the pool exit; a method without reply that raises is answered; records logged while
  `uncork()` sends the buffer overtake it; a second `on_disconnect()` unregisters the stream that reuses the descriptor;
  start-up with a log descriptor 2 in a fork closes it.
- *parent.py*: a prompt read in two pieces is matched twice; the stderr pipe of `create_child()` is opened outside the
  `try`; a Reaper leaves its listener behind if its timer is no longer active; a failed attempt fills its latch twice; the ssh protocol calls a
  method `_fail` that does not exist.
- *master.py*: the thread of `ThreadWatcher` walks a list that `shutdown()` shortens, so that with several brokers some are
  left; `allocate_block()` calls `end_id` the last usable ID, which is the first one after the block.
- *service.py, select.py*: `Pool.add()` registers an invoker that `get_invoker()` replaces, and a request in between uses
  the first; `_forward()` tests and extends `_sent_by_stream` without the lock; a oneshot `Select` raises for a second
  token of a receiver and the message is lost; `get_streams` hands out a live iterator.
- *unix.py, os_fork.py*: a listener that closes during `connect()` surfaces as `struct.error`, not `ConnectError`; the comment of
  `Corker.cork()` wants pools paused before brokers, and brokers are asked at once.
- *services.py*: two clients of a key may be given different contexts, a count may not return to zero, a context may
  be recycled under a client, because the steps after `_produce_response()` are not locked; `get()` counts each hop of a
  stack while `put()` releases the last, against the comment at 144-147, so the references of the hops stay.
- *connection.py*: a failed reconnect leaves a stale `listener_path`; two connections share one `ClassicBinding`; an
  attempt that reaches no multiplexer leaves its broker running.
- *runner.py, planner.py, target.py*: `setup()` is outside the `try`, so that a failed set-up leaves patches behind;
  `NewStyleRunner.revert()` does not revert its importer; `ArgsFileRunner` reopens the program instead of the arguments; the
  alarm of an asynchronous job is never cancelled; `to_text(None)` puts the string "None" into an environment; a
  key named in both environment files is lost when one gives it up; `transfer_file()` with `sync` calls `fsync()` after the close; `_get_planner()` refers to
  an undefined name in its error path.

## Proofs

For all values of the constants that the assumptions of the modules allow. A theorem is `Spec => []P`, or `Spec => XSafe` where
`XSafe` holds an action property too, and its argument is the same: the initial states satisfy an invariant, each action
preserves it (a lemma or step per action, and below it one per conjunct that the action can disturb), and it implies the
property. What differs is the invariant, and why the property alone will not do. `SequenceLemmas` holds what several of the
proofs need of sequences and sums.

**BringupProofs**
- `Latch`: `SleepersCorrect`, timeouts or not: the removal of a sleeper from the middle of `_sleeping` is handled by lemmas
  on `RemoveAt`. `WakeupsCorrect` and `AssertionsHold` with `Timed = {}`: that a cookie reaches its sleeper relies on the
  indexes of chosen sleepers being the first `waking`, and those on nobody leaving who was not chosen. With timeouts that
  last point is false, and so are the theorems.
- `LatchQueue`: `QueueImplemented`, also with `Timed = {}`. From the invariant of `WakeupsCorrect` each step of the latch is a
  step of the queue or a stutter, under the mapping `MappingIs`: what the chosen sleepers hold (`Box`), the line of the others
  (`Line`), the items beyond (`Stock`). The lemmas before the simulation say what removal from the middle of both sequences
  at the same index (`Leaves`), a new sleeper, a new item and the end make of the three.
- `Spawn`: `DescriptorsKept`. `SpawnInv` follows the descriptors call by call: a function `h` of the calls made gives those that
  are open, and `Follows` says what each call may add or close; the theorem is then about the ends of `h`, way by way, with a failure
  at each call: what the `except` clause closes is what `h` has opened by then.
- `Startup`: `StartupCorrect`. `Markers` says which markers are under way at each step of both sides, `Ends` who holds which end
  of the pipes, and `Units` that what was written is what was read and what the pipe holds; the parent alone would not know
  that what it reads is the marker it waits for.
- `Logs`: `LogsCorrect`. `Books` numbers the records of a thread: what was sent and what is held are apart, make up all that were
  begun, and the buffer keeps each thread's order; that sums agree with it is counting by number (`CountByNumber`).
- `Polling`: `PollingCorrect`. `Owned` ties descriptors to streams while they are reused, `EventsReadable` says that an event still
  to be handled is of a stream with something to read, `RacedClosed` which streams were removed under the broker's hands.
- `Bringup`: `BringupCorrect`, `GraceWaits` included. A handler is a function of an attempt, its process and the list of
  listeners; the invariant says of each attempt that it is `Settled` between handlers: `Consistent` within one (signals in their
  order, a child without streams looked after, no listener twice), its caller `Told`. `Becoming` lets the others stay as they
  were, so that each handler is a lemma about one attempt; what an attempt becomes when a stream is lost (`Lost`) serves six
  of them.

**NetworkProofs**
- `Corking`: `ForksQuietly`: every thread counted as held is at its cork.
- `ThreadWatch`: `BrokersStayWatched`. `OnList` says that the list holds the living brokers, each once, and `WatchInv`
  that the thread has moved past no more places than brokers were shut down, so that at the end of the list no more can be left.
- `Handlers`: `HandlersCorrect`. `Listed` says which entries of the two tables belong together at each step of `add_handler()`,
  `_invoke()` and a disconnection, none of which locks; `Walking` what the broker has still to visit of a set that changes;
  `Requested` and `AnswerOnce` where the answer to a call is: with the handler, on its way, or given. `HeardInv` is a second layer, for
  `EveryCallListed`: a registered call is in the set its thread added it to (`Placed`), and of a connected respondent the table has the newest
  set, the older ones were replaced and somebody listens (`InUse`).
- `Framing`: `FramingCorrect`. `Conserved`: what was handed over and is not routed is what is held, then what is in the pipe, then
  what waits in the buffer. `Ahead`: it is whole frames, the next one due first, with one foreign byte between two of them at
  most. `Reading`: chunks stand behind the first one only while they are shorter than the message due, without the last. That joining,
  splitting and dropping chunks agrees with the stream they make up is a matter of flattening a row of chunks (`FlatConcat`,
  `FlatHead`), by induction over lengths.
- `Routing`: `RoutingCorrect`, for a finite tree. `Tables` says that a context has routes to exactly what it lists under its streams, each
  list within the subtree of the stream; `Lives` who may have lost its connection. `WiresOk` is about the messages on a stream to a parent, in their order: the
  receiver, once it has read so far, knows the source of the next one and not its target (`UpOk`, `Knows`), and at the end knows what
  the sender knows. Only then do verification at each hop and, with nothing under way, agreement along a whole path (`KnownAbove`) follow.
  `Sent` may emit news in any order (`Lists`). Two children of a context have nothing below them in common (`Siblings`), as `Lineage`,
  who is above whom, is the least set closed under `Up`: an intersection, like that of `FilePush`.

**ServicesProofs**
- `Broker`: `TypesCorrect`, `NoLostWakeup`: `PipeInv` adds to `Armed` where the broker thread may be while its self-pipe is
  registered and open. `RunsOnce`, `RunsInOrder`, `DeferredCorrect`: `History` relates what each caller deferred, where it is,
  and what is on the deque or has run.
- `AsyncJob`: `JobReported`: which report the status file holds, whole, at each point where the alarm may strike (`FirstReport`,
  `TemporaryFile`, `LastReport`, `Interrupted`).
- `Calls`: `CallsCorrect`. `InLine` keeps the requests in the order in which they were made, `KeptFailures` ties what the dispatcher remembers
  to the first exception of a function in a chain since its reset, and `Stops` and `RefusedForCause` follow for what has been taken.
- `Selects`: `SelectsCorrect`: `AllAnnounced` counts, per receiver, messages against tokens, announcements under way and the look
  that `add()` still has to take; `Conserved` counts messages.
- `FilePush`: `PushCorrect`. `Placed`: what waits for the file at a context is the wake-up of a reader or is meant for somebody below (`Beneath`),
  and so is every task of its threads, so there always is a next hop. `Counted`: the copies sent over a stream and the threads about to send one are
  no more than the pool has, for after the first copy no thread starts to send. It is assumed that the contexts form a tree below the
  source. `Lineage`, who is above whom, is the least set closed under `Over`, written as an intersection because a
  recursive operator is out of the SMT solver's reach; `Imports` has it too.
- `FileTransfer`: `TransferCorrect`. A turn of the loop that sends keeps the books of its stream (`Books`: bytes added to what is unacknowledged are
  those added to what is under way), hence so does the loop, by induction over its turns (`UpTo`). Between the loops `Balanced` says
  that what is unacknowledged covers what is under way to and from the living targets and is that if all live, `Served` that what a
  target got and what comes make up what was read of its file, with the end last, `QueuedOnce` that only transfers without an end are queued. Bytes
  are counted as the pairs of a place and a number (`BytesOf`), so that sums over a queue and a stream are sizes of sets; transfers are
  assumed to be finitely many.

**AnsibleProofs**
- `Affinity`: `AffinityCorrect`: the k-th ticket is k modulo the width, for any number of processes, deaths and any width.
- `TaskRunner`: `TasksCorrect`. `StepsInv` says how far set-up and reversal are, `PatchesInv` what each patched thing holds then,
  `PlanInv` and `UtilsInv` where module_utils may be, `LitterInv` whose files and children there are.
- `EnvFiles`: `EnvFilesCorrect`: `EnvOwned` and `EnvFollowed` say by whom a key is in the environment.
- `Multiplexer`: `MultiplexerCorrect`: `StartInv` and `EndInv` order the lives of the top level, the multiplexers and the workers.
- `ConnectionPlugin`: `PluginCorrect`. References are counted per hop (`RefsBalance`), which needs that the stack that is released is the one
  that was counted, whatever was lost in between (`PluginFields`, `BoundTo`); the stack itself is a walk along `via`, by
  induction over numbers (`ChainFields`, `StackFields`).

**ConversationProofs**
- `IdAllocator`: `IdsApart`: `Flow` says that a request, a block in flight and a lock holder waiting for it belong
  together, so a child never has two blocks to receive. `IdsFresh` is the step simulation of `FreshIds` from it.
- `Login`: `LoginCorrect`. What a stream holds, read or not (`Held`), is looked at as a whole: a prompt in it is two halves, and
  what follows is something else (`Prompts`). `Course` says how far the program can be, `Answered` that unless a prompt was torn at most
  one is without an answer, and it is the last of what can be read. What the lines of one read do to the program's
  side is a set closed under `OnLine` (`Fed`), by induction over the lines.
- `Imports`: `ImportsCorrect`. Each stream is described by what is on its way, what was sent over it, and what its lower end has
  (`StreamOk`): an order to pass a module on stands behind it or finds it there (`Founded`), code comes once (`Once`), what was sent is there
  or comes (`Covered`), and what is reported missing may be (`Truthful`). What an answer with its related modules adds is described by `Sent`, for the
  responder and the forwarders alike, by induction over the imports of a module; an order goes only to somebody above its target (`Orders`),
  so there always is a next hop.

**ContextProofs.** `ContextsSafe`: `ContextInv` says which key the tables, the thread that connects and the answers on
their way agree on (`Recorded`, `Connected`, `Told`, `Asked`), that a context is made once (`MadeOnce`), and that who is on a
list of waiters has no answer yet (`Listed`). `LruInv` adds that contexts are on the LRU list once and a thread about to put
one there has it alone; that eviction shortens the list rests on the places of a finite set of numbers being 1 to its size
(`PlaceRises`, `NthPlace`), by counting, for `SelectSeq` would need induction over sequences.

**PoolProofs.** `PoolCorrect`: `PoolInv` has six parts besides types. `Locked`: the lock is held by the thread that
builds, and it builds what is missing (`BuiltOnce`). `Manned`: a queue runs exactly when one thread is between `_pop()`
and the end of a method (`OneRunner`). `Placed`: a request is in one of five places at a time, and there once
(`AnsweredOnce`). `Staged` ties the notification functions to the progress of the main thread; `AllHeralded` counts, for a receiver, tokens,
threads that took one and the broker about to add one (`Announced`). `Known` says what a thread has in hand where it is.

### Only model-checked

- Liveness, which the proof system cannot state under fairness: every `…Live`.
- `SearchSafe`: `ModuleSearch` defines recursive operators, in reach of which the SMT solver is not available, and what they
  find for every input would need induction over data.

## Not modelled

- `Latch._on_fork()`, `KeyboardInterrupt` in a `get()`: left out of `Latch`. Nested selects, `DeduplicatingInvoker`.
- Forged messages, `auth_id` stamping and detached children in `Routing`. `LogForwarder`, which writes what arrives to
  the log of the master. Prompts that arrive after the login is complete, and host keys of ssh.
- The pollers other than epoll, which keep the same tables around another system call.
- Connection methods without a conversation (docker, kubectl, lxc, jail and their like): they build a command line.
- `transport_config.py`, the strategy, loaders, mixins and the wrappers of Ansible's classes: each translates one call into one that is
  modelled. `ConnectionPlugin` assumes what Ansible's workers do, that one connection at a time is active in a binding.
- File helpers of `target.py` and the rewriting of interpreters and arguments: data.
- fakessh (experimental, unused), debug, profiler, utils; vendored copies of library modules; the course's playbooks,
  roles, inventories and scripts.
