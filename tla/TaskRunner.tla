----------------------------- MODULE TaskRunner -----------------------------
(* Tasks that run in a target: the planner chooses the persistent interpreter *)
(* or a child forked from a clean one, the runner patches the process for the *)
(* module, runs it there and takes its patches back, so that the next task    *)
(* finds the interpreter as it was.                                           *)
EXTENDS Naturals, Sequences, FiniteSets

CONSTANTS MaxTasks, MaxFailures
ASSUME TaskAssumption == MaxTasks \in Nat /\ MaxFailures \in Nat

\* What a task replaces in its process; the value of each is the task it belongs to, 0 the original.
Patched == {"environ", "stdio", "argv", "mkstemp", "excepthook", "atexit"}
Clean == [x \in Patched |-> 0]
Processes == {"main", "child"}
VARIABLES
  task,      \* the number of the task, 0 before the first
  plan,      \* its kind, whether it is asynchronous, must be isolated or brings module_utils
  place,     \* the process it runs in
  phase,     \* "idle", "sending", "setup", "running", "callbacks" or "done"
  steps,     \* what is left of setup()
  globals,   \* the patches in each process
  saved,     \* what setup() found
  utils,     \* the task whose own module_utils are in sys.modules of each process, or 0
  files,     \* temporary directories and descriptors left open, as <<task, what>>
  deferred,  \* AtExitWrapper.deferred: tasks whose rmtree() waits
  children,  \* isolated children that run: tasks
  failures,  \* failed steps so far
  broken     \* tasks whose set-up failed
tkVars == <<task, plan, place, phase, steps, globals, saved, utils, files, deferred, children, failures, broken>>

Plans == [kind : {"newstyle", "argsfile"}, async : BOOLEAN, forced : BOOLEAN, custom : BOOLEAN]
\* mutation: a class and its base both replace the environment.
SetupTwice(kind) == <<"cwd", "environ", "program", "environ">>
SetupOf(kind) == IF kind = "newstyle"
                 THEN <<"cwd", "environ", "program", "stdio", "argv", "mkstemp", "imports", "excepthook", "atexit">>
                 ELSE <<"cwd", "environ", "program", "args">>
MayFail == {"cwd", "program", "imports", "args"}

TaskInit ==
  /\ task = 0 /\ plan = [kind |-> "argsfile", async |-> FALSE, forced |-> FALSE, custom |-> FALSE]
  /\ place = "main" /\ phase = "idle" /\ steps = << >>
  /\ globals = [p \in Processes |-> Clean] /\ saved = Clean /\ utils = [p \in Processes |-> 0]
  /\ files = {} /\ deferred = {} /\ children = {} /\ failures = 0 /\ broken = {}

-----------------------------------------------------------------------------
\* Planner.should_fork() and NewStylePlanner.should_fork(); a child always takes asynchronous tasks.
\* mutation: a module with module_utils of its own may run in the persistent interpreter.
ForkUnlessPlain(q) == q.async \/ (q.kind = "newstyle" /\ q.forced)
ShouldFork(q) == q.async \/ (q.kind = "newstyle" /\ (q.forced \/ q.custom))

\* invoke(): an isolated task gets a new child of the interpreter that ran nothing.
Invoke(q) ==
  /\ phase = "idle" /\ task < MaxTasks /\ (q.custom => q.kind = "newstyle")
  /\ task' = task + 1 /\ plan' = q /\ phase' = "sending" /\ steps' = SetupOf(q.kind)
  /\ IF ShouldFork(q)
     THEN /\ place' = "child" /\ children' = children \union {task + 1}
          /\ globals' = [globals EXCEPT !["child"] = Clean] /\ utils' = [utils EXCEPT !["child"] = 0]
     ELSE place' = "main" /\ UNCHANGED <<children, globals, utils>>
  /\ UNCHANGED <<saved, files, deferred, failures, broken>>
\* _propagate_deps(): outside the try that shuts an isolated child down.
Propagate ==
  /\ phase = "sending"
  /\ \/ phase' = "setup" /\ UNCHANGED <<failures, broken>>
     \/ /\ failures < MaxFailures /\ failures' = failures + 1
        /\ phase' = "idle" /\ broken' = broken \union {task}
  /\ UNCHANGED <<task, plan, place, steps, globals, saved, utils, files, deferred, children>>

\* Runner.setup() of the class and its bases, a step at a time: each saves what it replaces.
\* mutation: what is replaced already is left alone.
ReplacesOnce(x) == IF globals[place][x] = 0 THEN globals' = [globals EXCEPT ![place][x] = task] /\ UNCHANGED saved
                   ELSE UNCHANGED <<globals, saved>>
Replaces(x) ==
  /\ saved' = [saved EXCEPT ![x] = globals[place][x]]
  /\ globals' = [globals EXCEPT ![place][x] = task]
TempDirAt == IF plan.kind = "newstyle" THEN "stdio" ELSE "program"
SetupStep ==
  /\ phase = "setup" /\ steps # << >> /\ steps' = Tail(steps)
  /\ LET x == Head(steps) IN
     /\ x = "atexit" => globals[place]["atexit"] = 0            \* "AtExitWrapper installed twice."
     /\ IF x = "excepthook" THEN saved' = [saved EXCEPT ![x] = globals[place][x]] /\ UNCHANGED globals
        ELSE IF x \in Patched THEN Replaces(x) ELSE UNCHANGED <<saved, globals>>
     /\ utils' = IF x = "imports" /\ plan.custom THEN [utils EXCEPT ![place] = task] ELSE utils
     /\ files' = IF x = TempDirAt THEN files \union {<<task, "dir">>} ELSE files
  /\ UNCHANGED <<task, plan, place, phase, deferred, children, failures, broken>>

\* The end of a task in its process: a child is shut down by the planner, or ends by itself.
\* mutation: the child is not shut down.
LeavesChild == phase' = "idle" /\ UNCHANGED <<children, task, plan, place, steps, failures>>
Leaves == /\ phase' = "idle" /\ children' = children \ {task}
          /\ UNCHANGED <<task, plan, place, steps, failures>>
\* run() calls setup() outside its try: what was patched before the failure stays.
SetupFails ==
  /\ phase = "setup" /\ steps # << >> /\ Head(steps) \in MayFail
  /\ failures < MaxFailures /\ failures' = failures + 1 /\ broken' = broken \union {task}
  /\ phase' = "idle" /\ children' = children \ {task}
  /\ UNCHANGED <<task, plan, place, steps, globals, saved, utils, files, deferred>>
SetupDone ==
  /\ phase = "setup" /\ steps = << >> /\ phase' = "running"     \* after detach(), for an asynchronous task
  /\ UNCHANGED <<task, plan, place, steps, globals, saved, utils, files, deferred, children, failures, broken>>

-----------------------------------------------------------------------------
\* _run(): a new-style module runs in the process itself, and may leave behind whatever it likes.
ModuleLeaves(hooks, descriptor, cleanup) ==
  IF plan.kind = "newstyle"
  THEN /\ globals' = [globals EXCEPT ![place]["environ"] = task,
                                     ![place]["excepthook"] = IF hooks THEN task ELSE @]
       /\ files' = IF descriptor THEN files \union {<<task, "fd">>} ELSE files
       /\ deferred' = IF cleanup THEN deferred \union {task} ELSE deferred
  ELSE UNCHANGED <<globals, files, deferred>>
RunModule(hooks, descriptor, cleanup) ==
  /\ phase = "running" /\ phase' = "callbacks" /\ ModuleLeaves(hooks, descriptor, cleanup)
  /\ UNCHANGED <<task, plan, place, steps, saved, utils, children, failures, broken>>
\* run_callbacks() in a finally: also after SystemExit and after an exception.
\* mutation: the calls that were kept from atexit are forgotten.
KeepCallbacks ==
  /\ phase = "callbacks" /\ phase' = "done"
  /\ UNCHANGED <<task, plan, place, steps, globals, saved, utils, files, deferred, children, failures, broken>>
Callbacks ==
  /\ phase = "callbacks" /\ phase' = "done" /\ deferred' = {}
  /\ UNCHANGED <<task, plan, place, steps, globals, saved, utils, files, children, failures, broken>>

\* mutation: the environment is not put back.
RestoredBut(kind) == IF kind = "newstyle" THEN Patched \ {"environ"} ELSE {"environ"}
\* revert() of the class and its bases; what no step of this kind replaced is left alone.
Restored(kind) == {"environ"} \union (IF kind = "newstyle" THEN Patched ELSE {})
Reverted == [x \in Patched |-> IF x \in Restored(plan.kind) THEN saved[x] ELSE globals[place][x]]
\* mutation: descriptors of mkstemp() are not watched.
RevertKeepsDescriptors ==
  /\ phase = "done" /\ globals' = [globals EXCEPT ![place] = Reverted]
  /\ files' = files \ {<<task, "dir">>}
  /\ UNCHANGED <<saved, utils, deferred, broken>> /\ Leaves
Revert ==
  /\ phase = "done" /\ globals' = [globals EXCEPT ![place] = Reverted]
  /\ files' = files \ {<<task, "dir">>, <<task, "fd">>}
  /\ UNCHANGED <<saved, utils, deferred, broken>> /\ Leaves

TaskNext ==
  \/ \E q \in Plans : Invoke(q)
  \/ Propagate \/ SetupStep \/ SetupFails \/ SetupDone
  \/ \E hooks, descriptor, cleanup \in BOOLEAN : RunModule(hooks, descriptor, cleanup)
  \/ Callbacks \/ Revert
TaskSpec == TaskInit /\ [][TaskNext]_tkVars

-----------------------------------------------------------------------------
TaskTypeOK ==
  /\ task \in 0..MaxTasks /\ plan \in Plans /\ place \in Processes /\ broken \subseteq 1..task
  /\ phase \in {"idle", "sending", "setup", "running", "callbacks", "done"}
  /\ globals \in [Processes -> [Patched -> 0..task]] /\ utils \in [Processes -> 0..task]
  /\ \A x \in Patched : saved[x] = 0 \/ saved[x] < task        \* never its own patch

\* The persistent interpreter is as it was when no task runs: environment, standard files, hooks,
\* descriptors and directories; tasks whose set-up failed are the exception.
LeftBy(p) == {globals[p][x] : x \in Patched} \ {0}
CleanBetweenTasks ==
  phase = "idle" => /\ LeftBy("main") \subseteq broken /\ deferred = {}
                    /\ \A f \in files : f[1] \in broken
\* A module never meets the module_utils that another one brought under the same names: they stay
\* in sys.modules, so the tasks that bring some get a process of their own.
NoForeignUtils == phase \in {"running", "callbacks"} => utils[place] \in {0, task}
\* The output of a module that runs in the process is collected as its own, also after a task
\* left its patches behind.
OwnOutput ==
  phase \in {"running", "callbacks", "done"} /\ plan.kind = "newstyle" =>
     \A x \in {"stdio", "argv", "mkstemp", "atexit"} : globals[place][x] = task
\* No isolated child is left when its task is over, unless sending it the module failed.
ChildrenEnd == phase = "idle" => children \subseteq broken

\* What planner and runner promise a task: an interpreter as fresh as a process of its own would
\* be, its own output, and no child left over.
TasksSafe == TaskTypeOK /\ CleanBetweenTasks /\ NoForeignUtils /\ OwnOutput /\ ChildrenEnd
=============================================================================
