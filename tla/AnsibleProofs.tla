--------------------------- MODULE AnsibleProofs -----------------------------
(* Theorems about the processes of a run of Ansible: Affinity, TaskRunner,      *)
(* EnvFiles, Multiplexer and ConnectionPlugin, for any number of processors,    *)
(* workers, multiplexers, tasks and hosts.                                      *)
EXTENDS Affinity, TaskRunner, EnvFiles, Multiplexer, ConnectionPlugin,
        NaturalsInduction, FiniteSetTheorems, WellFoundedInduction, TLAPS

-----------------------------------------------------------------------------
(* Affinity: workers are spread evenly over the processors                      *)

AffinitySteps == {"new", "locked", "read", "wrote", "unlocked", "pinned", "dead"}
Tickets == 0..Wrap - 1
Holding(w) == step[w] \in {"locked", "read", "wrote"}

AffinityFields ==
  /\ sem \in Nat /\ holder \in Balanced \union {Nobody} /\ counter \in Tickets
  /\ step \in [Balanced -> AffinitySteps] /\ n \in [Balanced -> Tickets] /\ cpu \in [Balanced -> 0..Cpus - 1]
  /\ assigned \in Seq(Tickets)

\* Between lock and unlock a process has the counter for itself: the value it read is current,
\* and the value it will write is the number of the next ticket.
Exclusive ==
  /\ sem = IF holder = Nobody THEN 1 ELSE 0
  /\ \A w \in Balanced : Holding(w) => holder = w
  /\ \A w \in Balanced : step[w] = "read" => n[w] = counter
  /\ counter = Len(assigned) % Wrap

AffinityInv == AffinityFields /\ Exclusive /\ TicketsDistinct /\ OffReserved

LEMMA Remainder == \A k \in Nat, d \in Nat \ {0} : k % d \in 0..d - 1
  OBVIOUS

\* Quotient and remainder are unique.
LEMMA Unique ==
  ASSUME NEW d \in Nat \ {0}, NEW q \in Int, NEW p \in Int, NEW r \in 0..d - 1, NEW s \in 0..d - 1,
         d * q + r = d * p + s
  PROVE  r = s
<1>1. d * (q - p) = s - r
  OBVIOUS
<1>2. \A m \in Int : m >= 1 => d * m >= d
  OBVIOUS
<1>3. CASE q - p >= 1
  BY <1>1, <1>2, <1>3
<1>4. CASE p - q >= 1
  <2>1. d * (p - q) = r - s
    OBVIOUS
  <2> QED
    BY <2>1, <1>2, <1>4
<1>5. CASE q = p
  BY <1>5
<1> QED
  BY <1>3, <1>4, <1>5

\* Counting modulo d one at a time.
LEMMA Successor == \A k \in Nat, d \in Nat \ {0} : ((k % d) + 1) % d = (k + 1) % d
<1> SUFFICES ASSUME NEW k \in Nat, NEW d \in Nat \ {0} PROVE ((k % d) + 1) % d = (k + 1) % d
  OBVIOUS
<1> DEFINE r == (k % d) + 1
<1>1. k = d * (k \div d) + (k % d) /\ k \div d \in Int /\ k % d \in 0..d - 1
  OBVIOUS
<1>2. k + 1 = d * ((k + 1) \div d) + ((k + 1) % d) /\ (k + 1) \div d \in Int /\ (k + 1) % d \in 0..d - 1
  OBVIOUS
<1>3. r = d * (r \div d) + (r % d) /\ r \div d \in Int /\ r % d \in 0..d - 1
  BY <1>1
<1>4. d * ((k \div d) + (r \div d)) = d * (k \div d) + d * (r \div d) /\ (k \div d) + (r \div d) \in Int
  BY <1>1, <1>3
<1>5. d * ((k \div d) + (r \div d)) + (r % d) = d * ((k + 1) \div d) + ((k + 1) % d)
  BY <1>1, <1>2, <1>3, <1>4
<1> HIDE DEF r
<1>6. r % d = (k + 1) % d
  BY <1>2, <1>3, <1>4, <1>5, Unique
<1> QED
  BY <1>6 DEF r

LEMMA ReservedCount ==
  /\ Shift \in Nat /\ Shift < Cpus
  /\ \A c \in Shift..Cpus - 1 : c \notin Reserved
<1>1. Cardinality({}) = 0
  BY FS_EmptySet
<1>2. IsFiniteSet({0}) /\ Cardinality({0}) = 1
  BY FS_Singleton
<1>3. Cardinality({0} \union {1}) = Cardinality({0}) + 1
  BY <1>2, FS_AddElement
<1>4. {0, 1} = {0} \union {1}
  OBVIOUS
<1>5. CASE Cpus < 2
  <2>1. Reserved = {} /\ Shift = 0
    BY <1>1, <1>5 DEF Shift, Reserved
  <2> QED
    BY <2>1, AffinityAssumption
<1>6. CASE Cpus >= 2 /\ Cpus < 4
  <2>1. Reserved = {0}
    BY <1>6, AffinityAssumption DEF Reserved
  <2>2. Shift = 1
    BY <2>1, <1>2 DEF Shift
  <2> QED
    BY <2>1, <2>2, <1>6, AffinityAssumption
<1>7. CASE Cpus >= 4
  <2>1. Reserved = {0, 1}
    BY <1>7, AffinityAssumption DEF Reserved
  <2>2. Shift = 2
    BY <2>1, <1>2, <1>3, <1>4 DEF Shift
  <2> QED
    BY <2>1, <2>2, <1>7, AffinityAssumption
<1> QED
  BY <1>5, <1>6, <1>7, AffinityAssumption

LEMMA InitAffinity == AffinityInit => AffinityInv
<1> SUFFICES ASSUME AffinityInit PROVE AffinityInv
  OBVIOUS
<1>1. Len(assigned) = 0 /\ 0 % Wrap = 0 /\ assigned \in Seq(Tickets)
  BY AffinityAssumption DEF AffinityInit
<1> QED
  BY <1>1, AffinityAssumption
  DEF AffinityInit, AffinityInv, AffinityFields, Exclusive, TicketsDistinct, OffReserved, Holding, AffinitySteps, Tickets

\* A ticket is worth a processor that is not reserved.
LEMMA ChosenFree ==
  ASSUME NEW k \in Tickets
  PROVE  Chosen(k) % Cpus \in (0..Cpus - 1) \ Reserved
<1> DEFINE d == Cpus - Shift
<1>1. d \in Nat \ {0} /\ Shift \in Nat
  BY ReservedCount, AffinityAssumption
<1>2. k % d \in 0..d - 1
  BY <1>1, Remainder DEF Tickets
<1>3. Chosen(k) \in Shift..Cpus - 1 /\ Chosen(k) \in Nat
  BY <1>1, <1>2, AffinityAssumption DEF Chosen
<1>4. Chosen(k) % Cpus = Chosen(k)
  BY <1>1, <1>3, AffinityAssumption
<1> QED
  BY <1>3, <1>4, ReservedCount, <1>1

LEMMA NextAffinity == AffinityInv /\ [AffinityNext]_afVars => AffinityInv'
<1> SUFFICES ASSUME AffinityInv, [AffinityNext]_afVars PROVE AffinityInv'
  OBVIOUS
<1> USE DEF AffinityInv, AffinityFields, AffinitySteps, Holding
<1>1. ASSUME NEW w \in Balanced, Lock(w) PROVE AffinityInv'
  <2>1. sem = 1 /\ holder = Nobody
    BY <1>1 DEF Lock, Exclusive
  <2>2. \A u \in Balanced : ~Holding(u)
    BY <2>1, AffinityAssumption DEF Exclusive, Balanced, Nobody, Controller
  <2>3. AffinityFields' /\ holder' = w /\ sem' = 0
    BY <1>1, <2>1 DEF Lock, Becomes
  <2>4. w # Nobody
    BY AffinityAssumption DEF Balanced, Nobody, Controller
  <2> QED
    BY <1>1, <2>2, <2>3, <2>4 DEF Lock, Becomes, Exclusive, TicketsDistinct, OffReserved
<1>2. ASSUME NEW w \in Balanced, Read(w) PROVE AffinityInv'
  BY <1>2 DEF Read, Becomes, Exclusive, TicketsDistinct, OffReserved
<1>3. ASSUME NEW w \in Balanced, Write(w) PROVE AffinityInv'
  <2>1. n[w] = counter /\ counter = Len(assigned) % Wrap /\ holder = w
    BY <1>3 DEF Write, Exclusive
  <2>0. Len(assigned) \in Nat
    OBVIOUS
  <2>2. counter' = (Len(assigned) + 1) % Wrap /\ counter' \in Tickets
    <3>1. counter' = ((Len(assigned) % Wrap) + 1) % Wrap
      BY <1>3, <2>1 DEF Write
    <3>2. counter' = (Len(assigned) + 1) % Wrap
      BY <3>1, <2>0, Successor, AffinityAssumption
    <3> QED
      BY <3>2, <2>0, Remainder, AffinityAssumption DEF Tickets
  <2>3. assigned' = Append(assigned, n[w])
    BY <1>3 DEF Write
  <2>4. assigned' \in Seq(Tickets) /\ Len(assigned') = Len(assigned) + 1
    BY <2>3
  <2>5. TicketsDistinct'
    BY <2>1, <2>3, <2>4 DEF TicketsDistinct
  <2>6. AffinityFields'
    BY <1>3, <2>2, <2>4 DEF Write, Becomes
  <2>7. \A u \in Balanced : step'[u] # "read"
    BY <1>3, <2>1 DEF Write, Becomes, Exclusive
  <2>8. Exclusive'
    BY <1>3, <2>2, <2>4, <2>7 DEF Write, Becomes, Exclusive
  <2> QED
    BY <1>3, <2>5, <2>6, <2>8 DEF Write, Becomes, OffReserved
<1>4. ASSUME NEW w \in Balanced, Unlock(w) PROVE AffinityInv'
  <2>1. holder = w /\ w # Nobody /\ sem = 0
    BY <1>4, AffinityAssumption DEF Unlock, Exclusive, Balanced, Nobody, Controller
  <2> QED
    BY <1>4, <2>1 DEF Unlock, Becomes, Exclusive, TicketsDistinct, OffReserved
<1>5. ASSUME NEW w \in Balanced, Pin(w) PROVE AffinityInv'
  <2>1. Chosen(n[w]) % Cpus \in (0..Cpus - 1) \ Reserved
    BY ChosenFree
  <2> QED
    BY <1>5, <2>1 DEF Pin, Becomes, Exclusive, TicketsDistinct, OffReserved
<1>6. ASSUME NEW w \in Balanced, Dies(w) PROVE AffinityInv'
  BY <1>6 DEF Dies, Becomes, Exclusive, TicketsDistinct, OffReserved
<1>7. CASE UNCHANGED afVars
  BY <1>7 DEF afVars, Exclusive, TicketsDistinct, OffReserved
<1> QED
  BY <1>1, <1>2, <1>3, <1>4, <1>5, <1>6, <1>7 DEF AffinityNext

\* Whatever the number of processors, of processes and the width of the counter, and wherever
\* workers die: the k-th ticket that _balance() hands out is k modulo the width, and no process is
\* pinned to a processor reserved for the multiplexer or the top level.
THEOREM AffinityCorrect == AffinitySpec => []AffinitySafe
<1>1. AffinityInv => AffinitySafe
  <2> SUFFICES ASSUME AffinityInv PROVE AffinityTypeOK
    BY DEF AffinityInv, AffinitySafe
  <2>1. sem \in 0..1
    BY DEF AffinityInv, Exclusive
  <2>2. \A w \in Balanced : cpu[w] \in 0..Cpus - 1 /\ n[w] \in Tickets
    BY DEF AffinityInv, AffinityFields
  <2>3. counter \in Tickets
    BY DEF AffinityInv, AffinityFields
  <2> QED
    BY <2>1, <2>2, <2>3 DEF AffinityTypeOK, Tickets
<1> QED
  BY <1>1, InitAffinity, NextAffinity, PTL DEF AffinitySpec

-----------------------------------------------------------------------------
(* TaskRunner: a task leaves the interpreter as it found it                     *)

StepNames == Patched \union {"cwd", "program", "imports", "args"}
\* What a task reads and writes for itself.
Output == {"stdio", "argv", "mkstemp", "atexit"}
\* The steps of setup() that are still to come.
Pending == {steps[i] : i \in DOMAIN steps}
Busy == phase # "idle"
\* What a task may find in an interpreter: the original, or what a task whose set-up failed left.
Old == {0} \union broken

\* A set-up has as much to replace as a revert() undoes, and is through when the module runs.
StepsInv ==
  /\ steps \in Seq(StepNames)
  /\ \A i, j \in DOMAIN steps : steps[i] = steps[j] => i = j
  /\ Busy => Pending \intersect Patched \subseteq Restored(plan.kind)
  /\ phase = "sending" => Restored(plan.kind) \subseteq Pending
  /\ phase \in {"running", "callbacks", "done"} => steps = << >>

\* Only what runs in a child may bring module_utils of its own.
PlanInv ==
  Busy => /\ task # 0 /\ task \notin broken
          /\ plan.custom => plan.kind = "newstyle" /\ place = "child"

\* What a step has still to replace is old, what was replaced is saved, and is old where it is saved.
PatchInv(x) ==
  /\ x \in Pending \/ x \notin Restored(plan.kind) => globals[place][x] \in Old
  /\ x \notin Pending /\ x \in Restored(plan.kind) => saved[x] \in Old
  /\ globals[place][x] \in Old \union {task}
  /\ plan.kind = "newstyle" /\ x \in Output /\ x \notin Pending => globals[place][x] = task

PatchesInv ==
  /\ Busy => \A x \in Patched : PatchInv(x)
  /\ ~(Busy /\ place = "main") => \A x \in Patched : globals["main"][x] \in Old

\* Only a child imports the module_utils of a role.
UtilsInv == utils["main"] = 0 /\ (Busy /\ place = "child" => utils["child"] \in {0, task})

\* Files, deferred deletions and children are of the task that runs, or of one that could not be set up.
LitterInv ==
  /\ \A f \in files : f \in Nat \X {"dir", "fd"} /\ (f[1] \in broken \/ (Busy /\ f[1] = task))
  /\ deferred \subseteq IF phase = "callbacks" THEN {task} ELSE {}
  /\ children \subseteq broken \union IF Busy THEN {task} ELSE {}

TaskInv == TaskTypeOK /\ saved \in [Patched -> Nat] /\ StepsInv /\ PlanInv /\ PatchesInv /\ UtilsInv /\ LitterInv
-----------------------------------------------------------------------------
(* The steps of setup() *)

\* What setup() replaces, revert() puts back, each once.
LEMMA SetupSteps ==
  ASSUME NEW q \in Plans
  PROVE  /\ SetupOf(q.kind) \in Seq(StepNames)
         /\ \A i, j \in DOMAIN SetupOf(q.kind) : SetupOf(q.kind)[i] = SetupOf(q.kind)[j] => i = j
         /\ {SetupOf(q.kind)[i] : i \in DOMAIN SetupOf(q.kind)} \intersect Patched \subseteq Restored(q.kind)
         /\ Restored(q.kind) \subseteq {SetupOf(q.kind)[i] : i \in DOMAIN SetupOf(q.kind)}
<1> DEFINE s == SetupOf(q.kind)
<1>1. CASE q.kind = "newstyle"
  <2>1. s = <<"cwd", "environ", "program", "stdio", "argv", "mkstemp", "imports", "excepthook", "atexit">>
    BY <1>1 DEF SetupOf
  <2>2. DOMAIN s = 1..9
    BY <2>1
  <2>3. /\ s[1] = "cwd" /\ s[2] = "environ" /\ s[3] = "program" /\ s[4] = "stdio" /\ s[5] = "argv"
        /\ s[6] = "mkstemp" /\ s[7] = "imports" /\ s[8] = "excepthook" /\ s[9] = "atexit"
    BY <2>1
  <2> HIDE DEF s
  <2>4. \A i \in 1..9 : i \in {1, 2, 3, 4, 5, 6, 7, 8, 9}
    OBVIOUS
  <2>5. s \in Seq(StepNames)
    BY <2>1 DEF StepNames, Patched
  <2>6. \A i, j \in DOMAIN s : s[i] = s[j] => i = j
    BY <2>2, <2>3, <2>4
  <2>7. Restored(q.kind) = Patched
    BY <1>1 DEF Restored, Patched
  <2>8. Patched \subseteq {s[i] : i \in DOMAIN s}
    BY <2>2, <2>3 DEF Patched
  <2> QED
    BY <2>5, <2>6, <2>7, <2>8 DEF s
<1>2. CASE q.kind # "newstyle"
  <2>1. s = <<"cwd", "environ", "program", "args">>
    BY <1>2 DEF SetupOf
  <2>2. DOMAIN s = 1..4
    BY <2>1
  <2>3. s[1] = "cwd" /\ s[2] = "environ" /\ s[3] = "program" /\ s[4] = "args"
    BY <2>1
  <2> HIDE DEF s
  <2>4. \A i \in 1..4 : i \in {1, 2, 3, 4}
    OBVIOUS
  <2>5. s \in Seq(StepNames)
    BY <2>1 DEF StepNames, Patched
  <2>6. \A i, j \in DOMAIN s : s[i] = s[j] => i = j
    BY <2>2, <2>3, <2>4
  <2>7. Restored(q.kind) = {"environ"}
    BY <1>2 DEF Restored
  <2>8. "environ" \in {s[i] : i \in DOMAIN s}
    BY <2>2, <2>3
  <2>9. {s[i] : i \in DOMAIN s} \intersect Patched \subseteq {"environ"}
    BY <2>2, <2>3, <2>4 DEF Patched
  <2> QED
    BY <2>5, <2>6, <2>7, <2>8, <2>9 DEF s
<1> QED
  BY <1>1, <1>2

\* The head of the steps is the only one that a step of setup() takes from them.
LEMMA OneTaken ==
  ASSUME NEW S, NEW s \in Seq(S), s # << >>, \A i, j \in DOMAIN s : s[i] = s[j] => i = j
  PROVE  /\ Tail(s) \in Seq(S)
         /\ \A i, j \in DOMAIN Tail(s) : Tail(s)[i] = Tail(s)[j] => i = j
         /\ {Tail(s)[i] : i \in DOMAIN Tail(s)} = {s[i] : i \in DOMAIN s} \ {Head(s)}
         /\ Head(s) \in {s[i] : i \in DOMAIN s} /\ Head(s) \in S
<1>1. /\ Tail(s) \in Seq(S) /\ Len(Tail(s)) = Len(s) - 1
      /\ \A i \in 1..Len(s) - 1 : Tail(s)[i] = s[i + 1]
      /\ DOMAIN s = 1..Len(s) /\ DOMAIN Tail(s) = 1..Len(s) - 1
      /\ Head(s) = s[1] /\ Len(s) >= 1 /\ Len(s) \in Nat /\ s[1] \in S
  OBVIOUS
<1>2. \A i, j \in DOMAIN Tail(s) : Tail(s)[i] = Tail(s)[j] => i = j
  <2> SUFFICES ASSUME NEW i \in DOMAIN Tail(s), NEW j \in DOMAIN Tail(s), Tail(s)[i] = Tail(s)[j] PROVE i = j
    OBVIOUS
  <2>1. i + 1 \in DOMAIN s /\ j + 1 \in DOMAIN s /\ s[i + 1] = s[j + 1]
    BY <1>1
  <2> QED
    BY <2>1, <1>1
<1>3. \A i \in DOMAIN Tail(s) : Tail(s)[i] \in {s[k] : k \in DOMAIN s} \ {Head(s)}
  <2> TAKE i \in DOMAIN Tail(s)
  <2>1. i + 1 \in DOMAIN s /\ i + 1 # 1 /\ Tail(s)[i] = s[i + 1] /\ 1 \in DOMAIN s
    BY <1>1
  <2> QED
    BY <2>1, <1>1
<1>4. \A k \in DOMAIN s : s[k] # Head(s) => s[k] \in {Tail(s)[i] : i \in DOMAIN Tail(s)}
  <2> SUFFICES ASSUME NEW k \in DOMAIN s, s[k] # Head(s) PROVE \E i \in DOMAIN Tail(s) : Tail(s)[i] = s[k]
    OBVIOUS
  <2>1. k - 1 \in DOMAIN Tail(s) /\ Tail(s)[k - 1] = s[k]
    BY <1>1
  <2> QED
    BY <2>1
<1> QED
  BY <1>1, <1>2, <1>3, <1>4
-----------------------------------------------------------------------------
(* The invariant of the tasks *)

LEMMA InitTasks == TaskInit => TaskInv
<1> SUFFICES ASSUME TaskInit PROVE TaskInv
  OBVIOUS
<1> USE DEF TaskInit
<1>1. ~Busy /\ Old = {0} /\ 0 \in 0..MaxTasks /\ 0..task = {0}
  BY TaskAssumption DEF Busy, Old
<1>2. TaskTypeOK
  BY <1>1 DEF TaskTypeOK, Plans, Processes, Clean
<1>3. saved \in [Patched -> Nat]
  BY DEF Clean
<1>4. StepsInv /\ PlanInv
  BY <1>1 DEF StepsInv, PlanInv
<1>5. PatchesInv
  BY <1>1 DEF PatchesInv, Processes, Clean
<1>6. UtilsInv /\ LitterInv
  BY <1>1 DEF UtilsInv, LitterInv, Processes
<1> QED
  BY <1>2, <1>3, <1>4, <1>5, <1>6 DEF TaskInv

LEMMA InvokeKeeps ==
  ASSUME TaskInv, NEW q \in Plans, Invoke(q)
  PROVE  TaskInv'
<1> USE DEF Invoke, TaskInv
<1>1. task \in Nat /\ task' = task + 1 /\ plan' = q /\ phase' = "sending" /\ Busy' /\ ~Busy /\ broken' = broken /\ Old' = Old
  BY DEF TaskTypeOK, Busy, Old
<1>2. TaskTypeOK'
  <2>1. globals' \in [Processes -> [Patched -> 0..task + 1]] /\ utils' \in [Processes -> 0..task + 1]
    BY <1>1 DEF TaskTypeOK, Processes, Clean
  <2>2. \A x \in Patched : saved'[x] = 0 \/ saved'[x] < task'
    BY <1>1 DEF TaskTypeOK
  <2>3. task' \in 0..MaxTasks /\ place' \in Processes /\ broken' \subseteq 1..task'
    BY <1>1, TaskAssumption DEF TaskTypeOK, Processes
  <2> QED
    BY <1>1, <2>1, <2>2, <2>3 DEF TaskTypeOK
<1>3. StepsInv'
  <2>1. steps' = SetupOf(q.kind) /\ phase' = "sending" /\ plan' = q
    OBVIOUS
  <2>2. Pending' = {SetupOf(q.kind)[i] : i \in DOMAIN SetupOf(q.kind)}
    BY <2>1 DEF Pending
  <2> QED
    BY <2>1, <2>2, SetupSteps DEF StepsInv
<1>4. PlanInv'
  <2>1. task + 1 \notin broken /\ task + 1 # 0
    BY <1>1 DEF TaskTypeOK
  <2>2. q.custom => q.kind = "newstyle" /\ place' = "child"
    BY DEF ShouldFork
  <2> QED
    BY <1>1, <2>1, <2>2 DEF PlanInv
<1>5. PatchesInv'
  <2>1. \A x \in Patched : globals'["main"][x] \in Old
    BY <1>1 DEF PatchesInv, TaskTypeOK, Processes
  <2>2. \A x \in Patched : globals'[place'][x] \in Old
    BY <2>1 DEF TaskTypeOK, Processes, Clean, Old
  <2>3. Restored(q.kind) \subseteq Pending'
    BY <1>1, <1>3 DEF StepsInv
  <2>4. q.kind = "newstyle" => Output \subseteq Restored(q.kind)
    BY DEF Restored, Output, Patched
  <2>5. \A x \in Patched : PatchInv(x)'
    BY <1>1, <2>2, <2>3, <2>4 DEF PatchInv
  <2> QED
    BY <1>1, <2>1, <2>5 DEF PatchesInv
<1>6. UtilsInv'
  BY <1>1 DEF UtilsInv, TaskTypeOK, Processes
<1>7. LitterInv'
  BY <1>1 DEF LitterInv
<1>8. (saved \in [Patched -> Nat])'
  OBVIOUS
<1> QED
  BY <1>2, <1>3, <1>4, <1>5, <1>6, <1>7, <1>8

\* A task that is over without revert() is broken: what it left is old.
LEMMA PropagateKeeps ==
  ASSUME TaskInv, Propagate
  PROVE  TaskInv'
<1> USE DEF Propagate, TaskInv
<1>1. CASE phase' = "setup" /\ broken' = broken
  <2>1. Busy /\ Busy' /\ Pending' = Pending /\ Old' = Old
    BY <1>1 DEF Busy, Pending, Old
  <2>2. \A x \in Patched : PatchInv(x)'
    BY <1>1, <2>1 DEF PatchInv, PatchesInv
  <2> QED
    BY <1>1, <2>1, <2>2 DEF TaskTypeOK, StepsInv, PlanInv, PatchesInv, UtilsInv, LitterInv, Plans, Processes
<1>2. CASE phase' = "idle" /\ broken' = broken \union {task}
  <2>1. Busy /\ ~Busy' /\ Old \subseteq Old' /\ task \in Old'
    BY <1>2 DEF Busy, Old
  <2>2. task \in 1..task
    BY <2>1 DEF PlanInv, TaskTypeOK
  <2>3. TaskTypeOK'
    BY <1>2, <2>2 DEF TaskTypeOK
  <2>4. StepsInv' /\ PlanInv'
    BY <1>2, <2>1 DEF StepsInv, PlanInv
  <2>5. \A x \in Patched : globals["main"][x] \in Old'
    BY <2>1 DEF PatchesInv, PatchInv
  <2>6. PatchesInv'
    BY <2>1, <2>5 DEF PatchesInv
  <2>7. UtilsInv' /\ LitterInv'
    BY <1>2, <2>1 DEF UtilsInv, LitterInv
  <2> QED
    BY <2>3, <2>4, <2>6, <2>7
<1> QED
  BY <1>1, <1>2

LEMMA SetupFailsKeeps ==
  ASSUME TaskInv, SetupFails
  PROVE  TaskInv'
<1> USE DEF SetupFails, TaskInv
<1>1. Busy /\ ~Busy' /\ Old \subseteq Old' /\ task \in Old'
  BY DEF Busy, Old
<1>2. task \in 1..task
  BY <1>1 DEF PlanInv, TaskTypeOK
<1>3. TaskTypeOK'
  BY <1>2 DEF TaskTypeOK
<1>4. StepsInv' /\ PlanInv'
  BY <1>1 DEF StepsInv, PlanInv
<1>5. \A x \in Patched : globals["main"][x] \in Old'
  BY <1>1 DEF PatchesInv, PatchInv
<1>6. PatchesInv'
  BY <1>1, <1>5 DEF PatchesInv
<1>7. UtilsInv' /\ LitterInv'
  BY <1>1 DEF UtilsInv, LitterInv
<1> QED
  BY <1>3, <1>4, <1>6, <1>7

LEMMA SetupDoneKeeps ==
  ASSUME TaskInv, SetupDone
  PROVE  TaskInv'
<1> USE DEF SetupDone, TaskInv
<1>1. Busy /\ Busy' /\ Pending' = Pending /\ Old' = Old
  BY DEF Busy, Pending, Old
<1>2. \A x \in Patched : PatchInv(x)'
  BY <1>1 DEF PatchInv, PatchesInv
<1> QED
  BY <1>1, <1>2 DEF TaskTypeOK, StepsInv, PlanInv, PatchesInv, UtilsInv, LitterInv

\* A step replaces what is old, so that what it saves is old.
LEMMA SetupStepKeeps ==
  ASSUME TaskInv, SetupStep
  PROVE  TaskInv'
<1> USE DEF SetupStep, TaskInv
<1> DEFINE y == Head(steps)
<1>1. Busy /\ Busy' /\ Old' = Old /\ task \in Nat \ {0} /\ place \in Processes /\ Old \subseteq 0..task - 1
  BY DEF Busy, Old, PlanInv, TaskTypeOK
<1>2. /\ steps' \in Seq(StepNames) /\ Pending' = Pending \ {y} /\ y \in Pending
      /\ \A i, j \in DOMAIN steps' : steps'[i] = steps'[j] => i = j
  <2>1. /\ steps \in Seq(StepNames) /\ steps # << >> /\ steps' = Tail(steps)
        /\ \A i, j \in DOMAIN steps : steps[i] = steps[j] => i = j
    BY DEF StepsInv
  <2>2. Pending' = {Tail(steps)[i] : i \in DOMAIN Tail(steps)}
    BY <2>1 DEF Pending
  <2>3. {Tail(steps)[i] : i \in DOMAIN Tail(steps)} = Pending \ {y} /\ y \in Pending
    BY <2>1, OneTaken DEF Pending
  <2>4. /\ Tail(steps) \in Seq(StepNames)
        /\ \A i, j \in DOMAIN Tail(steps) : Tail(steps)[i] = Tail(steps)[j] => i = j
    BY <2>1, OneTaken
  <2> QED
    BY <2>1, <2>2, <2>3, <2>4
<1>3. StepsInv'
  BY <1>2 DEF StepsInv, Busy
<1>4. y \in Patched => y \in Restored(plan.kind) /\ globals[place][y] \in Old
  BY <1>1, <1>2 DEF StepsInv, PatchesInv, PatchInv
<1>5. /\ globals' \in [Processes -> [Patched -> 0..task]] /\ saved' \in [Patched -> Nat]
      /\ \A x \in Patched : saved'[x] = 0 \/ saved'[x] < task
      /\ \A x \in Patched \ {y} : saved'[x] = saved[x] /\ globals'[place][x] = globals[place][x]
      /\ y \in Patched => saved'[y] = globals[place][y]
      /\ y \in Patched => globals'[place][y] \in {globals[place][y], task}
      /\ y \in Patched \ {"excepthook"} => globals'[place][y] = task
      /\ \A p \in Processes \ {place} : globals'[p] = globals[p]
  <2> globals \in [Processes -> [Patched -> 0..task]] /\ \A x \in Patched : saved[x] = 0 \/ saved[x] < task
    BY DEF TaskTypeOK
  <2>1. CASE y \notin Patched
    <3>1. UNCHANGED <<saved, globals>>
      BY <2>1 DEF Patched
    <3> QED
      BY <3>1, <2>1
  <2>2. CASE y = "excepthook"
    <3>1. y \in Patched /\ saved' = [saved EXCEPT ![y] = globals[place][y]] /\ globals' = globals
      BY <2>2 DEF Patched
    <3>2. globals[place][y] \in Nat /\ (globals[place][y] = 0 \/ globals[place][y] < task)
      BY <3>1, <1>1, <1>4
    <3> QED
      BY <3>1, <3>2, <2>2
  <2>3. CASE y \in Patched /\ y # "excepthook"
    <3>1. saved' = [saved EXCEPT ![y] = globals[place][y]] /\ globals' = [globals EXCEPT ![place][y] = task]
      BY <2>3 DEF Replaces
    <3>2. globals[place][y] \in Nat /\ (globals[place][y] = 0 \/ globals[place][y] < task)
      BY <2>3, <1>1, <1>4
    <3> QED
      BY <3>1, <3>2, <2>3, <1>1
  <2> QED
    BY <2>1, <2>2, <2>3
<1>6. \A x \in Patched : PatchInv(x)'
  <2> SUFFICES ASSUME NEW x \in Patched PROVE PatchInv(x)'
    OBVIOUS
  <2>1. PatchInv(x)
    BY <1>1 DEF PatchesInv
  <2>2. CASE x = y
    BY <1>1, <1>2, <1>4, <1>5, <2>1, <2>2 DEF PatchInv, Output
  <2>3. CASE x # y
    BY <1>1, <1>2, <1>5, <2>1, <2>3 DEF PatchInv
  <2> QED
    BY <2>2, <2>3
<1>7. PatchesInv'
  BY <1>1, <1>5, <1>6 DEF PatchesInv, Processes
<1>8. utils' \in [Processes -> 0..task] /\ UtilsInv'
  BY <1>1 DEF UtilsInv, TaskTypeOK, PlanInv, Processes
<1>9. TaskTypeOK'
  BY <1>1, <1>5, <1>8 DEF TaskTypeOK
<1>10. PlanInv'
  BY <1>1 DEF PlanInv, Busy
<1>11. LitterInv'
  BY <1>1 DEF LitterInv
<1> QED
  BY <1>3, <1>5, <1>7, <1>8, <1>9, <1>10, <1>11

LEMMA RunModuleKeeps ==
  ASSUME TaskInv, NEW hooks, NEW descriptor, NEW cleanup, RunModule(hooks, descriptor, cleanup)
  PROVE  TaskInv'
<1> USE DEF RunModule, TaskInv
<1>1. Busy /\ Busy' /\ Pending' = Pending /\ Pending = {} /\ Old' = Old /\ task \in 0..task /\ place \in Processes /\ task \in Nat
  BY DEF Busy, Pending, Old, StepsInv, TaskTypeOK
<1>2. CASE plan.kind # "newstyle"
  <2>1. UNCHANGED <<globals, files, deferred>>
    BY <1>2 DEF ModuleLeaves
  <2>2. \A x \in Patched : PatchInv(x)'
    BY <1>1, <2>1 DEF PatchInv, PatchesInv
  <2> QED
    BY <1>1, <2>1, <2>2 DEF TaskTypeOK, StepsInv, PlanInv, PatchesInv, UtilsInv, LitterInv
<1>3. CASE plan.kind = "newstyle"
  <2>1. /\ globals' \in [Processes -> [Patched -> 0..task]]
        /\ \A x \in Patched : globals'[place][x] \in {globals[place][x], task}
        /\ \A x \in Output : globals'[place][x] = globals[place][x]
        /\ \A p \in Processes \ {place} : globals'[p] = globals[p]
        /\ files' \subseteq files \union {<<task, "fd">>} /\ deferred' \subseteq deferred \union {task}
    BY <1>1, <1>3 DEF ModuleLeaves, TaskTypeOK, Patched, Output
  <2>2. Restored(plan.kind) = Patched
    BY <1>3 DEF Restored, Patched
  <2>3. \A x \in Patched : PatchInv(x)'
    BY <1>1, <2>1, <2>2 DEF PatchInv, PatchesInv
  <2>4. TaskTypeOK' /\ StepsInv' /\ PlanInv' /\ UtilsInv'
    BY <1>1, <2>1 DEF TaskTypeOK, StepsInv, PlanInv, UtilsInv
  <2>5. PatchesInv'
    BY <1>1, <2>1, <2>3 DEF PatchesInv, Processes
  <2>6. LitterInv'
    BY <1>1, <2>1 DEF LitterInv
  <2> QED
    BY <2>4, <2>5, <2>6
<1> QED
  BY <1>2, <1>3

LEMMA CallbacksKeeps ==
  ASSUME TaskInv, Callbacks
  PROVE  TaskInv'
<1> USE DEF Callbacks, TaskInv
<1>1. Busy /\ Busy' /\ Pending' = Pending /\ Old' = Old
  BY DEF Busy, Pending, Old
<1>2. \A x \in Patched : PatchInv(x)'
  BY <1>1 DEF PatchInv, PatchesInv
<1> QED
  BY <1>1, <1>2 DEF TaskTypeOK, StepsInv, PlanInv, PatchesInv, UtilsInv, LitterInv

LEMMA RevertKeeps ==
  ASSUME TaskInv, Revert
  PROVE  TaskInv'
<1> USE DEF Revert, Leaves, TaskInv
<1>1. /\ Busy /\ ~Busy' /\ Pending = {} /\ Old' = Old /\ task \in 0..task /\ place \in Processes /\ task \in Nat
      /\ Old \subseteq 0..task
  BY DEF Busy, Pending, Old, StepsInv, TaskTypeOK
<1>2. \A x \in Patched : Reverted[x] \in Old
  BY <1>1 DEF Reverted, PatchesInv, PatchInv
<1>3. Reverted \in [Patched -> 0..task]
  BY <1>1, <1>2 DEF Reverted
<1>4. globals' \in [Processes -> [Patched -> 0..task]] /\ globals'[place] = Reverted
  BY <1>1, <1>3 DEF TaskTypeOK
<1>5. \A x \in Patched : globals'["main"][x] \in Old
  BY <1>1, <1>2, <1>4 DEF PatchesInv, Processes, TaskTypeOK
<1>6. TaskTypeOK' /\ StepsInv' /\ PlanInv' /\ UtilsInv' /\ PatchesInv'
  BY <1>1, <1>4, <1>5 DEF TaskTypeOK, StepsInv, PlanInv, UtilsInv, PatchesInv
<1>7. LitterInv'
  BY <1>1 DEF LitterInv
<1> QED
  BY <1>6, <1>7

\* Every step of a task keeps the interpreter clean for the next.
LEMMA TaskStep == TaskInv /\ [TaskNext]_tkVars => TaskInv'
<1> SUFFICES ASSUME TaskInv, [TaskNext]_tkVars PROVE TaskInv'
  OBVIOUS
<1>1. CASE UNCHANGED tkVars
  <2>1. Busy' = Busy /\ Pending' = Pending /\ Old' = Old
    BY <1>1 DEF tkVars, Busy, Pending, Old
  <2>2. \A x \in Patched : PatchInv(x)' <=> PatchInv(x)
    BY <1>1, <2>1 DEF tkVars, PatchInv
  <2>3. StepsInv' /\ PlanInv'
    BY <1>1, <2>1 DEF tkVars, TaskInv, StepsInv, PlanInv
  <2>4. PatchesInv' /\ UtilsInv' /\ LitterInv'
    BY <1>1, <2>1, <2>2 DEF tkVars, TaskInv, PatchesInv, UtilsInv, LitterInv
  <2>5. TaskTypeOK'
    BY <1>1 DEF tkVars, TaskInv, TaskTypeOK
  <2> QED
    BY <1>1, <2>3, <2>4, <2>5 DEF tkVars, TaskInv
<1> QED
  BY <1>1, InvokeKeeps, PropagateKeeps, SetupStepKeeps, SetupFailsKeeps, SetupDoneKeeps, RunModuleKeeps,
     CallbacksKeeps, RevertKeeps DEF TaskNext

LEMMA TasksKept == TaskInv => TasksSafe
<1> SUFFICES ASSUME TaskInv PROVE TasksSafe
  OBVIOUS
<1> USE DEF TaskInv
<1>1. CleanBetweenTasks
  BY DEF CleanBetweenTasks, LeftBy, PatchesInv, LitterInv, Busy, Old
<1>2. NoForeignUtils
  BY DEF NoForeignUtils, UtilsInv, Busy, TaskTypeOK, Processes
<1>3. OwnOutput
  BY DEF OwnOutput, PatchesInv, PatchInv, Busy, StepsInv, Pending, Output, Patched
<1>4. ChildrenEnd
  BY DEF ChildrenEnd, LitterInv, Busy
<1> QED
  BY <1>1, <1>2, <1>3, <1>4 DEF TasksSafe

\* What a module changes in the interpreter that runs it - environment, standard files, arguments,
\* hooks, temporary files, children - is undone when the next one comes, unless a set-up failed, and
\* it meets no module_utils of another: for any number of tasks and any mix of plans.
THEOREM TasksCorrect == TaskSpec => []TasksSafe
  BY InitTasks, TaskStep, TasksKept, PTL DEF TaskSpec

-----------------------------------------------------------------------------
(* EnvFiles: the environment follows the files                                  *)

\* A key is of a file only if the file's watcher knows it, and what it knows is never inherited.
EnvOwned ==
  \A k \in EnvKeys : \A f \in Watched :
    /\ source[k] = f => k \in fileKeys[f]
    /\ k \in fileKeys[f] => source[k] # "inherited" /\ k \in named[f]
\* A file that has been looked at since its last edit is followed.
EnvFollowed ==
  \A f \in Watched \ stale :
    /\ fileKeys[f] \subseteq content[f]
    /\ \A k \in content[f] \ bothNamed : source[k] # "none"
EnvInv ==
  /\ content \in [Watched -> SUBSET EnvKeys] /\ fileKeys \in [Watched -> SUBSET EnvKeys]
  /\ named \in [Watched -> SUBSET EnvKeys] /\ \A f \in Watched : content[f] \subseteq named[f]
  /\ bothNamed = named[Pam] \intersect named[Etc]
  /\ source \in [EnvKeys -> {"none", "inherited", "pam", "etc"}]
  /\ EnvOwned /\ EnvFollowed

LEMMA InitEnv == EnvFilesInit => EnvInv
<1> SUFFICES ASSUME EnvFilesInit PROVE EnvInv
  OBVIOUS
<1> USE DEF EnvFilesInit, Watched, Pam, Etc
<1>1. \A f \in Watched : fileKeys[f] \subseteq {k \in content[f] : source[k] \in Watched}
  OBVIOUS
<1>2. \A k \in EnvKeys : \A f \in Watched : source[k] = f => k \in fileKeys[f]
  OBVIOUS
<1>3. EnvOwned
  BY <1>1, <1>2 DEF EnvOwned
<1>4. EnvFollowed
  BY <1>1 DEF EnvFollowed
<1> QED
  BY <1>3, <1>4 DEF EnvInv

\* Whoever looks at a file leaves alone what the process inherited.
LEMMA InheritedStays == EnvInv /\ [EnvFilesNext]_efVars => \A k \in EnvKeys : source[k] = "inherited" => source'[k] = "inherited"
<1> SUFFICES ASSUME EnvInv, [EnvFilesNext]_efVars, NEW k \in EnvKeys, source[k] = "inherited"
             PROVE  source'[k] = "inherited"
  OBVIOUS
<1>1. ASSUME NEW f \in Watched, Check(f) PROVE source'[k] = "inherited"
  <2>1. Without(f)[k] = "inherited"
    BY DEF EnvInv, EnvOwned, Without
  <2> QED
    BY <1>1, <2>1 DEF Check, With
<1> QED
  BY <1>1 DEF EnvFilesNext, efVars, Edit, TaskOver

LEMMA EditKeeps ==
  ASSUME EnvInv, NEW f \in Watched, NEW keys \in SUBSET EnvKeys, Edit(f, keys)
  PROVE  EnvInv'
<1> USE DEF EnvInv, Edit
<1>1. /\ content' \in [Watched -> SUBSET EnvKeys] /\ named' \in [Watched -> SUBSET EnvKeys]
      /\ \A g \in Watched : content'[g] \subseteq named'[g] /\ named[g] \subseteq named'[g]
  OBVIOUS
<1>2. bothNamed \subseteq bothNamed'
  BY <1>1 DEF Watched
<1>3. EnvOwned'
  BY <1>1 DEF EnvOwned
<1>4. EnvFollowed'
  BY <1>2 DEF EnvFollowed
<1> QED
  BY <1>1, <1>3, <1>4

LEMMA CheckKeeps ==
  ASSUME EnvInv, NEW f \in Watched, Check(f)
  PROVE  EnvInv'
<1> USE DEF EnvInv, Check
<1>1. CASE f \notin stale
  BY <1>1 DEF EnvOwned, EnvFollowed
<1>2. CASE f \in stale
  <2>1. /\ \A k \in EnvKeys : source'[k] = IF k \in With(f) THEN f ELSE IF k \in fileKeys[f] THEN "none" ELSE source[k]
        /\ With(f) \subseteq content[f] /\ content[f] \subseteq EnvKeys
        /\ \A k \in content[f] : k \in With(f) <=> (k \in fileKeys[f] \/ source[k] = "none")
    BY <1>2 DEF With, Without
  <2>2. fileKeys' = [fileKeys EXCEPT ![f] = With(f)] /\ fileKeys' \in [Watched -> SUBSET EnvKeys]
    BY <1>2, <2>1
  <2>3. source' \in [EnvKeys -> {"none", "inherited", "pam", "etc"}]
    <3>1. \A k \in EnvKeys : source'[k] \in {"none", "inherited", "pam", "etc"}
      BY <2>1 DEF Watched, Pam, Etc
    <3>2. source' = [k \in EnvKeys |-> source'[k]]
      BY <1>2
    <3> QED
      BY <3>1, <3>2
  <2>4. EnvOwned'
    <3> SUFFICES ASSUME NEW k \in EnvKeys, NEW g \in Watched
                 PROVE  /\ source'[k] = g => k \in fileKeys'[g]
                        /\ k \in fileKeys'[g] => source'[k] # "inherited" /\ k \in named'[g]
      BY DEF EnvOwned
    <3>1. g # "none" /\ g # "inherited" /\ f # "none" /\ f # "inherited" /\ named' = named
      BY DEF Watched, Pam, Etc
    <3>2. CASE g = f
      BY <2>1, <2>2, <3>1, <3>2 DEF EnvOwned
    <3>3. CASE g # f
      BY <2>1, <2>2, <3>1, <3>3 DEF EnvOwned
    <3> QED
      BY <3>2, <3>3
  <2>5. EnvFollowed'
    <3> SUFFICES ASSUME NEW g \in Watched \ stale'
                 PROVE  /\ fileKeys'[g] \subseteq content[g]
                        /\ \A k \in content[g] \ bothNamed : source'[k] # "none"
      BY DEF EnvFollowed
    <3>1. f # "none"
      BY DEF Watched, Pam, Etc
    <3>2. CASE g = f
      BY <2>1, <2>2, <3>1, <3>2
    <3>3. CASE g # f
      <4>1. fileKeys'[g] = fileKeys[g] /\ g \notin stale
        BY <2>2, <3>3
      <4>2. ASSUME NEW k \in content[g] \ bothNamed PROVE k \in EnvKeys /\ k \notin fileKeys[f] /\ source[k] # "none"
        <5>1. k \in named[g] /\ k \in EnvKeys /\ source[k] # "none"
          BY <4>1 DEF EnvFollowed
        <5>2. k \notin named[f]
          BY <5>1, <3>3 DEF Watched, Pam, Etc
        <5> QED
          BY <5>1, <5>2 DEF EnvOwned
      <4> QED
        BY <4>1, <4>2, <2>1, <3>1 DEF EnvFollowed
    <3> QED
      BY <3>2, <3>3
  <2> QED
    BY <2>2, <2>3, <2>4, <2>5
<1> QED
  BY <1>1, <1>2

\* An edit, and a look at a file, keep both.
LEMMA EnvStep == EnvInv /\ [EnvFilesNext]_efVars => EnvInv'
<1> SUFFICES ASSUME EnvInv, [EnvFilesNext]_efVars PROVE EnvInv'
  OBVIOUS
<1>1. CASE TaskOver \/ UNCHANGED efVars
  BY <1>1 DEF TaskOver, efVars, EnvInv, EnvOwned, EnvFollowed
<1> QED
  BY <1>1, EditKeeps, CheckKeeps DEF EnvFilesNext

LEMMA EnvKept == EnvInv => NoRemnants /\ EditsReflected
  BY DEF EnvInv, EnvOwned, EnvFollowed, NoRemnants, EditsReflected, UpToDate, Watched, Pam, Etc

\* Once both files were looked at, a task sees no key that no file names any more and, where only one
\* file ever names it, every key a file names; what it inherited stays: over any number of edits.
THEOREM EnvFilesCorrect == EnvFilesSpec => EnvFilesSafe
<1>1. EnvFilesSpec => []EnvInv
  BY InitEnv, EnvStep, PTL DEF EnvFilesSpec
<1>2. EnvInv /\ [EnvFilesNext]_efVars => [\A k \in EnvKeys : source[k] = "inherited" => source'[k] = "inherited"]_efVars
  BY InheritedStays
<1> QED
  BY <1>1, <1>2, EnvKept, PTL DEF EnvFilesSpec, EnvFilesSafe, InheritedKept

-----------------------------------------------------------------------------
(* Multiplexer: workers start when every multiplexer is ready                   *)

Ended == {"draining", "gone", "killed"}
\* A multiplexer is ready once its socket accepts connections.
Ready(m) == mux[m] \in {"serving", "stopping", "exited", "killed"}

\* The top level is told by one multiplexer at a time, and forks workers once all are ready.
StartInv ==
  /\ \A m \in MuxIds : mux[m] = "none" <=> m > started
  /\ bytes > 0 => top = "starting" /\ \A m \in 1..started : Ready(m)
  /\ \A m \in 1..started - 1 : Ready(m)
  /\ top # "starting" => started = MuxCount /\ \A m \in MuxIds : Ready(m)
  /\ top = "starting" => \A w \in Workers : worker[w] = "none"
\* Multiplexers leave when the run is over, and take their sockets along unless killed.
EndInv ==
  /\ (shut \/ \E m \in MuxIds : mux[m] \in {"stopping", "exited"}) => top \in Ended
  /\ top = "gone" => \A m \in MuxIds : Gone(m)
  /\ \A m \in MuxIds : /\ mux[m] \in {"listening", "serving", "stopping"} => bound[m]
                       /\ bound[m] => mux[m] # "exited"
                       /\ mux[m] = "killed" => bound[m]
MuxInv ==
  /\ MultiplexerTypeOK /\ queue \in [MuxIds -> SUBSET Workers] /\ bound \in [MuxIds -> BOOLEAN] /\ shut \in BOOLEAN
  /\ StartInv /\ EndInv /\ RefusedOnlyAtEnd

LEMMA InitMuxes == MultiplexerInit => MuxInv
<1> SUFFICES ASSUME MultiplexerInit PROVE MuxInv
  OBVIOUS
<1> USE DEF MultiplexerInit
<1>1. queue \in [MuxIds -> SUBSET Workers] /\ \A m \in MuxIds : queue[m] \subseteq Workers
  OBVIOUS
<1>2. bound \in [MuxIds -> BOOLEAN] /\ shut \in BOOLEAN
  BY Zenon
<1>3. MultiplexerTypeOK
  <2>1. MuxCount \in Nat
    BY MuxAssumption
  <2>2. mux \in [MuxIds -> {"none"}] /\ worker \in [Workers -> {"none"}]
    OBVIOUS
  <2> QED
    BY <1>1, <2>1, <2>2 DEF MultiplexerTypeOK
<1>4. StartInv
  <2>1. \A m \in MuxIds : mux[m] = "none" /\ m > started
    BY MuxAssumption DEF MuxIds
  <2>2. 1..started = {} /\ 1..started - 1 = {}
    OBVIOUS
  <2> QED
    BY <2>1, <2>2 DEF StartInv
<1>5. EndInv /\ RefusedOnlyAtEnd
  BY DEF EndInv, RefusedOnlyAtEnd
<1> QED
  BY <1>1, <1>2, <1>3, <1>4, <1>5 DEF MuxInv

\* Multiplexers that are ready stay so.
LEMMA ReadyStays ==
  ASSUME StartInv, started \in 0..MuxCount, UNCHANGED <<top, started, bytes>>,
         \A i \in MuxIds : (mux'[i] = "none" <=> mux[i] = "none") /\ (Ready(i) => Ready(i)'),
         top = "starting" => worker' = worker
  PROVE  StartInv'
<1>1. 1..started \subseteq MuxIds /\ 1..started - 1 \subseteq MuxIds
  BY MuxAssumption DEF MuxIds
<1> QED
  BY <1>1 DEF StartInv

\* The steps of the top level.
LEMMA TopKeeps ==
  ASSUME MuxInv, StartMux \/ ReadByte \/ TopExits \/ TopReaps \/ TopKilled
  PROVE  MuxInv'
<1> USE MuxAssumption DEF MuxInv, MultiplexerTypeOK, MuxIds
<1>1. CASE StartMux
  <2> USE <1>1 DEF StartMux, MuxBecomes
  <2>1. started + 1 \in 1..MuxCount /\ started' \in 0..MuxCount
    OBVIOUS
  <2>2. StartInv'
    BY <2>1 DEF StartInv, Ready
  <2>3. EndInv'
    BY <2>1 DEF EndInv, StartInv, Ended, Gone
  <2>4. RefusedOnlyAtEnd'
    BY DEF StartInv, RefusedOnlyAtEnd
  <2> QED
    BY <2>1, <2>2, <2>3, <2>4
<1>2. CASE ReadByte
  <2> USE <1>2 DEF ReadByte
  <2>1. bytes' = 0 /\ top' \in {"starting", "running"} /\ top = "starting"
    OBVIOUS
  <2>2. StartInv'
    BY <2>1 DEF StartInv, Ready
  <2>3. EndInv' /\ RefusedOnlyAtEnd'
    BY <2>1 DEF EndInv, RefusedOnlyAtEnd, Ended, Gone
  <2> QED
    BY <2>1, <2>2, <2>3
<1>3. CASE TopExits \/ TopReaps \/ TopKilled
  <2> USE <1>3 DEF TopExits, TopReaps, TopKilled
  <2>1. StartInv'
    BY DEF StartInv, Ready
  <2>2. EndInv' /\ RefusedOnlyAtEnd'
    BY DEF EndInv, RefusedOnlyAtEnd, Ended, Gone
  <2> QED
    BY <2>1, <2>2
<1> QED
  BY <1>1, <1>2, <1>3

\* The steps of a multiplexer that leave the workers alone.
LEMMA ServingKeeps ==
  ASSUME MuxInv, NEW m \in MuxIds, ListenAt(m) \/ MuxSetupFails(m) \/ SayReady(m) \/ MuxWakes(m)
  PROVE  MuxInv'
<1> USE MuxAssumption DEF MuxInv, MultiplexerTypeOK, MuxIds
<1>0. m \in Nat /\ started \in Nat
  OBVIOUS
<1>1. CASE ListenAt(m) \/ MuxSetupFails(m)
  <2> USE <1>1 DEF ListenAt, MuxSetupFails, MuxBecomes, topSame
  <2>1. ~Ready(m) /\ mux[m] = "setup" /\ \A i \in MuxIds : i # m => mux'[i] = mux[i] /\ bound'[i] = bound[i]
    BY DEF Ready
  <2>2. StartInv'
    BY <2>1, ReadyStays DEF Ready
  <2>3. EndInv'
    BY <2>1 DEF EndInv, Ended, Gone
  <2>4. RefusedOnlyAtEnd'
    BY <2>1 DEF RefusedOnlyAtEnd
  <2> QED
    BY <2>2, <2>3, <2>4
<1>2. CASE SayReady(m)
  <2> USE <1>2 DEF SayReady, MuxBecomes
  <2>1. ~Ready(m) /\ mux[m] = "listening"
    BY DEF Ready
  <2>2. m <= started /\ bytes = 0 /\ top = "starting" /\ ~(m \in 1..started - 1)
    BY <1>0, <2>1 DEF StartInv
  <2>3. m = started
    BY <1>0, <2>2
  <2>4. \A i \in 1..started : Ready(i)'
    BY <2>3 DEF StartInv, Ready
  <2>5. StartInv'
    BY <2>2, <2>3, <2>4 DEF StartInv
  <2>6. EndInv'
    BY <2>1 DEF EndInv, Ended, Gone
  <2>7. RefusedOnlyAtEnd'
    BY <2>1 DEF RefusedOnlyAtEnd
  <2> QED
    BY <2>2, <2>5, <2>6, <2>7
<1>3. CASE MuxWakes(m)
  <2> USE <1>3 DEF MuxWakes, MuxBecomes, topSame
  <2>1. top \in Ended
    BY DEF EndInv, EndOfFile, Ended
  <2>2. StartInv'
    BY DEF StartInv, Ready
  <2>3. EndInv' /\ RefusedOnlyAtEnd'
    BY <2>1 DEF EndInv, RefusedOnlyAtEnd, Ended, Gone
  <2> QED
    BY <2>2, <2>3
<1> QED
  BY <1>1, <1>2, <1>3

\* A multiplexer ends, and with it the connections of its workers.
LEMMA EndingKeeps ==
  ASSUME MuxInv, NEW m \in MuxIds, MuxExits(m) \/ MuxKilled(m)
  PROVE  MuxInv'
<1> USE MuxAssumption DEF MuxInv, MultiplexerTypeOK, MuxExits, MuxKilled, MuxBecomes, topSame, RemovePath
<1>1. Ready(m) /\ mux[m] # "none"
  BY DEF Ready
<1>2. /\ mux' \in [MuxIds -> {"none", "setup", "stuck", "listening", "serving", "stopping", "exited", "killed"}]
      /\ \A i \in MuxIds : IF i = m THEN mux'[i] \in {"exited", "killed"} ELSE mux'[i] = mux[i]
  OBVIOUS
<1>3. mux'[m] = "exited" => top \in Ended
  BY DEF EndInv
<1>4. \A w \in Workers : worker'[w] # worker[w] => HomeOf[w] = m /\ worker[w] \in {"asked", "connected"} /\ worker'[w] \in {"raised", "lost"}
  BY DEF Cut
<1>5. worker' \in [Workers -> {"none", "forked", "asked", "connected", "refused", "raised", "lost", "exited"}]
  BY DEF Cut
<1>6. StartInv'
  <2>1. top = "starting" => worker' = worker
    <3>1. ASSUME top = "starting" PROVE \A w \in Workers : worker'[w] = worker[w]
      BY <1>4, <3>1 DEF StartInv
    <3> QED
      BY <3>1, <1>5
  <2>2. UNCHANGED <<top, started, bytes>>
    OBVIOUS
  <2>3. \A i \in MuxIds : (mux'[i] = "none" <=> mux[i] = "none") /\ (Ready(i) => Ready(i)')
    BY <1>1, <1>2 DEF Ready
  <2> QED
    BY <2>1, <2>2, <2>3, ReadyStays
<1>7. EndInv'
  BY <1>2, <1>3 DEF EndInv, Ended, Gone
<1>8. RefusedOnlyAtEnd'
  <2> SUFFICES ASSUME NEW w \in Workers, worker'[w] \in {"refused", "raised", "lost"}
               PROVE  mux'[HomeOf[w]] = "killed" \/ top' \in Ended
    BY DEF RefusedOnlyAtEnd, Ended
  <2>0. HomeOf[w] \in MuxIds
    BY DEF MuxIds
  <2>1. CASE HomeOf[w] = m
    BY <2>1, <1>2, <1>3 DEF Ended
  <2>2. CASE HomeOf[w] # m
    BY <2>0, <2>2, <1>2, <1>4 DEF RefusedOnlyAtEnd, Ended
  <2> QED
    BY <2>1, <2>2
<1>9. /\ queue' \in [MuxIds -> SUBSET Workers] /\ bound' \in [MuxIds -> BOOLEAN] /\ shut' \in BOOLEAN
      /\ UNCHANGED <<top, started, bytes>>
  OBVIOUS
<1> QED
  BY <1>2, <1>5, <1>6, <1>7, <1>8, <1>9

LEMMA WorkersKeep ==
  ASSUME MuxInv, NEW w \in Workers,
         ForkWorker(w) \/ Attach(w) \/ WorkerExits(w) \/ WorkerKilled(w) \/ \E m \in MuxIds : Accept(m, w)
  PROVE  MuxInv'
<1> USE MuxAssumption DEF MuxInv, MultiplexerTypeOK, WorkerBecomes, topSame, muxSame
<1>1. HomeOf[w] \in MuxIds
  BY DEF MuxIds
<1>2. UNCHANGED <<top, started, bytes, shut, mux, bound>>
  BY DEF ForkWorker, Attach, WorkerExits, WorkerKilled, Accept, ShutsForAny
<1>3. worker' \in [Workers -> {"none", "forked", "asked", "connected", "refused", "raised", "lost", "exited"}]
  BY DEF ForkWorker, Attach, WorkerExits, WorkerKilled, Accept
<1>4. queue' \in [MuxIds -> SUBSET Workers]
  BY <1>1 DEF ForkWorker, Attach, WorkerExits, WorkerKilled, Accept
<1>5. worker' = worker \/ top # "starting"
  <2>1. CASE ForkWorker(w)
    BY <2>1 DEF ForkWorker
  <2>2. CASE ~ForkWorker(w)
    <3>1. worker' = worker \/ worker[w] # "none"
      BY <2>2 DEF Attach, WorkerExits, WorkerKilled, Accept, Live
    <3> QED
      BY <3>1 DEF StartInv
  <2> QED
    BY <2>1, <2>2
<1>6. StartInv' /\ EndInv'
  BY <1>2, <1>5 DEF StartInv, EndInv, Ready, Ended, Gone
<1>7. RefusedOnlyAtEnd'
  <2> SUFFICES ASSUME NEW v \in Workers, worker'[v] \in {"refused", "raised", "lost"}, worker[v] # worker'[v]
               PROVE  mux[HomeOf[v]] = "killed" \/ top \in Ended
    BY <1>2 DEF RefusedOnlyAtEnd, Ended
  <2>1. v = w /\ Attach(w) /\ (~bound[HomeOf[w]] \/ Gone(HomeOf[w]))
    BY DEF ForkWorker, Attach, WorkerExits, WorkerKilled, Accept
  <2>2. Ready(HomeOf[w])
    BY <1>1, <1>5, <2>1 DEF StartInv
  <2> QED
    BY <1>1, <2>1, <2>2 DEF EndInv, Ready, Gone
<1> QED
  BY <1>2, <1>3, <1>4, <1>6, <1>7

LEMMA MuxStep == MuxInv /\ [MultiplexerNext]_muVars => MuxInv'
<1> SUFFICES ASSUME MuxInv, [MultiplexerNext]_muVars PROVE MuxInv'
  OBVIOUS
<1>1. CASE UNCHANGED muVars
  BY <1>1 DEF muVars, MuxInv, MultiplexerTypeOK, StartInv, EndInv, RefusedOnlyAtEnd, Ready, Gone
<1> QED
  BY <1>1, TopKeeps, ServingKeeps, EndingKeeps, WorkersKeep DEF MultiplexerNext, MuxSteps, WorkerSteps

LEMMA MuxKept == MuxInv => MultiplexerSafe
  BY DEF MuxInv, EndInv, MultiplexerSafe, OutliveWorkers, NothingLeftBehind, Ended, Gone

\* A worker is refused only by a multiplexer that was killed or when the run is over; multiplexers
\* outlive the workers, and the run leaves none behind, nor the socket of one that left in order: for
\* any number of multiplexers and workers.
THEOREM MultiplexerCorrect == MultiplexerSpec => []MultiplexerSafe
  BY InitMuxes, MuxStep, MuxKept, PTL DEF MultiplexerSpec

-----------------------------------------------------------------------------
(* ConnectionPlugin: an action holds what it uses                               *)

\* The ranges TLC checks on its instance.
PluginFields ==
  /\ via \in [Hosts -> Hosts \union {NoMux}] /\ gets \in 0..MaxGets
  /\ \A k \in Keys2 : held[k] <= gets

\* A context is held only from a request to the end of the action.
NoneBefore == stage \in {"idle", "bound", "resetting"} => context = "none"
\* A binding is to the multiplexer of the host, or to one that could not be reached.
BoundTo ==
  /\ parent \in {NoMux, path} /\ (broker => binding \/ refused)
  /\ stage = "bound" => path = MuxOf[host] /\ broker /\ ~Cyclic(host)

PluginInv == PluginTypeOK /\ PluginFields /\ NoneBefore /\ BoundTo /\ RefsBalance /\ HopsHeld /\ ParentMatches

-----------------------------------------------------------------------------
(* Chains of hosts *)

\* A chain of hosts that ends with one connected from the controller.
Rooted(c) == c \in Chains /\ via[c[Len(c)]] = NoMux
ViaOK == via \in [Hosts -> Hosts \union {NoMux}]

\* A chain follows `via` from host to host.
LEMMA ChainFields ==
  ASSUME NEW c \in Chains
  PROVE  /\ Len(c) \in Nat \ {0} /\ DOMAIN c = 1..Len(c) /\ \A i \in 1..Len(c) : c[i] \in Hosts
         /\ \A i \in 1..Len(c) - 1 : via[c[i]] = c[i + 1]
<1>1. PICK m \in 1..Cardinality(Hosts) : c \in [1..m -> Hosts]
  BY DEF Chains
<1>2. m \in Nat \ {0}
  BY <1>1
<1>3. Len(c) = m /\ DOMAIN c = 1..m
  BY <1>1, <1>2
<1> QED
  BY <1>1, <1>2, <1>3 DEF Chains

\* Two chains that meet go the same way to the end.
LEMMA ChainsMeet ==
  ASSUME ViaOK, NEW c, NEW d, Rooted(c), Rooted(d),
         NEW i \in 1..Len(c), NEW j \in 1..Len(d), c[i] = d[j]
  PROVE  \A k \in 0..Len(c) - i : j + k <= Len(d) /\ c[i + k] = d[j + k]
<1> DEFINE Bad == {k \in Nat : k <= Len(c) - i /\ ~(j + k <= Len(d) /\ c[i + k] = d[j + k])}
<1>1. /\ Len(c) \in Nat \ {0} /\ \A len \in 1..Len(c) : c[len] \in Hosts
      /\ \A len \in 1..Len(c) - 1 : via[c[len]] = c[len + 1]
      /\ Len(d) \in Nat \ {0} /\ \A len \in 1..Len(d) : d[len] \in Hosts
      /\ \A len \in 1..Len(d) - 1 : via[d[len]] = d[len + 1]
      /\ via[c[Len(c)]] = NoMux /\ via[d[Len(d)]] = NoMux
  BY ChainFields DEF Rooted
<1>2. ASSUME Bad # {} PROVE FALSE
  <2>1. PICK k \in Bad : \A m \in Bad : ~(<<m, k>> \in OpToRel(<, Nat))
    <3>1. IsWellFoundedOn(OpToRel(<, Nat), Nat)
      BY NatLessThanWellFounded
    <3>2. Bad \subseteq Nat
      OBVIOUS
    <3> HIDE DEF Bad
    <3> QED
      BY <3>1, <3>2, <1>2, WFMin
  <2>2. \A m \in Bad : ~(m < k)
    BY <2>1 DEF OpToRel
  <2> k \in Nat /\ k <= Len(c) - i /\ ~(j + k <= Len(d) /\ c[i + k] = d[j + k])
    OBVIOUS
  <2>3. k # 0
    BY <1>1
  <2>4. k - 1 \in Nat /\ k - 1 \notin Bad
    <3>1. k - 1 \in Nat /\ k - 1 < k
      BY <2>3
    <3> HIDE DEF Bad
    <3> QED
      BY <3>1, <2>2
  <2>5. j + (k - 1) <= Len(d) /\ c[i + (k - 1)] = d[j + (k - 1)]
    BY <2>4, <1>1
  <2>6. i + (k - 1) \in 1..Len(c) - 1
    BY <1>1, <2>3
  <2>7. via[c[i + (k - 1)]] = c[i + k] /\ c[i + k] \in Hosts
    BY <1>1, <2>6
  <2>8. j + (k - 1) # Len(d)
    BY <1>1, <2>5, <2>7, PluginAssumption
  <2> HIDE DEF Bad
  <2> Len(c) \in Nat /\ Len(d) \in Nat /\ i \in Nat /\ j \in Nat \ {0}
    BY <1>1
  <2> k - 1 \in Nat
    BY <2>4
  <2>9. j + (k - 1) \in 1..Len(d) - 1 /\ (j + (k - 1)) + 1 = j + k
    BY <2>5, <2>8
  <2>10. via[d[j + (k - 1)]] = d[j + k]
    BY <1>1, <2>9
  <2> QED
    BY <1>1, <2>5, <2>7, <2>9, <2>10
<1>3. ASSUME NEW k \in 0..Len(c) - i PROVE j + k <= Len(d) /\ c[i + k] = d[j + k]
  <2>1. k \in Nat /\ k <= Len(c) - i
    BY <1>1
  <2>2. k \notin Bad
    BY <1>2
  <2> QED
    BY <2>1, <2>2
<1> QED
  BY <1>3

\* What _build_stack() returns: from the first hop to the host itself.
LEMMA StackFields ==
  ASSUME ViaOK, NEW h \in Hosts, ~Cyclic(h)
  PROVE  \E c : /\ Rooted(c) /\ c[1] = h
                /\ Stack(h) = [i \in 1..Len(c) |-> c[Len(c) + 1 - i]]
<1> DEFINE whole == {c \in Chains : c[1] = h /\ via[c[Len(c)]] = NoMux}
<1>1. whole # {}
  BY DEF Cyclic, Stack
<1>2. PICK c \in whole : c = CHOOSE x \in whole : TRUE
  BY <1>1
<1>3. Stack(h) = [i \in 1..Len(c) |-> c[Len(c) + 1 - i]]
  BY <1>1, <1>2 DEF Stack
<1>4. c \in Chains /\ c[1] = h /\ via[c[Len(c)]] = NoMux
  BY <1>2
<1> QED
  BY <1>3, <1>4 DEF Rooted

\* A stack ends with its host and begins with one that is reached directly; its hops are distinct.
LEMMA StackIsSound ==
  ASSUME ViaOK, NEW h \in Hosts, ~Cyclic(h)
  PROVE  LET s == Stack(h) IN
         /\ s \in Seq(Hosts) /\ Len(s) >= 1 /\ s[Len(s)] = h /\ via[s[1]] = NoMux
         /\ \A i \in 1..Len(s) - 1 : via[s[i + 1]] = s[i]
         /\ \A i, j \in 1..Len(s) : s[i] = s[j] => i = j
<1>1. PICK c : /\ Rooted(c) /\ c[1] = h
               /\ Stack(h) = [i \in 1..Len(c) |-> c[Len(c) + 1 - i]]
  BY StackFields
<1> DEFINE L == Len(c)
           s == Stack(h)
<1>2. /\ L \in Nat \ {0} /\ \A i \in 1..L : c[i] \in Hosts
      /\ \A i \in 1..L - 1 : via[c[i]] = c[i + 1] /\ via[c[L]] = NoMux
      /\ via[c[L]] = NoMux
  BY <1>1, ChainFields DEF Rooted
<1>3. s = [i \in 1..L |-> c[L + 1 - i]] /\ c[1] = h
  BY <1>1
<1>4. \A i \in 1..L : L + 1 - i \in 1..L
  BY <1>2
<1>5. ASSUME NEW i \in 1..L, NEW j \in 1..L, c[i] = c[j] PROVE i = j
  <2>1. \A k \in 0..L - i : j + k <= L
    BY <1>1, <1>5, ChainsMeet
  <2>2. \A k \in 0..L - j : i + k <= L
    BY <1>1, <1>5, ChainsMeet
  <2>3. j + (L - i) <= L /\ i + (L - j) <= L
    <3>1. L - i \in 0..L - i /\ L - j \in 0..L - j
      BY <1>2
    <3> QED
      BY <3>1, <2>1, <2>2
  <2> QED
    BY <1>2, <2>3
<1> HIDE DEF L, s
<1>6. s \in Seq(Hosts) /\ Len(s) = L
  BY <1>2, <1>3, <1>4
<1>7. s[L] = h /\ via[s[1]] = NoMux
  BY <1>2, <1>3
<1>8. \A i \in 1..L - 1 : via[s[i + 1]] = s[i]
  <2> TAKE i \in 1..L - 1
  <2>1. L - i \in 1..L - 1 /\ s[i + 1] = c[L - i] /\ s[i] = c[L + 1 - i] /\ (L - i) + 1 = L + 1 - i
    BY <1>2, <1>3
  <2> QED
    BY <1>2, <2>1
<1>9. \A i, j \in 1..L : s[i] = s[j] => i = j
  <2> SUFFICES ASSUME NEW i \in 1..L, NEW j \in 1..L, s[i] = s[j] PROVE i = j
    OBVIOUS
  <2>1. c[L + 1 - i] = c[L + 1 - j]
    BY <1>3
  <2>2. L + 1 - i = L + 1 - j
    BY <2>1, <1>4, <1>5
  <2> QED
    BY <2>2, <1>2
<1> QED
  BY <1>2, <1>6, <1>7, <1>8, <1>9 DEF s

\* What a hop is behind, everything behind that hop is behind too.
LEMMA StackIsClosed ==
  ASSUME ViaOK, NEW h \in Hosts, NEW g \in Hosts, g \in Range(Stack(h))
  PROVE  Range(Stack(g)) \subseteq Range(Stack(h))
<1>1. CASE Stack(g) = << >>
  BY <1>1 DEF Range
<1>2. CASE Stack(g) # << >>
  <2>1. ~Cyclic(h) /\ ~Cyclic(g)
    BY <1>2 DEF Cyclic, Range
  <2>2. PICK c : Rooted(c) /\ c[1] = h /\ Stack(h) = [i \in 1..Len(c) |-> c[Len(c) + 1 - i]]
    BY <2>1, StackFields
  <2>3. PICK d : Rooted(d) /\ d[1] = g /\ Stack(g) = [i \in 1..Len(d) |-> d[Len(d) + 1 - i]]
    BY <2>1, StackFields
  <2>4. Len(c) \in Nat \ {0} /\ Len(d) \in Nat \ {0}
    BY <2>2, <2>3, ChainFields DEF Rooted
  <2>5. DOMAIN Stack(h) = 1..Len(c) /\ DOMAIN Stack(g) = 1..Len(d)
    BY <2>2, <2>3
  <2>6. PICK p \in 1..Len(c) : Stack(h)[p] = g
    BY <2>5 DEF Range
  <2>7. Len(c) + 1 - p \in 1..Len(c) /\ c[Len(c) + 1 - p] = g
    BY <2>2, <2>4, <2>6
  <2>8. ASSUME NEW q \in 1..Len(d) PROVE Stack(g)[q] \in Range(Stack(h))
    <3> DEFINE k == Len(d) - q
               i == Len(c) + 1 - p
    <3>1. k \in 0..Len(d) - 1 /\ Stack(g)[q] = d[1 + k] /\ i \in 1..Len(c) /\ 1 \in 1..Len(d)
      BY <2>3, <2>4, <2>7
    <3>2. i + k <= Len(c) /\ d[1 + k] = c[i + k]
      <4>1. \A len \in 0..Len(d) - 1 : i + len <= Len(c) /\ d[1 + len] = c[i + len]
        <5>1. d[1] = c[i] /\ i \in 1..Len(c) /\ 1 \in 1..Len(d) /\ Rooted(c) /\ Rooted(d)
          BY <3>1, <2>2, <2>3, <2>7
        <5> HIDE DEF i, k
        <5> QED
          BY <5>1, ChainsMeet
      <4> QED
        BY <4>1, <3>1
    <3>3. Len(c) + 1 - (i + k) \in 1..Len(c) /\ Stack(h)[Len(c) + 1 - (i + k)] = c[i + k]
      BY <3>1, <3>2, <2>2, <2>4
    <3> QED
      BY <3>1, <3>2, <3>3, <2>5 DEF Range
  <2> QED
    BY <2>5, <2>8 DEF Range
<1> QED
  BY <1>1, <1>2
LEMMA SameStacks ==
  ASSUME via' = via
  PROVE  \A h : Stack(h)' = Stack(h) /\ (Cyclic(h)' <=> Cyclic(h))
  BY DEF Stack, Chains, Cyclic

LEMMA StackInHosts ==
  ASSUME ViaOK, NEW h \in Hosts
  PROVE  Range(Stack(h)) \subseteq Hosts
<1>1. CASE Stack(h) = << >>
  BY <1>1 DEF Range
<1>2. CASE Stack(h) # << >>
  <2>1. Stack(h) \in Seq(Hosts)
    BY <1>2, StackIsSound DEF Cyclic
  <2> QED
    BY <2>1 DEF Range
<1> QED
  BY <1>1, <1>2

-----------------------------------------------------------------------------
(* The references *)

\* The references of an action are those of its own connection.
References ==
  /\ known \subseteq Keys2 /\ held \in [Keys2 -> 0..MaxGets] /\ context \in {"none", "live", "stale"}
  /\ contextOf \in Hosts /\ \A k \in Keys2 : held[k] <= gets
  /\ RefsBalance /\ HopsHeld

\* A reference is put back once, by the one who holds it.
LEMMA PutKeeps ==
  ASSUME ViaOK, gets \in 0..MaxGets, References, PutConnection, UNCHANGED <<via, contextOf, known, gets>>
  PROVE  References' /\ context' = "none"
<1> USE DEF PutConnection, PutRef, References
<1>1. context' = "none" /\ Key' = Key /\ Key \in Keys2 /\ \A k \in Keys2 : Used(k)' = 0
  BY PluginAssumption DEF Used, Key, Keys2
<1>2. \A k \in Keys2 : held[k] \in 0..MaxGets
  OBVIOUS
<1>3. held' \in [Keys2 -> 0..MaxGets] /\ \A k \in Keys2 : held'[k] <= gets'
  <2>1. CASE context = "live" /\ held[Key] > 0
    <3>1. held[Key] - 1 \in 0..MaxGets /\ held[Key] - 1 <= gets
      <4>1. held[Key] \in 0..MaxGets /\ MaxGets \in Nat /\ held[Key] <= gets /\ gets \in Nat
        BY <1>1, <1>2, PluginAssumption
      <4> QED
        BY <4>1, <2>1
    <3> QED
      BY <1>1, <1>2, <2>1, <3>1
  <2>2. CASE ~(context = "live" /\ held[Key] > 0)
    BY <2>2
  <2> QED
    BY <2>1, <2>2
<1>4. \A k \in Keys2 : held'[k] <= held[k] /\ (held'[k] > 0 => held[k] > Used(k))
  <2> TAKE k \in Keys2
  <2>1. held[k] >= Used(k)
    BY DEF RefsBalance
  <2>2. CASE context = "live" /\ k = Key
    <3>1. Used(k) = 1 /\ held[Key] > 0
      BY <2>1, <2>2, <1>2 DEF Used
    <3>2. held'[k] = held[k] - 1
      BY <3>1, <2>2
    <3> QED
      BY <3>1, <3>2, <1>2
  <2>3. CASE ~(context = "live" /\ k = Key)
    <3>1. Used(k) = 0 /\ held'[k] = held[k]
      BY <2>3, <1>1 DEF Used
    <3> QED
      BY <3>1, <1>2
  <2> QED
    BY <2>2, <2>3
<1>5. RefsBalance'
  <2> SUFFICES ASSUME NEW k \in Keys2
               PROVE  /\ held'[k] >= 0 /\ (held'[k] > 0 => k \in known)
                      /\ held'[k] > 0 => \E h \in Hosts \ {k[2]} : MuxOf[h] = k[1] /\ k[2] \in Range(Stack(h))
    BY <1>1, SameStacks DEF RefsBalance
  <2>1. held'[k] >= 0 /\ (held'[k] > 0 => held[k] > 0)
    BY <1>2, <1>3, <1>4
  <2> QED
    BY <2>1, <1>4 DEF RefsBalance
<1>6. HopsHeld'
  BY <1>1 DEF HopsHeld
<1> QED
  BY <1>1, <1>3, <1>5, <1>6

\* Contexts go together with those behind them.
Closed(gone) ==
  \A k \in known : (\E h \in Range(Stack(k[2])) : <<k[1], h>> \in gone) => k \in gone

\* What goes through a lost context is lost with it.
LEMMA ThroughIsClosed ==
  ASSUME ViaOK, known \subseteq Keys2, NEW m, NEW h
  PROVE  Closed(Through(m, h)) /\ Through(m, h) \subseteq known
<1>1. Through(m, h) \subseteq known
  BY DEF Through
<1>2. ASSUME NEW k \in known, NEW g \in Range(Stack(k[2])), <<k[1], g>> \in Through(m, h)
      PROVE  k \in Through(m, h)
  <2>1. k[1] \in Muxes /\ k[2] \in Hosts /\ g \in Hosts
    BY StackInHosts DEF Keys2
  <2>2. k[1] = m /\ h \in Range(Stack(g))
    BY <1>2 DEF Through
  <2>3. h \in Range(Stack(k[2]))
    BY <2>1, <2>2, StackIsClosed
  <2> QED
    BY <2>2, <2>3 DEF Through
<1> QED
  BY <1>1, <1>2 DEF Closed

LEMMA MuxIsClosed ==
  ASSUME known \subseteq Keys2, NEW m
  PROVE  Closed({k \in known : k[1] = m}) /\ {k \in known : k[1] = m} \subseteq known
  BY DEF Closed

LEMMA LoseKeeps ==
  ASSUME ViaOK, gets \in 0..MaxGets, References, NEW gone, gone \subseteq known, Closed(gone), LoseAll(gone),
         UNCHANGED <<via, contextOf, gets>>
  PROVE  References' /\ (context # "live" => context' = context)
<1> USE DEF LoseAll, References
<1>1. Key' = Key /\ Key \in Keys2
  BY PluginAssumption DEF Key, Keys2
<1>2. \A k \in Keys2 : held'[k] = IF k \in gone THEN 0 ELSE held[k]
  OBVIOUS
<1>3. held' \in [Keys2 -> 0..MaxGets] /\ \A k \in Keys2 : held'[k] <= gets'
  <2>1. 0 \in 0..MaxGets /\ 0 <= gets /\ \A k \in Keys2 : held[k] \in 0..MaxGets
    BY PluginAssumption
  <2> QED
    BY <1>2, <2>1
<1>4. \A k \in Keys2 : Used(k)' = IF k \in gone THEN 0 ELSE Used(k)
  BY <1>1 DEF Used
<1>5. RefsBalance'
  <2> SUFFICES ASSUME NEW k \in Keys2
               PROVE  /\ held'[k] >= Used(k)' /\ (held'[k] > 0 => k \in known')
                      /\ held'[k] > Used(k)' => \E h \in Hosts \ {k[2]} : MuxOf[h] = k[1] /\ k[2] \in Range(Stack(h))
    BY SameStacks DEF RefsBalance
  <2>1. CASE k \in gone
    BY <1>2, <1>4, <2>1
  <2>2. CASE k \notin gone
    BY <1>2, <1>4, <2>2 DEF RefsBalance
  <2> QED
    BY <2>1, <2>2
<1>6. HopsHeld'
  <2> SUFFICES ASSUME NEW k \in Keys2, Used(k)' = 1, NEW h \in Range(Stack(k[2]))
               PROVE  held'[<<k[1], h>>] > 0
    BY SameStacks DEF HopsHeld
  <2>1. k \notin gone /\ Used(k) = 1
    BY <1>4
  <2>2. held[k] > 0 /\ k \in known
    BY <2>1 DEF RefsBalance
  <2>3. <<k[1], h>> \notin gone
    BY <2>1, <2>2 DEF Closed
  <2>4. <<k[1], h>> \in Keys2
    BY StackInHosts DEF Keys2
  <2>5. held[<<k[1], h>>] > 0
    BY <2>1 DEF HopsHeld
  <2> QED
    BY <2>3, <2>4, <2>5, <1>2
<1>7. context' \in {"none", "live", "stale"} /\ known' \subseteq Keys2 /\ contextOf' \in Hosts
  OBVIOUS
<1> QED
  BY <1>3, <1>5, <1>6, <1>7

\* ContextService.get() gives a reference to each hop that it reaches.
LEMMA GetKeeps ==
  ASSUME ViaOK, gets \in Nat, gets < MaxGets, References, context = "none", host \in Hosts, ~Cyclic(host), parent = MuxOf[host],
         NEW len \in 0..Len(Stack(host)), gets' = gets + 1, via' = via,
         known' = known \union HopsTo(parent, len),
         held' = [k \in Keys2 |-> IF k \in HopsTo(parent, len) THEN held[k] + 1 ELSE held[k]],
         IF len = Len(Stack(host)) THEN context' = "live" /\ contextOf' = host ELSE UNCHANGED <<context, contextOf>>
  PROVE  References'
<1> USE DEF References
<1> DEFINE s == Stack(host)
<1>1. /\ s \in Seq(Hosts) /\ Len(s) >= 1 /\ s[Len(s)] = host /\ Len(s) \in Nat
      /\ \A i, j \in 1..Len(s) : s[i] = s[j] => i = j
  BY StackIsSound
<1>2. HopsTo(parent, len) \subseteq Keys2
  BY <1>1, PluginAssumption DEF HopsTo, Keys2
<1>3. MaxGets \in Nat /\ \A k \in Keys2 : held[k] \in 0..MaxGets /\ held[k] <= gets
  BY PluginAssumption
<1>4. /\ held' \in [Keys2 -> 0..MaxGets] /\ \A k \in Keys2 : held'[k] <= gets'
      /\ \A k \in Keys2 : held'[k] = IF k \in HopsTo(parent, len) THEN held[k] + 1 ELSE held[k]
  BY <1>3
<1>5. context' \in {"none", "live", "stale"} /\ known' \subseteq Keys2 /\ contextOf' \in Hosts
  BY <1>2
<1>6. \A k \in Keys2 : Used(k)' = IF len = Len(s) /\ k = <<parent, host>> THEN 1 ELSE 0
  BY DEF Used, Key
<1>7. \A k \in Keys2 : Used(k) = 0
  BY DEF Used
<1>8. ASSUME NEW k \in HopsTo(parent, len), k # <<parent, host>>
      PROVE  \E h \in Hosts \ {k[2]} : MuxOf[h] = k[1] /\ k[2] \in Range(Stack(h))
  <2>1. k[1] = parent /\ k[2] # host /\ k[2] \in Range(s)
    BY <1>1, <1>8 DEF HopsTo, Range
  <2> QED
    BY <2>1
<1>9. ASSUME len = Len(s) PROVE <<parent, host>> \in HopsTo(parent, len)
  BY <1>1, <1>9 DEF HopsTo
<1>10. ASSUME <<parent, host>> \in HopsTo(parent, len) PROVE len = Len(s)
  <2>1. PICK i \in 1..len : s[i] = host
    BY <1>10 DEF HopsTo
  <2> QED
    BY <2>1, <1>1
<1>11. RefsBalance'
  <2> SUFFICES ASSUME NEW k \in Keys2
               PROVE  /\ held'[k] >= Used(k)' /\ (held'[k] > 0 => k \in known')
                      /\ held'[k] > Used(k)' => \E h \in Hosts \ {k[2]} : MuxOf[h] = k[1] /\ k[2] \in Range(Stack(h))
    BY SameStacks DEF RefsBalance
  <2>1. /\ held[k] >= 0 /\ (held[k] > 0 => k \in known)
        /\ held[k] > 0 => \E h \in Hosts \ {k[2]} : MuxOf[h] = k[1] /\ k[2] \in Range(Stack(h))
    BY <1>7 DEF RefsBalance
  <2>2. CASE k \notin HopsTo(parent, len)
    <3>1. Used(k)' = 0 /\ held'[k] = held[k]
      BY <2>2, <1>4, <1>6, <1>9
    <3> QED
      BY <3>1, <2>1
  <2>3. CASE k \in HopsTo(parent, len) /\ k # <<parent, host>>
    BY <2>1, <2>3, <1>3, <1>4, <1>6, <1>8
  <2>4. CASE k \in HopsTo(parent, len) /\ k = <<parent, host>>
    <3>1. Used(k)' = 1 /\ held'[k] = held[k] + 1
      BY <2>4, <1>4, <1>6, <1>10
    <3> QED
      BY <3>1, <2>1, <2>4, <1>3
  <2> QED
    BY <2>2, <2>3, <2>4
<1>12. HopsHeld'
  <2> SUFFICES ASSUME NEW k \in Keys2, Used(k)' = 1, NEW h \in Range(Stack(k[2]))
               PROVE  held'[<<k[1], h>>] > 0
    BY SameStacks DEF HopsHeld
  <2>1. len = Len(s) /\ k = <<parent, host>>
    BY <1>6
  <2>2. PICK i \in 1..Len(s) : s[i] = h
    BY <2>1, <1>1 DEF Range
  <2>3. <<parent, h>> \in HopsTo(parent, len)
    BY <2>1, <2>2 DEF HopsTo
  <2> QED
    BY <2>1, <2>3, <1>2, <1>3, <1>4
<1> QED
  BY <1>4, <1>5, <1>11, <1>12
-----------------------------------------------------------------------------
(* The invariant of the plug-in *)

LEMMA Parts ==
  /\ PluginInv => ViaOK /\ References /\ gets \in 0..MaxGets /\ gets \in Nat
  /\ PluginInv' => References'
  BY PluginAssumption DEF PluginInv, PluginFields, PluginTypeOK, ViaOK, References

\* What a step has to keep besides the references.
Binding ==
  /\ stage \in {"idle", "bound", "connected", "resetting", "failed"} /\ host \in Hosts
  /\ parent \in Muxes \union {NoMux} /\ path \in Muxes \union {NoMux} /\ binding \in BOOLEAN /\ broker \in BOOLEAN
  /\ via \in [Hosts -> Hosts \union {NoMux}] /\ gets \in 0..MaxGets
  /\ NoneBefore /\ BoundTo /\ ParentMatches

LEMMA WholeInv ==
  /\ PluginInv <=> References /\ Binding
  /\ PluginInv' <=> References' /\ Binding'
  BY DEF PluginInv, References, Binding, PluginTypeOK, PluginFields

LEMMA InitPlugin == PluginInit => PluginInv
<1> SUFFICES ASSUME PluginInit PROVE References /\ Binding
  BY WholeInv
<1> USE DEF PluginInit
<1>1. Home \in Hosts /\ 0 \in 0..MaxGets /\ via \in [Hosts -> Hosts \union {NoMux}]
  BY PluginAssumption DEF Home
<1>2. Binding
  BY <1>1 DEF Binding, NoneBefore, BoundTo, ParentMatches
<1>3. \A k \in Keys2 : Used(k) = 0
  BY DEF Used
<1>4. References
  BY <1>1, <1>3 DEF References, RefsBalance, HopsHeld
<1> QED
  BY <1>2, <1>4

\* A step that leaves the services and the use of the context alone.
LEMMA SameReferences ==
  ASSUME References, UNCHANGED <<via, known, held, context, contextOf>>, gets' = gets
  PROVE  References'
<1>1. Key' = Key /\ \A k : Used(k)' = Used(k)
  BY DEF Key, Used
<1> QED
  BY <1>1, SameStacks DEF References, RefsBalance, HopsHeld

LEMMA ActionRunKeeps ==
  ASSUME PluginInv, NEW h \in Hosts, OnActionRun(h)
  PROVE  PluginInv'
<1> USE DEF OnActionRun
<1>1. ViaOK /\ References /\ gets \in 0..MaxGets /\ Binding
  BY Parts, WholeInv
<1>2. References' /\ (stage = "connected" /\ stage' = "idle" => context' = "none")
  BY <1>1, PutKeeps, SameReferences
<1>3. Binding'
  BY <1>1, <1>2 DEF Binding, NoneBefore, BoundTo, ParentMatches, modelVars
<1> QED
  BY <1>2, <1>3, WholeInv

LEMMA ConnectKeeps ==
  ASSUME PluginInv, Connect
  PROVE  PluginInv'
<1> USE DEF Connect
<1>1. References /\ Binding
  BY WholeInv
<1>2. References'
  BY <1>1, SameReferences DEF serviceVars
<1>3. Cyclic(host)' <=> Cyclic(host)
  BY SameStacks
<1>4. Binding'
  <2>1. CASE Cyclic(host)
    BY <1>1, <2>1 DEF Binding, NoneBefore, BoundTo, ParentMatches, modelVars
  <2>2. CASE ~Cyclic(host) /\ Unreachable(host) /\ stage' = "failed" /\ Reconnectless /\ refused' = TRUE /\ UNCHANGED binding
    BY <1>1, <2>2 DEF Binding, NoneBefore, BoundTo, ParentMatches, Reconnectless
  <2>3. CASE ~Cyclic(host) /\ ~Unreachable(host) /\ BindTo(host) /\ binding' = TRUE /\ stage' = "bound" /\ UNCHANGED refused
    <3>1. MuxOf[host] \in Muxes
      BY <1>1, PluginAssumption DEF Binding
    <3> QED
      BY <1>1, <1>3, <2>3, <3>1 DEF Binding, NoneBefore, BoundTo, ParentMatches, BindTo, Reuse, MuxFor
  <2> QED
    BY <2>1, <2>2, <2>3
<1> QED
  BY <1>2, <1>4, WholeInv

LEMMA GetContextKeeps ==
  ASSUME PluginInv, GetContext
  PROVE  PluginInv'
<1> USE DEF GetContext
<1>1. ViaOK /\ References /\ gets \in 0..MaxGets /\ gets \in Nat /\ Binding /\ MaxGets \in Nat
  BY Parts, WholeInv, PluginAssumption
<1>2. CASE ServiceGone /\ stage' = "failed" /\ UNCHANGED <<context, contextOf, serviceVars, gets, mishaps>>
  <2>1. References'
    BY <1>1, <1>2, SameReferences DEF serviceVars
  <2>2. Binding'
    BY <1>1, <1>2 DEF Binding, NoneBefore, BoundTo, ParentMatches, modelVars
  <2> QED
    BY <2>1, <2>2, WholeInv
<1>3. CASE ~ServiceGone
  <2>1. parent = MuxOf[host] /\ path = parent /\ broker /\ context = "none" /\ ~Cyclic(host) /\ host \in Hosts
    BY <1>1, <1>3 DEF Binding, BoundTo, NoneBefore, ServiceGone
  <2>2. PICK len \in 0..Len(Stack(host)) :
             /\ known' = known \union HopsTo(parent, len)
             /\ held' = [k \in Keys2 |-> IF k \in HopsTo(parent, len) THEN held[k] + 1 ELSE held[k]]
             /\ IF len = Len(Stack(host))
                THEN context' = "live" /\ contextOf' = host /\ stage' = "connected" /\ UNCHANGED mishaps
                ELSE stage' = "failed" /\ UNCHANGED <<context, contextOf>>
    BY <1>3
  <2>3. gets < MaxGets /\ gets' = gets + 1 /\ via' = via
    BY <1>3
  <2>4. References'
    BY <1>1, <2>1, <2>2, <2>3, GetKeeps
  <2>5. gets' \in 0..MaxGets
    BY <1>1, <2>3
  <2>6. Binding'
    BY <1>1, <2>1, <2>2, <2>3, <2>5 DEF Binding, NoneBefore, BoundTo, ParentMatches, modelVars
  <2> QED
    BY <2>4, <2>6, WholeInv
<1> QED
  BY <1>2, <1>3

LEMMA CloseKeeps ==
  ASSUME PluginInv, Close \/ ResetConnection
  PROVE  PluginInv'
<1> USE DEF Close, ResetConnection, CloseAs
<1>1. ViaOK /\ References /\ gets \in 0..MaxGets /\ Binding
  BY Parts, WholeInv
<1>2. UNCHANGED <<via, host, contextOf, known, gets>>
  OBVIOUS
<1>3. CASE stage' = "failed" /\ UNCHANGED <<context, held, binding, modelVars, refused>>
  <2>1. References'
    BY <1>1, <1>2, <1>3, SameReferences
  <2>2. Binding'
    BY <1>1, <1>2, <1>3 DEF Binding, NoneBefore, BoundTo, ParentMatches, modelVars
  <2> QED
    BY <2>1, <2>2, WholeInv
<1>4. CASE /\ PutConnection /\ stage' \in {"idle", "resetting"} /\ binding' = FALSE
           /\ IF binding THEN BindingClose ELSE UNCHANGED <<modelVars, refused>>
  <2>1. References' /\ context' = "none"
    BY <1>1, <1>2, <1>4, PutKeeps
  <2>2. Binding'
    BY <1>1, <1>2, <1>4, <2>1 DEF Binding, NoneBefore, BoundTo, ParentMatches, modelVars, BindingClose
  <2> QED
    BY <2>1, <2>2, WholeInv
<1> QED
  BY <1>3, <1>4

LEMMA ResetServiceKeeps ==
  ASSUME PluginInv, ResetService
  PROVE  PluginInv'
<1> USE DEF ResetService
<1>1. ViaOK /\ References /\ gets \in 0..MaxGets /\ Binding /\ known \subseteq Keys2
  BY Parts, WholeInv DEF References
<1>2. context = "none" /\ UNCHANGED <<via, host, contextOf, gets, binding>>
  BY <1>1 DEF Binding, NoneBefore
<1>3. CASE Unreachable(host) /\ Reconnectless /\ refused' = TRUE /\ UNCHANGED <<serviceVars, context>>
  <2>1. References'
    BY <1>1, <1>2, <1>3, SameReferences DEF serviceVars
  <2>2. Binding'
    BY <1>1, <1>2, <1>3 DEF Binding, NoneBefore, BoundTo, ParentMatches, Reconnectless
  <2> QED
    BY <2>1, <2>2, WholeInv
<1>4. CASE BindingClose /\ LoseAll(Through(MuxFor(host), host))
  <2>1. References' /\ context' = context
    BY <1>1, <1>2, <1>4, LoseKeeps, ThroughIsClosed
  <2>2. Binding'
    BY <1>1, <1>2, <1>4, <2>1 DEF Binding, NoneBefore, BoundTo, ParentMatches, BindingClose
  <2> QED
    BY <2>1, <2>2, WholeInv
<1> QED
  BY <1>3, <1>4

LEMMA DeathsKeep ==
  ASSUME PluginInv, NEW m \in Muxes, MuxDies(m) \/ \E h \in Hosts : TargetDies(m, h)
  PROVE  PluginInv'
<1> USE DEF MuxDies, TargetDies
<1>1. ViaOK /\ References /\ gets \in 0..MaxGets /\ Binding /\ known \subseteq Keys2
  BY Parts, WholeInv DEF References
<1>2. UNCHANGED <<via, host, stage, binding, contextOf, modelVars, gets, refused>>
  OBVIOUS
<1>3. References' /\ (context # "live" => context' = context)
  <2>1. CASE MuxDies(m)
    BY <1>1, <1>2, <2>1, LoseKeeps, MuxIsClosed
  <2>2. CASE \E h \in Hosts : TargetDies(m, h)
    BY <1>1, <1>2, <2>2, LoseKeeps, ThroughIsClosed
  <2> QED
    BY <2>1, <2>2
<1>4. Binding'
  BY <1>1, <1>2, <1>3, SameStacks DEF Binding, NoneBefore, BoundTo, ParentMatches, modelVars
<1> QED
  BY <1>3, <1>4, WholeInv

\* Every step of an action, and every loss of a context or of a multiplexer, keeps the books.
LEMMA PluginStep == PluginInv /\ [PluginNext]_plVars => PluginInv'
<1> SUFFICES ASSUME PluginInv, [PluginNext]_plVars PROVE PluginInv'
  OBVIOUS
<1>1. CASE UNCHANGED plVars
  <2>1. References /\ Binding
    BY WholeInv
  <2>2. References'
    BY <1>1, <2>1, SameReferences DEF plVars
  <2>3. Binding'
    BY <1>1, <2>1, SameStacks DEF plVars, Binding, NoneBefore, BoundTo, ParentMatches
  <2> QED
    BY <2>2, <2>3, WholeInv
<1> QED
  BY <1>1, ActionRunKeeps, ConnectKeeps, GetContextKeeps, CloseKeeps, ResetServiceKeeps, DeathsKeep DEF PluginNext

LEMMA PluginKept == PluginInv => PluginSafe
<1> SUFFICES ASSUME PluginInv PROVE PluginSafe
  OBVIOUS
<1>1. ViaOK
  BY Parts
<1>2. PluginTypeOK /\ RefsBalance /\ HopsHeld /\ ParentMatches
  BY DEF PluginInv
<1>3. BrokerBound
  BY DEF PluginInv, BoundTo, BrokerBound
<1>4. StackSound
  <2> SUFFICES ASSUME stage = "bound"
               PROVE  LET s == Stack(host) IN
                      /\ s # << >> /\ s[Len(s)] = host /\ via[s[1]] = NoMux
                      /\ \A i \in 1..Len(s) - 1 : via[s[i + 1]] = s[i] /\ \A j \in 1..i : s[j] # s[i + 1]
    BY DEF StackSound
  <2> DEFINE s == Stack(host)
  <2>1. host \in Hosts /\ ~Cyclic(host)
    BY DEF PluginInv, PluginTypeOK, BoundTo
  <2>2. /\ s \in Seq(Hosts) /\ Len(s) >= 1 /\ s[Len(s)] = host /\ via[s[1]] = NoMux
        /\ \A i \in 1..Len(s) - 1 : via[s[i + 1]] = s[i]
        /\ \A i, j \in 1..Len(s) : s[i] = s[j] => i = j
    BY <1>1, <2>1, StackIsSound
  <2> HIDE DEF s
  <2>3. \A i \in 1..Len(s) - 1 : \A j \in 1..i : s[j] # s[i + 1]
    <3> TAKE i \in 1..Len(s) - 1
    <3> TAKE j \in 1..i
    <3>1. j \in 1..Len(s) /\ i + 1 \in 1..Len(s) /\ j # i + 1
      BY <2>2
    <3> QED
      BY <3>1, <2>2
  <2> QED
    BY <2>2, <2>3 DEF s
<1> QED
  BY <1>2, <1>3, <1>4 DEF PluginSafe

\* The services count one reference for the context that a worker uses and none for those it is done
\* with, hops apart, through delegation, failure, reset and the death of targets and multiplexers; a
\* hop is held while a context behind it is used; a stack goes from the first hop to the host: for any
\* hosts and any `via` between them.
THEOREM PluginCorrect == PluginSpec => []PluginSafe
  BY InitPlugin, PluginStep, PluginKept, PTL DEF PluginSpec
==============================================================================
