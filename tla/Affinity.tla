------------------------------ MODULE Affinity ------------------------------
(* FixedPolicy of affinity.py: processes choose their CPU through a counter   *)
(* of eight bits in memory that all of them share, guarded by a semaphore in  *)
(* the same memory; helpers such as ssh get every CPU that is not reserved.   *)
EXTENDS Naturals, Sequences, FiniteSets

CONSTANTS Cpus,      \* cpu_count
          Wrap,      \* the counter is a c_uint8: 256
          Forked, MaxDeaths
ASSUME AffinityAssumption == /\ Cpus \in Nat \ {0} /\ Wrap \in Nat \ {0} /\ MaxDeaths \in Nat
                            /\ "nobody" \notin Forked

VARIABLES sem,      \* the semaphore's value
          holder,   \* who holds it
          counter,  \* State.counter
          step,     \* step[w] of _balance(): "new", "locked", "read", "wrote", "pinned", "dead"
          n,        \* n[w]: the value it read
          cpu,      \* cpu[w]: where it is pinned
          assigned, \* tickets taken
          deaths
afVars == <<sem, holder, counter, step, n, cpu, assigned, deaths>>

Reserved == IF Cpus < 2 THEN {} ELSE IF Cpus < 4 THEN {0} ELSE {0, 1}      \* _reserve_mask
Shift == Cardinality(Reserved)                                             \* _reserve_shift
Controller == "controller"
\* The top level takes a ticket only where no CPU is reserved for it.
Balanced == Forked \union (IF Cpus < 4 THEN {Controller} ELSE {})
Nobody == "nobody"

AffinityInit ==
  /\ sem = 1 /\ holder = Nobody /\ counter = 0 /\ assigned = << >> /\ deaths = 0
  /\ step = [w \in Balanced |-> "new"] /\ n = [w \in Balanced |-> 0] /\ cpu = [w \in Balanced |-> 0]

Becomes(w, what) == step' = [step EXCEPT ![w] = what]
Lock(w) ==
  /\ step[w] = "new" /\ sem > 0 /\ sem' = sem - 1 /\ holder' = w /\ Becomes(w, "locked")
  /\ UNCHANGED <<counter, n, cpu, assigned, deaths>>
\* mutation: the counter is read without the semaphore.
ReadUnlocked(w) ==
  /\ step[w] \in {"new", "locked"} /\ n' = [n EXCEPT ![w] = counter] /\ Becomes(w, "read")
  /\ UNCHANGED <<sem, holder, counter, cpu, assigned, deaths>>
Read(w) ==
  /\ step[w] = "locked" /\ n' = [n EXCEPT ![w] = counter] /\ Becomes(w, "read")
  /\ UNCHANGED <<sem, holder, counter, cpu, assigned, deaths>>
Write(w) ==
  /\ step[w] = "read" /\ counter' = (n[w] + 1) % Wrap /\ Becomes(w, "wrote")
  /\ assigned' = assigned \o <<n[w]>>
  /\ UNCHANGED <<sem, holder, n, cpu, deaths>>
Unlock(w) ==
  /\ step[w] = "wrote" /\ sem' = sem + 1 /\ holder' = Nobody /\ Becomes(w, "unlocked")
  /\ UNCHANGED <<counter, n, cpu, assigned, deaths>>
\* mutation: the reserved CPUs are not skipped.
Unshifted(ticket) == ticket % Cpus
Chosen(ticket) == Shift + (ticket % (Cpus - Shift))
Pin(w) ==
  /\ step[w] = "unlocked" /\ cpu' = [cpu EXCEPT ![w] = Chosen(n[w]) % Cpus] /\ Becomes(w, "pinned")
  /\ UNCHANGED <<sem, holder, counter, n, assigned, deaths>>
\* A worker dies; a semaphore it holds is not released.
Dies(w) ==
  /\ w # Controller /\ step[w] \notin {"new", "dead"} /\ deaths < MaxDeaths /\ deaths' = deaths + 1
  /\ Becomes(w, "dead") /\ UNCHANGED <<sem, holder, counter, n, cpu, assigned>>

AffinityNext == \E w \in Balanced : Lock(w) \/ Read(w) \/ Write(w) \/ Unlock(w) \/ Pin(w) \/ Dies(w)
AffinitySpec == AffinityInit /\ [][AffinityNext]_afVars

-----------------------------------------------------------------------------
AffinityTypeOK ==
  /\ sem \in 0..1 /\ counter \in 0..Wrap - 1
  /\ \A w \in Balanced : cpu[w] \in 0..Cpus - 1 /\ n[w] \in 0..Wrap - 1
\* No worker is put on a CPU that is reserved for the multiplexer or the top level.
OffReserved == \A w \in Balanced : step[w] = "pinned" => cpu[w] \notin Reserved
\* No two processes take the same ticket, however they interleave, until the counter wraps.
TicketsDistinct == \A i \in DOMAIN assigned : assigned[i] = (i - 1) % Wrap
\* Every process gets a CPU, unless one died with the semaphore in its hand.
AllPinned == \A w \in Balanced : []<>(step[w] \in {"pinned", "dead"} \/ (holder # Nobody /\ step[holder] = "dead"))

\* What the policy promises: processes spread over the CPUs that are not reserved, each by a
\* ticket of its own.
AffinitySafe == AffinityTypeOK /\ OffReserved /\ TicketsDistinct
=============================================================================
