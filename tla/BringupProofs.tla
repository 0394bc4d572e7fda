--------------------------- MODULE BringupProofs -----------------------------
(* Theorems about a child and the pipes to it: how it is spawned and comes up,  *)
(* how it is connected and reaped, what it logs, how its descriptors are polled, *)
(* and the Latch its callers wait on; for any threads, attempts and descriptors, *)
(* and any size of source and pipe.                                             *)
EXTENDS Latch, Startup, Logs, Polling, Spawn, Bringup,
        FiniteSetTheorems, FunctionTheorems, SequenceTheorems, NaturalsInduction, WellFoundedInduction, TLAPS

-----------------------------------------------------------------------------
(* Latch: who waits, who is woken, and by which cookie                          *)

-----------------------------------------------------------------------------
(* Sequences *)

\* Deleting entry k shifts the later entries down by one.
LEMMA RemoveAtProperties ==
  ASSUME NEW S, NEW s \in Seq(S), NEW k \in 1..Len(s)
  PROVE  /\ RemoveAt(s, k) \in Seq(S)
         /\ Len(RemoveAt(s, k)) = Len(s) - 1
         /\ \A j \in 1..(Len(s) - 1) :
              RemoveAt(s, k)[j] = IF j < k THEN s[j] ELSE s[j + 1]
<1> DEFINE a == SubSeq(s, 1, k - 1)
           b == SubSeq(s, k + 1, Len(s))
<1>1. /\ a \in Seq(S)
      /\ Len(a) = k - 1
      /\ \A j \in 1..(k - 1) : a[j] = s[j]
  BY SubSeqProperties, ElementOfSeq
<1>2. /\ b \in Seq(S)
      /\ Len(b) = Len(s) - k
      /\ \A j \in 1..(Len(s) - k) : b[j] = s[k + j]
  BY SubSeqProperties, ElementOfSeq
<1> HIDE DEF a, b
<1>3. /\ a \o b \in Seq(S)
      /\ Len(a \o b) = Len(s) - 1
      /\ \A j \in 1..(Len(s) - 1) :
           (a \o b)[j] = IF j <= k - 1 THEN a[j] ELSE b[j - (k - 1)]
  BY <1>1, <1>2, ConcatProperties
<1>4. \A j \in 1..(Len(s) - 1) :
        (a \o b)[j] = IF j < k THEN s[j] ELSE s[j + 1]
  <2> SUFFICES ASSUME NEW j \in 1..(Len(s) - 1)
               PROVE  (a \o b)[j] = IF j < k THEN s[j] ELSE s[j + 1]
    OBVIOUS
  <2>1. CASE j < k
    BY <2>1, <1>1, <1>3
  <2>2. CASE ~(j < k)
    <3>1. j - (k - 1) \in 1..(Len(s) - k) /\ k + (j - (k - 1)) = j + 1
      BY <2>2
    <3> QED
      BY <3>1, <2>2, <1>2, <1>3
  <2> QED
    BY <2>1, <2>2
<1> QED
  BY <1>3, <1>4 DEF RemoveAt, a, b

LEMMA AppendIndexes ==
  ASSUME NEW S, NEW s \in Seq(S), NEW e \in S
  PROVE  /\ Append(s, e) \in Seq(S)
         /\ Len(Append(s, e)) = Len(s) + 1
         /\ \A j \in 1..Len(s) : Append(s, e)[j] = s[j]
         /\ Append(s, e)[Len(s) + 1] = e
  OBVIOUS

-----------------------------------------------------------------------------
(* With or without timeouts *)

\* Entry k of _sleeping, seen from the call that is about to leave.
LEMMA Leaving ==
  ASSUME TypeOK, NEW t \in Threads, GetWake(t)
  PROVE  \E k \in 1..Len(sleeping) :
           /\ LeaveSleep(t, k)
           /\ \/ WakeTimeout(t, k) \/ WakeAssert(t, k)
              \/ WakeClosed(t, k)  \/ WakeItem(t, k)
           /\ entry[t] = sleeping[k]
           /\ sleeping[k] \in Entries
           /\ sleeping' \in Seq(Entries)
           /\ Len(sleeping') = Len(sleeping) - 1
           /\ \A j \in 1..(Len(sleeping) - 1) :
                sleeping'[j] = IF j < k THEN sleeping[j] ELSE sleeping[j + 1]
<1> USE DEF TypeOK
<1>1. PICK k \in DOMAIN sleeping : \/ WakeTimeout(t, k) \/ WakeAssert(t, k)
                                   \/ WakeClosed(t, k)  \/ WakeItem(t, k)
  BY DEF GetWake
<1>2. LeaveSleep(t, k)
  BY <1>1 DEF WakeTimeout, WakeAssert, WakeClosed, WakeItem
<1>3. k \in 1..Len(sleeping) /\ sleeping[k] \in Entries
  BY ElementOfSeq
<1>4. /\ sleeping' \in Seq(Entries)
      /\ Len(sleeping') = Len(sleeping) - 1
      /\ \A j \in 1..(Len(sleeping) - 1) :
           sleeping'[j] = IF j < k THEN sleeping[j] ELSE sleeping[j + 1]
  BY <1>2, <1>3, RemoveAtProperties DEF LeaveSleep
<1> QED
  BY <1>1, <1>2, <1>3, <1>4 DEF LeaveSleep

LEMMA InitTyped == Init => TypeOK
<1> SUFFICES ASSUME Init
             PROVE  TypeOK
  OBVIOUS
<1>1. /\ closed \in BOOLEAN
      /\ accepted \in 0..MaxPuts
      /\ waking \in Nat
  <2>1. 0 \in Nat /\ 0 \in 0..MaxPuts
    BY LatchAssumption DEF LatchAssumption
  <2> QED
    BY <2>1 DEF Init
<1>2. queue \in Seq(1..MaxPuts) /\ sleeping \in Seq(Entries)
  BY DEF Init
<1>3. made \subseteq Pairs /\ idle \subseteq made
  BY DEF Init
<1>4. pipe \in [Pairs -> Seq(Threads)]
  BY EmptySeq DEF Init
<1>5. /\ pc \in [Threads -> {"ready", "polling", "relock", "waking"}]
      /\ entry \in [Threads -> Entries \cup {NoEntry}]
      /\ \A t \in Threads : pc[t] # "ready" => entry[t] \in Entries
  BY DEF Init
<1>6. Outcome("none") \in [st : Outcomes, item : 0..MaxPuts]
  BY LatchAssumption DEF LatchAssumption, Outcome, Outcomes
<1>7. result \in [Threads -> [st : Outcomes, item : 0..MaxPuts]]
  BY <1>6 DEF Init
<1> QED
  BY <1>1, <1>2, <1>3, <1>4, <1>5, <1>7 DEF TypeOK

LEMMA NextTyped == TypeOK /\ SleepersExact /\ [Next]_vars => TypeOK'
<1> SUFFICES ASSUME TypeOK, SleepersExact, [Next]_vars
             PROVE  TypeOK'
  OBVIOUS
<1> USE LatchAssumption DEF LatchAssumption, TypeOK
<1> DEFINE Results == [st : Outcomes, item : 0..MaxPuts]
<1>0. /\ \A st \in Outcomes : Outcome(st) \in Results
      /\ result \in [Threads -> Results]
  BY DEF Outcome
<1> HIDE DEF Results
<1>1. ASSUME NEW t \in Threads, GetClosed(t) \/ GetEmpty(t)
      PROVE  TypeOK'
  <2>1. PICK st \in Outcomes : result' = [result EXCEPT ![t] = Outcome(st)]
    BY <1>1 DEF GetClosed, GetEmpty, Outcomes
  <2>2. result' \in [Threads -> Results]
    BY <1>0, <2>1
  <2> QED
    BY <1>1, <2>2 DEF GetClosed, GetEmpty, Results
<1>2. ASSUME NEW t \in Threads, GetNow(t)
      PROVE  TypeOK'
  <2>1. Spare \in 1..Len(queue)
    BY <1>2 DEF GetNow, Spare
  <2>2. queue[Spare] \in 1..MaxPuts /\ RemoveAt(queue, Spare) \in Seq(1..MaxPuts)
    BY <2>1, RemoveAtProperties, ElementOfSeq
  <2>3. Got(queue[Spare]) \in Results
    BY <2>2 DEF Got, Outcomes, Results
  <2> QED
    BY <1>2, <2>2, <2>3 DEF GetNow, Results
<1>3. ASSUME NEW t \in Threads, NEW p \in Pairs, GetSleep(t, p)
      PROVE  TypeOK'
  <2>1. [pair |-> p, thread |-> t] \in Entries
    BY DEF Entries
  <2>2. sleeping' \in Seq(Entries)
    BY <1>3, <2>1, AppendIndexes DEF GetSleep
  <2>3. made' \subseteq Pairs /\ idle' \subseteq made'
    BY <1>3 DEF GetSleep, GetSocketpair
  <2> QED
    BY <1>3, <2>1, <2>2, <2>3 DEF GetSleep
<1>4. ASSUME NEW t \in Threads, PollReadable(t) \/ PollTimeout(t)
      PROVE  TypeOK'
  BY <1>4 DEF PollReadable, PollTimeout
<1>5. ASSUME NEW t \in Threads, GetWake(t)
      PROVE  TypeOK'
  <2>1. PICK k \in 1..Len(sleeping) :
          /\ LeaveSleep(t, k)
          /\ \/ WakeTimeout(t, k) \/ WakeAssert(t, k)
             \/ WakeClosed(t, k)  \/ WakeItem(t, k)
          /\ entry[t] = sleeping[k]
          /\ sleeping[k] \in Entries
          /\ sleeping' \in Seq(Entries)
    BY <1>5, Leaving
  <2>2. entry[t].pair \in made
    BY <2>1 DEF SleepersExact
  <2>3. /\ made' \subseteq Pairs /\ idle' \subseteq made'
        /\ pc' \in [Threads -> {"ready", "polling", "relock", "waking"}]
        /\ entry' \in [Threads -> Entries \cup {NoEntry}]
        /\ \A u \in Threads : pc'[u] # "ready" => entry'[u] \in Entries
        /\ closed' \in BOOLEAN /\ accepted' \in 0..MaxPuts
    BY <2>1, <2>2 DEF LeaveSleep
  <2>4. \A u \in Threads : Recv(t, u) => pipe' \in [Pairs -> Seq(Threads)]
    <3> SUFFICES ASSUME NEW u \in Threads, Recv(t, u)
                 PROVE  pipe' \in [Pairs -> Seq(Threads)]
      OBVIOUS
    <3>1. entry[t].pair \in Pairs
      BY <2>1 DEF Entries
    <3>2. Tail(pipe[entry[t].pair]) \in Seq(Threads)
      BY <3>1, HeadTailProperties DEF Recv
    <3> QED
      BY <3>1, <3>2 DEF Recv
  <2>5. CASE WakeTimeout(t, k)
    BY <1>0, <2>1, <2>3, <2>5 DEF WakeTimeout, Outcomes, Results
  <2>6. CASE WakeAssert(t, k)
    <3>0. PICK st \in Outcomes : result' = [result EXCEPT ![t] = Outcome(st)]
      BY <2>6 DEF WakeAssert, Outcomes
    <3>1. result' \in [Threads -> Results]
      BY <1>0, <3>0
    <3> QED
      BY <2>1, <2>3, <2>4, <2>6, <3>1 DEF WakeAssert, Results
  <2>7. CASE WakeClosed(t, k)
    <3>1. waking' \in Nat
      BY <2>7 DEF WakeClosed
    <3>2. result' \in [Threads -> Results]
      BY <1>0, <2>7 DEF WakeClosed, Outcomes, Results
    <3> QED
      BY <2>1, <2>3, <2>4, <2>7, <3>1, <3>2 DEF WakeClosed, Results
  <2>8. CASE WakeItem(t, k)
    <3>1. waking' \in Nat
      BY <2>8 DEF WakeItem
    <3>2. /\ result' \in [Threads -> Results]
          /\ queue' \in Seq(1..MaxPuts)
      <4>1. CASE k <= Len(queue) /\ result' = [result EXCEPT ![t] = Got(queue[k])]
                                 /\ queue' = RemoveAt(queue, k)
        <5>0. k \in 1..Len(queue)
          BY <4>1, LenProperties
        <5>1. queue[k] \in 1..MaxPuts /\ RemoveAt(queue, k) \in Seq(1..MaxPuts)
          BY <5>0, RemoveAtProperties, ElementOfSeq
        <5>2. Got(queue[k]) \in Results
          BY <5>1 DEF Got, Outcomes, Results
        <5> QED
          BY <4>1, <5>1, <5>2 DEF Results
      <4>2. CASE result' = [result EXCEPT ![t] = Outcome("index")] /\ queue' = queue
        BY <1>0, <4>2 DEF Outcomes, Results
      <4> QED
        BY <2>8, <4>1, <4>2 DEF WakeItem
    <3> QED
      BY <2>1, <2>3, <2>4, <2>8, <3>1, <3>2 DEF WakeItem, Results
  <2> QED
    BY <2>1, <2>5, <2>6, <2>7, <2>8
<1>6. ASSUME NEW t \in Threads, Put(t)
      PROVE  TypeOK'
  <2>1. accepted' \in 1..MaxPuts
    BY <1>6 DEF Put
  <2>2. queue' \in Seq(1..MaxPuts)
    BY <1>6, <2>1, AppendIndexes DEF Put
  <2>3. waking < Len(sleeping) => Chosen \in Entries
    BY ElementOfSeq DEF Chosen
  <2>4. /\ entry' \in [Threads -> Entries \cup {NoEntry}]
        /\ \A u \in Threads : pc'[u] # "ready" => entry'[u] \in Entries
        /\ waking' \in Nat
        /\ pc' \in [Threads -> {"ready", "polling", "relock", "waking"}]
    <3>1. CASE /\ waking < Len(sleeping)
               /\ entry' = [entry EXCEPT ![t] = Chosen]
               /\ waking' = waking + 1
               /\ pc' = [pc EXCEPT ![t] = "waking"]
      BY <2>3, <3>1
    <3>2. CASE UNCHANGED <<entry, waking, pc>>
      BY <3>2
    <3> QED
      BY <1>6, <3>1, <3>2 DEF Put
  <2> QED
    BY <1>6, <2>1, <2>2, <2>4 DEF Put
<1>7. ASSUME NEW t \in Threads, PutWake(t)
      PROVE  TypeOK'
  <2>1. entry[t].pair \in Pairs /\ entry[t].thread \in Threads
    BY <1>7 DEF PutWake, Entries
  <2>2. pipe' \in [Pairs -> Seq(Threads)]
    BY <1>7, <2>1, AppendIndexes DEF PutWake
  <2> QED
    BY <1>7, <2>2 DEF PutWake
<1>8. ASSUME NEW t \in Threads, Close(t)
      PROVE  TypeOK'
  <2>1. \A p \in Pairs : (\E k \in Unwoken : sleeping[k].pair = p)
                           => sleeping[Woken(p)].thread \in Threads
    <3> SUFFICES ASSUME NEW p \in Pairs, \E k \in Unwoken : sleeping[k].pair = p
                 PROVE  sleeping[Woken(p)].thread \in Threads
      OBVIOUS
    <3>1. Woken(p) \in DOMAIN sleeping
      BY DEF Woken, Unwoken
    <3>2. sleeping[Woken(p)] \in Entries
      BY <3>1, ElementOfSeq, LenProperties
    <3> QED
      BY <3>2 DEF Entries
  <2>2. pipe' \in [Pairs -> Seq(Threads)]
    BY <1>8, <2>1, AppendIndexes DEF Close
  <2>3. waking' \in Nat
    BY <1>8 DEF Close
  <2> QED
    BY <1>8, <2>2, <2>3 DEF Close
<1>9. CASE UNCHANGED vars
  BY <1>9 DEF vars
<1> QED
  BY <1>1, <1>2, <1>3, <1>4, <1>5, <1>6, <1>7, <1>8, <1>9, LatchAssumption DEF Next

LEMMA InitSleepers == Init => SleepersExact
  BY DEF Init, SleepersExact, InGet

LEMMA SleepingEntries ==
  ASSUME TypeOK
  PROVE  /\ Len(sleeping) \in Nat
         /\ DOMAIN sleeping = 1..Len(sleeping)
         /\ \A k \in 1..Len(sleeping) : /\ sleeping[k] \in Entries
                                        /\ sleeping[k].thread \in Threads
                                        /\ sleeping[k].pair \in Pairs
<1>1. sleeping \in Seq(Entries)
  BY DEF TypeOK
<1>2. \A k \in 1..Len(sleeping) : sleeping[k] \in Entries
  BY <1>1, ElementOfSeq
<1> QED
  BY <1>1, <1>2, LenProperties DEF Entries

\* SleepersExact of a list of n entries, spelled out for either state.
LEMMA SleepersUnfold ==
  ASSUME TypeOK
  PROVE  SleepersExact <=>
           /\ \A u \in Threads : pc[u] \in {"polling", "relock"} =>
                /\ entry[u].thread = u
                /\ \E k \in 1..Len(sleeping) : sleeping[k] = entry[u]
           /\ \A k \in 1..Len(sleeping) :
                /\ pc[sleeping[k].thread] \in {"polling", "relock"}
                /\ sleeping[k] = entry[sleeping[k].thread]
                /\ sleeping[k].pair \in made \ idle
           /\ \A j, k \in 1..Len(sleeping) : sleeping[j].pair = sleeping[k].pair => j = k
<1>1. DOMAIN sleeping = 1..Len(sleeping)
  BY SleepingEntries
<1> QED
  BY <1>1 DEF SleepersExact, InGet

LEMMA NextSleepers == TypeOK /\ SleepersExact /\ [Next]_vars => SleepersExact'
<1> SUFFICES ASSUME TypeOK, SleepersExact, [Next]_vars
             PROVE  SleepersExact'
  OBVIOUS
<1> DEFINE n == Len(sleeping)
           Inside(u)  == pc[u] \in {"polling", "relock"}
           Inside2(u) == pc'[u] \in {"polling", "relock"}
<1>a. TypeOK'
  BY NextTyped
<1>b. /\ n \in Nat
      /\ DOMAIN sleeping = 1..n
      /\ \A k \in 1..n : /\ sleeping[k] \in Entries
                         /\ sleeping[k].thread \in Threads
                         /\ sleeping[k].pair \in Pairs
  BY SleepingEntries
<1>c. /\ \A u \in Threads : Inside(u) => /\ entry[u].thread = u
                                         /\ \E k \in 1..n : sleeping[k] = entry[u]
      /\ \A k \in 1..n : /\ Inside(sleeping[k].thread)
                         /\ sleeping[k] = entry[sleeping[k].thread]
                         /\ sleeping[k].pair \in made \ idle
      /\ \A j, k \in 1..n : sleeping[j].pair = sleeping[k].pair => j = k
  BY SleepersUnfold
<1>d. DOMAIN sleeping' = 1..Len(sleeping')
  BY <1>a, LenProperties DEF TypeOK
<1>e. SUFFICES /\ \A u \in Threads : Inside2(u) =>
                    /\ entry'[u].thread = u
                    /\ \E k \in 1..Len(sleeping') : sleeping'[k] = entry'[u]
               /\ \A k \in 1..Len(sleeping') :
                    /\ Inside2(sleeping'[k].thread)
                    /\ sleeping'[k] = entry'[sleeping'[k].thread]
                    /\ sleeping'[k].pair \in made' \ idle'
               /\ \A j, k \in 1..Len(sleeping') :
                    sleeping'[j].pair = sleeping'[k].pair => j = k
  BY <1>d DEF SleepersExact, InGet
<1> DEFINE Goal == /\ \A u \in Threads : Inside2(u) =>
                        /\ entry'[u].thread = u
                        /\ \E k \in 1..Len(sleeping') : sleeping'[k] = entry'[u]
                   /\ \A k \in 1..Len(sleeping') :
                        /\ Inside2(sleeping'[k].thread)
                        /\ sleeping'[k] = entry'[sleeping'[k].thread]
                        /\ sleeping'[k].pair \in made' \ idle'
                   /\ \A j, k \in 1..Len(sleeping') :
                        sleeping'[j].pair = sleeping'[k].pair => j = k
<1>1. ASSUME UNCHANGED <<sleeping, made, idle>>,
             \A u \in Threads : Inside2(u) <=> Inside(u),
             \A u \in Threads : Inside(u) => entry'[u] = entry[u]
      PROVE  Goal
  <2> HIDE DEF Inside, Inside2
  <2> QED
    BY <1>1, <1>b, <1>c
<1>2. ASSUME NEW t \in Threads,
             \/ GetClosed(t) \/ GetNow(t) \/ GetEmpty(t) \/ PollReadable(t)
             \/ PollTimeout(t) \/ Put(t) \/ PutWake(t) \/ Close(t)
      PROVE  Goal
  <2>1. /\ UNCHANGED <<sleeping, made, idle>>
        /\ \A u \in Threads : Inside2(u) <=> Inside(u)
        /\ \A u \in Threads : Inside(u) => entry'[u] = entry[u]
    BY <1>2 DEF GetClosed, GetNow, GetEmpty, PollReadable, PollTimeout, Put,
                PutWake, Close, TypeOK
  <2> QED
    BY <1>1, <2>1
<1>3. ASSUME NEW t \in Threads, NEW p \in Pairs, GetSleep(t, p)
      PROVE  Goal
  <2> DEFINE e == [pair |-> p, thread |-> t]
  <2>1. /\ e \in Entries
        /\ Len(sleeping') = n + 1
        /\ \A k \in 1..n : sleeping'[k] = sleeping[k]
        /\ sleeping'[n + 1] = e
    BY <1>3, AppendIndexes DEF GetSleep, Entries, TypeOK
  <2>2. /\ \A k \in 1..n : sleeping[k].pair # p /\ sleeping[k].thread # t
        /\ p \in made' \ idle'
        /\ \A q \in made \ idle : q \in made' \ idle'
    <3>1. \A k \in 1..n : sleeping[k].thread # t
      BY <1>3, <1>c DEF GetSleep
    <3>2. p \notin made \ idle
      BY <1>3 DEF GetSleep, GetSocketpair
    <3>3. /\ p \in made' \ idle'
          /\ \A q \in made \ idle : q \in made' \ idle'
      BY <1>3 DEF GetSleep, GetSocketpair, TypeOK
    <3> QED
      BY <1>c, <3>1, <3>2, <3>3
  <2>3. \A u \in Threads : /\ Inside2(u) <=> (u = t \/ Inside(u))
                           /\ u # t => entry'[u] = entry[u]
    BY <1>3 DEF GetSleep, TypeOK
  <2>4. entry'[t] = e
    BY <1>3 DEF GetSleep, TypeOK
  <2> HIDE DEF e, Inside, Inside2
  <2>5. e.pair = p /\ e.thread = t
    BY DEF e
  <2>6. \A k \in 1..(n + 1) : k \in 1..n \/ k = n + 1
    BY <1>b
  <2>7. \A u \in Threads : Inside2(u) => /\ entry'[u].thread = u
                                         /\ \E k \in 1..(n + 1) : sleeping'[k] = entry'[u]
    <3> SUFFICES ASSUME NEW u \in Threads, Inside2(u)
                 PROVE  /\ entry'[u].thread = u
                        /\ \E k \in 1..(n + 1) : sleeping'[k] = entry'[u]
      OBVIOUS
    <3>1. CASE u = t
      BY <1>b, <2>1, <2>4, <2>5, <3>1
    <3>2. CASE u # t
      <4>1. PICK k \in 1..n : sleeping[k] = entry[u]
        BY <1>c, <2>3, <3>2
      <4>2. k \in 1..(n + 1)
        BY <1>b
      <4> QED
        BY <1>c, <2>1, <2>3, <3>2, <4>1, <4>2
    <3> QED
      BY <3>1, <3>2
  <2>8. \A k \in 1..(n + 1) : /\ Inside2(sleeping'[k].thread)
                              /\ sleeping'[k] = entry'[sleeping'[k].thread]
                              /\ sleeping'[k].pair \in made' \ idle'
    BY <1>b, <1>c, <2>1, <2>2, <2>3, <2>4, <2>5, <2>6
  <2>9. \A j, k \in 1..(n + 1) : sleeping'[j].pair = sleeping'[k].pair => j = k
    BY <1>c, <2>1, <2>2, <2>5, <2>6
  <2> QED
    BY <2>1, <2>7, <2>8, <2>9
<1>4. ASSUME NEW t \in Threads, GetWake(t)
      PROVE  Goal
  <2>1. PICK k \in 1..n :
          /\ LeaveSleep(t, k)
          /\ entry[t] = sleeping[k]
          /\ Len(sleeping') = n - 1
          /\ \A j \in 1..(n - 1) :
               sleeping'[j] = IF j < k THEN sleeping[j] ELSE sleeping[j + 1]
    BY <1>4, Leaving
  <2>2. sleeping[k].thread = t /\ \A j \in 1..n : j # k => sleeping[j].thread # t
    <3>1. Inside(t)
      BY <2>1 DEF LeaveSleep
    <3> QED
      BY <1>c, <2>1, <3>1
  <2>3. \A u \in Threads : /\ Inside2(u) <=> (Inside(u) /\ u # t)
                           /\ u # t => entry'[u] = entry[u]
    BY <2>1 DEF LeaveSleep, TypeOK
  <2>4. \A q \in made \ idle : q # sleeping[k].pair => q \in made' \ idle'
    BY <2>1 DEF LeaveSleep
  <2> HIDE DEF Inside, Inside2
  <2> DEFINE f(x) == IF x < k THEN x ELSE x + 1
  <2>5. \A j \in 1..(n - 1) : /\ f(j) \in 1..n /\ f(j) # k
                              /\ sleeping'[j] = sleeping[f(j)]
    BY <1>b, <2>1
  <2>6. \A i, j \in 1..(n - 1) : f(i) = f(j) => i = j
    BY <1>b
  <2>7. \A i \in 1..n : i # k => \E j \in 1..(n - 1) : f(j) = i
    <3> SUFFICES ASSUME NEW i \in 1..n, i # k
                 PROVE  \E j \in 1..(n - 1) : f(j) = i
      OBVIOUS
    <3>1. CASE i < k
      <4>1. i \in 1..(n - 1) /\ f(i) = i
        BY <1>b, <3>1
      <4> QED
        BY <4>1
    <3>2. CASE ~(i < k)
      <4>1. i - 1 \in 1..(n - 1) /\ f(i - 1) = i
        BY <1>b, <3>2
      <4> QED
        BY <4>1
    <3> QED
      BY <3>1, <3>2
  <2> HIDE DEF f
  <2>8. \A u \in Threads : Inside2(u) =>
          /\ entry'[u].thread = u
          /\ \E j \in 1..(n - 1) : sleeping'[j] = entry'[u]
    <3> SUFFICES ASSUME NEW u \in Threads, Inside2(u)
                 PROVE  /\ entry'[u].thread = u
                        /\ \E j \in 1..(n - 1) : sleeping'[j] = entry'[u]
      OBVIOUS
    <3>1. u # t /\ entry'[u] = entry[u] /\ entry[u].thread = u
      BY <1>c, <2>3
    <3>2. PICK i \in 1..n : sleeping[i] = entry[u]
      BY <1>c, <2>3
    <3>3. PICK j \in 1..(n - 1) : f(j) = i
      BY <2>2, <2>7, <3>1, <3>2
    <3> QED
      BY <2>5, <3>1, <3>2, <3>3
  <2>9. \A j \in 1..(n - 1) : /\ Inside2(sleeping'[j].thread)
                              /\ sleeping'[j] = entry'[sleeping'[j].thread]
                              /\ sleeping'[j].pair \in made' \ idle'
    <3> SUFFICES ASSUME NEW j \in 1..(n - 1)
                 PROVE  /\ Inside2(sleeping'[j].thread)
                        /\ sleeping'[j] = entry'[sleeping'[j].thread]
                        /\ sleeping'[j].pair \in made' \ idle'
      OBVIOUS
    <3>1. f(j) \in 1..n /\ f(j) # k /\ sleeping'[j] = sleeping[f(j)]
      BY <2>5
    <3>2. sleeping[f(j)].pair # sleeping[k].pair
      BY <1>c, <3>1
    <3> QED
      BY <1>b, <1>c, <2>2, <2>3, <2>4, <3>1, <3>2
  <2>10. \A i, j \in 1..(n - 1) : sleeping'[i].pair = sleeping'[j].pair => i = j
    <3> SUFFICES ASSUME NEW i \in 1..(n - 1), NEW j \in 1..(n - 1),
                        sleeping'[i].pair = sleeping'[j].pair
                 PROVE  i = j
      OBVIOUS
    <3>0. /\ f(i) \in 1..n /\ sleeping[f(i)] = sleeping'[i]
          /\ f(j) \in 1..n /\ sleeping[f(j)] = sleeping'[j]
      BY <2>5
    <3>1. f(i) = f(j)
      BY <1>c, <3>0
    <3> QED
      BY <2>6, <3>1
  <2> QED
    BY <2>1, <2>8, <2>9, <2>10
<1>5. CASE UNCHANGED vars
  BY <1>1, <1>5 DEF vars
<1> QED
  BY <1>2, <1>3, <1>4, <1>5, LatchAssumption DEF Next

\* The latch's fields and the locals of every call keep their types, and
\* _sleeping lists exactly the calls asleep in get(), each with a socketpair of
\* its own, however many of them time out.
THEOREM SleepersCorrect == Spec => [](TypeOK /\ SleepersExact)
<1>1. Init => TypeOK /\ SleepersExact
  BY InitTyped, InitSleepers
<1>2. (TypeOK /\ SleepersExact) /\ [Next]_vars => (TypeOK /\ SleepersExact)'
  BY NextTyped, NextSleepers
<1> QED
  BY <1>1, <1>2, PTL DEF Spec

-----------------------------------------------------------------------------
(* Without timeouts *)

\* How the indexes of _sleeping move when entry k leaves, seen from the entries
\* that stay: those among the first w stay among the first w - 1.
LEMMA LeavingIndexes ==
  ASSUME TypeOK, NEW t \in Threads, GetWake(t)
  PROVE  \E k \in 1..Len(sleeping) :
           /\ LeaveSleep(t, k)
           /\ \/ WakeTimeout(t, k) \/ WakeAssert(t, k)
              \/ WakeClosed(t, k)  \/ WakeItem(t, k)
           /\ entry[t] = sleeping[k]
           /\ Len(sleeping') = Len(sleeping) - 1
           /\ \A j \in 1..(Len(sleeping) - 1) : \E i \in 1..Len(sleeping) :
                /\ i # k /\ sleeping'[j] = sleeping[i]
                /\ \A w \in Nat : k <= w /\ j <= w - 1 => i <= w
           /\ \A i \in 1..Len(sleeping) : i # k =>
                \E j \in 1..(Len(sleeping) - 1) :
                  /\ sleeping'[j] = sleeping[i]
                  /\ \A w \in Nat : k <= w /\ i <= w => j <= w - 1
<1> DEFINE n == Len(sleeping)
<1>1. PICK k \in 1..n :
        /\ LeaveSleep(t, k)
        /\ \/ WakeTimeout(t, k) \/ WakeAssert(t, k)
           \/ WakeClosed(t, k)  \/ WakeItem(t, k)
        /\ entry[t] = sleeping[k]
        /\ Len(sleeping') = n - 1
        /\ \A j \in 1..(n - 1) :
             sleeping'[j] = IF j < k THEN sleeping[j] ELSE sleeping[j + 1]
  BY Leaving
<1>2. n \in Nat
  BY SleepingEntries
<1> HIDE DEF n
<1>3. ASSUME NEW j \in 1..(n - 1)
      PROVE  \E i \in 1..n : /\ i # k /\ sleeping'[j] = sleeping[i]
                             /\ \A w \in Nat : k <= w /\ j <= w - 1 => i <= w
  <2>1. CASE j < k
    <3>1. j \in 1..n /\ j # k /\ sleeping'[j] = sleeping[j]
      BY <1>1, <1>2, <2>1
    <3> QED
      BY <3>1
  <2>2. CASE ~(j < k)
    <3>1. j + 1 \in 1..n /\ j + 1 # k /\ sleeping'[j] = sleeping[j + 1]
      BY <1>1, <1>2, <2>2
    <3>2. \A w \in Nat : j <= w - 1 => j + 1 <= w
      BY <1>2
    <3> QED
      BY <3>1, <3>2
  <2> QED
    BY <2>1, <2>2
<1>4. ASSUME NEW i \in 1..n, i # k
      PROVE  \E j \in 1..(n - 1) : /\ sleeping'[j] = sleeping[i]
                                   /\ \A w \in Nat : k <= w /\ i <= w => j <= w - 1
  <2>1. CASE i < k
    <3>1. i \in 1..(n - 1) /\ sleeping'[i] = sleeping[i]
      BY <1>1, <1>2, <2>1
    <3>2. \A w \in Nat : k <= w => i <= w - 1
      BY <1>2, <2>1
    <3> QED
      BY <3>1, <3>2
  <2>2. CASE ~(i < k)
    <3>1. i - 1 \in 1..(n - 1) /\ ~(i - 1 < k) /\ (i - 1) + 1 = i
      BY <1>2, <1>4, <2>2
    <3>2. sleeping'[i - 1] = sleeping[i]
      BY <1>1, <3>1
    <3>3. \A w \in Nat : i <= w => i - 1 <= w - 1
      BY <1>2
    <3> QED
      BY <3>1, <3>2, <3>3
  <2> QED
    BY <2>1, <2>2
<1> QED
  BY <1>1, <1>3, <1>4 DEF n

\* The inductive invariant.
LatchInv == TypeOK /\ SleepersExact /\ Cookies /\ Assigned

LEMMA InitLatchInv == Init => LatchInv
<1> SUFFICES ASSUME Init
             PROVE  Cookies /\ Assigned
  BY InitTyped, InitSleepers DEF LatchInv
<1> QED
  BY DEF Init, Cookies, PipeCookies, PutCookies, DueCookies, SeenCookies, Assigned

\* A thread that leaves poll() and takes the lock finds its own cookie, alone in
\* its socketpair, and has been assigned an item.
LEMMA WakesWithCookie ==
  ASSUME LatchInv, NEW t \in Threads, NEW k \in 1..Len(sleeping), LeaveSleep(t, k)
  PROVE  /\ pipe[sleeping[k].pair] = <<t>>
         /\ pipe[sleeping[k].pair] # <<>>
         /\ k <= waking
         /\ sleeping[k].thread = t
<1> USE DEF LatchInv
<1>1. entry[t] = sleeping[k] /\ pc[t] = "relock"
  BY DEF LeaveSleep
<1>2. pipe[sleeping[k].pair] # <<>>
  BY <1>1 DEF Cookies, SeenCookies
<1>3. PICK j \in 1..Len(sleeping) : /\ j <= waking
                                    /\ sleeping[j].pair = sleeping[k].pair
                                    /\ pipe[sleeping[k].pair] = <<sleeping[j].thread>>
  BY <1>2, SleepingEntries DEF Cookies, PipeCookies
<1>4. j = k
  BY <1>3, SleepersUnfold
<1>5. sleeping[k].thread = t
  BY <1>1, SleepersUnfold
<1> QED
  BY <1>2, <1>3, <1>4, <1>5

LEMMA NextWakes ==
  ASSUME LatchInv, TypeOK', SleepersExact', NEW t \in Threads, GetWake(t)
  PROVE  /\ Cookies'
         /\ Assigned'
         /\ result'[t].st \notin {"cookie", "unassigned", "index"}
         /\ \A u \in Threads : u # t => result'[u] = result[u]
<1> DEFINE n == Len(sleeping)
<1>1. /\ TypeOK /\ SleepersExact /\ n \in Nat
      /\ DOMAIN sleeping = 1..n
      /\ \A k \in 1..n : sleeping[k].thread \in Threads /\ sleeping[k].pair \in Pairs
      /\ \A j, k \in 1..n : sleeping[j].pair = sleeping[k].pair => j = k
  BY SleepingEntries, SleepersUnfold DEF LatchInv
<1>2. PICK k \in 1..n :
        /\ LeaveSleep(t, k)
        /\ \/ WakeTimeout(t, k) \/ WakeAssert(t, k)
           \/ WakeClosed(t, k)  \/ WakeItem(t, k)
        /\ entry[t] = sleeping[k]
        /\ Len(sleeping') = n - 1
        /\ \A j \in 1..(n - 1) : \E i \in 1..n :
             /\ i # k /\ sleeping'[j] = sleeping[i]
             /\ \A w \in Nat : k <= w /\ j <= w - 1 => i <= w
        /\ \A i \in 1..n : i # k => \E j \in 1..(n - 1) :
             /\ sleeping'[j] = sleeping[i]
             /\ \A w \in Nat : k <= w /\ i <= w => j <= w - 1
  BY <1>1, LeavingIndexes
<1> DEFINE p == sleeping[k].pair
<1>3. pipe[p] = <<t>> /\ pipe[p] # <<>> /\ k <= waking /\ sleeping[k].thread = t
  BY <1>2, WakesWithCookie
<1>4. /\ DOMAIN sleeping' = 1..(n - 1)
      /\ waking \in Nat /\ Len(queue) \in Nat
      /\ waking <= n
      /\ ~closed => waking <= Len(queue) /\ (waking < n => Len(queue) = waking)
      /\ closed => waking = n
  <2>1. DOMAIN sleeping' = 1..(n - 1)
    BY <1>2, LenProperties DEF TypeOK
  <2>2. waking \in Nat /\ Len(queue) \in Nat
    BY <1>1, LenProperties DEF TypeOK
  <2> QED
    BY <2>1, <2>2 DEF LatchInv, Assigned
<1>5. \/ /\ closed
         /\ UNCHANGED queue
         /\ result' = [result EXCEPT ![t] = Outcome("closed")]
      \/ /\ ~closed
         /\ queue' = RemoveAt(queue, k)
         /\ result' = [result EXCEPT ![t] = Got(queue[k])]
  BY <1>2, <1>3, <1>4 DEF WakeTimeout, WakeAssert, WakeClosed, WakeItem, Recv
<1>6. waking' = waking - 1 /\ pipe' = [pipe EXCEPT ![p] = <<>>]
  BY <1>2, <1>3, <1>4 DEF WakeTimeout, WakeAssert, WakeClosed, WakeItem, Recv
<1>7. /\ closed' = closed
      /\ \A u \in Threads : u # t => pc'[u] = pc[u] /\ entry'[u] = entry[u]
      /\ pc'[t] = "ready" /\ pc[t] = "relock"
  BY <1>1, <1>2 DEF LeaveSleep, TypeOK
<1>8. /\ \A q \in Pairs : pipe'[q] = IF q = p THEN <<>> ELSE pipe[q]
      /\ p \in Pairs
  BY <1>1, <1>6 DEF TypeOK
<1> HIDE DEF n, p
<1>9. PipeCookies'
  <2> SUFFICES ASSUME NEW q \in Pairs, pipe'[q] # <<>>
               PROVE  \E j \in 1..(n - 1) : /\ j <= waking - 1
                                            /\ sleeping'[j].pair = q
                                            /\ pipe'[q] = <<sleeping'[j].thread>>
    BY <1>4, <1>6 DEF PipeCookies
  <2>1. q # p /\ pipe'[q] = pipe[q]
    BY <1>8
  <2>2. PICK i \in 1..n : /\ i <= waking
                          /\ sleeping[i].pair = q
                          /\ pipe[q] = <<sleeping[i].thread>>
    BY <1>1, <2>1 DEF LatchInv, Cookies, PipeCookies
  <2>3. i # k
    BY <2>1, <2>2 DEF p
  <2>4. PICK j \in 1..(n - 1) : /\ sleeping'[j] = sleeping[i]
                                /\ \A w \in Nat : k <= w /\ i <= w => j <= w - 1
    BY <1>2, <2>3
  <2>5. j <= waking - 1
    BY <1>3, <1>4, <2>2, <2>4
  <2> QED
    BY <2>1, <2>2, <2>4, <2>5
<1>10. PutCookies'
  <2> SUFFICES ASSUME NEW u \in Threads, pc'[u] = "waking"
               PROVE  /\ \E j \in 1..(n - 1) : j <= waking - 1 /\ sleeping'[j] = entry'[u]
                      /\ pipe'[entry'[u].pair] = <<>>
                      /\ \A v \in Threads \ {u} : pc'[v] = "waking" => entry'[v] # entry'[u]
    BY <1>4, <1>6 DEF PutCookies
  <2>1. u # t /\ pc[u] = "waking" /\ entry'[u] = entry[u]
    BY <1>7
  <2>2. PICK i \in 1..n : i <= waking /\ sleeping[i] = entry[u]
    BY <1>1, <2>1 DEF LatchInv, Cookies, PutCookies
  <2>3. pipe[entry[u].pair] = <<>>
    BY <2>1 DEF LatchInv, Cookies, PutCookies
  <2>4. i # k
    BY <1>3, <2>2, <2>3 DEF p
  <2>5. pipe'[entry'[u].pair] = <<>>
    BY <1>1, <1>8, <2>1, <2>2, <2>3
  <2>6. \E j \in 1..(n - 1) : j <= waking - 1 /\ sleeping'[j] = entry'[u]
    BY <1>2, <1>3, <1>4, <2>1, <2>2, <2>4
  <2>7. ASSUME NEW v \in Threads \ {u}, pc'[v] = "waking"
        PROVE  entry'[v] # entry'[u]
    <3>1. v # t /\ pc[v] = "waking" /\ entry'[v] = entry[v]
      BY <1>7, <2>7
    <3> QED
      BY <2>1, <3>1 DEF LatchInv, Cookies, PutCookies
  <2> QED
    BY <2>5, <2>6, <2>7
<1>11. DueCookies'
  <2> SUFFICES ASSUME NEW j \in 1..(n - 1), j <= waking - 1
               PROVE  \/ pipe'[sleeping'[j].pair] # <<>>
                      \/ \E u \in Threads : pc'[u] = "waking" /\ entry'[u] = sleeping'[j]
    BY <1>4, <1>6 DEF DueCookies
  <2>1. PICK i \in 1..n : i # k /\ sleeping'[j] = sleeping[i] /\ i <= waking
    BY <1>2, <1>3, <1>4
  <2>2. sleeping[i].pair # p /\ sleeping[i].pair \in Pairs
    BY <1>1, <2>1 DEF p
  <2>3. \/ pipe[sleeping[i].pair] # <<>>
        \/ \E u \in Threads : pc[u] = "waking" /\ entry[u] = sleeping[i]
    BY <1>1, <2>1 DEF LatchInv, Cookies, DueCookies
  <2> QED
    BY <1>7, <1>8, <2>1, <2>2, <2>3
<1>12. SeenCookies'
  <2> SUFFICES ASSUME NEW u \in Threads, pc'[u] = "relock"
               PROVE  pipe'[entry'[u].pair] # <<>>
    BY DEF SeenCookies
  <2>1. u # t /\ pc[u] = "relock" /\ entry'[u] = entry[u]
    BY <1>7
  <2>2. PICK i \in 1..n : sleeping[i] = entry[u] /\ entry[u].thread = u
    BY <1>1, <2>1, SleepersUnfold DEF n
  <2>3. sleeping[i].pair # p /\ sleeping[i].pair \in Pairs
    BY <1>1, <1>3, <2>1, <2>2 DEF p
  <2>4. pipe[entry[u].pair] # <<>>
    BY <2>1 DEF LatchInv, Cookies, SeenCookies
  <2> QED
    BY <1>8, <2>1, <2>2, <2>3, <2>4
<1>13. Assigned'
  <2>1. CASE closed
    BY <1>1, <1>2, <1>4, <1>6, <1>7, <2>1 DEF Assigned
  <2>2. CASE ~closed
    <3>1. k \in 1..Len(queue)
      BY <1>1, <1>3, <1>4, <2>2
    <3>2. Len(queue') = Len(queue) - 1
      BY <1>1, <1>5, <2>2, <3>1, RemoveAtProperties DEF TypeOK
    <3> QED
      BY <1>1, <1>2, <1>3, <1>4, <1>6, <1>7, <2>2, <3>2 DEF Assigned
  <2> QED
    BY <2>1, <2>2
<1>14. /\ result'[t].st \notin {"cookie", "unassigned", "index"}
       /\ \A u \in Threads : u # t => result'[u] = result[u]
  BY <1>1, <1>5 DEF TypeOK, Outcome, Got
<1> QED
  BY <1>9, <1>10, <1>11, <1>12, <1>13, <1>14 DEF Cookies

LEMMA NextPut ==
  ASSUME LatchInv, TypeOK', NEW t \in Threads, Put(t)
  PROVE  Cookies' /\ Assigned'
<1> DEFINE n == Len(sleeping)
           c == waking + 1
<1>1. /\ TypeOK /\ SleepersExact /\ Cookies /\ Assigned /\ n \in Nat /\ waking \in Nat
      /\ DOMAIN sleeping = 1..n
      /\ \A k \in 1..n : sleeping[k].thread \in Threads /\ sleeping[k].pair \in Pairs
      /\ \A j, k \in 1..n : sleeping[j].pair = sleeping[k].pair => j = k
      /\ Len(queue) \in Nat
  BY SleepingEntries, SleepersUnfold, LenProperties DEF LatchInv, TypeOK
<1>2. /\ pc[t] = "ready" /\ ~closed /\ ~closed'
      /\ UNCHANGED <<sleeping, pipe>>
      /\ Len(queue') = Len(queue) + 1
  <2>1. accepted' \in 1..MaxPuts
    BY LatchAssumption DEF LatchAssumption, Put, TypeOK, LatchInv
  <2> QED
    BY <1>1, <2>1, AppendIndexes DEF Put, TypeOK
<1>3. /\ waking <= n /\ waking <= Len(queue)
      /\ waking < n => Len(queue) = waking
  BY <1>1, <1>2 DEF Assigned
<1>4. CASE waking >= n
  <2>1. UNCHANGED <<entry, waking, pc>>
    BY <1>1, <1>4 DEF Put
  <2>2. Cookies'
    BY <1>1, <1>2, <2>1 DEF Cookies, PipeCookies, PutCookies, DueCookies, SeenCookies
  <2>3. /\ waking' <= Len(sleeping') /\ waking' <= Len(queue')
        /\ waking' < Len(sleeping') => Len(queue') = waking'
    BY <1>1, <1>2, <1>3, <1>4, <2>1
  <2>4. Assigned'
    BY <1>2, <2>3 DEF Assigned
  <2> QED
    BY <2>2, <2>4
<1>5. CASE waking < n
  <2>1. /\ entry' = [entry EXCEPT ![t] = sleeping[c]]
        /\ waking' = waking + 1
        /\ pc' = [pc EXCEPT ![t] = "waking"]
        /\ c \in 1..n
    BY <1>1, <1>5 DEF Put, Chosen
  <2>2. /\ entry'[t] = sleeping[c] /\ pc'[t] = "waking"
        /\ \A u \in Threads : u # t => entry'[u] = entry[u] /\ pc'[u] = pc[u]
    BY <1>1, <2>1 DEF TypeOK
  <2>3. pipe[sleeping[c].pair] = <<>>
    BY <1>1, <2>1 DEF Cookies, PipeCookies
  <2> HIDE DEF n, c
  <2>4. PipeCookies'
    BY <1>1, <1>2, <2>1 DEF Cookies, PipeCookies
  <2>5. PutCookies'
    <3> SUFFICES ASSUME NEW u \in Threads, pc'[u] = "waking"
                 PROVE  /\ \E k \in 1..n : k <= waking + 1 /\ sleeping[k] = entry'[u]
                        /\ pipe[entry'[u].pair] = <<>>
                        /\ \A v \in Threads \ {u} : pc'[v] = "waking" => entry'[v] # entry'[u]
      BY <1>1, <1>2, <2>1 DEF PutCookies
    <3>1. \A v \in Threads : v # t /\ pc'[v] = "waking" =>
            /\ pc[v] = "waking" /\ entry'[v] = entry[v]
            /\ \E k \in 1..n : k <= waking /\ sleeping[k] = entry[v]
            /\ pipe[entry[v].pair] = <<>>
            /\ entry'[v] # entry'[t]
      <4> SUFFICES ASSUME NEW v \in Threads, v # t, pc'[v] = "waking"
                   PROVE  /\ pc[v] = "waking" /\ entry'[v] = entry[v]
                          /\ \E k \in 1..n : k <= waking /\ sleeping[k] = entry[v]
                          /\ pipe[entry[v].pair] = <<>>
                          /\ entry'[v] # entry'[t]
        OBVIOUS
      <4>1. pc[v] = "waking" /\ entry'[v] = entry[v]
        BY <2>2
      <4>2. PICK k \in 1..n : k <= waking /\ sleeping[k] = entry[v]
        BY <1>1, <4>1 DEF Cookies, PutCookies
      <4>3. k # c
        BY <1>1, <4>2 DEF c
      <4>4. sleeping[k] # sleeping[c]
        BY <1>1, <2>1, <4>3
      <4> QED
        BY <1>1, <2>2, <4>1, <4>2, <4>4 DEF Cookies, PutCookies
    <3>2. CASE u = t
      BY <1>1, <2>1, <2>2, <2>3, <3>1, <3>2 DEF c
    <3>3. CASE u # t
      <4>1. PICK k \in 1..n : k <= waking /\ sleeping[k] = entry[u]
        BY <3>1, <3>3
      <4>2. k <= waking + 1
        BY <1>1, <4>1
      <4>3. \A v \in Threads \ {u} : pc'[v] = "waking" => entry'[v] # entry'[u]
        BY <1>1, <2>2, <3>1, <3>3 DEF Cookies, PutCookies
      <4> QED
        BY <3>1, <3>3, <4>1, <4>2, <4>3
    <3> QED
      BY <3>2, <3>3
  <2>6. DueCookies'
    <3> SUFFICES ASSUME NEW k \in 1..n, k <= waking + 1
                 PROVE  \/ pipe[sleeping[k].pair] # <<>>
                        \/ \E u \in Threads : pc'[u] = "waking" /\ entry'[u] = sleeping[k]
      BY <1>1, <1>2, <2>1 DEF DueCookies
    <3>1. CASE k = c
      BY <2>2, <3>1
    <3>2. CASE k # c
      <4>1. k <= waking
        BY <1>1, <3>2 DEF c
      <4> QED
        BY <1>1, <1>2, <2>2, <4>1 DEF Cookies, DueCookies
    <3> QED
      BY <3>1, <3>2
  <2>7. SeenCookies'
    BY <1>1, <1>2, <2>2 DEF Cookies, SeenCookies
  <2>8. Assigned'
    <3>1. /\ waking' <= Len(sleeping') /\ waking' <= Len(queue')
          /\ waking' < Len(sleeping') => Len(queue') = waking'
      BY <1>1, <1>2, <1>3, <1>5, <2>1 DEF n
    <3> QED
      BY <1>2, <3>1 DEF Assigned
  <2> QED
    BY <2>4, <2>5, <2>6, <2>7, <2>8 DEF Cookies
<1> QED
  BY <1>1, <1>4, <1>5

LEMMA NextPutWake ==
  ASSUME LatchInv, TypeOK', NEW t \in Threads, PutWake(t)
  PROVE  Cookies' /\ Assigned'
<1> DEFINE n == Len(sleeping)
<1>1. /\ TypeOK /\ SleepersExact /\ Cookies /\ Assigned /\ n \in Nat /\ waking \in Nat
      /\ DOMAIN sleeping = 1..n
      /\ \A k \in 1..n : sleeping[k].thread \in Threads /\ sleeping[k].pair \in Pairs
      /\ \A j, k \in 1..n : sleeping[j].pair = sleeping[k].pair => j = k
      /\ \A u \in Threads : pc[u] = "relock" => \E k \in 1..n : sleeping[k] = entry[u]
  BY SleepingEntries, SleepersUnfold, LenProperties DEF LatchInv, TypeOK
<1>2. PICK i \in 1..n : i <= waking /\ sleeping[i] = entry[t] /\ pipe[entry[t].pair] = <<>>
  BY <1>1 DEF PutWake, Cookies, PutCookies
<1> DEFINE p == sleeping[i].pair
<1>3. /\ \A q \in Pairs : pipe'[q] = IF q = p THEN <<sleeping[i].thread>> ELSE pipe[q]
      /\ <<sleeping[i].thread>> # <<>>
  BY <1>1, <1>2 DEF PutWake, TypeOK
<1>4. /\ UNCHANGED <<sleeping, waking, closed, queue>>
      /\ pc[t] = "waking" /\ pc'[t] = "ready"
      /\ \A u \in Threads : u # t => pc'[u] = pc[u] /\ entry'[u] = entry[u]
  BY <1>1 DEF PutWake, TypeOK
<1> HIDE DEF n
<1>5. PipeCookies'
  BY <1>1, <1>2, <1>3, <1>4 DEF Cookies, PipeCookies
<1>6. PutCookies'
  <2> SUFFICES ASSUME NEW u \in Threads, pc'[u] = "waking"
               PROVE  /\ \E k \in 1..n : k <= waking /\ sleeping[k] = entry'[u]
                      /\ pipe'[entry'[u].pair] = <<>>
                      /\ \A v \in Threads \ {u} : pc'[v] = "waking" => entry'[v] # entry'[u]
    BY <1>1, <1>4 DEF PutCookies
  <2>1. u # t /\ pc[u] = "waking" /\ entry'[u] = entry[u]
    BY <1>4
  <2>2. PICK k \in 1..n : k <= waking /\ sleeping[k] = entry[u]
    BY <1>1, <2>1 DEF Cookies, PutCookies
  <2>3. sleeping[k] # sleeping[i] /\ pipe[entry[u].pair] = <<>>
    BY <1>1, <1>2, <1>4, <2>1, <2>2 DEF Cookies, PutCookies
  <2>4. sleeping[k].pair # p /\ sleeping[k].pair \in Pairs
    BY <1>1, <2>2, <2>3
  <2>5. pipe'[entry'[u].pair] = <<>>
    BY <1>3, <2>1, <2>2, <2>3, <2>4
  <2> QED
    BY <1>1, <1>4, <2>1, <2>2, <2>5 DEF Cookies, PutCookies
<1>7. DueCookies'
  <2> SUFFICES ASSUME NEW k \in 1..n, k <= waking
               PROVE  \/ pipe'[sleeping[k].pair] # <<>>
                      \/ \E u \in Threads : pc'[u] = "waking" /\ entry'[u] = sleeping[k]
    BY <1>1, <1>4 DEF DueCookies
  <2>1. CASE k = i
    BY <1>1, <1>3, <2>1
  <2>2. CASE k # i
    <3>1. sleeping[k] # sleeping[i]
      BY <1>1, <2>2
    <3>2. \/ pipe[sleeping[k].pair] # <<>>
          \/ \E u \in Threads : pc[u] = "waking" /\ entry[u] = sleeping[k]
      BY <1>1 DEF Cookies, DueCookies
    <3> QED
      BY <1>1, <1>2, <1>3, <1>4, <3>1, <3>2
  <2> QED
    BY <2>1, <2>2
<1>8. SeenCookies'
  <2> SUFFICES ASSUME NEW u \in Threads, pc'[u] = "relock"
               PROVE  pipe'[entry'[u].pair] # <<>>
    BY DEF SeenCookies
  <2>1. u # t /\ pc[u] = "relock" /\ entry'[u] = entry[u]
    BY <1>4
  <2>2. pipe[entry[u].pair] # <<>> /\ entry[u].pair \in Pairs
    BY <1>1, <2>1 DEF Cookies, SeenCookies
  <2> QED
    BY <1>3, <2>1, <2>2
<1> QED
  BY <1>1, <1>4, <1>5, <1>6, <1>7, <1>8 DEF Cookies, Assigned

LEMMA NextClose ==
  ASSUME LatchInv, TypeOK', NEW t \in Threads, Close(t)
  PROVE  Cookies' /\ Assigned'
<1> DEFINE n == Len(sleeping)
<1>1. /\ TypeOK /\ SleepersExact /\ Cookies /\ Assigned /\ n \in Nat /\ waking \in Nat
      /\ DOMAIN sleeping = 1..n
      /\ \A k \in 1..n : sleeping[k].thread \in Threads /\ sleeping[k].pair \in Pairs
      /\ \A j, k \in 1..n : sleeping[j].pair = sleeping[k].pair => j = k
      /\ \A u \in Threads : pc[u] = "relock" => \E k \in 1..n : sleeping[k] = entry[u]
  BY SleepingEntries, SleepersUnfold, LenProperties DEF LatchInv, TypeOK
<1>2. /\ UNCHANGED <<sleeping, pc, entry>> /\ closed' = TRUE /\ waking' = n
  <2>1. waking <= n
    BY <1>1 DEF Assigned
  <2>2. UNCHANGED <<sleeping, pc, entry>> /\ closed' = TRUE
    BY DEF Close
  <2>3. waking' = IF waking < n THEN n ELSE waking
    BY DEF Close
  <2>4. waking < n \/ waking = n
    <3> HIDE DEF n
    <3> QED
      BY <1>1, <2>1
  <2>5. waking' = n
    BY <2>3, <2>4
  <2> QED
    BY <2>2, <2>5
<1>3. \A k \in 1..n : k > waking => Woken(sleeping[k].pair) = k
  BY <1>1 DEF Woken, Unwoken
<1>4. \A k \in 1..n : k > waking => pipe[sleeping[k].pair] = <<>>
  BY <1>1 DEF Cookies, PipeCookies
<1>5. \A k \in 1..n : k > waking =>
        pipe'[sleeping[k].pair] = <<sleeping[k].thread>>
  <2> SUFFICES ASSUME NEW k \in 1..n, k > waking
               PROVE  pipe'[sleeping[k].pair] = <<sleeping[k].thread>>
    OBVIOUS
  <2>1. /\ k \in Unwoken
        /\ sleeping[k].pair \in Pairs
        /\ Woken(sleeping[k].pair) = k
    BY <1>1, <1>3 DEF Unwoken
  <2>2. pipe'[sleeping[k].pair] = Append(pipe[sleeping[k].pair], sleeping[k].thread)
    BY <2>1 DEF Close
  <2>3. Append(<<>>, sleeping[k].thread) = <<sleeping[k].thread>>
    OBVIOUS
  <2> QED
    BY <1>4, <2>2, <2>3
<1>6. \A q \in Pairs : \/ pipe'[q] = pipe[q]
                       \/ \E k \in 1..n : k > waking /\ sleeping[k].pair = q
  BY <1>1 DEF Close, Unwoken
<1>7. \A k \in 1..n : k <= waking => pipe'[sleeping[k].pair] = pipe[sleeping[k].pair]
  <2> SUFFICES ASSUME NEW k \in 1..n, k <= waking
               PROVE  pipe'[sleeping[k].pair] = pipe[sleeping[k].pair]
    OBVIOUS
  <2>1. \A j \in 1..n : j > waking => sleeping[j].pair # sleeping[k].pair
    BY <1>1
  <2> QED
    BY <1>1, <1>6, <2>1
<1>8. \A k \in 1..n : <<sleeping[k].thread>> # <<>>
  OBVIOUS
<1> HIDE DEF n
<1>9. PipeCookies'
  <2> SUFFICES ASSUME NEW q \in Pairs, pipe'[q] # <<>>
               PROVE  \E k \in 1..n : /\ k <= n
                                      /\ sleeping[k].pair = q
                                      /\ pipe'[q] = <<sleeping[k].thread>>
    BY <1>1, <1>2 DEF PipeCookies
  <2>1. CASE pipe'[q] = pipe[q]
    BY <1>1, <2>1 DEF Cookies, PipeCookies
  <2>2. CASE \E k \in 1..n : k > waking /\ sleeping[k].pair = q
    <3>1. PICK k \in 1..n : k > waking /\ sleeping[k].pair = q
      BY <2>2
    <3>2. pipe'[q] = <<sleeping[k].thread>>
      BY <1>5, <3>1
    <3>3. k <= n
      BY <1>1
    <3> QED
      BY <3>1, <3>2, <3>3
  <2> QED
    BY <1>6, <2>1, <2>2
<1>10. PutCookies'
  <2> SUFFICES ASSUME NEW u \in Threads, pc[u] = "waking"
               PROVE  /\ \E k \in 1..n : k <= n /\ sleeping[k] = entry[u]
                      /\ pipe'[entry[u].pair] = <<>>
                      /\ \A v \in Threads \ {u} : pc[v] = "waking" => entry[v] # entry[u]
    BY <1>1, <1>2 DEF PutCookies
  <2>1. PICK k \in 1..n : k <= waking /\ sleeping[k] = entry[u]
    BY <1>1 DEF Cookies, PutCookies
  <2>2. pipe[entry[u].pair] = <<>>
    BY <1>1 DEF Cookies, PutCookies
  <2>3. pipe'[entry[u].pair] = <<>>
    BY <1>7, <2>1, <2>2
  <2> QED
    BY <1>1, <2>1, <2>3 DEF Cookies, PutCookies
<1>11. DueCookies'
  <2> SUFFICES ASSUME NEW k \in 1..n
               PROVE  \/ pipe'[sleeping[k].pair] # <<>>
                      \/ \E u \in Threads : pc[u] = "waking" /\ entry[u] = sleeping[k]
    BY <1>1, <1>2 DEF DueCookies
  <2>1. CASE k > waking
    BY <1>5, <1>8, <2>1
  <2>2. CASE k <= waking
    BY <1>1, <1>7, <2>2 DEF Cookies, DueCookies
  <2> QED
    BY <1>1, <2>1, <2>2
<1>12. SeenCookies'
  <2> SUFFICES ASSUME NEW u \in Threads, pc[u] = "relock"
               PROVE  pipe'[entry[u].pair] # <<>>
    BY <1>2 DEF SeenCookies
  <2>1. PICK k \in 1..n : sleeping[k] = entry[u]
    BY <1>1
  <2>2. pipe[entry[u].pair] # <<>>
    BY <1>1 DEF Cookies, SeenCookies
  <2>3. CASE k > waking
    BY <1>5, <1>8, <2>1, <2>3
  <2>4. CASE k <= waking
    BY <1>7, <2>1, <2>2, <2>4
  <2> QED
    BY <1>1, <2>3, <2>4
<1>13. Assigned'
  <2>1. waking' <= Len(sleeping') /\ waking' = Len(sleeping')
    BY <1>1, <1>2 DEF n
  <2> QED
    BY <1>2, <2>1 DEF Assigned
<1> QED
  BY <1>9, <1>10, <1>11, <1>12, <1>13 DEF Cookies

LEMMA NextOthers ==
  ASSUME LatchInv, TypeOK', NEW t \in Threads,
         \/ GetClosed(t) \/ GetNow(t) \/ GetEmpty(t) \/ PollReadable(t)
         \/ \E p \in Pairs : GetSleep(t, p)
  PROVE  Cookies' /\ Assigned'
<1> DEFINE n == Len(sleeping)
<1>1. /\ TypeOK /\ SleepersExact /\ Cookies /\ Assigned /\ n \in Nat /\ waking \in Nat
      /\ DOMAIN sleeping = 1..n
      /\ Len(queue) \in Nat
      /\ waking <= n
      /\ ~closed => waking <= Len(queue) /\ (waking < n => Len(queue) = waking)
  BY SleepingEntries, LenProperties DEF LatchInv, TypeOK, Assigned
<1>2. CASE GetClosed(t) \/ GetEmpty(t)
  <2>1. UNCHANGED <<closed, queue, sleeping, waking, pipe, pc, entry>>
    BY <1>2 DEF GetClosed, GetEmpty
  <2>2. PipeCookies' /\ PutCookies' /\ DueCookies' /\ SeenCookies'
    BY <1>1, <2>1 DEF Cookies, PipeCookies, PutCookies, DueCookies, SeenCookies
  <2>3. Assigned'
    BY <1>1, <2>1 DEF Assigned
  <2> QED
    BY <2>2, <2>3 DEF Cookies
<1>3. CASE GetNow(t)
  <2>0. UNCHANGED <<sleeping, waking, pipe, pc, entry>>
    BY <1>3 DEF GetNow
  <2>1. Cookies'
    BY <1>1, <2>0 DEF Cookies, PipeCookies, PutCookies, DueCookies, SeenCookies
  <2>2. Spare \in 1..Len(queue) /\ ~closed /\ Spare = n + 1
    BY <1>1, <1>3 DEF GetNow, Spare
  <2>3. Len(queue') = Len(queue) - 1 /\ closed' = closed /\ UNCHANGED <<sleeping, waking>>
    BY <1>1, <1>3, <2>2, RemoveAtProperties DEF GetNow, TypeOK
  <2>4. /\ waking' <= Len(sleeping') /\ waking' <= Len(queue')
        /\ waking' < Len(sleeping') => Len(queue') = waking'
    BY <1>1, <2>2, <2>3
  <2> QED
    BY <2>1, <2>2, <2>3, <2>4 DEF Assigned
<1>4. CASE PollReadable(t)
  <2>1. /\ UNCHANGED <<closed, queue, sleeping, waking, pipe, entry>>
        /\ \A u \in Threads : /\ pc'[u] = "waking" <=> pc[u] = "waking"
                              /\ pc'[u] = "relock" <=> (pc[u] = "relock" \/ u = t)
        /\ pipe[entry[t].pair] # <<>>
    BY <1>1, <1>4 DEF PollReadable, TypeOK
  <2>2. PipeCookies' /\ PutCookies'
    BY <1>1, <2>1 DEF Cookies, PipeCookies, PutCookies
  <2>3. DueCookies'
    BY <1>1, <2>1 DEF Cookies, DueCookies
  <2>4. SeenCookies'
    BY <1>1, <2>1 DEF Cookies, SeenCookies
  <2>5. Assigned'
    BY <1>1, <2>1 DEF Assigned
  <2> QED
    BY <2>2, <2>3, <2>4, <2>5 DEF Cookies
<1>5. ASSUME NEW p \in Pairs, GetSleep(t, p)
      PROVE  Cookies' /\ Assigned'
  <2> DEFINE e == [pair |-> p, thread |-> t]
  <2>1. /\ UNCHANGED <<closed, queue, waking, pipe>> /\ ~closed
        /\ \A u \in Threads : pc'[u] \in {"waking", "relock"} <=> pc[u] \in {"waking", "relock"}
        /\ \A u \in Threads : u # t => entry'[u] = entry[u] /\ pc'[u] = pc[u]
        /\ pc'[t] = "polling" /\ pc[t] = "ready"
        /\ Len(queue) <= n
    BY <1>1, <1>5 DEF GetSleep, TypeOK, Spare
  <2>2. /\ Len(sleeping') = n + 1 /\ DOMAIN sleeping' = 1..(n + 1)
        /\ \A k \in 1..n : sleeping'[k] = sleeping[k]
    <3>1. e \in Entries
      BY DEF Entries
    <3> QED
      BY <1>1, <1>5, <3>1, AppendIndexes, LenProperties DEF GetSleep, TypeOK
  <2> HIDE DEF n
  <2>3. \A k \in 1..(n + 1) : k <= waking => k \in 1..n
    BY <1>1
  <2>4. \A k \in 1..n : k \in 1..(n + 1)
    BY <1>1
  <2>5. PipeCookies'
    BY <1>1, <2>1, <2>2, <2>4 DEF Cookies, PipeCookies
  <2>6. PutCookies'
    <3> SUFFICES ASSUME NEW u \in Threads, pc'[u] = "waking"
                 PROVE  /\ \E k \in 1..(n + 1) : k <= waking /\ sleeping'[k] = entry'[u]
                        /\ pipe[entry'[u].pair] = <<>>
                        /\ \A v \in Threads \ {u} : pc'[v] = "waking" => entry'[v] # entry'[u]
      BY <2>1, <2>2 DEF PutCookies
    <3>1. u # t /\ pc[u] = "waking" /\ entry'[u] = entry[u]
      BY <2>1
    <3>2. PICK k \in 1..n : k <= waking /\ sleeping[k] = entry[u]
      BY <1>1, <3>1 DEF Cookies, PutCookies
    <3> QED
      BY <1>1, <2>1, <2>2, <2>4, <3>1, <3>2 DEF Cookies, PutCookies
  <2>7. DueCookies'
    BY <1>1, <2>1, <2>2, <2>3 DEF Cookies, DueCookies
  <2>8. SeenCookies'
    BY <1>1, <2>1 DEF Cookies, SeenCookies
  <2>9. /\ waking' <= Len(sleeping') /\ waking' <= Len(queue')
        /\ waking' < Len(sleeping') => Len(queue') = waking'
    BY <1>1, <2>1, <2>2
  <2> QED
    BY <2>1, <2>5, <2>6, <2>7, <2>8, <2>9 DEF Cookies, Assigned
<1> QED
  BY <1>2, <1>3, <1>4, <1>5

LEMMA NextLatchInv ==
  ASSUME Timed = {}, LatchInv, [Next]_vars
  PROVE  /\ LatchInv'
         /\ NoAssertFails => NoAssertFails'
<1>1. TypeOK' /\ SleepersExact'
  BY NextTyped, NextSleepers DEF LatchInv
<1>2. ASSUME NEW t \in Threads,
             \/ GetClosed(t) \/ GetNow(t) \/ GetEmpty(t) \/ PollReadable(t)
             \/ \E p \in Pairs : GetSleep(t, p)
      PROVE  /\ Cookies' /\ Assigned'
             /\ NoAssertFails => NoAssertFails'
  <2>1. Cookies' /\ Assigned'
    BY <1>1, <1>2, NextOthers
  <2>2. \/ UNCHANGED result
        \/ result' = [result EXCEPT ![t] = Outcome("closed")]
        \/ result' = [result EXCEPT ![t] = Outcome("timeout")]
        \/ result' = [result EXCEPT ![t] = Got(queue[Spare])]
    BY <1>2 DEF GetClosed, GetNow, GetEmpty, PollReadable, GetSleep
  <2>3. \A u \in Threads : \/ result'[u] = result[u]
                           \/ result'[u].st \in {"closed", "timeout", "item"}
    BY <2>2 DEF LatchInv, TypeOK, Outcome, Got
  <2> QED
    BY <2>1, <2>3 DEF NoAssertFails
<1>3. ASSUME NEW t \in Threads, Put(t) \/ PutWake(t) \/ Close(t)
      PROVE  /\ Cookies' /\ Assigned'
             /\ NoAssertFails => NoAssertFails'
  <2>1. Cookies' /\ Assigned'
    BY <1>1, <1>3, NextPut, NextPutWake, NextClose
  <2> QED
    BY <1>3, <2>1 DEF Put, PutWake, Close, NoAssertFails
<1>4. ASSUME NEW t \in Threads, GetWake(t)
      PROVE  /\ Cookies' /\ Assigned'
             /\ NoAssertFails => NoAssertFails'
  BY <1>1, <1>4, NextWakes DEF NoAssertFails
<1>6. ASSUME UNCHANGED vars
      PROVE  /\ Cookies' /\ Assigned'
             /\ NoAssertFails => NoAssertFails'
  BY <1>6 DEF vars, LatchInv, Cookies, PipeCookies, PutCookies, DueCookies, SeenCookies,
              Assigned, NoAssertFails
<1>7. Cookies' /\ Assigned' /\ (NoAssertFails => NoAssertFails')
  <2>1. CASE Next
    <3>1. PICK t \in Threads :
            \/ GetClosed(t) \/ GetNow(t) \/ GetEmpty(t)
            \/ \E p \in Pairs : GetSleep(t, p)
            \/ PollReadable(t) \/ GetWake(t)
            \/ Put(t) \/ PutWake(t) \/ Close(t)
      BY <2>1 DEF Next
    <3> QED
      BY <1>2, <1>3, <1>4, <3>1
  <2> QED
    BY <1>6, <2>1
<1> QED
  BY <1>1, <1>7 DEF LatchInv

\* Unless a get() times out, every wakeup is delivered once and to the sleeper it
\* was meant for, every chosen sleeper has an item, and nothing is left in the
\* queue while somebody waits unchosen.
THEOREM WakeupsCorrect == ASSUME Timed = {} PROVE Spec => [](Cookies /\ Assigned)
<1>1. Init => LatchInv
  BY InitLatchInv
<1>2. LatchInv /\ [Next]_vars => LatchInv'
  BY NextLatchInv
<1>3. LatchInv => Cookies /\ Assigned
  BY DEF LatchInv
<1> QED
  BY <1>1, <1>2, <1>3, PTL DEF Spec

\* Unless a get() times out, neither assertion of _get_sleep() fails and its
\* queue.pop(i) finds an item.
THEOREM AssertionsHold == ASSUME Timed = {} PROVE Spec => []NoAssertFails
<1>1. Init => LatchInv /\ NoAssertFails
  BY InitLatchInv DEF Init, NoAssertFails, Outcome
<1>2. (LatchInv /\ NoAssertFails) /\ [Next]_vars => (LatchInv /\ NoAssertFails)'
  BY NextLatchInv
<1> QED
  BY <1>1, <1>2, PTL DEF Spec

-----------------------------------------------------------------------------
(* Latch implements LatchQueue: a queue of items and a line of waiters          *)

\* The refinement mapping as operators, for either state.
Box(cl, q, sl, w) ==
  [u \in Threads |-> IF \E k \in DOMAIN sl : k <= w /\ sl[k].thread = u
                     THEN IF cl THEN Outcome("closed") ELSE Got(q[CHOOSE k \in DOMAIN sl : sl[k].thread = u])
                     ELSE Outcome("none")]
Line(sl, w) == [k \in 1..(Len(sl) - w) |-> sl[w + k].thread]
Stock(cl, q, w) == IF cl THEN <<>> ELSE SubSeq(q, w + 1, Len(q))

\* Sleepers are different threads.
SleepersDiffer(sl) == \A j, k \in 1..Len(sl) : sl[j].thread = sl[k].thread => j = k

\* What an inbox b, a line l and a stock s hold.
Handed(b, cl, q, sl, w) ==
  /\ b = [u \in Threads |-> b[u]]
  /\ \A u \in Threads : (\A k \in 1..w : sl[k].thread # u) => b[u] = Outcome("none")
  /\ \A k \in 1..w : /\ sl[k].thread \in Threads
                     /\ cl => b[sl[k].thread] = Outcome("closed")
                     /\ ~cl => b[sl[k].thread] = Got(q[k])
InLineFrom(l, sl, w) ==
  /\ l \in Seq(Threads)
  /\ Len(l) = Len(sl) - w
  /\ \A k \in 1..(Len(sl) - w) : l[k] = sl[w + k].thread
StockedFrom(s, q, w) ==
  /\ s \in Seq(1..MaxPuts)
  /\ Len(s) = Len(q) - w
  /\ \A k \in 1..(Len(q) - w) : s[k] = q[w + k]

\* Inbox b once thread u has x in it.
Given(b, u, x) == [b EXCEPT ![u] = x]

\* The refinement mapping of Latch is these three, before a step and after it.
LEMMA MappingIs ==
  /\ AbsInbox = Box(closed, queue, sleeping, waking) /\ AbsInbox' = Box(closed', queue', sleeping', waking')
  /\ AbsWaiting = Line(sleeping, waking) /\ AbsWaiting' = Line(sleeping', waking')
  /\ AbsItems = Stock(closed, queue, waking) /\ AbsItems' = Stock(closed', queue', waking')
  BY DEF AbsInbox, AbsWaiting, AbsItems, Box, Line, Stock, SleeperOf

\* An entry is of a thread.
LEMMA EntryThreads ==
  ASSUME NEW sl \in Seq(Entries)
  PROVE  Len(sl) \in Nat /\ DOMAIN sl = 1..Len(sl) /\ \A k \in 1..Len(sl) : sl[k].thread \in Threads
<1>1. Len(sl) \in Nat /\ DOMAIN sl = 1..Len(sl)
  BY LenProperties
<1>2. \A k \in 1..Len(sl) : sl[k] \in Entries
  BY ElementOfSeq
<1>3. \A e \in Entries : e.thread \in Threads
  BY DEF Entries
<1> QED BY <1>1, <1>2, <1>3

\* What each thread was handed.
LEMMA BoxIs ==
  ASSUME NEW cl, NEW q, NEW sl \in Seq(Entries), NEW w \in 0..Len(sl), SleepersDiffer(sl)
  PROVE  Handed(Box(cl, q, sl, w), cl, q, sl, w)
<1> DEFINE b == Box(cl, q, sl, w)
<1>1. Len(sl) \in Nat /\ DOMAIN sl = 1..Len(sl) /\ \A k \in 1..Len(sl) : sl[k].thread \in Threads
  BY EntryThreads
<1>2. ASSUME NEW k \in 1..Len(sl) PROVE (CHOOSE j \in DOMAIN sl : sl[j].thread = sl[k].thread) = k
  BY <1>1 DEF SleepersDiffer
<1>3. ASSUME NEW u \in Threads, \A k \in 1..w : sl[k].thread # u PROVE b[u] = Outcome("none")
  <2>1. \A k \in DOMAIN sl : k <= w => k \in 1..w
    BY <1>1
  <2>2. ~ \E k \in DOMAIN sl : k <= w /\ sl[k].thread = u
    BY <1>3, <2>1
  <2> QED BY <2>2 DEF Box
<1>4. ASSUME NEW k \in 1..w PROVE b[sl[k].thread] = IF cl THEN Outcome("closed") ELSE Got(q[k])
  <2>1. k \in 1..Len(sl) /\ k <= w
    BY <1>1
  <2>2. k \in DOMAIN sl /\ sl[k].thread \in Threads /\ \E j \in DOMAIN sl : j <= w /\ sl[j].thread = sl[k].thread
    BY <1>1, <2>1
  <2> DEFINE h == CHOOSE j \in DOMAIN sl : sl[j].thread = sl[k].thread
  <2>3. b[sl[k].thread] = IF cl THEN Outcome("closed") ELSE Got(q[h])
    BY <2>2, Zenon DEF Box
  <2>4. h = k
    BY <1>2, <2>1
  <2> HIDE DEF h
  <2> QED BY <2>3, <2>4
<1>5. b = [u \in Threads |-> b[u]]
  BY DEF Box
<1>6. \A k \in 1..w : sl[k].thread \in Threads
  <2>1. \A k \in 1..w : k \in 1..Len(sl)
    BY <1>1
  <2> QED BY <1>1, <2>1
<1> HIDE DEF b
<1>7. \A k \in 1..w : /\ sl[k].thread \in Threads
                      /\ cl => b[sl[k].thread] = Outcome("closed")
                      /\ ~cl => b[sl[k].thread] = Got(q[k])
  BY <1>4, <1>6
<1>8. \A u \in Threads : (\A k \in 1..w : sl[k].thread # u) => b[u] = Outcome("none")
  BY <1>3
<1>9. Handed(b, cl, q, sl, w)
  BY <1>5, <1>7, <1>8 DEF Handed
<1> QED BY <1>9 DEF b

\* Two functions on the threads are equal when their values are.
LEMMA SameInbox ==
  ASSUME NEW b, NEW c, b = [u \in Threads |-> b[u]], c = [u \in Threads |-> c[u]], \A u \in Threads : b[u] = c[u]
  PROVE  b = c
<1>1. [u \in Threads |-> b[u]] = [u \in Threads |-> c[u]]
  OBVIOUS
<1> QED BY <1>1, Zenon

\* The line of those that wait.
LEMMA LineIs ==
  ASSUME NEW sl \in Seq(Entries), NEW w \in 0..Len(sl)
  PROVE  InLineFrom(Line(sl, w), sl, w)
<1>1. Len(sl) \in Nat /\ \A k \in 1..Len(sl) : sl[k].thread \in Threads
  BY EntryThreads
<1> DEFINE m == Len(sl) - w
           l == [k \in 1..m |-> sl[w + k].thread]
<1>2. m \in Nat /\ \A k \in 1..m : w + k \in 1..Len(sl)
  BY <1>1
<1> HIDE DEF m
<1>3. \A k \in 1..m : sl[w + k].thread \in Threads
  BY <1>1, <1>2
<1>4. l \in Seq(Threads) /\ Len(l) = m /\ \A k \in 1..m : l[k] = sl[w + k].thread
  BY <1>2, <1>3
<1>5. Line(sl, w) = l
  BY DEF Line, m
<1> QED BY <1>4, <1>5 DEF InLineFrom, m

\* The items that are owed to nobody.
LEMMA StockIs ==
  ASSUME NEW q \in Seq(1..MaxPuts), NEW w \in 0..Len(q)
  PROVE  StockedFrom(Stock(FALSE, q, w), q, w)
<1>1. Len(q) \in Nat
  BY LenProperties
<1> DEFINE s == SubSeq(q, w + 1, Len(q))
<1>2. \A k \in (w + 1)..Len(q) : q[k] \in 1..MaxPuts
  <2>1. \A k \in (w + 1)..Len(q) : k \in 1..Len(q)
    BY <1>1
  <2> QED BY <2>1, ElementOfSeq
<1>3. w + 1 \in 1..(Len(q) + 1) /\ Len(q) \in w..Len(q)
  BY <1>1
<1>4. s \in Seq(1..MaxPuts) /\ Len(s) = Len(q) - w /\ \A k \in 1..(Len(q) - w) : s[k] = q[w + k]
  BY <1>1, <1>2, <1>3, SubSeqProperties
<1>5. Stock(FALSE, q, w) = s
  BY DEF Stock
<1> QED BY <1>4, <1>5 DEF StockedFrom

\* Two sequences are equal when their elements are.
LEMMA SameSeq ==
  ASSUME NEW S, NEW s \in Seq(S), NEW t \in Seq(S), Len(s) = Len(t), \A k \in 1..Len(s) : s[k] = t[k]
  PROVE  s = t
  BY SeqEqual

\* Head and tail of a sequence that is not empty.
LEMMA TailElements ==
  ASSUME NEW S, NEW s \in Seq(S), Len(s) > 0
  PROVE  /\ s # <<>> /\ Head(s) = s[1] /\ Tail(s) \in Seq(S) /\ Len(Tail(s)) = Len(s) - 1
         /\ \A k \in 1..(Len(s) - 1) : Tail(s)[k] = s[k + 1]
<1>1. s # <<>>
  OBVIOUS
<1>2. Head(s) = s[1]
  OBVIOUS
<1>3. Tail(s) \in Seq(S) /\ Len(Tail(s)) = Len(s) - 1 /\ \A k \in 1..(Len(s) - 1) : Tail(s)[k] = s[k + 1]
  BY <1>1, HeadTailProperties
<1> QED BY <1>1, <1>2, <1>3

\* put() hands the item to the sleeper who waited longest.
LEMMA Handing ==
  ASSUME NEW q, NEW p, NEW sl \in Seq(Entries), NEW w \in 0..(Len(sl) - 1), SleepersDiffer(sl),
         \A k \in 1..w : p[k] = q[k]
  PROVE  /\ Line(sl, w) # <<>>
         /\ Line(sl, w + 1) = Tail(Line(sl, w))
         /\ Box(FALSE, p, sl, w + 1) = Given(Box(FALSE, q, sl, w), Head(Line(sl, w)), Got(p[w + 1]))
<1> DEFINE b == Box(FALSE, q, sl, w)
           c == Box(FALSE, p, sl, w + 1)
           l == Line(sl, w)
           m == Line(sl, w + 1)
           d == sl[w + 1].thread
           n == Len(sl)
           i == p[w + 1]
<1>0. n \in Nat /\ w \in 0..n /\ w + 1 \in 1..n /\ w + 1 \in 0..n
  BY LenProperties
<1>1. InLineFrom(l, sl, w) /\ InLineFrom(m, sl, w + 1)
  BY <1>0, LineIs
<1>2. Handed(b, FALSE, q, sl, w) /\ Handed(c, FALSE, p, sl, w + 1)
  BY <1>0, BoxIs
<1> HIDE DEF b, c, l, m
<1>3. l \in Seq(Threads) /\ Len(l) = n - w /\ \A k \in 1..(n - w) : l[k] = sl[w + k].thread
  BY <1>1 DEF InLineFrom
<1>4. m \in Seq(Threads) /\ Len(m) = n - (w + 1) /\ \A k \in 1..(n - (w + 1)) : m[k] = sl[(w + 1) + k].thread
  BY <1>1 DEF InLineFrom
<1> HIDE DEF n
<1>5. Len(l) > 0 /\ l[1] = d
  BY <1>0, <1>3
<1>6. l # <<>> /\ Head(l) = d /\ Tail(l) \in Seq(Threads) /\ Len(Tail(l)) = Len(l) - 1
      /\ \A k \in 1..(Len(l) - 1) : Tail(l)[k] = l[k + 1]
  BY <1>3, <1>5, TailElements
<1>7. m = Tail(l)
  <2>1. Len(m) = Len(Tail(l))
    BY <1>0, <1>3, <1>4, <1>6
  <2>2. ASSUME NEW k \in 1..Len(m) PROVE m[k] = Tail(l)[k]
    <3>1. k \in 1..(Len(l) - 1) /\ k \in 1..(n - (w + 1)) /\ k + 1 \in 1..(n - w) /\ w + (k + 1) = (w + 1) + k
      BY <1>0, <1>3, <1>4
    <3>2. m[k] = sl[(w + 1) + k].thread /\ Tail(l)[k] = l[k + 1] /\ l[k + 1] = sl[w + (k + 1)].thread
      BY <1>3, <1>4, <1>6, <3>1
    <3> QED BY <3>1, <3>2
  <2> QED BY <1>4, <1>6, <2>1, <2>2, SameSeq
<1>8. c = [b EXCEPT ![d] = Got(i)]
  <2>1. ASSUME NEW u \in Threads PROVE c[u] = IF u = d THEN Got(i) ELSE b[u]
    <3>1. CASE u = d
      <4>1. w + 1 \in 1..(w + 1)
        BY <1>0
      <4> QED BY <1>2, <3>1, <4>1 DEF Handed
    <3>2. CASE u # d /\ \E k \in 1..w : sl[k].thread = u
      <4>1. PICK k \in 1..w : sl[k].thread = u
        BY <3>2
      <4>2. k \in 1..(w + 1) /\ p[k] = q[k]
        BY <1>0, <4>1
      <4> QED BY <1>2, <3>2, <4>1, <4>2 DEF Handed
    <3>3. CASE u # d /\ \A k \in 1..w : sl[k].thread # u
      <4>1. \A k \in 1..(w + 1) : k \in 1..w \/ k = w + 1
        BY <1>0
      <4>2. \A k \in 1..(w + 1) : sl[k].thread # u
        BY <3>3, <4>1
      <4> QED BY <1>2, <3>3, <4>2 DEF Handed
    <3> QED BY <3>1, <3>2, <3>3
  <2> DEFINE e == [b EXCEPT ![d] = Got(i)]
  <2>2. b = [u \in Threads |-> b[u]] /\ c = [u \in Threads |-> c[u]]
    BY <1>2 DEF Handed
  <2>3. \A u \in Threads : e[u] = IF u = d THEN Got(i) ELSE b[u]
    BY <2>2
  <2>4. e = [u \in Threads |-> e[u]]
    BY <2>2
  <2> HIDE DEF e
  <2>5. c = e
    BY <2>1, <2>2, <2>3, <2>4, SameInbox
  <2> QED BY <2>5 DEF e
<1>9. c = Given(b, Head(l), Got(i))
  BY <1>6, <1>8 DEF Given
<1> QED BY <1>6, <1>7, <1>9 DEF b, c, l, m

\* An item put when nobody waits is buffered.
LEMMA Buffering ==
  ASSUME NEW q \in Seq(1..MaxPuts), NEW i \in 1..MaxPuts, NEW sl \in Seq(Entries),
         Len(sl) <= Len(q), SleepersDiffer(sl)
  PROVE  /\ Stock(FALSE, Append(q, i), Len(sl)) = Append(Stock(FALSE, q, Len(sl)), i)
         /\ Box(FALSE, Append(q, i), sl, Len(sl)) = Box(FALSE, q, sl, Len(sl))
<1> DEFINE w == Len(sl)
           p == Append(q, i)
           s == Stock(FALSE, q, w)
           r == Stock(FALSE, p, w)
           b == Box(FALSE, q, sl, w)
           c == Box(FALSE, p, sl, w)
<1>1. w \in Nat /\ Len(q) \in Nat
  BY LenProperties
<1>2. p \in Seq(1..MaxPuts) /\ Len(p) = Len(q) + 1 /\ (\A k \in 1..Len(q) : p[k] = q[k]) /\ p[Len(q) + 1] = i
  BY AppendIndexes
<1>3. w \in 0..Len(q) /\ w \in 0..Len(p) /\ w \in 0..Len(sl)
  BY <1>1, <1>2
<1>4. StockedFrom(s, q, w) /\ StockedFrom(r, p, w) /\ Handed(b, FALSE, q, sl, w) /\ Handed(c, FALSE, p, sl, w)
  BY <1>2, <1>3, StockIs, BoxIs
<1> HIDE DEF w, p, s, r, b, c
<1>5. r = Append(s, i)
  <2>1. s \in Seq(1..MaxPuts) /\ Len(s) = Len(q) - w /\ \A k \in 1..(Len(q) - w) : s[k] = q[w + k]
    BY <1>4 DEF StockedFrom
  <2>2. r \in Seq(1..MaxPuts) /\ Len(r) = Len(p) - w /\ \A k \in 1..(Len(p) - w) : r[k] = p[w + k]
    BY <1>4 DEF StockedFrom
  <2>3. Append(s, i) \in Seq(1..MaxPuts) /\ Len(Append(s, i)) = Len(s) + 1
        /\ (\A k \in 1..Len(s) : Append(s, i)[k] = s[k]) /\ Append(s, i)[Len(s) + 1] = i
    BY <2>1, AppendIndexes
  <2>4. Len(r) = Len(Append(s, i))
    BY <1>1, <1>2, <2>1, <2>2, <2>3
  <2>5. ASSUME NEW k \in 1..Len(r) PROVE r[k] = Append(s, i)[k]
    <3>1. r[k] = p[w + k]
      BY <2>2
    <3>2. CASE k \in 1..Len(s)
      <4>1. k \in 1..(Len(q) - w) /\ w + k \in 1..Len(q)
        BY <1>1, <1>3, <2>1, <3>2
      <4> QED BY <1>2, <2>1, <2>3, <3>1, <3>2, <4>1
    <3>3. CASE k = Len(s) + 1
      <4>1. w + k = Len(q) + 1
        BY <1>1, <2>1, <3>3
      <4> QED BY <1>2, <2>3, <3>1, <3>3, <4>1
    <3>4. Len(s) \in Nat /\ Len(r) = Len(s) + 1
      BY <1>1, <1>2, <1>3, <2>1, <2>2
    <3>5. k \in 1..Len(s) \/ k = Len(s) + 1
      BY <3>4
    <3> QED BY <3>2, <3>3, <3>5
  <2> QED BY <2>2, <2>3, <2>4, <2>5, SameSeq
<1>6. c = b
  <2>1. \A k \in 1..w : p[k] = q[k]
    BY <1>1, <1>2, <1>3
  <2>2. ASSUME NEW u \in Threads PROVE c[u] = b[u]
    <3>1. CASE \E k \in 1..w : sl[k].thread = u
      BY <1>4, <2>1, <3>1 DEF Handed
    <3>2. CASE \A k \in 1..w : sl[k].thread # u
      BY <1>4, <3>2 DEF Handed
    <3> QED BY <3>1, <3>2
  <2> QED BY <1>4, <2>2, SameInbox DEF Handed
<1> QED BY <1>5, <1>6 DEF w, p, s, r, b, c

\* put() to a sleeper leaves the buffer, which is empty.
LEMMA NothingSpare ==
  ASSUME NEW q \in Seq(1..MaxPuts)
  PROVE  Stock(FALSE, q, Len(q)) = <<>>
<1>1. Len(q) \in Nat /\ Len(q) \in 0..Len(q)
  BY LenProperties
<1> DEFINE s == Stock(FALSE, q, Len(q))
<1>2. StockedFrom(s, q, Len(q))
  BY <1>1, StockIs
<1> HIDE DEF s
<1>3. s \in Seq(1..MaxPuts) /\ Len(s) = 0
  BY <1>1, <1>2 DEF StockedFrom
<1>4. s = <<>>
  BY <1>3, EmptySeq
<1> QED BY <1>4 DEF s

\* A running thread takes the first item that no sleeper is owed.
LEMMA Taking ==
  ASSUME NEW q \in Seq(1..MaxPuts), NEW sl \in Seq(Entries), Len(sl) < Len(q), SleepersDiffer(sl)
  PROVE  /\ Stock(FALSE, q, Len(sl)) # <<>>
         /\ Head(Stock(FALSE, q, Len(sl))) = q[Len(sl) + 1]
         /\ Stock(FALSE, RemoveAt(q, Len(sl) + 1), Len(sl)) = Tail(Stock(FALSE, q, Len(sl)))
         /\ Box(FALSE, RemoveAt(q, Len(sl) + 1), sl, Len(sl)) = Box(FALSE, q, sl, Len(sl))
<1> DEFINE w == Len(sl)
           p == RemoveAt(q, w + 1)
           s == Stock(FALSE, q, w)
           r == Stock(FALSE, p, w)
           b == Box(FALSE, q, sl, w)
           c == Box(FALSE, p, sl, w)
           n == Len(q)
<1>1. w \in Nat /\ n \in Nat /\ w + 1 \in 1..n /\ w \in 0..n /\ w \in 0..Len(sl)
  BY LenProperties
<1>2. p \in Seq(1..MaxPuts) /\ Len(p) = n - 1
      /\ \A k \in 1..(n - 1) : p[k] = IF k < w + 1 THEN q[k] ELSE q[k + 1]
  BY <1>1, RemoveAtProperties
<1>3. w \in 0..Len(p)
  BY <1>1, <1>2
<1>4. StockedFrom(s, q, w) /\ StockedFrom(r, p, w) /\ Handed(b, FALSE, q, sl, w) /\ Handed(c, FALSE, p, sl, w)
  BY <1>1, <1>2, <1>3, StockIs, BoxIs
<1> HIDE DEF w, p, s, r, b, c
<1>5. s \in Seq(1..MaxPuts) /\ Len(s) = n - w /\ \A k \in 1..(n - w) : s[k] = q[w + k]
  BY <1>4 DEF StockedFrom
<1>6. r \in Seq(1..MaxPuts) /\ Len(r) = Len(p) - w /\ \A k \in 1..(Len(p) - w) : r[k] = p[w + k]
  BY <1>4 DEF StockedFrom
<1> HIDE DEF n
<1>7. Len(s) > 0 /\ s[1] = q[w + 1]
  BY <1>1, <1>5
<1>8. /\ s # <<>> /\ Head(s) = s[1] /\ Tail(s) \in Seq(1..MaxPuts) /\ Len(Tail(s)) = Len(s) - 1
      /\ \A k \in 1..(Len(s) - 1) : Tail(s)[k] = s[k + 1]
  BY <1>5, <1>7, TailElements
<1>9. r = Tail(s)
  <2>1. Len(r) = Len(Tail(s))
    BY <1>1, <1>2, <1>5, <1>6, <1>8
  <2>2. ASSUME NEW k \in 1..Len(r) PROVE r[k] = Tail(s)[k]
    <3>1. /\ k \in 1..(Len(p) - w) /\ k \in 1..(Len(s) - 1) /\ k + 1 \in 1..(n - w)
          /\ w + k \in 1..(n - 1) /\ ~(w + k < w + 1) /\ (w + k) + 1 = w + (k + 1)
      BY <1>1, <1>2, <1>5, <1>6
    <3>2. r[k] = p[w + k] /\ Tail(s)[k] = s[k + 1] /\ s[k + 1] = q[w + (k + 1)]
      BY <1>5, <1>6, <1>8, <3>1
    <3>3. p[w + k] = q[(w + k) + 1]
      BY <1>2, <3>1
    <3> QED BY <3>1, <3>2, <3>3
  <2> QED BY <1>6, <1>8, <2>1, <2>2, SameSeq
<1>10. c = b
  <2>1. ASSUME NEW k \in 1..w PROVE p[k] = q[k]
    <3>1. k \in 1..(n - 1) /\ k < w + 1
      BY <1>1
    <3> QED BY <1>2, <3>1
  <2>2. ASSUME NEW u \in Threads PROVE c[u] = b[u]
    <3>1. CASE \E k \in 1..w : sl[k].thread = u
      BY <1>4, <2>1, <3>1 DEF Handed
    <3>2. CASE \A k \in 1..w : sl[k].thread # u
      BY <1>4, <3>2 DEF Handed
    <3> QED BY <3>1, <3>2
  <2> QED BY <1>4, <2>2, SameInbox DEF Handed
<1> QED BY <1>7, <1>8, <1>9, <1>10 DEF w, p, s, r, b, c

\* A thread that goes to sleep joins the end of the line.
LEMMA Joining ==
  ASSUME NEW cl, NEW q, NEW sl \in Seq(Entries), NEW e \in Entries, NEW w \in 0..Len(sl),
         SleepersDiffer(sl), SleepersDiffer(Append(sl, e))
  PROVE  /\ Line(Append(sl, e), w) = Append(Line(sl, w), e.thread)
         /\ Box(cl, q, Append(sl, e), w) = Box(cl, q, sl, w)
<1> DEFINE n == Len(sl)
           sm == Append(sl, e)
           l == Line(sl, w)
           m == Line(sm, w)
           b == Box(cl, q, sl, w)
           c == Box(cl, q, sm, w)
<1>1. n \in Nat /\ w \in Nat /\ w <= n
  BY LenProperties
<1>2. sm \in Seq(Entries) /\ Len(sm) = n + 1 /\ (\A k \in 1..n : sm[k] = sl[k]) /\ sm[n + 1] = e
  BY AppendIndexes
<1>3. w \in 0..Len(sm) /\ e.thread \in Threads
  BY <1>1, <1>2 DEF Entries
<1>4. InLineFrom(l, sl, w) /\ InLineFrom(m, sm, w) /\ Handed(b, cl, q, sl, w) /\ Handed(c, cl, q, sm, w)
  BY <1>2, <1>3, LineIs, BoxIs
<1> HIDE DEF n, sm, l, m, b, c
<1>5. m = Append(l, e.thread)
  <2> DEFINE a == Append(l, e.thread)
  <2>1. l \in Seq(Threads) /\ Len(l) = n - w /\ \A k \in 1..(n - w) : l[k] = sl[w + k].thread
    BY <1>4 DEF InLineFrom, n
  <2>2. m \in Seq(Threads) /\ Len(m) = (n + 1) - w /\ \A k \in 1..((n + 1) - w) : m[k] = sm[w + k].thread
    BY <1>2, <1>4 DEF InLineFrom
  <2>3. a \in Seq(Threads) /\ Len(a) = Len(l) + 1 /\ (\A k \in 1..Len(l) : a[k] = l[k]) /\ a[Len(l) + 1] = e.thread
    BY <1>3, <2>1, AppendIndexes
  <2> HIDE DEF a
  <2>4. Len(m) = Len(a)
    BY <1>1, <2>1, <2>2, <2>3
  <2>5. ASSUME NEW k \in 1..Len(m) PROVE m[k] = a[k]
    <3>1. m[k] = sm[w + k].thread
      BY <2>2
    <3>2. CASE k \in 1..Len(l)
      <4>1. k \in 1..(n - w) /\ w + k \in 1..n
        BY <1>1, <2>1, <3>2
      <4> QED BY <1>2, <2>1, <2>3, <3>1, <3>2, <4>1
    <3>3. CASE k = Len(l) + 1
      <4>1. w + k = n + 1
        BY <1>1, <2>1, <3>3
      <4> QED BY <1>2, <2>3, <3>1, <3>3, <4>1
    <3> QED BY <1>1, <2>1, <2>2, <3>2, <3>3
  <2>6. m = a
    BY <2>2, <2>3, <2>4, <2>5, SameSeq
  <2> QED BY <2>6 DEF a
<1>6. c = b
  <2>1. \A k \in 1..w : sm[k] = sl[k]
    BY <1>1, <1>2
  <2>2. ASSUME NEW u \in Threads PROVE c[u] = b[u]
    <3>1. CASE \E k \in 1..w : sl[k].thread = u
      <4>1. PICK k \in 1..w : sl[k].thread = u
        BY <3>1
      <4>2. sm[k].thread = u
        BY <2>1, <4>1
      <4>3. CASE cl
        BY <1>4, <4>1, <4>2, <4>3 DEF Handed
      <4>4. CASE ~cl
        BY <1>4, <4>1, <4>2, <4>4 DEF Handed
      <4> QED BY <4>3, <4>4
    <3>2. CASE \A k \in 1..w : sl[k].thread # u
      BY <1>4, <2>1, <3>2 DEF Handed
    <3> QED BY <3>1, <3>2
  <2> QED BY <1>4, <2>2, SameInbox DEF Handed
<1> QED BY <1>5, <1>6 DEF n, sm, l, m, b, c

\* close() turns away everybody who waits or has not returned yet.
LEMMA Turning ==
  ASSUME NEW q, NEW sl \in Seq(Entries), SleepersDiffer(sl)
  PROVE  /\ Line(sl, Len(sl)) = <<>>
         /\ Stock(TRUE, q, Len(sl)) = <<>>
         /\ Box(TRUE, q, sl, Len(sl)) =
              [u \in Threads |-> IF \A k \in 1..Len(sl) : sl[k].thread # u THEN Outcome("none") ELSE Outcome("closed")]
<1> DEFINE n == Len(sl)
           l == Line(sl, n)
           b == Box(TRUE, q, sl, n)
           c == [u \in Threads |-> IF \A k \in 1..n : sl[k].thread # u THEN Outcome("none") ELSE Outcome("closed")]
<1>1. n \in Nat /\ n \in 0..Len(sl)
  BY LenProperties
<1>2. InLineFrom(l, sl, n) /\ Handed(b, TRUE, q, sl, n)
  BY <1>1, LineIs, BoxIs
<1>3. Stock(TRUE, q, n) = <<>>
  BY DEF Stock
<1> HIDE DEF l, b
<1>4. l = <<>>
  <2>1. l \in Seq(Threads) /\ Len(l) = 0
    BY <1>1, <1>2 DEF InLineFrom
  <2> QED BY <2>1, EmptySeq
<1>5. ASSUME NEW u \in Threads PROVE b[u] = c[u]
  <2>1. CASE \A k \in 1..n : sl[k].thread # u
    BY <1>2, <2>1 DEF Handed
  <2>2. CASE \E k \in 1..n : sl[k].thread = u
    BY <1>2, <2>2 DEF Handed
  <2> QED BY <2>1, <2>2
<1>6. c = [u \in Threads |-> c[u]]
  OBVIOUS
<1> HIDE DEF c
<1>7. b = c
  BY <1>2, <1>5, <1>6, SameInbox DEF Handed
<1> QED BY <1>3, <1>4, <1>7 DEF n, l, b, c

\* A chosen sleeper that leaves takes what it was handed, and nothing else changes.
LEMMA Leaves ==
  ASSUME NEW cl, NEW q \in Seq(1..MaxPuts), NEW p, NEW sl \in Seq(Entries), NEW w \in 1..Len(sl), NEW k \in 1..w,
         SleepersDiffer(sl), SleepersDiffer(RemoveAt(sl, k)),
         ~cl => w <= Len(q) /\ p = RemoveAt(q, k)
  PROVE  /\ Box(cl, q, sl, w)[sl[k].thread] = IF cl THEN Outcome("closed") ELSE Got(q[k])
         /\ Box(cl, p, RemoveAt(sl, k), w - 1) = Given(Box(cl, q, sl, w), sl[k].thread, Outcome("none"))
         /\ Line(RemoveAt(sl, k), w - 1) = Line(sl, w)
         /\ Stock(cl, p, w - 1) = Stock(cl, q, w)
<1> DEFINE n == Len(sl)
           sm == RemoveAt(sl, k)
           l == Line(sl, w)
           m == Line(sm, w - 1)
           b == Box(cl, q, sl, w)
           c == Box(cl, p, sm, w - 1)
           d == sl[k].thread
<1>1. n \in Nat /\ w \in Nat /\ w <= n /\ k \in 1..n /\ w \in 0..n /\ k <= w
  BY LenProperties
<1>2. sm \in Seq(Entries) /\ Len(sm) = n - 1
      /\ \A j \in 1..(n - 1) : sm[j] = IF j < k THEN sl[j] ELSE sl[j + 1]
  BY <1>1, RemoveAtProperties
<1>3. w - 1 \in 0..Len(sm)
  BY <1>1, <1>2
<1>4. InLineFrom(l, sl, w) /\ InLineFrom(m, sm, w - 1)
      /\ Handed(b, cl, q, sl, w) /\ Handed(c, cl, p, sm, w - 1)
  BY <1>1, <1>2, <1>3, LineIs, BoxIs
<1> HIDE DEF sm, l, m, b, c
<1>5. b[d] = IF cl THEN Outcome("closed") ELSE Got(q[k])
  <2>1. cl => b[d] = Outcome("closed")
    BY <1>4 DEF Handed
  <2>2. ~cl => b[d] = Got(q[k])
    BY <1>4 DEF Handed
  <2> QED BY <2>1, <2>2
<1>6. m = l
  <2>1. l \in Seq(Threads) /\ Len(l) = n - w /\ \A j \in 1..(n - w) : l[j] = sl[w + j].thread
    BY <1>4 DEF InLineFrom
  <2>2. m \in Seq(Threads) /\ Len(m) = (n - 1) - (w - 1) /\ \A j \in 1..((n - 1) - (w - 1)) : m[j] = sm[(w - 1) + j].thread
    BY <1>2, <1>4 DEF InLineFrom
  <2> HIDE DEF n
  <2>3. Len(m) = Len(l)
    BY <1>1, <2>1, <2>2
  <2>4. ASSUME NEW j \in 1..Len(m) PROVE m[j] = l[j]
    <3>1. /\ j \in 1..((n - 1) - (w - 1)) /\ j \in 1..(n - w) /\ (w - 1) + j \in 1..(n - 1)
          /\ ~((w - 1) + j < k) /\ ((w - 1) + j) + 1 = w + j
      BY <1>1, <2>1, <2>2
    <3>2. m[j] = sm[(w - 1) + j].thread /\ l[j] = sl[w + j].thread
      BY <2>1, <2>2, <3>1
    <3>3. sm[(w - 1) + j] = sl[((w - 1) + j) + 1]
      BY <1>2, <3>1 DEF n
    <3> QED BY <3>1, <3>2, <3>3
  <2> QED BY <2>1, <2>2, <2>3, <2>4, SameSeq
<1>7. c = [b EXCEPT ![d] = Outcome("none")]
  <2> DEFINE a == [b EXCEPT ![d] = Outcome("none")]
  <2>1. /\ \A j \in 1..n : sl[j].thread = d => j = k
        /\ d \in Threads
    <3>1. \A j \in 1..n : sl[j].thread = d => j = k
      BY <1>1 DEF SleepersDiffer
    <3> QED BY <1>1, <3>1, EntryThreads
  <2>2. ASSUME NEW j \in 1..(w - 1)
        PROVE  \E i \in 1..w : i # k /\ sm[j] = sl[i] /\ (~cl => p[j] = q[i])
    <3>1. j \in 1..(n - 1) /\ j \in 1..w /\ j + 1 \in 1..w
      BY <1>1
    <3>2. CASE j < k
      <4>1. sm[j] = sl[j] /\ j # k
        BY <1>1, <1>2, <3>1, <3>2
      <4>2. ~cl => p[j] = q[j]
        <5>1. SUFFICES ASSUME ~cl PROVE p[j] = q[j]
          OBVIOUS
        <5>2. Len(q) \in Nat /\ k \in 1..Len(q) /\ j \in 1..(Len(q) - 1)
          BY <1>1, <5>1, LenProperties
        <5> QED BY <3>2, <5>1, <5>2, RemoveAtProperties
      <4> QED BY <3>1, <4>1, <4>2
    <3>3. CASE ~(j < k)
      <4>1. sm[j] = sl[j + 1] /\ j + 1 # k
        BY <1>1, <1>2, <3>1, <3>3
      <4>2. ~cl => p[j] = q[j + 1]
        <5>1. SUFFICES ASSUME ~cl PROVE p[j] = q[j + 1]
          OBVIOUS
        <5>2. Len(q) \in Nat /\ k \in 1..Len(q) /\ j \in 1..(Len(q) - 1)
          BY <1>1, <5>1, LenProperties
        <5> QED BY <3>3, <5>1, <5>2, RemoveAtProperties
      <4> QED BY <3>1, <4>1, <4>2
    <3> QED BY <3>2, <3>3
  <2>3. ASSUME NEW i \in 1..w, i # k
        PROVE  \E j \in 1..(w - 1) : sm[j] = sl[i]
    <3>1. CASE i < k
      <4>1. i \in 1..(w - 1) /\ i \in 1..(n - 1)
        BY <1>1, <3>1
      <4> QED BY <1>2, <3>1, <4>1
    <3>2. CASE i > k
      <4>1. i - 1 \in 1..(w - 1) /\ i - 1 \in 1..(n - 1) /\ ~(i - 1 < k) /\ (i - 1) + 1 = i
        BY <1>1, <3>2
      <4>2. sm[i - 1] = sl[(i - 1) + 1]
        BY <1>2, <4>1
      <4> QED BY <4>1, <4>2
    <3> QED BY <1>1, <2>3, <3>1, <3>2
  <2>4. b = [u \in Threads |-> b[u]] /\ c = [u \in Threads |-> c[u]]
    BY <1>4 DEF Handed
  <2>5. (\A u \in Threads : a[u] = IF u = d THEN Outcome("none") ELSE b[u]) /\ a = [u \in Threads |-> a[u]]
    BY <2>4
  <2> HIDE DEF a
  <2>6. ASSUME NEW u \in Threads PROVE c[u] = IF u = d THEN Outcome("none") ELSE b[u]
    <3>1. CASE \E j \in 1..(w - 1) : sm[j].thread = u
      <4>1. PICK j \in 1..(w - 1) : sm[j].thread = u
        BY <3>1
      <4>2. PICK i \in 1..w : i # k /\ sm[j] = sl[i] /\ (~cl => p[j] = q[i])
        BY <2>2
      <4>3. i \in 1..n
        BY <1>1
      <4>4. u # d
        BY <2>1, <4>1, <4>2, <4>3
      <4>5. cl => c[u] = Outcome("closed") /\ b[u] = Outcome("closed")
        BY <1>4, <4>1, <4>2 DEF Handed
      <4>6. ~cl => c[u] = Got(p[j]) /\ b[u] = Got(q[i])
        BY <1>4, <4>1, <4>2 DEF Handed
      <4> QED BY <4>2, <4>4, <4>5, <4>6
    <3>2. CASE \A j \in 1..(w - 1) : sm[j].thread # u
      <4>1. c[u] = Outcome("none")
        BY <1>4, <3>2 DEF Handed
      <4>2. \A i \in 1..w : i # k => sl[i].thread # u
        BY <2>3, <3>2
      <4>3. u # d => b[u] = Outcome("none")
        <5>1. u # d => \A i \in 1..w : sl[i].thread # u
          BY <4>2
        <5> QED BY <1>4, <5>1 DEF Handed
      <4> QED BY <4>1, <4>3
    <3> QED BY <3>1, <3>2
  <2>7. c = a
    BY <2>4, <2>5, <2>6, SameInbox
  <2> QED BY <2>7 DEF a
<1>8. Stock(cl, p, w - 1) = Stock(cl, q, w)
  <2>1. CASE cl
    BY <2>1 DEF Stock
  <2>2. CASE ~cl
    <3> DEFINE x == Len(q)
               s == Stock(FALSE, q, w)
               r == Stock(FALSE, p, w - 1)
    <3>1. x \in Nat /\ w <= x /\ k \in 1..x /\ w \in 0..x
      BY <1>1, <2>2, LenProperties
    <3>2. p \in Seq(1..MaxPuts) /\ Len(p) = x - 1 /\ \A j \in 1..(x - 1) : p[j] = IF j < k THEN q[j] ELSE q[j + 1]
      BY <2>2, <3>1, RemoveAtProperties
    <3>3. w - 1 \in 0..Len(p)
      BY <1>1, <3>1, <3>2
    <3>4. StockedFrom(s, q, w) /\ StockedFrom(r, p, w - 1)
      BY <3>1, <3>2, <3>3, StockIs
    <3> HIDE DEF s, r
    <3>5. s \in Seq(1..MaxPuts) /\ Len(s) = x - w /\ \A j \in 1..(x - w) : s[j] = q[w + j]
      BY <3>4 DEF StockedFrom
    <3>6. r \in Seq(1..MaxPuts) /\ Len(r) = (x - 1) - (w - 1) /\ \A j \in 1..((x - 1) - (w - 1)) : r[j] = p[(w - 1) + j]
      BY <3>2, <3>4 DEF StockedFrom
    <3> HIDE DEF x
    <3>7. Len(r) = Len(s)
      BY <1>1, <3>1, <3>5, <3>6
    <3>8. ASSUME NEW j \in 1..Len(r) PROVE r[j] = s[j]
      <4>1. /\ j \in 1..((x - 1) - (w - 1)) /\ j \in 1..(x - w) /\ (w - 1) + j \in 1..(x - 1)
            /\ ~((w - 1) + j < k) /\ ((w - 1) + j) + 1 = w + j
        BY <1>1, <3>1, <3>5, <3>6
      <4>2. r[j] = p[(w - 1) + j] /\ s[j] = q[w + j]
        BY <3>5, <3>6, <4>1
      <4>3. p[(w - 1) + j] = q[((w - 1) + j) + 1]
        BY <3>2, <4>1
      <4> QED BY <4>1, <4>2, <4>3
    <3>9. r = s
      BY <3>5, <3>6, <3>7, <3>8, SameSeq
    <3> QED BY <2>2, <3>9 DEF r, s, Stock
  <2> QED BY <2>1, <2>2
<1>9. c = Given(b, d, Outcome("none"))
  BY <1>7 DEF Given
<1> QED BY <1>5, <1>6, <1>8, <1>9 DEF n, sm, l, m, b, c, d

-----------------------------------------------------------------------------
(* Each step of Latch is a step of LatchQueue, or changes nothing it knows *)

\* What LatchInv says of the mapped state.
LEMMA MappedState ==
  ASSUME LatchInv
  PROVE  /\ Len(sleeping) \in Nat /\ Len(queue) \in Nat /\ waking \in 0..Len(sleeping) /\ closed \in BOOLEAN
         /\ sleeping \in Seq(Entries) /\ queue \in Seq(1..MaxPuts) /\ SleepersDiffer(sleeping)
         /\ closed => waking = Len(sleeping)
         /\ ~closed => waking <= Len(queue) /\ (waking < Len(sleeping) => Len(queue) = waking)
         /\ \A t \in Threads : pc[t] \in {"ready", "waking"} => \A k \in 1..Len(sleeping) : sleeping[k].thread # t
<1>1. TypeOK /\ SleepersExact /\ Assigned
  BY DEF LatchInv
<1>2. Len(sleeping) \in Nat /\ DOMAIN sleeping = 1..Len(sleeping)
  BY <1>1, SleepingEntries
<1>3. Len(queue) \in Nat
  BY <1>1, LenProperties DEF TypeOK
<1>4. /\ waking \in 0..Len(sleeping) /\ closed \in BOOLEAN
      /\ closed => waking = Len(sleeping)
      /\ ~closed => waking <= Len(queue) /\ (waking < Len(sleeping) => Len(queue) = waking)
  <2>1. closed \in BOOLEAN /\ waking \in Nat
    BY <1>1 DEF TypeOK
  <2>2. waking <= Len(sleeping)
    BY <1>1 DEF Assigned
  <2>3. waking \in 0..Len(sleeping)
    BY <1>2, <2>1, <2>2
  <2> QED BY <1>1, <2>1, <2>3 DEF Assigned
<1>5. sleeping \in Seq(Entries) /\ queue \in Seq(1..MaxPuts)
  BY <1>1 DEF TypeOK
<1>6. SleepersDiffer(sleeping)
  BY <1>1, <1>2 DEF SleepersExact, SleepersDiffer
<1>7. \A t \in Threads : pc[t] \in {"ready", "waking"} => \A k \in 1..Len(sleeping) : sleeping[k].thread # t
  BY <1>1, <1>2 DEF SleepersExact, InGet
<1> QED BY <1>2, <1>3, <1>4, <1>5, <1>6, <1>7

\* Sleepers are different threads after a step, too.
LEMMA StillDiffer == ASSUME TypeOK', SleepersExact' PROVE SleepersDiffer(sleeping')
<1>1. DOMAIN sleeping' = 1..Len(sleeping')
  BY LenProperties DEF TypeOK
<1> QED BY <1>1 DEF SleepersExact, SleepersDiffer

\* The threads LatchQueue calls idle are those that do not sleep.
LEMMA IdleSleepless ==
  ASSUME LatchInv, NEW t \in Threads
  PROVE  Abstract!Idle(t) <=> \A k \in 1..Len(sleeping) : sleeping[k].thread # t
<1> DEFINE n == Len(sleeping)
           b == Box(closed, queue, sleeping, waking)
           l == Line(sleeping, waking)
<1>1. n \in Nat /\ waking \in 0..n /\ closed \in BOOLEAN /\ sleeping \in Seq(Entries) /\ SleepersDiffer(sleeping)
  BY MappedState
<1>2. Handed(b, closed, queue, sleeping, waking) /\ InLineFrom(l, sleeping, waking)
  BY <1>1, BoxIs, LineIs
<1>3. AbsInbox = b /\ AbsWaiting = l
  BY MappingIs
<1> HIDE DEF b, l
<1>4. l \in Seq(Threads) /\ Len(l) = n - waking /\ \A k \in 1..(n - waking) : l[k] = sleeping[waking + k].thread
  BY <1>2 DEF InLineFrom
<1>5. DOMAIN l = 1..(n - waking)
  BY <1>4, LenProperties
<1>6. Abstract!Idle(t) <=> b[t] = Outcome("none") /\ \A k \in 1..(n - waking) : sleeping[waking + k].thread # t
  BY <1>3, <1>4, <1>5 DEF Abstract!Idle, Abstract!Nothing, Outcome
<1> HIDE DEF n
<1>7. b[t] = Outcome("none") <=> \A k \in 1..waking : sleeping[k].thread # t
  <2>1. \A i : Got(i) # Outcome("none") /\ Outcome("closed") # Outcome("none")
    BY DEF Got, Outcome
  <2> QED BY <1>1, <1>2, <2>1 DEF Handed
<1>8. (\A k \in 1..(n - waking) : sleeping[waking + k].thread # t) <=> \A k \in (waking + 1)..n : sleeping[k].thread # t
  <2>1. \A k \in 1..(n - waking) : waking + k \in (waking + 1)..n
    BY <1>1
  <2>2. \A k \in (waking + 1)..n : k - waking \in 1..(n - waking) /\ waking + (k - waking) = k
    BY <1>1
  <2> QED BY <2>1, <2>2
<1>9. \A k \in Int : k \in 1..n <=> k \in 1..waking \/ k \in (waking + 1)..n
  BY <1>1
<1>10. /\ \A k \in 1..n : k \in Int
       /\ \A k \in 1..waking : k \in Int
       /\ \A k \in (waking + 1)..n : k \in Int
  OBVIOUS
<1>11. (\A k \in 1..n : sleeping[k].thread # t)
       <=> /\ \A k \in 1..waking : sleeping[k].thread # t
           /\ \A k \in (waking + 1)..n : sleeping[k].thread # t
  BY <1>9, <1>10, Zenon
<1>12. Abstract!Idle(t) <=> \A k \in 1..n : sleeping[k].thread # t
  BY <1>6, <1>7, <1>8, <1>11
<1> QED BY <1>12 DEF n

\* A new latch is an empty queue.
LEMMA InitMaps == Init => Abstract!Init
<1> SUFFICES ASSUME Init PROVE Abstract!Init
  OBVIOUS
<1>1. sleeping = <<>> /\ queue = <<>> /\ waking = 0 /\ closed = FALSE
  BY DEF Init
<1>2. AbsItems = <<>>
  <2>1. Len(queue) = 0 /\ waking + 1 = 1
    BY <1>1
  <2> QED BY <1>1, <2>1 DEF AbsItems
<1>3. AbsWaiting = <<>>
  <2>1. Len(sleeping) - waking = 0
    BY <1>1
  <2> QED BY <2>1 DEF AbsWaiting
<1>4. AbsInbox = [t \in Threads |-> Outcome("none")]
  BY <1>1 DEF AbsInbox
<1> QED BY <1>1, <1>2, <1>3, <1>4 DEF Init, Abstract!Init, Abstract!Nothing, Outcome

\* get() on a closed latch, or with nothing to take and no time to wait.
LEMMA RefuseMaps ==
  ASSUME LatchInv, NEW t \in Threads, GetClosed(t) \/ GetEmpty(t)
  PROVE  Abstract!Refuse(t)
<1> DEFINE n == Len(sleeping)
<1>1. /\ n \in Nat /\ Len(queue) \in Nat /\ waking \in 0..n /\ closed \in BOOLEAN
      /\ queue \in Seq(1..MaxPuts)
      /\ ~closed => waking <= Len(queue) /\ (waking < n => Len(queue) = waking)
  BY MappedState
<1>2. UNCHANGED <<closed, accepted, queue, sleeping, waking>>
  BY DEF GetClosed, GetEmpty
<1>3. AbsInbox' = AbsInbox /\ AbsWaiting' = AbsWaiting /\ AbsItems' = AbsItems
  BY <1>2, MappingIs
<1>4. Abstract!Idle(t)
  BY IdleSleepless, MappedState DEF GetClosed, GetEmpty
<1>5. CASE GetClosed(t)
  BY <1>2, <1>3, <1>4, <1>5 DEF GetClosed, Abstract!Refuse, Abstract!Rejected, Outcome
<1>6. CASE GetEmpty(t)
  <2>1. ~closed /\ Len(queue) < n + 1
    BY <1>6 DEF GetEmpty, Spare
  <2>2. Len(queue) = waking
    BY <1>1, <2>1
  <2>3. AbsItems = <<>>
    <3>1. closed = FALSE
      BY <1>1, <2>1
    <3>2. AbsItems = Stock(FALSE, queue, Len(queue))
      BY <2>2, <3>1, MappingIs
    <3> QED BY <1>1, <3>2, NothingSpare
  <2> QED BY <1>2, <1>3, <1>4, <1>6, <2>1, <2>3 DEF GetEmpty, Abstract!Refuse, Abstract!TimedOut, Outcome
<1> QED BY <1>5, <1>6

\* get() takes an item at once.
LEMMA TakeMaps ==
  ASSUME LatchInv, NEW t \in Threads, GetNow(t)
  PROVE  Abstract!Take(t)
<1> DEFINE n == Len(sleeping)
<1>1. /\ n \in Nat /\ Len(queue) \in Nat /\ waking \in 0..n /\ closed \in BOOLEAN
      /\ queue \in Seq(1..MaxPuts) /\ sleeping \in Seq(Entries) /\ SleepersDiffer(sleeping)
      /\ ~closed => waking <= Len(queue) /\ (waking < n => Len(queue) = waking)
  BY MappedState
<1>2. /\ ~closed /\ Len(queue) >= n + 1
      /\ result' = [result EXCEPT ![t] = Got(queue[n + 1])] /\ queue' = RemoveAt(queue, n + 1)
      /\ UNCHANGED <<closed, accepted, sleeping, waking>>
  BY DEF GetNow, Spare
<1>3. waking = n /\ n < Len(queue) /\ closed = FALSE
  BY <1>1, <1>2
<1>4. /\ Stock(FALSE, queue, n) # <<>>
      /\ Head(Stock(FALSE, queue, n)) = queue[n + 1]
      /\ Stock(FALSE, queue', n) = Tail(Stock(FALSE, queue, n))
      /\ Box(FALSE, queue', sleeping, n) = Box(FALSE, queue, sleeping, n)
  BY <1>1, <1>2, <1>3, Taking
<1>5. /\ AbsItems = Stock(FALSE, queue, n) /\ AbsItems' = Stock(FALSE, queue', n)
      /\ AbsInbox' = AbsInbox /\ AbsWaiting' = AbsWaiting
  BY <1>2, <1>3, <1>4, MappingIs
<1>6. Abstract!Idle(t)
  BY IdleSleepless, MappedState DEF GetNow
<1> HIDE DEF n
<1> QED BY <1>2, <1>4, <1>5, <1>6 DEF Abstract!Take, Abstract!Item, Got

\* get() goes to sleep.
LEMMA WaitMaps ==
  ASSUME LatchInv, TypeOK', SleepersExact', NEW t \in Threads, NEW p \in Pairs, GetSleep(t, p)
  PROVE  Abstract!Wait(t)
<1> DEFINE n == Len(sleeping)
           e == [pair |-> p, thread |-> t]
<1>1. /\ n \in Nat /\ Len(queue) \in Nat /\ waking \in 0..n /\ closed \in BOOLEAN
      /\ queue \in Seq(1..MaxPuts) /\ sleeping \in Seq(Entries) /\ SleepersDiffer(sleeping)
      /\ ~closed => waking <= Len(queue) /\ (waking < n => Len(queue) = waking)
  BY MappedState
<1>2. /\ ~closed /\ Len(queue) < n + 1 /\ sleeping' = Append(sleeping, e)
      /\ UNCHANGED <<closed, accepted, queue, waking, result>>
  BY DEF GetSleep, Spare
<1>3. e \in Entries /\ e.thread = t
  BY DEF Entries
<1> HIDE DEF e
<1>4. SleepersDiffer(sleeping')
  BY StillDiffer
<1>5. /\ Line(sleeping', waking) = Append(Line(sleeping, waking), t)
      /\ Box(closed, queue, sleeping', waking) = Box(closed, queue, sleeping, waking)
  BY <1>1, <1>2, <1>3, <1>4, Joining
<1>6. AbsWaiting' = Append(AbsWaiting, t) /\ AbsInbox' = AbsInbox /\ AbsItems' = AbsItems
  BY <1>2, <1>5, MappingIs
<1>7. AbsItems = <<>>
  <2>1. Len(queue) = waking /\ closed = FALSE
    BY <1>1, <1>2
  <2>2. AbsItems = Stock(FALSE, queue, Len(queue))
    BY <2>1, MappingIs
  <2> QED BY <1>1, <2>2, NothingSpare
<1>8. Abstract!Idle(t)
  BY IdleSleepless, MappedState DEF GetSleep
<1> QED BY <1>2, <1>6, <1>7, <1>8 DEF Abstract!Wait

\* put() chooses the first sleeper, or buffers the item.
LEMMA PutMaps ==
  ASSUME LatchInv, TypeOK', NEW t \in Threads, Put(t)
  PROVE  Abstract!Put(t)
<1> DEFINE n == Len(sleeping)
           i == accepted'
<1>1. /\ n \in Nat /\ Len(queue) \in Nat /\ waking \in 0..n /\ closed \in BOOLEAN
      /\ queue \in Seq(1..MaxPuts) /\ sleeping \in Seq(Entries) /\ SleepersDiffer(sleeping)
      /\ ~closed => waking <= Len(queue) /\ (waking < n => Len(queue) = waking)
  BY MappedState
<1>2. /\ ~closed /\ accepted < MaxPuts /\ i = accepted + 1 /\ queue' = Append(queue, i)
      /\ UNCHANGED <<closed, sleeping, result>>
  BY DEF Put
<1>3. i \in 1..MaxPuts /\ closed = FALSE
  BY <1>1, <1>2, LatchAssumption DEF LatchInv, TypeOK, LatchAssumption
<1>4. /\ queue' \in Seq(1..MaxPuts) /\ Len(queue') = Len(queue) + 1 /\ queue'[Len(queue) + 1] = i
      /\ \A k \in 1..Len(queue) : queue'[k] = queue[k]
  BY <1>1, <1>2, <1>3, AppendIndexes
<1>5. Abstract!Idle(t)
  BY IdleSleepless, MappedState DEF Put
<1>6. CASE waking < n /\ waking' = waking + 1
  <2>1. Len(queue) = waking /\ waking \in 0..(n - 1)
    BY <1>1, <1>2, <1>6
  <2>2. queue'[waking + 1] = i /\ \A k \in 1..waking : queue'[k] = queue[k]
    BY <1>4, <2>1
  <2>3. /\ Line(sleeping, waking) # <<>>
        /\ Line(sleeping, waking + 1) = Tail(Line(sleeping, waking))
        /\ Box(FALSE, queue', sleeping, waking + 1)
             = Given(Box(FALSE, queue, sleeping, waking), Head(Line(sleeping, waking)), Got(queue'[waking + 1]))
    <3>1. sleeping \in Seq(Entries) /\ SleepersDiffer(sleeping) /\ waking \in 0..(Len(sleeping) - 1)
      BY <1>1, <2>1
    <3> QED BY <2>2, <3>1, Handing
  <2>4. Stock(FALSE, queue', waking') = <<>> /\ Stock(FALSE, queue, waking) = <<>>
    BY <1>1, <1>4, <1>6, <2>1, NothingSpare
  <2>5. /\ AbsWaiting # <<>> /\ AbsWaiting' = Tail(AbsWaiting)
        /\ AbsInbox' = [AbsInbox EXCEPT ![Head(AbsWaiting)] = Got(i)]
        /\ AbsItems' = AbsItems
    BY <1>2, <1>3, <1>6, <2>2, <2>3, <2>4, MappingIs DEF Given
  <2> QED BY <1>2, <1>5, <2>5 DEF Abstract!Put, Abstract!Item, Got
<1>7. CASE waking >= n /\ waking' = waking
  <2>1. waking = n /\ n <= Len(queue)
    BY <1>1, <1>2, <1>7
  <2>2. /\ Stock(FALSE, queue', n) = Append(Stock(FALSE, queue, n), i)
        /\ Box(FALSE, queue', sleeping, n) = Box(FALSE, queue, sleeping, n)
    BY <1>1, <1>2, <1>3, <2>1, Buffering
  <2>3. Line(sleeping, n) = <<>>
    BY <1>1, Turning
  <2>4. /\ AbsWaiting = <<>> /\ AbsWaiting' = AbsWaiting /\ AbsInbox' = AbsInbox
        /\ AbsItems' = Append(AbsItems, i)
    BY <1>2, <1>3, <1>7, <2>1, <2>2, <2>3, MappingIs
  <2> QED BY <1>2, <1>5, <2>4 DEF Abstract!Put
<1> QED BY <1>6, <1>7 DEF Put

\* close() turns the sleepers away.
LEMMA CloseMaps ==
  ASSUME LatchInv, NEW t \in Threads, Close(t)
  PROVE  Abstract!Close(t)
<1> DEFINE n == Len(sleeping)
<1>1. n \in Nat /\ waking \in 0..n /\ sleeping \in Seq(Entries) /\ SleepersDiffer(sleeping)
  BY MappedState
<1>2. closed' = TRUE /\ UNCHANGED <<accepted, queue, sleeping, result>>
      /\ waking' = IF waking < n THEN n ELSE waking
  BY DEF Close
<1>3. waking' = n
  BY <1>1, <1>2
<1>4. /\ Line(sleeping, n) = <<>> /\ Stock(TRUE, queue, n) = <<>>
      /\ Box(TRUE, queue, sleeping, n) =
           [u \in Threads |-> IF \A k \in 1..n : sleeping[k].thread # u THEN Outcome("none") ELSE Outcome("closed")]
  BY <1>1, Turning
<1>5. /\ AbsWaiting' = <<>> /\ AbsItems' = <<>>
      /\ AbsInbox' = [u \in Threads |-> IF \A k \in 1..n : sleeping[k].thread # u
                                        THEN Outcome("none") ELSE Outcome("closed")]
  BY <1>2, <1>3, <1>4, MappingIs
<1>6. \A u \in Threads : Abstract!Idle(u) <=> \A k \in 1..n : sleeping[k].thread # u
  BY IdleSleepless
<1> HIDE DEF n
<1>7. AbsInbox' = [u \in Threads |-> IF Abstract!Idle(u) THEN Abstract!Nothing ELSE Abstract!Rejected]
  BY <1>5, <1>6 DEF Abstract!Nothing, Abstract!Rejected, Outcome
<1>8. Abstract!Idle(t)
  BY IdleSleepless, MappedState DEF Close
<1> QED BY <1>2, <1>5, <1>7, <1>8 DEF Abstract!Close

\* A sleeper that wakes returns with what it was handed.
LEMMA ReturnMaps ==
  ASSUME LatchInv, TypeOK', SleepersExact', NEW t \in Threads, GetWake(t)
  PROVE  Abstract!Return(t)
<1> DEFINE n == Len(sleeping)
<1>1. /\ n \in Nat /\ Len(queue) \in Nat /\ waking \in 0..n /\ closed \in BOOLEAN
      /\ queue \in Seq(1..MaxPuts) /\ sleeping \in Seq(Entries) /\ SleepersDiffer(sleeping)
      /\ ~closed => waking <= Len(queue)
  BY MappedState
<1>2. PICK k \in 1..n : /\ LeaveSleep(t, k)
                        /\ \/ WakeTimeout(t, k) \/ WakeAssert(t, k)
                           \/ WakeClosed(t, k)  \/ WakeItem(t, k)
                        /\ entry[t] = sleeping[k]
  BY Leaving DEF LatchInv
<1>3. pipe[sleeping[k].pair] = <<t>> /\ pipe[sleeping[k].pair] # <<>> /\ k <= waking /\ sleeping[k].thread = t
  BY <1>2, WakesWithCookie
<1>4. waking \in 1..n /\ k \in 1..waking /\ (~closed => k <= Len(queue))
  BY <1>1, <1>3
<1>5. /\ UNCHANGED <<closed, accepted>>
      /\ sleeping' = RemoveAt(sleeping, k)
      /\ waking' = waking - 1
      /\ \/ closed /\ queue' = queue /\ result' = [result EXCEPT ![t] = Outcome("closed")]
         \/ ~closed /\ queue' = RemoveAt(queue, k) /\ result' = [result EXCEPT ![t] = Got(queue[k])]
  BY <1>1, <1>2, <1>3, <1>4 DEF LeaveSleep, WakeTimeout, WakeAssert, WakeClosed, WakeItem, Recv
<1>6. SleepersDiffer(sleeping')
  BY StillDiffer
<1>7. /\ Box(closed, queue, sleeping, waking)[t] = IF closed THEN Outcome("closed") ELSE Got(queue[k])
      /\ Box(closed, queue', sleeping', waking - 1) = Given(Box(closed, queue, sleeping, waking), t, Outcome("none"))
      /\ Line(sleeping', waking - 1) = Line(sleeping, waking)
      /\ Stock(closed, queue', waking - 1) = Stock(closed, queue, waking)
  <2> DEFINE sm == RemoveAt(sleeping, k)
             d == sleeping[k].thread
  <2>1. queue \in Seq(1..MaxPuts) /\ sleeping \in Seq(Entries) /\ SleepersDiffer(sleeping) /\ SleepersDiffer(sm)
    BY <1>1, <1>5, <1>6
  <2>2. ~closed => waking <= Len(queue) /\ queue' = RemoveAt(queue, k)
    BY <1>1, <1>5
  <2>3. /\ Box(closed, queue, sleeping, waking)[d] = IF closed THEN Outcome("closed") ELSE Got(queue[k])
        /\ Box(closed, queue', sm, waking - 1) = Given(Box(closed, queue, sleeping, waking), d, Outcome("none"))
        /\ Line(sm, waking - 1) = Line(sleeping, waking)
        /\ Stock(closed, queue', waking - 1) = Stock(closed, queue, waking)
    <3>1. waking \in 1..Len(sleeping) /\ k \in 1..waking
      BY <1>4
    <3> QED BY <2>1, <2>2, <3>1, Leaves
  <2>4. d = t /\ sm = sleeping'
    BY <1>3, <1>5
  <2> HIDE DEF d, sm
  <2> QED BY <2>3, <2>4
<1>8. /\ AbsInbox[t] = IF closed THEN Outcome("closed") ELSE Got(queue[k])
      /\ AbsInbox' = [AbsInbox EXCEPT ![t] = Outcome("none")]
      /\ AbsWaiting' = AbsWaiting /\ AbsItems' = AbsItems
  BY <1>5, <1>7, MappingIs DEF Given
<1>9. result' = [result EXCEPT ![t] = AbsInbox[t]]
  BY <1>5, <1>8
<1>10. AbsInbox[t] # Outcome("none")
  BY <1>8 DEF Outcome, Got
<1> QED BY <1>5, <1>8, <1>9, <1>10 DEF Abstract!Return, Abstract!Nothing, Outcome

\* Every step of a latch nobody polls with a timeout is a step of LatchQueue or
\* a stutter.
LEMMA StepMaps ==
  ASSUME Timed = {}, LatchInv, [Next]_vars
  PROVE  [Abstract!Next]_(Abstract!vars)
<1>1. TypeOK' /\ SleepersExact'
  BY NextLatchInv DEF LatchInv
<1>2. ASSUME UNCHANGED <<closed, accepted, queue, sleeping, waking, result>>
      PROVE  UNCHANGED (Abstract!vars)
  <2>1. AbsInbox' = AbsInbox /\ AbsWaiting' = AbsWaiting /\ AbsItems' = AbsItems
    BY <1>2, MappingIs
  <2> QED BY <1>2, <2>1 DEF Abstract!vars
<1>3. ASSUME NEW t \in Threads,
             \/ GetClosed(t) \/ GetNow(t) \/ GetEmpty(t)
             \/ \E p \in Pairs : GetSleep(t, p)
             \/ GetWake(t) \/ Put(t) \/ Close(t)
      PROVE  Abstract!Next
  <2>1. \/ Abstract!Put(t) \/ Abstract!Take(t) \/ Abstract!Refuse(t) \/ Abstract!Wait(t)
        \/ Abstract!Return(t) \/ Abstract!Close(t)
    BY <1>1, <1>3, RefuseMaps, TakeMaps, WaitMaps, ReturnMaps, PutMaps, CloseMaps
  <2> QED BY <2>1 DEF Abstract!Next
<1>4. ASSUME NEW t \in Threads, PollReadable(t) \/ PutWake(t)
      PROVE  UNCHANGED (Abstract!vars)
  <2>1. UNCHANGED <<closed, accepted, queue, sleeping, waking, result>>
    BY <1>4 DEF PollReadable, PutWake
  <2> QED BY <1>2, <2>1
<1>5. CASE UNCHANGED vars
  BY <1>2, <1>5 DEF vars
<1> QED BY <1>3, <1>4, <1>5 DEF Next

\* Unless a get() times out, the latch with its sockets, its cookies and its two
\* regions under the lock behaves as the plain queue of LatchQueue: items and
\* waiters meet in arrival order, and close() turns every waiter away.
THEOREM QueueImplemented == ASSUME Timed = {} PROVE Spec => ImplementsQueue
<1>1. Init => LatchInv
  BY InitLatchInv
<1>2. LatchInv /\ [Next]_vars => LatchInv'
  BY NextLatchInv
<1>3. Init => Abstract!Init
  BY InitMaps
<1>4. LatchInv /\ [Next]_vars => [Abstract!Next]_(Abstract!vars)
  BY StepMaps
<1> QED BY <1>1, <1>2, <1>3, <1>4, PTL DEF Spec, ImplementsQueue, Abstract!Spec

-----------------------------------------------------------------------------
(* Spawn: the descriptors of a parent that starts a child                       *)

\* What the Process object holds of a way of starting.
KeptBy(w) == CASE w.function = "child" -> Parents(w) \cup (IF w.stderrPipe THEN {"stderr_r"} ELSE {})
               [] w.function = "tty" -> {"master_fp"}
               [] w.function = "hybrid" -> Parents(w) \cup {"master_fp"}
               [] w.function = "fork" -> {"parentfp"}
\* What is left when the call after the first k raises.
LeftBy(w, k) == IF k = (IF w.pipes THEN 2 ELSE 1) /\ (w.stderrPipe \/ w.function = "fork")
                THEN Parents(w) \cup Childs(w) ELSE {}
\* The call after the first k, made with the descriptors of before open, leaves those of after.
Leads(w, k, before, c, after) ==
  /\ after = IF c.does = "closes" THEN before \ c.fds ELSE before \cup c.fds
  /\ c.does # "closes" => before \ c.cleanup = LeftBy(w, k)
\* h gives the descriptors after each call of a way.
Follows(w, h) ==
  /\ h[0] = {} /\ h[Len(Calls(w))] = KeptBy(w)
  /\ \A i \in 1..Len(Calls(w)) : Leads(w, i - 1, h[i - 1], Calls(w)[i], h[i])
\* There is such an h: the way is balanced.
Sound(w) == Len(Calls(w)) \in Nat \ {0} /\ \E h : Follows(w, h)
\* The descriptors open are those h gives, until the child is started or given up.
SpawnInv ==
  /\ way \in Ways /\ step \in Nat
  /\ childState = "trying" => step < Len(Calls(way)) /\ \E h : Follows(way, h) /\ opened = h[step]
  /\ DescriptorsBalance

LEMMA One == ASSUME NEW X, NEW a \in X PROVE <<a>> \in Seq(X) /\ Len(<<a>>) = 1 /\ <<a>>[1] = a
  OBVIOUS
LEMMA Joined ==
  ASSUME NEW X, NEW s \in Seq(X), NEW t \in Seq(X)
  PROVE  /\ s \o t \in Seq(X) /\ Len(s \o t) = Len(s) + Len(t) /\ Len(s) \in Nat /\ Len(t) \in Nat
         /\ \A i \in 1..Len(s) : (s \o t)[i] = s[i]
         /\ \A i \in 1..Len(t) : (s \o t)[Len(s) + i] = t[i]
  OBVIOUS

\* The calls of the longest ways, by number.
LEMMA FiveCalls ==
  ASSUME NEW a, NEW b, NEW c, NEW d, NEW e
  PROVE  LET s == ((<<a>> \o <<b>>) \o <<c>>) \o <<d>> \o <<e>>
         IN Len(s) = 5 /\ s[1] = a /\ s[2] = b /\ s[3] = c /\ s[4] = d /\ s[5] = e
<1> DEFINE X == {a, b, c, d, e}
<1>1. \A x \in X : <<x>> \in Seq(X) /\ Len(<<x>>) = 1 /\ <<x>>[1] = x
  BY One
<1> DEFINE AA == <<a>>
           BB == <<b>>
           CC == <<c>>
           DD == <<d>>
           EE == <<e>>
<1>2. a \in X /\ b \in X /\ c \in X /\ d \in X /\ e \in X
  OBVIOUS
<1>3. (AA \in Seq(X) /\ Len(AA) = 1 /\ AA[1] = a) /\ (BB \in Seq(X) /\ Len(BB) = 1 /\ BB[1] = b) /\ (CC \in Seq(X) /\ Len(CC) = 1 /\ CC[1] = c) /\ (DD \in Seq(X) /\ Len(DD) = 1 /\ DD[1] = d) /\ (EE \in Seq(X) /\ Len(EE) = 1 /\ EE[1] = e)
  BY <1>1, <1>2
<1> HIDE DEF X, AA, BB, CC, DD, EE
<1> DEFINE S2 == AA \o BB
<1>4. S2 \in Seq(X) /\ Len(S2) = 2 /\ S2[1] = a /\ S2[2] = b
  <2>0. AA \in Seq(X) /\ BB \in Seq(X)
    BY <1>3
  <2>1. /\ S2 \in Seq(X) /\ Len(S2) = Len(AA) + Len(BB)
        /\ \A i \in 1..Len(AA) : S2[i] = AA[i]
        /\ \A i \in 1..Len(BB) : S2[Len(AA) + i] = BB[i]
    BY <2>0, Joined
  <2> HIDE DEF S2
  <2> QED BY <2>1, <1>3
<1> HIDE DEF S2
<1> DEFINE S3 == S2 \o CC
<1>5. S3 \in Seq(X) /\ Len(S3) = 3 /\ S3[1] = a /\ S3[2] = b /\ S3[3] = c
  <2>0. S2 \in Seq(X) /\ CC \in Seq(X)
    BY <1>3, <1>4
  <2>1. /\ S3 \in Seq(X) /\ Len(S3) = Len(S2) + Len(CC)
        /\ \A i \in 1..Len(S2) : S3[i] = S2[i]
        /\ \A i \in 1..Len(CC) : S3[Len(S2) + i] = CC[i]
    BY <2>0, Joined
  <2> HIDE DEF S3
  <2> QED BY <2>1, <1>3, <1>4
<1> HIDE DEF S3
<1> DEFINE S4 == S3 \o DD
<1>6. S4 \in Seq(X) /\ Len(S4) = 4 /\ S4[1] = a /\ S4[2] = b /\ S4[3] = c /\ S4[4] = d
  <2>0. S3 \in Seq(X) /\ DD \in Seq(X)
    BY <1>3, <1>5
  <2>1. /\ S4 \in Seq(X) /\ Len(S4) = Len(S3) + Len(DD)
        /\ \A i \in 1..Len(S3) : S4[i] = S3[i]
        /\ \A i \in 1..Len(DD) : S4[Len(S3) + i] = DD[i]
    BY <2>0, Joined
  <2> HIDE DEF S4
  <2> QED BY <2>1, <1>3, <1>5
<1> HIDE DEF S4
<1> DEFINE S5 == S4 \o EE
<1>7. S5 \in Seq(X) /\ Len(S5) = 5 /\ S5[1] = a /\ S5[2] = b /\ S5[3] = c /\ S5[4] = d /\ S5[5] = e
  <2>0. S4 \in Seq(X) /\ EE \in Seq(X)
    BY <1>3, <1>6
  <2>1. /\ S5 \in Seq(X) /\ Len(S5) = Len(S4) + Len(EE)
        /\ \A i \in 1..Len(S4) : S5[i] = S4[i]
        /\ \A i \in 1..Len(EE) : S5[Len(S4) + i] = EE[i]
    BY <2>0, Joined
  <2> HIDE DEF S5
  <2> QED BY <2>1, <1>3, <1>6
<1> HIDE DEF S5
<1> QED BY <1>7 DEF AA, BB, CC, DD, EE, S2, S3, S4, S5

LEMMA FiveCallsTty ==
  ASSUME NEW a, NEW b, NEW c, NEW d, NEW e
  PROVE  LET s == (<<a>> \o (<<b>> \o <<c>>)) \o <<d>> \o <<e>>
         IN Len(s) = 5 /\ s[1] = a /\ s[2] = b /\ s[3] = c /\ s[4] = d /\ s[5] = e
<1> DEFINE X == {a, b, c, d, e}
<1>1. \A x \in X : <<x>> \in Seq(X) /\ Len(<<x>>) = 1 /\ <<x>>[1] = x
  BY One
<1> DEFINE AA == <<a>>
           BB == <<b>>
           CC == <<c>>
           DD == <<d>>
           EE == <<e>>
<1>2. a \in X /\ b \in X /\ c \in X /\ d \in X /\ e \in X
  OBVIOUS
<1>3. (AA \in Seq(X) /\ Len(AA) = 1 /\ AA[1] = a) /\ (BB \in Seq(X) /\ Len(BB) = 1 /\ BB[1] = b) /\ (CC \in Seq(X) /\ Len(CC) = 1 /\ CC[1] = c) /\ (DD \in Seq(X) /\ Len(DD) = 1 /\ DD[1] = d) /\ (EE \in Seq(X) /\ Len(EE) = 1 /\ EE[1] = e)
  BY <1>1, <1>2
<1> HIDE DEF X, AA, BB, CC, DD, EE
<1> DEFINE S2 == BB \o CC
<1>4. S2 \in Seq(X) /\ Len(S2) = 2 /\ S2[1] = b /\ S2[2] = c
  <2>0. BB \in Seq(X) /\ CC \in Seq(X)
    BY <1>3
  <2>1. /\ S2 \in Seq(X) /\ Len(S2) = Len(BB) + Len(CC)
        /\ \A i \in 1..Len(BB) : S2[i] = BB[i]
        /\ \A i \in 1..Len(CC) : S2[Len(BB) + i] = CC[i]
    BY <2>0, Joined
  <2> HIDE DEF S2
  <2> QED BY <2>1, <1>3
<1> HIDE DEF S2
<1> DEFINE S3 == AA \o S2
<1>5. S3 \in Seq(X) /\ Len(S3) = 3 /\ S3[1] = a /\ S3[2] = b /\ S3[3] = c
  <2>0. AA \in Seq(X) /\ S2 \in Seq(X)
    BY <1>3, <1>4
  <2>1. /\ S3 \in Seq(X) /\ Len(S3) = Len(AA) + Len(S2)
        /\ \A i \in 1..Len(AA) : S3[i] = AA[i]
        /\ \A i \in 1..Len(S2) : S3[Len(AA) + i] = S2[i]
    BY <2>0, Joined
  <2> HIDE DEF S3
  <2> QED BY <2>1, <1>3, <1>4
<1> HIDE DEF S3
<1> DEFINE S4 == S3 \o DD
<1>6. S4 \in Seq(X) /\ Len(S4) = 4 /\ S4[1] = a /\ S4[2] = b /\ S4[3] = c /\ S4[4] = d
  <2>0. S3 \in Seq(X) /\ DD \in Seq(X)
    BY <1>3, <1>5
  <2>1. /\ S4 \in Seq(X) /\ Len(S4) = Len(S3) + Len(DD)
        /\ \A i \in 1..Len(S3) : S4[i] = S3[i]
        /\ \A i \in 1..Len(DD) : S4[Len(S3) + i] = DD[i]
    BY <2>0, Joined
  <2> HIDE DEF S4
  <2> QED BY <2>1, <1>3, <1>5
<1> HIDE DEF S4
<1> DEFINE S5 == S4 \o EE
<1>7. S5 \in Seq(X) /\ Len(S5) = 5 /\ S5[1] = a /\ S5[2] = b /\ S5[3] = c /\ S5[4] = d /\ S5[5] = e
  <2>0. S4 \in Seq(X) /\ EE \in Seq(X)
    BY <1>3, <1>6
  <2>1. /\ S5 \in Seq(X) /\ Len(S5) = Len(S4) + Len(EE)
        /\ \A i \in 1..Len(S4) : S5[i] = S4[i]
        /\ \A i \in 1..Len(EE) : S5[Len(S4) + i] = EE[i]
    BY <2>0, Joined
  <2> HIDE DEF S5
  <2> QED BY <2>1, <1>3, <1>6
<1> HIDE DEF S5
<1> QED BY <1>7 DEF AA, BB, CC, DD, EE, S2, S3, S4, S5

\* Each way is balanced.
LEMMA ChildSockets == ASSUME NEW w \in Ways, w.function = "child", ~w.pipes, ~w.stderrPipe PROVE Sound(w)
<1> DEFINE cs == Calls(w)
<1>1. /\ Len(cs) = 3
      /\ cs[1] = [does |-> "opens", fds |-> {"parentfp", "childfp"}, cleanup |-> {}]
      /\ cs[2] = [does |-> "starts", fds |-> {}, cleanup |-> {"parentfp", "childfp"}]
      /\ cs[3] = [does |-> "closes", fds |-> {"childfp"}, cleanup |-> {}]
  BY DEF Calls, CreateChild, BestPipe, Parents, Childs, Opens, Starts, Closes
<1> HIDE DEF cs
<1> DEFINE h == [i \in 0..3 |-> CASE i = 0 -> {} [] i = 1 -> {"parentfp", "childfp"} [] i = 2 -> {"parentfp", "childfp"} [] i = 3 -> {"parentfp"}]
<1>2. /\ h[0] = {}
      /\ h[1] = {"parentfp", "childfp"}
      /\ h[2] = {"parentfp", "childfp"}
      /\ h[3] = {"parentfp"}
  OBVIOUS
<1> HIDE DEF h
<1>3. KeptBy(w) = {"parentfp"}
  BY DEF KeptBy, Parents
<1>s1. Leads(w, 0, h[0], cs[1], h[1])
  BY <1>1, <1>2 DEF Leads, LeftBy, Parents, Childs
<1>s2. Leads(w, 1, h[1], cs[2], h[2])
  BY <1>1, <1>2 DEF Leads, LeftBy, Parents, Childs
<1>s3. Leads(w, 2, h[2], cs[3], h[3])
  BY <1>1, <1>2 DEF Leads, LeftBy, Parents, Childs
<1>4. \A i \in 1..3 : Leads(w, i - 1, h[i - 1], cs[i], h[i])
  BY <1>s1, <1>s2, <1>s3
<1>5. h[0] = {} /\ h[Len(cs)] = KeptBy(w) /\ Len(cs) = 3
  BY <1>1, <1>2, <1>3
<1> QED BY <1>4, <1>5 DEF Sound, Follows, cs

LEMMA ChildSocketsStderr == ASSUME NEW w \in Ways, w.function = "child", ~w.pipes, w.stderrPipe PROVE Sound(w)
<1> DEFINE cs == Calls(w)
<1>1. /\ Len(cs) = 4
      /\ cs[1] = [does |-> "opens", fds |-> {"parentfp", "childfp"}, cleanup |-> {}]
      /\ cs[2] = [does |-> "opens", fds |-> {"stderr", "stderr_r"}, cleanup |-> {}]
      /\ cs[3] = [does |-> "starts", fds |-> {}, cleanup |-> {"parentfp", "childfp", "stderr", "stderr_r"}]
      /\ cs[4] = [does |-> "closes", fds |-> {"childfp", "stderr"}, cleanup |-> {}]
  BY DEF Calls, CreateChild, BestPipe, Parents, Childs, Opens, Starts, Closes
<1> HIDE DEF cs
<1> DEFINE h == [i \in 0..4 |-> CASE i = 0 -> {} [] i = 1 -> {"parentfp", "childfp"} [] i = 2 -> {"parentfp", "childfp", "stderr", "stderr_r"} [] i = 3 -> {"parentfp", "childfp", "stderr", "stderr_r"} [] i = 4 -> {"parentfp", "stderr_r"}]
<1>2. /\ h[0] = {}
      /\ h[1] = {"parentfp", "childfp"}
      /\ h[2] = {"parentfp", "childfp", "stderr", "stderr_r"}
      /\ h[3] = {"parentfp", "childfp", "stderr", "stderr_r"}
      /\ h[4] = {"parentfp", "stderr_r"}
  OBVIOUS
<1> HIDE DEF h
<1>3. KeptBy(w) = {"parentfp", "stderr_r"}
  BY DEF KeptBy, Parents
<1>s1. Leads(w, 0, h[0], cs[1], h[1])
  BY <1>1, <1>2 DEF Leads, LeftBy, Parents, Childs
<1>s2. Leads(w, 1, h[1], cs[2], h[2])
  BY <1>1, <1>2 DEF Leads, LeftBy, Parents, Childs
<1>s3. Leads(w, 2, h[2], cs[3], h[3])
  BY <1>1, <1>2 DEF Leads, LeftBy, Parents, Childs
<1>s4. Leads(w, 3, h[3], cs[4], h[4])
  BY <1>1, <1>2 DEF Leads, LeftBy, Parents, Childs
<1>4. \A i \in 1..4 : Leads(w, i - 1, h[i - 1], cs[i], h[i])
  BY <1>s1, <1>s2, <1>s3, <1>s4
<1>5. h[0] = {} /\ h[Len(cs)] = KeptBy(w) /\ Len(cs) = 4
  BY <1>1, <1>2, <1>3
<1> QED BY <1>4, <1>5 DEF Sound, Follows, cs

LEMMA ChildPipes == ASSUME NEW w \in Ways, w.function = "child", w.pipes, ~w.stderrPipe PROVE Sound(w)
<1> DEFINE cs == Calls(w)
<1>1. /\ Len(cs) = 4
      /\ cs[1] = [does |-> "opens", fds |-> {"parent_rfp", "child_wfp"}, cleanup |-> {}]
      /\ cs[2] = [does |-> "opens", fds |-> {"child_rfp", "parent_wfp"}, cleanup |-> {"parent_rfp", "child_wfp"}]
      /\ cs[3] = [does |-> "starts", fds |-> {}, cleanup |-> {"parent_rfp", "parent_wfp", "child_rfp", "child_wfp"}]
      /\ cs[4] = [does |-> "closes", fds |-> {"child_rfp", "child_wfp"}, cleanup |-> {}]
  BY DEF Calls, CreateChild, BestPipe, Parents, Childs, Opens, Starts, Closes
<1> HIDE DEF cs
<1> DEFINE h == [i \in 0..4 |-> CASE i = 0 -> {} [] i = 1 -> {"parent_rfp", "child_wfp"} [] i = 2 -> {"parent_rfp", "child_wfp", "child_rfp", "parent_wfp"} [] i = 3 -> {"parent_rfp", "child_wfp", "child_rfp", "parent_wfp"} [] i = 4 -> {"parent_rfp", "parent_wfp"}]
<1>2. /\ h[0] = {}
      /\ h[1] = {"parent_rfp", "child_wfp"}
      /\ h[2] = {"parent_rfp", "child_wfp", "child_rfp", "parent_wfp"}
      /\ h[3] = {"parent_rfp", "child_wfp", "child_rfp", "parent_wfp"}
      /\ h[4] = {"parent_rfp", "parent_wfp"}
  OBVIOUS
<1> HIDE DEF h
<1>3. KeptBy(w) = {"parent_rfp", "parent_wfp"}
  BY DEF KeptBy, Parents
<1>s1. Leads(w, 0, h[0], cs[1], h[1])
  BY <1>1, <1>2 DEF Leads, LeftBy, Parents, Childs
<1>s2. Leads(w, 1, h[1], cs[2], h[2])
  BY <1>1, <1>2 DEF Leads, LeftBy, Parents, Childs
<1>s3. Leads(w, 2, h[2], cs[3], h[3])
  BY <1>1, <1>2 DEF Leads, LeftBy, Parents, Childs
<1>s4. Leads(w, 3, h[3], cs[4], h[4])
  BY <1>1, <1>2 DEF Leads, LeftBy, Parents, Childs
<1>4. \A i \in 1..4 : Leads(w, i - 1, h[i - 1], cs[i], h[i])
  BY <1>s1, <1>s2, <1>s3, <1>s4
<1>5. h[0] = {} /\ h[Len(cs)] = KeptBy(w) /\ Len(cs) = 4
  BY <1>1, <1>2, <1>3
<1> QED BY <1>4, <1>5 DEF Sound, Follows, cs

LEMMA ChildPipesStderr == ASSUME NEW w \in Ways, w.function = "child", w.pipes, w.stderrPipe PROVE Sound(w)
<1> DEFINE cs == Calls(w)
<1>f0. (Parents(w) \cup Childs(w)) \cup {"stderr", "stderr_r"} = {"parent_rfp", "parent_wfp", "child_rfp", "child_wfp", "stderr", "stderr_r"}
  BY DEF Parents, Childs
<1>f1. Childs(w) \cup ({"stderr", "stderr_r"} \ {"stderr_r"}) = {"child_rfp", "child_wfp", "stderr"}
  BY DEF Parents, Childs
<1>f2. {} \cup {"parent_rfp", "child_wfp"} = {"parent_rfp", "child_wfp"}
  BY DEF Parents, Childs
<1> DEFINE a == [does |-> "opens", fds |-> {"parent_rfp", "child_wfp"}, cleanup |-> {}]
           b == [does |-> "opens", fds |-> {"child_rfp", "parent_wfp"}, cleanup |-> {"parent_rfp", "child_wfp"}]
           c == [does |-> "opens", fds |-> {"stderr", "stderr_r"}, cleanup |-> {}]
           d == [does |-> "starts", fds |-> {}, cleanup |-> {"parent_rfp", "parent_wfp", "child_rfp", "child_wfp", "stderr", "stderr_r"}]
           e == [does |-> "closes", fds |-> {"child_rfp", "child_wfp", "stderr"}, cleanup |-> {}]
<1>g. cs = ((<<a>> \o <<b>>) \o <<c>>) \o <<d>> \o <<e>>
  BY <1>f0, <1>f1, <1>f2 DEF Calls, CreateChild, BestPipe, Opens, Starts, Closes
<1> HIDE DEF cs, a, b, c, d, e
<1>v. Len(cs) = 5 /\ cs[1] = a /\ cs[2] = b /\ cs[3] = c /\ cs[4] = d /\ cs[5] = e
  <2>1. LET s == ((<<a>> \o <<b>>) \o <<c>>) \o <<d>> \o <<e>>
        IN Len(s) = 5 /\ s[1] = a /\ s[2] = b /\ s[3] = c /\ s[4] = d /\ s[5] = e
    BY FiveCalls
  <2> QED BY <1>g, <2>1
<1>1. /\ Len(cs) = 5
      /\ cs[1] = [does |-> "opens", fds |-> {"parent_rfp", "child_wfp"}, cleanup |-> {}]
      /\ cs[2] = [does |-> "opens", fds |-> {"child_rfp", "parent_wfp"}, cleanup |-> {"parent_rfp", "child_wfp"}]
      /\ cs[3] = [does |-> "opens", fds |-> {"stderr", "stderr_r"}, cleanup |-> {}]
      /\ cs[4] = [does |-> "starts", fds |-> {}, cleanup |-> {"parent_rfp", "parent_wfp", "child_rfp", "child_wfp", "stderr", "stderr_r"}]
      /\ cs[5] = [does |-> "closes", fds |-> {"child_rfp", "child_wfp", "stderr"}, cleanup |-> {}]
  BY <1>v DEF a, b, c, d, e
<1> HIDE DEF cs
<1> DEFINE h == [i \in 0..5 |-> CASE i = 0 -> {} [] i = 1 -> {"parent_rfp", "child_wfp"} [] i = 2 -> {"parent_rfp", "child_wfp", "child_rfp", "parent_wfp"} [] i = 3 -> {"parent_rfp", "child_wfp", "child_rfp", "parent_wfp", "stderr", "stderr_r"} [] i = 4 -> {"parent_rfp", "child_wfp", "child_rfp", "parent_wfp", "stderr", "stderr_r"} [] i = 5 -> {"parent_rfp", "parent_wfp", "stderr_r"}]
<1>2. /\ h[0] = {}
      /\ h[1] = {"parent_rfp", "child_wfp"}
      /\ h[2] = {"parent_rfp", "child_wfp", "child_rfp", "parent_wfp"}
      /\ h[3] = {"parent_rfp", "child_wfp", "child_rfp", "parent_wfp", "stderr", "stderr_r"}
      /\ h[4] = {"parent_rfp", "child_wfp", "child_rfp", "parent_wfp", "stderr", "stderr_r"}
      /\ h[5] = {"parent_rfp", "parent_wfp", "stderr_r"}
  OBVIOUS
<1> HIDE DEF h
<1>3. KeptBy(w) = {"parent_rfp", "parent_wfp", "stderr_r"}
  BY DEF KeptBy, Parents
<1>s1. Leads(w, 0, h[0], cs[1], h[1])
  BY <1>1, <1>2 DEF Leads, LeftBy, Parents, Childs
<1>s2. Leads(w, 1, h[1], cs[2], h[2])
  BY <1>1, <1>2 DEF Leads, LeftBy, Parents, Childs
<1>s3. Leads(w, 2, h[2], cs[3], h[3])
  BY <1>1, <1>2 DEF Leads, LeftBy, Parents, Childs
<1>s4. Leads(w, 3, h[3], cs[4], h[4])
  BY <1>1, <1>2 DEF Leads, LeftBy, Parents, Childs
<1>s5. Leads(w, 4, h[4], cs[5], h[5])
  BY <1>1, <1>2 DEF Leads, LeftBy, Parents, Childs
<1>4. \A i \in 1..5 : Leads(w, i - 1, h[i - 1], cs[i], h[i])
  BY <1>s1, <1>s2, <1>s3, <1>s4, <1>s5
<1>5. h[0] = {} /\ h[Len(cs)] = KeptBy(w) /\ Len(cs) = 5
  BY <1>1, <1>2, <1>3
<1> QED BY <1>4, <1>5 DEF Sound, Follows, cs

LEMMA HybridSockets == ASSUME NEW w \in Ways, w.function = "hybrid", ~w.pipes, ~w.stderrPipe PROVE Sound(w)
<1> DEFINE cs == Calls(w)
<1>1. /\ Len(cs) = 4
      /\ cs[1] = [does |-> "opens", fds |-> {"master_fp", "slave_fp"}, cleanup |-> {}]
      /\ cs[2] = [does |-> "opens", fds |-> {"parentfp", "childfp"}, cleanup |-> {"master_fp", "slave_fp"}]
      /\ cs[3] = [does |-> "starts", fds |-> {}, cleanup |-> {"master_fp", "slave_fp", "parentfp", "childfp"}]
      /\ cs[4] = [does |-> "closes", fds |-> {"slave_fp", "childfp"}, cleanup |-> {}]
  BY DEF Calls, HybridTtyCreateChild, Openpty, BestPipe, Parents, Childs, Opens, Starts, Closes
<1> HIDE DEF cs
<1> DEFINE h == [i \in 0..4 |-> CASE i = 0 -> {} [] i = 1 -> {"master_fp", "slave_fp"} [] i = 2 -> {"master_fp", "slave_fp", "parentfp", "childfp"} [] i = 3 -> {"master_fp", "slave_fp", "parentfp", "childfp"} [] i = 4 -> {"master_fp", "parentfp"}]
<1>2. /\ h[0] = {}
      /\ h[1] = {"master_fp", "slave_fp"}
      /\ h[2] = {"master_fp", "slave_fp", "parentfp", "childfp"}
      /\ h[3] = {"master_fp", "slave_fp", "parentfp", "childfp"}
      /\ h[4] = {"master_fp", "parentfp"}
  OBVIOUS
<1> HIDE DEF h
<1>3. KeptBy(w) = {"parentfp", "master_fp"}
  BY DEF KeptBy, Parents
<1>s1. Leads(w, 0, h[0], cs[1], h[1])
  BY <1>1, <1>2 DEF Leads, LeftBy, Parents, Childs
<1>s2. Leads(w, 1, h[1], cs[2], h[2])
  BY <1>1, <1>2 DEF Leads, LeftBy, Parents, Childs
<1>s3. Leads(w, 2, h[2], cs[3], h[3])
  BY <1>1, <1>2 DEF Leads, LeftBy, Parents, Childs
<1>s4. Leads(w, 3, h[3], cs[4], h[4])
  BY <1>1, <1>2 DEF Leads, LeftBy, Parents, Childs
<1>4. \A i \in 1..4 : Leads(w, i - 1, h[i - 1], cs[i], h[i])
  BY <1>s1, <1>s2, <1>s3, <1>s4
<1>5. h[0] = {} /\ h[Len(cs)] = KeptBy(w) /\ Len(cs) = 4
  BY <1>1, <1>2, <1>3
<1> QED BY <1>4, <1>5 DEF Sound, Follows, cs

LEMMA HybridPipes == ASSUME NEW w \in Ways, w.function = "hybrid", w.pipes, ~w.stderrPipe PROVE Sound(w)
<1> DEFINE cs == Calls(w)
<1>f0. ({"master_fp", "slave_fp"} \cup Parents(w)) \cup Childs(w) = {"master_fp", "slave_fp", "parent_rfp", "parent_wfp", "child_rfp", "child_wfp"}
  BY DEF Parents, Childs
<1>f1. {"slave_fp"} \cup Childs(w) = {"slave_fp", "child_rfp", "child_wfp"}
  BY DEF Parents, Childs
<1>f2. {"master_fp", "slave_fp"} \cup {"parent_rfp", "child_wfp"} = {"master_fp", "slave_fp", "parent_rfp", "child_wfp"}
  BY DEF Parents, Childs
<1> DEFINE a == [does |-> "opens", fds |-> {"master_fp", "slave_fp"}, cleanup |-> {}]
           b == [does |-> "opens", fds |-> {"parent_rfp", "child_wfp"}, cleanup |-> {"master_fp", "slave_fp"}]
           c == [does |-> "opens", fds |-> {"child_rfp", "parent_wfp"}, cleanup |-> {"master_fp", "slave_fp", "parent_rfp", "child_wfp"}]
           d == [does |-> "starts", fds |-> {}, cleanup |-> {"master_fp", "slave_fp", "parent_rfp", "parent_wfp", "child_rfp", "child_wfp"}]
           e == [does |-> "closes", fds |-> {"slave_fp", "child_rfp", "child_wfp"}, cleanup |-> {}]
<1>g. cs = (<<a>> \o (<<b>> \o <<c>>)) \o <<d>> \o <<e>>
  BY <1>f0, <1>f1, <1>f2 DEF Calls, HybridTtyCreateChild, Openpty, BestPipe, Opens, Starts, Closes
<1> HIDE DEF cs, a, b, c, d, e
<1>v. Len(cs) = 5 /\ cs[1] = a /\ cs[2] = b /\ cs[3] = c /\ cs[4] = d /\ cs[5] = e
  <2>1. LET s == (<<a>> \o (<<b>> \o <<c>>)) \o <<d>> \o <<e>>
        IN Len(s) = 5 /\ s[1] = a /\ s[2] = b /\ s[3] = c /\ s[4] = d /\ s[5] = e
    BY FiveCallsTty
  <2> QED BY <1>g, <2>1
<1>1. /\ Len(cs) = 5
      /\ cs[1] = [does |-> "opens", fds |-> {"master_fp", "slave_fp"}, cleanup |-> {}]
      /\ cs[2] = [does |-> "opens", fds |-> {"parent_rfp", "child_wfp"}, cleanup |-> {"master_fp", "slave_fp"}]
      /\ cs[3] = [does |-> "opens", fds |-> {"child_rfp", "parent_wfp"}, cleanup |-> {"master_fp", "slave_fp", "parent_rfp", "child_wfp"}]
      /\ cs[4] = [does |-> "starts", fds |-> {}, cleanup |-> {"master_fp", "slave_fp", "parent_rfp", "parent_wfp", "child_rfp", "child_wfp"}]
      /\ cs[5] = [does |-> "closes", fds |-> {"slave_fp", "child_rfp", "child_wfp"}, cleanup |-> {}]
  BY <1>v DEF a, b, c, d, e
<1> HIDE DEF cs
<1> DEFINE h == [i \in 0..5 |-> CASE i = 0 -> {} [] i = 1 -> {"master_fp", "slave_fp"} [] i = 2 -> {"master_fp", "slave_fp", "parent_rfp", "child_wfp"} [] i = 3 -> {"master_fp", "slave_fp", "parent_rfp", "child_wfp", "child_rfp", "parent_wfp"} [] i = 4 -> {"master_fp", "slave_fp", "parent_rfp", "child_wfp", "child_rfp", "parent_wfp"} [] i = 5 -> {"master_fp", "parent_rfp", "parent_wfp"}]
<1>2. /\ h[0] = {}
      /\ h[1] = {"master_fp", "slave_fp"}
      /\ h[2] = {"master_fp", "slave_fp", "parent_rfp", "child_wfp"}
      /\ h[3] = {"master_fp", "slave_fp", "parent_rfp", "child_wfp", "child_rfp", "parent_wfp"}
      /\ h[4] = {"master_fp", "slave_fp", "parent_rfp", "child_wfp", "child_rfp", "parent_wfp"}
      /\ h[5] = {"master_fp", "parent_rfp", "parent_wfp"}
  OBVIOUS
<1> HIDE DEF h
<1>3. KeptBy(w) = {"parent_rfp", "parent_wfp", "master_fp"}
  BY DEF KeptBy, Parents
<1>s1. Leads(w, 0, h[0], cs[1], h[1])
  BY <1>1, <1>2 DEF Leads, LeftBy, Parents, Childs
<1>s2. Leads(w, 1, h[1], cs[2], h[2])
  BY <1>1, <1>2 DEF Leads, LeftBy, Parents, Childs
<1>s3. Leads(w, 2, h[2], cs[3], h[3])
  BY <1>1, <1>2 DEF Leads, LeftBy, Parents, Childs
<1>s4. Leads(w, 3, h[3], cs[4], h[4])
  BY <1>1, <1>2 DEF Leads, LeftBy, Parents, Childs
<1>s5. Leads(w, 4, h[4], cs[5], h[5])
  BY <1>1, <1>2 DEF Leads, LeftBy, Parents, Childs
<1>4. \A i \in 1..5 : Leads(w, i - 1, h[i - 1], cs[i], h[i])
  BY <1>s1, <1>s2, <1>s3, <1>s4, <1>s5
<1>5. h[0] = {} /\ h[Len(cs)] = KeptBy(w) /\ Len(cs) = 5
  BY <1>1, <1>2, <1>3
<1> QED BY <1>4, <1>5 DEF Sound, Follows, cs

LEMMA Tty == ASSUME NEW w \in Ways, w.function = "tty", ~w.stderrPipe PROVE Sound(w)
<1> DEFINE cs == Calls(w)
<1>1. /\ Len(cs) = 3
      /\ cs[1] = [does |-> "opens", fds |-> {"master_fp", "slave_fp"}, cleanup |-> {}]
      /\ cs[2] = [does |-> "starts", fds |-> {}, cleanup |-> {"master_fp", "slave_fp"}]
      /\ cs[3] = [does |-> "closes", fds |-> {"slave_fp"}, cleanup |-> {}]
  BY DEF Calls, TtyCreateChild, Openpty, Opens, Starts, Closes
<1> HIDE DEF cs
<1> DEFINE h == [i \in 0..3 |-> CASE i = 0 -> {} [] i = 1 -> {"master_fp", "slave_fp"} [] i = 2 -> {"master_fp", "slave_fp"} [] i = 3 -> {"master_fp"}]
<1>2. /\ h[0] = {}
      /\ h[1] = {"master_fp", "slave_fp"}
      /\ h[2] = {"master_fp", "slave_fp"}
      /\ h[3] = {"master_fp"}
  OBVIOUS
<1> HIDE DEF h
<1>3. KeptBy(w) = {"master_fp"}
  BY DEF KeptBy, Parents
<1>s1. Leads(w, 0, h[0], cs[1], h[1])
  BY <1>1, <1>2 DEF Leads, LeftBy, Parents, Childs
<1>s2. Leads(w, 1, h[1], cs[2], h[2])
  BY <1>1, <1>2 DEF Leads, LeftBy, Parents, Childs
<1>s3. Leads(w, 2, h[2], cs[3], h[3])
  BY <1>1, <1>2 DEF Leads, LeftBy, Parents, Childs
<1>4. \A i \in 1..3 : Leads(w, i - 1, h[i - 1], cs[i], h[i])
  BY <1>s1, <1>s2, <1>s3
<1>5. h[0] = {} /\ h[Len(cs)] = KeptBy(w) /\ Len(cs) = 3
  BY <1>1, <1>2, <1>3
<1> QED BY <1>4, <1>5 DEF Sound, Follows, cs

LEMMA Fork == ASSUME NEW w \in Ways, w.function = "fork", ~w.pipes, ~w.stderrPipe PROVE Sound(w)
<1> DEFINE cs == Calls(w)
<1>1. /\ Len(cs) = 3
      /\ cs[1] = [does |-> "opens", fds |-> {"parentfp", "childfp"}, cleanup |-> {}]
      /\ cs[2] = [does |-> "starts", fds |-> {}, cleanup |-> {}]
      /\ cs[3] = [does |-> "closes", fds |-> {"childfp"}, cleanup |-> {}]
  BY DEF Calls, ForkChild, BestPipe, Opens, Starts, Closes
<1> HIDE DEF cs
<1> DEFINE h == [i \in 0..3 |-> CASE i = 0 -> {} [] i = 1 -> {"parentfp", "childfp"} [] i = 2 -> {"parentfp", "childfp"} [] i = 3 -> {"parentfp"}]
<1>2. /\ h[0] = {}
      /\ h[1] = {"parentfp", "childfp"}
      /\ h[2] = {"parentfp", "childfp"}
      /\ h[3] = {"parentfp"}
  OBVIOUS
<1> HIDE DEF h
<1>3. KeptBy(w) = {"parentfp"}
  BY DEF KeptBy, Parents
<1>s1. Leads(w, 0, h[0], cs[1], h[1])
  BY <1>1, <1>2 DEF Leads, LeftBy, Parents, Childs
<1>s2. Leads(w, 1, h[1], cs[2], h[2])
  BY <1>1, <1>2 DEF Leads, LeftBy, Parents, Childs
<1>s3. Leads(w, 2, h[2], cs[3], h[3])
  BY <1>1, <1>2 DEF Leads, LeftBy, Parents, Childs
<1>4. \A i \in 1..3 : Leads(w, i - 1, h[i - 1], cs[i], h[i])
  BY <1>s1, <1>s2, <1>s3
<1>5. h[0] = {} /\ h[Len(cs)] = KeptBy(w) /\ Len(cs) = 3
  BY <1>1, <1>2, <1>3
<1> QED BY <1>4, <1>5 DEF Sound, Follows, cs

LEMMA WaysSound == ASSUME NEW w \in Ways PROVE Sound(w)
<1>1. /\ w.function \in {"child", "hybrid", "tty", "fork"} /\ w.pipes \in BOOLEAN /\ w.stderrPipe \in BOOLEAN
      /\ w.function \in {"tty", "fork"} => ~w.pipes
      /\ w.function # "child" => ~w.stderrPipe
  BY DEF Ways
<1> QED BY <1>1, ChildSockets, ChildSocketsStderr, ChildPipes, ChildPipesStderr, HybridSockets, HybridPipes, Tty, Fork

\* What a call that raises leaves is what the property says it may.
LEMMA LeftIs ==
  ASSUME NEW w \in Ways, NEW k \in Nat
  PROVE  LeftBy(w, k) = IF Unguarded(w, k) THEN Parents(w) \cup Childs(w) ELSE {}
<1>1. Len(BestPipe(w, {})) = IF w.pipes THEN 2 ELSE 1
  BY DEF BestPipe, Opens
<1> QED BY <1>1 DEF LeftBy, Unguarded

LEMMA SpawnInitially == SpawnInit => SpawnInv
<1> SUFFICES ASSUME SpawnInit PROVE SpawnInv
  OBVIOUS
<1>1. way \in Ways /\ step = 0 /\ opened = {} /\ childState = "trying"
  BY DEF SpawnInit
<1>2. Sound(way)
  BY <1>1, WaysSound
<1>3. PICK h : Follows(way, h)
  BY <1>2 DEF Sound
<1>4. opened = h[step] /\ 0 < Len(Calls(way))
  BY <1>1, <1>2, <1>3 DEF Follows, Sound
<1> QED BY <1>1, <1>3, <1>4 DEF SpawnInv, DescriptorsBalance

LEMMA SpawnStep == SpawnInv /\ [SpawnNext]_spawnVars => SpawnInv'
<1> SUFFICES ASSUME SpawnInv, [SpawnNext]_spawnVars PROVE SpawnInv'
  OBVIOUS
<1>1. CASE UNCHANGED spawnVars
  <2>1. UNCHANGED <<way, step, opened, childState>>
    BY <1>1 DEF spawnVars
  <2> QED BY <2>1 DEF SpawnInv, DescriptorsBalance, Kept, Unguarded
<1>2. CASE Call
  <2> DEFINE n == Len(Calls(way))
             c == Calls(way)[step + 1]
  <2>1. way \in Ways /\ step \in Nat /\ childState = "trying" /\ step < n /\ way' = way /\ n \in Nat
    BY <1>2, WaysSound DEF SpawnInv, Call, Sound
  <2>2. PICK h : Follows(way, h) /\ opened = h[step]
    BY <2>1 DEF SpawnInv
  <2>3. Leads(way, step, opened, c, h[step + 1])
    <3>1. step + 1 \in 1..n /\ (step + 1) - 1 = step
      BY <2>1
    <3> QED BY <2>2, <3>1 DEF Follows
  <2>4. \/ /\ opened' = h[step + 1] /\ step' = step + 1
           /\ childState' = IF step + 1 = n THEN "started" ELSE "trying"
        \/ c.does # "closes" /\ opened' = opened \ c.cleanup /\ childState' = "failed" /\ step' = step
    BY <1>2, <2>3 DEF Call, Leads
  <2>5. h[n] = KeptBy(way)
    BY <2>2 DEF Follows
  <2> HIDE DEF n, c
  <2>6. CASE /\ opened' = h[step + 1] /\ step' = step + 1
             /\ childState' = IF step + 1 = n THEN "started" ELSE "trying"
    <3>1. step' \in Nat /\ way' \in Ways
      BY <2>1, <2>6
    <3>2. childState' = "trying" => step' < n /\ opened' = h[step']
      BY <2>1, <2>6
    <3>3. childState' = "started" => opened' = KeptBy(way)
      BY <2>1, <2>5, <2>6
    <3>4. childState' # "failed"
      BY <2>6
    <3> QED BY <2>1, <2>2, <3>1, <3>2, <3>3, <3>4 DEF SpawnInv, DescriptorsBalance, Kept, KeptBy, n
  <2>7. CASE c.does # "closes" /\ opened' = opened \ c.cleanup /\ childState' = "failed" /\ step' = step
    <3>1. opened' = LeftBy(way, step)
      BY <2>3, <2>7 DEF Leads
    <3>2. opened' = IF Unguarded(way, step) THEN Parents(way) \cup Childs(way) ELSE {}
      BY <2>1, <3>1, LeftIs
    <3>3. Unguarded(way, step)' <=> Unguarded(way, step)
      BY <2>1, <2>7 DEF Unguarded
    <3> QED BY <2>1, <2>7, <3>2, <3>3 DEF SpawnInv, DescriptorsBalance
  <2> QED BY <2>4, <2>6, <2>7
<1> QED BY <1>1, <1>2 DEF SpawnNext

\* create_child() and its kind: a started child leaves the parent's ends and no other descriptor, one
\* that failed leaves none, whichever call raised, save for the two calls outside of every try, which
\* leave the ends of create_best_pipe() and nothing else.
THEOREM DescriptorsKept == SpawnSpec => []DescriptorsBalance
<1>1. SpawnInv => DescriptorsBalance
  BY DEF SpawnInv
<1> QED BY <1>1, SpawnInitially, SpawnStep, PTL DEF SpawnSpec

-----------------------------------------------------------------------------
(* Startup: a child is fed its source through two pipes                         *)

\* The steps of the main thread after the bootstrap.
CoreRuns == {"announce", "uncorks", "dispatches"}
\* The ranges of the fields.
StageTypes ==
  /\ forked \in BOOLEAN /\ messages \in Nat /\ received \in Nat /\ corked \in BOOLEAN
  /\ parent \in {"waits", "fed", "connected"}
  /\ toChild \in Seq({"source", "message"}) /\ fromChild \in Seq({"ec0", "ec1", "ec2"})
  /\ stage \in {"hello", "reads", "script", "core", "exits", "zombie", "gone"} \X Nat
  /\ main \in ({"closes", "script", "core", "reaps"} \cup CoreRuns) \X Nat
  /\ script \in [held : Nat, writers : SUBSET {"stage", "main"}]
  /\ core \in [held : Nat, writers : SUBSET {"stage", "main"}]
\* Which markers may be on their way, for each step of the child.
\* Which of the markers are under way at each step of the first stage and of the parent.
Markers ==
  /\ stage[1] = "hello" => fromChild = <<>> /\ parent = "waits" /\ toChild = <<>>
  /\ stage[1] = "reads" => \/ fromChild = <<"ec0">> /\ parent = "waits" /\ toChild = <<>> /\ stage[2] = SourceSize
                           \/ fromChild = <<>> /\ parent = "fed" /\ Len(toChild) = stage[2]
  /\ stage[1] \in {"script", "core"} => fromChild = <<>> /\ parent = "fed" /\ toChild = <<>>
  /\ stage[1] \in {"exits", "zombie"} => fromChild \in {<<"ec1">>, <<>>} /\ parent = "fed" /\ toChild = <<>>
  /\ stage[1] = "gone" /\ main[1] = "announce" => fromChild \in {<<"ec1">>, <<>>} /\ parent # "connected"
  /\ main[1] \in {"uncorks", "dispatches"} => fromChild \in {<<"ec1", "ec2">>, <<"ec2">>, <<>>}
  /\ main[1] \in {"uncorks", "dispatches"} /\ fromChild # <<>> => parent # "connected"
\* Who holds which pipe, and that a forked child has no first stage.
\* Who holds which end of the pipes; a forked child has no first stage.
Ends ==
  /\ main[1] \in CoreRuns <=> stage[1] = "gone"
  /\ forked => main[1] \in CoreRuns
  /\ ~forked =>
       /\ "stage" \in script.writers <=> stage[1] \in {"hello", "reads", "script"}
       /\ "stage" \in core.writers <=> stage[1] \in {"hello", "reads", "script", "core"}
       /\ "main" \in script.writers <=> main[1] = "closes"
       /\ "main" \in core.writers <=> main[1] = "closes"
       /\ main[1] \notin {"closes", "script"} => stage[1] \notin {"hello", "reads", "script"}
\* Units written to the pipes.
\* What the first stage was sent of its source, and of the core.
ScriptSent == CASE stage[1] \in {"hello", "reads"} -> 0
                [] stage[1] = "script" -> SourceSize - stage[2]
                [] OTHER -> SourceSize
CoreSent == CASE stage[1] \in {"hello", "reads", "script"} -> 0
              [] stage[1] = "core" -> SourceSize - stage[2]
              [] OTHER -> SourceSize
\* What was written into a pipe is what was read from it and what it holds.
Units ==
  /\ stage[1] \in {"script", "core"} => stage[2] <= SourceSize
  /\ ~forked =>
       /\ main[1] = "closes" => main[2] = 0
       /\ main[1] \in {"closes", "script"} => script.held + main[2] = ScriptSent /\ core.held = CoreSent
       /\ main[1] = "core" => script.held = 0 /\ core.held + main[2] = CoreSent
       /\ main[1] \notin {"closes", "script", "core"} => main[2] = SourceSize
StartupInv == StageTypes /\ Markers /\ Ends /\ Units /\ stolen = 0

LEMMA PairFields == ASSUME NEW A, NEW B, NEW p \in A \X B
              PROVE p = <<p[1], p[2]>> /\ p[1] \in A /\ p[2] \in B
  OBVIOUS

LEMMA AppendTyped == ASSUME NEW S, NEW s \in Seq(S), NEW e \in S PROVE Append(s, e) \in Seq(S)
  OBVIOUS
LEMMA AppendPair == ASSUME NEW a, NEW b PROVE Append(<<a>>, b) = <<a, b>>
<1>1. <<a>> \in Seq({a, b}) /\ <<a, b>> \in Seq({a, b})
  OBVIOUS
<1>2. /\ Append(<<a>>, b) \in Seq({a, b}) /\ Len(Append(<<a>>, b)) = 2
      /\ Append(<<a>>, b)[1] = a /\ Append(<<a>>, b)[2] = b
  BY <1>1, AppendProperties
<1>3. \A i \in 1..2 : Append(<<a>>, b)[i] = <<a, b>>[i]
  BY <1>2
<1> QED BY <1>1, <1>2, <1>3, SameSeq

LEMMA StartupInitially == StartupInit => StartupInv
<1> SUFFICES ASSUME StartupInit PROVE StartupInv
  OBVIOUS
<1> USE StartupAssumption DEF StartupInit
<1>1. StageTypes
  BY DEF StageTypes, CoreRuns, Pipe
<1>2. Markers /\ Ends /\ Units /\ stolen = 0
  BY DEF Markers, Ends, Units, CoreRuns, Pipe, ScriptSent, CoreSent
<1> QED BY <1>1, <1>2 DEF StartupInv

\* Every step keeps the ranges.
LEMMA TypesKept == ASSUME StartupInv, [StartupNext]_startupVars PROVE StageTypes'
<1> USE StartupAssumption DEF StageTypes, Doing, stageSame, mainSame, CoreRuns
<1>0. StageTypes
  BY DEF StartupInv
<1> stage = <<stage[1], stage[2]>> /\ main = <<main[1], main[2]>> /\ stage[2] \in Nat /\ main[2] \in Nat
  BY <1>0, PairFields
<1>1. CASE StageHello
  BY <1>0, <1>1 DEF StageHello
<1>2. CASE StageReads
  <2>1. PICK n \in 1..Len(toChild) :
           /\ toChild' = SubSeq(toChild, n + 1, Len(toChild))
           /\ stage' = IF stage[2] - n <= 0 THEN <<"script", SourceSize>> ELSE <<"reads", stage[2] - n>>
    BY <1>2 DEF StageReads
  <2>2. toChild' \in Seq({"source", "message"})
    BY <1>0, <2>1
  <2>3. stage' \in {"script", "reads"} \X Nat
    BY <1>0, <2>1
  <2> QED BY <1>0, <1>2, <2>2, <2>3 DEF StageReads
<1>3. CASE StageWrites
  <2>1. stage' \in {"script", "core", "exits"} \X Nat
    BY <1>0, <1>3 DEF StageWrites
  <2>2. script' \in [held : Nat, writers : SUBSET {"stage", "main"}]
    BY <1>0, <1>3 DEF StageWrites
  <2>3. core' \in [held : Nat, writers : SUBSET {"stage", "main"}]
    BY <1>0, <1>3 DEF StageWrites
  <2>4. fromChild' \in Seq({"ec0", "ec1", "ec2"})
    <3>1. fromChild' = fromChild \/ fromChild' = Append(fromChild, "ec1")
      BY <1>3 DEF StageWrites
    <3>2. fromChild \in Seq({"ec0", "ec1", "ec2"})
      BY <1>0
    <3>3. Append(fromChild, "ec1") \in Seq({"ec0", "ec1", "ec2"})
      BY <3>2, AppendTyped, "ec1" \in {"ec0", "ec1", "ec2"}
    <3> QED BY <3>1, <3>2, <3>3
  <2>5. UNCHANGED <<forked, messages, received, corked, parent, toChild, main>>
    BY <1>3 DEF StageWrites
  <2> QED BY <1>0, <2>1, <2>2, <2>3, <2>4, <2>5
<1>4. CASE StageExits
  BY <1>0, <1>4 DEF StageExits
<1>5. CASE ClosesEnds
  BY <1>0, <1>5 DEF ClosesEnds
<1>6. CASE ReadsScript
  <2>1. main' \in {"script", "core"} \X Nat
    BY <1>0, <1>6 DEF ReadsScript
  <2>2. script' \in [held : Nat, writers : SUBSET {"stage", "main"}]
    <3>1. script' = script \/ (script.held > 0 /\ script' = [script EXCEPT !.held = @ - 1])
      BY <1>6 DEF ReadsScript
    <3>2. script \in [held : Nat, writers : SUBSET {"stage", "main"}]
      BY <1>0
    <3> HIDE <1>0, <1>6
    <3> QED BY <3>1, <3>2
  <2>3. UNCHANGED <<forked, messages, received, corked, parent, toChild, fromChild, stage, core>>
    BY <1>6 DEF ReadsScript
  <2> QED BY <1>0, <2>1, <2>2, <2>3
<1>7. CASE ReadsCore
  <2>1. main' \in {"core", "reaps"} \X Nat
    BY <1>0, <1>7 DEF ReadsCore
  <2>2. core' \in [held : Nat, writers : SUBSET {"stage", "main"}]
    <3>1. core' = core \/ (core.held > 0 /\ core' = [core EXCEPT !.held = @ - 1])
      BY <1>7 DEF ReadsCore
    <3>2. core \in [held : Nat, writers : SUBSET {"stage", "main"}]
      BY <1>0
    <3> HIDE <1>0, <1>7
    <3> QED BY <3>1, <3>2
  <2>3. UNCHANGED <<forked, messages, received, corked, parent, toChild, fromChild, stage, script>>
    BY <1>7 DEF ReadsCore
  <2> QED BY <1>0, <2>1, <2>2, <2>3
<1>8. CASE Reaps
  BY <1>0, <1>8 DEF Reaps
<1>9. CASE Announces
  BY <1>0, <1>9 DEF Announces
<1>10. CASE Uncorks
  BY <1>0, <1>10 DEF Uncorks
<1>11. CASE ReadMarker
  <2>1. fromChild' \in Seq({"ec0", "ec1", "ec2"}) /\ Head(fromChild) \in {"ec0", "ec1", "ec2"}
    BY <1>0, <1>11 DEF ReadMarker
  <2>2. [i \in 1..SourceSize |-> "source"] \in Seq({"source", "message"})
    OBVIOUS
  <2>3. toChild' \in Seq({"source", "message"})
    <3>1. toChild \in Seq({"source", "message"})
      BY <1>0
    <3>2. CASE Head(fromChild) = "ec0"
      <4>1. toChild' = toChild \o [i \in 1..SourceSize |-> "source"]
        BY <1>11, <3>2 DEF ReadMarker
      <4> HIDE <1>0, <1>11 DEF StageTypes
      <4> QED BY <2>2, <3>1, <4>1
    <3>3. CASE Head(fromChild) # "ec0"
      <4>1. toChild' = toChild
        BY <1>11, <2>1, <3>3 DEF ReadMarker
      <4> QED BY <3>1, <4>1
    <3> QED BY <3>2, <3>3
  <2>4. parent' \in {"waits", "fed", "connected"}
    BY <1>0, <1>11, <2>1 DEF ReadMarker
  <2> QED BY <1>0, <1>11, <2>1, <2>3, <2>4 DEF ReadMarker
<1>12. CASE SendMessage
  BY <1>0, <1>12 DEF SendMessage
<1>13. CASE Receives
  BY <1>0, <1>13 DEF Receives
<1>14. CASE UNCHANGED startupVars
  BY <1>0, <1>14 DEF startupVars
<1> QED BY <1>1, <1>2, <1>3, <1>4, <1>5, <1>6, <1>7, <1>8, <1>9, <1>10, <1>11, <1>12, <1>13, <1>14
       DEF StartupNext, StageSteps, MainSteps

\* The markers, when the parent reads one.
\* What the parent reads is the first marker under way.
LEMMA MarkerRead ==
  ASSUME StartupInv, ReadMarker PROVE Markers'
<1> USE StartupAssumption DEF ReadMarker, CoreRuns
<1>0. StageTypes /\ Markers /\ Ends
  BY DEF StartupInv
<1>a. stage \in {"hello", "reads", "script", "core", "exits", "zombie", "gone"} \X Nat
  BY <1>0 DEF StageTypes
<1>b. main \in ({"closes", "script", "core", "reaps"} \cup CoreRuns) \X Nat
  BY <1>0 DEF StageTypes
<1>c. stage[1] \in {"reads", "exits", "zombie", "gone"} /\ stage[2] \in Nat
  BY <1>0, <1>a DEF Markers
<1>1. CASE stage[1] = "reads"
  <2>1. fromChild = <<"ec0">> /\ toChild = <<>> /\ stage[2] = SourceSize /\ main[1] \notin CoreRuns
    BY <1>0, <1>1 DEF Markers, Ends
  <2>2. fromChild' = <<>> /\ parent' = "fed" /\ toChild' = <<>> \o [i \in 1..SourceSize |-> "source"]
    BY <2>1
  <2>3. Len(toChild') = SourceSize
    BY <2>2
  <2> QED BY <1>1, <2>1, <2>2, <2>3 DEF Markers
<1>2. CASE stage[1] \in {"exits", "zombie"}
  <2>1. fromChild = <<"ec1">> /\ toChild = <<>> /\ parent = "fed" /\ main[1] \notin CoreRuns
    BY <1>0, <1>2 DEF Markers, Ends
  <2>2. fromChild' = <<>> /\ parent' = "fed" /\ toChild' = <<>>
    BY <2>1
  <2> QED BY <1>2, <2>1, <2>2 DEF Markers
<1>3. CASE stage[1] = "gone" /\ main[1] = "announce"
  <2>1. fromChild = <<"ec1">> /\ parent # "connected"
    BY <1>0, <1>3 DEF Markers
  <2>2. fromChild' = <<>> /\ parent' = parent
    BY <2>1
  <2> QED BY <1>3, <2>1, <2>2 DEF Markers
<1>4. CASE stage[1] = "gone" /\ main[1] # "announce"
  <2>1. main[1] \in {"uncorks", "dispatches"}
    BY <1>0, <1>4 DEF Ends
  <2>2. fromChild \in {<<"ec1", "ec2">>, <<"ec2">>} /\ parent # "connected"
    BY <1>0, <2>1 DEF Markers
  <2>3. CASE fromChild = <<"ec1", "ec2">>
    <3>1. fromChild' = <<"ec2">> /\ parent' = parent
      BY <2>3
    <3> QED BY <1>4, <2>1, <2>2, <3>1 DEF Markers
  <2>4. CASE fromChild = <<"ec2">>
    <3>1. fromChild' = <<>>
      BY <2>4
    <3> QED BY <1>4, <2>1, <3>1 DEF Markers
  <2> QED BY <2>2, <2>3, <2>4
<1> QED BY <1>c, <1>1, <1>2, <1>3, <1>4

\* Every step keeps the markers in order, and nobody reads what is not his.
LEMMA MarkersKept == ASSUME StartupInv, [StartupNext]_startupVars PROVE Markers' /\ stolen' = 0
<1> USE StartupAssumption DEF Doing, stageSame, mainSame, CoreRuns
<1>0. StageTypes /\ Markers /\ Ends /\ Units /\ stolen = 0
  BY DEF StartupInv
<1>a. stage = <<stage[1], stage[2]>> /\ main = <<main[1], main[2]>> /\ stage[2] \in Nat /\ main[2] \in Nat
  BY <1>0, PairFields DEF StageTypes
<1>1. CASE StageHello
  <2>1. fromChild' = <<"ec0">> /\ parent' = "waits" /\ toChild' = <<>> /\ stage' = <<"reads", SourceSize>>
    BY <1>0, <1>1 DEF StageHello, Markers
  <2>2. main'[1] \notin CoreRuns /\ stolen' = 0
    BY <1>0, <1>1 DEF StageHello, Ends
  <2> QED BY <2>1, <2>2 DEF Markers
<1>2. CASE StageReads
  <2>1. fromChild = <<>> /\ parent = "fed" /\ Len(toChild) = stage[2] /\ main[1] \notin CoreRuns
    BY <1>0, <1>2 DEF StageReads, Markers, Ends
  <2>2. PICK n \in 1..Len(toChild) :
           /\ toChild' = SubSeq(toChild, n + 1, Len(toChild))
           /\ stolen' = IF stage[2] - n < 0 THEN stolen - (stage[2] - n) ELSE stolen
           /\ stage' = IF stage[2] - n <= 0 THEN <<"script", SourceSize>> ELSE <<"reads", stage[2] - n>>
    BY <1>2 DEF StageReads
  <2>3. stage[2] - n >= 0 /\ n \in Nat
    BY <2>1
  <2>4. stolen' = 0 /\ fromChild' = <<>> /\ parent' = "fed" /\ main'[1] \notin CoreRuns
    BY <1>0, <1>2, <2>1, <2>2, <2>3 DEF StageReads
  <2>5. Len(toChild') = stage[2] - n
    BY <1>0, <2>1, <2>2, <2>3 DEF StageTypes
  <2>6. CASE stage[2] - n = 0
    <3>1. toChild' = <<>> /\ stage' = <<"script", SourceSize>>
      BY <1>0, <2>1, <2>2, <2>3, <2>6 DEF StageTypes
    <3> QED BY <2>4, <3>1 DEF Markers
  <2>7. CASE stage[2] - n > 0
    <3>1. stage' = <<"reads", stage[2] - n>>
      BY <2>2, <2>7, <1>a
    <3> QED BY <2>4, <2>5, <3>1 DEF Markers
  <2> QED BY <2>3, <2>6, <2>7, <1>a
<1>3. CASE StageWrites
  <2>1. fromChild = <<>> /\ parent' = "fed" /\ toChild' = <<>> /\ stolen' = 0 /\ main'[1] \notin CoreRuns
    BY <1>0, <1>3 DEF StageWrites, Markers, Ends
  <2>2. \/ stage'[1] \in {"script", "core"} /\ fromChild' = <<>>
        \/ stage'[1] = "exits" /\ fromChild' = <<"ec1">>
    BY <1>3, <2>1 DEF StageWrites
  <2> QED BY <2>1, <2>2 DEF Markers
<1>4. CASE StageExits
  BY <1>0, <1>4 DEF StageExits, Markers, Ends
<1>5. CASE ClosesEnds
  BY <1>0, <1>5 DEF ClosesEnds, Markers, Ends
<1>6. CASE ReadsScript
  BY <1>0, <1>6 DEF ReadsScript, Markers, Ends
<1>7. CASE ReadsCore
  BY <1>0, <1>7 DEF ReadsCore, Markers, Ends
<1>8. CASE Reaps
  BY <1>0, <1>8 DEF Reaps, Markers, Ends
<1>9. CASE Announces
  <2>1. stage[1] = "gone" /\ fromChild \in {<<"ec1">>, <<>>} /\ parent # "connected"
    BY <1>0, <1>9 DEF Announces, Markers, Ends
  <2>2. fromChild' \in {<<"ec1", "ec2">>, <<"ec2">>} /\ parent' # "connected" /\ main'[1] = "uncorks"
    <3>1. fromChild' = Append(fromChild, "ec2") /\ parent' = parent /\ main'[1] = "uncorks"
      BY <1>9 DEF Announces
    <3>2. fromChild = <<>> => fromChild' = <<"ec2">>
      BY <3>1
    <3>3. fromChild = <<"ec1">> => fromChild' = <<"ec1", "ec2">>
      BY <3>1, AppendPair
    <3>4. fromChild = <<>> \/ fromChild = <<"ec1">>
      BY <2>1
    <3>5. fromChild' = <<"ec2">> \/ fromChild' = <<"ec1", "ec2">>
      BY <3>2, <3>3, <3>4
    <3> HIDE <1>0, <1>9
    <3> QED BY <2>1, <3>1, <3>5
  <2>3. stage'[1] = "gone" /\ stolen' = 0
    BY <1>0, <1>9, <2>1 DEF Announces
  <2> QED BY <2>2, <2>3 DEF Markers
<1>10. CASE Uncorks
  <2>1. stage[1] = "gone"
    BY <1>0, <1>10 DEF Uncorks, Ends
  <2> QED BY <1>0, <1>10, <2>1 DEF Uncorks, Markers
<1>11. CASE ReadMarker
  BY <1>0, <1>11, MarkerRead DEF ReadMarker
<1>12. CASE SendMessage
  <2>1. stage[1] = "gone" /\ main[1] \in {"uncorks", "dispatches"}
    BY <1>0, <1>12 DEF SendMessage, StageTypes, Markers, Ends
  <2> QED BY <1>0, <1>12, <2>1 DEF SendMessage, Markers
<1>13. CASE Receives
  <2>1. stage[1] = "gone"
    BY <1>0, <1>13 DEF Receives, Ends
  <2> QED BY <1>0, <1>13, <2>1 DEF Receives, Markers
<1>14. CASE UNCHANGED startupVars
  BY <1>0, <1>14 DEF startupVars, Markers
<1> QED BY <1>1, <1>2, <1>3, <1>4, <1>5, <1>6, <1>7, <1>8, <1>9, <1>10, <1>11, <1>12, <1>13, <1>14
       DEF StartupNext, StageSteps, MainSteps

\* Every step keeps the pipes and what is in them.
LEMMA EndsKept == ASSUME StartupInv, [StartupNext]_startupVars PROVE Ends' /\ Units'
<1> USE StartupAssumption DEF Doing, stageSame, mainSame, CoreRuns
<1>0. StageTypes /\ Markers /\ Ends /\ Units
  BY DEF StartupInv
<1>a. stage = <<stage[1], stage[2]>> /\ main = <<main[1], main[2]>> /\ stage[2] \in Nat /\ main[2] \in Nat
  BY <1>0, PairFields DEF StageTypes
<1>b. script.held \in Nat /\ core.held \in Nat /\ SourceSize \in Nat
  BY <1>0 DEF StageTypes
<1>c. /\ script \in [held : Nat, writers : SUBSET {"stage", "main"}]
      /\ core \in [held : Nat, writers : SUBSET {"stage", "main"}]
  BY <1>0 DEF StageTypes
<1>1. CASE StageHello
  BY <1>0, <1>1 DEF StageHello, Ends, Units, ScriptSent, CoreSent
<1>2. CASE StageReads
  <2>1. stage' \in {<<"script", SourceSize>>} \cup ({"reads"} \X Int)
    BY <1>2, <1>a DEF StageReads
  <2>2. stage'[1] = "reads" \/ (stage'[1] = "script" /\ stage'[2] = SourceSize)
    BY <2>1
  <2>3. UNCHANGED <<forked, main, script, core>> /\ stage[1] = "reads"
    BY <1>2 DEF StageReads
  <2>4. Ends'
    BY <1>0, <2>2, <2>3 DEF Ends
  <2>5. Units'
    BY <1>0, <1>a, <1>b, <2>2, <2>3 DEF Units, ScriptSent, CoreSent
  <2> QED BY <2>4, <2>5
<1>3. CASE StageWrites
  <2>1. CASE stage[1] = "script" /\ stage[2] > 0
    <3>1. script' = [script EXCEPT !.held = @ + 1] /\ stage' = <<"script", stage[2] - 1>> /\ UNCHANGED <<core, forked, main>>
      BY <1>3, <2>1 DEF StageWrites
    <3>2. script'.held = script.held + 1 /\ script'.writers = script.writers
      BY <1>c, <3>1
    <3>3. Ends'
      BY <1>0, <2>1, <3>1, <3>2 DEF Ends
    <3>4. Units'
      <4>1. ScriptSent' = ScriptSent + 1 /\ CoreSent' = CoreSent /\ stage'[2] <= SourceSize /\ stage'[1] = "script"
        BY <1>0, <1>a, <1>b, <2>1, <3>1 DEF Units, ScriptSent, CoreSent
      <4>2. /\ core'.held = core.held /\ forked' = forked /\ main' = main
            /\ ScriptSent \in Int /\ CoreSent \in Int
        BY <1>a, <1>b, <3>1 DEF ScriptSent, CoreSent
      <4> HIDE <1>0
      <4>3. ~forked =>
              /\ main[1] = "closes" => main[2] = 0
              /\ main[1] \in {"closes", "script"} => script.held + main[2] = ScriptSent /\ core.held = CoreSent
              /\ main[1] \notin {"closes", "script", "core"} => main[2] = SourceSize
        BY <1>0 DEF Units
      <4>4. ~forked => "stage" \in script.writers /\ main[1] # "core"
        BY <1>0, <2>1 DEF Ends
      <4> QED BY <1>a, <1>b, <3>2, <4>1, <4>2, <4>3, <4>4 DEF Units
    <3> QED BY <3>3, <3>4
  <2>2. CASE stage[1] = "script" /\ stage[2] = 0
    <3>1. /\ script' = [script EXCEPT !.writers = @ \ {"stage"}] /\ stage' = <<"core", SourceSize>>
          /\ UNCHANGED <<core, forked, main>>
      BY <1>3, <2>2 DEF StageWrites
    <3>2. script'.held = script.held /\ script'.writers = script.writers \ {"stage"}
      BY <1>c, <3>1
    <3>3. Ends'
      BY <1>0, <2>2, <3>1, <3>2 DEF Ends
    <3>4. Units'
      BY <1>0, <1>a, <1>b, <2>2, <3>1, <3>2 DEF Units, ScriptSent, CoreSent
    <3> QED BY <3>3, <3>4
  <2>3. CASE stage[1] = "core" /\ stage[2] > 0
    <3>1. core' = [core EXCEPT !.held = @ + 1] /\ stage' = <<"core", stage[2] - 1>> /\ UNCHANGED <<script, forked, main>>
      BY <1>3, <2>3 DEF StageWrites
    <3>2. core'.held = core.held + 1 /\ core'.writers = core.writers
      BY <1>c, <3>1
    <3>3. Ends'
      BY <1>0, <2>3, <3>1, <3>2 DEF Ends
    <3>4. Units'
      BY <1>0, <1>a, <1>b, <2>3, <3>1, <3>2 DEF Units, ScriptSent, CoreSent
    <3> QED BY <3>3, <3>4
  <2>4. CASE stage[1] = "core" /\ stage[2] = 0
    <3>1. /\ core' = [core EXCEPT !.writers = @ \ {"stage"}] /\ stage' = <<"exits", 0>>
          /\ UNCHANGED <<script, forked, main>>
      BY <1>3, <2>4 DEF StageWrites
    <3>2. core'.held = core.held /\ core'.writers = core.writers \ {"stage"}
      BY <1>c, <3>1
    <3>3. Ends'
      BY <1>0, <2>4, <3>1, <3>2 DEF Ends
    <3>4. Units'
      BY <1>0, <1>a, <1>b, <2>4, <3>1, <3>2 DEF Units, ScriptSent, CoreSent
    <3> QED BY <3>3, <3>4
  <2> QED BY <1>3, <1>a, <2>1, <2>2, <2>3, <2>4 DEF StageWrites
<1>4. CASE StageExits
  BY <1>0, <1>4 DEF StageExits, Ends, Units, ScriptSent, CoreSent
<1>5. CASE ClosesEnds
  <2>1. /\ script'.held = script.held /\ script'.writers = script.writers \ {"main"}
        /\ core'.held = core.held /\ core'.writers = core.writers \ {"main"}
    BY <1>5, <1>c DEF ClosesEnds
  <2>2. UNCHANGED <<forked, stage>> /\ main[1] = "closes" /\ main' = <<"script", 0>>
    BY <1>5 DEF ClosesEnds
  <2>3. Ends'
    BY <1>0, <2>1, <2>2 DEF Ends
  <2>4. Units'
    BY <1>0, <1>a, <1>b, <2>1, <2>2 DEF Units, ScriptSent, CoreSent
  <2> QED BY <2>3, <2>4
<1>6. CASE ReadsScript
  <2>0. UNCHANGED <<forked, stage, core>> /\ main[1] = "script"
    BY <1>6 DEF ReadsScript
  <2>1. CASE script.held > 0 /\ script' = [script EXCEPT !.held = @ - 1] /\ main' = <<"script", main[2] + 1>>
    <3>1. script'.held = script.held - 1 /\ script'.writers = script.writers
      BY <1>c, <2>1
    <3>2. Ends'
      BY <1>0, <2>0, <2>1, <3>1 DEF Ends
    <3>3. Units'
      BY <1>0, <1>a, <1>b, <2>0, <2>1, <3>1 DEF Units, ScriptSent, CoreSent
    <3> QED BY <3>2, <3>3
  <2>2. CASE script.held = 0 /\ script.writers = {} /\ main' = <<"core", 0>> /\ UNCHANGED script
    <3>2. Ends'
      BY <1>0, <2>0, <2>2 DEF Ends
    <3>3. Units'
      BY <1>0, <1>a, <1>b, <2>0, <2>2 DEF Units, ScriptSent, CoreSent
    <3> QED BY <3>2, <3>3
  <2> QED BY <1>6, <2>1, <2>2 DEF ReadsScript
<1>7. CASE ReadsCore
  <2>0. UNCHANGED <<forked, stage, script>> /\ main[1] = "core"
    BY <1>7 DEF ReadsCore
  <2>1. CASE core.held > 0 /\ core' = [core EXCEPT !.held = @ - 1] /\ main' = <<"core", main[2] + 1>>
    <3>1. core'.held = core.held - 1 /\ core'.writers = core.writers
      BY <1>c, <2>1
    <3>2. Ends'
      BY <1>0, <2>0, <2>1, <3>1 DEF Ends
    <3>3. Units'
      BY <1>0, <1>a, <1>b, <2>0, <2>1, <3>1 DEF Units, ScriptSent, CoreSent
    <3> QED BY <3>2, <3>3
  <2>2. CASE core.held = 0 /\ core.writers = {} /\ main' = <<"reaps", main[2]>> /\ UNCHANGED core
    <3>2. Ends'
      BY <1>0, <2>0, <2>2 DEF Ends
    <3>1. stage[1] \notin {"hello", "reads", "script", "core", "gone"}
      BY <1>0, <2>0, <2>2 DEF Ends
    <3>3. Units'
      BY <1>0, <1>a, <1>b, <2>0, <2>2, <3>1 DEF Units, ScriptSent, CoreSent
    <3> QED BY <3>2, <3>3
  <2> QED BY <1>7, <2>1, <2>2 DEF ReadsCore
<1>8. CASE Reaps
  BY <1>0, <1>8 DEF Reaps, Ends, Units, ScriptSent, CoreSent
<1>9. CASE Announces
  BY <1>0, <1>9 DEF Announces, Ends, Units, ScriptSent, CoreSent
<1>10. CASE Uncorks
  BY <1>0, <1>10 DEF Uncorks, Ends, Units, ScriptSent, CoreSent
<1>11. CASE ReadMarker
  BY <1>0, <1>11 DEF ReadMarker, Ends, Units, ScriptSent, CoreSent
<1>12. CASE SendMessage
  BY <1>0, <1>12 DEF SendMessage, Ends, Units, ScriptSent, CoreSent
<1>13. CASE Receives
  BY <1>0, <1>13 DEF Receives, Ends, Units, ScriptSent, CoreSent
<1>14. CASE UNCHANGED startupVars
  BY <1>0, <1>14 DEF startupVars, Ends, Units, ScriptSent, CoreSent
<1> QED BY <1>1, <1>2, <1>3, <1>4, <1>5, <1>6, <1>7, <1>8, <1>9, <1>10, <1>11, <1>12, <1>13, <1>14
       DEF StartupNext, StageSteps, MainSteps

\* What the invariant says of a child that is up.
LEMMA StartupSafely == StartupInv => StartupSafe
<1> SUFFICES ASSUME StartupInv PROVE StartupSafe
  OBVIOUS
<1>0. StageTypes /\ Markers /\ Ends /\ Units
  BY DEF StartupInv
<1>a. stage[2] \in Nat /\ main[2] \in Nat /\ script.held \in Nat /\ core.held \in Nat
  BY <1>0, PairFields DEF StageTypes
<1>b. stage[1] \in {"hello", "reads", "script", "core", "exits", "zombie", "gone"}
  BY <1>0, PairFields DEF StageTypes
<1>1. NothingStolen
  BY DEF StartupInv, NothingStolen
<1>2. CoreSent <= SourceSize
  BY <1>0, <1>a, StartupAssumption DEF CoreSent, Units
<1>c. CoreSent \in Int
  BY <1>0, <1>a, StartupAssumption DEF CoreSent, Units
<1>3. SourceWhole
  <2>1. ~forked /\ main[1] = "core" => script.held = 0 /\ core.held + main[2] = CoreSent
    BY <1>0 DEF Units
  <2>2. main[1] = "core" => script.held = 0 /\ main[2] <= SourceSize
    BY <1>0, <1>a, <1>2, <1>c, <2>1, StartupAssumption DEF Ends, CoreRuns
  <2>3. main[1] \in {"reaps", "announce", "uncorks", "dispatches"} /\ ~forked => main[2] = SourceSize
    BY <1>0 DEF Units
  <2> QED BY <2>2, <2>3 DEF SourceWhole
<1>4. fromChild \in {<<>>, <<"ec0">>, <<"ec1">>, <<"ec2">>, <<"ec1", "ec2">>}
  BY <1>0, <1>b DEF Markers, Ends, CoreRuns
<1>5. \A i, j \in DOMAIN fromChild : i < j => fromChild[i] # "ec2"
  BY <1>4
<1> QED BY <1>0, <1>1, <1>3, <1>5 DEF StartupSafe, MarkersInOrder, Ends, Doing, CoreRuns

\* A child comes up with all of its source, each piece of it read by the stage that it is meant for, the
\* markers in their order and the pipes held by who reads them, for any size of source and pipe.
THEOREM StartupCorrect == StartupSpec => []StartupSafe
<1>1. StartupInv /\ [StartupNext]_startupVars => StartupInv'
  BY TypesKept, MarkersKept, EndsKept DEF StartupInv
<1> QED BY <1>1, StartupInitially, StartupSafely, PTL DEF StartupSpec

-----------------------------------------------------------------------------
(* Logs: the records of a child while the log is uncorked                       *)

\* The records of the threads.
Records == [thread : Loggers, number : Nat, during : BOOLEAN]
\* The ranges of the fields.
LogTypes ==
  /\ emitted \in [Loggers -> Nat] /\ emitting \in [Loggers -> {"idle", "locked", "direct"} \X BOOLEAN]
  /\ held \in Seq(Records) /\ routed \in Seq(Records)
  /\ uncorking \in 0..(Len(held) + 1) /\ direct \in BOOLEAN /\ done \in BOOLEAN
\* What the attribute _send and the lock tell of the buffer.
Modes ==
  /\ direct <=> done \/ uncorking # 0
  /\ done => uncorking = 0 /\ held = <<>>
  /\ \A t \in Loggers :
       /\ emitting[t][1] = "idle" => emitting[t] = Idle
       /\ emitting[t] # Idle => emitted[t] > 0
       /\ emitting[t][1] = "direct" => direct
       /\ emitting[t][1] = "direct" /\ ~done => emitting[t][2]
\* The buffer from the position of uncork() on, and the records of a thread that went somewhere.
\* What uncork() has still to send of the buffer.
Rest == (IF uncorking = 0 THEN 1 ELSE uncorking)..Len(held)
\* The records of which emit() has handed on what it could.
Begun == [t \in Loggers |-> IF emitting[t] = Idle THEN emitted[t] ELSE emitted[t] - 1]
\* The buffer keeps the order of each thread,
HeldInOrder == \A i, j \in Rest : i < j /\ held[i].thread = held[j].thread => held[i].number < held[j].number
\* no record is sent twice,
SentApart == \A i, j \in 1..Len(routed) :
               i # j /\ routed[i].thread = routed[j].thread => routed[i].number # routed[j].number
\* what is held has not been sent,
HeldUnsent == \A i \in Rest : \A j \in 1..Len(routed) :
                held[i].thread = routed[j].thread => held[i].number # routed[j].number
\* the numbers are those of records begun,
Numbered == /\ \A i \in Rest : held[i].number \in 1..Begun[held[i].thread]
            /\ \A j \in 1..Len(routed) : routed[j].number \in 1..Begun[routed[j].thread]
\* every record begun was sent or is held,
NoneLost == \A t \in Loggers : \A n \in 1..Begun[t] :
              \/ \E i \in Rest : held[i].thread = t /\ held[i].number = n
              \/ \E j \in 1..Len(routed) : routed[j].thread = t /\ routed[j].number = n
\* A record that overtook the buffer was logged while it was being sent.
\* only a record emitted during uncork() overtakes one that is held,
Overtakes == \A i \in 1..Len(routed) : \A j \in Rest :
               routed[i].thread = held[j].thread /\ routed[i].number > held[j].number => routed[i].during
\* and others are sent in the order of their thread.
SentInOrder == \A i, j \in 1..Len(routed) :
                 i < j /\ routed[i].thread = routed[j].thread /\ routed[i].number > routed[j].number => routed[i].during
\* What is written to a stream after its end is not read.
LineInv == unread \in Nat /\ (ioClosed => unread = 0 /\ ~writable)
Books == HeldInOrder /\ SentApart /\ HeldUnsent /\ Numbered /\ NoneLost /\ Overtakes /\ SentInOrder
LogsInv == LogTypes /\ Modes /\ Books /\ LineInv

LEMMA AppendIs == ASSUME NEW S, NEW s \in Seq(S), NEW e \in S
  PROVE /\ Append(s, e) \in Seq(S) /\ Len(Append(s, e)) = Len(s) + 1 /\ Append(s, e)[Len(s) + 1] = e
        /\ \A i \in 1..Len(s) : Append(s, e)[i] = s[i]
        /\ Len(s) \in Nat
  BY AppendProperties

LEMMA IdleIs == Idle[1] = "idle" /\ Idle[2] = FALSE /\ Idle \in {"idle", "locked", "direct"} \X BOOLEAN
  BY DEF Idle

LEMMA LogsInitially == LogsInit => LogsInv
<1> SUFFICES ASSUME LogsInit PROVE LogsInv
  OBVIOUS
<1>a. \A t \in Loggers : emitting[t] = Idle
  BY DEF LogsInit
<1>1. LogTypes
  <2>1. emitting \in [Loggers -> {"idle", "locked", "direct"} \X BOOLEAN]
    <3>1. emitting = [t \in Loggers |-> Idle]
      BY DEF LogsInit
    <3> QED BY <3>1, IdleIs
  <2>2. emitted \in [Loggers -> Nat] /\ direct \in BOOLEAN /\ done \in BOOLEAN
    BY DEF LogsInit
  <2>3. held = <<>> /\ routed = <<>> /\ uncorking = 0
    BY DEF LogsInit
  <2>4. held \in Seq(Records) /\ routed \in Seq(Records) /\ uncorking \in 0..(Len(held) + 1)
    BY <2>3
  <2> QED BY <2>1, <2>2, <2>4 DEF LogTypes
<1>m. Modes
  BY <1>a, IdleIs DEF LogsInit, Modes
<1>l. LineInv
  BY DEF LogsInit, LineInv
<1>2. Rest = {} /\ Len(routed) = 0 /\ \A t \in Loggers : Begun[t] = 0
  BY DEF LogsInit, Rest, Begun
<1>3. Books
  BY <1>2 DEF Books, HeldInOrder, SentApart, HeldUnsent, Numbered, NoneLost, Overtakes, SentInOrder
<1> QED BY <1>1, <1>m, <1>l, <1>3 DEF LogsInv

\* What the invariant says of a thread.
\* What is known of a thread in emit().
LEMMA ThreadFacts ==
  ASSUME LogsInv, NEW t \in Loggers
  PROVE  /\ emitting[t] = <<emitting[t][1], emitting[t][2]>>
         /\ emitting[t][1] \in {"idle", "locked", "direct"} /\ emitting[t][2] \in BOOLEAN
         /\ emitted[t] \in Nat /\ Begun[t] \in Nat
         /\ emitting[t][1] \in {"locked", "direct"} => Record(t) \in Records /\ emitted[t] = Begun[t] + 1
<1>1. emitting[t] \in {"idle", "locked", "direct"} \X BOOLEAN /\ emitted[t] \in Nat
  BY DEF LogsInv, LogTypes
<1>2. emitting[t] # Idle => emitted[t] > 0
  BY DEF LogsInv, Modes
<1>3. emitting[t] = <<emitting[t][1], emitting[t][2]>> /\ emitting[t][1] \in {"idle", "locked", "direct"}
  BY <1>1, PairFields
<1>4. emitting[t][2] \in BOOLEAN
  BY <1>1, PairFields
<1>5. emitting[t][1] \in {"locked", "direct"} => emitting[t] # Idle
  BY IdleIs
<1> QED BY <1>1, <1>2, <1>3, <1>4, <1>5 DEF Begun, Record, Records

\* emit() looks at _send, and goes on with the lock or without.
LEMMA BooksKeptEmit ==
  ASSUME LogsInv, NEW t \in Loggers, Emit(t)
  PROVE  LogsInv'
<1>0. LogTypes /\ Modes /\ Books /\ LineInv
  BY DEF LogsInv
<1>1. emitting[t] = Idle /\ UNCHANGED <<direct, held, done, uncorking, routed, unread, writable, ioClosed>>
  BY DEF Emit, ioSame
<1>2. /\ emitted' = [emitted EXCEPT ![t] = emitted[t] + 1]
      /\ emitting' = [emitting EXCEPT ![t] = <<IF direct THEN "direct" ELSE "locked", uncorking # 0>>]
  BY DEF Emit
<1>t. <<IF direct THEN "direct" ELSE "locked", uncorking # 0>> \in {"locked", "direct"} \X BOOLEAN
  OBVIOUS
<1>3. LogTypes'
  <2> DEFINE e == <<IF direct THEN "direct" ELSE "locked", uncorking # 0>>
  <2>1. e \in {"idle", "locked", "direct"} \X BOOLEAN
    BY <1>t
  <2>2. emitting' = [emitting EXCEPT ![t] = e]
    BY <1>2
  <2> HIDE DEF e
  <2>3. emitting' \in [Loggers -> {"idle", "locked", "direct"} \X BOOLEAN]
    BY <1>0, <2>1, <2>2 DEF LogTypes
  <2>4. emitted' \in [Loggers -> Nat]
    BY <1>0, <1>2 DEF LogTypes
  <2> QED BY <1>0, <1>1, <2>3, <2>4 DEF LogTypes
<1>c. emitting'[t] = <<IF direct THEN "direct" ELSE "locked", uncorking # 0>>
  BY <1>0, <1>2 DEF LogTypes
<1>d. /\ emitting'[t][1] = (IF direct THEN "direct" ELSE "locked")
      /\ emitting'[t][2] = (uncorking # 0)
  BY <1>c
<1>4. emitting'[t] # Idle
  BY <1>d, IdleIs
<1>5. \A u \in Loggers : u # t => emitting'[u] = emitting[u] /\ emitted'[u] = emitted[u]
  BY <1>0, <1>2 DEF LogTypes
<1>6. emitted'[t] = emitted[t] + 1 /\ emitted[t] \in Nat
  BY <1>0, <1>2 DEF LogTypes
<1>7. Modes'
  <2>1. (direct <=> done \/ uncorking # 0) /\ (done => uncorking = 0 /\ held = <<>>)
    BY <1>0 DEF Modes
  <2>2. \A u \in Loggers :
       /\ emitting'[u][1] = "idle" => emitting'[u] = Idle
       /\ emitting'[u] # Idle => emitted'[u] > 0
       /\ emitting'[u][1] = "direct" => direct
       /\ emitting'[u][1] = "direct" /\ ~done => emitting'[u][2]
    <3> SUFFICES ASSUME NEW u \in Loggers
                 PROVE  /\ emitting'[u][1] = "idle" => emitting'[u] = Idle
                        /\ emitting'[u] # Idle => emitted'[u] > 0
                        /\ emitting'[u][1] = "direct" => direct
                        /\ emitting'[u][1] = "direct" /\ ~done => emitting'[u][2]
      OBVIOUS
    <3>1. CASE u = t
      <4>1. emitting'[t][1] \in {"direct", "locked"} /\ emitting'[t][1] # "idle" /\ emitted'[t] > 0
        BY <1>d, <1>6
      <4>2. emitting'[t][1] = "direct" => direct
        BY <1>d
      <4>3. emitting'[t][1] = "direct" /\ ~done => emitting'[t][2]
        BY <1>d, <2>1
      <4> QED BY <4>1, <4>2, <4>3, <3>1
    <3>2. CASE u # t
      BY <1>0, <1>5, <3>2 DEF Modes
    <3> QED BY <3>1, <3>2
  <2> QED BY <1>1, <2>1, <2>2 DEF Modes
<1>8. \A u \in Loggers : Begun'[u] = Begun[u]
  BY <1>1, <1>4, <1>5, <1>6 DEF Begun
<1>9. Books'
  <2>1. Rest' = Rest
    BY <1>1 DEF Rest
  <2>2. HeldInOrder' /\ SentApart' /\ HeldUnsent' /\ Overtakes' /\ SentInOrder'
    BY <1>0, <1>1, <2>1 DEF Books, HeldInOrder, SentApart, HeldUnsent, Overtakes, SentInOrder
  <2>3. Numbered'
    <3>1. \A i \in Rest : held[i] \in Records
      BY <1>0 DEF LogTypes, Rest
    <3>2. \A i \in 1..Len(routed) : routed[i] \in Records
      BY <1>0 DEF LogTypes
    <3> QED BY <1>0, <1>1, <1>8, <2>1, <3>1, <3>2 DEF Books, Numbered, Records
  <2>4. NoneLost'
    BY <1>0, <1>1, <1>8, <2>1 DEF Books, NoneLost
  <2> QED BY <2>2, <2>3, <2>4 DEF Books
<1>10. LineInv'
  BY <1>0, <1>1 DEF LineInv
<1> QED BY <1>3, <1>7, <1>9, <1>10 DEF LogsInv

\* A thread that has handed its record over.
\* A record that is on its way is new to what was sent.
LEMMA HandedOver ==
  ASSUME LogsInv, NEW t \in Loggers, emitting[t][1] \in {"locked", "direct"},
         emitting' = [emitting EXCEPT ![t] = Idle], UNCHANGED <<emitted, direct, done, uncorking, unread, writable, ioClosed>>,
         held' = held \/ ~done
  PROVE  /\ Modes' /\ LineInv' /\ emitting' \in [Loggers -> {"idle", "locked", "direct"} \X BOOLEAN]
         /\ Begun'[t] = Begun[t] + 1 /\ Begun[t] \in Nat /\ emitted[t] = Begun[t] + 1
         /\ \A u \in Loggers : u # t => Begun'[u] = Begun[u]
<1>0. LogTypes /\ Modes /\ Books /\ LineInv
  BY DEF LogsInv
<1>1. emitting' \in [Loggers -> {"idle", "locked", "direct"} \X BOOLEAN]
  BY <1>0 DEF LogTypes, Idle
<1>2. emitting'[t] = Idle
  BY <1>0 DEF LogTypes
<1>3. \A u \in Loggers : u # t => emitting'[u] = emitting[u]
  BY <1>0 DEF LogTypes
<1>4. emitting[t] # Idle
  BY IdleIs
<1>5. emitted[t] \in Nat /\ emitted[t] > 0
  BY <1>0, <1>4 DEF LogTypes, Modes
<1>6. Begun'[t] = Begun[t] + 1 /\ Begun[t] \in Nat /\ emitted[t] = Begun[t] + 1
  BY <1>2, <1>4, <1>5 DEF Begun
<1>7. \A u \in Loggers : u # t => Begun'[u] = Begun[u]
  BY <1>3 DEF Begun
<1>8. LineInv'
  BY <1>0 DEF LineInv
<1>9. Modes'
  <2>1. (direct <=> done \/ uncorking # 0)' /\ (done => uncorking = 0 /\ held = <<>>)'
    BY <1>0 DEF Modes
  <2>2. \A u \in Loggers :
       /\ emitting'[u][1] = "idle" => emitting'[u] = Idle
       /\ emitting'[u] # Idle => emitted[u] > 0
       /\ emitting'[u][1] = "direct" => direct
       /\ emitting'[u][1] = "direct" /\ ~done => emitting'[u][2]
    <3>1. Idle[1] = "idle"
      BY DEF Idle
    <3> QED BY <1>0, <1>2, <1>3, <3>1 DEF Modes
  <2> QED BY <2>1, <2>2 DEF Modes
<1> QED BY <1>1, <1>6, <1>7, <1>8, <1>9

\* A record that goes to the parent: it is the last of its thread, and if the buffer is not
\* empty it was logged during uncork().
\* A record is sent at once.
LEMMA BooksKeptSend ==
  ASSUME LogsInv, NEW t \in Loggers, emitting[t][1] \in {"locked", "direct"}, done \/ emitting[t][2],
         emitting' = [emitting EXCEPT ![t] = Idle], routed' = Append(routed, Record(t)),
         UNCHANGED <<emitted, direct, done, held, uncorking, unread, writable, ioClosed>>
  PROVE  LogsInv'
<1> DEFINE r == Record(t)
<1>0. LogTypes /\ Modes /\ Books /\ LineInv
  BY DEF LogsInv
<1>1. r \in Records /\ r.thread = t /\ r.number = emitted[t] /\ r.during = emitting[t][2]
  BY ThreadFacts DEF Record
<1>2. /\ Modes' /\ LineInv' /\ emitting' \in [Loggers -> {"idle", "locked", "direct"} \X BOOLEAN]
      /\ Begun'[t] = Begun[t] + 1 /\ Begun[t] \in Nat /\ emitted[t] = Begun[t] + 1
      /\ \A u \in Loggers : u # t => Begun'[u] = Begun[u]
  BY HandedOver
<1>r. routed' = Append(routed, r)
  OBVIOUS
<1> HIDE DEF r
<1>3. /\ routed' \in Seq(Records) /\ Len(routed') = Len(routed) + 1 /\ routed'[Len(routed) + 1] = r
      /\ \A i \in 1..Len(routed) : routed'[i] = routed[i]
      /\ Len(routed) \in Nat
  BY <1>0, <1>1, <1>r, AppendIs DEF LogTypes
<1>4. LogTypes'
  BY <1>0, <1>2, <1>3 DEF LogTypes
<1>5. Rest' = Rest
  BY DEF Rest
<1>6. \A i \in 1..Len(routed') : (i \in 1..Len(routed) /\ routed'[i] = routed[i]) \/ (i = Len(routed) + 1 /\ routed'[i] = r)
  BY <1>3
<1>7. /\ \A i \in Rest : held[i] \in Records
      /\ \A i \in 1..Len(routed) : routed[i] \in Records
  BY <1>0 DEF LogTypes, Rest
<1>8. /\ \A i \in Rest : held[i].number \in 1..Begun[held[i].thread]
      /\ \A j \in 1..Len(routed) : routed[j].number \in 1..Begun[routed[j].thread]
  BY <1>0 DEF Books, Numbered
<1>9. /\ \A i \in Rest : held[i].thread = t => held[i].number < r.number
      /\ \A j \in 1..Len(routed) : routed[j].thread = t => routed[j].number < r.number
  BY <1>1, <1>2, <1>7, <1>8 DEF Records
<1>10. HeldInOrder'
  BY <1>0, <1>5 DEF Books, HeldInOrder
<1>11. SentApart'
  <2> SUFFICES ASSUME NEW i \in 1..Len(routed'), NEW j \in 1..Len(routed'), i # j, routed'[i].thread = routed'[j].thread
               PROVE  routed'[i].number # routed'[j].number
    BY DEF SentApart
  <2>1. CASE i \in 1..Len(routed) /\ j \in 1..Len(routed)
    BY <1>0, <1>3, <2>1 DEF Books, SentApart
  <2>2. CASE i = Len(routed) + 1 /\ j \in 1..Len(routed)
    BY <1>1, <1>2, <1>3, <1>7, <1>9, <2>2 DEF Records
  <2>3. CASE j = Len(routed) + 1 /\ i \in 1..Len(routed)
    BY <1>1, <1>2, <1>3, <1>7, <1>9, <2>3 DEF Records
  <2> QED BY <1>6, <2>1, <2>2, <2>3
<1>12. HeldUnsent'
  <2> SUFFICES ASSUME NEW i \in Rest, NEW j \in 1..Len(routed'), held[i].thread = routed'[j].thread
               PROVE  held[i].number # routed'[j].number
    BY <1>5 DEF HeldUnsent
  <2>1. CASE j \in 1..Len(routed)
    BY <1>0, <1>3, <2>1 DEF Books, HeldUnsent
  <2>2. CASE j = Len(routed) + 1
    BY <1>1, <1>2, <1>3, <1>7, <1>9, <2>2 DEF Records
  <2> QED BY <1>6, <2>1, <2>2
<1>13. Numbered'
  <2>0. \A u \in Loggers : Begun'[u] = Begun[u] \/ Begun'[u] = Begun[u] + 1
    BY <1>2
  <2>1. \A u \in Loggers : Begun[u] \in Nat
    BY ThreadFacts
  <2>2. \A i \in Rest : held[i].number \in 1..Begun'[held[i].thread]
    BY <1>7, <1>8, <2>0, <2>1 DEF Records
  <2>3. \A j \in 1..Len(routed) : routed[j].number \in 1..Begun'[routed[j].thread]
    BY <1>7, <1>8, <2>0, <2>1 DEF Records
  <2>4. r.number \in 1..Begun'[t]
    BY <1>1, <1>2
  <2>5. \A i \in Rest' : held'[i].number \in 1..Begun'[held'[i].thread]
    BY <1>5, <2>2
  <2>6. \A j \in 1..Len(routed') : routed'[j].number \in 1..Begun'[routed'[j].thread]
    BY <1>1, <1>6, <2>3, <2>4
  <2> QED BY <2>5, <2>6 DEF Numbered
<1>14. NoneLost'
  <2> SUFFICES ASSUME NEW u \in Loggers, NEW n \in 1..Begun'[u]
               PROVE  \/ \E i \in Rest : held[i].thread = u /\ held[i].number = n
                      \/ \E j \in 1..Len(routed') : routed'[j].thread = u /\ routed'[j].number = n
    BY <1>5 DEF NoneLost
  <2>1. CASE n \in 1..Begun[u]
    <3>1. CASE \E i \in Rest : held[i].thread = u /\ held[i].number = n
      BY <3>1
    <3>2. CASE \E j \in 1..Len(routed) : routed[j].thread = u /\ routed[j].number = n
      <4>1. PICK j \in 1..Len(routed) : routed[j].thread = u /\ routed[j].number = n
        BY <3>2
      <4>2. j \in 1..Len(routed') /\ routed'[j] = routed[j]
        BY <1>3, <4>1
      <4> QED BY <4>1, <4>2
    <3> QED BY <1>0, <2>1, <3>1, <3>2 DEF Books, NoneLost
  <2>2. CASE n \notin 1..Begun[u]
    <3>1. u = t /\ n = r.number
      BY <1>1, <1>2, <2>2
    <3>2. Len(routed) + 1 \in 1..Len(routed')
      BY <1>3
    <3> QED BY <1>1, <1>3, <3>1, <3>2
  <2> QED BY <2>1, <2>2
<1>d. r.during \/ Rest = {}
  BY <1>0, <1>1 DEF Modes, Rest
<1>15. Overtakes'
  <2> SUFFICES ASSUME NEW i \in 1..Len(routed'), NEW j \in Rest,
                      routed'[i].thread = held[j].thread, routed'[i].number > held[j].number
               PROVE  routed'[i].during
    BY <1>5 DEF Overtakes
  <2>1. CASE i \in 1..Len(routed)
    BY <1>0, <1>3, <2>1 DEF Books, Overtakes
  <2>2. CASE i = Len(routed) + 1
    BY <1>3, <1>d, <2>2
  <2> QED BY <1>6, <2>1, <2>2
<1>16. SentInOrder'
  <2> SUFFICES ASSUME NEW i \in 1..Len(routed'), NEW j \in 1..Len(routed'), i < j,
                      routed'[i].thread = routed'[j].thread, routed'[i].number > routed'[j].number
               PROVE  routed'[i].during
    BY DEF SentInOrder
  <2>1. i \in 1..Len(routed) /\ routed'[i] = routed[i]
    BY <1>3
  <2>2. CASE j \in 1..Len(routed)
    BY <1>0, <1>3, <2>1, <2>2 DEF Books, SentInOrder
  <2>3. CASE j = Len(routed) + 1
    <3>1. routed[i].thread = t /\ routed[i].number > r.number
      BY <1>1, <1>3, <2>1, <2>3
    <3> QED BY <1>1, <1>2, <1>7, <1>9, <2>1, <3>1 DEF Records
  <2> QED BY <1>6, <2>2, <2>3
<1>17. Books'
  BY <1>10, <1>11, <1>12, <1>13, <1>14, <1>15, <1>16 DEF Books
<1> QED BY <1>2, <1>4, <1>17 DEF LogsInv

\* A record that goes to the buffer, at its end.
\* A record joins the buffer.
LEMMA BooksKeptHold ==
  ASSUME LogsInv, NEW t \in Loggers, emitting[t][1] \in {"locked", "direct"}, ~done, uncorking = 0,
         emitting' = [emitting EXCEPT ![t] = Idle], held' = Append(held, Record(t)),
         UNCHANGED <<emitted, direct, done, routed, uncorking, unread, writable, ioClosed>>
  PROVE  LogsInv'
<1> DEFINE r == Record(t)
<1>0. LogTypes /\ Modes /\ Books /\ LineInv
  BY DEF LogsInv
<1>1. r \in Records /\ r.thread = t /\ r.number = emitted[t] /\ r.during = emitting[t][2]
  BY ThreadFacts DEF Record
<1>2. /\ Modes' /\ LineInv' /\ emitting' \in [Loggers -> {"idle", "locked", "direct"} \X BOOLEAN]
      /\ Begun'[t] = Begun[t] + 1 /\ Begun[t] \in Nat /\ emitted[t] = Begun[t] + 1
      /\ \A u \in Loggers : u # t => Begun'[u] = Begun[u]
  BY HandedOver
<1>r. held' = Append(held, r)
  OBVIOUS
<1> HIDE DEF r
<1>3. /\ held' \in Seq(Records) /\ Len(held') = Len(held) + 1 /\ held'[Len(held) + 1] = r
      /\ \A i \in 1..Len(held) : held'[i] = held[i]
      /\ Len(held) \in Nat
  BY <1>0, <1>1, <1>r, AppendIs DEF LogTypes
<1>4. LogTypes'
  BY <1>0, <1>2, <1>3 DEF LogTypes
<1>5. Rest' = 1..(Len(held) + 1) /\ Rest = 1..Len(held)
  BY <1>3 DEF Rest
<1>u. routed' = routed /\ Len(routed') = Len(routed)
  OBVIOUS
<1>6. \A i \in Rest' : (i \in Rest /\ held'[i] = held[i]) \/ (i = Len(held) + 1 /\ held'[i] = r)
  BY <1>3, <1>5
<1>7. /\ \A i \in Rest : held[i] \in Records
      /\ \A i \in 1..Len(routed) : routed[i] \in Records
  BY <1>0 DEF LogTypes, Rest
<1>8. /\ \A i \in Rest : held[i].number \in 1..Begun[held[i].thread]
      /\ \A j \in 1..Len(routed) : routed[j].number \in 1..Begun[routed[j].thread]
  BY <1>0 DEF Books, Numbered
<1>9. /\ \A i \in Rest : held[i].thread = t => held[i].number < r.number
      /\ \A j \in 1..Len(routed) : routed[j].thread = t => routed[j].number < r.number
  BY <1>1, <1>2, <1>7, <1>8 DEF Records
<1>10. HeldInOrder'
  <2> SUFFICES ASSUME NEW i \in Rest', NEW j \in Rest', i < j, held'[i].thread = held'[j].thread
               PROVE  held'[i].number < held'[j].number
    BY DEF HeldInOrder
  <2>1. i \in Rest /\ held'[i] = held[i]
    BY <1>3, <1>5
  <2>2. CASE j \in Rest
    BY <1>0, <1>3, <1>5, <2>1, <2>2 DEF Books, HeldInOrder
  <2>3. CASE j = Len(held) + 1
    BY <1>1, <1>3, <1>9, <2>1, <2>3
  <2> QED BY <1>6, <2>2, <2>3
<1>11. SentApart' /\ SentInOrder'
  BY <1>0 DEF Books, SentApart, SentInOrder
<1>12. HeldUnsent'
  <2> SUFFICES ASSUME NEW i \in Rest', NEW j \in 1..Len(routed), held'[i].thread = routed[j].thread
               PROVE  held'[i].number # routed[j].number
    BY DEF HeldUnsent
  <2>1. CASE i \in Rest
    BY <1>0, <1>3, <1>5, <2>1 DEF Books, HeldUnsent
  <2>2. CASE i = Len(held) + 1
    BY <1>1, <1>2, <1>3, <1>7, <1>9, <2>2 DEF Records
  <2> QED BY <1>6, <2>1, <2>2
<1>13. Numbered'
  <2>0. \A u \in Loggers : Begun'[u] = Begun[u] \/ Begun'[u] = Begun[u] + 1
    BY <1>2
  <2>1. \A u \in Loggers : Begun[u] \in Nat
    BY ThreadFacts
  <2>2. \A i \in Rest : held[i].number \in 1..Begun'[held[i].thread]
    BY <1>7, <1>8, <2>0, <2>1 DEF Records
  <2>3. \A j \in 1..Len(routed) : routed[j].number \in 1..Begun'[routed[j].thread]
    BY <1>7, <1>8, <2>0, <2>1 DEF Records
  <2>4. r.number \in 1..Begun'[t]
    BY <1>1, <1>2
  <2>5. \A i \in Rest' : held'[i].number \in 1..Begun'[held'[i].thread]
    BY <1>1, <1>6, <2>2, <2>4
  <2>6. \A j \in 1..Len(routed') : routed'[j].number \in 1..Begun'[routed'[j].thread]
    BY <2>3
  <2> QED BY <2>5, <2>6 DEF Numbered
<1>14. NoneLost'
  <2> SUFFICES ASSUME NEW u \in Loggers, NEW n \in 1..Begun'[u]
               PROVE  \/ \E i \in Rest' : held'[i].thread = u /\ held'[i].number = n
                      \/ \E j \in 1..Len(routed') : routed'[j].thread = u /\ routed'[j].number = n
    BY DEF NoneLost
  <2>1. CASE n \in 1..Begun[u]
    <3>1. CASE \E i \in Rest : held[i].thread = u /\ held[i].number = n
      <4>1. PICK i \in Rest : held[i].thread = u /\ held[i].number = n
        BY <3>1
      <4>2. i \in Rest' /\ held'[i] = held[i]
        BY <1>3, <1>5, <4>1
      <4> QED BY <4>1, <4>2
    <3>2. CASE \E j \in 1..Len(routed) : routed[j].thread = u /\ routed[j].number = n
      BY <3>2, <1>u
    <3> QED BY <1>0, <2>1, <3>1, <3>2 DEF Books, NoneLost
  <2>2. CASE n \notin 1..Begun[u]
    <3>1. u = t /\ n = r.number
      BY <1>1, <1>2, <2>2
    <3>2. Len(held) + 1 \in Rest'
      BY <1>3, <1>5
    <3> QED BY <1>1, <1>3, <3>1, <3>2
  <2> QED BY <2>1, <2>2
<1>15. Overtakes'
  <2> SUFFICES ASSUME NEW i \in 1..Len(routed), NEW j \in Rest',
                      routed[i].thread = held'[j].thread, routed[i].number > held'[j].number
               PROVE  routed[i].during
    BY DEF Overtakes
  <2>1. CASE j \in Rest
    BY <1>0, <1>3, <1>5, <2>1 DEF Books, Overtakes
  <2>2. CASE j = Len(held) + 1
    <3>1. routed[i].thread = t /\ routed[i].number > r.number
      BY <1>1, <1>3, <2>2
    <3> QED BY <1>1, <1>2, <1>7, <1>9, <3>1 DEF Records
  <2> QED BY <1>6, <2>1, <2>2
<1>17. Books'
  BY <1>10, <1>11, <1>12, <1>13, <1>14, <1>15 DEF Books
<1> QED BY <1>2, <1>4, <1>17 DEF LogsInv

\* uncork() moves the next record of the buffer.
\* uncork() sends the next record of the buffer.
LEMMA BooksKeptUncork ==
  ASSUME LogsInv, UncorkSend
  PROVE  LogsInv'
<1> DEFINE r == held[uncorking]
<1>0. LogTypes /\ Modes /\ Books /\ LineInv
  BY DEF LogsInv
<1>1. /\ uncorking # 0 /\ uncorking <= Len(held) /\ uncorking' = uncorking + 1
      /\ UNCHANGED <<emitted, emitting, direct, held, done, unread, writable, ioClosed>>
  BY DEF UncorkSend, ioSame
<1>2. uncorking \in Nat /\ Len(held) \in Nat /\ uncorking \in 1..Len(held)
  BY <1>0, <1>1 DEF LogTypes
<1>r. routed' = Append(routed, r) /\ r \in Records /\ r = held[uncorking]
  BY <1>0, <1>2 DEF UncorkSend, LogTypes
<1> HIDE DEF r
<1>3. /\ routed' \in Seq(Records) /\ Len(routed') = Len(routed) + 1 /\ routed'[Len(routed) + 1] = r
      /\ \A i \in 1..Len(routed) : routed'[i] = routed[i]
      /\ Len(routed) \in Nat
  BY <1>0, <1>r, AppendIs DEF LogTypes
<1>4. LogTypes'
  BY <1>0, <1>1, <1>2, <1>3 DEF LogTypes
<1>m. Modes' /\ LineInv'
  BY <1>0, <1>1, <1>2 DEF Modes, LineInv
<1>5. Rest = uncorking..Len(held) /\ Rest' = (uncorking + 1)..Len(held)
  BY <1>1, <1>2 DEF Rest
<1>6. \A i \in 1..Len(routed') : (i \in 1..Len(routed) /\ routed'[i] = routed[i]) \/ (i = Len(routed) + 1 /\ routed'[i] = r)
  BY <1>3
<1>7. \A i \in 1..Len(routed) : routed[i] \in Records
  BY <1>0 DEF LogTypes
<1>8. \A i \in Rest' : i \in Rest /\ i > uncorking /\ held'[i] = held[i] /\ held[i] \in Records
  BY <1>0, <1>1, <1>2, <1>5 DEF LogTypes
<1>9. uncorking \in Rest
  BY <1>2, <1>5
<1>b. \A u \in Loggers : Begun'[u] = Begun[u]
  BY <1>1 DEF Begun
<1>a. \A j \in 1..Len(routed) : r.thread = routed[j].thread => r.number # routed[j].number
  BY <1>0, <1>9, <1>r DEF Books, HeldUnsent
<1>10. HeldInOrder'
  BY <1>0, <1>8 DEF Books, HeldInOrder
<1>11. SentApart'
  <2> SUFFICES ASSUME NEW i \in 1..Len(routed'), NEW j \in 1..Len(routed'), i # j, routed'[i].thread = routed'[j].thread
               PROVE  routed'[i].number # routed'[j].number
    BY DEF SentApart
  <2>1. CASE i \in 1..Len(routed) /\ j \in 1..Len(routed)
    BY <1>0, <1>3, <2>1 DEF Books, SentApart
  <2>2. CASE i = Len(routed) + 1 /\ j \in 1..Len(routed)
    BY <1>3, <1>a, <2>2
  <2>3. CASE j = Len(routed) + 1 /\ i \in 1..Len(routed)
    BY <1>3, <1>a, <2>3
  <2> QED BY <1>6, <2>1, <2>2, <2>3
<1>12. HeldUnsent'
  <2> SUFFICES ASSUME NEW i \in Rest', NEW j \in 1..Len(routed'), held[i].thread = routed'[j].thread
               PROVE  held[i].number # routed'[j].number
    BY <1>8 DEF HeldUnsent
  <2>1. CASE j \in 1..Len(routed)
    BY <1>0, <1>3, <1>8, <2>1 DEF Books, HeldUnsent
  <2>2. CASE j = Len(routed) + 1
    <3>1. held[uncorking].thread = held[i].thread /\ uncorking < i
      BY <1>3, <1>8, <1>r, <1>2, <1>5, <2>2
    <3>2. held[uncorking].number < held[i].number
      BY <1>0, <1>8, <1>9, <3>1 DEF Books, HeldInOrder
    <3> QED BY <1>3, <1>8, <1>r, <2>2, <3>2 DEF Records
  <2> QED BY <1>6, <2>1, <2>2
<1>13. Numbered'
  <2>1. r.number \in 1..Begun[r.thread] /\ r.thread \in Loggers
    BY <1>0, <1>9, <1>r DEF Books, Numbered, Records
  <2>2. \A i \in Rest' : held'[i].number \in 1..Begun'[held'[i].thread]
    BY <1>0, <1>8, <1>b DEF Books, Numbered, Records
  <2>3. \A j \in 1..Len(routed) : routed[j].number \in 1..Begun'[routed[j].thread]
    BY <1>0, <1>7, <1>b DEF Books, Numbered, Records
  <2>4. \A j \in 1..Len(routed') : routed'[j].number \in 1..Begun'[routed'[j].thread]
    BY <1>6, <1>b, <2>1, <2>3
  <2> QED BY <2>2, <2>4 DEF Numbered
<1>14. NoneLost'
  <2> SUFFICES ASSUME NEW u \in Loggers, NEW n \in 1..Begun[u]
               PROVE  \/ \E i \in Rest' : held[i].thread = u /\ held[i].number = n
                      \/ \E j \in 1..Len(routed') : routed'[j].thread = u /\ routed'[j].number = n
    BY <1>1, <1>b DEF NoneLost
  <2>1. CASE \E i \in Rest : held[i].thread = u /\ held[i].number = n
    <3>1. PICK i \in Rest : held[i].thread = u /\ held[i].number = n
      BY <2>1
    <3>2. CASE i = uncorking
      <4>1. Len(routed) + 1 \in 1..Len(routed')
        BY <1>3
      <4> QED BY <1>3, <1>r, <3>1, <3>2, <4>1
    <3>3. CASE i # uncorking
      <4>1. i \in Rest'
        BY <1>2, <1>5, <3>1, <3>3
      <4> QED BY <3>1, <4>1
    <3> QED BY <3>2, <3>3
  <2>2. CASE \E j \in 1..Len(routed) : routed[j].thread = u /\ routed[j].number = n
    <3>1. PICK j \in 1..Len(routed) : routed[j].thread = u /\ routed[j].number = n
      BY <2>2
    <3>2. j \in 1..Len(routed') /\ routed'[j] = routed[j]
      BY <1>3, <3>1
    <3> QED BY <3>1, <3>2
  <2> QED BY <1>0, <2>1, <2>2 DEF Books, NoneLost
<1>15. Overtakes'
  <2> SUFFICES ASSUME NEW i \in 1..Len(routed'), NEW j \in Rest',
                      routed'[i].thread = held[j].thread, routed'[i].number > held[j].number
               PROVE  routed'[i].during
    BY <1>8 DEF Overtakes
  <2>1. CASE i \in 1..Len(routed)
    BY <1>0, <1>3, <1>8, <2>1 DEF Books, Overtakes
  <2>2. CASE i = Len(routed) + 1
    <3>1. held[uncorking].thread = held[j].thread /\ uncorking < j
      BY <1>3, <1>8, <1>r, <1>2, <1>5, <2>2
    <3>2. held[uncorking].number < held[j].number
      BY <1>0, <1>8, <1>9, <3>1 DEF Books, HeldInOrder
    <3> QED BY <1>3, <1>8, <1>r, <2>2, <3>2 DEF Records
  <2> QED BY <1>6, <2>1, <2>2
<1>16. SentInOrder'
  <2> SUFFICES ASSUME NEW i \in 1..Len(routed'), NEW j \in 1..Len(routed'), i < j,
                      routed'[i].thread = routed'[j].thread, routed'[i].number > routed'[j].number
               PROVE  routed'[i].during
    BY DEF SentInOrder
  <2>1. i \in 1..Len(routed) /\ routed'[i] = routed[i]
    BY <1>3
  <2>2. CASE j \in 1..Len(routed)
    BY <1>0, <1>3, <2>1, <2>2 DEF Books, SentInOrder
  <2>3. CASE j = Len(routed) + 1
    <3>1. routed[i].thread = held[uncorking].thread /\ routed[i].number > held[uncorking].number
      BY <1>3, <1>r, <2>1, <2>3
    <3> QED BY <1>0, <1>9, <2>1, <3>1 DEF Books, Overtakes
  <2> QED BY <1>6, <2>2, <2>3
<1>17. Books'
  BY <1>10, <1>11, <1>12, <1>13, <1>14, <1>15, <1>16 DEF Books
<1> QED BY <1>m, <1>4, <1>17 DEF LogsInv

\* Nothing of the books changes.
LEMMA BooksKeptSame ==
  ASSUME LogsInv, UNCHANGED <<emitted, emitting, routed>>, Rest' = Rest, \A i \in Rest : held'[i] = held[i]
  PROVE  Books'
<1>0. Books
  BY DEF LogsInv
<1>1. \A u \in Loggers : Begun'[u] = Begun[u]
  BY DEF Begun
<1>2. HeldInOrder' /\ SentApart' /\ HeldUnsent'
  BY <1>0 DEF Books, HeldInOrder, SentApart, HeldUnsent
<1>3. Overtakes' /\ SentInOrder'
  BY <1>0 DEF Books, Overtakes, SentInOrder
<1>4. NoneLost'
  BY <1>0, <1>1 DEF Books, NoneLost
<1>5. Numbered'
  <2>0. LogTypes
    BY DEF LogsInv
  <2>1. \A i \in Rest : held[i] \in Records
    BY <2>0 DEF LogTypes, Rest
  <2>2. \A i \in 1..Len(routed) : routed[i] \in Records
    BY <2>0 DEF LogTypes
  <2> QED BY <1>0, <1>1, <2>1, <2>2 DEF Books, Numbered, Records
<1> QED BY <1>2, <1>3, <1>4, <1>5 DEF Books

\* Every step of a thread, of uncork() and of a stream keeps the books.
LEMMA LogsStep == LogsInv /\ [LogsNext]_logVars => LogsInv'
<1> SUFFICES ASSUME LogsInv, [LogsNext]_logVars PROVE LogsInv'
  OBVIOUS
<1>0. LogTypes /\ Modes /\ Books /\ LineInv
  BY DEF LogsInv
<1>1. ASSUME NEW t \in Loggers, Emit(t) PROVE LogsInv'
  BY <1>1, BooksKeptEmit
<1>2. ASSUME NEW t \in Loggers, SendLocked(t) PROVE LogsInv'
  <2>1. CASE done
    BY <1>2, <2>1, BooksKeptSend DEF SendLocked, ioSame
  <2>2. CASE ~done
    BY <1>2, <2>2, BooksKeptHold DEF SendLocked, ioSame
  <2> QED BY <2>1, <2>2
<1>3. ASSUME NEW t \in Loggers, SendDirect(t) PROVE LogsInv'
  <2>1. done \/ emitting[t][2]
    BY <1>0, <1>3 DEF Modes, SendDirect
  <2> QED BY <1>3, <2>1, BooksKeptSend DEF SendDirect, ioSame
<1>4. CASE Uncork
  <2>1. /\ ~done /\ uncorking = 0 /\ uncorking' = 1 /\ direct' = TRUE
        /\ UNCHANGED <<emitted, emitting, held, done, routed, unread, writable, ioClosed>>
    BY <1>4 DEF Uncork, ioSame
  <2>2. LogTypes' /\ LineInv'
    BY <1>0, <2>1 DEF LogTypes, LineInv
  <2>3. Modes'
    BY <1>0, <2>1 DEF Modes
  <2>4. Rest' = Rest
    BY <2>1 DEF Rest
  <2> QED BY <2>1, <2>2, <2>3, <2>4, BooksKeptSame DEF LogsInv
<1>5. CASE UncorkSend
  BY <1>5, BooksKeptUncork
<1>6. CASE UncorkDone
  <2>1. /\ uncorking # 0 /\ uncorking > Len(held) /\ done' = TRUE /\ held' = <<>> /\ uncorking' = 0
        /\ UNCHANGED <<emitted, emitting, direct, routed, unread, writable, ioClosed>>
    BY <1>6 DEF UncorkDone, ioSame
  <2>2. LogTypes' /\ LineInv'
    BY <1>0, <2>1 DEF LogTypes, LineInv
  <2>3. Modes'
    BY <1>0, <2>1 DEF Modes
  <2>4. Rest = {} /\ Rest' = {}
    BY <1>0, <2>1 DEF Rest, LogTypes
  <2> QED BY <2>1, <2>2, <2>3, <2>4, BooksKeptSame DEF LogsInv
<1>7. ASSUME recordsSame, LineInv' PROVE LogsInv'
  <2>1. UNCHANGED <<emitted, emitting, direct, held, done, uncorking, routed>>
    BY <1>7 DEF recordsSame
  <2>2. LogTypes'
    BY <1>0, <2>1 DEF LogTypes
  <2>3. Modes'
    BY <1>0, <2>1 DEF Modes
  <2>4. Rest' = Rest
    BY <2>1 DEF Rest
  <2> QED BY <1>7, <2>1, <2>2, <2>3, <2>4, BooksKeptSame DEF LogsInv
<1>8. CASE WriteLine
  <2>1. LineInv'
    BY <1>0, <1>8 DEF WriteLine, LineInv
  <2> QED BY <1>7, <1>8, <2>1 DEF WriteLine
<1>9. CASE ReadLines
  <2>1. LineInv'
    BY <1>0, <1>9 DEF ReadLines, LineInv
  <2> QED BY <1>7, <1>9, <2>1 DEF ReadLines
<1>10. CASE IoShutdown
  <2>1. LineInv'
    BY <1>0, <1>10 DEF IoShutdown, LineInv
  <2> QED BY <1>7, <1>10, <2>1 DEF IoShutdown
<1>11. CASE UNCHANGED logVars
  <2>1. LineInv' /\ recordsSame
    BY <1>0, <1>11 DEF LineInv, logVars, recordsSame
  <2> QED BY <1>7, <2>1
<1> QED BY <1>1, <1>2, <1>3, <1>4, <1>5, <1>6, <1>8, <1>9, <1>10, <1>11 DEF LogsNext, Uncorking

\* As many records as numbers.
LEMMA CountByNumber ==
  ASSUME NEW S, IsFiniteSet(S), NEW b \in Nat, NEW g \in [S -> 1..b],
         \A i, j \in S : g[i] = g[j] => i = j, \A n \in 1..b : \E i \in S : g[i] = n
  PROVE  Cardinality(S) = b
<1>1. g \in Bijection(S, 1..b)
  BY DEF Bijection, Injection, Surjection, IsInjective
<1>2. Cardinality(1..b) = b
  BY FS_Interval
<1>3. Cardinality(1..b) = Cardinality(S)
  BY <1>1, FS_Bijection DEF ExistsBijection
<1> QED BY <1>2, <1>3

\* What is left of a sequence from one of its elements on.
LEMMA Remainder ==
  ASSUME NEW S, NEW s \in Seq(S), NEW m \in 1..(Len(s) + 1)
  PROVE  /\ SubSeq(s, m, Len(s)) \in Seq(S)
         /\ Len(SubSeq(s, m, Len(s))) = IF m <= Len(s) THEN Len(s) - m + 1 ELSE 0
         /\ \A i \in 1..(Len(s) - m + 1) : SubSeq(s, m, Len(s))[i] = s[m + i - 1]
<1>1. m \in Int /\ Len(s) \in Int /\ \A i \in m..Len(s) : s[i] \in S
  OBVIOUS
<1> QED BY <1>1, SubSeqProperties

\* The records sent and held are those that were begun, counted by thread and number.
LEMMA RecordsBalance == LogsInv => RecordsConserved
<1> SUFFICES ASSUME LogsInv PROVE RecordsConserved
  OBVIOUS
<1>0. LogTypes /\ Modes /\ Books
  BY DEF LogsInv
<1> DEFINE from == IF uncorking = 0 THEN 1 ELSE uncorking
           sub == SubSeq(held, from, Len(held))
           all == sub \o routed
           L == Len(sub)
           R == Len(routed)
<1>1. from \in 1..(Len(held) + 1) /\ Len(held) \in Nat /\ Rest = from..Len(held)
  BY <1>0 DEF LogTypes, Rest
<1>2. /\ sub \in Seq(Records) /\ L = Len(held) + 1 - from
      /\ \A i \in 1..L : sub[i] = held[from + i - 1] /\ from + i - 1 \in Rest
  <2> HIDE DEF from
  <2>1. held \in Seq(Records) /\ from \in 1..(Len(held) + 1) /\ Len(held) \in 0..Len(held)
    BY <1>0, <1>1 DEF LogTypes
  <2>2. /\ sub \in Seq(Records)
        /\ L = IF from <= Len(held) THEN Len(held) - from + 1 ELSE 0
        /\ \A i \in 1..(Len(held) - from + 1) : sub[i] = held[from + i - 1]
    BY <2>1, Remainder
  <2> HIDE DEF sub
  <2>3. L = Len(held) + 1 - from
    BY <1>1, <2>2
  <2>4. \A i \in 1..L : sub[i] = held[from + i - 1] /\ from + i - 1 \in Rest
    <3> SUFFICES ASSUME NEW i \in 1..L PROVE sub[i] = held[from + i - 1] /\ from + i - 1 \in Rest
      OBVIOUS
    <3> HIDE DEF L
    <3>1. i \in 1..(Len(held) - from + 1) /\ from + i - 1 \in from..Len(held)
      BY <1>1, <2>3
    <3> QED BY <1>1, <2>2, <3>1
  <2> QED BY <2>2, <2>3, <2>4
<1>3. /\ all \in Seq(Records) /\ Len(all) = L + R /\ L \in Nat /\ R \in Nat
      /\ \A i \in 1..L : all[i] = sub[i]
      /\ \A i \in 1..R : all[L + i] = routed[i]
  <2>1. routed \in Seq(Records)
    BY <1>0 DEF LogTypes
  <2> HIDE DEF sub
  <2>2. sub \in Seq(Records)
    BY <1>2
  <2> QED BY <2>1, <2>2, ConcatProperties
<1> HIDE DEF all, sub, from
<1>4. \A i \in 1..(L + R) :
        \/ i \in 1..L /\ all[i] = held[from + i - 1] /\ from + i - 1 \in Rest
        \/ i \in (L + 1)..(L + R) /\ all[i] = routed[i - L] /\ i - L \in 1..R
  <2> SUFFICES ASSUME NEW i \in 1..(L + R), i \notin 1..L
               PROVE i \in (L + 1)..(L + R) /\ all[i] = routed[i - L] /\ i - L \in 1..R
    BY <1>2, <1>3
  <2>1. i - L \in 1..R /\ L + (i - L) = i /\ i \in (L + 1)..(L + R)
    BY <1>3
  <2> QED BY <1>3, <2>1
<1>5. DOMAIN all = 1..(L + R)
  BY <1>3
<1>6. ASSUME NEW i \in 1..(L + R), NEW j \in 1..(L + R), all[i].thread = all[j].thread, all[i].number = all[j].number
      PROVE  i = j
  <2>1. CASE i \in 1..L /\ j \in 1..L
    <3>1. /\ from + i - 1 \in Rest /\ from + j - 1 \in Rest
          /\ all[i] = held[from + i - 1] /\ all[j] = held[from + j - 1]
      BY <1>2, <1>3, <2>1
    <3>2. held[from + i - 1] \in Records /\ held[from + j - 1] \in Records
      BY <1>0, <1>1, <3>1 DEF LogTypes
    <3>3. ~(from + i - 1 < from + j - 1) /\ ~(from + j - 1 < from + i - 1)
      BY <1>0, <1>6, <3>1, <3>2 DEF Books, HeldInOrder, Records
    <3> QED BY <1>1, <3>3
  <2>2. CASE i \in (L + 1)..(L + R) /\ j \in (L + 1)..(L + R)
    <3>1. all[i] = routed[i - L] /\ i - L \in 1..R /\ all[j] = routed[j - L] /\ j - L \in 1..R
      BY <1>3, <1>4, <2>2
    <3>2. i - L = j - L
      BY <1>0, <1>6, <3>1 DEF Books, SentApart
    <3> QED BY <1>3, <3>2
  <2>3. CASE i \in 1..L /\ j \in (L + 1)..(L + R)
    <3>1. from + i - 1 \in Rest /\ all[i] = held[from + i - 1] /\ all[j] = routed[j - L] /\ j - L \in 1..R
      BY <1>3, <1>4, <2>3
    <3> QED BY <1>0, <1>6, <3>1 DEF Books, HeldUnsent
  <2>4. CASE j \in 1..L /\ i \in (L + 1)..(L + R)
    <3>1. from + j - 1 \in Rest /\ all[j] = held[from + j - 1] /\ all[i] = routed[i - L] /\ i - L \in 1..R
      BY <1>3, <1>4, <2>4
    <3> QED BY <1>0, <1>6, <3>1 DEF Books, HeldUnsent
  <2> QED BY <1>4, <2>1, <2>2, <2>3, <2>4
<1>7. ASSUME NEW t \in Loggers
      PROVE  Cardinality({i \in 1..(L + R) : all[i].thread = t}) = Begun[t]
  <2>1. Begun[t] \in Nat /\ L + R \in Nat
    BY <1>3, ThreadFacts
  <2>2. \A i \in 1..(L + R) : all[i].thread = t => all[i].number \in 1..Begun[t]
    BY <1>0, <1>4 DEF Books, Numbered
  <2>3. \A i, j \in 1..(L + R) : all[i].thread = t /\ all[j].thread = t /\ all[i].number = all[j].number => i = j
    BY <1>6
  <2>4. ASSUME NEW n \in 1..Begun[t] PROVE \E i \in 1..(L + R) : all[i].thread = t /\ all[i].number = n
    <3>1. CASE \E i \in Rest : held[i].thread = t /\ held[i].number = n
      <4>1. PICK i \in Rest : held[i].thread = t /\ held[i].number = n
        BY <3>1
      <4>2. i - from + 1 \in 1..L /\ from + (i - from + 1) - 1 = i /\ i - from + 1 \in 1..(L + R)
        BY <1>1, <1>2, <1>3
      <4>3. all[i - from + 1] = held[i]
        BY <1>2, <1>3, <4>2
      <4> QED BY <4>1, <4>2, <4>3
    <3>2. CASE \E j \in 1..R : routed[j].thread = t /\ routed[j].number = n
      <4>1. PICK j \in 1..R : routed[j].thread = t /\ routed[j].number = n
        BY <3>2
      <4>2. all[L + j] = routed[j] /\ L + j \in 1..(L + R)
        BY <1>3
      <4> QED BY <4>1, <4>2
    <3> QED BY <1>0, <3>1, <3>2 DEF Books, NoneLost
  <2>5. \A n \in 1..Begun[t] : \E i \in 1..(L + R) : all[i].thread = t /\ all[i].number = n
    BY <2>4
  <2> HIDE <1>0
  <2> DEFINE N == L + R
             b == Begun[t]
             S == {i \in 1..N : all[i].thread = t}
             g == [i \in S |-> all[i].number]
  <2>6. IsFiniteSet(S) /\ b \in Nat
    <3>1. b \in Nat /\ N \in Nat /\ S \subseteq 1..N
      BY <2>1
    <3> HIDE DEF S, N, b
    <3>2. IsFiniteSet(1..N)
      BY <3>1, FS_Interval
    <3> QED BY <3>1, <3>2, FS_Subset
  <2>a. g \in [S -> 1..b]
    BY <2>2
  <2>b. \A i, j \in S : g[i] = g[j] => i = j
    BY <2>3
  <2>c. \A n \in 1..b : \E i \in S : g[i] = n
    BY <2>5
  <2> HIDE DEF S, g, N, b
  <2>7. Cardinality(S) = b
    BY <2>6, <2>a, <2>b, <2>c, CountByNumber
  <2> QED BY <2>7 DEF N, b, S
<1>8. \A t \in Loggers : Begun[t] = emitted[t] - (IF emitting[t] = Idle THEN 0 ELSE 1)
  BY <1>0 DEF Begun, LogTypes
<1> QED BY <1>5, <1>6, <1>7, <1>8 DEF RecordsConserved, all, sub, from

\* Log forwarding (LogHandler, IoLoggerProtocol): every record is in the buffer or sent, once, in the
\* order of its thread unless it was logged during uncork(); what was printed is read.
\* No record of the log is lost or sent twice, a record overtakes an earlier one of its thread only while
\* the log is uncorked, and what a child printed is read to its end: for any threads and records.
THEOREM LogsCorrect == LogsSpec => []LogsSafe
<1>1. LogsInv => LogsSafe
  <2> SUFFICES ASSUME LogsInv PROVE LogsSafe
    OBVIOUS
  <2>1. DOMAIN routed = 1..Len(routed)
    BY DEF LogsInv, LogTypes
  <2>2. OrderUnlessUncorking
    BY <2>1 DEF LogsInv, Books, SentInOrder, OrderUnlessUncorking
  <2> QED BY <2>2, RecordsBalance DEF LogsInv, LineInv, LinesDrained, LogsSafe
<1> QED BY <1>1, LogsInitially, LogsStep, PTL DEF LogsSpec

-----------------------------------------------------------------------------
(* Polling: events of descriptors that are reused                               *)

Functions == {"receive", "disconnect"} \X Streams
Inputs == [Streams -> [bytes : {0, 1}, eof : BOOLEAN]]
\* The ranges of the fields.
PollTypes ==
  /\ life \in [Streams -> {"new", "open", "closed"}] /\ fdOf \in [Streams -> Fds \union {0}]
  /\ rfds \in [Fds -> Streams \union {None}] /\ fresh \subseteq Fds /\ events \subseteq Fds \union {Waker, Accepting}
  /\ running \in {"no", "yes", "crashed"}
  /\ checked \subseteq Functions /\ deferred \in Seq(Functions)
  /\ input \in Inputs
\* Open streams have descriptors of their own; a stream that was looked at has one.
Owned ==
  /\ \A s, t \in Streams : s # t /\ Open(s) /\ Open(t) => fdOf[s] # fdOf[t]
  /\ \A s \in Streams : life[s] # "new" => fdOf[s] \in Fds
  /\ \A f \in checked : life[f[2]] # "new"
  /\ \A i \in 1..Len(deferred) : life[deferred[i][2]] # "new"
\* Only a stream that is closed was removed while the broker was about to look at it.
RacedClosed == raced \subseteq {s \in Streams : life[s] = "closed"}
\* An event that has not been overtaken by a registration names a stream with something to read.
\* An event that the broker still has to look at is of a stream with something to read.
EventsReadable ==
  \A fd \in Fds : fd \in events /\ fd \notin fresh /\ rfds[fd] # None /\ Open(rfds[fd]) => Readable(rfds[fd])
PollInv == PollTypes /\ Owned /\ RacedClosed /\ EventsReadable /\ NeverMisled /\ RegisteredOpen /\ CrashOnlyRaced

\* The lowest number of a set is one of it.
LEMMA MinIn == ASSUME NEW S, S \subseteq Nat, S # {} PROVE Min(S) \in S
<1>1. \E x \in S : \A y \in S : ~(<<y, x>> \in OpToRel(<, Nat))
  BY NatLessThanWellFounded, WFMin
<1>2. PICK x \in S : \A y \in S : ~(<<y, x>> \in OpToRel(<, Nat))
  BY <1>1
<1>3. ASSUME NEW y \in S PROVE x =< y
  <2>1. x \in Nat /\ y \in Nat
    OBVIOUS
  <2>2. ~(y < x)
    BY <1>2, <2>1 DEF OpToRel
  <2> HIDE <1>2
  <2> QED BY <2>1, <2>2
<1> QED BY <1>3 DEF Min

\* The descriptor of a new stream is free.
LEMMA LowestFree ==
  ASSUME Fds \ Used # {}
  PROVE  Lowest \in Fds /\ Lowest \notin Used
<1>1. Fds \ Used \subseteq Nat
  BY PollingAssumption
<1> HIDE DEF Used
<1>2. Min(Fds \ Used) \in Fds \ Used
  BY <1>1, MinIn
<1> QED BY <1>2 DEF Lowest

LEMMA OpenUsed == ASSUME NEW s \in Streams, Open(s) PROVE fdOf[s] \in Used
  BY DEF Used

LEMMA PollInitially == PollingInit => PollInv
<1> SUFFICES ASSUME PollingInit PROVE PollInv
  OBVIOUS
<1>1. PollTypes
  BY DEF PollingInit, PollTypes, Functions, Inputs
<1>2. Owned /\ RacedClosed
  BY DEF PollingInit, Owned, RacedClosed, Open
<1>3. EventsReadable /\ NeverMisled /\ RegisteredOpen /\ CrashOnlyRaced
  BY DEF PollingInit, EventsReadable, NeverMisled, RegisteredOpen, CrashOnlyRaced
<1> QED BY <1>1, <1>2, <1>3 DEF PollInv

\* A registered stream is not new, and the open one of a descriptor is its owner.
\* A registered descriptor is that of an open stream.
LEMMA RegisteredFacts ==
  ASSUME PollInv, NEW fd \in Fds, rfds[fd] # None
  PROVE  /\ rfds[fd] \in Streams /\ life[rfds[fd]] # "new"
         /\ Open(rfds[fd]) => fdOf[rfds[fd]] = fd
<1>1. rfds[fd] \in Streams
  BY DEF PollInv, PollTypes
<1>2. (Open(rfds[fd]) /\ fdOf[rfds[fd]] = fd) \/ rfds[fd] \in raced
  BY DEF PollInv, RegisteredOpen
<1>3. rfds[fd] \in raced => life[rfds[fd]] = "closed"
  BY DEF PollInv, RacedClosed
<1> QED BY <1>1, <1>2, <1>3 DEF Open

\* A stream is opened with the lowest free descriptor.
\* A stream opens on the lowest free descriptor and registers.
LEMMA OpenedKeeps ==
  ASSUME PollInv, NEW s \in Streams, life[s] = "new", Fds \ Used # {}, Opened(s),
         UNCHANGED <<deferred, raced, input, misled>>, running' = running, checked' \in {checked, checked \union {<<"receive", s>>}}
  PROVE  /\ life' \in [Streams -> {"new", "open", "closed"}] /\ fdOf' \in [Streams -> Fds \union {0}]
         /\ checked' \subseteq Functions /\ deferred' \in Seq(Functions)
         /\ life'[s] = "open" /\ fdOf'[s] = Lowest /\ Lowest \in Fds
         /\ \A t \in Streams : t # s => life'[t] = life[t] /\ fdOf'[t] = fdOf[t]
         /\ Owned' /\ RacedClosed' /\ CrashOnlyRaced' /\ NeverMisled'
<1>0. PollTypes /\ Owned /\ RacedClosed
  BY DEF PollInv
<1>1. Lowest \in Fds /\ Lowest \notin Used
  BY LowestFree
<1>2. /\ life' = [life EXCEPT ![s] = "open"]
      /\ fdOf' = [fdOf EXCEPT ![s] = Lowest]
  BY DEF Opened
<1> HIDE DEF Lowest
<1>3. /\ life' \in [Streams -> {"new", "open", "closed"}] /\ fdOf' \in [Streams -> Fds \union {0}]
      /\ life'[s] = "open" /\ fdOf'[s] = Lowest
      /\ \A t \in Streams : t # s => life'[t] = life[t] /\ fdOf'[t] = fdOf[t]
  BY <1>0, <1>1, <1>2 DEF PollTypes
<1>4. checked' \subseteq Functions /\ deferred' \in Seq(Functions)
  BY <1>0 DEF PollTypes, Functions
<1>5. \A t, u \in Streams : t # u /\ Open(t)' /\ Open(u)' => fdOf'[t] # fdOf'[u]
  <2> SUFFICES ASSUME NEW t \in Streams, NEW u \in Streams, t # u, life'[t] = "open", life'[u] = "open"
               PROVE  fdOf'[t] # fdOf'[u]
    BY DEF Open
  <2>1. CASE t # s /\ u # s
    BY <1>0, <1>3, <2>1 DEF Owned, Open
  <2>2. CASE t = s
    BY <1>1, <1>3, <2>2, OpenUsed DEF Open
  <2>3. CASE u = s
    BY <1>1, <1>3, <2>3, OpenUsed DEF Open
  <2> QED BY <2>1, <2>2, <2>3
<1>6. \A t \in Streams : life'[t] # "new" => fdOf'[t] \in Fds
  BY <1>0, <1>1, <1>3 DEF Owned
<1>7. \A f \in checked' : life'[f[2]] # "new"
  <2>1. \A f \in checked : f[2] \in Streams
    BY <1>0 DEF PollTypes, Functions
  <2>2. \A f \in checked : life'[f[2]] # "new"
    BY <1>0, <1>3, <2>1 DEF Owned
  <2>3. <<"receive", s>>[2] = s
    OBVIOUS
  <2> QED BY <1>3, <2>2, <2>3
<1>8. \A i \in 1..Len(deferred) : life'[deferred[i][2]] # "new"
  <2>1. \A i \in 1..Len(deferred) : deferred[i][2] \in Streams
    BY <1>0 DEF PollTypes, Functions
  <2> QED BY <1>0, <1>3, <2>1 DEF Owned
<1>9. Owned'
  BY <1>5, <1>6, <1>7, <1>8 DEF Owned
<1>10. RacedClosed'
  BY <1>0, <1>3 DEF RacedClosed
<1>11. CrashOnlyRaced' /\ NeverMisled'
  BY DEF PollInv, CrashOnlyRaced, NeverMisled
<1> QED BY <1>1, <1>3, <1>4, <1>9, <1>10, <1>11

\* A thread opens one,
LEMMA ThreadOpensKeeps == ASSUME PollInv, NEW s \in Streams, ThreadOpens(s) PROVE PollInv'
<1>0. PollTypes /\ EventsReadable /\ RegisteredOpen
  BY DEF PollInv
<1>1. /\ life[s] = "new" /\ Fds \ Used # {} /\ Opened(s)
      /\ UNCHANGED <<deferred, raced, input, misled, events, running, rfds, fresh>>
      /\ checked' = checked \union {<<"receive", s>>}
  BY DEF ThreadOpens, brokerVars, histories
<1>2. /\ life' \in [Streams -> {"new", "open", "closed"}] /\ fdOf' \in [Streams -> Fds \union {0}]
      /\ checked' \subseteq Functions /\ deferred' \in Seq(Functions)
      /\ life'[s] = "open"
      /\ \A t \in Streams : t # s => life'[t] = life[t] /\ fdOf'[t] = fdOf[t]
      /\ Owned' /\ RacedClosed' /\ CrashOnlyRaced' /\ NeverMisled'
  BY <1>1, OpenedKeeps
<1>3. PollTypes'
  BY <1>0, <1>1, <1>2 DEF PollTypes
<1>4. \A fd \in Fds : rfds[fd] # None => rfds[fd] \in Streams /\ rfds[fd] # s
  BY <1>1, RegisteredFacts
<1>5. RegisteredOpen'
  BY <1>0, <1>1, <1>2, <1>4 DEF RegisteredOpen, Open
<1>6. EventsReadable'
  BY <1>0, <1>1, <1>2, <1>4 DEF EventsReadable, Open, Readable
<1> QED BY <1>2, <1>3, <1>5, <1>6 DEF PollInv

\* or the listener accepts one.
LEMMA OnAcceptKeeps == ASSUME PollInv, OnAccept PROVE PollInv'
<1>0. PollTypes /\ EventsReadable /\ RegisteredOpen /\ Owned /\ RacedClosed /\ NeverMisled /\ CrashOnlyRaced
  BY DEF PollInv
<1>1. events' \subseteq events /\ UNCHANGED <<input, running, deferred, checked, raced, misled>>
  BY DEF OnAccept, Take, histories
<1>2. ASSUME NEW s \in Streams, life[s] = "new", Fds \ Used # {}, Opened(s),
             rfds' = [rfds EXCEPT ![Lowest] = s], fresh' = fresh \union {Lowest}
      PROVE  PollInv'
  <2>1. /\ life' \in [Streams -> {"new", "open", "closed"}] /\ fdOf' \in [Streams -> Fds \union {0}]
        /\ checked' \subseteq Functions /\ deferred' \in Seq(Functions)
        /\ life'[s] = "open" /\ fdOf'[s] = Lowest /\ Lowest \in Fds
        /\ \A t \in Streams : t # s => life'[t] = life[t] /\ fdOf'[t] = fdOf[t]
        /\ Owned' /\ RacedClosed' /\ CrashOnlyRaced' /\ NeverMisled'
    <3>1. /\ life[s] = "new" /\ Fds \ Used # {} /\ Opened(s)
          /\ UNCHANGED <<deferred, raced, input, misled>> /\ running' = running
          /\ checked' \in {checked, checked \union {<<"receive", s>>}}
      BY <1>1, <1>2
    <3> QED BY <3>1, OpenedKeeps
  <2> HIDE DEF Lowest
  <2>2. rfds' \in [Fds -> Streams \union {None}] /\ fresh' \subseteq Fds
    BY <1>0, <1>2, <2>1 DEF PollTypes
  <2>3. PollTypes'
    BY <1>0, <1>1, <2>1, <2>2 DEF PollTypes
  <2>4. \A fd \in Fds : fd # Lowest => rfds'[fd] = rfds[fd]
    BY <1>0, <1>2 DEF PollTypes
  <2>5. rfds'[Lowest] = s
    BY <1>0, <1>2, <2>1 DEF PollTypes
  <2>6. \A fd \in Fds : rfds[fd] # None => rfds[fd] \in Streams /\ rfds[fd] # s
    BY <1>2, RegisteredFacts
  <2>7. RegisteredOpen'
    BY <1>0, <1>1, <2>1, <2>4, <2>5, <2>6 DEF RegisteredOpen, Open
  <2>8. EventsReadable'
    BY <1>0, <1>1, <1>2, <2>1, <2>4, <2>6 DEF EventsReadable, Open, Readable
  <2> QED BY <2>1, <2>3, <2>7, <2>8 DEF PollInv
<1>3. CASE UNCHANGED <<life, fdOf, rfds, fresh>>
  <2>1. PollTypes'
    BY <1>0, <1>1, <1>3 DEF PollTypes
  <2>2. Owned' /\ RacedClosed'
    BY <1>0, <1>1, <1>3 DEF Owned, RacedClosed, Open
  <2>3. EventsReadable' /\ RegisteredOpen'
    BY <1>0, <1>1, <1>3 DEF EventsReadable, RegisteredOpen, Open, Readable
  <2>4. NeverMisled' /\ CrashOnlyRaced'
    BY <1>0, <1>1 DEF NeverMisled, CrashOnlyRaced
  <2> QED BY <2>1, <2>2, <2>3, <2>4 DEF PollInv
<1> QED BY <1>2, <1>3 DEF OnAccept

\* Steps that leave the streams and the poller alone.
\* Steps that leave the streams alone.
LEMMA StreamsSame ==
  ASSUME PollInv, UNCHANGED <<life, fdOf, rfds, fresh, misled>>, input' \in Inputs,
         running' \in {"no", "yes"} \/ running' = running, raced \subseteq raced', RacedClosed',
         events' \subseteq events, \A s \in Streams : Readable(s) => Readable(s)',
         checked' \subseteq Functions, deferred' \in Seq(Functions),
         \A f \in checked' : life[f[2]] # "new", \A i \in 1..Len(deferred') : life[deferred'[i][2]] # "new"
  PROVE  PollInv'
<1>0. PollTypes /\ EventsReadable /\ RegisteredOpen /\ Owned /\ NeverMisled /\ CrashOnlyRaced
  BY DEF PollInv
<1>1. PollTypes'
  BY <1>0 DEF PollTypes
<1>2. Owned'
  BY <1>0 DEF Owned, Open
<1>3. EventsReadable'
  <2>1. \A fd \in Fds : rfds[fd] # None => rfds[fd] \in Streams
    BY RegisteredFacts
  <2>2. \A s \in Streams : Open(s)' = Open(s)
    BY DEF Open
  <2> SUFFICES ASSUME NEW fd \in Fds, fd \in events', fd \notin fresh, rfds[fd] # None, life[rfds[fd]] = "open"
               PROVE  Readable(rfds[fd])'
    BY DEF EventsReadable, Open, Readable
  <2>3. Readable(rfds[fd])
    BY <1>0 DEF EventsReadable, Open
  <2> QED BY <2>1, <2>3 DEF Readable
<1>4. RegisteredOpen'
  BY <1>0 DEF RegisteredOpen, Open
<1>5. NeverMisled' /\ CrashOnlyRaced'
  BY <1>0 DEF NeverMisled, CrashOnlyRaced
<1> QED BY <1>1, <1>2, <1>3, <1>4, <1>5 DEF PollInv

LEMMA DisconnectsKeeps == ASSUME PollInv, NEW s \in Streams, ThreadDisconnects(s) PROVE PollInv'
<1>1. /\ Open(s) /\ checked' = checked \union {<<"disconnect", s>>}
      /\ UNCHANGED <<life, fdOf, input, rfds, fresh, events, running, deferred, robbed, raced, misled>>
  BY DEF ThreadDisconnects, brokerVars, histories
<1>2. input' \in Inputs /\ checked \subseteq Functions /\ deferred \in Seq(Functions) /\ <<"disconnect", s>> \in Functions /\ <<"disconnect", s>>[2] = s
  BY <1>1 DEF PollInv, PollTypes, Functions
<1>3. \A f \in checked' : life[f[2]] # "new"
  BY <1>1, <1>2 DEF PollInv, Owned, Open
<1>4. \A i \in 1..Len(deferred') : life[deferred'[i][2]] # "new"
  BY <1>1 DEF PollInv, Owned
<1>5. RacedClosed' /\ \A t \in Streams : Readable(t) => Readable(t)'
  BY <1>1 DEF PollInv, RacedClosed, Readable, Open
<1> QED BY <1>1, <1>2, <1>3, <1>4, <1>5, StreamsSame

LEMMA DeferKeeps == ASSUME PollInv, NEW f \in checked, Defer(f) PROVE PollInv'
<1>1. /\ checked' = checked \ {f} /\ deferred' = Append(deferred, f)
      /\ raced' = IF f[1] = "receive" /\ ~Open(f[2]) THEN raced \union {f[2]} ELSE raced
      /\ UNCHANGED <<life, fdOf, input, rfds, fresh, events, running, misled>>
  BY DEF Defer, brokerVars
<1>2. /\ checked \subseteq Functions /\ deferred \in Seq(Functions) /\ f \in Functions /\ f[2] \in Streams
      /\ life[f[2]] # "new" /\ input' \in Inputs
  BY <1>1 DEF PollInv, PollTypes, Functions, Owned
<1>a. life \in [Streams -> {"new", "open", "closed"}]
  BY DEF PollInv, PollTypes
<1>3. \A g \in checked' : life[g[2]] # "new"
  BY <1>1 DEF PollInv, Owned
<1>4. /\ deferred' \in Seq(Functions) /\ Len(deferred') = Len(deferred) + 1 /\ deferred'[Len(deferred) + 1] = f
      /\ \A i \in 1..Len(deferred) : deferred'[i] = deferred[i]
      /\ Len(deferred) \in Nat
  BY <1>1, <1>2
<1>5. \A i \in 1..Len(deferred') : life[deferred'[i][2]] # "new"
  <2>1. \A i \in 1..Len(deferred') : i \in 1..Len(deferred) \/ i = Len(deferred) + 1
    BY <1>4
  <2>2. \A i \in 1..Len(deferred) : life[deferred[i][2]] # "new"
    BY DEF PollInv, Owned
  <2> QED BY <1>2, <1>4, <2>1, <2>2
<1>6. raced \subseteq raced'
  BY <1>1
<1>7. RacedClosed'
  BY <1>1, <1>2, <1>a DEF PollInv, RacedClosed, Open
<1>8. \A t \in Streams : Readable(t) => Readable(t)'
  BY <1>1 DEF Readable, Open
<1> QED BY <1>1, <1>2, <1>3, <1>4, <1>5, <1>6, <1>7, <1>8, StreamsSame

\* Protocol.on_disconnect() of a stream that was open once.
LEMMA DisconnectFacts ==
  ASSUME PollInv, NEW s \in Streams, life[s] # "new", OnDisconnect(s), UNCHANGED <<fdOf, input, checked, misled>>,
         raced' = raced, events' \subseteq events, deferred' \in Seq(Functions),
         \A i \in 1..Len(deferred') : life[deferred'[i][2]] # "new", running' = running
  PROVE  PollInv'
<1>0. PollTypes /\ EventsReadable /\ RegisteredOpen /\ Owned /\ RacedClosed /\ NeverMisled /\ CrashOnlyRaced
  BY DEF PollInv
<1>1. rfds' = [rfds EXCEPT ![fdOf[s]] = None] /\ life' = [life EXCEPT ![s] = "closed"] /\ fresh' = fresh
  BY DEF OnDisconnect, Unregister
<1>2. fdOf[s] \in Fds
  BY <1>0 DEF Owned
<1>3. /\ life' \in [Streams -> {"new", "open", "closed"}] /\ life'[s] = "closed"
      /\ \A t \in Streams : t # s => life'[t] = life[t]
  BY <1>0, <1>1 DEF PollTypes
<1>4. /\ rfds' \in [Fds -> Streams \union {None}] /\ rfds'[fdOf[s]] = None
      /\ \A fd \in Fds : rfds'[fd] \in {rfds[fd], None}
      /\ \A fd \in Fds : fd # fdOf[s] => rfds'[fd] = rfds[fd]
  BY <1>0, <1>1, <1>2 DEF PollTypes
<1>5. PollTypes'
  BY <1>0, <1>1, <1>3, <1>4 DEF PollTypes
<1>6. \A t \in Streams : (life'[t] = "new") = (life[t] = "new") /\ (life'[t] = "open" => life[t] = "open" /\ t # s)
  BY <1>3
<1>7. Owned'
  <2>1. \A t, u \in Streams : t # u /\ Open(t)' /\ Open(u)' => fdOf'[t] # fdOf'[u]
    BY <1>0, <1>6 DEF Owned, Open
  <2>2. \A t \in Streams : life'[t] # "new" => fdOf'[t] \in Fds
    BY <1>0, <1>6 DEF Owned
  <2>3. \A f \in checked' : life'[f[2]] # "new"
    <3>1. \A f \in checked : f[2] \in Streams
      BY <1>0 DEF PollTypes, Functions
    <3> QED BY <1>0, <1>6, <3>1 DEF Owned
  <2>4. \A i \in 1..Len(deferred') : life'[deferred'[i][2]] # "new"
    <3>1. \A i \in 1..Len(deferred') : deferred'[i][2] \in Streams
      BY DEF Functions
    <3> QED BY <1>6, <3>1
  <2> QED BY <2>1, <2>2, <2>3, <2>4 DEF Owned
<1>8. RacedClosed'
  BY <1>0, <1>3 DEF RacedClosed
<1>9. RegisteredOpen'
  <2> SUFFICES ASSUME NEW fd \in Fds, rfds'[fd] # None
               PROVE  (life'[rfds'[fd]] = "open" /\ fdOf[rfds'[fd]] = fd) \/ rfds'[fd] \in raced
    BY DEF RegisteredOpen, Open
  <2>1. rfds'[fd] = rfds[fd] /\ fd # fdOf[s] /\ rfds[fd] \in Streams
    BY <1>4, RegisteredFacts
  <2>2. (life[rfds[fd]] = "open" /\ fdOf[rfds[fd]] = fd) \/ rfds[fd] \in raced
    BY <1>0, <2>1 DEF RegisteredOpen, Open
  <2> QED BY <1>3, <2>1, <2>2
<1>10. EventsReadable'
  <2> SUFFICES ASSUME NEW fd \in Fds, fd \in events', fd \notin fresh, rfds'[fd] # None, life'[rfds'[fd]] = "open"
               PROVE  life'[rfds'[fd]] = "open" /\ (input'[rfds'[fd]].bytes > 0 \/ input'[rfds'[fd]].eof)
    BY <1>1 DEF EventsReadable, Open, Readable
  <2>1. rfds'[fd] = rfds[fd] /\ rfds[fd] \in Streams
    BY <1>4, RegisteredFacts
  <2>2. life[rfds[fd]] = "open" /\ rfds[fd] # s
    BY <1>3, <1>6, <2>1
  <2>3. input[rfds[fd]].bytes > 0 \/ input[rfds[fd]].eof
    BY <1>0, <2>1, <2>2 DEF EventsReadable, Open, Readable
  <2> QED BY <2>1, <2>2, <2>3
<1>11. NeverMisled' /\ CrashOnlyRaced'
  BY <1>0 DEF NeverMisled, CrashOnlyRaced
<1> QED BY <1>5, <1>7, <1>8, <1>9, <1>10, <1>11 DEF PollInv

\* The broker handles a ready descriptor.
LEMMA OnReadyKeeps == ASSUME PollInv, NEW fd \in Fds, OnReady(fd) PROVE PollInv'
<1>0. PollTypes /\ EventsReadable /\ RegisteredOpen /\ Owned /\ RacedClosed /\ NeverMisled /\ CrashOnlyRaced
  BY DEF PollInv
<1>1. events' = events \ {fd} /\ fd \in events /\ UNCHANGED <<fdOf, running, deferred, checked, raced>>
  BY DEF OnReady, Take
<1>2. /\ deferred' \in Seq(Functions) /\ checked' \subseteq Functions
      /\ \A i \in 1..Len(deferred') : life[deferred'[i][2]] # "new"
      /\ \A f \in checked' : life[f[2]] # "new"
  BY <1>0, <1>1 DEF PollTypes, Owned
<1>3. CASE rfds[fd] = None \/ fd \in fresh
  <2>1. UNCHANGED <<life, rfds, fresh, input, misled>>
    BY <1>3 DEF OnReady
  <2>2. RacedClosed' /\ \A t \in Streams : Readable(t) => Readable(t)'
    BY <1>0, <1>1, <2>1 DEF RacedClosed, Readable, Open
  <2>3. input' \in Inputs
    BY <1>0, <2>1 DEF PollTypes
  <2> QED BY <1>1, <1>2, <2>1, <2>2, <2>3, StreamsSame
<1>4. CASE ~(rfds[fd] = None \/ fd \in fresh)
  <2> DEFINE s == rfds[fd]
  <2>1. s \in Streams /\ life[s] # "new" /\ (Open(s) => fdOf[s] = fd)
    BY <1>4, RegisteredFacts
  <2>2. Open(s) => Readable(s)
    BY <1>0, <1>1, <1>4 DEF EventsReadable
  <2>3. \/ /\ Open(s) /\ input[s].bytes > 0
           /\ input' = [input EXCEPT ![s].bytes = 0] /\ UNCHANGED <<life, rfds, fresh, misled>>
        \/ OnDisconnect(s) /\ UNCHANGED <<input, misled>>
        \/ Open(s) /\ input[s].bytes = 0 /\ ~input[s].eof
    BY <1>4 DEF OnReady
  <2> HIDE DEF s
  <2>4. CASE OnDisconnect(s) /\ UNCHANGED <<input, misled>>
    <3>1. events' \subseteq events /\ UNCHANGED <<fdOf, input, checked, misled>> /\ raced' = raced /\ running' = running
      BY <1>1, <2>4
    <3> QED BY <1>2, <2>1, <2>4, <3>1, DisconnectFacts
  <2>5. CASE Open(s) /\ input[s].bytes = 0 /\ ~input[s].eof
    BY <2>2, <2>5 DEF Readable
  <2>6. CASE Open(s) /\ input' = [input EXCEPT ![s].bytes = 0] /\ UNCHANGED <<life, rfds, fresh, misled>>
    <3>1. \A t \in Streams : t # s => input'[t] = input[t]
      BY <2>6
    <3>6. input' \in Inputs
      <4>1. input \in Inputs
        BY <1>0 DEF PollTypes
      <4> QED BY <2>6, <4>1 DEF Inputs
    <3>2. PollTypes'
      BY <1>0, <1>1, <1>2, <2>6, <3>6 DEF PollTypes
    <3>3. Owned' /\ RacedClosed' /\ RegisteredOpen'
      BY <1>0, <1>1, <2>6 DEF Owned, RacedClosed, RegisteredOpen, Open
    <3>4. NeverMisled' /\ CrashOnlyRaced'
      BY <1>0, <1>1, <2>6 DEF NeverMisled, CrashOnlyRaced
    <3>5. EventsReadable'
      <4> SUFFICES ASSUME NEW g \in Fds, g \in events', g \notin fresh, rfds[g] # None, life[rfds[g]] = "open"
                   PROVE  Readable(rfds[g])'
        BY <2>6 DEF EventsReadable, Open, Readable
      <4>1. Readable(rfds[g]) /\ g # fd
        BY <1>0, <1>1 DEF EventsReadable, Open
      <4>2. rfds[g] \in Streams /\ fdOf[rfds[g]] = g
        BY RegisteredFacts DEF Open
      <4>3. rfds[g] # s
        BY <2>1, <2>6, <4>1, <4>2
      <4> QED BY <2>6, <3>1, <4>1, <4>2, <4>3 DEF Readable, Open
    <3> QED BY <3>2, <3>3, <3>4, <3>5 DEF PollInv
  <2> QED BY <2>3, <2>4, <2>5, <2>6
<1> QED BY <1>3, <1>4

\* poll() returns.
LEMMA PollKeeps == ASSUME PollInv, NEW accepting \in BOOLEAN, Poll(accepting) PROVE PollInv'
<1>0. PollTypes /\ RegisteredOpen /\ Owned /\ RacedClosed /\ NeverMisled /\ CrashOnlyRaced
  BY DEF PollInv
<1>1. UNCHANGED <<life, fdOf, input, rfds, running, deferred, checked, raced, misled>> /\ fresh' = {}
  BY DEF Poll, histories
<1>2. events' \subseteq {fd \in Fds : fd \in Used /\ rfds[fd] # None /\ Readable(Owner(fd))} \union {Waker, Accepting}
  BY DEF Poll
<1>3. PollTypes'
  BY <1>0, <1>1, <1>2 DEF PollTypes
<1>4. Owned' /\ RacedClosed' /\ RegisteredOpen'
  BY <1>0, <1>1 DEF Owned, RacedClosed, RegisteredOpen, Open
<1>5. NeverMisled' /\ CrashOnlyRaced'
  BY <1>0, <1>1 DEF NeverMisled, CrashOnlyRaced
<1>6. EventsReadable'
  <2> SUFFICES ASSUME NEW fd \in Fds, fd \in events', rfds[fd] # None, life[rfds[fd]] = "open"
               PROVE  Readable(rfds[fd])
    BY <1>1 DEF EventsReadable, Open, Readable
  <2>1. fd # Waker /\ fd # Accepting
    BY PollingAssumption DEF Waker, Accepting
  <2>2. Readable(Owner(fd))
    BY <1>2, <2>1
  <2>3. rfds[fd] \in Streams /\ fdOf[rfds[fd]] = fd
    BY RegisteredFacts DEF Open
  <2>4. Owner(fd) \in Streams /\ life[Owner(fd)] = "open" /\ fdOf[Owner(fd)] = fd
    BY <2>3 DEF Owner, Open
  <2>5. Owner(fd) = rfds[fd]
    BY <1>0, <2>3, <2>4 DEF Owned, Open
  <2> QED BY <2>2, <2>5
<1> QED BY <1>3, <1>4, <1>5, <1>6 DEF PollInv

\* The broker runs what was deferred.
LEMMA RunDeferredKeeps == ASSUME PollInv, RunDeferred PROVE PollInv'
<1>0. PollTypes /\ EventsReadable /\ RegisteredOpen /\ Owned /\ RacedClosed /\ NeverMisled /\ CrashOnlyRaced
  BY DEF PollInv
<1>1. UNCHANGED <<fdOf, input, events, checked, misled>> /\ running = "yes"
  BY DEF RunDeferred
<1>2. checked' \subseteq Functions /\ \A f \in checked' : life[f[2]] # "new"
  BY <1>0, <1>1 DEF PollTypes, Owned
<1>3. CASE deferred = <<>>
  <2>1. UNCHANGED <<life, rfds, fresh, deferred, raced>> /\ running' = "no"
    BY <1>3 DEF RunDeferred
  <2>2. /\ deferred' \in Seq(Functions) /\ \A i \in 1..Len(deferred') : life[deferred'[i][2]] # "new"
        /\ \A f \in checked' : life[f[2]] # "new"
        /\ input' \in Inputs
    BY <1>0, <1>1, <1>2, <2>1 DEF PollTypes, Owned
  <2>3. RacedClosed' /\ \A t \in Streams : Readable(t) => Readable(t)'
    BY <1>0, <1>1, <2>1 DEF RacedClosed, Readable, Open
  <2> QED BY <1>1, <1>2, <2>1, <2>2, <2>3, StreamsSame
<1>4. CASE deferred # <<>>
  <2> DEFINE s == Head(deferred)[2]
  <2>1. /\ deferred \in Seq(Functions) /\ Tail(deferred) \in Seq(Functions) /\ Len(Tail(deferred)) = Len(deferred) - 1
        /\ \A i \in 1..Len(Tail(deferred)) : Tail(deferred)[i] = deferred[i + 1] /\ i + 1 \in 1..Len(deferred)
        /\ Head(deferred) = deferred[1] /\ 1 \in 1..Len(deferred) /\ Head(deferred) \in Functions
    BY <1>0, <1>4 DEF PollTypes
  <2>2. s \in Streams /\ life[s] # "new" /\ fdOf[s] \in Fds
    BY <1>0, <2>1 DEF Functions, Owned
  <2>3. deferred' = Tail(deferred)
    BY <1>4 DEF RunDeferred
  <2>4. deferred' \in Seq(Functions) /\ \A i \in 1..Len(deferred') : life[deferred'[i][2]] # "new"
    BY <1>0, <2>1, <2>3 DEF Owned
  <2>5. \/ /\ Register(s) /\ running' = (IF fdOf[s] \in Used THEN "yes" ELSE "crashed")
           /\ raced' = (IF Open(s) THEN raced ELSE raced \union {s}) /\ UNCHANGED life
        \/ OnDisconnect(s) /\ UNCHANGED <<raced, running>>
    BY <1>4 DEF RunDeferred
  <2> HIDE DEF s
  <2>6. CASE OnDisconnect(s) /\ UNCHANGED <<raced, running>>
    <3>1. events' \subseteq events /\ UNCHANGED <<fdOf, input, checked, misled>> /\ raced' = raced /\ running' = running
      BY <1>1, <2>6
    <3> QED BY <2>2, <2>4, <2>6, <3>1, DisconnectFacts
  <2>7. CASE /\ Register(s) /\ running' = (IF fdOf[s] \in Used THEN "yes" ELSE "crashed")
             /\ raced' = (IF Open(s) THEN raced ELSE raced \union {s}) /\ UNCHANGED life
    <3>1. rfds' = [rfds EXCEPT ![fdOf[s]] = s] /\ fresh' = fresh \union {fdOf[s]}
      BY <2>7 DEF Register
    <3>2. /\ rfds' \in [Fds -> Streams \union {None}] /\ rfds'[fdOf[s]] = s
          /\ \A fd \in Fds : fd # fdOf[s] => rfds'[fd] = rfds[fd]
      BY <1>0, <2>2, <3>1 DEF PollTypes
    <3>3. PollTypes'
      BY <1>0, <1>1, <2>2, <2>4, <2>7, <3>1, <3>2 DEF PollTypes
    <3>4. Owned'
      BY <1>0, <1>1, <2>4, <2>7 DEF Owned, Open
    <3>5. life[s] \in {"open", "closed"}
      BY <1>0, <2>2 DEF PollTypes
    <3>6. RacedClosed'
      BY <1>0, <2>2, <2>7, <3>5 DEF RacedClosed, Open
    <3>7. RegisteredOpen'
      <4> SUFFICES ASSUME NEW fd \in Fds, rfds'[fd] # None
                   PROVE  (life[rfds'[fd]] = "open" /\ fdOf[rfds'[fd]] = fd) \/ rfds'[fd] \in raced'
        BY <1>1, <2>7 DEF RegisteredOpen, Open
      <4>1. CASE fd = fdOf[s]
        BY <2>7, <3>2, <4>1 DEF Open
      <4>2. CASE fd # fdOf[s]
        <5>1. rfds'[fd] = rfds[fd] /\ rfds[fd] # None /\ raced \subseteq raced'
          BY <2>7, <3>2, <4>2
        <5>2. (life[rfds[fd]] = "open" /\ fdOf[rfds[fd]] = fd) \/ rfds[fd] \in raced
          BY <1>0, <5>1 DEF RegisteredOpen, Open
        <5> QED BY <5>1, <5>2
      <4> QED BY <4>1, <4>2
    <3>8. EventsReadable'
      <4> SUFFICES ASSUME NEW fd \in Fds, fd \in events, fd \notin fresh, fd # fdOf[s], rfds[fd] # None, life[rfds[fd]] = "open"
                   PROVE  Readable(rfds[fd])
        BY <1>1, <2>7, <3>1, <3>2 DEF EventsReadable, Open, Readable
      <4> QED BY <1>0 DEF EventsReadable, Open
    <3>9. CrashOnlyRaced'
      <4>1. Open(s) => running' = "yes"
        BY <2>2, <2>7, OpenUsed
      <4>2. ~Open(s) => s \in raced'
        BY <2>7
      <4> QED BY <4>1, <4>2 DEF CrashOnlyRaced
    <3>10. NeverMisled'
      BY <1>0, <1>1 DEF NeverMisled
    <3> QED BY <3>3, <3>4, <3>6, <3>7, <3>8, <3>9, <3>10 DEF PollInv
  <2> QED BY <2>5, <2>6, <2>7
<1> QED BY <1>3, <1>4

LEMMA PollStep == PollInv /\ [PollingNext]_poVars => PollInv'
<1> SUFFICES ASSUME PollInv, [PollingNext]_poVars PROVE PollInv'
  OBVIOUS
<1>0. /\ checked \subseteq Functions /\ deferred \in Seq(Functions) /\ input \in Inputs
      /\ \A f \in checked : life[f[2]] # "new"
      /\ \A i \in 1..Len(deferred) : life[deferred[i][2]] # "new"
      /\ RacedClosed
  BY DEF PollInv, PollTypes, Owned
<1>1. ASSUME NEW s \in Streams, PeerSends(s) PROVE PollInv'
  <2>1. /\ UNCHANGED <<life, fdOf, rfds, fresh, events, running, deferred, checked, raced, misled>>
        /\ input' = [input EXCEPT ![s].bytes = 1] \/ input' = [input EXCEPT ![s].eof = TRUE]
    BY <1>1 DEF PeerSends, brokerVars, histories
  <2>a. input' \in Inputs /\ \A t \in Streams : t # s => input'[t] = input[t]
    BY <1>0, <2>1 DEF Inputs
  <2>b. input'[s].bytes = 1 \/ input'[s].eof
    BY <1>0, <2>1 DEF Inputs
  <2>2. \A t \in Streams : Readable(t) => Readable(t)'
    <3> SUFFICES ASSUME NEW t \in Streams, Open(t), input[t].bytes > 0 \/ input[t].eof
                 PROVE  input'[t].bytes > 0 \/ input'[t].eof
      BY <2>1 DEF Readable, Open
    <3> QED BY <2>a, <2>b
  <2>3. RacedClosed'
    BY <1>0, <2>1 DEF RacedClosed
  <2>4. /\ checked' \subseteq Functions /\ deferred' \in Seq(Functions)
        /\ \A f \in checked' : life[f[2]] # "new"
        /\ \A i \in 1..Len(deferred') : life[deferred'[i][2]] # "new"
    BY <1>0, <2>1
  <2> QED BY <2>1, <2>2, <2>3, <2>4, <2>a, StreamsSame
<1>2. ASSUME UNCHANGED <<life, fdOf, input, rfds, fresh, deferred, checked, raced, misled>>, events' \subseteq events,
             running' \in {"no", "yes"} \/ running' = running
      PROVE PollInv'
  <2>1. (\A t \in Streams : Readable(t) => Readable(t)') /\ RacedClosed'
    BY <1>0, <1>2 DEF Readable, Open, RacedClosed
  <2>2. /\ checked' \subseteq Functions /\ deferred' \in Seq(Functions)
        /\ \A f \in checked' : life[f[2]] # "new"
        /\ \A i \in 1..Len(deferred') : life[deferred'[i][2]] # "new"
        /\ input' \in Inputs
    BY <1>0, <1>2
  <2> QED BY <1>2, <2>1, <2>2, StreamsSame
<1>3. CASE OnWaker
  BY <1>2, <1>3 DEF OnWaker, Take, histories
<1>4. CASE UNCHANGED poVars
  BY <1>2, <1>4 DEF poVars
<1> QED BY <1>1, <1>3, <1>4, ThreadOpensKeeps, DisconnectsKeeps, DeferKeeps, OnReadyKeeps, PollKeeps, OnAcceptKeeps,
           RunDeferredKeeps DEF PollingNext

\* The epoll poller: readiness is never taken for that of another stream, registrations belong to
\* open streams, and only the race between a check and its registration stops the broker.
\* No event reaches a stream that did not earn it, although descriptors are reused while events wait, and
\* the broker fails only where a stream was removed under its hands: for any descriptors and streams.
THEOREM PollingCorrect == PollingSpec => []PollingSafe
<1>1. PollInv => PollingSafe
  <2>1. PollInv => PollingTypeOK
    BY DEF PollInv, PollTypes, Owned, PollingTypeOK
  <2> QED BY <2>1 DEF PollInv, PollingSafe
<1> QED BY <1>1, PollInitially, PollStep, PTL DEF PollingSpec

-----------------------------------------------------------------------------
(* Bringup: connection attempts, and the children they leave                    *)

\* The ranges of the fields: what a handler works on is Handled.
Exceptions == {"no", "start", "password", "timeout", "shutdown", "eof"}
PipeStates == {"none", "open", "closed"}
Signals == {<<>>, <<"TERM">>, <<"TERM", "KILL">>}
Connections == [stdio : PipeStates, stderr : PipeStates, timer : BOOLEAN, exception : Exceptions, puts : Nat,
                registered : BOOLEAN, tries : Nat, reapTimer : BOOLEAN, signals : Signals]
Children == {"none", "runs", "exited", "reaped"}
ListenerEntries == {"conn", "reap"} \X Attempts
Handled == [c : Connections, p : Children, ls : Seq(ListenerEntries)]

\* No listener is on the list twice.
Distinct(ls) == \A i, j \in 1..Len(ls) : ls[i] = ls[j] => i = j
\* The Reaper leaves the outcome of an attempt alone.
SameOutcome(c, d) ==
  /\ c.stdio = d.stdio /\ c.stderr = d.stderr /\ c.timer = d.timer /\ c.exception = d.exception
  /\ c.puts = d.puts /\ c.registered = d.registered
\* A stream of the child is open.
IsOpen(c) == c.stdio = "open" \/ c.stderr = "open"
\* A child that may live on.
Own(a, c) == a \in Detached /\ c.registered
\* SIGTERM on its try and not before, SIGKILL after it.
Kindly(a, c, waits) ==
  /\ c.tries \in 0..(MaxTries + 1)
  /\ c.tries < TermAt => c.signals = <<>>
  /\ Own(a, c) => c.signals = <<>>
  /\ ~Own(a, c) /\ waits /\ TermAt <= c.tries /\ c.tries < KillAt => c.signals = <<"TERM">>
  /\ c.tries < KillAt => c.signals \in {<<>>, <<"TERM">>}
\* A child without streams is waited for, given up, or may live on.
LookedAfter(a, c, p) == p \in {"runs", "exited"} => c.reapTimer \/ c.tries > MaxTries \/ Own(a, c)
\* What holds of an attempt while a handler is at work on it,
Consistent(a, s) ==
  /\ s \in Handled /\ Distinct(s.ls)
  /\ Kindly(a, s.c, s.c.reapTimer) /\ (s.c.reapTimer => s.c.tries \in 1..MaxTries)
  /\ s.c.tries > 0 => ~IsOpen(s.c) /\ ~s.c.timer /\ LookedAfter(a, s.c, s.p)
  /\ s.c.registered => s.c.exception = "no" /\ ~s.c.timer /\ s.c.stdio # "none"
  /\ s.c.exception = "eof" => ~IsOpen(s.c)
  /\ Listener("conn", a) \in ToSet(s.ls) => s.c.timer /\ s.c.exception = "no"
  /\ Listener("reap", a) \in ToSet(s.ls) => s.c.tries > 0
\* and what holds between two handlers.
Settled(a, s) ==
  /\ Consistent(a, s)
  /\ s.c.timer => s.c.exception = "no" /\ IsOpen(s.c) /\ Listener("conn", a) \in ToSet(s.ls)
  /\ s.c.puts > 0 <=> s.c.registered \/ s.c.exception # "no"
  /\ IsOpen(s.c) \/ LookedAfter(a, s.c, s.p)
\* A handler leaves the listeners of other attempts on the list.
OthersStay(a, ls, ms) == \A e \in ListenerEntries : e[2] # a => (e \in ToSet(ls) <=> e \in ToSet(ms))
\* What the loss of a stream makes of s.
Lost(a, s, r) ==
  /\ Consistent(a, r) /\ OthersStay(a, s.ls, r.ls) /\ r.c.registered = s.c.registered
  /\ \/ /\ IsOpen(s.c) /\ IsOpen(r.c) /\ r.c.timer = s.c.timer /\ r.c.exception = s.c.exception
        /\ r.c.puts = s.c.puts /\ r.p = s.p /\ r.ls = s.ls
     \/ ~IsOpen(s.c) /\ r = s
     \/ /\ IsOpen(s.c) /\ ~IsOpen(r.c) /\ ~r.c.timer /\ LookedAfter(a, r.c, r.p)
        /\ r.c.exception = IF s.c.timer /\ s.c.exception = "no" THEN "eof" ELSE s.c.exception
        /\ r.c.puts = IF s.c.timer THEN s.c.puts + 1 ELSE s.c.puts
\* The caller has learnt what happened.
Told == \A a \in Attempts : /\ caller[a] = "returned" => conn[a].registered
                            /\ caller[a] = "raised" => conn[a].exception # "no"
\* The inductive invariant: each attempt is settled, its caller told the truth.
BringupInv ==
  /\ conn \in [Attempts -> Connections] /\ child \in [Attempts -> Children]
  /\ caller \in [Attempts -> {"calls", "waits", "returned", "raised"}]
  /\ broker \in {"runs", "fires", "streams", "grace", "exiting", "exited"}
  /\ next \in Nat \ {0} /\ late \subseteq Attempts /\ listeners \in Seq(ListenerEntries)
  /\ \A a \in Attempts : Settled(a, State(a))
  /\ Told /\ ShutdownSettles

\* The parts of an entry of the list of listeners.
LEMMA EntryFields == \A a \in Attempts, k \in {"conn", "reap"} :
    Listener(k, a) \in ListenerEntries /\ Listener(k, a)[1] = k /\ Listener(k, a)[2] = a
  BY DEF Listener, ListenerEntries
LEMMA EntryIs == ASSUME NEW e \in ListenerEntries
  PROVE  e[1] \in {"conn", "reap"} /\ e[2] \in Attempts /\ e = Listener(e[1], e[2])
  BY DEF Listener, ListenerEntries
LEMMA ToSetIs == ASSUME NEW S, NEW s \in Seq(S)
  PROVE  /\ \A e : e \in ToSet(s) <=> \E i \in 1..Len(s) : s[i] = e
         /\ \A i \in 1..Len(s) : s[i] \in S
  BY DEF ToSet
\* unlisten() takes one entry out of a list without duplicates.
LEMMA Unlistened ==
  ASSUME NEW ls \in Seq(ListenerEntries), Distinct(ls), NEW l \in ListenerEntries
  PROVE  /\ Unlisten(ls, l) \in Seq(ListenerEntries) /\ Distinct(Unlisten(ls, l))
         /\ \A e : e \in ToSet(Unlisten(ls, l)) <=> e \in ToSet(ls) /\ e # l
<1>1. CASE l \notin ToSet(ls)
  BY <1>1 DEF Unlisten
<1>2. CASE l \in ToSet(ls)
  <2>1. PICK k \in 1..Len(ls) : ls[k] = l
    BY <1>2, ToSetIs
  <2> DEFINE I == {i \in 1..Len(ls) : ls[i] = l}
             m == RemoveAt(ls, k)
  <2>2. I = {k}
    BY <2>1 DEF Distinct
  <2>3. Min(I) = k
    BY <2>2 DEF Min
  <2>4. SelectInSeq(ls, LAMBDA v : v = l) = k
    BY <2>2, <2>3 DEF SelectInSeq
  <2>5. Unlisten(ls, l) = m
    BY <1>2, <2>1, <2>4 DEF Unlisten, RemoveFirst
  <2>6. /\ m \in Seq(ListenerEntries) /\ Len(m) = Len(ls) - 1 /\ Len(ls) \in Nat
        /\ \A j \in 1..(Len(ls) - 1) : m[j] = IF j < k THEN ls[j] ELSE ls[j + 1]
    BY RemoveAtProperties
  <2> HIDE DEF m
  <2>7. Distinct(m)
    <3> DEFINE at(j) == IF j < k THEN j ELSE j + 1
    <3>1. ASSUME NEW j \in 1..(Len(ls) - 1) PROVE at(j) \in 1..Len(ls) /\ m[j] = ls[at(j)]
      <4>1. CASE j < k
        <5>1. m[j] = ls[j] /\ at(j) = j /\ j \in 1..Len(ls)
          BY <2>6, <4>1
        <5> QED BY <5>1
      <4>2. CASE ~(j < k)
        <5>1. m[j] = ls[j + 1] /\ at(j) = j + 1 /\ j + 1 \in 1..Len(ls)
          BY <2>6, <4>2
        <5> QED BY <5>1
      <4> QED BY <4>1, <4>2
    <3>2. \A i, j \in 1..(Len(ls) - 1) : at(i) = at(j) => i = j
      OBVIOUS
    <3> HIDE DEF at
    <3>3. ASSUME NEW i \in 1..(Len(ls) - 1), NEW j \in 1..(Len(ls) - 1), m[i] = m[j] PROVE i = j
      <4>1. at(i) = at(j)
        BY <3>1, <3>3 DEF Distinct
      <4> QED BY <3>2, <4>1
    <3> QED BY <2>6, <3>3 DEF Distinct
  <2>8. ASSUME NEW e PROVE e \in ToSet(m) <=> e \in ToSet(ls) /\ e # l
    <3>1. ASSUME e \in ToSet(m) PROVE e \in ToSet(ls) /\ e # l
      <4>1. PICK j \in 1..(Len(ls) - 1) : m[j] = e
        BY <2>6, <3>1, ToSetIs
      <4>2. PICK i \in 1..Len(ls) : ls[i] = e /\ i # k
        BY <4>1, <2>6
      <4> QED BY <4>2, <2>1, ToSetIs DEF Distinct
    <3>2. ASSUME e \in ToSet(ls), e # l PROVE e \in ToSet(m)
      <4>1. PICK i \in 1..Len(ls) : ls[i] = e
        BY <3>2, ToSetIs
      <4>2. \E j \in 1..(Len(ls) - 1) : m[j] = e
        <5>1. CASE i < k
          BY <5>1, <4>1, <2>6
        <5>2. CASE i > k
          <6>1. i - 1 \in 1..(Len(ls) - 1) /\ ~(i - 1 < k) /\ (i - 1) + 1 = i
            BY <5>2
          <6> QED BY <6>1, <4>1, <2>6
        <5> QED BY <5>1, <5>2, <4>1, <3>2, <2>1
      <4> QED BY <4>2, <2>6, ToSetIs
    <3> QED BY <3>1, <3>2
  <2> QED BY <2>5, <2>6, <2>7, <2>8
<1> QED BY <1>1, <1>2

\* listen() adds an entry that was not there.
LEMMA Listened ==
  ASSUME NEW ls \in Seq(ListenerEntries), Distinct(ls), NEW l \in ListenerEntries, l \notin ToSet(ls)
  PROVE  /\ Append(ls, l) \in Seq(ListenerEntries) /\ Distinct(Append(ls, l))
         /\ \A e : e \in ToSet(Append(ls, l)) <=> e \in ToSet(ls) \/ e = l
<1> DEFINE m == Append(ls, l)
<1>1. /\ m \in Seq(ListenerEntries) /\ Len(m) = Len(ls) + 1 /\ Len(ls) \in Nat
      /\ \A j \in 1..Len(ls) : m[j] = ls[j]
      /\ m[Len(ls) + 1] = l
  BY AppendProperties
<1> HIDE DEF m
<1>2. \A i \in 1..Len(ls) : ls[i] # l
  BY ToSetIs
<1>3. Distinct(m)
  BY <1>1, <1>2 DEF Distinct
<1>4. ASSUME NEW e PROVE e \in ToSet(m) <=> e \in ToSet(ls) \/ e = l
  <2>1. e \in ToSet(m) <=> \E i \in 1..(Len(ls) + 1) : m[i] = e
    BY <1>1, ToSetIs
  <2>2. e \in ToSet(ls) <=> \E i \in 1..Len(ls) : ls[i] = e
    BY ToSetIs
  <2> QED BY <1>1, <2>1, <2>2
<1> QED BY <1>1, <1>3, <1>4 DEF m

\* The two signals, in their order.
LEMMA SignalsFollow == Append(<<>>, "TERM") = <<"TERM">> /\ Append(<<"TERM">>, "KILL") = <<"TERM", "KILL">>
<1>1. <<>> \in Seq({"TERM", "KILL"}) /\ <<"TERM">> \in Seq({"TERM", "KILL"}) /\ <<"TERM", "KILL">> \in Seq({"TERM", "KILL"})
  OBVIOUS
<1>2. /\ Append(<<>>, "TERM") \in Seq({"TERM", "KILL"}) /\ Len(Append(<<>>, "TERM")) = 1
      /\ Append(<<>>, "TERM")[1] = "TERM"
  BY <1>1, AppendProperties
<1>3. /\ Append(<<"TERM">>, "KILL") \in Seq({"TERM", "KILL"}) /\ Len(Append(<<"TERM">>, "KILL")) = 2
      /\ Append(<<"TERM">>, "KILL")[1] = "TERM" /\ Append(<<"TERM">>, "KILL")[2] = "KILL"
  BY <1>1, AppendProperties
<1>4. Append(<<>>, "TERM") = <<"TERM">>
  BY <1>1, <1>2, SeqEqual
<1>5. Append(<<"TERM">>, "KILL") = <<"TERM", "KILL">>
  <2>1. \A i \in 1..2 : Append(<<"TERM">>, "KILL")[i] = <<"TERM", "KILL">>[i]
    BY <1>3
  <2> QED BY <1>1, <1>3, <2>1, SeqEqual
<1> QED BY <1>4, <1>5

\* The parts of what a handler works on, and what changes some of them.
LEMMA HandledIs ==
  ASSUME NEW s \in Handled
  PROVE  /\ s.c \in Connections /\ s.p \in Children /\ s.ls \in Seq(ListenerEntries)
         /\ s = [c |-> s.c, p |-> s.p, ls |-> s.ls]
  BY DEF Handled
LEMMA WithConnection ==
  ASSUME NEW s \in Handled, NEW c
  PROVE  [s EXCEPT !.c = c] = [c |-> c, p |-> s.p, ls |-> s.ls]
  BY DEF Handled
LEMMA WithTimer ==
  ASSUME NEW s \in Handled, NEW x
  PROVE  [s EXCEPT !.c.timer = x] = [c |-> [s.c EXCEPT !.timer = x], p |-> s.p, ls |-> s.ls]
  BY DEF Handled
LEMMA WithReapTimer ==
  ASSUME NEW s \in Handled, NEW x
  PROVE  [s EXCEPT !.c.reapTimer = x] = [c |-> [s.c EXCEPT !.reapTimer = x], p |-> s.p, ls |-> s.ls]
  BY DEF Handled
LEMMA WithChild ==
  ASSUME NEW s \in Handled, NEW c, NEW p
  PROVE  [s EXCEPT !.c = c, !.p = p] = [c |-> c, p |-> p, ls |-> s.ls]
<1> DEFINE t == [c |-> c, p |-> s.p, ls |-> s.ls]
<1>1. [t EXCEPT !.p = p] = [c |-> c, p |-> p, ls |-> s.ls]
  OBVIOUS
<1>2. [s EXCEPT !.c = c, !.p = p] = [[s EXCEPT !.c = c] EXCEPT !.p = p]
  OBVIOUS
<1> QED BY WithConnection, <1>1, <1>2
LEMMA WithList ==
  ASSUME NEW s \in Handled, NEW c, NEW ls
  PROVE  [s EXCEPT !.c = c, !.ls = ls] = [c |-> c, p |-> s.p, ls |-> ls]
<1> DEFINE t == [c |-> c, p |-> s.p, ls |-> s.ls]
<1>1. [t EXCEPT !.ls = ls] = [c |-> c, p |-> s.p, ls |-> ls]
  OBVIOUS
<1>2. [s EXCEPT !.c = c, !.ls = ls] = [[s EXCEPT !.c = c] EXCEPT !.ls = ls]
  OBVIOUS
<1> QED BY WithConnection, <1>1, <1>2

\* SIGTERM, then SIGKILL, on the tries meant for them.
LEMMA SignalKeeps ==
  ASSUME NEW a \in Attempts, NEW s \in Handled, s.c.tries \in 1..MaxTries,
         s.c.tries - 1 < TermAt => s.c.signals = <<>>,
         Own(a, s.c) => s.c.signals = <<>>,
         ~Own(a, s.c) /\ TermAt <= s.c.tries - 1 /\ s.c.tries - 1 < KillAt => s.c.signals = <<"TERM">>,
         s.c.tries - 1 < KillAt => s.c.signals \in {<<>>, <<"TERM">>}
  PROVE  LET r == SignalChild(a, s)
         IN /\ r \in Handled /\ r.ls = s.ls /\ SameOutcome(r.c, s.c) /\ r.c.tries = s.c.tries /\ r.c.reapTimer = s.c.reapTimer
            /\ Kindly(a, r.c, TRUE)
<1> USE BringupAssumption DEF BringupAssumption
<1>0. s.c \in Connections /\ s.p \in Children /\ s.ls \in Seq(ListenerEntries)
  BY HandledIs
<1>1. CASE Own(a, s.c)
  <2>1. SignalChild(a, s) = s
    BY <1>1 DEF SignalChild, IsDetached, Own
  <2>3. Kindly(a, s.c, TRUE)
    BY <1>0, <1>1 DEF Kindly, Connections
  <2> QED BY <2>1, <2>3 DEF SameOutcome
<1>2. CASE ~Own(a, s.c) /\ s.c.tries = TermAt
  <2> DEFINE d == [s.c EXCEPT !.signals = <<"TERM">>]
             p == IF a \in Stubborn THEN s.p ELSE "exited"
             r == SignalChild(a, s)
  <2>1. s.c.signals = <<>>
    BY <1>0, <1>2
  <2>2. r = [s EXCEPT !.c = [s.c EXCEPT !.signals = Append(@, "TERM")], !.p = p]
    BY <1>2 DEF SignalChild, IsDetached, Own
  <2>3. r = [c |-> d, p |-> p, ls |-> s.ls]
    <3>1. r = [s EXCEPT !.c = d, !.p = p]
      BY <2>1, <2>2, SignalsFollow
    <3> HIDE DEF d, p, r
    <3> QED BY <3>1, WithChild
  <2>4. d \in Connections /\ SameOutcome(d, s.c) /\ d.tries = s.c.tries /\ d.reapTimer = s.c.reapTimer /\ d.signals = <<"TERM">>
    BY <1>0 DEF Connections, Signals, SameOutcome
  <2> HIDE DEF d
  <2>5. Kindly(a, d, TRUE)
    BY <1>0, <1>2, <2>4 DEF Kindly, Own, Connections, SameOutcome
  <2>6. r \in Handled /\ r.c = d /\ r.ls = s.ls
    BY <1>0, <2>3, <2>4 DEF Handled, Children
  <2> HIDE DEF r
  <2> QED BY <2>4, <2>5, <2>6 DEF r
<1>3. CASE ~Own(a, s.c) /\ s.c.tries = KillAt
  <2> DEFINE d == [s.c EXCEPT !.signals = <<"TERM", "KILL">>]
             p == "exited"
             r == SignalChild(a, s)
  <2>1. s.c.signals = <<"TERM">>
    BY <1>0, <1>3
  <2>2. r = [s EXCEPT !.c = [s.c EXCEPT !.signals = Append(@, "KILL")], !.p = p]
    BY <1>3 DEF SignalChild, IsDetached, Own
  <2>3. r = [c |-> d, p |-> p, ls |-> s.ls]
    <3>1. r = [s EXCEPT !.c = d, !.p = p]
      BY <2>1, <2>2, SignalsFollow
    <3> HIDE DEF d, p, r
    <3> QED BY <3>1, WithChild
  <2>4. d \in Connections /\ SameOutcome(d, s.c) /\ d.tries = s.c.tries /\ d.reapTimer = s.c.reapTimer /\ d.signals = <<"TERM", "KILL">>
    BY <1>0 DEF Connections, Signals, SameOutcome
  <2> HIDE DEF d
  <2>5. Kindly(a, d, TRUE)
    BY <1>0, <1>3, <2>4 DEF Kindly, Own, Connections, SameOutcome
  <2>6. r \in Handled /\ r.c = d /\ r.ls = s.ls
    BY <1>0, <2>3, <2>4 DEF Handled, Children
  <2> HIDE DEF r
  <2> QED BY <2>4, <2>5, <2>6 DEF r
<1>4. CASE ~Own(a, s.c) /\ s.c.tries # TermAt /\ s.c.tries # KillAt
  <2>1. SignalChild(a, s) = s
    BY <1>4 DEF SignalChild, IsDetached, Own
  <2>3. Kindly(a, s.c, TRUE)
    BY <1>0, <1>4 DEF Kindly, Connections
  <2> QED BY <2>1, <2>3 DEF SameOutcome
<1> QED BY <1>1, <1>2, <1>3, <1>4

\* A try of the Reaper, whose timer has just expired or never ran.
LEMMA ReapKeeps ==
  ASSUME NEW a \in Attempts, NEW s \in Handled, Distinct(s.ls), ~s.c.reapTimer, s.c.tries \in 0..MaxTries,
         Kindly(a, s.c, TRUE), Listener("reap", a) \in ToSet(s.ls) => s.c.tries > 0
  PROVE  LET r == Reap(a, s)
         IN /\ r \in Handled /\ Distinct(r.ls)
            /\ SameOutcome(r.c, s.c) /\ r.c.tries = s.c.tries + 1
            /\ Kindly(a, r.c, r.c.reapTimer) /\ (r.c.reapTimer => r.c.tries \in 1..MaxTries)
            /\ LookedAfter(a, r.c, r.p)
            /\ OthersStay(a, s.ls, r.ls)
            /\ Listener("conn", a) \in ToSet(r.ls) => Listener("conn", a) \in ToSet(s.ls)
<1> USE BringupAssumption DEF BringupAssumption
<1>0. s.c \in Connections /\ s.p \in Children /\ s.ls \in Seq(ListenerEntries)
  BY HandledIs
<1> DEFINE r == Reap(a, s)
           d == [s.c EXCEPT !.tries = s.c.tries + 1]
<1>d. /\ d \in Connections /\ SameOutcome(d, s.c) /\ d.tries = s.c.tries + 1 /\ ~d.reapTimer
      /\ d.signals = s.c.signals
  BY <1>0 DEF Connections, SameOutcome
<1> HIDE DEF d
<1>k. Kindly(a, d, d.reapTimer)
  BY <1>0, <1>d DEF Kindly, Own, Connections, SameOutcome
<1>1. CASE s.p = "exited"
  <2> DEFINE t == [c |-> d, p |-> "reaped", ls |-> s.ls]
  <2>1. r = RemoveTimer(a, [s EXCEPT !.c = [s.c EXCEPT !.tries = @ + 1], !.p = "reaped"])
    BY <1>1 DEF Reap
  <2>2. r = RemoveTimer(a, t)
    <3>1. [s EXCEPT !.c = d, !.p = "reaped"] = t
      BY WithChild
    <3>2. r = RemoveTimer(a, [s EXCEPT !.c = d, !.p = "reaped"])
      BY <2>1 DEF d
    <3> QED BY <3>1, <3>2
  <2>3. t.c = d /\ t.p = "reaped" /\ t.ls = s.ls /\ t \in Handled
    BY <1>0, <1>d DEF Handled, Children
  <2> HIDE DEF t
  <2>4. r = t
    BY <1>d, <2>2, <2>3 DEF RemoveTimer
  <2> HIDE DEF r
  <2>5. LookedAfter(a, r.c, r.p)
    BY <2>3, <2>4 DEF LookedAfter
  <2>6. OthersStay(a, s.ls, r.ls)
    BY <2>3, <2>4 DEF OthersStay
  <2> QED BY <1>d, <1>k, <2>3, <2>4, <2>5, <2>6 DEF r
<1>2. CASE s.p # "exited" /\ s.c.tries = MaxTries
  <2> DEFINE t == [c |-> d, p |-> s.p, ls |-> s.ls]
  <2>1. r = RemoveTimer(a, [s EXCEPT !.c.tries = @ + 1])
    BY <1>2 DEF Reap
  <2>0. [s EXCEPT !.c.tries = @ + 1] = t
    BY DEF d, Handled
  <2>2. r = RemoveTimer(a, t)
    BY <2>0, <2>1
  <2>3. t.c = d /\ t.p = s.p /\ t.ls = s.ls /\ t \in Handled
    BY <1>0, <1>d DEF Handled
  <2> HIDE DEF t
  <2>4. r = t
    BY <1>d, <2>2, <2>3 DEF RemoveTimer
  <2> HIDE DEF r
  <2>5. LookedAfter(a, r.c, r.p)
    BY <1>0, <1>2, <1>d, <2>3, <2>4 DEF LookedAfter
  <2>6. OthersStay(a, s.ls, r.ls)
    BY <2>3, <2>4 DEF OthersStay
  <2> QED BY <1>d, <1>k, <2>3, <2>4, <2>5, <2>6 DEF r
<1>3. CASE s.p # "exited" /\ s.c.tries # MaxTries
  <2> DEFINE m == IF s.c.tries = 0 THEN Append(s.ls, Listener("reap", a)) ELSE s.ls
             f == [s.c EXCEPT !.tries = s.c.tries + 1, !.reapTimer = TRUE]
             t == [c |-> f, p |-> s.p, ls |-> m]
  <2>1. r = SignalChild(a, t)
    <3>1. r = SignalChild(a, [s EXCEPT !.c = [s.c EXCEPT !.tries = @ + 1, !.reapTimer = TRUE],
                              !.ls = IF s.c.tries = 0 THEN Append(@, Listener("reap", a)) ELSE @])
      BY <1>3 DEF Reap
    <3>2. [s EXCEPT !.c = f, !.ls = m] = t
      BY WithList
    <3> QED BY <3>1, <3>2
  <2>2. /\ m \in Seq(ListenerEntries) /\ Distinct(m) /\ OthersStay(a, s.ls, m)
        /\ Listener("conn", a) \in ToSet(m) => Listener("conn", a) \in ToSet(s.ls)
    <3>1. CASE s.c.tries = 0
      <4>1. Listener("reap", a) \in ListenerEntries /\ Listener("reap", a) \notin ToSet(s.ls) /\ Listener("reap", a)[2] = a
        BY <3>1, EntryFields
      <4>2. Listener("conn", a) # Listener("reap", a)
        BY EntryFields
      <4>3. m = Append(s.ls, Listener("reap", a))
        BY <3>1
      <4>4. /\ m \in Seq(ListenerEntries) /\ Distinct(m)
            /\ \A e : e \in ToSet(m) <=> e \in ToSet(s.ls) \/ e = Listener("reap", a)
        BY <1>0, <4>1, <4>3, Listened
      <4> QED BY <4>1, <4>2, <4>4 DEF OthersStay
    <3>2. CASE s.c.tries # 0
      BY <1>0, <3>2 DEF OthersStay
    <3> QED BY <3>1, <3>2
  <2>3. f \in Connections /\ SameOutcome(f, s.c) /\ f.tries = s.c.tries + 1 /\ f.reapTimer /\ f.signals = s.c.signals
    <3>1. f = [d EXCEPT !.reapTimer = TRUE]
      BY DEF d
    <3> QED BY <1>d, <3>1 DEF Connections, SameOutcome
  <2> HIDE DEF m, f
  <2>4. t \in Handled /\ t.c = f /\ t.ls = m
    BY <1>0, <2>2, <2>3 DEF Handled
  <2> HIDE DEF t
  <2>5. t.c.tries \in 1..MaxTries /\ t.c.tries - 1 = s.c.tries
    BY <1>0, <1>3, <2>3, <2>4 DEF Connections
  <2>6. /\ t.c.tries - 1 < TermAt => t.c.signals = <<>>
        /\ Own(a, t.c) => t.c.signals = <<>>
        /\ ~Own(a, t.c) /\ TermAt <= t.c.tries - 1 /\ t.c.tries - 1 < KillAt => t.c.signals = <<"TERM">>
        /\ t.c.tries - 1 < KillAt => t.c.signals \in {<<>>, <<"TERM">>}
    BY <2>3, <2>4, <2>5 DEF Kindly, Own, SameOutcome
  <2>7. /\ r \in Handled /\ r.ls = t.ls /\ SameOutcome(r.c, t.c) /\ r.c.tries = t.c.tries
        /\ r.c.reapTimer = t.c.reapTimer /\ Kindly(a, r.c, TRUE)
    <3>1. LET q == SignalChild(a, t)
          IN /\ q \in Handled /\ q.ls = t.ls /\ SameOutcome(q.c, t.c) /\ q.c.tries = t.c.tries
             /\ q.c.reapTimer = t.c.reapTimer /\ Kindly(a, q.c, TRUE)
      BY <2>4, <2>5, <2>6, SignalKeeps
    <3> HIDE DEF r
    <3> QED BY <2>1, <3>1
  <2> HIDE DEF r
  <2>8. r.c.reapTimer /\ r.c.tries = s.c.tries + 1 /\ SameOutcome(r.c, s.c)
    BY <2>3, <2>4, <2>7 DEF SameOutcome
  <2>9. Kindly(a, r.c, r.c.reapTimer) /\ LookedAfter(a, r.c, r.p)
    BY <2>7, <2>8 DEF Kindly, LookedAfter
  <2> QED BY <2>2, <2>4, <2>5, <2>7, <2>8, <2>9 DEF r
<1> QED BY <1>1, <1>2, <1>3

\* What an event of attempt a may do to the list: only its own entries go.
LEMMA StaysTransitive ==
  ASSUME NEW a \in Attempts, NEW ls, NEW ms, NEW ns, OthersStay(a, ls, ms), OthersStay(a, ms, ns)
  PROVE  OthersStay(a, ls, ns)
  BY DEF OthersStay
\* unlisten() by an attempt that stops to be pending.
LEMMA UnlistenStays ==
  ASSUME NEW a \in Attempts, NEW ls \in Seq(ListenerEntries), Distinct(ls)
  PROVE  LET m == Unlisten(ls, Listener("conn", a))
         IN /\ m \in Seq(ListenerEntries) /\ Distinct(m) /\ OthersStay(a, ls, m)
            /\ Listener("conn", a) \notin ToSet(m)
            /\ Listener("reap", a) \in ToSet(m) <=> Listener("reap", a) \in ToSet(ls)
<1> DEFINE m == Unlisten(ls, Listener("conn", a))
<1>1. Listener("conn", a) \in ListenerEntries /\ Listener("conn", a) # Listener("reap", a) /\ Listener("conn", a)[2] = a
  BY EntryFields
<1>2. /\ m \in Seq(ListenerEntries) /\ Distinct(m)
      /\ \A e : e \in ToSet(m) <=> e \in ToSet(ls) /\ e # Listener("conn", a)
  BY <1>1, Unlistened
<1> HIDE DEF m
<1> QED BY <1>1, <1>2 DEF OthersStay, m

\* _fail_connection() begins: the first exception is noted, the others are not.
LEMMA NoteKeeps ==
  ASSUME NEW a \in Attempts, NEW s \in Handled, Distinct(s.ls), NEW e \in Exceptions \ {"no"}
  PROVE  LET r == NoteException(a, s, e)
         IN /\ r \in Handled /\ Distinct(r.ls) /\ r.p = s.p /\ OthersStay(a, s.ls, r.ls)
            /\ r.c.exception = IF s.c.exception = "no" THEN e ELSE s.c.exception
            /\ r.c = [s.c EXCEPT !.exception = r.c.exception]
            /\ Listener("conn", a) \in ToSet(r.ls) => s.c.exception # "no" /\ Listener("conn", a) \in ToSet(s.ls)
            /\ Listener("reap", a) \in ToSet(r.ls) <=> Listener("reap", a) \in ToSet(s.ls)
<1> DEFINE r == NoteException(a, s, e)
           m == Unlisten(s.ls, Listener("conn", a))
           d == [s.c EXCEPT !.exception = e]
<1>0. s.c \in Connections /\ s.p \in Children /\ s.ls \in Seq(ListenerEntries)
  BY HandledIs
<1>1. CASE s.c.exception # "no"
  <2>1. r = s
    BY <1>1 DEF NoteException
  <2>2. s.c = [s.c EXCEPT !.exception = s.c.exception]
    BY <1>0 DEF Connections
  <2> HIDE DEF r
  <2>3. OthersStay(a, s.ls, r.ls)
    BY <2>1 DEF OthersStay
  <2> QED BY <1>1, <2>1, <2>2, <2>3 DEF r
<1>2. CASE s.c.exception = "no"
  <2>1. r = [s EXCEPT !.c = d, !.ls = m]
    BY <1>2 DEF NoteException
  <2>2. /\ m \in Seq(ListenerEntries) /\ Distinct(m) /\ OthersStay(a, s.ls, m) /\ Listener("conn", a) \notin ToSet(m)
        /\ Listener("reap", a) \in ToSet(m) <=> Listener("reap", a) \in ToSet(s.ls)
    BY <1>0, UnlistenStays
  <2>3. d \in Connections /\ d.exception = e /\ d = [s.c EXCEPT !.exception = d.exception]
    BY <1>0 DEF Connections
  <2> HIDE DEF m, d, r
  <2>4. r = [c |-> d, p |-> s.p, ls |-> m]
    BY <2>1, WithList
  <2>5. r \in Handled /\ r.c = d /\ r.p = s.p /\ r.ls = m
    BY <1>0, <2>2, <2>3, <2>4 DEF Handled
  <2> QED BY <1>2, <2>2, <2>3, <2>5 DEF r
<1> QED BY <1>1, <1>2

\* _complete_connection() of an attempt that has failed.
LEMMA CompleteFailed ==
  ASSUME NEW a \in Attempts, NEW s \in Handled, s.c.exception # "no"
  PROVE  LET r == Complete(a, s)
         IN /\ r \in Handled /\ r.ls = s.ls /\ r.p = s.p
            /\ r.c = [s.c EXCEPT !.timer = FALSE, !.puts = s.c.puts + 1]
<1> DEFINE r == Complete(a, s)
           d == [s.c EXCEPT !.timer = FALSE, !.puts = @ + 1, !.registered = (s.c.exception = "no") \/ @]
<1>0. s.c \in Connections /\ s.p \in Children /\ s.ls \in Seq(ListenerEntries)
  BY HandledIs
<1>1. d = [s.c EXCEPT !.timer = FALSE, !.puts = s.c.puts + 1] /\ d \in Connections
  <2> DEFINE f == [s.c EXCEPT !.timer = FALSE, !.puts = s.c.puts + 1]
  <2> DEFINE g == [s.c EXCEPT !.timer = FALSE]
  <2>0. g \in Connections /\ g.registered = s.c.registered /\ g.puts = s.c.puts
    BY <1>0 DEF Connections
  <2>1. f \in Connections /\ f.registered = s.c.registered
    <3>1. f = [g EXCEPT !.puts = s.c.puts + 1]
      OBVIOUS
    <3> HIDE DEF g, f
    <3> QED BY <2>0, <3>1 DEF Connections
  <2>2. d = [f EXCEPT !.registered = (s.c.exception = "no") \/ s.c.registered]
    OBVIOUS
  <2> HIDE DEF f
  <2>3. ((s.c.exception = "no") \/ s.c.registered) = f.registered
    BY <1>0, <2>1 DEF Connections
  <2>4. d = f
    BY <2>1, <2>2, <2>3 DEF Connections
  <2> QED BY <2>1, <2>4 DEF f
<1>2. r = [s EXCEPT !.c = d, !.ls = s.ls]
  BY DEF Complete
<1> HIDE DEF d, r
<1>3. r = [c |-> d, p |-> s.p, ls |-> s.ls]
  BY <1>2, WithList
<1>4. r \in Handled /\ r.c = d /\ r.p = s.p /\ r.ls = s.ls
  BY <1>0, <1>1, <1>3 DEF Handled
<1> QED BY <1>1, <1>4 DEF r

\* The steps of _on_streams_disconnected() before the Reaper is called.
LEMMA LossNoted ==
  ASSUME NEW a \in Attempts, NEW s, Consistent(a, s), ~IsOpen(s.c), s.c.tries = 0
  PROVE  LET f == IF s.c.timer THEN Complete(a, NoteException(a, [s EXCEPT !.c.timer = FALSE], "eof")) ELSE s
         IN /\ f \in Handled /\ Distinct(f.ls) /\ f.p = s.p /\ OthersStay(a, s.ls, f.ls)
            /\ f.c.stdio = s.c.stdio /\ f.c.stderr = s.c.stderr /\ f.c.registered = s.c.registered
            /\ f.c.tries = 0 /\ f.c.reapTimer = s.c.reapTimer /\ f.c.signals = s.c.signals /\ ~f.c.timer
            /\ f.c.exception = IF s.c.timer /\ s.c.exception = "no" THEN "eof" ELSE s.c.exception
            /\ f.c.puts = IF s.c.timer THEN s.c.puts + 1 ELSE s.c.puts
            /\ Listener("conn", a) \notin ToSet(f.ls)
            /\ Listener("reap", a) \in ToSet(f.ls) <=> Listener("reap", a) \in ToSet(s.ls)
<1> DEFINE f == IF s.c.timer THEN Complete(a, NoteException(a, [s EXCEPT !.c.timer = FALSE], "eof")) ELSE s
<1>0. s \in Handled /\ s.c \in Connections /\ s.p \in Children /\ s.ls \in Seq(ListenerEntries) /\ Distinct(s.ls)
  BY HandledIs DEF Consistent
<1>1. CASE ~s.c.timer
  <2>1. f = s
    BY <1>1
  <2>2. Listener("conn", a) \notin ToSet(s.ls) /\ OthersStay(a, s.ls, s.ls)
    BY <1>1 DEF Consistent, OthersStay
  <2> HIDE DEF f
  <2> QED BY <1>0, <1>1, <2>1, <2>2 DEF f
<1>2. CASE s.c.timer
  <2> DEFINE d == [s.c EXCEPT !.timer = FALSE]
             t == [c |-> d, p |-> s.p, ls |-> s.ls]
             n == NoteException(a, t, "eof")
  <2>1. /\ d \in Connections /\ ~d.timer /\ d.stdio = s.c.stdio /\ d.stderr = s.c.stderr /\ d.registered = s.c.registered
        /\ d.tries = s.c.tries /\ d.reapTimer = s.c.reapTimer /\ d.signals = s.c.signals
        /\ d.exception = s.c.exception /\ d.puts = s.c.puts
    BY <1>0 DEF Connections
  <2>2. [s EXCEPT !.c.timer = FALSE] = t
    BY <1>0, WithTimer
  <2>3. f = Complete(a, n)
    BY <1>2, <2>2
  <2> HIDE DEF d
  <2>4. t \in Handled /\ t.c = d /\ t.p = s.p /\ t.ls = s.ls
    BY <1>0, <2>1 DEF Handled
  <2> HIDE DEF t, f
  <2>5. /\ n \in Handled /\ Distinct(n.ls) /\ n.p = t.p /\ OthersStay(a, t.ls, n.ls)
        /\ n.c.exception = IF t.c.exception = "no" THEN "eof" ELSE t.c.exception
        /\ n.c = [t.c EXCEPT !.exception = n.c.exception]
        /\ Listener("conn", a) \in ToSet(n.ls) => t.c.exception # "no" /\ Listener("conn", a) \in ToSet(t.ls)
        /\ Listener("reap", a) \in ToSet(n.ls) <=> Listener("reap", a) \in ToSet(t.ls)
    <3>1. Distinct(t.ls) /\ "eof" \in Exceptions \ {"no"}
      BY <1>0, <2>4 DEF Exceptions
    <3> QED BY <2>4, <3>1, NoteKeeps
  <2> HIDE DEF n
  <2>6. /\ ~n.c.timer /\ n.c.stdio = s.c.stdio /\ n.c.stderr = s.c.stderr /\ n.c.registered = s.c.registered
        /\ n.c.tries = s.c.tries /\ n.c.reapTimer = s.c.reapTimer /\ n.c.signals = s.c.signals
        /\ n.c.puts = s.c.puts /\ n.c.exception # "no"
    BY <2>1, <2>4, <2>5 DEF Connections
  <2>7. f \in Handled /\ f.ls = n.ls /\ f.p = n.p /\ f.c = [n.c EXCEPT !.timer = FALSE, !.puts = n.c.puts + 1]
    <3>1. LET q == Complete(a, n)
          IN q \in Handled /\ q.ls = n.ls /\ q.p = n.p /\ q.c = [n.c EXCEPT !.timer = FALSE, !.puts = n.c.puts + 1]
      BY <2>5, <2>6, CompleteFailed
    <3> QED BY <2>3, <3>1
  <2>8. /\ f.c.stdio = s.c.stdio /\ f.c.stderr = s.c.stderr /\ f.c.registered = s.c.registered
        /\ f.c.tries = s.c.tries /\ f.c.reapTimer = s.c.reapTimer /\ f.c.signals = s.c.signals
        /\ ~f.c.timer /\ f.c.puts = s.c.puts + 1 /\ f.c.exception = n.c.exception
    BY <2>5, <2>6, <2>7, HandledIs DEF Connections
  <2>9. Listener("conn", a) \notin ToSet(n.ls)
    BY <2>1, <2>4, <2>5 DEF Consistent
  <2> QED BY <1>2, <2>1, <2>4, <2>5, <2>7, <2>8, <2>9 DEF f
<1> QED BY <1>1, <1>2

\* _on_streams_disconnected(): a pending attempt fails, and the child is looked after.
LEMMA BothGoneKeeps ==
  ASSUME NEW a \in Attempts, NEW s, Consistent(a, s), ~IsOpen(s.c), s.c.tries = 0
  PROVE  LET r == BothGone(a, s)
         IN /\ Consistent(a, r) /\ LookedAfter(a, r.c, r.p) /\ OthersStay(a, s.ls, r.ls)
            /\ r.c.stdio = s.c.stdio /\ r.c.stderr = s.c.stderr /\ r.c.registered = s.c.registered /\ ~r.c.timer
            /\ r.c.exception = IF s.c.timer /\ s.c.exception = "no" THEN "eof" ELSE s.c.exception
            /\ r.c.puts = IF s.c.timer THEN s.c.puts + 1 ELSE s.c.puts
<1> DEFINE f == IF s.c.timer THEN Complete(a, NoteException(a, [s EXCEPT !.c.timer = FALSE], "eof")) ELSE s
           r == BothGone(a, s)
<1>1. /\ f \in Handled /\ Distinct(f.ls) /\ f.p = s.p /\ OthersStay(a, s.ls, f.ls)
      /\ f.c.stdio = s.c.stdio /\ f.c.stderr = s.c.stderr /\ f.c.registered = s.c.registered
      /\ f.c.tries = 0 /\ f.c.reapTimer = s.c.reapTimer /\ f.c.signals = s.c.signals /\ ~f.c.timer
      /\ f.c.exception = IF s.c.timer /\ s.c.exception = "no" THEN "eof" ELSE s.c.exception
      /\ f.c.puts = IF s.c.timer THEN s.c.puts + 1 ELSE s.c.puts
      /\ Listener("conn", a) \notin ToSet(f.ls)
      /\ Listener("reap", a) \in ToSet(f.ls) <=> Listener("reap", a) \in ToSet(s.ls)
  BY LossNoted
<1>2. r = IF f.c.tries > 0 THEN f ELSE Reap(a, f)
  BY DEF BothGone
<1> HIDE DEF f
<1>3. r = Reap(a, f)
  BY <1>1, <1>2
<1>4. /\ ~f.c.reapTimer /\ f.c.tries \in 0..MaxTries /\ Kindly(a, f.c, TRUE)
      /\ Listener("reap", a) \in ToSet(f.ls) => f.c.tries > 0
  BY <1>1, BringupAssumption DEF Consistent, Kindly, Own, BringupAssumption
<1>5. LET q == Reap(a, f)
      IN /\ q \in Handled /\ Distinct(q.ls)
         /\ SameOutcome(q.c, f.c) /\ q.c.tries = f.c.tries + 1
         /\ Kindly(a, q.c, q.c.reapTimer) /\ (q.c.reapTimer => q.c.tries \in 1..MaxTries)
         /\ LookedAfter(a, q.c, q.p)
         /\ OthersStay(a, f.ls, q.ls)
         /\ Listener("conn", a) \in ToSet(q.ls) => Listener("conn", a) \in ToSet(f.ls)
  BY <1>1, <1>4, ReapKeeps
<1>6. /\ r \in Handled /\ Distinct(r.ls)
      /\ SameOutcome(r.c, f.c) /\ r.c.tries = 1
      /\ Kindly(a, r.c, r.c.reapTimer) /\ (r.c.reapTimer => r.c.tries \in 1..MaxTries)
      /\ LookedAfter(a, r.c, r.p)
      /\ OthersStay(a, f.ls, r.ls)
      /\ Listener("conn", a) \notin ToSet(r.ls)
  BY <1>1, <1>3, <1>5
<1> HIDE DEF r
<1>7. OthersStay(a, s.ls, r.ls)
  BY <1>1, <1>6, StaysTransitive
<1>8. ~IsOpen(r.c) /\ ~r.c.timer
  BY <1>1, <1>6 DEF IsOpen, SameOutcome
<1>9. r.c.registered => r.c.exception = "no" /\ ~r.c.timer /\ r.c.stdio # "none"
  BY <1>1, <1>6 DEF Consistent, SameOutcome
<1>10. Consistent(a, r)
  BY <1>6, <1>8, <1>9 DEF Consistent
<1> QED BY <1>1, <1>6, <1>7, <1>8, <1>10 DEF r, SameOutcome

\* on_disconnect() of stdio, and of stderr.
LEMMA StdioKeeps ==
  ASSUME NEW a \in Attempts, NEW s, Consistent(a, s)
  PROVE  LET r == StdioGone(a, s)
         IN Lost(a, s, r) /\ r.c.stdio # "open" /\ r.c.stderr = s.c.stderr
<1> DEFINE r == StdioGone(a, s)
           d == [s.c EXCEPT !.stdio = "closed"]
           t == [c |-> d, p |-> s.p, ls |-> s.ls]
<1>0. s \in Handled /\ s.c \in Connections /\ s.p \in Children /\ s.ls \in Seq(ListenerEntries) /\ Distinct(s.ls)
  BY HandledIs DEF Consistent
<1>o. OthersStay(a, s.ls, s.ls)
  BY DEF OthersStay
<1>1. CASE s.c.stdio # "open"
  <2>1. r = s
    BY <1>1 DEF StdioGone
  <2> HIDE DEF r
  <2>2. Lost(a, s, r)
    BY <1>o, <2>1 DEF Lost
  <2> QED BY <1>1, <2>1, <2>2 DEF r
<1>2. CASE s.c.stdio = "open"
  <2>1. /\ d \in Connections /\ d.stdio = "closed" /\ d.stderr = s.c.stderr /\ d.registered = s.c.registered
        /\ d.tries = s.c.tries /\ d.reapTimer = s.c.reapTimer /\ d.signals = s.c.signals
        /\ d.exception = s.c.exception /\ d.puts = s.c.puts /\ d.timer = s.c.timer
    BY <1>0 DEF Connections, PipeStates
  <2>2. [s EXCEPT !.c.stdio = "closed"] = t
    BY <1>0 DEF Handled
  <2>3. r = IF t.c.stderr # "open" THEN BothGone(a, t) ELSE t
    BY <1>2, <2>2 DEF StdioGone
  <2> HIDE DEF d
  <2>4. t \in Handled /\ t.c = d /\ t.p = s.p /\ t.ls = s.ls
    BY <1>0, <2>1 DEF Handled
  <2> HIDE DEF t, r
  <2>5. IsOpen(s.c) /\ s.c.tries = 0
    BY <1>0, <1>2 DEF Consistent, IsOpen, Kindly, Connections
  <2>6. Consistent(a, t)
    <3>1. Kindly(a, t.c, t.c.reapTimer) /\ (t.c.reapTimer => t.c.tries \in 1..MaxTries)
      BY <2>1, <2>4 DEF Consistent, Kindly, Own
    <3>2. t.c.exception = "eof" => ~IsOpen(t.c)
      BY <2>1, <2>4, <2>5 DEF Consistent
    <3>3. t.c.registered => t.c.exception = "no" /\ ~t.c.timer /\ t.c.stdio # "none"
      BY <2>1, <2>4 DEF Consistent
    <3>4. t.c.tries = 0
      BY <2>1, <2>4, <2>5
    <3> QED BY <1>0, <2>1, <2>4, <3>1, <3>2, <3>3, <3>4 DEF Consistent
  <2>7. CASE s.c.stderr = "open"
    <3>1. r = t
      BY <2>1, <2>3, <2>4, <2>7
    <3>2. IsOpen(r.c)
      BY <2>1, <2>4, <2>7, <3>1 DEF IsOpen
    <3>3. Lost(a, s, r)
      BY <1>o, <2>1, <2>4, <2>5, <2>6, <3>1, <3>2 DEF Lost
    <3> QED BY <2>1, <2>4, <3>1, <3>3 DEF r
  <2>8. CASE s.c.stderr # "open"
    <3>1. r = BothGone(a, t)
      BY <2>1, <2>3, <2>4, <2>8
    <3>2. ~IsOpen(t.c) /\ t.c.tries = 0
      BY <2>1, <2>4, <2>5, <2>8 DEF IsOpen
    <3>3. LET q == BothGone(a, t)
          IN /\ Consistent(a, q) /\ LookedAfter(a, q.c, q.p) /\ OthersStay(a, t.ls, q.ls)
             /\ q.c.stdio = t.c.stdio /\ q.c.stderr = t.c.stderr /\ q.c.registered = t.c.registered /\ ~q.c.timer
             /\ q.c.exception = IF t.c.timer /\ t.c.exception = "no" THEN "eof" ELSE t.c.exception
             /\ q.c.puts = IF t.c.timer THEN t.c.puts + 1 ELSE t.c.puts
      BY <2>6, <3>2, BothGoneKeeps
    <3>4. ~IsOpen(r.c)
      BY <3>1, <3>2, <3>3 DEF IsOpen
    <3>5. Lost(a, s, r)
      BY <2>1, <2>4, <2>5, <3>1, <3>3, <3>4 DEF Lost
    <3> QED BY <2>1, <2>4, <3>1, <3>3, <3>5 DEF r
  <2> QED BY <2>7, <2>8
<1> QED BY <1>1, <1>2

LEMMA StderrKeeps ==
  ASSUME NEW a \in Attempts, NEW s, Consistent(a, s)
  PROVE  LET r == StderrGone(a, s)
         IN Lost(a, s, r) /\ r.c.stderr # "open" /\ r.c.stdio = s.c.stdio
<1> DEFINE r == StderrGone(a, s)
           d == [s.c EXCEPT !.stderr = "closed"]
           t == [c |-> d, p |-> s.p, ls |-> s.ls]
<1>0. s \in Handled /\ s.c \in Connections /\ s.p \in Children /\ s.ls \in Seq(ListenerEntries) /\ Distinct(s.ls)
  BY HandledIs DEF Consistent
<1>o. OthersStay(a, s.ls, s.ls)
  BY DEF OthersStay
<1>1. CASE s.c.stderr # "open"
  <2>1. r = s
    BY <1>1 DEF StderrGone
  <2> HIDE DEF r
  <2>2. Lost(a, s, r)
    BY <1>o, <2>1 DEF Lost
  <2> QED BY <1>1, <2>1, <2>2 DEF r
<1>2. CASE s.c.stderr = "open"
  <2>1. /\ d \in Connections /\ d.stderr = "closed" /\ d.stdio = s.c.stdio /\ d.registered = s.c.registered
        /\ d.tries = s.c.tries /\ d.reapTimer = s.c.reapTimer /\ d.signals = s.c.signals
        /\ d.exception = s.c.exception /\ d.puts = s.c.puts /\ d.timer = s.c.timer
    BY <1>0 DEF Connections, PipeStates
  <2>2. [s EXCEPT !.c.stderr = "closed"] = t
    BY <1>0 DEF Handled
  <2>3. r = IF t.c.stdio # "open" THEN BothGone(a, t) ELSE t
    BY <1>2, <2>2 DEF StderrGone
  <2> HIDE DEF d
  <2>4. t \in Handled /\ t.c = d /\ t.p = s.p /\ t.ls = s.ls
    BY <1>0, <2>1 DEF Handled
  <2> HIDE DEF t, r
  <2>5. IsOpen(s.c) /\ s.c.tries = 0
    BY <1>0, <1>2 DEF Consistent, IsOpen, Kindly, Connections
  <2>6. Consistent(a, t)
    <3>1. Kindly(a, t.c, t.c.reapTimer) /\ (t.c.reapTimer => t.c.tries \in 1..MaxTries)
      BY <2>1, <2>4 DEF Consistent, Kindly, Own
    <3>2. t.c.exception = "eof" => ~IsOpen(t.c)
      BY <2>1, <2>4, <2>5 DEF Consistent
    <3>3. t.c.registered => t.c.exception = "no" /\ ~t.c.timer /\ t.c.stdio # "none"
      BY <2>1, <2>4 DEF Consistent
    <3>4. t.c.tries = 0
      BY <2>1, <2>4, <2>5
    <3> QED BY <1>0, <2>1, <2>4, <3>1, <3>2, <3>3, <3>4 DEF Consistent
  <2>7. CASE s.c.stdio = "open"
    <3>1. r = t
      BY <2>1, <2>3, <2>4, <2>7
    <3>2. IsOpen(r.c)
      BY <2>1, <2>4, <2>7, <3>1 DEF IsOpen
    <3>3. Lost(a, s, r)
      BY <1>o, <2>1, <2>4, <2>5, <2>6, <3>1, <3>2 DEF Lost
    <3> QED BY <2>1, <2>4, <3>1, <3>3 DEF r
  <2>8. CASE s.c.stdio # "open"
    <3>1. r = BothGone(a, t)
      BY <2>1, <2>3, <2>4, <2>8
    <3>2. ~IsOpen(t.c) /\ t.c.tries = 0
      BY <2>1, <2>4, <2>5, <2>8 DEF IsOpen
    <3>3. LET q == BothGone(a, t)
          IN /\ Consistent(a, q) /\ LookedAfter(a, q.c, q.p) /\ OthersStay(a, t.ls, q.ls)
             /\ q.c.stderr = t.c.stderr /\ q.c.stdio = t.c.stdio /\ q.c.registered = t.c.registered /\ ~q.c.timer
             /\ q.c.exception = IF t.c.timer /\ t.c.exception = "no" THEN "eof" ELSE t.c.exception
             /\ q.c.puts = IF t.c.timer THEN t.c.puts + 1 ELSE t.c.puts
      BY <2>6, <3>2, BothGoneKeeps
    <3>4. ~IsOpen(r.c)
      BY <3>1, <3>2, <3>3 DEF IsOpen
    <3>5. Lost(a, s, r)
      BY <2>1, <2>4, <2>5, <3>1, <3>3, <3>4 DEF Lost
    <3> QED BY <2>1, <2>4, <3>1, <3>3, <3>5 DEF r
  <2> QED BY <2>7, <2>8
<1> QED BY <1>1, <1>2

\* Both, one after the other.
LEMMA LostTwice ==
  ASSUME NEW a \in Attempts, NEW s, NEW r, NEW q, Consistent(a, s), Lost(a, s, r), Lost(a, r, q)
  PROVE  Lost(a, s, q)
<1>1. OthersStay(a, s.ls, q.ls)
  BY StaysTransitive DEF Lost
<1>2. s.c \in Connections /\ r.c \in Connections
  BY HandledIs DEF Consistent, Lost
<1>3. CASE IsOpen(s.c) /\ IsOpen(r.c) /\ IsOpen(q.c)
  BY <1>1, <1>3 DEF Lost
<1>4. CASE IsOpen(s.c) /\ IsOpen(r.c) /\ ~IsOpen(q.c)
  BY <1>1, <1>4 DEF Lost
<1>5. CASE IsOpen(s.c) /\ ~IsOpen(r.c)
  BY <1>1, <1>5 DEF Lost
<1>6. CASE ~IsOpen(s.c)
  BY <1>1, <1>6 DEF Lost
<1> QED BY <1>3, <1>4, <1>5, <1>6

LEMMA BothKeep ==
  ASSUME NEW a \in Attempts, NEW s, Consistent(a, s)
  PROVE  LET q == StderrGone(a, StdioGone(a, s)) IN Lost(a, s, q) /\ ~IsOpen(q.c)
<1> DEFINE r == StdioGone(a, s)
           q == StderrGone(a, r)
<1>1. Lost(a, s, r) /\ r.c.stdio # "open"
  BY StdioKeeps
<1>2. Consistent(a, r)
  BY <1>1 DEF Lost
<1> HIDE DEF r
<1>3. Lost(a, r, q) /\ q.c.stderr # "open" /\ q.c.stdio = r.c.stdio
  BY <1>2, StderrKeeps
<1> HIDE DEF q
<1>4. Lost(a, s, q)
  BY <1>1, <1>3, LostTwice
<1> QED BY <1>1, <1>3, <1>4 DEF q, r, IsOpen

\* A stream lost leaves an attempt settled.
LEMMA LostSettled ==
  ASSUME NEW a \in Attempts, NEW s, NEW r, Settled(a, s), Lost(a, s, r)
  PROVE  Settled(a, r)
<1>1. s.c \in Connections /\ r.c \in Connections /\ Consistent(a, s) /\ Consistent(a, r)
  BY HandledIs DEF Consistent, Lost, Settled
<1>2. CASE IsOpen(s.c) /\ IsOpen(r.c)
  BY <1>1, <1>2 DEF Lost, Settled
<1>3. CASE ~IsOpen(s.c)
  BY <1>1, <1>3 DEF Lost, Settled
<1>4. CASE IsOpen(s.c) /\ ~IsOpen(r.c)
  <2>1. r.c.puts > 0 <=> r.c.registered \/ r.c.exception # "no"
    <3>1. s.c.puts \in Nat /\ (s.c.puts > 0 <=> s.c.registered \/ s.c.exception # "no") /\ (s.c.timer => s.c.exception = "no")
      BY <1>1 DEF Settled, Connections
    <3>2. /\ r.c.exception = IF s.c.timer /\ s.c.exception = "no" THEN "eof" ELSE s.c.exception
          /\ r.c.puts = IF s.c.timer THEN s.c.puts + 1 ELSE s.c.puts
          /\ r.c.registered = s.c.registered
      BY <1>4 DEF Lost
    <3> QED BY <3>1, <3>2
  <2> QED BY <1>1, <1>4, <2>1 DEF Lost, Settled
<1> QED BY <1>2, <1>3, <1>4

\* _fail_connection(), of an attempt that was not registered.
LEMMA FailSettles ==
  ASSUME NEW a \in Attempts, NEW s \in Handled, Distinct(s.ls), s.c.tries = 0, ~s.c.reapTimer, ~s.c.registered,
         s.c.signals = <<>>, s.c.exception = "no", Listener("reap", a) \notin ToSet(s.ls),
         IsOpen(s.c) \/ s.p \notin {"runs", "exited"}, NEW e \in Exceptions \ {"no", "eof"}
  PROVE  LET r == Fail(a, s, e)
         IN Settled(a, r) /\ r.c.exception = e /\ ~r.c.timer /\ ~r.c.registered /\ OthersStay(a, s.ls, r.ls)
<1> DEFINE n == NoteException(a, s, e)
           q == StderrGone(a, StdioGone(a, n))
           r == Fail(a, s, e)
<1>0. s.c \in Connections /\ s.p \in Children /\ s.ls \in Seq(ListenerEntries)
  BY HandledIs
<1>1. /\ n \in Handled /\ Distinct(n.ls) /\ n.p = s.p /\ OthersStay(a, s.ls, n.ls)
      /\ n.c.exception = e /\ n.c = [s.c EXCEPT !.exception = e]
      /\ Listener("conn", a) \notin ToSet(n.ls) /\ Listener("reap", a) \notin ToSet(n.ls)
  <2>1. e \in Exceptions \ {"no"}
    OBVIOUS
  <2> HIDE DEF n
  <2>2. LET m == NoteException(a, s, e)
        IN /\ m \in Handled /\ Distinct(m.ls) /\ m.p = s.p /\ OthersStay(a, s.ls, m.ls)
           /\ m.c.exception = IF s.c.exception = "no" THEN e ELSE s.c.exception
           /\ m.c = [s.c EXCEPT !.exception = m.c.exception]
           /\ Listener("conn", a) \in ToSet(m.ls) => s.c.exception # "no" /\ Listener("conn", a) \in ToSet(s.ls)
           /\ Listener("reap", a) \in ToSet(m.ls) <=> Listener("reap", a) \in ToSet(s.ls)
    BY <2>1, NoteKeeps
  <2> QED BY <2>2 DEF n
<1>2. r = Complete(a, q)
  BY DEF Fail
<1> HIDE DEF n
<1>3. /\ n.c.tries = 0 /\ ~n.c.reapTimer /\ ~n.c.registered /\ n.c.signals = <<>>
      /\ n.c.stdio = s.c.stdio /\ n.c.stderr = s.c.stderr /\ n.c.timer = s.c.timer /\ n.c.puts = s.c.puts
  BY <1>0, <1>1 DEF Connections
<1>4. Consistent(a, n)
  <2>1. Kindly(a, n.c, n.c.reapTimer)
    BY <1>3, BringupAssumption DEF Kindly, BringupAssumption
  <2>2. e # "eof" /\ e # "no"
    OBVIOUS
  <2> QED BY <1>1, <1>3, <2>1, <2>2 DEF Consistent
<1>5. Lost(a, n, q) /\ ~IsOpen(q.c)
  BY <1>4, BothKeep
<1> HIDE DEF q
<1>6. /\ Consistent(a, q) /\ OthersStay(a, n.ls, q.ls) /\ ~q.c.registered /\ q.c.exception = e
      /\ LookedAfter(a, q.c, q.p)
  <2>1. CASE IsOpen(n.c)
    BY <1>1, <1>3, <1>5, <2>1 DEF Lost
  <2>2. CASE ~IsOpen(n.c)
    <3>1. q = n
      BY <1>5, <2>2 DEF Lost
    <3>2. n.p \notin {"runs", "exited"}
      BY <1>1, <1>3, <2>2 DEF IsOpen
    <3> QED BY <1>1, <1>3, <1>5, <3>1, <3>2 DEF Lost, LookedAfter
  <2> QED BY <2>1, <2>2
<1>7. q \in Handled /\ q.c \in Connections /\ Distinct(q.ls)
  BY <1>6, HandledIs DEF Consistent
<1>8. r \in Handled /\ r.ls = q.ls /\ r.p = q.p /\ r.c = [q.c EXCEPT !.timer = FALSE, !.puts = q.c.puts + 1]
  <2>1. LET m == Complete(a, q)
        IN m \in Handled /\ m.ls = q.ls /\ m.p = q.p /\ m.c = [q.c EXCEPT !.timer = FALSE, !.puts = q.c.puts + 1]
    BY <1>6, <1>7, CompleteFailed
  <2> HIDE DEF r
  <2> QED BY <1>2, <2>1
<1> HIDE DEF r
<1>9. /\ r.c.stdio = q.c.stdio /\ r.c.stderr = q.c.stderr /\ r.c.registered = q.c.registered
      /\ r.c.tries = q.c.tries /\ r.c.reapTimer = q.c.reapTimer /\ r.c.signals = q.c.signals
      /\ r.c.exception = e /\ ~r.c.timer /\ r.c.puts = q.c.puts + 1 /\ q.c.puts \in Nat
  BY <1>6, <1>7, <1>8 DEF Connections
<1>10. ~IsOpen(r.c) /\ LookedAfter(a, r.c, r.p)
  BY <1>5, <1>6, <1>8, <1>9 DEF IsOpen, LookedAfter, Own
<1>11. Consistent(a, r)
  <2>1. Kindly(a, r.c, r.c.reapTimer) /\ (r.c.reapTimer => r.c.tries \in 1..MaxTries)
    BY <1>6, <1>9 DEF Consistent, Kindly, Own
  <2>2. Listener("conn", a) \notin ToSet(r.ls)
    BY <1>6, <1>8 DEF Consistent
  <2>3. Listener("reap", a) \in ToSet(r.ls) => r.c.tries > 0
    BY <1>6, <1>8, <1>9 DEF Consistent
  <2> QED BY <1>6, <1>7, <1>8, <1>9, <1>10, <2>1, <2>2, <2>3 DEF Consistent
<1>12. Settled(a, r)
  <2>1. r.c.puts > 0 /\ r.c.exception # "no"
    BY <1>9
  <2> QED BY <1>9, <1>10, <1>11, <2>1 DEF Settled
<1>13. OthersStay(a, s.ls, r.ls)
  BY <1>1, <1>6, <1>8, StaysTransitive
<1> QED BY <1>6, <1>9, <1>12, <1>13 DEF r

\* _complete_connection() of an attempt whose child has booted.
LEMMA CompleteSettles ==
  ASSUME NEW a \in Attempts, NEW s, Settled(a, s), s.c.timer, s.c.stdio = "open"
  PROVE  LET r == Complete(a, s)
         IN Settled(a, r) /\ r.c.registered /\ ~r.c.timer /\ OthersStay(a, s.ls, r.ls)
<1> DEFINE r == Complete(a, s)
           g == [s.c EXCEPT !.timer = FALSE]
           h == [g EXCEPT !.puts = s.c.puts + 1]
           d == [h EXCEPT !.registered = TRUE]
           m == Unlisten(s.ls, Listener("conn", a))
<1>0. /\ s \in Handled /\ s.c \in Connections /\ s.p \in Children /\ s.ls \in Seq(ListenerEntries) /\ Distinct(s.ls)
      /\ Consistent(a, s) /\ s.c.exception = "no"
  BY HandledIs DEF Consistent, Settled
<1>1. /\ g \in Connections /\ ~g.timer /\ g.stdio = s.c.stdio /\ g.stderr = s.c.stderr
      /\ g.tries = s.c.tries /\ g.reapTimer = s.c.reapTimer /\ g.signals = s.c.signals
      /\ g.exception = s.c.exception
  BY <1>0 DEF Connections
<1>2. r = [s EXCEPT !.c = d, !.ls = m]
  <2>1. [s.c EXCEPT !.timer = FALSE, !.puts = @ + 1, !.registered = (s.c.exception = "no") \/ @] = d
    <3>1. ((s.c.exception = "no") \/ s.c.registered) = TRUE
      BY <1>0
    <3>2. [s.c EXCEPT !.timer = FALSE, !.puts = @ + 1, !.registered = (s.c.exception = "no") \/ @]
           = [h EXCEPT !.registered = (s.c.exception = "no") \/ s.c.registered]
      OBVIOUS
    <3> HIDE DEF h
    <3> QED BY <3>1, <3>2
  <2>2. r = [s EXCEPT !.c = [s.c EXCEPT !.timer = FALSE, !.puts = @ + 1, !.registered = (s.c.exception = "no") \/ @],
                      !.ls = m]
    BY <1>0 DEF Complete
  <2> HIDE DEF d, m, r
  <2> QED BY <2>1, <2>2
<1> HIDE DEF g
<1>3. /\ h \in Connections /\ h.puts = s.c.puts + 1 /\ s.c.puts \in Nat /\ ~h.timer /\ h.stdio = s.c.stdio /\ h.stderr = s.c.stderr
      /\ h.tries = s.c.tries /\ h.reapTimer = s.c.reapTimer /\ h.signals = s.c.signals /\ h.exception = s.c.exception
  BY <1>0, <1>1 DEF Connections
<1> HIDE DEF h
<1>4. /\ d \in Connections /\ d.puts = s.c.puts + 1 /\ ~d.timer /\ d.stdio = s.c.stdio /\ d.stderr = s.c.stderr
      /\ d.tries = s.c.tries /\ d.reapTimer = s.c.reapTimer /\ d.signals = s.c.signals /\ d.exception = s.c.exception
      /\ d.registered
  BY <1>3 DEF Connections
<1>5. /\ m \in Seq(ListenerEntries) /\ Distinct(m) /\ OthersStay(a, s.ls, m) /\ Listener("conn", a) \notin ToSet(m)
      /\ Listener("reap", a) \in ToSet(m) <=> Listener("reap", a) \in ToSet(s.ls)
  BY <1>0, UnlistenStays
<1> HIDE DEF d, m, r
<1>6. r = [c |-> d, p |-> s.p, ls |-> m]
  BY <1>0, <1>2, WithList
<1>7. r \in Handled /\ r.c = d /\ r.p = s.p /\ r.ls = m
  BY <1>0, <1>4, <1>5, <1>6 DEF Handled
<1>8. s.c.tries = 0 /\ ~s.c.reapTimer /\ s.c.signals = <<>>
  BY <1>0, BringupAssumption DEF Consistent, Kindly, IsOpen, Connections, BringupAssumption
<1>9. Kindly(a, r.c, r.c.reapTimer)
  BY <1>4, <1>7, <1>8, BringupAssumption DEF Kindly, BringupAssumption
<1>10. IsOpen(r.c)
  BY <1>4, <1>7 DEF IsOpen
<1>11. Consistent(a, r)
  BY <1>0, <1>4, <1>5, <1>7, <1>8, <1>9, <1>10 DEF Consistent
<1>12. Settled(a, r)
  <2>1. r.c.puts > 0 /\ r.c.registered /\ ~r.c.timer
    BY <1>3, <1>4, <1>7
  <2> QED BY <1>10, <1>11, <2>1 DEF Settled
<1> QED BY <1>4, <1>5, <1>7, <1>12 DEF r

\* A try of the Reaper leaves an attempt settled.
LEMMA TrySettles ==
  ASSUME NEW a \in Attempts, NEW s, Settled(a, s), s.c.reapTimer
  PROVE  LET r == Reap(a, [s EXCEPT !.c.reapTimer = FALSE])
         IN Settled(a, r) /\ OthersStay(a, s.ls, r.ls) /\ SameOutcome(r.c, s.c)
<1> DEFINE d == [s.c EXCEPT !.reapTimer = FALSE]
           t == [c |-> d, p |-> s.p, ls |-> s.ls]
           r == Reap(a, t)
<1>0. /\ s \in Handled /\ s.c \in Connections /\ s.p \in Children /\ s.ls \in Seq(ListenerEntries) /\ Distinct(s.ls)
      /\ Consistent(a, s)
  BY HandledIs DEF Consistent, Settled
<1>1. [s EXCEPT !.c.reapTimer = FALSE] = t
  BY <1>0, WithReapTimer
<1>2. /\ d \in Connections /\ ~d.reapTimer /\ SameOutcome(d, s.c) /\ d.tries = s.c.tries /\ d.signals = s.c.signals
  BY <1>0 DEF Connections, SameOutcome
<1> HIDE DEF d
<1>3. t \in Handled /\ t.c = d /\ t.p = s.p /\ t.ls = s.ls
  BY <1>0, <1>2 DEF Handled
<1> HIDE DEF t
<1>4. /\ t.c.tries \in 0..MaxTries /\ t.c.tries > 0 /\ Kindly(a, t.c, TRUE) /\ ~t.c.reapTimer
  BY <1>0, <1>2, <1>3, BringupAssumption DEF Consistent, Kindly, Own, SameOutcome, BringupAssumption
<1>5. /\ r \in Handled /\ Distinct(r.ls)
      /\ SameOutcome(r.c, t.c) /\ r.c.tries = t.c.tries + 1
      /\ Kindly(a, r.c, r.c.reapTimer) /\ (r.c.reapTimer => r.c.tries \in 1..MaxTries)
      /\ LookedAfter(a, r.c, r.p)
      /\ OthersStay(a, t.ls, r.ls)
      /\ Listener("conn", a) \in ToSet(r.ls) => Listener("conn", a) \in ToSet(t.ls)
  <2>1. Distinct(t.ls)
    BY <1>0, <1>3
  <2>2. LET q == Reap(a, t)
        IN /\ q \in Handled /\ Distinct(q.ls)
           /\ SameOutcome(q.c, t.c) /\ q.c.tries = t.c.tries + 1
           /\ Kindly(a, q.c, q.c.reapTimer) /\ (q.c.reapTimer => q.c.tries \in 1..MaxTries)
           /\ LookedAfter(a, q.c, q.p)
           /\ OthersStay(a, t.ls, q.ls)
           /\ Listener("conn", a) \in ToSet(q.ls) => Listener("conn", a) \in ToSet(t.ls)
    BY <1>3, <1>4, <2>1, ReapKeeps
  <2> QED BY <2>2
<1> HIDE DEF r
<1>6. SameOutcome(r.c, s.c) /\ r.c.tries > 0
  BY <1>2, <1>3, <1>4, <1>5 DEF SameOutcome
<1>7. ~IsOpen(s.c) /\ ~s.c.timer /\ ~IsOpen(r.c) /\ ~r.c.timer
  BY <1>0, <1>2, <1>3, <1>4, <1>6 DEF Consistent, IsOpen, SameOutcome
<1>8. Listener("conn", a) \notin ToSet(r.ls)
  BY <1>0, <1>3, <1>5, <1>7 DEF Consistent
<1>9. Consistent(a, r)
  <2>1. r.c.registered => r.c.exception = "no" /\ ~r.c.timer /\ r.c.stdio # "none"
    BY <1>0, <1>6 DEF Consistent, SameOutcome
  <2> QED BY <1>5, <1>6, <1>7, <1>8, <2>1 DEF Consistent
<1>10. Settled(a, r)
  <2>1. r.c.puts > 0 <=> r.c.registered \/ r.c.exception # "no"
    BY <1>6 DEF Settled, SameOutcome
  <2> QED BY <1>5, <1>7, <1>9, <2>1 DEF Settled
<1> QED BY <1>1, <1>3, <1>5, <1>6, <1>10 DEF r

\* An attempt that is pending fails.
LEMMA PendingFails ==
  ASSUME NEW a \in Attempts, NEW s, Settled(a, s), s.c.timer, NEW e \in Exceptions \ {"no", "eof"}, NEW x \in BOOLEAN
  PROVE  LET r == Fail(a, [s EXCEPT !.c.timer = x], e)
         IN Settled(a, r) /\ r.c.exception = e /\ ~r.c.timer /\ ~r.c.registered /\ OthersStay(a, s.ls, r.ls)
<1> DEFINE d == [s.c EXCEPT !.timer = x]
           t == [c |-> d, p |-> s.p, ls |-> s.ls]
<1>0. /\ s \in Handled /\ s.c \in Connections /\ s.p \in Children /\ s.ls \in Seq(ListenerEntries) /\ Distinct(s.ls)
      /\ Consistent(a, s)
  BY HandledIs DEF Consistent, Settled
<1>1. [s EXCEPT !.c.timer = x] = t
  BY <1>0, WithTimer
<1>2. s.c.tries = 0 /\ ~s.c.reapTimer /\ ~s.c.registered /\ s.c.signals = <<>> /\ s.c.exception = "no" /\ IsOpen(s.c)
  BY <1>0, BringupAssumption DEF Consistent, Settled, Kindly, Connections, BringupAssumption
<1>3. /\ d \in Connections /\ d.stdio = s.c.stdio /\ d.stderr = s.c.stderr /\ d.tries = s.c.tries
      /\ d.reapTimer = s.c.reapTimer /\ d.signals = s.c.signals /\ d.exception = s.c.exception
      /\ d.registered = s.c.registered
  BY <1>0 DEF Connections
<1> HIDE DEF d
<1>4. t \in Handled /\ t.c = d /\ t.p = s.p /\ t.ls = s.ls
  BY <1>0, <1>3 DEF Handled
<1> HIDE DEF t
<1>5. Listener("reap", a) \notin ToSet(t.ls) /\ IsOpen(t.c) /\ Distinct(t.ls)
  BY <1>0, <1>2, <1>3, <1>4 DEF Consistent, IsOpen
<1>6. /\ t.c.tries = 0 /\ ~t.c.reapTimer /\ ~t.c.registered /\ t.c.signals = <<>> /\ t.c.exception = "no"
  BY <1>2, <1>3, <1>4
<1>7. LET r == Fail(a, t, e)
      IN Settled(a, r) /\ r.c.exception = e /\ ~r.c.timer /\ ~r.c.registered /\ OthersStay(a, t.ls, r.ls)
  BY <1>4, <1>5, <1>6, FailSettles
<1> QED BY <1>1, <1>4, <1>7

LEMMA TimerStays ==
  ASSUME NEW s \in Handled, s.c.timer
  PROVE  [s EXCEPT !.c.timer = TRUE] = s
<1>1. s.c \in Connections /\ s = [c |-> s.c, p |-> s.p, ls |-> s.ls]
  BY HandledIs
<1>2. [s.c EXCEPT !.timer = TRUE] = s.c
  BY <1>1 DEF Connections
<1> QED BY <1>1, <1>2, WithTimer

\* The shutdown of the broker takes the timer of the Reaper of a detached child.
LEMMA LeftAlone ==
  ASSUME NEW a \in Attempts, NEW s, Settled(a, s), Own(a, s.c)
  PROVE  LET r == [s EXCEPT !.c.reapTimer = FALSE]
         IN Settled(a, r) /\ r.ls = s.ls /\ r.p = s.p /\ r.c = [s.c EXCEPT !.reapTimer = FALSE] /\ SameOutcome(r.c, s.c)
<1> DEFINE d == [s.c EXCEPT !.reapTimer = FALSE]
           r == [s EXCEPT !.c.reapTimer = FALSE]
<1>0. /\ s \in Handled /\ s.c \in Connections /\ s.p \in Children /\ s.ls \in Seq(ListenerEntries) /\ Distinct(s.ls)
      /\ Consistent(a, s)
  BY HandledIs DEF Consistent, Settled
<1>1. r = [c |-> d, p |-> s.p, ls |-> s.ls]
  BY <1>0, WithReapTimer
<1>2. /\ d \in Connections /\ ~d.reapTimer /\ SameOutcome(d, s.c) /\ d.tries = s.c.tries /\ d.signals = s.c.signals
  BY <1>0 DEF Connections, SameOutcome
<1> HIDE DEF d, r
<1>3. r \in Handled /\ r.c = d /\ r.p = s.p /\ r.ls = s.ls
  BY <1>0, <1>1, <1>2 DEF Handled
<1>4. SameOutcome(r.c, s.c) /\ r.c.tries = s.c.tries /\ r.c.signals = s.c.signals /\ ~r.c.reapTimer
  BY <1>2, <1>3
<1>5. Kindly(a, r.c, r.c.reapTimer)
  BY <1>0, <1>4 DEF Consistent, Kindly, Own, SameOutcome
<1>6. LookedAfter(a, r.c, r.p) /\ (IsOpen(r.c) <=> IsOpen(s.c))
  BY <1>4 DEF LookedAfter, Own, SameOutcome, IsOpen
<1>7. Consistent(a, r)
  BY <1>0, <1>3, <1>4, <1>5, <1>6 DEF Consistent, SameOutcome
<1>8. Settled(a, r)
  BY <1>3, <1>4, <1>6, <1>7 DEF Settled, SameOutcome
<1> QED BY <1>3, <1>4, <1>8 DEF r, d

\* _async_connect() in its two ways.
LEMMA StartSettles ==
  ASSUME NEW a \in Attempts, NEW s, Settled(a, s), s.c = Unstarted
  PROVE  LET t == [s EXCEPT !.c = [s.c EXCEPT !.timer = TRUE], !.ls = Append(@, Listener("conn", a))]
             f == Fail(a, t, "start")
             u == [t EXCEPT !.c = [t.c EXCEPT !.stdio = "open", !.stderr = IF a \in HasStderr THEN "open" ELSE "none"],
                            !.p = "runs"]
         IN /\ Settled(a, f) /\ OthersStay(a, s.ls, f.ls) /\ ~f.c.timer
            /\ Settled(a, u) /\ OthersStay(a, s.ls, u.ls)
<1> DEFINE d == [s.c EXCEPT !.timer = TRUE]
           m == Append(s.ls, Listener("conn", a))
           t == [s EXCEPT !.c = [s.c EXCEPT !.timer = TRUE], !.ls = Append(@, Listener("conn", a))]
           f == Fail(a, t, "start")
           g == [d EXCEPT !.stdio = "open"]
           h == [g EXCEPT !.stderr = IF a \in HasStderr THEN "open" ELSE "none"]
           u == [t EXCEPT !.c = [t.c EXCEPT !.stdio = "open", !.stderr = IF a \in HasStderr THEN "open" ELSE "none"],
                            !.p = "runs"]
<1>0. /\ s \in Handled /\ s.c \in Connections /\ s.p \in Children /\ s.ls \in Seq(ListenerEntries) /\ Distinct(s.ls)
      /\ Consistent(a, s)
  BY HandledIs DEF Consistent, Settled
<1>1. /\ s.c.stdio = "none" /\ s.c.stderr = "none" /\ ~s.c.timer /\ s.c.exception = "no" /\ s.c.puts = 0
      /\ ~s.c.registered /\ s.c.tries = 0 /\ ~s.c.reapTimer /\ s.c.signals = <<>>
  BY DEF Unstarted
<1>2. s.p \notin {"runs", "exited"}
  BY <1>1, BringupAssumption DEF Settled, IsOpen, LookedAfter, Own, BringupAssumption
<1>3. Listener("conn", a) \notin ToSet(s.ls) /\ Listener("reap", a) \notin ToSet(s.ls)
  BY <1>0, <1>1 DEF Consistent
<1>e. /\ Listener("conn", a) \in ListenerEntries /\ Listener("conn", a)[2] = a /\ Listener("conn", a) # Listener("reap", a)
  BY EntryFields
<1>4. /\ m \in Seq(ListenerEntries) /\ Distinct(m)
      /\ \A e : e \in ToSet(m) <=> e \in ToSet(s.ls) \/ e = Listener("conn", a)
  BY <1>0, <1>3, <1>e, Listened
<1>5. d = [Unstarted EXCEPT !.timer = TRUE]
  OBVIOUS
<1>6. /\ d \in Connections /\ d.stdio = "none" /\ d.stderr = "none" /\ d.timer /\ d.exception = "no" /\ d.puts = 0
      /\ ~d.registered /\ d.tries = 0 /\ ~d.reapTimer /\ d.signals = <<>>
  BY <1>0, <1>1 DEF Connections
<1>7. t = [s EXCEPT !.c = d, !.ls = m]
  OBVIOUS
<1> HIDE DEF d, m
<1>8. t = [c |-> d, p |-> s.p, ls |-> m]
  BY <1>0, <1>7, WithList
<1> HIDE DEF t, u
<1>9. t \in Handled /\ t.c = d /\ t.p = s.p /\ t.ls = m
  BY <1>0, <1>4, <1>6, <1>8 DEF Handled
<1>10. OthersStay(a, s.ls, t.ls) /\ Listener("reap", a) \notin ToSet(t.ls) /\ Listener("conn", a) \in ToSet(t.ls)
  BY <1>3, <1>4, <1>9, <1>e DEF OthersStay
<1>11. Settled(a, f) /\ OthersStay(a, t.ls, f.ls) /\ ~f.c.timer
  <2>1. "start" \in Exceptions \ {"no", "eof"} /\ Distinct(t.ls) /\ t.p \notin {"runs", "exited"}
    BY <1>2, <1>4, <1>9 DEF Exceptions
  <2>2. t.c.tries = 0 /\ ~t.c.reapTimer /\ ~t.c.registered /\ t.c.signals = <<>> /\ t.c.exception = "no"
    BY <1>6, <1>9
  <2>3. LET r == Fail(a, t, "start")
        IN Settled(a, r) /\ r.c.exception = "start" /\ ~r.c.timer /\ ~r.c.registered /\ OthersStay(a, t.ls, r.ls)
    BY <1>9, <1>10, <2>1, <2>2, FailSettles
  <2> QED BY <2>3
<1> HIDE DEF f
<1>12. OthersStay(a, s.ls, f.ls)
  BY <1>10, <1>11, StaysTransitive
<1>13. /\ g \in Connections /\ g.stdio = "open" /\ g.timer /\ g.exception = "no" /\ g.puts = 0
       /\ ~g.registered /\ g.tries = 0 /\ ~g.reapTimer /\ g.signals = <<>>
  BY <1>6 DEF Connections, PipeStates
<1>14. u = [t EXCEPT !.c = h, !.p = "runs"]
  BY <1>9 DEF u
<1> HIDE DEF g
<1>15. /\ h \in Connections /\ h.stdio = "open" /\ h.timer /\ h.exception = "no" /\ h.puts = 0
       /\ ~h.registered /\ h.tries = 0 /\ ~h.reapTimer /\ h.signals = <<>>
  BY <1>13 DEF Connections, PipeStates
<1> HIDE DEF h
<1>16. u = [c |-> h, p |-> "runs", ls |-> t.ls]
  BY <1>9, <1>14, WithChild
<1>17. u \in Handled /\ u.c = h /\ u.ls = m
  BY <1>4, <1>9, <1>15, <1>16 DEF Handled, Children
<1>18. IsOpen(u.c)
  BY <1>15, <1>17 DEF IsOpen
<1>19. Consistent(a, u)
  <2>1. Kindly(a, u.c, u.c.reapTimer)
    BY <1>15, <1>17, BringupAssumption DEF Kindly, BringupAssumption
  <2> QED BY <1>4, <1>9, <1>10, <1>15, <1>17, <2>1 DEF Consistent
<1>20. Settled(a, u)
  <2>1. u.c.timer /\ u.c.puts = 0 /\ ~u.c.registered /\ u.c.exception = "no" /\ Listener("conn", a) \in ToSet(u.ls)
    BY <1>9, <1>10, <1>15, <1>17
  <2> QED BY <1>18, <1>19, <2>1 DEF Settled
<1>21. OthersStay(a, s.ls, u.ls)
  BY <1>9, <1>10, <1>17
<1> QED BY <1>11, <1>12, <1>20, <1>21 DEF f, u, t

\* What happens to one attempt leaves the others settled.
LEMMA OtherSettled ==
  ASSUME NEW a \in Attempts, NEW b \in Attempts, a # b, NEW s, Settled(b, s),
         NEW ms \in Seq(ListenerEntries), Distinct(ms), OthersStay(a, s.ls, ms)
  PROVE  Settled(b, [c |-> s.c, p |-> s.p, ls |-> ms])
<1> DEFINE r == [c |-> s.c, p |-> s.p, ls |-> ms]
<1>0. /\ s \in Handled /\ s.c \in Connections /\ s.p \in Children /\ Consistent(b, s)
  BY HandledIs DEF Consistent, Settled
<1>1. r \in Handled /\ r.c = s.c /\ r.p = s.p /\ r.ls = ms
  BY <1>0 DEF Handled
<1>2. \A k \in {"conn", "reap"} : Listener(k, b) \in ToSet(ms) <=> Listener(k, b) \in ToSet(s.ls)
  BY EntryFields DEF OthersStay
<1> HIDE DEF r
<1>3. Consistent(b, r)
  BY <1>0, <1>1, <1>2 DEF Consistent
<1>4. Settled(b, r)
  BY <1>1, <1>2, <1>3 DEF Settled
<1> QED BY <1>4 DEF r

\* What the invariant says of one attempt.
LEMMA StateIs ==
  ASSUME BringupInv, NEW a \in Attempts
  PROVE  /\ Settled(a, State(a)) /\ State(a) \in Handled
         /\ State(a).c = conn[a] /\ State(a).p = child[a] /\ State(a).ls = listeners
         /\ conn[a] \in Connections /\ listeners \in Seq(ListenerEntries) /\ Distinct(listeners)
         /\ (conn[a].timer => conn[a].exception = "no") /\ (conn[a].registered => conn[a].exception = "no" /\ ~conn[a].timer)
<1>1. Settled(a, State(a))
  BY DEF BringupInv
<1>2. State(a) \in Handled /\ State(a).c = conn[a] /\ State(a).p = child[a] /\ State(a).ls = listeners
  BY <1>1 DEF State, Settled, Consistent
<1>3. State(a).c \in Connections /\ State(a).ls \in Seq(ListenerEntries)
  BY <1>2, HandledIs
<1> QED BY <1>1, <1>2, <1>3 DEF Settled, Consistent

\* What all attempts keep when one of them moves on to s.
Forward(a, s) ==
  /\ conn[a].registered => s.c.registered
  /\ conn[a].exception # "no" => s.c.exception # "no"
\* An attempt that is settled again leaves the others as they were.
LEMMA Becoming ==
  ASSUME BringupInv, NEW a \in Attempts, NEW s, Settled(a, s), OthersStay(a, listeners, s.ls), Becomes(a, s), Forward(a, s)
  PROVE  /\ conn' \in [Attempts -> Connections] /\ child' \in [Attempts -> Children]
         /\ \A b \in Attempts : Settled(b, State(b))'
         /\ \A b \in Attempts : /\ conn[b].registered => conn'[b].registered
                                /\ conn[b].exception # "no" => conn'[b].exception # "no"
                                /\ b # a => conn'[b] = conn[b]
         /\ conn'[a] = s.c
<1>0. s \in Handled /\ s.c \in Connections /\ s.p \in Children /\ s.ls \in Seq(ListenerEntries) /\ Distinct(s.ls)
  BY HandledIs DEF Consistent, Settled
<1>1. conn \in [Attempts -> Connections] /\ child \in [Attempts -> Children]
  BY DEF BringupInv
<1>2. /\ conn' = [conn EXCEPT ![a] = s.c] /\ child' = [child EXCEPT ![a] = s.p] /\ listeners' = s.ls
  BY DEF Becomes
<1>3. conn' \in [Attempts -> Connections] /\ child' \in [Attempts -> Children]
  BY <1>0, <1>1, <1>2
<1>4. conn'[a] = s.c /\ child'[a] = s.p /\ \A b \in Attempts : b # a => conn'[b] = conn[b] /\ child'[b] = child[b]
  BY <1>1, <1>2
<1>5. ASSUME NEW b \in Attempts PROVE Settled(b, [c |-> conn'[b], p |-> child'[b], ls |-> listeners'])
  <2>1. CASE b = a
    BY <1>0, <1>2, <1>4, <2>1, HandledIs
  <2>2. CASE b # a
    <3>1. Settled(b, [c |-> State(b).c, p |-> State(b).p, ls |-> s.ls])
      BY <1>0, <2>2, StateIs, OtherSettled
    <3> QED BY <1>2, <1>4, <2>2, <3>1, StateIs
  <2> QED BY <2>1, <2>2
<1>6. \A b \in Attempts : Settled(b, State(b))'
  BY <1>5 DEF State
<1>7. ASSUME NEW b \in Attempts
      PROVE  (conn[b].registered => conn'[b].registered) /\ (conn[b].exception # "no" => conn'[b].exception # "no")
  BY <1>4 DEF Forward
<1> QED BY <1>3, <1>4, <1>6, <1>7

\* A step in which one attempt moves on, none of them becomes pending, and the
\* broker does not come to wait.
LEMMA StepOf ==
  ASSUME BringupInv, NEW a \in Attempts, NEW s, Settled(a, s), OthersStay(a, listeners, s.ls), Becomes(a, s), Forward(a, s),
         s.c.timer => conn[a].timer \/ (broker \in {"grace", "exiting", "exited"} => a \in late'),
         caller' = caller, broker' = broker, next' \in Nat \ {0}, late \subseteq late', late' \subseteq Attempts
  PROVE  BringupInv'
<1>1. /\ conn' \in [Attempts -> Connections] /\ child' \in [Attempts -> Children]
      /\ \A b \in Attempts : Settled(b, State(b))'
      /\ \A b \in Attempts : /\ conn[b].registered => conn'[b].registered
                             /\ conn[b].exception # "no" => conn'[b].exception # "no"
                             /\ b # a => conn'[b] = conn[b]
      /\ conn'[a] = s.c
  BY Becoming
<1>2. Told'
  BY <1>1 DEF Told, BringupInv
<1>3. ShutdownSettles'
  BY <1>1 DEF ShutdownSettles, Pending, BringupInv
<1>4. listeners' \in Seq(ListenerEntries)
  BY HandledIs DEF Settled, Consistent, Becomes
<1> QED BY <1>1, <1>2, <1>3, <1>4 DEF BringupInv

\* The loss of streams in its three combinations.
LEMMA LostStep ==
  ASSUME BringupInv, NEW a \in Attempts, NEW r, Lost(a, State(a), r), Becomes(a, r),
         caller' = caller, broker' = broker, next' = next, late' = late
  PROVE  BringupInv'
<1>1. /\ Settled(a, State(a)) /\ State(a).c = conn[a] /\ State(a).ls = listeners /\ conn[a] \in Connections
  BY StateIs
<1>2. Settled(a, r)
  BY <1>1, LostSettled
<1>3. OthersStay(a, listeners, r.ls) /\ r.c.registered = conn[a].registered
  BY <1>1 DEF Lost
<1>4. (r.c.timer => conn[a].timer) /\ (conn[a].exception # "no" => r.c.exception # "no")
  BY <1>1 DEF Lost
<1>5. Forward(a, r)
  BY <1>3, <1>4 DEF Forward
<1>6. next' \in Nat \ {0} /\ late \subseteq late' /\ late' \subseteq Attempts
  BY DEF BringupInv
<1> QED BY <1>2, <1>3, <1>4, <1>5, <1>6, StepOf

LEMMA StillLost ==
  ASSUME NEW a \in Attempts, NEW s, Consistent(a, s)
  PROVE  Lost(a, s, s)
  BY DEF Lost, OthersStay, Consistent

\* A pending attempt fails in a step.
LEMMA FailStep ==
  ASSUME BringupInv, NEW a \in Attempts, conn[a].timer, NEW e \in Exceptions \ {"no", "eof"}, NEW x \in BOOLEAN,
         Becomes(a, Fail(a, [State(a) EXCEPT !.c.timer = x], e)),
         caller' = caller, broker' = broker, next' \in Nat \ {0}, late' = late
  PROVE  BringupInv'
<1> DEFINE r == Fail(a, [State(a) EXCEPT !.c.timer = x], e)
<1>1. /\ Settled(a, State(a)) /\ State(a).c = conn[a] /\ State(a).ls = listeners /\ ~conn[a].registered
      /\ conn[a].exception = "no"
  BY StateIs
<1>2. Settled(a, r) /\ r.c.exception = e /\ ~r.c.timer /\ ~r.c.registered /\ OthersStay(a, State(a).ls, r.ls)
  BY <1>1, PendingFails
<1> HIDE DEF r
<1>3. Forward(a, r)
  BY <1>1 DEF Forward
<1>4. late \subseteq late' /\ late' \subseteq Attempts
  BY DEF BringupInv
<1>5. Becomes(a, r)
  BY DEF r
<1> QED BY <1>1, <1>2, <1>3, <1>4, <1>5, StepOf

LEMMA BringupInvInit == BringupInit => BringupInv
<1> SUFFICES ASSUME BringupInit PROVE BringupInv
  OBVIOUS
<1> USE BringupAssumption DEF BringupAssumption
<1>1. Unstarted \in Connections
  BY DEF Unstarted, Connections, PipeStates, Exceptions, Signals
<1>2. conn \in [Attempts -> Connections] /\ child \in [Attempts -> Children]
  BY <1>1 DEF BringupInit, Children
<1>3. ASSUME NEW a \in Attempts PROVE Settled(a, State(a))
  <2> DEFINE s == [c |-> Unstarted, p |-> "none", ls |-> <<>>]
  <2>1. State(a) = s
    BY DEF State, BringupInit
  <2>2. s \in Handled /\ s.c = Unstarted /\ s.p = "none" /\ s.ls = <<>>
    BY <1>1 DEF Handled, Children
  <2> HIDE DEF s
  <2>3. Distinct(s.ls) /\ \A e : e \notin ToSet(s.ls)
    BY <2>2 DEF Distinct, ToSet
  <2>4. /\ s.c.stdio = "none" /\ s.c.stderr = "none" /\ ~s.c.timer /\ s.c.exception = "no" /\ s.c.puts = 0
        /\ ~s.c.registered /\ s.c.tries = 0 /\ ~s.c.reapTimer /\ s.c.signals = <<>>
    BY <2>2 DEF Unstarted
  <2>5. Kindly(a, s.c, s.c.reapTimer)
    BY <2>4 DEF Kindly
  <2>6. Consistent(a, s)
    BY <2>2, <2>3, <2>4, <2>5 DEF Consistent
  <2>7. LookedAfter(a, s.c, s.p)
    BY <2>2 DEF LookedAfter
  <2>8. Settled(a, s)
    BY <2>4, <2>6, <2>7 DEF Settled
  <2> QED BY <2>1, <2>8
<1> QED BY <1>2, <1>3 DEF BringupInit, BringupInv, Told, ShutdownSettles

\* Every handler, exit, expiry and loss keeps all attempts settled.
LEMMA BringupInvStep == BringupInv /\ [BringupNext]_bringupVars => BringupInv'
<1> SUFFICES ASSUME BringupInv, [BringupNext]_bringupVars PROVE BringupInv'
  OBVIOUS
<1> USE BringupAssumption DEF BringupAssumption
<1>u. ASSUME UNCHANGED <<conn, child, listeners>> PROVE \A a \in Attempts : Settled(a, State(a))'
  <2>1. ASSUME NEW a \in Attempts PROVE Settled(a, State(a))'
    <3>1. Settled(a, State(a)) /\ State(a)' = State(a)
      BY <1>u DEF BringupInv, State
    <3>2. Settled(a, [c |-> conn[a], p |-> child[a], ls |-> listeners])
      BY <3>1 DEF State
    <3>3. Settled(a, [c |-> conn'[a], p |-> child'[a], ls |-> listeners'])
      BY <1>u, <3>2
    <3> QED BY <3>3 DEF State
  <2> QED BY <2>1
<1>next. next' \in Nat \ {0} /\ next + 1 \in Nat \ {0} /\ late \subseteq Attempts
  <2>1. ASSUME FireConnection \/ FireReaper PROVE next' = next + 1
    BY <2>1 DEF FireConnection, FireReaper
  <2>2. ASSUME Shutdown PROVE next' = 1
    BY <2>2 DEF Shutdown
  <2>3. ASSUME Fired \/ ShutdownStreams \/ GraceOver \/ Exit \/ DeadlineOver \/ UNCHANGED bringupVars PROVE next' = next
    BY <2>3 DEF Fired, ShutdownStreams, GraceOver, Exit, DeadlineOver, bringupVars
  <2>4. ASSUME NEW a \in Attempts, AsyncConnect(a) \/ TimerExpired(a) \/ StdioEof(a) \/ StderrEof(a) \/ ReapTimer(a)
        PROVE  next' = next
    BY <2>4 DEF AsyncConnect, TimerExpired, StdioEof, StderrEof, ReapTimer
  <2>5. ASSUME NEW a \in Attempts, Connect(a) \/ Booted(a) \/ Refused(a) \/ ChildExits(a) \/ PipesLost(a) \/ Return(a)
        PROVE  next' = next
    BY <2>5 DEF Connect, Booted, Refused, ChildExits, PipesLost, Return
  <2>6. next' = next \/ next' = next + 1 \/ next' = 1
    BY <2>1, <2>2, <2>3, <2>4, <2>5 DEF BringupNext, BrokerSteps
  <2>7. next \in Nat \ {0} /\ late \subseteq Attempts
    BY DEF BringupInv
  <2> QED BY <2>6, <2>7
<1>1. CASE UNCHANGED bringupVars
  <2>1. UNCHANGED <<conn, child, listeners>> /\ UNCHANGED <<caller, broker, next, late>>
    BY <1>1 DEF bringupVars
  <2> QED BY <1>u, <2>1 DEF BringupInv, Told, ShutdownSettles, Pending
<1>2. CASE FireConnection
  <2> DEFINE a == listeners[next][2]
  <2>2. listeners \in Seq(ListenerEntries)
    BY DEF BringupInv
  <2>3. next \in 1..Len(listeners) /\ listeners[next] \in ListenerEntries /\ listeners[next][1] = "conn"
    BY <1>2, <2>2 DEF FireConnection, BringupInv
  <2>4. a \in Attempts /\ listeners[next] = Listener("conn", a)
    BY <2>3, EntryIs
  <2>5. Listener("conn", a) \in ToSet(listeners)
    BY <2>2, <2>3, <2>4, ToSetIs
  <2>6. Becomes(a, Fail(a, State(a), "shutdown")) /\ next' = next + 1 /\ UNCHANGED <<caller, broker, late>>
    BY <1>2 DEF FireConnection
  <2> HIDE DEF a
  <2>7. conn[a].timer /\ State(a) \in Handled /\ State(a).c = conn[a]
    BY <2>4, <2>5, StateIs DEF Settled, Consistent
  <2>8. [State(a) EXCEPT !.c.timer = TRUE] = State(a)
    BY <2>7, TimerStays
  <2>9. "shutdown" \in Exceptions \ {"no", "eof"} /\ TRUE \in BOOLEAN
    BY DEF Exceptions
  <2>10. Becomes(a, Fail(a, [State(a) EXCEPT !.c.timer = TRUE], "shutdown"))
    BY <2>6, <2>8
  <2> QED BY <1>next, <2>4, <2>6, <2>7, <2>9, <2>10, FailStep
<1>3. CASE FireReaper
  <2> DEFINE a == listeners[next][2]
  <2>2. UNCHANGED <<child, listeners, caller, broker, late>> /\ next' = next + 1
    BY <1>3 DEF FireReaper
  <2>3. CASE ~IsDetached(a, State(a))
    <3>1. UNCHANGED <<conn, child, listeners>>
      BY <1>3, <2>2, <2>3 DEF FireReaper
    <3> QED BY <1>u, <1>next, <2>2, <3>1 DEF BringupInv, Told, ShutdownSettles, Pending
  <2>4. CASE IsDetached(a, State(a))
    <3>1. a \in Attempts /\ Own(a, conn[a])
      BY <2>4, BringupAssumption DEF IsDetached, State, Own
    <3>2. conn' = [conn EXCEPT ![a].reapTimer = FALSE]
      BY <1>3, <2>4 DEF FireReaper
    <3> HIDE DEF a
    <3> DEFINE s == [State(a) EXCEPT !.c.reapTimer = FALSE]
    <3>3. /\ Settled(a, State(a)) /\ State(a).c = conn[a] /\ State(a).p = child[a] /\ State(a).ls = listeners
      BY <3>1, StateIs
    <3>4. /\ Settled(a, s) /\ s.ls = listeners /\ s.p = child[a] /\ s.c = [conn[a] EXCEPT !.reapTimer = FALSE]
          /\ SameOutcome(s.c, conn[a])
      BY <3>1, <3>3, LeftAlone
    <3> HIDE DEF s
    <3>5. Becomes(a, s)
      <4>1. conn' = [conn EXCEPT ![a] = s.c]
        BY <3>2, <3>4
      <4>2. child' = [child EXCEPT ![a] = s.p]
        BY <2>2, <3>4 DEF BringupInv
      <4> QED BY <2>2, <3>4, <4>1, <4>2 DEF Becomes
    <3>6. OthersStay(a, listeners, s.ls) /\ Forward(a, s) /\ (s.c.timer => conn[a].timer)
      BY <3>4 DEF OthersStay, Forward, SameOutcome
    <3>7. caller' = caller /\ broker' = broker /\ late \subseteq late' /\ late' \subseteq Attempts /\ next' \in Nat \ {0}
      BY <1>next, <2>2
    <3> QED BY <3>1, <3>4, <3>5, <3>6, <3>7, StepOf
  <2> QED BY <2>3, <2>4
<1>4. CASE Fired \/ GraceOver \/ Shutdown \/ DeadlineOver
  <2>1. UNCHANGED <<conn, child, listeners, caller, late>>
    BY <1>4 DEF Fired, GraceOver, Shutdown, DeadlineOver
  <2>2. /\ broker' \in {"runs", "fires", "streams", "grace", "exiting", "exited"}
        /\ broker' \in {"grace", "exiting", "exited"} => broker \in {"grace", "exiting", "exited"}
    BY <1>4 DEF Fired, GraceOver, Shutdown, DeadlineOver
  <2>3. ShutdownSettles'
    BY <2>1, <2>2 DEF BringupInv, ShutdownSettles, Pending
  <2> QED BY <1>u, <1>next, <2>1, <2>2, <2>3 DEF BringupInv, Told
<1>5. CASE ShutdownStreams
  <2>0. UNCHANGED <<caller, next, late>>
    BY <1>5 DEF ShutdownStreams
  <2>1. CASE \E a \in {b \in OpenConnections : ~conn[b].registered \/ conn[b].stderr = "open"} :
               Becomes(a, StreamShutdown(a, State(a))) /\ UNCHANGED broker
    <3>1. PICK a \in Attempts : Becomes(a, StreamShutdown(a, State(a))) /\ UNCHANGED broker
      BY <2>1 DEF OpenConnections
    <3> DEFINE s == IF State(a).c.registered THEN State(a) ELSE StdioGone(a, State(a))
               q == StderrGone(a, s)
    <3>2. Consistent(a, State(a))
      BY StateIs DEF Settled
    <3>3. Lost(a, State(a), s)
      <4>1. CASE State(a).c.registered
        BY <3>2, <4>1, StillLost
      <4>2. CASE ~State(a).c.registered
        BY <3>2, <4>2, StdioKeeps
      <4> QED BY <4>1, <4>2
    <3>4. StreamShutdown(a, State(a)) = q
      BY DEF StreamShutdown
    <3> HIDE DEF s
    <3>5. Lost(a, s, q)
      BY <3>3, StderrKeeps DEF Lost
    <3> HIDE DEF q
    <3>6. Lost(a, State(a), q)
      BY <3>2, <3>3, <3>5, LostTwice
    <3> QED BY <2>0, <3>1, <3>4, <3>6, LostStep
  <2>2. CASE /\ \A a \in OpenConnections : conn[a].registered /\ conn[a].stderr # "open"
             /\ broker' = "grace" /\ UNCHANGED <<conn, child, listeners>>
    <3>1. ASSUME NEW a \in Attempts PROVE ~conn[a].timer
      <4>1. conn[a].timer => IsOpen(conn[a]) /\ ~conn[a].registered
        BY StateIs DEF Settled
      <4> QED BY <2>2, <4>1 DEF OpenConnections, IsOpen
    <3>2. ShutdownSettles'
      BY <2>0, <2>2, <3>1 DEF ShutdownSettles, Pending
    <3> QED BY <1>u, <1>next, <2>0, <2>2, <3>2 DEF BringupInv, Told
  <2> QED BY <1>5, <2>1, <2>2 DEF ShutdownStreams
<1>6. CASE Exit
  <2>0. UNCHANGED <<caller, next, late>>
    BY <1>6 DEF Exit
  <2>1. CASE \E a \in OpenConnections : Becomes(a, StderrGone(a, StdioGone(a, State(a)))) /\ UNCHANGED broker
    <3>1. PICK a \in Attempts : Becomes(a, StderrGone(a, StdioGone(a, State(a)))) /\ UNCHANGED broker
      BY <2>1 DEF OpenConnections
    <3> DEFINE q == StderrGone(a, StdioGone(a, State(a)))
    <3>2. Consistent(a, State(a))
      BY StateIs DEF Settled
    <3>3. Lost(a, State(a), q)
      BY <3>2, BothKeep
    <3> HIDE DEF q
    <3>4. Becomes(a, q)
      BY <3>1 DEF q
    <3> QED BY <2>0, <3>1, <3>3, <3>4, LostStep
  <2>2. CASE OpenConnections = {} /\ broker' = "exited" /\ UNCHANGED <<conn, child, listeners>>
    <3>1. ShutdownSettles'
      BY <1>6, <2>0, <2>2 DEF ShutdownSettles, Pending, BringupInv, Exit
    <3> QED BY <1>u, <1>next, <2>0, <2>2, <3>1 DEF BringupInv, Told
  <2> QED BY <1>6, <2>1, <2>2 DEF Exit
<1>7. ASSUME NEW a \in Attempts, AsyncConnect(a) PROVE BringupInv'
  <2> DEFINE s == [State(a) EXCEPT !.c = [conn[a] EXCEPT !.timer = TRUE], !.ls = Append(@, Listener("conn", a))]
             f == Fail(a, s, "start")
             u == [s EXCEPT !.c = [s.c EXCEPT !.stdio = "open", !.stderr = IF a \in HasStderr THEN "open" ELSE "none"],
                            !.p = "runs"]
  <2>1. /\ conn[a] = Unstarted /\ UNCHANGED <<caller, broker, next>>
        /\ broker \in {"runs", "grace"}
        /\ late' = IF broker = "grace" THEN late \cup {a} ELSE late
    BY <1>7 DEF AsyncConnect, Looping
  <2>2. Becomes(a, f) \/ Becomes(a, u)
    BY <1>7 DEF AsyncConnect
  <2>3. Settled(a, State(a)) /\ State(a).c = conn[a] /\ State(a).ls = listeners
    BY StateIs
  <2>4. /\ Settled(a, f) /\ OthersStay(a, listeners, f.ls) /\ ~f.c.timer
        /\ Settled(a, u) /\ OthersStay(a, listeners, u.ls)
    BY <2>1, <2>3, StartSettles
  <2>5. ~conn[a].registered /\ conn[a].exception = "no"
    BY <2>1 DEF Unstarted
  <2>6. late \subseteq late' /\ late' \subseteq Attempts /\ (broker \in {"grace", "exiting", "exited"} => a \in late')
    BY <1>next, <2>1
  <2>7. next' \in Nat \ {0} /\ caller' = caller /\ broker' = broker
    BY <1>next, <2>1
  <2> HIDE DEF f, u, s
  <2>8. Forward(a, f) /\ Forward(a, u)
    BY <2>5 DEF Forward
  <2> QED BY <2>2, <2>4, <2>6, <2>7, <2>8, StepOf
<1>8. ASSUME NEW a \in Attempts, TimerExpired(a) PROVE BringupInv'
  <2>1. /\ Becomes(a, Fail(a, [State(a) EXCEPT !.c.timer = FALSE], "timeout")) /\ conn[a].timer
        /\ UNCHANGED <<caller, broker, next, late>>
    BY <1>8 DEF TimerExpired, Pending
  <2>2. "timeout" \in Exceptions \ {"no", "eof"} /\ FALSE \in BOOLEAN
    BY DEF Exceptions
  <2> QED BY <1>next, <2>1, <2>2, FailStep
<1>9. ASSUME NEW a \in Attempts, Refused(a) PROVE BringupInv'
  <2>1. /\ Becomes(a, Fail(a, State(a), "password")) /\ conn[a].timer
        /\ UNCHANGED <<caller, broker, next, late>>
    BY <1>9 DEF Refused, Pending
  <2>2. "password" \in Exceptions \ {"no", "eof"} /\ TRUE \in BOOLEAN
    BY DEF Exceptions
  <2>3. State(a) \in Handled /\ State(a).c = conn[a]
    BY StateIs
  <2>4. [State(a) EXCEPT !.c.timer = TRUE] = State(a)
    BY <2>1, <2>3, TimerStays
  <2>5. Becomes(a, Fail(a, [State(a) EXCEPT !.c.timer = TRUE], "password"))
    BY <2>1, <2>4
  <2> QED BY <1>next, <2>1, <2>2, <2>5, FailStep
<1>10. ASSUME NEW a \in Attempts, StdioEof(a) PROVE BringupInv'
  <2> DEFINE q == StdioGone(a, State(a))
  <2>1. Becomes(a, q) /\ UNCHANGED <<caller, broker, next, late>>
    BY <1>10 DEF StdioEof
  <2>2. Consistent(a, State(a))
    BY StateIs DEF Settled
  <2>3. Lost(a, State(a), q)
    BY <2>2, StdioKeeps
  <2> HIDE DEF q
  <2> QED BY <2>1, <2>3, LostStep
<1>11. ASSUME NEW a \in Attempts, StderrEof(a) PROVE BringupInv'
  <2> DEFINE q == StderrGone(a, State(a))
  <2>1. Becomes(a, q) /\ UNCHANGED <<caller, broker, next, late>>
    BY <1>11 DEF StderrEof
  <2>2. Consistent(a, State(a))
    BY StateIs DEF Settled
  <2>3. Lost(a, State(a), q)
    BY <2>2, StderrKeeps
  <2> HIDE DEF q
  <2> QED BY <2>1, <2>3, LostStep
<1>12. ASSUME NEW a \in Attempts, PipesLost(a) PROVE BringupInv'
  <2> DEFINE q == StderrGone(a, StdioGone(a, State(a)))
  <2>1. Becomes(a, q) /\ UNCHANGED <<caller, broker, next, late>>
    BY <1>12 DEF PipesLost
  <2>2. Consistent(a, State(a))
    BY StateIs DEF Settled
  <2>3. Lost(a, State(a), q)
    BY <2>2, BothKeep
  <2> HIDE DEF q
  <2> QED BY <2>1, <2>3, LostStep
<1>13. ASSUME NEW a \in Attempts, ReapTimer(a) PROVE BringupInv'
  <2> DEFINE r == Reap(a, [State(a) EXCEPT !.c.reapTimer = FALSE])
  <2>1. Becomes(a, r) /\ conn[a].reapTimer /\ UNCHANGED <<caller, broker, next, late>>
    BY <1>13 DEF ReapTimer
  <2>2. Settled(a, State(a)) /\ State(a).c = conn[a] /\ State(a).ls = listeners
    BY StateIs
  <2>3. Settled(a, r) /\ OthersStay(a, listeners, r.ls) /\ SameOutcome(r.c, conn[a])
    BY <2>1, <2>2, TrySettles
  <2> HIDE DEF r
  <2>4. Forward(a, r) /\ (r.c.timer => conn[a].timer)
    BY <2>3 DEF Forward, SameOutcome
  <2>5. caller' = caller /\ broker' = broker /\ late \subseteq late' /\ late' \subseteq Attempts
    BY <1>next, <2>1
  <2> QED BY <1>next, <2>1, <2>3, <2>4, <2>5, StepOf
<1>14. ASSUME NEW a \in Attempts, Booted(a) PROVE BringupInv'
  <2> DEFINE r == Complete(a, State(a))
  <2>1. Becomes(a, r) /\ conn[a].timer /\ conn[a].stdio = "open" /\ UNCHANGED <<caller, broker, next, late>>
    BY <1>14 DEF Booted, Pending
  <2>2. Settled(a, State(a)) /\ State(a).c = conn[a] /\ State(a).ls = listeners /\ conn[a].exception = "no"
    BY <2>1, StateIs
  <2>3. Settled(a, r) /\ r.c.registered /\ ~r.c.timer /\ OthersStay(a, listeners, r.ls)
    BY <2>1, <2>2, CompleteSettles
  <2> HIDE DEF r
  <2>4. Forward(a, r)
    BY <2>2, <2>3 DEF Forward
  <2>5. caller' = caller /\ broker' = broker /\ late \subseteq late' /\ late' \subseteq Attempts
    BY <1>next, <2>1
  <2> QED BY <1>next, <2>1, <2>3, <2>4, <2>5, StepOf
<1>15. ASSUME NEW a \in Attempts, ChildExits(a) PROVE BringupInv'
  <2> DEFINE s == [c |-> conn[a], p |-> "exited", ls |-> listeners]
  <2>1. /\ child[a] = "runs" /\ child' = [child EXCEPT ![a] = "exited"]
        /\ UNCHANGED <<conn, caller, listeners, broker, next, late>>
    BY <1>15 DEF ChildExits
  <2>2. /\ Settled(a, State(a)) /\ State(a).c = conn[a] /\ State(a).p = child[a] /\ State(a).ls = listeners
        /\ conn[a] \in Connections /\ listeners \in Seq(ListenerEntries)
    BY StateIs
  <2>3. s \in Handled /\ s.c = conn[a] /\ s.p = "exited" /\ s.ls = listeners
    BY <2>2 DEF Handled, Children
  <2> HIDE DEF s
  <2>4. Settled(a, s)
    <3>1. LookedAfter(a, State(a).c, State(a).p) => LookedAfter(a, s.c, s.p)
      BY <2>1, <2>2, <2>3 DEF LookedAfter
    <3>2. Consistent(a, s)
      BY <2>2, <2>3, <3>1 DEF Settled, Consistent
    <3> QED BY <2>2, <2>3, <3>1, <3>2 DEF Settled
  <2>5. Becomes(a, s)
    <3>1. conn' = [conn EXCEPT ![a] = s.c]
      BY <2>1, <2>3 DEF BringupInv
    <3> QED BY <2>1, <2>3, <3>1 DEF Becomes
  <2>6. OthersStay(a, listeners, s.ls) /\ Forward(a, s) /\ (s.c.timer => conn[a].timer)
    BY <2>3 DEF OthersStay, Forward
  <2>7. caller' = caller /\ broker' = broker /\ late \subseteq late' /\ late' \subseteq Attempts
    BY <1>next, <2>1
  <2> QED BY <1>next, <2>4, <2>5, <2>6, <2>7, StepOf
<1>16. ASSUME NEW a \in Attempts, Connect(a) PROVE BringupInv'
  <2>1. /\ UNCHANGED <<conn, child, listeners, broker, next, late>> /\ caller' = [caller EXCEPT ![a] = "waits"]
    BY <1>16 DEF Connect
  <2>2. Told'
    BY <2>1 DEF BringupInv, Told
  <2>3. caller' \in [Attempts -> {"calls", "waits", "returned", "raised"}]
    BY <2>1 DEF BringupInv
  <2> QED BY <1>u, <1>next, <2>1, <2>2, <2>3 DEF BringupInv, ShutdownSettles, Pending
<1>17. ASSUME NEW a \in Attempts, Return(a) PROVE BringupInv'
  <2>1. /\ UNCHANGED <<conn, child, listeners, broker, next, late>> /\ conn[a].puts > 0
        /\ caller' = [caller EXCEPT ![a] = IF conn[a].exception = "no" THEN "returned" ELSE "raised"]
    BY <1>17 DEF Return
  <2>2. conn[a].exception = "no" => conn[a].registered
    BY <2>1, StateIs DEF Settled
  <2>3. Told'
    BY <2>1, <2>2 DEF BringupInv, Told
  <2>4. caller' \in [Attempts -> {"calls", "waits", "returned", "raised"}]
    BY <2>1 DEF BringupInv
  <2> QED BY <1>u, <1>next, <2>1, <2>3, <2>4 DEF BringupInv, ShutdownSettles, Pending
<1> QED
  BY <1>1, <1>2, <1>3, <1>4, <1>5, <1>6, <1>7, <1>8, <1>9, <1>10, <1>11, <1>12, <1>13, <1>14, <1>15, <1>16, <1>17
  DEF BringupNext, BrokerSteps

\* One entry, or none.
LEMMA EntryOnce ==
  ASSUME NEW ls \in Seq(ListenerEntries), Distinct(ls), NEW e
  PROVE  Cardinality({i \in DOMAIN ls : ls[i] = e}) = IF e \in ToSet(ls) THEN 1 ELSE 0
<1> DEFINE I == {i \in DOMAIN ls : ls[i] = e}
<1>0. DOMAIN ls = 1..Len(ls)
  OBVIOUS
<1>1. CASE e \in ToSet(ls)
  <2>1. PICK k \in 1..Len(ls) : ls[k] = e
    BY <1>1, ToSetIs
  <2>2. I = {k}
    BY <1>0, <2>1 DEF Distinct
  <2> QED BY <1>1, <2>2, FS_Singleton
<1>2. CASE e \notin ToSet(ls)
  <2>1. I = {}
    BY <1>0, <1>2, ToSetIs
  <2> QED BY <1>2, <2>1, FS_EmptySet
<1> QED BY <1>1, <1>2

\* What the invariant says to who relies on a connection.
LEMMA BringupInvSafe ==
  ASSUME BringupInv
  PROVE  BringupTypeOK /\ OneOutcome /\ ListensWhilePending /\ EofAfterBoth /\ ShutdownSettles /\ TermFirst
<1>0. ASSUME NEW a \in Attempts
      PROVE  Settled(a, State(a)) /\ Consistent(a, State(a)) /\ State(a).c = conn[a] /\ State(a).ls = listeners /\ conn[a] \in Connections
  BY StateIs DEF Settled
<1>1. BringupTypeOK
  <2>1. ASSUME NEW a \in Attempts
        PROVE  /\ conn[a].registered => conn[a].stdio # "none"
               /\ conn[a].tries \in 0..(MaxTries + 1) /\ Len(conn[a].signals) <= 2
    <3>1. (conn[a].registered => conn[a].stdio # "none") /\ conn[a].tries \in 0..(MaxTries + 1)
      BY <1>0 DEF Consistent, Kindly
    <3>2. conn[a].signals = <<>> \/ conn[a].signals = <<"TERM">> \/ conn[a].signals = <<"TERM", "KILL">>
      BY <1>0 DEF Connections, Signals
    <3>3. Len(<<>>) = 0 /\ Len(<<"TERM">>) = 1 /\ Len(<<"TERM", "KILL">>) = 2
      OBVIOUS
    <3> DEFINE n == Len(conn[a].signals)
    <3>4. n = 0 \/ n = 1 \/ n = 2
      BY <3>2, <3>3, Zenon
    <3> HIDE DEF n
    <3>5. n <= 2
      BY <3>4
    <3> QED BY <3>1, <3>5 DEF n
  <2> QED BY <2>1 DEF BringupTypeOK, BringupInv
<1>2. OneOutcome
  <2>1. ASSUME NEW a \in Attempts
        PROVE  /\ ~(conn[a].registered /\ conn[a].exception # "no")
               /\ conn[a].puts > 0 <=> conn[a].registered \/ conn[a].exception # "no"
    BY <1>0 DEF Settled, Consistent
  <2> QED BY <2>1 DEF OneOutcome, BringupInv, Told
<1>3. ListensWhilePending
  <2>1. ASSUME NEW a \in Attempts
        PROVE  Cardinality({i \in DOMAIN listeners : listeners[i] = Listener("conn", a)}) = IF Pending(a) THEN 1 ELSE 0
    <3>1. listeners \in Seq(ListenerEntries) /\ Distinct(listeners)
      BY StateIs
    <3>2. Listener("conn", a) \in ToSet(listeners) <=> conn[a].timer
      BY <1>0 DEF Settled, Consistent
    <3> QED BY <3>1, <3>2, EntryOnce DEF Pending
  <2> QED BY <2>1 DEF ListensWhilePending
<1>4. EofAfterBoth
  BY <1>0 DEF EofAfterBoth, Consistent, IsOpen
<1>5. TermFirst
  <2>1. ASSUME NEW a \in Attempts
        PROVE  (IsDetached(a, State(a)) => conn[a].signals = <<>>) /\ conn[a].signals \in Signals
    BY <1>0 DEF Consistent, Kindly, Own, IsDetached, Connections
  <2> QED BY <2>1 DEF TermFirst, Signals
<1> QED BY <1>1, <1>2, <1>3, <1>4, <1>5 DEF BringupInv

\* The grace period ends when no child is left to wait for.
LEMMA GraceLasts ==
  ASSUME BringupInv, GraceOver, NEW a \in Attempts
  PROVE  IsDetached(a, State(a)) \/ child[a] \in {"none", "reaped"} \/ conn[a].tries > MaxTries
<1>1. ~IsOpen(conn[a]) /\ ~conn[a].reapTimer
  BY DEF GraceOver, KeepAlive, OpenConnections, IsOpen
<1>2. Settled(a, State(a)) /\ State(a).c = conn[a] /\ State(a).p = child[a] /\ child[a] \in Children
  BY StateIs DEF BringupInv
<1>3. LookedAfter(a, conn[a], child[a])
  BY <1>1, <1>2 DEF Settled
<1>4. Own(a, conn[a]) => IsDetached(a, State(a))
  BY <1>2 DEF Own, IsDetached
<1> QED BY <1>1, <1>2, <1>3, <1>4 DEF LookedAfter, Children

\* Whatever is lost first and whenever the broker stops, each attempt of
\* mitogen.parent.Connection has one outcome, listens for as long as it is pending, and
\* its child is signalled gently and, unless it is detached, waited for by the grace period.
THEOREM BringupCorrect == BringupSpec => BringupSafe
<1>1. BringupInv /\ [BringupNext]_bringupVars
      => [GraceOver => \A a \in Attempts :
            \/ IsDetached(a, State(a)) \/ child[a] \in {"none", "reaped"} \/ conn[a].tries > MaxTries]_bringupVars
  BY GraceLasts
<1>2. BringupInv => BringupTypeOK /\ OneOutcome /\ ListensWhilePending /\ EofAfterBoth /\ ShutdownSettles /\ TermFirst
  BY BringupInvSafe
<1> QED BY <1>1, <1>2, BringupInvInit, BringupInvStep, PTL DEF BringupSpec, BringupSafe, GraceWaits
==============================================================================
