--------------------------- MODULE NetworkProofs -----------------------------
(* Theorems about the processes of a tree: Corking, ThreadWatch, Handlers,      *)
(* Framing and Routing, for any threads, brokers, callers, streams and trees.   *)
EXTENDS Corking, ThreadWatch, Handlers, Framing, Routing, SequenceLemmas, FiniteSetTheorems, SequenceTheorems, TLAPS

-----------------------------------------------------------------------------
(* Corking: a process forks while its other threads are at rest                 *)

Blocked == {t \in Threads : poolThread[t] = "blocked"}

CorkTypeOK ==
  /\ poolThread \in [Threads -> {"idle", "calling", "blocked"}]
  /\ corksQueued \in Nat /\ ioThread \in {"running", "asked", "blocked"}
  /\ forker \in {"working", "verifying", "forking", "uncorking"}

\* Between cork() and uncork() a call is queued for every thread that is not blocked yet; before
\* the fork none is left.
Balance ==
  /\ forker = "working" => corksQueued = 0 /\ Blocked = {}
  /\ forker # "working" => corksQueued + Cardinality(Blocked) = Cardinality(Threads)
  /\ forker \in {"forking", "uncorking"} => corksQueued = 0 /\ ioThread = "blocked"

CorkInv == CorkTypeOK /\ Balance

LEMMA BlockedFinite == IsFiniteSet(Blocked)
  BY CorkingAssumption, FS_Subset DEF Blocked

LEMMA InitCork == CorkingInit => CorkInv
<1> SUFFICES ASSUME CorkingInit PROVE CorkInv
  OBVIOUS
<1>1. Blocked = {}
  BY DEF CorkingInit, Blocked
<1> QED
  BY <1>1 DEF CorkingInit, CorkInv, CorkTypeOK, Balance

\* Every step keeps the count.
LEMMA NextCork == CorkInv /\ [CorkingNext]_coVars => CorkInv'
<1> SUFFICES ASSUME CorkInv, [CorkingNext]_coVars PROVE CorkInv'
  OBVIOUS
<1> USE DEF CorkInv, CorkTypeOK
<1>1. ASSUME NEW t \in Threads, BeginCall(t) \/ EndCall(t) PROVE CorkInv'
  <2>1. poolThread' \in [Threads -> {"idle", "calling", "blocked"}] /\ Blocked' = Blocked
    BY <1>1 DEF BeginCall, EndCall, ThreadBecomes, Blocked
  <2> QED
    BY <1>1, <2>1 DEF BeginCall, EndCall, Balance
<1>2. ASSUME NEW t \in Threads, BlockThread(t) PROVE CorkInv'
  <2>1. Blocked' = Blocked \union {t} /\ t \notin Blocked
    BY <1>2 DEF BlockThread, ThreadBecomes, Blocked
  <2>2. Cardinality(Blocked') = Cardinality(Blocked) + 1 /\ Cardinality(Blocked) \in Nat
    BY <2>1, BlockedFinite, FS_AddElement, FS_CardinalityType
  <2>3. Cardinality(Threads) \in Nat
    BY CorkingAssumption, FS_CardinalityType
  <2>4. forker = "verifying" /\ forker' = forker /\ corksQueued' = corksQueued - 1 /\ corksQueued > 0
    BY <1>2 DEF BlockThread, Balance
  <2>5. poolThread' \in [Threads -> {"idle", "calling", "blocked"}] /\ ioThread' = ioThread
    BY <1>2 DEF BlockThread, ThreadBecomes
  <2> QED
    BY <2>2, <2>3, <2>4, <2>5 DEF Balance
<1>3. CASE BlockBroker
  <2>1. Blocked' = Blocked
    BY <1>3 DEF BlockBroker, Blocked
  <2> QED
    BY <1>3, <2>1 DEF BlockBroker, Balance
<1>4. CASE Cork
  <2>1. Blocked' = Blocked
    BY <1>4 DEF Cork, Blocked
  <2>2. Cardinality(Threads) \in Nat /\ Cardinality({}) = 0
    BY CorkingAssumption, FS_CardinalityType, FS_EmptySet
  <2> QED
    BY <1>4, <2>1, <2>2 DEF Cork, Balance
<1>5. CASE Verify
  <2>1. Blocked' = Blocked
    BY <1>5 DEF Verify, Blocked
  <2> QED
    BY <1>5, <2>1 DEF Verify, Balance
<1>6. CASE Fork
  <2>1. Blocked' = Blocked
    BY <1>6 DEF Fork, Blocked
  <2> QED
    BY <1>6, <2>1 DEF Fork, Balance
<1>7. CASE Uncork
  <2>1. Blocked' = {} /\ poolThread' \in [Threads -> {"idle", "calling", "blocked"}]
    BY <1>7 DEF Uncork, Blocked
  <2> QED
    BY <1>7, <2>1 DEF Uncork, Balance
<1>8. CASE UNCHANGED coVars
  <2>1. Blocked' = Blocked
    BY <1>8 DEF coVars, Blocked
  <2> QED
    BY <1>8, <2>1 DEF coVars, Balance
<1> QED
  BY <1>1, <1>2, <1>3, <1>4, <1>5, <1>6, <1>7, <1>8 DEF CorkingNext, ThreadSteps

\* However many threads the pools have, and whatever they do, wrap_os__fork() forks only while
\* every one of them and the broker are blocked in write(): no lock is held at os.fork().
THEOREM ForksQuietly == CorkingSpec => []QuietAtFork
<1>1. CorkInv => QuietAtFork
  <2> SUFFICES ASSUME CorkInv, forker = "forking"
               PROVE  ioThread = "blocked" /\ \A t \in Threads : poolThread[t] = "blocked"
    BY DEF QuietAtFork
  <2>1. Cardinality(Blocked) = Cardinality(Threads) /\ ioThread = "blocked"
    BY BlockedFinite, FS_CardinalityType DEF CorkInv, CorkTypeOK, Balance
  <2>2. Blocked = Threads
    BY <2>1, CorkingAssumption, FS_Subset DEF Blocked
  <2> QED
    BY <2>1, <2>2 DEF Blocked
<1> QED
  BY <1>1, InitCork, NextCork, PTL DEF CorkingSpec

-----------------------------------------------------------------------------
(* ThreadWatch: who is watched, and whom the walk misses                          *)

\* list.remove() of an element that is on a sequence once, and of one that is not.
LEMMA Removed ==
  ASSUME NEW S, NEW s \in Seq(S), NEW i \in 1..Len(s), \A j \in 1..Len(s) : s[j] = s[i] => j = i
  PROVE  /\ RemoveFirst(s, s[i]) \in Seq(S)
         /\ Len(RemoveFirst(s, s[i])) = Len(s) - 1
         /\ \A j \in 1..(Len(s) - 1) : RemoveFirst(s, s[i])[j] = IF j < i THEN s[j] ELSE s[j + 1]
<1> DEFINE e == s[i]
           a == SubSeq(s, 1, i - 1)
           b == SubSeq(s, i + 1, Len(s))
<1>1. {j \in 1..Len(s) : s[j] = e} = {i}
  OBVIOUS
<1>2. Min({i}) = i
  BY DEF Min
<1>3. SelectInSeq(s, LAMBDA v: v = e) = IF {j \in 1..Len(s) : s[j] = e} # {} THEN Min({j \in 1..Len(s) : s[j] = e}) ELSE 0
  BY DEF SelectInSeq
<1>4. SelectInSeq(s, LAMBDA v: v = e) = i
  BY <1>1, <1>2, <1>3
<1>5. \E j \in 1..Len(s) : s[j] = e
  OBVIOUS
<1>6. RemoveFirst(s, e) = RemoveAt(s, SelectInSeq(s, LAMBDA v: v = e))
  BY <1>5 DEF RemoveFirst
<1>7. RemoveFirst(s, e) = a \o b
  BY <1>4, <1>6 DEF RemoveAt
<1>8. /\ a \in Seq(S) /\ Len(a) = i - 1 /\ \A j \in 1..(i - 1) : a[j] = s[j]
      /\ b \in Seq(S) /\ Len(b) = Len(s) - i /\ \A j \in 1..(Len(s) - i) : b[j] = s[i + j]
  OBVIOUS
<1> HIDE DEF a, b
<1>9. /\ a \o b \in Seq(S) /\ Len(a \o b) = Len(s) - 1
      /\ \A j \in 1..(Len(s) - 1) : (a \o b)[j] = IF j <= i - 1 THEN a[j] ELSE b[j - (i - 1)]
  BY <1>8
<1>10. \A j \in 1..(Len(s) - 1) : (a \o b)[j] = IF j < i THEN s[j] ELSE s[j + 1]
  <2> TAKE j \in 1..(Len(s) - 1)
  <2>1. CASE j < i
    BY <2>1, <1>8, <1>9
  <2>2. CASE ~(j < i)
    <3>1. j - (i - 1) \in 1..(Len(s) - i) /\ i + (j - (i - 1)) = j + 1
      BY <2>2
    <3> QED
      BY <3>1, <2>2, <1>8, <1>9
  <2> QED
    BY <2>1, <2>2
<1> QED
  BY <1>7, <1>9, <1>10

\* The list is that of the brokers which live, each once.
Live == built \ down
OnList ==
  /\ watching \in Seq(Watchers)
  /\ \A i, j \in 1..Len(watching) : watching[i] = watching[j] => i = j
  /\ \A b \in Watchers : b \in Live <=> \E i \in 1..Len(watching) : watching[i] = b
  /\ IsFiniteSet(Live) /\ Cardinality(Live) = Len(watching)
\* What the process has inherited goes with its first broker; the thread stands before the broker
\* that follows those it has shut down, and has at most one broker behind it for each of them.
WatchInv ==
  /\ built \subseteq Watchers /\ down \subseteq Watchers /\ forkedOff \in BOOLEAN /\ known \in BOOLEAN
  /\ watchThread \in {"none", "joining", "walking", "done"}
  /\ forkedOff => built = {} /\ watchThread = "none"
  /\ ~forkedOff => OnList /\ (known <=> watchThread # "none") /\ (Live # {} => known)
  /\ watchThread \in {"walking", "done"} => mainThread = "exited"
  /\ IsFiniteSet(down) /\ down \subseteq built
  /\ place \in Nat \ {0} /\ place - 1 <= Cardinality(down)
  /\ watchThread = "done" => Len(watching) < place

LEMMA WatchInitially == ThreadWatchInit => WatchInv
<1> SUFFICES ASSUME ThreadWatchInit PROVE WatchInv
  OBVIOUS
<1> USE DEF ThreadWatchInit
<1>1. IsFiniteSet({}) /\ Cardinality({}) = 0
  BY FS_EmptySet
<1>2. Live = {}
  BY DEF Live
<1>3. ~forkedOff => OnList /\ ~known
  <2> SUFFICES ASSUME ~forkedOff PROVE OnList /\ ~known
    OBVIOUS
  <2>1. watching = << >> /\ ~known
    OBVIOUS
  <2>2. watching \in Seq(Watchers) /\ Len(watching) = 0 /\ 1..Len(watching) = {}
    BY <2>1
  <2> QED
    BY <1>1, <1>2, <2>1, <2>2 DEF OnList
<1>4. /\ built = {} /\ down = {} /\ watchThread = "none" /\ place = 1
      /\ known \in BOOLEAN /\ forkedOff \in BOOLEAN
  OBVIOUS
<1> QED
  BY <1>1, <1>2, <1>3, <1>4 DEF WatchInv

\* A new broker joins the list, which is empty where it was inherited.
LEMMA ConstructKeeps == ASSUME WatchInv, NEW b \in Watchers, Construct(b) PROVE WatchInv'
<1> DEFINE list == Reset.list
<1>0. /\ b \notin built /\ built' = built \union {b} /\ down' = down /\ place' = place
      /\ watching' = Append(list, b) /\ known' = TRUE /\ forkedOff' = FALSE /\ mainThread = "runs"
      /\ mainThread' = mainThread
      /\ watchThread' = IF Reset.known THEN watchThread ELSE "joining"
  BY DEF Construct
<1>1. b \notin down /\ Live' = Live \union {b} /\ b \notin Live
  BY <1>0 DEF Live, WatchInv
<1>2. /\ list \in Seq(Watchers)
      /\ \A i, j \in 1..Len(list) : list[i] = list[j] => i = j
      /\ \A c \in Watchers : c \in Live <=> \E i \in 1..Len(list) : list[i] = c
      /\ IsFiniteSet(Live) /\ Cardinality(Live) = Len(list)
      /\ Reset.known => watchThread # "none" /\ watchThread = "joining"
  <2>1. CASE forkedOff
    <3>1. list = << >> /\ Reset.known = FALSE /\ Live = {}
      BY <2>1 DEF Reset, Inherited, WatchInv, Live
    <3>2. list \in Seq(Watchers) /\ Len(list) = 0 /\ 1..Len(list) = {}
      BY <3>1
    <3> QED
      BY <3>1, <3>2, FS_EmptySet
  <2>2. CASE ~forkedOff
    <3>1. list = watching /\ Reset.known = known
      BY <2>2 DEF Reset, Inherited
    <3>2. OnList /\ (known <=> watchThread # "none")
      BY <2>2 DEF WatchInv
    <3>3. watchThread \in {"none", "joining"}
      BY <1>0 DEF WatchInv
    <3> QED
      BY <3>1, <3>2, <3>3 DEF OnList
  <2> QED
    BY <2>1, <2>2 DEF WatchInv
<1> HIDE DEF list
<1>3. /\ watching' \in Seq(Watchers) /\ Len(watching') = Len(list) + 1
      /\ \A i \in 1..Len(list) : watching'[i] = list[i]
      /\ watching'[Len(list) + 1] = b
  BY <1>0, <1>2
<1>4. \A i \in 1..Len(list) : list[i] # b
  BY <1>1, <1>2
<1>5. OnList'
  <2>1. \A i, j \in 1..Len(watching') : watching'[i] = watching'[j] => i = j
    BY <1>2, <1>3, <1>4
  <2>2. \A c \in Watchers : c \in Live' <=> \E i \in 1..Len(watching') : watching'[i] = c
    <3> TAKE c \in Watchers
    <3>1. CASE c = b
      <4>1. Len(list) + 1 \in 1..Len(watching')
        BY <1>2, <1>3
      <4> QED
        BY <1>1, <1>3, <3>1, <4>1
    <3>2. CASE c # b
      <4>1. c \in Live' <=> \E i \in 1..Len(list) : list[i] = c
        BY <1>1, <1>2, <3>2
      <4> QED
        BY <1>2, <1>3, <3>2, <4>1
    <3> QED
      BY <3>1, <3>2
  <2>3. IsFiniteSet(Live') /\ Cardinality(Live') = Len(watching')
    BY <1>1, <1>2, <1>3, FS_AddElement
  <2> QED
    BY <1>3, <2>1, <2>2, <2>3 DEF OnList
<1>6. watchThread' = "joining"
  BY <1>0, <1>2
<1> QED
  BY <1>0, <1>5, <1>6 DEF WatchInv

\* A broker that is shut down leaves the list, and only the list.
LEMMA ShutKeeps ==
  ASSUME WatchInv, ~forkedOff, NEW i \in 1..Len(watching), Shut(watching[i]), UNCHANGED <<built, forkedOff>>
  PROVE  /\ OnList' /\ Live' \subseteq Live
         /\ Len(watching') = Len(watching) - 1
         /\ IsFiniteSet(down') /\ Cardinality(down') = Cardinality(down) + 1
         /\ down' \subseteq built' /\ down' \subseteq Watchers
<1> DEFINE b == watching[i]
<1>0. OnList /\ IsFiniteSet(down) /\ down \subseteq built /\ down \subseteq Watchers
  BY DEF WatchInv
<1>1. watching' = RemoveFirst(watching, b) /\ down' = down \union {b}
  BY DEF Shut, Reset, Inherited
<1>2. watching \in Seq(Watchers) /\ b \in Watchers /\ b \in Live
  BY <1>0 DEF OnList
<1>3. b \notin down /\ b \in built /\ Live' = Live \ {b}
  BY <1>1, <1>2 DEF Live
<1>4. \A j \in 1..Len(watching) : watching[j] = b => j = i
  BY <1>0 DEF OnList
<1>5. /\ watching' \in Seq(Watchers) /\ Len(watching') = Len(watching) - 1
      /\ \A j \in 1..(Len(watching) - 1) : watching'[j] = IF j < i THEN watching[j] ELSE watching[j + 1]
  BY <1>1, <1>2, <1>4, Removed
<1> HIDE DEF b
<1>6. \A c \in Watchers : c \in Live' <=> \E j \in 1..Len(watching') : watching'[j] = c
  <2> TAKE c \in Watchers
  <2>1. ASSUME c \in Live' PROVE \E j \in 1..Len(watching') : watching'[j] = c
    <3>1. PICK k \in 1..Len(watching) : watching[k] = c /\ c # b
      BY <2>1, <1>0, <1>3 DEF OnList
    <3>2. k # i
      BY <3>1 DEF b
    <3>3. CASE k < i
      <4>1. k \in 1..(Len(watching) - 1)
        BY <3>3
      <4> QED
        BY <3>1, <3>3, <4>1, <1>5
    <3>4. CASE k > i
      <4>1. k - 1 \in 1..(Len(watching) - 1) /\ ~(k - 1 < i) /\ (k - 1) + 1 = k
        BY <3>4
      <4> QED
        BY <3>1, <4>1, <1>5
    <3> QED
      BY <3>2, <3>3, <3>4
  <2>2. ASSUME NEW j \in 1..Len(watching'), watching'[j] = c PROVE c \in Live'
    <3>1. PICK k \in 1..Len(watching) : watching'[j] = watching[k] /\ k # i
      BY <1>2, <1>5, <2>2
    <3>2. c # b
      BY <3>1, <2>2, <1>4
    <3> QED
      BY <3>1, <3>2, <2>2, <1>0, <1>3 DEF OnList
  <2> QED
    BY <2>1, <2>2
<1>7. \A j, k \in 1..Len(watching') : watching'[j] = watching'[k] => j = k
  BY <1>0, <1>2, <1>5 DEF OnList
<1>8. IsFiniteSet(Live') /\ Cardinality(Live') = Len(watching')
  BY <1>0, <1>2, <1>3, <1>5, FS_RemoveElement DEF OnList
<1>9. IsFiniteSet(down') /\ Cardinality(down') = Cardinality(down) + 1
  BY <1>0, <1>1, <1>3, FS_AddElement
<1> QED
  BY <1>0, <1>1, <1>2, <1>3, <1>5, <1>6, <1>7, <1>8, <1>9 DEF OnList

LEMMA WatchStep == WatchInv /\ [ThreadWatchNext]_twVars => WatchInv'
<1> SUFFICES ASSUME WatchInv, [ThreadWatchNext]_twVars PROVE WatchInv'
  OBVIOUS
<1>0. IsFiniteSet(down) /\ Cardinality(down) \in Nat
  BY FS_CardinalityType DEF WatchInv
<1>1. ASSUME NEW b \in Watchers, Construct(b) PROVE WatchInv'
  BY <1>1, ConstructKeeps
<1>2. ASSUME NEW b \in Watchers, UserShutdown(b) PROVE WatchInv'
  <2>1. b \in Live /\ Shut(b) /\ UNCHANGED <<mainThread, forkedOff, known, watchThread, place, built>>
    BY <1>2 DEF UserShutdown, Live
  <2>2. ~forkedOff /\ OnList
    BY <2>1 DEF WatchInv, Live
  <2>3. PICK i \in 1..Len(watching) : watching[i] = b
    BY <2>1, <2>2 DEF OnList
  <2>4. /\ OnList' /\ Live' \subseteq Live
        /\ Len(watching') = Len(watching) - 1
        /\ IsFiniteSet(down') /\ Cardinality(down') = Cardinality(down) + 1
        /\ down' \subseteq built' /\ down' \subseteq Watchers
    BY <2>1, <2>2, <2>3, ShutKeeps
  <2>5. Len(watching) \in Nat
    BY <2>2 DEF OnList
  <2> QED
    BY <1>0, <2>1, <2>2, <2>4, <2>5 DEF WatchInv
<1>3. CASE MainExits
  BY <1>3 DEF MainExits, WatchInv, OnList, Live
<1>4. CASE Join
  BY <1>4 DEF Join, WatchInv, OnList, Live
<1>5. CASE OnJoin
  <2>1. watchThread = "walking" /\ ~forkedOff /\ OnList /\ UNCHANGED <<mainThread, forkedOff, known, built>>
    BY <1>5 DEF OnJoin, WatchInv
  <2>2. Len(watching) \in Nat /\ place \in Nat \ {0}
    BY <2>1 DEF OnList, WatchInv
  <2>3. CASE place <= Len(watching) /\ Shut(watching[place]) /\ place' = place + 1 /\ UNCHANGED watchThread
    <3>1. place \in 1..Len(watching)
      BY <2>2, <2>3
    <3>2. /\ OnList' /\ Live' \subseteq Live
          /\ IsFiniteSet(down') /\ Cardinality(down') = Cardinality(down) + 1
          /\ down' \subseteq built' /\ down' \subseteq Watchers
      BY <2>1, <2>3, <3>1, ShutKeeps
    <3> QED
      BY <1>0, <2>1, <2>2, <2>3, <3>2 DEF WatchInv
  <2>4. CASE place > Len(watching) /\ watchThread' = "done" /\ UNCHANGED <<place, watching, down>>
    <3>1. OnList' /\ Live' = Live
      BY <2>1, <2>4 DEF OnList, Live
    <3> QED
      BY <2>1, <2>2, <2>4, <3>1 DEF WatchInv
  <2> QED
    BY <1>5, <2>3, <2>4 DEF OnJoin
<1>6. CASE UNCHANGED twVars
  BY <1>6 DEF twVars, WatchInv, OnList, Live
<1> QED
  BY <1>1, <1>2, <1>3, <1>4, <1>5, <1>6 DEF ThreadWatchNext

\* A broker that lives is on the list that a thread of its own process waits to walk, and the walk
\* misses at most one broker for each that was shut down: for any brokers, constructed and shut
\* down at any time by any thread, in a process of any history of forks.
THEOREM BrokersStayWatched == ThreadWatchSpec => []BrokersWatched
<1>1. WatchInv => BrokersWatched
  <2> SUFFICES ASSUME WatchInv PROVE BrokersWatched
    OBVIOUS
  <2>1. CASE forkedOff
    <3>1. Live = {} /\ watchThread = "none"
      BY <2>1 DEF WatchInv, Live
    <3> QED
      BY <3>1 DEF BrokersWatched, Live
  <2>2. CASE ~forkedOff
    <3>1. OnList /\ (Live # {} => watchThread # "none")
      BY <2>2 DEF WatchInv
    <3>2. \A b \in Live : Contains(watching, b)
      BY <3>1 DEF OnList, Contains, WatchInv, Live
    <3>3. watchThread = "done" => Cardinality(Live) <= Cardinality(down)
      <4>1. Cardinality(down) \in Nat
        BY FS_CardinalityType DEF WatchInv
      <4>2. Len(watching) \in Nat
        BY <3>1 DEF OnList
      <4> QED
        BY <3>1, <4>1, <4>2 DEF OnList, WatchInv
    <3> QED
      BY <3>1, <3>2, <3>3 DEF BrokersWatched, Live
  <2> QED
    BY <2>1, <2>2 DEF WatchInv
<1> QED
  BY <1>1, WatchInitially, WatchStep, PTL DEF ThreadWatchSpec

-----------------------------------------------------------------------------
(* Handlers: answers and the handlers that wait for them                        *)

Messages == {"dead", "reply"}
HandlerJobs == [does : {"request", "dead"}, h : Callers]
\* Callers in the middle of add_handler().
Registering == {"respondent", "create", "listen", "lookup", "add"}
\* Callers that have not asked anything yet, nor are listed for their respondent.
Unlisted == {"idle"} \union Registering
Asked == {"get", "done", "close", "unlist", "raised", "shut", "closed"}
HandlerPCs == Unlisted \union {"send"} \union Asked

\* The ranges of the fields, those of the steps of the broker apart.
HandlersFields ==
  /\ handleMap \subseteq Callers /\ crashes \subseteq Callers /\ sent \subseteq Callers /\ linked \subseteq Peers
  /\ hbr \in [Peers -> Nat] /\ sets \in [Peers -> Seq(SUBSET Callers)]
  /\ hobj \in [Callers -> Nat] /\ hpc \in [Callers -> HandlerPCs]
  /\ box \in [Callers -> Seq(Messages)]
  /\ jobs \in Seq(HandlerJobs)
InvokeStates == [at : {"pop", "discard", "put"}, h : Callers, msg : Messages]
FireStates == [at : {"fire"}, peer : Peers, nth : Nat]
WalkStates == [at : {"walk", "tell", "erase"}, peer : Peers, nth : Nat, obj : Nat, h : Callers \union {"none"},
               done : SUBSET Callers, size : {Cardinality(s) : s \in SUBSET Callers}]
\* Where the broker is, with what it holds there.
BrokerForm == bstate \in [at : {"idle", "exit", "stopped"}] \union InvokeStates \union FireStates \union WalkStates

\* The set in use for a respondent is the newest; a caller is listed in the set it has found.
Listed ==
  /\ \A p \in Peers : hbr[p] = 0 \/ hbr[p] = Len(sets[p])
  /\ \A c \in Callers : hobj[c] <= Len(sets[PeerOf[c]]) /\ (hpc[c] = "add" => hobj[c] # 0)
  /\ \A p \in Peers : \A i \in 1..Len(sets[p]) : \A c \in sets[p][i] :
       PeerOf[c] = p /\ hobj[c] = i /\ hpc[c] \notin Unlisted
\* The broker walks a set that is not in use any more.
Walking ==
  bstate.at \in {"walk", "tell", "erase"} =>
    /\ bstate.obj \in 1..Len(sets[bstate.peer]) /\ bstate.obj # hbr[bstate.peer]
    /\ bstate.at # "walk" => /\ bstate.h \in Callers /\ PeerOf[bstate.h] = bstate.peer
                             /\ hobj[bstate.h] = bstate.obj /\ hpc[bstate.h] \notin Unlisted
\* Handlers are registered before anything is asked, and answers are to what was asked.
Requested ==
  /\ \A c \in Callers : hpc[c] \in Registering /\ ~handlersExit => c \in handleMap
  /\ \A c \in handleMap : hpc[c] # "idle"
  /\ \A i \in 1..Len(jobs) : hpc[jobs[i].h] \in Asked
  /\ \A c \in sent : hpc[c] \in Asked
  /\ bstate.at \in {"pop", "discard", "put"} => hpc[bstate.h] \in Asked
  /\ bstate.at \in {"exit", "stopped"} => handlersExit
\* An answer and the handler it was for are not there at once, but while the broker erases it.
AnswerOnce ==
  /\ \A c \in Callers : box[c] # << >> =>
       /\ Len(box[c]) = 1 /\ hpc[c] # "idle"
       /\ c \in handleMap => bstate.at = "erase" /\ bstate.h = c
  /\ bstate.at \in {"discard", "put", "tell"} => box[bstate.h] = << >>
  /\ bstate.at \in {"discard", "put"} => bstate.h \notin handleMap

HandlersInv == HandlersFields /\ BrokerForm /\ Listed /\ Walking /\ Requested /\ AnswerOnce /\ NoStaleHandle

\* The fields of the broker, step by step.
LEMMA BrokerFields ==
  ASSUME BrokerForm
  PROVE  /\ bstate.at \in {"pop", "discard", "put"} => bstate \in InvokeStates /\ bstate.h \in Callers /\ bstate.msg \in Messages
         /\ bstate.at = "fire" => bstate \in FireStates /\ bstate.peer \in Peers
         /\ bstate.at \in {"walk", "tell", "erase"} => bstate \in WalkStates /\ bstate.peer \in Peers
<1>1. CASE bstate \in [at : {"idle", "exit", "stopped"}]
  <2>1. bstate.at \in {"idle", "exit", "stopped"}
    BY <1>1
  <2> QED
    BY <2>1
<1>2. CASE bstate \in InvokeStates
  <2>1. bstate.at \in {"pop", "discard", "put"} /\ bstate.h \in Callers /\ bstate.msg \in Messages
    BY <1>2 DEF InvokeStates
  <2> QED
    BY <1>2, <2>1
<1>3. CASE bstate \in FireStates
  <2>1. bstate.at = "fire" /\ bstate.peer \in Peers
    BY <1>3 DEF FireStates
  <2> QED
    BY <1>3, <2>1
<1>4. CASE bstate \in WalkStates
  <2>1. bstate.at \in {"walk", "tell", "erase"} /\ bstate.peer \in Peers
    BY <1>4 DEF WalkStates
  <2> QED
    BY <1>4, <2>1
<1> QED
  BY <1>1, <1>2, <1>3, <1>4 DEF BrokerForm

LEMMA JobFields ==
  ASSUME HandlersFields
  PROVE  \A i \in 1..Len(jobs) : jobs[i] \in HandlerJobs /\ jobs[i].h \in Callers
<1>1. \A i \in 1..Len(jobs) : jobs[i] \in HandlerJobs
  BY DEF HandlersFields
<1>2. \A j \in HandlerJobs : j.h \in Callers
  BY DEF HandlerJobs
<1> QED
  BY <1>1, <1>2

\* One element of a sequence changes.
LEMMA OneChanges ==
  ASSUME NEW S, NEW s \in Seq(S), NEW i \in 1..Len(s), NEW x \in S
  PROVE  /\ [s EXCEPT ![i] = x] \in Seq(S) /\ Len([s EXCEPT ![i] = x]) = Len(s)
         /\ \A j \in 1..Len(s) : [s EXCEPT ![i] = x][j] = IF j = i THEN x ELSE s[j]
  OBVIOUS

LEMMA InitHandlers == HandlersInit => HandlersInv
<1> SUFFICES ASSUME HandlersInit PROVE HandlersInv
  OBVIOUS
<1> USE DEF HandlersInit, Nobody
<1>1. HandlersFields
  BY DEF HandlersFields, HandlerPCs, Unlisted, Registering
<1>2. BrokerForm
  BY DEF BrokerForm
<1>3. Listed
  <2>1. \A p \in Peers : Len(sets[p]) = 0 /\ 1..Len(sets[p]) = {}
    OBVIOUS
  <2>2. \A c \in Callers : PeerOf[c] \in Peers
    BY HandlersAssumption
  <2> QED
    BY <2>1, <2>2 DEF Listed
<1>4. Walking /\ Requested /\ AnswerOnce /\ NoStaleHandle
  BY DEF Walking, Requested, Registering, AnswerOnce, NoStaleHandle
<1> QED
  BY <1>1, <1>2, <1>3, <1>4 DEF HandlersInv

-----------------------------------------------------------------------------
(* The callers *)

\* A caller that moves on without touching the tables.
LEMMA MovesOn ==
  ASSUME HandlersInv, NEW c \in Callers, hpc[c] # "idle",
         NEW to \in HandlerPCs, to # "idle", hpc' = [hpc EXCEPT ![c] = to],
         hpc[c] \notin Unlisted => to \notin Unlisted,
         hpc[c] \in Asked => to \in Asked,
         to \in Registering => hpc[c] \in Registering,
         to # "add", hpc[c] # "unlist",
         UNCHANGED <<handleMap, hbr, sets, linked, sent, box, hobj, bstate, handlersExit, crashes, jobs>>
  PROVE  HandlersInv'
<1> USE DEF HandlersInv
<1>1. HandlersFields'
  BY DEF HandlersFields
<1>2. \A d \in Callers : hpc'[d] = IF d = c THEN to ELSE hpc[d]
  BY DEF HandlersFields
<1>3. BrokerForm'
  BY DEF BrokerForm
<1>4. Listed'
  BY <1>2 DEF Listed, HandlersFields
<1>5. Walking'
  BY <1>2 DEF Walking
<1>6. Requested' /\ AnswerOnce'
  BY <1>2 DEF Requested, AnswerOnce, BrokerForm, HandlersFields, InvokeStates
<1>7. NoStaleHandle'
  BY <1>2 DEF NoStaleHandle, Known
<1> QED
  BY <1>1, <1>3, <1>4, <1>5, <1>6, <1>7

LEMMA AddHandleKeeps ==
  ASSUME HandlersInv, NEW c \in Callers, AddHandle(c)
  PROVE  HandlersInv'
<1> USE DEF HandlersInv, AddHandle, Goto
<1>1. HandlersFields' /\ BrokerForm'
  BY DEF HandlersFields, BrokerForm, HandlerPCs, Unlisted, Registering
<1>2. \A d \in Callers : hpc'[d] = IF d = c THEN "respondent" ELSE hpc[d]
  BY DEF HandlersFields
<1>3. bstate.at \in {"pop", "discard", "put"} => bstate.h # c /\ bstate.h \in Callers
  BY DEF Requested, Asked, BrokerForm, InvokeStates, FireStates, WalkStates, Registering
<1>4. Listed'
  BY <1>2 DEF Listed, HandlersFields, Unlisted, Registering
<1>5. Walking'
  BY <1>2 DEF Walking, Unlisted, Registering
<1>6. Requested'
  BY <1>2, <1>3 DEF Requested, HandlersFields, Asked, Registering
<1>7. AnswerOnce'
  BY <1>2, <1>3 DEF AnswerOnce
<1>8. NoStaleHandle'
  BY <1>2 DEF NoStaleHandle, Known
<1> QED
  BY <1>1, <1>4, <1>5, <1>6, <1>7, <1>8

LEMMA RegisterKeeps ==
  ASSUME HandlersInv, NEW c \in Callers, TestRespondent(c) \/ Listen(c)
  PROVE  HandlersInv'
<1>1. PICK to \in {"create", "lookup"} : hpc' = [hpc EXCEPT ![c] = to]
  BY DEF TestRespondent, Listen, Goto
<1>2. /\ hpc[c] \in {"respondent", "listen"}
      /\ UNCHANGED <<handleMap, hbr, sets, linked, sent, box, hobj, bstate, handlersExit, crashes, jobs>>
  BY DEF TestRespondent, Listen, Goto, tableVars
<1>3. /\ to \in HandlerPCs /\ to \in Registering /\ to # "add" /\ to # "idle"
      /\ hpc[c] \in Registering /\ hpc[c] \in Unlisted /\ hpc[c] \notin Asked /\ hpc[c] \notin {"idle", "unlist"}
  BY <1>1, <1>2 DEF HandlerPCs, Registering, Unlisted, Asked
<1> QED
  BY <1>1, <1>2, <1>3, MovesOn

LEMMA CreateSetKeeps ==
  ASSUME HandlersInv, NEW c \in Callers, CreateSet(c)
  PROVE  HandlersInv'
<1> DEFINE p == PeerOf[c]
<1> USE DEF HandlersInv, CreateSet, Goto
<1>0. p \in Peers
  BY HandlersAssumption
<1>1. \A d \in Callers : hpc'[d] = IF d = c THEN "listen" ELSE hpc[d]
  BY DEF HandlersFields
<1>2. hpc' \in [Callers -> HandlerPCs] /\ UNCHANGED <<handleMap, hobj, box, jobs, sent, bstate, handlersExit, crashes, linked>>
  BY DEF HandlersFields, HandlerPCs, Unlisted, Registering
<1>3. /\ sets' \in [Peers -> Seq(SUBSET Callers)] /\ hbr' \in [Peers -> Nat]
      /\ \A q \in Peers : /\ Len(sets'[q]) >= Len(sets[q]) /\ \A i \in 1..Len(sets[q]) : sets'[q][i] = sets[q][i]
                          /\ \A i \in 1..Len(sets'[q]) : i > Len(sets[q]) => sets'[q][i] = {}
                          /\ hbr'[q] = 0 \/ hbr'[q] = Len(sets'[q])
                          /\ hbr'[q] # hbr[q] => hbr'[q] = Len(sets[q]) + 1
  <2>1. sets' = [sets EXCEPT ![p] = Append(sets[p], {})] /\ hbr' = [hbr EXCEPT ![p] = Len(sets[p]) + 1]
    OBVIOUS
  <2>2. sets[p] \in Seq(SUBSET Callers) /\ {} \in SUBSET Callers
    BY <1>0 DEF HandlersFields
  <2> DEFINE s == Append(sets[p], {})
  <2>3. /\ s \in Seq(SUBSET Callers) /\ Len(s) = Len(sets[p]) + 1 /\ Len(sets[p]) \in Nat /\ s[Len(sets[p]) + 1] = {}
        /\ \A i \in 1..Len(sets[p]) : s[i] = sets[p][i]
    BY <2>2
  <2> HIDE DEF s
  <2>4. \A q \in Peers : sets'[q] = (IF q = p THEN s ELSE sets[q]) /\ hbr'[q] = IF q = p THEN Len(sets[p]) + 1 ELSE hbr[q]
    BY <2>1 DEF s, HandlersFields
  <2>5. sets' \in [Peers -> Seq(SUBSET Callers)] /\ hbr' \in [Peers -> Nat]
    <3>1. [sets EXCEPT ![p] = s] \in [Peers -> Seq(SUBSET Callers)]
      BY <2>3 DEF HandlersFields
    <3> QED
      BY <2>1, <2>3, <3>1 DEF s, HandlersFields
  <2>6. ASSUME NEW q \in Peers
        PROVE  /\ Len(sets'[q]) >= Len(sets[q]) /\ \A i \in 1..Len(sets[q]) : sets'[q][i] = sets[q][i]
               /\ \A i \in 1..Len(sets'[q]) : i > Len(sets[q]) => sets'[q][i] = {}
               /\ hbr'[q] = 0 \/ hbr'[q] = Len(sets'[q])
               /\ hbr'[q] # hbr[q] => hbr'[q] = Len(sets[q]) + 1
    <3>1. Len(sets[q]) \in Nat
      BY DEF HandlersFields
    <3>2. CASE q = p
      <4>1. \A i \in 1..Len(s) : i > Len(sets[p]) => i = Len(sets[p]) + 1
        BY <2>3
      <4> QED
        BY <3>2, <2>3, <2>4, <4>1
    <3>3. CASE q # p
      BY <3>1, <3>3, <2>4 DEF Listed
    <3> QED
      BY <3>2, <3>3
  <2> QED
    BY <2>5, <2>6
<1>4. HandlersFields' /\ BrokerForm'
  BY <1>2, <1>3 DEF HandlersFields, BrokerForm
<1>5. \A d \in Callers : PeerOf[d] \in Peers /\ hobj[d] \in Nat /\ Len(sets[PeerOf[d]]) \in Nat /\ Len(sets'[PeerOf[d]]) \in Nat
  BY <1>4, HandlersAssumption DEF HandlersFields
<1>6. Listed'
  <2>1. \A d \in Callers : hobj[d] <= Len(sets'[PeerOf[d]]) /\ (hpc'[d] = "add" => hobj[d] # 0)
    BY <1>1, <1>3, <1>5 DEF Listed
  <2>2. ASSUME NEW q \in Peers, NEW i \in 1..Len(sets'[q]), NEW d \in sets'[q][i]
        PROVE  PeerOf[d] = q /\ hobj[d] = i /\ hpc'[d] \notin Unlisted
    <3>1. Len(sets[q]) \in Nat /\ Len(sets'[q]) \in Nat
      <4> HIDE DEF HandlersInv, CreateSet, Goto
      <4>1. sets \in [Peers -> Seq(SUBSET Callers)]
        BY DEF HandlersInv, HandlersFields
      <4>2. sets[q] \in Seq(SUBSET Callers) /\ sets'[q] \in Seq(SUBSET Callers)
        BY <1>3, <4>1
      <4> QED
        BY <4>2
    <3>2. i \in 1..Len(sets[q]) /\ d \in sets[q][i]
      <4>1. i > Len(sets[q]) => sets'[q][i] = {}
        BY <1>3
      <4>2. i \in 1..Len(sets[q])
        BY <3>1, <4>1
      <4>3. sets'[q][i] = sets[q][i]
        BY <1>3, <4>2
      <4> QED
        BY <4>2, <4>3
    <3>3. d \in Callers
      BY <3>1, <3>2 DEF HandlersFields
    <3> QED
      BY <3>2, <3>3, <1>1 DEF Listed, Unlisted, Registering
  <2> QED
    BY <1>2, <1>3, <2>1, <2>2 DEF Listed
<1>7. Walking'
  <2> SUFFICES ASSUME bstate.at \in {"walk", "tell", "erase"} PROVE Walking'
    BY <1>2 DEF Walking
  <2>1. bstate.peer \in Peers /\ Len(sets[bstate.peer]) \in Nat /\ Len(sets'[bstate.peer]) \in Nat
    BY <1>4, BrokerFields DEF HandlersFields
  <2>2. bstate.obj \in 1..Len(sets'[bstate.peer]) /\ bstate.obj # hbr'[bstate.peer]
    BY <2>1, <1>3 DEF Walking
  <2> QED
    BY <2>2, <1>1, <1>2 DEF Walking, Unlisted, Registering
<1>8. Requested' /\ AnswerOnce'
  <2>1. \A d \in Callers : (hpc'[d] = "idle" <=> hpc[d] = "idle") /\ (hpc[d] \in Asked => hpc'[d] \in Asked)
                           /\ (hpc'[d] \in Registering => hpc[d] \in Registering)
    BY <1>1 DEF Asked, Registering
  <2>2. \A i \in 1..Len(jobs) : jobs[i].h \in Callers
    BY JobFields
  <2>3. bstate.at \in {"pop", "discard", "put"} => bstate.h \in Callers
    BY BrokerFields
  <2>4. Requested'
    BY <2>1, <2>2, <2>3, <1>2 DEF Requested, HandlersFields
  <2>5. AnswerOnce'
    BY <2>1, <1>2 DEF AnswerOnce, HandlersFields
  <2> QED
    BY <2>4, <2>5
<1>9. NoStaleHandle'
  <2>9. hpc[c] = "create"
    OBVIOUS
  <2> HIDE DEF CreateSet, Goto, HandlersInv
  <2> SUFFICES ASSUME NEW q \in Peers, hbr'[q] # 0, ~handlersExit, NEW h \in sets'[q][hbr'[q]]
               PROVE  h \in handleMap \/ hpc'[h] = "unlist" \/ (bstate.at = "discard" /\ bstate.h = h)
    BY <1>2 DEF NoStaleHandle, Known
  <2>0. Len(sets[q]) \in Nat /\ Len(sets'[q]) \in Nat
    BY <1>4 DEF HandlersFields, HandlersInv
  <2>1. CASE hbr'[q] # hbr[q]
    BY <2>0, <2>1, <1>3
  <2>2. CASE hbr'[q] = hbr[q]
    <3>1. hbr[q] \in 1..Len(sets[q]) /\ h \in sets[q][hbr[q]] /\ hbr[q] # 0
      BY <2>0, <2>2, <1>3 DEF Listed, HandlersFields, HandlersInv
    <3>2. h \in Callers /\ hpc[h] # "create"
      BY <2>0, <3>1 DEF Listed, HandlersFields, Unlisted, Registering, HandlersInv
    <3>3. hpc'[h] = hpc[h]
      BY <1>1, <2>9, <3>2
    <3>4. h \in handleMap \/ hpc[h] = "unlist" \/ (bstate.at = "discard" /\ bstate.h = h)
      BY <3>1, <1>2 DEF NoStaleHandle, Known, HandlersInv
    <3> QED
      BY <3>3, <3>4
  <2> QED
    BY <2>1, <2>2
<1> QED
  BY <1>4, <1>6, <1>7, <1>8, <1>9

LEMMA LookupKeeps ==
  ASSUME HandlersInv, NEW c \in Callers, LookupSet(c)
  PROVE  HandlersInv'
<1> DEFINE p == PeerOf[c]
<1> USE DEF HandlersInv, LookupSet, Goto
<1>0. p \in Peers /\ hbr[p] \in Nat /\ \A d \in Callers : PeerOf[d] \in Peers /\ Len(sets[PeerOf[d]]) \in Nat
  <2>1. \A d \in Callers : PeerOf[d] \in Peers
    BY HandlersAssumption
  <2> QED
    BY <2>1 DEF HandlersFields
<1>1. \A d \in Callers : hpc'[d] = IF d = c THEN (IF hbr[p] = 0 THEN "raised" ELSE "add") ELSE hpc[d]
  BY DEF HandlersFields
<1>2. \A d \in Callers : hobj'[d] = IF d = c THEN hbr[p] ELSE hobj[d]
  BY DEF HandlersFields
<1>3. UNCHANGED <<handleMap, hbr, sets, box, jobs, sent, bstate, handlersExit, crashes, linked>>
  BY DEF tableVars
<1>4. hpc' \in [Callers -> HandlerPCs] /\ hobj' \in [Callers -> Nat]
  BY <1>0 DEF HandlersFields, HandlerPCs, Unlisted, Asked, Registering
<1>5. HandlersFields' /\ BrokerForm'
  BY <1>3, <1>4 DEF HandlersFields, BrokerForm
<1>6. Listed'
  <2>1. \A d \in Callers : hobj'[d] <= Len(sets[PeerOf[d]]) /\ (hpc'[d] = "add" => hobj'[d] # 0)
    BY <1>0, <1>1, <1>2 DEF Listed
  <2>2. ASSUME NEW q \in Peers, NEW i \in 1..Len(sets[q]), NEW d \in sets[q][i]
        PROVE  PeerOf[d] = q /\ hobj'[d] = i /\ hpc'[d] \notin Unlisted
    <3>1. d \in Callers
      BY DEF HandlersFields
    <3>2. d # c
      BY DEF Listed, Unlisted, Registering
    <3> QED
      BY <3>1, <3>2, <1>1, <1>2 DEF Listed
  <2> QED
    BY <1>3, <2>1, <2>2 DEF Listed
<1>7. Walking'
  BY <1>1, <1>2, <1>3 DEF Walking, Unlisted, Registering
<1>8. Requested'
  <2>1. \A d \in Callers : (hpc'[d] = "idle" <=> hpc[d] = "idle") /\ (hpc[d] \in Asked => hpc'[d] \in Asked)
                           /\ (hpc'[d] \in Registering => hpc[d] \in Registering)
    BY <1>1 DEF Asked, Registering
  <2> QED
    BY <2>1, <1>3, JobFields, BrokerFields DEF Requested, HandlersFields
<1>9. AnswerOnce'
  BY <1>1, <1>3 DEF AnswerOnce
<1>10. NoStaleHandle'
  BY <1>1, <1>3 DEF NoStaleHandle, Known, HandlersFields
<1> QED
  BY <1>5, <1>6, <1>7, <1>8, <1>9, <1>10

LEMMA AddToSetKeeps ==
  ASSUME HandlersInv, NEW c \in Callers, AddToSet(c)
  PROVE  HandlersInv'
<1> DEFINE p == PeerOf[c]
           o == hobj[c]
<1> USE DEF HandlersInv, AddToSet, Goto
<1>0. p \in Peers /\ o \in Nat /\ o # 0 /\ o <= Len(sets[p]) /\ Len(sets[p]) \in Nat /\ hpc[c] = "add"
  <2>1. p \in Peers
    BY HandlersAssumption
  <2> QED
    BY <2>1 DEF HandlersFields, Listed
<1>1. \A d \in Callers : hpc'[d] = IF d = c THEN "send" ELSE hpc[d]
  BY DEF HandlersFields
<1>2. UNCHANGED <<handleMap, hbr, hobj, box, jobs, sent, bstate, handlersExit, crashes, linked>>
  BY DEF tableVars
<1>3. o \in 1..Len(sets[p]) /\ sets[p] \in Seq(SUBSET Callers)
  BY <1>0 DEF HandlersFields
<1>4. /\ sets' \in [Peers -> Seq(SUBSET Callers)]
      /\ \A q \in Peers : Len(sets'[q]) = Len(sets[q])
      /\ \A q \in Peers : \A i \in 1..Len(sets[q]) :
           sets'[q][i] = IF q = p /\ i = o THEN sets[q][i] \union {c} ELSE sets[q][i]
  <2> DEFINE s == [sets[p] EXCEPT ![o] = @ \union {c}]
  <2>0. sets[p][o] \union {c} \in SUBSET Callers
    BY <1>3
  <2> DEFINE x == sets[p][o] \union {c}
             t == sets[p]
  <2>1. s = [t EXCEPT ![o] = x]
    OBVIOUS
  <2>2. t \in Seq(SUBSET Callers) /\ o \in 1..Len(t) /\ x \in SUBSET Callers /\ x = t[o] \union {c}
    BY <1>3, <2>0
  <2>3. sets' = [sets EXCEPT ![p] = s]
    OBVIOUS
  <2> HIDE DEF s, x, t, o
  <2>4. s \in Seq(SUBSET Callers) /\ Len(s) = Len(t) /\ \A i \in 1..Len(t) : s[i] = IF i = o THEN x ELSE t[i]
    BY <2>1, <2>2, OneChanges
  <2>5. \A i \in 1..Len(t) : s[i] = IF i = o THEN t[i] \union {c} ELSE t[i]
    BY <2>2, <2>4
  <2>6. \A q \in Peers : sets'[q] = IF q = p THEN s ELSE sets[q]
    BY <2>3 DEF HandlersFields
  <2>7. sets' \in [Peers -> Seq(SUBSET Callers)]
    BY <2>3, <2>4 DEF HandlersFields
  <2> QED
    BY <2>4, <2>5, <2>6, <2>7 DEF t
<1>5. HandlersFields' /\ BrokerForm'
  <2>1. hpc' \in [Callers -> HandlerPCs]
    BY DEF HandlersFields, HandlerPCs, Registering
  <2> QED
    BY <1>2, <1>4, <2>1 DEF HandlersFields, BrokerForm
<1>6. Listed'
  <2>1. \A d \in Callers : hobj[d] <= Len(sets'[PeerOf[d]]) /\ (hpc'[d] = "add" => hobj[d] # 0)
    BY <1>1, <1>4, HandlersAssumption DEF Listed
  <2>2. ASSUME NEW q \in Peers, NEW i \in 1..Len(sets'[q]), NEW d \in sets'[q][i]
        PROVE  PeerOf[d] = q /\ hobj[d] = i /\ hpc'[d] \notin Unlisted
    <3>1. i \in 1..Len(sets[q])
      BY <1>4
    <3>2. CASE d = c
      <4>1. c \notin sets[q][i]
        BY <1>0, <3>1 DEF Listed, Unlisted, Registering
      <4> QED
        BY <3>1, <3>2, <4>1, <1>1, <1>4 DEF Unlisted, Registering
    <3>3. CASE d # c
      <4>1. d \in sets[q][i] /\ d \in Callers
        BY <3>1, <3>3, <1>4 DEF HandlersFields
      <4> QED
        BY <3>1, <3>3, <4>1, <1>1 DEF Listed
    <3> QED
      BY <3>2, <3>3
  <2>3. \A q \in Peers : hbr[q] = 0 \/ hbr[q] = Len(sets'[q])
    BY <1>4 DEF Listed
  <2> QED
    BY <1>2, <2>1, <2>2, <2>3 DEF Listed
<1>7. Walking'
  <2> SUFFICES ASSUME bstate.at \in {"walk", "tell", "erase"} PROVE Walking'
    BY <1>2 DEF Walking
  <2>1. Len(sets'[bstate.peer]) = Len(sets[bstate.peer])
    BY <1>4, BrokerFields
  <2> QED
    BY <2>1, <1>1, <1>2 DEF Walking, Unlisted, Registering
<1>8. Requested'
  <2>1. \A d \in Callers : (hpc'[d] = "idle" <=> hpc[d] = "idle") /\ (hpc[d] \in Asked => hpc'[d] \in Asked)
                           /\ (hpc'[d] \in Registering => hpc[d] \in Registering)
    BY <1>0, <1>1 DEF Asked, Registering
  <2> QED
    BY <2>1, <1>2, JobFields, BrokerFields DEF Requested, HandlersFields
<1>9. AnswerOnce'
  BY <1>1, <1>2 DEF AnswerOnce
<1>10. NoStaleHandle'
  <2> SUFFICES ASSUME NEW q \in Peers, hbr[q] # 0, ~handlersExit, NEW h \in sets'[q][hbr[q]]
               PROVE  h \in handleMap \/ hpc'[h] = "unlist" \/ (bstate.at = "discard" /\ bstate.h = h)
    BY <1>2 DEF NoStaleHandle, Known
  <2>0. hbr[q] \in 1..Len(sets[q])
    BY DEF HandlersFields, Listed
  <2>1. CASE h = c
    BY <1>0, <2>1 DEF Requested, Registering
  <2>2. CASE h # c
    <3>1. h \in sets[q][hbr[q]] /\ h \in Callers
      BY <1>4, <2>0, <2>2 DEF HandlersFields
    <3> QED
      BY <2>2, <3>1, <1>1 DEF NoStaleHandle, Known
  <2> QED
    BY <2>1, <2>2
<1> QED
  BY <1>5, <1>6, <1>7, <1>8, <1>9, <1>10

LEMMA SendKeeps ==
  ASSUME HandlersInv, NEW c \in Callers, SendAsync(c)
  PROVE  HandlersInv'
<1> USE DEF HandlersInv, SendAsync, Goto
<1>1. \A d \in Callers : hpc'[d] = IF d = c THEN (IF handlersExit THEN "raised" ELSE "get") ELSE hpc[d]
  BY DEF HandlersFields
<1>2. UNCHANGED <<handleMap, hbr, sets, hobj, box, sent, bstate, handlersExit, crashes, linked>>
  BY DEF tableVars
<1>3. jobs' \in Seq(HandlerJobs) /\ \A i \in 1..Len(jobs') : jobs'[i].h = c \/ (i \in 1..Len(jobs) /\ jobs'[i] = jobs[i])
  <2>1. jobs \in Seq(HandlerJobs)
    BY DEF HandlersFields
  <2>2. CASE jobs' = jobs
    BY <2>1, <2>2
  <2>3. CASE jobs' = Append(jobs, [does |-> "request", h |-> c])
    <3> DEFINE r == [does |-> "request", h |-> c]
    <3>1. r.h = c /\ r \in HandlerJobs
      BY DEF HandlerJobs
    <3>2. jobs' = Append(jobs, r)
      BY <2>3
    <3> HIDE DEF r
    <3> QED
      BY <2>1, <3>1, <3>2
  <2> QED
    BY <2>2, <2>3
<1>4. HandlersFields' /\ BrokerForm'
  <2>1. hpc' \in [Callers -> HandlerPCs]
    BY DEF HandlersFields, HandlerPCs, Asked, Registering
  <2> QED
    BY <1>2, <1>3, <2>1 DEF HandlersFields, BrokerForm
<1>5. Listed' /\ Walking'
  <2>1. \A d \in Callers : (hpc[d] \notin Unlisted => hpc'[d] \notin Unlisted) /\ (hpc'[d] = "add" => hpc[d] = "add")
    BY <1>1 DEF Unlisted, Registering
  <2>2. \A p \in Peers : \A i \in 1..Len(sets[p]) : sets[p][i] \subseteq Callers
    BY DEF HandlersFields
  <2>3. Listed'
    BY <2>1, <2>2, <1>2 DEF Listed
  <2> QED
    BY <2>1, <2>3, <1>2 DEF Walking
<1>6. Requested'
  <2>1. \A d \in Callers : (hpc'[d] = "idle" <=> hpc[d] = "idle") /\ (hpc[d] \in Asked => hpc'[d] \in Asked)
                           /\ (hpc'[d] \in Registering => hpc[d] \in Registering)
    BY <1>1 DEF Asked, Registering
  <2>2. hpc'[c] \in Asked
    BY <1>1 DEF Asked, Registering
  <2>3. \A i \in 1..Len(jobs') : hpc'[jobs'[i].h] \in Asked
    BY <1>3, <2>1, <2>2, JobFields DEF Requested
  <2> QED
    BY <2>1, <2>3, <1>2, BrokerFields DEF Requested, HandlersFields
<1>7. AnswerOnce'
  BY <1>1, <1>2 DEF AnswerOnce
<1>8. NoStaleHandle'
  BY <1>1, <1>2 DEF NoStaleHandle, Known, HandlersFields
<1> QED
  BY <1>4, <1>5, <1>6, <1>7, <1>8

LEMMA SmallerSets ==
  ASSUME HandlersFields, Listed, sets' \in [Peers -> Seq(SUBSET Callers)],
         \A q \in Peers : Len(sets'[q]) = Len(sets[q]) /\ \A i \in 1..Len(sets[q]) : sets'[q][i] \subseteq sets[q][i],
         UNCHANGED <<hbr, hobj>>,
         \A d \in Callers : (hpc[d] \notin Unlisted => hpc'[d] \notin Unlisted) /\ (hpc'[d] = "add" => hpc[d] = "add")
  PROVE  Listed'
<1>1. \A d \in Callers : hobj[d] <= Len(sets'[PeerOf[d]])
  BY HandlersAssumption DEF Listed
<1>2. ASSUME NEW q \in Peers, NEW i \in 1..Len(sets'[q]), NEW d \in sets'[q][i]
      PROVE  PeerOf[d] = q /\ hobj[d] = i /\ hpc'[d] \notin Unlisted
  <2>1. i \in 1..Len(sets[q]) /\ d \in sets[q][i]
    OBVIOUS
  <2>2. d \in Callers
    BY <2>1 DEF HandlersFields
  <2> QED
    BY <2>1, <2>2 DEF Listed
<1> QED
  BY <1>1, <1>2 DEF Listed

\* Forgetting a caller for its respondent.
LEMMA DiscardDoes ==
  ASSUME HandlersFields, Listed, NEW c \in Callers
  PROVE  /\ Discard(c) \in [Peers -> Seq(SUBSET Callers)]
         /\ \A q \in Peers : /\ Len(Discard(c)[q]) = Len(sets[q])
                             /\ \A i \in 1..Len(sets[q]) : Discard(c)[q][i] \subseteq sets[q][i]
         /\ hbr[PeerOf[c]] # 0 => c \notin Discard(c)[PeerOf[c]][hbr[PeerOf[c]]]
<1> DEFINE p == PeerOf[c]
           t == sets[p]
           o == hbr[p]
<1>1. p \in Peers
  BY HandlersAssumption
<1>2. t \in Seq(SUBSET Callers) /\ o \in Nat /\ (o = 0 \/ o = Len(t))
  BY <1>1 DEF HandlersFields, Listed
<1>3. CASE o = 0
  <2>1. Discard(c) = sets
    BY <1>3 DEF Discard
  <2> QED
    BY <2>1, <1>3 DEF HandlersFields
<1>4. CASE o # 0
  <2> DEFINE x == t[o] \ {c}
             s == [t EXCEPT ![o] = x]
  <2>1. o \in 1..Len(t)
    BY <1>2, <1>4
  <2>2. x \in SUBSET Callers
    BY <2>1, <1>2
  <2>3. Discard(c) = [sets EXCEPT ![p] = s]
    BY <1>4 DEF Discard
  <2>4. x = t[o] \ {c}
    OBVIOUS
  <2>5. s \in Seq(SUBSET Callers) /\ Len(s) = Len(t) /\ \A i \in 1..Len(t) : s[i] = IF i = o THEN x ELSE t[i]
    <3> HIDE DEF x, t, o
    <3> QED
      BY <1>2, <2>1, <2>2, OneChanges
  <2> HIDE DEF s, x, t, o
  <2>6. \A q \in Peers : Discard(c)[q] = IF q = p THEN s ELSE sets[q]
    BY <2>3 DEF HandlersFields
  <2>7. Discard(c) \in [Peers -> Seq(SUBSET Callers)]
    BY <2>3, <2>5 DEF HandlersFields
  <2>8. \A i \in 1..Len(t) : s[i] \subseteq t[i]
    BY <2>4, <2>5
  <2>9. c \notin s[o]
    BY <2>1, <2>4, <2>5
  <2>10. Discard(c)[p] = s
    BY <2>6, <1>1
  <2>11. c \notin Discard(c)[PeerOf[c]][hbr[PeerOf[c]]]
    BY <2>9, <2>10 DEF o
  <2>12. ASSUME NEW q \in Peers
         PROVE  Len(Discard(c)[q]) = Len(sets[q]) /\ \A i \in 1..Len(sets[q]) : Discard(c)[q][i] \subseteq sets[q][i]
    <3>1. CASE q = p
      BY <3>1, <2>5, <2>8, <2>10 DEF t
    <3>2. CASE q # p
      BY <3>2, <2>6
    <3> QED
      BY <3>1, <3>2
  <2> QED
    BY <2>7, <2>11, <2>12
<1> QED
  BY <1>3, <1>4

LEMMA ClosePopKeeps ==
  ASSUME HandlersInv, NEW c \in Callers, ClosePop(c)
  PROVE  HandlersInv'
<1> USE DEF HandlersInv, ClosePop, Goto
<1>1. \A d \in Callers : hpc'[d] = IF d = c THEN (IF c \in handleMap THEN "unlist" ELSE "raised") ELSE hpc[d]
  BY DEF HandlersFields
<1>2. UNCHANGED <<hbr, sets, hobj, box, jobs, sent, bstate, handlersExit, crashes, linked>> /\ hpc[c] = "close"
  OBVIOUS
<1>3. HandlersFields' /\ BrokerForm'
  <2>1. hpc' \in [Callers -> HandlerPCs]
    BY DEF HandlersFields, HandlerPCs, Asked, Registering
  <2> QED
    BY <1>2, <2>1 DEF HandlersFields, BrokerForm
<1>4. \A d \in Callers : /\ (hpc'[d] = "idle" <=> hpc[d] = "idle") /\ (hpc[d] \in Asked => hpc'[d] \in Asked)
                         /\ hpc'[d] \in Registering => hpc[d] \in Registering /\ d # c
                         /\ (hpc[d] \notin Unlisted => hpc'[d] \notin Unlisted) /\ (hpc'[d] = "add" => hpc[d] = "add")
  BY <1>1, <1>2 DEF Asked, Unlisted, Registering
<1>5. Listed'
  BY <1>2, <1>4, SmallerSets DEF HandlersFields
<1>6. Walking'
  BY <1>2, <1>4 DEF Walking
<1>7. Requested'
  BY <1>2, <1>4, JobFields, BrokerFields DEF Requested, HandlersFields
<1>8. AnswerOnce'
  BY <1>2, <1>4 DEF AnswerOnce
<1>9. NoStaleHandle'
  <2> SUFFICES ASSUME NEW q \in Peers, hbr[q] # 0, ~handlersExit, NEW h \in sets[q][hbr[q]]
               PROVE  h \in handleMap' \/ hpc'[h] = "unlist" \/ (bstate.at = "discard" /\ bstate.h = h)
    BY <1>2 DEF NoStaleHandle, Known
  <2>1. h \in handleMap \/ hpc[h] = "unlist" \/ (bstate.at = "discard" /\ bstate.h = h)
    BY DEF NoStaleHandle, Known
  <2>2. hbr[q] \in 1..Len(sets[q])
    BY DEF HandlersFields, Listed
  <2>3. h \in Callers
    BY <2>2 DEF HandlersFields
  <2> QED
    BY <2>1, <2>3, <1>1, <1>2
<1> QED
  BY <1>3, <1>5, <1>6, <1>7, <1>8, <1>9

LEMMA CloseUnlistKeeps ==
  ASSUME HandlersInv, NEW c \in Callers, CloseUnlist(c)
  PROVE  HandlersInv'
<1> USE DEF HandlersInv, CloseUnlist, Goto
<1>1. \A d \in Callers : hpc'[d] = IF d = c THEN (IF hbr[PeerOf[c]] = 0 THEN "raised" ELSE "shut") ELSE hpc[d]
  BY DEF HandlersFields
<1>2. UNCHANGED <<handleMap, hbr, hobj, box, jobs, sent, bstate, handlersExit, crashes, linked>> /\ hpc[c] = "unlist"
  OBVIOUS
<1>3. /\ sets' \in [Peers -> Seq(SUBSET Callers)]
      /\ \A q \in Peers : Len(sets'[q]) = Len(sets[q]) /\ \A i \in 1..Len(sets[q]) : sets'[q][i] \subseteq sets[q][i]
      /\ hbr[PeerOf[c]] # 0 => c \notin sets'[PeerOf[c]][hbr[PeerOf[c]]]
  BY DiscardDoes
<1>4. HandlersFields' /\ BrokerForm'
  <2>1. hpc' \in [Callers -> HandlerPCs]
    BY DEF HandlersFields, HandlerPCs, Asked, Registering
  <2> QED
    BY <1>2, <1>3, <2>1 DEF HandlersFields, BrokerForm
<1>5. \A d \in Callers : /\ (hpc'[d] = "idle" <=> hpc[d] = "idle") /\ (hpc[d] \in Asked => hpc'[d] \in Asked)
                         /\ hpc'[d] \in Registering => hpc[d] \in Registering
                         /\ (hpc[d] \notin Unlisted => hpc'[d] \notin Unlisted) /\ (hpc'[d] = "add" => hpc[d] = "add")
  BY <1>1, <1>2 DEF Asked, Unlisted, Registering
<1>6. Listed'
  BY <1>2, <1>3, <1>5, SmallerSets
<1>7. Walking'
  BY <1>2, <1>3, <1>5, BrokerFields DEF Walking
<1>8. Requested'
  BY <1>2, <1>5, JobFields, BrokerFields DEF Requested, HandlersFields
<1>9. AnswerOnce'
  BY <1>2, <1>5 DEF AnswerOnce
<1>10. NoStaleHandle'
  <2> SUFFICES ASSUME NEW q \in Peers, hbr[q] # 0, ~handlersExit, NEW h \in sets'[q][hbr[q]]
               PROVE  h \in handleMap \/ hpc'[h] = "unlist" \/ (bstate.at = "discard" /\ bstate.h = h)
    BY <1>2 DEF NoStaleHandle, Known
  <2>1. hbr[q] \in 1..Len(sets[q])
    BY DEF HandlersFields, Listed
  <2>2. h \in sets[q][hbr[q]]
    BY <2>1, <1>3
  <2>3. h \in Callers /\ PeerOf[h] = q
    BY <2>1, <2>2 DEF HandlersFields, Listed
  <2>4. h # c
    BY <2>3, <1>3
  <2> QED
    BY <2>2, <2>3, <2>4, <1>1 DEF NoStaleHandle, Known
<1> QED
  BY <1>4, <1>6, <1>7, <1>8, <1>9, <1>10

LEMMA CallerKeeps ==
  ASSUME HandlersInv, NEW c \in Callers, AddHandle(c) \/ CallerStep(c) \/ GiveUp(c)
  PROVE  HandlersInv'
<1>1. CASE Get(c) \/ GiveUp(c) \/ CloseLatch(c)
  <2>1. PICK to \in {"done", "close", "closed"} : hpc' = [hpc EXCEPT ![c] = to]
    BY <1>1 DEF Get, GiveUp, CloseLatch, Goto
  <2>2. hpc[c] \in {"get", "shut"} /\ UNCHANGED <<handleMap, hbr, sets, linked, sent, box, hobj, bstate, handlersExit, crashes, jobs>>
    BY <1>1 DEF Get, GiveUp, CloseLatch, Goto, tableVars
  <2>3. to \in HandlerPCs /\ to \in Asked /\ to \notin Unlisted
    BY <2>1 DEF HandlerPCs, Asked, Unlisted, Registering
  <2> QED
    BY <2>1, <2>2, <2>3, MovesOn DEF Asked, Unlisted, Registering
<1> QED
  BY <1>1, AddHandleKeeps, RegisterKeeps, CreateSetKeeps, LookupKeeps, AddToSetKeeps, SendKeeps, ClosePopKeeps, CloseUnlistKeeps
  DEF CallerStep

-----------------------------------------------------------------------------
(* The broker *)

\* An idle broker takes up something.
LEMMA FromIdle ==
  ASSUME HandlersInv, bstate.at = "idle", UNCHANGED <<tableVars, box, hpc, hobj, crashes>>,
         linked' \subseteq Peers, sent' \subseteq Callers, \A c \in sent' : hpc[c] \in Asked,
         jobs' \in Seq(HandlerJobs), \A i \in 1..Len(jobs') : hpc[jobs'[i].h] \in Asked,
         BrokerForm', bstate'.at \in {"idle", "pop", "fire", "exit"}, bstate'.at = "pop" => hpc[bstate'.h] \in Asked,
         handlersExit => handlersExit', bstate'.at = "exit" => handlersExit'
  PROVE  HandlersInv'
<1> USE DEF HandlersInv, tableVars
<1>1. HandlersFields' /\ Listed' /\ Walking' /\ NoStaleHandle'
  BY DEF HandlersFields, Listed, Walking, NoStaleHandle, Known
<1>2. Requested'
  BY DEF Requested
<1>3. AnswerOnce'
  BY DEF AnswerOnce
<1> QED
  BY <1>1, <1>2, <1>3

LEMMA TakeJob ==
  ASSUME HandlersInv, jobs # << >>
  PROVE  /\ Head(jobs) \in HandlerJobs /\ Head(jobs).h \in Callers /\ hpc[Head(jobs).h] \in Asked
         /\ Tail(jobs) \in Seq(HandlerJobs) /\ \A i \in 1..Len(Tail(jobs)) : hpc[Tail(jobs)[i].h] \in Asked
<1>1. jobs \in Seq(HandlerJobs) /\ Head(jobs) = jobs[1] /\ 1 \in 1..Len(jobs)
  BY DEF HandlersInv, HandlersFields
<1>2. Tail(jobs) \in Seq(HandlerJobs) /\ \A i \in 1..Len(Tail(jobs)) : i + 1 \in 1..Len(jobs) /\ Tail(jobs)[i] = jobs[i + 1]
  BY <1>1
<1>3. \A i \in 1..Len(jobs) : hpc[jobs[i].h] \in Asked
  BY DEF HandlersInv, Requested
<1> QED
  BY <1>1, <1>2, <1>3, JobFields DEF HandlersInv

LEMMA TakesUpKeeps ==
  ASSUME HandlersInv,
         RouteRequest \/ InvokeDead \/ (\E h \in Callers : InvokeReply(h)) \/ BrokerExits \/ \E p \in Peers : PeerDisconnect(p)
  PROVE  HandlersInv'
<1> USE DEF At, Nobody
<1>0. /\ jobs \in Seq(HandlerJobs) /\ \A i \in 1..Len(jobs) : hpc[jobs[i].h] \in Asked
      /\ sent \subseteq Callers /\ (\A c \in sent : hpc[c] \in Asked) /\ linked \subseteq Peers
  BY DEF HandlersInv, HandlersFields, Requested
<1>1. CASE RouteRequest
  <2> DEFINE h == Head(jobs).h
             r == [does |-> "dead", h |-> h]
  <2>1. h \in Callers /\ hpc[h] \in Asked
    BY <1>1, TakeJob DEF RouteRequest
  <2>2. r \in HandlerJobs /\ r.h = h
    BY <2>1 DEF HandlerJobs
  <2>3. Tail(jobs) \in Seq(HandlerJobs) /\ \A i \in 1..Len(Tail(jobs)) : hpc[Tail(jobs)[i].h] \in Asked
    BY <1>1, TakeJob DEF RouteRequest
  <2>4. (sent' = sent \union {h} /\ jobs' = Tail(jobs)) \/ (jobs' = Append(Tail(jobs), r) /\ sent' = sent)
    BY <1>1 DEF RouteRequest
  <2>5. UNCHANGED <<tableVars, linked, box, hpc, hobj, bstate, handlersExit, crashes>> /\ bstate.at = "idle"
    BY <1>1 DEF RouteRequest
  <2> HIDE DEF h, r
  <2>6. jobs' \in Seq(HandlerJobs) /\ \A i \in 1..Len(jobs') : hpc[jobs'[i].h] \in Asked
    <3>1. CASE jobs' = Tail(jobs)
      BY <3>1, <2>3
    <3>2. CASE jobs' = Append(Tail(jobs), r)
      BY <3>2, <2>1, <2>2, <2>3
    <3> QED
      BY <3>1, <3>2, <2>4
  <2>7. sent' \subseteq Callers /\ \A c \in sent' : hpc[c] \in Asked
    BY <2>1, <2>4, <1>0
  <2>8. BrokerForm'
    BY <2>5 DEF BrokerForm, HandlersInv
  <2> QED
    BY <1>0, <2>5, <2>6, <2>7, <2>8, FromIdle
<1>2. ASSUME NEW h \in Callers, NEW m \in Messages, hpc[h] \in Asked, Invoke(h, m)
      PROVE  BrokerForm' /\ bstate'.at \in {"idle", "pop"} /\ (bstate'.at = "pop" => hpc[bstate'.h] \in Asked)
  <2>1. CASE bstate' = [at |-> "pop", h |-> h, msg |-> m]
    BY <2>1, <1>2 DEF BrokerForm, InvokeStates
  <2>2. CASE bstate' = [at |-> "idle"]
    BY <2>2 DEF BrokerForm
  <2> QED
    BY <1>2, <2>1, <2>2 DEF Invoke
<1>3. CASE InvokeDead
  <2>1. Head(jobs).h \in Callers /\ hpc[Head(jobs).h] \in Asked
        /\ Tail(jobs) \in Seq(HandlerJobs) /\ \A i \in 1..Len(Tail(jobs)) : hpc[Tail(jobs)[i].h] \in Asked
    BY <1>3, TakeJob DEF InvokeDead
  <2>2. BrokerForm' /\ bstate'.at \in {"idle", "pop"} /\ (bstate'.at = "pop" => hpc[bstate'.h] \in Asked)
    BY <1>2, <1>3, <2>1 DEF InvokeDead, Messages
  <2> QED
    BY <1>0, <1>3, <2>1, <2>2, FromIdle DEF InvokeDead
<1>4. ASSUME NEW h \in Callers, InvokeReply(h) PROVE HandlersInv'
  <2>1. BrokerForm' /\ bstate'.at \in {"idle", "pop"} /\ (bstate'.at = "pop" => hpc[bstate'.h] \in Asked)
    BY <1>0, <1>2, <1>4 DEF InvokeReply, Messages
  <2> QED
    BY <1>0, <1>4, <2>1, FromIdle DEF InvokeReply
<1>5. CASE BrokerExits
  <2>1. BrokerForm' /\ bstate'.at = "exit"
    BY <1>5 DEF BrokerExits, BrokerForm
  <2> QED
    BY <1>0, <1>5, <2>1, FromIdle DEF BrokerExits
<1>6. ASSUME NEW p \in Peers, PeerDisconnect(p) PROVE HandlersInv'
  <2>1. BrokerForm' /\ bstate'.at = "fire"
    BY <1>6 DEF PeerDisconnect, BrokerForm, FireStates
  <2> QED
    BY <1>0, <1>6, <2>1, FromIdle DEF PeerDisconnect
<1> QED
  BY <1>1, <1>3, <1>4, <1>5, <1>6

\* Delivering an answer: the handler goes, then its place in the table, then the receiver has it.
LEMMA InvokeKeeps ==
  ASSUME HandlersInv, InvokePop \/ InvokeDiscard \/ InvokePut
  PROVE  HandlersInv'
<1> USE DEF HandlersInv, At
<1>1. /\ bstate.at \in {"pop", "discard", "put"} /\ bstate \in InvokeStates /\ bstate.h \in Callers
      /\ bstate.msg \in Messages /\ hpc[bstate.h] \in Asked
  BY BrokerFields DEF InvokePop, InvokeDiscard, InvokePut, Requested
<1>2. UNCHANGED <<hbr, linked, jobs, sent, hpc, hobj, handlersExit>>
  BY DEF InvokePop, InvokeDiscard, InvokePut, tableVars
<1>3. CASE InvokePop
  <2>1. UNCHANGED <<sets, box>> /\ handleMap' = handleMap \ {bstate.h} /\ bstate.at = "pop"
    BY <1>3 DEF InvokePop
  <2>2. \/ bstate.h \in handleMap /\ bstate' = [bstate EXCEPT !.at = "discard"] /\ crashes' = crashes
        \/ bstate.h \notin handleMap /\ bstate' = [at |-> "idle"] /\ crashes' = crashes \union {bstate.h}
    BY <1>3 DEF InvokePop, Known, Raises, Nobody
  <2>3. BrokerForm' /\ bstate'.at \in {"idle", "discard"} /\ (bstate'.at = "discard" => bstate'.h = bstate.h /\ bstate.h \in handleMap)
    <3>1. CASE bstate' = [bstate EXCEPT !.at = "discard"]
      BY <1>1, <2>2, <3>1 DEF InvokeStates, BrokerForm
    <3>2. CASE bstate' = [at |-> "idle"]
      BY <3>2 DEF BrokerForm
    <3> QED
      BY <2>2, <3>1, <3>2
  <2>4. HandlersFields'
    BY <1>1, <1>2, <2>1, <2>2 DEF HandlersFields
  <2>5. Listed' /\ Walking'
    BY <1>2, <2>1, <2>3 DEF Listed, Walking
  <2>6. Requested'
    BY <1>1, <1>2, <2>1, <2>3 DEF Requested, Asked, Registering
  <2>7. AnswerOnce'
    BY <1>1, <1>2, <2>1, <2>3 DEF AnswerOnce
  <2>9. NoStaleHandle'
    <3> SUFFICES ASSUME NEW q \in Peers, hbr[q] # 0, ~handlersExit, NEW h \in sets[q][hbr[q]]
                 PROVE  h \in handleMap' \/ hpc[h] = "unlist" \/ (bstate'.at = "discard" /\ bstate'.h = h)
      BY <1>2, <2>1 DEF NoStaleHandle, Known
    <3>1. h \in handleMap \/ hpc[h] = "unlist"
      BY <2>1 DEF NoStaleHandle, Known
    <3>2. CASE bstate.h \in handleMap
      <4>1. bstate'.at = "discard" /\ bstate'.h = bstate.h
        BY <1>1, <2>2, <3>2 DEF InvokeStates
      <4> QED
        BY <3>1, <4>1, <2>1
    <3>3. CASE bstate.h \notin handleMap
      BY <3>1, <3>3, <2>1
    <3> QED
      BY <3>2, <3>3
  <2> QED
    BY <2>3, <2>4, <2>5, <2>6, <2>7, <2>9
<1>4. CASE InvokeDiscard
  <2>1. UNCHANGED <<handleMap, box>> /\ sets' = Discard(bstate.h) /\ bstate.at = "discard"
    BY <1>4 DEF InvokeDiscard
  <2>2. \/ bstate' = [bstate EXCEPT !.at = "put"] /\ crashes' = crashes
        \/ bstate' = [at |-> "idle"] /\ crashes' = crashes \union {bstate.h}
    BY <1>4 DEF InvokeDiscard, Raises, Nobody
  <2>3. BrokerForm' /\ bstate'.at \in {"idle", "put"} /\ (bstate'.at = "put" => bstate'.h = bstate.h)
    <3>1. CASE bstate' = [bstate EXCEPT !.at = "put"]
      BY <1>1, <3>1 DEF InvokeStates, BrokerForm
    <3>2. CASE bstate' = [at |-> "idle"]
      BY <3>2 DEF BrokerForm
    <3> QED
      BY <2>2, <3>1, <3>2
  <2>4. /\ sets' \in [Peers -> Seq(SUBSET Callers)]
        /\ \A q \in Peers : Len(sets'[q]) = Len(sets[q]) /\ \A i \in 1..Len(sets[q]) : sets'[q][i] \subseteq sets[q][i]
        /\ hbr[PeerOf[bstate.h]] # 0 => bstate.h \notin sets'[PeerOf[bstate.h]][hbr[PeerOf[bstate.h]]]
    BY <1>1, <2>1, DiscardDoes
  <2>5. HandlersFields'
    BY <1>1, <1>2, <2>1, <2>2, <2>4 DEF HandlersFields
  <2>6. Listed'
    BY <1>2, <2>4, SmallerSets
  <2>7. Walking'
    BY <2>3 DEF Walking
  <2>8. Requested' /\ AnswerOnce'
    BY <1>1, <1>2, <2>1, <2>3 DEF Requested, AnswerOnce
  <2>9. NoStaleHandle'
    <3> SUFFICES ASSUME NEW q \in Peers, hbr[q] # 0, ~handlersExit, NEW h \in sets'[q][hbr[q]]
                 PROVE  h \in handleMap \/ hpc[h] = "unlist"
      BY <1>2, <2>1 DEF NoStaleHandle, Known
    <3>1. hbr[q] \in 1..Len(sets[q])
      BY DEF HandlersFields, Listed
    <3>2. h \in sets[q][hbr[q]]
      BY <3>1, <2>4
    <3>3. PeerOf[h] = q
      BY <3>1, <3>2 DEF Listed
    <3>4. h # bstate.h
      BY <3>3, <2>4
    <3> QED
      BY <3>2, <3>4 DEF NoStaleHandle, Known
  <2> QED
    BY <2>3, <2>5, <2>6, <2>7, <2>8, <2>9
<1>5. CASE InvokePut
  <2>1. UNCHANGED <<handleMap, sets, crashes>> /\ bstate' = [at |-> "idle"] /\ bstate.at = "put"
    BY <1>5 DEF InvokePut, Nobody, tableVars
  <2>2. box[bstate.h] = << >> /\ bstate.h \notin handleMap
    BY <2>1 DEF AnswerOnce
  <2>3. box' \in [Callers -> Seq(Messages)]
    BY <1>1, <1>5 DEF InvokePut, Put, HandlersFields
  <2>4. \A c \in Callers : box'[c] = box[c] \/ (c = bstate.h /\ Len(box'[c]) = 1)
    BY <1>1, <1>5, <2>2 DEF InvokePut, Put, HandlersFields
  <2>5. HandlersFields' /\ Listed'
    BY <1>2, <2>1, <2>3 DEF HandlersFields, Listed
  <2>6. BrokerForm' /\ bstate'.at = "idle"
    BY <2>1 DEF BrokerForm
  <2>7. Walking' /\ Requested'
    BY <1>2, <2>1, <2>6 DEF Walking, Requested
  <2>8. AnswerOnce'
    BY <1>1, <1>2, <2>1, <2>2, <2>4, <2>6 DEF AnswerOnce, Asked, Registering
  <2>9. NoStaleHandle'
    BY <1>2, <2>1 DEF NoStaleHandle, Known
  <2> QED
    BY <2>5, <2>6, <2>7, <2>8, <2>9
<1> QED
  BY <1>3, <1>4, <1>5

\* The set of a respondent that is gone is taken out of the table ...
LEMMA PopKeeps ==
  ASSUME HandlersInv, PopRespondent
  PROVE  HandlersInv'
<1> DEFINE p == bstate.peer
<1> USE DEF HandlersInv, At
<1>1. bstate \in FireStates /\ p \in Peers /\ bstate.at = "fire" /\ bstate.nth \in Nat
  BY BrokerFields DEF PopRespondent, FireStates
<1>2. UNCHANGED <<handleMap, sets, linked, jobs, sent, box, hpc, hobj, handlersExit, crashes>>
  BY DEF PopRespondent
<1>3. hbr' = hbr \/ hbr' = [hbr EXCEPT ![p] = 0]
  BY DEF PopRespondent
<1>4. sets[p] \in Seq(SUBSET Callers) /\ hbr[p] \in Nat /\ (hbr[p] = 0 \/ hbr[p] \in 1..Len(sets[p]))
  BY <1>1 DEF HandlersFields, Listed
<1>5. /\ BrokerForm' /\ bstate'.at \in {"idle", "fire", "walk"}
      /\ bstate'.at = "walk" => bstate'.peer = p /\ bstate'.obj = hbr[p] /\ hbr[p] # 0 /\ hbr' = [hbr EXCEPT ![p] = 0]
  <2>1. CASE bstate' = [at |-> "idle"]
    BY <2>1 DEF BrokerForm
  <2>2. CASE bstate' = [bstate EXCEPT !.nth = @ + 1]
    BY <1>1, <2>2 DEF BrokerForm, FireStates
  <2>3. CASE /\ bstate' = [at |-> "walk", peer |-> p, nth |-> bstate.nth, obj |-> hbr[p], h |-> "none",
                           done |-> {}, size |-> Cardinality(sets[p][hbr[p]])]
             /\ hbr[p] # 0 /\ hbr' = [hbr EXCEPT ![p] = 0]
    <3>1. sets[p][hbr[p]] \in SUBSET Callers
      BY <1>4, <2>3
    <3>2. Cardinality(sets[p][hbr[p]]) \in {Cardinality(s) : s \in SUBSET Callers}
      BY <3>1
    <3> DEFINE size == Cardinality(sets[p][hbr[p]])
               sizes == {Cardinality(s) : s \in SUBSET Callers}
    <3>3. size \in sizes
      BY <3>2
    <3>4. bstate' = [at |-> "walk", peer |-> p, nth |-> bstate.nth, obj |-> hbr[p], h |-> "none", done |-> {}, size |-> size]
      BY <2>3
    <3>5. WalkStates = [at : {"walk", "tell", "erase"}, peer : Peers, nth : Nat, obj : Nat, h : Callers \union {"none"},
                        done : SUBSET Callers, size : sizes]
      BY DEF WalkStates
    <3> HIDE DEF size, sizes
    <3>6. bstate' \in WalkStates
      BY <1>1, <1>4, <3>3, <3>4, <3>5
    <3> QED
      BY <2>3, <3>4, <3>6 DEF BrokerForm
  <2> QED
    BY <2>1, <2>2, <2>3 DEF PopRespondent, Nobody
<1>6. HandlersFields'
  <2>1. hbr \in [Peers -> Nat]
    BY DEF HandlersFields
  <2> HIDE DEF p, HandlersInv
  <2>2. [hbr EXCEPT ![p] = 0] \in [Peers -> Nat]
    BY <2>1
  <2>3. hbr' \in [Peers -> Nat]
    BY <1>3, <2>1, <2>2
  <2> QED
    BY <1>2, <2>3 DEF HandlersFields, HandlersInv
<1>7. \A q \in Peers : hbr'[q] = hbr[q] \/ hbr'[q] = 0
  BY <1>3 DEF HandlersFields
<1>8. Listed'
  BY <1>2, <1>7 DEF Listed
<1>9. Walking'
  <2>1. bstate'.at = "walk" => hbr'[p] = 0
    BY <1>1, <1>5 DEF HandlersFields
  <2> QED
    BY <1>2, <1>4, <1>5, <2>1 DEF Walking
<1>10. Requested' /\ AnswerOnce'
  BY <1>1, <1>2, <1>5 DEF Requested, AnswerOnce
<1>11. NoStaleHandle'
  BY <1>1, <1>2, <1>7 DEF NoStaleHandle, Known
<1> QED
  BY <1>5, <1>6, <1>8, <1>9, <1>10, <1>11

\* ... and walked: each of its callers is told, then its handler goes.
LEMMA WalkingKeeps ==
  ASSUME HandlersInv, Walk \/ WalkTell \/ WalkErase
  PROVE  HandlersInv'
<1> USE DEF HandlersInv, At
<1>1. /\ bstate.at \in {"walk", "tell", "erase"} /\ bstate \in WalkStates /\ bstate.peer \in Peers
      /\ bstate.obj \in 1..Len(sets[bstate.peer]) /\ bstate.obj # hbr[bstate.peer]
  BY BrokerFields DEF Walk, WalkTell, WalkErase, Walking
<1>2. UNCHANGED <<hbr, sets, linked, jobs, sent, hpc, hobj, handlersExit>>
  BY DEF Walk, WalkTell, WalkErase, tableVars
<1>3. /\ sets[bstate.peer][bstate.obj] \subseteq Callers
      /\ \A h \in sets[bstate.peer][bstate.obj] : PeerOf[h] = bstate.peer /\ hobj[h] = bstate.obj /\ hpc[h] \notin Unlisted
  BY <1>1 DEF HandlersFields, Listed
<1>4. Listed'
  BY <1>2 DEF Listed
<1>5. CASE Walk
  <2>1. UNCHANGED <<handleMap, box>> /\ bstate.at = "walk"
    BY <1>5 DEF Walk, tableVars
  <2>2. \/ bstate' = [at |-> "idle"] /\ crashes' \subseteq crashes \union Callers
        \/ bstate' = [at |-> "fire", peer |-> bstate.peer, nth |-> bstate.nth + 1] /\ crashes' = crashes
        \/ /\ crashes' = crashes
           /\ \E h \in sets[bstate.peer][bstate.obj] : h \in handleMap /\ bstate' = [bstate EXCEPT !.at = "tell", !.h = h]
    BY <1>3, <1>5 DEF Walk, WalkRaises, Nobody, Known
  <2>3. /\ BrokerForm' /\ bstate'.at \in {"idle", "fire", "tell"}
        /\ bstate'.at = "tell" => /\ bstate'.peer = bstate.peer /\ bstate'.obj = bstate.obj
                                  /\ bstate'.h \in sets[bstate.peer][bstate.obj] /\ bstate'.h \in handleMap
    <3>1. CASE bstate' = [at |-> "idle"]
      BY <3>1 DEF BrokerForm
    <3>2. CASE bstate' = [at |-> "fire", peer |-> bstate.peer, nth |-> bstate.nth + 1]
      BY <1>1, <3>2 DEF BrokerForm, FireStates, WalkStates
    <3>3. CASE \E h \in sets[bstate.peer][bstate.obj] : h \in handleMap /\ bstate' = [bstate EXCEPT !.at = "tell", !.h = h]
      <4>1. PICK h \in sets[bstate.peer][bstate.obj] : h \in handleMap /\ bstate' = [bstate EXCEPT !.at = "tell", !.h = h]
        BY <3>3
      <4>2. h \in Callers
        BY <1>3
      <4> QED
        BY <1>1, <4>1, <4>2 DEF BrokerForm, WalkStates
    <3> QED
      BY <2>2, <3>1, <3>2, <3>3
  <2>4. HandlersFields'
    BY <1>2, <2>1, <2>2 DEF HandlersFields
  <2>5. Walking'
    BY <1>1, <1>2, <1>3, <2>3 DEF Walking
  <2>6. Requested'
    BY <1>2, <2>1, <2>3 DEF Requested
  <2>7. AnswerOnce'
    <3>1. bstate'.at = "tell" => box[bstate'.h] = << >>
      BY <1>3, <2>1, <2>3 DEF AnswerOnce
    <3> QED
      BY <1>2, <2>1, <2>3, <3>1 DEF AnswerOnce
  <2>8. NoStaleHandle'
    BY <1>2, <2>1, <2>3 DEF NoStaleHandle, Known
  <2> QED
    BY <1>4, <2>3, <2>4, <2>5, <2>6, <2>7, <2>8
<1>6. CASE WalkTell
  <2>1. UNCHANGED handleMap /\ bstate.at = "tell" /\ bstate.h \in Callers /\ box[bstate.h] = << >>
    BY <1>6 DEF WalkTell, tableVars, Walking, AnswerOnce
  <2>2. \/ bstate' = [at |-> "idle"] /\ crashes' \subseteq crashes \union Callers /\ box' = box
        \/ bstate' = [bstate EXCEPT !.at = "erase"] /\ crashes' = crashes /\ box' = [box EXCEPT ![bstate.h] = Append(@, "dead")]
    BY <1>3, <1>6 DEF WalkTell, WalkRaises, Nobody, Left, Put
  <2>3. /\ BrokerForm' /\ bstate'.at \in {"idle", "erase"}
        /\ bstate'.at = "erase" => bstate'.peer = bstate.peer /\ bstate'.obj = bstate.obj /\ bstate'.h = bstate.h
    <3>1. CASE bstate' = [at |-> "idle"]
      BY <3>1 DEF BrokerForm
    <3>2. CASE bstate' = [bstate EXCEPT !.at = "erase"]
      BY <1>1, <3>2 DEF BrokerForm, WalkStates
    <3> QED
      BY <2>2, <3>1, <3>2
  <2>4. box' \in [Callers -> Seq(Messages)] /\ \A c \in Callers : box'[c] = box[c] \/ (c = bstate.h /\ Len(box'[c]) = 1)
    <3>1. box \in [Callers -> Seq(Messages)] /\ Append(<< >>, "dead") \in Seq(Messages) /\ Len(Append(<< >>, "dead")) = 1
      BY DEF HandlersFields, Messages
    <3>2. CASE box' = box
      BY <3>1, <3>2
    <3>3. CASE box' = [box EXCEPT ![bstate.h] = Append(box[bstate.h], "dead")]
      BY <2>1, <3>1, <3>3
    <3> QED
      BY <2>2, <3>2, <3>3
  <2>5. \A c \in Callers : box'[c] = box[c] \/ (c = bstate.h /\ Len(box'[c]) = 1 /\ bstate'.at = "erase")
    <3>1. CASE box' = box
      BY <3>1
    <3>2. CASE bstate' = [bstate EXCEPT !.at = "erase"]
      BY <1>1, <2>4, <3>2 DEF WalkStates
    <3> QED
      BY <2>2, <3>1, <3>2
  <2>6. HandlersFields'
    BY <1>2, <2>1, <2>2, <2>4 DEF HandlersFields
  <2>7. Walking'
    BY <1>1, <1>2, <2>1, <2>3 DEF Walking
  <2>8. Requested'
    BY <1>2, <2>1, <2>3 DEF Requested
  <2>9. AnswerOnce'
    BY <1>2, <2>1, <2>3, <2>5 DEF AnswerOnce, Walking, Unlisted, Registering
  <2>10. NoStaleHandle'
    BY <1>2, <2>1, <2>3 DEF NoStaleHandle, Known
  <2> QED
    BY <1>4, <2>3, <2>6, <2>7, <2>8, <2>9, <2>10
<1>7. CASE WalkErase
  <2>1. /\ UNCHANGED box /\ handleMap' = handleMap \ {bstate.h} /\ bstate.at = "erase" /\ bstate.h \in Callers
        /\ PeerOf[bstate.h] = bstate.peer /\ hobj[bstate.h] = bstate.obj /\ hpc[bstate.h] \notin Unlisted
    BY <1>7 DEF WalkErase, Walking
  <2>2. \/ bstate' = [at |-> "idle"] /\ crashes' \subseteq crashes \union Callers
        \/ bstate' = [bstate EXCEPT !.at = "walk", !.done = @ \union {bstate.h}] /\ crashes' = crashes
    BY <1>3, <1>7 DEF WalkErase, WalkRaises, Nobody, Left
  <2>3. /\ BrokerForm' /\ bstate'.at \in {"idle", "walk"}
        /\ bstate'.at = "walk" => bstate'.peer = bstate.peer /\ bstate'.obj = bstate.obj
    <3>1. CASE bstate' = [at |-> "idle"]
      BY <3>1 DEF BrokerForm
    <3>2. CASE bstate' = [bstate EXCEPT !.at = "walk", !.done = @ \union {bstate.h}]
      BY <1>1, <2>1, <3>2 DEF BrokerForm, WalkStates
    <3> QED
      BY <2>2, <3>1, <3>2
  <2>4. HandlersFields'
    BY <1>2, <2>1, <2>2 DEF HandlersFields
  <2>5. Walking'
    BY <1>1, <1>2, <2>3 DEF Walking
  <2>6. Requested'
    BY <1>2, <2>1, <2>3 DEF Requested, Unlisted, Registering
  <2>7. AnswerOnce'
    BY <1>2, <2>1, <2>3 DEF AnswerOnce
  <2>8. NoStaleHandle'
    <3> SUFFICES ASSUME NEW q \in Peers, hbr[q] # 0, ~handlersExit, NEW h \in sets[q][hbr[q]]
                 PROVE  h \in handleMap' \/ hpc[h] = "unlist"
      BY <1>2 DEF NoStaleHandle, Known
    <3>1. hbr[q] \in 1..Len(sets[q])
      BY DEF HandlersFields, Listed
    <3>2. PeerOf[h] = q /\ hobj[h] = hbr[q]
      BY <3>1 DEF Listed
    <3>3. h # bstate.h
      BY <3>2, <2>1, <1>1
    <3> QED
      BY <3>3, <2>1 DEF NoStaleHandle, Known
  <2> QED
    BY <1>4, <2>3, <2>4, <2>5, <2>6, <2>7, <2>8
<1> QED
  BY <1>5, <1>6, <1>7

LEMMA ExitKeeps ==
  ASSUME HandlersInv, ExitPop
  PROVE  HandlersInv'
<1> USE DEF HandlersInv, At, ExitPop
<1>1. UNCHANGED <<hbr, sets, linked, jobs, sent, hpc, hobj, handlersExit, crashes>> /\ bstate.at = "exit"
  OBVIOUS
<1>2. Listed'
  BY <1>1 DEF Listed
<1>3. CASE bstate' = [at |-> "stopped"] /\ UNCHANGED <<handleMap, box>>
  <2>1. BrokerForm' /\ bstate'.at = "stopped"
    BY <1>3 DEF BrokerForm
  <2>2. HandlersFields'
    BY <1>1, <1>3 DEF HandlersFields
  <2>3. Walking' /\ Requested' /\ AnswerOnce'
    BY <1>1, <1>3, <2>1 DEF Walking, Requested, AnswerOnce
  <2>4. NoStaleHandle'
    BY <1>1, <1>3 DEF NoStaleHandle, Known
  <2> QED
    BY <1>2, <2>1, <2>2, <2>3, <2>4
<1>4. ASSUME NEW h \in handleMap, handleMap' = handleMap \ {h}, Put(h, "dead"), UNCHANGED bstate PROVE HandlersInv'
  <2>1. h \in Callers /\ box[h] = << >> /\ hpc[h] # "idle"
    BY <1>1, <1>4 DEF HandlersFields, AnswerOnce, Requested
  <2>2. box' \in [Callers -> Seq(Messages)]
    BY <1>4, <2>1 DEF Put, HandlersFields, Messages
  <2>3. \A c \in Callers : box'[c] = box[c] \/ (c = h /\ Len(box'[c]) = 1)
    BY <1>4, <2>1 DEF Put, HandlersFields
  <2>4. BrokerForm'
    BY <1>4 DEF BrokerForm
  <2>5. HandlersFields'
    BY <1>1, <1>4, <2>2 DEF HandlersFields
  <2>6. handlersExit
    BY <1>1 DEF Requested
  <2>7. Walking' /\ Requested'
    BY <1>1, <1>4, <2>6 DEF Walking, Requested
  <2>8. AnswerOnce'
    BY <1>1, <1>4, <2>1, <2>3 DEF AnswerOnce
  <2>9. NoStaleHandle'
    BY <1>1, <2>6 DEF NoStaleHandle
  <2> QED
    BY <1>2, <2>4, <2>5, <2>7, <2>8, <2>9
<1> QED
  BY <1>3, <1>4

\* Every step of a caller and of the broker keeps handlers and answers apart.
LEMMA HandlersStep == HandlersInv /\ [HandlersNext]_handlersVars => HandlersInv'
<1> SUFFICES ASSUME HandlersInv, [HandlersNext]_handlersVars PROVE HandlersInv'
  OBVIOUS
<1>1. CASE UNCHANGED handlersVars
  <2>1. UNCHANGED <<handleMap, hbr, sets, bstate, linked, jobs, sent, box, hpc, hobj, handlersExit, crashes>>
    BY <1>1 DEF handlersVars, tableVars
  <2>2. HandlersFields' /\ BrokerForm'
    BY <2>1 DEF HandlersInv, HandlersFields, BrokerForm
  <2>3. Listed' /\ Walking'
    BY <2>1 DEF HandlersInv, Listed, Walking
  <2>4. Requested' /\ AnswerOnce'
    BY <2>1 DEF HandlersInv, Requested, AnswerOnce
  <2>5. NoStaleHandle'
    BY <2>1 DEF HandlersInv, NoStaleHandle, Known
  <2> QED
    BY <2>2, <2>3, <2>4, <2>5 DEF HandlersInv
<1> QED
  BY <1>1, CallerKeeps, TakesUpKeeps, InvokeKeeps, PopKeeps, WalkingKeeps, ExitKeeps DEF HandlersNext, BrokerStep

-----------------------------------------------------------------------------
(* Where the disconnection of a respondent looks for its handlers *)

\* The broker tells the handlers of a respondent that is gone already.
Gone == bstate.at \in {"fire", "walk", "tell", "erase"} => bstate.peer \notin linked
\* Of a connected respondent the table has the newest set, the older ones were replaced, and
\* whoever made the first listens, or is about to.
InUse ==
  \A p \in linked :
    /\ hbr[p] = Len(sets[p])
    /\ \A i \in 1..Len(sets[p]) : i < hbr[p] => i \in unseen[p]
    /\ Len(sets[p]) > 0 => listeners[p] > 0 \/ \E d \in Callers : PeerOf[d] = p /\ hpc[d] = "listen"
\* A registered call is in the set its add_handler() found.
InItsSet(c) == hobj[c] \in 1..Len(sets[PeerOf[c]]) /\ c \in sets[PeerOf[c]][hobj[c]]
Placed == \A c \in Callers : hpc[c] \in {"send", "get"} /\ c \in handleMap /\ PeerOf[c] \in linked => InItsSet(c)

HeardInv ==
  /\ listeners \in [Peers -> Nat] /\ unseen \in [Peers -> SUBSET Nat]
  /\ \A p \in Peers : unseen[p] \subseteq 1..Len(sets[p])
  /\ Gone /\ InUse /\ Placed

LEMMA InitHeard == HandlersInit => HeardInv
<1> SUFFICES ASSUME HandlersInit PROVE HeardInv
  OBVIOUS
<1> USE DEF HandlersInit, Nobody
<1>1. listeners \in [Peers -> Nat] /\ unseen \in [Peers -> SUBSET Nat] /\ (\A p \in Peers : unseen[p] = {}) /\ Gone /\ Placed
  BY DEF Gone, Placed
<1>2. InUse
  <2>1. \A p \in Peers : hbr[p] = 0 /\ Len(sets[p]) = 0 /\ 1..Len(sets[p]) = {}
    OBVIOUS
  <2> QED
    BY <2>1 DEF InUse
<1> QED
  BY <1>1, <1>2 DEF HeardInv

\* A step that leaves alone which set is in use and who listens, and takes no call in need
\* of it out of its set.
LEMMA HeardStays ==
  ASSUME HeardInv, UNCHANGED <<hbr, listeners, unseen>>, linked' \subseteq linked,
         \A p \in Peers : Len(sets'[p]) = Len(sets[p]), linked \subseteq Peers,
         \A c \in Callers : hpc[c] = "listen" => hpc'[c] = "listen",
         Gone', Placed'
  PROVE  HeardInv'
<1>1. InUse'
  <2> SUFFICES ASSUME NEW p \in linked'
               PROVE  /\ hbr[p] = Len(sets'[p])
                      /\ \A i \in 1..Len(sets'[p]) : i < hbr[p] => i \in unseen[p]
                      /\ Len(sets'[p]) > 0 => listeners[p] > 0 \/ \E d \in Callers : PeerOf[d] = p /\ hpc'[d] = "listen"
    BY DEF InUse
  <2>1. p \in linked /\ p \in Peers /\ Len(sets'[p]) = Len(sets[p])
    OBVIOUS
  <2> QED
    BY <2>1 DEF InUse, HeardInv
<1> QED
  BY <1>1 DEF HeardInv

\* A step of a caller that leaves the sets alone, and is not the one that makes it send.
LEMMA CallerMoves ==
  ASSUME HandlersInv, HeardInv, NEW c \in Callers, NEW to, hpc' = [hpc EXCEPT ![c] = to],
         hpc[c] # "listen", to = "get" => hpc[c] = "send", to # "send",
         handleMap' \subseteq handleMap \union {c}, hpc[c] # "idle" /\ c \in handleMap' => c \in handleMap,
         hobj' = hobj \/ (hobj' = [hobj EXCEPT ![c] = hbr[PeerOf[c]]] /\ hpc[c] = "lookup"),
         UNCHANGED <<hbr, sets, listeners, unseen, linked, bstate>>
  PROVE  HeardInv'
<1>1. \A d \in Callers : hpc'[d] = IF d = c THEN to ELSE hpc[d]
  BY DEF HandlersInv, HandlersFields
<1>2. Gone'
  BY DEF HeardInv, Gone
<1>3. Placed'
  <2> SUFFICES ASSUME NEW d \in Callers, hpc'[d] \in {"send", "get"}, d \in handleMap', PeerOf[d] \in linked
               PROVE  InItsSet(d)'
    BY DEF Placed
  <2>1. hpc[d] \in {"send", "get"} /\ d \in handleMap
    BY <1>1
  <2>2. hobj'[d] = hobj[d]
    BY <2>1 DEF HandlersInv, HandlersFields
  <2>3. InItsSet(d)
    BY <2>1 DEF Placed, HeardInv
  <2> QED
    BY <2>2, <2>3 DEF InItsSet
<1> QED
  BY <1>1, <1>2, <1>3, HeardStays DEF HandlersInv, HandlersFields

\* The sets lose one caller at most, that needs its set no more.
LEMMA DiscardHeard ==
  ASSUME HandlersInv, HeardInv, NEW h \in Callers, sets' = Discard(h),
         hpc[h] \in {"send", "get"} => h \notin handleMap,
         UNCHANGED <<hbr, hobj, handleMap, listeners, unseen, linked>>,
         \A d \in Callers : hpc'[d] = hpc[d] \/ (hpc[d] # "listen" /\ hpc'[d] \notin {"send", "get"}),
         Gone'
  PROVE  HeardInv'
<1> DEFINE p == PeerOf[h]
           o == hbr[p]
<1>1. HandlersFields /\ Listed
  BY DEF HandlersInv
<1>2. /\ \A q \in Peers : Len(sets'[q]) = Len(sets[q])
      /\ sets' \in [Peers -> Seq(SUBSET Callers)]
  BY <1>1, DiscardDoes
<1>3. \A d \in Callers : PeerOf[d] \in Peers
  BY HandlersAssumption
<1>4. ASSUME NEW d \in Callers, d # h, InItsSet(d) PROVE InItsSet(d)'
  <2> DEFINE q == PeerOf[d]
             i == hobj[d]
  <2>1. q \in Peers /\ i \in 1..Len(sets[q]) /\ d \in sets[q][i] /\ sets[q] \in Seq(SUBSET Callers) /\ hobj' = hobj
    BY <1>1, <1>3, <1>4 DEF InItsSet, HandlersFields
  <2>2. d \in sets'[q][i]
    <3>1. CASE o = 0
      BY <2>1, <3>1 DEF Discard
    <3>2. CASE o # 0
      <4> DEFINE t == sets[p]
                 x == t[o] \ {h}
                 s == [t EXCEPT ![o] = x]
      <4>1. t \in Seq(SUBSET Callers) /\ o \in 1..Len(t)
        BY <1>1, <1>3, <3>2 DEF HandlersFields, Listed
      <4>2. x \in SUBSET Callers
        BY <4>1
      <4>3. Discard(h) = [sets EXCEPT ![p] = s]
        BY <3>2 DEF Discard
      <4>4. x = t[o] \ {h}
        OBVIOUS
      <4>5. \A j \in 1..Len(t) : s[j] = IF j = o THEN x ELSE t[j]
        <5> HIDE DEF x, t, o
        <5> QED
          BY <4>1, <4>2, OneChanges
      <4> HIDE DEF s, x, o
      <4>6. sets'[q] = IF q = p THEN s ELSE sets[q]
        BY <4>3, <2>1, <1>1 DEF HandlersFields
      <4>7. CASE q = p
        BY <4>4, <4>5, <4>6, <4>7, <2>1, <1>4
      <4>8. CASE q # p
        BY <4>6, <4>8, <2>1
      <4> QED
        BY <4>7, <4>8
    <3> QED
      BY <3>1, <3>2
  <2> QED
    BY <1>2, <2>1, <2>2 DEF InItsSet
<1>5. Placed'
  <2> SUFFICES ASSUME NEW d \in Callers, hpc'[d] \in {"send", "get"}, d \in handleMap, PeerOf[d] \in linked
               PROVE  InItsSet(d)'
    BY DEF Placed
  <2>1. InItsSet(d) /\ d # h
    BY DEF Placed, HeardInv
  <2> QED
    BY <2>1, <1>4
<1> QED
  BY <1>1, <1>2, <1>5, HeardStays DEF HandlersFields

LEMMA CreateHeard ==
  ASSUME HandlersInv, HeardInv, NEW c \in Callers, CreateSet(c)
  PROVE  HeardInv'
<1> DEFINE p == PeerOf[c]
           n == Len(sets[p])
           s == Append(sets[p], {})
<1>1. p \in Peers /\ (\A d \in Callers : PeerOf[d] \in Peers)
  BY HandlersAssumption
<1>2. HandlersFields /\ Listed /\ listeners \in [Peers -> Nat] /\ unseen \in [Peers -> SUBSET Nat]
  BY DEF HandlersInv, HeardInv
<1>3. /\ hpc[c] = "create" /\ hpc' = [hpc EXCEPT ![c] = "listen"] /\ UNCHANGED <<handleMap, listeners, linked, hobj, bstate>>
      /\ sets' = [sets EXCEPT ![p] = s] /\ hbr' = [hbr EXCEPT ![p] = n + 1]
      /\ unseen' = [unseen EXCEPT ![p] = @ \union ({hbr[p]} \ {0})]
  BY DEF CreateSet, Goto
<1>4. /\ sets[p] \in Seq(SUBSET Callers) /\ n \in Nat /\ Len(s) = n + 1 /\ \A i \in 1..n : s[i] = sets[p][i]
      /\ hbr[p] \in 0..n
  <2>1. sets[p] \in Seq(SUBSET Callers) /\ hbr[p] \in Nat /\ (hbr[p] = 0 \/ hbr[p] = n)
    BY <1>1, <1>2 DEF HandlersFields, Listed
  <2> QED
    BY <2>1
<1> HIDE DEF s, n, p
<1>5. /\ \A d \in Callers : hpc'[d] = IF d = c THEN "listen" ELSE hpc[d]
      /\ \A q \in Peers : /\ sets'[q] = (IF q = p THEN s ELSE sets[q])
                          /\ hbr'[q] = (IF q = p THEN n + 1 ELSE hbr[q])
                          /\ unseen'[q] = (IF q = p THEN unseen[q] \union ({hbr[p]} \ {0}) ELSE unseen[q])
  BY <1>1, <1>2, <1>3 DEF HandlersFields
<1>6. unseen' \in [Peers -> SUBSET Nat]
  <2>1. unseen[p] \union ({hbr[p]} \ {0}) \in SUBSET Nat
    BY <1>1, <1>2, <1>4
  <2> QED
    BY <1>2, <1>3, <2>1
<1>7. \A q \in Peers : unseen'[q] \subseteq 1..Len(sets'[q])
  <2> SUFFICES ASSUME NEW q \in Peers, NEW i \in unseen'[q] PROVE i \in 1..Len(sets'[q])
    OBVIOUS
  <2>1. \A j \in unseen[q] : j \in 1..Len(sets[q])
    BY DEF HeardInv
  <2>2. CASE q = p
    <3>1. unseen'[q] = unseen[q] \union ({hbr[p]} \ {0}) /\ Len(sets'[q]) = n + 1 /\ Len(sets[q]) = n
      BY <1>4, <1>5, <2>2 DEF n
    <3>2. i \in 1..n
      BY <3>1, <2>1, <1>4
    <3> QED
      BY <3>1, <3>2, <1>4
  <2>3. CASE q # p
    BY <2>1, <2>3, <1>5
  <2> QED
    BY <2>2, <2>3
<1>8. Gone'
  BY <1>3 DEF HeardInv, Gone
<1>9. InUse'
  <2> SUFFICES ASSUME NEW q \in linked
               PROVE  /\ hbr'[q] = Len(sets'[q])
                      /\ \A i \in 1..Len(sets'[q]) : i < hbr'[q] => i \in unseen'[q]
                      /\ Len(sets'[q]) > 0 => listeners[q] > 0 \/ \E d \in Callers : PeerOf[d] = q /\ hpc'[d] = "listen"
    BY <1>3 DEF InUse
  <2>0. q \in Peers
    BY <1>2 DEF HandlersFields
  <2>1. /\ hbr[q] = Len(sets[q]) /\ \A i \in 1..Len(sets[q]) : i < hbr[q] => i \in unseen[q]
        /\ Len(sets[q]) > 0 => listeners[q] > 0 \/ \E d \in Callers : PeerOf[d] = q /\ hpc[d] = "listen"
    BY DEF HeardInv, InUse
  <2>2. CASE q = p
    <3>1. hpc'[c] = "listen" /\ PeerOf[c] = q
      BY <1>5, <2>2 DEF p
    <3>2. hbr'[q] = Len(sets'[q]) /\ Len(sets'[q]) = n + 1 /\ hbr[q] = n
      BY <1>4, <1>5, <2>0, <2>1, <2>2 DEF n
    <3>4. unseen'[q] = unseen[q] \union ({hbr[p]} \ {0}) /\ Len(sets[q]) = n /\ hbr[p] = n
      BY <1>5, <2>0, <2>2, <3>2 DEF n
    <3>3. ASSUME NEW i \in 1..n PROVE i \in unseen'[q]
      <4>0. i \in Nat /\ i # 0 /\ i <= n
        BY <1>4
      <4>1. CASE i = n
        <5>1. i \in {n} \ {0}
          BY <4>0, <4>1
        <5> QED
          BY <5>1, <3>4
      <4>2. CASE i # n
        <5>1. i < n
          BY <4>0, <4>2, <1>4
        <5>2. i \in unseen[q]
          BY <5>1, <3>2, <3>4, <2>1
        <5> QED
          BY <5>2, <3>4
      <4> QED
        BY <4>1, <4>2
    <3> QED
      BY <3>1, <3>2, <3>3, <1>4
  <2>3. CASE q # p
    <3>1. \A d \in Callers : hpc[d] = "listen" => hpc'[d] = "listen"
      BY <1>5
    <3> QED
      BY <2>0, <2>1, <2>3, <3>1, <1>5
  <2> QED
    BY <2>2, <2>3
<1>10. Placed'
  <2> SUFFICES ASSUME NEW d \in Callers, hpc'[d] \in {"send", "get"}, d \in handleMap, PeerOf[d] \in linked
               PROVE  InItsSet(d)'
    BY <1>3 DEF Placed
  <2>1. hpc[d] \in {"send", "get"}
    BY <1>5
  <2>2. hobj[d] \in 1..Len(sets[PeerOf[d]]) /\ d \in sets[PeerOf[d]][hobj[d]]
    BY <2>1 DEF HeardInv, Placed, InItsSet
  <2>3. CASE PeerOf[d] = p
    <3>1. hobj[d] \in 1..n /\ d \in s[hobj[d]] /\ sets'[PeerOf[d]] = s
      BY <1>1, <1>4, <1>5, <2>2, <2>3 DEF n
    <3>2. hobj[d] \in 1..Len(s)
      BY <3>1, <1>4
    <3> QED
      BY <3>1, <3>2, <1>3 DEF InItsSet
  <2>4. CASE PeerOf[d] # p
    BY <1>1, <1>3, <1>5, <2>2, <2>4 DEF InItsSet
  <2> QED
    BY <2>3, <2>4
<1> QED
  BY <1>2, <1>3, <1>6, <1>7, <1>8, <1>9, <1>10 DEF HeardInv

LEMMA ListenHeard ==
  ASSUME HandlersInv, HeardInv, NEW c \in Callers, Listen(c)
  PROVE  HeardInv'
<1> DEFINE p == PeerOf[c]
<1>1. p \in Peers
  BY HandlersAssumption
<1>2. HandlersFields /\ listeners \in [Peers -> Nat]
  BY DEF HandlersInv, HeardInv
<1>3. /\ hpc' = [hpc EXCEPT ![c] = "lookup"] /\ listeners' = [listeners EXCEPT ![p] = @ + 1]
      /\ UNCHANGED <<handleMap, hbr, sets, unseen, linked, hobj, bstate>>
  BY DEF Listen, Goto
<1> HIDE DEF p
<1>4. /\ \A d \in Callers : hpc'[d] = IF d = c THEN "lookup" ELSE hpc[d]
      /\ \A q \in Peers : listeners[q] \in Nat /\ listeners'[q] = IF q = p THEN listeners[q] + 1 ELSE listeners[q]
  BY <1>1, <1>2, <1>3 DEF HandlersFields
<1>5. listeners' \in [Peers -> Nat]
  BY <1>1, <1>2, <1>3
<1>6. Gone'
  BY <1>3 DEF HeardInv, Gone
<1>7. InUse'
  <2> SUFFICES ASSUME NEW q \in linked, Len(sets[q]) > 0
               PROVE  listeners'[q] > 0 \/ \E d \in Callers : PeerOf[d] = q /\ hpc'[d] = "listen"
    BY <1>3 DEF HeardInv, InUse
  <2>1. q \in Peers
    BY <1>2 DEF HandlersFields
  <2>2. CASE q = p
    BY <1>4, <2>1, <2>2
  <2>3. CASE q # p
    <3>1. listeners[q] > 0 \/ \E d \in Callers : PeerOf[d] = q /\ hpc[d] = "listen"
      BY DEF HeardInv, InUse
    <3>2. \A d \in Callers : PeerOf[d] = q => hpc'[d] = hpc[d]
      BY <1>4, <2>3 DEF p
    <3> QED
      BY <3>1, <3>2, <1>4, <2>1, <2>3
  <2> QED
    BY <2>2, <2>3
<1>8. Placed'
  BY <1>3, <1>4 DEF HeardInv, Placed, InItsSet
<1> QED
  BY <1>3, <1>5, <1>6, <1>7, <1>8 DEF HeardInv

LEMMA AddHeard ==
  ASSUME HandlersInv, HeardInv, NEW c \in Callers, AddToSet(c)
  PROVE  HeardInv'
<1> DEFINE p == PeerOf[c]
           o == hobj[c]
           t == sets[p]
           x == t[o] \union {c}
           s == [t EXCEPT ![o] = x]
<1>1. p \in Peers /\ (\A d \in Callers : PeerOf[d] \in Peers)
  BY HandlersAssumption
<1>2. HandlersFields /\ Listed /\ linked \subseteq Peers
  BY DEF HandlersInv, HandlersFields
<1>3. /\ hpc[c] = "add" /\ hpc' = [hpc EXCEPT ![c] = "send"] /\ sets' = [sets EXCEPT ![p] = s]
      /\ UNCHANGED <<handleMap, hbr, listeners, unseen, linked, hobj, bstate>>
  BY DEF AddToSet, Goto
<1>4. t \in Seq(SUBSET Callers) /\ o \in 1..Len(t)
  <2>1. t \in Seq(SUBSET Callers) /\ o \in Nat /\ o # 0 /\ o <= Len(t)
    BY <1>1, <1>2, <1>3 DEF HandlersFields, Listed
  <2> QED
    BY <2>1
<1>5. x \in SUBSET Callers /\ x = t[o] \union {c}
  BY <1>4
<1>6. Len(s) = Len(t) /\ \A j \in 1..Len(t) : s[j] = IF j = o THEN x ELSE t[j]
  <2> HIDE DEF x, t, o
  <2> QED
    BY <1>4, <1>5, OneChanges
<1> HIDE DEF s, x, o, p, t
<1>7. /\ \A d \in Callers : hpc'[d] = IF d = c THEN "send" ELSE hpc[d]
      /\ \A q \in Peers : sets'[q] = IF q = p THEN s ELSE sets[q]
  BY <1>1, <1>2, <1>3 DEF HandlersFields
<1>8. \A q \in Peers : Len(sets'[q]) = Len(sets[q])
  BY <1>6, <1>7 DEF t
<1>9. Gone'
  BY <1>3 DEF HeardInv, Gone
<1>10. Placed'
  <2> SUFFICES ASSUME NEW d \in Callers, hpc'[d] \in {"send", "get"}, d \in handleMap, PeerOf[d] \in linked
               PROVE  InItsSet(d)'
    BY <1>3 DEF Placed
  <2>1. CASE d = c
    <3>1. sets'[PeerOf[d]] = s /\ hobj'[d] = o /\ c \in s[o]
      BY <1>1, <1>3, <1>4, <1>5, <1>6, <1>7, <2>1 DEF p, o
    <3> QED
      BY <3>1, <2>1, <1>4, <1>6 DEF InItsSet
  <2>2. CASE d # c
    <3>1. hobj[d] \in 1..Len(sets[PeerOf[d]]) /\ d \in sets[PeerOf[d]][hobj[d]]
      BY <1>7, <2>2 DEF HeardInv, Placed, InItsSet
    <3>2. CASE PeerOf[d] = p
      <4>1. hobj[d] \in 1..Len(s) /\ d \in s[hobj[d]] /\ sets'[PeerOf[d]] = s
        BY <1>1, <1>5, <1>6, <1>7, <3>1, <3>2 DEF t
      <4> QED
        BY <4>1, <1>3 DEF InItsSet
    <3>3. CASE PeerOf[d] # p
      BY <1>1, <1>3, <1>7, <3>1, <3>3 DEF InItsSet
    <3> QED
      BY <3>2, <3>3
  <2> QED
    BY <2>1, <2>2
<1>11. \A d \in Callers : hpc[d] = "listen" => hpc'[d] = "listen"
  BY <1>3, <1>7
<1> QED
  BY <1>2, <1>3, <1>8, <1>9, <1>10, <1>11, HeardStays

LEMMA CallerHeard ==
  ASSUME HandlersInv, HeardInv, NEW c \in Callers, AddHandle(c) \/ CallerStep(c) \/ GiveUp(c)
  PROVE  HeardInv'
<1>1. CASE AddHandle(c)
  BY <1>1, CallerMoves DEF AddHandle, Goto
<1>2. CASE TestRespondent(c) \/ LookupSet(c)
  <2>1. /\ \E to \in {"create", "lookup", "raised", "add"} : hpc' = [hpc EXCEPT ![c] = to]
        /\ hpc[c] \in {"respondent", "lookup"} /\ UNCHANGED <<handleMap, hbr, sets, listeners, unseen, linked, bstate>>
        /\ hobj' = hobj \/ (hobj' = [hobj EXCEPT ![c] = hbr[PeerOf[c]]] /\ hpc[c] = "lookup")
    BY <1>2 DEF TestRespondent, LookupSet, Goto, tableVars
  <2>2. PICK to \in {"create", "lookup", "raised", "add"} : hpc' = [hpc EXCEPT ![c] = to]
    BY <2>1
  <2> QED
    BY <2>1, <2>2, CallerMoves
<1>3. CASE SendAsync(c)
  <2>1. /\ \E to \in {"raised", "get"} : hpc' = [hpc EXCEPT ![c] = to]
        /\ hpc[c] = "send" /\ UNCHANGED <<handleMap, hbr, sets, listeners, unseen, linked, bstate, hobj>>
    BY <1>3 DEF SendAsync, Goto, tableVars
  <2>2. PICK to \in {"raised", "get"} : hpc' = [hpc EXCEPT ![c] = to]
    BY <2>1
  <2> QED
    BY <2>1, <2>2, CallerMoves
<1>4. CASE Get(c) \/ GiveUp(c) \/ ClosePop(c) \/ CloseLatch(c)
  <2>1. /\ \E to \in {"done", "close", "unlist", "raised", "closed"} : hpc' = [hpc EXCEPT ![c] = to]
        /\ hpc[c] \in {"get", "close", "shut"} /\ UNCHANGED <<hbr, sets, listeners, unseen, linked, bstate, hobj>>
        /\ handleMap' \subseteq handleMap
    BY <1>4 DEF Get, GiveUp, ClosePop, CloseLatch, Goto, tableVars
  <2>2. PICK to \in {"done", "close", "unlist", "raised", "closed"} : hpc' = [hpc EXCEPT ![c] = to]
    BY <2>1
  <2> QED
    BY <2>1, <2>2, CallerMoves
<1>5. CASE CloseUnlist(c)
  <2>1. /\ hpc[c] = "unlist" /\ sets' = Discard(c) /\ UNCHANGED <<hbr, hobj, handleMap, listeners, unseen, linked, bstate>>
        /\ \E to \in {"raised", "shut"} : hpc' = [hpc EXCEPT ![c] = to]
    BY <1>5 DEF CloseUnlist, Goto
  <2>2. \A d \in Callers : hpc'[d] = hpc[d] \/ (hpc[d] # "listen" /\ hpc'[d] \notin {"send", "get"})
    BY <2>1 DEF HandlersInv, HandlersFields
  <2>3. Gone'
    BY <2>1 DEF HeardInv, Gone
  <2> QED
    BY <2>1, <2>2, <2>3, DiscardHeard
<1> QED
  BY <1>1, <1>2, <1>3, <1>4, <1>5, CreateHeard, ListenHeard, AddHeard DEF CallerStep

LEMMA BrokerMoves ==
  ASSUME HandlersInv, HeardInv, UNCHANGED <<hbr, sets, listeners, unseen, hpc, hobj>>,
         handleMap' \subseteq handleMap, linked' \subseteq linked, Gone'
  PROVE  HeardInv'
<1>1. Placed'
  BY DEF HeardInv, Placed, InItsSet
<1> QED
  BY <1>1, HeardStays DEF HandlersInv, HandlersFields

LEMMA PopHeard ==
  ASSUME HandlersInv, HeardInv, PopRespondent
  PROVE  HeardInv'
<1> DEFINE p == bstate.peer
<1>1. bstate.at = "fire" /\ p \in Peers /\ p \notin linked
  BY BrokerFields DEF PopRespondent, At, HeardInv, HandlersInv, Gone
<1>2. HandlersFields /\ Listed /\ unseen \in [Peers -> SUBSET Nat]
  BY DEF HandlersInv, HeardInv
<1>3. /\ UNCHANGED <<handleMap, sets, listeners, linked, hpc, hobj>>
      /\ hbr' = hbr \/ hbr' = [hbr EXCEPT ![p] = 0]
      /\ unseen' = unseen \/ unseen' = [unseen EXCEPT ![p] = @ \union ({hbr[p]} \ {0})]
      /\ bstate'.at = "idle" \/ bstate'.peer = p
  <2>1. bstate \in FireStates
    BY BrokerFields DEF PopRespondent, At, HandlersInv
  <2>2. \/ bstate' = [at |-> "idle"]
        \/ bstate' = [bstate EXCEPT !.nth = @ + 1]
        \/ bstate' = [at |-> "walk", peer |-> p, nth |-> bstate.nth, obj |-> hbr[p], h |-> "none",
                      done |-> {}, size |-> Cardinality(sets[p][hbr[p]])]
    BY DEF PopRespondent, Nobody
  <2>3. bstate'.at = "idle" \/ bstate'.peer = p
    <3>1. CASE bstate' = [bstate EXCEPT !.nth = @ + 1]
      BY <2>1, <3>1 DEF FireStates
    <3>2. CASE bstate' = [at |-> "walk", peer |-> p, nth |-> bstate.nth, obj |-> hbr[p], h |-> "none",
                          done |-> {}, size |-> Cardinality(sets[p][hbr[p]])]
      BY <3>2
    <3> QED
      BY <2>2, <3>1, <3>2
  <2>4. /\ UNCHANGED <<handleMap, sets, listeners, linked, hpc, hobj>>
        /\ hbr' = hbr \/ hbr' = [hbr EXCEPT ![p] = 0]
        /\ unseen' = unseen \/ unseen' = [unseen EXCEPT ![p] = @ \union ({hbr[p]} \ {0})]
    BY DEF PopRespondent
  <2> QED
    BY <2>3, <2>4
<1> HIDE DEF p
<1>4. sets[p] \in Seq(SUBSET Callers) /\ hbr[p] \in 0..Len(sets[p])
  <2>1. sets[p] \in Seq(SUBSET Callers) /\ hbr[p] \in Nat /\ (hbr[p] = 0 \/ hbr[p] = Len(sets[p]))
    BY <1>1, <1>2 DEF HandlersFields, Listed
  <2> QED
    BY <2>1
<1>5. unseen' \in [Peers -> SUBSET Nat]
  <2>1. unseen[p] \union ({hbr[p]} \ {0}) \in SUBSET Nat
    BY <1>1, <1>2, <1>4
  <2> QED
    BY <1>2, <1>3, <2>1
<1>6. \A q \in Peers : (q # p => hbr'[q] = hbr[q] /\ unseen'[q] = unseen[q])
                       /\ unseen'[q] \subseteq unseen[q] \union ({hbr[q]} \ {0})
  BY <1>1, <1>2, <1>3 DEF HandlersFields
<1>7. \A q \in Peers : unseen'[q] \subseteq 1..Len(sets[q])
  <2> SUFFICES ASSUME NEW q \in Peers, NEW i \in unseen'[q] PROVE i \in 1..Len(sets[q])
    OBVIOUS
  <2>1. \A j \in unseen[q] : j \in 1..Len(sets[q])
    BY DEF HeardInv
  <2>2. CASE q = p
    BY <2>1, <2>2, <1>4, <1>6
  <2>3. CASE q # p
    BY <2>1, <2>3, <1>6
  <2> QED
    BY <2>2, <2>3
<1>8. Gone'
  BY <1>1, <1>3 DEF Gone
<1>9. InUse'
  <2>1. \A q \in linked : q \in Peers /\ hbr'[q] = hbr[q] /\ unseen'[q] = unseen[q]
    BY <1>1, <1>2, <1>6 DEF HandlersFields
  <2> QED
    BY <2>1, <1>3 DEF HeardInv, InUse
<1>10. Placed'
  BY <1>3 DEF HeardInv, Placed, InItsSet
<1> QED
  BY <1>3, <1>5, <1>7, <1>8, <1>9, <1>10 DEF HeardInv

LEMMA BrokerHeard ==
  ASSUME HandlersInv, HeardInv,
         BrokerStep \/ BrokerExits \/ (\E c \in Callers : InvokeReply(c)) \/ \E p \in Peers : PeerDisconnect(p)
  PROVE  HeardInv'
<1> USE DEF At, Nobody
<1>1. CASE RouteRequest \/ InvokeDead \/ BrokerExits \/ \E c \in Callers : InvokeReply(c)
  <2>1. /\ UNCHANGED <<handleMap, hbr, sets, listeners, unseen, hpc, hobj, linked>>
        /\ bstate'.at \in {"idle", "pop", "exit"}
    BY <1>1 DEF RouteRequest, InvokeDead, BrokerExits, InvokeReply, Invoke, tableVars
  <2> QED
    BY <2>1, BrokerMoves DEF Gone
<1>2. ASSUME NEW p \in Peers, PeerDisconnect(p) PROVE HeardInv'
  <2>1. /\ UNCHANGED <<handleMap, hbr, sets, listeners, unseen, hpc, hobj>>
        /\ linked' = linked \ {p} /\ bstate'.peer = p
    BY <1>2 DEF PeerDisconnect, tableVars
  <2> QED
    BY <2>1, BrokerMoves DEF Gone
<1>3. CASE InvokePop \/ InvokePut \/ ExitPop
  <2>1. /\ UNCHANGED <<hbr, sets, listeners, unseen, hpc, hobj, linked>> /\ handleMap' \subseteq handleMap
    BY <1>3 DEF InvokePop, InvokePut, ExitPop, tableVars
  <2>2. bstate'.at \in {"idle", "discard", "exit", "stopped"}
    <3>1. CASE InvokePop
      <4>1. bstate \in InvokeStates
        BY <3>1, BrokerFields DEF InvokePop, HandlersInv
      <4> QED
        BY <3>1, <4>1 DEF InvokePop, Raises, InvokeStates
    <3>2. CASE InvokePut \/ ExitPop
      BY <3>2 DEF InvokePut, ExitPop
    <3> QED
      BY <1>3, <3>1, <3>2
  <2> QED
    BY <2>1, <2>2, BrokerMoves DEF Gone
<1>4. CASE InvokeDiscard
  <2>1. bstate \in InvokeStates /\ bstate.h \in Callers /\ bstate.h \notin handleMap
    BY <1>4, BrokerFields DEF InvokeDiscard, HandlersInv, AnswerOnce
  <2>2. sets' = Discard(bstate.h) /\ UNCHANGED <<hbr, hobj, hpc, handleMap, listeners, unseen, linked>>
    BY <1>4 DEF InvokeDiscard
  <2>3. bstate'.at \in {"idle", "put"}
    BY <1>4, <2>1 DEF InvokeDiscard, Raises, InvokeStates
  <2> QED
    BY <2>1, <2>2, <2>3, DiscardHeard DEF Gone
<1>5. CASE Walk \/ WalkTell \/ WalkErase
  <2>1. /\ UNCHANGED <<hbr, sets, listeners, unseen, hpc, hobj, linked>> /\ handleMap' \subseteq handleMap
    BY <1>5 DEF Walk, WalkTell, WalkErase, tableVars
  <2>2. bstate \in WalkStates /\ bstate.peer \notin linked
    BY <1>5, BrokerFields DEF Walk, WalkTell, WalkErase, HandlersInv, HeardInv, Gone
  <2>3. bstate'.at = "idle" \/ bstate'.peer = bstate.peer
    <3>1. \/ bstate' = [at |-> "idle"]
          \/ bstate' = [at |-> "fire", peer |-> bstate.peer, nth |-> bstate.nth + 1]
          \/ \E h : bstate' = [bstate EXCEPT !.at = "tell", !.h = h]
          \/ bstate' = [bstate EXCEPT !.at = "erase"]
          \/ bstate' = [bstate EXCEPT !.at = "walk", !.done = @ \union {bstate.h}]
      BY <1>5 DEF Walk, WalkTell, WalkErase, WalkRaises
    <3>2. CASE \E h : bstate' = [bstate EXCEPT !.at = "tell", !.h = h]
      BY <3>2, <2>2 DEF WalkStates
    <3>3. CASE bstate' = [bstate EXCEPT !.at = "erase"]
      BY <3>3, <2>2 DEF WalkStates
    <3>4. CASE bstate' = [bstate EXCEPT !.at = "walk", !.done = @ \union {bstate.h}]
      BY <3>4, <2>2 DEF WalkStates
    <3>5. CASE bstate' = [at |-> "fire", peer |-> bstate.peer, nth |-> bstate.nth + 1]
      BY <3>5
    <3>6. CASE bstate' = [at |-> "idle"]
      BY <3>6
    <3> QED
      BY <3>1, <3>2, <3>3, <3>4, <3>5, <3>6
  <2> QED
    BY <2>1, <2>2, <2>3, BrokerMoves DEF Gone
<1> QED
  BY <1>1, <1>2, <1>3, <1>4, <1>5, PopHeard DEF BrokerStep

LEMMA HeardStep == HandlersInv /\ HeardInv /\ [HandlersNext]_handlersVars => HeardInv'
<1> SUFFICES ASSUME HandlersInv, HeardInv, [HandlersNext]_handlersVars PROVE HeardInv'
  OBVIOUS
<1>1. CASE UNCHANGED handlersVars
  <2>1. UNCHANGED <<handleMap, hbr, sets, listeners, unseen, hpc, hobj, linked, bstate>>
    BY <1>1 DEF handlersVars, tableVars
  <2>2. Gone'
    BY <2>1 DEF HeardInv, Gone
  <2> QED
    BY <2>1, <2>2, BrokerMoves
<1> QED
  BY <1>1, CallerHeard, BrokerHeard DEF HandlersNext

-----------------------------------------------------------------------------
LEMMA CallsListed == HandlersInv /\ HeardInv => EveryCallListed
<1> SUFFICES ASSUME HandlersInv, HeardInv, NEW c \in Callers,
                    hpc[c] \in {"send", "get"}, c \in handleMap, PeerOf[c] \in linked
             PROVE  LET p == PeerOf[c] IN
                      /\ \/ hbr[p] # 0 /\ c \in sets[p][hbr[p]]
                         \/ \E i \in unseen[p] : c \in sets[p][i] /\ i < hbr[p]
                      /\ listeners[p] > 0 \/ \E d \in Callers : PeerOf[d] = p /\ hpc[d] = "listen"
  BY DEF EveryCallListed, Known
<1> DEFINE p == PeerOf[c]
           i == hobj[c]
<1>1. i \in 1..Len(sets[p]) /\ c \in sets[p][i]
  BY DEF HeardInv, Placed, InItsSet
<1>2. /\ hbr[p] = Len(sets[p]) /\ \A j \in 1..Len(sets[p]) : j < hbr[p] => j \in unseen[p]
      /\ Len(sets[p]) > 0 => listeners[p] > 0 \/ \E d \in Callers : PeerOf[d] = p /\ hpc[d] = "listen"
  BY DEF HeardInv, InUse
<1>3. Len(sets[p]) \in Nat
  BY HandlersAssumption DEF HandlersInv, HandlersFields
<1> HIDE DEF p, i
<1>4. Len(sets[p]) > 0 /\ (i = hbr[p] \/ i < hbr[p]) /\ hbr[p] # 0
  BY <1>1, <1>2, <1>3
<1> QED
  BY <1>1, <1>2, <1>4 DEF p

LEMMA HandlersKept == HandlersInv /\ HeardInv => HandlersSafe
<1> SUFFICES ASSUME HandlersInv, HeardInv PROVE HandlersSafe
  OBVIOUS
<1> USE DEF HandlersInv
<1>1. bstate.at \in {"idle", "fire", "walk", "tell", "erase", "pop", "discard", "put", "exit", "stopped"}
  BY DEF BrokerForm, InvokeStates, FireStates, WalkStates
<1>2. \A p \in Peers : Len(sets[p]) \in Nat /\ DOMAIN sets[p] = 1..Len(sets[p]) /\ \A i \in 1..Len(sets[p]) : sets[p][i] \subseteq Callers
  BY DEF HandlersFields
<1>3. \A c \in Callers : PeerOf[c] \in Peers
  BY HandlersAssumption
<1>4. HandlersTypeOK
  <2>1. \A p \in Peers : /\ hbr[p] \in 0..Len(sets[p]) /\ \A i \in DOMAIN sets[p] : sets[p][i] \subseteq Callers
                        /\ unseen[p] \subseteq DOMAIN sets[p]
    BY <1>2 DEF HandlersFields, Listed, HeardInv
  <2>2. \A c \in Callers : hobj[c] \in 0..Len(sets[PeerOf[c]])
    BY <1>2, <1>3 DEF HandlersFields, Listed
  <2> QED
    BY <1>1, <2>1, <2>2 DEF HandlersTypeOK, HandlersFields
<1>5. AnsweredAtMostOnce
  <2> SUFFICES ASSUME NEW c \in Callers PROVE Len(box[c]) <= 1
    BY DEF AnsweredAtMostOnce
  <2>1. box[c] # << >> => Len(box[c]) = 1
    BY DEF AnswerOnce
  <2>2. box[c] = << >> => Len(box[c]) = 0
    OBVIOUS
  <2>3. Len(box[c]) \in {0, 1}
    BY <2>1, <2>2
  <2>4. \A n \in {0, 1} : n <= 1
    OBVIOUS
  <2> HIDE DEF HandlersInv
  <2> QED
    BY <2>3, <2>4
<1> QED
  BY <1>4, <1>5, CallsListed DEF HandlersSafe

\* A caller gets at most one answer, the table by respondent lists no handle whose handler is gone, and a
\* registered call is where the disconnection of its context looks for it unless another add_handler() has
\* replaced its set, while replies, disconnections, close() and the exit of the broker meet: for any callers
\* and contexts.
THEOREM HandlersCorrect == HandlersSpec => []HandlersSafe
  BY InitHandlers, InitHeard, HandlersStep, HeardStep, HandlersKept, PTL DEF HandlersSpec

-----------------------------------------------------------------------------
(* Framing: whole messages through partial writes and reads                     *)

Bytes == Nat \X Nat
Streams == Seq(Bytes)
Flat(s) == FlattenSeq(s)

-----------------------------------------------------------------------------
(* Parts of a sequence *)

\* The empty sequence.
LEMMA NoSequence ==
  ASSUME NEW S, NEW s \in Seq(S)
  PROVE  <<>> \o s = s /\ s \o <<>> = s /\ (Len(s) = 0 <=> s = <<>>) /\ Len(s) \in Nat
  OBVIOUS

\* What Append() gives.
LEMMA Appended ==
  ASSUME NEW S, NEW s \in Seq(S), NEW e \in S
  PROVE  /\ <<e>> \in Seq(S) /\ Append(s, e) = s \o <<e>>
         /\ Append(s, e) \in Seq(S) /\ Len(Append(s, e)) = Len(s) + 1 /\ Append(s, e) # <<>>
         /\ (\A i \in 1..Len(s) : Append(s, e)[i] = s[i]) /\ Append(s, e)[Len(s) + 1] = e
  OBVIOUS

\* The end of a sequence,
LEMMA Suffix ==
  ASSUME NEW S, NEW s \in Seq(S), NEW n \in 0..Len(s)
  PROVE  /\ After(s, n) \in Seq(S) /\ Len(After(s, n)) = Len(s) - n
         /\ \A i \in 1..(Len(s) - n) : After(s, n)[i] = s[n + i]
<1>1. Len(s) \in Nat /\ n \in Nat /\ n <= Len(s)
  OBVIOUS
<1>2. \A i \in (n + 1)..Len(s) : s[i] \in S
  <2>1. \A i \in (n + 1)..Len(s) : i \in 1..Len(s)
    BY <1>1
  <2> QED BY <2>1, ElementOfSeq
<1>3. /\ SubSeq(s, n + 1, Len(s)) \in Seq(S) /\ Len(SubSeq(s, n + 1, Len(s))) = Len(s) - n
      /\ \A i \in 1..(Len(s) - n) : SubSeq(s, n + 1, Len(s))[i] = s[n + i]
  BY <1>1, <1>2, SubSeqProperties
<1> QED BY <1>3 DEF After

\* and any part of one.
LEMMA Part ==
  ASSUME NEW S, NEW s \in Seq(S), NEW a \in 1..(Len(s) + 1), NEW b \in (a - 1)..Len(s)
  PROVE  /\ SubSeq(s, a, b) \in Seq(S) /\ Len(SubSeq(s, a, b)) = b - a + 1
         /\ \A i \in 1..(b - a + 1) : SubSeq(s, a, b)[i] = s[a + i - 1]
<1>1. Len(s) \in Nat /\ a \in Nat /\ b \in Nat /\ 1 <= a /\ a <= b + 1 /\ b <= Len(s)
  OBVIOUS
<1>2. \A i \in a..b : s[i] \in S
  <2>1. \A i \in a..b : i \in 1..Len(s)
    BY <1>1
  <2> QED BY <2>1, ElementOfSeq
<1> QED BY <1>1, <1>2, SubSeqProperties

\* A sequence is its beginning and the rest.
LEMMA Cut ==
  ASSUME NEW S, NEW s \in Seq(S), NEW n \in 0..Len(s)
  PROVE  /\ SubSeq(s, 1, n) \in Seq(S) /\ Len(SubSeq(s, 1, n)) = n
         /\ SubSeq(s, 1, n) \o After(s, n) = s
<1> DEFINE b == SubSeq(s, 1, n)
           r == After(s, n)
<1>1. Len(s) \in Nat /\ n \in Nat /\ n <= Len(s) /\ 1 \in 1..(Len(s) + 1) /\ n \in (1 - 1)..Len(s)
  OBVIOUS
<1>2. b \in Seq(S) /\ Len(b) = n /\ \A i \in 1..n : b[i] = s[i]
  <2>1. Len(b) = n - 1 + 1 /\ b \in Seq(S) /\ \A i \in 1..(n - 1 + 1) : b[i] = s[1 + i - 1]
    BY <1>1, Part
  <2> QED BY <1>1, <2>1
<1>3. r \in Seq(S) /\ Len(r) = Len(s) - n /\ \A i \in 1..(Len(s) - n) : r[i] = s[n + i]
  BY Suffix
<1> HIDE DEF b, r
<1>4. /\ b \o r \in Seq(S) /\ Len(b \o r) = Len(b) + Len(r)
      /\ \A i \in 1..Len(b) + Len(r) : (b \o r)[i] = IF i <= Len(b) THEN b[i] ELSE r[i - Len(b)]
  <2>1. b \in Seq(S) /\ r \in Seq(S)
    BY <1>2, <1>3
  <2> QED BY <2>1, Concat
<1>5. ASSUME NEW i \in 1..Len(s) PROVE (b \o r)[i] = s[i]
  <2>1. (b \o r)[i] = IF i <= n THEN b[i] ELSE r[i - n]
    BY <1>1, <1>2, <1>3, <1>4
  <2>2. CASE i <= n
    BY <1>2, <2>1, <2>2
  <2>3. CASE ~(i <= n)
    <3>1. i - n \in 1..(Len(s) - n) /\ n + (i - n) = i
      BY <1>1, <2>3
    <3> QED BY <1>3, <2>1, <2>3, <3>1
  <2> QED BY <2>2, <2>3
<1>6. Len(b \o r) = Len(s)
  BY <1>1, <1>2, <1>3, <1>4
<1>7. b \o r = s
  BY <1>4, <1>5, <1>6, SameSeq
<1> QED BY <1>2, <1>7 DEF b, r

\* Beginnings of the same length are equal, and so is what follows.
LEMMA SameCut ==
  ASSUME NEW S, NEW a \in Seq(S), NEW b \in Seq(S), NEW c \in Seq(S), NEW d \in Seq(S),
         a \o b = c \o d, Len(a) = Len(c)
  PROVE  a = c /\ b = d
<1>1. Len(a) \in Nat /\ Len(b) \in Nat /\ Len(c) \in Nat /\ Len(d) \in Nat
  OBVIOUS
<1>2. /\ Len(a \o b) = Len(a) + Len(b) /\ (\A i \in 1..Len(a) : (a \o b)[i] = a[i])
      /\ \A i \in 1..Len(b) : (a \o b)[Len(a) + i] = b[i]
  <2>1. /\ Len(a \o b) = Len(a) + Len(b) /\ (\A i \in 1..Len(a) : (a \o b)[i] = a[i])
        /\ \A i \in 1..Len(b) : (a \o b)[Len(a) + i] = b[i]
    BY ConcatProperties
  <2> QED BY <2>1
<1>3. /\ Len(c \o d) = Len(c) + Len(d) /\ (\A i \in 1..Len(c) : (c \o d)[i] = c[i])
      /\ \A i \in 1..Len(d) : (c \o d)[Len(c) + i] = d[i]
  BY Concat
<1>4. Len(b) = Len(d)
  BY <1>1, <1>2, <1>3
<1>5. \A i \in 1..Len(a) : a[i] = c[i]
  BY <1>2, <1>3
<1>6. \A i \in 1..Len(b) : b[i] = d[i]
  BY <1>2, <1>3, <1>4
<1> QED BY <1>4, <1>5, <1>6, SameSeq

\* Both ends of a longer sequence.
LEMMA Shortened ==
  ASSUME NEW S, NEW s \in Seq(S), NEW t \in Seq(S), NEW n \in 0..Len(s)
  PROVE  After(s \o t, n) = After(s, n) \o t
<1> DEFINE b == SubSeq(s, 1, n)
           r == After(s, n)
           u == s \o t
<1>1. Len(s) \in Nat /\ Len(t) \in Nat /\ u \in Seq(S) /\ Len(u) = Len(s) + Len(t)
  BY Concat
<1>2. b \in Seq(S) /\ Len(b) = n /\ b \o r = s /\ r \in Seq(S)
  BY Cut, Suffix
<1>3. n \in 0..Len(u)
  BY <1>1
<1>4. SubSeq(u, 1, n) \in Seq(S) /\ Len(SubSeq(u, 1, n)) = n /\ SubSeq(u, 1, n) \o After(u, n) = u /\ After(u, n) \in Seq(S)
  BY <1>1, <1>3, Cut, Suffix
<1>5. b \o (r \o t) = u /\ r \o t \in Seq(S)
  <2> HIDE DEF b, r
  <2>1. b \in Seq(S) /\ r \in Seq(S)
    BY <1>2
  <2>2. (b \o r) \o t = b \o (r \o t)
    BY <2>1, Assoc, SMTT(60)
  <2>3. r \o t \in Seq(S)
    BY <2>1, Concat
  <2> QED BY <1>2, <2>2, <2>3 DEF u
<1> HIDE DEF b, r, u
<1>6. After(u, n) = r \o t
  BY <1>2, <1>4, <1>5, SameCut
<1> QED BY <1>6 DEF r, u

LEMMA Whole ==
  ASSUME NEW S, NEW s \in Seq(S), NEW t \in Seq(S)
  PROVE  After(s \o t, Len(s)) = t
<1> DEFINE u == s \o t
           n == Len(s)
<1>1. n \in Nat /\ Len(t) \in Nat /\ u \in Seq(S) /\ Len(u) = n + Len(t)
  BY Concat
<1>2. n \in 0..Len(u)
  BY <1>1
<1>3. SubSeq(u, 1, n) \in Seq(S) /\ Len(SubSeq(u, 1, n)) = n /\ SubSeq(u, 1, n) \o After(u, n) = u /\ After(u, n) \in Seq(S)
  BY <1>1, <1>2, Cut, Suffix
<1>4. s \o t = u
  OBVIOUS
<1> HIDE DEF u, n
<1>5. s = SubSeq(u, 1, n) /\ t = After(u, n)
  BY <1>3, <1>4, SameCut DEF n
<1> QED BY <1>5 DEF u, n

\* Skipping twice.
LEMMA SkipTwice ==
  ASSUME NEW S, NEW s \in Seq(S), NEW m \in 0..Len(s), NEW n \in 0..(Len(s) - m)
  PROVE  After(After(s, m), n) = After(s, m + n)
<1> DEFINE r == After(s, m)
           u == After(r, n)
           v == After(s, m + n)
<1>1. Len(s) \in Nat /\ m \in Nat /\ n \in Nat /\ m + n \in 0..Len(s)
  OBVIOUS
<1>2. r \in Seq(S) /\ Len(r) = Len(s) - m /\ \A i \in 1..(Len(s) - m) : r[i] = s[m + i]
  BY Suffix
<1>3. u \in Seq(S) /\ Len(u) = Len(r) - n /\ \A i \in 1..(Len(r) - n) : u[i] = r[n + i]
  BY <1>2, Suffix
<1>4. v \in Seq(S) /\ Len(v) = Len(s) - (m + n) /\ \A i \in 1..(Len(s) - (m + n)) : v[i] = s[(m + n) + i]
  BY <1>1, Suffix
<1> HIDE DEF r, u, v
<1>5. Len(u) = Len(v)
  BY <1>1, <1>2, <1>3, <1>4
<1>6. ASSUME NEW i \in 1..Len(u) PROVE u[i] = v[i]
  <2>1. /\ i \in 1..(Len(r) - n) /\ n + i \in 1..(Len(s) - m) /\ i \in 1..(Len(s) - (m + n))
        /\ m + (n + i) = (m + n) + i
    BY <1>1, <1>2, <1>3
  <2>2. u[i] = r[n + i] /\ r[n + i] = s[m + (n + i)] /\ v[i] = s[(m + n) + i]
    BY <1>2, <1>3, <1>4, <2>1
  <2> QED BY <2>1, <2>2
<1>7. u = v
  BY <1>3, <1>4, <1>5, <1>6, SameSeq
<1> QED BY <1>7 DEF r, u, v

\* A part of the beginning of a longer sequence.
LEMMA PartOfBeginning ==
  ASSUME NEW S, NEW s \in Seq(S), NEW t \in Seq(S), NEW a \in 1..(Len(s) + 1), NEW b \in (a - 1)..Len(s)
  PROVE  SubSeq(s \o t, a, b) = SubSeq(s, a, b)
<1> DEFINE u == s \o t
           x == SubSeq(u, a, b)
           y == SubSeq(s, a, b)
<1>1. Len(s) \in Nat /\ Len(t) \in Nat /\ u \in Seq(S) /\ Len(u) = Len(s) + Len(t) /\ \A i \in 1..Len(s) : u[i] = s[i]
  BY Concat
<1>2. a \in 1..(Len(u) + 1) /\ b \in (a - 1)..Len(u)
  BY <1>1
<1>3. y \in Seq(S) /\ Len(y) = b - a + 1 /\ \A i \in 1..(b - a + 1) : y[i] = s[a + i - 1]
  BY Part
<1>4. x \in Seq(S) /\ Len(x) = b - a + 1 /\ \A i \in 1..(b - a + 1) : x[i] = u[a + i - 1]
  BY <1>1, <1>2, Part
<1> HIDE DEF u, x, y
<1>5. ASSUME NEW i \in 1..Len(x) PROVE x[i] = y[i]
  <2>1. i \in 1..(b - a + 1) /\ a + i - 1 \in 1..Len(s)
    BY <1>1, <1>4
  <2> QED BY <1>1, <1>3, <1>4, <2>1
<1>6. x = y
  BY <1>3, <1>4, <1>5, SameSeq
<1> QED BY <1>6 DEF u, x, y

-----------------------------------------------------------------------------
(* Sequences of chunks *)

\* No chunks.
LEMMA FlatNone == Flat(<<>>) = <<>>
  BY DEF Flat, FlattenSeq

\* The partial results of FlattenSeq() are sequences.
LEMMA FlatTyped ==
  ASSUME NEW S, NEW s \in Seq(Seq(S)), NEW n \in Nat, n <= Len(s), NEW f, IsFlat(f, s, n)
  PROVE  \A i \in 1..n : f[i] \in Seq(S)
<1> DEFINE Bad == {i \in 1..n : f[i] \notin Seq(S)}
<1>1. ASSUME Bad # {} PROVE FALSE
  <2>1. PICK i \in Bad : \A j \in Bad : ~(<<j, i>> \in OpToRel(<, Nat))
    <3>1. IsWellFoundedOn(OpToRel(<, Nat), Nat)
      BY NatLessThanWellFounded
    <3>2. Bad \subseteq Nat
      OBVIOUS
    <3> QED BY <1>1, <3>1, <3>2, WFMin
  <2>2. i \in 1..n /\ f[i] \notin Seq(S) /\ f[i] = IF i = 1 THEN s[i] ELSE f[i - 1] \o s[i]
    BY <2>1 DEF IsFlat
  <2>3. i \in 1..Len(s) /\ s[i] \in Seq(S)
    <3>1. Len(s) \in Nat
      OBVIOUS
    <3>2. i \in 1..Len(s)
      BY <2>2, <3>1
    <3> QED BY <3>2, ElementOfSeq
  <2>4. i # 1 /\ i - 1 \in 1..n /\ i - 1 < i
    BY <2>2, <2>3
  <2>5. i - 1 \in Nat /\ i \in Nat
    BY <2>2, <2>4
  <2>8. i - 1 \notin Bad
    BY <2>1, <2>4, <2>5 DEF OpToRel
  <2>6. f[i - 1] \in Seq(S)
    BY <2>4, <2>8
  <2>7. f[i - 1] \o s[i] \in Seq(S)
    BY <2>3, <2>6, Concat
  <2> QED BY <2>2, <2>4, <2>7
<1> QED BY <1>1

\* Chunks join to a sequence.
LEMMA FlatSeq ==
  ASSUME NEW S, NEW s \in Seq(Seq(S))
  PROVE  Flat(s) \in Seq(S)
<1>1. Len(s) \in Nat
  OBVIOUS
<1>2. CASE s = <<>>
  BY <1>2, FlatNone, EmptySeq
<1>3. CASE s # <<>>
  <2>1. Len(s) \in Nat \ {0}
    BY <1>1, <1>3, NoSequence
  <2>2. PICK f : IsFlat(f, s, Len(s)) /\ FlattenSeq(s) = f[Len(s)]
    BY <2>1, FlattenIs
  <2>3. \A i \in 1..Len(s) : f[i] \in Seq(S)
    BY <1>1, <2>2, FlatTyped
  <2> QED BY <2>1, <2>2, <2>3 DEF Flat
<1> QED BY <1>2, <1>3

\* The recursion has one solution.
\* The first k elements are the same.
SameTo(k, s, t) == \A i \in 1..k : s[i] = t[i]
LEMMA FlatAgree ==
  ASSUME NEW s, NEW t, NEW f, NEW g, NEW m \in Nat, NEW n \in Nat, NEW k \in Nat,
         k <= m, k <= n, IsFlat(f, s, m), IsFlat(g, t, n), SameTo(k, s, t)
  PROVE  SameTo(k, f, g)
<1> SUFFICES \A i \in 1..k : f[i] = g[i]
  BY DEF SameTo
<1>2. \A i \in 1..k : s[i] = t[i]
  BY DEF SameTo
<1> DEFINE Bad == {i \in 1..k : f[i] # g[i]}
<1>1. ASSUME Bad # {} PROVE FALSE
  <2>1. PICK i \in Bad : \A j \in Bad : ~(<<j, i>> \in OpToRel(<, Nat))
    <3>1. IsWellFoundedOn(OpToRel(<, Nat), Nat)
      BY NatLessThanWellFounded
    <3>2. Bad \subseteq Nat
      OBVIOUS
    <3> QED BY <1>1, <3>1, <3>2, WFMin
  <2>2. i \in 1..k /\ i \in 1..m /\ i \in 1..n /\ f[i] # g[i] /\ s[i] = t[i]
    BY <1>2
  <2>3. f[i] = (IF i = 1 THEN s[i] ELSE f[i - 1] \o s[i]) /\ g[i] = (IF i = 1 THEN t[i] ELSE g[i - 1] \o t[i])
    BY <2>2 DEF IsFlat
  <2>4. i # 1
    BY <2>2, <2>3
  <2>5. i - 1 \in 1..k /\ i - 1 < i /\ i - 1 \in Nat /\ i \in Nat
    BY <2>2, <2>4
  <2>6. i - 1 \notin Bad
    BY <2>1, <2>5 DEF OpToRel
  <2>7. f[i - 1] = g[i - 1]
    BY <2>5, <2>6
  <2> QED BY <2>2, <2>3, <2>4, <2>7
<1> QED BY <1>1

\* One chunk more.
LEMMA FlatLonger ==
  ASSUME NEW s, NEW t, NEW x, NEW n \in Nat, Len(s) = n, Len(t) = n + 1, SameTo(n, t, s), t[n + 1] = x
  PROVE  FlattenSeq(t) = IF n = 0 THEN x ELSE FlattenSeq(s) \o x
<1>1. n + 1 \in Nat \ {0} /\ n + 1 \in Nat /\ n <= n /\ n <= n + 1
  OBVIOUS
<1>2. PICK g : IsFlat(g, t, n + 1) /\ FlattenSeq(t) = g[n + 1]
  <2>1. Len(t) \in Nat \ {0}
    OBVIOUS
  <2>2. \E g : IsFlat(g, t, Len(t)) /\ FlattenSeq(t) = g[Len(t)]
    BY <2>1, FlattenIs
  <2> QED
    BY <2>2
<1>3. CASE n = 0
  BY <1>2, <1>3 DEF IsFlat
<1>4. CASE n # 0
  <2>1. PICK f : IsFlat(f, s, n) /\ FlattenSeq(s) = f[n]
    <3>1. Len(s) \in Nat \ {0}
      BY <1>4
    <3>2. \E f : IsFlat(f, s, Len(s)) /\ FlattenSeq(s) = f[Len(s)]
      BY <3>1, FlattenIs
    <3> QED
      BY <3>2
  <2>2. \A i \in 1..n : g[i] = f[i]
    <3>1. IsFlat(g, t, n + 1) /\ IsFlat(f, s, n)
      BY <1>2, <2>1
    <3>2. SameTo(n, g, f)
      BY <1>1, <3>1, FlatAgree
    <3> QED BY <3>2 DEF SameTo
  <2>3. g[n + 1] = g[n] \o t[n + 1]
    <3>1. n + 1 \in 1..n + 1 /\ n + 1 # 1 /\ (n + 1) - 1 = n
      BY <1>4
    <3> QED
      BY <1>2, <3>1 DEF IsFlat
  <2>4. n \in 1..n
    BY <1>4
  <2> QED
    BY <1>2, <1>4, <2>1, <2>2, <2>3, <2>4
<1> QED
  BY <1>3, <1>4

LEMMA FlatAppend ==
  ASSUME NEW S, NEW s \in Seq(Seq(S)), NEW e \in Seq(S)
  PROVE  Flat(Append(s, e)) = Flat(s) \o e
<1>1. /\ Len(s) \in Nat /\ Len(Append(s, e)) = Len(s) + 1 /\ (\A i \in 1..Len(s) : Append(s, e)[i] = s[i])
      /\ Append(s, e)[Len(s) + 1] = e
  BY Appended, LenProperties
<1>2. FlattenSeq(Append(s, e)) = IF Len(s) = 0 THEN e ELSE FlattenSeq(s) \o e
  <2>1. SameTo(Len(s), Append(s, e), s)
    BY <1>1 DEF SameTo
  <2> QED BY <1>1, <2>1, FlatLonger
<1>3. CASE Len(s) = 0
  <2>1. Flat(s) \o e = e
    BY <1>3, FlatNone, NoSequence
  <2> QED BY <1>2, <1>3, <2>1 DEF Flat
<1>4. CASE Len(s) # 0
  BY <1>2, <1>4 DEF Flat
<1> QED BY <1>3, <1>4

LEMMA FlatOne ==
  ASSUME NEW S, NEW e \in Seq(S)
  PROVE  Flat(<<e>>) = e
<1>1. <<>> \in Seq(Seq(S)) /\ Append(<<>>, e) = <<e>>
  BY EmptySeq
<1>2. Flat(Append(<<>>, e)) = Flat(<<>>) \o e
  BY <1>1, FlatAppend
<1> QED BY <1>1, <1>2, FlatNone, NoSequence

\* Two rows of chunks, one after the other.
LEMMA FlatConcatNext ==
  ASSUME NEW S, NEW s \in Seq(Seq(S)), NEW p \in Seq(Seq(S)), NEW e \in Seq(S), Flat(s \o p) = Flat(s) \o Flat(p)
  PROVE  Flat(s \o Append(p, e)) = Flat(s) \o Flat(Append(p, e))
<1>1. Flat(Append(p, e)) = Flat(p) \o e
  BY FlatAppend
<1>2. Append(p, e) = p \o <<e>> /\ <<e>> \in Seq(Seq(S))
  BY Appended
<1>3. s \o p \in Seq(Seq(S))
  BY Concat
<1>4. Append(s \o p, e) = (s \o p) \o <<e>>
  BY <1>3, Appended
<1> DEFINE w == <<e>>
<1>5. (s \o p) \o w = s \o (p \o w)
  <2>1. w \in Seq(Seq(S))
    BY <1>2
  <2> HIDE DEF w
  <2> QED BY <2>1, Assoc, SMTT(60)
<1>6. Flat(Append(s \o p, e)) = Flat(s \o p) \o e
  BY <1>3, FlatAppend
<1>7. Flat(s) \in Seq(S) /\ Flat(p) \in Seq(S)
  BY FlatSeq
<1>8. (Flat(s) \o Flat(p)) \o e = Flat(s) \o (Flat(p) \o e)
  BY <1>7, Assoc, SMTT(60)
<1> QED BY <1>1, <1>2, <1>4, <1>5, <1>6, <1>8

LEMMA FlatConcat ==
  ASSUME NEW S, NEW s \in Seq(Seq(S)), NEW t \in Seq(Seq(S))
  PROVE  Flat(s \o t) = Flat(s) \o Flat(t)
<1> DEFINE P(n) == SubSeq(t, 1, n)
           Bad == {n \in 0..Len(t) : Flat(s \o P(n)) # Flat(s) \o Flat(P(n))}
<1>0. Len(t) \in Nat
  OBVIOUS
<1>1. ASSUME Bad # {} PROVE FALSE
  <2>1. PICK n \in Bad : \A j \in Bad : ~(<<j, n>> \in OpToRel(<, Nat))
    <3>1. IsWellFoundedOn(OpToRel(<, Nat), Nat)
      BY NatLessThanWellFounded
    <3>2. Bad \subseteq Nat
      BY <1>0
    <3> QED BY <1>1, <3>1, <3>2, WFMin
  <2>2. n \in 0..Len(t) /\ Flat(s \o P(n)) # Flat(s) \o Flat(P(n))
    BY <2>1
  <2>3. CASE n = 0
    <3>1. P(n) \in Seq(Seq(S)) /\ Len(P(n)) = 0
      BY <2>2, <2>3, Cut
    <3>2. P(n) = <<>>
      BY <3>1, NoSequence
    <3>3. s \o P(n) = s /\ Flat(s) \o Flat(P(n)) = Flat(s)
      BY <3>2, FlatNone, FlatSeq, NoSequence
    <3> QED BY <2>2, <3>3
  <2>4. CASE n # 0
    <3> DEFINE m == n - 1
    <3>1. n \in Nat /\ m \in 0..Len(t) /\ m < n /\ m \in Nat /\ n \in 1..Len(t) /\ m + 1 = n
      BY <1>0, <2>2, <2>4
    <3>2. m \notin Bad
      BY <2>1, <3>1 DEF OpToRel
    <3>3. Flat(s \o P(m)) = Flat(s) \o Flat(P(m))
      BY <3>1, <3>2
    <3>4. t[n] \in Seq(S)
      BY <3>1, ElementOfSeq
    <3>5. P(m) \in Seq(Seq(S)) /\ Len(P(m)) = m /\ P(n) \in Seq(Seq(S)) /\ Len(P(n)) = n
      BY <3>1, <2>2, Cut
    <3>6. P(n) = Append(P(m), t[n])
      <4> DEFINE a == Append(P(m), t[n])
                 p == P(n)
                 q == P(m)
      <4>1. 1 \in 1..(Len(t) + 1) /\ n \in (1 - 1)..Len(t) /\ m \in (1 - 1)..Len(t) /\ n - 1 + 1 = n /\ m - 1 + 1 = m
        BY <1>0, <3>1
      <4>2. \A i \in 1..n : p[i] = t[1 + i - 1]
        BY <4>1, Part
      <4>3. \A i \in 1..m : q[i] = t[1 + i - 1]
        BY <4>1, Part
      <4> HIDE DEF P, p, q
      <4>4. q \in Seq(Seq(S)) /\ Len(q) = m /\ p \in Seq(Seq(S)) /\ Len(p) = n
        BY <3>5 DEF p, q
      <4>5. a \in Seq(Seq(S)) /\ Len(a) = m + 1 /\ (\A i \in 1..m : a[i] = q[i]) /\ a[m + 1] = t[n]
        BY <3>4, <4>4 DEF q
      <4> HIDE DEF a, m
      <4>6. ASSUME NEW i \in 1..n PROVE p[i] = a[i]
        <5>1. p[i] = t[i]
          <6>1. 1 + i - 1 = i
            BY <3>1
          <6> QED BY <4>2, <6>1
        <5>2. CASE i = n
          BY <3>1, <4>5, <5>1, <5>2
        <5>3. CASE i # n
          <6>1. i \in 1..m /\ 1 + i - 1 = i
            BY <3>1, <5>3
          <6> QED BY <4>3, <4>5, <5>1, <6>1
        <5> QED BY <5>2, <5>3
      <4>7. p = a
        BY <3>1, <4>4, <4>5, <4>6, SameSeq
      <4> QED BY <4>7 DEF p, a
    <3>7. Flat(s \o Append(P(m), t[n])) = Flat(s) \o Flat(Append(P(m), t[n]))
      <4> HIDE DEF P, m
      <4> QED BY <3>3, <3>4, <3>5, FlatConcatNext
    <3> QED BY <2>2, <3>6, <3>7
  <2> QED BY <2>3, <2>4
<1>2. Len(t) \in 0..Len(t) /\ P(Len(t)) = t
  <2>1. Len(t) \in 0..Len(t)
    BY <1>0
  <2>2. P(Len(t)) \in Seq(Seq(S)) /\ Len(P(Len(t))) = Len(t) /\ P(Len(t)) \o After(t, Len(t)) = t
    BY <2>1, Cut
  <2>3. After(t, Len(t)) \in Seq(Seq(S)) /\ Len(After(t, Len(t))) = Len(t) - Len(t)
    BY <2>1, Suffix
  <2>4. After(t, Len(t)) = <<>>
    BY <1>0, <2>3, NoSequence
  <2> QED BY <2>1, <2>2, <2>4, NoSequence
<1> QED BY <1>1, <1>2

\* One chunk in front.
LEMMA FlatCons ==
  ASSUME NEW S, NEW e \in Seq(S), NEW s \in Seq(Seq(S))
  PROVE  Flat(<<e>> \o s) = e \o Flat(s)
<1>1. <<e>> \in Seq(Seq(S)) /\ Flat(<<e>>) = e
  BY FlatOne
<1> QED BY <1>1, FlatConcat, Zenon

\* Chunks that are not empty: there is none, or there are bytes.
LEMMA FlatSome ==
  ASSUME NEW S, NEW s \in Seq(Seq(S)), \A i \in 1..Len(s) : Len(s[i]) > 0, s # <<>>
  PROVE  Len(Flat(s)) > 0
<1>1. s[1] \in Seq(S) /\ Tail(s) \in Seq(Seq(S)) /\ s = <<s[1]>> \o Tail(s) /\ Len(s[1]) > 0
  <2>1. Len(s) \in Nat /\ Len(s) # 0
    BY NoSequence
  <2>2. 1 \in 1..Len(s)
    BY <2>1
  <2>3. s[1] \in Seq(S)
    BY <2>2, ElementOfSeq
  <2>4. Tail(s) \in Seq(Seq(S)) /\ s = <<s[1]>> \o Tail(s)
    OBVIOUS
  <2> QED BY <2>2, <2>3, <2>4
<1>2. Flat(s) = s[1] \o Flat(Tail(s)) /\ Flat(Tail(s)) \in Seq(S)
  BY <1>1, FlatCons, FlatSeq
<1>3. Len(Flat(s)) = Len(s[1]) + Len(Flat(Tail(s))) /\ Len(Flat(Tail(s))) \in Nat /\ Len(s[1]) \in Nat
  BY <1>1, <1>2, Concat
<1> QED BY <1>1, <1>3

-----------------------------------------------------------------------------
(* The invariant of a stream *)

Garbage == <<0, 0>>
Done == Len(routed)
FramingFields ==
  /\ lengths \in Seq(Bodies) /\ handed \in Streams /\ buf \in Seq(Streams) /\ pipe \in Streams
  /\ chunks \in Seq(Streams) /\ routed \in Seq(Streams) /\ held = Len(Flat(chunks)) /\ Len(pipe) <= PipeSize
  /\ writable \in BOOLEAN /\ cutting \in BOOLEAN /\ writer \in {"open", "closed"} /\ reader \in {"open", "closed"}
\* What the transmit side has still to write.
Writing ==
  /\ writable => writer = "open"
  /\ writer = "open" => len = Len(Flat(buf)) /\ (writable <=> buf # <<>>)
  /\ \A i \in 1..Len(buf) : Len(buf[i]) > 0
\* What was handed over is routed, or held, or in the pipe, or waits; a closed writer drops the last.
Conserved ==
  /\ Consumed \in 0..Len(handed)
  /\ \E rest \in Streams : /\ After(handed, Consumed) = Flat(chunks) \o (pipe \o rest)
                           /\ writer = "open" => rest = Flat(buf)
\* The pieces ps that follow the k messages routed: the frames of the others, and a foreign byte at g unless g = 0.
Coming(ps, g, ls, k) ==
  /\ ps \in Seq(Streams) /\ g \in 0..Len(ps)
  /\ Len(ps) = Len(ls) - k + (IF g = 0 THEN 0 ELSE 1)
  /\ \A i \in 1..Len(ps) : ps[i] = IF i = g THEN <<Garbage>>
                                   ELSE IF g = 0 \/ i < g THEN Frame(k + i, ls[k + i])
                                   ELSE Frame(k + i - 1, ls[k + i - 1])
Ahead == \E ps, g : /\ Coming(ps, g, lengths, Done) /\ After(handed, Consumed) = Flat(ps)
                    /\ g # 0 => \E i \in DOMAIN handed : handed[i] = Garbage
\* The length of the message that is being received.
Due == HeaderLen + lengths[Done + 1]
Reading ==
  /\ Done <= Len(lengths) /\ MessagesWhole
  /\ Len(chunks) >= 2 => /\ Len(chunks[1]) >= JoinBelow /\ Done < Len(lengths)
                         /\ Len(Flat(SubSeq(chunks, 1, Len(chunks) - 1))) < Due
  /\ cutting => reader = "open"
  /\ ~cutting /\ reader = "open" => held < HeaderLen \/ (Done < Len(lengths) /\ held < Due)
FramingInv == FramingFields /\ Writing /\ Conserved /\ Ahead /\ Reading /\ DroppedForCause

\* A frame, and its first byte.
LEMMA FrameIs ==
  ASSUME NEW m \in Nat, NEW n \in Nat
  PROVE  /\ Frame(m, n) \in Streams /\ Len(Frame(m, n)) = HeaderLen + n /\ Len(Frame(m, n)) > 0
         /\ Frame(m, n)[1] = <<m, 1>>
<1>1. HeaderLen \in Nat \ {0} /\ HeaderLen + n \in Nat /\ 1 \in 1..(HeaderLen + n) /\ HeaderLen + n > 0
  BY FramingAssumption DEF FramingAssumption
<1>2. \A i \in 1..(HeaderLen + n) : <<m, i>> \in Bytes
  BY <1>1 DEF Bytes
<1> DEFINE x == HeaderLen + n
<1> HIDE DEF x
<1>3. [i \in 1..x |-> <<m, i>>] \in Seq(Bytes) /\ Len([i \in 1..x |-> <<m, i>>]) = x
  BY <1>1, <1>2 DEF x
<1> QED BY <1>1, <1>3 DEF Frame, x, Streams

LEMMA FramingInitially == FramingInit => FramingInv
<1> SUFFICES ASSUME FramingInit PROVE FramingInv
  OBVIOUS
<1> USE DEF FramingInit
<1>0. \A S : <<>> \in Seq(S) /\ Len(<<>>) = 0
  BY EmptySeq
<1>1. Flat(<<>>) = <<>> /\ <<>> \o (<<>> \o <<>>) = <<>> /\ DOMAIN <<>> = {} /\ HeaderLen \in Nat \ {0}
  BY FlatNone, FramingAssumption DEF FramingAssumption
<1>2. Consumed = 0
  BY <1>0, <1>1 DEF Consumed, Flat
<1>3. After(<<>>, 0) = <<>>
  <2>1. <<>> \in Seq(Bytes) /\ 0 \in 0..Len(<<>>)
    BY <1>0
  <2>2. After(<<>>, 0) \in Seq(Bytes) /\ Len(After(<<>>, 0)) = Len(<<>>) - 0
    BY <2>1, Suffix
  <2> QED BY <1>0, <2>2, NoSequence
<1>4. FramingFields
  <2>1. <<>> \in Seq(Bodies) /\ <<>> \in Seq(Bytes) /\ <<>> \in Seq(Seq(Bytes)) /\ Len(<<>>) = 0 /\ 0 <= PipeSize
    BY <1>0, FramingAssumption DEF FramingAssumption
  <2>2. held = Len(Flat(chunks))
    BY <1>1, <2>1
  <2> QED BY <2>1, <2>2 DEF FramingFields, Streams
<1>5. Writing
  BY <1>0, <1>1 DEF Writing
<1>6. Conserved
  <2>1. Len(handed) = 0 /\ <<>> \in Streams
    BY <1>0 DEF Streams
  <2>2. Consumed \in 0..Len(handed)
    BY <1>2, <2>1
  <2>3. After(handed, Consumed) = Flat(chunks) \o (pipe \o <<>>) /\ Flat(buf) = <<>>
    BY <1>1, <1>2, <1>3
  <2> QED BY <2>1, <2>2, <2>3 DEF Conserved
<1>7. Ahead
  <2>1. Coming(<<>>, 0, lengths, Done)
    BY <1>0 DEF Coming, Done
  <2> QED BY <1>1, <1>2, <1>3, <2>1 DEF Ahead
<1>8. Reading
  BY <1>0, <1>1 DEF Reading, Done, MessagesWhole
<1>9. DroppedForCause
  BY DEF DroppedForCause
<1> QED BY <1>4, <1>5, <1>6, <1>7, <1>8, <1>9 DEF FramingInv

\* What the invariant says of the parts.
LEMMA StreamFacts ==
  ASSUME FramingInv
  PROVE  /\ Flat(buf) \in Streams /\ Flat(chunks) \in Streams /\ held \in Nat /\ Len(pipe) \in Nat /\ Room \in Nat
         /\ Len(lengths) \in Nat /\ Done \in Nat /\ Done <= Len(lengths)
         /\ HeaderLen \in Nat \ {0} /\ JoinBelow \in Nat /\ JoinBelow >= HeaderLen /\ PipeSize \in Nat
         /\ \A k \in 1..Len(lengths) : lengths[k] \in Nat
<1>1. FramingFields /\ Reading
  BY DEF FramingInv
<1>2. Flat(buf) \in Streams /\ Flat(chunks) \in Streams
  BY <1>1, FlatSeq DEF FramingFields, Streams
<1>3. held \in Nat /\ Len(pipe) \in Nat /\ Len(lengths) \in Nat /\ Done \in Nat
  <2>1. held = Len(Flat(chunks))
    BY <1>1 DEF FramingFields
  <2>2. Len(Flat(chunks)) \in Nat
    BY <1>2, LenProperties DEF Streams
  <2>3. Len(pipe) \in Nat /\ Len(lengths) \in Nat /\ Done \in Nat
    BY <1>1, LenProperties DEF FramingFields, Streams, Done
  <2> QED BY <2>1, <2>2, <2>3
<1>4. HeaderLen \in Nat \ {0} /\ JoinBelow \in Nat /\ JoinBelow >= HeaderLen /\ PipeSize \in Nat
  BY FramingAssumption DEF FramingAssumption
<1>5. Room \in Nat
  BY <1>1, <1>3, <1>4 DEF FramingFields, Room
<1>6. Done <= Len(lengths)
  BY <1>1 DEF Reading
<1>7. \A k \in 1..Len(lengths) : lengths[k] \in Nat
  <2>1. \A k \in 1..Len(lengths) : lengths[k] \in Bodies
    BY <1>1, ElementOfSeq DEF FramingFields
  <2> QED BY <2>1, FramingAssumption DEF FramingAssumption
<1> QED BY <1>2, <1>3, <1>4, <1>5, <1>6, <1>7

-----------------------------------------------------------------------------
(* The transmit side *)

\* What waits, with one chunk more.
LEMMA KeepKeeps ==
  ASSUME NEW S, NEW b \in Seq(Seq(S)), NEW x \in Seq(S), Len(x) > 0, \A i \in 1..Len(b) : Len(b[i]) > 0
  PROVE  /\ Append(b, x) \in Seq(Seq(S)) /\ Append(b, x) # <<>>
         /\ \A i \in 1..Len(Append(b, x)) : Len(Append(b, x)[i]) > 0
         /\ Flat(Append(b, x)) = Flat(b) \o x /\ Len(Flat(Append(b, x))) = Len(Flat(b)) + Len(x)
<1> DEFINE c == Append(b, x)
<1>1. c \in Seq(Seq(S)) /\ Len(c) = Len(b) + 1 /\ (\A i \in 1..Len(b) : c[i] = b[i]) /\ c[Len(b) + 1] = x /\ Len(b) \in Nat /\ c # <<>>
  <2>1. Append(b, x) \in Seq(Seq(S)) /\ Append(b, x) # <<>>
    BY Appended
  <2>2. Len(b) \in Nat /\ Len(Append(b, x)) = Len(b) + 1
    BY Appended, LenProperties
  <2>3. (\A i \in 1..Len(b) : Append(b, x)[i] = b[i]) /\ Append(b, x)[Len(b) + 1] = x
    BY Appended
  <2> QED BY <2>1, <2>2, <2>3
<1>2. Flat(c) = Flat(b) \o x /\ Flat(b) \in Seq(S)
  BY FlatAppend, FlatSeq
<1>3. Len(Flat(c)) = Len(Flat(b)) + Len(x)
  BY <1>2, Concat
<1> HIDE DEF c
<1>4. ASSUME NEW i \in 1..Len(c) PROVE Len(c[i]) > 0
  <2>1. i \in 1..Len(b) \/ i = Len(b) + 1
    BY <1>1
  <2> QED BY <1>1, <2>1
<1> QED BY <1>1, <1>2, <1>3, <1>4 DEF c

\* write(): what it is given follows what the pipe and the buffer hold.
LEMMA WriteKeeps ==
  ASSUME FramingInv, writer = "open", NEW s \in Streams, Len(s) > 0, Write(s)
  PROVE  /\ pipe' \in Streams /\ Len(pipe') <= PipeSize /\ buf' \in Seq(Streams) /\ writable' \in BOOLEAN
         /\ len' = Len(Flat(buf')) /\ (writable' <=> buf' # <<>>)
         /\ \A i \in 1..Len(buf') : Len(buf'[i]) > 0
         /\ pipe' \o Flat(buf') = (pipe \o Flat(buf)) \o s
<1>1. /\ Flat(buf) \in Seq(Bytes) /\ Room \in Nat /\ Len(pipe) \in Nat /\ PipeSize \in Nat /\ Room = PipeSize - Len(pipe)
      /\ buf \in Seq(Seq(Bytes)) /\ pipe \in Seq(Bytes) /\ writable \in BOOLEAN /\ s \in Seq(Bytes) /\ Len(pipe) <= PipeSize
      /\ len = Len(Flat(buf)) /\ (writable <=> buf # <<>>) /\ \A i \in 1..Len(buf) : Len(buf[i]) > 0
  BY StreamFacts DEF FramingInv, FramingFields, Writing, Streams, Room
<1>2. Len(s) \in Nat /\ Len(Flat(buf)) \in Nat
  BY <1>1, LenProperties
<1>6. len = 0 => buf = <<>>
  <2>1. buf # <<>> => Len(Flat(buf)) > 0
    BY <1>1, FlatSome
  <2> QED BY <1>1, <2>1
<1>3. CASE len = 0 /\ Room >= Len(s) /\ pipe' = pipe \o s /\ UNCHANGED <<buf, len, writable>>
  <2>1. buf = <<>>
    BY <1>1, <1>6, <1>3
  <2>2. pipe \o s \in Seq(Bytes) /\ Len(pipe \o s) = Len(pipe) + Len(s)
    BY <1>1, Concat
  <2>3. pipe \o Flat(buf) = pipe /\ pipe' \o Flat(buf') = pipe'
    BY <1>1, <1>3, <2>1, <2>2, FlatNone, NoSequence
  <2>4. Len(pipe') <= PipeSize
    BY <1>1, <1>2, <1>3, <2>2
  <2> QED BY <1>1, <1>3, <2>2, <2>3, <2>4 DEF Streams
<1>4. CASE len = 0 /\ Room < Len(s) /\ pipe' = pipe \o SubSeq(s, 1, Room) /\ Keep(After(s, Room))
  <2> DEFINE a == SubSeq(s, 1, Room)
             r == After(s, Room)
  <2>1. buf = <<>>
    BY <1>1, <1>6, <1>4
  <2>2. Room \in 0..Len(s)
    BY <1>1, <1>2, <1>4
  <2>3. a \in Seq(Bytes) /\ Len(a) = Room /\ a \o r = s /\ r \in Seq(Bytes) /\ Len(r) = Len(s) - Room
    BY <1>1, <2>2, Cut, Suffix
  <2> HIDE DEF a, r
  <2>4. Len(r) > 0 /\ pipe \o a \in Seq(Bytes) /\ Len(pipe \o a) = Len(pipe) + Len(a)
    BY <1>1, <1>2, <1>4, <2>3, Concat
  <2>5. /\ Append(buf, r) \in Seq(Seq(Bytes)) /\ Append(buf, r) # <<>>
        /\ \A i \in 1..Len(Append(buf, r)) : Len(Append(buf, r)[i]) > 0
        /\ Flat(Append(buf, r)) = Flat(buf) \o r /\ Len(Flat(Append(buf, r))) = Len(Flat(buf)) + Len(r)
    BY <1>1, <2>3, <2>4, KeepKeeps
  <2>6. buf' = Append(buf, r) /\ len' = len + Len(r) /\ writable' = TRUE /\ pipe' = pipe \o a
    BY <1>4 DEF Keep, a, r
  <2>7. Len(pipe') <= PipeSize
    BY <1>1, <2>3, <2>4, <2>6
  <2>8. pipe' \o Flat(buf') = (pipe \o Flat(buf)) \o s
    <3>1. Flat(buf') = r /\ pipe \o Flat(buf) = pipe
      BY <1>1, <2>1, <2>3, <2>5, <2>6, FlatNone, NoSequence
    <3>2. (pipe \o a) \o r = pipe \o (a \o r)
      <4>1. pipe \in Seq(Bytes) /\ a \in Seq(Bytes) /\ r \in Seq(Bytes)
        BY <1>1, <2>3
      <4> QED BY <4>1, Assoc, SMTT(60)
    <3> QED BY <2>3, <2>6, <3>1, <3>2
  <2> QED BY <1>1, <2>4, <2>5, <2>6, <2>7, <2>8 DEF Streams
<1>5. CASE Keep(s) /\ UNCHANGED pipe
  <2>1. buf' = Append(buf, s) /\ len' = len + Len(s) /\ writable' = TRUE
    BY <1>5 DEF Keep
  <2>2. /\ Append(buf, s) \in Seq(Seq(Bytes)) /\ Append(buf, s) # <<>>
        /\ \A i \in 1..Len(Append(buf, s)) : Len(Append(buf, s)[i]) > 0
        /\ Flat(Append(buf, s)) = Flat(buf) \o s /\ Len(Flat(Append(buf, s))) = Len(Flat(buf)) + Len(s)
    BY <1>1, KeepKeeps
  <2>3. pipe \o (Flat(buf) \o s) = (pipe \o Flat(buf)) \o s
    BY <1>1, Assoc, SMTT(60)
  <2> QED BY <1>1, <1>5, <2>1, <2>2, <2>3 DEF Streams
<1> QED BY <1>3, <1>4, <1>5 DEF Write

\* The next frame follows the pieces that come.
LEMMA ComingSent ==
  ASSUME NEW ls \in Seq(Bodies), NEW k \in Nat, k <= Len(ls), NEW ps, NEW g, Coming(ps, g, ls, k), NEW n \in Bodies
  PROVE  Coming(Append(ps, Frame(Len(ls) + 1, n)), g, Append(ls, n), k)
<1> DEFINE f == Frame(Len(ls) + 1, n)
           qs == Append(ps, f)
           ms == Append(ls, n)
           l == Len(ls)
           c == Len(ps)
<1>1. l \in Nat /\ ms \in Seq(Bodies) /\ Len(ms) = l + 1 /\ (\A i \in 1..l : ms[i] = ls[i]) /\ ms[l + 1] = n
  OBVIOUS
<1>2. f \in Streams
  <2>1. n \in Nat /\ Len(ls) + 1 \in Nat
    BY <1>1, FramingAssumption DEF FramingAssumption
  <2> QED BY <2>1, FrameIs
<1>3. ps \in Seq(Streams) /\ g \in 0..c /\ c = l - k + (IF g = 0 THEN 0 ELSE 1)
      /\ \A i \in 1..c : ps[i] = IF i = g THEN <<Garbage>>
                                ELSE IF g = 0 \/ i < g THEN Frame(k + i, ls[k + i])
                                ELSE Frame(k + i - 1, ls[k + i - 1])
  BY DEF Coming
<1>4. c \in Nat
  BY <1>3, LenProperties
<1> HIDE DEF f
<1>5. qs \in Seq(Streams) /\ Len(qs) = c + 1 /\ (\A i \in 1..c : qs[i] = ps[i]) /\ qs[c + 1] = f
  <2>1. ps \in Seq(Streams)
    BY <1>3
  <2> QED BY <1>2, <2>1, Appended
<1>9. l \in Nat /\ k \in Nat /\ c \in Nat /\ g \in 0..c /\ c = l - k + (IF g = 0 THEN 0 ELSE 1)
  BY <1>1, <1>3, <1>4
<1> HIDE DEF qs, ms, l, c
<1>6. ASSUME NEW i \in 1..(c + 1)
      PROVE  qs[i] = IF i = g THEN <<Garbage>>
                     ELSE IF g = 0 \/ i < g THEN Frame(k + i, ms[k + i])
                     ELSE Frame(k + i - 1, ms[k + i - 1])
  <2>1. CASE i = c + 1
    <3>1. i # g /\ ~(i < g)
      BY <1>3, <1>4, <2>1
    <3>2. CASE g = 0
      <4>1. k + i = l + 1
        BY <1>1, <1>3, <2>1, <3>2
      <4> QED BY <1>1, <1>5, <2>1, <3>1, <3>2, <4>1 DEF f, l
    <3>3. CASE g # 0
      <4>1. k + i - 1 = l + 1
        BY <1>1, <1>3, <2>1, <3>3
      <4> QED BY <1>1, <1>5, <2>1, <3>1, <3>3, <4>1 DEF f, l
    <3> QED BY <3>2, <3>3
  <2>2. CASE i # c + 1
    <3>1. i \in 1..c /\ qs[i] = ps[i]
      BY <1>4, <1>5, <2>2
    <3>2. CASE i = g
      BY <1>3, <3>1, <3>2
    <3>3. CASE i # g /\ (g = 0 \/ i < g)
      <4>1. k + i \in 1..l
        BY <1>9, <3>1, <3>3
      <4> QED BY <1>1, <1>3, <3>1, <3>3, <4>1
    <3>4. CASE i # g /\ ~(g = 0 \/ i < g)
      <4>1. k + i - 1 \in 1..l
        BY <1>9, <3>1, <3>4
      <4> QED BY <1>1, <1>3, <3>1, <3>4, <4>1
    <3> QED BY <3>2, <3>3, <3>4
  <2> QED BY <2>1, <2>2
<1>7. c + 1 = (l + 1) - k + (IF g = 0 THEN 0 ELSE 1) /\ g \in 0..(c + 1)
  BY <1>1, <1>3, <1>4
<1>8. Coming(qs, g, ms, k)
  BY <1>1, <1>5, <1>6, <1>7 DEF Coming
<1> QED BY <1>8 DEF qs, ms, f, l

\* So does a foreign byte, if it is the first.
LEMMA ComingSpoiled ==
  ASSUME NEW ls \in Seq(Bodies), NEW k \in Nat, NEW ps, Coming(ps, 0, ls, k)
  PROVE  Coming(Append(ps, <<Garbage>>), Len(ps) + 1, ls, k)
<1> DEFINE qs == Append(ps, <<Garbage>>)
           c == Len(ps)
<1>1. <<Garbage>> \in Streams
  BY DEF Garbage, Streams, Bytes
<1>2. ps \in Seq(Streams) /\ c = Len(ls) - k /\ (\A i \in 1..c : i # 0 /\ ps[i] = Frame(k + i, ls[k + i])) /\ Len(ls) \in Nat /\ c \in Nat
  <2>1. ps \in Seq(Streams) /\ c = Len(ls) - k + 0 /\ \A i \in 1..c : ps[i] = IF i = 0 THEN <<Garbage>> ELSE Frame(k + i, ls[k + i])
    BY DEF Coming
  <2>2. c \in Nat /\ Len(ls) \in Nat
    BY <2>1, LenProperties
  <2> QED BY <2>1, <2>2
<1>3. qs \in Seq(Streams) /\ Len(qs) = c + 1 /\ (\A i \in 1..c : qs[i] = ps[i]) /\ qs[c + 1] = <<Garbage>>
  <2>1. ps \in Seq(Streams)
    BY <1>2
  <2> QED BY <1>1, <2>1, Appended
<1>7. c \in Nat /\ Len(ls) \in Nat /\ c = Len(ls) - k
  BY <1>2
<1> HIDE DEF qs, c
<1>4. ASSUME NEW i \in 1..(c + 1)
      PROVE  qs[i] = IF i = c + 1 THEN <<Garbage>>
                     ELSE IF c + 1 = 0 \/ i < c + 1 THEN Frame(k + i, ls[k + i])
                     ELSE Frame(k + i - 1, ls[k + i - 1])
  <2>1. CASE i = c + 1
    BY <1>3, <2>1
  <2>2. CASE i # c + 1
    <3>1. i \in 1..c /\ i < c + 1
      BY <1>7, <2>2
    <3> QED BY <1>2, <1>3, <2>2, <3>1
  <2> QED BY <2>1, <2>2
<1>5. c + 1 \in 0..(c + 1) /\ c + 1 = Len(ls) - k + (IF c + 1 = 0 THEN 0 ELSE 1)
  BY <1>2
<1>6. Coming(qs, c + 1, ls, k)
  BY <1>3, <1>4, <1>5 DEF Coming
<1> QED BY <1>6 DEF qs, c

\* A step of the transmit side that leaves the order of the bytes alone.
LEMMA SameBytes ==
  ASSUME FramingInv, writer = "open", UNCHANGED <<lengths, handed, chunks, routed>>,
         pipe' \in Streams, buf' \in Seq(Streams), pipe' \o Flat(buf') = pipe \o Flat(buf)
  PROVE  Conserved' /\ Ahead'
<1>1. Consumed' = Consumed /\ Done' = Done
  BY DEF Consumed, Done
<1>2. Flat(buf') \in Streams
  BY FlatSeq DEF Streams
<1>3. After(handed, Consumed) = Flat(chunks) \o (pipe \o Flat(buf)) /\ Consumed \in 0..Len(handed)
  BY DEF FramingInv, Conserved
<1>4. Conserved'
  BY <1>1, <1>2, <1>3 DEF Conserved
<1>5. Ahead
  BY DEF FramingInv
<1>6. Ahead'
  BY <1>1, <1>5 DEF Ahead
<1> QED BY <1>4, <1>6

\* _send(): a frame is handed over, and written as far as the pipe has room.
LEMMA FrameSent ==
  ASSUME FramingInv, NEW n \in Bodies, Send(n)
  PROVE  FramingInv'
<1> DEFINE f == Frame(Len(lengths) + 1, n)
           c == Flat(chunks)
           b == Flat(buf)
<1>1. /\ writer = "open" /\ lengths' = Append(lengths, n) /\ handed' = handed \o f /\ Write(f)
      /\ UNCHANGED <<chunks, held, cutting, reader, routed, writer>>
  BY DEF Send, receiving
<1>2. /\ lengths \in Seq(Bodies) /\ handed \in Seq(Bytes) /\ pipe \in Seq(Bytes) /\ c \in Seq(Bytes) /\ b \in Seq(Bytes)
      /\ Len(lengths) \in Nat /\ Done \in Nat /\ Done <= Len(lengths)
  BY StreamFacts DEF FramingInv, FramingFields, Streams
<1>3. f \in Streams /\ f \in Seq(Bytes) /\ Len(f) > 0
  <2>1. n \in Nat /\ Len(lengths) + 1 \in Nat
    BY <1>2, FramingAssumption DEF FramingAssumption
  <2> QED BY <2>1, FrameIs DEF Streams
<1> HIDE DEF f
<1>4. /\ pipe' \in Streams /\ Len(pipe') <= PipeSize /\ buf' \in Seq(Streams) /\ writable' \in BOOLEAN
      /\ len' = Len(Flat(buf')) /\ (writable' <=> buf' # <<>>)
      /\ \A i \in 1..Len(buf') : Len(buf'[i]) > 0
      /\ pipe' \o Flat(buf') = (pipe \o b) \o f
  BY <1>1, <1>3, WriteKeeps
<1>5. /\ lengths' \in Seq(Bodies) /\ Len(lengths') = Len(lengths) + 1
      /\ \A i \in 1..Len(lengths) : lengths'[i] = lengths[i]
  BY <1>1, <1>2
<1>6. /\ handed' \in Seq(Bytes) /\ Len(handed') = Len(handed) + Len(f) /\ Len(handed) \in Nat /\ Len(f) \in Nat
      /\ \A i \in 1..Len(handed) : handed'[i] = handed[i]
  BY <1>1, <1>2, <1>3, Concat, LenProperties
<1>7. FramingFields'
  BY <1>1, <1>4, <1>5, <1>6 DEF FramingInv, FramingFields, Streams
<1>8. Writing'
  BY <1>1, <1>4 DEF Writing
<1>9. Consumed' = Consumed /\ Done' = Done
  BY <1>1 DEF Consumed, Done
<1>10. Consumed \in 0..Len(handed) /\ Consumed \in 0..Len(handed') /\ After(handed, Consumed) = c \o (pipe \o b)
       /\ After(handed', Consumed) = After(handed, Consumed) \o f /\ After(handed, Consumed) \in Seq(Bytes)
  <2>1. Consumed \in 0..Len(handed) /\ After(handed, Consumed) = c \o (pipe \o b)
    BY <1>1 DEF FramingInv, Conserved
  <2>2. After(handed', Consumed) = After(handed, Consumed) \o f /\ After(handed, Consumed) \in Seq(Bytes)
    BY <1>1, <1>2, <1>3, <2>1, Shortened, Suffix
  <2> QED BY <1>6, <2>1, <2>2
<1>11. Conserved'
  <2>1. (c \o (pipe \o b)) \o f = c \o ((pipe \o b) \o f)
    <3>1. c \in Seq(Bytes) /\ pipe \in Seq(Bytes) /\ b \in Seq(Bytes) /\ f \in Seq(Bytes)
      BY <1>2, <1>3
    <3>2. pipe \o b \in Seq(Bytes)
      BY <3>1, Concat
    <3> QED BY <3>1, <3>2, Assoc, SMTT(60)
  <2>2. After(handed', Consumed') = Flat(chunks') \o (pipe' \o Flat(buf'))
    BY <1>1, <1>4, <1>9, <1>10, <2>1
  <2>3. Flat(buf') \in Streams
    BY <1>4, FlatSeq DEF Streams
  <2> QED BY <1>9, <1>10, <2>2, <2>3 DEF Conserved
<1>12. Ahead'
  <2>1. PICK ps, g : /\ Coming(ps, g, lengths, Done) /\ After(handed, Consumed) = Flat(ps)
                     /\ g # 0 => \E i \in DOMAIN handed : handed[i] = Garbage
    BY DEF FramingInv, Ahead
  <2>2. Coming(Append(ps, f), g, lengths', Done')
    BY <1>1, <1>2, <1>9, <2>1, ComingSent DEF f
  <2>3. ps \in Seq(Seq(Bytes))
    BY <2>1 DEF Coming, Streams
  <2>4. After(handed', Consumed') = Flat(Append(ps, f))
    BY <1>3, <1>9, <1>10, <2>1, <2>3, FlatAppend
  <2>5. g # 0 => \E i \in DOMAIN handed' : handed'[i] = Garbage
    <3>1. DOMAIN handed = 1..Len(handed) /\ DOMAIN handed' = 1..Len(handed')
      BY <1>2, <1>6, LenProperties
    <3>2. \A i \in 1..Len(handed) : i \in 1..Len(handed')
      BY <1>6
    <3> QED BY <1>6, <2>1, <3>1, <3>2
  <2> QED BY <2>2, <2>4, <2>5 DEF Ahead
<1>13. Reading'
  <2>1. Reading
    BY DEF FramingInv
  <2>2. DOMAIN routed = 1..Done /\ Done' = Done /\ Done <= Len(lengths')
    BY <1>1, <1>2, <1>5, LenProperties DEF FramingInv, FramingFields, Done
  <2>3. \A k \in 1..Done : lengths'[k] = lengths[k]
    <3>1. Done \in Nat /\ Len(lengths) \in Nat /\ Done <= Len(lengths)
      BY <1>2
    <3>2. \A k \in 1..Done : k \in 1..Len(lengths)
      BY <3>1
    <3> QED BY <1>5, <3>2
  <2>4. MessagesWhole'
    BY <1>1, <2>1, <2>2, <2>3 DEF Reading, MessagesWhole
  <2>5. Done < Len(lengths) => Done' < Len(lengths') /\ Due' = Due
    <3>1. Done < Len(lengths) => Done + 1 \in 1..Len(lengths)
      BY <1>2
    <3>2. Done < Len(lengths) => Done < Len(lengths')
      BY <1>2, <1>5
    <3> QED BY <1>5, <1>9, <3>1, <3>2 DEF Due
  <2> QED BY <1>1, <2>1, <2>2, <2>4, <2>5 DEF Reading
<1>14. DroppedForCause'
  <2>1. DroppedForCause
    BY DEF FramingInv
  <2>2. reader = "closed" => \/ Garbage \in {handed[i] : i \in DOMAIN handed}
                             \/ \E m \in DOMAIN lengths : lengths[m] > MaxBody
    BY <1>1, <2>1 DEF DroppedForCause, Garbage
  <2>3. DOMAIN handed = 1..Len(handed) /\ DOMAIN handed' = 1..Len(handed') /\ DOMAIN lengths = 1..Len(lengths) /\ DOMAIN lengths' = 1..Len(lengths')
    BY <1>2, <1>5, <1>6, LenProperties
  <2>4. (\A i \in 1..Len(handed) : i \in 1..Len(handed')) /\ (\A i \in 1..Len(lengths) : i \in 1..Len(lengths'))
    BY <1>2, <1>5, <1>6
  <2>5. Garbage \in {handed[i] : i \in DOMAIN handed} => Garbage \in {handed'[i] : i \in DOMAIN handed'}
    BY <1>6, <2>3, <2>4
  <2>6. (\E m \in DOMAIN lengths : lengths[m] > MaxBody) => \E m \in DOMAIN lengths' : lengths'[m] > MaxBody
    BY <1>5, <2>3, <2>4
  <2> QED BY <1>1, <2>2, <2>5, <2>6 DEF DroppedForCause, Garbage
<1> QED BY <1>7, <1>8, <1>11, <1>12, <1>13, <1>14 DEF FramingInv

\* What the transmit side does leaves the receive side and its invariant alone.
LEMMA ReaderRests ==
  ASSUME FramingInv, UNCHANGED <<receiving, lengths, handed>>, writer' \in {writer, "closed"}
  PROVE  Reading' /\ DroppedForCause' /\ Consumed' = Consumed /\ Done' = Done /\ Ahead'
<1>1. UNCHANGED <<chunks, held, cutting, reader, routed, lengths, handed>>
  BY DEF receiving
<1>2. Consumed' = Consumed /\ Done' = Done /\ Due' = Due
  BY <1>1 DEF Consumed, Done, Due
<1>3. Reading /\ DroppedForCause /\ Ahead
  BY DEF FramingInv
<1>4. MessagesWhole'
  BY <1>1, <1>3 DEF Reading, MessagesWhole
<1>5. Reading'
  BY <1>1, <1>2, <1>3, <1>4 DEF Reading
<1>6. DroppedForCause'
  BY <1>1, <1>3 DEF DroppedForCause
<1>7. Ahead'
  BY <1>1, <1>2, <1>3 DEF Ahead
<1> QED BY <1>2, <1>5, <1>6, <1>7

\* The stream is closed: what waited is lost.
LEMMA DisconnectKeeps ==
  ASSUME FramingInv, Disconnect
  PROVE  FramingInv'
<1>1. /\ writer' = "closed" /\ writable' = FALSE /\ UNCHANGED <<receiving, lengths, handed, buf, len, pipe>>
      /\ UNCHANGED <<chunks, held, cutting, reader, routed>>
  BY DEF Disconnect, CloseWriter, receiving
<1>2. Reading' /\ DroppedForCause' /\ Consumed' = Consumed /\ Ahead'
  BY <1>1, ReaderRests
<1>3. FramingFields'
  BY <1>1 DEF FramingInv, FramingFields
<1>4. Writing'
  BY <1>1 DEF FramingInv, Writing
<1>5. Conserved'
  BY <1>1, <1>2 DEF FramingInv, Conserved
<1> QED BY <1>2, <1>3, <1>4, <1>5 DEF FramingInv

LEMMA Regroup ==
  ASSUME NEW S, NEW p \in Seq(S), NEW a \in Seq(S), NEW b \in Seq(S), NEW c \in Seq(S)
  PROVE  (p \o a) \o (b \o c) = p \o ((a \o b) \o c)
<1> DEFINE x == b \o c
<1>1. x \in Seq(S)
  BY Concat
<1>2. (a \o b) \o c = a \o x
  BY Assoc
<1> HIDE DEF x
<1>3. (p \o a) \o x = p \o (a \o x)
  BY <1>1, Assoc, SMTT(60)
<1> QED BY <1>2, <1>3 DEF x

\* A sequence that is not empty is its head and its tail.
LEMMA HeadTail ==
  ASSUME NEW S, NEW s \in Seq(S), s # <<>>
  PROVE  /\ Head(s) \in S /\ Head(s) = s[1] /\ Tail(s) \in Seq(S) /\ <<s[1]>> \o Tail(s) = s
         /\ Len(Tail(s)) = Len(s) - 1 /\ Len(s) \in Nat \ {0} /\ \A i \in 1..Len(Tail(s)) : Tail(s)[i] = s[i + 1]
  OBVIOUS

\* Chunks: the first, and what follows.
LEMMA FlatHead ==
  ASSUME NEW S, NEW s \in Seq(Seq(S)), s # <<>>
  PROVE  /\ s[1] \in Seq(S) /\ Tail(s) \in Seq(Seq(S)) /\ Flat(Tail(s)) \in Seq(S)
         /\ Flat(s) = s[1] \o Flat(Tail(s)) /\ Len(Flat(s)) = Len(s[1]) + Len(Flat(Tail(s)))
         /\ \A i \in 1..Len(s[1]) : Flat(s)[i] = s[1][i]
<1>1. s[1] \in Seq(S) /\ Tail(s) \in Seq(Seq(S)) /\ <<s[1]>> \o Tail(s) = s
  BY HeadTail
<1>2. Flat(Tail(s)) \in Seq(S) /\ Flat(<<s[1]>> \o Tail(s)) = s[1] \o Flat(Tail(s))
  BY <1>1, FlatSeq, FlatCons
<1> DEFINE a == s[1]
           b == Flat(Tail(s))
<1>3. a \in Seq(S) /\ b \in Seq(S) /\ Flat(s) = a \o b
  BY <1>1, <1>2
<1> HIDE DEF a, b
<1>4. Len(a \o b) = Len(a) + Len(b) /\ \A i \in 1..Len(a) : (a \o b)[i] = a[i]
  BY <1>3, Concat
<1> QED BY <1>1, <1>3, <1>4 DEF a, b

\* on_transmit(): what the pipe takes leaves the buffer, and what is left stays first.
LEMMA TransmitKeeps ==
  ASSUME FramingInv, OnTransmit
  PROVE  FramingInv'
<1> DEFINE h == Head(buf)
           n == IF Len(h) <= Room THEN Len(h) ELSE Room
           a == SubSeq(h, 1, n)
           r == After(h, n)
           u == Tail(buf)
<1>1. writable /\ writer = "open" /\ buf # <<>> /\ UNCHANGED <<receiving, lengths, handed>>
      /\ UNCHANGED <<chunks, held, cutting, reader, routed>> /\ len = Len(Flat(buf))
  BY DEF OnTransmit, FramingInv, FramingFields, Writing, receiving
<1>2. buf \in Seq(Seq(Bytes)) /\ pipe \in Seq(Bytes) /\ Room \in Nat /\ Len(pipe) \in Nat /\ PipeSize \in Nat
      /\ Room = PipeSize - Len(pipe)
  BY StreamFacts DEF FramingInv, FramingFields, Streams, Room
<1>3. /\ h \in Seq(Bytes) /\ h = buf[1] /\ u \in Seq(Seq(Bytes)) /\ Flat(u) \in Seq(Bytes)
      /\ Flat(buf) = h \o Flat(u) /\ Len(Flat(buf)) = Len(h) + Len(Flat(u))
  BY <1>1, <1>2, HeadTail, FlatHead
<1>4. Len(u) = Len(buf) - 1 /\ Len(buf) \in Nat \ {0} /\ \A i \in 1..Len(u) : u[i] = buf[i + 1]
  BY <1>1, <1>2, HeadTail
<1>5. \A i \in 1..Len(buf) : Len(buf[i]) > 0
  BY DEF FramingInv, Writing
<1>6. Len(h) > 0 /\ \A i \in 1..Len(u) : Len(u[i]) > 0
  <2>1. 1 \in 1..Len(buf) /\ \A i \in 1..Len(u) : i + 1 \in 1..Len(buf)
    BY <1>4
  <2> QED BY <1>3, <1>4, <1>5, <2>1
<1>7. CASE Lost /\ CloseWriter /\ buf' = Tail(buf) /\ UNCHANGED <<len, pipe>>
  <2>1. writer' = "closed" /\ writable' = FALSE /\ buf' = u /\ UNCHANGED <<len, pipe>>
    BY <1>7 DEF CloseWriter
  <2>2. Reading' /\ DroppedForCause' /\ Consumed' = Consumed /\ Ahead'
    BY <1>1, <2>1, ReaderRests
  <2>3. FramingFields'
    <3>1. buf' \in Seq(Streams)
      BY <1>3, <2>1 DEF Streams
    <3> QED BY <1>1, <2>1, <3>1 DEF FramingInv, FramingFields
  <2>4. Writing'
    <3> HIDE DEF u
    <3> QED BY <1>6, <2>1 DEF Writing
  <2>5. Conserved'
    <3>1. Conserved
      BY DEF FramingInv
    <3> QED BY <1>1, <2>1, <2>2, <3>1 DEF Conserved
  <2> QED BY <2>2, <2>3, <2>4, <2>5 DEF FramingInv
<1>8. CASE /\ Room > 0 /\ pipe' = pipe \o a /\ len' = len - n
           /\ buf' = (IF n = Len(h) THEN u ELSE <<r>> \o u)
           /\ writable' = (buf' # <<>>) /\ UNCHANGED writer
  <2>1. Len(h) \in Nat /\ Len(Flat(u)) \in Nat
    BY <1>3, LenProperties
  <2>2. n \in 0..Len(h) /\ n <= Room
    BY <1>2, <2>1
  <2>3. a \in Seq(Bytes) /\ Len(a) = n /\ a \o r = h /\ r \in Seq(Bytes) /\ Len(r) = Len(h) - n
    BY <1>3, <2>2, Cut, Suffix
  <2> DEFINE v == Flat(u)
  <2>4. h \in Seq(Bytes) /\ v \in Seq(Bytes) /\ u \in Seq(Seq(Bytes)) /\ Len(v) \in Nat /\ Flat(buf) = h \o v
        /\ Len(Flat(buf)) = Len(h) + Len(v)
    BY <1>3, <2>1
  <2>5. /\ pipe' = pipe \o a /\ len' = len - n /\ (n = Len(h) => buf' = u) /\ (n # Len(h) => buf' = <<r>> \o u)
        /\ writable' = (buf' # <<>>) /\ writer' = writer
    BY <1>8
  <2> HIDE DEF h, n, a, r, u, v
  <2>6. pipe \o a \in Seq(Bytes) /\ Len(pipe \o a) = Len(pipe) + n /\ n \in Nat
    <3>1. Len(pipe \o a) = Len(pipe) + Len(a) /\ pipe \o a \in Seq(Bytes)
      BY <1>2, <2>3, Concat
    <3> QED BY <2>1, <2>2, <2>3, <3>1
  <2>13. pipe \in Seq(Bytes) /\ h \in Seq(Bytes) /\ a \in Seq(Bytes) /\ r \in Seq(Bytes) /\ v \in Seq(Bytes) /\ u \in Seq(Seq(Bytes))
    BY <1>2, <2>3, <2>4
  <2>7. Len(pipe') <= PipeSize
    BY <1>2, <2>2, <2>5, <2>6
  <2>8. /\ buf' \in Seq(Seq(Bytes)) /\ (\A i \in 1..Len(buf') : Len(buf'[i]) > 0)
        /\ len' = Len(Flat(buf')) /\ pipe' \o Flat(buf') = pipe \o Flat(buf)
    <3>1. CASE n = Len(h)
      <4>1. r = <<>> /\ a = h
        <5>1. Len(r) = 0
          BY <2>1, <2>3, <3>1
        <5>2. r = <<>>
          BY <2>3, <5>1, NoSequence
        <5> QED BY <2>3, <5>2, NoSequence
      <4>2. buf' = u /\ Flat(buf') = v
        BY <2>5, <3>1 DEF v
      <4>3. (pipe \o h) \o v = pipe \o (h \o v)
        <5>1. pipe \in Seq(Bytes) /\ h \in Seq(Bytes) /\ v \in Seq(Bytes)
          BY <2>13
        <5> QED BY <5>1, Assoc, SMTT(60)
      <4>4. len' = Len(v)
        BY <1>1, <2>1, <2>4, <2>5, <3>1
      <4> QED BY <1>6, <2>4, <2>5, <4>1, <4>2, <4>3, <4>4
    <3>2. CASE n # Len(h)
      <4>1. <<r>> \in Seq(Seq(Bytes)) /\ Len(<<r>>) = 1 /\ <<r>>[1] = r
        BY <2>3
      <4>2. buf' = <<r>> \o u
        BY <2>5, <3>2
      <4>3. Flat(<<r>> \o u) = r \o v
        BY <2>3, <2>4, FlatCons DEF v
      <4>4. Len(<<r>> \o u) = 1 + Len(u) /\ (\A i \in 1..Len(u) : (<<r>> \o u)[1 + i] = u[i]) /\ (<<r>> \o u)[1] = r
            /\ <<r>> \o u \in Seq(Seq(Bytes)) /\ Len(u) \in Nat
        <5> DEFINE w == <<r>>
        <5>1. w \in Seq(Seq(Bytes)) /\ Len(w) = 1 /\ w[1] = r
          BY <4>1
        <5> HIDE DEF w
        <5>2. Len(w \o u) = Len(w) + Len(u) /\ (\A i \in 1..Len(u) : (w \o u)[Len(w) + i] = u[i]) /\ w \o u \in Seq(Seq(Bytes))
              /\ \A i \in 1..Len(w) : (w \o u)[i] = w[i]
          <6>1. u \in Seq(Seq(Bytes)) /\ w \in Seq(Seq(Bytes))
            BY <2>13, <5>1
          <6> QED BY <6>1, Concat
        <5>3. Len(u) \in Nat
          BY <2>4, LenProperties
        <5>4. (w \o u)[1] = r
          BY <5>1, <5>2
        <5> QED BY <5>1, <5>2, <5>3, <5>4 DEF w
      <4>5. Len(r) > 0
        BY <2>1, <2>2, <2>3, <3>2
      <4>6. ASSUME NEW i \in 1..Len(buf') PROVE Len(buf'[i]) > 0
        <5>1. CASE i = 1
          BY <4>2, <4>4, <4>5, <5>1
        <5>2. CASE i # 1
          <6>1. i - 1 \in 1..Len(u) /\ 1 + (i - 1) = i
            BY <4>2, <4>4, <5>2
          <6>2. buf'[i] = u[i - 1]
            BY <4>2, <4>4, <6>1
          <6> QED BY <1>6, <6>1, <6>2
        <5> QED BY <5>1, <5>2
      <4>7. Len(r \o v) = Len(r) + Len(v) /\ r \o v \in Seq(Bytes)
        BY <2>13, Concat
      <4>8. len' = Len(Flat(buf'))
        <5>1. Len(r \o v) = (Len(h) - n) + Len(v) /\ len' = (Len(h) + Len(v)) - n
          BY <1>1, <2>3, <2>4, <2>5, <4>7
        <5>2. Len(h) \in Nat /\ Len(v) \in Nat /\ n \in Nat
          BY <2>1, <2>4, <2>6
        <5>3. len' = Len(r \o v)
          BY <5>1, <5>2
        <5> QED BY <4>2, <4>3, <5>3
      <4>9. (pipe \o a) \o (r \o v) = pipe \o ((a \o r) \o v)
        <5>1. pipe \in Seq(Bytes) /\ a \in Seq(Bytes) /\ r \in Seq(Bytes) /\ v \in Seq(Bytes)
          BY <2>13
        <5> QED BY <5>1, Regroup, SMTT(60)
      <4> QED BY <2>3, <2>4, <2>5, <4>2, <4>3, <4>4, <4>6, <4>8, <4>9
    <3> QED BY <3>1, <3>2
  <2>9. FramingFields'
    <3>1. writable' \in BOOLEAN /\ writer' \in {"open", "closed"} /\ buf' \in Seq(Streams) /\ pipe' \in Streams
      BY <1>1, <2>5, <2>6, <2>8 DEF Streams
    <3> QED BY <1>1, <2>7, <3>1 DEF FramingInv, FramingFields
  <2>10. Writing'
    <3>1. writer' = "open"
      BY <1>1, <2>5
    <3> QED BY <2>5, <2>8, <3>1 DEF Writing
  <2>11. Reading' /\ DroppedForCause'
    BY <1>1, <2>5, ReaderRests
  <2>12. Conserved' /\ Ahead'
    <3>1. pipe' \in Streams /\ buf' \in Seq(Streams)
      BY <2>5, <2>6, <2>8 DEF Streams
    <3> QED BY <1>1, <2>8, <3>1, SameBytes
  <2> QED BY <2>9, <2>10, <2>11, <2>12 DEF FramingInv
<1> QED
  <2>1. CASE Lost
    BY <1>7, <2>1 DEF OnTransmit
  <2>2. CASE ~Lost
    BY <1>8, <2>2 DEF OnTransmit
  <2> QED BY <2>1, <2>2

\* What a step hands over follows what was handed over before.
LEMMA HandedMore ==
  ASSUME FramingInv, NEW x \in Streams, handed' = handed \o x, UNCHANGED <<chunks, routed>>
  PROVE  /\ handed' \in Streams /\ Consumed' = Consumed /\ Consumed' \in 0..Len(handed')
         /\ After(handed', Consumed') = After(handed, Consumed) \o x
         /\ Len(handed') = Len(handed) + Len(x) /\ \A i \in 1..Len(handed) : handed'[i] = handed[i]
<1>1. handed \in Seq(Bytes) /\ x \in Seq(Bytes) /\ Len(handed) \in Nat /\ Len(x) \in Nat
  BY LenProperties DEF FramingInv, FramingFields, Streams
<1>2. handed \o x \in Seq(Bytes) /\ Len(handed \o x) = Len(handed) + Len(x) /\ \A i \in 1..Len(handed) : (handed \o x)[i] = handed[i]
  BY <1>1, Concat
<1>3. Consumed' = Consumed /\ Consumed \in 0..Len(handed)
  BY DEF Consumed, FramingInv, Conserved
<1>4. After(handed \o x, Consumed) = After(handed, Consumed) \o x
  BY <1>1, <1>3, Shortened
<1>5. Consumed \in 0..(Len(handed) + Len(x))
  BY <1>1, <1>3
<1> QED BY <1>2, <1>3, <1>4, <1>5 DEF Streams

\* A foreign byte comes only when nothing waits, and it is the first.
LEMMA InterfereKeeps ==
  ASSUME FramingInv, Interfere
  PROVE  FramingInv'
<1> DEFINE x == <<Garbage>>
           c == Flat(chunks)
<1>1. /\ writer = "open" /\ buf = <<>> /\ Room > 0 /\ (\A i \in DOMAIN handed : handed[i] # Garbage)
      /\ handed' = Append(handed, Garbage) /\ pipe' = Append(pipe, Garbage)
      /\ UNCHANGED <<chunks, held, cutting, reader, routed, lengths, buf, len, writable, writer>>
  BY DEF Interfere, receiving, Garbage
<1>2. /\ Garbage \in Bytes /\ x \in Streams /\ x \in Seq(Bytes) /\ handed \in Seq(Bytes) /\ pipe \in Seq(Bytes)
      /\ c \in Seq(Bytes) /\ lengths \in Seq(Bodies) /\ Done \in Nat /\ Len(pipe) \in Nat /\ PipeSize \in Nat /\ Room = PipeSize - Len(pipe)
  BY StreamFacts DEF FramingInv, FramingFields, Streams, Bytes, Garbage, Room
<1>3. handed' = handed \o x /\ pipe' = pipe \o x /\ pipe' \in Seq(Bytes) /\ Len(pipe') = Len(pipe) + 1
  BY <1>1, <1>2, Appended
<1> HIDE DEF x, c
<1>4. /\ handed' \in Streams /\ Consumed' = Consumed /\ Consumed' \in 0..Len(handed')
      /\ After(handed', Consumed') = After(handed, Consumed) \o x
      /\ Len(handed') = Len(handed) + Len(x) /\ \A i \in 1..Len(handed) : handed'[i] = handed[i]
  BY <1>1, <1>2, <1>3, HandedMore
<1>5. Done' = Done /\ Due' = Due
  BY <1>1 DEF Done, Due
<1>6. FramingFields'
  <2>1. Len(pipe') <= PipeSize /\ pipe' \in Streams
    BY <1>1, <1>2, <1>3 DEF Streams
  <2> QED BY <1>1, <1>4, <2>1 DEF FramingInv, FramingFields
<1>7. Writing'
  BY <1>1 DEF FramingInv, Writing
<1>8. Conserved'
  <2>1. After(handed, Consumed) = c \o (pipe \o <<>>)
    BY <1>1, FlatNone DEF FramingInv, Conserved, c
  <2>2. pipe \o <<>> = pipe /\ pipe' \o <<>> = pipe' /\ <<>> \in Streams
    BY <1>2, <1>3, NoSequence, EmptySeq DEF Streams
  <2>3. (c \o pipe) \o x = c \o (pipe \o x)
    <3>1. c \in Seq(Bytes) /\ pipe \in Seq(Bytes) /\ x \in Seq(Bytes)
      BY <1>2
    <3> QED BY <3>1, Assoc, SMTT(60)
  <2>4. After(handed', Consumed') = Flat(chunks') \o (pipe' \o <<>>)
    BY <1>1, <1>3, <1>4, <2>1, <2>2, <2>3 DEF c
  <2>5. Flat(buf') = <<>>
    BY <1>1, FlatNone
  <2> QED BY <1>4, <2>2, <2>4, <2>5 DEF Conserved
<1>9. DOMAIN handed = 1..Len(handed) /\ DOMAIN handed' = 1..Len(handed') /\ Len(handed) \in Nat /\ Len(x) = 1
      /\ handed'[Len(handed) + 1] = Garbage
  BY <1>1, <1>2, <1>4, LenProperties, Appended DEF x, Streams
<1>10. Ahead'
  <2>1. PICK ps, g : /\ Coming(ps, g, lengths, Done) /\ After(handed, Consumed) = Flat(ps)
                     /\ g # 0 => \E i \in DOMAIN handed : handed[i] = Garbage
    BY DEF FramingInv, Ahead
  <2>2. g = 0 /\ Coming(ps, 0, lengths, Done) /\ ps \in Seq(Seq(Bytes)) /\ Len(ps) \in Nat
    BY <1>1, <2>1, LenProperties DEF Coming, Streams
  <2>3. Coming(Append(ps, x), Len(ps) + 1, lengths, Done)
    BY <1>2, <2>2, ComingSpoiled DEF x
  <2>4. Flat(Append(ps, x)) = Flat(ps) \o x
    BY <1>2, <2>2, FlatAppend
  <2>5. \E i \in DOMAIN handed' : handed'[i] = Garbage
    <3>1. Len(handed) + 1 \in 1..Len(handed')
      BY <1>4, <1>9
    <3> QED BY <1>9, <3>1
  <2>6. After(handed', Consumed') = Flat(Append(ps, x)) /\ Coming(Append(ps, x), Len(ps) + 1, lengths', Done')
    BY <1>1, <1>4, <1>5, <2>1, <2>3, <2>4
  <2> QED BY <2>5, <2>6 DEF Ahead
<1>11. Reading'
  <2>1. Reading
    BY DEF FramingInv
  <2>2. MessagesWhole'
    BY <1>1, <2>1 DEF Reading, MessagesWhole
  <2> QED BY <1>1, <1>5, <2>1, <2>2 DEF Reading
<1>12. DroppedForCause'
  <2>1. reader = "closed" => writer = "closed" \/ Garbage \in {handed[i] : i \in DOMAIN handed} \/ \E m \in DOMAIN lengths : lengths[m] > MaxBody
    BY DEF FramingInv, DroppedForCause, Garbage
  <2>2. Garbage \in {handed'[i] : i \in DOMAIN handed'}
    <3>1. Len(handed) + 1 \in 1..Len(handed')
      BY <1>4, <1>9
    <3> QED BY <1>9, <3>1
  <2> QED BY <2>2 DEF DroppedForCause, Garbage
<1> QED BY <1>6, <1>7, <1>8, <1>10, <1>11, <1>12 DEF FramingInv

-----------------------------------------------------------------------------
(* The receive side *)

\* Chunks behind the first begin only when it holds enough not to be joined.
LEMMA FirstChunk ==
  ASSUME FramingInv, chunks # <<>>
  PROVE  /\ chunks[1] \in Seq(Bytes) /\ Len(chunks[1]) \in Nat /\ Len(chunks[1]) <= held
         /\ \A i \in 1..Len(chunks[1]) : Flat(chunks)[i] = chunks[1][i]
         /\ Len(chunks) = 1 => chunks = <<chunks[1]>> /\ Len(chunks[1]) = held /\ Tail(chunks) = <<>>
         /\ held < JoinBelow => Len(chunks) = 1
         /\ Len(chunks) \in Nat \ {0}
<1>1. chunks \in Seq(Seq(Bytes)) /\ held = Len(Flat(chunks)) /\ JoinBelow \in Nat /\ held \in Nat
  BY StreamFacts DEF FramingInv, FramingFields, Streams
<1>2. /\ chunks[1] \in Seq(Bytes) /\ Tail(chunks) \in Seq(Seq(Bytes)) /\ Flat(Tail(chunks)) \in Seq(Bytes)
      /\ Len(Flat(chunks)) = Len(chunks[1]) + Len(Flat(Tail(chunks)))
      /\ \A i \in 1..Len(chunks[1]) : Flat(chunks)[i] = chunks[1][i]
  BY <1>1, FlatHead
<1>3. Len(chunks[1]) \in Nat /\ Len(Flat(Tail(chunks))) \in Nat
  BY <1>2, LenProperties
<1>4. Len(chunks) \in Nat \ {0} /\ Len(Tail(chunks)) = Len(chunks) - 1 /\ <<chunks[1]>> \o Tail(chunks) = chunks
  BY <1>1, HeadTail
<1>5. CASE Len(chunks) = 1
  <2>1. Tail(chunks) = <<>>
    <3>1. Len(Tail(chunks)) = 0 /\ Tail(chunks) \in Seq(Seq(Bytes))
      BY <1>2, <1>4, <1>5
    <3> QED BY <3>1, NoSequence
  <2>2. Flat(Tail(chunks)) = <<>> /\ Len(Flat(Tail(chunks))) = 0
    BY <2>1, FlatNone, EmptySeq
  <2>3. <<chunks[1]>> \o <<>> = <<chunks[1]>>
    OBVIOUS
  <2>4. chunks = <<chunks[1]>>
    BY <1>4, <2>1, <2>3
  <2>5. Len(chunks[1]) = held
    BY <1>1, <1>2, <1>3, <2>2
  <2> QED BY <1>1, <1>2, <1>3, <1>4, <1>5, <2>1, <2>4, <2>5
<1>6. CASE Len(chunks) # 1
  <2>1. Len(chunks) >= 2
    BY <1>4, <1>6
  <2>2. Len(chunks[1]) >= JoinBelow
    BY <2>1 DEF FramingInv, Reading
  <2> QED BY <1>1, <1>2, <1>3, <1>4, <1>6, <2>2
<1> QED BY <1>5, <1>6

\* on_receive(): what was read follows what is held.
LEMMA TakeKeeps ==
  ASSUME FramingInv, reader = "open", ~cutting, NEW s \in Streams, Take(s)
  PROVE  /\ chunks' \in Seq(Streams) /\ Flat(chunks') = Flat(chunks) \o s
         /\ Len(chunks') >= 2 => /\ Len(chunks'[1]) >= JoinBelow /\ Done < Len(lengths)
                                 /\ Len(Flat(SubSeq(chunks', 1, Len(chunks') - 1))) < Due
<1>1. /\ s \in Seq(Bytes) /\ chunks \in Seq(Seq(Bytes)) /\ held = Len(Flat(chunks)) /\ JoinBelow \in Nat /\ held \in Nat
      /\ HeaderLen \in Nat /\ JoinBelow >= HeaderLen /\ Flat(chunks) \in Seq(Bytes)
  BY StreamFacts DEF FramingInv, FramingFields, Streams
<1>2. CASE chunks # <<>> /\ held < JoinBelow
  <2>1. chunks = <<chunks[1]>> /\ Tail(chunks) = <<>> /\ chunks[1] \in Seq(Bytes)
    BY <1>2, FirstChunk
  <2> DEFINE e == chunks[1]
             x == e \o s
  <2>2. e \in Seq(Bytes) /\ chunks = <<e>> /\ chunks' = <<x>> \o Tail(chunks)
    BY <1>2, <2>1 DEF Take
  <2>3. x \in Seq(Bytes)
    BY <1>1, <2>1, Concat
  <2> HIDE DEF e, x
  <2>4. <<x>> \in Seq(Seq(Bytes)) /\ <<x>> \o <<>> = <<x>> /\ Len(<<x>>) = 1
    BY <2>3
  <2>5. chunks' = <<x>>
    BY <2>1, <2>2, <2>4
  <2>6. Flat(<<x>>) = x
    BY <2>3, FlatOne
  <2>7. Flat(<<e>>) = e
    BY <2>2, FlatOne
  <2>8. chunks' \in Seq(Streams) /\ ~(Len(chunks') >= 2)
    BY <2>4, <2>5 DEF Streams
  <2>9. Flat(chunks') = Flat(chunks) \o s
    BY <2>2, <2>5, <2>6, <2>7 DEF x
  <2> QED BY <2>8, <2>9
<1>3. CASE ~(chunks # <<>> /\ held < JoinBelow)
  <2> DEFINE c == Len(chunks)
  <2>1. chunks' = Append(chunks, s)
    BY <1>3 DEF Take
  <2>2. chunks' \in Seq(Seq(Bytes)) /\ Len(chunks') = c + 1
    BY <1>1, <2>1, Appended
  <2>3. \A i \in 1..c : chunks'[i] = chunks[i]
    BY <1>1, <2>1, Appended
  <2>4. Flat(chunks') = Flat(chunks) \o s
    BY <1>1, <2>1, FlatAppend
  <2>5. c \in Nat
    BY <1>1, LenProperties
  <2>6. ASSUME Len(chunks') >= 2
        PROVE  /\ Len(chunks'[1]) >= JoinBelow /\ Done < Len(lengths)
               /\ Len(Flat(SubSeq(chunks', 1, Len(chunks') - 1))) < Due
    <3>1. c >= 1 /\ 1 \in 1..c /\ Len(chunks') - 1 = c
      BY <2>2, <2>5, <2>6
    <3>2. chunks # <<>> /\ held >= JoinBelow
      BY <1>1, <1>3, <3>1, NoSequence
    <3>3. Len(chunks[1]) >= JoinBelow
      <4>1. CASE c = 1
        BY <3>2, <4>1, FirstChunk
      <4>2. CASE c # 1
        <5>1. c >= 2
          <6>1. c \in Nat /\ c >= 1
            BY <2>5, <3>1
          <6> HIDE DEF c
          <6> QED BY <4>2, <6>1
        <5> QED BY <5>1 DEF FramingInv, Reading
      <4> QED BY <4>1, <4>2
    <3>4. Done < Len(lengths) /\ held < Due
      <4>1. ~(held < HeaderLen)
        BY <1>1, <3>2
      <4> QED BY <4>1 DEF FramingInv, Reading
    <3>5. SubSeq(chunks', 1, c) = chunks
      <4>1. <<s>> \in Seq(Seq(Bytes)) /\ chunks' = chunks \o <<s>>
        BY <1>1, <2>1, Appended
      <4> DEFINE w == <<s>>
      <4> HIDE DEF w
      <4>2. 1 \in 1..(c + 1) /\ c \in (1 - 1)..c /\ w \in Seq(Seq(Bytes)) /\ chunks' = chunks \o w
        BY <2>5, <4>1 DEF w
      <4>3. SubSeq(chunks \o w, 1, c) = SubSeq(chunks, 1, c)
        BY <1>1, <4>2, PartOfBeginning
      <4>4. SubSeq(chunks, 1, c) = chunks
        BY <1>1
      <4> QED BY <4>2, <4>3, <4>4
    <3> QED BY <1>1, <2>3, <3>1, <3>3, <3>4, <3>5
  <2> QED BY <2>2, <2>4, <2>6 DEF Streams
<1> QED BY <1>2, <1>3

\* on_receive(): from the pipe to the chunks, or the end of file.
LEMMA ReceiveKeeps ==
  ASSUME FramingInv, OnReceive
  PROVE  FramingInv'
<1>1. reader = "open" /\ ~cutting /\ UNCHANGED <<lengths, handed, buf, len, writable, writer, routed>>
  BY DEF OnReceive, sending
<1>2. Consumed' = Consumed /\ Done' = Done /\ Due' = Due
  BY <1>1 DEF Consumed, Done, Due
<1>3. Ahead'
  BY <1>1, <1>2 DEF FramingInv, Ahead
<1>4. Writing'
  BY <1>1 DEF FramingInv, Writing
<1>5. MessagesWhole'
  BY <1>1 DEF FramingInv, Reading, MessagesWhole
<1>6. ASSUME NEW n \in 1..ReadSize, n <= Len(pipe), Take(SubSeq(pipe, 1, n)), held' = held + n, pipe' = After(pipe, n),
             cutting' = TRUE, UNCHANGED reader
      PROVE  FramingInv'
  <2> DEFINE s == SubSeq(pipe, 1, n)
             q == After(pipe, n)
             c == Flat(chunks)
  <2>1. pipe \in Seq(Bytes) /\ c \in Seq(Bytes) /\ held = Len(c) /\ held \in Nat /\ Len(pipe) \in Nat /\ ReadSize \in Nat
        /\ PipeSize \in Nat /\ Len(pipe) <= PipeSize
    BY StreamFacts, FramingAssumption DEF FramingInv, FramingFields, Streams, FramingAssumption
  <2>2. n \in 0..Len(pipe) /\ n \in Nat
    BY <1>6, <2>1
  <2>3. s \in Seq(Bytes) /\ Len(s) = n /\ s \o q = pipe /\ q \in Seq(Bytes) /\ Len(q) = Len(pipe) - n
    BY <2>1, <2>2, Cut, Suffix
  <2>4. Take(s) /\ pipe' = q
    BY <1>6
  <2> HIDE DEF s, q, c
  <2>5. /\ chunks' \in Seq(Streams) /\ Flat(chunks') = c \o s
        /\ Len(chunks') >= 2 => /\ Len(chunks'[1]) >= JoinBelow /\ Done < Len(lengths)
                                /\ Len(Flat(SubSeq(chunks', 1, Len(chunks') - 1))) < Due
    BY <1>1, <2>3, <2>4, TakeKeeps DEF Streams, c
  <2>6. held' = Len(Flat(chunks'))
    <3>1. Len(c \o s) = Len(c) + Len(s)
      BY <2>1, <2>3, Concat
    <3> QED BY <1>6, <2>1, <2>3, <2>5, <3>1
  <2>7. FramingFields'
    <3>1. pipe' \in Streams /\ Len(pipe') <= PipeSize
      BY <2>1, <2>2, <2>3, <2>4 DEF Streams
    <3> QED BY <1>1, <1>6, <2>5, <2>6, <3>1 DEF FramingInv, FramingFields
  <2>8. Conserved'
    <3>1. PICK rest \in Streams : After(handed, Consumed) = c \o (pipe \o rest) /\ (writer = "open" => rest = Flat(buf))
      BY DEF FramingInv, Conserved, c
    <3>2. (c \o s) \o (q \o rest) = c \o ((s \o q) \o rest)
      <4>1. c \in Seq(Bytes) /\ s \in Seq(Bytes) /\ q \in Seq(Bytes) /\ rest \in Seq(Bytes)
        BY <2>1, <2>3 DEF Streams
      <4> QED BY <4>1, Regroup, SMTT(60)
    <3>3. After(handed', Consumed') = Flat(chunks') \o (pipe' \o rest)
      BY <1>1, <1>2, <2>3, <2>4, <2>5, <3>1, <3>2
    <3> QED BY <1>1, <1>2, <3>1, <3>3 DEF FramingInv, Conserved
  <2>9. Reading'
    BY <1>1, <1>2, <1>5, <1>6, <2>5 DEF FramingInv, Reading
  <2>10. DroppedForCause'
    BY <1>1, <1>6 DEF DroppedForCause
  <2> QED BY <1>3, <1>4, <2>7, <2>8, <2>9, <2>10 DEF FramingInv
<1>7. CASE writer = "closed" /\ reader' = "closed" /\ UNCHANGED <<chunks, held, cutting, pipe>>
  <2>1. FramingFields'
    BY <1>1, <1>7 DEF FramingInv, FramingFields
  <2>2. Conserved'
    BY <1>1, <1>2, <1>7 DEF FramingInv, Conserved
  <2>3. Reading'
    BY <1>1, <1>2, <1>5, <1>7 DEF FramingInv, Reading
  <2>4. DroppedForCause'
    BY <1>1, <1>7 DEF DroppedForCause
  <2> QED BY <1>3, <1>4, <2>1, <2>2, <2>3, <2>4 DEF FramingInv
<1> QED BY <1>6, <1>7 DEF OnReceive

\* The pieces that come begin with p.
Begins(p) ==
  \E ps, g : /\ Coming(ps, g, lengths, Done) /\ After(handed, Consumed) = Flat(ps)
             /\ g # 0 => \E i \in DOMAIN handed : handed[i] = Garbage
             /\ ps # <<>> /\ ps[1] = p /\ p \in Seq(Bytes) /\ Len(p) > 0
             /\ IF g = 1 THEN p = <<Garbage>> ELSE Done < Len(lengths) /\ p = Frame(Done + 1, lengths[Done + 1])

\* What is held begins as what was handed over after the messages routed does.
LEMMA Held ==
  ASSUME FramingInv
  PROVE  \E x \in Seq(Bytes) : /\ After(handed, Consumed) = Flat(chunks) \o x
                               /\ Len(After(handed, Consumed)) = held + Len(x)
                               /\ \A i \in 1..held : After(handed, Consumed)[i] = Flat(chunks)[i]
<1> DEFINE c == Flat(chunks)
<1>1. PICK rest \in Seq(Bytes) : After(handed, Consumed) = c \o (pipe \o rest)
  BY DEF FramingInv, Conserved, Streams
<1>2. c \in Seq(Bytes) /\ pipe \in Seq(Bytes) /\ held = Len(c)
  BY StreamFacts DEF FramingInv, FramingFields, Streams
<1> DEFINE x == pipe \o rest
<1>3. x \in Seq(Bytes)
  BY <1>2, Concat
<1> HIDE DEF x, c
<1>4. Len(c \o x) = Len(c) + Len(x) /\ \A i \in 1..Len(c) : (c \o x)[i] = c[i]
  BY <1>2, <1>3, Concat
<1> QED BY <1>1, <1>2, <1>3, <1>4 DEF x, c

\* Something is held, so that a piece comes.
LEMMA HeadOf ==
  ASSUME FramingInv, held > 0
  PROVE  \E p : Begins(p)
<1>1. PICK ps, g : /\ Coming(ps, g, lengths, Done) /\ After(handed, Consumed) = Flat(ps)
                   /\ g # 0 => \E i \in DOMAIN handed : handed[i] = Garbage
  BY DEF FramingInv, Ahead
<1>2. PICK x \in Seq(Bytes) : Len(Flat(ps)) = held + Len(x)
  BY <1>1, Held
<1>3. ps # <<>>
  <2>1. Len(Flat(ps)) > 0
    <3>1. Len(x) \in Nat /\ held \in Nat
      BY StreamFacts, LenProperties
    <3> QED BY <1>2, <3>1
  <2>2. Flat(<<>>) = <<>> /\ Len(<<>>) = 0
    BY FlatNone, EmptySeq
  <2> QED BY <2>1, <2>2
<1>4. ps \in Seq(Seq(Bytes)) /\ g \in 0..Len(ps) /\ Len(ps) = Len(lengths) - Done + (IF g = 0 THEN 0 ELSE 1)
      /\ \A i \in 1..Len(ps) : ps[i] = IF i = g THEN <<Garbage>>
                                       ELSE IF g = 0 \/ i < g THEN Frame(Done + i, lengths[Done + i])
                                       ELSE Frame(Done + i - 1, lengths[Done + i - 1])
  BY <1>1 DEF Coming, Streams
<1>5. Len(ps) \in Nat \ {0} /\ ps[1] \in Seq(Bytes)
  BY <1>3, <1>4, FlatHead, HeadTail
<1>6. Done \in Nat /\ Len(lengths) \in Nat /\ Done <= Len(lengths) /\ \A k \in 1..Len(lengths) : lengths[k] \in Nat
  BY StreamFacts
<1>7. 1 \in 1..Len(ps)
  BY <1>5
<1>8. CASE g = 1
  <2>1. ps[1] = <<Garbage>>
    BY <1>4, <1>7, <1>8
  <2>2. Len(<<Garbage>>) = 1
    OBVIOUS
  <2>3. Len(ps[1]) > 0
    BY <2>1, <2>2
  <2>4. Begins(ps[1])
    BY <1>1, <1>3, <1>5, <1>8, <2>1, <2>3 DEF Begins
  <2> QED BY <2>4
<1>9. CASE g # 1
  <2>1. g \in 0..Len(ps) /\ Len(ps) = Len(lengths) - Done + (IF g = 0 THEN 0 ELSE 1)
    BY <1>4
  <2>2. Done < Len(lengths)
    <3>1. CASE g = 0
      <4>1. Len(ps) = Len(lengths) - Done /\ Len(ps) > 0 /\ Len(lengths) \in Nat /\ Done \in Nat
        BY <1>5, <1>6, <2>1, <3>1
      <4> QED BY <4>1
    <3>2. CASE g # 0
      <4>1. Len(ps) >= 2
        BY <1>5, <1>9, <2>1, <3>2
      <4> QED BY <1>5, <1>6, <2>1, <3>2, <4>1
    <3> QED BY <3>1, <3>2
  <2>3. g = 0 \/ 1 < g
    BY <1>5, <1>9, <2>1
  <2>4. ps[1] = Frame(Done + 1, lengths[Done + 1])
    BY <1>4, <1>7, <1>9, <2>3
  <2>5. Done + 1 \in 1..Len(lengths)
    BY <1>6, <2>2
  <2>6. lengths[Done + 1] \in Nat /\ Done + 1 \in Nat
    BY <1>6, <2>5
  <2>7. Len(ps[1]) > 0
    BY <2>4, <2>6, FrameIs
  <2>8. Begins(ps[1])
    BY <1>1, <1>3, <1>5, <1>9, <2>2, <2>4, <2>7 DEF Begins
  <2> QED BY <2>8
<1> QED BY <1>8, <1>9

\* A header that is unpacked is whole, and it is that of the next message unless a foreign byte is first.
LEMMA HeaderIs ==
  ASSUME FramingInv, held >= HeaderLen
  PROVE  /\ WholeHeader /\ chunks # <<>>
         /\ \E p : Begins(p) /\ Header[1] = p[1]
<1>1. /\ HeaderLen \in Nat \ {0} /\ held \in Nat /\ JoinBelow \in Nat /\ JoinBelow >= HeaderLen
      /\ held = Len(Flat(chunks)) /\ chunks \in Seq(Seq(Bytes))
  BY StreamFacts DEF FramingInv, FramingFields, Streams
<1>2. chunks # <<>>
  <2>1. Flat(<<>>) = <<>> /\ Len(<<>>) = 0
    BY FlatNone, EmptySeq
  <2> QED BY <1>1, <2>1
<1>3. /\ chunks[1] \in Seq(Bytes) /\ Len(chunks[1]) \in Nat /\ Len(chunks) \in Nat \ {0}
      /\ \A i \in 1..Len(chunks[1]) : Flat(chunks)[i] = chunks[1][i]
      /\ Len(chunks) = 1 => Len(chunks[1]) = held
  BY <1>2, FirstChunk
<1>4. WholeHeader
  <2>1. CASE Len(chunks) = 1
    BY <1>3, <2>1 DEF WholeHeader
  <2>2. CASE Len(chunks) # 1
    <3>1. Len(chunks) >= 2
      <4>1. Len(chunks) \in Nat \ {0}
        BY <1>3
      <4> QED BY <2>2, <4>1
    <3>2. Len(chunks[1]) >= JoinBelow
      BY <3>1 DEF FramingInv, Reading
    <3> QED BY <1>1, <1>3, <3>2 DEF WholeHeader
  <2> QED BY <2>1, <2>2
<1>5. held > 0
  BY <1>1
<1>6. PICK p : Begins(p)
  BY <1>5, HeadOf
<1>7. PICK ps, g : Coming(ps, g, lengths, Done) /\ After(handed, Consumed) = Flat(ps) /\ ps # <<>> /\ ps[1] = p /\ p \in Seq(Bytes) /\ Len(p) > 0
  BY <1>6 DEF Begins
<1>8. Flat(ps)[1] = p[1]
  <2>1. ps \in Seq(Seq(Bytes))
    BY <1>7 DEF Coming, Streams
  <2>2. \A i \in 1..Len(p) : Flat(ps)[i] = p[i]
    BY <1>7, <2>1, FlatHead
  <2>3. Len(p) \in Nat
    BY <1>7, LenProperties
  <2>4. 1 \in 1..Len(p)
    BY <1>7, <2>3
  <2> QED BY <2>2, <2>4
<1>9. Flat(ps)[1] = chunks[1][1]
  <2>1. \A i \in 1..held : Flat(ps)[i] = Flat(chunks)[i]
    BY <1>7, Held
  <2>2. 1 \in 1..held /\ 1 \in 1..Len(chunks[1])
    BY <1>1, <1>3, <1>4, <1>5 DEF WholeHeader
  <2> QED BY <1>3, <2>1, <2>2
<1>10. Header[1] = chunks[1][1]
  <2> DEFINE k == chunks[1]
  <2>1. k \in Seq(Bytes) /\ 1 \in 1..(Len(k) + 1) /\ HeaderLen \in (1 - 1)..Len(k) /\ 1 \in 1..(HeaderLen - 1 + 1)
    BY <1>1, <1>3, <1>4 DEF WholeHeader
  <2> HIDE DEF k
  <2>2. \A i \in 1..(HeaderLen - 1 + 1) : SubSeq(k, 1, HeaderLen)[i] = k[1 + i - 1]
    BY <2>1, Part
  <2>3. SubSeq(k, 1, HeaderLen)[1] = k[1 + 1 - 1] /\ 1 + 1 - 1 = 1
    BY <2>1, <2>2
  <2> QED BY <2>3 DEF Header, k
<1> QED BY <1>2, <1>4, <1>6, <1>8, <1>9, <1>10

\* With a sound header, the message that comes is the next one.
LEMMA SoundHeader ==
  ASSUME FramingInv, held >= HeaderLen, Magic
  PROVE  /\ Done < Len(lengths) /\ Done + 1 \in 1..Len(lengths) /\ MsgLen = lengths[Done + 1] /\ HeaderLen + MsgLen = Due
         /\ lengths[Done + 1] \in Nat /\ Due \in Nat /\ Due >= HeaderLen /\ Due > 0
         /\ \E ps, g : /\ Coming(ps, g, lengths, Done) /\ After(handed, Consumed) = Flat(ps)
                       /\ g # 0 => \E i \in DOMAIN handed : handed[i] = Garbage
                       /\ ps # <<>> /\ g # 1 /\ ps[1] = Frame(Done + 1, lengths[Done + 1])
<1>1. PICK p : Begins(p) /\ Header[1] = p[1]
  BY HeaderIs
<1>2. PICK ps, g : /\ Coming(ps, g, lengths, Done) /\ After(handed, Consumed) = Flat(ps)
                   /\ g # 0 => \E i \in DOMAIN handed : handed[i] = Garbage
                   /\ ps # <<>> /\ ps[1] = p
                   /\ IF g = 1 THEN p = <<Garbage>> ELSE Done < Len(lengths) /\ p = Frame(Done + 1, lengths[Done + 1])
  BY <1>1 DEF Begins
<1>3. g # 1
  <2>1. ASSUME g = 1 PROVE FALSE
    <3>1. p[1] = Garbage
      BY <1>2, <2>1
    <3>2. Header[1][2] = 0
      BY <1>1, <3>1 DEF Garbage
    <3> QED BY <3>2 DEF Magic
  <2> QED BY <2>1
<1>4. Done < Len(lengths) /\ p = Frame(Done + 1, lengths[Done + 1])
  BY <1>2, <1>3
<1>5. Done \in Nat /\ Len(lengths) \in Nat /\ HeaderLen \in Nat \ {0} /\ \A k \in 1..Len(lengths) : lengths[k] \in Nat
  BY StreamFacts
<1>6. Done + 1 \in 1..Len(lengths)
  BY <1>4, <1>5
<1>7. lengths[Done + 1] \in Nat /\ Done + 1 \in Nat
  BY <1>5, <1>6
<1>8. Header[1] = <<Done + 1, 1>>
  BY <1>1, <1>4, <1>7, FrameIs
<1>9. MsgLen = lengths[Done + 1]
  BY <1>8 DEF MsgLen
<1>10. HeaderLen + MsgLen = Due /\ Due \in Nat /\ Due >= HeaderLen /\ Due > 0
  BY <1>5, <1>7, <1>9 DEF Due
<1> QED BY <1>2, <1>3, <1>4, <1>6, <1>7, <1>9, <1>10

\* The pieces that come after the first.
LEMMA ComingNext ==
  ASSUME NEW ls \in Seq(Bodies), NEW k \in Nat, k < Len(ls), NEW ps, NEW g, Coming(ps, g, ls, k), ps # <<>>, g # 1
  PROVE  /\ Coming(Tail(ps), IF g = 0 THEN 0 ELSE g - 1, ls, k + 1)
         /\ ps \in Seq(Streams) /\ Tail(ps) \in Seq(Streams)
<1> DEFINE qs == Tail(ps)
           h == IF g = 0 THEN 0 ELSE g - 1
           c == Len(ps)
           l == Len(ls)
<1>1. ps \in Seq(Streams) /\ g \in 0..c /\ c = l - k + (IF g = 0 THEN 0 ELSE 1)
      /\ \A i \in 1..c : ps[i] = IF i = g THEN <<Garbage>>
                                ELSE IF g = 0 \/ i < g THEN Frame(k + i, ls[k + i])
                                ELSE Frame(k + i - 1, ls[k + i - 1])
  BY DEF Coming
<1>2. qs \in Seq(Streams) /\ Len(qs) = c - 1 /\ c \in Nat \ {0} /\ \A i \in 1..Len(qs) : qs[i] = ps[i + 1]
  BY <1>1, HeadTail
<1>3. l \in Nat
  BY LenProperties
<1>4. c \in Nat \ {0} /\ g \in 0..c /\ c = l - k + (IF g = 0 THEN 0 ELSE 1) /\ Len(qs) = c - 1
  BY <1>1, <1>2
<1> HIDE DEF qs, c, l
<1>5. h \in 0..(c - 1) /\ c - 1 = l - (k + 1) + (IF h = 0 THEN 0 ELSE 1) /\ (h = 0 <=> g = 0)
  <2>1. CASE g = 0
    BY <1>3, <1>4, <2>1
  <2>2. CASE g # 0
    <3>1. g >= 2 /\ h = g - 1 /\ h # 0
      BY <1>4, <2>2
    <3> QED BY <1>3, <1>4, <2>2, <3>1
  <2> QED BY <2>1, <2>2
<1>6. ASSUME NEW i \in 1..(c - 1)
      PROVE  qs[i] = IF i = h THEN <<Garbage>>
                     ELSE IF h = 0 \/ i < h THEN Frame((k + 1) + i, ls[(k + 1) + i])
                     ELSE Frame((k + 1) + i - 1, ls[(k + 1) + i - 1])
  <2>1. /\ i + 1 \in 1..c /\ i \in 1..Len(qs) /\ (k + 1) + i = k + (i + 1) /\ (k + 1) + i - 1 = k + (i + 1) - 1
        /\ (i + 1 = g <=> i = h) /\ (g = 0 \/ i + 1 < g <=> h = 0 \/ i < h)
    <3>1. CASE g = 0
      BY <1>4, <3>1
    <3>2. CASE g # 0
      <4>1. h = g - 1 /\ h # 0 /\ g \in Nat
        BY <1>4, <1>5, <3>2
      <4> QED BY <1>4, <3>2, <4>1
    <3> QED BY <3>1, <3>2
  <2>2. qs[i] = ps[i + 1]
    BY <1>2, <2>1
  <2>3. ps[i + 1] = IF i + 1 = g THEN <<Garbage>>
                    ELSE IF g = 0 \/ i + 1 < g THEN Frame(k + (i + 1), ls[k + (i + 1)])
                    ELSE Frame(k + (i + 1) - 1, ls[k + (i + 1) - 1])
    BY <1>1, <2>1
  <2> HIDE DEF h
  <2> QED BY <2>1, <2>2, <2>3
<1> HIDE DEF h
<1>7. Coming(qs, h, ls, k + 1)
  BY <1>2, <1>4, <1>5, <1>6 DEF Coming, l
<1> QED BY <1>1, <1>2, <1>7 DEF qs, h

\* A message that is whole ends in the last chunk.
LEMMA EndsInLast ==
  ASSUME FramingInv, chunks # <<>>, Due \in Nat, Due > 0, held >= Due
  PROVE  Rest(Due) = <<After(Flat(chunks), Due)>>
<1> DEFINE c == Len(chunks)
<1>1. chunks \in Seq(Seq(Bytes)) /\ held = Len(Flat(chunks)) /\ c \in Nat \ {0} /\ held \in Nat
  BY StreamFacts, FirstChunk DEF FramingInv, FramingFields, Streams
<1>2. \A k \in 0..c : SubSeq(chunks, 1, k) \in Seq(Seq(Bytes)) /\ Len(SubSeq(chunks, 1, k)) = k
  BY <1>1, Cut
<1>3. SubSeq(chunks, 1, c) = chunks
  BY <1>1
<1>4. Len(Flat(SubSeq(chunks, 1, c - 1))) < Due
  <2>1. CASE c = 1
    <3>1. 0 \in 0..c /\ c - 1 = 0
      BY <2>1
    <3>2. SubSeq(chunks, 1, 0) \in Seq(Seq(Bytes)) /\ Len(SubSeq(chunks, 1, 0)) = 0
      BY <1>2, <3>1
    <3>3. SubSeq(chunks, 1, 0) = <<>>
      BY <3>2, NoSequence
    <3> QED BY <3>1, <3>3, FlatNone, EmptySeq
  <2>2. CASE c # 1
    <3>1. c >= 2
      <4>1. c \in Nat \ {0}
        BY <1>1
      <4> HIDE DEF c
      <4> QED BY <2>2, <4>1
    <3> QED BY <3>1 DEF FramingInv, Reading
  <2> QED BY <2>1, <2>2
<1>5. ASSUME NEW k \in 1..(c - 1) PROVE Len(Flat(SubSeq(chunks, 1, k))) < Due
  <2> DEFINE a == SubSeq(chunks, 1, c - 1)
             b == SubSeq(a, 1, k)
             d == After(a, k)
  <2>1. a \in Seq(Seq(Bytes)) /\ Len(a) = c - 1
    <3>1. c - 1 \in 0..c
      BY <1>1
    <3> QED BY <1>2, <3>1
  <2>2. k \in 0..Len(a) /\ k \in 1..c
    BY <1>1, <2>1
  <2>3. b \in Seq(Seq(Bytes)) /\ d \in Seq(Seq(Bytes)) /\ b \o d = a /\ Len(b) = k
    BY <2>1, <2>2, Cut, Suffix
  <2>4. b = SubSeq(chunks, 1, k)
    <3> DEFINE x == SubSeq(chunks, 1, k)
    <3>1. 1 \in 1..(c + 1) /\ k \in (1 - 1)..c /\ c - 1 \in (1 - 1)..c /\ 1 \in 1..(Len(a) + 1) /\ k \in (1 - 1)..Len(a)
      BY <1>1, <2>1, <2>2
    <3>2. \A i \in 1..(k - 1 + 1) : x[i] = chunks[1 + i - 1]
      BY <1>1, <3>1, Part
    <3>3. \A i \in 1..((c - 1) - 1 + 1) : a[i] = chunks[1 + i - 1]
      BY <1>1, <3>1, Part
    <3>4. \A i \in 1..(k - 1 + 1) : b[i] = a[1 + i - 1]
      BY <2>1, <3>1, Part
    <3>5. x \in Seq(Seq(Bytes)) /\ Len(x) = k
      <4>1. k \in 0..c
        BY <2>2
      <4> QED BY <1>2, <4>1
    <3> HIDE DEF a, b, x, c
    <3>6. ASSUME NEW i \in 1..k PROVE b[i] = x[i]
      <4>1. i \in 1..(k - 1 + 1) /\ i \in 1..((c - 1) - 1 + 1) /\ 1 + i - 1 = i
        BY <1>1
      <4> QED BY <3>2, <3>3, <3>4, <4>1
    <3>7. b = x
      BY <2>3, <3>5, <3>6, SameSeq
    <3> QED BY <3>7 DEF x
  <2> HIDE DEF a, b, d
  <2>5. Flat(a) = Flat(b) \o Flat(d)
    BY <2>3, FlatConcat
  <2>6. Flat(b) \in Seq(Bytes) /\ Flat(d) \in Seq(Bytes)
    BY <2>3, FlatSeq
  <2>7. Len(Flat(a)) = Len(Flat(b)) + Len(Flat(d)) /\ Len(Flat(b)) \in Nat /\ Len(Flat(d)) \in Nat
    <3>1. Len(Flat(b) \o Flat(d)) = Len(Flat(b)) + Len(Flat(d))
      BY <2>6, Concat
    <3> QED BY <2>5, <2>6, <3>1, LenProperties
  <2>8. Len(Flat(a)) < Due
    BY <1>4 DEF a
  <2>9. Len(Flat(b)) < Due
    BY <2>7, <2>8
  <2> QED BY <2>4, <2>9
<1>6. Holding(Due) = c
  <2> DEFINE Fits(k) == Len(FlattenSeq(SubSeq(chunks, 1, k))) >= Due /\ Len(FlattenSeq(SubSeq(chunks, 1, k - 1))) < Due
  <2>1. c \in 1..c /\ Fits(c)
    <3>1. c \in 1..c
      BY <1>1
    <3>2. Len(Flat(SubSeq(chunks, 1, c))) >= Due
      BY <1>1, <1>3
    <3> QED BY <1>4, <3>1, <3>2 DEF Flat
  <2>2. ASSUME NEW k \in 1..c, Fits(k) PROVE k = c
    <3>1. ASSUME k # c PROVE FALSE
      <4>1. k \in 1..(c - 1)
        BY <1>1, <3>1
      <4>2. Len(Flat(SubSeq(chunks, 1, k))) < Due
        BY <1>5, <4>1
      <4>3. Len(Flat(SubSeq(chunks, 1, k))) >= Due
        BY <2>2 DEF Flat
      <4>4. Len(Flat(SubSeq(chunks, 1, k))) \in Nat
        <5>1. k \in 0..c
          BY <1>1
        <5>2. SubSeq(chunks, 1, k) \in Seq(Seq(Bytes))
          BY <1>2, <5>1
        <5>3. Flat(SubSeq(chunks, 1, k)) \in Seq(Bytes)
          BY <5>2, FlatSeq
        <5> QED BY <5>3, LenProperties
      <4> QED BY <4>2, <4>3, <4>4
    <3> QED BY <3>1
  <2>3. Holding(Due) = CHOOSE k \in 1..c : Fits(k)
    BY DEF Holding
  <2> HIDE DEF Fits, c
  <2> QED BY <2>1, <2>2, <2>3
<1>7. SubSeq(chunks, c + 1, c) = <<>>
  <2>1. c \in 0..c
    BY <1>1
  <2>2. After(chunks, c) \in Seq(Seq(Bytes)) /\ Len(After(chunks, c)) = c - c
    BY <1>1, <2>1, Suffix
  <2>3. After(chunks, c) = <<>>
    BY <1>1, <2>2, NoSequence
  <2> QED BY <2>3 DEF After
<1> DEFINE e == After(Flat(chunks), Due)
<1>8. Rest(Due) = <<e>> \o <<>>
  BY <1>3, <1>6, <1>7 DEF Rest, Flat
<1> HIDE DEF e
<1>9. <<e>> \o <<>> = <<e>>
  OBVIOUS
<1> QED BY <1>8, <1>9 DEF e

LEMMA OneMore == ASSUME NEW a \in Nat, NEW b \in Nat PROVE a * (b + 1) = a * b + a
  OBVIOUS

\* _receive_one(): the first message leaves the chunks for the router.
LEMMA RouteKeeps ==
  ASSUME FramingInv, cutting, held >= HeaderLen, Magic, held >= Due,
         routed' = Append(routed, SubSeq(FlattenSeq(chunks), HeaderLen + 1, Due)), chunks' = Rest(Due), held' = held - Due,
         UNCHANGED <<cutting, reader, lengths, handed, buf, len, writable, writer, pipe>>
  PROVE  FramingInv'
<1> DEFINE c == Flat(chunks)
           d == After(handed, Consumed)
           m == Done + 1
           f == Frame(m, lengths[m])
           x == SubSeq(c, HeaderLen + 1, Due)
           e == After(c, Due)
<1>1. /\ Done < Len(lengths) /\ m \in 1..Len(lengths) /\ lengths[m] \in Nat
      /\ Due \in Nat /\ Due >= HeaderLen /\ Due > 0
  BY SoundHeader
<1>2. PICK ps, g : /\ Coming(ps, g, lengths, Done) /\ d = Flat(ps)
                   /\ g # 0 => \E i \in DOMAIN handed : handed[i] = Garbage
                   /\ ps # <<>> /\ g # 1 /\ ps[1] = f
  BY SoundHeader
<1>3. /\ handed \in Seq(Bytes) /\ c \in Seq(Bytes) /\ held = Len(c) /\ held \in Nat /\ pipe \in Seq(Bytes) /\ Done \in Nat
      /\ lengths \in Seq(Bodies) /\ Len(lengths) \in Nat /\ HeaderLen \in Nat \ {0} /\ routed \in Seq(Seq(Bytes))
      /\ Done = Len(routed) /\ chunks # <<>>
  BY StreamFacts, HeaderIs DEF FramingInv, FramingFields, Streams, Done
<1>4. Consumed \in 0..Len(handed) /\ Len(handed) \in Nat /\ d \in Seq(Bytes) /\ Len(d) = Len(handed) - Consumed
  <2>1. Consumed \in 0..Len(handed) /\ Len(handed) \in Nat
    BY <1>3, LenProperties DEF FramingInv, Conserved
  <2> QED BY <1>3, <2>1, Suffix
<1>5. f \in Seq(Bytes) /\ Len(f) = Due
  <2>1. m \in Nat
    BY <1>3
  <2>2. f \in Streams /\ Len(f) = HeaderLen + lengths[m]
    BY <1>1, <2>1, FrameIs
  <2> QED BY <2>2 DEF Streams, Due
<1>6. PICK rest \in Seq(Bytes) : d = c \o (pipe \o rest) /\ (writer = "open" => rest = Flat(buf))
  BY DEF FramingInv, Conserved, Streams
<1> DEFINE y == pipe \o rest
           z == Flat(Tail(ps))
<1>7. y \in Seq(Bytes) /\ d = c \o y
  BY <1>3, <1>6, Concat
<1>8. /\ ps \in Seq(Seq(Bytes)) /\ Tail(ps) \in Seq(Seq(Bytes)) /\ z \in Seq(Bytes) /\ d = f \o z
      /\ Coming(Tail(ps), IF g = 0 THEN 0 ELSE g - 1, lengths, Done + 1)
  <2>1. /\ ps \in Seq(Seq(Bytes)) /\ Tail(ps) \in Seq(Seq(Bytes))
        /\ Coming(Tail(ps), IF g = 0 THEN 0 ELSE g - 1, lengths, Done + 1)
    BY <1>1, <1>2, <1>3, ComingNext DEF Streams
  <2>2. z \in Seq(Bytes) /\ Flat(ps) = f \o z
    BY <1>2, <2>1, FlatHead
  <2> QED BY <1>2, <2>1, <2>2
<1>9. Rest(Due) = <<e>>
  BY <1>1, <1>3, EndsInLast
<1>10. Due \in 0..Len(c) /\ HeaderLen + 1 \in 1..(Len(c) + 1) /\ Due \in ((HeaderLen + 1) - 1)..Len(c)
       /\ HeaderLen + 1 \in 1..(Len(f) + 1) /\ Due \in ((HeaderLen + 1) - 1)..Len(f)
  BY <1>1, <1>3, <1>5
<1>11. e \in Seq(Bytes) /\ Len(e) = Len(c) - Due
  BY <1>3, <1>10, Suffix
<1>12. x \in Seq(Bytes) /\ Len(x) = Due - HeaderLen
  <2>1. x \in Seq(Bytes) /\ Len(x) = Due - (HeaderLen + 1) + 1
    BY <1>3, <1>10, Part
  <2> QED BY <1>1, <1>3, <2>1
<1>13. chunks' = <<e>> /\ routed' = Append(routed, x) /\ held' = held - Due
  BY <1>9 DEF Flat
<1>14. x = After(f, HeaderLen)
  <2>1. SubSeq(c \o y, HeaderLen + 1, Due) = SubSeq(c, HeaderLen + 1, Due)
    <3> HIDE DEF c, y
    <3> QED BY <1>3, <1>7, <1>10, PartOfBeginning
  <2>2. SubSeq(f \o z, HeaderLen + 1, Due) = SubSeq(f, HeaderLen + 1, Due)
    <3> HIDE DEF f, z
    <3> QED BY <1>5, <1>8, <1>10, PartOfBeginning
  <2>3. c \o y = f \o z
    BY <1>7, <1>8
  <2> QED BY <1>5, <2>1, <2>2, <2>3 DEF After
<1> HIDE DEF c, d, m, f, x, e, y, z
<1>15. After(d, Due) = e \o y /\ After(d, Due) = z
  <2>1. After(c \o y, Due) = After(c, Due) \o y
    BY <1>3, <1>7, <1>10, Shortened
  <2>2. After(f \o z, Len(f)) = z
    BY <1>5, <1>8, Whole
  <2> QED BY <1>5, <1>7, <1>8, <2>1, <2>2 DEF e
<1>16. routed' \in Seq(Seq(Bytes)) /\ Len(routed') = Done + 1 /\ (\A k \in 1..Done : routed'[k] = routed[k]) /\ routed'[Done + 1] = x
  <2>1. routed \in Seq(Seq(Bytes)) /\ x \in Seq(Bytes) /\ routed' = Append(routed, x) /\ Done = Len(routed)
    BY <1>3, <1>12, <1>13
  <2>2. Append(routed, x) \in Seq(Seq(Bytes)) /\ Len(Append(routed, x)) = Len(routed) + 1
    BY <2>1, Appended
  <2>3. (\A k \in 1..Len(routed) : Append(routed, x)[k] = routed[k]) /\ Append(routed, x)[Len(routed) + 1] = x
    BY <2>1, Appended
  <2> QED BY <2>1, <2>2, <2>3
<1>17. Done' = Done + 1
  BY <1>16 DEF Done
<1>18. Consumed' = Consumed + Due
  <2>1. Flat(routed') = Flat(routed) \o x
    BY <1>3, <1>12, <1>13, FlatAppend
  <2>2. Flat(routed) \in Seq(Bytes)
    BY <1>3, FlatSeq
  <2>3. Len(Flat(routed')) = Len(Flat(routed)) + Len(x) /\ Len(Flat(routed)) \in Nat
    <3>1. Len(Flat(routed) \o x) = Len(Flat(routed)) + Len(x)
      BY <1>12, <2>2, Concat
    <3> QED BY <2>1, <2>2, <3>1, LenProperties
  <2>4. HeaderLen * (Done + 1) = HeaderLen * Done + HeaderLen
    BY <1>3, OneMore
  <2>5. Consumed = Len(Flat(routed)) + HeaderLen * Done /\ Consumed' = Len(Flat(routed')) + HeaderLen * (Done + 1)
    <3>1. Len(routed') = Done + 1 /\ Len(routed) = Done
      BY <1>3, <1>16
    <3> QED BY <3>1 DEF Consumed, Flat
  <2> DEFINE u == HeaderLen * Done
             v == Len(Flat(routed))
  <2>6. u \in Nat
    BY <1>3
  <2>7. v \in Nat /\ Consumed = v + u /\ Consumed' = (v + (Due - HeaderLen)) + (u + HeaderLen)
    BY <1>12, <2>3, <2>4, <2>5
  <2> HIDE DEF u, v
  <2> QED BY <1>1, <1>3, <2>6, <2>7
<1>19. Consumed' \in 0..Len(handed) /\ After(handed', Consumed') = After(d, Due)
  <2>1. Len(d) = Len(c) + Len(y) /\ Len(y) \in Nat
    <3>1. Len(c \o y) = Len(c) + Len(y)
      BY <1>3, <1>7, Concat
    <3> QED BY <1>7, <3>1, LenProperties
  <2>2. Due \in 0..(Len(handed) - Consumed) /\ Consumed \in Nat
    <3>1. Due <= Len(c) /\ Len(c) \in Nat
      BY <1>3, <1>10
    <3> QED BY <1>1, <1>4, <2>1, <3>1
  <2>3. Consumed + Due \in 0..Len(handed)
    BY <1>1, <1>4, <2>2
  <2>4. After(After(handed, Consumed), Due) = After(handed, Consumed + Due)
    BY <1>3, <1>4, <2>2, SkipTwice
  <2> QED BY <1>18, <2>3, <2>4 DEF d
<1>20. <<e>> \in Seq(Seq(Bytes)) /\ Len(<<e>>) = 1 /\ Flat(<<e>>) = e
  <2>1. Flat(<<e>>) = e
    BY <1>11, FlatOne
  <2> QED BY <1>11, <2>1
<1>21. FramingFields'
  <2>1. held' = Len(Flat(chunks'))
    BY <1>3, <1>11, <1>13, <1>20
  <2> QED BY <1>13, <1>16, <1>20, <2>1 DEF FramingInv, FramingFields, Streams
<1>22. Writing'
  BY DEF FramingInv, Writing
<1>23. Conserved'
  <2>1. After(handed', Consumed') = Flat(chunks') \o (pipe' \o rest)
    BY <1>13, <1>15, <1>19, <1>20 DEF y
  <2>2. rest \in Streams /\ (writer' = "open" => rest = Flat(buf'))
    BY <1>6 DEF Streams
  <2> QED BY <1>19, <2>1, <2>2 DEF Conserved
<1>24. Ahead'
  <2> DEFINE h == IF g = 0 THEN 0 ELSE g - 1
  <2>1. Coming(Tail(ps), h, lengths', Done') /\ After(handed', Consumed') = Flat(Tail(ps))
    BY <1>8, <1>15, <1>17, <1>19 DEF z
  <2>2. h # 0 => \E i \in DOMAIN handed' : handed'[i] = Garbage
    BY <1>2
  <2> HIDE DEF h
  <2> QED BY <2>1, <2>2 DEF Ahead
<1>25. Reading'
  <2>1. Done' <= Len(lengths')
    BY <1>1, <1>3, <1>17
  <2>2. MessagesWhole'
    <3>1. DOMAIN routed = 1..Done /\ DOMAIN routed' = 1..(Done + 1)
      BY <1>3, <1>16, LenProperties
    <3>2. ASSUME NEW k \in 1..(Done + 1) PROVE routed'[k] = After(Frame(k, lengths[k]), HeaderLen)
      <4>1. CASE k = Done + 1
        BY <1>14, <1>16, <4>1 DEF f, m
      <4>2. CASE k # Done + 1
        <5>1. k \in 1..Done
          <6>1. Done \in Nat
            BY <1>3
          <6> QED BY <4>2, <6>1
        <5>2. routed[k] = After(Frame(k, lengths[k]), HeaderLen)
          BY <3>1, <5>1 DEF FramingInv, Reading, MessagesWhole
        <5> QED BY <1>16, <5>1, <5>2
      <4> QED BY <4>1, <4>2
    <3> QED BY <3>1, <3>2 DEF MessagesWhole
  <2>3. ~(Len(chunks') >= 2)
    BY <1>13, <1>20
  <2>4. cutting' /\ reader' = "open"
    BY DEF FramingInv, Reading
  <2> QED BY <2>1, <2>2, <2>3, <2>4 DEF Reading
<1>26. DroppedForCause'
  <2>1. DroppedForCause
    BY DEF FramingInv
  <2> QED BY <2>1 DEF DroppedForCause
<1> QED BY <1>21, <1>22, <1>23, <1>24, <1>25, <1>26 DEF FramingInv

\* A step that stops the loop or drops the stream.
LEMMA ReceiveRests ==
  ASSUME FramingInv, UNCHANGED <<chunks, held, routed, lengths, handed, buf, len, writable, writer, pipe>>, cutting' = FALSE,
         reader' \in {"open", "closed"},
         reader' = "open" => held < HeaderLen \/ (Done < Len(lengths) /\ held < Due),
         reader' = "closed" => \/ reader = "closed"
                               \/ Garbage \in {handed[i] : i \in DOMAIN handed}
                               \/ \E k \in DOMAIN lengths : lengths[k] > MaxBody
  PROVE  FramingInv'
<1>1. Consumed' = Consumed /\ Done' = Done /\ Due' = Due
  BY DEF Consumed, Done, Due
<1>2. FramingFields'
  BY DEF FramingInv, FramingFields
<1>3. Writing'
  BY DEF FramingInv, Writing
<1>4. Conserved'
  BY <1>1 DEF FramingInv, Conserved
<1>5. Ahead'
  BY <1>1 DEF FramingInv, Ahead
<1>6. Reading'
  <2>1. MessagesWhole'
    BY DEF FramingInv, Reading, MessagesWhole
  <2> QED BY <1>1, <2>1 DEF FramingInv, Reading
<1>7. DroppedForCause'
  <2>1. DroppedForCause
    BY DEF FramingInv
  <2> QED BY <2>1 DEF DroppedForCause, Garbage
<1> QED BY <1>2, <1>3, <1>4, <1>5, <1>6, <1>7 DEF FramingInv

\* _receive_one(): waits for more, drops the stream for a cause, or hands over a message.
LEMMA ReceiveOneKeeps ==
  ASSUME FramingInv, ReceiveOne
  PROVE  FramingInv'
<1>1. cutting /\ UNCHANGED <<lengths, handed, buf, len, writable, writer, pipe>> /\ reader = "open"
  BY DEF ReceiveOne, sending, FramingInv, Reading
<1>2. HeaderLen \in Nat \ {0} /\ held \in Nat
  BY StreamFacts
<1>3. CASE held < HeaderLen /\ Stop
  BY <1>1, <1>3, ReceiveRests DEF Stop
<1>4. CASE held >= HeaderLen /\ CloseReader /\ (~WholeHeader \/ (WholeHeader /\ ~Magic) \/ (WholeHeader /\ Magic /\ MsgLen > MaxBody))
  <2>1. UNCHANGED <<chunks, held, routed>> /\ cutting' = FALSE /\ reader' = "closed"
    BY <1>4 DEF CloseReader
  <2>2. WholeHeader
    BY <1>4, HeaderIs
  <2>3. Garbage \in {handed[i] : i \in DOMAIN handed} \/ \E k \in DOMAIN lengths : lengths[k] > MaxBody
    <3>1. CASE ~Magic
      <4>1. PICK p : Begins(p) /\ Header[1] = p[1]
        BY <1>4, HeaderIs
      <4>2. PICK g : /\ g # 0 => \E i \in DOMAIN handed : handed[i] = Garbage
                     /\ IF g = 1 THEN p = <<Garbage>> ELSE Done < Len(lengths) /\ p = Frame(Done + 1, lengths[Done + 1])
        BY <4>1 DEF Begins
      <4>3. CASE g # 1
        <5>1. Done \in Nat /\ Len(lengths) \in Nat /\ \A k \in 1..Len(lengths) : lengths[k] \in Nat
          BY StreamFacts
        <5>2. Done + 1 \in 1..Len(lengths) /\ Done + 1 \in Nat
          BY <4>2, <4>3, <5>1
        <5>3. p[1] = <<Done + 1, 1>>
          BY <4>2, <4>3, <5>1, <5>2, FrameIs
        <5> QED BY <3>1, <4>1, <5>3 DEF Magic
      <4>4. CASE g = 1
        BY <4>2, <4>4
      <4> QED BY <4>3, <4>4
    <3>2. CASE Magic
      <4>1. MsgLen > MaxBody /\ MsgLen = lengths[Done + 1] /\ Done + 1 \in 1..Len(lengths)
        BY <1>4, <2>2, <3>2, SoundHeader
      <4>2. DOMAIN lengths = 1..Len(lengths)
        BY LenProperties DEF FramingInv, FramingFields
      <4> QED BY <4>1, <4>2
    <3> QED BY <3>1, <3>2
  <2> QED BY <1>1, <2>1, <2>3, ReceiveRests
<1>5. CASE held >= HeaderLen /\ WholeHeader /\ Magic /\ held < HeaderLen + MsgLen /\ Stop
  <2>1. Done < Len(lengths) /\ HeaderLen + MsgLen = Due
    BY <1>5, SoundHeader
  <2>2. UNCHANGED <<chunks, held, routed, reader>> /\ cutting' = FALSE
    BY <1>5 DEF Stop
  <2> QED BY <1>1, <1>5, <2>1, <2>2, ReceiveRests
<1>6. CASE /\ held >= HeaderLen /\ WholeHeader /\ Magic /\ held >= HeaderLen + MsgLen
           /\ routed' = Append(routed, SubSeq(FlattenSeq(chunks), HeaderLen + 1, HeaderLen + MsgLen))
           /\ chunks' = Rest(HeaderLen + MsgLen) /\ held' = held - (HeaderLen + MsgLen)
           /\ UNCHANGED <<cutting, reader>>
  <2>1. HeaderLen + MsgLen = Due
    BY <1>6, SoundHeader
  <2> QED BY <1>1, <1>6, <2>1, RouteKeeps
<1> QED BY <1>3, <1>4, <1>5, <1>6 DEF ReceiveOne

\* Every step at either end of the stream keeps it.
LEMMA FramingStep ==
  ASSUME FramingInv, [FramingNext]_frVars
  PROVE  FramingInv'
<1>1. ASSUME NEW n \in Bodies, Send(n) PROVE FramingInv'
  BY <1>1, FrameSent
<1>2. CASE OnTransmit
  BY <1>2, TransmitKeeps
<1>3. CASE Disconnect
  BY <1>3, DisconnectKeeps
<1>4. CASE Interfere
  BY <1>4, InterfereKeeps
<1>5. CASE OnReceive
  BY <1>5, ReceiveKeeps
<1>6. CASE ReceiveOne
  BY <1>6, ReceiveOneKeeps
<1>7. CASE UNCHANGED frVars
  <2>1. UNCHANGED <<lengths, handed, buf, len, writable, writer, pipe, chunks, held, cutting, reader, routed>>
    BY <1>7 DEF frVars
  <2>2. Consumed' = Consumed /\ Done' = Done /\ Due' = Due
    BY <2>1 DEF Consumed, Done, Due
  <2>3. FramingFields' /\ Writing'
    BY <2>1 DEF FramingInv, FramingFields, Writing
  <2>4. Conserved' /\ Ahead'
    BY <2>1, <2>2 DEF FramingInv, Conserved, Ahead
  <2>5. MessagesWhole'
    BY <2>1 DEF FramingInv, Reading, MessagesWhole
  <2>6. Reading'
    BY <2>1, <2>2, <2>5 DEF FramingInv, Reading
  <2>7. DroppedForCause'
    BY <2>1 DEF FramingInv, DroppedForCause
  <2> QED BY <2>3, <2>4, <2>6, <2>7 DEF FramingInv
<1> QED BY <1>1, <1>2, <1>3, <1>4, <1>5, <1>6, <1>7 DEF FramingNext

\* What the invariant says to the router.
LEMMA FramingInvSafe == FramingInv => FramingSafe
<1> SUFFICES ASSUME FramingInv PROVE FramingSafe
  OBVIOUS
<1>1. FramingFields /\ Writing /\ Conserved /\ Reading /\ DroppedForCause
  BY DEF FramingInv
<1>2. FramingTypeOK
  BY <1>1 DEF FramingTypeOK, FramingFields, Writing, Flat
<1>3. BytesConserved
  <2>1. ASSUME writer = "open" PROVE FlattenSeq(chunks) \o pipe \o FlattenSeq(buf) = After(handed, Consumed)
    <3> DEFINE c == Flat(chunks)
               b == Flat(buf)
    <3>1. After(handed, Consumed) = c \o (pipe \o b)
      BY <1>1, <2>1 DEF Conserved
    <3>2. c \in Seq(Bytes) /\ pipe \in Seq(Bytes) /\ b \in Seq(Bytes)
      BY <1>1, StreamFacts DEF FramingFields, Streams
    <3> HIDE DEF c, b
    <3>3. (c \o pipe) \o b = c \o (pipe \o b)
      BY <3>2, Assoc, SMTT(60)
    <3> QED BY <3>1, <3>3 DEF c, b, Flat
  <2> QED BY <2>1 DEF BytesConserved
<1>4. MessagesWhole
  BY <1>1 DEF Reading
<1>5. HeadersWhole
  BY HeaderIs DEF HeadersWhole
<1>6. InterestMatches
  BY <1>1 DEF Writing, InterestMatches
<1> QED BY <1>1, <1>2, <1>3, <1>4, <1>5, <1>6 DEF FramingSafe

\* What a stream promises its router: whole messages in order through partial writes and reads, and
\* no sound stream dropped: for any header, bodies, limits and sizes of pipe and reads.
THEOREM FramingCorrect == FramingSpec => []FramingSafe
<1>1. FramingInit => FramingInv
  BY FramingInitially
<1>2. FramingInv /\ [FramingNext]_frVars => FramingInv'
  BY FramingStep
<1>3. FramingInv => FramingSafe
  BY FramingInvSafe
<1> QED BY <1>1, <1>2, <1>3, PTL DEF FramingSpec
-----------------------------------------------------------------------------
(* Routing: news of contexts travels up the tree ahead of their messages       *)

Others == Nodes \ {Root}
\* S holds the parent of each of its members.
Upwards(S) == \A j \in S \ {Root} : Up[j] \in S
\* The contexts that are k or below it.
Under(k) == {t \in Nodes : k \in Lineage[t]}

LEMMA LineageLeast ==
  ASSUME NEW k \in Nodes, NEW S \in SUBSET Nodes, k \in S, Upwards(S)
  PROVE  Lineage[k] \subseteq S
<1>1. Lineage[k] = {n \in Nodes : \A T \in SUBSET Nodes : k \in T /\ Upwards(T) => n \in T}
  BY DEF Lineage, Upwards
<1> QED BY <1>1

LEMMA LineageSelf ==
  ASSUME NEW k \in Nodes
  PROVE  k \in Lineage[k] /\ Lineage[k] \subseteq Nodes /\ Upwards(Lineage[k])
<1>1. Lineage[k] = {n \in Nodes : \A S \in SUBSET Nodes : k \in S /\ Upwards(S) => n \in S}
  BY DEF Lineage, Upwards
<1>2. ASSUME NEW j \in Lineage[k] \ {Root} PROVE Up[j] \in Lineage[k]
  <2>1. j \in Nodes /\ Up[j] \in Nodes
    BY <1>1, RoutingAssumption DEF RoutingAssumption
  <2>2. ASSUME NEW S \in SUBSET Nodes, k \in S, Upwards(S) PROVE Up[j] \in S
    <3>1. j \in S
      BY <1>1, <2>2
    <3> QED BY <3>1, <2>2 DEF Upwards
  <2> QED BY <1>1, <2>1, <2>2
<1>3. Upwards(Lineage[k])
  BY <1>2 DEF Upwards
<1> QED BY <1>1, <1>3

LEMMA LineageIn ==
  ASSUME NEW k \in Nodes, NEW n \in Lineage[k]
  PROVE  n \in Nodes /\ Lineage[n] \subseteq Lineage[k]
<1>1. n \in Nodes
  BY LineageSelf
<1> QED BY <1>1, LineageSelf, LineageLeast

LEMMA LineageUp ==
  ASSUME NEW k \in Others
  PROVE  Up[k] \in Nodes /\ Up[k] \in Lineage[k] /\ Lineage[k] = {k} \cup Lineage[Up[k]]
<1>1. k \in Nodes /\ k # Root /\ Up[k] \in Nodes
  BY RoutingAssumption DEF RoutingAssumption, Others
<1>2. Up[k] \in Lineage[k]
  BY <1>1, LineageSelf DEF Upwards
<1>3. Upwards(Lineage[Up[k]]) /\ Up[k] \in Lineage[Up[k]] /\ Lineage[Up[k]] \subseteq Nodes
  BY <1>1, LineageSelf
<1>4. Upwards({k} \cup Lineage[Up[k]])
  BY <1>3 DEF Upwards
<1>5. Lineage[k] \subseteq {k} \cup Lineage[Up[k]]
  BY <1>1, <1>3, <1>4, LineageLeast
<1>6. Lineage[Up[k]] \subseteq Lineage[k]
  BY <1>1, <1>2, LineageIn
<1> QED BY <1>1, <1>2, <1>5, <1>6, LineageSelf

LEMMA LineageRoot == Root \in Nodes /\ Lineage[Root] = {Root}
<1>1. Root \in Nodes
  BY RoutingAssumption DEF RoutingAssumption
<1>2. Upwards({Root})
  BY DEF Upwards
<1> QED BY <1>1, <1>2, LineageLeast, LineageSelf

\* No context is below itself.
LEMMA NoCycle ==
  ASSUME NEW k \in Others
  PROVE  k \notin Lineage[Up[k]]
<1>1. SUFFICES ASSUME k \in Lineage[Up[k]] PROVE FALSE
  OBVIOUS
<1>2. k \in Nodes /\ k # Root /\ Root \in Lineage[k]
  BY RoutingAssumption DEF RoutingAssumption, Others
<1> DEFINE C == {j \in Lineage[k] : k \in Lineage[j]}
<1>3. C \in SUBSET Nodes /\ k \in C
  BY <1>2, LineageSelf
<1>4. ASSUME NEW j \in C \ {Root} PROVE Up[j] \in C
  <2>1. j \in Others /\ Up[j] \in Lineage[k]
    BY <1>2, <1>3, LineageSelf DEF Upwards, Others
  <2>2. k \in Lineage[Up[j]]
    <3>1. CASE j = k
      BY <3>1, <1>1
    <3>2. CASE j # k
      BY <3>2, <2>1, LineageUp
    <3> QED BY <3>1, <3>2
  <2> QED BY <2>1, <2>2
<1>5. Root \in C
  BY <1>2, <1>3, <1>4, LineageLeast DEF Upwards
<1> QED BY <1>2, <1>5, LineageRoot

\* Of two contexts that a third is under, one is under the other.
LEMMA OneLine ==
  ASSUME NEW t \in Nodes, NEW i \in Lineage[t], NEW j \in Lineage[t]
  PROVE  i \in Lineage[j] \/ j \in Lineage[i]
<1>1. i \in Nodes
  BY LineageSelf
<1> DEFINE C == {l \in Lineage[t] : i \in Lineage[l] \/ l \in Lineage[i]}
<1>2. C \in SUBSET Nodes /\ t \in C
  BY LineageSelf
<1>3. ASSUME NEW l \in C \ {Root} PROVE Up[l] \in C
  <2>1. l \in Others /\ Up[l] \in Lineage[t]
    BY <1>2, LineageSelf DEF Upwards, Others
  <2>2. CASE l \in Lineage[i]
    BY <2>1, <2>2, <1>1, LineageSelf DEF Upwards, Others
  <2>3. CASE i \in Lineage[l] /\ i # l
    BY <2>1, <2>3, LineageUp
  <2>4. CASE i = l
    BY <2>4, <2>1, LineageUp
  <2> QED BY <2>2, <2>3, <2>4
<1>4. Lineage[t] \subseteq C
  BY <1>2, <1>3, LineageLeast DEF Upwards
<1> QED BY <1>4

LEMMA Siblings ==
  ASSUME NEW i \in Others, NEW j \in Others, Up[i] = Up[j], NEW t \in Under(i), t \in Under(j)
  PROVE  i = j
<1>1. t \in Nodes /\ i \in Lineage[t] /\ j \in Lineage[t]
  BY DEF Under
<1>2. i \in Lineage[j] \/ j \in Lineage[i]
  BY <1>1, OneLine
<1> QED BY <1>2, LineageUp, NoCycle

\* A context, what is under it, and its parent.
LEMMA Family ==
  ASSUME NEW k \in Others
  PROVE  /\ k \in Nodes /\ k # Root /\ Up[k] \in Nodes /\ Up[k] # k
         /\ k \in Under(k) /\ Up[k] \notin Under(k)
         /\ \A t \in Under(k) : t \in Under(Up[k]) /\ t # Up[k] /\ t # Root
         /\ Up[k] # Root => Up[Up[k]] # k
<1>1. k \in Nodes /\ k # Root /\ Up[k] \in Nodes /\ k \in Lineage[k] /\ k \notin Lineage[Up[k]] /\ Up[k] \in Lineage[Up[k]]
  BY LineageSelf, LineageUp, NoCycle DEF Others
<1>2. ASSUME NEW t \in Under(k) PROVE t \in Under(Up[k]) /\ t # Root
  <2>1. t \in Nodes /\ k \in Lineage[t]
    BY DEF Under
  <2>2. Up[k] \in Lineage[t]
    BY <2>1, <1>1, LineageSelf DEF Upwards
  <2> QED BY <2>1, <2>2, <1>1, LineageRoot DEF Under
<1>3. Up[k] \notin Under(k)
  BY <1>1 DEF Under
<1>4. ASSUME Up[k] # Root PROVE Up[Up[k]] # k
  BY <1>4, <1>1, LineageUp DEF Others
<1> QED BY <1>1, <1>2, <1>3, <1>4 DEF Under

LEMMA AllUnder == Under(Root) = Nodes
  BY RoutingAssumption DEF RoutingAssumption, Under

LEMMA KidsAre ==
  ASSUME NEW n \in Nodes
  PROVE  /\ \A k \in Nodes : k \in Kids[n] <=> k \in Others /\ Up[k] = n
         /\ Kids[n] \subseteq Others
  BY DEF Kids, Others

-----------------------------------------------------------------------------
Ordinary == {"call", "reply", "dead"}
Msgs == [kind : Ordinary \cup {"add", "del"}, src : Nodes, dst : Nodes, about : Nodes \cup Calls]

\* Who has received w[1], ..., w[i - 1], and knew S before, knows a route to t.
Knows(w, i, t, S) ==
  \E j \in 0..i - 1 : /\ IF j = 0 THEN t \in S ELSE w[j].kind = "add" /\ w[j].about = t
                      /\ \A h \in j + 1..i - 1 : ~(w[h].kind = "del" /\ w[h].about = t)

LEMMA KnowsFirst ==
  ASSUME NEW w, NEW t, NEW S
  PROVE  Knows(w, 1, t, S) <=> t \in S
<1>1. 0..1 - 1 = {0}
  OBVIOUS
<1>2. 0 + 1..1 - 1 = {}
  OBVIOUS
<1> QED BY <1>1, <1>2 DEF Knows

\* Nothing about t in w[a], ..., w[b - 1].
LEMMA KnowsThrough ==
  ASSUME NEW w, NEW t, NEW S, NEW a \in Nat \ {0}, NEW b \in Nat, a <= b,
         \A h \in a..b - 1 : w[h].kind \in {"add", "del"} => w[h].about # t
  PROVE  Knows(w, b, t, S) <=> Knows(w, a, t, S)
<1>1. ASSUME Knows(w, b, t, S) PROVE Knows(w, a, t, S)
  <2>1. PICK j \in 0..b - 1 : /\ IF j = 0 THEN t \in S ELSE w[j].kind = "add" /\ w[j].about = t
                              /\ \A h \in j + 1..b - 1 : ~(w[h].kind = "del" /\ w[h].about = t)
    BY <1>1 DEF Knows
  <2>2. j \in 0..a - 1
    <3>1. SUFFICES ASSUME j >= a PROVE FALSE
      OBVIOUS
    <3>2. j \in a..b - 1 /\ j # 0
      BY <3>1
    <3> QED BY <3>2, <2>1
  <2>3. \A h \in j + 1..a - 1 : h \in j + 1..b - 1
    OBVIOUS
  <2> QED BY <2>1, <2>2, <2>3 DEF Knows
<1>2. ASSUME Knows(w, a, t, S) PROVE Knows(w, b, t, S)
  <2>1. PICK j \in 0..a - 1 : /\ IF j = 0 THEN t \in S ELSE w[j].kind = "add" /\ w[j].about = t
                              /\ \A h \in j + 1..a - 1 : ~(w[h].kind = "del" /\ w[h].about = t)
    BY <1>2 DEF Knows
  <2>2. j \in 0..b - 1
    OBVIOUS
  <2>3. ASSUME NEW h \in j + 1..b - 1 PROVE ~(w[h].kind = "del" /\ w[h].about = t)
    <3>1. h \in j + 1..a - 1 \/ h \in a..b - 1
      OBVIOUS
    <3> QED BY <3>1, <2>1
  <2> QED BY <2>1, <2>2, <2>3 DEF Knows
<1> QED BY <1>1, <1>2

LEMMA KnowsSame ==
  ASSUME NEW v, NEW w, NEW t, NEW S, NEW i \in Nat \ {0}, \A h \in 1..i - 1 : v[h] = w[h]
  PROVE  Knows(v, i, t, S) <=> Knows(w, i, t, S)
<1>1. \A j \in 0..i - 1 : j # 0 => j \in 1..i - 1
  OBVIOUS
<1>2. \A j \in 0..i - 1 : \A h \in j + 1..i - 1 : h \in 1..i - 1
  OBVIOUS
<1>3. ASSUME Knows(w, i, t, S) PROVE Knows(v, i, t, S)
  BY <1>1, <1>2, <1>3 DEF Knows
<1>4. ASSUME Knows(v, i, t, S) PROVE Knows(w, i, t, S)
  BY <1>1, <1>2, <1>4 DEF Knows
<1> QED BY <1>3, <1>4

\* What is known after the message m to who knew S.
Heard(S, m) == CASE m.kind = "add" -> S \cup {m.about}
                 [] m.kind = "del" -> S \ {m.about}
                 [] OTHER -> S

\* v is w without its first message.
LEMMA KnowsBehind ==
  ASSUME NEW v, NEW w, NEW t, NEW S, NEW i \in Nat \ {0}, \A h \in 1..i - 1 : v[h] = w[h + 1]
  PROVE  Knows(v, i, t, Heard(S, w[1])) <=> Knows(w, i + 1, t, S)
<1>0. t \in Heard(S, w[1]) <=> \/ w[1].kind = "add" /\ w[1].about = t
                               \/ t \in S /\ ~(w[1].kind = "del" /\ w[1].about = t)
  BY DEF Heard
<1>1. ASSUME Knows(v, i, t, Heard(S, w[1])) PROVE Knows(w, i + 1, t, S)
  <2>1. PICK j \in 0..i - 1 : /\ IF j = 0 THEN t \in Heard(S, w[1]) ELSE v[j].kind = "add" /\ v[j].about = t
                              /\ \A h \in j + 1..i - 1 : ~(v[h].kind = "del" /\ v[h].about = t)
    BY <1>1 DEF Knows
  <2>2. \A h \in j + 2..(i + 1) - 1 : ~(w[h].kind = "del" /\ w[h].about = t)
    <3>1. \A h \in j + 2..(i + 1) - 1 : h - 1 \in j + 1..i - 1 /\ h - 1 \in 1..i - 1 /\ (h - 1) + 1 = h
      OBVIOUS
    <3> QED BY <3>1, <2>1
  <2>3. CASE j # 0
    <3>1. j \in 1..i - 1 /\ j + 1 \in 0..(i + 1) - 1 /\ j + 1 # 0 /\ (j + 1) + 1 = j + 2
      BY <2>3
    <3>2. w[j + 1].kind = "add" /\ w[j + 1].about = t
      BY <2>1, <2>3, <3>1
    <3> QED BY <3>1, <3>2, <2>2 DEF Knows
  <2>4. CASE j = 0 /\ w[1].kind = "add" /\ w[1].about = t
    <3>1. 1 \in 0..(i + 1) - 1 /\ 1 + 1 = j + 2
      BY <2>4
    <3> QED BY <3>1, <2>2, <2>4 DEF Knows
  <2>5. CASE j = 0 /\ t \in S /\ ~(w[1].kind = "del" /\ w[1].about = t)
    <3>1. 0 \in 0..(i + 1) - 1
      OBVIOUS
    <3>2. \A h \in 0 + 1..(i + 1) - 1 : h = 1 \/ h \in j + 2..(i + 1) - 1
      BY <2>5
    <3> QED BY <3>1, <3>2, <2>2, <2>5 DEF Knows
  <2> QED BY <2>1, <2>3, <2>4, <2>5, <1>0
<1>2. ASSUME Knows(w, i + 1, t, S) PROVE Knows(v, i, t, Heard(S, w[1]))
  <2>1. PICK j \in 0..(i + 1) - 1 : /\ IF j = 0 THEN t \in S ELSE w[j].kind = "add" /\ w[j].about = t
                                    /\ \A h \in j + 1..(i + 1) - 1 : ~(w[h].kind = "del" /\ w[h].about = t)
    BY <1>2 DEF Knows
  <2>2. \A h \in j..i - 1 : h # 0 => ~(v[h].kind = "del" /\ v[h].about = t)
    <3>1. \A h \in j..i - 1 : h # 0 => h + 1 \in j + 1..(i + 1) - 1 /\ h \in 1..i - 1
      OBVIOUS
    <3> QED BY <3>1, <2>1
  <2>3. CASE j \in {0, 1}
    <3>1. t \in Heard(S, w[1])
      <4>1. j = 0 => 1 \in j + 1..(i + 1) - 1
        OBVIOUS
      <4> QED BY <4>1, <2>1, <2>3, <1>0
    <3>2. 0 \in 0..i - 1 /\ \A h \in 0 + 1..i - 1 : h \in j..i - 1 /\ h # 0
      BY <2>3
    <3> QED BY <3>1, <3>2, <2>2 DEF Knows
  <2>4. CASE j \notin {0, 1}
    <3>1. j - 1 \in 0..i - 1 /\ j - 1 # 0 /\ j - 1 \in 1..i - 1 /\ (j - 1) + 1 = j
      BY <2>4
    <3>2. v[j - 1].kind = "add" /\ v[j - 1].about = t
      BY <3>1, <2>1, <2>4
    <3>3. \A h \in (j - 1) + 1..i - 1 : h \in j..i - 1 /\ h # 0
      BY <2>4
    <3> QED BY <3>1, <3>2, <3>3, <2>2 DEF Knows
  <2> QED BY <2>3, <2>4
<1> QED BY <1>1, <1>2

-----------------------------------------------------------------------------
\* The messages w on their way to a context that knew S, from one that knows M: in the end both
\* know the same; the source of each message is known when it arrives, and its target is not
\* unless it is news.
UpOk(w, S, M) ==
  /\ \A t \in Nodes : Knows(w, Len(w) + 1, t, S) <=> t \in M
  /\ \A i \in 1..Len(w) : Knows(w, i, w[i].src, S)
  /\ \A i \in 1..Len(w) : w[i].kind \in Ordinary => ~Knows(w, i, w[i].dst, S)

LEMMA UpEmpty ==
  ASSUME NEW S \in SUBSET Nodes, NEW M \in SUBSET Nodes
  PROVE  UpOk(<<>>, S, M) <=> S = M
<1>1. Len(<<>>) = 0 /\ 1..0 = {} /\ 0 + 1 = 1
  BY EmptySeq
<1>2. \A t \in Nodes : Knows(<<>>, 1, t, S) <=> t \in S
  BY KnowsFirst
<1>3. UpOk(<<>>, S, M) <=> \A t \in Nodes : t \in S <=> t \in M
  BY <1>1, <1>2 DEF UpOk
<1> QED BY <1>3

LEMMA UpHead ==
  ASSUME NEW w \in Seq(Msgs), w # <<>>, NEW S, NEW M, UpOk(w, S, M)
  PROVE  /\ w[1].src \in S
         /\ w[1].kind \in Ordinary => w[1].dst \notin S
<1>1. 1 \in 1..Len(w)
  BY EmptySeq, LenProperties
<1>2. Knows(w, 1, w[1].src, S) /\ (w[1].kind \in Ordinary => ~Knows(w, 1, w[1].dst, S))
  BY <1>1 DEF UpOk
<1> QED BY <1>2, KnowsFirst

LEMMA UpTail ==
  ASSUME NEW w \in Seq(Msgs), w # <<>>, NEW S, NEW M, UpOk(w, S, M)
  PROVE  UpOk(Tail(w), Heard(S, w[1]), M)
<1> DEFINE v == Tail(w)
           n == Len(v)
<1>1. n \in Nat /\ Len(w) = n + 1 /\ \A h \in 1..n : v[h] = w[h + 1]
  BY HeadTailProperties, LenProperties, EmptySeq
<1>2. (\A h \in 1..n : h + 1 \in 1..Len(w)) /\ (n + 1) + 1 = Len(w) + 1 /\ n + 1 \in Nat \ {0}
  BY <1>1
<1> HIDE DEF v, n
<1>3. ASSUME NEW i \in 1..n + 1, NEW t PROVE Knows(v, i, t, Heard(S, w[1])) <=> Knows(w, i + 1, t, S)
  <2>1. i \in Nat \ {0} /\ \A h \in 1..i - 1 : h \in 1..n
    BY <1>1
  <2> QED BY <2>1, <1>1, KnowsBehind
<1>4. \A t \in Nodes : Knows(v, n + 1, t, Heard(S, w[1])) <=> t \in M
  <2>1. n + 1 \in 1..n + 1
    BY <1>1
  <2> QED BY <2>1, <1>2, <1>3 DEF UpOk
<1>5. ASSUME NEW i \in 1..n PROVE /\ Knows(v, i, v[i].src, Heard(S, w[1]))
                                  /\ v[i].kind \in Ordinary => ~Knows(v, i, v[i].dst, Heard(S, w[1]))
  <2>1. i \in 1..n + 1 /\ i + 1 \in 1..Len(w) /\ v[i] = w[i + 1]
    BY <1>1, <1>2
  <2> QED BY <2>1, <1>3 DEF UpOk
<1> QED BY <1>4, <1>5 DEF UpOk, n, v

\* q lists the members of T.
Lists(q, T) == q \in Seq(T) /\ \A m \in T : \E i \in 1..Len(q) : q[i] = m

\* v is w, of length n, and behind it q, of length k.
Joined(v, n, k, w, q, S, M) ==
  /\ v \in Seq(Msgs) /\ Len(v) = n + k /\ n \in Nat /\ k \in Nat
  /\ \A h \in 1..n : v[h] = w[h]
  /\ \A h \in 1..k : v[n + h] = q[h]
  /\ \A t \in Nodes : Knows(v, n + 1, t, S) <=> t \in M
  /\ \A i \in 1..n : /\ Knows(v, i, v[i].src, S)
                     /\ v[i].kind \in Ordinary => ~Knows(v, i, v[i].dst, S)

LEMMA UpJoin ==
  ASSUME NEW w \in Seq(Msgs), NEW q \in Seq(Msgs), NEW S, NEW M, UpOk(w, S, M),
         NEW v, v = w \o q, NEW n, n = Len(w), NEW k, k = Len(q)
  PROVE  Joined(v, n, k, w, q, S, M)
<1>1. v \in Seq(Msgs) /\ Len(v) = n + k /\ n \in Nat /\ k \in Nat /\ (\A h \in 1..n : v[h] = w[h])
  BY Concat
<1>2. \A h \in 1..k : v[n + h] = q[h]
  <2>1. ASSUME NEW h \in 1..k PROVE v[n + h] = q[h]
    <3>1. n + h \in 1..Len(w) + Len(q) /\ n + h > Len(w) /\ (n + h) - Len(w) = h
      BY <1>1
    <3> QED BY <3>1, Concat
  <2> QED BY <2>1
<1>3. ASSUME NEW i \in 1..n + 1, NEW t PROVE Knows(v, i, t, S) <=> Knows(w, i, t, S)
  <2>1. i \in Nat \ {0} /\ \A h \in 1..i - 1 : h \in 1..n
    BY <1>1
  <2> QED BY <2>1, <1>1, KnowsSame
<1>4. \A t \in Nodes : Knows(v, n + 1, t, S) <=> t \in M
  <2>1. n + 1 \in 1..n + 1
    BY <1>1
  <2> QED BY <2>1, <1>3 DEF UpOk
<1>5. \A i \in 1..n : i \in 1..n + 1
  BY <1>1
<1>6. \A i \in 1..n : /\ Knows(v, i, v[i].src, S)
                      /\ v[i].kind \in Ordinary => ~Knows(v, i, v[i].dst, S)
  BY <1>1, <1>3, <1>5 DEF UpOk
<1> QED BY <1>1, <1>2, <1>4, <1>6 DEF Joined

\* A message of one who is known to one who is not.
LEMMA UpOrdinary ==
  ASSUME NEW w \in Seq(Msgs), NEW S, NEW M, UpOk(w, S, M), NEW m \in Msgs, NEW q, Lists(q, {m}),
         m.kind \in Ordinary, m.src \in M, m.dst \notin M
  PROVE  w \o q \in Seq(Msgs) /\ UpOk(w \o q, S, M)
<1> DEFINE v == w \o q
           n == Len(w)
           k == Len(q)
<1>0. q \in Seq(Msgs) /\ m.src \in Nodes /\ m.dst \in Nodes /\ \A h \in 1..k : q[h] = m
  <2>1. q \in Seq({m})
    BY DEF Lists
  <2>2. \A h \in 1..k : q[h] = m
    BY <2>1, ElementOfSeq
  <2>3. q \in Seq(Msgs)
    BY <2>1
  <2> QED BY <2>2, <2>3 DEF Msgs
<1>0b. v = w \o q /\ n = Len(w) /\ k = Len(q)
  OBVIOUS
<1> HIDE DEF v, n, k
<1>1. /\ v \in Seq(Msgs) /\ Len(v) = n + k /\ n \in Nat /\ k \in Nat
      /\ \A h \in 1..n : v[h] = w[h]
      /\ \A h \in 1..k : v[n + h] = q[h]
      /\ \A t \in Nodes : Knows(v, n + 1, t, S) <=> t \in M
      /\ \A i \in 1..n : /\ Knows(v, i, v[i].src, S)
                         /\ v[i].kind \in Ordinary => ~Knows(v, i, v[i].dst, S)
  <2>1. Joined(v, n, k, w, q, S, M)
    BY <1>0, <1>0b, UpJoin
  <2> QED BY <2>1 DEF Joined
<1>2. \A h \in n + 1..n + k : v[h] = m
  <2>1. \A h \in n + 1..n + k : h - n \in 1..k /\ n + (h - n) = h
    BY <1>1
  <2> QED BY <2>1, <1>0, <1>1
<1>3. ASSUME NEW i \in n + 1..(n + k) + 1, NEW t \in Nodes PROVE Knows(v, i, t, S) <=> t \in M
  <2>1. n + 1 \in Nat \ {0} /\ i \in Nat /\ n + 1 <= i /\ \A h \in n + 1..i - 1 : h \in n + 1..n + k
    BY <1>1
  <2>2. \A h \in n + 1..i - 1 : v[h].kind \in Ordinary
    BY <2>1, <1>2
  <2>3. \A h \in n + 1..i - 1 : v[h].kind \in {"add", "del"} => v[h].about # t
    BY <2>2 DEF Ordinary
  <2>4. Knows(v, i, t, S) <=> Knows(v, n + 1, t, S)
    BY <2>1, <2>3, KnowsThrough
  <2> QED BY <2>4, <1>1
<1>4. ASSUME NEW i \in n + 1..n + k PROVE /\ Knows(v, i, v[i].src, S)
                                          /\ v[i].kind \in Ordinary => ~Knows(v, i, v[i].dst, S)
  <2>1. i \in n + 1..(n + k) + 1
    BY <1>1
  <2> QED BY <2>1, <1>0, <1>2, <1>3
<1>5. (n + k) + 1 \in n + 1..(n + k) + 1 /\ \A i \in 1..n + k : i \in 1..n \/ i \in n + 1..n + k
  BY <1>1
<1>6. \A t \in Nodes : Knows(v, Len(v) + 1, t, S) <=> t \in M
  BY <1>1, <1>3, <1>5
<1>7. \A i \in 1..Len(v) : /\ Knows(v, i, v[i].src, S)
                           /\ v[i].kind \in Ordinary => ~Knows(v, i, v[i].dst, S)
  BY <1>1, <1>4, <1>5
<1>8. UpOk(v, S, M)
  BY <1>6, <1>7 DEF UpOk
<1> QED BY <1>1, <1>8 DEF v

\* What is known once news of D is spread.
Changed(M, kind, D) == IF kind = "add" THEN M \cup D ELSE M \ D
NewsOf(kind, n, p, D) == {Message(kind, n, p, t) : t \in D}

LEMMA UpNewsOk ==
  ASSUME NEW w \in Seq(Msgs), NEW S, NEW M, UpOk(w, S, M), NEW kind \in {"add", "del"},
         NEW n0 \in Nodes, NEW p \in Nodes, NEW D \in SUBSET Nodes, n0 \in M, n0 \notin D,
         NEW q, Lists(q, NewsOf(kind, n0, p, D))
  PROVE  w \o q \in Seq(Msgs) /\ UpOk(w \o q, S, Changed(M, kind, D))
<1> DEFINE v == w \o q
           n == Len(w)
           k == Len(q)
<1>a. \A m \in NewsOf(kind, n0, p, D) : m \in Msgs /\ m.kind = kind /\ m.src = n0 /\ m.about \in D
  BY DEF NewsOf, Message, Msgs
<1>0. q \in Seq(Msgs) /\ \A h \in 1..k : q[h].kind = kind /\ q[h].src = n0 /\ q[h].about \in D
  <2>1. q \in Seq(NewsOf(kind, n0, p, D))
    BY DEF Lists
  <2>2. \A h \in 1..k : q[h] \in NewsOf(kind, n0, p, D)
    BY <2>1, ElementOfSeq
  <2> QED BY <2>1, <2>2, <1>a
<1>0a. \A t \in D : \E h \in 1..k : q[h].about = t
  <2>1. ASSUME NEW t \in D PROVE \E h \in 1..k : q[h].about = t
    <3>1. Message(kind, n0, p, t) \in NewsOf(kind, n0, p, D) /\ Message(kind, n0, p, t).about = t
      BY DEF NewsOf, Message
    <3> QED BY <3>1 DEF Lists
  <2> QED BY <2>1
<1>0b. v = w \o q /\ n = Len(w) /\ k = Len(q)
  OBVIOUS
<1> HIDE DEF v, n, k
<1>1. /\ v \in Seq(Msgs) /\ Len(v) = n + k /\ n \in Nat /\ k \in Nat
      /\ \A h \in 1..n : v[h] = w[h]
      /\ \A h \in 1..k : v[n + h] = q[h]
      /\ \A t \in Nodes : Knows(v, n + 1, t, S) <=> t \in M
      /\ \A i \in 1..n : /\ Knows(v, i, v[i].src, S)
                         /\ v[i].kind \in Ordinary => ~Knows(v, i, v[i].dst, S)
  <2>1. Joined(v, n, k, w, q, S, M)
    BY <1>0, <1>0b, UpJoin
  <2> QED BY <2>1 DEF Joined
<1>2. \A h \in n + 1..n + k : v[h].kind = kind /\ v[h].src = n0 /\ v[h].about \in D
  <2>1. ASSUME NEW h \in n + 1..n + k PROVE \E l \in 1..k : v[h] = q[l]
    <3>1. h - n \in 1..k /\ n + (h - n) = h
      BY <1>1
    <3> QED BY <3>1, <1>1
  <2> QED BY <2>1, <1>0
<1>3. ASSUME NEW i \in n + 1..(n + k) + 1, NEW t \in Nodes, t \notin D PROVE Knows(v, i, t, S) <=> t \in M
  <2>1. n + 1 \in Nat \ {0} /\ i \in Nat /\ n + 1 <= i /\ \A h \in n + 1..i - 1 : h \in n + 1..n + k
    BY <1>1
  <2>2. \A h \in n + 1..i - 1 : v[h].about # t
    BY <2>1, <1>2, <1>3
  <2>4. Knows(v, i, t, S) <=> Knows(v, n + 1, t, S)
    BY <2>1, <2>2, KnowsThrough
  <2> QED BY <2>4, <1>1
<1>4. ASSUME NEW i \in n + 1..n + k PROVE /\ Knows(v, i, v[i].src, S)
                                          /\ v[i].kind \in Ordinary => ~Knows(v, i, v[i].dst, S)
  <2>1. i \in n + 1..(n + k) + 1
    BY <1>1
  <2>2. v[i].kind \notin Ordinary
    BY <1>2 DEF Ordinary
  <2> QED BY <2>1, <2>2, <1>2, <1>3
<1>5. (n + k) + 1 \in n + 1..(n + k) + 1 /\ \A i \in 1..n + k : i \in 1..n \/ i \in n + 1..n + k
  BY <1>1
<1>6. ASSUME NEW t \in D PROVE Knows(v, (n + k) + 1, t, S) <=> kind = "add"
  <2>1. PICK h \in 1..k : q[h].about = t
    BY <1>0a
  <2>2. n + h \in 0..(n + k) /\ n + h # 0 /\ n + h \in n + 1..n + k /\ v[n + h].about = t /\ v[n + h].kind = kind
    BY <2>1, <1>1, <1>2
  <2>3. CASE kind = "add"
    <3>1. \A l \in (n + h) + 1..n + k : l \in n + 1..n + k
      BY <1>1
    <3>2. \A l \in (n + h) + 1..n + k : v[l].kind # "del"
      BY <3>1, <1>2, <2>3
    <3>3. ((n + k) + 1) - 1 = n + k
      BY <1>1
    <3> QED BY <3>2, <3>3, <2>2, <2>3 DEF Knows
  <2>4. CASE kind = "del"
    <3>1. SUFFICES ASSUME Knows(v, (n + k) + 1, t, S) PROVE FALSE
      BY <2>4
    <3>2. ((n + k) + 1) - 1 = n + k
      BY <1>1
    <3>3. PICK j \in 0..n + k : /\ IF j = 0 THEN t \in S ELSE v[j].kind = "add" /\ v[j].about = t
                                /\ \A l \in j + 1..n + k : ~(v[l].kind = "del" /\ v[l].about = t)
      BY <3>1, <3>2 DEF Knows
    <3>4. n + h \notin j + 1..n + k
      BY <3>3, <2>2, <2>4
    <3>5. j \in n + 1..n + k /\ j # 0
      BY <3>4, <1>1
    <3> QED BY <3>5, <3>3, <1>2, <2>4
  <2> QED BY <2>3, <2>4
<1>7. \A t \in Nodes : Knows(v, Len(v) + 1, t, S) <=> t \in Changed(M, kind, D)
  BY <1>1, <1>3, <1>5, <1>6 DEF Changed
<1>8. \A i \in 1..Len(v) : /\ Knows(v, i, v[i].src, S)
                           /\ v[i].kind \in Ordinary => ~Knows(v, i, v[i].dst, S)
  BY <1>1, <1>4, <1>5
<1>9. UpOk(v, S, Changed(M, kind, D))
  BY <1>7, <1>8 DEF UpOk
<1> QED BY <1>1, <1>9 DEF v

-----------------------------------------------------------------------------
LEMMA SetToSeqLists ==
  ASSUME NEW T, IsFiniteSet(T)
  PROVE  Lists(SetToSeq(T), T)
<1> DEFINE n == Cardinality(T)
           g == SetToSeq(T)
<1>1. n \in Nat /\ \E f \in [1..n -> T] : IsInjective(f)
  BY FS_CardinalityType DEF ExistsBijection, Bijection, Injection
<1>2. g \in [1..n -> T] /\ IsInjective(g)
  BY <1>1 DEF SetToSeq
<1>3. g \in Injection(1..n, T)
  BY <1>2 DEF Injection
<1>4. IsFiniteSet(1..n) /\ Cardinality(1..n) = n
  <2>1. IsFiniteSet(1..n) /\ Cardinality(1..n) = IF 1 > n THEN 0 ELSE n - 1 + 1
    BY <1>1, FS_Interval
  <2>2. (IF 1 > n THEN 0 ELSE n - 1 + 1) = n
    BY <1>1
  <2> QED BY <2>1, <2>2
<1>5. g \in Surjection(1..n, T)
  BY <1>3, <1>4, FS_Injection
<1>6. \A m \in T : \E i \in 1..n : g[i] = m
  BY <1>5 DEF Surjection
<1> HIDE DEF g, n
<1>7. g \in Seq(T) /\ Len(g) = n
  BY <1>1, <1>2
<1> QED BY <1>6, <1>7 DEF Lists, g

\* What sends, a set of <<link, message>>, puts on l.
NewIn(sends, l) == {s[2] : s \in {s \in sends : s[1] = l}}

LEMMA NewFinite ==
  ASSUME NEW sends, IsFiniteSet(sends), NEW l
  PROVE  IsFiniteSet(NewIn(sends, l))
<1> DEFINE X == {s \in sends : s[1] = l}
           f == [s \in X |-> s[2]]
<1>1. IsFiniteSet(X)
  BY FS_Subset
<1>2. f \in Surjection(X, NewIn(sends, l))
  BY DEF Surjection, NewIn
<1> QED BY <1>1, <1>2, FS_Surjection

LEMMA SentIs ==
  ASSUME NEW B, NEW sends, IsFiniteSet(sends), NEW l \in Links, NEW T, B[l] \in Seq(T)
  PROVE  \E q : Lists(q, NewIn(sends, l)) /\ Sent(B, sends)[l] = B[l] \o q
<1> DEFINE new == {s \in sends : s[1] = l}
<1>1. Sent(B, sends)[l] = IF new = {} THEN B[l] ELSE B[l] \o SetToSeq(NewIn(sends, l))
  BY DEF Sent, NewIn
<1>2. CASE new = {}
  <2>1. NewIn(sends, l) = {} /\ Sent(B, sends)[l] = B[l]
    BY <1>1, <1>2 DEF NewIn
  <2>2. B[l] \o <<>> = B[l]
    BY ConcatEmptySeq
  <2>3. Lists(<<>>, {})
    BY EmptySeq DEF Lists
  <2> QED BY <2>1, <2>2, <2>3
<1>3. CASE new # {}
  <2>1. Lists(SetToSeq(NewIn(sends, l)), NewIn(sends, l))
    BY NewFinite, SetToSeqLists
  <2> QED BY <1>1, <1>3, <2>1
<1> QED BY <1>2, <1>3

\* The messages a context k and those under it send up, and those they get from above.
UpMsgs(k) ==
  {m \in Msgs : /\ m.src \in Under(k)
                /\ \/ m.kind \in Ordinary /\ m.about \in Calls
                   \/ m.kind \in {"add", "del"} /\ m.dst = Up[k] /\ m.about \in Under(k) \ {k}}
DownMsgs(k) ==
  {m \in Msgs : /\ m.src \notin Under(k) /\ m.dst \in Under(k)
                /\ \/ m.kind \in Ordinary /\ m.about \in Calls
                   \/ m.kind = "del" /\ m.dst = k /\ m.about \in Nodes}

\* The stream w from k to its parent, which knows S, when k has routes to M.
UpLink(k, w, S, M) == w \in Seq(UpMsgs(k)) /\ (k \in S => UpOk(w, S, M))

\* k sends T to its parent when it knew M, and knows M2 now.
Push(k, T, M, M2) ==
  \/ T = {} /\ M2 = M
  \/ \E m \in UpMsgs(k) : T = {m} /\ m.kind \in Ordinary /\ m.src \in M /\ m.dst \notin M /\ M2 = M
  \/ \E kind \in {"add", "del"} : \E D \in SUBSET (Under(k) \ {k}) :
        T = NewsOf(kind, k, Up[k], D) /\ k \in M /\ M2 = Changed(M, kind, D)

LEMMA NewsTyped ==
  ASSUME NEW k \in Others, NEW kind \in {"add", "del"}, NEW D \in SUBSET (Under(k) \ {k})
  PROVE  NewsOf(kind, k, Up[k], D) \subseteq UpMsgs(k) /\ D \in SUBSET Nodes
<1>1. k \in Nodes /\ Up[k] \in Nodes /\ k \in Under(k) /\ Under(k) \subseteq Nodes
  BY Family DEF Under
<1>2. ASSUME NEW t \in D PROVE Message(kind, k, Up[k], t) \in UpMsgs(k)
  BY <1>1 DEF Message, UpMsgs, Msgs
<1> QED BY <1>1, <1>2 DEF NewsOf

LEMMA PushKeeps ==
  ASSUME NEW k \in Others, NEW w, NEW S, NEW M, NEW M2, NEW T, NEW q,
         UpLink(k, w, S, M), Push(k, T, M, M2), Lists(q, T)
  PROVE  UpLink(k, w \o q, S, M2)
<1>0. UpMsgs(k) \subseteq Msgs
  BY DEF UpMsgs
<1>1. w \in Seq(UpMsgs(k)) /\ w \in Seq(Msgs) /\ (k \in S => UpOk(w, S, M))
  BY <1>0 DEF UpLink
<1>2. CASE T = {} /\ M2 = M
  <2>1. q = <<>>
    BY <1>2, EmptySeq DEF Lists
  <2>2. w \o q = w
    BY <2>1, <1>1, ConcatEmptySeq
  <2> QED BY <2>2, <1>2
<1>3. ASSUME NEW m \in UpMsgs(k), T = {m}, m.kind \in Ordinary, m.src \in M, m.dst \notin M, M2 = M
      PROVE  UpLink(k, w \o q, S, M2)
  <2>1. q \in Seq(UpMsgs(k))
    BY <1>3 DEF Lists
  <2>2. w \o q \in Seq(UpMsgs(k))
    BY <2>1, <1>1, ConcatProperties
  <2>3. ASSUME k \in S PROVE UpOk(w \o q, S, M2)
    BY <1>0, <1>1, <1>3, <2>3, UpOrdinary
  <2> QED BY <2>2, <2>3 DEF UpLink
<1>4. ASSUME NEW kind \in {"add", "del"}, NEW D \in SUBSET (Under(k) \ {k}),
             T = NewsOf(kind, k, Up[k], D), k \in M, M2 = Changed(M, kind, D)
      PROVE  UpLink(k, w \o q, S, M2)
  <2>1. T \subseteq UpMsgs(k) /\ D \in SUBSET Nodes /\ k \notin D /\ k \in Nodes /\ Up[k] \in Nodes
    BY <1>4, NewsTyped, Family
  <2>2. q \in Seq(UpMsgs(k))
    BY <2>1 DEF Lists
  <2>3. w \o q \in Seq(UpMsgs(k))
    BY <2>2, <1>1, ConcatProperties
  <2>4. ASSUME k \in S PROVE UpOk(w \o q, S, M2)
    BY <1>1, <1>4, <2>1, <2>4, UpNewsOk
  <2> QED BY <2>3, <2>4 DEF UpLink
<1> QED BY <1>2, <1>3, <1>4 DEF Push

-----------------------------------------------------------------------------
LEMMA LinksAre ==
  /\ \A k \in Others : <<k, Up[k]>> \in Links /\ <<Up[k], k>> \in Links
  /\ \A l \in Links : \E k \in Others : l = <<k, Up[k]>> \/ l = <<Up[k], k>>
<1>0. NoWay \notin Nodes
  BY RoutingAssumption DEF RoutingAssumption
<1>1. ASSUME NEW k \in Others PROVE <<k, Up[k]>> \in Links /\ <<Up[k], k>> \in Links
  <2>1. k \in Nodes /\ k # Root /\ Up[k] \in Nodes
    BY Family
  <2> QED BY <2>1 DEF Links, Parent
<1>2. ASSUME NEW l \in Links PROVE \E k \in Others : l = <<k, Up[k]>> \/ l = <<Up[k], k>>
  <2>1. l \in Nodes \X Nodes /\ l = <<l[1], l[2]>> /\ (l[1] = Parent(l[2]) \/ l[2] = Parent(l[1]))
    BY DEF Links
  <2>2. CASE l[1] = Parent(l[2])
    <3>1. l[2] \in Others /\ l[1] = Up[l[2]]
      BY <2>1, <2>2, <1>0 DEF Parent, Others
    <3> QED BY <3>1, <2>1
  <2>3. CASE l[2] = Parent(l[1])
    <3>1. l[1] \in Others /\ l[2] = Up[l[1]]
      BY <2>1, <2>3, <1>0 DEF Parent, Others
    <3> QED BY <3>1, <2>1
  <2> QED BY <2>1, <2>2, <2>3
<1> QED BY <1>1, <1>2

\* The contexts k has routes to below it, and itself.
Mine(H, k) == {k} \cup UNION {H[<<k, j>>] : j \in Kids[k]}

LEMMA InMine ==
  ASSUME NEW H, NEW k, NEW t
  PROVE  t \in Mine(H, k) <=> t = k \/ \E j \in Kids[k] : t \in H[<<k, j>>]
BY DEF Mine

LEMMA SameMine ==
  ASSUME NEW k, NEW H, NEW H2, \A j \in Kids[k] : H2[<<k, j>>] = H[<<k, j>>]
  PROVE  Mine(H2, k) = Mine(H, k)
BY DEF Mine

WiresOk(W, H, J) ==
  /\ W \in [Links -> Seq(Msgs)]
  /\ \A k \in Others : /\ UpLink(k, W[<<k, Up[k]>>], H[<<Up[k], k>>], Mine(H, k))
                       /\ W[<<Up[k], k>>] \in Seq(DownMsgs(k))
                       /\ k \notin J => W[<<k, Up[k]>>] = <<>>

\* The same, but what n still has to tell its parent: it knew M before.
AllBut(n, M, B, H, J) ==
  /\ B = [l \in Links |-> B[l]]
  /\ \A k \in Others : /\ UpLink(k, B[<<k, Up[k]>>], H[<<Up[k], k>>], IF k = n THEN M ELSE Mine(H, k))
                       /\ B[<<Up[k], k>>] \in Seq(DownMsgs(k))
                       /\ k \notin J => B[<<k, Up[k]>>] = <<>>

\* What n sends.
SendsOk(n, sends, M, M2) ==
  /\ IsFiniteSet(sends)
  /\ \A s \in sends : s[1][1] = n
  /\ \A k \in Others : Up[k] = n => NewIn(sends, <<n, k>>) \subseteq DownMsgs(k)
  /\ n # Root => Push(n, NewIn(sends, <<n, Up[n]>>), M, M2)

LEMMA NothingNew ==
  ASSUME NEW n, NEW sends, \A s \in sends : s[1][1] = n, NEW l, l[1] # n
  PROVE  NewIn(sends, l) = {}
BY DEF NewIn

LEMMA SendWires ==
  ASSUME NEW n \in Nodes, NEW M, NEW B, NEW H, NEW J, NEW sends, AllBut(n, M, B, H, J),
         SendsOk(n, sends, M, Mine(H, n)), n \in J
  PROVE  WiresOk(Sent(B, sends), H, J)
<1> DEFINE W == Sent(B, sends)
<1>0. IsFiniteSet(sends) /\ \A s \in sends : s[1][1] = n
  BY DEF SendsOk
<1>1. ASSUME NEW k \in Others
      PROVE  UpLink(k, W[<<k, Up[k]>>], H[<<Up[k], k>>], Mine(H, k)) /\ (k \notin J => W[<<k, Up[k]>>] = <<>>)
  <2>1. <<k, Up[k]>> \in Links /\ k \in Nodes /\ k # Root /\ <<k, Up[k]>>[1] = k
    BY LinksAre, Family
  <2>2. B[<<k, Up[k]>>] \in Seq(UpMsgs(k))
    BY DEF AllBut, UpLink
  <2>3. PICK q : Lists(q, NewIn(sends, <<k, Up[k]>>)) /\ W[<<k, Up[k]>>] = B[<<k, Up[k]>>] \o q
    BY <1>0, <2>1, <2>2, SentIs
  <2>4. CASE k = n
    <3>1. UpLink(k, B[<<k, Up[k]>>], H[<<Up[k], k>>], M)
      BY <2>4 DEF AllBut
    <3>2. Push(k, NewIn(sends, <<k, Up[k]>>), M, Mine(H, k))
      BY <2>1, <2>4 DEF SendsOk
    <3> QED BY <3>1, <3>2, <2>3, <2>4, PushKeeps
  <2>5. CASE k # n
    <3>1. NewIn(sends, <<k, Up[k]>>) = {}
      BY <1>0, <2>1, <2>5, NothingNew
    <3>2. q = <<>>
      <4>1. q \in Seq({})
        BY <2>3, <3>1 DEF Lists
      <4> QED BY <4>1, EmptySeq
    <3>3. W[<<k, Up[k]>>] = B[<<k, Up[k]>>]
      BY <2>2, <2>3, <3>2, ConcatEmptySeq
    <3> QED BY <3>3, <2>5 DEF AllBut
  <2> QED BY <2>4, <2>5
<1>2. ASSUME NEW k \in Others PROVE W[<<Up[k], k>>] \in Seq(DownMsgs(k))
  <2>1. <<Up[k], k>> \in Links /\ <<Up[k], k>>[1] = Up[k]
    BY LinksAre
  <2>2. B[<<Up[k], k>>] \in Seq(DownMsgs(k))
    BY DEF AllBut
  <2>3. PICK q : Lists(q, NewIn(sends, <<Up[k], k>>)) /\ W[<<Up[k], k>>] = B[<<Up[k], k>>] \o q
    <3> DEFINE l == <<Up[k], k>>
    <3>1. l \in Links /\ B[l] \in Seq(DownMsgs(k))
      BY <2>1, <2>2
    <3> HIDE DEF l, W
    <3>2. \E q : Lists(q, NewIn(sends, l)) /\ Sent(B, sends)[l] = B[l] \o q
      BY <1>0, <3>1, SentIs
    <3> QED BY <3>2 DEF l, W
  <2>4. NewIn(sends, <<Up[k], k>>) \subseteq DownMsgs(k)
    <3>1. CASE Up[k] = n
      BY <3>1 DEF SendsOk
    <3>2. CASE Up[k] # n
      BY <3>2, <2>1, <1>0, NothingNew
    <3> QED BY <3>1, <3>2
  <2>5. q \in Seq(DownMsgs(k))
    <3>1. q \in Seq(NewIn(sends, <<Up[k], k>>))
      BY <2>3 DEF Lists
    <3> QED BY <3>1, <2>4
  <2> QED BY <2>2, <2>3, <2>5, ConcatProperties
<1>3. \A k \in Others : UpMsgs(k) \subseteq Msgs /\ DownMsgs(k) \subseteq Msgs
  BY DEF UpMsgs, DownMsgs
<1>4. ASSUME NEW l \in Links PROVE W[l] \in Seq(Msgs)
  <2>1. PICK k \in Others : l = <<k, Up[k]>> \/ l = <<Up[k], k>>
    BY LinksAre
  <2>2. W[<<k, Up[k]>>] \in Seq(UpMsgs(k)) /\ W[<<Up[k], k>>] \in Seq(DownMsgs(k))
    BY <1>1, <1>2 DEF UpLink
  <2>3. W[<<k, Up[k]>>] \in Seq(Msgs) /\ W[<<Up[k], k>>] \in Seq(Msgs)
    BY <2>2, <1>3
  <2> QED BY <2>1, <2>3
<1>5. W \in [Links -> Seq(Msgs)]
  <2>1. W = [l \in Links |-> W[l]]
    BY DEF Sent
  <2> HIDE DEF W
  <2> QED BY <2>1, <1>4
<1> QED BY <1>1, <1>2, <1>5 DEF WiresOk

LEMMA SendNone ==
  ASSUME NEW n, NEW M
  PROVE  SendsOk(n, {}, M, M)
BY FS_EmptySet DEF SendsOk, NewIn, Push

\* One ordinary message: to the child it is for someone under, or up.
LEMMA SendOne ==
  ASSUME NEW n \in Nodes, NEW M, NEW m \in Msgs, NEW out, m.kind \in Ordinary,
         \/ out \in Others /\ Up[out] = n /\ m \in DownMsgs(out)
         \/ n # Root /\ out = Up[n] /\ m \in UpMsgs(n) /\ m.src \in M /\ m.dst \notin M
  PROVE  SendsOk(n, {<<<<n, out>>, m>>}, M, M)
<1> DEFINE sends == {<<<<n, out>>, m>>}
<1>1. IsFiniteSet(sends) /\ \A s \in sends : s[1][1] = n
  <2>1. IsFiniteSet(sends)
    BY FS_Singleton
  <2>2. \A s \in sends : s[1][1] = n
    OBVIOUS
  <2> QED BY <2>1, <2>2
<1>2. \A j : NewIn(sends, <<n, j>>) = IF j = out THEN {m} ELSE {}
  <2>1. ASSUME NEW j PROVE NewIn(sends, <<n, j>>) = IF j = out THEN {m} ELSE {}
    <3>1. CASE j = out
      <4>1. {s \in sends : s[1] = <<n, j>>} = sends
        BY <3>1
      <4>2. {s[2] : s \in sends} = {m}
        OBVIOUS
      <4> QED BY <4>1, <4>2, <3>1 DEF NewIn
    <3>2. CASE j # out
      <4>1. \A s \in sends : s[1] # <<n, j>>
        BY <3>2
      <4> QED BY <4>1, <3>2 DEF NewIn
    <3> QED BY <3>1, <3>2
  <2> QED BY <2>1
<1> HIDE DEF sends
<1>3. CASE out \in Others /\ Up[out] = n /\ m \in DownMsgs(out)
  <2>1. n # Root => Up[n] # out
    BY <1>3, Family
  <2>2. n # Root => Push(n, NewIn(sends, <<n, Up[n]>>), M, M)
    BY <2>1, <1>2 DEF Push
  <2>3. \A k \in Others : NewIn(sends, <<n, k>>) \subseteq DownMsgs(k)
    BY <1>2, <1>3
  <2> QED BY <1>1, <2>2, <2>3 DEF SendsOk, sends
<1>4. CASE n # Root /\ out = Up[n] /\ m \in UpMsgs(n) /\ m.src \in M /\ m.dst \notin M
  <2>1. n \in Others
    BY <1>4 DEF Others
  <2>2. \A k \in Others : Up[k] = n => k # out
    BY <1>4, <2>1, Family
  <2>3. \A k \in Others : Up[k] = n => NewIn(sends, <<n, k>>) \subseteq DownMsgs(k)
    BY <2>2, <1>2
  <2>4. Push(n, NewIn(sends, <<n, Up[n]>>), M, M)
    BY <1>2, <1>4 DEF Push
  <2> QED BY <1>1, <2>3, <2>4 DEF SendsOk, sends
<1> QED BY <1>3, <1>4

\* What n may tell its children.
ToKids(n) == {s \in (Links \X Msgs) :
                \E k \in Others : \E t \in Nodes : Up[k] = n /\ s = <<<<n, k>>, Message("del", n, k, t)>>}
NewsFrom(n, kind) == {<<<<n, p>>, Message(kind, n, p, t)>> : p \in Nodes, t \in Nodes}

LEMMA NewsFinite ==
  ASSUME NEW n, NEW kind, NEW X \in SUBSET NewsFrom(n, kind)
  PROVE  IsFiniteSet(X)
<1> DEFINE P == Nodes \X Nodes
           f == [pt \in P |-> <<<<n, pt[1]>>, Message(kind, n, pt[1], pt[2])>>]
<1>1. IsFiniteSet(P)
  BY FS_Product, RoutingAssumption DEF RoutingAssumption
<1>2. f \in Surjection(P, NewsFrom(n, kind))
  <2>1. \A pt \in P : pt[1] \in Nodes /\ pt[2] \in Nodes
    OBVIOUS
  <2>2. f \in [P -> NewsFrom(n, kind)]
    BY <2>1 DEF NewsFrom
  <2>3. ASSUME NEW y \in NewsFrom(n, kind) PROVE \E pt \in P : f[pt] = y
    <3>1. PICK p \in Nodes, t \in Nodes : y = <<<<n, p>>, Message(kind, n, p, t)>>
      BY DEF NewsFrom
    <3>2. <<p, t>> \in P /\ f[<<p, t>>] = y
      BY <3>1
    <3> QED BY <3>2
  <2> QED BY <2>2, <2>3 DEF Surjection
<1>3. IsFiniteSet(NewsFrom(n, kind))
  BY <1>1, <1>2, FS_Surjection
<1> QED BY <1>3, FS_Subset

LEMMA SendNews ==
  ASSUME NEW n \in Nodes, NEW M, NEW kind \in {"add", "del"}, NEW D \in SUBSET (Under(n) \ {n}), n \in M,
         NEW X \in SUBSET ToKids(n)
  PROVE  SendsOk(n, UpNews(n, kind, D) \cup X, M, Changed(M, kind, D))
<1> DEFINE U == UpNews(n, kind, D)
           p == Up[n]
           mine == {<<<<n, p>>, Message(kind, n, p, t)>> : t \in D}
<1>0. D \subseteq Nodes
  BY DEF Under
<1>1. n # Root => n \in Others /\ p \in Nodes /\ U = mine
  <2>1. n # Root => n \in Others /\ p \in Nodes /\ Parent(n) = p
    BY Family DEF Others, Parent
  <2>2. n # Root => U = mine
    BY <2>1 DEF UpNews
  <2> QED BY <2>1, <2>2
<1>2. n = Root => U = {}
  BY DEF UpNews
<1>3. IsFiniteSet(U)
  <2>1. CASE n = Root
    BY <2>1, <1>2, FS_EmptySet
  <2>2. CASE n # Root
    <3>1. mine \subseteq NewsFrom(n, kind)
      BY <2>2, <1>0, <1>1 DEF NewsFrom
    <3> QED BY <3>1, <2>2, <1>1, NewsFinite
  <2> QED BY <2>1, <2>2
<1>4. IsFiniteSet(X)
  <2>1. X \subseteq NewsFrom(n, "del")
    <3>1. ASSUME NEW s \in X PROVE s \in NewsFrom(n, "del")
      <4>1. PICK k \in Others, t \in Nodes : s = <<<<n, k>>, Message("del", n, k, t)>>
        BY DEF ToKids
      <4>2. k \in Nodes
        BY DEF Others
      <4> QED BY <4>1, <4>2 DEF NewsFrom
    <3> QED BY <3>1
  <2> QED BY <2>1, NewsFinite
<1>5. IsFiniteSet(U \cup X)
  BY <1>3, <1>4, FS_Union
<1>6. \A s \in U : n # Root /\ \E t \in D : s[1] = <<n, p>> /\ s[2] = Message(kind, n, p, t)
  BY <1>1, <1>2
<1>7. \A s \in X : \E k \in Others : \E t \in Nodes :
        Up[k] = n /\ s[1] = <<n, k>> /\ s[1][1] = n /\ s[2] = Message("del", n, k, t)
  BY DEF ToKids
<1>8. \A s \in U \cup X : s[1][1] = n
  BY <1>6, <1>7
<1>9. ASSUME NEW k \in Others, Up[k] = n PROVE NewIn(U \cup X, <<n, k>>) \subseteq DownMsgs(k)
  <2>1. SUFFICES ASSUME NEW s \in U \cup X, s[1] = <<n, k>> PROVE s[2] \in DownMsgs(k)
    BY DEF NewIn
  <2>2. s \notin U
    <3>1. n # Root => p # k
      BY <1>9, Family
    <3> QED BY <3>1, <2>1, <1>6
  <2>3. PICK t \in Nodes : s[2] = Message("del", n, k, t)
    <3>1. PICK j \in Others, t \in Nodes : s[1] = <<n, j>> /\ s[2] = Message("del", n, j, t)
      BY <2>1, <2>2, <1>7
    <3>2. j = k
      BY <3>1, <2>1
    <3> QED BY <3>1, <3>2
  <2>4. k \in Nodes /\ n \notin Under(k) /\ k \in Under(k)
    BY <1>9, Family
  <2> QED BY <2>3, <2>4 DEF DownMsgs, Msgs, Message
<1>10. ASSUME n # Root PROVE Push(n, NewIn(U \cup X, <<n, p>>), M, Changed(M, kind, D))
  <2>1. n \in Others /\ U = mine
    BY <1>1, <1>10
  <2>2. \A s \in X : s[1] # <<n, p>>
    <3>1. \A k \in Others : Up[k] = n => k # p
      BY <1>10, <2>1, Family
    <3> QED BY <3>1, <1>7
  <2>3. NewIn(U \cup X, <<n, p>>) = NewsOf(kind, n, p, D)
    <3> DEFINE N == NewIn(U \cup X, <<n, p>>)
    <3>1. ASSUME NEW m \in N PROVE m \in NewsOf(kind, n, p, D)
      <4>1. PICK s \in U \cup X : s[1] = <<n, p>> /\ m = s[2]
        BY DEF NewIn
      <4>2. s \in U
        BY <4>1, <2>2
      <4>3. \E t \in D : s[2] = Message(kind, n, p, t)
        BY <4>2, <1>6
      <4> QED BY <4>1, <4>3 DEF NewsOf
    <3>2. ASSUME NEW m \in NewsOf(kind, n, p, D) PROVE m \in N
      <4>1. PICK t \in D : m = Message(kind, n, p, t)
        BY DEF NewsOf
      <4>2. <<<<n, p>>, m>> \in U
        BY <4>1, <2>1
      <4> QED BY <4>2 DEF NewIn
    <3> HIDE DEF N
    <3>3. N = NewsOf(kind, n, p, D)
      BY <3>1, <3>2
    <3> QED BY <3>3 DEF N
  <2> QED BY <2>3 DEF Push
<1> HIDE DEF U
<1> QED BY <1>5, <1>8, <1>9, <1>10 DEF SendsOk, U

LEMMA DownNewsIs ==
  ASSUME NEW n \in Nodes, NEW D \in SUBSET Nodes
  PROVE  DownNews(n, D) \in SUBSET ToKids(n)
<1>1. ASSUME NEW s \in DownNews(n, D) PROVE s \in ToKids(n)
  <2>0. PICK t \in D : \E k \in Told(n, t) : s = <<<<n, k>>, Message("del", n, k, t)>>
    BY DEF DownNews
  <2>1. PICK k \in Told(n, t) : s = <<<<n, k>>, Message("del", n, k, t)>>
    BY <2>0
  <2>2. k \in Kids[n] /\ t \in Nodes
    BY DEF Told
  <2>3. k \in Others /\ Up[k] = n /\ k \in Nodes
    BY <2>2, KidsAre DEF Others
  <2>4. <<n, k>> \in Links
    BY <2>3, LinksAre
  <2>5. Message("del", n, k, t) \in Msgs
    BY <2>2, <2>3 DEF Message, Msgs
  <2> QED BY <2>1, <2>2, <2>3, <2>4, <2>5 DEF ToKids
<1> QED BY <1>1

-----------------------------------------------------------------------------
(* What a step does to the streams before anything is sent. *)

LEMMA NoneTaken ==
  ASSUME NEW n, NEW W, NEW H, NEW J, WiresOk(W, H, J)
  PROVE  AllBut(n, Mine(H, n), W, H, J)
<1>1. W = [l \in Links |-> W[l]]
  BY DEF WiresOk
<1> QED BY <1>1 DEF WiresOk, AllBut

\* n takes the first message its child in has sent.
LEMMA TakenUp ==
  ASSUME NEW in \in Others, NEW n, n = Up[in], NEW W, NEW H, NEW H2, NEW J, WiresOk(W, H, J),
         in \in H[<<n, in>>], W[<<in, n>>] # <<>>,
         \A k \in Others : H2[<<Up[k], k>>] = IF k = in THEN Heard(H[<<n, in>>], Head(W[<<in, n>>]))
                                              ELSE H[<<Up[k], k>>]
  PROVE  AllBut(n, Mine(H, n), [W EXCEPT ![<<in, n>>] = Tail(@)], H2, J)
<1> DEFINE B == [W EXCEPT ![<<in, n>>] = Tail(@)]
           w == W[<<in, n>>]
<1>1. /\ <<in, n>> \in Links /\ W \in [Links -> Seq(Msgs)]
      /\ \A k \in Others : <<k, Up[k]>> \in Links /\ <<Up[k], k>> \in Links
  BY LinksAre DEF WiresOk
<1>2. B = [l \in Links |-> B[l]] /\ \A l \in Links : B[l] = IF l = <<in, n>> THEN Tail(w) ELSE W[l]
  BY <1>1
<1>3. w \in Seq(UpMsgs(in)) /\ w \in Seq(Msgs) /\ UpOk(w, H[<<n, in>>], Mine(H, in))
  BY <1>1 DEF WiresOk, UpLink
<1>4. Head(w) = w[1] /\ Tail(w) \in Seq(UpMsgs(in))
  BY <1>3, HeadTailProperties
<1>5. UpOk(Tail(w), Heard(H[<<n, in>>], Head(w)), Mine(H, in))
  BY <1>3, <1>4, UpTail
<1>6. ASSUME NEW k \in Others, k # n PROVE Mine(H2, k) = Mine(H, k)
  <2>1. \A j \in Kids[k] : j \in Others /\ Up[j] = k
    BY KidsAre DEF Others
  <2>2. \A j \in Kids[k] : H2[<<k, j>>] = H[<<k, j>>]
    BY <2>1, <1>6
  <2> QED BY <2>2, SameMine
<1> HIDE DEF B, w
<1>7. in # n
  BY Family
<1>8. ASSUME NEW k \in Others
      PROVE  /\ UpLink(k, B[<<k, Up[k]>>], H2[<<Up[k], k>>], IF k = n THEN Mine(H, n) ELSE Mine(H2, k))
             /\ k \notin J => B[<<k, Up[k]>>] = <<>>
  <2>1. CASE k = in
    <3>1. B[<<k, Up[k]>>] = Tail(w) /\ H2[<<Up[k], k>>] = Heard(H[<<n, in>>], Head(w)) /\ Mine(H2, k) = Mine(H, in)
      BY <2>1, <1>1, <1>2, <1>6, <1>7 DEF w
    <3>2. k \in J
      BY <2>1 DEF WiresOk
    <3> QED BY <3>1, <3>2, <2>1, <1>4, <1>5, <1>7 DEF UpLink
  <2>2. CASE k # in
    <3>1. B[<<k, Up[k]>>] = W[<<k, Up[k]>>] /\ H2[<<Up[k], k>>] = H[<<Up[k], k>>]
      BY <2>2, <1>1, <1>2
    <3>2. UpLink(k, W[<<k, Up[k]>>], H[<<Up[k], k>>], Mine(H, k)) /\ (k \notin J => W[<<k, Up[k]>>] = <<>>)
      BY DEF WiresOk
    <3>3. (IF k = n THEN Mine(H, n) ELSE Mine(H2, k)) = Mine(H, k)
      BY <1>6
    <3> QED BY <3>1, <3>2, <3>3
  <2> QED BY <2>1, <2>2
<1>9. ASSUME NEW k \in Others PROVE B[<<Up[k], k>>] \in Seq(DownMsgs(k))
  <2>1. <<Up[k], k>> # <<in, n>>
    <3>1. SUFFICES ASSUME Up[k] = in, k = Up[in] PROVE FALSE
      OBVIOUS
    <3>2. k # Root
      BY DEF Others
    <3> QED BY <3>1, <3>2, Family
  <2>2. B[<<Up[k], k>>] = W[<<Up[k], k>>]
    BY <2>1, <1>1, <1>2
  <2> QED BY <2>2 DEF WiresOk
<1>10. AllBut(n, Mine(H, n), B, H2, J)
  BY <1>2, <1>8, <1>9 DEF AllBut
<1> QED BY <1>10 DEF B

\* n takes the first message its parent has sent.
LEMMA TakenDown ==
  ASSUME NEW n \in Others, NEW in, in = Up[n], NEW W, NEW H, NEW H2, NEW J, WiresOk(W, H, J),
         W[<<in, n>>] # <<>>, \A k \in Others : H2[<<Up[k], k>>] = H[<<Up[k], k>>]
  PROVE  AllBut(n, Mine(H, n), [W EXCEPT ![<<in, n>>] = Tail(@)], H2, J)
<1> DEFINE B == [W EXCEPT ![<<in, n>>] = Tail(@)]
           w == W[<<in, n>>]
<1>1. /\ <<in, n>> \in Links /\ W \in [Links -> Seq(Msgs)]
      /\ \A k \in Others : <<k, Up[k]>> \in Links /\ <<Up[k], k>> \in Links
  BY LinksAre DEF WiresOk
<1>2. B = [l \in Links |-> B[l]] /\ \A l \in Links : B[l] = IF l = <<in, n>> THEN Tail(w) ELSE W[l]
  BY <1>1
<1>3. w \in Seq(DownMsgs(n)) /\ Tail(w) \in Seq(DownMsgs(n))
  BY HeadTailProperties DEF WiresOk
<1>4. ASSUME NEW k \in Others PROVE Mine(H2, k) = Mine(H, k)
  <2>1. \A j \in Kids[k] : j \in Others /\ Up[j] = k
    BY KidsAre DEF Others
  <2>2. \A j \in Kids[k] : H2[<<k, j>>] = H[<<k, j>>]
    BY <2>1
  <2> QED BY <2>2, SameMine
<1> HIDE DEF B, w
<1>5. ASSUME NEW k \in Others
      PROVE  /\ UpLink(k, B[<<k, Up[k]>>], H2[<<Up[k], k>>], IF k = n THEN Mine(H, n) ELSE Mine(H2, k))
             /\ k \notin J => B[<<k, Up[k]>>] = <<>>
  <2>1. <<k, Up[k]>> # <<in, n>>
    <3>1. SUFFICES ASSUME Up[k] = n, k = Up[n] PROVE FALSE
      OBVIOUS
    <3>2. n # Root /\ k # Root
      BY DEF Others
    <3> QED BY <3>1, <3>2, Family
  <2>2. B[<<k, Up[k]>>] = W[<<k, Up[k]>>] /\ H2[<<Up[k], k>>] = H[<<Up[k], k>>]
    BY <2>1, <1>1, <1>2
  <2>3. UpLink(k, W[<<k, Up[k]>>], H[<<Up[k], k>>], Mine(H, k)) /\ (k \notin J => W[<<k, Up[k]>>] = <<>>)
    BY DEF WiresOk
  <2>4. (IF k = n THEN Mine(H, n) ELSE Mine(H2, k)) = Mine(H, k)
    BY <1>4
  <2> QED BY <2>2, <2>3, <2>4
<1>6. ASSUME NEW k \in Others PROVE B[<<Up[k], k>>] \in Seq(DownMsgs(k))
  <2>1. CASE k = n
    BY <2>1, <1>1, <1>2, <1>3
  <2>2. CASE k # n
    <3>1. B[<<Up[k], k>>] = W[<<Up[k], k>>]
      BY <2>2, <1>1, <1>2
    <3> QED BY <3>1 DEF WiresOk
  <2> QED BY <2>1, <2>2
<1>7. AllBut(n, Mine(H, n), B, H2, J)
  BY <1>2, <1>5, <1>6 DEF AllBut
<1> QED BY <1>7 DEF B

-----------------------------------------------------------------------------
(* Routes and the books kept of them. *)

\* The routes R[n] of n lead to a child or, for its parent, up; those to a child k are the ones
\* H[<<n, k>>] lists, for contexts k is, or has under it.
TableOk(n, R, H, J) ==
  /\ \A t \in Nodes : R[n][t] \in Kids[n] \cup {NoWay, Parent(n)}
  /\ n # Root => \A t \in Nodes : R[n][t] = Up[n] => t = Up[n]
  /\ \A k \in Kids[n] : \A t \in Nodes : R[n][t] = k <=> t \in H[<<n, k>>]
  /\ \A k \in Kids[n] : /\ H[<<n, k>>] \subseteq Under(k)
                        /\ H[<<n, k>>] # {} => k \in H[<<n, k>>] /\ k \in J
Tables(R, H, J) ==
  /\ R \in [Nodes -> [Nodes -> Nodes \cup {NoWay}]] /\ H \in [Links -> SUBSET Nodes]
  /\ \A n \in Nodes : TableOk(n, R, H, J)

LEMMA KidFacts ==
  ASSUME NEW R, NEW H, NEW J, Tables(R, H, J), NEW k \in Others
  PROVE  /\ k \in Nodes /\ Up[k] \in Nodes /\ k \in Kids[Up[k]] /\ <<Up[k], k>> \in Links
         /\ H[<<Up[k], k>>] \subseteq Under(k) /\ H[<<Up[k], k>>] \subseteq Nodes
         /\ H[<<Up[k], k>>] # {} => k \in H[<<Up[k], k>>] /\ k \in J
         /\ \A t \in Nodes : R[Up[k]][t] = k <=> t \in H[<<Up[k], k>>]
<1>1. k \in Nodes /\ Up[k] \in Nodes /\ k \in Kids[Up[k]] /\ <<Up[k], k>> \in Links
  BY Family, KidsAre, LinksAre
<1>2. TableOk(Up[k], R, H, J)
  BY <1>1 DEF Tables
<1> QED BY <1>1, <1>2 DEF TableOk, Under

LEMMA MineUnder ==
  ASSUME NEW R, NEW H, NEW J, Tables(R, H, J), NEW n \in Nodes
  PROVE  /\ n \in Mine(H, n) /\ Mine(H, n) \subseteq Under(n)
         /\ \A t \in Nodes : t \in Mine(H, n) <=> t = n \/ R[n][t] \in Kids[n]
<1>1. TableOk(n, R, H, J) /\ n \in Under(n) /\ Under(n) \subseteq Nodes
  BY LineageSelf DEF Tables, Under
<1>2. \A k \in Kids[n] : k \in Others /\ Up[k] = n
  BY KidsAre DEF Others
<1>3. \A k \in Kids[n] : H[<<n, k>>] \subseteq Under(n)
  <2>1. ASSUME NEW k \in Kids[n] PROVE H[<<n, k>>] \subseteq Under(n)
    <3>1. H[<<n, k>>] \subseteq Under(k)
      BY <1>1 DEF TableOk
    <3> QED BY <3>1, <1>2, Family
  <2> QED BY <2>1
<1>4. \A t \in Nodes : t \in Mine(H, n) <=> t = n \/ R[n][t] \in Kids[n]
  <2>1. \A t \in Nodes : \A k \in Kids[n] : R[n][t] = k <=> t \in H[<<n, k>>]
    BY <1>1 DEF TableOk
  <2>2. ASSUME NEW t \in Nodes PROVE t \in Mine(H, n) <=> t = n \/ R[n][t] \in Kids[n]
    <3>1. (\E k \in Kids[n] : t \in H[<<n, k>>]) <=> R[n][t] \in Kids[n]
      BY <2>1
    <3> QED BY <3>1, InMine
  <2> QED BY <2>2
<1> QED BY <1>1, <1>3, <1>4 DEF Mine

\* The children of one context have no targets in common.
LEMMA Apart ==
  ASSUME NEW R, NEW H, NEW J, Tables(R, H, J), NEW k \in Others, NEW j \in Others, Up[j] = Up[k], j # k,
         NEW t \in H[<<Up[j], j>>]
  PROVE  t \notin Under(k)
BY KidFacts, Siblings

LEMMA MineLess ==
  ASSUME NEW R, NEW H, NEW H2, NEW J, Tables(R, H, J), NEW k \in Others, NEW n, n = Up[k],
         NEW D \in SUBSET Under(k), H2[<<n, k>>] = H[<<n, k>>] \ D,
         \A j \in Others : j # k => H2[<<Up[j], j>>] = H[<<Up[j], j>>]
  PROVE  Mine(H2, n) = Changed(Mine(H, n), "del", D)
<1>1. n \notin D /\ k \in Kids[n] /\ n \in Nodes
  BY Family, KidsAre
<1>2. \A j \in Kids[n] : j \in Others /\ Up[j] = n
  BY <1>1, KidsAre DEF Others
<1>3. \A j \in Kids[n] : H2[<<n, j>>] = H[<<n, j>>] \ D
  <2>1. ASSUME NEW j \in Kids[n] PROVE H2[<<n, j>>] = H[<<n, j>>] \ D
    <3>1. CASE j = k
      BY <3>1
    <3>2. CASE j # k
      <4>1. j \in Others /\ Up[j] = n
        BY <1>2
      <4>2. H2[<<n, j>>] = H[<<n, j>>]
        BY <3>2, <4>1
      <4>3. \A t \in H[<<n, j>>] : t \notin Under(k)
        BY <3>2, <4>1, Apart
      <4> QED BY <4>2, <4>3
    <3> QED BY <3>1, <3>2
  <2> QED BY <2>1
<1>4. Mine(H2, n) = Mine(H, n) \ D
  <2>1. \A t : t \in Mine(H2, n) <=> t = n \/ \E j \in Kids[n] : t \in H2[<<n, j>>]
    BY InMine
  <2>2. \A t : t \in Mine(H, n) <=> t = n \/ \E j \in Kids[n] : t \in H[<<n, j>>]
    BY InMine
  <2>3. \A t : (\E j \in Kids[n] : t \in H2[<<n, j>>]) <=> t \notin D /\ \E j \in Kids[n] : t \in H[<<n, j>>]
    BY <1>3
  <2>4. \A t : t \in Mine(H2, n) <=> t \in Mine(H, n) \ D
    BY <1>1, <2>1, <2>2, <2>3
  <2> QED BY <2>4
<1> QED BY <1>4 DEF Changed

LEMMA MineMore ==
  ASSUME NEW H, NEW H2, NEW k \in Others, NEW n, n = Up[k],
         NEW D, H2[<<n, k>>] = H[<<n, k>>] \cup D,
         \A j \in Others : j # k => H2[<<Up[j], j>>] = H[<<Up[j], j>>]
  PROVE  Mine(H2, n) = Changed(Mine(H, n), "add", D)
<1>1. k \in Kids[n] /\ n \in Nodes
  BY Family, KidsAre
<1>2. \A j \in Kids[n] : j \in Others /\ Up[j] = n
  BY <1>1, KidsAre DEF Others
<1>3. \A j \in Kids[n] : j # k => H2[<<n, j>>] = H[<<n, j>>]
  BY <1>2
<1>4. Mine(H2, n) = Mine(H, n) \cup D
  <2>1. \A t : t \in Mine(H2, n) <=> t = n \/ \E j \in Kids[n] : t \in H2[<<n, j>>]
    BY DEF Mine
  <2>2. \A t : t \in Mine(H, n) <=> t = n \/ \E j \in Kids[n] : t \in H[<<n, j>>]
    BY DEF Mine
  <2>3. \A t : (\E j \in Kids[n] : t \in H2[<<n, j>>]) <=> t \in D \/ \E j \in Kids[n] : t \in H[<<n, j>>]
    BY <1>1, <1>3
  <2>4. \A t : t \in Mine(H2, n) <=> t \in Mine(H, n) \cup D
    BY <2>1, <2>2, <2>3
  <2> QED BY <2>4
<1> QED BY <1>4 DEF Changed

\* A route to t through the child k.
LEMMA TableAdd ==
  ASSUME NEW R, NEW H, NEW J, NEW J2, Tables(R, H, J), J \subseteq J2, NEW k \in J2, k \in Others, NEW n, n = Up[k],
         NEW t \in Under(k), t = k \/ k \in H[<<n, k>>],
         NEW H2, H2 = [H EXCEPT ![<<n, k>>] = @ \cup {t}]
  PROVE  Tables([R EXCEPT ![n][t] = k], H2, J2)
<1> DEFINE R2 == [R EXCEPT ![n][t] = k]
<1>1. /\ k \in Nodes /\ n \in Nodes /\ k \in Kids[n] /\ t \in Nodes /\ <<n, k>> \in Links
      /\ R \in [Nodes -> [Nodes -> Nodes \cup {NoWay}]] /\ H \in [Links -> SUBSET Nodes]
  BY KidFacts DEF Tables, Under
<1>2. R2 \in [Nodes -> [Nodes -> Nodes \cup {NoWay}]] /\ H2 \in [Links -> SUBSET Nodes]
  BY <1>1
<1>3. \A m \in Nodes : m # n => R2[m] = R[m]
  BY <1>1
<1>4. R2[n][t] = k /\ \A s \in Nodes : s # t => R2[n][s] = R[n][s]
  BY <1>1
<1>5. H2[<<n, k>>] = H[<<n, k>>] \cup {t} /\ \A l \in Links : l # <<n, k>> => H2[l] = H[l]
  BY <1>1
<1> HIDE DEF R2
<1>6. ASSUME NEW m \in Nodes PROVE TableOk(m, R2, H2, J2)
  <2>1. TableOk(m, R, H, J)
    BY DEF Tables
  <2>2. \A j \in Kids[m] : j \in Others /\ Up[j] = m /\ <<m, j>> \in Links
    BY KidsAre, LinksAre DEF Others
  <2>3. CASE m # n
    <3>1. R2[m] = R[m] /\ \A j \in Kids[m] : H2[<<m, j>>] = H[<<m, j>>]
      BY <2>2, <2>3, <1>3, <1>5
    <3> QED BY <3>1, <2>1 DEF TableOk
  <2>4. CASE m = n
    <3>1. \A j \in Kids[n] : j # k => H2[<<n, j>>] = H[<<n, j>>] /\ t \notin Under(j)
      <4>1. ASSUME NEW j \in Kids[n], j # k PROVE H2[<<n, j>>] = H[<<n, j>>] /\ t \notin Under(j)
        <5>1. j \in Others /\ Up[j] = n /\ <<n, j>> \in Links
          BY <2>2, <2>4
        <5>2. t \notin Under(j)
          BY <5>1, <4>1, Siblings
        <5> QED BY <5>1, <5>2, <4>1, <1>5
      <4> QED BY <4>1
    <3>2. \A s \in Nodes : R2[n][s] \in Kids[n] \cup {NoWay, Parent(n)}
      BY <1>1, <1>4, <2>1, <2>4 DEF TableOk
    <3>3. n # Root => \A s \in Nodes : R2[n][s] = Up[n] => s = Up[n]
      <4>1. n # Root => Up[n] # k
        BY Family
      <4> QED BY <4>1, <1>4, <2>1, <2>4 DEF TableOk
    <3>4. ASSUME NEW j \in Kids[n], NEW s \in Nodes PROVE R2[n][s] = j <=> s \in H2[<<n, j>>]
      <4>1. R[n][s] = j <=> s \in H[<<n, j>>]
        BY <2>1, <2>4 DEF TableOk
      <4>2. H[<<n, j>>] \subseteq Under(j)
        BY <2>1, <2>4 DEF TableOk
      <4>3. CASE s # t
        BY <4>1, <4>3, <1>4, <1>5, <3>1
      <4>4. CASE s = t /\ j = k
        BY <4>4, <1>4, <1>5
      <4>5. CASE s = t /\ j # k
        BY <4>5, <4>2, <1>4, <3>1
      <4> QED BY <4>3, <4>4, <4>5
    <3>5. ASSUME NEW j \in Kids[n]
          PROVE  H2[<<n, j>>] \subseteq Under(j) /\ (H2[<<n, j>>] # {} => j \in H2[<<n, j>>] /\ j \in J2)
      <4>1. H[<<n, j>>] \subseteq Under(j) /\ (H[<<n, j>>] # {} => j \in H[<<n, j>>] /\ j \in J)
        BY <2>1, <2>4 DEF TableOk
      <4>2. CASE j = k
        BY <4>1, <4>2, <1>5
      <4>3. CASE j # k
        BY <4>1, <4>3, <3>1
      <4> QED BY <4>2, <4>3
    <3>6. TableOk(n, R2, H2, J2)
      BY <3>2, <3>3, <3>4, <3>5 DEF TableOk
    <3> QED BY <3>6, <2>4
  <2> QED BY <2>3, <2>4
<1>7. Tables(R2, H2, J2)
  BY <1>2, <1>6 DEF Tables
<1> QED BY <1>7 DEF R2

Without(R, n, D) == [R EXCEPT ![n] = [t \in Nodes |-> IF t \in D THEN NoWay ELSE @[t]]]

\* The routes to D go, which lead through the child k if they lead to a child.
LEMMA TableDel ==
  ASSUME NEW R, NEW H, NEW J, Tables(R, H, J), NEW n \in Nodes, NEW D \in SUBSET Nodes,
         NEW H2, H2 \in [Links -> SUBSET Nodes],
         \A j \in Others : H2[<<Up[j], j>>] = IF Up[j] = n THEN H[<<Up[j], j>>] \ D ELSE H[<<Up[j], j>>],
         \A j \in Others : Up[j] = n /\ j \in D => H[<<n, j>>] \subseteq D
  PROVE  Tables(Without(R, n, D), H2, J)
<1> DEFINE R2 == Without(R, n, D)
<1>0. NoWay \notin Nodes
  BY RoutingAssumption DEF RoutingAssumption
<1>1. R \in [Nodes -> [Nodes -> Nodes \cup {NoWay}]]
  BY DEF Tables
<1>2. R2 \in [Nodes -> [Nodes -> Nodes \cup {NoWay}]]
  BY <1>1 DEF Without
<1>3. \A m \in Nodes : m # n => R2[m] = R[m]
  BY <1>1 DEF Without
<1>4. \A t \in Nodes : R2[n][t] = IF t \in D THEN NoWay ELSE R[n][t]
  BY <1>1 DEF Without
<1> HIDE DEF R2
<1>6. ASSUME NEW m \in Nodes PROVE TableOk(m, R2, H2, J)
  <2>1. TableOk(m, R, H, J)
    BY DEF Tables
  <2>2. \A j \in Kids[m] : j \in Others /\ Up[j] = m
    BY KidsAre DEF Others
  <2>3. CASE m # n
    <3>1. R2[m] = R[m] /\ \A j \in Kids[m] : H2[<<m, j>>] = H[<<m, j>>]
      BY <2>2, <2>3, <1>3
    <3> QED BY <3>1, <2>1 DEF TableOk
  <2>4. CASE m = n
    <3>1. \A j \in Kids[n] : H2[<<n, j>>] = H[<<n, j>>] \ D /\ (j \in D => H[<<n, j>>] \subseteq D) /\ j \in Nodes
      <4>1. ASSUME NEW j \in Kids[n]
            PROVE  H2[<<n, j>>] = H[<<n, j>>] \ D /\ (j \in D => H[<<n, j>>] \subseteq D) /\ j \in Nodes
        <5>1. j \in Others /\ Up[j] = n
          BY <2>2, <2>4
        <5> QED BY <5>1, Family
      <4> QED BY <4>1
    <3>2. \A s \in Nodes : R2[n][s] \in Kids[n] \cup {NoWay, Parent(n)}
      BY <1>4, <2>1, <2>4 DEF TableOk
    <3>3. n # Root => \A s \in Nodes : R2[n][s] = Up[n] => s = Up[n]
      <4>1. n # Root => Up[n] \in Nodes
        BY Family DEF Others
      <4> QED BY <4>1, <1>0, <1>4, <2>1, <2>4 DEF TableOk
    <3>4. ASSUME NEW j \in Kids[n], NEW s \in Nodes PROVE R2[n][s] = j <=> s \in H2[<<n, j>>]
      <4>1. R[n][s] = j <=> s \in H[<<n, j>>]
        BY <2>1, <2>4 DEF TableOk
      <4>2. j # NoWay
        BY <3>1, <1>0
      <4>3. CASE s \in D
        BY <4>2, <4>3, <3>1, <1>4
      <4>4. CASE s \notin D
        BY <4>1, <4>4, <3>1, <1>4
      <4> QED BY <4>3, <4>4
    <3>5. ASSUME NEW j \in Kids[n]
          PROVE  H2[<<n, j>>] \subseteq Under(j) /\ (H2[<<n, j>>] # {} => j \in H2[<<n, j>>] /\ j \in J)
      <4>1. H[<<n, j>>] \subseteq Under(j) /\ (H[<<n, j>>] # {} => j \in H[<<n, j>>] /\ j \in J)
        BY <2>1, <2>4 DEF TableOk
      <4>2. H2[<<n, j>>] = H[<<n, j>>] \ D /\ (j \in D => H[<<n, j>>] \subseteq D)
        BY <3>1
      <4> QED BY <4>1, <4>2
    <3>6. TableOk(n, R2, H2, J)
      BY <3>2, <3>3, <3>4, <3>5 DEF TableOk
    <3> QED BY <3>6, <2>4
  <2> QED BY <2>3, <2>4
<1>7. Tables(R2, H2, J)
  BY <1>2, <1>6 DEF Tables
<1> QED BY <1>7 DEF R2

-----------------------------------------------------------------------------
(* The invariant. *)

\* Who was connected and has no broken connection is known to a parent that lives.
Lives(A, J, K, H) ==
  /\ A \subseteq J /\ J \subseteq Nodes /\ K \subseteq J \ {Root} /\ Root \in A
  /\ \A k \in J \cap Others : /\ k \in A \/ k \in K
                              /\ Up[k] \in A \/ k \in K
                              /\ Up[k] \in J
                              /\ k \in H[<<Up[k], k>>] \/ k \in K

RoutingInv ==
  /\ RoutingTypeOK /\ rejected = {}
  /\ Lives(alive, joined, broken, reach)
  /\ Tables(routes, reach, joined)
  /\ WiresOk(wire, reach, joined)

LEMMA InvFacts ==
  ASSUME RoutingInv
  PROVE  /\ Lives(alive, joined, broken, reach) /\ Tables(routes, reach, joined) /\ WiresOk(wire, reach, joined)
         /\ alive \subseteq joined /\ joined \subseteq Nodes
BY DEF RoutingInv, Lives

LEMMA ArrivedUp ==
  ASSUME RoutingInv, NEW in \in Others, NEW n, n = Up[in], Arrives(n, in),
         NEW m, m = Head(wire[<<in, n>>])
  PROVE  /\ n \in alive /\ n \in joined /\ n \in Nodes /\ in \in reach[<<n, in>>] /\ wire[<<in, n>>] # <<>>
         /\ m \in UpMsgs(in) /\ m.src \in reach[<<n, in>>] /\ m.src \in Nodes /\ m.src # n
         /\ m.kind \in Ordinary => m.dst \notin reach[<<n, in>>]
         /\ routes[n][m.src] = in /\ Verified(n, m.src, in)
<1>1. in \in Kids[n] /\ n \in Nodes /\ reach[<<n, in>>] \subseteq Under(in)
  BY InvFacts, KidFacts
<1>2. n \in alive /\ n \in joined /\ in \in reach[<<n, in>>] /\ wire[<<in, n>>] # <<>>
  BY <1>1, InvFacts DEF Arrives, Connected
<1> DEFINE w == wire[<<in, n>>]
<1>3. w \in Seq(UpMsgs(in)) /\ UpOk(w, reach[<<n, in>>], Mine(reach, in))
  BY <1>2, InvFacts DEF WiresOk, UpLink
<1>4. UpMsgs(in) \subseteq Msgs
  BY DEF UpMsgs
<1>5. w \in Seq(Msgs)
  BY <1>3, <1>4
<1>6. m = w[1] /\ m \in UpMsgs(in)
  <2> HIDE DEF w
  <2>1. w # <<>> /\ m = Head(w)
    BY <1>2 DEF w
  <2> QED BY <2>1, <1>3, HeadTailProperties
<1>7. m.src \in reach[<<n, in>>] /\ (m.kind \in Ordinary => m.dst \notin reach[<<n, in>>])
  BY <1>2, <1>3, <1>5, <1>6, UpHead
<1>8. m.src \in Nodes
  BY <1>4, <1>6 DEF Msgs
<1>9. routes[n][m.src] = in
  BY <1>7, <1>8, InvFacts, KidFacts
<1>10. in # NoWay
  BY Family, RoutingAssumption DEF RoutingAssumption
<1>11. m.src # n
  BY <1>1, <1>7, Family
<1> QED BY <1>1, <1>2, <1>6, <1>7, <1>8, <1>9, <1>10, <1>11 DEF Verified, Stream

LEMMA ArrivedDown ==
  ASSUME RoutingInv, NEW n \in Others, NEW in, in = Up[n], Arrives(n, in),
         NEW m, m = Head(wire[<<in, n>>])
  PROVE  /\ n \in alive /\ n \in joined /\ n \in Nodes /\ wire[<<in, n>>] # <<>>
         /\ m \in DownMsgs(n) /\ m.src \in Nodes /\ m.src # n
         /\ Parent(n) = in /\ Stream(n, m.src) = Parent(n) /\ Verified(n, m.src, in)
<1>1. n \in Nodes /\ n # Root /\ in \in Nodes /\ in # NoWay /\ Parent(n) = in
  BY Family, RoutingAssumption DEF RoutingAssumption, Parent
<1>2. n \in alive /\ n \in joined /\ wire[<<in, n>>] # <<>>
  BY InvFacts DEF Arrives, Connected
<1> DEFINE w == wire[<<in, n>>]
<1>3. w \in Seq(DownMsgs(n))
  BY InvFacts DEF WiresOk
<1>4. m \in DownMsgs(n)
  <2> HIDE DEF w
  <2>1. w # <<>> /\ m = Head(w)
    BY <1>2 DEF w
  <2> QED BY <2>1, <1>3, HeadTailProperties
<1>5. m.src \in Nodes /\ m.src \notin Under(n)
  BY <1>4 DEF DownMsgs, Msgs
<1>6. routes[n][m.src] \notin Kids[n]
  BY <1>1, <1>5, InvFacts, MineUnder
<1>7. routes[n][m.src] \in {NoWay, Parent(n)}
  BY <1>1, <1>5, <1>6, InvFacts DEF Tables, TableOk
<1>8. n \in Under(n)
  BY Family
<1> QED BY <1>1, <1>2, <1>4, <1>5, <1>7, <1>8 DEF Verified, Stream

\* The way out of n towards dst.
LEMMA Ways ==
  ASSUME Tables(routes, reach, joined), NEW n \in Nodes, NEW src, NEW dst \in Nodes, NEW in,
         NEW out, out = WayOut(n, src, dst, in), out # NoWay
  PROVE  \/ out \in Others /\ Up[out] = n /\ dst \in reach[<<n, out>>]
         \/ /\ n # Root /\ out = Up[n] /\ routes[n][dst] \notin Kids[n]
            /\ dst = Up[n] \/ MayGoUp(n, src, in)
<1>1. /\ routes[n][dst] \in Kids[n] \cup {NoWay, Parent(n)}
      /\ n # Root /\ routes[n][dst] = Up[n] => dst = Up[n]
      /\ \A k \in Kids[n] : routes[n][dst] = k <=> dst \in reach[<<n, k>>]
  BY DEF Tables, TableOk
<1>2. \A k \in Kids[n] : k \in Others /\ Up[k] = n
  BY KidsAre DEF Others
<1>3. NoWay \notin Kids[n]
  BY RoutingAssumption DEF RoutingAssumption, Kids
<1>4. n # Root => Up[n] \notin Kids[n]
  <2>1. SUFFICES ASSUME n # Root, Up[n] \in Kids[n] PROVE FALSE
    OBVIOUS
  <2>2. n \in Others /\ Up[n] # Root /\ Up[Up[n]] = n
    BY <1>2, <2>1 DEF Others
  <2> QED BY <2>2, Family
<1>5. CASE routes[n][dst] \in Kids[n]
  BY <1>1, <1>2, <1>3, <1>5 DEF WayOut
<1>6. CASE routes[n][dst] = NoWay
  <2>1. out = Parent(n) /\ MayGoUp(n, src, in)
    BY <1>6 DEF WayOut
  <2>2. n # Root /\ out = Up[n]
    BY <2>1 DEF Parent
  <2> QED BY <2>1, <2>2, <1>3, <1>6
<1>7. CASE routes[n][dst] = Parent(n) /\ routes[n][dst] # NoWay
  <2>1. out = Parent(n) /\ n # Root /\ Parent(n) = Up[n]
    BY <1>7 DEF WayOut, Parent
  <2> QED BY <2>1, <1>1, <1>4, <1>7
<1> QED BY <1>1, <1>5, <1>6, <1>7

LEMMA OriginateOk ==
  ASSUME Tables(routes, reach, joined), NEW n \in Nodes, NEW m \in Msgs, m.kind \in Ordinary, m.about \in Calls,
         m.src = n, m.dst # n
  PROVE  SendsOk(n, Originate(n, m), Mine(reach, n), Mine(reach, n))
<1> DEFINE out == WayOut(n, n, m.dst, NoWay)
<1>0. m.dst \in Nodes
  BY DEF Msgs
<1>1. CASE out = NoWay
  BY <1>1, SendNone DEF Originate
<1>2. CASE out # NoWay
  <2>1. Originate(n, m) = {<<<<n, out>>, m>>}
    BY <1>2 DEF Originate
  <2>2. \/ out \in Others /\ Up[out] = n /\ m.dst \in reach[<<n, out>>]
        \/ n # Root /\ out = Up[n] /\ routes[n][m.dst] \notin Kids[n]
    <3> HIDE DEF out
    <3>1. out = WayOut(n, n, m.dst, NoWay)
      BY DEF out
    <3> QED BY <1>0, <1>2, <3>1, Ways
  <2> HIDE DEF out
  <2>3. CASE out \in Others /\ Up[out] = n /\ m.dst \in reach[<<n, out>>]
    <3>1. m.dst \in Under(out) /\ n \notin Under(out)
      BY <2>3, KidFacts, Family
    <3>2. m \in DownMsgs(out)
      BY <3>1 DEF DownMsgs
    <3> QED BY <3>2, <2>1, <2>3, SendOne
  <2>4. CASE n # Root /\ out = Up[n] /\ routes[n][m.dst] \notin Kids[n]
    <3>1. n \in Mine(reach, n) /\ m.dst \notin Mine(reach, n)
      BY <2>4, <1>0, MineUnder
    <3>2. n \in Under(n)
      BY <2>4, Family DEF Others
    <3>3. m \in UpMsgs(n)
      BY <3>2 DEF UpMsgs
    <3> QED BY <3>1, <3>3, <2>1, <2>4, SendOne
  <2> QED BY <2>2, <2>3, <2>4
<1> QED BY <1>1, <1>2

-----------------------------------------------------------------------------
LEMMA InitRouting == RoutingInit => RoutingInv
<1> SUFFICES ASSUME RoutingInit PROVE RoutingInv
  OBVIOUS
<1>0. Root \in Nodes /\ NoWay \notin Nodes /\ \A n \in Nodes : Parent(n) \in Nodes \cup {NoWay}
  BY RoutingAssumption DEF RoutingAssumption, Parent
<1>1. RoutingTypeOK /\ rejected = {}
  <2>1. routes \in [Nodes -> [Nodes -> Nodes \cup {NoWay}]]
    BY DEF RoutingInit
  <2>2. calls \in [Calls -> {"new", "sent", "reply", "dead"}]
    BY DEF RoutingInit
  <2>3. reach \in [Links -> SUBSET Nodes] /\ egress \in [Links -> SUBSET Nodes]
    BY DEF RoutingInit
  <2> QED BY <2>1, <2>2, <2>3, <1>0 DEF RoutingInit, RoutingTypeOK
<1>2. \A l \in Links : reach[l] = {}
  BY DEF RoutingInit
<1>3. Lives(alive, joined, broken, reach)
  <2>1. alive = {Root} /\ joined = {Root} /\ broken = {} /\ joined \cap Others = {}
    BY DEF RoutingInit, Others
  <2> QED BY <2>1, <1>0 DEF Lives
<1>4. ASSUME NEW n \in Nodes PROVE TableOk(n, routes, reach, joined)
  <2>1. \A t \in Nodes : routes[n][t] = IF t = Parent(n) THEN t ELSE NoWay
    BY DEF RoutingInit
  <2>2. \A k \in Kids[n] : k \in Nodes /\ reach[<<n, k>>] = {} /\ k # Parent(n) /\ k # NoWay
    <3>1. ASSUME NEW k \in Kids[n] PROVE k \in Nodes /\ reach[<<n, k>>] = {} /\ k # Parent(n) /\ k # NoWay
      <4>1. k \in Others /\ Up[k] = n /\ k \in Nodes
        BY KidsAre DEF Others
      <4>2. <<n, k>> \in Links
        BY <4>1, LinksAre
      <4>3. k # Parent(n)
        BY <4>1, <1>0, Family DEF Parent
      <4> QED BY <4>1, <4>2, <4>3, <1>0, <1>2
    <3> QED BY <3>1
  <2>3. \A k \in Kids[n] : \A t \in Nodes : routes[n][t] = k <=> t \in reach[<<n, k>>]
    BY <2>1, <2>2
  <2>4. n # Root => \A t \in Nodes : routes[n][t] = Up[n] => t = Up[n]
    <3>1. n # Root => Up[n] # NoWay
      BY <1>0, Family DEF Others
    <3> QED BY <3>1, <2>1 DEF Parent
  <2> QED BY <2>1, <2>2, <2>3, <2>4 DEF TableOk
<1>5. Tables(routes, reach, joined)
  BY <1>1, <1>4 DEF Tables, RoutingTypeOK
<1>6. WiresOk(wire, reach, joined)
  <2>1. \A l \in Links : wire[l] = <<>>
    BY DEF RoutingInit
  <2>2. wire \in [Links -> Seq(Msgs)]
    <3>1. <<>> \in Seq(Msgs)
      BY EmptySeq
    <3> QED BY <3>1 DEF RoutingInit
  <2>3. ASSUME NEW k \in Others
        PROVE  /\ UpLink(k, wire[<<k, Up[k]>>], reach[<<Up[k], k>>], Mine(reach, k))
               /\ wire[<<Up[k], k>>] \in Seq(DownMsgs(k)) /\ wire[<<k, Up[k]>>] = <<>>
    <3>1. wire[<<k, Up[k]>>] = <<>> /\ wire[<<Up[k], k>>] = <<>> /\ reach[<<Up[k], k>>] = {}
      BY <2>1, <1>2, LinksAre
    <3>2. <<>> \in Seq(UpMsgs(k)) /\ <<>> \in Seq(DownMsgs(k))
      BY EmptySeq
    <3> QED BY <3>1, <3>2 DEF UpLink
  <2> QED BY <2>2, <2>3 DEF WiresOk
<1> QED BY <1>1, <1>3, <1>5, <1>6 DEF RoutingInv

LEMMA SentNone ==
  ASSUME NEW B, B = [l \in Links |-> B[l]]
  PROVE  Sent(B, {}) = B
<1>1. Sent(B, {}) = [l \in Links |-> B[l]]
  BY DEF Sent
<1> QED BY <1>1

\* What was taken, and that nothing was sent.
LEMMA TakeWires ==
  ASSUME NEW n \in Nodes, NEW B, NEW H, NEW J, AllBut(n, Mine(H, n), B, H, J), n \in J
  PROVE  WiresOk(B, H, J)
<1>1. SendsOk(n, {}, Mine(H, n), Mine(H, n))
  BY SendNone
<1>2. WiresOk(Sent(B, {}), H, J)
  BY <1>1, SendWires
<1>3. Sent(B, {}) = B
  BY SentNone DEF AllBut
<1> QED BY <1>2, <1>3

\* A message that is not about routes is taken.
LEMMA TakenOrdinary ==
  ASSUME RoutingInv, NEW n, NEW in, <<in, n>> \in Links, Arrives(n, in),
         Head(wire[<<in, n>>]).kind \in Ordinary
  PROVE  /\ AllBut(n, Mine(reach, n), Taken(n, in), reach, joined)
         /\ n \in Nodes /\ n \in joined
<1> DEFINE m == Head(wire[<<in, n>>])
<1>1. (in \in Others /\ n = Up[in]) \/ (n \in Others /\ in = Up[n])
  BY LinksAre
<1>2. WiresOk(wire, reach, joined) /\ Taken(n, in) = [wire EXCEPT ![<<in, n>>] = Tail(@)]
  BY InvFacts DEF Taken
<1>3. CASE in \in Others /\ n = Up[in]
  <2>1. in \in reach[<<n, in>>] /\ wire[<<in, n>>] # <<>> /\ n \in joined /\ n \in Nodes
    BY <1>3, ArrivedUp
  <2>2. Heard(reach[<<n, in>>], m) = reach[<<n, in>>]
    BY DEF Heard, Ordinary
  <2>3. \A k \in Others : reach[<<Up[k], k>>] = IF k = in THEN Heard(reach[<<n, in>>], m) ELSE reach[<<Up[k], k>>]
    BY <2>2, <1>3
  <2>4. AllBut(n, Mine(reach, n), [wire EXCEPT ![<<in, n>>] = Tail(@)], reach, joined)
    BY <2>1, <2>3, <1>2, <1>3, TakenUp
  <2> QED BY <2>1, <2>4, <1>2
<1>4. CASE n \in Others /\ in = Up[n]
  <2>1. wire[<<in, n>>] # <<>> /\ n \in joined /\ n \in Nodes
    BY <1>4, ArrivedDown
  <2>2. AllBut(n, Mine(reach, n), [wire EXCEPT ![<<in, n>>] = Tail(@)], reach, joined)
    BY <2>1, <1>2, <1>4, TakenDown
  <2> QED BY <2>1, <2>2, <1>2
<1> QED BY <1>1, <1>3, <1>4

LEMMA NotedOk ==
  ASSUME RoutingTypeOK, NEW n, NEW in, NEW m \in Msgs
  PROVE  Noted(n, in, m) \in [Links -> SUBSET Nodes]
BY DEF RoutingTypeOK, Noted, Msgs

LEMMA RejectNever ==
  ASSUME RoutingInv, NEW n, NEW in, <<in, n>> \in Links, Reject(n, in)
  PROVE  FALSE
<1>1. (in \in Others /\ n = Up[in]) \/ (n \in Others /\ in = Up[n])
  BY LinksAre
<1>2. Arrives(n, in) /\ ~Verified(n, Head(wire[<<in, n>>]).src, in)
  BY DEF Reject
<1> QED BY <1>1, <1>2, ArrivedUp, ArrivedDown

LEMMA AskKeeps ==
  ASSUME RoutingInv, NEW c \in Calls, Ask(c)
  PROVE  RoutingInv'
<1> DEFINE n == From[c]
           m == Message("call", n, To[c], c)
           sends == Originate(n, m)
<1>1. /\ n \in Nodes /\ To[c] \in Nodes /\ To[c] # n /\ n \in joined /\ m \in Msgs
      /\ m.kind \in Ordinary /\ m.about \in Calls /\ m.src = n /\ m.dst # n
  <2>1. n \in Nodes /\ To[c] \in Nodes /\ To[c] # n
    BY RoutingAssumption DEF RoutingAssumption
  <2>2. n \in joined
    BY InvFacts DEF Ask
  <2> QED BY <2>1, <2>2 DEF Message, Msgs, Ordinary
<1>2. SendsOk(n, sends, Mine(reach, n), Mine(reach, n))
  <2> HIDE DEF m, n
  <2> QED BY <1>1, InvFacts, OriginateOk
<1>3. AllBut(n, Mine(reach, n), wire, reach, joined)
  BY InvFacts, NoneTaken
<1>4. WiresOk(Sent(wire, sends), reach, joined)
  <2> HIDE DEF sends, n
  <2> QED BY <1>1, <1>2, <1>3, SendWires
<1>5. wire' = Sent(wire, sends) /\ UNCHANGED <<alive, joined, broken, routes, reach, egress, serving, rejected>>
  BY DEF Ask, routeVars
<1>6. calls' \in [Calls -> {"new", "sent", "reply", "dead"}]
  <2>1. calls' = [calls EXCEPT ![c] = IF sends = {} THEN "dead" ELSE "sent"]
    BY DEF Ask
  <2> QED BY <2>1 DEF RoutingInv, RoutingTypeOK
<1> HIDE DEF sends
<1> QED BY <1>4, <1>5, <1>6 DEF RoutingInv, RoutingTypeOK

LEMMA ReplyKeeps ==
  ASSUME RoutingInv, NEW c \in Calls, Reply(c)
  PROVE  RoutingInv'
<1> DEFINE n == To[c]
           m == Message("reply", n, From[c], c)
           sends == Originate(n, m)
<1>1. /\ n \in Nodes /\ From[c] \in Nodes /\ From[c] # n /\ n \in joined /\ m \in Msgs
      /\ m.kind \in Ordinary /\ m.about \in Calls /\ m.src = n /\ m.dst # n
  <2>1. n \in Nodes /\ From[c] \in Nodes /\ From[c] # n
    BY RoutingAssumption DEF RoutingAssumption
  <2>2. n \in joined
    BY InvFacts DEF Reply
  <2> QED BY <2>1, <2>2 DEF Message, Msgs, Ordinary
<1>2. SendsOk(n, sends, Mine(reach, n), Mine(reach, n))
  <2> HIDE DEF m, n
  <2> QED BY <1>1, InvFacts, OriginateOk
<1>3. AllBut(n, Mine(reach, n), wire, reach, joined)
  BY InvFacts, NoneTaken
<1>4. WiresOk(Sent(wire, sends), reach, joined)
  <2> HIDE DEF sends, n
  <2> QED BY <1>1, <1>2, <1>3, SendWires
<1>5. wire' = Sent(wire, sends) /\ UNCHANGED <<alive, joined, broken, routes, reach, egress, calls, rejected>>
  BY DEF Reply, routeVars
<1>6. serving' \subseteq Calls
  BY DEF Reply, RoutingInv, RoutingTypeOK
<1> HIDE DEF sends
<1> QED BY <1>4, <1>5, <1>6 DEF RoutingInv, RoutingTypeOK

LEMMA DeliverKeeps ==
  ASSUME RoutingInv, NEW n, NEW in, <<in, n>> \in Links, Deliver(n, in)
  PROVE  RoutingInv'
<1> DEFINE m == Head(wire[<<in, n>>])
<1>1. Arrives(n, in) /\ m.kind \in Ordinary
  BY DEF Deliver, Ordinary
<1>2. AllBut(n, Mine(reach, n), Taken(n, in), reach, joined) /\ n \in Nodes /\ n \in joined
  BY <1>1, TakenOrdinary
<1>3. WiresOk(Taken(n, in), reach, joined)
  BY <1>2, TakeWires
<1>4. m \in Msgs /\ m.about \in Calls
  <2>1. (in \in Others /\ n = Up[in]) \/ (n \in Others /\ in = Up[n])
    BY LinksAre
  <2>2. (in \in Others /\ m \in UpMsgs(in)) \/ (n \in Others /\ m \in DownMsgs(n))
    BY <2>1, <1>1, ArrivedUp, ArrivedDown
  <2> HIDE DEF m
  <2> QED BY <2>2, <1>1 DEF UpMsgs, DownMsgs, Ordinary
<1>5. /\ wire' = Taken(n, in) /\ UNCHANGED <<alive, joined, broken, routes, reach, rejected>>
      /\ egress' = Noted(n, in, m)
      /\ serving' = IF m.kind = "call" THEN serving \cup {m.about} ELSE serving
      /\ calls' = IF m.kind = "call" THEN calls ELSE Answer(m.about, m.kind)
      /\ m.kind \in {"call", "reply", "dead"}
  BY DEF Deliver
<1> HIDE DEF m
<1>6. egress' \in [Links -> SUBSET Nodes]
  BY <1>4, <1>5, NotedOk DEF RoutingInv
<1>7. calls' \in [Calls -> {"new", "sent", "reply", "dead"}] /\ serving' \subseteq Calls
  <2>1. m.kind # "call" => Answer(m.about, m.kind) \in [Calls -> {"new", "sent", "reply", "dead"}]
    BY <1>4, <1>5 DEF Answer, RoutingInv, RoutingTypeOK
  <2> QED BY <2>1, <1>4, <1>5 DEF RoutingInv, RoutingTypeOK
<1> QED BY <1>3, <1>5, <1>6, <1>7 DEF RoutingInv, RoutingTypeOK

LEMMA ForwardKeeps ==
  ASSUME RoutingInv, NEW n, NEW in, <<in, n>> \in Links, Forward(n, in)
  PROVE  RoutingInv'
<1> DEFINE m == Head(wire[<<in, n>>])
           out == WayOut(n, m.src, m.dst, in)
           M == Mine(reach, n)
           reply == Message("dead", n, m.src, m.about)
           back == IF m.kind = "call" THEN Originate(n, reply) ELSE {}
           sends == IF out = NoWay \/ Forbidden(n, in, out) THEN back ELSE {<<<<n, out>>, m>>}
<1>1. Arrives(n, in) /\ m.dst # n /\ Verified(n, m.src, in)
  BY DEF Forward
<1>2. /\ egress' = Noted(n, in, m) /\ wire' = Sent(Taken(n, in), sends)
      /\ UNCHANGED <<alive, joined, broken, routes, reach, serving, calls, rejected>>
  BY DEF Forward
<1>3. (in \in Others /\ n = Up[in]) \/ (n \in Others /\ in = Up[n])
  BY LinksAre
<1>4. /\ (in \in Others /\ n = Up[in] /\ m \in UpMsgs(in)) \/ (n \in Others /\ in = Up[n] /\ m \in DownMsgs(n))
      /\ n \in Nodes /\ m.src # n
  <2>1. ASSUME in \in Others, n = Up[in] PROVE m \in UpMsgs(in) /\ n \in Nodes /\ m.src # n
    <3>1. Arrives(n, in)
      BY <1>1
    <3>2. m = Head(wire[<<in, n>>])
      OBVIOUS
    <3> HIDE DEF m
    <3>3. m \in UpMsgs(in) /\ n \in Nodes
      BY <2>1, <3>1, <3>2, ArrivedUp
    <3>4. m.src \in Under(in)
      BY <3>3 DEF UpMsgs
    <3> QED BY <2>1, <3>3, <3>4, Family
  <2>2. n \in Others /\ in = Up[n] => m \in DownMsgs(n) /\ n \in Nodes /\ m.src # n
    BY <1>1, ArrivedDown
  <2> HIDE DEF m
  <2> QED BY <2>1, <2>2, <1>3
<1>5. m \in Msgs /\ m.kind \in Ordinary /\ m.about \in Calls /\ m.src \in Nodes /\ m.dst \in Nodes
  <2> HIDE DEF m
  <2> QED BY <1>1, <1>4 DEF UpMsgs, DownMsgs, Msgs
<1>6. AllBut(n, M, Taken(n, in), reach, joined) /\ n \in joined
  BY <1>1, <1>5, TakenOrdinary
<1>7. SendsOk(n, back, M, M)
  <2>1. CASE m.kind = "call"
    <3>1. reply \in Msgs /\ reply.kind \in Ordinary /\ reply.about \in Calls /\ reply.src = n /\ reply.dst # n
      <4> HIDE DEF m
      <4> QED BY <1>4, <1>5 DEF Message, Msgs, Ordinary
    <3>2. Tables(routes, reach, joined)
      BY InvFacts
    <3> HIDE DEF reply
    <3>3. SendsOk(n, Originate(n, reply), M, M)
      BY <3>1, <3>2, <1>4, OriginateOk
    <3> QED BY <3>3, <2>1
  <2>2. CASE m.kind # "call"
    BY <2>2, SendNone
  <2> QED BY <2>1, <2>2
<1>8. ASSUME out # NoWay PROVE SendsOk(n, {<<<<n, out>>, m>>}, M, M)
  <2>1. \/ out \in Others /\ Up[out] = n /\ m.dst \in reach[<<n, out>>]
        \/ /\ n # Root /\ out = Up[n] /\ routes[n][m.dst] \notin Kids[n]
           /\ m.dst = Up[n] \/ MayGoUp(n, m.src, in)
    <3> HIDE DEF out, m
    <3>1. out = WayOut(n, m.src, m.dst, in)
      BY DEF out
    <3> QED BY <1>4, <1>5, <1>8, <3>1, Ways, InvFacts
  <2>2. Tables(routes, reach, joined)
    BY InvFacts
  <2>3. CASE in \in Others /\ n = Up[in]
    <3>1. m \in UpMsgs(in) /\ m.src \in reach[<<n, in>>] /\ m.dst \notin reach[<<n, in>>] /\ routes[n][m.src] = in
      BY <1>1, <1>5, <2>3, ArrivedUp
    <3> HIDE DEF out, m
    <3>2. m.src \in Under(in)
      BY <3>1 DEF UpMsgs
    <3>3. CASE out \in Others /\ Up[out] = n /\ m.dst \in reach[<<n, out>>]
      <4>1. out # in /\ m.dst \in Under(out)
        BY <3>1, <3>3, <2>2, KidFacts
      <4>2. m.src \notin Under(out)
        BY <4>1, <3>2, <3>3, <2>3, Siblings
      <4>3. m \in DownMsgs(out)
        BY <4>1, <4>2, <1>5 DEF DownMsgs
      <4> QED BY <4>3, <3>3, <1>4, <1>5, SendOne
    <3>4. CASE n # Root /\ out = Up[n] /\ routes[n][m.dst] \notin Kids[n]
      <4>1. in \in Kids[n]
        BY <2>3, <2>2, KidFacts
      <4>2. m.src \in M /\ m.dst \notin M
        BY <4>1, <3>1, <3>4, <2>2, <1>1, <1>4, <1>5, MineUnder
      <4>3. m.src \in Under(n)
        BY <3>2, <2>3, Family
      <4>4. m \in UpMsgs(n)
        BY <4>3, <1>5 DEF UpMsgs
      <4> HIDE DEF M
      <4> QED BY <4>2, <4>4, <3>4, <1>4, <1>5, SendOne
    <3> QED BY <2>1, <3>3, <3>4
  <2>4. CASE n \in Others /\ in = Up[n]
    <3>1. m \in DownMsgs(n) /\ Parent(n) = in /\ Stream(n, m.src) = Parent(n)
      BY <1>1, <2>4, ArrivedDown
    <3> HIDE DEF out, m
    <3>2. m.src \notin Under(n) /\ m.dst \in Under(n)
      BY <3>1 DEF DownMsgs
    <3>3. CASE out \in Others /\ Up[out] = n /\ m.dst \in reach[<<n, out>>]
      <4>1. m.dst \in Under(out) /\ m.src \notin Under(out)
        BY <3>2, <3>3, <2>2, KidFacts, Family
      <4>2. m \in DownMsgs(out)
        BY <4>1, <1>5 DEF DownMsgs
      <4> QED BY <4>2, <3>3, <1>4, <1>5, SendOne
    <3>4. CASE m.dst = Up[n] \/ MayGoUp(n, m.src, in)
      <4>1. m.dst # Up[n]
        BY <3>2, <2>4, Family
      <4>2. in # NoWay
        BY <2>4, Family, RoutingAssumption DEF RoutingAssumption
      <4> QED BY <4>1, <4>2, <3>1, <3>4 DEF MayGoUp
    <3> QED BY <2>1, <3>3, <3>4
  <2> QED BY <2>3, <2>4, <1>3
<1>9. SendsOk(n, sends, M, M)
  <2> HIDE DEF out, back, m
  <2> QED BY <1>7, <1>8
<1>10. WiresOk(Sent(Taken(n, in), sends), reach, joined)
  <2> HIDE DEF sends
  <2> QED BY <1>4, <1>6, <1>9, SendWires
<1>11. egress' \in [Links -> SUBSET Nodes]
  BY <1>2, <1>5, NotedOk DEF RoutingInv
<1> HIDE DEF sends, m
<1> QED BY <1>2, <1>10, <1>11 DEF RoutingInv, RoutingTypeOK

LEMMA DieKeeps ==
  ASSUME RoutingInv, NEW k \in Others, Die(k) \/ Sever(k)
  PROVE  RoutingInv'
<1>1. Lives(alive', joined', broken', reach')
  <2>1. /\ alive \subseteq joined /\ joined \subseteq Nodes /\ broken \subseteq joined \ {Root} /\ Root \in alive
        /\ \A j \in joined \cap Others : /\ j \in alive \/ j \in broken
                                         /\ Up[j] \in alive \/ j \in broken
                                         /\ Up[j] \in joined
                                         /\ j \in reach[<<Up[j], j>>] \/ j \in broken
    BY InvFacts DEF Lives
  <2>2. k \in Nodes /\ k # Root
    BY Family
  <2>3. CASE Sever(k)
    <3>1. alive' = alive /\ joined' = joined /\ broken' = broken \cup {k} /\ reach' = reach /\ k \in alive
      BY <2>3 DEF Sever, routeVars
    <3> QED BY <2>1, <2>2, <3>1 DEF Lives
  <2>4. CASE Die(k)
    <3>1. /\ alive' = alive \ {k} /\ joined' = joined /\ broken' = broken \cup {k} \cup (Kids[k] \cap joined)
          /\ reach' = reach /\ k \in alive
      BY <2>4 DEF Die, routeVars
    <3>2. \A j \in Kids[k] : j # Root
      BY KidsAre, <2>2 DEF Others
    <3>3. ASSUME NEW j \in joined \cap Others
          PROVE  /\ j \in alive' \/ j \in broken'
                 /\ Up[j] \in alive' \/ j \in broken'
                 /\ Up[j] \in joined
                 /\ j \in reach[<<Up[j], j>>] \/ j \in broken'
      <4>1. Up[j] = k => j \in Kids[k]
        BY <2>1, <2>2, KidsAre
      <4> QED BY <4>1, <2>1, <3>1
    <3>4. alive' \subseteq joined /\ broken' \subseteq joined \ {Root} /\ Root \in alive'
      BY <2>1, <2>2, <3>1, <3>2
    <3> QED BY <2>1, <3>1, <3>3, <3>4 DEF Lives
  <2> QED BY <2>3, <2>4
<1>2. UNCHANGED <<joined, routes, reach, egress, wire, serving, calls, rejected>>
  BY DEF Die, Sever, routeVars
<1>3. alive' \subseteq joined' /\ broken' \subseteq joined'
  BY <1>1 DEF Lives
<1> QED BY <1>1, <1>2, <1>3 DEF RoutingInv, RoutingTypeOK

LEMMA DisconnectedOk ==
  ASSUME RoutingTypeOK, NEW n, NEW T
  PROVE  Disconnected(n, T) \in [Calls -> {"new", "sent", "reply", "dead"}]
BY DEF RoutingTypeOK, Disconnected

\* What a step may do to the books.
LEMMA LivesOn ==
  ASSUME NEW A, NEW J, NEW K, NEW H, NEW H2, Lives(A, J, K, H),
         \A k \in Others : k \in H[<<Up[k], k>>] => k \in H2[<<Up[k], k>>] \/ k \in K
  PROVE  Lives(A, J, K, H2)
BY DEF Lives

LEMMA OnAddKeeps ==
  ASSUME RoutingInv, NEW n, NEW in, <<in, n>> \in Links, OnAddRoute(n, in)
  PROVE  RoutingInv'
<1> DEFINE m == Head(wire[<<in, n>>])
           t == m.about
           fresh == routes[n][t] = NoWay
           M == Mine(reach, n)
           H2 == [reach EXCEPT ![<<n, in>>] = @ \cup {t}]
<1>1. Arrives(n, in) /\ m.kind = "add"
  BY DEF OnAddRoute
<1>2. /\ egress' = Noted(n, in, m)
      /\ routes' = IF fresh THEN AddRoute(n, t, in) ELSE routes
      /\ reach' = IF fresh THEN H2 ELSE reach
      /\ wire' = Sent(Taken(n, in), IF fresh THEN UpNews(n, "add", {t}) ELSE {})
      /\ UNCHANGED <<alive, joined, broken, serving, calls, rejected>>
  BY DEF OnAddRoute
<1>3. /\ in \in Others /\ n = Up[in] /\ m \in UpMsgs(in) /\ in \in reach[<<n, in>>]
      /\ n \in joined /\ n \in Nodes /\ wire[<<in, n>>] # <<>>
  <2>1. (in \in Others /\ n = Up[in]) \/ (n \in Others /\ in = Up[n])
    BY LinksAre
  <2>2. ~(n \in Others /\ in = Up[n])
    <3>1. n \in Others /\ in = Up[n] => m \in DownMsgs(n)
      BY <1>1, ArrivedDown
    <3> HIDE DEF m
    <3> QED BY <3>1, <1>1 DEF DownMsgs, Ordinary
  <2>3. in \in Others /\ n = Up[in]
    BY <2>1, <2>2
  <2> QED BY <2>3, <1>1, ArrivedUp
<1>4. m \in Msgs /\ t \in Under(in) /\ t # in /\ t \in Nodes
  <2> HIDE DEF m
  <2> QED BY <1>1, <1>3 DEF UpMsgs, Under, Ordinary
<1>5. Tables(routes, reach, joined) /\ WiresOk(wire, reach, joined) /\ Lives(alive, joined, broken, reach)
  BY InvFacts
<1>6. <<n, in>> \in Links /\ in \in joined /\ in \in Kids[n] /\ reach \in [Links -> SUBSET Nodes]
  <2>1. <<n, in>> \in Links /\ in \in Kids[n] /\ (reach[<<n, in>>] # {} => in \in joined)
    BY <1>3, <1>5, KidFacts
  <2> QED BY <2>1, <1>3, <1>5 DEF Tables
<1>7. egress' \in [Links -> SUBSET Nodes]
  <2> HIDE DEF m
  <2> QED BY <1>2, <1>4, NotedOk DEF RoutingInv
<1>8. Heard(reach[<<n, in>>], m) = reach[<<n, in>>] \cup {t}
  BY <1>1 DEF Heard
<1>9. Taken(n, in) = [wire EXCEPT ![<<in, n>>] = Tail(@)]
  BY DEF Taken
<1>10. t \in Under(n) /\ t # n
  BY <1>3, <1>4, Family
<1> HIDE DEF m, t
<1>11. CASE fresh
  <2>1. H2[<<n, in>>] = reach[<<n, in>>] \cup {t}
    BY <1>6
  <2>2. \A k \in Others : k # in => H2[<<Up[k], k>>] = reach[<<Up[k], k>>]
    BY <1>6, LinksAre
  <2>3. \A k \in Others : H2[<<Up[k], k>>] = IF k = in THEN Heard(reach[<<n, in>>], m) ELSE reach[<<Up[k], k>>]
    BY <2>1, <2>2, <1>3, <1>8
  <2>4. Tables(AddRoute(n, t, in), H2, joined)
    <3>1. Tables([routes EXCEPT ![n][t] = in], H2, joined)
      BY <1>3, <1>4, <1>5, <1>6, TableAdd
    <3> QED BY <3>1 DEF AddRoute
  <2>0. H2 \in [Links -> SUBSET Nodes]
    BY <1>4, <1>6
  <2> HIDE DEF H2
  <2>5. AllBut(n, M, Taken(n, in), H2, joined)
    <3>1. AllBut(n, M, [wire EXCEPT ![<<in, n>>] = Tail(@)], H2, joined)
      <4>1. m = Head(wire[<<in, n>>])
        BY DEF m
      <4> QED BY <4>1, <1>3, <1>5, <2>3, TakenUp
    <3> QED BY <3>1, <1>9
  <2>6. SendsOk(n, UpNews(n, "add", {t}) \cup {}, M, Changed(M, "add", {t}))
    <3>1. {t} \in SUBSET (Under(n) \ {n}) /\ {} \in SUBSET ToKids(n) /\ n \in M
      BY <1>3, <1>5, <1>10, MineUnder
    <3> HIDE DEF M
    <3> QED BY <3>1, <1>3, SendNews
  <2>7. Mine(H2, n) = Changed(M, "add", {t})
    BY <1>3, <2>1, <2>2, MineMore
  <2>8. SendsOk(n, UpNews(n, "add", {t}), M, Mine(H2, n))
    <3>1. UpNews(n, "add", {t}) \cup {} = UpNews(n, "add", {t})
      OBVIOUS
    <3> QED BY <3>1, <2>6, <2>7
  <2>9. WiresOk(Sent(Taken(n, in), UpNews(n, "add", {t})), H2, joined)
    <3> HIDE DEF M
    <3> QED BY <1>3, <2>5, <2>8, SendWires
  <2>10. Lives(alive, joined, broken, H2)
    <3>1. \A k \in Others : k \in reach[<<Up[k], k>>] => k \in H2[<<Up[k], k>>] \/ k \in broken
      BY <2>1, <2>2, <1>3
    <3> QED BY <3>1, <1>5, LivesOn
  <2>11. routes' = AddRoute(n, t, in) /\ reach' = H2 /\ wire' = Sent(Taken(n, in), UpNews(n, "add", {t}))
    BY <1>2, <1>11
  <2>12. routes' \in [Nodes -> [Nodes -> Nodes \cup {NoWay}]]
    BY <2>4, <2>11 DEF Tables
  <2> QED BY <2>0, <2>4, <2>9, <2>10, <2>11, <2>12, <1>2, <1>7 DEF RoutingInv, RoutingTypeOK
<1>12. CASE ~fresh
  <2>1. t \in reach[<<n, in>>]
    <3>1. routes[n][t] \in Kids[n]
      <4>1. /\ routes[n][t] \in Kids[n] \cup {NoWay, Parent(n)}
            /\ n # Root /\ routes[n][t] = Up[n] => t = Up[n]
        BY <1>3, <1>4, <1>5 DEF Tables, TableOk
      <4>2. n # Root => t # Up[n]
        <5>1. n # Root => n \in Others
          BY <1>3 DEF Others
        <5> QED BY <5>1, <1>10, Family
      <4> QED BY <4>1, <4>2, <1>12 DEF Parent
    <3>2. PICK j \in Others : Up[j] = n /\ routes[n][t] = j
      BY <3>1, <1>3, KidsAre DEF Others
    <3>3. t \in reach[<<n, j>>]
      BY <3>2, <1>4, <1>5, KidFacts
    <3>4. j = in
      BY <3>2, <3>3, <1>3, <1>4, <1>5, Apart
    <3> QED BY <3>3, <3>4
  <2>2. \A k \in Others : reach[<<Up[k], k>>] = IF k = in THEN Heard(reach[<<n, in>>], m) ELSE reach[<<Up[k], k>>]
    BY <2>1, <1>3, <1>8
  <2>3. AllBut(n, M, Taken(n, in), reach, joined)
    <3>1. AllBut(n, M, [wire EXCEPT ![<<in, n>>] = Tail(@)], reach, joined)
      <4>1. m = Head(wire[<<in, n>>])
        BY DEF m
      <4> QED BY <4>1, <1>3, <1>5, <2>2, TakenUp
    <3> QED BY <3>1, <1>9
  <2>4. WiresOk(Sent(Taken(n, in), {}), reach, joined)
    <3>1. SendsOk(n, {}, M, M)
      BY SendNone
    <3> QED BY <3>1, <2>3, <1>3, SendWires
  <2>5. routes' = routes /\ reach' = reach /\ wire' = Sent(Taken(n, in), {})
    BY <1>2, <1>12
  <2> QED BY <2>4, <2>5, <1>2, <1>7 DEF RoutingInv, RoutingTypeOK
<1> QED BY <1>11, <1>12

\* A child tells n that t is gone.
LEMMA OnDelUpKeeps ==
  ASSUME RoutingInv, NEW in \in Others, NEW n, n = Up[in], OnDelRoute(n, in)
  PROVE  RoutingInv'
<1> DEFINE m == Head(wire[<<in, n>>])
           t == m.about
           agreed == Stream(n, t) = in
           M == Mine(reach, n)
           H2 == [reach EXCEPT ![<<n, in>>] = @ \ {t}]
           sends == DownNews(n, {t}) \cup UpNews(n, "del", {t})
<1>1. Arrives(n, in) /\ m.kind = "del"
  BY DEF OnDelRoute
<1>3. /\ m \in UpMsgs(in) /\ in \in reach[<<n, in>>]
      /\ n \in joined /\ n \in Nodes /\ wire[<<in, n>>] # <<>>
  BY <1>1, ArrivedUp
<1>3a. in # Parent(n) /\ in # NoWay
  <2>1. n # Root => in # Up[n]
    BY Family
  <2>2. in # NoWay
    BY Family, RoutingAssumption DEF RoutingAssumption
  <2> QED BY <2>1, <2>2 DEF Parent
<1>2. /\ egress' = Noted(n, in, m)
      /\ calls' = IF agreed THEN Disconnected(n, {t}) ELSE calls
      /\ routes' = IF agreed THEN DelRoute(n, {t}) ELSE routes
      /\ reach' = IF agreed THEN H2 ELSE reach
      /\ wire' = Sent(Taken(n, in), IF ~agreed THEN {} ELSE sends)
      /\ UNCHANGED <<alive, joined, broken, serving, rejected>>
  BY <1>3a DEF OnDelRoute
<1>4. m \in Msgs /\ t \in Under(in) /\ t # in /\ t \in Nodes
  <2> HIDE DEF m
  <2> QED BY <1>1, <1>3 DEF UpMsgs, Under, Ordinary
<1>5. Tables(routes, reach, joined) /\ WiresOk(wire, reach, joined) /\ Lives(alive, joined, broken, reach)
  BY InvFacts
<1>6. <<n, in>> \in Links /\ in \in joined /\ in \in Kids[n] /\ reach \in [Links -> SUBSET Nodes]
  <2>1. <<n, in>> \in Links /\ in \in Kids[n] /\ (reach[<<n, in>>] # {} => in \in joined)
    BY <1>5, KidFacts
  <2> QED BY <2>1, <1>3, <1>5 DEF Tables
<1>7. egress' \in [Links -> SUBSET Nodes]
  <2> HIDE DEF m
  <2> QED BY <1>2, <1>4, NotedOk DEF RoutingInv
<1>8. Heard(reach[<<n, in>>], m) = reach[<<n, in>>] \ {t}
  BY <1>1 DEF Heard
<1>9. Taken(n, in) = [wire EXCEPT ![<<in, n>>] = Tail(@)]
  BY DEF Taken
<1>10. t \in Under(n) /\ t # n
  BY <1>4, Family
<1>m. m = Head(wire[<<in, n>>])
  OBVIOUS
<1> HIDE DEF m, t
<1>11. CASE agreed
  <2>1. H2[<<n, in>>] = reach[<<n, in>>] \ {t}
    BY <1>6
  <2>2. \A k \in Others : k # in => H2[<<Up[k], k>>] = reach[<<Up[k], k>>]
    BY <1>6, LinksAre
  <2>3. \A k \in Others : H2[<<Up[k], k>>] = IF k = in THEN Heard(reach[<<n, in>>], m) ELSE reach[<<Up[k], k>>]
    BY <2>1, <2>2, <1>8
  <2>0. H2 \in [Links -> SUBSET Nodes]
    BY <1>4, <1>6
  <2> HIDE DEF H2
  <2>4. Tables(DelRoute(n, {t}), H2, joined)
    <3>1. ASSUME NEW j \in Others
          PROVE  H2[<<Up[j], j>>] = IF Up[j] = n THEN reach[<<Up[j], j>>] \ {t} ELSE reach[<<Up[j], j>>]
      <4>1. CASE j = in
        BY <4>1, <2>1
      <4>2. CASE j # in /\ Up[j] = n
        <5>1. t \notin reach[<<Up[j], j>>]
          BY <4>2, <1>4, <1>5, Apart
        <5> QED BY <5>1, <4>2, <2>2
      <4>3. CASE j # in /\ Up[j] # n
        BY <4>3, <2>2
      <4> QED BY <4>1, <4>2, <4>3
    <3>2. ASSUME NEW j \in Others, Up[j] = n, j \in {t} PROVE reach[<<n, j>>] \subseteq {t}
      <4>1. t \in Under(j)
        BY <3>2, Family
      <4> QED BY <4>1, <3>2, <1>4, Siblings
    <3>3. Tables(Without(routes, n, {t}), H2, joined)
      <4>1. {t} \in SUBSET Nodes
        BY <1>4
      <4> QED BY <4>1, <3>1, <3>2, <2>0, <1>3, <1>5, TableDel
    <3> QED BY <3>3 DEF Without, DelRoute
  <2>5. AllBut(n, M, Taken(n, in), H2, joined)
    <3>1. AllBut(n, M, [wire EXCEPT ![<<in, n>>] = Tail(@)], H2, joined)
      BY <1>m, <1>3, <1>5, <2>3, TakenUp
    <3> QED BY <3>1, <1>9
  <2>6. SendsOk(n, sends, M, Changed(M, "del", {t}))
    <3>1. {t} \in SUBSET (Under(n) \ {n}) /\ n \in M /\ {t} \in SUBSET Nodes
      BY <1>3, <1>4, <1>5, <1>10, MineUnder
    <3>2. DownNews(n, {t}) \in SUBSET ToKids(n)
      BY <3>1, <1>3, DownNewsIs
    <3> HIDE DEF M
    <3>3. SendsOk(n, UpNews(n, "del", {t}) \cup DownNews(n, {t}), M, Changed(M, "del", {t}))
      BY <3>1, <3>2, <1>3, SendNews
    <3>4. UpNews(n, "del", {t}) \cup DownNews(n, {t}) = sends
      OBVIOUS
    <3> QED BY <3>3, <3>4
  <2>7. Mine(H2, n) = Changed(M, "del", {t})
    <3>1. {t} \in SUBSET Under(in)
      BY <1>4
    <3> QED BY <3>1, <1>5, <2>1, <2>2, MineLess
  <2> HIDE DEF sends
  <2>9. WiresOk(Sent(Taken(n, in), sends), H2, joined)
    <3>1. SendsOk(n, sends, M, Mine(H2, n))
      BY <2>6, <2>7
    <3> HIDE DEF M
    <3> QED BY <3>1, <1>3, <2>5, SendWires
  <2>10. Lives(alive, joined, broken, H2)
    <3>1. \A k \in Others : k \in reach[<<Up[k], k>>] => k \in H2[<<Up[k], k>>] \/ k \in broken
      BY <2>1, <2>2, <1>4
    <3> QED BY <3>1, <1>5, LivesOn
  <2>11. /\ routes' = DelRoute(n, {t}) /\ reach' = H2 /\ wire' = Sent(Taken(n, in), sends)
         /\ calls' = Disconnected(n, {t})
    BY <1>2, <1>11
  <2>12. routes' \in [Nodes -> [Nodes -> Nodes \cup {NoWay}]]
    BY <2>4, <2>11 DEF Tables
  <2>13. calls' \in [Calls -> {"new", "sent", "reply", "dead"}]
    BY <2>11, DisconnectedOk DEF RoutingInv
  <2> QED BY <2>0, <2>4, <2>9, <2>10, <2>11, <2>12, <2>13, <1>2, <1>7 DEF RoutingInv, RoutingTypeOK
<1>12. CASE ~agreed
  <2>1. t \notin reach[<<n, in>>]
    <3>1. routes[n][t] # in
      BY <1>3a, <1>12 DEF Stream
    <3> QED BY <3>1, <1>4, <1>5, KidFacts
  <2>2. \A k \in Others : reach[<<Up[k], k>>] = IF k = in THEN Heard(reach[<<n, in>>], m) ELSE reach[<<Up[k], k>>]
    BY <2>1, <1>8
  <2>3. AllBut(n, M, Taken(n, in), reach, joined)
    <3>1. AllBut(n, M, [wire EXCEPT ![<<in, n>>] = Tail(@)], reach, joined)
      BY <1>m, <1>3, <1>5, <2>2, TakenUp
    <3> QED BY <3>1, <1>9
  <2>4. WiresOk(Sent(Taken(n, in), {}), reach, joined)
    <3>1. SendsOk(n, {}, M, M)
      BY SendNone
    <3> QED BY <3>1, <2>3, <1>3, SendWires
  <2>5. routes' = routes /\ reach' = reach /\ wire' = Sent(Taken(n, in), {}) /\ calls' = calls
    BY <1>2, <1>12
  <2> QED BY <2>4, <2>5, <1>2, <1>7 DEF RoutingInv, RoutingTypeOK
<1> QED BY <1>11, <1>12

\* The parent of n tells it that t is gone.
LEMMA OnDelDownKeeps ==
  ASSUME RoutingInv, NEW n \in Others, NEW in, in = Up[n], OnDelRoute(n, in)
  PROVE  RoutingInv'
<1> DEFINE m == Head(wire[<<in, n>>])
           t == m.about
           agreed == Stream(n, t) = in
           M == Mine(reach, n)
           H2 == [reach EXCEPT ![<<n, in>>] = @ \ {t}]
           sends == DownNews(n, {t}) \cup {}
<1>1. Arrives(n, in) /\ m.kind = "del"
  BY DEF OnDelRoute
<1>3. /\ m \in DownMsgs(n) /\ n \in joined /\ n \in Nodes /\ wire[<<in, n>>] # <<>> /\ Parent(n) = in
  BY <1>1, ArrivedDown
<1>2. /\ egress' = Noted(n, in, m)
      /\ calls' = IF agreed THEN Disconnected(n, {t}) ELSE calls
      /\ routes' = IF agreed THEN DelRoute(n, {t}) ELSE routes
      /\ reach' = IF agreed THEN H2 ELSE reach
      /\ wire' = Sent(Taken(n, in), IF ~agreed THEN {} ELSE sends)
      /\ UNCHANGED <<alive, joined, broken, serving, rejected>>
  BY <1>3 DEF OnDelRoute
<1>4. m \in Msgs /\ t \in Nodes
  <2> HIDE DEF m
  <2> QED BY <1>1, <1>3 DEF DownMsgs, Ordinary
<1>5. Tables(routes, reach, joined) /\ WiresOk(wire, reach, joined) /\ Lives(alive, joined, broken, reach)
  BY InvFacts
<1>6. reach \in [Links -> SUBSET Nodes]
  BY <1>5 DEF Tables
<1>7. egress' \in [Links -> SUBSET Nodes]
  <2> HIDE DEF m
  <2> QED BY <1>2, <1>4, NotedOk DEF RoutingInv
<1>9. Taken(n, in) = [wire EXCEPT ![<<in, n>>] = Tail(@)]
  BY DEF Taken
<1> HIDE DEF m, t
<1>10. \A k \in Others : H2[<<Up[k], k>>] = reach[<<Up[k], k>>]
  <2>1. ASSUME NEW k \in Others PROVE H2[<<Up[k], k>>] = reach[<<Up[k], k>>]
    <3>1. <<Up[k], k>> # <<n, in>>
      <4>1. SUFFICES ASSUME Up[k] = n, k = Up[n] PROVE FALSE
        OBVIOUS
      <4>2. n # Root /\ k # Root
        BY DEF Others
      <4> QED BY <4>1, <4>2, Family
    <3> QED BY <3>1, <1>6, LinksAre
  <2> QED BY <2>1
<1>11. H2 \in [Links -> SUBSET Nodes]
  BY <1>6
<1> HIDE DEF H2
<1>12. CASE agreed
  <2>1. routes[n][t] \notin Kids[n]
    <3>1. in \notin Kids[n] /\ in # NoWay
      <4>1. SUFFICES ASSUME in \in Kids[n] PROVE FALSE
        BY Family, RoutingAssumption DEF RoutingAssumption
      <4>2. n # Root /\ in \in Others /\ in # Root /\ Up[in] = n
        BY <4>1, <1>3, KidsAre DEF Others
      <4> QED BY <4>2, Family
    <3>2. NoWay \notin Kids[n]
      BY <1>3, RoutingAssumption DEF RoutingAssumption, Kids
    <3> QED BY <3>1, <3>2, <1>12 DEF Stream
  <2>2. \A j \in Others : Up[j] = n => t \notin reach[<<n, j>>]
    <3>1. ASSUME NEW j \in Others, Up[j] = n PROVE t \notin reach[<<n, j>>]
      <4>1. j \in Kids[n] /\ (routes[n][t] = j <=> t \in reach[<<n, j>>])
        BY <3>1, <1>4, <1>5, KidFacts
      <4> QED BY <4>1, <2>1
    <3> QED BY <3>1
  <2>4. Tables(DelRoute(n, {t}), H2, joined)
    <3>1. \A j \in Others : H2[<<Up[j], j>>] = IF Up[j] = n THEN reach[<<Up[j], j>>] \ {t} ELSE reach[<<Up[j], j>>]
      BY <1>10, <2>2
    <3>2. ASSUME NEW j \in Others, Up[j] = n, j \in {t} PROVE reach[<<n, j>>] \subseteq {t}
      <4>1. j \notin reach[<<n, j>>]
        BY <3>2, <2>2
      <4> QED BY <4>1, <3>2, <1>5, KidFacts
    <3>3. Tables(Without(routes, n, {t}), H2, joined)
      <4>1. {t} \in SUBSET Nodes
        BY <1>4
      <4> QED BY <4>1, <3>1, <3>2, <1>11, <1>3, <1>5, TableDel
    <3> QED BY <3>3 DEF Without, DelRoute
  <2>5. AllBut(n, M, Taken(n, in), H2, joined)
    <3>1. AllBut(n, M, [wire EXCEPT ![<<in, n>>] = Tail(@)], H2, joined)
      BY <1>3, <1>5, <1>10, TakenDown
    <3> QED BY <3>1, <1>9
  <2>6. SendsOk(n, sends, M, M)
    <3>1. {} \in SUBSET (Under(n) \ {n}) /\ n \in M /\ {t} \in SUBSET Nodes
      BY <1>3, <1>4, <1>5, MineUnder
    <3>2. DownNews(n, {t}) \in SUBSET ToKids(n)
      BY <3>1, <1>3, DownNewsIs
    <3> HIDE DEF M
    <3>3. SendsOk(n, UpNews(n, "del", {}) \cup DownNews(n, {t}), M, Changed(M, "del", {}))
      BY <3>1, <3>2, <1>3, SendNews
    <3>4. UpNews(n, "del", {}) \cup DownNews(n, {t}) = sends
      BY DEF UpNews
    <3>5. Changed(M, "del", {}) = M
      BY DEF Changed
    <3> QED BY <3>3, <3>4, <3>5
  <2>7. Mine(H2, n) = M
    <3>1. \A j \in Kids[n] : j \in Others /\ Up[j] = n
      BY <1>3, KidsAre DEF Others
    <3>2. \A j \in Kids[n] : H2[<<n, j>>] = reach[<<n, j>>]
      BY <3>1, <1>10
    <3> QED BY <3>2, SameMine
  <2> HIDE DEF sends
  <2>9. WiresOk(Sent(Taken(n, in), sends), H2, joined)
    <3>1. SendsOk(n, sends, M, Mine(H2, n))
      BY <2>6, <2>7
    <3> HIDE DEF M
    <3> QED BY <3>1, <1>3, <2>5, SendWires
  <2>10. Lives(alive, joined, broken, H2)
    <3>1. \A k \in Others : k \in reach[<<Up[k], k>>] => k \in H2[<<Up[k], k>>] \/ k \in broken
      BY <1>10
    <3> QED BY <3>1, <1>5, LivesOn
  <2>11. /\ routes' = DelRoute(n, {t}) /\ reach' = H2 /\ wire' = Sent(Taken(n, in), sends)
         /\ calls' = Disconnected(n, {t})
    BY <1>2, <1>12
  <2>12. routes' \in [Nodes -> [Nodes -> Nodes \cup {NoWay}]]
    BY <2>4, <2>11 DEF Tables
  <2>13. calls' \in [Calls -> {"new", "sent", "reply", "dead"}]
    BY <2>11, DisconnectedOk DEF RoutingInv
  <2> QED BY <1>11, <2>4, <2>9, <2>10, <2>11, <2>12, <2>13, <1>2, <1>7 DEF RoutingInv, RoutingTypeOK
<1>13. CASE ~agreed
  <2>3. AllBut(n, M, Taken(n, in), reach, joined)
    <3>1. AllBut(n, M, [wire EXCEPT ![<<in, n>>] = Tail(@)], reach, joined)
      BY <1>3, <1>5, TakenDown
    <3> QED BY <3>1, <1>9
  <2>4. WiresOk(Sent(Taken(n, in), {}), reach, joined)
    <3>1. SendsOk(n, {}, M, M)
      BY SendNone
    <3> QED BY <3>1, <2>3, <1>3, SendWires
  <2>5. routes' = routes /\ reach' = reach /\ wire' = Sent(Taken(n, in), {}) /\ calls' = calls
    BY <1>2, <1>13
  <2> QED BY <2>4, <2>5, <1>2, <1>7 DEF RoutingInv, RoutingTypeOK
<1> QED BY <1>12, <1>13

\* A stream that broke: nothing is left on it, and its targets are no more known.
LEMMA Quieted ==
  ASSUME NEW k \in Others, NEW n, n = Up[k], NEW W, NEW H, NEW H2, NEW J, WiresOk(W, H, J), H2[<<n, k>>] = {},
         \A j \in Others : j # k => H2[<<Up[j], j>>] = H[<<Up[j], j>>]
  PROVE  AllBut(n, Mine(H, n), [W EXCEPT ![<<n, k>>] = <<>>, ![<<k, n>>] = <<>>], H2, J)
<1> DEFINE B == [W EXCEPT ![<<n, k>>] = <<>>, ![<<k, n>>] = <<>>]
<1>1. /\ <<k, n>> \in Links /\ <<n, k>> \in Links /\ W \in [Links -> Seq(Msgs)] /\ k # n
      /\ \A j \in Others : <<j, Up[j]>> \in Links /\ <<Up[j], j>> \in Links
  BY LinksAre, Family DEF WiresOk
<1>2. /\ B = [l \in Links |-> B[l]]
      /\ \A l \in Links : B[l] = IF l = <<k, n>> \/ l = <<n, k>> THEN <<>> ELSE W[l]
  BY <1>1
<1> HIDE DEF B
<1>3. \A j \in Others : j # n => Mine(H2, j) = Mine(H, j)
  <2>1. ASSUME NEW j \in Others, j # n PROVE Mine(H2, j) = Mine(H, j)
    <3>1. \A i \in Kids[j] : i \in Others /\ Up[i] = j
      BY KidsAre DEF Others
    <3>2. \A i \in Kids[j] : H2[<<j, i>>] = H[<<j, i>>]
      BY <3>1, <2>1
    <3> QED BY <3>2, SameMine
  <2> QED BY <2>1
<1>4. \A T : <<>> \in Seq(T)
  BY EmptySeq
<1>5. ASSUME NEW j \in Others
      PROVE  /\ UpLink(j, B[<<j, Up[j]>>], H2[<<Up[j], j>>], IF j = n THEN Mine(H, n) ELSE Mine(H2, j))
             /\ j \notin J => B[<<j, Up[j]>>] = <<>>
  <2>1. UpLink(j, W[<<j, Up[j]>>], H[<<Up[j], j>>], Mine(H, j)) /\ (j \notin J => W[<<j, Up[j]>>] = <<>>)
    BY DEF WiresOk
  <2>2. CASE j = k
    <3>1. B[<<j, Up[j]>>] = <<>> /\ H2[<<Up[j], j>>] = {}
      BY <2>2, <1>1, <1>2
    <3> QED BY <3>1, <1>4 DEF UpLink
  <2>3. CASE j # k
    <3>1. <<j, Up[j]>> # <<n, k>>
      <4>1. SUFFICES ASSUME j = n, Up[j] = k PROVE FALSE
        OBVIOUS
      <4>2. j # Root /\ k # Root
        BY DEF Others
      <4> QED BY <4>1, <4>2, Family
    <3>2. B[<<j, Up[j]>>] = W[<<j, Up[j]>>] /\ H2[<<Up[j], j>>] = H[<<Up[j], j>>]
      BY <2>3, <3>1, <1>1, <1>2
    <3>3. (IF j = n THEN Mine(H, n) ELSE Mine(H2, j)) = Mine(H, j)
      BY <1>3
    <3> QED BY <2>1, <3>2, <3>3
  <2> QED BY <2>2, <2>3
<1>6. ASSUME NEW j \in Others PROVE B[<<Up[j], j>>] \in Seq(DownMsgs(j))
  <2>1. B[<<Up[j], j>>] = <<>> \/ B[<<Up[j], j>>] = W[<<Up[j], j>>]
    BY <1>1, <1>2
  <2> QED BY <2>1, <1>4 DEF WiresOk
<1>7. AllBut(n, Mine(H, n), B, H2, J)
  BY <1>2, <1>5, <1>6 DEF AllBut
<1> QED BY <1>7 DEF B

LEMMA StreamDisconnectKeeps ==
  ASSUME RoutingInv, NEW k \in broken, StreamDisconnect(Up[k], k)
  PROVE  RoutingInv'
<1> DEFINE n == Up[k]
           below == reach[<<n, k>>]
           gone == Unreached(n, k) \cup below
           quiet == [wire EXCEPT ![<<n, k>>] = <<>>, ![<<k, n>>] = <<>>]
           sends == {s \in UpNews(n, "del", below) \cup DownNews(n, below) : s[1] # <<n, k>>}
           X == {s \in DownNews(n, below) : s[1] # <<n, k>>}
           M == Mine(reach, n)
           H2 == [reach EXCEPT ![<<n, k>>] = {}]
<1>1. Tables(routes, reach, joined) /\ WiresOk(wire, reach, joined) /\ Lives(alive, joined, broken, reach)
  BY InvFacts
<1>2. k \in Others /\ k \in Nodes /\ n \in Nodes /\ n \in joined /\ n # k
  <2>1. k \in Others /\ k \in joined
    BY <1>1 DEF Lives, Others
  <2> QED BY <2>1, <1>1, Family DEF Lives
<1>3. /\ n \in alive /\ k \in below
      /\ routes' = DelRoute(n, gone) /\ reach' = H2 /\ wire' = Sent(quiet, sends)
      /\ calls' = Disconnected(n, gone)
      /\ UNCHANGED <<alive, joined, broken, egress, serving, rejected>>
  BY DEF StreamDisconnect
<1>4. <<n, k>> \in Links /\ below \subseteq Under(k) /\ below \subseteq Nodes /\ reach \in [Links -> SUBSET Nodes]
  BY <1>1, <1>2, KidFacts DEF Tables
<1>5. gone = below
  <2>1. \A t \in Nodes : routes[n][t] = k <=> t \in below
    BY <1>1, <1>2, KidFacts
  <2> HIDE DEF below
  <2>2. Unreached(n, k) \subseteq below
    BY <2>1 DEF Unreached
  <2> QED BY <2>2
<1>6. H2[<<n, k>>] = {} /\ (\A j \in Others : j # k => H2[<<Up[j], j>>] = reach[<<Up[j], j>>])
      /\ H2 \in [Links -> SUBSET Nodes]
  BY <1>4, LinksAre
<1>7. below \in SUBSET (Under(n) \ {n})
  BY <1>2, <1>4, Family
<1> HIDE DEF H2
<1>8. Tables(DelRoute(n, gone), H2, joined)
  <2>1. ASSUME NEW j \in Others
        PROVE  H2[<<Up[j], j>>] = IF Up[j] = n THEN reach[<<Up[j], j>>] \ below ELSE reach[<<Up[j], j>>]
    <3>1. CASE j = k
      BY <3>1, <1>6
    <3>2. CASE j # k /\ Up[j] = n
      <4>1. \A t \in reach[<<Up[j], j>>] : t \notin Under(k)
        BY <3>2, <1>1, <1>2, Apart
      <4> QED BY <4>1, <3>2, <1>4, <1>6
    <3>3. CASE j # k /\ Up[j] # n
      BY <3>3, <1>6
    <3> QED BY <3>1, <3>2, <3>3
  <2>2. ASSUME NEW j \in Others, Up[j] = n, j \in below PROVE reach[<<n, j>>] \subseteq below
    <3>1. j \in Under(k) /\ j \in Under(j)
      BY <2>2, <1>4, Family
    <3>2. j = k
      BY <3>1, <2>2, <1>2, Siblings
    <3> QED BY <3>2
  <2> HIDE DEF below, n
  <2>3. Tables(Without(routes, n, below), H2, joined)
    <3>1. below \in SUBSET Nodes
      BY <1>4
    <3> QED BY <3>1, <2>1, <2>2, <1>1, <1>2, <1>6, TableDel
  <2> HIDE DEF gone
  <2> QED BY <2>3, <1>5 DEF Without, DelRoute
<1>9. AllBut(n, M, quiet, H2, joined)
  BY <1>1, <1>2, <1>6, Quieted
<1>10. SendsOk(n, sends, M, Changed(M, "del", below))
  <2>1. X \in SUBSET ToKids(n)
    <3>1. DownNews(n, below) \in SUBSET ToKids(n)
      BY <1>2, <1>4, DownNewsIs
    <3> QED BY <3>1
  <2>2. n \in M
    BY <1>1, <1>2, MineUnder
  <2>3. sends = UpNews(n, "del", below) \cup X
    <3>1. \A s \in UpNews(n, "del", below) : s[1] # <<n, k>>
      <4>1. n # Root => Parent(n) = Up[n] /\ Up[n] # k
        BY <1>2, Family DEF Parent
      <4>2. ASSUME NEW s \in UpNews(n, "del", below) PROVE n # Root /\ s[1] = <<n, Parent(n)>>
        BY DEF UpNews
      <4> QED BY <4>1, <4>2
    <3> QED BY <3>1
  <2> HIDE DEF X, M, below
  <2>4. SendsOk(n, UpNews(n, "del", below) \cup X, M, Changed(M, "del", below))
    BY <2>1, <2>2, <1>2, <1>7, SendNews
  <2> HIDE DEF sends
  <2> QED BY <2>3, <2>4
<1>11. Mine(H2, n) = Changed(M, "del", below)
  <2>1. H2[<<n, k>>] = reach[<<n, k>>] \ below
    BY <1>6
  <2>2. below \in SUBSET Under(k)
    BY <1>4
  <2> HIDE DEF below
  <2> QED BY <2>1, <2>2, <1>1, <1>2, <1>6, MineLess
<1>12. WiresOk(Sent(quiet, sends), H2, joined)
  <2>1. SendsOk(n, sends, M, Mine(H2, n))
    BY <1>10, <1>11
  <2> HIDE DEF M, sends, quiet
  <2> QED BY <2>1, <1>2, <1>9, SendWires
<1>13. Lives(alive, joined, broken, H2)
  <2>1. \A j \in Others : j \in reach[<<Up[j], j>>] => j \in H2[<<Up[j], j>>] \/ j \in broken
    BY <1>6
  <2> QED BY <2>1, <1>1, LivesOn
<1>14. routes' \in [Nodes -> [Nodes -> Nodes \cup {NoWay}]]
  BY <1>3, <1>8 DEF Tables
<1>15. calls' \in [Calls -> {"new", "sent", "reply", "dead"}]
  BY <1>3, DisconnectedOk DEF RoutingInv
<1> HIDE DEF gone, below, quiet, sends, n
<1> QED BY <1>3, <1>6, <1>8, <1>12, <1>13, <1>14, <1>15 DEF RoutingInv, RoutingTypeOK

LEMMA ConnectKeeps ==
  ASSUME RoutingInv, NEW k \in Others, Connect(k)
  PROVE  RoutingInv'
<1> DEFINE n == Up[k]
           M == Mine(reach, n)
           J2 == joined \cup {k}
           H2 == [reach EXCEPT ![<<n, k>>] = {k}]
           sends == UpNews(n, "add", {k})
<1>1. Tables(routes, reach, joined) /\ WiresOk(wire, reach, joined) /\ Lives(alive, joined, broken, reach)
  BY InvFacts
<1>2. k \in Nodes /\ k # Root /\ n \in Nodes /\ Parent(k) = n /\ n # k /\ k \in Under(k)
  BY Family DEF Parent
<1>3. /\ k \notin joined /\ n \in alive /\ n \in joined
      /\ alive' = alive \cup {k} /\ joined' = J2 /\ routes' = AddRoute(n, k, k)
      /\ reach' = H2 /\ wire' = Sent(wire, sends)
      /\ UNCHANGED <<broken, egress, serving, calls, rejected>>
  BY <1>2, InvFacts DEF Connect
<1>4. <<n, k>> \in Links /\ reach \in [Links -> SUBSET Nodes] /\ reach[<<n, k>>] = {}
  <2>1. <<n, k>> \in Links /\ (reach[<<n, k>>] # {} => k \in joined)
    BY <1>1, KidFacts
  <2> QED BY <2>1, <1>1, <1>3 DEF Tables
<1>5. H2 = [reach EXCEPT ![<<n, k>>] = @ \cup {k}]
  BY <1>4
<1>6. H2[<<n, k>>] = {k} /\ (\A j \in Others : j # k => H2[<<Up[j], j>>] = reach[<<Up[j], j>>])
      /\ H2 \in [Links -> SUBSET Nodes]
  BY <1>2, <1>4, LinksAre
<1> HIDE DEF H2
<1>7. Tables(AddRoute(n, k, k), H2, J2)
  <2>1. joined \subseteq J2 /\ k \in J2
    OBVIOUS
  <2> HIDE DEF J2
  <2>2. Tables([routes EXCEPT ![n][k] = k], H2, J2)
    BY <2>1, <1>1, <1>2, <1>5, TableAdd
  <2> QED BY <2>2 DEF AddRoute
<1>8. AllBut(n, M, wire, H2, J2)
  <2>1. \A j \in Others : j # n => Mine(H2, j) = Mine(reach, j)
    <3>1. ASSUME NEW j \in Others, j # n PROVE Mine(H2, j) = Mine(reach, j)
      <4>1. \A i \in Kids[j] : i \in Others /\ Up[i] = j
        BY KidsAre DEF Others
      <4>2. \A i \in Kids[j] : H2[<<j, i>>] = reach[<<j, i>>]
        BY <4>1, <3>1, <1>6
      <4> QED BY <4>2, SameMine
    <3> QED BY <3>1
  <2>2. Mine(reach, k) = {k}
    <3>1. ASSUME NEW j \in Kids[k] PROVE reach[<<k, j>>] = {}
      <4>1. j \in Others /\ Up[j] = k
        BY <1>2, KidsAre DEF Others
      <4>2. j \in joined => k \in joined
        BY <4>1, <1>1 DEF Lives
      <4>3. reach[<<Up[j], j>>] # {} => j \in joined
        BY <4>1, <1>1, KidFacts
      <4> QED BY <4>1, <4>2, <4>3, <1>3
    <3>2. \A t : t \in Mine(reach, k) <=> t = k
      BY <3>1, InMine
    <3> QED BY <3>2
  <2>3. ASSUME NEW j \in Others
        PROVE  /\ UpLink(j, wire[<<j, Up[j]>>], H2[<<Up[j], j>>], IF j = n THEN M ELSE Mine(H2, j))
               /\ j \notin J2 => wire[<<j, Up[j]>>] = <<>>
    <3>1. UpLink(j, wire[<<j, Up[j]>>], reach[<<Up[j], j>>], Mine(reach, j)) /\ (j \notin joined => wire[<<j, Up[j]>>] = <<>>)
      BY <1>1 DEF WiresOk
    <3>2. CASE j = k
      <4>1. wire[<<j, Up[j]>>] = <<>> /\ H2[<<Up[j], j>>] = {k} /\ (IF j = n THEN M ELSE Mine(H2, j)) = {k}
        BY <3>1, <3>2, <2>1, <2>2, <1>2, <1>3, <1>6
      <4>2. UpOk(<<>>, {k}, {k}) /\ <<>> \in Seq(UpMsgs(j))
        BY <1>2, UpEmpty, EmptySeq
      <4> QED BY <4>1, <4>2 DEF UpLink
    <3>3. CASE j # k
      <4>1. H2[<<Up[j], j>>] = reach[<<Up[j], j>>] /\ (IF j = n THEN M ELSE Mine(H2, j)) = Mine(reach, j)
        BY <3>3, <2>1, <1>6
      <4> QED BY <3>1, <4>1
    <3> QED BY <3>2, <3>3
  <2>4. wire = [l \in Links |-> wire[l]] /\ \A j \in Others : wire[<<Up[j], j>>] \in Seq(DownMsgs(j))
    BY <1>1 DEF WiresOk
  <2> QED BY <2>3, <2>4 DEF AllBut
<1>9. Mine(H2, n) = Changed(M, "add", {k})
  <2>1. H2[<<n, k>>] = reach[<<n, k>>] \cup {k}
    BY <1>4, <1>6
  <2> DEFINE D == {k}
  <2>2. H2[<<n, k>>] = reach[<<n, k>>] \cup D
    BY <2>1
  <2> HIDE DEF D
  <2>3. n = Up[k] /\ \A j \in Others : j # k => H2[<<Up[j], j>>] = reach[<<Up[j], j>>]
    BY <1>6
  <2>4. Mine(H2, n) = Changed(Mine(reach, n), "add", D)
    <3> HIDE DEF n
    <3> QED BY <2>2, <2>3, MineMore
  <2> QED BY <2>4 DEF D
<1>10. SendsOk(n, sends, M, Changed(M, "add", {k}))
  <2>1. {k} \in SUBSET (Under(n) \ {n}) /\ {} \in SUBSET ToKids(n) /\ n \in M
    BY <1>1, <1>2, Family, MineUnder
  <2> HIDE DEF M
  <2>2. SendsOk(n, UpNews(n, "add", {k}) \cup {}, M, Changed(M, "add", {k}))
    BY <2>1, <1>2, SendNews
  <2>3. UpNews(n, "add", {k}) \cup {} = sends
    OBVIOUS
  <2> QED BY <2>2, <2>3
<1>11. WiresOk(Sent(wire, sends), H2, J2)
  <2>1. SendsOk(n, sends, M, Mine(H2, n)) /\ n \in J2
    BY <1>3, <1>9, <1>10
  <2> HIDE DEF M, sends, J2
  <2> QED BY <2>1, <1>2, <1>8, SendWires
<1>12. Lives(alive \cup {k}, J2, broken, H2)
  <2>1. /\ alive \subseteq joined /\ joined \subseteq Nodes /\ broken \subseteq joined \ {Root} /\ Root \in alive
        /\ \A j \in joined \cap Others : /\ j \in alive \/ j \in broken
                                         /\ Up[j] \in alive \/ j \in broken
                                         /\ Up[j] \in joined
                                         /\ j \in reach[<<Up[j], j>>] \/ j \in broken
    BY <1>1 DEF Lives
  <2>2. ASSUME NEW j \in J2 \cap Others
        PROVE  /\ j \in alive \cup {k} \/ j \in broken
               /\ Up[j] \in alive \cup {k} \/ j \in broken
               /\ Up[j] \in J2
               /\ j \in H2[<<Up[j], j>>] \/ j \in broken
    <3>1. CASE j = k
      BY <3>1, <1>3, <1>6
    <3>2. CASE j # k
      BY <3>2, <2>1, <1>6
    <3> QED BY <3>1, <3>2
  <2> QED BY <2>1, <2>2, <1>2 DEF Lives
<1>13. routes' \in [Nodes -> [Nodes -> Nodes \cup {NoWay}]]
  BY <1>3, <1>7 DEF Tables
<1>14. alive' \subseteq joined' /\ joined' \subseteq Nodes /\ broken' \subseteq joined'
  BY <1>3, <1>12 DEF Lives
<1> HIDE DEF sends, n, J2
<1> QED BY <1>3, <1>6, <1>7, <1>11, <1>12, <1>13, <1>14 DEF RoutingInv, RoutingTypeOK

LEMMA RoutingStep == RoutingInv /\ [RoutingNext]_routingVars => RoutingInv'
<1> SUFFICES ASSUME RoutingInv, [RoutingNext]_routingVars PROVE RoutingInv'
  OBVIOUS
<1>1. ASSUME NEW l \in Incoming, Receive(l[2], l[1]) PROVE RoutingInv'
  <2> DEFINE n == l[2]
             in == l[1]
  <2>1. <<in, n>> \in Links
    BY DEF Incoming, Links
  <2>2. Receive(n, in)
    BY <1>1
  <2> HIDE DEF n, in
  <2>3. CASE Reject(n, in)
    BY <2>1, <2>3, RejectNever
  <2>4. CASE Forward(n, in)
    BY <2>1, <2>4, ForwardKeeps
  <2>5. CASE Deliver(n, in)
    BY <2>1, <2>5, DeliverKeeps
  <2>6. CASE OnAddRoute(n, in)
    BY <2>1, <2>6, OnAddKeeps
  <2>7. CASE OnDelRoute(n, in)
    <3>1. (in \in Others /\ n = Up[in]) \/ (n \in Others /\ in = Up[n])
      BY <2>1, LinksAre
    <3>2. CASE in \in Others /\ n = Up[in]
      BY <2>7, <3>2, OnDelUpKeeps
    <3>3. CASE n \in Others /\ in = Up[n]
      BY <2>7, <3>3, OnDelDownKeeps
    <3> QED BY <3>1, <3>2, <3>3
  <2> QED BY <2>2, <2>3, <2>4, <2>5, <2>6, <2>7 DEF Receive
<1>2. ASSUME NEW k \in broken, StreamDisconnect(Up[k], k) PROVE RoutingInv'
  BY <1>2, StreamDisconnectKeeps
<1>3. ASSUME NEW k \in broken, ParentGone(k) PROVE RoutingInv'
  <2>1. Die(k) /\ k \in Others
    BY <1>3, InvFacts DEF ParentGone, Lives, Others
  <2> QED BY <2>1, DieKeeps
<1>4. ASSUME NEW c \in Calls, Reply(c) PROVE RoutingInv'
  BY <1>4, ReplyKeeps
<1>5. ASSUME NEW k \in Nodes \ {Root}, Connect(k) \/ Die(k) \/ Sever(k) PROVE RoutingInv'
  BY <1>5, ConnectKeeps, DieKeeps DEF Others
<1>6. ASSUME NEW c \in Calls, Ask(c) PROVE RoutingInv'
  BY <1>6, AskKeeps
<1>7. CASE UNCHANGED routingVars
  <2>1. UNCHANGED <<alive, joined, broken, routes, reach, egress, wire, serving, calls, rejected>>
    BY <1>7 DEF routingVars, routeVars
  <2> QED BY <2>1 DEF RoutingInv, RoutingTypeOK
<1> QED BY <1>1, <1>2, <1>3, <1>4, <1>5, <1>6, <1>7 DEF RoutingNext, Progress

-----------------------------------------------------------------------------
\* When news has spread, a parent has routes to what its child has.
LEMMA SpreadUp ==
  ASSUME RoutingInv, Settled, NEW x \in Others, x \in reach[<<Up[x], x>>], Up[x] \in alive
  PROVE  reach[<<Up[x], x>>] = Mine(reach, x)
<1>1. Tables(routes, reach, joined) /\ WiresOk(wire, reach, joined)
  BY InvFacts
<1>2. Connected(Up[x], x)
  BY DEF Connected
<1>3. wire[<<x, Up[x]>>] = <<>>
  <2> DEFINE l == <<Up[x], x>>
  <2>1. l \in Links /\ l[1] = Up[x] /\ l[2] = x
    BY LinksAre
  <2>2. Connected(l[1], l[2]) => wire[<<l[2], l[1]>>] = <<>>
    BY <2>1 DEF Settled
  <2> QED BY <2>1, <2>2, <1>2
<1>4. UpOk(<<>>, reach[<<Up[x], x>>], Mine(reach, x))
  BY <1>1, <1>3 DEF WiresOk, UpLink
<1>5. reach[<<Up[x], x>>] \in SUBSET Nodes /\ Mine(reach, x) \in SUBSET Nodes
  BY <1>1, KidFacts, MineUnder DEF Under
<1> QED BY <1>4, <1>5, UpEmpty

\* A live context is known all the way up.
LEMMA KnownAbove ==
  ASSUME RoutingInv, Settled, NEW t \in alive, NEW n \in Lineage[t], n # t
  PROVE  routes[n][t] # NoWay
<1> DEFINE C == {x \in Lineage[t] : x \in alive /\ (x = t \/ routes[x][t] \in Kids[x])}
<1>0. Tables(routes, reach, joined) /\ Lives(alive, joined, broken, reach) /\ t \in Nodes /\ Lineage[t] \subseteq Nodes
  BY InvFacts, LineageSelf
<1>1. C \in SUBSET Nodes /\ t \in C
  BY <1>0, LineageSelf
<1>2. ASSUME NEW x \in C \ {Root} PROVE Up[x] \in C
  <2>1. x \in Others /\ x \in alive /\ x \in joined /\ x \in Lineage[t] /\ x \in Nodes
    BY <1>1, InvFacts DEF Others
  <2>2. x \notin broken
    BY <2>1 DEF Settled
  <2>3. Up[x] \in alive /\ x \in reach[<<Up[x], x>>]
    BY <2>1, <2>2, <1>0 DEF Lives
  <2>4. reach[<<Up[x], x>>] = Mine(reach, x)
    BY <2>1, <2>3, SpreadUp
  <2>5. t \in Mine(reach, x)
    BY <2>1, <1>0, MineUnder
  <2>6. routes[Up[x]][t] = x /\ x \in Kids[Up[x]]
    BY <2>1, <2>4, <2>5, <1>0, KidFacts
  <2>7. Up[x] \in Lineage[t]
    BY <2>1, <1>0, LineageSelf DEF Upwards, Others
  <2> QED BY <2>3, <2>6, <2>7
<1>3. n \in C
  BY <1>0, <1>1, <1>2, LineageLeast DEF Upwards
<1>4. NoWay \notin Kids[n]
  BY <1>0, RoutingAssumption DEF RoutingAssumption, Kids
<1> QED BY <1>3, <1>4

\* Where there is a route, its target lives.
LEMMA RouteLives ==
  ASSUME RoutingInv, Settled, NEW t \in Nodes, NEW n \in Lineage[t], n # t, n \in alive, routes[n][t] # NoWay
  PROVE  t \in alive
<1> DEFINE D == {x \in Lineage[t] : ~(x \in alive /\ routes[x][t] \in Kids[x])}
<1>0. Tables(routes, reach, joined) /\ Lives(alive, joined, broken, reach) /\ Lineage[t] \subseteq Nodes /\ n \in Nodes
  BY InvFacts, LineageSelf
<1>1. SUFFICES ASSUME t \notin alive PROVE FALSE
  OBVIOUS
<1>2. D \in SUBSET Nodes /\ t \in D
  BY <1>0, <1>1, LineageSelf
<1>3. ASSUME NEW x \in D \ {Root} PROVE Up[x] \in D
  <2>1. x \in Others /\ x \in Lineage[t] /\ x \in Nodes /\ Up[x] \in Nodes
    BY <1>2, Family DEF Others
  <2>2. Up[x] \in Lineage[t]
    BY <2>1, LineageSelf DEF Upwards, Others
  <2>3. SUFFICES ASSUME Up[x] \in alive, routes[Up[x]][t] \in Kids[Up[x]] PROVE FALSE
    BY <2>2
  <2>4. PICK j \in Others : Up[j] = Up[x] /\ routes[Up[x]][t] = j
    BY <2>1, <2>3, KidsAre DEF Others
  <2>5. t \in reach[<<Up[j], j>>] /\ t \in Under(j)
    BY <2>4, <1>0, KidFacts
  <2>6. j = x
    BY <2>1, <2>4, <2>5, Siblings DEF Under
  <2>7. t \in reach[<<Up[x], x>>] /\ x \in reach[<<Up[x], x>>] /\ x \in joined
    BY <2>5, <2>6, <1>0, KidFacts
  <2>8. x \notin broken
    <3>1. Parent(x) = Up[x]
      BY <2>1, Family DEF Parent
    <3> QED BY <3>1, <2>3, <2>7 DEF Settled
  <2>9. x \in alive
    BY <2>1, <2>7, <2>8, <1>0 DEF Lives
  <2>10. t \in Mine(reach, x)
    BY <2>1, <2>3, <2>7, SpreadUp
  <2>11. routes[x][t] \in Kids[x]
    BY <2>1, <2>9, <2>10, <1>0, <1>1, MineUnder
  <2> QED BY <2>9, <2>11
<1>4. n \in D
  BY <1>2, <1>3, LineageLeast DEF Upwards
<1>5. routes[n][t] \in Kids[n]
  <2>1. TableOk(n, routes, reach, joined)
    BY <1>0 DEF Tables
  <2>2. CASE n = Root
    BY <2>1, <2>2 DEF TableOk, Parent
  <2>3. CASE n # Root
    <3>1. t # Up[n]
      <4>1. n \in Others /\ t \in Under(n)
        BY <2>3, <1>0 DEF Others, Under
      <4> QED BY <4>1, Family
    <3> QED BY <3>1, <2>1, <2>3 DEF TableOk, Parent
  <2> QED BY <2>2, <2>3
<1> QED BY <1>4, <1>5

LEMMA InvConverges == RoutingInv => RoutesConverge
<1> SUFFICES ASSUME RoutingInv, Settled, NEW n \in alive, NEW t \in Below(n)
             PROVE  t \in alive <=> routes[n][t] # NoWay
  BY DEF RoutesConverge
<1>1. t \in Nodes /\ t # n /\ n \in Lineage[t]
  BY DEF Below
<1> QED BY <1>1, KnownAbove, RouteLives

\* A message of an honest context is never taken for a forged one, and when nothing is under way
\* the routes of every context agree with the tree below it.
THEOREM RoutingCorrect == RoutingSpec => []RoutingSafe
<1>1. RoutingInv => RoutingSafe
  BY InvConverges DEF RoutingInv, RoutingSafe, HonestVerified
<1> QED BY <1>1, InitRouting, RoutingStep, PTL DEF RoutingSpec
=============================================================================
