----------------------------- MODULE PoolProofs -----------------------------
(***************************************************************************)
(* Theorems about ServicePool, for any requests, services and number of    *)
(* threads, whenever the pool is constructed and shut down.                *)
(***************************************************************************)
EXTENDS ServicePool, SequenceTheorems, FiniteSetTheorems, TLAPS

LEMMA Outside == None \notin Msgs /\ None \notin Workers /\ None \notin Receivers
  BY PoolAssumption DEF Receivers

\* What a worker has in hand where it is.
Known ==
  /\ bpc = "put" => cur[2] \in Msgs
  /\ \A w \in Workers :
    /\ pc[w] \in {"find", "lock", "permit", "import", "add", "publish", "invoke", "method"} => msg[w] \in Msgs
    /\ pc[w] \in {"invoke", "method", "pop"} => inv[w] \in Invokers
    /\ pc[w] = "pop" => inv[w][1] \in Serialized
    /\ pc[w] = "fetch" => src[w] \in Receivers
    /\ pc[w] # "fetch" => src[w] = None
    /\ main[1] \in {"dispatch", "receiver", "add", "size", "mute", "start"} => pc[w] = "off"

-----------------------------------------------------------------------------
(* Types *)

LEMMA InitTypes == Init => TypeOK /\ Known
<1> SUFFICES ASSUME Init PROVE TypeOK /\ Known
  OBVIOUS
<1>1. TypeOK
  <2>1. /\ main \in {"dispatch", "receiver", "add", "size", "mute", "start", "listen", "running"} \X Receivers
        /\ cur \in Receivers \X (Msgs \cup {None}) /\ tokens \in Seq(Receivers)
        /\ box \in [Receivers -> Seq(Msgs)] /\ queue \in [Invokers -> Seq(Msgs)]
    BY DEF Init, Receivers
  <2>2. handler \in Receivers /\ notify \in [Receivers -> {"none", "stub", "select"}] /\ open \subseteq Receivers
    BY DEF Init, Receivers
  <2>3. {selecting, summoned, dispatching, listening, closed} \subseteq BOOLEAN
    BY DEF Init
  <2> QED
    BY <2>1, <2>2, <2>3 DEF Init, TypeOK
<1>2. Known
  BY Outside DEF Init, Known, Receivers
<1> QED
  BY <1>1, <1>2

LEMMA MainTypes ==
  ASSUME TypeOK, Known, MainNext
  PROVE  TypeOK' /\ Known'
<1> USE DEF selectVars, mainVars, brokerVars, workerVars, poolVars, replyVars
<1>1. CASE InitServicePool
  BY <1>1 DEF InitServicePool, TypeOK, Known, Receivers
<1>2. CASE NewReceiver
  BY <1>2 DEF NewReceiver, TypeOK, Known, Receivers
<1>3. CASE Mute
  BY <1>3 DEF Mute, TypeOK, Known, Receivers
<1>4. CASE StartThreads
  BY <1>4 DEF StartThreads, TypeOK, Known, Receivers
<1>5. CASE Listen
  BY <1>5 DEF Listen, TypeOK, Known, Receivers
<1>6. ASSUME NEW r \in Receivers, AddNotify(r) PROVE TypeOK' /\ Known'
  BY <1>6 DEF AddNotify, TypeOK, Known, Receivers
<1>7. ASSUME NEW r \in Receivers, AddBuffered(r) PROVE TypeOK' /\ Known'
  <2>1. box[r] \in Seq(Msgs) /\ tokens \in Seq(Receivers)
    BY DEF TypeOK
  <2>2. [k \in DOMAIN box[r] |-> r] \in Seq(Receivers)
    BY <2>1
  <2>3. tokens' \in Seq(Receivers)
    BY <1>7, <2>1, <2>2, ConcatProperties DEF AddBuffered, Buffered
  <2> QED
    BY <1>7, <2>3 DEF AddBuffered, TypeOK, Known, Receivers
<1> QED
  BY <1>1, <1>2, <1>3, <1>4, <1>5, <1>6, <1>7 DEF MainNext

LEMMA BrokerTypes ==
  ASSUME TypeOK, Known, BrokerNext \/ Shutdown \/ \E m \in Msgs : Deliver(m)
  PROVE  TypeOK' /\ Known'
<1> USE DEF selectVars, mainVars, brokerVars, workerVars, poolVars, replyVars
<1>1. CASE BrokerPut
  <2>1. cur[1] \in Receivers /\ cur[2] \in Msgs
    BY <1>1 DEF BrokerPut, TypeOK, Known
  <2> QED
    BY <1>1, <2>1 DEF BrokerPut, TypeOK, Known
<1>2. CASE BrokerTest
  BY <1>2 DEF BrokerTest, TypeOK, Known
<1>3. CASE BrokerNotify
  BY <1>3 DEF BrokerNotify, TypeOK, Known, Receivers
<1>4. CASE Stop
  BY <1>4 DEF Stop, TypeOK, Known
<1>5. CASE CloseReceiver
  BY <1>5 DEF CloseReceiver, TypeOK, Known
<1>6. CASE CloseSelect
  BY <1>6 DEF CloseSelect, TypeOK, Known, Selecting
<1>7. CASE Join \/ BrokerExit
  BY <1>7 DEF Join, BrokerExit, TypeOK, Known
<1>8. CASE Shutdown
  BY <1>8 DEF Shutdown, TypeOK, Known
<1>9. ASSUME NEW m \in Msgs, Deliver(m) PROVE TypeOK' /\ Known'
  BY <1>9 DEF Deliver, TypeOK, Known
<1> QED
  BY <1>1, <1>2, <1>3, <1>4, <1>5, <1>6, <1>7, <1>8, <1>9 DEF BrokerNext

LEMMA WorkerTypes ==
  ASSUME TypeOK, Known, NEW w \in Workers, Work(w)
  PROVE  TypeOK' /\ Known'
<1> USE Outside DEF selectVars, mainVars, brokerVars, workerVars, poolVars, replyVars, Goto
<1>0. /\ pc[w] # "off" => main[1] \in {"listen", "running"}
      /\ msg[w] \in Msgs => Target[msg[w]] \in Services
      /\ \A s \in Services, k \in {"added", "final"} : <<s, k>> \in Invokers
  BY PoolAssumption DEF Known, TypeOK, Invokers
<1>1. CASE CheckClosed(w) \/ Leave(w)
  <2>1. /\ pc[w] \in {"check", "select"} /\ \E to \in {"select", "exited"} : pc' = [pc EXCEPT ![w] = to]
        /\ UNCHANGED <<selectVars, mainVars, brokerVars, src, msg, inv, poolVars, replyVars>>
    BY <1>1 DEF CheckClosed, Leave
  <2>2. TypeOK'
    BY <2>1 DEF TypeOK
  <2>3. Known'
    BY <1>0, <2>1 DEF TypeOK, Known
  <2> QED
    BY <2>2, <2>3
<1>2. CASE TakeToken(w)
  BY <1>0, <1>2 DEF TakeToken, TypeOK, Known
<1>3. CASE Fetch(w)
  <2>1. src[w] \in Receivers /\ box[src[w]] \in Seq(Msgs)
    BY <1>3 DEF Fetch, TypeOK, Known
  <2>2. box[src[w]] # <<>> => Head(box[src[w]]) \in Msgs /\ Tail(box[src[w]]) \in Seq(Msgs)
    BY <2>1
  <2>3. /\ src' = [src EXCEPT ![w] = None]
        /\ \E to \in {"exited", "select", "find"} : pc' = [pc EXCEPT ![w] = to]
        /\ box' \in [Receivers -> Seq(Msgs)] /\ msg' \in [Workers -> Msgs \cup {None}]
        /\ \A u \in Workers \ {w} : msg'[u] = msg[u]
        /\ pc'[w] = "find" => msg'[w] \in Msgs
    <3>1. CASE box' = box /\ msg' = msg /\ \E to \in {"exited", "select"} : pc' = [pc EXCEPT ![w] = to]
      BY <1>3, <3>1 DEF Fetch, TypeOK
    <3>2. CASE box[src[w]] # <<>> /\ msg' = [msg EXCEPT ![w] = Head(box[src[w]])]
               /\ box' = [box EXCEPT ![src[w]] = Tail(@)] /\ Goto(w, "find")
      BY <1>3, <2>1, <2>2, <3>2 DEF Fetch, TypeOK
    <3> QED
      BY <1>3, <3>1, <3>2 DEF Fetch
  <2>4. TypeOK'
    BY <1>3, <2>3 DEF Fetch, TypeOK
  <2>5. Known'
    BY <1>0, <1>3, <2>3 DEF Fetch, TypeOK, Known
  <2> QED
    BY <2>4, <2>5
<1>4. ASSUME NEW n \in {0, 1}, End(w, n), msg[w] \in Msgs,
             NEW to \in {"check", "pop"}, pc' = [pc EXCEPT ![w] = to],
             to = "pop" => inv[w] \in Invokers /\ inv[w][1] \in Serialized,
             pc[w] # "off", pc[w] # "fetch", holder' \in {holder, None},
             UNCHANGED <<selectVars, mainVars, brokerVars, src, registry, built, queue, running>>
      PROVE  TypeOK' /\ Known'
  <2>1. /\ ended' \subseteq Msgs /\ replies' \in [Msgs -> Nat] /\ msg' \in [Workers -> Msgs \cup {None}]
        /\ inv' \in [Workers -> Invokers \cup {<<>>}] /\ holder' \in Workers \cup {None}
    BY <1>4 DEF End, TypeOK
  <2>3. TypeOK'
    BY <1>4, <2>1 DEF TypeOK
  <2>4. Known'
    BY <1>0, <1>4 DEF End, TypeOK, Known
  <2> QED
    BY <2>3, <2>4
<1>5. CASE Find(w)
  <2>1. msg[w] \in Msgs /\ pc[w] = "find"
    BY <1>5 DEF Find, Known
  <2>2. CASE Goto(w, "check") /\ End(w, 1)
    <3>2. UNCHANGED <<selectVars, mainVars, brokerVars, src, registry, holder, built, queue, running>>
      BY <1>5 DEF Find
    <3> QED
      BY <2>1, <2>2, <3>2, <1>4
  <2>3. CASE registry[Target[msg[w]]] # "none" /\ Use(w, registry[Target[msg[w]]]) /\ Goto(w, "invoke") /\ UNCHANGED <<msg, replyVars>>
    <3>1. registry[Target[msg[w]]] \in {"added", "final"}
      BY <1>0, <2>1, <2>3 DEF TypeOK
    <3>2. inv' \in [Workers -> Invokers \cup {<<>>}] /\ inv'[w] \in Invokers
      BY <1>0, <2>1, <2>3, <3>1 DEF Use, TypeOK
    <3>3. TypeOK'
      BY <1>5, <2>1, <2>3, <3>2 DEF Find, TypeOK
    <3> QED
      BY <1>0, <1>5, <2>1, <2>3, <3>2, <3>3 DEF Find, Use, TypeOK, Known
  <2>4. CASE Goto(w, "lock") /\ UNCHANGED <<msg, inv, replyVars>>
    BY <1>0, <1>5, <2>1, <2>4 DEF Find, TypeOK, Known
  <2> QED
    BY <1>5, <2>2, <2>3, <2>4 DEF Find
<1>6. CASE Lock(w)
  <2>1. msg[w] \in Msgs /\ pc[w] = "lock"
    BY <1>6 DEF Lock, Known
  <2>2. CASE ~Missing(Target[msg[w]]) /\ Use(w, registry[Target[msg[w]]]) /\ Goto(w, "invoke") /\ UNCHANGED holder
    <3>1. registry[Target[msg[w]]] \in {"added", "final"}
      BY <1>0, <2>1, <2>2 DEF TypeOK, Missing
    <3>2. inv' \in [Workers -> Invokers \cup {<<>>}] /\ inv'[w] \in Invokers
      BY <1>0, <2>1, <2>2, <3>1 DEF Use, TypeOK
    <3>3. TypeOK'
      BY <1>6, <2>1, <2>2, <3>2 DEF Lock, TypeOK
    <3> QED
      BY <1>0, <1>6, <2>1, <2>2, <3>2, <3>3 DEF Lock, Use, TypeOK, Known
  <2>3. CASE holder' = w /\ Goto(w, "permit") /\ UNCHANGED inv
    BY <1>0, <1>6, <2>1, <2>3 DEF Lock, TypeOK, Known
  <2> QED
    BY <1>6, <2>2, <2>3 DEF Lock
<1>7. CASE Permit(w) \/ LoadModule(w)
  <2>1. msg[w] \in Msgs /\ pc[w] \in {"permit", "import"}
    BY <1>7 DEF Permit, LoadModule, Known
  <2>2. UNCHANGED <<selectVars, mainVars, brokerVars, src, registry, built, queue, running>>
    BY <1>7 DEF Permit, LoadModule
  <2>3. CASE ActivateFails(w)
    <3>1. pc' = [pc EXCEPT ![w] = "check"] /\ holder' = None /\ End(w, 1)
      BY <2>3 DEF ActivateFails
    <3> QED
      BY <2>1, <2>2, <3>1, <1>4
  <2>4. CASE (Goto(w, "import") \/ Goto(w, "add")) /\ UNCHANGED <<holder, msg, inv, replyVars>>
    <3>1. \E to \in {"import", "add"} : pc' = [pc EXCEPT ![w] = to]
      BY <2>4
    <3>2. TypeOK'
      BY <2>2, <2>4, <3>1 DEF TypeOK
    <3>3. Known'
      BY <1>0, <2>1, <2>2, <2>4, <3>1 DEF TypeOK, Known
    <3> QED
      BY <3>2, <3>3
  <2> QED
    BY <1>7, <2>3, <2>4 DEF Permit, LoadModule
<1>8. CASE Add(w)
  <2>1. msg[w] \in Msgs /\ pc[w] = "add"
    BY <1>8 DEF Add, Known
  <2>2. built' \in [Services -> Nat] /\ registry' \in [Services -> {"none", "added", "final"}]
    BY <1>0, <1>8, <2>1 DEF Add, TypeOK
  <2> QED
    BY <1>0, <1>8, <2>1, <2>2 DEF Add, TypeOK, Known
<1>9. CASE Publish(w)
  <2>1. msg[w] \in Msgs /\ pc[w] = "publish"
    BY <1>9 DEF Publish, Known
  <2>2. inv' \in [Workers -> Invokers \cup {<<>>}] /\ inv'[w] \in Invokers
    BY <1>0, <1>9, <2>1 DEF Publish, Use, TypeOK
  <2>3. TypeOK'
    BY <1>0, <1>9, <2>1, <2>2 DEF Publish, TypeOK
  <2> QED
    BY <1>0, <1>9, <2>1, <2>2, <2>3 DEF Publish, Use, TypeOK, Known
<1>10. CASE Invoke(w)
  <2>1. msg[w] \in Msgs /\ pc[w] = "invoke" /\ inv[w] \in Invokers
    BY <1>10 DEF Invoke, Known
  <2>2. queue' \in [Invokers -> Seq(Msgs)] /\ running' \in [Invokers -> BOOLEAN]
    <3>1. queue[inv[w]] \in Seq(Msgs) /\ Append(queue[inv[w]], msg[w]) \in Seq(Msgs)
      BY <2>1 DEF TypeOK
    <3>2. \/ UNCHANGED <<queue, running>>
          \/ /\ queue' = [queue EXCEPT ![inv[w]] = Append(@, msg[w])]
             /\ running' = [running EXCEPT ![inv[w]] = TRUE]
      BY <1>10 DEF Invoke
    <3>3. queue' \in [Invokers -> Seq(Msgs)]
      BY <2>1, <3>1, <3>2 DEF TypeOK
    <3>4. running' \in [Invokers -> BOOLEAN]
      BY <2>1, <3>2 DEF TypeOK
    <3> QED
      BY <3>3, <3>4
  <2>3. /\ \E to \in {"method", "pop", "check"} : pc' = [pc EXCEPT ![w] = to]
        /\ pc'[w] = "method" => msg' = msg /\ inv' = inv
        /\ pc'[w] = "pop" => inv[w][1] \in Serialized /\ inv' = [inv EXCEPT ![w] = inv[w]]
        /\ pc'[w] # "method" => msg' = [msg EXCEPT ![w] = None]
        /\ pc'[w] = "check" => inv' = [inv EXCEPT ![w] = <<>>]
    BY <1>10 DEF Invoke, TypeOK
  <2>4. TypeOK'
    BY <1>10, <2>1, <2>2, <2>3 DEF Invoke, TypeOK
  <2>6. /\ \A u \in Workers \ {w} : pc'[u] = pc[u] /\ msg'[u] = msg[u] /\ inv'[u] = inv[u]
        /\ pc'[w] \in {"method", "pop", "check"}
        /\ pc'[w] = "method" => msg'[w] \in Msgs
        /\ pc'[w] \in {"method", "pop"} => inv'[w] = inv[w]
        /\ UNCHANGED <<src, main, bpc, cur>>
    BY <1>10, <2>1, <2>3 DEF Invoke, TypeOK
  <2>5. Known'
    BY <1>0, <2>1, <2>3, <2>6 DEF Known
  <2> QED
    BY <2>4, <2>5
<1>11. CASE Pop(w)
  <2>1. pc[w] = "pop" /\ inv[w] \in Invokers /\ inv[w][1] \in Serialized
    BY <1>11 DEF Pop, Known
  <2>2. CASE queue[inv[w]] = <<>>
    <3>1. running' \in [Invokers -> BOOLEAN]
      BY <1>11, <2>1, <2>2 DEF Pop, NotRunning, TypeOK
    <3>2. TypeOK'
      BY <1>11, <2>1, <2>2, <3>1 DEF Pop, TypeOK
    <3> QED
      BY <1>0, <1>11, <2>1, <2>2, <3>2 DEF Pop, TypeOK, Known
  <2>3. CASE queue[inv[w]] # <<>>
    <3>1. Head(queue[inv[w]]) \in Msgs /\ Tail(queue[inv[w]]) \in Seq(Msgs)
      BY <2>1, <2>3 DEF TypeOK
    <3>4. /\ msg' = [msg EXCEPT ![w] = Head(queue[inv[w]])] /\ pc' = [pc EXCEPT ![w] = "method"]
          /\ queue' = [queue EXCEPT ![inv[w]] = Tail(queue[inv[w]])] /\ UNCHANGED <<running, inv>>
      BY <1>11, <2>3 DEF Pop
    <3>5. queue' \in [Invokers -> Seq(Msgs)]
      BY <2>1, <3>1, <3>4 DEF TypeOK
    <3>2. TypeOK'
      BY <1>11, <2>1, <3>1, <3>4, <3>5 DEF Pop, TypeOK
    <3> QED
      BY <1>0, <1>11, <2>1, <2>3, <3>1, <3>2 DEF Pop, TypeOK, Known
  <2> QED
    BY <2>2, <2>3
<1>12. CASE Method(w)
  <2>1. msg[w] \in Msgs /\ pc[w] = "method" /\ inv[w] \in Invokers
    BY <1>12 DEF Method, Known
  <2>2. PICK n \in {0, 1} : End(w, n)
    BY <1>12 DEF Method, Replies
  <2>3. PICK to \in {"check", "pop"} : pc' = [pc EXCEPT ![w] = to] /\ (to = "pop" => inv[w][1] \in Serialized)
    BY <1>12 DEF Method
  <2>4. UNCHANGED <<selectVars, mainVars, brokerVars, src, registry, holder, built, queue, running>>
    BY <1>12 DEF Method
  <2> QED
    BY <2>1, <2>2, <2>3, <2>4, <1>4
<1> QED
  BY <1>1, <1>2, <1>3, <1>5, <1>6, <1>7, <1>8, <1>9, <1>10, <1>11, <1>12 DEF Work

\* The main and the broker thread disturb no worker; that workers start is no news for them.
LEMMA ElsewhereQuiet ==
  ASSUME TypeOK, Known, MainNext \/ BrokerNext \/ Shutdown \/ \E m \in Msgs : Deliver(m)
  PROVE  /\ UNCHANGED <<src, msg, inv, poolVars, replyVars>>
         /\ pc' \in [Workers -> {pc[w] : w \in Workers} \cup {"check"}]
         /\ \A w \in Workers : pc'[w] # pc[w] => pc[w] = "off" /\ pc'[w] = "check"
<1> USE DEF selectVars, mainVars, brokerVars, workerVars, poolVars, replyVars
<1>1. pc \in [Workers -> {pc[w] : w \in Workers} \cup {"check"}]
  BY DEF TypeOK
<1>2. CASE StartThreads
  BY <1>2 DEF StartThreads, Known, TypeOK
<1>3. CASE MainNext /\ ~StartThreads
  BY <1>1, <1>3 DEF MainNext, InitServicePool, NewReceiver, Mute, Listen, AddNotify, AddBuffered
<1>4. CASE BrokerNext
  BY <1>1, <1>4 DEF BrokerNext, BrokerPut, BrokerTest, BrokerNotify, Stop, CloseReceiver, CloseSelect, Join, BrokerExit
<1>5. CASE Shutdown \/ \E m \in Msgs : Deliver(m)
  BY <1>1, <1>5 DEF Shutdown, Deliver
<1> QED
  BY <1>2, <1>3, <1>4, <1>5

-----------------------------------------------------------------------------
(* The lock, and the services built under it *)

Building == {"permit", "import", "add", "publish"}

\* The lock is held by the thread that builds, and it builds what is missing.
Locked ==
  /\ \A w \in Workers : pc[w] \in Building <=> holder = w
  /\ \A w \in Workers : pc[w] \in {"permit", "import", "add"} => registry[Target[msg[w]]] = "none"
  /\ \A w \in Workers : pc[w] = "publish" => registry[Target[msg[w]]] = "added"
  /\ \A s \in Services : built[s] = IF registry[s] = "none" THEN 0 ELSE 1

LEMMA InitLocked == Init => Locked
  BY Outside DEF Init, Locked, Building

LEMMA NextLocked ==
  ASSUME TypeOK, Known, Locked, [Next]_vars
  PROVE  Locked'
<1> USE Outside DEF selectVars, mainVars, brokerVars, workerVars, poolVars, replyVars, Goto
<1>1. CASE MainNext \/ BrokerNext \/ Shutdown \/ \E m \in Msgs : Deliver(m)
  BY <1>1, ElsewhereQuiet DEF Locked, Building
<1>2. ASSUME NEW w \in Workers, Work(w) PROVE Locked'
  <2>0. msg[w] \in Msgs => Target[msg[w]] \in Services
    BY PoolAssumption
  <2>1. CASE CheckClosed(w) \/ TakeToken(w) \/ Leave(w) \/ Fetch(w) \/ Invoke(w) \/ Pop(w) \/ Method(w)
    <3>1. /\ pc[w] \notin Building /\ UNCHANGED <<registry, holder, built>>
          /\ \E to \in {"select", "exited", "fetch", "find", "method", "check", "pop"} : pc' = [pc EXCEPT ![w] = to]
          /\ \A u \in Workers \ {w} : msg'[u] = msg[u]
      BY <2>1 DEF CheckClosed, TakeToken, Leave, Fetch, Invoke, Pop, Method, End, Building, TypeOK
    <3> QED
      BY <3>1 DEF Locked, Building, TypeOK
  <2>2. CASE Find(w)
    <3>1. /\ pc[w] = "find" /\ UNCHANGED <<registry, holder, built>>
          /\ \E to \in {"invoke", "lock", "check"} : pc' = [pc EXCEPT ![w] = to]
          /\ \A u \in Workers \ {w} : msg'[u] = msg[u]
      BY <2>2 DEF Find, End, TypeOK
    <3> QED
      BY <3>1 DEF Locked, Building, TypeOK
  <2>3. CASE Lock(w)
    <3>1. pc[w] = "lock" /\ holder = None /\ msg[w] \in Msgs /\ UNCHANGED <<registry, built, msg>>
      BY <2>3 DEF Lock, Known
    <3>2. CASE pc' = [pc EXCEPT ![w] = "invoke"] /\ UNCHANGED holder
      BY <3>1, <3>2 DEF Locked, Building, TypeOK
    <3>3. CASE pc' = [pc EXCEPT ![w] = "permit"] /\ holder' = w /\ registry[Target[msg[w]]] = "none"
      <4>1. \A u \in Workers : pc[u] \notin Building
        BY <3>1 DEF Locked
      <4> QED
        BY <3>1, <3>3, <4>1 DEF Locked, Building, TypeOK
    <3> QED
      BY <2>3, <3>2, <3>3 DEF Lock, Missing
  <2>4. CASE Permit(w) \/ LoadModule(w)
    <3>1. /\ pc[w] \in {"permit", "import"} /\ msg[w] \in Msgs /\ holder = w /\ UNCHANGED <<registry, built>>
          /\ \A u \in Workers \ {w} : pc[u] \notin Building
      BY <2>4 DEF Permit, LoadModule, Known, Locked, Building
    <3>2. CASE ActivateFails(w)
      BY <3>1, <3>2 DEF ActivateFails, End, Locked, Building, TypeOK
    <3>3. CASE (\E to \in {"import", "add"} : pc' = [pc EXCEPT ![w] = to]) /\ UNCHANGED <<holder, msg>>
      BY <3>1, <3>3 DEF Locked, Building, TypeOK
    <3> QED
      BY <2>4, <3>2, <3>3 DEF Permit, LoadModule
  <2>5. CASE Add(w)
    <3>1. /\ pc[w] = "add" /\ msg[w] \in Msgs /\ holder = w /\ registry[Target[msg[w]]] = "none"
          /\ built[Target[msg[w]]] = 0 /\ \A u \in Workers \ {w} : pc[u] \notin Building
      BY <2>0, <2>5 DEF Add, Known, Locked, Building
    <3>2. /\ built' = [built EXCEPT ![Target[msg[w]]] = 1]
          /\ registry' = [registry EXCEPT ![Target[msg[w]]] = "added"]
          /\ pc' = [pc EXCEPT ![w] = "publish"] /\ UNCHANGED <<holder, msg>>
      BY <2>0, <2>5, <3>1 DEF Add, TypeOK
    <3> QED
      BY <2>0, <3>1, <3>2 DEF Locked, Building, TypeOK
  <2>6. CASE Publish(w)
    <3>1. /\ pc[w] = "publish" /\ msg[w] \in Msgs /\ holder = w /\ registry[Target[msg[w]]] = "added"
          /\ \A u \in Workers \ {w} : pc[u] \notin Building
      BY <2>6 DEF Publish, Known, Locked, Building
    \* The invoker that Pool.add() registered is replaced; the service was built once.
    <3>2. registry' = [registry EXCEPT ![Target[msg[w]]] = "final"] /\ UNCHANGED <<built, msg>>
          /\ pc' = [pc EXCEPT ![w] = "invoke"] /\ holder' = None
      BY <2>6 DEF Publish
    <3> QED
      BY <2>0, <3>1, <3>2 DEF Locked, Building, TypeOK
  <2> QED
    BY <1>2, <2>1, <2>2, <2>3, <2>4, <2>5, <2>6 DEF Work
<1>3. CASE UNCHANGED vars
  BY <1>3 DEF vars, Locked, Building
<1> QED
  BY <1>1, <1>2, <1>3 DEF Next

-----------------------------------------------------------------------------
(* The queues of serialized invokers *)

Runs(w, i) == inv[w] = i /\ pc[w] \in {"pop", "method"}

\* The flag of an invoker says whether it has a runner; whoever enqueues without one becomes it.
Manned ==
  \A i \in Invokers : i[1] \in Serialized =>
    /\ \A w, u \in Workers : Runs(w, i) /\ Runs(u, i) => w = u
    /\ running[i] <=> \E w \in Workers : Runs(w, i)
    /\ queue[i] # <<>> => running[i]

LEMMA InitManned == Init => Manned
  BY DEF Init, Manned, Runs

LEMMA MannedElsewhere ==
  ASSUME Manned, UNCHANGED <<queue, running>>, NEW S \in SUBSET Workers,
         \A w \in Workers \ S : inv'[w] = inv[w] /\ pc'[w] = pc[w],
         \A w \in S : pc[w] \notin {"pop", "method"} /\ pc'[w] \notin {"pop", "method"}
  PROVE  Manned'
<1>1. \A w \in Workers, i \in Invokers : Runs(w, i)' <=> Runs(w, i)
  BY DEF Runs
<1> QED
  BY <1>1 DEF Manned

LEMMA NextManned ==
  ASSUME TypeOK, Known, Manned, [Next]_vars
  PROVE  Manned'
<1> USE DEF selectVars, mainVars, brokerVars, workerVars, poolVars, replyVars, Goto
<1>1. CASE MainNext \/ BrokerNext \/ Shutdown \/ \E m \in Msgs : Deliver(m)
  <2>1. UNCHANGED <<inv, queue, running>>
    BY <1>1, ElsewhereQuiet
  <2>2. \A w \in Workers : pc'[w] # pc[w] => pc[w] = "off" /\ pc'[w] = "check"
    BY <1>1, ElsewhereQuiet
  <2> DEFINE S == {w \in Workers : pc[w] = "off"}
  <2>3. \A w \in S : pc'[w] \notin {"pop", "method"}
    BY <2>2
  <2>4. \A w \in Workers \ S : pc'[w] = pc[w]
    BY <2>2
  <2> QED
    BY <2>1, <2>3, <2>4, MannedElsewhere
<1>2. ASSUME NEW w \in Workers, Work(w) PROVE Manned'
  <2>1. CASE \/ CheckClosed(w) \/ TakeToken(w) \/ Leave(w) \/ Fetch(w) \/ Find(w) \/ Lock(w)
             \/ Permit(w) \/ LoadModule(w) \/ Add(w) \/ Publish(w)
    <3>1. /\ pc[w] \notin {"pop", "method"} /\ UNCHANGED <<queue, running>>
          /\ \E to \in {"select", "exited", "fetch", "find", "check", "lock", "invoke", "permit", "import", "add", "publish"} :
               pc' = [pc EXCEPT ![w] = to]
          /\ \A u \in Workers \ {w} : inv'[u] = inv[u]
      <4>1. CASE CheckClosed(w) \/ TakeToken(w) \/ Leave(w) \/ Fetch(w)
        BY <4>1 DEF CheckClosed, TakeToken, Leave, Fetch
      <4>2. CASE Find(w) \/ Lock(w)
        BY <4>2 DEF Find, Lock, End, Use, TypeOK
      <4>3. CASE Permit(w) \/ LoadModule(w)
        BY <4>3 DEF Permit, LoadModule, ActivateFails, End, TypeOK
      <4>4. CASE Add(w) \/ Publish(w)
        BY <4>4 DEF Add, Publish, Use, TypeOK
      <4> QED
        BY <2>1, <4>1, <4>2, <4>3, <4>4
    <3>2. \A u \in Workers \ {w} : inv'[u] = inv[u] /\ pc'[u] = pc[u]
      BY <3>1 DEF TypeOK
    <3>3. \A u \in {w} : pc[u] \notin {"pop", "method"} /\ pc'[u] \notin {"pop", "method"}
      BY <3>1 DEF TypeOK
    <3>4. {w} \in SUBSET Workers
      OBVIOUS
    <3> QED
      BY <3>1, <3>2, <3>3, <3>4, MannedElsewhere
  <2>2. CASE Invoke(w)
    <3>1. pc[w] = "invoke" /\ inv[w] \in Invokers /\ \A i \in Invokers : ~Runs(w, i)
      BY <2>2 DEF Invoke, Known, Runs
    <3>2. CASE inv[w][1] \notin Serialized /\ pc' = [pc EXCEPT ![w] = "method"] /\ UNCHANGED <<inv, queue, running>>
      BY <3>1, <3>2 DEF Manned, Runs, TypeOK
    <3>3. CASE /\ inv[w][1] \in Serialized /\ queue' = [queue EXCEPT ![inv[w]] = Append(@, msg[w])]
               /\ running' = [running EXCEPT ![inv[w]] = TRUE]
               /\ inv' = [inv EXCEPT ![w] = IF First(inv[w]) THEN inv[w] ELSE <<>>]
               /\ pc' = [pc EXCEPT ![w] = IF First(inv[w]) THEN "pop" ELSE "check"]
      <4>1. CASE running[inv[w]]
        <5>1. \A u \in Workers, i \in Invokers : Runs(u, i)' <=> Runs(u, i)
          BY <3>1, <3>3, <4>1 DEF Runs, First, TypeOK
        <5> QED
          BY <3>1, <3>3, <4>1, <5>1 DEF Manned, TypeOK
      <4>2. CASE ~running[inv[w]]
        <5>1. \A u \in Workers, i \in Invokers : Runs(u, i)' <=> (Runs(u, i) \/ (u = w /\ i = inv[w]))
          BY <3>1, <3>3, <4>2 DEF Runs, First, TypeOK
        <5>2. \A u \in Workers : ~Runs(u, inv[w])
          BY <3>1, <3>3, <4>2 DEF Manned
        <5> QED
          BY <3>1, <3>3, <5>1, <5>2 DEF Manned, TypeOK
      <4> QED
        BY <4>1, <4>2
    <3> QED
      BY <2>2, <3>2, <3>3 DEF Invoke
  <2>3. CASE Pop(w)
    <3>1. pc[w] = "pop" /\ inv[w] \in Invokers /\ inv[w][1] \in Serialized /\ Runs(w, inv[w])
      BY <2>3 DEF Pop, Known, Runs
    <3>2. CASE /\ queue[inv[w]] = <<>> /\ running' = [running EXCEPT ![inv[w]] = FALSE]
               /\ inv' = [inv EXCEPT ![w] = <<>>] /\ pc' = [pc EXCEPT ![w] = "check"] /\ UNCHANGED queue
      <4>1. \A u \in Workers, i \in Invokers : Runs(u, i)' <=> (Runs(u, i) /\ u # w)
        BY <3>2 DEF Runs, TypeOK
      <4>2. \A i \in Invokers : Runs(w, i) => i = inv[w]
        BY DEF Runs
      <4> QED
        BY <3>1, <3>2, <4>1, <4>2 DEF Manned, TypeOK
    <3>3. CASE /\ queue' = [queue EXCEPT ![inv[w]] = Tail(@)] /\ queue[inv[w]] # <<>>
               /\ pc' = [pc EXCEPT ![w] = "method"] /\ UNCHANGED <<running, inv>>
      <4>1. \A u \in Workers, i \in Invokers : Runs(u, i)' <=> Runs(u, i)
        BY <3>1, <3>3 DEF Runs, TypeOK
      <4>2. \A i \in Invokers : queue'[i] # <<>> => queue[i] # <<>>
        BY <3>3 DEF TypeOK
      <4> QED
        BY <3>3, <4>1, <4>2 DEF Manned
    <3> QED
      BY <2>3, <3>2, <3>3 DEF Pop, NotRunning
  <2>4. CASE Method(w)
    <3>1. pc[w] = "method" /\ inv[w] \in Invokers /\ UNCHANGED <<queue, running>>
      BY <2>4 DEF Method, Known
    <3>2. CASE inv[w][1] \in Serialized
      <4>1. pc' = [pc EXCEPT ![w] = "pop"] /\ pc'[w] = "pop"
        BY <2>4, <3>2 DEF Method, TypeOK
      <4>2. inv' = inv
        BY <2>4, <4>1 DEF Method, End, TypeOK
      <4>3. \A u \in Workers, i \in Invokers : Runs(u, i)' <=> Runs(u, i)
        BY <3>1, <4>1, <4>2 DEF Runs, TypeOK
      <4> QED
        BY <3>1, <4>3 DEF Manned
    <3>3. CASE inv[w][1] \notin Serialized
      <4>1. pc' = [pc EXCEPT ![w] = "check"] /\ \A u \in Workers \ {w} : inv'[u] = inv[u]
        BY <2>4, <3>3 DEF Method, End, TypeOK
      <4>2. \A u \in Workers, i \in Invokers : i[1] \in Serialized => (Runs(u, i)' <=> Runs(u, i))
        BY <3>1, <3>3, <4>1 DEF Runs, TypeOK
      <4> QED
        BY <3>1, <4>2 DEF Manned
    <3> QED
      BY <3>2, <3>3
  <2> QED
    BY <1>2, <2>1, <2>2, <2>3, <2>4 DEF Work
<1>3. CASE UNCHANGED vars
  BY <1>3 DEF vars, Manned, Runs
<1> QED
  BY <1>1, <1>2, <1>3 DEF Next

LEMMA MannedOne == Manned => OneRunner
<1> SUFFICES ASSUME Manned, NEW i \in Invokers, i[1] \in Serialized
             PROVE  LET runners == {w \in Workers : inv[w] = i /\ pc[w] \in {"pop", "method"}} IN
                    /\ Cardinality(runners) <= 1
                    /\ queue[i] # <<>> => runners # {}
  BY DEF OneRunner
<1> DEFINE runners == {w \in Workers : inv[w] = i /\ pc[w] \in {"pop", "method"}}
<1>1. \A w, u \in runners : w = u
  BY DEF Manned, Runs
<1>2. queue[i] # <<>> => \E w \in Workers : Runs(w, i)
  BY DEF Manned
<1>3. (\E w \in Workers : Runs(w, i)) => runners # {}
  BY DEF Runs
<1>4. Cardinality(runners) <= 1
  <2>1. CASE runners = {}
    <3>1. Cardinality(runners) = 0
      BY <2>1, FS_EmptySet
    <3> QED
      BY <3>1
  <2>2. CASE runners # {}
    <3>1. PICK w \in runners : TRUE
      BY <2>2
    <3>2. runners = {w}
      BY <1>1, <3>1
    <3>3. Cardinality(runners) = 1
      BY <3>2, FS_Singleton
    <3> QED
      BY <3>3
  <2> QED
    BY <2>1, <2>2
<1> QED
  BY <1>2, <1>3, <1>4

-----------------------------------------------------------------------------
(* A request is in one place at a time, and answered when it leaves the last *)

Has(s, m) == \E k \in DOMAIN s : s[k] = m
Once(s, m) == \A j, k \in DOMAIN s : s[j] = m /\ s[k] = m => j = k

Arriving(m) == bpc = "put" /\ cur[2] = m
Boxed(m) == \E r \in Receivers : Has(box[r], m)
Handled(m) == \E w \in Workers : msg[w] = m
Queued(m) == \E i \in Invokers : Has(queue[i], m)

OnePlace(m) ==
  /\ Arriving(m) => ~Boxed(m) /\ ~Handled(m) /\ ~Queued(m) /\ m \notin ended
  /\ Boxed(m) => ~Handled(m) /\ ~Queued(m) /\ m \notin ended
  /\ Handled(m) => ~Queued(m) /\ m \notin ended
  /\ Queued(m) => m \notin ended

\* No place holds it twice.
OneCopy(m) ==
  /\ \A r, q \in Receivers : Has(box[r], m) /\ Has(box[q], m) => r = q
  /\ \A i, j \in Invokers : Has(queue[i], m) /\ Has(queue[j], m) => i = j
  /\ \A w, u \in Workers : msg[w] = m /\ msg[u] = m => w = u
  /\ \A r \in Receivers : Once(box[r], m)
  /\ \A i \in Invokers : Once(queue[i], m)

Accounted(m) ==
  /\ m \notin sent => ~Arriving(m) /\ ~Boxed(m) /\ ~Handled(m) /\ ~Queued(m) /\ m \notin ended
  /\ m \notin ended => replies[m] = 0
  /\ m \in ended => replies[m] <= 1
  /\ m \in ended \ Quiet => replies[m] = 1

PlacedOnce(m) == OnePlace(m) /\ OneCopy(m) /\ Accounted(m)
Placed == \A m \in Msgs : PlacedOnce(m)

LEMMA HasAppend ==
  ASSUME NEW S, NEW s \in Seq(S), NEW e \in S, NEW m
  PROVE  /\ Has(Append(s, e), m) <=> Has(s, m) \/ m = e
         /\ Once(s, m) /\ (m = e => ~Has(s, m)) => Once(Append(s, e), m)
<1>1. /\ DOMAIN s = 1..Len(s) /\ Len(s) \in Nat /\ DOMAIN Append(s, e) = 1..(Len(s) + 1)
      /\ \A k \in 1..Len(s) : Append(s, e)[k] = s[k]
      /\ Append(s, e)[Len(s) + 1] = e
  OBVIOUS
<1>2. \A k \in 1..(Len(s) + 1) : k \in 1..Len(s) \/ k = Len(s) + 1
  BY <1>1
<1>3. \A k \in 1..Len(s) : k \in 1..(Len(s) + 1)
  BY <1>1
<1>4. Len(s) + 1 \in 1..(Len(s) + 1)
  BY <1>1
<1>5. Has(Append(s, e), m) <=> Has(s, m) \/ m = e
  BY <1>1, <1>2, <1>3, <1>4 DEF Has
<1>6. Once(s, m) /\ (m = e => ~Has(s, m)) => Once(Append(s, e), m)
  BY <1>1, <1>2 DEF Has, Once
<1> QED
  BY <1>5, <1>6

LEMMA HasTail ==
  ASSUME NEW S, NEW s \in Seq(S), s # <<>>, NEW m
  PROVE  /\ Has(s, m) <=> Has(Tail(s), m) \/ m = Head(s)
         /\ Once(s, m) => Once(Tail(s), m) /\ (m = Head(s) => ~Has(Tail(s), m))
<1>1. /\ DOMAIN s = 1..Len(s) /\ Len(s) \in Nat \ {0} /\ Head(s) = s[1]
      /\ DOMAIN Tail(s) = 1..(Len(s) - 1)
      /\ \A k \in 1..(Len(s) - 1) : Tail(s)[k] = s[k + 1]
  OBVIOUS
<1>2. \A k \in 1..(Len(s) - 1) : k + 1 \in 1..Len(s) /\ k + 1 # 1
  BY <1>1
<1>3. \A k \in 1..Len(s) : k = 1 \/ (k - 1 \in 1..(Len(s) - 1) /\ (k - 1) + 1 = k)
  BY <1>1
<1>4. 1 \in 1..Len(s)
  BY <1>1
<1>5. Has(s, m) => Has(Tail(s), m) \/ m = Head(s)
  <2> SUFFICES ASSUME NEW k \in 1..Len(s), s[k] = m, k # 1 PROVE Has(Tail(s), m)
    BY <1>1 DEF Has
  <2>1. k - 1 \in 1..(Len(s) - 1) /\ Tail(s)[k - 1] = m
    BY <1>1, <1>3
  <2> QED
    BY <1>1, <2>1 DEF Has
<1>6. Has(Tail(s), m) \/ m = Head(s) => Has(s, m)
  BY <1>1, <1>2, <1>4 DEF Has
<1>7. Once(s, m) => Once(Tail(s), m)
  <2> SUFFICES ASSUME Once(s, m), NEW j \in 1..(Len(s) - 1), NEW k \in 1..(Len(s) - 1),
                      Tail(s)[j] = m, Tail(s)[k] = m
               PROVE  j = k
    BY <1>1 DEF Once
  <2>1. s[j + 1] = m /\ s[k + 1] = m
    BY <1>1
  <2>2. j + 1 = k + 1
    BY <1>1, <1>2, <2>1 DEF Once
  <2> QED
    BY <2>2
<1>8. Once(s, m) /\ m = Head(s) => ~Has(Tail(s), m)
  BY <1>1, <1>2, <1>4 DEF Has, Once
<1> QED
  BY <1>5, <1>6, <1>7, <1>8

LEMMA InitPlaced == Init => Placed
<1> SUFFICES ASSUME Init, NEW m \in Msgs PROVE PlacedOnce(m)
  BY DEF Placed
<1>1. /\ ~Arriving(m) /\ m \notin ended /\ replies[m] = 0
      /\ \A r \in Receivers : ~Has(box[r], m) /\ Once(box[r], m)
      /\ \A i \in Invokers : ~Has(queue[i], m) /\ Once(queue[i], m)
      /\ \A w \in Workers : msg[w] # m
  BY Outside DEF Init, Arriving, Has, Once
<1> QED
  BY <1>1 DEF PlacedOnce, OnePlace, OneCopy, Accounted, Boxed, Handled, Queued

\* A request that a step leaves where it is.
LEMMA SamePlace ==
  ASSUME NEW m, PlacedOnce(m),
         Arriving(m)' => Arriving(m),
         \A r \in Receivers : (Has(box[r], m)' => Has(box[r], m)) /\ (Once(box[r], m) => Once(box[r], m)'),
         \A i \in Invokers : (Has(queue[i], m)' => Has(queue[i], m)) /\ (Once(queue[i], m) => Once(queue[i], m)'),
         \A w \in Workers : msg'[w] = m => msg[w] = m,
         (m \in ended') = (m \in ended), m \in sent => m \in sent', replies'[m] = replies[m]
  PROVE  PlacedOnce(m)'
<1>1. (Boxed(m)' => Boxed(m)) /\ (Queued(m)' => Queued(m)) /\ (Handled(m)' => Handled(m))
  BY DEF Boxed, Queued, Handled
<1>2. OnePlace(m)'
  BY <1>1 DEF PlacedOnce, OnePlace
<1>3. OneCopy(m)'
  BY DEF PlacedOnce, OneCopy
<1>4. Accounted(m)'
  BY <1>1 DEF PlacedOnce, Accounted
<1> QED
  BY <1>2, <1>3, <1>4 DEF PlacedOnce

LEMMA PlacedByBroker ==
  ASSUME TypeOK, Known, Placed, MainNext \/ BrokerNext \/ Shutdown \/ \E m \in Msgs : Deliver(m)
  PROVE  Placed'
<1> USE DEF selectVars, mainVars, brokerVars, workerVars, poolVars, replyVars
<1> SUFFICES ASSUME NEW m \in Msgs PROVE PlacedOnce(m)'
  BY DEF Placed
<1>0. PlacedOnce(m) /\ UNCHANGED <<msg, queue, ended, replies>>
  BY ElsewhereQuiet DEF Placed
<1>1. CASE BrokerPut
  <2>1. /\ bpc = "put" /\ bpc' = "notify" /\ cur[1] \in Receivers /\ cur[2] \in Msgs /\ UNCHANGED sent
        /\ box' = [box EXCEPT ![cur[1]] = Append(box[cur[1]], cur[2])]
    BY <1>1 DEF BrokerPut, TypeOK, Known
  <2>2. box[cur[1]] \in Seq(Msgs)
    BY <2>1 DEF TypeOK
  <2>3. /\ Has(Append(box[cur[1]], cur[2]), m) <=> Has(box[cur[1]], m) \/ m = cur[2]
        /\ Once(box[cur[1]], m) /\ (m = cur[2] => ~Has(box[cur[1]], m)) => Once(Append(box[cur[1]], cur[2]), m)
    BY <2>1, <2>2, HasAppend
  <2>4. /\ box'[cur[1]] = Append(box[cur[1]], cur[2])
        /\ \A r \in Receivers \ {cur[1]} : box'[r] = box[r]
    BY <2>1 DEF TypeOK
  <2>5. ~Arriving(m)'
    BY <2>1 DEF Arriving
  <2>6. CASE m = cur[2]
    <3>1. Arriving(m) /\ m \in sent
      BY <1>0, <2>1, <2>6 DEF Arriving, PlacedOnce, Accounted
    <3>2. /\ ~Boxed(m) /\ ~Handled(m) /\ ~Queued(m) /\ m \notin ended
          /\ \A r \in Receivers : ~Has(box[r], m) /\ Once(box[r], m)
      BY <1>0, <3>1 DEF PlacedOnce, OnePlace, OneCopy, Boxed
    <3>3. ~Handled(m)' /\ ~Queued(m)' /\ m \notin ended' /\ m \in sent'
      BY <1>0, <2>1, <3>1, <3>2 DEF Handled, Queued
    <3>4. \A r \in Receivers : (Has(box'[r], m) <=> r = cur[1]) /\ Once(box'[r], m)
      BY <2>1, <2>3, <2>4, <2>6, <3>2
    <3>5. OneCopy(m)'
      BY <1>0, <3>4 DEF PlacedOnce, OneCopy
    <3> QED
      BY <1>0, <2>5, <3>2, <3>3, <3>5 DEF PlacedOnce, OnePlace, Accounted
  <2>7. CASE m # cur[2]
    <3>1. \A r \in Receivers : (Has(box[r], m)' => Has(box[r], m)) /\ (Once(box[r], m) => Once(box[r], m)')
      BY <2>3, <2>4, <2>7
    <3> QED
      BY <1>0, <2>1, <2>5, <3>1, SamePlace
  <2> QED
    BY <2>6, <2>7
<1>2. ASSUME NEW n \in Msgs, Deliver(n) PROVE PlacedOnce(m)'
  <2>1. /\ bpc = "loop" /\ n \notin sent /\ sent' = sent \cup {n} /\ bpc' = "put" /\ cur'[2] = n
        /\ UNCHANGED box
    BY <1>2 DEF Deliver
  <2>2. ~Arriving(m) /\ (Arriving(m)' <=> m = n)
    BY <2>1 DEF Arriving
  <2>3. CASE m = n
    <3>1. ~Boxed(m) /\ ~Handled(m) /\ ~Queued(m) /\ m \notin ended /\ m \in sent'
      BY <1>0, <2>1, <2>3 DEF PlacedOnce, Accounted
    <3>2. ~Boxed(m)' /\ ~Handled(m)' /\ ~Queued(m)' /\ m \notin ended'
      BY <1>0, <2>1, <3>1 DEF Boxed, Handled, Queued
    <3>3. OneCopy(m)'
      BY <1>0, <2>1 DEF PlacedOnce, OneCopy
    <3> QED
      BY <1>0, <2>2, <3>1, <3>2, <3>3 DEF PlacedOnce, OnePlace, Accounted
  <2>4. CASE m # n
    BY <1>0, <2>1, <2>2, <2>4, SamePlace
  <2> QED
    BY <2>3, <2>4
<1>3. ASSUME UNCHANGED <<box, sent>>, bpc' # "put" PROVE PlacedOnce(m)'
  <2>1. ~Arriving(m)'
    BY <1>3 DEF Arriving
  <2> QED
    BY <1>0, <1>3, <2>1, SamePlace
<1>4. ASSUME UNCHANGED <<box, sent, bpc, cur>> PROVE PlacedOnce(m)'
  <2>1. Arriving(m)' <=> Arriving(m)
    BY <1>4 DEF Arriving
  <2> QED
    BY <1>0, <1>4, <2>1, SamePlace
<1>5. CASE MainNext
  BY <1>4, <1>5 DEF MainNext, InitServicePool, NewReceiver, Mute, StartThreads, Listen, AddNotify, AddBuffered
<1>6. CASE BrokerTest \/ BrokerNotify \/ Stop \/ CloseReceiver \/ CloseSelect \/ Join \/ BrokerExit \/ Shutdown
  BY <1>3, <1>6 DEF BrokerTest, BrokerNotify, Stop, CloseReceiver, CloseSelect, Join, BrokerExit, Shutdown
<1> QED
  BY <1>1, <1>2, <1>5, <1>6 DEF BrokerNext

\* A worker is done with its request.
LEMMA PlacedEnd ==
  ASSUME TypeOK, Placed, NEW w \in Workers, msg[w] \in Msgs,
         NEW n \in {0, 1}, n = 0 => msg[w] \in Quiet, End(w, n),
         UNCHANGED <<box, queue, bpc, cur, sent>>
  PROVE  Placed'
<1> SUFFICES ASSUME NEW m \in Msgs PROVE PlacedOnce(m)'
  BY DEF Placed
<1>0. /\ PlacedOnce(m) /\ (Arriving(m)' <=> Arriving(m)) /\ (Boxed(m)' <=> Boxed(m)) /\ (Queued(m)' <=> Queued(m))
      /\ msg' = [msg EXCEPT ![w] = None] /\ ended' = ended \cup {msg[w]}
      /\ replies' = [replies EXCEPT ![msg[w]] = @ + n]
  BY DEF Placed, Arriving, Boxed, Queued, End
<1>1. \A u \in Workers : msg'[u] = IF u = w THEN None ELSE msg[u]
  BY <1>0 DEF TypeOK
<1>2. OneCopy(m)'
  BY <1>0, <1>1, Outside DEF PlacedOnce, OneCopy
<1>3. CASE m = msg[w]
  <2>1. Handled(m) /\ m \notin ended /\ replies[m] = 0 /\ m \in sent
    BY <1>0, <1>3 DEF Handled, PlacedOnce, OnePlace, Accounted
  <2>2. ~Handled(m)'
    BY <1>0, <1>1, <1>3, Outside DEF Handled, PlacedOnce, OneCopy
  <2>3. ~Arriving(m)' /\ ~Boxed(m)' /\ ~Queued(m)'
    BY <1>0, <2>1 DEF PlacedOnce, OnePlace
  <2>4. replies'[m] = n /\ m \in ended'
    BY <1>0, <1>3, <2>1 DEF TypeOK
  <2> QED
    BY <1>2, <1>3, <2>1, <2>2, <2>3, <2>4 DEF PlacedOnce, OnePlace, Accounted
<1>4. CASE m # msg[w]
  <2>1. \A u \in Workers : msg'[u] = m => msg[u] = m
    BY <1>1, Outside
  <2>2. (m \in ended') = (m \in ended) /\ replies'[m] = replies[m]
    BY <1>0, <1>4 DEF TypeOK
  <2> QED
    BY <1>0, <2>1, <2>2, SamePlace
<1> QED
  BY <1>3, <1>4

\* A worker takes the request n, which only one receiver or one queue holds.
LEMMA PlacedTake ==
  ASSUME TypeOK, Placed, NEW w \in Workers, NEW n \in Msgs, Boxed(n) \/ Queued(n),
         msg' = [msg EXCEPT ![w] = n], UNCHANGED <<bpc, cur, sent, ended, replies>>,
         ~Boxed(n)', ~Queued(n)',
         \A m \in Msgs, r \in Receivers : (Has(box[r], m)' => Has(box[r], m)) /\ (Once(box[r], m) => Once(box[r], m)'),
         \A m \in Msgs, i \in Invokers : (Has(queue[i], m)' => Has(queue[i], m)) /\ (Once(queue[i], m) => Once(queue[i], m)')
  PROVE  Placed'
<1> SUFFICES ASSUME NEW m \in Msgs PROVE PlacedOnce(m)'
  BY DEF Placed
<1>0. PlacedOnce(m) /\ (Arriving(m)' <=> Arriving(m))
  BY DEF Placed, Arriving
<1>1. \A u \in Workers : msg'[u] = IF u = w THEN n ELSE msg[u]
  BY DEF TypeOK
<1>2. CASE m = n
  <2>1. ~Arriving(m) /\ ~Handled(m) /\ m \notin ended /\ m \in sent /\ replies[m] = 0
    BY <1>0, <1>2 DEF PlacedOnce, OnePlace, Accounted
  <2>2. \A u \in Workers : msg'[u] = m => u = w
    BY <1>1, <2>1 DEF Handled
  <2>3. OneCopy(m)'
    BY <1>0, <2>2 DEF PlacedOnce, OneCopy
  <2>4. OnePlace(m)'
    BY <1>0, <1>2, <2>1 DEF OnePlace
  <2>5. Accounted(m)'
    BY <2>1 DEF Accounted
  <2> QED
    BY <2>3, <2>4, <2>5 DEF PlacedOnce
<1>3. CASE m # n
  BY <1>0, <1>1, <1>3, SamePlace
<1> QED
  BY <1>2, <1>3

LEMMA PlacedByWorker ==
  ASSUME TypeOK, Known, Placed, NEW w \in Workers, Work(w)
  PROVE  Placed'
<1> USE DEF selectVars, mainVars, brokerVars, workerVars, poolVars, replyVars, Goto
<1>1. ASSUME UNCHANGED <<box, queue, bpc, cur, sent, msg, ended, replies>> PROVE Placed'
  <2> SUFFICES ASSUME NEW m \in Msgs PROVE PlacedOnce(m)'
    BY DEF Placed
  <2>1. PlacedOnce(m) /\ (Arriving(m)' <=> Arriving(m))
    BY <1>1 DEF Placed, Arriving
  <2> QED
    BY <1>1, <2>1, SamePlace
<1>2. CASE CheckClosed(w) \/ TakeToken(w) \/ Leave(w) \/ Lock(w) \/ Add(w) \/ Publish(w)
  BY <1>1, <1>2 DEF CheckClosed, TakeToken, Leave, Lock, Add, Publish
<1>3. CASE Fetch(w)
  <2>1. src[w] \in Receivers /\ UNCHANGED <<queue, bpc, cur, sent, ended, replies>>
    BY <1>3 DEF Fetch, Known
  <2>2. CASE UNCHANGED <<box, msg>>
    BY <1>1, <2>1, <2>2
  <2>3. CASE /\ box[src[w]] # <<>> /\ msg' = [msg EXCEPT ![w] = Head(box[src[w]])]
             /\ box' = [box EXCEPT ![src[w]] = Tail(@)]
    <3>0. box[src[w]] \in Seq(Msgs) /\ Head(box[src[w]]) \in Msgs
      BY <2>1, <2>3 DEF TypeOK
    <3>1. PICK n \in Msgs : n = Head(box[src[w]])
      BY <3>0
    <3>2. /\ box'[src[w]] = Tail(box[src[w]])
          /\ \A r \in Receivers \ {src[w]} : box'[r] = box[r]
      BY <2>1, <2>3 DEF TypeOK
    <3>3. \A m : /\ Has(box[src[w]], m) <=> Has(Tail(box[src[w]]), m) \/ m = n
                 /\ Once(box[src[w]], m) => Once(Tail(box[src[w]]), m) /\ (m = n => ~Has(Tail(box[src[w]]), m))
      BY <2>3, <3>0, <3>1, HasTail
    <3>4. \A m \in Msgs, r \in Receivers : (Has(box'[r], m) => Has(box[r], m)) /\ (Once(box[r], m) => Once(box'[r], m))
      BY <3>2, <3>3
    <3>5. Has(box[src[w]], n) /\ Boxed(n) /\ PlacedOnce(n)
      BY <2>1, <3>1, <3>3 DEF Boxed, Placed
    <3>6. ~Queued(n)'
      BY <2>1, <3>5 DEF PlacedOnce, OnePlace, Queued
    <3>7. ~Boxed(n)'
      <4>1. \A r \in Receivers \ {src[w]} : ~Has(box'[r], n)
        BY <2>1, <3>2, <3>5 DEF PlacedOnce, OneCopy
      <4>2. ~Has(box'[src[w]], n)
        BY <2>1, <3>2, <3>3, <3>5 DEF PlacedOnce, OneCopy
      <4> QED
        BY <4>1, <4>2 DEF Boxed
    <3>8. \A m \in Msgs, i \in Invokers : (Has(queue'[i], m) => Has(queue[i], m)) /\ (Once(queue[i], m) => Once(queue'[i], m))
      BY <2>1
    <3>9. msg' = [msg EXCEPT ![w] = n]
      BY <2>3, <3>1
    <3> QED
      BY <2>1, <3>1, <3>4, <3>5, <3>6, <3>7, <3>8, <3>9, PlacedTake
  <2> QED
    BY <1>3, <2>2, <2>3 DEF Fetch
<1>4. ASSUME NEW n \in {0, 1}, n = 0 => msg[w] \in Quiet, End(w, n), msg[w] \in Msgs,
             UNCHANGED <<box, queue, bpc, cur, sent>>
      PROVE  Placed'
  BY <1>4, PlacedEnd
<1>5. CASE Find(w)
  <2>1. msg[w] \in Msgs /\ UNCHANGED <<box, queue, bpc, cur, sent>>
    BY <1>5 DEF Find, Known
  <2>2. CASE End(w, 1)
    BY <1>4, <2>1, <2>2
  <2>3. CASE UNCHANGED <<msg, ended, replies>>
    BY <1>1, <2>1, <2>3
  <2> QED
    BY <1>5, <2>2, <2>3 DEF Find
<1>6. CASE Permit(w) \/ LoadModule(w)
  <2>1. msg[w] \in Msgs /\ UNCHANGED <<box, queue, bpc, cur, sent>>
    BY <1>6 DEF Permit, LoadModule, Known
  <2>2. CASE End(w, 1)
    BY <1>4, <2>1, <2>2
  <2>3. CASE UNCHANGED <<msg, ended, replies>>
    BY <1>1, <2>1, <2>3
  <2> QED
    BY <1>6, <2>2, <2>3 DEF Permit, LoadModule, ActivateFails
<1>7. CASE Method(w)
  <2>1. msg[w] \in Msgs /\ UNCHANGED <<box, queue, bpc, cur, sent>>
    BY <1>7 DEF Method, Known
  <2>2. PICK n \in {0, 1} : End(w, n) /\ (n = 0 => msg[w] \in Quiet)
    BY <1>7 DEF Method, Replies
  <2> QED
    BY <1>4, <2>1, <2>2
<1>8. CASE Invoke(w)
  <2>1. msg[w] \in Msgs /\ inv[w] \in Invokers /\ UNCHANGED <<box, bpc, cur, sent, ended, replies>>
    BY <1>8 DEF Invoke, Known
  <2>2. CASE UNCHANGED <<msg, queue>>
    BY <1>1, <2>1, <2>2
  <2>3. CASE msg' = [msg EXCEPT ![w] = None] /\ queue' = [queue EXCEPT ![inv[w]] = Append(@, msg[w])]
    <3> SUFFICES ASSUME NEW m \in Msgs PROVE PlacedOnce(m)'
      BY DEF Placed
    <3>0. PlacedOnce(m) /\ (Arriving(m)' <=> Arriving(m)) /\ (Boxed(m)' <=> Boxed(m))
      BY <2>1 DEF Placed, Arriving, Boxed
    <3>1. queue[inv[w]] \in Seq(Msgs)
      BY <2>1 DEF TypeOK
    <3>2. /\ queue'[inv[w]] = Append(queue[inv[w]], msg[w])
          /\ \A i \in Invokers \ {inv[w]} : queue'[i] = queue[i]
      BY <2>1, <2>3 DEF TypeOK
    <3>3. /\ Has(Append(queue[inv[w]], msg[w]), m) <=> Has(queue[inv[w]], m) \/ m = msg[w]
          /\ Once(queue[inv[w]], m) /\ (m = msg[w] => ~Has(queue[inv[w]], m)) => Once(Append(queue[inv[w]], msg[w]), m)
      BY <2>1, <3>1, HasAppend
    <3>4. \A u \in Workers : msg'[u] = IF u = w THEN None ELSE msg[u]
      BY <2>3 DEF TypeOK
    <3>5. CASE m = msg[w]
      <4>1. Handled(m) /\ ~Queued(m) /\ ~Arriving(m) /\ ~Boxed(m) /\ m \notin ended /\ m \in sent
        BY <3>0, <3>5 DEF Handled, PlacedOnce, OnePlace, Accounted
      <4>2. ~Handled(m)'
        BY <3>0, <3>4, <3>5, Outside DEF Handled, PlacedOnce, OneCopy
      <4>3. \A i \in Invokers : (Has(queue'[i], m) => i = inv[w]) /\ Once(queue'[i], m)
        BY <2>1, <3>0, <3>2, <3>3, <3>5, <4>1 DEF Queued, PlacedOnce, OneCopy
      <4>4. OneCopy(m)'
        BY <2>1, <3>0, <3>4, <4>3, <4>2 DEF PlacedOnce, OneCopy, Handled
      <4>5. OnePlace(m)'
        BY <2>1, <3>0, <4>1, <4>2 DEF OnePlace
      <4>6. Accounted(m)'
        BY <2>1, <3>0, <4>1 DEF PlacedOnce, Accounted
      <4> QED
        BY <4>4, <4>5, <4>6 DEF PlacedOnce
    <3>6. CASE m # msg[w]
      <4>1. \A i \in Invokers : (Has(queue'[i], m) => Has(queue[i], m)) /\ (Once(queue[i], m) => Once(queue'[i], m))
        BY <3>2, <3>3, <3>6
      <4>2. \A u \in Workers : msg'[u] = m => msg[u] = m
        BY <3>4, Outside
      <4>3. \A r \in Receivers : (Has(box'[r], m) => Has(box[r], m)) /\ (Once(box[r], m) => Once(box'[r], m))
        BY <2>1
      <4> QED
        BY <2>1, <3>0, <4>1, <4>2, <4>3, SamePlace
    <3> QED
      BY <3>5, <3>6
  <2> QED
    BY <1>8, <2>2, <2>3 DEF Invoke
<1>9. CASE Pop(w)
  <2>1. inv[w] \in Invokers /\ UNCHANGED <<box, bpc, cur, sent, ended, replies>>
    BY <1>9 DEF Pop, Known
  <2>2. CASE UNCHANGED <<msg, queue>>
    BY <1>1, <2>1, <2>2
  <2>3. CASE /\ queue[inv[w]] # <<>> /\ msg' = [msg EXCEPT ![w] = Head(queue[inv[w]])]
             /\ queue' = [queue EXCEPT ![inv[w]] = Tail(@)]
    <3>0. queue[inv[w]] \in Seq(Msgs) /\ Head(queue[inv[w]]) \in Msgs
      BY <2>1, <2>3 DEF TypeOK
    <3>1. PICK n \in Msgs : n = Head(queue[inv[w]])
      BY <3>0
    <3>2. /\ queue'[inv[w]] = Tail(queue[inv[w]])
          /\ \A i \in Invokers \ {inv[w]} : queue'[i] = queue[i]
      BY <2>1, <2>3 DEF TypeOK
    <3>3. \A m : /\ Has(queue[inv[w]], m) <=> Has(Tail(queue[inv[w]]), m) \/ m = n
                 /\ Once(queue[inv[w]], m) => Once(Tail(queue[inv[w]]), m) /\ (m = n => ~Has(Tail(queue[inv[w]]), m))
      BY <2>3, <3>0, <3>1, HasTail
    <3>4. \A m \in Msgs, i \in Invokers : (Has(queue'[i], m) => Has(queue[i], m)) /\ (Once(queue[i], m) => Once(queue'[i], m))
      BY <3>2, <3>3
    <3>5. Has(queue[inv[w]], n) /\ Queued(n) /\ PlacedOnce(n)
      BY <2>1, <3>1, <3>3 DEF Queued, Placed
    <3>6. ~Boxed(n)'
      BY <2>1, <3>5 DEF PlacedOnce, OnePlace, Boxed
    <3>7. ~Queued(n)'
      <4>1. \A i \in Invokers \ {inv[w]} : ~Has(queue'[i], n)
        BY <2>1, <3>2, <3>5 DEF PlacedOnce, OneCopy
      <4>2. ~Has(queue'[inv[w]], n)
        BY <2>1, <3>2, <3>3, <3>5 DEF PlacedOnce, OneCopy
      <4> QED
        BY <4>1, <4>2 DEF Queued
    <3>8. \A m \in Msgs, r \in Receivers : (Has(box'[r], m) => Has(box[r], m)) /\ (Once(box[r], m) => Once(box'[r], m))
      BY <2>1
    <3>9. msg' = [msg EXCEPT ![w] = n]
      BY <2>3, <3>1
    <3> QED
      BY <2>1, <3>1, <3>4, <3>5, <3>6, <3>7, <3>8, <3>9, PlacedTake
  <2> QED
    BY <1>9, <2>2, <2>3 DEF Pop
<1> QED
  BY <1>2, <1>3, <1>5, <1>6, <1>7, <1>8, <1>9 DEF Work

LEMMA NextPlaced ==
  ASSUME TypeOK, Known, Placed, [Next]_vars
  PROVE  Placed'
<1>1. CASE UNCHANGED vars
  <2> SUFFICES ASSUME NEW m \in Msgs PROVE PlacedOnce(m)'
    BY DEF Placed
  <2>1. PlacedOnce(m)
    BY DEF Placed
  <2> QED
    BY <1>1, <2>1, SamePlace DEF vars, selectVars, mainVars, brokerVars, workerVars, poolVars, replyVars, Arriving
<1>2. CASE \E w \in Workers : Work(w)
  BY <1>2, PlacedByWorker
<1>3. CASE MainNext \/ BrokerNext \/ Shutdown \/ \E m \in Msgs : Deliver(m)
  BY <1>3, PlacedByBroker
<1> QED
  BY <1>1, <1>2, <1>3 DEF Next

LEMMA PlacedAnswered == TypeOK /\ Placed => AnsweredOnce
  BY DEF TypeOK, Placed, PlacedOnce, Accounted, AnsweredOnce

-----------------------------------------------------------------------------
(* Every buffered request is announced *)

LEMMA CountType ==
  ASSUME NEW S, NEW s \in Seq(S), NEW x
  PROVE  /\ Count(s, x) \in Nat
         /\ IsFiniteSet({k \in DOMAIN s : s[k] = x})
<1>1. IsFiniteSet(1..Len(s)) /\ DOMAIN s = 1..Len(s)
  BY FS_Interval
<1>2. IsFiniteSet({k \in DOMAIN s : s[k] = x})
  BY <1>1, FS_Subset
<1> QED
  BY <1>2, FS_CardinalityType DEF Count

LEMMA CountAppend ==
  ASSUME NEW S, NEW s \in Seq(S), NEW e \in S, NEW x
  PROVE  Count(Append(s, e), x) = Count(s, x) + (IF e = x THEN 1 ELSE 0)
<1> DEFINE old == {k \in DOMAIN s : s[k] = x}
           new == {k \in DOMAIN Append(s, e) : Append(s, e)[k] = x}
<1>1. /\ DOMAIN s = 1..Len(s) /\ Len(s) \in Nat /\ DOMAIN Append(s, e) = 1..(Len(s) + 1)
      /\ \A k \in 1..Len(s) : Append(s, e)[k] = s[k]
      /\ Append(s, e)[Len(s) + 1] = e
  OBVIOUS
<1>2. \A k : k \in 1..(Len(s) + 1) <=> k \in 1..Len(s) \/ k = Len(s) + 1
  BY <1>1
<1>3. Len(s) + 1 \notin old
  BY <1>1
<1>4. new = IF e = x THEN old \cup {Len(s) + 1} ELSE old
  BY <1>1, <1>2
<1>5. IsFiniteSet(old) /\ Count(s, x) = Cardinality(old) /\ Cardinality(old) \in Nat
  BY CountType, FS_CardinalityType DEF Count
<1>6. Cardinality(old \cup {Len(s) + 1}) = Cardinality(old) + 1
  BY <1>3, <1>5, FS_AddElement
<1>7. Count(Append(s, e), x) = Cardinality(new)
  BY DEF Count
<1> HIDE DEF old, new
<1> QED
  BY <1>4, <1>5, <1>6, <1>7

LEMMA CountTail ==
  ASSUME NEW S, NEW s \in Seq(S), s # <<>>, NEW x
  PROVE  Count(s, x) = Count(Tail(s), x) + (IF Head(s) = x THEN 1 ELSE 0)
<1> DEFINE all == {k \in DOMAIN s : s[k] = x}
           rest == {k \in DOMAIN Tail(s) : Tail(s)[k] = x}
           shift == [k \in rest |-> k + 1]
<1>1. /\ DOMAIN s = 1..Len(s) /\ Len(s) \in Nat \ {0} /\ Head(s) = s[1] /\ Tail(s) \in Seq(S)
      /\ DOMAIN Tail(s) = 1..(Len(s) - 1)
      /\ \A k \in 1..(Len(s) - 1) : Tail(s)[k] = s[k + 1]
  OBVIOUS
<1>2. IsFiniteSet(all) /\ Count(s, x) = Cardinality(all)
  BY CountType DEF Count
<1>3. IsFiniteSet(rest) /\ Count(Tail(s), x) = Cardinality(rest) /\ Cardinality(rest) \in Nat
  <2>1. \A u \in Seq(S) : Count(u, x) \in Nat /\ IsFiniteSet({k \in DOMAIN u : u[k] = x})
    BY CountType
  <2>2. Count(Tail(s), x) \in Nat /\ IsFiniteSet({k \in DOMAIN Tail(s) : Tail(s)[k] = x})
    BY <1>1, <2>1
  <2>3. Count(Tail(s), x) = Cardinality(rest)
    BY DEF Count
  <2> QED
    BY <2>2, <2>3
<1>4. \A k \in rest : k \in 1..(Len(s) - 1) /\ k + 1 \in 1..Len(s) /\ k + 1 # 1 /\ s[k + 1] = x
  BY <1>1
<1>5. \A k \in all \ {1} : k - 1 \in rest /\ (k - 1) + 1 = k
  BY <1>1
<1>6. shift \in Bijection(rest, all \ {1})
  <2>1. shift \in [rest -> all \ {1}]
    BY <1>1, <1>4
  <2>2. \A j, k \in rest : shift[j] = shift[k] => j = k
    BY <1>4
  <2>3. \A k \in all \ {1} : \E j \in rest : shift[j] = k
    BY <1>5
  <2> HIDE DEF shift, rest, all
  <2> QED
    BY <2>1, <2>2, <2>3 DEF Bijection, Injection, Surjection, IsInjective
<1>7. Cardinality(all \ {1}) = Cardinality(rest) /\ IsFiniteSet(all \ {1})
  BY <1>3, <1>6, FS_Bijection DEF ExistsBijection
<1>8. 1 \in all <=> Head(s) = x
  BY <1>1
<1>10. Cardinality((all \ {1}) \cup {1}) = Cardinality(all \ {1}) + 1
  BY <1>7, FS_AddElement
<1> HIDE DEF all, rest
<1>11. Cardinality(all) = Cardinality(rest) + (IF 1 \in all THEN 1 ELSE 0)
  <2>1. CASE 1 \in all
    <3>1. all = (all \ {1}) \cup {1}
      BY <2>1
    <3> QED
      BY <1>7, <1>10, <2>1, <3>1
  <2>2. CASE 1 \notin all
    <3>1. all = all \ {1}
      BY <2>2
    <3>2. Cardinality(all) = Cardinality(rest)
      BY <1>7, <3>1, Zenon
    <3> QED
      BY <1>3, <2>2, <3>2
  <2> QED
    BY <2>1, <2>2
<1> QED
  BY <1>2, <1>3, <1>8, <1>11

Repeat(b, r) == [k \in DOMAIN b |-> r]

LEMMA CountConcat ==
  ASSUME NEW S, NEW s \in Seq(S), NEW T, NEW b \in Seq(T), NEW r \in S, NEW x
  PROVE  /\ s \o Repeat(b, r) \in Seq(S)
         /\ Count(s \o Repeat(b, r), x) >= Count(s, x)
         /\ x = r => Count(s \o Repeat(b, r), x) >= Len(b)
<1> DEFINE more == Repeat(b, r)
           both == {k \in DOMAIN (s \o more) : (s \o more)[k] = x}
           old == {k \in DOMAIN s : s[k] = x}
<1>1. /\ more \in Seq(S) /\ Len(more) = Len(b) /\ Len(s) \in Nat /\ Len(b) \in Nat
      /\ DOMAIN s = 1..Len(s) /\ \A k \in 1..Len(b) : more[k] = r
  BY DEF Repeat
<1>2. /\ s \o more \in Seq(S) /\ Len(s \o more) = Len(s) + Len(b)
      /\ \A k \in 1..(Len(s) + Len(b)) : (s \o more)[k] = IF k <= Len(s) THEN s[k] ELSE more[k - Len(s)]
  <2> HIDE DEF more
  <2>1. /\ s \o more \in Seq(S) /\ Len(s \o more) = Len(s) + Len(more)
        /\ \A k \in 1..(Len(s) + Len(more)) : (s \o more)[k] = IF k <= Len(s) THEN s[k] ELSE more[k - Len(s)]
    BY <1>1, ConcatProperties
  <2> QED
    BY <1>1, <2>1
<1>3. DOMAIN (s \o more) = 1..(Len(s) + Len(b))
  <2> HIDE DEF more
  <2> QED
    BY <1>2
<1>4. IsFiniteSet(both) /\ Count(s \o more, x) = Cardinality(both) /\ Count(s, x) = Cardinality(old)
  <2>1. IsFiniteSet({k \in DOMAIN (s \o more) : (s \o more)[k] = x})
    BY <1>2, CountType
  <2> QED
    BY <2>1 DEF Count
<1> HIDE DEF more
<1>5. old \subseteq both
  BY <1>1, <1>2, <1>3
<1>6. x = r => (Len(s) + 1)..(Len(s) + Len(b)) \subseteq both
  <2> SUFFICES ASSUME x = r, NEW k \in (Len(s) + 1)..(Len(s) + Len(b)) PROVE k \in both
    OBVIOUS
  <2>1. k \in 1..(Len(s) + Len(b)) /\ ~(k <= Len(s)) /\ k - Len(s) \in 1..Len(b)
    BY <1>1
  <2> QED
    BY <1>1, <1>2, <1>3, <2>1
<1>7. Cardinality((Len(s) + 1)..(Len(s) + Len(b))) = Len(b)
  <2>1. Len(s) + 1 \in Int /\ Len(s) + Len(b) \in Int
    BY <1>1
  <2>2. Cardinality((Len(s) + 1)..(Len(s) + Len(b)))
          = IF Len(s) + 1 > Len(s) + Len(b) THEN 0 ELSE (Len(s) + Len(b)) - (Len(s) + 1) + 1
    BY <2>1, FS_Interval
  <2> QED
    BY <1>1, <2>2
<1> HIDE DEF both, old
<1>8. Cardinality(old) <= Cardinality(both)
  BY <1>4, <1>5, FS_Subset
<1>9. x = r => Cardinality((Len(s) + 1)..(Len(s) + Len(b))) <= Cardinality(both)
  BY <1>4, <1>6, FS_Subset
<1>10. Cardinality(both) \in Nat /\ Cardinality(old) \in Nat
  BY <1>2, <1>4, CountType
<1> QED
  BY <1>1, <1>2, <1>4, <1>7, <1>8, <1>9, <1>10 DEF more

\* What the threads that select and the function of a receiver follow from.
Staged ==
  Up => /\ open = Receivers
        /\ notify["own"] = IF main[1] \in {"dispatch", "receiver"} \/ main = <<"add", "own">>
                           THEN "none" ELSE "select"
        /\ notify["stub"] = IF main[1] \in {"dispatch", "receiver", "mute"}
                               \/ main \in {<<"add", "own">>, <<"size", "own">>}
                            THEN "stub"
                            ELSE IF main = <<"add", "stub">> THEN "none" ELSE "select"
        /\ handler = "own" \/ (bpc # "loop" /\ cur[1] = "own") => main[1] \notin {"dispatch", "receiver"}

LEMMA InitStaged == Init => Staged
  BY DEF Init, Staged, Receivers

LEMMA NextStaged ==
  ASSUME TypeOK, Staged, [Next]_vars
  PROVE  Staged'
<1> USE DEF selectVars, mainVars, brokerVars, workerVars, poolVars, replyVars
<1>0. main = <<main[1], main[2]>> /\ main[2] \in Receivers
      /\ main[1] \in {"dispatch", "receiver", "add", "size", "mute", "start", "listen", "running"}
  BY DEF TypeOK
<1>1. CASE UNCHANGED <<handler, notify, open, main, bpc, cur>>
  BY <1>1 DEF Staged, Up
<1>2. CASE UNCHANGED vars
  BY <1>1, <1>2 DEF vars
<1>3. CASE \E w \in Workers : Work(w)
  <2>1. UNCHANGED <<handler, notify, open, main, bpc, cur>>
    BY <1>3 DEF Work, CheckClosed, TakeToken, Leave, Fetch, Find, Lock, Permit, LoadModule, Add,
                Publish, Invoke, Pop, Method
  <2> QED
    BY <1>1, <2>1
<1>4. CASE InitServicePool \/ NewReceiver
  BY <1>0, <1>4 DEF InitServicePool, NewReceiver, Staged, Up
<1>5. CASE Mute
  BY <1>0, <1>5 DEF Mute, Staged, Up, TypeOK, Receivers
<1>6. CASE StartThreads \/ Listen
  BY <1>0, <1>6 DEF StartThreads, Listen, Staged, Up
<1>7. ASSUME NEW r \in Receivers, AddNotify(r) PROVE Staged'
  BY <1>0, <1>7 DEF AddNotify, Staged, Up, TypeOK, Receivers
<1>8. ASSUME NEW r \in Receivers, AddBuffered(r) PROVE Staged'
  BY <1>0, <1>8 DEF AddBuffered, Staged, Up, TypeOK, Receivers
<1>9. ASSUME NEW m \in Msgs, Deliver(m) PROVE Staged'
  BY <1>9 DEF Deliver, Staged, Up
<1>10. CASE BrokerPut \/ BrokerTest \/ BrokerNotify
  BY <1>10 DEF BrokerPut, BrokerTest, BrokerNotify, Staged, Up
<1>11. CASE Shutdown \/ Stop \/ CloseReceiver \/ CloseSelect \/ Join \/ BrokerExit
  BY <1>11 DEF Shutdown, Stop, CloseReceiver, CloseSelect, Join, BrokerExit, Staged, Up
<1> QED
  BY <1>2, <1>3, <1>4, <1>5, <1>6, <1>7, <1>8, <1>9, <1>10, <1>11 DEF Next, MainNext, BrokerNext

\* The tokens of a receiver, the threads that took one, and the broker about to add one.
Takers(r) == {w \in Workers : src[w] = r}
Putting(r) == bpc \in {"notify", "call"} /\ cur[1] = r
OnTheWay(r) == Count(tokens, r) + Cardinality(Takers(r)) + (IF Putting(r) THEN 1 ELSE 0)

LEMMA Measured ==
  ASSUME TypeOK
  PROVE  \A r \in Receivers : /\ IsFiniteSet(Takers(r))
                              /\ Cardinality(Takers(r)) \in Nat
                              /\ Count(tokens, r) \in Nat
                              /\ Len(box[r]) \in Nat
<1> SUFFICES ASSUME NEW r \in Receivers
             PROVE  /\ IsFiniteSet(Takers(r)) /\ Cardinality(Takers(r)) \in Nat
                    /\ Count(tokens, r) \in Nat /\ Len(box[r]) \in Nat
  OBVIOUS
<1>1. IsFiniteSet(Takers(r))
  BY PoolAssumption, FS_Subset DEF Takers
<1>2. box[r] \in Seq(Msgs) /\ tokens \in Seq(Receivers)
  BY DEF TypeOK
<1>3. Count(tokens, r) \in Nat
  BY <1>2, CountType
<1> QED
  BY <1>1, <1>2, <1>3, FS_CardinalityType

Heralded(r) == notify[r] = "select" /\ main # <<"size", r>> => Len(box[r]) <= OnTheWay(r)
Summons == main[1] = "dispatch" /\ box["stub"] # <<>> => summoned \/ bpc \in {"notify", "call"}
AllHeralded == Up => Summons /\ \A r \in Receivers : Heralded(r)

LEMMA StagedAnnounced ==
  ASSUME TypeOK, Staged, AllHeralded
  PROVE  Announced
<1> SUFFICES ASSUME Up, NEW r \in Receivers
             PROVE  CASE notify[r] = "select" /\ main # <<"size", r>> -> Len(box[r]) <= OnTheWay(r)
                      [] notify[r] = "stub" /\ main[1] = "dispatch" ->
                           box[r] # <<>> => summoned \/ bpc \in {"notify", "call"}
                      [] OTHER -> main[1] # "running"
  BY Zenon DEF Announced, Up, OnTheWay, Takers, Putting
<1>0. main = <<main[1], main[2]>>
  BY DEF TypeOK
<1>1. CASE notify[r] = "select" /\ main # <<"size", r>>
  <2>1. Len(box[r]) <= OnTheWay(r) /\ ~(notify[r] = "stub" /\ main[1] = "dispatch")
    BY <1>1 DEF AllHeralded, Heralded
  <2> QED
    BY <1>1, <2>1
<1>2. CASE notify[r] = "stub" /\ main[1] = "dispatch"
  <2>1. r = "stub"
    BY <1>2 DEF Staged, Receivers
  <2> QED
    BY <1>2, <2>1 DEF AllHeralded, Summons
<1>3. CASE ~(notify[r] = "select" /\ main # <<"size", r>>) /\ ~(notify[r] = "stub" /\ main[1] = "dispatch")
  <2>1. main[1] # "running"
    BY <1>0, <1>3 DEF Staged, Receivers
  <2> QED
    BY <1>3, <2>1
<1> QED
  BY <1>1, <1>2, <1>3

LEMMA InitHeralded == Init => AllHeralded
  BY DEF Init, AllHeralded, Summons, Heralded, Receivers

\* A step that leaves alone what is buffered and what is on the way to it.
LEMMA SameHeralded ==
  ASSUME AllHeralded, UNCHANGED <<notify, main, box, tokens, src, bpc, cur, summoned>>
  PROVE  AllHeralded'
<1>1. \A r : OnTheWay(r)' = OnTheWay(r)
  BY DEF OnTheWay, Takers, Putting, Count
<1> QED
  BY <1>1 DEF AllHeralded, Heralded, Summons, Up

LEMMA HeraldedByMain ==
  ASSUME TypeOK, Known, Staged, AllHeralded, MainNext
  PROVE  AllHeralded'
<1> USE DEF selectVars, mainVars, brokerVars, workerVars, poolVars, replyVars
<1>0. /\ main = <<main[1], main[2]>> /\ main[2] \in Receivers
      /\ main[1] \in {"dispatch", "receiver", "add", "size", "mute", "start", "listen", "running"}
  BY DEF TypeOK
<1>1. UNCHANGED <<box, src, bpc, cur>> /\ (Up' <=> Up)
  BY DEF MainNext, InitServicePool, NewReceiver, Mute, StartThreads, Listen, AddNotify, AddBuffered, Up
<1>2. tokens' = tokens => \A r : OnTheWay(r)' = OnTheWay(r)
  BY <1>1 DEF OnTheWay, Takers, Putting, Count
<1>3. CASE InitServicePool
  <2>1. /\ UNCHANGED <<notify, tokens>>
        /\ main' = IF main[1] = "dispatch" THEN <<"receiver", "own">> ELSE main
        /\ main[1] \in {"dispatch", "running"}
    BY <1>3 DEF InitServicePool
  <2> QED
    BY <1>0, <1>1, <1>2, <2>1 DEF AllHeralded, Heralded, Summons
<1>4. CASE NewReceiver \/ StartThreads \/ Listen
  <2>1. /\ UNCHANGED <<notify, tokens>> /\ main[1] \in {"receiver", "start", "listen"}
        /\ main' \in {<<"add", "own">>, <<"listen", "stub">>, <<"running", "stub">>}
    BY <1>4 DEF NewReceiver, StartThreads, Listen
  <2> QED
    BY <1>0, <1>1, <1>2, <2>1 DEF AllHeralded, Heralded, Summons
<1>5. CASE Mute
  <2>1. /\ tokens' = tokens /\ main[1] = "mute" /\ main' = <<"add", "stub">>
        /\ \A r \in Receivers : notify'[r] = IF r = "stub" THEN "none" ELSE notify[r]
    BY <1>5 DEF Mute, TypeOK
  <2> QED
    BY <1>0, <1>1, <1>2, <2>1 DEF AllHeralded, Heralded, Summons
<1>6. ASSUME NEW q \in Receivers, AddNotify(q) PROVE AllHeralded'
  <2>1. /\ tokens' = tokens /\ main = <<"add", q>> /\ main' = <<"size", q>>
        /\ \A r \in Receivers : notify'[r] = IF r = q THEN "select" ELSE notify[r]
    BY <1>6 DEF AddNotify, TypeOK
  <2> QED
    BY <1>0, <1>1, <1>2, <2>1 DEF AllHeralded, Heralded, Summons
<1>7. ASSUME NEW q \in Receivers, AddBuffered(q) PROVE AllHeralded'
  <2>1. /\ main = <<"size", q>> /\ main' = (IF q = "own" THEN <<"mute", "stub">> ELSE <<"start", "stub">>)
        /\ tokens' = tokens \o Repeat(box[q], q) /\ UNCHANGED <<notify, summoned>>
    BY <1>7 DEF AddBuffered, Buffered, Repeat
  <2>2. box[q] \in Seq(Msgs) /\ tokens \in Seq(Receivers)
    BY DEF TypeOK
  <2>3. \A r : /\ tokens' \in Seq(Receivers)
               /\ Count(tokens', r) >= Count(tokens, r)
               /\ r = q => Count(tokens', r) >= Len(box[q])
    BY <2>1, <2>2, CountConcat
  <2>5. \A r \in Receivers : Count(tokens', r) \in Nat
    BY <2>3, CountType
  <2>6. ASSUME Up, NEW r \in Receivers, notify[r] = "select"
        PROVE  Len(box[r]) <= OnTheWay(r)'
    <3>1. Cardinality(Takers(r)) \in Nat /\ Count(tokens, r) \in Nat /\ Len(box[r]) \in Nat /\ Count(tokens', r) \in Nat
      BY <2>5, Measured
    <3>2. OnTheWay(r)' = Count(tokens', r) + Cardinality(Takers(r)) + (IF Putting(r) THEN 1 ELSE 0)
      BY <1>1, Zenon DEF OnTheWay, Takers, Putting
    <3>3. r # q => Len(box[r]) <= Count(tokens, r) + Cardinality(Takers(r)) + (IF Putting(r) THEN 1 ELSE 0)
      BY <2>1, <2>6 DEF AllHeralded, Heralded, OnTheWay
    <3>4. Count(tokens', r) >= Count(tokens, r) /\ (r = q => Count(tokens', r) >= Len(box[r]))
      BY <2>3
    <3>5. CASE r = q
      BY <3>1, <3>2, <3>4, <3>5
    <3>6. CASE r # q
      BY <3>1, <3>2, <3>3, <3>4, <3>6
    <3> QED
      BY <3>5, <3>6
  <2> QED
    BY <1>1, <2>1, <2>6 DEF AllHeralded, Heralded, Summons
<1> QED
  BY <1>3, <1>4, <1>5, <1>6, <1>7 DEF MainNext

LEMMA HeraldedByBroker ==
  ASSUME TypeOK, Known, Staged, AllHeralded, BrokerNext \/ Shutdown \/ \E m \in Msgs : Deliver(m)
  PROVE  AllHeralded'
<1> USE DEF selectVars, mainVars, brokerVars, workerVars, poolVars, replyVars
<1> DEFINE takers(r) == Cardinality(Takers(r))
           extra(r) == IF Putting(r) THEN 1 ELSE 0
<1>0. /\ \A r \in Receivers : takers(r) \in Nat /\ Count(tokens, r) \in Nat /\ Len(box[r]) \in Nat
      /\ \A r : OnTheWay(r) = Count(tokens, r) + takers(r) + extra(r)
      /\ \A r : extra(r) \in Nat
      /\ cur[1] \in Receivers
  BY Measured DEF TypeOK, OnTheWay
<1>1. CASE \E m \in Msgs : Deliver(m)
  <2>1. /\ bpc = "loop" /\ bpc' = "put" /\ UNCHANGED <<notify, main, box, tokens, src, summoned>>
    BY <1>1 DEF Deliver
  <2>2. \A r : OnTheWay(r)' = Count(tokens, r) + takers(r) + 0
    BY <2>1 DEF OnTheWay, Takers, Putting, Count
  <2>3. \A r : extra(r) = 0
    BY <2>1 DEF Putting
  <2> HIDE DEF extra, takers
  <2> QED
    BY <1>0, <2>1, <2>2, <2>3 DEF AllHeralded, Heralded, Summons, Up
<1>2. CASE BrokerPut
  <2>1. /\ bpc = "put" /\ bpc' = "notify" /\ UNCHANGED <<notify, main, tokens, src, summoned, cur>>
        /\ box' = [box EXCEPT ![cur[1]] = Append(@, cur[2])] /\ cur[2] \in Msgs
    BY <1>2 DEF BrokerPut, Known
  <2>2. \A r \in Receivers : Len(box'[r]) = IF r = cur[1] THEN Len(box[r]) + 1 ELSE Len(box[r])
    BY <1>0, <2>1 DEF TypeOK
  <2>3. \A r : OnTheWay(r)' = Count(tokens, r) + takers(r) + (IF r = cur[1] THEN 1 ELSE 0)
    BY <2>1 DEF OnTheWay, Takers, Putting, Count
  <2>4. \A r : extra(r) = 0
    BY <2>1 DEF Putting
  <2> HIDE DEF extra, takers
  <2>5. \A r \in Receivers : Heralded(r) => Heralded(r)'
    BY <1>0, <2>1, <2>2, <2>3, <2>4 DEF Heralded
  <2> QED
    BY <2>1, <2>5 DEF AllHeralded, Summons, Up
<1>3. CASE BrokerTest
  <2>1. /\ bpc = "notify" /\ bpc' = (IF notify[cur[1]] = "none" THEN "loop" ELSE "call")
        /\ UNCHANGED <<notify, main, box, tokens, src, summoned, cur>>
    BY <1>3 DEF BrokerTest
  <2>2. \A r : OnTheWay(r)' = Count(tokens, r) + takers(r) + (IF bpc' = "call" /\ cur[1] = r THEN 1 ELSE 0)
    BY <2>1 DEF OnTheWay, Takers, Putting, Count
  <2>3. \A r : extra(r) = IF cur[1] = r THEN 1 ELSE 0
    BY <2>1 DEF Putting
  <2>4. Up /\ Up'
    BY <2>1 DEF Up
  <2> HIDE DEF extra, takers
  <2>5. \A r \in Receivers : Heralded(r) => Heralded(r)'
    BY <1>0, <2>1, <2>2, <2>3 DEF Heralded
  <2>6. Summons'
    <3>1. CASE notify[cur[1]] # "none"
      BY <2>1, <3>1 DEF Summons
    <3>2. CASE notify[cur[1]] = "none"
      BY <1>0, <2>1, <2>4, <3>2 DEF AllHeralded, Summons, Staged, Receivers
    <3> QED
      BY <3>1, <3>2
  <2> QED
    BY <2>4, <2>5, <2>6 DEF AllHeralded
<1>4. CASE BrokerNotify
  <2>1. /\ bpc = "call" /\ bpc' = "loop" /\ UNCHANGED <<notify, main, box, src, cur>>
        /\ tokens' = (IF notify[cur[1]] = "select" THEN Append(tokens, cur[1]) ELSE tokens)
        /\ summoned' = (summoned \/ notify[cur[1]] = "stub")
    BY <1>4 DEF BrokerNotify
  <2>2. \A r : OnTheWay(r)' = Count(tokens', r) + takers(r) + 0
    BY <2>1, Zenon DEF OnTheWay, Takers, Putting
  <2>3. \A r : extra(r) = IF cur[1] = r THEN 1 ELSE 0
    BY <2>1 DEF Putting
  <2>4. Up /\ Up'
    BY <2>1 DEF Up
  <2>5. notify[cur[1]] = "select" => \A r : Count(tokens', r) = Count(tokens, r) + (IF cur[1] = r THEN 1 ELSE 0)
    <3>1. tokens \in Seq(Receivers)
      BY DEF TypeOK
    <3> QED
      BY <1>0, <2>1, <3>1, CountAppend
  <2> HIDE DEF extra, takers
  <2>6. \A r \in Receivers : Heralded(r) => Heralded(r)'
    <3> SUFFICES ASSUME NEW r \in Receivers, Heralded(r), notify[r] = "select", main # <<"size", r>>
                 PROVE  Len(box[r]) <= OnTheWay(r)'
      BY <2>1 DEF Heralded
    <3>1. Len(box[r]) <= Count(tokens, r) + takers(r) + (IF cur[1] = r THEN 1 ELSE 0)
      BY <1>0, <2>3 DEF Heralded
    <3>2. CASE notify[cur[1]] = "select"
      BY <1>0, <2>2, <2>5, <3>1, <3>2
    <3>3. CASE notify[cur[1]] # "select"
      <4>1. cur[1] # r /\ tokens' = tokens
        BY <2>1, <3>3
      <4> QED
        BY <1>0, <2>2, <3>1, <4>1
    <3> QED
      BY <3>2, <3>3
  <2>7. Summons'
    <3> SUFFICES ASSUME main[1] = "dispatch" PROVE summoned'
      BY <2>1 DEF Summons
    <3>1. cur[1] = "stub"
      BY <1>0, <2>1, <2>4 DEF Staged, Receivers
    <3> QED
      BY <2>1, <2>4, <3>1 DEF Staged
  <2> QED
    BY <2>4, <2>6, <2>7 DEF AllHeralded
<1>5. CASE Shutdown \/ Stop \/ CloseReceiver \/ CloseSelect \/ Join \/ BrokerExit
  <2>1. ~Up'
    BY <1>5 DEF Shutdown, Stop, CloseReceiver, CloseSelect, Join, BrokerExit, Up
  <2> QED
    BY <2>1 DEF AllHeralded
<1> QED
  BY <1>1, <1>2, <1>3, <1>4, <1>5 DEF BrokerNext

LEMMA HeraldedByWorker ==
  ASSUME TypeOK, Known, Staged, AllHeralded, NEW w \in Workers, Work(w)
  PROVE  AllHeralded'
<1> USE DEF selectVars, mainVars, brokerVars, workerVars, poolVars, replyVars, Goto
<1> DEFINE extra(r) == IF Putting(r) THEN 1 ELSE 0
<1>0. /\ \A r \in Receivers : IsFiniteSet(Takers(r)) /\ Cardinality(Takers(r)) \in Nat
      /\ \A r \in Receivers : Count(tokens, r) \in Nat /\ Len(box[r]) \in Nat
      /\ \A r : OnTheWay(r) = Count(tokens, r) + Cardinality(Takers(r)) + extra(r)
      /\ \A r : extra(r) \in Nat
  BY Measured DEF OnTheWay
<1>1. CASE TakeToken(w)
  <2>1. /\ tokens # <<>> /\ src' = [src EXCEPT ![w] = Head(tokens)] /\ tokens' = Tail(tokens)
        /\ UNCHANGED <<notify, main, box, bpc, cur, summoned>> /\ src[w] = None
    BY <1>1 DEF TakeToken, Known
  <2>2. tokens \in Seq(Receivers) /\ Head(tokens) \in Receivers /\ tokens' \in Seq(Receivers)
    BY <2>1 DEF TypeOK
  <2>3. \A r : Count(tokens, r) = Count(tokens', r) + (IF Head(tokens) = r THEN 1 ELSE 0)
    BY <2>1, <2>2, CountTail
  <2>4. \A r \in Receivers : Count(tokens', r) \in Nat
    BY <2>2, CountType
  <2>5. \A r \in Receivers : Takers(r)' = IF Head(tokens) = r THEN Takers(r) \cup {w} ELSE Takers(r)
    BY <2>1, Outside DEF TypeOK, Takers
  <2>6. \A r \in Receivers : w \notin Takers(r)
    BY <2>1, Outside DEF Takers
  <2>7. \A r \in Receivers : Cardinality(Takers(r)') = Cardinality(Takers(r)) + (IF Head(tokens) = r THEN 1 ELSE 0)
    <3> SUFFICES ASSUME NEW r \in Receivers
                 PROVE  Cardinality(Takers(r)') = Cardinality(Takers(r)) + (IF Head(tokens) = r THEN 1 ELSE 0)
      OBVIOUS
    <3>1. Cardinality(Takers(r) \cup {w}) = Cardinality(Takers(r)) + 1
      BY <1>0, <2>6, FS_AddElement
    <3>2. CASE Head(tokens) = r
      <4>1. Takers(r)' = Takers(r) \cup {w}
        BY <2>5, <3>2
      <4>2. Cardinality(Takers(r)') = Cardinality(Takers(r)) + 1
        BY <3>1, <4>1, Zenon
      <4> QED
        BY <3>2, <4>2
    <3>3. CASE Head(tokens) # r
      <4>1. Takers(r)' = Takers(r)
        BY <2>5, <3>3
      <4>2. Cardinality(Takers(r)') = Cardinality(Takers(r))
        BY <4>1, Zenon
      <4> QED
        BY <1>0, <3>3, <4>2
    <3> QED
      BY <3>2, <3>3
  <2>8. \A r \in Receivers : OnTheWay(r)' = Count(tokens', r) + Cardinality(Takers(r)') + extra(r)
    BY <2>1, Zenon DEF OnTheWay, Putting
  <2> HIDE DEF extra
  <2>9. \A r \in Receivers : OnTheWay(r)' = OnTheWay(r)
    BY <1>0, <2>3, <2>4, <2>7, <2>8
  <2> QED
    BY <2>1, <2>9 DEF AllHeralded, Heralded, Summons, Up
<1>2. CASE Fetch(w)
  <2>0. SUFFICES ASSUME Up PROVE AllHeralded'
    <3>1. Up' <=> Up
      BY <1>2 DEF Fetch, Up
    <3> QED
      BY <2>0, <3>1 DEF AllHeralded
  <2>1. /\ src[w] \in Receivers /\ src' = [src EXCEPT ![w] = None]
        /\ UNCHANGED <<notify, main, tokens, bpc, cur, summoned>>
        /\ src[w] \in open
    BY <1>2, <2>0 DEF Fetch, Known, Staged
  <2>2. \/ box[src[w]] = <<>> /\ box' = box
        \/ box[src[w]] # <<>> /\ box' = [box EXCEPT ![src[w]] = Tail(@)]
    BY <1>2, <2>1 DEF Fetch
  <2>3. \A r \in Receivers : Takers(r)' = IF src[w] = r THEN Takers(r) \ {w} ELSE Takers(r)
    BY <2>1, Outside DEF TypeOK, Takers
  <2>4. w \in Takers(src[w])
    BY DEF Takers
  <2>5. \A r \in Receivers : /\ Cardinality(Takers(r)') = Cardinality(Takers(r)) - (IF src[w] = r THEN 1 ELSE 0)
                             /\ Cardinality(Takers(r)') \in Nat
    <3> SUFFICES ASSUME NEW r \in Receivers
                 PROVE  /\ Cardinality(Takers(r)') = Cardinality(Takers(r)) - (IF src[w] = r THEN 1 ELSE 0)
                        /\ Cardinality(Takers(r)') \in Nat
      OBVIOUS
    <3>1. CASE src[w] = r
      <4>1. Takers(r)' = Takers(r) \ {w} /\ w \in Takers(r) /\ IsFiniteSet(Takers(r))
        BY <1>0, <2>3, <2>4, <3>1
      <4>2. Cardinality(Takers(r) \ {w}) = Cardinality(Takers(r)) - 1 /\ IsFiniteSet(Takers(r) \ {w})
        BY <4>1, FS_RemoveElement
      <4>3. Cardinality(Takers(r) \ {w}) \in Nat
        BY <4>2, FS_CardinalityType
      <4> QED
        BY <3>1, <4>1, <4>2, <4>3
    <3>2. CASE src[w] # r
      <4>1. Takers(r)' = Takers(r)
        BY <2>3, <3>2
      <4> QED
        BY <1>0, <3>2, <4>1
    <3> QED
      BY <3>1, <3>2
  <2>6. \A r \in Receivers : OnTheWay(r)' = Count(tokens, r) + Cardinality(Takers(r)') + extra(r)
    <3>1. \A r : Count(tokens, r)' = Count(tokens, r)
      BY <2>1 DEF Count
    <3> QED
      BY <2>1, <3>1, Zenon DEF OnTheWay, Putting
  <2>7. /\ \A r \in Receivers : Len(box'[r]) <= Len(box[r]) /\ Len(box'[r]) \in Nat
        /\ Len(box'[src[w]]) = IF box[src[w]] = <<>> THEN 0 ELSE Len(box[src[w]]) - 1
    <3>1. \A r \in Receivers : box[r] \in Seq(Msgs)
      BY DEF TypeOK
    <3>2. CASE box[src[w]] = <<>> /\ box' = box
      BY <2>1, <3>1, <3>2
    <3>3. CASE box[src[w]] # <<>> /\ box' = [box EXCEPT ![src[w]] = Tail(@)]
      <4>1. Len(Tail(box[src[w]])) = Len(box[src[w]]) - 1 /\ Len(box[src[w]]) \in Nat \ {0}
        BY <2>1, <3>1, <3>3
      <4>2. \A r \in Receivers : box'[r] = IF r = src[w] THEN Tail(box[src[w]]) ELSE box[r]
        BY <2>1, <3>3 DEF TypeOK
      <4>3. \A r \in Receivers : Len(box'[r]) = IF r = src[w] THEN Len(box[r]) - 1 ELSE Len(box[r])
        BY <4>1, <4>2
      <4> QED
        BY <1>0, <2>1, <3>3, <4>1, <4>3
    <3> QED
      BY <2>2, <3>2, <3>3
  <2> HIDE DEF extra
  <2>8. \A r \in Receivers : Heralded(r)'
    <3> SUFFICES ASSUME NEW r \in Receivers, notify[r] = "select", main # <<"size", r>>
                 PROVE  Len(box'[r]) <= OnTheWay(r)'
      BY <2>1 DEF Heralded
    <3>1. Len(box[r]) <= OnTheWay(r)
      BY <2>0 DEF AllHeralded, Heralded
    <3>2. CASE r = src[w]
      <4>1. /\ Len(box'[r]) = (IF box[r] = <<>> THEN 0 ELSE Len(box[r]) - 1)
            /\ OnTheWay(r) = Count(tokens, r) + Cardinality(Takers(r)) + extra(r)
            /\ OnTheWay(r)' = Count(tokens, r) + Cardinality(Takers(r)') + extra(r)
            /\ Cardinality(Takers(r)') = Cardinality(Takers(r)) - 1
            /\ Cardinality(Takers(r)') \in Nat /\ Cardinality(Takers(r)) \in Nat
            /\ Count(tokens, r) \in Nat /\ extra(r) \in Nat /\ Len(box[r]) \in Nat
        BY <1>0, <2>5, <2>6, <2>7, <3>2
      <4> QED
        BY <3>1, <4>1
    <3>3. CASE r # src[w]
      <4>1. /\ Len(box'[r]) <= Len(box[r]) /\ Len(box'[r]) \in Nat
            /\ OnTheWay(r) = Count(tokens, r) + Cardinality(Takers(r)) + extra(r)
            /\ OnTheWay(r)' = Count(tokens, r) + Cardinality(Takers(r)') + extra(r)
            /\ Cardinality(Takers(r)') = Cardinality(Takers(r))
            /\ Cardinality(Takers(r)) \in Nat
            /\ Count(tokens, r) \in Nat /\ extra(r) \in Nat /\ Len(box[r]) \in Nat
        BY <1>0, <2>5, <2>6, <2>7, <3>3
      <4> QED
        BY <3>1, <4>1
    <3> QED
      BY <3>2, <3>3
  <2>9. Summons'
    <3>1. main[1] # "dispatch"
      BY <2>1, Outside, <1>2 DEF Known, Fetch
    <3> QED
      BY <2>1, <3>1 DEF Summons
  <2> QED
    BY <2>8, <2>9 DEF AllHeralded
<1>3. CASE ~TakeToken(w) /\ ~Fetch(w)
  <2>1. UNCHANGED <<notify, main, box, tokens, src, bpc, cur, summoned>>
    BY <1>3 DEF Work, CheckClosed, Leave, Find, Lock, Permit, LoadModule, Add, Publish, Invoke, Pop, Method
  <2> QED
    BY <2>1, SameHeralded
<1> QED
  BY <1>1, <1>2, <1>3

-----------------------------------------------------------------------------
(* The pool *)

PoolInv == TypeOK /\ Known /\ Locked /\ Manned /\ Placed /\ Staged /\ AllHeralded

LEMMA InitPool == Init => PoolInv
  BY InitTypes, InitLocked, InitManned, InitPlaced, InitStaged, InitHeralded DEF PoolInv

LEMMA NextPool ==
  ASSUME PoolInv, [Next]_vars
  PROVE  PoolInv'
<1> USE DEF PoolInv
<1>1. CASE UNCHANGED vars
  <2>1. TypeOK' /\ Known'
    BY <1>1 DEF vars, selectVars, mainVars, brokerVars, workerVars, poolVars, replyVars, TypeOK, Known
  <2>2. AllHeralded'
    BY <1>1, SameHeralded DEF vars, selectVars, mainVars, brokerVars, workerVars
  <2> QED
    BY <2>1, <2>2, NextLocked, NextManned, NextPlaced, NextStaged
<1>2. CASE MainNext
  BY <1>2, MainTypes, HeraldedByMain, NextLocked, NextManned, NextPlaced, NextStaged
<1>3. CASE BrokerNext \/ Shutdown \/ \E m \in Msgs : Deliver(m)
  BY <1>3, BrokerTypes, HeraldedByBroker, NextLocked, NextManned, NextPlaced, NextStaged
<1>4. ASSUME NEW w \in Workers, Work(w) PROVE PoolInv'
  BY <1>4, WorkerTypes, HeraldedByWorker, NextLocked, NextManned, NextPlaced, NextStaged
<1> QED
  BY <1>1, <1>2, <1>3, <1>4 DEF Next

\* In every interleaving of the threads with the take-over from the Dispatcher and with a
\* shutdown: each buffered request is announced, each service is built once, one thread runs
\* the queue of a SerializedInvoker, and no request is answered twice or forgotten when it
\* is dealt with.
THEOREM PoolCorrect == Spec => []PoolSafe
<1>1. PoolInv => PoolSafe
  <2> SUFFICES ASSUME PoolInv PROVE PoolSafe
    OBVIOUS
  <2>1. Announced
    BY StagedAnnounced DEF PoolInv
  <2>2. BuiltOnce
    BY DEF PoolInv, Locked, BuiltOnce
  <2>3. OneRunner /\ AnsweredOnce
    BY MannedOne, PlacedAnswered DEF PoolInv
  <2> QED
    BY <2>1, <2>2, <2>3 DEF PoolInv, PoolSafe
<1> QED
  BY <1>1, InitPool, NextPool, PTL DEF Spec

=============================================================================
