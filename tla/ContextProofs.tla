--------------------------- MODULE ContextProofs ----------------------------
(***************************************************************************)
(* Theorems about ContextService, for any clients, configuration keys and  *)
(* contexts, whatever disconnects, is reset or shut down, and wherever the *)
(* steps outside the lock are interrupted.                                 *)
(***************************************************************************)
EXTENDS ContextService, TLAPS, FiniteSetTheorems, FunctionTheorems, WellFoundedInduction

Attached == (Connecting \ {"method", "failed"}) \cup Recording   \* has made a connection
Unattached == {"idle", "method", "wait", "holding"}
Asking == Connecting \cup Recording \cup {"wait", "holding"}

ContextFields ==
  /\ response \in [Keys -> Contexts \cup {None}]
  /\ latches \in [Keys -> SUBSET Clients]
  /\ made \in [Contexts -> Keys \cup {None}]
  /\ life \in [Contexts -> {"new", "up", "leaving", "down"}]
  /\ ctxPc \in [Clients -> Asking \cup {"idle"}]
  /\ want \in [Clients -> Keys \cup {None}]
  /\ conn \in [Clients -> Contexts \cup {None}]
  /\ answer \in [Clients -> Contexts \cup {None, "error"}]

\* Wherever a context is remembered, it is for the key it was made with.
Recorded == \A k \in Keys : response[k] # None => made[response[k]] = k
Connected == \A t \in Clients : /\ conn[t] # None => made[conn[t]] = want[t]
                                /\ ctxPc[t] \in Attached => conn[t] # None
                                /\ ctxPc[t] \in Unattached => conn[t] = None
Told == \A t \in Clients : answer[t] \in Contexts => made[answer[t]] = want[t]
\* A key is wanted for as long as the request lasts; a context gets its key once.
Asked == \A t \in Clients : /\ ctxPc[t] \in Asking => want[t] \in Keys
                            /\ ctxPc[t] = "idle" => answer[t] = None
MadeOnce == \A c \in Contexts : life[c] = "new" => made[c] = None
\* Who is on the list of a key wants it and has no answer.
Listed == \A k \in Keys : \A t \in latches[k] :
            want[t] = k /\ ctxPc[t] \in Connecting \cup {"wait"} /\ answer[t] = None

ContextInv == ContextFields /\ Recorded /\ Connected /\ Told /\ Asked /\ MadeOnce /\ Listed /\ Pursued

LEMMA InitContext == ContextsInit => ContextInv
  BY ContextAssumption
  DEF ContextsInit, ContextInv, ContextFields, Recorded, Connected, Told, Asked, MadeOnce, Listed, Pursued,
      Asking, Attached, Connecting, Recording, Unattached

\* Forgetting contexts takes entries out of the tables and puts none in.
Shrinks ==
  /\ response' \in [Keys -> Contexts \cup {None}] /\ latches' \in [Keys -> SUBSET Clients]
  /\ \A k \in Keys : response'[k] \in {response[k], None} /\ latches'[k] \in {latches[k], {}}

LEMMA ForgetShrinks ==
  ASSUME ContextFields, NEW C, Forget(C)
  PROVE  Shrinks
  BY DEF ContextFields, Forget, Shrinks

LEMMA LeaveNoneNew ==
  ASSUME ContextFields, NEW C, life' = Leave(C)
  PROVE  /\ life' \in [Contexts -> {"new", "up", "leaving", "down"}]
         /\ \A c \in Contexts : life'[c] = "new" => life[c] = "new"
  BY DEF ContextFields, Leave

\* What happens to the network and the tables, apart from new entries, harms no client.
LEMMA Shrinking ==
  ASSUME ContextInv, Shrinks,
         life' \in [Contexts -> {"new", "up", "leaving", "down"}],
         \A c \in Contexts : life'[c] = "new" => life[c] = "new",
         UNCHANGED <<made, want, conn, answer>>,
         ctxPc' \in [Clients -> Asking \cup {"idle"}],
         \A t \in Clients : \/ ctxPc'[t] = ctxPc[t]
                            \/ ctxPc[t] \in Connecting \cap Attached /\ ctxPc'[t] \in (Connecting \cap Attached) \cup {"failed"}
  PROVE  ContextInv'
<1> USE DEF ContextInv
<1>1. ContextFields'
  BY DEF ContextFields, Shrinks
<1>2. Recorded'
  BY DEF Recorded, Shrinks, ContextFields
<1>3. Connected' /\ Told' /\ Asked' /\ MadeOnce'
  BY DEF Connected, Told, Asked, MadeOnce, Attached, Unattached, Asking, Connecting, Recording, ContextFields
<1>4. Listed'
  BY DEF Listed, Shrinks, Connecting, Recording, Attached, ContextFields
<1>5. Pursued'
  BY DEF Pursued, Shrinks, Connecting, Recording, Attached, ContextFields
<1> QED
  BY <1>1, <1>2, <1>3, <1>4, <1>5

-----------------------------------------------------------------------------
(* One lemma for each group of actions *)

LEMMA AsksInv ==
  ASSUME ContextInv, NEW t \in Clients, NEW k \in Keys, Hit(t, k) \/ Miss(t, k)
  PROVE  ContextInv'
<1> USE DEF ContextInv
<1>0. None \notin Keys /\ None \notin Contexts /\ "error" \notin Contexts
  BY ContextAssumption
<1>1. CASE Hit(t, k)
  <2>1. /\ ctxPc[t] = "idle" /\ response[k] \in Contexts /\ made[response[k]] = k /\ answer'[t] \in {response[k], "error"}
        /\ ctxPc' = [ctxPc EXCEPT ![t] = "wait"] /\ want' = [want EXCEPT ![t] = k]
        /\ UNCHANGED <<response, latches, made, life, conn>>
        /\ \E a \in Contexts \cup {"error"} : answer' = [answer EXCEPT ![t] = a]
    BY <1>1, <1>0 DEF Hit, Goto, ContextFields, Recorded, network
  <2>2. \A j \in Keys : t \notin latches[j]
    BY <2>1 DEF Listed, Connecting
  <2>3. ContextFields'
    BY <2>1 DEF ContextFields, Asking
  <2>4. Recorded' /\ MadeOnce'
    BY <2>1 DEF Recorded, MadeOnce
  <2>5. Connected'
    BY <2>1, <1>0 DEF Connected, ContextFields, Attached, Unattached, Connecting, Recording
  <2>6. Told' /\ Asked'
    BY <2>1, <1>0 DEF Told, Asked, ContextFields, Asking
  <2>7. Listed'
    BY <2>1, <2>2 DEF Listed, ContextFields
  <2>8. Pursued'
    BY <2>1 DEF Pursued, ContextFields, Connecting
  <2> QED
    BY <2>3, <2>4, <2>5, <2>6, <2>7, <2>8
<1>2. CASE Miss(t, k)
  <2>1. /\ ctxPc[t] = "idle" /\ latches' = [latches EXCEPT ![k] = @ \cup {t}]
        /\ ctxPc' = [ctxPc EXCEPT ![t] = IF latches[k] = {} THEN "method" ELSE "wait"]
        /\ want' = [want EXCEPT ![t] = k]
        /\ UNCHANGED <<response, made, life, conn, answer>>
    BY <1>2 DEF Miss, Goto, First, network
  <2>2. answer[t] = None /\ conn[t] = None /\ \A j \in Keys : t \notin latches[j]
    BY <2>1 DEF Listed, Connecting, Asked, Connected, Unattached
  <2>3. ContextFields'
    BY <2>1 DEF ContextFields, Asking, Connecting
  <2>4. Recorded' /\ MadeOnce'
    BY <2>1 DEF Recorded, MadeOnce
  <2>5. Connected'
    BY <2>1, <2>2, <1>0 DEF Connected, ContextFields, Attached, Unattached, Connecting, Recording
  <2>6. Told' /\ Asked'
    BY <2>1, <2>2, <1>0 DEF Told, Asked, ContextFields, Asking
  <2>7. Listed'
    BY <2>1, <2>2 DEF Listed, ContextFields, Connecting
  <2>8. Pursued'
    <3> SUFFICES ASSUME NEW j \in Keys, latches'[j] # {}
                 PROVE  \E u \in Clients : want'[u] = j /\ ctxPc'[u] \in Connecting
      BY DEF Pursued
    <3>1. CASE latches[j] = {}
      <4>1. j = k
        BY <3>1, <2>1 DEF ContextFields
      <4> QED
        BY <4>1, <3>1, <2>1 DEF ContextFields, Connecting
    <3>2. CASE latches[j] # {}
      <4>1. PICK u \in Clients : want[u] = j /\ ctxPc[u] \in Connecting
        BY <3>2 DEF Pursued
      <4>2. u # t
        BY <4>1, <2>1 DEF Connecting
      <4> QED
        BY <4>1, <4>2, <2>1 DEF ContextFields
    <3> QED
      BY <3>1, <3>2
  <2> QED
    BY <2>3, <2>4, <2>5, <2>6, <2>7, <2>8
<1> QED
  BY <1>1, <1>2

LEMMA MethodInv ==
  ASSUME ContextInv, NEW t \in Clients, Method(t)
  PROVE  ContextInv'
<1> USE DEF ContextInv
<1>0. None \notin Keys /\ None \notin Contexts /\ "error" \notin Contexts
  BY ContextAssumption
<1>1. CASE ctxPc' = [ctxPc EXCEPT ![t] = "failed"] /\ UNCHANGED <<life, made, conn>>
  <2>1. ctxPc[t] = "method" /\ UNCHANGED <<response, latches, want, answer, life, made, conn>>
    BY <1>1 DEF Method, tables
  <2>2. ContextFields' /\ Recorded' /\ Told' /\ MadeOnce'
    BY <1>1, <2>1 DEF ContextFields, Recorded, Told, MadeOnce, Asking, Connecting
  <2>3. Connected' /\ Asked' /\ Listed' /\ Pursued'
    BY <1>1, <2>1
    DEF Connected, Asked, Listed, Pursued, ContextFields, Asking, Attached, Unattached, Connecting, Recording
  <2> QED
    BY <2>2, <2>3
<1>2. CASE \E c \in Contexts : /\ life[c] = "new" /\ life' = [life EXCEPT ![c] = "up"]
                               /\ made' = [made EXCEPT ![c] = want[t]]
                               /\ conn' = [conn EXCEPT ![t] = c] /\ Goto(t, "lru")
  <2>1. PICK c \in Contexts : /\ life[c] = "new" /\ life' = [life EXCEPT ![c] = "up"]
                              /\ made' = [made EXCEPT ![c] = want[t]]
                              /\ conn' = [conn EXCEPT ![t] = c] /\ ctxPc' = [ctxPc EXCEPT ![t] = "lru"]
    BY <1>2 DEF Goto
  <2>2. ctxPc[t] = "method" /\ UNCHANGED <<response, latches, want, answer>> /\ want[t] \in Keys /\ made[c] = None
    BY <2>1 DEF Method, tables, Asked, Asking, Connecting, MadeOnce
  <2>3. ContextFields'
    BY <2>1, <2>2 DEF ContextFields, Asking, Connecting
  \* Nothing refers to c yet: what a reference was made for is a key.
  <2>4. \A d \in Contexts : made[d] \in Keys => made'[d] = made[d]
    BY <2>1, <2>2, <1>0 DEF ContextFields
  <2>5. Recorded'
    BY <2>2, <2>4, <1>0 DEF Recorded, ContextFields
  <2>6. \A u \in Clients : conn[u] # None => ctxPc[u] \in Asking
    BY DEF Connected, ContextFields, Unattached, Asking
  <2>7. Connected'
    <3> SUFFICES ASSUME NEW u \in Clients
                 PROVE  /\ conn'[u] # None => made'[conn'[u]] = want[u]
                        /\ ctxPc'[u] \in Attached => conn'[u] # None
                        /\ ctxPc'[u] \in Unattached => conn'[u] = None
      BY <2>2 DEF Connected
    <3>1. CASE u = t
      BY <3>1, <2>1, <2>2, <1>0 DEF ContextFields, Attached, Unattached, Connecting, Recording
    <3>2. CASE u # t
      <4>1. conn'[u] = conn[u] /\ ctxPc'[u] = ctxPc[u]
        BY <3>2, <2>1 DEF ContextFields
      <4> QED
        BY <4>1, <2>4, <2>6 DEF Connected, Asked, ContextFields
    <3> QED
      BY <3>1, <3>2
  <2>8. \A u \in Clients : answer[u] \in Contexts => ctxPc[u] \in Asking
    BY <1>0 DEF Asked, ContextFields
  <2>9. Told'
    BY <2>2, <2>4, <2>8 DEF Told, Asked
  <2>10. Asked' /\ MadeOnce'
    BY <2>1, <2>2 DEF Asked, MadeOnce, ContextFields, Asking, Connecting
  <2>11. Listed' /\ Pursued'
    BY <2>1, <2>2 DEF Listed, Pursued, ContextFields, Connecting
  <2> QED
    BY <2>3, <2>5, <2>7, <2>9, <2>10, <2>11
<1> QED
  BY <1>1, <1>2 DEF Method, Goto

\* An answer to everybody on the list of the key that t wants, which t is leaving.
LEMMA ProducedInv ==
  ASSUME ContextInv, NEW t \in Clients, NEW r \in Contexts \cup {"error"},
         ctxPc[t] \in Connecting, Produce(want[t], r), r \in Contexts => made[r] = want[t],
         ctxPc' \in [Clients -> Asking \cup {"idle"}], \A u \in Clients \ {t} : ctxPc'[u] = ctxPc[u],
         \/ ctxPc'[t] = "record" /\ conn' = conn /\ conn[t] # None
         \/ ctxPc'[t] = "wait" /\ conn' = [conn EXCEPT ![t] = None],
         UNCHANGED <<response, made, life, want>>
  PROVE  ContextInv'
<1> USE DEF ContextInv
<1>0. None \notin Keys /\ None \notin Contexts /\ "error" \notin Contexts /\ want[t] \in Keys
  BY ContextAssumption DEF Asked, Asking
<1>1. /\ answer' = [u \in Clients |-> IF u \in latches[want[t]] THEN r ELSE answer[u]]
      /\ latches' = [latches EXCEPT ![want[t]] = {}]
  BY DEF Produce, Waiters
<1>2. ContextFields'
  BY <1>0, <1>1 DEF ContextFields
<1>3. Recorded' /\ MadeOnce'
  BY DEF Recorded, MadeOnce
<1>4. Connected'
  BY <1>0 DEF Connected, ContextFields, Attached, Unattached, Connecting, Recording
<1>5. Told'
  BY <1>0, <1>1 DEF Told, Listed, ContextFields
<1>6. Asked'
  BY <1>0, <1>1 DEF Asked, Listed, ContextFields, Asking, Connecting
<1>7. Listed'
  BY <1>0, <1>1 DEF Listed, ContextFields
<1>8. Pursued'
  <2> SUFFICES ASSUME NEW k \in Keys, latches'[k] # {}
               PROVE  \E u \in Clients : want[u] = k /\ ctxPc'[u] \in Connecting
    BY DEF Pursued
  <2>1. k # want[t] /\ latches[k] # {}
    BY <1>0, <1>1 DEF ContextFields
  <2>2. PICK u \in Clients : want[u] = k /\ ctxPc[u] \in Connecting
    BY <2>1 DEF Pursued
  <2> QED
    BY <2>1, <2>2
<1> QED
  BY <1>2, <1>3, <1>4, <1>5, <1>6, <1>7, <1>8

\* Steps of one thread that has left the list, or was the only one on it.
LEMMA OwnInv ==
  ASSUME ContextInv, NEW t \in Clients,
         Record(t) \/ ReadRefs(t) \/ AddRefs(t) \/ Return(t) \/ Put(t)
  PROVE  ContextInv'
<1> USE DEF ContextInv
<1>0. None \notin Keys /\ None \notin Contexts /\ "error" \notin Contexts
  BY ContextAssumption
<1>1. CASE Record(t)
  <2>1. /\ ctxPc[t] = "record" /\ ctxPc' = [ctxPc EXCEPT ![t] = "read"]
        /\ response' = [response EXCEPT ![want[t]] = conn[t]]
        /\ UNCHANGED <<latches, made, life, want, conn, answer>>
    BY <1>1 DEF Record, Goto, network, locals
  <2>2. conn[t] \in Contexts /\ made[conn[t]] = want[t] /\ want[t] \in Keys
    BY <2>1 DEF Connected, Asked, Attached, Asking, Recording, ContextFields
  <2>3. ContextFields' /\ Recorded'
    BY <2>1, <2>2 DEF ContextFields, Recorded, Asking, Recording
  <2>4. Connected' /\ Told' /\ Asked' /\ MadeOnce'
    BY <2>1, <2>2, <1>0 DEF Connected, Told, Asked, MadeOnce, ContextFields, Attached, Unattached, Asking, Recording, Connecting
  <2>5. Listed' /\ Pursued'
    BY <2>1 DEF Listed, Pursued, ContextFields, Connecting
  <2> QED
    BY <2>3, <2>4, <2>5
<1>2. CASE ReadRefs(t)
  <2>1. /\ ctxPc[t] = "read" /\ \E to \in {"add", "failed"} : ctxPc' = [ctxPc EXCEPT ![t] = to]
        /\ UNCHANGED <<response, latches, made, life, want, conn, answer>>
    BY <1>2 DEF ReadRefs, Goto, network, tables
  <2>2. ContextFields' /\ Recorded' /\ Told' /\ MadeOnce'
    BY <2>1 DEF ContextFields, Recorded, Told, MadeOnce, Asking, Recording, Connecting
  <2>3. Connected' /\ Asked'
    BY <2>1, <1>0 DEF Connected, Asked, ContextFields, Attached, Unattached, Asking, Recording, Connecting
  <2>4. Listed' /\ Pursued'
    BY <2>1 DEF Listed, Pursued, ContextFields, Connecting
  <2> QED
    BY <2>2, <2>3, <2>4
<1>3. CASE AddRefs(t)
  <2>1. /\ ctxPc[t] = "add" /\ ctxPc' = [ctxPc EXCEPT ![t] = "wait"] /\ conn' = [conn EXCEPT ![t] = None]
        /\ UNCHANGED <<response, latches, made, life, want, answer>>
    BY <1>3 DEF AddRefs, Goto, DropConn, network
  <2>2. ContextFields' /\ Recorded' /\ Told' /\ MadeOnce'
    BY <2>1 DEF ContextFields, Recorded, Told, MadeOnce, Asking
  <2>3. Connected' /\ Asked'
    BY <2>1, <1>0 DEF Connected, Asked, ContextFields, Attached, Unattached, Asking, Recording, Connecting
  <2>4. Listed' /\ Pursued'
    BY <2>1 DEF Listed, Pursued, ContextFields, Connecting
  <2> QED
    BY <2>2, <2>3, <2>4
<1>4. ASSUME ctxPc[t] = "holding" \/ (ctxPc[t] = "wait" /\ answer[t] # None),
             \/ ctxPc' = [ctxPc EXCEPT ![t] = "holding"] /\ UNCHANGED <<want, answer>>
             \/ ctxPc' = [ctxPc EXCEPT ![t] = "idle"] /\ want' = [want EXCEPT ![t] = None]
                /\ answer' = [answer EXCEPT ![t] = None],
             UNCHANGED <<response, latches, made, life, conn>>
      PROVE  ContextInv'
  <2>1. \A k \in Keys : t \notin latches[k]
    BY <1>4 DEF Listed, Connecting
  <2>2. ContextFields' /\ Recorded' /\ MadeOnce'
    BY <1>4 DEF ContextFields, Recorded, MadeOnce, Asking
  <2>3. conn[t] = None
    BY <1>4 DEF Connected, Unattached
  <2>4. Connected' /\ Told' /\ Asked'
    BY <1>4, <2>3, <1>0 DEF Connected, Told, Asked, ContextFields, Attached, Unattached, Asking, Recording, Connecting
  <2>5. Listed'
    BY <1>4, <2>1 DEF Listed, ContextFields
  <2>6. Pursued'
    BY <1>4 DEF Pursued, ContextFields, Connecting
  <2> QED
    BY <2>2, <2>4, <2>5, <2>6
<1>5. CASE Return(t)
  BY <1>5, <1>4 DEF Return, Goto, Done, tables, network
<1>6. CASE Put(t)
  <2>1. ctxPc[t] = "holding" /\ ctxPc' = [ctxPc EXCEPT ![t] = "idle"] /\ want' = [want EXCEPT ![t] = None]
        /\ answer' = [answer EXCEPT ![t] = None] /\ UNCHANGED <<response, latches, made, life, conn>>
    BY <1>6 DEF Put, Goto, Done, network
  <2> QED
    BY <2>1, <1>4
<1> QED
  BY <1>1, <1>2, <1>3, <1>5, <1>6

LEMMA FailedInv ==
  ASSUME ContextInv, NEW t \in Clients, Failed(t)
  PROVE  ContextInv'
<1> USE DEF ContextInv
<1>0. None \notin Keys /\ None \notin Contexts /\ "error" \notin Contexts
  BY ContextAssumption
<1>1. /\ ctxPc[t] = "failed" /\ ctxPc' = [ctxPc EXCEPT ![t] = "wait"] /\ conn' = [conn EXCEPT ![t] = None]
      /\ UNCHANGED <<response, made, life, want>>
  BY DEF Failed, Goto, DropConn, network
<1>2. ctxPc' \in [Clients -> Asking \cup {"idle"}] /\ \A u \in Clients \ {t} : ctxPc'[u] = ctxPc[u]
  BY <1>1 DEF ContextFields, Asking
<1>3. CASE Produce(want[t], "error")
  <2>1. ctxPc[t] \in Connecting /\ ctxPc'[t] = "wait"
    BY <1>1 DEF Connecting, ContextFields
  <2> QED
    BY <1>0, <1>1, <1>2, <1>3, <2>1, ProducedInv
<1>4. CASE latches[want[t]] = {} /\ answer' = [answer EXCEPT ![t] = "error"] /\ UNCHANGED latches
  <2>1. want[t] \in Keys /\ \A k \in Keys : t \notin latches[k]
    BY <1>1, <1>4 DEF Listed, Asked, Asking, Connecting
  <2>2. ContextFields' /\ Recorded' /\ MadeOnce'
    BY <1>1, <1>4 DEF ContextFields, Recorded, MadeOnce, Asking
  <2>3. Connected' /\ Told' /\ Asked'
    BY <1>0, <1>1, <1>4
    DEF Connected, Told, Asked, ContextFields, Attached, Unattached, Asking, Recording, Connecting
  <2>4. Listed'
    BY <1>1, <1>4, <2>1 DEF Listed, ContextFields
  <2>5. Pursued'
    BY <1>1, <1>4 DEF Pursued, ContextFields, Connecting
  <2> QED
    BY <2>2, <2>3, <2>4, <2>5
<1> QED
  BY <1>3, <1>4 DEF Failed, FailedAnswer

LEMMA ProduceResponseInv ==
  ASSUME ContextInv, NEW t \in Clients, ProduceResponse(t)
  PROVE  ContextInv'
<1> USE DEF ContextInv
<1>1. ctxPc[t] = "produce" /\ UNCHANGED <<response, made, life, want, conn>>
  BY DEF ProduceResponse, network
<1>2. conn[t] \in Contexts /\ conn[t] # None /\ made[conn[t]] = want[t] /\ ctxPc[t] \in Connecting
  BY <1>1 DEF Connected, Attached, Connecting, ContextFields
<1>3. CASE Produce(want[t], conn[t]) /\ ctxPc' = [ctxPc EXCEPT ![t] = "record"]
  <2>1. /\ ctxPc' \in [Clients -> Asking \cup {"idle"}] /\ \A u \in Clients \ {t} : ctxPc'[u] = ctxPc[u]
        /\ ctxPc'[t] = "record"
    BY <1>3 DEF ContextFields, Asking, Recording
  <2> QED
    BY <1>1, <1>2, <1>3, <2>1, ProducedInv
<1>4. CASE ctxPc' = [ctxPc EXCEPT ![t] = "failed"] /\ UNCHANGED <<answer, latches>>
  <2>1. Shrinks
    BY <1>1, <1>4 DEF Shrinks, ContextFields
  <2>2. ctxPc' \in [Clients -> Asking \cup {"idle"}]
    BY <1>4 DEF ContextFields, Asking, Connecting
  <2>3. \A u \in Clients : \/ ctxPc'[u] = ctxPc[u]
                           \/ ctxPc[u] \in Connecting \cap Attached /\ ctxPc'[u] \in (Connecting \cap Attached) \cup {"failed"}
    BY <1>1, <1>4 DEF ContextFields, Connecting, Attached
  <2>4. life' \in [Contexts -> {"new", "up", "leaving", "down"}]
    BY <1>1 DEF ContextFields
  <2> QED
    BY <1>1, <1>4, <2>1, <2>2, <2>3, <2>4, Shrinking
<1> QED
  BY <1>3, <1>4 DEF ProduceResponse, Goto

\* The other steps of a thread that has its connection, up to _produce_response().
LEMMA AttachedInv ==
  ASSUME ContextInv, NEW t \in Clients,
         UpdateLru(t) \/ Listen(t) \/ InitChild(t) \/ SetKey(t) \/ ZeroRefs(t)
  PROVE  ContextInv'
<1> USE DEF ContextInv
<1>1. /\ ctxPc[t] \in {"lru", "listen", "init", "key", "zero"}
      /\ \E to \in {"listen", "init", "key", "zero", "produce", "failed"} : ctxPc' = [ctxPc EXCEPT ![t] = to]
      /\ UNCHANGED <<made, want, conn, answer>>
  BY DEF UpdateLru, Listen, InitChild, SetKey, ZeroRefs, Goto, locals, network, tables
<1>2. /\ life' \in [Contexts -> {"new", "up", "leaving", "down"}]
      /\ \A c \in Contexts : life'[c] = "new" => life[c] = "new"
  <2>1. CASE UNCHANGED life
    BY <2>1 DEF ContextFields
  <2>2. CASE UpdateLru(t) /\ Shutdown({Newest})
    BY <2>2, LeaveNoneNew DEF Shutdown
  <2> QED
    BY <2>1, <2>2 DEF UpdateLru, Listen, InitChild, SetKey, ZeroRefs, network
<1>3. Shrinks
  <2>1. CASE UNCHANGED <<response, latches>>
    BY <2>1 DEF Shrinks, ContextFields
  <2>2. CASE UpdateLru(t) /\ Shutdown({Newest})
    BY <2>2, ForgetShrinks DEF Shutdown
  <2> QED
    BY <2>1, <2>2 DEF UpdateLru, Listen, InitChild, SetKey, ZeroRefs, tables
<1>4. ctxPc' \in [Clients -> Asking \cup {"idle"}]
  BY <1>1 DEF ContextFields, Asking, Connecting
<1>5. \A u \in Clients : \/ ctxPc'[u] = ctxPc[u]
                         \/ ctxPc[u] \in Connecting \cap Attached /\ ctxPc'[u] \in (Connecting \cap Attached) \cup {"failed"}
  BY <1>1 DEF ContextFields, Connecting, Attached
<1> QED
  BY <1>1, <1>2, <1>3, <1>4, <1>5, Shrinking

\* Contexts that are shut down, or disconnect, at any moment.
LEMMA NetworkInv ==
  ASSUME ContextInv,
         \/ \E k \in Keys : Reset(k)
         \/ ShutdownAll
         \/ \E c \in Contexts : ContextDisconnect(c) \/ OnContextDisconnect(c)
  PROVE  ContextInv'
<1> USE DEF ContextInv
<1>1. UNCHANGED <<made, ctxPc, want, conn, answer>>
  BY DEF Reset, ShutdownAll, ContextDisconnect, OnContextDisconnect, locals
<1>2. Shrinks
  <2>1. CASE UNCHANGED <<response, latches>>
    BY <2>1 DEF Shrinks, ContextFields
  <2>2. CASE \E C \in {Known({c}) : c \in Contexts \cup {response[k] : k \in Keys}} \cup {Known(Known(Contexts))} : Forget(C)
    BY <2>2, ForgetShrinks
  <2> QED
    BY <2>1, <2>2 DEF Reset, ShutdownAll, ContextDisconnect, OnContextDisconnect, Shutdown, tables
<1>3. /\ life' \in [Contexts -> {"new", "up", "leaving", "down"}]
      /\ \A c \in Contexts : life'[c] = "new" => life[c] = "new"
  <2>1. CASE UNCHANGED life
    BY <2>1 DEF ContextFields
  <2>2. CASE \E C \in {{c} : c \in Contexts \cup {response[k] : k \in Keys}} \cup {Known(Contexts)} : life' = Leave(C)
    BY <2>2, LeaveNoneNew
  <2>3. CASE \E c \in Contexts : life' = [life EXCEPT ![c] = "down"]
    BY <2>3 DEF ContextFields
  <2> QED
    BY <2>1, <2>2, <2>3 DEF Reset, ShutdownAll, ContextDisconnect, OnContextDisconnect, Shutdown
<1>4. ctxPc' \in [Clients -> Asking \cup {"idle"}]
  BY <1>1 DEF ContextFields
<1> QED
  BY <1>1, <1>2, <1>3, <1>4, Shrinking

LEMMA NextContext == ContextInv /\ [ContextsNext]_ctxVars => ContextInv'
<1> SUFFICES ASSUME ContextInv, [ContextsNext]_ctxVars PROVE ContextInv'
  OBVIOUS
<1>1. ASSUME NEW t \in Clients, Serve(t) PROVE ContextInv'
  BY <1>1, MethodInv, AttachedInv, ProduceResponseInv, OwnInv, FailedInv DEF Serve
<1>2. ASSUME NEW t \in Clients, Put(t) PROVE ContextInv'
  BY <1>2, OwnInv
<1>3. ASSUME NEW t \in Clients, NEW k \in Keys, Hit(t, k) \/ Miss(t, k) PROVE ContextInv'
  BY <1>3, AsksInv
<1>4. CASE \/ \E k \in Keys : Reset(k)
           \/ ShutdownAll
           \/ \E c \in Contexts : ContextDisconnect(c) \/ OnContextDisconnect(c)
  BY <1>4, NetworkInv
<1>5. CASE UNCHANGED ctxVars
  BY <1>5 DEF ctxVars, tables, network, locals, ContextInv, ContextFields, Recorded, Connected, Told, Asked,
              MadeOnce, Listed, Pursued
<1> QED
  BY <1>1, <1>2, <1>3, <1>4, <1>5 DEF ContextsNext

-----------------------------------------------------------------------------
(* The tables that no answer depends on, and the list of interpreters *)

ContextTypes ==
  /\ refs \in [Contexts -> Nat \cup {None}]
  /\ keyOf \in [Contexts -> Keys \cup {None}]
  /\ viaOf \subseteq Contexts
  /\ listening \subseteq Contexts
  /\ dropped \subseteq Contexts
  /\ count \in [Clients -> Nat]
  /\ \A k \in Keys : IsFiniteSet(latches[k])

\* A context on the list is there once; one that is about to be put there is a new one, that
\* no other thread has.
LruInv ==
  /\ lru \in Seq(Contexts) /\ Len(lru) <= MaxInterpreters
  /\ \A i, j \in DOMAIN lru : lru[i] = lru[j] => i = j
  /\ \A i \in DOMAIN lru : life[lru[i]] # "new"
  /\ \A t \in Clients : conn[t] # None => life[conn[t]] # "new"
  /\ \A t, u \in Clients : conn[t] # None /\ conn[t] = conn[u] => t = u
  /\ \A t \in Clients : ctxPc[t] = "lru" => \A i \in DOMAIN lru : lru[i] # conn[t]

LEMMA InitLru == ContextsInit => ContextTypes /\ LruInv
  BY ContextAssumption, FS_EmptySet DEF ContextsInit, ContextTypes, LruInv

\* The places of a finite set of numbers are those from 1 to its size, each taken once.
LEMMA PlaceRises ==
  ASSUME NEW K \in SUBSET Nat, IsFiniteSet(K), NEW i \in K
  PROVE  /\ Place(K, i) \in 1..Cardinality(K)
         /\ \A j \in K : j < i => Place(K, j) < Place(K, i)
<1> DEFINE Upto(j) == {m \in K : m <= j}
<1>0. Cardinality(K) \in Nat
  BY FS_CardinalityType
<1>1. ASSUME NEW j \in K
      PROVE  IsFiniteSet(Upto(j)) /\ Cardinality(Upto(j)) \in 1..Cardinality(K)
  <2>1. Upto(j) \in SUBSET K
    OBVIOUS
  <2>2. IsFiniteSet(Upto(j)) /\ Cardinality(Upto(j)) <= Cardinality(K)
    BY <2>1, FS_Subset
  <2>3. Cardinality(Upto(j)) \in Nat /\ (Cardinality(Upto(j)) = 0 <=> Upto(j) = {})
    BY <2>2, FS_CardinalityType, FS_EmptySet
  <2>4. j \in Upto(j)
    OBVIOUS
  <2> HIDE DEF Upto
  <2> QED
    BY <1>0, <2>2, <2>3, <2>4
<1>2. ASSUME NEW j \in K, j < i
      PROVE  Cardinality(Upto(j)) < Cardinality(Upto(i))
  <2>0. i \in Nat /\ j \in Nat
    OBVIOUS
  <2>1. Upto(j) \in SUBSET Upto(i) /\ i \in Upto(i) /\ i \notin Upto(j)
    <3>1. \A m \in K : m \in Nat /\ (m <= j => m <= i)
      BY <1>2, <2>0
    <3>2. i <= i /\ ~(i <= j)
      BY <1>2, <2>0
    <3>3. Upto(j) \subseteq Upto(i)
      BY <3>1
    <3> QED
      BY <3>2, <3>3
  <2>2. /\ Cardinality(Upto(j)) <= Cardinality(Upto(i))
        /\ Cardinality(Upto(i)) = Cardinality(Upto(j)) => Upto(i) = Upto(j)
    BY <2>1, <1>1, FS_Subset
  <2>3. Cardinality(Upto(j)) \in Nat /\ Cardinality(Upto(i)) \in Nat
    BY <1>1, FS_CardinalityType
  <2> HIDE DEF Upto
  <2> QED
    BY <2>1, <2>2, <2>3
<1> QED
  BY <1>1, <1>2 DEF Place

LEMMA NthPlace ==
  ASSUME NEW K \in SUBSET Nat, IsFiniteSet(K), NEW n \in 1..Cardinality(K)
  PROVE  Nth(K, n) \in K /\ Place(K, Nth(K, n)) = n
<1> DEFINE f == [i \in K |-> Place(K, i)]
<1>0. Cardinality(K) \in Nat
  BY FS_CardinalityType
<1>1. f \in [K -> 1..Cardinality(K)]
  BY PlaceRises
<1>2. \A i, j \in K : f[i] = f[j] => i = j
  <2> SUFFICES ASSUME NEW i \in K, NEW j \in K, i # j
               PROVE  f[i] # f[j]
    OBVIOUS
  <2>1. Place(K, i) \in Nat /\ Place(K, j) \in Nat
    BY <1>0, PlaceRises
  <2>2. CASE i < j
    BY <2>1, <2>2, PlaceRises
  <2>3. CASE j < i
    BY <2>1, <2>3, PlaceRises
  <2> QED
    BY <2>2, <2>3
<1>3. f \in Injection(K, 1..Cardinality(K))
  BY <1>1, <1>2 DEF Injection, IsInjective
<1>4. IsFiniteSet(1..Cardinality(K)) /\ Cardinality(1..Cardinality(K)) = Cardinality(K)
  BY <1>0, FS_Interval
<1>5. f \in Surjection(K, 1..Cardinality(K))
  BY <1>3, <1>4, FS_Injection
<1>6. \E i \in K : Place(K, i) = n
  BY <1>5 DEF Surjection
<1> QED
  BY <1>6 DEF Nth

\* What remains of the list is shorter, in part of its contexts, and has none twice.
LEMMA EvictedShorter ==
  ASSUME lru \in Seq(Contexts), NEW C
  PROVE  /\ Evicted(C) \in Seq(Contexts)
         /\ Len(Evicted(C)) <= Len(lru)
         /\ (\E i \in DOMAIN lru : lru[i] \in C) => Len(Evicted(C)) < Len(lru)
         /\ \A n \in DOMAIN Evicted(C) : \E i \in DOMAIN lru : Evicted(C)[n] = lru[i]
         /\ (\A i, j \in DOMAIN lru : lru[i] = lru[j] => i = j) =>
              \A n, m \in DOMAIN Evicted(C) : Evicted(C)[n] = Evicted(C)[m] => n = m
<1>1. DOMAIN lru = 1..Len(lru) /\ Len(lru) \in Nat /\ IsFiniteSet(DOMAIN lru) /\ Cardinality(DOMAIN lru) = Len(lru)
  <2>1. DOMAIN lru = 1..Len(lru) /\ Len(lru) \in Nat
    OBVIOUS
  <2>2. IsFiniteSet(1..Len(lru)) /\ Cardinality(1..Len(lru)) = Len(lru)
    BY <2>1, FS_Interval
  <2> QED
    BY <2>1, <2>2
<1>2. Kept(C) \in SUBSET (DOMAIN lru) /\ Kept(C) \in SUBSET Nat
  BY <1>1 DEF Kept
<1>3. /\ IsFiniteSet(Kept(C)) /\ Cardinality(Kept(C)) <= Len(lru)
      /\ Len(lru) = Cardinality(Kept(C)) => Kept(C) = DOMAIN lru
  BY <1>1, <1>2, FS_Subset
<1>4. Cardinality(Kept(C)) \in Nat
  BY <1>3, FS_CardinalityType
<1>5. \A n \in 1..Cardinality(Kept(C)) : Nth(Kept(C), n) \in Kept(C) /\ Place(Kept(C), Nth(Kept(C), n)) = n
  BY <1>2, <1>3, NthPlace
<1>6. \A n \in 1..Cardinality(Kept(C)) : Nth(Kept(C), n) \in DOMAIN lru
  BY <1>2, <1>5
<1>7. Evicted(C) = [n \in 1..Cardinality(Kept(C)) |-> lru[Nth(Kept(C), n)]]
  BY DEF Evicted
<1>8. Evicted(C) \in Seq(Contexts) /\ Len(Evicted(C)) = Cardinality(Kept(C)) /\ DOMAIN Evicted(C) = 1..Cardinality(Kept(C))
  BY <1>1, <1>4, <1>6, <1>7
<1>9. ASSUME \E i \in DOMAIN lru : lru[i] \in C
      PROVE  Len(Evicted(C)) < Len(lru)
  <2>1. Kept(C) # DOMAIN lru
    BY <1>9 DEF Kept
  <2> QED
    BY <1>1, <1>3, <1>4, <1>8, <2>1
<1>10. ASSUME \A i, j \in DOMAIN lru : lru[i] = lru[j] => i = j,
              NEW n \in DOMAIN Evicted(C), NEW m \in DOMAIN Evicted(C), Evicted(C)[n] = Evicted(C)[m]
       PROVE  n = m
  <2>1. n \in 1..Cardinality(Kept(C)) /\ m \in 1..Cardinality(Kept(C))
    BY <1>8
  <2>2. lru[Nth(Kept(C), n)] = lru[Nth(Kept(C), m)]
    BY <1>7, <1>10, <2>1
  <2>3. Nth(Kept(C), n) = Nth(Kept(C), m)
    BY <1>6, <1>10, <2>1, <2>2
  <2> QED
    BY <1>5, <2>1, <2>3
<1> QED
  BY <1>3, <1>6, <1>7, <1>8, <1>9, <1>10

LEMMA GreatestIn ==
  ASSUME NEW n \in Nat, NEW S \in SUBSET (1..n), S # {}
  PROVE  Max(S) \in S
<1> DEFINE T == {n - i : i \in S}
<1>1. T \in SUBSET Nat /\ T # {}
  OBVIOUS
<1>2. PICK x \in T : \A y \in T : ~(<<y, x>> \in OpToRel(<, Nat))
  BY <1>1, NatLessThanWellFounded, WFMin
<1>3. PICK i \in S : x = n - i
  OBVIOUS
<1>4. \A j \in S : i >= j
  <2> SUFFICES ASSUME NEW j \in S, i < j PROVE FALSE
    OBVIOUS
  <2>1. n - j \in T /\ n - j \in Nat /\ n - i \in Nat /\ n - j < n - i
    OBVIOUS
  <2> QED
    BY <1>2, <1>3, <2>1 DEF OpToRel
<1> QED
  BY <1>4 DEF Max

LEMMA ForgetTypes ==
  ASSUME ContextTypes, ContextFields, NEW C, Forget(C)
  PROVE  /\ refs' \in [Contexts -> Nat \cup {None}]
         /\ keyOf' \in [Contexts -> Keys \cup {None}]
         /\ \A k \in Keys : IsFiniteSet(latches'[k])
<1>1. refs' \in [Contexts -> Nat \cup {None}] /\ keyOf' \in [Contexts -> Keys \cup {None}]
  BY DEF ContextTypes, Forget
<1>2. \A k \in Keys : latches'[k] \in {latches[k], {}}
  BY DEF Forget
<1> QED
  BY <1>1, <1>2, FS_EmptySet DEF ContextTypes

\* Steps of threads on the tables.
LEMMA ServeTypes ==
  ASSUME ContextInv, ContextTypes, LruInv, NEW t \in Clients, Serve(t)
  PROVE  ContextTypes'
<1>0. ctxPc[t] \in Attached => conn[t] \in Contexts /\ want[t] \in Keys
  BY DEF ContextInv, Connected, ContextFields, Asked, Asking, Attached
<1>1. CASE Method(t)
  BY <1>1 DEF Method, tables, ContextTypes
<1>2. CASE UpdateLru(t)
  <2>1. conn[t] \in Contexts /\ UNCHANGED <<listening, dropped, count>>
    BY <1>0, <1>2 DEF UpdateLru, Attached, Connecting, locals
  <2>2. viaOf' \subseteq Contexts
    BY <1>2, <2>1 DEF UpdateLru, ContextTypes
  <2>3. CASE UNCHANGED <<refs, keyOf, latches>>
    BY <2>1, <2>2, <2>3 DEF ContextTypes
  <2>4. CASE Shutdown({Newest})
    BY <2>1, <2>2, <2>4, ForgetTypes DEF ContextTypes, Shutdown, ContextInv
  <2> QED
    BY <1>2, <2>3, <2>4 DEF UpdateLru
<1>3. CASE Listen(t)
  BY <1>0, <1>3 DEF Listen, ContextTypes, tables, locals, Attached, Connecting
<1>4. CASE InitChild(t)
  BY <1>4 DEF InitChild, ContextTypes, tables, network, locals
<1>5. CASE SetKey(t)
  BY <1>0, <1>5 DEF SetKey, ContextTypes, network, locals, Attached, Connecting
<1>6. CASE ZeroRefs(t)
  BY <1>0, <1>6 DEF ZeroRefs, ContextTypes, network, locals, Attached, Connecting
<1>7. CASE ProduceResponse(t)
  <2>1. want[t] \in Keys
    BY <1>0, <1>7 DEF ProduceResponse, Attached, Connecting
  <2>2. Cardinality(latches[want[t]]) \in Nat
    BY <2>1, FS_CardinalityType DEF ContextTypes
  <2>3. count' \in [Clients -> Nat]
    BY <1>7, <2>2 DEF ProduceResponse, ContextTypes
  <2>4. \A k \in Keys : latches'[k] \in {latches[k], {}}
    BY <1>7 DEF ProduceResponse, Produce, ContextInv, ContextFields
  <2> QED
    BY <1>7, <2>3, <2>4, FS_EmptySet DEF ProduceResponse, ContextTypes, network
<1>8. CASE Record(t)
  BY <1>8 DEF Record, ContextTypes, network, locals
<1>9. CASE ReadRefs(t)
  <2>1. conn[t] \in Contexts
    BY <1>0, <1>9 DEF ReadRefs, Attached, Recording
  <2>2. CASE refs[conn[t]] # None /\ count' = [count EXCEPT ![t] = @ + refs[conn[t]]]
    <3>1. count[t] + refs[conn[t]] \in Nat
      BY <2>1, <2>2 DEF ContextTypes
    <3> QED
      BY <1>9, <2>2, <3>1 DEF ReadRefs, ContextTypes, tables, network
  <2>3. CASE UNCHANGED count
    BY <1>9, <2>3 DEF ReadRefs, ContextTypes, tables, network
  <2> QED
    BY <1>9, <2>2, <2>3 DEF ReadRefs
<1>10. CASE AddRefs(t)
  BY <1>10 DEF AddRefs, DropConn, ContextTypes, network
<1>11. CASE Failed(t)
  <2>1. \A k \in Keys : latches'[k] \in {latches[k], {}}
    BY <1>11 DEF Failed, FailedAnswer, Produce, ContextInv, ContextFields
  <2> QED
    BY <1>11, <2>1, FS_EmptySet DEF Failed, DropConn, ContextTypes, network
<1>12. CASE Return(t)
  BY <1>12 DEF Return, ContextTypes, tables, network
<1> QED
  BY <1>1, <1>2, <1>3, <1>4, <1>5, <1>6, <1>7, <1>8, <1>9, <1>10, <1>11, <1>12 DEF Serve

LEMMA NextTypes ==
  ASSUME ContextInv, ContextTypes, LruInv, [ContextsNext]_ctxVars
  PROVE  ContextTypes'
<1>1. ASSUME NEW t \in Clients, Put(t) PROVE ContextTypes'
  <2>1. refs' \in [Contexts -> Nat \cup {None}]
    <3>1. CASE refs' = refs
      BY <3>1 DEF ContextTypes
    <3>2. CASE Counted(answer[t]) /\ answer[t] \in Contexts /\ refs' = [refs EXCEPT ![answer[t]] = @ - 1]
      <4>1. refs[answer[t]] - 1 \in Nat
        BY <3>2 DEF Counted, ContextTypes
      <4> QED
        BY <3>2, <4>1 DEF ContextTypes
    <3>3. CASE answer[t] \notin Contexts /\ refs' = [refs EXCEPT ![answer[t]] = @ - 1]
      BY <3>3 DEF ContextTypes
    <3> QED
      BY <1>1, <3>1, <3>2, <3>3 DEF Put
  <2> QED
    BY <1>1, <2>1 DEF Put, ContextTypes, network
<1>2. ASSUME NEW t \in Clients, NEW k \in Keys, Hit(t, k) PROVE ContextTypes'
  BY <1>2 DEF Hit, ContextTypes, network
<1>3. ASSUME NEW t \in Clients, NEW k \in Keys, Miss(t, k) PROVE ContextTypes'
  <2>1. IsFiniteSet(latches[k] \cup {t})
    BY FS_AddElement DEF ContextTypes
  <2>2. \A j \in Keys : latches'[j] \in {latches[j], latches[k] \cup {t}}
    BY <1>3 DEF Miss, ContextInv, ContextFields
  <2> QED
    BY <1>3, <2>1, <2>2 DEF Miss, ContextTypes, network
<1>4. ASSUME NEW C, Forget(C), viaOf' \subseteq viaOf, dropped' \subseteq dropped, UNCHANGED <<listening, count>>
      PROVE  ContextTypes'
  BY <1>4, ForgetTypes DEF ContextTypes, ContextInv
<1>5. ASSUME NEW k \in Keys, Reset(k) PROVE ContextTypes'
  BY <1>4, <1>5 DEF Reset, Shutdown, locals
<1>6. CASE ShutdownAll
  BY <1>4, <1>6 DEF ShutdownAll, Shutdown, locals
<1>7. ASSUME NEW c \in Contexts, ContextDisconnect(c) PROVE ContextTypes'
  BY <1>7 DEF ContextDisconnect, ContextTypes, tables, locals
<1>8. ASSUME NEW c \in Contexts, OnContextDisconnect(c) PROVE ContextTypes'
  BY <1>4, <1>8 DEF OnContextDisconnect, locals
<1>9. CASE UNCHANGED ctxVars
  BY <1>9 DEF ctxVars, tables, network, locals, ContextTypes
<1> QED
  BY <1>1, <1>2, <1>3, <1>5, <1>6, <1>7, <1>8, <1>9, ServeTypes DEF ContextsNext

\* A list with fewer contexts, while no context becomes new and no thread gets a connection.
LEMMA ShorterLru ==
  ASSUME LruInv, lru' \in Seq(Contexts), Len(lru') <= MaxInterpreters,
         \A n, m \in DOMAIN lru' : lru'[n] = lru'[m] => n = m,
         \A n \in DOMAIN lru' : \E i \in DOMAIN lru : lru'[n] = lru[i],
         \A c \in Contexts : life'[c] = "new" => life[c] = "new",
         \A t \in Clients : /\ conn[t] \in Contexts \cup {None} /\ conn'[t] \in {conn[t], None}
                            /\ ctxPc'[t] = "lru" => ctxPc[t] = "lru" /\ conn'[t] = conn[t]
  PROVE  LruInv'
<1>1. \A i \in DOMAIN lru : lru[i] \in Contexts
  BY DEF LruInv
<1>2. \A n \in DOMAIN lru' : life'[lru'[n]] # "new"
  BY <1>1 DEF LruInv
<1>3. \A t \in Clients : conn'[t] # None => life'[conn'[t]] # "new"
  BY DEF LruInv
<1>4. \A t, u \in Clients : conn'[t] # None /\ conn'[t] = conn'[u] => t = u
  BY DEF LruInv
<1>5. \A t \in Clients : ctxPc'[t] = "lru" => \A i \in DOMAIN lru' : lru'[i] # conn'[t]
  BY DEF LruInv
<1> QED
  BY <1>2, <1>3, <1>4, <1>5 DEF LruInv

LEMMA EvictedLru ==
  ASSUME LruInv, NEW C, lru' \in {lru, Evicted(C)},
         \A c \in Contexts : life'[c] = "new" => life[c] = "new",
         \A t \in Clients : /\ conn[t] \in Contexts \cup {None} /\ conn'[t] \in {conn[t], None}
                            /\ ctxPc'[t] = "lru" => ctxPc[t] = "lru" /\ conn'[t] = conn[t]
  PROVE  LruInv'
<1>0. lru \in Seq(Contexts) /\ Len(lru) \in Nat /\ MaxInterpreters \in Nat /\ Len(lru) <= MaxInterpreters
      /\ \A i, j \in DOMAIN lru : lru[i] = lru[j] => i = j
  BY ContextAssumption DEF LruInv
<1>1. CASE lru' = lru
  BY <1>0, <1>1, ShorterLru
<1>2. CASE lru' = Evicted(C)
  <2>1. /\ lru' \in Seq(Contexts) /\ Len(lru') <= Len(lru)
        /\ \A n \in DOMAIN lru' : \E i \in DOMAIN lru : lru'[n] = lru[i]
        /\ \A n, m \in DOMAIN lru' : lru'[n] = lru'[m] => n = m
    BY <1>0, <1>2, EvictedShorter
  <2>2. Len(lru') <= MaxInterpreters
    BY <1>0, <2>1
  <2> QED
    BY <2>1, <2>2, ShorterLru
<1> QED
  BY <1>1, <1>2

\* A context that a thread alone has goes to the end of the list, or of what remains of it.
LEMMA AppendedLru ==
  ASSUME ContextInv, LruInv, NEW t \in Clients, ctxPc[t] = "lru", NEW s \in Seq(Contexts), Len(s) < MaxInterpreters,
         lru' = Append(s, conn[t]), ctxPc' = [ctxPc EXCEPT ![t] = "listen"], UNCHANGED conn,
         \A n, m \in DOMAIN s : s[n] = s[m] => n = m,
         \A n \in DOMAIN s : \E i \in DOMAIN lru : s[n] = lru[i],
         \A c \in Contexts : life'[c] = "new" => life[c] = "new"
  PROVE  LruInv'
<1>0. MaxInterpreters \in Nat /\ conn[t] \in Contexts /\ conn[t] # None /\ Len(s) \in Nat
  BY ContextAssumption DEF ContextInv, ContextFields, Connected, Attached, Connecting
<1>1. /\ lru' \in Seq(Contexts) /\ Len(lru') = Len(s) + 1 /\ DOMAIN lru' = 1..(Len(s) + 1)
      /\ lru'[Len(s) + 1] = conn[t] /\ \A n \in DOMAIN s : lru'[n] = s[n]
  BY <1>0
<1>2. Len(lru') <= MaxInterpreters
  BY <1>0, <1>1
<1>3. \A n \in DOMAIN lru' : n = Len(s) + 1 \/ n \in DOMAIN s
  BY <1>0, <1>1
<1>4. \A n \in DOMAIN s : s[n] # conn[t] /\ s[n] \in Contexts /\ life[s[n]] # "new"
  BY DEF LruInv
<1>5. \A n, m \in DOMAIN lru' : lru'[n] = lru'[m] => n = m
  BY <1>1, <1>3, <1>4
<1>6. life[conn[t]] # "new" /\ life'[conn[t]] # "new"
  BY <1>0 DEF LruInv
<1>7. \A n \in DOMAIN lru' : life'[lru'[n]] # "new"
  BY <1>1, <1>3, <1>4, <1>6
<1>8. \A u \in Clients : conn[u] # None => life'[conn[u]] # "new"
  BY DEF LruInv, ContextInv, ContextFields
<1>9. ASSUME NEW u \in Clients, ctxPc'[u] = "lru", NEW n \in DOMAIN lru'
      PROVE  lru'[n] # conn[u]
  <2>1. u # t /\ ctxPc[u] = "lru" /\ conn[u] # None
    BY <1>9 DEF ContextInv, ContextFields, Connected, Attached, Connecting
  <2>2. conn[u] # conn[t]
    BY <2>1 DEF LruInv
  <2>3. \A m \in DOMAIN s : s[m] # conn[u]
    BY <2>1 DEF LruInv
  <2> QED
    BY <1>1, <1>3, <2>2, <2>3
<1>10. \A u, v \in Clients : conn'[u] # None /\ conn'[u] = conn'[v] => u = v
  BY DEF LruInv
<1> QED
  BY <1>1, <1>2, <1>5, <1>7, <1>8, <1>9, <1>10 DEF LruInv

LEMMA UpdateLruInv ==
  ASSUME ContextInv, LruInv, NEW t \in Clients, UpdateLru(t)
  PROVE  LruInv'
<1>0. /\ ctxPc[t] = "lru" /\ UNCHANGED conn /\ \E to \in {"listen", "failed"} : ctxPc' = [ctxPc EXCEPT ![t] = to]
      /\ MaxInterpreters \in Nat /\ lru \in Seq(Contexts) /\ Len(lru) \in Nat /\ Len(lru) <= MaxInterpreters
      /\ \A i, j \in DOMAIN lru : lru[i] = lru[j] => i = j
  BY ContextAssumption DEF UpdateLru, Goto, locals, LruInv
<1>1. \A u \in Clients : /\ conn[u] \in Contexts \cup {None} /\ conn'[u] \in {conn[u], None}
                         /\ ctxPc'[u] = "lru" => ctxPc[u] = "lru" /\ conn'[u] = conn[u]
  BY <1>0 DEF ContextInv, ContextFields
<1>2. CASE Len(lru) < MaxInterpreters /\ lru' = Append(lru, conn[t]) /\ Goto(t, "listen") /\ UNCHANGED life
  BY <1>0, <1>2, AppendedLru DEF Goto
<1>3. CASE UNCHANGED <<lru, life>>
  <2>1. lru' \in {lru, Evicted({})} /\ \A c \in Contexts : life'[c] = "new" => life[c] = "new"
    BY <1>3
  <2> QED
    BY <1>1, <2>1, EvictedLru
<1>4. CASE /\ Len(lru) >= MaxInterpreters /\ Scanned # {} /\ Shutdown({Newest}) /\ Goto(t, "listen")
           /\ lru' = IF Newest \in viaOf THEN Append(Evicted({Newest}), conn[t]) ELSE lru
  <2>1. \A c \in Contexts : life'[c] = "new" => life[c] = "new"
    BY <1>4, LeaveNoneNew DEF Shutdown, ContextInv
  <2>2. CASE lru' = lru
    <3>1. lru' \in {lru, Evicted({})}
      BY <2>2
    <3> QED
      BY <1>1, <2>1, <3>1, EvictedLru
  <2>3. CASE lru' = Append(Evicted({Newest}), conn[t])
    <3>1. Scanned \in SUBSET (1..Len(lru))
      BY <1>0 DEF Scanned
    <3>2. Max(Scanned) \in Scanned
      BY <1>0, <1>4, <3>1, GreatestIn
    <3>3. \E i \in DOMAIN lru : lru[i] \in {Newest}
      BY <3>2 DEF Newest, Scanned
    <3>4. /\ Evicted({Newest}) \in Seq(Contexts) /\ Len(Evicted({Newest})) < Len(lru)
          /\ \A n \in DOMAIN Evicted({Newest}) : \E i \in DOMAIN lru : Evicted({Newest})[n] = lru[i]
          /\ \A n, m \in DOMAIN Evicted({Newest}) : Evicted({Newest})[n] = Evicted({Newest})[m] => n = m
      BY <1>0, <3>3, EvictedShorter
    <3>5. Len(Evicted({Newest})) < MaxInterpreters
      BY <1>0, <3>4
    <3> HIDE DEF Newest
    <3> QED
      BY <1>0, <1>4, <2>1, <2>3, <3>4, <3>5, AppendedLru DEF Goto
  <2> QED
    BY <1>4, <2>2, <2>3
<1> QED
  BY <1>2, <1>3, <1>4 DEF UpdateLru

LEMMA MethodLru ==
  ASSUME ContextInv, LruInv, NEW t \in Clients, Method(t)
  PROVE  LruInv'
<1>0. ctxPc[t] = "method" /\ conn[t] = None /\ UNCHANGED lru /\ None \notin Contexts
  BY ContextAssumption DEF Method, tables, ContextInv, Connected, Unattached
<1>1. CASE ctxPc' = [ctxPc EXCEPT ![t] = "failed"] /\ UNCHANGED <<life, conn>>
  BY <1>0, <1>1 DEF LruInv, ContextInv, ContextFields
<1>2. CASE \E c \in Contexts : /\ life[c] = "new" /\ life' = [life EXCEPT ![c] = "up"]
                               /\ conn' = [conn EXCEPT ![t] = c] /\ ctxPc' = [ctxPc EXCEPT ![t] = "lru"]
  <2>1. PICK c \in Contexts : /\ life[c] = "new" /\ life' = [life EXCEPT ![c] = "up"]
                              /\ conn' = [conn EXCEPT ![t] = c] /\ ctxPc' = [ctxPc EXCEPT ![t] = "lru"]
    BY <1>2
  <2>2. \A u \in Clients : conn[u] # c
    BY <1>0, <2>1 DEF LruInv
  <2>3. \A i \in DOMAIN lru : lru[i] # c /\ lru[i] \in Contexts
    BY <2>1 DEF LruInv
  <2>4. /\ conn'[t] = c /\ life'[c] = "up"
        /\ \A u \in Clients \ {t} : conn'[u] = conn[u] /\ ctxPc'[u] = ctxPc[u]
        /\ \A d \in Contexts \ {c} : life'[d] = life[d]
    BY <2>1 DEF ContextInv, ContextFields
  <2>5. \A u \in Clients : conn'[u] # None => life'[conn'[u]] # "new"
    BY <2>2, <2>4 DEF LruInv, ContextInv, ContextFields
  <2>6. \A u, v \in Clients : conn'[u] # None /\ conn'[u] = conn'[v] => u = v
    BY <2>2, <2>4 DEF LruInv
  <2>7. \A u \in Clients : ctxPc'[u] = "lru" => \A i \in DOMAIN lru : lru[i] # conn'[u]
    BY <2>3, <2>4 DEF LruInv
  <2>8. \A i \in DOMAIN lru : life'[lru[i]] # "new"
    BY <2>3, <2>4 DEF LruInv
  <2> QED
    BY <1>0, <2>5, <2>6, <2>7, <2>8 DEF LruInv
<1> QED
  BY <1>1, <1>2 DEF Method, Goto

LEMMA NextLru ==
  ASSUME ContextInv, LruInv, [ContextsNext]_ctxVars
  PROVE  LruInv'
<1>0. \A u \in Clients : conn[u] \in Contexts \cup {None}
  BY DEF ContextInv, ContextFields
<1>1. ASSUME UNCHANGED <<lru, life>>,
             \A u \in Clients : conn'[u] \in {conn[u], None} /\ (ctxPc'[u] = "lru" => ctxPc[u] = "lru" /\ conn'[u] = conn[u])
      PROVE  LruInv'
  <2>1. lru' \in {lru, Evicted({})}
    BY <1>1
  <2> QED
    BY <1>0, <1>1, <2>1, EvictedLru
<1>2. ASSUME NEW t \in Clients, NEW to \in Asking \cup {"idle"}, to # "lru", ctxPc' = [ctxPc EXCEPT ![t] = to],
             UNCHANGED <<lru, life>>, conn' \in {conn, [conn EXCEPT ![t] = None]}
      PROVE  LruInv'
  <2>1. \A u \in Clients : conn'[u] \in {conn[u], None} /\ (ctxPc'[u] = "lru" => ctxPc[u] = "lru" /\ conn'[u] = conn[u])
    BY <1>2 DEF ContextInv, ContextFields
  <2> QED
    BY <1>1, <1>2, <2>1
<1>3. ASSUME NEW t \in Clients, Serve(t) PROVE LruInv'
  <2>1. CASE Listen(t) \/ InitChild(t) \/ SetKey(t) \/ ZeroRefs(t) \/ ProduceResponse(t) \/ Record(t)
    <3>1. UNCHANGED <<lru, life, conn>>
      BY <2>1 DEF Listen, InitChild, SetKey, ZeroRefs, ProduceResponse, Record, tables, network, locals
    <3>2. \E to \in {"init", "key", "failed", "zero", "produce", "record", "read"} : ctxPc' = [ctxPc EXCEPT ![t] = to]
      BY <2>1 DEF Listen, InitChild, SetKey, ZeroRefs, ProduceResponse, Record, Goto
    <3> QED
      BY <1>2, <3>1, <3>2 DEF Asking, Connecting, Recording
  <2>2. CASE ReadRefs(t) \/ AddRefs(t) \/ Failed(t) \/ Return(t)
    <3>1. UNCHANGED <<lru, life>> /\ conn' \in {conn, [conn EXCEPT ![t] = None]}
      BY <2>2 DEF ReadRefs, AddRefs, Failed, Return, DropConn, tables, network
    <3>2. \E to \in {"add", "failed", "wait", "holding", "idle"} : ctxPc' = [ctxPc EXCEPT ![t] = to]
      BY <2>2 DEF ReadRefs, AddRefs, Failed, Return, Done, Goto
    <3> QED
      BY <1>2, <3>1, <3>2 DEF Asking, Connecting, Recording
  <2> QED
    BY <1>3, <2>1, <2>2, MethodLru, UpdateLruInv DEF Serve
<1>4. ASSUME NEW t \in Clients, Put(t) PROVE LruInv'
  BY <1>2, <1>4 DEF Put, Done, Goto, network
<1>5. ASSUME NEW t \in Clients, NEW k \in Keys, Hit(t, k) \/ Miss(t, k) PROVE LruInv'
  <2>1. UNCHANGED <<lru, life, conn>> /\ \E to \in {"wait", "method"} : ctxPc' = [ctxPc EXCEPT ![t] = to]
    BY <1>5 DEF Hit, Miss, Goto, network
  <2> QED
    BY <1>2, <2>1 DEF Asking, Connecting
<1>6. ASSUME NEW C, NEW D, lru' \in {lru, Evicted(C)}, life' = Leave(D), UNCHANGED <<conn, ctxPc>>
      PROVE  LruInv'
  <2>1. \A c \in Contexts : life'[c] = "new" => life[c] = "new"
    BY <1>6, LeaveNoneNew DEF ContextInv
  <2> QED
    BY <1>0, <1>6, <2>1, EvictedLru
<1>7. ASSUME NEW k \in Keys, Reset(k) PROVE LruInv'
  BY <1>6, <1>7 DEF Reset, Shutdown, locals
<1>8. CASE ShutdownAll
  BY <1>6, <1>8 DEF ShutdownAll, Shutdown, locals
<1>9. ASSUME NEW c \in Contexts, ContextDisconnect(c) PROVE LruInv'
  <2>1. /\ lru' \in {lru, Evicted({})} /\ UNCHANGED <<conn, ctxPc>>
        /\ \A d \in Contexts : life'[d] = "new" => life[d] = "new"
    BY <1>9 DEF ContextDisconnect, tables, locals, ContextInv, ContextFields
  <2> QED
    BY <1>0, <2>1, EvictedLru
<1>10. ASSUME NEW c \in Contexts, OnContextDisconnect(c) PROVE LruInv'
  BY <1>1, <1>10 DEF OnContextDisconnect, locals
<1>11. CASE UNCHANGED ctxVars
  BY <1>1, <1>11 DEF ctxVars, tables, network, locals
<1> QED
  BY <1>3, <1>4, <1>5, <1>7, <1>8, <1>9, <1>10, <1>11 DEF ContextsNext

-----------------------------------------------------------------------------
\* Everything ContextService promises whatever disconnects: a client is given a context of the
\* configuration it asked for; no client waits for a connection that nobody makes; and no
\* more interpreters than the maximum are on the list of a via, none of them twice.
THEOREM ContextsSafe == ContextsSpec => []ContextSafe
<1>1. ContextInv /\ ContextTypes /\ LruInv => ContextSafe
  BY DEF ContextInv, ContextFields, Told, AnswersMatch, ContextTypes, LruInv, ContextSafe, ContextsTypeOK, LruBounded,
         IsInjective, Asking
<1>2. ContextsInit => ContextInv /\ ContextTypes /\ LruInv
  BY InitContext, InitLru
<1>3. ContextInv /\ ContextTypes /\ LruInv /\ [ContextsNext]_ctxVars => (ContextInv /\ ContextTypes /\ LruInv)'
  BY NextContext, NextTypes, NextLru
<1> QED
  BY <1>1, <1>2, <1>3, PTL DEF ContextsSpec
=============================================================================
