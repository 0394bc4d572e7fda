------------------------------ MODULE Handlers ------------------------------
(* The reply handlers of one process: mitogen.core.Router.add_handler(),       *)
(* del_handler(), _invoke(), the disconnection of a respondent and the exit of *)
(* the broker, with the Receiver and Context.send_async() built on them.       *)
(*                                                                             *)
(* Threads call a remote context and wait; the broker thread delivers.  The    *)
(* handler table is shared by all of them and has no lock, so each access to a *)
(* dict or a set is a step of its own.  A thread makes one call: its handle is *)
(* its own name.  Replies cross the network in any order.                      *)
EXTENDS Integers, Sequences, FiniteSets

CONSTANTS Callers,    \* threads that call a remote context
          Peers,      \* remote contexts
          PeerOf,     \* PeerOf[c]: the context c calls
          Impatient   \* the callers that pass a timeout and then close the receiver

ASSUME HandlersAssumption == PeerOf \in [Callers -> Peers] /\ Impatient \subseteq Callers

VARIABLES handleMap,  \* keys of Router._handle_map
          hbr,        \* _handles_by_respondent: number of the set in use, 0: no entry
          sets,       \* the sets ever stored there, in order of creation
          listeners,  \* listeners of each Context's 'disconnect'
          unseen,     \* history: numbers of the sets that no disconnection will walk
          linked,     \* contexts a route exists for
          jobs,       \* functions deferred to the broker: a request or a dead reply
          sent,       \* requests that reached their context and are not answered
          box,        \* messages in each Receiver's latch
          shutBox,    \* receivers whose latch is closed
          hpc,        \* program counter of each caller
          hobj,       \* the set object that add_handler() is about to add to
          bstate,     \* what the broker does: [at, h, peer, nth, done, size, msg]
          handlersExit, \* the broker fired 'exit'
          crashes     \* handles whose delivery or clean-up raised on the broker

tableVars == <<handleMap, hbr, sets, listeners, unseen>>
handlersVars == <<tableVars, linked, jobs, sent, box, shutBox, hpc, hobj, bstate,
                  handlersExit, crashes>>

Nobody == [at |-> "idle"]
HandlersInit ==
  /\ handleMap = {} /\ crashes = {} /\ shutBox = {} /\ sent = {}
  /\ hbr = [p \in Peers |-> 0]
  /\ sets = [p \in Peers |-> <<>>]
  /\ listeners = [p \in Peers |-> 0]
  /\ unseen = [p \in Peers |-> {}]
  /\ linked = Peers
  /\ jobs = <<>>
  /\ box = [c \in Callers |-> <<>>]
  /\ hpc = [c \in Callers |-> "idle"]
  /\ hobj = [c \in Callers |-> 0]
  /\ bstate = Nobody
  /\ handlersExit = FALSE

HandlersTypeOK ==
  /\ handleMap \subseteq Callers /\ crashes \subseteq Callers
  /\ \A p \in Peers : /\ hbr[p] \in 0..Len(sets[p])
                      /\ \A i \in DOMAIN sets[p] : sets[p][i] \subseteq Callers
                      /\ unseen[p] \subseteq DOMAIN sets[p]
  /\ linked \subseteq Peers
  /\ \A c \in Callers : hobj[c] \in 0..Len(sets[PeerOf[c]])
  /\ bstate.at \in {"idle", "fire", "walk", "tell", "erase", "pop", "discard", "put", "exit", "stopped"}

-----------------------------------------------------------------------------
(* Threads *)
Goto(c, from, to) == hpc[c] = from /\ hpc' = [hpc EXCEPT ![c] = to]

\* Receiver.__init__(), Router.add_handler(): the entry of the handle.
AddHandle(c) ==
  /\ Goto(c, "idle", "respondent")
  /\ handleMap' = handleMap \cup {c}
  /\ UNCHANGED <<hbr, sets, listeners, unseen, linked, jobs, sent, box, shutBox, hobj, bstate,
                 handlersExit, crashes>>

\* The first handle of a respondent creates the set and listens, again when a
\* disconnection popped the entry.  The test, the store and listen() follow one another
\* without a lock: two threads that both found no entry both store a set, and the
\* second takes the place of the first, with whatever was added to it.
TestRespondent(c) ==
  /\ Goto(c, "respondent", IF hbr[PeerOf[c]] = 0 THEN "create" ELSE "lookup")
  /\ UNCHANGED <<tableVars, linked, jobs, sent, box, shutBox, hobj, bstate, handlersExit, crashes>>

StoreNothing(c) ==    \* mutation: the entry is made without its set
  LET p == PeerOf[c] IN
  /\ Goto(c, "create", "listen")
  /\ hbr' = [hbr EXCEPT ![p] = Len(sets[p]) + 1]
  /\ UNCHANGED <<handleMap, sets, listeners, unseen, linked, jobs, sent, box, shutBox, hobj,
                 bstate, handlersExit, crashes>>
CreateSet(c) ==
  LET p == PeerOf[c] IN
  /\ Goto(c, "create", "listen")
  /\ sets' = [sets EXCEPT ![p] = Append(@, {})]
  /\ hbr' = [hbr EXCEPT ![p] = Len(sets[p]) + 1]
  /\ unseen' = [unseen EXCEPT ![p] = @ \cup ({hbr[p]} \ {0})]
  /\ UNCHANGED <<handleMap, listeners, linked, jobs, sent, box, shutBox, hobj, bstate,
                 handlersExit, crashes>>

ListenElsewhere(c) ==    \* mutation: the set is never to be walked
  /\ Goto(c, "listen", "lookup")
  /\ UNCHANGED <<tableVars, linked, jobs, sent, box, shutBox, hobj, bstate, handlersExit, crashes>>
Listen(c) ==
  /\ Goto(c, "listen", "lookup")
  /\ listeners' = [listeners EXCEPT ![PeerOf[c]] = @ + 1]
  /\ UNCHANGED <<handleMap, hbr, sets, unseen, linked, jobs, sent, box, shutBox, hobj, bstate,
                 handlersExit, crashes>>

\* self._handles_by_respondent[respondent] is read, and raises KeyError when the
\* broker popped it since.
LookupSet(c) ==
  /\ Goto(c, "lookup", IF hbr[PeerOf[c]] = 0 THEN "raised" ELSE "add")
  /\ hobj' = [hobj EXCEPT ![c] = hbr[PeerOf[c]]]
  /\ UNCHANGED <<tableVars, linked, jobs, sent, box, shutBox, bstate, handlersExit, crashes>>

AddToSet(c) ==
  /\ Goto(c, "add", "send")
  /\ sets' = [sets EXCEPT ![PeerOf[c]][hobj[c]] = @ \cup {c}]
  /\ UNCHANGED <<handleMap, hbr, listeners, unseen, linked, jobs, sent, box, shutBox, hobj, bstate,
                 handlersExit, crashes>>

\* Context.send(), Router.route(): the request is deferred to the broker, which
\* refuses when it has exited.
SendAsync(c) ==
  /\ Goto(c, "send", IF handlersExit THEN "raised" ELSE "get")
  /\ jobs' = IF handlersExit THEN jobs ELSE Append(jobs, [does |-> "request", h |-> c])
  /\ UNCHANGED <<tableVars, linked, sent, box, shutBox, hobj, bstate, handlersExit, crashes>>

\* Receiver.get(): the reply, or ChannelError for a dead message.
Get(c) ==
  /\ Goto(c, "get", "done")
  /\ box[c] # <<>>
  /\ UNCHANGED <<tableVars, linked, jobs, sent, box, shutBox, hobj, bstate,
                 handlersExit, crashes>>

\* get() times out and the caller closes the receiver.
GiveUp(c) ==
  /\ c \in Impatient
  /\ Goto(c, "get", "close")
  /\ box[c] = <<>>
  /\ UNCHANGED <<tableVars, linked, jobs, sent, box, shutBox, hobj, bstate,
                 handlersExit, crashes>>

\* Receiver.close() calls del_handler(), which raises KeyError when the broker
\* removed the handle since, and then leaves the latch open.
ClosePop(c) ==
  /\ Goto(c, "close", IF c \in handleMap THEN "unlist" ELSE "raised")
  /\ handleMap' = handleMap \ {c}
  /\ UNCHANGED <<hbr, sets, listeners, unseen, linked, jobs, sent, box, shutBox, hobj, bstate,
                 handlersExit, crashes>>

KeepListed(c) == sets    \* mutation: the handle stays listed for its respondent
Discard(c) == IF hbr[PeerOf[c]] = 0 THEN sets
              ELSE [sets EXCEPT ![PeerOf[c]][hbr[PeerOf[c]]] = @ \ {c}]

CloseUnlist(c) ==
  /\ Goto(c, "unlist", IF hbr[PeerOf[c]] = 0 THEN "raised" ELSE "shut")
  /\ sets' = Discard(c)
  /\ UNCHANGED <<handleMap, hbr, listeners, unseen, linked, jobs, sent, box, shutBox, hobj, bstate,
                 handlersExit, crashes>>

CloseLatch(c) ==
  /\ Goto(c, "shut", "closed")
  /\ shutBox' = shutBox \cup {c}
  /\ UNCHANGED <<tableVars, linked, jobs, sent, box, hobj, bstate, handlersExit, crashes>>

-----------------------------------------------------------------------------
(* The broker thread *)
At(s) == bstate.at = s
Raises == bstate' = Nobody /\ crashes' = crashes \cup {bstate.h}

\* Receiver._on_receive(): a message for the latch, refused by a closed one.
Put(c, m) == box' = IF c \in shutBox THEN box ELSE [box EXCEPT ![c] = Append(@, m)]

RequestLost ==    \* mutation: no dead message for a request without a route
  /\ At("idle") /\ jobs # <<>> /\ Head(jobs).does = "request"
  /\ sent' = IF PeerOf[Head(jobs).h] \in linked THEN sent \cup {Head(jobs).h} ELSE sent
  /\ jobs' = Tail(jobs)
  /\ UNCHANGED <<tableVars, linked, box, shutBox, hpc, hobj, bstate, handlersExit, crashes>>

\* Router._async_route(): the request leaves, or comes back as a dead message
\* that is itself routed by a deferred call.
RouteRequest ==
  /\ At("idle") /\ jobs # <<>> /\ Head(jobs).does = "request"
  /\ LET h == Head(jobs).h IN
     IF PeerOf[h] \in linked
     THEN sent' = sent \cup {h} /\ jobs' = Tail(jobs)
     ELSE jobs' = Append(Tail(jobs), [does |-> "dead", h |-> h]) /\ UNCHANGED sent
  /\ UNCHANGED <<tableVars, linked, box, shutBox, hpc, hobj, bstate, handlersExit, crashes>>

\* Router._invoke(): a message for an unknown handle is dropped, a reply has no
\* return address; one for a known handle is not persistent, so it is deleted.
Known(h) == h \in handleMap
Invoke(h, m) == bstate' = IF Known(h) THEN [at |-> "pop", h |-> h, msg |-> m] ELSE Nobody

InvokeDead ==
  /\ At("idle") /\ jobs # <<>> /\ Head(jobs).does = "dead"
  /\ jobs' = Tail(jobs)
  /\ Invoke(Head(jobs).h, "dead")
  /\ UNCHANGED <<tableVars, linked, sent, box, shutBox, hpc, hobj, handlersExit, crashes>>

\* A reply arrives.
InvokeReply(h) ==
  /\ At("idle") /\ h \in sent /\ PeerOf[h] \in linked
  /\ sent' = sent \ {h}
  /\ Invoke(h, "reply")
  /\ UNCHANGED <<tableVars, linked, jobs, box, shutBox, hpc, hobj, handlersExit, crashes>>

\* del_handler() on the broker: KeyError leaves _invoke(), the message is lost.
InvokePop ==
  /\ At("pop")
  /\ handleMap' = handleMap \ {bstate.h}
  /\ IF Known(bstate.h) THEN bstate' = [bstate EXCEPT !.at = "discard"] /\ UNCHANGED crashes
                        ELSE Raises
  /\ UNCHANGED <<hbr, sets, listeners, unseen, linked, jobs, sent, box, shutBox, hpc, hobj, handlersExit>>

InvokeDiscard ==
  /\ At("discard")
  /\ sets' = Discard(bstate.h)
  /\ IF hbr[PeerOf[bstate.h]] # 0
     THEN bstate' = [bstate EXCEPT !.at = "put"] /\ UNCHANGED crashes
     ELSE Raises
  /\ UNCHANGED <<handleMap, hbr, listeners, unseen, linked, jobs, sent, box, shutBox, hpc, hobj, handlersExit>>

InvokePut ==
  /\ At("put")
  /\ Put(bstate.h, bstate.msg)
  /\ bstate' = Nobody
  /\ UNCHANGED <<tableVars, linked, jobs, sent, shutBox, hpc, hobj, handlersExit, crashes>>

\* The route of p goes and the 'disconnect' of its Context is fired: its
\* listeners run one after the other.
PeerDisconnect(p) ==
  /\ At("idle") /\ p \in linked /\ ~handlersExit
  /\ linked' = linked \ {p}
  /\ bstate' = [at |-> "fire", peer |-> p, nth |-> 1]
  /\ UNCHANGED <<tableVars, jobs, sent, box, shutBox, hpc, hobj, handlersExit, crashes>>

\* _on_respondent_disconnect(): the set is taken out of the table ...  A set still there
\* when the last listener has run is one whose creator had yet to listen.
PopRespondent ==
  LET p == bstate.peer IN
  /\ At("fire")
  /\ IF bstate.nth > listeners[p] THEN bstate' = Nobody
     ELSE IF hbr[p] = 0 THEN bstate' = [bstate EXCEPT !.nth = @ + 1]
     ELSE bstate' = [at |-> "walk", peer |-> p, nth |-> bstate.nth, obj |-> hbr[p],
                     h |-> "none", done |-> {}, size |-> Cardinality(sets[p][hbr[p]])]
  /\ IF bstate.nth > listeners[p]
     THEN unseen' = [unseen EXCEPT ![p] = @ \cup ({hbr[p]} \ {0})] /\ UNCHANGED hbr
     ELSE hbr' = [hbr EXCEPT ![p] = 0] /\ UNCHANGED unseen
  /\ UNCHANGED <<handleMap, sets, listeners, linked, jobs, sent, box, shutBox, hpc, hobj,
                 handlersExit, crashes>>

\* ... and walked: Python raises when its size changed, or a handle is unknown.
WalkRaises(left) == bstate' = Nobody /\ crashes' = crashes \cup left
Walk ==
  LET walked == sets[bstate.peer][bstate.obj]
      left   == walked \ bstate.done IN
  /\ At("walk")
  /\ \/ /\ Cardinality(walked) # bstate.size
        /\ WalkRaises(left)
     \/ /\ Cardinality(walked) = bstate.size /\ left = {}
        /\ bstate' = [at |-> "fire", peer |-> bstate.peer, nth |-> bstate.nth + 1]
        /\ UNCHANGED crashes
     \/ /\ Cardinality(walked) = bstate.size
        /\ \E h \in left :
             IF Known(h) THEN bstate' = [bstate EXCEPT !.at = "tell", !.h = h]
                              /\ UNCHANGED crashes
             ELSE WalkRaises(left)
  /\ UNCHANGED <<tableVars, linked, jobs, sent, box, shutBox, hpc, hobj, handlersExit>>

Left == sets[bstate.peer][bstate.obj] \ bstate.done
WalkTell ==
  /\ At("tell")
  /\ Put(bstate.h, "dead")
  /\ IF bstate.h \in shutBox THEN WalkRaises(Left)
     ELSE bstate' = [bstate EXCEPT !.at = "erase"] /\ UNCHANGED crashes
  /\ UNCHANGED <<tableVars, linked, jobs, sent, shutBox, hpc, hobj, handlersExit>>

WalkKeeps ==    \* mutation: a handler told of the disconnection stays registered
  /\ At("erase")
  /\ bstate' = [bstate EXCEPT !.at = "walk", !.done = @ \cup {bstate.h}]
  /\ UNCHANGED <<tableVars, linked, jobs, sent, box, shutBox, hpc, hobj, handlersExit, crashes>>

WalkErase ==
  /\ At("erase")
  /\ handleMap' = handleMap \ {bstate.h}
  /\ IF Known(bstate.h)
     THEN bstate' = [bstate EXCEPT !.at = "walk", !.done = @ \cup {bstate.h}] /\ UNCHANGED crashes
     ELSE WalkRaises(Left \ {bstate.h})
  /\ UNCHANGED <<hbr, sets, listeners, unseen, linked, jobs, sent, box, shutBox, hpc, hobj, handlersExit>>

\* _on_broker_exit(): every handler left is popped and told.
BrokerExits ==
  /\ At("idle") /\ ~handlersExit
  /\ handlersExit' = TRUE
  /\ bstate' = [at |-> "exit"]
  /\ UNCHANGED <<tableVars, linked, jobs, sent, box, shutBox, hpc, hobj, crashes>>

ExitPop ==
  /\ At("exit")
  /\ \/ handleMap = {} /\ bstate' = [at |-> "stopped"] /\ UNCHANGED <<handleMap, box>>
     \/ \E h \in handleMap :
          /\ handleMap' = handleMap \ {h}
          /\ Put(h, "dead")
          /\ UNCHANGED bstate
  /\ UNCHANGED <<hbr, sets, listeners, unseen, linked, jobs, sent, shutBox, hpc, hobj, handlersExit, crashes>>

-----------------------------------------------------------------------------
CallerStep(c) == \/ TestRespondent(c) \/ CreateSet(c) \/ Listen(c) \/ LookupSet(c) \/ AddToSet(c)
                 \/ SendAsync(c) \/ Get(c) \/ ClosePop(c) \/ CloseUnlist(c) \/ CloseLatch(c)
BrokerStep == \/ RouteRequest \/ InvokeDead \/ InvokePop \/ InvokeDiscard \/ InvokePut
              \/ PopRespondent \/ Walk \/ WalkTell \/ WalkErase \/ ExitPop
HandlersNext == \/ BrokerStep \/ BrokerExits
                \/ \E c \in Callers : AddHandle(c) \/ CallerStep(c) \/ GiveUp(c) \/ InvokeReply(c)
                \/ \E p \in Peers : PeerDisconnect(p)
HandlersSpec == HandlersInit /\ [][HandlersNext]_handlersVars

-----------------------------------------------------------------------------
\* The request of c had reached its context when that context was lost, and c is listed in
\* a set that the disconnection did not walk.
Unseen(c) == /\ c \in sent /\ PeerOf[c] \notin linked
             /\ \E i \in unseen[PeerOf[c]] : c \in sets[PeerOf[c]][i]

\* A call is answered, by a reply or by a dead message, unless the broker raised while it
\* handled that call (the races of add_handler() and close() with it), or its set was lost
\* in the race of two add_handler() and its context then too.
CallsAnswered ==
  \A c \in Callers : (hpc[c] = "get") ~> (hpc[c] # "get" \/ c \in crashes \/ Unseen(c))

\* The docstring of add_handler() (core.py:3131-3134): a handler with a respondent is told
\* "when disconnection of the context is detected".
RespondentsHeard == \A c \in Callers : (hpc[c] = "get") ~> (hpc[c] # "get" \/ c \in crashes)

\* A call is answered at most once, however a reply, the disconnection of its
\* respondent, the exit of the broker and close() meet.
AnsweredAtMostOnce == \A c \in Callers : Len(box[c]) <= 1

\* The table by respondent does not outgrow the handlers: a handle it lists has a
\* handler, or the thread that removed the handler is about to unlist it.
NoStaleHandle ==
  \A p \in Peers : hbr[p] # 0 /\ ~handlersExit =>
    \A h \in sets[p][hbr[p]] : \/ Known(h)
                               \/ hpc[h] = "unlist"
                               \/ bstate.at = "discard" /\ bstate.h = h

\* While its context is connected, a registered call is where the disconnection will look
\* for it, in the set of the table, with a listener that is there or about to be; the only
\* other place is a set that another thread's add_handler() has replaced since.
EveryCallListed ==
  \A c \in Callers : LET p == PeerOf[c] IN
    hpc[c] \in {"send", "get"} /\ Known(c) /\ p \in linked =>
      /\ \/ hbr[p] # 0 /\ c \in sets[p][hbr[p]]
         \/ \E i \in unseen[p] : c \in sets[p][i] /\ i < hbr[p]
      /\ listeners[p] > 0 \/ \E d \in Callers : PeerOf[d] = p /\ hpc[d] = "listen"

\* What add_handler() and _invoke() promise a caller: one answer at most, no handler left
\* behind, and no registered call that the disconnection of its context overlooks save by the
\* race of two add_handler(), however replies, disconnections, close() and the exit of the
\* broker meet.
HandlersSafe == HandlersTypeOK /\ AnsweredAtMostOnce /\ NoStaleHandle /\ EveryCallListed
=============================================================================
