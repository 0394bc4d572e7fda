------------------------------ MODULE Polling ------------------------------
(* The broker's poller (EpollPoller, Linux) and the streams registered with  *)
(* it.  Registrations are keyed by descriptor; descriptors are reused, lowest *)
(* first; the events of one poll() are handled one by one while handlers      *)
(* close and open streams; and threads register and disconnect streams by     *)
(* deferring to the broker after looking at the stream.                       *)
EXTENDS Naturals, SequencesExt, FiniteSetsExt

CONSTANTS Streams, Fds, MaxEvents     \* MaxEvents bounds what peers do
ASSUME PollingAssumption == Fds \subseteq Nat \ {0} /\ Fds # {} /\ MaxEvents \in Nat

None == "none"
VARIABLES
  life,      \* life[s]: "new", "open" or "closed" (Side.closed)
  fdOf,      \* Side.fd; kept after the side is closed
  input,     \* input[s]: bytes the peer sent, "eof" after them
  rfds,      \* Poller._rfds: the stream of a descriptor
  fresh,     \* descriptors registered since poll() began (their generation is the current one)
  events,    \* events of this poll() not yet handled
  deferred,  \* functions deferred to the broker
  running,   \* the waker runs the deferred functions: "no", "yes", or one of them "crashed" and
             \* the broker shut down
  checked,   \* <<what, stream>>: a thread looked at the stream and has not deferred yet
  robbed,    \* streams whose registration another stream's second disconnect removed
  raced,     \* streams closed between the check of start_receive() and the registration
  misled,    \* streams dropped by a read that found nothing
  spent       \* events of peers so far
poVars == <<life, fdOf, input, rfds, fresh, events, deferred, running, checked, robbed, raced, misled, spent>>
brokerVars == <<rfds, fresh, events, running>>
histories == <<robbed, raced, misled>>

Open(s) == life[s] = "open"
Used == {fdOf[s] : s \in {t \in Streams : Open(t)}}
Lowest == Min(Fds \ Used)
Owner(fd) == CHOOSE s \in Streams : Open(s) /\ fdOf[s] = fd
Registered(s) == Open(s) /\ rfds[fdOf[s]] = s
Readable(s) == Open(s) /\ (input[s].bytes > 0 \/ input[s].eof)
Waker == 0
Accepting == -1

PollingInit ==
  /\ life = [s \in Streams |-> "new"] /\ fdOf = [s \in Streams |-> 0]
  /\ input = [s \in Streams |-> [bytes |-> 0, eof |-> FALSE]]
  /\ rfds = [fd \in Fds |-> None] /\ fresh = {} /\ events = {} /\ deferred = << >> /\ running = "no"
  /\ checked = {} /\ robbed = {} /\ raced = {} /\ misled = {} /\ spent = 0

-----------------------------------------------------------------------------
\* Streams and threads.
Opened(s) == life' = [life EXCEPT ![s] = "open"] /\ fdOf' = [fdOf EXCEPT ![s] = Lowest]
\* A thread connects and looks at the stream for start_receive() or for a disconnect.
ThreadOpens(s) ==
  /\ life[s] = "new" /\ Fds \ Used # {} /\ Opened(s)
  /\ checked' = checked \union {<<"receive", s>>}
  /\ UNCHANGED <<input, brokerVars, deferred, histories, spent>>
ThreadDisconnects(s) ==
  /\ Open(s) /\ spent < MaxEvents /\ spent' = spent + 1
  /\ checked' = checked \union {<<"disconnect", s>>}
  /\ UNCHANGED <<life, fdOf, input, brokerVars, deferred, histories>>
Defer(f) ==
  /\ f \in checked /\ checked' = checked \ {f} /\ deferred' = Append(deferred, f)
  /\ raced' = IF f[1] = "receive" /\ ~Open(f[2]) THEN raced \union {f[2]} ELSE raced
  /\ UNCHANGED <<life, fdOf, input, brokerVars, robbed, misled, spent>>
\* The other end of an open stream.
PeerSends(s) ==
  /\ Open(s) /\ ~input[s].eof /\ spent < MaxEvents /\ spent' = spent + 1
  /\ \/ input' = [input EXCEPT ![s].bytes = 1]
     \/ input' = [input EXCEPT ![s].eof = TRUE]
  /\ UNCHANGED <<life, fdOf, brokerVars, deferred, checked, histories>>

-----------------------------------------------------------------------------
\* Poller.
\* mutation: what is registered while events are handled is served from the same events.
RegisterOld(s) == rfds' = [rfds EXCEPT ![fdOf[s]] = s] /\ UNCHANGED fresh
Register(s) == rfds' = [rfds EXCEPT ![fdOf[s]] = s] /\ fresh' = fresh \union {fdOf[s]}
\* mutation: the registration outlives the stream.
KeepRegistered(fd) == UNCHANGED rfds
Unregister(fd) == rfds' = [rfds EXCEPT ![fd] = None]

\* Protocol.on_disconnect(): stop_receive() on the number the side had, then close both sides.
OnDisconnect(s) ==
  /\ Unregister(fdOf[s]) /\ life' = [life EXCEPT ![s] = "closed"]
  /\ robbed' = IF rfds[fdOf[s]] \in Streams \ {s} /\ Open(rfds[fdOf[s]])
               THEN robbed \union {rfds[fdOf[s]]} ELSE robbed
  /\ UNCHANGED fresh

\* poll(): waits until something is ready and takes the list.
Poll(accepting) ==
  /\ events = {} /\ running = "no"
  /\ LET ready == {fd \in Fds : fd \in Used /\ rfds[fd] # None /\ Readable(Owner(fd))}
                    \union (IF deferred # << >> THEN {Waker} ELSE {})
     IN /\ events' = ready \union (IF accepting THEN {Accepting} ELSE {})      \* a peer connects to the listener
        /\ events' # {} /\ fresh' = {}
  /\ UNCHANGED <<life, fdOf, input, rfds, running, deferred, checked, histories, spent>>
Take(e) == e \in events /\ running = "no" /\ events' = events \ {e}

\* The listener accepts on the broker thread; Router.register() registers at once.
OnAccept ==
  /\ Take(Accepting)
  /\ \/ \E s \in Streams : /\ life[s] = "new" /\ Fds \ Used # {} /\ Opened(s)
                           /\ rfds' = [rfds EXCEPT ![Lowest] = s] /\ fresh' = fresh \union {Lowest}
     \/ UNCHANGED <<life, fdOf, rfds, fresh>>       \* accept() fails, or nobody is there any more
  /\ UNCHANGED <<input, running, deferred, checked, histories, spent>>
\* A readiness event: looked up again, because handlers before it may have changed everything.
OnReady(fd) ==
  /\ Take(fd) /\ fd \in Fds
  /\ IF rfds[fd] = None \/ fd \in fresh
     THEN UNCHANGED <<life, rfds, fresh, input, robbed, misled>>
     ELSE LET s == rfds[fd] IN
          \/ /\ Open(s) /\ input[s].bytes > 0
             /\ input' = [input EXCEPT ![s].bytes = 0] /\ UNCHANGED <<life, rfds, fresh, robbed, misled>>
          \/ /\ (~Open(s) \/ (input[s].bytes = 0 /\ input[s].eof))      \* an empty read
             /\ OnDisconnect(s) /\ UNCHANGED <<input, misled>>
          \/ /\ Open(s) /\ input[s].bytes = 0 /\ ~input[s].eof           \* EAGAIN: _call() drops the stream
             /\ OnDisconnect(s) /\ misled' = misled \union {s} /\ UNCHANGED input
  /\ UNCHANGED <<fdOf, running, deferred, checked, raced, spent>>
\* The waker runs everything deferred before the next event is handled.
OnWaker ==
  /\ Take(Waker) /\ running' = "yes"
  /\ UNCHANGED <<life, fdOf, input, rfds, fresh, deferred, checked, histories, spent>>
RunDeferred ==
  /\ running = "yes"
  /\ IF deferred = << >> THEN running' = "no" /\ UNCHANGED <<life, rfds, fresh, deferred, robbed, raced>>
     ELSE LET s == Head(deferred)[2] IN
          /\ deferred' = Tail(deferred)
          /\ \/ /\ Head(deferred)[1] = "receive" /\ Register(s)
                /\ running' = IF fdOf[s] \in Used THEN "yes" ELSE "crashed"      \* EBADF
                /\ raced' = IF Open(s) THEN raced ELSE raced \union {s}
                /\ robbed' = IF ~Open(s) /\ rfds[fdOf[s]] # None THEN robbed \union {rfds[fdOf[s]]} ELSE robbed
                /\ UNCHANGED life
             \/ Head(deferred)[1] = "disconnect" /\ OnDisconnect(s) /\ UNCHANGED <<raced, running>>
  /\ UNCHANGED <<fdOf, input, events, checked, misled, spent>>

PollingNext ==
  \/ \E s \in Streams : ThreadOpens(s) \/ ThreadDisconnects(s) \/ PeerSends(s)
  \/ \E f \in checked : Defer(f)
  \/ \E fd \in Fds : OnReady(fd)
  \/ \E accepting \in BOOLEAN : Poll(accepting)
  \/ OnAccept \/ OnWaker \/ RunDeferred
PollingSpec == PollingInit /\ [][PollingNext]_poVars

-----------------------------------------------------------------------------
PollingTypeOK ==
  /\ life \in [Streams -> {"new", "open", "closed"}] /\ fdOf \in [Streams -> Fds \union {0}]
  /\ rfds \in [Fds -> Streams \union {None}] /\ fresh \subseteq Fds /\ events \subseteq Fds \union {Waker, Accepting}
  /\ running \in {"no", "yes", "crashed"}
  /\ \A s, t \in Streams : s # t /\ Open(s) /\ Open(t) => fdOf[s] # fdOf[t]

\* Two poll events may name one descriptor of two streams: the old one's readiness is never
\* taken for the new one's, whose read would find nothing and drop a sound stream.
NeverMisled == misled = {}
\* A descriptor is registered for the open stream that owns it; the exceptions are the streams
\* closed between the check of start_receive() in a thread and its registration on the broker.
RegisteredOpen == \A fd \in Fds : rfds[fd] # None =>
                    \/ Open(rfds[fd]) /\ fdOf[rfds[fd]] = fd
                    \/ rfds[fd] \in raced
\* A deferred function kills the broker only in that race.
CrashOnlyRaced == running = "crashed" => raced # {}
\* What arrives for a registered stream is read in the end, and its end is noticed, whatever
\* other streams come and go, unless its registration was taken from it.
Noticed == \A s \in Streams : []<>(~Readable(s) \/ s \in robbed \/ running = "crashed")

\* What the poller promises the broker while descriptors are reused: readiness goes to the
\* stream it belongs to, what is registered is open, and the broker fails only in a race.
PollingSafe == PollingTypeOK /\ NeverMisled /\ RegisteredOpen /\ CrashOnlyRaced
=============================================================================
