------------------------------ MODULE Routing -------------------------------
(* Routing in a tree of contexts: mitogen.core.Router._async_route() and the   *)
(* maintenance of routes by mitogen.parent.RouteMonitor.                       *)
(*                                                                             *)
(* Every context runs one broker thread, so a received message is handled in   *)
(* one step.  A stream is named by the neighbour it leads to; it delivers in   *)
(* order, and what it has not delivered when it breaks may be lost.  Calls     *)
(* stand for every message with a reply address.                               *)
EXTENDS Integers, Sequences, FiniteSets, SequencesExt

CONSTANTS Nodes, Root, Up,   \* the tree: Up[k] is the parent of k # Root
          Calls, From, To,   \* the calls made, and their two ends
          NoWay              \* no stream

Kids == [n \in Nodes |-> {k \in Nodes \ {Root} : Up[k] = n}]

\* Lineage[k]: k and those it is below.
Lineage ==
  [k \in Nodes |-> {n \in Nodes : \A S \in SUBSET Nodes : k \in S /\ (\A j \in S \ {Root} : Up[j] \in S) => n \in S}]

ASSUME RoutingAssumption ==
  /\ Root \in Nodes /\ NoWay \notin Nodes /\ IsFiniteSet(Nodes)
  /\ Up \in [Nodes \ {Root} -> Nodes] /\ \A k \in Nodes : Root \in Lineage[k]
  /\ From \in [Calls -> Nodes] /\ To \in [Calls -> Nodes]
  /\ \A c \in Calls : From[c] # To[c]

\* The contexts below n.
Below(n) == {t \in Nodes \ {n} : n \in Lineage[t]}

VARIABLES alive,      \* contexts whose process runs
          joined,     \* contexts that were ever connected
          broken,     \* contexts whose connection to the parent is gone
          routes,     \* Router._stream_by_id of each context
          reach,      \* RouteMonitor._routes_by_stream: <<n, k>> -> targets
          egress,     \* MitogenProtocol.egress_ids: <<n, neighbour>> -> targets
          wire,       \* messages sent on a stream and not yet received
          serving,    \* calls received by their target and not yet answered
          calls,      \* "new", "sent" or the outcome
          rejected,   \* messages that failed source verification
          oneway      \* Router.unidirectional, in the whole network

routeVars == <<routes, reach, egress>>
routingVars == <<alive, joined, broken, routeVars, wire, serving, calls, rejected, oneway>>

Parent(n) == IF n = Root THEN NoWay ELSE Up[n]
Links == {l \in Nodes \X Nodes : l[1] = Parent(l[2]) \/ l[2] = Parent(l[1])}

RoutingInit ==
  /\ alive = {Root} /\ joined = {Root}
  /\ routes = [n \in Nodes |-> [t \in Nodes |-> IF t = Parent(n) THEN t ELSE NoWay]]
  /\ reach = [l \in Links |-> {}]
  /\ egress = [l \in Links |-> {}]
  /\ wire = [l \in Links |-> <<>>]
  /\ serving = {} /\ rejected = {} /\ broken = {}
  /\ calls = [c \in Calls |-> "new"]
  /\ oneway \in BOOLEAN

RoutingTypeOK ==
  /\ alive \subseteq joined /\ joined \subseteq Nodes /\ broken \subseteq joined /\ serving \subseteq Calls
  /\ routes \in [Nodes -> [Nodes -> Nodes \cup {NoWay}]]
  /\ reach \in [Links -> SUBSET Nodes] /\ egress \in [Links -> SUBSET Nodes]
  /\ calls \in [Calls -> {"new", "sent", "reply", "dead"}]

-----------------------------------------------------------------------------
(* Looking up a stream *)
Stream(n, t) == IF routes[n][t] # NoWay THEN routes[n][t] ELSE Parent(n)   \* stream_by_id()

\* _async_route(): upstream when no route is known, but never back to a parent
\* the message came from.
MayGoUp(n, src, in) == in = NoWay \/ Stream(n, src) # Parent(n)
WayOut(n, src, dst, in) ==
  IF routes[n][dst] # NoWay THEN routes[n][dst]
  ELSE IF MayGoUp(n, src, in) THEN Parent(n) ELSE NoWay

\* Neither end of a forwarding is a stream to a parent.
Forbidden(n, in, out) == oneway /\ in # NoWay /\ Parent(n) \notin {in, out}

\* Reverse path filtering: a message must arrive on the stream to its source.
Verified(n, src, in) == Stream(n, src) = in

Message(kind, src, dst, about) == [kind |-> kind, src |-> src, dst |-> dst, about |-> about]

\* The wires after the messages of sends, a set of <<link, message>>.
Sent(w, sends) ==
  [l \in Links |-> LET new == {s \in sends : s[1] = l}
                   IN IF new = {} THEN w[l] ELSE w[l] \o SetToSeq({s[2] : s \in new})]

\* A message that n originates: Message.reply(), Context.send().
Originate(n, m) == LET out == WayOut(n, n, m.dst, NoWay)
                   IN IF out = NoWay THEN {} ELSE {<<<<n, out>>, m>>}

\* Contexts T are gone, as n sees it: 'disconnect' fires on each Context, and the
\* handlers of the calls n made to them get a dead message.
Disconnected(n, T) ==
  [c \in Calls |-> IF From[c] = n /\ To[c] \in T /\ calls[c] = "sent" THEN "dead" ELSE calls[c]]
Answer(c, with) == [calls EXCEPT ![c] = IF @ = "sent" THEN with ELSE @]

-----------------------------------------------------------------------------
(* RouteMonitor *)
AddRoute(n, t, s) == [routes EXCEPT ![n][t] = s]
DelRoute(n, T) == [routes EXCEPT ![n] = [t \in Nodes |-> IF t \in T THEN NoWay ELSE @[t]]]
\* Router._on_stream_disconnect(): the contexts that were reached through k.
Unreached(n, k) == {t \in Nodes : routes[n][t] = k}

NoUpNews(n, kind, T) == {}    \* mutation: ancestors are not told
AddsOnly(n, kind, T) ==       \* mutation: ancestors learn of new contexts only
  {<<<<n, Parent(n)>>, Message(kind, n, Parent(n), t)>> :
     t \in IF n = Root \/ kind = "del" THEN {} ELSE T}
UpNews(n, kind, T) ==
  {<<<<n, Parent(n)>>, Message(kind, n, Parent(n), t)>> : t \in IF n = Root THEN {} ELSE T}

\* _propagate_down(): to the streams that ever carried a message for t.
NobodyTold(n, t) == {}    \* mutation: only ancestors hear of a disconnection
Told(n, t) == {s \in Kids[n] : t \in egress[<<n, s>>] /\ \E k \in Nodes : routes[n][k] = s}
DownNews(n, T) ==
  UNION {{<<<<n, s>>, Message("del", n, s, t)>> : s \in Told(n, t)} : t \in T}

\* A child is connected: Connection._complete_connection(), Router.register() and
\* notice_stream() announce it to the ancestors.
Connect(k) ==
  LET n == Parent(k) IN
  /\ k \notin joined /\ n \in alive
  /\ alive' = alive \cup {k} /\ joined' = joined \cup {k}
  /\ routes' = AddRoute(n, k, k)
  /\ reach' = [reach EXCEPT ![<<n, k>>] = {k}]
  /\ wire' = Sent(wire, UpNews(n, "add", {k}))
  /\ UNCHANGED <<broken, egress, serving, calls, rejected, oneway>>

\* Router._on_stream_disconnect() and RouteMonitor._on_stream_disconnect(): every
\* route through the stream goes, and those who may care are told.
StreamDisconnect(n, k) ==
  LET known == reach[<<n, k>>]
      gone  == Unreached(n, k) \cup known
      quiet == [wire EXCEPT ![<<n, k>>] = <<>>, ![<<k, n>>] = <<>>]
  IN
  /\ n \in alive /\ k \in broken \cap known
  /\ routes' = DelRoute(n, gone)
  /\ reach' = [reach EXCEPT ![<<n, k>>] = {}]
  /\ wire' = Sent(quiet, {s \in UpNews(n, "del", known) \cup DownNews(n, known) : s[1] # <<n, k>>})
  /\ calls' = Disconnected(n, gone)
  /\ UNCHANGED <<alive, joined, broken, egress, serving, rejected, oneway>>

-----------------------------------------------------------------------------
(* Messages *)
\* A thread calls a remote context it knows of; without a route it gets a dead
\* message at once.
Ask(c) ==
  LET n == From[c]
      sends == Originate(n, Message("call", n, To[c], c))
  IN
  /\ calls[c] = "new" /\ n \in alive /\ To[c] \in joined
  /\ wire' = Sent(wire, sends)
  /\ calls' = [calls EXCEPT ![c] = IF sends = {} THEN "dead" ELSE "sent"]
  /\ UNCHANGED <<alive, joined, broken, routeVars, serving, rejected, oneway>>

\* The target replies.
Reply(c) ==
  /\ c \in serving /\ To[c] \in alive
  /\ serving' = serving \ {c}
  /\ wire' = Sent(wire, Originate(To[c], Message("reply", To[c], From[c], c)))
  /\ UNCHANGED <<alive, joined, broken, routeVars, calls, rejected, oneway>>

\* What a broker does with the message at the head of a stream.
Connected(n, in) == n \in alive /\ (in \in Kids[n] => in \in reach[<<n, in>>])
Arrives(n, in) == wire[<<in, n>>] # <<>> /\ Connected(n, in)
Taken(n, in) == [wire EXCEPT ![<<in, n>>] = Tail(@)]
Noted(n, in, m) == [egress EXCEPT ![<<n, in>>] = @ \cup {m.dst}]

\* _async_route(): source verification drops the message.  That no honest message gets
\* this far is HonestVerified.
Reject(n, in) ==
  /\ Arrives(n, in)
  /\ LET m == Head(wire[<<in, n>>]) IN
       /\ ~Verified(n, m.src, in)
       /\ rejected' = rejected \cup {m}
  /\ wire' = Taken(n, in)
  /\ UNCHANGED <<alive, joined, broken, routeVars, serving, calls, oneway>>

\* _async_route(): the message is forwarded, or a dead message goes back to the
\* source of a call.
Forward(n, in) ==
  /\ Arrives(n, in)
  /\ LET m == Head(wire[<<in, n>>])
         out == WayOut(n, m.src, m.dst, in)
         back == IF m.kind = "call" THEN Originate(n, Message("dead", n, m.src, m.about)) ELSE {}
     IN
       /\ Verified(n, m.src, in) /\ m.dst # n
       /\ egress' = Noted(n, in, m)
       /\ wire' = Sent(Taken(n, in), IF out = NoWay \/ Forbidden(n, in, out) THEN back
                                    ELSE {<<<<n, out>>, m>>})
  /\ UNCHANGED <<alive, joined, broken, routes, reach, serving, calls, rejected, oneway>>

\* _invoke() of a call, a reply or a dead message addressed to n.
Deliver(n, in) ==
  /\ Arrives(n, in)
  /\ LET m == Head(wire[<<in, n>>]) IN
       /\ Verified(n, m.src, in) /\ m.dst = n /\ m.kind \in {"call", "reply", "dead"}
       /\ egress' = Noted(n, in, m)
       /\ serving' = IF m.kind = "call" THEN serving \cup {m.about} ELSE serving
       /\ calls' = IF m.kind = "call" THEN calls ELSE Answer(m.about, m.kind)
  /\ wire' = Taken(n, in)
  /\ UNCHANGED <<alive, joined, broken, routes, reach, rejected, oneway>>

\* _on_add_route(): learned once, and passed on.
OnAddRoute(n, in) ==
  /\ Arrives(n, in)
  /\ LET m == Head(wire[<<in, n>>])
         fresh == routes[n][m.about] = NoWay
     IN
       /\ Verified(n, m.src, in) /\ m.kind = "add"
       /\ egress' = Noted(n, in, m)
       /\ routes' = IF fresh THEN AddRoute(n, m.about, in) ELSE routes
       /\ reach' = IF fresh THEN [reach EXCEPT ![<<n, in>>] = @ \cup {m.about}] ELSE reach
       /\ wire' = Sent(Taken(n, in), IF fresh THEN UpNews(n, "add", {m.about}) ELSE {})
  /\ UNCHANGED <<alive, joined, broken, serving, calls, rejected, oneway>>

\* RouteMonitor._on_del_route() where there are children, else the stub
\* Router._on_del_route(), which only fires the signal.
OnDelRoute(n, in) ==
  /\ Arrives(n, in)
  /\ LET m == Head(wire[<<in, n>>])
         t == m.about
         agreed == Stream(n, t) = in
     IN
       /\ Verified(n, m.src, in) /\ m.kind = "del"
       /\ egress' = Noted(n, in, m)
       /\ calls' = IF agreed THEN Disconnected(n, {t}) ELSE calls
       /\ routes' = IF agreed THEN DelRoute(n, {t}) ELSE routes
       /\ reach' = IF agreed THEN [reach EXCEPT ![<<n, in>>] = @ \ {t}] ELSE reach
       /\ wire' = Sent(Taken(n, in),
                       IF ~agreed THEN {}
                       ELSE DownNews(n, {t}) \cup IF in = Parent(n) THEN {} ELSE UpNews(n, "del", {t}))
  /\ UNCHANGED <<alive, joined, broken, serving, rejected, oneway>>

-----------------------------------------------------------------------------
(* Processes *)
Die(k) ==
  /\ k \in alive \ {Root}
  /\ alive' = alive \ {k}
  /\ broken' = broken \cup {k} \cup (Kids[k] \cap joined)
  /\ UNCHANGED <<joined, routeVars, wire, serving, calls, rejected, oneway>>

\* Router.disconnect(), or a network that fails: both ends will notice.
SeverAny(k) ==    \* mutation: without checking that a stream exists
  /\ k \in Nodes \ {Root}
  /\ broken' = broken \cup {k}
  /\ UNCHANGED <<alive, joined, routeVars, wire, serving, calls, rejected, oneway>>
Sever(k) ==
  /\ k \in alive \ {Root} /\ k \notin broken
  /\ broken' = broken \cup {k}
  /\ UNCHANGED <<alive, joined, routeVars, wire, serving, calls, rejected, oneway>>

\* A context that loses its parent shuts down: ExternalContext listens for it.
ParentGone(k) == k \in broken /\ Die(k)

Receive(n, in) == \/ Reject(n, in) \/ Forward(n, in) \/ Deliver(n, in)
                  \/ OnAddRoute(n, in) \/ OnDelRoute(n, in)
Incoming == {l \in Links : Arrives(l[2], l[1])}

Progress ==
  \/ \E l \in Incoming : Receive(l[2], l[1])
  \/ \E k \in broken : StreamDisconnect(Up[k], k)
  \/ \E k \in broken : ParentGone(k)
  \/ \E c \in Calls : Reply(c)

RoutingNext ==
  \/ Progress
  \/ \E k \in Nodes \ {Root} : Connect(k) \/ Die(k) \/ Sever(k)
  \/ \E c \in Calls : Ask(c)

RoutingSpec == RoutingInit /\ [][RoutingNext]_routingVars

-----------------------------------------------------------------------------
\* Every call ends while its caller lives: with the reply, or with a dead message
\* wherever on its way the route disappeared.
EveryCallEnds ==
  \A c \in Calls : (calls[c] = "sent") ~> (calls[c] # "sent" \/ From[c] \notin alive)

\* No message of an honest context is taken for a forged one, whatever happens to
\* the routes: each hop learns of a context before its first message passes.
HonestVerified == rejected = {}

\* When nothing is under way, the root has exactly the routes to the contexts
\* that live, and every node has those to the live contexts below it.
Settled == /\ \A l \in Links : Connected(l[1], l[2]) => wire[<<l[2], l[1]>>] = <<>>
           /\ \A k \in broken : k \notin alive /\ (Parent(k) \in alive => reach[<<Parent(k), k>>] = {})
RoutesConverge ==
  Settled => \A n \in alive : \A t \in Below(n) : t \in alive <=> routes[n][t] # NoWay

\* What Router and RouteMonitor promise for safety: honest messages pass the checks of their
\* source, and the routes of every node agree with the tree once news has spread.
RoutingSafe == RoutingTypeOK /\ HonestVerified /\ RoutesConverge
=============================================================================
