-------------------------- MODULE ConnectionPlugin --------------------------
(* The connection plug-in in one worker: it attaches to the multiplexer of    *)
(* its host, gets a reference to a context from the ContextService there,     *)
(* puts it back when the next action starts (perhaps delegated to a host of   *)
(* another multiplexer), when it is closed, and when it is reset because the  *)
(* target was lost. An account reached by become is a host behind its host.   *)
EXTENDS Naturals, Sequences, FiniteSets, Functions

CONSTANTS Hosts, Muxes, MuxOf,   \* MuxOf[h]: the multiplexer that h's name hashes to
          Vias,                  \* the inventories: mitogen_via of each host
          MaxGets, MaxMishaps    \* bounds: requests for contexts, and things that break
NoMux == "none"
ASSUME PluginAssumption ==
  /\ Hosts # {} /\ NoMux \notin Hosts \union Muxes
  /\ MuxOf \in [Hosts -> Muxes] /\ Vias \subseteq [Hosts -> Hosts \union {NoMux}]
  /\ MaxGets \in Nat /\ MaxMishaps \in Nat

VARIABLES
  via,        \* the inventory
  host,       \* the host of the current action: its own, or one it is delegated to
  stage,      \* "idle", "bound" (binding, no context yet), "connected", "resetting" or "failed"
  binding,    \* Connection.binding is set
  context,    \* Connection.context: "none", "live" or "stale" (forgotten by the service)
  contextOf,  \* its host
  broker,     \* ClassicWorkerModel.broker runs
  parent,     \* ClassicWorkerModel.parent: the multiplexer, or NoMux
  path,       \* ClassicWorkerModel.listener_path
  known,      \* <<m, h>>: the service of multiplexer m has a context for host h
  held,       \* _refs_by_context of these contexts
  gets, mishaps, muxDown,
  refused     \* history: no multiplexer could be reached since the last binding was closed
plVars == <<via, host, stage, binding, context, contextOf, broker, parent, path, known, held, gets, mishaps, muxDown, refused>>
modelVars == <<broker, parent, path>>
serviceVars == <<known, held>>
Keys2 == Muxes \X Hosts
Home == CHOOSE h \in Hosts : TRUE

PluginInit ==
  /\ via \in Vias
  /\ host = Home /\ stage = "idle" /\ binding = FALSE /\ context = "none" /\ contextOf = Home
  /\ broker = FALSE /\ parent = NoMux /\ path = NoMux
  /\ known = {} /\ held = [k \in Keys2 |-> 0]
  /\ gets = 0 /\ mishaps = 0 /\ muxDown = {} /\ refused = FALSE

-----------------------------------------------------------------------------
\* _stack_from_spec(): the hops to a host, the first one first; << >> when a host comes twice.
\* The recursion of the code is the chain of hosts that it has seen.
Chains == {c \in UNION {[1..n -> Hosts] : n \in 1..Cardinality(Hosts)} :
             \A i \in 1..Len(c) - 1 : via[c[i]] = c[i + 1]}
Stack(h) ==
  LET whole == {c \in Chains : c[1] = h /\ via[c[Len(c)]] = NoMux}
  IN IF whole = {} THEN << >>
     ELSE LET c == CHOOSE c \in whole : TRUE IN [i \in 1..Len(c) |-> c[Len(c) + 1 - i]]
Cyclic(h) == Stack(h) = << >>

\* ClassicWorkerModel.get_binding() and _reconnect(); on_binding_close().
MuxFor(h) == MuxOf[h]
\* mutation: the connection to the multiplexer is kept whatever host is asked for.
ReuseAny(h) == path # NoMux
Reuse(h) == path = MuxFor(h)
BindTo(h) ==
  /\ broker' = TRUE
  /\ IF Reuse(h) THEN UNCHANGED <<parent, path>>
     ELSE parent' = MuxFor(h) /\ path' = MuxFor(h)
Unreachable(h) == ~Reuse(h) /\ MuxFor(h) \in muxDown
Reconnectless == broker' = TRUE /\ parent' = NoMux /\ UNCHANGED path
BindingClose == broker' = FALSE /\ parent' = NoMux /\ path' = NoMux /\ refused' = FALSE

\* The services forget contexts; what the worker has may be one of them.
Key == <<MuxOf[contextOf], contextOf>>
LoseAll(gone) ==
  /\ known' = known \ gone /\ held' = [k \in Keys2 |-> IF k \in gone THEN 0 ELSE held[k]]
  /\ context' = IF Key \in gone /\ context = "live" THEN "stale" ELSE context
\* The contexts of a multiplexer that are reached through a host.
Through(m, h) == {k \in known : k[1] = m /\ h \in Range(Stack(k[2]))}
\* ContextService.put(): a context that it does not know has no references.
PutRef == held' = IF context = "live" /\ held[Key] > 0 THEN [held EXCEPT ![Key] = @ - 1] ELSE held
ServiceGone == parent = NoMux \/ parent \in muxDown

-----------------------------------------------------------------------------
\* on_action_run(): a new action, perhaps delegated: the reference is put back first.
\* mutation: the context is forgotten without being put back.
ForgetContext == context' = "none" /\ UNCHANGED held
PutConnection == context' = "none" /\ PutRef
OnActionRun(h) ==
  /\ stage \in {"idle", "connected"} /\ host' = h
  /\ \/ /\ stage = "idle" /\ UNCHANGED <<stage, context, held>>
     \/ /\ stage = "connected" /\ ~ServiceGone /\ PutConnection /\ stage' = "idle"
     \/ /\ stage = "connected" /\ ServiceGone             \* ChannelError: the action fails
        /\ stage' = "failed" /\ UNCHANGED <<context, held>>
  /\ UNCHANGED <<via, binding, contextOf, modelVars, known, gets, mishaps, muxDown, refused>>

\* _connect(): the stack, the binding, and the request to the ContextService.
Connect ==
  /\ stage = "idle"
  /\ \/ /\ Cyclic(host) /\ stage' = "failed" /\ UNCHANGED <<binding, modelVars, refused>>
     \/ /\ ~Cyclic(host) /\ Unreachable(host)             \* AnsibleError: ends the task
        /\ stage' = "failed" /\ Reconnectless /\ refused' = TRUE /\ UNCHANGED binding
     \/ /\ ~Cyclic(host) /\ ~Unreachable(host) /\ BindTo(host)
        /\ binding' = TRUE /\ stage' = "bound" /\ UNCHANGED refused
  /\ UNCHANGED <<via, host, context, contextOf, serviceVars, gets, mishaps, muxDown>>
\* ContextService.get() walks the stack: each hop that it reaches gets a reference.
\* mutation: references go to the last hop alone.
LastHop(m, n) == {<<m, Stack(host)[i]>> : i \in {Len(Stack(host))} \intersect 1..n}
HopsTo(m, n) == {<<m, Stack(host)[i]>> : i \in 1..n}
GetContext ==
  /\ stage = "bound"
  /\ \/ /\ ServiceGone /\ stage' = "failed" /\ UNCHANGED <<context, contextOf, serviceVars, gets, mishaps>>
     \/ /\ ~ServiceGone /\ gets < MaxGets /\ gets' = gets + 1
        /\ \E n \in 0..Len(Stack(host)) :
             /\ known' = known \union HopsTo(parent, n)
             /\ held' = [k \in Keys2 |-> IF k \in HopsTo(parent, n) THEN held[k] + 1 ELSE held[k]]
             /\ IF n = Len(Stack(host))
                THEN context' = "live" /\ contextOf' = host /\ stage' = "connected" /\ UNCHANGED mishaps
                ELSE /\ <<parent, Stack(host)[n + 1]>> \notin known      \* the next hop refuses
                     /\ mishaps < MaxMishaps /\ mishaps' = mishaps + 1
                     /\ stage' = "failed" /\ UNCHANGED <<context, contextOf>>
  /\ UNCHANGED <<via, host, binding, modelVars, muxDown, refused>>

\* close(), also by the destructor: an error of the put leaves everything as it is.
CloseAs(next) ==
  \/ /\ context # "none" /\ ServiceGone /\ stage' = "failed" /\ UNCHANGED <<context, held, binding, modelVars, refused>>
  \/ /\ context = "none" \/ ~ServiceGone
     /\ PutConnection /\ stage' = next /\ binding' = FALSE
     /\ IF binding THEN BindingClose ELSE UNCHANGED <<modelVars, refused>>
Close ==
  /\ stage \in {"idle", "connected", "failed"} /\ CloseAs("idle")
  /\ UNCHANGED <<via, host, contextOf, known, gets, mishaps, muxDown>>
\* A call fails with ChannelError, or reset_connection: reset() closes, then binds anew.
ResetConnection ==
  /\ stage = "connected" \/ (stage = "idle" /\ ~Cyclic(host))
  /\ CloseAs("resetting")
  /\ UNCHANGED <<via, host, contextOf, known, gets, mishaps, muxDown>>
\* ContextService.reset() shuts the context down, whoever holds references; what is behind it goes too.
ResetService ==
  /\ stage = "resetting" /\ stage' = "idle"
  /\ \/ /\ Unreachable(host) /\ Reconnectless /\ refused' = TRUE /\ UNCHANGED <<serviceVars, context>>
     \/ /\ ~Unreachable(host) /\ BindingClose /\ LoseAll(Through(MuxFor(host), host))
  /\ UNCHANGED <<via, host, binding, contextOf, gets, mishaps, muxDown>>

\* The target of a multiplexer or its connection dies; a multiplexer dies with all it knows.
Mishap == mishaps < MaxMishaps /\ mishaps' = mishaps + 1
TargetDies(m, h) ==
  /\ Mishap /\ <<m, h>> \in known /\ LoseAll(Through(m, h))
  /\ UNCHANGED <<via, host, stage, binding, contextOf, modelVars, gets, muxDown, refused>>
MuxDies(m) ==
  /\ Mishap /\ m \notin muxDown /\ muxDown' = muxDown \union {m} /\ LoseAll({k \in known : k[1] = m})
  /\ UNCHANGED <<via, host, stage, binding, contextOf, modelVars, gets, refused>>

PluginNext ==
  \/ \E h \in Hosts : OnActionRun(h)
  \/ Connect \/ GetContext \/ Close \/ ResetConnection \/ ResetService
  \/ \E m \in Muxes : MuxDies(m) \/ \E h \in Hosts : TargetDies(m, h)
PluginSpec == PluginInit /\ [][PluginNext]_plVars

-----------------------------------------------------------------------------
PluginTypeOK ==
  /\ stage \in {"idle", "bound", "connected", "resetting", "failed"} /\ host \in Hosts /\ contextOf \in Hosts
  /\ context \in {"none", "live", "stale"} /\ known \subseteq Keys2 /\ held \in [Keys2 -> 0..MaxGets]
  /\ parent \in Muxes \union {NoMux} /\ path \in Muxes \union {NoMux} /\ binding \in BOOLEAN /\ broker \in BOOLEAN

\* The services count one reference for the context that this worker uses, through delegation,
\* failure and reset, and none for those it is done with: else an interpreter would be recycled
\* under a running task, or never. Hops are the exception: each request adds a reference to every
\* hop, and only the last one is put back.
Used(k) == IF context = "live" /\ k = Key THEN 1 ELSE 0
RefsBalance ==
  \A k \in Keys2 : /\ held[k] >= Used(k) /\ (held[k] > 0 => k \in known)
                   /\ held[k] > Used(k) => \E h \in Hosts \ {k[2]} : MuxOf[h] = k[1] /\ k[2] \in Range(Stack(h))
\* A hop never has fewer references than there are contexts behind it that are in use: it is not
\* recycled under them.
HopsHeld == \A k \in Keys2 : Used(k) = 1 => \A h \in Range(Stack(k[2])) : held[<<k[1], h>>] > 0
\* A connected plug-in sends its requests to the multiplexer that holds its context.
ParentMatches == stage = "connected" => parent = MuxOf[contextOf] /\ path = parent /\ broker
\* No broker thread is left without a binding: workers forked later would inherit its descriptors.
\* An attempt that finds no multiplexer leaves one.
BrokerBound == broker => binding \/ stage \in {"resetting", "failed"} \/ refused
\* The hops of a connection are distinct, each reached through the one before.
StackSound ==
  stage = "bound" =>
    LET s == Stack(host) IN
    /\ s # << >> /\ s[Len(s)] = host /\ via[s[1]] = NoMux
    /\ \A i \in 1..Len(s) - 1 : via[s[i + 1]] = s[i] /\ \A j \in 1..i : s[j] # s[i + 1]

\* What the connection plug-in promises the services and the worker through delegation, failure
\* and reset: references that match their use, the right multiplexer, and no broker left running.
PluginSafe == PluginTypeOK /\ RefsBalance /\ HopsHeld /\ ParentMatches /\ BrokerBound /\ StackSound
=============================================================================
