------------------------------ MODULE Imports -------------------------------
(* How a context imports a module it does not have: mitogen.core.Importer asks *)
(* the parent, mitogen.parent.ModuleForwarder answers from its own importer or *)
(* asks further up, mitogen.master.ModuleResponder sends each module once per  *)
(* stream, with those it imports, and forward_modules() sends them unasked.    *)
(*                                                                             *)
(* Requests and answers of different modules share the streams; the threads of *)
(* a context share one importer.  The search for source code is ModuleSearch.  *)
EXTENDS Integers, Sequences

CONSTANTS ImportRoot, Contexts, Above,  \* a tree: Above[n] is the parent of n
          Importers, HomeOf,        \* threads that import, and where
          Modules, Related, Top,    \* Related[m]: imports of m, in order; Top[m]: its first component
          Preloads,                 \* pairs of a context and a module for forward_modules()
          Local, Blacklist,         \* pairs found on the context itself; modules no one may ask for
          Missing, Broken           \* no source is found; building the answer raises

\* Lineage[k]: k and those it is below.
Lineage ==
  [k \in Contexts |->
     {n \in Contexts \cup {ImportRoot} :
        \A S \in SUBSET (Contexts \cup {ImportRoot}) : k \in S /\ (\A j \in S \cap Contexts : Above[j] \in S) => n \in S}]

ASSUME ImportsAssumption ==
  /\ ImportRoot \notin Contexts /\ Above \in [Contexts -> Contexts \cup {ImportRoot}]
  /\ \A k \in Contexts : ImportRoot \in Lineage[k]
  /\ HomeOf \in [Importers -> Contexts] /\ Importers \cap Contexts = {} /\ "nothing" \notin Modules
  /\ Related \in [Modules -> Seq(Modules)] /\ Top \in [Modules -> Modules]
  /\ Preloads \cup Local \subseteq Contexts \X Modules /\ Blacklist \subseteq Modules /\ Missing \subseteq Modules /\ Broken \subseteq Modules

VARIABLES attached,   \* contexts whose stream is up
          cache,      \* Importer._cache: "none", "good" or "bad"
          callbacks,  \* Importer._callbacks: threads and child contexts that wait
          sentMods,   \* MitogenProtocol.sent_modules of the stream to n
          upward,     \* GET_MODULE messages on their way from n
          downward,   \* LOAD_MODULE and FORWARD_MODULE on their way to n
          wants,      \* what a thread imports: a module, or "nothing"
          loads,      \* loads[n][m]: good LOAD_MODULE messages of m that n received
          preloaded   \* forward_modules() calls made

importsVars == <<attached, cache, callbacks, sentMods, upward, downward, wants, loads, preloaded>>

ImportsInit ==
  /\ attached = Contexts
  /\ cache = [n \in Contexts |-> [m \in Modules |-> "none"]]
  /\ callbacks = [n \in Contexts |-> [m \in Modules |-> {}]]
  /\ sentMods = [n \in Contexts |-> {}]
  /\ upward = [n \in Contexts |-> <<>>] /\ downward = [n \in Contexts |-> <<>>]
  /\ wants = [t \in Importers |-> "nothing"]
  /\ loads = [n \in Contexts |-> [m \in Modules |-> 0]]
  /\ preloaded = {}

ImportsTypeOK ==
  /\ attached \subseteq Contexts
  /\ cache \in [Contexts -> [Modules -> {"none", "good", "bad"}]]
  /\ \A n \in Contexts : \A m \in Modules :
       callbacks[n][m] \subseteq {t \in Importers : HomeOf[t] = n /\ wants[t] = m}
                                   \cup {k \in Contexts : Above[k] = n}
  /\ sentMods \in [Contexts -> SUBSET Modules]

-----------------------------------------------------------------------------
(* ModuleResponder, on the broker of the master *)
Load(m, as) == [kind |-> "load", mod |-> m, as |-> as]

\* mutation: blacklisted modules stay among the imports of others.
ListedAny(m) == TRUE

\* _build_tuple(): a module without source gets a negative answer; a blacklisted
\* one is refused by an exception, and left out of the modules others import.
Build(m) == IF m \in Missing THEN "bad" ELSE "good"
Listed(m) == m \notin Blacklist

\* mutation: what was sent is not remembered.
SendLoadAgain(s, m) ==
  IF m \in s.sent THEN s
  ELSE IF m \in Broken \cup Blacklist THEN [s EXCEPT !.raised = TRUE]
  ELSE [s EXCEPT !.out = Append(@, Load(m, Build(m)))]

\* _send_load_module(): once per stream.
SendLoad(s, m) ==
  IF m \in s.sent THEN s
  ELSE IF m \in Broken \cup Blacklist THEN [s EXCEPT !.raised = TRUE]
  ELSE [s EXCEPT !.out = Append(@, Load(m, Build(m))), !.sent = @ \cup {m}]

\* _send_module_and_related(): a submodule of a package not sent yet is skipped;
\* an exception makes the answer negative.
SendRelated(sent, m) ==
  LET start == [sent |-> sent, out |-> <<>>, raised |-> m \in Broken \cup Blacklist]
      skips(s, r) == s.raised \/ ~Listed(r) \/ (Top[r] # m /\ Top[r] \notin s.sent)
      after[k \in 0..Len(Related[m])] ==
        IF k = 0 THEN start
        ELSE IF skips(after[k - 1], Related[m][k]) THEN after[k - 1] ELSE SendLoad(after[k - 1], Related[m][k])
      imports == IF m \in Missing THEN start ELSE after[Len(Related[m])]
      all == IF imports.raised THEN imports ELSE SendLoad(imports, m)
  IN IF m \in sent THEN [start EXCEPT !.raised = FALSE]
     ELSE IF all.raised THEN [all EXCEPT !.out = Append(@, Load(m, "bad"))] ELSE all

Child(n, k) == Above[k] = n /\ k \in attached
\* The stream of n towards its descendant k: the child of n that k is or is below.
Towards(n, k) == CHOOSE j \in Contexts \cap Lineage[k] : Above[j] = n

\* _on_get_module() of the master.
MasterGetModule(k) ==
  /\ Child(ImportRoot, k) /\ upward[k] # <<>>
  /\ LET s == SendRelated(sentMods[k], Head(upward[k]))
     IN /\ downward' = [downward EXCEPT ![k] = @ \o s.out]
        /\ sentMods' = [sentMods EXCEPT ![k] = s.sent]
  /\ upward' = [upward EXCEPT ![k] = Tail(@)]
  /\ UNCHANGED <<attached, cache, callbacks, wants, loads, preloaded>>

\* mutation: the order to pass a module on goes first.
OrderFirst(s, m, k, through) ==
  LET r == SendRelated(s.sent, m)
      order == IF through = k THEN <<>> ELSE <<[kind |-> "forward", mod |-> m, to |-> k]>>
  IN [sent |-> r.sent, out |-> s.out \o order \o r.out]

\* _forward_one_module(): the packages m is in, then m, each hop told to pass them on.
ForwardOne(s, m, k, through) ==
  LET r == SendRelated(s.sent, m)
      order == IF through = k THEN <<>> ELSE <<[kind |-> "forward", mod |-> m, to |-> k]>>
  IN [sent |-> r.sent, out |-> s.out \o r.out \o order]

\* forward_modules(): what a service knows a context will need is sent unasked.
ForwardModules(k, m) ==
  LET j == Towards(ImportRoot, k)
      start == [sent |-> sentMods[j], out |-> <<>>]
      package == IF Top[m] = m THEN start ELSE ForwardOne(start, Top[m], k, j)
      s == ForwardOne(package, m, k, j)
  IN
  /\ <<k, m>> \in Preloads \ preloaded /\ j \in attached
  /\ preloaded' = preloaded \cup {<<k, m>>}
  /\ downward' = [downward EXCEPT ![j] = @ \o s.out]
  /\ sentMods' = [sentMods EXCEPT ![j] = s.sent]
  /\ UNCHANGED <<attached, cache, callbacks, upward, wants, loads>>

-----------------------------------------------------------------------------
(* Importer and ModuleForwarder *)
\* mutation: who asks while a request is in flight is not added to those who wait.
NotAdded(n, m, who) ==
  /\ callbacks' = IF callbacks[n][m] # {} THEN callbacks ELSE [callbacks EXCEPT ![n][m] = {who}]
  /\ upward' = IF callbacks[n][m] # {} THEN upward ELSE [upward EXCEPT ![n] = Append(@, m)]

\* Importer._request_module(): one request per module is in flight.
Request(n, m, who) ==
  /\ callbacks' = [callbacks EXCEPT ![n][m] = @ \cup {who}]
  /\ upward' = IF callbacks[n][m] # {} THEN upward ELSE [upward EXCEPT ![n] = Append(@, m)]

\* ModuleForwarder._send_one_module(): what is here, once per stream.
SendOne(c, s, r) ==
  IF c[r] = "none" \/ r \in s.sent THEN s
  ELSE [out |-> Append(s.out, Load(r, c[r])), sent |-> s.sent \cup {r}]

\* ModuleForwarder._send_module_and_related(), from a cache: what m imports, then m.
FromCache(c, sent, m) ==
  LET start == [out |-> <<>>, sent |-> sent]
      after[k \in 0..Len(Related[m])] ==
        IF k = 0 THEN start
        ELSE IF Listed(Related[m][k]) THEN SendOne(c, after[k - 1], Related[m][k]) ELSE after[k - 1]
  IN SendOne(c, IF c[m] = "good" THEN after[Len(Related[m])] ELSE start, m)

\* Importer.find_module(): a submodule only of a package that came from the parent;
\* what the context has itself is not asked for.
FindModule(n, m) == /\ Top[m] # m => cache[n][Top[m]] = "good"
                    /\ <<n, m>> \notin Local

\* _refuse_imports()
RefuseImports(m) == m \in Blacklist

\* A thread imports m: load_module() waits for the answer unless it is cached.
LoadModule(t, m) ==
  LET n == HomeOf[t] IN
  /\ n \in attached /\ wants[t] = "nothing"
  /\ FindModule(n, m) /\ ~RefuseImports(m)
  /\ wants' = IF cache[n][m] = "none" THEN [wants EXCEPT ![t] = m] ELSE wants
  /\ IF cache[n][m] = "none" THEN Request(n, m, t) ELSE UNCHANGED <<callbacks, upward>>
  /\ UNCHANGED <<attached, cache, sentMods, downward, loads, preloaded>>

\* ModuleForwarder._on_get_module()
OnGetModule(k) ==
  LET n == Above[k]
      m == Head(upward[k])
      s == FromCache(cache[n], sentMods[k], m)
      rest == [upward EXCEPT ![k] = Tail(@)]
  IN
  /\ n \in attached /\ Child(n, k) /\ upward[k] # <<>>
  /\ IF cache[n][m] # "none"
     THEN /\ downward' = [downward EXCEPT ![k] = @ \o s.out]
          /\ sentMods' = [sentMods EXCEPT ![k] = s.sent]
          /\ upward' = rest /\ UNCHANGED callbacks
     ELSE /\ callbacks' = [callbacks EXCEPT ![n][m] = @ \cup {k}]
          /\ upward' = IF callbacks[n][m] # {} THEN rest ELSE [rest EXCEPT ![n] = Append(@, m)]
          /\ UNCHANGED <<downward, sentMods>>
  /\ UNCHANGED <<attached, cache, wants, loads, preloaded>>

\* mutation: those who waited stay on the list.
CallbacksKept(n) ==
  /\ n \in attached /\ downward[n] # <<>> /\ Head(downward[n]).kind = "load"
  /\ cache' = [cache EXCEPT ![n][Head(downward[n]).mod] = Head(downward[n]).as]
  /\ wants' = [t \in Importers |-> IF t \in callbacks[n][Head(downward[n]).mod] THEN "nothing" ELSE wants[t]]
  /\ downward' = [downward EXCEPT ![n] = Tail(@)]
  /\ UNCHANGED <<attached, callbacks, sentMods, upward, loads, preloaded>>

\* Importer._on_load_module(): the module is cached and everyone who waits for it
\* is served: threads wake up, children are sent the module and what it imports.
OnLoadModule(n) ==
  /\ n \in attached /\ downward[n] # <<>> /\ Head(downward[n]).kind = "load"
  /\ LET msg == Head(downward[n])
         m == msg.mod
         c == [cache[n] EXCEPT ![m] = msg.as]
         kids == {k \in callbacks[n][m] \cap Contexts : Child(n, k)}
         to(k) == FromCache(c, sentMods[k], m)
     IN
       /\ cache' = [cache EXCEPT ![n] = c]
       /\ callbacks' = [callbacks EXCEPT ![n][m] = {}]
       /\ wants' = [t \in Importers |-> IF t \in callbacks[n][m] THEN "nothing" ELSE wants[t]]
       /\ downward' = [k \in Contexts |-> IF k = n THEN Tail(downward[n])
                                          ELSE IF k \in kids THEN downward[k] \o to(k).out ELSE downward[k]]
       /\ sentMods' = [k \in Contexts |-> IF k \in kids THEN to(k).sent ELSE sentMods[k]]
       /\ loads' = IF msg.as = "good" THEN [loads EXCEPT ![n][m] = @ + 1] ELSE loads
  /\ UNCHANGED <<attached, upward, preloaded>>

\* ModuleForwarder._on_forward_module()
OnForwardModule(n) ==
  /\ n \in attached /\ downward[n] # <<>> /\ Head(downward[n]).kind = "forward"
  /\ LET msg == Head(downward[n])
         k == Towards(n, msg.to)
         s == FromCache(cache[n], sentMods[k], msg.mod)
         pass == k \in attached /\ msg.mod \notin sentMods[k]
         order == IF k = msg.to THEN <<>> ELSE <<msg>>
     IN
       /\ downward' = [downward EXCEPT ![n] = Tail(@), ![k] = IF pass THEN @ \o s.out \o order ELSE @]
       /\ sentMods' = IF pass THEN [sentMods EXCEPT ![k] = s.sent] ELSE sentMods
  /\ UNCHANGED <<attached, cache, callbacks, upward, wants, loads, preloaded>>

\* A context disconnects, with those below it.
Detach(n) ==
  /\ n \in attached /\ \A k \in attached : Above[k] # n
  /\ attached' = attached \ {n}
  /\ UNCHANGED <<cache, callbacks, sentMods, upward, downward, wants, loads, preloaded>>

-----------------------------------------------------------------------------
Brokers == \E n \in Contexts : \/ MasterGetModule(n) \/ OnLoadModule(n) \/ OnForwardModule(n)
                               \/ Above[n] # ImportRoot /\ OnGetModule(n)

ImportsNext == \/ Brokers
               \/ \E t \in Importers, m \in Modules : LoadModule(t, m)
               \/ \E n \in Contexts : Detach(n) \/ \E m \in Modules : ForwardModules(n, m)
ImportsSpec == ImportsInit /\ [][ImportsNext]_importsVars

-----------------------------------------------------------------------------
\* An import ends, however its request is merged with others on the way and
\* whatever was sent before, unless the context loses its parent.
ImportEnds ==
  \A t \in Importers : (wants[t] # "nothing") ~> (wants[t] = "nothing" \/ HomeOf[t] \notin attached)

\* A context is sent the code of a module once, whoever asks for it or forwards it.
SentOnce == \A n \in Contexts : \A m \in Modules : loads[n][m] <= 1

\* A hop told to pass a module on has it: it was sent before on the same stream.
ForwardFinds ==
  \A n \in attached : downward[n] # <<>> /\ Head(downward[n]).kind = "forward" =>
    cache[n][Head(downward[n]).mod] # "none"

\* A module is not reported missing unless the master cannot build it or one of the
\* modules it imports, or a service sent it although it is blacklisted.
Unbuilt(m) == m \in Missing \cup Broken \/ \E i \in DOMAIN Related[m] : Related[m][i] \in Broken
Unasked(m) == m \in Blacklist /\ \E p \in preloaded : m \in {p[2], Top[p[2]]}
NoFalseMiss ==
  \A t \in Importers : \A m \in Modules : cache[HomeOf[t]][m] = "bad" => Unbuilt(m) \/ Unasked(m)

\* What the importers, forwarders and the responder of a chain of contexts promise together:
\* a module that exists is never reported missing, and each stream carries it once.
ImportsSafe == ImportsTypeOK /\ SentOnce /\ ForwardFinds /\ NoFalseMiss
=============================================================================
