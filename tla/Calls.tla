------------------------------- MODULE Calls --------------------------------
(* Function calls: mitogen.parent.CallChain on the side of the callers and      *)
(* mitogen.core.Dispatcher on the main thread of the target.  The calls of a    *)
(* pipelined chain are sent without waiting; once one of them raised, the       *)
(* dispatcher answers those that follow with its exception, until the chain is  *)
(* forgotten.                                                                   *)
(*                                                                              *)
(* Modules, functions and arguments are reduced to how a call comes out.        *)
EXTENDS Integers, Sequences, FiniteSets, SequencesExt, TLC

CONSTANTS Chains, Pipelined,  \* call chains, and those with a chain_id
          ChainCalls            \* bound: requests each chain makes
ASSUME CallsAssumption == Pipelined \subseteq Chains /\ ChainCalls \in [Chains -> Nat]

VARIABLES made,      \* requests a chain has made, resets included
          chainCalls,     \* Dispatcher.recv: requests in the order they arrive
          failed,    \* Dispatcher._error_by_chain_id: the request that raised
          executed,  \* what became of each request of a chain, in order
          replies,   \* answers sent: chain, number and the request that raised, or 0
          open       \* the receiver of the dispatcher is open

callsVars == <<made, chainCalls, failed, executed, replies, open>>

CallsInit ==
  /\ made = [c \in Chains |-> 0] /\ chainCalls = <<>> /\ failed = <<>>
  /\ executed = [c \in Chains |-> <<>>] /\ replies = {}
  /\ open = TRUE

-----------------------------------------------------------------------------
Request(c, kind) == [chain |-> c, number |-> made[c] + 1, kind |-> kind]

\* call_no_reply() and call_async(): the requests of all chains share the stream.
Make(c, kind) ==
  /\ made[c] < ChainCalls[c] /\ open
  /\ made' = [made EXCEPT ![c] = @ + 1] /\ chainCalls' = Append(chainCalls, Request(c, kind))
  /\ UNCHANGED <<failed, executed, replies, open>>
CallNoReply(c) == Make(c, "silent")
CallAsync(c) == Make(c, "call")

\* reset(): a call of forget_chain() that itself belongs to no chain.
Reset(c) == c \in Pipelined /\ Make(c, "forget")

Outcome(r, out) == executed' = [executed EXCEPT ![r.chain] = Append(@, [kind |-> r.kind, out |-> out])]
\* mutation: only what returned is answered.
ReplyResult(r, result) ==
  replies' = IF r.kind = "call" /\ result = 0 THEN replies \cup {[chain |-> r.chain, number |-> r.number, result |-> 0]} ELSE replies

\* The reply, where one is expected: msg.reply().
ReplyWith(r, result) ==
  replies' = IF r.kind = "call" THEN replies \cup {[chain |-> r.chain, number |-> r.number, result |-> result]} ELSE replies

\* What a call raises is kept under the identity of its chain.
KeepFailure(r) == failed' = [c \in DOMAIN failed \cup {r.chain} |-> IF c = r.chain THEN r.number ELSE failed[c]]

\* mutation: any chain that failed stops a call.
RefuseAny(r) ==
  /\ r.kind # "forget" /\ failed # <<>>
  /\ Outcome(r, "refused")
  /\ ReplyWith(r, failed[CHOOSE c \in DOMAIN failed : TRUE]) /\ UNCHANGED failed

\* _dispatch_one(): a chain that failed before gets that exception.
Refuse(r) ==
  /\ r.kind # "forget" /\ r.chain \in DOMAIN failed
  /\ Outcome(r, "refused") /\ ReplyWith(r, failed[r.chain]) /\ UNCHANGED failed

\* mutation: what raised is kept for calls without a chain as well.
ExecuteAll(r) ==
  /\ r.kind # "forget" /\ r.chain \notin DOMAIN failed
  /\ \/ Outcome(r, "returned") /\ ReplyWith(r, 0) /\ UNCHANGED failed
     \/ Outcome(r, "raised") /\ ReplyWith(r, r.number) /\ KeepFailure(r)

\* mutation: the last exception is kept, and answers go by it.
ExecuteOver(r) ==
  /\ r.kind # "forget"
  /\ \/ Outcome(r, "returned") /\ ReplyWith(r, 0) /\ UNCHANGED failed
     \/ /\ Outcome(r, "raised") /\ ReplyWith(r, r.number)
        /\ IF r.chain \in Pipelined THEN KeepFailure(r) ELSE UNCHANGED failed

\* _dispatch_one(): the function runs; what it raises is kept for the chain.
Execute(r) ==
  /\ r.kind # "forget" /\ r.chain \notin DOMAIN failed
  /\ \/ Outcome(r, "returned") /\ ReplyWith(r, 0) /\ UNCHANGED failed
     \/ /\ Outcome(r, "raised") /\ ReplyWith(r, r.number)
        /\ IF r.chain \in Pipelined THEN KeepFailure(r) ELSE UNCHANGED failed

\* _parse_request() raises (the module cannot be imported, the function is not
\* there): the chain is not known yet, so nothing is kept for it.
Unparsed(r) ==
  /\ r.kind # "forget"
  /\ Outcome(r, "unparsed") /\ ReplyWith(r, r.number) /\ UNCHANGED failed

\* forget_chain()
ForgetChain(r) ==
  /\ r.kind = "forget" /\ failed' = [c \in DOMAIN failed \ {r.chain} |-> failed[c]]
  /\ Outcome(r, "forgot") /\ UNCHANGED replies

\* _dispatch_calls(): one request after another, on the main thread.
DispatchCall ==
  /\ open /\ chainCalls # <<>> /\ chainCalls' = Tail(chainCalls)
  /\ LET r == Head(chainCalls) IN Refuse(r) \/ Execute(r) \/ Unparsed(r) \/ ForgetChain(r)
  /\ UNCHANGED <<made, open>>

\* _on_broker_shutdown() closes the receiver: no request is taken after that, and
\* the disconnection answers the callers (see Handlers).
DispatcherCloses ==
  /\ open /\ open' = FALSE
  /\ UNCHANGED <<made, chainCalls, failed, executed, replies>>

CallsNext ==
  \/ \E c \in Chains : CallNoReply(c) \/ CallAsync(c) \/ Reset(c)
  \/ DispatchCall \/ DispatcherCloses
CallsSpec == CallsInit /\ [][CallsNext]_callsVars

-----------------------------------------------------------------------------
Outs(c) == {executed[c][i].out : i \in DOMAIN executed[c]}

CallsTypeOK ==
  /\ \A c \in Chains : Len(executed[c]) <= made[c] /\ Outs(c) \subseteq {"returned", "raised", "refused", "unparsed", "forgot"}
  /\ DOMAIN failed \subseteq Pipelined
  /\ \A a, b \in replies : a.chain = b.chain /\ a.number = b.number => a = b

\* After a call of a pipelined chain came out as one of outs, none of the chain's calls
\* behind it runs until the chain is forgotten.
StopsAfter(outs) ==
  \A c \in Pipelined : \A i, j \in DOMAIN executed[c] :
    i < j /\ executed[c][i].out \in outs /\ executed[c][j].out \in {"returned", "raised"}
      => \E k \in i..j : executed[c][k].out = "forgot"

\* An exception that a function raised stops its chain (core.py:3665-3675).
ChainStops == StopsAfter({"raised"})

\* The docstring of Dispatcher (core.py:3601-3603): "any exception that occurs is recorded, and
\* causes all subsequent calls with the same `chain_id` to fail with the same exception"; that
\* of CallChain (parent.py:1766-1769): "no further calls execute until reset() is invoked".
AnyFailureStops == StopsAfter({"raised", "unparsed"})

\* A call is refused only for an exception of its own chain, with that exception.
RefusedForOwn ==
  \A c \in Chains : \A j \in DOMAIN executed[c] : executed[c][j].out = "refused" =>
    \E i \in 1..(j - 1) :
      /\ executed[c][i].out = "raised" /\ \A k \in i..j : executed[c][k].out # "forgot"
      /\ \A a \in replies : a.chain = c /\ a.number = j => a.result = i

\* Every call with a reply is answered, unless the dispatcher closes first.
CallsReturn ==
  []<>(~open \/ (chainCalls = <<>> /\ \A c \in Chains : \A i \in DOMAIN executed[c] :
                    executed[c][i].kind = "call" => \E a \in replies : a.chain = c /\ a.number = i))

\* What CallChain and Dispatcher keep: after an exception of a function the rest of its own chain
\* is refused with it, until a reset.
CallsSafe == CallsTypeOK /\ ChainStops /\ RefusedForOwn
=============================================================================
