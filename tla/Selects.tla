------------------------------ MODULE Selects -------------------------------
(* mitogen.select.Select over receivers that other threads fill: the thread that *)
(* owns the select adds the receivers one after another, while messages arrive,  *)
(* and then takes events until no receiver is left.  With oneshot a receiver is  *)
(* removed when it yields.                                                       *)
(*                                                                               *)
(* The latch of a receiver counts its messages, that of the select holds one     *)
(* receiver per notification.  Nested selects are left out.                      *)
EXTENDS Integers, Sequences, FiniteSets, SequencesExt

CONSTANTS Receivers, MaxPosts  \* bound: messages that arrive at a receiver
ASSUME SelectsAssumption == MaxPosts \in Nat \ {0} /\ "nobody" \notin Receivers

VARIABLES oneshot,   \* parameter of the select
          posts,     \* messages that arrive at each receiver in all
          posted,    \* those that did
          posting,   \* receivers whose poster has put a message and not notified yet
          queue,     \* messages in the latch of a receiver
          notify,    \* receivers whose notify is Select._put
          members,   \* Select._receivers
          removed,   \* receivers the owner took off by remove()
          tokens,    \* Select._latch
          owner,     \* what the owner is doing: <<step, receiver, count>>
          yielded,   \* messages returned by get_event()
          lost       \* messages taken from a receiver and not returned

selectVars == <<oneshot, posts, posted, posting, queue, notify, members, removed, tokens, owner, yielded, lost>>
Zero == [r \in Receivers |-> 0]
Nobody == "nobody"

SelectsInit ==
  /\ oneshot \in BOOLEAN /\ posts \in [Receivers -> 1..MaxPosts] /\ posted = Zero /\ posting = {}
  /\ queue = Zero /\ notify = {} /\ members = {} /\ removed = {} /\ tokens = <<>>
  /\ owner = <<"loop", Nobody, 0>> /\ yielded = Zero /\ lost = Zero

At(step) == owner[1] = step
Held == owner[2]

-----------------------------------------------------------------------------
\* Receiver._on_receive(): the message, then the notification if there is a notify.
Post(r) ==
  /\ posted[r] < posts[r] /\ r \notin posting
  /\ posted' = [posted EXCEPT ![r] = @ + 1] /\ queue' = [queue EXCEPT ![r] = @ + 1]
  /\ posting' = posting \cup {r}
  /\ UNCHANGED <<oneshot, posts, notify, members, removed, tokens, owner, yielded, lost>>
PostNotify(r) ==
  /\ r \in posting /\ posting' = posting \ {r}
  /\ tokens' = IF r \in notify THEN Append(tokens, r) ELSE tokens
  /\ UNCHANGED <<oneshot, removed, posts, posted, queue, notify, members, owner, yielded, lost>>

\* add(): the list, then notify, then the size of the receiver, then _put() as often.
Add(r) ==
  /\ At("loop") /\ r \notin members /\ yielded = Zero /\ lost = Zero
  /\ members' = members \cup {r} /\ owner' = <<"added", r, 0>>
  /\ UNCHANGED <<oneshot, removed, posts, posted, posting, queue, notify, tokens, yielded, lost>>
AddNotify ==
  /\ At("added") /\ notify' = notify \cup {Held} /\ owner' = <<"notifies", Held, 0>>
  /\ UNCHANGED <<oneshot, removed, posts, posted, posting, queue, members, tokens, yielded, lost>>
\* mutation: what the receiver held before it was added is not announced.
AddQuiet ==
  /\ At("notifies") /\ owner' = <<"puts", Held, 0>>
  /\ UNCHANGED <<oneshot, removed, posts, posted, posting, queue, notify, members, tokens, yielded, lost>>

AddSize ==
  /\ At("notifies") /\ owner' = <<"puts", Held, queue[Held]>>
  /\ UNCHANGED <<oneshot, removed, posts, posted, posting, queue, notify, members, tokens, yielded, lost>>
AddPut ==
  /\ At("puts")
  /\ IF owner[3] = 0 THEN owner' = <<"loop", Nobody, 0>> /\ UNCHANGED tokens
     ELSE owner' = <<"puts", Held, owner[3] - 1>> /\ tokens' = Append(tokens, Held)
  /\ UNCHANGED <<oneshot, removed, posts, posted, posting, queue, notify, members, yielded, lost>>

\* iter_events(): while receivers are left; get_event() waits for a notification.
Iterate ==
  /\ At("loop") /\ (members = Receivers \/ yielded # Zero \/ lost # Zero)
  /\ owner' = IF members = {} THEN <<"done", Nobody, 0>> ELSE <<"gets", Nobody, 0>>
  /\ UNCHANGED <<oneshot, removed, posts, posted, posting, queue, notify, members, tokens, yielded, lost>>
GetToken ==
  /\ At("gets") /\ tokens # <<>>
  /\ owner' = <<"holds", Head(tokens), 0>> /\ tokens' = Tail(tokens)
  /\ UNCHANGED <<oneshot, removed, posts, posted, posting, queue, notify, members, yielded, lost>>

\* mutation: an empty receiver ends the iteration.
TakeOrEnd ==
  /\ At("holds") /\ queue[Held] = 0 /\ owner' = <<"done", Nobody, 0>>
  /\ UNCHANGED <<oneshot, removed, posts, posted, posting, queue, notify, members, tokens, yielded, lost>>

\* get_event(): the receiver had been emptied, another notification is taken.
TakeNothing ==
  /\ At("holds") /\ queue[Held] = 0 /\ owner' = <<"gets", Nobody, 0>>
  /\ UNCHANGED <<oneshot, removed, posts, posted, posting, queue, notify, members, tokens, yielded, lost>>

\* mutation: the receiver keeps its notify when it is removed.
TakeListening ==
  /\ At("holds") /\ queue[Held] > 0
  /\ queue' = [queue EXCEPT ![Held] = @ - 1]
  /\ members' = IF oneshot THEN members \ {Held} ELSE members
  /\ yielded' = [yielded EXCEPT ![Held] = @ + 1] /\ owner' = <<"loop", Nobody, 0>>
  /\ UNCHANGED <<oneshot, removed, posts, posted, posting, notify, tokens, lost>>

\* get_event(): the message is taken; remove() raises when the receiver was removed
\* before, and the message goes with it.
TakeMessage ==
  /\ At("holds") /\ queue[Held] > 0
  /\ queue' = [queue EXCEPT ![Held] = @ - 1]
  /\ IF oneshot THEN members' = members \ {Held} /\ notify' = notify \ {Held} ELSE UNCHANGED <<members, notify>>
  /\ IF oneshot /\ Held \notin members
     THEN lost' = [lost EXCEPT ![Held] = @ + 1] /\ UNCHANGED yielded
     ELSE yielded' = [yielded EXCEPT ![Held] = @ + 1] /\ UNCHANGED lost
  /\ owner' = <<"loop", Nobody, 0>>
  /\ UNCHANGED <<oneshot, removed, posts, posted, posting, tokens>>

\* remove(), by the owner between two events.
RemoveReceiver(r) ==
  /\ At("loop") /\ yielded # Zero /\ r \in members
  /\ members' = members \ {r} /\ notify' = notify \ {r} /\ removed' = removed \cup {r}
  /\ UNCHANGED <<oneshot, posts, posted, posting, queue, tokens, owner, yielded, lost>>

Owner == AddNotify \/ AddSize \/ AddPut \/ Iterate \/ GetToken \/ TakeNothing \/ TakeMessage
         \/ \E r \in Receivers : Add(r)
Posters == \E r \in Receivers : Post(r) \/ PostNotify(r)
SelectsNext == Owner \/ Posters \/ \E r \in Receivers : RemoveReceiver(r)
SelectsSpec == SelectsInit /\ [][SelectsNext]_selectVars

-----------------------------------------------------------------------------
SelectsTypeOK ==
  /\ \A r \in Receivers : posted[r] = queue[r] + yielded[r] + lost[r]
  /\ notify \subseteq members /\ ToSet(tokens) \subseteq Receivers

\* Each message in a receiver that is a member is announced, or about to be: the
\* owner never sleeps on a message (add() against Receiver._on_receive()).
NoneOverlooked ==
  \A r \in notify : ~(At("notifies") /\ Held = r) =>
    queue[r] <= Cardinality({i \in DOMAIN tokens : tokens[i] = r})
                + (IF r \in posting THEN 1 ELSE 0) + (IF Held = r THEN owner[3] + 1 ELSE 0)

\* Gathering one message from each of several receivers ends, with all of them
\* (Select.all()), however their arrival overlaps with the construction.
One == [r \in Receivers |-> 1]
GatherEnds == (oneshot /\ posts = One) ~> (removed # {} \/ (At("done") /\ yielded = One))

\* A select that is not oneshot returns every message of its members.
EventsFlow == []<>(oneshot \/ At("done") \/ \A r \in Receivers : queue[r] = 0 \/ r \in removed)

\* What Select promises: no message of a member is overlooked while threads post and the owner
\* adds, removes and waits.
SelectsSafe == SelectsTypeOK /\ NoneOverlooked
=============================================================================
