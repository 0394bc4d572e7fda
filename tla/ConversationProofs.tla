------------------------- MODULE ConversationProofs -------------------------
(***************************************************************************)
(* Theorems about the conversations between a process and its parent, for  *)
(* any processes: about IDs (IdAllocator), a password (Login) and modules  *)
(* (Imports).                                                              *)
(***************************************************************************)
EXTENDS IdAllocator, Login, Imports, SequenceLemmas, SequenceTheorems, NaturalsInduction, TLAPS

-----------------------------------------------------------------------------
(* IdAllocator: requests for IDs                                            *)

\* A child asks for a block only once its range is empty, and has either a request
\* or a block under way; with its lock free and the master in reach, neither.
Flow == \A c \in Children :
          /\ c \in requests \/ reply[c] # <<>> => Empty(it[c])
          /\ ~(c \in requests /\ reply[c] # <<>>)
          /\ c \in connected /\ lock[c] = None => c \notin requests /\ reply[c] = <<>>

IdInv == IdTypeOK /\ Flow /\ Apart

LEMMA RangeFields ==
  ASSUME NEW r \in Ranges
  PROVE  r.lo \in Nat /\ r.hi \in Nat /\ r.lo <= r.hi
  BY DEF Ranges

\* A range that is not empty, less its first ID.
LEMMA CutRange ==
  ASSUME NEW r \in Ranges, ~Empty(r), NEW q, q = [r EXCEPT !.lo = r.lo + 1]
  PROVE  /\ q \in Ranges
         /\ q.lo = r.lo + 1 /\ q.hi = r.hi
         /\ r.lo < r.hi
<1>1. r.lo \in Nat /\ r.hi \in Nat /\ r.lo < r.hi
  BY RangeFields DEF Empty
<1>2. q.lo = r.lo + 1 /\ q.hi = r.hi
  BY DEF Ranges
<1>3. q \in [lo : Nat, hi : Nat]
  <2>1. r \in [lo : Nat, hi : Nat] /\ r.lo + 1 \in Nat
    BY <1>1 DEF Ranges
  <2> QED
    BY <2>1
<1>4. q.lo <= q.hi
  BY <1>1, <1>2
<1> QED
  BY <1>1, <1>2, <1>3, <1>4 DEF Ranges

\* What allocate() does in a child that has an ID left.
LEMMA ChildIssues ==
  ASSUME IdTypeOK, NEW t \in IdThreads, NEW c, c = Home[t], AllocateChild(t)
  PROVE  /\ c \in Children /\ it[c] \in Ranges /\ ~Empty(it[c])
         /\ it[c].lo \in Nat /\ it[c].hi \in Nat /\ it[c].lo < it[c].hi
         /\ issued' = Append(issued, it[c].lo)
         /\ it' \in [Children -> Ranges]
         /\ it'[c].lo = it[c].lo + 1 /\ it'[c].hi = it[c].hi
         /\ \A d \in Children \ {c} : it'[d] = it[d]
         /\ idPc' = [idPc EXCEPT ![t] = "idle"]
         /\ UNCHANGED <<next, lock, network, calls>>
<1>1. /\ c \in Children /\ ~Empty(it[c])
      /\ issued' = Append(issued, it[c].lo)
      /\ it' = [it EXCEPT ![c] = [it[c] EXCEPT !.lo = it[c].lo + 1]]
      /\ idPc' = [idPc EXCEPT ![t] = "idle"]
      /\ UNCHANGED <<next, lock, network, calls>>
  BY DEF AllocateChild
<1>2. it \in [Children -> Ranges]
  BY DEF IdTypeOK
<1>3. it[c] \in Ranges
  BY <1>1, <1>2
<1>4. /\ it'[c] = [it[c] EXCEPT !.lo = it[c].lo + 1]
      /\ \A d \in Children \ {c} : it'[d] = it[d]
  BY <1>1, <1>2
<1>5. it'[c] \in Ranges /\ it'[c].lo = it[c].lo + 1 /\ it'[c].hi = it[c].hi /\ it[c].lo < it[c].hi
  BY <1>1, <1>3, <1>4, CutRange
<1>6. it' \in [Children -> Ranges]
  BY <1>1, <1>2, <1>4, <1>5
<1> QED
  BY <1>1, <1>3, <1>4, <1>5, <1>6, RangeFields

LEMMA InitId == IdInit => IdInv
<1> SUFFICES ASSUME IdInit PROVE IdInv
  OBVIOUS
<1> USE IdAssumption DEF IdAssumption, IdInit
<1>1. IdTypeOK
  <2>1. [lo |-> 0, hi |-> 0] \in Ranges
    BY DEF Ranges
  <2> QED
    BY <2>1 DEF IdTypeOK
<1>2. Flow
  BY DEF Flow, Empty
<1>3. Apart
  <2>1. \A c \in Children : \A r \in Stock(c) : Empty(r)
    BY DEF Stock, Empty
  <2> QED
    BY <2>1 DEF Apart
<1> QED
  BY <1>1, <1>2, <1>3 DEF IdInv

LEMMA TypeStep ==
  ASSUME IdTypeOK, [IdNext]_idVars
  PROVE  IdTypeOK'
<1> USE IdAssumption DEF IdAssumption, IdTypeOK
<1>1. CASE UNCHANGED idVars
  BY <1>1 DEF idVars, network
<1>2. ASSUME NEW t \in IdThreads, Call(t)
      PROVE  IdTypeOK'
  BY <1>2 DEF Call, network
<1>3. ASSUME NEW t \in IdThreads, Serve(t)
      PROVE  IdTypeOK'
  <2>1. CASE Allocate(t)
    BY <2>1 DEF Allocate, network
  <2>2. CASE AllocateChild(t)
    <3>1. /\ it' \in [Children -> Ranges]
          /\ idPc' = [idPc EXCEPT ![t] = "idle"]
          /\ UNCHANGED <<next, lock, network, calls>>
      BY <2>2, ChildIssues
    <3>2. issued' \in Seq(Nat)
      <4>1. it[Home[t]].lo \in Nat /\ issued' = Append(issued, it[Home[t]].lo)
        BY <2>2, ChildIssues
      <4> QED
        BY <4>1
    <3> QED
      BY <3>1, <3>2 DEF network
  <2>3. CASE RequestBlock(t)
    BY <2>3 DEF RequestBlock
  <2>4. CASE ReceiveBlock(t)
    BY <2>4 DEF ReceiveBlock, Unlocked
  <2>5. CASE ChannelLost(t)
    BY <2>5 DEF ChannelLost, Unlocked
  <2> QED
    BY <1>3, <2>1, <2>2, <2>3, <2>4, <2>5 DEF Serve
<1>4. ASSUME NEW c \in Children, OnAllocateId(c)
      PROVE  IdTypeOK'
  <2>1. [lo |-> next, hi |-> BlockEnd(next)] \in Ranges
    BY DEF Ranges, BlockEnd
  <2> QED
    BY <2>1, <1>4 DEF OnAllocateId
<1>5. ASSUME NEW c \in Children, Disconnect(c)
      PROVE  IdTypeOK'
  BY <1>5 DEF Disconnect
<1> QED
  BY <1>1, <1>2, <1>3, <1>4, <1>5 DEF IdNext

LEMMA FlowStep ==
  ASSUME IdTypeOK, Flow, [IdNext]_idVars
  PROVE  Flow'
<1> USE IdAssumption DEF IdAssumption, IdTypeOK, Flow
<1>1. CASE UNCHANGED idVars
  BY <1>1 DEF idVars, network
<1>2. ASSUME NEW t \in IdThreads, Call(t)
      PROVE  Flow'
  BY <1>2 DEF Call, network
<1>3. ASSUME NEW t \in IdThreads, Serve(t)
      PROVE  Flow'
  <2>1. CASE Allocate(t)
    BY <2>1 DEF Allocate, network
  <2>2. CASE AllocateChild(t)
    <3>1. /\ ~Empty(it[Home[t]])
          /\ \A c \in Children \ {Home[t]} : it'[c] = it[c]
          /\ UNCHANGED <<lock, connected, requests, reply>>
      BY <2>2 DEF AllocateChild, network
    <3> QED
      BY <3>1
  <2>3. CASE RequestBlock(t)
    BY <2>3 DEF RequestBlock
  <2>4. CASE ReceiveBlock(t)
    BY <2>4 DEF ReceiveBlock, Unlocked
  <2>5. CASE ChannelLost(t)
    BY <2>5 DEF ChannelLost, Unlocked
  <2> QED
    BY <1>3, <2>1, <2>2, <2>3, <2>4, <2>5 DEF Serve
<1>4. ASSUME NEW c \in Children, OnAllocateId(c)
      PROVE  Flow'
  BY <1>4 DEF OnAllocateId
<1>5. ASSUME NEW c \in Children, Disconnect(c)
      PROVE  Flow'
  BY <1>5 DEF Disconnect
<1> QED
  BY <1>1, <1>2, <1>3, <1>4, <1>5 DEF IdNext

-----------------------------------------------------------------------------
(* Ranges stay apart *)

Disjoint(r, q) == r.hi <= q.lo \/ q.hi <= r.lo
Sub(r, q) == q.lo <= r.lo /\ r.hi <= q.hi

\* Parts of disjoint ranges are disjoint.
LEMMA SubDisjoint ==
  ASSUME NEW r \in Ranges, NEW q \in Ranges, NEW r1 \in Ranges, NEW q1 \in Ranges,
         Sub(r, r1), Sub(q, q1), Disjoint(r1, q1)
  PROVE  Disjoint(r, q)
  BY DEF Ranges, Sub, Disjoint

LEMMA StockType ==
  ASSUME IdTypeOK, NEW c \in Children, NEW r \in Stock(c)
  PROVE  r \in Ranges
  BY DEF IdTypeOK, Stock

\* Moving ranges within a child, dropping them or cutting them keeps them apart, and
\* so does issuing an ID that is in none of them.
LEMMA ApartKept ==
  ASSUME IdTypeOK, IdTypeOK', Apart, next <= next',
         \A i \in DOMAIN issued' :
           \/ i \in DOMAIN issued /\ issued'[i] = issued[i]
           \/ /\ issued'[i] < next'
              /\ \A c \in Children : \A r \in Stock(c)' : ~Empty(r) => ~Within(issued'[i], r),
         \A c \in Children : \A r \in Stock(c)' : ~Empty(r) =>
           \E q \in Stock(c) : ~Empty(q) /\ Sub(r, q)
  PROVE  Apart'
<1>1. ASSUME NEW c \in Children, NEW r \in Stock(c)', ~Empty(r)
      PROVE  /\ r \in Ranges
             /\ \E q \in Stock(c) : ~Empty(q) /\ Sub(r, q) /\ q \in Ranges
  BY <1>1, StockType DEF IdTypeOK, Stock
<1>2. next \in Nat /\ next' \in Nat /\ \A i \in DOMAIN issued : issued[i] \in Nat
  BY DEF IdTypeOK
<1>3. \A i \in DOMAIN issued' : issued'[i] < next'
  <2> SUFFICES ASSUME NEW i \in DOMAIN issued'
               PROVE  issued'[i] < next'
    OBVIOUS
  <2>1. CASE i \in DOMAIN issued /\ issued'[i] = issued[i]
    <3>1. issued[i] < next
      BY <2>1 DEF Apart
    <3> QED
      BY <3>1, <2>1, <1>2
  <2> QED
    BY <2>1
<1>4. ASSUME NEW c \in Children, NEW r \in Stock(c)', ~Empty(r)
      PROVE  r.hi <= next' /\ \A i \in DOMAIN issued' : ~Within(issued'[i], r)
  <2>1. PICK q \in Stock(c) : ~Empty(q) /\ Sub(r, q) /\ q \in Ranges
    BY <1>1, <1>4
  <2>2. r \in Ranges
    BY <1>1, <1>4
  <2>3. q.hi <= next /\ \A i \in DOMAIN issued : ~Within(issued[i], q)
    BY <2>1 DEF Apart
  <2>4. r.hi <= next'
    BY <2>1, <2>2, <2>3, <1>2 DEF Sub, Ranges
  <2>5. \A i \in DOMAIN issued : ~Within(issued[i], r)
    BY <2>1, <2>2, <2>3, <1>2 DEF Sub, Within, Ranges
  <2>6. \A i \in DOMAIN issued' : ~Within(issued'[i], r)
    BY <2>5, <1>4
  <2> QED
    BY <2>4, <2>6
<1>5. ASSUME NEW c \in Children, NEW r \in Stock(c)', ~Empty(r),
             NEW d \in Children \ {c}, NEW s \in Stock(d)', ~Empty(s)
      PROVE  r.hi <= s.lo \/ s.hi <= r.lo
  <2>1. PICK q \in Stock(c) : ~Empty(q) /\ Sub(r, q) /\ q \in Ranges
    BY <1>1, <1>5
  <2>2. PICK p \in Stock(d) : ~Empty(p) /\ Sub(s, p) /\ p \in Ranges
    BY <1>1, <1>5
  <2>3. Disjoint(q, p)
    BY <2>1, <2>2 DEF Apart, Disjoint
  <2>4. r \in Ranges /\ s \in Ranges
    BY <1>1, <1>5
  <2> QED
    BY <2>1, <2>2, <2>3, <2>4, SubDisjoint DEF Disjoint
<1> QED
  BY <1>3, <1>4, <1>5 DEF Apart

\* Steps that issue nothing and move only the blocks of one child.
LEMMA ApartMoved ==
  ASSUME IdTypeOK, IdTypeOK', Apart, UNCHANGED <<next, issued>>,
         \A c \in Children : \A r \in Stock(c)' : ~Empty(r) => r \in Stock(c)
  PROVE  Apart'
<1>1. next <= next'
  BY DEF IdTypeOK
<1>2. \A c \in Children : \A r \in Stock(c)' : ~Empty(r) =>
        \E q \in Stock(c) : ~Empty(q) /\ Sub(r, q)
  <2> SUFFICES ASSUME NEW c \in Children, NEW r \in Stock(c)', ~Empty(r)
               PROVE  r \in Stock(c) /\ Sub(r, r)
    OBVIOUS
  <2>1. r \in Stock(c) /\ r \in Ranges
    BY StockType
  <2> QED
    BY <2>1 DEF Sub, Ranges
<1> QED
  BY <1>1, <1>2, ApartKept

\* What issuing an ID appends.
LEMMA IssuedAppend ==
  ASSUME IdTypeOK, NEW id \in Nat, issued' = Append(issued, id)
  PROVE  \A i \in DOMAIN issued' :
           (i \in DOMAIN issued /\ issued'[i] = issued[i]) \/ issued'[i] = id
  BY DEF IdTypeOK

LEMMA ApartAllocate ==
  ASSUME IdTypeOK, IdTypeOK', Apart, NEW t \in IdThreads, Allocate(t)
  PROVE  Apart'
<1>1. /\ next \in Nat /\ next' = next + 1
      /\ issued' = Append(issued, next)
      /\ \A c \in Children : Stock(c)' = Stock(c)
  BY DEF IdTypeOK, Allocate, network, Stock
<1>2. \A c \in Children : \A r \in Stock(c) : ~Empty(r) => ~Within(next, r) /\ Sub(r, r)
  <2> SUFFICES ASSUME NEW c \in Children, NEW r \in Stock(c), ~Empty(r)
               PROVE  ~Within(next, r) /\ Sub(r, r)
    OBVIOUS
  <2>1. r \in Ranges /\ r.hi <= next
    BY StockType DEF Apart
  <2> QED
    BY <2>1, <1>1 DEF Within, Sub, Ranges
<1>3. next <= next' /\ next < next'
  BY <1>1
<1> QED
  BY <1>1, <1>2, <1>3, IssuedAppend, ApartKept

LEMMA ApartAllocateChild ==
  ASSUME IdTypeOK, IdTypeOK', Flow, Apart, NEW t \in IdThreads, AllocateChild(t)
  PROVE  Apart'
<1> DEFINE c == Home[t]
           id == it[c].lo
<1> HIDE DEF c
<1>1. /\ c \in Children /\ it[c] \in Ranges /\ ~Empty(it[c])
      /\ id \in Nat /\ it[c].hi \in Nat /\ id < it[c].hi
      /\ issued' = Append(issued, id)
      /\ it'[c].lo = id + 1 /\ it'[c].hi = it[c].hi
      /\ \A d \in Children \ {c} : it'[d] = it[d]
      /\ UNCHANGED <<next, reply>>
  BY ChildIssues DEF network, c
<1>3. reply[c] = <<>>
  BY <1>1 DEF Flow
<1>4. /\ \A r \in Stock(c)' : r = it'[c]
      /\ \A d \in Children \ {c} : Stock(d)' = Stock(d)
  BY <1>1, <1>3 DEF Stock
<1>5. it[c] \in Stock(c) /\ it[c].hi <= next
  BY <1>1 DEF Stock, Apart
<1>6. ASSUME NEW d \in Children, NEW r \in Stock(d)', ~Empty(r)
      PROVE  /\ ~Within(id, r)
             /\ \E q \in Stock(d) : ~Empty(q) /\ Sub(r, q)
  <2>1. CASE d = c
    <3>1. r.lo = id + 1 /\ r.hi = it[c].hi
      BY <2>1, <1>1, <1>4, <1>6
    <3>2. ~Within(id, r) /\ Sub(r, it[c])
      BY <3>1, <1>1 DEF Within, Sub
    <3> QED
      BY <3>2, <2>1, <1>1, <1>5
  <2>2. CASE d # c
    <3>1. r \in Stock(d) /\ r \in Ranges
      BY <2>2, <1>4, <1>6, StockType
    <3>2. r.hi <= it[c].lo \/ it[c].hi <= r.lo
      BY <3>1, <2>2, <1>1, <1>5, <1>6 DEF Apart
    <3>3. ~Within(id, r)
      BY <3>1, <3>2, <1>1, RangeFields DEF Within
    <3>4. Sub(r, r)
      BY <3>1 DEF Sub, Ranges
    <3> QED
      BY <3>1, <3>3, <3>4, <1>6
  <2> QED
    BY <2>1, <2>2
<1>7. next <= next' /\ id < next'
  BY <1>1, <1>5 DEF IdTypeOK
<1>8. \A i \in DOMAIN issued' :
        (i \in DOMAIN issued /\ issued'[i] = issued[i]) \/ issued'[i] = id
  BY <1>1, IssuedAppend
<1> QED
  BY <1>6, <1>7, <1>8, ApartKept

\* A block starts where everything issued or in stock ends.
LEMMA ApartOnAllocateId ==
  ASSUME IdTypeOK, IdTypeOK', Apart, NEW c \in Children, OnAllocateId(c)
  PROVE  Apart'
<1> USE IdAssumption DEF IdAssumption
<1> DEFINE block == [lo |-> next, hi |-> next + BlockSize]
<1>1. /\ next \in Nat /\ next' = next + BlockSize
      /\ issued' = issued
      /\ \A d \in Children : \A r \in Stock(d)' : r \in Stock(d) \/ (d = c /\ r = block)
  BY DEF IdTypeOK, OnAllocateId, BlockEnd, Stock
<1>2. block \in Ranges /\ next < next'
  BY <1>1 DEF Ranges
<1>3. \A i \in DOMAIN issued : issued[i] < next /\ issued[i] \in Nat
  BY DEF Apart, IdTypeOK
<1>4. ASSUME NEW d \in Children, NEW r \in Stock(d), ~Empty(r)
      PROVE  /\ r \in Ranges /\ r.hi <= next
             /\ \A i \in DOMAIN issued : ~Within(issued[i], r)
  BY <1>4, StockType DEF Apart
<1>5. ASSUME NEW d \in Children, NEW r \in Stock(d)', ~Empty(r)
      PROVE  r.hi <= next' /\ \A i \in DOMAIN issued' : ~Within(issued'[i], r)
  <2>1. CASE r \in Stock(d)
    BY <2>1, <1>1, <1>4, <1>5 DEF Ranges
  <2>2. CASE r = block
    BY <2>2, <1>1, <1>3 DEF Within
  <2> QED
    BY <2>1, <2>2, <1>1, <1>5
<1>6. ASSUME NEW d \in Children, NEW r \in Stock(d)', ~Empty(r),
             NEW e \in Children \ {d}, NEW q \in Stock(e)', ~Empty(q)
      PROVE  r.hi <= q.lo \/ q.hi <= r.lo
  <2>1. CASE r \in Stock(d) /\ q \in Stock(e)
    BY <2>1, <1>6 DEF Apart
  <2>2. CASE r \in Stock(d) /\ q = block
    BY <2>2, <1>4, <1>6
  <2>3. CASE r = block /\ q \in Stock(e)
    BY <2>3, <1>4, <1>6
  <2> QED
    BY <2>1, <2>2, <2>3, <1>1, <1>6
<1>7. \A i \in DOMAIN issued' : issued'[i] < next'
  BY <1>1, <1>2, <1>3
<1> QED
  BY <1>5, <1>6, <1>7 DEF Apart

LEMMA ApartStep ==
  ASSUME IdTypeOK, IdTypeOK', Flow, Apart, [IdNext]_idVars
  PROVE  Apart'
<1>1. CASE UNCHANGED idVars
  BY <1>1, ApartMoved DEF idVars, network, Stock
<1>2. ASSUME NEW t \in IdThreads, Call(t)
      PROVE  Apart'
  BY <1>2, ApartMoved DEF Call, network, Stock
<1>3. ASSUME NEW t \in IdThreads, Serve(t)
      PROVE  Apart'
  <2>1. CASE Allocate(t)
    BY <2>1, ApartAllocate
  <2>2. CASE AllocateChild(t)
    BY <2>2, ApartAllocateChild
  <2>3. CASE RequestBlock(t)
    BY <2>3, ApartMoved DEF RequestBlock, Stock
  <2>4. CASE ReceiveBlock(t)
    <3>1. \A c \in Children : \A r \in Stock(c)' : r \in Stock(c)
      <4>1. \A c \in Children : /\ it'[c] = it[c] \/ (reply[c] # <<>> /\ it'[c] = reply[c])
                                /\ reply'[c] = reply[c] \/ reply'[c] = <<>>
        BY <2>4 DEF ReceiveBlock, IdTypeOK
      <4> QED
        BY <4>1 DEF Stock
    <3> QED
      BY <3>1, <2>4, ApartMoved DEF ReceiveBlock
  <2>5. CASE ChannelLost(t)
    <3>1. \A c \in Children : \A r \in Stock(c)' : r \in Stock(c)
      BY <2>5 DEF ChannelLost, Stock, IdTypeOK
    <3> QED
      BY <3>1, <2>5, ApartMoved DEF ChannelLost
  <2> QED
    BY <1>3, <2>1, <2>2, <2>3, <2>4, <2>5 DEF Serve
<1>4. ASSUME NEW c \in Children, OnAllocateId(c)
      PROVE  Apart'
  BY <1>4, ApartOnAllocateId
<1>5. ASSUME NEW c \in Children, Disconnect(c)
      PROVE  Apart'
  BY <1>5, ApartMoved DEF Disconnect, Stock
<1> QED
  BY <1>1, <1>2, <1>3, <1>4, <1>5 DEF IdNext

-----------------------------------------------------------------------------
LEMMA IdStep == IdInv /\ [IdNext]_idVars => IdInv'
  BY TypeStep, FlowStep, ApartStep DEF IdInv

\* IDs in stock are apart: those a child holds, those on their way to it and those
\* the master has left.
THEOREM IdsApart == IdSpec => []Apart
<1>1. IdInv => Apart
  BY DEF IdInv
<1> QED
  BY InitId, IdStep, <1>1, PTL DEF IdSpec

LEMMA AppendFrontLast ==
  ASSUME NEW s \in Seq(Nat), NEW id \in Nat
  PROVE  /\ Append(s, id) # <<>>
         /\ Last(Append(s, id)) = id
         /\ Front(Append(s, id)) = s
<1>1. /\ Append(s, id) \in Seq(Nat)
      /\ Len(Append(s, id)) = Len(s) + 1
      /\ Append(s, id)[Len(s) + 1] = id
  OBVIOUS
<1>2. SubSeq(Append(s, id), 1, Len(s)) = s
  OBVIOUS
<1>3. Len(s) \in Nat
  OBVIOUS
<1>4. Last(Append(s, id)) = id
  BY <1>1 DEF Last
<1>5. Front(Append(s, id)) = s
  BY <1>1, <1>2, <1>3 DEF Front
<1> QED
  BY <1>1, <1>3, <1>4, <1>5

\* A step issues one new ID, or none.
LEMMA FreshStep ==
  ASSUME IdInv, [IdNext]_idVars
  PROVE  [FreshOnly!Next]_issued
<1> USE DEF IdInv
<1>1. ASSUME NEW id \in Nat, \A i \in DOMAIN issued : issued[i] # id,
             issued' = Append(issued, id)
      PROVE  FreshOnly!Next
  <2>1. issued \in Seq(Nat)
    BY DEF IdTypeOK
  <2> HIDE DEF IdTypeOK
  <2>2. /\ issued' # <<>>
        /\ Last(issued') = id
        /\ Front(issued') = issued
    BY <2>1, <1>1, AppendFrontLast
  <2> QED
    BY <1>1, <2>2 DEF FreshOnly!Next, FreshOnly!Issued, FreshOnly!Front, FreshOnly!Last, Front, Last
<1>2. CASE UNCHANGED issued
  BY <1>2
<1>3. ASSUME NEW t \in IdThreads, Allocate(t)
      PROVE  FreshOnly!Next
  <2>1. next \in Nat /\ \A i \in DOMAIN issued : issued[i] < next
    BY DEF IdTypeOK, Apart
  <2>2. \A i \in DOMAIN issued : issued[i] # next
    BY <2>1
  <2> QED
    BY <2>1, <2>2, <1>1, <1>3 DEF Allocate
<1>4. ASSUME NEW t \in IdThreads, AllocateChild(t)
      PROVE  FreshOnly!Next
  <2>1. /\ Home[t] \in Children /\ it[Home[t]] \in Ranges /\ ~Empty(it[Home[t]])
        /\ issued' = Append(issued, it[Home[t]].lo)
    BY <1>4, ChildIssues
  <2>2. \A i \in DOMAIN issued : ~Within(issued[i], it[Home[t]])
    BY <2>1 DEF Apart, Stock
  <2>3. it[Home[t]].lo \in Nat /\ \A i \in DOMAIN issued : issued[i] # it[Home[t]].lo
    BY <2>2, <1>4, ChildIssues DEF Within
  <2> QED
    BY <2>1, <2>3, <1>1
<1>5. CASE IdNext
  BY <1>5, <1>2, <1>3, <1>4 DEF IdNext, Call, Serve, RequestBlock, ReceiveBlock, ChannelLost,
                                OnAllocateId, Disconnect
<1> QED
  BY <1>2, <1>5 DEF idVars

\* The allocators implement a source of fresh IDs.
THEOREM IdsFresh == IdSpec => ImplementsFresh
<1>1. IdInit => FreshOnly!Init
  BY DEF IdInit, FreshOnly!Init
<1>2. IdInv /\ [IdNext]_idVars => [FreshOnly!Next]_issued
  BY FreshStep
<1> QED
  BY InitId, IdStep, <1>1, <1>2, PTL DEF IdSpec, ImplementsFresh, FreshOnly!Spec

-----------------------------------------------------------------------------
(* Login: the conversation about a password                                    *)

Halves == {"prompt", "rest"}
Tokens == Halves \cup {"nl", "noise", "denied", "ec0", "ec1", "ec2"}
\* What a stream holds, read or not.
Held(i) == trailer[i] \o output[i]
\* A prompt is two halves, then something else.
Prompts(s) == \A k \in 1..Len(s) :
  /\ s[k] = "prompt" => k < Len(s) /\ s[k + 1] = "rest"
  /\ s[k] = "rest" => /\ k > 1 /\ s[k - 1] = "prompt"
                      /\ k < Len(s) => s[k + 1] \notin Halves
Unread(k) == k \in 1..Len(output[PromptStream]) /\ output[PromptStream][k] = "prompt"

LoginFields ==
  /\ method \in {"sudo", "su", "doas", "ssh"} /\ given \in {"none", "right", "wrong"}
  /\ program \in {"start", "asks", "retry", "boots", "awaits", "fed", "up", "exited"}
  /\ asks \in 0..MaxAsks /\ typed \in Nat /\ writes \in Nat /\ typed <= writes
  /\ output \in [Streams2 -> Seq(Tokens)] /\ trailer \in [Streams2 -> Seq(Halves)]
  /\ promptShut \in BOOLEAN /\ sent \in BOOLEAN /\ (sent <=> writes > 0) /\ torn \in BOOLEAN
  /\ outcome \in {"pending", "connected", "required", "incorrect", "auth", "eof"}
Heard ==
  \A i \in Streams2 : /\ Prompts(Held(i))
                      /\ (\E k \in 1..Len(Held(i)) : Held(i)[k] = "denied") => given = "wrong"
\* How far a program is.
Course ==
  /\ program = "start" => asks = 0 /\ Held(PromptStream) = <<>>
  /\ program = "retry" => given = "wrong"
  /\ given = "right" => asks <= 1 /\ program # "exited"
  /\ promptShut => given = "none" /\ method = "ssh" /\ program # "start"
  /\ given = "none" => writes = 0
  /\ program = "exited" /\ given = "none" => method = "ssh"
  /\ program \in {"start", "retry"} =>
       Held(PromptStream) = <<>> \/ Held(PromptStream)[Len(Held(PromptStream))] \notin Halves
\* One prompt at a time is not answered, and it is the last of what can be read.
Answered ==
  /\ trailer[PromptStream] = <<"prompt">> => torn
  /\ ~torn => /\ writes <= asks
              /\ program # "asks" => typed = 0
              /\ program \in {"start", "retry"} => writes = asks
              /\ program = "asks" => writes + 1 = asks + typed
              /\ \A k \in 1..Len(output[PromptStream]) : Unread(k) =>
                   program = "asks" /\ typed = 0 /\ ~promptShut /\ k + 1 = Len(output[PromptStream])
Reasons ==
  /\ outcome = "incorrect" => given = "wrong" \/ torn
  /\ given = "right" /\ ~torn => outcome \in {"pending", "connected"}
  /\ outcome = "eof" => given # "none" \/ method = "ssh"
LoginInv == LoginFields /\ Heard /\ Course /\ Answered /\ Reasons

\* The places of what is put together from n and m.
LEMMA ConcatAt ==
  ASSUME NEW S, NEW s \in Seq(S), NEW t \in Seq(S), NEW n, NEW m, n = Len(s), m = Len(t)
  PROVE  /\ s \o t \in Seq(S) /\ Len(s \o t) = n + m /\ n \in Nat /\ m \in Nat
         /\ \A k \in 1..n : (s \o t)[k] = s[k]
         /\ \A k \in 1..n + m : k > n => (s \o t)[k] = t[k - n]
<1> QED BY Concat

\* What is left of s behind its first e.
Past(s, e) == SubSeq(s, e + 1, Len(s))

LEMMA RestIs ==
  ASSUME NEW S, NEW s \in Seq(S), NEW e \in 0..Len(s)
  PROVE  /\ Past(s, e) \in Seq(S) /\ Len(Past(s, e)) = Len(s) - e
         /\ \A k \in 1..Len(s) - e : Past(s, e)[k] = s[e + k]
<1> QED BY SubSeqProperties, ElementOfSeq DEF Past

\* A prompt is read whole or not at all, with the line it begins.
LEMMA RestPrompts ==
  ASSUME NEW s \in Seq(Tokens), Prompts(s), NEW e \in 0..Len(s), e = 0 \/ s[e] \notin Halves
  PROVE  Prompts(Past(s, e))
<1> DEFINE r == Past(s, e)
           n == Len(s)
<1>1. n \in Nat /\ e \in 0..n /\ Len(r) = n - e /\ \A k \in 1..n - e : r[k] = s[e + k]
  <2>1. n \in Nat
    BY LenProperties
  <2>2. Len(r) = n - e
    BY RestIs
  <2>3. \A k \in 1..n - e : r[k] = s[e + k]
    BY RestIs
  <2> QED BY <2>1, <2>2, <2>3
<1>1a. n \in Nat /\ e \in 0..n /\ Len(r) = n - e
  BY <1>1
<1>2. \A k \in 1..n : /\ s[k] = "prompt" => k < n /\ s[k + 1] = "rest"
                      /\ s[k] = "rest" => /\ k > 1 /\ s[k - 1] = "prompt"
                                          /\ k < n => s[k + 1] \notin Halves
  BY DEF Prompts
<1> HIDE DEF r, n
<1>3. ASSUME NEW k \in 1..Len(r)
      PROVE  /\ r[k] = "prompt" => k < Len(r) /\ r[k + 1] = "rest"
             /\ r[k] = "rest" => /\ k > 1 /\ r[k - 1] = "prompt"
                                 /\ k < Len(r) => r[k + 1] \notin Halves
  <2>1. k \in 1..n - e /\ e + k \in 1..n /\ r[k] = s[e + k]
    BY <1>1
  <2>2. k < Len(r) => k + 1 \in 1..n - e /\ r[k + 1] = s[(e + k) + 1]
    <3>1. k < Len(r) => k + 1 \in 1..n - e /\ e + (k + 1) = (e + k) + 1
      BY <1>1a
    <3> QED BY <1>1, <3>1
  <2>3. k > 1 => k - 1 \in 1..n - e /\ r[k - 1] = s[(e + k) - 1]
    <3>1. k > 1 => k - 1 \in 1..n - e /\ e + (k - 1) = (e + k) - 1
      BY <1>1
    <3> QED BY <1>1, <3>1
  <2>4. (e + k < n) = (k < Len(r))
    BY <1>1
  <2>5. r[k] = "rest" => k > 1
    <3>1. SUFFICES ASSUME k = 1, r[k] = "rest" PROVE FALSE
      BY <1>1
    <3>2. e + k > 1 /\ s[(e + k) - 1] = "prompt"
      BY <1>2, <2>1, <3>1
    <3>3. e # 0 /\ (e + k) - 1 = e
      BY <1>1, <3>1, <3>2
    <3> QED BY <3>2, <3>3 DEF Halves
  <2> QED BY <1>2, <2>1, <2>2, <2>3, <2>4, <2>5
<1> QED BY <1>3 DEF Prompts, r

\* Something else than a prompt, or a prompt behind something else.
Fitting(s, u) == \/ \A k \in 1..Len(u) : u[k] \notin Halves
                 \/ u = <<"prompt", "rest">> /\ (s = <<>> \/ s[Len(s)] \notin Halves)

LEMMA MorePrompts ==
  ASSUME NEW s \in Seq(Tokens), NEW u \in Seq(Tokens), Prompts(s), Fitting(s, u)
  PROVE  Prompts(s \o u)
<1> DEFINE r == s \o u
           n == Len(s)
           m == Len(u)
<1>1. /\ n \in Nat /\ m \in Nat /\ Len(r) = n + m
      /\ \A k \in 1..n : r[k] = s[k]
      /\ \A k \in 1..n + m : k > n => r[k] = u[k - n]
  BY Concat
<1>1a. n \in Nat
  OBVIOUS
<1>2. \A k \in 1..n : /\ s[k] = "prompt" => k < n /\ s[k + 1] = "rest"
                      /\ s[k] = "rest" => /\ k > 1 /\ s[k - 1] = "prompt"
                                          /\ k < n => s[k + 1] \notin Halves
  BY DEF Prompts
<1>3. \/ \A k \in 1..m : u[k] \notin Halves
      \/ m = 2 /\ u[1] = "prompt" /\ u[2] = "rest" /\ (n = 0 \/ s[n] \notin Halves)
  BY EmptySeq DEF Fitting
<1>4. \A k \in 1..m : u[k] = "prompt" => k = 1 /\ m = 2 /\ u[2] = "rest"
  BY <1>3 DEF Halves
<1>5. \A k \in 1..m : u[k] = "rest" => k = 2 /\ m = 2 /\ u[1] = "prompt"
  BY <1>3 DEF Halves
<1>6. m > 0 => u[1] \notin Halves \/ (n = 0 \/ s[n] \notin Halves)
  BY <1>3, <1>1
<1>6a. m > 0 => u[1] # "rest"
  BY <1>5, <1>1
<1> HIDE DEF r, n, m
<1>7. ASSUME NEW k \in 1..n
      PROVE  /\ r[k] = "prompt" => k < Len(r) /\ r[k + 1] = "rest"
             /\ r[k] = "rest" => /\ k > 1 /\ r[k - 1] = "prompt"
                                 /\ k < Len(r) => r[k + 1] \notin Halves
  <2>1. r[k] = s[k] /\ (k < n => k + 1 \in 1..n /\ r[k + 1] = s[k + 1]) /\ (k > 1 => k - 1 \in 1..n /\ r[k - 1] = s[k - 1])
    <3>1. (k < n => k + 1 \in 1..n) /\ (k > 1 => k - 1 \in 1..n)
      BY <1>1a
    <3> QED BY <1>1, <3>1
  <2>2. r[k] = "prompt" => k < Len(r) /\ r[k + 1] = "rest"
    BY <1>1, <1>2, <2>1
  <2>3. r[k] = "rest" => k > 1 /\ r[k - 1] = "prompt"
    BY <1>1, <1>2, <2>1
  <2>4. ASSUME r[k] = "rest", k < Len(r) PROVE r[k + 1] \notin Halves
    <3>1. CASE k < n
      BY <1>2, <2>1, <2>4, <3>1
    <3>2. CASE k = n
      <4>1. m > 0 /\ k + 1 \in 1..n + m /\ k + 1 > n /\ (k + 1) - n = 1
        BY <1>1, <2>4, <3>2
      <4>2. r[k + 1] = u[1]
        BY <1>1, <4>1
      <4>3. s[n] \in Halves /\ n # 0
        <5>1. s[k] = "rest" /\ k # 0
          BY <2>1, <2>4, <1>1a
        <5> QED BY <3>2, <5>1 DEF Halves
      <4> QED BY <1>6, <4>1, <4>2, <4>3
    <3> QED BY <1>1, <3>1, <3>2
  <2> QED BY <2>2, <2>3, <2>4
<1>8. ASSUME NEW k \in n + 1..n + m
      PROVE  /\ r[k] = "prompt" => k < Len(r) /\ r[k + 1] = "rest"
             /\ r[k] = "rest" => /\ k > 1 /\ r[k - 1] = "prompt"
                                 /\ k < Len(r) => r[k + 1] \notin Halves
  <2>1. k \in 1..n + m /\ k > n /\ k - n \in 1..m /\ r[k] = u[k - n]
    BY <1>1
  <2>2. ASSUME r[k] = "prompt" PROVE k < Len(r) /\ r[k + 1] = "rest"
    <3>1. k - n = 1 /\ m = 2 /\ u[2] = "rest"
      BY <1>4, <2>1, <2>2
    <3>2. k + 1 \in 1..n + m /\ k + 1 > n /\ (k + 1) - n = 2 /\ k < Len(r)
      BY <1>1, <2>1, <3>1
    <3>3. r[k + 1] = u[(k + 1) - n]
      BY <1>1, <3>2
    <3> QED BY <3>1, <3>2, <3>3
  <2>3. ASSUME r[k] = "rest" PROVE k > 1 /\ r[k - 1] = "prompt" /\ ~(k < Len(r))
    <3>1. k - n = 2 /\ m = 2 /\ u[1] = "prompt"
      BY <1>5, <2>1, <2>3
    <3>2. k - 1 \in 1..n + m /\ k - 1 > n /\ (k - 1) - n = 1 /\ k > 1 /\ ~(k < Len(r))
      BY <1>1, <2>1, <3>1
    <3>3. r[k - 1] = u[(k - 1) - n]
      BY <1>1, <3>2
    <3> QED BY <3>1, <3>2, <3>3
  <2> QED BY <2>2, <2>3
<1>9. \A k \in 1..Len(r) : k \in 1..n \/ k \in n + 1..n + m
  BY <1>1
<1> QED BY <1>7, <1>8, <1>9 DEF Prompts, r

\* The last line end: there is one, or none at all.
LEMMA LastEndIs ==
  ASSUME NEW s \in Seq(Tokens)
  PROVE  /\ LastEnd(s) \in 0..Len(s) /\ (LastEnd(s) = 0 \/ s[LastEnd(s)] \notin Halves)
         /\ \A k \in 1..Len(s) : k > LastEnd(s) => s[k] \in Halves
<1> DEFINE n == Len(s)
           E == LineEnds(s)
           H == [k \in 0..n |-> k]
           P == {k \in 0..n : (\E i \in E : i <= k) => \E i \in E : i <= k /\ \A j \in E : j <= k => j <= i}
<1>1. n \in Nat /\ E = {k \in 1..n : s[k] \notin Halves}
  BY DEF LineEnds, Halves
<1> HIDE DEF n, E
<1>2. H[0] \in P
  BY <1>1
<1>3. ASSUME NEW k \in 1..n, H[k - 1] \in P PROVE H[k] \in P
  <2>1. k - 1 \in P /\ H[k] = k /\ k \in 0..n
    BY <1>1, <1>3
  <2>2. CASE k \in E
    <3>1. k <= k /\ \A j \in E : j <= k => j <= k
      BY <1>1
    <3> QED BY <2>1, <2>2, <3>1
  <2>3. CASE k \notin E
    <3>1. \A i \in E : (i <= k) = (i <= k - 1)
      BY <1>1, <2>3
    <3> QED BY <2>1, <3>1
  <2> QED BY <2>2, <2>3
<1>4. n \in P
  <2>1. \A k \in 0..n : H[k] \in P
    <3> HIDE DEF H, P
    <3> QED BY <1>1, <1>2, <1>3, UpTo
  <2>2. n \in 0..n /\ H[n] = n
    BY <1>1
  <2> QED BY <2>1, <2>2
<1>5. CASE E = {}
  BY <1>1, <1>5 DEF LastEnd, n, E
<1>6. CASE E # {}
  <2>1. \A i \in E : i <= n
    BY <1>1
  <2>2. \E i \in E : \A j \in E : j <= i
    BY <1>4, <1>6, <2>1
  <2>3. LastEnd(s) = CHOOSE i \in E : \A j \in E : j <= i
    BY <1>6 DEF LastEnd, E
  <2>4. LastEnd(s) \in E /\ \A j \in E : j <= LastEnd(s)
    BY <2>2, <2>3
  <2> QED BY <1>1, <2>4 DEF n
<1> QED BY <1>5, <1>6

\* What is left over is the beginning of a prompt, or a prompt.
LEMMA Leftover ==
  ASSUME NEW s \in Seq(Tokens), Prompts(s), NEW m \in 0..Len(s), NEW tokens \in Seq(Tokens), Len(tokens) = m,
         \A k \in 1..m : tokens[k] = s[k]
  PROVE  /\ LastEnd(tokens) \in 0..m
         /\ Past(tokens, LastEnd(tokens)) \in {<<>>, <<"prompt">>, <<"prompt", "rest">>}
         /\ LastEnd(tokens) = 0 \/ s[LastEnd(tokens)] \notin Halves
<1> DEFINE e == LastEnd(tokens)
           n == Len(s)
           r == Past(tokens, e)
<1>1. /\ e \in 0..m /\ (e = 0 \/ tokens[e] \notin Halves)
      /\ \A k \in 1..m : k > e => tokens[k] \in Halves
  BY LastEndIs
<1>2. \A k \in 1..n : /\ s[k] = "prompt" => k < n /\ s[k + 1] = "rest"
                      /\ s[k] = "rest" => /\ k > 1 /\ s[k - 1] = "prompt"
                                          /\ k < n => s[k + 1] \notin Halves
  BY DEF Prompts
<1>3. r \in Seq(Tokens) /\ Len(r) = m - e /\ \A k \in 1..m - e : r[k] = tokens[e + k]
  BY <1>1, RestIs
<1>4. n \in Nat /\ m \in 0..n
  OBVIOUS
<1> HIDE DEF e, n, r
<1>5. \A k \in 1..m - e : r[k] = s[e + k] /\ r[k] \in Halves /\ e + k \in 1..n
  <2>1. \A k \in 1..m - e : e + k \in 1..m /\ e + k > e /\ e + k \in 1..n
    BY <1>1, <1>4
  <2> QED BY <1>1, <1>3, <2>1
<1>6. e = 0 \/ s[e] \notin Halves
  BY <1>1
<1>7. m - e >= 1 => r[1] = "prompt"
  <2>1. SUFFICES ASSUME m - e >= 1, r[1] # "prompt" PROVE FALSE
    OBVIOUS
  <2>2. 1 \in 1..m - e /\ (e + 1) - 1 = e
    BY <1>1, <1>4, <2>1
  <2>3. s[e + 1] = "rest" /\ e + 1 \in 1..n
    BY <1>5, <2>1, <2>2 DEF Halves
  <2>4. e + 1 > 1 /\ s[(e + 1) - 1] = "prompt"
    BY <1>2, <2>3
  <2> QED BY <1>1, <1>6, <2>2, <2>4 DEF Halves
<1>8. m - e >= 2 => r[2] = "rest"
  <2>1. SUFFICES ASSUME m - e >= 2 PROVE r[2] = "rest"
    OBVIOUS
  <2>2. 1 \in 1..m - e /\ 2 \in 1..m - e /\ (e + 1) + 1 = e + 2 /\ m - e >= 1
    BY <1>1, <1>4, <2>1
  <2>3. s[e + 1] = "prompt" /\ e + 1 \in 1..n /\ r[2] = s[e + 2]
    BY <1>5, <1>7, <2>2
  <2>4. s[(e + 1) + 1] = "rest"
    BY <1>2, <2>3
  <2> QED BY <2>2, <2>3, <2>4
<1>9. m - e <= 2
  <2>1. SUFFICES ASSUME m - e >= 3 PROVE FALSE
    BY <1>1, <1>4
  <2>2. 2 \in 1..m - e /\ 3 \in 1..m - e /\ (e + 2) + 1 = e + 3 /\ m - e >= 2 /\ e + 2 < n
    BY <1>1, <1>4, <2>1
  <2>3. s[e + 2] = "rest" /\ e + 2 \in 1..n /\ s[e + 3] \in Halves
    BY <1>5, <1>8, <2>2
  <2>4. s[(e + 2) + 1] \notin Halves
    BY <1>2, <2>2, <2>3
  <2> QED BY <2>2, <2>3, <2>4
<1>10. r \in {<<>>, <<"prompt">>, <<"prompt", "rest">>}
  <2>1. m - e \in {0, 1, 2}
    BY <1>1, <1>4, <1>9
  <2>2. CASE m - e = 0
    BY <1>3, <2>2, EmptySeq
  <2>3. CASE m - e = 1
    BY <1>3, <1>7, <2>3
  <2>4. CASE m - e = 2
    BY <1>3, <1>7, <1>8, <2>4
  <2> QED BY <2>1, <2>2, <2>3, <2>4
<1> QED BY <1>1, <1>6, <1>10 DEF e, r

-----------------------------------------------------------------------------
\* What lines make of the protocol: the program gets its source, the outcome is known.
After(a, b) == [sent |-> sent, writes |-> writes, typed |-> typed, outcome |-> b,
                promptShut |-> promptShut, program |-> a, torn |-> torn]
Programs == {program} \cup (IF program = "awaits" THEN {"fed"} ELSE {})
Known == {"pending", "connected"} \cup (IF given = "wrong" THEN {"incorrect", "auth"} ELSE {})
Fed == {After(a, b) : a \in Programs, b \in Known}

LEMMA OnLineKeeps ==
  ASSUME NEW p \in Fed, NEW line \in Tokens, line = "denied" => given = "wrong"
  PROVE  OnLine(p, line) \in Fed
<1>1. PICK a \in Programs, b \in Known : p = After(a, b)
  BY DEF Fed
<1>2. p.outcome = b /\ p.program = a /\ p.sent = sent
  BY <1>1 DEF After
<1>3. \A c : [p EXCEPT !.outcome = c] = After(a, c)
  BY <1>1 DEF After
<1>4. \A c : [p EXCEPT !.program = c] = After(c, b)
  BY <1>1 DEF After
<1>5. CASE line = "ec0"
  <2>1. OnLine(p, line) = After(IF a = "awaits" THEN "fed" ELSE a, b)
    <3>1. OnLine(p, line) = [p EXCEPT !.program = IF a = "awaits" THEN "fed" ELSE a]
      BY <1>2, <1>5 DEF OnLine
    <3> QED BY <3>1, <1>4
  <2>2. (IF a = "awaits" THEN "fed" ELSE a) \in Programs
    BY DEF Programs
  <2> QED BY <2>1, <2>2 DEF Fed
<1>6. CASE line = "ec2"
  <2>1. OnLine(p, line) = IF b = "pending" THEN After(a, "connected") ELSE p
    BY <1>2, <1>3, <1>6 DEF OnLine
  <2>2. "connected" \in Known
    BY DEF Known
  <2> QED BY <2>1, <2>2 DEF Fed
<1>7. CASE line = "denied"
  <2>1. given = "wrong" /\ "incorrect" \in Known /\ "auth" \in Known
    BY <1>7 DEF Known
  <2>2. \A e \in Known : FailWith(p, e) \in Fed
    BY <1>2, <1>3 DEF FailWith, Fed
  <2>3. OnLine(p, line) \in {FailWith(p, "incorrect"), FailWith(p, "auth"), p}
    BY <1>7, <2>1 DEF OnLine
  <2> QED BY <2>1, <2>2, <2>3
<1>8. CASE line \notin {"ec0", "ec2", "denied"}
  <2>1. OnLine(p, line) = p
    BY <1>8 DEF OnLine
  <2> QED BY <2>1
<1> QED BY <1>5, <1>6, <1>7, <1>8

LEMMA OnLinesKeeps ==
  ASSUME NEW lines \in Seq(Tokens), \A k \in 1..Len(lines) : lines[k] = "denied" => given = "wrong",
         outcome \in Known
  PROVE  OnLines(Protocol, lines) \in Fed
<1> DEFINE n == Len(lines)
           F == [x \in (1..n) \X Fed |-> OnLine(x[2], lines[x[1]])]
           Is(f) == f = [k \in 0..n |-> IF k = 0 THEN Protocol ELSE OnLine(f[k - 1], lines[k])]
           after == CHOOSE f : Is(f)
<1>1. n \in Nat
  OBVIOUS
<1>2. \A k \in 1..n : \A x \in Fed : OnLine(x, lines[k]) \in Fed
  BY OnLineKeeps
<1>3. OnLines(Protocol, lines) = after[n]
  BY DEF OnLines
<1> HIDE DEF n
<1>4. F \in [(1..n) \X Fed -> Fed]
  BY <1>2
<1>5. Protocol \in Fed
  <2>1. Protocol = After(program, outcome)
    BY DEF Protocol, After
  <2>2. program \in Programs
    BY DEF Programs
  <2> QED BY <2>1, <2>2 DEF Fed
<1>a. PICK h \in [0..n -> Fed] : IsLoop(h, F, Protocol, n)
  <2> HIDE DEF F
  <2> QED BY <1>1, <1>4, <1>5, StepsIn
<1>6. h[0] = Protocol /\ \A k \in 1..n : h[k] = F[<<k, h[k - 1]>>]
  BY <1>a DEF IsLoop
<1>7. Is(h)
  <2>1. ASSUME NEW k \in 0..n PROVE h[k] = IF k = 0 THEN Protocol ELSE OnLine(h[k - 1], lines[k])
    <3>1. CASE k = 0
      BY <1>6, <3>1
    <3>2. CASE k # 0
      <4>1. k \in 1..n /\ k - 1 \in 0..n
        BY <1>1, <3>2
      <4>2. h[k - 1] \in Fed /\ h[k] = F[<<k, h[k - 1]>>]
        BY <1>6, <4>1
      <4> QED BY <3>2, <4>1, <4>2
    <3> QED BY <3>1, <3>2
  <2> QED BY <1>6, <2>1
<1>8. Is(after)
  <2> HIDE DEF Is
  <2> QED BY <1>7
<1> HIDE DEF after
<1>9. after[0] = Protocol /\ \A k \in 1..n : after[k] = OnLine(after[k - 1], lines[k])
  <2>1. 0 \in 0..n /\ \A k \in 1..n : k \in 0..n /\ k # 0
    BY <1>1
  <2> QED BY <1>8, <2>1
<1>10. \A k \in 1..n : after[k - 1] \in Fed => after[k] \in Fed
  BY <1>2, <1>9
<1>11. \A k \in 0..n : after[k] \in Fed
  <2> HIDE DEF Is, F
  <2> QED BY <1>1, <1>5, <1>9, <1>10, UpTo
<1> QED BY <1>1, <1>3, <1>11

-----------------------------------------------------------------------------
\* What the program writes comes behind what is held of the stream.
LEMMA Written ==
  ASSUME LoginInv, NEW i \in Streams2, NEW u \in Seq(Tokens), u # <<>>, Write(i, u), Fitting(Held(i), u),
         trailer' = trailer, given' = given, \A k \in 1..Len(u) : u[k] = "denied" => given = "wrong"
  PROVE  /\ output' \in [Streams2 -> Seq(Tokens)] /\ Heard'
         /\ \A j \in Streams2 \ {i} : output'[j] = output[j]
         /\ output'[i] = output[i] \o u
         /\ LET h == trailer'[i] \o output'[i] IN h # <<>> /\ h[Len(h)] = u[Len(u)]
<1> DEFINE o == output[i]
           t == trailer[i]
           s == Held(i)
<1>1. output \in [Streams2 -> Seq(Tokens)] /\ trailer \in [Streams2 -> Seq(Halves)] /\ Halves \subseteq Tokens
  BY DEF LoginInv, LoginFields, Tokens
<1>2. o \in Seq(Tokens) /\ t \in Seq(Tokens)
  BY <1>1
<1>3. output' = [output EXCEPT ![i] = o \o u]
  BY DEF Write
<1>4. s = t \o o
  BY DEF Held
<1> HIDE DEF o, t, s
<1>5. s \in Seq(Tokens) /\ o \o u \in Seq(Tokens) /\ s \o u \in Seq(Tokens)
  BY <1>2, <1>4
<1>6. output' \in [Streams2 -> Seq(Tokens)] /\ output'[i] = o \o u /\ \A j \in Streams2 \ {i} : output'[j] = output[j]
  BY <1>1, <1>3, <1>5
<1>7. trailer'[i] \o output'[i] = s \o u
  <2>1. trailer'[i] \o output'[i] = t \o (o \o u)
    BY <1>6 DEF t
  <2>2. t \o (o \o u) = (t \o o) \o u
    BY <1>2, Assoc, SMTT(60)
  <2> QED BY <1>4, <2>1, <2>2
<1>8. \A j \in Streams2 \ {i} : trailer'[j] \o output'[j] = Held(j)
  BY <1>6 DEF Held
<1>9. Prompts(s) /\ ((\E k \in 1..Len(s) : s[k] = "denied") => given = "wrong")
  BY DEF LoginInv, Heard, s
<1>10. Prompts(s \o u)
  <2>1. Fitting(s, u)
    BY DEF s
  <2> QED BY <1>5, <1>9, <2>1, MorePrompts
<1> DEFINE n == Len(s)
           m == Len(u)
<1>11. /\ n \in Nat /\ m \in Nat /\ Len(s \o u) = n + m
       /\ \A k \in 1..n : (s \o u)[k] = s[k]
       /\ \A k \in 1..n + m : k > n => (s \o u)[k] = u[k - n]
  BY <1>5, Concat
<1>12. m > 0
  BY EmptySeq
<1>12a. \A k \in 1..m : u[k] = "denied" => given = "wrong"
  OBVIOUS
<1>12b. \A k \in 1..n : s[k] = "denied" => given = "wrong"
  BY <1>9
<1> HIDE DEF n, m
<1>13. (s \o u)[Len(s \o u)] = u[m] /\ s \o u # <<>>
  <2>1. n + m \in 1..n + m /\ n + m > n /\ (n + m) - n = m
    BY <1>11, <1>12
  <2>2. (s \o u)[n + m] = u[m]
    BY <1>11, <2>1
  <2>3. Len(s \o u) # 0
    BY <1>11, <1>12
  <2> QED BY <1>11, <2>2, <2>3
<1>14. (\E k \in 1..Len(s \o u) : (s \o u)[k] = "denied") => given = "wrong"
  <2>1. SUFFICES ASSUME NEW k \in 1..n + m, (s \o u)[k] = "denied" PROVE given = "wrong"
    BY <1>11
  <2>2. CASE k <= n
    <3>1. k \in 1..n
      BY <1>11, <2>2
    <3> QED BY <1>11, <1>12b, <2>1, <3>1
  <2>3. CASE k > n
    <3>1. k - n \in 1..m
      BY <1>11, <2>3
    <3> QED BY <1>11, <1>12a, <2>1, <2>3, <3>1
  <2> QED BY <1>11, <2>2, <2>3
<1>15. Heard'
  <2> DEFINE h(j) == trailer'[j] \o output'[j]
  <2>1. \A j \in Streams2 : /\ Prompts(h(j))
                            /\ (\E k \in 1..Len(h(j)) : h(j)[k] = "denied") => given = "wrong"
    <3>1. \A j \in Streams2 : /\ Prompts(Held(j))
                              /\ (\E k \in 1..Len(Held(j)) : Held(j)[k] = "denied") => given = "wrong"
      BY DEF LoginInv, Heard
    <3> QED BY <1>7, <1>8, <1>10, <1>14, <3>1
  <2>2. given' = given
    OBVIOUS
  <2>3. ASSUME NEW j \in Streams2
        PROVE  Prompts(Held(j))' /\ ((\E k \in 1..Len(Held(j)) : Held(j)[k] = "denied") => given = "wrong")'
    <3> DEFINE w == h(j)
    <3>1. Held(j)' = w
      BY DEF Held
    <3>2. Prompts(w) /\ ((\E k \in 1..Len(w) : w[k] = "denied") => given = "wrong")
      BY <2>1
    <3> HIDE DEF w
    <3>3. Prompts(Held(j))'
      BY <3>1, <3>2 DEF Prompts
    <3>4. ((\E k \in 1..Len(Held(j)) : Held(j)[k] = "denied") => given = "wrong")'
      BY <3>1, <3>2, <2>2
    <3> QED BY <3>3, <3>4
  <2> QED BY <2>3 DEF Heard
<1> QED BY <1>6, <1>7, <1>13, <1>15 DEF o, m

LEMMA InitLogin == LoginInit => LoginInv
<1> SUFFICES ASSUME LoginInit PROVE LoginInv
  OBVIOUS
<1>1. \A i \in Streams2 : output[i] = <<>> /\ trailer[i] = <<>>
  BY DEF LoginInit
<1>2. \A i \in Streams2 : Held(i) = <<>>
  BY <1>1 DEF Held
<1>3. PromptStream \in Streams2
  BY DEF PromptStream, Streams2
<1>4. <<>> \in Seq(Tokens) /\ <<>> \in Seq(Halves) /\ Len(<<>>) = 0
  OBVIOUS
<1>5. method \in {"sudo", "su", "doas", "ssh"}
  BY LoginAssumption DEF LoginInit
<1>6. LoginFields
  <2>3. sent \in BOOLEAN /\ (sent <=> writes > 0)
    <3>1. writes = 0 /\ sent = FALSE
      BY DEF LoginInit
    <3>2. ~(0 > 0)
      OBVIOUS
    <3> QED BY <3>1, <3>2
  <2>1. output \in [Streams2 -> Seq(Tokens)] /\ trailer \in [Streams2 -> Seq(Halves)]
    BY <1>4 DEF LoginInit
  <2>2. 0 \in 0..MaxAsks
    BY LoginAssumption
  <2>4. typed = 0 /\ writes = 0 /\ asks = 0 /\ 0 <= 0
    BY DEF LoginInit
  <2>5. typed <= writes
    BY <2>4
  <2>6. /\ given \in {"none", "right", "wrong"} /\ program = "start" /\ promptShut \in BOOLEAN /\ torn \in BOOLEAN
        /\ outcome = "pending"
    BY DEF LoginInit
  <2> QED BY <1>5, <2>1, <2>2, <2>3, <2>4, <2>5, <2>6 DEF LoginFields
<1>7. Heard
  BY <1>2, <1>4 DEF Heard, Prompts
<1>8. Course
  BY <1>2, <1>3 DEF LoginInit, Course
<1>9. Answered
  BY <1>1, <1>3, <1>4 DEF LoginInit, Answered
<1>10. Reasons
  BY DEF LoginInit, Reasons
<1> QED BY <1>6, <1>7, <1>8, <1>9, <1>10 DEF LoginInv

LEMMA ProgramKeeps == LoginInv /\ ProgramSteps => LoginInv'
<1> SUFFICES ASSUME LoginInv, ProgramSteps PROVE LoginInv'
  OBVIOUS
<1> DEFINE i == PromptStream
<1>1. LoginFields /\ Heard /\ Course /\ Answered /\ Reasons
  BY DEF LoginInv
<1>2. i \in Streams2 /\ "stdout" \in Streams2
  BY DEF PromptStream, Streams2
<1>3. /\ method' = method /\ given' = given /\ trailer' = trailer /\ promptShut' = promptShut /\ sent' = sent
      /\ writes' = writes /\ outcome' = outcome /\ torn' = torn /\ i' = i
  BY DEF ProgramSteps, ProgramAsks, ProgramBoots, ProgramRejects, ProgramStops, FirstStage, protocolVars, PromptStream
<1>4. Reasons'
  BY <1>1, <1>3 DEF Reasons
<1>5. output \in [Streams2 -> Seq(Tokens)]
  BY <1>1 DEF LoginFields
<1> HIDE DEF i
<1>a. ASSUME ~torn => /\ trailer[i] # <<"prompt">>
                      /\ writes <= asks'
                      /\ program' # "asks" => typed' = 0
                      /\ program' \in {"start", "retry"} => writes = asks'
                      /\ program' = "asks" => writes + 1 = asks' + typed'
                      /\ \A k \in 1..Len(output'[i]) : output'[i][k] = "prompt" =>
                           program' = "asks" /\ typed' = 0 /\ ~promptShut /\ k + 1 = Len(output'[i])
      PROVE  Answered'
  BY <1>3, <1>a DEF Answered, Unread, i
<1>6. CASE ProgramAsks
  <2> DEFINE u == <<"prompt", "rest">>
  <2>1. /\ program = "start" \/ (program = "retry" /\ asks < MaxAsks)
        /\ program' = "asks" /\ asks' = asks + 1 /\ Write(i, u) /\ typed' = typed
    BY <1>6 DEF ProgramAsks, i
  <2>2. u \in Seq(Tokens) /\ u # <<>> /\ Len(u) = 2 /\ u[1] = "prompt" /\ u[2] = "rest"
    BY DEF Tokens, Halves
  <2>3. Fitting(Held(i), u)
    BY <1>1, <2>1 DEF Fitting, Course, i
  <2>4. \A k \in 1..Len(u) : u[k] # "denied"
    BY <2>2
  <2>5. /\ output' \in [Streams2 -> Seq(Tokens)] /\ Heard' /\ output'[i] = output[i] \o u
    <3> HIDE DEF u
    <3> QED BY <1>2, <1>3, <2>1, <2>2, <2>3, <2>4, Written
  <2>6. asks' \in 0..MaxAsks /\ (given = "right" => asks' <= 1)
    BY <1>1, <2>1, LoginAssumption DEF LoginFields, Course
  <2>7. LoginFields'
    BY <1>1, <1>3, <2>1, <2>5, <2>6 DEF LoginFields
  <2>8. Course'
    BY <1>1, <1>3, <2>1, <2>6 DEF Course
  <2> DEFINE o == output[i]
             n == Len(o)
  <2>9. ~torn => \A k \in 1..Len(output'[i]) : output'[i][k] = "prompt" => k + 1 = Len(output'[i])
    <3>1. SUFFICES ASSUME ~torn, NEW k \in 1..Len(o \o u), (o \o u)[k] = "prompt" PROVE k + 1 = Len(o \o u)
      BY <2>5
    <3>2. \A j \in 1..n : o[j] # "prompt"
      BY <1>1, <2>1, <3>1 DEF Answered, Unread, i
    <3>3. o \in Seq(Tokens)
      BY <1>2, <1>5
    <3> HIDE DEF o, u
    <3> DEFINE m == Len(u)
    <3>c. u \in Seq(Tokens)
      BY <2>2
    <3>a. /\ n \in Nat /\ m \in Nat /\ Len(o \o u) = n + m
          /\ \A j \in 1..n : (o \o u)[j] = o[j]
          /\ \A j \in 1..n + m : j > n => (o \o u)[j] = u[j - n]
      BY <3>c, <3>3, Concat
    <3>b. m = 2
      BY <2>2
    <3> HIDE DEF n, m
    <3>4. /\ n \in Nat /\ Len(o \o u) = n + 2
          /\ \A j \in 1..n : (o \o u)[j] = o[j]
          /\ \A j \in 1..n + 2 : j > n => (o \o u)[j] = u[j - n]
      BY <3>a, <3>b
    <3>5. k > n
      <4>1. SUFFICES ASSUME k <= n PROVE FALSE
        BY <3>4
      <4>2. k \in 1..n
        BY <3>4, <4>1
      <4> QED BY <3>1, <3>2, <3>4, <4>2
    <3>6. k - n \in {1, 2} /\ k \in 1..n + 2
      BY <3>4, <3>5
    <3>7. u[k - n] = "prompt"
      BY <3>1, <3>4, <3>5, <3>6
    <3>8. k - n = 1
      BY <2>2, <3>6, <3>7
    <3> QED BY <3>4, <3>6, <3>8
  <2>10. Answered'
    <3>1. trailer[i] = <<"prompt">> => torn
      BY <1>1 DEF Answered, i
    <3>2. ~torn => typed = 0 /\ writes = asks
      BY <1>1, <2>1 DEF Answered
    <3>3. asks \in Nat /\ writes \in Nat /\ typed \in Nat
      BY <1>1 DEF LoginFields
    <3>4. ~promptShut
      BY <1>1, <2>1 DEF Course
    <3> QED BY <1>a, <2>1, <2>9, <3>1, <3>2, <3>3, <3>4
  <2> QED BY <1>4, <2>5, <2>7, <2>8, <2>10 DEF LoginInv
<1>7. CASE ProgramStops
  <2>1. /\ (program = "retry" /\ asks = MaxAsks) \/ (program = "asks" /\ promptShut)
        /\ program' = "exited" /\ asks' = asks /\ typed' = typed /\ output' = output
    BY <1>7 DEF ProgramStops
  <2>2. LoginFields'
    BY <1>1, <1>3, <2>1 DEF LoginFields
  <2>3. Heard'
    BY <1>1, <1>3, <2>1 DEF Heard, Held, Prompts
  <2>4. Course'
    BY <1>1, <1>3, <2>1 DEF Course
  <2>5. ~torn => /\ trailer[i] # <<"prompt">> /\ writes <= asks /\ typed = 0
                 /\ \A k \in 1..Len(output[i]) : output[i][k] # "prompt"
    <3>1. promptShut => writes = 0 /\ typed = 0
      BY <1>1 DEF Course, LoginFields
    <3> QED BY <1>1, <2>1, <3>1 DEF Answered, Unread, i
  <2>6. Answered'
    BY <1>a, <2>1, <2>5
  <2> QED BY <1>4, <2>2, <2>3, <2>4, <2>6 DEF LoginInv
\* Something else than a prompt is written.
<1>8. ASSUME NEW j \in Streams2, NEW u \in Seq(Tokens), u # <<>>, Write(j, u), \A k \in 1..Len(u) : u[k] \notin Halves,
             \A k \in 1..Len(u) : u[k] = "denied" => given = "wrong", asks' = asks, LoginFields',
             program' \notin {"start", "asks", "exited"} \/ (program' = "exited" /\ given = "wrong"),
             program' = "retry" => given = "wrong" /\ j = i, ~torn => typed' = 0 /\ \A k \in 1..Len(output[i]) : ~Unread(k),
             ~torn /\ program' = "retry" => writes = asks
      PROVE  LoginInv'
  <2>1. Fitting(Held(j), u)
    BY <1>8 DEF Fitting
  <2>2. /\ output' \in [Streams2 -> Seq(Tokens)] /\ Heard'
        /\ \A l \in Streams2 \ {j} : output'[l] = output[l]
        /\ output'[j] = output[j] \o u
        /\ LET h == trailer'[j] \o output'[j] IN h # <<>> /\ h[Len(h)] = u[Len(u)]
    BY <1>3, <1>8, <2>1, Written
  <2>3. u[Len(u)] \notin Halves
    BY <1>8, EmptySeq
  <2>4. Course'
    <3>1. program' = "retry" => LET h == trailer'[i] \o output'[i] IN h[Len(h)] \notin Halves
      BY <1>8, <2>2, <2>3
    <3>2. program' # "start"
      BY <1>8
    <3>3. Held(PromptStream)' = trailer'[i] \o output'[i]
      BY <1>3 DEF Held, i
    <3> QED BY <1>1, <1>3, <1>8, <3>1, <3>2, <3>3 DEF Course
  <2>5. ~torn => \A k \in 1..Len(output'[i]) : output'[i][k] # "prompt"
    <3>1. SUFFICES ASSUME ~torn, NEW k \in 1..Len(output'[i]), output'[i][k] = "prompt" PROVE FALSE
      OBVIOUS
    <3>2. \A l \in 1..Len(output[i]) : output[i][l] # "prompt"
      BY <1>8, <3>1 DEF Unread, i
    <3>3. CASE j # i
      BY <1>2, <2>2, <3>1, <3>2, <3>3
    <3>4. CASE j = i
      <4> DEFINE o == output[i]
                 n == Len(o)
                 m == Len(u)
      <4>1. o \in Seq(Tokens) /\ output'[i] = o \o u
        BY <1>2, <1>5, <2>2, <3>4
      <4>2. \A l \in 1..n : o[l] # "prompt"
        BY <3>2
      <4> HIDE DEF o
      <4>3. /\ n \in Nat /\ m \in Nat /\ Len(o \o u) = n + m
            /\ \A l \in 1..n : (o \o u)[l] = o[l]
            /\ \A l \in 1..n + m : l > n => (o \o u)[l] = u[l - n]
        BY <4>1, Concat
      <4>4. \A l \in 1..m : u[l] # "prompt"
        BY <1>8 DEF Halves
      <4> HIDE DEF n, m
      <4>5. k \in 1..n + m /\ (o \o u)[k] = "prompt"
        BY <3>1, <4>1, <4>3
      <4>6. CASE k <= n
        <5>1. k \in 1..n
          BY <4>3, <4>5, <4>6
        <5> QED BY <4>2, <4>3, <4>5, <5>1
      <4>7. CASE k > n
        <5>1. k - n \in 1..m
          BY <4>3, <4>5, <4>7
        <5> QED BY <4>3, <4>4, <4>5, <4>7, <5>1
      <4> QED BY <4>3, <4>5, <4>6, <4>7
    <3> QED BY <3>3, <3>4
  <2>6. Answered'
    <3>1. trailer[i] = <<"prompt">> => torn
      BY <1>1 DEF Answered, i
    <3>2. ~torn => writes <= asks
      BY <1>1 DEF Answered
    <3> QED BY <1>a, <1>8, <2>5, <3>1, <3>2
  <2> QED BY <1>4, <1>8, <2>2, <2>4, <2>6 DEF LoginInv
<1>9. /\ <<"nl">> \in Seq(Tokens) /\ <<"ec0">> \in Seq(Tokens) /\ <<"ec1", "ec2">> \in Seq(Tokens)
      /\ \A x \in {"noise", "denied"} : <<"nl", x>> \in Seq(Tokens)
  BY DEF Tokens
<1>10. ~torn => /\ typed > 0 /\ program = "asks" => typed - 1 = 0 /\ writes = asks
                /\ typed > 0 \/ program # "asks" => \A k \in 1..Len(output[i]) : ~Unread(k)
                /\ program # "asks" => typed = 0
  <2>1. asks \in Nat /\ writes \in Nat /\ typed \in Nat
    BY <1>1 DEF LoginFields
  <2> QED BY <1>1, <2>1 DEF Answered, i
<1>11. typed \in Nat /\ writes \in Nat /\ typed <= writes /\ (typed > 0 => typed - 1 \in Nat /\ typed - 1 <= writes)
  BY <1>1 DEF LoginFields
<1>12. CASE ProgramBoots
  <2>1. asks' = asks /\ program' = "boots"
    BY <1>12 DEF ProgramBoots
  <2>2. CASE program = "start" /\ UNCHANGED <<typed, output>>
    <3>1. LoginFields'
      BY <1>1, <1>3, <2>1, <2>2 DEF LoginFields
    <3>2. Heard'
      BY <1>1, <1>3, <2>1, <2>2 DEF Heard, Held, Prompts
    <3>3. Course'
      BY <1>1, <1>3, <2>1, <2>2 DEF Course
    <3>4. Answered'
      <4>1. ~torn => /\ trailer[i] # <<"prompt">> /\ writes <= asks /\ typed = 0
                     /\ \A k \in 1..Len(output[i]) : output[i][k] # "prompt"
        BY <1>1, <2>2 DEF Answered, Unread, i
      <4> QED BY <1>a, <2>1, <2>2, <4>1
    <3> QED BY <1>4, <3>1, <3>2, <3>3, <3>4 DEF LoginInv
  <2>3. CASE program = "asks" /\ typed > 0 /\ given = "right" /\ typed' = typed - 1 /\ Write(i, <<"nl">>)
    <3>1. output' \in [Streams2 -> Seq(Tokens)]
      BY <1>2, <1>5, <1>9, <2>3 DEF Write
    <3>2. LoginFields'
      BY <1>1, <1>3, <1>11, <2>1, <2>3, <3>1 DEF LoginFields
    <3>3. <<"nl">> # <<>> /\ \A k \in 1..Len(<<"nl">>) : <<"nl">>[k] \notin Halves /\ <<"nl">>[k] # "denied"
      BY DEF Halves
    <3> DEFINE u == <<"nl">>
    <3>4. u \in Seq(Tokens) /\ u # <<>> /\ Write(i, u) /\ \A k \in 1..Len(u) : u[k] \notin Halves /\ u[k] # "denied"
      BY <1>9, <2>3, <3>3
    <3> HIDE DEF u
    <3> QED BY <1>2, <1>8, <1>10, <2>1, <2>3, <3>2, <3>4
  <2> QED BY <1>12, <2>2, <2>3 DEF ProgramBoots, i
<1>13. CASE ProgramRejects
  <2> DEFINE x == IF method = "sudo" THEN "noise" ELSE "denied"
             u == <<"nl", x>>
  <2>1. /\ asks' = asks /\ program = "asks" /\ typed > 0 /\ given = "wrong" /\ typed' = typed - 1
        /\ Write(i, u) /\ program' \in {"exited", "retry"}
    BY <1>13 DEF ProgramRejects, i
  <2>2. u \in Seq(Tokens) /\ u # <<>>
    BY <1>9
  <2>3. \A k \in 1..Len(u) : u[k] \notin Halves
    BY DEF Halves
  <2> HIDE DEF u
  <2>4. output' \in [Streams2 -> Seq(Tokens)]
    BY <1>2, <1>5, <2>1, <2>2 DEF Write
  <2>5. LoginFields'
    BY <1>1, <1>3, <1>11, <2>1, <2>4 DEF LoginFields
  <2> QED BY <1>2, <1>8, <1>10, <2>1, <2>2, <2>3, <2>5
<1>14. CASE FirstStage
  <2>1. asks' = asks /\ typed' = typed
    BY <1>14 DEF FirstStage
  <2>2. PICK u \in {<<"ec0">>, <<"ec1", "ec2">>} :
          Write("stdout", u) /\ program \in {"boots", "fed"} /\ program' \in {"awaits", "up"}
    BY <1>14 DEF FirstStage
  <2>3. u \in Seq(Tokens) /\ u # <<>>
    <3>1. u = <<"ec0">> \/ u = <<"ec1", "ec2">>
      BY <2>2
    <3>2. CASE u = <<"ec0">>
      BY <1>9, <3>2
    <3>3. CASE u = <<"ec1", "ec2">>
      BY <1>9, <3>3
    <3> QED BY <3>1, <3>2, <3>3
  <2>4. \A k \in 1..Len(u) : u[k] \notin Halves /\ u[k] # "denied"
    <3>1. CASE u = <<"ec0">>
      BY <3>1 DEF Halves
    <3>2. CASE u = <<"ec1", "ec2">>
      <4>1. Len(u) = 2 /\ u[1] = "ec1" /\ u[2] = "ec2"
        BY <3>2
      <4> QED BY <4>1 DEF Halves
    <3> QED BY <2>2, <3>1, <3>2
  <2>5. output' \in [Streams2 -> Seq(Tokens)]
    BY <1>2, <1>5, <2>2, <2>3 DEF Write
  <2>6. LoginFields'
    BY <1>1, <1>3, <2>1, <2>2, <2>5 DEF LoginFields
  <2> QED BY <1>2, <1>8, <1>10, <2>1, <2>2, <2>3, <2>4, <2>6
<1> QED BY <1>6, <1>7, <1>12, <1>13, <1>14 DEF ProgramSteps

-----------------------------------------------------------------------------
\* What is kept of a stream is the beginning of a prompt.
LEMMA TrailerShape ==
  ASSUME LoginFields, Heard, NEW i \in Streams2
  PROVE  trailer[i] \in {<<>>, <<"prompt">>, <<"prompt", "rest">>}
<1> DEFINE t == trailer[i]
           o == output[i]
           s == t \o o
           a == Len(t)
<1>1. t \in Seq(Halves) /\ t \in Seq(Tokens) /\ o \in Seq(Tokens)
  <2>1. Halves \subseteq Tokens
    BY DEF Tokens
  <2>2. t \in Seq(Halves) /\ o \in Seq(Tokens)
    BY DEF LoginFields
  <2> QED BY <2>1, <2>2
<1>2. Prompts(s)
  BY DEF Heard, Held
<1> HIDE DEF t, o
<1>3. s \in Seq(Tokens) /\ a \in 0..Len(s) /\ \A k \in 1..a : t[k] = s[k]
  BY <1>1, Concat
<1>4. Past(t, LastEnd(t)) \in {<<>>, <<"prompt">>, <<"prompt", "rest">>}
  <2> HIDE DEF s
  <2> QED BY <1>1, <1>2, <1>3, Leftover
<1>5. LastEnd(t) \in 0..a /\ (LastEnd(t) = 0 \/ t[LastEnd(t)] \notin Halves)
  BY <1>1, LastEndIs
<1>6. LastEnd(t) = 0
  <2>1. \A k \in 1..a : t[k] \in Halves
    BY <1>1
  <2>2. a \in Nat
    BY <1>1
  <2> HIDE DEF a
  <2>3. LastEnd(t) # 0 => LastEnd(t) \in 1..a
    BY <1>5, <2>2
  <2> QED BY <1>5, <2>1, <2>3
<1>7. Past(t, 0) = t
  <2>1. Past(t, 0) \in Seq(Tokens) /\ Len(Past(t, 0)) = a - 0 /\ \A k \in 1..a - 0 : Past(t, 0)[k] = t[0 + k]
    <3>1. 0 \in 0..Len(t)
      BY <1>1
    <3> QED BY <1>1, <3>1, RestIs
  <2>2. a \in Nat /\ \A k \in 1..a : 0 + k = k
    BY <1>1
  <2>3. Len(Past(t, 0)) = a /\ \A k \in 1..a : Past(t, 0)[k] = t[k]
    BY <2>1, <2>2
  <2> QED BY <1>1, <2>1, <2>3, SameSeq DEF a
<1> QED BY <1>4, <1>6, <1>7 DEF t

\* The n first of what is not read of i, behind what was kept.
Read(i, n) == trailer[i] \o SubSeq(output[i], 1, n)
Left(i, n) == Past(Read(i, n), LastEnd(Read(i, n)))
Lines(i, n) == SubSeq(Read(i, n), 1, LastEnd(Read(i, n)))

LEMMA ReadSplits ==
  ASSUME LoginInv, NEW i \in Streams2, NEW n \in 1..Len(output[i])
  PROVE  LET rest == Past(output[i], n)
             s == Held(i)
             h == Left(i, n) \o rest
         IN /\ Left(i, n) \in {<<>>, <<"prompt">>, <<"prompt", "rest">>} /\ rest \in Seq(Tokens) /\ s # <<>>
            /\ Lines(i, n) \in Seq(Tokens)
            /\ \A k \in 1..Len(Lines(i, n)) : Lines(i, n)[k] = "denied" => given = "wrong"
            /\ Prompts(h) /\ \A k \in 1..Len(h) : h[k] = "denied" => given = "wrong"
            /\ h = <<>> \/ h[Len(h)] = s[Len(s)]
            /\ Left(i, n) = <<"prompt", "rest">> /\ trailer[i] # <<"prompt">> =>
                 n - 1 \in 1..Len(output[i]) /\ output[i][n - 1] = "prompt"
<1> DEFINE t == trailer[i]
           o == output[i]
           f == SubSeq(o, 1, n)
           rest == Past(o, n)
           s == Held(i)
           tokens == Read(i, n)
           e == LastEnd(tokens)
           left == Left(i, n)
           lines == Lines(i, n)
           a == Len(t)
           b == Len(o)
           m == a + n
<1>1. t \in Seq(Tokens) /\ o \in Seq(Tokens) /\ n \in 1..b
  <2>1. Halves \subseteq Tokens
    BY DEF Tokens
  <2>2. t \in Seq(Halves) /\ o \in Seq(Tokens)
    BY DEF LoginInv, LoginFields
  <2> QED BY <2>1, <2>2
<1>2. Prompts(s) /\ \A k \in 1..Len(s) : s[k] = "denied" => given = "wrong"
  BY DEF LoginInv, Heard
<1>3. s = t \o o /\ tokens = t \o f /\ left = Past(tokens, e) /\ lines = SubSeq(tokens, 1, e)
  BY DEF Held, Read, Left, Lines
<1>4. t \in {<<>>, <<"prompt">>, <<"prompt", "rest">>}
  BY TrailerShape DEF LoginInv
<1> HIDE DEF t, o, s, tokens, left, lines, e
<1>5. f \in Seq(Tokens) /\ Len(f) = n /\ \A k \in 1..n : f[k] = o[k]
  <2>1. \A k \in 1..n : k \in 1..Len(o) /\ (1 + k) - 1 = k
    BY <1>1
  <2> QED BY <1>1, <2>1, SubSeqProperties, ElementOfSeq
<1>6. rest \in Seq(Tokens) /\ Len(rest) = b - n /\ \A k \in 1..b - n : rest[k] = o[n + k]
  BY <1>1, RestIs
<1> HIDE DEF f, rest
<1>7. /\ s \in Seq(Tokens) /\ Len(s) = a + b /\ a \in Nat /\ b \in Nat
      /\ \A k \in 1..a : s[k] = t[k]
      /\ \A k \in 1..a + b : k > a => s[k] = o[k - a]
  BY <1>1, <1>3, Concat
<1>8. /\ tokens \in Seq(Tokens) /\ Len(tokens) = a + n
      /\ \A k \in 1..a : tokens[k] = t[k]
      /\ \A k \in 1..a + n : k > a => tokens[k] = f[k - a]
  <2>1. a = Len(t) /\ n = Len(f) /\ f \in Seq(Tokens)
    BY <1>5
  <2> HIDE DEF a
  <2> QED BY <1>1, <1>3, <2>1, ConcatAt
<1> HIDE DEF a, b
<1>9. n \in 1..b /\ n \in Nat /\ m \in 0..Len(s) /\ m \in Nat
  BY <1>1, <1>7
<1>10. \A k \in 1..m : tokens[k] = s[k]
  <2>1. SUFFICES ASSUME NEW k \in 1..m PROVE tokens[k] = s[k]
    OBVIOUS
  <2>2. CASE k <= a
    <3>1. k \in 1..a
      BY <1>7, <2>2
    <3> QED BY <1>7, <1>8, <3>1
  <2>3. CASE k > a
    <3>1. k \in 1..a + b /\ k - a \in 1..n
      BY <1>7, <1>9, <2>3
    <3> QED BY <1>5, <1>7, <1>8, <2>3, <3>1
  <2> QED BY <1>7, <2>2, <2>3
<1>11. Len(tokens) = m
  BY <1>8
<1> HIDE DEF m
<1>12. /\ e \in 0..m /\ left \in {<<>>, <<"prompt">>, <<"prompt", "rest">>}
       /\ e = 0 \/ s[e] \notin Halves
  BY <1>2, <1>3, <1>7, <1>8, <1>9, <1>10, <1>11, Leftover DEF e
<1>13. left \in Seq(Tokens) /\ Len(left) = m - e /\ \A k \in 1..m - e : left[k] = tokens[e + k]
  <2>1. e \in 0..Len(tokens)
    BY <1>11, <1>12
  <2>2. left \in Seq(Tokens) /\ Len(left) = Len(tokens) - e /\ \A k \in 1..Len(tokens) - e : left[k] = tokens[e + k]
    <3>1. tokens \in Seq(Tokens)
      BY <1>8
    <3> QED BY <1>3, <2>1, <3>1, RestIs
  <2> QED BY <1>11, <2>2
<1>14. lines \in Seq(Tokens) /\ \A k \in 1..Len(lines) : lines[k] = "denied" => given = "wrong"
  <2>1. lines \in Seq(Tokens) /\ Len(lines) = e /\ \A k \in 1..e : lines[k] = tokens[k]
    <3>1. \A k \in 1..e : k \in 1..Len(tokens) /\ (1 + k) - 1 = k
      BY <1>9, <1>11, <1>12
    <3> QED BY <1>3, <1>8, <1>9, <1>11, <1>12, <3>1, SubSeqProperties, ElementOfSeq
  <2>2. \A k \in 1..e : k \in 1..m /\ k \in 1..Len(s)
    BY <1>7, <1>9, <1>12
  <2> QED BY <1>2, <1>10, <2>1, <2>2
<1> DEFINE h == left \o rest
           r == Past(s, e)
<1>15. e \in 0..Len(s)
  BY <1>7, <1>9, <1>12
<1>16. r \in Seq(Tokens) /\ Len(r) = Len(s) - e /\ \A k \in 1..Len(s) - e : r[k] = s[e + k]
  BY <1>7, <1>15, RestIs
<1>17. Prompts(r)
  BY <1>2, <1>7, <1>12, <1>15, RestPrompts
<1> DEFINE c == m - e
           d == b - n
<1>18. c = m - e /\ d = b - n /\ c \in Nat /\ d \in Nat /\ Len(s) - e = c + d /\ c + d \in Nat
  BY <1>7, <1>9, <1>12 DEF m
<1> HIDE DEF c, d
<1>19. /\ h \in Seq(Tokens) /\ Len(h) = c + d
       /\ \A k \in 1..c : h[k] = left[k]
       /\ \A k \in 1..c + d : k > c => h[k] = rest[k - c]
  <2>1. Len(left) = c /\ Len(rest) = d
    BY <1>6, <1>13, <1>18
  <2>2. left \in Seq(Tokens) /\ rest \in Seq(Tokens)
    BY <1>6, <1>13
  <2> QED BY <2>1, <2>2, ConcatAt
<1>20. h = r
  <2>1. ASSUME NEW k \in 1..c + d PROVE h[k] = s[e + k]
    <3>1. CASE k <= c
      <4>1. k \in 1..c /\ e + k \in 1..m
        BY <1>9, <1>12, <1>18, <3>1
      <4> QED BY <1>10, <1>13, <1>18, <1>19, <4>1
    <3>2. CASE k > c
      <4>1. k - c \in 1..d /\ e + k \in 1..a + b /\ e + k > a /\ (e + k) - a = n + (k - c)
        BY <1>7, <1>9, <1>12, <1>18, <3>2 DEF m
      <4>2. h[k] = o[n + (k - c)]
        BY <1>6, <1>18, <1>19, <3>2, <4>1
      <4>3. s[e + k] = o[(e + k) - a]
        BY <1>7, <4>1
      <4> QED BY <4>1, <4>2, <4>3
    <3>3. k <= c \/ k > c
      BY <1>18
    <3> QED BY <3>1, <3>2, <3>3
  <2> HIDE DEF h, r
  <2>2. Len(r) = Len(h) /\ \A k \in 1..Len(h) : h[k] = r[k]
    BY <1>16, <1>18, <1>19, <2>1
  <2> QED BY <1>16, <1>19, <2>2, SameSeq
<1> HIDE DEF r, h
<1>21. Prompts(h)
  BY <1>17, <1>20
<1>22. \A k \in 1..Len(h) : h[k] = "denied" => given = "wrong"
  <2>1. \A k \in 1..Len(s) - e : e + k \in 1..Len(s)
    BY <1>7, <1>12, <1>15
  <2> QED BY <1>2, <1>16, <1>20, <2>1
<1>23. h = <<>> \/ h[Len(h)] = s[Len(s)]
  <2>1. CASE Len(s) - e = 0
    BY <1>16, <1>20, <2>1, EmptySeq
  <2>2. CASE Len(s) - e # 0
    <3>1. Len(s) - e \in 1..Len(s) - e /\ e + (Len(s) - e) = Len(s)
      BY <1>7, <1>15, <2>2
    <3> QED BY <1>16, <1>20, <3>1
  <2> QED BY <2>1, <2>2
<1>24. s # <<>>
  BY <1>7, <1>9
<1>25. ASSUME left = <<"prompt", "rest">>, t # <<"prompt">>
       PROVE  n - 1 \in 1..b /\ o[n - 1] = "prompt"
  <2>1. Len(left) = 2 /\ left[1] = "prompt"
    BY <1>25
  <2>2. c = 2 /\ e + 1 = m - 1 /\ e + 1 \in 1..m /\ 1 \in 1..m - e
    <3>1. c = 2
      BY <1>13, <1>18, <2>1
    <3> QED BY <1>9, <1>12, <1>18, <3>1
  <2>3. s[e + 1] = "prompt"
    BY <1>10, <1>13, <2>1, <2>2
  <2>4. n # 1
    <3>1. SUFFICES ASSUME n = 1 PROVE FALSE
      OBVIOUS
    <3>2. e + 1 = a /\ a \in 1..a /\ a >= 1
      BY <1>7, <1>9, <1>12, <2>2, <3>1 DEF m
    <3>3. t[a] = "prompt"
      BY <1>7, <2>3, <3>2
    <3>4. t = <<"prompt", "rest">>
      BY <1>4, <1>25, <3>2, EmptySeq DEF a
    <3>5. a = 2 /\ t[2] = "rest"
      BY <3>4 DEF a
    <3> QED BY <3>3, <3>5
  <2>5. n - 1 \in 1..b /\ e + 1 \in 1..a + b /\ e + 1 > a /\ (e + 1) - a = n - 1
    BY <1>7, <1>9, <2>2, <2>4 DEF m
  <2> QED BY <1>7, <2>3, <2>5
<1> QED BY <1>6, <1>12, <1>14, <1>21, <1>22, <1>23, <1>24, <1>25 DEF t, o, s, left, lines, h, rest, b

\* What a prompt makes of the protocol: the stream is shut, the attempt fails, or
\* the password is written.
Prompted(q, x, y, half) ==
  /\ q.program = x /\ q.torn = (torn \/ half)
  /\ \/ /\ given = "none" /\ method = "ssh" /\ q.promptShut = TRUE
        /\ q.sent = sent /\ q.writes = writes /\ q.typed = typed /\ q.outcome = y
     \/ /\ given = "none" /\ q.promptShut = promptShut
        /\ q.sent = sent /\ q.writes = writes /\ q.typed = typed /\ q.outcome = IF y = "pending" THEN "required" ELSE y
     \/ /\ given # "none" /\ sent /\ q.promptShut = promptShut
        /\ q.sent = sent /\ q.writes = writes /\ q.typed = typed /\ q.outcome = IF y = "pending" THEN "incorrect" ELSE y
     \/ /\ given # "none" /\ q.promptShut = promptShut
        /\ q.sent = TRUE /\ q.writes = writes + 1 /\ q.typed = typed + 1 /\ q.outcome = y

LEMMA PromptCases ==
  ASSUME NEW x, NEW y, NEW half \in BOOLEAN, given \in {"none", "right", "wrong"}
  PROVE  Prompted(OnPrompt(After(x, y), half), x, y, half)
<1> DEFINE p == After(x, y)
           r == [p EXCEPT !.torn = @ \/ half]
           q == OnPrompt(p, half)
<1>1. /\ r.sent = sent /\ r.writes = writes /\ r.typed = typed /\ r.outcome = y /\ r.promptShut = promptShut
      /\ r.program = x /\ r.torn = (torn \/ half) /\ p.sent = sent
      /\ DOMAIN r = {"sent", "writes", "typed", "outcome", "promptShut", "program", "torn"}
  BY DEF After
<1>2. CASE given = "none" /\ method = "ssh"
  <2>1. q = [r EXCEPT !.promptShut = TRUE]
    BY <1>2 DEF OnPrompt
  <2> HIDE DEF r
  <2> QED BY <1>1, <1>2, <2>1 DEF Prompted
<1>3. CASE given = "none" /\ method # "ssh"
  <2>1. q = FailWith(r, "required")
    BY <1>3 DEF OnPrompt
  <2> HIDE DEF r
  <2>2. q = IF y = "pending" THEN [r EXCEPT !.outcome = "required"] ELSE r
    BY <1>1, <2>1 DEF FailWith
  <2> QED BY <1>1, <1>3, <2>2 DEF Prompted
<1>4. CASE given # "none" /\ sent /\ method # "ssh"
  <2>1. q = FailWith(r, "incorrect")
    BY <1>1, <1>4 DEF OnPrompt
  <2> HIDE DEF r
  <2>2. q = IF y = "pending" THEN [r EXCEPT !.outcome = "incorrect"] ELSE r
    BY <1>1, <2>1 DEF FailWith
  <2> QED BY <1>1, <1>4, <2>2 DEF Prompted
<1>5. CASE given # "none" /\ ~(sent /\ method # "ssh")
  <2>1. q = WritePassword(r)
    BY <1>1, <1>5 DEF OnPrompt
  <2> HIDE DEF r
  <2>2. q = [r EXCEPT !.sent = TRUE, !.writes = writes + 1, !.typed = typed + 1]
    BY <1>1, <2>1 DEF WritePassword
  <2> QED BY <1>1, <1>5, <2>2 DEF Prompted
<1> HIDE DEF q
<1> QED BY <1>2, <1>3, <1>4, <1>5 DEF q

LEMMA ReceiveKeeps ==
  ASSUME LoginInv, NEW stream \in Streams2, NEW n \in 1..Len(output[stream]), OnReceive(stream, n)
  PROVE  LoginInv'
<1> DEFINE i == PromptStream
           o == output[stream]
           rest == Past(o, n)
           left == Left(stream, n)
           lines == Lines(stream, n)
           p == OnLines(Protocol, lines)
           half == left = <<"prompt">>
           q == IF left = <<>> \/ stream # i THEN p ELSE OnPrompt(p, half)
           h == left \o rest
           s == Held(stream)
<1>1. LoginFields /\ Heard /\ Course /\ Answered /\ Reasons
  BY DEF LoginInv
<1>2. i \in Streams2
  BY DEF PromptStream, Streams2
<1>3. method' = method /\ given' = given /\ asks' = asks /\ i' = i
  BY DEF OnReceive, PromptStream
<1>4. /\ outcome = "pending" /\ trailer' = [trailer EXCEPT ![stream] = left]
      /\ sent' = q.sent /\ writes' = q.writes /\ typed' = q.typed /\ outcome' = q.outcome
      /\ promptShut' = q.promptShut /\ program' = q.program /\ torn' = q.torn
      /\ output' = [output EXCEPT ![stream] = rest]
  BY DEF OnReceive, Split, Past, Read, Left, Lines
<1>5. /\ left \in {<<>>, <<"prompt">>, <<"prompt", "rest">>} /\ rest \in Seq(Tokens) /\ s # <<>>
      /\ lines \in Seq(Tokens)
      /\ \A k \in 1..Len(lines) : lines[k] = "denied" => given = "wrong"
      /\ Prompts(h) /\ \A k \in 1..Len(h) : h[k] = "denied" => given = "wrong"
      /\ h = <<>> \/ h[Len(h)] = s[Len(s)]
      /\ left = <<"prompt", "rest">> /\ trailer[stream] # <<"prompt">> => n - 1 \in 1..Len(o) /\ o[n - 1] = "prompt"
  BY ReadSplits
<1>6. left \in Seq(Halves)
  <2>1. <<>> \in Seq(Halves) /\ <<"prompt">> \in Seq(Halves) /\ <<"prompt", "rest">> \in Seq(Halves)
    BY DEF Halves
  <2> HIDE DEF left
  <2> QED BY <1>5, <2>1
<1>7. PICK x \in Programs, y \in Known : p = After(x, y)
  <2>1. p \in Fed
    <3>1. outcome \in Known
      BY <1>4 DEF Known
    <3> HIDE DEF lines
    <3> QED BY <1>5, <3>1, OnLinesKeeps
  <2> HIDE DEF p
  <2> QED BY <2>1 DEF Fed
<1>8. output \in [Streams2 -> Seq(Tokens)] /\ trailer \in [Streams2 -> Seq(Halves)] /\ o \in Seq(Tokens)
  BY <1>1 DEF LoginFields
<1> HIDE DEF rest, left, lines, p, s, i, h
<1>9. /\ output' \in [Streams2 -> Seq(Tokens)] /\ trailer' \in [Streams2 -> Seq(Halves)]
      /\ output'[stream] = rest /\ trailer'[stream] = left
      /\ \A j \in Streams2 \ {stream} : output'[j] = output[j] /\ trailer'[j] = trailer[j]
  BY <1>4, <1>5, <1>6, <1>8
<1>10. Heard'
  <2>1. ASSUME NEW j \in Streams2
        PROVE  Prompts(Held(j))' /\ ((\E k \in 1..Len(Held(j)) : Held(j)[k] = "denied") => given = "wrong")'
    <3> DEFINE w == IF j = stream THEN h ELSE Held(j)
    <3>1. Held(j)' = w
      BY <1>9 DEF Held, h
    <3>2. Prompts(w) /\ ((\E k \in 1..Len(w) : w[k] = "denied") => given = "wrong")
      BY <1>1, <1>5 DEF Heard
    <3> HIDE DEF w
    <3>3. Prompts(Held(j))'
      BY <3>1, <3>2 DEF Prompts
    <3>4. ((\E k \in 1..Len(Held(j)) : Held(j)[k] = "denied") => given = "wrong")'
      BY <1>3, <3>1, <3>2
    <3> QED BY <3>3, <3>4
  <2> QED BY <2>1 DEF Heard
<1>11. /\ p.sent = sent /\ p.writes = writes /\ p.typed = typed /\ p.outcome = y /\ p.promptShut = promptShut
       /\ p.program = x /\ p.torn = torn
  BY <1>7 DEF After
<1> DEFINE asked == left # <<>> /\ stream = i
<1>12. /\ program' = x /\ torn' = (torn \/ (asked /\ half))
       /\ \/ /\ ~asked /\ promptShut' = promptShut
             /\ sent' = sent /\ writes' = writes /\ typed' = typed /\ outcome' = y
          \/ /\ asked /\ given = "none" /\ method = "ssh" /\ promptShut' = TRUE
             /\ sent' = sent /\ writes' = writes /\ typed' = typed /\ outcome' = y
          \/ /\ asked /\ given = "none" /\ promptShut' = promptShut
             /\ sent' = sent /\ writes' = writes /\ typed' = typed /\ outcome' = IF y = "pending" THEN "required" ELSE y
          \/ /\ asked /\ given # "none" /\ sent /\ promptShut' = promptShut
             /\ sent' = sent /\ writes' = writes /\ typed' = typed /\ outcome' = IF y = "pending" THEN "incorrect" ELSE y
          \/ /\ asked /\ given # "none" /\ promptShut' = promptShut
             /\ sent' = TRUE /\ writes' = writes + 1 /\ typed' = typed + 1 /\ outcome' = y
  <2>1. CASE ~asked
    <3>1. q = p
      BY <2>1
    <3>2. torn' = torn /\ torn \in BOOLEAN
      BY <1>1, <1>4, <1>11, <3>1 DEF LoginFields
    <3> QED BY <1>4, <1>11, <2>1, <3>1, <3>2
  <2>2. CASE asked
    <3>1. q = OnPrompt(After(x, y), half)
      BY <1>7, <2>2
    <3> DEFINE r == OnPrompt(After(x, y), half)
    <3>2. given \in {"none", "right", "wrong"} /\ half \in BOOLEAN
      BY <1>1 DEF LoginFields
    <3>3. /\ r.program = x /\ r.torn = (torn \/ half)
          /\ \/ /\ given = "none" /\ method = "ssh" /\ r.promptShut = TRUE
                /\ r.sent = sent /\ r.writes = writes /\ r.typed = typed /\ r.outcome = y
             \/ /\ given = "none" /\ r.promptShut = promptShut
                /\ r.sent = sent /\ r.writes = writes /\ r.typed = typed /\ r.outcome = IF y = "pending" THEN "required" ELSE y
             \/ /\ given # "none" /\ sent /\ r.promptShut = promptShut
                /\ r.sent = sent /\ r.writes = writes /\ r.typed = typed /\ r.outcome = IF y = "pending" THEN "incorrect" ELSE y
             \/ /\ given # "none" /\ r.promptShut = promptShut
                /\ r.sent = TRUE /\ r.writes = writes + 1 /\ r.typed = typed + 1 /\ r.outcome = y
      <4>1. Prompted(r, x, y, half)
        <5> HIDE DEF half
        <5> QED BY <3>2, PromptCases
      <4> QED BY <4>1 DEF Prompted
    <3> HIDE DEF r
    <3>4. q = r
      BY <3>1 DEF r
    <3> QED BY <1>4, <2>2, <3>3, <3>4
  <2> QED BY <2>1, <2>2
\* A prompt read whole, for the first time, is the last of what can be read.
<1>13. ASSUME asked, ~torn'
       PROVE  program = "asks" /\ typed = 0 /\ ~promptShut /\ rest = <<>> /\ writes + 1 = asks /\ left # <<"prompt">>
  <2>1. ~torn /\ left = <<"prompt", "rest">>
    BY <1>5, <1>12, <1>13
  <2>2. trailer[stream] # <<"prompt">>
    BY <1>1, <1>13, <2>1 DEF Answered, i
  <2>3. n - 1 \in 1..Len(o) /\ o[n - 1] = "prompt"
    BY <1>5, <2>1, <2>2
  <2>4. program = "asks" /\ typed = 0 /\ ~promptShut /\ (n - 1) + 1 = Len(o)
    BY <1>1, <1>13, <2>1, <2>3 DEF Answered, Unread, i
  <2>5. writes + 1 = asks
    <3>1. writes + 1 = asks + typed /\ asks \in Nat
      BY <1>1, <2>1, <2>4 DEF Answered, LoginFields
    <3> QED BY <2>4, <3>1
  <2>6. rest = <<>>
    <3>1. n \in 1..Len(o) /\ Len(o) \in Nat
      BY <1>8
    <3>2. Len(rest) = Len(o) - n
      BY <1>8, <3>1, RestIs DEF rest
    <3> QED BY <1>5, <2>4, <3>1, <3>2, EmptySeq
  <2> QED BY <2>1, <2>4, <2>5, <2>6
<1>14. (x = program \/ (program = "awaits" /\ x = "fed")) /\ (y \in {"pending", "connected"} \/ (given = "wrong" /\ y \in {"incorrect", "auth"}))
  BY DEF Programs, Known
<1>15. /\ asks \in 0..MaxAsks /\ asks \in Nat /\ typed \in Nat /\ writes \in Nat /\ typed <= writes
       /\ sent \in BOOLEAN /\ (sent <=> writes > 0) /\ torn \in BOOLEAN /\ promptShut \in BOOLEAN
       /\ method \in {"sudo", "su", "doas", "ssh"} /\ given \in {"none", "right", "wrong"}
       /\ program \in {"start", "asks", "retry", "boots", "awaits", "fed", "up", "exited"}
  BY <1>1, LoginAssumption DEF LoginFields
<1>16. LoginFields'
  <2>1. /\ typed' \in Nat /\ writes' \in Nat /\ typed' <= writes'
        /\ sent' \in BOOLEAN /\ (sent' <=> writes' > 0) /\ torn' \in BOOLEAN /\ promptShut' \in BOOLEAN
    <3>1. torn' \in BOOLEAN /\ promptShut' \in BOOLEAN
      <4>1. torn' = (torn \/ (asked /\ half)) /\ (promptShut' = promptShut \/ promptShut' = TRUE)
        BY <1>12
      <4> HIDE DEF asked, half
      <4>2. promptShut' \in BOOLEAN
        BY <1>15, <4>1
      <4> QED BY <4>1, <4>2
    <3>2. /\ typed' \in Nat /\ writes' \in Nat /\ typed' <= writes'
          /\ sent' \in BOOLEAN /\ (sent' <=> writes' > 0)
      <4>1. \/ sent' = sent /\ writes' = writes /\ typed' = typed
            \/ sent' = TRUE /\ writes' = writes + 1 /\ typed' = typed + 1
        BY <1>12
      <4>2. CASE sent' = sent /\ writes' = writes /\ typed' = typed
        BY <1>15, <4>2
      <4>3. CASE sent' = TRUE /\ writes' = writes + 1 /\ typed' = typed + 1
        <5>1. writes' > 0 /\ typed' \in Nat /\ writes' \in Nat /\ typed' <= writes'
          BY <1>15, <4>3
        <5>2. sent'
          BY <4>3
        <5> QED BY <4>3, <5>1, <5>2
      <4> QED BY <4>1, <4>2, <4>3
    <3> QED BY <3>1, <3>2
  <2>2. outcome' \in {"pending", "connected", "required", "incorrect", "auth"}
    BY <1>12, <1>14
  <2>3. program' \in {"start", "asks", "retry", "boots", "awaits", "fed", "up", "exited"}
    BY <1>12, <1>14, <1>15
  <2> QED BY <1>3, <1>9, <1>15, <2>1, <2>2, <2>3 DEF LoginFields
<1>17. Course'
  <2>2. program \in {"start", "retry"} => Held(i) = <<>> \/ Held(i)[Len(Held(i))] \notin Halves
    BY <1>1 DEF Course, i
  <2>3. Held(i)' = IF stream = i THEN h ELSE Held(i)
    BY <1>2, <1>3, <1>9 DEF Held, h
  <2>4. program' \in {"start", "retry"} => program' = program
    BY <1>12, <1>14
  <2>5. program' \in {"start", "retry"} => Held(i)' = <<>> \/ Held(i)'[Len(Held(i)')] \notin Halves
    BY <1>5, <2>2, <2>3, <2>4 DEF s
  <2>6. program' = "start" => stream # i /\ Held(i)' = <<>>
    BY <1>1, <1>5, <2>3, <2>4 DEF Course, s, i
  <2>7. Held(PromptStream)' = Held(i)'
    BY DEF i
  <2>8. promptShut' => given = "none" /\ method = "ssh" /\ program' # "start"
    BY <1>1, <1>12, <1>14, <2>6 DEF Course
  <2>9. given = "none" => writes' = 0
    BY <1>1, <1>12 DEF Course
  <2>10. /\ program' = "retry" => given = "wrong"
         /\ given = "right" => asks <= 1 /\ program' # "exited"
         /\ program' = "exited" /\ given = "none" => method = "ssh"
         /\ program' = "start" => asks = 0
    BY <1>1, <1>12, <1>14 DEF Course
  <2> QED BY <1>3, <2>5, <2>6, <2>7, <2>8, <2>9, <2>10 DEF Course
<1>18. Answered'
  <2>1. ASSUME ~torn'
        PROVE  /\ trailer'[i] # <<"prompt">>
               /\ writes' <= asks
               /\ program' # "asks" => typed' = 0
               /\ program' \in {"start", "retry"} => writes' = asks
               /\ program' = "asks" => writes' + 1 = asks + typed'
               /\ \A k \in 1..Len(output'[i]) : output'[i][k] = "prompt" =>
                    program' = "asks" /\ typed' = 0 /\ ~promptShut' /\ k + 1 = Len(output'[i])
    <3>1. ~torn
      BY <1>12, <2>1
    <3>2. CASE asked
      <4>1. program' = "asks" /\ trailer'[i] # <<"prompt">> /\ output'[i] = <<>>
        BY <1>9, <1>12, <1>13, <1>14, <2>1, <3>2
      <4>2. writes' <= asks /\ writes' + 1 = asks + typed'
        BY <1>12, <1>13, <1>15, <2>1, <3>2
      <4> QED BY <4>1, <4>2
    <3>3. CASE ~asked
      <4>1. program' = x /\ typed' = typed /\ writes' = writes /\ promptShut' = promptShut
        BY <1>12, <3>3
      <4>2. trailer'[i] # <<"prompt">>
        <5>1. trailer[i] # <<"prompt">>
          BY <1>1, <3>1 DEF Answered, i
        <5>2. CASE stream = i
          <6>1. left = <<>> /\ <<>> # <<"prompt">>
            BY <3>3, <5>2
          <6> QED BY <1>9, <5>2, <6>1
        <5>3. CASE stream # i
          BY <1>2, <1>9, <5>1, <5>3
        <5> QED BY <5>2, <5>3
      <4>3. /\ writes <= asks
            /\ program # "asks" => typed = 0
            /\ program \in {"start", "retry"} => writes = asks
            /\ program = "asks" => writes + 1 = asks + typed
        BY <1>1, <3>1 DEF Answered
      <4>4. \A k \in 1..Len(output[i]) : output[i][k] = "prompt" =>
              program = "asks" /\ typed = 0 /\ ~promptShut /\ k + 1 = Len(output[i])
        BY <1>1, <3>1 DEF Answered, Unread, i
      <4>5. ASSUME NEW k \in 1..Len(output'[i]), output'[i][k] = "prompt"
            PROVE  program = "asks" /\ typed = 0 /\ ~promptShut /\ k + 1 = Len(output'[i])
        <5>1. CASE stream # i
          <6>1. output'[i] = output[i]
            BY <1>2, <1>9, <5>1
          <6> QED BY <4>4, <4>5, <6>1
        <5>2. CASE stream = i
          <6> DEFINE b == Len(o)
          <6>1. n \in 1..b /\ b \in Nat
            BY <1>8
          <6>2. Len(rest) = b - n /\ \A j \in 1..b - n : rest[j] = o[n + j]
            <7>1. n \in 0..Len(o)
              BY <6>1
            <7>2. Len(Past(o, n)) = Len(o) - n /\ \A j \in 1..Len(o) - n : Past(o, n)[j] = o[n + j]
              BY <1>8, <7>1, RestIs
            <7> QED BY <7>2 DEF rest
          <6>3. output'[i] = rest
            BY <1>9, <5>2
          <6>4. \A j \in 1..b : o[j] = "prompt" => program = "asks" /\ typed = 0 /\ ~promptShut /\ j + 1 = b
            BY <4>4, <5>2
          <6> HIDE DEF b, o
          <6>5. k \in 1..b - n /\ n + k \in 1..b /\ rest[k] = "prompt"
            BY <4>5, <6>1, <6>2, <6>3
          <6>6. o[n + k] = "prompt"
            BY <6>2, <6>5
          <6>7. program = "asks" /\ typed = 0 /\ ~promptShut /\ (n + k) + 1 = b
            BY <6>4, <6>5, <6>6
          <6>8. k + 1 = b - n
            BY <6>1, <6>5, <6>7
          <6> QED BY <6>2, <6>3, <6>7, <6>8
        <5> QED BY <5>1, <5>2
      <4>6. program' = "asks" <=> program = "asks"
        BY <1>14, <4>1
      <4>7. program' \in {"start", "retry"} => program' = program
        BY <1>14, <4>1
      <4> QED BY <4>1, <4>2, <4>3, <4>5, <4>6, <4>7
    <3> QED BY <3>2, <3>3
  <2> QED BY <1>3, <2>1 DEF Answered, Unread, i
<1>19. Reasons'
  <2>1. ASSUME given = "right", ~torn', asked PROVE ~sent
    <3>1. writes + 1 = asks /\ asks <= 1
      BY <1>1, <1>13, <2>1 DEF Course
    <3> QED BY <1>15, <3>1
  <2>2. outcome' = "incorrect" => given = "wrong" \/ torn'
    BY <1>12, <1>14, <1>15, <2>1
  <2>3. given = "right" /\ ~torn' => outcome' \in {"pending", "connected"}
    BY <1>12, <1>14, <1>15, <2>1
  <2>4. outcome' # "eof"
    BY <1>12, <1>14
  <2> QED BY <1>3, <2>2, <2>3, <2>4 DEF Reasons
<1> QED BY <1>10, <1>16, <1>17, <1>18, <1>19 DEF LoginInv

LEMMA EofKeeps == LoginInv /\ OnEof => LoginInv'
<1> SUFFICES ASSUME LoginInv, OnEof PROVE LoginInv'
  OBVIOUS
<1>1. LoginFields /\ Heard /\ Course /\ Answered /\ Reasons
  BY DEF LoginInv
<1>2. /\ program = "exited" /\ outcome' = "eof"
      /\ UNCHANGED <<method, given, program, asks, typed, output, trailer, promptShut, sent, writes, torn>>
  BY DEF OnEof
<1>3. LoginFields'
  BY <1>1, <1>2 DEF LoginFields
<1>4. Heard'
  BY <1>1, <1>2 DEF Heard, Held, Prompts
<1>5. PromptStream' = PromptStream
  BY <1>2 DEF PromptStream
<1>6. Course'
  BY <1>1, <1>2, <1>5 DEF Course, Held
<1>7. Answered'
  BY <1>1, <1>2, <1>5 DEF Answered, Unread
<1>8. Reasons'
  BY <1>1, <1>2 DEF Reasons, Course
<1> QED BY <1>3, <1>4, <1>6, <1>7, <1>8 DEF LoginInv

LEMMA LoginStep == LoginInv /\ [LoginNext]_loginVars => LoginInv'
<1> SUFFICES ASSUME LoginInv, [LoginNext]_loginVars PROVE LoginInv'
  OBVIOUS
<1>1. CASE ProgramSteps
  BY <1>1, ProgramKeeps
<1>2. CASE ReadsSome
  BY <1>2, ReceiveKeeps DEF ReadsSome
<1>3. CASE OnEof
  BY <1>3, EofKeeps
<1>4. CASE UNCHANGED loginVars
  <2>1. LoginFields /\ Heard /\ Course /\ Answered /\ Reasons
    BY DEF LoginInv
  <2>2. /\ UNCHANGED <<method, given, program, asks, typed, output>>
        /\ UNCHANGED <<trailer, promptShut, sent, writes, outcome, torn>>
    BY <1>4 DEF loginVars
  <2>3. PromptStream' = PromptStream
    BY <2>2 DEF PromptStream
  <2>4. LoginFields' /\ Reasons'
    BY <2>1, <2>2 DEF LoginFields, Reasons
  <2>5. Heard'
    BY <2>1, <2>2 DEF Heard, Held, Prompts
  <2>6. Course'
    BY <2>1, <2>2, <2>3 DEF Course, Held
  <2>7. Answered'
    BY <2>1, <2>2, <2>3 DEF Answered, Unread
  <2> QED BY <2>4, <2>5, <2>6, <2>7 DEF LoginInv
<1> QED BY <1>1, <1>2, <1>3, <1>4 DEF LoginNext

\* A password is blamed only when it is wrong or its prompt came in two pieces, the
\* right one gets in, no prompt is answered twice, and a missing password is named.
THEOREM LoginCorrect == LoginSpec => []LoginSafe
<1>1. LoginInv => LoginSafe
  <2> SUFFICES ASSUME LoginInv PROVE LoginSafe
    OBVIOUS
  <2>1. LoginFields /\ Heard /\ Answered /\ Reasons
    BY DEF LoginInv
  <2>2. LoginTypeOK
    BY <2>1, TrailerShape DEF LoginFields, LoginTypeOK
  <2>3. writes <= asks \/ torn
    BY <2>1 DEF Answered
  <2> QED BY <2>1, <2>2, <2>3 DEF Reasons, LoginSafe, BlamedIfWrong, RightConnects, OneAnswer, RequiredNamed
<1> QED BY <1>1, InitLogin, LoginStep, PTL DEF LoginSpec

-----------------------------------------------------------------------------
(* Imports: modules go down the tree, once over each stream                      *)

\* What may be on its way to n: modules, and orders to pass one on to somebody below n.
Loads == [kind : {"load"}, mod : Modules, as : {"good", "bad"}]
Orders(n) == [kind : {"forward"}, mod : Modules, to : {k \in Contexts : n \in Lineage[k] /\ n # k}]
Msgs(n) == Loads \cup Orders(n)
LoadAt(d, i, m) == d[i].kind = "load" /\ d[i].mod = m
Carries(d, i) == d[i].kind = "load" /\ d[i].as = "good"   \* has the code of the module

\* The stream to a context is described by d, what is on its way, S, what was sent over it,
\* c and l, what the context has and received, and Bd, what may be missing.
\* An order follows the module it is about.
Founded(d, c) ==
  \A i \in 1..Len(d) : d[i].kind = "forward" =>
    c[d[i].mod] # "none" \/ \E j \in 1..Len(d) : j < i /\ LoadAt(d, j, d[i].mod)
\* The code of a module is on its way once, or was received.
Once(d, l, S) ==
  /\ \A i \in 1..Len(d) : Carries(d, i) => d[i].mod \in S /\ l[d[i].mod] = 0
  /\ \A i, j \in 1..Len(d) : Carries(d, i) /\ Carries(d, j) /\ d[i].mod = d[j].mod => i = j
  /\ \A m \in Modules : l[m] \in {0, 1} /\ (l[m] = 1 => m \in S)
\* What was sent is there or on its way.
Covered(d, c, S) == \A m \in S : c[m] # "none" \/ \E i \in 1..Len(d) : LoadAt(d, i, m)
Truthful(d, c, Bd) ==
  /\ \A i \in 1..Len(d) : d[i].kind = "load" /\ d[i].as = "bad" => d[i].mod \in Bd
  /\ \A m \in Modules : c[m] = "bad" => m \in Bd
StreamOk(d, c, l, S, Bd) == Founded(d, c) /\ Once(d, l, S) /\ Covered(d, c, S) /\ Truthful(d, c, Bd)

\* What may be missing.
MayMiss == {m \in Modules : Unbuilt(m) \/ Unasked(m)}

ImportFields ==
  /\ attached \subseteq Contexts /\ preloaded \subseteq Preloads
  /\ cache \in [Contexts -> [Modules -> {"none", "good", "bad"}]]
  /\ callbacks \in [Contexts -> [Modules -> SUBSET (Importers \cup Contexts)]]
  /\ sentMods \in [Contexts -> SUBSET Modules]
  /\ loads \in [Contexts -> [Modules -> Nat]]
  /\ upward \in [Contexts -> Seq(Modules \ Blacklist)]
  /\ wants \in [Importers -> Modules \cup {"nothing"}]
  /\ DOMAIN downward = Contexts /\ \A n \in Contexts : downward[n] \in Seq(Msgs(n))
Waiters ==
  \A n \in Contexts : \A m \in Modules :
    callbacks[n][m] \subseteq {t \in Importers : HomeOf[t] = n /\ wants[t] = m} \cup {k \in Contexts : Above[k] = n}
Streams == \A n \in Contexts : StreamOk(downward[n], cache[n], loads[n], sentMods[n], MayMiss)
ImportsInv == ImportFields /\ Waiters /\ Streams

\* What is put on a stream when S2 is sent over it after S.
Sent(out, S, S2, Bd) ==
  /\ out \in Seq(Loads) /\ S \subseteq S2 /\ S2 \subseteq Modules
  /\ \A i \in 1..Len(out) : out[i].as = "good" => out[i].mod \in S2 \ S
  /\ \A i, j \in 1..Len(out) : out[i].as = "good" /\ out[j].as = "good" /\ out[i].mod = out[j].mod => i = j
  /\ \A i \in 1..Len(out) : out[i].as = "bad" => out[i].mod \in Bd
  /\ \A m \in S2 \ S : \E i \in 1..Len(out) : out[i].mod = m

LEMMA SentNone == ASSUME NEW S \in SUBSET Modules, NEW Bd PROVE Sent(<<>>, S, S, Bd)
  BY DEF Sent

LEMMA SentAlso ==
  ASSUME NEW out, NEW S, NEW S2, NEW Bd, Sent(out, S, S2, Bd), NEW m \in Modules \ S2,
         NEW as \in {"good", "bad"}, as = "bad" => m \in Bd
  PROVE  Sent(Append(out, Load(m, as)), S, S2 \cup {m}, Bd)
<1> DEFINE x == Load(m, as)
           e == Append(out, x)
           n == Len(out)
<1>1. x \in Loads /\ x.kind = "load" /\ x.mod = m /\ x.as = as
  BY DEF Load, Loads
<1>2. out \in Seq(Loads) /\ S \subseteq S2 /\ S2 \subseteq Modules /\ m \notin S
  BY DEF Sent
<1> HIDE DEF x
<1>3. /\ e \in Seq(Loads) /\ Len(e) = n + 1 /\ n \in Nat /\ e[n + 1] = x
      /\ \A i \in 1..n : e[i] = out[i]
  BY <1>1, <1>2
<1>4. \A i \in 1..n + 1 : i \in 1..n \/ i = n + 1
  BY <1>3
<1>5. /\ \A i \in 1..n : out[i].as = "good" => out[i].mod \in S2 \ S
      /\ \A i, j \in 1..n : out[i].as = "good" /\ out[j].as = "good" /\ out[i].mod = out[j].mod => i = j
      /\ \A i \in 1..n : out[i].as = "bad" => out[i].mod \in Bd
      /\ \A k \in S2 \ S : \E i \in 1..n : out[i].mod = k
  BY DEF Sent
<1> HIDE DEF e, n
<1>6. \A i \in 1..n + 1 : e[i].as = "good" => e[i].mod \in (S2 \cup {m}) \ S
  BY <1>1, <1>2, <1>3, <1>4, <1>5
<1>7. \A i, j \in 1..n + 1 : e[i].as = "good" /\ e[j].as = "good" /\ e[i].mod = e[j].mod => i = j
  BY <1>1, <1>2, <1>3, <1>4, <1>5
<1>8. \A i \in 1..n + 1 : e[i].as = "bad" => e[i].mod \in Bd
  BY <1>1, <1>3, <1>4, <1>5
<1>9. \A k \in (S2 \cup {m}) \ S : \E i \in 1..n + 1 : e[i].mod = k
  <2> TAKE k \in (S2 \cup {m}) \ S
  <2>1. CASE k = m
    <3>1. n + 1 \in 1..n + 1
      BY <1>3
    <3> QED BY <1>1, <1>3, <2>1, <3>1
  <2>2. CASE k # m
    <3>1. PICK i \in 1..n : out[i].mod = k
      BY <1>5, <2>2
    <3>2. i \in 1..n + 1
      BY <1>3
    <3> QED BY <1>3, <3>1, <3>2
  <2> QED BY <2>1, <2>2
<1>10. S \subseteq S2 \cup {m} /\ S2 \cup {m} \subseteq Modules
  BY <1>2
<1>11. Sent(e, S, S2 \cup {m}, Bd)
  BY <1>3, <1>6, <1>7, <1>8, <1>9, <1>10 DEF Sent
<1> QED BY <1>11 DEF e, x

LEMMA SentBad ==
  ASSUME NEW out, NEW S, NEW S2, NEW Bd, Sent(out, S, S2, Bd), NEW m \in Modules \cap Bd
  PROVE  Sent(Append(out, Load(m, "bad")), S, S2, Bd)
<1> DEFINE x == Load(m, "bad")
           e == Append(out, x)
           n == Len(out)
<1>1. x \in Loads /\ x.kind = "load" /\ x.mod = m /\ x.as = "bad"
  BY DEF Load, Loads
<1>2. out \in Seq(Loads) /\ S \subseteq S2 /\ S2 \subseteq Modules
  BY DEF Sent
<1> HIDE DEF x
<1>3. /\ e \in Seq(Loads) /\ Len(e) = n + 1 /\ n \in Nat /\ e[n + 1] = x
      /\ \A i \in 1..n : e[i] = out[i]
  BY <1>1, <1>2
<1>4. \A i \in 1..n + 1 : i \in 1..n \/ i = n + 1
  BY <1>3
<1>5. /\ \A i \in 1..n : out[i].as = "good" => out[i].mod \in S2 \ S
      /\ \A i, j \in 1..n : out[i].as = "good" /\ out[j].as = "good" /\ out[i].mod = out[j].mod => i = j
      /\ \A i \in 1..n : out[i].as = "bad" => out[i].mod \in Bd
      /\ \A k \in S2 \ S : \E i \in 1..n : out[i].mod = k
  BY DEF Sent
<1> HIDE DEF e, n
<1>6. \A i \in 1..n + 1 : e[i].as = "good" => e[i].mod \in S2 \ S
  BY <1>1, <1>2, <1>3, <1>4, <1>5
<1>7. \A i, j \in 1..n + 1 : e[i].as = "good" /\ e[j].as = "good" /\ e[i].mod = e[j].mod => i = j
  BY <1>1, <1>2, <1>3, <1>4, <1>5
<1>8. \A i \in 1..n + 1 : e[i].as = "bad" => e[i].mod \in Bd
  BY <1>1, <1>3, <1>4, <1>5
<1>9. \A k \in S2 \ S : \E i \in 1..n + 1 : e[i].mod = k
  <2> TAKE k \in S2 \ S
  <2>1. PICK i \in 1..n : out[i].mod = k
    BY <1>5
  <2>2. i \in 1..n + 1
    BY <1>3
  <2> QED BY <1>3, <2>1, <2>2
<1>11. Sent(e, S, S2, Bd)
  BY <1>2, <1>3, <1>6, <1>7, <1>8, <1>9 DEF Sent
<1> QED BY <1>11 DEF e, x

\* The streams carry what is sent.
LEMMA Streamed ==
  ASSUME NEW n, NEW d \in Seq(Msgs(n)), NEW c, NEW l, NEW S, NEW S2, NEW Bd, NEW out,
         StreamOk(d, c, l, S, Bd), Sent(out, S, S2, Bd)
  PROVE  d \o out \in Seq(Msgs(n)) /\ StreamOk(d \o out, c, l, S2, Bd)
<1> DEFINE e == d \o out
           p == Len(d)
           q == Len(out)
<1>1. out \in Seq(Loads) /\ Loads \subseteq Msgs(n) /\ S \subseteq S2 /\ S2 \subseteq Modules
  BY DEF Sent, Msgs
<1>2. out \in Seq(Msgs(n)) /\ \A i \in 1..q : out[i] \in Loads
  BY <1>1
<1>3. /\ e \in Seq(Msgs(n)) /\ Len(e) = p + q /\ p \in Nat /\ q \in Nat
      /\ \A k \in 1..p : e[k] = d[k]
      /\ \A k \in 1..p + q : k > p => e[k] = out[k - p]
  BY <1>2, ConcatAt
<1>4. \A i \in 1..q : out[i].kind = "load" /\ out[i].as \in {"good", "bad"} /\ out[i].mod \in Modules
  BY <1>2 DEF Loads
<1>5. /\ \A i \in 1..q : out[i].as = "good" => out[i].mod \in S2 \ S
      /\ \A i, j \in 1..q : out[i].as = "good" /\ out[j].as = "good" /\ out[i].mod = out[j].mod => i = j
      /\ \A i \in 1..q : out[i].as = "bad" => out[i].mod \in Bd
      /\ \A k \in S2 \ S : \E i \in 1..q : out[i].mod = k
  BY DEF Sent
<1>6. /\ \A i \in 1..p : d[i].kind = "forward" =>
           c[d[i].mod] # "none" \/ \E j \in 1..p : j < i /\ LoadAt(d, j, d[i].mod)
      /\ \A i \in 1..p : Carries(d, i) => d[i].mod \in S /\ l[d[i].mod] = 0
      /\ \A i, j \in 1..p : Carries(d, i) /\ Carries(d, j) /\ d[i].mod = d[j].mod => i = j
      /\ \A m \in Modules : l[m] \in {0, 1} /\ (l[m] = 1 => m \in S)
      /\ \A m \in S : c[m] # "none" \/ \E i \in 1..p : LoadAt(d, i, m)
      /\ \A i \in 1..p : d[i].kind = "load" /\ d[i].as = "bad" => d[i].mod \in Bd
      /\ \A m \in Modules : c[m] = "bad" => m \in Bd
  BY DEF StreamOk, Founded, Once, Covered, Truthful
<1> HIDE DEF e, p, q
<1>7. \A k \in 1..p + q : k \in 1..p \/ (k - p \in 1..q /\ k > p)
  BY <1>3
<1>8. \A k \in 1..q : p + k \in 1..p + q /\ e[p + k] = out[k]
  BY <1>3
<1>9. \A k \in 1..p : k \in 1..p + q
  BY <1>3
<1>10. \A i \in 1..p : LoadAt(e, i, d[i].mod) <=> d[i].kind = "load"
  BY <1>3 DEF LoadAt
<1>11. Founded(e, c)
  <2>1. ASSUME NEW i \in 1..p + q, e[i].kind = "forward"
        PROVE  c[e[i].mod] # "none" \/ \E j \in 1..p + q : j < i /\ LoadAt(e, j, e[i].mod)
    <3>1. i \in 1..p /\ e[i] = d[i]
      BY <1>3, <1>4, <1>7, <2>1
    <3>2. c[d[i].mod] # "none" \/ \E j \in 1..p : j < i /\ LoadAt(d, j, d[i].mod)
      BY <1>6, <2>1, <3>1
    <3> QED BY <1>3, <1>9, <3>1, <3>2 DEF LoadAt
  <2> QED BY <1>3, <2>1 DEF Founded
<1>12. Once(e, l, S2)
  <2>1. ASSUME NEW i \in 1..p + q, Carries(e, i) PROVE e[i].mod \in S2 /\ l[e[i].mod] = 0
    <3>1. CASE i \in 1..p
      BY <1>1, <1>3, <1>6, <2>1, <3>1 DEF Carries
    <3>2. CASE i - p \in 1..q /\ i > p
      <4>1. e[i] = out[i - p]
        BY <1>3, <3>2
      <4>2. e[i].mod \in S2 \ S /\ e[i].mod \in Modules
        BY <1>4, <1>5, <2>1, <3>2, <4>1 DEF Carries
      <4> QED BY <1>6, <4>2
    <3> QED BY <1>7, <3>1, <3>2
  <2>2. ASSUME NEW i \in 1..p + q, NEW j \in 1..p + q, Carries(e, i), Carries(e, j), e[i].mod = e[j].mod
        PROVE  i = j
    <3>1. \A k \in 1..p + q : k \in 1..p /\ Carries(e, k) => e[k] = d[k] /\ Carries(d, k) /\ e[k].mod \in S
      BY <1>3, <1>6 DEF Carries
    <3>2. \A k \in 1..p + q : k \notin 1..p /\ Carries(e, k) =>
            k - p \in 1..q /\ e[k] = out[k - p] /\ out[k - p].as = "good" /\ e[k].mod \notin S
      BY <1>3, <1>5, <1>7 DEF Carries
    <3>3. CASE i \in 1..p /\ j \in 1..p
      BY <1>6, <2>2, <3>1, <3>3
    <3>4. CASE i \notin 1..p /\ j \notin 1..p
      <4>1. i - p = j - p
        BY <1>5, <2>2, <3>2, <3>4
      <4> QED BY <1>3, <4>1
    <3> QED BY <2>2, <3>1, <3>2, <3>3, <3>4
  <2>3. \A m \in Modules : l[m] \in {0, 1} /\ (l[m] = 1 => m \in S2)
    BY <1>1, <1>6
  <2> QED BY <1>3, <2>1, <2>2, <2>3 DEF Once
<1>13. Covered(e, c, S2)
  <2>1. ASSUME NEW m \in S2 PROVE c[m] # "none" \/ \E i \in 1..p + q : LoadAt(e, i, m)
    <3>1. CASE m \in S
      BY <1>3, <1>6, <1>9, <3>1 DEF LoadAt
    <3>2. CASE m \notin S
      <4>1. PICK i \in 1..q : out[i].mod = m
        BY <1>5, <3>2
      <4> QED BY <1>4, <1>8, <4>1 DEF LoadAt
    <3> QED BY <3>1, <3>2
  <2> QED BY <1>3, <2>1 DEF Covered
<1>14. Truthful(e, c, Bd)
  <2>1. ASSUME NEW i \in 1..p + q, e[i].kind = "load", e[i].as = "bad" PROVE e[i].mod \in Bd
    <3>1. CASE i \in 1..p
      BY <1>3, <1>6, <2>1, <3>1
    <3>2. CASE i - p \in 1..q /\ i > p
      <4>1. e[i] = out[i - p]
        BY <1>3, <3>2
      <4> QED BY <1>5, <2>1, <3>2, <4>1
    <3> QED BY <1>7, <3>1, <3>2
  <2> QED BY <1>3, <1>6, <2>1 DEF Truthful
<1> QED BY <1>3, <1>11, <1>12, <1>13, <1>14 DEF StreamOk, e

\* An order may follow what was sent.
LEMMA Ordered ==
  ASSUME NEW n, NEW d \in Seq(Msgs(n)), NEW c, NEW l, NEW S, NEW Bd, StreamOk(d, c, l, S, Bd),
         NEW x \in Orders(n), x.mod \in S \/ \E i \in 1..Len(d) : LoadAt(d, i, x.mod)
  PROVE  d \o <<x>> \in Seq(Msgs(n)) /\ StreamOk(d \o <<x>>, c, l, S, Bd)
<1> DEFINE e == d \o <<x>>
           p == Len(d)
<1>1. /\ e \in Seq(Msgs(n)) /\ Len(e) = p + 1 /\ p \in Nat /\ e[p + 1] = x
      /\ \A k \in 1..p : e[k] = d[k]
  BY DEF Msgs
<1>2. x.kind = "forward"
  BY DEF Orders
<1>3. /\ \A i \in 1..p : d[i].kind = "forward" =>
           c[d[i].mod] # "none" \/ \E j \in 1..p : j < i /\ LoadAt(d, j, d[i].mod)
      /\ \A i \in 1..p : Carries(d, i) => d[i].mod \in S /\ l[d[i].mod] = 0
      /\ \A i, j \in 1..p : Carries(d, i) /\ Carries(d, j) /\ d[i].mod = d[j].mod => i = j
      /\ \A m \in Modules : l[m] \in {0, 1} /\ (l[m] = 1 => m \in S)
      /\ \A m \in S : c[m] # "none" \/ \E i \in 1..p : LoadAt(d, i, m)
      /\ \A i \in 1..p : d[i].kind = "load" /\ d[i].as = "bad" => d[i].mod \in Bd
      /\ \A m \in Modules : c[m] = "bad" => m \in Bd
  BY DEF StreamOk, Founded, Once, Covered, Truthful
<1>4. c[x.mod] # "none" \/ \E i \in 1..p : LoadAt(d, i, x.mod)
  BY <1>3
<1> HIDE DEF e, p
<1>5. /\ \A k \in 1..p + 1 : k \in 1..p \/ k = p + 1
      /\ \A k \in 1..p : k \in 1..p + 1 /\ k < p + 1
  BY <1>1
<1>6. Founded(e, c)
  <2>1. ASSUME NEW i \in 1..p + 1, e[i].kind = "forward"
        PROVE  c[e[i].mod] # "none" \/ \E j \in 1..p + 1 : j < i /\ LoadAt(e, j, e[i].mod)
    <3>1. CASE i \in 1..p
      <4>1. c[d[i].mod] # "none" \/ \E j \in 1..p : j < i /\ LoadAt(d, j, d[i].mod)
        BY <1>1, <1>3, <2>1, <3>1
      <4> QED BY <1>1, <1>5, <3>1, <4>1 DEF LoadAt
    <3>2. CASE i = p + 1
      BY <1>1, <1>4, <1>5, <3>2 DEF LoadAt
    <3> QED BY <1>5, <3>1, <3>2
  <2> QED BY <1>1, <2>1 DEF Founded
<1>7. \A i \in 1..p + 1 : e[i].kind = "load" => i \in 1..p /\ e[i] = d[i]
  BY <1>1, <1>2, <1>5
<1>8. Once(e, l, S)
  <2>1. \A i \in 1..p + 1 : Carries(e, i) => i \in 1..p /\ e[i] = d[i] /\ Carries(d, i)
    BY <1>7 DEF Carries
  <2>2. \A i \in 1..p + 1 : Carries(e, i) => e[i].mod \in S /\ l[e[i].mod] = 0
    BY <1>3, <2>1
  <2>3. \A i, j \in 1..p + 1 : Carries(e, i) /\ Carries(e, j) /\ e[i].mod = e[j].mod => i = j
    BY <1>3, <2>1
  <2> QED BY <1>1, <1>3, <2>2, <2>3 DEF Once
<1>9. Covered(e, c, S)
  <2>1. ASSUME NEW m \in S PROVE c[m] # "none" \/ \E i \in 1..p + 1 : LoadAt(e, i, m)
    BY <1>1, <1>3, <1>5 DEF LoadAt
  <2> QED BY <1>1, <2>1 DEF Covered
<1>10. Truthful(e, c, Bd)
  BY <1>1, <1>3, <1>7 DEF Truthful
<1> QED BY <1>1, <1>6, <1>8, <1>9, <1>10 DEF StreamOk, e

\* What holds of a stream when its first message is handled.
LEMMA StreamParts ==
  ASSUME NEW n, NEW d \in Seq(Msgs(n)), d # <<>>, NEW c, NEW l, NEW S, NEW Bd, StreamOk(d, c, l, S, Bd)
  PROVE  /\ Len(d) \in Nat \ {0} /\ Head(d) = d[1] /\ d[1] \in Msgs(n) /\ Tail(d) \in Seq(Msgs(n))
         /\ Len(Tail(d)) = Len(d) - 1 /\ \A i \in 1..Len(d) - 1 : Tail(d)[i] = d[i + 1]
         /\ \A i \in 1..Len(d) : d[i].kind = "forward" =>
              c[d[i].mod] # "none" \/ \E j \in 1..Len(d) : j < i /\ LoadAt(d, j, d[i].mod)
         /\ \A i \in 1..Len(d) : Carries(d, i) => d[i].mod \in S /\ l[d[i].mod] = 0
         /\ \A i, j \in 1..Len(d) : Carries(d, i) /\ Carries(d, j) /\ d[i].mod = d[j].mod => i = j
         /\ \A m \in Modules : l[m] \in {0, 1} /\ (l[m] = 1 => m \in S)
         /\ \A m \in S : c[m] # "none" \/ \E i \in 1..Len(d) : LoadAt(d, i, m)
         /\ \A i \in 1..Len(d) : d[i].kind = "load" /\ d[i].as = "bad" => d[i].mod \in Bd
         /\ \A m \in Modules : c[m] = "bad" => m \in Bd
<1>1. /\ Len(d) \in Nat \ {0} /\ Head(d) = d[1] /\ d[1] \in Msgs(n) /\ Tail(d) \in Seq(Msgs(n))
      /\ Len(Tail(d)) = Len(d) - 1 /\ \A i \in 1..Len(d) - 1 : Tail(d)[i] = d[i + 1]
  OBVIOUS
<1> QED BY <1>1 DEF StreamOk, Founded, Once, Covered, Truthful

LEMMA LoadPopped ==
  ASSUME NEW n, NEW d \in Seq(Msgs(n)), d # <<>>, NEW S \in SUBSET Modules, NEW Bd, NEW x, x = Head(d), x.kind = "load",
         NEW c \in [Modules -> {"none", "good", "bad"}], NEW l \in [Modules -> Nat], StreamOk(d, c, l, S, Bd)
  PROVE  /\ x \in Loads /\ Tail(d) \in Seq(Msgs(n))
         /\ StreamOk(Tail(d), [c EXCEPT ![x.mod] = x.as],
                     IF x.as = "good" THEN [l EXCEPT ![x.mod] = @ + 1] ELSE l, S, Bd)
<1> DEFINE e == Tail(d)
           p == Len(d)
           c2 == [c EXCEPT ![x.mod] = x.as]
           l2 == IF x.as = "good" THEN [l EXCEPT ![x.mod] = @ + 1] ELSE l
<1>1. /\ p \in Nat \ {0} /\ x = d[1] /\ x \in Msgs(n) /\ e \in Seq(Msgs(n))
      /\ Len(e) = p - 1 /\ \A i \in 1..p - 1 : e[i] = d[i + 1]
  BY StreamParts
<1>2. x \in Loads /\ x.mod \in Modules /\ x.as \in {"good", "bad"}
  BY <1>1 DEF Msgs, Loads, Orders
<1>3. /\ \A i \in 1..p : d[i].kind = "forward" =>
           c[d[i].mod] # "none" \/ \E j \in 1..p : j < i /\ LoadAt(d, j, d[i].mod)
      /\ \A i \in 1..p : Carries(d, i) => d[i].mod \in S /\ l[d[i].mod] = 0
      /\ \A i, j \in 1..p : Carries(d, i) /\ Carries(d, j) /\ d[i].mod = d[j].mod => i = j
      /\ \A m \in Modules : l[m] \in {0, 1} /\ (l[m] = 1 => m \in S)
      /\ \A m \in S : c[m] # "none" \/ \E i \in 1..p : LoadAt(d, i, m)
      /\ \A i \in 1..p : d[i].kind = "load" /\ d[i].as = "bad" => d[i].mod \in Bd
      /\ \A m \in Modules : c[m] = "bad" => m \in Bd
  BY StreamParts
<1>4. \A m \in Modules : /\ c2[m] = IF m = x.mod THEN x.as ELSE c[m]
                         /\ l2[m] = IF m = x.mod /\ x.as = "good" THEN l[m] + 1 ELSE l[m]
  BY <1>2
<1>5. \A i \in 1..p : d[i] \in Msgs(n) /\ d[i].mod \in Modules
  BY DEF Msgs, Loads, Orders
<1> HIDE DEF e, p, c2, l2
<1>6. /\ \A i \in 1..p - 1 : i + 1 \in 1..p /\ e[i] = d[i + 1] /\ i + 1 # 1
      /\ \A i \in 1..p : i # 1 => i - 1 \in 1..p - 1 /\ e[i - 1] = d[i] /\ \A j \in 1..p - 1 : i < j + 1 => i - 1 < j
      /\ 1 \in 1..p
  <2>1. \A i \in 1..p - 1 : i + 1 \in 1..p /\ e[i] = d[i + 1] /\ i + 1 # 1
    BY <1>1
  <2>2. \A i \in 1..p : i # 1 => i - 1 \in 1..p - 1 /\ (i - 1) + 1 = i
    BY <1>1
  <2>3. \A i \in 1..p : i # 1 => e[i - 1] = d[i]
    BY <1>1, <2>2
  <2>4. \A i \in 1..p : \A j \in 1..p - 1 : i < j + 1 => i - 1 < j
    BY <1>1
  <2>5. 1 \in 1..p
    BY <1>1
  <2> QED BY <2>1, <2>2, <2>3, <2>4, <2>5
<1>7. \A m \in Modules : c[m] # "none" \/ m = x.mod => c2[m] # "none"
  BY <1>2, <1>4
<1>8. Founded(e, c2)
  <2>1. ASSUME NEW i \in 1..p - 1, e[i].kind = "forward"
        PROVE  c2[e[i].mod] # "none" \/ \E j \in 1..p - 1 : j < i /\ LoadAt(e, j, e[i].mod)
    <3>1. e[i] = d[i + 1] /\ i + 1 \in 1..p /\ e[i].mod \in Modules
      BY <1>5, <1>6
    <3>2. CASE c[e[i].mod] # "none"
      BY <1>7, <3>1, <3>2
    <3>3. CASE \E j \in 1..p : j < i + 1 /\ LoadAt(d, j, e[i].mod)
      <4>1. PICK j \in 1..p : j < i + 1 /\ LoadAt(d, j, e[i].mod)
        BY <3>3
      <4>2. CASE j = 1
        BY <1>1, <1>7, <3>1, <4>1, <4>2 DEF LoadAt
      <4>3. CASE j # 1
        <5>1. j - 1 \in 1..p - 1 /\ e[j - 1] = d[j] /\ j - 1 < i
          BY <1>6, <4>1, <4>3
        <5>2. LoadAt(e, j - 1, e[i].mod)
          BY <4>1, <5>1 DEF LoadAt
        <5> QED BY <5>1, <5>2
      <4> QED BY <4>2, <4>3
    <3> QED BY <1>3, <2>1, <3>1, <3>2, <3>3
  <2> QED BY <1>1, <2>1 DEF Founded
<1>9. Once(e, l2, S)
  <2>1. \A i \in 1..p - 1 : Carries(e, i) => Carries(d, i + 1)
    BY <1>6 DEF Carries
  <2>2. ASSUME NEW i \in 1..p - 1, Carries(e, i) PROVE e[i].mod \in S /\ l2[e[i].mod] = 0
    <3>1. e[i] = d[i + 1] /\ i + 1 \in 1..p /\ i + 1 # 1 /\ Carries(d, i + 1) /\ e[i].mod \in Modules
      BY <1>5, <1>6, <2>1, <2>2
    <3>2. d[i + 1].mod \in S /\ l[d[i + 1].mod] = 0
      BY <1>3, <3>1
    <3>3. ~(e[i].mod = x.mod /\ x.as = "good")
      <4>1. SUFFICES ASSUME e[i].mod = x.mod /\ x.as = "good" PROVE FALSE
        OBVIOUS
      <4>2. Carries(d, 1) /\ d[1].mod = d[i + 1].mod
        BY <1>1, <3>1, <4>1 DEF Carries
      <4> QED BY <1>3, <1>6, <3>1, <4>2
    <3> QED BY <1>4, <3>1, <3>2, <3>3
  <2>3. ASSUME NEW i \in 1..p - 1, NEW j \in 1..p - 1, Carries(e, i), Carries(e, j), e[i].mod = e[j].mod
        PROVE  i = j
    <3>1. i + 1 = j + 1
      BY <1>3, <1>6, <2>1, <2>3
    <3> QED BY <1>1, <3>1
  <2>4. ASSUME NEW m \in Modules PROVE l2[m] \in {0, 1} /\ (l2[m] = 1 => m \in S)
    <3>1. CASE m = x.mod /\ x.as = "good"
      <4>1. Carries(d, 1) /\ d[1].mod = m
        BY <1>1, <3>1 DEF Carries
      <4>2. l[m] = 0 /\ m \in S
        BY <1>3, <1>6, <4>1
      <4> QED BY <1>4, <3>1, <4>2
    <3>2. CASE ~(m = x.mod /\ x.as = "good")
      BY <1>3, <1>4, <3>2
    <3> QED BY <3>1, <3>2
  <2> QED BY <1>1, <2>2, <2>3, <2>4 DEF Once
<1>10. Covered(e, c2, S)
  <2>1. ASSUME NEW m \in S PROVE c2[m] # "none" \/ \E i \in 1..p - 1 : LoadAt(e, i, m)
    <3>1. CASE c[m] # "none"
      BY <1>7, <2>1, <3>1
    <3>2. CASE \E i \in 1..p : LoadAt(d, i, m)
      <4>1. PICK i \in 1..p : LoadAt(d, i, m)
        BY <3>2
      <4>2. CASE i = 1
        BY <1>1, <1>7, <2>1, <4>1, <4>2 DEF LoadAt
      <4>3. CASE i # 1
        <5>1. i - 1 \in 1..p - 1 /\ e[i - 1] = d[i]
          BY <1>6, <4>3
        <5>2. LoadAt(e, i - 1, m)
          BY <4>1, <5>1 DEF LoadAt
        <5> QED BY <5>1, <5>2
      <4> QED BY <4>2, <4>3
    <3> QED BY <1>3, <3>1, <3>2
  <2> QED BY <1>1, <2>1 DEF Covered
<1>11. Truthful(e, c2, Bd)
  <2>1. ASSUME NEW i \in 1..p - 1, e[i].kind = "load", e[i].as = "bad" PROVE e[i].mod \in Bd
    BY <1>3, <1>6, <2>1
  <2>2. ASSUME NEW m \in Modules, c2[m] = "bad" PROVE m \in Bd
    BY <1>1, <1>3, <1>4, <1>6, <2>2
  <2> QED BY <1>1, <2>1, <2>2 DEF Truthful
<1> QED BY <1>1, <1>2, <1>8, <1>9, <1>10, <1>11 DEF StreamOk, e, c2, l2

LEMMA OrderPopped ==
  ASSUME NEW n, NEW d \in Seq(Msgs(n)), d # <<>>, NEW S \in SUBSET Modules, NEW Bd, NEW x, x = Head(d),
         x.kind = "forward", NEW c, NEW l, StreamOk(d, c, l, S, Bd)
  PROVE  x \in Orders(n) /\ c[x.mod] # "none" /\ Tail(d) \in Seq(Msgs(n)) /\ StreamOk(Tail(d), c, l, S, Bd)
<1> DEFINE e == Tail(d)
           p == Len(d)
<1>1. /\ p \in Nat \ {0} /\ x = d[1] /\ x \in Msgs(n) /\ e \in Seq(Msgs(n))
      /\ Len(e) = p - 1 /\ \A i \in 1..p - 1 : e[i] = d[i + 1]
  BY StreamParts
<1>2. x \in Orders(n)
  BY <1>1 DEF Msgs, Loads
<1>3. /\ \A i \in 1..p : d[i].kind = "forward" =>
           c[d[i].mod] # "none" \/ \E j \in 1..p : j < i /\ LoadAt(d, j, d[i].mod)
      /\ \A i \in 1..p : Carries(d, i) => d[i].mod \in S /\ l[d[i].mod] = 0
      /\ \A i, j \in 1..p : Carries(d, i) /\ Carries(d, j) /\ d[i].mod = d[j].mod => i = j
      /\ \A m \in Modules : l[m] \in {0, 1} /\ (l[m] = 1 => m \in S)
      /\ \A m \in S : c[m] # "none" \/ \E i \in 1..p : LoadAt(d, i, m)
      /\ \A i \in 1..p : d[i].kind = "load" /\ d[i].as = "bad" => d[i].mod \in Bd
      /\ \A m \in Modules : c[m] = "bad" => m \in Bd
  BY StreamParts
<1> HIDE DEF e, p
<1>4. /\ \A i \in 1..p - 1 : i + 1 \in 1..p /\ e[i] = d[i + 1]
      /\ \A i \in 1..p : i # 1 => i - 1 \in 1..p - 1
      /\ \A i \in 1..p : i # 1 => e[i - 1] = d[i]
      /\ \A i \in 1..p : \A j \in 1..p - 1 : i < j + 1 => i - 1 < j
      /\ 1 \in 1..p
  <2>1. \A i \in 1..p - 1 : i + 1 \in 1..p /\ e[i] = d[i + 1]
    BY <1>1
  <2>2. \A i \in 1..p : i # 1 => i - 1 \in 1..p - 1 /\ (i - 1) + 1 = i
    BY <1>1
  <2>3. \A i \in 1..p : i # 1 => e[i - 1] = d[i]
    BY <1>1, <2>2
  <2>4. \A i \in 1..p : \A j \in 1..p - 1 : i < j + 1 => i - 1 < j
    BY <1>1
  <2>5. 1 \in 1..p
    BY <1>1
  <2> QED BY <2>1, <2>2, <2>3, <2>4, <2>5
<1>5. \A i \in 1..p : \A m : LoadAt(d, i, m) => i # 1 /\ i - 1 \in 1..p - 1 /\ LoadAt(e, i - 1, m)
  BY <1>1, <1>4 DEF LoadAt
<1>6. c[x.mod] # "none"
  <2>1. \A j \in 1..p : ~(j < 1)
    BY <1>1
  <2> QED BY <1>1, <1>3, <1>4, <2>1
<1>7. Founded(e, c)
  <2>1. ASSUME NEW i \in 1..p - 1, e[i].kind = "forward"
        PROVE  c[e[i].mod] # "none" \/ \E j \in 1..p - 1 : j < i /\ LoadAt(e, j, e[i].mod)
    <3>1. e[i] = d[i + 1] /\ i + 1 \in 1..p
      BY <1>4
    <3>2. ASSUME NEW j \in 1..p, j < i + 1, LoadAt(d, j, e[i].mod)
          PROVE  \E k \in 1..p - 1 : k < i /\ LoadAt(e, k, e[i].mod)
      BY <1>4, <1>5, <3>2
    <3> QED BY <1>3, <2>1, <3>1, <3>2
  <2> QED BY <1>1, <2>1 DEF Founded
<1>8. Once(e, l, S)
  <2>1. \A i \in 1..p - 1 : Carries(e, i) => Carries(d, i + 1) /\ i + 1 \in 1..p /\ e[i] = d[i + 1]
    BY <1>4 DEF Carries
  <2>2. \A i \in 1..p - 1 : Carries(e, i) => e[i].mod \in S /\ l[e[i].mod] = 0
    BY <1>3, <2>1
  <2>3. ASSUME NEW i \in 1..p - 1, NEW j \in 1..p - 1, Carries(e, i), Carries(e, j), e[i].mod = e[j].mod
        PROVE  i = j
    <3>1. i + 1 = j + 1
      BY <1>3, <2>1, <2>3
    <3> QED BY <1>1, <3>1
  <2> QED BY <1>1, <1>3, <2>2, <2>3 DEF Once
<1>9. Covered(e, c, S)
  BY <1>1, <1>3, <1>5 DEF Covered
<1>10. Truthful(e, c, Bd)
  <2>1. \A i \in 1..p - 1 : e[i].kind = "load" /\ e[i].as = "bad" => e[i].mod \in Bd
    BY <1>3, <1>4
  <2> QED BY <1>1, <1>3, <2>1 DEF Truthful
<1> QED BY <1>1, <1>2, <1>6, <1>7, <1>8, <1>9, <1>10 DEF StreamOk, e

\* More may be missing later.
LEMMA MoreMissing ==
  ASSUME NEW d, NEW c, NEW l, NEW S, NEW Bd, NEW More, Bd \subseteq More, StreamOk(d, c, l, S, Bd)
  PROVE  StreamOk(d, c, l, S, More)
  BY DEF StreamOk, Truthful

-----------------------------------------------------------------------------
(* What the responder and the forwarders send                                    *)

\* The parts of an answer while it is put together, as SendRelated() does.
Answers(S, Bd, may) ==
  {s \in [sent : SUBSET Modules, out : Seq(Loads), raised : BOOLEAN] : Sent(s.out, S, s.sent, Bd) /\ (s.raised => may)}

LEMMA SendLoadKeeps ==
  ASSUME NEW S, NEW Bd, NEW may, NEW s \in Answers(S, Bd, may), NEW m \in Modules,
         m \in Missing => m \in Bd, m \in Broken \cup Blacklist => may
  PROVE  /\ SendLoad(s, m) \in Answers(S, Bd, may)
         /\ SendLoad(s, m).raised \/ m \in SendLoad(s, m).sent
<1>1. /\ s \in [sent : SUBSET Modules, out : Seq(Loads), raised : BOOLEAN]
      /\ Sent(s.out, S, s.sent, Bd) /\ (s.raised => may)
  BY DEF Answers
<1>2. CASE m \in s.sent
  BY <1>2 DEF SendLoad
<1>3. CASE m \notin s.sent /\ m \in Broken \cup Blacklist
  <2>1. SendLoad(s, m) = [s EXCEPT !.raised = TRUE]
    BY <1>3 DEF SendLoad
  <2> QED BY <1>1, <1>3, <2>1 DEF Answers
<1>4. CASE m \notin s.sent /\ m \notin Broken \cup Blacklist
  <2> DEFINE x == Load(m, Build(m))
  <2>1. Build(m) \in {"good", "bad"} /\ (Build(m) = "bad" => m \in Bd)
    BY DEF Build
  <2>2. Sent(Append(s.out, x), S, s.sent \cup {m}, Bd)
    BY <1>1, <1>4, <2>1, SentAlso
  <2>3. SendLoad(s, m) = [s EXCEPT !.out = Append(@, x), !.sent = @ \cup {m}]
    BY <1>4 DEF SendLoad
  <2> HIDE DEF x
  <2>4. /\ SendLoad(s, m).out = Append(s.out, x) /\ SendLoad(s, m).sent = s.sent \cup {m}
        /\ SendLoad(s, m).raised = s.raised
        /\ SendLoad(s, m) = [sent |-> s.sent \cup {m}, out |-> Append(s.out, x), raised |-> s.raised]
    BY <1>1, <2>3
  <2>5. Append(s.out, x) \in Seq(Loads)
    BY <2>2 DEF Sent
  <2>6. SendLoad(s, m) \in [sent : SUBSET Modules, out : Seq(Loads), raised : BOOLEAN]
    BY <1>1, <2>4, <2>5
  <2> QED BY <1>1, <2>2, <2>4, <2>6 DEF Answers
<1> QED BY <1>2, <1>3, <1>4

\* An answer of the master about m: what is sent, once, and m in any case.
LEMMA SendRelatedSends ==
  ASSUME NEW S \in SUBSET Modules, NEW m \in Modules, NEW Bd, \A x \in Modules : Unbuilt(x) => x \in Bd,
         m \in Blacklist => m \in Bd
  PROVE  /\ Sent(SendRelated(S, m).out, S, SendRelated(S, m).sent, Bd)
         /\ \/ m \in SendRelated(S, m).sent
            \/ \E i \in 1..Len(SendRelated(S, m).out) : SendRelated(S, m).out[i].mod = m
<1> DEFINE may == Unbuilt(m) \/ m \in Blacklist
           P == Answers(S, Bd, may)
           n == Len(Related[m])
           start == [sent |-> S, out |-> <<>>, raised |-> m \in Broken \cup Blacklist]
           skips(s, r) == s.raised \/ ~Listed(r) \/ (Top[r] # m /\ Top[r] \notin s.sent)
           step(s, k) == IF skips(s, Related[m][k]) THEN s ELSE SendLoad(s, Related[m][k])
           Is(f) == f = [k \in 0..n |-> IF k = 0 THEN start
                                        ELSE IF skips(f[k - 1], Related[m][k]) THEN f[k - 1] ELSE SendLoad(f[k - 1], Related[m][k])]
           after == CHOOSE f : Is(f)
           F == [x \in (1..n) \X P |-> step(x[2], x[1])]
           imports == IF m \in Missing THEN start ELSE after[n]
           all == IF imports.raised THEN imports ELSE SendLoad(imports, m)
           s == SendRelated(S, m)
<1>1. s = IF m \in S THEN [start EXCEPT !.raised = FALSE]
          ELSE IF all.raised THEN [all EXCEPT !.out = Append(@, Load(m, "bad"))] ELSE all
  BY DEF SendRelated
<1>2. Related[m] \in Seq(Modules) /\ n \in Nat /\ \A k \in 1..n : Related[m][k] \in Modules /\ k \in DOMAIN Related[m]
  BY ImportsAssumption DEF ImportsAssumption
<1>3. start \in P
  <2>1. Sent(<<>>, S, S, Bd)
    BY SentNone
  <2>2. m \in Broken \cup Blacklist => may
    BY DEF Unbuilt
  <2> HIDE DEF may
  <2> DEFINE fails == m \in Broken \cup Blacklist
  <2>3. start = [sent |-> S, out |-> <<>>, raised |-> fails] /\ fails \in BOOLEAN
    OBVIOUS
  <2>4. start.raised => may
    BY <2>2
  <2>5. start \in [sent : SUBSET Modules, out : Seq(Loads), raised : BOOLEAN] /\ start.sent = S /\ start.out = <<>>
    <3> HIDE DEF fails, start
    <3> QED BY <2>3
  <2> HIDE DEF start
  <2> QED BY <2>1, <2>4, <2>5 DEF Answers
<1>4. ASSUME NEW k \in 1..n, NEW x \in P PROVE step(x, k) \in P
  <2> DEFINE r == Related[m][k]
  <2>1. r \in Modules
    BY <1>2
  <2>2. CASE skips(x, r)
    BY <2>2
  <2>3. CASE ~skips(x, r)
    <3>1. r \notin Blacklist
      BY <2>3 DEF Listed
    <3>2. r \in Broken => may
      BY <1>2 DEF Unbuilt
    <3>3. r \in Missing => r \in Bd
      BY <2>1 DEF Unbuilt
    <3> HIDE DEF may, r
    <3>4. SendLoad(x, r) \in P
      BY <2>1, <3>1, <3>2, <3>3, SendLoadKeeps
    <3> QED BY <2>3, <3>4 DEF r
  <2> QED BY <2>2, <2>3
<1>5. F \in [(1..n) \X P -> P]
  <2> HIDE DEF P, n, step
  <2> QED BY <1>4
<1>6. PICK h \in [0..n -> P] : IsLoop(h, F, start, n)
  <2> HIDE DEF F, P, n, start
  <2> QED BY <1>2, <1>3, <1>5, StepsIn
<1>7. Is(h)
  <2>1. h[0] = start /\ \A k \in 1..n : h[k] = F[<<k, h[k - 1]>>]
    BY <1>6 DEF IsLoop
  <2>2. ASSUME NEW k \in 0..n PROVE h[k] = IF k = 0 THEN start ELSE step(h[k - 1], k)
    <3> HIDE DEF P, step, start, n
    <3>1. CASE k = 0
      BY <2>1, <3>1
    <3>2. CASE k # 0
      <4>1. k \in 1..n /\ k - 1 \in 0..n
        BY <1>2, <3>2
      <4>2. h[k - 1] \in P /\ h[k] = F[<<k, h[k - 1]>>]
        BY <1>6, <2>1, <4>1
      <4> QED BY <3>2, <4>1, <4>2
    <3> QED BY <3>1, <3>2
  <2>3. h = [k \in 0..n |-> h[k]]
    BY <1>6
  <2> HIDE DEF P, start, n
  <2> QED BY <2>2, <2>3
<1>8. Is(after)
  <2> HIDE DEF Is
  <2> QED BY <1>7
<1>9. after[0] = start /\ \A k \in 1..n : after[k] = step(after[k - 1], k)
  <2>1. 0 \in 0..n /\ \A k \in 1..n : k \in 0..n /\ k # 0
    BY <1>2
  <2> HIDE DEF after, start, n
  <2> QED BY <1>8, <2>1
<1>10. after[n] \in P
  <2> HIDE DEF after, start, n, P, step, Is, F
  <2>1. \A k \in 1..n : after[k - 1] \in P => after[k] \in P
    BY <1>4, <1>9
  <2>2. \A k \in 0..n : after[k] \in P
    BY <1>2, <1>3, <1>9, <2>1, UpTo
  <2> QED BY <1>2, <2>2
<1>11. imports \in P
  BY <1>3, <1>10
<1> HIDE DEF imports, start, P, after
<1>12. all \in P /\ (all.raised \/ m \in all.sent)
  <2>1. CASE imports.raised
    BY <1>11, <2>1
  <2>2. CASE ~imports.raised
    <3>1. m \in Broken \cup Blacklist => may
      BY DEF Unbuilt
    <3>2. m \in Missing => m \in Bd
      BY DEF Unbuilt
    <3> HIDE DEF may
    <3>3. SendLoad(imports, m) \in P /\ (SendLoad(imports, m).raised \/ m \in SendLoad(imports, m).sent)
      BY <1>11, <3>1, <3>2, SendLoadKeeps DEF P
    <3> QED BY <2>2, <3>3
  <2> QED BY <2>1, <2>2
<1> HIDE DEF all
<1>13. /\ all \in [sent : SUBSET Modules, out : Seq(Loads), raised : BOOLEAN]
       /\ Sent(all.out, S, all.sent, Bd) /\ (all.raised => m \in Bd)
  BY <1>12 DEF P, Answers
<1>14. CASE m \in S
  <2>1. s.out = <<>> /\ s.sent = S
    BY <1>1, <1>14 DEF start
  <2>2. Sent(<<>>, S, S, Bd)
    BY SentNone
  <2> QED BY <1>14, <2>1, <2>2
<1>15. CASE m \notin S /\ all.raised
  <2> DEFINE x == Load(m, "bad")
  <2>1. s.out = Append(all.out, x) /\ s.sent = all.sent
    BY <1>1, <1>13, <1>15
  <2>2. Sent(Append(all.out, x), S, all.sent, Bd)
    BY <1>13, <1>15, SentBad
  <2>3. x.mod = m /\ x \in Loads
    BY DEF Load, Loads
  <2>4. Len(s.out) = Len(all.out) + 1 /\ s.out[Len(all.out) + 1] = x /\ Len(all.out) + 1 \in 1..Len(s.out)
    <3> HIDE DEF x, s
    <3> QED BY <1>13, <2>1, <2>3
  <2> QED BY <2>1, <2>2, <2>3, <2>4
<1>16. CASE m \notin S /\ ~all.raised
  <2>1. s = all
    BY <1>1, <1>16
  <2> QED BY <1>12, <1>13, <1>16, <2>1
<1> QED BY <1>14, <1>15, <1>16

\* The parts of what a forwarder sends.
Relays(S, Bd) == {s \in [out : Seq(Loads), sent : SUBSET Modules] : Sent(s.out, S, s.sent, Bd)}

LEMMA SendOneKeeps ==
  ASSUME NEW S, NEW Bd, NEW s \in Relays(S, Bd), NEW c \in [Modules -> {"none", "good", "bad"}],
         NEW m \in Modules, c[m] = "bad" => m \in Bd
  PROVE  SendOne(c, s, m) \in Relays(S, Bd) /\ (c[m] # "none" => m \in SendOne(c, s, m).sent)
<1>1. s \in [out : Seq(Loads), sent : SUBSET Modules] /\ Sent(s.out, S, s.sent, Bd)
  BY DEF Relays
<1>2. CASE c[m] = "none" \/ m \in s.sent
  BY <1>2 DEF SendOne
<1>3. CASE c[m] # "none" /\ m \notin s.sent
  <2> DEFINE x == Load(m, c[m])
             o == Append(s.out, x)
  <2>1. Sent(o, S, s.sent \cup {m}, Bd)
    BY <1>1, <1>3, SentAlso
  <2>2. SendOne(c, s, m) = [out |-> o, sent |-> s.sent \cup {m}]
    BY <1>3 DEF SendOne
  <2>3. o \in Seq(Loads)
    BY <2>1 DEF Sent
  <2> DEFINE r == SendOne(c, s, m)
  <2> HIDE DEF o
  <2>4. r.out = o /\ r.sent = s.sent \cup {m} /\ r \in [out : Seq(Loads), sent : SUBSET Modules]
    BY <1>1, <2>2, <2>3
  <2> HIDE DEF r
  <2>5. r \in Relays(S, Bd)
    BY <2>1, <2>4 DEF Relays
  <2> QED BY <2>4, <2>5 DEF r
<1> QED BY <1>2, <1>3

\* An answer of a forwarder about m, which it has: what is sent, once, and m in any case.
LEMMA FromCacheSends ==
  ASSUME NEW S \in SUBSET Modules, NEW m \in Modules, NEW Bd, NEW c \in [Modules -> {"none", "good", "bad"}],
         \A x \in Modules : c[x] = "bad" => x \in Bd, c[m] # "none"
  PROVE  /\ Sent(FromCache(c, S, m).out, S, FromCache(c, S, m).sent, Bd)
         /\ m \in FromCache(c, S, m).sent
<1> DEFINE P == Relays(S, Bd)
           n == Len(Related[m])
           start == [out |-> <<>>, sent |-> S]
           step(s, k) == IF Listed(Related[m][k]) THEN SendOne(c, s, Related[m][k]) ELSE s
           Is(f) == f = [k \in 0..n |-> IF k = 0 THEN start
                                        ELSE IF Listed(Related[m][k]) THEN SendOne(c, f[k - 1], Related[m][k]) ELSE f[k - 1]]
           after == CHOOSE f : Is(f)
           F == [x \in (1..n) \X P |-> step(x[2], x[1])]
           imports == IF c[m] = "good" THEN after[n] ELSE start
           s == FromCache(c, S, m)
<1>1. s = SendOne(c, imports, m)
  BY DEF FromCache
<1>2. Related[m] \in Seq(Modules) /\ n \in Nat /\ \A k \in 1..n : Related[m][k] \in Modules
  BY ImportsAssumption DEF ImportsAssumption
<1>3. start \in P
  BY SentNone DEF Relays
<1>4. ASSUME NEW k \in 1..n, NEW x \in P PROVE step(x, k) \in P
  <2> DEFINE r == Related[m][k]
  <2>1. r \in Modules
    BY <1>2
  <2>2. SendOne(c, x, r) \in P
    <3> HIDE DEF r
    <3> QED BY <2>1, SendOneKeeps
  <2> HIDE DEF P
  <2> QED BY <2>2
<1>5. F \in [(1..n) \X P -> P]
  <2> HIDE DEF P, n, step
  <2> QED BY <1>4
<1>6. PICK h \in [0..n -> P] : IsLoop(h, F, start, n)
  <2> HIDE DEF F, P, n, start
  <2> QED BY <1>2, <1>3, <1>5, StepsIn
<1>7. Is(h)
  <2>1. h[0] = start /\ \A k \in 1..n : h[k] = F[<<k, h[k - 1]>>]
    BY <1>6 DEF IsLoop
  <2>2. ASSUME NEW k \in 0..n PROVE h[k] = IF k = 0 THEN start ELSE step(h[k - 1], k)
    <3> HIDE DEF P, step, start, n
    <3>1. CASE k = 0
      BY <2>1, <3>1
    <3>2. CASE k # 0
      <4>1. k \in 1..n /\ k - 1 \in 0..n
        BY <1>2, <3>2
      <4>2. h[k - 1] \in P /\ h[k] = F[<<k, h[k - 1]>>]
        BY <1>6, <2>1, <4>1
      <4> QED BY <3>2, <4>1, <4>2
    <3> QED BY <3>1, <3>2
  <2>3. h = [k \in 0..n |-> h[k]]
    BY <1>6
  <2> HIDE DEF P, start, n
  <2> QED BY <2>2, <2>3
<1>8. Is(after)
  <2> HIDE DEF Is
  <2> QED BY <1>7
<1>9. after[0] = start /\ \A k \in 1..n : after[k] = step(after[k - 1], k)
  <2>1. 0 \in 0..n /\ \A k \in 1..n : k \in 0..n /\ k # 0
    BY <1>2
  <2> HIDE DEF after, start, n
  <2> QED BY <1>8, <2>1
<1>10. after[n] \in P
  <2> HIDE DEF after, start, n, P, step, Is, F
  <2>1. \A k \in 1..n : after[k - 1] \in P => after[k] \in P
    BY <1>4, <1>9
  <2>2. \A k \in 0..n : after[k] \in P
    BY <1>2, <1>3, <1>9, <2>1, UpTo
  <2> QED BY <1>2, <2>2
<1>11. imports \in P
  BY <1>3, <1>10
<1> HIDE DEF imports, P
<1>12. s \in P /\ m \in s.sent
  BY <1>1, <1>11, SendOneKeeps DEF P
<1> QED BY <1>12 DEF P, Relays

\* What was put on a stream is there.
LEMMA SentThere ==
  ASSUME NEW n, NEW d \in Seq(Msgs(n)), NEW out \in Seq(Loads), NEW m, \E i \in 1..Len(out) : out[i].mod = m
  PROVE  \E i \in 1..Len(d \o out) : LoadAt(d \o out, i, m)
<1>1. PICK i \in 1..Len(out) : out[i].mod = m
  OBVIOUS
<1>2. out \in Seq(Msgs(n)) /\ out[i].kind = "load"
  <2>1. Loads \subseteq Msgs(n) /\ out[i] \in Loads
    BY DEF Msgs
  <2>2. out[i].kind = "load"
    BY <2>1 DEF Loads
  <2>3. out \in Seq(Msgs(n))
    BY <2>1
  <2> QED BY <2>2, <2>3
<1> DEFINE p == Len(d)
           q == Len(out)
           e == d \o out
<1>3. /\ Len(e) = p + q /\ p \in Nat /\ q \in Nat /\ \A k \in 1..p + q : k > p => e[k] = out[k - p]
  BY <1>2, ConcatAt
<1> HIDE DEF e, p, q
<1>4. p + i \in 1..p + q /\ p + i > p /\ (p + i) - p = i
  BY <1>1, <1>3 DEF q
<1>5. e[p + i] = out[i]
  BY <1>3, <1>4
<1> QED BY <1>1, <1>2, <1>3, <1>4, <1>5 DEF LoadAt, e

\* stream_by_id(): the next hop is a child, and what is below n is it or below it.
LEMMA TowardsIs ==
  ASSUME NEW k \in Contexts, NEW n \in Lineage[k], n # k
  PROVE  /\ Towards(n, k) \in Contexts /\ Towards(n, k) \in Lineage[k] /\ Above[Towards(n, k)] = n
<1> DEFINE All == Contexts \cup {ImportRoot}
           Fewest(S) == k \in S /\ \A j \in S \cap Contexts : Above[j] \in S
<1>1. Lineage[k] = {x \in All : \A S \in SUBSET All : Fewest(S) => x \in S}
  BY DEF Lineage
<1>2. Fewest(Lineage[k])
  BY <1>1, ImportsAssumption DEF ImportsAssumption
<1>3. \E j \in Contexts \cap Lineage[k] : Above[j] = n
  <2>1. SUFFICES ASSUME \A j \in Contexts \cap Lineage[k] : Above[j] # n PROVE FALSE
    OBVIOUS
  <2>2. Fewest(Lineage[k] \ {n}) /\ Lineage[k] \ {n} \in SUBSET All
    BY <1>1, <1>2, <2>1
  <2> HIDE DEF Fewest
  <2> QED BY <1>1, <2>2
<1> QED BY <1>3 DEF Towards

\* Nobody is above itself.
LEMMA NoLoop == ASSUME NEW k \in Contexts PROVE Above[k] # k
<1> DEFINE All == Contexts \cup {ImportRoot}
           Fewest(S) == k \in S /\ \A j \in S \cap Contexts : Above[j] \in S
<1>1. Lineage[k] = {x \in All : \A S \in SUBSET All : Fewest(S) => x \in S} /\ ImportRoot \in Lineage[k] /\ ImportRoot # k
  BY ImportsAssumption DEF Lineage, ImportsAssumption
<1>2. Above[k] = k => Fewest({k})
  OBVIOUS
<1> HIDE DEF Fewest
<1> QED BY <1>1, <1>2

\* What forward_modules() sends keeps the stream in order.
LEMMA ForwardOneKeeps ==
  ASSUME NEW n \in Contexts, NEW d \in Seq(Msgs(n)), NEW c, NEW l, NEW Bd,
         NEW s \in [sent : SUBSET Modules, out : Seq(Msgs(n))], StreamOk(d \o s.out, c, l, s.sent, Bd),
         NEW m \in Modules, \A x \in Modules : Unbuilt(x) => x \in Bd, m \in Blacklist => m \in Bd,
         NEW k \in Contexts, n \in Lineage[k]
  PROVE  LET r == ForwardOne(s, m, k, n)
         IN r \in [sent : SUBSET Modules, out : Seq(Msgs(n))] /\ StreamOk(d \o r.out, c, l, r.sent, Bd)
<1> DEFINE q == SendRelated(s.sent, m)
           order == IF n = k THEN <<>> ELSE <<[kind |-> "forward", mod |-> m, to |-> k]>>
           u == s.out
           v == q.out
           S2 == q.sent
           e == d \o u
           r == ForwardOne(s, m, k, n)
<1>1. r = [sent |-> S2, out |-> u \o v \o order]
  BY DEF ForwardOne
<1>2. Sent(v, s.sent, S2, Bd) /\ (m \in S2 \/ \E i \in 1..Len(v) : v[i].mod = m)
  BY SendRelatedSends
<1>3. u \in Seq(Msgs(n)) /\ s.sent \in SUBSET Modules /\ e \in Seq(Msgs(n)) /\ StreamOk(e, c, l, s.sent, Bd)
  BY Concat
<1>4. v \in Seq(Loads) /\ S2 \in SUBSET Modules /\ Loads \subseteq Msgs(n)
  BY <1>2 DEF Sent, Msgs
<1>5. v \in Seq(Msgs(n))
  BY <1>4
<1>6. order \in Seq(Msgs(n)) /\ (n # k => [kind |-> "forward", mod |-> m, to |-> k] \in Orders(n))
  <2> DEFINE x == [kind |-> "forward", mod |-> m, to |-> k]
  <2>1. n # k => x \in Orders(n)
    BY DEF Orders
  <2>2. Orders(n) \subseteq Msgs(n) /\ <<>> \in Seq(Msgs(n))
    BY DEF Msgs
  <2> HIDE DEF x
  <2>3. order = IF n = k THEN <<>> ELSE <<x>>
    BY DEF x
  <2>4. order \in Seq(Msgs(n))
    <3> HIDE DEF order
    <3> QED BY <2>1, <2>2, <2>3
  <2> QED BY <2>1, <2>4 DEF x
<1> HIDE DEF q, u, v, S2, e, r
<1>7. e \o v \in Seq(Msgs(n)) /\ StreamOk(e \o v, c, l, S2, Bd)
  BY <1>2, <1>3, Streamed
<1>8. StreamOk((e \o v) \o order, c, l, S2, Bd)
  <2>1. CASE n = k
    <3>1. (e \o v) \o <<>> = e \o v
      BY <1>7
    <3> QED BY <1>7, <2>1, <3>1
  <2>2. CASE n # k
    <3> DEFINE x == [kind |-> "forward", mod |-> m, to |-> k]
    <3>1. x \in Orders(n) /\ x.mod = m /\ order = <<x>>
      BY <1>6, <2>2
    <3> HIDE DEF x, order
    <3>2. m \in S2 \/ \E i \in 1..Len(e \o v) : LoadAt(e \o v, i, m)
      BY <1>2, <1>3, <1>4, SentThere
    <3> QED BY <1>7, <3>1, <3>2, Ordered
  <2> QED BY <2>1, <2>2
<1> HIDE DEF order
<1>9. d \o ((u \o v) \o order) = (e \o v) \o order
  <2>1. u \o v \in Seq(Msgs(n)) /\ u \o v \o order = (u \o v) \o order
    BY <1>3, <1>5, Concat
  <2>2. d \o ((u \o v) \o order) = (d \o (u \o v)) \o order
    <3> DEFINE w == u \o v
    <3>1. w \in Seq(Msgs(n)) /\ order \in Seq(Msgs(n))
      BY <1>6, <2>1
    <3> HIDE DEF w
    <3>2. (d \o w) \o order = d \o (w \o order)
      BY <3>1, Assoc
    <3> QED BY <3>2 DEF w
  <2>3. d \o (u \o v) = e \o v
    BY <1>3, <1>5, Assoc DEF e
  <2> QED BY <2>2, <2>3
<1>10. u \o v \o order \in Seq(Msgs(n))
  <2>1. u \o v \in Seq(Msgs(n))
    BY <1>3, <1>5, Concat
  <2> QED BY <1>6, <2>1, Concat
<1>11. r.out = u \o v \o order /\ r.sent = S2 /\ r \in [sent : SUBSET Modules, out : Seq(Msgs(n))]
  BY <1>1, <1>4, <1>10
<1> QED BY <1>8, <1>9, <1>11 DEF r

-----------------------------------------------------------------------------
(* The steps                                                                     *)

LEMMA InitImports == ImportsInit => ImportsInv
<1> SUFFICES ASSUME ImportsInit PROVE ImportsInv
  OBVIOUS
<1>1. ImportFields
  BY ImportsAssumption DEF ImportFields, ImportsInit, ImportsAssumption
<1>2. Waiters
  BY DEF Waiters, ImportsInit
<1>3. Streams
  <2>1. ASSUME NEW n \in Contexts PROVE StreamOk(downward[n], cache[n], loads[n], sentMods[n], MayMiss)
    <3>1. /\ downward[n] = <<>> /\ cache[n] = [m \in Modules |-> "none"] /\ loads[n] = [m \in Modules |-> 0]
          /\ sentMods[n] = {}
      BY DEF ImportsInit
    <3>2. Len(downward[n]) = 0 /\ \A i \in 1..Len(downward[n]) : FALSE
      BY <3>1
    <3>3. Founded(downward[n], cache[n]) /\ Covered(downward[n], cache[n], sentMods[n]) /\ Truthful(downward[n], cache[n], MayMiss)
      BY <3>1, <3>2 DEF Founded, Covered, Truthful
    <3>4. Once(downward[n], loads[n], sentMods[n])
      BY <3>1, <3>2 DEF Once
    <3> QED BY <3>3, <3>4 DEF StreamOk
  <2> QED BY <2>1 DEF Streams
<1> QED BY <1>1, <1>2, <1>3 DEF ImportsInv

LEMMA Missable ==
  ASSUME ImportsInv, NEW n \in Contexts
  PROVE  /\ \A x \in Modules : Unbuilt(x) => x \in MayMiss
         /\ \A x \in Modules : cache[n][x] = "bad" => x \in MayMiss
  BY DEF MayMiss, ImportsInv, Streams, StreamOk, Truthful

\* A step that changes one stream, and what is sent over it.
LEMMA StreamChanges ==
  ASSUME ImportsInv, NEW k \in Contexts, NEW d2 \in Seq(Msgs(k)), NEW S2 \in SUBSET Modules, NEW More,
         MayMiss \subseteq More, MayMiss' = More, cache' = cache, loads' = loads,
         downward' = [downward EXCEPT ![k] = d2], sentMods' = [sentMods EXCEPT ![k] = S2],
         StreamOk(d2, cache[k], loads[k], S2, More)
  PROVE  /\ Streams' /\ sentMods' \in [Contexts -> SUBSET Modules]
         /\ DOMAIN downward' = Contexts /\ \A n \in Contexts : downward'[n] \in Seq(Msgs(n))
<1>1. /\ DOMAIN downward = Contexts /\ \A n \in Contexts : downward[n] \in Seq(Msgs(n))
      /\ sentMods \in [Contexts -> SUBSET Modules]
  BY DEF ImportsInv, ImportFields
<1>2. /\ downward'[k] = d2 /\ sentMods'[k] = S2
      /\ \A n \in Contexts : n # k => downward'[n] = downward[n] /\ sentMods'[n] = sentMods[n]
  BY <1>1
<1>3. \A n \in Contexts : downward'[n] \in Seq(Msgs(n))
  BY <1>1, <1>2
<1>4. Streams'
  <2>1. ASSUME NEW n \in Contexts PROVE StreamOk(downward'[n], cache'[n], loads'[n], sentMods'[n], More)
    <3>1. CASE n = k
      BY <1>2, <3>1
    <3>2. CASE n # k
      <4>1. StreamOk(downward[n], cache[n], loads[n], sentMods[n], MayMiss)
        BY DEF ImportsInv, Streams
      <4> QED BY <1>2, <3>2, <4>1, MoreMissing
    <3> QED BY <3>1, <3>2
  <2> QED BY <2>1 DEF Streams
<1> QED BY <1>1, <1>3, <1>4

LEMMA SameMissing == preloaded' = preloaded => MayMiss' = MayMiss
  BY DEF MayMiss, Unasked

LEMMA MasterAnswers ==
  ASSUME ImportsInv, NEW k \in Contexts, MasterGetModule(k)
  PROVE  ImportsInv'
<1> DEFINE m == Head(upward[k])
           s == SendRelated(sentMods[k], m)
           d == downward[k] \o s.out
<1>1. /\ upward[k] # <<>> /\ downward' = [downward EXCEPT ![k] = d] /\ sentMods' = [sentMods EXCEPT ![k] = s.sent]
      /\ upward' = [upward EXCEPT ![k] = Tail(@)]
      /\ UNCHANGED <<attached, cache, callbacks, wants, loads, preloaded>>
  BY DEF MasterGetModule
<1>2. ImportFields /\ Waiters /\ StreamOk(downward[k], cache[k], loads[k], sentMods[k], MayMiss)
  BY DEF ImportsInv, Streams
<1>3. /\ upward[k] \in Seq(Modules \ Blacklist) /\ downward[k] \in Seq(Msgs(k)) /\ sentMods[k] \in SUBSET Modules
  BY <1>2 DEF ImportFields
<1>4. m \in Modules \ Blacklist /\ Tail(upward[k]) \in Seq(Modules \ Blacklist)
  BY <1>1, <1>3
<1>5. Sent(s.out, sentMods[k], s.sent, MayMiss)
  BY <1>3, <1>4, SendRelatedSends, Missable
<1>6. s.sent \in SUBSET Modules
  BY <1>5 DEF Sent
<1>7. d \in Seq(Msgs(k)) /\ StreamOk(d, cache[k], loads[k], s.sent, MayMiss)
  BY <1>2, <1>3, <1>5, Streamed
<1>8. MayMiss' = MayMiss
  BY <1>1, SameMissing
<1> HIDE DEF d, s, m
<1>9. /\ Streams' /\ sentMods' \in [Contexts -> SUBSET Modules]
      /\ DOMAIN downward' = Contexts /\ \A n \in Contexts : downward'[n] \in Seq(Msgs(n))
  BY <1>1, <1>6, <1>7, <1>8, StreamChanges
<1>10. upward' \in [Contexts -> Seq(Modules \ Blacklist)]
  BY <1>1, <1>2, <1>4 DEF ImportFields
<1>11. ImportFields'
  BY <1>1, <1>2, <1>9, <1>10 DEF ImportFields
<1>12. Waiters'
  BY <1>1, <1>2 DEF Waiters
<1> QED BY <1>9, <1>11, <1>12 DEF ImportsInv

LEMMA ForwardsModules ==
  ASSUME ImportsInv, NEW k \in Contexts, NEW m \in Modules, ForwardModules(k, m)
  PROVE  ImportsInv'
<1> DEFINE j == Towards(ImportRoot, k)
           start == [sent |-> sentMods[j], out |-> <<>>]
           package == IF Top[m] = m THEN start ELSE ForwardOne(start, Top[m], k, j)
           s == ForwardOne(package, m, k, j)
           d == downward[j] \o s.out
           R == [sent : SUBSET Modules, out : Seq(Msgs(j))]
           Fine(r) == StreamOk(downward[j] \o r.out, cache[j], loads[j], r.sent, MayMiss')
<1>1. /\ <<k, m>> \in Preloads \ preloaded /\ preloaded' = preloaded \cup {<<k, m>>}
      /\ downward' = [downward EXCEPT ![j] = d] /\ sentMods' = [sentMods EXCEPT ![j] = s.sent]
      /\ UNCHANGED <<attached, cache, callbacks, upward, wants, loads>>
  BY DEF ForwardModules
<1>2. j \in Contexts /\ j \in Lineage[k]
  <2>1. ImportRoot \in Lineage[k] /\ ImportRoot # k
    BY ImportsAssumption DEF ImportsAssumption
  <2> QED BY <2>1, TowardsIs
<1>3. ImportFields /\ Waiters /\ StreamOk(downward[j], cache[j], loads[j], sentMods[j], MayMiss)
  BY <1>2 DEF ImportsInv, Streams
<1>4. downward[j] \in Seq(Msgs(j)) /\ sentMods[j] \in SUBSET Modules
  BY <1>2, <1>3 DEF ImportFields
<1>5. /\ MayMiss \subseteq MayMiss' /\ \A x \in Modules : Unbuilt(x) => x \in MayMiss'
      /\ Top[m] \in Modules /\ \A x \in {m, Top[m]} : x \in Blacklist => x \in MayMiss'
  <2>1. <<k, m>> \in preloaded' /\ preloaded \subseteq preloaded' /\ Top[m] \in Modules
    BY <1>1, ImportsAssumption DEF ImportsAssumption
  <2>2. \A x \in {m, Top[m]} : x \in Blacklist => Unasked(x)'
    <3>1. <<k, m>>[2] = m
      OBVIOUS
    <3> QED BY <2>1, <3>1 DEF Unasked
  <2>3. \A x \in Modules : Unasked(x) => Unasked(x)'
    BY <2>1 DEF Unasked
  <2>4. MayMiss' = {x \in Modules : Unbuilt(x) \/ Unasked(x)'}
    BY DEF MayMiss, Unbuilt
  <2> QED BY <2>1, <2>2, <2>3, <2>4 DEF MayMiss
<1> HIDE DEF j
<1>6. start \in R /\ Fine(start)
  <2>1. downward[j] \o <<>> = downward[j]
    BY <1>4
  <2>2. StreamOk(downward[j], cache[j], loads[j], sentMods[j], MayMiss')
    BY <1>3, <1>5, MoreMissing
  <2> QED BY <1>4, <2>1, <2>2
<1>7. ASSUME NEW r \in R, Fine(r), NEW x \in {m, Top[m]}
      PROVE  ForwardOne(r, x, k, j) \in R /\ Fine(ForwardOne(r, x, k, j))
  <2> DEFINE Bd == MayMiss'
             c == cache[j]
             l == loads[j]
  <2>1. x \in Modules /\ (\A y \in Modules : Unbuilt(y) => y \in Bd) /\ (x \in Blacklist => x \in Bd)
    BY <1>5
  <2>2. StreamOk(downward[j] \o r.out, c, l, r.sent, Bd)
    BY <1>7
  <2> HIDE DEF Bd, c, l
  <2>3. /\ ForwardOne(r, x, k, j) \in R
        /\ StreamOk(downward[j] \o ForwardOne(r, x, k, j).out, c, l, ForwardOne(r, x, k, j).sent, Bd)
    BY <1>2, <1>4, <1>7, <2>1, <2>2, ForwardOneKeeps
  <2> QED BY <2>3 DEF Bd, c, l
<1>8. package \in R /\ Fine(package)
  <2>1. CASE Top[m] = m
    <3> HIDE DEF start, R, Fine
    <3> QED BY <1>6, <2>1
  <2>2. CASE Top[m] # m
    <3> HIDE DEF start, R, Fine
    <3> QED BY <1>6, <1>7, <2>2
  <2> QED BY <2>1, <2>2
<1>9. s \in R /\ Fine(s)
  <2> HIDE DEF package, R, Fine
  <2> QED BY <1>7, <1>8
<1>10. s.sent \in SUBSET Modules /\ d \in Seq(Msgs(j)) /\ StreamOk(d, cache[j], loads[j], s.sent, MayMiss')
  <2> HIDE DEF s
  <2> QED BY <1>4, <1>9, Concat
<1> HIDE DEF s, d
<1>11. /\ Streams' /\ sentMods' \in [Contexts -> SUBSET Modules]
       /\ DOMAIN downward' = Contexts /\ \A n \in Contexts : downward'[n] \in Seq(Msgs(n))
  <2> DEFINE More == MayMiss'
  <2>1. StreamOk(d, cache[j], loads[j], s.sent, More) /\ MayMiss \subseteq More /\ MayMiss' = More
    BY <1>5, <1>10
  <2> HIDE DEF More
  <2> QED BY <1>1, <1>2, <1>10, <2>1, StreamChanges
<1>12. ImportFields'
  BY <1>1, <1>3, <1>11 DEF ImportFields
<1>13. Waiters'
  BY <1>1, <1>3 DEF Waiters
<1> QED BY <1>11, <1>12, <1>13 DEF ImportsInv

\* Somebody more who waits for m at n.
Added(cb, n, m, who) == [cb EXCEPT ![n][m] = @ \cup {who}]
Everyone == Importers \cup Contexts

LEMMA AddedIs ==
  ASSUME NEW cb \in [Contexts -> [Modules -> SUBSET Everyone]], NEW n \in Contexts, NEW m \in Modules, NEW who \in Everyone
  PROVE  /\ Added(cb, n, m, who) \in [Contexts -> [Modules -> SUBSET Everyone]]
         /\ \A k \in Contexts, x \in Modules : \A w \in Added(cb, n, m, who)[k][x] :
              w \in cb[k][x] \/ (k = n /\ x = m /\ w = who)
<1> DEFINE row == [cb[n] EXCEPT ![m] = cb[n][m] \cup {who}]
           a == Added(cb, n, m, who)
<1>1. cb[n] \in [Modules -> SUBSET Everyone]
  OBVIOUS
<1>2. a = [cb EXCEPT ![n] = row]
  BY DEF Added
<1>3. /\ row \in [Modules -> SUBSET Everyone]
      /\ \A x \in Modules : row[x] = IF x = m THEN cb[n][x] \cup {who} ELSE cb[n][x]
  BY <1>1
<1> HIDE DEF row, a
<1>4. \A k \in Contexts : a[k] = IF k = n THEN row ELSE cb[k]
  BY <1>2
<1>5. a \in [Contexts -> [Modules -> SUBSET Everyone]]
  BY <1>2, <1>3
<1>7. ASSUME NEW k \in Contexts, NEW x \in Modules, NEW w \in a[k][x]
      PROVE  w \in cb[k][x] \/ (k = n /\ x = m /\ w = who)
  <2>1. CASE k = n /\ x = m
    BY <1>3, <1>4, <1>7, <2>1
  <2>2. CASE k = n /\ x # m
    BY <1>3, <1>4, <1>7, <2>2
  <2>3. CASE k # n
    BY <1>4, <1>7, <2>3
  <2> QED BY <2>1, <2>2, <2>3
<1> QED BY <1>5, <1>7 DEF a

LEMMA Imported ==
  ASSUME ImportsInv, NEW t \in Importers, NEW m \in Modules, LoadModule(t, m)
  PROVE  ImportsInv'
<1> DEFINE n == HomeOf[t]
<1>1. /\ wants[t] = "nothing" /\ m \notin Blacklist
      /\ wants' = IF cache[n][m] = "none" THEN [wants EXCEPT ![t] = m] ELSE wants
      /\ IF cache[n][m] = "none" THEN Request(n, m, t) ELSE UNCHANGED <<callbacks, upward>>
      /\ UNCHANGED <<attached, cache, sentMods, downward, loads, preloaded>>
  BY DEF LoadModule, RefuseImports
<1>2. ImportFields /\ Waiters /\ Streams
  BY DEF ImportsInv
<1>3. n \in Contexts /\ "nothing" \notin Modules
  BY ImportsAssumption DEF ImportsAssumption
<1>4. MayMiss' = MayMiss
  BY <1>1, SameMissing
<1>5. Streams'
  BY <1>1, <1>2, <1>4 DEF Streams
<1>6. CASE cache[n][m] = "none"
  <2>1. wants' = [wants EXCEPT ![t] = m] /\ wants \in [Importers -> Modules \cup {"nothing"}]
    BY <1>1, <1>2, <1>6 DEF ImportFields
  <2>2. /\ callbacks' = Added(callbacks, n, m, t)
        /\ upward' = IF callbacks[n][m] # {} THEN upward ELSE [upward EXCEPT ![n] = Append(@, m)]
    BY <1>1, <1>6 DEF Request, Added
  <2>3. upward \in [Contexts -> Seq(Modules \ Blacklist)] /\ callbacks \in [Contexts -> [Modules -> SUBSET Everyone]]
    BY <1>2 DEF ImportFields, Everyone
  <2> HIDE DEF n
  <2>4. /\ callbacks' \in [Contexts -> [Modules -> SUBSET Everyone]]
        /\ \A k \in Contexts, x \in Modules : \A w \in callbacks'[k][x] :
             w \in callbacks[k][x] \/ (k = n /\ x = m /\ w = t)
    <3>1. t \in Everyone
      BY DEF Everyone
    <3> DEFINE cb == callbacks
    <3>2. n \in Contexts /\ cb \in [Contexts -> [Modules -> SUBSET Everyone]] /\ callbacks' = Added(cb, n, m, t)
      BY <1>3, <2>2, <2>3
    <3> HIDE DEF cb
    <3>3. /\ Added(cb, n, m, t) \in [Contexts -> [Modules -> SUBSET Everyone]]
          /\ \A k \in Contexts, x \in Modules : \A w \in Added(cb, n, m, t)[k][x] :
               w \in cb[k][x] \/ (k = n /\ x = m /\ w = t)
      BY <3>1, <3>2, AddedIs
    <3> QED BY <3>2, <3>3 DEF cb
  <2>7. upward' \in [Contexts -> Seq(Modules \ Blacklist)]
    <3>1. Append(upward[n], m) \in Seq(Modules \ Blacklist)
      BY <1>1, <1>3, <2>3
    <3> QED BY <2>2, <2>3, <3>1
  <2>5. ImportFields'
    BY <1>1, <1>2, <2>1, <2>4, <2>7 DEF ImportFields, Everyone
  <2>6. Waiters'
    <3>1. ASSUME NEW k \in Contexts, NEW x \in Modules, NEW w \in callbacks'[k][x]
          PROVE  (w \in Importers /\ HomeOf[w] = k /\ wants'[w] = x) \/ (w \in Contexts /\ Above[w] = k)
      <4>1. CASE w \in callbacks[k][x]
        <5>1. (w \in Importers /\ HomeOf[w] = k /\ wants[w] = x) \/ (w \in Contexts /\ Above[w] = k)
          BY <1>2, <4>1 DEF Waiters
        <5>2. wants[t] # x
          BY <1>1, <1>3
        <5> QED BY <2>1, <5>1, <5>2
      <4>2. CASE w \notin callbacks[k][x]
        <5>2. k = n /\ x = m /\ w = t
          BY <2>4, <3>1, <4>2
        <5> QED BY <2>1, <5>2 DEF n
      <4> QED BY <4>1, <4>2
    <3> QED BY <3>1 DEF Waiters
  <2> QED BY <1>5, <2>5, <2>6 DEF ImportsInv
<1>7. CASE cache[n][m] # "none"
  <2>1. UNCHANGED <<wants, callbacks, upward>>
    BY <1>1, <1>7
  <2>2. ImportFields'
    BY <1>1, <1>2, <2>1 DEF ImportFields
  <2>3. Waiters'
    BY <1>1, <1>2, <2>1 DEF Waiters
  <2> QED BY <1>5, <2>2, <2>3 DEF ImportsInv
<1> QED BY <1>6, <1>7

LEMMA ForwarderAsked ==
  ASSUME ImportsInv, NEW k \in Contexts, OnGetModule(k)
  PROVE  ImportsInv'
<1> DEFINE n == Above[k]
           m == Head(upward[k])
           s == FromCache(cache[n], sentMods[k], m)
           d == downward[k] \o s.out
           rest == [upward EXCEPT ![k] = Tail(@)]
<1>1. /\ n \in attached /\ upward[k] # <<>>
      /\ \/ /\ cache[n][m] # "none" /\ downward' = [downward EXCEPT ![k] = d]
            /\ sentMods' = [sentMods EXCEPT ![k] = s.sent] /\ upward' = rest /\ UNCHANGED callbacks
         \/ /\ cache[n][m] = "none" /\ callbacks' = Added(callbacks, n, m, k)
            /\ upward' = IF callbacks[n][m] # {} THEN rest ELSE [rest EXCEPT ![n] = Append(@, m)]
            /\ UNCHANGED <<downward, sentMods>>
      /\ UNCHANGED <<attached, cache, wants, loads, preloaded>>
  BY DEF OnGetModule, Added
<1>2. ImportFields /\ Waiters /\ Streams /\ StreamOk(downward[k], cache[k], loads[k], sentMods[k], MayMiss)
  BY DEF ImportsInv, Streams
<1>3. /\ upward \in [Contexts -> Seq(Modules \ Blacklist)] /\ downward[k] \in Seq(Msgs(k)) /\ sentMods[k] \in SUBSET Modules
      /\ n \in Contexts /\ cache[n] \in [Modules -> {"none", "good", "bad"}]
      /\ callbacks \in [Contexts -> [Modules -> SUBSET Everyone]]
  BY <1>1, <1>2 DEF ImportFields, Everyone
<1>4. m \in Modules \ Blacklist /\ Tail(upward[k]) \in Seq(Modules \ Blacklist)
  BY <1>1, <1>3
<1>5. rest \in [Contexts -> Seq(Modules \ Blacklist)]
  BY <1>3, <1>4
<1>6. MayMiss' = MayMiss
  BY <1>1, SameMissing
<1>7. CASE cache[n][m] # "none"
  <2> DEFINE c == cache[n]
  <2>1. c \in [Modules -> {"none", "good", "bad"}] /\ (\A x \in Modules : c[x] = "bad" => x \in MayMiss) /\ c[m] # "none"
    BY <1>3, <1>7, Missable
  <2>2. s = FromCache(c, sentMods[k], m)
    OBVIOUS
  <2> HIDE DEF s, c, m, n, rest
  <2>3. Sent(s.out, sentMods[k], s.sent, MayMiss)
    BY <1>3, <1>4, <2>1, <2>2, FromCacheSends
  <2>4. s.sent \in SUBSET Modules
    BY <2>3 DEF Sent
  <2>5. d \in Seq(Msgs(k)) /\ StreamOk(d, cache[k], loads[k], s.sent, MayMiss)
    BY <1>2, <1>3, <2>3, Streamed
  <2> HIDE DEF d
  <2>6. /\ Streams' /\ sentMods' \in [Contexts -> SUBSET Modules]
        /\ DOMAIN downward' = Contexts /\ \A j \in Contexts : downward'[j] \in Seq(Msgs(j))
    <3> DEFINE S2 == s.sent
               More == MayMiss
    <3>1. /\ downward' = [downward EXCEPT ![k] = d] /\ sentMods' = [sentMods EXCEPT ![k] = S2]
          /\ cache' = cache /\ loads' = loads /\ MayMiss' = More /\ MayMiss \subseteq More
      BY <1>1, <1>6, <1>7
    <3>2. S2 \in SUBSET Modules /\ d \in Seq(Msgs(k)) /\ StreamOk(d, cache[k], loads[k], S2, More)
      BY <2>4, <2>5
    <3> HIDE DEF S2, More
    <3> QED BY <3>1, <3>2, StreamChanges
  <2>7. ImportFields'
    BY <1>1, <1>2, <1>5, <1>7, <2>6 DEF ImportFields
  <2>8. Waiters'
    BY <1>1, <1>2, <1>7 DEF Waiters
  <2> QED BY <2>6, <2>7, <2>8 DEF ImportsInv
<1>8. CASE cache[n][m] = "none"
  <2> HIDE DEF s, d, m, n, rest
  <2>1. /\ callbacks' = Added(callbacks, n, m, k) /\ UNCHANGED <<downward, sentMods>>
        /\ upward' = IF callbacks[n][m] # {} THEN rest ELSE [rest EXCEPT ![n] = Append(@, m)]
    BY <1>1, <1>8
  <2>2. /\ callbacks' \in [Contexts -> [Modules -> SUBSET Everyone]]
        /\ \A j \in Contexts, x \in Modules : \A w \in callbacks'[j][x] :
             w \in callbacks[j][x] \/ (j = n /\ x = m /\ w = k)
    <3> DEFINE cb == callbacks
    <3>1. n \in Contexts /\ cb \in [Contexts -> [Modules -> SUBSET Everyone]] /\ callbacks' = Added(cb, n, m, k)
          /\ k \in Everyone /\ m \in Modules
      BY <1>3, <1>4, <2>1 DEF Everyone
    <3> HIDE DEF cb
    <3>2. /\ Added(cb, n, m, k) \in [Contexts -> [Modules -> SUBSET Everyone]]
          /\ \A j \in Contexts, x \in Modules : \A w \in Added(cb, n, m, k)[j][x] :
               w \in cb[j][x] \/ (j = n /\ x = m /\ w = k)
      BY <3>1, AddedIs
    <3> QED BY <3>1, <3>2 DEF cb
  <2>3. upward' \in [Contexts -> Seq(Modules \ Blacklist)]
    <3>1. Append(rest[n], m) \in Seq(Modules \ Blacklist)
      BY <1>3, <1>4, <1>5
    <3> QED BY <1>5, <2>1, <3>1
  <2>4. Streams'
    BY <1>1, <1>2, <1>6, <2>1 DEF Streams
  <2>5. ImportFields'
    BY <1>1, <1>2, <2>1, <2>2, <2>3 DEF ImportFields, Everyone
  <2>6. Waiters'
    <3>1. ASSUME NEW j \in Contexts, NEW x \in Modules, NEW w \in callbacks'[j][x]
          PROVE  (w \in Importers /\ HomeOf[w] = j /\ wants'[w] = x) \/ (w \in Contexts /\ Above[w] = j)
      <4>1. CASE w \in callbacks[j][x]
        <5>1. (w \in Importers /\ HomeOf[w] = j /\ wants[w] = x) \/ (w \in Contexts /\ Above[w] = j)
          BY <1>2, <4>1 DEF Waiters
        <5> QED BY <1>1, <5>1
      <4>2. CASE w \notin callbacks[j][x]
        <5>1. j = n /\ w = k
          BY <2>2, <3>1, <4>2
        <5> QED BY <5>1 DEF n
      <4> QED BY <4>1, <4>2
    <3> QED BY <3>1 DEF Waiters
  <2> QED BY <2>4, <2>5, <2>6 DEF ImportsInv
<1> QED BY <1>7, <1>8

LEMMA OrderPassed ==
  ASSUME ImportsInv, NEW n \in Contexts, OnForwardModule(n)
  PROVE  ImportsInv'
<1> DEFINE msg == Head(downward[n])
           k == Towards(n, msg.to)
           m == msg.mod
           c == cache[n]
           s == FromCache(c, sentMods[k], m)
           pass == k \in attached /\ m \notin sentMods[k]
           order == IF k = msg.to THEN <<>> ELSE <<msg>>
           e == downward[k] \o s.out \o order
<1>1. /\ downward[n] # <<>> /\ msg.kind = "forward"
      /\ downward' = [downward EXCEPT ![n] = Tail(@), ![k] = IF pass THEN @ \o s.out \o order ELSE @]
      /\ sentMods' = IF pass THEN [sentMods EXCEPT ![k] = s.sent] ELSE sentMods
      /\ UNCHANGED <<attached, cache, callbacks, upward, wants, loads, preloaded>>
  BY DEF OnForwardModule
<1>2. ImportFields /\ Waiters /\ \A j \in Contexts : StreamOk(downward[j], cache[j], loads[j], sentMods[j], MayMiss)
  BY DEF ImportsInv, Streams
<1>3. /\ DOMAIN downward = Contexts /\ \A j \in Contexts : downward[j] \in Seq(Msgs(j)) /\ sentMods[j] \in SUBSET Modules
      /\ c \in [Modules -> {"none", "good", "bad"}] /\ sentMods \in [Contexts -> SUBSET Modules]
  BY <1>2 DEF ImportFields
<1>4. /\ msg \in Orders(n) /\ c[m] # "none" /\ Tail(downward[n]) \in Seq(Msgs(n))
      /\ StreamOk(Tail(downward[n]), cache[n], loads[n], sentMods[n], MayMiss)
  BY <1>1, <1>2, <1>3, OrderPopped
<1>5. m \in Modules /\ msg.to \in Contexts /\ n \in Lineage[msg.to] /\ n # msg.to
  BY <1>4 DEF Orders
<1>6. k \in Contexts /\ k \in Lineage[msg.to] /\ k # n
  BY <1>5, TowardsIs, NoLoop
<1>7. MayMiss' = MayMiss
  BY <1>1, SameMissing
<1>8. /\ downward[k] \in Seq(Msgs(k)) /\ sentMods[k] \in SUBSET Modules
      /\ StreamOk(downward[k], cache[k], loads[k], sentMods[k], MayMiss)
  BY <1>2, <1>3, <1>6
<1>9. \A x \in Modules : c[x] = "bad" => x \in MayMiss
  BY Missable
<1>10. Sent(s.out, sentMods[k], s.sent, MayMiss) /\ m \in s.sent
  <2> HIDE DEF c, m, k
  <2> QED BY <1>3, <1>4, <1>5, <1>8, <1>9, FromCacheSends
<1>11. k # msg.to => msg \in Orders(k)
  BY <1>4, <1>6 DEF Orders
<1>12. s.sent \in SUBSET Modules /\ s.out \in Seq(Loads)
  BY <1>10 DEF Sent
<1> HIDE DEF c, s, k, msg
<1>13. e \in Seq(Msgs(k)) /\ StreamOk(e, cache[k], loads[k], s.sent, MayMiss)
  <2> DEFINE f == downward[k] \o s.out
  <2>1. f \in Seq(Msgs(k)) /\ StreamOk(f, cache[k], loads[k], s.sent, MayMiss)
    BY <1>8, <1>10, Streamed
  <2>2. e = f \o order
    OBVIOUS
  <2> HIDE DEF f, e
  <2>3. CASE k = msg.to
    <3>1. f \o <<>> = f
      BY <2>1
    <3> QED BY <2>1, <2>2, <2>3, <3>1
  <2>4. CASE k # msg.to
    <3>1. msg \in Orders(k) /\ msg.mod \in s.sent /\ order = <<msg>>
      BY <1>10, <1>11, <2>4
    <3> HIDE DEF order
    <3> QED BY <2>1, <2>2, <3>1, Ordered
  <2> QED BY <2>3, <2>4
<1>14. /\ downward'[n] = Tail(downward[n]) /\ downward'[k] = IF pass THEN e ELSE downward[k]
       /\ DOMAIN downward' = Contexts /\ \A j \in Contexts : j # n /\ j # k => downward'[j] = downward[j]
  BY <1>1, <1>3, <1>6
<1>15. /\ sentMods'[k] = IF pass THEN s.sent ELSE sentMods[k]
       /\ sentMods' \in [Contexts -> SUBSET Modules]
       /\ \A j \in Contexts : j # k => sentMods'[j] = sentMods[j]
  <2>1. CASE pass
    <3> HIDE DEF pass
    <3> QED BY <1>1, <1>3, <1>6, <1>12, <2>1
  <2>2. CASE ~pass
    <3> HIDE DEF pass
    <3> QED BY <1>1, <1>3, <1>6, <1>12, <2>2
  <2> QED BY <2>1, <2>2
<1> HIDE DEF e, pass
<1>16. ASSUME NEW j \in Contexts
       PROVE  /\ downward'[j] \in Seq(Msgs(j))
              /\ StreamOk(downward'[j], cache[j], loads[j], sentMods'[j], MayMiss)
  <2>1. CASE j = n
    BY <1>4, <1>6, <1>14, <1>15, <2>1
  <2>2. CASE j = k /\ pass
    BY <1>13, <1>14, <1>15, <2>2
  <2>3. CASE j = k /\ ~pass
    <3>1. downward'[k] = downward[k] /\ sentMods'[k] = sentMods[k]
      BY <1>14, <1>15, <2>3
    <3>2. /\ downward'[k] \in Seq(Msgs(k))
          /\ StreamOk(downward'[k], cache[k], loads[k], sentMods'[k], MayMiss)
      BY <1>8, <3>1
    <3> QED BY <2>3, <3>2
  <2>4. CASE j # n /\ j # k
    BY <1>2, <1>3, <1>14, <1>15, <2>4
  <2> QED BY <2>1, <2>2, <2>3, <2>4
<1>17. Streams'
  BY <1>1, <1>7, <1>16 DEF Streams
<1>18. ImportFields'
  <2>1. UNCHANGED <<attached, cache, callbacks, upward, wants, loads, preloaded>>
    BY <1>1
  <2>2. DOMAIN downward' = Contexts /\ \A j \in Contexts : downward'[j] \in Seq(Msgs(j))
    BY <1>14, <1>16
  <2>3. sentMods' \in [Contexts -> SUBSET Modules]
    BY <1>15
  <2> QED BY <1>2, <2>1, <2>2, <2>3 DEF ImportFields
<1>19. Waiters'
  BY <1>1, <1>2 DEF Waiters
<1> QED BY <1>17, <1>18, <1>19 DEF ImportsInv

LEMMA ModuleLoaded ==
  ASSUME ImportsInv, NEW n \in Contexts, OnLoadModule(n)
  PROVE  ImportsInv'
<1> DEFINE msg == Head(downward[n])
           m == msg.mod
           c == [cache[n] EXCEPT ![m] = msg.as]
           l == IF msg.as = "good" THEN [loads[n] EXCEPT ![m] = @ + 1] ELSE loads[n]
           kids == {k \in callbacks[n][m] \cap Contexts : Child(n, k)}
           to(k) == FromCache(c, sentMods[k], m)
           row == [callbacks[n] EXCEPT ![m] = {}]
<1>1. /\ downward[n] # <<>> /\ msg.kind = "load"
      /\ cache' = [cache EXCEPT ![n] = c]
      /\ callbacks' = [callbacks EXCEPT ![n] = row]
      /\ wants' = [t \in Importers |-> IF t \in callbacks[n][m] THEN "nothing" ELSE wants[t]]
      /\ downward' = [k \in Contexts |-> IF k = n THEN Tail(downward[n])
                                         ELSE IF k \in kids THEN downward[k] \o to(k).out ELSE downward[k]]
      /\ sentMods' = [k \in Contexts |-> IF k \in kids THEN to(k).sent ELSE sentMods[k]]
      /\ loads' = IF msg.as = "good" THEN [loads EXCEPT ![n][m] = @ + 1] ELSE loads
      /\ UNCHANGED <<attached, upward, preloaded>>
  BY DEF OnLoadModule
<1>2. ImportFields /\ Waiters /\ \A j \in Contexts : StreamOk(downward[j], cache[j], loads[j], sentMods[j], MayMiss)
  BY DEF ImportsInv, Streams
<1>3. /\ \A j \in Contexts : downward[j] \in Seq(Msgs(j)) /\ sentMods[j] \in SUBSET Modules
      /\ cache \in [Contexts -> [Modules -> {"none", "good", "bad"}]] /\ loads \in [Contexts -> [Modules -> Nat]]
      /\ callbacks \in [Contexts -> [Modules -> SUBSET Everyone]]
  BY <1>2 DEF ImportFields, Everyone
<1>4. cache[n] \in [Modules -> {"none", "good", "bad"}] /\ loads[n] \in [Modules -> Nat]
  BY <1>3
<1>5. /\ msg \in Loads /\ Tail(downward[n]) \in Seq(Msgs(n))
      /\ StreamOk(Tail(downward[n]), c, l, sentMods[n], MayMiss)
  <2> DEFINE cc == cache[n]
             ll == loads[n]
             d == downward[n]
             S == sentMods[n]
  <2>1. /\ d \in Seq(Msgs(n)) /\ d # <<>> /\ S \in SUBSET Modules /\ msg = Head(d) /\ msg.kind = "load"
        /\ cc \in [Modules -> {"none", "good", "bad"}] /\ ll \in [Modules -> Nat] /\ StreamOk(d, cc, ll, S, MayMiss)
    BY <1>1, <1>2, <1>3, <1>4
  <2>2. c = [cc EXCEPT ![msg.mod] = msg.as] /\ l = IF msg.as = "good" THEN [ll EXCEPT ![msg.mod] = @ + 1] ELSE ll
    OBVIOUS
  <2> HIDE DEF cc, ll, d, S, msg
  <2>3. /\ msg \in Loads /\ Tail(d) \in Seq(Msgs(n))
        /\ StreamOk(Tail(d), [cc EXCEPT ![msg.mod] = msg.as],
                    IF msg.as = "good" THEN [ll EXCEPT ![msg.mod] = @ + 1] ELSE ll, S, MayMiss)
    BY <2>1, LoadPopped
  <2> QED BY <2>2, <2>3 DEF d, S
<1>6. m \in Modules /\ msg.as \in {"good", "bad"}
  BY <1>5 DEF Loads
<1> HIDE DEF msg
<1>7. c \in [Modules -> {"none", "good", "bad"}] /\ c[m] # "none" /\ l \in [Modules -> Nat]
  BY <1>4, <1>6
<1>8. \A x \in Modules : c[x] = "bad" => x \in MayMiss
  BY <1>5 DEF StreamOk, Truthful
<1>9. /\ cache' \in [Contexts -> [Modules -> {"none", "good", "bad"}]]
      /\ cache'[n] = c /\ \A j \in Contexts : j # n => cache'[j] = cache[j]
  <2> HIDE DEF c
  <2> QED BY <1>1, <1>3, <1>7
<1>10. /\ loads' \in [Contexts -> [Modules -> Nat]]
       /\ loads'[n] = l /\ \A j \in Contexts : j # n => loads'[j] = loads[j]
  <2>1. loads' = [loads EXCEPT ![n] = l]
    BY <1>1, <1>3
  <2> HIDE DEF l
  <2> QED BY <1>3, <1>7, <2>1
<1>11. row \in [Modules -> SUBSET Everyone] /\ \A x \in Modules : row[x] = IF x = m THEN {} ELSE callbacks[n][x]
  <2>1. callbacks[n] \in [Modules -> SUBSET Everyone]
    BY <1>3
  <2> QED BY <2>1
<1>12. /\ callbacks' \in [Contexts -> [Modules -> SUBSET Everyone]]
       /\ \A j \in Contexts : callbacks'[j] = IF j = n THEN row ELSE callbacks[j]
  <2> HIDE DEF row
  <2> QED BY <1>1, <1>3, <1>11
<1>13. n \notin kids /\ kids \subseteq Contexts
  BY NoLoop DEF Child
<1> HIDE DEF kids, c, l
<1>14. ASSUME NEW k \in kids
       PROVE  /\ downward[k] \o to(k).out \in Seq(Msgs(k)) /\ to(k).sent \in SUBSET Modules
              /\ StreamOk(downward[k] \o to(k).out, cache[k], loads[k], to(k).sent, MayMiss)
  <2>0. k \in Contexts
    BY <1>13
  <2>1. /\ downward[k] \in Seq(Msgs(k)) /\ sentMods[k] \in SUBSET Modules
        /\ StreamOk(downward[k], cache[k], loads[k], sentMods[k], MayMiss)
    BY <1>2, <1>3, <2>0
  <2> HIDE DEF m
  <2>2. Sent(to(k).out, sentMods[k], to(k).sent, MayMiss)
    BY <1>6, <1>7, <1>8, <2>1, FromCacheSends
  <2>3. to(k).sent \in SUBSET Modules
    BY <2>2 DEF Sent
  <2> HIDE DEF to
  <2> QED BY <2>1, <2>2, <2>3, Streamed
<1> HIDE DEF to
<1>15. \A k \in Contexts : /\ downward'[k] = IF k = n THEN Tail(downward[n])
                                             ELSE IF k \in kids THEN downward[k] \o to(k).out ELSE downward[k]
                           /\ sentMods'[k] = IF k \in kids THEN to(k).sent ELSE sentMods[k]
  BY <1>1
<1>16. MayMiss' = MayMiss
  BY <1>1, SameMissing
<1>17. ASSUME NEW j \in Contexts
       PROVE  /\ downward'[j] \in Seq(Msgs(j)) /\ sentMods'[j] \in SUBSET Modules
              /\ StreamOk(downward'[j], cache'[j], loads'[j], sentMods'[j], MayMiss)
  <2>1. CASE j = n
    BY <1>3, <1>5, <1>9, <1>10, <1>13, <1>15, <2>1
  <2>2. CASE j \in kids
    BY <1>9, <1>10, <1>13, <1>14, <1>15, <2>2
  <2>3. CASE j # n /\ j \notin kids
    BY <1>2, <1>3, <1>9, <1>10, <1>15, <2>3
  <2> QED BY <2>1, <2>2, <2>3
<1>18. Streams'
  BY <1>16, <1>17 DEF Streams
<1>19. DOMAIN downward' = Contexts /\ sentMods' \in [Contexts -> SUBSET Modules]
  <2>1. DOMAIN downward' = Contexts /\ sentMods' = [k \in Contexts |-> sentMods'[k]]
    BY <1>1
  <2> QED BY <1>17, <2>1
<1>20. wants' \in [Importers -> Modules \cup {"nothing"}]
  BY <1>1, <1>2 DEF ImportFields
<1>21. ImportFields'
  BY <1>1, <1>2, <1>9, <1>10, <1>12, <1>17, <1>19, <1>20 DEF ImportFields, Everyone
<1>22. Waiters'
  <2>1. ASSUME NEW j \in Contexts, NEW x \in Modules, NEW w \in callbacks'[j][x]
        PROVE  (w \in Importers /\ HomeOf[w] = j /\ wants'[w] = x) \/ (w \in Contexts /\ Above[w] = j)
    <3>1. w \in callbacks[j][x] /\ ~(j = n /\ x = m)
      <4>1. CASE j = n /\ x = m
        BY <1>11, <1>12, <2>1, <4>1
      <4>2. CASE j = n /\ x # m
        BY <1>11, <1>12, <2>1, <4>2
      <4>3. CASE j # n
        BY <1>12, <2>1, <4>3
      <4> QED BY <4>1, <4>2, <4>3
    <3>2. (w \in Importers /\ HomeOf[w] = j /\ wants[w] = x) \/ (w \in Contexts /\ Above[w] = j)
      BY <1>2, <3>1 DEF Waiters
    <3>3. CASE w \in Importers /\ HomeOf[w] = j /\ wants[w] = x
      <4>1. w \notin callbacks[n][m]
        <5>1. SUFFICES ASSUME w \in callbacks[n][m] PROVE FALSE
          OBVIOUS
        <5>2. (HomeOf[w] = n /\ wants[w] = m) \/ w \in Contexts
          BY <1>2, <1>6, <5>1 DEF Waiters
        <5>3. w \notin Contexts
          BY <3>3, ImportsAssumption DEF ImportsAssumption
        <5> QED BY <3>1, <3>3, <5>2, <5>3
      <4> QED BY <1>1, <3>3, <4>1
    <3> QED BY <3>2, <3>3
  <2> QED BY <2>1 DEF Waiters
<1> QED BY <1>18, <1>21, <1>22 DEF ImportsInv

LEMMA ImportsStep == ImportsInv /\ [ImportsNext]_importsVars => ImportsInv'
<1> SUFFICES ASSUME ImportsInv, [ImportsNext]_importsVars PROVE ImportsInv'
  OBVIOUS
<1>1. CASE Brokers
  BY <1>1, MasterAnswers, ModuleLoaded, OrderPassed, ForwarderAsked DEF Brokers
<1>2. CASE \E t \in Importers, m \in Modules : LoadModule(t, m)
  BY <1>2, Imported
<1>3. ASSUME NEW n \in Contexts, Detach(n) PROVE ImportsInv'
  <2>1. attached' \subseteq attached /\ UNCHANGED <<cache, callbacks, sentMods, upward, downward, wants, loads, preloaded>>
    BY <1>3 DEF Detach
  <2>2. ImportFields /\ Waiters /\ Streams /\ MayMiss' = MayMiss
    BY <2>1, SameMissing DEF ImportsInv
  <2>3. ImportFields'
    BY <2>1, <2>2 DEF ImportFields
  <2>4. Waiters'
    BY <2>1, <2>2 DEF Waiters
  <2>5. Streams'
    BY <2>1, <2>2 DEF Streams
  <2> QED BY <2>3, <2>4, <2>5 DEF ImportsInv
<1>4. CASE \E n \in Contexts, m \in Modules : ForwardModules(n, m)
  BY <1>4, ForwardsModules
<1>5. CASE UNCHANGED importsVars
  <2>1. UNCHANGED <<attached, cache, callbacks, sentMods, upward, downward, wants, loads, preloaded>>
    BY <1>5 DEF importsVars
  <2>2. ImportFields /\ Waiters /\ Streams /\ MayMiss' = MayMiss
    BY <2>1, SameMissing DEF ImportsInv
  <2>3. ImportFields'
    BY <2>1, <2>2 DEF ImportFields
  <2>4. Waiters'
    BY <2>1, <2>2 DEF Waiters
  <2>5. Streams'
    BY <2>1, <2>2 DEF Streams
  <2> QED BY <2>3, <2>4, <2>5 DEF ImportsInv
<1> QED BY <1>1, <1>2, <1>3, <1>4, <1>5 DEF ImportsNext

\* For any tree of contexts, any modules and any threads that import them, however requests, orders and
\* answers interleave on the streams: the code of a module is sent over a stream once, whoever asks for it
\* or has it forwarded (Importer, ModuleForwarder and ModuleResponder), a hop told to pass a module on has
\* it, and none is reported missing that the master can build with all it imports.
THEOREM ImportsCorrect == ImportsSpec => []ImportsSafe
<1>1. ImportsInv => ImportsSafe
  <2> SUFFICES ASSUME ImportsInv PROVE ImportsSafe
    OBVIOUS
  <2>1. ImportFields /\ Waiters /\ \A n \in Contexts : StreamOk(downward[n], cache[n], loads[n], sentMods[n], MayMiss)
    BY DEF ImportsInv, Streams
  <2>2. ImportsTypeOK
    BY <2>1 DEF ImportFields, Waiters, ImportsTypeOK
  <2>3. SentOnce
    BY <2>1 DEF SentOnce, StreamOk, Once
  <2>4. ForwardFinds
    <3>1. ASSUME NEW n \in attached, downward[n] # <<>>, Head(downward[n]).kind = "forward"
          PROVE  cache[n][Head(downward[n]).mod] # "none"
      <4>1. n \in Contexts /\ downward[n] \in Seq(Msgs(n)) /\ sentMods[n] \in SUBSET Modules
        BY <2>1 DEF ImportFields
      <4> QED BY <2>1, <3>1, <4>1, OrderPopped
    <3> QED BY <3>1 DEF ForwardFinds
  <2>5. NoFalseMiss
    <3>1. \A t \in Importers : HomeOf[t] \in Contexts
      BY ImportsAssumption DEF ImportsAssumption
    <3> QED BY <2>1, <3>1 DEF NoFalseMiss, StreamOk, Truthful, MayMiss
  <2> QED BY <2>2, <2>3, <2>4, <2>5 DEF ImportsSafe
<1> QED BY <1>1, InitImports, ImportsStep, PTL DEF ImportsSpec
=============================================================================
