------------------------------ MODULE Framing ------------------------------
(* One direction of a stream between two contexts: MitogenProtocol cuts      *)
(* messages into a header and a body, BufferedWriter writes them directly    *)
(* while the pipe has room and hands them to the poller when it is full, and *)
(* the other end joins the chunks it reads and cuts them into messages.      *)
(* A byte is a unit <<m, i>>, the i-th of message m; <<0, 0>> is a byte that *)
(* some other process wrote to the descriptor.                               *)
EXTENDS Naturals, SequencesExt

CONSTANTS HeaderLen,    \* Message.HEADER_LEN
          JoinBelow,    \* a first chunk shorter than this is joined to the next (128)
          Bodies,       \* the lengths of bodies that contexts send
          MaxBody,      \* max_message_size of the receiver
          PipeSize, ReadSize, MaxMessages
ASSUME FramingAssumption ==
  /\ HeaderLen \in Nat \ {0} /\ JoinBelow \in Nat /\ JoinBelow >= HeaderLen
  /\ Bodies \subseteq Nat /\ MaxBody \in Nat /\ MaxMessages \in Nat
  /\ PipeSize \in Nat \ {0} /\ ReadSize \in Nat \ {0}

VARIABLES
  lengths,    \* the length of the body of each message sent so far
  handed,       \* every byte ever handed to the stream, in order
  buf, len,   \* BufferedWriter._buf and _len
  writable,   \* transmit side is registered with the poller
  writer,     \* the transmit side is "open" or "closed"
  pipe,       \* bytes in the pipe
  chunks,     \* MitogenProtocol._input_buf
  held,       \* MitogenProtocol._input_buf_len
  cutting,    \* on_receive() runs its loop
  reader,     \* the receive side is "open" or "closed"
  routed      \* messages handed to the router: sequences of bytes of bodies
frVars == <<lengths, handed, buf, len, writable, writer, pipe, chunks, held, cutting, reader, routed>>
sending == <<lengths, handed, buf, len, writable, writer>>
receiving == <<chunks, held, cutting, reader, routed>>

Frame(m, n) == [i \in 1..(HeaderLen + n) |-> <<m, i>>]
After(s, n) == SubSeq(s, n + 1, Len(s))
Lost == reader = "closed"                 \* write() fails with EPIPE
Room == PipeSize - Len(pipe)

FramingInit ==
  /\ lengths = << >> /\ handed = << >> /\ buf = << >> /\ len = 0 /\ writable = FALSE
  /\ writer = "open" /\ pipe = << >>
  /\ chunks = << >> /\ held = 0 /\ cutting = FALSE /\ reader = "open" /\ routed = << >>

-----------------------------------------------------------------------------
\* BufferedWriter.  What write() cannot place is kept, and the poller asked for the rest.
Keep(s) == buf' = Append(buf, s) /\ len' = len + Len(s) /\ writable' = TRUE
\* mutation: what follows a message that waits is written past it.
WritePast(s) ==
  \/ /\ ~Lost /\ Room >= Len(s)
     /\ pipe' = pipe \o s /\ UNCHANGED <<buf, len, writable>>
  \/ /\ (len > 0 \/ Lost \/ Room < Len(s))
     /\ Keep(s) /\ UNCHANGED pipe
Write(s) ==
  \/ /\ len = 0 /\ ~Lost /\ Room >= Len(s)
     /\ pipe' = pipe \o s /\ UNCHANGED <<buf, len, writable>>
  \/ /\ len = 0 /\ ~Lost /\ Room < Len(s)
     /\ pipe' = pipe \o SubSeq(s, 1, Room) /\ Keep(After(s, Room))
  \/ /\ (len > 0 \/ Lost)
     /\ Keep(s) /\ UNCHANGED pipe
Send(n) ==
  /\ writer = "open" /\ Len(lengths) < MaxMessages
  /\ LET frame == Frame(Len(lengths) + 1, n)
     IN lengths' = Append(lengths, n) /\ handed' = handed \o frame /\ Write(frame)
  /\ UNCHANGED <<receiving, writer>>

CloseWriter == writer' = "closed" /\ writable' = FALSE
\* mutation: the part that was not written is not put back.
TransmitForget ==
  /\ writable
  /\ IF Lost THEN CloseWriter /\ buf' = Tail(buf) /\ UNCHANGED <<len, pipe>>
     ELSE /\ Room > 0
          /\ LET n == IF Len(Head(buf)) <= Room THEN Len(Head(buf)) ELSE Room
             IN /\ pipe' = pipe \o SubSeq(Head(buf), 1, n) /\ buf' = Tail(buf) /\ len' = len - n
                /\ writable' = (buf' # << >>) /\ UNCHANGED writer
  /\ UNCHANGED <<receiving, lengths, handed>>
\* mutation: the poller is told to stop whenever a chunk has gone.
TransmitStops ==
  /\ writable
  /\ IF Lost THEN CloseWriter /\ buf' = Tail(buf) /\ UNCHANGED <<len, pipe>>
     ELSE /\ Room > 0
          /\ LET n == IF Len(Head(buf)) <= Room THEN Len(Head(buf)) ELSE Room
             IN /\ pipe' = pipe \o SubSeq(Head(buf), 1, n) /\ len' = len - n
                /\ buf' = IF n = Len(Head(buf)) THEN Tail(buf) ELSE <<After(Head(buf), n)>> \o Tail(buf)
                /\ writable' = (n < Len(Head(buf))) /\ UNCHANGED writer
  /\ UNCHANGED <<receiving, lengths, handed>>
\* The poller found the side writable: on_transmit().
OnTransmit ==
  /\ writable
  /\ IF Lost THEN CloseWriter /\ buf' = Tail(buf) /\ UNCHANGED <<len, pipe>>
     ELSE /\ Room > 0
          /\ LET n == IF Len(Head(buf)) <= Room THEN Len(Head(buf)) ELSE Room
             IN /\ pipe' = pipe \o SubSeq(Head(buf), 1, n) /\ len' = len - n
                /\ buf' = IF n = Len(Head(buf)) THEN Tail(buf) ELSE <<After(Head(buf), n)>> \o Tail(buf)
                /\ writable' = (buf' # << >>) /\ UNCHANGED writer
  /\ UNCHANGED <<receiving, lengths, handed>>
\* The stream shuts down, or its process dies: what is in the pipe stays.
Disconnect ==
  /\ writer = "open" /\ CloseWriter
  /\ UNCHANGED <<receiving, lengths, handed, buf, len, pipe>>
\* Another process writes to the descriptor, between two messages.
Interfere ==
  /\ writer = "open" /\ buf = << >> /\ ~Lost /\ Room > 0 /\ \A i \in DOMAIN handed : handed[i] # <<0, 0>>
  /\ handed' = Append(handed, <<0, 0>>) /\ pipe' = Append(pipe, <<0, 0>>)
  /\ UNCHANGED <<receiving, lengths, buf, len, writable, writer>>

-----------------------------------------------------------------------------
\* MitogenProtocol.on_receive(): the chunk joins the first while that may lack a header.
\* mutation: every chunk is queued of its own.
TakeApart(s) == chunks' = Append(chunks, s)
Take(s) == chunks' = IF chunks # << >> /\ held < JoinBelow
                     THEN <<chunks[1] \o s>> \o Tail(chunks) ELSE Append(chunks, s)
OnReceive ==
  /\ reader = "open" /\ ~cutting
  /\ \/ \E n \in 1..ReadSize :
          /\ n <= Len(pipe)
          /\ Take(SubSeq(pipe, 1, n)) /\ held' = held + n /\ pipe' = After(pipe, n)
          /\ cutting' = TRUE /\ UNCHANGED <<reader, routed>>
     \/ /\ pipe = << >> /\ writer = "closed"         \* an empty read
        /\ reader' = "closed" /\ UNCHANGED <<chunks, held, cutting, routed, pipe>>
  /\ UNCHANGED sending

\* struct.unpack() of the start of the first chunk: raises when it is short.
Header == SubSeq(chunks[1], 1, HeaderLen)
WholeHeader == Len(chunks[1]) >= HeaderLen
Magic == Header[1][2] = 1
MsgLen == lengths[Header[1][1]]
\* The chunks that hold the first n bytes.
Holding(n) == CHOOSE k \in 1..Len(chunks) :
                /\ Len(FlattenSeq(SubSeq(chunks, 1, k))) >= n
                /\ Len(FlattenSeq(SubSeq(chunks, 1, k - 1))) < n
\* mutation: the rest of the last chunk is not put back.
DropRest(n) == SubSeq(chunks, Holding(n) + 1, Len(chunks))
Rest(n) == LET k == Holding(n)
           IN <<After(FlattenSeq(SubSeq(chunks, 1, k)), n)>> \o SubSeq(chunks, k + 1, Len(chunks))
Stop == cutting' = FALSE /\ UNCHANGED <<chunks, held, routed, reader>>
CloseReader == reader' = "closed" /\ cutting' = FALSE /\ UNCHANGED <<chunks, held, routed>>

\* One call of _receive_one(); FALSE ends the loop.
ReceiveOne ==
  /\ cutting
  /\ \/ held < HeaderLen /\ Stop
     \/ /\ held >= HeaderLen
        /\ ~WholeHeader \/ (WholeHeader /\ ~Magic) \/ (WholeHeader /\ Magic /\ MsgLen > MaxBody)
        /\ CloseReader
     \/ /\ held >= HeaderLen /\ WholeHeader /\ Magic /\ MsgLen <= MaxBody
        /\ LET total == HeaderLen + MsgLen
           IN \/ held < total /\ Stop
              \/ /\ held >= total
                 /\ routed' = Append(routed, SubSeq(FlattenSeq(chunks), HeaderLen + 1, total))
                 /\ chunks' = Rest(total) /\ held' = held - total
                 /\ UNCHANGED <<cutting, reader>>
  /\ UNCHANGED <<sending, pipe>>

FramingNext == \/ \E n \in Bodies : Send(n)
               \/ OnTransmit \/ Disconnect \/ Interfere \/ OnReceive \/ ReceiveOne
FramingSpec == FramingInit /\ [][FramingNext]_frVars
\* The broker threads serve whatever is ready.
FramingFair == WF_frVars(OnTransmit) /\ WF_frVars(OnReceive \/ ReceiveOne)

-----------------------------------------------------------------------------
\* The chunks held add up to what the counters say, on both ends.
FramingTypeOK ==
  /\ len = Len(FlattenSeq(buf)) \/ writer = "closed"
  /\ held = Len(FlattenSeq(chunks)) /\ Len(pipe) <= PipeSize
  /\ writer \in {"open", "closed"} /\ reader \in {"open", "closed"} /\ cutting \in BOOLEAN

\* The whole of the bytes consumed by messages routed.
Consumed == Len(FlattenSeq(routed)) + HeaderLen * Len(routed)
\* No byte is lost, doubled or overtaken on the way: what the two ends hold is exactly what was
\* handed to the stream after the messages routed, through every partial write and read.
BytesConserved ==
  writer = "open" => FlattenSeq(chunks) \o pipe \o FlattenSeq(buf) = After(handed, Consumed)
\* The router gets the messages in the order they were sent, each with its own bytes.
MessagesWhole ==
  \A k \in DOMAIN routed : routed[k] = After(Frame(k, lengths[k]), HeaderLen)
\* A header is never torn over two chunks when it is unpacked: struct.unpack() would raise and
\* the stream would be dropped though its bytes are sound.
HeadersWhole == cutting /\ held >= HeaderLen => WholeHeader
\* The poller is asked for writability exactly while something waits: never for an idle stream
\* (the broker would spin), always for a full one (it would stall).
InterestMatches == writer = "open" => (writable <=> buf # << >>)
\* A sound stream is drained: in the end everything sent has been routed.  The receiver drops
\* a stream for a message above its limit, for foreign bytes, or at the end of file, and only then.
Drained == []<>(writer = "closed" \/ reader = "closed" \/ Len(routed) = Len(lengths))
DroppedForCause ==
  reader = "closed" => \/ writer = "closed"
                       \/ <<0, 0>> \in {handed[i] : i \in DOMAIN handed}
                       \/ \E m \in DOMAIN lengths : lengths[m] > MaxBody

\* What a stream promises its router: whole messages in order through partial writes and reads,
\* and no sound stream dropped.
FramingSafe ==
  FramingTypeOK /\ BytesConserved /\ MessagesWhole /\ HeadersWhole /\ InterestMatches /\ DroppedForCause
=============================================================================
