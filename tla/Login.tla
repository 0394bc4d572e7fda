------------------------------- MODULE Login --------------------------------
(* The conversation that precedes a connection: the RegexProtocol of sudo, su,  *)
(* doas and ssh answers the prompts of the program, while BootstrapProtocol     *)
(* feeds the first stage on stdout.  What the program writes is read in pieces  *)
(* of any length; a prompt is not a line, and is matched as far as it was read. *)
(*                                                                              *)
(* Output is a sequence of lines, of the two halves of a prompt and of line     *)
(* ends.  su has one stream for all of it, the others one for prompts and one   *)
(* for stdout.  The programs are external.                                      *)
EXTENDS Integers, Sequences

CONSTANTS Methods,   \* of {"sudo", "su", "doas", "ssh"}
          MaxAsks    \* bound: times a program asks before it gives up
ASSUME LoginAssumption == Methods \subseteq {"sudo", "su", "doas", "ssh"} /\ MaxAsks \in Nat \ {0}

VARIABLES method,    \* how the context is reached
          given,     \* options.password: none, right, wrong
          program,   \* what the program does: start, asks, boots, fed, up, exited
          asks,      \* prompts it wrote
          typed,     \* passwords written to it and not read yet
          output,    \* what it wrote to each stream and was not read
          trailer,   \* DelimitedProtocol._trailer of each
          promptShut,    \* the prompt stream was disconnected by an exception
          sent,      \* SetupProtocol.password_sent
          writes,    \* passwords written in all
          outcome,   \* of the connection: pending, connected, or the exception
          torn       \* a prompt was matched before it was complete

loginVars == <<method, given, program, asks, typed, output, trailer, promptShut, sent, writes, outcome, torn>>

Streams2 == {"stdout", "diag"}
PromptStream == IF method = "su" THEN "stdout" ELSE "diag"

LoginInit ==
  /\ method \in Methods /\ given \in {"none", "right", "wrong"}
  /\ program = "start" /\ asks = 0 /\ typed = 0
  /\ output = [i \in Streams2 |-> <<>>] /\ trailer = output
  /\ promptShut = FALSE /\ sent = FALSE /\ writes = 0 /\ outcome = "pending" /\ torn = FALSE

-----------------------------------------------------------------------------
\* The program (external).
Write(stream, tokens) == output' = [output EXCEPT ![stream] = @ \o tokens]
protocolVars == <<trailer, promptShut, sent, writes, outcome, torn>>

ProgramAsks ==
  /\ program = "start" \/ (program = "retry" /\ asks < MaxAsks)
  /\ program' = "asks" /\ asks' = asks + 1 /\ Write(PromptStream, <<"prompt", "rest">>)
  /\ UNCHANGED <<method, given, typed, protocolVars>>
\* No password is needed, or the one typed is right: the first stage starts.
ProgramBoots ==
  /\ \/ program = "start" /\ UNCHANGED <<typed, output>> /\ program' = "boots"
     \/ /\ program = "asks" /\ typed > 0 /\ given = "right" /\ typed' = typed - 1
        /\ Write(PromptStream, <<"nl">>) /\ program' = "boots"
  /\ UNCHANGED <<method, given, asks, protocolVars>>
ProgramRejects ==
  /\ program = "asks" /\ typed > 0 /\ given = "wrong" /\ typed' = typed - 1
  /\ Write(PromptStream, <<"nl", IF method = "sudo" THEN "noise" ELSE "denied">>)
  /\ program' = IF method \in {"su", "doas"} THEN "exited" ELSE "retry"
  /\ UNCHANGED <<method, given, asks, protocolVars>>
ProgramStops ==
  /\ \/ program = "retry" /\ asks = MaxAsks
     \/ program = "asks" /\ promptShut
  /\ program' = "exited" /\ UNCHANGED <<method, given, asks, typed, output, protocolVars>>
\* Connection._first_stage(), with the source that it reads.
FirstStage ==
  /\ \/ program = "boots" /\ Write("stdout", <<"ec0">>) /\ program' = "awaits"
     \/ program = "fed" /\ Write("stdout", <<"ec1", "ec2">>) /\ program' = "up"
  /\ UNCHANGED <<method, given, asks, typed, protocolVars>>

-----------------------------------------------------------------------------
\* A state of the protocol while it handles what was read.
Protocol == [sent |-> sent, writes |-> writes, typed |-> typed, outcome |-> outcome,
             promptShut |-> promptShut, program |-> program, torn |-> torn]

\* _fail_connection(): the first exception stands.
FailWith(p, e) == IF p.outcome = "pending" THEN [p EXCEPT !.outcome = e] ELSE p
WritePassword(p) == [p EXCEPT !.sent = TRUE, !.writes = @ + 1, !.typed = @ + 1]

\* on_line_received(): PATTERNS.
OnLine(p, line) ==
  CASE line = "ec0" -> [p EXCEPT !.program = IF @ = "awaits" THEN "fed" ELSE @]
    [] line = "ec2" -> IF p.outcome = "pending" THEN [p EXCEPT !.outcome = "connected"] ELSE p
    [] line = "denied" /\ method = "su" -> FailWith(p, "incorrect")
    [] line = "denied" /\ method = "doas" -> IF p.sent THEN FailWith(p, "incorrect") ELSE p
    [] line = "denied" /\ method = "ssh" ->
         FailWith(p, IF given # "none" /\ p.sent THEN "incorrect" ELSE IF given = "none" THEN "required" ELSE "auth")
    [] OTHER -> p

\* mutation: all of them call the method that does not exist.
PromptCloses(p, half) ==
  LET q == [p EXCEPT !.torn = @ \/ half]
  IN CASE given = "none" -> [q EXCEPT !.promptShut = TRUE]
       [] given # "none" /\ p.sent /\ method # "ssh" -> FailWith(q, "incorrect")
       [] OTHER -> WritePassword(q)

\* on_partial_line_received(): the prompt.  ssh calls a method that does not exist
\* when it has no password: the exception disconnects the stream.
OnPrompt(p, half) ==
  LET q == [p EXCEPT !.torn = @ \/ half]
  IN CASE given = "none" /\ method = "ssh" -> [q EXCEPT !.promptShut = TRUE]
       [] given = "none" /\ method # "ssh" -> FailWith(q, "required")
       [] given # "none" /\ p.sent /\ method # "ssh" -> FailWith(q, "incorrect")
       [] OTHER -> WritePassword(q)

LineEnds(tokens) == {i \in DOMAIN tokens : tokens[i] \notin {"prompt", "rest"}}
LastEnd(tokens) == IF LineEnds(tokens) = {} THEN 0 ELSE CHOOSE i \in LineEnds(tokens) : \A j \in LineEnds(tokens) : j <= i

\* mutation: what is left over is not kept for the next read.
SplitForgets(tokens) == [lines |-> SubSeq(tokens, 1, LastEnd(tokens)), left |-> <<>>]

\* mutation: a line that ends stays in the trailer.
SplitKeeps(tokens) ==
  [lines |-> SelectSeq(tokens, LAMBDA t : t \notin {"prompt", "rest"}),
   left |-> SelectSeq(tokens, LAMBDA t : t \in {"prompt", "rest"})]

\* iter_split(): the complete lines, and what is left over.  A prompt that a line
\* end follows is the beginning of a line.
Split(tokens) ==
  [lines |-> SubSeq(tokens, 1, LastEnd(tokens)), left |-> SubSeq(tokens, LastEnd(tokens) + 1, Len(tokens))]

\* The complete lines, one after the other.
OnLines(p, lines) ==
  LET after[k \in 0..Len(lines)] == IF k = 0 THEN p ELSE OnLine(after[k - 1], lines[k])
  IN after[Len(lines)]

\* DelimitedProtocol.on_receive(): first all lines, then the trailer, as far as read.
OnReceive(stream, n) ==
  /\ outcome = "pending" /\ n \in 1..Len(output[stream]) /\ ~(stream = PromptStream /\ promptShut)
  /\ LET parts == Split(trailer[stream] \o SubSeq(output[stream], 1, n))
         p == OnLines(Protocol, parts.lines)
         q == IF parts.left = <<>> \/ stream # PromptStream THEN p ELSE OnPrompt(p, parts.left = <<"prompt">>)
     IN /\ trailer' = [trailer EXCEPT ![stream] = parts.left]
        /\ sent' = q.sent /\ writes' = q.writes /\ typed' = q.typed /\ outcome' = q.outcome
        /\ promptShut' = q.promptShut /\ program' = q.program /\ torn' = q.torn
  /\ output' = [output EXCEPT ![stream] = SubSeq(@, n + 1, Len(@))]
  /\ UNCHANGED <<method, given, asks>>

\* Both streams read as empty (see Bringup for the order they do so in).
OnEof ==
  /\ outcome = "pending" /\ program = "exited"
  /\ output["stdout"] = <<>> /\ (promptShut \/ output["diag"] = <<>>)
  /\ outcome' = "eof"
  /\ UNCHANGED <<method, given, program, asks, typed, output, trailer, promptShut, sent, writes, torn>>

ProgramSteps == ProgramAsks \/ ProgramBoots \/ ProgramRejects \/ ProgramStops \/ FirstStage
ReadsSome == \E stream \in Streams2 : \E n \in 1..Len(output[stream]) : OnReceive(stream, n)
LoginNext == ProgramSteps \/ ReadsSome \/ OnEof
LoginSpec == LoginInit /\ [][LoginNext]_loginVars

-----------------------------------------------------------------------------
LoginTypeOK ==
  /\ typed <= writes /\ asks \in 0..MaxAsks
  /\ outcome \in {"pending", "connected", "required", "incorrect", "auth", "eof"}
  /\ \A i \in Streams2 : trailer[i] \in {<<>>, <<"prompt">>, <<"prompt", "rest">>, <<"rest">>}

\* A password is blamed only when it is wrong, unless its prompt was read in two
\* pieces (on_partial_line_received() sees it twice).
BlamedIfWrong == outcome = "incorrect" => given = "wrong" \/ torn

\* A login that was given the right password does not fail, unless a prompt was torn.
RightConnects == outcome \in {"pending", "connected"} \/ given # "right" \/ torn

\* No prompt is answered twice, so that nothing is typed into what comes after it.
OneAnswer == writes <= asks \/ torn

\* A missing password is named, except by ssh.
RequiredNamed == outcome = "eof" => given # "none" \/ method = "ssh"

\* Every conversation ends.
LoginEnds == []<>(outcome # "pending")

\* What the conversations of ssh, sudo, su and doas promise: a connection for a
\* right password, and the right reason otherwise.
LoginSafe == LoginTypeOK /\ BlamedIfWrong /\ RightConnects /\ OneAnswer /\ RequiredNamed
=============================================================================
