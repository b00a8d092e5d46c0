----------------------------- MODULE MCStreams -----------------------------
(***************************************************************************)
(* Instances for TLC of the streams between a process and a browser: a     *)
(* command, a log that is followed, a terminal, the log of a container and *)
(* an answer of the AI assistant. They share nothing; each behaviour is    *)
(* one of them, chosen by part, while the variables of the others keep     *)
(* their initial values.                                                   *)
(***************************************************************************)
EXTENDS CommandStream, LogFollow, TerminalSession, ContainerLog, ChatStream

VARIABLE part \* the stream this behaviour is about

MaxLines == 3

\* Any command of up to MaxLines lines.
AnyPlan == UNION {[1..n -> [fd : Fds, long : BOOLEAN]] : n \in 0..MaxLines}

\* Lines shorter and longer than a block, and an empty one.
SomeLogs == {
  <<1, 1, Newline, 2, 2, 2, Newline>>,
  <<1, Newline, Newline, 2, 2, Newline>>,
  <<1, 1, 1, 1, Newline, 2, Newline, 3, Newline>>}

\* Frames of one line, of a line of the length of a newline's code, of half a line and
\* of an empty one.
Frames == {<<9, NL>>, <<9, 9, NL>>, <<9, 9, 9, NL>>, <<9, 9>>, <<NL>>}
SomeTexts == [1..3 -> Frames]

\* The parameters of a stream that does not run are of no interest.
StreamsInit ==
  /\ part \in {"command", "log", "terminal", "container", "chat"}
  /\ Init /\ (part = "command" \/ plan = <<>>)
  /\ LogInit /\ (part = "log" \/ logText = CHOOSE s \in Logs : TRUE)
  /\ ChatInit /\ (part = "chat" \/ provider = "ollama")
  /\ TermInit /\ CtrLogInit

StreamsNext ==
  /\ UNCHANGED part
  /\ \/ part = "command" /\ Next /\ UNCHANGED <<logVars, termVars, framed, chatVars>>
     \/ part = "log" /\ LogNext /\ UNCHANGED <<vars, termVars, framed, chatVars>>
     \/ part = "terminal" /\ TermNext /\ UNCHANGED <<vars, logVars, framed, chatVars>>
     \/ part = "container" /\ Write /\ UNCHANGED <<vars, logVars, termVars, chatVars>>
     \/ part = "chat" /\ ChatNext /\ UNCHANGED <<vars, logVars, termVars, framed>>

streamsVars == <<part, vars, logVars, termVars, framed, chatVars>>

StreamsSpec ==
  /\ StreamsInit /\ [][StreamsNext]_streamsVars
  /\ \/ part = "command" /\ StreamFairness
     \/ part = "log" /\ LogFairness
     \/ part = "terminal" /\ TermFairness
     \/ part = "container"
     \/ part = "chat" /\ ChatFairness

(* The variables of all keep their types, and no pipe, channel or          *)
(* pseudo-terminal exceeds its capacity.                                   *)
StreamsTypeOK == TypeOK /\ LogTypeOK /\ TermTypeOK /\ ChatTypeOK

(* What is logged is shown, by the log viewer and in the log of a          *)
(* container: nothing lost, in order, and without the headers of frames.   *)
LogsShown == NothingLost /\ LogLinesShown

(* Every stream ends: a command and its request, the handler and the       *)
(* command of a followed log, a terminal with its shell and both           *)
(* goroutines, an answer of the assistant; when their source ends and when *)
(* the client leaves.                                                      *)
StreamsEnd == StreamEnds /\ FollowEnds /\ TerminalEnds /\ ChatEnds
=============================================================================
