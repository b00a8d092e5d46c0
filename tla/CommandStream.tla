--------------------------- MODULE CommandStream ---------------------------
(***************************************************************************)
(* A command whose output is streamed to the browser (package operations,  *)
(* Ansible and Puppet runs, LVM extension).                                *)
(*                                                                         *)
(* Four processes: the command, which writes lines to two pipes; the       *)
(* goroutine that reads them (runStreamingArgs and its siblings), stdout   *)
(* to its end and only then stderr, and sends the lines on a channel; the  *)
(* request handler, which writes what it receives as server-sent events;   *)
(* and the client, whose departure cancels the request's context, upon     *)
(* which os/exec kills the command.                                        *)
(***************************************************************************)
EXTENDS Naturals, Sequences, FiniteSets

CONSTANTS
  Plans,     \* what commands may write: sequences of [fd, long]
  PipeCap,   \* lines a pipe holds (64 KiB)
  OutCap     \* capacity of the channel out (64; 32 for disks)

Fds == {"stdout", "stderr"}

ASSUME StreamAssumption ==
  /\ Plans \subseteq Seq([fd : Fds, long : BOOLEAN])
  /\ PipeCap \in Nat \ {0}
  /\ OutCap \in Nat \ {0}

VARIABLES
  plan,      \* the lines this command writes before it exits
  written,   \* how many of them it has written
  child,     \* "none", "running", "exited" (a zombie) or "reaped"
  pipe,      \* fd -> lines in the pipe
  reader,    \* where the reading goroutine is
  line,      \* the line it has in hand
  out,       \* the channel
  handler,   \* "ranging" or "done"
  client,    \* "here" or "gone"
  got        \* history: lines the client was sent

vars == <<plan, written, child, pipe, reader, line, out, handler, client, got>>

\* Lines are named by their place in the plan; 0 is the "[webux] error" line.
Error == 0

Init ==
  /\ plan \in Plans
  /\ written = 0
  /\ child = "none"
  /\ pipe = [fd \in Fds |-> <<>>]
  /\ reader = "start"
  /\ line = Error
  /\ out = <<>>
  /\ handler = "ranging"
  /\ client = "here"
  /\ got = <<>>

-----------------------------------------------------------------------------
(* The command.                                                            *)

\* It blocks while the pipe is full.
WriteLine ==
  /\ child = "running"
  /\ written < Len(plan)
  /\ LET fd == plan[written + 1].fd IN
       /\ Len(pipe[fd]) < PipeCap
       /\ pipe' = [pipe EXCEPT ![fd] = Append(@, written + 1)]
  /\ written' = written + 1
  /\ UNCHANGED <<plan, child, reader, line, out, handler, client, got>>

Exit ==
  /\ child = "running"
  /\ written = Len(plan)
  /\ child' = "exited"
  /\ UNCHANGED <<plan, written, pipe, reader, line, out, handler, client, got>>

\* The context is cancelled: exec.CommandContext kills the command.
KillOnCancel ==
  /\ client = "gone"
  /\ child = "running"
  /\ child' = "exited"
  /\ UNCHANGED <<plan, written, pipe, reader, line, out, handler, client, got>>

-----------------------------------------------------------------------------
(* The reading goroutine.                                                  *)

\* cmd.Start; when it fails the error is reported.
StartCommand ==
  /\ reader = "start"
  /\ \/ /\ child' = "running"
        /\ reader' = "scan"
     \/ /\ reader' = "report"
        /\ UNCHANGED child
  /\ UNCHANGED <<plan, written, pipe, line, out, handler, client, got>>

\* A Scanner gives up at a line of more than 64 KiB.
Take(fd) ==
  /\ pipe[fd] # <<>>
  /\ pipe' = [pipe EXCEPT ![fd] = Tail(@)]
  /\ IF plan[Head(pipe[fd])].long
     THEN /\ reader' = "wait"
          /\ UNCHANGED line
     ELSE /\ line' = Head(pipe[fd])
          /\ reader' = "send"

AtEnd(fd) == pipe[fd] = <<>> /\ child = "exited"

\* Slip: stderr is read whenever stdout has nothing to read just now.
ScanEither ==
  /\ reader = "scan"
  /\ \/ Take("stdout")
     \/ pipe["stdout"] = <<>> /\ Take("stderr")
     \/ /\ AtEnd("stdout") /\ AtEnd("stderr")
        /\ reader' = "wait"
        /\ UNCHANGED <<pipe, line>>
  /\ UNCHANGED <<plan, written, child, out, handler, client, got>>

\* scanner.Scan() on io.MultiReader(stdout, stderr).
Scan ==
  /\ reader = "scan"
  /\ \/ Take("stdout")
     \/ AtEnd("stdout") /\ Take("stderr")
     \/ /\ AtEnd("stdout") /\ AtEnd("stderr")
        /\ reader' = "wait"
        /\ UNCHANGED <<pipe, line>>
  /\ UNCHANGED <<plan, written, child, out, handler, client, got>>

\* Slip: the lines are queued without bound.
SendUnbounded ==
  /\ reader = "send"
  /\ out' = Append(out, line)
  /\ reader' = "scan"
  /\ UNCHANGED <<plan, written, child, pipe, line, handler, client, got>>

\* Slip: the command is left to itself when the client has gone.
SendWithoutKill ==
  /\ reader = "send"
  /\ \/ /\ Len(out) < OutCap
        /\ out' = Append(out, line)
        /\ reader' = "scan"
     \/ /\ client = "gone"
        /\ reader' = "echo"
        /\ UNCHANGED out
  /\ UNCHANGED <<plan, written, child, pipe, line, handler, client, got>>

\* The select: send the line, or kill the command and give up, whichever is
\* ready (either, when both are).
Send ==
  /\ reader = "send"
  /\ \/ /\ Len(out) < OutCap
        /\ out' = Append(out, line)
        /\ reader' = "scan"
        /\ UNCHANGED child
     \/ /\ client = "gone"
        /\ child' = "exited"
        /\ reader' = "report"
        /\ UNCHANGED out
  /\ UNCHANGED <<plan, written, pipe, line, handler, client, got>>

\* cmd.Wait returns when the command has exited, and closes the pipes.
Wait ==
  /\ reader = "wait"
  /\ child = "exited"
  /\ child' = "reaped"
  /\ pipe' = [fd \in Fds |-> <<>>]
  /\ reader' \in {"report", "echo"}
  /\ UNCHANGED <<plan, written, line, out, handler, client, got>>

\* out <- "[webux] error: ..."
Report ==
  /\ reader = "report"
  /\ Len(out) < OutCap
  /\ out' = Append(out, Error)
  /\ reader' = "echo"
  /\ UNCHANGED <<plan, written, child, pipe, line, handler, client, got>>

\* learn.Echo and close(out).
EchoAndClose ==
  /\ reader = "echo"
  /\ reader' = "closed"
  /\ UNCHANGED <<plan, written, child, pipe, line, out, handler, client, got>>

-----------------------------------------------------------------------------
(* The handler and the client.                                             *)

\* for line := range out: what is written to a client that has gone is lost.
Forward ==
  /\ handler = "ranging"
  /\ out # <<>>
  /\ out' = Tail(out)
  /\ got' = IF client = "here" THEN Append(got, Head(out)) ELSE got
  /\ UNCHANGED <<plan, written, child, pipe, reader, line, handler, client>>

Return ==
  /\ handler = "ranging"
  /\ out = <<>>
  /\ reader = "closed"
  /\ handler' = "done"
  /\ UNCHANGED <<plan, written, child, pipe, reader, line, out, client, got>>

Leave ==
  /\ client = "here"
  /\ handler = "ranging"
  /\ client' = "gone"
  /\ UNCHANGED <<plan, written, child, pipe, reader, line, out, handler, got>>

Command == WriteLine \/ Exit \/ KillOnCancel
Reader == StartCommand \/ Scan \/ Send \/ Wait \/ Report \/ EchoAndClose
Handler == Forward \/ Return

Next == Command \/ Reader \/ Handler \/ Leave

Spec == Init /\ [][Next]_vars

\* The command, the goroutine and the handler go on while they can; nothing
\* makes the client leave.
StreamFairness == WF_vars(Command) /\ WF_vars(Reader) /\ WF_vars(Handler)

FairSpec == Spec /\ StreamFairness

-----------------------------------------------------------------------------
TypeOK ==
  /\ written \in 0..Len(plan)
  /\ child \in {"none", "running", "exited", "reaped"}
  /\ \A fd \in Fds : pipe[fd] \in Seq(1..Len(plan)) /\ Len(pipe[fd]) <= PipeCap
  /\ reader \in {"start", "scan", "send", "wait", "report", "echo", "closed"}
  /\ line \in 0..Len(plan)
  /\ out \in Seq(0..Len(plan)) /\ Len(out) <= OutCap
  /\ handler \in {"ranging", "done"}
  /\ client \in {"here", "gone"}
  /\ got \in Seq(0..Len(plan))

\* The output as the reader sees it: all of stdout and then all of stderr.
Before(a, b) == IF plan[a].fd = plan[b].fd THEN a < b ELSE plan[a].fd = "stdout"

\* A command whose lines are short, and whose diagnostics fit into their pipe.
ShortLines == \A i \in 1..Len(plan) : ~plan[i].long
FewDiagnostics == Cardinality({i \in 1..Len(plan) : plan[i].fd = "stderr"}) <= PipeCap

(* The client is sent the command's output, stdout before stderr, without  *)
(* repetitions or reordering, and no line without all those before it; the *)
(* error line only at the end; and all of the output when the client stays *)
(* and no line is too long.                                                *)
OutputFaithful ==
  LET lines == {i \in 1..Len(got) : got[i] # Error}
  IN  /\ \A i, j \in lines : i < j => Before(got[i], got[j])
      /\ \A j \in lines : \A a \in 1..Len(plan) :
           Before(a, got[j]) => \E i \in 1..(j - 1) : got[i] = a
      /\ \A i \in 1..Len(got) : got[i] = Error => i = Len(got)
      /\ handler = "done" /\ client = "here" /\ child # "none" /\ ShortLines
           => \A a \in 1..Len(plan) : \E i \in lines : got[i] = a

(* No command outlives its request: when the handler returns the command   *)
(* has ended, and has been waited for unless the client left.              *)
NoOrphan ==
  handler = "done" =>
    /\ child # "running"
    /\ client = "here" => child \in {"none", "reaped"}

(* The request ends: the client is told the end of every command that      *)
(* writes short lines and few diagnostics, and a client that leaves frees  *)
(* the goroutines whatever the command writes.                             *)
StreamEnds ==
  /\ reader # "start" /\ ShortLines /\ FewDiagnostics ~> handler = "done"
  /\ client = "gone" ~> handler = "done"

(* "Stream both stdout and stderr": a command of short lines ends and so   *)
(* does its request, however much it writes to each of the two.            *)
EveryStreamEnds == reader # "start" /\ ShortLines ~> handler = "done"
=============================================================================
