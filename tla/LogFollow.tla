------------------------------ MODULE LogFollow ------------------------------
(***************************************************************************)
(* Following a log (internal/api/handlers/logs.go: Follow, FollowUnit,     *)
(* streamSSE; internal/system/logs/logs.go: FollowFile, FollowUnit).       *)
(*                                                                         *)
(* tail or journalctl writes into a pipe of the operating system; a        *)
(* goroutine of os/exec copies what it reads there, block by block, into   *)
(* an io.Pipe, whose Write returns when the handler has read the whole     *)
(* block; the handler reads pieces of a block, splits them into lines and  *)
(* sends each as an event.                                                 *)
(*                                                                         *)
(* A text is a sequence of cells: the number of its line for a character,  *)
(* Newline for the end of a line.                                          *)
(***************************************************************************)
EXTENDS Naturals, Sequences, FiniteSets, SequencesExt, FiniteSetsExt

CONSTANTS
  Logs,       \* texts that may appear in the log while it is followed
  LogPipeCap, \* capacity of the pipe of the operating system, in cells
  BlockMax,   \* cells the copying goroutine reads at once (32 KiB)
  PieceMax    \* cells the handler reads at once (4096)

Newline == 0

\* Between two newlines all characters are of one line.
ASSUME LogAssumption ==
  /\ Logs \subseteq Seq(Nat)
  /\ \A text \in Logs : \A i \in 1..(Len(text) - 1) :
       text[i] = text[i + 1] \/ Newline \in {text[i], text[i + 1]}
  /\ LogPipeCap \in Nat \ {0} /\ BlockMax \in Nat \ {0} /\ PieceMax \in Nat \ {0}

VARIABLES
  logText,   \* what is going to be written to the log
  logged,    \* cells the command has written
  tail,      \* the command: "running", "exited" or "reaped"
  osPipe,    \* cells in the pipe of the operating system
  copier,    \* the copying goroutine: "reading", "writing" or "done"
  block,     \* what is left of the block being written to the io.Pipe
  follower,  \* the goroutine of the handler: "running" or "closed" (the io.Pipe)
  streamer,  \* the handler: "checking", "reading" or "done"
  viewer,    \* the client: "here" or "gone"
  events     \* the events the client was sent

logVars == <<logText, logged, tail, osPipe, copier, block, follower, streamer, viewer, events>>

LogInit ==
  /\ logText \in Logs
  /\ logged = 0
  /\ tail = "running"
  /\ osPipe = <<>>
  /\ copier = "reading"
  /\ block = <<>>
  /\ follower = "running"
  /\ streamer = "checking"
  /\ viewer = "here"
  /\ events = <<>>

AtMost(n, s) == IF Len(s) < n THEN Len(s) ELSE n
FirstOf(n, s) == SubSeq(s, 1, AtMost(n, s))
AfterFirst(n, s) == SubSeq(s, AtMost(n, s) + 1, Len(s))

-----------------------------------------------------------------------------
TailWrites ==
  /\ tail = "running" /\ copier # "done"
  /\ logged < Len(logText)
  /\ Len(osPipe) < LogPipeCap
  /\ logged' = logged + 1
  /\ osPipe' = Append(osPipe, logText[logged + 1])
  /\ UNCHANGED <<logText, tail, copier, block, follower, streamer, viewer, events>>

\* The command cannot run at all, is killed because the request has ended, or
\* writes to a pipe nobody reads any more.
TailExits ==
  /\ tail = "running"
  /\ logged = 0 \/ viewer = "gone" \/ streamer = "done" \/ copier = "done"
  /\ tail' = "exited"
  /\ UNCHANGED <<logText, logged, osPipe, copier, block, follower, streamer, viewer, events>>

\* The copying goroutine reads a block and offers it to the io.Pipe; at the end
\* of the pipe it stops.
CopyBlock ==
  /\ copier = "reading"
  /\ IF osPipe # <<>>
     THEN /\ block' = FirstOf(BlockMax, osPipe)
          /\ osPipe' = AfterFirst(BlockMax, osPipe)
          /\ copier' = "writing"
     ELSE /\ tail = "exited"
          /\ copier' = "done"
          /\ UNCHANGED <<osPipe, block>>
  /\ UNCHANGED <<logText, logged, tail, follower, streamer, viewer, events>>

\* The write returns when the block was read to its end, or fails because the
\* handler has closed its end.
BlockWritten ==
  /\ copier = "writing"
  /\ \/ block = <<>> /\ copier' = "reading"
     \/ streamer = "done" /\ copier' = "done"
  /\ block' = <<>>
  /\ UNCHANGED <<logText, logged, tail, osPipe, follower, streamer, viewer, events>>

\* cmd.Run returns when the command has exited and the copying has ended; the
\* writing end of the io.Pipe is closed.
FollowReturns ==
  /\ tail = "exited" /\ copier = "done"
  /\ tail' = "reaped"
  /\ follower' = "closed"
  /\ UNCHANGED <<logText, logged, osPipe, copier, block, streamer, viewer, events>>

-----------------------------------------------------------------------------
\* The lines of the first cells of a piece: the parts between newlines that are
\* not empty.
LinesUpTo(s, end) ==
  LET split[n \in 0..Len(s)] ==
        IF n = 0 THEN <<>>
        ELSE LET before == split[n - 1]
             IN  IF s[n] = Newline THEN before
                 ELSE IF n = 1 \/ s[n - 1] = Newline THEN Append(before, <<s[n]>>)
                 ELSE [before EXCEPT ![Len(before)] = Append(@, s[n])]
  IN  split[end]

\* Slip: what is left after the last newline is not sent.
SplitWholeLines(s) == LinesUpTo(s, Max({0} \union {n \in 1..Len(s) : s[n] = Newline}))

\* splitLines
SplitLines(s) == LinesUpTo(s, Len(s))

\* The handler looks at the context first ...
CheckContext ==
  /\ streamer = "checking"
  /\ streamer' = IF viewer = "gone" THEN "done" ELSE "reading"
  /\ UNCHANGED <<logText, logged, tail, osPipe, copier, block, follower, viewer, events>>

\* ... and then reads a piece; what it sends to a client that has gone is lost.
ReadPiece ==
  /\ streamer = "reading"
  /\ copier = "writing" /\ block # <<>>
  /\ events' = IF viewer = "here" THEN events \o SplitLines(FirstOf(PieceMax, block)) ELSE events
  /\ block' = AfterFirst(PieceMax, block)
  /\ streamer' = "checking"
  /\ UNCHANGED <<logText, logged, tail, osPipe, copier, follower, viewer>>

\* The io.Pipe has been closed.
ReadEnd ==
  /\ streamer = "reading"
  /\ follower = "closed"
  /\ streamer' = "done"
  /\ UNCHANGED <<logText, logged, tail, osPipe, copier, block, follower, viewer, events>>

ViewerLeaves ==
  /\ viewer = "here" /\ streamer # "done"
  /\ viewer' = "gone"
  /\ UNCHANGED <<logText, logged, tail, osPipe, copier, block, follower, streamer, events>>

Following == TailWrites \/ TailExits \/ CopyBlock \/ BlockWritten \/ FollowReturns
Streaming == CheckContext \/ ReadPiece \/ ReadEnd

LogNext == Following \/ Streaming \/ ViewerLeaves

LogSpec == LogInit /\ [][LogNext]_logVars

\* Command and goroutines go on while they can; nothing makes a client leave or
\* the command fail.
LogFairness ==
  /\ WF_logVars(TailWrites) /\ WF_logVars(TailExits /\ (viewer = "gone" \/ streamer = "done"))
  /\ WF_logVars(CopyBlock \/ BlockWritten) /\ WF_logVars(FollowReturns)
  /\ WF_logVars(Streaming)

-----------------------------------------------------------------------------
LogTypeOK ==
  /\ logText \in Logs
  /\ logged \in 0..Len(logText)
  /\ tail \in {"running", "exited", "reaped"}
  /\ Len(osPipe) <= LogPipeCap
  /\ Len(block) <= BlockMax
  /\ copier \in {"reading", "writing", "done"}
  /\ follower \in {"running", "closed"}
  /\ streamer \in {"checking", "reading", "done"}
  /\ viewer \in {"here", "gone"}

Characters(s) == FlattenSeq([i \in 1..Len(s) |-> IF s[i] = Newline THEN <<>> ELSE <<s[i]>>])

(* A client that stays gets every character of the log once and in order:  *)
(* those written are those sent and those still in the two pipes; and no   *)
(* event mixes two lines.                                                  *)
NothingLost ==
  /\ viewer = "here" =>
       Characters(SubSeq(logText, 1, logged))
         = FlattenSeq(events) \o Characters(block) \o Characters(osPipe)
  /\ \A k \in 1..Len(events) : Cardinality(ToSet(events[k])) = 1

(* Everything written to the log reaches a client that stays; when the     *)
(* client leaves, or the command ends, the handler returns and the command *)
(* is waited for, whatever the pipes still hold.                           *)
FollowEnds ==
  /\ logged > 0
       ~> (viewer = "gone" \/ tail # "running" \/ FlattenSeq(events) = Characters(logText))
  /\ (viewer = "gone" \/ tail = "exited") ~> (streamer = "done" /\ tail = "reaped")
=============================================================================
