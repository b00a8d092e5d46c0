---------------------------- MODULE ContainerLog ----------------------------
(***************************************************************************)
(* The log of a container as the page shows it (Docker.Logs and            *)
(* ContainersHandler.Logs, internal/api/handlers/containers.go).           *)
(*                                                                         *)
(* The log of a container without a terminal is a sequence of frames, each *)
(* with a header of eight bytes.  Of these two can matter: the stream, 1   *)
(* or 2, and the low byte of the length, which may look like a newline.    *)
(* The handler splits the bytes into lines before it looks for headers.    *)
(***************************************************************************)
EXTENDS Naturals, Sequences, SequencesExt

CONSTANT Texts  \* what containers log: sequences of frames

\* NL is the newline, which is also a possible length; other bytes of a line are
\* larger than both streams.
NL == 3

\* A frame holds a line, or a part of one.
ASSUME TextsAssumption ==
  \A text \in Texts :
    /\ text \in Seq(Seq(Nat))
    /\ \A i \in 1..Len(text) : text[i] # <<>> /\ \A k \in 1..(Len(text[i]) - 1) : text[i][k] > NL

VARIABLE framed  \* what the container has logged so far

CtrLogInit == framed = <<>>

\* The container logs a frame.
Write ==
  \E text \in Texts :
    /\ IsPrefix(framed, text) /\ Len(framed) < Len(text)
    /\ framed' = SubSeq(text, 1, Len(framed) + 1)

CtrLogSpec == CtrLogInit /\ [][Write]_framed

-----------------------------------------------------------------------------
FrameHeader(frame) == <<1, Len(frame)>>
Bytes(text) == FlattenSeq([i \in DOMAIN text |-> FrameHeader(text[i]) \o text[i]])

\* bufio.Scanner: the pieces between newlines, and what follows the last of them.
Lines(bytes) ==
  LET read[n \in 0..Len(bytes)] ==
        IF n = 0 THEN <<>>
        ELSE LET begun == IF n = 1 \/ bytes[n - 1] = NL THEN Append(read[n - 1], <<>>) ELSE read[n - 1]
             IN  IF bytes[n] = NL THEN begun
                 ELSE [begun EXCEPT ![Len(begun)] = Append(@, bytes[n])]
  IN  read[Len(bytes)]

\* ContainersHandler.Logs: a line that starts like a header loses its length.
Strip(line) == IF Len(line) > 2 /\ line[1] <= 2 THEN SubSeq(line, 3, Len(line)) ELSE line

Shown == LET lines == Lines(Bytes(framed)) IN [i \in DOMAIN lines |-> Strip(lines[i])]

-----------------------------------------------------------------------------
\* No line is split over frames or empty, and no length has the newline in it.
Plain(text) == \A i \in DOMAIN text : Last(text[i]) = NL /\ Len(text[i]) > 1 /\ Len(text[i]) # NL

(* What a container logged is shown line by line without the headers of    *)
(* the frames, if the log is plain.                                        *)
LogLinesShown ==
  Plain(framed) => Shown = [i \in DOMAIN framed |-> Front(framed[i])]
=============================================================================
