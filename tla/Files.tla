-------------------------------- MODULE Files --------------------------------
(***************************************************************************)
(* The file manager (internal/system/files/files.go, FilesHandler in       *)
(* internal/api/handlers/applications.go, web/src/routes/Files.svelte).    *)
(* A page lists names, opens one in its editor, saves what the editor      *)
(* holds, uploads and deletes.  The answers of the server come when they   *)
(* come: the page puts the text of any answer into the editor, whichever   *)
(* file is open by then, and offers to save it all the time.               *)
(*                                                                         *)
(* A text is known by the name of the file that it is a text of, however   *)
(* much of it has been edited.                                             *)
(***************************************************************************)
EXTENDS Naturals, Sequences, SequencesExt

CONSTANTS
  FilePages,    \* pages
  FileNames,    \* names of one directory
  Closed,       \* no name
  MaxOpens,     \* bound of the model: files opened
  MaxWrites     \* bound of the model: saves, uploads, deletions and new folders

ASSUME FilesAssumption ==
  /\ Closed \notin FileNames \union {"nothing", "directory", "empty"}
  /\ FileNames \intersect {"nothing", "directory", "empty"} = {}
  /\ MaxOpens \in Nat /\ MaxWrites \in Nat

VARIABLES
  disk,      \* name -> "nothing", "directory", "empty", or the name its text belongs to
  fpage,     \* page -> what it shows
  reads,     \* page -> its requests to read, in the order they were sent
  writing,   \* page -> its request to write
  opens, writes,  \* numbers of requests so far
  excused    \* history: see FilesKeepTheirText

fileVars == <<disk, fpage, reads, writing, opens, writes, excused>>

NoWrite == [pc |-> "none", path |-> Closed, text |-> "empty", upload |-> FALSE]
IsFile(there) == there \notin {"nothing", "directory"}
FileRows == {f \in FileNames : IsFile(disk[f])}
Shows == [rows |-> FileRows, open |-> Closed, text |-> "empty", sure |-> TRUE]
BeingWritten(f) == \E t \in FilePages : writing[t].pc # "none" /\ writing[t].path = f

FilesInit ==
  /\ disk \in [FileNames -> FileNames \union {"empty"}]
  /\ \A f \in FileNames : disk[f] \in {f, "empty"}
  /\ fpage = [t \in FilePages |-> Shows]
  /\ reads = [t \in FilePages |-> <<>>]
  /\ writing = [t \in FilePages |-> NoWrite]
  /\ opens = 0 /\ writes = 0
  /\ excused = [foreign |-> {}, empty |-> {f \in FileNames : disk[f] = "empty"}]

-----------------------------------------------------------------------------
\* browse, also when sudo is switched on or off, which every request says of itself: the
\* list replaces the editor, whose text stays.
Listed(p, rows) == [p EXCEPT !.rows = rows, !.open = Closed]

Browse(t) ==
  /\ fpage' = [fpage EXCEPT ![t] = Listed(@, FileRows)]
  /\ UNCHANGED <<disk, reads, writing, opens, writes, excused>>

Back(t) ==
  /\ fpage[t].open # Closed
  /\ fpage' = [fpage EXCEPT ![t].open = Closed]
  /\ UNCHANGED <<disk, reads, writing, opens, writes, excused>>

\* openFile of a row that is not a directory.  The text that the page will have is
\* surely the file's when no earlier request is on its way.
OpenFile(t, f) ==
  /\ fpage[t].open = Closed /\ f \in fpage[t].rows /\ opens < MaxOpens
  /\ fpage' = [fpage EXCEPT ![t].open = f, ![t].sure = (reads[t] = <<>>)]
  /\ reads' = [reads EXCEPT ![t] = Append(@, [path |-> f, got |-> "waits"])]
  /\ opens' = opens + 1
  /\ UNCHANGED <<disk, writing, writes, excused>>

\* Manager.Read: what is there, in the middle of a write as well, or an error: the
\* file is gone, not to be read, or, without sudo, larger than 10 MB.
Read(t, i) ==
  LET r == reads[t][i] IN
  /\ r.got = "waits"
  /\ \/ /\ IsFile(disk[r.path])
        /\ reads' = [reads EXCEPT ![t][i].got = disk[r.path]]
     \/ reads' = [reads EXCEPT ![t][i].got = "fails"]
  /\ fpage' = [fpage EXCEPT ![t].sure = @ /\ ~BeingWritten(r.path)]
  /\ UNCHANGED <<disk, writing, opens, writes, excused>>

\* Slip: an answer without a text leaves the editor as it is, as "||" for "??" does.
TextAfterOr(p, got) == IF got \in {"fails", "empty"} THEN p.text ELSE got

\* The text an answer leaves in the editor; after an error the one before stays.
TextAfter(p, got) == IF got = "fails" THEN p.text ELSE got

Answered(t, i) ==
  LET r == reads[t][i] IN
  /\ r.got # "waits"
  /\ fpage' = [fpage EXCEPT ![t].text = TextAfter(fpage[t], r.got),
                            ![t].sure = @ /\ r.got # "fails"]
  /\ reads' = [reads EXCEPT ![t] = RemoveAt(@, i)]
  /\ UNCHANGED <<disk, writing, opens, writes, excused>>

-----------------------------------------------------------------------------
\* saveFile: the text of the editor, whatever it is, to the file that is open.
SaveFile(t) ==
  LET p == fpage[t]
      surely == p.sure /\ reads[t] = <<>>
  IN /\ p.open # Closed /\ writing[t].pc = "none" /\ writes < MaxWrites
     /\ writing' = [writing EXCEPT ![t] =
                      [NoWrite EXCEPT !.pc = "asked", !.path = p.open, !.text = p.text]]
     /\ excused' = [foreign |-> IF surely THEN excused.foreign ELSE excused.foreign \union {p.open},
                    empty |-> IF surely THEN excused.empty ELSE excused.empty \union {p.open}]
     /\ writes' = writes + 1
     /\ UNCHANGED <<disk, fpage, reads, opens>>

\* handleUpload of a file that the user has under this name, with sudo or without.  (A
\* page of the model writes one file at a time.)
AskUpload(t, f) ==
  /\ fpage[t].open = Closed /\ writing[t].pc = "none" /\ writes < MaxWrites
  /\ \E pc \in {"asked", "moves"} :
       writing' = [writing EXCEPT ![t] = [pc |-> pc, path |-> f, text |-> f, upload |-> TRUE]]
  /\ writes' = writes + 1
  /\ UNCHANGED <<disk, fpage, reads, opens, excused>>

\* os.WriteFile, tee and os.Create: the file is there, and empty ...
Truncate(t) ==
  LET w == writing[t] IN
  /\ w.pc = "asked" /\ disk[w.path] # "directory"
  /\ disk' = [disk EXCEPT ![w.path] = "empty"]
  /\ writing' = [writing EXCEPT ![t].pc = "writes"]
  /\ UNCHANGED <<fpage, reads, opens, writes, excused>>

\* The request ends; handleUpload lists the directory then, whatever is open.
WriteEnds(t) ==
  /\ writing' = [writing EXCEPT ![t] = NoWrite]
  /\ fpage' = IF writing[t].upload THEN [fpage EXCEPT ![t] = Listed(@, FileRows')] ELSE fpage

\* ... until its text is written.
Write(t) ==
  LET w == writing[t] IN
  /\ w.pc = "writes"
  /\ disk' = IF IsFile(disk[w.path]) THEN [disk EXCEPT ![w.path] = w.text] ELSE disk
  /\ WriteEnds(t)
  /\ UNCHANGED <<reads, opens, writes, excused>>

\* An upload with sudo is written elsewhere and moved, into a directory if that is there.
Move(t) ==
  LET w == writing[t] IN
  /\ w.pc = "moves"
  /\ disk' = IF disk[w.path] = "directory" THEN disk ELSE [disk EXCEPT ![w.path] = w.text]
  /\ WriteEnds(t)
  /\ UNCHANGED <<reads, opens, writes, excused>>

\* The write is refused, or it fails on the way: the disk is full, the client is gone.
WriteFails(t) ==
  LET w == writing[t] IN
  /\ w.pc # "none"
  /\ excused' = IF w.pc = "writes" THEN [excused EXCEPT !.empty = @ \union {w.path}] ELSE excused
  /\ UNCHANGED <<disk, reads, opens, writes>>
  /\ WriteEnds(t)

\* deleteEntry and Manager.Delete; it may fail, as for a directory that is not empty.
DeleteEntry(t, f) ==
  /\ fpage[t].open = Closed /\ disk[f] # "nothing" /\ writes < MaxWrites
  /\ \/ /\ disk' = [disk EXCEPT ![f] = "nothing"]
        /\ fpage' = [fpage EXCEPT ![t] = Listed(@, FileRows')]
     \/ UNCHANGED <<disk, fpage>>
  /\ writes' = writes + 1
  /\ UNCHANGED <<reads, writing, opens, excused>>

\* mkdir -p: nothing new where a directory is, an error where a file is.
Mkdir(t, f) ==
  /\ fpage[t].open = Closed /\ writes < MaxWrites
  /\ IF IsFile(disk[f]) THEN UNCHANGED <<disk, fpage>>
     ELSE /\ disk' = [disk EXCEPT ![f] = "directory"]
          /\ fpage' = [fpage EXCEPT ![t] = Listed(@, FileRows')]
  /\ writes' = writes + 1
  /\ UNCHANGED <<reads, writing, opens, excused>>

FilesNext ==
  \E t \in FilePages :
    \/ Browse(t) \/ Back(t) \/ SaveFile(t)
    \/ \E i \in 1..Len(reads[t]) : Read(t, i) \/ Answered(t, i)
    \/ Truncate(t) \/ Write(t) \/ Move(t) \/ WriteFails(t)
    \/ \E f \in FileNames : OpenFile(t, f) \/ AskUpload(t, f) \/ DeleteEntry(t, f) \/ Mkdir(t, f)

FilesSpec == FilesInit /\ [][FilesNext]_fileVars

-----------------------------------------------------------------------------
FilesTypeOK ==
  /\ disk \in [FileNames -> FileNames \union {"nothing", "directory", "empty"}]
  /\ \A t \in FilePages : /\ fpage[t].open \in FileNames \union {Closed}
                          /\ writing[t].pc \in {"none", "asked", "writes", "moves"}

(* A file keeps a text of its own, and is not emptied, by whatever several *)
(* pages open, save, upload and delete, unless one of these happened: it   *)
(* was saved before the text it was opened for had come, or after an       *)
(* answer that was late or an error; it was read while it was being        *)
(* written, and that was saved; or writing it failed half-way.             *)
FilesKeepTheirText ==
  \A f \in FileNames : IsFile(disk[f]) =>
    /\ disk[f] \in {f, "empty"} \/ f \in excused.foreign
    /\ disk[f] = "empty" => BeingWritten(f) \/ f \in excused.empty
=============================================================================
