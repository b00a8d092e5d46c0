------------------------------ MODULE RepoFiles ------------------------------
(***************************************************************************)
(* Package repositories (internal/system/packages/repos.go, the repository *)
(* handlers of internal/api/handlers/packages.go, the page Packages.svelte)*)
(*                                                                         *)
(* A repository is a line of an apt list, or a section of pacman.conf or   *)
(* of a yum .repo file.  A page names it by the file and line, or by the   *)
(* section, it had when the page was loaded.  A request reads a file and   *)
(* writes it back, in steps between which the requests of other tabs come. *)
(***************************************************************************)
EXTENDS Naturals, Sequences, FiniteSets, SequencesExt

CONSTANTS
  Viewers,    \* browser tabs on the repository page
  Gone,       \* stands for the content of a file that does not exist
  MaxRepos,   \* bound of the model: repositories ever
  MaxEdits    \* bound of the model: clicks that change something

\* The lines of files: what they are, whose they are, whether they have no "#" in front,
\* and the value of an "enabled=" line.
RepoLine == [is : {"source", "header", "setting", "flag", "note"}, repo : Nat, live : BOOLEAN,
             on : BOOLEAN]

\* What distributions install are four repositories; no content stands for none.
ASSUME RepoAssumption ==
  /\ MaxRepos \in Nat /\ MaxRepos >= 4 /\ MaxEdits \in Nat
  /\ Gone \notin Seq(RepoLine)

VARIABLES
  family,  \* the package manager of the host
  files,   \* file -> its lines, or Gone
  repoRows,   \* tab -> the rows of its page
  edit,    \* tab -> the request it waits for
  current,  \* history: tabs whose page is younger than the last replacement of a file
           \*          by anything but its own text, edited
  clean,   \* history: tabs that clicked on such a page, no file having changed since
  repos,   \* number of repositories ever
  edits    \* number of clicks so far

repoVars == <<family, files, repoRows, edit, current, clean, repos, edits>>

Families == {"apt", "pacman", "dnf"}

\* "main" is /etc/apt/sources.list, pacman.conf or a vendor's .repo file;
\* "extra" is the file sanitiseRepoName makes of the name in the form.
Files == {"main", "extra"}

Source(r, live) == [is |-> "source", repo |-> r, live |-> live, on |-> TRUE]
Header(r, live) == [is |-> "header", repo |-> r, live |-> live, on |-> TRUE]
Setting(r, live) == [is |-> "setting", repo |-> r, live |-> live, on |-> TRUE]
Flag(r, on) == [is |-> "flag", repo |-> r, live |-> TRUE, on |-> on]
Note == [is |-> "note", repo |-> 0, live |-> FALSE, on |-> TRUE]

\* What distributions install.
FirstFiles(fam) ==
  CASE fam = "apt" -> [main |-> <<Source(1, TRUE), Note, Source(2, FALSE)>>,
                       extra |-> <<Source(3, TRUE), Source(4, TRUE)>>]
    [] fam = "pacman" -> [main |-> <<Header(1, TRUE), Setting(1, TRUE), Note, Header(2, TRUE),
                                     Setting(2, TRUE), Header(3, FALSE), Setting(3, FALSE)>>,
                          extra |-> Gone]
    [] fam = "dnf" -> [main |-> <<Header(1, TRUE), Setting(1, TRUE), Header(2, TRUE),
                                  Setting(2, TRUE), Flag(2, FALSE)>>,
                       extra |-> <<Header(3, TRUE), Setting(3, TRUE), Flag(3, TRUE)>>]

NoEntry == [file |-> "main", line |-> 0, repo |-> 0, enabled |-> TRUE]
NoEdit == [pc |-> "idle", op |-> "disable", row |-> NoEntry, text |-> Gone]

RepoInit ==
  /\ family \in Families
  /\ files = FirstFiles(family)
  /\ repoRows = [t \in Viewers |-> {}]
  /\ edit = [t \in Viewers |-> NoEdit]
  /\ current = {} /\ clean = {}
  /\ repos = 4 /\ edits = 0

-----------------------------------------------------------------------------
LiveHeader(line) == line.is = "header" /\ line.live

\* Slip: the loop does not stop at the next section.
SectionToTheEnd(text, r) ==
  {i \in DOMAIN text : \E h \in 1..(i - 1) : LiveHeader(text[h]) /\ text[h].repo = r}

\* The lines below [r], up to the next header that is not commented out.
Section(text, r) ==
  {i \in DOMAIN text : \E h \in 1..(i - 1) :
     /\ LiveHeader(text[h]) /\ text[h].repo = r
     /\ \A k \in (h + 1)..i : ~LiveHeader(text[k])}

HeaderOf(text, r) == {h \in DOMAIN text : LiveHeader(text[h]) /\ text[h].repo = r}

\* The "enabled=" lines of a section; the last one counts.
Flags(text, r) == {i \in Section(text, r) : text[i].is = "flag"}
Enabled(text, r) ==
  \A i \in Flags(text, r) : (\A j \in Flags(text, r) : j <= i) => text[i].on

\* listAptRepos, listPacmanRepos, parseDNFRepoFile: an apt line may be commented
\* out; a section of pacman.conf is always said to be enabled.
RowsOf(f) ==
  IF files[f] = Gone THEN {}
  ELSE {[file |-> f, line |-> i, repo |-> files[f][i].repo,
         enabled |-> CASE family = "apt" -> files[f][i].live
                       [] family = "pacman" -> TRUE
                       [] family = "dnf" -> Enabled(files[f], files[f][i].repo)] :
          i \in {j \in DOMAIN files[f] :
                   files[f][j].is = "source" \/ LiveHeader(files[f][j])}}

\* GET /api/packages/repos; when it fails the page keeps its rows.
ListRepos(t) ==
  /\ repoRows' = [repoRows EXCEPT ![t] = UNION {RowsOf(f) : f \in Files}]
  /\ current' = current \union {t}
  /\ UNCHANGED <<family, files, edit, clean, repos, edits>>

FirstStep(op, row) ==
  CASE op = "remove" /\ (family = "dnf" \/ (family = "apt" /\ row.file = "extra")) -> "count"
    [] op # "remove" /\ family = "dnf" -> "manager"
    [] OTHER -> "read"

\* toggleRepo and removeRepo of the page.  A removal from the main apt list
\* comments the line out.
AskChange(t) ==
  /\ edits < MaxEdits
  /\ edits' = edits + 1
  /\ edit[t].pc = "idle"
  /\ \E row \in repoRows[t] :
       \E op \in {IF row.enabled THEN "disable" ELSE "enable", "remove"} :
         LET comment == op = "remove" /\ family = "apt" /\ row.file = "main" IN
         edit' = [edit EXCEPT ![t] = [pc |-> FirstStep(op, row), row |-> row, text |-> Gone,
                                      op |-> IF comment THEN "disable" ELSE op]]
  /\ clean' = IF t \in current THEN clean \union {t} ELSE clean \ {t}
  /\ UNCHANGED <<family, files, repoRows, current, repos>>

\* The request of t goes on, or ends when its pc is idle.
Goes(t, pc, op, text) == edit' = [edit EXCEPT ![t] = [@ EXCEPT !.pc = pc, !.op = op, !.text = text]]
Ends(t) == edit' = [edit EXCEPT ![t] = NoEdit]

Change(t, f, text) ==
  /\ files' = [files EXCEPT ![f] = text]
  /\ clean' = IF text = files[f] THEN clean ELSE clean \intersect {t}

Sources(text) == IF family = "apt" THEN {i \in DOMAIN text : text[i].live}
                                   ELSE {i \in DOMAIN text : LiveHeader(text[i])}

\* removeAptRepo and removeDNFRepo: a file with at most one active line, or at most
\* one section, is removed; else the repository is disabled.
Count(t) ==
  LET text == files[edit[t].row.file] IN
  /\ edit[t].pc = "count"
  /\ IF text = Gone THEN Ends(t)
     ELSE IF Cardinality(Sources(text)) <= 1 THEN Goes(t, "unlink", "remove", Gone)
     ELSE Goes(t, "read", "disable", Gone)
  /\ UNCHANGED <<family, files, repoRows, current, clean, repos, edits>>

Unlink(t) ==
  /\ edit[t].pc = "unlink"
  /\ Change(t, edit[t].row.file, Gone)
  /\ Ends(t)
  /\ UNCHANGED <<family, repoRows, current, repos, edits>>

\* togglePacmanRepo: every line of the section; toggleAptRepo: the line;
\* editDNFRepoEnabled: the flags, or a new one below the header;
\* removePacmanRepo: header and section.
Edited(text, op, row) ==
  LET part == Section(text, row.repo)
      on == op = "enable"
  IN
  CASE family = "apt" -> [text EXCEPT ![row.line].live = on]
    [] family = "pacman" /\ op = "disable" ->
         [i \in DOMAIN text |-> IF i \in part THEN [text[i] EXCEPT !.live = FALSE] ELSE text[i]]
    [] family = "pacman" /\ op = "remove" ->
         FlattenSeq([i \in DOMAIN text |-> IF i \in part \union HeaderOf(text, row.repo)
                                           THEN <<>> ELSE <<text[i]>>])
    [] family = "dnf" /\ Flags(text, row.repo) # {} ->
         [i \in DOMAIN text |-> IF i \in Flags(text, row.repo) THEN Flag(row.repo, on) ELSE text[i]]
    [] family = "dnf" /\ Flags(text, row.repo) = {} ->
         FlattenSeq([i \in DOMAIN text |-> IF i \in HeaderOf(text, row.repo)
                                           THEN <<text[i], Flag(row.repo, on)>> ELSE <<text[i]>>])

\* toggleDNFRepo: `dnf config-manager --set-enabled ID`, which edits the file that
\* has the section; when it fails the file is edited here.
Manager(t) ==
  LET e == edit[t] IN
  /\ e.pc = "manager"
  /\ \/ /\ files[e.row.file] # Gone
        /\ HeaderOf(files[e.row.file], e.row.repo) # {}
        /\ Change(t, e.row.file, Edited(files[e.row.file], e.op, e.row))
        /\ Ends(t)
     \/ /\ Goes(t, "read", e.op, Gone)
        /\ UNCHANGED <<files, clean>>
  /\ UNCHANGED <<family, repoRows, current, repos, edits>>

\* os.ReadFile; an apt line number beyond the end is refused.
ReadFile(t) ==
  LET text == files[edit[t].row.file] IN
  /\ edit[t].pc = "read"
  /\ IF text = Gone \/ (family = "apt" /\ edit[t].row.line > Len(text))
     THEN Ends(t)
     ELSE Goes(t, "write", edit[t].op, text)
  /\ UNCHANGED <<family, files, repoRows, current, clean, repos, edits>>

\* os.WriteFile of what was read, edited; it creates a file that has gone.
WriteFile(t) ==
  /\ edit[t].pc = "write"
  /\ Change(t, edit[t].row.file, Edited(edit[t].text, edit[t].op, edit[t].row))
  /\ current' = IF edit[t].text = files[edit[t].row.file] THEN current ELSE {}
  /\ Ends(t)
  /\ UNCHANGED <<family, repoRows, repos, edits>>

\* POST /api/packages/repos: pacman's file is appended to, the others replace the
\* file of that name, whatever it holds.
AddRepo(t) ==
  /\ edits < MaxEdits /\ edits' = edits + 1
  /\ repos < MaxRepos /\ repos' = repos + 1
  /\ CASE family = "apt" -> files' = [files EXCEPT !["extra"] = <<Source(repos + 1, TRUE)>>]
       [] family = "pacman" -> files' = [files EXCEPT !["main"] =
                                   @ \o <<Header(repos + 1, TRUE), Setting(repos + 1, TRUE)>>]
       [] family = "dnf" -> files' = [files EXCEPT !["extra"] =
            <<Header(repos + 1, TRUE), Setting(repos + 1, TRUE), Flag(repos + 1, TRUE)>>]
  /\ current' = {} /\ clean' = {}
  /\ UNCHANGED <<family, repoRows, edit>>

RepoNext == \E t \in Viewers :
  \/ ListRepos(t) \/ AskChange(t) \/ Count(t) \/ Unlink(t)
  \/ Manager(t) \/ ReadFile(t) \/ WriteFile(t) \/ AddRepo(t)

RepoSpec == RepoInit /\ [][RepoNext]_repoVars

-----------------------------------------------------------------------------
\* The repositories the package manager uses.
Used ==
  LET text(f) == IF files[f] = Gone THEN <<>> ELSE files[f]
      uses(s, i) == CASE family = "apt" -> s[i].live
                      [] family = "pacman" -> /\ LiveHeader(s[i])
                                              /\ \E k \in Section(s, s[i].repo) : s[k].live
                      [] family = "dnf" -> LiveHeader(s[i]) /\ Enabled(s, s[i].repo)
  IN UNION {{text(f)[i].repo : i \in {j \in DOMAIN text(f) : uses(text(f), j)}} : f \in Files}

RepoTypeOK ==
  /\ family \in Families
  /\ \A f \in Files : files[f] # Gone =>
       \A i \in DOMAIN files[f] :
         /\ files[f][i].is \in {"source", "header", "setting", "flag", "note"}
         /\ files[f][i].repo \in 0..repos
  /\ \A t \in Viewers : \A row \in repoRows[t] :
       row.file \in Files /\ row.line \in Nat \ {0} /\ row.repo \in 1..repos
  /\ \A t \in Viewers : edit[t].pc = "write" => edit[t].text # Gone
  /\ repos \in 4..MaxRepos /\ edits \in 0..MaxEdits

\* A request of t changes a file, undisturbed since the click.
Lands(t) == t \in clean /\ edit[t].pc # "idle" /\ edit'[t].pc = "idle" /\ files' # files

OthersKept(row) == Used' \ {row.repo} = Used \ {row.repo}

(* A request switches on, or off, the repository of its row and no other,  *)
(* however old the page is, unless another request changed a file after    *)
(* the click or a repository was added after the page was loaded.  The     *)
(* removal of a disabled repository is left out: see RemovesOnlyIt.        *)
OnlyTheRepoShown ==
  [][\A t \in Viewers : Lands(t) =>
       LET e == edit[t] IN
       /\ e.row.repo \in Used' <=> e.op = "enable"
       /\ (e.pc # "unlink" \/ e.row.repo \in Used) => OthersKept(e.row)]_repoVars

(* A file is removed only when it has only the repository of the row.      *)
RemovesOnlyIt ==
  [][\A t \in Viewers : Lands(t) /\ edit[t].pc = "unlink" => OthersKept(edit[t].row)]_repoVars
=============================================================================
