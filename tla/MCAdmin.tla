------------------------------- MODULE MCAdmin -------------------------------
(***************************************************************************)
(* What the pages edit in files and databases, for TLC: a behaviour picks  *)
(* one of the parts, which share no state, and the others rest, so that    *)
(* one run explores the sum of their state spaces and not the product. For *)
(* the same reason the same two model values stand for the users of every  *)
(* part.                                                                   *)
(***************************************************************************)
EXTENDS CronTable, FirewallRules, DbConnections, ConfigEditor, TlsPair, RepoFiles, UserAccounts,
        Files, TLC

VARIABLE part

adminVars == <<part, cronVars, fwVars, dbVars, confVars, tlsVars, repoVars, userVars,
               fileVars>>

\* What a part that rests starts from is of no interest.
Init ==
  /\ part \in {"cron", "firewall", "databases", "config", "tls", "repositories", "users",
              "files"}
  /\ CronInit /\ (part = "cron" \/ crontab = "file")
  /\ FwInit /\ (part = "firewall" \/ backend = "ufw")
  /\ ConfInit /\ (part = "config" \/ server = "nginx")
  /\ RepoInit /\ (part = "repositories" \/ family = "apt")
  /\ DbInit /\ TlsInit /\ UserInit
  /\ FilesInit /\ (part = "files" \/ \A f \in FileNames : disk[f] = f)

Only(p) ==
  /\ UNCHANGED part
  /\ IF p = "cron" THEN TRUE ELSE UNCHANGED cronVars
  /\ IF p = "firewall" THEN TRUE ELSE UNCHANGED fwVars
  /\ IF p = "databases" THEN TRUE ELSE UNCHANGED dbVars
  /\ IF p = "config" THEN TRUE ELSE UNCHANGED confVars
  /\ IF p = "tls" THEN TRUE ELSE UNCHANGED tlsVars
  /\ IF p = "repositories" THEN TRUE ELSE UNCHANGED repoVars
  /\ IF p = "users" THEN TRUE ELSE UNCHANGED userVars
  /\ IF p = "files" THEN TRUE ELSE UNCHANGED fileVars

Next ==
  \/ part = "cron" /\ CronNext /\ Only("cron")
  \/ part = "firewall" /\ FwNext /\ Only("firewall")
  \/ part = "databases" /\ DbNext /\ Only("databases")
  \/ part = "config" /\ ConfNext /\ Only("config")
  \/ part = "tls" /\ TlsNext /\ Only("tls")
  \/ part = "repositories" /\ RepoNext /\ Only("repositories")
  \/ part = "users" /\ UserNext /\ Only("users")
  \/ part = "files" /\ FilesNext /\ Only("files")

Spec == Init /\ [][Next]_adminVars

(* The variables of every part keep their types: among others, a text ends *)
(* with a newline, a closed pool has no free connection, and a web server  *)
(* never runs with a configuration that has errors.                        *)
AdminTypeOK ==
  CASE part = "cron" -> CronTypeOK
    [] part = "firewall" -> FwTypeOK
    [] part = "databases" -> DbTypeOK
    [] part = "config" -> ConfTypeOK
    [] part = "tls" -> TlsTypeOK
    [] part = "repositories" -> RepoTypeOK
    [] part = "users" -> UserTypeOK
    [] part = "files" -> FilesTypeOK

(* Three of the pages address a row by its position in a text that may     *)
(* have changed since. What they change is the job, the rule or the        *)
(* repository of the row that was clicked, and no other, in the cases that *)
(* the three properties name.                                              *)
OnlyWhatIsShown == OnlyTheJobShown /\ OnlyTheRuleShown /\ OnlyTheRepoShown

Symmetry == Permutations(Tabs) \union Permutations(Databases)
=============================================================================
