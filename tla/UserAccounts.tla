---------------------------- MODULE UserAccounts ----------------------------
(***************************************************************************)
(* Users and groups (internal/system/users/users.go,                       *)
(* internal/api/handlers/users.go).                                        *)
(*                                                                         *)
(* The server reads /etc/passwd, /etc/shadow and /etc/group and changes    *)
(* them by the tools of the host, one command at a time.  A command that   *)
(* is refused, or fails, changes nothing.  To create a user takes two of   *)
(* them, useradd and chpasswd, between which other requests come.          *)
(***************************************************************************)
EXTENDS Naturals, FiniteSets

CONSTANTS
  Creators,     \* requests that create users
  Users,        \* names of users; "root" and "daemon" exist from the beginning
  Groups,       \* names of supplementary groups
  MaxCreated,   \* bound of the model: creations
  MaxCommands   \* bound of the model: other commands

ASSUME UserAssumption ==
  /\ {"root", "daemon"} \subseteq Users
  /\ MaxCreated \in Nat /\ MaxCommands \in Nat

VARIABLES
  account,   \* name -> the account, or NoAccount
  members,   \* group -> its members, for the groups that exist
  create,    \* request -> what it is about to do, and for whom
  creations,   \* number of creations so far
  commands,  \* number of other commands so far
  held       \* history: accounts locked since nobody was giving them a password

userVars == <<account, members, create, creations, commands, held>>

\* The second field of /etc/shadow: a hash, a hash or a star behind "!", or a mark
\* that no password fits.
Locks == {"!", "!!", "!hash", "!*"}
Entries == {"", "hash", "*"} \union Locks

NoAccount == [entry |-> "none", system |-> FALSE]
NoCreation == [pc |-> "idle", name |-> "root"]

UserInit ==
  /\ account = [u \in Users |->
       CASE u = "root" -> [entry |-> "hash", system |-> FALSE]
         [] u = "daemon" -> [entry |-> "*", system |-> TRUE]
         [] OTHER -> NoAccount]
  /\ members = [g \in {} |-> {}]
  /\ create = [q \in Creators |-> NoCreation]
  /\ creations = 0 /\ commands = 0
  /\ held = {}

Exists(u) == account[u] # NoAccount

-----------------------------------------------------------------------------
\* POST /api/users, with a password or without.
CreateUser(q, u) ==
  /\ creations < MaxCreated
  /\ create[q].pc = "idle"
  /\ \E pc \in {"useradd", "useradd only"} : create' = [create EXCEPT ![q] = [pc |-> pc, name |-> u]]
  /\ creations' = creations + 1
  /\ UNCHANGED <<account, members, commands, held>>

\* Slip: the error of useradd is taken to mean that the user is there already.
UseraddGoesOn(q) ==
  LET u == create[q].name IN
  /\ create[q].pc \in {"useradd", "useradd only"}
  /\ IF Exists(u) THEN UNCHANGED <<account, members>>
     ELSE /\ account' = [account EXCEPT ![u] = [entry |-> "!", system |-> FALSE]]
          /\ UNCHANGED members
  /\ create' = [create EXCEPT ![q].pc = IF @ = "useradd" THEN "chpasswd" ELSE "idle"]
  /\ UNCHANGED <<creations, commands, held>>

\* useradd with --groups and --system; the new entry of the shadow file depends on
\* the distribution.  When it fails, no password is set.
Useradd(q) ==
  LET u == create[q].name IN
  /\ create[q].pc \in {"useradd", "useradd only"}
  /\ \/ /\ ~Exists(u)
        /\ \E in \in SUBSET DOMAIN members, entry \in {"!", "!!"}, system \in BOOLEAN :
             /\ account' = [account EXCEPT ![u] = [entry |-> entry, system |-> system]]
             /\ members' = [g \in DOMAIN members |->
                  IF g \in in THEN members[g] \union {u} ELSE members[g]]
        /\ create' = [create EXCEPT ![q].pc = IF @ = "useradd" THEN "chpasswd" ELSE "idle"]
     \/ /\ create' = [create EXCEPT ![q] = NoCreation]
        /\ UNCHANGED <<account, members>>
  /\ UNCHANGED <<creations, commands, held>>

\* setPassword, for whoever has the name now; a failure leaves the user without one.
Chpasswd(q) ==
  LET u == create[q].name IN
  /\ create[q].pc = "chpasswd"
  /\ \/ Exists(u) /\ account' = [account EXCEPT ![u].entry = "hash"]
     \/ UNCHANGED account
  /\ create' = [create EXCEPT ![q] = NoCreation]
  /\ UNCHANGED <<members, creations, commands, held>>

-----------------------------------------------------------------------------
UserCommand ==
  /\ commands < MaxCommands
  /\ commands' = commands + 1
  /\ UNCHANGED <<create, creations>>

\* usermod --lock puts a "!" in front, where there is none.
Locked(e) == CASE e = "hash" -> "!hash" [] e = "*" -> "!*" [] e = "" -> "!" [] OTHER -> e

LockUser(u) ==
  /\ UserCommand /\ Exists(u)
  /\ account' = [account EXCEPT ![u].entry = Locked(@)]
  /\ held' = IF \E q \in Creators : create[q] = [pc |-> "chpasswd", name |-> u]
             THEN held ELSE held \union {u}
  /\ UNCHANGED members

\* usermod --unlock takes one "!" away, and refuses to leave nothing.
Unlocked(e) == CASE e = "!hash" -> "hash" [] e = "!*" -> "*" [] e = "!!" -> "!" [] OTHER -> e

UnlockUser(u) ==
  /\ UserCommand /\ Exists(u) /\ account[u].entry # "!"
  /\ account' = [account EXCEPT ![u].entry = Unlocked(@)]
  /\ held' = held \ {u}
  /\ UNCHANGED members

\* userdel, which takes the user out of the groups.
DeleteUser(u) ==
  /\ UserCommand /\ Exists(u) /\ u # "root"
  /\ account' = [account EXCEPT ![u] = NoAccount]
  /\ members' = [g \in DOMAIN members |-> members[g] \ {u}]
  /\ held' = held \ {u}

\* usermod --append --groups.
AddToGroup(u, g) ==
  /\ UserCommand /\ Exists(u) /\ g \in DOMAIN members
  /\ members' = [members EXCEPT ![g] = @ \union {u}]
  /\ UNCHANGED <<account, held>>

CreateGroup(g) ==
  /\ UserCommand /\ g \notin DOMAIN members
  /\ members' = [h \in DOMAIN members \union {g} |-> IF h = g THEN {} ELSE members[h]]
  /\ UNCHANGED <<account, held>>

DeleteGroup(g) ==
  /\ UserCommand /\ g \in DOMAIN members
  /\ members' = [h \in DOMAIN members \ {g} |-> members[h]]
  /\ UNCHANGED <<account, held>>

UserNext ==
  \/ \E q \in Creators : Useradd(q) \/ Chpasswd(q) \/ \E u \in Users : CreateUser(q, u)
  \/ \E u \in Users : LockUser(u) \/ UnlockUser(u) \/ DeleteUser(u)
  \/ \E u \in Users, g \in Groups : AddToGroup(u, g)
  \/ \E g \in Groups : CreateGroup(g) \/ DeleteGroup(g)

UserSpec == UserInit /\ [][UserNext]_userVars

-----------------------------------------------------------------------------
\* ListUsers: what the page says of a user (parsePasswd, parseShadow,
\* parseGroupMembership).
AccountRow(u) ==
  [locked |-> account[u].entry \in Locks,
   hasPassword |-> account[u].entry \notin {"", "*", "!", "!!"},
   groups |-> {g \in DOMAIN members : u \in members[g]}]

\* The rows of a page that shows system users, or hides them.
ListUsers(includeSystem) == {u \in Users : Exists(u) /\ (includeSystem \/ ~account[u].system)}

UserTypeOK ==
  /\ \A u \in Users : Exists(u) => account[u].entry \in Entries
  /\ DOMAIN members \subseteq Groups
  /\ \A q \in Creators : create[q].name \in Users
  /\ creations \in 0..MaxCreated /\ commands \in 0..MaxCommands
  /\ held \subseteq Users

(* A lock holds until the account is unlocked or deleted, whatever users   *)
(* are created meanwhile, unless its creation was still setting a password *)
(* when it was locked.                                                     *)
LockHolds == \A u \in held : account[u].entry \in Locks

(* The page says of exactly the users who have a password that lets them   *)
(* in that they have one and are not locked, and of no group that it has   *)
(* a member who is gone.                                                   *)
RowsTellLogins ==
  /\ \A u \in ListUsers(TRUE) :
       (AccountRow(u).hasPassword /\ ~AccountRow(u).locked) <=> account[u].entry = "hash"
  /\ \A u \in Users \ ListUsers(TRUE) : AccountRow(u).groups = {}

(* Both: who can log in is what the administrator was told last.           *)
LoginsAreAsTold == LockHolds /\ RowsTellLogins
=============================================================================
