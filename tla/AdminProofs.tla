---------------------------- MODULE AdminProofs ----------------------------
(***************************************************************************)
(* Proofs about what the pages edit in files and databases: the accounts,  *)
(* the self-signed certificate, the configuration of a web server, the     *)
(* connections of the database browser, the crontab, the file manager, the *)
(* firewall and the package repositories.  Each part has a specification   *)
(* of its own; the end joins them as MCAdmin does.                         *)
(***************************************************************************)
EXTENDS MCAdmin, DataLemmas, TLAPS

-----------------------------------------------------------------------------
(* Users and groups.  A lock that is held is held by an account that is    *)
(* locked and to which nobody is about to give a password: chpasswd, the   *)
(* second command of a creation, is what would undo it.                    *)

UserShape ==
  /\ account \in [Users -> [entry : Entries \union {"none"}, system : BOOLEAN]]
  /\ \A u \in Users : account[u].entry = "none" => ~account[u].system
  /\ create \in [Creators -> [pc : {"idle", "useradd", "useradd only", "chpasswd"}, name : Users]]
  /\ DOMAIN members \subseteq Groups
  /\ creations \in 0..MaxCreated /\ commands \in 0..MaxCommands

MembersExist == \A g \in DOMAIN members : \A u \in members[g] : u \in Users /\ account[u].entry # "none"

LocksHeld ==
  \A u \in held :
    /\ u \in Users /\ account[u].entry \in Locks
    /\ \A q \in Creators : create[q].pc = "chpasswd" => create[q].name # u

UserInv == UserShape /\ MembersExist /\ LocksHeld

\* An account exists if its entry in the shadow file does.
LEMMA ExistsByEntry ==
  ASSUME UserShape, NEW u \in Users
  PROVE  Exists(u) <=> account[u].entry # "none"
<1>1. CASE account[u].entry = "none"
  <2>1. account[u] \in [entry : Entries \union {"none"}, system : BOOLEAN] /\ ~account[u].system
    BY <1>1, Zenon DEF UserShape
  <2>2. account[u].system = FALSE
    BY <2>1
  <2>3. account[u] = [entry |-> "none", system |-> FALSE]
    BY <1>1, <2>1, <2>2, Zenon
  <2>4. QED
    BY <1>1, <2>3 DEF Exists, NoAccount
<1>2. CASE account[u].entry # "none"
  <2>1. NoAccount.entry = "none"
    BY DEF NoAccount
  <2>2. QED
    BY <1>2, <2>1 DEF Exists
<1>3. QED
  BY <1>1, <1>2

\* No bound of the model is passed.
LEMMA CommandCounted ==
  ASSUME UserShape, UserCommand
  PROVE  commands' \in 0..MaxCommands /\ UNCHANGED <<create, creations>>
<1>1. commands \in 0..MaxCommands /\ commands < MaxCommands /\ commands' = commands + 1
  BY Zenon DEF UserShape, UserCommand
<1>2. QED
  BY <1>1, UserAssumption DEF UserCommand

LEMMA CreationCounted ==
  ASSUME creations \in 0..MaxCreated, creations < MaxCreated, creations' = creations + 1
  PROVE  creations' \in 0..MaxCreated
<1>1. MaxCreated \in Nat
  BY UserAssumption
<1>2. QED
  BY <1>1

LEMMA UserInitial == UserInit => UserInv
<1> SUFFICES ASSUME UserInit
             PROVE  UserInv
  OBVIOUS
<1>1. \A u \in Users : /\ account[u] \in [entry : Entries \union {"none"}, system : BOOLEAN]
                       /\ account[u].entry = "none" => ~account[u].system
  BY DEF UserInit, NoAccount, Entries, Locks
<1>2. account \in [Users -> [entry : Entries \union {"none"}, system : BOOLEAN]]
  BY <1>1 DEF UserInit
<1>3. QED
  BY <1>1, <1>2, UserAssumption DEF UserInit, UserInv, UserShape, MembersExist, LocksHeld, NoCreation

LEMMA UserStep == UserInv /\ [UserNext]_userVars => UserInv'
<1> SUFFICES ASSUME UserInv, [UserNext]_userVars
             PROVE  UserInv'
  OBVIOUS
<1> USE DEF UserInv
<1>0. \A e \in Entries : e # "none" /\ Locked(e) \in Locks /\ Unlocked(e) \in Entries
  BY Zenon DEF Entries, Locks, Locked, Unlocked
<1>1. Locks \subseteq Entries /\ "none" \notin Entries /\ "hash" \in Entries
  BY DEF Entries, Locks
<1>2. ASSUME NEW q \in Creators, NEW u \in Users, CreateUser(q, u) PROVE UserInv'
  <2>1. PICK pc \in {"useradd", "useradd only"} :
           create' = [create EXCEPT ![q] = [pc |-> pc, name |-> u]]
    BY <1>2, Zenon DEF CreateUser
  <2>2. creations' \in 0..MaxCreated /\ UNCHANGED <<account, members, commands, held>>
    <3>1. creations \in 0..MaxCreated /\ creations < MaxCreated /\ creations' = creations + 1
      BY <1>2, Zenon DEF CreateUser, UserShape
    <3>2. creations' \in 0..MaxCreated
      BY <3>1, CreationCounted, Zenon
    <3>3. QED
      BY <1>2, <3>2, Zenon DEF CreateUser
  <2>3. QED
    BY <2>1, <2>2, Zenon DEF UserShape, MembersExist, LocksHeld
<1>3. ASSUME NEW q \in Creators, Useradd(q) PROVE UserInv'
  <2> DEFINE u == create[q].name
  <2>1. u \in Users /\ UNCHANGED <<creations, commands, held>>
    BY <1>3, Zenon DEF Useradd, UserShape
  <2>2. CASE /\ create' = [create EXCEPT ![q] = NoCreation]
             /\ UNCHANGED <<account, members>>
    BY <2>1, <2>2, UserAssumption, Zenon DEF UserShape, MembersExist, LocksHeld, NoCreation
  <2>3. ASSUME ~Exists(u),
               NEW in \in SUBSET DOMAIN members, NEW entry \in {"!", "!!"}, NEW system \in BOOLEAN,
               account' = [account EXCEPT ![u] = [entry |-> entry, system |-> system]],
               members' = [g \in DOMAIN members |->
                  IF g \in in THEN members[g] \union {u} ELSE members[g]],
               create' = [create EXCEPT ![q].pc = IF @ = "useradd" THEN "chpasswd" ELSE "idle"]
        PROVE  UserInv'
    <3>1. account[u].entry = "none" /\ u \notin held
      BY <1>1, <2>1, <2>3, ExistsByEntry DEF LocksHeld
    <3>2. entry \in Entries /\ entry # "none"
      BY Zenon DEF Entries, Locks
    <3>3. UserShape'
      BY <2>1, <2>3, <3>2, Zenon DEF UserShape
    <3>4. \A v \in Users : account[v].entry # "none" => account'[v] = account[v]
      BY <2>1, <2>3, <3>1, Zenon DEF UserShape
    <3>5. MembersExist'
      <4>1. account'[u].entry # "none"
        BY <2>1, <2>3, <3>2, Zenon DEF UserShape
      <4>2. QED
        BY <2>1, <2>3, <3>4, <4>1 DEF MembersExist
    <3>6. \A p \in Creators : /\ create'[p].name = create[p].name
                              /\ create'[p].pc = "chpasswd" => p = q \/ create[p].pc = "chpasswd"
      BY <2>3, Zenon DEF UserShape
    <3>7. LocksHeld'
      BY <1>1, <2>1, <3>1, <3>4, <3>6 DEF LocksHeld
    <3>8. QED
      BY <3>3, <3>5, <3>7
  <2>4. QED
    BY <1>3, <2>2, <2>3, Zenon DEF Useradd
<1>4. ASSUME NEW q \in Creators, Chpasswd(q) PROVE UserInv'
  <2> DEFINE u == create[q].name
  <2>1. /\ u \in Users /\ u \notin held /\ create[q].pc = "chpasswd"
        /\ create' = [create EXCEPT ![q] = NoCreation]
        /\ UNCHANGED <<members, creations, commands, held>>
        /\ \/ Exists(u) /\ account' = [account EXCEPT ![u].entry = "hash"]
           \/ UNCHANGED account
    BY <1>4, Zenon DEF Chpasswd, UserShape, LocksHeld
  <2>2. /\ account' \in [Users -> [entry : Entries \union {"none"}, system : BOOLEAN]]
        /\ \A v \in Users : account[v].entry # "none" => account'[v].entry # "none"
        /\ \A v \in Users : account'[v].entry = "none" => account'[v] = account[v]
        /\ \A v \in Users \ {u} : account'[v] = account[v]
    <3>1. CASE UNCHANGED account
      BY <3>1, Zenon DEF UserShape
    <3>2. CASE Exists(u) /\ account' = [account EXCEPT ![u].entry = "hash"]
      BY <1>1, <2>1, <3>2, Zenon DEF UserShape
    <3>3. QED
      BY <2>1, <3>1, <3>2
  <2>3. UserShape'
    BY <2>1, <2>2, UserAssumption, Zenon DEF UserShape, NoCreation
  <2>4. MembersExist' /\ LocksHeld'
    BY <2>1, <2>2, Zenon DEF UserShape, MembersExist, LocksHeld, NoCreation
  <2>5. QED
    BY <2>3, <2>4
<1>5. ASSUME NEW u \in Users, LockUser(u) PROVE UserInv'
  <2>1. account[u].entry \in Entries /\ Locked(account[u].entry) \in Locks
    BY <1>0, <1>5, ExistsByEntry, Zenon DEF LockUser, UserShape
  <2>2. /\ account' = [account EXCEPT ![u].entry = Locked(account[u].entry)]
        /\ UNCHANGED <<create, creations, members>> /\ commands' \in 0..MaxCommands
        /\ \/ held' = held
           \/ /\ held' = held \union {u}
              /\ ~\E q \in Creators : create[q] = [pc |-> "chpasswd", name |-> u]
    BY <1>5, CommandCounted DEF LockUser
  <2>3. /\ account' \in [Users -> [entry : Entries \union {"none"}, system : BOOLEAN]]
        /\ account'[u].entry \in Locks /\ account'[u].entry # "none"
        /\ \A v \in Users \ {u} : account'[v] = account[v]
    BY <1>1, <2>1, <2>2, Zenon DEF UserShape
  <2>4. UserShape' /\ MembersExist'
    BY <2>2, <2>3, Zenon DEF UserShape, MembersExist
  <2>5. \A q \in Creators : create[q].pc = "chpasswd" /\ create[q].name = u
                            => create[q] = [pc |-> "chpasswd", name |-> u]
    BY Zenon DEF UserShape
  <2>6. LocksHeld'
    BY <2>2, <2>3, <2>5 DEF LocksHeld
  <2>7. QED
    BY <2>4, <2>6
<1>6. ASSUME NEW u \in Users, UnlockUser(u) PROVE UserInv'
  <2>1. account[u].entry \in Entries /\ Unlocked(account[u].entry) \in Entries
    BY <1>0, <1>6, ExistsByEntry, Zenon DEF UnlockUser, UserShape
  <2>2. /\ account' = [account EXCEPT ![u].entry = Unlocked(account[u].entry)]
        /\ UNCHANGED <<create, creations, members>> /\ commands' \in 0..MaxCommands
        /\ held' = held \ {u}
    BY <1>6, CommandCounted DEF UnlockUser
  <2>3. /\ account' \in [Users -> [entry : Entries \union {"none"}, system : BOOLEAN]]
        /\ account'[u].entry # "none"
        /\ \A v \in Users \ {u} : account'[v] = account[v]
    BY <1>1, <2>1, <2>2, Zenon DEF UserShape
  <2>4. UserShape' /\ MembersExist'
    BY <2>2, <2>3, Zenon DEF UserShape, MembersExist
  <2>5. LocksHeld'
    BY <2>2, <2>3 DEF LocksHeld
  <2>6. QED
    BY <2>4, <2>5
<1>7. ASSUME NEW u \in Users, DeleteUser(u) PROVE UserInv'
  <2>1. /\ account' = [account EXCEPT ![u] = NoAccount]
        /\ members' = [g \in DOMAIN members |-> members[g] \ {u}]
        /\ held' = held \ {u}
        /\ UNCHANGED <<create, creations>> /\ commands' \in 0..MaxCommands
    BY <1>7, CommandCounted DEF DeleteUser
  <2>2. QED
    BY <2>1, Zenon DEF UserShape, MembersExist, LocksHeld, NoAccount
<1>8. ASSUME NEW u \in Users, NEW g \in Groups, AddToGroup(u, g) PROVE UserInv'
  <2>1. /\ members' = [members EXCEPT ![g] = @ \union {u}]
        /\ UNCHANGED <<account, held, create, creations>> /\ commands' \in 0..MaxCommands
        /\ account[u].entry # "none"
    BY <1>8, CommandCounted, ExistsByEntry DEF AddToGroup
  <2>2. QED
    BY <2>1, Zenon DEF UserShape, MembersExist, LocksHeld
<1>9. ASSUME NEW g \in Groups, CreateGroup(g) \/ DeleteGroup(g) PROVE UserInv'
  <2>1. UNCHANGED <<account, held, create, creations>> /\ commands' \in 0..MaxCommands
    BY <1>9, CommandCounted DEF CreateGroup, DeleteGroup
  <2>2. /\ DOMAIN members' \subseteq DOMAIN members \union {g}
        /\ \A h \in DOMAIN members' : members'[h] \in {{}, members[h]}
                                     /\ (h \notin DOMAIN members => members'[h] = {})
    BY <1>9 DEF CreateGroup, DeleteGroup
  <2>3. QED
    BY <2>1, <2>2, Zenon DEF UserShape, MembersExist, LocksHeld
<1>10. CASE UNCHANGED userVars
  BY <1>10, Zenon DEF userVars, UserShape, MembersExist, LocksHeld
<1>11. QED
  BY <1>2, <1>3, <1>4, <1>5, <1>6, <1>7, <1>8, <1>9, <1>10 DEF UserNext

\* A lock of the page holds until it is undone, and the rows of the page say who can
\* log in, for any users, groups and creations at the same time.
THEOREM LoginsAlwaysAsTold == UserSpec => []LoginsAreAsTold
<1>1. UserInv => LoginsAreAsTold
  <2> SUFFICES ASSUME UserInv
               PROVE  LoginsAreAsTold
    OBVIOUS
  <2> USE DEF UserInv
  <2>1. LockHolds
    BY DEF LocksHeld, LockHolds
  <2>2. ASSUME NEW u \in Users, Exists(u)
        PROVE  AccountRow(u).hasPassword /\ ~AccountRow(u).locked <=> account[u].entry = "hash"
    <3>1. account[u].entry \in Entries
      BY <2>2, ExistsByEntry, Zenon DEF UserShape
    <3>2. QED
      BY <3>1, Zenon DEF AccountRow, Entries, Locks
  <2>3. ASSUME NEW u \in Users, ~Exists(u)
        PROVE  AccountRow(u).groups = {}
    <3>1. account[u].entry = "none"
      BY <2>3, ExistsByEntry
    <3>2. QED
      BY <3>1 DEF AccountRow, MembersExist
  <2>4. QED
    BY <2>1, <2>2, <2>3 DEF LoginsAreAsTold, RowsTellLogins, ListUsers
<1>2. QED
  BY <1>1, UserInitial, UserStep, PTL DEF UserSpec

\* The names, entries and counters of the accounts keep their types.
THEOREM UserTypeCorrect == UserSpec => []UserTypeOK
<1>1. UserInv => UserTypeOK
  <2> SUFFICES ASSUME UserInv
               PROVE  UserTypeOK
    OBVIOUS
  <2>1. \A u \in Users : Exists(u) => account[u].entry \in Entries
    BY ExistsByEntry, Zenon DEF UserInv, UserShape
  <2>2. QED
    BY <2>1, Zenon DEF UserInv, UserShape, LocksHeld, UserTypeOK
<1>2. QED
  BY <1>1, UserInitial, UserStep, PTL DEF UserSpec

-----------------------------------------------------------------------------
(* The certificate.  While a start writes the two files, only the last     *)
(* pair is in doubt; what was served before is in both files until then.   *)

TlsInv ==
  /\ TlsTypeOK
  /\ PairMatches
  /\ starting \in {"certificate", "written", "key"} => pairs # 0
  /\ starting \in {"written", "key"} => certFile = pairs
  /\ kept # 0 => /\ starting \in {"down", "up"}
                 /\ certFile = kept /\ keyFile = kept

LEMMA TlsInitial == TlsInit => TlsInv
BY TlsAssumption DEF TlsInit, TlsInv, TlsTypeOK, PairMatches, NotServing, Pairs

LEMMA TlsStep == TlsInv /\ [TlsNext]_tlsVars => TlsInv'
<1> SUFFICES ASSUME TlsInv, [TlsNext]_tlsVars
             PROVE  TlsInv'
  OBVIOUS
<1> USE TlsAssumption DEF TlsInv, TlsTypeOK, PairMatches, Pairs
<1>1. CASE LoadPair
  BY <1>1 DEF LoadPair, Usable
<1>2. CASE Generate
  <2>1. pairs + 1 \in Pairs /\ today + Lifetime \in Lifetime..(LastDay + Lifetime)
    BY <1>2 DEF Generate
  <2>2. /\ expires' \in [Pairs -> 0..(LastDay + Lifetime)]
        /\ \A p \in Pairs : expires'[p] = IF p = pairs + 1 THEN today + Lifetime ELSE expires[p]
    BY <1>2, <2>1 DEF Generate
  <2>3. QED
    BY <1>2, <2>1, <2>2 DEF Generate
<1>3. CASE WriteCertificate \/ OpenKey
  <2>1. /\ starting \in {"certificate", "written"} /\ starting' \in {"written", "key"}
        /\ certFile' = pairs /\ keyFile' \in {0, keyFile}
        /\ UNCHANGED <<today, expires, pairs, served, kept>>
    BY <1>3 DEF WriteCertificate, OpenKey
  <2>2. kept = 0 /\ pairs # 0
    BY <2>1
  <2>3. QED
    BY <2>1, <2>2
<1>4. CASE WriteKey
  BY <1>4 DEF WriteKey
<1>5. CASE Stop
  BY <1>5 DEF Stop, NotServing
<1>6. CASE NewDay
  BY <1>6 DEF NewDay
<1>7. CASE UNCHANGED tlsVars
  BY <1>7 DEF tlsVars
<1>8. QED
  BY <1>1, <1>2, <1>3, <1>4, <1>5, <1>6, <1>7, Zenon DEF TlsNext

\* A server that is up serves a pair, the one in the files; and the certificate only
\* changes when it is about to expire, wherever a start is killed.
THEOREM PairAlwaysKept == TlsSpec => PairKept
<1>1. TlsInv /\ [TlsNext]_tlsVars =>
        [/\ starting' = "up" /\ starting = "down" =>
               /\ expires[served'.cert] > today + Margin
               /\ kept # 0 => served'.cert = kept
         /\ pairs' # pairs /\ kept # 0 => expires[kept] <= today + Margin]_tlsVars
  <2> SUFFICES ASSUME TlsInv, TlsNext
               PROVE  /\ starting' = "up" /\ starting = "down" =>
                           /\ expires[served'.cert] > today + Margin
                           /\ kept # 0 => served'.cert = kept
                      /\ pairs' # pairs /\ kept # 0 => expires[kept] <= today + Margin
    OBVIOUS
  <2>1. CASE LoadPair
    BY <2>1 DEF LoadPair, Usable, TlsInv
  <2>2. CASE Generate
    BY <2>2, TlsAssumption DEF Generate, Usable, TlsInv, TlsTypeOK, Pairs
  <2>3. CASE WriteCertificate \/ OpenKey \/ WriteKey \/ Stop \/ NewDay
    BY <2>3 DEF WriteCertificate, OpenKey, WriteKey, Stop, NewDay
  <2>4. QED
    BY <2>1, <2>2, <2>3 DEF TlsNext
<1>2. TlsInv' => [PairMatches']_tlsVars
  BY DEF TlsInv
<1>3. QED
  BY <1>1, <1>2, TlsInitial, TlsStep, PTL DEF TlsSpec, PairKept, CertificateStable

-----------------------------------------------------------------------------
(* The configuration of a web server.                                      *)

\* While no two saves overlap, the temporary file is that of the save under way, and
\* what has been tested has no errors.
ConfInv ==
  /\ ConfTypeOK
  /\ saving \in [Editors -> [phase : {"idle", "written", "tested"}, text : Text]]
  /\ ~overlapped =>
       /\ \A e, f \in Editors : saving[e].phase # "idle" /\ saving[f].phase # "idle" => e = f
       /\ server = "nginx" => live.good
       /\ \A e \in Editors : saving[e].phase = "tested" /\ server = "nginx" =>
            temp # NoFile /\ temp.good

LEMMA ConfStep == ConfInv /\ [ConfNext]_confVars => ConfInv'
<1> SUFFICES ASSUME ConfInv, [ConfNext]_confVars
             PROVE  ConfInv'
  OBVIOUS
<1> USE ConfigAssumption DEF ConfInv, ConfTypeOK, NotSaving, FirstText, EndSave
<1>1. CASE Reload
  BY <1>1 DEF Reload
<1>2. ASSUME NEW e \in Editors, WriteTemp(e) PROVE ConfInv'
  <2>1. PICK good \in BOOLEAN :
          /\ temp' = [save |-> saves + 1, good |-> good]
          /\ saving' = [saving EXCEPT ![e] = [phase |-> "written",
                                              text |-> [save |-> saves + 1, good |-> good]]]
    BY <1>2, Zenon DEF WriteTemp
  <2>2. saves + 1 \in 0..MaxSaves /\ [save |-> saves + 1, good |-> good] \in Text
    BY <1>2 DEF WriteTemp, Text
  <2>3. QED
    BY <1>2, <2>1, <2>2, Zenon DEF WriteTemp
<1>3. ASSUME NEW e \in Editors, TestSucceeds(e) PROVE ConfInv'
  <2>1. /\ saving[e].phase = "written" /\ saving' = [saving EXCEPT ![e].phase = "tested"]
        /\ UNCHANGED <<server, live, temp, running, saves, overlapped>>
        /\ server = "nginx" => temp # NoFile /\ temp.good
    BY <1>3, Zenon DEF TestSucceeds, TestPasses
  <2>2. QED
    BY <2>1
<1>4. ASSUME NEW e \in Editors, TestFails(e) PROVE ConfInv'
  BY <1>4 DEF TestFails, Text
<1>5. ASSUME NEW e \in Editors, Rename(e) PROVE ConfInv'
  BY <1>5 DEF Rename, Text
<1>6. CASE UNCHANGED confVars
  BY <1>6 DEF confVars
<1>7. QED
  BY <1>1, <1>2, <1>3, <1>4, <1>5, <1>6 DEF ConfNext

LEMMA AlwaysConfInv == ConfSpec => []ConfInv
<1>1. ConfInit => ConfInv
  <2>1. FirstText \in Text /\ FirstText.good
    BY ConfigAssumption DEF FirstText, Text
  <2> SUFFICES ASSUME ConfInit
               PROVE  ConfInv
    OBVIOUS
  <2>2. saving \in [Editors -> [phase : {"idle", "written", "tested"}, text : Text]]
    BY <2>1 DEF ConfInit, NotSaving
  <2>3. \A e \in Editors : saving[e].phase = "idle"
    BY DEF ConfInit, NotSaving
  <2>4. 0 \in 0..MaxSaves
    BY ConfigAssumption
  <2>5. ConfTypeOK
    BY <2>1, <2>2, <2>4, Zenon DEF ConfInit, ConfTypeOK
  <2>6. QED
    BY <2>1, <2>2, <2>3, <2>5 DEF ConfInit, ConfInv
<1>2. QED
  BY <1>1, ConfStep, PTL DEF ConfSpec

\* No save with errors replaces a working configuration of nginx, for any number of
\* editors and saves, as long as no two saves overlap.
THEOREM AloneAlwaysGood == ConfSpec => []SavedAloneIsGood
<1>1. ConfInv => SavedAloneIsGood
  BY DEF ConfInv, SavedAloneIsGood
<1>2. QED
  BY <1>1, AlwaysConfInv, PTL

-----------------------------------------------------------------------------
(* The connections of the database browser.                                *)

Names == Databases \union {NoDb}
Pools == Seq(Names)
Phases == {"idle", "dialed", "loaded", "using", "used", "running", "closing", "deleting"}
Requests == [phase : Phases, driver : Drivers, object : Nat, want : Names, on : Names,
             alone : BOOLEAN]
Busy == {"loaded", "using", "used", "running"}

DbShape ==
  /\ connections \in [Drivers -> Nat]
  /\ dialed \in Seq(Drivers) /\ Len(dialed) <= MaxDials
  /\ free \in Seq(Pools) /\ Len(free) = Len(dialed)
  /\ alive \subseteq Objects /\ abandoned \subseteq Objects
  /\ serving \in [Queries -> Requests]
  /\ \A q \in Queries : serving[q].phase = "idle" => serving[q].object = 0
  /\ asked \in 0..MaxQueries

\* The map and the requests hold objects of the driver they are for.
OwnDriver ==
  /\ \A d \in Drivers :
       connections[d] # 0 => connections[d] \in Objects /\ dialed[connections[d]] = d
  /\ \A q \in Queries :
       serving[q].phase # "idle" =>
         serving[q].object \in Objects /\ dialed[serving[q].object] = serving[q].driver

\* An object that was dialed and is to be stored is nobody else's.
DialedIsOwn ==
  \A q \in Queries : serving[q].phase = "dialed" =>
    /\ serving[q].object \in alive
    /\ \A d \in Drivers : connections[d] # serving[q].object
    /\ \A p \in Queries : serving[p].phase # "idle" /\ serving[p].object = serving[q].object => p = q

PoolsBounded ==
  \A o \in Objects :
    /\ Len(free[o]) <= MaxIdle
    /\ o \notin alive /\ dialed[o] = "mysql" => free[o] = <<>>

\* A request that is alone on its object finds its own connection on top.
Alone ==
  \A q \in Queries :
    LET r == serving[q] IN
    /\ r.phase = "using" => r.on = r.want
    /\ r.phase \in Busy /\ r.alone =>
         /\ \A p \in Queries : serving[p].phase \in Busy /\ serving[p].object = r.object => p = q
         /\ r.phase = "using" => Len(free[r.object]) < MaxIdle
         /\ r.phase = "used" /\ r.object \in alive =>
              free[r.object] # <<>> /\ Last(free[r.object]) = r.want

DbInv == DbShape /\ OwnDriver /\ DialedIsOwn /\ PoolsBounded /\ MapIsLive /\ Alone /\ AloneInItsDatabase

LEMMA UnusedRequest == Unused \in Requests /\ Unused.phase = "idle" /\ Unused.object = 0 /\ NoDb \in Names
BY DEF Unused, Requests, Names, Phases, Drivers

\* One connection pool changes.
LEMMA OnePool ==
  ASSUME DbShape, NEW o \in Objects, NEW s \in Pools, free' = [free EXCEPT ![o] = s]
  PROVE  /\ free' \in Seq(Pools) /\ Len(free') = Len(free)
         /\ free'[o] = s
         /\ \A p \in Objects : p # o => free'[p] = free[p]
<1>1. o \in 1..Len(free) /\ free \in Seq(Pools) /\ Objects = 1..Len(free)
  BY DEF DbShape, Objects
<1> HIDE DEF Pools
<1>2. QED
  BY <1>1

\* What is taken from a pool and what is put back.
LEMMA PoolUse ==
  ASSUME DbShape, PoolsBounded, NEW o \in Objects, NEW db \in Names
  PROVE  /\ Rest(o) \in Pools /\ Len(Rest(o)) < MaxIdle
         /\ Taken(o) \in Names
         /\ PutBack(o, db) \in Pools /\ Len(PutBack(o, db)) <= MaxIdle
         /\ free[o] # <<>> => Taken(o) = Last(free[o])
         /\ o \notin alive => PutBack(o, db) = free[o]
         /\ o \in alive /\ Len(free[o]) < MaxIdle =>
              PutBack(o, db) # <<>> /\ Last(PutBack(o, db)) = db
<1>1. free[o] \in Seq(Names) /\ Len(free[o]) <= MaxIdle /\ MaxIdle \in Nat /\ MaxIdle > 0
  BY DbAssumption DEF DbShape, PoolsBounded, Objects, Pools
<1>2. NoDb \in Names
  BY UnusedRequest
<1>3. CASE free[o] = <<>>
  BY <1>1, <1>2, <1>3 DEF Rest, Taken, PutBack, Last, Front, Pools
<1>4. CASE free[o] # <<>>
  <2>1. Len(free[o]) > 0
    BY <1>1, <1>4
  <2>2. /\ Front(free[o]) \in Seq(Names) /\ Len(Front(free[o])) = Len(free[o]) - 1
        /\ Last(free[o]) \in Names
    BY <1>1, <2>1 DEF Last, Front
  <2>3. /\ Append(free[o], db) \in Seq(Names) /\ Len(Append(free[o], db)) = Len(free[o]) + 1
        /\ Last(Append(free[o], db)) = db /\ Append(free[o], db) # <<>>
    BY <1>1 DEF Last
  <2>4. QED
    BY <1>1, <1>4, <2>1, <2>2, <2>3 DEF Rest, Taken, PutBack, Pools
<1>5. QED
  BY <1>3, <1>4

\* A request that ends, or goes on, and nobody else's.
LEMMA RequestEnds ==
  ASSUME DbShape, NEW q \in Queries, EndRequest(q)
  PROVE  /\ serving' \in [Queries -> Requests]
         /\ serving'[q].phase = "idle" /\ serving'[q].object = 0
         /\ \A p \in Queries : p # q => serving'[p] = serving[p]
BY UnusedRequest DEF EndRequest, DbShape

LEMMA RequestGoes ==
  ASSUME DbShape, NEW q \in Queries, NEW phase \in Phases, NEW used \in Names,
         serving' = [serving EXCEPT ![q].phase = phase, ![q].on = used]
  PROVE  /\ serving' \in [Queries -> Requests]
         /\ serving'[q].phase = phase /\ serving'[q].on = used
         /\ serving'[q].object = serving[q].object /\ serving'[q].driver = serving[q].driver
         /\ serving'[q].want = serving[q].want /\ serving'[q].alone = serving[q].alone
         /\ \A p \in Queries : p # q => serving'[p] = serving[p]
<1>1. serving[q] \in Requests
  BY DEF DbShape
<1> DEFINE r == [[serving[q] EXCEPT !.phase = phase] EXCEPT !.on = used]
<1>2. /\ r \in Requests /\ r.phase = phase /\ r.on = used
      /\ r.object = serving[q].object /\ r.driver = serving[q].driver
      /\ r.want = serving[q].want /\ r.alone = serving[q].alone
  BY <1>1, Zenon DEF Requests
<1>3. serving' = [serving EXCEPT ![q] = r]
  BY Zenon DEF DbShape
<1> HIDE DEF r
<1>4. QED
  BY <1>2, <1>3, ZenonT(60) DEF DbShape

LEMMA PhaseGoes ==
  ASSUME DbShape, NEW q \in Queries, NEW phase \in Phases, Goto(q, phase)
  PROVE  /\ serving' \in [Queries -> Requests]
         /\ serving'[q].phase = phase /\ serving'[q].on = serving[q].on
         /\ serving'[q].object = serving[q].object /\ serving'[q].driver = serving[q].driver
         /\ serving'[q].want = serving[q].want /\ serving'[q].alone = serving[q].alone
         /\ \A p \in Queries : p # q => serving'[p] = serving[p]
<1>1. serving[q] \in Requests
  BY DEF DbShape
<1> DEFINE r == [serving[q] EXCEPT !.phase = phase]
<1>2. /\ r \in Requests /\ r.phase = phase /\ r.on = serving[q].on
      /\ r.object = serving[q].object /\ r.driver = serving[q].driver
      /\ r.want = serving[q].want /\ r.alone = serving[q].alone
  BY <1>1 DEF Requests
<1>3. serving' = [serving EXCEPT ![q] = r]
  BY DEF Goto, DbShape
<1> HIDE DEF r
<1>4. QED
  BY <1>2, <1>3 DEF DbShape

LEMMA DbInitial == DbInit => DbInv
<1> SUFFICES ASSUME DbInit
             PROVE  DbInv
  OBVIOUS
<1>1. \A q \in Queries : serving[q] = Unused
  BY DEF DbInit
<1>2. serving \in [Queries -> Requests]
  BY UnusedRequest DEF DbInit
<1>3. DbShape
  BY <1>1, <1>2, UnusedRequest, DbAssumption DEF DbInit, DbShape, Objects
<1>4. OwnDriver /\ DialedIsOwn /\ MapIsLive
  BY <1>1, UnusedRequest DEF DbInit, OwnDriver, DialedIsOwn, MapIsLive, Objects
<1>5. PoolsBounded
  BY DEF DbInit, PoolsBounded, Objects
<1>6. Alone /\ AloneInItsDatabase
  BY <1>1, UnusedRequest DEF Alone, AloneInItsDatabase, Busy
<1>7. QED
  BY <1>3, <1>4, <1>5, <1>6 DEF DbInv

\* The steps that leave the map and the pools alone, and take or give a request no
\* object but one of the map.
LEMMA DialStep ==
  ASSUME DbInv, NEW q \in Queries, Dial(q)
  PROVE  DbInv'
<1> USE DEF DbInv
<1> DEFINE o == Len(dialed) + 1
<1>1. PICK d \in Drivers :
        /\ dialed' = Append(dialed, d)
        /\ serving' = [serving EXCEPT ![q] =
                         [Unused EXCEPT !.phase = "dialed", !.driver = d, !.object = o]]
  BY Zenon DEF Dial
<1>2. /\ serving' \in [Queries -> Requests]
      /\ serving'[q].phase = "dialed" /\ serving'[q].driver = d /\ serving'[q].object = o
      /\ \A p \in Queries : p # q => serving'[p] = serving[p]
  <2> DEFINE r == [Unused EXCEPT !.phase = "dialed", !.driver = d, !.object = o]
  <2>1. o \in Nat
    BY DEF DbShape
  <2> HIDE DEF o
  <2>2. r \in Requests /\ r.phase = "dialed" /\ r.driver = d /\ r.object = o
    BY <2>1, UnusedRequest, Zenon DEF Unused, Requests, Phases
  <2>3. serving' = [serving EXCEPT ![q] = r]
    BY <1>1
  <2> HIDE DEF r
  <2>4. QED
    BY <2>2, <2>3 DEF DbShape
<1>3. /\ dialed' \in Seq(Drivers) /\ Len(dialed') = o /\ o \in Nat /\ o > 0
      /\ \A p \in Objects : dialed'[p] = dialed[p]
      /\ dialed'[o] = d
      /\ Objects' = Objects \union {o} /\ o \notin Objects
  BY <1>1 DEF DbShape, Objects
<1>4. /\ free' \in Seq(Pools) /\ Len(free') = o /\ free'[o] = <<NoDb>>
      /\ \A p \in Objects : free'[p] = free[p]
  <2>1. <<NoDb>> \in Pools
    BY UnusedRequest DEF Pools
  <2> HIDE DEF Pools
  <2>2. QED
    BY <2>1, <1>3 DEF Dial, DbShape, Objects
<1>5. /\ UNCHANGED <<connections, asked, abandoned>> /\ alive' = alive \union {o}
      /\ Len(dialed) < MaxDials /\ serving[q].phase = "idle"
  BY DEF Dial
<1>6. DbShape'
  <2>1. \A p \in Queries : serving'[p].phase = "idle" => serving'[p].object = 0
    BY <1>2 DEF DbShape
  <2>2. QED
    BY <1>2, <1>3, <1>4, <1>5, <2>1, DbAssumption DEF DbShape
<1>7. OwnDriver'
  BY <1>2, <1>3, <1>5 DEF OwnDriver
<1>8. DialedIsOwn'
  <2> HIDE DEF o
  <2>1. /\ \A e \in Drivers : connections'[e] = connections[e] /\ connections[e] # o
        /\ \A p \in Queries : p # q /\ serving'[p].phase # "idle" => serving'[p].object # o
    BY <1>2, <1>3, <1>5 DEF OwnDriver
  <2>2. \A p \in Queries : p # q /\ serving'[p].phase = "dialed" =>
          /\ serving'[p].object \in alive'
          /\ \A e \in Drivers : connections'[e] # serving'[p].object
          /\ \A b \in Queries : b # q /\ serving'[b].phase # "idle" /\ serving'[b].object = serving'[p].object => b = p
    BY <1>2, <1>5 DEF DialedIsOwn
  <2>3. QED
    BY <1>2, <1>5, <2>1, <2>2 DEF DialedIsOwn
<1>9. PoolsBounded'
  <2>1. Len(free'[o]) <= MaxIdle
    BY <1>4, DbAssumption
  <2>2. QED
    BY <2>1, <1>3, <1>4, <1>5, Zenon DEF PoolsBounded
<1>10. MapIsLive'
  <2> SUFFICES ASSUME NEW e \in Drivers,
                      connections'[e] \in Objects' \ (alive' \union abandoned')
               PROVE  \E p \in Queries : serving'[p].phase = "deleting" /\ serving'[p].driver = e
    BY DEF MapIsLive
  <2> HIDE DEF o
  <2>1. connections[e] \in Objects \ (alive \union abandoned)
    BY <1>3, <1>5
  <2>2. PICK p \in Queries : serving[p].phase = "deleting" /\ serving[p].driver = e
    BY <2>1 DEF MapIsLive
  <2>3. QED
    BY <1>2, <1>5, <2>2
<1>11. Alone' /\ AloneInItsDatabase'
  BY <1>2, <1>3, <1>4, <1>5, SMTT(30) DEF OwnDriver, Alone, AloneInItsDatabase, Busy
<1>12. QED
  BY <1>6, <1>7, <1>8, <1>9, <1>10, <1>11

LEMMA MapStep ==
  ASSUME DbInv, NEW q \in Queries, Store(q) \/ Unload(q) \/ Close(q) \/ Delete(q)
  PROVE  DbInv'
<1> USE DEF DbInv
<1>1. CASE Store(q)
  <2>1. /\ serving' \in [Queries -> Requests] /\ serving'[q].phase = "idle" /\ serving'[q].object = 0
        /\ \A p \in Queries : p # q => serving'[p] = serving[p]
    BY <1>1, RequestEnds DEF Store
  <2>2. /\ connections' = [connections EXCEPT ![serving[q].driver] = serving[q].object]
        /\ UNCHANGED <<dialed, alive, free, asked, abandoned>> /\ serving[q].phase = "dialed"
    BY <1>1 DEF Store
  <2>3. serving[q] \in Requests
    BY DEF DbShape
  <2>4. serving[q].driver \in Drivers /\ serving[q].object \in Nat
    BY <2>3 DEF Requests
  <2>5. DbShape'
    BY <2>1, <2>2, <2>4, Zenon DEF DbShape, Objects
  <2>6. \A d \in Drivers : connections'[d] = IF d = serving[q].driver THEN serving[q].object
                                               ELSE connections[d]
    BY <2>2 DEF DbShape
  <2>7. OwnDriver' /\ DialedIsOwn'
    BY <2>1, <2>2, <2>6 DEF OwnDriver, DialedIsOwn, Objects
  <2>8. PoolsBounded'
    BY <2>2 DEF PoolsBounded, Objects
  <2>9. MapIsLive'
    BY <2>1, <2>2, <2>6 DEF DialedIsOwn, MapIsLive, Objects
  <2>10. Alone' /\ AloneInItsDatabase'
    BY <2>1, <2>2 DEF Alone, AloneInItsDatabase, Busy
  <2>11. QED
    BY <2>5, <2>7, <2>8, <2>9, <2>10
<1>2. CASE Unload(q)
  <2>1. PICK d \in Drivers :
          /\ connections[d] # 0
          /\ serving' = [serving EXCEPT ![q] = [Unused EXCEPT !.phase = "closing", !.driver = d,
                                                              !.object = connections[d]]]
    BY <1>2, Zenon DEF Unload
  <2>2. /\ serving' \in [Queries -> Requests]
        /\ serving'[q].phase = "closing" /\ serving'[q].driver = d
        /\ serving'[q].object = connections[d]
        /\ \A p \in Queries : p # q => serving'[p] = serving[p]
    <3> DEFINE r == [Unused EXCEPT !.phase = "closing", !.driver = d, !.object = connections[d]]
    <3>1. connections[d] \in Nat
      BY DEF DbShape
    <3>2. r \in Requests /\ r.phase = "closing" /\ r.driver = d /\ r.object = connections[d]
      BY <3>1, UnusedRequest, Zenon DEF Unused, Requests, Phases
    <3> HIDE DEF r
    <3>3. QED
      BY <2>1, <3>2 DEF DbShape, r
  <2>3. UNCHANGED <<connections, dialed, alive, free, asked, abandoned>> /\ serving[q].phase = "idle"
    BY <1>2, Zenon DEF Unload
  <2>4. DbShape' /\ PoolsBounded'
    BY <2>2, <2>3 DEF DbShape, PoolsBounded, Objects
  <2>5. OwnDriver' /\ DialedIsOwn'
    BY <2>1, <2>2, <2>3 DEF OwnDriver, DialedIsOwn, Objects
  <2>6. MapIsLive'
    BY <2>2, <2>3 DEF MapIsLive, Objects
  <2>7. Alone' /\ AloneInItsDatabase'
    BY <2>2, <2>3 DEF Alone, AloneInItsDatabase, Busy
  <2>8. QED
    BY <2>4, <2>5, <2>6, <2>7
<1>3. CASE Close(q)
  <2> DEFINE o == serving[q].object
  <2>1. /\ serving' \in [Queries -> Requests]
        /\ serving'[q].phase = "deleting"
        /\ serving'[q].object = o /\ serving'[q].driver = serving[q].driver
        /\ \A p \in Queries : p # q => serving'[p] = serving[p]
    BY <1>3, PhaseGoes DEF Close, Phases
  <2>2. /\ alive' = alive \ {o} /\ free' = [free EXCEPT ![o] = <<>>]
        /\ UNCHANGED <<connections, dialed, asked, abandoned>> /\ serving[q].phase = "closing"
    BY <1>3 DEF Close
  <2>3. o \in Objects /\ dialed[o] = serving[q].driver
    BY <2>2 DEF OwnDriver
  <2>4. /\ free' \in Seq(Pools) /\ Len(free') = Len(free) /\ free'[o] = <<>>
        /\ \A p \in Objects : p # o => free'[p] = free[p]
    <3>1. <<>> \in Pools
      BY DEF Pools
    <3>2. QED
      BY <2>2, <2>3, <3>1, OnePool, Zenon
  <2> HIDE DEF o
  <2>5. DbShape'
    BY <2>1, <2>2, <2>4, Zenon DEF DbShape, Objects
  <2>6. PoolsBounded'
    <3>1. Len(<<>>) <= MaxIdle
      BY DbAssumption
    <3>2. QED
      BY <2>2, <2>4, <3>1 DEF PoolsBounded, Objects
  <2>7. OwnDriver' /\ DialedIsOwn'
    BY <2>1, <2>2 DEF OwnDriver, DialedIsOwn, Objects, o
  <2>8. MapIsLive'
    BY <2>1, <2>2, <2>3 DEF OwnDriver, MapIsLive, Objects
  <2>9. Alone' /\ AloneInItsDatabase'
    <3>1. Len(<<>>) < MaxIdle
      BY DbAssumption
    <3>2. \A p \in Queries : serving[p].phase # "idle" => serving[p].object \in Objects
      BY DEF OwnDriver
    <3>3. QED
      BY <2>1, <2>2, <2>4, <3>1, <3>2 DEF Alone, AloneInItsDatabase, Busy
  <2>10. QED
    BY <2>5, <2>6, <2>7, <2>8, <2>9
<1>4. CASE Delete(q)
  <2>1. /\ serving' \in [Queries -> Requests] /\ serving'[q].phase = "idle" /\ serving'[q].object = 0
        /\ \A p \in Queries : p # q => serving'[p] = serving[p]
    BY <1>4, RequestEnds DEF Delete
  <2>2. /\ connections' = [connections EXCEPT ![serving[q].driver] = 0]
        /\ UNCHANGED <<dialed, alive, free, asked, abandoned>> /\ serving[q].phase = "deleting"
    BY <1>4 DEF Delete
  <2>3. DbShape' /\ PoolsBounded'
    BY <2>1, <2>2, Zenon DEF DbShape, PoolsBounded, Objects
  <2>4. \A d \in Drivers : connections'[d] = IF d = serving[q].driver THEN 0 ELSE connections[d]
    BY <2>2 DEF DbShape
  <2>5. OwnDriver' /\ DialedIsOwn'
    <3>1. \A p \in Queries : serving[p].phase = "dialed" => serving[p].object # 0
      BY DEF OwnDriver, Objects
    <3>2. QED
      BY <2>1, <2>2, <2>4, <3>1 DEF OwnDriver, DialedIsOwn, Objects
  <2>6. MapIsLive'
    BY <2>1, <2>2, <2>4 DEF MapIsLive, Objects
  <2>7. Alone' /\ AloneInItsDatabase'
    BY <2>1, <2>2 DEF Alone, AloneInItsDatabase, Busy
  <2>8. QED
    BY <2>3, <2>5, <2>6, <2>7
<1>5. QED
  BY <1>1, <1>2, <1>3, <1>4

\* The steps of a query leave the map alone, and make no request one that disconnects.
LEMMA QueryKeepsMap ==
  ASSUME DbInv, NEW q \in Queries,
         serving[q].phase \in Busy,
         UNCHANGED <<connections, dialed>>,
         \/ UNCHANGED <<alive, abandoned>>
         \/ alive' = alive \ {serving[q].object} /\ abandoned' = abandoned \union {serving[q].object},
         \A p \in Queries : p # q => serving'[p] = serving[p],
         \/ serving'[q].phase = "idle"
         \/ /\ serving'[q].phase \in Busy
            /\ serving'[q].object = serving[q].object /\ serving'[q].driver = serving[q].driver
  PROVE  OwnDriver' /\ DialedIsOwn' /\ MapIsLive'
<1> USE DEF DbInv
<1>1. OwnDriver' /\ DialedIsOwn'
  BY DEF OwnDriver, DialedIsOwn, Objects, Busy
<1>2. MapIsLive'
  <2> SUFFICES ASSUME NEW d \in Drivers,
                      connections'[d] \in Objects' \ (alive' \union abandoned')
               PROVE  \E p \in Queries : serving'[p].phase = "deleting" /\ serving'[p].driver = d
    BY DEF MapIsLive
  <2>1. connections[d] \in Objects \ (alive \union abandoned)
    BY DEF Objects
  <2>2. PICK p \in Queries : serving[p].phase = "deleting" /\ serving[p].driver = d
    BY <2>1 DEF MapIsLive
  <2>3. QED
    BY <2>2 DEF Busy
<1>3. QED
  BY <1>1, <1>2

LEMMA AskStep ==
  ASSUME DbInv, NEW q \in Queries, Ask(q)
  PROVE  DbInv'
<1> USE DEF DbInv
<1>1. PICK d \in Drivers, db \in Names :
        /\ connections[d] # 0
        /\ serving' = [p \in Queries |->
             IF p = q
             THEN [Unused EXCEPT !.phase = "loaded", !.driver = d, !.object = connections[d],
                                 !.want = db, !.alone = (On(connections[d]) = {})]
             ELSE [serving[p] EXCEPT !.alone = @ /\ p \notin On(connections[d])]]
  BY Zenon DEF Ask, Names
<1> DEFINE o == connections[d]
           first == On(o) = {}
<1>2. /\ UNCHANGED <<connections, dialed, alive, free, abandoned>>
      /\ serving[q].phase = "idle" /\ asked < MaxQueries /\ asked' = asked + 1
  BY Zenon DEF Ask
<1>3. o \in Nat /\ o \in Objects /\ dialed[o] = d
  BY <1>1, Zenon DEF DbShape, OwnDriver
<1>4. /\ serving'[q] \in Requests
      /\ serving'[q].phase = "loaded" /\ serving'[q].driver = d /\ serving'[q].object = o
      /\ serving'[q].alone => first
  <2> DEFINE r == [Unused EXCEPT !.phase = "loaded", !.driver = d, !.object = o, !.want = db,
                                 !.alone = first]
  <2>1. first \in BOOLEAN
    OBVIOUS
  <2>2. serving'[q] = r
    BY <1>1, Zenon
  <2> HIDE DEF first, o
  <2>3. r \in Requests /\ r.phase = "loaded" /\ r.driver = d /\ r.object = o /\ r.alone = first
    BY <1>3, <2>1, UnusedRequest, Zenon DEF Unused, Requests, Phases
  <2> HIDE DEF r
  <2>4. QED
    BY <2>2, <2>3
<1>5. ASSUME NEW p \in Queries, p # q
      PROVE  /\ serving'[p] \in Requests
             /\ serving'[p].phase = serving[p].phase /\ serving'[p].driver = serving[p].driver
             /\ serving'[p].object = serving[p].object
             /\ serving'[p].want = serving[p].want /\ serving'[p].on = serving[p].on
             /\ serving'[p].alone => serving[p].alone /\ p \notin On(o)
  <2> DEFINE alone == serving[p].alone /\ p \notin On(o)
             r == [serving[p] EXCEPT !.alone = alone]
  <2>1. serving'[p] = r
    BY <1>1, <1>5, Zenon
  <2>2. serving[p] \in Requests /\ alone \in BOOLEAN
    BY DEF DbShape, Requests
  <2> HIDE DEF alone, o
  <2>3. /\ r \in Requests
        /\ r.phase = serving[p].phase /\ r.driver = serving[p].driver
        /\ r.object = serving[p].object
        /\ r.want = serving[p].want /\ r.on = serving[p].on
        /\ r.alone = alone
    BY <2>2 DEF Requests
  <2> HIDE DEF r
  <2>4. QED
    BY <2>1, <2>3, Zenon DEF alone
<1> HIDE DEF o, first
<1>6. DbShape'
  <2>1. asked' \in 0..MaxQueries
    BY <1>2, DbAssumption DEF DbShape
  <2>2. serving' \in [Queries -> Requests]
    BY <1>1, <1>4, <1>5, Zenon
  <2>3. \A p \in Queries : serving'[p].phase = "idle" => serving'[p].object = 0
    BY <1>4, <1>5 DEF DbShape
  <2>4. QED
    BY <1>2, <2>1, <2>2, <2>3 DEF DbShape, Objects
<1>7. OwnDriver'
  BY <1>2, <1>3, <1>4, <1>5 DEF OwnDriver, Objects
<1>8. DialedIsOwn'
  BY <1>2, <1>4, <1>5 DEF DialedIsOwn, Objects, o
<1>9. PoolsBounded'
  BY <1>2 DEF PoolsBounded, Objects
<1>10. MapIsLive'
  <2>1. \A p \in Queries : serving[p].phase = "deleting" =>
          serving'[p].phase = "deleting" /\ serving'[p].driver = serving[p].driver
    BY <1>2, <1>5
  <2>2. QED
    BY <1>2, <2>1 DEF MapIsLive, Objects
<1>11. \A p \in Queries : p \in On(o) <=> serving[p].phase \in Busy /\ serving[p].object = o
  BY DEF On, Busy
<1>12. Alone'
  <2>1. ASSUME NEW p \in Queries, serving'[p].phase \in Busy, serving'[p].alone,
               NEW b \in Queries, serving'[b].phase \in Busy, serving'[b].object = serving'[p].object
        PROVE  b = p
    <3>1. CASE p = q
      BY <1>4, <1>5, <1>11, <2>1, <3>1 DEF first
    <3>2. CASE p # q
      BY <1>4, <1>5, <1>11, <2>1, <3>2 DEF Alone
    <3>3. QED
      BY <3>1, <3>2
  <2>2. ASSUME NEW p \in Queries, serving'[p].phase \in {"using", "used"}
        PROVE  p # q /\ serving[p].phase = serving'[p].phase
    BY <1>4, <1>5, <2>2
  <2>3. \A p \in Queries :
          /\ serving'[p].phase = "using" => serving'[p].on = serving'[p].want
          /\ serving'[p].phase = "using" /\ serving'[p].alone =>
               Len(free'[serving'[p].object]) < MaxIdle
          /\ serving'[p].phase = "used" /\ serving'[p].alone /\ serving'[p].object \in alive' =>
               /\ free'[serving'[p].object] # <<>>
               /\ Last(free'[serving'[p].object]) = serving'[p].want
    BY <1>2, <1>5, <2>2 DEF Alone, Busy
  <2>4. QED
    BY <2>1, <2>3 DEF Alone
<1>13. AloneInItsDatabase'
  BY <1>4, <1>5 DEF AloneInItsDatabase
<1>14. QED
  BY <1>6, <1>7, <1>8, <1>9, <1>10, <1>12, <1>13

\* A request that ends takes no pool away from one that is alone on it.
LEMMA EndStep ==
  ASSUME DbInv, NEW q \in Queries, QueryFails(q) \/ ClientLeaves(q)
  PROVE  DbInv'
<1> USE DEF DbInv
<1>1. /\ serving' \in [Queries -> Requests] /\ serving'[q].phase = "idle" /\ serving'[q].object = 0
      /\ \A p \in Queries : p # q => serving'[p] = serving[p]
  BY RequestEnds DEF QueryFails, ClientLeaves
<1>2. /\ UNCHANGED <<connections, dialed, free, asked>> /\ serving[q].phase \in Busy
      /\ \/ UNCHANGED <<alive, abandoned>>
         \/ /\ serving[q].driver = "postgres"
            /\ alive' = alive \ {serving[q].object}
            /\ abandoned' = abandoned \union {serving[q].object}
  BY DEF QueryFails, ClientLeaves, Busy
<1>3. serving[q].object \in Objects /\ dialed[serving[q].object] = serving[q].driver
  BY <1>2 DEF OwnDriver, Busy
<1>4. DbShape' /\ PoolsBounded'
  BY <1>1, <1>2, <1>3, Zenon DEF DbShape, PoolsBounded, Objects
<1>5. OwnDriver' /\ DialedIsOwn' /\ MapIsLive'
  BY <1>1, <1>2, QueryKeepsMap
<1>6. Alone' /\ AloneInItsDatabase'
  BY <1>1, <1>2 DEF Alone, AloneInItsDatabase, Busy
<1>7. QED
  BY <1>4, <1>5, <1>6

\* A statement starts or ends: a connection is taken out of the pool of the object,
\* or put back.
LEMMA StatementStep ==
  ASSUME DbInv, NEW q \in Queries, Use(q) \/ UseDone(q) \/ Run(q) \/ RunDone(q)
  PROVE  DbInv'
<1> USE DEF DbInv
<1> DEFINE o == serving[q].object
<1>1. /\ UNCHANGED <<connections, dialed, alive, asked, abandoned>>
      /\ serving[q].phase \in Busy
  BY DEF Use, UseDone, Run, RunDone, Busy
<1>2. /\ o \in Objects /\ dialed[o] = serving[q].driver
      /\ serving[q].want \in Names /\ serving[q].on \in Names
  BY <1>1 DEF OwnDriver, Busy, DbShape, Requests
<1>3. /\ Rest(o) \in Pools /\ Len(Rest(o)) < MaxIdle /\ Taken(o) \in Names
      /\ PutBack(o, serving[q].on) \in Pools /\ Len(PutBack(o, serving[q].on)) <= MaxIdle
      /\ free[o] # <<>> => Taken(o) = Last(free[o])
      /\ o \notin alive => PutBack(o, serving[q].on) = free[o]
      /\ o \in alive /\ Len(free[o]) < MaxIdle =>
              /\ PutBack(o, serving[q].on) # <<>>
              /\ Last(PutBack(o, serving[q].on)) = serving[q].on
  BY <1>2, PoolUse
\* What each of them does to the request and to the pool.
<1>4. CASE Use(q)
  <2>1. /\ serving' \in [Queries -> Requests]
        /\ serving'[q].phase = "using" /\ serving'[q].on = serving[q].want
        /\ serving'[q].object = o /\ serving'[q].driver = serving[q].driver
        /\ serving'[q].want = serving[q].want /\ serving'[q].alone = serving[q].alone
        /\ \A p \in Queries : p # q => serving'[p] = serving[p]
    BY <1>2, <1>4, RequestGoes, Zenon DEF Use, Phases
  <2>2. free' = [free EXCEPT ![o] = Rest(o)] /\ o \in alive
    BY <1>4 DEF Use
  <2>3. /\ free' \in Seq(Pools) /\ Len(free') = Len(free) /\ free'[o] = Rest(o)
        /\ \A p \in Objects : p # o => free'[p] = free[p]
    BY <1>2, <1>3, <2>2, OnePool, Zenon
  <2> HIDE DEF o
  <2>4. DbShape'
    BY <1>1, <2>1, <2>3 DEF DbShape, Objects
  <2>5. OwnDriver' /\ DialedIsOwn' /\ MapIsLive'
    BY <1>1, <2>1, QueryKeepsMap DEF Busy, o
  <2>6. PoolsBounded'
    <3>1. Len(Rest(o)) <= MaxIdle
      BY <1>3, DbAssumption DEF Pools
    <3>2. QED
      BY <1>1, <2>2, <2>3, <3>1 DEF PoolsBounded, Objects
  <2>7. Alone' /\ AloneInItsDatabase'
    <3>1. \A p \in Queries : p # q /\ serving[p].phase \in Busy /\ serving[p].alone =>
            serving[p].object # o /\ serving[p].object \in Objects
      BY <1>1 DEF Alone, OwnDriver, Busy, o
    <3>2. QED
      BY <1>1, <1>3, <2>1, <2>3, <3>1 DEF Alone, AloneInItsDatabase, Busy, o
  <2>8. QED
    BY <2>4, <2>5, <2>6, <2>7
<1>5. CASE UseDone(q)
  <2>1. /\ serving' \in [Queries -> Requests]
        /\ serving'[q].phase = "used"
        /\ serving'[q].object = o /\ serving'[q].driver = serving[q].driver
        /\ serving'[q].want = serving[q].want /\ serving'[q].alone = serving[q].alone
        /\ \A p \in Queries : p # q => serving'[p] = serving[p]
    BY <1>5, UnusedRequest, RequestGoes, Zenon DEF UseDone, Phases
  <2>2. free' = [free EXCEPT ![o] = PutBack(o, serving[q].on)] /\ serving[q].phase = "using"
    BY <1>5 DEF UseDone
  <2>3. /\ free' \in Seq(Pools) /\ Len(free') = Len(free) /\ free'[o] = PutBack(o, serving[q].on)
        /\ \A p \in Objects : p # o => free'[p] = free[p]
    BY <1>2, <1>3, <2>2, OnePool, Zenon
  <2> HIDE DEF o
  <2>4. DbShape'
    BY <1>1, <2>1, <2>3, Zenon DEF DbShape, Objects
  <2>5. OwnDriver' /\ DialedIsOwn' /\ MapIsLive'
    BY <1>1, <2>1, QueryKeepsMap DEF Busy, o
  <2>6. PoolsBounded'
    BY <1>1, <1>3, <2>3, Zenon DEF PoolsBounded, Objects
  <2>7. Alone' /\ AloneInItsDatabase'
    <3>1. \A p \in Queries : p # q /\ serving[p].phase \in Busy /\ serving[p].alone =>
            serving[p].object # o /\ serving[p].object \in Objects
      BY <1>1 DEF Alone, OwnDriver, Busy, o
    <3>2. serving[q].alone => serving[q].on = serving[q].want /\ Len(free[o]) < MaxIdle
      BY <2>2 DEF Alone, Busy, o
    <3>3. QED
      BY <1>1, <1>3, <2>1, <2>3, <3>1, <3>2 DEF Alone, AloneInItsDatabase, Busy, o
  <2>8. QED
    BY <2>4, <2>5, <2>6, <2>7
<1>6. CASE Run(q)
  <2>1. CASE /\ serving[q].driver = "mysql"
             /\ serving[q].phase = IF serving[q].want = NoDb THEN "loaded" ELSE "used"
             /\ serving' = [serving EXCEPT ![q].phase = "running", ![q].on = Taken(o)]
             /\ free' = [free EXCEPT ![o] = Rest(o)]
    <3>1. /\ serving' \in [Queries -> Requests]
          /\ serving'[q].phase = "running" /\ serving'[q].on = Taken(o)
          /\ serving'[q].object = o /\ serving'[q].driver = serving[q].driver
          /\ serving'[q].want = serving[q].want /\ serving'[q].alone = serving[q].alone
          /\ \A p \in Queries : p # q => serving'[p] = serving[p]
      BY <1>3, <2>1, RequestGoes, Zenon DEF Phases
    <3>2. /\ free' \in Seq(Pools) /\ Len(free') = Len(free) /\ free'[o] = Rest(o)
          /\ \A p \in Objects : p # o => free'[p] = free[p]
      BY <1>2, <1>3, <2>1, OnePool, Zenon
    <3>3. o \in alive
      BY <1>6 DEF Run
    <3> HIDE DEF o
    <3>4. DbShape'
      BY <1>1, <3>1, <3>2, Zenon DEF DbShape, Objects
    <3>5. OwnDriver' /\ DialedIsOwn' /\ MapIsLive'
      BY <1>1, <3>1, QueryKeepsMap DEF Busy, o
    <3>6. PoolsBounded'
      <4>1. Len(Rest(o)) <= MaxIdle
        BY <1>3, DbAssumption DEF Pools
      <4>2. QED
        BY <1>1, <3>2, <3>3, <4>1 DEF PoolsBounded, Objects
    <3>7. \A p \in Queries : p # q /\ serving[p].phase \in Busy /\ serving[p].alone =>
            serving[p].object # o /\ serving[p].object \in Objects
      BY <1>1 DEF Alone, OwnDriver, Busy, o
    <3>8. Alone'
      BY <1>1, <3>1, <3>2, <3>7 DEF Alone, Busy, o
    <3>9. AloneInItsDatabase'
      <4>1. serving[q].alone /\ serving[q].want # NoDb => Taken(o) = serving[q].want
        BY <1>3, <2>1, <3>3 DEF Alone, Busy, o
      <4>2. QED
        BY <3>1, <4>1 DEF AloneInItsDatabase
    <3>10. QED
      BY <3>4, <3>5, <3>6, <3>8, <3>9
  <2>2. CASE /\ serving[q].driver = "postgres" /\ Goto(q, "running") /\ UNCHANGED free
    <3>1. /\ serving' \in [Queries -> Requests]
          /\ serving'[q].phase = "running" /\ serving'[q].driver = "postgres"
          /\ serving'[q].object = o
          /\ serving'[q].alone = serving[q].alone
          /\ \A p \in Queries : p # q => serving'[p] = serving[p]
      BY <2>2, PhaseGoes DEF Phases
    <3>2. DbShape' /\ PoolsBounded'
      BY <1>1, <2>2, <3>1, Zenon DEF DbShape, PoolsBounded, Objects
    <3>3. OwnDriver' /\ DialedIsOwn' /\ MapIsLive'
      BY <1>1, <2>2, <3>1, QueryKeepsMap DEF Busy
    <3>4. Alone' /\ AloneInItsDatabase'
      BY <1>1, <2>2, <3>1 DEF Alone, AloneInItsDatabase, Busy
    <3>5. QED
      BY <3>2, <3>3, <3>4
  <2>3. QED
    BY <1>6, <2>1, <2>2 DEF Run
<1>7. CASE RunDone(q)
  <2>1. /\ serving' \in [Queries -> Requests] /\ serving'[q].phase = "idle" /\ serving'[q].object = 0
        /\ \A p \in Queries : p # q => serving'[p] = serving[p]
    BY <1>7, RequestEnds DEF RunDone
  <2>2. \/ UNCHANGED free
        \/ free' = [free EXCEPT ![o] = PutBack(o, serving[q].on)]
    BY <1>7 DEF RunDone
  <2>3. /\ free' \in Seq(Pools) /\ Len(free') = Len(free)
        /\ free'[o] \in {free[o], PutBack(o, serving[q].on)}
        /\ \A p \in Objects : p # o => free'[p] = free[p]
    <3>1. CASE UNCHANGED free
      BY <3>1 DEF DbShape
    <3>2. CASE free' = [free EXCEPT ![o] = PutBack(o, serving[q].on)]
      BY <1>2, <1>3, <3>2, OnePool, Zenon
    <3>3. QED
      BY <2>2, <3>1, <3>2
  <2> HIDE DEF o
  <2>4. DbShape'
    BY <1>1, <2>1, <2>3, Zenon DEF DbShape, Objects
  <2>5. OwnDriver' /\ DialedIsOwn' /\ MapIsLive'
    BY <1>1, <2>1, QueryKeepsMap DEF Busy
  <2>6. PoolsBounded'
    BY <1>1, <1>3, <2>3, Zenon DEF PoolsBounded, Objects
  <2>7. Alone' /\ AloneInItsDatabase'
    <3>1. \A p \in Queries : p # q /\ serving[p].phase \in Busy /\ serving[p].alone =>
            serving[p].object # o /\ serving[p].object \in Objects
      BY <1>1 DEF Alone, OwnDriver, Busy, o
    <3>2. QED
      BY <1>1, <2>1, <2>3, <3>1 DEF Alone, AloneInItsDatabase, Busy, o
  <2>8. QED
    BY <2>4, <2>5, <2>6, <2>7
<1>8. QED
  BY <1>4, <1>5, <1>6, <1>7

LEMMA AlwaysDbInv == DbSpec => []DbInv
<1>1. DbInv /\ [DbNext]_dbVars => DbInv'
  <2> SUFFICES ASSUME DbInv, [DbNext]_dbVars
               PROVE  DbInv'
    OBVIOUS
  <2>1. CASE UNCHANGED dbVars
    <3>1. DbShape' /\ OwnDriver' /\ DialedIsOwn' /\ PoolsBounded'
      BY <2>1 DEF dbVars, DbInv, DbShape, OwnDriver, DialedIsOwn, PoolsBounded, Objects
    <3>2. MapIsLive' /\ Alone' /\ AloneInItsDatabase'
      BY <2>1 DEF dbVars, DbInv, MapIsLive, Alone, AloneInItsDatabase, Objects
    <3>3. QED
      BY <3>1, <3>2 DEF DbInv
  <2>2. QED
    BY <2>1, DialStep, MapStep, AskStep, StatementStep, EndStep DEF DbNext
<1>2. QED
  BY <1>1, DbInitial, PTL DEF DbSpec

\* Every variable of the database browser keeps its type, and a closed MySQL object
\* keeps no connection.
THEOREM DbTypeCorrect == DbSpec => []DbTypeOK
<1>1. DbInv => DbTypeOK
  <2> SUFFICES ASSUME DbInv
               PROVE  DbTypeOK
    OBVIOUS
  <2>1. \A o \in Objects : /\ free[o] \in Seq(Databases \union {NoDb})
                           /\ Len(free[o]) <= MaxIdle
                           /\ o \notin alive /\ dialed[o] = "mysql" => free[o] = <<>>
    BY SMTT(30) DEF DbInv, DbShape, PoolsBounded, Pools, Names, Objects
  <2>2. connections \in [Drivers -> 0..Len(dialed)]
    BY DEF DbInv, DbShape, OwnDriver, Objects
  <2>3. ASSUME NEW q \in Queries
        PROVE  serving[q] \in [phase : Phases, driver : Drivers, object : 0..Len(dialed),
                               want : Names, on : Names, alone : BOOLEAN]
    <3>1. serving[q] \in Requests
      BY DEF DbInv, DbShape
    <3>2. serving[q].object \in 0..Len(dialed)
      BY DEF DbInv, DbShape, OwnDriver, Objects
    <3>3. QED
      BY <3>1, <3>2 DEF Requests
  <2>4. QED
    BY <2>1, <2>2, <2>3 DEF DbInv, DbShape, DbTypeOK, Phases, Names
<1>2. QED
  BY <1>1, AlwaysDbInv, PTL

\* The map never keeps a closed connection that nobody is about to remove, for any
\* number of connects, disconnects and queries at the same time.
THEOREM MapAlwaysLive == DbSpec => []MapIsLive
<1>1. DbInv => MapIsLive
  BY DEF DbInv
<1>2. QED
  BY <1>1, AlwaysDbInv, PTL

\* A MySQL query that has the pool to itself runs in the database it selected,
\* however many free connections the pool keeps.
THEOREM AloneAlwaysInItsDatabase == DbSpec => []AloneInItsDatabase
<1>1. DbInv => AloneInItsDatabase
  BY DEF DbInv
<1>2. QED
  BY <1>1, AlwaysDbInv, PTL

-----------------------------------------------------------------------------
(* The crontab.                                                            *)

Line == [what : {"job", "comment", "blank"}, job : Nat]
NoneAbove(text, n) == \A i \in 1..Len(text) : text[i].job <= n
JobRow(text, i) == i \in Nat /\ i > 0 /\ i <= Len(text) /\ text[i].what = "job"

\* What a request under way has read.
Pending(t) ==
  LET c == change[t] IN
  /\ c.text # <<>> /\ NoneAbove(c.text, created) /\ c.job <= created
  /\ \/ c.op = "add" /\ crontab = "spool"
     \/ /\ c.op \in {"delete", "update"}
        /\ JobRow(listed[t], c.row) /\ listed[t][c.row].job = c.job
        /\ c.current => c.text = listed[t]

CronShape ==
  /\ crontab \in {"file", "spool"}
  /\ lines \in Seq(Line) /\ lines # <<>> /\ NoneAbove(lines, created)
  /\ listed \in [Tabs -> Seq(Line)]
  /\ \A t \in Tabs : NoneAbove(listed[t], created)
  /\ change \in [Tabs -> [op : {"none", "add", "delete", "update"}, row : Nat, job : Nat,
                          text : Seq(Line), current : BOOLEAN]]
  /\ \A t \in Tabs : change[t] = NoChange \/ Pending(t)
  /\ created \in 0..MaxJobs /\ changes \in 0..MaxChanges
  /\ raced \in BOOLEAN

EndsBlank == raced \/ Last(lines) = Blank

\* In a file a line that held a job holds that job, or nothing, for as long as it is a
\* line: however old a list is, it names the right job.
RowsKept ==
  crontab = "file" /\ ~raced =>
    \A t \in Tabs : \A i \in Nat :
      JobRow(listed[t], i) =>
        /\ i < Len(lines) /\ lines[i] \in {listed[t][i], Blank}
        /\ \A u \in Tabs : JobRow(listed[u], i) => listed[u][i] = listed[t][i]

CronInv == CronShape /\ EndsBlank /\ RowsKept /\ CommentsStayWithTheirJob

LEMMA BlankLine == Blank \in Line /\ Blank.what = "blank" /\ Blank.job = 0
BY DEF Blank, Line

LEMMA JobLines ==
  ASSUME NEW j \in Nat
  PROVE  /\ JobLine(j) \in Line /\ JobLine(j).what = "job" /\ JobLine(j).job = j
         /\ Comment(j) \in Line /\ Comment(j).what = "comment" /\ Comment(j).job = j
         /\ \A l \in Line : l.what = "job" /\ l.job = j => l = JobLine(j)
BY DEF JobLine, Comment, Line

LEMMA Joined ==
  ASSUME NEW a \in Seq(Line), NEW b \in Seq(Line)
  PROVE  /\ a \o b \in Seq(Line) /\ Len(a \o b) = Len(a) + Len(b)
         /\ Len(a) \in Nat /\ Len(b) \in Nat
         /\ \A i \in 1..Len(a) : (a \o b)[i] = a[i]
         /\ \A k \in 1..Len(b) : (a \o b)[Len(a) + k] = b[k]
         /\ \A i \in 1..Len(a \o b) : i \in 1..Len(a) \/ \E k \in 1..Len(b) : i = Len(a) + k
<1>1. /\ a \o b \in Seq(Line) /\ Len(a \o b) = Len(a) + Len(b)
      /\ Len(a) \in Nat /\ Len(b) \in Nat
  OBVIOUS
<1>2. ASSUME NEW i \in 1..Len(a \o b), i \notin 1..Len(a)
      PROVE  \E k \in 1..Len(b) : i = Len(a) + k
  <2>1. i - Len(a) \in 1..Len(b) /\ i = Len(a) + (i - Len(a))
    BY <1>1, <1>2
  <2>2. QED
    BY <2>1, Zenon
<1>3. \A i \in 1..Len(a) : (a \o b)[i] = a[i]
  BY <1>1
<1>4. \A k \in 1..Len(b) : (a \o b)[Len(a) + k] = b[k]
  BY <1>1
<1>5. QED
  BY <1>1, <1>2, <1>3, <1>4, Zenon

LEMMA FrontText ==
  ASSUME NEW text \in Seq(Line), text # <<>>
  PROVE  /\ Front(text) \in Seq(Line) /\ Len(Front(text)) + 1 = Len(text) /\ Len(text) \in Nat
         /\ \A i \in 1..Len(Front(text)) : Front(text)[i] = text[i] /\ i \in 1..Len(text)
<1>1. Len(text) \in Nat /\ Len(text) > 0
  OBVIOUS
<1> DEFINE n == Len(text) - 1
<1>2. n \in Nat /\ n + 1 = Len(text)
  BY <1>1
<1> HIDE DEF n
<1>3. /\ SubSeq(text, 1, n) \in Seq(Line) /\ Len(SubSeq(text, 1, n)) = n
      /\ \A i \in 1..n : SubSeq(text, 1, n)[i] = text[i]
  BY <1>2
<1>4. QED
  BY <1>2, <1>3 DEF Front, n

LEMMA AppendedText ==
  ASSUME NEW text \in Seq(Line), text # <<>>, NEW new \in Seq(Line), new # <<>>
  PROVE  LET t == Appended(text, new) IN
         /\ t \in Seq(Line) /\ t # <<>> /\ Last(t) = Blank
         /\ \A i \in 1..Len(t) : \/ \E k \in 1..Len(text) : t[i] = text[k]
                                 \/ \E k \in 1..Len(new) : t[i] = new[k]
                                 \/ t[i] = Blank
         /\ Last(text) = Blank =>
              LET n == Len(Front(text)) IN
              /\ Len(t) = n + Len(new) + 1
              /\ \A i \in 1..n : t[i] = text[i]
              /\ \A k \in 1..Len(new) : t[n + k] = new[k]
              /\ \A i \in 1..Len(t) : i \in 1..n \/ i = Len(t) \/ \E k \in 1..Len(new) : i = n + k
<1> DEFINE first == IF Last(text) = Blank THEN Front(text) \o new ELSE text \o Tail(new)
           t == Appended(text, new)
           n == Len(Front(text))
<1>1. t = first \o <<Blank>>
  BY DEF Appended
<1>2. /\ Front(text) \in Seq(Line) /\ n \in Nat /\ Len(text) = n + 1
      /\ \A i \in 1..n : Front(text)[i] = text[i] /\ i \in 1..Len(text)
  BY FrontText
<1>3. /\ Tail(new) \in Seq(Line) /\ Len(new) \in Nat /\ Len(new) > 0
      /\ \A i \in 1..Len(Tail(new)) : Tail(new)[i] = new[i + 1] /\ i + 1 \in 1..Len(new)
  OBVIOUS
<1>4. first \in Seq(Line)
  BY <1>2, <1>3, Joined
<1> HIDE DEF first, t
<1>5. /\ t \in Seq(Line) /\ Len(t) = Len(first) + 1 /\ Len(first) \in Nat
      /\ \A i \in 1..Len(first) : t[i] = first[i]
      /\ t[Len(first) + 1] = Blank
  <2>1. <<Blank>> \in Seq(Line) /\ Len(<<Blank>>) = 1 /\ <<Blank>>[1] = Blank
    BY BlankLine
  <2>2. QED
    BY <1>1, <1>4, <2>1
<1>6. t # <<>> /\ Last(t) = Blank
  BY <1>5 DEF Last
<1>7. \A i \in 1..Len(first) : \/ \E k \in 1..Len(text) : first[i] = text[k]
                               \/ \E k \in 1..Len(new) : first[i] = new[k]
  <2>1. CASE Last(text) = Blank
    <3>1. first = Front(text) \o new
      BY <2>1 DEF first
    <3>2. /\ \A i \in 1..n : first[i] = Front(text)[i]
          /\ \A k \in 1..Len(new) : first[n + k] = new[k]
          /\ \A i \in 1..Len(first) : i \in 1..n \/ \E k \in 1..Len(new) : i = n + k
      BY <1>2, <3>1, Joined
    <3> HIDE DEF n
    <3>3. QED
      BY <1>2, <3>2
  <2>2. CASE Last(text) # Blank
    <3>1. first = text \o Tail(new)
      BY <2>2 DEF first
    <3>2. /\ \A i \in 1..Len(text) : first[i] = text[i]
          /\ \A k \in 1..Len(Tail(new)) : first[Len(text) + k] = Tail(new)[k]
          /\ \A i \in 1..Len(first) :
               i \in 1..Len(text) \/ \E k \in 1..Len(Tail(new)) : i = Len(text) + k
      BY <1>3, <3>1, Joined, Zenon
    <3>3. QED
      BY <1>3, <3>2, Zenon
  <2>3. QED
    BY <2>1, <2>2
<1>8. ASSUME NEW i \in 1..Len(t)
      PROVE  \/ \E k \in 1..Len(text) : t[i] = text[k]
             \/ \E k \in 1..Len(new) : t[i] = new[k]
             \/ t[i] = Blank
  <2>1. i \in 1..Len(first) \/ i = Len(first) + 1
    BY <1>5
  <2>2. QED
    BY <1>5, <1>7, <2>1, Zenon
<1>9. ASSUME Last(text) = Blank
      PROVE  /\ Len(t) = n + Len(new) + 1
             /\ \A i \in 1..n : t[i] = text[i]
             /\ \A k \in 1..Len(new) : t[n + k] = new[k]
             /\ \A i \in 1..Len(t) : i \in 1..n \/ i = Len(t) \/ \E k \in 1..Len(new) : i = n + k
  <2>1. first = Front(text) \o new
    BY <1>9 DEF first
  <2>2. /\ \A i \in 1..n : first[i] = Front(text)[i]
        /\ \A k \in 1..Len(new) : first[n + k] = new[k]
        /\ \A i \in 1..Len(first) : i \in 1..n \/ \E k \in 1..Len(new) : i = n + k
        /\ Len(first) = n + Len(new)
    BY <1>2, <2>1, Joined
  <2> HIDE DEF n
  <2>3. Len(t) = n + Len(new) + 1
    BY <1>5, <2>2
  <2>4. \A i \in 1..n : t[i] = text[i]
    <3>1. \A i \in 1..n : i \in 1..Len(first)
      BY <1>2, <1>3, <2>2
    <3>2. QED
      BY <1>2, <1>5, <2>2, <3>1
  <2>5. \A k \in 1..Len(new) : t[n + k] = new[k]
    <3>1. \A k \in 1..Len(new) : n + k \in 1..Len(first)
      BY <1>2, <1>3, <2>2
    <3>2. QED
      BY <1>5, <2>2, <3>1
  <2>6. \A i \in 1..Len(t) : i \in 1..n \/ i = Len(t) \/ \E k \in 1..Len(new) : i = n + k
    <3>1. \A i \in 1..Len(t) : i \in 1..Len(first) \/ i = Len(t)
      BY <1>5
    <3>2. QED
      BY <2>2, <3>1
  <2>7. QED
    BY <2>3, <2>4, <2>5, <2>6
<1>10. QED
  BY <1>5, <1>6, <1>8, <1>9 DEF t

LEMMA BlankedText ==
  ASSUME NEW text \in Seq(Line), NEW row \in Nat
  PROVE  LET t == Blanked(text, row) IN
         /\ t \in Seq(Line) /\ Len(t) = Len(text)
         /\ \A i \in 1..Len(text) :
              t[i] = IF i = row \/ (i = row - 1 /\ text[i].what = "comment") THEN Blank ELSE text[i]
BY BlankLine DEF Blanked

LEMMA UpdatedText ==
  ASSUME NEW text \in Seq(Line), NEW row \in 1..Len(text), NEW line \in Line
  PROVE  LET t == [text EXCEPT ![row] = line] IN
         /\ t \in Seq(Line) /\ Len(t) = Len(text)
         /\ \A i \in 1..Len(text) : t[i] = IF i = row THEN line ELSE text[i]
OBVIOUS

LEMMA RemovedText ==
  ASSUME NEW text \in Seq(Line), text # <<>>, NEW row \in 1..Len(text)
  PROVE  LET t == Removed(text, row) IN
         /\ t \in Seq(Line) /\ t # <<>>
         /\ \A i \in 1..Len(t) : t[i] = Blank \/ \E k \in 1..Len(text) : t[i] = text[k]
         /\ \A k \in 1..Len(text) : k # row => \E i \in 1..Len(t) : t[i] = text[k]
<1>1. CASE Len(text) = 1
  BY <1>1, BlankLine DEF Removed
<1>2. CASE Len(text) # 1
  <2> DEFINE t == SubSeq(text, 1, row - 1) \o SubSeq(text, row + 1, Len(text))
  <2>1. Removed(text, row) = t
    BY <1>2, Zenon DEF Removed, RemoveAt
  <2> DEFINE before == SubSeq(text, 1, row - 1)
             after == SubSeq(text, row + 1, Len(text))
  <2>2. /\ before \in Seq(Line) /\ Len(before) = row - 1
        /\ \A i \in 1..Len(before) : before[i] = text[i] /\ i \in 1..Len(text)
    OBVIOUS
  <2>3. /\ after \in Seq(Line) /\ Len(after) = Len(text) - row
        /\ \A i \in 1..Len(after) : after[i] = text[row + i] /\ row + i \in 1..Len(text)
    OBVIOUS
  <2> HIDE DEF before, after
  <2>4. /\ t \in Seq(Line) /\ Len(t) = Len(before) + Len(after)
        /\ Len(before) \in Nat /\ Len(after) \in Nat
        /\ \A i \in 1..Len(before) : t[i] = before[i]
        /\ \A i \in 1..Len(after) : t[Len(before) + i] = after[i]
        /\ \A i \in 1..Len(t) : i \in 1..Len(before) \/ \E k \in 1..Len(after) : i = Len(before) + k
    BY <2>2, <2>3, Joined, Zenon DEF before, after
  <2> HIDE DEF t
  <2>5. t # <<>>
    BY <1>2, <2>2, <2>3, <2>4
  <2>6. \A i \in 1..Len(t) : \E k \in 1..Len(text) : t[i] = text[k]
    BY <2>2, <2>3, <2>4, ZenonT(60)
  <2>7. ASSUME NEW k \in 1..Len(text), k # row
        PROVE  \E i \in 1..Len(t) : t[i] = text[k]
    <3>1. CASE k < row
      <4>1. k \in 1..Len(before) /\ k \in 1..Len(t)
        BY <2>2, <2>4, <3>1
      <4>2. QED
        BY <2>2, <2>4, <4>1
    <3>2. CASE k > row
      <4>1. PICK i \in 1..Len(after) : row + i = k
        <5>1. k - row \in 1..Len(after) /\ row + (k - row) = k
          BY <2>3, <3>2
        <5>2. QED
          BY <5>1
      <4>2. Len(before) + i \in 1..Len(t)
        BY <2>4
      <4>3. t[Len(before) + i] = text[k]
        BY <2>3, <2>4, <4>1, Zenon
      <4>4. QED
        BY <4>2, <4>3
    <3>3. QED
      BY <2>7, <3>1, <3>2
  <2>8. QED
    BY <2>1, <2>4, <2>5, <2>6, <2>7
<1>3. QED
  BY <1>1, <1>2

LEMMA CronInitial == CronInit => CronInv
<1> SUFFICES ASSUME CronInit
             PROVE  CronInv
  OBVIOUS
<1>1. /\ JobLine(1) \in Line /\ JobLine(2) \in Line /\ Comment(1) \in Line /\ Blank \in Line
      /\ JobLine(1).job = 1 /\ JobLine(2).job = 2 /\ Comment(1).job = 1 /\ Blank.job = 0
      /\ JobLine(2).what = "job" /\ Comment(1).what = "comment" /\ Blank.what = "blank"
      /\ JobLine(1).what = "job"
  BY JobLines, BlankLine
<1>2. /\ lines \in Seq(Line) /\ lines # <<>> /\ NoneAbove(lines, 2) /\ Last(lines) = Blank
      /\ \A i \in Nat : JobRow(lines, i) => i < Len(lines)
      /\ crontab = "file" => \A i \in 1..Len(lines) :
           lines[i].what = "comment" => lines[i + 1] = JobLine(lines[i].job)
  <2>1. CASE crontab = "file"
    <3>1. lines = <<Comment(1), JobLine(1), JobLine(2), Blank>>
      BY <2>1 DEF CronInit
    <3>2. QED
      BY <1>1, <3>1 DEF NoneAbove, JobRow, Last
  <2>2. CASE crontab # "file"
    <3>1. lines = <<JobLine(1), JobLine(2), Blank>>
      BY <2>2 DEF CronInit
    <3>2. QED
      BY <1>1, <2>2, <3>1 DEF NoneAbove, JobRow, Last
  <2>3. QED
    BY <2>1, <2>2
<1>3. CronShape
  <2>1. \A t \in Tabs : listed[t] = lines /\ change[t] = NoChange
    BY DEF CronInit
  <2>2. NoChange \in [op : {"none", "add", "delete", "update"}, row : Nat, job : Nat,
                      text : Seq(Line), current : BOOLEAN]
    BY DEF NoChange
  <2>3. created \in 0..MaxJobs /\ created = 2
    BY CronAssumption DEF CronInit
  <2>4. /\ listed \in [Tabs -> Seq(Line)]
        /\ change \in [Tabs -> [op : {"none", "add", "delete", "update"}, row : Nat, job : Nat,
                                text : Seq(Line), current : BOOLEAN]]
    BY <1>2, <2>2 DEF CronInit
  <2>5. changes \in 0..MaxChanges
    BY CronAssumption DEF CronInit
  <2>6. crontab \in {"file", "spool"} /\ raced \in BOOLEAN
    BY Zenon DEF CronInit
  <2>7. QED
    BY <1>2, <2>1, <2>3, <2>4, <2>5, <2>6 DEF CronShape
<1>4. EndsBlank /\ CommentsStayWithTheirJob
  BY <1>2 DEF EndsBlank, CommentsStayWithTheirJob
<1>5. RowsKept
  <2>1. \A t \in Tabs : listed[t] = lines
    BY DEF CronInit
  <2>2. QED
    BY <1>2, <2>1 DEF RowsKept, JobRow
<1>6. QED
  BY <1>3, <1>4, <1>5 DEF CronInv

\* A tab lists the jobs again.
LEMMA ListStep ==
  ASSUME CronInv, NEW t \in Tabs, List(t)
  PROVE  CronInv'
<1> USE DEF CronInv
<1>1. /\ listed' = [listed EXCEPT ![t] = lines] /\ change[t] = NoChange
      /\ UNCHANGED <<crontab, lines, change, created, changes, raced>>
  BY DEF List
<1>2. listed' \in [Tabs -> Seq(Line)] /\ \A u \in Tabs : listed'[u] = IF u = t THEN lines ELSE listed[u]
  BY <1>1 DEF CronShape
<1>3. CronShape'
  BY <1>1, <1>2, Zenon DEF CronShape, Pending
<1>4. EndsBlank' /\ CommentsStayWithTheirJob'
  BY <1>1 DEF EndsBlank, CommentsStayWithTheirJob
<1>5. RowsKept'
  <2> SUFFICES ASSUME crontab = "file", ~raced, NEW u \in Tabs, NEW i \in Nat, JobRow(listed'[u], i)
               PROVE  /\ i < Len(lines) /\ lines[i] \in {listed'[u][i], Blank}
                      /\ \A v \in Tabs : JobRow(listed'[v], i) => listed'[v][i] = listed'[u][i]
    BY <1>1 DEF RowsKept
  <2>1. \A v \in Tabs : JobRow(listed[v], i) /\ JobRow(lines, i) => listed[v][i] = lines[i]
    BY BlankLine DEF RowsKept, JobRow
  <2>2. JobRow(lines, i) => i < Len(lines)
    <3>1. Last(lines) = Blank /\ Len(lines) \in Nat
      BY DEF EndsBlank, CronShape
    <3>2. QED
      BY <3>1, BlankLine DEF JobRow, Last
  <2>3. QED
    BY <1>2, <2>1, <2>2 DEF RowsKept
<1>6. QED
  BY <1>3, <1>4, <1>5

\* A job is appended to a file.
LEMMA AddToFileStep ==
  ASSUME CronInv, NEW t \in Tabs, AddToFile(t)
  PROVE  CronInv'
<1> USE DEF CronInv
<1> DEFINE j == created + 1
<1>1. /\ crontab = "file" /\ created < MaxJobs /\ changes < MaxChanges
      /\ created' = created + 1 /\ changes' = changes + 1
      /\ UNCHANGED <<crontab, listed, change, raced>>
  BY DEF AddToFile
<1>2. PICK new \in {<<JobLine(j)>>, <<Comment(j), JobLine(j)>>} : lines' = Appended(lines, new)
  BY DEF AddToFile
<1>3. /\ created \in Nat /\ j \in Nat /\ j > created
      /\ created' \in 0..MaxJobs /\ changes' \in 0..MaxChanges
  BY <1>1, CronAssumption DEF CronShape
<1>4. /\ new \in Seq(Line) /\ new # <<>> /\ Len(new) \in Nat
      /\ \A k \in 1..Len(new) : new[k].job = j
      /\ \A k \in 1..Len(new) : new[k].what = "comment" => k + 1 \in 1..Len(new) /\ new[k + 1] = JobLine(j)
  <2> HIDE DEF j
  <2>1. /\ JobLine(j) \in Line /\ JobLine(j).what = "job" /\ JobLine(j).job = j
        /\ Comment(j) \in Line /\ Comment(j).what = "comment" /\ Comment(j).job = j
    BY <1>3, JobLines
  <2>2. CASE new = <<JobLine(j)>>
    BY <2>1, <2>2
  <2>3. CASE new = <<Comment(j), JobLine(j)>>
    BY <2>1, <2>3
  <2>4. QED
    BY <2>2, <2>3
<1> DEFINE n == Len(Front(lines))
<1>5. /\ lines' \in Seq(Line) /\ lines' # <<>> /\ Last(lines') = Blank
      /\ \A i \in 1..Len(lines') : \/ \E k \in 1..Len(lines) : lines'[i] = lines[k]
                                   \/ \E k \in 1..Len(new) : lines'[i] = new[k]
                                   \/ lines'[i] = Blank
      /\ Last(lines) = Blank =>
           /\ Len(lines') = n + Len(new) + 1
           /\ \A i \in 1..n : lines'[i] = lines[i]
           /\ \A k \in 1..Len(new) : lines'[n + k] = new[k]
           /\ \A i \in 1..Len(lines') : i \in 1..n \/ i = Len(lines') \/ \E k \in 1..Len(new) : i = n + k
  <2>1. lines \in Seq(Line) /\ lines # <<>>
    BY DEF CronShape
  <2>2. QED
    BY <1>2, <1>4, <2>1, AppendedText
<1>6. n \in Nat /\ Len(lines) = n + 1
  BY FrontText DEF CronShape
<1> HIDE DEF n, j
<1>7. NoneAbove(lines', created') /\ \A text \in Seq(Line) : NoneAbove(text, created) => NoneAbove(text, created')
  <2>1. \A l \in Line : l.job \in Nat
    BY DEF Line
  <2>2. \A text \in Seq(Line) : \A i \in 1..Len(text) : text[i] \in Line
    OBVIOUS
  <2>3. \A text \in Seq(Line) : NoneAbove(text, created) => NoneAbove(text, created')
    BY <1>1, <1>3, <2>1, <2>2 DEF NoneAbove
  <2>4. NoneAbove(lines, created') /\ \A k \in 1..Len(new) : new[k].job <= created'
    BY <1>1, <1>3, <1>4, <2>3 DEF CronShape, j
  <2>5. NoneAbove(lines', created')
    BY <1>1, <1>3, <1>5, <2>4, BlankLine DEF NoneAbove
  <2>6. QED
    BY <2>3, <2>5
<1>8. CronShape'
  <2>1. ASSUME NEW u \in Tabs, change[u] # NoChange
        PROVE  Pending(u)'
    <3>1. Pending(u) /\ change[u].text \in Seq(Line) /\ change[u].job \in Nat
      BY <2>1, Zenon DEF CronShape
    <3>2. change[u].job <= created'
      BY <1>1, <1>3, <3>1 DEF Pending
    <3>3. QED
      BY <1>1, <1>7, <3>1, <3>2 DEF Pending
  <2>2. QED
    BY <1>1, <1>3, <1>5, <1>7, <2>1, Zenon DEF CronShape
<1>9. EndsBlank'
  BY <1>5 DEF EndsBlank
<1>10. CASE raced
  BY <1>1, <1>8, <1>9, <1>10 DEF RowsKept, CommentsStayWithTheirJob
<1>11. CASE ~raced
  <2>1. Last(lines) = Blank
    BY <1>11 DEF EndsBlank
  <2>2. RowsKept'
    <3> SUFFICES ASSUME NEW u \in Tabs, NEW i \in Nat, JobRow(listed[u], i)
                 PROVE  /\ i < Len(lines') /\ lines'[i] \in {listed[u][i], Blank}
                        /\ \A v \in Tabs : JobRow(listed[v], i) => listed[v][i] = listed[u][i]
      BY <1>1 DEF RowsKept
    <3>1. /\ i < Len(lines) /\ lines[i] \in {listed[u][i], Blank}
          /\ \A v \in Tabs : JobRow(listed[v], i) => listed[v][i] = listed[u][i]
      BY <1>1, <1>11 DEF RowsKept
    <3>2. i \in 1..n /\ i < Len(lines')
      BY <1>4, <1>5, <1>6, <2>1, <3>1 DEF JobRow
    <3>3. QED
      BY <1>5, <2>1, <3>1, <3>2
  <2>3. CommentsStayWithTheirJob'
    <3> SUFFICES ASSUME NEW i \in 1..Len(lines'), lines'[i].what = "comment"
                 PROVE  lines'[i + 1] = JobLine(lines'[i].job)
      BY DEF CommentsStayWithTheirJob
    <3>1. CASE i \in 1..n
      <4>1. lines[i].what = "comment" /\ lines[i + 1] = JobLine(lines[i].job) /\ lines[i + 1] # Blank
        <5>1. lines[i].what = "comment" /\ i \in 1..Len(lines)
          BY <1>5, <1>6, <2>1, <3>1
        <5>2. lines[i + 1] = JobLine(lines[i].job)
          BY <1>1, <1>11, <5>1 DEF CommentsStayWithTheirJob
        <5>3. lines[i] \in Line
          BY <5>1 DEF CronShape
        <5>4. lines[i].job \in Nat
          BY <5>3 DEF Line
        <5>5. QED
          BY <5>1, <5>2, <5>4, JobLines, BlankLine
      <4>2. i + 1 \in 1..n
        BY <1>6, <2>1, <3>1, <4>1 DEF Last
      <4>3. QED
        BY <1>5, <2>1, <3>1, <4>1, <4>2
    <3>2. CASE i = Len(lines')
      BY <1>5, <3>2, BlankLine DEF Last
    <3>3. ASSUME NEW k \in 1..Len(new), i = n + k
          PROVE  lines'[i + 1] = JobLine(lines'[i].job)
      <4>1. lines'[i] = new[k] /\ k + 1 \in 1..Len(new) /\ new[k + 1] = JobLine(j) /\ new[k].job = j
        BY <1>4, <1>5, <2>1, <3>3
      <4>2. lines'[n + (k + 1)] = new[k + 1]
        BY <1>5, <2>1, <4>1
      <4>3. n + (k + 1) = i + 1
        BY <1>6, <3>3
      <4>4. QED
        BY <4>1, <4>2, <4>3
    <3>4. QED
      BY <1>5, <2>1, <3>1, <3>2, <3>3
  <2>4. QED
    BY <1>8, <1>9, <2>2, <2>3
<1>12. QED
  BY <1>10, <1>11

\* A request has read the text.
LEMMA ReadStep ==
  ASSUME CronInv, NEW t \in Tabs, ReadToAdd(t) \/ ReadToChange(t)
  PROVE  CronInv'
<1> USE DEF CronInv
<1> DEFINE Changes == [op : {"none", "add", "delete", "update"}, row : Nat, job : Nat,
                       text : Seq(Line), current : BOOLEAN]
<1>1. /\ UNCHANGED <<crontab, lines, listed, raced>>
      /\ changes' = changes + 1 /\ changes < MaxChanges
      /\ created' \in {created, created + 1}
      /\ created' = created \/ created < MaxJobs
  BY DEF ReadToAdd, ReadToChange
<1>2. created' \in 0..MaxJobs /\ changes' \in 0..MaxChanges /\ created \in Nat /\ created' >= created
  BY <1>1, CronAssumption DEF CronShape
<1>3. \A text \in Seq(Line) : NoneAbove(text, created) => NoneAbove(text, created')
  <2>1. \A l \in Line : l.job \in Nat
    BY DEF Line
  <2>2. \A text \in Seq(Line) : \A i \in 1..Len(text) : text[i] \in Line
    OBVIOUS
  <2>3. QED
    BY <1>2, <2>1, <2>2 DEF NoneAbove
<1>4. PICK c \in Changes :
        /\ change' = [change EXCEPT ![t] = c]
        /\ c.text # <<>> /\ NoneAbove(c.text, created) /\ c.job <= created'
        /\ \/ c.op = "add" /\ crontab = "spool"
           \/ /\ c.op \in {"delete", "update"}
              /\ JobRow(listed[t], c.row) /\ listed[t][c.row].job = c.job
              /\ c.current => c.text = listed[t]
  <2>1. CASE ReadToAdd(t)
    <3>1. PICK text \in {lines, <<Blank>>} :
            change' = [change EXCEPT ![t] = [op |-> "add", row |-> 0, job |-> created + 1,
                                             text |-> text, current |-> TRUE]]
      BY <2>1, Zenon DEF ReadToAdd
    <3>2. text \in Seq(Line) /\ text # <<>> /\ NoneAbove(text, created)
      <4>1. CASE text = lines
        BY <4>1 DEF CronShape
      <4>2. CASE text = <<Blank>>
        BY <1>2, <4>2, BlankLine DEF NoneAbove
      <4>3. QED
        BY <4>1, <4>2
    <3> DEFINE c == [op |-> "add", row |-> 0, job |-> created + 1, text |-> text, current |-> TRUE]
    <3>3. /\ c \in Changes /\ c.text = text /\ c.job = created + 1 /\ c.op = "add"
      BY <1>2, <3>2
    <3>4. created' = created + 1 /\ crontab = "spool"
      BY <2>1 DEF ReadToAdd
    <3>5. c.job <= created'
      BY <1>2, <3>3, <3>4
    <3> HIDE DEF c
    <3>6. QED
      BY <3>1, <3>2, <3>3, <3>4, <3>5, Zenon DEF c
  <2>2. CASE ReadToChange(t)
    <3>1. PICK op \in {"delete", "update"}, row \in 1..Len(listed[t]) :
            /\ IsJob(listed[t], row)
            /\ change' = [change EXCEPT ![t] = [op |-> op, row |-> row, job |-> listed[t][row].job,
                                                text |-> lines, current |-> listed[t] = lines]]
      BY <2>2, Zenon DEF ReadToChange
    <3> DEFINE job == listed[t][row].job
               asListed == listed[t] = lines
               c == [op |-> op, row |-> row, job |-> job, text |-> lines, current |-> asListed]
    <3>2. listed[t] \in Seq(Line) /\ NoneAbove(listed[t], created) /\ listed[t][row] \in Line
      BY DEF CronShape
    <3>3. /\ row \in Nat /\ JobRow(listed[t], row)
      BY <3>1, <3>2 DEF IsJob, JobRow
    <3>4. job \in Nat /\ job <= created
      BY <3>2 DEF NoneAbove, Line
    <3>5. asListed \in BOOLEAN /\ lines \in Seq(Line)
      BY DEF CronShape
    <3>6. change' = [change EXCEPT ![t] = c]
      BY <3>1
    <3> HIDE DEF job, asListed
    <3>7. /\ c \in Changes /\ c.text = lines /\ c.job = job /\ c.op = op /\ c.row = row
          /\ c.current = asListed
      BY <3>3, <3>4, <3>5
    <3>8. created' = created
      BY <2>2 DEF ReadToChange
    <3> HIDE DEF c
    <3>9. QED
      BY <3>3, <3>4, <3>6, <3>7, <3>8, Zenon DEF CronShape, job, asListed
  <2>3. QED
    BY <2>1, <2>2
<1>5. ASSUME NEW u \in Tabs, change'[u] # NoChange
      PROVE  Pending(u)'
  <2>1. CASE u = t
    BY <1>1, <1>3, <1>4, <2>1 DEF CronShape, Pending
  <2>2. CASE u # t
    <3>1. change'[u] = change[u] /\ Pending(u) /\ change[u].text \in Seq(Line) /\ change[u].job \in Nat
      BY <1>4, <1>5, <2>2, Zenon DEF CronShape
    <3>2. change[u].job <= created'
      BY <1>2, <3>1 DEF Pending
    <3>3. QED
      BY <1>1, <1>3, <3>1, <3>2 DEF Pending
  <2>3. QED
    BY <2>1, <2>2
<1>6. CronShape'
  BY <1>1, <1>2, <1>3, <1>4, <1>5, Zenon DEF CronShape
<1>7. EndsBlank' /\ RowsKept' /\ CommentsStayWithTheirJob'
  BY <1>1 DEF EndsBlank, RowsKept, CommentsStayWithTheirJob
<1>8. QED
  BY <1>6, <1>7

\* What a request may write: a text again, of jobs there are.
LEMMA ResultShape ==
  ASSUME CronShape, NEW t \in Tabs, change[t] # NoChange, InRange(change[t])
  PROVE  /\ Result(change[t]) \in Seq(Line) /\ Result(change[t]) # <<>>
         /\ NoneAbove(Result(change[t]), created)
<1> DEFINE c == change[t]
           text == c.text
<1>1. /\ text \in Seq(Line) /\ text # <<>> /\ NoneAbove(text, created)
      /\ c.job \in Nat /\ c.job <= created /\ c.row \in Nat /\ created \in Nat
      /\ c.op \in {"add", "delete", "update"}
      /\ c.op # "add" => c.row \in 1..Len(text)
  BY DEF CronShape, Pending, InRange
<1>2. /\ JobLine(c.job) \in Line /\ JobLine(c.job).job = c.job
      /\ Blank \in Line /\ Blank.job = 0
  BY <1>1, JobLines, BlankLine
<1> HIDE DEF text
<1>3. CASE c.op = "add"
  <2> DEFINE new == <<JobLine(c.job)>>
  <2>1. Result(c) = Appended(text, new)
    BY <1>3 DEF Result, text
  <2>2. new \in Seq(Line) /\ new # <<>> /\ \A k \in 1..Len(new) : new[k].job = c.job
    BY <1>2
  <2> HIDE DEF new
  <2> DEFINE result == Appended(text, new)
  <2>3. /\ result \in Seq(Line) /\ result # <<>>
        /\ \A i \in 1..Len(result) : \/ \E k \in 1..Len(text) : result[i] = text[k]
                                     \/ \E k \in 1..Len(new) : result[i] = new[k]
                                     \/ result[i] = Blank
    BY <1>1, <2>2, AppendedText
  <2> HIDE DEF result
  <2>4. ASSUME NEW i \in 1..Len(result)
        PROVE  result[i].job <= created
    <3>1. CASE \E k \in 1..Len(text) : result[i] = text[k]
      BY <1>1, <3>1 DEF NoneAbove
    <3>2. CASE \E k \in 1..Len(new) : result[i] = new[k]
      BY <1>1, <2>2, <3>2
    <3>3. CASE result[i] = Blank
      BY <1>1, <1>2, <3>3
    <3>4. QED
      BY <2>3, <3>1, <3>2, <3>3
  <2>5. QED
    BY <2>1, <2>3, <2>4 DEF result, NoneAbove
<1>4. CASE c.op = "delete"
  <2>1. Result(c) \in {Blanked(text, c.row), Removed(text, c.row)}
    BY <1>4 DEF Result, text
  <2>2. /\ Blanked(text, c.row) \in Seq(Line) /\ Blanked(text, c.row) # <<>>
        /\ NoneAbove(Blanked(text, c.row), created)
    BY <1>1, <1>2, BlankedText DEF NoneAbove
  <2>3. /\ Removed(text, c.row) \in Seq(Line) /\ Removed(text, c.row) # <<>>
        /\ NoneAbove(Removed(text, c.row), created)
    <3> DEFINE result == Removed(text, c.row)
    <3>1. /\ result \in Seq(Line) /\ result # <<>>
          /\ \A i \in 1..Len(result) : result[i] = Blank \/ \E k \in 1..Len(text) : result[i] = text[k]
      BY <1>1, <1>4, RemovedText
    <3> HIDE DEF result
    <3>2. NoneAbove(result, created)
      BY <1>1, <1>2, <3>1 DEF NoneAbove
    <3>3. QED
      BY <3>1, <3>2 DEF result
  <2>4. QED
    BY <2>1, <2>2, <2>3
<1>5. CASE c.op = "update"
  <2>1. Result(c) = [text EXCEPT ![c.row] = JobLine(c.job)]
    BY <1>5 DEF Result, text
  <2>2. QED
    BY <1>1, <1>2, <1>5, <2>1, UpdatedText DEF NoneAbove
<1>6. QED
  BY <1>1, <1>3, <1>4, <1>5

\* The last line of a result is empty if that of the text is.
LEMMA ResultEnds ==
  ASSUME CronShape, RowsKept, Last(lines) = Blank, ~raced,
         NEW t \in Tabs, change[t] # NoChange, InRange(change[t]), change[t].text = lines,
         crontab = "file"
  PROVE  /\ Last(Result(change[t])) = Blank
         /\ Len(Result(change[t])) = Len(lines)
         /\ \A i \in 1..Len(lines) :
              Result(change[t])[i] \in
                IF i = change[t].row THEN {JobLine(change[t].job), Blank} ELSE {lines[i], Blank}
<1> DEFINE c == change[t]
<1>1. /\ c.op \in {"delete", "update"} /\ c.row \in 1..Len(lines) /\ c.row \in Nat /\ c.job \in Nat
      /\ lines \in Seq(Line) /\ lines # <<>> /\ JobRow(listed[t], c.row)
  BY DEF CronShape, Pending, InRange
<1>2. c.row < Len(lines)
  BY <1>1 DEF RowsKept
<1>3. JobLine(c.job) \in Line
  BY <1>1, JobLines
<1>4. CASE c.op = "delete"
  <2>1. Result(c) = Blanked(lines, c.row)
    BY <1>4 DEF Result
  <2>2. QED
    BY <1>1, <1>2, <2>1, BlankedText, BlankLine DEF Last
<1>5. CASE c.op = "update"
  <2>1. Result(c) = [lines EXCEPT ![c.row] = JobLine(c.job)]
    BY <1>5 DEF Result
  <2>2. QED
    BY <1>1, <1>2, <1>3, <2>1, UpdatedText DEF Last
<1>6. QED
  BY <1>1, <1>4, <1>5, Zenon

LEMMA EndStepOfChange ==
  ASSUME CronInv, NEW t \in Tabs, WriteBack(t) \/ ChangeFails(t)
  PROVE  CronInv'
<1> USE DEF CronInv
<1> DEFINE c == change[t]
<1>1. /\ change' = [change EXCEPT ![t] = NoChange] /\ UNCHANGED <<crontab, listed, created, changes>>
      /\ c # NoChange
  BY DEF WriteBack, ChangeFails
<1>2. /\ change' \in [Tabs -> [op : {"none", "add", "delete", "update"}, row : Nat, job : Nat,
                               text : Seq(Line), current : BOOLEAN]]
      /\ \A u \in Tabs : change'[u] = NoChange \/ Pending(u)'
  <2>1. NoChange \in [op : {"none", "add", "delete", "update"}, row : Nat, job : Nat,
                      text : Seq(Line), current : BOOLEAN]
    BY DEF NoChange
  <2>2. change' \in [Tabs -> [op : {"none", "add", "delete", "update"}, row : Nat, job : Nat,
                              text : Seq(Line), current : BOOLEAN]]
    BY <1>1, <2>1 DEF CronShape
  <2>3. \A u \in Tabs : change'[u] = IF u = t THEN NoChange ELSE change[u]
    BY <1>1 DEF CronShape
  <2>4. QED
    BY <1>1, <2>2, <2>3, Zenon DEF CronShape, Pending
<1>3. CASE ChangeFails(t)
  <2>1. UNCHANGED <<lines, raced>>
    BY <1>3 DEF ChangeFails
  <2>2. QED
    BY <1>1, <1>2, <2>1 DEF CronShape, EndsBlank, RowsKept, CommentsStayWithTheirJob
<1>4. CASE WriteBack(t)
  <2> DEFINE new == Result(c)
  <2>1. /\ InRange(c) /\ lines' = new
        /\ crontab = "spool" => Last(new) = Blank
        /\ raced' = (raced \/ c.text # lines)
    BY <1>4 DEF WriteBack
  <2>2. new \in Seq(Line) /\ new # <<>> /\ NoneAbove(new, created)
    BY <1>1, <2>1, ResultShape
  <2>3. raced' \in BOOLEAN
    BY <2>1
  <2>4. CronShape'
    BY <1>1, <1>2, <2>1, <2>2, <2>3, Zenon DEF CronShape
  <2>5. CASE raced' \/ crontab = "spool"
    <3>1. EndsBlank'
      BY <2>1, <2>5 DEF EndsBlank
    <3>2. RowsKept' /\ CommentsStayWithTheirJob'
      BY <1>1, <2>5 DEF RowsKept, CommentsStayWithTheirJob
    <3>3. QED
      BY <2>4, <3>1, <3>2
  <2>6. CASE ~raced' /\ crontab = "file"
    <3>1. ~raced /\ c.text = lines /\ Last(lines) = Blank
      BY <2>1, <2>6, Zenon DEF EndsBlank
    <3>2. /\ Last(new) = Blank /\ Len(new) = Len(lines)
          /\ \A i \in 1..Len(lines) :
               new[i] \in IF i = c.row THEN {JobLine(c.job), Blank} ELSE {lines[i], Blank}
      BY <1>1, <2>1, <2>6, <3>1, ResultEnds, Zenon
    <3>3. /\ c.op \in {"delete", "update"} /\ c.row \in 1..Len(lines) /\ c.row \in Nat
          /\ c.job \in Nat /\ lines \in Seq(Line)
          /\ JobRow(listed[t], c.row) /\ listed[t][c.row].job = c.job /\ listed[t] \in Seq(Line)
      BY <1>1, <2>1, <2>6, <3>1 DEF CronShape, Pending, InRange
    <3>4. listed[t][c.row] = JobLine(c.job)
      <4>1. listed[t][c.row] \in Line
        BY <3>3 DEF JobRow
      <4>2. QED
        BY <3>3, <4>1, JobLines, Zenon DEF JobRow
    <3>5. lines[c.row] \in {JobLine(c.job), Blank}
      BY <2>6, <3>1, <3>3, <3>4 DEF RowsKept
    <3> HIDE DEF new
    <3>6. RowsKept'
      <4> SUFFICES ASSUME NEW u \in Tabs, NEW i \in Nat, JobRow(listed[u], i)
                   PROVE  /\ i < Len(new) /\ new[i] \in {listed[u][i], Blank}
                          /\ \A v \in Tabs : JobRow(listed[v], i) => listed[v][i] = listed[u][i]
        BY <1>1, <2>1 DEF RowsKept
      <4>1. /\ i < Len(lines) /\ lines[i] \in {listed[u][i], Blank}
            /\ \A v \in Tabs : JobRow(listed[v], i) => listed[v][i] = listed[u][i]
        BY <2>6, <3>1 DEF RowsKept
      <4>2. i \in 1..Len(lines)
        BY <3>3, <4>1 DEF JobRow
      <4>3. QED
        BY <3>2, <3>3, <3>4, <4>1, <4>2, Zenon
    <3>7. CommentsStayWithTheirJob'
      <4> SUFFICES ASSUME NEW i \in 1..Len(new), new[i].what = "comment"
                   PROVE  new[i + 1] = JobLine(new[i].job)
        BY <2>1 DEF CommentsStayWithTheirJob
      <4>1. i # c.row /\ new[i] = lines[i] /\ lines[i].what = "comment"
        BY <3>2, <3>3, JobLines, BlankLine, Zenon
      <4>2. lines[i + 1] = JobLine(lines[i].job)
        BY <2>6, <3>1, <3>2, <4>1 DEF CommentsStayWithTheirJob
      <4>3. lines[i] \in Line
        BY <3>2, <3>3
      <4>4. /\ lines[i].job \in Nat
            /\ JobLine(lines[i].job).what = "job" /\ JobLine(lines[i].job).job = lines[i].job
        <5>1. lines[i].job \in Nat
          BY <4>3 DEF Line
        <5>2. QED
          BY <5>1, JobLines
      <4>5. i + 1 \in 1..Len(lines)
        BY <3>1, <3>2, <3>3, <4>1, BlankLine DEF Last
      <4>6. CASE i + 1 = c.row
        <5>1. lines[i + 1] = JobLine(c.job) /\ lines[i + 1] # Blank
          BY <3>5, <4>2, <4>4, <4>6, BlankLine
        <5>2. CASE c.op = "delete"
          <6>1. new = Blanked(lines, c.row)
            BY <2>6, <3>1, <5>2 DEF Result, new
          <6>2. new[i] = Blank
            BY <3>2, <3>3, <4>1, <4>6, <6>1, BlankedText
          <6>3. QED
            BY <4>1, <6>2, BlankLine
        <5>3. CASE c.op = "update"
          <6>1. new = [lines EXCEPT ![c.row] = JobLine(c.job)]
            BY <3>1, <5>3 DEF Result, new
          <6>2. QED
            BY <3>3, <4>1, <4>2, <4>6, <5>1, <6>1
        <5>4. QED
          BY <3>3, <5>2, <5>3
      <4>7. CASE i + 1 # c.row
        <5>1. new[i + 1] \in {lines[i + 1], Blank}
          BY <3>2, <4>5, <4>7, Zenon
        <5>2. CASE c.op = "delete"
          <6>1. new = Blanked(lines, c.row)
            BY <2>6, <3>1, <5>2 DEF Result, new
          <6>2. new[i + 1] = lines[i + 1]
            BY <3>3, <4>2, <4>4, <4>5, <4>7, <6>1, BlankedText
          <6>3. QED
            BY <4>1, <4>2, <6>2
        <5>3. CASE c.op = "update"
          <6>1. new = [lines EXCEPT ![c.row] = JobLine(c.job)]
            BY <3>1, <5>3 DEF Result, new
          <6>2. QED
            BY <3>3, <4>1, <4>2, <4>5, <4>7, <6>1
        <5>4. QED
          BY <3>3, <5>2, <5>3
      <4>8. QED
        BY <4>6, <4>7
    <3>8. QED
      BY <2>1, <2>4, <3>2, <3>6, <3>7 DEF EndsBlank
  <2>7. QED
    BY <1>1, <2>4, <2>5, <2>6, Zenon DEF CronShape
<1>5. QED
  BY <1>3, <1>4

LEMMA AlwaysCronInv == CronSpec => []CronInv
<1>1. CronInv /\ [CronNext]_cronVars => CronInv'
  <2> SUFFICES ASSUME CronInv, [CronNext]_cronVars
               PROVE  CronInv'
    OBVIOUS
  <2>1. CASE UNCHANGED cronVars
    BY <2>1 DEF cronVars, CronInv, CronShape, Pending, EndsBlank, RowsKept, CommentsStayWithTheirJob
  <2>2. QED
    BY <2>1, ListStep, AddToFileStep, ReadStep, EndStepOfChange DEF CronNext
<1>2. QED
  BY <1>1, CronInitial, PTL DEF CronSpec

\* Every variable of the cron editor keeps its type; the crontab ends with a newline.
THEOREM CronTypeCorrect == CronSpec => []CronTypeOK
<1>1. CronInv => CronTypeOK
  <2> SUFFICES ASSUME CronInv
               PROVE  CronTypeOK
    OBVIOUS
  <2>1. ASSUME NEW i \in 1..Len(lines)
        PROVE  lines[i] \in [what : {"job", "comment", "blank"}, job : 0..created]
    <3>1. lines[i] \in Line /\ lines[i].job <= created /\ created \in Nat
      BY DEF CronInv, CronShape, NoneAbove
    <3>2. QED
      BY <3>1 DEF Line
  <2>2. QED
    BY <2>1 DEF CronInv, CronShape, EndsBlank, CronTypeOK
<1>2. QED
  BY <1>1, AlwaysCronInv, PTL

\* In a file a comment stays above its own job, for any number of tabs and however old
\* their lists, as long as no request writes back a text that has changed under it.
THEOREM CommentsAlwaysStay == CronSpec => []CommentsStayWithTheirJob
<1>1. CronInv => CommentsStayWithTheirJob
  BY DEF CronInv
<1>2. QED
  BY <1>1, AlwaysCronInv, PTL

\* Two texts with the same jobs but one.
LEMMA SameJobsBut ==
  ASSUME NEW a \in Seq(Line), NEW b \in Seq(Line), NEW j,
         \A i \in 1..Len(a) : a[i].what = "job" /\ a[i].job # j => \E k \in 1..Len(b) : b[k] = a[i],
         \A i \in 1..Len(b) : b[i].what = "job" /\ b[i].job # j => \E k \in 1..Len(a) : a[k] = b[i]
  PROVE  JobsIn(a) \ JobsIn(b) \subseteq {j} /\ JobsIn(b) \ JobsIn(a) \subseteq {j}
<1>1. \A text : \A x : x \in JobsIn(text) <=>
        \E i \in 1..Len(text) : text[i].what = "job" /\ text[i].job = x
  BY DEF JobsIn, IsJob
<1>2. \A x \in JobsIn(a) : x = j \/ x \in JobsIn(b)
  BY <1>1
<1>3. \A x \in JobsIn(b) : x = j \/ x \in JobsIn(a)
  BY <1>1
<1>4. QED
  BY <1>2, <1>3

\* What each change does to the jobs.
LEMMA AddedJob ==
  ASSUME NEW text \in Seq(Line), text # <<>>, Last(text) = Blank, NEW j \in Nat,
         NEW new \in Seq(Line), new = Appended(text, <<JobLine(j)>>)
  PROVE  JobsIn(text) \ JobsIn(new) \subseteq {j} /\ JobsIn(new) \ JobsIn(text) \subseteq {j}
<1>1. /\ JobLine(j) \in Line /\ JobLine(j).what = "job" /\ JobLine(j).job = j
      /\ Blank.what = "blank"
  BY JobLines, BlankLine
<1> DEFINE own == <<JobLine(j)>>
           n == Len(Front(text))
<1>2. /\ own \in Seq(Line) /\ own # <<>> /\ Len(own) = 1
      /\ \A k \in 1..Len(own) : own[k].job = j
  BY <1>1
<1>3. n \in Nat /\ Len(text) = n + 1
  BY FrontText
<1> HIDE DEF own
<1>4. /\ \A i \in 1..Len(new) :
           \/ \E k \in 1..Len(text) : new[i] = text[k]
           \/ \E k \in 1..Len(own) : new[i] = own[k]
           \/ new[i] = Blank
      /\ Len(new) = n + Len(own) + 1
      /\ \A i \in 1..n : new[i] = text[i]
  <2>1. new = Appended(text, own)
    BY DEF own
  <2>2. Last(text) = Blank =>
          /\ Len(Appended(text, own)) = n + Len(own) + 1
          /\ \A i \in 1..n : Appended(text, own)[i] = text[i]
    BY <1>2, AppendedText, Zenon
  <2>3. \A i \in 1..Len(Appended(text, own)) :
          \/ \E k \in 1..Len(text) : Appended(text, own)[i] = text[k]
          \/ \E k \in 1..Len(own) : Appended(text, own)[i] = own[k]
          \/ Appended(text, own)[i] = Blank
    BY <1>2, AppendedText, Zenon
  <2> HIDE DEF n
  <2>4. QED
    BY <2>1, <2>2, <2>3, Zenon
<1> HIDE DEF n
<1>5. \A i \in 1..Len(text) : text[i].what = "job" => \E k \in 1..Len(new) : new[k] = text[i]
  <2> SUFFICES ASSUME NEW i \in 1..Len(text), text[i].what = "job"
               PROVE  \E k \in 1..Len(new) : new[k] = text[i]
    OBVIOUS
  <2>1. i # Len(text)
    BY <1>1, Zenon DEF Last
  <2>2. i \in 1..n /\ i \in 1..Len(new)
    BY <1>2, <1>3, <1>4, <2>1
  <2>3. QED
    BY <1>4, <2>2
<1>6. \A i \in 1..Len(new) : new[i].what = "job" /\ new[i].job # j =>
        \E k \in 1..Len(text) : text[k] = new[i]
  BY <1>1, <1>2, <1>4, Zenon
<1>7. QED
  BY <1>5, <1>6, SameJobsBut, Zenon

LEMMA BlankedJob ==
  ASSUME NEW text \in Seq(Line), NEW row \in Nat, row \in 1..Len(text), NEW j \in Nat,
         text[row] \in {JobLine(j), Blank},
         NEW new \in Seq(Line), new = Blanked(text, row)
  PROVE  JobsIn(text) \ JobsIn(new) \subseteq {j} /\ JobsIn(new) \ JobsIn(text) \subseteq {j}
<1>1. /\ Len(new) = Len(text)
      /\ \A i \in 1..Len(text) :
           new[i] = IF i = row \/ (i = row - 1 /\ text[i].what = "comment") THEN Blank ELSE text[i]
  BY BlankedText
<1>2. JobLine(j).job = j /\ Blank.what = "blank"
  BY JobLines, BlankLine
<1>3. \A i \in 1..Len(text) : text[i].what = "job" /\ text[i].job # j =>
        \E k \in 1..Len(new) : new[k] = text[i]
  BY <1>1, <1>2
<1>4. \A i \in 1..Len(new) : new[i].what = "job" => \E k \in 1..Len(text) : text[k] = new[i]
  BY <1>1, <1>2
<1>5. QED
  BY <1>1, <1>3, <1>4, SameJobsBut, ZenonT(60)

LEMMA RemovedJob ==
  ASSUME NEW text \in Seq(Line), text # <<>>, NEW row \in 1..Len(text), NEW j \in Nat,
         text[row] \in {JobLine(j), Blank},
         NEW new \in Seq(Line), new = Removed(text, row)
  PROVE  JobsIn(text) \ JobsIn(new) \subseteq {j} /\ JobsIn(new) \ JobsIn(text) \subseteq {j}
<1>1. /\ \A i \in 1..Len(new) : new[i] = Blank \/ \E k \in 1..Len(text) : new[i] = text[k]
      /\ \A k \in 1..Len(text) : k # row => \E i \in 1..Len(new) : new[i] = text[k]
  BY RemovedText
<1>2. JobLine(j).job = j /\ Blank.what = "blank"
  BY JobLines, BlankLine
<1>3. \A i \in 1..Len(text) : text[i].what = "job" /\ text[i].job # j =>
        \E k \in 1..Len(new) : new[k] = text[i]
  BY <1>1, <1>2
<1>4. \A i \in 1..Len(new) : new[i].what = "job" => \E k \in 1..Len(text) : text[k] = new[i]
  BY <1>1, <1>2, Zenon
<1>5. QED
  BY <1>3, <1>4, SameJobsBut, ZenonT(60)

LEMMA UpdatedJob ==
  ASSUME NEW text \in Seq(Line), NEW row \in 1..Len(text), NEW j \in Nat,
         text[row] \in {JobLine(j), Blank},
         NEW new \in Seq(Line), new = [text EXCEPT ![row] = JobLine(j)]
  PROVE  JobsIn(text) \ JobsIn(new) \subseteq {j} /\ JobsIn(new) \ JobsIn(text) \subseteq {j}
<1>1. JobLine(j) \in Line /\ JobLine(j).job = j /\ Blank.what = "blank"
  BY JobLines, BlankLine
<1>2. /\ Len(new) = Len(text)
      /\ \A i \in 1..Len(text) : new[i] = IF i = row THEN JobLine(j) ELSE text[i]
  BY <1>1, UpdatedText
<1>3. \A i \in 1..Len(text) : text[i].what = "job" /\ text[i].job # j =>
        \E k \in 1..Len(new) : new[k] = text[i]
  BY <1>1, <1>2
<1>4. \A i \in 1..Len(new) : new[i].job # j => \E k \in 1..Len(text) : text[k] = new[i]
  BY <1>1, <1>2
<1>5. QED
  BY <1>2, <1>3, <1>4, SameJobsBut, Zenon

\* A request changes no job but the one its tab showed, for any number of tabs: in a
\* file whatever the age of the list, in a spool when the list is current, as long as
\* no request writes back a text that has changed under it.
THEOREM OnlyTheJobEverShown == CronSpec => OnlyTheJobShown
<1> DEFINE Shown == \A t \in Tabs :
       LET c == change[t] IN
       /\ c # NoChange /\ change'[t] = NoChange /\ ~raced'
       /\ crontab = "file" \/ c.current
       => /\ JobsIn(lines) \ JobsIn(lines') \subseteq {c.job}
          /\ JobsIn(lines') \ JobsIn(lines) \subseteq {c.job}
<1>1. CronInv /\ [CronNext]_cronVars => [Shown]_cronVars
  <2> SUFFICES ASSUME CronInv, CronNext,
                      NEW t \in Tabs,
                      change[t] # NoChange, change'[t] = NoChange, ~raced',
                      crontab = "file" \/ change[t].current
               PROVE  /\ JobsIn(lines) \ JobsIn(lines') \subseteq {change[t].job}
                      /\ JobsIn(lines') \ JobsIn(lines) \subseteq {change[t].job}
    OBVIOUS
  <2> USE DEF CronInv
  <2> DEFINE c == change[t]
             new == Result(c)
  <2>1. ChangeFails(t) \/ WriteBack(t)
    BY SMTT(30) DEF CronNext, List, AddToFile, ReadToAdd, ReadToChange, WriteBack, ChangeFails, CronShape
  <2>2. CASE ChangeFails(t)
    BY <2>2 DEF ChangeFails
  <2>3. CASE WriteBack(t)
    <3>1. InRange(c) /\ lines' = new /\ ~raced /\ c.text = lines
      BY <2>3, Zenon DEF WriteBack
    <3>2. /\ Last(lines) = Blank /\ lines \in Seq(Line) /\ lines # <<>> /\ new \in Seq(Line)
          /\ c.job \in Nat /\ c.row \in Nat /\ c.op \in {"add", "delete", "update"}
          /\ crontab \in {"file", "spool"}
      BY <3>1, ResultShape, Zenon DEF EndsBlank, CronShape, Pending
    <3>3. CASE c.op = "add"
      <4>1. new = Appended(lines, <<JobLine(c.job)>>)
        BY <3>1, <3>3 DEF Result
      <4> HIDE DEF new
      <4>2. QED
        BY <3>1, <3>2, <4>1, AddedJob
    <3>4. CASE c.op # "add"
      <4>1. c.row \in 1..Len(lines) /\ JobRow(listed[t], c.row) /\ listed[t][c.row].job = c.job
        BY <3>1, <3>2, <3>4 DEF CronShape, Pending, InRange
      <4>2. listed[t][c.row] = JobLine(c.job)
        <5>1. listed[t] \in Seq(Line)
          BY DEF CronShape
        <5>2. listed[t][c.row] \in Line
          BY <4>1, <5>1 DEF JobRow
        <5>3. QED
          BY <3>2, <4>1, <5>2, JobLines DEF JobRow
      <4>3. lines[c.row] \in {JobLine(c.job), Blank}
        <5>1. CASE crontab = "file"
          BY <3>1, <3>2, <4>1, <4>2, <5>1 DEF RowsKept
        <5>2. CASE crontab = "spool"
          <6>1. c.current /\ c.text = listed[t]
            BY <3>2, <3>4, <5>2 DEF CronShape, Pending
          <6>2. QED
            BY <3>1, <4>2, <6>1
        <5>3. QED
          BY <3>2, <5>1, <5>2
      <4>4. \/ new = Blanked(lines, c.row) \/ new = Removed(lines, c.row)
            \/ new = [lines EXCEPT ![c.row] = JobLine(c.job)]
        BY <3>1, <3>2, <3>4 DEF Result
      <4> HIDE DEF new
      <4>5. QED
        BY <3>1, <3>2, <4>1, <4>3, <4>4, BlankedJob, RemovedJob, UpdatedJob
    <3>5. QED
      BY <3>3, <3>4
  <2>4. QED
    BY <2>1, <2>2, <2>3
<1>2. QED
  BY <1>1, AlwaysCronInv, PTL DEF CronSpec, OnlyTheJobShown

-----------------------------------------------------------------------------
(* Files.  What a page that is sure of its editor has there, or waits for, *)
(* and what is being written, is a text that its file may be given.        *)

\* A text that f may be given: its own, or one that f is excused for.
Fits(f, text) ==
  /\ text \in {f, "empty"} \/ f \in excused.foreign
  /\ text = "empty" => f \in excused.empty

FileTexts == FileNames \union {"empty"}
PageType == [rows : SUBSET FileNames, open : FileNames \union {Closed}, text : FileTexts, sure : BOOLEAN]
AskedType == [path : FileNames, got : FileTexts \union {"waits", "fails"}]
WriteType == [pc : {"none", "asked", "writes", "moves"}, path : FileNames \union {Closed},
              text : FileTexts, upload : BOOLEAN]
FileShape ==
  /\ disk \in [FileNames -> FileTexts \union {"nothing", "directory"}]
  /\ fpage \in [FilePages -> PageType]
  /\ reads \in [FilePages -> Seq(AskedType)]
  /\ writing \in [FilePages -> WriteType]
  /\ \A t \in FilePages : writing[t].pc # "none" => writing[t].path \in FileNames
  /\ excused \in [foreign : SUBSET FileNames, empty : SUBSET FileNames]

\* A file is empty in the middle of a write, or excused.
Emptying(f) == \E t \in FilePages : writing[t].pc = "writes" /\ writing[t].path = f
DiskFits ==
  \A f \in FileNames : IsFile(disk[f]) =>
    /\ disk[f] \in {f, "empty"} \/ f \in excused.foreign
    /\ disk[f] = "empty" => Emptying(f) \/ f \in excused.empty

WritesFit == \A t \in FilePages : writing[t].pc # "none" => Fits(writing[t].path, writing[t].text)

\* What a page has in its editor, or is going to, when it is sure of it.
EditorFits(t) ==
  fpage[t].open # Closed /\ fpage[t].sure =>
    IF reads[t] = <<>> THEN Fits(fpage[t].open, fpage[t].text)
    ELSE /\ Len(reads[t]) = 1 /\ reads[t][1].path = fpage[t].open
         /\ reads[t][1].got \notin {"waits", "fails"} => Fits(fpage[t].open, reads[t][1].got)

FilesInv == FileShape /\ DiskFits /\ WritesFit /\ \A t \in FilePages : EditorFits(t)

LEMMA FileTypes ==
  ASSUME FileShape
  PROVE  /\ \A f \in FileNames : disk[f] \in FileTexts \union {"nothing", "directory"}
         /\ \A t \in FilePages :
              /\ fpage[t] \in PageType /\ reads[t] \in Seq(AskedType) /\ writing[t] \in WriteType
              /\ Len(reads[t]) \in Nat /\ \A i \in 1..Len(reads[t]) : reads[t][i] \in AskedType
         /\ excused.foreign \in SUBSET FileNames /\ excused.empty \in SUBSET FileNames
         /\ fpage \in [FilePages -> PageType] /\ reads \in [FilePages -> Seq(AskedType)]
         /\ writing \in [FilePages -> WriteType]
         /\ "nothing" \notin FileTexts /\ "directory" \notin FileTexts /\ Closed \notin FileNames
         /\ "empty" \in FileTexts /\ \A f \in FileNames : f \in FileTexts /\ f # "empty"
<1>1. /\ fpage \in [FilePages -> PageType] /\ reads \in [FilePages -> Seq(AskedType)]
      /\ writing \in [FilePages -> WriteType]
  BY DEF FileShape, PageType, AskedType, WriteType
<1>2. \A t \in FilePages : Len(reads[t]) \in Nat /\ \A i \in 1..Len(reads[t]) : reads[t][i] \in AskedType
  <2> SUFFICES ASSUME NEW t \in FilePages
               PROVE  Len(reads[t]) \in Nat /\ \A i \in 1..Len(reads[t]) : reads[t][i] \in AskedType
    OBVIOUS
  <2>1. reads[t] \in Seq(AskedType)
    BY <1>1
  <2> HIDE DEF AskedType
  <2>2. QED
    BY <2>1
<1>3. /\ excused.foreign \in SUBSET FileNames /\ excused.empty \in SUBSET FileNames
      /\ \A f \in FileNames : disk[f] \in FileTexts \union {"nothing", "directory"}
  BY DEF FileShape
<1>4. /\ "nothing" \notin FileTexts /\ "directory" \notin FileTexts /\ Closed \notin FileNames
      /\ "empty" \in FileTexts /\ \A f \in FileNames : f \in FileTexts /\ f # "empty"
  BY FilesAssumption DEF FileTexts
<1>5. QED
  BY <1>1, <1>2, <1>3, <1>4

\* Excuses are never withdrawn.
LEMMA StillFits ==
  ASSUME excused.foreign \subseteq excused'.foreign, excused.empty \subseteq excused'.empty
  PROVE  \A f, text : Fits(f, text) => Fits(f, text)'
BY DEF Fits

LEMMA PagesKept ==
  ASSUME FilesInv, NEW t \in FilePages, reads' = reads,
         excused.foreign \subseteq excused'.foreign, excused.empty \subseteq excused'.empty,
         \/ fpage' = fpage
         \/ \E rows \in SUBSET FileNames : fpage' = [fpage EXCEPT ![t] = Listed(@, rows)]
  PROVE  fpage' \in [FilePages -> PageType] /\ \A u \in FilePages : EditorFits(u)'
<1>0. FileShape /\ \A u \in FilePages : EditorFits(u)
  BY DEF FilesInv
<1>1. ASSUME fpage' = fpage
      PROVE  fpage' \in [FilePages -> PageType] /\ \A u \in FilePages : EditorFits(u)'
  BY <1>0, <1>1, FileTypes, StillFits DEF EditorFits
<1>2. ASSUME NEW rows \in SUBSET FileNames, fpage' = [fpage EXCEPT ![t] = Listed(@, rows)]
      PROVE  fpage' \in [FilePages -> PageType] /\ \A u \in FilePages : EditorFits(u)'
  <2>1. fpage[t] \in PageType /\ fpage \in [FilePages -> PageType]
    BY <1>0, FileTypes
  <2>2. Listed(fpage[t], rows) \in PageType /\ Listed(fpage[t], rows).open = Closed
    BY <2>1 DEF Listed, PageType
  <2>3. fpage' \in [FilePages -> PageType] /\ fpage'[t].open = Closed
        /\ \A u \in FilePages : u # t => fpage'[u] = fpage[u]
    BY <1>2, <2>1, <2>2
  <2>4. ASSUME NEW u \in FilePages PROVE EditorFits(u)'
    BY <1>0, <2>3, StillFits DEF EditorFits
  <2>5. QED
    BY <2>3, <2>4
<1>3. QED
  BY <1>1, <1>2

\* The steps of the page that only change what it shows.
LEMMA PageStep ==
  ASSUME FilesInv, NEW t \in FilePages, Browse(t) \/ Back(t)
  PROVE  FilesInv'
<1>0. FileShape /\ DiskFits /\ WritesFit
  BY DEF FilesInv
<1>1. UNCHANGED <<disk, reads, writing, excused>>
  BY DEF Browse, Back
<1>2. \E rows \in SUBSET FileNames : fpage' = [fpage EXCEPT ![t] = Listed(@, rows)]
  <2>1. CASE Browse(t)
    <3>1. FileRows \in SUBSET FileNames /\ fpage' = [fpage EXCEPT ![t] = Listed(@, FileRows)]
      BY <2>1 DEF Browse, FileRows
    <3>2. QED
      BY <3>1
  <2>2. CASE Back(t)
    <3> DEFINE r == fpage[t].rows
    <3>1. fpage[t] \in PageType
      BY <1>0, FileTypes
    <3>2. r \in SUBSET FileNames /\ [fpage[t] EXCEPT !.open = Closed] = Listed(fpage[t], r)
      BY <3>1 DEF PageType, Listed
    <3>3. fpage' = [fpage EXCEPT ![t] = Listed(@, r)]
      BY <2>2, <3>2 DEF Back
    <3> HIDE DEF r
    <3>4. QED
      BY <3>2, <3>3
  <2>3. QED
    BY <2>1, <2>2
<1>3. fpage' \in [FilePages -> PageType] /\ \A u \in FilePages : EditorFits(u)'
  BY <1>1, <1>2, PagesKept
<1>4. FileShape'
  BY <1>0, <1>1, <1>3 DEF FileShape, PageType
<1>5. DiskFits' /\ WritesFit'
  BY <1>0, <1>1 DEF DiskFits, WritesFit, Fits, Emptying, IsFile
<1>6. QED
  BY <1>3, <1>4, <1>5 DEF FilesInv

LEMMA EditorNow ==
  ASSUME NEW t \in FilePages, NEW p, NEW r, fpage'[t] = p, reads'[t] = r, excused' = excused,
         p.open # Closed /\ p.sure =>
           IF r = <<>> THEN Fits(p.open, p.text)
           ELSE /\ Len(r) = 1 /\ r[1].path = p.open
                /\ r[1].got \notin {"waits", "fails"} => Fits(p.open, r[1].got)
  PROVE  EditorFits(t)'
BY DEF EditorFits, Fits

\* Steps that touch one page and its requests to read.
LEMMA ReadingStep ==
  ASSUME FilesInv, NEW t \in FilePages, UNCHANGED <<disk, writing, excused>>,
         NEW p \in PageType, NEW r \in Seq(AskedType),
         fpage' = [fpage EXCEPT ![t] = p], reads' = [reads EXCEPT ![t] = r],
         EditorFits(t)'
  PROVE  FilesInv'
<1>0. FileShape /\ DiskFits /\ WritesFit /\ \A u \in FilePages : EditorFits(u)
  BY DEF FilesInv
<1>1. fpage' \in [FilePages -> PageType] /\ reads' \in [FilePages -> Seq(AskedType)]
  BY <1>0, FileTypes
<1>2. FileShape'
  BY <1>0, <1>1 DEF FileShape, PageType, AskedType
<1>3. DiskFits' /\ WritesFit'
  BY <1>0 DEF DiskFits, WritesFit, Fits, Emptying, IsFile
<1>4. ASSUME NEW u \in FilePages PROVE EditorFits(u)'
  <2>1. CASE u = t
    BY <2>1
  <2>2. CASE u # t
    <3>1. fpage'[u] = fpage[u] /\ reads'[u] = reads[u]
      BY <1>0, <2>2, FileTypes
    <3>2. QED
      BY <1>0, <3>1 DEF EditorFits, Fits
  <2>3. QED
    BY <2>1, <2>2
<1>5. QED
  BY <1>2, <1>3, <1>4 DEF FilesInv

LEMMA OpenFileStep ==
  ASSUME FilesInv, NEW t \in FilePages, NEW f \in FileNames, OpenFile(t, f)
  PROVE  FilesInv'
<1> DEFINE p == [fpage[t] EXCEPT !.open = f, !.sure = (reads[t] = <<>>)]
           e == [path |-> f, got |-> "waits"]
           r == Append(reads[t], e)
<1>0. FileShape
  BY DEF FilesInv
<1>1. /\ fpage[t] \in PageType /\ reads[t] \in Seq(AskedType)
      /\ fpage \in [FilePages -> PageType] /\ reads \in [FilePages -> Seq(AskedType)]
  BY <1>0, FileTypes
<1>2. p \in PageType /\ p.sure = (reads[t] = <<>>) /\ p.open = f
  <2>1. (reads[t] = <<>>) \in BOOLEAN
    OBVIOUS
  <2>2. QED
    BY <1>1, <2>1 DEF PageType
<1>3. e \in AskedType /\ e.path = f /\ e.got = "waits"
  BY DEF AskedType
<1>4. UNCHANGED <<disk, writing, excused>> /\ reads' = [reads EXCEPT ![t] = r]
  BY DEF OpenFile
<1>5. fpage' = [fpage EXCEPT ![t] = p]
  BY <1>1 DEF OpenFile
<1> HIDE DEF p, e
<1>6. r \in Seq(AskedType) /\ r # <<>> /\ (reads[t] = <<>> => Len(r) = 1 /\ r[1] = e)
  <2>1. r \in Seq(AskedType) /\ Len(r) = Len(reads[t]) + 1 /\ r[Len(reads[t]) + 1] = e /\ Len(reads[t]) \in Nat
    BY <1>1, <1>3
  <2>2. reads[t] = <<>> => Len(reads[t]) = 0
    OBVIOUS
  <2> HIDE DEF r
  <2>3. QED
    BY <2>1, <2>2
<1> HIDE DEF r
<1>7. fpage'[t] = p /\ reads'[t] = r
  BY <1>1, <1>4, <1>5
<1>8. EditorFits(t)'
  <2>1. p.sure => Len(r) = 1 /\ r[1].path = p.open /\ r[1].got = "waits"
    BY <1>2, <1>3, <1>6
  <2>2. QED
    BY <1>4, <1>6, <1>7, <2>1, EditorNow
<1>9. QED
  BY <1>2, <1>4, <1>5, <1>6, <1>8, ReadingStep

LEMMA FileReadStep ==
  ASSUME FilesInv, NEW t \in FilePages, NEW i \in 1..Len(reads[t]), Read(t, i)
  PROVE  FilesInv'
<1>0. FileShape /\ DiskFits /\ EditorFits(t)
  BY DEF FilesInv
<1>1. /\ fpage[t] \in PageType /\ reads[t] \in Seq(AskedType) /\ reads[t][i] \in AskedType
      /\ fpage \in [FilePages -> PageType] /\ reads \in [FilePages -> Seq(AskedType)]
      /\ Len(reads[t]) \in Nat
  BY <1>0, FileTypes
<1> DEFINE f == reads[t][i].path
           p == [fpage[t] EXCEPT !.sure = @ /\ ~BeingWritten(f)]
<1>2. f \in FileNames /\ disk[f] \in FileTexts \union {"nothing", "directory"}
  <2>1. f \in FileNames
    BY <1>1 DEF AskedType
  <2> HIDE DEF f
  <2>2. QED
    BY <1>0, <2>1, FileTypes
<1>3. PICK got \in FileTexts \union {"fails"} :
        /\ reads' = [reads EXCEPT ![t][i].got = got]
        /\ got = "fails" \/ (IsFile(disk[f]) /\ got = disk[f])
  <2>1. CASE reads' = [reads EXCEPT ![t][i].got = "fails"]
    BY <2>1
  <2>2. CASE IsFile(disk[f]) /\ reads' = [reads EXCEPT ![t][i].got = disk[f]]
    <3>1. disk[f] \in FileTexts
      BY <1>2, <2>2 DEF IsFile
    <3>2. QED
      BY <2>2, <3>1
  <2>3. QED
    BY <2>1, <2>2 DEF Read
<1> DEFINE e == [reads[t][i] EXCEPT !.got = got]
           r == [reads[t] EXCEPT ![i] = e]
<1>4. e \in AskedType /\ e.path = f /\ e.got = got
  BY <1>1 DEF AskedType
<1>5. UNCHANGED <<disk, writing, excused>> /\ reads' = [reads EXCEPT ![t] = r]
  BY <1>1, <1>3 DEF Read
<1>6. fpage' = [fpage EXCEPT ![t] = p]
  BY <1>1 DEF Read
<1>7. p \in PageType /\ p.open = fpage[t].open /\ (p.sure => fpage[t].sure /\ ~BeingWritten(f))
  <2> DEFINE b == fpage[t].sure /\ ~BeingWritten(f)
  <2>1. b \in BOOLEAN /\ p = [fpage[t] EXCEPT !.sure = b]
    OBVIOUS
  <2>2. b => fpage[t].sure /\ ~BeingWritten(f)
    OBVIOUS
  <2> HIDE DEF b, p
  <2>3. p \in PageType /\ p.open = fpage[t].open /\ p.sure = b
    BY <1>1, <2>1 DEF PageType
  <2>4. QED
    BY <2>2, <2>3
<1> HIDE DEF p, e
<1>8. /\ r \in Seq(AskedType) /\ Len(r) = Len(reads[t]) /\ (Len(reads[t]) = 1 => r[1] = e /\ i = 1)
      /\ r # <<>> /\ reads[t] # <<>>
  <2> HIDE DEF AskedType
  <2>1. QED
    BY <1>1, <1>4
<1> HIDE DEF r
<1>9. fpage'[t] = p /\ reads'[t] = r
  BY <1>1, <1>5, <1>6
<1>10. ASSUME p.open # Closed, p.sure
       PROVE  Len(r) = 1 /\ r[1].path = p.open /\ (got # "fails" => Fits(p.open, got))
  <2>1. Len(reads[t]) = 1 /\ reads[t][1].path = p.open /\ ~BeingWritten(f)
    BY <1>0, <1>7, <1>8, <1>10 DEF EditorFits
  <2>2. i = 1 /\ f = p.open /\ r[1] = e
    BY <1>8, <2>1
  <2>3. ASSUME got # "fails"
        PROVE  Fits(f, got)
    <3>1. IsFile(disk[f]) /\ got = disk[f]
      BY <1>3, <2>3
    <3>2. ~Emptying(f)
      BY <2>1 DEF Emptying, BeingWritten
    <3> HIDE DEF f
    <3>3. QED
      BY <1>0, <1>2, <3>1, <3>2 DEF DiskFits, Fits
  <2>4. QED
    BY <1>4, <1>8, <2>1, <2>2, <2>3
<1>11. EditorFits(t)'
  <2>1. p.open # Closed /\ p.sure => r[1].got = got
    BY <1>4, <1>8, <1>10
  <2>2. QED
    BY <1>5, <1>8, <1>9, <1>10, <2>1, EditorNow
<1>12. QED
  BY <1>5, <1>6, <1>7, <1>8, <1>11, ReadingStep

LEMMA AnswerRemoved ==
  ASSUME NEW S, NEW s \in Seq(S), NEW i \in 1..Len(s)
  PROVE  RemoveAt(s, i) \in Seq(S) /\ (Len(s) = 1 => RemoveAt(s, i) = <<>>)
<1>1. SubSeq(s, 1, i - 1) \in Seq(S) /\ SubSeq(s, i + 1, Len(s)) \in Seq(S)
  OBVIOUS
<1>2. Len(SubSeq(s, 1, i - 1)) = i - 1 /\ Len(SubSeq(s, i + 1, Len(s))) = Len(s) - i /\ Len(s) \in Nat
  OBVIOUS
<1> DEFINE a == SubSeq(s, 1, i - 1)
           b == SubSeq(s, i + 1, Len(s))
<1> HIDE DEF a, b
<1>3. a \in Seq(S) /\ b \in Seq(S) /\ Len(a) = i - 1 /\ Len(b) = Len(s) - i
  BY <1>1, <1>2 DEF a, b
<1>4. a \o b \in Seq(S) /\ Len(a \o b) = Len(a) + Len(b)
  BY <1>3
<1>5. Len(s) = 1 => Len(a \o b) = 0
  BY <1>2, <1>3, <1>4
<1>6. Len(s) = 1 => a \o b = <<>>
  BY <1>4, <1>5
<1>7. QED
  BY <1>4, <1>6 DEF RemoveAt, a, b

LEMMA AnsweredStep ==
  ASSUME FilesInv, NEW t \in FilePages, NEW i \in 1..Len(reads[t]), Answered(t, i)
  PROVE  FilesInv'
<1>0. FileShape /\ EditorFits(t)
  BY DEF FilesInv
<1> DEFINE got == reads[t][i].got
           text == TextAfter(fpage[t], got)
           p == [fpage[t] EXCEPT !.text = text, !.sure = @ /\ got # "fails"]
           r == RemoveAt(reads[t], i)
<1>1. /\ fpage[t] \in PageType /\ reads[t] \in Seq(AskedType) /\ reads[t][i] \in AskedType
      /\ fpage \in [FilePages -> PageType] /\ Len(reads[t]) \in Nat
  BY <1>0, FileTypes
<1>2. /\ got # "waits" /\ UNCHANGED <<disk, writing, excused>>
      /\ reads' = [reads EXCEPT ![t] = r]
  BY DEF Answered
<1>3. fpage' = [fpage EXCEPT ![t] = p]
  BY <1>1 DEF Answered
<1>4. got \in FileTexts \union {"waits", "fails"}
  BY <1>1 DEF AskedType
<1>5. text \in FileTexts /\ (got # "fails" => text = got)
  BY <1>1, <1>2, <1>4 DEF TextAfter, PageType
<1> HIDE DEF text
<1>6. p \in PageType /\ p.open = fpage[t].open /\ p.text = text /\ (p.sure => fpage[t].sure /\ got # "fails")
  <2> DEFINE b == fpage[t].sure /\ got # "fails"
  <2>1. b \in BOOLEAN /\ p = [fpage[t] EXCEPT !.text = text, !.sure = b]
    OBVIOUS
  <2>2. b => fpage[t].sure /\ got # "fails"
    OBVIOUS
  <2> HIDE DEF b, p
  <2>3. p \in PageType /\ p.open = fpage[t].open /\ p.text = text /\ p.sure = b
    BY <1>1, <1>5, <2>1 DEF PageType
  <2>4. QED
    BY <2>2, <2>3
<1>7. r \in Seq(AskedType) /\ (Len(reads[t]) = 1 => r = <<>>)
  BY <1>1, AnswerRemoved
<1>8. reads[t] # <<>> /\ (Len(reads[t]) = 1 => i = 1)
  BY <1>1
<1> HIDE DEF p, r
<1>9. fpage'[t] = p /\ reads'[t] = r
  BY <1>0, <1>1, <1>2, <1>3, FileTypes
<1>10. ASSUME p.open # Closed, p.sure
       PROVE  r = <<>> /\ Fits(p.open, p.text)
  <2>1. Len(reads[t]) = 1 /\ (reads[t][1].got \notin {"waits", "fails"} => Fits(p.open, reads[t][1].got))
    BY <1>0, <1>6, <1>8, <1>10 DEF EditorFits
  <2>2. QED
    BY <1>2, <1>5, <1>6, <1>7, <1>8, <1>10, <2>1
<1>11. EditorFits(t)'
  BY <1>2, <1>9, <1>10, EditorNow
<1>12. QED
  BY <1>2, <1>3, <1>6, <1>7, <1>11, ReadingStep

\* Steps that touch the disk, or what one page writes.
LEMMA EmptyingKept ==
  ASSUME FileShape, NEW t \in FilePages, NEW w \in WriteType, writing' = [writing EXCEPT ![t] = w],
         NEW f, Emptying(f), ~(writing[t].pc = "writes" /\ writing[t].path = f)
  PROVE  Emptying(f)'
<1>1. PICK u \in FilePages : writing[u].pc = "writes" /\ writing[u].path = f
  BY DEF Emptying
<1>2. u # t /\ writing'[u] = writing[u]
  BY <1>1, FileTypes
<1>3. QED
  BY <1>1, <1>2 DEF Emptying

LEMMA WritingStep ==
  ASSUME FilesInv, NEW t \in FilePages, reads' = reads,
         \/ fpage' = fpage
         \/ \E rows \in SUBSET FileNames : fpage' = [fpage EXCEPT ![t] = Listed(@, rows)],
         excused' \in [foreign : SUBSET FileNames, empty : SUBSET FileNames],
         excused.foreign \subseteq excused'.foreign, excused.empty \subseteq excused'.empty,
         NEW w \in WriteType, writing' = [writing EXCEPT ![t] = w],
         w.pc # "none" => w.path \in FileNames /\ Fits(w.path, w.text)',
         disk' \in [FileNames -> FileTexts \union {"nothing", "directory"}],
         \A f \in FileNames : IsFile(disk'[f]) =>
           \/ disk'[f] = disk[f] /\ (Emptying(f) => Emptying(f)' \/ f \in excused'.empty)
           \/ Fits(f, disk[f])'
           \/ disk'[f] = "empty" /\ Emptying(f)'
  PROVE  FilesInv'
<1>0. FileShape /\ DiskFits /\ WritesFit
  BY DEF FilesInv
<1>1. fpage' \in [FilePages -> PageType] /\ \A u \in FilePages : EditorFits(u)'
  BY PagesKept
<1>2. /\ writing \in [FilePages -> WriteType] /\ writing' \in [FilePages -> WriteType]
      /\ \A u \in FilePages : writing'[u] = IF u = t THEN w ELSE writing[u]
  BY <1>0, FileTypes
<1>3. FileShape'
  <2>1. \A u \in FilePages : writing'[u].pc # "none" => writing'[u].path \in FileNames
    BY <1>0, <1>2 DEF FileShape
  <2>2. QED
    BY <1>0, <1>1, <1>2, <2>1 DEF FileShape, PageType, WriteType
<1>4. WritesFit'
  <2>1. \A f, text : Fits(f, text) => Fits(f, text)'
    BY StillFits
  <2>2. ASSUME NEW u \in FilePages, (writing[u].pc # "none")'
        PROVE  Fits(writing[u].path, writing[u].text)'
    <3>1. CASE u = t
      <4>1. writing'[u] = w
        BY <1>2, <3>1
      <4>2. QED
        BY <2>2, <4>1 DEF Fits
    <3>2. CASE u # t
      <4>1. writing'[u] = writing[u]
        BY <1>2, <3>2
      <4>2. Fits(writing[u].path, writing[u].text)
        BY <1>0, <2>2, <4>1 DEF WritesFit
      <4>3. QED
        BY <4>1, <4>2 DEF Fits
    <3>3. QED
      BY <3>1, <3>2
  <2>3. QED
    BY <2>2 DEF WritesFit, Fits
<1>5. DiskFits'
  <2>1. ASSUME NEW f \in FileNames, IsFile(disk'[f])
        PROVE  /\ disk'[f] \in {f, "empty"} \/ f \in excused'.foreign
               /\ disk'[f] = "empty" => Emptying(f)' \/ f \in excused'.empty
    <3>1. CASE disk'[f] = disk[f] /\ (Emptying(f) => Emptying(f)' \/ f \in excused'.empty)
      <4>1. /\ disk[f] \in {f, "empty"} \/ f \in excused.foreign
            /\ disk[f] = "empty" => Emptying(f) \/ f \in excused.empty
        BY <1>0, <2>1, <3>1 DEF DiskFits
      <4>2. QED
        BY <3>1, <4>1
    <3>2. CASE Fits(f, disk[f])'
      BY <3>2 DEF Fits
    <3>3. CASE disk'[f] = "empty" /\ Emptying(f)'
      BY <3>3
    <3>4. QED
      BY <2>1, <3>1, <3>2, <3>3
  <2>2. QED
    BY <2>1 DEF DiskFits, IsFile
<1>6. QED
  BY <1>1, <1>3, <1>4, <1>5 DEF FilesInv

\* A write is asked for: the save of an editor, or an upload.
LEMMA AskedStep ==
  ASSUME FilesInv, NEW t \in FilePages, UNCHANGED <<disk, fpage, reads>>,
         excused' \in [foreign : SUBSET FileNames, empty : SUBSET FileNames],
         excused.foreign \subseteq excused'.foreign, excused.empty \subseteq excused'.empty,
         writing[t].pc = "none", NEW w \in WriteType, writing' = [writing EXCEPT ![t] = w],
         w.path \in FileNames, Fits(w.path, w.text)'
  PROVE  FilesInv'
<1>0. FileShape
  BY DEF FilesInv
<1>1. \A f \in FileNames : Emptying(f) => Emptying(f)'
  BY <1>0, EmptyingKept
<1>2. disk' \in [FileNames -> FileTexts \union {"nothing", "directory"}]
  BY <1>0 DEF FileShape
<1>3. \A f \in FileNames : disk'[f] = disk[f] /\ (Emptying(f) => Emptying(f)' \/ f \in excused'.empty)
  BY <1>1
<1>4. QED
  BY <1>2, <1>3, WritingStep

LEMMA SaveFileStep ==
  ASSUME FilesInv, NEW t \in FilePages, SaveFile(t)
  PROVE  FilesInv'
<1>0. FileShape /\ EditorFits(t)
  BY DEF FilesInv
<1> DEFINE f == fpage[t].open
           text == fpage[t].text
           w == [NoWrite EXCEPT !.pc = "asked", !.path = f, !.text = text]
           surely == fpage[t].sure /\ reads[t] = <<>>
<1>1. /\ f # Closed /\ writing[t].pc = "none" /\ UNCHANGED <<disk, fpage, reads>>
      /\ writing' = [writing EXCEPT ![t] = w]
      /\ excused' = [foreign |-> IF surely THEN excused.foreign ELSE excused.foreign \union {f},
                     empty |-> IF surely THEN excused.empty ELSE excused.empty \union {f}]
  BY DEF SaveFile
<1>2. fpage[t] \in PageType /\ excused.foreign \in SUBSET FileNames /\ excused.empty \in SUBSET FileNames
  BY <1>0, FileTypes
<1>3. f \in FileNames /\ text \in FileTexts
  BY <1>1, <1>2 DEF PageType
<1>4. surely => Fits(f, text)
  BY <1>0, <1>1 DEF EditorFits
<1> HIDE DEF surely
<1>5. /\ excused' \in [foreign : SUBSET FileNames, empty : SUBSET FileNames]
      /\ excused.foreign \subseteq excused'.foreign /\ excused.empty \subseteq excused'.empty
      /\ ~surely => f \in excused'.foreign /\ f \in excused'.empty
      /\ surely => excused'.foreign = excused.foreign /\ excused'.empty = excused.empty
  BY <1>1, <1>2, <1>3
<1>6. w \in WriteType /\ w.path = f /\ w.text = text
  BY <1>3 DEF NoWrite, WriteType
<1>7. PICK f0, text0, w0 : f0 = f /\ text0 = text /\ w0 = w
  OBVIOUS
<1> HIDE DEF f, text, w
<1>8. Fits(f0, text0)'
  BY <1>4, <1>5, <1>7 DEF Fits
<1>9. w0 \in WriteType /\ writing' = [writing EXCEPT ![t] = w0] /\ w0.path \in FileNames /\ Fits(w0.path, w0.text)'
  BY <1>1, <1>3, <1>6, <1>7, <1>8
<1>10. QED
  BY <1>1, <1>5, <1>9, AskedStep

LEMMA AskUploadStep ==
  ASSUME FilesInv, NEW t \in FilePages, NEW f \in FileNames, AskUpload(t, f)
  PROVE  FilesInv'
<1>0. FileShape
  BY DEF FilesInv
<1>1. PICK pc \in {"asked", "moves"} :
        writing' = [writing EXCEPT ![t] = [pc |-> pc, path |-> f, text |-> f, upload |-> TRUE]]
  BY DEF AskUpload
<1> DEFINE w == [pc |-> pc, path |-> f, text |-> f, upload |-> TRUE]
<1>2. w \in WriteType /\ w.path = f /\ w.text = f
  BY <1>0, FileTypes DEF WriteType
<1>3. Fits(f, f)'
  BY <1>0, FileTypes DEF Fits
<1>4. /\ excused' = excused /\ excused \in [foreign : SUBSET FileNames, empty : SUBSET FileNames]
      /\ writing[t].pc = "none" /\ UNCHANGED <<disk, fpage, reads>>
  BY <1>0 DEF AskUpload, FileShape
<1> HIDE DEF w
<1>5. writing' = [writing EXCEPT ![t] = w] /\ w.path \in FileNames /\ Fits(w.path, w.text)'
  BY <1>1, <1>2, <1>3 DEF w
<1>6. QED
  BY <1>2, <1>4, <1>5, AskedStep

LEMMA TruncateStep ==
  ASSUME FilesInv, NEW t \in FilePages, Truncate(t)
  PROVE  FilesInv'
<1>0. FileShape /\ WritesFit
  BY DEF FilesInv
<1>1. PICK g, w : g = writing[t].path /\ w = [writing[t] EXCEPT !.pc = "writes"]
  OBVIOUS
<1>2. /\ writing[t].pc = "asked" /\ UNCHANGED <<fpage, reads, excused>>
      /\ disk' = [disk EXCEPT ![g] = "empty"] /\ writing' = [writing EXCEPT ![t] = w]
  BY <1>0, <1>1, FileTypes DEF Truncate
<1>3. /\ writing[t] \in WriteType /\ "empty" \in FileTexts /\ writing \in [FilePages -> WriteType]
      /\ disk \in [FileNames -> FileTexts \union {"nothing", "directory"}]
      /\ excused \in [foreign : SUBSET FileNames, empty : SUBSET FileNames]
  BY <1>0, FileTypes DEF FileShape
<1>4. g \in FileNames /\ w \in WriteType /\ w.path = g /\ w.text = writing[t].text /\ w.pc = "writes"
  BY <1>0, <1>1, <1>2, <1>3 DEF FileShape, WriteType
<1>5. Fits(w.path, w.text)'
  BY <1>0, <1>1, <1>2, <1>4 DEF WritesFit, Fits
<1>6. disk' \in [FileNames -> FileTexts \union {"nothing", "directory"}]
      /\ \A f \in FileNames : disk'[f] = IF f = g THEN "empty" ELSE disk[f]
  BY <1>2, <1>3
<1>7. Emptying(g)'
  <2>1. writing'[t] = w
    BY <1>2, <1>3
  <2>2. QED
    BY <1>4, <2>1 DEF Emptying
<1>8. \A f \in FileNames : Emptying(f) => Emptying(f)'
  BY <1>0, <1>2, <1>4, EmptyingKept
<1>9. \A f \in FileNames :
        \/ disk'[f] = disk[f] /\ (Emptying(f) => Emptying(f)' \/ f \in excused'.empty)
        \/ disk'[f] = "empty" /\ Emptying(f)'
  BY <1>6, <1>7, <1>8
<1>10. QED
  BY <1>2, <1>3, <1>4, <1>5, <1>6, <1>9, WritingStep

\* A request to write that ends.
LEMMA WriteEnded ==
  ASSUME NEW t \in FilePages, WriteEnds(t)
  PROVE  /\ NoWrite \in WriteType /\ NoWrite.pc = "none"
         /\ writing' = [writing EXCEPT ![t] = NoWrite]
         /\ \/ fpage' = fpage
            \/ \E rows \in SUBSET FileNames : fpage' = [fpage EXCEPT ![t] = Listed(@, rows)]
<1>1. NoWrite \in WriteType /\ NoWrite.pc = "none"
  BY DEF NoWrite, WriteType, FileTexts
<1>2. ASSUME fpage' # fpage
      PROVE  \E rows \in SUBSET FileNames : fpage' = [fpage EXCEPT ![t] = Listed(@, rows)]
  <2>1. PICK rows : rows = FileRows'
    OBVIOUS
  <2>2. rows \in SUBSET FileNames
    BY <2>1 DEF FileRows
  <2>3. fpage' = [fpage EXCEPT ![t] = Listed(@, rows)]
    BY <1>2, <2>1 DEF WriteEnds
  <2>4. QED
    BY <2>2, <2>3
<1>3. QED
  BY <1>1, <1>2 DEF WriteEnds

LEMMA WriteStep ==
  ASSUME FilesInv, NEW t \in FilePages, Write(t) \/ Move(t)
  PROVE  FilesInv'
<1>0. FileShape /\ WritesFit
  BY DEF FilesInv
<1>1. PICK g, text : g = writing[t].path /\ text = writing[t].text
  OBVIOUS
<1>2. /\ writing[t].pc # "none" /\ UNCHANGED <<reads, excused>> /\ WriteEnds(t)
      /\ disk' = [disk EXCEPT ![g] = text] \/ disk' = disk
      /\ writing[t].pc = "writes" /\ IsFile(disk[g]) => disk' = [disk EXCEPT ![g] = text]
  <2>1. CASE Write(t)
    BY <1>1, <2>1 DEF Write
  <2>2. CASE Move(t)
    BY <1>1, <2>2 DEF Move
  <2>3. QED
    BY <2>1, <2>2
<1>3. /\ writing[t] \in WriteType /\ writing \in [FilePages -> WriteType]
      /\ disk \in [FileNames -> FileTexts \union {"nothing", "directory"}]
      /\ excused \in [foreign : SUBSET FileNames, empty : SUBSET FileNames]
  BY <1>0, FileTypes DEF FileShape
<1>4. g \in FileNames /\ text \in FileTexts /\ Fits(g, text)
  BY <1>0, <1>1, <1>2, <1>3 DEF FileShape, WriteType, WritesFit
<1>5. /\ disk' \in [FileNames -> FileTexts \union {"nothing", "directory"}]
      /\ \A f \in FileNames : f # g => disk'[f] = disk[f]
      /\ disk'[g] = disk[g] \/ disk'[g] = text
  BY <1>2, <1>3, <1>4
<1>6. ASSUME NEW f \in FileNames, IsFile(disk'[f])
      PROVE  \/ disk'[f] = disk[f] /\ (Emptying(f) => Emptying(f)' \/ f \in excused'.empty)
             \/ Fits(f, disk[f])'
  <2>1. CASE f # g \/ writing[t].pc # "writes"
    <3>1. Emptying(f) => Emptying(f)'
      BY <1>0, <1>1, <1>2, <2>1, WriteEnded, EmptyingKept
    <3>2. CASE disk'[f] = disk[f]
      BY <3>1, <3>2
    <3>3. CASE f = g /\ disk'[f] = text
      BY <1>2, <1>4, <3>3 DEF Fits
    <3>4. f # g => disk'[f] = disk[f]
      BY <1>5
    <3>5. f = g => disk'[f] = disk[f] \/ disk'[f] = text
      BY <1>5
    <3>6. QED
      BY <3>2, <3>3, <3>4, <3>5
  <2>2. CASE f = g /\ writing[t].pc = "writes"
    <3>1. CASE disk' = disk
      <4>1. IsFile(disk[g])
        BY <1>6, <2>2, <3>1
      <4>2. disk'[g] = text
        BY <1>2, <1>3, <1>4, <2>2, <4>1
      <4>3. QED
        BY <1>2, <1>4, <2>2, <4>2 DEF Fits
    <3>2. CASE disk' = [disk EXCEPT ![g] = text]
      <4>1. disk'[g] = text
        BY <1>3, <1>4, <3>2
      <4>2. QED
        BY <1>2, <1>4, <2>2, <4>1 DEF Fits
    <3>3. QED
      BY <1>2, <3>1, <3>2
  <2>3. QED
    BY <2>1, <2>2
<1>7. QED
  BY <1>2, <1>3, <1>5, <1>6, WriteEnded, WritingStep

LEMMA WriteFailsStep ==
  ASSUME FilesInv, NEW t \in FilePages, WriteFails(t)
  PROVE  FilesInv'
<1>0. FileShape
  BY DEF FilesInv
<1>1. PICK g : g = writing[t].path
  OBVIOUS
<1>2. /\ writing[t].pc # "none" /\ UNCHANGED <<disk, reads>> /\ WriteEnds(t)
      /\ excused' = IF writing[t].pc = "writes" THEN [excused EXCEPT !.empty = @ \union {g}] ELSE excused
  BY <1>1 DEF WriteFails
<1>3. /\ disk' \in [FileNames -> FileTexts \union {"nothing", "directory"}] /\ g \in FileNames
      /\ excused \in [foreign : SUBSET FileNames, empty : SUBSET FileNames]
  BY <1>0, <1>1, <1>2 DEF FileShape
<1>4. /\ excused' \in [foreign : SUBSET FileNames, empty : SUBSET FileNames]
      /\ excused.foreign \subseteq excused'.foreign /\ excused.empty \subseteq excused'.empty
      /\ writing[t].pc = "writes" => g \in excused'.empty
  BY <1>2, <1>3
<1>5. \A f \in FileNames :
        disk'[f] = disk[f] /\ (Emptying(f) => Emptying(f)' \/ f \in excused'.empty)
  <2> SUFFICES ASSUME NEW f \in FileNames, Emptying(f), f \notin excused'.empty
               PROVE  Emptying(f)'
    BY <1>2
  <2>1. ~(writing[t].pc = "writes" /\ writing[t].path = f)
    BY <1>1, <1>4
  <2>2. QED
    BY <1>0, <1>2, <2>1, WriteEnded, EmptyingKept
<1>6. QED
  BY <1>2, <1>3, <1>4, <1>5, WriteEnded, WritingStep

\* Deleting, and new folders.
LEMMA DirectoryStep ==
  ASSUME FilesInv, NEW t \in FilePages, NEW g \in FileNames, DeleteEntry(t, g) \/ Mkdir(t, g)
  PROVE  FilesInv'
<1>0. FileShape /\ WritesFit
  BY DEF FilesInv
<1>1. PICK rows, w : rows = FileRows' /\ w = writing[t]
  OBVIOUS
<1>2. rows \in SUBSET FileNames
  BY <1>1 DEF FileRows
<1>3. /\ UNCHANGED <<reads, writing, excused>>
      /\ fpage' = fpage \/ fpage' = [fpage EXCEPT ![t] = Listed(@, rows)]
      /\ \/ disk' = disk \/ disk' = [disk EXCEPT ![g] = "nothing"]
         \/ disk' = [disk EXCEPT ![g] = "directory"]
  BY <1>1 DEF DeleteEntry, Mkdir
<1>4. /\ disk \in [FileNames -> FileTexts \union {"nothing", "directory"}]
      /\ excused \in [foreign : SUBSET FileNames, empty : SUBSET FileNames]
      /\ writing \in [FilePages -> WriteType] /\ w \in WriteType
      /\ w.pc # "none" => w.path \in FileNames
  BY <1>0, <1>1, FileTypes DEF FileShape
<1>5. writing' = [writing EXCEPT ![t] = w]
  BY <1>1, <1>3, <1>4
<1>6. w.pc # "none" => Fits(w.path, w.text)'
  BY <1>0, <1>1, <1>3 DEF WritesFit, Fits
<1>7. disk' \in [FileNames -> FileTexts \union {"nothing", "directory"}]
      /\ \A f \in FileNames : IsFile(disk'[f]) => disk'[f] = disk[f]
  BY <1>3, <1>4 DEF IsFile
<1>8. \A f \in FileNames : Emptying(f) => Emptying(f)'
  BY <1>3 DEF Emptying
<1>9. \E r \in SUBSET FileNames : fpage' = fpage \/ fpage' = [fpage EXCEPT ![t] = Listed(@, r)]
  BY <1>2, <1>3
<1>10. QED
  BY <1>3, <1>4, <1>5, <1>6, <1>7, <1>8, <1>9, WritingStep

LEMMA FilesInitial == FilesInit => FilesInv
<1> SUFFICES ASSUME FilesInit
             PROVE  FilesInv
  OBVIOUS
<1>1. /\ FileRows \in SUBSET FileNames /\ {f \in FileNames : disk[f] = "empty"} \in SUBSET FileNames
      /\ "empty" \in FileTexts /\ FileNames \subseteq FileTexts
  BY DEF FileRows, FileTexts
<1>2. Shows \in PageType /\ Shows.open = Closed
  BY <1>1 DEF Shows, PageType
<1>3. NoWrite \in WriteType /\ NoWrite.pc = "none"
  BY <1>1 DEF NoWrite, WriteType
<1>4. FileShape
  <2>1. fpage \in [FilePages -> PageType] /\ writing \in [FilePages -> WriteType]
        /\ \A t \in FilePages : writing[t].pc = "none"
    BY <1>2, <1>3 DEF FilesInit
  <2>2. /\ disk \in [FileNames -> FileTexts \union {"nothing", "directory"}]
        /\ reads \in [FilePages -> Seq([path : FileNames, got : FileTexts \union {"waits", "fails"}])]
    BY DEF FilesInit, FileTexts
  <2>3. excused \in [foreign : SUBSET FileNames, empty : SUBSET FileNames]
    BY <1>1 DEF FilesInit
  <2>4. QED
    BY <2>1, <2>2, <2>3 DEF FileShape, AskedType
<1>5. DiskFits
  BY DEF FilesInit, DiskFits
<1>6. WritesFit /\ \A t \in FilePages : EditorFits(t)
  BY <1>2, <1>3 DEF FilesInit, WritesFit, EditorFits
<1>7. QED
  BY <1>4, <1>5, <1>6 DEF FilesInv

LEMMA FilesStep == FilesInv /\ [FilesNext]_fileVars => FilesInv'
<1> SUFFICES ASSUME FilesInv, [FilesNext]_fileVars
             PROVE  FilesInv'
  OBVIOUS
<1>1. ASSUME NEW t \in FilePages, Browse(t) \/ Back(t) PROVE FilesInv'
  BY <1>1, PageStep
<1>2. ASSUME NEW t \in FilePages, NEW i \in 1..Len(reads[t]), Read(t, i) \/ Answered(t, i) PROVE FilesInv'
  BY <1>2, FileReadStep, AnsweredStep
<1>3. ASSUME NEW t \in FilePages, Truncate(t) \/ Write(t) \/ Move(t) \/ WriteFails(t) \/ SaveFile(t) PROVE FilesInv'
  BY <1>3, TruncateStep, WriteStep, WriteFailsStep, SaveFileStep
<1>4. ASSUME NEW t \in FilePages, NEW f \in FileNames,
             OpenFile(t, f) \/ AskUpload(t, f) \/ DeleteEntry(t, f) \/ Mkdir(t, f)
      PROVE  FilesInv'
  BY <1>4, OpenFileStep, AskUploadStep, DirectoryStep
<1>5. CASE UNCHANGED fileVars
  BY <1>5 DEF fileVars, FilesInv, FileShape, DiskFits, WritesFit, EditorFits, Fits, Emptying, IsFile
<1>6. QED
  BY <1>1, <1>2, <1>3, <1>4, <1>5 DEF FilesNext

\* However many pages and files there are, a file keeps a text of its own, but for the
\* three ways that the property names.
THEOREM FilesAlwaysKeepTheirText == FilesSpec => []FilesKeepTheirText
<1>1. FilesInv => FilesKeepTheirText
  BY DEF FilesInv, DiskFits, FilesKeepTheirText, Emptying, BeingWritten
<1>2. QED
  BY <1>1, FilesInitial, FilesStep, PTL DEF FilesSpec

-----------------------------------------------------------------------------
(* Firewall.  No two rules are the same, and a page that is fresh shows    *)
(* the rules as they are: then the row that was clicked says where the     *)
(* rule stands that a delete removes, and that it stands nowhere else.     *)

RuleRow == [id : 1..MaxRules, chain : Chains, rule : 1..added]

FwShape ==
  /\ backend \in Backends /\ on \in BOOLEAN
  /\ rules \in [Chains -> Seq(1..added)]
  /\ \A c \in Chains : Len(rules[c]) <= added
  /\ page \in [Admins -> [active : BOOLEAN, rows : Seq(RuleRow)]]
  /\ fresh \subseteq Admins
  /\ added \in 1..MaxRules /\ clicks \in 0..MaxClicks

RulesDiffer == \A c \in Chains : AllDiffer(rules[c])

FreshShown == \A t \in fresh : page[t].rows = ReportedRows

FwInv == FwShape /\ RulesDiffer /\ FreshShown

\* A click counts, and no page is fresh after it.
LEMMA ClickCounted == FwShape /\ Click => clicks' \in 0..MaxClicks
BY FirewallAssumption DEF FwShape, Click

LEMMA FwInitial == FwInit => FwInv
<1> SUFFICES ASSUME FwInit
             PROVE  FwInv
  OBVIOUS
<1>1. added = 1 /\ added \in 1..MaxRules /\ clicks \in 0..MaxClicks
  BY FirewallAssumption DEF FwInit
<1>2. \A c \in Chains : rules[c] \in Seq(1..added) /\ Len(rules[c]) <= added /\ AllDiffer(rules[c])
  <2>1. \A c \in Chains : rules[c] \in {<<>>, <<1>>}
    BY DEF FwInit
  <2>2. <<>> \in Seq(1..1) /\ Len(<<>>) <= 1 /\ AllDiffer(<<>>)
    BY DEF AllDiffer
  <2>3. <<1>> \in Seq(1..1) /\ Len(<<1>>) <= 1 /\ AllDiffer(<<1>>)
    BY DEF AllDiffer
  <2>4. QED
    BY <1>1, <2>1, <2>2, <2>3
<1>3. rules \in [Chains -> Seq(1..added)]
  BY <1>2 DEF FwInit
<1>4. NoStatus \in [active : BOOLEAN, rows : Seq(RuleRow)]
  BY DEF NoStatus
<1>5. page \in [Admins -> [active : BOOLEAN, rows : Seq(RuleRow)]]
  BY <1>4 DEF FwInit
<1>6. backend \in Backends /\ on \in BOOLEAN /\ fresh = {}
  BY DEF FwInit
<1>7. QED
  BY <1>1, <1>2, <1>3, <1>5, <1>6 DEF FwInv, FwShape, RulesDiffer, FreshShown

\* The rows of a chain.
LEMMA ChainRows ==
  ASSUME FwShape, NEW c \in Chains
  PROVE  /\ Rows(c) \in Seq(RuleRow) /\ Len(Rows(c)) = Len(rules[c])
         /\ \A k \in 1..Len(rules[c]) :
              Rows(c)[k].id = k /\ Rows(c)[k].chain = c /\ Rows(c)[k].rule = rules[c][k]
<1>1. rules[c] \in Seq(1..added) /\ Len(rules[c]) \in Nat /\ Len(rules[c]) <= MaxRules
  BY FirewallAssumption DEF FwShape
<1>2. ASSUME NEW k \in 1..Len(rules[c])
      PROVE  [id |-> k, chain |-> c, rule |-> rules[c][k]] \in RuleRow
  <2>1. rules[c][k] \in 1..added
    BY <1>1, ElementOfSeq, Zenon
  <2>2. k \in 1..MaxRules
    BY <1>1, FirewallAssumption
  <2>3. QED
    BY <2>1, <2>2 DEF RuleRow
<1>3. QED
  BY <1>1, <1>2 DEF Rows

LEMMA ReportedType ==
  ASSUME FwShape
  PROVE  ReportedRows \in Seq(RuleRow) /\ ReportedActive \in BOOLEAN
<1>1. "INPUT" \in Chains /\ "FORWARD" \in Chains
  BY DEF Chains
<1>2. Rows("INPUT") \in Seq(RuleRow) /\ Rows("FORWARD") \in Seq(RuleRow)
  BY <1>1, ChainRows
<1>3. Rows("INPUT") \o Rows("FORWARD") \in Seq(RuleRow)
  BY <1>2, ConcatProperties, Zenon
<1>4. ReportedActive \in BOOLEAN
  BY DEF ReportedActive, FwShape, Backends
<1>5. ReportedRows \in Seq(RuleRow)
  BY <1>2, <1>3, EmptySeq, Zenon DEF ReportedRows
<1>6. QED
  BY <1>4, <1>5

LEMMA StatusStep ==
  ASSUME FwInv, NEW t \in Admins, Status(t)
  PROVE  FwInv'
<1> USE DEF FwInv
<1>1. UNCHANGED <<backend, on, rules, added, clicks>> /\ ReportedRows' = ReportedRows /\ RuleRow' = RuleRow
  BY DEF Status, ReportedRows, Rows, RuleRow
<1>2. NoStatus \in [active : BOOLEAN, rows : Seq(RuleRow)]
  BY DEF NoStatus
<1> DEFINE now == [active |-> ReportedActive, rows |-> ReportedRows]
<1>3. now \in [active : BOOLEAN, rows : Seq(RuleRow)] /\ now.rows = ReportedRows
  BY ReportedType
<1> HIDE DEF now
<1>4. \/ page' = [page EXCEPT ![t] = now] /\ fresh' = fresh \union {t}
      \/ page' = [page EXCEPT ![t] = NoStatus] /\ fresh' = fresh \ {t}
  BY DEF Status, now
<1>5. page' \in [Admins -> [active : BOOLEAN, rows : Seq(RuleRow)]] /\ fresh' \subseteq Admins
  BY <1>2, <1>3, <1>4 DEF FwShape
<1>6. FwShape'
  BY <1>1, <1>5 DEF FwShape
<1>7. FreshShown'
  BY <1>1, <1>3, <1>4 DEF FreshShown, FwShape
<1>8. RulesDiffer'
  BY <1>1 DEF RulesDiffer
<1>9. QED
  BY <1>6, <1>7, <1>8

\* After the other clicks no page is fresh.
LEMMA ToggleStep ==
  ASSUME FwInv, NEW t \in Admins, Toggle(t)
  PROVE  FwInv'
<1> USE DEF FwInv
<1>1. clicks' \in 0..MaxClicks
  BY ClickCounted DEF Toggle
<1>2. on' \in BOOLEAN /\ fresh' = {} /\ UNCHANGED <<backend, rules, page, added>>
  BY DEF Toggle, FwShape
<1>3. QED
  BY <1>1, <1>2 DEF FwShape, RulesDiffer, FreshShown, RuleRow

LEMMA AddRuleStep ==
  ASSUME FwInv, NEW t \in Admins, AddRule(t)
  PROVE  FwInv'
<1> USE DEF FwInv
<1> DEFINE s == rules["INPUT"]
           n == added + 1
<1>1. /\ UNCHANGED <<backend, on, page>> /\ fresh' = {} /\ added' = n
      /\ rules' = [rules EXCEPT !["INPUT"] = Append(s, n)]
  BY DEF AddRule
<1>2. clicks' \in 0..MaxClicks
  BY ClickCounted DEF AddRule
<1>3. added \in Nat /\ n \in 1..MaxRules /\ 1..added \subseteq 1..n /\ n \in 1..n
  BY FirewallAssumption DEF AddRule, FwShape
<1>4. \A c \in Chains : /\ rules[c] \in Seq(1..added) /\ Len(rules[c]) \in Nat /\ Len(rules[c]) <= added
                        /\ rules[c] \in Seq(1..n)
  BY <1>3, SeqMonotonic DEF FwShape
<1>5. "INPUT" \in Chains
  BY DEF Chains
<1> HIDE DEF n
<1>6. /\ Append(s, n) \in Seq(1..n) /\ Len(Append(s, n)) = Len(s) + 1
      /\ \A k \in 1..(Len(s) + 1) : Append(s, n)[k] = IF k <= Len(s) THEN s[k] ELSE n
  <2>1. s \in Seq(1..n)
    BY <1>4, <1>5
  <2> HIDE DEF s
  <2>2. QED
    BY <1>3, <2>1, SMTT(30)
<1>7. rules' \in [Chains -> Seq(1..n)] /\ \A c \in Chains : Len(rules'[c]) <= n
  BY <1>1, <1>3, <1>4, <1>5, <1>6 DEF FwShape, n
<1>8. page \in [Admins -> [active : BOOLEAN, rows : Seq([id : 1..MaxRules, chain : Chains, rule : 1..n])]]
  <2> DEFINE Wide == [id : 1..MaxRules, chain : Chains, rule : 1..n]
  <2>1. RuleRow \subseteq Wide
    BY <1>3 DEF RuleRow
  <2>2. \A q \in Seq(RuleRow) : q \in Seq(Wide)
    BY <2>1, SeqMonotonic, Zenon
  <2> HIDE DEF Wide
  <2>3. page \in [Admins -> [active : BOOLEAN, rows : Seq(RuleRow)]]
    BY DEF FwShape
  <2>4. page \in [Admins -> [active : BOOLEAN, rows : Seq(Wide)]]
    BY <2>2, <2>3
  <2>5. QED
    BY <2>4 DEF Wide
<1>9. FwShape'
  BY <1>1, <1>2, <1>3, <1>7, <1>8 DEF FwShape, RuleRow
<1>10. AllDiffer(Append(s, n))
  <2>1. \A k \in 1..Len(s) : s[k] # n
    BY <1>3, <1>4, <1>5 DEF n
  <2>2. AllDiffer(s)
    BY <1>5 DEF RulesDiffer
  <2> SUFFICES ASSUME NEW i \in 1..(Len(s) + 1), NEW j \in 1..(Len(s) + 1),
                      Append(s, n)[i] = Append(s, n)[j]
               PROVE  i = j
    BY <1>6 DEF AllDiffer
  <2>3. Len(s) \in Nat
    BY <1>4, <1>5
  <2> HIDE DEF s
  <2>4. QED
    BY <1>6, <2>1, <2>2, <2>3 DEF AllDiffer
<1>11. RulesDiffer'
  BY <1>1, <1>5, <1>10 DEF RulesDiffer, FwShape
<1>12. FreshShown'
  BY <1>1 DEF FreshShown
<1>13. QED
  BY <1>9, <1>11, <1>12

LEMMA DeleteRuleStep ==
  ASSUME FwInv, NEW t \in Admins, DeleteRule(t)
  PROVE  FwInv'
<1> USE DEF FwInv
<1> DEFINE s == rules["INPUT"]
<1>1. PICK k \in 1..Len(page[t].rows) :
        /\ page[t].rows[k].id \in 1..Len(s)
        /\ rules' = [rules EXCEPT !["INPUT"] = RemoveAt(s, page[t].rows[k].id)]
  BY Zenon DEF DeleteRule, Without
<1> DEFINE i == page[t].rows[k].id
<1>2. UNCHANGED <<backend, on, page, added>> /\ fresh' = {} /\ clicks' \in 0..MaxClicks
  BY ClickCounted DEF DeleteRule
<1>3. "INPUT" \in Chains /\ s \in Seq(1..added) /\ Len(s) <= added /\ AllDiffer(s)
  BY DEF Chains, FwShape, RulesDiffer
<1> HIDE DEF i, s
<1>4. i \in 1..Len(s) /\ rules' = [rules EXCEPT !["INPUT"] = RemoveAt(s, i)]
  BY <1>1 DEF i, s
<1>5. RemoveAt(s, i) \in Seq(1..added) /\ Len(RemoveAt(s, i)) = Len(s) - 1 /\ AllDiffer(RemoveAt(s, i))
  BY <1>3, <1>4, RemoveAtElements, RemoveAtSet
<1>6. Len(RemoveAt(s, i)) <= added
  BY <1>3, <1>5 DEF FwShape
<1>7. rules' \in [Chains -> Seq(1..added)] /\ \A c \in Chains : Len(rules'[c]) <= added /\ AllDiffer(rules'[c])
  BY <1>3, <1>4, <1>5, <1>6 DEF FwShape, RulesDiffer
<1>8. QED
  BY <1>2, <1>7 DEF FwShape, RulesDiffer, FreshShown, RuleRow

LEMMA FwStep == FwInv /\ [FwNext]_fwVars => FwInv'
<1> SUFFICES ASSUME FwInv, [FwNext]_fwVars
             PROVE  FwInv'
  OBVIOUS
<1>1. CASE UNCHANGED fwVars
  BY <1>1 DEF FwInv, FwShape, RulesDiffer, FreshShown, RuleRow, ReportedRows, Rows, fwVars
<1>2. ASSUME NEW t \in Admins, Status(t) \/ Toggle(t) \/ AddRule(t) \/ DeleteRule(t)
      PROVE  FwInv'
  BY <1>2, StatusStep, ToggleStep, AddRuleStep, DeleteRuleStep
<1>3. QED
  BY <1>1, <1>2 DEF FwNext

LEMMA FwInvariant == FwSpec => []FwInv
BY FwInitial, FwStep, PTL DEF FwSpec

\* However many rules and tabs there are, the variables keep their types: every row that
\* a page shows was a rule once, and no more rules are shown than were ever added.
THEOREM FwTypeCorrect == FwSpec => []FwTypeOK
<1>1. FwInv => FwTypeOK
  <2> SUFFICES ASSUME FwInv
               PROVE  FwTypeOK
    OBVIOUS
  <2>1. \A t \in Admins : page[t].active \in BOOLEAN /\ page[t].rows \in Seq(RuleRow)
    BY DEF FwInv, FwShape
  <2>2. \A t \in Admins : \A k \in 1..Len(page[t].rows) : page[t].rows[k] \in RuleRow
    BY <2>1, ElementOfSeq, Zenon
  <2>3. QED
    BY <2>1, <2>2 DEF FwInv, FwShape, FwTypeOK, RuleRow
<1>2. QED
  BY <1>1, FwInvariant, PTL

\* A rule is removed by a delete.
LEMMA OnlyDeleteRemoves ==
  ASSUME FwInv, [FwNext]_fwVars, Len(rules'["INPUT"]) < Len(rules["INPUT"])
  PROVE  \E t \in Admins : DeleteRule(t)
<1>1. "INPUT" \in Chains /\ rules["INPUT"] \in Seq(1..added) /\ Len(rules["INPUT"]) \in Nat
  BY DEF FwInv, FwShape, Chains
<1>2. rules' = rules => FALSE
  BY <1>1
<1>3. ASSUME NEW t \in Admins, AddRule(t)
      PROVE  FALSE
  <2>1. rules'["INPUT"] = Append(rules["INPUT"], added + 1)
    BY <1>1, <1>3 DEF AddRule, FwInv, FwShape
  <2>2. Len(rules'["INPUT"]) = Len(rules["INPUT"]) + 1
    BY <1>1, <2>1
  <2>3. QED
    BY <1>1, <2>2
<1>4. ASSUME NEW t \in Admins, Status(t) \/ Toggle(t)
      PROVE  FALSE
  BY <1>2, <1>4 DEF Status, Toggle
<1>5. QED
  BY <1>2, <1>3, <1>4 DEF FwNext, fwVars

\* Whoever has changed the firewall, and however the tabs interleave: a delete removes
\* the rule of the row that was clicked and nothing else, if the row is of the input
\* chain and its page was loaded after the last change.
THEOREM OnlyTheRuleEverShown == FwSpec => OnlyTheRuleShown
<1>1. ASSUME FwInv, [FwNext]_fwVars, Len(rules'["INPUT"]) < Len(rules["INPUT"])
      PROVE  /\ rules'["FORWARD"] = rules["FORWARD"]
             /\ deleted'.fresh /\ deleted'.row.chain = "INPUT" =>
                  ToSet(rules["INPUT"]) \ ToSet(rules'["INPUT"]) = {deleted'.row.rule}
  <2> DEFINE s == rules["INPUT"]
  <2>1. PICK t \in Admins : DeleteRule(t)
    BY <1>1, OnlyDeleteRemoves
  <2>2. PICK k \in 1..Len(page[t].rows) :
          /\ page[t].rows[k].id \in 1..Len(s)
          /\ rules' = [rules EXCEPT !["INPUT"] = RemoveAt(s, page[t].rows[k].id)]
          /\ deleted' = [row |-> page[t].rows[k], fresh |-> t \in fresh]
    BY <2>1, Zenon DEF DeleteRule, Without
  <2> DEFINE row == page[t].rows[k]
  <2>3. "INPUT" \in Chains /\ "FORWARD" \in Chains
    BY DEF Chains
  <2>4. s \in Seq(1..added) /\ Len(s) \in Nat /\ AllDiffer(s) /\ DOMAIN rules = Chains
    BY <1>1, <2>3 DEF FwInv, FwShape, RulesDiffer
  <2> HIDE DEF s
  <2>5. rules'["FORWARD"] = rules["FORWARD"] /\ rules'["INPUT"] = RemoveAt(s, row.id)
    BY <2>2, <2>3, <2>4
  <2>6. ASSUME t \in fresh, row.chain = "INPUT"
        PROVE  row.rule = s[row.id]
    <3>1. page[t].rows = Rows("INPUT") \o Rows("FORWARD")
      BY <1>1, <2>1, <2>6 DEF FwInv, FreshShown, ReportedRows, DeleteRule
    <3>2. /\ Rows("INPUT") \in Seq(RuleRow) /\ Len(Rows("INPUT")) = Len(s)
          /\ \A m \in 1..Len(s) : Rows("INPUT")[m].id = m /\ Rows("INPUT")[m].rule = s[m]
      BY <1>1, <2>3, ChainRows DEF FwInv, s
    <3>3. /\ Rows("FORWARD") \in Seq(RuleRow) /\ Len(Rows("FORWARD")) = Len(rules["FORWARD"])
          /\ \A m \in 1..Len(Rows("FORWARD")) : Rows("FORWARD")[m].chain = "FORWARD"
      BY <1>1, <2>3, ChainRows DEF FwInv
    <3> DEFINE a == Rows("INPUT")
               b == Rows("FORWARD")
    <3>9. a \in Seq(RuleRow) /\ b \in Seq(RuleRow)
      BY <3>2, <3>3
    <3> HIDE DEF a, b
    <3>4. /\ Len(a \o b) = Len(a) + Len(b)
          /\ \A i \in 1..(Len(a) + Len(b)) : (a \o b)[i] = IF i <= Len(a) THEN a[i] ELSE b[i - Len(a)]
      BY <3>9, ConcatProperties, Zenon
    <3>5. k \in 1..(Len(a) + Len(b)) /\ row = (a \o b)[k] /\ Len(a) = Len(s) /\ Len(b) \in Nat
      BY <3>1, <3>2, <3>3, <3>4 DEF a, b
    <3>6. k <= Len(a)
      <4> SUFFICES ASSUME ~(k <= Len(a))
                   PROVE  FALSE
        OBVIOUS
      <4>1. k - Len(a) \in 1..Len(b) /\ row = b[k - Len(a)]
        BY <2>4, <3>4, <3>5
      <4>2. row.chain = "FORWARD"
        BY <3>3, <4>1 DEF b
      <4>3. QED
        BY <2>6, <4>2
    <3>7. k \in 1..Len(s) /\ row = a[k]
      BY <2>4, <3>4, <3>5, <3>6
    <3>8. QED
      BY <3>2, <3>7 DEF a
  <2>7. ToSet(RemoveAt(s, row.id)) = ToSet(s) \ {s[row.id]}
    BY <2>2, <2>4, RemoveAtSet
  <2>8. s[row.id] \in ToSet(s)
    BY <2>2, <2>4 DEF ToSet
  <2>9. deleted'.row = row /\ (deleted'.fresh <=> t \in fresh)
    BY <2>2
  <2>10. ToSet(s) \ ToSet(RemoveAt(s, row.id)) = {s[row.id]}
    BY <2>7, <2>8
  <2>11. QED
    BY <2>5, <2>6, <2>9, <2>10 DEF s
<1>2. FwInv /\ [FwNext]_fwVars =>
        [Len(rules'["INPUT"]) < Len(rules["INPUT"]) =>
           /\ rules'["FORWARD"] = rules["FORWARD"]
           /\ deleted'.fresh /\ deleted'.row.chain = "INPUT" =>
                ToSet(rules["INPUT"]) \ ToSet(rules'["INPUT"]) = {deleted'.row.rule}]_fwVars
  BY <1>1
<1>3. QED
  BY <1>2, FwInvariant, PTL DEF FwSpec, OnlyTheRuleShown

-----------------------------------------------------------------------------
(* Package repositories.  First texts: what a change of one repository does *)
(* to the others whose lines are in the same file.                          *)

\* The repositories a package manager uses of a file.
UsesAt(fam, s, i) ==
  CASE fam = "apt" -> s[i].live
    [] fam = "pacman" -> LiveHeader(s[i]) /\ \E k \in Section(s, s[i].repo) : s[k].live
    [] fam = "dnf" -> LiveHeader(s[i]) /\ Enabled(s, s[i].repo)
UsedOf(fam, s) == {s[i].repo : i \in {j \in DOMAIN s : UsesAt(fam, s, j)}}

\* One repository is switched on or off, and no other.
Switched(fam, s, u, r, val) ==
  /\ UsedOf(fam, u) \ {r} = UsedOf(fam, s) \ {r}
  /\ r \in UsedOf(fam, u) <=> val

\* The text has a live header of the repository.
Has(s, r) == \E h \in 1..Len(s) : LiveHeader(s[h]) /\ s[h].repo = r

HasLive(s, r) == \E i \in 1..Len(s) : s[i].live /\ s[i].repo = r

LEMMA UsedMember ==
  ASSUME NEW s \in Seq(RepoLine), NEW r
  PROVE  /\ r \in UsedOf("apt", s) <=> HasLive(s, r)
         /\ r \in UsedOf("pacman", s) <=> Has(s, r) /\ \E k \in Section(s, r) : s[k].live
         /\ r \in UsedOf("dnf", s) <=> Has(s, r) /\ Enabled(s, r)
<1>1. \A fam : r \in UsedOf(fam, s) <=> \E i \in 1..Len(s) : UsesAt(fam, s, i) /\ s[i].repo = r
  <2>1. DOMAIN s = 1..Len(s)
    OBVIOUS
  <2>2. QED
    BY <2>1 DEF UsedOf
<1>2. \A i : UsesAt("apt", s, i) <=> s[i].live
  BY DEF UsesAt
<1>3. \A i : UsesAt("pacman", s, i) <=> LiveHeader(s[i]) /\ \E k \in Section(s, s[i].repo) : s[k].live
  BY DEF UsesAt
<1>4. \A i : UsesAt("dnf", s, i) <=> LiveHeader(s[i]) /\ Enabled(s, s[i].repo)
  BY DEF UsesAt
<1>5. QED
  BY <1>1, <1>2, <1>3, <1>4, Zenon DEF Has, HasLive

\* A line below the header of the repository, and no other header in between.
Heads(s, r, h, i) == LiveHeader(s[h]) /\ s[h].repo = r /\ \A k \in (h + 1)..i : ~LiveHeader(s[k])
Below(s, r, i) == \E h \in 1..(i - 1) : Heads(s, r, h, i)

LEMMA SectionMember ==
  ASSUME NEW s \in Seq(RepoLine), NEW r, NEW i
  PROVE  i \in Section(s, r) <=> i \in 1..Len(s) /\ Below(s, r, i)
<1>1. DOMAIN s = 1..Len(s)
  OBVIOUS
<1>2. QED
  BY <1>1 DEF Section, Below, Heads

\* A line of a section is no live header, and below one.
LEMMA SectionLine ==
  ASSUME NEW s \in Seq(RepoLine), NEW r, NEW i \in Section(s, r)
  PROVE  i \in 1..Len(s) /\ ~LiveHeader(s[i]) /\ Has(s, r)
<1>1. i \in 1..Len(s) /\ Len(s) \in Nat
  BY SectionMember
<1>2. PICK h \in 1..(i - 1) : LiveHeader(s[h]) /\ s[h].repo = r /\ \A k \in (h + 1)..i : ~LiveHeader(s[k])
  BY SectionMember DEF Below, Heads
<1>3. i \in (h + 1)..i /\ h \in 1..Len(s)
  BY <1>1
<1>4. QED
  BY <1>1, <1>2, <1>3 DEF Has

\* A line is in the section of one repository only.
LEMMA SectionsApart ==
  ASSUME NEW s \in Seq(RepoLine), NEW r, NEW q, q # r, NEW i \in Section(s, r)
  PROVE  i \notin Section(s, q)
<1> SUFFICES ASSUME i \in Section(s, q)
             PROVE  FALSE
  OBVIOUS
<1>1. i \in 1..Len(s) /\ i \in Int
  BY SectionMember
<1>2. PICK h \in 1..(i - 1) : LiveHeader(s[h]) /\ s[h].repo = r /\ \A k \in (h + 1)..i : ~LiveHeader(s[k])
  BY SectionMember DEF Below, Heads
<1>3. PICK g \in 1..(i - 1) : LiveHeader(s[g]) /\ s[g].repo = q /\ \A k \in (g + 1)..i : ~LiveHeader(s[k])
  BY SectionMember DEF Below, Heads
<1>4. h # g
  BY <1>2, <1>3
<1>5. h < g \/ g < h
  BY <1>1, <1>4
<1>6. CASE h < g
  BY <1>1, <1>2, <1>3, <1>6, g \in (h + 1)..i
<1>7. CASE g < h
  BY <1>1, <1>2, <1>3, <1>7, h \in (g + 1)..i
<1>8. QED
  BY <1>5, <1>6, <1>7

\* Sections are what live headers make them.
LEMMA SectionsSame ==
  ASSUME NEW s \in Seq(RepoLine), NEW u \in Seq(RepoLine), Len(u) = Len(s),
         \A i \in 1..Len(s) : /\ LiveHeader(u[i]) <=> LiveHeader(s[i])
                              /\ LiveHeader(s[i]) => u[i].repo = s[i].repo
  PROVE  \A r : Section(u, r) = Section(s, r) /\ (Has(u, r) <=> Has(s, r))
<1> TAKE r
<1>1. Has(u, r) <=> Has(s, r)
  BY DEF Has
<1>2. ASSUME NEW i \in 1..Len(s), NEW h \in 1..(i - 1)
      PROVE  /\ LiveHeader(u[h]) <=> LiveHeader(s[h])
             /\ LiveHeader(s[h]) => u[h].repo = s[h].repo
             /\ \A k \in (h + 1)..i : LiveHeader(u[k]) <=> LiveHeader(s[k])
  <2>1. Len(s) \in Nat /\ h \in 1..Len(s) /\ \A k \in (h + 1)..i : k \in 1..Len(s)
    OBVIOUS
  <2>2. QED
    BY <2>1
<1>3. ASSUME NEW i \in 1..Len(s)
      PROVE  i \in Section(u, r) <=> i \in Section(s, r)
  <2>1. Below(u, r, i) <=> Below(s, r, i)
    BY <1>2, Zenon DEF Below, Heads
  <2>2. QED
    BY <2>1, SectionMember
<1>4. \A i : i \in Section(u, r) => i \in 1..Len(s)
  BY SectionMember
<1>5. \A i : i \in Section(s, r) => i \in 1..Len(s)
  BY SectionMember
<1>6. QED
  BY <1>1, <1>3, <1>4, <1>5

\* The last "enabled=" line of a section is there.
LEMMA LastFlag ==
  ASSUME NEW s \in Seq(RepoLine), NEW r, Flags(s, r) # {}
  PROVE  \E i \in Flags(s, r) : \A j \in Flags(s, r) : j <= i
<1>1. Flags(s, r) \subseteq 0..Len(s) /\ Len(s) \in Nat
  <2>1. Flags(s, r) \subseteq Section(s, r)
    BY DEF Flags
  <2>2. Section(s, r) \subseteq 0..Len(s)
    BY SectionMember
  <2>3. QED
    BY <2>1, <2>2
<1>2. QED
  BY <1>1, GreatestNumber

\* All flags of a section say the same.
LEMMA AllFlags ==
  ASSUME NEW s \in Seq(RepoLine), NEW r, NEW val \in BOOLEAN, Flags(s, r) # {},
         \A i \in Flags(s, r) : s[i].on = val
  PROVE  Enabled(s, r) <=> val
<1>1. PICK i \in Flags(s, r) : \A j \in Flags(s, r) : j <= i
  BY LastFlag
<1>2. QED
  BY <1>1 DEF Enabled

\* u is s without some lines, with others put in; the live headers that are in one of
\* them only are of r, and no line that stays is below one of those.
Embeds(s, u, K, e, r) ==
  /\ K \subseteq 1..Len(s) /\ e \in [1..Len(s) -> Nat]
  /\ \A i \in K : e[i] \in 1..Len(u) /\ u[e[i]] = s[i]
  /\ \A i, j \in K : i < j => e[i] < e[j]
  /\ \A k \in 1..Len(u) : LiveHeader(u[k]) => \E i \in K : k = e[i]
  /\ \A h \in 1..Len(s) : LiveHeader(s[h]) /\ h \notin K => s[h].repo = r
  /\ \A i \in K : \A h \in 1..(i - 1) :
       LiveHeader(s[h]) /\ h \notin K => \E j \in K : h < j /\ j <= i /\ LiveHeader(s[j])

\* The other sections are the same lines.
LEMMA SectionsEmbedded ==
  ASSUME NEW s \in Seq(RepoLine), NEW u \in Seq(RepoLine), NEW K, NEW e, NEW r, NEW q, q # r,
         Embeds(s, u, K, e, r)
  PROVE  /\ Has(u, q) <=> Has(s, q)
         /\ \A i \in K : e[i] \in Section(u, q) <=> i \in Section(s, q)
<1>1. Len(s) \in Nat /\ Len(u) \in Nat /\ \A i \in K : i \in 1..Len(s) /\ i \in Int /\ e[i] \in Nat
  BY DEF Embeds
<1>2. \A i \in K : e[i] \in 1..Len(u) /\ u[e[i]] = s[i]
  BY DEF Embeds
<1>3. \A i, j \in K : (i < j <=> e[i] < e[j]) /\ (i <= j <=> e[i] <= e[j])
  <2> TAKE i, j \in K
  <2>1. i \in Int /\ j \in Int /\ e[i] \in Int /\ e[j] \in Int
    BY <1>1
  <2>2. (i < j => e[i] < e[j]) /\ (j < i => e[j] < e[i]) /\ (i = j => e[i] = e[j])
    BY DEF Embeds
  <2>3. QED
    BY <2>1, <2>2
<1>4. \A k \in 1..Len(u) : LiveHeader(u[k]) => \E i \in K : k = e[i]
  BY DEF Embeds
<1>5. \A h \in 1..Len(s) : LiveHeader(s[h]) /\ h \notin K => s[h].repo = r
  BY DEF Embeds
<1>6. Has(u, q) <=> Has(s, q)
  <2>1. ASSUME NEW h \in 1..Len(s), LiveHeader(s[h]), s[h].repo = q
        PROVE  Has(u, q)
    BY <1>2, <1>5, <2>1 DEF Has
  <2>2. ASSUME NEW k \in 1..Len(u), LiveHeader(u[k]), u[k].repo = q
        PROVE  Has(s, q)
    BY <1>1, <1>2, <1>4, <2>2 DEF Has
  <2>3. QED
    BY <2>1, <2>2 DEF Has
<1>7. ASSUME NEW i \in K, i \in Section(s, q)
      PROVE  e[i] \in Section(u, q)
  <2>1. PICK h \in 1..(i - 1) : Heads(s, q, h, i)
    BY <1>7, SectionMember DEF Below
  <2>2. h \in 1..Len(s) /\ h < i /\ h \in Int /\ i \in Int
    BY <1>1
  <2>3. h \in K
    BY <1>5, <2>1, <2>2 DEF Heads
  <2>4. e[h] < e[i] /\ e[h] \in 1..Len(u) /\ e[i] \in 1..Len(u) /\ u[e[h]] = s[h]
    BY <1>2, <1>3, <2>2, <2>3
  <2>5. e[h] \in 1..(e[i] - 1)
    BY <2>4
  <2>6. ASSUME NEW k \in (e[h] + 1)..e[i], LiveHeader(u[k])
        PROVE  FALSE
    <3>1. k \in 1..Len(u) /\ e[h] < k /\ k <= e[i]
      BY <1>1, <2>4
    <3>2. PICK j \in K : k = e[j]
      BY <1>4, <2>6, <3>1
    <3>3. h < j /\ j <= i /\ j \in Int
      BY <1>1, <1>3, <2>3, <3>1, <3>2
    <3>4. j \in (h + 1)..i /\ u[k] = s[j]
      BY <1>2, <2>2, <3>2, <3>3
    <3>5. QED
      BY <2>1, <2>6, <3>4 DEF Heads
  <2>7. Heads(u, q, e[h], e[i])
    BY <2>1, <2>4, <2>6 DEF Heads
  <2>8. QED
    BY <2>4, <2>5, <2>7, SectionMember DEF Below
<1>8. ASSUME NEW i \in K, e[i] \in Section(u, q)
      PROVE  i \in Section(s, q)
  <2>1. PICK g \in 1..(e[i] - 1) : Heads(u, q, g, e[i])
    BY <1>8, SectionMember DEF Below
  <2>2. e[i] \in 1..Len(u) /\ g \in 1..Len(u) /\ g < e[i] /\ i \in 1..Len(s) /\ i \in Int
    BY <1>1, <1>2
  <2>3. PICK h \in K : g = e[h]
    BY <1>4, <2>1, <2>2 DEF Heads
  <2>4. h \in 1..Len(s) /\ h \in Int /\ h < i /\ u[g] = s[h]
    BY <1>1, <1>2, <1>3, <2>2, <2>3
  <2>5. ASSUME NEW k \in K, h < k, k <= i, LiveHeader(s[k])
        PROVE  FALSE
    <3>1. e[h] < e[k] /\ e[k] <= e[i] /\ e[k] \in Nat /\ e[h] \in Nat /\ e[i] \in Nat /\ u[e[k]] = s[k]
      BY <1>1, <1>2, <1>3, <2>5
    <3>2. e[k] \in (g + 1)..e[i]
      BY <2>3, <3>1
    <3>3. QED
      BY <2>1, <2>5, <3>1, <3>2 DEF Heads
  <2>6. ASSUME NEW k \in (h + 1)..i, LiveHeader(s[k])
        PROVE  FALSE
    <3>1. k \in 1..Len(s) /\ k \in Int /\ h < k /\ k <= i
      BY <1>1, <2>2, <2>4
    <3>2. k \notin K
      BY <2>5, <2>6, <3>1
    <3>3. k \in 1..(i - 1)
      <4>1. k # i
        BY <3>2
      <4>2. QED
        BY <2>2, <3>1, <4>1
    <3>4. PICK j \in K : k < j /\ j <= i /\ LiveHeader(s[j])
      BY <2>6, <3>2, <3>3 DEF Embeds
    <3>5. h < j
      BY <1>1, <2>4, <3>1, <3>4
    <3>6. QED
      BY <2>5, <3>4, <3>5
  <2>7. h \in 1..(i - 1) /\ Heads(s, q, h, i)
    BY <2>1, <2>2, <2>3, <2>4, <2>6 DEF Heads
  <2>8. QED
    BY <2>2, <2>7, SectionMember DEF Below
<1>9. QED
  BY <1>6, <1>7, <1>8

\* togglePacmanRepo: the lines of a section are commented out.
SectionOff(s, r) ==
  [i \in DOMAIN s |-> IF i \in Section(s, r) THEN [s[i] EXCEPT !.live = FALSE] ELSE s[i]]
SameLines(s, u) ==
  /\ u \in Seq(RepoLine) /\ Len(u) = Len(s)
  /\ \A i \in 1..Len(s) : u[i].is = s[i].is /\ u[i].repo = s[i].repo

LEMMA CommentedOut ==
  ASSUME NEW s \in Seq(RepoLine), NEW r, NEW u, u = SectionOff(s, r)
  PROVE  SameLines(s, u) /\ Switched("pacman", s, u, r, FALSE)
<1>0. u = [i \in DOMAIN s |-> IF i \in Section(s, r) THEN [s[i] EXCEPT !.live = FALSE] ELSE s[i]]
  BY DEF SectionOff
<1>1. DOMAIN s = 1..Len(s) /\ Len(s) \in Nat /\ \A i \in 1..Len(s) : s[i] \in RepoLine
  OBVIOUS
<1>2. \A i \in 1..Len(s) : [s[i] EXCEPT !.live = FALSE] \in RepoLine
  BY <1>1 DEF RepoLine
<1>3. u \in Seq(RepoLine) /\ Len(u) = Len(s)
  <2>1. u \in [1..Len(s) -> RepoLine]
    BY <1>0, <1>1, <1>2
  <2>2. QED
    BY <1>0, <1>1, <2>1
<1>4. \A i \in 1..Len(s) : /\ u[i].is = s[i].is /\ u[i].repo = s[i].repo
                           /\ i \in Section(s, r) => u[i].live = FALSE
                           /\ i \notin Section(s, r) => u[i] = s[i]
  BY <1>0, <1>1 DEF RepoLine
<1>5. \A i \in 1..Len(s) : LiveHeader(u[i]) <=> LiveHeader(s[i])
  <2>1. \A i \in Section(s, r) : ~LiveHeader(s[i])
    BY SectionLine
  <2>2. QED
    BY <1>4, <2>1 DEF LiveHeader
<1>6. \A q : Section(u, q) = Section(s, q) /\ (Has(u, q) <=> Has(s, q))
  <2>1. \A i \in 1..Len(s) : /\ LiveHeader(u[i]) <=> LiveHeader(s[i])
                             /\ LiveHeader(s[i]) => u[i].repo = s[i].repo
    BY <1>4, <1>5
  <2>2. QED
    BY <1>3, <2>1, SectionsSame
<1>7. ASSUME NEW q, q # r
      PROVE  \A i \in Section(s, q) : u[i] = s[i]
  <2>1. \A i \in Section(s, q) : i \in 1..Len(s) /\ i \notin Section(s, r)
    BY <1>7, SectionMember, SectionsApart
  <2>2. QED
    BY <1>4, <2>1
<1>8. \A i \in Section(s, r) : ~u[i].live
  <2>1. \A i \in Section(s, r) : i \in 1..Len(s)
    BY SectionMember
  <2>2. QED
    BY <1>4, <2>1
<1>12. ASSUME NEW q
       PROVE  q \in UsedOf("pacman", u) <=> Has(s, q) /\ \E k \in Section(s, q) : u[k].live
  <2>1. q \in UsedOf("pacman", u) <=> Has(u, q) /\ \E k \in Section(u, q) : u[k].live
    BY <1>3, UsedMember
  <2>2. QED
    BY <1>6, <2>1, Zenon
<1>9. r \notin UsedOf("pacman", u)
  BY <1>8, <1>12
<1>10. ASSUME NEW q, q # r
       PROVE  q \in UsedOf("pacman", u) <=> q \in UsedOf("pacman", s)
  <2>1. q \in UsedOf("pacman", u) <=> Has(s, q) /\ \E k \in Section(s, q) : u[k].live
    BY <1>12
  <2>2. q \in UsedOf("pacman", s) <=> Has(s, q) /\ \E k \in Section(s, q) : s[k].live
    BY UsedMember
  <2>3. QED
    BY <1>7, <1>10, <2>1, <2>2
<1>11. QED
  BY <1>3, <1>4, <1>9, <1>10 DEF Switched, SameLines

\* removePacmanRepo: a section goes, with its header.
SectionOut(s, r) == Reduced(Section(s, r) \union HeaderOf(s, r), s)
SomeLines(s, u) == u \in Seq(RepoLine) /\ \A k \in 1..Len(u) : \E i \in 1..Len(s) : u[k] = s[i]

LEMMA SectionRemoved ==
  ASSUME NEW s \in Seq(RepoLine), NEW r, NEW u,
         u = SectionOut(s, r)
  PROVE  SomeLines(s, u) /\ Switched("pacman", s, u, r, FALSE)
<1> DEFINE X == Section(s, r) \union HeaderOf(s, r)
           K == 1..Len(s) \ X
<1>0. u = Reduced(X, s)
  BY DEF SectionOut
<1>1. u \in Seq(RepoLine)
  BY <1>0, TakenOut
<1>2. PICK e \in [1..Len(s) -> Nat] :
        /\ \A i \in 1..Len(s) : i \notin X => e[i] \in 1..Len(u) /\ u[e[i]] = s[i]
        /\ \A i, j \in 1..Len(s) : i \notin X /\ i < j => e[i] < e[j]
        /\ \A k \in 1..Len(u) : \E i \in 1..Len(s) : i \notin X /\ k = e[i]
  <2>1. u = Reduced(X, s)
    BY <1>0
  <2> HIDE DEF X
  <2>2. \E e : StaysAt(X, s, u, e)
    BY <2>1, TakenOut
  <2>3. QED
    BY <2>2, Zenon DEF StaysAt
<1>3. \A h \in 1..Len(s) : h \in HeaderOf(s, r) <=> LiveHeader(s[h]) /\ s[h].repo = r
  <2>1. DOMAIN s = 1..Len(s)
    OBVIOUS
  <2>2. QED
    BY <2>1 DEF HeaderOf
<1>4. \A i \in Section(s, r) : i \in 1..Len(s) /\ ~LiveHeader(s[i])
  BY SectionLine
<1>5. \A h \in 1..Len(s) : LiveHeader(s[h]) /\ h \notin K => s[h].repo = r
  BY <1>3, <1>4
<1>6. ASSUME NEW i \in K, NEW h \in 1..(i - 1), LiveHeader(s[h]), h \notin K
      PROVE  \E j \in K : h < j /\ j <= i /\ LiveHeader(s[j])
  <2> DEFINE T == {j \in h..i : LiveHeader(s[j])}
  <2>1. i \in 1..Len(s) /\ i \notin X /\ i \in Nat /\ h \in Nat /\ h < i /\ h \in 1..Len(s)
    OBVIOUS
  <2>2. T \subseteq 0..i /\ h \in T
    BY <1>6, <2>1
  <2>3. PICK j \in T : \A k \in T : k <= j
    <3> HIDE DEF T
    <3>1. QED
      BY <2>1, <2>2, GreatestNumber
  <2>4. j \in 1..Len(s) /\ h <= j /\ j <= i /\ LiveHeader(s[j]) /\ j \in Nat
    BY <2>1
  <2>5. \A k \in (j + 1)..i : ~LiveHeader(s[k])
    <3> SUFFICES ASSUME NEW k \in (j + 1)..i, LiveHeader(s[k])
                 PROVE  FALSE
      OBVIOUS
    <3>1. k \in h..i /\ ~(k <= j)
      BY <2>1, <2>4
    <3>2. k \in T
      BY <3>1
    <3>3. QED
      BY <2>3, <3>1, <3>2
  <2>6. j \in K
    <3> SUFFICES ASSUME j \notin K
                 PROVE  FALSE
      OBVIOUS
    <3>1. j \in HeaderOf(s, r) /\ s[j].repo = r
      BY <1>3, <1>4, <2>4
    <3>2. CASE j = i
      BY <2>1, <3>1, <3>2
    <3>3. CASE j < i
      <4>1. j \in 1..(i - 1) /\ Heads(s, r, j, i)
        BY <2>1, <2>4, <2>5, <3>1, <3>3 DEF Heads
      <4>2. i \in Section(s, r)
        BY <2>1, <4>1, SectionMember DEF Below
      <4>3. QED
        BY <2>1, <4>2
    <3>4. QED
      BY <2>1, <2>4, <3>2, <3>3
  <2>7. h # j
    BY <1>6, <2>6
  <2>8. QED
    BY <2>1, <2>4, <2>6, <2>7
<1> HIDE DEF X
<1>7. Embeds(s, u, K, e, r)
  <2>1. /\ K \subseteq 1..Len(s) /\ e \in [1..Len(s) -> Nat]
        /\ \A i \in K : e[i] \in 1..Len(u) /\ u[e[i]] = s[i]
        /\ \A i, j \in K : i < j => e[i] < e[j]
        /\ \A k \in 1..Len(u) : LiveHeader(u[k]) => \E i \in K : k = e[i]
    BY <1>2
  <2> HIDE DEF K
  <2>2. QED
    BY <1>5, <1>6, <2>1 DEF Embeds
<1>8. ASSUME NEW q, q # r
      PROVE  /\ Has(u, q) <=> Has(s, q)
             /\ \A i \in K : e[i] \in Section(u, q) <=> i \in Section(s, q)
  <2> HIDE DEF K
  <2>1. QED
    BY <1>1, <1>7, <1>8, SectionsEmbedded
<1>9. ASSUME NEW q, q # r
      PROVE  (\E k \in Section(u, q) : u[k].live) <=> (\E i \in Section(s, q) : s[i].live)
  <2>1. ASSUME NEW k \in Section(u, q), u[k].live
        PROVE  \E i \in Section(s, q) : s[i].live
    <3>1. k \in 1..Len(u)
      BY <1>1, SectionMember
    <3>2. PICK i \in 1..Len(s) : i \notin X /\ k = e[i] /\ u[k] = s[i]
      BY <1>2, <3>1
    <3>3. i \in Section(s, q)
      BY <1>8, <1>9, <3>2
    <3>4. QED
      BY <2>1, <3>2, <3>3
  <2>2. ASSUME NEW i \in Section(s, q), s[i].live
        PROVE  \E k \in Section(u, q) : u[k].live
    <3>1. i \in 1..Len(s) /\ ~LiveHeader(s[i]) /\ i \notin Section(s, r)
      BY <1>9, SectionLine, SectionsApart
    <3>2. i \in K
      BY <1>3, <3>1 DEF X
    <3>3. e[i] \in Section(u, q) /\ u[e[i]] = s[i]
      BY <1>2, <1>8, <1>9, <3>2
    <3>4. QED
      BY <2>2, <3>3
  <2>3. QED
    BY <2>1, <2>2
<1>10. ASSUME NEW q, q # r
       PROVE  q \in UsedOf("pacman", u) <=> q \in UsedOf("pacman", s)
  <2>1. q \in UsedOf("pacman", u) <=> Has(u, q) /\ \E k \in Section(u, q) : u[k].live
    BY <1>1, UsedMember
  <2>2. q \in UsedOf("pacman", s) <=> Has(s, q) /\ \E k \in Section(s, q) : s[k].live
    BY UsedMember
  <2>3. QED
    BY <1>8, <1>9, <1>10, <2>1, <2>2
<1>11. ~Has(u, r)
  <2> SUFFICES ASSUME NEW k \in 1..Len(u), LiveHeader(u[k]), u[k].repo = r
               PROVE  FALSE
    BY DEF Has
  <2>1. PICK i \in 1..Len(s) : i \notin X /\ k = e[i] /\ u[k] = s[i]
    BY <1>2
  <2>2. QED
    BY <1>3, <2>1 DEF X
<1>12. r \notin UsedOf("pacman", u)
  <2>1. r \in UsedOf("pacman", u) => Has(u, r)
    BY <1>1, UsedMember
  <2>2. QED
    BY <1>11, <2>1
<1>13. ASSUME NEW k \in 1..Len(u)
       PROVE  \E i \in 1..Len(s) : u[k] = s[i]
  <2>1. PICK i \in 1..Len(s) : i \notin X /\ k = e[i]
    BY <1>2
  <2>2. QED
    BY <1>2, <2>1
<1>14. QED
  BY <1>1, <1>10, <1>12, <1>13 DEF Switched, SomeLines

\* editDNFRepoEnabled: the flags of a section are set.
FlagsTurned(s, r, val) ==
  [i \in DOMAIN s |-> IF i \in Flags(s, r) THEN Flag(r, val) ELSE s[i]]

LEMMA FlagsSet ==
  ASSUME NEW s \in Seq(RepoLine), NEW r \in Nat, NEW val \in BOOLEAN, NEW u, Flags(s, r) # {},
         u = FlagsTurned(s, r, val)
  PROVE  /\ u \in Seq(RepoLine) /\ Len(u) = Len(s)
         /\ \A i \in 1..Len(s) : u[i] = s[i] \/ u[i] = Flag(r, val)
         /\ Switched("dnf", s, u, r, val)
<1>0. u = [i \in DOMAIN s |-> IF i \in Flags(s, r) THEN Flag(r, val) ELSE s[i]]
  BY DEF FlagsTurned
<1>1. DOMAIN s = 1..Len(s) /\ Len(s) \in Nat /\ \A i \in 1..Len(s) : s[i] \in RepoLine
  OBVIOUS
<1>2. Flag(r, val) \in RepoLine /\ Flag(r, val).is = "flag" /\ Flag(r, val).on = val
  BY DEF Flag, RepoLine
<1>3. u \in Seq(RepoLine) /\ Len(u) = Len(s)
  <2>1. u \in [1..Len(s) -> RepoLine]
    BY <1>0, <1>1, <1>2
  <2>2. QED
    BY <1>0, <1>1, <2>1
<1>4. \A i \in 1..Len(s) : IF i \in Flags(s, r) THEN u[i] = Flag(r, val) ELSE u[i] = s[i]
  BY <1>0, <1>1
<1>5. \A q : \A i : i \in Flags(s, q) <=> i \in Section(s, q) /\ s[i].is = "flag"
  BY DEF Flags
<1>6. \A i \in 1..Len(s) : u[i].is = s[i].is
  BY <1>2, <1>4, <1>5
<1>7. \A i \in 1..Len(s) : /\ LiveHeader(u[i]) <=> LiveHeader(s[i])
                           /\ LiveHeader(s[i]) => u[i].repo = s[i].repo
  <2>1. \A i \in Flags(s, r) : ~LiveHeader(s[i])
    BY <1>5 DEF LiveHeader
  <2>2. QED
    BY <1>2, <1>4, <1>6, <2>1 DEF LiveHeader
<1>8. \A q : Section(u, q) = Section(s, q) /\ (Has(u, q) <=> Has(s, q))
  BY <1>3, <1>7, SectionsSame
<1>9. \A q : Flags(u, q) = Flags(s, q)
  <2> TAKE q
  <2>1. \A i \in Section(s, q) : i \in 1..Len(s)
    BY SectionMember
  <2>2. \A i \in Section(s, q) : u[i].is = s[i].is
    BY <1>6, <2>1
  <2>3. Section(u, q) = Section(s, q)
    BY <1>8
  <2>4. QED
    BY <2>2, <2>3, Zenon DEF Flags
<1>10. \A i \in Flags(s, r) : u[i].on = val
  <2>1. \A i \in Flags(s, r) : i \in 1..Len(s)
    BY <1>5, SectionMember
  <2>2. QED
    BY <1>2, <1>4, <2>1
<1>11. Enabled(u, r) <=> val
  <2>1. Flags(u, r) = Flags(s, r)
    BY <1>9
  <2>2. Flags(u, r) # {} /\ \A i \in Flags(u, r) : u[i].on = val
    BY <1>10, <2>1
  <2>3. QED
    BY <1>3, <2>2, AllFlags
<1>12. ASSUME NEW q, q # r
       PROVE  Enabled(u, q) <=> Enabled(s, q)
  <2>1. \A i \in Flags(s, q) : i \in 1..Len(s) /\ i \notin Flags(s, r)
    BY <1>5, <1>12, SectionMember, SectionsApart
  <2>2. \A i \in Flags(s, q) : u[i] = s[i]
    BY <1>4, <2>1
  <2>3. Flags(u, q) = Flags(s, q)
    BY <1>9
  <2>4. QED
    BY <2>2, <2>3, Zenon DEF Enabled
<1>13. Has(s, r)
  <2>1. PICK i : i \in Section(s, r)
    BY <1>5
  <2>2. QED
    BY <2>1, SectionLine
<1>14. \A q : q \in UsedOf("dnf", u) <=> Has(s, q) /\ Enabled(u, q)
  <2> TAKE q
  <2>1. q \in UsedOf("dnf", u) <=> Has(u, q) /\ Enabled(u, q)
    BY <1>3, UsedMember
  <2>2. QED
    BY <1>8, <2>1
<1>15. \A q : q \in UsedOf("dnf", s) <=> Has(s, q) /\ Enabled(s, q)
  BY UsedMember
<1>16. r \in UsedOf("dnf", u) <=> val
  BY <1>11, <1>13, <1>14
<1>17. \A q : q # r => (q \in UsedOf("dnf", u) <=> q \in UsedOf("dnf", s))
  BY <1>12, <1>14, <1>15
<1>18. QED
  BY <1>3, <1>4, <1>16, <1>17 DEF Switched

\* editDNFRepoEnabled: a section without a flag gets one, below its header.
FlagAdded(s, r, val) == Enlarged(HeaderOf(s, r), Flag(r, val), s)

LEMMA FlagInserted ==
  ASSUME NEW s \in Seq(RepoLine), NEW r \in Nat, NEW val \in BOOLEAN, NEW u,
         Flags(s, r) = {}, HeaderOf(s, r) # {},
         u = FlagAdded(s, r, val)
  PROVE  /\ u \in Seq(RepoLine)
         /\ \A k \in 1..Len(u) : u[k] = Flag(r, val) \/ \E i \in 1..Len(s) : u[k] = s[i]
         /\ Switched("dnf", s, u, r, val)
<1> DEFINE X == HeaderOf(s, r)
           x == Flag(r, val)
           K == 1..Len(s)
<1>1. x \in RepoLine /\ x.is = "flag" /\ x.on = val /\ ~LiveHeader(x)
  BY DEF Flag, RepoLine, LiveHeader
<1>2. \A h \in K : h \in X <=> LiveHeader(s[h]) /\ s[h].repo = r
  <2>1. DOMAIN s = 1..Len(s)
    OBVIOUS
  <2>2. QED
    BY <2>1 DEF HeaderOf
<1>3. X \subseteq K /\ X # {}
  <2>1. DOMAIN s = 1..Len(s)
    OBVIOUS
  <2>2. QED
    BY <2>1 DEF HeaderOf
<1> HIDE DEF X, x
<1>4. u = Enlarged(X, x, s)
  BY DEF X, x, FlagAdded
<1>5. u \in Seq(RepoLine) /\ \E e : MovesTo(X, x, s, u, e)
  BY <1>1, <1>4, PutIn
<1>6. PICK e \in [K -> Nat] :
        /\ \A i \in K : e[i] \in 1..Len(u) /\ u[e[i]] = s[i]
        /\ \A i \in K : i \in X => e[i] + 1 \in 1..Len(u) /\ u[e[i] + 1] = x
        /\ \A i, j \in K : i < j => e[i] < e[j]
        /\ \A k \in 1..Len(u) : \E i \in K : k = e[i] \/ (i \in X /\ k = e[i] + 1)
  BY <1>5 DEF MovesTo
<1>7. Len(u) \in Nat /\ Len(s) \in Nat
  BY <1>5
<1>8. ASSUME NEW k \in 1..Len(u)
      PROVE  \/ \E i \in K : k = e[i] /\ u[k] = s[i]
             \/ u[k] = x /\ \E h \in X : k = e[h] + 1
  <2>1. PICK i \in K : k = e[i] \/ (i \in X /\ k = e[i] + 1)
    BY <1>6
  <2>2. CASE k = e[i]
    BY <1>6, <2>2
  <2>3. CASE i \in X /\ k = e[i] + 1
    BY <1>6, <2>3
  <2>4. QED
    BY <2>1, <2>2, <2>3
<1>9. ASSUME NEW q
      PROVE  /\ Has(u, q) <=> Has(s, q)
             /\ \A i \in K : e[i] \in Section(u, q) <=> i \in Section(s, q)
  <2>1. PICK z : q # z
    <3>1. q # 1 \/ q # 2
      OBVIOUS
    <3>2. QED
      BY <3>1
  <2>2. Embeds(s, u, K, e, z)
    <3>1. \A k \in 1..Len(u) : LiveHeader(u[k]) => \E i \in K : k = e[i]
      BY <1>1, <1>8
    <3>2. \A i \in K : \A h \in 1..(i - 1) : h \in K
      BY <1>7
    <3>3. QED
      BY <1>6, <3>1, <3>2 DEF Embeds
  <2> HIDE DEF K
  <2>3. QED
    BY <1>5, <2>1, <2>2, SectionsEmbedded
<1>10. \A q : \A i : i \in Flags(s, q) <=> i \in Section(s, q) /\ s[i].is = "flag"
  BY DEF Flags
<1>11. \A q : \A i : i \in Flags(u, q) <=> i \in Section(u, q) /\ u[i].is = "flag"
  BY DEF Flags
<1>12. \A q : \A i \in K : e[i] \in Flags(u, q) <=> i \in Flags(s, q)
  <2> TAKE q
  <2> TAKE i \in K
  <2>1. e[i] \in Flags(u, q) <=> e[i] \in Section(u, q) /\ u[e[i]].is = "flag"
    BY <1>11
  <2>2. i \in Flags(s, q) <=> i \in Section(s, q) /\ s[i].is = "flag"
    BY <1>10
  <2>3. u[e[i]] = s[i]
    BY <1>6
  <2>4. e[i] \in Section(u, q) <=> i \in Section(s, q)
    BY <1>9
  <2>5. QED
    BY <2>1, <2>2, <2>3, <2>4
<1>13. \A q : \A i \in Flags(s, q) : i \in K
  BY <1>10, SectionMember
<1>14. \A q : \A k \in Flags(u, q) : k \in 1..Len(u)
  BY <1>5, <1>11, SectionMember
<1>15. ASSUME NEW h \in X
       PROVE  e[h] + 1 \in Flags(u, r) /\ \A q : q # r => e[h] + 1 \notin Section(u, q)
  <2>1. /\ h \in K /\ e[h] \in Nat /\ e[h] \in 1..Len(u) /\ u[e[h]] = s[h] /\ LiveHeader(s[h]) /\ s[h].repo = r
        /\ e[h] + 1 \in 1..Len(u) /\ u[e[h] + 1] = x
    BY <1>2, <1>3, <1>6
  <2> DEFINE g == e[h]
             k == g + 1
  <2>2. /\ g \in Nat /\ g \in 1..Len(u) /\ LiveHeader(u[g]) /\ u[g].repo = r
        /\ k \in 1..Len(u) /\ u[k] = x /\ k = g + 1 /\ k \in Nat
    BY <2>1
  <2> HIDE DEF g, k
  <2>3. g \in 1..(k - 1) /\ \A j \in (g + 1)..k : j = k
    BY <2>2
  <2>4. Heads(u, r, g, k)
    BY <1>1, <2>2, <2>3 DEF Heads
  <2>5. k \in Flags(u, r)
    BY <1>1, <1>5, <1>11, <2>2, <2>3, <2>4, SectionMember DEF Below
  <2>6. ASSUME NEW q, q # r, k \in Section(u, q)
        PROVE  FALSE
    <3>1. PICK f \in 1..(k - 1) : Heads(u, q, f, k)
      BY <1>5, <2>6, SectionMember DEF Below
    <3>2. f # g
      BY <2>2, <2>6, <3>1 DEF Heads
    <3>3. g \in (f + 1)..k
      BY <2>2, <3>1, <3>2
    <3>4. QED
      BY <2>2, <3>1, <3>3 DEF Heads
  <2>7. QED
    BY <2>5, <2>6 DEF g, k
<1>16. Enabled(u, r) <=> val
  <2>1. Flags(u, r) # {}
    BY <1>3, <1>15
  <2>2. ASSUME NEW k \in Flags(u, r)
        PROVE  u[k].on = val
    <3>1. ASSUME NEW i \in K, k = e[i]
          PROVE  FALSE
      BY <1>12, <3>1
    <3>2. u[k] = x
      BY <1>8, <1>14, <3>1
    <3>3. QED
      BY <1>1, <3>2
  <2>3. QED
    BY <1>5, <2>1, <2>2, AllFlags
<1>17. ASSUME NEW q, q # r
       PROVE  Enabled(u, q) <=> Enabled(s, q)
  <2>1. ASSUME NEW k \in Flags(u, q)
        PROVE  \E i \in Flags(s, q) : k = e[i]
    <3>1. \A h \in X : k # e[h] + 1
      BY <1>11, <1>15, <1>17
    <3>2. PICK i \in K : k = e[i]
      BY <1>8, <1>14, <3>1
    <3>3. QED
      BY <1>12, <3>2
  <2>2. ASSUME NEW i \in Flags(s, q), NEW j \in Flags(s, q)
        PROVE  /\ i \in K /\ j \in K /\ i \in Nat /\ j \in Nat /\ e[i] \in Nat /\ e[j] \in Nat
               /\ u[e[i]] = s[i] /\ e[i] \in Flags(u, q) /\ e[j] \in Flags(u, q)
               /\ (j <= i <=> e[j] <= e[i])
    <3>1. i \in K /\ j \in K
      BY <1>13
    <3>2. i \in Nat /\ j \in Nat /\ e[i] \in Nat /\ e[j] \in Nat /\ u[e[i]] = s[i]
      BY <1>6, <3>1
    <3>3. e[i] \in Flags(u, q) /\ e[j] \in Flags(u, q)
      BY <1>12, <3>1
    <3>4. (j < i => e[j] < e[i]) /\ (i < j => e[i] < e[j])
      BY <1>6, <3>1
    <3>5. j <= i <=> e[j] <= e[i]
      BY <3>2, <3>4
    <3>6. QED
      BY <3>1, <3>2, <3>3, <3>5
  <2>3. ASSUME Enabled(u, q), NEW i \in Flags(s, q), \A j \in Flags(s, q) : j <= i
        PROVE  s[i].on
    <3>1. e[i] \in Flags(u, q) /\ u[e[i]] = s[i]
      BY <2>2
    <3>2. \A k \in Flags(u, q) : k <= e[i]
      BY <2>1, <2>2, <2>3
    <3>3. u[e[i]].on
      BY <2>3, <3>1, <3>2 DEF Enabled
    <3>4. QED
      BY <3>1, <3>3
  <2>4. ASSUME Enabled(s, q), NEW k \in Flags(u, q), \A j \in Flags(u, q) : j <= k
        PROVE  u[k].on
    <3>1. PICK i \in Flags(s, q) : k = e[i]
      BY <2>1
    <3>2. \A j \in Flags(s, q) : j <= i
      BY <2>2, <2>4, <3>1
    <3>3. s[i].on
      BY <2>4, <3>2 DEF Enabled
    <3>4. QED
      BY <2>2, <3>1, <3>3
  <2>5. Enabled(u, q) => Enabled(s, q)
    BY <2>3 DEF Enabled
  <2>6. Enabled(s, q) => Enabled(u, q)
    BY <2>4 DEF Enabled
  <2>7. QED
    BY <2>5, <2>6
<1>18. Has(s, r)
  <2>1. PICK h \in K : LiveHeader(s[h]) /\ s[h].repo = r
    BY <1>2, <1>3
  <2>2. QED
    BY <2>1 DEF Has
<1>19. \A q : q \in UsedOf("dnf", u) <=> Has(s, q) /\ Enabled(u, q)
  <2> TAKE q
  <2>1. q \in UsedOf("dnf", u) <=> Has(u, q) /\ Enabled(u, q)
    BY <1>5, UsedMember
  <2>2. QED
    BY <1>9, <2>1
<1>20. \A q : q \in UsedOf("dnf", s) <=> Has(s, q) /\ Enabled(s, q)
  BY UsedMember
<1>21. r \in UsedOf("dnf", u) <=> val
  BY <1>16, <1>18, <1>19
<1>22. \A q : q # r => (q \in UsedOf("dnf", u) <=> q \in UsedOf("dnf", s))
  BY <1>17, <1>19, <1>20
<1>23. \A k \in 1..Len(u) : u[k] = x \/ \E i \in 1..Len(s) : u[k] = s[i]
  BY <1>8
<1>24. QED
  BY <1>5, <1>21, <1>22, <1>23 DEF Switched, x

\* toggleAptRepo: a line is switched.
LineTurned(s, l, val) == [s EXCEPT ![l].live = val]
OneLineTurned(s, l, val, u) ==
  /\ u \in Seq(RepoLine) /\ Len(u) = Len(s)
  /\ \A i \in 1..Len(s) : /\ u[i].is = s[i].is /\ u[i].repo = s[i].repo
                          /\ i # l => u[i] = s[i]
  /\ l \in 1..Len(s) /\ s[l].is = "source" => Switched("apt", s, u, s[l].repo, val)

LEMMA LineSwitched ==
  ASSUME NEW s \in Seq(RepoLine), NEW l, NEW val \in BOOLEAN, NEW u,
         u = LineTurned(s, l, val),
         \A i \in 1..Len(s) : s[i].is = "source" \/ ~s[i].live,
         \A i, j \in 1..Len(s) : s[i].is = "source" /\ s[j].is = "source" /\ s[i].repo = s[j].repo => i = j
  PROVE  OneLineTurned(s, l, val, u)
<1>1. DOMAIN s = 1..Len(s) /\ Len(s) \in Nat /\ \A i \in 1..Len(s) : s[i] \in RepoLine
  OBVIOUS
<1>2. \A i \in 1..Len(s) : [s[i] EXCEPT !.live = val] \in RepoLine
  BY <1>1 DEF RepoLine
<1>3. u = [i \in 1..Len(s) |-> IF i = l THEN [s[i] EXCEPT !.live = val] ELSE s[i]]
  BY <1>1 DEF LineTurned
<1>4. u \in Seq(RepoLine) /\ Len(u) = Len(s)
  <2>1. u \in [1..Len(s) -> RepoLine]
    BY <1>1, <1>2, <1>3
  <2>2. QED
    BY <1>1, <1>3, <2>1
<1>5. \A i \in 1..Len(s) : /\ u[i].is = s[i].is /\ u[i].repo = s[i].repo
                           /\ i # l => u[i] = s[i]
                           /\ i = l => u[i].live = val
  BY <1>1, <1>3 DEF RepoLine
<1>6. ASSUME l \in 1..Len(s), s[l].is = "source"
      PROVE  Switched("apt", s, u, s[l].repo, val)
  <2>1. \A q : q \in UsedOf("apt", u) <=> HasLive(u, q)
    BY <1>4, UsedMember
  <2>2. \A q : q \in UsedOf("apt", s) <=> HasLive(s, q)
    BY UsedMember
  <2>3. ASSUME NEW q, q # s[l].repo
        PROVE  q \in UsedOf("apt", u) <=> q \in UsedOf("apt", s)
    <3>1. \A i \in 1..Len(s) : u[i].live /\ u[i].repo = q <=> s[i].live /\ s[i].repo = q
      <4> TAKE i \in 1..Len(s)
      <4>1. CASE i = l
        BY <1>5, <2>3, <4>1
      <4>2. CASE i # l
        BY <1>5, <4>2
      <4>3. QED
        BY <4>1, <4>2
    <3>2. HasLive(u, q) <=> HasLive(s, q)
      BY <1>4, <3>1 DEF HasLive
    <3>3. QED
      BY <2>1, <2>2, <3>2, Zenon
  <2>4. \A i \in 1..Len(s) : u[i].live /\ u[i].repo = s[l].repo => i = l
    <3> SUFFICES ASSUME NEW i \in 1..Len(s), u[i].live, u[i].repo = s[l].repo, i # l
                 PROVE  FALSE
      OBVIOUS
    <3>1. s[i].live /\ s[i].repo = s[l].repo
      BY <1>5
    <3>2. s[i].is = "source"
      BY <3>1
    <3>3. QED
      BY <1>6, <3>1, <3>2
  <2>5. s[l].repo \in UsedOf("apt", u) <=> u[l].live
    <3>1. u[l].repo = s[l].repo /\ l \in 1..Len(u)
      BY <1>4, <1>5, <1>6
    <3>2. \A i \in 1..Len(u) : u[i].live /\ u[i].repo = s[l].repo => i = l
      BY <1>4, <2>4
    <3>3. HasLive(u, s[l].repo) <=> u[l].live
      BY <3>1, <3>2, Zenon DEF HasLive
    <3>4. QED
      BY <2>1, <3>3, Zenon
  <2>6. QED
    BY <1>5, <1>6, <2>3, <2>5 DEF Switched
<1>7. QED
  BY <1>4, <1>5, <1>6 DEF OneLineTurned

\* The file a repository is in, the lines and texts a file may have, and the rows a
\* page may show.
HomeOf(fam, r) == IF fam = "pacman" \/ r <= 2 THEN "main" ELSE "extra"

FileLine(fam, f, n, line) ==
  /\ line.repo \in 0..n
  /\ line.is \in {"source", "header"} => line.repo \in 1..n /\ HomeOf(fam, line.repo) = f
  /\ IF fam = "apt" THEN line.is = "source" \/ (line.is = "note" /\ ~line.live) ELSE line.is # "source"

\* Nobody changes what a line of sources.list is; a list of its own has sources only.
AptText(f, s) ==
  /\ \A i, j \in 1..Len(s) :
       s[i].is = "source" /\ s[j].is = "source" /\ s[i].repo = s[j].repo => i = j
  /\ IF f = "main"
     THEN Len(s) = 3 /\ \A i \in 1..3 : s[i].is = "note" <=> i = 2
     ELSE \A i \in 1..Len(s) : s[i].is = "source"

FileText(fam, f, n, s) ==
  /\ s \in Seq(RepoLine)
  /\ \A i \in 1..Len(s) : FileLine(fam, f, n, s[i])
  /\ fam = "apt" => AptText(f, s)

PageRow == [file : Files, line : Nat, repo : Nat, enabled : BOOLEAN]

RowFits(fam, n, row) ==
  /\ row \in PageRow /\ row.line # 0
  /\ row.repo \in 1..n /\ HomeOf(fam, row.repo) = row.file
  /\ fam = "pacman" => row.enabled
  /\ fam = "apt" /\ row.file = "main" => row.line # 2

\* The row of an apt page still says whose line it is.
RowSays(row, s) ==
  row.line \in 1..Len(s) /\ s[row.line].is = "source" /\ s[row.line].repo = row.repo

\* What a change makes of a text.
EditedTo(s, op, row, r, val, u) ==
  /\ family = "apt" => u = LineTurned(s, row.line, val)
  /\ family = "pacman" /\ op = "disable" => u = SectionOff(s, r)
  /\ family = "pacman" /\ op = "remove" => u = SectionOut(s, r)
  /\ family = "dnf" /\ Flags(s, r) # {} => u = FlagsTurned(s, r, val)
  /\ family = "dnf" /\ Flags(s, r) = {} => u = FlagAdded(s, r, val)

LEMMA EditedIs ==
  ASSUME NEW s, NEW op, NEW row
  PROVE  EditedTo(s, op, row, row.repo, op = "enable", Edited(s, op, row))
<1> DEFINE r == row.repo
           val == (op = "enable")
<1>1. CASE family = "apt"
  BY <1>1, Zenon DEF EditedTo, Edited, LineTurned
<1>2. CASE family = "pacman"
  <2>1. CASE op = "disable"
    BY <1>2, <2>1, Zenon DEF EditedTo, Edited, SectionOff
  <2>2. CASE op = "remove"
    BY <1>2, <2>2, Zenon DEF EditedTo, Edited, SectionOut, Reduced
  <2>3. QED
    BY <1>2, <2>1, <2>2 DEF EditedTo
<1>3. CASE family = "dnf"
  <2>1. CASE Flags(s, r) # {}
    BY <1>3, <2>1, Zenon DEF EditedTo, Edited, FlagsTurned
  <2>2. CASE Flags(s, r) = {}
    BY <1>3, <2>2, Zenon DEF EditedTo, Edited, FlagAdded, Enlarged
  <2>3. QED
    BY <1>3, <2>1, <2>2 DEF EditedTo
<1>4. QED
  BY <1>1, <1>2, <1>3 DEF EditedTo

\* It stays a text of the same file, and switches the repository of the row and no other.
LEMMA EditedText ==
  ASSUME family \in Families, NEW n \in Nat, NEW row, RowFits(family, n, row),
         NEW s, FileText(family, row.file, n, s),
         NEW op, family = "pacman" => op \in {"disable", "remove"}
  PROVE  /\ FileText(family, row.file, n, Edited(s, op, row))
         /\ family = "apt" /\ RowSays(row, s) => Switched("apt", s, Edited(s, op, row), row.repo, op = "enable")
         /\ family # "apt" => Edited(s, op, row) = s \/ Switched(family, s, Edited(s, op, row), row.repo, op = "enable")
         /\ family = "apt" => \A r : RowSays(r, s) => RowSays(r, Edited(s, op, row))
<1> DEFINE f == row.file
           r == row.repo
           val == (op = "enable")
           u == Edited(s, op, row)
<1>1. /\ s \in Seq(RepoLine) /\ Len(s) \in Nat /\ \A i \in 1..Len(s) : FileLine(family, f, n, s[i])
      /\ val \in BOOLEAN /\ r \in Nat /\ r \in 1..n
  BY DEF FileText, RowFits, PageRow, f
<1>0. /\ family = "apt" => u = LineTurned(s, row.line, val)
      /\ family = "pacman" /\ op = "disable" => u = SectionOff(s, r)
      /\ family = "pacman" /\ op = "remove" => u = SectionOut(s, r)
      /\ family = "dnf" /\ Flags(s, r) # {} => u = FlagsTurned(s, r, val)
      /\ family = "dnf" /\ Flags(s, r) = {} => u = FlagAdded(s, r, val)
  <2>1. EditedTo(s, op, row, r, val, u)
    BY EditedIs DEF r, val, u
  <2>2. QED
    BY <2>1, Zenon DEF EditedTo
<1> HIDE DEF f, r, val, u
<1>2. CASE family = "apt"
  <2>2. \A i \in 1..Len(s) : s[i].is = "source" \/ ~s[i].live
    BY <1>1, <1>2 DEF FileLine
  <2>3. \A i, j \in 1..Len(s) : s[i].is = "source" /\ s[j].is = "source" /\ s[i].repo = s[j].repo => i = j
    BY <1>2 DEF FileText, AptText
  <2> DEFINE l == row.line
  <2> HIDE DEF l
  <2>4. /\ u \in Seq(RepoLine) /\ Len(u) = Len(s)
        /\ \A i \in 1..Len(s) : /\ u[i].is = s[i].is /\ u[i].repo = s[i].repo
                                /\ i # l => u[i] = s[i]
        /\ l \in 1..Len(s) /\ s[l].is = "source" => Switched("apt", s, u, s[l].repo, val)
    <3>1. u = LineTurned(s, l, val)
      BY <1>0, <1>2 DEF l
    <3>2. OneLineTurned(s, l, val, u)
      BY <1>1, <2>2, <2>3, <3>1, LineSwitched, Zenon
    <3>3. QED
      BY <3>2, Zenon DEF OneLineTurned
  <2>5. l \in 1..Len(s) => s[l].is = "source"
    <3>1. AptText(f, s) /\ (f = "main" => l # 2)
      BY <1>2 DEF FileText, RowFits, f, l
    <3>2. CASE f = "main"
      <4>1. Len(s) = 3 /\ \A i \in 1..3 : s[i].is = "note" <=> i = 2
        BY <3>1, <3>2 DEF AptText
      <4>2. l \in 1..Len(s) => s[l].is # "note"
        BY <3>1, <3>2, <4>1
      <4>3. QED
        BY <1>1, <1>2, <4>2 DEF FileLine
    <3>3. CASE f # "main"
      BY <3>1, <3>3 DEF AptText
    <3>4. QED
      BY <3>2, <3>3
  <2>6. ASSUME NEW i \in 1..Len(s)
        PROVE  FileLine(family, f, n, u[i])
    <3>1. CASE i = l
      BY <1>1, <1>2, <2>4, <2>5, <3>1 DEF FileLine
    <3>2. CASE i # l
      BY <1>1, <2>4, <3>2
    <3>3. QED
      BY <3>1, <3>2
  <2>7. AptText(f, u)
    <3>1. AptText(f, s)
      BY <1>2 DEF FileText, f
    <3>2. QED
      BY <2>4, <3>1, SMTT(60) DEF AptText
  <2>8. FileText(family, f, n, u)
    BY <2>4, <2>6, <2>7 DEF FileText
  <2>9. \A q : RowSays(q, s) => RowSays(q, u)
    BY <2>4 DEF RowSays
  <2>10. RowSays(row, s) => Switched("apt", s, u, r, val)
    BY <2>4 DEF RowSays, r, l
  <2>11. QED
    BY <1>2, <2>8, <2>9, <2>10 DEF u, val, r, f
<1>3. CASE family = "pacman" /\ op = "disable"
  <2>1. u = SectionOff(s, r)
    BY <1>0, <1>3
  <2>2. /\ u \in Seq(RepoLine) /\ Len(u) = Len(s)
        /\ \A i \in 1..Len(s) : u[i].is = s[i].is /\ u[i].repo = s[i].repo
        /\ Switched("pacman", s, u, r, FALSE)
    BY <1>1, <2>1, CommentedOut, ZenonT(60) DEF SameLines
  <2>3. \A i \in 1..Len(u) : FileLine(family, f, n, u[i])
    BY <1>1, <1>3, <2>2 DEF FileLine
  <2>4. FileText(family, f, n, u)
    BY <1>3, <2>2, <2>3, SMTT(60) DEF FileText
  <2>5. val = FALSE
    BY <1>3 DEF val
  <2>6. QED
    BY <1>3, <2>2, <2>4, <2>5 DEF u, val, r, f
<1>4. CASE family = "pacman" /\ op = "remove"
  <2>1. u = SectionOut(s, r)
    BY <1>0, <1>4
  <2>2. /\ u \in Seq(RepoLine)
        /\ \A k \in 1..Len(u) : \E i \in 1..Len(s) : u[k] = s[i]
        /\ Switched("pacman", s, u, r, FALSE)
    <3>1. SomeLines(s, u) /\ Switched("pacman", s, u, r, FALSE)
      BY <1>1, <2>1, SectionRemoved
    <3>2. QED
      BY <3>1, Zenon DEF SomeLines
  <2>3. \A k \in 1..Len(u) : FileLine(family, f, n, u[k])
    BY <1>1, <2>2
  <2>4. FileText(family, f, n, u)
    BY <1>4, <2>2, <2>3 DEF FileText
  <2>5. val = FALSE
    BY <1>4 DEF val
  <2>6. QED
    BY <1>4, <2>2, <2>4, <2>5 DEF u, val, r, f
<1>5. CASE family = "dnf"
  <2>1. FileLine(family, f, n, Flag(r, val))
    BY <1>1, <1>5 DEF FileLine, Flag
  <2>2. CASE Flags(s, r) # {}
    <3>1. u = FlagsTurned(s, r, val)
      BY <1>0, <1>5, <2>2
    <3>2. /\ u \in Seq(RepoLine) /\ Len(u) = Len(s)
          /\ \A i \in 1..Len(s) : u[i] = s[i] \/ u[i] = Flag(r, val)
          /\ Switched("dnf", s, u, r, val)
      BY <1>1, <2>2, <3>1, FlagsSet
    <3>3. \A i \in 1..Len(u) : FileLine(family, f, n, u[i])
      BY <1>1, <2>1, <3>2
    <3>4. FileText(family, f, n, u)
      BY <1>5, <3>2, <3>3 DEF FileText
    <3>5. QED
      BY <1>5, <3>2, <3>4 DEF u, val, r, f
  <2>3. CASE Flags(s, r) = {}
    <3>1. u = FlagAdded(s, r, val)
      BY <1>0, <1>5, <2>3
    <3>2. CASE HeaderOf(s, r) = {}
      <4>1. Flag(r, val) \in RepoLine
        BY <1>1 DEF Flag, RepoLine
      <4>2. u = s
        BY <1>1, <3>1, <3>2, <4>1, NothingPutIn DEF FlagAdded
      <4>3. QED
        BY <1>5, <4>2 DEF u, f
    <3>3. CASE HeaderOf(s, r) # {}
      <4>1. /\ u \in Seq(RepoLine)
            /\ \A k \in 1..Len(u) : u[k] = Flag(r, val) \/ \E i \in 1..Len(s) : u[k] = s[i]
            /\ Switched("dnf", s, u, r, val)
        BY <1>1, <2>3, <3>1, <3>3, FlagInserted
      <4>2. \A i \in 1..Len(u) : FileLine(family, f, n, u[i])
        BY <1>1, <2>1, <4>1
      <4>3. FileText(family, f, n, u)
        BY <1>5, <4>1, <4>2 DEF FileText
      <4>4. QED
        BY <1>5, <4>1, <4>3 DEF u, val, r, f
    <3>4. QED
      BY <3>2, <3>3
  <2>4. QED
    BY <2>2, <2>3
<1>6. QED
  BY <1>2, <1>3, <1>4, <1>5 DEF Families

\* What every page, request and file holds.
AnyText == Seq(RepoLine) \union {Gone}

Request == [pc : {"idle", "count", "unlink", "manager", "read", "write"},
            op : {"enable", "disable", "remove"}, row : PageRow, text : AnyText]

EditFits(fam, n, e) ==
  /\ RowFits(fam, n, e.row)
  /\ e.pc = "write" => FileText(fam, e.row.file, n, e.text)
  /\ e.pc \in {"count", "unlink"} => e.op = "remove" /\ fam # "pacman"
  /\ e.pc = "manager" => fam = "dnf"
  /\ fam = "pacman" => e.op # "enable"

FileFits(fam, f, n, s) ==
  IF s = Gone THEN ~(fam = "pacman" /\ f = "main") ELSE FileText(fam, f, n, s)

RepoShape ==
  /\ family \in Families
  /\ repos \in Nat /\ repos >= 4 /\ repos <= MaxRepos
  /\ edits \in Nat /\ edits <= MaxEdits
  /\ files \in [Files -> AnyText]
  /\ \A f \in Files : FileFits(family, f, repos, files[f])
  /\ \A t \in Viewers : \A row \in repoRows[t] : RowFits(family, repos, row)
  /\ DOMAIN repoRows = Viewers
  /\ edit \in [Viewers -> Request]
  /\ \A t \in Viewers : edit[t].pc # "idle" => EditFits(family, repos, edit[t])

\* What a page, and a request that nothing has disturbed, know of the files.
StillSays(row, s) == s = Gone \/ RowSays(row, s)
LiveOnes(fam, s) == IF fam = "apt" THEN {i \in DOMAIN s : s[i].live} ELSE {i \in DOMAIN s : LiveHeader(s[i])}
Undisturbed(fam, e, s) ==
  /\ e.pc = "write" => e.text = s
  /\ e.pc = "unlink" => s # Gone /\ Cardinality(LiveOnes(fam, s)) <= 1
  /\ fam = "apt" /\ e.pc # "idle" => StillSays(e.row, s)

RepoClean ==
  /\ current \subseteq Viewers /\ clean \subseteq Viewers
  /\ \A t \in clean : Undisturbed(family, edit[t], files[edit[t].row.file])
  /\ \A t \in current : family = "apt" =>
       \A row \in repoRows[t] : StillSays(row, files[row.file])

RepoInv == RepoShape /\ RepoClean

\* More repositories do no harm.
LEMMA RepositoriesGrow ==
  ASSUME NEW fam, NEW n \in Nat, NEW m \in Nat, n <= m
  PROVE  /\ \A f, s : FileText(fam, f, n, s) => FileText(fam, f, m, s)
         /\ \A f, s : FileFits(fam, f, n, s) => FileFits(fam, f, m, s)
         /\ \A row : RowFits(fam, n, row) => RowFits(fam, m, row)
         /\ \A e : EditFits(fam, n, e) => EditFits(fam, m, e)
<1>1. 0..n \subseteq 0..m /\ 1..n \subseteq 1..m
  OBVIOUS
<1>2. \A f, x : FileLine(fam, f, n, x) => FileLine(fam, f, m, x)
  BY <1>1, Zenon DEF FileLine
<1>3. \A f, s : FileText(fam, f, n, s) => FileText(fam, f, m, s)
  BY <1>2, Zenon DEF FileText
<1>4. \A row : RowFits(fam, n, row) => RowFits(fam, m, row)
  BY <1>1, Zenon DEF RowFits
<1>5. QED
  BY <1>3, <1>4, Zenon DEF FileFits, EditFits

\* What distributions install.
LEMMA RepoInitial == RepoInit => RepoInv
<1> SUFFICES ASSUME RepoInit
             PROVE  RepoInv
  OBVIOUS
<1> USE RepoAssumption
<1>1. /\ family \in Families /\ repos = 4 /\ edits = 0 /\ current = {} /\ clean = {}
      /\ repoRows = [t \in Viewers |-> {}] /\ edit = [t \in Viewers |-> NoEdit]
  BY DEF RepoInit
<1>2. NoEdit \in Request /\ NoEdit.pc = "idle"
  BY DEF NoEdit, NoEntry, Request, PageRow, AnyText, Files
<1>3. \A f \in Files : files[f] \in AnyText /\ FileFits(family, f, 4, files[f])
  <2>1. files = FirstFiles(family)
    BY DEF RepoInit
  <2>2. CASE family = "apt"
    <3> DEFINE a == <<Source(1, TRUE), Note, Source(2, FALSE)>>
               b == <<Source(3, TRUE), Source(4, TRUE)>>
    <3>1. files["main"] = a /\ files["extra"] = b
      BY <2>1, <2>2 DEF FirstFiles
    <3>2. a \in Seq(RepoLine) /\ b \in Seq(RepoLine)
      BY DEF RepoLine, Source, Note
    <3>3. FileText("apt", "main", 4, a)
      BY <3>2 DEF FileText, AptText, FileLine, HomeOf, Source, Note
    <3>4. FileText("apt", "extra", 4, b)
      BY <3>2 DEF FileText, AptText, FileLine, HomeOf, Source, Note
    <3> HIDE DEF a, b
    <3>5. QED
      BY <2>2, <3>1, <3>2, <3>3, <3>4 DEF FileFits, Files, AnyText
  <2>3. CASE family = "pacman"
    <3> DEFINE a == <<Header(1, TRUE), Setting(1, TRUE), Note, Header(2, TRUE),
                      Setting(2, TRUE), Header(3, FALSE), Setting(3, FALSE)>>
    <3>1. files["main"] = a /\ files["extra"] = Gone
      BY <2>1, <2>3 DEF FirstFiles
    <3>2. a \in Seq(RepoLine)
      BY DEF RepoLine, Header, Setting, Note
    <3>3. FileText("pacman", "main", 4, a)
      BY <3>2 DEF FileText, FileLine, HomeOf, Header, Setting, Note
    <3> HIDE DEF a
    <3>4. QED
      BY <2>3, <3>1, <3>2, <3>3 DEF FileFits, Files, AnyText
  <2>4. CASE family = "dnf"
    <3> DEFINE a == <<Header(1, TRUE), Setting(1, TRUE), Header(2, TRUE),
                      Setting(2, TRUE), Flag(2, FALSE)>>
               b == <<Header(3, TRUE), Setting(3, TRUE), Flag(3, TRUE)>>
    <3>1. files["main"] = a /\ files["extra"] = b
      BY <2>1, <2>4 DEF FirstFiles
    <3>2. a \in Seq(RepoLine) /\ b \in Seq(RepoLine)
      BY DEF RepoLine, Header, Setting, Flag
    <3>3. FileText("dnf", "main", 4, a)
      BY <3>2 DEF FileText, FileLine, HomeOf, Header, Setting, Flag
    <3>4. FileText("dnf", "extra", 4, b)
      BY <3>2 DEF FileText, FileLine, HomeOf, Header, Setting, Flag
    <3> HIDE DEF a, b
    <3>5. QED
      BY <2>4, <3>1, <3>2, <3>3, <3>4 DEF FileFits, Files, AnyText
  <2>5. QED
    BY <1>1, <2>2, <2>3, <2>4 DEF Families
<1>4. files \in [Files -> AnyText]
  <2>1. DOMAIN files = Files /\ files = [f \in DOMAIN files |-> files[f]]
    BY <1>1 DEF RepoInit, FirstFiles, Families, Files
  <2>2. QED
    BY <1>3, <2>1
<1>5. RepoShape
  BY <1>1, <1>2, <1>3, <1>4 DEF RepoShape
<1>6. RepoClean
  BY <1>1 DEF RepoClean
<1>7. QED
  BY <1>5, <1>6 DEF RepoInv

\* A request goes on, or ends: the others are where they were.
LEMMA OneRequest ==
  ASSUME RepoShape, NEW t \in Viewers, NEW e \in Request,
         e.pc # "idle" => EditFits(family, repos, e),
         edit' = [edit EXCEPT ![t] = e], family' = family, repos' = repos
  PROVE  /\ edit' \in [Viewers -> Request]
         /\ \A v \in Viewers : edit'[v].pc # "idle" => EditFits(family', repos', edit'[v])
         /\ edit'[t] = e /\ \A v \in Viewers : v # t => edit'[v] = edit[v]
  BY DEF RepoShape

\* The rows of a page are lines of the files.
LEMMA RowsAre ==
  ASSUME RepoShape, NEW f \in Files, NEW row \in RowsOf(f)
  PROVE  /\ RowFits(family, repos, row)
         /\ family = "apt" => StillSays(row, files[row.file])
<1> DEFINE s == files[f]
<1>1. s # Gone /\ s \in Seq(RepoLine) /\ FileText(family, f, repos, s)
  BY DEF RowsOf, RepoShape, AnyText, FileFits
<1>2. PICK i \in DOMAIN s : /\ s[i].is = "source" \/ LiveHeader(s[i])
                            /\ row = [file |-> f, line |-> i, repo |-> s[i].repo,
                                      enabled |-> CASE family = "apt" -> s[i].live
                                                    [] family = "pacman" -> TRUE
                                                    [] family = "dnf" -> Enabled(s, s[i].repo)]
  BY <1>1, Zenon DEF RowsOf
<1> HIDE DEF s
<1>3. i \in 1..Len(s) /\ i \in Nat /\ i # 0 /\ s[i] \in RepoLine /\ FileLine(family, f, repos, s[i])
  BY <1>1 DEF FileText
<1>4. s[i].is \in {"source", "header"}
  BY <1>2 DEF LiveHeader
<1>5. s[i].repo \in 1..repos /\ HomeOf(family, s[i].repo) = f /\ s[i].repo \in Nat /\ s[i].live \in BOOLEAN
  BY <1>3, <1>4 DEF FileLine, RepoLine
<1>6. Enabled(s, s[i].repo) \in BOOLEAN
  BY Zenon DEF Enabled
<1>7. row.file = f /\ row.line = i /\ row.repo = s[i].repo /\ row.enabled \in BOOLEAN /\ row \in PageRow
      /\ (family = "pacman" => row.enabled)
  <2>1. family \in Families
    BY DEF RepoShape
  <2>2. CASE family = "apt"
    BY <1>2, <1>3, <1>5, <2>2 DEF PageRow
  <2>3. CASE family = "pacman"
    BY <1>2, <1>3, <1>5, <2>3 DEF PageRow
  <2>4. CASE family = "dnf"
    BY <1>2, <1>3, <1>5, <1>6, <2>4 DEF PageRow
  <2>5. QED
    BY <2>1, <2>2, <2>3, <2>4 DEF Families
<1>8. family = "apt" => s[i].is = "source"
  BY <1>3, <1>4 DEF FileLine
<1>9. family = "apt" /\ f = "main" => i # 2
  <2>1. family = "apt" /\ f = "main" => Len(s) = 3 /\ (s[2].is = "note")
    BY <1>1 DEF FileText, AptText
  <2>2. QED
    BY <1>8, <2>1
<1>10. RowFits(family, repos, row)
  BY <1>3, <1>5, <1>7, <1>9 DEF RowFits
<1>11. family = "apt" => RowSays(row, files[row.file])
  BY <1>3, <1>7, <1>8 DEF RowSays, s
<1>12. QED
  BY <1>10, <1>11 DEF StillSays

LEMMA ListReposInv ==
  ASSUME RepoInv, NEW t \in Viewers, ListRepos(t)
  PROVE  RepoInv'
<1>1. RepoShape /\ RepoClean
  BY DEF RepoInv
<1>2. /\ UNCHANGED <<family, files, edit, clean, repos, edits>>
      /\ current' = current \union {t} /\ DOMAIN repoRows' = Viewers
      /\ \A row \in repoRows'[t] : \E f \in Files : row \in RowsOf(f)
      /\ \A v \in Viewers : v # t => repoRows'[v] = repoRows[v]
  BY <1>1 DEF ListRepos, RepoShape
<1>3. \A row \in repoRows'[t] : RowFits(family, repos, row) /\ (family = "apt" => StillSays(row, files[row.file]))
  BY <1>1, <1>2, RowsAre
<1>4. \A v \in Viewers : \A row \in repoRows'[v] : RowFits(family, repos, row)
  BY <1>1, <1>2, <1>3 DEF RepoShape
<1>5. RepoShape'
  BY <1>1, <1>2, <1>4 DEF RepoShape
<1>6. \A v \in current' : family = "apt" => \A row \in repoRows'[v] : StillSays(row, files[row.file])
  <2>1. \A v \in current' : v = t \/ (v # t /\ v \in current /\ v \in Viewers)
    BY <1>1, <1>2 DEF RepoClean
  <2>2. QED
    BY <1>1, <1>2, <1>3, <2>1 DEF RepoClean
<1>7. current' \subseteq Viewers /\ clean' \subseteq Viewers
  BY <1>1, <1>2 DEF RepoClean
<1>8. \A v \in clean' : Undisturbed(family', edit'[v], files'[edit'[v].row.file])
  BY <1>1, <1>2 DEF RepoClean
<1>9. RepoClean'
  BY <1>2, <1>6, <1>7, <1>8, Zenon DEF RepoClean
<1>10. QED
  BY <1>5, <1>9 DEF RepoInv

\* A request whose next step writes and removes nothing.
LEMMA FirstSteps ==
  ASSUME family \in Families, NEW n, NEW row, RowFits(family, n, row),
         NEW op \in {"enable", "disable", "remove"}, row.enabled => op # "enable"
  PROVE  \A op2 : op2 = (IF op = "remove" /\ family = "apt" /\ row.file = "main" THEN "disable" ELSE op) =>
           LET e == [pc |-> FirstStep(op, row), row |-> row, text |-> Gone, op |-> op2]
           IN  /\ e \in Request /\ EditFits(family, n, e)
               /\ e.pc \in {"count", "manager", "read"} /\ e.row = row
<1> TAKE op2
<1> HAVE op2 = (IF op = "remove" /\ family = "apt" /\ row.file = "main" THEN "disable" ELSE op)
<1>1. row \in PageRow /\ (family = "pacman" => op # "enable")
  BY DEF RowFits
<1>2. FirstStep(op, row) \in {"count", "manager", "read"}
  BY DEF FirstStep
<1>3. FirstStep(op, row) = "manager" => family = "dnf"
  BY DEF FirstStep
<1>4. FirstStep(op, row) = "count" => family # "pacman" /\ op2 = "remove"
  BY DEF FirstStep
<1>5. op2 \in {"enable", "disable", "remove"} /\ (family = "pacman" => op2 # "enable")
  BY <1>1
<1>6. QED
  BY <1>1, <1>2, <1>3, <1>4, <1>5 DEF Request, EditFits, AnyText

LEMMA AskChangeInv ==
  ASSUME RepoInv, NEW t \in Viewers, AskChange(t)
  PROVE  RepoInv'
<1>1. RepoShape /\ RepoClean
  BY DEF RepoInv
<1>2. PICK row \in repoRows[t] :
        \E op \in {IF row.enabled THEN "disable" ELSE "enable", "remove"} :
          LET comment == op = "remove" /\ family = "apt" /\ row.file = "main" IN
          edit' = [edit EXCEPT ![t] = [pc |-> FirstStep(op, row), row |-> row, text |-> Gone,
                                       op |-> IF comment THEN "disable" ELSE op]]
  BY DEF AskChange
<1>3. PICK op \in {IF row.enabled THEN "disable" ELSE "enable", "remove"} :
        edit' = [edit EXCEPT ![t] = [pc |-> FirstStep(op, row), row |-> row, text |-> Gone,
                   op |-> IF op = "remove" /\ family = "apt" /\ row.file = "main" THEN "disable" ELSE op]]
  BY <1>2
<1>4. /\ edits' = edits + 1 /\ edits < MaxEdits /\ edit[t].pc = "idle"
      /\ UNCHANGED <<family, files, repoRows, current, repos>>
      /\ clean' = IF t \in current THEN clean \union {t} ELSE clean \ {t}
  BY DEF AskChange
<1>5. RowFits(family, repos, row) /\ family \in Families
  BY <1>1 DEF RepoShape
<1> DEFINE op2 == IF op = "remove" /\ family = "apt" /\ row.file = "main" THEN "disable" ELSE op
           e == [pc |-> FirstStep(op, row), row |-> row, text |-> Gone, op |-> op2]
<1>6. e \in Request /\ EditFits(family, repos, e) /\ e.pc \in {"count", "manager", "read"} /\ e.row = row
  <2>1. op \in {"enable", "disable", "remove"} /\ (row.enabled => op # "enable")
    OBVIOUS
  <2>2. QED
    BY <1>5, <2>1, FirstSteps
<1>7. edit' = [edit EXCEPT ![t] = e]
  BY <1>3
<1> HIDE DEF e, op2
<1>8. /\ edit' \in [Viewers -> Request]
      /\ \A v \in Viewers : edit'[v].pc # "idle" => EditFits(family', repos', edit'[v])
      /\ edit'[t] = e /\ \A v \in Viewers : v # t => edit'[v] = edit[v]
  BY <1>1, <1>4, <1>6, <1>7, OneRequest
<1>9. RepoShape'
  <2>1. edits' \in Nat /\ edits' <= MaxEdits
    BY <1>1, <1>4, RepoAssumption DEF RepoShape
  <2>2. QED
    BY <1>1, <1>4, <1>8, <2>1 DEF RepoShape
<1>10. \A v \in clean' : Undisturbed(family', edit'[v], files'[edit'[v].row.file])
  <2> TAKE v \in clean'
  <2>1. CASE v = t
    <3>1. t \in current
      BY <1>4, <2>1
    <3>2. family = "apt" => StillSays(row, files[row.file])
      BY <1>1, <3>1 DEF RepoClean
    <3>3. QED
      BY <1>4, <1>6, <1>8, <2>1, <3>2 DEF Undisturbed
  <2>2. CASE v # t
    <3>1. v \in clean /\ v \in Viewers
      BY <1>1, <1>4, <2>2 DEF RepoClean
    <3>2. Undisturbed(family, edit[v], files[edit[v].row.file]) /\ edit'[v] = edit[v]
      BY <1>1, <1>8, <2>2, <3>1 DEF RepoClean
    <3>3. QED
      BY <1>4, <3>2
  <2>3. QED
    BY <2>1, <2>2
<1>11. current' \subseteq Viewers /\ clean' \subseteq Viewers
  BY <1>1, <1>4 DEF RepoClean
<1>12. RepoClean'
  BY <1>1, <1>4, <1>10, <1>11, Zenon DEF RepoClean
<1>13. QED
  BY <1>9, <1>12 DEF RepoInv

\* A request goes one step further and no file changes.
LEMMA OneStepInv ==
  ASSUME RepoInv, NEW t \in Viewers, NEW e \in Request, edit' = [edit EXCEPT ![t] = e],
         UNCHANGED <<family, files, repoRows, current, clean, repos, edits>>,
         e.pc # "idle" => EditFits(family, repos, e),
         t \in clean => Undisturbed(family, e, files[e.row.file])
  PROVE  RepoInv'
<1>1. RepoShape /\ RepoClean
  BY DEF RepoInv
<1>2. /\ edit' \in [Viewers -> Request]
      /\ \A v \in Viewers : edit'[v].pc # "idle" => EditFits(family', repos', edit'[v])
      /\ edit'[t] = e /\ \A v \in Viewers : v # t => edit'[v] = edit[v]
  BY <1>1, OneRequest
<1>3. RepoShape'
  BY <1>1, <1>2 DEF RepoShape
<1>4. \A v \in clean' : Undisturbed(family', edit'[v], files'[edit'[v].row.file])
  <2> TAKE v \in clean'
  <2>1. CASE v = t
    BY <1>2, <2>1
  <2>2. CASE v # t
    BY <1>1, <1>2, <2>2 DEF RepoClean
  <2>3. QED
    BY <2>1, <2>2
<1>5. RepoClean'
  BY <1>1, <1>4, Zenon DEF RepoClean
<1>6. QED
  BY <1>3, <1>5 DEF RepoInv

LEMMA NoEditFits ==
  NoEdit \in Request /\ NoEdit.pc = "idle" /\ \A s : Undisturbed(family, NoEdit, s)
BY DEF NoEdit, NoEntry, Request, PageRow, AnyText, Files, Undisturbed

\* What a request that is under way knows.
LEMMA UnderWay ==
  ASSUME RepoInv, NEW t \in Viewers, edit[t].pc # "idle"
  PROVE  /\ edit[t] \in Request /\ EditFits(family, repos, edit[t]) /\ edit[t].row \in PageRow
         /\ edit[t].row.file \in Files /\ files[edit[t].row.file] \in AnyText
         /\ FileFits(family, edit[t].row.file, repos, files[edit[t].row.file])
         /\ t \in clean => Undisturbed(family, edit[t], files[edit[t].row.file])
         /\ family \in Families /\ repos \in Nat
<1>1. RepoShape /\ RepoClean
  BY DEF RepoInv
<1>2. edit[t] \in Request /\ EditFits(family, repos, edit[t])
  BY <1>1 DEF RepoShape
<1>3. edit[t].row \in PageRow /\ edit[t].row.file \in Files
  BY <1>2 DEF Request, PageRow
<1>4. QED
  BY <1>1, <1>2, <1>3 DEF RepoShape, RepoClean

LEMMA CountInv ==
  ASSUME RepoInv, NEW t \in Viewers, Count(t)
  PROVE  RepoInv'
<1> DEFINE o == edit[t]
           f == o.row.file
           s == files[f]
<1>1. /\ o.pc = "count"
      /\ IF s = Gone THEN Ends(t)
         ELSE IF Cardinality(Sources(s)) <= 1 THEN Goes(t, "unlink", "remove", Gone)
         ELSE Goes(t, "read", "disable", Gone)
      /\ UNCHANGED <<family, files, repoRows, current, clean, repos, edits>>
  BY DEF Count
<1>2. /\ o \in Request /\ EditFits(family, repos, o)
      /\ t \in clean => Undisturbed(family, o, s)
  BY <1>1, UnderWay
<1>3. Sources(s) = LiveOnes(family, s)
  BY Zenon DEF Sources, LiveOnes
<1> HIDE DEF f, s
<1>4. CASE s = Gone
  BY <1>1, <1>4, NoEditFits, OneStepInv DEF Ends
<1>5. CASE s # Gone /\ Cardinality(Sources(s)) <= 1
  <2> DEFINE e == [o EXCEPT !.pc = "unlink", !.op = "remove", !.text = Gone]
  <2>1. edit' = [edit EXCEPT ![t] = e]
    BY <1>1, <1>5 DEF Goes
  <2>2. e \in Request /\ e.row = o.row /\ e.pc = "unlink" /\ e.op = "remove"
    BY <1>2 DEF Request, AnyText
  <2> HIDE DEF e
  <2>3. EditFits(family, repos, e)
    BY <1>1, <1>2, <2>2 DEF EditFits
  <2>4. t \in clean => Undisturbed(family, e, s)
    BY <1>1, <1>2, <1>3, <1>5, <2>2 DEF Undisturbed
  <2>5. s = files[e.row.file]
    BY <2>2 DEF s, f
  <2>6. QED
    BY <1>1, <2>1, <2>2, <2>3, <2>4, <2>5, OneStepInv
<1>6. CASE s # Gone /\ ~(Cardinality(Sources(s)) <= 1)
  <2> DEFINE e == [o EXCEPT !.pc = "read", !.op = "disable", !.text = Gone]
  <2>1. edit' = [edit EXCEPT ![t] = e]
    BY <1>1, <1>6 DEF Goes
  <2>2. e \in Request /\ e.row = o.row /\ e.pc = "read" /\ e.op = "disable"
    BY <1>2 DEF Request, AnyText
  <2> HIDE DEF e
  <2>3. EditFits(family, repos, e)
    BY <1>1, <1>2, <2>2 DEF EditFits
  <2>4. t \in clean => Undisturbed(family, e, s)
    BY <1>1, <1>2, <2>2 DEF Undisturbed
  <2>5. s = files[e.row.file]
    BY <2>2 DEF s, f
  <2>6. QED
    BY <1>1, <2>1, <2>2, <2>3, <2>4, <2>5, OneStepInv
<1>7. QED
  BY <1>4, <1>5, <1>6

LEMMA ReadFileInv ==
  ASSUME RepoInv, NEW t \in Viewers, ReadFile(t)
  PROVE  RepoInv'
<1> DEFINE o == edit[t]
           f == o.row.file
           s == files[f]
<1>1. /\ o.pc = "read"
      /\ IF s = Gone \/ (family = "apt" /\ o.row.line > Len(s))
         THEN Ends(t) ELSE Goes(t, "write", o.op, s)
      /\ UNCHANGED <<family, files, repoRows, current, clean, repos, edits>>
  BY DEF ReadFile
<1>2. /\ o \in Request /\ EditFits(family, repos, o) /\ s \in AnyText
      /\ FileFits(family, f, repos, s)
      /\ t \in clean => Undisturbed(family, o, s)
  BY <1>1, UnderWay
<1> HIDE DEF f, s
<1>3. CASE s = Gone \/ (family = "apt" /\ o.row.line > Len(s))
  BY <1>1, <1>3, NoEditFits, OneStepInv DEF Ends
<1>4. CASE ~(s = Gone \/ (family = "apt" /\ o.row.line > Len(s)))
  <2> DEFINE e == [o EXCEPT !.pc = "write", !.op = o.op, !.text = s]
  <2>1. edit' = [edit EXCEPT ![t] = e]
    BY <1>1, <1>4 DEF Goes
  <2>2. e \in Request /\ e.row = o.row /\ e.pc = "write" /\ e.op = o.op /\ e.text = s
    BY <1>2 DEF Request
  <2> HIDE DEF e
  <2>3. EditFits(family, repos, e)
    <3>1. FileText(family, e.row.file, repos, e.text)
      BY <1>2, <1>4, <2>2 DEF FileFits, f
    <3>2. QED
      BY <1>1, <1>2, <2>2, <3>1 DEF EditFits
  <2>4. t \in clean => Undisturbed(family, e, s)
    BY <1>1, <1>2, <2>2 DEF Undisturbed
  <2>5. s = files[e.row.file]
    BY <2>2 DEF s, f
  <2>6. QED
    BY <1>1, <2>1, <2>2, <2>3, <2>4, <2>5, OneStepInv
<1>5. QED
  BY <1>3, <1>4

\* A request ends with a change of a file.
LEMMA ChangeEnds ==
  ASSUME RepoInv, NEW t \in Viewers, NEW f \in Files, NEW s \in AnyText,
         FileFits(family, f, repos, s), Change(t, f, s), Ends(t),
         UNCHANGED <<family, repoRows, repos, edits>>,
         current' \subseteq current,
         family = "apt" =>
           \A v \in current' : \A row \in repoRows[v] :
             row.file = f /\ StillSays(row, files[f]) => StillSays(row, s)
  PROVE  RepoInv'
<1>1. RepoShape /\ RepoClean
  BY DEF RepoInv
<1>2. files' = [files EXCEPT ![f] = s] /\ clean' = IF s = files[f] THEN clean ELSE clean \intersect {t}
  BY DEF Change
<1>3. /\ edit' \in [Viewers -> Request]
      /\ \A v \in Viewers : edit'[v].pc # "idle" => EditFits(family', repos', edit'[v])
      /\ edit'[t] = NoEdit /\ \A v \in Viewers : v # t => edit'[v] = edit[v]
  BY <1>1, NoEditFits, OneRequest DEF Ends
<1>4. /\ files' \in [Files -> AnyText] /\ files'[f] = s
      /\ \A g \in Files : g # f => files'[g] = files[g]
  BY <1>1, <1>2 DEF RepoShape
<1>5. RepoShape'
  <2>1. \A g \in Files : FileFits(family, g, repos, files'[g])
    BY <1>1, <1>4 DEF RepoShape
  <2>2. QED
    BY <1>1, <1>3, <1>4, <2>1 DEF RepoShape
<1>6. \A v \in clean' : Undisturbed(family', edit'[v], files'[edit'[v].row.file])
  <2> TAKE v \in clean'
  <2>1. CASE v = t
    BY <1>3, <2>1, NoEditFits
  <2>2. CASE v # t
    <3>1. s = files[f] /\ clean' = clean
      BY <1>2, <2>2
    <3>2. files' = files
      <4>1. files \in [Files -> AnyText]
        BY <1>1 DEF RepoShape
      <4>2. QED
        BY <1>2, <3>1, <4>1
    <3>3. v \in clean /\ v \in Viewers /\ edit'[v] = edit[v]
      BY <1>1, <1>3, <2>2, <3>1 DEF RepoClean
    <3>4. QED
      BY <1>1, <3>2, <3>3 DEF RepoClean
  <2>3. QED
    BY <2>1, <2>2
<1>7. current' \subseteq Viewers /\ clean' \subseteq Viewers
  BY <1>1, <1>2 DEF RepoClean
<1>8. ASSUME family = "apt", NEW v \in current', NEW row \in repoRows[v]
      PROVE  StillSays(row, files'[row.file])
  <2>1. v \in current /\ v \in Viewers /\ StillSays(row, files[row.file])
    BY <1>1, <1>8 DEF RepoClean
  <2>2. RowFits(family, repos, row)
    BY <1>1, <2>1 DEF RepoShape
  <2>3. row.file \in Files
    BY <2>2 DEF RowFits, PageRow
  <2>4. CASE row.file = f
    BY <1>4, <1>8, <2>1, <2>4
  <2>5. CASE row.file # f
    BY <1>4, <2>1, <2>3, <2>5
  <2>6. QED
    BY <2>4, <2>5
<1>9. RepoClean'
  BY <1>6, <1>7, <1>8, Zenon DEF RepoClean
<1>10. QED
  BY <1>5, <1>9 DEF RepoInv

LEMMA UnlinkInv ==
  ASSUME RepoInv, NEW t \in Viewers, Unlink(t)
  PROVE  RepoInv'
<1>1. /\ edit[t].pc = "unlink" /\ Change(t, edit[t].row.file, Gone) /\ Ends(t)
      /\ UNCHANGED <<family, repoRows, current, repos, edits>>
  BY DEF Unlink
<1>2. EditFits(family, repos, edit[t]) /\ edit[t].row.file \in Files
  BY <1>1, UnderWay
<1>3. FileFits(family, edit[t].row.file, repos, Gone) /\ Gone \in AnyText
  BY <1>1, <1>2 DEF FileFits, EditFits, AnyText
<1>4. \A row : StillSays(row, Gone)
  BY DEF StillSays
<1>5. QED
  BY <1>1, <1>2, <1>3, <1>4, ChangeEnds

\* An edited file still has its form, and its other rows.
LEMMA EditedFits ==
  ASSUME RepoInv, NEW t \in Viewers, edit[t].pc # "idle", NEW s,
         FileText(family, edit[t].row.file, repos, s)
  PROVE  LET f == edit[t].row.file
             u == Edited(s, edit[t].op, edit[t].row)
         IN  /\ u \in AnyText /\ FileFits(family, f, repos, u) /\ u \in Seq(RepoLine) /\ u # Gone
             /\ family = "apt" => \A row : RowSays(row, s) => RowSays(row, u)
<1> DEFINE u == Edited(s, edit[t].op, edit[t].row)
<1>1. /\ edit[t] \in Request /\ EditFits(family, repos, edit[t])
      /\ family \in Families /\ repos \in Nat
  BY UnderWay
<1>2. RowFits(family, repos, edit[t].row) /\ (family = "pacman" => edit[t].op \in {"disable", "remove"})
  BY <1>1 DEF EditFits, Request
<1>3. /\ FileText(family, edit[t].row.file, repos, u)
      /\ family = "apt" => \A row : RowSays(row, s) => RowSays(row, u)
  BY <1>1, <1>2, EditedText
<1> HIDE DEF u
<1>4. u \in Seq(RepoLine) /\ u # Gone
  BY <1>3, RepoAssumption DEF FileText
<1>5. QED
  BY <1>3, <1>4 DEF FileFits, AnyText, u

LEMMA ManagerInv ==
  ASSUME RepoInv, NEW t \in Viewers, Manager(t)
  PROVE  RepoInv'
<1> DEFINE o == edit[t]
           f == o.row.file
           s == files[f]
           u == Edited(s, o.op, o.row)
<1>1. /\ o.pc = "manager"
      /\ \/ s # Gone /\ Change(t, f, u) /\ Ends(t)
         \/ Goes(t, "read", o.op, Gone) /\ UNCHANGED <<files, clean>>
      /\ UNCHANGED <<family, repoRows, current, repos, edits>>
  BY DEF Manager
<1>2. /\ o \in Request /\ EditFits(family, repos, o) /\ s \in AnyText /\ f \in Files
      /\ FileFits(family, f, repos, s) /\ family = "dnf"
      /\ t \in clean => Undisturbed(family, o, s)
  BY <1>1, UnderWay DEF EditFits
<1>3. CASE s # Gone /\ Change(t, f, u) /\ Ends(t)
  <2>1. FileText(family, f, repos, s)
    BY <1>2, <1>3 DEF FileFits
  <2>2. u \in AnyText /\ FileFits(family, f, repos, u)
    BY <1>1, <2>1, EditedFits
  <2> HIDE DEF u, f, s
  <2>3. QED
    BY <1>1, <1>2, <1>3, <2>2, ChangeEnds
<1>4. CASE Goes(t, "read", o.op, Gone) /\ UNCHANGED <<files, clean>>
  <2> DEFINE e == [o EXCEPT !.pc = "read", !.op = o.op, !.text = Gone]
  <2>1. edit' = [edit EXCEPT ![t] = e]
    BY <1>4 DEF Goes
  <2>2. e \in Request /\ e.row = o.row /\ e.pc = "read" /\ e.op = o.op
    BY <1>2 DEF Request, AnyText
  <2> HIDE DEF e
  <2>3. EditFits(family, repos, e)
    BY <1>1, <1>2, <2>2 DEF EditFits
  <2>4. t \in clean => Undisturbed(family, e, files[e.row.file])
    BY <1>1, <1>2, <2>2 DEF Undisturbed
  <2>5. QED
    BY <1>1, <1>4, <2>1, <2>2, <2>3, <2>4, OneStepInv
<1>5. QED
  BY <1>1, <1>3, <1>4

LEMMA WriteFileInv ==
  ASSUME RepoInv, NEW t \in Viewers, WriteFile(t)
  PROVE  RepoInv'
<1> DEFINE o == edit[t]
           f == o.row.file
           u == Edited(o.text, o.op, o.row)
<1>1. /\ o.pc = "write" /\ Change(t, f, u) /\ Ends(t)
      /\ current' = IF o.text = files[f] THEN current ELSE {}
      /\ UNCHANGED <<family, repoRows, repos, edits>>
  BY DEF WriteFile
<1>2. EditFits(family, repos, o) /\ f \in Files
  BY <1>1, UnderWay
<1>3. FileText(family, f, repos, o.text)
  BY <1>1, <1>2 DEF EditFits
<1>4. /\ u \in AnyText /\ FileFits(family, f, repos, u)
      /\ family = "apt" => \A row : RowSays(row, o.text) => RowSays(row, u)
  BY <1>1, <1>3, EditedFits
<1>5. o.text # Gone
  BY <1>3, RepoAssumption DEF FileText
<1> HIDE DEF o, f, u
<1>6. family = "apt" =>
        \A v \in current' : \A row \in repoRows[v] :
          row.file = f /\ StillSays(row, files[f]) => StillSays(row, u)
  <2>1. \A v \in current' : o.text = files[f]
    BY <1>1
  <2>2. QED
    BY <1>4, <1>5, <2>1 DEF StillSays
<1>7. current' \subseteq current
  BY <1>1
<1>8. QED
  BY <1>1, <1>2, <1>4, <1>6, <1>7, ChangeEnds

\* What a new repository adds to the files.
LEMMA AddedFits ==
  ASSUME RepoShape, NEW t, AddRepo(t)
  PROVE  /\ files' \in [Files -> AnyText]
         /\ \A g \in Files : FileFits(family, g, repos + 1, files'[g])
<1>1. /\ repos \in Nat /\ repos >= 4 /\ files \in [Files -> AnyText] /\ family \in Families
      /\ \A g \in Files : FileFits(family, g, repos, files[g])
  BY DEF RepoShape
<1>2. \A g \in Files : FileFits(family, g, repos + 1, files[g])
  BY <1>1, RepositoriesGrow
<1> DEFINE n == repos + 1
<1>3. n \in Nat /\ n > 2 /\ n \in 0..n /\ n \in 1..n
  BY <1>1
<1>4. ASSUME NEW f \in Files, NEW s \in Seq(RepoLine), FileText(family, f, n, s),
             files' = [files EXCEPT ![f] = s]
      PROVE  /\ files' \in [Files -> AnyText]
             /\ \A g \in Files : FileFits(family, g, n, files'[g])
  <2>1. FileFits(family, f, n, s) /\ s \in AnyText
    BY <1>4, RepoAssumption DEF FileFits, AnyText
  <2>2. QED
    BY <1>1, <1>2, <1>4, <2>1
<1>5. CASE family = "apt"
  <2> DEFINE s == <<Source(n, TRUE)>>
  <2>1. files' = [files EXCEPT !["extra"] = s]
    BY <1>5 DEF AddRepo
  <2>2. s \in Seq(RepoLine) /\ Len(s) = 1 /\ s[1] = Source(n, TRUE)
    BY <1>3 DEF Source, RepoLine
  <2> HIDE DEF s, n
  <2>3. FileLine("apt", "extra", n, Source(n, TRUE))
    BY <1>3 DEF FileLine, Source, HomeOf
  <2>4. FileText("apt", "extra", n, s)
    <3>1. \A i \in 1..Len(s) : i = 1 /\ s[i].is = "source"
      BY <2>2 DEF Source
    <3>2. AptText("extra", s)
      BY <3>1, Zenon DEF AptText
    <3>3. \A i \in 1..Len(s) : FileLine("apt", "extra", n, s[i])
      BY <2>2, <2>3, <3>1, Zenon
    <3>4. QED
      BY <2>2, <3>2, <3>3, Zenon DEF FileText
  <2>5. QED
    BY <1>4, <1>5, <2>1, <2>2, <2>4 DEF Files, n
<1>6. CASE family = "pacman"
  <2> DEFINE b == <<Header(n, TRUE), Setting(n, TRUE)>>
             s == files["main"] \o b
  <2>1. files' = [files EXCEPT !["main"] = s]
    BY <1>6 DEF AddRepo
  <2>2. files["main"] \in Seq(RepoLine) /\ FileText("pacman", "main", n, files["main"])
    BY <1>2, <1>6 DEF FileFits, Files, FileText
  <2>3. b \in Seq(RepoLine) /\ Len(b) = 2 /\ b[1] = Header(n, TRUE) /\ b[2] = Setting(n, TRUE)
    BY <1>3 DEF Header, Setting, RepoLine
  <2> HIDE DEF b, n
  <2>4. /\ s \in Seq(RepoLine) /\ Len(s) = Len(files["main"]) + 2
        /\ \A i \in 1..Len(s) : s[i] = IF i <= Len(files["main"]) THEN files["main"][i] ELSE b[i - Len(files["main"])]
    <3> DEFINE m == files["main"]
    <3>1. m \in Seq(RepoLine) /\ b \in Seq(RepoLine) /\ s = m \o b /\ Len(b) = 2
      BY <2>2, <2>3
    <3> HIDE DEF m, s
    <3>2. s \in Seq(RepoLine) /\ Len(s) = Len(m) + 2
      <4>1. m \o b \in Seq(RepoLine) /\ Len(m \o b) = Len(m) + Len(b)
        BY <3>1, ConcatProperties
      <4>2. QED
        BY <3>1, <4>1
    <3>3. \A i \in 1..Len(s) : s[i] = IF i <= Len(m) THEN m[i] ELSE b[i - Len(m)]
      BY <3>1, <3>2
    <3>4. QED
      BY <3>2, <3>3 DEF m
  <2> HIDE DEF s
  <2>5. FileLine("pacman", "main", n, Header(n, TRUE)) /\ FileLine("pacman", "main", n, Setting(n, TRUE))
    BY <1>3 DEF FileLine, Header, Setting, HomeOf
  <2>6. \A i \in 1..Len(s) : FileLine("pacman", "main", n, s[i])
    <3> TAKE i \in 1..Len(s)
    <3>1. CASE i <= Len(files["main"])
      <4>1. i \in 1..Len(files["main"])
        BY <2>2, <3>1
      <4>2. QED
        BY <2>2, <2>4, <3>1, <4>1 DEF FileText
    <3>2. CASE ~(i <= Len(files["main"]))
      <4>1. i - Len(files["main"]) \in {1, 2}
        BY <2>2, <2>4, <3>2
      <4>2. s[i] \in {b[1], b[2]}
        BY <2>4, <3>2, <4>1
      <4>3. QED
        BY <2>3, <2>5, <4>2
    <3>3. QED
      BY <3>1, <3>2
  <2>7. FileText("pacman", "main", n, s)
    BY <2>4, <2>6 DEF FileText
  <2>8. QED
    BY <1>4, <1>6, <2>1, <2>4, <2>7 DEF Files, n
<1>7. CASE family = "dnf"
  <2> DEFINE s == <<Header(n, TRUE), Setting(n, TRUE), Flag(n, TRUE)>>
  <2>1. files' = [files EXCEPT !["extra"] = s]
    BY <1>7 DEF AddRepo
  <2>2. s \in Seq(RepoLine) /\ Len(s) = 3 /\ s[1] = Header(n, TRUE) /\ s[2] = Setting(n, TRUE) /\ s[3] = Flag(n, TRUE)
    BY <1>3 DEF Header, Setting, Flag, RepoLine
  <2> HIDE DEF s, n
  <2>3. /\ FileLine("dnf", "extra", n, Header(n, TRUE)) /\ FileLine("dnf", "extra", n, Setting(n, TRUE))
        /\ FileLine("dnf", "extra", n, Flag(n, TRUE))
    BY <1>3 DEF FileLine, Header, Setting, Flag, HomeOf
  <2>4. FileText("dnf", "extra", n, s)
    <3>1. \A i \in 1..Len(s) : i = 1 \/ i = 2 \/ i = 3
      <4>1. Len(s) = 3
        BY <2>2
      <4>2. QED
        BY <4>1
    <3>2. \A i \in 1..Len(s) : FileLine("dnf", "extra", n, s[i])
      BY <2>2, <2>3, <3>1, Zenon
    <3>3. QED
      BY <2>2, <3>2 DEF FileText
  <2>5. QED
    BY <1>4, <1>7, <2>1, <2>2, <2>4 DEF Files, n
<1>8. QED
  BY <1>1, <1>5, <1>6, <1>7 DEF Families

LEMMA AddRepoInv ==
  ASSUME RepoInv, NEW t \in Viewers, AddRepo(t)
  PROVE  RepoInv'
<1>1. RepoShape /\ RepoClean
  BY DEF RepoInv
<1>2. /\ edits' = edits + 1 /\ edits < MaxEdits /\ repos' = repos + 1 /\ repos < MaxRepos
      /\ current' = {} /\ clean' = {} /\ UNCHANGED <<family, repoRows, edit>>
  BY DEF AddRepo
<1>3. /\ repos' \in Nat /\ repos' >= 4 /\ repos' <= MaxRepos /\ edits' \in Nat /\ edits' <= MaxEdits
      /\ repos \in Nat /\ repos <= repos'
  BY <1>1, <1>2, RepoAssumption DEF RepoShape
<1>4. /\ files' \in [Files -> AnyText]
      /\ \A g \in Files : FileFits(family', g, repos', files'[g])
  BY <1>1, <1>2, AddedFits
<1>5. /\ \A row : RowFits(family, repos, row) => RowFits(family, repos', row)
      /\ \A e : EditFits(family, repos, e) => EditFits(family, repos', e)
  BY <1>3, RepositoriesGrow
<1>6. RepoShape'
  BY <1>1, <1>2, <1>3, <1>4, <1>5 DEF RepoShape
<1>7. RepoClean'
  BY <1>2, Zenon DEF RepoClean
<1>8. QED
  BY <1>6, <1>7 DEF RepoInv

LEMMA RepoInvariant == RepoSpec => []RepoInv
<1>1. RepoInit => RepoInv
  BY RepoInitial
<1>2. RepoInv /\ [RepoNext]_repoVars => RepoInv'
  <2> SUFFICES ASSUME RepoInv, [RepoNext]_repoVars
               PROVE  RepoInv'
    OBVIOUS
  <2>1. CASE RepoNext
    BY <2>1, ListReposInv, AskChangeInv, CountInv, UnlinkInv, ManagerInv, ReadFileInv,
       WriteFileInv, AddRepoInv, Zenon DEF RepoNext
  <2>2. CASE UNCHANGED repoVars
    <3>1. RepoShape' /\ RepoClean'
      BY <2>2, Zenon DEF repoVars, RepoInv, RepoShape, RepoClean
    <3>2. QED
      BY <3>1 DEF RepoInv
  <2>3. QED
    BY <2>1, <2>2
<1>3. QED
  BY <1>1, <1>2, PTL DEF RepoSpec

\* RepoTypeOK holds in every state: rows of the pages have lines and repositories,
\* and what a request is about to write has been read.
THEOREM RepoTypeCorrect == RepoSpec => []RepoTypeOK
<1>1. RepoInv => RepoTypeOK
  <2> SUFFICES ASSUME RepoShape
               PROVE  RepoTypeOK
    BY DEF RepoInv
  <2>1. \A f \in Files : files[f] # Gone =>
          \A i \in DOMAIN files[f] :
            /\ files[f][i].is \in {"source", "header", "setting", "flag", "note"}
            /\ files[f][i].repo \in 0..repos
    <3> TAKE f \in Files
    <3> HAVE files[f] # Gone
    <3>1. FileText(family, f, repos, files[f])
      BY DEF RepoShape, FileFits
    <3>2. files[f] \in Seq(RepoLine)
      BY <3>1 DEF FileText
    <3>3. DOMAIN files[f] = 1..Len(files[f]) /\ \A i \in 1..Len(files[f]) : files[f][i] \in RepoLine
      BY <3>2
    <3>4. QED
      BY <3>1, <3>3 DEF FileText, FileLine, RepoLine
  <2>2. \A t \in Viewers : \A row \in repoRows[t] :
          row.file \in Files /\ row.line \in Nat \ {0} /\ row.repo \in 1..repos
    <3>1. \A t \in Viewers : \A row \in repoRows[t] : RowFits(family, repos, row)
      BY DEF RepoShape
    <3>2. QED
      BY <3>1 DEF RowFits, PageRow
  <2>3. \A t \in Viewers : edit[t].pc = "write" => edit[t].text # Gone
    <3> TAKE t \in Viewers
    <3> HAVE edit[t].pc = "write"
    <3>1. FileText(family, edit[t].row.file, repos, edit[t].text)
      BY DEF RepoShape, EditFits
    <3>2. QED
      BY <3>1, RepoAssumption DEF FileText
  <2>4. repos \in 4..MaxRepos /\ edits \in 0..MaxEdits /\ family \in Families
    BY RepoAssumption DEF RepoShape
  <2>5. QED
    BY <2>1, <2>2, <2>3, <2>4 DEF RepoTypeOK
<1>2. QED
  BY <1>1, RepoInvariant, PTL

\* The repositories that are used, file by file.
UsedIn(fam, s) == IF s = Gone THEN {} ELSE UsedOf(fam, s)

LEMMA UsedIs ==
  /\ Used = UsedIn(family, files["main"]) \union UsedIn(family, files["extra"])
  /\ Used' = UsedIn(family', files'["main"]) \union UsedIn(family', files'["extra"])
<1> DEFINE T(s) == IF s = Gone THEN <<>> ELSE s
           U(fam, s) == {T(s)[i].repo : i \in {j \in DOMAIN T(s) : UsesAt(fam, T(s), j)}}
<1>1. \A fam, s : U(fam, s) = UsedIn(fam, s)
  <2> TAKE fam, s
  <2>1. CASE s = Gone
    <3>1. T(s) = <<>> /\ DOMAIN T(s) = {}
      BY <2>1
    <3>2. QED
      BY <2>1, <3>1 DEF UsedIn
  <2>2. CASE s # Gone
    BY <2>2, Zenon DEF UsedIn, UsedOf
  <2>3. QED
    BY <2>1, <2>2
<1>2. Used = UNION {U(family, files[f]) : f \in Files}
  BY Zenon DEF Used, UsesAt
<1>3. Used' = UNION {U(family', files'[f]) : f \in Files}
  BY Zenon DEF Used, UsesAt
<1> HIDE DEF U
<1>4. QED
  BY <1>1, <1>2, <1>3 DEF Files

\* A repository is used from its own file only.
LEMMA UsedHome ==
  ASSUME NEW fam \in Families, NEW f, NEW n, NEW s, FileFits(fam, f, n, s), NEW q \in UsedIn(fam, s)
  PROVE  HomeOf(fam, q) = f
<1>1. s # Gone /\ FileText(fam, f, n, s) /\ q \in UsedOf(fam, s)
  BY DEF UsedIn, FileFits
<1>2. PICK i \in DOMAIN s : UsesAt(fam, s, i) /\ s[i].repo = q
  BY <1>1 DEF UsedOf
<1>3. s \in Seq(RepoLine) /\ i \in 1..Len(s) /\ FileLine(fam, f, n, s[i])
  BY <1>1, <1>2 DEF FileText
<1>4. s[i].is \in {"source", "header"}
  <2>1. CASE fam = "apt"
    BY <1>2, <1>3, <2>1 DEF UsesAt, FileLine
  <2>2. CASE fam = "pacman"
    BY <1>2, <2>2 DEF UsesAt, LiveHeader
  <2>3. CASE fam = "dnf"
    BY <1>2, <2>3 DEF UsesAt, LiveHeader
  <2>4. QED
    BY <2>1, <2>2, <2>3 DEF Families
<1>5. QED
  BY <1>2, <1>3, <1>4 DEF FileLine

\* The file of the row is the only one that changes, and no other has its repository.
LEMMA OneFileChanges ==
  ASSUME RepoShape, NEW r, NEW s, family' = family, NEW f \in Files, f = HomeOf(family, r),
         files' = [files EXCEPT ![f] = s]
  PROVE  /\ r \in Used' <=> r \in UsedIn(family, s)
         /\ r \in Used <=> r \in UsedIn(family, files[f])
         /\ UsedIn(family, s) \ {r} = UsedIn(family, files[f]) \ {r} => Used' \ {r} = Used \ {r}
<1>1. PICK g \in Files : Files = {f, g} /\ g # f
  BY DEF Files
<1>2. files'[f] = s /\ files'[g] = files[g]
  BY <1>1 DEF RepoShape
<1>3. r \notin UsedIn(family, files[g])
  BY <1>1, UsedHome DEF RepoShape
<1>4. Used = UsedIn(family, files[f]) \union UsedIn(family, files[g])
  BY <1>1, UsedIs DEF Files
<1>5. Used' = UsedIn(family, s) \union UsedIn(family, files[g])
  BY <1>1, <1>2, UsedIs DEF Files
<1>6. QED
  BY <1>3, <1>4, <1>5

\* A file with one live source has one repository in use at most.
LEMMA OneIsUsed ==
  ASSUME NEW fam \in {"apt", "dnf"}, NEW s \in Seq(RepoLine), s # Gone, Cardinality(LiveOnes(fam, s)) <= 1,
         NEW r \in UsedIn(fam, s), NEW q \in UsedIn(fam, s)
  PROVE  q = r
<1>1. r \in UsedOf(fam, s) /\ q \in UsedOf(fam, s)
  BY DEF UsedIn
<1>2. PICK i \in DOMAIN s : UsesAt(fam, s, i) /\ s[i].repo = r
  BY <1>1 DEF UsedOf
<1>3. PICK j \in DOMAIN s : UsesAt(fam, s, j) /\ s[j].repo = q
  BY <1>1 DEF UsedOf
<1>4. i \in LiveOnes(fam, s) /\ j \in LiveOnes(fam, s)
  <2>1. CASE fam = "apt"
    BY <1>2, <1>3, <2>1 DEF LiveOnes, UsesAt
  <2>2. CASE fam = "dnf"
    BY <1>2, <1>3, <2>2 DEF LiveOnes, UsesAt
  <2>3. QED
    BY <2>1, <2>2
<1>5. IsFiniteSet(LiveOnes(fam, s))
  <2>1. LiveOnes(fam, s) \subseteq 1..Len(s) /\ IsFiniteSet(1..Len(s))
    <3>1. DOMAIN s = 1..Len(s) /\ Len(s) \in Nat
      OBVIOUS
    <3>2. IsFiniteSet(1..Len(s))
      BY <3>1, FS_Interval
    <3>3. LiveOnes(fam, s) \subseteq DOMAIN s
      BY DEF LiveOnes
    <3>4. QED
      BY <3>1, <3>2, <3>3
  <2>2. QED
    BY <2>1, FS_Subset
<1>6. i = j
  <2> SUFFICES ASSUME i # j
               PROVE  FALSE
    OBVIOUS
  <2>1. {i, j} \subseteq LiveOnes(fam, s) /\ Cardinality({i, j}) = 2
    <3>1. IsFiniteSet({i}) /\ Cardinality({i}) = 1
      BY FS_Singleton
    <3>2. Cardinality({i} \union {j}) = 2
      <4>1. j \notin {i}
        OBVIOUS
      <4>2. Cardinality({i} \union {j}) = Cardinality({i}) + 1
        BY <3>1, <4>1, FS_AddElement
      <4>3. Cardinality({i}) + 1 = 2
        <5>1. Cardinality({i}) = 1
          BY <3>1
        <5>2. \A n : n = 1 => n + 1 = 2
          OBVIOUS
        <5>3. QED
          BY <5>1, <5>2, Zenon
      <4>4. QED
        BY <4>2, <4>3, Zenon
    <3>3. {i, j} = {i} \union {j}
      OBVIOUS
    <3>4. QED
      BY <1>4, <3>2, <3>3
  <2>2. Cardinality({i, j}) <= Cardinality(LiveOnes(fam, s))
    BY <1>5, <2>1, FS_Subset
  <2>3. Cardinality(LiveOnes(fam, s)) \in Nat
    BY <1>5, FS_CardinalityType
  <2>4. QED
    BY <2>1, <2>2, <2>3
<1>7. QED
  BY <1>2, <1>3, <1>6

\* What a request that lands does.
Landed(t) ==
  /\ edit[t].row.repo \in Used' <=> edit[t].op = "enable"
  /\ (edit[t].pc # "unlink" \/ edit[t].row.repo \in Used) => OthersKept(edit[t].row)

\* The file of a row is the one its repository is in.
LEMMA RowsHome ==
  ASSUME RepoInv, NEW t \in Viewers, edit[t].pc # "idle"
  PROVE  edit[t].row.file = HomeOf(family, edit[t].row.repo)
<1>1. EditFits(family, repos, edit[t])
  BY UnderWay
<1>2. QED
  BY <1>1 DEF EditFits, RowFits

\* A text is edited and written back.
LEMMA EditLands ==
  ASSUME RepoInv, NEW t \in Viewers, edit[t].pc # "idle", edit[t].pc # "unlink",
         family' = family, files' # files, t \in clean,
         LET f == edit[t].row.file
         IN  files[f] # Gone /\ Change(t, f, Edited(files[f], edit[t].op, edit[t].row))
  PROVE  Landed(t)
<1> DEFINE o == edit[t]
           f == o.row.file
           r == o.row.repo
           s == files[f]
           u == Edited(s, o.op, o.row)
<1>1. /\ o \in Request /\ EditFits(family, repos, o) /\ f \in Files
      /\ FileFits(family, f, repos, s) /\ Undisturbed(family, o, s)
      /\ family \in Families /\ repos \in Nat
  BY UnderWay
<1>2. FileText(family, f, repos, s)
  BY <1>1 DEF FileFits
<1>3. u # Gone /\ u \in Seq(RepoLine) /\ FileFits(family, f, repos, u)
  BY <1>2, EditedFits
<1>4. files' = [files EXCEPT ![f] = u] /\ u # s
  <2>1. files \in [Files -> AnyText]
    BY DEF RepoInv, RepoShape
  <2>2. files' = [files EXCEPT ![f] = u]
    BY DEF Change
  <2>3. QED
    BY <1>1, <2>1, <2>2
<1>5. Switched(family, s, u, r, o.op = "enable")
  <2>1. RowFits(family, repos, o.row) /\ (family = "pacman" => o.op \in {"disable", "remove"})
    BY <1>1 DEF EditFits, Request
  <2>2. family = "apt" => RowSays(o.row, s)
    BY <1>1 DEF Undisturbed, StillSays
  <2>3. /\ family = "apt" /\ RowSays(o.row, s) => Switched("apt", s, u, r, o.op = "enable")
        /\ family # "apt" => u = s \/ Switched(family, s, u, r, o.op = "enable")
    BY <1>1, <1>2, <2>1, EditedText
  <2> HIDE DEF o, f, r, s, u
  <2>4. CASE family = "apt"
    BY <2>2, <2>3, <2>4
  <2>5. CASE family # "apt"
    BY <1>4, <2>3, <2>5
  <2>6. QED
    BY <2>4, <2>5
<1>6. f = HomeOf(family, r)
  BY RowsHome
<1> HIDE DEF o, f, r, s, u
<1>7. /\ UsedIn(family, u) = UsedOf(family, u) /\ UsedIn(family, s) = UsedOf(family, s)
  BY <1>3 DEF UsedIn, s, f, o
<1>8. /\ r \in Used' <=> r \in UsedIn(family, u)
      /\ UsedIn(family, u) \ {r} = UsedIn(family, s) \ {r} => Used' \ {r} = Used \ {r}
  BY <1>1, <1>4, <1>6, OneFileChanges DEF RepoInv, s
<1>9. /\ r \in Used' <=> o.op = "enable"
      /\ Used' \ {r} = Used \ {r}
  BY <1>5, <1>7, <1>8, Zenon DEF Switched
<1>10. QED
  BY <1>9 DEF Landed, OthersKept, r, o

\* A file is removed.
LEMMA UnlinkLands ==
  ASSUME RepoInv, NEW t \in Viewers, Unlink(t), t \in clean
  PROVE  Landed(t)
<1> DEFINE o == edit[t]
           f == o.row.file
           r == o.row.repo
           s == files[f]
<1>1. /\ o.pc = "unlink" /\ files' = [files EXCEPT ![f] = Gone] /\ family' = family
  BY DEF Unlink, Change
<1>2. /\ o \in Request /\ EditFits(family, repos, o) /\ f \in Files
      /\ FileFits(family, f, repos, s) /\ Undisturbed(family, o, s) /\ family \in Families
  BY <1>1, UnderWay
<1>3. o.op = "remove" /\ family \in {"apt", "dnf"}
  BY <1>1, <1>2 DEF EditFits, Families
<1>4. s # Gone /\ Cardinality(LiveOnes(family, s)) <= 1 /\ s \in Seq(RepoLine)
  BY <1>1, <1>2 DEF Undisturbed, FileFits, FileText
<1>5. f = HomeOf(family, r)
  BY <1>1, RowsHome
<1> HIDE DEF o, f, r, s
<1>6. /\ r \in Used' <=> r \in UsedIn(family, Gone)
      /\ r \in Used <=> r \in UsedIn(family, s)
      /\ UsedIn(family, Gone) \ {r} = UsedIn(family, s) \ {r} => Used' \ {r} = Used \ {r}
  BY <1>1, <1>2, <1>5, OneFileChanges DEF RepoInv, s
<1>7. UsedIn(family, Gone) = {}
  BY DEF UsedIn
<1>8. r \in UsedIn(family, s) => UsedIn(family, s) \ {r} = {}
  BY <1>3, <1>4, OneIsUsed
<1>9. /\ r \in Used' <=> o.op = "enable"
      /\ r \in Used => Used' \ {r} = Used \ {r}
  BY <1>3, <1>6, <1>7, <1>8
<1>10. QED
  BY <1>1, <1>9 DEF Landed, OthersKept, r, o

\* A request that lands on files nobody else changed since the click switches the
\* repository of its row as it was asked to, and no other.
THEOREM OnlyTheRepoEverShown == RepoSpec => OnlyTheRepoShown
<1>1. ASSUME RepoInv, [RepoNext]_repoVars, NEW t \in Viewers, Lands(t)
      PROVE  Landed(t)
  <2>1. t \in clean /\ edit[t].pc # "idle" /\ edit'[t].pc = "idle" /\ files' # files
    BY <1>1 DEF Lands
  <2>2. RepoNext
    BY <1>1, <2>1 DEF repoVars
  <2>3. PICK v \in Viewers : \/ ListRepos(v) \/ AskChange(v) \/ Count(v) \/ Unlink(v)
                             \/ Manager(v) \/ ReadFile(v) \/ WriteFile(v) \/ AddRepo(v)
    BY <2>2 DEF RepoNext
  <2>4. Unlink(v) \/ Manager(v) \/ WriteFile(v)
    <3>1. ListRepos(v) \/ AskChange(v) \/ Count(v) \/ ReadFile(v) => files' = files
      BY Zenon DEF ListRepos, AskChange, Count, ReadFile
    <3>2. ~AddRepo(v)
      BY <2>1 DEF AddRepo
    <3>3. QED
      BY <2>1, <2>3, <3>1, <3>2
  <2>5. Ends(v)
    BY <2>1, <2>4 DEF Unlink, Manager, WriteFile
  <2>6. v = t
    <3>1. edit \in [Viewers -> Request]
      BY <1>1 DEF RepoInv, RepoShape
    <3>2. QED
      BY <2>1, <2>5, <3>1 DEF Ends
  <2>7. CASE Unlink(t)
    BY <1>1, <2>1, <2>7, UnlinkLands
  <2>8. CASE Manager(t)
    <3>1. /\ edit[t].pc = "manager" /\ files[edit[t].row.file] # Gone /\ family' = family
          /\ Change(t, edit[t].row.file, Edited(files[edit[t].row.file], edit[t].op, edit[t].row))
      BY <2>1, <2>8 DEF Manager
    <3>2. QED
      BY <1>1, <2>1, <3>1, EditLands
  <2>9. CASE WriteFile(t)
    <3>1. /\ edit[t].pc = "write" /\ family' = family
          /\ Change(t, edit[t].row.file, Edited(edit[t].text, edit[t].op, edit[t].row))
      BY <2>9 DEF WriteFile
    <3>2. EditFits(family, repos, edit[t]) /\ Undisturbed(family, edit[t], files[edit[t].row.file])
      BY <1>1, <2>1, UnderWay
    <3>3. edit[t].text = files[edit[t].row.file] /\ files[edit[t].row.file] # Gone
      BY <3>1, <3>2, RepoAssumption DEF Undisturbed, EditFits, FileText
    <3>4. QED
      BY <1>1, <2>1, <3>1, <3>3, EditLands
  <2>10. QED
    BY <2>4, <2>6, <2>7, <2>8, <2>9
<1>2. RepoInv /\ [RepoNext]_repoVars =>
        [\A t \in Viewers : Lands(t) =>
           LET e == edit[t] IN
           /\ e.row.repo \in Used' <=> e.op = "enable"
           /\ (e.pc # "unlink" \/ e.row.repo \in Used) => OthersKept(e.row)]_repoVars
  BY <1>1, Zenon DEF Landed
<1>3. QED
  BY <1>2, RepoInvariant, PTL DEF RepoSpec, OnlyTheRepoShown

-----------------------------------------------------------------------------
(* All pages: a step of one part leaves the variables of the others alone, *)
(* so every part behaves as if it was alone.                               *)

AdminPart == part \in {"cron", "firewall", "databases", "config", "tls", "repositories", "users", "files"}

LEMMA AdminInitial ==
  Init => /\ CronInit /\ FwInit /\ DbInit /\ ConfInit /\ TlsInit /\ RepoInit /\ UserInit /\ FilesInit
          /\ AdminPart
BY Zenon DEF Init, AdminPart

LEMMA AdminStep ==
  AdminPart /\ [Next]_adminVars =>
    /\ [CronNext]_cronVars /\ [FwNext]_fwVars /\ [DbNext]_dbVars /\ [ConfNext]_confVars
    /\ [TlsNext]_tlsVars /\ [RepoNext]_repoVars /\ [UserNext]_userVars /\ [FilesNext]_fileVars
    /\ AdminPart'
<1>1. ASSUME UNCHANGED adminVars
      PROVE  /\ UNCHANGED cronVars /\ UNCHANGED fwVars /\ UNCHANGED dbVars /\ UNCHANGED confVars
             /\ UNCHANGED tlsVars /\ UNCHANGED repoVars /\ UNCHANGED userVars /\ UNCHANGED fileVars
             /\ UNCHANGED part
  BY <1>1 DEF adminVars
<1>2. ASSUME Next
      PROVE  /\ CronNext \/ UNCHANGED cronVars
             /\ FwNext \/ UNCHANGED fwVars
             /\ DbNext \/ UNCHANGED dbVars
             /\ ConfNext \/ UNCHANGED confVars
             /\ TlsNext \/ UNCHANGED tlsVars
             /\ RepoNext \/ UNCHANGED repoVars
             /\ UserNext \/ UNCHANGED userVars
             /\ FilesNext \/ UNCHANGED fileVars
             /\ UNCHANGED part
  BY <1>2 DEF Next, Only
<1>3. QED
  BY <1>1, <1>2, Zenon DEF AdminPart

LEMMA AdminIsItsParts ==
  Spec => /\ CronSpec /\ FwSpec /\ DbSpec /\ ConfSpec /\ TlsSpec /\ RepoSpec /\ UserSpec /\ FilesSpec
          /\ []AdminPart
BY AdminInitial, AdminStep, PTL
   DEF Spec, CronSpec, FwSpec, DbSpec, ConfSpec, TlsSpec, RepoSpec, UserSpec, FilesSpec

\* Whichever page is used, by however many tabs, the variables behind it keep their types.
THEOREM AdminTypeCorrect == Spec => []AdminTypeOK
<1>1. TlsInv => TlsTypeOK
  BY DEF TlsInv
<1>2. ConfInv => ConfTypeOK
  BY DEF ConfInv
<1>3. FilesInv => FilesTypeOK
  BY DEF FilesInv, FileShape, FilesTypeOK, PageType, WriteType, FileTexts
<1>4. /\ AdminPart /\ CronTypeOK /\ FwTypeOK /\ DbTypeOK /\ ConfTypeOK /\ TlsTypeOK /\ RepoTypeOK
      /\ UserTypeOK /\ FilesTypeOK
      => AdminTypeOK
  BY DEF AdminTypeOK, AdminPart
<1>5. TlsSpec => []TlsInv
  BY TlsInitial, TlsStep, PTL DEF TlsSpec
<1>6. FilesSpec => []FilesInv
  BY FilesInitial, FilesStep, PTL DEF FilesSpec
<1>7. QED
  BY <1>1, <1>2, <1>3, <1>4, <1>5, <1>6, AlwaysConfInv, AdminIsItsParts, CronTypeCorrect, FwTypeCorrect,
     DbTypeCorrect, RepoTypeCorrect, UserTypeCorrect, PTL

\* The three pages that name a row by its position change the job, the rule and the
\* repository that was clicked, in the cases that the three properties name.
THEOREM OnlyWhatIsEverShown == Spec => OnlyWhatIsShown
BY AdminIsItsParts, OnlyTheJobEverShown, OnlyTheRuleEverShown, OnlyTheRepoEverShown DEF OnlyWhatIsShown
=============================================================================
