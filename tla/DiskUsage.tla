----------------------------- MODULE DiskUsage -----------------------------
(***************************************************************************)
(* The largest directories of a partition (internal/system/disks/usage.go, *)
(* DirUsage and DirDrillDown of internal/api/handlers/disks.go).           *)
(*                                                                         *)
(* A directory is sized by a walk in the order of names that stays on one  *)
(* device.  A tree of nodes 1..N hangs under the mount point 0; siblings   *)
(* are in the order of their numbers.  A node is a name, not an inode: the *)
(* walk does not ask which file it has seen before, so that a file with    *)
(* two names, or below a bind mount of its own device, is two nodes here   *)
(* as it is counted twice there.                                           *)
(***************************************************************************)
EXTENDS Naturals, FiniteSets, Functions

CONSTANTS
  N,    \* number of files and directories
  Most  \* rows that the page asks for

ASSUME UsageAssumption == N \in Nat /\ Most \in Nat \ {0}

VARIABLES
  tree,  \* the files: parent, whether a directory, bytes, and what a look at them gives
  dir,   \* the directory whose table is shown
  rows   \* directory -> bytes, for the rows of the table

usageVars == <<tree, dir, rows>>

Nodes == 1..N
\* "lost" is a file that is gone when it is looked at, or a directory that cannot be
\* read; "away" is on another device.
Looks == {"here", "away", "lost"}

Parents == {p \in [Nodes -> 0..N] : \A n \in Nodes : p[n] < n}
Trees == {t \in [parent : Parents, isdir : [Nodes -> BOOLEAN],
                 bytes : [Nodes -> {1, 2}], look : [Nodes -> Looks]] :
            \A n \in Nodes : t.parent[n] # 0 => t.isdir[t.parent[n]]}

\* The nodes on the way from d (not included) down to n, for n below d.
Way(d, n) ==
  LET up[k \in 0..N] == IF k = d \/ k = 0 THEN {} ELSE {k} \union up[tree.parent[k]]
  IN  up[n]
Below(d) == {n \in Nodes : n # d /\ (d = 0 \/ d \in Way(0, n))}

\* WalkDir counts a file when nothing on the way stops it: every node is looked at and
\* is on the device, and no file before it in its directory was not.  SkipDir for a
\* directory skips that one; for a file it skips the rest of the directory of the file.
Stops(n) == tree.look[n] # "here"
Cut(n) == \E m \in Nodes : /\ tree.parent[m] = tree.parent[n] /\ m < n
                           /\ ~tree.isdir[m] /\ Stops(m)

\* Slip: only directories are asked for their device.
CountedAway(d) == IF tree.look[d] # "here" THEN {}
                  ELSE {n \in Below(d) : /\ ~tree.isdir[n] /\ tree.look[n] # "lost"
                                         /\ \A m \in Way(d, n) \ {n} : ~Stops(m)}

Counted(d) == IF tree.look[d] # "here" THEN {}
              ELSE {n \in Below(d) : /\ ~tree.isdir[n]
                                     /\ \A m \in Way(d, n) : ~Stops(m) /\ ~Cut(m)}
DirSize(d) == SumFunctionOnSet(tree.bytes, Counted(d))

\* SubDirs: the subdirectories of d on the device of the mount point, largest first
\* and no more than asked for.
SubDirs(d) ==
  LET own == {n \in Nodes : tree.parent[n] = d /\ tree.isdir[n] /\ tree.look[n] # "away"}
      Before(m, n) == DirSize(m) > DirSize(n) \/ (DirSize(m) = DirSize(n) /\ m < n)
      top == {n \in own : Cardinality({m \in own : Before(m, n)}) < Most}
  IN  [n \in top |-> DirSize(n)]

UsageInit == tree \in Trees /\ dir = 0 /\ rows = [n \in {} |-> 0]

\* The page opens a partition, and shows the directories below its mount point.
DirUsage == dir' = 0 /\ rows' = SubDirs(0) /\ UNCHANGED tree

\* The page opens a row, and the handler takes every path that begins with the text of
\* the mount point: any directory below it, on another device or older than the table
\* too. (It takes a sibling of the mount point whose name begins with its name as well,
\* and shows what is on the device there.) What is no directory that can be read gives
\* an error and no table.
DrillDown(n) ==
  /\ tree.isdir[n] /\ tree.look[n] # "lost"
  /\ dir' = n /\ rows' = SubDirs(n) /\ UNCHANGED tree

UsageNext == DirUsage \/ (\E n \in Nodes : DrillDown(n))
UsageSpec == UsageInit /\ [][UsageNext]_usageVars

-----------------------------------------------------------------------------
OfTheDevice(d) ==
  {n \in Below(d) : ~tree.isdir[n] /\ \A m \in Way(d, n) : tree.look[m] = "here"}

\* The walk "will never cross into other mounts": the rows together are no more than
\* what the names below the directory that are on the device of the partition add up
\* to, each counted once.
OneFileSystem ==
  SumFunction(rows) <= SumFunctionOnSet(tree.bytes, OfTheDevice(dir))

\* usage.go says that a size is the total byte count of all regular files under the
\* directory that live on the same device.
SizeIsTheTotal ==
  \A n \in DOMAIN rows : tree.look[n] = "here" =>
    rows[n] = SumFunctionOnSet(tree.bytes, OfTheDevice(n))
=============================================================================
