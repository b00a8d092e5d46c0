------------------------------ MODULE LvExtend ------------------------------
(***************************************************************************)
(* LVM volumes (internal/system/disks/disks.go,                            *)
(* internal/api/handlers/disks.go): the page lists the volumes with what   *)
(* is on them and extends one by two commands, the first of which grows    *)
(* the volume and the second its file system.  The commands run under the  *)
(* context of the request, which ends when the client leaves.              *)
(*                                                                         *)
(* Sizes are gigabytes.  The file systems are "ext" (ext2 to ext4, resized *)
(* by the path of the volume), "grown" (xfs and btrfs, resized through     *)
(* their mount point), "other" (refused) and "none" (no name is found).    *)
(***************************************************************************)
EXTENDS Naturals, FiniteSets, Functions

CONSTANTS
  DiskPages,       \* pages that extend volumes
  Volumes,    \* logical volumes of one volume group, of 1 GB at the beginning
  GroupSize,  \* size of the group
  MaxExtensions,   \* bound of the model: extensions
  MaxOutside  \* bound of the model: what is done outside the server

ASSUME LvAssumption ==
  /\ IsFiniteSet(Volumes) /\ GroupSize \in Nat /\ GroupSize >= Cardinality(Volumes)
  /\ MaxExtensions \in Nat /\ MaxOutside \in Nat

VARIABLES
  size,     \* volume -> its size
  filled,   \* volume -> the part of it that its file system uses
  fs,       \* volume -> the file system on it
  mounts,   \* volume -> number of places where it is mounted
  volumes,    \* tab -> the rows of the list it shows
  run,      \* tab -> what its extension does next, of what, and who waits for it
  extensions, outside,  \* numbers of events so far
  failed    \* history: volumes not resized since an extension that had grown them
            \* was answered by an error or left by its client

lvVars == <<size, filled, fs, mounts, volumes, run, extensions, outside, failed>>

FileSystems == {"ext", "grown", "other", "none"}
Free == GroupSize - SumFunction(size)
NoRun == [pc |-> "idle"]

\* A row of Scan: what the mount table or blkid say is on the volume, and the room of
\* the group, without which the row has no button.
VolumeRow(v) == [fs |-> fs[v], room |-> Free]

LvInit ==
  /\ size = [v \in Volumes |-> 1] /\ filled = size
  /\ fs \in [Volumes -> {"ext", "grown"}]
  /\ mounts = [v \in Volumes |-> 1]
  /\ volumes = [t \in DiskPages |-> [v \in Volumes |-> VolumeRow(v)]]
  /\ run = [t \in DiskPages |-> NoRun]
  /\ extensions = 0 /\ outside = 0
  /\ failed = {}

-----------------------------------------------------------------------------
\* POST /api/disks/extend; 0 is what an empty field sends.
AskExtend(t, v, gb) ==
  /\ run[t].pc = "idle" /\ extensions < MaxExtensions
  /\ volumes[t][v].room > 0 /\ gb <= volumes[t][v].room
  /\ run' = [run EXCEPT ![t] =
       [pc |-> "check", lv |-> v, gb |-> gb, fs |-> volumes[t][v].fs, here |-> TRUE]]
  /\ extensions' = extensions + 1
  /\ UNCHANGED <<size, filled, fs, mounts, volumes, outside, failed>>

\* Slip: the volume grows by what was asked for, whatever the group has left.
LvextendFreely(t) ==
  LET r == run[t] IN
  /\ r.pc = "grow"
  /\ size' = [size EXCEPT ![r.lv] = @ + r.gb]
  /\ run' = [run EXCEPT ![t].pc = "resize"]
  /\ UNCHANGED <<filled, fs, mounts, volumes, extensions, outside, failed>>

\* The end of the answer: the page, or the one opened after it, loads the list.
Ended(t) == run' = [run EXCEPT ![t] = [pc |-> "reload"]]

\* What Extend verifies first; a file system the list did not name is asked of blkid.
Check(t) ==
  LET r == run[t]
      kind == IF r.fs = "none" THEN fs[r.lv] ELSE r.fs
  IN /\ r.pc = "check"
     /\ IF r.gb > 0 /\ kind \in {"ext", "grown"}
        THEN run' = [run EXCEPT ![t] = [r EXCEPT !.pc = "grow", !.fs = kind]]
        ELSE Ended(t)
     /\ UNCHANGED <<size, filled, fs, mounts, volumes, extensions, outside, failed>>

\* lvextend.  Whatever it has done when its client is gone, no other command starts.
Lvextend(t) ==
  LET r == run[t] IN
  /\ r.pc = "grow"
  /\ \/ /\ r.gb <= Free
        /\ size' = [size EXCEPT ![r.lv] = @ + r.gb]
        /\ IF r.here
           THEN run' = [run EXCEPT ![t].pc = "resize"] /\ UNCHANGED failed
           ELSE Ended(t) /\ failed' = failed \union {r.lv}
     \/ Ended(t) /\ UNCHANGED <<size, failed>>
  /\ UNCHANGED <<filled, fs, mounts, volumes, extensions, outside>>

\* The mount point is there and is one: findmnt prints a line for each.
Resizable(r) == fs[r.lv] = r.fs /\ (r.fs = "grown" => mounts[r.lv] = 1)

\* Slip: a resize that cannot be done is only printed, and the answer is a success.
ResizeHopes(t) ==
  LET r == run[t] IN
  /\ r.pc = "resize"
  /\ filled' = IF Resizable(r) THEN [filled EXCEPT ![r.lv] = size[r.lv]] ELSE filled
  /\ failed' = failed \ {r.lv}
  /\ Ended(t)
  /\ UNCHANGED <<size, fs, mounts, volumes, extensions, outside>>

\* resize2fs, or xfs_growfs and "btrfs filesystem resize max" of the mount point.
Resize(t) ==
  LET r == run[t] IN
  /\ r.pc = "resize"
  /\ \/ /\ Resizable(r)
        /\ filled' = [filled EXCEPT ![r.lv] = size[r.lv]]
        /\ failed' = failed \ {r.lv}
     \/ /\ failed' = failed \union {r.lv}
        /\ UNCHANGED filled
  /\ Ended(t)
  /\ UNCHANGED <<size, fs, mounts, volumes, extensions, outside>>

-----------------------------------------------------------------------------
\* The client closes the page; a page loads the list.
Leave(t) ==
  /\ run[t].pc \in {"check", "grow", "resize"} /\ run[t].here
  /\ run' = [run EXCEPT ![t].here = FALSE]
  /\ UNCHANGED <<size, filled, fs, mounts, volumes, extensions, outside, failed>>

LoadVolumes(t) ==
  /\ run[t].pc \in {"idle", "reload"}
  /\ volumes' = [volumes EXCEPT ![t] = [v \in Volumes |-> VolumeRow(v)]]
  /\ run' = [run EXCEPT ![t] = NoRun]
  /\ UNCHANGED <<size, filled, fs, mounts, extensions, outside, failed>>

\* A volume is mounted here or there, and an unmounted one is formatted.
Mount(v, n) ==
  /\ outside < MaxOutside /\ fs[v] # "none" /\ n # mounts[v]
  /\ mounts' = [mounts EXCEPT ![v] = n]
  /\ outside' = outside + 1
  /\ UNCHANGED <<size, filled, fs, volumes, run, extensions, failed>>

Format(v, k) ==
  /\ outside < MaxOutside /\ mounts[v] = 0 /\ fs[v] # k
  /\ fs' = [fs EXCEPT ![v] = k]
  /\ filled' = [filled EXCEPT ![v] = size[v]]
  /\ failed' = failed \ {v}
  /\ outside' = outside + 1
  /\ UNCHANGED <<size, mounts, volumes, run, extensions>>

LvNext ==
  \/ \E t \in DiskPages : \/ \E v \in Volumes, gb \in 0..GroupSize : AskExtend(t, v, gb)
                     \/ Check(t) \/ Lvextend(t) \/ Resize(t) \/ Leave(t) \/ LoadVolumes(t)
  \/ \E v \in Volumes : \/ \E n \in 0..2 : Mount(v, n)
                        \/ \E k \in FileSystems : Format(v, k)

LvSpec == LvInit /\ [][LvNext]_lvVars

-----------------------------------------------------------------------------
LvTypeOK ==
  /\ size \in [Volumes -> 1..GroupSize] /\ filled \in [Volumes -> 1..GroupSize]
  /\ Free \in 0..GroupSize
  /\ \A v \in Volumes : filled[v] <= size[v]
  /\ \A t \in DiskPages : run[t].pc \in {"idle", "check", "grow", "resize", "reload"}
  /\ failed \subseteq Volumes

\* A volume larger than its file system has somebody who knows: an extension of it is
\* about to resize, or one ended with an error or without its client, and none has
\* filled it since.  In particular the success line of an extension is true of what
\* every extension that ended before it left behind, whichever page asked for it.
UnfilledIsTold ==
  \A v \in Volumes : filled[v] < size[v] =>
    v \in failed \/ \E t \in DiskPages : run[t].pc = "resize" /\ run[t].lv = v
=============================================================================
