----------------------------- MODULE HostProofs -----------------------------
(***************************************************************************)
(* Proofs about what the pages operate on the host: the volumes, the       *)
(* containers, the services, the hardening score, the network interfaces,  *)
(* the models of the assistant and the sizes of directories.  Each part    *)
(* has a specification of its own; the end joins them as MCHost does.      *)
(***************************************************************************)
EXTENDS MCHost, DataLemmas, FiniteSetTheorems, TLAPS

-----------------------------------------------------------------------------
(* LVM volumes.  What a file system does not use of its volume is owed by  *)
(* an extension that is about to resize it, or is told of.                 *)

Extending == [pc : {"check", "grow", "resize"}, lv : Volumes, gb : Nat, fs : FileSystems,
              here : BOOLEAN]
Resting == [pc : {"idle", "reload"}]

LvShape ==
  /\ size \in [Volumes -> Nat] /\ filled \in [Volumes -> Nat]
  /\ \A v \in Volumes : filled[v] <= size[v]
  /\ fs \in [Volumes -> FileSystems]
  /\ DOMAIN volumes = DiskPages
  /\ \A t \in DiskPages : \A v \in Volumes : volumes[t][v].fs \in FileSystems
  /\ run \in [DiskPages -> Extending \union Resting]
  /\ failed \subseteq Volumes

LvInv == LvShape /\ UnfilledIsTold

LEMMA LvInitial == LvInit => LvInv
<1> SUFFICES ASSUME LvInit
             PROVE  LvInv
  OBVIOUS
<1>1. \A v \in Volumes : size[v] = 1 /\ filled[v] = 1
  BY DEF LvInit
<1>2. NoRun \in Resting
  BY DEF NoRun, Resting
<1>3. /\ fs \in [Volumes -> FileSystems] /\ DOMAIN volumes = DiskPages
      /\ \A t \in DiskPages : \A v \in Volumes : volumes[t][v].fs = fs[v]
  BY DEF LvInit, VolumeRow, FileSystems
<1>4. LvShape
  BY <1>1, <1>2, <1>3 DEF LvInit, LvShape
<1>5. UnfilledIsTold
  BY <1>1 DEF UnfilledIsTold
<1>6. QED
  BY <1>4, <1>5 DEF LvInv

\* An extension takes a step: what the volumes were owed by it is owed or told of again.
LEMMA PageStep ==
  ASSUME LvInv, NEW t \in DiskPages, NEW r \in Extending \union Resting,
         run' = [run EXCEPT ![t] = r],
         size' \in [Volumes -> Nat], filled' \in [Volumes -> Nat],
         \A v \in Volumes : filled'[v] <= size'[v],
         UNCHANGED <<fs, volumes>>, failed' \subseteq Volumes,
         \A v \in Volumes : filled'[v] < size'[v] =>
           \/ v \in failed'
           \/ r.pc = "resize" /\ r.lv = v
           \/ \E p \in DiskPages : p # t /\ run[p].pc = "resize" /\ run[p].lv = v
  PROVE  LvInv'
<1>1. /\ run' \in [DiskPages -> Extending \union Resting] /\ run'[t] = r
      /\ \A p \in DiskPages : p # t => run'[p] = run[p]
  BY DEF LvInv, LvShape
<1>2. LvShape'
  BY <1>1 DEF LvInv, LvShape
<1>3. UnfilledIsTold'
  BY <1>1 DEF UnfilledIsTold
<1>4. QED
  BY <1>2, <1>3 DEF LvInv

\* One that leaves the volumes alone and was not about to resize owes nothing.
LEMMA QuietPageStep ==
  ASSUME LvInv, NEW t \in DiskPages, NEW r \in Extending \union Resting,
         run' = [run EXCEPT ![t] = r],
         run[t].pc = "resize" => (r.pc = "resize" /\ r.lv = run[t].lv),
         UNCHANGED <<size, filled, fs, volumes, failed>>
  PROVE  LvInv'
<1>1. \A v \in Volumes : filled'[v] < size'[v] =>
         \/ v \in failed'
         \/ r.pc = "resize" /\ r.lv = v
         \/ \E p \in DiskPages : p # t /\ run[p].pc = "resize" /\ run[p].lv = v
  BY DEF LvInv, UnfilledIsTold
<1>2. /\ size' \in [Volumes -> Nat] /\ filled' \in [Volumes -> Nat]
      /\ \A v \in Volumes : filled'[v] <= size'[v]
      /\ failed' \subseteq Volumes
  BY DEF LvInv, LvShape
<1>3. QED
  BY <1>1, <1>2, PageStep

LEMMA EndedRun ==
  ASSUME NEW t, Ended(t)
  PROVE  \E r \in Resting : r.pc = "reload" /\ run' = [run EXCEPT ![t] = r]
<1>1. [pc |-> "reload"] \in Resting /\ [pc |-> "reload"].pc = "reload"
  BY DEF Resting
<1>2. QED
  BY <1>1 DEF Ended

\* The record of an extension with another phase.
LEMMA NextRun ==
  ASSUME LvShape, NEW t \in DiskPages, run[t].pc \in {"check", "grow", "resize"}
  PROVE  /\ run[t] \in Extending
         /\ \A pc \in {"check", "grow", "resize"}, here \in BOOLEAN :
              LET r == [run[t] EXCEPT !.pc = pc, !.here = here] IN
              r \in Extending /\ r.pc = pc /\ r.lv = run[t].lv
<1>1. run[t] \in Extending
  BY DEF LvShape, Resting
<1>2. QED
  BY <1>1 DEF Extending

LEMMA LvStep == LvInv /\ [LvNext]_lvVars => LvInv'
<1> SUFFICES ASSUME LvInv, [LvNext]_lvVars
             PROVE  LvInv'
  OBVIOUS
<1>1. ASSUME NEW t \in DiskPages, NEW v \in Volumes, NEW gb \in 0..GroupSize, AskExtend(t, v, gb)
      PROVE  LvInv'
  <2> DEFINE r == [pc |-> "check", lv |-> v, gb |-> gb, fs |-> volumes[t][v].fs, here |-> TRUE]
  <2>1. /\ run' = [run EXCEPT ![t] = r] /\ run[t].pc = "idle"
        /\ UNCHANGED <<size, filled, fs, volumes, failed>>
    BY <1>1 DEF AskExtend
  <2>2. volumes[t][v].fs \in FileSystems
    BY DEF LvInv, LvShape
  <2>3. r \in Extending
    BY <2>2 DEF Extending
  <2> HIDE DEF r
  <2>4. QED
    BY <2>1, <2>3, QuietPageStep
<1>2. ASSUME NEW t \in DiskPages, Check(t)
      PROVE  LvInv'
  <2>1. /\ run[t].pc = "check" /\ run[t] \in Extending
        /\ UNCHANGED <<size, filled, fs, volumes, failed>>
    BY <1>2, NextRun DEF Check, LvInv
  <2>2. CASE Ended(t)
    BY <2>1, <2>2, EndedRun, QuietPageStep
  <2>3. CASE \E kind \in {"ext", "grown"} :
               run' = [run EXCEPT ![t] = [run[t] EXCEPT !.pc = "grow", !.fs = kind]]
    <3>1. PICK kind \in {"ext", "grown"} :
             run' = [run EXCEPT ![t] = [run[t] EXCEPT !.pc = "grow", !.fs = kind]]
      BY <2>3
    <3> DEFINE r == [run[t] EXCEPT !.pc = "grow", !.fs = kind]
    <3>2. r \in Extending
      BY <2>1 DEF Extending, FileSystems
    <3> HIDE DEF r
    <3>3. QED
      BY <2>1, <3>1, <3>2, QuietPageStep DEF r
  <2>4. QED
    BY <1>2, <2>2, <2>3 DEF Check
<1>3. ASSUME NEW t \in DiskPages, Lvextend(t)
      PROVE  LvInv'
  <2> DEFINE v == run[t].lv
  <2>1. /\ run[t].pc = "grow" /\ run[t] \in Extending
        /\ UNCHANGED <<filled, fs, volumes>>
    BY <1>3, NextRun DEF Lvextend, LvInv
  <2>2. v \in Volumes /\ run[t].gb \in Nat
    BY <2>1 DEF Extending
  <2>3. CASE Ended(t) /\ UNCHANGED <<size, failed>>
    BY <2>1, <2>3, EndedRun, QuietPageStep
  <2>4. ASSUME size' = [size EXCEPT ![v] = @ + run[t].gb]
        PROVE  /\ size' \in [Volumes -> Nat] /\ filled' \in [Volumes -> Nat]
               /\ \A u \in Volumes : filled'[u] <= size'[u]
               /\ \A u \in Volumes : u # v => size'[u] = size[u]
    BY <2>1, <2>2, <2>4 DEF LvInv, LvShape
  <2>5. CASE /\ size' = [size EXCEPT ![v] = @ + run[t].gb] /\ UNCHANGED failed
             /\ run' = [run EXCEPT ![t].pc = "resize"]
    <3> DEFINE next == [run[t] EXCEPT !.pc = "resize"]
    <3>1. next \in Extending /\ next.pc = "resize" /\ next.lv = v
      BY <2>1 DEF Extending
    <3>2. PICK r \in Extending : r.pc = "resize" /\ r.lv = v /\ run' = [run EXCEPT ![t] = r]
      BY <2>5, <3>1
    <3> HIDE DEF v
    <3>3. \A u \in Volumes : filled'[u] < size'[u] =>
            \/ u \in failed'
            \/ r.pc = "resize" /\ r.lv = u
            \/ \E p \in DiskPages : p # t /\ run[p].pc = "resize" /\ run[p].lv = u
      BY <2>1, <2>4, <2>5, <3>2 DEF LvInv, UnfilledIsTold
    <3>4. failed' \subseteq Volumes
      BY <2>5 DEF LvInv, LvShape
    <3>5. /\ size' \in [Volumes -> Nat] /\ filled' \in [Volumes -> Nat]
          /\ \A u \in Volumes : filled'[u] <= size'[u]
      BY <2>4, <2>5
    <3>6. r \in Extending \union Resting /\ UNCHANGED <<fs, volumes>> /\ run' = [run EXCEPT ![t] = r]
      BY <2>1, <3>2
    <3>7. QED
      BY <3>3, <3>4, <3>5, <3>6, PageStep
  <2>6. CASE /\ size' = [size EXCEPT ![v] = @ + run[t].gb]
             /\ Ended(t) /\ failed' = failed \union {v}
    <3>1. PICK r \in Resting : r.pc = "reload" /\ run' = [run EXCEPT ![t] = r]
      BY <2>6, EndedRun
    <3> HIDE DEF v
    <3>2. \A u \in Volumes : filled'[u] < size'[u] =>
            \/ u \in failed'
            \/ r.pc = "resize" /\ r.lv = u
            \/ \E p \in DiskPages : p # t /\ run[p].pc = "resize" /\ run[p].lv = u
      BY <2>1, <2>4, <2>6, <3>1 DEF LvInv, UnfilledIsTold
    <3>3. failed' \subseteq Volumes
      BY <2>2, <2>6 DEF LvInv, LvShape
    <3>4. QED
      BY <2>1, <2>4, <2>6, <3>1, <3>2, <3>3, PageStep, ZenonT(60)
  <2>7. QED
    BY <1>3, <2>3, <2>5, <2>6 DEF Lvextend
<1>4. ASSUME NEW t \in DiskPages, Resize(t)
      PROVE  LvInv'
  <2> DEFINE v == run[t].lv
  <2>1. /\ run[t].pc = "resize" /\ run[t] \in Extending
        /\ UNCHANGED <<size, fs, volumes>>
    BY <1>4, NextRun DEF Resize, LvInv
  <2>2. v \in Volumes
    BY <2>1 DEF Extending
  <2>3. PICK r \in Resting : r.pc = "reload" /\ run' = [run EXCEPT ![t] = r]
    BY <1>4, EndedRun DEF Resize
  <2>4. \/ filled' = [filled EXCEPT ![v] = size[v]] /\ failed' = failed \ {v}
        \/ filled' = filled /\ failed' = failed \union {v}
    BY <1>4 DEF Resize
  <2> HIDE DEF v
  <2>5. /\ size' \in [Volumes -> Nat] /\ filled' \in [Volumes -> Nat]
        /\ \A u \in Volumes : filled'[u] <= size'[u]
        /\ failed' \subseteq Volumes
        /\ \A u \in Volumes : u # v => filled'[u] = filled[u] /\ (u \in failed' <=> u \in failed)
        /\ filled'[v] = size[v] \/ v \in failed'
    BY <2>1, <2>2, <2>4 DEF LvInv, LvShape
  <2>6. \A u \in Volumes : filled'[u] < size'[u] =>
          \/ u \in failed'
          \/ r.pc = "resize" /\ r.lv = u
          \/ \E p \in DiskPages : p # t /\ run[p].pc = "resize" /\ run[p].lv = u
    BY <2>1, <2>2, <2>5 DEF LvInv, LvShape, UnfilledIsTold, v
  <2>7. QED
    BY <2>1, <2>3, <2>5, <2>6, PageStep, ZenonT(60)
<1>5. ASSUME NEW t \in DiskPages, Leave(t)
      PROVE  LvInv'
  <2> DEFINE r == [run[t] EXCEPT !.here = FALSE]
  <2>1. /\ run[t] \in Extending /\ run' = [run EXCEPT ![t] = r]
        /\ UNCHANGED <<size, filled, fs, volumes, failed>>
    BY <1>5, NextRun DEF Leave, LvInv
  <2>2. r \in Extending /\ r.pc = run[t].pc /\ r.lv = run[t].lv
    BY <2>1 DEF Extending
  <2> HIDE DEF r
  <2>3. QED
    BY <2>1, <2>2, QuietPageStep
<1>6. ASSUME NEW t \in DiskPages, LoadVolumes(t)
      PROVE  LvInv'
  <2>1. /\ run[t].pc \in {"idle", "reload"} /\ run' = [run EXCEPT ![t] = NoRun]
        /\ volumes' = [volumes EXCEPT ![t] = [v \in Volumes |-> VolumeRow(v)]]
        /\ UNCHANGED <<size, filled, fs, failed>>
    BY <1>6 DEF LoadVolumes
  <2>2. \A p \in DiskPages : \A v \in Volumes : volumes'[p][v].fs \in FileSystems
    BY <2>1 DEF LvInv, LvShape, VolumeRow
  <2>3. /\ run' \in [DiskPages -> Extending \union Resting]
        /\ \A p \in DiskPages : run[p].pc = "resize" => run'[p] = run[p]
    BY <2>1 DEF LvInv, LvShape, NoRun, Resting
  <2>4. LvShape'
    BY <2>1, <2>2, <2>3 DEF LvInv, LvShape
  <2>5. UnfilledIsTold'
    BY <2>1, <2>3 DEF LvInv, UnfilledIsTold
  <2>6. QED
    BY <2>4, <2>5 DEF LvInv
<1>7. ASSUME NEW v \in Volumes, NEW n \in 0..2, Mount(v, n)
      PROVE  LvInv'
  BY <1>7 DEF Mount, LvInv, LvShape, UnfilledIsTold
<1>8. ASSUME NEW v \in Volumes, NEW k \in FileSystems, Format(v, k)
      PROVE  LvInv'
  <2>1. /\ fs' = [fs EXCEPT ![v] = k] /\ filled' = [filled EXCEPT ![v] = size[v]]
        /\ failed' = failed \ {v} /\ UNCHANGED <<size, volumes, run>>
    BY <1>8 DEF Format
  <2>2. LvShape'
    BY <2>1 DEF LvInv, LvShape
  <2>3. UnfilledIsTold'
    BY <2>1 DEF LvInv, LvShape, UnfilledIsTold
  <2>4. QED
    BY <2>2, <2>3 DEF LvInv
<1>9. CASE UNCHANGED lvVars
  BY <1>9 DEF lvVars, LvInv, LvShape, UnfilledIsTold
<1>10. QED
  BY <1>1, <1>2, <1>3, <1>4, <1>5, <1>6, <1>7, <1>8, <1>9 DEF LvNext

\* A volume larger than its file system has somebody who knows, for any number of pages
\* and volumes, whichever command fails and whoever leaves.
THEOREM UnfilledAlwaysTold == LvSpec => []UnfilledIsTold
<1>1. LvInv => UnfilledIsTold
  BY DEF LvInv
<1>2. QED
  BY <1>1, LvInitial, LvStep, PTL DEF LvSpec

\* The volumes are not larger than their group together, and none is empty.
LvGroup ==
  /\ LvInv
  /\ \A v \in Volumes : size[v] # 0 /\ filled[v] # 0
  /\ SumFunction(size) <= GroupSize

\* The sum of the sizes of the volumes.
LEMMA SizesSummed ==
  ASSUME LvShape
  PROVE  /\ SumFunction(size) = SumFunctionOnSet(size, Volumes) /\ SumFunction(size) \in Nat
         /\ \A v \in Volumes : size[v] <= SumFunction(size)
<1>1. size \in [Volumes -> Nat] /\ IsFiniteSet(Volumes)
  BY LvAssumption DEF LvShape
<1>2. SumFunction(size) = SumFunctionOnSet(size, Volumes)
  BY <1>1 DEF SumFunction
<1>3. (\A v \in Volumes : size[v] \in Nat /\ size[v] \in Int) /\ Volumes \in SUBSET Volumes
  BY <1>1
<1>4. \A A \in SUBSET Volumes : SumFunctionOnSet(size, A) \in Nat
  BY <1>1, <1>3, SumGrows
<1>5. ASSUME NEW v \in Volumes
      PROVE  size[v] <= SumFunctionOnSet(size, Volumes)
  <2>1. SumFunctionOnSet(size, Volumes) = size[v] + SumFunctionOnSet(size, Volumes \ {v})
    BY <1>1, <1>3, SumTakesOut
  <2>2. SumFunctionOnSet(size, Volumes \ {v}) \in Nat
    BY <1>4
  <2>3. QED
    BY <1>3, <2>1, <2>2
<1>6. QED
  BY <1>2, <1>3, <1>4, <1>5

LEMMA LvGroupInitial == LvInit => LvGroup
<1> SUFFICES ASSUME LvInit
             PROVE  LvGroup
  OBVIOUS
<1>1. LvInv
  BY LvInitial
<1>2. \A v \in Volumes : size[v] # 0 /\ filled[v] # 0
  BY DEF LvInit
<1>3. SumFunction(size) = SumFunctionOnSet(size, Volumes)
  BY <1>1, SizesSummed DEF LvInv
<1>4. size = [v \in Volumes |-> 1]
  BY DEF LvInit
<1>5. SumFunctionOnSet(size, Volumes) = Cardinality(Volumes)
  BY <1>4, LvAssumption, SumOfOnes
<1>6. Cardinality(Volumes) \in Nat /\ Cardinality(Volumes) <= GroupSize /\ GroupSize \in Nat
  BY LvAssumption, FS_CardinalityType
<1>7. QED
  BY <1>1, <1>2, <1>3, <1>5, <1>6 DEF LvGroup

\* The volumes and what their file systems use of them.
LEMMA SizesStep ==
  ASSUME LvGroup, [LvNext]_lvVars
  PROVE  /\ \/ size' = size
            \/ \E v \in Volumes, gb \in Nat : gb <= Free /\ size' = [size EXCEPT ![v] = @ + gb]
         /\ filled' = filled \/ \E v \in Volumes : filled' = [filled EXCEPT ![v] = size[v]]
<1>0. LvShape
  BY DEF LvGroup, LvInv
<1>1. ASSUME NEW t \in DiskPages, \/ \E v \in Volumes, gb \in 0..GroupSize : AskExtend(t, v, gb)
                                  \/ Check(t) \/ Leave(t) \/ LoadVolumes(t)
      PROVE  UNCHANGED <<size, filled>>
  BY <1>1 DEF AskExtend, Check, Leave, LoadVolumes
<1>2. ASSUME NEW v \in Volumes, \E n \in 0..2 : Mount(v, n)
      PROVE  UNCHANGED <<size, filled>>
  BY <1>2 DEF Mount
<1>3. ASSUME NEW v \in Volumes, NEW k \in FileSystems, Format(v, k)
      PROVE  size' = size /\ filled' = [filled EXCEPT ![v] = size[v]]
  BY <1>3 DEF Format
<1>4. ASSUME NEW t \in DiskPages, Lvextend(t)
      PROVE  /\ filled' = filled
             /\ \/ size' = size
                \/ \E v \in Volumes, gb \in Nat : gb <= Free /\ size' = [size EXCEPT ![v] = @ + gb]
  <2>1. run[t].pc = "grow"
    BY <1>4 DEF Lvextend
  <2>2. run[t] \in Extending
    BY <1>0, <2>1, NextRun
  <2>3. run[t].lv \in Volumes /\ run[t].gb \in Nat
    BY <2>2 DEF Extending
  <2>4. filled' = filled /\ (size' = size \/ (run[t].gb <= Free /\ size' = [size EXCEPT ![run[t].lv] = @ + run[t].gb]))
    BY <1>4 DEF Lvextend
  <2>5. QED
    BY <2>3, <2>4
<1>5. ASSUME NEW t \in DiskPages, Resize(t)
      PROVE  size' = size /\ (filled' = filled \/ \E v \in Volumes : filled' = [filled EXCEPT ![v] = size[v]])
  <2>1. run[t].pc = "resize"
    BY <1>5 DEF Resize
  <2>2. run[t] \in Extending
    BY <1>0, <2>1, NextRun
  <2>3. run[t].lv \in Volumes
    BY <2>2 DEF Extending
  <2>4. size' = size /\ (filled' = filled \/ filled' = [filled EXCEPT ![run[t].lv] = size[run[t].lv]])
    BY <1>5 DEF Resize
  <2>5. QED
    BY <2>3, <2>4
<1>6. QED
  BY <1>1, <1>2, <1>3, <1>4, <1>5 DEF LvNext, lvVars

LEMMA LvGroupStep == LvGroup /\ [LvNext]_lvVars => LvGroup'
<1> SUFFICES ASSUME LvGroup, [LvNext]_lvVars
             PROVE  LvGroup'
  OBVIOUS
<1>1. LvInv' /\ LvShape' /\ LvShape
  BY LvStep DEF LvGroup, LvInv
<1>2. SumFunction(size') <= GroupSize /\ \A v \in Volumes : size'[v] # 0
  <2>1. CASE size' = size
    BY <2>1 DEF LvGroup
  <2>2. ASSUME NEW v \in Volumes, NEW gb \in Nat, gb <= Free, size' = [size EXCEPT ![v] = @ + gb]
        PROVE  SumFunction(size') <= GroupSize /\ \A u \in Volumes : size'[u] # 0
    <3>1. size \in [Volumes -> Int] /\ size[v] \in Nat /\ size[v] + gb \in Int /\ IsFiniteSet(Volumes)
      BY <1>1, LvAssumption DEF LvShape
    <3>2. SumFunctionOnSet(size', Volumes) = SumFunctionOnSet(size, Volumes) - size[v] + (size[v] + gb)
      <4>1. size' \in [Volumes -> Int] /\ size'[v] = size[v] + gb /\ \A u \in Volumes : u # v => size'[u] = size[u]
        BY <1>1, <2>2, <3>1 DEF LvShape
      <4>2. SumFunctionOnSet(size', Volumes) = SumFunctionOnSet(size, Volumes) - size[v] + size'[v]
        BY <3>1, <4>1, SumChanged
      <4>3. QED
        BY <4>1, <4>2
    <3>3. SumFunction(size') = SumFunctionOnSet(size', Volumes)
      BY <1>1 DEF SumFunction, LvShape
    <3>4. SumFunction(size) = SumFunctionOnSet(size, Volumes) /\ SumFunction(size) \in Nat
      BY <1>1, SizesSummed
    <3>5. SumFunction(size) + gb <= GroupSize
      BY <2>2, <3>4, LvAssumption DEF Free
    <3>6. SumFunction(size') <= GroupSize
      BY <3>1, <3>2, <3>3, <3>4, <3>5
    <3>7. \A u \in Volumes : size'[u] # 0
      BY <1>1, <2>2, <3>1 DEF LvGroup, LvShape
    <3>8. QED
      BY <3>6, <3>7
  <2>3. QED
    BY <2>1, <2>2, SizesStep
<1>3. \A v \in Volumes : filled'[v] # 0
  BY <1>1, SizesStep DEF LvGroup, LvShape
<1>4. QED
  BY <1>1, <1>2, <1>3 DEF LvGroup

\* However many volumes and pages there are and whatever the size of the group: the
\* volumes never take more than it has, and no file system more than its volume.
THEOREM LvTypeCorrect == LvSpec => []LvTypeOK
<1>1. LvGroup => LvTypeOK
  <2> SUFFICES ASSUME LvGroup
               PROVE  LvTypeOK
    OBVIOUS
  <2>1. LvShape /\ GroupSize \in Nat
    BY LvAssumption DEF LvGroup, LvInv
  <2>2. SumFunction(size) \in Nat /\ \A v \in Volumes : size[v] <= SumFunction(size)
    BY <2>1, SizesSummed
  <2>3. SumFunction(size) <= GroupSize /\ Free \in 0..GroupSize
    BY <2>1, <2>2 DEF LvGroup, Free
  <2>4. \A v \in Volumes : size[v] \in 1..GroupSize /\ filled[v] \in 1..GroupSize
    BY <2>1, <2>2, <2>3 DEF LvGroup, LvShape
  <2>5. \A t \in DiskPages : run[t].pc \in {"idle", "check", "grow", "resize", "reload"}
    BY <2>1 DEF LvShape, Extending, Resting
  <2>6. size \in [Volumes -> 1..GroupSize] /\ filled \in [Volumes -> 1..GroupSize]
    BY <2>1, <2>4 DEF LvShape
  <2>7. QED
    BY <2>1, <2>3, <2>5, <2>6 DEF LvTypeOK, LvShape
<1>2. QED
  BY <1>1, LvGroupInitial, LvGroupStep, PTL DEF LvSpec

-----------------------------------------------------------------------------
(* Containers.  The prefix of a daemon that has not changed is one it      *)
(* serves; every container has the number of the one request that created  *)
(* it, and the requests that may still create one have numbers of their    *)
(* own.                                                                    *)

Calls == [pc : {"idle", "act", "create", "start"}, do : {"start", "stop", "restart", "remove"},
          rt : Runtimes, id : Nat, answer : {"none", "ok", "error"}]
Lists == [id : Nat, rt : Runtimes, name : Names, state : {"created", "running", "exited"}]

CtrShape ==
  /\ probe \in [pc : {"ping", "ask", "confirm", "ready"}, rt : Runtimes, says : 0..Native]
  /\ daemon \in [Runtimes -> Daemons \union {Down}]
  /\ version \in [Runtimes -> 0..Native]
  /\ containers \subseteq Lists
  /\ call \in [Browsers -> Calls] /\ late \subseteq Calls
  /\ replaced \subseteq Runtimes
  /\ started \subseteq 1..ctrAsked
  /\ ctrAsked \in Nat

\* Nobody has been answered before the answer.
AnswerAtTheEnd == \A t \in Browsers : call[t].pc # "idle" => call[t].answer = "none"

\* The numbers of requests and containers.
NumbersGiven ==
  /\ \A c \in containers : c.id \in 1..ctrAsked
  /\ \A t \in Browsers : call[t].pc # "idle" => call[t].id \in 1..ctrAsked
  /\ \A c \in late : c.pc # "idle" /\ c.id \in 1..ctrAsked

OneEach ==
  \A c, d \in containers : (c.rt = d.rt /\ c.name = d.name) \/ c.id = d.id => c = d

\* A request that may still create has a number that no container and no other has.
CreatesOnce ==
  /\ \A t \in Browsers : call[t].pc = "create" =>
       /\ \A c \in containers : c.id # call[t].id
       /\ \A u \in Browsers : call[u].pc = "create" /\ call[u].id = call[t].id => u = t
       /\ \A c \in late : c.pc = "create" => c.id # call[t].id
  /\ \A c \in late : c.pc = "create" =>
       /\ \A d \in containers : d.id # c.id
       /\ \A d \in late : d.pc = "create" /\ d.id = c.id => d = c

CtrInv ==
  /\ CtrShape /\ UnusableNeverAdopted /\ AnswerAtTheEnd /\ NumbersGiven /\ OneEach /\ CreatesOnce

LEMMA CtrInitial == CtrInit => CtrInv
<1> SUFFICES ASSUME CtrInit
             PROVE  CtrInv
  OBVIOUS
<1>1. Idle \in Calls /\ Idle.pc = "idle"
  BY DEF Idle, Calls, Runtimes
<1>2. \A t \in Browsers : call[t] = Idle
  BY DEF CtrInit
<1>3. daemon \in [Runtimes -> Daemons \union {Down}]
  <2>1. [up |-> TRUE, oldest |-> 1, newest |-> Newest, says |-> Newest] \in Daemons
    BY ContainerAssumption DEF Daemons, Native
  <2>2. QED
    BY <2>1 DEF CtrInit
<1>4. version \in [Runtimes -> 0..Native]
  BY ContainerAssumption DEF CtrInit, Native
<1>5. CtrShape
  <2>1. probe \in [pc : {"ping", "ask", "confirm", "ready"}, rt : Runtimes, says : 0..Native]
    BY ContainerAssumption DEF CtrInit, Ready, Runtimes, Native
  <2>2. QED
    BY <1>1, <1>2, <1>3, <1>4, <2>1 DEF CtrInit, CtrShape
<1>6. QED
  BY <1>1, <1>2, <1>5 DEF CtrInit, CtrInv, UnusableNeverAdopted, AnswerAtTheEnd, NumbersGiven,
     OneEach, CreatesOnce

LEMMA Answered ==
  ASSUME CtrShape, NEW t \in Browsers, NEW a \in {"ok", "error"}, Answer(t, a)
  PROVE  /\ call' \in [Browsers -> Calls] /\ call'[t].pc = "idle" /\ call'[t].answer = a
         /\ \A u \in Browsers : u # t => call'[u] = call[u]
<1> DEFINE c == [call[t] EXCEPT !.pc = "idle", !.answer = a]
<1>1. call[t] \in Calls
  BY DEF CtrShape
<1>2. c \in Calls /\ c.pc = "idle" /\ c.answer = a
  BY <1>1 DEF Calls
<1>3. call' = [call EXCEPT ![t] = c]
  BY DEF Answer
<1> HIDE DEF c
<1>4. QED
  BY <1>2, <1>3 DEF CtrShape

\* A request carried out leaves each container it does not remove what it was.
LEMMA Performed ==
  ASSUME CtrShape, OneEach, NumbersGiven, NEW do \in {"start", "stop", "restart", "remove"},
         NEW rt, NEW id, Perform(do, rt, id), ctrAsked' = ctrAsked
  PROVE  /\ containers' \subseteq Lists /\ OneEach'
         /\ \A c \in containers' : \E d \in containers : d.id = c.id
         /\ started' \subseteq 1..ctrAsked'
         /\ do = "start" => id \in started'
<1> DEFINE others == {c \in containers : c.id # id}
           it == CHOOSE c \in containers : c.id = id
<1>1. it \in containers /\ it.id = id /\ it \in Lists
  BY DEF Perform, Has, CtrShape
<1> HIDE DEF it
<1> DEFINE up == [it EXCEPT !.state = "running"]
           down == [it EXCEPT !.state = "exited"]
<1>2. \/ containers' = others \union {up}
      \/ containers' = others \union {down}
      \/ containers' = others
  <2>1. CASE do \in {"start", "restart"}
    BY <2>1 DEF Perform, After, it
  <2>2. CASE do = "stop"
    BY <2>2 DEF Perform, After, it
  <2>3. CASE do = "remove"
    BY <2>3 DEF Perform, After
  <2>4. QED
    BY <2>1, <2>2, <2>3
<1>3. /\ up \in Lists /\ up.id = id /\ up.rt = it.rt /\ up.name = it.name
      /\ down \in Lists /\ down.id = id /\ down.rt = it.rt /\ down.name = it.name
  BY <1>1 DEF Lists
<1> HIDE DEF others, up, down
<1>4. PICK more \in {{up}, {down}, {}} : containers' = others \union more
  BY <1>2
<1>5. /\ \A c \in more : c \in Lists /\ c.id = id /\ c.rt = it.rt /\ c.name = it.name
      /\ \A c, d \in more : c = d
  BY <1>4, <1>3
<1> USE DEF others
<1>6. OneEach'
  <2> SUFFICES ASSUME NEW c \in containers', NEW d \in containers',
                      (c.rt = d.rt /\ c.name = d.name) \/ c.id = d.id
               PROVE  c = d
    BY DEF OneEach
  <2>1. CASE c \in others /\ d \in others
    BY <2>1 DEF OneEach
  <2>2. CASE c \in more /\ d \in more
    BY <1>5, <2>2
  <2>3. CASE c \in others /\ d \in more
    BY <1>1, <1>5, <2>3 DEF OneEach
  <2>4. CASE c \in more /\ d \in others
    BY <1>1, <1>5, <2>4 DEF OneEach
  <2>5. QED
    BY <1>4, <2>1, <2>2, <2>3, <2>4
<1>7. containers' \subseteq Lists /\ \A c \in containers' : \E d \in containers : d.id = c.id
  BY <1>1, <1>4, <1>5 DEF CtrShape
<1>8. started' \subseteq 1..ctrAsked'
  <2>1. id \in 1..ctrAsked
    BY <1>1 DEF NumbersGiven
  <2>2. QED
    BY <2>1 DEF Perform, CtrShape
<1>9. QED
  BY <1>6, <1>7, <1>8 DEF Perform

\* A container created for a request that may create.
LEMMA CreatedOne ==
  ASSUME CtrShape, OneEach, NEW c \in Calls, NEW n \in Names, Create(c, n),
         \A d \in containers : d.id # c.id
  PROVE  /\ containers' \subseteq Lists /\ OneEach'
         /\ \A d \in containers' : d.id = c.id \/ d \in containers
<1> DEFINE new == New(c.rt, c.id, n)
<1>1. new \in Lists /\ new.id = c.id /\ new.rt = c.rt /\ new.name = n
  BY DEF New, Lists, Calls
<1>2. containers' = containers \union {new} /\ \A d \in containers : d.rt = c.rt => d.name # n
  BY DEF Create
<1> HIDE DEF new
<1>3. QED
  BY <1>1, <1>2 DEF CtrShape, OneEach

\* What depends on the daemons alone.
LEMMA DaemonsKept ==
  ASSUME CtrInv, UNCHANGED <<daemon, version, replaced>>
  PROVE  UnusableNeverAdopted'
BY DEF CtrInv, UnusableNeverAdopted, Serves

LEMMA DetectStep ==
  ASSUME CtrInv, Detect
  PROVE  CtrInv'
<1> USE DEF CtrInv
<1> DEFINE pending == {call[t] : t \in {u \in Browsers : call[u].pc \in {"create", "act", "start"}}}
<1>1. /\ call' = [t \in Browsers |-> Idle] /\ late' = late \union pending
      /\ probe' = [pc |-> "ping", rt |-> "docker", says |-> 0]
      /\ version' = [rt \in Runtimes |-> 0]
      /\ UNCHANGED <<daemon, containers, replaced, started, ctrAsked, ctrEvents>>
  BY DEF Detect
<1>2. Idle \in Calls /\ Idle.pc = "idle"
  BY DEF Idle, Calls, Runtimes
<1>3. 0 \in 0..Native
  BY ContainerAssumption DEF Native
<1>4. pending \subseteq Calls
  BY DEF CtrShape
<1>5. CtrShape'
  <2>1. version' \in [Runtimes -> 0..Native]
    BY <1>1, <1>3
  <2>2. probe' \in [pc : {"ping", "ask", "confirm", "ready"}, rt : Runtimes, says : 0..Native]
    BY <1>1, <1>3 DEF Runtimes
  <2>3. QED
    BY <1>1, <1>2, <1>4, <2>1, <2>2 DEF CtrShape
<1>6. UnusableNeverAdopted'
  BY <1>1 DEF UnusableNeverAdopted
<1>7. AnswerAtTheEnd'
  BY <1>1, <1>2 DEF AnswerAtTheEnd
<1>8. NumbersGiven'
  <2>1. \A c \in pending : c.pc # "idle" /\ c.id \in 1..ctrAsked
    BY DEF NumbersGiven
  <2> HIDE DEF pending
  <2>2. QED
    BY <1>1, <1>2, <2>1 DEF NumbersGiven
<1>9. OneEach'
  BY <1>1 DEF OneEach
<1>10. CreatesOnce'
  <2>1. \A c \in pending : c.pc = "create" =>
          /\ \A e \in containers : e.id # c.id
          /\ \A e \in pending : e.pc = "create" /\ e.id = c.id => e = c
          /\ \A e \in late : e.pc = "create" => e.id # c.id
    BY DEF CreatesOnce
  <2> HIDE DEF pending
  <2>2. QED
    BY <1>1, <1>2, <2>1 DEF CreatesOnce
<1>11. QED
  BY <1>5, <1>6, <1>7, <1>8, <1>9, <1>10

\* Nothing that a negotiation does concerns requests and containers.
LEMMA ProbeStep ==
  ASSUME CtrInv, CtrShape', UnusableNeverAdopted',
         UNCHANGED <<containers, call, late, started, ctrAsked, ctrEvents>>
  PROVE  CtrInv'
BY DEF CtrInv, AnswerAtTheEnd, NumbersGiven, OneEach, CreatesOnce

\* A runtime may be settled with a version that its daemon serves now, with the fallback
\* or with none.
LEMMA SettleStep ==
  ASSUME CtrInv, NEW v \in 0..Native, Settle(v),
         v \in {0, Fallback[probe.rt]} \/ Serves(probe.rt, v)
  PROVE  CtrInv'
<1> USE DEF CtrInv
<1>1. /\ version' = [version EXCEPT ![probe.rt] = v] /\ replaced' = replaced \ {probe.rt}
      /\ UNCHANGED <<daemon, containers, call, late, started, ctrAsked, ctrEvents>>
  BY DEF Settle
<1>2. probe' \in [pc : {"ping", "ask", "confirm", "ready"}, rt : Runtimes, says : 0..Native]
  BY ContainerAssumption DEF Settle, Ready, Runtimes, Native
<1>3. probe.rt \in Runtimes /\ version'[probe.rt] = v
      /\ \A rt \in Runtimes : rt # probe.rt => version'[rt] = version[rt]
  BY <1>1 DEF CtrShape
<1>4. CtrShape'
  BY <1>1, <1>2 DEF CtrShape
<1>5. UnusableNeverAdopted'
  <2> SUFFICES ASSUME NEW rt \in Runtimes \ replaced'
               PROVE  version'[rt] \in {0, Fallback[rt]} \/ Serves(rt, version'[rt])
    BY <1>1 DEF UnusableNeverAdopted, Serves
  <2>1. CASE rt = probe.rt
    BY <1>3, <2>1
  <2>2. CASE rt # probe.rt
    BY <1>1, <1>3, <2>2 DEF UnusableNeverAdopted
  <2>3. QED
    BY <2>1, <2>2
<1>6. QED
  BY <1>1, <1>4, <1>5, ProbeStep

LEMMA NegotiationStep ==
  ASSUME CtrInv, NewRuntime \/ AskVersion \/ ConfirmVersion
  PROVE  CtrInv'
<1>1. /\ probe.rt \in Runtimes /\ probe.says \in 0..Native /\ 0 \in 0..Native
      /\ Fallback[probe.rt] \in 0..Native
  BY ContainerAssumption DEF CtrInv, CtrShape, Fallback, Native, Runtimes
<1>2. daemon[probe.rt].says \in 0..Native
  <2>1. daemon[probe.rt] \in Daemons \union {Down}
    BY <1>1 DEF CtrInv, CtrShape
  <2>2. Down.says \in 0..Native
    BY ContainerAssumption DEF Down, Native
  <2>3. \A e \in Daemons : e.says \in 0..Native
    BY DEF Daemons
  <2>4. QED
    BY <2>1, <2>2, <2>3
<1>3. ASSUME NEW pc \in {"ask", "confirm"}, NEW says \in 0..Native, Asks(pc, says)
      PROVE  CtrInv'
  <2>1. /\ probe' = [probe EXCEPT !.pc = pc, !.says = says]
        /\ UNCHANGED <<version, replaced, daemon, containers, call, late, started, ctrAsked, ctrEvents>>
    BY <1>3 DEF Asks
  <2>2. CtrShape'
    BY <2>1 DEF CtrInv, CtrShape
  <2>3. QED
    BY <2>1, <2>2, ProbeStep, DaemonsKept
<1>4. NewRuntime => CtrInv'
  BY <1>1, <1>3, SettleStep DEF NewRuntime
<1>5. AskVersion => CtrInv'
  BY <1>1, <1>2, <1>3, SettleStep DEF AskVersion
<1>6. ConfirmVersion => CtrInv'
  BY <1>1, SettleStep DEF ConfirmVersion
<1>7. QED
  BY <1>4, <1>5, <1>6

LEMMA DaemonStep ==
  ASSUME CtrInv, NEW rt \in Runtimes, DaemonChanges(rt)
  PROVE  CtrInv'
<1> USE DEF CtrInv
<1>1. PICK d \in Plausible(rt) \union {Down} : daemon' = [daemon EXCEPT ![rt] = d]
  BY DEF DaemonChanges
<1>2. /\ replaced' = replaced \union {rt}
      /\ UNCHANGED <<probe, version, containers, call, late, started, ctrAsked>>
  BY DEF DaemonChanges
<1>3. d \in Daemons \union {Down}
  BY DEF Plausible
<1>4. CtrShape'
  BY <1>1, <1>2, <1>3 DEF CtrShape
<1>5. UnusableNeverAdopted'
  BY <1>1, <1>2 DEF CtrShape, UnusableNeverAdopted, Serves
<1>6. QED
  BY <1>2, <1>4, <1>5 DEF AnswerAtTheEnd, NumbersGiven, OneEach, CreatesOnce

\* A request begins, one that creates with a number nobody has.
LEMMA BeginStep ==
  ASSUME CtrInv, NEW t \in Browsers, Action(t) \/ RunRequest(t)
  PROVE  CtrInv'
<1> USE DEF CtrInv
<1>1. PICK c \in Calls :
        /\ call' = [call EXCEPT ![t] = c]
        /\ c.answer = "none" /\ c.id \in 1..(ctrAsked + 1)
        /\ c.pc = "act" \/ (c.pc = "create" /\ c.id = ctrAsked + 1)
  <2>1. \A rt \in Runtimes : RuntimeFor(rt) \in Runtimes
    BY DEF RuntimeFor, Runtimes
  <2>2. ctrAsked \in Nat
    BY DEF CtrShape
  <2>3. CASE Action(t)
    <3>1. PICK do \in {"start", "stop", "restart", "remove"}, rt \in Runtimes, id \in 1..ctrAsked :
            Begin(t, "act", do, RuntimeFor(rt), id)
      BY <2>3 DEF Action
    <3> DEFINE runtime == RuntimeFor(rt)
               c == [pc |-> "act", do |-> do, rt |-> runtime, id |-> id, answer |-> "none"]
    <3>2. call' = [call EXCEPT ![t] = c]
      BY <3>1 DEF Begin
    <3>3. runtime \in Runtimes /\ id \in Nat /\ id \in 1..(ctrAsked + 1)
      BY <2>1, <2>2
    <3> HIDE DEF runtime
    <3>4. c \in Calls /\ c.answer = "none" /\ c.id = id /\ c.pc = "act"
      BY <3>3 DEF Calls
    <3> HIDE DEF c
    <3>5. QED
      BY <3>2, <3>3, <3>4
  <2>4. CASE RunRequest(t)
    <3>1. PICK rt \in Runtimes : Begin(t, "create", "start", RuntimeFor(rt), ctrAsked + 1)
      BY <2>4 DEF RunRequest
    <3> DEFINE runtime == RuntimeFor(rt)
               id == ctrAsked + 1
               c == [pc |-> "create", do |-> "start", rt |-> runtime, id |-> id, answer |-> "none"]
    <3>2. call' = [call EXCEPT ![t] = c]
      BY <3>1 DEF Begin
    <3>3. runtime \in Runtimes /\ id \in Nat /\ id \in 1..(ctrAsked + 1)
      BY <2>1, <2>2
    <3> HIDE DEF runtime, id
    <3>4. c \in Calls /\ c.answer = "none" /\ c.id = id /\ c.pc = "create"
      BY <3>3 DEF Calls
    <3> HIDE DEF c
    <3>5. QED
      BY <3>2, <3>3, <3>4 DEF id
  <2>5. QED
    BY <2>3, <2>4
<1>2. /\ ctrAsked' = ctrAsked + 1 /\ call[t].pc = "idle"
      /\ UNCHANGED <<probe, daemon, version, containers, late, replaced, started, ctrEvents>>
  BY DEF Action, RunRequest, Begin
<1>3. ctrAsked \in Nat /\ ctrAsked' \in Nat /\ \A k \in 1..ctrAsked : k \in 1..ctrAsked' /\ k # ctrAsked + 1
  BY <1>2 DEF CtrShape
<1>4. /\ call' \in [Browsers -> Calls] /\ call'[t] = c
      /\ \A u \in Browsers : u # t => call'[u] = call[u]
  BY <1>1 DEF CtrShape
<1>5. CtrShape'
  BY <1>2, <1>3, <1>4 DEF CtrShape
<1>6. UnusableNeverAdopted'
  BY <1>2, DaemonsKept
<1>7. AnswerAtTheEnd'
  BY <1>1, <1>4 DEF AnswerAtTheEnd
<1>8. NumbersGiven'
  BY <1>1, <1>2, <1>3, <1>4 DEF NumbersGiven
<1>9. OneEach'
  BY <1>2 DEF OneEach
<1>10. CreatesOnce'
  BY <1>1, <1>2, <1>3, <1>4 DEF NumbersGiven, CreatesOnce
<1>11. QED
  BY <1>5, <1>6, <1>7, <1>8, <1>9, <1>10

\* A request ends, and may still be carried out, or has been.
LEMMA EndRequestStep ==
  ASSUME CtrInv, NEW t \in Browsers, Acted(t) \/ Started(t) \/ GiveUp(t)
  PROVE  CtrInv'
<1> USE DEF CtrInv
<1>1. /\ call' \in [Browsers -> Calls] /\ call'[t].pc = "idle"
      /\ \A u \in Browsers : u # t => call'[u] = call[u]
  BY Answered DEF Acted, Started, GiveUp
<1>2. /\ UNCHANGED <<probe, daemon, version, replaced, ctrAsked, ctrEvents>>
      /\ call[t].pc # "idle" /\ call[t] \in Calls
  BY DEF Acted, Started, GiveUp, CtrShape
<1>3. /\ containers' \subseteq Lists /\ OneEach'
      /\ \A c \in containers' : \E d \in containers : d.id = c.id
      /\ started' \subseteq 1..ctrAsked'
  <2>1. CASE UNCHANGED <<containers, started>>
    BY <1>2, <2>1 DEF CtrShape, OneEach
  <2>2. CASE \E do \in {"start", "stop", "restart", "remove"} : Perform(do, call[t].rt, call[t].id)
    BY <1>2, <2>2, Performed
  <2>3. call[t].do \in {"start", "stop", "restart", "remove"}
    BY <1>2 DEF Calls
  <2>4. QED
    BY <2>1, <2>2, <2>3 DEF Acted, Started, GiveUp
<1>4. late' = late \/ late' = late \union {call[t]}
  BY DEF Acted, Started, GiveUp
<1>5. late' = late \union {call[t]} => containers' = containers \/ call[t] \in late
  BY DEF Acted, Started, GiveUp
<1>6. CtrShape'
  BY <1>1, <1>2, <1>3, <1>4 DEF CtrShape
<1>7. UnusableNeverAdopted'
  BY <1>2, DaemonsKept
<1>8. AnswerAtTheEnd'
  BY <1>1 DEF AnswerAtTheEnd
<1>9. NumbersGiven'
  BY <1>1, <1>2, <1>3, <1>4 DEF NumbersGiven
<1>10. CreatesOnce'
  <2>1. \A c \in late' : c \in late \/ c = call[t]
    BY <1>4
  <2>2. \A n \in Nat : (\A d \in containers : d.id # n) => \A d \in containers' : d.id # n
    BY <1>3
  <2>3. \A c \in Calls : c.id \in Nat
    BY DEF Calls
  <2>4. \A c \in late : c \in Calls
    BY DEF CtrShape
  <2>5. \A u \in Browsers : call'[u].pc = "create" => /\ u # t /\ call'[u] = call[u]
                                                     /\ call[u].id \in Nat
    BY <1>1, <2>3 DEF CtrShape
  <2>6. ASSUME NEW u \in Browsers, call'[u].pc = "create"
        PROVE  /\ \A c \in containers' : c.id # call'[u].id
               /\ \A p \in Browsers : call'[p].pc = "create" /\ call'[p].id = call'[u].id => p = u
               /\ \A c \in late' : c.pc = "create" => c.id # call'[u].id
    BY <2>1, <2>2, <2>5, <2>6 DEF CreatesOnce
  <2>7. ASSUME NEW c \in late', c.pc = "create"
        PROVE  /\ \A d \in containers' : d.id # c.id
               /\ \A d \in late' : d.pc = "create" /\ d.id = c.id => d = c
    <3>1. c.id \in Nat /\ \A d \in containers : d.id # c.id
      BY <1>2, <2>1, <2>3, <2>4, <2>7 DEF CreatesOnce
    <3>2. QED
      BY <2>1, <2>2, <2>7, <3>1 DEF CreatesOnce
  <2>8. QED
    BY <2>6, <2>7 DEF CreatesOnce
<1>11. QED
  BY <1>3, <1>6, <1>7, <1>8, <1>9, <1>10

\* The first request of a deployment.
LEMMA CreatedStep ==
  ASSUME CtrInv, NEW t \in Browsers, Created(t)
  PROVE  CtrInv'
<1> USE DEF CtrInv
<1>1. /\ call[t].pc = "create" /\ call[t] \in Calls
      /\ UNCHANGED <<probe, daemon, version, late, replaced, started, ctrAsked, ctrEvents>>
  BY DEF Created, CtrShape
<1>2. \A d \in containers : d.id # call[t].id
  BY <1>1 DEF CreatesOnce
<1>3. PICK c \in Calls :
        /\ call' = [call EXCEPT ![t] = c] /\ c.pc \in {"idle", "start"} /\ c.id = call[t].id
        /\ c.pc = "idle" \/ c.answer = "none"
  <2>1. call[t].answer = "none"
    BY <1>1 DEF AnswerAtTheEnd
  <2>2. CASE call' = [call EXCEPT ![t].pc = "start"]
    <3> DEFINE c == [call[t] EXCEPT !.pc = "start"]
    <3>1. c \in Calls /\ c.pc = "start" /\ c.id = call[t].id /\ c.answer = "none"
      BY <1>1, <2>1 DEF Calls
    <3>2. call' = [call EXCEPT ![t] = c]
      BY <2>2
    <3> HIDE DEF c
    <3>3. QED
      BY <3>1, <3>2
  <2>3. CASE Answer(t, "error")
    <3> DEFINE c == [call[t] EXCEPT !.pc = "idle", !.answer = "error"]
    <3>1. c \in Calls /\ c.pc = "idle" /\ c.id = call[t].id
      BY <1>1 DEF Calls
    <3>2. call' = [call EXCEPT ![t] = c]
      BY <2>3 DEF Answer
    <3> HIDE DEF c
    <3>3. QED
      BY <3>1, <3>2
  <2>4. QED
    BY <2>2, <2>3 DEF Created
<1>4. /\ call' \in [Browsers -> Calls] /\ call'[t] = c
      /\ \A u \in Browsers : u # t => call'[u] = call[u]
  BY <1>3 DEF CtrShape
<1>5. /\ containers' \subseteq Lists /\ OneEach'
      /\ \A d \in containers' : d.id = call[t].id \/ d \in containers
  <2>1. CASE UNCHANGED containers
    BY <2>1 DEF CtrShape, OneEach
  <2>2. CASE \E n \in Names : Create(call[t], n)
    BY <1>1, <1>2, <2>2, CreatedOne
  <2>3. QED
    BY <2>1, <2>2 DEF Created
<1>6. CtrShape'
  BY <1>1, <1>4, <1>5 DEF CtrShape
<1>7. UnusableNeverAdopted'
  BY <1>1, DaemonsKept
<1>8. AnswerAtTheEnd'
  BY <1>3, <1>4 DEF AnswerAtTheEnd
<1>9. NumbersGiven'
  BY <1>1, <1>3, <1>4, <1>5 DEF NumbersGiven
<1>10. CreatesOnce'
  <2>1. \A u \in Browsers : call'[u].pc = "create" => /\ u # t /\ call'[u] = call[u]
                                                     /\ call[u].id # call[t].id
    BY <1>1, <1>3, <1>4 DEF CreatesOnce
  <2>2. \A e \in late : e.pc = "create" => e.id # call[t].id
    BY <1>1 DEF CreatesOnce
  <2>3. QED
    BY <1>1, <1>5, <2>1, <2>2 DEF CreatesOnce
<1>11. QED
  BY <1>5, <1>6, <1>7, <1>8, <1>9, <1>10

LEMMA LateStep ==
  ASSUME CtrInv, NEW c \in late, Late(c)
  PROVE  CtrInv'
<1> USE DEF CtrInv
<1>1. /\ late' = late \ {c} /\ c \in Calls
      /\ UNCHANGED <<probe, daemon, version, call, replaced, ctrAsked, ctrEvents>>
  BY DEF Late, CtrShape
<1>2. /\ containers' \subseteq Lists /\ OneEach'
      /\ \A d \in containers' :
           (c.pc = "create" /\ d.id = c.id) \/ \E e \in containers : e.id = d.id
      /\ started' \subseteq 1..ctrAsked'
  <2>1. CASE UNCHANGED <<containers, started>>
    BY <1>1, <2>1 DEF CtrShape, OneEach
  <2>2. CASE c.pc = "create" /\ (\E n \in Names : Create(c, n)) /\ UNCHANGED started
    <3>1. \A d \in containers : d.id # c.id
      BY <2>2 DEF CreatesOnce
    <3>2. PICK n \in Names : Create(c, n)
      BY <2>2
    <3>3. /\ containers' \subseteq Lists /\ OneEach'
          /\ \A d \in containers' : d.id = c.id \/ d \in containers
      BY <1>1, <3>1, <3>2, CreatedOne
    <3>4. QED
      BY <1>1, <2>2, <3>3 DEF CtrShape
  <2>3. CASE Perform(c.do, c.rt, c.id)
    <3>1. c.do \in {"start", "stop", "restart", "remove"}
      BY <1>1 DEF Calls
    <3>2. QED
      BY <1>1, <2>3, <3>1, Performed
  <2>4. QED
    BY <2>1, <2>2, <2>3 DEF Late
<1>3. CtrShape'
  BY <1>1, <1>2 DEF CtrShape
<1>4. UnusableNeverAdopted'
  BY <1>1, DaemonsKept
<1>5. AnswerAtTheEnd'
  BY <1>1 DEF AnswerAtTheEnd
<1>6. NumbersGiven'
  BY <1>1, <1>2 DEF NumbersGiven
<1>7. CreatesOnce'
  <2>1. \A d \in late' : d \in late /\ d # c
    BY <1>1
  <2>2. \A u \in Browsers : call[u].pc = "create" =>
          /\ \A d \in containers' : d.id # call[u].id
          /\ \A p \in Browsers : call[p].pc = "create" /\ call[p].id = call[u].id => p = u
          /\ \A d \in late' : d.pc = "create" => d.id # call[u].id
    BY <1>2, <2>1 DEF CreatesOnce
  <2>3. \A d \in late' : d.pc = "create" =>
          /\ \A e \in containers' : e.id # d.id
          /\ \A e \in late' : e.pc = "create" /\ e.id = d.id => e = d
    BY <1>2, <2>1 DEF CreatesOnce
  <2>4. QED
    BY <1>1, <2>2, <2>3 DEF CreatesOnce
<1>8. QED
  BY <1>2, <1>3, <1>4, <1>5, <1>6, <1>7

LEMMA CtrStep == CtrInv /\ [CtrNext]_ctrVars => CtrInv'
<1> SUFFICES ASSUME CtrInv, [CtrNext]_ctrVars
             PROVE  CtrInv'
  OBVIOUS
<1>1. CASE UNCHANGED ctrVars
  BY <1>1 DEF ctrVars, CtrInv, CtrShape, UnusableNeverAdopted, Serves, AnswerAtTheEnd, NumbersGiven,
     OneEach, CreatesOnce
<1>2. QED
  BY <1>1, DetectStep, NegotiationStep, DaemonStep, BeginStep, EndRequestStep, CreatedStep, LateStep DEF CtrNext

LEMMA AlwaysCtrInv == CtrSpec => []CtrInv
BY CtrInitial, CtrStep, PTL DEF CtrSpec

\* Every variable of the containers keeps its type; no two containers of a runtime ever
\* have the same name, and none the number of another, whatever is carried out late.
THEOREM CtrTypeCorrect == CtrSpec => []CtrTypeOK
<1>1. CtrInv => CtrTypeOK
  <2> SUFFICES ASSUME CtrInv
               PROVE  CtrTypeOK
    OBVIOUS
  <2>1. \A c \in containers : /\ c.id \in 1..ctrAsked /\ c.rt \in Runtimes /\ c.name \in Names
                              /\ c.state \in {"created", "running", "exited"}
    BY DEF CtrInv, CtrShape, NumbersGiven, Lists
  <2>2. \A t \in Browsers : call[t].pc \in {"idle", "act", "create", "start"}
    BY DEF CtrInv, CtrShape, Calls
  <2>3. QED
    BY <2>1, <2>2 DEF CtrInv, CtrShape, OneEach, CtrTypeOK
<1>2. QED
  BY <1>1, AlwaysCtrInv, PTL

\* No prefix that a daemon does not serve when it is adopted ever is, for any number of
\* versions, also when daemons are replaced in the middle of a negotiation.
THEOREM NeverUnusable == CtrSpec => []UnusableNeverAdopted
<1>1. CtrInv => UnusableNeverAdopted
  BY DEF CtrInv
<1>2. QED
  BY <1>1, AlwaysCtrInv, PTL

\* A deployment answered with "ok" has started its container.
THEOREM OkAlwaysMeansStarted == CtrSpec => OkMeansStarted
<1>1. CtrInv /\ [CtrNext]_ctrVars =>
        [\A t \in Browsers :
           call[t].pc = "start" /\ call'[t].answer = "ok" => call[t].id \in started']_ctrVars
  <2> SUFFICES ASSUME CtrInv, CtrNext, NEW t \in Browsers,
                      call[t].pc = "start", call'[t].answer = "ok"
               PROVE  call[t].id \in started'
    OBVIOUS
  <2>1. call[t].answer = "none" /\ call'[t] # call[t] /\ call[t].do \in {"start", "stop", "restart", "remove"}
    BY DEF CtrInv, CtrShape, Calls, AnswerAtTheEnd
  <2>2. CASE Detect \/ NewRuntime \/ AskVersion \/ ConfirmVersion
    BY <2>1, <2>2 DEF Detect, Idle, NewRuntime, AskVersion, ConfirmVersion, Settle, Asks
  <2>3. CASE \E rt \in Runtimes : DaemonChanges(rt)
    BY <2>1, <2>3 DEF DaemonChanges
  <2>4. CASE \E c \in late : Late(c)
    BY <2>1, <2>4 DEF Late
  <2>5. ASSUME NEW u \in Browsers, u # t,
               \/ Action(u) \/ Acted(u) \/ RunRequest(u) \/ Created(u) \/ Started(u) \/ GiveUp(u)
        PROVE  FALSE
    <3>1. call'[t] = call[t]
      BY <2>5 DEF Action, Acted, RunRequest, Created, Started, GiveUp, Begin, Answer, CtrInv, CtrShape
    <3>2. QED
      BY <2>1, <3>1
  <2>6. CASE Started(t) \/ GiveUp(t)
    <3>1. CASE Perform("start", call[t].rt, call[t].id)
      BY <3>1 DEF Perform
    <3>2. CASE Answer(t, "error")
      BY <3>2, Answered DEF CtrInv
    <3>3. QED
      BY <2>6, <3>1, <3>2 DEF Started, GiveUp
  <2>7. CASE Action(t) \/ Acted(t) \/ RunRequest(t) \/ Created(t)
    BY <2>7 DEF Action, Acted, RunRequest, Created, Begin
  <2>8. QED
    BY <2>2, <2>3, <2>4, <2>5, <2>6, <2>7 DEF CtrNext
<1>2. QED
  BY <1>1, AlwaysCtrInv, PTL DEF CtrSpec, OkMeansStarted

-----------------------------------------------------------------------------
(* Services.  Between its two calls a list has a row for every unit that   *)
(* has been loaded since it began, and none of another kind; a unit that   *)
(* is loaded meanwhile is found among the files if its file is installed.  *)

UnitStates == Active \union {"unloaded"}
ListRows == [name : Units, from : {"units", "files"}, active : UnitStates]
ListSteps == {"idle", "systemd", "files", "openrc", "printed", "answered"}

ServicesShape ==
  /\ init \in {"systemd", "openrc"}
  /\ file \in [Units -> FileStates \union Duplicates \union {"none"}]
  /\ state \in [Units -> UnitStates]
  /\ job \in [Units -> {"none", "start", "stop", "restart"}]
  /\ listing \in [pc : ListSteps, kind : Kinds, rows : SUBSET ListRows]
  /\ short \in BOOLEAN

\* What is said to have been installed or loaded all the time still is.
WitnessedStill ==
  /\ installed \subseteq Units /\ loaded \subseteq Units
  /\ \A u \in installed : file[u] \in FileStates
  /\ \A u \in loaded : state[u] # "unloaded"

RowOf(u) == \E r \in listing.rows : r.name = u

RowsSoFar ==
  init = "systemd" /\ listing.pc \in {"files", "answered"} =>
    /\ \A r \in listing.rows : Fits(r.name)
    /\ \A r, s \in listing.rows : r.name = s.name => r = s
    /\ \A u \in loaded : Fits(u) => RowOf(u)

AllInstalledListed ==
  init = "systemd" /\ listing.pc = "answered" /\ ~short =>
    \A u \in Runnable : u \in installed /\ Fits(u) => RowOf(u)

\* A list is printed under OpenRC alone.
PrintedByOpenRC == listing.pc \in {"openrc", "printed"} => init = "openrc"

ServicesInv ==
  ServicesShape /\ WitnessedStill /\ RowsSoFar /\ AllInstalledListed /\ PrintedByOpenRC

LEMMA ServicesInitial == ServicesInit => ServicesInv
<1> SUFFICES ASSUME ServicesInit
             PROVE  ServicesInv
  OBVIOUS
<1>1. listing \in [pc : ListSteps, kind : Kinds, rows : SUBSET ListRows] /\ listing.pc = "idle"
  BY ServicesAssumption DEF ServicesInit, NoList, ListSteps
<1>2. file \in [Units -> FileStates \union Duplicates \union {"none"}]
  BY DEF ServicesInit, FileStates, Duplicates
<1>3. QED
  BY <1>1, <1>2 DEF ServicesInit, ServicesInv, ServicesShape, UnitStates, WitnessedStill, RowsSoFar,
     AllInstalledListed, PrintedByOpenRC

\* The host goes on while a list is made, or after.
LEMMA HostGoesOn ==
  ASSUME ServicesInv, ServicesShape', Witnessed, UNCHANGED <<init, listing, short>>
  PROVE  ServicesInv'
<1>1. WitnessedStill'
  BY DEF ServicesInv, WitnessedStill, Witnessed
<1>2. installed' \subseteq installed /\ loaded' \subseteq loaded
  BY DEF Witnessed
<1>3. RowsSoFar' /\ AllInstalledListed' /\ PrintedByOpenRC'
  BY <1>2 DEF ServicesInv, RowsSoFar, AllInstalledListed, PrintedByOpenRC, Fits, RowOf
<1>4. QED
  BY <1>1, <1>3 DEF ServicesInv

LEMMA HostStep ==
  ASSUME ServicesInv, NEW u \in Units,
         \/ \E verb \in {"start", "stop", "restart"} : QueueJob(u, verb) \/ RunVerb(u, verb)
         \/ JobEnds(u) \/ (\E on \in BOOLEAN : SetBoot(u, on)) \/ Fails(u) \/ Forget(u)
         \/ \E f \in {"none", "disabled", "masked"} : Package(u, f)
  PROVE  ServicesInv'
<1> USE DEF ServicesInv, ServicesShape
<1>1. /\ Witnessed /\ UNCHANGED <<init, listing, short>>
  BY DEF QueueJob, RunVerb, JobEnds, SetBoot, Fails, Forget, Package
<1>2. file' \in [Units -> FileStates \union Duplicates \union {"none"}]
  BY DEF QueueJob, RunVerb, JobEnds, SetBoot, Fails, Forget, Package, FileStates
<1>3. state' \in [Units -> UnitStates]
  <2>1. ASSUME NEW verb, QueueJob(u, verb)
        PROVE  state' \in [Units -> UnitStates]
    BY <2>1 DEF QueueJob, UnitStates, Active
  <2>2. ASSUME NEW verb, RunVerb(u, verb)
        PROVE  state' \in [Units -> UnitStates]
    BY <2>2 DEF RunVerb, UnitStates, Active
  <2>3. CASE JobEnds(u)
    BY <2>3 DEF JobEnds, UnitStates, Active
  <2>4. CASE Fails(u) \/ Forget(u)
    BY <2>4 DEF Fails, Forget, UnitStates, Active
  <2>5. CASE UNCHANGED state
    BY <2>5
  <2>6. QED
    BY <2>1, <2>2, <2>3, <2>4, <2>5 DEF SetBoot, Package
<1>4. job' \in [Units -> {"none", "start", "stop", "restart"}]
  BY DEF QueueJob, RunVerb, JobEnds, SetBoot, Fails, Forget, Package
<1>5. ServicesShape'
  BY <1>1, <1>2, <1>3, <1>4
<1>6. QED
  BY <1>1, <1>5, HostGoesOn

LEMMA AskStep ==
  ASSUME ServicesInv, NEW kind \in Kinds, AskList(kind)
  PROVE  ServicesInv'
<1> USE DEF ServicesInv
<1>1. /\ UNCHANGED <<init, file, state, job, hostEvents>>
      /\ installed' = {u \in Units : Listed(u)} /\ loaded' = {u \in Units : state[u] # "unloaded"}
      /\ listing' = [pc |-> init, kind |-> kind, rows |-> {}] /\ short' = FALSE
  BY DEF AskList
<1>2. listing' \in [pc : ListSteps, kind : Kinds, rows : SUBSET ListRows]
  BY <1>1 DEF ServicesShape, ListSteps
<1>3. listing'.pc \in {"systemd", "openrc"}
  BY <1>1 DEF ServicesShape
<1>4. ServicesShape'
  BY <1>1, <1>2 DEF ServicesShape
<1>5. WitnessedStill'
  BY <1>1 DEF WitnessedStill, Listed
<1>6. QED
  BY <1>1, <1>3, <1>4, <1>5 DEF RowsSoFar, AllInstalledListed, PrintedByOpenRC

LEMMA FirstCallStep ==
  ASSUME ServicesInv, ListUnits
  PROVE  ServicesInv'
<1> USE DEF ServicesInv
<1> DEFINE seen == {x \in Units : state[x] # "unloaded" /\ Fits(x)}
           found == {UnitRow(u) : u \in seen}
<1>1. listing' = [listing EXCEPT !.pc = "files", !.rows = found]
  BY DEF ListUnits, Goes
<1>2. UNCHANGED <<init, file, state, job, installed, loaded, hostEvents>> /\ short' = FALSE
  BY DEF ListUnits, Goes
<1>3. ASSUME NEW u \in Units
      PROVE  UnitRow(u) \in ListRows /\ UnitRow(u).name = u
  BY DEF UnitRow, ListRows, ServicesShape
<1>4. found \in SUBSET ListRows
  BY <1>3
<1>5. \A r \in found : r.name \in seen /\ r = UnitRow(r.name)
  BY <1>3
<1>6. \A u \in seen : \E r \in found : r.name = u
  BY <1>3
<1> HIDE DEF found
<1>7. /\ listing' \in [pc : ListSteps, kind : Kinds, rows : SUBSET ListRows]
      /\ listing'.pc = "files" /\ listing'.kind = listing.kind /\ listing'.rows = found
  BY <1>1, <1>4 DEF ServicesShape, ListSteps
<1>8. ServicesShape' /\ WitnessedStill'
  BY <1>2, <1>7 DEF ServicesShape, WitnessedStill
<1>9. \A u \in Units : Fits(u)' = Fits(u)
  BY <1>7 DEF Fits
<1>10. RowsSoFar'
  <2>1. \A r \in found : Fits(r.name)'
    BY <1>5, <1>9
  <2>2. \A r, s \in found : r.name = s.name => r = s
    BY <1>5
  <2>3. \A u \in loaded : u \in Units /\ (Fits(u)' => u \in seen)
    BY <1>9 DEF WitnessedStill
  <2> HIDE DEF seen
  <2>4. QED
    BY <1>2, <1>6, <1>7, <2>1, <2>2, <2>3 DEF RowsSoFar, RowOf
<1>11. QED
  BY <1>7, <1>8, <1>10 DEF AllInstalledListed, PrintedByOpenRC

LEMMA SecondCallStep ==
  ASSUME ServicesInv, ListUnitFiles
  PROVE  ServicesInv'
<1> USE DEF ServicesInv
<1> DEFINE more == {FileRow(u) : u \in Unseen}
<1>1. listing' = [listing EXCEPT !.pc = "answered", !.rows = listing.rows \union more]
  BY DEF ListUnitFiles, Goes
<1>2. /\ UNCHANGED <<init, file, state, job, installed, loaded, hostEvents>>
      /\ listing.pc = "files" /\ short' = FALSE
  BY DEF ListUnitFiles, Goes
<1>3. ASSUME NEW u \in Units
      PROVE  FileRow(u) \in ListRows /\ FileRow(u).name = u
  BY DEF FileRow, ListRows, UnitStates, Active
<1>4. Unseen \subseteq Units
  BY DEF Unseen, Units
<1>5. more \in SUBSET ListRows
  BY <1>3, <1>4
<1>6. \A r \in more : r.name \in Unseen /\ r = FileRow(r.name)
  BY <1>3, <1>4
<1>7. \A u \in Unseen : \E r \in more : r.name = u
  BY <1>3, <1>4
<1> HIDE DEF more
<1>8. /\ listing' \in [pc : ListSteps, kind : Kinds, rows : SUBSET ListRows]
      /\ listing'.pc = "answered" /\ listing'.kind = listing.kind
      /\ listing'.rows = listing.rows \union more
  BY <1>1, <1>5 DEF ServicesShape, ListSteps
<1>9. ServicesShape' /\ WitnessedStill'
  BY <1>2, <1>8 DEF ServicesShape, WitnessedStill
<1>10. \A u : Fits(u)' = Fits(u)
  BY <1>8 DEF Fits
<1>11. \A r \in more : Fits(r.name) /\ \A s \in listing.rows : s.name # r.name
  BY <1>6 DEF Unseen
<1>12. RowsSoFar'
  <2> SUFFICES ASSUME init = "systemd"
               PROVE  RowsSoFar'
    BY <1>2 DEF RowsSoFar
  <2>1. \A r \in listing.rows : Fits(r.name)
    BY <1>2 DEF RowsSoFar
  <2>2. \A r \in listing.rows \union more : Fits(r.name)'
    BY <1>10, <1>11, <2>1
  <2>3. \A r, s \in more : r.name = s.name => r = s
    BY <1>6
  <2>4. \A r, s \in listing.rows : r.name = s.name => r = s
    BY <1>2 DEF RowsSoFar
  <2>5. \A r, s \in listing.rows \union more : r.name = s.name => r = s
    BY <1>11, <2>3, <2>4
  <2>6. \A u \in loaded : Fits(u)' => \E r \in listing.rows : r.name = u
    BY <1>2, <1>10 DEF RowsSoFar, RowOf
  <2>7. QED
    BY <1>2, <1>8, <2>2, <2>5, <2>6 DEF RowsSoFar, RowOf
<1>13. AllInstalledListed'
  <2> SUFFICES ASSUME NEW u \in Runnable, u \in installed, Fits(u)
               PROVE  \E r \in listing.rows \union more : r.name = u
    BY <1>2, <1>8, <1>10 DEF AllInstalledListed, RowOf
  <2>1. Listed(u)
    BY DEF WitnessedStill, Listed
  <2>2. u \in Unseen \/ \E r \in listing.rows : r.name = u
    BY <2>1 DEF Unseen
  <2>3. QED
    BY <1>7, <2>2
<1>14. QED
  BY <1>8, <1>9, <1>12, <1>13 DEF PrintedByOpenRC

\* The second call fails: what the first gave is the answer, as it would be without units
\* that are only installed.
LEMMA ShortListStep ==
  ASSUME ServicesInv, ListUnitFilesFails
  PROVE  ServicesInv'
<1> USE DEF ServicesInv
<1>1. /\ UNCHANGED <<init, file, state, job, installed, loaded, hostEvents>>
      /\ listing.pc = "files" /\ short' = TRUE
      /\ listing' = [listing EXCEPT !.pc = "answered", !.rows = listing.rows]
  BY DEF ListUnitFilesFails, Goes
<1>2. /\ listing' \in [pc : ListSteps, kind : Kinds, rows : SUBSET ListRows]
      /\ listing'.kind = listing.kind /\ listing'.rows = listing.rows
  BY <1>1 DEF ServicesShape, ListSteps
<1>3. ServicesShape' /\ WitnessedStill'
  BY <1>1, <1>2 DEF ServicesShape, WitnessedStill
<1>4. RowsSoFar'
  BY <1>1, <1>2 DEF RowsSoFar, RowOf, Fits
<1>5. QED
  BY <1>1, <1>3, <1>4 DEF AllInstalledListed, PrintedByOpenRC

\* A list that fails, and one under OpenRC.
LEMMA OtherListStep ==
  ASSUME ServicesInv, ListFails \/ RcStatus \/ RcUpdate
  PROVE  ServicesInv'
<1> USE DEF ServicesInv
<1>1. UNCHANGED <<init, file, state, job, installed, loaded, hostEvents>> /\ short' = FALSE
  BY DEF ListFails, RcStatus, RcUpdate, Goes
<1>2. /\ listing' \in [pc : ListSteps, kind : Kinds, rows : SUBSET ListRows]
      /\ listing'.pc = "idle" \/ (listing'.pc \in {"printed", "answered"} /\ init = "openrc")
  <2>1. CASE RcStatus
    <3> DEFINE found == {RcRow(u) : u \in {x \in Runnable : file[x] = "enabled" \/ state[x] # "unloaded"}}
    <3>1. listing' = [listing EXCEPT !.pc = "printed", !.rows = found]
      BY <2>1 DEF RcStatus, Goes
    <3>2. ASSUME NEW u \in Units
          PROVE  RcRow(u) \in ListRows
      <4>1. UnitRow(u) \in ListRows
        BY DEF UnitRow, ListRows, ServicesShape
      <4>2. QED
        BY <4>1 DEF RcRow, ListRows, UnitStates, Active
    <3>3. found \in SUBSET ListRows
      BY <3>2 DEF Units
    <3> HIDE DEF found
    <3>4. init = "openrc"
      BY <2>1 DEF RcStatus, PrintedByOpenRC
    <3>5. QED
      BY <3>1, <3>3, <3>4 DEF ServicesShape, ListSteps
  <2>2. CASE ListFails
    BY <2>2 DEF ListFails, Goes, ServicesShape, ListSteps
  <2>3. CASE RcUpdate
    BY <2>3 DEF RcUpdate, Goes, ServicesShape, ListSteps, PrintedByOpenRC
  <2>4. QED
    BY <2>1, <2>2, <2>3
<1>3. ServicesShape'
  BY <1>1, <1>2 DEF ServicesShape
<1>4. WitnessedStill'
  BY <1>1 DEF WitnessedStill
<1>5. ~(init' = "systemd" /\ listing'.pc \in {"files", "answered"})
  BY <1>1, <1>2
<1>6. RowsSoFar' /\ AllInstalledListed'
  BY <1>5 DEF RowsSoFar, AllInstalledListed
<1>7. PrintedByOpenRC'
  BY <1>1, <1>2 DEF PrintedByOpenRC
<1>8. QED
  BY <1>3, <1>4, <1>6, <1>7

LEMMA ServicesStep == ServicesInv /\ [ServicesNext]_serviceVars => ServicesInv'
<1> SUFFICES ASSUME ServicesInv, [ServicesNext]_serviceVars
             PROVE  ServicesInv'
  OBVIOUS
<1>1. CASE UNCHANGED serviceVars
  BY <1>1 DEF serviceVars, ServicesInv, ServicesShape, WitnessedStill, RowsSoFar, AllInstalledListed,
     PrintedByOpenRC, Fits, RowOf
<1>2. CASE ServicesNext
  BY <1>2, HostStep, AskStep, FirstCallStep, SecondCallStep, ShortListStep, OtherListStep DEF ServicesNext
<1>3. QED
  BY <1>1, <1>2

LEMMA AlwaysServicesInv == ServicesSpec => []ServicesInv
BY ServicesInitial, ServicesStep, PTL DEF ServicesSpec

\* What is known of units and lists keeps its type.
THEOREM ServicesTypeCorrect == ServicesSpec => []ServicesTypeOK
<1>1. ServicesInv => ServicesTypeOK
  BY DEF ServicesInv, ServicesShape, ServicesTypeOK, UnitStates, ListRows
<1>2. QED
  BY <1>1, AlwaysServicesInv, PTL

\* A list has every unit of its kind once, whatever the host does between its two calls;
\* when the second one fails it still has every unit that stayed loaded, and none twice.
THEOREM EachUnitAlwaysOnce == ServicesSpec => []EachUnitOnce
<1>1. ServicesInv => EachUnitOnce
  <2> SUFFICES ASSUME ServicesInv, init = "systemd", listing.pc = "answered"
               PROVE  EachUnitOnce
    BY DEF EachUnitOnce
  <2> DEFINE named(u) == {r \in listing.rows : r.name = u}
  <2>1. \A u : RowOf(u) => \E r : named(u) = {r}
    BY DEF ServicesInv, RowsSoFar, RowOf
  <2>2. \A u : ~RowOf(u) => named(u) = {}
    BY DEF RowOf
  <2>3. \A u : RowOf(u) => Fits(u)
    BY DEF ServicesInv, RowsSoFar, RowOf
  <2>4. \A u \in Runnable :
          u \in loaded \union (IF short THEN {} ELSE installed) /\ Fits(u) => RowOf(u)
    BY DEF ServicesInv, RowsSoFar, AllInstalledListed
  <2> HIDE DEF named
  <2>5. \A u : RowOf(u) => Cardinality(named(u)) = 1
    BY <2>1, FS_Singleton
  <2>6. \A u : ~RowOf(u) => Cardinality(named(u)) = 0
    BY <2>2, FS_EmptySet
  <2>7. \A u : Cardinality(named(u)) <= (IF Fits(u) THEN 1 ELSE 0)
    BY <2>3, <2>5, <2>6
  <2>8. QED
    BY <2>4, <2>5, <2>7 DEF EachUnitOnce, named
<1>2. QED
  BY <1>1, AlwaysServicesInv, PTL

-----------------------------------------------------------------------------
(* The hardening score.  Whatever is said of a check that has not changed  *)
(* since is true of the host; as long as no two scans have overlapped, the *)
(* score of a page is no newer than the one that is stored, and that one   *)
(* is no newer than the scan in progress.                                  *)

Looked == UNION {[D -> BOOLEAN] : D \in SUBSET Checks}
ScanRecords == [pc : {"idle", "running", "scored", "saved"}, ok : Looked, still : SUBSET Checks, at : Nat]
Scores == [ok : [Checks -> BOOLEAN], still : SUBSET Checks, at : Nat]

ScoreShape ==
  /\ host \in [Checks -> BOOLEAN] /\ hour \in Nat
  /\ scans \in [Scanners -> ScanRecords]
  /\ \A a \in Scanners : scans[a].pc \in {"scored", "saved"} =>
       scans[a].ok \in [Checks -> BOOLEAN] /\ scans[a].at \in 0..hour
  /\ stored \subseteq Scores /\ known \subseteq Scores
  /\ \A s \in stored \union known : s.at \in 0..hour
  /\ muddled \in BOOLEAN

Tells(s, h) == \A c \in s.still \intersect DOMAIN s.ok : s.ok[c] = h[c]

ScoresTell ==
  /\ \A a \in Scanners : Tells(scans[a], host)
  /\ \A s \in stored \union known : Tells(s, host)

\* Without an overlap there is one scan at most, and what is newer has seen more.
InOrder ==
  ~muddled =>
    /\ \A a, b \in Scanners : scans[a].pc # "idle" /\ scans[b].pc # "idle" => a = b
    /\ \A s, r \in stored : s = r
    /\ \A k, r \in known : k = r
    /\ \A k \in known, s \in stored : k.still \subseteq s.still
    /\ \A a \in Scanners : scans[a].pc # "idle" =>
         /\ \A s \in stored \union known : s.still \subseteq scans[a].still
         /\ scans[a].pc = "saved" => stored = {Score(a)}

ScoreInv == ScoreShape /\ ScoresTell /\ InOrder

\* The scans before and after they begin.
LEMMA EmptyScans ==
  /\ NoScan \in ScanRecords /\ NoScan.pc = "idle" /\ DOMAIN NoScan.ok = {}
  /\ NewScan \in ScanRecords /\ NewScan.pc = "running" /\ DOMAIN NewScan.ok = {}
     /\ NewScan.still = Checks
<1>1. <<>> \in [{} -> BOOLEAN] /\ DOMAIN <<>> = {}
  OBVIOUS
<1>2. <<>> \in Looked
  BY <1>1 DEF Looked
<1>3. QED
  BY <1>1, <1>2 DEF NoScan, NewScan, ScanRecords

LEMMA ScoreInitial == ScoreInit => ScoreInv
<1> SUFFICES ASSUME ScoreInit
             PROVE  ScoreInv
  OBVIOUS
<1>1. \A a \in Scanners : /\ scans[a] \in ScanRecords /\ DOMAIN scans[a].ok = {}
                          /\ scans[a].pc \in {"idle", "running"}
                          /\ scans[a].pc # "idle" => a = "boot"
  BY EmptyScans DEF ScoreInit
<1>2. ScoreShape
  BY <1>1 DEF ScoreInit, ScoreShape
<1>3. ScoresTell
  BY <1>1 DEF ScoreInit, ScoresTell, Tells
<1>4. InOrder
  BY <1>1 DEF ScoreInit, InOrder
<1>5. QED
  BY <1>2, <1>3, <1>4 DEF ScoreInv

\* A goroutine of a scan looks at the host.
LEMMA RunCheckStep ==
  ASSUME ScoreInv, NEW a \in Scanners, NEW c \in Checks, RunCheck(a, c)
  PROVE  ScoreInv'
<1> USE DEF ScoreInv
<1> DEFINE ok == With(scans[a].ok, c, host[c])
           s == [scans[a] EXCEPT !.ok = ok]
<1>1. /\ UNCHANGED <<host, hour, stored, known, muddled>> /\ scans[a].pc = "running"
      /\ scans' = [scans EXCEPT ![a] = s]
  BY DEF RunCheck, ScoreShape
<1>2. scans[a] \in ScanRecords
  BY DEF ScoreShape
<1>3. PICK D \in SUBSET Checks : scans[a].ok \in [D -> BOOLEAN]
  BY <1>2 DEF ScanRecords, Looked
<1>4. /\ DOMAIN scans[a].ok = D /\ \A d \in D : scans[a].ok[d] \in BOOLEAN
      /\ c \notin D /\ host[c] \in BOOLEAN
  BY <1>3 DEF RunCheck, ScoreShape
<1>5. /\ ok \in [D \union {c} -> BOOLEAN] /\ ok[c] = host[c]
      /\ \A d \in D : ok[d] = scans[a].ok[d]
  BY <1>4, Zenon DEF With
<1>6. ok \in Looked
  BY <1>5 DEF Looked
<1> HIDE DEF ok
<1>7. s \in ScanRecords /\ s.pc = "running" /\ s.ok = ok /\ s.still = scans[a].still
  BY <1>1, <1>2, <1>6 DEF ScanRecords
<1> HIDE DEF s
<1>8. scans' \in [Scanners -> ScanRecords] /\ scans'[a] = s
      /\ \A b \in Scanners : b # a => scans'[b] = scans[b]
  BY <1>1, <1>7 DEF ScoreShape
<1>9. ScoreShape'
  BY <1>1, <1>7, <1>8 DEF ScoreShape
<1>10. ScoresTell'
  <2>1. Tells(scans[a], host)
    BY DEF ScoresTell
  <2>2. Tells(s, host)
    BY <1>3, <1>4, <1>5, <1>7, <2>1 DEF Tells
  <2>3. QED
    BY <1>1, <1>8, <2>2 DEF ScoresTell, Tells
<1>11. InOrder'
  BY <1>1, <1>7, <1>8 DEF InOrder, Score
<1>12. QED
  BY <1>9, <1>10, <1>11

LEMMA RunAllReturnsStep ==
  ASSUME ScoreInv, NEW a \in Scanners, RunAllReturns(a)
  PROVE  ScoreInv'
<1> USE DEF ScoreInv
<1> DEFINE s == [scans[a] EXCEPT !.pc = "scored", !.at = hour]
<1>1. /\ UNCHANGED <<host, hour, stored, known, muddled>>
      /\ scans[a].pc = "running" /\ DOMAIN scans[a].ok = Checks
      /\ scans' = [scans EXCEPT ![a] = s]
  BY DEF RunAllReturns, ScoreShape
<1>2. scans[a] \in ScanRecords /\ hour \in Nat /\ hour \in 0..hour
  BY DEF ScoreShape
<1>3. scans[a].ok \in [Checks -> BOOLEAN]
  BY <1>1, <1>2 DEF ScanRecords, Looked
<1>4. s \in ScanRecords /\ s.pc = "scored" /\ s.ok = scans[a].ok /\ s.still = scans[a].still /\ s.at = hour
  BY <1>2 DEF ScanRecords
<1> HIDE DEF s
<1>5. scans' \in [Scanners -> ScanRecords] /\ scans'[a] = s
      /\ \A b \in Scanners : b # a => scans'[b] = scans[b]
  BY <1>1, <1>4 DEF ScoreShape
<1>6. ScoreShape'
  BY <1>1, <1>2, <1>3, <1>4, <1>5 DEF ScoreShape
<1>7. ScoresTell'
  <2>1. Tells(s, host)
    BY <1>4 DEF ScoresTell, Tells
  <2>2. QED
    BY <1>1, <1>5, <2>1 DEF ScoresTell, Tells
<1>8. InOrder'
  BY <1>1, <1>4, <1>5 DEF InOrder, Score
<1>9. QED
  BY <1>6, <1>7, <1>8

\* The score of a finished scan.
LEMMA ScoreOf ==
  ASSUME ScoreInv, NEW a \in Scanners, scans[a].pc \in {"scored", "saved"}
  PROVE  /\ Score(a) \in Scores /\ Score(a).still = scans[a].still /\ Score(a).at \in 0..hour
         /\ Tells(Score(a), host)
<1>1. scans[a] \in ScanRecords /\ scans[a].ok \in [Checks -> BOOLEAN] /\ scans[a].at \in 0..hour
  BY DEF ScoreInv, ScoreShape
<1>2. /\ Score(a) \in Scores /\ Score(a).still = scans[a].still /\ Score(a).ok = scans[a].ok
      /\ Score(a).at = scans[a].at
  BY <1>1 DEF Score, Scores, ScanRecords
<1>3. Tells(Score(a), host)
  BY <1>2 DEF ScoreInv, ScoresTell, Tells
<1>4. QED
  BY <1>1, <1>2, <1>3

LEMMA SaveCacheStep ==
  ASSUME ScoreInv, NEW a \in Scanners, SaveCache(a)
  PROVE  ScoreInv'
<1> USE DEF ScoreInv
<1> DEFINE s == IF a = "boot" THEN NoScan ELSE [scans[a] EXCEPT !.pc = "saved"]
<1>1. /\ UNCHANGED <<host, hour, known>> /\ scans[a].pc = "scored"
      /\ (stored' = {Score(a)} /\ muddled' = muddled) \/ (stored' = stored /\ muddled' = TRUE)
      /\ scans' = [scans EXCEPT ![a] = s]
  BY DEF SaveCache, ScoreShape
<1>2. scans[a] \in ScanRecords
  BY DEF ScoreShape
<1>3. s \in ScanRecords /\ \/ s.pc = "idle" /\ DOMAIN s.ok = {}
                           \/ /\ s.pc = "saved" /\ s.ok = scans[a].ok /\ s.still = scans[a].still
                              /\ s.at = scans[a].at
  BY <1>2, EmptyScans DEF ScanRecords
<1> HIDE DEF s
<1>4. scans' \in [Scanners -> ScanRecords] /\ scans'[a] = s
      /\ \A b \in Scanners : b # a => scans'[b] = scans[b]
  BY <1>1, <1>3 DEF ScoreShape
<1>5. /\ Score(a) \in Scores /\ Score(a).still = scans[a].still /\ Score(a).at \in 0..hour
      /\ Tells(Score(a), host)
  BY <1>1, ScoreOf
<1>6. ScoreShape'
  <2>1. \A b \in Scanners : scans'[b].pc \in {"scored", "saved"} =>
          scans'[b].ok \in [Checks -> BOOLEAN] /\ scans'[b].at \in 0..hour
    BY <1>1, <1>3, <1>4 DEF ScoreShape
  <2>2. QED
    BY <1>1, <1>4, <1>5, <2>1 DEF ScoreShape
<1>7. ScoresTell'
  <2>1. Tells(s, host)
    BY <1>3 DEF ScoresTell, Tells
  <2>2. \A r \in stored' \union known' : Tells(r, host)
    BY <1>1, <1>5 DEF ScoresTell
  <2>3. QED
    BY <1>1, <1>4, <2>1, <2>2 DEF ScoresTell, Tells
<1>8. InOrder'
  <2> SUFFICES ASSUME ~muddled'
               PROVE  InOrder'
    BY DEF InOrder
  <2>1. ~muddled /\ stored' = {Score(a)}
    BY <1>1
  <2>2. \A b \in Scanners : scans'[b].pc # "idle" => b = a /\ scans'[a].pc = "saved"
    BY <1>1, <1>3, <1>4, <2>1 DEF InOrder
  <2>3. scans'[a].pc = "saved" => Score(a)' = Score(a) /\ scans'[a].still = scans[a].still
    BY <1>3, <1>4 DEF Score
  <2>4. \A k \in known : k.still \subseteq Score(a).still
    BY <1>1, <1>5, <2>1 DEF InOrder
  <2>5. \A k, r \in known : k = r
    BY <2>1 DEF InOrder
  <2>6. QED
    BY <1>1, <1>5, <2>1, <2>2, <2>3, <2>4, <2>5 DEF InOrder
<1>9. QED
  BY <1>6, <1>7, <1>8

LEMMA WriteScoreStep ==
  ASSUME ScoreInv, NEW t \in ScorePages, WriteScore(t)
  PROVE  ScoreInv'
<1> USE DEF ScoreInv
<1>1. /\ UNCHANGED <<host, hour, stored, muddled>> /\ scans[t].pc = "saved" /\ t \in Scanners
      /\ known' \in {known, {Score(t)}}
      /\ scans' = [scans EXCEPT ![t] = NoScan]
  BY DEF WriteScore, Scanners
<1>2. scans' \in [Scanners -> ScanRecords] /\ scans'[t] = NoScan
      /\ \A b \in Scanners : b # t => scans'[b] = scans[b]
  BY <1>1, EmptyScans DEF ScoreShape
<1>3. /\ Score(t) \in Scores /\ Score(t).still = scans[t].still /\ Score(t).at \in 0..hour
      /\ Tells(Score(t), host)
  BY <1>1, ScoreOf
<1>4. ScoreShape'
  BY <1>1, <1>2, <1>3, EmptyScans DEF ScoreShape
<1>5. ScoresTell'
  <2>1. Tells(NoScan, host)
    BY EmptyScans DEF Tells
  <2>2. \A r \in stored' \union known' : Tells(r, host)
    BY <1>1, <1>3 DEF ScoresTell
  <2>3. QED
    BY <1>1, <1>2, <2>1, <2>2 DEF ScoresTell, Tells
<1>6. InOrder'
  <2> SUFFICES ASSUME ~muddled
               PROVE  InOrder'
    BY <1>1 DEF InOrder
  <2>1. stored = {Score(t)}
    BY <1>1 DEF InOrder
  <2>2. \A b \in Scanners : scans'[b].pc = "idle"
    BY <1>1, <1>2, EmptyScans DEF InOrder
  <2>3. /\ \A k, r \in known : k = r
        /\ \A k \in known : k.still \subseteq Score(t).still
    BY <1>1, <2>1 DEF InOrder
  <2>4. QED
    BY <1>1, <2>1, <2>2, <2>3 DEF InOrder
<1>7. QED
  BY <1>4, <1>5, <1>6

\* A page is given the stored score.
LEMMA CachedStep ==
  ASSUME ScoreInv, known' = Cached, UNCHANGED <<host, hour, stored, scans, muddled>>
  PROVE  ScoreInv'
<1>1. known' \subseteq stored
  BY DEF Cached
<1>2. ScoreShape' /\ ScoresTell'
  BY <1>1 DEF ScoreInv, ScoreShape, ScoresTell, Tells
<1>3. InOrder'
  BY <1>1 DEF ScoreInv, InOrder, Score
<1>4. QED
  BY <1>2, <1>3 DEF ScoreInv

LEMMA ScanStep ==
  ASSUME ScoreInv, NEW t \in ScorePages, Scan(t)
  PROVE  ScoreInv'
<1> USE DEF ScoreInv
<1>1. /\ UNCHANGED <<host, hour, stored, known>> /\ t \in Scanners
      /\ scans' = [scans EXCEPT ![t] = NewScan]
      /\ muddled' = (muddled \/ \E a \in Scanners : scans[a].pc # "idle")
  BY DEF Scan, Scanners
<1>2. scans' \in [Scanners -> ScanRecords] /\ scans'[t] = NewScan
      /\ \A b \in Scanners : b # t => scans'[b] = scans[b]
  BY <1>1, EmptyScans DEF ScoreShape
<1>3. muddled' \in BOOLEAN
  BY <1>1
<1>4. ScoreShape'
  BY <1>1, <1>2, <1>3, EmptyScans DEF ScoreShape
<1>5. ScoresTell'
  BY <1>1, <1>2, EmptyScans DEF ScoresTell, Tells
<1>6. InOrder'
  <2> SUFFICES ASSUME ~muddled'
               PROVE  InOrder'
    BY DEF InOrder
  <2>1. ~muddled /\ \A a \in Scanners : scans[a].pc = "idle"
    BY <1>1
  <2>2. \A b \in Scanners : scans'[b].pc # "idle" => b = t
    BY <1>2, <2>1
  <2>3. scans'[t].pc = "running" /\ scans'[t].still = Checks
    BY <1>2, EmptyScans
  <2>4. \A s \in stored \union known : s.still \subseteq Checks
    BY DEF ScoreShape, Scores
  <2>5. /\ \A s, r \in stored : s = r
        /\ \A k, r \in known : k = r
        /\ \A k \in known, s \in stored : k.still \subseteq s.still
    BY <2>1 DEF InOrder
  <2>6. QED
    BY <1>1, <2>2, <2>3, <2>4, <2>5 DEF InOrder
<1>7. QED
  BY <1>4, <1>5, <1>6

\* A check that comes to pass or to fail is taken from all that tells of it.
LEMMA HostChangesStep ==
  ASSUME ScoreInv, NEW c \in Checks, HostChanges(c)
  PROVE  ScoreInv'
<1> USE DEF ScoreInv
<1>1. /\ host' = [host EXCEPT ![c] = ~@]
      /\ stored' = {Changed(s, c) : s \in stored}
      /\ known' = {Changed(s, c) : s \in known}
      /\ scans' = [a \in Scanners |-> Changed(scans[a], c)]
      /\ UNCHANGED <<hour, muddled>>
  BY DEF HostChanges
<1>2. \A s \in Scores : /\ Changed(s, c) \in Scores /\ Changed(s, c).still = s.still \ {c}
                        /\ Changed(s, c).ok = s.ok /\ Changed(s, c).at = s.at
  BY DEF Changed, Scores
<1>3. \A s \in ScanRecords : /\ Changed(s, c) \in ScanRecords /\ Changed(s, c).still = s.still \ {c}
                             /\ Changed(s, c).ok = s.ok /\ Changed(s, c).at = s.at
                             /\ Changed(s, c).pc = s.pc
  BY DEF Changed, ScanRecords
<1>4. /\ stored \subseteq Scores /\ known \subseteq Scores
      /\ \A a \in Scanners : scans[a] \in ScanRecords /\ scans'[a] = Changed(scans[a], c)
  BY <1>1 DEF ScoreShape
<1>5. host' \in [Checks -> BOOLEAN] /\ \A d \in Checks : d # c => host'[d] = host[d]
  BY <1>1 DEF ScoreShape
<1>6. ScoreShape'
  <2>1. stored' \subseteq Scores /\ known' \subseteq Scores
    BY <1>1, <1>2, <1>4
  <2>2. \A s \in stored' \union known' : s.at \in 0..hour
    BY <1>1, <1>2, <1>4 DEF ScoreShape
  <2>3. scans' \in [Scanners -> ScanRecords]
    BY <1>1, <1>3, <1>4
  <2>4. \A a \in Scanners : scans'[a].pc \in {"scored", "saved"} =>
          scans'[a].ok \in [Checks -> BOOLEAN] /\ scans'[a].at \in 0..hour
    BY <1>3, <1>4 DEF ScoreShape
  <2>5. QED
    BY <1>1, <1>5, <2>1, <2>2, <2>3, <2>4 DEF ScoreShape
<1>7. ScoresTell'
  <2>1. ASSUME NEW s, NEW r, Tells(s, host), s.still \subseteq Checks, r.ok = s.ok, r.still = s.still \ {c}
        PROVE  Tells(r, host')
    BY <1>5, <2>1 DEF Tells
  <2>2. \A a \in Scanners : Tells(scans'[a], host')
    BY <1>3, <1>4, <2>1 DEF ScoresTell, ScanRecords
  <2>3. \A s \in stored \union known : Tells(Changed(s, c), host')
    BY <1>2, <1>4, <2>1 DEF ScoresTell, Scores
  <2>4. QED
    BY <1>1, <2>2, <2>3 DEF ScoresTell, Tells
<1>8. InOrder'
  <2> SUFFICES ASSUME ~muddled
               PROVE  InOrder'
    BY <1>1 DEF InOrder
  <2>1. /\ \A a, b \in Scanners : scans'[a].pc # "idle" /\ scans'[b].pc # "idle" => a = b
        /\ \A s, r \in stored' : s = r
        /\ \A k, r \in known' : k = r
    BY <1>1, <1>3, <1>4 DEF InOrder
  <2>2. \A k \in known', s \in stored' : k.still \subseteq s.still
    BY <1>1, <1>2, <1>4 DEF InOrder
  <2>3. ASSUME NEW a \in Scanners, scans'[a].pc # "idle"
        PROVE  \A s \in stored' \union known' : s.still \subseteq scans'[a].still
    BY <1>1, <1>2, <1>3, <1>4, <2>3 DEF InOrder
  <2>4. ASSUME NEW a \in Scanners, scans'[a].pc = "saved"
        PROVE  stored' = {Score(a)'}
    <3>1. stored = {Score(a)} /\ scans[a].pc = "saved"
      BY <1>3, <1>4, <2>4 DEF InOrder
    <3>2. Score(a)' = [ok |-> scans[a].ok, still |-> scans[a].still \ {c}, at |-> scans[a].at]
      BY <1>3, <1>4 DEF Score
    <3>3. Score(a)' = Changed(Score(a), c)
      BY <3>2 DEF Score, Changed
    <3>4. QED
      BY <1>1, <3>1, <3>3
  <2>5. QED
    BY <2>1, <2>2, <2>3, <2>4 DEF InOrder
<1>9. QED
  BY <1>6, <1>7, <1>8

LEMMA RestartStep ==
  ASSUME ScoreInv, Restart
  PROVE  ScoreInv'
<1> USE DEF ScoreInv
<1>1. /\ UNCHANGED <<host, hour, stored, known, muddled>>
      /\ scans' = [a \in Scanners |-> IF a = "boot" THEN NewScan ELSE NoScan]
  BY DEF Restart
<1>2. \A a \in Scanners : /\ scans'[a] \in ScanRecords /\ DOMAIN scans'[a].ok = {}
                          /\ scans'[a].pc \in {"idle", "running"}
                          /\ scans'[a].pc # "idle" => a = "boot" /\ scans'[a].still = Checks
  BY <1>1, EmptyScans
<1>3. ScoreShape'
  BY <1>1, <1>2 DEF ScoreShape
<1>4. ScoresTell'
  BY <1>1, <1>2 DEF ScoresTell, Tells
<1>5. InOrder'
  <2>1. \A s \in stored \union known : s.still \subseteq Checks
    BY DEF ScoreShape, Scores
  <2>2. QED
    BY <1>1, <1>2, <2>1 DEF InOrder
<1>6. QED
  BY <1>3, <1>4, <1>5

LEMMA ScoreStep == ScoreInv /\ [ScoreNext]_scoreVars => ScoreInv'
<1> SUFFICES ASSUME ScoreInv, [ScoreNext]_scoreVars
             PROVE  ScoreInv'
  OBVIOUS
<1>1. CASE UNCHANGED scoreVars
  BY <1>1 DEF scoreVars, ScoreInv, ScoreShape, ScoresTell, Tells, InOrder, Score
<1>2. CASE HourPasses
  <2>1. hour \in Nat /\ \A n \in 0..hour : n \in 0..(hour + 1)
    BY DEF ScoreInv, ScoreShape
  <2>2. hour' = hour + 1 /\ UNCHANGED <<host, stored, scans, known, muddled>>
    BY <1>2 DEF HourPasses
  <2>3. ScoreShape'
    BY <2>1, <2>2 DEF ScoreInv, ScoreShape
  <2>4. QED
    BY <2>2, <2>3 DEF ScoreInv, ScoresTell, Tells, InOrder, Score
<1>3. ASSUME NEW t \in ScorePages, Get(t) \/ Refresh(t)
      PROVE  ScoreInv'
  <2>1. Scan(t) \/ (known' = Cached /\ UNCHANGED <<host, hour, stored, scans, muddled>>)
    BY <1>3 DEF Get, Refresh
  <2>2. QED
    BY <2>1, ScanStep, CachedStep
<1>4. CASE ScoreNext
  BY <1>2, <1>3, <1>4, RunCheckStep, RunAllReturnsStep, SaveCacheStep, WriteScoreStep,
     HostChangesStep, RestartStep DEF ScoreNext
<1>5. QED
  BY <1>1, <1>4

LEMMA AlwaysScoreInv == ScoreSpec => []ScoreInv
BY ScoreInitial, ScoreStep, PTL DEF ScoreSpec

\* Every score, stored or shown, has an answer for every check and a date that has come.
THEOREM ScoreTypeCorrect == ScoreSpec => []ScoreTypeOK
<1>1. ScoreInv => ScoreTypeOK
  BY DEF ScoreInv, ScoreShape, ScoreTypeOK, ScanRecords, Scores
<1>2. QED
  BY <1>1, AlwaysScoreInv, PTL

\* A fix that a page was told of is not unseen by an older result, for any number of
\* checks, pages and restarts.
THEOREM FixesAlwaysStaySeen == ScoreSpec => FixesStaySeen
<1>1. ScoreInv /\ [ScoreNext]_scoreVars =>
        [host' = host /\ ~muddled =>
           \A s \in known', k \in known : \A c \in k.still : s.ok[c] = k.ok[c]]_scoreVars
  <2> SUFFICES ASSUME ScoreInv, ScoreNext, host' = host, ~muddled,
                      NEW s \in known', NEW k \in known, NEW c \in k.still
               PROVE  s.ok[c] = k.ok[c]
    OBVIOUS
  <2>1. c \in Checks /\ DOMAIN k.ok = Checks
    BY DEF ScoreInv, ScoreShape, Scores
  <2>2. k.ok[c] = host[c]
    BY <2>1 DEF ScoreInv, ScoresTell, Tells
  <2>3. CASE s \in known
    BY <2>3 DEF ScoreInv, InOrder
  <2>4. CASE s \in stored
    <3>1. c \in s.still
      BY <2>4 DEF ScoreInv, InOrder
    <3>2. DOMAIN s.ok = Checks
      BY <2>4 DEF ScoreInv, ScoreShape, Scores
    <3>3. QED
      BY <2>1, <2>2, <2>4, <3>1, <3>2 DEF ScoreInv, ScoresTell, Tells
  <2>5. known' = known \/ known' = Cached \/ \E t \in ScorePages : WriteScore(t) /\ known' = {Score(t)}
    <3>1. CASE \E d \in Checks : HostChanges(d)
      <4>1. PICK d \in Checks : HostChanges(d)
        BY <3>1
      <4>2. host'[d] = ~host[d] /\ host[d] \in BOOLEAN
        BY <4>1 DEF HostChanges, ScoreInv, ScoreShape
      <4>3. QED
        BY <4>2
    <3>2. QED
      BY <3>1 DEF ScoreNext, RunCheck, RunAllReturns, SaveCache, WriteScore, Get, Refresh, Scan,
         Restart, HourPasses
  <2>6. ASSUME NEW t \in ScorePages, WriteScore(t)
        PROVE  Score(t) \in stored
    BY <2>6 DEF WriteScore, Scanners, ScoreInv, InOrder
  <2>7. QED
    BY <2>3, <2>4, <2>5, <2>6 DEF Cached
<1>2. QED
  BY <1>1, AlwaysScoreInv, PTL DEF ScoreSpec, FixesStaySeen

-----------------------------------------------------------------------------
(* Network interfaces.  The counter of an interface is the sample that its *)
(* stream holds, and what came since, less what it was set back, so that   *)
(* the next rate is that difference modulo Word.                           *)

Numbers(w) == 0..(w - 1)
Nics == [there : BOOLEAN, up : BOOLEAN, addresses : SUBSET Addresses, mtu : Nat, bytes : Nat,
         wrap : Wraps]
OpenStreams == [open : {TRUE}, prev : Numbers(Word), age : Nat, tick : Nat]
CameBack == [came : 0..MaxCame, back : Nat]

NetShape ==
  /\ nic \in [Interfaces -> Nics]
  /\ DOMAIN nics \subseteq Interfaces
  /\ stream \in [Interfaces -> {Closed} \union OpenStreams]
  /\ graph \in [Interfaces -> [bytes : Numbers(Word), secs : Nat]]
  /\ since \in [Interfaces -> CameBack] /\ last \in [Interfaces -> CameBack]
  /\ life \in [Interfaces -> [secs : Nat, told : Nat]]

CountersFit ==
  \A n \in Interfaces : nic[n].bytes < nic[n].wrap /\ (~nic[n].there => nic[n].bytes = 0)

CameSince ==
  \A n \in Interfaces : stream[n].open =>
    nic[n].bytes = stream[n].prev + since[n].came - since[n].back

TicksInTime == \A n \in Interfaces : stream[n].open => stream[n].tick <= stream[n].age

\* What is said of the last rate, and of all of a stream.
LastRate(n) ==
  graph[n] # NoRate =>
    /\ graph[n].secs >= 1
    /\ graph[n].bytes = IF last[n].back \in {0, Word} THEN last[n].came
                        ELSE IF last[n].came - last[n].back < 0
                             THEN Word + (last[n].came - last[n].back)
                             ELSE last[n].came - last[n].back
SecondsTold(n) == stream[n].open => life[n].told + stream[n].age = life[n].secs

NetInv ==
  /\ NetShape /\ CountersFit /\ CameSince /\ TicksInTime
  /\ \A n \in Interfaces : LastRate(n)
  /\ \A n \in Interfaces : SecondsTold(n)

LEMMA RatesAreRight ==
  (\A n \in Interfaces : LastRate(n)) /\ (\A n \in Interfaces : SecondsTold(n)) => RateIsWhatCame
BY DEF LastRate, SecondsTold, RateIsWhatCame

LEMMA Bounds ==
  /\ Word \in Nat \ {0} /\ \A w \in Wraps : w \in Nat \ {0} /\ w <= Word /\ MaxBytes < w
  /\ MaxBytes \in Nat /\ MaxCame \in Nat /\ MaxCame < Word /\ MTUs \subseteq Nat
BY NetworkAssumption

\* A difference of two numbers below Word, when the one is the other and what came less
\* what was taken.
LEMMA RateOfADifference ==
  ASSUME NEW curr \in Numbers(Word), NEW prev \in Numbers(Word), NEW came \in 0..MaxCame,
         NEW back \in Nat, curr = prev + came - back
  PROVE  /\ Rate(curr, prev) \in Numbers(Word)
         /\ Rate(curr, prev) = IF back \in {0, Word} THEN came
                               ELSE IF came - back < 0 THEN Word + (came - back) ELSE came - back
<1> DEFINE went == curr - prev
<1>1. /\ Word \in Nat \ {0} /\ went \in Int /\ -Word <= went /\ went < Word /\ went = came - back
      /\ came \in Int /\ 0 <= came /\ came < Word /\ back \in Int
  BY Bounds DEF Numbers
<1>2. Rate(curr, prev) = IF went % Word < 0 THEN 0 ELSE went % Word
  BY DEF Rate
<1> HIDE DEF went
<1>3. CASE went >= 0
  <2>1. went % Word = went
    BY <1>1, <1>3, ModSame
  <2>2. back # Word /\ (back = 0 => came = went)
    BY <1>1, <1>3
  <2>3. QED
    BY <1>1, <1>2, <1>3, <2>1, <2>2 DEF Numbers
<1>4. CASE went < 0
  <2>1. went % Word = went + Word
    BY <1>1, <1>4, ModBelow
  <2>2. back # 0 /\ (back = Word => came = went + Word)
    BY <1>1, <1>4
  <2>3. QED
    BY <1>1, <1>2, <1>4, <2>1, <2>2 DEF Numbers
<1>5. QED
  BY <1>1, <1>3, <1>4

LEMMA StreamKinds ==
  ASSUME NetShape, NEW n \in Interfaces
  PROVE  /\ stream[n] = Closed \/ stream[n] \in OpenStreams
         /\ ~Closed.open /\ (stream[n].open => stream[n] \in OpenStreams)
<1>1. stream[n] \in {Closed} \union OpenStreams
  BY DEF NetShape
<1>2. Closed.open = FALSE
  BY DEF Closed
<1>3. QED
  BY <1>1, <1>2

LEMMA NoHistory == Nothing \in CameBack /\ NoRate \in [bytes : Numbers(Word), secs : Nat]
BY Bounds DEF Nothing, NoRate, CameBack, Numbers

LEMMA NetInitial == NetInit => NetInv
<1> SUFFICES ASSUME NetInit
             PROVE  NetInv
  OBVIOUS
<1>1. \A w \in Wraps : Fresh(TRUE, w) \in Nics /\ Fresh(TRUE, w).bytes = 0
  BY DEF Fresh, Nics
<1>2. nic \in [Interfaces -> {Fresh(TRUE, w) : w \in Wraps}]
  BY DEF NetInit
<1>3. \A n \in Interfaces : nic[n] \in Nics /\ nic[n].bytes = 0
  BY <1>1, <1>2
<1>4. nic \in [Interfaces -> Nics]
  BY <1>2, <1>3
<1>5. NetShape
  BY <1>4, NoHistory DEF NetInit, NetShape, NicRows
<1>6. CountersFit
  BY <1>3, Bounds DEF CountersFit, Nics
<1>7. QED
  BY <1>5, <1>6 DEF NetInit, NetInv, CameSince, TicksInTime, LastRate, SecondsTold, Closed

\* Nothing but interfaces changes, and none of their counters.
LEMMA CounterStays ==
  ASSUME NetInv, NEW n \in Interfaces, NEW s \in Nics,
         s.there = nic[n].there, s.wrap = nic[n].wrap, s.bytes = nic[n].bytes,
         nic' = [nic EXCEPT ![n] = s], UNCHANGED <<nics, stream, graph, since, last, life>>
  PROVE  NetInv'
<1>1. NetShape'
  BY DEF NetInv, NetShape
<1>2. \A m \in Interfaces : /\ nic'[m].there = nic[m].there /\ nic'[m].wrap = nic[m].wrap
                            /\ nic'[m].bytes = nic[m].bytes
  BY DEF NetInv, NetShape
<1>3. CountersFit' /\ CameSince' /\ TicksInTime'
  BY <1>2 DEF NetInv, CountersFit, CameSince, TicksInTime
<1>4. QED
  BY <1>1, <1>3 DEF NetInv, LastRate, SecondsTold

LEMMA IpCommandStep ==
  ASSUME NetInv, NEW n \in Interfaces,
         \/ \E up \in BOOLEAN : SetState(n, up)
         \/ \E mtu \in MTUs : SetMTU(n, mtu)
         \/ \E a \in Addresses : AddAddress(n, a) \/ DelAddress(n, a)
  PROVE  NetInv'
<1>1. nic[n] \in Nics
  BY DEF NetInv, NetShape
<1>2. ASSUME NEW s \in Nics, s.there = nic[n].there, s.wrap = nic[n].wrap, s.bytes = nic[n].bytes, IpCommand(n, s)
      PROVE  NetInv'
  BY <1>2, CounterStays DEF IpCommand
<1>3. ASSUME NEW up \in BOOLEAN, SetState(n, up)
      PROVE  NetInv'
  <2>1. [nic[n] EXCEPT !.up = up] \in Nics
    BY <1>1 DEF Nics
  <2>2. QED
    BY <1>1, <1>2, <1>3, <2>1 DEF SetState, Nics
<1>4. ASSUME NEW mtu \in MTUs, SetMTU(n, mtu)
      PROVE  NetInv'
  <2>1. [nic[n] EXCEPT !.mtu = mtu] \in Nics
    BY <1>1, Bounds DEF Nics
  <2>2. QED
    BY <1>1, <1>2, <1>4, <2>1 DEF SetMTU, Nics
<1>5. ASSUME NEW a \in Addresses, AddAddress(n, a)
      PROVE  NetInv'
  <2>1. [nic[n] EXCEPT !.addresses = @ \union {a}] \in Nics
    BY <1>1 DEF Nics
  <2>2. QED
    BY <1>1, <1>2, <1>5, <2>1 DEF AddAddress, Nics
<1>6. ASSUME NEW a \in Addresses, DelAddress(n, a)
      PROVE  NetInv'
  <2>1. [nic[n] EXCEPT !.addresses = @ \ {a}] \in Nics
    BY <1>1 DEF Nics
  <2>2. QED
    BY <1>1, <1>2, <1>6, <2>1 DEF DelAddress, Nics
<1>7. QED
  BY <1>3, <1>4, <1>5, <1>6

LEMMA LoadNicsStep == NetInv /\ LoadNics => NetInv'
BY DEF NetInv, NetShape, LoadNics, CountersFit, CameSince, TicksInTime, LastRate, SecondsTold, NicRows

\* A counter goes on, or back: the histories say how far.
LEMMA CountsStep ==
  ASSUME NetInv, NEW n \in Interfaces, NEW next \in Nics, NEW bytes \in Nat, NEW back \in Nat,
         Counts(n, next, bytes, back), next.bytes < next.wrap, ~next.there => next.bytes = 0,
         next.bytes = nic[n].bytes + bytes - back, since[n].came + bytes <= MaxCame
  PROVE  NetInv'
<1> DEFINE more == [came |-> since[n].came + bytes, back |-> since[n].back + back]
           s == IF stream[n].open THEN more ELSE since[n]
<1>1. /\ nic' = [nic EXCEPT ![n] = next] /\ since' = [since EXCEPT ![n] = s]
      /\ UNCHANGED <<nics, stream, graph, last, life>>
  BY DEF Counts
<1>2. since[n] \in CameBack /\ nic[n] \in Nics
  BY DEF NetInv, NetShape
<1>3. s \in CameBack
  BY <1>2, Bounds DEF CameBack
<1>4. stream[n].open => s.came = since[n].came + bytes /\ s.back = since[n].back + back
  OBVIOUS
<1> HIDE DEF s
<1>5. NetShape'
  BY <1>1, <1>3 DEF NetInv, NetShape
<1>6. CountersFit'
  BY <1>1 DEF NetInv, NetShape, CountersFit
<1>7. CameSince'
  <2> SUFFICES ASSUME NEW m \in Interfaces, stream[m].open
               PROVE  nic'[m].bytes = stream[m].prev + since'[m].came - since'[m].back
    BY <1>1 DEF CameSince
  <2>1. CASE m # n
    BY <1>1, <2>1 DEF NetInv, NetShape, CameSince
  <2>2. CASE m = n
    <3>1. nic'[m] = next /\ since'[m] = s
      BY <1>1, <2>2 DEF NetInv, NetShape
    <3>2. nic[n].bytes = stream[n].prev + since[n].came - since[n].back
      BY <2>2 DEF NetInv, CameSince
    <3>3. stream[n].prev \in Int /\ since[n].came \in Int /\ since[n].back \in Int
      <4>1. stream[n] \in OpenStreams
        BY <2>2, StreamKinds DEF NetInv
      <4>2. stream[n].prev \in Numbers(Word)
        BY <4>1 DEF OpenStreams
      <4>3. stream[n].prev \in Int
        BY <4>2, Bounds DEF Numbers
      <4>4. since[n].came \in Int /\ since[n].back \in Int
        BY <1>2, Bounds DEF CameBack
      <4>5. QED
        BY <4>3, <4>4
    <3>4. QED
      BY <1>4, <2>2, <3>1, <3>2, <3>3
  <2>3. QED
    BY <2>1, <2>2
<1>8. QED
  BY <1>1, <1>5, <1>6, <1>7 DEF NetInv, TicksInTime, LastRate, SecondsTold

LEMMA ReceiveStep ==
  ASSUME NetInv, NEW n \in Interfaces, NEW bytes \in 1..MaxBytes, Receive(n, bytes)
  PROVE  NetInv'
<1> DEFINE sum == nic[n].bytes + bytes
           back == IF sum < nic[n].wrap THEN 0 ELSE nic[n].wrap
           next == [nic[n] EXCEPT !.bytes = sum - back]
<1>1. Counts(n, next, bytes, back) /\ since[n].came + bytes <= MaxCame
  BY DEF Receive
<1>2. /\ nic[n] \in Nics /\ nic[n].bytes \in Nat /\ nic[n].wrap \in Wraps
      /\ nic[n].bytes < nic[n].wrap
  BY DEF NetInv, NetShape, CountersFit, Nics
<1>3. nic[n].wrap \in Nat /\ bytes \in Nat /\ bytes < nic[n].wrap
  BY <1>2, Bounds
<1>4. back \in Nat /\ sum - back \in Nat /\ sum - back < nic[n].wrap
  BY <1>2, <1>3
<1> HIDE DEF back, sum
<1>5. next \in Nics /\ next.bytes = sum - back /\ next.wrap = nic[n].wrap /\ next.there
  BY <1>2, <1>4 DEF Receive, Nics
<1> HIDE DEF next
<1>6. next.bytes < next.wrap /\ next.bytes = nic[n].bytes + bytes - back /\ next.there
  <2>1. sum = nic[n].bytes + bytes
    BY DEF sum
  <2>2. next.bytes < next.wrap
    BY <1>4, <1>5
  <2>3. next.bytes = nic[n].bytes + bytes - back
    BY <1>2, <1>3, <1>4, <1>5, <2>1
  <2>4. QED
    BY <1>5, <2>2, <2>3
<1>7. QED
  BY <1>1, <1>3, <1>4, <1>5, <1>6, CountsStep

LEMMA RemakeStep ==
  ASSUME NetInv, NEW n \in Interfaces, Unplug(n) \/ \E w \in Wraps : Remake(n, w)
  PROVE  NetInv'
<1>1. /\ nic[n] \in Nics /\ nic[n].bytes \in Nat /\ nic[n].wrap \in Wraps
      /\ since[n].came \in Nat /\ since[n].came <= MaxCame
  BY Bounds DEF NetInv, NetShape, Nics, CameBack
<1>2. ASSUME NEW w \in Wraps
      PROVE  Fresh(FALSE, w) \in Nics /\ Fresh(FALSE, w).bytes = 0 /\ Fresh(FALSE, w).wrap = w /\ 0 < w
  BY <1>2, Bounds DEF Fresh, Nics
<1>3. CASE Unplug(n)
  <2>1. Removed(n) \in Nics /\ Removed(n).bytes = 0 /\ Removed(n).wrap = nic[n].wrap
    BY <1>1, <1>2 DEF Removed, Nics
  <2>2. Counts(n, Removed(n), 0, nic[n].bytes)
    BY <1>3 DEF Unplug
  <2>3. 0 < nic[n].wrap /\ 0 = nic[n].bytes + 0 - nic[n].bytes /\ since[n].came + 0 <= MaxCame
    BY <1>1, <1>2, Bounds
  <2>4. QED
    BY <1>1, <2>1, <2>2, <2>3, CountsStep
<1>4. ASSUME NEW w \in Wraps, Remake(n, w)
      PROVE  NetInv'
  <2>1. Counts(n, Fresh(FALSE, w), 0, 0)
    BY <1>4 DEF Remake
  <2>2. nic[n].bytes = 0
    BY <1>4 DEF Remake, NetInv, CountersFit
  <2>3. 0 = nic[n].bytes + 0 - 0 /\ since[n].came + 0 <= MaxCame
    BY <1>1, <2>2, Bounds
  <2>4. QED
    BY <1>2, <2>1, <2>3, CountsStep
<1>5. QED
  BY <1>3, <1>4

\* A stream ends.
LEMMA ClosedStep ==
  ASSUME NetInv, NEW n \in Interfaces, stream' = [stream EXCEPT ![n] = Closed],
         UNCHANGED <<nic, nics, graph, since, last, life>>
  PROVE  NetInv'
<1>1. NetShape'
  BY DEF NetInv, NetShape
<1>2. \A m \in Interfaces : stream'[m].open => stream[m].open /\ stream'[m] = stream[m]
  BY DEF NetInv, NetShape, Closed
<1>3. CountersFit' /\ CameSince' /\ TicksInTime'
  BY <1>2 DEF NetInv, CountersFit, CameSince, TicksInTime
<1>4. QED
  BY <1>1, <1>2, <1>3 DEF NetInv, LastRate, SecondsTold

LEMMA StreamStep ==
  ASSUME NetInv, NEW n \in Interfaces, StartStream(n) \/ StopStream(n)
  PROVE  NetInv'
<1>1. CASE StartStream(n)
  <2>1. /\ stream' = [stream EXCEPT ![n] = Opened(n)] /\ graph' = [graph EXCEPT ![n] = NoRate]
        /\ since' = [since EXCEPT ![n] = Nothing] /\ last' = [last EXCEPT ![n] = Nothing]
        /\ life' = [life EXCEPT ![n] = [secs |-> 0, told |-> 0]] /\ UNCHANGED <<nic, nics>>
    BY <1>1 DEF StartStream
  <2>2. /\ nic[n].bytes \in Numbers(Word) /\ Opened(n) \in OpenStreams /\ Opened(n).prev = nic[n].bytes
        /\ Opened(n).age = 0 /\ Opened(n).tick = 0
    <3>1. nic[n].bytes \in Nat /\ nic[n].wrap \in Wraps /\ nic[n].bytes < nic[n].wrap
      BY DEF NetInv, NetShape, CountersFit, Nics
    <3>2. nic[n].bytes \in Numbers(Word)
      BY <3>1, Bounds DEF Numbers
    <3>3. QED
      BY <3>2 DEF Opened, OpenStreams
  <2>3. NetShape'
    BY <2>1, <2>2, NoHistory DEF NetInv, NetShape
  <2>4. CameSince'
    <3> SUFFICES ASSUME NEW m \in Interfaces, stream'[m].open
                 PROVE  nic[m].bytes = stream'[m].prev + since'[m].came - since'[m].back
      BY <2>1 DEF CameSince
    <3>1. CASE m = n
      BY <2>1, <2>2, <3>1 DEF NetInv, NetShape, Nothing, Numbers
    <3>2. CASE m # n
      BY <2>1, <3>2 DEF NetInv, NetShape, CameSince
    <3>3. QED
      BY <3>1, <3>2
  <2>5. TicksInTime' /\ CountersFit'
    BY <2>1, <2>2 DEF NetInv, NetShape, TicksInTime, CountersFit
  <2>6. \A m \in Interfaces : LastRate(m)' /\ SecondsTold(m)'
    BY <2>1, <2>2 DEF NetInv, NetShape, LastRate, SecondsTold
  <2>7. QED
    BY <2>1, <2>3, <2>4, <2>5, <2>6 DEF NetInv
<1>2. CASE StopStream(n)
  BY <1>2, ClosedStep DEF StopStream
<1>3. QED
  BY <1>1, <1>2

LEMMA SecondStep ==
  ASSUME NetInv, NEW n \in Interfaces, Second(n)
  PROVE  NetInv'
<1> DEFINE s == [open |-> TRUE, prev |-> stream[n].prev, age |-> stream[n].age + 1,
                 tick |-> IF stream[n].tick = 0 THEN stream[n].age + 1 ELSE stream[n].tick]
           l == [life[n] EXCEPT !.secs = @ + 1]
<1>1. /\ stream[n].open /\ stream[n] \in OpenStreams /\ life[n] \in [secs : Nat, told : Nat]
  BY StreamKinds DEF Second, NetInv, NetShape
<1>2. /\ stream' = [stream EXCEPT ![n] = s] /\ life' = [life EXCEPT ![n] = l]
      /\ UNCHANGED <<nic, nics, graph, since, last>>
  BY DEF Second
<1>3. /\ s \in OpenStreams /\ s.prev = stream[n].prev /\ s.age = stream[n].age + 1
      /\ s.tick \in {stream[n].tick, stream[n].age + 1}
      /\ l \in [secs : Nat, told : Nat] /\ l.secs = life[n].secs + 1 /\ l.told = life[n].told
  <2>1. l = [secs |-> life[n].secs + 1, told |-> life[n].told]
    BY <1>1
  <2>2. /\ stream[n].prev \in Numbers(Word)
        /\ stream[n].age \in Nat /\ stream[n].tick \in Nat
    BY <1>1 DEF OpenStreams
  <2>3. s \in OpenStreams /\ s.prev = stream[n].prev /\ s.age = stream[n].age + 1
    BY <2>2 DEF OpenStreams
  <2>4. s.tick \in {stream[n].tick, stream[n].age + 1}
    OBVIOUS
  <2> HIDE DEF s, l
  <2>5. QED
    BY <1>1, <2>1, <2>3, <2>4
<1> HIDE DEF s, l
<1>4. /\ stream'[n] = s /\ life'[n] = l
      /\ \A m \in Interfaces : m # n => stream'[m] = stream[m] /\ life'[m] = life[m]
  BY <1>2 DEF NetInv, NetShape
<1>5. NetShape'
  BY <1>2, <1>3 DEF NetInv, NetShape
<1>6. CameSince' /\ CountersFit'
  BY <1>1, <1>2, <1>3, <1>4 DEF NetInv, CameSince, CountersFit
<1>7. TicksInTime'
  <2>1. stream[n].tick <= stream[n].age /\ stream[n].tick \in Nat /\ stream[n].age \in Nat
    BY <1>1 DEF NetInv, TicksInTime, OpenStreams
  <2>2. s.tick <= s.age
    BY <1>3, <2>1
  <2>3. QED
    BY <1>4, <2>2 DEF NetInv, TicksInTime
<1>8. \A m \in Interfaces : SecondsTold(m)'
  <2>1. /\ life[n].told + stream[n].age = life[n].secs
        /\ life[n].told \in Nat /\ life[n].secs \in Nat /\ stream[n].age \in Nat
    BY <1>1 DEF NetInv, SecondsTold, OpenStreams
  <2>2. l.told + s.age = l.secs
    BY <1>3, <2>1
  <2>3. QED
    BY <1>4, <2>2 DEF NetInv, SecondsTold
<1>9. \A m \in Interfaces : LastRate(m)'
  BY <1>2 DEF NetInv, LastRate
<1>10. QED
  BY <1>5, <1>6, <1>7, <1>8, <1>9 DEF NetInv

LEMMA TickStep ==
  ASSUME NetInv, NEW n \in Interfaces, Tick(n)
  PROVE  NetInv'
<1>1. CASE ~nic[n].there
  BY <1>1, ClosedStep DEF Tick
<1>2. CASE nic[n].there
  <2> DEFINE e == Elapsed(stream[n].tick)
             g == [bytes |-> Rate(nic[n].bytes, stream[n].prev), secs |-> e]
             s == [open |-> TRUE, prev |-> nic[n].bytes, age |-> stream[n].age - stream[n].tick,
                   tick |-> 0]
             l == [life[n] EXCEPT !.told = @ + e]
  <2>1. /\ stream[n].open /\ stream[n].tick # 0
        /\ graph' = [graph EXCEPT ![n] = g] /\ last' = [last EXCEPT ![n] = since[n]]
        /\ stream' = [stream EXCEPT ![n] = s] /\ since' = [since EXCEPT ![n] = Nothing]
        /\ life' = [life EXCEPT ![n] = l] /\ UNCHANGED <<nic, nics>>
    BY <1>2 DEF Tick
  <2>2. /\ stream[n] \in OpenStreams /\ nic[n] \in Nics /\ since[n] \in CameBack
        /\ life[n] \in [secs : Nat, told : Nat]
    BY <2>1, StreamKinds DEF NetInv, NetShape
  <2>3. nic[n].bytes \in Numbers(Word)
    BY <2>2, Bounds DEF NetInv, CountersFit, Nics, Numbers
  <2>4. /\ e = stream[n].tick /\ e \in Nat /\ e >= 1
        /\ stream[n].age - stream[n].tick \in Nat
    <3>1. /\ stream[n].tick \in Nat /\ stream[n].tick # 0 /\ stream[n].age \in Nat
          /\ stream[n].tick <= stream[n].age
      BY <2>1, <2>2 DEF OpenStreams, NetInv, TicksInTime
    <3>2. e = stream[n].tick
      BY <3>1 DEF Elapsed
    <3> HIDE DEF e
    <3>3. QED
      BY <3>1, <3>2
  <2>5. /\ Rate(nic[n].bytes, stream[n].prev) \in Numbers(Word)
        /\ Rate(nic[n].bytes, stream[n].prev)
             = IF since[n].back \in {0, Word} THEN since[n].came
               ELSE IF since[n].came - since[n].back < 0
                    THEN Word + (since[n].came - since[n].back)
                    ELSE since[n].came - since[n].back
    <3>1. nic[n].bytes = stream[n].prev + since[n].came - since[n].back
      BY <2>1 DEF NetInv, CameSince
    <3>2. QED
      BY <2>2, <2>3, <3>1, RateOfADifference DEF OpenStreams, CameBack
  <2>6. /\ s \in OpenStreams /\ g \in [bytes : Numbers(Word), secs : Nat]
        /\ l \in [secs : Nat, told : Nat] /\ l.told = life[n].told + e /\ l.secs = life[n].secs
        /\ s.prev = nic[n].bytes /\ s.age = stream[n].age - stream[n].tick /\ s.tick = 0
        /\ g.secs = e /\ g.bytes = Rate(nic[n].bytes, stream[n].prev)
    BY <2>2, <2>3, <2>4, <2>5 DEF OpenStreams
  <2> HIDE DEF e, g, s, l
  <2>7. /\ stream'[n] = s /\ graph'[n] = g /\ last'[n] = since[n] /\ since'[n] = Nothing
        /\ life'[n] = l
        /\ \A m \in Interfaces : m # n => /\ stream'[m] = stream[m] /\ graph'[m] = graph[m]
                                          /\ last'[m] = last[m] /\ since'[m] = since[m]
                                          /\ life'[m] = life[m]
    BY <2>1 DEF NetInv, NetShape
  <2>8. NetShape'
    BY <2>1, <2>2, <2>6, NoHistory DEF NetInv, NetShape
  <2>9. CameSince' /\ CountersFit'
    <3>1. nic[n].bytes = s.prev + Nothing.came - Nothing.back
      BY <2>3, <2>6 DEF Nothing, Numbers
    <3>2. QED
      BY <2>1, <2>7, <3>1 DEF NetInv, CameSince, CountersFit
  <2>10. TicksInTime'
    <3>1. s.tick <= s.age
      BY <2>4, <2>6
    <3>2. QED
      BY <2>7, <3>1 DEF NetInv, TicksInTime
  <2>11. \A m \in Interfaces : LastRate(m)'
    <3>1. LastRate(n)'
      BY <2>4, <2>5, <2>6, <2>7 DEF LastRate
    <3>2. QED
      BY <2>7, <3>1 DEF NetInv, LastRate
  <2>12. \A m \in Interfaces : SecondsTold(m)'
    <3>1. /\ life[n].told + stream[n].age = life[n].secs
          /\ life[n].told \in Nat /\ life[n].secs \in Nat
          /\ stream[n].age \in Nat /\ stream[n].tick \in Nat
      BY <2>1, <2>2 DEF NetInv, SecondsTold, OpenStreams
    <3>2. l.told + s.age = l.secs
      BY <2>4, <2>6, <3>1
    <3>3. QED
      BY <2>7, <3>2 DEF NetInv, SecondsTold
  <2>13. QED
    BY <2>1, <2>8, <2>9, <2>10, <2>11, <2>12 DEF NetInv
<1>3. QED
  BY <1>1, <1>2

LEMMA NetStep == NetInv /\ [NetNext]_netVars => NetInv'
<1> SUFFICES ASSUME NetInv, [NetNext]_netVars
             PROVE  NetInv'
  OBVIOUS
<1>1. CASE UNCHANGED netVars
  BY <1>1 DEF NetInv, NetShape, CountersFit, CameSince, TicksInTime, LastRate, SecondsTold, netVars
<1>2. CASE NetNext
  BY <1>2, IpCommandStep, LoadNicsStep, ReceiveStep, RemakeStep, StreamStep, SecondStep, TickStep
     DEF NetNext
<1>3. QED
  BY <1>1, <1>2

LEMMA NetInvariant == NetSpec => []NetInv
BY NetInitial, NetStep, PTL DEF NetSpec

\* For every set of widths that counters may have, at most that of the server's numbers,
\* and whatever is done to the interfaces: no counter leaves its width, and no tick is
\* later than the time.
THEOREM NetTypeCorrect == NetSpec => []NetTypeOK
<1>1. NetInv => NetTypeOK
  <2> SUFFICES ASSUME NetInv, NEW n \in Interfaces
               PROVE  /\ nic[n].wrap \in Wraps /\ nic[n].bytes \in 0..(nic[n].wrap - 1)
                      /\ graph[n].bytes \in 0..(Word - 1) /\ since[n].came \in 0..MaxCame
                      /\ stream[n].open => stream[n].tick \in 0..stream[n].age
    BY DEF NetInv, NetShape, NetTypeOK
  <2>1. nic[n] \in Nics /\ nic[n].bytes < nic[n].wrap
    BY DEF NetInv, NetShape, CountersFit
  <2>2. nic[n].wrap \in Wraps /\ nic[n].wrap \in Nat /\ nic[n].bytes \in Nat
    BY <2>1, Bounds DEF Nics
  <2>3. graph[n].bytes \in 0..(Word - 1) /\ since[n].came \in 0..MaxCame
    BY DEF NetInv, NetShape, Numbers, CameBack
  <2>4. stream[n].open => stream[n].tick \in 0..stream[n].age
    <3> SUFFICES ASSUME stream[n].open
                 PROVE  stream[n].tick \in 0..stream[n].age
      OBVIOUS
    <3>1. stream[n] \in OpenStreams
      BY StreamKinds DEF NetInv
    <3>2. stream[n].tick \in Nat /\ stream[n].age \in Nat /\ stream[n].tick <= stream[n].age
      BY <3>1 DEF NetInv, TicksInTime, OpenStreams
    <3>3. QED
      BY <3>2
  <2>5. QED
    BY <2>1, <2>2, <2>3, <2>4
<1>2. QED
  BY <1>1, NetInvariant, PTL

\* For numbers of every width and counters that are as wide or narrower: the bytes of a
\* rate are what came since the sample before it, less what the counter was set back,
\* modulo the width of the numbers and not that of the counter; so they are what came,
\* exactly, when the counter was not set back or came round at the numbers' width. The
\* seconds of the rates are those of the stream, however late its ticks are handled.
THEOREM RateAlwaysWhatCame == NetSpec => []RateIsWhatCame
<1>1. NetInv => RateIsWhatCame
  BY RatesAreRight DEF NetInv
<1>2. QED
  BY <1>1, NetInvariant, PTL

-----------------------------------------------------------------------------
(* The models of the assistant.  Only a pull under way names a model that  *)
(* will be there.                                                          *)

ModelOrNone == Models \union {NoModel}

AiShape ==
  /\ local \subseteq Models /\ chosen \in ModelOrNone
  /\ offered \in [AiPages -> SUBSET Models] /\ field \in [AiPages -> ModelOrNone]
  /\ pull \in [AiPages -> [pc : {"idle", "pulling", "look", "select", "shown"}, model : ModelOrNone]]
  /\ \A t \in AiPages : pull[t].pc # "idle" => pull[t].model \in Models

LEMMA AiInitial == AiInit => AiShape
<1> SUFFICES ASSUME AiInit
             PROVE  AiShape
  OBVIOUS
<1>1. local \subseteq Models /\ chosen \in ModelOrNone
  BY DEF AiInit, ModelOrNone
<1>2. offered \in [AiPages -> SUBSET Models] /\ field \in [AiPages -> ModelOrNone]
  BY <1>1 DEF AiInit
<1>3. \A t \in AiPages : pull[t].pc = "idle"
  BY DEF AiInit, NoPull
<1>4. pull \in [AiPages -> [pc : {"idle", "pulling", "look", "select", "shown"}, model : ModelOrNone]]
  BY DEF AiInit, NoPull, ModelOrNone
<1>5. QED
  BY <1>1, <1>2, <1>3, <1>4 DEF AiShape

LEMMA AiStep == AiShape /\ [AiNext]_aiVars => AiShape'
<1> SUFFICES ASSUME AiShape, [AiNext]_aiVars
             PROVE  AiShape'
  OBVIOUS
<1> USE DEF AiShape, ModelOrNone
<1>1. CASE UNCHANGED aiVars
  BY <1>1 DEF aiVars
<1>2. ASSUME NEW t \in AiPages, LoadStatus(t) \/ SaveSettings(t)
      PROVE  AiShape'
  <2>1. CASE LoadStatus(t)
    <3>1. PICK models \in {local, {}} : offered' = [offered EXCEPT ![t] = models]
      BY <2>1 DEF LoadStatus
    <3>2. models \in SUBSET Models
      BY <3>1
    <3>3. QED
      BY <2>1, <3>1, <3>2 DEF LoadStatus
  <2>2. CASE SaveSettings(t)
    BY <2>2 DEF SaveSettings
  <2>3. QED
    BY <1>2, <2>1, <2>2
<1>3. ASSUME NEW t \in AiPages, NEW m \in Models, UseModel(t, m) \/ DeleteModel(t, m)
      PROVE  AiShape'
  <2>1. CASE UseModel(t, m)
    BY <2>1 DEF UseModel
  <2>2. CASE DeleteModel(t, m)
    <3>1. local' \in SUBSET Models
      BY <2>2 DEF DeleteModel
    <3>2. QED
      BY <2>2, <3>1 DEF DeleteModel
  <2>3. QED
    BY <1>3, <2>1, <2>2
<1>4. ASSUME NEW t \in AiPages, NEW m \in Models, PullModel(t, m)
      PROVE  AiShape'
  <2>1. [pc |-> "pulling", model |-> m] \in
           [pc : {"idle", "pulling", "look", "select", "shown"}, model : ModelOrNone]
    OBVIOUS
  <2>2. QED
    BY <1>4, <2>1 DEF PullModel
<1>5. ASSUME NEW t \in AiPages, OllamaPull(t)
      PROVE  AiShape'
  <2> DEFINE To(pc) == pull' = [pull EXCEPT ![t].pc = pc]
  <2>1. pull[t].pc = "pulling" /\ pull[t].model \in Models
    BY <1>5 DEF OllamaPull
  <2>2. local' \subseteq Models /\ UNCHANGED <<chosen, offered, field>>
    BY <1>5, <2>1 DEF OllamaPull
  <2>3. To("look") \/ To("shown")
    BY <1>5 DEF OllamaPull
  <2>4. QED
    BY <2>1, <2>2, <2>3
<1>6. ASSUME NEW t \in AiPages, LookForChoice(t) \/ AutoSelect(t)
      PROVE  AiShape'
  <2> DEFINE To(pc) == pull' = [pull EXCEPT ![t].pc = pc]
  <2>1. pull[t].pc # "idle" /\ pull[t].model \in Models
    BY <1>6 DEF LookForChoice, AutoSelect
  <2>2. To("select") \/ To("shown")
    BY <1>6 DEF LookForChoice, AutoSelect
  <2>3. chosen' \in ModelOrNone /\ UNCHANGED <<local, offered, field>>
    BY <1>6, <2>1 DEF LookForChoice, AutoSelect
  <2>4. QED
    BY <2>1, <2>2, <2>3
<1>7. ASSUME NEW t \in AiPages, PullShown(t)
      PROVE  AiShape'
  <2>1. NoPull.pc = "idle" /\
        NoPull \in [pc : {"idle", "pulling", "look", "select", "shown"}, model : ModelOrNone]
    BY DEF NoPull
  <2>2. QED
    BY <1>7, <2>1 DEF PullShown
<1>8. QED
  BY <1>1, <1>2, <1>3, <1>4, <1>5, <1>6, <1>7 DEF AiNext

\* However many pages and models there are: what Ollama has, what the pages list and
\* what the settings name are models, or no model.
THEOREM AiTypeCorrect == AiSpec => []AiTypeOK
<1>1. AiShape => AiTypeOK
  BY DEF AiShape, AiTypeOK, ModelOrNone
<1>2. QED
  BY <1>1, AiInitial, AiStep, PTL DEF AiSpec

-----------------------------------------------------------------------------
(* The sizes of directories.  The ways down the tree are what is counted   *)
(* along: of two directories with the same parent no file is below both.   *)

Tree == tree.parent \in [Nodes -> Nat] /\ \A n \in Nodes : tree.parent[n] < n

\* The recursion along the parents is well-founded.
WayFrom(d, up, k) == IF k = d \/ k = 0 THEN {} ELSE {k} \union up[tree.parent[k]]

LEMMA WayDown ==
  ASSUME Tree, NEW d \in 0..N, NEW k \in 0..N
  PROVE  Way(d, k) = IF k = d \/ k = 0 THEN {} ELSE {k} \union Way(d, tree.parent[k])
<1> DEFINE Leads(up, m) == up = [j \in 0..m |-> WayFrom(d, up, j)]
           K == {m \in Nat : m <= N => \E up : Leads(up, m)}
<1>1. N \in Nat
  BY UsageAssumption
<1>2. \A j \in 0..N : j # 0 => j \in Nodes /\ tree.parent[j] \in 0..(j - 1)
  BY <1>1 DEF Tree, Nodes
<1>3. 0 \in K
  <2> DEFINE up == [j \in 0..0 |-> {}]
  <2>1. \A j \in 0..0 : WayFrom(d, up, j) = {}
    BY DEF WayFrom
  <2>2. Leads(up, 0)
    BY <2>1
  <2> HIDE DEF up
  <2>3. QED
    BY <2>2
<1>4. ASSUME NEW m \in Nat, m \in K
      PROVE  m + 1 \in K
  <2> SUFFICES ASSUME m + 1 <= N
               PROVE  \E up : Leads(up, m + 1)
    OBVIOUS
  <2>1. PICK up : Leads(up, m)
    <3>1. m <= N
      BY <1>1
    <3>2. QED
      BY <1>4, <3>1, Zenon
  <2> DEFINE more == [j \in 0..(m + 1) |-> WayFrom(d, up, j)]
  <2>2. \A j \in 0..m : j \in 0..(m + 1)
    OBVIOUS
  <2>3. \A j \in 0..m : more[j] = up[j]
    <3>1. \A j \in 0..m : up[j] = WayFrom(d, up, j)
      BY <2>1, Zenon
    <3>2. \A j \in 0..(m + 1) : more[j] = WayFrom(d, up, j)
      BY Zenon
    <3> HIDE DEF more
    <3>3. QED
      BY <2>2, <3>1, <3>2
  <2>4. ASSUME NEW j \in 0..(m + 1)
        PROVE  WayFrom(d, up, j) = WayFrom(d, more, j)
    <3>1. CASE j = 0 \/ j = d
      BY <3>1, Zenon DEF WayFrom
    <3>2. CASE j # 0
      <4>1. tree.parent[j] \in 0..m
        BY <1>1, <1>2, <3>2
      <4>2. more[tree.parent[j]] = up[tree.parent[j]]
        <5> HIDE DEF more
        <5>1. QED
          BY <2>3, <4>1
      <4>3. QED
        BY <4>2, Zenon DEF WayFrom
    <3>3. QED
      BY <3>1, <3>2
  <2>5. Leads(more, m + 1)
    BY <2>4, Zenon
  <2> HIDE DEF more
  <2>6. QED
    BY <2>5
<1>5. N \in K
  <2> HIDE DEF K
  <2>1. Nat \subseteq K
    BY <1>3, <1>4, EveryNumber
  <2>2. QED
    BY <1>1, <2>1
<1> DEFINE down == CHOOSE up : up = [j \in 0..N |->
                     IF j = d \/ j = 0 THEN {} ELSE {j} \union up[tree.parent[j]]]
<1>6. \E up : Leads(up, N)
  BY <1>1, <1>5
<1>7. Leads(down, N)
  BY <1>6, Zenon DEF WayFrom
<1>8. \A e : Way(d, e) = down[e]
  BY Zenon DEF Way
<1> HIDE DEF down
<1>9. \A j \in 0..N : Way(d, j) = WayFrom(d, down, j)
  BY <1>7, <1>8, Zenon
<1>10. QED
  BY <1>8, <1>9, Zenon DEF WayFrom

\* What is on the way down to a node is a node and no further down.
LEMMA WayAbove ==
  ASSUME Tree, NEW d \in 0..N
  PROVE  \A n \in 0..N : \A k \in Way(d, n) : k \in Nodes /\ k <= n
<1> DEFINE K == {m \in Nat : \A n \in 0..N : n <= m => \A k \in Way(d, n) : k \in Nodes /\ k <= n}
<1>1. N \in Nat /\ 0 \in 0..N
  BY UsageAssumption
<1>2. 0 \in K
  <2>1. Way(d, 0) = {}
    BY <1>1, WayDown
  <2>2. QED
    BY <1>1, <2>1
<1>3. ASSUME NEW m \in Nat, m \in K
      PROVE  m + 1 \in K
  <2> SUFFICES ASSUME NEW n \in 0..N, n <= m + 1, NEW k \in Way(d, n)
               PROVE  k \in Nodes /\ k <= n
    OBVIOUS
  <2> DEFINE p == tree.parent[n]
  <2>1. n # 0 /\ k \in {n} \union Way(d, p)
    BY WayDown
  <2>2. n \in Nodes /\ p \in 0..N /\ p <= m /\ p < n
    BY <1>1, <2>1 DEF Tree, Nodes
  <2>3. k \in Way(d, p) => k \in Nodes /\ k <= p
    BY <1>3, <2>2
  <2>4. QED
    BY <1>1, <2>1, <2>2, <2>3 DEF Nodes
<1>4. Nat \subseteq K
  <2> HIDE DEF K
  <2>1. QED
    BY <1>2, <1>3, EveryNumber
<1>5. QED
  BY <1>1, <1>4

\* The way through a directory passes the directory that it is in, and is one longer
\* from there.
LEMMA WayThrough ==
  ASSUME Tree, NEW m \in Nodes
  PROVE  \A n \in 0..N : m \in Way(0, n) =>
           LET d == tree.parent[m] IN
           /\ d = 0 \/ d \in Way(0, n)
           /\ Way(d, n) \subseteq {m} \union Way(m, n)
<1> DEFINE d == tree.parent[m]
           Good(n) == m \in Way(0, n) => (d = 0 \/ d \in Way(0, n)) /\ Way(d, n) \subseteq {m} \union Way(m, n)
           K == {x \in Nat : \A n \in 0..N : n <= x => Good(n)}
<1>1. N \in Nat /\ 0 \in 0..N /\ m \in 0..N /\ d \in 0..N /\ d < m /\ m # 0
  BY UsageAssumption DEF Tree, Nodes
<1> HIDE DEF d
<1>2. Good(0)
  BY <1>1, WayDown
<1>3. ASSUME NEW n \in 0..N, n # 0, Good(tree.parent[n])
      PROVE  Good(n)
  <2> SUFFICES ASSUME m \in Way(0, n)
               PROVE  (d = 0 \/ d \in Way(0, n)) /\ Way(d, n) \subseteq {m} \union Way(m, n)
    OBVIOUS
  <2> DEFINE p == tree.parent[n]
  <2>1. p \in 0..N /\ p < n
    BY <1>1, <1>3 DEF Tree, Nodes
  <2>2. Way(0, n) = {n} \union Way(0, p)
    BY <1>1, <1>3, WayDown
  <2>3. CASE n = m
    <3>1. p = d
      BY <2>3 DEF d
    <3>2. Way(d, n) = {n} \union Way(d, d) /\ Way(d, d) = {}
      BY <1>1, <1>3, <2>1, <3>1, WayDown
    <3>3. d = 0 \/ d \in Way(0, d)
      BY <1>1, WayDown
    <3>4. QED
      BY <2>2, <2>3, <3>1, <3>2, <3>3
  <2>4. CASE n # m
    <3>1. m \in Way(0, p)
      BY <2>2, <2>4
    <3>2. (d = 0 \/ d \in Way(0, p)) /\ Way(d, p) \subseteq {m} \union Way(m, p)
      BY <1>3, <3>1
    <3>3. Way(m, n) = {n} \union Way(m, p)
      BY <1>1, <1>3, <2>4, WayDown
    <3>4. Way(d, n) \subseteq {n} \union Way(d, p)
      BY <1>1, WayDown
    <3>5. QED
      BY <2>2, <3>2, <3>3, <3>4
  <2>5. QED
    BY <2>3, <2>4
<1>4. 0 \in K
  <2> HIDE DEF Good
  <2>1. QED
    BY <1>1, <1>2
<1>5. ASSUME NEW x \in Nat, x \in K
      PROVE  x + 1 \in K
  <2> HIDE DEF Good
  <2> SUFFICES ASSUME NEW n \in 0..N, n <= x + 1
               PROVE  Good(n)
    OBVIOUS
  <2>1. CASE n = 0
    BY <1>2, <2>1
  <2>2. CASE n # 0
    <3>1. tree.parent[n] \in 0..N /\ tree.parent[n] <= x
      BY <1>1, <2>2 DEF Tree, Nodes
    <3>2. QED
      BY <1>3, <1>5, <2>2, <3>1
  <2>3. QED
    BY <2>1, <2>2
<1>6. Nat \subseteq K
  <2> HIDE DEF K
  <2>1. QED
    BY <1>4, <1>5, EveryNumber
<1>7. \A n \in 0..N : Good(n)
  <2> HIDE DEF Good
  <2>1. QED
    BY <1>1, <1>6
<1>8. QED
  BY <1>7 DEF d

\* No way passes two directories that are in the same one.
LEMMA WaysPart ==
  ASSUME Tree, NEW a \in Nodes, NEW b \in Nodes, tree.parent[a] = tree.parent[b]
  PROVE  \A n \in 0..N : a \in Way(0, n) /\ b \in Way(0, n) => a = b
<1> DEFINE Good(n) == a \in Way(0, n) /\ b \in Way(0, n) => a = b
           K == {x \in Nat : \A n \in 0..N : n <= x => Good(n)}
<1>1. N \in Nat /\ 0 \in 0..N /\ \A n \in 0..N : n # 0 => tree.parent[n] \in 0..N /\ tree.parent[n] < n
  BY UsageAssumption DEF Tree, Nodes
<1>2. Good(0)
  BY <1>1, WayDown
<1>3. ASSUME NEW n \in 0..N, n # 0, Good(tree.parent[n])
      PROVE  Good(n)
  <2> SUFFICES ASSUME a \in Way(0, n), b \in Way(0, n), a # b
               PROVE  FALSE
    OBVIOUS
  <2> DEFINE p == tree.parent[n]
  <2>1. Way(0, n) = {n} \union Way(0, p)
    BY <1>1, <1>3, WayDown
  <2>2. \A k \in Way(0, p) : k <= p
    BY <1>1, <1>3, WayAbove
  <2>3. ASSUME NEW c \in Nodes, NEW e \in Nodes, c = n, e \in Way(0, p), tree.parent[c] = tree.parent[e]
        PROVE  FALSE
    <3>1. e <= p /\ p = tree.parent[e] /\ tree.parent[e] < e
      BY <1>1, <2>2, <2>3 DEF Nodes
    <3>2. e \in Int /\ p \in Int
      BY <1>1, <1>3, <2>3 DEF Nodes
    <3>3. QED
      BY <3>1, <3>2
  <2>4. QED
    BY <1>3, <2>1, <2>3
<1>4. 0 \in K
  <2> HIDE DEF Good
  <2>1. QED
    BY <1>1, <1>2
<1>5. ASSUME NEW x \in Nat, x \in K
      PROVE  x + 1 \in K
  <2> HIDE DEF Good
  <2> SUFFICES ASSUME NEW n \in 0..N, n <= x + 1
               PROVE  Good(n)
    OBVIOUS
  <2>1. CASE n = 0
    BY <1>2, <2>1
  <2>2. CASE n # 0
    <3>1. tree.parent[n] \in 0..N /\ tree.parent[n] <= x
      BY <1>1, <2>2
    <3>2. QED
      BY <1>3, <1>5, <2>2, <3>1
  <2>3. QED
    BY <2>1, <2>2
<1>6. Nat \subseteq K
  <2> HIDE DEF K
  <2>1. QED
    BY <1>4, <1>5, EveryNumber
<1>7. QED
  <2> HIDE DEF Good
  <2>1. \A n \in 0..N : Good(n)
    BY <1>1, <1>6
  <2>2. QED
    BY <2>1 DEF Good
\* What is counted for a directory is of the device of the partition, below the
\* directory that it is in.
LEMMA CountedBelow ==
  ASSUME Tree, NEW m \in Nodes
  PROVE  Counted(m) \subseteq OfTheDevice(tree.parent[m])
<1> DEFINE d == tree.parent[m]
<1>1. N \in Nat /\ d \in 0..N /\ m \in 0..N /\ m # 0 /\ d < m
  BY UsageAssumption DEF Tree, Nodes
<1> SUFFICES ASSUME NEW n \in Counted(m)
             PROVE  n \in OfTheDevice(d)
  OBVIOUS
<1>2. tree.look[m] = "here"
  BY DEF Counted
<1>3. n \in Below(m) /\ ~tree.isdir[n] /\ \A k \in Way(m, n) : tree.look[k] = "here"
  BY <1>2 DEF Counted, Stops
<1>4. n \in Nodes /\ n \in 0..N /\ n # m /\ m \in Way(0, n)
  BY <1>1, <1>3 DEF Below, Nodes
<1>5. (d = 0 \/ d \in Way(0, n)) /\ Way(d, n) \subseteq {m} \union Way(m, n)
  BY <1>4, WayThrough
<1>6. m <= n
  BY <1>1, <1>4, WayAbove
<1>7. n # d
  BY <1>1, <1>4, <1>6
<1> HIDE DEF d
<1>8. n \in Below(d)
  BY <1>4, <1>5, <1>7 DEF Below
<1>9. \A k \in Way(d, n) : tree.look[k] = "here"
  BY <1>2, <1>3, <1>5
<1>10. QED
  BY <1>3, <1>8, <1>9 DEF OfTheDevice

\* Nothing is counted for two directories of a table.
LEMMA CountedOnce ==
  ASSUME Tree, NEW a \in Nodes, NEW b \in Nodes, tree.parent[a] = tree.parent[b], a # b
  PROVE  Counted(a) \cap Counted(b) = {}
<1> SUFFICES ASSUME NEW n \in Counted(a), n \in Counted(b)
             PROVE  FALSE
  OBVIOUS
<1>1. n \in Below(a) /\ n \in Below(b)
  BY DEF Counted
<1>2. N \in Nat /\ a # 0 /\ b # 0
  BY UsageAssumption DEF Nodes
<1>3. n \in Nodes /\ n \in 0..N /\ a \in Way(0, n) /\ b \in Way(0, n)
  BY <1>1, <1>2 DEF Below, Nodes
<1>4. QED
  BY <1>3, WaysPart

\* The rows of a table are directories of the one that is shown.
LEMMA SubDirRows ==
  \A d : /\ \A n \in DOMAIN SubDirs(d) : n \in Nodes /\ tree.parent[n] = d /\ SubDirs(d)[n] = DirSize(n)
         /\ DOMAIN SubDirs(d) \subseteq Nodes
<1> SUFFICES ASSUME NEW d
             PROVE  /\ \A n \in DOMAIN SubDirs(d) :
                         n \in Nodes /\ tree.parent[n] = d /\ SubDirs(d)[n] = DirSize(n)
                    /\ DOMAIN SubDirs(d) \subseteq Nodes
  OBVIOUS
<1> DEFINE own == {n \in Nodes : tree.parent[n] = d /\ tree.isdir[n] /\ tree.look[n] # "away"}
           Before(m, n) == DirSize(m) > DirSize(n) \/ (DirSize(m) = DirSize(n) /\ m < n)
           top == {n \in own : Cardinality({m \in own : Before(m, n)}) < Most}
<1>1. SubDirs(d) = [n \in top |-> DirSize(n)]
  BY Zenon DEF SubDirs
<1>2. \A n \in top : n \in Nodes /\ tree.parent[n] = d
  OBVIOUS
<1> HIDE DEF top
<1>3. QED
  BY <1>1, <1>2

UsageShape == tree \in Trees /\ dir \in 0..N
TableOf(d) == rows = SubDirs(d) \/ rows = [n \in {} |-> 0]
UsageInv == UsageShape /\ \E d \in 0..N : dir = d /\ TableOf(d)

LEMMA TreeShape == UsageShape => Tree /\ tree.bytes \in [Nodes -> {1, 2}]
BY UsageAssumption DEF UsageShape, Trees, Parents, Tree, Nodes

LEMMA UsageInvariant == UsageSpec => []UsageInv
<1>1. UsageInit => UsageInv
  BY UsageAssumption DEF UsageInit, UsageInv, UsageShape, TableOf
<1>2. UsageInv /\ [UsageNext]_usageVars => UsageInv'
  <2> SUFFICES ASSUME UsageInv, [UsageNext]_usageVars
               PROVE  UsageInv'
    OBVIOUS
  <2>1. tree' = tree => \A d : SubDirs(d)' = SubDirs(d)
    BY DEF SubDirs, DirSize, Counted, Below, Way, Cut, Stops
  <2>2. ASSUME NEW d \in 0..N, tree' = tree, dir' = d, rows' = SubDirs(d)
        PROVE  UsageInv'
    <3>1. rows' = SubDirs(d)'
      BY <2>1, <2>2
    <3>2. TableOf(d)'
      BY <3>1 DEF TableOf
    <3>3. QED
      BY <2>2, <3>2 DEF UsageInv, UsageShape
  <2>3. CASE DirUsage
    BY <2>2, <2>3, UsageAssumption DEF DirUsage
  <2>4. ASSUME NEW n \in Nodes, DrillDown(n)
        PROVE  UsageInv'
    <3>1. n \in 0..N
      BY UsageAssumption DEF Nodes
    <3>2. QED
      BY <2>2, <2>4, <3>1 DEF DrillDown
  <2>5. CASE UNCHANGED usageVars
    <3>1. PICK d \in 0..N : dir = d /\ TableOf(d)
      BY DEF UsageInv
    <3>2. SubDirs(d)' = SubDirs(d) /\ UNCHANGED <<tree, dir, rows>>
      BY <2>1, <2>5 DEF usageVars
    <3>3. TableOf(d)'
      BY <3>1, <3>2 DEF TableOf
    <3>4. QED
      BY <3>1, <3>2, <3>3 DEF UsageInv, UsageShape
  <2>6. QED
    BY <2>3, <2>4, <2>5 DEF UsageNext
<1>3. QED
  BY <1>1, <1>2, PTL DEF UsageSpec

\* Whatever the tree, however many rows are asked for and however the page goes down it:
\* the sizes of a table are together no more than what the device holds below the
\* directory that is shown, so that nothing is counted twice and nothing of another
\* device is.
THEOREM AlwaysOneFileSystem == UsageSpec => []OneFileSystem
<1>1. UsageInv => OneFileSystem
  <2> SUFFICES ASSUME UsageInv
               PROVE  SumFunction(rows) <= SumFunctionOnSet(tree.bytes, OfTheDevice(dir))
    BY DEF OneFileSystem
  <2> DEFINE U == OfTheDevice(dir)
             R == DOMAIN rows
             counted == [n \in R |-> Counted(n)]
  <2>1. Tree /\ tree.bytes \in [Nodes -> {1, 2}]
    BY TreeShape DEF UsageInv
  <2>2. N \in Nat /\ IsFiniteSet(Nodes)
    BY UsageAssumption, FS_Interval DEF Nodes
  <2>3. U \subseteq Nodes /\ IsFiniteSet(U)
    <3>1. U \subseteq Nodes
      BY DEF OfTheDevice, Below
    <3>2. QED
      BY <2>2, <3>1, FS_Subset
  <2>4. \A x \in U : tree.bytes[x] \in Nat
    BY <2>1, <2>3
  <2>5. \A n \in R : n \in Nodes /\ tree.parent[n] = dir /\ rows[n] = SumFunctionOnSet(tree.bytes, Counted(n))
    <3>1. CASE rows = SubDirs(dir)
      BY <3>1, SubDirRows DEF DirSize
    <3>2. CASE rows = [n \in {} |-> 0]
      BY <3>2
    <3>3. QED
      BY <3>1, <3>2 DEF UsageInv, TableOf
  <2>6. IsFiniteSet(R)
    <3>1. R \subseteq Nodes
      BY <2>5
    <3>2. QED
      BY <2>2, <3>1, FS_Subset
  <2>7. \A n \in R : counted[n] \in SUBSET U
    BY <2>1, <2>5, CountedBelow
  <2>8. \A n, m \in R : n # m => counted[n] \cap counted[m] = {}
    BY <2>1, <2>5, CountedOnce
  <2>9. \A n \in R : rows[n] = SumFunctionOnSet(tree.bytes, counted[n])
    BY <2>5
  <2>10. SumFunctionOnSet(rows, R) <= SumFunctionOnSet(tree.bytes, U)
    <3> HIDE DEF U, R, counted
    <3>1. QED
      BY <2>3, <2>4, <2>6, <2>7, <2>8, <2>9, SumOfParts
  <2>11. QED
    BY <2>10 DEF SumFunction
<1>2. QED
  BY <1>1, UsageInvariant, PTL

-----------------------------------------------------------------------------
(* The parts together, as they are checked: a step of one is a step of it, *)
(* and leaves the others alone.                                            *)

PartGiven == part \in {"containers", "services", "volumes", "usage", "models", "network", "score"}

LEMMA HostInitial ==
  Init => /\ CtrInit /\ ServicesInit /\ LvInit /\ UsageInit /\ AiInit /\ NetInit /\ ScoreInit
          /\ PartGiven
BY DEF Init, PartGiven

LEMMA PartsStep ==
  PartGiven /\ [Next]_hostVars =>
    /\ [CtrNext]_ctrVars /\ [ServicesNext]_serviceVars /\ [LvNext]_lvVars /\ [UsageNext]_usageVars
    /\ [AiNext]_aiVars /\ [NetNext]_netVars /\ [ScoreNext]_scoreVars
    /\ PartGiven'
<1>1. ASSUME PartGiven, UNCHANGED hostVars
      PROVE  /\ UNCHANGED ctrVars /\ UNCHANGED serviceVars /\ UNCHANGED lvVars
             /\ UNCHANGED usageVars /\ UNCHANGED aiVars /\ UNCHANGED netVars
             /\ UNCHANGED scoreVars
             /\ PartGiven'
  BY <1>1 DEF hostVars, PartGiven
<1>2. ASSUME PartGiven, Next
      PROVE  /\ CtrNext \/ UNCHANGED ctrVars
             /\ ServicesNext \/ UNCHANGED serviceVars
             /\ LvNext \/ UNCHANGED lvVars
             /\ UsageNext \/ UNCHANGED usageVars
             /\ AiNext \/ UNCHANGED aiVars
             /\ NetNext \/ UNCHANGED netVars
             /\ ScoreNext \/ UNCHANGED scoreVars
             /\ PartGiven'
  BY <1>2 DEF Next, Only, PartGiven
<1>3. QED
  BY <1>1, <1>2

LEMMA HostIsItsParts ==
  Spec => /\ CtrSpec /\ ServicesSpec /\ LvSpec /\ UsageSpec /\ AiSpec /\ NetSpec /\ ScoreSpec
          /\ []PartGiven
BY HostInitial, PartsStep, PTL
   DEF Spec, CtrSpec, ServicesSpec, LvSpec, UsageSpec, AiSpec, NetSpec, ScoreSpec

\* Whatever is operated on the host and however much of it there is, the variables of the
\* part that is operated keep their types.
THEOREM HostTypeCorrect == Spec => []HostTypeOK
<1>1. /\ PartGiven /\ CtrTypeOK /\ ServicesTypeOK /\ LvTypeOK /\ UsageInv /\ AiTypeOK
      /\ NetTypeOK /\ ScoreTypeOK
      => HostTypeOK
  BY DEF HostTypeOK, PartGiven, UsageInv, UsageShape
<1>2. QED
  BY <1>1, HostIsItsParts, CtrTypeCorrect, ServicesTypeCorrect, LvTypeCorrect, UsageInvariant,
     AiTypeCorrect, NetTypeCorrect, ScoreTypeCorrect, PTL
=============================================================================
