------------------------------- MODULE MCHost -------------------------------
(***************************************************************************)
(* What the pages operate on the host, for TLC: a behaviour picks one of   *)
(* the parts, which share no state, and the others rest. The same two      *)
(* model values stand for the pages of every part, and two others for the  *)
(* containers, volumes and models.                                         *)
(***************************************************************************)
EXTENDS Containers, Services, LvExtend, DiskUsage, AiModels, Network, Hardening, TLC

VARIABLE part

hostVars == <<part, ctrVars, serviceVars, lvVars, usageVars, aiVars, netVars, scoreVars>>

Sockets == "a" :> "service" @@ "b" :> "socket" @@ "t@" :> "service"

\* What a part that rests starts from is of no interest.
Init ==
  /\ part \in {"containers", "services", "volumes", "usage", "models", "network", "score"}
  /\ CtrInit /\ (part = "containers" \/ \A rt \in Runtimes : ~daemon[rt].up)
  /\ ServicesInit /\ (part = "services" \/ (init = "openrc" /\ \A u \in Units : file[u] = "disabled"))
  /\ LvInit /\ (part = "volumes" \/ \A v \in Volumes : fs[v] = "ext")
  /\ AiInit /\ (part = "models" \/ local = {})
  /\ UsageInit /\ (part = "usage" \/ \A n \in Nodes : tree.look[n] = "here" /\ tree.bytes[n] = 1
                                                      /\ ~tree.isdir[n])
  /\ NetInit
  /\ ScoreInit /\ (part = "score" \/ \A c \in Checks : host[c])

Only(p) ==
  /\ UNCHANGED part
  /\ IF p = "containers" THEN TRUE ELSE UNCHANGED ctrVars
  /\ IF p = "services" THEN TRUE ELSE UNCHANGED serviceVars
  /\ IF p = "volumes" THEN TRUE ELSE UNCHANGED lvVars
  /\ IF p = "usage" THEN TRUE ELSE UNCHANGED usageVars
  /\ IF p = "models" THEN TRUE ELSE UNCHANGED aiVars
  /\ IF p = "network" THEN TRUE ELSE UNCHANGED netVars
  /\ IF p = "score" THEN TRUE ELSE UNCHANGED scoreVars

Next ==
  \/ part = "containers" /\ CtrNext /\ Only("containers")
  \/ part = "services" /\ ServicesNext /\ Only("services")
  \/ part = "volumes" /\ LvNext /\ Only("volumes")
  \/ part = "usage" /\ UsageNext /\ Only("usage")
  \/ part = "models" /\ AiNext /\ Only("models")
  \/ part = "network" /\ NetNext /\ Only("network")
  \/ part = "score" /\ ScoreNext /\ Only("score")

Spec == Init /\ [][Next]_hostVars

(* The variables of every part keep their types: among others, a name is   *)
(* given to one container at most, and no volume is larger than its group. *)
HostTypeOK ==
  CASE part = "containers" -> CtrTypeOK
    [] part = "services" -> ServicesTypeOK
    [] part = "volumes" -> LvTypeOK
    [] part = "usage" -> tree \in Trees /\ dir \in 0..N
    [] part = "models" -> AiTypeOK
    [] part = "network" -> NetTypeOK
    [] part = "score" -> ScoreTypeOK

Symmetry == Permutations(DiskPages) \union Permutations(Volumes)
=============================================================================
