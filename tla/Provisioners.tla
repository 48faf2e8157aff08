---------------------------- MODULE Provisioners ----------------------------
(***************************************************************************)
(* The provisioners that keep no state of their own, each under the loop   *)
(* of lib/controller, and what becomes of the assets they make.            *)
(***************************************************************************)
EXTENDS DirectoryProvisioners, CephProvisioners, PluginProvisioners,
        TargetdProvisioner, GlusterProvisioners, SnapshotPromoter

Provisioner(v) ==
  Directories(v) \/ Ceph(v) \/ Plugins(v) \/ Targetd(v) \/ Gluster(v) \/ Promoter(v)

Node(v) ==
  \/ MapImage(v) \/ UnmapImage(v) \/ UseCopy(v) \/ LeaveCopy(v)
  \/ \E d \in Droplets : Attach(v, d) \/ Detach(v, d)

Next ==
  \/ \E v \in Volumes :
       Provisioner(v) \/ Controller(v) \/ Node(v) \/ Appear(v) \/ ReleasePV(v)
  \/ EditClass
  \/ Crash

Spec == Init /\ [][Next]_vars

(* A worker goes on with its call, the controller repeats what is not done, *)
(* and a node unmaps and detaches at last; nobody must use a claim.        *)
Fairness ==
  \A v \in Volumes :
    /\ WF_vars(Provisioner(v) \/ Controller(v))
    /\ WF_vars(UnmapImage(v) \/ LeaveCopy(v) \/ \E d \in Droplets : Detach(v, d))

FairSpec == Spec /\ Fairness
-----------------------------------------------------------------------------
(* Where a call may be: out, ended, or at a step of making or removing.    *)
Making ==
  {"provision", "list", "parse", "create", "read", "gid", "source", "nodes", "service", "annotate",
   "share", "authorize", "secret", "export", "auth", "modify", "answer", "bricks", "start",
   "restore", "tag", "clone", "reread"}

Undoing == {"undo", "untagged", "stop", "rmvolume", "rmbricks", "rmservice"}

Removing ==
  {"delete", "status", "rm", "deauthorize", "remove", "unsecret", "destroy", "drop",
   "stop", "rmvolume", "rmbricks", "rmservice", "release"}

Calls ==
  [task : Tasks, pc : {"out", "done", "error"} \cup Making \cup Undoing \cup Removing,
   n : Names, made : SUBSET Assets, lun : Luns \cup {0}]

TypeOK ==
  /\ kind \in Kinds /\ claim \in Claims
  /\ class \in {"valid", "invalid", "absent"}
  /\ phase \in [Volumes -> {"new", "wanted", "bound", "released", "gone"}]
  /\ pv \in [Volumes -> SUBSET Assets]
  /\ has \subseteq Assets
  /\ call \in [Volumes -> Calls]
  /\ \A v \in Volumes : (call[v].task = "none") = (call[v] = Idle)
  /\ memory \subseteq Volumes
  /\ failures \in [Volumes -> Nat]
  /\ faults \in 0 .. MaxFaults /\ crashes \in 0 .. MaxCrashes /\ edits \in 0 .. MaxEdits

(* Everything the PV of a bound claim names exists: its volume, its bricks, *)
(* its export, the user and the secret to reach it.  No other volume's     *)
(* Provision, failed attempt, cleanup or Delete takes it away.  A service  *)
(* is left out: GlusterFS names it after the claim.                        *)
Backed ==
  \A v \in Volumes : phase[v] = "bound" =>
    {a \in pv[v] : a.type # "service"} \subseteq has

(* What nobody names any more.                                             *)
InHand == UNION {call[v].made : v \in Volumes}

Leftovers(v) ==
  {a \in has \ (AllNamed \cup InHand) :
     a.of \in {v, claim[v].name} /\ a.type \notin {"watch", "archive"}}

(* OpenEBS makes the volume before it refuses the access modes, GlusterFS  *)
(* takes a GID before it refuses the parameters; the promoter's plugin for *)
(* GlusterFS has yet to learn to delete a volume.                          *)
LeftByRefusal(v) ==
  \/ kind = "glusterCopy"
  \/ kind = "openebs" /\ claim[v].style = "manyWriters"
  \/ kind \in FileKinds \cup {"glusterfs"} /\ edits > 0

(* An asset that no PV names and no call will name is left by a request    *)
(* that failed or was interrupted, or by a refusal that came too late:     *)
(* undisturbed, the order of the steps and their undoing leaves nothing.   *)
LeftByFailures ==
  \A v \in Volumes :
    /\ Leftovers(v) # {}
    => \/ LeftByRefusal(v)
       \/ \E u \in Volumes :
            /\ claim[u].name = claim[v].name \/ kind \in FileKinds
            /\ failures[u] > 0

(* Where an error of a step of Delete is only logged, or passes for an     *)
(* asset that is gone: GlusterFS's cleanup, Cinder's deletion, CephFS's    *)
(* user.  The promoter's plugin for GlusterFS deletes nothing.             *)
OnlyLogged(v, a) ==
  \/ kind = "glusterfs" /\ (failures[v] > 0 \/ edits > 0)
  \/ kind = "cinderCopy" /\ failures[v] > 0
  \/ kind \in CephKinds /\ a.type = "user" /\ failures[v] > 0
  \/ kind = "glusterCopy"

(* Once the PV is removed, nothing that it named is left: an error of a    *)
(* step of Delete keeps the PV, except where it is only logged.            *)
GoneMeansGone ==
  \A v \in Volumes : phase[v] = "gone" =>
    \A a \in pv[v] \cap has : a.type = "service" \/ OnlyLogged(v, a)

(* A volume that a node has mapped or attached is not removed.             *)
InUseKept ==
  \A v \in Volumes :
    /\ \E a \in has : a.type = "watch" /\ a.of = v
    => \E a \in has : a.type = "volume" /\ a.of = v
-----------------------------------------------------------------------------
(* The provisioners whose calls cannot be repeated after an answer was     *)
(* lost: what is there already cannot be made again, what is gone cannot   *)
(* be removed again.                                                       *)
MakeOnce == {"digitalocean", "targetd", "glusterfs", "glusterCopy"}

RemoveOnce ==
  {"digitalocean", "targetd", "rbd", "openebs", "cephfs",
   "glusterfile", "glusterclone", "heketiblock", "glusterblock", "cinderCopy", "openebsCopy"}

(* The parameters are no longer as they were, or the claim is one that the *)
(* provisioner refuses; with deterministicNames a claim may have to wait   *)
(* for a deletion that never succeeds.                                     *)
Excused(v) ==
  class # "valid" \/ claim[v].style = "manyWriters" \/ kind = "cephfsFixed"

SomethingFailed == \E v \in Volumes : failures[v] > 0

(* A claim is bound at last, and a released volume is removed at last:     *)
(* every failure is followed by a repetition that can succeed, unless the  *)
(* provisioner's requests cannot be repeated.                              *)
BoundAtLast ==
  \A v \in Volumes :
    phase[v] = "wanted" ~>
      phase[v] = "bound" \/ Excused(v) \/ (kind \in MakeOnce /\ SomethingFailed)

RemovedAtLast ==
  \A v \in Volumes :
    phase[v] = "released" ~>
      phase[v] = "gone" \/ Excused(v) \/ (kind \in RemoveOnce /\ SomethingFailed)
-----------------------------------------------------------------------------
(* What gluster/file/README.md promises: a bound volume has the service    *)
(* that is named after its claim.                                          *)
EndpointKept ==
  \A v \in Volumes :
    phase[v] = "bound" /\ kind \in FileKinds => Service(v) \in has
=============================================================================
