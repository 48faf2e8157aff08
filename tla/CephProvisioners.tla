-------------------------- MODULE CephProvisioners --------------------------
(***************************************************************************)
(* ceph/rbd: an image per volume, made and removed by the rbd command.     *)
(* ceph/cephfs: a share and a user, made by a script, and a secret with    *)
(* the user's key.  With deterministicNames ("cephfsFixed") they are named *)
(* after the claim, in a volume group of the claim's namespace.            *)
(***************************************************************************)
EXTENDS StorageCalls
-----------------------------------------------------------------------------
(* RBD.                                                                    *)

Watcher(v) == Asset("watch", v, 0)

RbdProvision(v) == At(v, "rbd", "provision") /\ Check(v, "parse")

RbdParse(v) == At(v, "rbd", "parse") /\ Parse(v, "create")

(* Faulty: the image is named after the volume.                            *)
BadCreateImage(v) ==
  At(v, "rbd", "create") /\ Create(v, Asset("volume", v, 0), "done", "error")

(* Each attempt makes up a name for the image.                             *)
CreateImage(v) ==
  /\ At(v, "rbd", "create")
  /\ \E n \in Fresh(v, "volume") : Create(v, Asset("volume", v, n), "done", "error")

RbdDelete(v) == At(v, "rbd", "delete") /\ ReadClass(v, "status")

(* Faulty: the watchers are not looked at.                                 *)
BadRbdStatus(v) ==
  /\ At(v, "rbd", "status")
  /\ IF Named(v) \cap has = {}
       THEN Refuse(v, "error")
       ELSE Ask(v, "rm", "error")

(* rbd status fails for an image that is gone and reports who has it open. *)
RbdStatus(v) ==
  /\ At(v, "rbd", "status")
  /\ IF Named(v) \cap has = {} \/ Watcher(v) \in has
       THEN Refuse(v, "error")
       ELSE Ask(v, "rm", "error")

DeleteImage(v) == At(v, "rbd", "rm") /\ Remove(v, Named(v), "done", "error")

(* A node maps the image of a bound volume, and unmaps it some time later. *)
MapImage(v) ==
  /\ kind = "rbd" /\ phase[v] = "bound" /\ Watcher(v) \notin has
  /\ has' = has \cup {Watcher(v)}
  /\ UNCHANGED <<fixedVars, memory, class, phase, pv, call, failures, boundVars>>

UnmapImage(v) ==
  /\ Watcher(v) \in has
  /\ has' = has \ {Watcher(v)}
  /\ UNCHANGED <<fixedVars, memory, class, phase, pv, call, failures, boundVars>>
-----------------------------------------------------------------------------
(* CephFS.                                                                 *)

CephKinds == {"cephfs", "cephfsFixed"}

InCeph(v, pc) == kind \in CephKinds /\ call[v].pc = pc

(* Who the share, its user and its secret are named after.                 *)
Owner(v) == IF kind = "cephfs" THEN v ELSE claim[v].name

Share(v) == Asset("volume", Owner(v), call[v].n)
User(v) == Asset("user", Owner(v), call[v].n)
Secret(v) == Asset("secret", Owner(v), call[v].n)

(* A lookup before anything is changed fails.                              *)
LookupFails(v) == Fault(v) /\ Goto(v, "error") /\ UNCHANGED <<has, apiVars>>

(* The parameters are refused, or the admin secret cannot be read.         *)
parseParameters(v) ==
  \/ class = "invalid" /\ Refuse(v, "error")
  \/ class # "invalid" /\ LookupFails(v)

(* The parameters, and the random names of this attempt.                   *)
CephProvision(v) ==
  /\ InCeph(v, "provision")
  /\ \/ parseParameters(v)
     \/ /\ class # "invalid"
        /\ \E n \in IF kind = "cephfs" THEN Fresh(v, "volume") ELSE {0} :
             call' = [call EXCEPT ![v].pc = "share", ![v].n = n]
        /\ NoFault
        /\ UNCHANGED <<has, apiVars>>

(* create_share: a volume that is there is used, a user that is there gets *)
(* the caps.                                                               *)
CreateShare(v) == InCeph(v, "share") /\ Ensure(v, {Share(v)}, "authorize", "error")

AuthorizeCeph(v) == InCeph(v, "authorize") /\ Ensure(v, {User(v)}, "secret", "error")

(* A secret that is there is an error.                                     *)
CreateSecret(v) == InCeph(v, "secret") /\ Create(v, Secret(v), "done", "error")

CephDelete(v) == InCeph(v, "delete") /\ ReadClass(v, "deauthorize")

(* The volume must still exist, where the command looks for it: Delete     *)
(* does not tell it the volume group.                                      *)
Found(v) == kind = "cephfs" /\ NamedOf(v, "volume") \cap has # {}

(* Finding the share may fail.  Any error of reading or removing the user  *)
(* passes for a user that is gone: the share is deleted all the same.      *)
Deauthorize(v) ==
  /\ InCeph(v, "deauthorize")
  /\ IF Found(v)
       THEN LookupFails(v) \/ RemoveIfThere(v, NamedOf(v, "user"), "remove", "remove")
       ELSE Refuse(v, "error")

DeleteShare(v) == InCeph(v, "remove") /\ RemoveIfThere(v, NamedOf(v, "volume"), "unsecret", "error")

DeleteSecret(v) == InCeph(v, "unsecret") /\ Remove(v, NamedOf(v, "secret"), "done", "error")

Ceph(v) ==
  \/ RbdProvision(v) \/ RbdParse(v) \/ CreateImage(v)
  \/ RbdDelete(v) \/ RbdStatus(v) \/ DeleteImage(v)
  \/ CephProvision(v) \/ CreateShare(v) \/ AuthorizeCeph(v) \/ CreateSecret(v)
  \/ CephDelete(v) \/ Deauthorize(v) \/ DeleteShare(v) \/ DeleteSecret(v)
=============================================================================
