-------------------------- MODULE SnapshotPromoter --------------------------
(***************************************************************************)
(* The provisioner of claims that are annotated with a VolumeSnapshot: it  *)
(* looks up the snapshot and has the plugin of the snapshot's volume make  *)
(* a volume of it.  A kind stands for the plugin.  What a plugin asks its  *)
(* cloud for is one request, except where the cloud provider's code makes  *)
(* several.                                                                *)
(***************************************************************************)
EXTENDS StorageCalls

CloudCopies == {"awsCopy", "gceCopy", "cinderCopy"}
LocalCopies == {"hostpathCopy", "glusterCopy", "openebsCopy"}

(* EBS and Cinder make up an id, the hostPath plugin a directory name; GCE *)
(* and OpenEBS take the name of the PV; GlusterFS takes that of the        *)
(* snapshot, of which every claim name has one here.                       *)
MadeUp(v) == {Asset("volume", v, n) : n \in Fresh(v, "volume")}
NamedLikePV(v) == Asset("volume", v, 0)
NamedLikeSnapshot(v) == Asset("volume", claim[v].name, 0)

InUse(v) == Asset("watch", v, 0) \in has

(* The VolumeSnapshot and its data object are read.                        *)
PromoterProvision(v) ==
  /\ kind \in CloudCopies \cup LocalCopies /\ call[v].pc = "provision"
  /\ Ask(v, "restore", "error")
-----------------------------------------------------------------------------
(* EBS.  A volume that cannot be tagged is deleted, "and hope it succeeds". *)

CreateDisk(v) == \E disk \in MadeUp(v) : Ensure(v, {disk}, "tag", "error")

RestoreEBS(v) ==
  /\ At(v, "awsCopy", "restore")
  /\ IF class = "invalid" THEN Refuse(v, "error") ELSE CreateDisk(v)

createTags(v) == At(v, "awsCopy", "tag") /\ Ask(v, "done", "untagged")

(* What is in use is not deleted; what is gone need not be.                *)
deleteVolume(v) ==
  IF InUse(v) THEN Refuse(v, "error") ELSE RemoveIfThere(v, Named(v), "done", "error")

DeleteUntagged(v) ==
  At(v, "awsCopy", "untagged") /\ RemoveIfThere(v, call[v].made, "error", "error")

DeleteEBS(v) == At(v, "awsCopy", "delete") /\ deleteVolume(v)
-----------------------------------------------------------------------------
(* GCE.  A disk of the PV's name that exists is used.                      *)

CreateDiskFromSnapshot(v) == Ensure(v, {NamedLikePV(v)}, "done", "error")

RestorePD(v) ==
  /\ At(v, "gceCopy", "restore")
  /\ IF class = "invalid" THEN Refuse(v, "error") ELSE CreateDiskFromSnapshot(v)

DeleteDisk(v) ==
  IF InUse(v) THEN Refuse(v, "error") ELSE RemoveIfThere(v, Named(v), "done", "error")

DeletePD(v) == At(v, "gceCopy", "delete") /\ DeleteDisk(v)
-----------------------------------------------------------------------------
(* Cinder.                                                                 *)

CreateCinderVolume(v) == \E disk \in MadeUp(v) : Ensure(v, {disk}, "done", "error")

RestoreCinder(v) ==
  /\ At(v, "cinderCopy", "restore")
  /\ IF class = "invalid" THEN Refuse(v, "error") ELSE CreateCinderVolume(v)

(* Before it deletes a volume it looks at it, which fails if there is none. *)
diskIsUsed(v) ==
  IF InUse(v) \/ ~(Named(v) \subseteq has) THEN Refuse(v, "error") ELSE Ask(v, "drop", "error")

DeleteCinder(v) == At(v, "cinderCopy", "delete") /\ diskIsUsed(v)

(* An error of the deletion is only logged.                                *)
DeleteCinderVolume(v) == At(v, "cinderCopy", "drop") /\ RemoveIfThere(v, Named(v), "done", "done")
-----------------------------------------------------------------------------
(* hostPath: a directory, into which the archive is unpacked.              *)

RestoreHostpath(v) ==
  /\ At(v, "hostpathCopy", "restore")
  /\ \E directory \in MadeUp(v) : Ensure(v, {directory}, "done", "error")

DeleteHostpath(v) == At(v, "hostpathCopy", "delete") /\ RemoveIfThere(v, Named(v), "done", "error")

(* GlusterFS: a clone that exists is an error, and deleting one is still   *)
(* to be written.                                                          *)
RestoreGluster(v) == At(v, "glusterCopy", "restore") /\ Create(v, NamedLikeSnapshot(v), "done", "error")

DeleteGluster(v) ==
  At(v, "glusterCopy", "delete") /\ Goto(v, "done") /\ NoFault /\ UNCHANGED <<has, apiVars>>
-----------------------------------------------------------------------------
(* OpenEBS.  Without the class of the source PV, the labels are a nil map  *)
(* that is written to: a panic.                                            *)

CreateCloneVolumeSpec(v) ==
  /\ At(v, "openebsCopy", "restore")
  /\ \/ Goto(v, "clone") /\ NoFault /\ UNCHANGED <<has, apiVars>>
     \/ Die(has)

RestoreOpenEBS(v) == At(v, "openebsCopy", "clone") /\ Ensure(v, {NamedLikePV(v)}, "reread", "error")

ReadClone(v) == At(v, "openebsCopy", "reread") /\ Ask(v, "done", "error")

DeleteOpenEBSClone(v) == At(v, "openebsCopy", "delete") /\ Remove(v, Named(v), "done", "error")
-----------------------------------------------------------------------------
(* A node attaches a disk of a cloud, and detaches it some time later.     *)

UseCopy(v) ==
  /\ kind \in CloudCopies /\ phase[v] = "bound" /\ pv[v] \subseteq has
  /\ has' = has \cup {Asset("watch", v, 0)}
  /\ UNCHANGED <<call, failures, faults, apiVars>>

LeaveCopy(v) ==
  /\ kind \in CloudCopies /\ InUse(v)
  /\ has' = has \ {Asset("watch", v, 0)}
  /\ UNCHANGED <<call, failures, faults, apiVars>>

SnapshotRestore(v) ==
  \/ RestoreEBS(v) \/ createTags(v) \/ DeleteUntagged(v)
  \/ RestorePD(v) \/ RestoreCinder(v) \/ RestoreHostpath(v) \/ RestoreGluster(v)
  \/ CreateCloneVolumeSpec(v) \/ RestoreOpenEBS(v) \/ ReadClone(v)

VolumeDelete(v) ==
  \/ DeleteEBS(v) \/ DeletePD(v) \/ DeleteCinder(v) \/ DeleteCinderVolume(v)
  \/ DeleteHostpath(v) \/ DeleteGluster(v) \/ DeleteOpenEBSClone(v)

Promoter(v) == PromoterProvision(v) \/ SnapshotRestore(v) \/ VolumeDelete(v)
=============================================================================
