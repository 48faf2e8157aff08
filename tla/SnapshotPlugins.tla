--------------------------- MODULE SnapshotPlugins ---------------------------
(***************************************************************************)
(* What the snapshot controller gets to see of a backend through a volume  *)
(* plugin and, for the clouds, through the cloud provider.  A snapshot in  *)
(* a backend is pending, ready or in error, in the words of the cloud, or  *)
(* it is gone.                                                             *)
(***************************************************************************)
States == {"pending", "ready", "error"}

(* Cloud providers: in what state CreateSnapshot leaves a snapshot, their  *)
(* words, the states that DescribeSnapshot gives as an answer and not as   *)
(* an error, whether a snapshot that is gone can be deleted, and whether   *)
(* an error of a deletion is only logged.                                  *)

(* EC2 answers when the snapshot began; one that cannot be tagged goes.    *)
AwsCreateSnapshot == {"pending", "ready"}

(* The operation that creates the snapshot is not waited for.              *)
GceCreateSnapshot == {"pending", "ready"}

CinderCreateSnapshot == {"pending", "ready"}

AwsSnapshots ==
  [begins |-> AwsCreateSnapshot,
   says |-> [pending |-> "pending", ready |-> "completed", error |-> "error"],
   describes |-> {"pending", "completed"},
   forgives |-> FALSE, deaf |-> FALSE]

GceSnapshots ==
  [begins |-> GceCreateSnapshot,
   says |-> [pending |-> "UPLOADING", ready |-> "READY", error |-> "FAILED"],
   describes |-> {"UPLOADING", "READY", "FAILED"},
   forgives |-> TRUE, deaf |-> FALSE]

CinderSnapshots ==
  [begins |-> CinderCreateSnapshot,
   says |-> [pending |-> "creating", ready |-> "available", error |-> "error"],
   describes |-> {"creating", "available", "error"},
   forgives |-> FALSE, deaf |-> TRUE]
-----------------------------------------------------------------------------
(* Conditions of a VolumeSnapshot that the plugins make of those words.    *)

convertAWSStatus(status) ==
  CASE status = "completed" -> "ready" [] status = "pending" -> "pending" [] OTHER -> "error"

convertGCEStatus(status) ==
  CASE status = "READY" -> "ready" [] status = "FAILED" -> "error"
    [] status \in {"UPLOADING", "CREATING"} -> "pending"

convertSnapshotStatus(status) ==
  CASE status = "available" -> "ready" [] status = "creating" -> "pending" [] OTHER -> "error"
-----------------------------------------------------------------------------
(* Maya's answer to a POST comes when the snapshot is there; its answer to *)
(* a DELETE is an error unless it is 200.                                  *)
CASCreateSnapshot == {"ready"}

CASDeleteSnapshot == [forgives |-> FALSE, deaf |-> FALSE]

(* A plugin: in what state its snapshots begin, what SnapshotCreate and    *)
(* DescribeSnapshot tell of a state, as for a cloud what its deletion does, *)
(* whether FindSnapshot finds anything, whether SnapshotDelete needs the   *)
(* PV, and whether SnapshotCreate forgets that the first request failed.   *)

(* The condition of each state, and from it what the plugin answers.       *)
CloudPlugin(cloud, condition) ==
  LET answer(s) == s # "gone" /\ cloud.says[s] \in cloud.describes
  IN  [begins |-> cloud.begins,
       told |-> condition,
       describes |-> [s \in States \cup {"gone"} |->
                        IF answer(s) THEN condition[s] ELSE "no answer"],
       forgives |-> cloud.forgives, deaf |-> cloud.deaf,
       finds |-> FALSE, needsPV |-> FALSE, forgets |-> FALSE]

awsEBSPlugin ==
  CloudPlugin(AwsSnapshots, [s \in States |-> convertAWSStatus(AwsSnapshots.says[s])])

GCEPersistentDisk ==
  CloudPlugin(GceSnapshots, [s \in States |-> convertGCEStatus(GceSnapshots.says[s])])

(* The snapshot was triggered, no more is known.                           *)
gcePersistentDiskPlugin ==
  [GCEPersistentDisk EXCEPT !.told = [s \in States |-> "pending"]]

Cinder ==
  CloudPlugin(CinderSnapshots, [s \in States |-> convertSnapshotStatus(CinderSnapshots.says[s])])

(* FindSnapshot compares the metadata of all snapshots.                    *)
cinderPlugin == [Cinder EXCEPT !.finds = TRUE]

(* The archive is complete when tar ends; the description repeats the data *)
(* object, which says so, if there is an archive.                          *)
hostPathPlugin ==
  [begins |-> {"ready"},
   told |-> [s \in States |-> "ready"],
   describes |-> [s \in States \cup {"gone"} |-> IF s = "gone" THEN "no answer" ELSE "ready"],
   forgives |-> FALSE, deaf |-> FALSE,
   finds |-> FALSE, needsPV |-> FALSE, forgets |-> FALSE]

(* An error of "snapshot create" is replaced by the outcome of "snapshot   *)
(* activate"; the description does not mind if there is no snapshot.       *)
glusterfsPlugin ==
  [hostPathPlugin EXCEPT !.describes["gone"] = "ready", !.forgets = TRUE]

(* The description asks nobody; the deletion names the PV, and panics if   *)
(* there is none.                                                          *)
openEBSPlugin ==
  [hostPathPlugin EXCEPT !.describes["gone"] = "ready", !.needsPV = TRUE,
                         !.begins = CASCreateSnapshot,
                         !.forgives = CASDeleteSnapshot.forgives,
                         !.deaf = CASDeleteSnapshot.deaf]

LocalPlugins == {"hostPath", "glusterfs", "openebs"}
CloudPlugins == {"aws_ebs", "gce-pd", "cinder"}

volumePlugins(name) ==
  CASE name = "hostPath" -> hostPathPlugin
    [] name = "glusterfs" -> glusterfsPlugin
    [] name = "openebs" -> openEBSPlugin
    [] name = "aws_ebs" -> awsEBSPlugin
    [] name = "gce-pd" -> gcePersistentDiskPlugin
    [] name = "cinder" -> cinderPlugin
=============================================================================
