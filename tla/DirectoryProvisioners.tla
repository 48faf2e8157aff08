------------------------ MODULE DirectoryProvisioners ------------------------
(***************************************************************************)
(* The provisioners that make one directory per volume: the hostpath demo  *)
(* (docs/demo/hostpath-provisioner) and the NFS client provisioner         *)
(* (nfs-client), which may keep a deleted directory under another name.    *)
(***************************************************************************)
EXTENDS StorageCalls

Directory(v) == Asset("volume", v, 0)

HostpathProvision(v) ==
  At(v, "hostpath", "provision") /\ Ensure(v, {Directory(v)}, "done", "error")

HostpathDelete(v) ==
  At(v, "hostpath", "delete") /\ RemoveIfThere(v, {Directory(v)}, "done", "error")

NfsClientProvision(v) ==
  At(v, "nfsclient", "provision") /\ Ensure(v, {Directory(v)}, "done", "error")

(* Faulty: a directory that is gone is an error.                           *)
BadNfsClientDelete(v) ==
  /\ At(v, "nfsclient", "delete")
  /\ IF Named(v) \cap has = {}
       THEN Refuse(v, "error")
       ELSE ReadClass(v, "remove")

(* A directory that is gone is a Delete that was done already.             *)
NfsClientDelete(v) ==
  /\ At(v, "nfsclient", "delete")
  /\ IF Named(v) \cap has = {}
       THEN Ask(v, "done", "error")
       ELSE ReadClass(v, "remove")

(* Faulty: the directory is neither removed nor renamed.                   *)
BadNfsClientRemove(v) ==
  At(v, "nfsclient", "remove") /\ Ask(v, "done", "error")

(* archiveOnDelete: renamed unless the class says that it is to go.        *)
NfsClientRemove(v) ==
  /\ At(v, "nfsclient", "remove")
  /\ \/ Request(v, {}, {Directory(v)}, "done", "error")
     \/ Request(v, {Asset("archive", v, 0)}, {Directory(v)}, "done", "error")

Directories(v) ==
  \/ HostpathProvision(v) \/ HostpathDelete(v)
  \/ NfsClientProvision(v) \/ NfsClientDelete(v) \/ NfsClientRemove(v)
=============================================================================
