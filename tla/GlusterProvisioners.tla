------------------------- MODULE GlusterProvisioners -------------------------
(***************************************************************************)
(* gluster/glusterfs: commands in the pods of the servers make bricks and a *)
(* volume of them.  gluster/file: heketi makes or clones the volume.       *)
(* gluster/block: heketi, or the gluster-block command, makes a block      *)
(* volume, and a secret keeps its CHAP credentials.  Volumes of the first  *)
(* two are reached through a service named after the claim.                *)
(***************************************************************************)
EXTENDS StorageCalls

Service(v) == Asset("service", claim[v].name, 0)

FileKinds == {"glusterfile", "glusterclone"}

BlockKinds == {"heketiblock", "glusterblock"}

InFile(v, pc) == kind \in FileKinds /\ call[v].pc = pc

InBlock(v, pc) == kind \in BlockKinds /\ call[v].pc = pc

(* AllocateNext: the GID of a failed attempt is not given back, and those  *)
(* a volume may take are limited.                                          *)
TakeGid(v, ok) ==
  IF \A n \in Names \ {0} : Asset("gid", v, n) \in has
    THEN Refuse(v, "error")
    ELSE \E n \in Fresh(v, "gid") : Ensure(v, {Asset("gid", v, n)}, ok, "error")

(* Release reads the class, too.                                           *)
GiveGidBack(v, ok, error) ==
  IF class = "valid"
    THEN RemoveIfThere(v, NamedOf(v, "gid"), ok, error)
    ELSE Refuse(v, error)
-----------------------------------------------------------------------------
(* gluster/glusterfs: everything is named after the PV.                    *)

Brick(v) == Asset("brick", v, 0)
GlusterVolume(v) == Asset("volume", v, 0)
Started(v) == Asset("started", v, 0)

SimpleProvision(v) == At(v, "glusterfs", "provision") /\ TakeGid(v, "parse")

SimpleParse(v) == At(v, "glusterfs", "parse") /\ Parse(v, "bricks")

CreateBricks(v) == At(v, "glusterfs", "bricks") /\ Ensure(v, {Brick(v)}, "create", "stop")

CreateGlusterVolume(v) ==
  \/ At(v, "glusterfs", "create") /\ Create(v, GlusterVolume(v), "start", "stop")
  \/ At(v, "glusterfs", "start") /\ Ensure(v, {Started(v)}, "service", "stop")

SimpleService(v) == At(v, "glusterfs", "service") /\ Ensure(v, {Service(v)}, "done", "stop")

SimpleDelete(v) == At(v, "glusterfs", "delete") /\ ReadClass(v, "stop")

(* deleteVolume undoes a failed Provision and does the work of Delete; an  *)
(* error is only logged.  A volume that does not run cannot be stopped,    *)
(* and what was not stopped is not deleted.                                *)
StopGlusterVolume(v) ==
  At(v, "glusterfs", "stop") /\ Remove(v, {Started(v)}, "rmvolume", "rmbricks")

DeleteGlusterVolume(v) ==
  At(v, "glusterfs", "rmvolume") /\ Remove(v, {GlusterVolume(v)}, "rmbricks", "rmbricks")

(* Faulty: the bricks stay.                                                *)
BadDeleteBricks(v) ==
  At(v, "glusterfs", "rmbricks") /\ Ask(v, "rmservice", "rmservice")

DeleteBricks(v) ==
  At(v, "glusterfs", "rmbricks") /\ RemoveIfThere(v, {Brick(v)}, "rmservice", "rmservice")

SimpleDeleteService(v) ==
  LET next == IF call[v].task = "provision" THEN "error" ELSE "release"
  IN  At(v, "glusterfs", "rmservice") /\ Remove(v, {Service(v)}, next, next)

SimpleRelease(v) == At(v, "glusterfs", "release") /\ GiveGidBack(v, "done", "done")
-----------------------------------------------------------------------------
(* gluster/file.                                                           *)

(* The options of the call are kept in the provisioner, for all workers.   *)
FileProvision(v) ==
  /\ InFile(v, "provision")
  /\ memory' = {v}
  /\ Goto(v, "gid")
  /\ NoFault
  /\ UNCHANGED <<has, fixedVars, class, phase, pv, crashes, edits>>

FileGid(v) == InFile(v, "gid") /\ TakeGid(v, "parse")

(* A clone asks for the annotation of its source first.                    *)
FileParse(v) == InFile(v, "parse") /\ Parse(v, IF kind = "glusterclone" THEN "source" ELSE "create")

GetSource(v) == InFile(v, "source") /\ Ask(v, "create", "error")

CreateVolume(v) ==
  /\ InFile(v, "create")
  /\ \E n \in Fresh(v, "volume") : Create(v, Asset("volume", v, n), "nodes", "error")

(* createVolumeSource: the service gets the name of the claim whose        *)
(* options the provisioner holds now.                                      *)
CreateVolumeSource(v) ==
  \/ InFile(v, "nodes") /\ Ask(v, "service", "error")
  \/ \E u \in memory : InFile(v, "service") /\ Ensure(v, {Service(u)}, "annotate", "undo")

UndoVolume(v) ==
  InFile(v, "undo") /\ Remove(v, {a \in call[v].made : a.type = "volume"}, "error", "error")

(* The claim is read, or else the process panics, and gets the id of the   *)
(* volume; only for a clone a failure is an error.                         *)
AnnotatePVC(v) ==
  /\ InFile(v, "annotate")
  /\ \/ Ask(v, "done", IF kind = "glusterclone" THEN "error" ELSE "done")
     \/ Die(has)

(* The GID is given back first.                                            *)
FileDelete(v) == InFile(v, "delete") /\ GiveGidBack(v, "rmvolume", "error")

FileDeleteVolume(v) ==
  InFile(v, "rmvolume") /\ Remove(v, NamedOf(v, "volume"), "rmservice", "error")

FileDeleteService(v) ==
  InFile(v, "rmservice") /\ Remove(v, NamedOf(v, "service"), "done", "done")
-----------------------------------------------------------------------------
(* gluster/block.                                                          *)

BlockProvision(v) == InBlock(v, "provision") /\ Check(v, "parse")

BlockParse(v) == InBlock(v, "parse") /\ Parse(v, "create")

(* Made by one request, or by a command and another one that enables CHAP. *)
BlockCreate(v) ==
  /\ InBlock(v, "create")
  /\ \E n \in Fresh(v, "volume") :
       Create(v, Asset("volume", v, n),
              IF kind = "glusterblock" THEN "modify" ELSE "answer", "error")

ModifyAuth(v) == InBlock(v, "modify") /\ Ask(v, "answer", "error")

(* The answer may lack an IQN, a portal or the credentials.                *)
StoreFields(v) == InBlock(v, "answer") /\ Ask(v, "secret", "error")

CreateSecretRef(v) ==
  /\ InBlock(v, "secret")
  /\ \E a \in call[v].made :
       a.type = "volume" /\ Ensure(v, {Asset("secret", v, a.n)}, "done", "error")

(* A volume that heketi does not know any more is an error.                *)
BlockDelete(v) ==
  InBlock(v, "delete") /\ Remove(v, NamedOf(v, "volume"), "unsecret", "error")

DeleteSecretRef(v) ==
  InBlock(v, "unsecret") /\ RemoveIfThere(v, NamedOf(v, "secret"), "done", "error")

Gluster(v) ==
  \/ SimpleProvision(v) \/ SimpleParse(v) \/ CreateBricks(v) \/ CreateGlusterVolume(v)
  \/ SimpleService(v) \/ SimpleDelete(v) \/ StopGlusterVolume(v) \/ DeleteGlusterVolume(v)
  \/ DeleteBricks(v) \/ SimpleDeleteService(v) \/ SimpleRelease(v)
  \/ FileProvision(v) \/ FileGid(v) \/ FileParse(v) \/ GetSource(v) \/ CreateVolume(v)
  \/ CreateVolumeSource(v) \/ UndoVolume(v) \/ AnnotatePVC(v)
  \/ FileDelete(v) \/ FileDeleteVolume(v) \/ FileDeleteService(v)
  \/ BlockProvision(v) \/ BlockParse(v) \/ BlockCreate(v) \/ ModifyAuth(v)
  \/ StoreFields(v) \/ CreateSecretRef(v) \/ BlockDelete(v) \/ DeleteSecretRef(v)
=============================================================================
