--------------------------- MODULE NfsProvisioner ---------------------------
(***************************************************************************)
(* nfs/pkg/volume: volumes are directories of one file system, exported by *)
(* an NFS server (Ganesha or the kernel) under a unique id and limited by  *)
(* an xfs project quota.  lib/controller runs at most one Provision or     *)
(* Delete per volume at a time, repeats a failed one, and calls Delete     *)
(* itself when it cannot save the PersistentVolume.                        *)
(***************************************************************************)
EXTENDS IdStore

CONSTANTS
  Workers,       \* goroutines that call Provision and Delete
  UseGanesha,    \* which exporter
  MaxExports,    \* flag max-exports
  FaultKinds,    \* which calls may fail
  MaxFaults,     \* bound: calls that fail
  CrashAnywhere, \* whether provisioner and server may die inside a Delete, too
  MaxCrashes     \* bound: crashes

AllFaultKinds ==
  {"options", "directory", "addBlock", "export", "quota", "save", "removeDirectory",
   "undoBlock", "removeBlock", "unexport", "removeProject", "removePV"}

ASSUME NfsAssumption ==
  /\ FaultKinds \subseteq AllFaultKinds
  /\ MaxId \in Nat \ {0} /\ MaxExports \in Int
  /\ MaxFaults \in Nat /\ MaxCrashes \in Nat
  /\ IsFiniteSet(Workers) /\ Workers # {} /\ NoVolume \notin Volumes
  /\ UseGanesha \in BOOLEAN /\ CrashAnywhere \in BOOLEAN

VARIABLES
  phase,     \* API server: wanted -> bound -> released -> gone
  saved,     \* annotations of the volume's PV: export and project id
  dirs,      \* directories under exportDir
  exports,   \* the exporter's ids and its config file
  projects,  \* the quotaer's ids and its projects file
  live,      \* what the NFS server exports now
  job,       \* per worker: what it is doing, for which volume, with which ids
  faults, crashes

vars == <<phase, saved, dirs, exports, projects, live, job, faults, crashes>>
boundVars == <<faults, crashes>>

NoIds == [export |-> 0, project |-> 0]

IdPair == [export : 0 .. MaxId, project : 0 .. MaxId]

IdleJob == [pc |-> "idle", task |-> "provision", vol |-> NoVolume, ids |-> NoIds]

Tasks == {"provision", "undo", "cleanup", "delete"}

PCs == {"idle", "exportId", "exportBlock", "export", "projectId", "quota", "save",
        "directory", "freeExport", "exportFile", "unexport", "freeProject",
        "projectFile", "removePV"}

Job == [pc : PCs, task : Tasks, vol : Volumes \cup {NoVolume}, ids : IdPair]

TypeOK ==
  /\ phase \in [Volumes -> {"wanted", "bound", "released", "gone"}]
  /\ saved \in [Volumes -> IdPair]
  /\ dirs \subseteq Volumes
  /\ exports \in Store /\ projects \in Store
  /\ live \subseteq Block
  /\ job \in [Workers -> Job]
  /\ faults \in 0 .. MaxFaults /\ crashes \in 0 .. MaxCrashes

(* Ganesha's default config, which Setup writes where there is none, has   *)
(* an export of its own, with id 0.                                        *)
DefaultConfig == IF UseGanesha THEN {B(NoVolume, 0)} ELSE {}

Init ==
  /\ phase = [v \in Volumes |-> "wanted"]
  /\ saved = [v \in Volumes |-> NoIds]
  /\ dirs = {}
  /\ exports = Load(DefaultConfig)
  /\ projects = Load({})
  /\ live = DefaultConfig
  /\ job = [w \in Workers |-> IdleJob]
  /\ faults = 0 /\ crashes = 0

Fault(kind) ==
  /\ kind \in FaultKinds
  /\ faults < MaxFaults
  /\ faults' = faults + 1
  /\ UNCHANGED crashes

Step(w, pc) == job' = [job EXCEPT ![w] = [@ EXCEPT !.pc = pc]]

Undo(w, pc) == job' = [job EXCEPT ![w] = [@ EXCEPT !.pc = pc, !.task = "undo"]]

Stop(w) == job' = [job EXCEPT ![w] = IdleJob]

(* A Delete that failed is repeated from its first line: by the loop of    *)
(* the cleanup (or never, after its last attempt), or by the work queue.   *)
StopDelete(w) == Stop(w) \/ (job[w].task = "cleanup" /\ Step(w, "directory"))

Free(v) == \A w \in Workers : job[w].vol # v
-----------------------------------------------------------------------------
(* The NFS server: it exports no path and no id twice.                     *)

Distinct(S) == \A a, b \in S : a # b => a.vol # b.vol /\ a.id # b.id

(* A Ganesha that starts reads its config and skips what is a duplicate.   *)
Loads(file, exported) ==
  /\ exported \subseteq file /\ Distinct(exported)
  /\ \A b \in file \ exported : ~Distinct(exported \cup {b})

ServerStarts == \E exported \in SUBSET exports.file : Loads(exports.file, exported) /\ live' = exported

Acceptable(v) == {b \in BlocksOf(exports, v) \ live : Distinct(live \cup {b})}

AddExport(v) == \E b \in Acceptable(v) : live' = live \cup {b}

RemoveExport(id) == (\E b \in live : b.id = id) /\ live' = {b \in live : b.id # id}

(* exportfs -r: whatever /etc/exports says.                                *)
ReExport == live' = exports.file

ServerExports(v) == IF UseGanesha THEN AddExport(v) ELSE ReExport

ServerWithdraws(id) == IF UseGanesha THEN RemoveExport(id) ELSE ReExport
-----------------------------------------------------------------------------
(* Provision.                                                              *)

CanExport == MaxExports < 0 \/ Cardinality(exports.ids) < MaxExports

(* The options are refused, or the address of the server is not to be      *)
(* found: nothing was made yet.                                            *)
Unfit == Fault("options") /\ UNCHANGED <<dirs, job>>

(* A directory that exists already is an error, as is one that cannot be   *)
(* made, whose remains are removed.                                        *)
createDirectory(w, v) ==
  /\ v \notin dirs
  /\ \/ /\ dirs' = dirs \cup {v}
        /\ job' = [job EXCEPT ![w] = [IdleJob EXCEPT !.pc = "exportId", !.vol = v]]
        /\ UNCHANGED boundVars
     \/ Fault("directory") /\ UNCHANGED <<dirs, job>>

(* The limit is checked without the mutex.                                 *)
StartProvision(w, v) ==
  /\ job[w].pc = "idle"
  /\ phase[v] = "wanted" /\ Free(v)
  /\ Unfit \/ (CanExport /\ createDirectory(w, v))
  /\ UNCHANGED <<phase, saved, exports, projects, live>>

TakeExportId(w) ==
  /\ job[w].pc = "exportId"
  /\ \E id \in 0 .. MaxId :
       LET g == GenerateID(exports, id)
       IN  /\ g.ok
           /\ exports' = g.next
           /\ job' = [job EXCEPT ![w] = [@ EXCEPT !.pc = "exportBlock", !.ids.export = id]]
  /\ UNCHANGED <<phase, saved, dirs, projects, live, boundVars>>

(* Faulty: the id is kept when the file cannot be written.                 *)
BadAddExportBlock(w) ==
  LET r == job[w]
  IN  /\ r.pc = "exportBlock"
      /\ \/ /\ exports' = AddToFile(exports, B(r.vol, r.ids.export))
            /\ Step(w, "export")
            /\ UNCHANGED boundVars
         \/ /\ Fault("addBlock")
            /\ Undo(w, "directory")
            /\ UNCHANGED exports
      /\ UNCHANGED <<phase, saved, dirs, projects, live>>

(* The id goes back when the file cannot be written.                       *)
AddExportBlock(w) ==
  LET r == job[w]
  IN  /\ r.pc = "exportBlock"
      /\ \/ /\ exports' = AddToFile(exports, B(r.vol, r.ids.export))
            /\ Step(w, "export")
            /\ UNCHANGED boundVars
         \/ /\ Fault("addBlock")
            /\ exports' = DeleteID(exports, r.ids.export)
            /\ Undo(w, "directory")
      /\ UNCHANGED <<phase, saved, dirs, projects, live>>

Refused(v) == UseGanesha /\ Acceptable(v) = {}

(* Faulty: an error of the server is ignored.                              *)
BadExport(w) ==
  /\ job[w].pc = "export"
  /\ \/ ServerExports(job[w].vol) /\ UNCHANGED boundVars
     \/ /\ Refused(job[w].vol) /\ UNCHANGED <<live, boundVars>>
     \/ Fault("export") /\ UNCHANGED live
  /\ Step(w, "projectId")
  /\ UNCHANGED <<phase, saved, dirs, exports, projects>>

(* A call that failed may have had its effect: its answer was lost.        *)
(* Either way only the block is removed, nothing is unexported.            *)
Export(w) ==
  /\ job[w].pc = "export"
  /\ \/ /\ ServerExports(job[w].vol)
        /\ Step(w, "projectId")
        /\ UNCHANGED boundVars
     \/ /\ \/ Refused(job[w].vol) /\ UNCHANGED <<live, boundVars>>
           \/ Fault("export") /\ (UNCHANGED live \/ ServerExports(job[w].vol))
        /\ Undo(w, "freeExport")
  /\ UNCHANGED <<phase, saved, dirs, exports, projects>>

(* AddProject: the id, then the block and the quota.                       *)
TakeProjectId(w) ==
  /\ job[w].pc = "projectId"
  /\ \E id \in 0 .. MaxId :
       LET g == GenerateID(projects, id)
       IN  /\ g.ok
           /\ projects' = g.next
           /\ job' = [job EXCEPT ![w] = [@ EXCEPT !.pc = "quota", !.ids.project = id]]
  /\ UNCHANGED <<phase, saved, dirs, exports, live, boundVars>>

(* SetQuota looks the id up once more.                                     *)
(* Whatever fails, the project is removed, and the directory; the export   *)
(* and its block are left behind.                                          *)
SetQuota(w) ==
  LET r == job[w]
  IN  /\ r.pc = "quota"
      /\ \/ /\ r.ids.project \in projects.ids
            /\ projects' = AddToFile(projects, B(r.vol, r.ids.project))
            /\ Step(w, "save")
            /\ UNCHANGED boundVars
         \/ /\ \/ Fault("quota")
               \/ r.ids.project \notin projects.ids /\ UNCHANGED boundVars
            /\ projects' \in {projects, AddToFile(projects, B(r.vol, r.ids.project))}
            /\ Undo(w, "freeProject")
      /\ UNCHANGED <<phase, saved, dirs, exports, live>>

(* Faulty: the PV gets no annotation for its project.                      *)
BadSavePV(w) ==
  /\ job[w].pc = "save"
  /\ phase' = [phase EXCEPT ![job[w].vol] = "bound"]
  /\ saved' = [saved EXCEPT ![job[w].vol] = [export |-> job[w].ids.export]]
  /\ Stop(w)
  /\ UNCHANGED <<dirs, exports, projects, live, boundVars>>

SavePV(w) ==
  /\ job[w].pc = "save"
  /\ \/ /\ phase' = [phase EXCEPT ![job[w].vol] = "bound"]
        /\ saved' = [saved EXCEPT ![job[w].vol] = job[w].ids]
        /\ Stop(w)
        /\ UNCHANGED boundVars
     \/ /\ Fault("save")
        /\ job' = [job EXCEPT ![w] = [@ EXCEPT !.pc = "directory", !.task = "cleanup"]]
        /\ UNCHANGED <<phase, saved>>
  /\ UNCHANGED <<dirs, exports, projects, live>>
-----------------------------------------------------------------------------
(* Delete; its parts are also what a failed Provision undoes.              *)

StartDelete(w, v) ==
  /\ job[w].pc = "idle"
  /\ phase[v] = "released" /\ Free(v)
  /\ job' = [job EXCEPT ![w] = [pc |-> "directory", task |-> "delete",
                                vol |-> v, ids |-> saved[v]]]
  /\ UNCHANGED <<phase, saved, dirs, exports, projects, live, boundVars>>

(* os.RemoveAll; a failed Provision ignores its error.                     *)
RemoveDirectory(w) ==
  /\ job[w].pc = "directory"
  /\ \/ /\ dirs' = dirs \ {job[w].vol}
        /\ IF job[w].task = "undo" THEN Stop(w) ELSE Step(w, "freeExport")
        /\ UNCHANGED boundVars
     \/ /\ Fault("removeDirectory")
        /\ IF job[w].task = "undo" THEN Stop(w) ELSE StopDelete(w)
        /\ UNCHANGED dirs
  /\ UNCHANGED <<phase, saved, exports, projects, live>>

(* RemoveExportBlock: the id is free before its block has left the file    *)
(* and before the server stops exporting it.                               *)
FreeExportId(w) ==
  /\ job[w].pc = "freeExport"
  /\ exports' = DeleteID(exports, job[w].ids.export)
  /\ Step(w, "exportFile")
  /\ UNCHANGED <<phase, saved, dirs, projects, live, boundVars>>

RemoveExportBlock(w) ==
  LET r == job[w]
      next == IF r.task = "undo" THEN "directory" ELSE "unexport"
  IN  /\ r.pc = "exportFile"
      /\ \/ /\ exports' = RemoveFromFile(exports, B(r.vol, r.ids.export))
            /\ Step(w, next)
            /\ UNCHANGED boundVars
         \/ /\ IF r.task = "undo"
               THEN Fault("undoBlock") /\ Step(w, next)
               ELSE Fault("removeBlock") /\ StopDelete(w)
            /\ UNCHANGED exports
      /\ UNCHANGED <<phase, saved, dirs, projects, live>>

Unexport(w) ==
  /\ job[w].pc = "unexport"
  /\ \/ /\ ServerWithdraws(job[w].ids.export)
        /\ Step(w, "freeProject")
        /\ UNCHANGED boundVars
     \/ /\ \/ Fault("unexport") /\ (UNCHANGED live \/ ServerWithdraws(job[w].ids.export))
           \/ /\ UseGanesha /\ \A b \in live : b.id # job[w].ids.export
              /\ UNCHANGED <<live, boundVars>>
        /\ StopDelete(w)
  /\ UNCHANGED <<phase, saved, dirs, exports, projects>>

FreeProjectId(w) ==
  /\ job[w].pc = "freeProject"
  /\ projects' = DeleteID(projects, job[w].ids.project)
  /\ Step(w, "projectFile")
  /\ UNCHANGED <<phase, saved, dirs, exports, live, boundVars>>

RemoveProject(w) ==
  LET r == job[w]
      next == CASE r.task = "undo"    -> Step(w, "directory")
                [] r.task = "cleanup" -> Stop(w)
                [] r.task = "delete"  -> Step(w, "removePV")
  IN  /\ r.pc = "projectFile"
      /\ \/ /\ projects' = RemoveFromFile(projects, B(r.vol, r.ids.project))
            /\ next
            /\ UNCHANGED boundVars
         \/ /\ Fault("removeProject")
            /\ IF r.task = "undo" THEN next ELSE StopDelete(w)
            /\ UNCHANGED projects
      /\ UNCHANGED <<phase, saved, dirs, exports, live>>

RemovePV(w) ==
  /\ job[w].pc = "removePV"
  /\ \/ /\ phase' = [phase EXCEPT ![job[w].vol] = "gone"]
        /\ saved' = [saved EXCEPT ![job[w].vol] = NoIds]
        /\ UNCHANGED boundVars
     \/ Fault("removePV") /\ UNCHANGED <<phase, saved>>
  /\ Stop(w)
  /\ UNCHANGED <<dirs, exports, projects, live>>
-----------------------------------------------------------------------------
HalfDeleted(w) ==
  job[w].pc \in {"freeExport", "exportFile", "unexport", "freeProject", "projectFile", "removePV"}

Crash ==
  /\ crashes < MaxCrashes
  /\ CrashAnywhere \/ \A w \in Workers : ~HalfDeleted(w)
  /\ crashes' = crashes + 1
  /\ UNCHANGED faults

(* server.Run returned: it is called again.                                *)
ServerExits ==
  /\ UseGanesha
  /\ Crash
  /\ ServerStarts
  /\ UNCHANGED <<phase, saved, dirs, exports, projects, job>>

(* restoreQuotas removes the projects whose directory is gone, and their   *)
(* ids, whoever else has them.  (It fails, and the start with it, when the *)
(* project of a directory that is there lost its id so.)                   *)
Restored(file) ==
  LET kept == {b \in file : b.vol \in dirs}
  IN  [ids |-> {b.id : b \in file} \ {b.id : b \in file \ kept}, file |-> kept]

(* The provisioner dies, and Ganesha with it; the kernel's server does not.*)
Restart ==
  /\ Crash
  /\ job' = [w \in Workers |-> IdleJob]
  /\ exports' = Load(exports.file)
  /\ projects' = Restored(projects.file)
  /\ IF UseGanesha THEN ServerStarts ELSE UNCHANGED live
  /\ UNCHANGED <<phase, saved, dirs>>

ReleasePV(v) ==
  /\ phase[v] = "bound"
  /\ phase' = [phase EXCEPT ![v] = "released"]
  /\ UNCHANGED <<saved, dirs, exports, projects, live, job, boundVars>>

Work(w) ==
  \/ \E v \in Volumes : StartProvision(w, v) \/ StartDelete(w, v)
  \/ TakeExportId(w) \/ AddExportBlock(w) \/ Export(w)
  \/ TakeProjectId(w) \/ SetQuota(w) \/ SavePV(w)
  \/ RemoveDirectory(w) \/ FreeExportId(w) \/ RemoveExportBlock(w) \/ Unexport(w)
  \/ FreeProjectId(w) \/ RemoveProject(w) \/ RemovePV(w)

Next ==
  \/ \E w \in Workers : Work(w)
  \/ \E v \in Volumes : ReleasePV(v)
  \/ ServerExits
  \/ Restart

Spec == Init /\ [][Next]_vars
-----------------------------------------------------------------------------
(* A PV that can be bound is served: its directory exists, the server      *)
(* exports it under the id of its annotation, the config file would export *)
(* it again after a restart, and its quota is on file.  Failed volumes,    *)
(* ids that are used again and restarts of other volumes must not touch it.*)
Served ==
  \A v \in Volumes : phase[v] = "bound" =>
    /\ v \in dirs
    /\ B(v, saved[v].export) \in live \cap exports.file
    /\ B(v, saved[v].project) \in projects.file

(* "Each ganesha export needs a unique fsid and Export_Id": the ids in the *)
(* annotations, whose PVs Delete will use them one day, are all different, *)
(* and the map knows them, so that they are not handed out again.          *)
UniqueIds ==
  /\ \A u, v \in Volumes : u # v /\ phase[u] = "bound" /\ phase[v] = "bound" =>
       saved[u].export # saved[v].export /\ saved[u].project # saved[v].project
  /\ \A v \in Volumes : phase[v] = "bound" =>
       saved[v].export \in exports.ids /\ saved[v].project \in projects.ids

(* What no PV and no running call owns was left by a failure or a crash.   *)
Owned(v) == phase[v] \in {"bound", "released"} \/ ~Free(v)

Leftovers ==
  {v \in Volumes :
     /\ ~Owned(v)
     /\ \/ v \in dirs
        \/ \E b \in live \cup exports.file \cup projects.file : b.vol = v}

(* The ids in a map that no block in its file has: a worker has just taken *)
(* the id, or is about to give it back.                                    *)
Blockless(s) == s.ids \ {b.id : b \in s.file}

ExportsTaken == {job[w].ids.export : w \in {x \in Workers : job[x].pc = "exportBlock"}}

ProjectsTaken ==
  {job[w].ids.project : w \in {x \in Workers : job[x].pc \in {"quota", "freeProject"}}}

(* A Delete that succeeds leaves no block, no export and no directory, and *)
(* nothing, be it a failure or a crash, leaves an id in a map without its  *)
(* block: it would not be handed out again before the next start.          *)
LeaksAreFailures ==
  /\ Cardinality(Leftovers) <= faults + crashes * Cardinality(Workers)
  /\ Blockless(exports) \subseteq ExportsTaken
  /\ Blockless(projects) \subseteq ProjectsTaken
=============================================================================
