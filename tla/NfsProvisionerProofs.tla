------------------------ MODULE NfsProvisionerProofs ------------------------
(***************************************************************************)
(* Every bound volume of the NFS provisioner is served, under ids of its   *)
(* own, and what is left behind was left by a failed call or a crash, but  *)
(* never an id without its block: with either server, for any number of    *)
(* workers, volumes, crashes and failed calls, as long as a Delete that    *)
(* gave an id back goes through to its end.                                *)
(***************************************************************************)
EXTENDS NfsProvisioner, FiniteSetTheorems, TLAPS

(* An undoing or a Delete stops between the return of an id and the end    *)
(* when one of its later steps fails or the process dies.                  *)
DeletesGoThrough ==
  /\ FaultKinds \cap {"undoBlock", "removeBlock", "unexport", "removeProject", "removePV"} = {}
  /\ ~CrashAnywhere

(* What a worker does fits its task and its volume.                        *)
JobsFit ==
  \A w \in Workers :
    /\ job[w].pc # "idle" => job[w].vol \in Volumes
    /\ job[w].task = "provision" =>
         /\ job[w].pc \in {"idle", "exportId", "exportBlock", "export", "projectId", "quota", "save"}
         /\ job[w].pc # "idle" => job[w].vol \in dirs
    /\ job[w].task = "undo" =>
         job[w].pc \in {"directory", "freeExport", "exportFile", "freeProject", "projectFile"}
    /\ job[w].task = "cleanup" =>
         job[w].pc \in {"directory", "freeExport", "exportFile", "unexport", "freeProject", "projectFile"}
    /\ job[w].task = "delete" =>
         /\ job[w].pc # "idle" /\ phase[job[w].vol] = "released"
         /\ job[w].pc \in {"directory", "freeExport", "exportFile", "unexport",
                           "freeProject", "projectFile", "removePV"}
         /\ job[w].ids = saved[job[w].vol]
    /\ job[w].task # "delete" /\ job[w].pc # "idle" => phase[job[w].vol] = "wanted"

(* The controller's queues give a volume to one worker at a time.          *)
OneWorker ==
  \A w, x \in Workers :
    job[w].pc # "idle" /\ job[x].pc # "idle" /\ job[w].vol = job[x].vol => w = x

(* A PV whose ids no Delete has begun to give back.                        *)
Kept(v) ==
  /\ phase[v] \in {"bound", "released"}
  /\ \A w \in Workers : job[w].vol = v => ~HalfDeleted(w)

(* A worker that has an id for a volume whose PV does not keep it.         *)
HoldsExport(w) ==
  \/ job[w].pc \in {"exportBlock", "export", "projectId", "quota", "save", "freeExport"}
  \/ job[w].pc = "directory" /\ job[w].task = "cleanup"

HoldsProject(w) ==
  \/ job[w].pc \in {"quota", "save", "freeProject"}
  \/ job[w].pc = "directory" /\ job[w].task = "cleanup"
  \/ job[w].pc \in {"freeExport", "exportFile", "unexport"} /\ job[w].task # "undo"

OwnExport(v, id) ==
  \/ Kept(v) /\ saved[v].export = id
  \/ \E w \in Workers : HoldsExport(w) /\ job[w].vol = v /\ job[w].ids.export = id

OwnProject(v, id) ==
  \/ Kept(v) /\ saved[v].project = id
  \/ \E w \in Workers : HoldsProject(w) /\ job[w].vol = v /\ job[w].ids.project = id

(* An id has one owner, and as long as it has one it is in the map.        *)
ExportsOwned ==
  /\ \A v \in Volumes, id \in 0 .. MaxId : OwnExport(v, id) => id \in exports.ids
  /\ \A u, v \in Volumes, id \in 0 .. MaxId : OwnExport(u, id) /\ OwnExport(v, id) => u = v

ProjectsOwned ==
  /\ \A v \in Volumes, id \in 0 .. MaxId : OwnProject(v, id) => id \in projects.ids
  /\ \A u, v \in Volumes, id \in 0 .. MaxId : OwnProject(u, id) /\ OwnProject(v, id) => u = v

(* The block of a worker's volume.                                         *)
Mine(w) == B(job[w].vol, job[w].ids.export)

(* What a PV needs is there, and what a worker made stays until it saves.  *)
Backed ==
  /\ \A v \in Volumes : Kept(v) =>
       /\ v \in dirs
       /\ B(v, saved[v].export) \in exports.file
       /\ B(v, saved[v].project) \in projects.file
  /\ \A w \in Workers :
       /\ HoldsExport(w) /\ job[w].pc # "exportBlock" => Mine(w) \in exports.file
       /\ job[w].pc = "save" => B(job[w].vol, job[w].ids.project) \in projects.file

(* What was exported stays exported.                                       *)
Exported ==
  /\ \A v \in Volumes : Kept(v) => B(v, saved[v].export) \in live
  /\ \A w \in Workers :
       job[w].pc \in {"projectId", "quota", "save"} => Mine(w) \in live
-----------------------------------------------------------------------------
(* Ganesha.                                                                *)

(* A block that its worker is about to remove from the file.               *)
Doomed(b) == \E w \in Workers : job[w].pc = "exportFile" /\ Mine(w) = b

(* The ids of the file are in the map and differ, but for such blocks.     *)
FileFits ==
  /\ \A b \in exports.file : b.id \in exports.ids \/ Doomed(b)
  /\ \A b, c \in exports.file : b # c /\ b.id = c.id => Doomed(b) \/ Doomed(c)
  /\ \A w \in Workers, b \in exports.file :
       job[w].pc = "exportBlock" /\ b.id = job[w].ids.export => Doomed(b)

(* A worker whose volume is exported as its block says, until it has the   *)
(* server withdraw it.                                                     *)
Serves(w) ==
  \/ job[w].pc \in {"projectId", "quota", "save"}
  \/ job[w].task = "cleanup" /\ job[w].pc = "directory"
  \/ job[w].task # "undo" /\ job[w].pc \in {"freeExport", "exportFile", "unexport"}

(* Nothing else in the file or in the server is of such a volume.          *)
ServerFits ==
  /\ Distinct(live)
  /\ \A v \in Volumes : Kept(v) => BlocksOf(exports, v) = {B(v, saved[v].export)}
  /\ \A w \in Workers : Serves(w) =>
       /\ Mine(w) \in live
       /\ BlocksOf(exports, job[w].vol) = IF job[w].pc = "unexport" THEN {} ELSE {Mine(w)}

(* A volume with a block in the file is exported, unless a worker is about *)
(* to export the block or to remove it.                                    *)
FileExported ==
  \A v \in Volumes :
    \/ \E b \in live : b.vol = v
    \/ BlocksOf(exports, v) = {}
    \/ \E w \in Workers :
         /\ job[w].vol = v /\ job[w].pc \in {"export", "freeExport", "exportFile"}
         /\ BlocksOf(exports, v) \subseteq {Mine(w)}

GaneshaFits == FileFits /\ (UseGanesha => ServerFits /\ FileExported)

Inv ==
  /\ TypeOK /\ JobsFit /\ OneWorker /\ ExportsOwned /\ ProjectsOwned
  /\ Backed /\ Exported /\ GaneshaFits
-----------------------------------------------------------------------------
(* A step of one worker.                                                   *)

Moved(w, r) ==
  /\ job' \in [Workers -> Job]
  /\ job'[w] = r
  /\ \A x \in Workers : x # w => job'[x] = job[x]

LEMMA StopMoves ==
  ASSUME TypeOK, NEW w \in Workers, Stop(w)
  PROVE  Moved(w, IdleJob)
<1>1. 0 \in 0 .. MaxId
  BY NfsAssumption
<1>2. QED
  BY <1>1 DEF Stop, Moved, TypeOK, Job, IdleJob, NoIds, IdPair, PCs, Tasks

LEMMA StepMoves ==
  ASSUME TypeOK, NEW w \in Workers, NEW pc \in PCs, Step(w, pc)
  PROVE  Moved(w, [pc |-> pc, task |-> job[w].task, vol |-> job[w].vol, ids |-> job[w].ids])
BY DEF Step, Moved, TypeOK, Job

LEMMA UndoMoves ==
  ASSUME TypeOK, NEW w \in Workers, NEW pc \in PCs, Undo(w, pc)
  PROVE  Moved(w, [pc |-> pc, task |-> "undo", vol |-> job[w].vol, ids |-> job[w].ids])
BY DEF Undo, Moved, TypeOK, Job, Tasks

LEMMA FaultType ==
  ASSUME TypeOK, NEW kind, Fault(kind)
  PROVE  faults' \in 0 .. MaxFaults /\ crashes' = crashes
BY NfsAssumption DEF Fault, TypeOK

(* Another worker that does something has another volume.                  *)
LEMMA Apart ==
  ASSUME Inv, NEW w \in Workers, job[w].pc # "idle",
         NEW x \in Workers, x # w, job[x].pc # "idle"
  PROVE  job[x].vol # job[w].vol
BY DEF Inv, OneWorker

(* A step after which no more PVs keep their ids.                          *)
NoMoreKept == \A v \in Volumes : Kept(v)' => Kept(v) /\ saved'[v] = saved[v]

LEMMA KeptByFewer ==
  ASSUME NEW w \in Workers, NEW r, Moved(w, r), UNCHANGED <<phase, saved>>,
         \/ ~HalfDeleted(w)
         \/ HalfDeleted(w)' /\ r.vol = job[w].vol
         \/ phase[job[w].vol] = "wanted"
  PROVE  NoMoreKept
<1>1. \A x \in Workers : x # w => (HalfDeleted(x)' <=> HalfDeleted(x)) /\ job'[x].vol = job[x].vol
  BY DEF Moved, HalfDeleted
<1>2. job'[w].vol = r.vol
  BY DEF Moved
<1>3. QED
  BY <1>1, <1>2 DEF Kept, NoMoreKept

(* What one step of a worker leaves to their owners.                       *)
LEMMA FewerExports ==
  ASSUME NEW w \in Workers, NEW r, Moved(w, r),
         NoMoreKept,
         HoldsExport(w)' =>
           job'[w].vol = job[w].vol /\ OwnExport(job[w].vol, job'[w].ids.export)
  PROVE  \A v \in Volumes, id \in 0 .. MaxId : OwnExport(v, id)' => OwnExport(v, id)
<1>1. \A x \in Workers : x # w => (HoldsExport(x)' <=> HoldsExport(x)) /\ job'[x] = job[x]
  BY DEF Moved, HoldsExport
<1>2. SUFFICES ASSUME NEW v \in Volumes, NEW id \in 0 .. MaxId, OwnExport(v, id)'
               PROVE  OwnExport(v, id)
  OBVIOUS
<1>3. CASE Kept(v)' /\ saved'[v].export = id
  BY <1>3 DEF OwnExport, NoMoreKept
<1>4. ASSUME NEW x \in Workers, HoldsExport(x)', job'[x].vol = v, job'[x].ids.export = id
      PROVE  OwnExport(v, id)
  <2>1. CASE x = w
    BY <1>4, <2>1
  <2>2. CASE x # w
    BY <1>1, <1>4, <2>2 DEF OwnExport
  <2>3. QED
    BY <2>1, <2>2
<1>5. QED
  BY <1>2, <1>3, <1>4 DEF OwnExport

LEMMA ExportsStay ==
  ASSUME Inv, exports.ids \subseteq exports'.ids,
         \A v \in Volumes, id \in 0 .. MaxId : OwnExport(v, id)' => OwnExport(v, id)
  PROVE  ExportsOwned'
BY DEF Inv, ExportsOwned

LEMMA FewerProjects ==
  ASSUME NEW w \in Workers, NEW r, Moved(w, r),
         NoMoreKept,
         HoldsProject(w)' =>
           job'[w].vol = job[w].vol /\ OwnProject(job[w].vol, job'[w].ids.project)
  PROVE  \A v \in Volumes, id \in 0 .. MaxId : OwnProject(v, id)' => OwnProject(v, id)
<1>1. \A x \in Workers : x # w => (HoldsProject(x)' <=> HoldsProject(x)) /\ job'[x] = job[x]
  BY DEF Moved, HoldsProject
<1>2. SUFFICES ASSUME NEW v \in Volumes, NEW id \in 0 .. MaxId, OwnProject(v, id)'
               PROVE  OwnProject(v, id)
  OBVIOUS
<1>3. CASE Kept(v)' /\ saved'[v].project = id
  BY <1>3 DEF OwnProject, NoMoreKept
<1>4. ASSUME NEW x \in Workers, HoldsProject(x)', job'[x].vol = v, job'[x].ids.project = id
      PROVE  OwnProject(v, id)
  <2>1. CASE x = w
    BY <1>4, <2>1
  <2>2. CASE x # w
    BY <1>1, <1>4, <2>2 DEF OwnProject
  <2>3. QED
    BY <2>1, <2>2
<1>5. QED
  BY <1>2, <1>3, <1>4 DEF OwnProject

LEMMA ProjectsStay ==
  ASSUME Inv, projects.ids \subseteq projects'.ids,
         \A v \in Volumes, id \in 0 .. MaxId : OwnProject(v, id)' => OwnProject(v, id)
  PROVE  ProjectsOwned'
BY DEF Inv, ProjectsOwned

(* The owner of an id gives it back.                                       *)
LEMMA ExportGoes ==
  ASSUME Inv, NEW w \in Workers, NEW r, Moved(w, r), NoMoreKept, job[w].pc # "idle",
         job[w].vol \in Volumes, ~Kept(job[w].vol) \/ HalfDeleted(w)',
         job'[w].vol = job[w].vol, ~HoldsExport(w)', OwnExport(job[w].vol, job[w].ids.export),
         exports'.ids = exports.ids \ {job[w].ids.export}
  PROVE  ExportsOwned'
<1>1. job[w].ids.export \in 0 .. MaxId
  BY DEF Inv, TypeOK, Job, IdPair
<1>2. \A v \in Volumes, id \in 0 .. MaxId : OwnExport(v, id)' => OwnExport(v, id)
  BY FewerExports
<1>3. \A x \in Workers : x # w =>
        /\ HoldsExport(x)' <=> HoldsExport(x)
        /\ job'[x] = job[x] /\ (HoldsExport(x) => job[x].vol # job[w].vol)
  BY Apart DEF Moved, HoldsExport
<1>4. ASSUME NEW v \in Volumes, Kept(v)' PROVE v # job[w].vol
  BY <1>4 DEF NoMoreKept, Kept
<1>5. ASSUME NEW v \in Volumes, NEW id \in 0 .. MaxId, OwnExport(v, id)'
      PROVE  v # job[w].vol
  BY <1>3, <1>4, <1>5 DEF OwnExport
<1>6. ASSUME NEW v \in Volumes, NEW id \in 0 .. MaxId, OwnExport(v, id)'
      PROVE  id \in exports'.ids
  <2>1. v # job[w].vol /\ OwnExport(v, id)
    BY <1>2, <1>5, <1>6
  <2>2. id # job[w].ids.export
    BY <1>1, <2>1 DEF Inv, ExportsOwned
  <2>3. QED
    BY <2>1, <2>2 DEF Inv, ExportsOwned
<1>7. QED
  BY <1>2, <1>6 DEF Inv, ExportsOwned

LEMMA ProjectGoes ==
  ASSUME Inv, NEW w \in Workers, NEW r, Moved(w, r), NoMoreKept, job[w].pc # "idle",
         job[w].vol \in Volumes, ~Kept(job[w].vol) \/ HalfDeleted(w)',
         job'[w].vol = job[w].vol, ~HoldsProject(w)', OwnProject(job[w].vol, job[w].ids.project),
         projects'.ids = projects.ids \ {job[w].ids.project}
  PROVE  ProjectsOwned'
<1>1. job[w].ids.project \in 0 .. MaxId
  BY DEF Inv, TypeOK, Job, IdPair
<1>2. \A v \in Volumes, id \in 0 .. MaxId : OwnProject(v, id)' => OwnProject(v, id)
  BY FewerProjects
<1>3. \A x \in Workers : x # w =>
        /\ HoldsProject(x)' <=> HoldsProject(x)
        /\ job'[x] = job[x] /\ (HoldsProject(x) => job[x].vol # job[w].vol)
  BY Apart DEF Moved, HoldsProject
<1>4. ASSUME NEW v \in Volumes, Kept(v)' PROVE v # job[w].vol
  BY <1>4 DEF NoMoreKept, Kept
<1>5. ASSUME NEW v \in Volumes, NEW id \in 0 .. MaxId, OwnProject(v, id)'
      PROVE  v # job[w].vol
  BY <1>3, <1>4, <1>5 DEF OwnProject
<1>6. ASSUME NEW v \in Volumes, NEW id \in 0 .. MaxId, OwnProject(v, id)'
      PROVE  id \in projects'.ids
  <2>1. v # job[w].vol /\ OwnProject(v, id)
    BY <1>2, <1>5, <1>6
  <2>2. id # job[w].ids.project
    BY <1>1, <2>1 DEF Inv, ProjectsOwned
  <2>3. QED
    BY <2>1, <2>2 DEF Inv, ProjectsOwned
<1>7. QED
  BY <1>2, <1>6 DEF Inv, ProjectsOwned

(* A step that takes nothing from the volumes of others.                   *)
Spared(v) ==
  /\ v \in dirs => v \in dirs'
  /\ \A id \in 0 .. MaxId :
       /\ B(v, id) \in exports.file => B(v, id) \in exports'.file
       /\ B(v, id) \in projects.file => B(v, id) \in projects'.file

LEMMA BackedByMore ==
  ASSUME Inv, NEW w \in Workers, NEW r, Moved(w, r),
         job[w].pc # "idle" \/ \A v \in Volumes : Spared(v),
         NoMoreKept, \A v \in Volumes : Kept(v)' => Spared(v),
         \A v \in Volumes : v # job[w].vol => Spared(v),
         HoldsExport(w)' /\ job'[w].pc # "exportBlock" => Mine(w)' \in exports'.file,
         job'[w].pc = "save" => B(job'[w].vol, job'[w].ids.project) \in projects'.file
  PROVE  Backed'
<1>1. ASSUME NEW v \in Volumes, Kept(v)'
      PROVE  /\ v \in dirs'
             /\ B(v, saved'[v].export) \in exports'.file
             /\ B(v, saved'[v].project) \in projects'.file
  <2>1. saved[v].export \in 0 .. MaxId /\ saved[v].project \in 0 .. MaxId
    BY DEF Inv, TypeOK, IdPair
  <2>2. QED
    BY <1>1, <2>1 DEF Inv, Backed, Spared, NoMoreKept
<1>2. ASSUME NEW x \in Workers, x # w
      PROVE  /\ HoldsExport(x)' /\ job'[x].pc # "exportBlock" => Mine(x)' \in exports'.file
             /\ job'[x].pc = "save" => B(job'[x].vol, job'[x].ids.project) \in projects'.file
  <2>1. job'[x] = job[x] /\ (HoldsExport(x)' <=> HoldsExport(x)) /\ Mine(x)' = Mine(x)
    BY <1>2 DEF Moved, HoldsExport, Mine, B
  <2>2. job[x].ids.export \in 0 .. MaxId /\ job[x].ids.project \in 0 .. MaxId
    BY DEF Inv, TypeOK, Job, IdPair
  <2>3. job[x].pc # "idle" => job[x].vol \in Volumes
    BY DEF Inv, JobsFit
  <2>4. job[x].pc # "idle" => Spared(job[x].vol)
    BY <1>2, <2>3, Apart
  <2>5. HoldsExport(x) \/ job[x].pc = "save" => job[x].pc # "idle"
    BY DEF HoldsExport
  <2>6. QED
    BY <2>1, <2>2, <2>4, <2>5 DEF Inv, Backed, Spared, Mine
<1>3. QED
  BY <1>1, <1>2 DEF Backed

LEMMA StillExported ==
  ASSUME Inv, NEW w \in Workers, NEW r, Moved(w, r),
         NoMoreKept,
         live \subseteq live',
         job'[w].pc \in {"projectId", "quota", "save"} => Mine(w)' \in live'
  PROVE  Exported'
<1>1. \A x \in Workers : x # w => job'[x] = job[x] /\ Mine(x)' = Mine(x)
  BY DEF Moved, Mine, B
<1>2. QED
  BY <1>1 DEF Inv, Exported, NoMoreKept

(* A step that neither changes the file nor withdraws an export.           *)
LEMMA GaneshaGrows ==
  ASSUME Inv, NEW w \in Workers, NEW r, Moved(w, r), UNCHANGED exports,
         UseGanesha => live \subseteq live' /\ Distinct(live'),
         NoMoreKept,
         job[w].pc # "exportFile" /\ job'[w].pc \notin {"exportFile", "exportBlock"},
         UseGanesha /\ Serves(w)' =>
           Mine(w)' \in live /\ BlocksOf(exports, job'[w].vol) = {Mine(w)'} /\ job'[w].pc # "unexport",
         job[w].pc \in {"export", "freeExport"} =>
           job'[w].pc \in {"export", "freeExport"} /\ Mine(w)' = Mine(w) /\ job'[w].vol = job[w].vol
  PROVE  GaneshaFits'
<1>1. \A x \in Workers : x # w =>
        job'[x] = job[x] /\ Mine(x)' = Mine(x) /\ (Serves(x)' <=> Serves(x))
  BY DEF Moved, Mine, B, Serves
<1>2. FileFits /\ (UseGanesha => ServerFits /\ FileExported)
  BY DEF Inv, GaneshaFits
<1>3. \A b \in exports.file : Doomed(b)' <=> Doomed(b)
  BY <1>1 DEF Doomed
<1>4. FileFits'
  BY <1>1, <1>2, <1>3 DEF FileFits
<1>5. SUFFICES ASSUME UseGanesha PROVE (ServerFits /\ FileExported)'
  BY <1>4 DEF GaneshaFits
<1>h. live \subseteq live' /\ Distinct(live')
  BY <1>5
<1>6. ServerFits'
  <2>1. Distinct(live')
    BY <1>h
  <2>2. \A v \in Volumes : Kept(v)' => BlocksOf(exports', v) = {B(v, saved'[v].export)}
    BY <1>2, <1>5 DEF ServerFits, NoMoreKept
  <2>3. ASSUME NEW x \in Workers, Serves(x)'
        PROVE  /\ Mine(x)' \in live'
               /\ BlocksOf(exports', job'[x].vol) = IF job'[x].pc = "unexport" THEN {} ELSE {Mine(x)'}
    <3>1. CASE x = w
      BY <1>5, <2>3, <3>1
    <3>2. CASE x # w
      BY <1>1, <1>2, <1>5, <2>3, <3>2 DEF ServerFits
    <3>3. QED
      BY <3>1, <3>2
  <2>4. QED
    BY <2>1, <2>2, <2>3 DEF ServerFits, BlocksOf
<1>7. FileExported'
  <2>1. SUFFICES ASSUME NEW v \in Volumes,
                        ~\E b \in live : b.vol = v, BlocksOf(exports, v) # {}
                 PROVE  \E x \in Workers :
                          /\ job'[x].vol = v /\ job'[x].pc \in {"export", "freeExport", "exportFile"}
                          /\ BlocksOf(exports, v) \subseteq {Mine(x)'}
    BY <1>h DEF FileExported, BlocksOf
  <2>2. PICK x \in Workers :
          /\ job[x].vol = v /\ job[x].pc \in {"export", "freeExport", "exportFile"}
          /\ BlocksOf(exports, v) \subseteq {Mine(x)}
    BY <1>2, <1>5, <2>1 DEF FileExported
  <2>3. CASE x = w
    BY <2>2, <2>3
  <2>4. CASE x # w
    BY <1>1, <2>2, <2>4
  <2>5. QED
    BY <2>3, <2>4
<1>8. QED
  BY <1>6, <1>7

(* A step that changes neither Ganesha nor its file nor the ids in use.    *)
LEMMA GaneshaUntouched ==
  ASSUME Inv, NEW w \in Workers, NEW r, Moved(w, r), UNCHANGED <<exports, live>>,
         NoMoreKept,
         job[w].pc # "exportFile" /\ job'[w].pc \notin {"exportFile", "exportBlock"},
         UseGanesha /\ Serves(w)' =>
           Mine(w)' \in live /\ BlocksOf(exports, job'[w].vol) = {Mine(w)'} /\ job'[w].pc # "unexport",
         job[w].pc \in {"export", "freeExport"} =>
           job'[w].pc \in {"export", "freeExport"} /\ Mine(w)' = Mine(w) /\ job'[w].vol = job[w].vol
  PROVE  GaneshaFits'
<1>1. UseGanesha => live \subseteq live' /\ Distinct(live')
  BY DEF Inv, GaneshaFits, ServerFits
<1>2. QED
  BY <1>1, GaneshaGrows

-----------------------------------------------------------------------------
(* Provision.                                                              *)

LEMMA StartProvisionKeeps ==
  ASSUME Inv, NEW w \in Workers, NEW v \in Volumes, StartProvision(w, v)
  PROVE  Inv'
<1>1. /\ UNCHANGED <<phase, saved, exports, projects, live>>
      /\ job[w].pc = "idle" /\ phase[v] = "wanted" /\ Free(v)
  BY DEF StartProvision
<1>2. CASE UNCHANGED job /\ UNCHANGED dirs /\ \E kind \in AllFaultKinds : Fault(kind)
  <2>1. TypeOK'
    BY <1>1, <1>2, FaultType, NfsAssumption DEF Inv, TypeOK
  <2>2. JobsFit' /\ OneWorker' /\ ExportsOwned' /\ ProjectsOwned' /\ Backed' /\ Exported'
    BY <1>1, <1>2 DEF Inv, JobsFit, OneWorker, ExportsOwned, ProjectsOwned, Backed, Exported,
                      OwnExport, OwnProject, Kept, HoldsExport, HoldsProject, HalfDeleted, Mine
  <2>3. GaneshaFits'
    BY <1>1, <1>2 DEF Inv, GaneshaFits, FileFits, ServerFits, FileExported, Distinct, Doomed,
                      Serves, Mine, Kept, HalfDeleted, BlocksOf
  <2>4. QED
    BY <2>1, <2>2, <2>3 DEF Inv
<1>3. CASE /\ dirs' = dirs \cup {v} /\ UNCHANGED boundVars
           /\ job' = [job EXCEPT ![w] = [IdleJob EXCEPT !.pc = "exportId", !.vol = v]]
  <2>1. Moved(w, [pc |-> "exportId", task |-> "provision", vol |-> v, ids |-> NoIds])
    <3>1. NoIds \in IdPair
      BY NfsAssumption DEF NoIds, IdPair
    <3>2. QED
      BY <1>3, <3>1 DEF Moved, IdleJob, Inv, TypeOK, Job, PCs, Tasks
  <2>2. TypeOK'
    BY <1>1, <1>3, <2>1 DEF Moved, Inv, TypeOK, boundVars
  <2>3. JobsFit' /\ OneWorker'
    <3>1. /\ job'[w].pc = "exportId" /\ job'[w].task = "provision" /\ job'[w].vol = v
          /\ \A x \in Workers : x # w => job'[x] = job[x] /\ job[x].vol # v
      BY <1>1, <2>1 DEF Moved, Free
    <3>2. JobsFit'
      BY <1>1, <1>3, <3>1 DEF Inv, JobsFit
    <3>3. OneWorker'
      BY <3>1 DEF Inv, OneWorker
    <3>4. QED
      BY <3>2, <3>3
  <2>4. NoMoreKept
    BY <1>1, <2>1, KeptByFewer DEF HalfDeleted
  <2>5. ~HoldsExport(w)' /\ ~HoldsProject(w)' /\ ~Serves(w)'
    BY <2>1 DEF Moved, HoldsExport, HoldsProject, Serves
  <2>6. ExportsOwned' /\ ProjectsOwned'
    BY <1>1, <2>1, <2>4, <2>5, FewerExports, FewerProjects, ExportsStay, ProjectsStay
  <2>7. Backed'
    BY <1>1, <1>3, <2>1, <2>4, <2>5, BackedByMore DEF Moved, Spared
  <2>8. Exported'
    BY <1>1, <2>1, <2>4, StillExported DEF Moved
  <2>9. GaneshaFits'
    BY <1>1, <2>1, <2>4, <2>5, GaneshaUntouched DEF Moved
  <2>10. QED
    BY <2>2, <2>3, <2>6, <2>7, <2>8, <2>9 DEF Inv
<1>4. QED
  BY <1>2, <1>3 DEF StartProvision, Unfit, createDirectory, AllFaultKinds

(* The id that is taken is in no map, so no volume owns it.                *)
LEMMA TakeExportIdKeeps ==
  ASSUME Inv, NEW w \in Workers, TakeExportId(w)
  PROVE  Inv'
<1>1. PICK id \in 0 .. MaxId :
        /\ job[w].pc = "exportId"
        /\ GenerateID(exports, id).ok /\ exports' = GenerateID(exports, id).next
        /\ job' = [job EXCEPT ![w] = [@ EXCEPT !.pc = "exportBlock", !.ids.export = id]]
        /\ UNCHANGED <<phase, saved, dirs, projects, live, faults, crashes>>
  BY DEF TakeExportId, boundVars
<1>2. /\ exports \in Store /\ exports' \in Store /\ id \in 0 .. MaxId
      /\ exports'.ids = exports.ids \cup {id} /\ exports'.file = exports.file
      /\ id \notin exports.ids
  <2>1. exports \in Store /\ id \in 0 .. MaxId
    BY NfsAssumption DEF Inv, TypeOK
  <2>2. QED
    BY <1>1, <2>1 DEF Store, GenerateID, Unused
<1>3. /\ job[w] \in Job /\ job[w].task = "provision" /\ job[w].vol \in Volumes
      /\ job[w].vol \in dirs /\ phase[job[w].vol] = "wanted"
  BY <1>1 DEF Inv, TypeOK, JobsFit, Job, Tasks
<1>4. DEFINE ids == [export |-> id, project |-> job[w].ids.project]
<1>5. Moved(w, [pc |-> "exportBlock", task |-> "provision", vol |-> job[w].vol, ids |-> ids])
  BY <1>1, <1>2, <1>3 DEF Moved, Inv, TypeOK, Job, IdPair, PCs
<1>6. TypeOK'
  BY <1>1, <1>2, <1>5 DEF Moved, Inv, TypeOK
<1>7. JobsFit' /\ OneWorker'
  BY <1>1, <1>3, <1>5 DEF Moved, Inv, JobsFit, OneWorker
<1>8. NoMoreKept
  BY <1>1, <1>5, KeptByFewer DEF HalfDeleted
<1>9. /\ \A x \in Workers : x # w => job'[x] = job[x] /\ (HoldsExport(x)' <=> HoldsExport(x))
      /\ ~HoldsProject(w)'
  BY <1>5 DEF Moved, HoldsExport, HoldsProject
<1>10. ExportsOwned'
  <2>1. ASSUME NEW v \in Volumes, NEW i \in 0 .. MaxId, OwnExport(v, i)'
        PROVE  OwnExport(v, i) \/ (v = job[w].vol /\ i = id)
    <3>1. CASE Kept(v)' /\ saved'[v].export = i
      BY <1>1, <1>8, <3>1 DEF OwnExport, NoMoreKept
    <3>2. ASSUME NEW x \in Workers, HoldsExport(x)', job'[x].vol = v, job'[x].ids.export = i
          PROVE  OwnExport(v, i) \/ (v = job[w].vol /\ i = id)
      BY <1>5, <1>9, <3>2 DEF Moved, OwnExport
    <3>3. QED
      BY <2>1, <3>1, <3>2 DEF OwnExport
  <2>2. \A v \in Volumes : ~OwnExport(v, id)
    BY <1>2 DEF Inv, ExportsOwned
  <2>3. QED
    BY <1>2, <2>1, <2>2 DEF Inv, ExportsOwned
<1>11. ProjectsOwned'
  BY <1>1, <1>5, <1>8, <1>9, FewerProjects, ProjectsStay
<1>12. Backed'
  BY <1>1, <1>2, <1>5, <1>8, BackedByMore DEF Moved, Spared
<1>13. Exported'
  BY <1>1, <1>5, <1>8, StillExported DEF Moved
<1>14. FileFits' /\ (UseGanesha => (ServerFits /\ FileExported)')
  <2>1. FileFits /\ (UseGanesha => ServerFits /\ FileExported)
    BY DEF Inv, GaneshaFits
  <2>2. \A x \in Workers : x # w =>
          job'[x] = job[x] /\ Mine(x)' = Mine(x) /\ (Serves(x)' <=> Serves(x))
    BY <1>5 DEF Moved, Mine, B, Serves
  <2>3. job'[w].pc = "exportBlock" /\ job'[w].ids.export = id /\ ~Serves(w)'
    BY <1>5 DEF Moved, Serves
  <2>4. \A b \in exports.file : Doomed(b)' <=> Doomed(b)
    BY <1>1, <2>2, <2>3 DEF Doomed
  <2>5. FileFits'
    BY <1>2, <2>1, <2>2, <2>3, <2>4 DEF FileFits
  <2>g. SUFFICES ASSUME UseGanesha PROVE (ServerFits /\ FileExported)'
    BY <2>5
  <2>h. ServerFits /\ FileExported
    BY <2>1, <2>g
  <2>6. \A v : BlocksOf(exports', v) = BlocksOf(exports, v)
    BY <1>2 DEF BlocksOf
  <2>7. ServerFits'
    BY <1>1, <1>8, <2>h, <2>2, <2>3, <2>6 DEF ServerFits, Distinct, NoMoreKept
  <2>8. FileExported'
    BY <1>1, <2>h, <2>2, <2>6 DEF FileExported
  <2>9. QED
    BY <2>5, <2>7, <2>8
<1>15. QED
  BY <1>6, <1>7, <1>10, <1>11, <1>12, <1>13, <1>14 DEF Inv, GaneshaFits

(* The block gets into the file, or the id goes back.                      *)
LEMMA AddExportBlockKeeps ==
  ASSUME Inv, NEW w \in Workers, AddExportBlock(w)
  PROVE  Inv'
<1>1. /\ UNCHANGED <<phase, saved, dirs, projects, live>>
      /\ job[w].pc = "exportBlock" /\ job[w].task = "provision"
      /\ job[w] \in Job /\ job[w].vol \in Volumes /\ job[w].ids \in IdPair
      /\ job[w].ids.export \in 0 .. MaxId
      /\ job[w].vol \in dirs /\ phase[job[w].vol] = "wanted"
      /\ exports \in Store
  BY DEF AddExportBlock, Inv, TypeOK, JobsFit, Job, Tasks, IdPair
<1>2. OwnExport(job[w].vol, job[w].ids.export) /\ ~HalfDeleted(w)
  BY <1>1 DEF OwnExport, HoldsExport, HalfDeleted
<1>3. CASE /\ exports' = AddToFile(exports, Mine(w))
           /\ Step(w, "export") /\ UNCHANGED boundVars
  <2>1. Moved(w, [pc |-> "export", task |-> "provision", vol |-> job[w].vol, ids |-> job[w].ids])
    BY <1>1, <1>3, StepMoves DEF Inv, PCs
  <2>2. /\ exports'.ids = exports.ids /\ exports'.file = exports.file \cup {Mine(w)}
        /\ exports' \in Store
    BY <1>1, <1>3 DEF AddToFile, Store, Mine, B, Block
  <2>3. TypeOK'
    BY <1>1, <1>3, <2>1, <2>2 DEF Moved, Inv, TypeOK, boundVars
  <2>4. JobsFit' /\ OneWorker'
    BY <1>1, <2>1 DEF Moved, Inv, JobsFit, OneWorker
  <2>5. NoMoreKept
    BY <1>1, <1>2, <2>1, KeptByFewer
  <2>6. ExportsOwned'
    BY <1>1, <1>2, <2>1, <2>2, <2>5, FewerExports, ExportsStay DEF Moved
  <2>7. ~HoldsProject(w)' /\ Mine(w)' = Mine(w)
    BY <2>1 DEF Moved, HoldsProject, Mine
  <2>8. ProjectsOwned'
    BY <1>1, <2>1, <2>5, <2>7, FewerProjects, ProjectsStay
  <2>9. Backed'
    BY <1>1, <2>1, <2>2, <2>5, <2>7, BackedByMore DEF Moved, Spared
  <2>10. Exported'
    BY <1>1, <2>1, <2>5, StillExported DEF Moved
  <2>11. FileFits' /\ (UseGanesha => (ServerFits /\ FileExported)')
    <3>1. FileFits /\ (UseGanesha => ServerFits /\ FileExported)
      BY DEF Inv, GaneshaFits
    <3>2. \A x \in Workers : x # w =>
            /\ job'[x] = job[x] /\ Mine(x)' = Mine(x) /\ (Serves(x)' <=> Serves(x))
            /\ job[x].pc # "idle" => job[x].vol # job[w].vol
      BY <1>1, <2>1, Apart DEF Moved, Mine, B, Serves
    <3>3. job'[w].pc = "export" /\ job'[w].vol = job[w].vol /\ ~Serves(w)'
      BY <2>1 DEF Moved, Serves
    <3>4. \A b : Doomed(b)' <=> Doomed(b)
      BY <1>1, <3>2, <3>3 DEF Doomed
    <3>5. Mine(w).vol = job[w].vol /\ Mine(w).id = job[w].ids.export
      BY DEF Mine, B
    <3>6. job[w].ids.export \in exports.ids
      BY <1>1, <1>2 DEF Inv, ExportsOwned
    <3>7. \A b \in exports.file : b.id = Mine(w).id => Doomed(b)
      BY <1>1, <3>1, <3>5 DEF FileFits
    <3>8. ASSUME NEW x \in Workers, job[x].pc = "exportBlock", x # w
          PROVE  job[x].ids.export # Mine(w).id
      <4>1. OwnExport(job[x].vol, job[x].ids.export) /\ job[x].vol \in Volumes
            /\ job[x].ids.export \in 0 .. MaxId
        BY <3>8 DEF OwnExport, HoldsExport, Inv, JobsFit, TypeOK, Job, IdPair
      <4>2. job[x].vol # job[w].vol
        BY <3>2, <3>8
      <4>3. QED
        BY <1>1, <1>2, <3>5, <4>1, <4>2 DEF Inv, ExportsOwned
    <3>9. FileFits'
      <4>1. \A b \in exports'.file : b.id \in exports'.ids \/ Doomed(b)'
        BY <2>2, <3>1, <3>4, <3>5, <3>6 DEF FileFits
      <4>2. \A b, c \in exports'.file : b # c /\ b.id = c.id => Doomed(b)' \/ Doomed(c)'
        BY <2>2, <3>1, <3>4, <3>7 DEF FileFits
      <4>3. \A x \in Workers, b \in exports'.file :
              job'[x].pc = "exportBlock" /\ b.id = job'[x].ids.export => Doomed(b)'
        BY <2>2, <3>1, <3>2, <3>3, <3>4, <3>8 DEF FileFits
      <4>4. QED
        BY <4>1, <4>2, <4>3 DEF FileFits
    <3>g. SUFFICES ASSUME UseGanesha PROVE (ServerFits /\ FileExported)'
      BY <3>9
    <3>h. ServerFits /\ FileExported
      BY <3>1, <3>g
    <3>10. \A v : BlocksOf(exports', v) =
             IF v = job[w].vol THEN BlocksOf(exports, v) \cup {Mine(w)} ELSE BlocksOf(exports, v)
      BY <2>2, <3>5 DEF BlocksOf
    <3>11. ServerFits'
      <4>1. ~Kept(job[w].vol)
        BY <1>1 DEF Kept
      <4>2. \A v \in Volumes : Kept(v)' => BlocksOf(exports', v) = {B(v, saved'[v].export)}
        BY <1>1, <2>5, <3>h, <3>10, <4>1 DEF ServerFits, NoMoreKept
      <4>3. \A x \in Workers : Serves(x) => job[x].pc # "idle"
        BY DEF Serves, Inv, JobsFit
      <4>4. ASSUME NEW x \in Workers, Serves(x)'
            PROVE  /\ Mine(x)' \in live'
                   /\ BlocksOf(exports', job'[x].vol) = IF job'[x].pc = "unexport" THEN {} ELSE {Mine(x)'}
        <5>1. x # w
          BY <3>3, <4>4
        <5>2. job[x].vol # job[w].vol /\ Serves(x)
          BY <3>2, <4>3, <4>4, <5>1
        <5>3. QED
          BY <1>1, <3>h, <3>2, <3>10, <5>1, <5>2 DEF ServerFits
      <4>5. Distinct(live)'
        BY <1>1, <3>h DEF ServerFits, Distinct
      <4>6. QED
        BY <4>2, <4>4, <4>5 DEF ServerFits
    <3>12. FileExported'
      <4>1. SUFFICES ASSUME NEW v \in Volumes,
                            ~\E b \in live : b.vol = v, BlocksOf(exports', v) # {}
                     PROVE  \E x \in Workers :
                              /\ job'[x].vol = v /\ job'[x].pc \in {"export", "freeExport", "exportFile"}
                              /\ BlocksOf(exports', v) \subseteq {Mine(x)'}
        BY <1>1 DEF FileExported
      <4>2. CASE v = job[w].vol
        <5>1. BlocksOf(exports, v) = {}
          BY <1>1, <3>h, <3>2, <4>1, <4>2 DEF FileExported
        <5>2. BlocksOf(exports', v) \subseteq {Mine(w)'}
          BY <2>7, <3>10, <4>2, <5>1
        <5>3. QED
          BY <3>3, <4>2, <5>2
      <4>3. CASE v # job[w].vol
        BY <1>1, <3>h, <3>2, <3>10, <4>1, <4>3 DEF FileExported
      <4>4. QED
        BY <4>2, <4>3
    <3>13. QED
      BY <3>9, <3>11, <3>12
  <2>12. QED
    BY <2>3, <2>4, <2>6, <2>8, <2>9, <2>10, <2>11 DEF Inv, GaneshaFits
<1>4. CASE /\ Fault("addBlock")
           /\ exports' = DeleteID(exports, job[w].ids.export)
           /\ Undo(w, "directory")
  <2>1. Moved(w, [pc |-> "directory", task |-> "undo", vol |-> job[w].vol, ids |-> job[w].ids])
    BY <1>4, UndoMoves DEF Inv, PCs
  <2>2. /\ exports'.ids = exports.ids \ {job[w].ids.export} /\ exports'.file = exports.file
        /\ exports' \in Store
    BY <1>1, <1>4 DEF DeleteID, Store
  <2>3. TypeOK'
    BY <1>1, <1>4, <2>1, <2>2, FaultType DEF Moved, Inv, TypeOK
  <2>4. JobsFit' /\ OneWorker'
    BY <1>1, <2>1 DEF Moved, Inv, JobsFit, OneWorker
  <2>5. NoMoreKept
    BY <1>1, <1>2, <2>1, KeptByFewer
  <2>6. ~HoldsExport(w)' /\ ~HoldsProject(w)' /\ ~Serves(w)'
    BY <2>1 DEF Moved, HoldsExport, HoldsProject, Serves
  <2>7. ~Kept(job[w].vol)
    BY <1>1 DEF Kept
  <2>8. ExportsOwned'
    BY <1>1, <1>2, <2>1, <2>2, <2>5, <2>6, <2>7, ExportGoes DEF Moved
  <2>9. ProjectsOwned'
    BY <1>1, <2>1, <2>5, <2>6, FewerProjects, ProjectsStay
  <2>10. Backed'
    BY <1>1, <2>1, <2>2, <2>5, <2>6, BackedByMore DEF Moved, Spared
  <2>11. Exported'
    BY <1>1, <2>1, <2>5, StillExported DEF Moved
  <2>12. FileFits' /\ (UseGanesha => (ServerFits /\ FileExported)')
    <3>1. FileFits /\ (UseGanesha => ServerFits /\ FileExported)
      BY DEF Inv, GaneshaFits
    <3>2. \A x \in Workers : x # w =>
            job'[x] = job[x] /\ Mine(x)' = Mine(x) /\ (Serves(x)' <=> Serves(x))
      BY <2>1 DEF Moved, Mine, B, Serves
    <3>3. job'[w].pc = "directory"
      BY <2>1 DEF Moved
    <3>4. \A b : Doomed(b)' <=> Doomed(b)
      BY <1>1, <3>2, <3>3 DEF Doomed
    <3>5. \A v : BlocksOf(exports', v) = BlocksOf(exports, v)
      BY <2>2 DEF BlocksOf
    <3>6. FileFits'
      BY <1>1, <2>2, <3>1, <3>2, <3>3, <3>4 DEF FileFits
    <3>g. SUFFICES ASSUME UseGanesha PROVE (ServerFits /\ FileExported)'
      BY <3>6
    <3>h. ServerFits /\ FileExported
      BY <3>1, <3>g
    <3>7. ServerFits'
      BY <1>1, <2>5, <2>6, <3>h, <3>2, <3>5 DEF ServerFits, Distinct, NoMoreKept
    <3>8. FileExported'
      BY <1>1, <3>h, <3>2, <3>5 DEF FileExported
    <3>9. QED
      BY <3>6, <3>7, <3>8
  <2>13. QED
    BY <2>3, <2>4, <2>8, <2>9, <2>10, <2>11, <2>12 DEF Inv, GaneshaFits
<1>5. QED
  BY <1>3, <1>4 DEF AddExportBlock, Mine

(* Ganesha takes the block of the file that is the worker's own, since it  *)
(* would refuse any other.                                                 *)
LEMMA ExportKeeps ==
  ASSUME Inv, NEW w \in Workers, Export(w)
  PROVE  Inv'
<1>1. /\ UNCHANGED <<phase, saved, dirs, exports, projects>>
      /\ job[w].pc = "export" /\ job[w].task = "provision"
      /\ job[w] \in Job /\ job[w].vol \in Volumes /\ job[w].ids \in IdPair
      /\ job[w].vol \in dirs /\ phase[job[w].vol] = "wanted"
      /\ Mine(w) \in exports.file /\ live \subseteq Block /\ exports.file \subseteq Block
      /\ OwnExport(job[w].vol, job[w].ids.export) /\ ~HalfDeleted(w)
  BY DEF Export, Inv, TypeOK, JobsFit, Backed, HoldsExport, OwnExport, HalfDeleted, Job, Tasks, IdPair, Store
<1>s. ASSUME ServerExports(job[w].vol)
      PROVE  /\ UseGanesha => /\ live' = live \cup {Mine(w)}
                              /\ Distinct(live') /\ BlocksOf(exports, job[w].vol) = {Mine(w)}
             /\ ~UseGanesha => live' = exports.file
             /\ live' \subseteq Block
  <2>1. UseGanesha => /\ live' = live \cup {Mine(w)}
                      /\ Distinct(live') /\ BlocksOf(exports, job[w].vol) = {Mine(w)}
    <3>1. SUFFICES ASSUME UseGanesha
                   PROVE  /\ live' = live \cup {Mine(w)}
                          /\ Distinct(live') /\ BlocksOf(exports, job[w].vol) = {Mine(w)}
      OBVIOUS
    <3>2. PICK b \in BlocksOf(exports, job[w].vol) \ live :
            Distinct(live \cup {b}) /\ live' = live \cup {b}
      BY <1>s, <3>1 DEF ServerExports, AddExport, Acceptable
    <3>3. ~\E c \in live : c.vol = job[w].vol
      BY <3>2 DEF Distinct, BlocksOf
    <3>4. PICK x \in Workers :
            /\ job[x].vol = job[w].vol /\ job[x].pc \in {"export", "freeExport", "exportFile"}
            /\ BlocksOf(exports, job[w].vol) \subseteq {Mine(x)}
      BY <1>1, <3>1, <3>2, <3>3 DEF Inv, GaneshaFits, FileExported
    <3>5. x = w
      BY <1>1, <3>4, Apart
    <3>6. QED
      BY <3>2, <3>4, <3>5
  <2>2. ~UseGanesha => live' = exports.file
    BY <1>s DEF ServerExports, ReExport
  <2>3. QED
    BY <1>1, <2>1, <2>2
<1>2. CASE ServerExports(job[w].vol) /\ Step(w, "projectId") /\ UNCHANGED boundVars
  <2>1. Moved(w, [pc |-> "projectId", task |-> "provision", vol |-> job[w].vol, ids |-> job[w].ids])
    BY <1>1, <1>2, StepMoves DEF Inv, PCs
  <2>2. /\ ~HoldsProject(w)' /\ Mine(w)' = Mine(w) /\ job'[w].vol = job[w].vol
        /\ job'[w].pc = "projectId" /\ Mine(w).vol = job[w].vol
    BY <2>1 DEF Moved, HoldsProject, Mine, B
  <2>3. UseGanesha => /\ live' = live \cup {Mine(w)}
                      /\ Distinct(live') /\ BlocksOf(exports, job[w].vol) = {Mine(w)}
    BY <1>2, <1>s
  <2>4. live' \subseteq Block
    BY <1>2, <1>s
  <2>5. TypeOK'
    BY <1>1, <1>2, <2>1, <2>4 DEF Moved, Inv, TypeOK, boundVars
  <2>6. JobsFit' /\ OneWorker'
    BY <1>1, <2>1 DEF Moved, Inv, JobsFit, OneWorker
  <2>7. NoMoreKept
    BY <1>1, <2>1, KeptByFewer
  <2>8. ExportsOwned' /\ ProjectsOwned'
    BY <1>1, <2>1, <2>2, <2>7, FewerExports, ExportsStay, FewerProjects, ProjectsStay DEF Moved
  <2>9. Backed'
    BY <1>1, <2>1, <2>2, <2>7, BackedByMore DEF Spared
  <2>10. Exported'
    <3>1. CASE UseGanesha
      BY <1>1, <2>1, <2>2, <2>3, <2>7, <3>1, StillExported
    <3>2. CASE ~UseGanesha
      <4>1. live' = exports'.file
        BY <1>1, <1>2, <1>s, <3>2
      <4>2. QED
        BY <2>9, <4>1 DEF Backed, Exported, HoldsExport
    <3>3. QED
      BY <3>1, <3>2
  <2>11. FileFits' /\ (UseGanesha => (ServerFits /\ FileExported)')
    <3>1. FileFits /\ (UseGanesha => ServerFits /\ FileExported)
      BY DEF Inv, GaneshaFits
    <3>2. \A x \in Workers : x # w =>
            job'[x] = job[x] /\ Mine(x)' = Mine(x) /\ (Serves(x)' <=> Serves(x))
      BY <2>1 DEF Moved, Mine, B, Serves
    <3>3. \A b : Doomed(b)' <=> Doomed(b)
      BY <1>1, <2>2, <3>2 DEF Doomed
    <3>4. FileFits'
      BY <1>1, <2>2, <3>1, <3>2, <3>3 DEF FileFits
    <3>g. SUFFICES ASSUME UseGanesha PROVE (ServerFits /\ FileExported)'
      BY <3>4
    <3>h. ServerFits /\ FileExported
      BY <3>1, <3>g
    <3>5. \A v : BlocksOf(exports', v) = BlocksOf(exports, v)
      BY <1>1 DEF BlocksOf
    <3>6. ServerFits'
      BY <1>1, <2>2, <2>3, <2>7, <3>g, <3>h, <3>2, <3>5 DEF ServerFits, Distinct, NoMoreKept
    <3>7. FileExported'
      BY <2>2, <2>3, <3>g, <3>h, <3>2, <3>5 DEF FileExported
    <3>8. QED
      BY <3>4, <3>6, <3>7
  <2>12. QED
    BY <2>5, <2>6, <2>8, <2>9, <2>10, <2>11 DEF Inv, GaneshaFits
<1>3. CASE /\ UNCHANGED boundVars \/ Fault("export")
           /\ Undo(w, "freeExport") /\ (UNCHANGED live \/ ServerExports(job[w].vol))
  <2>1. Moved(w, [pc |-> "freeExport", task |-> "undo", vol |-> job[w].vol, ids |-> job[w].ids])
    BY <1>3, UndoMoves DEF Inv, PCs
  <2>2. /\ ~HoldsProject(w)' /\ ~Serves(w)' /\ Mine(w)' = Mine(w) /\ job'[w].vol = job[w].vol
    BY <2>1 DEF Moved, HoldsProject, Mine, Serves
  <2>3. TypeOK'
    BY <1>1, <1>3, <1>s, <2>1, FaultType DEF Moved, Inv, TypeOK, boundVars
  <2>4. JobsFit' /\ OneWorker'
    BY <1>1, <2>1 DEF Moved, Inv, JobsFit, OneWorker
  <2>5. NoMoreKept
    BY <1>1, <2>1, KeptByFewer
  <2>6. ExportsOwned' /\ ProjectsOwned'
    BY <1>1, <2>1, <2>2, <2>5, FewerExports, ExportsStay, FewerProjects, ProjectsStay DEF Moved
  <2>7. Backed'
    BY <1>1, <2>1, <2>2, <2>5, BackedByMore DEF Moved, Spared
  <2>8. Exported'
    <3>1. CASE live \subseteq live'
      BY <1>1, <2>1, <2>5, <3>1, StillExported DEF Moved
    <3>2. CASE live' = exports.file
      BY <1>1, <2>7, <3>2 DEF Backed, Exported, HoldsExport
    <3>3. QED
      BY <1>3, <1>s, <3>1, <3>2
  <2>9. GaneshaFits'
    <3>1. UseGanesha => live \subseteq live' /\ Distinct(live')
      BY <1>3, <1>s DEF Inv, GaneshaFits, ServerFits
    <3>2. QED
      BY <1>1, <2>1, <2>2, <2>5, <3>1, GaneshaGrows DEF Moved
  <2>10. QED
    BY <2>3, <2>4, <2>6, <2>7, <2>8, <2>9 DEF Inv
<1>4. QED
  BY <1>2, <1>3 DEF Export

LEMMA TakeProjectIdKeeps ==
  ASSUME Inv, NEW w \in Workers, TakeProjectId(w)
  PROVE  Inv'
<1>1. PICK id \in 0 .. MaxId :
        /\ job[w].pc = "projectId"
        /\ GenerateID(projects, id).ok /\ projects' = GenerateID(projects, id).next
        /\ job' = [job EXCEPT ![w] = [@ EXCEPT !.pc = "quota", !.ids.project = id]]
        /\ UNCHANGED <<phase, saved, dirs, exports, live, faults, crashes>>
  BY DEF TakeProjectId, boundVars
<1>2. /\ projects \in Store /\ projects' \in Store /\ id \in 0 .. MaxId
      /\ projects'.ids = projects.ids \cup {id} /\ projects'.file = projects.file
      /\ id \notin projects.ids
  <2>1. projects \in Store /\ id \in 0 .. MaxId
    BY NfsAssumption DEF Inv, TypeOK
  <2>2. QED
    BY <1>1, <2>1 DEF Store, GenerateID, Unused
<1>3. /\ job[w] \in Job /\ job[w].task = "provision" /\ job[w].vol \in Volumes
      /\ job[w].vol \in dirs /\ phase[job[w].vol] = "wanted"
      /\ Mine(w) \in exports.file /\ Mine(w) \in live
      /\ OwnExport(job[w].vol, job[w].ids.export) /\ Serves(w)
  BY <1>1 DEF Inv, TypeOK, JobsFit, Job, Tasks, Backed, Exported, HoldsExport, OwnExport, Serves
<1>4. DEFINE ids == [export |-> job[w].ids.export, project |-> id]
<1>5. Moved(w, [pc |-> "quota", task |-> "provision", vol |-> job[w].vol, ids |-> ids])
  BY <1>1, <1>2, <1>3 DEF Moved, Inv, TypeOK, Job, IdPair, PCs
<1>6. TypeOK'
  BY <1>1, <1>2, <1>5 DEF Moved, Inv, TypeOK
<1>7. JobsFit' /\ OneWorker'
  BY <1>1, <1>3, <1>5 DEF Moved, Inv, JobsFit, OneWorker
<1>8. NoMoreKept
  BY <1>1, <1>5, KeptByFewer DEF HalfDeleted
<1>9. /\ \A x \in Workers : x # w => job'[x] = job[x] /\ (HoldsProject(x)' <=> HoldsProject(x))
      /\ Mine(w)' = Mine(w) /\ job'[w].vol = job[w].vol
  BY <1>5 DEF Moved, HoldsProject, Mine
<1>10. ProjectsOwned'
  <2>1. ASSUME NEW v \in Volumes, NEW i \in 0 .. MaxId, OwnProject(v, i)'
        PROVE  OwnProject(v, i) \/ (v = job[w].vol /\ i = id)
    <3>1. CASE Kept(v)' /\ saved'[v].project = i
      BY <1>1, <1>8, <3>1 DEF OwnProject, NoMoreKept
    <3>2. ASSUME NEW x \in Workers, HoldsProject(x)', job'[x].vol = v, job'[x].ids.project = i
          PROVE  OwnProject(v, i) \/ (v = job[w].vol /\ i = id)
      BY <1>5, <1>9, <3>2 DEF Moved, OwnProject
    <3>3. QED
      BY <2>1, <3>1, <3>2 DEF OwnProject
  <2>2. \A v \in Volumes : ~OwnProject(v, id)
    BY <1>2 DEF Inv, ProjectsOwned
  <2>3. QED
    BY <1>2, <2>1, <2>2 DEF Inv, ProjectsOwned
<1>11. ExportsOwned'
  BY <1>1, <1>3, <1>5, <1>8, FewerExports, ExportsStay DEF Moved
<1>12. Backed'
  BY <1>1, <1>2, <1>3, <1>5, <1>8, <1>9, BackedByMore DEF Moved, Spared
<1>13. Exported'
  BY <1>1, <1>3, <1>5, <1>8, <1>9, StillExported
<1>14. GaneshaFits'
  <2>1. UseGanesha => BlocksOf(exports, job[w].vol) = {Mine(w)}
    BY <1>1, <1>3 DEF Inv, GaneshaFits, ServerFits
  <2>2. QED
    BY <1>1, <1>3, <1>5, <1>8, <1>9, <2>1, GaneshaUntouched DEF Moved
<1>15. QED
  BY <1>6, <1>7, <1>10, <1>11, <1>12, <1>13, <1>14 DEF Inv

(* A failure leaves the export and its block behind, and its id taken.     *)
LEMMA SetQuotaKeeps ==
  ASSUME Inv, NEW w \in Workers, SetQuota(w)
  PROVE  Inv'
<1>1. /\ UNCHANGED <<phase, saved, dirs, exports, live>>
      /\ job[w].pc = "quota" /\ job[w].task = "provision"
      /\ job[w] \in Job /\ job[w].vol \in Volumes /\ job[w].ids.project \in 0 .. MaxId
      /\ job[w].vol \in dirs /\ phase[job[w].vol] = "wanted"
      /\ Mine(w) \in exports.file /\ Mine(w) \in live /\ projects \in Store
      /\ OwnExport(job[w].vol, job[w].ids.export) /\ OwnProject(job[w].vol, job[w].ids.project)
      /\ ~HalfDeleted(w) /\ Serves(w)
  BY DEF SetQuota, Inv, TypeOK, JobsFit, Job, Tasks, IdPair, Backed, Exported, HoldsExport,
         HoldsProject, OwnExport, OwnProject, HalfDeleted, Serves
<1>2. UseGanesha => BlocksOf(exports, job[w].vol) = {Mine(w)}
  BY <1>1 DEF Inv, GaneshaFits, ServerFits
<1>3. DEFINE block == B(job[w].vol, job[w].ids.project)
<1>4. ASSUME projects' \in {projects, AddToFile(projects, block)}
      PROVE  /\ projects' \in Store /\ projects'.ids = projects.ids
             /\ projects.file \subseteq projects'.file
  BY <1>1, <1>4 DEF AddToFile, Store, B, Block
<1>5. CASE projects' = AddToFile(projects, block) /\ Step(w, "save") /\ UNCHANGED boundVars
  <2>1. Moved(w, [pc |-> "save", task |-> "provision", vol |-> job[w].vol, ids |-> job[w].ids])
    BY <1>1, <1>5, StepMoves DEF Inv, PCs
  <2>2. block \in projects'.file
    BY <1>1, <1>5 DEF AddToFile, Store
  <2>3. Mine(w)' = Mine(w) /\ job'[w].vol = job[w].vol
    BY <2>1 DEF Moved, Mine
  <2>4. TypeOK'
    BY <1>1, <1>4, <1>5, <2>1 DEF Moved, Inv, TypeOK, boundVars
  <2>5. JobsFit' /\ OneWorker'
    BY <1>1, <2>1 DEF Moved, Inv, JobsFit, OneWorker
  <2>6. NoMoreKept
    BY <1>1, <2>1, KeptByFewer
  <2>7. ExportsOwned' /\ ProjectsOwned'
    BY <1>1, <1>4, <1>5, <2>1, <2>6, FewerExports, ExportsStay, FewerProjects, ProjectsStay DEF Moved
  <2>8. Backed'
    BY <1>1, <1>4, <1>5, <2>1, <2>2, <2>3, <2>6, BackedByMore DEF Moved, Spared
  <2>9. Exported'
    BY <1>1, <2>1, <2>3, <2>6, StillExported
  <2>10. GaneshaFits'
    BY <1>1, <1>2, <2>1, <2>3, <2>6, GaneshaUntouched DEF Moved
  <2>11. QED
    BY <2>4, <2>5, <2>7, <2>8, <2>9, <2>10 DEF Inv
<1>6. CASE /\ Fault("quota") \/ UNCHANGED boundVars
           /\ projects' \in {projects, AddToFile(projects, block)}
           /\ Undo(w, "freeProject")
  <2>1. Moved(w, [pc |-> "freeProject", task |-> "undo", vol |-> job[w].vol, ids |-> job[w].ids])
    BY <1>6, UndoMoves DEF Inv, PCs
  <2>2. ~HoldsExport(w)' /\ ~Serves(w)' /\ Mine(w)' = Mine(w) /\ job'[w].vol = job[w].vol
    BY <2>1 DEF Moved, Mine, HoldsExport, Serves
  <2>3. TypeOK'
    BY <1>1, <1>4, <1>6, <2>1, FaultType DEF Moved, Inv, TypeOK, boundVars
  <2>4. JobsFit' /\ OneWorker'
    BY <1>1, <2>1 DEF Moved, Inv, JobsFit, OneWorker
  <2>5. NoMoreKept
    BY <1>1, <2>1, KeptByFewer
  <2>6. ExportsOwned' /\ ProjectsOwned'
    BY <1>1, <1>4, <1>6, <2>1, <2>2, <2>5, FewerExports, ExportsStay, FewerProjects, ProjectsStay DEF Moved
  <2>7. Backed'
    BY <1>1, <1>4, <1>6, <2>1, <2>2, <2>5, BackedByMore DEF Moved, Spared
  <2>8. Exported'
    BY <1>1, <2>1, <2>5, StillExported DEF Moved
  <2>9. GaneshaFits'
    BY <1>1, <2>1, <2>2, <2>5, GaneshaUntouched DEF Moved
  <2>10. QED
    BY <2>3, <2>4, <2>6, <2>7, <2>8, <2>9 DEF Inv
<1>7. QED
  BY <1>5, <1>6 DEF SetQuota

(* The ids and blocks that the worker had are those of the PV now.         *)
LEMMA SavePVKeeps ==
  ASSUME Inv, NEW w \in Workers, SavePV(w)
  PROVE  Inv'
<1>1. /\ UNCHANGED <<dirs, exports, projects, live>>
      /\ job[w].pc = "save" /\ job[w].task = "provision"
      /\ job[w] \in Job /\ job[w].vol \in Volumes /\ job[w].ids \in IdPair
      /\ job[w].vol \in dirs /\ phase[job[w].vol] = "wanted"
      /\ Mine(w) \in exports.file /\ Mine(w) \in live
      /\ B(job[w].vol, job[w].ids.project) \in projects.file
      /\ OwnExport(job[w].vol, job[w].ids.export) /\ OwnProject(job[w].vol, job[w].ids.project)
      /\ ~HalfDeleted(w) /\ Serves(w)
  BY DEF SavePV, Inv, TypeOK, JobsFit, Job, Tasks, Backed, Exported, HoldsExport,
         HoldsProject, OwnExport, OwnProject, HalfDeleted, Serves
<1>2. UseGanesha => BlocksOf(exports, job[w].vol) = {Mine(w)}
  BY <1>1 DEF Inv, GaneshaFits, ServerFits
<1>3. CASE /\ phase' = [phase EXCEPT ![job[w].vol] = "bound"]
           /\ saved' = [saved EXCEPT ![job[w].vol] = job[w].ids]
           /\ Stop(w) /\ UNCHANGED boundVars
  <2>1. Moved(w, IdleJob)
    BY <1>3, StopMoves DEF Inv
  <2>2. /\ phase' \in [Volumes -> {"wanted", "bound", "released", "gone"}]
        /\ saved' \in [Volumes -> IdPair]
        /\ phase'[job[w].vol] = "bound" /\ saved'[job[w].vol] = job[w].ids
        /\ \A v \in Volumes : v # job[w].vol => phase'[v] = phase[v] /\ saved'[v] = saved[v]
    BY <1>1, <1>3 DEF Inv, TypeOK
  <2>3. TypeOK'
    BY <1>1, <1>3, <2>1, <2>2 DEF Moved, Inv, TypeOK, boundVars
  <2>4. /\ \A x \in Workers : x # w =>
             /\ job'[x] = job[x] /\ Mine(x)' = Mine(x)
             /\ job[x].pc # "idle" => job[x].vol # job[w].vol
             /\ HoldsExport(x)' <=> HoldsExport(x)
             /\ HoldsProject(x)' <=> HoldsProject(x)
             /\ HalfDeleted(x)' <=> HalfDeleted(x)
             /\ Serves(x)' <=> Serves(x)
        /\ job'[w].pc = "idle" /\ job'[w].task = "provision"
        /\ ~HoldsExport(w)' /\ ~HoldsProject(w)' /\ ~HalfDeleted(w)' /\ ~Serves(w)'
    BY <1>1, <2>1, Apart DEF Moved, IdleJob, Mine, B, HoldsExport, HoldsProject, HalfDeleted, Serves
  <2>5. JobsFit' /\ OneWorker'
    <3>1. ASSUME NEW x \in Workers, x # w, job[x].pc # "idle"
          PROVE  phase'[job[x].vol] = phase[job[x].vol] /\ saved'[job[x].vol] = saved[job[x].vol]
      BY <2>2, <2>4, <3>1 DEF Inv, JobsFit
    <3>2. JobsFit'
      BY <1>1, <2>4, <3>1 DEF Inv, JobsFit
    <3>3. OneWorker'
      BY <2>4 DEF Inv, OneWorker
    <3>4. QED
      BY <3>2, <3>3
  <2>6. ASSUME NEW v \in Volumes, v # job[w].vol, Kept(v)' PROVE Kept(v) /\ saved'[v] = saved[v]
    BY <1>1, <2>2, <2>4, <2>6 DEF Kept
  <2>7. ExportsOwned'
    <3>1. ASSUME NEW v \in Volumes, NEW id \in 0 .. MaxId, OwnExport(v, id)' PROVE OwnExport(v, id)
      <4>1. CASE Kept(v)' /\ saved'[v].export = id
        BY <1>1, <2>2, <2>6, <4>1 DEF OwnExport
      <4>2. CASE \E x \in Workers : HoldsExport(x)' /\ job'[x].vol = v /\ job'[x].ids.export = id
        BY <2>4, <4>2 DEF OwnExport
      <4>3. QED
        BY <3>1, <4>1, <4>2 DEF OwnExport
    <3>2. QED
      BY <1>1, <3>1, ExportsStay
  <2>8. ProjectsOwned'
    <3>1. ASSUME NEW v \in Volumes, NEW id \in 0 .. MaxId, OwnProject(v, id)' PROVE OwnProject(v, id)
      <4>1. CASE Kept(v)' /\ saved'[v].project = id
        BY <1>1, <2>2, <2>6, <4>1 DEF OwnProject
      <4>2. CASE \E x \in Workers : HoldsProject(x)' /\ job'[x].vol = v /\ job'[x].ids.project = id
        BY <2>4, <4>2 DEF OwnProject
      <4>3. QED
        BY <3>1, <4>1, <4>2 DEF OwnProject
    <3>2. QED
      BY <1>1, <3>1, ProjectsStay
  <2>9. Backed'
    BY <1>1, <2>2, <2>4, <2>6 DEF Inv, Backed, Mine
  <2>10. Exported'
    BY <1>1, <2>2, <2>4, <2>6 DEF Inv, Exported, Mine
  <2>11. FileFits' /\ (UseGanesha => (ServerFits /\ FileExported)')
    <3>1. FileFits /\ (UseGanesha => ServerFits /\ FileExported)
      BY DEF Inv, GaneshaFits
    <3>2. \A b : Doomed(b)' <=> Doomed(b)
      BY <1>1, <2>4 DEF Doomed
    <3>3. FileFits'
      BY <1>1, <2>4, <3>1, <3>2 DEF FileFits
    <3>g. SUFFICES ASSUME UseGanesha PROVE (ServerFits /\ FileExported)'
      BY <3>3
    <3>h. ServerFits /\ FileExported
      BY <3>1, <3>g
    <3>4. \A v : BlocksOf(exports', v) = BlocksOf(exports, v)
      BY <1>1 DEF BlocksOf
    <3>5. ServerFits'
      <4>1. Distinct(live)'
        BY <1>1, <3>h DEF ServerFits, Distinct
      <4>2. \A v \in Volumes : Kept(v)' => BlocksOf(exports', v) = {B(v, saved'[v].export)}
        BY <1>2, <2>2, <2>6, <3>g, <3>h, <3>4 DEF ServerFits, Mine
      <4>3. QED
        BY <1>1, <2>4, <3>h, <3>4, <4>1, <4>2 DEF ServerFits
    <3>6. FileExported'
      BY <1>1, <2>4, <3>h, <3>4 DEF FileExported
    <3>7. QED
      BY <3>3, <3>5, <3>6
  <2>12. QED
    BY <2>3, <2>5, <2>7, <2>8, <2>9, <2>10, <2>11 DEF Inv, GaneshaFits
<1>4. CASE /\ Fault("save") /\ UNCHANGED <<phase, saved>>
           /\ job' = [job EXCEPT ![w] = [@ EXCEPT !.pc = "directory", !.task = "cleanup"]]
  <2>1. Moved(w, [pc |-> "directory", task |-> "cleanup", vol |-> job[w].vol, ids |-> job[w].ids])
    BY <1>1, <1>4 DEF Moved, Inv, TypeOK, Job, PCs, Tasks
  <2>2. Mine(w)' = Mine(w) /\ job'[w].vol = job[w].vol
    BY <2>1 DEF Moved, Mine
  <2>3. TypeOK'
    BY <1>1, <1>4, <2>1, FaultType DEF Moved, Inv, TypeOK
  <2>4. JobsFit' /\ OneWorker'
    BY <1>1, <1>4, <2>1 DEF Moved, Inv, JobsFit, OneWorker
  <2>5. NoMoreKept
    BY <1>1, <1>4, <2>1, KeptByFewer
  <2>6. ExportsOwned' /\ ProjectsOwned'
    BY <1>1, <2>1, <2>5, FewerExports, ExportsStay, FewerProjects, ProjectsStay DEF Moved
  <2>7. Backed'
    BY <1>1, <2>1, <2>2, <2>5, BackedByMore DEF Moved, Spared
  <2>8. Exported'
    BY <1>1, <2>1, <2>5, StillExported DEF Moved
  <2>9. GaneshaFits'
    BY <1>1, <1>2, <2>1, <2>2, <2>5, GaneshaUntouched DEF Moved
  <2>10. QED
    BY <2>3, <2>4, <2>6, <2>7, <2>8, <2>9 DEF Inv
<1>5. QED
  BY <1>3, <1>4 DEF SavePV
-----------------------------------------------------------------------------
(* Delete and its parts.                                                   *)

LEMMA StartDeleteKeeps ==
  ASSUME Inv, NEW w \in Workers, NEW v \in Volumes, StartDelete(w, v)
  PROVE  Inv'
<1>1. /\ UNCHANGED <<phase, saved, dirs, exports, projects, live, faults, crashes>>
      /\ job[w].pc = "idle" /\ phase[v] = "released" /\ saved[v] \in IdPair
      /\ job' = [job EXCEPT ![w] = [pc |-> "directory", task |-> "delete",
                                    vol |-> v, ids |-> saved[v]]]
      /\ \A x \in Workers : job[x].vol # v
  BY DEF StartDelete, boundVars, Free, Inv, TypeOK
<1>2. Moved(w, [pc |-> "directory", task |-> "delete", vol |-> v, ids |-> saved[v]])
  BY <1>1 DEF Moved, Inv, TypeOK, Job, PCs, Tasks
<1>3. /\ job'[w].pc = "directory" /\ job'[w].task = "delete" /\ job'[w].vol = v
      /\ job'[w].ids = saved[v]
      /\ \A x \in Workers : x # w => job'[x] = job[x] /\ job[x].vol # v
  BY <1>1, <1>2 DEF Moved
<1>4. TypeOK'
  BY <1>1, <1>2 DEF Moved, Inv, TypeOK
<1>5. JobsFit'
  BY <1>1, <1>3 DEF Inv, JobsFit
<1>6. OneWorker'
  BY <1>3 DEF Inv, OneWorker
<1>7. NoMoreKept
  BY <1>1, <1>2, KeptByFewer DEF HalfDeleted
<1>8. ~HoldsExport(w)' /\ ~HoldsProject(w)' /\ ~Serves(w)'
  BY <1>3 DEF HoldsExport, HoldsProject, Serves
<1>9. ExportsOwned' /\ ProjectsOwned'
  BY <1>1, <1>2, <1>7, <1>8, FewerExports, FewerProjects, ExportsStay, ProjectsStay
<1>10. Backed'
  BY <1>1, <1>2, <1>3, <1>7, <1>8, BackedByMore DEF Spared
<1>11. Exported'
  BY <1>1, <1>2, <1>3, <1>7, StillExported
<1>12. GaneshaFits'
  BY <1>1, <1>2, <1>3, <1>7, <1>8, GaneshaUntouched
<1>13. QED
  BY <1>4, <1>5, <1>6, <1>9, <1>10, <1>11, <1>12 DEF Inv

(* The PV that is deleted keeps its ids until its directory is gone.       *)
LEMMA DeletesOwn ==
  ASSUME Inv, NEW w \in Workers, job[w].pc = "directory", job[w].task # "undo"
  PROVE  /\ job[w].vol \in Volumes /\ job[w].task \in {"cleanup", "delete"}
         /\ OwnExport(job[w].vol, job[w].ids.export)
         /\ OwnProject(job[w].vol, job[w].ids.project)
         /\ Mine(w) \in exports.file
         /\ UseGanesha => Mine(w) \in live /\ BlocksOf(exports, job[w].vol) = {Mine(w)}
<1>1. job[w].vol \in Volumes /\ job[w].task \in {"cleanup", "delete"}
  BY DEF Inv, JobsFit, TypeOK, Job, Tasks
<1>2. CASE job[w].task = "cleanup"
  <2>1. HoldsExport(w) /\ HoldsProject(w) /\ Serves(w)
    BY <1>2 DEF HoldsExport, HoldsProject, Serves
  <2>2. QED
    BY <1>1, <2>1 DEF OwnExport, OwnProject, Inv, Backed, GaneshaFits, ServerFits
<1>3. CASE job[w].task = "delete"
  <2>1. phase[job[w].vol] = "released" /\ job[w].ids = saved[job[w].vol]
    BY <1>3 DEF Inv, JobsFit
  <2>2. \A x \in Workers : job[x].vol = job[w].vol => ~HalfDeleted(x)
    BY Apart DEF HalfDeleted
  <2>3. Kept(job[w].vol)
    BY <2>1, <2>2 DEF Kept
  <2>4. Mine(w) = B(job[w].vol, saved[job[w].vol].export)
    BY <2>1 DEF Mine
  <2>5. QED
    BY <1>1, <2>1, <2>3, <2>4 DEF OwnExport, OwnProject, Inv, Backed, Exported, GaneshaFits, ServerFits
<1>4. QED
  BY <1>1, <1>2, <1>3

(* The directory goes first, and with it the PV stops being served.        *)
LEMMA RemoveDirectoryKeeps ==
  ASSUME Inv, NEW w \in Workers, RemoveDirectory(w)
  PROVE  Inv'
<1>1. /\ UNCHANGED <<phase, saved, exports, projects, live>>
      /\ job[w].pc = "directory" /\ ~HalfDeleted(w) /\ job[w].vol \in Volumes
  BY DEF RemoveDirectory, HalfDeleted, Inv, JobsFit
<1>2. job[w].task # "delete" => phase[job[w].vol] = "wanted"
  BY <1>1 DEF Inv, JobsFit
<1>3. CASE job[w].task # "undo" /\ dirs' = dirs \ {job[w].vol} /\ Step(w, "freeExport") /\ UNCHANGED boundVars
  <2>1. Moved(w, [pc |-> "freeExport", task |-> job[w].task, vol |-> job[w].vol, ids |-> job[w].ids])
    BY <1>3, StepMoves DEF Inv, PCs
  <2>2. HalfDeleted(w)' /\ Mine(w)' = Mine(w) /\ job'[w].vol = job[w].vol
    BY <2>1 DEF Moved, HalfDeleted, Mine
  <2>3. TypeOK'
    BY <1>1, <1>3, <2>1 DEF Moved, Inv, TypeOK, boundVars
  <2>4. JobsFit' /\ OneWorker'
    <3>1. \A x \in Workers : x # w /\ job[x].pc # "idle" => job[x].vol # job[w].vol
      BY <1>1, Apart
    <3>2. job[w].task \in {"cleanup", "delete"}
      BY <1>1, <1>3, DeletesOwn
    <3>3. JobsFit'
      BY <1>1, <1>3, <2>1, <3>1, <3>2 DEF Moved, Inv, JobsFit
    <3>4. OneWorker'
      BY <1>1, <2>1 DEF Moved, Inv, OneWorker
    <3>5. QED
      BY <3>3, <3>4
  <2>5. NoMoreKept
    BY <1>1, <2>1, KeptByFewer
  <2>6. ExportsOwned' /\ ProjectsOwned'
    BY <1>1, <1>3, <2>1, <2>5, DeletesOwn, FewerExports, ExportsStay, FewerProjects, ProjectsStay DEF Moved
  <2>7. \A v \in Volumes : v # job[w].vol => Spared(v)
    BY <1>1, <1>3 DEF Spared
  <2>8. ~Kept(job[w].vol)'
    BY <2>2 DEF Kept
  <2>9. Backed'
    BY <1>1, <1>3, <2>1, <2>2, <2>5, <2>7, <2>8, DeletesOwn, BackedByMore DEF Moved
  <2>10. Exported'
    BY <1>1, <2>1, <2>5, StillExported DEF Moved
  <2>11. GaneshaFits'
    BY <1>1, <1>3, <2>1, <2>2, <2>5, DeletesOwn, GaneshaUntouched DEF Moved
  <2>12. QED
    BY <2>3, <2>4, <2>6, <2>9, <2>10, <2>11 DEF Inv
<1>4. CASE /\ \/ UNCHANGED boundVars \/ Fault("removeDirectory")
           /\ \/ UNCHANGED dirs
              \/ dirs' = dirs \ {job[w].vol} /\ job[w].task = "undo"
           /\ Stop(w)
  <2>1. Moved(w, IdleJob)
    BY <1>4, StopMoves DEF Inv
  <2>2. /\ job'[w].pc = "idle" /\ job'[w].task = "provision"
        /\ ~HoldsExport(w)' /\ ~HoldsProject(w)' /\ ~Serves(w)'
    BY <2>1 DEF Moved, IdleJob, HoldsExport, HoldsProject, Serves
  <2>3. TypeOK'
    BY <1>1, <1>4, <2>1, FaultType DEF Moved, Inv, TypeOK, boundVars
  <2>4. JobsFit' /\ OneWorker'
    <3>1. \A x \in Workers : x # w =>
            job'[x] = job[x] /\ (job[x].pc # "idle" => job[x].vol # job[w].vol)
      BY <1>1, <2>1, Apart DEF Moved
    <3>2. JobsFit'
      BY <1>1, <1>4, <2>2, <3>1 DEF Inv, JobsFit
    <3>3. OneWorker'
      BY <2>2, <3>1 DEF Inv, OneWorker
    <3>4. QED
      BY <3>2, <3>3
  <2>5. NoMoreKept
    BY <1>1, <2>1, KeptByFewer
  <2>6. ExportsOwned' /\ ProjectsOwned'
    BY <1>1, <2>1, <2>2, <2>5, FewerExports, ExportsStay, FewerProjects, ProjectsStay
  <2>7. \A v \in Volumes : v # job[w].vol => Spared(v)
    BY <1>1, <1>4 DEF Spared
  <2>8. \A v \in Volumes : Kept(v)' => Spared(v)
    <3>1. CASE UNCHANGED dirs
      BY <1>1, <3>1 DEF Spared
    <3>2. CASE job[w].task = "undo"
      BY <1>1, <1>2, <2>7, <3>2 DEF Kept
    <3>3. QED
      BY <1>4, <3>1, <3>2
  <2>9. Backed'
    BY <1>1, <2>1, <2>2, <2>5, <2>7, <2>8, BackedByMore
  <2>10. Exported'
    BY <1>1, <2>1, <2>2, <2>5, StillExported
  <2>11. GaneshaFits'
    BY <1>1, <2>1, <2>2, <2>5, GaneshaUntouched
  <2>12. QED
    BY <2>3, <2>4, <2>6, <2>9, <2>10, <2>11 DEF Inv
<1>5. CASE Fault("removeDirectory") /\ UNCHANGED dirs /\ job[w].task = "cleanup" /\ Step(w, "directory")
  <2>1. Moved(w, job[w])
    BY <1>1, <1>5, StepMoves DEF Inv, PCs, TypeOK, Job, Moved
  <2>2. job' = job
    BY <1>1, <1>5, <2>1 DEF Moved, Inv, TypeOK
  <2>3. TypeOK'
    BY <1>1, <1>5, <2>2, FaultType DEF Inv, TypeOK
  <2>4. JobsFit' /\ OneWorker' /\ ExportsOwned' /\ ProjectsOwned' /\ Backed' /\ Exported'
    BY <1>1, <1>5, <2>2 DEF Inv, JobsFit, OneWorker, ExportsOwned, ProjectsOwned, Backed, Exported,
                            OwnExport, OwnProject, Kept, HoldsExport, HoldsProject, HalfDeleted, Mine
  <2>5. GaneshaFits'
    BY <1>1, <2>2 DEF Inv, GaneshaFits, FileFits, ServerFits, FileExported, Distinct, Doomed,
                      Serves, Mine, Kept, HalfDeleted, BlocksOf
  <2>6. QED
    BY <2>3, <2>4, <2>5 DEF Inv
<1>6. QED
  BY <1>3, <1>4, <1>5 DEF RemoveDirectory, StopDelete

(* The id is free while its block is still in the file.                    *)
LEMMA FreeExportIdKeeps ==
  ASSUME Inv, NEW w \in Workers, FreeExportId(w)
  PROVE  Inv'
<1>1. /\ UNCHANGED <<phase, saved, dirs, projects, live, faults, crashes>>
      /\ job[w].pc = "freeExport" /\ HalfDeleted(w) /\ job[w].vol \in Volumes
      /\ exports' = DeleteID(exports, job[w].ids.export) /\ exports \in Store
      /\ Mine(w) \in exports.file
      /\ OwnExport(job[w].vol, job[w].ids.export)
  BY DEF FreeExportId, boundVars, HalfDeleted, Inv, TypeOK, JobsFit, Backed, HoldsExport, OwnExport
<1>2. Moved(w, [pc |-> "exportFile", task |-> job[w].task, vol |-> job[w].vol, ids |-> job[w].ids])
  BY StepMoves DEF FreeExportId, Inv, PCs
<1>3. /\ exports'.ids = exports.ids \ {job[w].ids.export} /\ exports'.file = exports.file
      /\ exports' \in Store
  BY <1>1 DEF DeleteID, Store
<1>4. /\ HalfDeleted(w)' /\ ~HoldsExport(w)' /\ Mine(w)' = Mine(w) /\ job'[w].vol = job[w].vol
      /\ Serves(w)' <=> Serves(w)
      /\ HoldsProject(w)' => OwnProject(job[w].vol, job'[w].ids.project)
      /\ Mine(w).vol = job[w].vol /\ Mine(w).id = job[w].ids.export
  BY <1>1, <1>2 DEF Moved, HalfDeleted, HoldsExport, Mine, Serves, HoldsProject, OwnProject, B
<1>5. TypeOK'
  BY <1>1, <1>2, <1>3 DEF Moved, Inv, TypeOK
<1>6. JobsFit' /\ OneWorker'
  BY <1>1, <1>2 DEF Moved, Inv, JobsFit, OneWorker
<1>7. NoMoreKept
  BY <1>1, <1>2, <1>4, KeptByFewer
<1>8. ExportsOwned'
  BY <1>1, <1>2, <1>3, <1>4, <1>7, ExportGoes
<1>9. ProjectsOwned'
  BY <1>1, <1>2, <1>4, <1>7, FewerProjects, ProjectsStay
<1>10. Backed'
  BY <1>1, <1>2, <1>3, <1>4, <1>7, BackedByMore DEF Moved, Spared
<1>11. Exported'
  BY <1>1, <1>2, <1>7, StillExported DEF Moved
<1>12. FileFits' /\ (UseGanesha => (ServerFits /\ FileExported)')
  <2>1. FileFits /\ (UseGanesha => ServerFits /\ FileExported)
    BY DEF Inv, GaneshaFits
  <2>2. \A x \in Workers : x # w =>
          /\ job'[x] = job[x] /\ Mine(x)' = Mine(x) /\ (Serves(x)' <=> Serves(x))
          /\ job[x].pc # "idle" => job[x].vol # job[w].vol
    BY <1>1, <1>2, Apart DEF Moved, Mine, B, Serves
  <2>3. job'[w].pc = "exportFile"
    BY <1>2 DEF Moved
  <2>4. \A b : Doomed(b)' <=> Doomed(b) \/ b = Mine(w)
    BY <1>1, <1>4, <2>2, <2>3 DEF Doomed
  <2>5. ~Doomed(Mine(w))
    BY <1>1, <2>2 DEF Doomed, Mine, B
  <2>6. FileFits'
    BY <1>1, <1>3, <1>4, <2>1, <2>2, <2>3, <2>4, <2>5 DEF FileFits
  <2>g. SUFFICES ASSUME UseGanesha PROVE (ServerFits /\ FileExported)'
    BY <2>6
  <2>h. ServerFits /\ FileExported
    BY <2>1, <2>g
  <2>7. \A v : BlocksOf(exports', v) = BlocksOf(exports, v)
    BY <1>3 DEF BlocksOf
  <2>8. ServerFits'
    BY <1>1, <1>4, <1>7, <2>h, <2>2, <2>3, <2>7 DEF ServerFits, Distinct, NoMoreKept
  <2>9. FileExported'
    BY <1>1, <1>4, <2>h, <2>2, <2>3, <2>7 DEF FileExported
  <2>10. QED
    BY <2>6, <2>8, <2>9
<1>13. QED
  BY <1>5, <1>6, <1>8, <1>9, <1>10, <1>11, <1>12 DEF Inv, GaneshaFits

(* With the block, the last of what made its id look used is gone.         *)
LEMMA RemoveExportBlockKeeps ==
  ASSUME DeletesGoThrough, Inv, NEW w \in Workers, RemoveExportBlock(w)
  PROVE  Inv'
<1>1. /\ UNCHANGED <<phase, saved, dirs, projects, live, faults, crashes>>
      /\ job[w].pc = "exportFile" /\ HalfDeleted(w) /\ job[w].vol \in Volumes /\ exports \in Store
      /\ exports' = RemoveFromFile(exports, Mine(w))
      /\ Step(w, IF job[w].task = "undo" THEN "directory" ELSE "unexport")
  BY DEF RemoveExportBlock, DeletesGoThrough, Fault, boundVars, HalfDeleted, Inv, TypeOK, JobsFit, Mine
<1>2. DEFINE next == IF job[w].task = "undo" THEN "directory" ELSE "unexport"
<1>3. Moved(w, [pc |-> next, task |-> job[w].task, vol |-> job[w].vol, ids |-> job[w].ids])
  <2>1. next \in PCs
    BY DEF PCs
  <2>2. QED
    BY <1>1, <2>1, StepMoves DEF Inv
<1>4. /\ exports'.ids = exports.ids /\ exports'.file = exports.file \ {Mine(w)} /\ exports' \in Store
  BY <1>1 DEF RemoveFromFile, Store
<1>5. Mine(w).vol = job[w].vol /\ Mine(w).id = job[w].ids.export
  BY DEF Mine, B
<1>6. /\ job'[w].pc = next /\ job'[w].task = job[w].task /\ job'[w].vol = job[w].vol
      /\ ~HoldsExport(w)' /\ Mine(w)' = Mine(w)
      /\ Serves(w)' <=> Serves(w)
      /\ HoldsProject(w)' => OwnProject(job[w].vol, job'[w].ids.project)
      /\ HalfDeleted(w)' \/ job[w].task = "undo"
  BY <1>1, <1>3 DEF Moved, HalfDeleted, HoldsExport, Mine, Serves, HoldsProject, OwnProject
<1>7. job[w].task = "undo" => phase[job[w].vol] = "wanted"
  BY <1>1 DEF Inv, JobsFit
<1>8. TypeOK'
  BY <1>1, <1>3, <1>4 DEF Moved, Inv, TypeOK
<1>9. JobsFit' /\ OneWorker'
  BY <1>1, <1>3 DEF Moved, Inv, JobsFit, OneWorker
<1>10. NoMoreKept
  BY <1>1, <1>3, <1>6, <1>7, KeptByFewer
<1>11. ExportsOwned' /\ ProjectsOwned'
  BY <1>1, <1>3, <1>4, <1>6, <1>10, FewerExports, ExportsStay, FewerProjects, ProjectsStay
<1>12. ~Kept(job[w].vol)
  BY <1>1 DEF Kept
<1>13. \A v \in Volumes : v # job[w].vol => Spared(v)
  BY <1>1, <1>4 DEF Spared, Mine, B
<1>14. Backed'
  BY <1>1, <1>3, <1>6, <1>10, <1>12, <1>13, BackedByMore DEF NoMoreKept
<1>15. Exported'
  BY <1>1, <1>3, <1>6, <1>10, StillExported
<1>16. FileFits' /\ (UseGanesha => (ServerFits /\ FileExported)')
  <2>1. FileFits /\ (UseGanesha => ServerFits /\ FileExported)
    BY DEF Inv, GaneshaFits
  <2>2. \A x \in Workers : x # w =>
          /\ job'[x] = job[x] /\ Mine(x)' = Mine(x) /\ (Serves(x)' <=> Serves(x))
          /\ job[x].pc # "idle" => job[x].vol # job[w].vol
    BY <1>1, <1>3, Apart DEF Moved, Mine, B, Serves
  <2>3. \A b : b # Mine(w) => (Doomed(b)' <=> Doomed(b))
    BY <1>6, <2>2 DEF Doomed
  <2>4. FileFits'
    <3>1. \A b \in exports'.file : b \in exports.file /\ b # Mine(w)
      BY <1>4
    <3>2. \A x \in Workers : job'[x].pc = "exportBlock" => x # w
      BY <1>6
    <3>3. QED
      BY <1>4, <2>1, <2>2, <2>3, <3>1, <3>2 DEF FileFits
  <2>g. SUFFICES ASSUME UseGanesha PROVE (ServerFits /\ FileExported)'
    BY <2>4
  <2>h. ServerFits /\ FileExported
    BY <2>1, <2>g
  <2>5. \A v : v # job[w].vol => BlocksOf(exports', v) = BlocksOf(exports, v)
    BY <1>4, <1>5 DEF BlocksOf
  <2>6. ServerFits'
    <3>1. Distinct(live)'
      BY <1>1, <2>h DEF ServerFits, Distinct
    <3>2. \A v \in Volumes : Kept(v)' => BlocksOf(exports', v) = {B(v, saved'[v].export)}
      BY <1>10, <1>12, <2>h, <2>5 DEF ServerFits, NoMoreKept
    <3>3. ASSUME NEW x \in Workers, Serves(x)'
          PROVE  /\ Mine(x)' \in live'
                 /\ BlocksOf(exports', job'[x].vol) = IF job'[x].pc = "unexport" THEN {} ELSE {Mine(x)'}
      <4>1. CASE x = w
        <5>1. Serves(w) /\ job'[w].pc = "unexport"
          BY <1>1, <1>6, <3>3, <4>1 DEF Serves
        <5>2. Mine(w) \in live /\ BlocksOf(exports, job[w].vol) = {Mine(w)}
          BY <1>1, <2>h, <5>1 DEF ServerFits
        <5>3. BlocksOf(exports', job[w].vol) = {}
          BY <1>4, <5>2 DEF BlocksOf
        <5>4. QED
          BY <1>1, <1>6, <4>1, <5>1, <5>2, <5>3
      <4>2. CASE x # w
        <5>1. Serves(x) /\ job[x].vol # job[w].vol
          BY <2>2, <3>3, <4>2 DEF Serves, Inv, JobsFit
        <5>2. QED
          BY <1>1, <2>h, <2>2, <2>5, <4>2, <5>1 DEF ServerFits
      <4>3. QED
        BY <4>1, <4>2
    <3>4. QED
      BY <3>1, <3>2, <3>3 DEF ServerFits
  <2>7. FileExported'
    <3>1. SUFFICES ASSUME NEW v \in Volumes,
                          ~\E b \in live : b.vol = v, BlocksOf(exports', v) # {}
                   PROVE  \E x \in Workers :
                            /\ job'[x].vol = v /\ job'[x].pc \in {"export", "freeExport", "exportFile"}
                            /\ BlocksOf(exports', v) \subseteq {Mine(x)'}
      BY <1>1 DEF FileExported
    <3>2. BlocksOf(exports', v) \subseteq BlocksOf(exports, v) \ {Mine(w)}
      BY <1>4 DEF BlocksOf
    <3>3. PICK x \in Workers :
            /\ job[x].vol = v /\ job[x].pc \in {"export", "freeExport", "exportFile"}
            /\ BlocksOf(exports, v) \subseteq {Mine(x)}
      BY <2>h, <3>1, <3>2 DEF FileExported
    <3>4. x # w
      BY <3>1, <3>2, <3>3
    <3>5. QED
      BY <2>2, <3>2, <3>3, <3>4
  <2>8. QED
    BY <2>4, <2>6, <2>7
<1>17. QED
  BY <1>8, <1>9, <1>11, <1>14, <1>15, <1>16 DEF Inv, GaneshaFits

(* Ganesha knows the id, and under this id no other volume.                *)
LEMMA UnexportKeeps ==
  ASSUME DeletesGoThrough, Inv, NEW w \in Workers, Unexport(w)
  PROVE  Inv'
<1>1. /\ job[w].pc = "unexport" /\ HalfDeleted(w) /\ job[w].vol \in Volumes
      /\ job[w].task # "undo" /\ Serves(w) /\ live \subseteq Block /\ exports \in Store
      /\ Mine(w).vol = job[w].vol /\ Mine(w).id = job[w].ids.export
  BY DEF Unexport, HalfDeleted, Inv, TypeOK, JobsFit, Serves, Mine, B
<1>2. UseGanesha => /\ Mine(w) \in live /\ Distinct(live)
                    /\ BlocksOf(exports, job[w].vol) = {}
  BY <1>1 DEF Inv, GaneshaFits, ServerFits
<1>3. /\ ServerWithdraws(job[w].ids.export) /\ Step(w, "freeProject")
      /\ UNCHANGED <<phase, saved, dirs, exports, projects, faults, crashes>>
  BY <1>1, <1>2 DEF Unexport, DeletesGoThrough, Fault, boundVars
<1>4. Moved(w, [pc |-> "freeProject", task |-> job[w].task, vol |-> job[w].vol, ids |-> job[w].ids])
  BY <1>3, StepMoves DEF Inv, PCs
<1>5. /\ HalfDeleted(w)' /\ ~HoldsExport(w)' /\ ~Serves(w)' /\ Mine(w)' = Mine(w)
      /\ job'[w].vol = job[w].vol /\ job'[w].pc = "freeProject"
      /\ OwnProject(job[w].vol, job'[w].ids.project)
  BY <1>1, <1>4 DEF Moved, HalfDeleted, HoldsExport, Serves, Mine, HoldsProject, OwnProject
<1>6. UseGanesha => live' = live \ {Mine(w)}
  <2>1. UseGanesha => live' = {b \in live : b.id # job[w].ids.export}
    BY <1>3 DEF ServerWithdraws, RemoveExport
  <2>2. QED
    BY <1>1, <1>2, <2>1 DEF Distinct
<1>7. ~UseGanesha => live' = exports.file
  BY <1>3 DEF ServerWithdraws, ReExport
<1>8. TypeOK'
  BY <1>1, <1>3, <1>4, <1>6, <1>7 DEF Moved, Inv, TypeOK, Store
<1>9. JobsFit' /\ OneWorker'
  BY <1>1, <1>3, <1>4 DEF Moved, Inv, JobsFit, OneWorker
<1>10. NoMoreKept
  BY <1>3, <1>4, <1>5, KeptByFewer
<1>11. ExportsOwned' /\ ProjectsOwned'
  BY <1>1, <1>3, <1>4, <1>5, <1>10, FewerExports, ExportsStay, FewerProjects, ProjectsStay
<1>12. Backed'
  BY <1>1, <1>3, <1>4, <1>5, <1>10, BackedByMore DEF Spared
<1>13. ~Kept(job[w].vol)
  BY <1>1 DEF Kept
<1>14. \A x \in Workers : x # w =>
         /\ job'[x] = job[x] /\ Mine(x)' = Mine(x) /\ (Serves(x)' <=> Serves(x))
         /\ job[x].pc # "idle" => job[x].vol # job[w].vol
         /\ Mine(x).vol = job[x].vol
  BY <1>1, <1>4, Apart DEF Moved, Mine, B, Serves
<1>15. Exported'
  <2>1. CASE UseGanesha
    <3>1. ASSUME NEW v \in Volumes, Kept(v)' PROVE B(v, saved'[v].export) \in live'
      <4>1. Kept(v) /\ saved'[v] = saved[v] /\ v # job[w].vol
        BY <1>10, <1>13, <3>1 DEF NoMoreKept
      <4>2. B(v, saved[v].export).vol # Mine(w).vol
        BY <1>1, <4>1 DEF B
      <4>3. QED
        BY <1>6, <2>1, <4>1, <4>2 DEF Inv, Exported
    <3>2. ASSUME NEW x \in Workers, job'[x].pc \in {"projectId", "quota", "save"}
          PROVE  Mine(x)' \in live'
      BY <1>1, <1>5, <1>6, <1>14, <2>1, <3>2 DEF Inv, Exported
    <3>3. QED
      BY <3>1, <3>2 DEF Exported
  <2>2. CASE ~UseGanesha
    <3>1. live' = exports'.file
      BY <1>3, <1>7, <2>2
    <3>2. QED
      BY <1>12, <3>1 DEF Backed, Exported, HoldsExport
  <2>3. QED
    BY <2>1, <2>2
<1>16. FileFits' /\ (UseGanesha => (ServerFits /\ FileExported)')
  <2>1. FileFits /\ (UseGanesha => ServerFits /\ FileExported)
    BY DEF Inv, GaneshaFits
  <2>2. \A b : Doomed(b)' <=> Doomed(b)
    BY <1>1, <1>5, <1>14 DEF Doomed
  <2>3. FileFits'
    BY <1>3, <1>5, <1>14, <2>1, <2>2 DEF FileFits
  <2>g. SUFFICES ASSUME UseGanesha PROVE (ServerFits /\ FileExported)'
    BY <2>3
  <2>h. ServerFits /\ FileExported
    BY <2>1, <2>g
  <2>4. \A v : BlocksOf(exports', v) = BlocksOf(exports, v)
    BY <1>3 DEF BlocksOf
  <2>5. ServerFits'
    <3>1. Distinct(live)'
      BY <1>6, <2>g, <2>h DEF ServerFits, Distinct
    <3>2. \A x \in Workers : Serves(x)' => x # w /\ Serves(x) /\ job[x].vol # job[w].vol
      BY <1>5, <1>14 DEF Serves, Inv, JobsFit
    <3>3. \A x \in Workers : Serves(x)' => Mine(x)' \in live'
      BY <1>1, <1>6, <1>14, <2>g, <2>h, <3>2 DEF ServerFits
    <3>4. QED
      BY <1>10, <1>14, <2>h, <2>4, <3>1, <3>2, <3>3 DEF ServerFits, NoMoreKept
  <2>6. FileExported'
    <3>1. SUFFICES ASSUME NEW v \in Volumes, ~\E b \in live' : b.vol = v
                   PROVE  \/ BlocksOf(exports', v) = {}
                          \/ \E x \in Workers :
                               /\ job'[x].vol = v /\ job'[x].pc \in {"export", "freeExport", "exportFile"}
                               /\ BlocksOf(exports', v) \subseteq {Mine(x)'}
      BY DEF FileExported
    <3>2. CASE v = job[w].vol
      BY <1>2, <2>g, <2>4, <3>2
    <3>3. CASE v # job[w].vol
      <4>1. ~\E b \in live : b.vol = v
        BY <1>1, <1>6, <2>g, <3>1, <3>3
      <4>2. QED
        BY <1>1, <1>14, <2>h, <2>4, <4>1 DEF FileExported
    <3>4. QED
      BY <3>2, <3>3
  <2>7. QED
    BY <2>3, <2>5, <2>6
<1>17. QED
  BY <1>8, <1>9, <1>11, <1>12, <1>15, <1>16 DEF Inv, GaneshaFits

LEMMA FreeProjectIdKeeps ==
  ASSUME Inv, NEW w \in Workers, FreeProjectId(w)
  PROVE  Inv'
<1>1. /\ UNCHANGED <<phase, saved, dirs, exports, live, faults, crashes>>
      /\ job[w].pc = "freeProject" /\ HalfDeleted(w) /\ job[w].vol \in Volumes
      /\ projects' = DeleteID(projects, job[w].ids.project) /\ projects \in Store
      /\ OwnProject(job[w].vol, job[w].ids.project)
  BY DEF FreeProjectId, boundVars, HalfDeleted, Inv, TypeOK, JobsFit, HoldsProject, OwnProject
<1>2. Moved(w, [pc |-> "projectFile", task |-> job[w].task, vol |-> job[w].vol, ids |-> job[w].ids])
  BY StepMoves DEF FreeProjectId, Inv, PCs
<1>3. /\ projects'.ids = projects.ids \ {job[w].ids.project} /\ projects'.file = projects.file
      /\ projects' \in Store
  BY <1>1 DEF DeleteID, Store
<1>4. /\ HalfDeleted(w)' /\ ~HoldsExport(w)' /\ ~HoldsProject(w)' /\ ~Serves(w)'
      /\ job'[w].vol = job[w].vol /\ job'[w].pc = "projectFile"
  BY <1>2 DEF Moved, HalfDeleted, HoldsExport, HoldsProject, Serves
<1>5. TypeOK'
  BY <1>1, <1>2, <1>3 DEF Moved, Inv, TypeOK
<1>6. JobsFit' /\ OneWorker'
  BY <1>1, <1>2 DEF Moved, Inv, JobsFit, OneWorker
<1>7. NoMoreKept
  BY <1>1, <1>2, <1>4, KeptByFewer
<1>8. ProjectsOwned'
  BY <1>1, <1>2, <1>3, <1>4, <1>7, ProjectGoes
<1>9. ExportsOwned'
  BY <1>1, <1>2, <1>4, <1>7, FewerExports, ExportsStay
<1>10. Backed'
  BY <1>1, <1>2, <1>3, <1>4, <1>7, BackedByMore DEF Spared
<1>11. Exported'
  BY <1>1, <1>2, <1>4, <1>7, StillExported
<1>12. GaneshaFits'
  BY <1>1, <1>2, <1>4, <1>7, GaneshaUntouched
<1>13. QED
  BY <1>5, <1>6, <1>8, <1>9, <1>10, <1>11, <1>12 DEF Inv

LEMMA RemoveProjectKeeps ==
  ASSUME DeletesGoThrough, Inv, NEW w \in Workers, RemoveProject(w)
  PROVE  Inv'
<1>1. /\ UNCHANGED <<phase, saved, dirs, exports, live, faults, crashes>>
      /\ job[w].pc = "projectFile" /\ HalfDeleted(w) /\ job[w].vol \in Volumes
      /\ projects' = RemoveFromFile(projects, B(job[w].vol, job[w].ids.project))
      /\ projects \in Store /\ job[w].task \in {"undo", "cleanup", "delete"}
  BY DEF RemoveProject, DeletesGoThrough, Fault, boundVars, HalfDeleted, Inv, TypeOK, JobsFit, Job, Tasks
<1>2. job[w].task # "delete" => phase[job[w].vol] = "wanted"
  BY <1>1 DEF Inv, JobsFit
<1>3. PICK r \in Job :
        /\ Moved(w, r) /\ r.pc \in {"directory", "idle", "removePV"}
        /\ r.pc = "directory" => r.task = "undo" /\ job[w].task = "undo"
        /\ r.pc = "idle" => r.task = "provision" /\ r.vol = NoVolume /\ job[w].task = "cleanup"
        /\ r.pc = "removePV" => r.task = "delete" /\ job[w].task = "delete"
        /\ r.pc # "idle" => r.vol = job[w].vol /\ r.ids = job[w].ids
  <2>1. CASE job[w].task = "undo"
    <3>1. Step(w, "directory")
      BY <2>1 DEF RemoveProject
    <3>2. Moved(w, [pc |-> "directory", task |-> "undo", vol |-> job[w].vol, ids |-> job[w].ids])
      BY <2>1, <3>1, StepMoves DEF Inv, PCs
    <3>3. QED
      BY <2>1, <3>2 DEF Moved
  <2>2. CASE job[w].task = "cleanup"
    <3>1. Stop(w)
      BY <1>1, <2>2 DEF RemoveProject, DeletesGoThrough, Fault
    <3>2. Moved(w, IdleJob)
      BY <3>1, StopMoves DEF Inv
    <3>3. QED
      BY <2>2, <3>2 DEF Moved, IdleJob
  <2>3. CASE job[w].task = "delete"
    <3>1. Step(w, "removePV")
      BY <1>1, <2>3 DEF RemoveProject, DeletesGoThrough, Fault
    <3>2. Moved(w, [pc |-> "removePV", task |-> "delete", vol |-> job[w].vol, ids |-> job[w].ids])
      BY <2>3, <3>1, StepMoves DEF Inv, PCs
    <3>3. QED
      BY <2>3, <3>2 DEF Moved
  <2>4. QED
    BY <1>1, <2>1, <2>2, <2>3
<1>4. /\ projects'.ids = projects.ids /\ projects' \in Store
      /\ projects'.file = projects.file \ {B(job[w].vol, job[w].ids.project)}
  BY <1>1 DEF RemoveFromFile, Store
<1>5. /\ job'[w] = r /\ ~HoldsExport(w)' /\ ~HoldsProject(w)' /\ ~Serves(w)'
      /\ r.pc = "removePV" => HalfDeleted(w)'
  BY <1>3 DEF Moved, HalfDeleted, HoldsExport, HoldsProject, Serves
<1>6. TypeOK'
  BY <1>1, <1>3, <1>4 DEF Moved, Inv, TypeOK
<1>7. JobsFit' /\ OneWorker'
  BY <1>1, <1>3 DEF Moved, Inv, JobsFit, OneWorker
<1>8. NoMoreKept
  <2>1. ~HalfDeleted(w) \/ (HalfDeleted(w)' /\ r.vol = job[w].vol) \/ phase[job[w].vol] = "wanted"
    BY <1>2, <1>3, <1>5
  <2>2. QED
    BY <1>1, <1>3, <2>1, KeptByFewer
<1>9. ExportsOwned' /\ ProjectsOwned'
  BY <1>1, <1>3, <1>4, <1>5, <1>8, FewerExports, ExportsStay, FewerProjects, ProjectsStay
<1>10. ~Kept(job[w].vol)
  BY <1>1 DEF Kept
<1>11. \A v \in Volumes : v # job[w].vol => Spared(v)
  BY <1>1, <1>4 DEF Spared, B
<1>12. Backed'
  BY <1>1, <1>3, <1>5, <1>8, <1>10, <1>11, BackedByMore DEF NoMoreKept
<1>13. Exported'
  BY <1>1, <1>3, <1>5, <1>8, StillExported
<1>14. GaneshaFits'
  BY <1>1, <1>3, <1>5, <1>8, GaneshaUntouched
<1>15. QED
  BY <1>6, <1>7, <1>9, <1>12, <1>13, <1>14 DEF Inv

(* Nothing of the volume is left to remember.                              *)
LEMMA RemovePVKeeps ==
  ASSUME DeletesGoThrough, Inv, NEW w \in Workers, RemovePV(w)
  PROVE  Inv'
<1>1. /\ UNCHANGED <<dirs, exports, projects, live, faults, crashes>>
      /\ job[w].pc = "removePV" /\ job[w].vol \in Volumes /\ Stop(w)
      /\ phase' = [phase EXCEPT ![job[w].vol] = "gone"]
      /\ saved' = [saved EXCEPT ![job[w].vol] = NoIds]
  BY DEF RemovePV, DeletesGoThrough, Fault, boundVars, Inv, JobsFit
<1>2. Moved(w, IdleJob)
  BY <1>1, StopMoves DEF Inv
<1>3. /\ phase' \in [Volumes -> {"wanted", "bound", "released", "gone"}]
      /\ saved' \in [Volumes -> IdPair]
      /\ phase'[job[w].vol] = "gone"
      /\ \A v \in Volumes : v # job[w].vol => phase'[v] = phase[v] /\ saved'[v] = saved[v]
  <2>1. NoIds \in IdPair
    BY NfsAssumption DEF NoIds, IdPair
  <2>2. QED
    BY <1>1, <2>1 DEF Inv, TypeOK
<1>4. /\ job'[w].pc = "idle" /\ job'[w].task = "provision"
      /\ ~HoldsExport(w)' /\ ~HoldsProject(w)' /\ ~Serves(w)'
      /\ \A x \in Workers : x # w =>
           /\ job'[x] = job[x] /\ (HalfDeleted(x)' <=> HalfDeleted(x))
           /\ job[x].pc # "idle" => job[x].vol # job[w].vol
  BY <1>1, <1>2, Apart DEF Moved, IdleJob, HoldsExport, HoldsProject, Serves, HalfDeleted
<1>5. TypeOK'
  BY <1>1, <1>2, <1>3 DEF Moved, Inv, TypeOK
<1>6. JobsFit' /\ OneWorker'
  <2>1. ASSUME NEW x \in Workers, x # w, job[x].pc # "idle"
        PROVE  phase'[job[x].vol] = phase[job[x].vol] /\ saved'[job[x].vol] = saved[job[x].vol]
    BY <1>3, <1>4, <2>1 DEF Inv, JobsFit
  <2>2. JobsFit'
    BY <1>1, <1>4, <2>1 DEF Inv, JobsFit
  <2>3. OneWorker'
    BY <1>4 DEF Inv, OneWorker
  <2>4. QED
    BY <2>2, <2>3
<1>7. NoMoreKept
  <2>1. ASSUME NEW v \in Volumes, Kept(v)' PROVE v # job[w].vol
    BY <1>3, <2>1 DEF Kept
  <2>2. ASSUME NEW v \in Volumes, v # job[w].vol, Kept(v)' PROVE Kept(v)
    BY <1>3, <1>4, <2>2 DEF Kept
  <2>3. QED
    BY <1>3, <2>1, <2>2 DEF NoMoreKept
<1>8. ExportsOwned' /\ ProjectsOwned'
  BY <1>1, <1>2, <1>4, <1>7, FewerExports, ExportsStay, FewerProjects, ProjectsStay
<1>9. Backed'
  BY <1>1, <1>2, <1>4, <1>7, BackedByMore DEF Spared
<1>10. Exported'
  BY <1>1, <1>2, <1>4, <1>7, StillExported
<1>11. GaneshaFits'
  BY <1>1, <1>2, <1>4, <1>7, GaneshaUntouched
<1>12. QED
  BY <1>5, <1>6, <1>8, <1>9, <1>10, <1>11 DEF Inv

-----------------------------------------------------------------------------
(* The maps and the files.  Every id in a map has its block, but for the   *)
(* moments between the two; and a directory goes only together with the    *)
(* project blocks of its volume, so that restoreQuotas finds no block      *)
(* whose id it would take from somebody else.                              *)

MyProject(w) == B(job[w].vol, job[w].ids.project)

(* A block that its worker is about to remove from the projects file.      *)
DoomedProject(b) == \E w \in Workers : job[w].pc = "projectFile" /\ MyProject(w) = b

ExportIdsFit ==
  \A id \in exports.ids :
    \/ \E b \in exports.file : b.id = id /\ ~Doomed(b)
    \/ \E w \in Workers : job[w].pc = "exportBlock" /\ job[w].ids.export = id

ProjectIdsFit ==
  \A id \in projects.ids :
    \/ \E b \in projects.file : b.id = id /\ ~DoomedProject(b)
    \/ \E w \in Workers : job[w].pc \in {"quota", "freeProject"} /\ job[w].ids.project = id

(* The steps at which the worker's volume may have a block in the file.    *)
Projected(w) ==
  \/ job[w].pc \in {"save", "freeProject", "projectFile"}
  \/ job[w].task \in {"cleanup", "delete"} /\ job[w].pc # "removePV"

ProjectsFit ==
  \A b \in projects.file :
    /\ b.vol \in Volumes
    /\ \/ /\ Free(b.vol) /\ b.vol \in dirs
          /\ phase[b.vol] \in {"bound", "released"} => b.id = saved[b.vol].project
       \/ \E w \in Workers :
            /\ job[w].vol = b.vol /\ b = MyProject(w) /\ Projected(w)
            /\ b.vol \in dirs \/ HalfDeleted(w)

IdleFit == \A w \in Workers : job[w].pc = "idle" => job[w] = IdleJob

MapsFit == IdleFit /\ ExportIdsFit /\ ProjectIdsFit /\ ProjectsFit

LEMMA ExportIdsStay ==
  ASSUME MapsFit, NEW w \in Workers, NEW r, Moved(w, r), UNCHANGED exports,
         job[w].pc # "exportBlock", r.pc # "exportFile"
  PROVE  ExportIdsFit'
<1>1. job'[w] = r /\ \A x \in Workers : x # w => job'[x] = job[x] /\ Mine(x)' = Mine(x)
  BY DEF Moved, Mine
<1>2. \A b : Doomed(b)' => Doomed(b)
  BY <1>1 DEF Doomed
<1>3. QED
  BY <1>1, <1>2 DEF MapsFit, ExportIdsFit

LEMMA ProjectIdsStay ==
  ASSUME MapsFit, NEW w \in Workers, NEW r, Moved(w, r), UNCHANGED projects,
         job[w].pc \notin {"quota", "freeProject"}, r.pc # "projectFile"
  PROVE  ProjectIdsFit'
<1>1. job'[w] = r /\ \A x \in Workers : x # w => job'[x] = job[x] /\ MyProject(x)' = MyProject(x)
  BY DEF Moved, MyProject
<1>2. \A b : DoomedProject(b)' => DoomedProject(b)
  BY <1>1 DEF DoomedProject
<1>3. QED
  BY <1>1, <1>2 DEF MapsFit, ProjectIdsFit

(* The blocks of a volume that a worker is busy with are known by its step.*)
LEMMA OwnProjectBlock ==
  ASSUME Inv, MapsFit, NEW w \in Workers, job[w].pc # "idle",
         NEW b \in projects.file, b.vol = job[w].vol
  PROVE  b = MyProject(w) /\ Projected(w) /\ (b.vol \in dirs \/ HalfDeleted(w))
<1>1. ~Free(b.vol)
  BY DEF Free
<1>2. PICK x \in Workers :
        /\ job[x].vol = b.vol /\ b = MyProject(x) /\ Projected(x)
        /\ b.vol \in dirs \/ HalfDeleted(x)
  BY <1>1 DEF MapsFit, ProjectsFit
<1>3. job[x].pc # "idle"
  BY <1>2 DEF Projected, Inv, JobsFit
<1>4. x = w
  BY <1>2, <1>3, Apart
<1>5. QED
  BY <1>2, <1>4

(* A step of a worker, which works on v before or after it.                *)
LEMMA ProjectsStep ==
  ASSUME Inv, MapsFit, NEW w \in Workers, NEW r, Moved(w, r), NEW v \in Volumes,
         \/ job[w].pc # "idle" /\ job[w].vol = v
         \/ job[w].pc = "idle" /\ Free(v),
         r = IdleJob \/ (r.pc # "idle" /\ r.vol = v),
         \A u \in Volumes : u # v => /\ phase'[u] = phase[u] /\ saved'[u] = saved[u]
                                     /\ u \in dirs => u \in dirs',
         \A b \in projects'.file : b.vol # v => b \in projects.file,
         \A b \in projects'.file : b.vol = v =>
           IF r.pc = "idle"
           THEN v \in dirs' /\ (phase'[v] \in {"bound", "released"} => b.id = saved'[v].project)
           ELSE b = MyProject(w)' /\ Projected(w)' /\ (v \in dirs' \/ HalfDeleted(w)')
  PROVE  IdleFit' /\ ProjectsFit'
<1>1. NoVolume \notin Volumes /\ IdleJob.vol = NoVolume /\ IdleJob.pc = "idle"
  BY NfsAssumption DEF IdleJob
<1>2. job'[w] = r /\ \A x \in Workers : x # w => job'[x] = job[x]
  BY DEF Moved
<1>3. \A x \in Workers : job[x].pc = "idle" => job[x] = IdleJob
  BY DEF MapsFit, IdleFit
<1>4. IdleFit'
  BY <1>1, <1>2, <1>3 DEF IdleFit
<1>5. \A x \in Workers : x # w => job[x].vol # v
  BY <1>1, <1>3, Apart DEF Free
<1>6. ASSUME NEW b \in projects'.file, b.vol # v
      PROVE  /\ b.vol \in Volumes
             /\ \/ /\ Free(b.vol)' /\ b.vol \in dirs'
                   /\ phase'[b.vol] \in {"bound", "released"} => b.id = saved'[b.vol].project
                \/ \E x \in Workers :
                     /\ job'[x].vol = b.vol /\ b = MyProject(x)' /\ Projected(x)'
                     /\ b.vol \in dirs' \/ HalfDeleted(x)'
  <2>1. b \in projects.file /\ b.vol \in Volumes
    BY <1>6 DEF MapsFit, ProjectsFit
  <2>2. CASE /\ Free(b.vol) /\ b.vol \in dirs
             /\ phase[b.vol] \in {"bound", "released"} => b.id = saved[b.vol].project
    <3>1. Free(b.vol)'
      BY <1>1, <1>2, <1>6, <2>1, <2>2 DEF Free
    <3>2. QED
      BY <1>6, <2>1, <2>2, <3>1
  <2>3. ASSUME NEW x \in Workers, job[x].vol = b.vol, b = MyProject(x), Projected(x),
               b.vol \in dirs \/ HalfDeleted(x)
        PROVE  /\ job'[x].vol = b.vol /\ b = MyProject(x)' /\ Projected(x)'
               /\ b.vol \in dirs' \/ HalfDeleted(x)'
    <3>1. x # w
      BY <1>1, <1>3, <1>6, <2>1, <2>3
    <3>2. /\ job'[x] = job[x] /\ MyProject(x)' = MyProject(x)
          /\ (Projected(x)' <=> Projected(x)) /\ (HalfDeleted(x)' <=> HalfDeleted(x))
      BY <1>2, <3>1 DEF MyProject, Projected, HalfDeleted
    <3>3. QED
      BY <1>6, <2>1, <2>3, <3>2
  <2>4. QED
    BY <2>1, <2>2, <2>3 DEF MapsFit, ProjectsFit
<1>7. ASSUME NEW b \in projects'.file, b.vol = v
      PROVE  \/ /\ Free(b.vol)' /\ b.vol \in dirs'
                /\ phase'[b.vol] \in {"bound", "released"} => b.id = saved'[b.vol].project
             \/ \E x \in Workers :
                  /\ job'[x].vol = b.vol /\ b = MyProject(x)' /\ Projected(x)'
                  /\ b.vol \in dirs' \/ HalfDeleted(x)'
  <2>1. CASE r.pc = "idle"
    <3>1. Free(v)'
      BY <1>1, <1>2, <1>5, <2>1 DEF Free
    <3>2. QED
      BY <1>7, <2>1, <3>1
  <2>2. CASE r.pc # "idle"
    BY <1>1, <1>2, <1>7, <2>2
  <2>3. QED
    BY <2>1, <2>2
<1>8. QED
  BY <1>4, <1>6, <1>7 DEF ProjectsFit

LEMMA NoProjectBlock ==
  ASSUME Inv, MapsFit, NEW w \in Workers, job[w].pc # "idle", ~Projected(w)
  PROVE  \A b \in projects.file : b.vol # job[w].vol
BY OwnProjectBlock

LEMMA StartProvisionFits ==
  ASSUME Inv, MapsFit, NEW w \in Workers, NEW v \in Volumes, StartProvision(w, v)
  PROVE  MapsFit'
<1>1. /\ UNCHANGED <<phase, saved, exports, projects>>
      /\ job[w].pc = "idle" /\ phase[v] = "wanted" /\ Free(v) /\ job[w] = IdleJob
  BY DEF StartProvision, MapsFit, IdleFit
<1>2. CASE UNCHANGED <<dirs, job>>
  BY <1>1, <1>2 DEF MapsFit, IdleFit, ExportIdsFit, ProjectIdsFit, ProjectsFit, Doomed, Mine,
                    DoomedProject, MyProject, Projected, Free, HalfDeleted
<1>3. CASE /\ dirs' = dirs \cup {v} /\ v \notin dirs
           /\ job' = [job EXCEPT ![w] = [IdleJob EXCEPT !.pc = "exportId", !.vol = v]]
  <2>1. DEFINE r == [pc |-> "exportId", task |-> "provision", vol |-> v, ids |-> NoIds]
  <2>2. Moved(w, r)
    <3>1. NoIds \in IdPair
      BY NfsAssumption DEF NoIds, IdPair
    <3>2. QED
      BY <1>3, <3>1 DEF Moved, IdleJob, Inv, TypeOK, Job, PCs, Tasks
  <2>3. \A b \in projects.file : b.vol # v
    BY <1>1, <1>3 DEF MapsFit, ProjectsFit, Free, Projected
  <2>4. IdleFit' /\ ProjectsFit'
    BY <1>1, <1>3, <2>2, <2>3, ProjectsStep
  <2>5. QED
    BY <1>1, <2>2, <2>4, ExportIdsStay, ProjectIdsStay DEF MapsFit
<1>4. QED
  BY <1>2, <1>3 DEF StartProvision, Unfit, createDirectory

LEMMA TakeExportIdFits ==
  ASSUME Inv, TypeOK', MapsFit, NEW w \in Workers, TakeExportId(w)
  PROVE  MapsFit'
<1>1. PICK id \in 0 .. MaxId :
        /\ job[w].pc = "exportId" /\ exports' = GenerateID(exports, id).next
        /\ job' = [job EXCEPT ![w] = [@ EXCEPT !.pc = "exportBlock", !.ids.export = id]]
        /\ UNCHANGED <<phase, saved, dirs, projects>>
  BY DEF TakeExportId
<1>2. /\ job[w] \in Job /\ job[w].task = "provision" /\ job[w].vol \in Volumes
      /\ exports \in Store /\ job' \in [Workers -> Job]
  BY <1>1 DEF Inv, TypeOK, JobsFit, Job, Tasks
<1>3. exports'.file = exports.file /\ exports'.ids = exports.ids \cup {id}
  BY <1>1, <1>2 DEF GenerateID, Store
<1>4. DEFINE r == [pc |-> "exportBlock", task |-> "provision", vol |-> job[w].vol,
                   ids |-> [export |-> id, project |-> job[w].ids.project]]
<1>5. Moved(w, r)
  BY <1>1, <1>2 DEF Moved, Inv, TypeOK, Job, IdPair
<1>6. /\ job'[w].pc = "exportBlock" /\ job'[w].ids.export = id
      /\ \A x \in Workers : x # w => job'[x] = job[x] /\ Mine(x)' = Mine(x)
  BY <1>5 DEF Moved, Mine
<1>7. ExportIdsFit'
  <2>1. \A b : Doomed(b)' => Doomed(b)
    BY <1>6 DEF Doomed
  <2>2. QED
    BY <1>1, <1>3, <1>6, <2>1 DEF MapsFit, ExportIdsFit
<1>8. \A b \in projects.file : b.vol # job[w].vol
  BY <1>1, <1>2, NoProjectBlock DEF Projected
<1>9. IdleFit' /\ ProjectsFit'
  BY <1>1, <1>2, <1>5, <1>8, ProjectsStep
<1>10. ProjectIdsFit'
  BY <1>1, <1>5, ProjectIdsStay
<1>11. QED
  BY <1>7, <1>9, <1>10 DEF MapsFit

LEMMA AddExportBlockFits ==
  ASSUME Inv, MapsFit, NEW w \in Workers, AddExportBlock(w)
  PROVE  MapsFit'
<1>1. /\ UNCHANGED <<phase, saved, dirs, projects>>
      /\ job[w].pc = "exportBlock" /\ job[w].task = "provision"
      /\ job[w].vol \in Volumes /\ exports \in Store
  BY DEF AddExportBlock, Inv, TypeOK, JobsFit, Job, Tasks
<1>2. \A b \in projects.file : b.vol # job[w].vol
  BY <1>1, NoProjectBlock DEF Projected
<1>3. CASE exports' = AddToFile(exports, Mine(w)) /\ Step(w, "export")
  <2>1. Moved(w, [pc |-> "export", task |-> job[w].task, vol |-> job[w].vol, ids |-> job[w].ids])
    BY <1>3, StepMoves DEF Inv, PCs
  <2>2. /\ exports'.file = exports.file \cup {Mine(w)} /\ exports'.ids = exports.ids
        /\ Mine(w).vol = job[w].vol /\ Mine(w).id = job[w].ids.export
    BY <1>1, <1>3 DEF AddToFile, Store, Mine, B
  <2>3. /\ job'[w].pc = "export"
        /\ \A x \in Workers : x # w => job'[x] = job[x] /\ Mine(x)' = Mine(x)
    BY <2>1 DEF Moved, Mine
  <2>4. \A b : Doomed(b)' => Doomed(b)
    BY <2>3 DEF Doomed
  <2>5. ~Doomed(Mine(w))
    BY <1>1, <2>2, Apart DEF Doomed, Mine, B
  <2>6. ExportIdsFit'
    BY <1>1, <2>2, <2>3, <2>4, <2>5 DEF MapsFit, ExportIdsFit
  <2>7. IdleFit' /\ ProjectsFit'
    BY <1>1, <1>2, <2>1, ProjectsStep
  <2>8. ProjectIdsFit'
    BY <1>1, <2>1, ProjectIdsStay
  <2>9. QED
    BY <2>6, <2>7, <2>8 DEF MapsFit
<1>4. CASE exports' = DeleteID(exports, job[w].ids.export) /\ Undo(w, "directory")
  <2>1. Moved(w, [pc |-> "directory", task |-> "undo", vol |-> job[w].vol, ids |-> job[w].ids])
    BY <1>4, UndoMoves DEF Inv, PCs
  <2>2. exports'.file = exports.file /\ exports'.ids = exports.ids \ {job[w].ids.export}
    BY <1>1, <1>4 DEF DeleteID, Store
  <2>3. /\ job'[w].pc = "directory"
        /\ \A x \in Workers : x # w => job'[x] = job[x] /\ Mine(x)' = Mine(x)
    BY <2>1 DEF Moved, Mine
  <2>4. \A b : Doomed(b)' => Doomed(b)
    BY <2>3 DEF Doomed
  <2>5. ExportIdsFit'
    BY <1>1, <2>2, <2>3, <2>4 DEF MapsFit, ExportIdsFit
  <2>6. IdleFit' /\ ProjectsFit'
    BY <1>1, <1>2, <2>1, ProjectsStep
  <2>7. ProjectIdsFit'
    BY <1>1, <2>1, ProjectIdsStay
  <2>8. QED
    BY <2>5, <2>6, <2>7 DEF MapsFit
<1>5. QED
  BY <1>3, <1>4 DEF AddExportBlock, Mine

LEMMA ExportFits ==
  ASSUME Inv, MapsFit, NEW w \in Workers, Export(w)
  PROVE  MapsFit'
<1>1. /\ UNCHANGED <<phase, saved, dirs, exports, projects>>
      /\ job[w].pc = "export" /\ job[w].task = "provision" /\ job[w].vol \in Volumes
  BY DEF Export, Inv, TypeOK, JobsFit, Job, Tasks
<1>2. \A b \in projects.file : b.vol # job[w].vol
  BY <1>1, NoProjectBlock DEF Projected
<1>3. PICK r : r.pc \in {"projectId", "freeExport"} /\ r.vol = job[w].vol /\ Moved(w, r)
  <2>1. CASE Step(w, "projectId")
    BY <2>1, StepMoves DEF Inv, PCs
  <2>2. CASE Undo(w, "freeExport")
    BY <2>2, UndoMoves DEF Inv, PCs
  <2>3. QED
    BY <2>1, <2>2 DEF Export
<1>4. IdleFit' /\ ProjectsFit'
  BY <1>1, <1>2, <1>3, ProjectsStep
<1>5. QED
  BY <1>1, <1>3, <1>4, ExportIdsStay, ProjectIdsStay DEF MapsFit

LEMMA TakeProjectIdFits ==
  ASSUME Inv, TypeOK', MapsFit, NEW w \in Workers, TakeProjectId(w)
  PROVE  MapsFit'
<1>1. PICK id \in 0 .. MaxId :
        /\ job[w].pc = "projectId" /\ projects' = GenerateID(projects, id).next
        /\ job' = [job EXCEPT ![w] = [@ EXCEPT !.pc = "quota", !.ids.project = id]]
        /\ UNCHANGED <<phase, saved, dirs, exports>>
  BY DEF TakeProjectId
<1>2. /\ job[w] \in Job /\ job[w].task = "provision" /\ job[w].vol \in Volumes
      /\ projects \in Store /\ job' \in [Workers -> Job]
  BY <1>1 DEF Inv, TypeOK, JobsFit, Job, Tasks
<1>3. projects'.file = projects.file /\ projects'.ids = projects.ids \cup {id}
  BY <1>1, <1>2 DEF GenerateID, Store
<1>4. DEFINE r == [pc |-> "quota", task |-> "provision", vol |-> job[w].vol,
                   ids |-> [export |-> job[w].ids.export, project |-> id]]
<1>5. Moved(w, r)
  BY <1>1, <1>2 DEF Moved, Inv, TypeOK, Job, IdPair
<1>6. /\ job'[w].pc = "quota" /\ job'[w].ids.project = id
      /\ \A x \in Workers : x # w => job'[x] = job[x] /\ MyProject(x)' = MyProject(x)
  BY <1>5 DEF Moved, MyProject
<1>7. ProjectIdsFit'
  <2>1. \A b : DoomedProject(b)' => DoomedProject(b)
    BY <1>6 DEF DoomedProject
  <2>2. QED
    BY <1>1, <1>3, <1>6, <2>1 DEF MapsFit, ProjectIdsFit
<1>8. \A b \in projects.file : b.vol # job[w].vol
  BY <1>1, <1>2, NoProjectBlock DEF Projected
<1>9. IdleFit' /\ ProjectsFit'
  BY <1>1, <1>2, <1>3, <1>5, <1>8, ProjectsStep
<1>10. ExportIdsFit'
  BY <1>1, <1>5, ExportIdsStay
<1>11. QED
  BY <1>7, <1>9, <1>10 DEF MapsFit

LEMMA SetQuotaFits ==
  ASSUME Inv, MapsFit, NEW w \in Workers, SetQuota(w)
  PROVE  MapsFit'
<1>1. /\ UNCHANGED <<phase, saved, dirs, exports>>
      /\ job[w].pc = "quota" /\ job[w].task = "provision" /\ job[w].vol \in Volumes
      /\ job[w].vol \in dirs /\ projects \in Store
  BY DEF SetQuota, Inv, TypeOK, JobsFit, Job, Tasks
<1>2. \A b \in projects.file : b.vol # job[w].vol
  BY <1>1, NoProjectBlock DEF Projected
<1>3. MyProject(w).vol = job[w].vol /\ MyProject(w).id = job[w].ids.project
  BY DEF MyProject, B
<1>4. /\ AddToFile(projects, MyProject(w)).file = projects.file \cup {MyProject(w)}
      /\ AddToFile(projects, MyProject(w)).ids = projects.ids
  BY <1>1 DEF AddToFile, Store
<1>5. ~DoomedProject(MyProject(w))
  BY <1>1, <1>3, Apart DEF DoomedProject, MyProject, B
<1>6. CASE projects' = AddToFile(projects, MyProject(w)) /\ Step(w, "save")
  <2>1. Moved(w, [pc |-> "save", task |-> job[w].task, vol |-> job[w].vol, ids |-> job[w].ids])
    BY <1>6, StepMoves DEF Inv, PCs
  <2>2. /\ job'[w].pc = "save" /\ MyProject(w)' = MyProject(w)
        /\ \A x \in Workers : x # w => job'[x] = job[x] /\ MyProject(x)' = MyProject(x)
    BY <2>1 DEF Moved, MyProject
  <2>3. \A b : DoomedProject(b)' => DoomedProject(b)
    BY <2>2 DEF DoomedProject
  <2>4. ProjectIdsFit'
    BY <1>1, <1>3, <1>4, <1>5, <1>6, <2>2, <2>3 DEF MapsFit, ProjectIdsFit
  <2>5. Projected(w)'
    BY <2>2 DEF Projected
  <2>6. IdleFit' /\ ProjectsFit'
    BY <1>1, <1>2, <1>3, <1>4, <1>6, <2>1, <2>2, <2>5, ProjectsStep
  <2>7. ExportIdsFit'
    BY <1>1, <2>1, ExportIdsStay
  <2>8. QED
    BY <2>4, <2>6, <2>7 DEF MapsFit
<1>7. CASE projects' \in {projects, AddToFile(projects, MyProject(w))} /\ Undo(w, "freeProject")
  <2>1. Moved(w, [pc |-> "freeProject", task |-> "undo", vol |-> job[w].vol, ids |-> job[w].ids])
    BY <1>7, UndoMoves DEF Inv, PCs
  <2>2. /\ job'[w].pc = "freeProject" /\ job'[w].ids = job[w].ids /\ MyProject(w)' = MyProject(w)
        /\ \A x \in Workers : x # w => job'[x] = job[x] /\ MyProject(x)' = MyProject(x)
    BY <2>1 DEF Moved, MyProject
  <2>3. \A b : DoomedProject(b)' => DoomedProject(b)
    BY <2>2 DEF DoomedProject
  <2>4. projects'.ids = projects.ids /\ projects.file \subseteq projects'.file
        /\ projects'.file \subseteq projects.file \cup {MyProject(w)}
    BY <1>4, <1>7
  <2>5. ProjectIdsFit'
    BY <1>1, <2>2, <2>3, <2>4 DEF MapsFit, ProjectIdsFit
  <2>6. Projected(w)' /\ HalfDeleted(w)'
    BY <2>2 DEF Projected, HalfDeleted
  <2>7. IdleFit' /\ ProjectsFit'
    BY <1>1, <1>2, <1>3, <2>1, <2>2, <2>4, <2>6, ProjectsStep
  <2>8. ExportIdsFit'
    BY <1>1, <2>1, ExportIdsStay
  <2>9. QED
    BY <2>5, <2>7, <2>8 DEF MapsFit
<1>8. QED
  BY <1>6, <1>7 DEF SetQuota, MyProject

LEMMA SavePVFits ==
  ASSUME Inv, MapsFit, NEW w \in Workers, SavePV(w)
  PROVE  MapsFit'
<1>1. /\ UNCHANGED <<dirs, exports, projects>>
      /\ job[w].pc = "save" /\ job[w].task = "provision" /\ job[w].vol \in Volumes
      /\ job[w].vol \in dirs
  BY DEF SavePV, Inv, TypeOK, JobsFit, Job, Tasks
<1>2. \A b \in projects.file : b.vol = job[w].vol => b = MyProject(w)
  BY <1>1, OwnProjectBlock
<1>3. CASE /\ phase' = [phase EXCEPT ![job[w].vol] = "bound"]
           /\ saved' = [saved EXCEPT ![job[w].vol] = job[w].ids] /\ Stop(w)
  <2>1. Moved(w, IdleJob) /\ IdleJob.pc = "idle"
    BY <1>3, StopMoves DEF Inv, IdleJob
  <2>2. /\ saved'[job[w].vol] = job[w].ids
        /\ \A u \in Volumes : u # job[w].vol => phase'[u] = phase[u] /\ saved'[u] = saved[u]
    BY <1>1, <1>3 DEF Inv, TypeOK
  <2>3. MyProject(w).id = job[w].ids.project
    BY DEF MyProject, B
  <2>4. IdleFit' /\ ProjectsFit'
    BY <1>1, <1>2, <2>1, <2>2, <2>3, ProjectsStep
  <2>5. QED
    BY <1>1, <2>1, <2>4, ExportIdsStay, ProjectIdsStay DEF MapsFit
<1>4. CASE /\ UNCHANGED <<phase, saved>>
           /\ job' = [job EXCEPT ![w] = [@ EXCEPT !.pc = "directory", !.task = "cleanup"]]
  <2>1. DEFINE r == [pc |-> "directory", task |-> "cleanup", vol |-> job[w].vol, ids |-> job[w].ids]
  <2>2. Moved(w, r)
    <3>1. job \in [Workers -> Job] /\ job' \in [Workers -> Job] /\ job[w] \in Job
      BY <1>4 DEF Inv, TypeOK, Job, PCs, Tasks
    <3>2. job'[w] = r
      BY <1>4, <3>1 DEF Job
    <3>3. QED
      BY <1>4, <3>1, <3>2 DEF Moved
  <2>3. Projected(w)' /\ MyProject(w)' = MyProject(w)
    BY <2>2 DEF Moved, Projected, MyProject
  <2>4. IdleFit' /\ ProjectsFit'
    BY <1>1, <1>2, <1>4, <2>2, <2>3, ProjectsStep
  <2>5. QED
    BY <1>1, <2>2, <2>4, ExportIdsStay, ProjectIdsStay DEF MapsFit
<1>5. QED
  BY <1>3, <1>4 DEF SavePV

LEMMA StartDeleteFits ==
  ASSUME Inv, MapsFit, NEW w \in Workers, NEW v \in Volumes, StartDelete(w, v)
  PROVE  MapsFit'
<1>1. /\ UNCHANGED <<phase, saved, dirs, exports, projects>>
      /\ job[w].pc = "idle" /\ phase[v] = "released" /\ Free(v) /\ saved[v] \in IdPair
      /\ job' = [job EXCEPT ![w] = [pc |-> "directory", task |-> "delete",
                                    vol |-> v, ids |-> saved[v]]]
  BY DEF StartDelete, Inv, TypeOK
<1>2. DEFINE r == [pc |-> "directory", task |-> "delete", vol |-> v, ids |-> saved[v]]
<1>3. Moved(w, r)
  BY <1>1 DEF Moved, Inv, TypeOK, Job, PCs, Tasks
<1>4. Projected(w)' /\ MyProject(w)' = B(v, saved[v].project)
  BY <1>3 DEF Moved, Projected, MyProject
<1>5. \A b \in projects.file : b.vol = v => b = B(v, saved[v].project) /\ v \in dirs
  <2>1. \A b \in projects.file : b.vol = v => b.id = saved[v].project /\ v \in dirs
    BY <1>1 DEF MapsFit, ProjectsFit, Free
  <2>2. QED
    BY <2>1 DEF Inv, TypeOK, Store, Block, B
<1>6. IdleFit' /\ ProjectsFit'
  BY <1>1, <1>3, <1>4, <1>5, ProjectsStep
<1>7. QED
  BY <1>1, <1>3, <1>6, ExportIdsStay, ProjectIdsStay DEF MapsFit

(* An undoing that comes here has no block any more, a Delete goes on.     *)
LEMMA RemoveDirectoryFits ==
  ASSUME Inv, MapsFit, NEW w \in Workers, RemoveDirectory(w)
  PROVE  MapsFit'
<1>1. /\ UNCHANGED <<phase, saved, exports, projects>>
      /\ job[w].pc = "directory" /\ job[w].vol \in Volumes
      /\ job[w].task \in {"undo", "cleanup", "delete"}
      /\ job[w].task # "delete" => phase[job[w].vol] = "wanted"
      /\ job[w].task = "delete" => job[w].ids = saved[job[w].vol]
  BY DEF RemoveDirectory, Inv, TypeOK, JobsFit, Job, Tasks
<1>2. \A b \in projects.file : b.vol = job[w].vol =>
        b = MyProject(w) /\ job[w].task # "undo" /\ b.vol \in dirs
  BY <1>1, OwnProjectBlock DEF Projected, HalfDeleted
<1>3. \A u \in Volumes : u # job[w].vol /\ u \in dirs => u \in dirs'
  BY DEF RemoveDirectory
<1>4. CASE Stop(w) /\ (job[w].task = "undo" \/ UNCHANGED dirs)
  <2>1. Moved(w, IdleJob) /\ IdleJob.pc = "idle"
    BY <1>4, StopMoves DEF Inv, IdleJob
  <2>2. MyProject(w).id = job[w].ids.project
    BY DEF MyProject, B
  <2>3. IdleFit' /\ ProjectsFit'
    BY <1>1, <1>2, <1>3, <1>4, <2>1, <2>2, ProjectsStep
  <2>4. QED
    BY <1>1, <2>1, <2>3, ExportIdsStay, ProjectIdsStay DEF MapsFit
<1>5. CASE \/ Step(w, "freeExport") /\ job[w].task # "undo"
           \/ Step(w, "directory") /\ job[w].task = "cleanup" /\ UNCHANGED dirs
  <2>1. PICK pc \in {"freeExport", "directory"} :
          /\ Step(w, pc) /\ job[w].task # "undo"
          /\ pc = "directory" => UNCHANGED dirs
    BY <1>5
  <2>2. DEFINE r == [pc |-> pc, task |-> job[w].task, vol |-> job[w].vol, ids |-> job[w].ids]
  <2>3. Moved(w, r)
    BY <2>1, StepMoves DEF Inv, PCs
  <2>4. /\ Projected(w)' /\ MyProject(w)' = MyProject(w)
        /\ pc = "freeExport" => HalfDeleted(w)'
    BY <1>1, <2>1, <2>3 DEF Moved, Projected, MyProject, HalfDeleted
  <2>5. IdleFit' /\ ProjectsFit'
    BY <1>1, <1>2, <1>3, <2>1, <2>3, <2>4, ProjectsStep
  <2>6. QED
    BY <1>1, <2>3, <2>5, ExportIdsStay, ProjectIdsStay DEF MapsFit
<1>6. QED
  BY <1>1, <1>4, <1>5 DEF RemoveDirectory, StopDelete

LEMMA FreeExportIdFits ==
  ASSUME Inv, MapsFit, NEW w \in Workers, FreeExportId(w)
  PROVE  MapsFit'
<1>1. /\ UNCHANGED <<phase, saved, dirs, projects>>
      /\ job[w].pc = "freeExport" /\ job[w].vol \in Volumes
      /\ exports' = DeleteID(exports, job[w].ids.export) /\ exports \in Store
  BY DEF FreeExportId, Inv, TypeOK, JobsFit
<1>2. Moved(w, [pc |-> "exportFile", task |-> job[w].task, vol |-> job[w].vol, ids |-> job[w].ids])
  BY StepMoves DEF FreeExportId, Inv, PCs
<1>3. exports'.file = exports.file /\ exports'.ids = exports.ids \ {job[w].ids.export}
  BY <1>1 DEF DeleteID, Store
<1>4. /\ job'[w].pc = "exportFile" /\ job'[w].task = job[w].task
      /\ Mine(w)' = Mine(w) /\ MyProject(w)' = MyProject(w)
      /\ \A x \in Workers : x # w => job'[x] = job[x] /\ Mine(x)' = Mine(x)
  BY <1>2 DEF Moved, Mine, MyProject
<1>5. \A b : Doomed(b)' => Doomed(b) \/ b.id = job[w].ids.export
  <2>1. Mine(w).id = job[w].ids.export
    BY DEF Mine, B
  <2>2. QED
    BY <1>4, <2>1 DEF Doomed
<1>6. ExportIdsFit'
  BY <1>1, <1>3, <1>4, <1>5 DEF MapsFit, ExportIdsFit
<1>7. \A b \in projects.file : b.vol = job[w].vol => b = MyProject(w) /\ Projected(w)
  BY <1>1, OwnProjectBlock
<1>8. Projected(w) => Projected(w)'
  BY <1>1, <1>4 DEF Projected
<1>9. HalfDeleted(w)'
  BY <1>4 DEF HalfDeleted
<1>10. IdleFit' /\ ProjectsFit'
  BY <1>1, <1>2, <1>4, <1>7, <1>8, <1>9, ProjectsStep
<1>11. ProjectIdsFit'
  BY <1>1, <1>2, ProjectIdsStay
<1>12. QED
  BY <1>6, <1>10, <1>11 DEF MapsFit

LEMMA RemoveExportBlockFits ==
  ASSUME DeletesGoThrough, Inv, MapsFit, NEW w \in Workers, RemoveExportBlock(w)
  PROVE  MapsFit'
<1>1. /\ UNCHANGED <<phase, saved, dirs, projects>>
      /\ job[w].pc = "exportFile" /\ job[w].vol \in Volumes /\ exports \in Store
      /\ exports' = RemoveFromFile(exports, Mine(w))
      /\ Step(w, IF job[w].task = "undo" THEN "directory" ELSE "unexport")
      /\ job[w].task \in {"undo", "cleanup", "delete"}
  BY DEF RemoveExportBlock, DeletesGoThrough, Fault, Inv, TypeOK, JobsFit, Mine, Job, Tasks
<1>2. DEFINE next == IF job[w].task = "undo" THEN "directory" ELSE "unexport"
             r == [pc |-> next, task |-> job[w].task, vol |-> job[w].vol, ids |-> job[w].ids]
<1>3. Moved(w, r)
  <2>1. next \in PCs
    BY DEF PCs
  <2>2. QED
    BY <1>1, <2>1, StepMoves DEF Inv
<1>4. exports'.file = exports.file \ {Mine(w)} /\ exports'.ids = exports.ids
  BY <1>1 DEF RemoveFromFile, Store
<1>5. /\ job'[w] = r /\ MyProject(w)' = MyProject(w)
      /\ \A x \in Workers : x # w => job'[x] = job[x] /\ Mine(x)' = Mine(x)
  BY <1>3 DEF Moved, Mine, MyProject
<1>6. \A b : Doomed(b)' => Doomed(b)
  BY <1>5 DEF Doomed
<1>7. Doomed(Mine(w))
  BY <1>1 DEF Doomed
<1>8. ExportIdsFit'
  BY <1>1, <1>4, <1>5, <1>6, <1>7 DEF MapsFit, ExportIdsFit
<1>9. \A b \in projects.file : b.vol = job[w].vol => b = MyProject(w) /\ job[w].task # "undo"
  BY <1>1, OwnProjectBlock DEF Projected
<1>10. job[w].task # "undo" => Projected(w)' /\ HalfDeleted(w)'
  BY <1>1, <1>5 DEF Projected, HalfDeleted
<1>11. IdleFit' /\ ProjectsFit'
  BY <1>1, <1>3, <1>5, <1>9, <1>10, ProjectsStep
<1>12. ProjectIdsFit'
  BY <1>1, <1>3, ProjectIdsStay
<1>13. QED
  BY <1>8, <1>11, <1>12 DEF MapsFit

LEMMA UnexportFits ==
  ASSUME DeletesGoThrough, Inv, MapsFit, NEW w \in Workers, Unexport(w)
  PROVE  MapsFit'
<1>1. /\ job[w].pc = "unexport" /\ job[w].vol \in Volumes
      /\ job[w].task \in {"cleanup", "delete"} /\ Serves(w) /\ Mine(w).id = job[w].ids.export
  BY DEF Unexport, Inv, TypeOK, JobsFit, Serves, Mine, B, Job, Tasks
<1>2. UseGanesha => Mine(w) \in live
  BY <1>1 DEF Inv, GaneshaFits, ServerFits
<1>3. Step(w, "freeProject") /\ UNCHANGED <<phase, saved, dirs, exports, projects>>
  BY <1>1, <1>2 DEF Unexport, DeletesGoThrough, Fault
<1>4. Moved(w, [pc |-> "freeProject", task |-> job[w].task, vol |-> job[w].vol, ids |-> job[w].ids])
  BY <1>3, StepMoves DEF Inv, PCs
<1>5. Projected(w)' /\ HalfDeleted(w)' /\ MyProject(w)' = MyProject(w)
  BY <1>4 DEF Moved, Projected, HalfDeleted, MyProject
<1>6. \A b \in projects.file : b.vol = job[w].vol => b = MyProject(w)
  BY <1>1, OwnProjectBlock
<1>7. IdleFit' /\ ProjectsFit'
  BY <1>1, <1>3, <1>4, <1>5, <1>6, ProjectsStep
<1>8. QED
  BY <1>1, <1>3, <1>4, <1>7, ExportIdsStay, ProjectIdsStay DEF MapsFit

LEMMA FreeProjectIdFits ==
  ASSUME Inv, MapsFit, NEW w \in Workers, FreeProjectId(w)
  PROVE  MapsFit'
<1>1. /\ UNCHANGED <<phase, saved, dirs, exports>>
      /\ job[w].pc = "freeProject" /\ job[w].vol \in Volumes
      /\ projects' = DeleteID(projects, job[w].ids.project) /\ projects \in Store
  BY DEF FreeProjectId, Inv, TypeOK, JobsFit
<1>2. Moved(w, [pc |-> "projectFile", task |-> job[w].task, vol |-> job[w].vol, ids |-> job[w].ids])
  BY StepMoves DEF FreeProjectId, Inv, PCs
<1>3. projects'.file = projects.file /\ projects'.ids = projects.ids \ {job[w].ids.project}
  BY <1>1 DEF DeleteID, Store
<1>4. /\ job'[w].pc = "projectFile" /\ MyProject(w)' = MyProject(w)
      /\ \A x \in Workers : x # w => job'[x] = job[x] /\ MyProject(x)' = MyProject(x)
  BY <1>2 DEF Moved, MyProject
<1>5. \A b : DoomedProject(b)' => DoomedProject(b) \/ b.id = job[w].ids.project
  <2>1. MyProject(w).id = job[w].ids.project
    BY DEF MyProject, B
  <2>2. QED
    BY <1>4, <2>1 DEF DoomedProject
<1>6. ProjectIdsFit'
  BY <1>1, <1>3, <1>4, <1>5 DEF MapsFit, ProjectIdsFit
<1>7. \A b \in projects.file : b.vol = job[w].vol => b = MyProject(w)
  BY <1>1, OwnProjectBlock
<1>8. Projected(w)' /\ HalfDeleted(w)'
  BY <1>4 DEF Projected, HalfDeleted
<1>9. IdleFit' /\ ProjectsFit'
  BY <1>1, <1>2, <1>3, <1>4, <1>7, <1>8, ProjectsStep
<1>10. ExportIdsFit'
  BY <1>1, <1>2, ExportIdsStay
<1>11. QED
  BY <1>6, <1>9, <1>10 DEF MapsFit

LEMMA RemoveProjectFits ==
  ASSUME DeletesGoThrough, Inv, MapsFit, NEW w \in Workers, RemoveProject(w)
  PROVE  MapsFit'
<1>1. /\ UNCHANGED <<phase, saved, dirs, exports>>
      /\ job[w].pc = "projectFile" /\ job[w].vol \in Volumes /\ projects \in Store
      /\ projects' = RemoveFromFile(projects, MyProject(w))
      /\ job[w].task \in {"undo", "cleanup", "delete"}
  BY DEF RemoveProject, DeletesGoThrough, Fault, Inv, TypeOK, JobsFit, MyProject, Job, Tasks
<1>2. projects'.file = projects.file \ {MyProject(w)} /\ projects'.ids = projects.ids
  BY <1>1 DEF RemoveFromFile, Store
<1>3. PICK r : /\ Moved(w, r) /\ r.pc \in {"directory", "idle", "removePV"}
               /\ r = IdleJob \/ (r.pc # "idle" /\ r.vol = job[w].vol)
  <2>1. CASE job[w].task = "undo"
    <3>1. Step(w, "directory")
      BY <2>1 DEF RemoveProject
    <3>2. Moved(w, [pc |-> "directory", task |-> job[w].task, vol |-> job[w].vol, ids |-> job[w].ids])
      BY <3>1, StepMoves DEF Inv, PCs
    <3>3. QED
      BY <3>2
  <2>2. CASE job[w].task = "cleanup"
    <3>1. Stop(w)
      BY <2>2 DEF RemoveProject, DeletesGoThrough, Fault
    <3>2. QED
      BY <3>1, StopMoves DEF Inv, IdleJob
  <2>3. CASE job[w].task = "delete"
    <3>1. Step(w, "removePV")
      BY <2>3 DEF RemoveProject, DeletesGoThrough, Fault
    <3>2. Moved(w, [pc |-> "removePV", task |-> job[w].task, vol |-> job[w].vol, ids |-> job[w].ids])
      BY <3>1, StepMoves DEF Inv, PCs
    <3>3. QED
      BY <3>2
  <2>4. QED
    BY <1>1, <2>1, <2>2, <2>3
<1>4. \A b \in projects'.file : b.vol # job[w].vol
  BY <1>1, <1>2, OwnProjectBlock
<1>5. IdleFit' /\ ProjectsFit'
  BY <1>1, <1>2, <1>3, <1>4, ProjectsStep
<1>6. ProjectIdsFit'
  <2>1. \A x \in Workers : x # w => job'[x] = job[x] /\ MyProject(x)' = MyProject(x)
    BY <1>3 DEF Moved, MyProject
  <2>2. \A b : DoomedProject(b)' => DoomedProject(b)
    BY <1>3, <2>1 DEF DoomedProject, Moved
  <2>3. DoomedProject(MyProject(w))
    BY <1>1 DEF DoomedProject
  <2>4. QED
    BY <1>1, <1>2, <2>1, <2>2, <2>3 DEF MapsFit, ProjectIdsFit
<1>7. ExportIdsFit'
  BY <1>1, <1>3, ExportIdsStay
<1>8. QED
  BY <1>5, <1>6, <1>7 DEF MapsFit

LEMMA RemovePVFits ==
  ASSUME DeletesGoThrough, Inv, MapsFit, NEW w \in Workers, RemovePV(w)
  PROVE  MapsFit'
<1>1. /\ UNCHANGED <<dirs, exports, projects>>
      /\ job[w].pc = "removePV" /\ job[w].vol \in Volumes /\ Stop(w)
      /\ phase' = [phase EXCEPT ![job[w].vol] = "gone"]
      /\ saved' = [saved EXCEPT ![job[w].vol] = NoIds]
  BY DEF RemovePV, DeletesGoThrough, Fault, Inv, JobsFit
<1>2. Moved(w, IdleJob) /\ IdleJob.pc = "idle"
  BY <1>1, StopMoves DEF Inv, IdleJob
<1>3. \A u \in Volumes : u # job[w].vol => phase'[u] = phase[u] /\ saved'[u] = saved[u]
  BY <1>1 DEF Inv, TypeOK
<1>4. \A b \in projects.file : b.vol # job[w].vol
  BY <1>1, NoProjectBlock DEF Projected
<1>5. IdleFit' /\ ProjectsFit'
  BY <1>1, <1>2, <1>3, <1>4, ProjectsStep
<1>6. QED
  BY <1>1, <1>2, <1>5, ExportIdsStay, ProjectIdsStay DEF MapsFit

LEMMA ReleasePVFits ==
  ASSUME Inv, MapsFit, NEW v \in Volumes, ReleasePV(v)
  PROVE  MapsFit'
<1>1. /\ UNCHANGED <<saved, dirs, exports, projects, job>>
      /\ phase[v] = "bound" /\ \A u \in Volumes : u # v => phase'[u] = phase[u]
  BY DEF ReleasePV, Inv, TypeOK
<1>2. ProjectsFit'
  BY <1>1 DEF MapsFit, ProjectsFit, Free, MyProject, Projected, HalfDeleted
<1>3. QED
  BY <1>1, <1>2 DEF MapsFit, IdleFit, ExportIdsFit, ProjectIdsFit, Doomed, DoomedProject, Mine, MyProject

LEMMA SameFits ==
  ASSUME MapsFit, UNCHANGED <<phase, saved, dirs, exports, projects, job>>
  PROVE  MapsFit'
BY DEF MapsFit, IdleFit, ExportIdsFit, ProjectIdsFit, ProjectsFit, Doomed, DoomedProject,
       Mine, MyProject, Free, Projected, HalfDeleted

(* No block loses its directory before a Delete that goes through, so that *)
(* restoreQuotas has nothing to remove.                                    *)
LEMMA RestoresAll ==
  ASSUME Inv, MapsFit, \A w \in Workers : ~HalfDeleted(w)
  PROVE  Restored(projects.file) = Load(projects.file)
<1>1. \A b \in projects.file : b.vol \in dirs
  BY DEF MapsFit, ProjectsFit
<1>2. {b \in projects.file : b.vol \in dirs} = projects.file
  BY <1>1
<1>3. projects.file \ projects.file = {}
  OBVIOUS
<1>4. {b.id : b \in projects.file} \ {b.id : b \in {}} = {b.id : b \in projects.file}
  OBVIOUS
<1>5. QED
  BY <1>2, <1>3, <1>4 DEF Restored, Load

LEMMA RestartFits ==
  ASSUME DeletesGoThrough, Inv, MapsFit, Restart
  PROVE  MapsFit'
<1>1. /\ UNCHANGED <<phase, saved, dirs>>
      /\ job' = [w \in Workers |-> IdleJob]
      /\ exports' = Load(exports.file) /\ projects' = Restored(projects.file)
      /\ \A w \in Workers : ~HalfDeleted(w)
  BY DEF Restart, Crash, DeletesGoThrough
<1>2. /\ exports'.file = exports.file /\ exports'.ids = {b.id : b \in exports.file}
      /\ projects'.file = projects.file /\ projects'.ids = {b.id : b \in projects.file}
  BY <1>1, RestoresAll DEF Load
<1>3. \A w \in Workers : job'[w] = IdleJob /\ job'[w].pc = "idle" /\ job'[w].vol = NoVolume
  BY <1>1 DEF IdleJob
<1>4. \A b : ~Doomed(b)' /\ ~DoomedProject(b)'
  BY <1>3 DEF Doomed, DoomedProject
<1>5. ASSUME NEW b \in projects.file
      PROVE  /\ b.vol \in Volumes /\ b.vol \in dirs
             /\ phase[b.vol] \in {"bound", "released"} => b.id = saved[b.vol].project
  <2>1. b.vol \in Volumes /\ b.vol \in dirs
    BY <1>1 DEF MapsFit, ProjectsFit
  <2>2. CASE Free(b.vol)
    BY <2>1, <2>2 DEF MapsFit, ProjectsFit, Projected, Free
  <2>3. ASSUME NEW w \in Workers, job[w].vol = b.vol, b = MyProject(w), Projected(w)
        PROVE  phase[b.vol] \in {"bound", "released"} => b.id = saved[b.vol].project
    BY <2>1, <2>3 DEF Inv, TypeOK, Job, Tasks, JobsFit, Projected, MyProject, B
  <2>4. QED
    BY <2>1, <2>2, <2>3 DEF MapsFit, ProjectsFit
<1>6. ProjectsFit'
  BY <1>1, <1>2, <1>3, <1>5, NfsAssumption DEF ProjectsFit, Free
<1>7. QED
  BY <1>2, <1>3, <1>4, <1>6 DEF MapsFit, IdleFit, ExportIdsFit, ProjectIdsFit
-----------------------------------------------------------------------------
(* Restarts.                                                               *)

(* A Ganesha that starts finds one block per volume that somebody needs.   *)
LEMMA ServerComesBack ==
  ASSUME Inv, UseGanesha, \A w \in Workers : ~HalfDeleted(w), ServerStarts
  PROVE  /\ live' \subseteq exports.file /\ Distinct(live')
         /\ \A b \in exports.file : \E c \in live' : c.vol = b.vol
         /\ \A b \in exports.file : BlocksOf(exports, b.vol) = {b} => b \in live'
<1>1. Loads(exports.file, live')
  BY DEF ServerStarts
<1>2. \A b : ~Doomed(b)
  BY DEF Doomed, HalfDeleted
<1>3. \A b, c \in exports.file : b # c => b.id # c.id
  BY <1>2 DEF Inv, GaneshaFits, FileFits
<1>4. ASSUME NEW b \in exports.file, b \notin live'
      PROVE  \E c \in live' : c # b /\ c.vol = b.vol
  <2>1. Distinct(live') /\ ~Distinct(live' \cup {b}) /\ live' \subseteq exports.file
    BY <1>1, <1>4 DEF Loads
  <2>2. PICK a, c \in live' \cup {b} : a # c /\ ~(a.vol # c.vol /\ a.id # c.id)
    BY <2>1 DEF Distinct
  <2>3. a.vol = c.vol
    BY <1>3, <1>4, <2>1, <2>2
  <2>4. a = b \/ c = b
    BY <2>1, <2>2 DEF Distinct
  <2>5. QED
    BY <2>2, <2>3, <2>4
<1>5. \A b \in exports.file : \E c \in live' : c.vol = b.vol
  BY <1>4
<1>6. ASSUME NEW b \in exports.file, BlocksOf(exports, b.vol) = {b} PROVE b \in live'
  <2>1. \A c \in live' : c.vol = b.vol => c = b
    BY <1>1, <1>6 DEF Loads, BlocksOf
  <2>2. QED
    BY <1>4, <2>1
<1>7. QED
  BY <1>1, <1>5, <1>6 DEF Loads

LEMMA CrashType ==
  ASSUME DeletesGoThrough, TypeOK, Crash
  PROVE  /\ faults' = faults /\ crashes' \in 0 .. MaxCrashes
         /\ \A w \in Workers : ~HalfDeleted(w)
BY NfsAssumption DEF Crash, DeletesGoThrough, TypeOK

(* Ganesha exports again what a PV or a worker needs.                      *)
LEMMA KeptComeBack ==
  ASSUME Inv, UseGanesha, \A w \in Workers : ~HalfDeleted(w), ServerStarts
  PROVE  /\ \A v \in Volumes : Kept(v) => B(v, saved[v].export) \in live'
         /\ \A w \in Workers : Serves(w) => Mine(w) \in live'
<1>1. ServerFits
  BY DEF Inv, GaneshaFits
<1>2. ASSUME NEW v \in Volumes, Kept(v) PROVE B(v, saved[v].export) \in live'
  <2>1. /\ B(v, saved[v].export) \in exports.file
        /\ BlocksOf(exports, v) = {B(v, saved[v].export)}
    BY <1>1, <1>2 DEF Inv, Backed, ServerFits
  <2>2. B(v, saved[v].export).vol = v
    BY DEF B
  <2>3. QED
    BY <2>1, <2>2, ServerComesBack
<1>3. ASSUME NEW w \in Workers, Serves(w) PROVE Mine(w) \in live'
  <2>1. BlocksOf(exports, job[w].vol) = {Mine(w)}
    BY <1>1, <1>3 DEF ServerFits, HalfDeleted
  <2>2. Mine(w) \in exports.file /\ Mine(w).vol = job[w].vol
    BY <2>1 DEF BlocksOf
  <2>3. QED
    BY <2>1, <2>2, ServerComesBack
<1>4. QED
  BY <1>2, <1>3

LEMMA ServerExitsKeeps ==
  ASSUME DeletesGoThrough, Inv, ServerExits
  PROVE  Inv'
<1>1. /\ UseGanesha /\ ServerStarts
      /\ UNCHANGED <<phase, saved, dirs, exports, projects, job>>
      /\ faults' = faults /\ crashes' \in 0 .. MaxCrashes
      /\ \A w \in Workers : ~HalfDeleted(w)
  BY CrashType DEF ServerExits, Inv
<1>2. live' \subseteq exports.file
  BY <1>1, ServerComesBack
<1>3. TypeOK'
  BY <1>1, <1>2 DEF Inv, TypeOK, Store
<1>4. JobsFit' /\ OneWorker' /\ ExportsOwned' /\ ProjectsOwned' /\ Backed'
  BY <1>1 DEF Inv, JobsFit, OneWorker, ExportsOwned, ProjectsOwned, Backed, OwnExport, OwnProject,
              Kept, HoldsExport, HoldsProject, HalfDeleted, Mine
<1>5. /\ \A v \in Volumes : Kept(v)' <=> Kept(v)
      /\ \A w \in Workers : (Serves(w)' <=> Serves(w)) /\ Mine(w)' = Mine(w)
      /\ \A b : Doomed(b)' <=> Doomed(b)
      /\ \A v : BlocksOf(exports', v) = BlocksOf(exports, v)
  BY <1>1 DEF Kept, HalfDeleted, Serves, Mine, Doomed, BlocksOf
<1>6. Exported'
  BY <1>1, <1>5, KeptComeBack DEF Exported, Serves
<1>7. FileFits /\ ServerFits
  BY <1>1 DEF Inv, GaneshaFits
<1>8. FileFits'
  BY <1>1, <1>5, <1>7 DEF FileFits
<1>9. ServerFits'
  BY <1>1, <1>5, <1>7, ServerComesBack, KeptComeBack DEF ServerFits
<1>10. FileExported'
  BY <1>1, <1>5, ServerComesBack DEF FileExported, BlocksOf
<1>11. QED
  BY <1>3, <1>4, <1>6, <1>8, <1>9, <1>10 DEF Inv, GaneshaFits

(* The ids in use are those of the files.                                  *)
LEMMA RestartKeeps ==
  ASSUME DeletesGoThrough, Inv, MapsFit, Restart
  PROVE  Inv'
<1>1. /\ UNCHANGED <<phase, saved, dirs>>
      /\ job' = [w \in Workers |-> IdleJob]
      /\ exports' = Load(exports.file) /\ projects' = Load(projects.file)
      /\ IF UseGanesha THEN ServerStarts ELSE UNCHANGED live
      /\ faults' = faults /\ crashes' \in 0 .. MaxCrashes
      /\ \A w \in Workers : ~HalfDeleted(w)
  BY CrashType, RestoresAll DEF Restart, Inv
<1>2. /\ exports'.file = exports.file /\ exports'.ids = {b.id : b \in exports.file}
      /\ projects'.file = projects.file
      /\ projects'.ids = {b.id : b \in projects'.file}
  BY <1>1 DEF Load
<1>3. \A w \in Workers :
        /\ job'[w].pc = "idle" /\ job'[w].task = "provision"
        /\ ~HoldsExport(w)' /\ ~HoldsProject(w)' /\ ~Serves(w)' /\ ~HalfDeleted(w)'
  BY <1>1 DEF IdleJob, HoldsExport, HoldsProject, Serves, HalfDeleted
<1>4. TypeOK'
  <2>1. NoIds \in IdPair
    BY NfsAssumption DEF NoIds, IdPair
  <2>2. job' \in [Workers -> Job]
    BY <1>1, <2>1 DEF IdleJob, Job, PCs, Tasks
  <2>3. exports.file \subseteq Block /\ projects.file \subseteq Block
    BY DEF Inv, TypeOK, Store
  <2>4. exports' \in Store /\ projects' \in Store
    BY <1>1, <2>3 DEF Load, Store, Block
  <2>5. live' \subseteq Block
    BY <1>1, <2>3, ServerComesBack DEF Inv, TypeOK
  <2>6. QED
    BY <1>1, <2>2, <2>4, <2>5 DEF Inv, TypeOK
<1>5. JobsFit' /\ OneWorker'
  BY <1>3 DEF JobsFit, OneWorker
<1>6. \A v \in Volumes : Kept(v)' => Kept(v) /\ saved'[v] = saved[v]
  BY <1>1 DEF Kept
<1>7. ExportsOwned'
  <2>1. ASSUME NEW v \in Volumes, NEW id \in 0 .. MaxId, OwnExport(v, id)'
        PROVE  OwnExport(v, id) /\ id \in exports'.ids
    <3>1. Kept(v) /\ saved[v].export = id
      BY <1>3, <1>6, <2>1 DEF OwnExport
    <3>2. B(v, id) \in exports.file /\ B(v, id).id = id
      BY <3>1 DEF Inv, Backed, B
    <3>3. QED
      BY <1>2, <3>1, <3>2 DEF OwnExport
  <2>2. QED
    BY <2>1 DEF Inv, ExportsOwned
<1>8. ProjectsOwned'
  <2>1. ASSUME NEW v \in Volumes, NEW id \in 0 .. MaxId, OwnProject(v, id)'
        PROVE  OwnProject(v, id) /\ id \in projects'.ids
    <3>1. Kept(v) /\ saved[v].project = id
      BY <1>3, <1>6, <2>1 DEF OwnProject
    <3>2. B(v, id) \in projects.file /\ v \in dirs /\ B(v, id).id = id /\ B(v, id).vol = v
      BY <3>1 DEF Inv, Backed, B
    <3>3. QED
      BY <1>2, <3>1, <3>2 DEF OwnProject
  <2>2. QED
    BY <2>1 DEF Inv, ProjectsOwned
<1>9. Backed'
  BY <1>1, <1>2, <1>3, <1>6 DEF Inv, Backed, B
<1>10. Exported'
  <2>1. \A v \in Volumes : Kept(v) => B(v, saved[v].export) \in live'
    BY <1>1, KeptComeBack DEF Inv, Exported
  <2>2. QED
    BY <1>3, <1>6, <2>1 DEF Exported
<1>11. FileFits' /\ (UseGanesha => (ServerFits /\ FileExported)')
  <2>1. FileFits /\ (UseGanesha => ServerFits)
    BY DEF Inv, GaneshaFits
  <2>2. \A b : ~Doomed(b)
    BY <1>1 DEF Doomed, HalfDeleted
  <2>3. FileFits'
    BY <1>2, <1>3, <2>1, <2>2 DEF FileFits
  <2>g. SUFFICES ASSUME UseGanesha PROVE (ServerFits /\ FileExported)'
    BY <2>3
  <2>h. ServerFits
    BY <2>1, <2>g
  <2>4. \A v : BlocksOf(exports', v) = BlocksOf(exports, v)
    BY <1>2 DEF BlocksOf
  <2>5. ServerFits'
    BY <1>1, <1>3, <1>6, <2>g, <2>h, <2>4, ServerComesBack DEF ServerFits
  <2>6. FileExported'
    BY <1>1, <2>g, <2>4, ServerComesBack DEF FileExported, BlocksOf
  <2>7. QED
    BY <2>3, <2>5, <2>6
<1>12. QED
  BY <1>4, <1>5, <1>7, <1>8, <1>9, <1>10, <1>11 DEF Inv, GaneshaFits

LEMMA ReleasePVKeeps ==
  ASSUME Inv, NEW v \in Volumes, ReleasePV(v)
  PROVE  Inv'
<1>1. /\ UNCHANGED <<saved, dirs, exports, projects, live, job, faults, crashes>>
      /\ phase[v] = "bound" /\ phase' = [phase EXCEPT ![v] = "released"]
  BY DEF ReleasePV, boundVars
<1>2. /\ phase' \in [Volumes -> {"wanted", "bound", "released", "gone"}]
      /\ phase'[v] = "released" /\ \A u \in Volumes : u # v => phase'[u] = phase[u]
  BY <1>1 DEF Inv, TypeOK
<1>3. TypeOK'
  BY <1>1, <1>2 DEF Inv, TypeOK
<1>4. JobsFit' /\ OneWorker'
  <2>1. \A w \in Workers : job[w].pc # "idle" => phase'[job[w].vol] = phase[job[w].vol]
    BY <1>1, <1>2 DEF Inv, JobsFit
  <2>2. QED
    BY <1>1, <2>1 DEF Inv, JobsFit, OneWorker
<1>5. /\ \A u \in Volumes : Kept(u)' <=> Kept(u)
      /\ \A w \in Workers : /\ HoldsExport(w)' <=> HoldsExport(w)
                            /\ HoldsProject(w)' <=> HoldsProject(w)
                            /\ Serves(w)' <=> Serves(w)
                            /\ Mine(w)' = Mine(w)
      /\ \A b : Doomed(b)' <=> Doomed(b)
      /\ \A u : BlocksOf(exports', u) = BlocksOf(exports, u)
  BY <1>1, <1>2 DEF Kept, HoldsExport, HoldsProject, HalfDeleted, Serves, Mine, Doomed, BlocksOf
<1>6. ExportsOwned' /\ ProjectsOwned'
  BY <1>1, <1>5 DEF Inv, ExportsOwned, ProjectsOwned, OwnExport, OwnProject
<1>7. Backed' /\ Exported'
  BY <1>1, <1>5 DEF Inv, Backed, Exported
<1>8. GaneshaFits'
  BY <1>1, <1>5 DEF Inv, GaneshaFits, FileFits, ServerFits, FileExported, Distinct
<1>9. QED
  BY <1>3, <1>4, <1>6, <1>7, <1>8 DEF Inv
-----------------------------------------------------------------------------
LEMMA InitFits == Init => Inv /\ MapsFit
<1>1. SUFFICES ASSUME Init PROVE Inv /\ MapsFit
  OBVIOUS
<1>2. NoIds \in IdPair /\ 0 \in 0 .. MaxId
  BY NfsAssumption DEF NoIds, IdPair
<1>3. /\ \A w \in Workers : job[w].pc = "idle" /\ job[w].task = "provision"
      /\ \A v \in Volumes : phase[v] = "wanted"
      /\ exports.file = DefaultConfig /\ live = DefaultConfig
      /\ exports.ids = {b.id : b \in DefaultConfig}
  BY <1>1 DEF Init, IdleJob, Load
<1>4. TypeOK
  <2>1. job \in [Workers -> Job]
    BY <1>1, <1>2 DEF Init, IdleJob, Job, PCs, Tasks
  <2>2. DefaultConfig \subseteq Block
    BY <1>2 DEF DefaultConfig, Block, B
  <2>3. exports \in Store /\ projects \in Store
    BY <1>1, <2>2 DEF Init, Load, Store, Block
  <2>4. QED
    BY <1>1, <1>2, <2>1, <2>2, <2>3, NfsAssumption DEF Init, TypeOK
<1>5. /\ \A v \in Volumes : ~Kept(v)
      /\ \A w \in Workers : ~HoldsExport(w) /\ ~HoldsProject(w) /\ ~Serves(w)
  BY <1>3 DEF Kept, HoldsExport, HoldsProject, Serves
<1>6. JobsFit /\ OneWorker
  BY <1>3 DEF JobsFit, OneWorker
<1>7. ExportsOwned /\ ProjectsOwned /\ Backed /\ Exported
  BY <1>3, <1>5 DEF ExportsOwned, ProjectsOwned, OwnExport, OwnProject, Backed, Exported
<1>8. FileFits
  BY <1>3 DEF FileFits, DefaultConfig
<1>9. ServerFits
  BY <1>3, <1>5 DEF ServerFits, Distinct, DefaultConfig
<1>10. FileExported
  BY <1>3 DEF FileExported, BlocksOf
<1>11. MapsFit
  <2>1. \A b : ~Doomed(b)
    BY <1>3 DEF Doomed
  <2>2. projects.ids = {} /\ projects.file = {}
    BY <1>1 DEF Init, Load
  <2>3. \A w \in Workers : job[w] = IdleJob
    BY <1>1 DEF Init
  <2>4. QED
    BY <1>3, <2>1, <2>2, <2>3 DEF MapsFit, IdleFit, ExportIdsFit, ProjectIdsFit, ProjectsFit
<1>12. QED
  BY <1>4, <1>6, <1>7, <1>8, <1>9, <1>10, <1>11 DEF Inv, GaneshaFits

LEMMA StutterKeeps == Inv /\ UNCHANGED vars => Inv'
<1>1. SUFFICES ASSUME Inv, UNCHANGED vars PROVE Inv'
  OBVIOUS
<1>2. UNCHANGED <<phase, saved, dirs, exports, projects, live, job, faults, crashes>>
  BY <1>1 DEF vars
<1>3. TypeOK' /\ JobsFit' /\ OneWorker'
  BY <1>1, <1>2 DEF Inv, TypeOK, JobsFit, OneWorker
<1>4. ExportsOwned' /\ ProjectsOwned' /\ Backed' /\ Exported'
  BY <1>1, <1>2 DEF Inv, ExportsOwned, ProjectsOwned, Backed, Exported, OwnExport, OwnProject,
                    Kept, HoldsExport, HoldsProject, HalfDeleted, Mine
<1>5. GaneshaFits'
  BY <1>1, <1>2 DEF Inv, GaneshaFits, FileFits, ServerFits, FileExported, Distinct, Doomed,
                    Serves, Mine, Kept, HalfDeleted, BlocksOf
<1>6. QED
  BY <1>3, <1>4, <1>5 DEF Inv

LEMMA NextKeeps == DeletesGoThrough /\ Inv /\ MapsFit /\ [Next]_vars => Inv'
<1>1. SUFFICES ASSUME DeletesGoThrough, Inv, MapsFit, [Next]_vars PROVE Inv'
  OBVIOUS
<1>2. ASSUME NEW w \in Workers, Work(w) PROVE Inv'
  <2>1. CASE \E v \in Volumes : StartProvision(w, v) \/ StartDelete(w, v)
    BY <1>1, <2>1, StartProvisionKeeps, StartDeleteKeeps
  <2>2. CASE TakeExportId(w) \/ AddExportBlock(w) \/ Export(w)
    BY <1>1, <2>2, TakeExportIdKeeps, AddExportBlockKeeps, ExportKeeps
  <2>3. CASE TakeProjectId(w) \/ SetQuota(w) \/ SavePV(w)
    BY <1>1, <2>3, TakeProjectIdKeeps, SetQuotaKeeps, SavePVKeeps
  <2>4. CASE RemoveDirectory(w) \/ FreeExportId(w) \/ RemoveExportBlock(w) \/ Unexport(w)
    BY <1>1, <2>4, RemoveDirectoryKeeps, FreeExportIdKeeps, RemoveExportBlockKeeps, UnexportKeeps
  <2>5. CASE FreeProjectId(w) \/ RemoveProject(w) \/ RemovePV(w)
    BY <1>1, <2>5, FreeProjectIdKeeps, RemoveProjectKeeps, RemovePVKeeps
  <2>6. QED
    BY <1>2, <2>1, <2>2, <2>3, <2>4, <2>5 DEF Work
<1>3. ASSUME NEW v \in Volumes, ReleasePV(v) PROVE Inv'
  BY <1>1, <1>3, ReleasePVKeeps
<1>4. CASE ServerExits
  BY <1>1, <1>4, ServerExitsKeeps
<1>5. CASE Restart
  BY <1>1, <1>5, RestartKeeps
<1>6. CASE UNCHANGED vars
  BY <1>1, <1>6, StutterKeeps
<1>7. QED
  BY <1>1, <1>2, <1>3, <1>4, <1>5, <1>6 DEF Next

LEMMA NextFits == DeletesGoThrough /\ Inv /\ MapsFit /\ [Next]_vars => MapsFit'
<1>1. SUFFICES ASSUME DeletesGoThrough, Inv, MapsFit, [Next]_vars PROVE MapsFit'
  OBVIOUS
<1>2. TypeOK'
  BY <1>1, NextKeeps DEF Inv
<1>3. ASSUME NEW w \in Workers, Work(w) PROVE MapsFit'
  <2>1. CASE \E v \in Volumes : StartProvision(w, v) \/ StartDelete(w, v)
    BY <1>1, <2>1, StartProvisionFits, StartDeleteFits
  <2>2. CASE TakeExportId(w) \/ AddExportBlock(w) \/ Export(w)
    BY <1>1, <1>2, <2>2, TakeExportIdFits, AddExportBlockFits, ExportFits
  <2>3. CASE TakeProjectId(w) \/ SetQuota(w) \/ SavePV(w)
    BY <1>1, <1>2, <2>3, TakeProjectIdFits, SetQuotaFits, SavePVFits
  <2>4. CASE RemoveDirectory(w) \/ FreeExportId(w) \/ RemoveExportBlock(w) \/ Unexport(w)
    BY <1>1, <2>4, RemoveDirectoryFits, FreeExportIdFits, RemoveExportBlockFits, UnexportFits
  <2>5. CASE FreeProjectId(w) \/ RemoveProject(w) \/ RemovePV(w)
    BY <1>1, <2>5, FreeProjectIdFits, RemoveProjectFits, RemovePVFits
  <2>6. QED
    BY <1>3, <2>1, <2>2, <2>3, <2>4, <2>5 DEF Work
<1>4. ASSUME NEW v \in Volumes, ReleasePV(v) PROVE MapsFit'
  BY <1>1, <1>4, ReleasePVFits
<1>5. CASE ServerExits
  BY <1>1, <1>5, SameFits DEF ServerExits
<1>6. CASE Restart
  BY <1>1, <1>6, RestartFits
<1>7. CASE UNCHANGED vars
  BY <1>1, <1>7, SameFits DEF vars
<1>8. QED
  BY <1>1, <1>3, <1>4, <1>5, <1>6, <1>7 DEF Next

(* The invariant holds in every behaviour in which Deletes go through.     *)
THEOREM InvHolds == ASSUME DeletesGoThrough PROVE Spec => [](Inv /\ MapsFit)
<1>1. Inv /\ MapsFit /\ [Next]_vars => (Inv /\ MapsFit)'
  BY NextKeeps, NextFits
<1>2. QED
  BY <1>1, InitFits, PTL DEF Spec

(* The maps hold ids, the files blocks, and each worker a step of the code.*)
THEOREM TypeCorrect == ASSUME DeletesGoThrough PROVE Spec => []TypeOK
<1>1. Inv => TypeOK
  BY DEF Inv
<1>2. QED
  BY <1>1, InvHolds, PTL

(* A PV that can be bound has an export id and a project id that no other  *)
(* such PV has and that the maps will not hand out again: the ids that     *)
(* Delete removes one day are the volume's own.                            *)
THEOREM IdsUnique == ASSUME DeletesGoThrough PROVE Spec => []UniqueIds
<1>1. Inv => UniqueIds
  <2>1. SUFFICES ASSUME Inv PROVE UniqueIds
    OBVIOUS
  <2>2. ASSUME NEW v \in Volumes, phase[v] = "bound" PROVE Kept(v)
    BY <2>1, <2>2 DEF Inv, JobsFit, Kept, HalfDeleted
  <2>3. \A v \in Volumes : saved[v].export \in 0 .. MaxId /\ saved[v].project \in 0 .. MaxId
    BY <2>1 DEF Inv, TypeOK, IdPair
  <2>4. QED
    BY <2>1, <2>2, <2>3 DEF UniqueIds, Inv, ExportsOwned, ProjectsOwned, OwnExport, OwnProject
<1>2. QED
  BY <1>1, InvHolds, PTL

(* A PV that can be bound is served: directory, export, block and quota    *)
(* are there, whatever fails, crashes or is deleted around it.             *)
THEOREM VolumesServed == ASSUME DeletesGoThrough PROVE Spec => []Served
<1>1. Inv => Served
  <2>1. SUFFICES ASSUME Inv PROVE Served
    OBVIOUS
  <2>2. ASSUME NEW v \in Volumes, phase[v] = "bound" PROVE Kept(v)
    BY <2>1, <2>2 DEF Inv, JobsFit, Kept, HalfDeleted
  <2>3. QED
    BY <2>1, <2>2 DEF Served, Inv, Backed, Exported
<1>2. QED
  BY <1>1, InvHolds, PTL
-----------------------------------------------------------------------------
(* What is left behind.  A volume is tidy when everything of it is what    *)
(* its PV or its worker answers for and will take away one day; only a     *)
(* failed call or a crash makes a volume untidy.                           *)

Deletes(w) == job[w].task \in {"cleanup", "delete"}

(* The steps between which the worker's volume has a block in the exports  *)
(* file, is exported, has a block in the projects file.                    *)
Filed(w) ==
  \/ job[w].pc \in {"export", "projectId", "quota", "save", "freeExport", "exportFile"}
  \/ Deletes(w) /\ job[w].pc = "directory"

Online(w) ==
  \/ job[w].pc \in {"projectId", "quota", "save"}
  \/ job[w].pc = "export" /\ ~UseGanesha
  \/ Deletes(w) /\ job[w].pc \in {"directory", "freeExport", "exportFile", "unexport"}

Limited(w) ==
  \/ job[w].pc = "save"
  \/ Deletes(w) /\ job[w].pc # "removePV"

(* Undoing leaves nothing only when Ganesha refused the export.            *)
TidyJob(w) ==
  /\ job[w].task = "undo" => UseGanesha /\ job[w].pc \in {"freeExport", "exportFile", "directory"}
  /\ job[w].vol \in dirs => ~Deletes(w) \/ job[w].pc = "directory"
  /\ \A b \in exports.file : b.vol = job[w].vol => b = Mine(w) /\ Filed(w)
  /\ \A b \in live : b.vol = job[w].vol => b = Mine(w) /\ Online(w)
  /\ \A b \in projects.file :
       b.vol = job[w].vol => b = B(job[w].vol, job[w].ids.project) /\ Limited(w)

TidyPV(v) ==
  IF phase[v] \in {"bound", "released"}
  THEN /\ \A b \in exports.file \cup live : b.vol = v => b = B(v, saved[v].export)
       /\ \A b \in projects.file : b.vol = v => b = B(v, saved[v].project)
  ELSE /\ v \notin dirs
       /\ \A b \in exports.file \cup live \cup projects.file : b.vol # v

Tidy(v) ==
  /\ Free(v) => TidyPV(v)
  /\ \A w \in Workers : job[w].vol = v => TidyJob(w)

Untidy == {v \in Volumes : ~Tidy(v)}

LeftInv ==
  /\ \A w \in Workers : job[w].pc = "idle" => job[w] = IdleJob
  /\ IsFiniteSet(Untidy)
  /\ Cardinality(Untidy) <= faults + crashes * Cardinality(Workers)

LEMMA Counts ==
  ASSUME TypeOK
  PROVE  faults \in Nat /\ crashes \in Nat /\ Cardinality(Workers) \in Nat
<1>1. Cardinality(Workers) \in Nat
  BY NfsAssumption, FS_CardinalityType
<1>2. QED
  BY <1>1, NfsAssumption DEF TypeOK

(* At most as many more volumes are untidy as the step adds to the budget. *)
LEMMA Budget ==
  ASSUME TypeOK, TypeOK', IsFiniteSet(Untidy),
         Cardinality(Untidy) <= faults + crashes * Cardinality(Workers),
         NEW hit, IsFiniteSet(hit), Untidy' \subseteq Untidy \cup hit,
         \/ crashes' = crashes /\ faults' \in Int /\ faults' >= faults + Cardinality(hit)
         \/ crashes' = crashes + 1 /\ faults' = faults /\ Cardinality(hit) <= Cardinality(Workers)
  PROVE  IsFiniteSet(Untidy') /\ Cardinality(Untidy') <= faults' + crashes' * Cardinality(Workers)
<1>1. faults \in Nat /\ crashes \in Nat /\ Cardinality(Workers) \in Nat
  BY Counts
<1>2. /\ IsFiniteSet(Untidy \cup hit) /\ IsFiniteSet(Untidy \cap hit)
      /\ Cardinality(Untidy \cup hit)
           = Cardinality(Untidy) + Cardinality(hit) - Cardinality(Untidy \cap hit)
  BY FS_Union, FS_Intersection
<1>3. /\ Cardinality(Untidy) \in Nat /\ Cardinality(hit) \in Nat
      /\ Cardinality(Untidy \cap hit) \in Nat /\ Cardinality(Untidy \cup hit) \in Nat
  BY <1>2, FS_CardinalityType
<1>4. IsFiniteSet(Untidy') /\ Cardinality(Untidy') <= Cardinality(Untidy \cup hit)
  BY <1>2, FS_Subset
<1>5. Cardinality(Untidy') \in Nat
  BY <1>4, FS_CardinalityType
<1>6. Cardinality(Untidy') <= Cardinality(Untidy) + Cardinality(hit)
  BY <1>2, <1>3, <1>4, <1>5
<1>7. DEFINE n == Cardinality(Workers)
<1>8. crashes * n \in Nat /\ (crashes + 1) * n = crashes * n + n
  BY <1>1
<1>9. DEFINE spent == crashes * n
<1>10. spent \in Nat /\ n \in Nat /\ Cardinality(Untidy) <= faults + spent
  BY <1>1, <1>8
<1>11. CASE crashes' = crashes /\ faults' \in Int /\ faults' >= faults + Cardinality(hit)
  <2>1. crashes' * n = spent
    BY <1>11
  <2> HIDE DEF spent
  <2>2. Cardinality(Untidy') <= faults' + spent
    BY <1>1, <1>3, <1>5, <1>6, <1>10, <1>11
  <2>3. QED
    BY <1>4, <2>1, <2>2
<1>12. CASE crashes' = crashes + 1 /\ faults' = faults /\ Cardinality(hit) <= Cardinality(Workers)
  <2>1. crashes' * n = spent + n
    BY <1>8, <1>12
  <2> HIDE DEF spent
  <2>2. Cardinality(Untidy') <= faults' + (spent + n)
    BY <1>1, <1>3, <1>5, <1>6, <1>10, <1>12
  <2>3. QED
    BY <1>4, <2>1, <2>2
<1>13. QED
  BY <1>11, <1>12

(* A crash leaves at most what the workers were busy with.                 *)
LEMMA CrashStep ==
  ASSUME TypeOK, TypeOK', LeftInv, crashes' = crashes + 1, faults' = faults,
         \A w \in Workers : job'[w].pc = "idle" => job'[w] = IdleJob,
         \A v \in Volumes : Free(v) /\ Tidy(v) => Tidy(v)'
  PROVE  LeftInv'
<1>1. DEFINE hit == {job[w].vol : w \in Workers}
             volOf == [w \in Workers |-> job[w].vol]
<1>2. volOf \in Surjection(Workers, hit)
  BY DEF Surjection
<1>3. IsFiniteSet(hit) /\ Cardinality(hit) <= Cardinality(Workers)
  BY <1>2, FS_Surjection, NfsAssumption
<1>4. Untidy' \subseteq Untidy \cup hit
  BY DEF Untidy, Free
<1>5. QED
  BY <1>3, <1>4, Budget DEF LeftInv

(* A step that adds nothing to a volume, and changes nothing of its PV.    *)
Less(u) ==
  /\ phase'[u] = phase[u] /\ saved'[u] = saved[u]
  /\ u \in dirs' => u \in dirs
  /\ \A b : b.vol = u =>
       /\ b \in exports'.file => b \in exports.file
       /\ b \in projects'.file => b \in projects.file
       /\ b \in live' => b \in live \/ (~UseGanesha /\ b \in exports.file)

(* What is of a kernel's volume in the file may be exported at any time.   *)
LEMMA TidyWithLess ==
  ASSUME Inv, NEW u, Less(u), Tidy(u),
         \A x \in Workers : job'[x].vol = u => job'[x] = job[x],
         Free(u)' => Free(u)
  PROVE  Tidy(u)'
<1>1. ASSUME Free(u)' PROVE TidyPV(u)'
  <2>1. TidyPV(u)
    BY <1>1 DEF Tidy
  <2>2. QED
    BY <2>1 DEF TidyPV, Less
<1>2. ASSUME NEW x \in Workers, job'[x].vol = u PROVE TidyJob(x)'
  <2>1. job'[x] = job[x] /\ TidyJob(x)
    BY <1>2 DEF Tidy
  <2>2. /\ Mine(x)' = Mine(x) /\ (Filed(x)' <=> Filed(x)) /\ (Online(x)' <=> Online(x))
        /\ (Limited(x)' <=> Limited(x)) /\ (Deletes(x)' <=> Deletes(x))
    BY <2>1 DEF Mine, Filed, Online, Limited, Deletes
  <2>3. Filed(x) /\ ~UseGanesha => Online(x)
    BY <2>1 DEF TidyJob, Filed, Online, Deletes, Inv, TypeOK, JobsFit, Job, Tasks
  <2>4. QED
    BY <1>2, <2>1, <2>2, <2>3 DEF TidyJob, Less
<1>3. QED
  BY <1>1, <1>2 DEF Tidy

(* A step of a worker, which works on v before or after it, adds nothing   *)
(* to other volumes and leaves v untidy only if a call failed in it.       *)
LEMMA WorkerStep ==
  ASSUME Inv, TypeOK', LeftInv, NEW w \in Workers, NEW r, Moved(w, r), NEW v \in Volumes,
         \/ job[w].pc # "idle" /\ job[w].vol = v
         \/ job[w].pc = "idle" /\ Free(v),
         r = IdleJob \/ (r.pc # "idle" /\ r.vol = v),
         \A u \in Volumes : u # v => Less(u),
         crashes' = crashes,
         \/ faults' = faults + 1
         \/ /\ faults' = faults
            /\ (IF job[w].pc = "idle" THEN TidyPV(v) ELSE TidyJob(w)) =>
                 IF r.pc = "idle" THEN TidyPV(v)' ELSE TidyJob(w)'
  PROVE  LeftInv'
<1>0. TypeOK
  BY DEF Inv
<1>1. NoVolume \notin Volumes /\ IdleJob.vol = NoVolume /\ IdleJob.pc = "idle"
  BY NfsAssumption DEF IdleJob
<1>2. /\ job'[w] = r /\ \A x \in Workers : x # w => job'[x] = job[x]
  BY DEF Moved
<1>3. \A x \in Workers : job[x].pc = "idle" => job[x] = IdleJob
  BY DEF LeftInv
<1>4. \A x \in Workers : job'[x].pc = "idle" => job'[x] = IdleJob
  BY <1>2, <1>3
<1>5. \A x \in Workers : x # w => job[x].vol # v
  BY <1>1, <1>3, Apart DEF Free
<1>6. ASSUME NEW u \in Volumes, u # v, Tidy(u) PROVE Tidy(u)'
  <2>1. \A x \in Workers : job'[x].vol = u => job'[x] = job[x]
    BY <1>1, <1>2, <1>6
  <2>2. Free(u)' => Free(u)
    BY <1>1, <1>2, <1>3, <1>6 DEF Free
  <2>3. QED
    BY <1>6, <2>1, <2>2, TidyWithLess
<1>7. CASE faults' = faults + 1
  <2>1. IsFiniteSet({v}) /\ Cardinality({v}) = 1
    BY FS_Singleton
  <2>2. Untidy' \subseteq Untidy \cup {v}
    BY <1>6 DEF Untidy
  <2>3. faults' \in Int /\ faults' >= faults + Cardinality({v})
    BY <1>0, <1>7, <2>1, Counts
  <2>4. QED
    BY <1>0, <1>4, <1>7, <2>1, <2>2, <2>3, Budget DEF LeftInv
<1>8. ASSUME faults' = faults,
             (IF job[w].pc = "idle" THEN TidyPV(v) ELSE TidyJob(w)) =>
               IF r.pc = "idle" THEN TidyPV(v)' ELSE TidyJob(w)'
      PROVE  LeftInv'
  <2>1. ASSUME Tidy(v) PROVE Tidy(v)'
    <3>1. IF r.pc = "idle" THEN TidyPV(v)' ELSE TidyJob(w)'
      BY <1>8, <2>1 DEF Tidy
    <3>2. r.pc = "idle" => ~\E x \in Workers : job'[x].vol = v
      BY <1>1, <1>2, <1>5
    <3>3. r.pc # "idle" => job'[w].vol = v /\ \A x \in Workers : job'[x].vol = v => x = w
      BY <1>1, <1>2, <1>5
    <3>4. QED
      BY <3>1, <3>2, <3>3 DEF Tidy, Free
  <2>2. IsFiniteSet({}) /\ Cardinality({}) = 0
    BY FS_EmptySet
  <2>3. Untidy' \subseteq Untidy \cup {}
    BY <1>6, <2>1 DEF Untidy
  <2>4. faults' \in Int /\ faults' >= faults + Cardinality({})
    BY <1>0, <1>8, <2>2, Counts
  <2>5. QED
    BY <1>0, <1>4, <2>2, <2>3, <2>4, Budget DEF LeftInv
<1>9. QED
  BY <1>7, <1>8
-----------------------------------------------------------------------------
(* The steps of a worker.                                                  *)

LEMMA IdleType == IdleJob \in Job
BY NfsAssumption DEF IdleJob, Job, NoIds, IdPair, PCs, Tasks

LEMMA StartProvisionLeft ==
  ASSUME Inv, TypeOK', LeftInv, NEW w \in Workers, NEW v \in Volumes, StartProvision(w, v)
  PROVE  LeftInv'
<1>1. /\ UNCHANGED <<phase, saved, exports, projects, live>>
      /\ job[w].pc = "idle" /\ phase[v] = "wanted" /\ Free(v) /\ job[w] = IdleJob
  BY DEF StartProvision, LeftInv
<1>2. CASE /\ UNCHANGED <<dirs, job>> /\ faults' = faults + 1 /\ UNCHANGED crashes
  <2>1. Moved(w, IdleJob)
    BY <1>1, <1>2 DEF Moved, Inv, TypeOK
  <2>2. \A u \in Volumes : Less(u)
    BY <1>1, <1>2 DEF Less
  <2>3. QED
    BY <1>1, <1>2, <2>1, <2>2, WorkerStep
<1>3. CASE /\ dirs' = dirs \cup {v} /\ UNCHANGED <<faults, crashes>>
           /\ job' = [job EXCEPT ![w] = [IdleJob EXCEPT !.pc = "exportId", !.vol = v]]
  <2>1. DEFINE r == [pc |-> "exportId", task |-> "provision", vol |-> v, ids |-> NoIds]
  <2>2. Moved(w, r)
    BY <1>3, IdleType DEF Moved, IdleJob, Inv, TypeOK, Job, PCs
  <2>3. \A u \in Volumes : u # v => Less(u)
    BY <1>1, <1>3 DEF Less
  <2>4. job'[w] = r
    BY <2>2 DEF Moved
  <2>5. TidyPV(v) => TidyJob(w)'
    BY <1>1, <2>4 DEF TidyPV, TidyJob, Deletes
  <2>6. QED
    BY <1>1, <1>3, <2>2, <2>3, <2>5, WorkerStep
<1>4. QED
  BY <1>2, <1>3 DEF StartProvision, Unfit, createDirectory, Fault, boundVars

LEMMA TakeExportIdLeft ==
  ASSUME Inv, TypeOK', LeftInv, NEW w \in Workers, TakeExportId(w)
  PROVE  LeftInv'
<1>1. PICK id \in 0 .. MaxId :
        /\ job[w].pc = "exportId" /\ exports' = GenerateID(exports, id).next
        /\ job' = [job EXCEPT ![w] = [@ EXCEPT !.pc = "exportBlock", !.ids.export = id]]
        /\ UNCHANGED <<phase, saved, dirs, projects, live, faults, crashes>>
  BY DEF TakeExportId, boundVars
<1>2. /\ job[w] \in Job /\ job[w].task = "provision" /\ job[w].vol \in Volumes
      /\ exports \in Store /\ job' \in [Workers -> Job]
  BY <1>1 DEF Inv, TypeOK, JobsFit, Job, Tasks
<1>3. exports'.file = exports.file
  BY <1>1, <1>2 DEF GenerateID, Store
<1>4. DEFINE r == [pc |-> "exportBlock", task |-> "provision", vol |-> job[w].vol,
                   ids |-> [export |-> id, project |-> job[w].ids.project]]
<1>5. Moved(w, r)
  BY <1>1, <1>2 DEF Moved, Inv, TypeOK, Job, IdPair
<1>6. \A u \in Volumes : Less(u)
  BY <1>1, <1>3 DEF Less
<1>7. job'[w] = r
  BY <1>5 DEF Moved
<1>8. TidyJob(w) => TidyJob(w)'
  BY <1>1, <1>2, <1>3, <1>7 DEF TidyJob, Deletes, Filed, Online, Limited
<1>9. QED
  BY <1>1, <1>2, <1>5, <1>6, <1>8, WorkerStep

LEMMA AddExportBlockLeft ==
  ASSUME Inv, TypeOK', LeftInv, NEW w \in Workers, AddExportBlock(w)
  PROVE  LeftInv'
<1>1. /\ UNCHANGED <<phase, saved, dirs, projects, live>>
      /\ job[w].pc = "exportBlock" /\ job[w].task = "provision"
      /\ job[w].vol \in Volumes /\ exports \in Store
  BY DEF AddExportBlock, Inv, TypeOK, JobsFit, Job, Tasks
<1>2. CASE /\ exports' = AddToFile(exports, Mine(w))
           /\ Step(w, "export") /\ UNCHANGED boundVars
  <2>1. DEFINE r == [pc |-> "export", task |-> job[w].task, vol |-> job[w].vol, ids |-> job[w].ids]
  <2>2. Moved(w, r)
    BY <1>2, StepMoves DEF Inv, PCs
  <2>3. exports'.file = exports.file \cup {Mine(w)} /\ Mine(w).vol = job[w].vol
    BY <1>1, <1>2 DEF AddToFile, Store, Mine, B
  <2>4. \A u \in Volumes : u # job[w].vol => Less(u)
    BY <1>1, <2>3 DEF Less
  <2>5. job'[w] = r /\ Mine(w)' = Mine(w)
    BY <2>2 DEF Moved, Mine, B
  <2>6. TidyJob(w) => TidyJob(w)'
    BY <1>1, <2>3, <2>5 DEF TidyJob, Deletes, Filed, Online, Limited
  <2>7. QED
    BY <1>1, <1>2, <2>2, <2>4, <2>6, WorkerStep DEF boundVars
<1>3. CASE /\ Fault("addBlock")
           /\ exports' = DeleteID(exports, job[w].ids.export)
           /\ Undo(w, "directory")
  <2>1. Moved(w, [pc |-> "directory", task |-> "undo", vol |-> job[w].vol, ids |-> job[w].ids])
    BY <1>3, UndoMoves DEF Inv, PCs
  <2>2. exports'.file = exports.file
    BY <1>1, <1>3 DEF DeleteID, Store
  <2>3. \A u \in Volumes : Less(u)
    BY <1>1, <2>2 DEF Less
  <2>4. QED
    BY <1>1, <1>3, <2>1, <2>3, WorkerStep DEF Fault
<1>4. QED
  BY <1>2, <1>3 DEF AddExportBlock, Mine

(* An export that Ganesha refuses is undone from the right step on.        *)
LEMMA ExportLeft ==
  ASSUME Inv, TypeOK', LeftInv, NEW w \in Workers, Export(w)
  PROVE  LeftInv'
<1>1. /\ UNCHANGED <<phase, saved, dirs, exports, projects>>
      /\ job[w].pc = "export" /\ job[w].task = "provision" /\ job[w].vol \in Volumes
  BY DEF Export, Inv, TypeOK, JobsFit, Job, Tasks
<1>s. ASSUME ServerExports(job[w].vol)
      PROVE  /\ UseGanesha => \E b \in exports.file : b.vol = job[w].vol /\ live' = live \cup {b}
             /\ ~UseGanesha => live' = exports.file
             /\ \A u \in Volumes : u # job[w].vol => Less(u)
  <2>1. UseGanesha => \E b \in exports.file : b.vol = job[w].vol /\ live' = live \cup {b}
    BY <1>s DEF ServerExports, AddExport, Acceptable, BlocksOf
  <2>2. ~UseGanesha => live' = exports.file
    BY <1>s DEF ServerExports, ReExport
  <2>3. QED
    BY <1>1, <2>1, <2>2 DEF Less
<1>2. CASE ServerExports(job[w].vol) /\ Step(w, "projectId") /\ UNCHANGED boundVars
  <2>1. DEFINE r == [pc |-> "projectId", task |-> job[w].task, vol |-> job[w].vol, ids |-> job[w].ids]
  <2>2. Moved(w, r)
    BY <1>2, StepMoves DEF Inv, PCs
  <2>3. UseGanesha => \E b \in exports.file : b.vol = job[w].vol /\ live' = live \cup {b}
    BY <1>2, <1>s
  <2>4. ~UseGanesha => live' = exports.file
    BY <1>2, <1>s
  <2>5. \A u \in Volumes : u # job[w].vol => Less(u)
    BY <1>2, <1>s
  <2>6. job'[w] = r /\ Mine(w)' = Mine(w)
    BY <2>2 DEF Moved, Mine, B
  <2>7. TidyJob(w) => TidyJob(w)'
    BY <1>1, <2>3, <2>4, <2>6 DEF TidyJob, Deletes, Filed, Online, Limited
  <2>8. QED
    BY <1>1, <1>2, <2>2, <2>5, <2>7, WorkerStep DEF boundVars
<1>3. CASE /\ Undo(w, "freeExport")
           /\ \/ UseGanesha /\ UNCHANGED <<live, boundVars>>
              \/ Fault("export") /\ (UNCHANGED live \/ ServerExports(job[w].vol))
  <2>1. DEFINE r == [pc |-> "freeExport", task |-> "undo", vol |-> job[w].vol, ids |-> job[w].ids]
  <2>2. Moved(w, r)
    BY <1>3, UndoMoves DEF Inv, PCs
  <2>3. \A u \in Volumes : u # job[w].vol => Less(u)
    BY <1>1, <1>3, <1>s DEF Less
  <2>4. job'[w] = r /\ Mine(w)' = Mine(w)
    BY <2>2 DEF Moved, Mine, B
  <2>5. UseGanesha /\ UNCHANGED live /\ TidyJob(w) => TidyJob(w)'
    BY <1>1, <1>3, <2>4 DEF TidyJob, Deletes, Filed, Online, Limited
  <2>6. QED
    BY <1>1, <1>3, <2>2, <2>3, <2>5, WorkerStep DEF boundVars, Fault
<1>4. QED
  BY <1>2, <1>3 DEF Export, Refused

LEMMA TakeProjectIdLeft ==
  ASSUME Inv, TypeOK', LeftInv, NEW w \in Workers, TakeProjectId(w)
  PROVE  LeftInv'
<1>1. PICK id \in 0 .. MaxId :
        /\ job[w].pc = "projectId" /\ projects' = GenerateID(projects, id).next
        /\ job' = [job EXCEPT ![w] = [@ EXCEPT !.pc = "quota", !.ids.project = id]]
        /\ UNCHANGED <<phase, saved, dirs, exports, live, faults, crashes>>
  BY DEF TakeProjectId, boundVars
<1>2. /\ job[w] \in Job /\ job[w].task = "provision" /\ job[w].vol \in Volumes
      /\ projects \in Store /\ job' \in [Workers -> Job]
  BY <1>1 DEF Inv, TypeOK, JobsFit, Job, Tasks
<1>3. projects'.file = projects.file
  BY <1>1, <1>2 DEF GenerateID, Store
<1>4. DEFINE r == [pc |-> "quota", task |-> "provision", vol |-> job[w].vol,
                   ids |-> [export |-> job[w].ids.export, project |-> id]]
<1>5. Moved(w, r)
  BY <1>1, <1>2 DEF Moved, Inv, TypeOK, Job, IdPair
<1>6. \A u \in Volumes : Less(u)
  BY <1>1, <1>3 DEF Less
<1>7. job'[w] = r /\ Mine(w)' = Mine(w)
  BY <1>5 DEF Moved, Mine, B
<1>8. TidyJob(w) => TidyJob(w)'
  BY <1>1, <1>2, <1>3, <1>7 DEF TidyJob, Deletes, Filed, Online, Limited
<1>9. QED
  BY <1>1, <1>2, <1>5, <1>6, <1>8, WorkerStep

(* The id is still in the map, since it has an owner.                      *)
LEMMA SetQuotaLeft ==
  ASSUME Inv, TypeOK', LeftInv, NEW w \in Workers, SetQuota(w)
  PROVE  LeftInv'
<1>1. /\ UNCHANGED <<phase, saved, dirs, exports, live>>
      /\ job[w].pc = "quota" /\ job[w].task = "provision" /\ job[w].vol \in Volumes
      /\ job[w].ids.project \in 0 .. MaxId /\ projects \in Store
  BY DEF SetQuota, Inv, TypeOK, JobsFit, Job, Tasks, IdPair
<1>2. job[w].ids.project \in projects.ids
  BY <1>1 DEF Inv, ProjectsOwned, OwnProject, HoldsProject
<1>3. DEFINE block == B(job[w].vol, job[w].ids.project)
<1>4. block.vol = job[w].vol /\ AddToFile(projects, block).file = projects.file \cup {block}
  BY <1>1 DEF AddToFile, Store, B
<1>5. CASE projects' = AddToFile(projects, block) /\ Step(w, "save") /\ UNCHANGED boundVars
  <2>1. DEFINE r == [pc |-> "save", task |-> job[w].task, vol |-> job[w].vol, ids |-> job[w].ids]
  <2>2. Moved(w, r)
    BY <1>5, StepMoves DEF Inv, PCs
  <2>3. \A u \in Volumes : u # job[w].vol => Less(u)
    BY <1>1, <1>4, <1>5 DEF Less
  <2>4. job'[w] = r /\ Mine(w)' = Mine(w)
    BY <2>2 DEF Moved, Mine, B
  <2>5. TidyJob(w) => TidyJob(w)'
    BY <1>1, <1>4, <1>5, <2>4 DEF TidyJob, Deletes, Filed, Online, Limited
  <2>6. QED
    BY <1>1, <1>5, <2>2, <2>3, <2>5, WorkerStep DEF boundVars
<1>6. CASE /\ Fault("quota") /\ Undo(w, "freeProject")
           /\ projects' \in {projects, AddToFile(projects, block)}
  <2>1. Moved(w, [pc |-> "freeProject", task |-> "undo", vol |-> job[w].vol, ids |-> job[w].ids])
    BY <1>6, UndoMoves DEF Inv, PCs
  <2>2. \A u \in Volumes : u # job[w].vol => Less(u)
    BY <1>1, <1>4, <1>6 DEF Less
  <2>3. QED
    BY <1>1, <1>6, <2>1, <2>2, WorkerStep DEF Fault
<1>7. QED
  BY <1>2, <1>5, <1>6 DEF SetQuota

(* The PV answers for what the worker made.                                *)
LEMMA SavePVLeft ==
  ASSUME Inv, TypeOK', LeftInv, NEW w \in Workers, SavePV(w)
  PROVE  LeftInv'
<1>1. /\ UNCHANGED <<dirs, exports, projects, live>>
      /\ job[w].pc = "save" /\ job[w].task = "provision" /\ job[w].vol \in Volumes
  BY DEF SavePV, Inv, TypeOK, JobsFit, Job, Tasks
<1>2. CASE /\ phase' = [phase EXCEPT ![job[w].vol] = "bound"]
           /\ saved' = [saved EXCEPT ![job[w].vol] = job[w].ids]
           /\ Stop(w) /\ UNCHANGED boundVars
  <2>1. Moved(w, IdleJob)
    BY <1>2, StopMoves DEF Inv
  <2>2. /\ phase'[job[w].vol] = "bound" /\ saved'[job[w].vol] = job[w].ids
        /\ \A u \in Volumes : u # job[w].vol => phase'[u] = phase[u] /\ saved'[u] = saved[u]
    BY <1>1, <1>2 DEF Inv, TypeOK
  <2>3. \A u \in Volumes : u # job[w].vol => Less(u)
    BY <1>1, <2>2 DEF Less
  <2>4. ASSUME NEW v \in Volumes, v = job[w].vol, TidyJob(w) PROVE TidyPV(v)'
    BY <1>1, <2>2, <2>4 DEF TidyJob, TidyPV, Mine
  <2>5. QED
    BY <1>1, <1>2, <2>1, <2>3, <2>4, WorkerStep DEF boundVars, IdleJob
<1>3. CASE /\ Fault("save") /\ UNCHANGED <<phase, saved>>
           /\ job' = [job EXCEPT ![w] = [@ EXCEPT !.pc = "directory", !.task = "cleanup"]]
  <2>1. Moved(w, [pc |-> "directory", task |-> "cleanup", vol |-> job[w].vol, ids |-> job[w].ids])
    <3>1. job \in [Workers -> Job] /\ job' \in [Workers -> Job] /\ job[w] \in Job
      BY DEF Inv, TypeOK
    <3>2. job' = [job EXCEPT ![w] = [@ EXCEPT !.pc = "directory", !.task = "cleanup"]]
      BY <1>3
    <3>3. job'[w] = [pc |-> "directory", task |-> "cleanup", vol |-> job[w].vol, ids |-> job[w].ids]
      BY <3>1, <3>2 DEF Job
    <3>4. QED
      BY <3>1, <3>2, <3>3 DEF Moved
  <2>2. \A u \in Volumes : Less(u)
    BY <1>1, <1>3 DEF Less
  <2>3. QED
    BY <1>1, <1>3, <2>1, <2>2, WorkerStep DEF Fault
<1>4. QED
  BY <1>2, <1>3 DEF SavePV

(* Delete takes over what the PV answers for.                              *)
LEMMA StartDeleteLeft ==
  ASSUME Inv, TypeOK', LeftInv, NEW w \in Workers, NEW v \in Volumes, StartDelete(w, v)
  PROVE  LeftInv'
<1>1. /\ UNCHANGED <<phase, saved, dirs, exports, projects, live, faults, crashes>>
      /\ job[w].pc = "idle" /\ phase[v] = "released" /\ Free(v) /\ saved[v] \in IdPair
      /\ job' = [job EXCEPT ![w] = [pc |-> "directory", task |-> "delete",
                                    vol |-> v, ids |-> saved[v]]]
  BY DEF StartDelete, boundVars, Inv, TypeOK
<1>2. DEFINE r == [pc |-> "directory", task |-> "delete", vol |-> v, ids |-> saved[v]]
<1>3. Moved(w, r)
  BY <1>1 DEF Moved, Inv, TypeOK, Job, PCs, Tasks
<1>4. \A u \in Volumes : Less(u)
  BY <1>1 DEF Less
<1>5. job'[w] = r
  BY <1>3 DEF Moved
<1>6. TidyPV(v) => TidyJob(w)'
  BY <1>1, <1>5 DEF TidyPV, TidyJob, Mine, Deletes, Filed, Online, Limited
<1>7. QED
  BY <1>1, <1>3, <1>4, <1>6, WorkerStep

LEMMA RemoveDirectoryLeft ==
  ASSUME Inv, TypeOK', LeftInv, NEW w \in Workers, RemoveDirectory(w)
  PROVE  LeftInv'
<1>1. /\ UNCHANGED <<phase, saved, exports, projects, live>>
      /\ job[w].pc = "directory" /\ job[w].vol \in Volumes
      /\ job[w].task = "undo" \/ Deletes(w)
      /\ job[w].task = "undo" => phase[job[w].vol] = "wanted"
  BY DEF RemoveDirectory, Inv, TypeOK, JobsFit, Job, Tasks, Deletes
<1>2. CASE /\ dirs' = dirs \ {job[w].vol} /\ job[w].task = "undo"
           /\ Stop(w) /\ UNCHANGED boundVars
  <2>1. Moved(w, IdleJob)
    BY <1>2, StopMoves DEF Inv
  <2>2. \A u \in Volumes : Less(u)
    BY <1>1, <1>2 DEF Less
  <2>3. ASSUME NEW v \in Volumes, v = job[w].vol, TidyJob(w) PROVE TidyPV(v)'
    BY <1>1, <1>2, <2>3 DEF TidyJob, TidyPV, Filed, Online, Limited, Deletes
  <2>4. QED
    BY <1>1, <1>2, <2>1, <2>2, <2>3, WorkerStep DEF boundVars, IdleJob
<1>3. CASE /\ dirs' = dirs \ {job[w].vol} /\ job[w].task # "undo"
           /\ Step(w, "freeExport") /\ UNCHANGED boundVars
  <2>1. DEFINE r == [pc |-> "freeExport", task |-> job[w].task, vol |-> job[w].vol, ids |-> job[w].ids]
  <2>2. Moved(w, r)
    BY <1>3, StepMoves DEF Inv, PCs
  <2>3. \A u \in Volumes : Less(u)
    BY <1>1, <1>3 DEF Less
  <2>4. job'[w] = r /\ Mine(w)' = Mine(w)
    BY <2>2 DEF Moved, Mine, B
  <2>5. TidyJob(w) => TidyJob(w)'
    BY <1>1, <1>3, <2>4 DEF TidyJob, Deletes, Filed, Online, Limited
  <2>6. QED
    BY <1>1, <1>3, <2>2, <2>3, <2>5, WorkerStep DEF boundVars
<1>4. CASE /\ Fault("removeDirectory") /\ UNCHANGED dirs
           /\ Stop(w) \/ Step(w, "directory")
  <2>1. \A u \in Volumes : Less(u)
    BY <1>1, <1>4 DEF Less
  <2>2. CASE Stop(w)
    <3>1. Moved(w, IdleJob)
      BY <2>2, StopMoves DEF Inv
    <3>2. QED
      BY <1>1, <1>4, <2>1, <3>1, WorkerStep DEF Fault
  <2>3. CASE Step(w, "directory")
    <3>1. Moved(w, [pc |-> "directory", task |-> job[w].task, vol |-> job[w].vol, ids |-> job[w].ids])
      BY <2>3, StepMoves DEF Inv, PCs
    <3>2. QED
      BY <1>1, <1>4, <2>1, <3>1, WorkerStep DEF Fault
  <2>4. QED
    BY <1>4, <2>2, <2>3
<1>5. QED
  BY <1>2, <1>3, <1>4 DEF RemoveDirectory, StopDelete

LEMMA FreeExportIdLeft ==
  ASSUME Inv, TypeOK', LeftInv, NEW w \in Workers, FreeExportId(w)
  PROVE  LeftInv'
<1>1. /\ UNCHANGED <<phase, saved, dirs, projects, live, faults, crashes>>
      /\ job[w].pc = "freeExport" /\ job[w].vol \in Volumes
      /\ exports' = DeleteID(exports, job[w].ids.export) /\ exports \in Store
  BY DEF FreeExportId, boundVars, Inv, TypeOK, JobsFit
<1>2. DEFINE r == [pc |-> "exportFile", task |-> job[w].task, vol |-> job[w].vol, ids |-> job[w].ids]
<1>3. Moved(w, r)
  BY StepMoves DEF FreeExportId, Inv, PCs
<1>4. exports'.file = exports.file
  BY <1>1 DEF DeleteID, Store
<1>5. \A u \in Volumes : Less(u)
  BY <1>1, <1>4 DEF Less
<1>6. job'[w] = r /\ Mine(w)' = Mine(w)
  BY <1>3 DEF Moved, Mine, B
<1>7. TidyJob(w) => TidyJob(w)'
  BY <1>1, <1>4, <1>6 DEF TidyJob, Deletes, Filed, Online, Limited
<1>8. QED
  BY <1>1, <1>3, <1>5, <1>7, WorkerStep

LEMMA RemoveExportBlockLeft ==
  ASSUME DeletesGoThrough, Inv, TypeOK', LeftInv, NEW w \in Workers, RemoveExportBlock(w)
  PROVE  LeftInv'
<1>1. /\ UNCHANGED <<phase, saved, dirs, projects, live, faults, crashes>>
      /\ job[w].pc = "exportFile" /\ job[w].vol \in Volumes /\ exports \in Store
      /\ exports' = RemoveFromFile(exports, Mine(w))
      /\ Step(w, IF job[w].task = "undo" THEN "directory" ELSE "unexport")
      /\ job[w].task = "undo" \/ Deletes(w)
  BY DEF RemoveExportBlock, DeletesGoThrough, Fault, boundVars, Inv, TypeOK, JobsFit, Mine,
         Job, Tasks, Deletes
<1>2. DEFINE next == IF job[w].task = "undo" THEN "directory" ELSE "unexport"
             r == [pc |-> next, task |-> job[w].task, vol |-> job[w].vol, ids |-> job[w].ids]
<1>3. Moved(w, r)
  <2>1. next \in PCs
    BY DEF PCs
  <2>2. QED
    BY <1>1, <2>1, StepMoves DEF Inv
<1>4. exports'.file = exports.file \ {Mine(w)}
  BY <1>1 DEF RemoveFromFile, Store
<1>5. \A u \in Volumes : Less(u)
  BY <1>1, <1>4 DEF Less
<1>6. job'[w] = r /\ Mine(w)' = Mine(w)
  BY <1>3 DEF Moved, Mine, B
<1>7. TidyJob(w) => TidyJob(w)'
  BY <1>1, <1>4, <1>6 DEF TidyJob, Deletes, Filed, Online, Limited
<1>8. QED
  BY <1>1, <1>3, <1>5, <1>7, WorkerStep

(* Ganesha does export what the worker wants withdrawn.                    *)
LEMMA UnexportLeft ==
  ASSUME DeletesGoThrough, Inv, TypeOK', LeftInv, NEW w \in Workers, Unexport(w)
  PROVE  LeftInv'
<1>1. /\ job[w].pc = "unexport" /\ job[w].vol \in Volumes
      /\ Deletes(w) /\ Serves(w)
      /\ Mine(w).vol = job[w].vol /\ Mine(w).id = job[w].ids.export
  BY DEF Unexport, Inv, TypeOK, JobsFit, Serves, Mine, B, Job, Tasks, Deletes
<1>2. UseGanesha => Mine(w) \in live
  BY <1>1 DEF Inv, GaneshaFits, ServerFits
<1>3. /\ ServerWithdraws(job[w].ids.export) /\ Step(w, "freeProject")
      /\ UNCHANGED <<phase, saved, dirs, exports, projects, faults, crashes>>
  BY <1>1, <1>2 DEF Unexport, DeletesGoThrough, Fault, boundVars
<1>4. DEFINE r == [pc |-> "freeProject", task |-> job[w].task, vol |-> job[w].vol, ids |-> job[w].ids]
<1>5. Moved(w, r)
  BY <1>3, StepMoves DEF Inv, PCs
<1>6. /\ UseGanesha => live' = {b \in live : b.id # job[w].ids.export}
      /\ ~UseGanesha => live' = exports.file
  BY <1>3 DEF ServerWithdraws, RemoveExport, ReExport
<1>7. \A u \in Volumes : Less(u)
  BY <1>3, <1>6 DEF Less
<1>8. job'[w] = r /\ Mine(w)' = Mine(w)
  BY <1>5 DEF Moved, Mine, B
<1>9. TidyJob(w) => TidyJob(w)'
  BY <1>1, <1>3, <1>6, <1>8 DEF TidyJob, Deletes, Filed, Online, Limited
<1>10. QED
  BY <1>1, <1>3, <1>5, <1>7, <1>9, WorkerStep

LEMMA FreeProjectIdLeft ==
  ASSUME Inv, TypeOK', LeftInv, NEW w \in Workers, FreeProjectId(w)
  PROVE  LeftInv'
<1>1. /\ UNCHANGED <<phase, saved, dirs, exports, live, faults, crashes>>
      /\ job[w].pc = "freeProject" /\ job[w].vol \in Volumes
      /\ projects' = DeleteID(projects, job[w].ids.project) /\ projects \in Store
  BY DEF FreeProjectId, boundVars, Inv, TypeOK, JobsFit
<1>2. DEFINE r == [pc |-> "projectFile", task |-> job[w].task, vol |-> job[w].vol, ids |-> job[w].ids]
<1>3. Moved(w, r)
  BY StepMoves DEF FreeProjectId, Inv, PCs
<1>4. projects'.file = projects.file
  BY <1>1 DEF DeleteID, Store
<1>5. \A u \in Volumes : Less(u)
  BY <1>1, <1>4 DEF Less
<1>6. job'[w] = r /\ Mine(w)' = Mine(w)
  BY <1>3 DEF Moved, Mine, B
<1>7. TidyJob(w) => TidyJob(w)'
  BY <1>1, <1>4, <1>6 DEF TidyJob, Deletes, Filed, Online, Limited
<1>8. QED
  BY <1>1, <1>3, <1>5, <1>7, WorkerStep

(* Only a fault leads an undoing here.                                     *)
LEMMA RemoveProjectLeft ==
  ASSUME DeletesGoThrough, Inv, TypeOK', LeftInv, NEW w \in Workers, RemoveProject(w)
  PROVE  LeftInv'
<1>1. /\ UNCHANGED <<phase, saved, dirs, exports, live, faults, crashes>>
      /\ job[w].pc = "projectFile" /\ job[w].vol \in Volumes
      /\ projects' = RemoveFromFile(projects, B(job[w].vol, job[w].ids.project))
      /\ projects \in Store /\ job[w].task \in {"undo", "cleanup", "delete"}
      /\ job[w].task # "delete" => phase[job[w].vol] = "wanted"
  BY DEF RemoveProject, DeletesGoThrough, Fault, boundVars, Inv, TypeOK, JobsFit, Job, Tasks
<1>2. projects'.file = projects.file \ {B(job[w].vol, job[w].ids.project)}
  BY <1>1 DEF RemoveFromFile, Store
<1>3. \A u \in Volumes : Less(u)
  BY <1>1, <1>2 DEF Less
<1>4. CASE job[w].task = "undo"
  <2>1. Step(w, "directory")
    BY <1>4 DEF RemoveProject
  <2>2. Moved(w, [pc |-> "directory", task |-> job[w].task, vol |-> job[w].vol, ids |-> job[w].ids])
    BY <2>1, StepMoves DEF Inv, PCs
  <2>3. ~TidyJob(w)
    BY <1>1, <1>4 DEF TidyJob
  <2>4. QED
    BY <1>1, <1>3, <2>2, <2>3, WorkerStep
<1>5. CASE job[w].task = "cleanup"
  <2>1. Stop(w)
    BY <1>5 DEF RemoveProject, DeletesGoThrough, Fault
  <2>2. Moved(w, IdleJob)
    BY <2>1, StopMoves DEF Inv
  <2>3. ASSUME NEW v \in Volumes, v = job[w].vol, TidyJob(w) PROVE TidyPV(v)'
    BY <1>1, <1>2, <1>5, <2>3 DEF TidyJob, TidyPV, Filed, Online, Limited, Deletes
  <2>4. QED
    BY <1>1, <1>3, <2>2, <2>3, WorkerStep DEF IdleJob
<1>6. CASE job[w].task = "delete"
  <2>1. Step(w, "removePV")
    BY <1>6 DEF RemoveProject, DeletesGoThrough, Fault
  <2>2. DEFINE r == [pc |-> "removePV", task |-> job[w].task, vol |-> job[w].vol, ids |-> job[w].ids]
  <2>3. Moved(w, r)
    BY <2>1, StepMoves DEF Inv, PCs
  <2>4. job'[w] = r /\ Mine(w)' = Mine(w)
    BY <2>3 DEF Moved, Mine, B
  <2>5. TidyJob(w) => TidyJob(w)'
    BY <1>1, <1>2, <1>6, <2>4 DEF TidyJob, Deletes, Filed, Online, Limited
  <2>6. QED
    BY <1>1, <1>3, <2>3, <2>5, WorkerStep
<1>7. QED
  BY <1>1, <1>4, <1>5, <1>6

LEMMA RemovePVLeft ==
  ASSUME DeletesGoThrough, Inv, TypeOK', LeftInv, NEW w \in Workers, RemovePV(w)
  PROVE  LeftInv'
<1>1. /\ UNCHANGED <<dirs, exports, projects, live, faults, crashes>>
      /\ job[w].pc = "removePV" /\ job[w].vol \in Volumes /\ Stop(w) /\ job[w].task = "delete"
      /\ phase' = [phase EXCEPT ![job[w].vol] = "gone"]
      /\ saved' = [saved EXCEPT ![job[w].vol] = NoIds]
  BY DEF RemovePV, DeletesGoThrough, Fault, boundVars, Inv, TypeOK, JobsFit, Job, Tasks
<1>2. Moved(w, IdleJob)
  BY <1>1, StopMoves DEF Inv
<1>3. /\ phase'[job[w].vol] = "gone"
      /\ \A u \in Volumes : u # job[w].vol => phase'[u] = phase[u] /\ saved'[u] = saved[u]
  BY <1>1 DEF Inv, TypeOK
<1>4. \A u \in Volumes : u # job[w].vol => Less(u)
  BY <1>1, <1>3 DEF Less
<1>5. ASSUME NEW v \in Volumes, v = job[w].vol, TidyJob(w) PROVE TidyPV(v)'
  BY <1>1, <1>3, <1>5 DEF TidyJob, TidyPV, Filed, Online, Limited, Deletes
<1>6. QED
  BY <1>1, <1>2, <1>4, <1>5, WorkerStep DEF IdleJob
-----------------------------------------------------------------------------
(* Crashes: a server that starts exports no more than the file says, and   *)
(* what no worker was busy with stays as it was.                           *)

LEMMA ServerExitsLeft ==
  ASSUME DeletesGoThrough, Inv, TypeOK', LeftInv, ServerExits
  PROVE  LeftInv'
<1>1. /\ UNCHANGED <<phase, saved, dirs, exports, projects, job>>
      /\ faults' = faults /\ crashes' = crashes + 1 /\ live' \subseteq exports.file
  BY CrashType, ServerComesBack DEF ServerExits, Crash, Inv
<1>2. ASSUME NEW v \in Volumes, Free(v), Tidy(v) PROVE Tidy(v)'
  BY <1>1, <1>2 DEF Tidy, TidyPV, Free
<1>3. QED
  BY <1>1, <1>2, CrashStep DEF Inv, LeftInv

LEMMA RestartLeft ==
  ASSUME DeletesGoThrough, Inv, MapsFit, TypeOK', LeftInv, Restart
  PROVE  LeftInv'
<1>1. /\ UNCHANGED <<phase, saved, dirs>>
      /\ job' = [w \in Workers |-> IdleJob]
      /\ exports' = Load(exports.file) /\ projects' = Load(projects.file)
      /\ IF UseGanesha THEN ServerStarts ELSE UNCHANGED live
      /\ faults' = faults /\ crashes' = crashes + 1
      /\ \A w \in Workers : ~HalfDeleted(w)
  BY CrashType, RestoresAll DEF Restart, Crash, Inv
<1>2. /\ exports'.file = exports.file /\ projects'.file = projects.file
      /\ live' \subseteq live \cup exports.file
  BY <1>1, ServerComesBack DEF Load
<1>3. \A w \in Workers : job'[w] = IdleJob /\ job'[w].vol = NoVolume
  BY <1>1 DEF IdleJob
<1>4. ASSUME NEW v \in Volumes, Free(v), Tidy(v) PROVE Tidy(v)'
  BY <1>1, <1>2, <1>3, <1>4, NfsAssumption DEF Tidy, TidyPV
<1>5. QED
  BY <1>1, <1>3, <1>4, CrashStep DEF Inv

(* A step without failure or crash that leaves tidy volumes tidy.          *)
LEMMA QuietStep ==
  ASSUME TypeOK, TypeOK', LeftInv, UNCHANGED <<job, faults, crashes>>,
         \A v \in Volumes : Tidy(v) => Tidy(v)'
  PROVE  LeftInv'
<1>1. IsFiniteSet({}) /\ Cardinality({}) = 0
  BY FS_EmptySet
<1>2. Untidy' \subseteq Untidy \cup {}
  BY DEF Untidy
<1>3. faults' \in Int /\ faults' >= faults + Cardinality({})
  BY <1>1, Counts
<1>4. QED
  BY <1>1, <1>2, <1>3, Budget DEF LeftInv

LEMMA ReleasePVLeft ==
  ASSUME Inv, TypeOK', LeftInv, NEW v \in Volumes, ReleasePV(v)
  PROVE  LeftInv'
<1>1. /\ UNCHANGED <<saved, dirs, exports, projects, live, job, faults, crashes>>
      /\ phase[v] = "bound"
      /\ phase'[v] = "released" /\ \A u \in Volumes : u # v => phase'[u] = phase[u]
  BY DEF ReleasePV, boundVars, Inv, TypeOK
<1>2. ASSUME NEW u \in Volumes, Tidy(u) PROVE Tidy(u)'
  BY <1>1, <1>2 DEF Tidy, TidyPV, TidyJob, Free, Mine, Filed, Online, Limited, Deletes
<1>3. QED
  BY <1>1, <1>2, QuietStep DEF Inv

LEMMA StutterLeft ==
  ASSUME Inv, TypeOK', LeftInv, UNCHANGED vars
  PROVE  LeftInv'
<1>1. UNCHANGED <<phase, saved, dirs, exports, projects, live, job, faults, crashes>>
  BY DEF vars
<1>2. ASSUME NEW u \in Volumes, Tidy(u) PROVE Tidy(u)'
  BY <1>1, <1>2 DEF Tidy, TidyPV, TidyJob, Free, Mine, Filed, Online, Limited, Deletes
<1>3. QED
  BY <1>1, <1>2, QuietStep DEF Inv

LEMMA InitLeft == Init => LeftInv
<1>1. SUFFICES ASSUME Init PROVE LeftInv
  OBVIOUS
<1>2. /\ \A w \in Workers : job[w] = IdleJob /\ job[w].vol = NoVolume
      /\ \A v \in Volumes : phase[v] = "wanted"
      /\ dirs = {} /\ exports.file = DefaultConfig /\ live = DefaultConfig /\ projects.file = {}
      /\ \A b \in DefaultConfig : b.vol = NoVolume
  BY <1>1 DEF Init, IdleJob, Load, DefaultConfig, B
<1>3. Untidy = {}
  BY <1>2, NfsAssumption DEF Untidy, Tidy, TidyPV
<1>4. IsFiniteSet({}) /\ Cardinality({}) = 0
  BY FS_EmptySet
<1>5. faults = 0 /\ crashes = 0 /\ Cardinality(Workers) \in Nat
  BY <1>1, NfsAssumption, FS_CardinalityType DEF Init
<1>6. QED
  BY <1>2, <1>3, <1>4, <1>5 DEF LeftInv

LEMMA NextLeft == DeletesGoThrough /\ Inv /\ Inv' /\ MapsFit /\ LeftInv /\ [Next]_vars => LeftInv'
<1>1. SUFFICES ASSUME DeletesGoThrough, Inv, Inv', MapsFit, LeftInv, [Next]_vars PROVE LeftInv'
  OBVIOUS
<1>2. TypeOK'
  BY <1>1 DEF Inv
<1>3. ASSUME NEW w \in Workers, Work(w) PROVE LeftInv'
  <2>1. CASE \E v \in Volumes : StartProvision(w, v) \/ StartDelete(w, v)
    BY <1>1, <1>2, <2>1, StartProvisionLeft, StartDeleteLeft
  <2>2. CASE TakeExportId(w) \/ AddExportBlock(w) \/ Export(w)
    BY <1>1, <1>2, <2>2, TakeExportIdLeft, AddExportBlockLeft, ExportLeft
  <2>3. CASE TakeProjectId(w) \/ SetQuota(w) \/ SavePV(w)
    BY <1>1, <1>2, <2>3, TakeProjectIdLeft, SetQuotaLeft, SavePVLeft
  <2>4. CASE RemoveDirectory(w) \/ FreeExportId(w) \/ RemoveExportBlock(w) \/ Unexport(w)
    BY <1>1, <1>2, <2>4, RemoveDirectoryLeft, FreeExportIdLeft, RemoveExportBlockLeft, UnexportLeft
  <2>5. CASE FreeProjectId(w) \/ RemoveProject(w) \/ RemovePV(w)
    BY <1>1, <1>2, <2>5, FreeProjectIdLeft, RemoveProjectLeft, RemovePVLeft
  <2>6. QED
    BY <1>3, <2>1, <2>2, <2>3, <2>4, <2>5 DEF Work
<1>4. ASSUME NEW v \in Volumes, ReleasePV(v) PROVE LeftInv'
  BY <1>1, <1>2, <1>4, ReleasePVLeft
<1>5. CASE ServerExits
  BY <1>1, <1>2, <1>5, ServerExitsLeft
<1>6. CASE Restart
  BY <1>1, <1>2, <1>6, RestartLeft
<1>7. CASE UNCHANGED vars
  BY <1>1, <1>2, <1>7, StutterLeft
<1>8. QED
  BY <1>1, <1>3, <1>4, <1>5, <1>6, <1>7 DEF Next

(* What no PV and no worker owns was left by a failed call or a crash: one *)
(* volume per failure, one per worker and crash, never more; and nothing   *)
(* leaves an id in a map that no block in its file has.                    *)
THEOREM LeaksBounded == ASSUME DeletesGoThrough PROVE Spec => []LeaksAreFailures
<1>1. Inv /\ LeftInv => Cardinality(Leftovers) <= faults + crashes * Cardinality(Workers)
  <2>1. SUFFICES ASSUME Inv, LeftInv
                 PROVE  Cardinality(Leftovers) <= faults + crashes * Cardinality(Workers)
    OBVIOUS
  <2>2. Leftovers \subseteq Untidy
    BY DEF Leftovers, Untidy, Owned, Tidy, TidyPV
  <2>3. IsFiniteSet(Leftovers) /\ Cardinality(Leftovers) <= Cardinality(Untidy)
    BY <2>1, <2>2, FS_Subset DEF LeftInv
  <2>4. Cardinality(Leftovers) \in Nat /\ Cardinality(Untidy) \in Nat
    BY <2>1, <2>3, FS_CardinalityType DEF LeftInv
  <2>5. Cardinality(Untidy) <= faults + crashes * Cardinality(Workers)
    BY <2>1 DEF LeftInv
  <2>6. faults \in Nat /\ crashes \in Nat /\ Cardinality(Workers) \in Nat
    BY <2>1, Counts DEF Inv
  <2>7. DEFINE spent == crashes * Cardinality(Workers)
  <2>8. spent \in Nat
    BY <2>6
  <2>9. HIDE DEF spent
  <2>10. Cardinality(Leftovers) <= faults + spent
    BY <2>3, <2>4, <2>5, <2>6, <2>8 DEF spent
  <2>11. QED
    BY <2>10 DEF spent
<1>2. MapsFit => Blockless(exports) \subseteq ExportsTaken /\ Blockless(projects) \subseteq ProjectsTaken
  BY DEF MapsFit, ExportIdsFit, ProjectIdsFit, Blockless, ExportsTaken, ProjectsTaken
<1>3. Inv /\ MapsFit /\ LeftInv => LeaksAreFailures
  BY <1>1, <1>2 DEF LeaksAreFailures
<1>4. Inv /\ MapsFit /\ LeftInv /\ [Next]_vars => (Inv /\ MapsFit /\ LeftInv)'
  BY NextKeeps, NextFits, NextLeft
<1>5. Init => Inv /\ MapsFit /\ LeftInv
  BY InitFits, InitLeft
<1>6. QED
  BY <1>3, <1>4, <1>5, PTL DEF Spec
=============================================================================
