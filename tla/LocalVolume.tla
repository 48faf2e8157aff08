---------------------------- MODULE LocalVolume ----------------------------
(***************************************************************************)
(* local-volume/provisioner on one node.  A loop deletes released PVs and  *)
(* discovers volumes without a PV, every ten seconds.  A PV is deleted     *)
(* only after its volume was cleaned, by a goroutine of the provisioner    *)
(* (noted in its ProcTable) or by a Job (noted in the API server).  The    *)
(* loop reads PVs and Jobs from caches that informers fill in their time.  *)
(***************************************************************************)
EXTENDS Integers, FiniteSets

CONSTANTS
  Paths,        \* discovered volumes; the name of a PV is made from its path
  Block,        \* those that are block devices, the others are directories
  CleanWithJob, \* values of the flag UseJobForCleaning
  Prompt,       \* whether the informers catch up while the loop sleeps
  FaultKinds,   \* which calls may fail
  MaxFaults,    \* bound: calls that fail
  Deletable,    \* phases of the PVs that users delete
  MaxDeletes,   \* bound: PVs deleted by users, of one phase once per volume
  MaxCrashes    \* bound: crashes of the provisioner

AllFaultKinds == {"clean", "createJob", "deleteJob", "deletePV", "lostDelete", "createPV"}

NoPath == "none"

ASSUME LocalVolumeAssumption ==
  /\ Block \subseteq Paths /\ NoPath \notin Paths
  /\ Deletable \subseteq {"available", "released"}
  /\ CleanWithJob \in SUBSET BOOLEAN \ {{}} /\ Prompt \in BOOLEAN
  /\ FaultKinds \subseteq AllFaultKinds
  /\ MaxFaults \in Nat /\ MaxDeletes \in Nat /\ MaxCrashes \in Nat

VARIABLES
  api,       \* API server: the PV of each path, by its phase
  cache,     \* VolumeCache: the PV as the populator last saw it
  job,       \* API server: the cleaning Job of each path
  jobCache,  \* the Job as its informer last saw it
  proc,      \* ProcTable
  dirty,     \* volumes that hold data of a user
  useJob,    \* the flag UseJobForCleaning of this process
  pc,        \* where the loop is
  todo,      \* what is left of the list it goes through
  at,        \* the path it is busy with
  deletes,   \* which PVs users deleted, and in which phase
  faults, crashes

apiVars == <<api, cache, job, jobCache, dirty>>
boundVars == <<faults, deletes, crashes>>
loopVars == <<pc, todo, at>>
vars == <<apiVars, proc, useJob, loopVars, boundVars>>

Phases == {"none", "available", "bound", "released"}

(* A Job that failed counts as running until an administrator mends it.    *)
JobStates == {"none", "running", "succeeded", "deleting"}

ProcStates == {"none", "running", "failed", "succeeded"}

TypeOK ==
  /\ api \in [Paths -> Phases] /\ cache \in [Paths -> Phases]
  /\ job \in [Paths -> JobStates] /\ jobCache \in [Paths -> JobStates]
  /\ proc \in [Paths -> ProcStates]
  /\ dirty \subseteq Paths
  /\ useJob \in BOOLEAN
  /\ pc \in {"sleep", "reclaim", "remove", "discover", "create"}
  /\ todo \subseteq Paths
  /\ at \in Paths \cup {NoPath}
  /\ (at # NoPath) <=> pc \in {"remove", "create"}
  /\ deletes \subseteq Paths \X Deletable
  /\ faults \in 0 .. MaxFaults /\ crashes \in 0 .. MaxCrashes

(* What the first turn of the loop finds in VolumeCache: only the stores   *)
(* of the informers are waited for, their handlers may not have run.       *)
Handled(pvs, seen) == [p \in Paths |-> IF p \in seen THEN pvs[p] ELSE "none"]

ReleasedPVs(pvs) == {p \in Paths : pvs[p] = "released"}

Init ==
  /\ api \in [Paths -> {"none", "released"}]
  /\ \E seen \in SUBSET Paths : cache = Handled(api, seen)
  /\ pc = "reclaim" /\ todo = ReleasedPVs(cache) /\ at = NoPath
  /\ proc = [p \in Paths |-> "none"]
  /\ dirty = {p \in Paths : api[p] = "released"}
  /\ job = [p \in Paths |-> "none"] /\ jobCache = job
  /\ useJob \in CleanWithJob
  /\ faults = 0 /\ deletes = {} /\ crashes = 0

Fault(kind) ==
  /\ kind \in FaultKinds
  /\ faults < MaxFaults
  /\ faults' = faults + 1
  /\ UNCHANGED <<deletes, crashes>>
-----------------------------------------------------------------------------
(* CleanupStatusTracker: what is known of a cleaning.                      *)

IsRunning(p) == proc[p] = "running"

IsCleaningJobRunning(p) == jobCache[p] = "running"

InProgress(p, isJob) == IF isJob THEN IsCleaningJobRunning(p) ELSE IsRunning(p)

HasSucceeded(p) ==
  IF useJob THEN jobCache[p] \in {"succeeded", "deleting"} ELSE proc[p] = "succeeded"

Mark(p, status) == proc' = [proc EXCEPT ![p] = status]

RemoveEntry(p) == proc' = [proc EXCEPT ![p] = "none"]

(* In the foreground: the Job goes after its pods.                         *)
RemoveJob(p) ==
  /\ job[p] # "none"
  /\ job' = [job EXCEPT ![p] = "deleting"]

(* A Job is named after the PV: one that exists already is refused.        *)
CreateJob(p) == job' = [job EXCEPT ![p] = IF @ = "none" THEN "running" ELSE @]

runJob(p) ==
  \/ CreateJob(p) /\ UNCHANGED boundVars
  \/ Fault("createJob") /\ UNCHANGED job
-----------------------------------------------------------------------------
(* DeletePVs.                                                              *)

CaughtUp == cache = api /\ jobCache = job /\ \A p \in Paths : job[p] # "deleting"

StartTurn ==
  /\ pc = "sleep"
  /\ Prompt => CaughtUp
  /\ pc' = "reclaim"
  /\ todo' = ReleasedPVs(cache)
  /\ UNCHANGED <<apiVars, proc, useJob, at, boundVars>>

ReclaimDone ==
  /\ pc = "reclaim" /\ todo = {}
  /\ pc' = "discover"
  /\ todo' = Paths
  /\ UNCHANGED <<apiVars, proc, useJob, at, boundVars>>

Visit(p) == pc = "reclaim" /\ p \in todo /\ todo' = todo \ {p}

SkipRunning(p) ==
  /\ Visit(p)
  /\ InProgress(p, useJob)
  /\ UNCHANGED <<apiVars, proc, useJob, pc, at, boundVars>>

(* Faulty: the status of a cleaning is kept.                               *)
BadRemoveStatus(p) ==
  /\ Visit(p)
  /\ HasSucceeded(p)
  /\ pc' = "remove" /\ at' = p
  /\ UNCHANGED <<apiVars, proc, useJob, boundVars>>

(* RemoveStatus: whoever succeeded is forgotten, and the PV is deleted     *)
(* next.  If the Job cannot be deleted, the PV waits for the next turn.    *)
RemoveStatus(p) ==
  /\ Visit(p)
  /\ HasSucceeded(p)
  /\ \/ /\ IF useJob THEN RemoveJob(p) /\ UNCHANGED proc
                      ELSE RemoveEntry(p) /\ UNCHANGED job
        /\ pc' = "remove" /\ at' = p
        /\ UNCHANGED boundVars
     \/ /\ useJob
        /\ Fault("deleteJob") \/ (job[p] = "none" /\ UNCHANGED boundVars)
        /\ UNCHANGED <<job, proc, pc, at>>
  /\ UNCHANGED <<api, cache, jobCache, dirty, useJob>>

(* Faulty: a failed cleaning is as good as any.                            *)
BadStartCleaning(p) ==
  /\ Visit(p)
  /\ ~InProgress(p, useJob) /\ ~HasSucceeded(p)
  /\ IF proc[p] = "failed"
     THEN proc' = [proc EXCEPT ![p] = "none"] /\ pc' = "remove" /\ at' = p
     ELSE proc' = [proc EXCEPT ![p] = "running"] /\ UNCHANGED <<pc, at>>
  /\ UNCHANGED <<apiVars, useJob, boundVars>>

(* Faulty: a cleaning that failed is not started again.                    *)
BadRetryCleaning(p) ==
  /\ Visit(p)
  /\ ~InProgress(p, useJob) /\ ~HasSucceeded(p)
  /\ IF useJob THEN CreateJob(p) /\ UNCHANGED proc
     ELSE UNCHANGED job /\ IF proc[p] = "none" THEN Mark(p, "running") ELSE UNCHANGED proc
  /\ UNCHANGED <<api, cache, jobCache, dirty, useJob, pc, at, boundVars>>

(* No cleaning is known, or it failed: a new one starts.                   *)
StartCleaning(p) ==
  /\ Visit(p)
  /\ ~InProgress(p, useJob) /\ ~HasSucceeded(p)
  /\ IF useJob
     THEN runJob(p) /\ UNCHANGED proc
     ELSE Mark(p, "running") /\ UNCHANGED <<job, boundVars>>
  /\ UNCHANGED <<api, cache, jobCache, dirty, useJob, pc, at>>

(* By its name, whatever its phase; NotFound is fine, too.  After an error *)
(* the volume will be cleaned again, for its status is gone.               *)
RemovePV ==
  /\ pc = "remove"
  /\ \/ api' = [api EXCEPT ![at] = "none"] /\ UNCHANGED boundVars
     \/ Fault("deletePV") /\ UNCHANGED api
     \/ Fault("lostDelete") /\ api' = [api EXCEPT ![at] = "none"]
  /\ pc' = "reclaim" /\ at' = NoPath
  /\ UNCHANGED <<cache, job, jobCache, dirty, proc, useJob, todo>>
-----------------------------------------------------------------------------
(* DiscoverLocalVolumes.                                                   *)

Look(p) == pc = "discover" /\ p \in todo /\ todo' = todo \ {p}

(* Faulty: with the PV gone, nobody asks whether it is being cleaned.      *)
BadBeingCleaned(p) == FALSE

(* Only for block devices are the Jobs looked at.                          *)
BeingCleaned(p) == InProgress(p, p \in Block /\ useJob)

Known(p) == cache[p] # "none"

Discover(p) ==
  /\ Look(p)
  /\ ~Known(p) /\ ~BeingCleaned(p)
  /\ pc' = "create" /\ at' = p
  /\ UNCHANGED <<apiVars, proc, useJob, boundVars>>

SkipKnown(p) ==
  /\ Look(p)
  /\ Known(p) \/ BeingCleaned(p)
  /\ UNCHANGED <<apiVars, proc, useJob, pc, at, boundVars>>

(* A PV that is there already is an error of the API server.               *)
CreatePV ==
  /\ pc = "create"
  /\ \/ /\ api' = [api EXCEPT ![at] = IF @ = "none" THEN "available" ELSE @]
        /\ UNCHANGED boundVars
     \/ Fault("createPV") /\ UNCHANGED api
  /\ pc' = "discover" /\ at' = NoPath
  /\ UNCHANGED <<cache, job, jobCache, dirty, proc, useJob, todo>>

EndTurn ==
  /\ pc = "discover" /\ todo = {}
  /\ pc' = "sleep"
  /\ UNCHANGED <<apiVars, proc, useJob, todo, at, boundVars>>
-----------------------------------------------------------------------------
(* Around the loop.                                                        *)

(* asyncCleanPV ends.                                                      *)
ProcessEnds(p) ==
  /\ IsRunning(p)
  /\ \/ Mark(p, "succeeded") /\ dirty' = dirty \ {p} /\ UNCHANGED boundVars
     \/ Fault("clean") /\ Mark(p, "failed") /\ UNCHANGED dirty
  /\ UNCHANGED <<api, cache, job, jobCache, useJob, loopVars>>

JobSucceeds(p) ==
  /\ job[p] = "running"
  /\ job' = [job EXCEPT ![p] = "succeeded"]
  /\ dirty' = dirty \ {p}
  /\ UNCHANGED <<api, cache, jobCache, proc, useJob, loopVars, boundVars>>

JobGoes(p) ==
  /\ job[p] = "deleting"
  /\ job' = [job EXCEPT ![p] = "none"]
  /\ UNCHANGED <<api, cache, jobCache, dirty, proc, useJob, loopVars, boundVars>>

(* AddPV, UpdatePV or DeletePV of VolumeCache, whichever it takes.         *)
UpdateCache(p) == cache' = [cache EXCEPT ![p] = api[p]]

SeePV(p) ==
  /\ cache[p] # api[p]
  /\ UpdateCache(p)
  /\ UNCHANGED <<api, job, jobCache, dirty, proc, useJob, loopVars, boundVars>>

SeeJob(p) ==
  /\ jobCache[p] # job[p]
  /\ jobCache' = [jobCache EXCEPT ![p] = job[p]]
  /\ UNCHANGED <<api, cache, job, dirty, proc, useJob, loopVars, boundVars>>

(* A claim is bound and a pod writes; later the claim is deleted.          *)
Use(p) ==
  /\ api[p] = "available"
  /\ api' = [api EXCEPT ![p] = "bound"]
  /\ dirty' = dirty \cup {p}
  /\ UNCHANGED <<cache, job, jobCache, proc, useJob, loopVars, boundVars>>

Release(p) ==
  /\ api[p] = "bound"
  /\ api' = [api EXCEPT ![p] = "released"]
  /\ UNCHANGED <<cache, job, jobCache, dirty, proc, useJob, loopVars, boundVars>>

UserDeletes(p) ==
  /\ api[p] \in Deletable
  /\ <<p, api[p]>> \notin deletes /\ Cardinality(deletes) < MaxDeletes
  /\ deletes' = deletes \cup {<<p, api[p]>>}
  /\ api' = [api EXCEPT ![p] = "none"]
  /\ UNCHANGED <<cache, job, jobCache, dirty, proc, useJob, loopVars, faults, crashes>>

(* The provisioner dies with its goroutines and starts again, which takes  *)
(* no less than a sleep; the informer of the Jobs is waited for.           *)
JobsLeft == [p \in Paths |-> IF Prompt /\ job[p] = "deleting" THEN "none" ELSE job[p]]

Restart ==
  /\ crashes < MaxCrashes
  /\ crashes' = crashes + 1
  /\ \E seen \in SUBSET Paths : cache' = Handled(api, seen)
  /\ pc' = "reclaim" /\ todo' = ReleasedPVs(cache') /\ at' = NoPath
  /\ proc' = [p \in Paths |-> "none"]
  /\ job' = JobsLeft /\ jobCache' = job'
  /\ UNCHANGED <<api, dirty, useJob, faults, deletes>>

Turn ==
  \/ StartTurn \/ ReclaimDone \/ RemovePV \/ CreatePV \/ EndTurn
  \/ \E p \in Paths :
       SkipRunning(p) \/ RemoveStatus(p) \/ StartCleaning(p) \/ Discover(p) \/ SkipKnown(p)

Next ==
  \/ Turn
  \/ \E p \in Paths :
       \/ ProcessEnds(p) \/ JobSucceeds(p) \/ JobGoes(p) \/ SeePV(p) \/ SeeJob(p)
       \/ Use(p) \/ Release(p) \/ UserDeletes(p)
  \/ Restart

Spec == Init /\ [][Next]_vars

(* The loop is a thread of its own, cleanings end, and the informers       *)
(* deliver; users need not do anything.                                    *)
Fairness ==
  /\ WF_vars(Turn)
  /\ \A p \in Paths :
       WF_vars(ProcessEnds(p)) /\ WF_vars(JobSucceeds(p)) /\ WF_vars(JobGoes(p))
         /\ WF_vars(SeePV(p)) /\ WF_vars(SeeJob(p))

FairSpec == Spec /\ Fairness
-----------------------------------------------------------------------------
(* A user deleted the PV of a volume that had yet to be cleaned.           *)
Disturbed(p) == <<p, "released">> \in deletes

(* "If the phase is Released, then it cleans up the volume and deletes the *)
(* PV": when the loop deletes a PV its volume holds no data of a user,     *)
(* unless a user deleted such a PV before the loop did.                    *)
DeletedIsClean ==
  [][\A p \in Paths :
       pc = "remove" /\ at = p /\ api[p] # "none" /\ api'[p] = "none" /\ ~Disturbed(p)
         => p \notin dirty]_vars

(* Discovery skips what is being cleaned, and the loop cleans what is      *)
(* released: no goroutine works on a volume whose PV can be bound or is in *)
(* use, although users delete released PVs while their volumes are being   *)
(* cleaned.  No Job does, either, but for those volumes: discovery looks   *)
(* for the Jobs of block devices only, and in a cache.                     *)
NoneCleanedInUse ==
  \A p \in Paths : api[p] \in {"available", "bound"} =>
    /\ proc[p] # "running"
    /\ job[p] = "running" => Disturbed(p)

(* Whoever binds a PV finds a volume without the data of somebody else,    *)
(* unless a user deleted the PV before the volume was cleaned.             *)
AvailableIsClean ==
  \A p \in Paths : api[p] = "available" /\ ~Disturbed(p) => p \notin dirty

(* A released volume is offered again, whatever fails in between.          *)
EventuallyOffered == \A p \in Paths : api[p] = "released" ~> api[p] = "available"
=============================================================================
