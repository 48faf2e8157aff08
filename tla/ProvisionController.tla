------------------------ MODULE ProvisionController ------------------------
(***************************************************************************)
(* The controller library of lib/controller/controller.go: claims and      *)
(* volumes arrive through informer caches that lag the API server, are put *)
(* on two rate-limited work queues, and workers provision a storage asset  *)
(* and its PersistentVolume object for a claim, or delete them for a       *)
(* released volume.  Every call a worker makes (API server, provisioner)   *)
(* is a step of its own and may fail; the process may crash between any    *)
(* two steps.  Kubernetes itself (users, the PV binder, the finalizers) is *)
(* the environment.                                                        *)
(*                                                                         *)
(* A claim is known by its key (namespace/name) and its UID; the PV and    *)
(* the asset made for it carry the UID in their name, so both are indexed  *)
(* by UID.                                                                 *)
(***************************************************************************)
EXTENDS WorkQueue, FiniteSets

CONSTANTS
  Keys,               \* namespace/name of claims
  UIDs,               \* UIDs a claim may get; also the names of PVs
  ClaimWorkers,       \* the goroutines of runClaimWorker (threadiness)
  VolumeWorkers,      \* the goroutines of runVolumeWorker (threadiness)
  RetryCount,         \* createProvisionedPVRetryCount
  ProvisionThreshold, \* failedProvisionThreshold
  DeleteThreshold,    \* failedDeleteThreshold
  FaultKinds,         \* the ways a call of a worker may fail
  MaxLag,             \* bound: watch events of one kind not yet handled
  MaxFaults,          \* bound: calls that fail
  FirstClass,         \* the storage class as it is in the beginning
  EditKinds,          \* what users change besides creating and deleting claims
  MaxEdits,           \* bound: how often they do
  MaxCrashes          \* bound: crashes of the controller process

Policies == {"Delete", "Retain"}

(* The cached storage class: its reclaim policy when its provisioner is    *)
(* this one, else why it cannot be used.                                   *)
Classes == Policies \cup {"missing", "other"}

AllFaultKinds ==
  {"claimGet", "volumeGet", "options", "provision", "partial", "ignored", "save",
   "lostSave", "delete", "lostDelete", "remove", "lostRemove"}

AllEditKinds == {"policy", "class", "pv"}

ASSUME ControllerAssumption ==
  /\ RetryCount \in Nat
  /\ ProvisionThreshold \in Nat
  /\ DeleteThreshold \in Nat
  /\ MaxFaults \in Nat
  /\ MaxLag \in Nat \ {0}
  /\ MaxEdits \in Nat
  /\ MaxCrashes \in Nat
  /\ FaultKinds \subseteq AllFaultKinds
  /\ EditKinds \subseteq AllEditKinds
  /\ FirstClass \in Classes
  /\ IsFiniteSet(Keys) /\ IsFiniteSet(UIDs)

NoClaim == [uid |-> "none"]

NoPV == [phase |-> "none"]

(* ours: annStorageProvisioner names this provisioner; bound: VolumeName   *)
(* is set.                                                                 *)
Claim == [uid : UIDs, ours : BOOLEAN, bound : BOOLEAN]

(* terminating: the object has a deletion timestamp.                       *)
PV == [phase : {"Available", "Bound", "Released"}, policy : Policies,
       terminating : BOOLEAN]

ClaimPCs == {"idle", "sync", "get", "prepare", "provision", "save", "cleanup",
             "done", "failed"}

VolumePCs == {"idle", "sync", "get", "delete", "remove", "done", "failed"}

VARIABLES
  claims,        \* API server: key -> claim
  pvs,           \* API server: UID -> PersistentVolume
  born,          \* UIDs that have been given to claims
  assets,        \* storage backend: UIDs whose asset exists
  class,         \* the storage class, as the class informer has it
  claimEvents,   \* watch events not yet handled, oldest first
  pvEvents,
  claimCache,    \* ctrl.claims
  pvCache,       \* ctrl.volumes
  claimQueue,    \* ctrl.claimQueue
  volumeQueue,   \* ctrl.volumeQueue
  cw,            \* claim workers: pc and local variables
  vw,            \* volume workers: pc and local variables
  faults, edits, crashes   \* how much of each bound is used

apiVars == <<claims, pvs, born, class>>
informerVars == <<claimEvents, pvEvents, claimCache, pvCache>>
boundVars == <<faults, edits, crashes>>
vars == <<apiVars, assets, informerVars, claimQueue, volumeQueue, cw, vw, boundVars>>

IdleClaimWorker ==
  [pc |-> "idle", key |-> "none", uid |-> "none", policy |-> "Delete", tries |-> 0]

IdleVolumeWorker == [pc |-> "idle", uid |-> "none"]

TypeOK ==
  /\ claims \in [Keys -> Claim \cup {NoClaim}]
  /\ pvs \in [UIDs -> PV \cup {NoPV}]
  /\ born \subseteq UIDs
  /\ assets \subseteq UIDs
  /\ class \in Classes
  /\ claimEvents \in Seq([key : Keys, obj : Claim \cup {NoClaim}])
  /\ pvEvents \in Seq([key : UIDs, obj : PV \cup {NoPV}])
  /\ claimCache \in [Keys -> Claim \cup {NoClaim}]
  /\ pvCache \in [UIDs -> PV \cup {NoPV}]
  /\ claimQueue \in QueueType(Keys)
  /\ volumeQueue \in QueueType(UIDs)
  /\ cw \in [ClaimWorkers -> [pc : ClaimPCs, key : Keys \cup {"none"},
                              uid : UIDs \cup {"none"}, policy : Policies, tries : Nat]]
  /\ vw \in [VolumeWorkers -> [pc : VolumePCs, uid : UIDs \cup {"none"}]]
  /\ faults \in 0 .. MaxFaults
  /\ edits \in 0 .. MaxEdits
  /\ crashes \in 0 .. MaxCrashes

Init ==
  /\ claims = [k \in Keys |-> NoClaim]
  /\ pvs = [u \in UIDs |-> NoPV]
  /\ born = {} /\ assets = {}
  /\ class = FirstClass
  /\ claimEvents = <<>> /\ pvEvents = <<>>
  /\ claimCache = claims /\ pvCache = pvs
  /\ claimQueue = EmptyQueue(Keys)
  /\ volumeQueue = EmptyQueue(UIDs)
  /\ cw = [w \in ClaimWorkers |-> IdleClaimWorker]
  /\ vw = [w \in VolumeWorkers |-> IdleVolumeWorker]
  /\ faults = 0 /\ edits = 0 /\ crashes = 0

(* A change of an object at the API server is seen by the watches later.   *)
SetClaim(k, obj) ==
  /\ Len(claimEvents) < MaxLag
  /\ claims' = [claims EXCEPT ![k] = obj]
  /\ claimEvents' = Append(claimEvents, [key |-> k, obj |-> obj])

SetPV(u, obj) ==
  /\ Len(pvEvents) < MaxLag
  /\ pvs' = [pvs EXCEPT ![u] = obj]
  /\ pvEvents' = Append(pvEvents, [key |-> u, obj |-> obj])

Fault(kind) ==
  /\ kind \in FaultKinds
  /\ faults < MaxFaults
  /\ faults' = faults + 1
  /\ UNCHANGED <<edits, crashes>>
-----------------------------------------------------------------------------
(* Informers and the event handlers.                                       *)

Enqueue(q, k) == IF NumRequeues(q, k) = 0 THEN Add(q, k) ELSE q

ForgetWork(q, k) == Done(Forget(q, k), k)

HandleClaimEvent ==
  /\ claimEvents # <<>>
  /\ LET e == Head(claimEvents)
     IN  /\ claimCache' = [claimCache EXCEPT ![e.key] = e.obj]
         /\ claimQueue' = IF e.obj = NoClaim THEN ForgetWork(claimQueue, e.key)
                                             ELSE Enqueue(claimQueue, e.key)
  /\ claimEvents' = Tail(claimEvents)
  /\ UNCHANGED <<apiVars, assets, pvEvents, pvCache, volumeQueue, cw, vw, boundVars>>

HandlePVEvent ==
  /\ pvEvents # <<>>
  /\ LET e == Head(pvEvents)
     IN  /\ pvCache' = [pvCache EXCEPT ![e.key] = e.obj]
         /\ volumeQueue' = IF e.obj = NoPV THEN ForgetWork(volumeQueue, e.key)
                                           ELSE Enqueue(volumeQueue, e.key)
  /\ pvEvents' = Tail(pvEvents)
  /\ UNCHANGED <<apiVars, assets, claimEvents, claimCache, claimQueue, cw, vw, boundVars>>

(* Every resync period the update handler runs for each cached object with *)
(* no event pending. (The period is minutes, the lag of a watch is not:    *)
(* bounding the lag by it bounds how often a dead claim is served again.)  *)
Pending(events, k) == \E i \in DOMAIN events : events[i].key = k

ResyncClaim(k) ==
  /\ claimCache[k] # NoClaim
  /\ ~Pending(claimEvents, k)
  /\ claimQueue' = Enqueue(claimQueue, k)
  /\ UNCHANGED <<apiVars, assets, informerVars, volumeQueue, cw, vw, boundVars>>

ResyncPV(u) ==
  /\ pvCache[u] # NoPV
  /\ ~Pending(pvEvents, u)
  /\ volumeQueue' = Enqueue(volumeQueue, u)
  /\ UNCHANGED <<apiVars, assets, informerVars, claimQueue, cw, vw, boundVars>>

ClaimDelayPasses(k) ==
  /\ k \in claimQueue.delayed
  /\ claimQueue' = DelayPasses(claimQueue, k)
  /\ UNCHANGED <<apiVars, assets, informerVars, volumeQueue, cw, vw, boundVars>>

VolumeDelayPasses(u) ==
  /\ u \in volumeQueue.delayed
  /\ volumeQueue' = DelayPasses(volumeQueue, u)
  /\ UNCHANGED <<apiVars, assets, informerVars, claimQueue, cw, vw, boundVars>>
-----------------------------------------------------------------------------
(* A claim worker: processNextClaimWorkItem down to                        *)
(* provisionClaimOperation, one action per call it makes.                  *)

ShouldProvision(claim) == claim # NoClaim /\ ~claim.bound /\ claim.ours

ClaimGoto(w, pc) == cw' = [cw EXCEPT ![w] = [@ EXCEPT !.pc = pc]]

ClaimGet(w) ==
  /\ cw[w].pc = "idle"
  /\ claimQueue.queue # <<>>
  /\ cw' = [cw EXCEPT ![w] = [@ EXCEPT !.pc = "sync", !.key = Head(claimQueue.queue)]]
  /\ claimQueue' = Get(claimQueue)
  /\ UNCHANGED <<apiVars, assets, informerVars, volumeQueue, vw, boundVars>>

(* syncClaimHandler and syncClaim: only the cached claim is looked at.     *)
ClaimSync(w) ==
  /\ cw[w].pc = "sync"
  /\ LET claim == claimCache[cw[w].key]
     IN  IF ShouldProvision(claim)
           THEN cw' = [cw EXCEPT ![w] = [@ EXCEPT !.pc = "get", !.uid = claim.uid]]
           ELSE ClaimGoto(w, "done")
  /\ UNCHANGED <<apiVars, assets, informerVars, claimQueue, volumeQueue, vw, boundVars>>

(* Faulty: nobody looks whether the PV exists.                             *)
BadClaimGetPV(w) ==
  /\ cw[w].pc = "get"
  /\ ClaimGoto(w, "prepare")
  /\ UNCHANGED <<apiVars, assets, informerVars, claimQueue, volumeQueue, vw, boundVars>>

(* A failed GET is treated as "the PV does not exist".                     *)
ClaimGetPV(w) ==
  /\ cw[w].pc = "get"
  /\ \/ /\ ClaimGoto(w, IF pvs[cw[w].uid] # NoPV THEN "done" ELSE "prepare")
        /\ UNCHANGED boundVars
     \/ Fault("claimGet") /\ ClaimGoto(w, "prepare")
  /\ UNCHANGED <<apiVars, assets, informerVars, claimQueue, volumeQueue, vw>>

(* Class, reclaim policy, mount options, topology: no class of ours, no    *)
(* retry; an error in any of the later reads is retried.                   *)
ClaimPrepare(w) ==
  /\ cw[w].pc = "prepare"
  /\ \/ /\ IF class \in Policies
             THEN cw' = [cw EXCEPT ![w] = [@ EXCEPT !.pc = "provision", !.policy = class]]
             ELSE ClaimGoto(w, "done")
        /\ UNCHANGED boundVars
     \/ class \in Policies /\ Fault("options") /\ ClaimGoto(w, "failed")
  /\ UNCHANGED <<apiVars, assets, informerVars, claimQueue, volumeQueue, vw>>

(* Provision names the asset after the UID: doing it again is harmless. It *)
(* may fail before or after the asset exists, or ignore the claim.         *)
ClaimProvision(w) ==
  /\ cw[w].pc = "provision"
  /\ \/ /\ assets' = assets \cup {cw[w].uid}
        /\ cw' = [cw EXCEPT ![w] = [@ EXCEPT !.pc = "save", !.tries = 0]]
        /\ UNCHANGED boundVars
     \/ Fault("provision") /\ ClaimGoto(w, "failed") /\ UNCHANGED assets
     \/ Fault("partial") /\ ClaimGoto(w, "failed") /\ assets' = assets \cup {cw[w].uid}
     \/ Fault("ignored") /\ ClaimGoto(w, "done") /\ UNCHANGED assets
  /\ UNCHANGED <<apiVars, informerVars, claimQueue, volumeQueue, vw>>

(* Faulty: the policy is read again when the object is built.              *)
BadNewPV(w) == [phase |-> "Available", policy |-> class, terminating |-> FALSE]

NewPV(w) == [phase |-> "Available", policy |-> cw[w].policy, terminating |-> FALSE]

ClaimTryAgain(w) == cw' = [cw EXCEPT ![w].tries = @ + 1]

(* One attempt to create the PV object; "already exists" is a success. The *)
(* object may have been stored although the answer is an error (lostSave). *)
ClaimSave(w) ==
  LET u == cw[w].uid
  IN  /\ cw[w].pc = "save"
      /\ cw[w].tries < RetryCount
      /\ \/ /\ ClaimGoto(w, "done")
            /\ IF pvs[u] = NoPV THEN SetPV(u, NewPV(w)) ELSE UNCHANGED <<pvs, pvEvents>>
            /\ UNCHANGED boundVars
         \/ Fault("save") /\ ClaimTryAgain(w) /\ UNCHANGED <<pvs, pvEvents>>
         \/ Fault("lostSave") /\ pvs[u] = NoPV /\ ClaimTryAgain(w) /\ SetPV(u, NewPV(w))
      /\ UNCHANGED <<claims, born, class, assets, claimEvents, claimCache, pvCache,
                     claimQueue, volumeQueue, vw>>

(* Faulty: the asset is left behind when the PV could not be saved.        *)
BadClaimSaveGivesUp(w) ==
  /\ cw[w].pc = "save"
  /\ cw[w].tries >= RetryCount
  /\ ClaimGoto(w, "done")
  /\ UNCHANGED <<apiVars, assets, informerVars, claimQueue, volumeQueue, vw, boundVars>>

(* The loop ends without success: err is still nil if it never ran.        *)
ClaimSaveGivesUp(w) ==
  /\ cw[w].pc = "save"
  /\ cw[w].tries >= RetryCount
  /\ IF RetryCount = 0
       THEN ClaimGoto(w, "done")
       ELSE cw' = [cw EXCEPT ![w] = [@ EXCEPT !.pc = "cleanup", !.tries = 0]]
  /\ UNCHANGED <<apiVars, assets, informerVars, claimQueue, volumeQueue, vw, boundVars>>

(* One attempt to delete the asset of a PV that could not be saved.        *)
ClaimCleanup(w) ==
  /\ cw[w].pc = "cleanup"
  /\ cw[w].tries < RetryCount
  /\ \/ ClaimGoto(w, "done") /\ assets' = assets \ {cw[w].uid} /\ UNCHANGED boundVars
     \/ Fault("delete") /\ ClaimTryAgain(w) /\ UNCHANGED assets
     \/ Fault("lostDelete") /\ ClaimTryAgain(w) /\ assets' = assets \ {cw[w].uid}
  /\ UNCHANGED <<apiVars, informerVars, claimQueue, volumeQueue, vw>>

(* "There is an orphaned volume and there is nothing we can do about it."  *)
ClaimCleanupGivesUp(w) ==
  /\ cw[w].pc = "cleanup"
  /\ cw[w].tries >= RetryCount
  /\ ClaimGoto(w, "done")
  /\ UNCHANGED <<apiVars, assets, informerVars, claimQueue, volumeQueue, vw, boundVars>>

(* Faulty: the deferred Done is missing when the work is to be retried.    *)
BadFinishNoDone(q, k, failed, threshold) ==
  IF ~failed THEN Done(Forget(q, k), k)
  ELSE IF NumRequeues(q, k) < threshold THEN AddRateLimited(q, k)
  ELSE Done(q, k)

(* Faulty: the failure is counted and nothing is scheduled.                *)
BadFinishNoRetry(q, k, failed, threshold) ==
  IF ~failed THEN Done(Forget(q, k), k)
  ELSE Done([q EXCEPT !.requeues[k] = @ + 1], k)

(* What every work item ends with, for either queue.                       *)
Finish(q, k, failed, threshold) ==
  IF ~failed THEN Done(Forget(q, k), k)
  ELSE IF NumRequeues(q, k) < threshold THEN Done(AddRateLimited(q, k), k)
  ELSE Done(q, k)

ClaimFinish(w) ==
  /\ cw[w].pc \in {"done", "failed"}
  /\ claimQueue' = Finish(claimQueue, cw[w].key, cw[w].pc = "failed", ProvisionThreshold)
  /\ cw' = [cw EXCEPT ![w] = IdleClaimWorker]
  /\ UNCHANGED <<apiVars, assets, informerVars, volumeQueue, vw, boundVars>>

ClaimWorker(w) ==
  \/ ClaimGet(w) \/ ClaimSync(w) \/ ClaimGetPV(w) \/ ClaimPrepare(w)
  \/ ClaimProvision(w) \/ ClaimSave(w) \/ ClaimSaveGivesUp(w)
  \/ ClaimCleanup(w) \/ ClaimCleanupGivesUp(w) \/ ClaimFinish(w)
-----------------------------------------------------------------------------
(* A volume worker: processNextVolumeWorkItem down to                      *)
(* deleteVolumeOperation.                                                  *)

(* Faulty: the deletion timestamp is not looked at.                        *)
BadShouldDelete(pv) == pv # NoPV /\ pv.policy = "Delete"

(* Every PV of the model carries our annDynamicallyProvisioned.            *)
ShouldDelete(pv) ==
  /\ pv # NoPV
  /\ ~pv.terminating
  /\ pv.phase = "Released"
  /\ pv.policy = "Delete"

VolumeGoto(w, pc) == vw' = [vw EXCEPT ![w] = [@ EXCEPT !.pc = pc]]

VolumeGet(w) ==
  /\ vw[w].pc = "idle"
  /\ volumeQueue.queue # <<>>
  /\ vw' = [vw EXCEPT ![w] = [pc |-> "sync", uid |-> Head(volumeQueue.queue)]]
  /\ volumeQueue' = Get(volumeQueue)
  /\ UNCHANGED <<apiVars, assets, informerVars, claimQueue, cw, boundVars>>

VolumeSync(w) ==
  /\ vw[w].pc = "sync"
  /\ VolumeGoto(w, IF ShouldDelete(pvCache[vw[w].uid]) THEN "get" ELSE "done")
  /\ UNCHANGED <<apiVars, assets, informerVars, claimQueue, volumeQueue, cw, boundVars>>

(* Faulty: the cached copy is trusted.                                     *)
BadVolumeGetPV(w) ==
  /\ vw[w].pc = "get"
  /\ VolumeGoto(w, "delete")
  /\ UNCHANGED <<apiVars, assets, informerVars, claimQueue, volumeQueue, cw, boundVars>>

(* The cached volume may be old: the decision is taken again on a fresh    *)
(* copy. A failed GET ends the work without a retry.                       *)
VolumeGetPV(w) ==
  /\ vw[w].pc = "get"
  /\ \/ /\ VolumeGoto(w, IF ShouldDelete(pvs[vw[w].uid]) THEN "delete" ELSE "done")
        /\ UNCHANGED boundVars
     \/ Fault("volumeGet") /\ VolumeGoto(w, "done")
  /\ UNCHANGED <<apiVars, assets, informerVars, claimQueue, volumeQueue, cw>>

VolumeDelete(w) ==
  /\ vw[w].pc = "delete"
  /\ \/ VolumeGoto(w, "remove") /\ assets' = assets \ {vw[w].uid} /\ UNCHANGED boundVars
     \/ Fault("delete") /\ VolumeGoto(w, "failed") /\ UNCHANGED assets
     \/ Fault("lostDelete") /\ VolumeGoto(w, "failed") /\ assets' = assets \ {vw[w].uid}
     \/ Fault("ignored") /\ VolumeGoto(w, "done") /\ UNCHANGED assets
  /\ UNCHANGED <<apiVars, informerVars, claimQueue, volumeQueue, cw>>

Terminate(u) == SetPV(u, [pvs[u] EXCEPT !.terminating = TRUE])

(* Deleting the PV object marks it; the finalizers remove it later.        *)
VolumeRemove(w) ==
  LET u == vw[w].uid
  IN  /\ vw[w].pc = "remove"
      /\ \/ /\ UNCHANGED boundVars
            /\ IF pvs[u] = NoPV
                 THEN VolumeGoto(w, "failed") /\ UNCHANGED <<pvs, pvEvents>>
                 ELSE VolumeGoto(w, "done") /\ Terminate(u)
         \/ Fault("remove") /\ VolumeGoto(w, "failed") /\ UNCHANGED <<pvs, pvEvents>>
         \/ Fault("lostRemove") /\ pvs[u] # NoPV /\ VolumeGoto(w, "failed") /\ Terminate(u)
      /\ UNCHANGED <<claims, born, class, assets, claimEvents, claimCache, pvCache,
                     claimQueue, volumeQueue, cw>>

VolumeFinish(w) ==
  /\ vw[w].pc \in {"done", "failed"}
  /\ volumeQueue' = Finish(volumeQueue, vw[w].uid, vw[w].pc = "failed", DeleteThreshold)
  /\ vw' = [vw EXCEPT ![w] = IdleVolumeWorker]
  /\ UNCHANGED <<apiVars, assets, informerVars, claimQueue, cw, boundVars>>

VolumeWorker(w) ==
  \/ VolumeGet(w) \/ VolumeSync(w) \/ VolumeGetPV(w) \/ VolumeDelete(w)
  \/ VolumeRemove(w) \/ VolumeFinish(w)
-----------------------------------------------------------------------------
(* The process dies and is started again: its caches are filled by a list  *)
(* before the workers start, its queues hold every object listed, nothing  *)
(* else survives.                                                          *)
Orders(S) == {s \in [1 .. Cardinality(S) -> S] : Range(s) = S}

Listed(Items, S, order) == Queue(order, S, {}, {}, [k \in Items |-> 0])

Restart ==
  LET K == {k \in Keys : claims[k] # NoClaim}
      U == {u \in UIDs : pvs[u] # NoPV}
  IN  /\ crashes < MaxCrashes
      /\ crashes' = crashes + 1
      /\ claimCache' = claims /\ pvCache' = pvs
      /\ claimEvents' = <<>> /\ pvEvents' = <<>>
      /\ \E s \in Orders(K) : claimQueue' = Listed(Keys, K, s)
      /\ \E s \in Orders(U) : volumeQueue' = Listed(UIDs, U, s)
      /\ cw' = [w \in ClaimWorkers |-> IdleClaimWorker]
      /\ vw' = [w \in VolumeWorkers |-> IdleVolumeWorker]
      /\ UNCHANGED <<apiVars, assets, faults, edits>>
-----------------------------------------------------------------------------
(* Kubernetes: users, the PV binder and the finalizers.                    *)

controllerVars == <<assets, claimCache, pvCache, claimQueue, volumeQueue, cw, vw>>

CreateClaim(k, u) ==
  /\ claims[k] = NoClaim
  /\ u \notin born
  /\ born' = born \cup {u}
  /\ SetClaim(k, [uid |-> u, ours |-> FALSE, bound |-> FALSE])
  /\ UNCHANGED <<controllerVars, pvs, class, pvEvents, boundVars>>

(* The binder asks this provisioner for a volume.                          *)
Annotate(k) ==
  /\ claims[k] # NoClaim /\ ~claims[k].ours
  /\ SetClaim(k, [claims[k] EXCEPT !.ours = TRUE])
  /\ UNCHANGED <<controllerVars, pvs, born, class, pvEvents, boundVars>>

DeleteClaim(k) ==
  /\ claims[k] # NoClaim
  /\ SetClaim(k, NoClaim)
  /\ UNCHANGED <<controllerVars, pvs, born, class, pvEvents, boundVars>>

BindClaim(k) ==
  /\ claims[k] # NoClaim /\ ~claims[k].bound
  /\ LET u == claims[k].uid
     IN  /\ pvs[u] # NoPV /\ pvs[u].phase = "Available" /\ ~pvs[u].terminating
         /\ SetPV(u, [pvs[u] EXCEPT !.phase = "Bound"])
  /\ SetClaim(k, [claims[k] EXCEPT !.bound = TRUE])
  /\ UNCHANGED <<controllerVars, born, class, boundVars>>

ReleasePV(u) ==
  /\ pvs[u] # NoPV /\ pvs[u].phase # "Released"
  /\ \A k \in Keys : claims[k] = NoClaim \/ claims[k].uid # u
  /\ SetPV(u, [pvs[u] EXCEPT !.phase = "Released"])
  /\ UNCHANGED <<controllerVars, claims, born, class, claimEvents, boundVars>>

(* PV protection keeps a bound object until it is released.                *)
FinalizePV(u) ==
  /\ pvs[u] # NoPV /\ pvs[u].terminating /\ pvs[u].phase # "Bound"
  /\ SetPV(u, NoPV)
  /\ UNCHANGED <<controllerVars, claims, born, class, claimEvents, boundVars>>

Edit(kind) ==
  /\ kind \in EditKinds
  /\ edits < MaxEdits
  /\ edits' = edits + 1
  /\ UNCHANGED <<faults, crashes>>

EditPolicy(u) ==
  /\ Edit("policy")
  /\ pvs[u] # NoPV
  /\ \E p \in Policies \ {pvs[u].policy} : SetPV(u, [pvs[u] EXCEPT !.policy = p])
  /\ UNCHANGED <<controllerVars, claims, born, class, claimEvents>>

UserDeletePV(u) ==
  /\ Edit("pv")
  /\ pvs[u] # NoPV /\ ~pvs[u].terminating
  /\ Terminate(u)
  /\ UNCHANGED <<controllerVars, claims, born, class, claimEvents>>

(* The informer of the classes has no handler: its event wakes nobody.     *)
EditClass ==
  /\ Edit("class")
  /\ \E c \in Classes \ {class} : class' = c
  /\ UNCHANGED <<controllerVars, claims, pvs, born, claimEvents, pvEvents>>

Binder ==
  \/ \E k \in Keys : Annotate(k) \/ BindClaim(k)
  \/ \E u \in UIDs : ReleasePV(u) \/ FinalizePV(u)

Users ==
  \/ \E k \in Keys : (\E u \in UIDs : CreateClaim(k, u)) \/ DeleteClaim(k)
  \/ \E u \in UIDs : EditPolicy(u) \/ UserDeletePV(u)
  \/ EditClass

Informers ==
  \/ HandleClaimEvent \/ HandlePVEvent
  \/ \E k \in Keys : ResyncClaim(k) \/ ClaimDelayPasses(k)
  \/ \E u \in UIDs : ResyncPV(u) \/ VolumeDelayPasses(u)

Next ==
  \/ \E w \in ClaimWorkers : ClaimWorker(w)
  \/ \E w \in VolumeWorkers : VolumeWorker(w)
  \/ Informers
  \/ Binder
  \/ Users
  \/ Restart

Spec == Init /\ [][Next]_vars

(* The goroutines, the informers and Kubernetes keep running; the queue's  *)
(* timers and the resync period fire again and again. Nothing is assumed   *)
(* of users, of failures or of crashes.                                    *)
Fairness ==
  /\ \A w \in ClaimWorkers : WF_vars(ClaimWorker(w))
  /\ \A w \in VolumeWorkers : WF_vars(VolumeWorker(w))
  /\ WF_vars(HandleClaimEvent) /\ WF_vars(HandlePVEvent)
  /\ \A k \in Keys : /\ WF_vars(ResyncClaim(k)) /\ WF_vars(ClaimDelayPasses(k))
                     /\ WF_vars(Annotate(k)) /\ WF_vars(BindClaim(k))
  /\ \A u \in UIDs : /\ WF_vars(ResyncPV(u)) /\ WF_vars(VolumeDelayPasses(u))
                     /\ WF_vars(ReleasePV(u)) /\ WF_vars(FinalizePV(u))

FairSpec == Spec /\ Fairness
-----------------------------------------------------------------------------
(* Safety.                                                                 *)

(* The abstract volume: an object with a deletion timestamp counts as gone.*)
ObjectOf(pv) == IF pv = NoPV THEN "none"
                ELSE IF pv.terminating THEN "none"
                ELSE IF pv.phase = "Released" THEN "released" ELSE "live"

Lifecycle == INSTANCE VolumeLifecycle WITH
  Volumes <- UIDs, asset <- assets, object <- [u \in UIDs |-> ObjectOf(pvs[u])]

(* What queues, caches and workers do to a volume, however their steps     *)
(* interleave, fail and are cut off, are steps of its lifecycle.           *)
ImplementsLifecycle == Lifecycle!Spec

(* enqueueWork drops an event when NumRequeues is not zero, "because if it *)
(* is already there we must be retrying it": an item with failures is      *)
(* waiting, queued or being processed, or it was given up at the threshold.*)
RetryTracked ==
  /\ \A k \in Keys : Retried(claimQueue, k, ProvisionThreshold)
  /\ \A u \in UIDs : Retried(volumeQueue, u, DeleteThreshold)

(* An item marked dirty will be handed out: it is on the queue, or Done    *)
(* will put it there. The early Done of forgetWork must not lose it.       *)
NothingLost == NoneLost(claimQueue) /\ NoneLost(volumeQueue)

(* provisionClaimOperation removes the asset because "we don't have        *)
(* appropriate PV object for it": no PV object may exist then.             *)
CleanupIsAlone ==
  \A w \in ClaimWorkers : cw[w].pc = "cleanup" => pvs[cw[w].uid] = NoPV

(* Liveness, when fewer calls fail than it takes to give up.               *)

Wanted(u) == \E k \in Keys : ShouldProvision(claims[k]) /\ claims[k].uid = u

Dead(u) == \A k \in Keys : claims[k] = NoClaim \/ claims[k].uid # u

(* A claim that keeps asking gets its PV object, through lost calls, stale *)
(* caches, cleanups and events dropped during a retry.                     *)
EventuallyProvisioned == \A u \in UIDs : Wanted(u) ~> (pvs[u] # NoPV \/ ~Wanted(u))

(* A released volume that may be deleted is deleted.                       *)
EventuallyReclaimed == \A u \in UIDs : ShouldDelete(pvs[u]) ~> ~ShouldDelete(pvs[u])

(* No asset outlives its claim, although a claim may vanish between any    *)
(* two steps of its provisioning.                                          *)
EventuallyNoOrphan ==
  \A u \in UIDs : (u \in born /\ Dead(u)) ~> (u \notin assets)
=============================================================================
