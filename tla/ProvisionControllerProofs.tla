--------------------- MODULE ProvisionControllerProofs ---------------------
(***************************************************************************)
(* The bookkeeping of lib/controller for any number of claims, volumes and *)
(* workers, any thresholds, any failures, edits and crashes: the work      *)
(* queues lose no item and no retry, although forgetWork calls Done for    *)
(* items that other workers are processing.  The second half shows that    *)
(* the library implements VolumeLifecycle as long as no two workers act on *)
(* one volume, and the last part when this is so.                          *)
(***************************************************************************)
EXTENDS ProvisionController, SequenceTheorems, FiniteSetTheorems, TLAPS

(* The methods of the work queue: each keeps the type, loses no item, and  *)
(* keeps an item with failures tracked.                                    *)

(* What a queue of the controller satisfies between any two calls.         *)
Sound(q, Items, threshold) ==
  /\ q \in QueueType(Items)
  /\ NoneLost(q)
  /\ \A k \in Items : Retried(q, k, threshold)

LEMMA AppendRange ==
  ASSUME NEW S, NEW s \in Seq(S), NEW k \in S
  PROVE  Append(s, k) \in Seq(S) /\ Range(Append(s, k)) = Range(s) \cup {k}
<1>1. /\ Append(s, k) \in Seq(S)
      /\ Len(Append(s, k)) = Len(s) + 1
      /\ \A i \in 1 .. Len(s) : Append(s, k)[i] = s[i]
      /\ Append(s, k)[Len(s) + 1] = k
  BY AppendProperties
<1>2. DOMAIN s = 1 .. Len(s) /\ DOMAIN Append(s, k) = 1 .. (Len(s) + 1) /\ Len(s) \in Nat
  BY <1>1, LenProperties
<1>3. ASSUME NEW x \in Range(Append(s, k)) PROVE x \in Range(s) \cup {k}
  BY <1>1, <1>2, <1>3 DEF Range
<1>4. ASSUME NEW x \in Range(s) PROVE x \in Range(Append(s, k))
  BY <1>1, <1>2, <1>4 DEF Range
<1>5. k \in Range(Append(s, k))
  BY <1>1, <1>2 DEF Range
<1>6. QED
  BY <1>1, <1>3, <1>4, <1>5

LEMMA TailRange ==
  ASSUME NEW S, NEW s \in Seq(S), s # <<>>
  PROVE  /\ Head(s) \in S /\ Tail(s) \in Seq(S)
         /\ Range(s) = Range(Tail(s)) \cup {Head(s)}
<1>1. /\ Head(s) \in S /\ Tail(s) \in Seq(S)
      /\ Len(Tail(s)) = Len(s) - 1
      /\ \A i \in 1 .. Len(Tail(s)) : Tail(s)[i] = s[i + 1]
      /\ Head(s) = s[1]
  BY HeadTailProperties
<1>2. DOMAIN s = 1 .. Len(s) /\ DOMAIN Tail(s) = 1 .. (Len(s) - 1) /\ Len(s) \in Nat \ {0}
  BY <1>1, LenProperties, EmptySeq
<1>3. ASSUME NEW i \in DOMAIN s, i # 1 PROVE s[i] \in Range(Tail(s))
  <2>1. i - 1 \in DOMAIN Tail(s) /\ (i - 1) + 1 = i
    BY <1>2, <1>3
  <2>2. Tail(s)[i - 1] = s[i]
    BY <1>1, <1>2, <2>1
  <2>3. QED
    BY <2>1, <2>2 DEF Range
<1>4. Range(s) \subseteq Range(Tail(s)) \cup {Head(s)}
  BY <1>1, <1>3 DEF Range
<1>5. ASSUME NEW x \in Range(Tail(s)) PROVE x \in Range(s)
  BY <1>1, <1>2 DEF Range
<1>6. Head(s) \in Range(s)
  BY <1>1, <1>2 DEF Range
<1>7. QED
  BY <1>1, <1>4, <1>5, <1>6

(* Adding an item is always safe.                                          *)
LEMMA AddSound ==
  ASSUME NEW Items, NEW threshold \in Nat, NEW q, Sound(q, Items, threshold), NEW k \in Items
  PROVE  Sound(Add(q, k), Items, threshold)
<1>1. Add(q, k) \in QueueType(Items)
  BY AppendRange DEF Add, Queue, QueueType, Sound
<1>2. NoneLost(Add(q, k))
  BY AppendRange DEF Add, Queue, QueueType, Sound, NoneLost
<1>3. \A x \in Items : Retried(Add(q, k), x, threshold)
  BY AppendRange DEF Add, Queue, QueueType, Sound, Retried, Tracked, GivenUp, NumRequeues
<1>4. QED
  BY <1>1, <1>2, <1>3 DEF Sound

(* The item that is handed out moves from the queue to processing.         *)
LEMMA GetSound ==
  ASSUME NEW Items, NEW threshold \in Nat, NEW q, Sound(q, Items, threshold), q.queue # <<>>
  PROVE  Head(q.queue) \in Items /\ Sound(Get(q), Items, threshold)
<1>1. /\ Head(q.queue) \in Items /\ Tail(q.queue) \in Seq(Items)
      /\ Range(q.queue) = Range(Tail(q.queue)) \cup {Head(q.queue)}
  BY TailRange DEF Sound, QueueType
<1>2. Get(q) \in QueueType(Items)
  BY <1>1 DEF Get, Queue, QueueType, Sound
<1>3. NoneLost(Get(q))
  BY <1>1 DEF Get, Queue, QueueType, Sound, NoneLost
<1>4. \A x \in Items : Retried(Get(q), x, threshold)
  BY <1>1 DEF Get, Queue, QueueType, Sound, Retried, Tracked, GivenUp, NumRequeues
<1>5. QED
  BY <1>1, <1>2, <1>3, <1>4 DEF Sound

(* Done may come at any time, also for an item nobody is processing, if    *)
(* the item's failures are forgotten, waited for or too many.              *)
LEMMA DoneSound ==
  ASSUME NEW Items, NEW threshold \in Nat, NEW q, Sound(q, Items, threshold), NEW k \in Items,
         q.requeues[k] = 0 \/ k \in q.delayed \/ q.requeues[k] >= threshold
  PROVE  Sound(Done(q, k), Items, threshold)
<1>1. Done(q, k) \in QueueType(Items)
  BY AppendRange DEF Done, Queue, QueueType, Sound
<1>2. NoneLost(Done(q, k))
  BY AppendRange DEF Done, Queue, QueueType, Sound, NoneLost
<1>3. \A x \in Items : Retried(Done(q, k), x, threshold)
  BY AppendRange DEF Done, Queue, QueueType, Sound, Retried, Tracked, GivenUp, NumRequeues
<1>4. QED
  BY <1>1, <1>2, <1>3 DEF Sound

LEMMA ForgetSound ==
  ASSUME NEW Items, NEW threshold \in Nat, NEW q, Sound(q, Items, threshold), NEW k \in Items
  PROVE  Sound(Forget(q, k), Items, threshold) /\ Forget(q, k).requeues[k] = 0
<1>1. Forget(q, k) \in QueueType(Items) /\ Forget(q, k).requeues[k] = 0
  BY DEF Forget, Queue, QueueType, Sound
<1>2. NoneLost(Forget(q, k))
  BY DEF Forget, Queue, QueueType, Sound, NoneLost
<1>3. \A x \in Items : Retried(Forget(q, k), x, threshold)
  BY DEF Forget, Queue, QueueType, Sound, Retried, Tracked, GivenUp, NumRequeues
<1>4. QED
  BY <1>1, <1>2, <1>3 DEF Sound

LEMMA AddRateLimitedSound ==
  ASSUME NEW Items, NEW threshold \in Nat, NEW q, Sound(q, Items, threshold), NEW k \in Items
  PROVE  Sound(AddRateLimited(q, k), Items, threshold) /\ k \in AddRateLimited(q, k).delayed
<1>1. AddRateLimited(q, k) \in QueueType(Items) /\ k \in AddRateLimited(q, k).delayed
  BY DEF AddRateLimited, Queue, QueueType, Sound
<1>2. NoneLost(AddRateLimited(q, k))
  BY DEF AddRateLimited, Queue, QueueType, Sound, NoneLost
<1>3. \A x \in Items : Retried(AddRateLimited(q, k), x, threshold)
  BY DEF AddRateLimited, Queue, QueueType, Sound, Retried, Tracked, GivenUp, NumRequeues
<1>4. QED
  BY <1>1, <1>2, <1>3 DEF Sound

(* The item leaves the waiting set and is added in the same step.          *)
LEMMA DelayPassesSound ==
  ASSUME NEW Items, NEW threshold \in Nat, NEW q, Sound(q, Items, threshold), NEW k \in Items
  PROVE  Sound(DelayPasses(q, k), Items, threshold)
<1>1. DelayPasses(q, k) \in QueueType(Items)
  BY AppendRange DEF DelayPasses, Add, Queue, QueueType, Sound
<1>2. NoneLost(DelayPasses(q, k))
  BY AppendRange DEF DelayPasses, Add, Queue, QueueType, Sound, NoneLost
<1>3. \A x \in Items : Retried(DelayPasses(q, k), x, threshold)
  BY AppendRange DEF DelayPasses, Add, Queue, QueueType, Sound, Retried, Tracked, GivenUp, NumRequeues
<1>4. QED
  BY <1>1, <1>2, <1>3 DEF Sound
-----------------------------------------------------------------------------
(* The types of the controller's state.                                    *)

ApiOK ==
  /\ claims \in [Keys -> Claim \cup {NoClaim}]
  /\ pvs \in [UIDs -> PV \cup {NoPV}]
  /\ born \subseteq UIDs /\ assets \subseteq UIDs
  /\ class \in Classes

InformersOK ==
  /\ claimEvents \in Seq([key : Keys, obj : Claim \cup {NoClaim}])
  /\ pvEvents \in Seq([key : UIDs, obj : PV \cup {NoPV}])
  /\ claimCache \in [Keys -> Claim \cup {NoClaim}]
  /\ pvCache \in [UIDs -> PV \cup {NoPV}]

QueuesOK ==
  /\ Sound(claimQueue, Keys, ProvisionThreshold)
  /\ Sound(volumeQueue, UIDs, DeleteThreshold)

(* A worker that has work knows its key, and the UID once it has read the  *)
(* claim: this is what it calls Done, Forget and the API server with.      *)
ClaimWorkerStates ==
  {s \in [pc : ClaimPCs, key : Keys \cup {"none"}, uid : UIDs \cup {"none"},
          policy : Policies, tries : Nat] :
     /\ s.pc # "idle" => s.key \in Keys
     /\ s.pc \notin {"idle", "sync", "done", "failed"} => s.uid \in UIDs}

VolumeWorkerStates ==
  {s \in [pc : VolumePCs, uid : UIDs \cup {"none"}] : s.pc # "idle" => s.uid \in UIDs}

WorkersOK ==
  /\ cw \in [ClaimWorkers -> ClaimWorkerStates]
  /\ vw \in [VolumeWorkers -> VolumeWorkerStates]

BoundsOK ==
  /\ faults \in 0 .. MaxFaults
  /\ edits \in 0 .. MaxEdits
  /\ crashes \in 0 .. MaxCrashes

IInv == ApiOK /\ InformersOK /\ QueuesOK /\ WorkersOK /\ BoundsOK

-----------------------------------------------------------------------------
(* The queues.                                                             *)

LEMMA NewQueueSound ==
  ASSUME NEW Items, NEW threshold \in Nat, NEW S \in SUBSET Items, NEW s \in Seq(Items),
         Range(s) = S
  PROVE  Sound(Queue(s, S, {}, {}, [k \in Items |-> 0]), Items, threshold)
  BY DEF Sound, Queue, QueueType, NoneLost, Retried, NumRequeues

LEMMA OrdersList ==
  ASSUME NEW Items, IsFiniteSet(Items), NEW S \in SUBSET Items, NEW s \in Orders(S)
  PROVE  s \in Seq(Items) /\ Range(s) = S
<1>1. Cardinality(S) \in Nat
  BY FS_Subset, FS_CardinalityType
<1>2. s \in [1 .. Cardinality(S) -> Items]
  BY DEF Orders
<1>3. QED
  BY <1>1, <1>2, IsASeq DEF Orders

LEMMA EnqueueSound ==
  ASSUME NEW Items, NEW threshold \in Nat, NEW q, Sound(q, Items, threshold), NEW k \in Items
  PROVE  Sound(Enqueue(q, k), Items, threshold)
  BY AddSound DEF Enqueue

LEMMA ForgetWorkSound ==
  ASSUME NEW Items, NEW threshold \in Nat, NEW q, Sound(q, Items, threshold), NEW k \in Items
  PROVE  Sound(ForgetWork(q, k), Items, threshold)
<1>1. Sound(Forget(q, k), Items, threshold) /\ Forget(q, k).requeues[k] = 0
  BY ForgetSound
<1>2. QED
  BY <1>1, DoneSound DEF ForgetWork

(* However a work item ends, it is retried, forgotten or given up.         *)
LEMMA FinishSound ==
  ASSUME NEW Items, NEW threshold \in Nat, NEW q, Sound(q, Items, threshold), NEW k \in Items,
         NEW failed \in BOOLEAN
  PROVE  Sound(Finish(q, k, failed, threshold), Items, threshold)
<1>1. q.requeues[k] \in Nat
  BY DEF Sound, QueueType
<1>2. CASE ~failed
  BY <1>2, ForgetWorkSound DEF Finish, ForgetWork
<1>3. CASE failed /\ NumRequeues(q, k) < threshold
  <2>1. Sound(AddRateLimited(q, k), Items, threshold) /\ k \in AddRateLimited(q, k).delayed
    BY AddRateLimitedSound
  <2>2. Sound(Done(AddRateLimited(q, k), k), Items, threshold)
    BY <2>1, DoneSound
  <2>3. QED
    BY <1>3, <2>2 DEF Finish
<1>4. CASE failed /\ ~(NumRequeues(q, k) < threshold)
  <2>1. q.requeues[k] >= threshold
    BY <1>1, <1>4 DEF NumRequeues
  <2>2. QED
    BY <1>4, <2>1, DoneSound DEF Finish
<1>5. QED
  BY <1>2, <1>3, <1>4
-----------------------------------------------------------------------------
LEMMA InitIInv == Init => IInv
<1>1. SUFFICES ASSUME Init PROVE IInv
  OBVIOUS
<1>2. ApiOK /\ InformersOK
  BY <1>1, ControllerAssumption DEF Init, ApiOK, InformersOK
<1>3. QueuesOK
  <2>1. <<>> \in Seq(Keys) /\ <<>> \in Seq(UIDs) /\ Range(<<>>) = {}
    BY DEF Range
  <2>2. QED
    BY <1>1, <2>1, NewQueueSound, ControllerAssumption DEF Init, EmptyQueue, QueuesOK
<1>4. WorkersOK
  BY <1>1 DEF Init, WorkersOK, ClaimWorkerStates, VolumeWorkerStates, IdleClaimWorker,
              IdleVolumeWorker, ClaimPCs, VolumePCs, Policies
<1>5. BoundsOK
  BY <1>1, ControllerAssumption DEF Init, BoundsOK
<1>6. QED
  BY <1>2, <1>3, <1>4, <1>5 DEF IInv

(* A write to the API server keeps its objects and events well-formed.     *)
LEMMA SetClaimOK ==
  ASSUME IInv, NEW k \in Keys, NEW obj \in Claim \cup {NoClaim}, SetClaim(k, obj)
  PROVE  /\ claims' \in [Keys -> Claim \cup {NoClaim}]
         /\ claimEvents' \in Seq([key : Keys, obj : Claim \cup {NoClaim}])
  BY AppendProperties DEF IInv, ApiOK, InformersOK, SetClaim

LEMMA SetPVOK ==
  ASSUME IInv, NEW u \in UIDs, NEW obj \in PV \cup {NoPV}, SetPV(u, obj)
  PROVE  /\ pvs' \in [UIDs -> PV \cup {NoPV}]
         /\ pvEvents' \in Seq([key : UIDs, obj : PV \cup {NoPV}])
  BY AppendProperties DEF IInv, ApiOK, InformersOK, SetPV

LEMMA TerminateOK ==
  ASSUME IInv, NEW u \in UIDs, pvs[u] # NoPV, Terminate(u)
  PROVE  /\ pvs' \in [UIDs -> PV \cup {NoPV}]
         /\ pvEvents' \in Seq([key : UIDs, obj : PV \cup {NoPV}])
<1>1. [pvs[u] EXCEPT !.terminating = TRUE] \in PV
  BY DEF IInv, ApiOK, PV
<1>2. QED
  BY <1>1, SetPVOK DEF Terminate

LEMMA FaultOK == ASSUME IInv, NEW kind, Fault(kind) PROVE BoundsOK'
  BY ControllerAssumption DEF IInv, BoundsOK, Fault

(* A worker's step is well-formed if the state it goes to is.              *)
LEMMA ClaimWorkerMoves ==
  ASSUME IInv, NEW w \in ClaimWorkers, NEW s \in ClaimWorkerStates,
         cw' = [cw EXCEPT ![w] = s], vw' = vw
  PROVE  WorkersOK'
  BY DEF IInv, WorkersOK

LEMMA VolumeWorkerMoves ==
  ASSUME IInv, NEW w \in VolumeWorkers, NEW s \in VolumeWorkerStates,
         vw' = [vw EXCEPT ![w] = s], cw' = cw
  PROVE  WorkersOK'
  BY DEF IInv, WorkersOK

LEMMA ClaimGotoOK ==
  ASSUME IInv, NEW w \in ClaimWorkers, NEW pc \in ClaimPCs \ {"idle"},
         pc \in {"sync", "done", "failed"} \/ cw[w].uid \in UIDs,
         cw[w].pc # "idle", ClaimGoto(w, pc), vw' = vw
  PROVE  WorkersOK'
<1>1. cw[w] \in ClaimWorkerStates
  BY DEF IInv, WorkersOK
<1>2. [cw[w] EXCEPT !.pc = pc] \in ClaimWorkerStates
  BY <1>1 DEF ClaimWorkerStates
<1>3. cw' = [cw EXCEPT ![w] = [cw[w] EXCEPT !.pc = pc]]
  BY DEF ClaimGoto
<1>4. QED
  BY <1>2, <1>3, ClaimWorkerMoves

LEMMA ClaimTryAgainOK ==
  ASSUME IInv, NEW w \in ClaimWorkers, ClaimTryAgain(w), vw' = vw
  PROVE  WorkersOK'
<1>1. cw[w] \in ClaimWorkerStates /\ cw[w].tries \in Nat
  BY DEF IInv, WorkersOK, ClaimWorkerStates
<1>2. cw[w].tries + 1 \in Nat
  BY <1>1
<1>3. [cw[w] EXCEPT !.tries = cw[w].tries + 1] \in ClaimWorkerStates
  BY <1>1, <1>2 DEF ClaimWorkerStates
<1>4. cw' = [cw EXCEPT ![w] = [cw[w] EXCEPT !.tries = cw[w].tries + 1]]
  BY DEF ClaimTryAgain
<1>5. QED
  BY <1>3, <1>4, ClaimWorkerMoves

LEMMA VolumeGotoOK ==
  ASSUME IInv, NEW w \in VolumeWorkers, NEW pc \in VolumePCs,
         vw[w].pc # "idle", VolumeGoto(w, pc), cw' = cw
  PROVE  WorkersOK'
<1>1. vw[w] \in VolumeWorkerStates
  BY DEF IInv, WorkersOK
<1>2. [vw[w] EXCEPT !.pc = pc] \in VolumeWorkerStates
  BY <1>1 DEF VolumeWorkerStates
<1>3. vw' = [vw EXCEPT ![w] = [vw[w] EXCEPT !.pc = pc]]
  BY DEF VolumeGoto
<1>4. QED
  BY <1>2, <1>3, VolumeWorkerMoves
-----------------------------------------------------------------------------
LEMMA ClaimWorkerIInv ==
  ASSUME IInv, NEW w \in ClaimWorkers, ClaimWorker(w)
  PROVE  IInv'
<1>0. cw[w] \in ClaimWorkerStates
  BY DEF IInv, WorkersOK
<1>u. cw[w].pc \notin {"idle", "sync", "done", "failed"} => cw[w].uid \in UIDs
  BY <1>0 DEF ClaimWorkerStates
<1>1. CASE ClaimGet(w)
  <2>1. Head(claimQueue.queue) \in Keys /\ Sound(claimQueue', Keys, ProvisionThreshold)
    BY <1>1, GetSound, ControllerAssumption DEF ClaimGet, IInv, QueuesOK
  <2>2. [cw[w] EXCEPT !.pc = "sync", !.key = Head(claimQueue.queue)] \in ClaimWorkerStates
    BY <1>0, <2>1 DEF ClaimWorkerStates, ClaimPCs
  <2>3. WorkersOK'
    BY <1>1, <2>2, ClaimWorkerMoves DEF ClaimGet
  <2>4. QED
    BY <1>1, <2>1, <2>3 DEF ClaimGet, IInv, ApiOK, InformersOK, QueuesOK, BoundsOK, apiVars,
                            informerVars, boundVars
<1>2. CASE ClaimSync(w)
  <2>1. claimCache[cw[w].key] \in Claim \cup {NoClaim}
    BY <1>0, <1>2 DEF ClaimSync, IInv, InformersOK, ClaimWorkerStates
  <2>2. WorkersOK'
    <3>1. CASE ShouldProvision(claimCache[cw[w].key])
      <4>1. claimCache[cw[w].key].uid \in UIDs
        BY <2>1, <3>1 DEF ShouldProvision, Claim
      <4>2. [cw[w] EXCEPT !.pc = "get", !.uid = claimCache[cw[w].key].uid] \in ClaimWorkerStates
        BY <1>0, <1>2, <4>1 DEF ClaimWorkerStates, ClaimPCs, ClaimSync
      <4>3. QED
        BY <1>2, <3>1, <4>2, ClaimWorkerMoves DEF ClaimSync
    <3>2. CASE ~ShouldProvision(claimCache[cw[w].key])
      BY <1>2, <3>2, ClaimGotoOK DEF ClaimSync, ClaimPCs
    <3>3. QED
      BY <3>1, <3>2
  <2>3. QED
    BY <1>2, <2>2 DEF ClaimSync, IInv, ApiOK, InformersOK, QueuesOK, BoundsOK, apiVars,
                      informerVars, boundVars
<1>3. CASE ClaimGetPV(w)
  <2>1. WorkersOK'
    BY <1>u, <1>3, ClaimGotoOK DEF ClaimGetPV, ClaimPCs
  <2>2. BoundsOK'
    BY <1>3, FaultOK DEF ClaimGetPV, IInv, BoundsOK, boundVars
  <2>3. QED
    BY <1>3, <2>1, <2>2 DEF ClaimGetPV, IInv, ApiOK, InformersOK, QueuesOK, apiVars, informerVars
<1>4. CASE ClaimPrepare(w)
  <2>1. WorkersOK'
    <3>1. CASE cw' = [cw EXCEPT ![w] = [@ EXCEPT !.pc = "provision", !.policy = class]]
               /\ class \in Policies
      <4>1. [cw[w] EXCEPT !.pc = "provision", !.policy = class] \in ClaimWorkerStates
        BY <1>0, <1>u, <1>4, <3>1 DEF ClaimWorkerStates, ClaimPCs, ClaimPrepare
      <4>2. QED
        BY <1>4, <3>1, <4>1, ClaimWorkerMoves DEF ClaimPrepare
    <3>2. CASE ClaimGoto(w, "done") \/ ClaimGoto(w, "failed")
      BY <1>4, <3>2, ClaimGotoOK DEF ClaimPrepare, ClaimPCs
    <3>3. QED
      BY <1>4, <3>1, <3>2 DEF ClaimPrepare
  <2>2. BoundsOK'
    BY <1>4, FaultOK DEF ClaimPrepare, IInv, BoundsOK, boundVars
  <2>3. QED
    BY <1>4, <2>1, <2>2 DEF ClaimPrepare, IInv, ApiOK, InformersOK, QueuesOK, apiVars, informerVars
<1>5. CASE ClaimProvision(w)
  <2>1. WorkersOK'
    <3>1. CASE cw' = [cw EXCEPT ![w] = [@ EXCEPT !.pc = "save", !.tries = 0]]
      <4>1. [cw[w] EXCEPT !.pc = "save", !.tries = 0] \in ClaimWorkerStates
        BY <1>0, <1>u, <1>5 DEF ClaimWorkerStates, ClaimPCs, ClaimProvision
      <4>2. QED
        BY <1>5, <3>1, <4>1, ClaimWorkerMoves DEF ClaimProvision
    <3>2. CASE ClaimGoto(w, "done") \/ ClaimGoto(w, "failed")
      BY <1>5, <3>2, ClaimGotoOK DEF ClaimProvision, ClaimPCs
    <3>3. QED
      BY <1>5, <3>1, <3>2 DEF ClaimProvision
  <2>2. BoundsOK'
    BY <1>5, FaultOK DEF ClaimProvision, IInv, BoundsOK, boundVars
  <2>3. assets' \subseteq UIDs
    BY <1>u, <1>5 DEF ClaimProvision, IInv, ApiOK
  <2>4. QED
    BY <1>5, <2>1, <2>2, <2>3
       DEF ClaimProvision, IInv, ApiOK, InformersOK, QueuesOK, apiVars, informerVars
<1>6. CASE ClaimSave(w)
  <2>1. cw[w].uid \in UIDs /\ cw[w].pc = "save"
    BY <1>u, <1>6 DEF ClaimSave
  <2>2. NewPV(w) \in PV
    BY <1>0 DEF NewPV, PV, ClaimWorkerStates
  <2>3. WorkersOK'
    BY <1>6, <2>1, ClaimGotoOK, ClaimTryAgainOK DEF ClaimSave, ClaimPCs
  <2>4. BoundsOK'
    BY <1>6, FaultOK DEF ClaimSave, IInv, BoundsOK, boundVars
  <2>5. \/ SetPV(cw[w].uid, NewPV(w))
        \/ UNCHANGED <<pvs, pvEvents>>
    BY <1>6 DEF ClaimSave
  <2>6. /\ pvs' \in [UIDs -> PV \cup {NoPV}]
        /\ pvEvents' \in Seq([key : UIDs, obj : PV \cup {NoPV}])
    BY <2>1, <2>2, <2>5, SetPVOK DEF IInv, ApiOK, InformersOK
  <2>7. QED
    BY <1>6, <2>3, <2>4, <2>6 DEF ClaimSave, IInv, ApiOK, InformersOK, QueuesOK
<1>7. CASE ClaimSaveGivesUp(w)
  <2>1. WorkersOK'
    <3>1. CASE RetryCount = 0
      BY <1>7, <3>1, ClaimGotoOK DEF ClaimSaveGivesUp, ClaimPCs
    <3>2. CASE RetryCount # 0
      <4>1. [cw[w] EXCEPT !.pc = "cleanup", !.tries = 0] \in ClaimWorkerStates
        BY <1>0, <1>u, <1>7 DEF ClaimWorkerStates, ClaimPCs, ClaimSaveGivesUp
      <4>2. QED
        BY <1>7, <3>2, <4>1, ClaimWorkerMoves DEF ClaimSaveGivesUp
    <3>3. QED
      BY <3>1, <3>2
  <2>2. QED
    BY <1>7, <2>1 DEF ClaimSaveGivesUp, IInv, ApiOK, InformersOK, QueuesOK, BoundsOK, apiVars,
                      informerVars, boundVars
<1>8. CASE ClaimCleanup(w)
  <2>1. WorkersOK'
    BY <1>8, ClaimGotoOK, ClaimTryAgainOK DEF ClaimCleanup, ClaimPCs
  <2>2. BoundsOK'
    BY <1>8, FaultOK DEF ClaimCleanup, IInv, BoundsOK, boundVars
  <2>3. assets' \subseteq UIDs
    BY <1>8 DEF ClaimCleanup, IInv, ApiOK
  <2>4. QED
    BY <1>8, <2>1, <2>2, <2>3
       DEF ClaimCleanup, IInv, ApiOK, InformersOK, QueuesOK, apiVars, informerVars
<1>9. CASE ClaimCleanupGivesUp(w)
  <2>1. WorkersOK'
    BY <1>9, ClaimGotoOK DEF ClaimCleanupGivesUp, ClaimPCs
  <2>2. QED
    BY <1>9, <2>1 DEF ClaimCleanupGivesUp, IInv, ApiOK, InformersOK, QueuesOK, BoundsOK, apiVars,
                      informerVars, boundVars
<1>10. CASE ClaimFinish(w)
  <2>1. cw[w].key \in Keys
    BY <1>0, <1>10 DEF ClaimFinish, ClaimWorkerStates
  <2>2. Sound(claimQueue', Keys, ProvisionThreshold)
    BY <1>10, <2>1, FinishSound, ControllerAssumption DEF ClaimFinish, IInv, QueuesOK
  <2>3. IdleClaimWorker \in ClaimWorkerStates
    BY DEF IdleClaimWorker, ClaimWorkerStates, ClaimPCs, Policies
  <2>4. WorkersOK'
    BY <1>10, <2>3, ClaimWorkerMoves DEF ClaimFinish
  <2>5. QED
    BY <1>10, <2>2, <2>4 DEF ClaimFinish, IInv, ApiOK, InformersOK, QueuesOK, BoundsOK, apiVars,
                             informerVars, boundVars
<1>11. QED
  BY <1>1, <1>2, <1>3, <1>4, <1>5, <1>6, <1>7, <1>8, <1>9, <1>10 DEF ClaimWorker

LEMMA VolumeWorkerIInv ==
  ASSUME IInv, NEW w \in VolumeWorkers, VolumeWorker(w)
  PROVE  IInv'
<1>0. vw[w] \in VolumeWorkerStates
  BY DEF IInv, WorkersOK
<1>u. vw[w].pc # "idle" => vw[w].uid \in UIDs
  BY <1>0 DEF VolumeWorkerStates
<1>1. CASE VolumeGet(w)
  <2>1. Head(volumeQueue.queue) \in UIDs /\ Sound(volumeQueue', UIDs, DeleteThreshold)
    BY <1>1, GetSound, ControllerAssumption DEF VolumeGet, IInv, QueuesOK
  <2>2. [pc |-> "sync", uid |-> Head(volumeQueue.queue)] \in VolumeWorkerStates
    BY <2>1 DEF VolumeWorkerStates, VolumePCs
  <2>3. WorkersOK'
    BY <1>1, <2>2, VolumeWorkerMoves DEF VolumeGet
  <2>4. QED
    BY <1>1, <2>1, <2>3 DEF VolumeGet, IInv, ApiOK, InformersOK, QueuesOK, BoundsOK, apiVars,
                            informerVars, boundVars
<1>2. CASE VolumeSync(w)
  <2>1. WorkersOK'
    BY <1>2, VolumeGotoOK DEF VolumeSync, VolumePCs
  <2>2. QED
    BY <1>2, <2>1 DEF VolumeSync, IInv, ApiOK, InformersOK, QueuesOK, BoundsOK, apiVars,
                      informerVars, boundVars
<1>3. CASE VolumeGetPV(w)
  <2>1. WorkersOK'
    BY <1>3, VolumeGotoOK DEF VolumeGetPV, VolumePCs
  <2>2. BoundsOK'
    BY <1>3, FaultOK DEF VolumeGetPV, IInv, BoundsOK, boundVars
  <2>3. QED
    BY <1>3, <2>1, <2>2 DEF VolumeGetPV, IInv, ApiOK, InformersOK, QueuesOK, apiVars, informerVars
<1>4. CASE VolumeDelete(w)
  <2>1. WorkersOK'
    BY <1>4, VolumeGotoOK DEF VolumeDelete, VolumePCs
  <2>2. BoundsOK'
    BY <1>4, FaultOK DEF VolumeDelete, IInv, BoundsOK, boundVars
  <2>3. assets' \subseteq UIDs
    BY <1>4 DEF VolumeDelete, IInv, ApiOK
  <2>4. QED
    BY <1>4, <2>1, <2>2, <2>3
       DEF VolumeDelete, IInv, ApiOK, InformersOK, QueuesOK, apiVars, informerVars
<1>5. CASE VolumeRemove(w)
  <2>1. WorkersOK'
    BY <1>5, VolumeGotoOK DEF VolumeRemove, VolumePCs
  <2>2. BoundsOK'
    BY <1>5, FaultOK DEF VolumeRemove, IInv, BoundsOK, boundVars
  <2>3. vw[w].uid \in UIDs
    BY <1>u, <1>5 DEF VolumeRemove
  <2>4. \/ pvs[vw[w].uid] # NoPV /\ Terminate(vw[w].uid)
        \/ UNCHANGED <<pvs, pvEvents>>
    BY <1>5 DEF VolumeRemove
  <2>5. /\ pvs' \in [UIDs -> PV \cup {NoPV}]
        /\ pvEvents' \in Seq([key : UIDs, obj : PV \cup {NoPV}])
    BY <2>3, <2>4, TerminateOK DEF IInv, ApiOK, InformersOK
  <2>6. QED
    BY <1>5, <2>1, <2>2, <2>5 DEF VolumeRemove, IInv, ApiOK, InformersOK, QueuesOK
<1>6. CASE VolumeFinish(w)
  <2>1. vw[w].uid \in UIDs
    BY <1>u, <1>6 DEF VolumeFinish
  <2>2. Sound(volumeQueue', UIDs, DeleteThreshold)
    BY <1>6, <2>1, FinishSound, ControllerAssumption DEF VolumeFinish, IInv, QueuesOK
  <2>3. IdleVolumeWorker \in VolumeWorkerStates
    BY DEF IdleVolumeWorker, VolumeWorkerStates, VolumePCs
  <2>4. WorkersOK'
    BY <1>6, <2>3, VolumeWorkerMoves DEF VolumeFinish
  <2>5. QED
    BY <1>6, <2>2, <2>4 DEF VolumeFinish, IInv, ApiOK, InformersOK, QueuesOK, BoundsOK, apiVars,
                            informerVars, boundVars
<1>7. QED
  BY <1>1, <1>2, <1>3, <1>4, <1>5, <1>6 DEF VolumeWorker

(* Events, resyncs and timers may come at any time.                        *)
LEMMA InformersIInv ==
  ASSUME IInv, Informers
  PROVE  IInv'
<1>1. CASE HandleClaimEvent
  <2>1. /\ Head(claimEvents).key \in Keys /\ Head(claimEvents).obj \in Claim \cup {NoClaim}
        /\ Tail(claimEvents) \in Seq([key : Keys, obj : Claim \cup {NoClaim}])
    <3>1. claimEvents \in Seq([key : Keys, obj : Claim \cup {NoClaim}]) /\ claimEvents # <<>>
      BY <1>1 DEF HandleClaimEvent, IInv, InformersOK
    <3>2. /\ Head(claimEvents) \in [key : Keys, obj : Claim \cup {NoClaim}]
          /\ Tail(claimEvents) \in Seq([key : Keys, obj : Claim \cup {NoClaim}])
      BY <3>1, HeadTailProperties
    <3>3. QED
      BY <3>2
  <2>2. Sound(claimQueue', Keys, ProvisionThreshold)
    BY <1>1, <2>1, EnqueueSound, ForgetWorkSound, ControllerAssumption
       DEF HandleClaimEvent, IInv, QueuesOK
  <2>3. InformersOK'
    BY <1>1, <2>1 DEF HandleClaimEvent, IInv, InformersOK
  <2>4. QED
    BY <1>1, <2>2, <2>3 DEF HandleClaimEvent, IInv, ApiOK, QueuesOK, WorkersOK, BoundsOK,
                            apiVars, boundVars
<1>2. CASE HandlePVEvent
  <2>1. /\ Head(pvEvents).key \in UIDs /\ Head(pvEvents).obj \in PV \cup {NoPV}
        /\ Tail(pvEvents) \in Seq([key : UIDs, obj : PV \cup {NoPV}])
    <3>1. pvEvents \in Seq([key : UIDs, obj : PV \cup {NoPV}]) /\ pvEvents # <<>>
      BY <1>2 DEF HandlePVEvent, IInv, InformersOK
    <3>2. /\ Head(pvEvents) \in [key : UIDs, obj : PV \cup {NoPV}]
          /\ Tail(pvEvents) \in Seq([key : UIDs, obj : PV \cup {NoPV}])
      BY <3>1, HeadTailProperties
    <3>3. QED
      BY <3>2
  <2>2. Sound(volumeQueue', UIDs, DeleteThreshold)
    BY <1>2, <2>1, EnqueueSound, ForgetWorkSound, ControllerAssumption
       DEF HandlePVEvent, IInv, QueuesOK
  <2>3. InformersOK'
    BY <1>2, <2>1 DEF HandlePVEvent, IInv, InformersOK
  <2>4. QED
    BY <1>2, <2>2, <2>3 DEF HandlePVEvent, IInv, ApiOK, QueuesOK, WorkersOK, BoundsOK,
                            apiVars, boundVars
<1>3. ASSUME NEW k \in Keys, ResyncClaim(k) \/ ClaimDelayPasses(k) PROVE IInv'
  <2>1. Sound(claimQueue', Keys, ProvisionThreshold)
    BY <1>3, EnqueueSound, DelayPassesSound, ControllerAssumption
       DEF ResyncClaim, ClaimDelayPasses, IInv, QueuesOK
  <2>2. QED
    BY <1>3, <2>1 DEF ResyncClaim, ClaimDelayPasses, IInv, ApiOK, InformersOK, QueuesOK,
                      WorkersOK, BoundsOK, apiVars, informerVars, boundVars
<1>4. ASSUME NEW u \in UIDs, ResyncPV(u) \/ VolumeDelayPasses(u) PROVE IInv'
  <2>1. Sound(volumeQueue', UIDs, DeleteThreshold)
    BY <1>4, EnqueueSound, DelayPassesSound, ControllerAssumption
       DEF ResyncPV, VolumeDelayPasses, IInv, QueuesOK
  <2>2. QED
    BY <1>4, <2>1 DEF ResyncPV, VolumeDelayPasses, IInv, ApiOK, InformersOK, QueuesOK,
                      WorkersOK, BoundsOK, apiVars, informerVars, boundVars
<1>5. QED
  BY <1>1, <1>2, <1>3, <1>4 DEF Informers

(* Kubernetes writes objects and never touches the controller.             *)
LEMMA KubernetesIInv ==
  ASSUME IInv, Binder \/ Users
  PROVE  IInv'
<1>c. \A k \in Keys : claims[k] \in Claim \cup {NoClaim}
  BY DEF IInv, ApiOK
<1>p. \A u \in UIDs : pvs[u] \in PV \cup {NoPV}
  BY DEF IInv, ApiOK
<1>1. ASSUME NEW k \in Keys, Annotate(k) PROVE IInv'
  <2>1. [claims[k] EXCEPT !.ours = TRUE] \in Claim
    BY <1>c, <1>1 DEF Annotate, Claim
  <2>2. /\ claims' \in [Keys -> Claim \cup {NoClaim}]
        /\ claimEvents' \in Seq([key : Keys, obj : Claim \cup {NoClaim}])
    BY <1>1, <2>1, SetClaimOK DEF Annotate
  <2>3. QED
    BY <1>1, <2>2 DEF Annotate, IInv, ApiOK, InformersOK, QueuesOK, WorkersOK, BoundsOK,
                      controllerVars, boundVars
<1>2. ASSUME NEW k \in Keys, BindClaim(k) PROVE IInv'
  <2>1. claims[k] \in Claim /\ claims[k].uid \in UIDs
    BY <1>c, <1>2 DEF BindClaim, Claim
  <2>2. pvs[claims[k].uid] \in PV
    BY <1>p, <1>2, <2>1 DEF BindClaim
  <2>3. [pvs[claims[k].uid] EXCEPT !.phase = "Bound"] \in PV
    BY <2>2 DEF PV
  <2>4. [claims[k] EXCEPT !.bound = TRUE] \in Claim
    BY <2>1 DEF Claim
  <2>5. /\ claims' \in [Keys -> Claim \cup {NoClaim}]
        /\ claimEvents' \in Seq([key : Keys, obj : Claim \cup {NoClaim}])
    BY <1>2, <2>4, SetClaimOK DEF BindClaim
  <2>6. /\ pvs' \in [UIDs -> PV \cup {NoPV}]
        /\ pvEvents' \in Seq([key : UIDs, obj : PV \cup {NoPV}])
    BY <1>2, <2>1, <2>3, SetPVOK DEF BindClaim
  <2>7. QED
    BY <1>2, <2>5, <2>6 DEF BindClaim, IInv, ApiOK, InformersOK, QueuesOK, WorkersOK, BoundsOK,
                            controllerVars, boundVars
<1>3. ASSUME NEW u \in UIDs, ReleasePV(u) PROVE IInv'
  <2>1. [pvs[u] EXCEPT !.phase = "Released"] \in PV
    BY <1>p, <1>3 DEF ReleasePV, PV
  <2>2. /\ pvs' \in [UIDs -> PV \cup {NoPV}]
        /\ pvEvents' \in Seq([key : UIDs, obj : PV \cup {NoPV}])
    BY <1>3, <2>1, SetPVOK DEF ReleasePV
  <2>3. QED
    BY <1>3, <2>2 DEF ReleasePV, IInv, ApiOK, InformersOK, QueuesOK, WorkersOK, BoundsOK,
                      controllerVars, boundVars
<1>4. ASSUME NEW u \in UIDs, FinalizePV(u) PROVE IInv'
  <2>1. /\ pvs' \in [UIDs -> PV \cup {NoPV}]
        /\ pvEvents' \in Seq([key : UIDs, obj : PV \cup {NoPV}])
    BY <1>4, SetPVOK DEF FinalizePV
  <2>2. QED
    BY <1>4, <2>1 DEF FinalizePV, IInv, ApiOK, InformersOK, QueuesOK, WorkersOK, BoundsOK,
                      controllerVars, boundVars
<1>5. ASSUME NEW k \in Keys, NEW u \in UIDs, CreateClaim(k, u) PROVE IInv'
  <2>1. [uid |-> u, ours |-> FALSE, bound |-> FALSE] \in Claim
    BY DEF Claim
  <2>2. /\ claims' \in [Keys -> Claim \cup {NoClaim}]
        /\ claimEvents' \in Seq([key : Keys, obj : Claim \cup {NoClaim}])
    BY <1>5, <2>1, SetClaimOK DEF CreateClaim
  <2>3. QED
    BY <1>5, <2>2 DEF CreateClaim, IInv, ApiOK, InformersOK, QueuesOK, WorkersOK, BoundsOK,
                      controllerVars, boundVars
<1>6. ASSUME NEW k \in Keys, DeleteClaim(k) PROVE IInv'
  <2>1. /\ claims' \in [Keys -> Claim \cup {NoClaim}]
        /\ claimEvents' \in Seq([key : Keys, obj : Claim \cup {NoClaim}])
    BY <1>6, SetClaimOK DEF DeleteClaim
  <2>2. QED
    BY <1>6, <2>1 DEF DeleteClaim, IInv, ApiOK, InformersOK, QueuesOK, WorkersOK, BoundsOK,
                      controllerVars, boundVars
<1>e. ASSUME NEW kind, Edit(kind) PROVE BoundsOK'
  BY <1>e, ControllerAssumption DEF Edit, IInv, BoundsOK
<1>7. ASSUME NEW u \in UIDs, EditPolicy(u) PROVE IInv'
  <2>1. PICK p \in Policies : SetPV(u, [pvs[u] EXCEPT !.policy = p])
    BY <1>7 DEF EditPolicy
  <2>2. [pvs[u] EXCEPT !.policy = p] \in PV
    BY <1>p, <1>7 DEF EditPolicy, PV
  <2>3. /\ pvs' \in [UIDs -> PV \cup {NoPV}]
        /\ pvEvents' \in Seq([key : UIDs, obj : PV \cup {NoPV}])
    BY <2>1, <2>2, SetPVOK
  <2>4. BoundsOK'
    BY <1>e, <1>7 DEF EditPolicy
  <2>5. QED
    BY <1>7, <2>3, <2>4 DEF EditPolicy, IInv, ApiOK, InformersOK, QueuesOK, WorkersOK,
                            controllerVars
<1>8. ASSUME NEW u \in UIDs, UserDeletePV(u) PROVE IInv'
  <2>1. /\ pvs' \in [UIDs -> PV \cup {NoPV}]
        /\ pvEvents' \in Seq([key : UIDs, obj : PV \cup {NoPV}])
    BY <1>8, TerminateOK DEF UserDeletePV
  <2>2. BoundsOK'
    BY <1>e, <1>8 DEF UserDeletePV
  <2>3. QED
    BY <1>8, <2>1, <2>2 DEF UserDeletePV, IInv, ApiOK, InformersOK, QueuesOK, WorkersOK,
                            controllerVars
<1>9. CASE EditClass
  <2>1. BoundsOK'
    BY <1>e, <1>9 DEF EditClass
  <2>2. class' \in Classes
    BY <1>9 DEF EditClass
  <2>3. QED
    BY <1>9, <2>1, <2>2 DEF EditClass, IInv, ApiOK, InformersOK, QueuesOK, WorkersOK,
                            controllerVars
<1>10. QED
  BY <1>1, <1>2, <1>3, <1>4, <1>5, <1>6, <1>7, <1>8, <1>9 DEF Binder, Users

(* The queues a new process starts with hold what it lists, once.          *)
LEMMA RestartIInv ==
  ASSUME IInv, Restart
  PROVE  IInv'
<1> DEFINE K == {k \in Keys : claims[k] # NoClaim}
           U == {u \in UIDs : pvs[u] # NoPV}
<1>1. PICK s \in Orders(K) : claimQueue' = Listed(Keys, K, s)
  BY DEF Restart
<1>2. PICK t \in Orders(U) : volumeQueue' = Listed(UIDs, U, t)
  BY DEF Restart
<1>3. QueuesOK'
  <2>1. s \in Seq(Keys) /\ Range(s) = K
    BY <1>1, OrdersList, ControllerAssumption
  <2>2. t \in Seq(UIDs) /\ Range(t) = U
    BY <1>2, OrdersList, ControllerAssumption
  <2>3. Sound(claimQueue', Keys, ProvisionThreshold)
    BY <1>1, <2>1, NewQueueSound, ControllerAssumption DEF Listed
  <2>4. Sound(volumeQueue', UIDs, DeleteThreshold)
    BY <1>2, <2>2, NewQueueSound, ControllerAssumption DEF Listed
  <2>5. QED
    BY <2>3, <2>4 DEF QueuesOK
<1>4. WorkersOK'
  BY DEF Restart, WorkersOK, ClaimWorkerStates, VolumeWorkerStates, IdleClaimWorker,
         IdleVolumeWorker, ClaimPCs, VolumePCs, Policies
<1>5. InformersOK' /\ ApiOK'
  BY DEF Restart, IInv, InformersOK, ApiOK, apiVars
<1>6. BoundsOK'
  BY ControllerAssumption DEF Restart, IInv, BoundsOK
<1>7. QED
  BY <1>3, <1>4, <1>5, <1>6 DEF IInv
-----------------------------------------------------------------------------
LEMMA NextIInv == IInv /\ [Next]_vars => IInv'
<1>1. SUFFICES ASSUME IInv, [Next]_vars PROVE IInv'
  OBVIOUS
<1>2. CASE UNCHANGED vars
  BY <1>1, <1>2 DEF vars, apiVars, informerVars, boundVars, IInv, ApiOK, InformersOK, QueuesOK,
                    WorkersOK, BoundsOK
<1>3. QED
  BY <1>1, <1>2, ClaimWorkerIInv, VolumeWorkerIInv, InformersIInv, KubernetesIInv, RestartIInv
     DEF Next

THEOREM Invariance == Spec => []IInv
<1>1. QED
  BY InitIInv, NextIInv, PTL DEF Spec

(* Every object, event, queue and worker has its type; in particular a     *)
(* worker calls Done only with a key it was given.                         *)
THEOREM TypeCorrect == Spec => []TypeOK
<1>1. IInv => TypeOK
  BY DEF IInv, ApiOK, InformersOK, QueuesOK, Sound, WorkersOK, ClaimWorkerStates,
         VolumeWorkerStates, BoundsOK, TypeOK
<1>2. QED
  BY <1>1, Invariance, PTL

(* No retry is lost: enqueueWork may drop an event of an item with         *)
(* failures, because the item is tracked or was given up.                  *)
THEOREM RetryTrackedCorrect == Spec => []RetryTracked
<1>1. IInv => RetryTracked
  BY DEF IInv, QueuesOK, Sound, RetryTracked
<1>2. QED
  BY <1>1, Invariance, PTL

(* No item that was marked dirty is forgotten by the queue.                *)
THEOREM NothingLostCorrect == Spec => []NothingLost
<1>1. IInv => NothingLost
  BY DEF IInv, QueuesOK, Sound, NothingLost
<1>2. QED
  BY <1>1, Invariance, PTL
-----------------------------------------------------------------------------
(***************************************************************************)
(* lib/controller implements VolumeLifecycle, for any numbers of claims,   *)
(* volumes and workers, any failures, edits of class and policy, and       *)
(* crashes, as long as the answers of the API server about PVs are true    *)
(* and no two workers are busy with one volume.                            *)
(***************************************************************************)

(* A GET of a PV that fails, the answer of a save that gets lost, and a    *)
(* user who deletes a PV each make the library act on a PV it is wrong     *)
(* about.                                                                  *)
TrueAnswers == FaultKinds \cap {"claimGet", "lostSave"} = {} /\ "pv" \notin EditKinds

(* A worker that found no PV of the claim, and one that found a PV to      *)
(* delete.                                                                 *)
Providing(w) == cw[w].pc \in {"prepare", "provision", "save", "cleanup"}

Deleting(w) == vw[w].pc \in {"delete", "remove"}

(* What the work queues promise when they are used as they should be.      *)
Exclusive ==
  /\ \A w, x \in ClaimWorkers :
       Providing(w) /\ Providing(x) /\ cw[w].uid = cw[x].uid => w = x
  /\ \A w, x \in VolumeWorkers :
       Deleting(w) /\ Deleting(x) /\ vw[w].uid = vw[x].uid => w = x

OneWorkerEach ==
  (\A w, x \in ClaimWorkers : w = x) /\ (\A w, x \in VolumeWorkers : w = x)

(* What a worker found stays true while it acts on it, and its asset is as *)
(* it made or removed it.                                                  *)
Provided ==
  \A w \in ClaimWorkers :
    /\ Providing(w) => pvs[cw[w].uid] = NoPV
    /\ cw[w].pc = "save" => cw[w].uid \in assets

Deleted ==
  \A w \in VolumeWorkers :
    /\ Deleting(w) => /\ pvs[vw[w].uid] # NoPV
                      /\ pvs[vw[w].uid].phase = "Released" /\ ~pvs[vw[w].uid].terminating
    /\ vw[w].pc = "remove" => vw[w].uid \notin assets

Apart == IInv /\ Provided /\ Deleted /\ Exclusive

Implements == Provided' /\ Deleted' /\ [Lifecycle!Next]_Lifecycle!vars
-----------------------------------------------------------------------------
(* Steps that no abstract volume notices.                                  *)

LEMMA NothingSeen ==
  ASSUME assets' = assets, \A u \in UIDs : ObjectOf(pvs'[u]) = ObjectOf(pvs[u])
  PROVE  [Lifecycle!Next]_Lifecycle!vars
BY DEF Lifecycle!vars

(* Elsewhere: at the API server no PV appears, and none that is released   *)
(* and not being deleted changes in this.                                  *)
Harmless ==
  \A u \in UIDs :
    /\ pvs[u] = NoPV => pvs'[u] = NoPV
    /\ pvs[u] # NoPV /\ pvs[u].phase = "Released" /\ ~pvs[u].terminating =>
         pvs'[u] # NoPV /\ pvs'[u].phase = "Released" /\ ~pvs'[u].terminating

LEMMA WorkersStay ==
  ASSUME Apart, UNCHANGED <<cw, vw, assets>>, Harmless
  PROVE  Provided' /\ Deleted'
<1>1. /\ \A w \in ClaimWorkers : Providing(w) => cw[w].uid \in UIDs
      /\ \A w \in VolumeWorkers : Deleting(w) => vw[w].uid \in UIDs
  BY DEF Apart, IInv, WorkersOK, ClaimWorkerStates, VolumeWorkerStates, Providing, Deleting
<1>2. Provided'
  BY <1>1 DEF Apart, Provided, Providing, Harmless
<1>3. Deleted'
  BY <1>1 DEF Apart, Deleted, Deleting, Harmless
<1>4. QED
  BY <1>2, <1>3

LEMMA PvOf ==
  ASSUME IInv, NEW u \in UIDs
  PROVE  pvs[u] \in PV \cup {NoPV} /\ \A obj : SetPV(u, obj) =>
           pvs'[u] = obj /\ \A x \in UIDs : x # u => pvs'[x] = pvs[x]
BY DEF IInv, ApiOK, SetPV

(* A claim worker that neither touches a PV nor the asset of its volume.   *)
LEMMA ClaimWorkerOn ==
  ASSUME Apart, NEW w \in ClaimWorkers, UNCHANGED <<vw, pvs, assets>>,
         \A x \in ClaimWorkers : x # w => cw'[x] = cw[x],
         Providing(w)' => pvs[cw'[w].uid] = NoPV,
         cw'[w].pc # "save" \/ cw'[w].uid \in assets
  PROVE  Implements
<1>1. Provided'
  BY DEF Apart, Provided, Providing
<1>2. Deleted'
  BY DEF Apart, Deleted, Deleting
<1>3. QED
  BY <1>1, <1>2, NothingSeen DEF Implements

LEMMA VolumeWorkerOn ==
  ASSUME Apart, NEW w \in VolumeWorkers, UNCHANGED <<cw, pvs, assets>>,
         \A x \in VolumeWorkers : x # w => vw'[x] = vw[x],
         Deleting(w)' => /\ pvs[vw'[w].uid] # NoPV
                         /\ pvs[vw'[w].uid].phase = "Released" /\ ~pvs[vw'[w].uid].terminating,
         vw'[w].pc # "remove"
  PROVE  Implements
<1>1. Provided'
  BY DEF Apart, Provided, Providing
<1>2. Deleted'
  BY DEF Apart, Deleted, Deleting
<1>3. QED
  BY <1>1, <1>2, NothingSeen DEF Implements
-----------------------------------------------------------------------------
(* Claim workers.                                                          *)

LEMMA ClaimWorkerImplements ==
  ASSUME TrueAnswers, Apart, NEW w \in ClaimWorkers, ClaimWorker(w)
  PROVE  Implements
<1>1. /\ cw \in [ClaimWorkers -> ClaimWorkerStates]
      /\ cw[w].pc \notin {"idle", "sync", "done", "failed"} => cw[w].uid \in UIDs
  BY DEF Apart, IInv, WorkersOK, ClaimWorkerStates
<1>2. \A pc : ClaimGoto(w, pc) =>
        /\ \A x \in ClaimWorkers : x # w => cw'[x] = cw[x]
        /\ cw'[w].pc = pc /\ cw'[w].uid = cw[w].uid
  BY <1>1 DEF ClaimGoto, ClaimWorkerStates
<1>3. ClaimTryAgain(w) =>
        /\ \A x \in ClaimWorkers : x # w => cw'[x] = cw[x]
        /\ cw'[w].pc = cw[w].pc /\ cw'[w].uid = cw[w].uid
  BY <1>1 DEF ClaimTryAgain, ClaimWorkerStates
<1>4. \A s : cw' = [cw EXCEPT ![w] = s] =>
        cw'[w] = s /\ \A x \in ClaimWorkers : x # w => cw'[x] = cw[x]
  BY <1>1
<1>5. /\ Providing(w) => pvs[cw[w].uid] = NoPV
      /\ cw[w].pc = "save" => cw[w].uid \in assets
  BY DEF Apart, Provided
<1>6. \A x \in ClaimWorkers : x # w /\ Providing(w) /\ Providing(x) => cw[x].uid # cw[w].uid
  BY DEF Apart, Exclusive
<1>7. \A x \in VolumeWorkers : Deleting(x) /\ Providing(w) => vw[x].uid # cw[w].uid
  BY <1>5 DEF Apart, Deleted
<1>8. CASE ClaimGet(w) \/ ClaimSync(w) \/ ClaimFinish(w) \/ ClaimSaveGivesUp(w) \/ ClaimCleanupGivesUp(w)
  <2>1. UNCHANGED <<vw, pvs, assets>>
    BY <1>8 DEF ClaimGet, ClaimSync, ClaimFinish, ClaimSaveGivesUp, ClaimCleanupGivesUp, apiVars
  <2>2. /\ \A x \in ClaimWorkers : x # w => cw'[x] = cw[x]
        /\ cw'[w].pc \in {"sync", "get", "done", "idle"}
           \/ (cw'[w].pc = "cleanup" /\ cw'[w].uid = cw[w].uid /\ cw[w].pc = "save")
    <3>1. CASE ClaimGet(w)
      BY <1>1, <3>1 DEF ClaimGet, ClaimWorkerStates
    <3>2. CASE ClaimSync(w)
      <4>1. CASE ClaimGoto(w, "done")
        BY <1>2, <4>1
      <4>2. CASE cw' = [cw EXCEPT ![w] = [@ EXCEPT !.pc = "get", !.uid = claimCache[cw[w].key].uid]]
        BY <1>1, <4>2 DEF ClaimWorkerStates
      <4>3. QED
        BY <3>2, <4>1, <4>2 DEF ClaimSync
    <3>3. CASE ClaimFinish(w)
      BY <1>4, <3>3 DEF ClaimFinish, IdleClaimWorker
    <3>4. CASE ClaimSaveGivesUp(w)
      <4>1. CASE ClaimGoto(w, "done")
        BY <1>2, <4>1
      <4>2. CASE cw' = [cw EXCEPT ![w] = [@ EXCEPT !.pc = "cleanup", !.tries = 0]]
        BY <1>1, <3>4, <4>2 DEF ClaimWorkerStates, ClaimSaveGivesUp
      <4>3. QED
        BY <3>4, <4>1, <4>2 DEF ClaimSaveGivesUp
    <3>5. CASE ClaimCleanupGivesUp(w)
      BY <1>2, <3>5 DEF ClaimCleanupGivesUp
    <3>6. QED
      BY <1>8, <3>1, <3>2, <3>3, <3>4, <3>5
  <2>3. QED
    BY <1>5, <2>1, <2>2, ClaimWorkerOn DEF Providing
<1>9. CASE ClaimGetPV(w)
  <2>1. /\ cw[w].pc = "get" /\ UNCHANGED <<vw, pvs, assets>>
        /\ ClaimGoto(w, IF pvs[cw[w].uid] # NoPV THEN "done" ELSE "prepare")
    BY <1>9 DEF ClaimGetPV, TrueAnswers, Fault, apiVars
  <2>2. QED
    BY <1>2, <2>1, ClaimWorkerOn DEF Providing
<1>10. CASE ClaimPrepare(w)
  <2>1. cw[w].pc = "prepare" /\ UNCHANGED <<vw, pvs, assets>>
    BY <1>10 DEF ClaimPrepare, apiVars
  <2>2. /\ \A x \in ClaimWorkers : x # w => cw'[x] = cw[x]
        /\ cw'[w].pc \in {"provision", "done", "failed"} /\ cw'[w].uid = cw[w].uid
    <3>1. CASE \E pc \in {"done", "failed"} : ClaimGoto(w, pc)
      BY <1>2, <3>1
    <3>2. CASE cw' = [cw EXCEPT ![w] = [@ EXCEPT !.pc = "provision", !.policy = class]]
      BY <1>1, <3>2 DEF ClaimWorkerStates
    <3>3. QED
      BY <1>10, <3>1, <3>2 DEF ClaimPrepare
  <2>3. QED
    BY <1>5, <2>1, <2>2, ClaimWorkerOn DEF Providing
<1>11. CASE ClaimProvision(w)
  <2>1. /\ cw[w].pc = "provision" /\ Providing(w) /\ UNCHANGED <<vw, pvs>> /\ cw[w].uid \in UIDs
        /\ assets' = assets \/ assets' = assets \cup {cw[w].uid}
    BY <1>1, <1>11 DEF ClaimProvision, Providing, apiVars
  <2>2. /\ \A x \in ClaimWorkers : x # w => cw'[x] = cw[x]
        /\ cw'[w].pc \in {"done", "failed"} \/
             (cw'[w].pc = "save" /\ cw'[w].uid = cw[w].uid /\ cw[w].uid \in assets')
    <3>1. CASE \E pc \in {"done", "failed"} : ClaimGoto(w, pc)
      BY <1>2, <3>1
    <3>2. CASE /\ cw' = [cw EXCEPT ![w] = [@ EXCEPT !.pc = "save", !.tries = 0]]
               /\ assets' = assets \cup {cw[w].uid}
      BY <1>1, <3>2 DEF ClaimWorkerStates
    <3>3. QED
      BY <1>11, <3>1, <3>2 DEF ClaimProvision
  <2>3. Provided'
    BY <1>5, <2>1, <2>2 DEF Apart, Provided, Providing
  <2>4. Deleted'
    BY <1>7, <2>1 DEF Apart, Deleted, Deleting
  <2>5. [Lifecycle!Next]_Lifecycle!vars
    <3>1. CASE assets' = assets
      BY <2>1, <3>1, NothingSeen
    <3>2. CASE assets' = assets \cup {cw[w].uid}
      <4>1. ObjectOf(pvs[cw[w].uid]) = "none"
        BY <1>5, <2>1 DEF ObjectOf
      <4>2. Lifecycle!MakeAsset(cw[w].uid)
        BY <2>1, <3>2, <4>1 DEF Lifecycle!MakeAsset
      <4>3. QED
        BY <2>1, <4>2 DEF Lifecycle!Next
    <3>3. QED
      BY <2>1, <3>1, <3>2
  <2>6. QED
    BY <2>3, <2>4, <2>5 DEF Implements
<1>12. CASE ClaimSave(w)
  <2>1. /\ cw[w].pc = "save" /\ Providing(w) /\ UNCHANGED <<vw, assets>> /\ cw[w].uid \in UIDs
        /\ \/ ClaimGoto(w, "done") /\ SetPV(cw[w].uid, NewPV(w))
           \/ ClaimTryAgain(w) /\ UNCHANGED pvs
    BY <1>1, <1>5, <1>12 DEF ClaimSave, TrueAnswers, Fault, Providing
  <2>2. CASE ClaimTryAgain(w) /\ UNCHANGED pvs
    BY <1>3, <1>5, <2>1, <2>2, ClaimWorkerOn
  <2>3. CASE ClaimGoto(w, "done") /\ SetPV(cw[w].uid, NewPV(w))
    <3>1. /\ pvs'[cw[w].uid] = NewPV(w)
          /\ \A x \in UIDs : x # cw[w].uid => pvs'[x] = pvs[x]
      BY <2>1, <2>3, PvOf DEF Apart
    <3>2. /\ \A x \in ClaimWorkers : x # w => cw'[x] = cw[x]
          /\ cw'[w].pc = "done"
      BY <1>2, <2>3
    <3>3. Provided'
      <4>1. \A x \in ClaimWorkers : Providing(x) => cw[x].uid \in UIDs
        BY DEF Apart, IInv, WorkersOK, ClaimWorkerStates, Providing
      <4>2. QED
        BY <1>6, <2>1, <3>1, <3>2, <4>1 DEF Apart, Provided, Providing
    <3>4. Deleted'
      <4>1. \A x \in VolumeWorkers : Deleting(x) => vw[x].uid \in UIDs
        BY DEF Apart, IInv, WorkersOK, VolumeWorkerStates, Deleting
      <4>2. QED
        BY <1>7, <2>1, <3>1, <4>1 DEF Apart, Deleted, Deleting
    <3>5. Lifecycle!Publish(cw[w].uid)
      <4>1. ObjectOf(pvs[cw[w].uid]) = "none" /\ ObjectOf(pvs'[cw[w].uid]) = "live"
        BY <1>5, <2>1, <3>1 DEF ObjectOf, NewPV, NoPV
      <4>2. [u \in UIDs |-> ObjectOf(pvs'[u])] =
              [[u \in UIDs |-> ObjectOf(pvs[u])] EXCEPT ![cw[w].uid] = "live"]
        BY <2>1, <3>1, <4>1
      <4>3. QED
        BY <1>5, <2>1, <4>1, <4>2 DEF Lifecycle!Publish
    <3>6. QED
      BY <2>1, <3>3, <3>4, <3>5 DEF Implements, Lifecycle!Next
  <2>4. QED
    BY <2>1, <2>2, <2>3
<1>13. CASE ClaimCleanup(w)
  <2>1. /\ cw[w].pc = "cleanup" /\ Providing(w) /\ UNCHANGED <<vw, pvs>> /\ cw[w].uid \in UIDs
        /\ assets' = assets \/ assets' = assets \ {cw[w].uid}
        /\ ClaimGoto(w, "done") \/ ClaimTryAgain(w)
    BY <1>1, <1>13 DEF ClaimCleanup, Providing, apiVars
  <2>2. /\ \A x \in ClaimWorkers : x # w => cw'[x] = cw[x]
        /\ cw'[w].pc \in {"done", "cleanup"} /\ cw'[w].uid = cw[w].uid
    BY <1>2, <1>3, <2>1
  <2>3. Provided'
    BY <1>5, <1>6, <2>1, <2>2 DEF Apart, Provided, Providing
  <2>4. Deleted'
    BY <2>1 DEF Apart, Deleted, Deleting
  <2>5. [Lifecycle!Next]_Lifecycle!vars
    <3>1. CASE assets' = assets
      BY <2>1, <3>1, NothingSeen
    <3>2. CASE assets' = assets \ {cw[w].uid}
      <4>1. ObjectOf(pvs[cw[w].uid]) = "none"
        BY <1>5, <2>1 DEF ObjectOf
      <4>2. Lifecycle!DropAsset(cw[w].uid)
        BY <2>1, <3>2, <4>1 DEF Lifecycle!DropAsset
      <4>3. QED
        BY <2>1, <4>2 DEF Lifecycle!Next
    <3>3. QED
      BY <2>1, <3>1, <3>2
  <2>6. QED
    BY <2>3, <2>4, <2>5 DEF Implements
<1>14. QED
  BY <1>8, <1>9, <1>10, <1>11, <1>12, <1>13 DEF ClaimWorker
-----------------------------------------------------------------------------
(* Volume workers.                                                         *)

LEMMA TerminateHides ==
  ASSUME IInv, NEW u \in UIDs, pvs[u] # NoPV, Terminate(u)
  PROVE  /\ pvs'[u] # NoPV /\ pvs'[u].terminating
         /\ \A x \in UIDs : x # u => pvs'[x] = pvs[x]
<1>1. pvs[u] \in PV /\ pvs'[u] = [pvs[u] EXCEPT !.terminating = TRUE]
      /\ \A x \in UIDs : x # u => pvs'[x] = pvs[x]
  BY PvOf DEF Terminate
<1>2. QED
  BY <1>1 DEF PV, NoPV

LEMMA VolumeWorkerImplements ==
  ASSUME Apart, NEW w \in VolumeWorkers, VolumeWorker(w)
  PROVE  Implements
<1>1. /\ vw \in [VolumeWorkers -> VolumeWorkerStates]
      /\ vw[w].pc # "idle" => vw[w].uid \in UIDs
  BY DEF Apart, IInv, WorkersOK, VolumeWorkerStates
<1>2. \A pc : VolumeGoto(w, pc) =>
        /\ \A x \in VolumeWorkers : x # w => vw'[x] = vw[x]
        /\ vw'[w].pc = pc /\ vw'[w].uid = vw[w].uid
  BY <1>1 DEF VolumeGoto, VolumeWorkerStates
<1>3. \A s : vw' = [vw EXCEPT ![w] = s] =>
        vw'[w] = s /\ \A x \in VolumeWorkers : x # w => vw'[x] = vw[x]
  BY <1>1
<1>4. Deleting(w) =>
        /\ pvs[vw[w].uid] # NoPV /\ pvs[vw[w].uid].phase = "Released"
        /\ ~pvs[vw[w].uid].terminating
        /\ ObjectOf(pvs[vw[w].uid]) = "released"
  BY DEF Apart, Deleted, ObjectOf
<1>5. \A x \in VolumeWorkers : x # w /\ Deleting(w) /\ Deleting(x) => vw[x].uid # vw[w].uid
  BY DEF Apart, Exclusive
<1>6. \A x \in ClaimWorkers : Providing(x) /\ Deleting(w) => cw[x].uid # vw[w].uid
  BY <1>4 DEF Apart, Provided
<1>7. CASE VolumeGet(w) \/ VolumeSync(w) \/ VolumeFinish(w)
  <2>1. UNCHANGED <<cw, pvs, assets>>
    BY <1>7 DEF VolumeGet, VolumeSync, VolumeFinish, apiVars
  <2>2. /\ \A x \in VolumeWorkers : x # w => vw'[x] = vw[x]
        /\ vw'[w].pc \in {"sync", "get", "done", "idle"}
    <3>1. CASE VolumeGet(w)
      BY <1>3, <3>1 DEF VolumeGet
    <3>2. CASE VolumeSync(w)
      BY <1>2, <3>2 DEF VolumeSync
    <3>3. CASE VolumeFinish(w)
      BY <1>3, <3>3 DEF VolumeFinish, IdleVolumeWorker
    <3>4. QED
      BY <1>7, <3>1, <3>2, <3>3
  <2>3. QED
    BY <2>1, <2>2, VolumeWorkerOn DEF Deleting
<1>8. CASE VolumeGetPV(w)
  <2>1. /\ vw[w].pc = "get" /\ UNCHANGED <<cw, pvs, assets>>
        /\ VolumeGoto(w, "done") \/ (VolumeGoto(w, "delete") /\ ShouldDelete(pvs[vw[w].uid]))
    BY <1>8 DEF VolumeGetPV, apiVars
  <2>2. QED
    BY <1>2, <2>1, VolumeWorkerOn DEF Deleting, ShouldDelete
<1>9. CASE VolumeDelete(w)
  <2>1. /\ vw[w].pc = "delete" /\ Deleting(w) /\ UNCHANGED <<cw, pvs>> /\ vw[w].uid \in UIDs
        /\ \/ VolumeGoto(w, "remove") /\ assets' = assets \ {vw[w].uid}
           \/ /\ VolumeGoto(w, "failed") \/ VolumeGoto(w, "done")
              /\ assets' = assets \/ assets' = assets \ {vw[w].uid}
    BY <1>1, <1>9 DEF VolumeDelete, Deleting, apiVars
  <2>2. /\ \A x \in VolumeWorkers : x # w => vw'[x] = vw[x]
        /\ vw'[w].uid = vw[w].uid
        /\ vw'[w].pc \in {"done", "failed"} \/ (vw'[w].pc = "remove" /\ vw[w].uid \notin assets')
        /\ assets' = assets \/ assets' = assets \ {vw[w].uid}
    BY <1>2, <2>1
  <2>3. Provided'
    BY <1>6, <2>1, <2>2 DEF Apart, Provided, Providing
  <2>4. Deleted'
    BY <1>4, <2>1, <2>2 DEF Apart, Deleted, Deleting
  <2>5. [Lifecycle!Next]_Lifecycle!vars
    <3>1. CASE assets' = assets
      BY <2>1, <3>1, NothingSeen
    <3>2. CASE assets' = assets \ {vw[w].uid}
      <4>1. Lifecycle!DropAsset(vw[w].uid)
        BY <1>4, <2>1, <3>2 DEF Lifecycle!DropAsset
      <4>2. QED
        BY <2>1, <4>1 DEF Lifecycle!Next
    <3>3. QED
      BY <2>2, <3>1, <3>2
  <2>6. QED
    BY <2>3, <2>4, <2>5 DEF Implements
<1>10. CASE VolumeRemove(w)
  <2>1. /\ vw[w].pc = "remove" /\ Deleting(w) /\ UNCHANGED <<cw, assets>> /\ vw[w].uid \in UIDs
        /\ vw[w].uid \notin assets
        /\ VolumeGoto(w, "failed") \/ VolumeGoto(w, "done")
        /\ UNCHANGED pvs \/ Terminate(vw[w].uid)
    BY <1>1, <1>4, <1>10 DEF VolumeRemove, Deleting, Apart, Deleted
  <2>2. /\ \A x \in VolumeWorkers : x # w => vw'[x] = vw[x]
        /\ vw'[w].pc \in {"done", "failed"}
    BY <1>2, <2>1
  <2>3. CASE UNCHANGED pvs
    BY <2>1, <2>2, <2>3, VolumeWorkerOn DEF Deleting
  <2>4. CASE Terminate(vw[w].uid)
    <3>1. /\ pvs'[vw[w].uid] # NoPV /\ pvs'[vw[w].uid].terminating
          /\ \A x \in UIDs : x # vw[w].uid => pvs'[x] = pvs[x]
      BY <1>4, <2>1, <2>4, TerminateHides DEF Apart
    <3>2. Provided'
      <4>1. \A x \in ClaimWorkers : Providing(x) => cw[x].uid \in UIDs
        BY DEF Apart, IInv, WorkersOK, ClaimWorkerStates, Providing
      <4>2. QED
        BY <1>6, <2>1, <3>1, <4>1 DEF Apart, Provided, Providing
    <3>3. Deleted'
      <4>1. \A x \in VolumeWorkers : Deleting(x) => vw[x].uid \in UIDs
        BY DEF Apart, IInv, WorkersOK, VolumeWorkerStates, Deleting
      <4>2. QED
        BY <1>5, <2>1, <2>2, <3>1, <4>1 DEF Apart, Deleted, Deleting
    <3>4. Lifecycle!Withdraw(vw[w].uid)
      <4>1. ObjectOf(pvs'[vw[w].uid]) = "none"
        BY <3>1 DEF ObjectOf
      <4>2. [u \in UIDs |-> ObjectOf(pvs'[u])] =
              [[u \in UIDs |-> ObjectOf(pvs[u])] EXCEPT ![vw[w].uid] = "none"]
        BY <2>1, <3>1, <4>1
      <4>3. QED
        BY <1>4, <2>1, <4>2 DEF Lifecycle!Withdraw
    <3>5. QED
      BY <2>1, <3>2, <3>3, <3>4 DEF Implements, Lifecycle!Next
  <2>5. QED
    BY <2>1, <2>3, <2>4
<1>11. QED
  BY <1>7, <1>8, <1>9, <1>10 DEF VolumeWorker
-----------------------------------------------------------------------------
(* Kubernetes, the informers, and crashes.                                 *)

LEMMA Elsewhere ==
  ASSUME TrueAnswers, Apart, UNCHANGED <<cw, vw, assets>>,
         \/ UNCHANGED pvs
         \/ Binder \/ Users
  PROVE  Implements
<1>1. CASE UNCHANGED pvs
  <2>1. Harmless
    BY <1>1 DEF Harmless
  <2>2. QED
    BY <1>1, <2>1, WorkersStay, NothingSeen DEF Implements
<1>2. ASSUME NEW k \in Keys, BindClaim(k) PROVE Implements
  <2>1. claims[k].uid \in UIDs
    BY <1>2 DEF BindClaim, Apart, IInv, ApiOK, Claim, NoClaim
  <2>2. PICK u \in UIDs : /\ pvs[u] # NoPV /\ pvs[u].phase = "Available" /\ ~pvs[u].terminating
                          /\ SetPV(u, [pvs[u] EXCEPT !.phase = "Bound"])
    BY <1>2, <2>1 DEF BindClaim
  <2>3. /\ pvs'[u].phase = "Bound" /\ ~pvs'[u].terminating /\ pvs'[u] # NoPV
        /\ \A x \in UIDs : x # u => pvs'[x] = pvs[x]
    <3>1. pvs[u] \in PV /\ pvs'[u] = [pvs[u] EXCEPT !.phase = "Bound"]
          /\ \A x \in UIDs : x # u => pvs'[x] = pvs[x]
      BY <2>2, PvOf DEF Apart
    <3>2. QED
      BY <2>2, <3>1 DEF PV, NoPV
  <2>4. Harmless
    BY <2>2, <2>3 DEF Harmless
  <2>5. \A x \in UIDs : ObjectOf(pvs'[x]) = ObjectOf(pvs[x])
    BY <2>2, <2>3 DEF ObjectOf
  <2>6. QED
    BY <2>4, <2>5, WorkersStay, NothingSeen DEF Implements
<1>3. ASSUME NEW u \in UIDs, ReleasePV(u) PROVE Implements
  <2>1. pvs[u] # NoPV /\ pvs[u].phase # "Released" /\ SetPV(u, [pvs[u] EXCEPT !.phase = "Released"])
    BY <1>3 DEF ReleasePV
  <2>2. /\ pvs'[u].phase = "Released" /\ pvs'[u].terminating = pvs[u].terminating /\ pvs'[u] # NoPV
        /\ \A x \in UIDs : x # u => pvs'[x] = pvs[x]
    <3>1. pvs[u] \in PV /\ pvs'[u] = [pvs[u] EXCEPT !.phase = "Released"]
          /\ \A x \in UIDs : x # u => pvs'[x] = pvs[x]
      BY <2>1, PvOf DEF Apart
    <3>2. QED
      BY <2>1, <3>1 DEF PV, NoPV
  <2>3. Harmless
    BY <2>1, <2>2 DEF Harmless
  <2>4. CASE pvs[u].terminating
    <3>1. \A x \in UIDs : ObjectOf(pvs'[x]) = ObjectOf(pvs[x])
      BY <2>1, <2>2, <2>4 DEF ObjectOf
    <3>2. QED
      BY <2>3, <3>1, WorkersStay, NothingSeen DEF Implements
  <2>5. CASE ~pvs[u].terminating
    <3>1. ObjectOf(pvs[u]) = "live" /\ ObjectOf(pvs'[u]) = "released"
      BY <2>1, <2>2, <2>5 DEF ObjectOf
    <3>2. [x \in UIDs |-> ObjectOf(pvs'[x])] =
            [[x \in UIDs |-> ObjectOf(pvs[x])] EXCEPT ![u] = "released"]
      BY <2>2, <3>1
    <3>3. Lifecycle!Release(u)
      BY <3>1, <3>2 DEF Lifecycle!Release
    <3>4. QED
      BY <2>3, <3>3, WorkersStay DEF Implements, Lifecycle!Next
  <2>6. QED
    BY <2>4, <2>5
<1>4. ASSUME NEW u \in UIDs, FinalizePV(u) PROVE Implements
  <2>1. /\ pvs[u] # NoPV /\ pvs[u].terminating /\ pvs'[u] = NoPV
        /\ \A x \in UIDs : x # u => pvs'[x] = pvs[x]
    BY <1>4, PvOf DEF FinalizePV, Apart
  <2>2. Harmless
    BY <2>1 DEF Harmless
  <2>3. \A x \in UIDs : ObjectOf(pvs'[x]) = ObjectOf(pvs[x])
    BY <2>1 DEF ObjectOf
  <2>4. QED
    BY <2>2, <2>3, WorkersStay, NothingSeen DEF Implements
<1>5. ASSUME NEW u \in UIDs, EditPolicy(u) PROVE Implements
  <2>1. PICK p \in Policies : pvs[u] # NoPV /\ SetPV(u, [pvs[u] EXCEPT !.policy = p])
    BY <1>5 DEF EditPolicy
  <2>2. /\ pvs'[u].phase = pvs[u].phase /\ pvs'[u].terminating = pvs[u].terminating /\ pvs'[u] # NoPV
        /\ \A x \in UIDs : x # u => pvs'[x] = pvs[x]
    <3>1. pvs[u] \in PV /\ pvs'[u] = [pvs[u] EXCEPT !.policy = p]
          /\ \A x \in UIDs : x # u => pvs'[x] = pvs[x]
      BY <2>1, PvOf DEF Apart
    <3>2. QED
      BY <3>1 DEF PV, NoPV
  <2>3. Harmless
    BY <2>1, <2>2 DEF Harmless
  <2>4. \A x \in UIDs : ObjectOf(pvs'[x]) = ObjectOf(pvs[x])
    BY <2>1, <2>2 DEF ObjectOf
  <2>5. QED
    BY <2>3, <2>4, WorkersStay, NothingSeen DEF Implements
<1>6. \A u \in UIDs : ~UserDeletePV(u)
  BY DEF UserDeletePV, Edit, TrueAnswers
<1>7. (\E k \in Keys : Annotate(k) \/ DeleteClaim(k) \/ \E u \in UIDs : CreateClaim(k, u)) \/ EditClass
        => UNCHANGED pvs
  BY DEF Annotate, DeleteClaim, CreateClaim, EditClass
<1>8. QED
  BY <1>1, <1>2, <1>3, <1>4, <1>5, <1>6, <1>7 DEF Binder, Users

LEMMA RestartImplements ==
  ASSUME Apart, Restart
  PROVE  Implements
<1>1. UNCHANGED <<pvs, assets>>
  BY DEF Restart, apiVars
<1>2. /\ \A w \in ClaimWorkers : cw'[w].pc = "idle"
      /\ \A w \in VolumeWorkers : vw'[w].pc = "idle"
  BY DEF Restart, IdleClaimWorker, IdleVolumeWorker
<1>3. Provided' /\ Deleted'
  BY <1>2 DEF Provided, Deleted, Providing, Deleting
<1>4. QED
  BY <1>1, <1>3, NothingSeen DEF Implements

LEMMA NextImplements == TrueAnswers /\ Apart /\ [Next]_vars => Implements
<1>1. SUFFICES ASSUME TrueAnswers, Apart, [Next]_vars PROVE Implements
  OBVIOUS
<1>2. CASE Informers \/ UNCHANGED vars
  <2>1. UNCHANGED <<cw, vw, assets, pvs>>
    BY <1>2 DEF vars, apiVars, Informers, HandleClaimEvent, HandlePVEvent, ResyncClaim,
                ClaimDelayPasses, ResyncPV, VolumeDelayPasses
  <2>2. QED
    BY <1>1, <2>1, Elsewhere
<1>3. CASE Binder \/ Users
  <2>1. UNCHANGED <<cw, vw, assets>>
    BY <1>3 DEF Binder, Users, Annotate, BindClaim, ReleasePV, FinalizePV, CreateClaim,
                DeleteClaim, EditPolicy, UserDeletePV, EditClass, controllerVars
  <2>2. QED
    BY <1>1, <1>3, <2>1, Elsewhere
<1>4. QED
  BY <1>1, <1>2, <1>3, ClaimWorkerImplements, VolumeWorkerImplements, RestartImplements DEF Next

LEMMA InitImplements == Init => Provided /\ Deleted /\ Lifecycle!Init
<1>1. SUFFICES ASSUME Init PROVE Provided /\ Deleted /\ Lifecycle!Init
  OBVIOUS
<1>2. Provided /\ Deleted
  BY <1>1 DEF Init, Provided, Deleted, Providing, Deleting, IdleClaimWorker, IdleVolumeWorker
<1>3. Lifecycle!Init
  BY <1>1 DEF Init, Lifecycle!Init, ObjectOf
<1>4. QED
  BY <1>2, <1>3

(* With one worker for claims and one for volumes nothing is asked of the  *)
(* queues.                                                                 *)
LEMMA AlonePrevails == OneWorkerEach => Exclusive
BY DEF OneWorkerEach, Exclusive

LEMMA AloneAlways == ASSUME OneWorkerEach PROVE []Exclusive
BY AlonePrevails, PTL

(* As long as no two workers act on the same volume at once, what a worker  *)
(* found before its calls (no PV of that name, a released PV) is still so   *)
(* when it acts on it (provisionClaimOperation, deleteVolumeOperation).     *)
THEOREM ApartHolds ==
  ASSUME TrueAnswers
  PROVE  Spec /\ []Exclusive => [](Provided /\ Deleted)
<1>1. IInv /\ Provided /\ Deleted /\ Exclusive /\ [Next]_vars => Provided' /\ Deleted'
  BY NextImplements DEF Apart, Implements
<1>2. QED
  BY <1>1, InitImplements, Invariance, PTL DEF Spec

(* The library removes an asset it could not make a PV for only when there *)
(* is none: whatever else fails, is edited or restarted, the object cannot *)
(* appear between the failed saves and the cleanup.                        *)
LEMMA CleanupIsAloneCorrect ==
  ASSUME TrueAnswers
  PROVE  Spec /\ []Exclusive => []CleanupIsAlone
<1>1. Provided => CleanupIsAlone
  BY DEF Provided, Providing, CleanupIsAlone
<1>2. QED
  BY <1>1, ApartHolds, PTL

(* Every behaviour of the library is, seen from one volume, a behaviour of *)
(* the lifecycle: made before it is published, dropped only when nobody    *)
(* can use it, withdrawn last.                                             *)
THEOREM LifecycleImplemented ==
  ASSUME TrueAnswers
  PROVE  Spec /\ []Exclusive => ImplementsLifecycle
<1>1. IInv /\ Provided /\ Deleted /\ Exclusive /\ [Next]_vars => [Lifecycle!Next]_Lifecycle!vars
  BY NextImplements DEF Apart, Implements
<1>2. QED
  BY <1>1, InitImplements, Invariance, ApartHolds, PTL DEF Spec, ImplementsLifecycle, Lifecycle!Spec

(* The same without a hypothesis on the queues, where threadiness is 1.    *)
THEOREM LifecycleImplementedAlone ==
  ASSUME TrueAnswers, OneWorkerEach
  PROVE  Spec => ImplementsLifecycle /\ []CleanupIsAlone
BY AloneAlways, LifecycleImplemented, CleanupIsAloneCorrect, PTL
-----------------------------------------------------------------------------
(* Where Exclusive comes from: the queue hands a key that is in use to one *)
(* worker at a time.                                                       *)

(* An item of the queue is in one place at a time: once on the queue,      *)
(* or with the one worker of H that holds it.                              *)
Lone(q, k, H) ==
  /\ \A i, j \in DOMAIN q.queue : q.queue[i] = k /\ q.queue[j] = k => i = j
  /\ k \in Range(q.queue) <=> k \in q.dirty \ q.processing
  /\ k \in q.processing <=> H # {}
  /\ \A v, w \in H : v = w

(* Nothing of the item is left: no work and no event.                      *)
Settled(q, events, k, H) ==
  /\ k \notin q.dirty \cup q.processing \cup Range(q.queue)
  /\ ~Pending(events, k)
  /\ H = {}

LEMMA AppendPlaces ==
  ASSUME NEW S, NEW s \in Seq(S), NEW k \in S
  PROVE  /\ DOMAIN s = 1 .. Len(s) /\ DOMAIN Append(s, k) = 1 .. (Len(s) + 1)
         /\ Len(s) \in Nat
         /\ \A i \in DOMAIN s : Append(s, k)[i] = s[i]
         /\ Append(s, k)[Len(s) + 1] = k
<1>1. /\ Append(s, k) \in Seq(S)
      /\ Len(Append(s, k)) = Len(s) + 1
      /\ \A i \in 1 .. Len(s) : Append(s, k)[i] = s[i]
      /\ Append(s, k)[Len(s) + 1] = k
  BY AppendProperties
<1>2. QED
  BY <1>1, LenProperties

LEMMA TailPlaces ==
  ASSUME NEW S, NEW s \in Seq(S), s # <<>>
  PROVE  /\ DOMAIN s = 1 .. Len(s) /\ DOMAIN Tail(s) = 1 .. (Len(s) - 1)
         /\ Len(s) \in Nat \ {0}
         /\ \A i \in DOMAIN Tail(s) : Tail(s)[i] = s[i + 1]
         /\ Head(s) = s[1]
<1>1. /\ Tail(s) \in Seq(S)
      /\ Len(Tail(s)) = Len(s) - 1
      /\ \A i \in 1 .. Len(Tail(s)) : Tail(s)[i] = s[i + 1]
      /\ Head(s) = s[1]
  BY HeadTailProperties
<1>2. QED
  BY <1>1, LenProperties, EmptySeq

(* An item that was not on the queue is there once when it is appended; the *)
(* places of the others are the same.                                      *)
LEMMA AppendOnce ==
  ASSUME NEW S, NEW s \in Seq(S), NEW k \in S, NEW x,
         \A i, j \in DOMAIN s : s[i] = x /\ s[j] = x => i = j,
         x = k => x \notin Range(s)
  PROVE  \A i, j \in DOMAIN Append(s, k) : Append(s, k)[i] = x /\ Append(s, k)[j] = x => i = j
<1>1. /\ DOMAIN s = 1 .. Len(s) /\ DOMAIN Append(s, k) = 1 .. (Len(s) + 1)
      /\ Len(s) \in Nat
      /\ \A i \in DOMAIN s : Append(s, k)[i] = s[i]
      /\ Append(s, k)[Len(s) + 1] = k
  BY AppendPlaces
<1>2. \A i \in DOMAIN Append(s, k) : i \in DOMAIN s \/ i = Len(s) + 1
  BY <1>1
<1>3. CASE x = k
  <2>1. \A i \in DOMAIN s : s[i] # x
    BY <1>3 DEF Range
  <2>2. \A i \in DOMAIN Append(s, k) : Append(s, k)[i] = x => i = Len(s) + 1
    BY <1>1, <1>2, <2>1
  <2>3. QED
    BY <2>2
<1>4. CASE x # k
  <2>1. \A i \in DOMAIN Append(s, k) : Append(s, k)[i] = x => i \in DOMAIN s /\ s[i] = x
    BY <1>1, <1>2, <1>4
  <2>2. QED
    BY <2>1
<1>5. QED
  BY <1>3, <1>4

LEMMA AddLone ==
  ASSUME NEW Items, NEW q \in QueueType(Items), NEW k \in Items, NEW x, NEW H, Lone(q, x, H)
  PROVE  Lone(Add(q, k), x, H)
<1>1. CASE k \in q.dirty
  BY <1>1 DEF Add
<1>2. CASE k \notin q.dirty /\ k \in q.processing
  BY <1>2 DEF Add, Queue, Lone
<1>3. CASE k \notin q.dirty /\ k \notin q.processing
  <2>1. q.queue \in Seq(Items) /\ Range(Append(q.queue, k)) = Range(q.queue) \cup {k}
    BY AppendRange DEF QueueType
  <2>2. \A i, j \in DOMAIN Append(q.queue, k) :
          Append(q.queue, k)[i] = x /\ Append(q.queue, k)[j] = x => i = j
    BY <1>3, <2>1, AppendOnce DEF Lone
  <2>3. QED
    BY <1>3, <2>1, <2>2 DEF Add, Queue, Lone
<1>4. QED
  BY <1>1, <1>2, <1>3

(* Get hands the item to a worker that has none.                           *)
LEMMA GetLone ==
  ASSUME NEW Items, NEW q \in QueueType(Items), q.queue # <<>>, NEW x, NEW H, NEW w,
         Lone(q, x, H)
  PROVE  Lone(Get(q), x, IF x = Head(q.queue) THEN H \cup {w} ELSE H)
<1> DEFINE s == q.queue
<1>1. /\ DOMAIN s = 1 .. Len(s) /\ DOMAIN Tail(s) = 1 .. (Len(s) - 1)
      /\ Len(s) \in Nat \ {0}
      /\ \A i \in DOMAIN Tail(s) : Tail(s)[i] = s[i + 1]
      /\ Head(s) = s[1]
  BY TailPlaces DEF QueueType
<1>2. Range(s) = Range(Tail(s)) \cup {Head(s)}
  BY TailRange DEF QueueType
<1>3. \A i \in DOMAIN Tail(s) : i + 1 \in DOMAIN s /\ i \in Int /\ i + 1 # 1
  BY <1>1
<1>4. \A i, j \in DOMAIN Tail(s) : Tail(s)[i] = x /\ Tail(s)[j] = x => i = j
  <2>1. SUFFICES ASSUME NEW i \in DOMAIN Tail(s), NEW j \in DOMAIN Tail(s),
                        Tail(s)[i] = x, Tail(s)[j] = x
                 PROVE  i = j
    OBVIOUS
  <2>2. i + 1 = j + 1
    BY <1>1, <1>3, <2>1 DEF Lone
  <2>3. QED
    BY <1>3, <2>2
<1>5. CASE x = Head(s)
  <2>1. 1 \in DOMAIN s /\ s[1] = x
    BY <1>1, <1>5
  <2>2. \A i \in DOMAIN Tail(s) : Tail(s)[i] # x
    BY <1>1, <1>3, <2>1 DEF Lone
  <2>3. x \notin Range(Tail(s)) /\ x \in Range(s)
    BY <1>2, <1>5, <2>2 DEF Range
  <2>4. H = {}
    BY <2>3 DEF Lone
  <2>5. QED
    BY <1>4, <1>5, <2>3, <2>4 DEF Get, Queue, Lone
<1>6. CASE x # Head(s)
  BY <1>2, <1>4, <1>6 DEF Get, Queue, Lone
<1>7. QED
  BY <1>5, <1>6

(* Done of the worker that has the item, or of anybody for another item.   *)
LEMMA DoneLone ==
  ASSUME NEW Items, NEW q \in QueueType(Items), NEW k \in Items, NEW x, NEW H, Lone(q, x, H),
         x = k => H # {}
  PROVE  Lone(Done(q, k), x, IF x = k THEN {} ELSE H)
<1>1. CASE k \in q.dirty
  <2>1. q.queue \in Seq(Items) /\ Range(Append(q.queue, k)) = Range(q.queue) \cup {k}
    BY AppendRange DEF QueueType
  <2>2. \A i, j \in DOMAIN Append(q.queue, k) :
          Append(q.queue, k)[i] = x /\ Append(q.queue, k)[j] = x => i = j
    BY <2>1, AppendOnce DEF Lone
  <2>3. QED
    BY <1>1, <2>1, <2>2 DEF Done, Queue, Lone
<1>2. CASE k \notin q.dirty
  BY <1>2 DEF Done, Queue, Lone
<1>3. QED
  BY <1>1, <1>2

(* The rate limiter's part of the queue does not matter.                   *)
LEMMA LoneElsewhere ==
  ASSUME NEW q, NEW r, NEW x, NEW H, Lone(q, x, H),
         r.queue = q.queue, r.dirty = q.dirty, r.processing = q.processing
  PROVE  Lone(r, x, H)
  BY DEF Lone

LEMMA EnqueueLone ==
  ASSUME NEW Items, NEW q \in QueueType(Items), NEW k \in Items, NEW x, NEW H, Lone(q, x, H)
  PROVE  Lone(Enqueue(q, k), x, H)
  BY AddLone DEF Enqueue

LEMMA DelayPassesLone ==
  ASSUME NEW Items, NEW q \in QueueType(Items), NEW k \in Items, NEW x, NEW H, Lone(q, x, H)
  PROVE  Lone(DelayPasses(q, k), x, H)
<1> DEFINE r == Queue(q.queue, q.dirty, q.processing, q.delayed \ {k}, q.requeues)
<1>1. r \in QueueType(Items)
  BY DEF Queue, QueueType
<1>2. r.queue = q.queue /\ r.dirty = q.dirty /\ r.processing = q.processing
  BY DEF Queue
<1>3. Lone(r, x, H)
  <2> HIDE DEF r
  <2>1. QED
    BY <1>2, LoneElsewhere
<1>4. QED
  BY <1>1, <1>3, AddLone DEF DelayPasses

LEMMA ForgetWorkLone ==
  ASSUME NEW Items, NEW q \in QueueType(Items), NEW k \in Items, NEW x, NEW H, Lone(q, x, H),
         x = k => H # {}
  PROVE  Lone(ForgetWork(q, k), x, IF x = k THEN {} ELSE H)
<1>1. Forget(q, k) \in QueueType(Items)
  BY DEF Forget, Queue, QueueType
<1>2. /\ Forget(q, k).queue = q.queue /\ Forget(q, k).dirty = q.dirty
      /\ Forget(q, k).processing = q.processing
  BY DEF Forget, Queue
<1>3. Lone(Forget(q, k), x, H)
  BY <1>2, LoneElsewhere
<1>4. QED
  BY <1>1, <1>3, DoneLone DEF ForgetWork

LEMMA FinishLone ==
  ASSUME NEW Items, NEW q \in QueueType(Items), NEW k \in Items, NEW x, NEW H, Lone(q, x, H),
         x = k => H # {}, NEW failed \in BOOLEAN, NEW threshold \in Nat
  PROVE  Lone(Finish(q, k, failed, threshold), x, IF x = k THEN {} ELSE H)
<1>1. Lone(Done(Forget(q, k), k), x, IF x = k THEN {} ELSE H)
  BY ForgetWorkLone DEF ForgetWork
<1>2. Lone(Done(q, k), x, IF x = k THEN {} ELSE H)
  BY DoneLone
<1>3. Lone(Done(AddRateLimited(q, k), k), x, IF x = k THEN {} ELSE H)
  <2>1. AddRateLimited(q, k) \in QueueType(Items)
    BY DEF AddRateLimited, Queue, QueueType
  <2>2. /\ AddRateLimited(q, k).queue = q.queue /\ AddRateLimited(q, k).dirty = q.dirty
        /\ AddRateLimited(q, k).processing = q.processing
    BY DEF AddRateLimited, Queue
  <2>3. Lone(AddRateLimited(q, k), x, H)
    BY <2>2, LoneElsewhere
  <2>4. QED
    BY <2>1, <2>3, DoneLone
<1>4. QED
  BY <1>1, <1>2, <1>3 DEF Finish
-----------------------------------------------------------------------------
(* The way of a kind of objects (claims, or volumes) from the API server   *)
(* through the watch and the cache to the workers.                         *)

(* A deletion that a worker has not been told of is the last event of its  *)
(* object, and the object is gone.                                         *)
InOrder(events, api, none) ==
  /\ \A i, j \in DOMAIN events :
       i < j /\ events[i].key = events[j].key => events[i].obj # none
  /\ \A i \in DOMAIN events : api[events[i].key] # none => events[i].obj # none

(* The object exists, or a worker may still be told that it does.          *)
Alive(k, events, api, cache, none) ==
  \/ api[k] # none
  \/ cache[k] # none
  \/ \E i \in DOMAIN events : events[i].key = k /\ events[i].obj # none

Served(Items, q, events, api, cache, none, H) ==
  /\ InOrder(events, api, none)
  /\ \A k \in Items : Alive(k, events, api, cache, none) => Lone(q, k, H[k])

LEMMA WriteServed ==
  ASSUME NEW Items, NEW Objs, NEW none \in Objs, NEW q, NEW H, NEW cache,
         NEW events \in Seq([key : Items, obj : Objs]), NEW api \in [Items -> Objs],
         Served(Items, q, events, api, cache, none, H),
         NEW k \in Items, NEW o \in Objs,
         api[k] # none \/ Settled(q, events, k, H[k])
  PROVE  Served(Items, q, Append(events, [key |-> k, obj |-> o]), [api EXCEPT ![k] = o],
                cache, none, H)
<1> DEFINE e == [key |-> k, obj |-> o]
           later == Append(events, e)
           stored == [api EXCEPT ![k] = o]
<1>1. /\ DOMAIN events = 1 .. Len(events) /\ DOMAIN later = 1 .. (Len(events) + 1)
      /\ Len(events) \in Nat
      /\ \A i \in DOMAIN events : later[i] = events[i] /\ events[i].key \in Items
      /\ later[Len(events) + 1] = e
  <2>1. e \in [key : Items, obj : Objs]
    OBVIOUS
  <2>2. \A i \in 1 .. Len(events) : events[i] \in [key : Items, obj : Objs]
    BY ElementOfSeq
  <2>3. QED
    BY <2>1, <2>2, AppendPlaces
<1>2. \A i \in DOMAIN events : events[i].key = k => events[i].obj # none
  BY DEF Served, InOrder, Settled, Pending
<1>3. \A i \in DOMAIN later : i \in DOMAIN events \/ i = Len(events) + 1
  BY <1>1
<1>4. InOrder(later, stored, none)
  <2>1. ASSUME NEW i \in DOMAIN later, NEW j \in DOMAIN later, i < j, later[i].key = later[j].key
        PROVE  later[i].obj # none
    <3>1. i \in DOMAIN events
      BY <1>1, <2>1
    <3>2. CASE j \in DOMAIN events
      BY <1>1, <2>1, <3>1, <3>2 DEF Served, InOrder
    <3>3. CASE j = Len(events) + 1
      BY <1>1, <1>2, <2>1, <3>1, <3>3
    <3>4. QED
      BY <1>3, <3>2, <3>3
  <2>2. ASSUME NEW i \in DOMAIN later, stored[later[i].key] # none
        PROVE  later[i].obj # none
    <3>1. CASE i \in DOMAIN events
      BY <1>1, <1>2, <2>2, <3>1 DEF Served, InOrder
    <3>2. CASE i = Len(events) + 1
      BY <1>1, <2>2, <3>2
    <3>3. QED
      BY <1>3, <3>1, <3>2
  <2>3. QED
    BY <2>1, <2>2 DEF InOrder
<1>5. ASSUME NEW x \in Items, Alive(x, later, stored, cache, none)
      PROVE  Lone(q, x, H[x])
  <2>1. CASE x = k /\ api[k] = none
    BY <2>1 DEF Settled, Lone, Range
  <2>2. CASE x = k /\ api[k] # none
    BY <2>2 DEF Served, Alive
  <2>3. CASE x # k
    <3>1. Alive(x, events, api, cache, none)
      BY <1>1, <1>3, <1>5, <2>3 DEF Alive
    <3>2. QED
      BY <3>1 DEF Served
  <2>4. QED
    BY <2>1, <2>2, <2>3
<1>6. QED
  BY <1>4, <1>5 DEF Served

(* The handlers: once an object's deletion is handled it is not alive, so  *)
(* that the early Done of forgetWork can only concern a dead item.         *)
LEMMA DeliverServed ==
  ASSUME NEW Items, NEW Objs, NEW none \in Objs, NEW q \in QueueType(Items), NEW H,
         NEW cache \in [Items -> Objs], NEW api \in [Items -> Objs],
         NEW events \in Seq([key : Items, obj : Objs]), events # <<>>,
         Served(Items, q, events, api, cache, none, H),
         NEW e, e = Head(events), NEW rest, rest = Tail(events),
         NEW seen, seen = [cache EXCEPT ![e.key] = e.obj],
         NEW r, e.obj = none => r = ForgetWork(q, e.key), e.obj # none => r = Enqueue(q, e.key)
  PROVE  Served(Items, r, rest, api, seen, none, H)
<1>1. /\ DOMAIN events = 1 .. Len(events) /\ DOMAIN rest = 1 .. (Len(events) - 1)
      /\ Len(events) \in Nat \ {0}
      /\ \A i \in DOMAIN rest : rest[i] = events[i + 1]
      /\ e = events[1]
  BY TailPlaces
<1>2. e.key \in Items /\ e.obj \in Objs
  <2>1. e \in [key : Items, obj : Objs]
    BY HeadTailProperties
  <2>2. QED
    BY <2>1
<1>3. 1 \in DOMAIN events /\ \A i \in DOMAIN rest : i \in Int /\ i + 1 \in DOMAIN events /\ 1 < i + 1
  BY <1>1
<1>4. InOrder(rest, api, none)
  <2>1. ASSUME NEW i \in DOMAIN rest, NEW j \in DOMAIN rest, i < j, rest[i].key = rest[j].key
        PROVE  rest[i].obj # none
    <3>1. i + 1 < j + 1
      BY <1>3, <2>1
    <3>2. QED
      BY <1>1, <1>3, <2>1, <3>1 DEF Served, InOrder
  <2>2. ASSUME NEW i \in DOMAIN rest, api[rest[i].key] # none PROVE rest[i].obj # none
    BY <1>1, <1>3, <2>2 DEF Served, InOrder
  <2>3. QED
    BY <2>1, <2>2 DEF InOrder
<1>5. ASSUME NEW x \in Items, Alive(x, rest, api, seen, none)
      PROVE  Alive(x, events, api, cache, none) /\ (e.obj = none => x # e.key)
  <2>1. e.obj = none => x # e.key
    <3>1. SUFFICES ASSUME e.obj = none, x = e.key PROVE FALSE
      OBVIOUS
    <3>2. api[x] = none
      BY <1>1, <1>3, <3>1 DEF Served, InOrder
    <3>3. seen[x] = none
      BY <1>2, <3>1
    <3>4. PICK i \in DOMAIN rest : rest[i].key = x /\ rest[i].obj # none
      BY <1>5, <3>2, <3>3 DEF Alive
    <3>5. i + 1 \in DOMAIN events /\ 1 < i + 1 /\ events[1].key = events[i + 1].key
      BY <1>1, <1>3, <3>1, <3>4
    <3>6. events[1].obj # none
      BY <1>3, <3>5 DEF Served, InOrder
    <3>7. QED
      BY <1>1, <3>1, <3>6
  <2>2. CASE api[x] # none
    BY <2>1, <2>2 DEF Alive
  <2>3. CASE seen[x] # none
    <3>1. CASE x = e.key
      BY <1>1, <1>2, <1>3, <2>1, <2>3, <3>1 DEF Alive
    <3>2. CASE x # e.key
      BY <1>2, <2>1, <2>3, <3>2 DEF Alive
    <3>3. QED
      BY <3>1, <3>2
  <2>4. ASSUME NEW i \in DOMAIN rest, rest[i].key = x, rest[i].obj # none
        PROVE  Alive(x, events, api, cache, none)
    BY <1>1, <1>3, <2>4 DEF Alive
  <2>5. QED
    BY <1>5, <2>1, <2>2, <2>3, <2>4 DEF Alive
<1>6. ASSUME NEW x \in Items, Alive(x, rest, api, seen, none)
      PROVE  Lone(r, x, H[x])
  <2>1. Lone(q, x, H[x]) /\ (e.obj = none => x # e.key)
    BY <1>5, <1>6 DEF Served
  <2>2. CASE e.obj = none
    <3>1. Lone(ForgetWork(q, e.key), x, IF x = e.key THEN {} ELSE H[x])
      BY <1>2, <2>1, <2>2, ForgetWorkLone
    <3>2. QED
      BY <2>1, <2>2, <3>1
  <2>3. CASE e.obj # none
    <3>1. Lone(Enqueue(q, e.key), x, H[x])
      BY <1>2, <2>1, EnqueueLone
    <3>2. QED
      BY <2>3, <3>1
  <2>4. QED
    BY <2>2, <2>3
<1>7. QED
  BY <1>4, <1>6 DEF Served

(* Any other step of a queue or of its workers.                            *)
LEMMA QueueServed ==
  ASSUME NEW Items, NEW q, NEW events, NEW api, NEW cache, NEW none, NEW H,
         Served(Items, q, events, api, cache, none, H),
         NEW r, NEW G, \A x \in Items : Lone(q, x, H[x]) => Lone(r, x, G[x])
  PROVE  Served(Items, r, events, api, cache, none, G)
  BY DEF Served

(* A list has every object once.                                           *)
LEMMA ListedServed ==
  ASSUME NEW Items, IsFiniteSet(Items), NEW api, NEW none, NEW H,
         NEW s \in Orders({k \in Items : api[k] # none}), \A k \in Items : H[k] = {}
  PROVE  Served(Items, Listed(Items, {k \in Items : api[k] # none}, s), <<>>, api, api, none, H)
<1> DEFINE S == {k \in Items : api[k] # none}
<1>1. IsFiniteSet(S) /\ Cardinality(S) \in Nat
  BY FS_Subset, FS_CardinalityType
<1>2. Range(s) = S /\ s \in [1 .. Cardinality(S) -> S]
  BY DEF Orders
<1>3. s \in Injection(1 .. Cardinality(S), S)
  <2>1. s \in Surjection(1 .. Cardinality(S), S)
    BY <1>2 DEF Range, Surjection
  <2>2. IsFiniteSet(1 .. Cardinality(S)) /\ Cardinality(1 .. Cardinality(S)) = Cardinality(S)
    BY <1>1, FS_Interval
  <2>3. QED
    BY <2>1, <2>2, FS_SurjSameCardinalityImpliesInj
<1>4. \A i, j \in DOMAIN s : s[i] = s[j] => i = j
  BY <1>2, <1>3 DEF Injection, IsInjective
<1>5. \A k \in S : Lone(Listed(Items, S, s), k, H[k])
  BY <1>2, <1>4 DEF Listed, Queue, Lone
<1>6. InOrder(<<>>, api, none)
  BY DEF InOrder
<1>7. \A k \in Items : Alive(k, <<>>, api, api, none) => k \in S
  BY DEF Alive
<1>8. QED
  BY <1>5, <1>6, <1>7 DEF Served
-----------------------------------------------------------------------------
ClaimHolders == [k \in Keys |-> {w \in ClaimWorkers : cw[w].pc # "idle" /\ cw[w].key = k}]

VolumeHolders == [u \in UIDs |-> {w \in VolumeWorkers : vw[w].pc # "idle" /\ vw[w].uid = u}]

(* A hypothesis on a step: a name is used anew, for a claim or for a PV,   *)
(* only when the controller is done with the object that had it before.    *)
NamesSettle ==
  /\ \A k \in Keys : claims[k] = NoClaim /\ claims'[k] # NoClaim
       => Settled(claimQueue, claimEvents, k, ClaimHolders[k])
  /\ \A u \in UIDs : pvs[u] = NoPV /\ pvs'[u] # NoPV
       => Settled(volumeQueue, pvEvents, u, VolumeHolders[u])

ClaimsServed ==
  Served(Keys, claimQueue, claimEvents, claims, claimCache, NoClaim, ClaimHolders)

VolumesServed ==
  Served(UIDs, volumeQueue, pvEvents, pvs, pvCache, NoPV, VolumeHolders)

(* A worker past its look at the cache acts on the object it found there;  *)
(* the object may have gone since, so the queue may hand its key out again.*)
PastClaim(w) == cw[w].pc \in {"get", "prepare", "provision", "save", "cleanup"}

PastVolume(w) == vw[w].pc \in {"get", "delete", "remove"}

OnePast ==
  /\ \A w, x \in ClaimWorkers : PastClaim(w) /\ PastClaim(x) /\ cw[w].key = cw[x].key => w = x
  /\ \A w, x \in VolumeWorkers : PastVolume(w) /\ PastVolume(x) /\ vw[w].uid = vw[x].uid => w = x

(* Every UID belongs to one key: wherever a claim of the UID is seen, it is *)
(* seen under that key.                                                    *)
OfOwner(owner, given, uid, k) == uid \in given /\ owner[uid] = k

OwnedBy(owner) ==
  /\ \A k \in Keys : claims[k] # NoClaim => OfOwner(owner, born, claims[k].uid, k)
  /\ \A k \in Keys : claimCache[k] # NoClaim => OfOwner(owner, born, claimCache[k].uid, k)
  /\ \A i \in DOMAIN claimEvents : claimEvents[i].obj # NoClaim =>
       OfOwner(owner, born, claimEvents[i].obj.uid, claimEvents[i].key)
  /\ \A w \in ClaimWorkers : PastClaim(w) => OfOwner(owner, born, cw[w].uid, cw[w].key)

Owned == \E owner \in [UIDs -> Keys \cup {"none"}] : OwnedBy(owner)

Orderly == ClaimsServed /\ VolumesServed /\ OnePast /\ Owned

LEMMA OrderlyIsExclusive == Orderly => Exclusive
<1>1. SUFFICES ASSUME Orderly PROVE Exclusive
  OBVIOUS
<1>2. PICK owner \in [UIDs -> Keys \cup {"none"}] : OwnedBy(owner)
  BY <1>1 DEF Orderly, Owned
<1>3. ASSUME NEW w \in ClaimWorkers, NEW x \in ClaimWorkers,
             Providing(w), Providing(x), cw[w].uid = cw[x].uid
      PROVE  w = x
  <2>1. PastClaim(w) /\ PastClaim(x)
    BY <1>3 DEF Providing, PastClaim
  <2>2. cw[w].key = cw[x].key
    BY <1>2, <1>3, <2>1 DEF OwnedBy, OfOwner
  <2>3. QED
    BY <1>1, <2>1, <2>2 DEF Orderly, OnePast
<1>4. ASSUME NEW w \in VolumeWorkers, NEW x \in VolumeWorkers,
             Deleting(w), Deleting(x), vw[w].uid = vw[x].uid
      PROVE  w = x
  BY <1>1, <1>4 DEF Deleting, PastVolume, Orderly, OnePast
<1>5. QED
  BY <1>3, <1>4 DEF Exclusive

LEMMA NoneIsNoClaim == NoClaim \notin Claim /\ NoPV \notin PV
<1>1. NoClaim \notin Claim
  <2>1. DOMAIN NoClaim = {"uid"}
    BY DEF NoClaim
  <2>2. ASSUME NEW c \in Claim PROVE "ours" \in DOMAIN c
    BY DEF Claim
  <2>3. QED
    BY <2>1, <2>2
<1>2. NoPV \notin PV
  BY DEF NoPV, PV
<1>3. QED
  BY <1>1, <1>2

LEMMA InitOrderly == Init => Orderly
<1>1. SUFFICES ASSUME Init PROVE Orderly
  OBVIOUS
<1>2. ClaimsServed /\ VolumesServed
  BY <1>1 DEF Init, ClaimsServed, VolumesServed, Served, InOrder, Alive
<1>3. OnePast
  BY <1>1 DEF Init, OnePast, PastClaim, PastVolume, IdleClaimWorker, IdleVolumeWorker
<1>4. Owned
  <2>1. [u \in UIDs |-> "none"] \in [UIDs -> Keys \cup {"none"}]
    OBVIOUS
  <2>2. \A owner : OwnedBy(owner)
    BY <1>1 DEF Init, OwnedBy, PastClaim, IdleClaimWorker
  <2>3. QED
    BY <2>1, <2>2 DEF Owned
<1>5. QED
  BY <1>2, <1>3, <1>4 DEF Orderly
-----------------------------------------------------------------------------
(* A claim worker takes a key from the queue, gives it back, or keeps it;  *)
(* it gets past its look at the cache only with a claim it found there.    *)
LEMMA ClaimWorkerKeeps ==
  ASSUME IInv, NEW w \in ClaimWorkers, ClaimWorker(w)
  PROVE  /\ \A x \in ClaimWorkers : x # w => cw'[x] = cw[x]
         /\ UNCHANGED <<claims, born, claimEvents, claimCache, volumeQueue, vw, pvCache>>
         /\ \/ ClaimGet(w) \/ ClaimFinish(w)
            \/ /\ claimQueue' = claimQueue
               /\ cw[w].pc # "idle" /\ cw'[w].pc # "idle" /\ cw'[w].key = cw[w].key
         /\ PastClaim(w)' =>
              /\ cw[w].pc # "idle" /\ cw'[w].key = cw[w].key
              /\ \/ PastClaim(w) /\ cw'[w].uid = cw[w].uid
                 \/ /\ claimCache[cw[w].key] # NoClaim
                    /\ cw'[w].uid = claimCache[cw[w].key].uid
<1>1. cw \in [ClaimWorkers -> ClaimWorkerStates] /\ cw[w] \in ClaimWorkerStates
  BY DEF IInv, WorkersOK
<1>2. \A pc : cw' = [cw EXCEPT ![w] = [@ EXCEPT !.pc = pc, !.tries = 0]] =>
        /\ \A x \in ClaimWorkers : x # w => cw'[x] = cw[x]
        /\ cw'[w].pc = pc /\ cw'[w].key = cw[w].key /\ cw'[w].uid = cw[w].uid
  BY <1>1 DEF ClaimWorkerStates
<1>3. \A pc : ClaimGoto(w, pc) =>
        /\ \A x \in ClaimWorkers : x # w => cw'[x] = cw[x]
        /\ cw'[w].pc = pc /\ cw'[w].key = cw[w].key /\ cw'[w].uid = cw[w].uid
  BY <1>1 DEF ClaimGoto, ClaimWorkerStates
<1>4. ClaimTryAgain(w) =>
        /\ \A x \in ClaimWorkers : x # w => cw'[x] = cw[x]
        /\ cw'[w].pc = cw[w].pc /\ cw'[w].key = cw[w].key /\ cw'[w].uid = cw[w].uid
  BY <1>1 DEF ClaimTryAgain, ClaimWorkerStates
<1>5. CASE ClaimGet(w)
  <2>1. cw'[w].pc = "sync" /\ \A x \in ClaimWorkers : x # w => cw'[x] = cw[x]
    BY <1>1, <1>5 DEF ClaimGet, ClaimWorkerStates
  <2>2. QED
    BY <1>5, <2>1 DEF ClaimGet, apiVars, informerVars, PastClaim
<1>6. CASE ClaimFinish(w)
  <2>1. cw'[w].pc = "idle" /\ \A x \in ClaimWorkers : x # w => cw'[x] = cw[x]
    BY <1>1, <1>6 DEF ClaimFinish, IdleClaimWorker
  <2>2. QED
    BY <1>6, <2>1 DEF ClaimFinish, apiVars, informerVars, PastClaim
<1>7. CASE ClaimSync(w)
  <2>1. CASE ShouldProvision(claimCache[cw[w].key])
    <3>1. /\ cw'[w].pc = "get" /\ cw'[w].key = cw[w].key
          /\ cw'[w].uid = claimCache[cw[w].key].uid
          /\ \A x \in ClaimWorkers : x # w => cw'[x] = cw[x]
      BY <1>1, <1>7, <2>1 DEF ClaimSync, ClaimWorkerStates
    <3>2. QED
      BY <1>7, <2>1, <3>1 DEF ClaimSync, ShouldProvision, apiVars, informerVars
  <2>2. CASE ~ShouldProvision(claimCache[cw[w].key])
    BY <1>3, <1>7, <2>2 DEF ClaimSync, apiVars, informerVars, PastClaim
  <2>3. QED
    BY <2>1, <2>2
<1>8. CASE ClaimGetPV(w)
  BY <1>3, <1>8 DEF ClaimGetPV, apiVars, informerVars, PastClaim
<1>9. CASE ClaimPrepare(w)
  <2>1. /\ \A x \in ClaimWorkers : x # w => cw'[x] = cw[x]
        /\ cw'[w].key = cw[w].key /\ cw'[w].uid = cw[w].uid
        /\ cw'[w].pc \in {"provision", "done", "failed"}
    BY <1>1, <1>3, <1>9 DEF ClaimPrepare, ClaimWorkerStates
  <2>2. QED
    BY <1>9, <2>1 DEF ClaimPrepare, apiVars, informerVars, PastClaim
<1>10. CASE ClaimProvision(w)
  <2>1. /\ \A x \in ClaimWorkers : x # w => cw'[x] = cw[x]
        /\ cw'[w].key = cw[w].key /\ cw'[w].uid = cw[w].uid
        /\ cw'[w].pc \in {"save", "done", "failed"}
    BY <1>2, <1>3, <1>10 DEF ClaimProvision
  <2>2. QED
    BY <1>10, <2>1 DEF ClaimProvision, apiVars, informerVars, PastClaim
<1>11. CASE ClaimSave(w)
  <2>1. /\ \A x \in ClaimWorkers : x # w => cw'[x] = cw[x]
        /\ cw'[w].key = cw[w].key /\ cw'[w].uid = cw[w].uid
        /\ cw'[w].pc \in {"save", "done"}
    BY <1>3, <1>4, <1>11 DEF ClaimSave
  <2>2. QED
    BY <1>11, <2>1 DEF ClaimSave, PastClaim
<1>12. CASE ClaimSaveGivesUp(w)
  <2>1. /\ \A x \in ClaimWorkers : x # w => cw'[x] = cw[x]
        /\ cw'[w].key = cw[w].key /\ cw'[w].uid = cw[w].uid
        /\ cw'[w].pc \in {"cleanup", "done"}
    BY <1>2, <1>3, <1>12 DEF ClaimSaveGivesUp
  <2>2. QED
    BY <1>12, <2>1 DEF ClaimSaveGivesUp, apiVars, informerVars, PastClaim
<1>13. CASE ClaimCleanup(w) \/ ClaimCleanupGivesUp(w)
  <2>1. /\ \A x \in ClaimWorkers : x # w => cw'[x] = cw[x]
        /\ cw'[w].key = cw[w].key /\ cw'[w].uid = cw[w].uid
        /\ cw'[w].pc \in {"cleanup", "done"} /\ cw[w].pc = "cleanup"
    BY <1>3, <1>4, <1>13 DEF ClaimCleanup, ClaimCleanupGivesUp
  <2>2. QED
    BY <1>13, <2>1 DEF ClaimCleanup, ClaimCleanupGivesUp, apiVars, informerVars, PastClaim
<1>14. QED
  BY <1>5, <1>6, <1>7, <1>8, <1>9, <1>10, <1>11, <1>12, <1>13 DEF ClaimWorker

LEMMA VolumeWorkerKeeps ==
  ASSUME IInv, NEW w \in VolumeWorkers, VolumeWorker(w)
  PROVE  /\ \A x \in VolumeWorkers : x # w => vw'[x] = vw[x]
         /\ UNCHANGED <<claims, born, claimEvents, claimCache, claimQueue, cw, pvCache>>
         /\ \/ VolumeGet(w) \/ VolumeFinish(w)
            \/ /\ volumeQueue' = volumeQueue
               /\ vw[w].pc # "idle" /\ vw'[w].pc # "idle" /\ vw'[w].uid = vw[w].uid
         /\ PastVolume(w)' =>
              /\ vw[w].pc # "idle" /\ vw'[w].uid = vw[w].uid
              /\ PastVolume(w) \/ pvCache[vw[w].uid] # NoPV
<1>1. vw \in [VolumeWorkers -> VolumeWorkerStates] /\ vw[w] \in VolumeWorkerStates
  BY DEF IInv, WorkersOK
<1>2. \A pc : VolumeGoto(w, pc) =>
        /\ \A x \in VolumeWorkers : x # w => vw'[x] = vw[x]
        /\ vw'[w].pc = pc /\ vw'[w].uid = vw[w].uid
  BY <1>1 DEF VolumeGoto, VolumeWorkerStates
<1>3. CASE VolumeGet(w)
  <2>1. vw'[w].pc = "sync" /\ \A x \in VolumeWorkers : x # w => vw'[x] = vw[x]
    BY <1>1, <1>3 DEF VolumeGet
  <2>2. QED
    BY <1>3, <2>1 DEF VolumeGet, apiVars, informerVars, PastVolume
<1>4. CASE VolumeFinish(w)
  <2>1. vw'[w].pc = "idle" /\ \A x \in VolumeWorkers : x # w => vw'[x] = vw[x]
    BY <1>1, <1>4 DEF VolumeFinish, IdleVolumeWorker
  <2>2. QED
    BY <1>4, <2>1 DEF VolumeFinish, apiVars, informerVars, PastVolume
<1>5. CASE VolumeSync(w)
  BY <1>2, <1>5 DEF VolumeSync, ShouldDelete, apiVars, informerVars, PastVolume
<1>6. CASE VolumeGetPV(w)
  BY <1>2, <1>6 DEF VolumeGetPV, apiVars, informerVars, PastVolume
<1>7. CASE VolumeDelete(w)
  <2>1. /\ \A x \in VolumeWorkers : x # w => vw'[x] = vw[x]
        /\ vw'[w].uid = vw[w].uid /\ vw'[w].pc \in {"remove", "failed", "done"}
    BY <1>2, <1>7 DEF VolumeDelete
  <2>2. QED
    BY <1>7, <2>1 DEF VolumeDelete, apiVars, informerVars, PastVolume
<1>8. CASE VolumeRemove(w)
  <2>1. /\ \A x \in VolumeWorkers : x # w => vw'[x] = vw[x]
        /\ vw'[w].uid = vw[w].uid /\ vw'[w].pc \in {"failed", "done"}
    BY <1>2, <1>8 DEF VolumeRemove
  <2>2. QED
    BY <1>8, <2>1 DEF VolumeRemove, PastVolume
<1>9. QED
  BY <1>3, <1>4, <1>5, <1>6, <1>7, <1>8 DEF VolumeWorker

(* Nobody else touches the workers, but for a crash.                       *)
LEMMA WorkersElsewhere ==
  ASSUME Informers \/ Binder \/ Users \/ UNCHANGED vars
  PROVE  UNCHANGED <<cw, vw>>
  BY DEF vars, Informers, Binder, Users, HandleClaimEvent, HandlePVEvent, ResyncClaim,
         ClaimDelayPasses, ResyncPV, VolumeDelayPasses, Annotate, BindClaim, ReleasePV,
         FinalizePV, CreateClaim, DeleteClaim, EditPolicy, UserDeletePV, EditClass, controllerVars

LEMMA WorkersCrash ==
  ASSUME Restart
  PROVE  /\ \A w \in ClaimWorkers : cw'[w].pc = "idle"
         /\ \A w \in VolumeWorkers : vw'[w].pc = "idle"
  BY DEF Restart, IdleClaimWorker, IdleVolumeWorker

(* At most one worker is past its look at the cache: a key that can be     *)
(* found there is held by one worker.                                      *)
LEMMA OnePastStep ==
  ASSUME IInv, Orderly, [Next]_vars
  PROVE  OnePast'
<1>1. CASE UNCHANGED <<cw, vw>>
  BY <1>1 DEF Orderly, OnePast, PastClaim, PastVolume
<1>2. CASE Restart
  BY <1>2, WorkersCrash DEF OnePast, PastClaim, PastVolume
<1>3. ASSUME NEW w \in ClaimWorkers, ClaimWorker(w) PROVE OnePast'
  <2>1. /\ \A x \in ClaimWorkers : x # w => cw'[x] = cw[x]
        /\ vw' = vw
        /\ PastClaim(w)' =>
             /\ cw[w].pc # "idle" /\ cw'[w].key = cw[w].key
             /\ PastClaim(w) \/ claimCache[cw[w].key] # NoClaim
    BY <1>3, ClaimWorkerKeeps
  <2>2. ASSUME NEW x \in ClaimWorkers, x # w, PastClaim(w)', PastClaim(x)', cw'[w].key = cw'[x].key
        PROVE  FALSE
    <3>1. PastClaim(x) /\ cw[x].key = cw[w].key /\ cw[w].pc # "idle"
      BY <2>1, <2>2 DEF PastClaim
    <3>2. cw[w].key \in Keys
      BY <3>1 DEF IInv, WorkersOK, ClaimWorkerStates
    <3>3. CASE PastClaim(w)
      BY <2>2, <3>1, <3>3 DEF Orderly, OnePast
    <3>4. CASE claimCache[cw[w].key] # NoClaim
      <4>1. Lone(claimQueue, cw[w].key, ClaimHolders[cw[w].key])
        BY <3>2, <3>4 DEF Orderly, ClaimsServed, Served, Alive
      <4>2. w \in ClaimHolders[cw[w].key] /\ x \in ClaimHolders[cw[w].key]
        BY <3>1, <3>2 DEF ClaimHolders, PastClaim
      <4>3. QED
        BY <2>2, <4>1, <4>2 DEF Lone
    <3>5. QED
      BY <2>1, <2>2, <3>3, <3>4
  <2>3. QED
    BY <2>1, <2>2 DEF Orderly, OnePast, PastClaim, PastVolume
<1>4. ASSUME NEW w \in VolumeWorkers, VolumeWorker(w) PROVE OnePast'
  <2>1. /\ \A x \in VolumeWorkers : x # w => vw'[x] = vw[x]
        /\ cw' = cw
        /\ PastVolume(w)' =>
             /\ vw[w].pc # "idle" /\ vw'[w].uid = vw[w].uid
             /\ PastVolume(w) \/ pvCache[vw[w].uid] # NoPV
    BY <1>4, VolumeWorkerKeeps
  <2>2. ASSUME NEW x \in VolumeWorkers, x # w, PastVolume(w)', PastVolume(x)', vw'[w].uid = vw'[x].uid
        PROVE  FALSE
    <3>1. PastVolume(x) /\ vw[x].uid = vw[w].uid /\ vw[w].pc # "idle"
      BY <2>1, <2>2 DEF PastVolume
    <3>2. vw[w].uid \in UIDs
      BY <3>1 DEF IInv, WorkersOK, VolumeWorkerStates
    <3>3. CASE PastVolume(w)
      BY <2>2, <3>1, <3>3 DEF Orderly, OnePast
    <3>4. CASE pvCache[vw[w].uid] # NoPV
      <4>1. Lone(volumeQueue, vw[w].uid, VolumeHolders[vw[w].uid])
        BY <3>2, <3>4 DEF Orderly, VolumesServed, Served, Alive
      <4>2. w \in VolumeHolders[vw[w].uid] /\ x \in VolumeHolders[vw[w].uid]
        BY <3>1, <3>2 DEF VolumeHolders, PastVolume
      <4>3. QED
        BY <2>2, <4>1, <4>2 DEF Lone
    <3>5. QED
      BY <2>1, <2>2, <3>3, <3>4
  <2>3. QED
    BY <2>1, <2>2 DEF Orderly, OnePast, PastClaim, PastVolume
<1>5. QED
  BY <1>1, <1>2, <1>3, <1>4, WorkersElsewhere DEF Next
-----------------------------------------------------------------------------
(* What the API server holds of claims changes in four steps, each of one  *)
(* key and told by an event.                                               *)
LEMMA ClaimWrites ==
  ASSUME IInv, Binder \/ Users
  PROVE  /\ claimCache' = claimCache /\ claimQueue' = claimQueue
         /\ \/ UNCHANGED <<claims, claimEvents, born>>
            \/ \E k \in Keys, o \in Claim \cup {NoClaim} :
                 /\ SetClaim(k, o)
                 /\ \/ /\ claims[k] # NoClaim /\ born' = born
                       /\ o # NoClaim => o.uid = claims[k].uid
                    \/ /\ claims[k] = NoClaim /\ o # NoClaim
                       /\ o.uid \in UIDs \ born /\ born' = born \cup {o.uid}
<1> DEFINE Told ==
      \E k \in Keys, o \in Claim \cup {NoClaim} :
         /\ SetClaim(k, o)
         /\ \/ /\ claims[k] # NoClaim /\ born' = born
               /\ o # NoClaim => o.uid = claims[k].uid
            \/ /\ claims[k] = NoClaim /\ o # NoClaim
               /\ o.uid \in UIDs \ born /\ born' = born \cup {o.uid}
<1>1. claimCache' = claimCache /\ claimQueue' = claimQueue
  BY DEF Binder, Users, Annotate, BindClaim, ReleasePV, FinalizePV, CreateClaim,
         DeleteClaim, EditPolicy, UserDeletePV, EditClass, controllerVars
<1>2. \A k \in Keys : claims[k] # NoClaim => claims[k] \in Claim
  BY DEF IInv, ApiOK
<1>3. ASSUME NEW k \in Keys, Annotate(k) PROVE Told
  <2>1. /\ claims[k] # NoClaim /\ born' = born
        /\ SetClaim(k, [claims[k] EXCEPT !.ours = TRUE])
    BY <1>3 DEF Annotate
  <2>2. /\ [claims[k] EXCEPT !.ours = TRUE] \in Claim
        /\ [claims[k] EXCEPT !.ours = TRUE].uid = claims[k].uid
    BY <1>2, <2>1 DEF Claim
  <2>3. QED
    BY <2>1, <2>2
<1>4. ASSUME NEW k \in Keys, BindClaim(k) PROVE Told
  <2>1. /\ claims[k] # NoClaim /\ born' = born
        /\ SetClaim(k, [claims[k] EXCEPT !.bound = TRUE])
    BY <1>4 DEF BindClaim
  <2>2. /\ [claims[k] EXCEPT !.bound = TRUE] \in Claim
        /\ [claims[k] EXCEPT !.bound = TRUE].uid = claims[k].uid
    BY <1>2, <2>1 DEF Claim
  <2>3. QED
    BY <2>1, <2>2
<1>5. ASSUME NEW k \in Keys, DeleteClaim(k) PROVE Told
  BY <1>5 DEF DeleteClaim
<1>6. ASSUME NEW k \in Keys, NEW u \in UIDs, CreateClaim(k, u) PROVE Told
  <2>1. [uid |-> u, ours |-> FALSE, bound |-> FALSE] \in Claim
    BY DEF Claim
  <2>2. QED
    BY <1>6, <2>1, NoneIsNoClaim DEF CreateClaim
<1>7. ASSUME NEW u \in UIDs, ReleasePV(u) \/ FinalizePV(u) \/ EditPolicy(u) \/ UserDeletePV(u)
      PROVE  UNCHANGED <<claims, claimEvents, born>>
  BY <1>7 DEF ReleasePV, FinalizePV, EditPolicy, UserDeletePV
<1>8. EditClass => UNCHANGED <<claims, claimEvents, born>>
  BY DEF EditClass
<1>9. QED
  BY <1>1, <1>3, <1>4, <1>5, <1>6, <1>7, <1>8 DEF Binder, Users

(* A UID is given once, and where it is seen later is copied from where it *)
(* was seen before.                                                        *)
LEMMA OwnedStep ==
  ASSUME IInv, Orderly, [Next]_vars
  PROVE  Owned'
<1>1. PICK owner \in [UIDs -> Keys \cup {"none"}] : OwnedBy(owner)
  BY DEF Orderly, Owned
<1>2. ASSUME NEW w \in ClaimWorkers, ClaimWorker(w) PROVE OwnedBy(owner)'
  <2>1. /\ \A x \in ClaimWorkers : x # w => cw'[x] = cw[x]
        /\ UNCHANGED <<claims, born, claimEvents, claimCache>>
        /\ PastClaim(w)' =>
             /\ cw[w].pc # "idle" /\ cw'[w].key = cw[w].key
             /\ \/ PastClaim(w) /\ cw'[w].uid = cw[w].uid
                \/ /\ claimCache[cw[w].key] # NoClaim
                   /\ cw'[w].uid = claimCache[cw[w].key].uid
    BY <1>2, ClaimWorkerKeeps
  <2>2. PastClaim(w)' => OfOwner(owner, born, cw'[w].uid, cw'[w].key)
    <3>1. cw[w].pc # "idle" => cw[w].key \in Keys
      BY DEF IInv, WorkersOK, ClaimWorkerStates
    <3>2. QED
      BY <1>1, <2>1, <3>1 DEF OwnedBy
  <2>3. QED
    BY <1>1, <2>1, <2>2 DEF OwnedBy, OfOwner, PastClaim
<1>3. ASSUME NEW w \in VolumeWorkers, VolumeWorker(w) PROVE OwnedBy(owner)'
  <2>1. UNCHANGED <<claims, born, claimEvents, claimCache, cw>>
    BY <1>3, VolumeWorkerKeeps
  <2>2. QED
    BY <1>1, <2>1 DEF OwnedBy, OfOwner, PastClaim
<1>4. CASE HandleClaimEvent
  <2>1. /\ claimEvents # <<>> /\ claimEvents \in Seq([key : Keys, obj : Claim \cup {NoClaim}])
        /\ claimCache \in [Keys -> Claim \cup {NoClaim}]
        /\ UNCHANGED <<claims, born, cw>>
        /\ claimEvents' = Tail(claimEvents)
        /\ claimCache' = [claimCache EXCEPT ![Head(claimEvents).key] = Head(claimEvents).obj]
    BY <1>4 DEF HandleClaimEvent, apiVars, IInv, InformersOK
  <2>2. /\ DOMAIN claimEvents = 1 .. Len(claimEvents)
        /\ DOMAIN Tail(claimEvents) = 1 .. (Len(claimEvents) - 1)
        /\ Len(claimEvents) \in Nat \ {0}
        /\ \A i \in DOMAIN Tail(claimEvents) : Tail(claimEvents)[i] = claimEvents[i + 1]
        /\ Head(claimEvents) = claimEvents[1]
    BY <2>1, TailPlaces
  <2>3. /\ 1 \in DOMAIN claimEvents
        /\ \A i \in DOMAIN Tail(claimEvents) : i + 1 \in DOMAIN claimEvents
    BY <2>2
  <2>4. \A i \in DOMAIN claimEvents' : claimEvents'[i].obj # NoClaim =>
          OfOwner(owner, born, claimEvents'[i].obj.uid, claimEvents'[i].key)
    BY <1>1, <2>1, <2>2, <2>3 DEF OwnedBy
  <2>5. \A k \in Keys : claimCache'[k] # NoClaim => OfOwner(owner, born, claimCache'[k].uid, k)
    BY <1>1, <2>1, <2>2, <2>3 DEF OwnedBy
  <2>6. QED
    BY <1>1, <2>1, <2>4, <2>5 DEF OwnedBy, OfOwner, PastClaim, Owned
<1>5. CASE HandlePVEvent \/ (\E k \in Keys : ResyncClaim(k) \/ ClaimDelayPasses(k))
           \/ (\E u \in UIDs : ResyncPV(u) \/ VolumeDelayPasses(u)) \/ UNCHANGED vars
  <2>1. UNCHANGED <<claims, born, claimEvents, claimCache, cw>>
    BY <1>5 DEF HandlePVEvent, ResyncClaim, ClaimDelayPasses, ResyncPV, VolumeDelayPasses,
                vars, apiVars, informerVars
  <2>2. QED
    BY <1>1, <2>1 DEF OwnedBy, OfOwner, PastClaim, Owned
<1>6. CASE Restart
  <2>1. /\ UNCHANGED <<claims, born>> /\ claimCache' = claims /\ claimEvents' = <<>>
        /\ \A w \in ClaimWorkers : cw'[w].pc = "idle"
    BY <1>6, WorkersCrash DEF Restart, apiVars
  <2>2. QED
    BY <1>1, <2>1 DEF OwnedBy, OfOwner, PastClaim, Owned
<1>7. CASE Binder \/ Users
  <2>1. /\ claimCache' = claimCache /\ cw' = cw
        /\ \/ UNCHANGED <<claims, claimEvents, born>>
           \/ \E k \in Keys, o \in Claim \cup {NoClaim} :
                /\ SetClaim(k, o)
                /\ \/ /\ claims[k] # NoClaim /\ born' = born
                      /\ o # NoClaim => o.uid = claims[k].uid
                   \/ /\ claims[k] = NoClaim /\ o # NoClaim
                      /\ o.uid \in UIDs \ born /\ born' = born \cup {o.uid}
    BY <1>7, ClaimWrites, WorkersElsewhere
  <2>2. CASE UNCHANGED <<claims, claimEvents, born>>
    BY <1>1, <2>1, <2>2 DEF OwnedBy, OfOwner, PastClaim, Owned
  <2>3. ASSUME NEW k \in Keys, NEW o \in Claim \cup {NoClaim}, SetClaim(k, o),
               NEW heir \in [UIDs -> Keys \cup {"none"}], born \subseteq born',
               \A u \in born : heir[u] = owner[u],
               o # NoClaim => OfOwner(heir, born', o.uid, k)
        PROVE  Owned'
    <3>1. \A u, x : OfOwner(owner, born, u, x) => OfOwner(heir, born', u, x)
      BY <2>3 DEF OfOwner
    <3>2. /\ claims \in [Keys -> Claim \cup {NoClaim}]
          /\ claimEvents \in Seq([key : Keys, obj : Claim \cup {NoClaim}])
          /\ claims' = [claims EXCEPT ![k] = o]
          /\ claimEvents' = Append(claimEvents, [key |-> k, obj |-> o])
      BY <2>3 DEF SetClaim, IInv, ApiOK, InformersOK
    <3>3. \A x \in Keys : claims'[x] # NoClaim => OfOwner(heir, born', claims'[x].uid, x)
      BY <1>1, <2>3, <3>1, <3>2 DEF OwnedBy
    <3>4. /\ DOMAIN claimEvents = 1 .. Len(claimEvents)
          /\ DOMAIN claimEvents' = 1 .. (Len(claimEvents) + 1)
          /\ Len(claimEvents) \in Nat
          /\ \A i \in DOMAIN claimEvents : claimEvents'[i] = claimEvents[i]
          /\ claimEvents'[Len(claimEvents) + 1] = [key |-> k, obj |-> o]
      BY <3>2, AppendPlaces
    <3>5. \A i \in DOMAIN claimEvents' : i \in DOMAIN claimEvents \/ i = Len(claimEvents) + 1
      BY <3>4
    <3>6. \A i \in DOMAIN claimEvents' : claimEvents'[i].obj # NoClaim =>
            OfOwner(heir, born', claimEvents'[i].obj.uid, claimEvents'[i].key)
      BY <1>1, <2>3, <3>1, <3>4, <3>5 DEF OwnedBy
    <3>7. OwnedBy(heir)'
      BY <1>1, <2>1, <3>1, <3>3, <3>6 DEF OwnedBy, PastClaim
    <3>8. QED
      BY <3>7 DEF Owned
  <2>4. ASSUME NEW k \in Keys, NEW o \in Claim \cup {NoClaim}, SetClaim(k, o),
               claims[k] # NoClaim, born' = born, o # NoClaim => o.uid = claims[k].uid
        PROVE  Owned'
    <3>1. o # NoClaim => OfOwner(owner, born', o.uid, k)
      BY <1>1, <2>4 DEF OwnedBy, OfOwner
    <3>2. QED
      BY <2>3, <2>4, <3>1
  <2>5. ASSUME NEW k \in Keys, NEW o \in Claim \cup {NoClaim}, SetClaim(k, o),
               o.uid \in UIDs \ born, born' = born \cup {o.uid}
        PROVE  Owned'
    <3> DEFINE heir == [owner EXCEPT ![o.uid] = k]
    <3>1. heir \in [UIDs -> Keys \cup {"none"}]
      OBVIOUS
    <3>2. (\A u \in born : heir[u] = owner[u]) /\ OfOwner(heir, born', o.uid, k)
      BY <2>5 DEF OfOwner
    <3>3. QED
      BY <2>3, <2>5, <3>1, <3>2
  <2>6. QED
    BY <2>1, <2>2, <2>4, <2>5
<1>8. OwnedBy(owner)' => Owned'
  BY DEF Owned
<1>9. QED
  BY <1>2, <1>3, <1>4, <1>5, <1>6, <1>7, <1>8 DEF Next, Informers
-----------------------------------------------------------------------------
LEMMA ClaimsServedStep ==
  ASSUME IInv, Orderly, [Next]_vars, NamesSettle
  PROVE  ClaimsServed'
<1>1. /\ claimQueue \in QueueType(Keys) /\ volumeQueue \in QueueType(UIDs)
      /\ claims \in [Keys -> Claim \cup {NoClaim}]
      /\ claimCache \in [Keys -> Claim \cup {NoClaim}]
      /\ claimEvents \in Seq([key : Keys, obj : Claim \cup {NoClaim}])
  BY DEF IInv, QueuesOK, Sound, ApiOK, InformersOK
<1>2. Served(Keys, claimQueue, claimEvents, claims, claimCache, NoClaim, ClaimHolders)
  BY DEF Orderly, ClaimsServed
<1>3. ASSUME UNCHANGED <<claims, claimEvents, claimCache>>,
             \A k \in Keys : Lone(claimQueue, k, ClaimHolders[k])
                               => Lone(claimQueue', k, ClaimHolders'[k])
      PROVE  ClaimsServed'
  BY <1>2, <1>3, QueueServed DEF ClaimsServed
<1>4. cw' = cw => ClaimHolders' = ClaimHolders
  BY DEF ClaimHolders
<1>5. ASSUME NEW w \in ClaimWorkers, ClaimWorker(w) PROVE ClaimsServed'
  <2>1. /\ \A x \in ClaimWorkers : x # w => cw'[x] = cw[x]
        /\ UNCHANGED <<claims, claimEvents, claimCache>>
        /\ \/ ClaimGet(w) \/ ClaimFinish(w)
           \/ /\ claimQueue' = claimQueue
              /\ cw[w].pc # "idle" /\ cw'[w].pc # "idle" /\ cw'[w].key = cw[w].key
    BY <1>5, ClaimWorkerKeeps
  <2>2. cw \in [ClaimWorkers -> ClaimWorkerStates] /\ cw[w] \in ClaimWorkerStates
    BY DEF IInv, WorkersOK
  <2>3. CASE ClaimGet(w)
    <3>1. /\ cw[w].pc = "idle" /\ claimQueue.queue # <<>> /\ claimQueue' = Get(claimQueue)
          /\ cw'[w].pc = "sync" /\ cw'[w].key = Head(claimQueue.queue)
      BY <2>2, <2>3 DEF ClaimGet, ClaimWorkerStates
    <3>2. \A k \in Keys : ClaimHolders'[k] =
            IF k = Head(claimQueue.queue) THEN ClaimHolders[k] \cup {w} ELSE ClaimHolders[k]
      BY <2>1, <3>1 DEF ClaimHolders
    <3>3. ASSUME NEW k \in Keys, Lone(claimQueue, k, ClaimHolders[k])
          PROVE  Lone(claimQueue', k, ClaimHolders'[k])
      <4>1. Lone(Get(claimQueue), k,
                 IF k = Head(claimQueue.queue) THEN ClaimHolders[k] \cup {w} ELSE ClaimHolders[k])
        BY <1>1, <3>1, <3>3, GetLone
      <4>2. QED
        BY <3>1, <3>2, <4>1
    <3>4. QED
      BY <1>3, <2>1, <3>3
  <2>4. CASE ClaimFinish(w)
    <3> DEFINE failed == cw[w].pc = "failed"
    <3>1. /\ cw[w].pc # "idle" /\ cw'[w].pc = "idle" /\ cw[w].key \in Keys
          /\ claimQueue' = Finish(claimQueue, cw[w].key, failed, ProvisionThreshold)
      BY <2>2, <2>4 DEF ClaimFinish, IdleClaimWorker, ClaimWorkerStates
    <3>2. \A k \in Keys : ClaimHolders'[k] =
            IF k = cw[w].key THEN ClaimHolders[k] \ {w} ELSE ClaimHolders[k]
      BY <2>1, <3>1 DEF ClaimHolders
    <3>3. w \in ClaimHolders[cw[w].key]
      BY <3>1 DEF ClaimHolders
    <3>4. ASSUME NEW k \in Keys, Lone(claimQueue, k, ClaimHolders[k])
          PROVE  Lone(claimQueue', k, ClaimHolders'[k])
      <4>1. failed \in BOOLEAN /\ ProvisionThreshold \in Nat
        BY ControllerAssumption
      <4>2. Lone(claimQueue', k, IF k = cw[w].key THEN {} ELSE ClaimHolders[k])
        <5> HIDE DEF failed
        <5>1. QED
          BY <1>1, <3>1, <3>3, <3>4, <4>1, FinishLone
      <4>3. k = cw[w].key => ClaimHolders[k] \ {w} = {}
        BY <3>3, <3>4 DEF Lone
      <4>4. QED
        BY <3>2, <4>2, <4>3
    <3>5. QED
      BY <1>3, <2>1, <3>4
  <2>5. CASE /\ claimQueue' = claimQueue
             /\ cw[w].pc # "idle" /\ cw'[w].pc # "idle" /\ cw'[w].key = cw[w].key
    <3>1. \A k \in Keys : ClaimHolders'[k] = ClaimHolders[k]
      BY <2>1, <2>5 DEF ClaimHolders
    <3>2. QED
      BY <1>3, <2>1, <2>5, <3>1
  <2>6. QED
    BY <2>1, <2>3, <2>4, <2>5
<1>6. ASSUME NEW w \in VolumeWorkers, VolumeWorker(w) PROVE ClaimsServed'
  BY <1>3, <1>4, <1>6, VolumeWorkerKeeps
<1>7. CASE HandleClaimEvent
  <2>1. claimEvents # <<>> /\ UNCHANGED <<claims, cw>>
    BY <1>7 DEF HandleClaimEvent, apiVars
  <2>2. Served(Keys, claimQueue', claimEvents', claims, claimCache', NoClaim, ClaimHolders)
    <3>1. PICK e : /\ e = Head(claimEvents)
                   /\ e.obj = NoClaim => claimQueue' = ForgetWork(claimQueue, e.key)
                   /\ e.obj # NoClaim => claimQueue' = Enqueue(claimQueue, e.key)
                   /\ claimCache' = [claimCache EXCEPT ![e.key] = e.obj]
                   /\ claimEvents' = Tail(claimEvents)
      BY <1>7 DEF HandleClaimEvent
    <3>2. NoClaim \in Claim \cup {NoClaim}
      OBVIOUS
    <3>3. QED
      BY <1>1, <1>2, <2>1, <3>1, <3>2, DeliverServed
  <2>3. QED
    BY <1>4, <2>1, <2>2 DEF ClaimsServed
<1>8. ASSUME NEW k \in Keys, ResyncClaim(k) PROVE ClaimsServed'
  <2>1. /\ UNCHANGED <<claims, claimEvents, claimCache, cw>>
        /\ claimQueue' = Enqueue(claimQueue, k)
    BY <1>8 DEF ResyncClaim, apiVars, informerVars
  <2>2. QED
    BY <1>1, <1>3, <1>4, <2>1, EnqueueLone
<1>9. ASSUME NEW k \in Keys, ClaimDelayPasses(k) PROVE ClaimsServed'
  <2>1. /\ UNCHANGED <<claims, claimEvents, claimCache, cw>>
        /\ claimQueue' = DelayPasses(claimQueue, k)
    BY <1>9 DEF ClaimDelayPasses, apiVars, informerVars
  <2>2. QED
    BY <1>1, <1>3, <1>4, <2>1, DelayPassesLone
<1>10. CASE HandlePVEvent \/ (\E u \in UIDs : ResyncPV(u) \/ VolumeDelayPasses(u)) \/ UNCHANGED vars
  <2>1. UNCHANGED <<claims, claimEvents, claimCache, claimQueue, cw>>
    BY <1>10 DEF HandlePVEvent, ResyncPV, VolumeDelayPasses, vars, apiVars, informerVars
  <2>2. QED
    BY <1>3, <1>4, <2>1
<1>11. CASE Restart
  <2>1. PICK s \in Orders({k \in Keys : claims[k] # NoClaim}) :
          claimQueue' = Listed(Keys, {k \in Keys : claims[k] # NoClaim}, s)
    BY <1>11 DEF Restart
  <2>2. UNCHANGED claims /\ claimCache' = claims /\ claimEvents' = <<>>
    BY <1>11 DEF Restart, apiVars
  <2>3. \A k \in Keys : ClaimHolders'[k] = {}
    BY <1>11, WorkersCrash DEF ClaimHolders
  <2>4. Served(Keys, claimQueue', <<>>, claims, claims, NoClaim, ClaimHolders')
    BY <2>1, <2>3, ListedServed, ControllerAssumption
  <2>5. QED
    BY <2>2, <2>4 DEF ClaimsServed
<1>12. CASE Binder \/ Users
  <2>1. claimCache' = claimCache /\ claimQueue' = claimQueue /\ cw' = cw
    BY <1>12, ClaimWrites, WorkersElsewhere
  <2>2. CASE UNCHANGED <<claims, claimEvents>>
    BY <1>3, <1>4, <2>1, <2>2
  <2>3. ASSUME NEW k \in Keys, NEW o \in Claim \cup {NoClaim}, SetClaim(k, o),
               claims[k] # NoClaim \/ o # NoClaim
        PROVE  ClaimsServed'
    <3>1. /\ claims' = [claims EXCEPT ![k] = o]
          /\ claimEvents' = Append(claimEvents, [key |-> k, obj |-> o])
      BY <2>3 DEF SetClaim
    <3>2. claims[k] # NoClaim \/ Settled(claimQueue, claimEvents, k, ClaimHolders[k])
      <4>1. claims'[k] = o
        BY <1>1, <3>1
      <4>2. QED
        BY <2>3, <4>1 DEF NamesSettle
    <3>3. Served(Keys, claimQueue, claimEvents', claims', claimCache, NoClaim, ClaimHolders)
      BY <1>1, <1>2, <3>1, <3>2, WriteServed
    <3>4. QED
      BY <1>4, <2>1, <3>3 DEF ClaimsServed
  <2>4. QED
    BY <1>12, <2>2, <2>3, ClaimWrites
<1>13. QED
  BY <1>5, <1>6, <1>7, <1>8, <1>9, <1>10, <1>11, <1>12 DEF Next, Informers

(* The PV objects change in the same way.                                  *)
LEMMA PVWrites ==
  ASSUME IInv, Binder \/ Users \/ \E w \in ClaimWorkers : ClaimWorker(w)
  PROVE  /\ UNCHANGED <<pvCache, volumeQueue, vw>>
         /\ \/ UNCHANGED <<pvs, pvEvents>>
            \/ \E u \in UIDs, o \in PV \cup {NoPV} : SetPV(u, o) /\ (pvs[u] # NoPV \/ o # NoPV)
<1> DEFINE Told == \E u \in UIDs, o \in PV \cup {NoPV} : SetPV(u, o) /\ (pvs[u] # NoPV \/ o # NoPV)
<1>1. \A u \in UIDs : pvs[u] # NoPV => pvs[u] \in PV
  BY DEF IInv, ApiOK
<1>2. ASSUME NEW u \in UIDs, pvs[u] # NoPV
      PROVE  /\ \A p \in {"Available", "Bound", "Released"} : [pvs[u] EXCEPT !.phase = p] \in PV
             /\ \A p \in Policies : [pvs[u] EXCEPT !.policy = p] \in PV
             /\ [pvs[u] EXCEPT !.terminating = TRUE] \in PV
  BY <1>1, <1>2 DEF PV
<1>3. ASSUME NEW k \in Keys, BindClaim(k) PROVE Told
  <2>1. claims[k].uid \in UIDs
    BY <1>3 DEF BindClaim, IInv, ApiOK, Claim, NoClaim
  <2>2. pvs[claims[k].uid] # NoPV
        /\ SetPV(claims[k].uid, [pvs[claims[k].uid] EXCEPT !.phase = "Bound"])
    BY <1>3 DEF BindClaim
  <2>3. QED
    BY <1>2, <2>1, <2>2
<1>4. ASSUME NEW u \in UIDs, ReleasePV(u) PROVE Told
  BY <1>2, <1>4 DEF ReleasePV
<1>5. ASSUME NEW u \in UIDs, FinalizePV(u) PROVE Told
  BY <1>5 DEF FinalizePV
<1>6. ASSUME NEW u \in UIDs, EditPolicy(u) PROVE Told
  BY <1>2, <1>6 DEF EditPolicy
<1>7. ASSUME NEW u \in UIDs, UserDeletePV(u) PROVE Told
  BY <1>2, <1>7 DEF UserDeletePV, Terminate
<1>8. \A k \in Keys : Annotate(k) \/ DeleteClaim(k) \/ (\E u \in UIDs : CreateClaim(k, u))
        => UNCHANGED <<pvs, pvEvents>>
  BY DEF Annotate, DeleteClaim, CreateClaim
<1>9. EditClass => UNCHANGED <<pvs, pvEvents>>
  BY DEF EditClass
<1>10. Binder \/ Users => UNCHANGED <<pvCache, volumeQueue, vw>>
  BY DEF Binder, Users, Annotate, BindClaim, ReleasePV, FinalizePV, CreateClaim,
         DeleteClaim, EditPolicy, UserDeletePV, EditClass, controllerVars
<1>11. CASE Binder \/ Users
  BY <1>3, <1>4, <1>5, <1>6, <1>7, <1>8, <1>9, <1>10, <1>11 DEF Binder, Users
<1>12. ASSUME NEW w \in ClaimWorkers, ClaimWorker(w)
       PROVE  UNCHANGED <<pvs, pvEvents>> \/ Told
  <2>1. CASE ClaimSave(w)
    <3>1. cw[w].uid \in UIDs /\ cw[w].policy \in Policies
      BY <2>1 DEF ClaimSave, IInv, WorkersOK, ClaimWorkerStates
    <3>2. NewPV(w) \in PV
      BY <3>1 DEF NewPV, PV
    <3>3. UNCHANGED <<pvs, pvEvents>> \/ SetPV(cw[w].uid, NewPV(w))
      BY <2>1 DEF ClaimSave
    <3>4. QED
      BY <3>1, <3>2, <3>3, NoneIsNoClaim
  <2>2. CASE ~ClaimSave(w)
    BY <1>12, <2>2 DEF ClaimWorker, ClaimGet, ClaimSync, ClaimGetPV, ClaimPrepare, ClaimProvision,
                       ClaimSaveGivesUp, ClaimCleanup, ClaimCleanupGivesUp, ClaimFinish,
                       apiVars, informerVars
  <2>3. QED
    BY <2>1, <2>2
<1>13. QED
  BY <1>11, <1>12, ClaimWorkerKeeps

LEMMA VolumesServedStep ==
  ASSUME IInv, Orderly, [Next]_vars, NamesSettle
  PROVE  VolumesServed'
<1>1. /\ volumeQueue \in QueueType(UIDs)
      /\ pvs \in [UIDs -> PV \cup {NoPV}]
      /\ pvCache \in [UIDs -> PV \cup {NoPV}]
      /\ pvEvents \in Seq([key : UIDs, obj : PV \cup {NoPV}])
  BY DEF IInv, QueuesOK, Sound, ApiOK, InformersOK
<1>2. Served(UIDs, volumeQueue, pvEvents, pvs, pvCache, NoPV, VolumeHolders)
  BY DEF Orderly, VolumesServed
<1>3. ASSUME UNCHANGED <<pvs, pvEvents, pvCache>>,
             \A u \in UIDs : Lone(volumeQueue, u, VolumeHolders[u])
                               => Lone(volumeQueue', u, VolumeHolders'[u])
      PROVE  VolumesServed'
  BY <1>2, <1>3, QueueServed DEF VolumesServed
<1>4. vw' = vw => VolumeHolders' = VolumeHolders
  BY DEF VolumeHolders
<1>w. ASSUME NEW u \in UIDs, NEW o \in PV \cup {NoPV}, SetPV(u, o), pvs[u] # NoPV \/ o # NoPV,
             pvCache' = pvCache, \A x \in UIDs : Lone(volumeQueue, x, VolumeHolders[x])
                                   => Lone(volumeQueue', x, VolumeHolders'[x])
      PROVE  VolumesServed'
  <2>1. /\ pvs' = [pvs EXCEPT ![u] = o]
        /\ pvEvents' = Append(pvEvents, [key |-> u, obj |-> o])
    BY <1>w DEF SetPV
  <2>2. pvs[u] # NoPV \/ Settled(volumeQueue, pvEvents, u, VolumeHolders[u])
    <3>1. pvs'[u] = o
      BY <1>1, <2>1
    <3>2. QED
      BY <1>w, <3>1 DEF NamesSettle
  <2>3. Served(UIDs, volumeQueue, pvEvents', pvs', pvCache, NoPV, VolumeHolders)
    BY <1>1, <1>2, <2>1, <2>2, WriteServed
  <2>4. QED
    BY <1>w, <2>3, QueueServed DEF VolumesServed
<1>5. ASSUME NEW w \in VolumeWorkers, VolumeWorker(w) PROVE VolumesServed'
  <2>1. /\ \A x \in VolumeWorkers : x # w => vw'[x] = vw[x]
        /\ pvCache' = pvCache
        /\ \/ VolumeGet(w) \/ VolumeFinish(w)
           \/ /\ volumeQueue' = volumeQueue
              /\ vw[w].pc # "idle" /\ vw'[w].pc # "idle" /\ vw'[w].uid = vw[w].uid
    BY <1>5, VolumeWorkerKeeps
  <2>2. vw \in [VolumeWorkers -> VolumeWorkerStates] /\ vw[w] \in VolumeWorkerStates
    BY DEF IInv, WorkersOK
  <2>3. CASE VolumeGet(w)
    <3>1. /\ vw[w].pc = "idle" /\ volumeQueue.queue # <<>> /\ volumeQueue' = Get(volumeQueue)
          /\ vw'[w].pc = "sync" /\ vw'[w].uid = Head(volumeQueue.queue)
          /\ UNCHANGED <<pvs, pvEvents>>
      BY <2>2, <2>3 DEF VolumeGet, apiVars, informerVars
    <3>2. \A u \in UIDs : VolumeHolders'[u] =
            IF u = Head(volumeQueue.queue) THEN VolumeHolders[u] \cup {w} ELSE VolumeHolders[u]
      BY <2>1, <3>1 DEF VolumeHolders
    <3>3. ASSUME NEW u \in UIDs, Lone(volumeQueue, u, VolumeHolders[u])
          PROVE  Lone(volumeQueue', u, VolumeHolders'[u])
      <4>1. Lone(Get(volumeQueue), u,
                 IF u = Head(volumeQueue.queue) THEN VolumeHolders[u] \cup {w} ELSE VolumeHolders[u])
        BY <1>1, <3>1, <3>3, GetLone
      <4>2. QED
        BY <3>1, <3>2, <4>1
    <3>4. QED
      BY <1>3, <2>1, <3>1, <3>3
  <2>4. CASE VolumeFinish(w)
    <3> DEFINE failed == vw[w].pc = "failed"
    <3>1. /\ vw[w].pc # "idle" /\ vw'[w].pc = "idle" /\ vw[w].uid \in UIDs
          /\ volumeQueue' = Finish(volumeQueue, vw[w].uid, failed, DeleteThreshold)
          /\ UNCHANGED <<pvs, pvEvents>>
      BY <2>2, <2>4 DEF VolumeFinish, IdleVolumeWorker, VolumeWorkerStates, apiVars, informerVars
    <3>2. \A u \in UIDs : VolumeHolders'[u] =
            IF u = vw[w].uid THEN VolumeHolders[u] \ {w} ELSE VolumeHolders[u]
      BY <2>1, <3>1 DEF VolumeHolders
    <3>3. w \in VolumeHolders[vw[w].uid]
      BY <3>1 DEF VolumeHolders
    <3>4. ASSUME NEW u \in UIDs, Lone(volumeQueue, u, VolumeHolders[u])
          PROVE  Lone(volumeQueue', u, VolumeHolders'[u])
      <4>1. failed \in BOOLEAN /\ DeleteThreshold \in Nat
        BY ControllerAssumption
      <4>2. Lone(volumeQueue', u, IF u = vw[w].uid THEN {} ELSE VolumeHolders[u])
        <5> HIDE DEF failed
        <5>1. QED
          BY <1>1, <3>1, <3>3, <3>4, <4>1, FinishLone
      <4>3. u = vw[w].uid => VolumeHolders[u] \ {w} = {}
        BY <3>3, <3>4 DEF Lone
      <4>4. QED
        BY <3>2, <4>2, <4>3
    <3>5. QED
      BY <1>3, <2>1, <3>1, <3>4
  <2>5. CASE /\ ~VolumeGet(w) /\ ~VolumeFinish(w) /\ volumeQueue' = volumeQueue
             /\ vw[w].pc # "idle" /\ vw'[w].pc # "idle" /\ vw'[w].uid = vw[w].uid
    <3>1. \A u \in UIDs : VolumeHolders'[u] = VolumeHolders[u]
      BY <2>1, <2>5 DEF VolumeHolders
    <3>2. CASE UNCHANGED <<pvs, pvEvents>>
      BY <1>3, <2>1, <2>5, <3>1, <3>2
    <3>3. UNCHANGED <<pvs, pvEvents>> \/ (pvs[vw[w].uid] # NoPV /\ Terminate(vw[w].uid))
      BY <1>5, <2>5 DEF VolumeWorker, VolumeSync, VolumeGetPV, VolumeDelete, VolumeRemove, apiVars,
                        informerVars
    <3>4. CASE pvs[vw[w].uid] # NoPV /\ Terminate(vw[w].uid)
      <4>1. vw[w].uid \in UIDs
        BY <2>2, <2>5 DEF VolumeWorkerStates
      <4>2. [pvs[vw[w].uid] EXCEPT !.terminating = TRUE] \in PV
        BY <1>1, <3>4, <4>1 DEF PV
      <4>3. QED
        BY <1>w, <2>1, <2>5, <3>1, <3>4, <4>1, <4>2 DEF Terminate
    <3>5. QED
      BY <3>2, <3>3, <3>4
  <2>6. QED
    BY <2>1, <2>3, <2>4, <2>5
<1>6. CASE Binder \/ Users \/ \E w \in ClaimWorkers : ClaimWorker(w)
  <2>1. /\ UNCHANGED <<pvCache, volumeQueue, vw>>
        /\ \/ UNCHANGED <<pvs, pvEvents>>
           \/ \E u \in UIDs, o \in PV \cup {NoPV} : SetPV(u, o) /\ (pvs[u] # NoPV \/ o # NoPV)
    BY <1>6, PVWrites
  <2>2. \A x \in UIDs : Lone(volumeQueue, x, VolumeHolders[x])
                          => Lone(volumeQueue', x, VolumeHolders'[x])
    BY <1>4, <2>1
  <2>3. QED
    BY <1>3, <1>w, <2>1, <2>2
<1>7. CASE HandlePVEvent
  <2>1. pvEvents # <<>> /\ UNCHANGED <<pvs, vw>>
    BY <1>7 DEF HandlePVEvent, apiVars
  <2>2. Served(UIDs, volumeQueue', pvEvents', pvs, pvCache', NoPV, VolumeHolders)
    <3>1. PICK e : /\ e = Head(pvEvents)
                   /\ e.obj = NoPV => volumeQueue' = ForgetWork(volumeQueue, e.key)
                   /\ e.obj # NoPV => volumeQueue' = Enqueue(volumeQueue, e.key)
                   /\ pvCache' = [pvCache EXCEPT ![e.key] = e.obj]
                   /\ pvEvents' = Tail(pvEvents)
      BY <1>7 DEF HandlePVEvent
    <3>2. NoPV \in PV \cup {NoPV}
      OBVIOUS
    <3>3. QED
      BY <1>1, <1>2, <2>1, <3>1, <3>2, DeliverServed
  <2>3. QED
    BY <1>4, <2>1, <2>2 DEF VolumesServed
<1>8. ASSUME NEW u \in UIDs, ResyncPV(u) PROVE VolumesServed'
  <2>1. /\ UNCHANGED <<pvs, pvEvents, pvCache, vw>>
        /\ volumeQueue' = Enqueue(volumeQueue, u)
    BY <1>8 DEF ResyncPV, apiVars, informerVars
  <2>2. QED
    BY <1>1, <1>3, <1>4, <2>1, EnqueueLone
<1>9. ASSUME NEW u \in UIDs, VolumeDelayPasses(u) PROVE VolumesServed'
  <2>1. /\ UNCHANGED <<pvs, pvEvents, pvCache, vw>>
        /\ volumeQueue' = DelayPasses(volumeQueue, u)
    BY <1>9 DEF VolumeDelayPasses, apiVars, informerVars
  <2>2. QED
    BY <1>1, <1>3, <1>4, <2>1, DelayPassesLone
<1>10. CASE HandleClaimEvent \/ (\E k \in Keys : ResyncClaim(k) \/ ClaimDelayPasses(k))
            \/ UNCHANGED vars
  <2>1. UNCHANGED <<pvs, pvEvents, pvCache, volumeQueue, vw>>
    BY <1>10 DEF HandleClaimEvent, ResyncClaim, ClaimDelayPasses, vars, apiVars, informerVars
  <2>2. QED
    BY <1>3, <1>4, <2>1
<1>11. CASE Restart
  <2>1. PICK s \in Orders({u \in UIDs : pvs[u] # NoPV}) :
          volumeQueue' = Listed(UIDs, {u \in UIDs : pvs[u] # NoPV}, s)
    BY <1>11 DEF Restart
  <2>2. UNCHANGED pvs /\ pvCache' = pvs /\ pvEvents' = <<>>
    BY <1>11 DEF Restart, apiVars
  <2>3. \A u \in UIDs : VolumeHolders'[u] = {}
    BY <1>11, WorkersCrash DEF VolumeHolders
  <2>4. Served(UIDs, volumeQueue', <<>>, pvs, pvs, NoPV, VolumeHolders')
    BY <2>1, <2>3, ListedServed, ControllerAssumption
  <2>5. QED
    BY <2>2, <2>4 DEF VolumesServed
<1>12. QED
  BY <1>5, <1>6, <1>7, <1>8, <1>9, <1>10, <1>11 DEF Next, Informers
-----------------------------------------------------------------------------
LEMMA NextOrderly == IInv /\ Orderly /\ [Next]_vars /\ [NamesSettle]_vars => Orderly'
<1>1. SUFFICES ASSUME IInv, Orderly, [Next]_vars, [NamesSettle]_vars PROVE Orderly'
  OBVIOUS
<1>2. NamesSettle
  <2>1. UNCHANGED vars => UNCHANGED <<claims, pvs>>
    BY DEF vars, apiVars
  <2>2. UNCHANGED <<claims, pvs>> => NamesSettle
    BY DEF NamesSettle
  <2>3. QED
    BY <1>1, <2>1, <2>2
<1>3. QED
  BY <1>1, <1>2, ClaimsServedStep, VolumesServedStep, OnePastStep, OwnedStep DEF Orderly

(* However many workers there are, no two act on the same volume at once,  *)
(* although events, resyncs, retries and the early Done of forgetWork may  *)
(* put a key on the queue while a worker has it, and restarts list it      *)
(* anew; all that is asked is that a name is not used again too early.     *)
THEOREM ExclusiveHolds == Spec /\ [][NamesSettle]_vars => []Exclusive
<1>1. QED
  BY InitOrderly, NextOrderly, OrderlyIsExclusive, Invariance, PTL DEF Spec

(* So several workers implement the lifecycle too (processNextClaimWorkItem *)
(* and processNextVolumeWorkItem run threadiness times).                   *)
THEOREM LifecycleImplementedByMany ==
  ASSUME TrueAnswers
  PROVE  Spec /\ [][NamesSettle]_vars => ImplementsLifecycle /\ []CleanupIsAlone
<1>1. QED
  BY ExclusiveHolds, LifecycleImplemented, CleanupIsAloneCorrect, PTL
=============================================================================
