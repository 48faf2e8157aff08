---------------------- MODULE SnapshotControllerProofs ----------------------
(***************************************************************************)
(* The snapshot controller for any plugins, any number of attempts, any    *)
(* failures and crashes.                                                   *)
(***************************************************************************)
EXTENDS SnapshotController, FiniteSetTheorems, TLAPS

(* The methods of the two worlds are assignments: expanded everywhere.     *)
USE DEF AddSnapshot, DeleteSnapshot, SnapshotExists

(* What an operation was given is the VolumeSnapshot of its UID, and one    *)
(* that takes a snapshot has written a label.                              *)
Handed ==
  \A u \in Uids :
    /\ wanted[u].uid \in {0, u} /\ create[u].obj.uid \in {0, u}
    /\ create[u].pc \in {"take", "post"} => create[u].vs # Nothing /\ create[u].n # 0

Typed == TypeOK /\ Handed

LEMMA Numbers == 0 \notin Uids /\ 0 \notin Tries /\ Uids \subseteq Nat /\ Tries \subseteq Nat
BY SnapshotAssumption DEF Uids, Tries

(* A version of a VolumeSnapshot.                                          *)
LEMMA Version ==
  ASSUME NEW o \in VolumeSnapshots
  PROVE  /\ o.uid \in {0} \cup Uids /\ o.tag \in {0} \cup Tries
         /\ o.data \in {0} \cup Tries /\ o.status \in Statuses
         /\ o # Nothing <=> o.uid # 0
         /\ o # Nothing <=> o.uid \in Uids
         /\ o = Nothing => o.data = 0 /\ o.tag = 0 /\ o.status = "new"
BY Numbers DEF VolumeSnapshots, Nothing, Statuses

LEMMA NewVersion ==
  ASSUME NEW o \in VolumeSnapshots, o # Nothing, NEW t \in {0} \cup Tries, NEW s \in Statuses
  PROVE  /\ [o EXCEPT !.tag = t] \in VolumeSnapshots /\ [o EXCEPT !.tag = t] # Nothing
         /\ [o EXCEPT !.data = t] \in VolumeSnapshots /\ [o EXCEPT !.data = t] # Nothing
         /\ [o EXCEPT !.status = s] \in VolumeSnapshots /\ [o EXCEPT !.status = s] # Nothing
         /\ [o EXCEPT !.data = t, !.status = s] \in VolumeSnapshots
         /\ [o EXCEPT !.data = t, !.status = s] # Nothing
BY Numbers DEF VolumeSnapshots, Nothing, Statuses

LEMMA NothingTyped == Nothing \in VolumeSnapshots /\ NoCreate \in Creates /\ NoDelete \in Deletes
BY DEF VolumeSnapshots, Nothing, NoCreate, NoDelete, Creates, Deletes, CreateSteps, Statuses

(* What the plugins say are conditions; snapshots begin pending or ready.  *)
LEMMA PluginSays ==
  ASSUME plugin \in Plugins
  PROVE  /\ Plugin.begins \subseteq {"pending", "ready"}
         /\ \A s \in {"pending", "ready", "error"} : Plugin.told[s] \in Statuses
         /\ \A s \in {"pending", "ready", "error", "gone"} :
              Plugin.describes[s] \in Statuses \cup {"no answer"}
<1>1. CASE plugin \in {"hostPath", "glusterfs", "openebs"}
  BY <1>1 DEF Plugin, volumePlugins, hostPathPlugin, glusterfsPlugin, openEBSPlugin,
              CASCreateSnapshot, CASDeleteSnapshot, States, Statuses
<1>2. CASE plugin = "aws_ebs"
  BY <1>2 DEF Plugin, volumePlugins, awsEBSPlugin, CloudPlugin, AwsSnapshots, convertAWSStatus,
              AwsCreateSnapshot, States, Statuses
<1>3. CASE plugin = "gce-pd"
  BY <1>3 DEF Plugin, volumePlugins, gcePersistentDiskPlugin, GCEPersistentDisk, CloudPlugin,
              GceSnapshots, convertGCEStatus, GceCreateSnapshot, States, Statuses
<1>4. CASE plugin = "cinder"
  BY <1>4 DEF Plugin, volumePlugins, cinderPlugin, Cinder, CloudPlugin, CinderSnapshots,
              convertSnapshotStatus, CinderCreateSnapshot, States, Statuses
<1>5. QED
  BY <1>1, <1>2, <1>3, <1>4, SnapshotAssumption DEF LocalPlugins, CloudPlugins
-----------------------------------------------------------------------------
LEMMA InitTyped == Init => Typed
<1>1. SUFFICES ASSUME Init PROVE Typed
  OBVIOUS
<1>2. Nothing.uid = 0 /\ NoCreate.obj = Nothing /\ NoCreate.pc = "idle"
  <2>1. Nothing.uid = 0
    BY DEF Nothing
  <2>2. QED
    BY <2>1 DEF NoCreate
<1>3. ApiOK /\ BackendOK /\ BoundsOK
  <2>1. BackendOK /\ BoundsOK
    BY <1>1, SnapshotAssumption DEF Init, BackendOK, BoundsOK
  <2>2. plugin \in Plugins /\ claimBound \in BOOLEAN /\ cut \in BOOLEAN
    BY <1>1, Zenon DEF Init
  <2>3. QED
    BY <1>1, <2>1, <2>2, SnapshotAssumption, NothingTyped DEF Init, ApiOK
<1>4. WorldsOK
  BY <1>1, <1>2, NothingTyped DEF Init, WorldsOK
<1>5. OperationsOK
  BY <1>1, NothingTyped DEF Init, OperationsOK
<1>6. Handed
  BY <1>1, <1>2 DEF Init, Handed
<1>7. QED
  BY <1>3, <1>4, <1>5, <1>6 DEF Typed, TypeOK

(* Users, the claim, and the cloud.                                        *)
LEMMA SurroundingsTyped ==
  ASSUME Typed, CreateObject \/ DeleteObject \/ DeleteClaim \/ Settle
  PROVE  Typed'
<1> USE DEF Typed, TypeOK
<1>1. ApiOK'
  <2>1. CASE CreateObject
    BY <2>1, SnapshotAssumption DEF CreateObject, ApiOK, cacheVars, VolumeSnapshots, Nothing, Uids, Statuses
  <2>2. CASE DeleteObject \/ DeleteClaim \/ Settle
    BY <2>2, NothingTyped DEF DeleteObject, DeleteClaim, Settle, ApiOK, apiVars, cacheVars
  <2>3. QED
    BY <2>1, <2>2
<1>2. UNCHANGED <<cacheVars, loopVars, asw, opVars, tries, crashes>>
  BY DEF CreateObject, DeleteObject, DeleteClaim, Settle, backVars
<1>3. WorldsOK' /\ OperationsOK' /\ Handed'
  BY <1>2 DEF WorldsOK, OperationsOK, Handed, cacheVars, loopVars, opVars
<1>4. BackendOK' /\ BoundsOK'
  <2>1. CASE CreateObject \/ DeleteObject \/ DeleteClaim
    BY <2>1 DEF CreateObject, DeleteObject, DeleteClaim, backVars, BackendOK, BoundsOK
  <2>2. CASE Settle
    <3>1. PICK s \in snaps, status \in {"ready", "error"} :
             /\ snaps' = (snaps \ {s}) \cup {[s EXCEPT !.status = status]}
             /\ IF status = "error" THEN Fault ELSE NoFault
             /\ UNCHANGED <<datas, tries, crashes>>
      BY <2>2 DEF Settle
    <3>2. [s EXCEPT !.status = status] \in BackendSnapshots
      BY DEF BackendOK, BackendSnapshots, States
    <3>3. QED
      BY <3>1, <3>2, SnapshotAssumption DEF BackendOK, BoundsOK, Fault, NoFault
  <2>3. QED
    BY <2>1, <2>2
<1>5. QED
  BY <1>1, <1>3, <1>4

(* The informer, the populator and the loop of the reconciler.             *)
LEMMA LoopsTyped ==
  ASSUME Typed,
         \/ Informer \/ ListSnapshots \/ findAndAddActiveSnapshots
         \/ \E u \in Uids : findAndRemoveDeletedSnapshots(u) \/ Reconcile(u)
  PROVE  Typed'
<1> USE DEF Typed, TypeOK
<1>1. UNCHANGED <<plugin, apiVars, asw, backVars, crashes>>
  BY DEF Informer, onSnapshotAdd, onSnapshotUpdate, onSnapshotDelete, ListSnapshots,
         findAndAddActiveSnapshots, findAndRemoveDeletedSnapshots, Reconcile, GetActual,
         GetDesired, DeleteVolumeSnapshot, CreateVolumeSnapshot
<1>2. BackendOK'
  BY <1>1 DEF BackendOK, backVars
<1>3. BoundsOK'
  BY <1>1, SnapshotAssumption
  DEF BoundsOK, Informer, onSnapshotAdd, onSnapshotUpdate, onSnapshotDelete, ListSnapshots,
      findAndAddActiveSnapshots, findAndRemoveDeletedSnapshots, Reconcile, GetActual,
      GetDesired, DeleteVolumeSnapshot, CreateVolumeSnapshot, Fault, NoFault
<1>4. CASE Informer \/ ListSnapshots \/ findAndAddActiveSnapshots
           \/ \E u \in Uids : findAndRemoveDeletedSnapshots(u)
  <2>1. UNCHANGED <<loopVars, opVars>>
    BY <1>4 DEF Informer, onSnapshotAdd, onSnapshotUpdate, onSnapshotDelete, ListSnapshots,
                findAndAddActiveSnapshots, findAndRemoveDeletedSnapshots
  <2>2. /\ store' \in VolumeSnapshots /\ listed' \in VolumeSnapshots
        /\ \/ dsw' = dsw
           \/ \E o \in {api, listed} : o # Nothing /\ dsw' = [dsw EXCEPT ![o.uid] = o]
           \/ \E u \in Uids : dsw' = [dsw EXCEPT ![u] = Nothing]
    <3>1. CASE onSnapshotAdd \/ onSnapshotUpdate
      BY <3>1 DEF ApiOK, onSnapshotAdd, onSnapshotUpdate
    <3>2. CASE onSnapshotDelete
      BY <3>2, Version, NothingTyped DEF ApiOK, onSnapshotDelete
    <3>3. CASE ListSnapshots \/ findAndAddActiveSnapshots
      BY <3>3, NothingTyped DEF ApiOK, ListSnapshots, findAndAddActiveSnapshots
    <3>4. CASE \E u \in Uids : findAndRemoveDeletedSnapshots(u)
      BY <3>4 DEF ApiOK, findAndRemoveDeletedSnapshots
    <3>5. QED
      BY <1>4, <3>1, <3>2, <3>3, <3>4 DEF Informer
  <2>3. ApiOK'
    BY <1>1, <2>2 DEF ApiOK, apiVars
  <2>4. WorldsOK'
    <3>1. UNCHANGED <<asw, wanted, held>>
      BY <1>1, <2>1 DEF loopVars
    <3>2. CASE \E o \in {api, listed} : o # Nothing /\ dsw' = [dsw EXCEPT ![o.uid] = o]
      <4>1. PICK o \in {api, listed} : o # Nothing /\ dsw' = [dsw EXCEPT ![o.uid] = o]
        BY <3>2
      <4>2. o \in VolumeSnapshots /\ o.uid \in Uids
        BY <4>1, Version DEF ApiOK
      <4>3. QED
        BY <3>1, <4>1, <4>2 DEF WorldsOK
    <3>3. CASE \E u \in Uids : dsw' = [dsw EXCEPT ![u] = Nothing]
      BY <3>1, <3>3, NothingTyped, Version DEF WorldsOK
    <3>4. QED
      BY <2>2, <3>1, <3>2, <3>3 DEF WorldsOK
  <2>5. OperationsOK' /\ Handed'
    BY <2>1 DEF OperationsOK, Handed, loopVars, opVars
  <2>6. QED
    BY <1>2, <1>3, <2>3, <2>4, <2>5
<1>5. CASE \E u \in Uids : Reconcile(u)
  <2>1. PICK u \in Uids : Reconcile(u)
    BY <1>5
  <2>2. UNCHANGED cacheVars
    BY <2>1 DEF Reconcile, GetActual, GetDesired, DeleteVolumeSnapshot, CreateVolumeSnapshot
  <2>3. ApiOK'
    BY <1>1, <2>2 DEF ApiOK, apiVars, cacheVars
  <2>4. WorldsOK' /\ (\A w \in Uids : wanted'[w].uid \in {0, w})
    <3>1. dsw' = dsw /\ asw' = asw
      BY <1>1, <2>2 DEF cacheVars
    <3>2. /\ held' = held \/ held' = [held EXCEPT ![u] = asw[u]]
                         \/ held' = [held EXCEPT ![u] = Nothing]
          /\ wanted' = wanted \/ wanted' = [wanted EXCEPT ![u] = dsw[u]]
                             \/ wanted' = [wanted EXCEPT ![u] = Nothing]
      BY <2>1 DEF Reconcile, GetActual, GetDesired, DeleteVolumeSnapshot, CreateVolumeSnapshot
    <3>3. held' \in [Uids -> VolumeSnapshots] /\ wanted' \in [Uids -> VolumeSnapshots]
      BY <3>2, NothingTyped DEF WorldsOK
    <3>4. QED
      BY <3>1, <3>2, <3>3, NothingTyped, Version DEF WorldsOK, Handed
  <2>5. /\ OperationsOK'
        /\ \A w \in Uids :
             /\ create'[w].obj.uid \in {0, w}
             /\ create'[w].pc \in {"take", "post"} => create'[w].vs # Nothing /\ create'[w].n # 0
    <3>1. CASE GetActual(u) \/ GetDesired(u)
      BY <3>1 DEF GetActual, GetDesired, opVars, OperationsOK, Handed
    <3>2. CASE DeleteVolumeSnapshot(u)
      <4>1. create' = create
        BY <3>2 DEF DeleteVolumeSnapshot
      <4>2. [pc |-> "get", data |-> held[u].data] \in Deletes
        BY Version DEF WorldsOK, Deletes
      <4>3. delete' \in [Uids -> Deletes]
        BY <3>2, <4>2 DEF DeleteVolumeSnapshot, OperationsOK
      <4>4. QED
        BY <4>1, <4>3 DEF OperationsOK, Handed
    <3>3. CASE CreateVolumeSnapshot(u)
      <4>1. delete' = delete
        BY <3>3 DEF CreateVolumeSnapshot
      <4>2. CASE create' = create
        BY <4>1, <4>2 DEF OperationsOK, Handed
      <4>3. CASE create' # create
        <5>1. /\ wanted[u].status \in DOMAIN syncSnapshot
              /\ create' = [create EXCEPT ![u] = Begun(wanted[u])]
          BY <3>3, <4>3 DEF CreateVolumeSnapshot
        <5>2. /\ Begun(wanted[u]) \in Creates /\ Begun(wanted[u]).obj = wanted[u]
              /\ Begun(wanted[u]).pc \in {"find", "getdata", "known"}
          <6>1. syncSnapshot[wanted[u].status] \in {"find", "getdata", "known"}
            BY <5>1 DEF syncSnapshot
          <6>2. NoCreate \in Creates /\ wanted[u] \in VolumeSnapshots
            BY NothingTyped DEF WorldsOK
          <6>3. QED
            BY <6>1, <6>2 DEF Begun, Creates, CreateSteps
        <5>3. QED
          BY <4>1, <5>1, <5>2 DEF OperationsOK, Handed
      <4>4. QED
        BY <4>2, <4>3
    <3>4. QED
      BY <2>1, <3>1, <3>2, <3>3 DEF Reconcile
  <2>6. Handed'
    BY <2>4, <2>5 DEF Handed
  <2>7. QED
    BY <1>2, <1>3, <2>3, <2>4, <2>5, <2>6
<1>6. QED
  BY <1>4, <1>5
-----------------------------------------------------------------------------
(* The operations.                                                         *)

(* What a step of a create operation leaves it as.                         *)
Sane(u, op) ==
  /\ op \in Creates /\ op.obj.uid \in {0, u}
  /\ op.pc \in {"take", "post"} => op.vs # Nothing /\ op.n # 0

LEMMA StepTyped ==
  ASSUME Typed, NEW u \in Uids, NEW op, Sane(u, op), Step(u, op)
  PROVE  OperationsOK' /\ Handed' /\ UNCHANGED <<plugin, claimBound, born, cut, cacheVars, loopVars, crashes>>
<1>1. create' = [create EXCEPT ![u] = op] /\ delete' = delete /\ wanted' = wanted
  BY DEF Step, loopVars
<1>2. OperationsOK'
  BY <1>1 DEF Typed, TypeOK, OperationsOK, Sane
<1>3. Handed'
  BY <1>1 DEF Typed, TypeOK, OperationsOK, Handed, Sane
<1>4. QED
  BY <1>2, <1>3 DEF Step

LEMMA IdleIsSane == ASSUME NEW u PROVE Sane(u, NoCreate)
BY NothingTyped DEF Sane, NoCreate, Nothing

LEMMA FailTyped ==
  ASSUME Typed, NEW u \in Uids, Fail(u)
  PROVE  OperationsOK' /\ Handed' /\ UNCHANGED <<plugin, claimBound, born, cut, cacheVars, loopVars, crashes>>
BY IdleIsSane, StepTyped DEF Fail

LEMMA FaultTyped ==
  ASSUME Typed, Fault \/ NoFault, crashes' = crashes
  PROVE  BoundsOK'
BY SnapshotAssumption DEF Typed, TypeOK, BoundsOK, Fault, NoFault

(* A PUT of a version of the VolumeSnapshot.                               *)
LEMMA PutTyped ==
  ASSUME Typed, NEW u \in Uids, NEW new, NEW op, PutObject(u, new, op), crashes' = crashes,
         api # Nothing => new \in VolumeSnapshots /\ Sane(u, op)
  PROVE  OperationsOK' /\ Handed' /\ ApiOK' /\ BoundsOK'
<1>1. /\ api' = api \/ (api # Nothing /\ api' = new)
      /\ Fail(u) \/ (api # Nothing /\ Step(u, op))
      /\ Fault \/ NoFault
  BY DEF PutObject
<1>2. /\ OperationsOK' /\ Handed'
      /\ UNCHANGED <<plugin, claimBound, born, cut, cacheVars>>
  BY <1>1, FailTyped, StepTyped
<1>3. ApiOK'
  BY <1>1, <1>2 DEF Typed, TypeOK, ApiOK, cacheVars
<1>4. QED
  BY <1>1, <1>2, <1>3, FaultTyped

LEMMA SameWorlds ==
  ASSUME Typed, UNCHANGED <<asw, cacheVars, loopVars>>
  PROVE  WorldsOK'
BY DEF Typed, TypeOK, WorldsOK, cacheVars, loopVars

LEMMA SameApi ==
  ASSUME Typed, UNCHANGED <<plugin, claimBound, born, cut, api, cacheVars>>
  PROVE  ApiOK'
BY DEF Typed, TypeOK, ApiOK, cacheVars

LEMMA CreateOf ==
  ASSUME Typed, NEW u \in Uids
  PROVE  Sane(u, create[u])
BY DEF Typed, TypeOK, OperationsOK, Handed, Sane

LEMMA Update ==
  ASSUME NEW u \in Uids, NEW c \in Creates, c.obj.uid \in {0, u},
         NEW pc \in CreateSteps, NEW n \in {0} \cup Tries, NEW o \in VolumeSnapshots,
         NEW cond \in Statuses
  PROVE  /\ pc \notin {"take", "post"} =>
              /\ Sane(u, [c EXCEPT !.pc = pc])
              /\ Sane(u, [c EXCEPT !.pc = pc, !.obj = Nothing, !.n = n])
              /\ Sane(u, [c EXCEPT !.pc = pc, !.obj = Nothing, !.vs = Nothing])
              /\ Sane(u, [c EXCEPT !.pc = pc, !.vs = o])
              /\ Sane(u, [c EXCEPT !.pc = pc, !.cond = cond])
              /\ Sane(u, [c EXCEPT !.pc = pc, !.n = n])
              /\ Sane(u, [c EXCEPT !.pc = pc, !.new = o])
         /\ o # Nothing /\ n # 0 => Sane(u, [c EXCEPT !.pc = pc, !.vs = o, !.n = n])
         /\ c.vs # Nothing /\ c.n # 0 => Sane(u, [c EXCEPT !.pc = pc, !.cond = cond])
<1>1. Nothing \in VolumeSnapshots /\ Nothing.uid = 0
  BY NothingTyped DEF Nothing
<1>2. pc \notin {"take", "post"} => Sane(u, [c EXCEPT !.pc = pc])
  BY <1>1 DEF Creates, Sane
<1>3. pc \notin {"take", "post"} => Sane(u, [c EXCEPT !.pc = pc, !.obj = Nothing, !.n = n])
  BY <1>1 DEF Creates, Sane
<1>4. pc \notin {"take", "post"} => Sane(u, [c EXCEPT !.pc = pc, !.obj = Nothing, !.vs = Nothing])
  BY <1>1 DEF Creates, Sane
<1>5. pc \notin {"take", "post"} => Sane(u, [c EXCEPT !.pc = pc, !.vs = o])
  BY <1>1 DEF Creates, Sane
<1>6. pc \notin {"take", "post"} => Sane(u, [c EXCEPT !.pc = pc, !.n = n])
  BY <1>1 DEF Creates, Sane
<1>7. pc \notin {"take", "post"} => Sane(u, [c EXCEPT !.pc = pc, !.new = o])
  BY <1>1 DEF Creates, Sane
<1>8. pc \notin {"take", "post"} \/ (c.vs # Nothing /\ c.n # 0)
      => Sane(u, [c EXCEPT !.pc = pc, !.cond = cond])
  <2> DEFINE d == [c EXCEPT !.pc = pc, !.cond = cond]
  <2>1. /\ d \in Creates /\ d.pc = pc /\ d.obj = c.obj
        /\ d.vs = c.vs /\ d.n = c.n
    BY DEF Creates
  <2> HIDE DEF d
  <2>2. QED
    BY <2>1 DEF Sane, d
<1>9. o # Nothing /\ n # 0 => Sane(u, [c EXCEPT !.pc = pc, !.vs = o, !.n = n])
  BY <1>1 DEF Creates, Sane
<1>10. QED
  BY <1>2, <1>3, <1>4, <1>5, <1>6, <1>7, <1>8, <1>9

(* The end of an attempt to set the condition.                             *)
LEMMA FinishTyped ==
  ASSUME Typed, NEW u \in Uids, NEW new \in VolumeSnapshots, Finish(u, new)
  PROVE  OperationsOK' /\ Handed' /\ WorldsOK'
         /\ UNCHANGED <<plugin, claimBound, born, cut, cacheVars, loopVars, crashes>>
<1> DEFINE c == create[u]
           again == [c EXCEPT !.pc = "describe", !.new = Nothing]
<1>1. Sane(u, again)
  <2>1. /\ c \in Creates /\ c.obj.uid \in {0, u}
        /\ c.n \in {0} \cup Tries /\ c.cond \in Statuses
    BY CreateOf DEF Sane, Creates
  <2>2. QED
    BY <2>1, NothingTyped, Update DEF CreateSteps
<1>2. \/ Fail(u) /\ \/ asw' = asw
                    \/ new # Nothing /\ asw' = [asw EXCEPT ![new.uid] = new]
      \/ Step(u, again) /\ asw' = asw
  BY DEF Finish
<1>3. /\ OperationsOK' /\ Handed'
      /\ UNCHANGED <<plugin, claimBound, born, cut, cacheVars, loopVars, crashes>>
  BY <1>1, <1>2, StepTyped, FailTyped
<1>4. new # Nothing => new.uid \in Uids
  BY Version
<1>5. WorldsOK'
  BY <1>2, <1>3, <1>4 DEF Typed, TypeOK, WorldsOK, cacheVars, loopVars
<1>6. QED
  BY <1>3, <1>5

LEMMA CreatingTyped ==
  ASSUME Typed, NEW u \in Uids, Creating(u)
  PROVE  Typed'
<1> DEFINE c == create[u]
<1>0. /\ c \in Creates /\ c.obj \in VolumeSnapshots /\ c.obj.uid \in {0, u} /\ Sane(u, c)
      /\ c.vs \in VolumeSnapshots /\ c.new \in VolumeSnapshots
      /\ c.n \in {0} \cup Tries /\ c.cond \in Statuses
      /\ c.pc \in {"take", "post"} => c.vs # Nothing /\ c.n \in Tries
  BY CreateOf, Numbers DEF Sane, Creates
<1>a. /\ ApiOK /\ WorldsOK /\ BackendOK /\ BoundsOK /\ api \in VolumeSnapshots
      /\ datas \subseteq VolumeSnapshotDatas /\ snaps \subseteq BackendSnapshots
      /\ api.status \in Statuses
  BY Version DEF Typed, TypeOK, ApiOK, BackendOK
<1>b. /\ Nothing \in VolumeSnapshots /\ Nothing.uid = 0
      /\ \A d \in datas : d.n \in Tries /\ d.of \in Uids
      /\ c.vs.data \in {0} \cup Tries
  BY <1>a, <1>0, NothingTyped, Version DEF VolumeSnapshotDatas, Nothing
<1>1. CASE AddKnown(u)
  <2>1. /\ Fail(u) /\ NoFault /\ UNCHANGED <<api, datas, snaps, tries>>
        /\ asw' = [asw EXCEPT ![u] = c.obj]
    BY <1>1 DEF AddKnown, backVars
  <2>2. WorldsOK'
    BY <2>1, <1>0, <1>a, FailTyped DEF WorldsOK, cacheVars, loopVars
  <2>3. QED
    BY <2>1, <2>2, <1>a, FailTyped, SameApi, FaultTyped DEF Typed, TypeOK, BackendOK
<1>2. CASE FindData(u) \/ SearchSnapshot(u) \/ GetData(u) \/ DescribeSnapshot(u)
  <2>1. UNCHANGED <<api, asw, datas, snaps, tries>> /\ (Fault \/ NoFault)
    BY <1>2 DEF FindData, SearchSnapshot, GetData, DescribeSnapshot, backVars
  <2>2. Fail(u) \/ \E op : Sane(u, op) /\ Step(u, op)
    <3>1. CASE FindData(u)
      <4>1. \/ \E d \in datas : Step(u, [c EXCEPT !.pc = "rebind", !.obj = Nothing, !.n = d.n])
            \/ Step(u, [c EXCEPT !.pc = "search"])
        BY <3>1 DEF FindData, Goto
      <4>2. /\ \A d \in datas : Sane(u, [c EXCEPT !.pc = "rebind", !.obj = Nothing, !.n = d.n])
            /\ Sane(u, [c EXCEPT !.pc = "search"])
        BY <1>0, <1>b, Update DEF CreateSteps
      <4>3. QED
        BY <4>1, <4>2
    <3>2. CASE SearchSnapshot(u)
      <4>1. Sane(u, [c EXCEPT !.pc = "label", !.obj = Nothing, !.vs = Nothing])
        BY <1>0, <1>b, Update DEF CreateSteps
      <4>2. QED
        BY <3>2, <4>1 DEF SearchSnapshot
    <3>3. CASE GetData(u)
      <4>1. Sane(u, [c EXCEPT !.pc = "describe", !.n = c.vs.data])
        BY <1>0, <1>b, Update DEF CreateSteps
      <4>2. QED
        BY <3>3, <4>1 DEF GetData
    <3>4. CASE DescribeSnapshot(u)
      <4>1. Answers(c.n) \subseteq Statuses
        <5>1. {s.status : s \in {t \in snaps : t.n = c.n}} \subseteq {"pending", "ready", "error"}
          BY <1>a DEF BackendSnapshots, States
        <5>2. \A s \in {"pending", "ready", "error", "gone"} : Plugin.describes[s] \in Statuses \cup {"no answer"}
          BY <1>a, PluginSays DEF ApiOK
        <5>3. QED
          BY <5>1, <5>2 DEF Answers
      <4>2. \A cond \in Answers(c.n) : Sane(u, [c EXCEPT !.pc = "update", !.cond = cond])
        BY <1>0, <4>1, Update DEF CreateSteps
      <4>3. QED
        BY <3>4, <4>2 DEF DescribeSnapshot
    <3>5. QED
      BY <1>2, <3>1, <3>2, <3>3, <3>4
  <2>3. /\ OperationsOK' /\ Handed'
        /\ UNCHANGED <<plugin, claimBound, born, cut, cacheVars, loopVars, crashes>>
    BY <2>2, FailTyped, StepTyped
  <2>4. QED
    BY <2>1, <2>3, <1>a, SameApi, SameWorlds, FaultTyped DEF Typed, TypeOK, BackendOK
<1>3. CASE takeSnapshot(u)
  <2>1. /\ UNCHANGED <<api, asw, datas, tries>> /\ (Fault \/ NoFault)
        /\ \E status \in Plugin.begins :
             /\ \/ Step(u, [c EXCEPT !.pc = "post", !.cond = Plugin.told[status]])
                \/ Fail(u)
             /\ \/ snaps' = snaps
                \/ snaps' = snaps \cup {[n |-> c.n, of |-> c.vs.uid, status |-> status]}
    BY <1>3 DEF takeSnapshot
  <2>2. PICK status \in Plugin.begins :
          /\ \/ Step(u, [c EXCEPT !.pc = "post", !.cond = Plugin.told[status]])
             \/ Fail(u)
          /\ \/ snaps' = snaps
             \/ snaps' = snaps \cup {[n |-> c.n, of |-> c.vs.uid, status |-> status]}
    BY <2>1
  <2>3. status \in {"pending", "ready"} /\ Plugin.told[status] \in Statuses
    BY <1>a, PluginSays DEF ApiOK
  <2>4. c.vs # Nothing /\ c.n \in Tries /\ c.vs.uid \in Uids
    BY <1>3, <1>0, Version DEF takeSnapshot, At
  <2>5. Sane(u, [c EXCEPT !.pc = "post", !.cond = Plugin.told[status]])
    BY <1>0, <2>3, <2>4, Numbers, Update DEF CreateSteps
  <2>6. [n |-> c.n, of |-> c.vs.uid, status |-> status] \in BackendSnapshots
    BY <2>3, <2>4 DEF BackendSnapshots, States
  <2>7. BackendOK'
    BY <2>1, <2>2, <2>6, <1>a DEF BackendOK
  <2>8. /\ OperationsOK' /\ Handed'
        /\ UNCHANGED <<plugin, claimBound, born, cut, cacheVars, loopVars, crashes>>
    BY <2>2, <2>5, FailTyped, StepTyped
  <2>9. QED
    BY <2>1, <2>7, <2>8, <1>a, SameApi, SameWorlds, FaultTyped DEF Typed, TypeOK
<1>4. CASE createVolumeSnapshotData(u)
  <2>1. /\ UNCHANGED <<api, asw, snaps, tries>> /\ (Fault \/ NoFault)
        /\ Step(u, [c EXCEPT !.pc = "bind"]) \/ Fail(u)
        /\ \/ datas' = datas
           \/ datas' = datas \cup {[n |-> c.n, of |-> u, status |-> c.cond]}
    BY <1>4 DEF createVolumeSnapshotData, Goto
  <2>2. Sane(u, [c EXCEPT !.pc = "bind"])
    BY <1>0, Update DEF CreateSteps
  <2>3. c.n \in Tries
    BY <1>4, <1>0 DEF createVolumeSnapshotData, At
  <2>4. [n |-> c.n, of |-> u, status |-> c.cond] \in VolumeSnapshotDatas
    BY <2>3, <1>0 DEF VolumeSnapshotDatas
  <2>5. BackendOK'
    BY <2>1, <2>4, <1>a DEF BackendOK
  <2>6. /\ OperationsOK' /\ Handed'
        /\ UNCHANGED <<plugin, claimBound, born, cut, cacheVars, loopVars, crashes>>
    BY <2>1, <2>2, FailTyped, StepTyped
  <2>7. QED
    BY <2>1, <2>5, <2>6, <1>a, SameApi, SameWorlds, FaultTyped DEF Typed, TypeOK
<1>5. CASE RebindData(u) \/ bindandUpdateVolumeSnapshot(u)
  <2>1. UNCHANGED <<asw, datas, snaps, tries>>
    BY <1>5 DEF RebindData, bindandUpdateVolumeSnapshot, backVars
  <2>2. crashes' = crashes /\ UNCHANGED <<cacheVars, loopVars>>
    BY <1>5 DEF RebindData, bindandUpdateVolumeSnapshot, PutObject, Step, Fail
  <2>3. CASE RebindData(u)
    <3>1. api # Nothing => [api EXCEPT !.data = c.n] \in VolumeSnapshots
      BY <1>a, <1>0, NewVersion
    <3>2. api # Nothing =>
            Sane(u, [c EXCEPT !.pc = "getdata", !.vs = [api EXCEPT !.data = c.n]])
      BY <1>0, <3>1, Update DEF CreateSteps
    <3>3. PutObject(u, [api EXCEPT !.data = c.n],
                    [c EXCEPT !.pc = "getdata", !.vs = [api EXCEPT !.data = c.n]])
      BY <2>3 DEF RebindData
    <3>4. QED
      BY <2>1, <2>2, <3>1, <3>2, <3>3, <1>a, PutTyped, SameWorlds DEF Typed, TypeOK, BackendOK
  <2>4. CASE bindandUpdateVolumeSnapshot(u)
    <3> DEFINE new == [api EXCEPT !.data = c.n, !.status = c.cond]
    <3>1. api # Nothing => new \in VolumeSnapshots
      BY <1>a, <1>0, NewVersion
    <3>2. api # Nothing => Sane(u, [c EXCEPT !.pc = "describe", !.vs = new])
      BY <1>0, <3>1, Update DEF CreateSteps
    <3>3. PutObject(u, new, [c EXCEPT !.pc = "describe", !.vs = new])
      BY <2>4 DEF bindandUpdateVolumeSnapshot
    <3>4. QED
      BY <2>1, <2>2, <3>1, <3>2, <3>3, <1>a, PutTyped, SameWorlds DEF Typed, TypeOK, BackendOK
  <2>5. QED
    BY <1>5, <2>3, <2>4
<1>6. CASE updateVolumeSnapshotMetadata(u)
  <2> DEFINE new == [api EXCEPT !.tag = tries + 1]
             op == [c EXCEPT !.pc = "take", !.vs = new, !.n = tries + 1]
  <2>1. UNCHANGED <<asw, datas, snaps>>
    BY <1>6 DEF updateVolumeSnapshotMetadata
  <2>2. crashes' = crashes /\ UNCHANGED <<cacheVars, loopVars>>
    BY <1>6 DEF updateVolumeSnapshotMetadata, PutObject, Step, Fail
  <2>3. CASE tries < MaxTries /\ PutObject(u, new, op)
             /\ tries' = IF api'.tag = tries + 1 THEN tries + 1 ELSE tries
    <3>1. tries \in 0 .. MaxTries /\ tries + 1 \in Tries
      BY <2>3, SnapshotAssumption, <1>a DEF BackendOK, Tries
    <3>2. api # Nothing => new \in VolumeSnapshots /\ new # Nothing
      BY <1>a, <3>1, NewVersion DEF Statuses
    <3>3. api # Nothing => Sane(u, op)
      BY <1>0, <3>1, <3>2, Numbers, Update DEF CreateSteps
    <3>4. BackendOK'
      BY <2>1, <2>3, <3>1, <1>a, SnapshotAssumption DEF BackendOK, Tries
    <3>5. QED
      BY <2>1, <2>2, <2>3, <3>2, <3>3, <3>4, <1>a, PutTyped, SameWorlds DEF Typed, TypeOK
  <2>4. CASE Fail(u) /\ UNCHANGED <<api, tries>> /\ (Fault \/ NoFault)
    BY <2>1, <2>2, <2>4, <1>a, FailTyped, SameApi, SameWorlds, FaultTyped
    DEF Typed, TypeOK, BackendOK
  <2>5. QED
    BY <1>6, <2>3, <2>4 DEF updateVolumeSnapshotMetadata
<1>7. CASE UpdateVolumeSnapshotStatus(u)
  <2> DEFINE new == [api EXCEPT !.status = c.cond]
             op == [c EXCEPT !.pc = "propagate", !.new = new]
  <2>1. /\ UNCHANGED <<datas, snaps, tries>> /\ (Fault \/ NoFault)
        /\ api' = api \/ (api # Nothing /\ api' = new)
        /\ \/ Finish(u, c.vs) \/ Finish(u, Nothing)
           \/ api # Nothing /\ Step(u, op) /\ UNCHANGED asw
    BY <1>7 DEF UpdateVolumeSnapshotStatus, backVars
  <2>2. api # Nothing => new \in VolumeSnapshots
    BY <1>a, <1>0, NewVersion
  <2>3. api # Nothing => Sane(u, op)
    BY <1>0, <2>2, Update DEF CreateSteps
  <2>4. /\ OperationsOK' /\ Handed' /\ WorldsOK'
        /\ UNCHANGED <<plugin, claimBound, born, cut, cacheVars, crashes>>
    BY <2>1, <2>3, <1>0, <1>b, FinishTyped, StepTyped, SameWorlds
  <2>5. ApiOK'
    BY <2>1, <2>2, <2>4, <1>a DEF ApiOK, cacheVars
  <2>6. QED
    BY <2>1, <2>4, <2>5, <1>a, FaultTyped DEF Typed, TypeOK, BackendOK
<1>8. CASE propagateVolumeSnapshotCondition(u)
  <2> DEFINE told == {IF d.n = c.new.data THEN [d EXCEPT !.status = c.cond] ELSE d : d \in datas}
  <2>1. /\ UNCHANGED <<api, snaps, tries>> /\ (Fault \/ NoFault)
        /\ datas' \in {datas, told}
        /\ Finish(u, c.new) \/ Finish(u, Nothing)
    BY <1>8 DEF propagateVolumeSnapshotCondition
  <2>2. told \subseteq VolumeSnapshotDatas
    BY <1>a, <1>0 DEF VolumeSnapshotDatas
  <2>3. /\ OperationsOK' /\ Handed' /\ WorldsOK'
        /\ UNCHANGED <<plugin, claimBound, born, cut, cacheVars, crashes>>
    BY <2>1, <1>0, <1>b, FinishTyped
  <2>4. QED
    BY <2>1, <2>2, <2>3, <1>a, SameApi, FaultTyped DEF Typed, TypeOK, BackendOK
<1>9. QED
  BY <1>1, <1>2, <1>3, <1>4, <1>5, <1>6, <1>7, <1>8 DEF Creating

LEMMA DeletingTyped ==
  ASSUME Typed, NEW u \in Uids, Deleting(u)
  PROVE  Typed'
<1>1. /\ UNCHANGED <<plugin, apiVars, cacheVars, loopVars, create, tries, crashes>>
      /\ Fault \/ NoFault
      /\ asw' = asw \/ asw' = [asw EXCEPT ![u] = Nothing]
      /\ datas' \subseteq datas /\ snaps' \subseteq snaps
      /\ \/ delete' = [delete EXCEPT ![u] = NoDelete]
         \/ delete' = [delete EXCEPT ![u] = [delete[u] EXCEPT !.pc = "remove"]]
         \/ delete' = [delete EXCEPT ![u] = [delete[u] EXCEPT !.pc = "drop"]]
  BY DEF Deleting, GetDataToDelete, deleteSnapshot, DeleteData, DelStep, DelGoto
<1>2. ApiOK' /\ BackendOK' /\ BoundsOK'
  <2>1. BackendOK' /\ BoundsOK'
    BY <1>1, FaultTyped DEF Typed, TypeOK, BackendOK
  <2>2. QED
    BY <1>1, <2>1, SameApi DEF apiVars
<1>3. WorldsOK'
  <2>1. Nothing \in VolumeSnapshots /\ Nothing.uid = 0
    BY NothingTyped DEF Nothing
  <2>2. UNCHANGED <<dsw, wanted, held>>
    BY <1>1 DEF cacheVars, loopVars
  <2>3. asw' \in [Uids -> VolumeSnapshots] /\ \A w \in Uids : asw'[w].uid \in {0, w}
    BY <1>1, <2>1 DEF Typed, TypeOK, WorldsOK
  <2>4. QED
    BY <2>2, <2>3 DEF Typed, TypeOK, WorldsOK
<1>4. OperationsOK'
  BY <1>1, NothingTyped DEF Typed, TypeOK, OperationsOK, Deletes
<1>5. Handed'
  BY <1>1 DEF Typed, Handed, loopVars
<1>6. QED
  BY <1>2, <1>3, <1>4, <1>5 DEF Typed, TypeOK

LEMMA CrashTyped ==
  ASSUME Typed, Crash
  PROVE  Typed'
<1>0. Nothing.uid = 0 /\ NoCreate.obj = Nothing /\ NoCreate.pc = "idle"
  <2>1. Nothing.uid = 0
    BY DEF Nothing
  <2>2. QED
    BY <2>1 DEF NoCreate
<1>1. ApiOK' /\ BackendOK' /\ BoundsOK'
  BY NothingTyped, SnapshotAssumption
  DEF Crash, Typed, TypeOK, ApiOK, BackendOK, BoundsOK, apiVars, backVars
<1>2. WorldsOK'
  BY <1>0, NothingTyped DEF Crash, Typed, TypeOK, ApiOK, WorldsOK
<1>3. OperationsOK'
  BY NothingTyped DEF Crash, OperationsOK
<1>4. Handed'
  BY <1>0 DEF Crash, Handed
<1>5. QED
  BY <1>1, <1>2, <1>3, <1>4 DEF Typed, TypeOK

LEMMA TypedStep == Typed /\ [Next]_vars => Typed'
<1>1. SUFFICES ASSUME Typed, [Next]_vars PROVE Typed'
  OBVIOUS
<1>2. CASE UNCHANGED vars
  BY <1>1, <1>2
  DEF vars, apiVars, cacheVars, loopVars, opVars, backVars, Typed, TypeOK, Handed, ApiOK,
      WorldsOK, OperationsOK, BackendOK, BoundsOK
<1>3. QED
  BY <1>1, <1>2, SurroundingsTyped, LoopsTyped, CreatingTyped, DeletingTyped, CrashTyped DEF Next

(* Every object, cache, world, operation and snapshot has its type, with   *)
(* any plugins, failures and crashes, also when a name is used again.      *)
THEOREM TypeCorrect == Spec => []TypeOK
BY TypedStep, InitTyped, PTL DEF Spec, Typed
-----------------------------------------------------------------------------
(* As long as no name is used again, the controller knows one              *)
(* VolumeSnapshot, and what it has of it are older versions.               *)
NameUsedOnce == MaxObjects = 1

Unknown(u) ==
  /\ wanted[u] = Nothing /\ held[u] = Nothing /\ asw[u] = Nothing
  /\ create[u] = NoCreate

Unborn ==
  /\ api = Nothing /\ store = Nothing /\ listed = Nothing
  /\ \A u \in Uids : dsw[u] = Nothing /\ Unknown(u) /\ delete[u] = NoDelete
  /\ datas = {} /\ snaps = {} /\ tries = 0

(* The desired world has what exists, or nobody has seen it.               *)
Seen(u) ==
  /\ dsw[u] = Nothing => store = Nothing /\ listed = Nothing /\ Unknown(u)
  /\ store = Nothing => dsw[u] = Nothing
  /\ delete[u] = NoDelete

Watched ==
  /\ born = 0 => Unborn
  /\ api # Nothing => \A u \in Uids : Seen(u)

LEMMA OneUid == ASSUME NameUsedOnce PROVE Uids = {1}
BY DEF NameUsedOnce, Uids

LEMMA OneObject ==
  ASSUME NameUsedOnce, Typed, Watched
  PROVE  /\ api # Nothing => api.uid = 1 /\ born = 1
         /\ store # Nothing => store.uid = 1
         /\ listed # Nothing => listed.uid = 1
         /\ Nothing.uid = 0
<1>1. born \in {0, 1}
  BY DEF NameUsedOnce, Typed, TypeOK, ApiOK
<1>2. QED
  BY <1>1, OneUid, Version DEF Typed, TypeOK, ApiOK, Watched, Unborn, Nothing

LEMMA InitWatched == Init => Watched
BY DEF Init, Watched, Unborn, Unknown, Seen

(* What the steps of an operation leave alone.                             *)
LEMMA CreatingFrame ==
  ASSUME Typed, NEW u \in Uids, Creating(u)
  PROVE  /\ UNCHANGED <<plugin, claimBound, born, cut, cacheVars, loopVars, delete, crashes>>
         /\ create[u] # NoCreate
         /\ \E op : create' = [create EXCEPT ![u] = op]
         /\ api' # Nothing => api # Nothing
<1>1. NoCreate.pc = "idle"
  BY DEF NoCreate
<1>2. create[u] # NoCreate
  BY <1>1 DEF Creating, AddKnown, FindData, SearchSnapshot, RebindData,
     updateVolumeSnapshotMetadata, takeSnapshot, createVolumeSnapshotData,
     bindandUpdateVolumeSnapshot, GetData, DescribeSnapshot, UpdateVolumeSnapshotStatus,
     propagateVolumeSnapshotCondition, At
<1>3. \E op : Step(u, op)
  <2>1. CASE \/ AddKnown(u) \/ FindData(u) \/ SearchSnapshot(u) \/ GetData(u) \/ DescribeSnapshot(u)
             \/ takeSnapshot(u) \/ createVolumeSnapshotData(u)
    BY <2>1 DEF AddKnown, FindData, SearchSnapshot, GetData, DescribeSnapshot, takeSnapshot,
                createVolumeSnapshotData, Fail, Goto
  <2>2. CASE RebindData(u) \/ updateVolumeSnapshotMetadata(u) \/ bindandUpdateVolumeSnapshot(u)
    BY <2>2 DEF RebindData, updateVolumeSnapshotMetadata, bindandUpdateVolumeSnapshot, PutObject, Fail
  <2>3. CASE UpdateVolumeSnapshotStatus(u) \/ propagateVolumeSnapshotCondition(u)
    BY <2>3 DEF UpdateVolumeSnapshotStatus, propagateVolumeSnapshotCondition, Finish, Fail
  <2>4. QED
    BY <2>1, <2>2, <2>3 DEF Creating
<1>4. api' # Nothing => api # Nothing
  BY DEF Creating, AddKnown, FindData, SearchSnapshot, RebindData,
     updateVolumeSnapshotMetadata, takeSnapshot, createVolumeSnapshotData,
     bindandUpdateVolumeSnapshot, GetData, DescribeSnapshot, UpdateVolumeSnapshotStatus,
     propagateVolumeSnapshotCondition, PutObject
<1>5. QED
  BY <1>2, <1>3, <1>4 DEF Step

LEMMA DeletingFrame ==
  ASSUME NEW u \in Uids, Deleting(u)
  PROVE  /\ UNCHANGED <<plugin, apiVars, cacheVars, loopVars, create, tries, crashes>>
         /\ delete[u] # NoDelete
<1>1. NoDelete.pc = "idle"
  BY DEF NoDelete
<1>2. delete[u].pc # "idle"
  BY DEF Deleting, GetDataToDelete, deleteSnapshot, DeleteData
<1>3. QED
  BY <1>1, <1>2 DEF Deleting, GetDataToDelete, deleteSnapshot, DeleteData, DelStep, DelGoto

LEMMA WatchedStep ==
  ASSUME NameUsedOnce, Typed, Typed', Watched, [Next]_vars
  PROVE  Watched'
<1>0. /\ Uids = {1} /\ born \in {0, 1} /\ Nothing.uid = 0
      /\ api # Nothing => api.uid = 1 /\ born = 1
      /\ store # Nothing => store.uid = 1
      /\ listed # Nothing => listed.uid = 1
  BY OneUid, OneObject DEF NameUsedOnce, Typed, TypeOK, ApiOK
<1>1. CASE CreateObject
  <2>1. Unborn /\ born' = 1 /\ UNCHANGED <<store, listed, dsw, wanted, held, asw, create, delete>>
    BY <1>1, <1>0 DEF CreateObject, Watched, cacheVars, loopVars, opVars, NameUsedOnce
  <2>2. QED
    BY <2>1 DEF Watched, Unborn, Unknown, Seen
<1>2. CASE DeleteObject \/ DeleteClaim \/ Settle
  <2>1. /\ UNCHANGED <<born, store, listed, dsw, wanted, held, asw, create, delete, datas, tries>>
        /\ api' = Nothing \/ api' = api
        /\ snaps = {} => snaps' = {}
    BY <1>2 DEF DeleteObject, DeleteClaim, Settle, apiVars, cacheVars, loopVars, opVars, backVars
  <2>2. QED
    BY <2>1 DEF Watched, Unborn, Unknown, Seen
<1>3. CASE Informer \/ ListSnapshots \/ findAndAddActiveSnapshots
           \/ \E u \in Uids : findAndRemoveDeletedSnapshots(u)
  <2>1. UNCHANGED <<api, born, wanted, held, asw, create, delete, datas, snaps, tries>>
    BY <1>3 DEF Informer, onSnapshotAdd, onSnapshotUpdate, onSnapshotDelete, ListSnapshots,
                findAndAddActiveSnapshots, findAndRemoveDeletedSnapshots, apiVars, loopVars,
                opVars, backVars
  <2>2. CASE onSnapshotAdd \/ onSnapshotUpdate
    <3>1. api # Nothing /\ store' = api /\ listed' = listed
      BY <1>0, <2>2 DEF onSnapshotAdd, onSnapshotUpdate
    <3>2. dsw' = dsw \/ dsw' = [dsw EXCEPT ![api.uid] = api]
      BY <2>2 DEF onSnapshotAdd, onSnapshotUpdate
    <3>3. onSnapshotUpdate => store # Nothing
      BY DEF onSnapshotUpdate
    <3>4. dsw'[1] # Nothing
      BY <1>0, <2>2, <3>1, <3>2, <3>3 DEF Watched, Seen, onSnapshotAdd, onSnapshotUpdate, Typed, TypeOK, WorldsOK
    <3>5. QED
      BY <1>0, <2>1, <3>1, <3>4 DEF Watched, Seen, Unknown
  <2>3. CASE onSnapshotDelete
    <3>1. api = Nothing /\ store # Nothing
      BY <1>0, <2>3 DEF onSnapshotDelete
    <3>2. QED
      BY <2>1, <3>1 DEF Watched, Unborn
  <2>4. CASE ListSnapshots
    BY <2>1, <2>4 DEF ListSnapshots, Watched, Unborn, Unknown, Seen
  <2>5. CASE findAndAddActiveSnapshots
    <3>1. listed # Nothing /\ listed' = Nothing /\ store' = store
      BY <2>5 DEF findAndAddActiveSnapshots
    <3>2. api # Nothing => dsw[1] # Nothing
      BY <1>0, <3>1 DEF Watched, Seen
    <3>3. api # Nothing => dsw' = dsw
      BY <1>0, <2>5, <3>2 DEF findAndAddActiveSnapshots
    <3>4. QED
      BY <1>0, <2>1, <3>1, <3>2, <3>3 DEF Watched, Unborn, Unknown, Seen
  <2>6. CASE \E u \in Uids : findAndRemoveDeletedSnapshots(u)
    <3>1. dsw[1] # Nothing /\ store = Nothing
      BY <1>0, <2>6 DEF findAndRemoveDeletedSnapshots
    <3>2. QED
      BY <1>0, <2>1, <3>1 DEF Watched, Unborn, Seen
  <2>7. QED
    BY <1>3, <2>2, <2>3, <2>4, <2>5, <2>6 DEF Informer
<1>4. CASE Reconcile(1)
  <2>1. UNCHANGED <<api, born, store, listed, dsw, asw, datas, snaps, tries>>
    BY <1>4 DEF Reconcile, GetActual, GetDesired, DeleteVolumeSnapshot, CreateVolumeSnapshot,
                apiVars, cacheVars, backVars
  <2>2. dsw[1] # Nothing \/ asw[1] # Nothing \/ held[1] # Nothing \/ wanted[1] # Nothing
    BY <1>4 DEF Reconcile, GetActual, GetDesired, DeleteVolumeSnapshot, CreateVolumeSnapshot
  <2>3. born # 0
    BY <1>0, <2>2 DEF Watched, Unborn, Unknown
  <2>4. api # Nothing => dsw[1] # Nothing
    BY <1>0, <2>2 DEF Watched, Seen, Unknown
  <2>5. api # Nothing => delete' = delete
    BY <1>4, <2>4 DEF Reconcile, GetActual, GetDesired, DeleteVolumeSnapshot, CreateVolumeSnapshot, opVars
  <2>6. QED
    BY <1>0, <2>1, <2>3, <2>4, <2>5 DEF Watched, Seen
<1>5. CASE Creating(1)
  <2>1. /\ UNCHANGED <<born, store, listed, dsw, delete>>
        /\ create[1] # NoCreate /\ (api' # Nothing => api # Nothing)
    BY <1>0, <1>5, CreatingFrame DEF cacheVars
  <2>2. QED
    BY <1>0, <2>1 DEF Watched, Unborn, Unknown, Seen
<1>6. CASE Deleting(1)
  <2>1. UNCHANGED <<api, born>> /\ delete[1] # NoDelete
    BY <1>0, <1>6, DeletingFrame DEF apiVars
  <2>2. QED
    BY <1>0, <2>1 DEF Watched, Unborn, Seen
<1>7. CASE Crash
  <2>1. UNCHANGED <<api, born, datas, snaps, tries>> /\ store' = api /\ listed' = Nothing
    BY <1>7 DEF Crash, apiVars, backVars
  <2>2. api # Nothing => dsw'[1] # Nothing
    BY <1>0, <1>7 DEF Crash
  <2>3. /\ \A u \in Uids : Unknown(u)' /\ delete'[u] = NoDelete
        /\ api = Nothing => \A u \in Uids : dsw'[u] = Nothing
    BY <1>0, <1>7 DEF Crash, Unknown
  <2>4. QED
    BY <1>0, <2>1, <2>2, <2>3 DEF Watched, Unborn, Seen
<1>8. CASE UNCHANGED vars
  BY <1>8 DEF vars, apiVars, cacheVars, loopVars, opVars, backVars, Watched, Unborn, Unknown, Seen
<1>9. QED
  BY <1>0, <1>1, <1>2, <1>3, <1>4, <1>5, <1>6, <1>7, <1>8 DEF Next

LEMMA WatchedAlways ==
  ASSUME NameUsedOnce
  PROVE  Spec => [](Typed /\ Watched)
<1>1. Typed /\ Watched /\ [Next]_vars => (Typed /\ Watched)'
  BY TypedStep, WatchedStep
<1>2. QED
  BY <1>1, InitTyped, InitWatched, PTL DEF Spec

(* The reconciler compares two worlds that change while it looks, and the   *)
(* operations of one VolumeSnapshot may run at the same time; yet a        *)
(* snapshot that a VolumeSnapshot names is not deleted.                    *)
THEOREM KeptWhileBoundCorrect ==
  ASSUME NameUsedOnce
  PROVE  Spec => KeptWhileBound
<1> DEFINE Kept == \A s \in snaps : s.n = api.data => \E t \in snaps' : t.n = s.n
<1>1. Typed /\ Watched /\ [Next]_vars => Kept
  <2>1. SUFFICES ASSUME Typed, Watched, [Next]_vars, NEW s \in snaps, s.n = api.data
                 PROVE  \E t \in snaps' : t.n = s.n
    OBVIOUS
  <2>2. s \in BackendSnapshots /\ s.n # 0
    BY <2>1, Numbers DEF Typed, TypeOK, BackendOK, BackendSnapshots
  <2>3. api # Nothing
    BY <2>1, <2>2 DEF Nothing
  <2>4. \A u \in Uids : ~Deleting(u)
    BY <2>1, <2>3, DeletingFrame DEF Watched, Seen
  <2>5. CASE Settle
    <3>1. PICK r \in snaps, status \in {"ready", "error"} :
             snaps' = (snaps \ {r}) \cup {[r EXCEPT !.status = status]}
      BY <2>5 DEF Settle
    <3>2. [r EXCEPT !.status = status].n = r.n
      BY <2>1 DEF Typed, TypeOK, BackendOK, BackendSnapshots
    <3>3. QED
      BY <3>1, <3>2
  <2>6. CASE \E u \in Uids : Creating(u)
    <3>1. snaps \subseteq snaps'
      BY <2>6 DEF Creating, AddKnown, FindData, SearchSnapshot, RebindData,
         updateVolumeSnapshotMetadata, takeSnapshot, createVolumeSnapshotData,
         bindandUpdateVolumeSnapshot, GetData, DescribeSnapshot, UpdateVolumeSnapshotStatus,
         propagateVolumeSnapshotCondition, backVars
    <3>2. QED
      BY <3>1
  <2>7. CASE \/ CreateObject \/ DeleteObject \/ DeleteClaim \/ Informer \/ ListSnapshots
             \/ findAndAddActiveSnapshots \/ Crash \/ UNCHANGED vars
             \/ \E u \in Uids : findAndRemoveDeletedSnapshots(u) \/ Reconcile(u)
    <3>1. snaps' = snaps
      BY <2>7 DEF CreateObject, DeleteObject, DeleteClaim, Informer, onSnapshotAdd,
         onSnapshotUpdate, onSnapshotDelete, ListSnapshots, findAndAddActiveSnapshots, Crash, vars,
         findAndRemoveDeletedSnapshots, Reconcile, GetActual, GetDesired, DeleteVolumeSnapshot,
         CreateVolumeSnapshot, backVars
    <3>2. QED
      BY <3>1
  <2>8. QED
    BY <2>1, <2>4, <2>5, <2>6, <2>7 DEF Next
<1>2. QED
  BY <1>1, WatchedAlways, PTL DEF Spec, KeptWhileBound
-----------------------------------------------------------------------------
(* All versions of a VolumeSnapshot name data object n or none; what has a *)
(* condition names one.                                                    *)
Fits(o, n) == o.data \in {0, n} /\ (o.data = 0 => o.status = "new")

CopiesFit(n) ==
  /\ Fits(api, n) /\ Fits(store, n) /\ Fits(listed, n)
  /\ \A u \in Uids :
       /\ Fits(dsw[u], n) /\ Fits(asw[u], n) /\ Fits(wanted[u], n) /\ Fits(held[u], n)
       /\ Fits(create[u].obj, n) /\ Fits(create[u].vs, n) /\ Fits(create[u].new, n)

LEMMA NothingFits ==
  /\ \A n : Fits(Nothing, n)
  /\ NoCreate.obj = Nothing /\ NoCreate.vs = Nothing /\ NoCreate.new = Nothing
  /\ NoCreate.pc = "idle"
<1>1. \A n : Fits(Nothing, n)
  BY DEF Fits, Nothing
<1>2. QED
  BY <1>1 DEF NoCreate

LEMMA NewFits ==
  ASSUME NEW o \in VolumeSnapshots, NEW n, NEW t \in {0} \cup Tries, NEW s \in Statuses
  PROVE  /\ Fits(o, n) => Fits([o EXCEPT !.tag = t], n)
         /\ t # 0 => Fits([o EXCEPT !.data = t], t)
         /\ t # 0 => Fits([o EXCEPT !.data = t, !.status = s], t)
         /\ Fits(o, n) /\ o.data # 0 => Fits([o EXCEPT !.status = s], n)
         /\ Fits(o, 0) => Fits(o, n)
         /\ [o EXCEPT !.tag = t].data = o.data /\ [o EXCEPT !.tag = t].status = o.status
         /\ [o EXCEPT !.data = t].data = t /\ [o EXCEPT !.data = t].status = o.status
         /\ [o EXCEPT !.data = t, !.status = s].data = t
         /\ [o EXCEPT !.data = t, !.status = s].status = s
         /\ [o EXCEPT !.status = s].data = o.data /\ [o EXCEPT !.status = s].status = s
         /\ [o EXCEPT !.tag = t].uid = o.uid /\ [o EXCEPT !.data = t].uid = o.uid
         /\ [o EXCEPT !.data = t, !.status = s].uid = o.uid
         /\ [o EXCEPT !.status = s].uid = o.uid
<1>1. CASE o = Nothing
  BY <1>1 DEF Fits, Nothing
<1>2. CASE o \in [uid : Uids, tag : {0} \cup Tries, data : {0} \cup Tries, status : Statuses]
  BY <1>2 DEF Fits
<1>3. QED
  BY <1>1, <1>2 DEF VolumeSnapshots

(* Outside the operations versions are only copied.                        *)
LEMMA CopiesKept ==
  ASSUME Typed, NEW n, CopiesFit(n),
         \/ CreateObject \/ DeleteObject \/ DeleteClaim \/ Settle
         \/ Informer \/ ListSnapshots \/ findAndAddActiveSnapshots
         \/ \E u \in Uids : findAndRemoveDeletedSnapshots(u) \/ Reconcile(u) \/ Deleting(u)
         \/ Crash \/ UNCHANGED vars
  PROVE  CopiesFit(n)'
<1>1. CASE CreateObject
  <2>1. Fits([Nothing EXCEPT !.uid = born + 1], n)
    BY DEF Fits, Nothing
  <2>2. QED
    BY <1>1, <2>1 DEF CreateObject, CopiesFit, cacheVars, loopVars, opVars
<1>2. CASE DeleteObject \/ DeleteClaim \/ Settle \/ UNCHANGED vars
  BY <1>2, NothingFits
  DEF DeleteObject, DeleteClaim, Settle, CopiesFit, vars, apiVars, cacheVars, loopVars, opVars
<1>3. CASE Informer \/ ListSnapshots \/ findAndAddActiveSnapshots
           \/ \E u \in Uids : findAndRemoveDeletedSnapshots(u)
  <2>1. /\ UNCHANGED <<api, wanted, held, asw, create>>
        /\ store' \in {store, api, Nothing} /\ listed' \in {listed, store, Nothing}
    BY <1>3 DEF Informer, onSnapshotAdd, onSnapshotUpdate, onSnapshotDelete, ListSnapshots,
                findAndAddActiveSnapshots, findAndRemoveDeletedSnapshots, apiVars, loopVars, opVars
  <2>2. \/ dsw' = dsw
        \/ \E u, o : o \in {api, listed, Nothing} /\ dsw' = [dsw EXCEPT ![u] = o]
    BY <1>3 DEF Informer, onSnapshotAdd, onSnapshotUpdate, onSnapshotDelete, ListSnapshots,
                findAndAddActiveSnapshots, findAndRemoveDeletedSnapshots
  <2>3. \A u \in Uids : Fits(dsw'[u], n)
    BY <2>2, NothingFits DEF CopiesFit, Typed, TypeOK, WorldsOK
  <2>4. QED
    BY <2>1, <2>3, NothingFits DEF CopiesFit
<1>4. CASE \E u \in Uids : Reconcile(u)
  <2>1. PICK u \in Uids : Reconcile(u)
    BY <1>4
  <2>2. /\ UNCHANGED <<api, store, listed, dsw, asw>>
        /\ held' = held \/ \E o \in {asw[u], Nothing} : held' = [held EXCEPT ![u] = o]
        /\ wanted' = wanted \/ \E o \in {dsw[u], Nothing} : wanted' = [wanted EXCEPT ![u] = o]
        /\ create' = create \/ create' = [create EXCEPT ![u] = Begun(wanted[u])]
    BY <2>1 DEF Reconcile, GetActual, GetDesired, DeleteVolumeSnapshot, CreateVolumeSnapshot,
                apiVars, cacheVars, opVars
  <2>3. \A w \in Uids : Fits(wanted'[w], n) /\ Fits(held'[w], n)
    BY <2>2, NothingFits DEF CopiesFit, Typed, TypeOK, WorldsOK
  <2>4. /\ Begun(wanted[u]).obj = wanted[u] /\ Begun(wanted[u]).vs = wanted[u]
        /\ Begun(wanted[u]).new = Nothing
    BY DEF Begun, NoCreate
  <2>5. \A w \in Uids : /\ Fits(create'[w].obj, n) /\ Fits(create'[w].vs, n)
                        /\ Fits(create'[w].new, n)
    BY <2>2, <2>4, NothingFits DEF CopiesFit, Typed, TypeOK, OperationsOK
  <2>6. QED
    BY <2>2, <2>3, <2>5 DEF CopiesFit
<1>5. CASE \E u \in Uids : Deleting(u)
  <2>1. PICK u \in Uids : Deleting(u)
    BY <1>5
  <2>2. UNCHANGED <<api, store, listed, dsw, wanted, held, create>>
    BY <2>1, DeletingFrame DEF apiVars, cacheVars, loopVars
  <2>3. asw' = asw \/ asw' = [asw EXCEPT ![u] = Nothing]
    BY <2>1 DEF Deleting, GetDataToDelete, deleteSnapshot, DeleteData
  <2>4. \A w \in Uids : Fits(asw'[w], n)
    BY <2>3, NothingFits DEF CopiesFit, Typed, TypeOK, WorldsOK
  <2>5. QED
    BY <2>2, <2>4 DEF CopiesFit
<1>6. CASE Crash
  BY <1>6, NothingFits DEF Crash, CopiesFit, apiVars
<1>7. QED
  BY <1>1, <1>2, <1>3, <1>4, <1>5, <1>6
-----------------------------------------------------------------------------
(* What a ready VolumeSnapshot names.                                      *)

(* The snapshot is completed.                                              *)
Done(n) == \E s \in snaps : s.n = n /\ s.status = "ready"

(* hostPath, GlusterFS and OpenEBS wait until a snapshot is complete.      *)
LocalDone == plugin \in LocalPlugins => \A s \in snaps : s.status = "ready"

DataFit ==
  /\ \A d, e \in datas : d.n = e.n
  /\ \A d \in datas : \E s \in snaps : s.n = d.n
  /\ api.data # 0 => \E d \in datas : d.n = api.data
  /\ api.status = "ready" => Done(api.data)

OperationFits(c) ==
  /\ c.pc \in {"search", "label", "take", "post"} => datas = {}
  /\ c.pc = "post" => \E s \in snaps : s.n = c.n
  /\ c.pc \in {"post", "bind", "update"} /\ c.cond = "ready" => Done(c.n)
  /\ c.pc \in {"bind", "rebind"} => \E d \in datas : d.n = c.n
  /\ c.pc = "getdata" => c.vs.data # 0
  /\ c.pc \in {"describe", "update", "propagate"} => c.n # 0 /\ c.n = api.data

Intact ==
  /\ LocalDone
  /\ api # Nothing =>
       CopiesFit(api.data) /\ DataFit /\ \A u \in Uids : OperationFits(create[u])

(* The list of data objects is answered truly: a failed one counts as      *)
(* empty, and a second snapshot is taken.                                  *)
ListsAnswered ==
  \A u \in Uids :
    At(u, "find") /\ create'[u].pc = "search" => ~ \E d \in datas : d.of = u

(* A plugin that says ready of a snapshot tells the truth, if there is one.*)
LEMMA PluginKnows ==
  ASSUME plugin \in Plugins
  PROVE  /\ plugin \in LocalPlugins => Plugin.begins = {"ready"}
         /\ \A s \in Plugin.begins : Plugin.told[s] = "ready" => s = "ready"
         /\ plugin \notin LocalPlugins =>
              \A s \in {"pending", "ready", "error", "gone"} :
                Plugin.describes[s] = "ready" => s = "ready"
<1>1. CASE plugin \in {"hostPath", "glusterfs", "openebs"}
  BY <1>1 DEF Plugin, volumePlugins, hostPathPlugin, glusterfsPlugin, openEBSPlugin,
              CASCreateSnapshot, CASDeleteSnapshot, States, LocalPlugins
<1>2. CASE plugin = "aws_ebs"
  <2>1. plugin \notin LocalPlugins
    BY <1>2 DEF LocalPlugins
  <2>2. Plugin.begins = {"pending", "ready"}
    BY <1>2 DEF Plugin, volumePlugins, awsEBSPlugin, CloudPlugin, AwsSnapshots, convertAWSStatus,
              AwsCreateSnapshot
  <2>3. Plugin.told["pending"] # "ready"
    BY <1>2 DEF Plugin, volumePlugins, awsEBSPlugin, CloudPlugin, AwsSnapshots, convertAWSStatus,
              AwsCreateSnapshot, States
  <2>4. \A s \in {"pending", "error", "gone"} : Plugin.describes[s] # "ready"
    <3>1. Plugin.describes["pending"] # "ready"
      BY <1>2 DEF Plugin, volumePlugins, awsEBSPlugin, CloudPlugin, AwsSnapshots, convertAWSStatus,
                AwsCreateSnapshot, States
    <3>2. Plugin.describes["error"] # "ready"
      BY <1>2 DEF Plugin, volumePlugins, awsEBSPlugin, CloudPlugin, AwsSnapshots, convertAWSStatus,
                AwsCreateSnapshot, States
    <3>3. Plugin.describes["gone"] # "ready"
      BY <1>2 DEF Plugin, volumePlugins, awsEBSPlugin, CloudPlugin, AwsSnapshots, convertAWSStatus,
                AwsCreateSnapshot, States
    <3>4. QED
      BY <3>1, <3>2, <3>3
  <2>5. QED
    BY <2>1, <2>2, <2>3, <2>4
<1>3. CASE plugin = "gce-pd"
  <2>1. plugin \notin LocalPlugins
    BY <1>3 DEF LocalPlugins
  <2>2. Plugin.begins = {"pending", "ready"}
    BY <1>3 DEF Plugin, volumePlugins, gcePersistentDiskPlugin, GCEPersistentDisk, CloudPlugin,
              GceSnapshots, convertGCEStatus, GceCreateSnapshot
  <2>3. Plugin.told["pending"] # "ready"
    BY <1>3 DEF Plugin, volumePlugins, gcePersistentDiskPlugin, GCEPersistentDisk, CloudPlugin,
              GceSnapshots, convertGCEStatus, GceCreateSnapshot, States
  <2>4. \A s \in {"pending", "error", "gone"} : Plugin.describes[s] # "ready"
    <3>1. Plugin.describes["pending"] # "ready"
      BY <1>3 DEF Plugin, volumePlugins, gcePersistentDiskPlugin, GCEPersistentDisk, CloudPlugin,
                GceSnapshots, convertGCEStatus, GceCreateSnapshot, States
    <3>2. Plugin.describes["error"] # "ready"
      BY <1>3 DEF Plugin, volumePlugins, gcePersistentDiskPlugin, GCEPersistentDisk, CloudPlugin,
                GceSnapshots, convertGCEStatus, GceCreateSnapshot, States
    <3>3. Plugin.describes["gone"] # "ready"
      BY <1>3 DEF Plugin, volumePlugins, gcePersistentDiskPlugin, GCEPersistentDisk, CloudPlugin,
                GceSnapshots, convertGCEStatus, GceCreateSnapshot, States
    <3>4. QED
      BY <3>1, <3>2, <3>3
  <2>5. QED
    BY <2>1, <2>2, <2>3, <2>4
<1>4. CASE plugin = "cinder"
  <2>1. plugin \notin LocalPlugins
    BY <1>4 DEF LocalPlugins
  <2>2. Plugin.begins = {"pending", "ready"}
    BY <1>4 DEF Plugin, volumePlugins, cinderPlugin, Cinder, CloudPlugin, CinderSnapshots,
              convertSnapshotStatus, CinderCreateSnapshot
  <2>3. Plugin.told["pending"] # "ready"
    BY <1>4 DEF Plugin, volumePlugins, cinderPlugin, Cinder, CloudPlugin, CinderSnapshots,
              convertSnapshotStatus, CinderCreateSnapshot, States
  <2>4. \A s \in {"pending", "error", "gone"} : Plugin.describes[s] # "ready"
    <3>1. Plugin.describes["pending"] # "ready"
      BY <1>4 DEF Plugin, volumePlugins, cinderPlugin, Cinder, CloudPlugin, CinderSnapshots,
                convertSnapshotStatus, CinderCreateSnapshot, States
    <3>2. Plugin.describes["error"] # "ready"
      BY <1>4 DEF Plugin, volumePlugins, cinderPlugin, Cinder, CloudPlugin, CinderSnapshots,
                convertSnapshotStatus, CinderCreateSnapshot, States
    <3>3. Plugin.describes["gone"] # "ready"
      BY <1>4 DEF Plugin, volumePlugins, cinderPlugin, Cinder, CloudPlugin, CinderSnapshots,
                convertSnapshotStatus, CinderCreateSnapshot, States
    <3>4. QED
      BY <3>1, <3>2, <3>3
  <2>5. QED
    BY <2>1, <2>2, <2>3, <2>4
<1>5. QED
  BY <1>1, <1>2, <1>3, <1>4, SnapshotAssumption DEF LocalPlugins, CloudPlugins

LEMMA InitIntact == Init => Intact
BY DEF Init, Intact, LocalDone

LEMMA LocalDoneStep ==
  ASSUME Typed, LocalDone, [Next]_vars
  PROVE  LocalDone'
<1>0. plugin \in Plugins
  BY DEF Typed, TypeOK, ApiOK
<1>1. CASE Settle
  BY <1>1 DEF Settle, LocalDone
<1>2. CASE \E u \in Uids : takeSnapshot(u)
  <2>1. plugin' = plugin
    BY <1>2 DEF takeSnapshot, Fail, Step
  <2>2. PICK u \in Uids, status \in Plugin.begins :
          snaps' \subseteq snaps \cup {[n |-> create[u].n, of |-> create[u].vs.uid, status |-> status]}
    BY <1>2 DEF takeSnapshot
  <2>3. plugin \in LocalPlugins => status = "ready"
    BY <1>0, <2>2, PluginKnows
  <2>4. QED
    BY <2>1, <2>2, <2>3 DEF LocalDone
<1>3. CASE \E u \in Uids : Deleting(u)
  BY <1>3 DEF Deleting, GetDataToDelete, deleteSnapshot, DeleteData, DelGoto, DelStep, LocalDone
<1>4. CASE \E u \in Uids : Creating(u) /\ ~takeSnapshot(u)
  <2>1. snaps' = snaps
    BY <1>4 DEF Creating, AddKnown, FindData, SearchSnapshot, RebindData,
       updateVolumeSnapshotMetadata, createVolumeSnapshotData,
       bindandUpdateVolumeSnapshot, GetData, DescribeSnapshot, UpdateVolumeSnapshotStatus,
       propagateVolumeSnapshotCondition, backVars
  <2>2. plugin' = plugin
    BY <1>4, CreatingFrame
  <2>3. QED
    BY <2>1, <2>2 DEF LocalDone
<1>5. CASE \/ CreateObject \/ DeleteObject \/ DeleteClaim \/ Informer \/ ListSnapshots
           \/ findAndAddActiveSnapshots \/ Crash \/ UNCHANGED vars
           \/ \E u \in Uids : findAndRemoveDeletedSnapshots(u) \/ Reconcile(u)
  BY <1>5 DEF CreateObject, DeleteObject, DeleteClaim, Informer, onSnapshotAdd,
     onSnapshotUpdate, onSnapshotDelete, ListSnapshots, findAndAddActiveSnapshots, Crash, vars,
     findAndRemoveDeletedSnapshots, Reconcile, GetActual, GetDesired, DeleteVolumeSnapshot,
     CreateVolumeSnapshot, backVars, LocalDone
<1>6. QED
  BY <1>1, <1>2, <1>3, <1>4, <1>5 DEF Next

(* A step that is not one of a create operation.                           *)
LEMMA IntactElsewhere ==
  ASSUME NameUsedOnce, Typed, Watched, Intact,
         \/ CreateObject \/ DeleteObject \/ DeleteClaim \/ Settle
         \/ Informer \/ ListSnapshots \/ findAndAddActiveSnapshots
         \/ \E u \in Uids : findAndRemoveDeletedSnapshots(u) \/ Reconcile(u) \/ Deleting(u)
         \/ Crash \/ UNCHANGED vars,
         api' # Nothing
  PROVE  CopiesFit(api.data)' /\ DataFit' /\ \A u \in Uids : OperationFits(create[u])'
<1>0. /\ Nothing.data = 0 /\ Nothing.status = "new" /\ NoCreate.pc = "idle"
  BY NothingFits DEF Nothing
<1>1. CASE CreateObject
  <2>1. Unborn /\ datas' = {} /\ snaps' = {} /\ create' = create
    BY <1>1, OneObject DEF CreateObject, Watched, NameUsedOnce, backVars, opVars, Unborn, Typed, TypeOK, ApiOK
  <2>2. api'.data = 0 /\ api'.status = "new"
    BY <1>1 DEF CreateObject, Nothing
  <2>3. CopiesFit(0)
    BY <2>1, NothingFits DEF Unborn, Unknown, CopiesFit
  <2>4. CopiesFit(0)'
    BY <1>1, <2>3, CopiesKept
  <2>5. CopiesFit(api.data)'
    BY <2>2, <2>4 DEF CopiesFit
  <2>6. QED
    BY <1>0, <2>1, <2>2, <2>5 DEF DataFit, OperationFits, Unborn, Unknown
<1>2. CASE ~CreateObject
  <2>1. api' = api /\ api # Nothing
    BY <1>2 DEF DeleteObject, DeleteClaim, Settle, Informer, onSnapshotAdd,
         onSnapshotUpdate, onSnapshotDelete, ListSnapshots, findAndAddActiveSnapshots, Crash, vars,
         findAndRemoveDeletedSnapshots, Reconcile, GetActual, GetDesired, DeleteVolumeSnapshot,
         CreateVolumeSnapshot, Deleting, GetDataToDelete, deleteSnapshot, DeleteData, DelStep,
         DelGoto, apiVars
  <2>2. \A u \in Uids : ~Deleting(u)
    BY <2>1, DeletingFrame DEF Watched, Seen
  <2>3. CopiesFit(api.data)'
    BY <2>1, CopiesKept DEF Intact, CopiesFit
  <2>4. datas' = datas
    BY <1>2, <2>2 DEF DeleteObject, DeleteClaim, Settle, Informer, onSnapshotAdd,
         onSnapshotUpdate, onSnapshotDelete, ListSnapshots, findAndAddActiveSnapshots, Crash, vars,
         findAndRemoveDeletedSnapshots, Reconcile, GetActual, GetDesired, DeleteVolumeSnapshot,
         CreateVolumeSnapshot, backVars
  <2>5. /\ \A s \in snaps : \E t \in snaps' : t.n = s.n
        /\ \A n : Done(n) => Done(n)'
    <3>1. CASE Settle
      <4>1. PICK r \in snaps, status \in {"ready", "error"} :
               /\ snaps' = (snaps \ {r}) \cup {[r EXCEPT !.status = status]}
               /\ r.status = "pending"
        BY <3>1 DEF Settle
      <4>2. [r EXCEPT !.status = status].n = r.n
        BY DEF Typed, TypeOK, BackendOK, BackendSnapshots
      <4>3. \A s \in snaps : \E t \in snaps' : t.n = s.n
        BY <4>1, <4>2
      <4>4. \A s \in snaps : s.status = "ready" => s \in snaps'
        BY <4>1
      <4>5. QED
        BY <4>3, <4>4 DEF Done
    <3>2. CASE ~Settle
      <4>1. snaps' = snaps
        BY <1>2, <2>2, <3>2 DEF DeleteObject, DeleteClaim, Informer, onSnapshotAdd,
         onSnapshotUpdate, onSnapshotDelete, ListSnapshots, findAndAddActiveSnapshots, Crash, vars,
         findAndRemoveDeletedSnapshots, Reconcile, GetActual, GetDesired, DeleteVolumeSnapshot,
         CreateVolumeSnapshot, backVars
      <4>2. QED
        BY <4>1 DEF Done
    <3>3. QED
      BY <3>1, <3>2
  <2>6. DataFit'
    BY <2>1, <2>4, <2>5 DEF Intact, DataFit
  <2>7. \A u \in Uids :
          \/ create'[u] = create[u]
          \/ create'[u] = NoCreate
          \/ create'[u] = Begun(wanted[u]) /\ wanted[u].status \in DOMAIN syncSnapshot
    BY <1>2, <2>2 DEF DeleteObject, DeleteClaim, Settle, Informer, onSnapshotAdd,
         onSnapshotUpdate, onSnapshotDelete, ListSnapshots, findAndAddActiveSnapshots, Crash, vars,
         findAndRemoveDeletedSnapshots, Reconcile, GetActual, GetDesired, DeleteVolumeSnapshot,
         CreateVolumeSnapshot, opVars, Typed, TypeOK, OperationsOK
  <2>8. ASSUME NEW u \in Uids PROVE OperationFits(create[u])'
    <3>1. CASE create'[u] = create[u]
      BY <2>1, <2>4, <2>5, <3>1 DEF Intact, OperationFits
    <3>2. CASE create'[u] = NoCreate
      BY <1>0, <3>2 DEF OperationFits
    <3>3. CASE create'[u] = Begun(wanted[u]) /\ wanted[u].status \in DOMAIN syncSnapshot
      <4>1. /\ Begun(wanted[u]).pc \in {"find", "known", "getdata"}
            /\ Begun(wanted[u]).pc = "getdata" => wanted[u].status = "pending"
            /\ Begun(wanted[u]).vs = wanted[u]
        BY <3>3 DEF Begun, NoCreate, syncSnapshot
      <4>2. wanted[u].status = "pending" => wanted[u].data # 0
        BY <2>1 DEF Intact, CopiesFit, Fits
      <4>3. QED
        BY <3>3, <4>1, <4>2 DEF OperationFits
    <3>4. QED
      BY <2>7, <3>1, <3>2, <3>3
  <2>9. QED
    BY <2>3, <2>6, <2>8
<1>3. QED
  BY <1>1, <1>2

(* The fields of an operation that took a step.                            *)
LEMMA OperationStep ==
  ASSUME Typed, Uids = {1}, NEW op, Step(1, op)
  PROVE  /\ create'[1] = op
         /\ UNCHANGED <<store, listed, dsw, wanted, held>>
<1>1. create \in [Uids -> Creates]
  BY DEF Typed, TypeOK, OperationsOK
<1>2. QED
  BY <1>1 DEF Step, cacheVars, loopVars

(* A step of the operation leaves versions that fit.                       *)
LEMMA CopiesStep ==
  ASSUME Typed, Uids = {1}, NEW op, Step(1, op), NEW n,
         api.data \in {0, n}, CopiesFit(api.data), Fits(api', n), Fits(asw'[1], n),
         Fits(op.obj, n), Fits(op.vs, n), Fits(op.new, n)
  PROVE  CopiesFit(n)'
<1>1. \A o : Fits(o, api.data) => Fits(o, n)
  BY DEF Fits
<1>2. QED
  BY <1>1, OperationStep DEF CopiesFit

(* The versions that an operation, having taken a step, has in hand.       *)
LEMMA NextFits ==
  ASSUME NEW c \in Creates, NEW n, NEW pc \in CreateSteps, NEW k, NEW cond
  PROVE  LET a == [c EXCEPT !.pc = pc]
             b == [c EXCEPT !.pc = pc, !.cond = cond]
             d == [c EXCEPT !.pc = pc, !.n = k]
             e == [c EXCEPT !.pc = pc, !.obj = Nothing, !.n = k]
             f == [c EXCEPT !.pc = pc, !.obj = Nothing, !.vs = Nothing]
             g == [c EXCEPT !.pc = pc, !.new = Nothing]
         IN  /\ a.pc = pc /\ a.obj = c.obj /\ a.vs = c.vs /\ a.new = c.new /\ a.n = c.n /\ a.cond = c.cond
             /\ b.pc = pc /\ b.obj = c.obj /\ b.vs = c.vs /\ b.new = c.new /\ b.n = c.n /\ b.cond = cond
             /\ d.pc = pc /\ d.obj = c.obj /\ d.vs = c.vs /\ d.new = c.new /\ d.n = k /\ d.cond = c.cond
             /\ e.pc = pc /\ e.obj = Nothing /\ e.vs = c.vs /\ e.new = c.new /\ e.n = k
             /\ f.pc = pc /\ f.obj = Nothing /\ f.vs = Nothing /\ f.new = c.new /\ f.n = c.n
             /\ g.pc = pc /\ g.obj = c.obj /\ g.vs = c.vs /\ g.new = Nothing /\ g.n = c.n /\ g.cond = c.cond
BY DEF Creates

(* What a PUT of the VolumeSnapshot comes to.                              *)
LEMMA PutSteps ==
  ASSUME NEW new, NEW op, api # Nothing, PutObject(1, new, op)
  PROVE  \/ api' = new /\ Step(1, op)
         \/ api' \in {api, new} /\ Step(1, NoCreate)
BY DEF PutObject, Fail

LEMMA FinishSteps ==
  ASSUME NEW new, Typed, Uids = {1}, Finish(1, new)
  PROVE  /\ \/ Step(1, NoCreate)
            \/ Step(1, [create[1] EXCEPT !.pc = "describe", !.new = Nothing])
         /\ asw'[1] \in {asw[1], new}
<1>1. asw \in [Uids -> VolumeSnapshots]
  BY DEF Typed, TypeOK, WorldsOK
<1>2. QED
  BY <1>1 DEF Finish, Fail

LEMMA IdleFits == OperationFits(NoCreate)
BY DEF NoCreate, OperationFits

(* A step of the create operation; two versions of the VolumeSnapshot may  *)
(* differ in the data object that they name, if the older names none.      *)
LEMMA IntactCreating ==
  ASSUME NameUsedOnce, Typed, Typed', Watched, Intact, ListsAnswered, Creating(1), api' # Nothing
  PROVE  CopiesFit(api.data)' /\ DataFit' /\ OperationFits(create[1])'
<1> DEFINE c == create[1]
<1>0. /\ Uids = {1} /\ plugin \in Plugins
      /\ c \in Creates /\ NoCreate.pc = "idle"
      /\ api \in VolumeSnapshots /\ datas \subseteq VolumeSnapshotDatas
      /\ snaps \subseteq BackendSnapshots
  BY OneUid, NothingFits DEF Typed, TypeOK, ApiOK, OperationsOK, BackendOK
<1>1. /\ api # Nothing /\ CopiesFit(api.data) /\ DataFit /\ OperationFits(c) /\ LocalDone
  BY <1>0, CreatingFrame DEF Intact
<1>2. /\ Fits(api, api.data) /\ Fits(asw[1], api.data) /\ Fits(c.obj, api.data)
      /\ Fits(c.vs, api.data) /\ Fits(c.new, api.data)
      /\ \A o : Fits(o, 0) => \A n : Fits(o, n)
      /\ \A n : Fits(Nothing, n) /\ Fits(NoCreate.obj, n) /\ Fits(NoCreate.vs, n) /\ Fits(NoCreate.new, n)
  <2>1. \A o : Fits(o, 0) => \A n : Fits(o, n)
    BY DEF Fits
  <2>2. QED
    BY <1>0, <1>1, <2>1, NothingFits DEF CopiesFit
<1>3. /\ \A d \in datas : d.n \in Tries /\ d.n # 0 /\ d.of = 1
      /\ 0 \notin Tries /\ api.data \in {0} \cup Tries
  BY <1>0, Numbers, Version DEF VolumeSnapshotDatas
<1>4. /\ \A d \in datas : api.data \in {0, d.n}
      /\ datas = {} => api.data = 0 /\ api.status = "new"
  BY <1>1, <1>2 DEF DataFit, Fits
<1>0a. ASSUME NEW t \in {0} \cup Tries, NEW s \in Statuses
       PROVE  /\ [api EXCEPT !.data = t].data = t /\ [api EXCEPT !.data = t].status = api.status
              /\ t # 0 => Fits([api EXCEPT !.data = t], t)
              /\ [api EXCEPT !.data = t, !.status = s].data = t
              /\ [api EXCEPT !.data = t, !.status = s].status = s
              /\ t # 0 => Fits([api EXCEPT !.data = t, !.status = s], t)
              /\ Fits([api EXCEPT !.tag = t], api.data)
              /\ [api EXCEPT !.tag = t].data = api.data /\ [api EXCEPT !.tag = t].status = api.status
              /\ api.data # 0 => Fits([api EXCEPT !.status = s], api.data)
              /\ [api EXCEPT !.status = s].data = api.data /\ [api EXCEPT !.status = s].status = s
  <2>1. api \in [uid : Uids, tag : {0} \cup Tries, data : {0} \cup Tries, status : Statuses]
    BY <1>0, <1>1 DEF VolumeSnapshots
  <2>2. QED
    BY <1>2, <2>1 DEF Fits
<1>00. "new" \in Statuses /\ "ready" \in Statuses
  BY DEF Statuses
<1>0b. ASSUME NEW n, api.data \in {0, n}, NEW op, Step(1, op), Fits(api', n), asw'[1] = asw[1],
              Fits(op.obj, n), Fits(op.vs, n), Fits(op.new, n)
       PROVE  CopiesFit(n)'
  <2>1. \A o : Fits(o, api.data) => Fits(o, n)
    BY <1>0b DEF Fits
  <2>2. QED
    BY <1>0, <1>1, <1>2, <1>0b, <2>1, CopiesStep
<1>5. ASSUME NEW op, Step(1, op), api' = api, asw'[1] = asw[1],
             Fits(op.obj, api.data), Fits(op.vs, api.data), Fits(op.new, api.data)
      PROVE  CopiesFit(api.data)'
  BY <1>0, <1>1, <1>2, <1>5, CopiesStep
<1>6. CASE AddKnown(1)
  <2>1. Step(1, NoCreate) /\ UNCHANGED <<api, datas, snaps>> /\ asw' = [asw EXCEPT ![1] = c.obj]
    BY <1>6 DEF AddKnown, Fail, backVars
  <2>2. asw'[1] = c.obj /\ create'[1] = NoCreate
    BY <1>0, <2>1, OperationStep DEF Typed, TypeOK, WorldsOK
  <2>3. CopiesFit(api.data)'
    BY <1>0, <1>1, <1>2, <2>1, <2>2, CopiesStep
  <2>4. QED
    BY <1>1, <2>1, <2>2, <2>3, IdleFits DEF DataFit, Done, OperationFits
<1>7. CASE FindData(1)
  <2>1. UNCHANGED <<api, asw, datas, snaps>>
    BY <1>7 DEF FindData, backVars
  <2>2. CASE \E d \in datas :
               Step(1, [create[1] EXCEPT !.pc = "rebind", !.obj = Nothing, !.n = d.n])
    <3>1. PICK d \in datas :
            Step(1, [create[1] EXCEPT !.pc = "rebind", !.obj = Nothing, !.n = d.n])
      BY <2>2
    <3> DEFINE op == [create[1] EXCEPT !.pc = "rebind", !.obj = Nothing, !.n = d.n]
    <3>2. op.pc = "rebind" /\ op.obj = Nothing /\ op.vs = c.vs /\ op.new = c.new /\ op.n = d.n
      BY <1>0 DEF Creates
    <3>3. create'[1] = op /\ CopiesFit(api.data)'
      BY <1>0, <1>2, <1>5, <2>1, <3>1, <3>2, OperationStep
    <3>4. QED
      BY <1>1, <2>1, <3>2, <3>3 DEF DataFit, Done, OperationFits
  <2>3. CASE Goto(1, "search") /\ At(1, "find")
    <3> DEFINE op == [create[1] EXCEPT !.pc = "search"]
    <3>1. op.pc = "search" /\ op.obj = c.obj /\ op.vs = c.vs /\ op.new = c.new
      BY <1>0 DEF Creates
    <3>2. create'[1] = op /\ CopiesFit(api.data)'
      BY <1>0, <1>2, <1>5, <2>1, <2>3, <3>1, OperationStep DEF Goto
    <3>3. datas = {}
      BY <1>0, <1>3, <2>3, <3>1, <3>2 DEF ListsAnswered
    <3>4. QED
      BY <1>1, <2>1, <3>1, <3>2, <3>3 DEF DataFit, Done, OperationFits
  <2>4. QED
    BY <1>7, <2>2, <2>3 DEF FindData
<1>8. CASE SearchSnapshot(1)
  <2>1. UNCHANGED <<api, asw, datas, snaps>> /\ c.pc = "search"
    BY <1>8 DEF SearchSnapshot, backVars, At
  <2> DEFINE op == [create[1] EXCEPT !.pc = "label", !.obj = Nothing, !.vs = Nothing]
  <2>2. op.pc = "label" /\ op.obj = Nothing /\ op.vs = Nothing /\ op.new = c.new
    BY <1>0 DEF Creates
  <2>3. Step(1, op) \/ Step(1, NoCreate)
    BY <1>8 DEF SearchSnapshot, Fail
  <2>4. create'[1] \in {op, NoCreate} /\ CopiesFit(api.data)'
    BY <1>0, <1>2, <1>5, <2>1, <2>2, <2>3, OperationStep
  <2>5. datas = {}
    BY <1>1, <2>1 DEF OperationFits
  <2>6. QED
    BY <1>1, <2>1, <2>2, <2>4, <2>5, IdleFits DEF DataFit, Done, OperationFits
<1>9. CASE RebindData(1)
  <2> DEFINE new == [api EXCEPT !.data = c.n]
             op == [c EXCEPT !.pc = "getdata", !.vs = new]
  <2>1. UNCHANGED <<asw, datas, snaps>> /\ c.pc = "rebind" /\ PutObject(1, new, op)
    BY <1>9 DEF RebindData, backVars, At
  <2>2. PICK d \in datas : d.n = c.n
    BY <1>1, <2>1 DEF OperationFits
  <2>3. c.n \in Tries /\ c.n # 0 /\ api.data \in {0, c.n} /\ d.n = c.n
    BY <1>3, <1>4, <2>2
  <2>4. Fits(new, c.n) /\ new.data = c.n /\ new.status = api.status
    BY <1>00, <1>0a, <2>3
  <2>5. op.pc = "getdata" /\ op.obj = c.obj /\ op.vs = new /\ op.new = c.new
    BY <1>0 DEF Creates
  <2>6. CASE api' = api /\ Step(1, NoCreate)
    <3>1. CopiesFit(api.data)'
      BY <1>2, <1>5, <2>1, <2>6
    <3>2. QED
      BY <1>0, <1>1, <2>1, <2>6, <3>1, OperationStep, IdleFits DEF DataFit, Done, OperationFits
  <2>7. CASE api' = new /\ (Step(1, NoCreate) \/ Step(1, op))
    <3>1. \A o : Fits(o, api.data) => Fits(o, d.n)
      BY <1>2, <2>2, <2>3
    <3>2. CopiesFit(d.n)'
      <4>1. CASE Step(1, NoCreate)
        BY <1>2, <1>0b, <2>1, <2>2, <2>3, <2>4, <2>7, <4>1
      <4>2. CASE Step(1, op)
        <5>1. Fits(op.obj, d.n) /\ Fits(op.vs, d.n) /\ Fits(op.new, d.n) /\ Fits(api', d.n) /\ asw'[1] = asw[1]
          BY <1>2, <2>1, <2>2, <2>4, <2>5, <2>7, <3>1
        <5> HIDE DEF op, new, c
        <5>2. QED
          BY <1>0b, <2>2, <2>3, <4>2, <5>1
      <4>3. QED
        BY <2>7, <4>1, <4>2
    <3>3. create'[1] \in {NoCreate, op}
      BY <1>0, <2>7, OperationStep
    <3>4. DataFit'
      <4>1. api.status = "ready" => api.data = d.n
        BY <1>2, <2>2, <2>3 DEF Fits
      <4>2. QED
        BY <1>1, <2>1, <2>2, <2>4, <2>7, <4>1 DEF DataFit, Done
    <3>5. OperationFits(create[1])'
      BY <1>0, <2>2, <2>3, <2>4, <2>5, <2>7, <3>3 DEF OperationFits
    <3>6. api'.data = d.n
      BY <2>2, <2>4, <2>7
    <3>7. QED
      BY <3>2, <3>4, <3>5, <3>6 DEF CopiesFit
  <2>8. QED
    BY <1>1, <2>1, <2>6, <2>7, PutSteps
<1>10. CASE updateVolumeSnapshotMetadata(1)
  <2> DEFINE new == [api EXCEPT !.tag = tries + 1]
             op == [c EXCEPT !.pc = "take", !.vs = new, !.n = tries + 1]
  <2>1. UNCHANGED <<asw, datas, snaps>> /\ c.pc = "label"
    BY <1>10 DEF updateVolumeSnapshotMetadata, At
  <2>2. datas = {} /\ api.data = 0 /\ api.status = "new"
    BY <1>1, <1>4, <2>1 DEF OperationFits
  <2>3. /\ api' = api \/ (api' = new /\ tries + 1 \in Tries)
        /\ Step(1, NoCreate) \/ (Step(1, op) /\ tries + 1 \in Tries)
    <3>1. tries < MaxTries => tries + 1 \in Tries
      BY SnapshotAssumption DEF Typed, TypeOK, BackendOK, Tries
    <3>2. QED
      BY <1>1, <1>10, <3>1, PutSteps DEF updateVolumeSnapshotMetadata, Fail
  <2>4. tries + 1 \in Tries => Fits(new, 0) /\ new.data = 0 /\ new.status = "new"
    BY <1>00, <1>0a, <2>2
  <2>5. op.pc = "take" /\ op.obj = c.obj /\ op.vs = new /\ op.new = c.new
    BY <1>0 DEF Creates
  <2>6. api'.data = 0 /\ api'.status = "new" /\ Fits(api', 0)
    BY <1>2, <2>2, <2>3, <2>4
  <2>7. CopiesFit(0)'
    <3>1. CASE Step(1, NoCreate)
      BY <1>2, <1>0b, <2>1, <2>2, <2>6, <3>1
    <3>2. CASE Step(1, op) /\ tries + 1 \in Tries
      <4>1. Fits(op.obj, 0) /\ Fits(op.vs, 0) /\ Fits(op.new, 0) /\ asw'[1] = asw[1]
        BY <1>2, <2>1, <2>2, <2>4, <2>5, <3>2
      <4> HIDE DEF op, new, c
      <4>2. QED
        BY <1>0b, <2>2, <2>6, <3>2, <4>1
    <3>3. QED
      BY <2>3, <3>1, <3>2
  <2>8. create'[1] \in {NoCreate, op}
    BY <1>0, <2>3, OperationStep
  <2>9. QED
    BY <1>1, <2>1, <2>2, <2>5, <2>6, <2>7, <2>8, IdleFits DEF DataFit, Done, OperationFits, CopiesFit
<1>11. CASE takeSnapshot(1)
  <2>1. UNCHANGED <<api, asw, datas>> /\ c.pc = "take" /\ snaps \subseteq snaps'
    BY <1>11 DEF takeSnapshot, At
  <2>2. datas = {}
    BY <1>1, <2>1 DEF OperationFits
  <2>3. DataFit'
    BY <1>4, <2>1, <2>2 DEF DataFit, Done
  <2>4. CASE Step(1, NoCreate)
    <3>1. create'[1] = NoCreate /\ CopiesFit(api.data)'
      BY <1>0, <1>2, <1>5, <2>1, <2>4, OperationStep
    <3>2. QED
      BY <1>0, <2>3, <3>1 DEF OperationFits
  <2>5. CASE \E status \in Plugin.begins :
               /\ snaps' = snaps \cup {[n |-> c.n, of |-> c.vs.uid, status |-> status]}
               /\ Step(1, [c EXCEPT !.pc = "post", !.cond = Plugin.told[status]])
    <3>1. PICK status \in Plugin.begins :
            /\ snaps' = snaps \cup {[n |-> c.n, of |-> c.vs.uid, status |-> status]}
            /\ Step(1, [c EXCEPT !.pc = "post", !.cond = Plugin.told[status]])
      BY <2>5
    <3> DEFINE op == [c EXCEPT !.pc = "post", !.cond = Plugin.told[status]]
               s == [n |-> c.n, of |-> c.vs.uid, status |-> status]
    <3>2. /\ op.pc = "post" /\ op.obj = c.obj /\ op.vs = c.vs /\ op.new = c.new /\ op.n = c.n
          /\ op.cond = Plugin.told[status]
      BY <1>0 DEF Creates
    <3>3. create'[1] = op /\ CopiesFit(api.data)'
      BY <1>0, <1>2, <1>5, <2>1, <3>1, <3>2, OperationStep
    <3>4. op.cond = "ready" => status = "ready"
      BY <1>0, <3>1, <3>2, PluginKnows
    <3>5. s \in snaps' /\ s.n = op.n /\ s.status = status
      BY <3>1, <3>2
    <3>6. /\ \E r \in snaps' : r.n = op.n
          /\ op.cond = "ready" => \E r \in snaps' : r.n = op.n /\ r.status = "ready"
      BY <3>4, <3>5
    <3>7. OperationFits(create[1])'
      BY <2>1, <2>2, <3>2, <3>3, <3>6 DEF OperationFits, Done
    <3>8. QED
      BY <2>3, <3>3, <3>7
  <2>6. QED
    BY <1>11, <2>4, <2>5 DEF takeSnapshot, Fail
<1>12. CASE createVolumeSnapshotData(1)
  <2> DEFINE p == [n |-> c.n, of |-> 1, status |-> c.cond]
             op == [c EXCEPT !.pc = "bind"]
  <2>1. UNCHANGED <<api, asw, snaps>> /\ c.pc = "post" /\ datas' \in {datas, datas \cup {p}}
    BY <1>12 DEF createVolumeSnapshotData, At
  <2>2. datas = {} /\ api.data = 0 /\ api.status = "new" /\ \E s \in snaps : s.n = p.n
    BY <1>1, <1>4, <2>1 DEF OperationFits
  <2>3. DataFit'
    BY <2>1, <2>2 DEF DataFit, Done
  <2>4. CASE Step(1, NoCreate)
    <3>1. create'[1] = NoCreate /\ CopiesFit(api.data)'
      BY <1>0, <1>2, <1>5, <2>1, <2>4, OperationStep
    <3>2. QED
      BY <1>0, <2>3, <3>1 DEF OperationFits
  <2>5. CASE Step(1, op) /\ datas' = datas \cup {p}
    <3>1. /\ op.pc = "bind" /\ op.obj = c.obj /\ op.vs = c.vs /\ op.new = c.new /\ op.n = c.n
          /\ op.cond = c.cond
      BY <1>0 DEF Creates
    <3>2. create'[1] = op /\ CopiesFit(api.data)'
      BY <1>0, <1>2, <1>5, <2>1, <2>5, <3>1, OperationStep
    <3>3. op.cond = "ready" => \E r \in snaps' : r.n = op.n /\ r.status = "ready"
      BY <1>1, <2>1, <3>1 DEF OperationFits, Done
    <3>4. \E d \in datas' : d.n = op.n
      BY <2>5, <3>1
    <3>5. OperationFits(create[1])'
      BY <3>1, <3>2, <3>3, <3>4 DEF OperationFits, Done
    <3>6. QED
      BY <2>3, <3>2, <3>5
  <2>6. QED
    BY <1>12, <2>4, <2>5 DEF createVolumeSnapshotData, Fail, Goto
<1>13. CASE bindandUpdateVolumeSnapshot(1)
  <2> DEFINE new == [api EXCEPT !.data = c.n, !.status = c.cond]
             op == [c EXCEPT !.pc = "describe", !.vs = new]
  <2>1. UNCHANGED <<asw, datas, snaps>> /\ c.pc = "bind" /\ PutObject(1, new, op)
    BY <1>13 DEF bindandUpdateVolumeSnapshot, backVars, At
  <2>2. PICK d \in datas : d.n = c.n
    BY <1>1, <2>1 DEF OperationFits
  <2>3. c.n \in Tries /\ c.n # 0 /\ api.data \in {0, c.n} /\ d.n = c.n /\ c.cond \in Statuses
    BY <1>0, <1>3, <1>4, <2>2 DEF Creates
  <2>4. Fits(new, c.n) /\ new.data = c.n /\ new.status = c.cond
    BY <1>0a, <2>3
  <2>5. op.pc = "describe" /\ op.obj = c.obj /\ op.vs = new /\ op.new = c.new /\ op.n = c.n
    BY <1>0 DEF Creates
  <2>6. CASE api' = api /\ Step(1, NoCreate)
    <3>1. create'[1] = NoCreate /\ CopiesFit(api.data)'
      BY <1>0, <1>2, <1>5, <2>1, <2>6, OperationStep
    <3>2. QED
      BY <1>0, <1>1, <2>1, <2>6, <3>1 DEF DataFit, Done, OperationFits
  <2>7. CASE api' = new /\ (Step(1, NoCreate) \/ Step(1, op))
    <3>1. \A o : Fits(o, api.data) => Fits(o, d.n)
      BY <1>2, <2>2, <2>3
    <3>2. CopiesFit(d.n)'
      <4>1. CASE Step(1, NoCreate)
        BY <1>2, <1>0b, <2>1, <2>2, <2>3, <2>4, <2>7, <4>1
      <4>2. CASE Step(1, op)
        <5>1. Fits(op.obj, d.n) /\ Fits(op.vs, d.n) /\ Fits(op.new, d.n) /\ Fits(api', d.n) /\ asw'[1] = asw[1]
          BY <1>2, <2>1, <2>2, <2>4, <2>5, <2>7, <3>1
        <5> HIDE DEF op, new, c
        <5>2. QED
          BY <1>0b, <2>2, <2>3, <4>2, <5>1
      <4>3. QED
        BY <2>7, <4>1, <4>2
    <3>3. create'[1] \in {NoCreate, op}
      BY <1>0, <2>7, OperationStep
    <3>4. DataFit'
      <4>1. c.cond = "ready" => Done(d.n)
        BY <1>1, <2>1, <2>3 DEF OperationFits
      <4>2. QED
        BY <1>1, <2>1, <2>2, <2>4, <2>7, <4>1 DEF DataFit, Done
    <3>5. OperationFits(create[1])'
      BY <1>0, <2>2, <2>3, <2>4, <2>5, <2>7, <3>3 DEF OperationFits
    <3>6. api'.data = d.n
      BY <2>2, <2>4, <2>7
    <3>7. QED
      BY <3>2, <3>4, <3>5, <3>6 DEF CopiesFit
  <2>8. QED
    BY <1>1, <2>1, <2>6, <2>7, PutSteps
<1>14. CASE GetData(1)
  <2> DEFINE op == [c EXCEPT !.pc = "describe", !.n = c.vs.data]
  <2>1. UNCHANGED <<api, asw, datas, snaps>> /\ c.pc = "getdata"
    BY <1>14 DEF GetData, backVars, At
  <2>2. op.pc = "describe" /\ op.obj = c.obj /\ op.vs = c.vs /\ op.new = c.new /\ op.n = c.vs.data
    BY <1>0 DEF Creates
  <2>3. c.vs.data # 0 /\ c.vs.data = api.data
    BY <1>1, <1>2, <2>1 DEF OperationFits, Fits
  <2>4. Step(1, op) \/ Step(1, NoCreate)
    BY <1>14 DEF GetData, Fail
  <2>5. create'[1] \in {op, NoCreate} /\ CopiesFit(api.data)'
    BY <1>0, <1>2, <1>5, <2>1, <2>2, <2>4, OperationStep
  <2>6. OperationFits(create[1])'
    BY <1>0, <2>1, <2>2, <2>3, <2>5 DEF OperationFits
  <2>7. QED
    BY <1>1, <2>1, <2>5, <2>6 DEF DataFit, Done
<1>15. CASE DescribeSnapshot(1)
  <2>1. UNCHANGED <<api, asw, datas, snaps>> /\ c.pc = "describe"
    BY <1>15 DEF DescribeSnapshot, backVars, At
  <2>2. c.n # 0 /\ c.n = api.data
    BY <1>1, <2>1 DEF OperationFits
  <2>3. CASE Step(1, NoCreate)
    <3>1. create'[1] = NoCreate /\ CopiesFit(api.data)'
      BY <1>0, <1>2, <1>5, <2>1, <2>3, OperationStep
    <3>2. QED
      BY <1>0, <1>1, <2>1, <3>1 DEF DataFit, Done, OperationFits
  <2>4. CASE \E answer \in Answers(c.n) :
               Step(1, [c EXCEPT !.pc = "update", !.cond = answer])
    <3>1. PICK answer \in Answers(c.n) :
               Step(1, [c EXCEPT !.pc = "update", !.cond = answer])
      BY <2>4
    <3> DEFINE op == [c EXCEPT !.pc = "update", !.cond = answer]
    <3>2. /\ op.pc = "update" /\ op.obj = c.obj /\ op.vs = c.vs /\ op.new = c.new /\ op.n = c.n
          /\ op.cond = answer
      BY <1>0 DEF Creates
    <3>3. create'[1] = op /\ CopiesFit(api.data)'
      BY <1>0, <1>2, <1>5, <2>1, <3>1, <3>2, OperationStep
    <3>4. answer = "ready" => \E r \in snaps : r.n = c.n /\ r.status = "ready"
      <4>1. PICK s \in snaps : s.n = c.n
        BY <1>1, <2>2 DEF DataFit
      <4>2. PICK r \in snaps : r.n = c.n /\ answer = Plugin.describes[r.status]
        BY <3>1, <4>1 DEF Answers
      <4>3. r.status \in {"pending", "ready", "error"}
        BY <1>0 DEF BackendSnapshots, States
      <4>4. CASE plugin \in LocalPlugins
        BY <1>1, <4>2, <4>4 DEF LocalDone
      <4>5. CASE plugin \notin LocalPlugins
        BY <1>0, <4>2, <4>3, <4>5, PluginKnows
      <4>6. QED
        BY <4>4, <4>5
    <3>5. OperationFits(create[1])'
      BY <2>1, <2>2, <3>2, <3>3, <3>4 DEF OperationFits, Done
    <3>6. QED
      BY <1>1, <2>1, <3>3, <3>5 DEF DataFit, Done
  <2>5. QED
    BY <1>15, <2>3, <2>4 DEF DescribeSnapshot, Fail
<1>16. ASSUME NEW new, Finish(1, new), Fits(new, api.data), Fits(api', api.data),
              api'.data = api.data
       PROVE  /\ CopiesFit(api.data)'
              /\ \/ create'[1] = NoCreate
                 \/ create'[1].pc = "describe" /\ create'[1].n = c.n
  <2> DEFINE op == [c EXCEPT !.pc = "describe", !.new = Nothing]
  <2>1. /\ Step(1, NoCreate) \/ Step(1, op)
        /\ asw'[1] \in {asw[1], new}
    BY <1>0, <1>16, FinishSteps
  <2>2. /\ op.pc = "describe" /\ op.obj = c.obj /\ op.vs = c.vs /\ op.new = Nothing /\ op.n = c.n
    BY <1>0 DEF Creates
  <2>3. create'[1] \in {NoCreate, op}
    BY <1>0, <2>1, OperationStep
  <2>4. PICK k : k = api.data
    OBVIOUS
  <2>5. \A q \in {NoCreate, op} : Fits(q.obj, k) /\ Fits(q.vs, k) /\ Fits(q.new, k)
    BY <1>2, <2>2, <2>4
  <2>6. Fits(api', k) /\ Fits(asw'[1], k) /\ api.data \in {0, k} /\ CopiesFit(api.data)
    BY <1>1, <1>2, <1>16, <2>1, <2>4
  <2>7. CopiesFit(k)'
    <3> HIDE DEF op, c
    <3>1. PICK q \in {NoCreate, op} : Step(1, q)
      BY <2>1
    <3>2. QED
      BY <1>0, <2>5, <2>6, <3>1, CopiesStep
  <2>8. QED
    BY <1>16, <2>2, <2>3, <2>4, <2>7 DEF CopiesFit
<1>17. CASE UpdateVolumeSnapshotStatus(1)
  <2> DEFINE new == [api EXCEPT !.status = c.cond]
             op == [c EXCEPT !.pc = "propagate", !.new = new]
  <2>1. UNCHANGED <<datas, snaps>> /\ c.pc = "update" /\ api' \in {api, new}
    BY <1>1, <1>17 DEF UpdateVolumeSnapshotStatus, backVars, At
  <2>2. c.n # 0 /\ c.n = api.data /\ c.cond \in Statuses
    BY <1>0, <1>1, <2>1 DEF OperationFits, Creates
  <2>3. Fits(new, api.data) /\ new.data = api.data /\ new.status = c.cond
    BY <1>0a, <2>2
  <2>4. Fits(api', api.data) /\ api'.data = api.data /\ api'.status \in {api.status, c.cond}
    BY <1>2, <2>1, <2>3
  <2>5. DataFit'
    <3>1. c.cond = "ready" => Done(api.data)
      BY <1>1, <2>1, <2>2 DEF OperationFits
    <3>2. QED
      BY <1>1, <2>1, <2>4, <3>1 DEF DataFit, Done
  <2>6. CASE Step(1, op) /\ api' = new /\ asw' = asw
    <3>1. /\ op.pc = "propagate" /\ op.obj = c.obj /\ op.vs = c.vs /\ op.new = new /\ op.n = c.n
      BY <1>0 DEF Creates
    <3>2. create'[1] = op
      BY <1>0, <2>6, OperationStep
    <3>3. PICK k : k = api.data
      OBVIOUS
    <3>4. Fits(op.obj, k) /\ Fits(op.vs, k) /\ Fits(op.new, k) /\ Fits(api', k) /\ api.data = k
      BY <1>2, <2>3, <2>4, <3>1, <3>3
    <3>5. CopiesFit(k)'
      <4> HIDE DEF op, new, c
      <4>1. QED
        BY <1>0b, <2>6, <3>4
    <3>6. CopiesFit(api.data)'
      BY <2>4, <3>3, <3>5 DEF CopiesFit
    <3>7. OperationFits(create[1])'
      BY <2>2, <2>4, <3>1, <3>2 DEF OperationFits
    <3>8. QED
      BY <2>5, <3>6, <3>7
  <2>7. CASE Finish(1, c.vs) \/ Finish(1, Nothing)
    <3>1. /\ CopiesFit(api.data)'
          /\ \/ create'[1] = NoCreate
             \/ create'[1].pc = "describe" /\ create'[1].n = c.n
      BY <1>2, <1>16, <2>4, <2>7
    <3>2. OperationFits(create[1])'
      BY <1>0, <2>2, <2>4, <3>1 DEF OperationFits
    <3>3. QED
      BY <2>5, <3>1, <3>2
  <2>8. QED
    BY <1>17, <2>6, <2>7 DEF UpdateVolumeSnapshotStatus
<1>18. CASE propagateVolumeSnapshotCondition(1)
  <2> DEFINE told == {IF d.n = c.new.data THEN [d EXCEPT !.status = c.cond] ELSE d : d \in datas}
  <2>1. UNCHANGED <<api, snaps>> /\ c.pc = "propagate" /\ datas' \in {datas, told}
    BY <1>18 DEF propagateVolumeSnapshotCondition, At
  <2>2. c.n # 0 /\ c.n = api.data
    BY <1>1, <2>1 DEF OperationFits
  <2>3. DataFit'
    <3>1. \A d \in datas : [d EXCEPT !.status = c.cond].n = d.n
      BY <1>0 DEF VolumeSnapshotDatas
    <3>2. \A d \in told : \E e \in datas : e.n = d.n
      BY <3>1
    <3>3. ASSUME NEW e \in datas PROVE \E d \in told : e.n = d.n
      <4>1. (IF e.n = c.new.data THEN [e EXCEPT !.status = c.cond] ELSE e) \in told
        OBVIOUS
      <4>2. QED
        BY <3>1, <4>1
    <3> HIDE DEF told
    <3>4. /\ \A d \in datas' : \E e \in datas : e.n = d.n
          /\ \A e \in datas : \E d \in datas' : e.n = d.n
      BY <2>1, <3>2, <3>3
    <3>5. \A d, e \in datas' : d.n = e.n
      BY <1>1, <3>4 DEF DataFit
    <3>6. \A d \in datas' : \E s \in snaps' : s.n = d.n
      BY <1>1, <2>1, <3>4 DEF DataFit
    <3>7. api'.data # 0 => \E d \in datas' : d.n = api'.data
      BY <1>1, <2>1, <3>4 DEF DataFit
    <3>8. QED
      BY <1>1, <2>1, <3>5, <3>6, <3>7 DEF DataFit, Done
  <2>4. /\ CopiesFit(api.data)'
        /\ \/ create'[1] = NoCreate
           \/ create'[1].pc = "describe" /\ create'[1].n = c.n
    BY <1>2, <1>16, <1>18, <2>1 DEF propagateVolumeSnapshotCondition
  <2>5. OperationFits(create[1])'
    BY <1>0, <2>1, <2>2, <2>4 DEF OperationFits
  <2>6. QED
    BY <2>3, <2>4, <2>5
<1>19. QED
  BY <1>6, <1>7, <1>8, <1>9, <1>10, <1>11, <1>12, <1>13, <1>14, <1>15, <1>17, <1>18 DEF Creating

LEMMA IntactStep ==
  ASSUME NameUsedOnce, Typed, Typed', Watched, Intact, ListsAnswered, [Next]_vars
  PROVE  Intact'
<1>1. Uids = {1}
  BY OneUid
<1>2. LocalDone'
  BY LocalDoneStep DEF Intact
<1>3. CASE Creating(1)
  BY <1>1, <1>2, <1>3, IntactCreating DEF Intact
<1>4. CASE ~Creating(1)
  <2>1. \/ CreateObject \/ DeleteObject \/ DeleteClaim \/ Settle
        \/ Informer \/ ListSnapshots \/ findAndAddActiveSnapshots
        \/ \E u \in Uids : findAndRemoveDeletedSnapshots(u) \/ Reconcile(u) \/ Deleting(u)
        \/ Crash \/ UNCHANGED vars
    BY <1>1, <1>4 DEF Next
  <2>2. QED
    BY <1>2, <2>1, IntactElsewhere DEF Intact
<1>5. QED
  BY <1>3, <1>4

(* A VolumeSnapshot that says it is ready names its own data object and a  *)
(* completed snapshot, whatever fails but the list of data objects, and    *)
(* whenever the controller crashes.                                        *)
THEOREM ReadyIsBackedCorrect ==
  ASSUME NameUsedOnce
  PROVE  Spec /\ [][ListsAnswered]_vars => []ReadyIsBacked
<1>1. Typed /\ Watched /\ Intact /\ [Next]_vars /\ [ListsAnswered]_vars => (Typed /\ Watched /\ Intact)'
  <2>1. SUFFICES ASSUME Typed, Watched, Intact, [Next]_vars, [ListsAnswered]_vars
                 PROVE  (Typed /\ Watched /\ Intact)'
    OBVIOUS
  <2>2. ListsAnswered \/ UNCHANGED vars
    BY <2>1
  <2>3. UNCHANGED vars => ListsAnswered
    BY DEF vars, opVars, ListsAnswered, At
  <2>4. QED
    BY <2>1, <2>2, <2>3, TypedStep, WatchedStep, IntactStep
<1>2. Typed /\ Watched /\ Intact => ReadyIsBacked
  <2>1. SUFFICES ASSUME Typed, Watched, Intact, api.status = "ready"
                 PROVE  /\ \E d \in datas : d.n = api.data /\ d.of = api.uid
                        /\ \E s \in snaps : s.n = api.data /\ s.status = "ready"
    BY DEF ReadyIsBacked
  <2>2. api # Nothing
    BY <2>1 DEF Nothing
  <2>3. api.uid = 1 /\ Uids = {1} /\ \A d \in datas : d.of = 1
    BY <2>1, <2>2, OneObject, OneUid DEF Typed, TypeOK, BackendOK, VolumeSnapshotDatas
  <2>4. api.data # 0 /\ DataFit
    BY <2>1, <2>2 DEF Intact, CopiesFit, Fits
  <2>5. QED
    BY <2>1, <2>3, <2>4 DEF DataFit, Done
<1>3. QED
  BY <1>1, <1>2, InitTyped, InitWatched, InitIntact, PTL DEF Spec
-----------------------------------------------------------------------------
(* While nothing fails, one attempt is made, and it has number 1.          *)

CalmBackend ==
  /\ tries \in {0, 1}
  /\ tries = 0 => datas = {} /\ snaps = {}
  /\ \A d \in datas : d.n = 1
  /\ \A s, t \in snaps : s.n = 1 /\ s = t

CalmCreate(c) ==
  /\ c # NoCreate => asw[1] = Nothing
  /\ c.pc \in {"take", "post", "bind", "rebind"} => c.n = 1
  /\ c.pc \in {"getdata", "describe", "update", "propagate"} => c.vs.data = 1
  /\ c.pc = "propagate" => c.new.data = 1
  /\ c.pc = "known" => c.obj.status = "ready"
  /\ c.pc \in {"search", "label", "take", "post"} => datas = {}
  /\ c.pc \in {"take", "post"} => tries = 1
  /\ c.pc = "take" => snaps = {}

CalmDelete(e) ==
  /\ e.pc # "idle" => e.data = 1
  /\ e.pc \in {"remove", "drop"} => datas # {}
  /\ e.pc = "drop" => snaps = {}

CalmWorlds ==
  /\ asw[1] # Nothing => asw[1].data = 1
  /\ held[1] # Nothing => held[1].data = 1

(* The attempt has got a data object, or is about to.                      *)
Accounted ==
  /\ snaps # {} => datas # {} \/ create[1].pc = "post"
  /\ api # Nothing /\ tries = 1 => datas # {} \/ create[1].pc \in {"take", "post"}

(* What was deleted from the actual world is gone.                         *)
CleanedUp ==
  api = Nothing /\ asw[1] = Nothing /\ ~cut =>
    datas = {} /\ snaps = {} /\ create[1].pc \notin {"take", "post"}

Undisturbed ==
  /\ CopiesFit(1)
  /\ CalmBackend /\ CalmCreate(create[1]) /\ CalmDelete(delete[1]) /\ CalmWorlds
  /\ Accounted /\ CleanedUp

LEMMA NothingDisturbed == NameUsedOnce /\ Init => Undisturbed
BY NothingFits, OneUid DEF Init, Undisturbed, CopiesFit, CalmBackend, CalmCreate, CalmDelete, CalmWorlds,
   Accounted, CleanedUp, NoDelete

(* What happens to the operations elsewhere.                               *)
LEMMA BegunElsewhere ==
  ASSUME Typed, NEW u \in Uids,
         \/ CreateObject \/ DeleteObject \/ DeleteClaim \/ Settle
         \/ Informer \/ ListSnapshots \/ findAndAddActiveSnapshots
         \/ \E w \in Uids : findAndRemoveDeletedSnapshots(w) \/ Reconcile(w) \/ Deleting(w)
         \/ Crash \/ UNCHANGED vars
  PROVE  \/ create'[u] = create[u]
         \/ create'[u] = NoCreate
         \/ /\ create'[u] = Begun(wanted[u]) /\ wanted[u] # Nothing
            /\ wanted[u].status \in DOMAIN syncSnapshot
            /\ create[u] = NoCreate /\ asw[u] = Nothing
<1>1. CASE \E w \in Uids : Deleting(w)
  BY <1>1, DeletingFrame
<1>2. CASE \E w \in Uids : Reconcile(w)
  BY <1>2 DEF Reconcile, GetActual, GetDesired, DeleteVolumeSnapshot, CreateVolumeSnapshot,
              opVars, Typed, TypeOK, OperationsOK
<1>3. CASE \/ CreateObject \/ DeleteObject \/ DeleteClaim \/ Settle
           \/ Informer \/ ListSnapshots \/ findAndAddActiveSnapshots
           \/ \E w \in Uids : findAndRemoveDeletedSnapshots(w)
           \/ Crash \/ UNCHANGED vars
  BY <1>3 DEF CreateObject, DeleteObject, DeleteClaim, Settle, Informer, onSnapshotAdd,
     onSnapshotUpdate, onSnapshotDelete, ListSnapshots, findAndAddActiveSnapshots, Crash, vars,
     findAndRemoveDeletedSnapshots, opVars
<1>4. QED
  BY <1>1, <1>2, <1>3

(* A calm state comes from a calm one, by a step in which nothing fails.   *)
LEMMA CalmBefore ==
  ASSUME Typed, Typed', [Next]_vars, Calm'
  PROVE  Calm /\ ~Fault /\ ~Crash
<1>0. /\ faults \in Nat /\ crashes \in Nat /\ faults' = 0 /\ crashes' = 0
  <2>1. /\ faults \in 0 .. MaxFaults /\ crashes \in 0 .. MaxCrashes
        /\ faults' \in 0 .. MaxFaults /\ crashes' \in 0 .. MaxCrashes
    BY DEF Typed, TypeOK, BoundsOK
  <2>2. /\ faults \in Nat /\ crashes \in Nat /\ faults' \in Nat /\ crashes' \in Nat
    BY <2>1, SnapshotAssumption
  <2>3. faults' + crashes' = 0
    BY DEF Calm
  <2>4. \A a, b \in Nat : a + b = 0 => a = 0 /\ b = 0
    OBVIOUS
  <2>5. QED
    BY <2>2, <2>3, <2>4
<1>1. ~Fault /\ ~Crash
  BY <1>0 DEF Fault, Crash
<1>2. CASE \E u \in Uids : Creating(u)
  <2>1. crashes' = crashes
    BY <1>2, CreatingFrame
  <2>2. NoFault
    BY <1>1, <1>2 DEF Creating, AddKnown, FindData, SearchSnapshot, RebindData,
         updateVolumeSnapshotMetadata, takeSnapshot, createVolumeSnapshotData,
         bindandUpdateVolumeSnapshot, GetData, DescribeSnapshot, UpdateVolumeSnapshotStatus,
         propagateVolumeSnapshotCondition, PutObject
  <2>3. QED
    BY <1>0, <1>1, <2>1, <2>2 DEF NoFault, Calm
<1>3. CASE \E u \in Uids : Deleting(u)
  <2>1. crashes' = crashes
    BY <1>3, DeletingFrame
  <2>2. NoFault
    BY <1>1, <1>3 DEF Deleting, GetDataToDelete, deleteSnapshot, DeleteData
  <2>3. QED
    BY <1>0, <1>1, <2>1, <2>2 DEF NoFault, Calm
<1>4. CASE \/ CreateObject \/ DeleteObject \/ DeleteClaim \/ Settle
           \/ Informer \/ ListSnapshots \/ findAndAddActiveSnapshots
           \/ \E u \in Uids : findAndRemoveDeletedSnapshots(u) \/ Reconcile(u)
           \/ UNCHANGED vars
  <2>1. UNCHANGED <<faults, crashes>>
    BY <1>1, <1>4 DEF CreateObject, DeleteObject, DeleteClaim, Settle, Informer, onSnapshotAdd,
     onSnapshotUpdate, onSnapshotDelete, ListSnapshots, findAndAddActiveSnapshots, vars,
     findAndRemoveDeletedSnapshots, Reconcile, GetActual, GetDesired, DeleteVolumeSnapshot,
     CreateVolumeSnapshot, NoFault
  <2>2. QED
    BY <1>0, <1>1, <2>1 DEF Calm
<1>5. QED
  BY <1>1, <1>2, <1>3, <1>4 DEF Next

(* A list that fails is a fault.                                           *)
LEMMA CalmLists ==
  ASSUME Typed, [Next]_vars, ~Fault
  PROVE  ListsAnswered
<1>1. SUFFICES ASSUME NEW u \in Uids, create[u].pc = "find", create'[u].pc = "search"
               PROVE  ~ \E d \in datas : d.of = u
  BY DEF ListsAnswered, At
<1>2. CASE \E w \in Uids : Creating(w)
  <2>1. PICK w \in Uids : Creating(w)
    BY <1>2
  <2>2. w = u
    <3>1. PICK op : create' = [create EXCEPT ![w] = op]
      BY <2>1, CreatingFrame
    <3>2. QED
      BY <1>1, <3>1 DEF Typed, TypeOK, OperationsOK
  <2>3. FindData(u)
    BY <1>1, <2>1, <2>2 DEF Creating, AddKnown, FindData, SearchSnapshot, RebindData,
         updateVolumeSnapshotMetadata, takeSnapshot, createVolumeSnapshotData,
         bindandUpdateVolumeSnapshot, GetData, DescribeSnapshot, UpdateVolumeSnapshotStatus,
         propagateVolumeSnapshotCondition, At
  <2>4. ASSUME NEW d \in datas, Step(u, [create[u] EXCEPT !.pc = "rebind", !.obj = Nothing, !.n = d.n])
        PROVE  FALSE
    <3>1. create'[u] = [create[u] EXCEPT !.pc = "rebind", !.obj = Nothing, !.n = d.n]
      BY <2>4 DEF Step, Typed, TypeOK, OperationsOK
    <3>2. create'[u].pc = "rebind"
      BY <3>1 DEF Typed, TypeOK, OperationsOK, Creates
    <3>3. QED
      BY <1>1, <3>2
  <2>5. QED
    BY <2>3, <2>4 DEF FindData
<1>3. CASE ~ \E w \in Uids : Creating(w)
  <2>1. /\ Begun(wanted[u]).pc = syncSnapshot[wanted[u].status]
        /\ NoCreate.pc = "idle"
    BY DEF Begun, NoCreate
  <2>2. wanted[u].status \in DOMAIN syncSnapshot => syncSnapshot[wanted[u].status] # "search"
    BY DEF syncSnapshot
  <2>3. QED
    BY <1>1, <1>3, <2>1, <2>2, BegunElsewhere DEF Next
<1>4. QED
  BY <1>2, <1>3

(* A step outside the create operation.                                    *)
LEMMA UndisturbedElsewhere ==
  ASSUME NameUsedOnce, Typed, Watched, Undisturbed, ~Fault,
         \/ CreateObject \/ DeleteObject \/ DeleteClaim \/ Settle
         \/ Informer \/ ListSnapshots \/ findAndAddActiveSnapshots
         \/ \E u \in Uids : findAndRemoveDeletedSnapshots(u) \/ Reconcile(u) \/ Deleting(u)
         \/ UNCHANGED vars
  PROVE  Undisturbed'
<1>0. /\ Uids = {1} /\ NoCreate.pc = "idle" /\ Nothing.data = 0
      /\ api # Nothing => api.uid = 1
      /\ snaps \subseteq BackendSnapshots
  BY OneUid, OneObject, NothingFits DEF Nothing, Typed, TypeOK, BackendOK
<1>1. CopiesFit(1)'
  BY CopiesKept DEF Undisturbed
<1>2. CASE CreateObject
  <2>1. Unborn /\ UNCHANGED <<asw, held, create, delete, datas, snaps, tries>>
    BY <1>2, OneObject DEF CreateObject, Watched, NameUsedOnce, Typed, TypeOK, ApiOK,
       loopVars, opVars, backVars
  <2>2. api' # Nothing
    BY <1>2 DEF CreateObject, Nothing, Typed, TypeOK, ApiOK
  <2>3. QED
    BY <1>0, <1>1, <2>1, <2>2 DEF Undisturbed, Unborn, Unknown, CalmBackend, CalmCreate, CalmDelete,
       CalmWorlds, Accounted, CleanedUp
<1>3. CASE DeleteObject
  <2>1. /\ UNCHANGED <<asw, held, create, delete, datas, snaps, tries>>
        /\ api' = Nothing /\ (asw[1] = Nothing => cut')
    BY <1>0, <1>3 DEF DeleteObject, loopVars, opVars, backVars
  <2>2. QED
    BY <1>1, <2>1 DEF Undisturbed, CalmBackend, CalmCreate, CalmDelete, CalmWorlds, Accounted, CleanedUp
<1>4. CASE \/ DeleteClaim \/ Informer \/ ListSnapshots \/ findAndAddActiveSnapshots
           \/ \E u \in Uids : findAndRemoveDeletedSnapshots(u)
           \/ UNCHANGED vars
  <2>1. UNCHANGED <<api, cut, asw, held, create, delete, datas, snaps, tries>>
    BY <1>4 DEF DeleteClaim, Informer, onSnapshotAdd, onSnapshotUpdate, onSnapshotDelete,
       ListSnapshots, findAndAddActiveSnapshots, findAndRemoveDeletedSnapshots, vars,
       apiVars, loopVars, opVars, backVars
  <2>2. QED
    BY <1>1, <2>1 DEF Undisturbed, CalmBackend, CalmCreate, CalmDelete, CalmWorlds, Accounted, CleanedUp
<1>5. CASE Settle
  <2>1. UNCHANGED <<api, cut, asw, held, create, delete, datas, tries>>
    BY <1>5 DEF Settle, apiVars, loopVars, opVars
  <2>2. PICK s \in snaps, status \in {"ready", "error"} :
          snaps' = (snaps \ {s}) \cup {[s EXCEPT !.status = status]}
    BY <1>5 DEF Settle
  <2>3. snaps = {s} /\ s.n = 1
    BY DEF Undisturbed, CalmBackend
  <2>4. [s EXCEPT !.status = status].n = 1
    BY <1>0, <2>3 DEF BackendSnapshots
  <2> DEFINE t == [s EXCEPT !.status = status]
  <2>5. snaps' = {t} /\ t.n = 1
    BY <2>2, <2>3, <2>4
  <2>6. snaps # {} /\ snaps' # {} /\ \A a, b \in snaps' : a.n = 1 /\ a = b
    BY <2>3, <2>5
  <2>7. QED
    BY <1>1, <2>1, <2>6 DEF Undisturbed, CalmBackend, CalmCreate, CalmDelete, CalmWorlds, Accounted, CleanedUp
<1>6. CASE Reconcile(1)
  <2>1. UNCHANGED <<api, cut, asw, datas, snaps, tries>>
    BY <1>6 DEF Reconcile, GetActual, GetDesired, DeleteVolumeSnapshot, CreateVolumeSnapshot,
       apiVars, backVars
  <2>2. held'[1] \in {held[1], asw[1], Nothing}
    BY <1>6 DEF Reconcile, GetActual, GetDesired, DeleteVolumeSnapshot, CreateVolumeSnapshot,
       loopVars, Typed, TypeOK, WorldsOK
  <2>3. \/ delete'[1] = delete[1]
        \/ delete'[1] = [pc |-> "get", data |-> held[1].data] /\ held[1] # Nothing
    BY <1>0, <1>6 DEF Reconcile, GetActual, GetDesired, DeleteVolumeSnapshot, CreateVolumeSnapshot,
       opVars, Typed, TypeOK, OperationsOK
  <2>4. CalmWorlds' /\ CalmDelete(delete[1])'
    BY <2>1, <2>2, <2>3 DEF Undisturbed, CalmWorlds, CalmDelete
  <2>5. \/ create'[1] = create[1]
        \/ create'[1] = NoCreate
        \/ /\ create'[1] = Begun(wanted[1]) /\ wanted[1] # Nothing
           /\ wanted[1].status \in DOMAIN syncSnapshot
           /\ create[1] = NoCreate /\ asw[1] = Nothing
    BY <1>0, BegunElsewhere
  <2>6. CASE create'[1] = Begun(wanted[1]) /\ wanted[1].status \in DOMAIN syncSnapshot
             /\ create[1] = NoCreate /\ asw[1] = Nothing
    <3>1. /\ create'[1].pc \in {"find", "known", "getdata"}
          /\ create'[1].pc = "getdata" => wanted[1].status = "pending"
          /\ create'[1].pc = "known" => wanted[1].status = "ready"
          /\ create'[1].vs = wanted[1] /\ create'[1].obj = wanted[1]
      BY <2>6 DEF Begun, NoCreate, syncSnapshot
    <3>2. wanted[1].status = "pending" => wanted[1].data = 1
      BY <1>0 DEF Undisturbed, CopiesFit, Fits
    <3>3. CalmCreate(create[1])'
      BY <2>1, <2>6, <3>1, <3>2 DEF CalmCreate
    <3>4. Accounted' /\ CleanedUp'
      BY <1>0, <2>1, <2>6, <3>1 DEF Undisturbed, Accounted, CleanedUp
    <3>5. QED
      BY <1>1, <2>1, <2>4, <3>3, <3>4 DEF Undisturbed, CalmBackend
  <2>7. CASE create'[1] \in {create[1], NoCreate}
    <3>1. create'[1] = create[1]
      BY <1>0, <1>6, <2>7 DEF Reconcile, GetActual, GetDesired, DeleteVolumeSnapshot, CreateVolumeSnapshot,
         opVars, Typed, TypeOK, OperationsOK
    <3>2. QED
      BY <1>1, <2>1, <2>4, <3>1 DEF Undisturbed, CalmBackend, CalmCreate, Accounted, CleanedUp
  <2>8. QED
    BY <2>5, <2>6, <2>7
<1>7. CASE Deleting(1)
  <2> DEFINE e == delete[1]
  <2>1. UNCHANGED <<api, cut, held, create, tries>> /\ e # NoDelete
    BY <1>0, <1>7, DeletingFrame DEF apiVars, loopVars
  <2>2. api = Nothing
    BY <1>0, <2>1 DEF Watched, Seen
  <2>3. e \in Deletes /\ NoDelete.pc = "idle" /\ delete \in [Uids -> Deletes]
    BY <1>0 DEF Typed, TypeOK, OperationsOK, NoDelete
  <2>4. CASE GetDataToDelete(1)
    <3>1. /\ UNCHANGED <<asw, datas, snaps>> /\ e.pc = "get"
          /\ \/ delete'[1] = NoDelete
             \/ delete'[1] = [e EXCEPT !.pc = "remove"] /\ datas # {}
      BY <1>0, <2>3, <2>4 DEF GetDataToDelete, DelGoto, DelStep
    <3>2. CalmDelete(delete[1])'
      BY <2>3, <3>1 DEF Undisturbed, CalmDelete, Deletes
    <3>3. QED
      BY <1>1, <2>1, <3>1, <3>2 DEF Undisturbed, CalmBackend, CalmCreate, CalmWorlds, Accounted, CleanedUp
  <2>5. CASE deleteSnapshot(1)
    <3>1. /\ UNCHANGED <<asw, datas>> /\ e.pc = "remove"
          /\ \/ delete'[1] = NoDelete /\ snaps' = snaps
             \/ /\ delete'[1] = [e EXCEPT !.pc = "drop"]
                /\ snaps' = snaps \ {s \in snaps : s.n = e.data}
      BY <1>0, <2>3, <2>5 DEF deleteSnapshot, DelGoto, DelStep
    <3>2. e.data = 1 /\ datas # {}
      BY <3>1 DEF Undisturbed, CalmDelete
    <3>3. \/ delete'[1] = NoDelete /\ snaps' = snaps
          \/ delete'[1].pc = "drop" /\ delete'[1].data = 1 /\ snaps' = {}
      BY <2>3, <3>1, <3>2 DEF Undisturbed, CalmBackend, Deletes
    <3>4. CalmDelete(delete[1])'
      BY <2>3, <3>1, <3>2, <3>3 DEF CalmDelete
    <3>5. QED
      BY <1>1, <2>1, <2>2, <3>1, <3>2, <3>3, <3>4
      DEF Undisturbed, CalmBackend, CalmCreate, CalmWorlds, Accounted, CleanedUp
  <2>6. CASE DeleteData(1)
    <3>1. /\ snaps' = snaps /\ e.pc = "drop" /\ delete'[1] = NoDelete
      BY <1>0, <2>3, <2>6 DEF DeleteData, DelStep
    <3>2. e.data = 1 /\ datas # {} /\ snaps = {}
      BY <3>1 DEF Undisturbed, CalmDelete
    <3>3. {d \in datas : d.n = delete[1].data} = datas
      BY <3>2 DEF Undisturbed, CalmBackend
    <3>4. datas' = {} /\ asw'[1] = Nothing
      BY <1>0, <2>6, <3>2, <3>3 DEF DeleteData, Typed, TypeOK, WorldsOK
    <3>5. create[1].pc \notin {"take", "post"}
      BY <3>2 DEF Undisturbed, CalmCreate
    <3>6. CalmDelete(delete[1])'
      BY <2>3, <3>1 DEF CalmDelete
    <3>7. CalmCreate(create[1])'
      BY <2>1, <3>1, <3>2, <3>4, <3>5 DEF Undisturbed, CalmCreate
    <3>8. QED
      BY <1>1, <2>1, <2>2, <3>1, <3>2, <3>4, <3>5, <3>6, <3>7
      DEF Undisturbed, CalmBackend, CalmWorlds, Accounted, CleanedUp
  <2>7. QED
    BY <1>7, <2>4, <2>5, <2>6 DEF Deleting
<1>8. QED
  BY <1>0, <1>2, <1>3, <1>4, <1>5, <1>6, <1>7

(* A step of the create operation, in which nothing fails.                 *)
LEMMA PutCalm ==
  ASSUME Uids = {1}, ~Fault, NEW new, NEW op, PutObject(1, new, op)
  PROVE  \/ api # Nothing /\ api' = new /\ Step(1, op)
         \/ api = Nothing /\ api' = api /\ Step(1, NoCreate)
BY DEF PutObject, Contended, Fail

LEMMA FinishCalm ==
  ASSUME Typed, Uids = {1}, NEW new, Finish(1, new)
  PROVE  \/ Step(1, NoCreate) /\ asw'[1] \in {asw[1], new}
         \/ Step(1, [create[1] EXCEPT !.pc = "describe", !.new = Nothing]) /\ asw' = asw
<1>1. asw \in [Uids -> VolumeSnapshots]
  BY DEF Typed, TypeOK, WorldsOK
<1>2. QED
  BY <1>1 DEF Finish, Fail

LEMMA UndisturbedCreating ==
  ASSUME NameUsedOnce, Typed, Typed', Watched, Intact, Undisturbed, ~Fault, Creating(1)
  PROVE  Undisturbed'
<1> DEFINE c == create[1]
<1>0. /\ Uids = {1} /\ NoCreate.pc = "idle" /\ Nothing.data = 0 /\ Nothing.tag = 0
      /\ c \in Creates /\ c # NoCreate /\ asw[1] = Nothing
      /\ asw \in [Uids -> VolumeSnapshots]
      /\ api \in VolumeSnapshots
      /\ datas \subseteq VolumeSnapshotDatas
  <2>1. Uids = {1} /\ NoCreate.pc = "idle"
    BY OneUid, NothingFits
  <2>2. c # NoCreate
    BY <2>1, CreatingFrame
  <2>3. QED
    BY <2>1, <2>2 DEF Nothing, Typed, TypeOK, OperationsOK, WorldsOK, ApiOK, BackendOK, Undisturbed, CalmCreate
<1>1. UNCHANGED <<cut, held, delete>>
  BY <1>0, CreatingFrame DEF loopVars
<1>2. /\ CopiesFit(1) /\ CalmBackend /\ CalmCreate(c) /\ CalmDelete(delete[1]) /\ CalmWorlds
      /\ Accounted /\ CleanedUp
  BY DEF Undisturbed
<1>3. /\ Fits(api, 1) /\ Fits(c.obj, 1) /\ Fits(c.vs, 1) /\ Fits(c.new, 1)
      /\ Fits(Nothing, 1) /\ Fits(NoCreate.obj, 1) /\ Fits(NoCreate.vs, 1) /\ Fits(NoCreate.new, 1)
  BY <1>0, <1>2, NothingFits DEF CopiesFit
<1>4. ASSUME NEW op, Step(1, op), Fits(api', 1), Fits(asw'[1], 1),
             Fits(op.obj, 1), Fits(op.vs, 1), Fits(op.new, 1)
      PROVE  CopiesFit(1)' /\ create'[1] = op
  BY <1>0, <1>2, <1>4, OperationStep DEF CopiesFit
<1>5. api # Nothing =>
        /\ \A s \in Statuses : /\ [api EXCEPT !.status = s].data = api.data
                               /\ api.data = 1 => Fits([api EXCEPT !.status = s], 1)
        /\ 1 \in Tries => /\ Fits([api EXCEPT !.data = 1], 1) /\ [api EXCEPT !.data = 1].data = 1
                          /\ \A s \in Statuses : /\ Fits([api EXCEPT !.data = 1, !.status = s], 1)
                                                 /\ [api EXCEPT !.data = 1, !.status = s].data = 1
        /\ [api EXCEPT !.tag = 1].tag = 1 /\ Fits([api EXCEPT !.tag = 1], 1)
  <2>1. api # Nothing =>
          api \in [uid : Uids, tag : {0} \cup Tries, data : {0} \cup Tries, status : Statuses]
    BY <1>0 DEF VolumeSnapshots
  <2>2. QED
    BY <1>3, <2>1 DEF Fits
<1>6. datas # {} => 1 \in Tries
  BY <1>0, <1>2 DEF CalmBackend, VolumeSnapshotDatas
<1>7. CASE AddKnown(1)
  <2>1. /\ Step(1, NoCreate) /\ UNCHANGED <<api, datas, snaps, tries>>
        /\ asw' = [asw EXCEPT ![1] = c.obj] /\ c.pc = "known"
    BY <1>7 DEF AddKnown, Fail, backVars, At
  <2>2. asw'[1] = c.obj
    BY <1>0, <2>1
  <2>3. c.obj.data = 1
    BY <1>2, <1>3, <2>1 DEF CalmCreate, Fits
  <2>4. CopiesFit(1)' /\ create'[1] = NoCreate
    BY <1>3, <1>4, <2>1, <2>2
  <2>5. c.obj # Nothing
    BY <1>0, <2>3
  <2>6. QED
    BY <1>0, <1>1, <1>2, <2>1, <2>2, <2>3, <2>4, <2>5
    DEF Undisturbed, CalmBackend, CalmCreate, CalmDelete, CalmWorlds, Accounted, CleanedUp
<1>8. CASE FindData(1)
  <2>1. UNCHANGED <<api, asw, datas, snaps, tries>> /\ c.pc = "find"
    BY <1>8 DEF FindData, backVars, At
  <2>2. CASE \E d \in datas :
               Step(1, [create[1] EXCEPT !.pc = "rebind", !.obj = Nothing, !.n = d.n])
    <3>1. PICK d \in datas :
            Step(1, [create[1] EXCEPT !.pc = "rebind", !.obj = Nothing, !.n = d.n])
      BY <2>2
    <3> DEFINE op == [create[1] EXCEPT !.pc = "rebind", !.obj = Nothing, !.n = d.n]
    <3>2. op.pc = "rebind" /\ op.obj = Nothing /\ op.vs = c.vs /\ op.new = c.new /\ op.n = 1
      BY <1>0, <1>2, <3>1 DEF Creates, CalmBackend
    <3>3. CopiesFit(1)' /\ create'[1] = op
      BY <1>0, <1>3, <1>4, <2>1, <3>1, <3>2
    <3>4. CalmCreate(create[1])'
      BY <1>0, <2>1, <3>2, <3>3 DEF CalmCreate
    <3>5. QED
      BY <1>1, <1>2, <2>1, <3>2, <3>3, <3>4
      DEF Undisturbed, CalmBackend, CalmDelete, CalmWorlds, Accounted, CleanedUp
  <2>3. CASE Goto(1, "search") /\ ~ \E d \in datas : d.of = 1
    <3> DEFINE op == [create[1] EXCEPT !.pc = "search"]
    <3>1. op.pc = "search" /\ op.obj = c.obj /\ op.vs = c.vs /\ op.new = c.new
      BY <1>0 DEF Creates
    <3>2. CopiesFit(1)' /\ create'[1] = op
      BY <1>0, <1>3, <1>4, <2>1, <2>3, <3>1 DEF Goto
    <3>3. datas = {}
      BY <1>0, <2>3 DEF VolumeSnapshotDatas
    <3>4. CalmCreate(create[1])'
      BY <1>0, <2>1, <3>1, <3>2, <3>3 DEF CalmCreate
    <3>5. QED
      BY <1>1, <1>2, <2>1, <3>1, <3>2, <3>4
      DEF Undisturbed, CalmBackend, CalmDelete, CalmWorlds, Accounted, CleanedUp
  <2>4. QED
    BY <1>8, <2>2, <2>3 DEF FindData
<1>9. CASE SearchSnapshot(1)
  <2>1. UNCHANGED <<api, asw, datas, snaps, tries>> /\ c.pc = "search"
    BY <1>9 DEF SearchSnapshot, backVars, At
  <2> DEFINE op == [create[1] EXCEPT !.pc = "label", !.obj = Nothing, !.vs = Nothing]
  <2>2. op.pc = "label" /\ op.obj = Nothing /\ op.vs = Nothing /\ op.new = c.new
    BY <1>0 DEF Creates
  <2>3. Step(1, op) \/ Step(1, NoCreate)
    BY <1>9 DEF SearchSnapshot, Fail
  <2>4. create'[1] \in {op, NoCreate} /\ CopiesFit(1)'
    BY <1>0, <1>3, <1>4, <2>1, <2>2, <2>3
  <2>5. CalmCreate(create[1])'
    BY <1>0, <1>2, <2>1, <2>2, <2>4 DEF CalmCreate
  <2>6. QED
    BY <1>0, <1>1, <1>2, <2>1, <2>2, <2>4, <2>5
    DEF Undisturbed, CalmBackend, CalmDelete, CalmWorlds, Accounted, CleanedUp
<1>10. ASSUME UNCHANGED <<api, asw, datas, snaps, tries>>, Step(1, NoCreate),
              c.pc \notin {"take", "post"}
       PROVE  Undisturbed'
  <2>1. CopiesFit(1)' /\ create'[1] = NoCreate
    BY <1>0, <1>3, <1>4, <1>10
  <2>2. QED
    BY <1>0, <1>1, <1>2, <1>10, <2>1
    DEF Undisturbed, CalmBackend, CalmCreate, CalmDelete, CalmWorlds, Accounted, CleanedUp
<1>11. api # Nothing => OperationFits(c) /\ DataFit
  BY <1>0 DEF Intact
<1>12. CASE RebindData(1)
  <2> DEFINE new == [api EXCEPT !.data = c.n]
             op == [c EXCEPT !.pc = "getdata", !.vs = new]
  <2>1. UNCHANGED <<asw, datas, snaps, tries>> /\ c.pc = "rebind" /\ PutObject(1, new, op)
    BY <1>12 DEF RebindData, backVars, At
  <2>2. c.n = 1
    BY <1>2, <2>1 DEF CalmCreate
  <2>3. CASE api # Nothing /\ api' = new /\ Step(1, op)
    <3>1. datas # {}
      BY <1>11, <2>1, <2>3 DEF OperationFits
    <3>2. Fits(new, 1) /\ new.data = 1 /\ new # Nothing
      <4>1. 1 \in Tries /\ new = [api EXCEPT !.data = 1]
        BY <1>6, <2>2, <3>1
      <4>2. Fits(new, 1) /\ new.data = 1
        BY <1>5, <2>3, <4>1
      <4> HIDE DEF new
      <4>3. QED
        BY <1>0, <4>2
    <3>3. op.pc = "getdata" /\ op.obj = c.obj /\ op.vs = new /\ op.new = c.new
      BY <1>0 DEF Creates
    <3>4. CopiesFit(1)' /\ create'[1] = op
      BY <1>0, <1>3, <1>4, <2>1, <2>3, <3>2, <3>3
    <3>5. CalmCreate(create[1])'
      BY <1>0, <2>1, <3>2, <3>3, <3>4 DEF CalmCreate
    <3>6. QED
      BY <1>1, <1>2, <2>1, <2>3, <3>1, <3>2, <3>3, <3>4, <3>5
      DEF Undisturbed, CalmBackend, CalmDelete, CalmWorlds, Accounted, CleanedUp
  <2>4. QED
    BY <1>0, <1>10, <2>1, <2>3, PutCalm
<1>13. CASE updateVolumeSnapshotMetadata(1)
  <2> DEFINE new == [api EXCEPT !.tag = tries + 1]
             op == [c EXCEPT !.pc = "take", !.vs = new, !.n = tries + 1]
  <2>1. UNCHANGED <<asw, datas, snaps>> /\ c.pc = "label" /\ datas = {}
    BY <1>2, <1>13 DEF updateVolumeSnapshotMetadata, At, CalmCreate
  <2>2. CASE UNCHANGED <<api, tries>> /\ Step(1, NoCreate)
    BY <1>10, <2>1, <2>2
  <2>3. CASE api # Nothing /\ api' = new /\ Step(1, op)
             /\ tries' = IF api'.tag = tries + 1 THEN tries + 1 ELSE tries
    <3>1. tries = 0 /\ snaps = {}
      BY <1>2, <2>1, <2>3 DEF Accounted, CalmBackend
    <3>2. Fits(new, 1) /\ new.tag = 1 /\ new # Nothing /\ tries' = 1
      <4>1. tries + 1 = 1 /\ new = [api EXCEPT !.tag = 1]
        BY <3>1
      <4>2. Fits(new, 1) /\ new.tag = 1
        BY <1>5, <2>3, <4>1
      <4>3. new # Nothing
        <5> HIDE DEF new
        <5>1. QED
          BY <1>0, <4>2
      <4>4. QED
        BY <2>3, <4>1, <4>2, <4>3
    <3>3. op.pc = "take" /\ op.obj = c.obj /\ op.vs = new /\ op.new = c.new /\ op.n = 1
      BY <1>0, <3>1 DEF Creates
    <3>4. CopiesFit(1)' /\ create'[1] = op
      <4>1. /\ Fits(op.obj, 1) /\ Fits(op.vs, 1) /\ Fits(op.new, 1)
            /\ Fits(api', 1) /\ Fits(asw'[1], 1) /\ Step(1, op)
        BY <1>0, <1>3, <2>1, <2>3, <3>2, <3>3
      <4> HIDE DEF op, new
      <4>2. QED
        BY <1>4, <4>1
    <3>5. CalmCreate(create[1])'
      BY <1>0, <2>1, <3>1, <3>2, <3>3, <3>4 DEF CalmCreate
    <3>6. QED
      BY <1>1, <1>2, <2>1, <2>3, <3>1, <3>2, <3>3, <3>4, <3>5
      DEF Undisturbed, CalmBackend, CalmDelete, CalmWorlds, Accounted, CleanedUp
  <2>4. CASE api = Nothing /\ api' = api /\ Step(1, NoCreate)
             /\ tries' = IF api'.tag = tries + 1 THEN tries + 1 ELSE tries
    <3>1. tries' = tries
      BY <1>0, <1>2, <2>4 DEF CalmBackend
    <3>2. QED
      BY <2>2, <2>4, <3>1
  <2>5. QED
    BY <1>0, <1>13, <2>2, <2>3, <2>4, PutCalm DEF updateVolumeSnapshotMetadata, Fail
<1>14. CASE takeSnapshot(1)
  <2>1. UNCHANGED <<api, asw, datas, tries>> /\ c.pc = "take"
    BY <1>14 DEF takeSnapshot, At
  <2>2. c.n = 1 /\ datas = {} /\ tries = 1 /\ snaps = {}
    BY <1>2, <2>1 DEF CalmCreate
  <2>3. PICK status \in Plugin.begins :
          /\ snaps' = snaps \cup {[n |-> c.n, of |-> c.vs.uid, status |-> status]}
          /\ Step(1, [c EXCEPT !.pc = "post", !.cond = Plugin.told[status]])
    BY <1>14 DEF takeSnapshot
  <2> DEFINE op == [c EXCEPT !.pc = "post", !.cond = Plugin.told[status]]
  <2>4. op.pc = "post" /\ op.obj = c.obj /\ op.vs = c.vs /\ op.new = c.new /\ op.n = 1
    BY <1>0, <2>2 DEF Creates
  <2>5. CopiesFit(1)' /\ create'[1] = op
    BY <1>0, <1>3, <1>4, <2>1, <2>3, <2>4
  <2>6. snaps' # {} /\ \A s, t \in snaps' : s.n = 1 /\ s = t
    BY <2>2, <2>3
  <2>7. CalmCreate(create[1])'
    BY <1>0, <2>1, <2>2, <2>4, <2>5 DEF CalmCreate
  <2>8. CalmDelete(delete[1])'
    BY <1>1, <1>2, <2>1, <2>2 DEF CalmDelete
  <2>9. Accounted' /\ CleanedUp'
    BY <1>0, <1>1, <1>2, <2>1, <2>2, <2>4, <2>5 DEF Accounted, CleanedUp
  <2>10. QED
    BY <1>1, <1>2, <2>1, <2>2, <2>5, <2>6, <2>7, <2>8, <2>9 DEF Undisturbed, CalmBackend, CalmWorlds
<1>15. CASE createVolumeSnapshotData(1)
  <2> DEFINE p == [n |-> c.n, of |-> 1, status |-> c.cond]
             op == [c EXCEPT !.pc = "bind"]
  <2>1. UNCHANGED <<api, asw, snaps, tries>> /\ c.pc = "post"
        /\ datas' = datas \cup {p} /\ Step(1, op)
    BY <1>15 DEF createVolumeSnapshotData, At, Goto
  <2>2. c.n = 1 /\ datas = {} /\ tries = 1
    BY <1>2, <2>1 DEF CalmCreate
  <2>3. op.pc = "bind" /\ op.obj = c.obj /\ op.vs = c.vs /\ op.new = c.new /\ op.n = 1
    BY <1>0, <2>2 DEF Creates
  <2>4. CopiesFit(1)' /\ create'[1] = op
    BY <1>0, <1>3, <1>4, <2>1, <2>3
  <2>5. datas' # {} /\ \A d \in datas' : d.n = 1
    BY <2>1, <2>2
  <2>6. CalmCreate(create[1])'
    BY <1>0, <2>1, <2>3, <2>4 DEF CalmCreate
  <2>7. CalmDelete(delete[1])'
    BY <1>1, <1>2, <2>1, <2>2 DEF CalmDelete
  <2>8. Accounted' /\ CleanedUp'
    BY <1>0, <1>1, <1>2, <2>1, <2>5 DEF Accounted, CleanedUp
  <2>9. QED
    BY <1>1, <1>2, <2>1, <2>2, <2>4, <2>5, <2>6, <2>7, <2>8 DEF Undisturbed, CalmBackend, CalmWorlds
<1>16. CASE bindandUpdateVolumeSnapshot(1)
  <2> DEFINE new == [api EXCEPT !.data = c.n, !.status = c.cond]
             op == [c EXCEPT !.pc = "describe", !.vs = new]
  <2>1. UNCHANGED <<asw, datas, snaps, tries>> /\ c.pc = "bind" /\ PutObject(1, new, op)
    BY <1>16 DEF bindandUpdateVolumeSnapshot, backVars, At
  <2>2. c.n = 1 /\ c.cond \in Statuses
    BY <1>0, <1>2, <2>1 DEF CalmCreate, Creates
  <2>3. CASE api # Nothing /\ api' = new /\ Step(1, op)
    <3>1. datas # {}
      BY <1>11, <2>1, <2>3 DEF OperationFits
    <3>2. Fits(new, 1) /\ new.data = 1 /\ new # Nothing
      <4>1. 1 \in Tries /\ new = [api EXCEPT !.data = 1, !.status = c.cond]
        BY <1>6, <2>2, <3>1
      <4>2. Fits(new, 1) /\ new.data = 1
        BY <1>5, <2>2, <2>3, <4>1
      <4> HIDE DEF new
      <4>3. QED
        BY <1>0, <4>2
    <3>3. op.pc = "describe" /\ op.obj = c.obj /\ op.vs = new /\ op.new = c.new
      BY <1>0 DEF Creates
    <3>4. CopiesFit(1)' /\ create'[1] = op
      BY <1>0, <1>3, <1>4, <2>1, <2>3, <3>2, <3>3
    <3>5. CalmCreate(create[1])'
      BY <1>0, <2>1, <3>2, <3>3, <3>4 DEF CalmCreate
    <3>6. QED
      BY <1>1, <1>2, <2>1, <2>3, <3>1, <3>2, <3>3, <3>4, <3>5
      DEF Undisturbed, CalmBackend, CalmDelete, CalmWorlds, Accounted, CleanedUp
  <2>4. QED
    BY <1>0, <1>10, <2>1, <2>3, PutCalm
<1>17. CASE GetData(1)
  <2> DEFINE op == [c EXCEPT !.pc = "describe", !.n = c.vs.data]
  <2>1. UNCHANGED <<api, asw, datas, snaps, tries>> /\ c.pc = "getdata" /\ c.vs.data = 1
    BY <1>2, <1>17 DEF GetData, backVars, At, CalmCreate
  <2>2. op.pc = "describe" /\ op.obj = c.obj /\ op.vs = c.vs /\ op.new = c.new
    BY <1>0 DEF Creates
  <2>3. CASE Step(1, op)
    <3>1. CopiesFit(1)' /\ create'[1] = op
      BY <1>0, <1>3, <1>4, <2>1, <2>2, <2>3
    <3>2. CalmCreate(create[1])'
      BY <1>0, <2>1, <2>2, <3>1 DEF CalmCreate
    <3>3. QED
      BY <1>1, <1>2, <2>1, <2>2, <3>1, <3>2
      DEF Undisturbed, CalmBackend, CalmDelete, CalmWorlds, Accounted, CleanedUp
  <2>4. QED
    BY <1>10, <1>17, <2>1, <2>3 DEF GetData, Fail
<1>18. CASE DescribeSnapshot(1)
  <2>1. UNCHANGED <<api, asw, datas, snaps, tries>> /\ c.pc = "describe" /\ c.vs.data = 1
    BY <1>2, <1>18 DEF DescribeSnapshot, backVars, At, CalmCreate
  <2>2. CASE \E answer \in Answers(c.n) :
               Step(1, [c EXCEPT !.pc = "update", !.cond = answer])
    <3>1. PICK answer \in Answers(c.n) : Step(1, [c EXCEPT !.pc = "update", !.cond = answer])
      BY <2>2
    <3> DEFINE op == [c EXCEPT !.pc = "update", !.cond = answer]
    <3>2. op.pc = "update" /\ op.obj = c.obj /\ op.vs = c.vs /\ op.new = c.new
      BY <1>0 DEF Creates
    <3>3. CopiesFit(1)' /\ create'[1] = op
      BY <1>0, <1>3, <1>4, <2>1, <3>1, <3>2
    <3>4. CalmCreate(create[1])'
      BY <1>0, <2>1, <3>2, <3>3 DEF CalmCreate
    <3>5. QED
      BY <1>1, <1>2, <2>1, <3>2, <3>3, <3>4
      DEF Undisturbed, CalmBackend, CalmDelete, CalmWorlds, Accounted, CleanedUp
  <2>3. QED
    BY <1>10, <1>18, <2>1, <2>2 DEF DescribeSnapshot, Fail
<1>19. ASSUME NEW new, Finish(1, new), Fits(new, 1), new # Nothing => new.data = 1,
              UNCHANGED <<api, snaps, tries>>, c.vs.data = 1, c.pc \notin {"take", "post"},
              \A d \in datas' : d.n = 1, datas' = {} <=> datas = {}
       PROVE  Undisturbed'
  <2> DEFINE op == [c EXCEPT !.pc = "describe", !.new = Nothing]
  <2>1. op.pc = "describe" /\ op.obj = c.obj /\ op.vs = c.vs /\ op.new = Nothing
    BY <1>0 DEF Creates
  <2>2. /\ CopiesFit(1)'
        /\ \/ create'[1] = NoCreate /\ asw'[1] \in {asw[1], new}
           \/ create'[1] = op /\ asw' = asw
    <3>1. CASE Step(1, NoCreate) /\ asw'[1] \in {asw[1], new}
      BY <1>0, <1>3, <1>4, <1>19, <3>1
    <3>2. CASE Step(1, op) /\ asw' = asw
      BY <1>0, <1>3, <1>4, <1>19, <2>1, <3>2
    <3>3. QED
      BY <1>0, <1>19, <3>1, <3>2, FinishCalm
  <2>3. create'[1].pc \in {"idle", "describe"}
    BY <1>0, <2>1, <2>2
  <2>4. CalmCreate(create[1])'
    BY <1>0, <1>19, <2>1, <2>2 DEF CalmCreate
  <2>5. CalmWorlds' /\ CalmDelete(delete[1])'
    BY <1>0, <1>1, <1>2, <1>19, <2>2 DEF CalmWorlds, CalmDelete
  <2>6. CalmBackend' /\ Accounted' /\ CleanedUp'
    BY <1>0, <1>1, <1>2, <1>19, <2>3 DEF CalmBackend, Accounted, CleanedUp
  <2>7. QED
    BY <2>2, <2>4, <2>5, <2>6 DEF Undisturbed
<1>20. CASE UpdateVolumeSnapshotStatus(1)
  <2> DEFINE new == [api EXCEPT !.status = c.cond]
             op == [c EXCEPT !.pc = "propagate", !.new = new]
  <2>1. UNCHANGED <<datas, snaps, tries>> /\ c.pc = "update" /\ c.vs.data = 1 /\ c.cond \in Statuses
    BY <1>0, <1>2, <1>20 DEF UpdateVolumeSnapshotStatus, backVars, At, CalmCreate, Creates
  <2>2. \A d \in datas' : d.n = 1
    BY <1>2, <2>1 DEF CalmBackend
  <2>3. CASE (Finish(1, c.vs) \/ Finish(1, Nothing)) /\ UNCHANGED api
    BY <1>3, <1>19, <2>1, <2>2, <2>3
  <2>4. CASE api # Nothing /\ api' = new /\ Step(1, op) /\ UNCHANGED asw
    <3>1. api.data = 1
      BY <1>3, <1>11, <2>1, <2>4 DEF OperationFits, Fits
    <3>2. Fits(new, 1) /\ new.data = 1 /\ new # Nothing
      <4>1. Fits(new, 1) /\ new.data = 1
        BY <1>5, <2>1, <2>4, <3>1
      <4> HIDE DEF new
      <4>2. QED
        BY <1>0, <4>1
    <3>3. op.pc = "propagate" /\ op.obj = c.obj /\ op.vs = c.vs /\ op.new = new
      BY <1>0 DEF Creates
    <3>4. CopiesFit(1)' /\ create'[1] = op
      BY <1>0, <1>3, <1>4, <2>4, <3>2, <3>3
    <3>5. CalmCreate(create[1])'
      BY <1>0, <2>1, <2>4, <3>2, <3>3, <3>4 DEF CalmCreate
    <3>6. QED
      BY <1>1, <1>2, <2>1, <2>4, <3>2, <3>3, <3>4, <3>5
      DEF Undisturbed, CalmBackend, CalmDelete, CalmWorlds, Accounted, CleanedUp
  <2>5. QED
    BY <1>0, <1>20, <2>3, <2>4 DEF UpdateVolumeSnapshotStatus
<1>21. CASE propagateVolumeSnapshotCondition(1)
  <2> DEFINE told == {IF d.n = c.new.data THEN [d EXCEPT !.status = c.cond] ELSE d : d \in datas}
  <2>1. UNCHANGED <<api, snaps, tries>> /\ c.pc = "propagate" /\ datas' \in {datas, told}
        /\ (Finish(1, c.new) \/ Finish(1, Nothing))
    BY <1>21 DEF propagateVolumeSnapshotCondition, At
  <2>2. c.vs.data = 1 /\ c.new.data = 1
    BY <1>2, <2>1 DEF CalmCreate
  <2>3. told = {} <=> datas = {}
    OBVIOUS
  <2>4. \A d \in datas : d.n = 1 /\ [d EXCEPT !.status = c.cond].n = 1
    BY <1>0, <1>2 DEF CalmBackend, VolumeSnapshotDatas
  <2>5. ASSUME NEW e \in told PROVE e.n = 1
    <3>1. PICK d \in datas : e = IF d.n = c.new.data THEN [d EXCEPT !.status = c.cond] ELSE d
      OBVIOUS
    <3>2. QED
      BY <2>4, <3>1
  <2> HIDE DEF told
  <2>6. (\A d \in datas' : d.n = 1) /\ (datas' = {} <=> datas = {})
    BY <2>1, <2>3, <2>4, <2>5
  <2>7. QED
    BY <1>3, <1>19, <2>1, <2>2, <2>6
<1>22. QED
  BY <1>7, <1>8, <1>9, <1>12, <1>13, <1>14, <1>15, <1>16, <1>17, <1>18, <1>20, <1>21 DEF Creating

LEMMA UndisturbedStep ==
  ASSUME NameUsedOnce, Typed, Typed', Watched, Calm => Intact /\ Undisturbed, [Next]_vars, Calm'
  PROVE  Intact' /\ Undisturbed'
<1>1. Calm /\ ~Fault /\ ~Crash /\ Intact /\ Undisturbed /\ ListsAnswered
  BY CalmBefore, CalmLists
<1>2. Intact'
  BY <1>1, IntactStep
<1>3. CASE Creating(1)
  BY <1>1, <1>2, <1>3, UndisturbedCreating
<1>4. CASE ~Creating(1)
  <2>1. \/ CreateObject \/ DeleteObject \/ DeleteClaim \/ Settle
        \/ Informer \/ ListSnapshots \/ findAndAddActiveSnapshots
        \/ \E u \in Uids : findAndRemoveDeletedSnapshots(u) \/ Reconcile(u) \/ Deleting(u)
        \/ UNCHANGED vars
    BY <1>1, <1>4, OneUid DEF Next
  <2>2. QED
    BY <1>1, <1>2, <2>1, UndisturbedElsewhere
<1>5. QED
  BY <1>3, <1>4

LEMMA CalmAlways ==
  ASSUME NameUsedOnce
  PROVE  Spec => [](Typed /\ Watched /\ (Calm => Intact /\ Undisturbed))
<1> DEFINE CalmInv == Typed /\ Watched /\ (Calm => Intact /\ Undisturbed)
<1>1. Init => CalmInv
  BY InitTyped, InitWatched, InitIntact, NothingDisturbed
<1>2. CalmInv /\ [Next]_vars => CalmInv'
  BY TypedStep, WatchedStep, UndisturbedStep
<1>3. QED
  BY <1>1, <1>2, PTL DEF Spec

(* The populator's and the reconciler's old copies of a VolumeSnapshot do  *)
(* not start a second snapshot: while nothing fails there is at most one.  *)
THEOREM OneEachCorrect ==
  ASSUME NameUsedOnce
  PROVE  Spec => []OneEach
<1>1. Typed /\ Watched /\ (Calm => Intact /\ Undisturbed) => OneEach
  <2>1. SUFFICES ASSUME NEW u \in Uids, \A s, t \in snaps : s = t
                 PROVE  Cardinality({s \in snaps : s.of = u}) <= 1
    BY DEF OneEach, Undisturbed, CalmBackend
  <2>2. CASE {s \in snaps : s.of = u} = {}
    BY <2>2, FS_EmptySet
  <2>3. CASE \E x \in snaps : x.of = u
    <3>1. PICK x \in snaps : x.of = u
      BY <2>3
    <3>2. {s \in snaps : s.of = u} = {x}
      BY <2>1, <3>1
    <3>3. QED
      BY <3>2, FS_Singleton
  <2>4. QED
    BY <2>2, <2>3
<1>2. QED
  BY <1>1, CalmAlways, PTL

(* While nothing fails every snapshot in the backend has its data object   *)
(* or an operation that is about to make one, and every data object can be *)
(* reached, unless the VolumeSnapshot was deleted too early.               *)
THEOREM LeftByTroubleCorrect ==
  ASSUME NameUsedOnce
  PROVE  Spec => []LeftByTrouble
<1>1. Typed /\ Watched /\ (Calm => Intact /\ Undisturbed) => LeftByTrouble
  <2>1. SUFFICES ASSUME Typed, Watched, Undisturbed, ~cut
                 PROVE  StraySnapshots = {} /\ StrayData = {}
    BY DEF LeftByTrouble
  <2>2. Uids = {1} /\ Nothing.data = 0 /\ Nothing.uid = 0 /\ (api # Nothing => api.uid = 1)
        /\ datas \subseteq VolumeSnapshotDatas
    BY <2>1, OneUid, OneObject DEF Nothing, Typed, TypeOK, BackendOK
  <2>3. CalmBackend /\ CalmCreate(create[1]) /\ CalmWorlds /\ Accounted /\ CleanedUp
    BY <2>1 DEF Undisturbed
  <2>4. ASSUME NEW s \in snaps PROVE s.n \notin StraySnapshots
    <3>1. s.n = 1
      BY <2>3 DEF CalmBackend
    <3>2. CASE datas # {}
      BY <2>3, <3>1, <3>2 DEF CalmBackend, StraySnapshots
    <3>3. CASE create[1].pc = "post"
      BY <2>2, <2>3, <3>1, <3>3 DEF CalmCreate, StraySnapshots, InHand
    <3>4. QED
      BY <2>3, <3>2, <3>3 DEF Accounted
  <2>5. ASSUME NEW d \in datas \ Reusable
        PROVE  d.n \in {asw[u].data : u \in Uids}
    <3>1. d.n = 1 /\ d.of = 1
      BY <2>2, <2>3 DEF CalmBackend, VolumeSnapshotDatas
    <3>2. asw[1] # Nothing
      <4>1. CASE api = Nothing
        BY <2>1, <2>3, <4>1 DEF CleanedUp
      <4>2. CASE api # Nothing
        BY <2>2, <3>1, <4>2 DEF Reusable
      <4>3. QED
        BY <4>1, <4>2
    <3>3. QED
      BY <2>2, <2>3, <3>1, <3>2 DEF CalmWorlds
  <2>6. StraySnapshots = {}
    BY <2>4 DEF StraySnapshots
  <2>7. StrayData = {}
    BY <2>5 DEF StrayData
  <2>8. QED
    BY <2>6, <2>7
<1>2. QED
  BY <1>1, CalmAlways, PTL
=============================================================================
