------------------------- MODULE SnapshotController -------------------------
(***************************************************************************)
(* The snapshot controller: the informer and the populator keep the        *)
(* desired state of world, the reconciler starts a create or a delete      *)
(* operation where it differs from the actual one, and an operation makes  *)
(* one request after the other to the API server and to the plugin.        *)
(* The VolumeSnapshots are those of one namespace and name, made one after *)
(* the other: the caches and the operations tell them apart by UID, the    *)
(* requests to the API server do not.                                      *)
(***************************************************************************)
EXTENDS Naturals, FiniteSets, SnapshotPlugins

CONSTANTS
  Plugins,       \* volume plugins: which one is used is chosen in Init
  MaxObjects,    \* bound: VolumeSnapshots made under the name
  MaxTries,      \* bound: attempts at taking a snapshot
  MaxFaults,     \* bound: requests that fail, snapshots that turn out bad
  MaxCrashes,    \* bound: crashes of the controller
  MaxTroubles    \* bound: faults and crashes together

ASSUME SnapshotAssumption ==
  /\ Plugins # {} /\ Plugins \subseteq LocalPlugins \cup CloudPlugins
  /\ MaxObjects \in Nat /\ MaxTries \in Nat
  /\ MaxFaults \in Nat /\ MaxCrashes \in Nat /\ MaxTroubles \in Nat

VARIABLES
  plugin,
  claimBound,  \* the source claim is bound and its PV exists
  api,         \* the VolumeSnapshot in the API server
  born,        \* how many there were under the name
  store,       \* the informer's copy
  listed,      \* what findAndAddActiveSnapshots took from the store
  dsw, asw,    \* desired and actual state of world: VolumeSnapshots by UID
  wanted, held, \* the copies of them that the reconciler goes through
  create,      \* per UID: the create operation
  delete,      \* per UID: the delete operation
  datas,       \* VolumeSnapshotData objects in the API server
  snaps,       \* snapshots in the storage backend
  tries,       \* how many attempts were numbered
  cut,         \* a VolumeSnapshot was deleted that was not in the actual world
  faults, crashes

apiVars == <<api, born, claimBound, cut>>
cacheVars == <<store, listed, dsw>>
loopVars == <<wanted, held>>
opVars == <<create, delete>>
backVars == <<datas, snaps, tries>>
vars == <<plugin, apiVars, cacheVars, loopVars, asw, opVars, backVars, faults, crashes>>

(* GetSupportedVolumeFromPVSpec                                            *)
Plugin == volumePlugins(plugin)

Uids == 1 .. MaxObjects
Tries == 1 .. MaxTries
Statuses == {"new", "pending", "ready", "error"}

(* A timestamp label, the snapshot that is taken under it and the data     *)
(* object made for that bear the number of the attempt, 0 for none.        *)
Nothing == [uid |-> 0, tag |-> 0, data |-> 0, status |-> "new"]

VolumeSnapshots ==
  [uid : Uids, tag : {0} \cup Tries, data : {0} \cup Tries, status : Statuses] \cup {Nothing}

VolumeSnapshotDatas == [n : Tries, of : Uids, status : Statuses]
BackendSnapshots == [n : Tries, of : Uids, status : States]

NoCreate ==
  [pc |-> "idle", obj |-> Nothing, vs |-> Nothing, new |-> Nothing, n |-> 0, cond |-> "new"]
NoDelete == [pc |-> "idle", data |-> 0]

CreateSteps ==
  {"idle", "known", "find", "rebind", "search", "label", "take", "post", "bind",
   "getdata", "describe", "update", "propagate"}

Init ==
  /\ plugin \in Plugins
  /\ claimBound = TRUE
  /\ api = Nothing /\ store = Nothing /\ listed = Nothing
  /\ born = 0 /\ tries = 0
  /\ dsw = [u \in Uids |-> Nothing] /\ asw = [u \in Uids |-> Nothing]
  /\ wanted = [u \in Uids |-> Nothing] /\ held = [u \in Uids |-> Nothing]
  /\ create = [u \in Uids |-> NoCreate] /\ delete = [u \in Uids |-> NoDelete]
  /\ datas = {} /\ snaps = {}
  /\ cut = FALSE
  /\ faults = 0 /\ crashes = 0
-----------------------------------------------------------------------------
(* What goes wrong.                                                        *)

Fault == faults < MaxFaults /\ faults + crashes < MaxTroubles /\ faults' = faults + 1
NoFault == UNCHANGED faults
-----------------------------------------------------------------------------
(* The user, and what surrounds the controller.                            *)

CreateObject ==
  /\ api = Nothing /\ born < MaxObjects
  /\ born' = born + 1
  /\ api' = [Nothing EXCEPT !.uid = born + 1]
  /\ UNCHANGED <<plugin, claimBound, cut, cacheVars, loopVars, asw, opVars, backVars, faults, crashes>>

DeleteObject ==
  /\ api # Nothing
  /\ api' = Nothing
  /\ cut' = (cut \/ asw[api.uid] = Nothing)
  /\ UNCHANGED <<plugin, claimBound, born, cacheVars, loopVars, asw, opVars, backVars, faults, crashes>>

(* The claim is deleted, and its PV.                                       *)
DeleteClaim ==
  /\ claimBound /\ claimBound' = FALSE
  /\ UNCHANGED <<plugin, api, born, cut, cacheVars, loopVars, asw, opVars, backVars, faults, crashes>>

(* A snapshot of a cloud is completed in the background, or fails.         *)
Settle ==
  \E s \in snaps, status \in {"ready", "error"} :
    /\ s.status = "pending"
    /\ snaps' = (snaps \ {s}) \cup {[s EXCEPT !.status = status]}
    /\ IF status = "error" THEN Fault ELSE NoFault
    /\ UNCHANGED <<plugin, apiVars, cacheVars, loopVars, asw, opVars, datas, tries, crashes>>
-----------------------------------------------------------------------------
(* DesiredStateOfWorld and ActualStateOfWorld: maps of what the controller *)
(* wants and believes it has, with the same methods.                       *)

AddSnapshot(world, snapshot) == [world EXCEPT ![snapshot.uid] = snapshot]

DeleteSnapshot(world, name) == [world EXCEPT ![name] = Nothing]

SnapshotExists(world, name) == world[name] # Nothing
-----------------------------------------------------------------------------
(* The informer's handlers.  The watch may skip versions; only after it    *)
(* was interrupted does a new object look like an update of the old one.   *)

onSnapshotAdd ==
  /\ store = Nothing /\ api # Nothing
  /\ store' = api
  /\ dsw' = AddSnapshot(dsw, api)
  /\ NoFault
  /\ UNCHANGED <<plugin, apiVars, listed, loopVars, asw, opVars, backVars, crashes>>

onSnapshotUpdate ==
  /\ store # Nothing /\ api \notin {Nothing, store}
  /\ IF api.uid = store.uid THEN NoFault ELSE Fault
  /\ store' = api
  /\ dsw' = IF api.data # store.data THEN AddSnapshot(dsw, api) ELSE dsw
  /\ UNCHANGED <<plugin, apiVars, listed, loopVars, asw, opVars, backVars, crashes>>

onSnapshotDelete ==
  /\ store # Nothing /\ api.uid # store.uid
  /\ store' = Nothing
  /\ dsw' = DeleteSnapshot(dsw, store.uid)
  /\ NoFault
  /\ UNCHANGED <<plugin, apiVars, listed, loopVars, asw, opVars, backVars, crashes>>

(* Faulty: the test whether the world has the entry is the wrong way round. *)
BadfindAndRemoveDeletedSnapshots(u) ==
  /\ dsw[u] = Nothing /\ store = Nothing
  /\ dsw' = DeleteSnapshot(dsw, u)
  /\ UNCHANGED <<plugin, apiVars, store, listed, loopVars, asw, opVars, backVars, faults, crashes>>

(* The populator.  The store is asked by namespace and name.               *)
findAndRemoveDeletedSnapshots(u) ==
  /\ SnapshotExists(dsw, u) /\ store = Nothing
  /\ dsw' = DeleteSnapshot(dsw, u)
  /\ UNCHANGED <<plugin, apiVars, store, listed, loopVars, asw, opVars, backVars, faults, crashes>>

ListSnapshots ==
  /\ listed = Nothing /\ store # Nothing
  /\ listed' = store
  /\ UNCHANGED <<plugin, apiVars, store, dsw, loopVars, asw, opVars, backVars, faults, crashes>>

findAndAddActiveSnapshots ==
  /\ listed # Nothing
  /\ listed' = Nothing
  /\ dsw' = IF SnapshotExists(dsw, listed.uid) THEN dsw ELSE AddSnapshot(dsw, listed)
  /\ UNCHANGED <<plugin, apiVars, store, loopVars, asw, opVars, backVars, faults, crashes>>
-----------------------------------------------------------------------------
(* The reconciler goes through a copy of each world, and looks into the    *)
(* other one when it comes to an entry.                                    *)

GetActual(u) ==
  /\ held[u] = Nothing /\ asw[u] # Nothing
  /\ held' = [held EXCEPT ![u] = asw[u]]
  /\ UNCHANGED <<plugin, apiVars, cacheVars, wanted, asw, opVars, backVars, faults, crashes>>

GetDesired(u) ==
  /\ wanted[u] = Nothing /\ dsw[u] # Nothing
  /\ wanted' = [wanted EXCEPT ![u] = dsw[u]]
  /\ UNCHANGED <<plugin, apiVars, cacheVars, held, asw, opVars, backVars, faults, crashes>>

(* Faulty: the copy of the actual world is not compared with the desired   *)
(* one.                                                                    *)
BadDeleteVolumeSnapshot(u) ==
  /\ held[u] # Nothing
  /\ held' = [held EXCEPT ![u] = Nothing]
  /\ delete' = IF delete[u] = NoDelete
               THEN [delete EXCEPT ![u] = [pc |-> "get", data |-> held[u].data]]
               ELSE delete
  /\ UNCHANGED <<plugin, apiVars, cacheVars, wanted, asw, create, backVars, faults, crashes>>

(* An operation of the same name may be running still.                     *)
DeleteVolumeSnapshot(u) ==
  /\ held[u] # Nothing
  /\ held' = [held EXCEPT ![u] = Nothing]
  /\ delete' = IF ~SnapshotExists(dsw, u) /\ delete[u] = NoDelete
               THEN [delete EXCEPT ![u] = [pc |-> "get", data |-> held[u].data]]
               ELSE delete
  /\ UNCHANGED <<plugin, apiVars, cacheVars, wanted, asw, create, backVars, faults, crashes>>

(* Faulty: a pending snapshot is left to the operation that began it.      *)
LazysyncSnapshot == [new |-> "find", ready |-> "known"]

(* How a create operation begins, depending on the status of the object;   *)
(* one in error stays so.                                                  *)
syncSnapshot == [new |-> "find", pending |-> "getdata", ready |-> "known"]

Begun(obj) == [NoCreate EXCEPT !.pc = syncSnapshot[obj.status], !.obj = obj, !.vs = obj]

(* Faulty: it does not matter whether an operation is running.             *)
EagerCreateVolumeSnapshot(u) ==
  /\ wanted[u] # Nothing
  /\ wanted' = [wanted EXCEPT ![u] = Nothing]
  /\ create' = IF asw[u] = Nothing /\ wanted[u].status \in DOMAIN syncSnapshot
               THEN [create EXCEPT ![u] = Begun(wanted[u])]
               ELSE create
  /\ UNCHANGED <<plugin, apiVars, cacheVars, held, asw, delete, backVars, faults, crashes>>

CreateVolumeSnapshot(u) ==
  /\ wanted[u] # Nothing
  /\ wanted' = [wanted EXCEPT ![u] = Nothing]
  /\ create' = IF /\ ~SnapshotExists(asw, u) /\ create[u] = NoCreate
                  /\ wanted[u].status \in DOMAIN syncSnapshot
               THEN [create EXCEPT ![u] = Begun(wanted[u])]
               ELSE create
  /\ UNCHANGED <<plugin, apiVars, cacheVars, held, asw, delete, backVars, faults, crashes>>
-----------------------------------------------------------------------------
(* The create operation.  An operation that failed is idle again, and the  *)
(* reconciler starts it anew after the backoff.                            *)

Step(u, op) ==
  /\ create' = [create EXCEPT ![u] = op]
  /\ UNCHANGED <<plugin, claimBound, born, cut, cacheVars, loopVars, delete, crashes>>

Goto(u, pc) == Step(u, [create[u] EXCEPT !.pc = pc])
Fail(u) == Step(u, NoCreate)
At(u, pc) == create[u].pc = pc

AddKnown(u) ==
  /\ At(u, "known")
  /\ asw' = [asw EXCEPT ![u] = create[u].obj]
  /\ Fail(u) /\ NoFault /\ UNCHANGED <<api, backVars>>

(* getSnapshotDataFromSnapshotName: an error of the list is as good as no  *)
(* data object.                                                            *)
FindData(u) ==
  /\ At(u, "find")
  /\ \/ /\ \E d \in datas :
             /\ d.of = u
             /\ Step(u, [create[u] EXCEPT !.pc = "rebind", !.obj = Nothing, !.n = d.n])
        /\ NoFault
     \/ /\ IF \E d \in datas : d.of = u THEN Fault ELSE NoFault
        /\ Goto(u, "search")
  /\ UNCHANGED <<api, asw, backVars>>

(* The claim of the VolumeSnapshot leads to a PV.                          *)
HasPV == claimBound

(* A snapshot with the tags of the object that the operation was given.    *)
Found(u) == \E s \in snaps : s.n = create[u].obj.tag /\ s.of = u

(* The plugin is that of the PV.                                           *)
FindSnapshot(u) == HasPV /\ Plugin.finds /\ Found(u)

(* What is found is of no use: the label with the name of the PV that      *)
(* updateSnapshotIfExists looks for is missing.                            *)
SearchSnapshot(u) ==
  /\ At(u, "search")
  /\ \/ FindSnapshot(u) /\ Fail(u) /\ NoFault
     \/ /\ IF FindSnapshot(u) THEN Fault ELSE NoFault
        /\ Step(u, [create[u] EXCEPT !.pc = "label", !.obj = Nothing, !.vs = Nothing])
  /\ UNCHANGED <<api, asw, backVars>>

(* GET and PUT of the VolumeSnapshot, by name.  The PUT fails if the       *)
(* object is gone or was changed in between.                               *)
Contended(u) == api = Nothing \/ \E w \in Uids \ {u} : ~At(w, "idle")

PutObject(u, new, op) ==
  \/ api # Nothing /\ api' = new /\ Step(u, op) /\ NoFault
  \/ Contended(u) /\ Fail(u) /\ NoFault /\ UNCHANGED api
  \/ Fault /\ Fail(u) /\ api' \in IF api = Nothing THEN {api} ELSE {api, new}

(* Binding a data object that was found leaves the conditions alone.       *)
RebindData(u) ==
  LET new == [api EXCEPT !.data = create[u].n]
  IN  /\ At(u, "rebind")
      /\ PutObject(u, new, [create[u] EXCEPT !.pc = "getdata", !.vs = new])
      /\ UNCHANGED <<asw, backVars>>

(* createSnapshot, up to the labels: a new timestamp for every attempt.    *)
updateVolumeSnapshotMetadata(u) ==
  LET new == [api EXCEPT !.tag = tries + 1]
  IN  /\ At(u, "label")
      /\ \/ /\ HasPV /\ tries < MaxTries
            /\ PutObject(u, new, [create[u] EXCEPT !.pc = "take", !.vs = new, !.n = tries + 1])
            /\ tries' = IF api'.tag = tries + 1 THEN tries + 1 ELSE tries
         \/ /\ IF HasPV THEN Fault ELSE NoFault
            /\ Fail(u) /\ UNCHANGED <<api, tries>>
      /\ UNCHANGED <<asw, datas, snaps>>

(* Faulty: a snapshot counts as ready once it is requested.                *)
BadtakeSnapshot(u) ==
  LET c == create[u]
      Taken(status) == snaps \cup {[n |-> c.n, of |-> c.vs.uid, status |-> status]}
  IN  /\ At(u, "take")
      /\ \E status \in Plugin.begins :
           \/ /\ snaps' = Taken(status)
              /\ Step(u, [c EXCEPT !.pc = "post", !.cond = "ready"]) /\ NoFault
           \/ /\ Fault
              /\ snaps' \in {snaps, Taken(status)}
              /\ Fail(u)
      /\ UNCHANGED <<api, asw, datas, tries>>

(* SnapshotCreate; what a request that failed left behind stays.           *)
takeSnapshot(u) ==
  LET c == create[u]
      Taken(status) == snaps \cup {[n |-> c.n, of |-> c.vs.uid, status |-> status]}
      next(status) == [c EXCEPT !.pc = "post", !.cond = Plugin.told[status]]
  IN  /\ At(u, "take")
      /\ \E status \in Plugin.begins :
           \/ snaps' = Taken(status) /\ Step(u, next(status)) /\ NoFault
           \/ snaps' \in {snaps, Taken(status)} /\ Fail(u) /\ Fault
           \/ Plugin.forgets /\ snaps' = Taken(status) /\ Step(u, next(status)) /\ Fault
      /\ UNCHANGED <<api, asw, datas, tries>>

(* Every POST names a data object of its own.                              *)
createVolumeSnapshotData(u) ==
  LET c == create[u]
      posted == datas \cup {[n |-> c.n, of |-> u, status |-> c.cond]}
  IN  /\ At(u, "post")
      /\ \/ datas' = posted /\ Goto(u, "bind") /\ NoFault
         \/ Fault /\ datas' \in {datas, posted} /\ Fail(u)
      /\ UNCHANGED <<api, asw, snaps, tries>>

bindandUpdateVolumeSnapshot(u) ==
  LET c == create[u]
      new == [api EXCEPT !.data = c.n, !.status = c.cond]
  IN  /\ At(u, "bind")
      /\ PutObject(u, new, [c EXCEPT !.pc = "describe", !.vs = new])
      /\ UNCHANGED <<asw, backVars>>

(* getSnapshotDataFromSnapshot                                             *)
GetData(u) ==
  LET c == create[u]
  IN  /\ At(u, "getdata")
      /\ \/ /\ \E d \in datas : d.n = c.vs.data
            /\ Step(u, [c EXCEPT !.pc = "describe", !.n = c.vs.data]) /\ NoFault
         \/ /\ IF \E d \in datas : d.n = c.vs.data THEN Fault ELSE NoFault
            /\ Fail(u)
      /\ UNCHANGED <<api, asw, backVars>>

(* Faulty: the error of the description is overlooked.                     *)
BadAnswers(n) ==
  LET found == {s.status : s \in {t \in snaps : t.n = n}}
  IN  {Plugin.describes[state] : state \in IF found = {} THEN {"gone"} ELSE found}

(* waitForSnapshot: what the plugin tells of a snapshot, without errors.   *)
Answers(n) ==
  LET found == {s.status : s \in {t \in snaps : t.n = n}}
      states == IF found = {} THEN {"gone"} ELSE found
  IN  {Plugin.describes[state] : state \in states} \ {"no answer"}

DescribeSnapshot(u) ==
  /\ At(u, "describe")
  /\ \/ /\ \E answer \in Answers(create[u].n) :
             Step(u, [create[u] EXCEPT !.pc = "update", !.cond = answer])
        /\ NoFault
     \/ /\ IF Answers(create[u].n) = {} THEN NoFault ELSE Fault
        /\ Fail(u)
  /\ UNCHANGED <<api, asw, backVars>>

(* A nil VolumeSnapshot panics in AddSnapshot; the panic ends the          *)
(* operation with an error.                                                *)
Finish(u, new) ==
  LET c == create[u]
  IN  CASE c.cond = "ready" ->
             /\ asw' = IF new = Nothing THEN asw ELSE AddSnapshot(asw, new)
             /\ Fail(u)
        [] c.cond = "error" -> UNCHANGED asw /\ Fail(u)
        [] OTHER -> UNCHANGED asw /\ Step(u, [c EXCEPT !.pc = "describe", !.new = Nothing])

(* UpdateVolumeSnapshotStatus, up to the PUT                               *)
UpdateVolumeSnapshotStatus(u) ==
  LET c == create[u]
      new == [api EXCEPT !.status = c.cond]
  IN  /\ At(u, "update")
      /\ \/ /\ api # Nothing /\ api.status = c.cond
            /\ Finish(u, c.vs) /\ NoFault /\ UNCHANGED api
         \/ /\ api.status # c.cond
            /\ api # Nothing /\ api' = new
            /\ Step(u, [c EXCEPT !.pc = "propagate", !.new = new])
            /\ NoFault /\ UNCHANGED asw
         \/ Contended(u) /\ Finish(u, Nothing) /\ NoFault /\ UNCHANGED api
         \/ /\ Fault /\ Finish(u, Nothing)
            /\ api' \in IF api = Nothing THEN {api} ELSE {api, new}
      /\ UNCHANGED backVars

(* GET and PUT of the data object that the fresh VolumeSnapshot names.     *)
propagateVolumeSnapshotCondition(u) ==
  LET c == create[u]
      told == {IF d.n = c.new.data THEN [d EXCEPT !.status = c.cond] ELSE d : d \in datas}
      there == \E d \in datas : d.n = c.new.data
  IN  /\ At(u, "propagate")
      /\ \/ there /\ datas' = told /\ Finish(u, c.new) /\ NoFault
         \/ /\ IF there THEN Fault ELSE NoFault
            /\ datas' \in {datas, told}
            /\ Finish(u, Nothing)
      /\ UNCHANGED <<api, snaps, tries>>
-----------------------------------------------------------------------------
(* The delete operation.                                                   *)

DelStep(u, op) ==
  /\ delete' = [delete EXCEPT ![u] = op]
  /\ UNCHANGED <<plugin, apiVars, cacheVars, loopVars, create, tries, crashes>>

DelGoto(u, pc) == DelStep(u, [delete[u] EXCEPT !.pc = pc])

GetDataToDelete(u) ==
  LET there == \E d \in datas : d.n = delete[u].data
  IN  /\ delete[u].pc = "get"
      /\ \/ there /\ DelGoto(u, "remove") /\ NoFault
         \/ (IF there THEN Fault ELSE NoFault) /\ DelStep(u, NoDelete)
      /\ UNCHANGED <<asw, datas, snaps>>

(* Faulty: the backend is not asked to remove anything.                    *)
BaddeleteSnapshot(u) ==
  /\ delete[u].pc = "remove"
  /\ DelGoto(u, "drop") /\ NoFault
  /\ UNCHANGED <<asw, datas, snaps>>

(* SnapshotDelete; the nil pointer of a PV that is gone panics.            *)
deleteSnapshot(u) ==
  LET mine == {s \in snaps : s.n = delete[u].data}
      lacking == Plugin.needsPV /\ ~claimBound
      refused == lacking \/ (mine = {} /\ ~Plugin.forgives /\ ~Plugin.deaf)
  IN  /\ delete[u].pc = "remove"
      /\ \/ ~refused /\ snaps' = snaps \ mine /\ DelGoto(u, "drop") /\ NoFault
         \/ refused /\ UNCHANGED snaps /\ DelStep(u, NoDelete) /\ NoFault
         \/ /\ Fault
            /\ snaps' \in IF lacking THEN {snaps} ELSE {snaps, snaps \ mine}
            /\ IF Plugin.deaf THEN DelGoto(u, "drop") ELSE DelStep(u, NoDelete)
      /\ UNCHANGED <<asw, datas>>

DeleteData(u) ==
  LET mine == {d \in datas : d.n = delete[u].data}
  IN  /\ delete[u].pc = "drop"
      /\ DelStep(u, NoDelete)
      /\ \/ /\ mine # {}
            /\ datas' = datas \ mine /\ asw' = DeleteSnapshot(asw, u) /\ NoFault
         \/ /\ IF mine = {} THEN NoFault ELSE Fault
            /\ datas' \in {datas, datas \ mine} /\ UNCHANGED asw
      /\ UNCHANGED snaps
-----------------------------------------------------------------------------
(* The controller keeps nothing over a restart; it lists the objects anew. *)
Crash ==
  /\ crashes < MaxCrashes /\ faults + crashes < MaxTroubles
  /\ crashes' = crashes + 1
  /\ store' = api /\ listed' = Nothing
  /\ dsw' = [u \in Uids |-> IF u = api.uid THEN api ELSE Nothing]
  /\ asw' = [u \in Uids |-> Nothing]
  /\ wanted' = [u \in Uids |-> Nothing] /\ held' = [u \in Uids |-> Nothing]
  /\ create' = [u \in Uids |-> NoCreate] /\ delete' = [u \in Uids |-> NoDelete]
  /\ UNCHANGED <<plugin, apiVars, backVars, faults>>

Creating(u) ==
  \/ AddKnown(u) \/ FindData(u) \/ SearchSnapshot(u) \/ RebindData(u)
  \/ updateVolumeSnapshotMetadata(u) \/ takeSnapshot(u) \/ createVolumeSnapshotData(u)
  \/ bindandUpdateVolumeSnapshot(u) \/ GetData(u) \/ DescribeSnapshot(u)
  \/ UpdateVolumeSnapshotStatus(u) \/ propagateVolumeSnapshotCondition(u)

Deleting(u) == GetDataToDelete(u) \/ deleteSnapshot(u) \/ DeleteData(u)

Reconcile(u) ==
  GetActual(u) \/ GetDesired(u) \/ DeleteVolumeSnapshot(u) \/ CreateVolumeSnapshot(u)

Informer == onSnapshotAdd \/ onSnapshotUpdate \/ onSnapshotDelete

Next ==
  \/ CreateObject \/ DeleteObject \/ DeleteClaim \/ Settle
  \/ Informer \/ ListSnapshots \/ findAndAddActiveSnapshots
  \/ \E u \in Uids :
       \/ findAndRemoveDeletedSnapshots(u)
       \/ Reconcile(u) \/ Creating(u) \/ Deleting(u)
  \/ Crash

Spec == Init /\ [][Next]_vars

Fairness ==
  /\ WF_vars(Informer) /\ WF_vars(Settle)
  /\ \A u \in Uids :
       /\ WF_vars(findAndRemoveDeletedSnapshots(u))
       /\ WF_vars(GetDesired(u) \/ CreateVolumeSnapshot(u)) /\ WF_vars(Creating(u))
       /\ WF_vars(GetActual(u) \/ DeleteVolumeSnapshot(u)) /\ WF_vars(Deleting(u))

FairSpec == Spec /\ Fairness
-----------------------------------------------------------------------------
ApiOK ==
  /\ plugin \in Plugins /\ claimBound \in BOOLEAN /\ cut \in BOOLEAN
  /\ api \in VolumeSnapshots /\ store \in VolumeSnapshots /\ listed \in VolumeSnapshots
  /\ born \in 0 .. MaxObjects

WorldsOK ==
  /\ dsw \in [Uids -> VolumeSnapshots] /\ asw \in [Uids -> VolumeSnapshots]
  /\ wanted \in [Uids -> VolumeSnapshots] /\ held \in [Uids -> VolumeSnapshots]
  /\ \A u \in Uids : dsw[u].uid \in {0, u} /\ asw[u].uid \in {0, u}

Creates ==
  [pc : CreateSteps, obj : VolumeSnapshots, vs : VolumeSnapshots, new : VolumeSnapshots,
   n : {0} \cup Tries, cond : Statuses]
Deletes == [pc : {"idle", "get", "remove", "drop"}, data : {0} \cup Tries]

OperationsOK == create \in [Uids -> Creates] /\ delete \in [Uids -> Deletes]

BackendOK ==
  /\ datas \subseteq VolumeSnapshotDatas /\ snaps \subseteq BackendSnapshots
  /\ tries \in 0 .. MaxTries

BoundsOK == faults \in 0 .. MaxFaults /\ crashes \in 0 .. MaxCrashes

TypeOK == ApiOK /\ WorldsOK /\ OperationsOK /\ BackendOK /\ BoundsOK

Calm == faults + crashes = 0

(* The snapshots and data objects that an operation deals with.            *)
InHand == {create[u].n : u \in Uids} \cup {delete[u].data : u \in Uids}

StraySnapshots == {s.n : s \in snaps} \ ({d.n : d \in datas} \cup InHand)

(* A data object is of use if the VolumeSnapshot it was made for exists    *)
(* and will find it, if it is bound, or if the actual world knows it.      *)
Reusable == {e \in datas : e.of = api.uid /\ asw[e.of] = Nothing}

StrayData ==
  {d.n : d \in datas \ Reusable} \ ({api.data} \cup {asw[u].data : u \in Uids} \cup InHand)

(* Undisturbed, no snapshot stays in the backend that no data object       *)
(* stands for, and no data object that nobody will delete, unless the      *)
(* VolumeSnapshot was deleted before it was in the actual world.           *)
LeftByTrouble == StraySnapshots \cup StrayData # {} => ~Calm \/ cut

(* A VolumeSnapshot that says it is ready names a data object that was     *)
(* made for it and a snapshot that is completed in the backend.            *)
ReadyIsBacked ==
  api.status = "ready" =>
    /\ \E d \in datas : d.n = api.data /\ d.of = api.uid
    /\ \E s \in snaps : s.n = api.data /\ s.status = "ready"

(* A VolumeSnapshot leads to one snapshot in the backend: the populator's  *)
(* and the reconciler's old copies of it do not start a second one.        *)
OneEach ==
  \A u \in Uids : Calm => Cardinality({s \in snaps : s.of = u}) <= 1

(* The reconciler, comparing two worlds that change while it looks, never  *)
(* deletes the snapshot of a VolumeSnapshot that exists and is bound.      *)
KeptWhileBound ==
  [][\A s \in snaps : s.n = api.data => \E t \in snaps' : t.n = s.n]_vars
-----------------------------------------------------------------------------
Failed(u) == \E s \in snaps : s.of = u /\ s.status = "error"

(* Whatever request fails, and whenever the controller crashes, a          *)
(* VolumeSnapshot gets into the actual world at last, if its claim stays   *)
(* and its snapshot does not turn out bad; and if no snapshot of Cinder is *)
(* found again, which is an error for ever.                                *)
Completed == \A u \in Uids :
  api.uid = u ~>
    \/ api.uid # u \/ asw[u] # Nothing
    \/ ~claimBound \/ Failed(u) \/ FindSnapshot(u)

(* The snapshot and the data object of a deleted VolumeSnapshot that the   *)
(* actual world knows are removed at last, as long as the controller does  *)
(* not crash; Cinder forgets a deletion that failed, and the plugins that  *)
(* cannot delete twice leave the data object of a lost answer.             *)
Removed == \A u \in Uids, n \in Tries :
  asw[u].data = n /\ api.uid # u ~>
    \/ /\ (\E s \in snaps : s.n = n) => plugin = "cinder" /\ faults > 0
       /\ (\E d \in datas : d.n = n) => plugin \notin {"gce-pd", "cinder"} /\ faults > 0
    \/ crashes > 0
    \/ plugin = "openebs" /\ ~claimBound
-----------------------------------------------------------------------------
(* What types.go says of VolumeSnapshotRef, "part of bi-directional        *)
(* binding": the data object that a VolumeSnapshot names was made for it,  *)
(* not for an earlier one of its name.                                     *)
BoundBothWays ==
  \A d \in datas : d.n = api.data => d.of = api.uid
=============================================================================
