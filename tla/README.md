# Verification of external-storage

TLA+ modules, TLC configurations and TLAPS proofs for the volume provisioners
of this repository.  Paths are relative to the repository; `controller.go`
alone means `lib/controller/controller.go`.

1. [The system](#1-the-system)
2. [Modules](#2-modules)
3. [Runs](#3-runs)
4. [Fairness](#4-fairness)
5. [Proofs](#5-proofs)
6. [What the code does not do](#6-what-the-code-does-not-do)
7. [What is not modelled](#7-what-is-not-modelled)
8. [Plan](#8-plan)

## 1. The system

Users create PersistentVolumeClaims.  A provisioner makes a *storage asset* (a
directory, a cloud disk, ...) for a claim and stores a PersistentVolume (PV)
object that describes it; Kubernetes binds claim and PV.  When the claim is
deleted the PV becomes Released, and the provisioner removes first the asset,
then the object.  Nearly all provisioners are a pair of functions, `Provision`
and `Delete`, called by one library, `lib/controller`.

The parts, with what makes each of them correct:

| part | state | operations | correct when |
|---|---|---|---|
| controller library, `lib/controller` | informer caches of claims, PVs and classes; two rate-limited work queues; local variables of the workers | event handlers, resync, `syncClaim`/`provisionClaimOperation`, `syncVolume`/`deleteVolumeOperation` | no event or retry is lost; at most one worker serves a claim; an asset goes only when nobody can use it, its PV object only after it; wanted volumes are made, unwanted ones removed |
| number allocator, `lib/allocator` | range, used numbers, counter of free ones, one mutex | `Allocate`, `AllocateNext`, `Release`, `SetRange` | the counter is exact while the range moves; no number is held twice |
| GID allocator, `lib/gidallocator` | one number table per storage class, built from the PVs on first use | `AllocateNext`, `Release` | no two PVs of a class share a GID |
| EFS provisioner, `aws/efs` | directories, the GID allocator | `Provision`, `Delete` | a bound volume has a directory of its GID |
| NFS provisioner, `nfs/pkg/volume`, `nfs/pkg/server` | directories, map and config file of export ids, map and projects file of quota ids, the running NFS server | `createVolume`, `Delete`, restart of server and provisioner | every bound volume stays exported and limited, under ids of its own |
| local volume provisioner, `local-volume/provisioner` | `VolumeCache`, `ProcTable`, cleaning Jobs | a loop of `DeletePVs` and `DiscoverLocalVolumes`, cleaning goroutines or Jobs | a PV is offered only when its volume was cleaned, and then it is offered |
| snapshot controller, `snapshot/pkg/controller` | desired and actual world in memory, running operations, VolumeSnapshot and VolumeSnapshotData objects | event handlers, populator, reconciler, create and delete operations | one backend snapshot per VolumeSnapshot, none without one, and none deleted that is bound |
| snapshot plugins and cloud providers, `snapshot/pkg/volume`, `snapshot/pkg/cloudprovider` | none; snapshots and disks in a cloud | create, delete, describe, find | repeatable; what they tell is what the cloud has |
| snapshot promoter, `snapshot/cmd/snapshot-provisioner` | none | `Provision` from a snapshot, `Delete` | no volume that no PV names |
| OpenEBS provisioner, `openebs/pkg` | none; volumes of the Maya API server | read, create, delete over REST | repeatable |
| GlusterFS file, block and volume provisioners | GID allocator and the options of the last call (file); volumes, bricks, services, secrets | `Provision`, `Delete`, clone | no volume in heketi that no PV knows; each claim has its endpoint |
| CephFS, RBD, targetd, DigitalOcean, flex, NFS client, hostpath demo | none | `Provision`, `Delete` as one or a few requests of a service | repeatable; an asset in use stays |

How they interact: the controller reads the API server through caches that lag
behind it, and writes to it directly.  Each worker goroutine calls `Provision`
or `Delete` of its provisioner; several may do so at once, for different
volumes.  A call that fails is repeated after a delay until a threshold is
reached.  A process that loses its leadership exits, so a restart may happen
between any two steps; caches and queues are then filled again from the API
server, while files, directories and exports are as they were.

What is hard here, and what the properties are aimed at (the list with lines is
`hazards` in `PROJECT.json`):

* answers get lost: a PV that "could not be saved" may exist, a `Delete` that
  "failed" may have done part of its work, and is repeated from its first line;
* resources are given back early (GIDs, export and project ids) and may belong
  to somebody else when the same `Delete` is repeated;
* decisions are taken on cached objects;
* the work queue is used against its protocol: `forgetWork` calls `Done` for a
  key that another goroutine may be processing;
* an error path undoes part of what was done, and its own errors are only logged;
* names are made up for each attempt, so a repetition does not find what the
  attempt before it left; or they are fixed, and what is there is an error;
* state that is shared by calls without need: the options of the GlusterFS file
  provisioner, the LUN that targetd's provisioner read before;
* two worlds are compared while both change, and objects that the caches know by
  UID are read and written by name;
* a cleaning is noted under a PV's name and may outlive the PV.

## 2. Modules

```
MinMaxTable ---- MinMaxAllocator ----------- MCMinMaxAllocator
    |        \-- MinMaxTableProofs --------- MinMaxAllocatorProofs
    \--- GidAllocator -- EFSProvisioner ---- MCEFSProvisioner
                               \------------ EFSProvisionerProofs
WorkQueue -- ProvisionController ----------- MCProvisionController
    |             \ (INSTANCE VolumeLifecycle)
                  \------------------------- ProvisionControllerProofs
IdStore ---- NfsProvisioner ---------------- MCNfsProvisioner
                  \------------------------- NfsProvisionerProofs
             LocalVolume ------------------- MCLocalVolume
                  \------------------------- LocalVolumeProofs
StorageCalls -- DirectoryProvisioners --\
             |- CephProvisioners -------|
             |- PluginProvisioners -----|- Provisioners -- MCProvisioners
             |- TargetdProvisioner -----|         \------ ProvisionersProofs
             |- GlusterProvisioners ----|
             \- SnapshotPromoter -------/
SnapshotPlugins -- SnapshotController ------ SnapshotControllerProofs
```

The lines each definition stands for are in `PROJECT.json`, `map`.  Operators
and actions named `Bad...` are faulty variants: each property is run against
one of them to show that it notices the fault.

**MinMaxTable** (`lib/allocator/minmax.go`).  The mutex makes each method
atomic, so a method is an operator on a record.  `AllocateNext` is split into
its answers: `IsNext`, `RangeFull`, `ScanFails` (the branch the code calls
"shouldn't happen").  **MinMaxAllocator** lets callers use one table: they hold
numbers, give them back, and move the range meanwhile.

**WorkQueue** (client-go's rate-limited queue, vendored).  Each method runs
under a lock, so it is an operator on a record `queue, dirty, processing,
delayed, requeues`.  Delays are not measured.  The details that matter are
kept: `Done` appends a dirty key without asking whether it is on the queue
already, and `Add` of a key in processing only marks it.

**ProvisionController** (`controller.go`).  The API server (`claims`, `pvs`,
`class`), the watch events under way, the caches, the two queues, the workers,
and the backend (`assets`).  A worker has a program counter and makes one step
per call of the API server or of the provisioner, so that everything else can
happen between two calls.  A call may fail before or after it took effect; which
kinds of failure are possible is `FaultKinds`.  `Restart` is a crash at any
step: caches are filled by a list, the queues hold what was listed in any order,
nothing else survives.  Users, the PV binder and the finalizers are actions of
their own, taken from what the code expects of them.  The provisioner called is
any one that names the asset after the PV.

**VolumeLifecycle** is what the library promises about one volume, without
queues, caches and workers: an asset is made before its object is published,
dropped only before that or after the release, and the object is withdrawn after
the asset.  `ProvisionController` maps the detailed state to it (an object with
a deletion timestamp counts as withdrawn); every step is a step of the lifecycle
or a stutter, which a run checks and ProvisionControllerProofs proves.

**GidAllocator** (`lib/gidallocator/allocator.go`): the table of one storage
class and the calls that are inside the allocator.  The mutex protects single
steps only: a call looks for the table, collects the GIDs of all PVs into a table
of its own if there is none, installs it unless one appeared meanwhile, sets the
range of its class, and then allocates or releases.  **EFSProvisioner**
(`aws/efs`) uses it: `Provision` with `createVolume`, the controller's save and
its cleanup, `Delete`, restarts, and a storage class that is created again with
another range.

**IdStore** (`nfs/pkg/volume/util.go`, the types of `export.go`): a map of ids
in use and a file of blocks, each behind its own mutex.  **NfsProvisioner** has
two of them, for exports and for quota projects, the directories, and `live`, what
the NFS server exports now.  `createVolume` and `Delete` are sequences of steps
of a worker; what a failed `createVolume` undoes, what the controller's cleanup
does and what `Delete` does are the same steps under different `task`s, because
they differ in which errors they ignore.  Of Ganesha the model assumes that it
exports no id and no path twice, refuses `AddExport` for a duplicate, and loads a
maximal duplicate-free part of its config when it starts.  The kernel exports
whatever `/etc/exports` says.

**LocalVolume** (`local-volume/provisioner`): one provisioner on its node.  The
loop goes through the released PVs of `VolumeCache`, then through the discovered
paths.  Cleanings are goroutines (noted in the ProcTable) or Jobs (noted at the
API server, seen through a cache); both modes are in one model, chosen by
`useJob`.  `dirty` says which volumes hold data of a user; it is not seen by
the code and is what the properties are about.

**StorageCalls** is what the provisioners without state of their own have in
common.  Ten of the repository's provisioners are a `Provision` and a `Delete`
that make a few requests of some service; what is hard about them is what a
request that failed, or whose answer was lost, leaves behind, and what its
repetition finds.  A volume has a `call` under way with a program counter and the
assets that this attempt `made`; `has` is what the service has, `pv` what the PV
object names.  `Request` is any request: it takes effect and succeeds, or fails
before or after its effect.  `Create` refuses a name that is taken, `Ensure` does
not; `Remove` refuses what is not there, `RemoveIfThere` does not.  Most of what
differs between the provisioners is which of these a request is, in which order
they come, and where an error leads.  The controller around the calls is that of
`lib/controller` with everything taken out that ProvisionController is about: it
repeats `Provision` and `Delete` until they succeed, and calls `Delete` with what
was made when the PV could not be saved.  The storage class may become invalid or
be deleted between two calls (`class`), and the process may die (`Crash`, or `Die`
where the code panics).

Each provisioner adds its requests, and a value of `kind`, chosen in `Init`:

* **DirectoryProvisioners**: the hostpath demo and the NFS client provisioner, which
  may keep a deleted directory under another name.
* **CephProvisioners**: RBD with names made up per attempt and the look at the
  watchers before an image is removed; CephFS with share, user and secret, and
  with `deterministicNames` (`cephfsFixed`).
* **PluginProvisioners**: flex, DigitalOcean with its attach and detach, OpenEBS.
* **TargetdProvisioner**: the LUN is the first that was free in a list read before
  the volume is made.
* **GlusterProvisioners**: the volume provisioner (bricks, volume, start, service,
  and the deletion that only logs errors), the file provisioner with and without
  clone, the block provisioner with heketi and with the `gluster-block` command.
  `memory` is the field `p.options` that all workers of the file provisioner share.
* **SnapshotPromoter**: volumes made from snapshots by six plugins.

**Provisioners** composes them with the nodes that map, attach and detach, and
states the properties of all.

**SnapshotPlugins** says what the snapshot controller gets to see of a backend.  A
plugin is a record: in which states its snapshots begin, which condition it makes
of a cloud's word for a state, which states are an error to describe, whether
what is gone can be deleted.  The words go through the code's own conversions
(`convertAWSStatus` and the like).  **SnapshotController** is the controller with one
of six plugins: the informer's handlers and the populator write the desired world,
the reconciler goes through a copy of each world and looks into the other one
when it comes to an entry, and create and delete operations make one request per
step.  VolumeSnapshots of one namespace and name come one after the other; they
are told apart by their UID in caches and operations, and not in requests.

## 3. Runs

`tlc -config X.cfg M`, with `M` and `X.cfg` from the table.  Every counter that
would grow without end has a bound with a name; a bound is part of the guard of
the action it limits.  `CHECK_DEADLOCK FALSE` stands where the bounds let the
system stop (no user, fault or event is left).

| run | module, configuration | shows |
|---|---|---|
| minmax | MCMinMaxAllocator | counter, holders and answers of the number table while its range moves |
| controller_faults | MCProvisionController, MCController_faults | the steps of queues, caches and workers are steps of the abstract volume; the cleanup after a failed save has the asset to itself |
| controller_reuse | MCProvisionController, MCController_reuse | the work queue loses nothing, and no retry, although `forgetWork` calls `Done` early |
| controller_live | MCProvisionController, MCController_live | wanted volumes are made, released ones deleted, no asset outlives its claim |
| efs | MCEFSProvisioner, MCEFS_all | GIDs of one class are unique and reserved; the directory has the GID its PV names |
| nfs | MCNfsProvisioner, MCNfs_ganesha | bound volumes stay exported and limited under ids of their own; only failures leave something behind, and no id stays in a map without its block |
| local | MCLocalVolume, MCLocal_turns | no goroutine cleans what is in use, and no Job unless a user deleted its released PV; with the same exception only cleaned volumes are offered; released volumes are offered again |
| provisioners | MCProvisioners, MCProvisioners_safe | twenty provisioners: a bound volume has all its PV names; only failures leave anything behind; each asset of a removed PV is gone, unless its own error is logged only; what is in use is not removed |
| provisioners_live | MCProvisioners, MCProvisioners_live | claims are bound and released volumes removed at last, except where the requests cannot be repeated, and those are named |
| gluster_endpoint | MCProvisioners, MCProvisioners_endpoint | *violated*: a bound volume has no endpoint of its own |
| snapshot | SnapshotController, SnapshotController_one | one snapshot per VolumeSnapshot, ready only when it is, kept while bound, completed and removed at last |
| snapshot_twice | SnapshotController, SnapshotController_two | *violated*: a VolumeSnapshot is bound to the snapshot of an earlier one of its name |

The bounds and why they are enough:

* **minmax**: 2 callers, numbers 0..4, ranges 0..2, 1..3, 2..2, 3..4.  Any two of
  them are nested, overlapping or disjoint, so a held number may be inside or
  outside of the range when it is given back.  The proofs cover all other sizes.
* **controller_faults**: one claim, one claim worker, one volume worker,
  `CreateProvisionedPVRetryCount` 1 (one repetition of each save and of each
  cleanup), thresholds 1 and 2 (both the first and the last failure are seen),
  2 failing calls, 1 change of the PV's reclaim policy, 1 crash, 2 watch events
  of a kind under way.  Two failures are what the error paths need: one to enter
  the path and one inside of it.  Volumes do not share state in the library
  except for the queues, which controller_reuse fills.
* **controller_reuse**: one name, two UIDs, two claim workers, one failure.  A
  deleted claim whose name is used again is the only way two UIDs share a key of
  the claim queue.  Volume workers are left out: their keys are never reused.
* **controller_live**: one claim, one failure, no crash; the claim may be deleted
  at any moment.
* **efs**: 2 workers, 3 volumes, ranges 1..2 and 2..3, 1 failure, 1 change of the
  class's range, 1 crash.  Three volumes are needed to see a GID handed out
  again while another one is released.
* **nfs**: 2 workers, 3 volumes, ids up to 4 in place of 65535, `MaxExports` 3,
  of which Ganesha's default id 0 takes one: the limit is met with two volumes, and
  passed by a third one whose worker checked it before the second took its id.  An id
  above 0 is unused at any time, so `GenerateID` neither wraps nor loops for ever in the run.
  2 failures, 1 crash of the provisioner or the server.
* **local**: one directory and one block device, since the code branches on the
  kind of volume and PVs of the same kind do not meet; both cleaning modes;
  1 failure, 1 released PV deleted by a user (`Deletable`), 1 restart.
* **provisioners**: two volumes, since shared state (LUNs, the service named after a
  claim, `p.options`) needs two; either with claims of two names, or with the same
  name one after the other, the second with an access mode that some refuse.  Two
  troubles out of one failing request, one crash and one change of the class: one
  to leave something behind, one to hit the repetition.  Three LUNs for two
  volumes, so that a stale choice and a lack of LUNs are both possible.
* **provisioners_live**: one volume, three troubles.  Liveness of one volume does not
  depend on the other except through the LUNs, where a collision ends in an error
  and a repetition like any other.
* **snapshot**: one VolumeSnapshot (`MaxObjects`), two attempts, one failure or crash,
  all six plugins.  With one attempt only a repeated `Create` would not be seen,
  with a third one nothing differs from the second.  The second VolumeSnapshot of the
  name is what snapshot_twice is about; `KeptWhileBound` fails with it, too, and
  for the same reason.

The failures excluded from a passing run are not excluded silently: section 6
names them with what happens when they are let in.

## 4. Fairness

*controller_live* uses `FairSpec` of ProvisionController.  Weakly fair are the
worker goroutines (each is a loop around the blocking `Get`, restarted by
`wait.Until`), the informers' event handlers, the periodic resync, the timers of
the delaying queues, and of the actors outside the PV controller that annotates,
binds and releases, and the finalizers.  Nothing is assumed of users, failures
and crashes: each of them may never happen.  The three properties say

* `EventuallyProvisioned`: a claim that keeps asking gets its PV;
* `EventuallyReclaimed`: a PV that was released and that the library has to delete
  is deleted;
* `EventuallyNoOrphan`: an asset does not outlive its claim.

They hold as long as fewer calls fail than it takes to give up, which is why
the run has one failure.

*local* uses `FairSpec` of LocalVolume: the loop of `main` is weakly fair, started
cleanings end (with success or not), Jobs that were deleted go, and the informers
deliver.  `Prompt` adds that informers catch up while the loop sleeps its ten
seconds; with it FALSE they may be arbitrarily late.

*provisioners_live* uses `FairSpec` of Provisioners: a volume's worker goes on with its
call and the controller repeats what is not done (weakly fair as one action, since
each excludes the other), and a node that mapped or attached a volume unmaps or
detaches it at last; the kubelet does so when the pod is gone, and without it no
provisioner that refuses to remove a volume in use could promise anything.
Failures, crashes, users and changes of the class are not fair.

*snapshot* uses `FairSpec` of SnapshotController: the informer delivers, a cloud
completes a snapshot or reports it bad, the populator's loop, the reconciler's two
loops, and each running operation go on.  The populator's list and its use are not
fair: nothing depends on them.

The other specifications state no fairness, and only safety is checked of them.

## 5. Proofs

`tlapm M.tla` checks a module's proofs; the eight modules have more than 16 400
obligations.  Every safety property that a passing run checks is a theorem, under the
hypotheses named here.

**MinMaxTableProofs**, lemmas about the operators: each method keeps the table
`Exact`, that is, `free` is the number of unused places in the range.  `TakeExact` and `PutExact` are the
two branches of `Allocate` and `Release`; `SetRangeExact` needs no hypothesis on
how the old range and the new one lie, since `free` is computed anew.
`ExactAnswers`: with an exact table the scan finds a number unless the range is
full, so neither `ErrInternal` nor a false `ErrRangeFull` is possible.

**MinMaxAllocatorProofs**, for any set of callers and any ranges of
integers.  The inductive invariant adds to exactness and `HeldOnce` that what a
caller holds is used and that the range is not empty: without the first
`AllocateNext` could hand out a number that somebody holds, without the second
its scan could find nothing.  Theorems `TypeCorrect`,
`CounterCorrect`, `HeldOnceCorrect`, `AnswersCorrect`.

**ProvisionControllerProofs** has four parts.  The first is about the operators of
WorkQueue: every method of the queue keeps it `Sound`: what is dirty is
on the queue or in processing (`NoneLost`), and an item with failures is dirty,
queued, waiting, in processing, or given up at the threshold (`Retried`).  This is shown
for `Done` with *any* key, since `forgetWork` calls it for keys that are not its
own.

The second part is about the controller, for any numbers of keys, UIDs, workers, any
thresholds, failures, edits and crashes.  The inductive invariant is the
conjunction of

* `ApiOK`, `InformersOK`, `BoundsOK`: objects, events, caches and counters are what
  they may be;
* `QueuesOK`: both queues are sound;
* `WorkersOK`: a worker that is not idle knows its key, and its UID from the moment
  it has read the claim.

Neither `TypeOK` nor `RetryTracked` is inductive alone: a worker that finishes calls
`Forget` or `AddRateLimited` with the key it remembers, so the key's type is needed
from the worker; and whether an item may leave `processing` without being lost
depends on the queue's soundness.  There is one step for each action, under it
one for each conjunct that the action touches; actions that only touch the API
server or only the bounds are dealt with together by the conjuncts' frame.
Theorems `TypeCorrect`, `RetryTrackedCorrect`, `NothingLostCorrect`.

In the third part the library implements VolumeLifecycle, for any claims, volumes,
failures, edits and crashes, under two hypotheses.  `TrueAnswers`: a GET of a PV does not
fail, no answer of a successful save is lost, and no user deletes a PV.  `Exclusive`: no two
claim workers are past the GET of one volume, and no two volume workers are at the
deletion of one.  `OneWorkerEach` (threadiness 1) implies the second; with more
workers the queue alone does not ensure it, since `forgetWork` calls `Done` for keys that
another worker has (TLC finds two workers at `prepare` with one claim); when it does is the
fourth part.  The refinement itself is not inductive: a worker reads a PV in
one step and acts on what it read several steps later.  The invariant therefore adds to
that of the second part that what was read stays true:

* `Provided`: a claim worker that found no PV is right until it acts, and the asset is
  there when it saves;
* `Deleted`: the PV a volume worker found stays released and without a deletion
  timestamp until it acts, and the asset is gone when it removes the PV.

Informers, binder and users keep both by one lemma (`Elsewhere`): no PV appears by
them, and a released one does not change in this.  Each step of a worker is then mapped to
`MakeAsset`, `Publish`, `DropAsset`, `Withdraw` or a stutter.  Theorems
`LifecycleImplemented`, `LifecycleImplementedAlone`.  That the cleanup after a failed save
has the asset to itself (`CleanupIsAlone`) is a lemma of this part and not a result: the two
hypotheses rule out the lost answer and the second worker, with which it fails (section 6).

The fourth part derives `Exclusive` from the queues, for any numbers of workers, failures,
edits and crashes.  The hypothesis is one on steps, `NamesSettle`: a claim is created, or
a PV saved, under a name only when the controller is done with the last object of that
name, that is, no worker has it, it is not in the queue, and no event of it is under way.
A name that is used for the first time satisfies it; a user who recreates a
claim at once, or a worker that provisions anew for a claim already deleted, may not.  The
invariant `Orderly` has four conjuncts:

* `ClaimsServed` and `VolumesServed`, two instances of one predicate: a deletion that is
  not yet handled is the last event of its object (`InOrder`), and an object that exists,
  is cached or is announced by an event (`Alive`) is in one place: once on the queue or
  with one worker (`Lone`).  The early `Done` falls on an object that is not alive any more,
  where `Lone` is not claimed;
* `OnePast`: one worker of a key is past its look at the cache.  This stays true
  of objects that have gone: their key may be handed out again, but the second worker
  finds nothing in the cache;
* `Owned`: a UID is seen under one key only, in the API server, the caches, the events and
  the workers, so that two workers on one UID are two workers on one key.

The methods of the queue have one lemma each (`AddLone`, `GetLone`, `DoneLone`, ...), the
API server, the handlers and a restart one for both kinds of objects (`WriteServed`,
`DeliverServed`, `ListedServed`).  Theorems `ExclusiveHolds`, and with the third part
`LifecycleImplementedByMany`.

**EFSProvisionerProofs**, for any workers, volumes, ranges, edits, failures and
crashes, under `NoRepeatedDelete`: no failure of `RemoveAll` or of the PV's removal,
no lost answer of a save, no crash inside a `Delete`.  The idea is an owner for each
GID: `Own(v, gid)` holds for the GID of a PV until its `Delete` gives it back, and for
the GID of a worker that makes a volume or undoes it.  The invariant says that a GID
has one owner (`OneOwner`) and that the table has all GIDs that are owned
(`TableFits`); the hard part is the table that is not there yet, since then the
*lists of PVs* that waiting callers collected must have them, whichever of them
becomes the table.  `JobsFit` and `VolumesFit` tie workers and PVs to it, `OneWorker`
is what the controller's queues grant.  `LeaksBounded` counts: a GID in the table
without such an owner (`Standing`) was lost by a call that failed.  The invariant
(`LeakInv`) bounds the GIDs that are lost by the failures so far, in the table or,
while there is none, among the PVs that it will be made from, and in each list that is
about to become the table; a call that fails adds at most the GID it had, and every
other step none (one `...Loses` lemma per action).  No race between
callers and no crash loses a GID.  Theorems `GidsUnique`, `GidsReserved`,
`GroupsMatch`, `TypeCorrect`, `LeaksBounded`.

**NfsProvisionerProofs**, with either exporter, for any workers, volumes, ids,
failures and crashes, under `DeletesGoThrough`: once an id was given back, nothing
fails before the undoing or the `Delete` ends.  Again each id has one owner
(`ExportsOwned`, `ProjectsOwned`): the PV as long as it is `Kept`, or the worker that
took it.  `Backed` says that directory and blocks of the owner are there, `Exported`
that its export is.  This is enough for the kernel, which exports whatever the file
says.  Ganesha needs more (`GaneshaFits`), because it reads the file again when it
starts and skips duplicates: ids in the file differ except for blocks a worker is
about to remove (`FileFits`), a volume that is served has one block in the file and
no other (`ServerFits`), and one that has a block is exported unless its worker is
about to see to it (`FileExported`), so that `AddExport` cannot take a stale block of
the same path; `FileFits` holds with either server.

What is left behind is counted by `Untidy`: a volume is tidy when every directory, block
and export of it is what its PV names or what its worker, at the step it is at, is going
to take away.  A failed call makes at most one volume untidy, its own; a crash at most
those the workers were busy with, which is where the factor in
`LeaksAreFailures` comes from; every other step leaves tidy volumes tidy, also the
steps by which another worker has the kernel export the file as it is
(`Less`, `WorkerStep`, one `...Left` lemma per action).  The second part of
`LeaksAreFailures` is about the maps and allows nothing: `MapsFit` says that every id in a map
has a block in the file that nobody is about to remove, or a worker that is between the two
(`ExportIdsFit`, `ProjectIdsFit`).  It needs `ProjectsFit`, on whose account a block of
the projects file is there, for the restart: `restoreQuotas` takes the id of a project whose
directory is gone out of the map, and must not take one that another block has
(`RestoresAll`).  `InvHolds` proves both invariants together.
Theorems `VolumesServed`, `IdsUnique`, `TypeCorrect`, `LeaksBounded`.

**LocalVolumeProofs**, for any paths and flags, failures, deletions and crashes.
`TypeCorrect` needs no hypothesis; the other theorems are under `Prompt`: the
informers catch up while the loop sleeps.  Users may delete PVs of any phase, also
released ones; of a volume whose released PV was deleted (`Disturbed`) the theorems say
only what still holds, which is that no goroutine cleans it while it is in use
(`ProcessesApart`).  Of all other volumes, and after any of these deletions, the
invariant follows a volume through one turn: cleanings, finished or not, are of
released PVs only (`OfReleased`), and one way of cleaning excludes the other (`OneWay`);
what the loop has on its list is released (`TodoIsReleased`), what it took
the status of is clean (`RemovedIsClean`), and a volume without a PV or with an
available one holds no data (`NoData`).  Theorems `CleaningIsApart`, `OfferedIsClean`,
`RemovalIsClean`, the last one an action property.

**SnapshotControllerProofs**, for any plugins, attempts, failures and crashes.
`TypeCorrect` needs no hypothesis; the other theorems are under `NameUsedOnce`, one
VolumeSnapshot of the name, since the run snapshot_twice shows what a second one does.
`Watched` says that what caches, worlds and operations have of the VolumeSnapshot
exists, and is in the desired world as soon as anything else has it; with it no
delete operation runs while the VolumeSnapshot exists, which is `KeptWhileBoundCorrect`, an
action property.  `ReadyIsBackedCorrect` adds `Intact`: the copies in caches, worlds and
operations name the data object that the VolumeSnapshot names, or none; the data object
is there; and what an operation holds at each of its steps (a condition, a number, a new
status) is true of the backend when it is written.  Its second hypothesis,
`ListsAnswered`, is on the steps: no list of the data objects fails where one exists,
since the controller takes a failure for an empty list (section 6).  `OneEachCorrect` and
`LeftByTroubleCorrect` are about behaviours in which nothing failed yet (`Calm`), and
there the invariant `Undisturbed` follows the one attempt: old copies that the populator
or the reconciler still has do not start a second one, since the reconciler asks the
actual world, and the operation asks the API server, before anything is taken.

**ProvisionersProofs**, for any volumes, claims, failures, crashes and changes of the class,
and for all twenty kinds; no hypothesis beyond `CallsAssumption`.  The invariant speaks of
one volume at a time: `Fits` says which assets exist while it is provisioned, bound,
deleted and gone (`WhileMade`, `WhileNamed`), and, for those that nodes use, that no deletion
has begun that would go through (`WhileUsed`).  A step of one volume changes nothing that
`Fits` says of another (`OnlyOf`), because assets carry the name of their volume,
except for those that are named after claims, which their provisioners
do not remove.  The steps of all provisioners then have a few forms, each with its lemma: an
attempt that makes something and goes on, one that looks, one that gives up, a deletion that
takes something away, an error.  A CephFS user may outlive its PV once a request of it failed,
and the logged deletions of GlusterFS and Cinder may leave what they were to remove: `Sure`
names the assets of which this is not so, and `GoneMeansGone` is claimed of each of them, also
of those that the same volume has besides.  `Running` is needed for GlusterFS, whose deletion stops
the volume before it removes it and refuses one that does not run.  `LeftByFailuresCorrect`
needs its own invariant, from the assets' side: everything the service has is held by a
volume (`Holds`), or there is an `Excuse`: a request failed, the process died, or the class was
changed so that a provisioner refused late.  `SoFar` names what an attempt has made
when it comes to a step that may refuse, `OneOfAName` that two claims of one name do not exist
at once.  Theorems `TypeCorrect`, `BackedCorrect`, `GoneMeansGoneCorrect`, `InUseKeptCorrect`,
`LeftByFailuresCorrect`.

Assumptions are those named in the modules (`RangesAssumption`,
`NumbersAssumption`, `ControllerAssumption`, `GidAssumption`, `EFSAssumption`,
`NfsAssumption`, `LocalVolumeAssumption`, `SnapshotAssumption`, `CallsAssumption`).
They type the constants and say that no
range is empty (`ErrInvalidRange` otherwise), that the NFS provisioner has finitely many
workers and one at least, and that the marks for "no path" and "no volume" are none.
The hypotheses above are not assumptions of a module but of a theorem: TLC
finds counterexamples when they are dropped (section 6), and the runs
have constants that satisfy them.

Model-checked only: liveness (`EventuallyProvisioned`, `EventuallyReclaimed`,
`EventuallyNoOrphan`, `EventuallyOffered`, `BoundAtLast`, `RemovedAtLast`, `Completed`,
`Removed`), which is out of the prover's reach; and
the two violations.

## 6. What the code does not do

Two runs show that the code departs from what it says of itself; `findings` in
`PROJECT.json` quotes the lines.

* **gluster_endpoint.** The GlusterFS file provisioner stores the options of a call in a
  field of the provisioner (glusterfile-provisioner.go:153) that all workers share.
  A second `Provision` that begins before the first one makes its endpoint gives this
  endpoint its own claim's name.  The volume that is bound then has no endpoint of
  its own, against gluster/file/README.md:113, and both name one service.
* **snapshot_twice.** The operations of the snapshot controller read and write the
  VolumeSnapshot by namespace and name (snapshotter.go:873), the caches know it by
  UID.  What an operation of a deleted VolumeSnapshot does hits a new one of the
  same name, which is bound to data that refer to the old one.

What a passing run or a theorem excludes, since the property fails with it:

* **Two workers on one claim.** `forgetWork` (controller.go:625) calls `Done` for the
  key of a deleted claim.  If a worker is processing that key, the key leaves
  `processing`, and a new claim of the same name is given to a second worker while the
  first one still runs.  One worker may then fail to save and clean up what the other
  one has published; controller_faults has one claim worker.
* **A save whose answer is lost** in the last attempt: the library deletes the asset
  of a PV that exists (controller.go:1131); controller_faults has no `lostSave`.
* **A repeated `Delete` of EFS** releases a GID that may be another volume's by now.
  Hence `NoRepeatedDelete`.
* **A repeated `Delete` of NFS** does the same with export and project ids, and
  withdraws the export of the other volume; hence `DeletesGoThrough`.  The kernel
  exports stale blocks that Ganesha would refuse, so the run uses Ganesha; the
  theorems have both.
* **A list of the data objects that fails** passes for an empty one (snapshotter.go:155), so
  the controller takes a second snapshot, makes a second data object, and binds
  a VolumeSnapshot that is ready already to it before it is completed.  Three failures
  are needed; the run snapshot has one, `ReadyIsBackedCorrect` has `ListsAnswered`.
* **A Job that is slow to go.** `RemoveJob` looks at whether a Job succeeded and not at its
  deletion timestamp.  With `Prompt` FALSE a Job that is being deleted may pass for the cleaning of
  the next user's data.

Three places contradict what is written beside them, and no run states the text.  The models
have the behaviour; the properties say what is left of the promise.

* **ResyncPeriod.** "failed operations may be retried on a PVC/PV every resyncPeriod regardless of
  whether it changed" (controller.go:188).  A claim or a PV that was given up at the threshold keeps its
  failures in the rate limiter, so `enqueueWork` (controller.go:591) drops each event of a resync,
  and the operation is never tried again until the process restarts.  The liveness properties hold
  while fewer calls fail than it takes to give up, and fail with as many.
* **max-exports.** "The maximum number of volumes to be exported by this provisioner. New claims will be
  ignored once this limit has been reached." (nfs/cmd/nfs-provisioner/main.go:46).  The limit is
  looked at before the id is taken (export.go:56, 105), so the ids in use may exceed it by one for
  every worker but one.  In the run nfs they do.
* **Local PVs deleted in release.** "Even if a user accidentally deletes the PV, the presence of the cleaning
  job would prevent the provisioner from attempting to re-create it." (deleter.go:322).  The discovery looks for
  running Jobs of block devices only, so a directory is offered, and bound, while its Job still
  empties it; a device, too, as long as the informer has not seen the Job that was just made.  Besides,
  the result of a cleaning is kept under the PV's name and passes for the cleaning of the next
  user's data, with Jobs and with goroutines.  The run local lets users delete released PVs:
  `NoneCleanedInUse` holds of goroutines without an exception, since their notes are the
  process's own; for Jobs, and in `AvailableIsClean` and `DeletedIsClean`, the volume of such a PV
  is excepted.

Behaviour of the code that the models have and a reader should know:

* With `CreateProvisionedPVRetryCount` 0 the loop at controller.go:1096 does not
  run, no PV is created, and success is reported.
* A GET of the PV that fails counts as "there is no such PV" (controller.go:1033),
  so the volume is provisioned again.
* CephFS with `deterministicNames`: `Delete` does not set `CEPH_VOLUME_GROUP`, so it looks
  for the share in the default group.
* CephFS: removing the user ends at any error of its requests as if it were gone ("Already gone,
  great.", cephfs_provisioner.py:312); the share is purged, the PV goes, and the user stays.
* NFS: when all 65536 ids are used, `GenerateID` (nfs/pkg/volume/util.go:33) searches for one for
  ever, under the mutex of the map.  In IdStore the caller waits.
* OpenEBS: a volume that is gone is an error to delete, and its PV stays for ever once
  an answer was lost.
* GlusterFS volume provisioner: errors of the deletion are logged only, and the PV goes.
  The file provisioner gives the GID back before the volume is deleted; a class that
  has the parameter `gidallocate` is always refused.
* flex: a `Delete` that fails panics.
* Cinder: errors of deletions are logged only.  AWS: a disk that cannot be
  tagged is stray if its removal fails, too, and a snapshot that failed is never
  reported bad.  GCE: the operation that makes a snapshot is not waited for.
* When the snapshot of an earlier attempt is found, the PV's name is looked up under
  the label `pvName` (snapshotter.go:395), while it was written under
  `SnapshotMetadata-PVName` (720): what was found is never taken over.
* Snapshots: a VolumeSnapshot deleted while its snapshot is being created is not in the
  actual world when the reconciler looks, and the snapshot stays, although the user
  guide says it is "also automatically deleted".  One that is deleted while the
  controller is down stays, too.
* OpenEBS promoter: a PV without labels makes it panic; the GlusterFS promoter deletes
  nothing ("TODO").

## 7. What is not modelled

* Reclaim policies other than Delete for the library's own work (with Retain
  nothing is done; Recycle is deprecated), the change of the policy between the last
  GET of a PV and the call of `Delete`, more than one provisioner process at
  a time (leader election is client-go's), several local provisioners on a node,
  `DeletedFinalStateUnknown`, and collisions of the hash in local PV names.
* Nodes that map an image whose PV is released already, between RBD's look at the watchers and its
  removal of the image: in the model nodes use bound volumes only, as the kubelet does.
* Contents: capacities, access modes (but for where a provisioner refuses one late),
  topology, mount options, metrics, events, formats of parameters and answers.
* A file is written in one step (`ioutil.WriteFile` truncates it first, so a crash may
  in fact lose all blocks); the xfs quota is enabled; NFS provisioners have one
  identity.
* The cloud providers apart from snapshots and disks made of them: instances, routes,
  load balancers, attachment.
* The configuration of local volumes and their capacities; `ExpandVolumeDevice` of
  the GlusterFS file provisioner, which no binary calls; library helpers; the generator
  of build files (`repo-infra`).
* Scripts, deployment files, examples, and vendored code apart from the work queue.

## 8. Plan

Done: MinMaxTable and MinMaxAllocator, WorkQueue and ProvisionController, EFS, NFS and
LocalVolume; VolumeLifecycle as the abstract specification of the
library; the provisioners without state in one composition; the snapshot controller
with its plugins, and the promoter.  All safety properties of the passing runs are proved
under the hypotheses of section 5, and that the library implements VolumeLifecycle.

Left, in this order:

1. The PV half of `NamesSettle` in ProvisionControllerProofs: which claims may be
   provisioned a second time after their PV has gone, and how late.
2. An abstract specification of a snapshot (taken, completed, dropped) that
   SnapshotController with one VolumeSnapshot implements, from `Intact`.
3. The GlusterFS file provisioner over GidAllocator: its early `Release` is the same
   as that of EFS, and the same theorem should hold under the same hypothesis.
