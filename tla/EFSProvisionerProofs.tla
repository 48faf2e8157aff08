------------------------ MODULE EFSProvisionerProofs ------------------------
(***************************************************************************)
(* The EFS provisioner never gives one GID to two volumes, for any number  *)
(* of workers, volumes, storage class edits, crashes and failed calls, as  *)
(* long as no Delete is repeated after its GID was given back.             *)
(***************************************************************************)
EXTENDS EFSProvisioner, MinMaxTableProofs

(* A Delete is repeated when its later steps fail or the process dies      *)
(* between them, or when a save that succeeded looks as if it had failed.  *)
NoRepeatedDelete ==
  /\ FaultKinds \cap {"lostSave", "removeAll", "remove"} = {}
  /\ ~CrashAnywhere

(* A worker that has a GID out of the table for a volume without a PV.     *)
Holds(w) ==
  \/ job[w].pc \in {"directory", "save"}
  \/ job[w].task = "cleanup" /\ job[w].pc \in {"class", "gid"}

(* The volume v stands for the GID: by its PV, until a Delete gives it     *)
(* back, or by the worker that makes the volume or undoes it.              *)
Own(v, gid) ==
  \/ /\ phase[v] \in {"bound", "released"} /\ gidOf[v] = gid
     /\ \A w \in Workers : job[w].vol = v => ~HalfDeleted(w)
  \/ \E w \in Workers : Holds(w) /\ job[w].vol = v /\ job[w].gid = gid

(* What a worker does fits its task, its volume and its call.              *)
JobsFit ==
  \A w \in Workers :
    /\ job[w].pc # "idle" => job[w].vol \in Volumes
    /\ caller[w].pc # "out" => job[w].pc = "gid"
    /\ job[w].pc = "gid" =>
         caller[w].gid = IF job[w].task = "provision" THEN NoGid ELSE job[w].gid
    /\ job[w].task = "provision" =>
         job[w].pc \in {"idle", "gid", "directory", "save"}
    /\ job[w].task = "cleanup" => job[w].pc \in {"class", "gid", "remove"}
    /\ job[w].task = "delete" =>
         /\ job[w].pc \in {"class", "gid", "remove", "unpublish"}
         /\ phase[job[w].vol] = "released" /\ job[w].gid = gidOf[job[w].vol]
    /\ job[w].task # "delete" /\ job[w].pc # "idle" => phase[job[w].vol] = "wanted"
    /\ job[w].task # "provision" \/ job[w].pc \in {"directory", "save"} => job[w].gid \in Gids
    /\ job[w].pc = "save" => group[job[w].vol] = job[w].gid

(* The controller's queues give a volume to one worker at a time.          *)
OneWorker ==
  \A w, x \in Workers :
    job[w].pc # "idle" /\ job[x].pc # "idle" /\ job[w].vol = job[x].vol => w = x

(* The PVs, and the directories behind them.                               *)
VolumesFit ==
  \A v \in Volumes :
    /\ phase[v] \in {"bound", "released"} => gidOf[v] \in Gids
    /\ phase[v] = "bound" => group[v] = gidOf[v]

(* Without a table no GID is out of one, and a list of the PVs that waits  *)
(* to become the table has every GID that a volume stands for; a table     *)
(* that is there has them, too.                                            *)
TableFits ==
  /\ table = NoTable =>
       \A w \in Workers :
         /\ caller[w].pc # "use" /\ ~Holds(w)
         /\ caller[w].pc = "install" =>
              \A v \in Volumes, gid \in Gids : Own(v, gid) => gid \in caller[w].found
  /\ table # NoTable =>
       \A v \in Volumes, gid \in Gids : Own(v, gid) => gid \in table.used

(* No two volumes stand for one GID.                                       *)
OneOwner ==
  \A u, v \in Volumes, gid \in Gids : Own(u, gid) /\ Own(v, gid) => u = v

Inv == TypeOK /\ JobsFit /\ OneWorker /\ VolumesFit /\ TableFits /\ OneOwner
-----------------------------------------------------------------------------
(* GIDs are integers, and NoGid is none of them.                           *)
LEMMA GidFacts ==
  /\ Gids \subseteq Int /\ NoGid \notin Gids
  /\ \A r \in Ranges : r[1] \in Int /\ r[2] \in Int
BY GidAssumption DEF Gids, NoGid, ParsedRange

(* The mark that the map has no table is not a table.                      *)
LEMMA NoTableIsNone == NoTable \notin Table
<1>1. SUFFICES ASSUME NoTable \in Table PROVE FALSE
  OBVIOUS
<1>2. DOMAIN NoTable = {"used"}
  BY DEF NoTable
<1>3. "min" \in DOMAIN NoTable
  BY <1>1 DEF Table
<1>4. QED
  BY <1>2, <1>3

(* A table that is filled from a list of PVs is a table of those GIDs.     *)
LEMMA FilledTable ==
  ASSUME NEW found \in SUBSET Gids
  PROVE  Filled(found) \in Table /\ Filled(found).used = found
<1>1. Cardinality(found) \in Nat
  <2>1. found = found \cap (0 .. AbsoluteMax)
    BY DEF Gids
  <2>2. Cardinality(found \cap (0 .. AbsoluteMax)) \in Nat
    <3>1. 0 \in Int /\ AbsoluteMax \in Int
      BY GidAssumption DEF ParsedRange, Gids
    <3>2. QED
      BY <3>1, RangeCardinality
  <2>3. QED
    BY <2>1, <2>2
<1>2. Filled(found) = [min |-> 0, max |-> AbsoluteMax, used |-> found,
                       free |-> AbsoluteMax + 1 - Cardinality(found)]
  BY DEF Filled, With, NewTable
<1>3. QED
  BY <1>1, <1>2, GidFacts, GidAssumption DEF Table, ParsedRange, Gids

(* The range of the caller's class changes nothing about what is in use.   *)
LEMMA SameUsed ==
  ASSUME TypeOK, NEW w \in Workers, NEW t \in Table
  PROVE  RangeOf(w, t) \in Table /\ RangeOf(w, t).used = t.used
<1>1. DEFINE min == caller[w].range[1]
             max == caller[w].range[2]
<1>2. min \in Int /\ max \in Int
  BY GidFacts DEF TypeOK, Call
<1>3. Cardinality(t.used \cap (min .. max)) \in Nat
  BY <1>2, RangeCardinality
<1>4. RangeOf(w, t) = SetRange(t, min, max)
  BY DEF RangeOf
<1>5. CASE t.min = min /\ t.max = max
  BY <1>4, <1>5 DEF SetRange
<1>6. CASE ~(t.min = min /\ t.max = max)
  <2>1. RangeOf(w, t) = [min |-> min, max |-> max, used |-> t.used,
                         free |-> 1 + max - min - Cardinality(t.used \cap (min .. max))]
    BY <1>4, <1>6 DEF SetRange
  <2>2. QED
    BY <1>2, <1>3, <2>1 DEF Table
<1>7. QED
  BY <1>5, <1>6
-----------------------------------------------------------------------------
(* A step after which volumes stand for no more GIDs than before, and the  *)
(* table and the lists on their way into it have no fewer, leaves every    *)
(* GID with one owner and in the table.                                    *)
LEMMA NoMoreOwned ==
  ASSUME Inv,
         \A v \in Volumes, gid \in Gids : Own(v, gid)' => Own(v, gid),
         table' = table \/ (table # NoTable /\ table' # NoTable /\ table'.used = table.used),
         \A w \in Workers :
           /\ Holds(w)' => Holds(w)
           /\ caller'[w].pc = "use" => caller[w].pc = "use" \/ table # NoTable
           /\ caller'[w].pc = "install" =>
                caller[w].pc = "install" /\ caller'[w].found = caller[w].found
  PROVE  TableFits' /\ OneOwner'
<1>1. OneOwner'
  BY DEF Inv, OneOwner
<1>2. ASSUME table = NoTable PROVE TableFits'
  <2>1. table' = NoTable
    BY <1>2
  <2>2. \A w \in Workers : caller'[w].pc # "use" /\ ~Holds(w)'
    BY <1>2 DEF Inv, TableFits
  <2>3. ASSUME NEW w \in Workers, caller'[w].pc = "install", NEW v \in Volumes,
               NEW gid \in Gids, Own(v, gid)'
        PROVE  gid \in caller'[w].found
    BY <1>2, <2>3 DEF Inv, TableFits
  <2>4. QED
    BY <2>1, <2>2, <2>3 DEF TableFits
<1>3. ASSUME table # NoTable PROVE TableFits'
  BY <1>3 DEF Inv, TableFits
<1>4. QED
  BY <1>1, <1>2, <1>3
-----------------------------------------------------------------------------
(* The steps inside the allocator.  None changes what volumes stand for.   *)

LEMMA SameOwned ==
  ASSUME UNCHANGED <<phase, gidOf, job>>
  PROVE  /\ \A v \in Volumes, gid \in Gids : Own(v, gid)' <=> Own(v, gid)
         /\ \A w \in Workers : Holds(w)' <=> Holds(w)
BY DEF Own, Holds, HalfDeleted

LEMMA LookUpKeeps ==
  ASSUME Inv, NEW w \in Workers, LookUp(w), UNCHANGED <<apiVars, group, job, boundVars>>
  PROVE  Inv'
<1>1. UNCHANGED <<phase, gidOf, class, group, job, faults, edits, crashes>>
  BY DEF apiVars, boundVars
<1>2. /\ table' = table \/ (table # NoTable /\ table' # NoTable /\ table'.used = table.used)
      /\ table' \in Table \cup {NoTable}
  <2>1. CASE table = NoTable
    BY <2>1 DEF LookUp
  <2>2. CASE table # NoTable
    <3>1. table \in Table /\ table' = RangeOf(w, table)
      BY <2>2 DEF LookUp, Inv, TypeOK
    <3>2. QED
      BY <2>2, <3>1, SameUsed, NoTableIsNone DEF Inv
  <2>3. QED
    BY <2>1, <2>2
<1>3. /\ caller' \in [Workers -> Call]
      /\ caller[w].pc = "look"
      /\ \A x \in Workers : x # w => caller'[x] = caller[x]
      /\ caller'[w].gid = caller[w].gid /\ caller'[w].found = caller[w].found
      /\ caller'[w].pc = IF table = NoTable THEN "collect" ELSE "use"
  <2>1. caller \in [Workers -> Call] /\ caller[w] \in Call /\ caller[w].pc = "look"
    BY DEF LookUp, Inv, TypeOK
  <2>2. caller' = [caller EXCEPT ![w] = [@ EXCEPT !.pc = IF table = NoTable THEN "collect" ELSE "use"]]
    BY DEF LookUp
  <2>3. QED
    BY <2>1, <2>2 DEF Call, CallPCs
<1>4. TypeOK'
  BY <1>1, <1>2, <1>3 DEF Inv, TypeOK
<1>5. JobsFit' /\ OneWorker' /\ VolumesFit'
  BY <1>1, <1>3 DEF Inv, JobsFit, OneWorker, VolumesFit
<1>6. TableFits' /\ OneOwner'
  <2>1. \A x \in Workers :
          /\ caller'[x].pc = "use" => caller[x].pc = "use" \/ table # NoTable
          /\ caller'[x].pc = "install" =>
               caller[x].pc = "install" /\ caller'[x].found = caller[x].found
    BY <1>3
  <2>2. QED
    BY <1>1, <1>2, <2>1, SameOwned, NoMoreOwned
<1>7. QED
  BY <1>4, <1>5, <1>6 DEF Inv

(* The GIDs that the PVs show.                                             *)
Shown == {gidOf[v] : v \in {u \in Volumes : phase[u] \in {"bound", "released"}}}

LEMMA CollectGidsKeeps ==
  ASSUME Inv, NEW w \in Workers, CollectGids(w, Shown),
         UNCHANGED <<apiVars, group, job, boundVars>>
  PROVE  Inv'
<1>1. UNCHANGED <<table, phase, gidOf, class, group, job, faults, edits, crashes>>
  BY DEF CollectGids, apiVars, boundVars
<1>2. Shown \in SUBSET Gids
  BY DEF Shown, Inv, VolumesFit
<1>3. /\ caller' \in [Workers -> Call]
      /\ caller[w].pc = "collect"
      /\ caller'[w].pc = "install" /\ caller'[w].gid = caller[w].gid /\ caller'[w].found = Shown
      /\ \A x \in Workers : x # w => caller'[x] = caller[x]
  BY <1>2 DEF CollectGids, Inv, TypeOK, Call, CallPCs
<1>4. TypeOK'
  BY <1>1, <1>3 DEF Inv, TypeOK
<1>5. JobsFit' /\ OneWorker' /\ VolumesFit'
  BY <1>1, <1>3 DEF Inv, JobsFit, OneWorker, VolumesFit
<1>6. OneOwner'
  BY <1>1, SameOwned DEF Inv, OneOwner
<1>7. TableFits'
  <2>1. ASSUME table = NoTable, NEW v \in Volumes, NEW gid \in Gids, Own(v, gid)
        PROVE  gid \in Shown
    <3>1. \A x \in Workers : ~Holds(x)
      BY <2>1 DEF Inv, TableFits
    <3>2. phase[v] \in {"bound", "released"} /\ gidOf[v] = gid
      BY <2>1, <3>1 DEF Own
    <3>3. QED
      BY <3>2 DEF Shown
  <2>2. ASSUME table = NoTable, NEW x \in Workers
        PROVE  /\ caller'[x].pc # "use" /\ ~Holds(x)'
               /\ caller'[x].pc = "install" =>
                    \A v \in Volumes, gid \in Gids : Own(v, gid)' => gid \in caller'[x].found
    <3>1. CASE x = w
      BY <1>1, <1>3, <2>1, <2>2, <3>1, SameOwned DEF Inv, TableFits
    <3>2. CASE x # w
      BY <1>1, <1>3, <2>2, <3>2, SameOwned DEF Inv, TableFits
    <3>3. QED
      BY <3>1, <3>2
  <2>3. ASSUME table # NoTable, NEW v \in Volumes, NEW gid \in Gids, Own(v, gid)'
        PROVE  gid \in table.used
    BY <1>1, <2>3, SameOwned DEF Inv, TableFits
  <2>4. QED
    BY <1>1, <2>2, <2>3 DEF TableFits
<1>8. QED
  BY <1>4, <1>5, <1>6, <1>7 DEF Inv

LEMMA InstallKeeps ==
  ASSUME Inv, NEW w \in Workers, Install(w), UNCHANGED <<apiVars, group, job, boundVars>>
  PROVE  Inv'
<1>1. UNCHANGED <<phase, gidOf, class, group, job, faults, edits, crashes>>
  BY DEF apiVars, boundVars
<1>2. /\ caller' \in [Workers -> Call]
      /\ caller[w].pc = "install" /\ caller'[w].pc = "use" /\ caller'[w].gid = caller[w].gid
      /\ \A x \in Workers : x # w => caller'[x] = caller[x]
      /\ caller[w].found \in SUBSET Gids
  BY DEF Install, Inv, TypeOK, Call, CallPCs
<1>3. /\ table' \in Table
      /\ table'.used = IF table = NoTable THEN caller[w].found ELSE table.used
  <2>1. CASE table = NoTable
    BY <1>2, <2>1, FilledTable, SameUsed DEF Install, Inv
  <2>2. CASE table # NoTable
    <3>1. table \in Table /\ table' = RangeOf(w, table)
      BY <2>2 DEF Install, Inv, TypeOK
    <3>2. QED
      BY <2>2, <3>1, SameUsed DEF Inv
  <2>3. QED
    BY <2>1, <2>2
<1>4. TypeOK'
  BY <1>1, <1>2, <1>3 DEF Inv, TypeOK
<1>5. JobsFit' /\ OneWorker' /\ VolumesFit'
  BY <1>1, <1>2 DEF Inv, JobsFit, OneWorker, VolumesFit
<1>6. OneOwner'
  BY <1>1, SameOwned DEF Inv, OneOwner
<1>7. TableFits'
  <2>1. table' # NoTable
    BY <1>3, NoTableIsNone
  <2>2. ASSUME NEW v \in Volumes, NEW gid \in Gids, Own(v, gid)'
        PROVE  gid \in table'.used
    BY <1>1, <1>2, <1>3, <2>2, SameOwned DEF Inv, TableFits
  <2>3. QED
    BY <2>1, <2>2 DEF TableFits
<1>8. QED
  BY <1>4, <1>5, <1>6, <1>7 DEF Inv
-----------------------------------------------------------------------------
(* Steps of one worker that take nothing out of the table.                 *)

(* The record type of a job.                                               *)
Job == [pc : JobPCs, task : Tasks, vol : Volumes \cup {"none"}, gid : Gids \cup {NoGid}]

(* What a worker's step leaves out of account.                             *)
LEMMA OwnedByFewer ==
  ASSUME NEW w \in Workers, UNCHANGED <<phase, gidOf>>,
         \A x \in Workers : x # w => job'[x] = job[x],
         Holds(w)' => Holds(w) /\ job'[w].vol = job[w].vol /\ job'[w].gid = job[w].gid,
         HalfDeleted(w) => HalfDeleted(w)' /\ job'[w].vol = job[w].vol
  PROVE  /\ \A v \in Volumes, gid \in Gids : Own(v, gid)' => Own(v, gid)
         /\ \A x \in Workers : Holds(x)' => Holds(x)
<1>1. \A x \in Workers : x # w => (Holds(x)' <=> Holds(x)) /\ (HalfDeleted(x)' <=> HalfDeleted(x))
  BY DEF Holds, HalfDeleted
<1>2. \A x \in Workers : Holds(x)' => Holds(x) /\ job'[x].vol = job[x].vol /\ job'[x].gid = job[x].gid
  BY <1>1
<1>3. \A x \in Workers : HalfDeleted(x) => HalfDeleted(x)' /\ job'[x].vol = job[x].vol
  BY <1>1
<1>4. ASSUME NEW v \in Volumes, NEW gid \in Gids, Own(v, gid)' PROVE Own(v, gid)
  <2>1. CASE \E x \in Workers : Holds(x)' /\ job'[x].vol = v /\ job'[x].gid = gid
    BY <1>2, <2>1 DEF Own
  <2>2. CASE /\ phase[v] \in {"bound", "released"} /\ gidOf[v] = gid
             /\ \A x \in Workers : job'[x].vol = v => ~HalfDeleted(x)'
    BY <1>3, <2>2 DEF Own
  <2>3. QED
    BY <1>4, <2>1, <2>2 DEF Own
<1>5. QED
  BY <1>2, <1>4

LEMMA ListFailsKeeps ==
  ASSUME Inv, NEW w \in Workers, caller[w].pc = "collect", Fault("list"), Leave(w), Stop(w),
         UNCHANGED <<table, apiVars, group>>
  PROVE  Inv'
<1>1. /\ UNCHANGED <<table, phase, gidOf, class, group, edits, crashes>>
      /\ faults' \in 0 .. MaxFaults
  BY EFSAssumption DEF Fault, apiVars, Inv, TypeOK
<1>2. /\ job' \in [Workers -> Job] /\ job'[w] = IdleJob
      /\ \A x \in Workers : x # w => job'[x] = job[x]
      /\ job[w].pc = "gid"
  BY DEF Stop, IdleJob, Inv, TypeOK, JobsFit, Job, JobPCs, Tasks
<1>3. /\ caller' \in [Workers -> Call]
      /\ caller'[w].pc = "out"
      /\ \A x \in Workers : x # w => caller'[x] = caller[x]
  <2>1. caller \in [Workers -> Call] /\ caller[w] \in Call
    BY DEF Inv, TypeOK
  <2>2. QED
    BY <2>1 DEF Leave, Call, CallPCs
<1>4. TypeOK'
  BY <1>1, <1>2, <1>3 DEF Inv, TypeOK, Job
<1>5. JobsFit' /\ OneWorker' /\ VolumesFit'
  BY <1>1, <1>2, <1>3 DEF Inv, JobsFit, OneWorker, VolumesFit, IdleJob
<1>6. TableFits' /\ OneOwner'
  <2>1. ~Holds(w)' /\ ~HalfDeleted(w)
    BY <1>2 DEF Holds, HalfDeleted, IdleJob
  <2>2. \A x \in Workers :
          /\ caller'[x].pc = "use" => caller[x].pc = "use"
          /\ caller'[x].pc = "install" =>
               caller[x].pc = "install" /\ caller'[x].found = caller[x].found
    BY <1>3
  <2>3. QED
    BY <1>1, <1>2, <2>1, <2>2, OwnedByFewer, NoMoreOwned
<1>7. QED
  BY <1>4, <1>5, <1>6 DEF Inv

LEMMA StartProvisionKeeps ==
  ASSUME Inv, NEW w \in Workers, NEW v \in Volumes, StartProvision(w, v)
  PROVE  Inv'
<1>1. UNCHANGED <<table, phase, gidOf, class, group, faults, edits, crashes>>
  BY DEF StartProvision, apiVars, boundVars
<1>2. /\ job' \in [Workers -> Job]
      /\ job'[w] = [pc |-> "gid", task |-> "provision", vol |-> v, gid |-> NoGid]
      /\ \A x \in Workers : x # w => job'[x] = job[x] /\ job[x].vol # v
      /\ job[w].pc = "idle" /\ phase[v] = "wanted"
  BY DEF StartProvision, Free, Inv, TypeOK, Job, JobPCs, Tasks
<1>3. /\ caller' \in [Workers -> Call]
      /\ caller'[w] = [pc |-> "look", range |-> class, gid |-> NoGid, found |-> {}]
      /\ \A x \in Workers : x # w => caller'[x] = caller[x]
  BY DEF StartProvision, Enter, Inv, TypeOK, Call, CallPCs
<1>4. TypeOK'
  BY <1>1, <1>2, <1>3 DEF Inv, TypeOK, Job
<1>5. JobsFit'
  BY <1>1, <1>2, <1>3 DEF Inv, JobsFit
<1>6. OneWorker' /\ VolumesFit'
  BY <1>1, <1>2 DEF Inv, OneWorker, VolumesFit
<1>7. TableFits' /\ OneOwner'
  <2>1. ~Holds(w)' /\ ~HalfDeleted(w)
    BY <1>2 DEF Holds, HalfDeleted
  <2>2. \A x \in Workers :
          /\ caller'[x].pc = "use" => caller[x].pc = "use"
          /\ caller'[x].pc = "install" =>
               caller[x].pc = "install" /\ caller'[x].found = caller[x].found
    BY <1>3
  <2>3. QED
    BY <1>1, <1>2, <2>1, <2>2, OwnedByFewer, NoMoreOwned
<1>8. QED
  BY <1>4, <1>5, <1>6, <1>7 DEF Inv

LEMMA StartDeleteKeeps ==
  ASSUME Inv, NEW w \in Workers, NEW v \in Volumes, StartDelete(w, v)
  PROVE  Inv'
<1>1. UNCHANGED <<table, caller, phase, gidOf, class, group, faults, edits, crashes>>
  BY DEF StartDelete, apiVars, boundVars
<1>2. /\ job' \in [Workers -> Job]
      /\ job'[w] = [pc |-> "class", task |-> "delete", vol |-> v, gid |-> gidOf[v]]
      /\ \A x \in Workers : x # w => job'[x] = job[x] /\ job[x].vol # v
      /\ job[w].pc = "idle" /\ phase[v] = "released" /\ gidOf[v] \in Gids
  BY DEF StartDelete, Free, Inv, TypeOK, VolumesFit, Job, JobPCs, Tasks
<1>3. TypeOK'
  BY <1>1, <1>2 DEF Inv, TypeOK, Job
<1>4. JobsFit'
  BY <1>1, <1>2 DEF Inv, JobsFit
<1>5. OneWorker' /\ VolumesFit'
  BY <1>1, <1>2 DEF Inv, OneWorker, VolumesFit
<1>6. TableFits' /\ OneOwner'
  <2>1. ~Holds(w)' /\ ~HalfDeleted(w)
    BY <1>2 DEF Holds, HalfDeleted
  <2>2. QED
    BY <1>1, <1>2, <2>1, OwnedByFewer, NoMoreOwned
<1>7. QED
  BY <1>3, <1>4, <1>5, <1>6 DEF Inv

LEMMA RangeIsFullKeeps ==
  ASSUME Inv, NEW w \in Workers, job[w].pc = "gid", RangeIsFull(w), Stop(w),
         UNCHANGED <<apiVars, group, boundVars>>
  PROVE  Inv'
<1>1. UNCHANGED <<table, phase, gidOf, class, group, faults, edits, crashes>>
  BY DEF RangeIsFull, apiVars, boundVars
<1>2. /\ job' \in [Workers -> Job] /\ job'[w] = IdleJob
      /\ \A x \in Workers : x # w => job'[x] = job[x]
  BY DEF Stop, IdleJob, Inv, TypeOK, Job, JobPCs, Tasks
<1>3. /\ caller' \in [Workers -> Call]
      /\ caller'[w].pc = "out"
      /\ \A x \in Workers : x # w => caller'[x] = caller[x]
  <2>1. caller \in [Workers -> Call] /\ caller[w] \in Call
    BY DEF Inv, TypeOK
  <2>2. QED
    BY <2>1 DEF RangeIsFull, Leave, Call, CallPCs
<1>4. TypeOK'
  BY <1>1, <1>2, <1>3 DEF Inv, TypeOK, Job
<1>5. JobsFit' /\ OneWorker' /\ VolumesFit'
  BY <1>1, <1>2, <1>3 DEF Inv, JobsFit, OneWorker, VolumesFit, IdleJob
<1>6. TableFits' /\ OneOwner'
  <2>1. ~Holds(w)' /\ ~HalfDeleted(w)
    BY <1>2 DEF Holds, HalfDeleted, IdleJob
  <2>2. \A x \in Workers :
          /\ caller'[x].pc = "use" => caller[x].pc = "use"
          /\ caller'[x].pc = "install" =>
               caller[x].pc = "install" /\ caller'[x].found = caller[x].found
    BY <1>3
  <2>3. QED
    BY <1>1, <1>2, <2>1, <2>2, OwnedByFewer, NoMoreOwned
<1>7. QED
  BY <1>4, <1>5, <1>6 DEF Inv

(* The directory gets the group of the GID that the worker holds.          *)
LEMMA CreateVolumeKeeps ==
  ASSUME Inv, NEW w \in Workers, CreateVolume(w)
  PROVE  Inv'
<1>1. /\ UNCHANGED <<table, caller, phase, gidOf, class, edits, crashes>>
      /\ faults' \in 0 .. MaxFaults
      /\ job[w].pc = "directory"
  BY EFSAssumption DEF CreateVolume, Fault, apiVars, boundVars, Inv, TypeOK
<1>2. /\ job[w] \in Job /\ job[w].vol \in Volumes /\ job[w].gid \in Gids
      /\ job[w].task = "provision" /\ phase[job[w].vol] = "wanted"
      /\ caller[w].pc = "out"
  BY <1>1 DEF Inv, TypeOK, JobsFit, Job, Tasks
<1>3. ASSUME NEW v \in Volumes, v # job[w].vol PROVE group'[v] = group[v]
  BY <1>2, <1>3 DEF CreateVolume, Inv, TypeOK
<1>4. group' \in [Volumes -> Gids \cup {NoGid}]
  BY <1>2 DEF CreateVolume, Inv, TypeOK
<1>5. VolumesFit'
  BY <1>1, <1>2, <1>3 DEF Inv, VolumesFit
<1>6. ASSUME NEW x \in Workers, x # w, job[x].pc # "idle" PROVE job[x].vol # job[w].vol
  BY <1>1, <1>6 DEF Inv, OneWorker
<1>7. \A x \in Workers : x # w => job'[x] = job[x]
  BY DEF CreateVolume, Goto, Stop, Inv, TypeOK
<1>8. CASE group' = [group EXCEPT ![job[w].vol] = job[w].gid] /\ Goto(w, "save")
  <2>1. /\ job' \in [Workers -> Job]
        /\ job'[w] = [pc |-> "save", task |-> job[w].task, vol |-> job[w].vol, gid |-> job[w].gid]
    BY <1>2, <1>8 DEF Goto, Inv, TypeOK, Job, JobPCs
  <2>2. group'[job[w].vol] = job[w].gid
    BY <1>2, <1>8 DEF Inv, TypeOK
  <2>3. TypeOK'
    BY <1>1, <1>4, <2>1 DEF Inv, TypeOK, Job
  <2>4. JobsFit'
    BY <1>1, <1>2, <1>3, <1>6, <1>7, <2>1, <2>2 DEF Inv, JobsFit
  <2>5. OneWorker'
    BY <1>1, <1>7, <2>1 DEF Inv, OneWorker
  <2>6. TableFits' /\ OneOwner'
    <3>1. Holds(w) /\ ~HalfDeleted(w)
      BY <1>1, <1>2 DEF Holds, HalfDeleted
    <3>2. QED
      BY <1>1, <1>7, <2>1, <3>1, OwnedByFewer, NoMoreOwned
  <2>7. QED
    BY <1>5, <2>3, <2>4, <2>5, <2>6 DEF Inv
<1>9. CASE Stop(w)
  <2>1. job' \in [Workers -> Job] /\ job'[w] = IdleJob
    BY <1>9 DEF Stop, IdleJob, Inv, TypeOK, Job, JobPCs, Tasks
  <2>2. TypeOK'
    BY <1>1, <1>4, <2>1 DEF Inv, TypeOK, Job
  <2>3. JobsFit'
    BY <1>1, <1>2, <1>3, <1>6, <1>7, <2>1 DEF Inv, JobsFit, IdleJob
  <2>4. OneWorker'
    BY <1>1, <1>7, <2>1 DEF Inv, OneWorker, IdleJob
  <2>5. TableFits' /\ OneOwner'
    <3>1. ~Holds(w)' /\ ~HalfDeleted(w)
      BY <1>1, <2>1 DEF Holds, HalfDeleted, IdleJob
    <3>2. QED
      BY <1>1, <1>7, <3>1, OwnedByFewer, NoMoreOwned
  <2>6. QED
    BY <1>5, <2>2, <2>3, <2>4, <2>5 DEF Inv
<1>10. QED
  BY <1>8, <1>9 DEF CreateVolume

(* Release begins, or is left out because the class cannot be read.        *)
LEMMA ReadClassKeeps ==
  ASSUME Inv, NEW w \in Workers, ReadClass(w)
  PROVE  Inv'
<1>1. /\ UNCHANGED <<table, phase, gidOf, class, group, edits, crashes>>
      /\ faults' \in 0 .. MaxFaults
      /\ job[w].pc = "class"
  BY EFSAssumption DEF ReadClass, Fault, apiVars, boundVars, Inv, TypeOK
<1>2. /\ job[w] \in Job /\ job[w].vol \in Volumes /\ job[w].gid \in Gids
      /\ job[w].task # "provision" /\ caller[w].pc = "out"
      /\ ~HalfDeleted(w)
  BY <1>1 DEF Inv, TypeOK, JobsFit, Job, HalfDeleted
<1>3. \A x \in Workers : x # w => job'[x] = job[x] /\ caller'[x] = caller[x]
  BY DEF ReadClass, Goto, Enter, Inv, TypeOK
<1>4. CASE Enter(w, class, job[w].gid) /\ Goto(w, "gid")
  <2>1. /\ job' \in [Workers -> Job]
        /\ job'[w] = [pc |-> "gid", task |-> job[w].task, vol |-> job[w].vol, gid |-> job[w].gid]
    BY <1>2, <1>4 DEF Goto, Inv, TypeOK, Job, JobPCs
  <2>2. /\ caller' \in [Workers -> Call]
        /\ caller'[w] = [pc |-> "look", range |-> class, gid |-> job[w].gid, found |-> {}]
    BY <1>2, <1>4 DEF Enter, Inv, TypeOK, Call, CallPCs
  <2>3. TypeOK'
    BY <1>1, <2>1, <2>2 DEF Inv, TypeOK, Job
  <2>4. JobsFit'
    BY <1>1, <1>2, <1>3, <2>1, <2>2 DEF Inv, JobsFit
  <2>5. OneWorker' /\ VolumesFit'
    BY <1>1, <1>3, <2>1 DEF Inv, OneWorker, VolumesFit
  <2>6. TableFits' /\ OneOwner'
    <3>1. Holds(w)' => Holds(w)
      BY <1>1, <2>1 DEF Holds
    <3>2. \A x \in Workers : caller'[x].pc \in {"use", "install"} => caller'[x] = caller[x]
      BY <1>3, <2>2
    <3>3. QED
      BY <1>1, <1>2, <1>3, <2>1, <3>1, <3>2, OwnedByFewer, NoMoreOwned
  <2>7. QED
    BY <2>3, <2>4, <2>5, <2>6 DEF Inv
<1>5. CASE Goto(w, "remove") /\ UNCHANGED caller
  <2>1. /\ job' \in [Workers -> Job]
        /\ job'[w] = [pc |-> "remove", task |-> job[w].task, vol |-> job[w].vol, gid |-> job[w].gid]
    BY <1>2, <1>5 DEF Goto, Inv, TypeOK, Job, JobPCs
  <2>2. TypeOK'
    BY <1>1, <1>5, <2>1 DEF Inv, TypeOK, Job
  <2>3. JobsFit'
    BY <1>1, <1>2, <1>3, <1>5, <2>1 DEF Inv, JobsFit
  <2>4. OneWorker' /\ VolumesFit'
    BY <1>1, <1>3, <2>1 DEF Inv, OneWorker, VolumesFit
  <2>5. TableFits' /\ OneOwner'
    <3>1. ~Holds(w)'
      BY <2>1 DEF Holds
    <3>2. QED
      BY <1>1, <1>2, <1>3, <1>5, <2>1, <3>1, OwnedByFewer, NoMoreOwned
  <2>6. QED
    BY <2>2, <2>3, <2>4, <2>5 DEF Inv
<1>6. QED
  BY <1>4, <1>5 DEF ReadClass
-----------------------------------------------------------------------------
(* Steps that change what volumes stand for.                               *)

(* The GID that is taken is none that a volume stands for.                 *)
LEMMA AllocateNextKeeps ==
  ASSUME Inv, NEW w \in Workers, AllocateNext(w)
  PROVE  Inv'
<1>1. /\ UNCHANGED <<phase, gidOf, class, group, faults, edits, crashes>>
      /\ job[w].pc = "gid" /\ job[w].task = "provision"
  BY DEF AllocateNext, apiVars, boundVars
<1>2. CASE RangeIsFull(w) /\ Stop(w)
  BY <1>1, <1>2, RangeIsFullKeeps DEF apiVars, boundVars
<1>3. ASSUME NEW gid \in Gids, TakeNext(w, gid),
             job' = [job EXCEPT ![w] = [@ EXCEPT !.pc = "directory", !.gid = gid]]
      PROVE  Inv'
  <2>1. /\ job[w] \in Job /\ job[w].vol \in Volumes /\ phase[job[w].vol] = "wanted"
        /\ caller[w] \in Call
    BY <1>1 DEF Inv, TypeOK, JobsFit, Job
  <2>2. table \in Table /\ gid \notin table.used
    <3>1. table # NoTable
      BY <1>3 DEF TakeNext, Inv, TableFits
    <3>2. QED
      BY <1>3, <3>1 DEF TakeNext, IsNext, CanAllocate, Has, Inv, TypeOK
  <2>3. table' \in Table /\ table'.used = table.used \cup {gid}
    BY <1>3, <2>2, GidFacts DEF TakeNext, Take, With, Table
  <2>4. /\ job' \in [Workers -> Job]
        /\ job'[w] = [pc |-> "directory", task |-> "provision", vol |-> job[w].vol, gid |-> gid]
        /\ \A x \in Workers : x # w => job'[x] = job[x]
    BY <1>1, <1>3, <2>1 DEF Inv, TypeOK, Job, JobPCs
  <2>5. /\ caller' \in [Workers -> Call] /\ caller'[w].pc = "out"
        /\ \A x \in Workers : x # w => caller'[x] = caller[x]
    BY <1>3, <2>1 DEF TakeNext, Leave, Inv, TypeOK, Call, CallPCs
  <2>6. TypeOK'
    BY <1>1, <2>3, <2>4, <2>5 DEF Inv, TypeOK, Job
  <2>7. JobsFit'
    BY <1>1, <2>1, <2>4, <2>5 DEF Inv, JobsFit
  <2>8. OneWorker' /\ VolumesFit'
    BY <1>1, <2>4 DEF Inv, OneWorker, VolumesFit
  <2>9. ASSUME NEW v \in Volumes, NEW g \in Gids, Own(v, g)'
        PROVE  Own(v, g) \/ (v = job[w].vol /\ g = gid)
    <3>1. \A x \in Workers : x # w => (Holds(x)' <=> Holds(x)) /\ (HalfDeleted(x)' <=> HalfDeleted(x))
      BY <2>4 DEF Holds, HalfDeleted
    <3>2. ~HalfDeleted(w)
      BY <1>1 DEF HalfDeleted
    <3>3. CASE \E x \in Workers : Holds(x)' /\ job'[x].vol = v /\ job'[x].gid = g
      BY <2>4, <3>1, <3>3 DEF Own
    <3>4. CASE /\ phase[v] \in {"bound", "released"} /\ gidOf[v] = g
               /\ \A x \in Workers : job'[x].vol = v => ~HalfDeleted(x)'
      BY <2>4, <3>1, <3>2, <3>4 DEF Own
    <3>5. QED
      BY <1>1, <2>9, <3>3, <3>4 DEF Own
  <2>10. table # NoTable /\ table' # NoTable
    BY <2>2, <2>3, NoTableIsNone
  <2>11. \A v \in Volumes : ~Own(v, gid)
    BY <2>2, <2>10 DEF Inv, TableFits
  <2>12. OneOwner'
    BY <2>9, <2>11 DEF Inv, OneOwner
  <2>13. TableFits'
    BY <2>3, <2>9, <2>10 DEF Inv, TableFits
  <2>14. QED
    BY <2>6, <2>7, <2>8, <2>12, <2>13 DEF Inv
<1>4. QED
  BY <1>2, <1>3 DEF AllocateNext

(* What stands for the GID is the worker before and the PV after.          *)
LEMMA SavePVKeeps ==
  ASSUME Inv, NoRepeatedDelete, NEW w \in Workers, SavePV(w)
  PROVE  Inv'
<1>1. /\ UNCHANGED <<table, caller, class, group, edits, crashes>>
      /\ faults' \in 0 .. MaxFaults
      /\ job[w].pc = "save"
  BY EFSAssumption DEF SavePV, Fault, boundVars, Inv, TypeOK
<1>2. /\ job[w] \in Job /\ job[w].vol \in Volumes /\ job[w].gid \in Gids
      /\ job[w].task = "provision" /\ phase[job[w].vol] = "wanted"
      /\ caller[w].pc = "out" /\ group[job[w].vol] = job[w].gid
      /\ Holds(w) /\ ~HalfDeleted(w)
  BY <1>1 DEF Inv, TypeOK, JobsFit, Job, Tasks, Holds, HalfDeleted
<1>3. \A x \in Workers : x # w => job'[x] = job[x]
  BY DEF SavePV, Stop, Inv, TypeOK
<1>4. CASE Publish(w) /\ Stop(w)
  <2>1. job' \in [Workers -> Job] /\ job'[w] = IdleJob
    BY <1>4 DEF Stop, IdleJob, Inv, TypeOK, Job, JobPCs, Tasks
  <2>2. /\ phase' \in [Volumes -> Phases] /\ gidOf' \in [Volumes -> Gids \cup {NoGid}]
        /\ phase'[job[w].vol] = "bound" /\ gidOf'[job[w].vol] = job[w].gid
        /\ \A v \in Volumes : v # job[w].vol => phase'[v] = phase[v] /\ gidOf'[v] = gidOf[v]
    BY <1>2, <1>4 DEF Publish, Inv, TypeOK, Phases
  <2>3. TypeOK'
    BY <1>1, <2>1, <2>2 DEF Inv, TypeOK, Job
  <2>4. ASSUME NEW x \in Workers, x # w, job[x].pc # "idle" PROVE job[x].vol # job[w].vol
    BY <1>1, <2>4 DEF Inv, OneWorker
  <2>5. JobsFit'
    <3>1. ASSUME NEW x \in Workers, x # w, job[x].pc # "idle"
          PROVE  phase'[job[x].vol] = phase[job[x].vol] /\ gidOf'[job[x].vol] = gidOf[job[x].vol]
      BY <2>2, <2>4, <3>1 DEF Inv, JobsFit
    <3>2. QED
      BY <1>1, <1>2, <1>3, <2>1, <3>1 DEF Inv, JobsFit, IdleJob
  <2>6. OneWorker'
    BY <1>3, <2>1 DEF Inv, OneWorker, IdleJob
  <2>7. VolumesFit'
    BY <1>1, <1>2, <2>2 DEF Inv, VolumesFit
  <2>8. /\ \A x \in Workers : x # w => (Holds(x)' <=> Holds(x)) /\ (HalfDeleted(x)' <=> HalfDeleted(x))
        /\ ~Holds(w)'
    BY <1>3, <2>1 DEF Holds, HalfDeleted, IdleJob
  <2>9. ASSUME NEW v \in Volumes, NEW gid \in Gids, Own(v, gid)' PROVE Own(v, gid)
    <3>1. CASE \E x \in Workers : Holds(x)' /\ job'[x].vol = v /\ job'[x].gid = gid
      BY <1>3, <2>8, <3>1 DEF Own
    <3>2. CASE v = job[w].vol /\ gidOf'[v] = gid
      BY <1>2, <2>2, <3>2 DEF Own
    <3>3. CASE /\ v # job[w].vol
               /\ phase'[v] \in {"bound", "released"} /\ gidOf'[v] = gid
               /\ \A x \in Workers : job'[x].vol = v => ~HalfDeleted(x)'
      BY <1>2, <1>3, <2>2, <2>8, <3>3 DEF Own
    <3>4. QED
      BY <2>9, <3>1, <3>2, <3>3 DEF Own
  <2>10. TableFits' /\ OneOwner'
    BY <1>1, <2>8, <2>9, NoMoreOwned
  <2>11. QED
    BY <2>3, <2>5, <2>6, <2>7, <2>10 DEF Inv
<1>5. CASE /\ UNCHANGED <<phase, gidOf>>
           /\ job' = [job EXCEPT ![w] = [@ EXCEPT !.pc = "class", !.task = "cleanup"]]
  <2>1. /\ job' \in [Workers -> Job]
        /\ job'[w] = [pc |-> "class", task |-> "cleanup", vol |-> job[w].vol, gid |-> job[w].gid]
    BY <1>2, <1>5 DEF Inv, TypeOK, Job, JobPCs, Tasks
  <2>2. TypeOK'
    BY <1>1, <1>5, <2>1 DEF Inv, TypeOK, Job
  <2>3. JobsFit'
    BY <1>1, <1>2, <1>3, <1>5, <2>1 DEF Inv, JobsFit
  <2>4. OneWorker' /\ VolumesFit'
    BY <1>1, <1>3, <1>5, <2>1 DEF Inv, OneWorker, VolumesFit
  <2>5. TableFits' /\ OneOwner'
    BY <1>1, <1>2, <1>3, <1>5, <2>1, OwnedByFewer, NoMoreOwned
  <2>6. QED
    BY <2>2, <2>3, <2>4, <2>5 DEF Inv
<1>6. ~Fault("lostSave")
  BY DEF NoRepeatedDelete, Fault
<1>7. QED
  BY <1>4, <1>5, <1>6 DEF SavePV

(* The GID that is given back is the one the volume stood for: no other    *)
(* volume stands for it, and this one does not any more.                   *)
LEMMA ReleaseKeeps ==
  ASSUME Inv, NEW w \in Workers, Release(w)
  PROVE  Inv'
<1>1. /\ UNCHANGED <<phase, gidOf, class, group, faults, edits, crashes>>
      /\ job[w].pc = "gid" /\ job[w].task # "provision"
      /\ caller[w].pc = "use"
  BY DEF Release, GiveBack, apiVars, boundVars
<1>2. /\ job[w] \in Job /\ job[w].vol \in Volumes /\ job[w].gid \in Gids
      /\ caller[w].gid = job[w].gid /\ caller[w] \in Call
      /\ job[w].task \in {"cleanup", "delete"}
      /\ ~HalfDeleted(w)
  BY <1>1 DEF Inv, TypeOK, JobsFit, Job, Tasks, HalfDeleted
<1>3. table # NoTable /\ table \in Table
  BY <1>1 DEF Inv, TypeOK, TableFits
<1>4. table' \in Table /\ table'.used = table.used \ {job[w].gid}
  BY <1>2, <1>3, GidFacts DEF Release, GiveBack, Put, With, Table, Has
<1>5. /\ job' \in [Workers -> Job]
      /\ job'[w] = [pc |-> "remove", task |-> job[w].task, vol |-> job[w].vol, gid |-> job[w].gid]
      /\ \A x \in Workers : x # w => job'[x] = job[x]
  BY <1>2 DEF Release, Goto, Inv, TypeOK, Job, JobPCs
<1>6. /\ caller' \in [Workers -> Call] /\ caller'[w].pc = "out"
      /\ \A x \in Workers : x # w => caller'[x] = caller[x]
  BY <1>2 DEF Release, GiveBack, Leave, Inv, TypeOK, Call, CallPCs
<1>7. TypeOK'
  BY <1>1, <1>4, <1>5, <1>6 DEF Inv, TypeOK, Job
<1>8. JobsFit'
  BY <1>1, <1>2, <1>5, <1>6 DEF Inv, JobsFit
<1>9. OneWorker' /\ VolumesFit'
  BY <1>1, <1>5 DEF Inv, OneWorker, VolumesFit
<1>10. \A v \in Volumes, gid \in Gids : Own(v, gid)' => Own(v, gid)
  <2>1. ~Holds(w)'
    BY <1>5 DEF Holds
  <2>2. QED
    BY <1>1, <1>2, <1>5, <2>1, OwnedByFewer
<1>11. ASSUME NEW x \in Workers, x # w, job[x].vol = job[w].vol PROVE job[x].pc = "idle"
  BY <1>1, <1>11 DEF Inv, OneWorker
<1>12. Own(job[w].vol, job[w].gid)
  <2>1. CASE job[w].task = "cleanup"
    BY <1>1, <2>1 DEF Own, Holds
  <2>2. CASE job[w].task = "delete"
    <3>1. phase[job[w].vol] = "released" /\ gidOf[job[w].vol] = job[w].gid
      BY <2>2 DEF Inv, JobsFit
    <3>2. \A x \in Workers : job[x].vol = job[w].vol => ~HalfDeleted(x)
      BY <1>2, <1>11 DEF HalfDeleted
    <3>3. QED
      BY <3>1, <3>2 DEF Own
  <2>3. QED
    BY <1>2, <2>1, <2>2
<1>13. ASSUME NEW v \in Volumes, v = job[w].vol, NEW gid \in Gids, gid = job[w].gid
       PROVE  ~Own(v, gid)'
  <2>1. ASSUME NEW x \in Workers, Holds(x)' PROVE job'[x].vol # job[w].vol
    <3>1. x # w
      BY <1>5, <2>1 DEF Holds
    <3>2. QED
      BY <1>5, <1>11, <2>1, <3>1 DEF Holds
  <2>2. ~(/\ phase[job[w].vol] \in {"bound", "released"}
          /\ \A x \in Workers : job'[x].vol = job[w].vol => ~HalfDeleted(x)')
    <3>1. CASE job[w].task = "cleanup"
      BY <1>1, <3>1 DEF Inv, JobsFit
    <3>2. CASE job[w].task = "delete"
      <4>1. job'[w].vol = job[w].vol /\ HalfDeleted(w)'
        BY <1>5, <3>2 DEF HalfDeleted
      <4>2. QED
        BY <4>1
    <3>3. QED
      BY <1>2, <3>1, <3>2
  <2>3. QED
    BY <1>1, <1>5, <1>13, <2>1, <2>2 DEF Own
<1>14. OneOwner'
  BY <1>10 DEF Inv, OneOwner
<1>15. ASSUME NEW v \in Volumes, NEW gid \in Gids, Own(v, gid)' PROVE gid \in table'.used
  <2>1. gid \in table.used
    BY <1>3, <1>10, <1>15 DEF Inv, TableFits
  <2>2. ASSUME gid = job[w].gid PROVE FALSE
    <3>1. v = job[w].vol
      BY <1>2, <1>10, <1>12, <1>15, <2>2 DEF Inv, OneOwner
    <3>2. QED
      BY <1>13, <1>15, <2>2, <3>1
  <2>3. QED
    BY <1>4, <2>1, <2>2
<1>16. TableFits'
  BY <1>4, <1>15, NoTableIsNone DEF TableFits
<1>17. QED
  BY <1>7, <1>8, <1>9, <1>14, <1>16 DEF Inv

LEMMA RemoveVolumeKeeps ==
  ASSUME Inv, NoRepeatedDelete, NEW w \in Workers, RemoveVolume(w)
  PROVE  Inv'
<1>1. ~Fault("removeAll")
  BY DEF NoRepeatedDelete, Fault
<1>2. /\ UNCHANGED <<table, caller, phase, gidOf, class, faults, edits, crashes>>
      /\ job[w].pc = "remove"
      /\ group' = [group EXCEPT ![job[w].vol] = NoGid]
      /\ IF job[w].task = "delete" THEN Goto(w, "unpublish") ELSE Stop(w)
  BY <1>1 DEF RemoveVolume, apiVars, boundVars
<1>3. /\ job[w] \in Job /\ job[w].vol \in Volumes /\ job[w].gid \in Gids
      /\ job[w].task \in {"cleanup", "delete"} /\ caller[w].pc = "out"
      /\ phase[job[w].vol] \in {"wanted", "released"}
  BY <1>2 DEF Inv, TypeOK, JobsFit, Job, Tasks
<1>4. /\ job' \in [Workers -> Job]
      /\ \A x \in Workers : x # w => job'[x] = job[x]
      /\ job[w].task = "delete" =>
           job'[w] = [pc |-> "unpublish", task |-> "delete", vol |-> job[w].vol, gid |-> job[w].gid]
      /\ job[w].task # "delete" => job'[w] = IdleJob
  <2>1. CASE job[w].task = "delete"
    BY <1>2, <1>3, <2>1 DEF Goto, Inv, TypeOK, Job, JobPCs
  <2>2. CASE job[w].task # "delete"
    BY <1>2, <1>3, <2>2 DEF Stop, IdleJob, Inv, TypeOK, Job, JobPCs, Tasks
  <2>3. QED
    BY <2>1, <2>2
<1>5. /\ group' \in [Volumes -> Gids \cup {NoGid}]
      /\ \A v \in Volumes : v # job[w].vol => group'[v] = group[v]
  BY <1>2, <1>3 DEF Inv, TypeOK
<1>6. TypeOK'
  BY <1>2, <1>4, <1>5 DEF Inv, TypeOK, Job
<1>7. ASSUME NEW x \in Workers, x # w, job[x].pc # "idle" PROVE job[x].vol # job[w].vol
  BY <1>2, <1>7 DEF Inv, OneWorker
<1>8. JobsFit'
  <2>1. ASSUME NEW x \in Workers, x # w, job[x].pc # "idle"
        PROVE  group'[job[x].vol] = group[job[x].vol]
    BY <1>5, <1>7, <2>1 DEF Inv, JobsFit
  <2>2. CASE job[w].task = "delete"
    BY <1>2, <1>3, <1>4, <2>1, <2>2 DEF Inv, JobsFit
  <2>3. CASE job[w].task # "delete"
    BY <1>2, <1>3, <1>4, <2>1, <2>3 DEF Inv, JobsFit, IdleJob
  <2>4. QED
    BY <2>2, <2>3
<1>9. OneWorker'
  BY <1>2, <1>4 DEF Inv, OneWorker, IdleJob
<1>10. VolumesFit'
  BY <1>2, <1>3, <1>5 DEF Inv, VolumesFit
<1>11. TableFits' /\ OneOwner'
  <2>1. ~Holds(w)'
    BY <1>4 DEF Holds, IdleJob
  <2>2. HalfDeleted(w) => HalfDeleted(w)' /\ job'[w].vol = job[w].vol
    BY <1>4 DEF HalfDeleted
  <2>3. QED
    BY <1>2, <1>4, <2>1, <2>2, OwnedByFewer, NoMoreOwned
<1>12. QED
  BY <1>6, <1>8, <1>9, <1>10, <1>11 DEF Inv

LEMMA RemovePVKeeps ==
  ASSUME Inv, NoRepeatedDelete, NEW w \in Workers, RemovePV(w)
  PROVE  Inv'
<1>1. ~Fault("remove")
  BY DEF NoRepeatedDelete, Fault
<1>2. /\ UNCHANGED <<table, caller, class, group, faults, edits, crashes>>
      /\ job[w].pc = "unpublish" /\ Stop(w)
      /\ phase' = [phase EXCEPT ![job[w].vol] = "gone"]
      /\ gidOf' = [gidOf EXCEPT ![job[w].vol] = NoGid]
  BY <1>1 DEF RemovePV, boundVars
<1>3. /\ job[w].vol \in Volumes /\ job[w].task = "delete" /\ caller[w].pc = "out"
  BY <1>2 DEF Inv, TypeOK, JobsFit, Tasks
<1>4. /\ job' \in [Workers -> Job] /\ job'[w] = IdleJob
      /\ \A x \in Workers : x # w => job'[x] = job[x]
  BY <1>2 DEF Stop, IdleJob, Inv, TypeOK, Job, JobPCs, Tasks
<1>5. /\ phase' \in [Volumes -> Phases] /\ gidOf' \in [Volumes -> Gids \cup {NoGid}]
      /\ phase'[job[w].vol] = "gone"
      /\ \A v \in Volumes : v # job[w].vol => phase'[v] = phase[v] /\ gidOf'[v] = gidOf[v]
  BY <1>2, <1>3 DEF Inv, TypeOK, Phases
<1>6. TypeOK'
  BY <1>2, <1>4, <1>5 DEF Inv, TypeOK, Job
<1>7. ASSUME NEW x \in Workers, x # w, job[x].pc # "idle"
      PROVE  job[x].vol # job[w].vol /\ job[x].vol \in Volumes
  BY <1>2, <1>7 DEF Inv, OneWorker, JobsFit
<1>8. JobsFit'
  BY <1>2, <1>3, <1>4, <1>5, <1>7 DEF Inv, JobsFit, IdleJob
<1>9. OneWorker'
  BY <1>4 DEF Inv, OneWorker, IdleJob
<1>10. VolumesFit'
  BY <1>2, <1>3, <1>5 DEF Inv, VolumesFit
<1>11. /\ \A x \in Workers : x # w => (Holds(x)' <=> Holds(x)) /\ (HalfDeleted(x)' <=> HalfDeleted(x))
       /\ ~Holds(w)'
  BY <1>4 DEF Holds, HalfDeleted, IdleJob
<1>12. ASSUME NEW v \in Volumes, NEW gid \in Gids, Own(v, gid)' PROVE Own(v, gid)
  <2>1. CASE \E x \in Workers : Holds(x)' /\ job'[x].vol = v /\ job'[x].gid = gid
    BY <1>4, <1>11, <2>1 DEF Own
  <2>2. CASE /\ phase'[v] \in {"bound", "released"} /\ gidOf'[v] = gid
             /\ \A x \in Workers : job'[x].vol = v => ~HalfDeleted(x)'
    <3>1. v # job[w].vol
      BY <1>5, <2>2
    <3>2. QED
      BY <1>4, <1>5, <1>11, <2>2, <3>1 DEF Own
  <2>3. QED
    BY <1>12, <2>1, <2>2 DEF Own
<1>13. TableFits' /\ OneOwner'
  BY <1>2, <1>11, <1>12, NoMoreOwned
<1>14. QED
  BY <1>6, <1>8, <1>9, <1>10, <1>13 DEF Inv

(* A restart forgets the table, the calls and the jobs; no Delete is cut   *)
(* in two by it, so every GID that is still stood for is one of a PV.      *)
LEMMA RestartKeeps ==
  ASSUME Inv, NoRepeatedDelete, Restart
  PROVE  Inv'
<1>1. /\ UNCHANGED <<phase, gidOf, class, group, faults, edits>>
      /\ crashes' \in 0 .. MaxCrashes
      /\ table' = NoTable
      /\ job' = [w \in Workers |-> IdleJob]
      /\ \A w \in Workers : ~HalfDeleted(w)
  <2>1. crashes' \in 0 .. MaxCrashes
    <3>1. crashes \in 0 .. MaxCrashes /\ MaxCrashes \in Nat
      BY EFSAssumption DEF Inv, TypeOK
    <3>2. crashes < MaxCrashes /\ crashes' = crashes + 1
      BY DEF Restart
    <3>3. QED
      BY <3>1, <3>2
  <2>2. QED
    BY <2>1 DEF Restart, apiVars, NoRepeatedDelete
<1>2. job' \in [Workers -> Job] /\ \A w \in Workers : job'[w] = IdleJob
  BY <1>1 DEF IdleJob, Job, JobPCs, Tasks
<1>3. caller' \in [Workers -> Call] /\ \A w \in Workers : caller'[w].pc = "out"
  <2>1. \A w \in Workers : caller[w] \in Call
    BY DEF Inv, TypeOK
  <2>2. \A w \in Workers :
          /\ [caller[w] EXCEPT !.pc = "out", !.gid = NoGid, !.found = {}] \in Call
          /\ [caller[w] EXCEPT !.pc = "out", !.gid = NoGid, !.found = {}].pc = "out"
    BY <2>1 DEF Call, CallPCs
  <2>3. QED
    BY <2>2 DEF Restart
<1>4. TypeOK'
  BY <1>1, <1>2, <1>3 DEF Inv, TypeOK, Job
<1>5. JobsFit' /\ OneWorker' /\ VolumesFit'
  BY <1>1, <1>2, <1>3 DEF Inv, JobsFit, OneWorker, VolumesFit, IdleJob
<1>6. \A w \in Workers : ~Holds(w)'
  BY <1>2 DEF Holds, IdleJob
<1>7. \A v \in Volumes, gid \in Gids : Own(v, gid)' => Own(v, gid)
  BY <1>1, <1>6 DEF Own
<1>8. OneOwner'
  BY <1>7 DEF Inv, OneOwner
<1>9. TableFits'
  BY <1>1, <1>3, <1>6 DEF TableFits
<1>10. QED
  BY <1>4, <1>5, <1>8, <1>9 DEF Inv

(* A claim that is deleted leaves its PV released, with its GID.           *)
LEMMA ReleasePVKeeps ==
  ASSUME Inv, NEW v \in Volumes, ReleasePV(v)
  PROVE  Inv'
<1>1. /\ UNCHANGED <<table, caller, gidOf, class, group, job, faults, edits, crashes>>
      /\ phase[v] = "bound" /\ phase' = [phase EXCEPT ![v] = "released"]
  BY DEF ReleasePV, boundVars
<1>2. /\ phase' \in [Volumes -> Phases] /\ phase'[v] = "released"
      /\ \A u \in Volumes : u # v => phase'[u] = phase[u]
  BY <1>1 DEF Inv, TypeOK, Phases
<1>3. TypeOK'
  BY <1>1, <1>2 DEF Inv, TypeOK
<1>4. \A w \in Workers : job[w].pc # "idle" => job[w].vol # v
  BY <1>1 DEF Inv, JobsFit, TypeOK, Tasks, Job
<1>5. JobsFit' /\ OneWorker' /\ VolumesFit'
  BY <1>1, <1>2, <1>4 DEF Inv, JobsFit, OneWorker, VolumesFit, TypeOK, Tasks, Job
<1>6. \A w \in Workers : (Holds(w)' <=> Holds(w)) /\ (HalfDeleted(w)' <=> HalfDeleted(w))
  BY <1>1 DEF Holds, HalfDeleted
<1>7. \A u \in Volumes, gid \in Gids : Own(u, gid)' => Own(u, gid)
  BY <1>1, <1>2, <1>6 DEF Own
<1>8. TableFits' /\ OneOwner'
  BY <1>1, <1>6, <1>7, NoMoreOwned
<1>9. QED
  BY <1>3, <1>5, <1>8 DEF Inv

LEMMA EditClassKeeps ==
  ASSUME Inv, EditClass
  PROVE  Inv'
<1>1. UNCHANGED <<table, caller, phase, gidOf, group, job, faults, crashes>>
  BY DEF EditClass
<1>2. TypeOK'
  BY <1>1, EFSAssumption DEF EditClass, Inv, TypeOK
<1>3. JobsFit' /\ OneWorker' /\ VolumesFit'
  BY <1>1 DEF Inv, JobsFit, OneWorker, VolumesFit
<1>4. TableFits' /\ OneOwner'
  BY <1>1, SameOwned, NoMoreOwned
<1>5. QED
  BY <1>2, <1>3, <1>4 DEF Inv
-----------------------------------------------------------------------------
LEMMA WorkKeeps ==
  ASSUME Inv, NoRepeatedDelete, NEW w \in Workers, Work(w)
  PROVE  Inv'
<1>1. CASE \E v \in Volumes : StartProvision(w, v) \/ StartDelete(w, v)
  BY <1>1, StartProvisionKeeps, StartDeleteKeeps
<1>2. CASE InAllocator(w)
  <2>1. CASE (LookUp(w) \/ Install(w)) /\ UNCHANGED <<apiVars, group, job, boundVars>>
    BY <2>1, LookUpKeeps, InstallKeeps
  <2>2. CASE Collect(w)
    BY <2>2, CollectGidsKeeps, ListFailsKeeps DEF Collect, Shown
  <2>3. QED
    BY <1>2, <2>1, <2>2 DEF InAllocator
<1>3. CASE AllocateNext(w) \/ CreateVolume(w) \/ SavePV(w)
  BY <1>3, AllocateNextKeeps, CreateVolumeKeeps, SavePVKeeps
<1>4. CASE ReadClass(w) \/ Release(w) \/ RemoveVolume(w) \/ RemovePV(w)
  BY <1>4, ReadClassKeeps, ReleaseKeeps, RemoveVolumeKeeps, RemovePVKeeps
<1>5. QED
  BY <1>1, <1>2, <1>3, <1>4 DEF Work

LEMMA InitInv == Init => Inv
<1>1. SUFFICES ASSUME Init PROVE Inv
  OBVIOUS
<1>2. \A w \in Workers : job[w] = IdleJob /\ caller[w] = OutOfCall(class)
  BY <1>1 DEF Init
<1>3. TypeOK
  <2>1. class \in Ranges
    BY <1>1 DEF Init
  <2>2. OutOfCall(class) \in Call
    BY <2>1 DEF OutOfCall, Call, CallPCs
  <2>3. IdleJob \in Job
    BY DEF IdleJob, Job, JobPCs, Tasks
  <2>4. QED
    BY <1>1, <2>1, <2>2, <2>3, EFSAssumption DEF Init, TypeOK, Phases, Job
<1>4. JobsFit /\ OneWorker /\ VolumesFit
  BY <1>1, <1>2, GidFacts DEF Init, JobsFit, OneWorker, VolumesFit, IdleJob, OutOfCall
<1>5. \A w \in Workers : ~Holds(w)
  BY <1>2 DEF Holds, IdleJob
<1>6. TableFits
  BY <1>1, <1>2, <1>5 DEF Init, TableFits, OutOfCall
<1>7. OneOwner
  BY <1>1, <1>5, GidFacts DEF Init, OneOwner, Own
<1>8. QED
  BY <1>3, <1>4, <1>6, <1>7 DEF Inv

(* The inductive invariant holds in every behaviour.                       *)
THEOREM InvHolds ==
  ASSUME NoRepeatedDelete
  PROVE  Spec => []Inv
<1>1. Inv /\ [Next]_vars => Inv'
  <2>1. SUFFICES ASSUME Inv, [Next]_vars PROVE Inv'
    OBVIOUS
  <2>2. CASE Next
    BY <2>1, <2>2, WorkKeeps, ReleasePVKeeps, EditClassKeeps, RestartKeeps DEF Next
  <2>3. CASE UNCHANGED vars
    <3>1. UNCHANGED <<table, caller, phase, gidOf, class, group, job, faults, edits, crashes>>
      BY <2>3 DEF vars, apiVars, boundVars
    <3>2. TypeOK' /\ JobsFit' /\ OneWorker' /\ VolumesFit'
      BY <2>1, <3>1 DEF Inv, TypeOK, JobsFit, OneWorker, VolumesFit
    <3>3. TableFits' /\ OneOwner'
      BY <2>1, <3>1, SameOwned, NoMoreOwned
    <3>4. QED
      BY <3>2, <3>3 DEF Inv
  <2>4. QED
    BY <2>1, <2>2, <2>3
<1>2. QED
  BY InitInv, <1>1, PTL DEF Spec

(* Every variable keeps its type: the provisioner works with GIDs only.    *)
THEOREM TypeCorrect ==
  ASSUME NoRepeatedDelete
  PROVE  Spec => []TypeOK
<1>1. Inv => TypeOK
  BY DEF Inv
<1>2. QED
  BY <1>1, InvHolds, PTL

(* No two bound volumes share a GID, whatever runs at once.                *)
THEOREM GidsUnique ==
  ASSUME NoRepeatedDelete
  PROVE  Spec => []UniqueGids
<1>1. ASSUME Inv PROVE UniqueGids
  <2>1. ASSUME NEW v \in Volumes, phase[v] = "bound" PROVE gidOf[v] \in Gids /\ Own(v, gidOf[v])
    BY <1>1, <2>1 DEF Inv, VolumesFit, JobsFit, Own, HalfDeleted
  <2>2. QED
    BY <1>1, <2>1 DEF Inv, OneOwner, UniqueGids
<1>2. QED
  BY <1>1, InvHolds, PTL

(* The table knows the GIDs of all bound volumes and of those being made.  *)
THEOREM GidsReserved ==
  ASSUME NoRepeatedDelete
  PROVE  Spec => []Reserved
<1>1. ASSUME Inv PROVE Reserved
  <2>1. ASSUME table # NoTable, NEW v \in Volumes, phase[v] = "bound" PROVE gidOf[v] \in table.used
    <3>1. gidOf[v] \in Gids /\ Own(v, gidOf[v])
      BY <1>1, <2>1 DEF Inv, VolumesFit, JobsFit, Own, HalfDeleted
    <3>2. QED
      BY <1>1, <2>1, <3>1 DEF Inv, TableFits
  <2>2. ASSUME NEW w \in Workers, job[w].pc \in {"directory", "save"} PROVE job[w].gid \in table.used
    <3>1. Holds(w) /\ job[w].vol \in Volumes /\ job[w].gid \in Gids
      BY <1>1, <2>2 DEF Holds, Inv, JobsFit
    <3>2. Own(job[w].vol, job[w].gid)
      BY <3>1 DEF Own
    <3>3. QED
      BY <1>1, <3>1, <3>2 DEF Inv, TableFits
  <2>3. QED
    BY <2>1, <2>2 DEF Reserved
<1>2. QED
  BY <1>1, InvHolds, PTL

(* The directory of a bound volume belongs to the group its PV names.      *)
THEOREM GroupsMatch ==
  ASSUME NoRepeatedDelete
  PROVE  Spec => []GroupMatches
<1>1. Inv => GroupMatches
  BY DEF Inv, VolumesFit, GroupMatches
<1>2. QED
  BY <1>1, InvHolds, PTL
-----------------------------------------------------------------------------
(* What is lost.  A GID that is used although no volume stands for it was  *)
(* lost by a call that failed, and no call loses more than one.            *)

(* The GIDs that some volume stands for.                                   *)
Standing == {gid \in Gids : \E v \in Volumes : Own(v, gid)}

(* All of the GIDs but one per failed call have a volume.                  *)
Within(gids) == gids \subseteq Gids /\ Cardinality(gids \ Standing) <= faults

(* The GIDs in use, by the table or, when it is yet to be made, by the PVs *)
(* it will be made from; a list of those may be on its way into the table. *)
InUse == IF table = NoTable THEN Shown ELSE table.used

LeakInv ==
  /\ Within(InUse)
  /\ table = NoTable =>
       \A w \in Workers : caller[w].pc = "install" => Within(caller[w].found)

LEMMA FiniteGids ==
  ASSUME NEW gids \in SUBSET Gids
  PROVE  IsFiniteSet(gids) /\ Cardinality(gids) \in Nat
<1>1. gids = gids \cap (0 .. AbsoluteMax)
  BY DEF Gids
<1>2. 0 \in Int /\ AbsoluteMax \in Int
  BY GidAssumption DEF ParsedRange, Gids
<1>3. IsFiniteSet(gids \cap (0 .. AbsoluteMax)) /\ Cardinality(gids \cap (0 .. AbsoluteMax)) \in Nat
  BY <1>2, RangeCardinality
<1>4. QED
  BY <1>1, <1>3

(* At most one more is lost when a call fails, and none otherwise.         *)
LEMMA OneMore ==
  ASSUME NEW before \in SUBSET Gids, NEW after \in SUBSET Gids, NEW gid,
         NEW m \in Nat, NEW n \in Nat, Cardinality(before) <= m,
         \/ n >= m /\ after \subseteq before
         \/ n = m + 1 /\ after \subseteq before \cup {gid}
  PROVE  Cardinality(after) <= n
<1>1. IsFiniteSet(before) /\ Cardinality(before) \in Nat /\ Cardinality(after) \in Nat
  BY FiniteGids
<1>2. CASE n >= m /\ after \subseteq before
  <2>1. Cardinality(after) <= Cardinality(before)
    BY <1>1, <1>2, FS_Subset
  <2>2. QED
    BY <1>1, <1>2, <2>1
<1>3. CASE n = m + 1 /\ after \subseteq before \cup {gid}
  <2>1. /\ IsFiniteSet(before \cup {gid})
        /\ Cardinality(before \cup {gid}) =
             IF gid \in before THEN Cardinality(before) ELSE Cardinality(before) + 1
    BY <1>1, FS_AddElement
  <2>2. Cardinality(after) <= Cardinality(before \cup {gid})
    BY <1>3, <2>1, FS_Subset
  <2>3. Cardinality(before \cup {gid}) <= Cardinality(before) + 1
    BY <1>1, <2>1
  <2>4. Cardinality(before \cup {gid}) \in Nat
    BY <1>1, <2>1
  <2>5. QED
    BY <1>1, <1>3, <2>2, <2>3, <2>4
<1>4. QED
  BY <1>2, <1>3

LEMMA CountedFaults ==
  ASSUME Inv
  PROVE  faults \in Nat
BY EFSAssumption DEF Inv, TypeOK

LEMMA WithinStep ==
  ASSUME Inv, Inv', NEW before, NEW after \in SUBSET Gids, NEW gid, Within(before),
         \/ faults' >= faults /\ after \ Standing' \subseteq before \ Standing
         \/ /\ faults' = faults + 1
            /\ after \ Standing' \subseteq (before \ Standing) \cup {gid}
  PROVE  after \subseteq Gids /\ Cardinality(after \ Standing') <= faults'
<1>1. faults \in Nat /\ faults' \in Nat
  <2>1. faults' \in 0 .. MaxFaults
    BY DEF Inv, TypeOK
  <2>2. QED
    BY <2>1, CountedFaults, EFSAssumption
<1>2. before \ Standing \in SUBSET Gids /\ Cardinality(before \ Standing) <= faults
  BY DEF Within
<1>3. after \ Standing' \in SUBSET Gids
  OBVIOUS
<1>4. QED
  BY <1>1, <1>2, <1>3, OneMore

(* A step that keeps the table there or away, adds no used GID without a   *)
(* volume, and after which at most the given GID has lost its volume, and  *)
(* that only by a failed call or together with its place in the table.     *)
LEMMA LeakStep ==
  ASSUME Inv, Inv', LeakInv, NEW gid,
         \/ faults' >= faults /\ Standing \subseteq Standing'
         \/ faults' = faults + 1 /\ Standing \subseteq Standing' \cup {gid},
         table = NoTable =>
           /\ table' = NoTable /\ Shown' \subseteq Shown
           /\ \A w \in Workers :
                caller'[w].pc = "install" =>
                  caller[w].pc = "install" /\ caller'[w].found = caller[w].found,
         table # NoTable => table' # NoTable /\ table'.used \subseteq table.used \cup Standing'
  PROVE  LeakInv'
<1>1. CASE table = NoTable
  <2>1. InUse = Shown /\ InUse' = Shown' /\ table' = NoTable
    BY <1>1 DEF InUse
  <2>2. Shown \in SUBSET Gids
    BY <2>1 DEF LeakInv, Within
  <2>3. Within(InUse)'
    <3>1. Shown' \in SUBSET Gids /\ Within(Shown)
      BY <1>1, <2>1, <2>2 DEF LeakInv
    <3>2. \/ faults' >= faults /\ Shown' \ Standing' \subseteq Shown \ Standing
          \/ /\ faults' = faults + 1
             /\ Shown' \ Standing' \subseteq (Shown \ Standing) \cup {gid}
      BY <1>1
    <3>3. QED
      BY <2>1, <3>1, <3>2, WithinStep DEF Within
  <2>4. ASSUME NEW w \in Workers, caller'[w].pc = "install"
        PROVE  Within(caller[w].found)'
    <3>1. Within(caller[w].found) /\ caller'[w].found = caller[w].found
      BY <1>1, <2>4 DEF LeakInv
    <3>2. caller'[w].found \in SUBSET Gids
      BY <3>1 DEF Within
    <3>3. \/ faults' >= faults /\ caller'[w].found \ Standing' \subseteq caller[w].found \ Standing
          \/ /\ faults' = faults + 1
             /\ caller'[w].found \ Standing' \subseteq (caller[w].found \ Standing) \cup {gid}
      BY <3>1
    <3>4. QED
      BY <3>1, <3>2, <3>3, WithinStep DEF Within
  <2>5. QED
    BY <2>3, <2>4 DEF LeakInv
<1>2. CASE table # NoTable
  <2>1. InUse = table.used /\ InUse' = table'.used /\ table' # NoTable
    BY <1>2 DEF InUse
  <2>2. Within(InUse) /\ InUse \in SUBSET Gids
    BY DEF LeakInv, Within
  <2>3. Standing' \in SUBSET Gids
    BY DEF Standing
  <2>4. InUse' \in SUBSET Gids
    BY <1>2, <2>1, <2>2, <2>3
  <2>5. \/ faults' >= faults /\ InUse' \ Standing' \subseteq InUse \ Standing
        \/ /\ faults' = faults + 1
           /\ InUse' \ Standing' \subseteq (InUse \ Standing) \cup {gid}
    BY <1>2, <2>1
  <2>6. QED
    BY <2>1, <2>2, <2>4, <2>5, WithinStep DEF LeakInv, Within
<1>3. QED
  BY <1>1, <1>2

(* A step that leaves every GID its volume.                                *)
LEMMA SameStanding ==
  ASSUME \A v \in Volumes, gid \in Gids : Own(v, gid) => Own(v, gid)'
  PROVE  Standing \subseteq Standing'
BY DEF Standing

(* What a worker's step may take the volume from: the worker's own GID.    *)
LEMMA LosesOne ==
  ASSUME NEW w \in Workers, UNCHANGED <<phase, gidOf>>,
         \A x \in Workers : x # w => job'[x] = job[x],
         HalfDeleted(w)' => gidOf[job'[w].vol] = job[w].gid
  PROVE  Standing \subseteq Standing' \cup {job[w].gid}
<1>1. \A x \in Workers : x # w => (Holds(x)' <=> Holds(x)) /\ (HalfDeleted(x)' <=> HalfDeleted(x))
  BY DEF Holds, HalfDeleted
<1>2. ASSUME NEW v \in Volumes, NEW gid \in Gids, Own(v, gid), gid # job[w].gid
      PROVE  Own(v, gid)'
  <2>1. CASE \E x \in Workers : Holds(x) /\ job[x].vol = v /\ job[x].gid = gid
    BY <1>1, <1>2, <2>1 DEF Own
  <2>2. CASE /\ phase[v] \in {"bound", "released"} /\ gidOf[v] = gid
             /\ \A x \in Workers : job[x].vol = v => ~HalfDeleted(x)
    <3>1. ASSUME NEW x \in Workers, job'[x].vol = v PROVE ~HalfDeleted(x)'
      BY <1>1, <1>2, <2>2, <3>1
    <3>2. QED
      BY <2>2, <3>1 DEF Own
  <2>3. QED
    BY <1>2, <2>1, <2>2 DEF Own
<1>3. QED
  BY <1>2 DEF Standing

(* The worker goes on, or stops without a GID: nothing loses its volume.   *)
LEMMA LosesNone ==
  ASSUME NEW w \in Workers, UNCHANGED <<phase, gidOf>>,
         \A x \in Workers : x # w => job'[x] = job[x],
         Holds(w) => Holds(w)' /\ job'[w].vol = job[w].vol /\ job'[w].gid = job[w].gid,
         HalfDeleted(w)' => HalfDeleted(w) /\ job'[w].vol = job[w].vol
  PROVE  Standing \subseteq Standing'
<1>1. \A x \in Workers : x # w => (Holds(x)' <=> Holds(x)) /\ (HalfDeleted(x)' <=> HalfDeleted(x))
  BY DEF Holds, HalfDeleted
<1>2. \A x \in Workers : Holds(x) => Holds(x)' /\ job'[x].vol = job[x].vol /\ job'[x].gid = job[x].gid
  BY <1>1
<1>3. \A x \in Workers : HalfDeleted(x)' => HalfDeleted(x) /\ job'[x].vol = job[x].vol
  BY <1>1
<1>4. ASSUME NEW v \in Volumes, NEW gid \in Gids, Own(v, gid) PROVE Own(v, gid)'
  <2>1. CASE \E x \in Workers : Holds(x) /\ job[x].vol = v /\ job[x].gid = gid
    BY <1>2, <2>1 DEF Own
  <2>2. CASE /\ phase[v] \in {"bound", "released"} /\ gidOf[v] = gid
             /\ \A x \in Workers : job[x].vol = v => ~HalfDeleted(x)
    BY <1>3, <2>2 DEF Own
  <2>3. QED
    BY <1>4, <2>1, <2>2 DEF Own
<1>5. QED
  BY <1>4, SameStanding
-----------------------------------------------------------------------------
LEMMA AllocatorLoses ==
  ASSUME Inv, Inv', LeakInv, NEW w \in Workers, LookUp(w) \/ CollectGids(w, Shown) \/ Install(w),
         UNCHANGED <<apiVars, group, job, boundVars>>
  PROVE  LeakInv'
<1>1. UNCHANGED <<phase, gidOf, job, faults>>
  BY DEF apiVars, boundVars
<1>2. Standing' = Standing /\ Shown' = Shown
  BY <1>1, SameOwned DEF Standing, Shown
<1>3. faults' >= faults
  BY <1>1, CountedFaults
<1>4. caller \in [Workers -> Call]
  BY DEF Inv, TypeOK
<1>5. CASE LookUp(w)
  <2>1. CASE table = NoTable
    <3>1. /\ table' = NoTable
          /\ \A x \in Workers :
               caller'[x].pc = "install" => caller[x].pc = "install" /\ caller'[x].found = caller[x].found
      BY <1>4, <1>5, <2>1 DEF LookUp, Call, CallPCs
    <3>2. QED
      BY <1>2, <1>3, <2>1, <3>1, LeakStep
  <2>2. CASE table # NoTable
    <3>1. table \in Table /\ table' = RangeOf(w, table)
      BY <1>5, <2>2 DEF LookUp, Inv, TypeOK
    <3>2. table' # NoTable /\ table'.used = table.used
      BY <3>1, SameUsed, NoTableIsNone DEF Inv
    <3>3. QED
      BY <1>2, <1>3, <2>2, <3>2, LeakStep
  <2>3. QED
    BY <2>1, <2>2
<1>6. CASE CollectGids(w, Shown)
  <2>1. table' = table /\ InUse' = InUse
    BY <1>2, <1>6 DEF CollectGids, InUse
  <2>2. \A gids : Within(gids) => Within(gids)'
    BY <1>1, <1>2 DEF Within
  <2>3. ASSUME table = NoTable, NEW x \in Workers, caller'[x].pc = "install"
        PROVE  Within(caller'[x].found)
    <3>1. CASE x = w
      <4>1. caller'[w].found = Shown
        BY <1>4, <1>6 DEF CollectGids, Call
      <4>2. QED
        BY <2>3, <3>1, <4>1 DEF LeakInv, InUse
    <3>2. CASE x # w
      BY <1>4, <1>6, <2>3, <3>2 DEF CollectGids, LeakInv
    <3>3. QED
      BY <3>1, <3>2
  <2>4. Within(InUse)'
    BY <1>1, <1>2, <2>1 DEF LeakInv, Within
  <2>5. table = NoTable => \A x \in Workers : caller'[x].pc = "install" => Within(caller[x].found)'
    BY <1>1, <1>2, <2>3 DEF Within
  <2>6. QED
    BY <2>1, <2>4, <2>5 DEF LeakInv
<1>7. CASE Install(w)
  <2>1. caller[w].pc = "install" /\ caller[w].found \in SUBSET Gids
    BY <1>4, <1>7 DEF Install, Call
  <2>2. CASE table = NoTable
    <3>1. Filled(caller[w].found) \in Table /\ Filled(caller[w].found).used = caller[w].found
      BY <2>1, FilledTable
    <3>2. table' \in Table /\ table'.used = caller[w].found
      BY <1>7, <2>2, <3>1, SameUsed DEF Install, Inv
    <3>3. table' # NoTable
      BY <3>2, NoTableIsNone
    <3>4. Within(caller[w].found)
      BY <2>1, <2>2 DEF LeakInv
    <3>5. QED
      BY <1>1, <1>2, <3>2, <3>3, <3>4 DEF LeakInv, InUse, Within
  <2>3. CASE table # NoTable
    <3>1. table \in Table /\ table' = RangeOf(w, table)
      BY <1>7, <2>3 DEF Install, Inv, TypeOK
    <3>2. table' # NoTable /\ table'.used = table.used
      BY <3>1, SameUsed, NoTableIsNone DEF Inv
    <3>3. QED
      BY <1>2, <1>3, <2>3, <3>2, LeakStep
  <2>4. QED
    BY <2>2, <2>3
<1>8. QED
  BY <1>5, <1>6, <1>7

(* A cleanup whose list of PVs fails: its GID stays in use.                *)
LEMMA ListFailsLoses ==
  ASSUME Inv, Inv', LeakInv, NEW w \in Workers, caller[w].pc = "collect",
         Fault("list"), Leave(w), Stop(w), UNCHANGED <<table, apiVars, group>>
  PROVE  LeakInv'
<1>1. UNCHANGED <<table, phase, gidOf>> /\ faults' = faults + 1
  BY DEF Fault, apiVars
<1>2. job'[w] = IdleJob /\ \A x \in Workers : x # w => job'[x] = job[x]
  BY DEF Stop, Inv, TypeOK
<1>3. \A x \in Workers :
        caller'[x].pc = "install" => caller[x].pc = "install" /\ caller'[x].found = caller[x].found
  BY DEF Leave, Inv, TypeOK, Call, CallPCs
<1>4. Shown' = Shown
  BY <1>1 DEF Shown
<1>5. Standing \subseteq Standing' \cup {job[w].gid}
  BY <1>1, <1>2, LosesOne DEF HalfDeleted, IdleJob
<1>6. QED
  BY <1>1, <1>3, <1>4, <1>5, LeakStep

LEMMA StartLoses ==
  ASSUME Inv, Inv', LeakInv, NEW w \in Workers, NEW v \in Volumes,
         StartProvision(w, v) \/ StartDelete(w, v)
  PROVE  LeakInv'
<1>1. UNCHANGED <<table, phase, gidOf, faults>> /\ job[w].pc = "idle"
  BY DEF StartProvision, StartDelete, apiVars, boundVars
<1>2. /\ \A x \in Workers : x # w => job'[x] = job[x]
      /\ job'[w].pc \in {"gid", "class"}
  BY DEF StartProvision, StartDelete, Inv, TypeOK
<1>3. \A x \in Workers :
        caller'[x].pc = "install" => caller[x].pc = "install" /\ caller'[x].found = caller[x].found
  BY DEF StartProvision, StartDelete, Enter, Inv, TypeOK, Call, CallPCs
<1>4. Shown' = Shown
  BY <1>1 DEF Shown
<1>5. Standing \subseteq Standing'
  BY <1>1, <1>2, LosesNone DEF Holds, HalfDeleted
<1>6. faults' >= faults
  BY <1>1, CountedFaults
<1>7. QED
  BY <1>1, <1>3, <1>4, <1>5, <1>6, LeakStep

(* The GID that is taken out of the table is the one the worker then has.  *)
LEMMA AllocateNextLoses ==
  ASSUME Inv, Inv', LeakInv, NEW w \in Workers, AllocateNext(w)
  PROVE  LeakInv'
<1>1. /\ UNCHANGED <<phase, gidOf, faults>>
      /\ job[w].pc = "gid" /\ job[w].task = "provision"
  BY DEF AllocateNext, apiVars, boundVars
<1>2. job[w] \in Job /\ job[w].vol \in Volumes /\ ~Holds(w)
  BY <1>1 DEF Inv, TypeOK, JobsFit, Job, Holds
<1>3. \A x \in Workers : x # w => job'[x] = job[x]
  BY DEF AllocateNext, Stop, Inv, TypeOK
<1>4. job'[w] = IdleJob \/ job'[w].pc = "directory"
  BY <1>2 DEF AllocateNext, Stop, Inv, TypeOK, Job
<1>5. Standing \subseteq Standing'
  BY <1>1, <1>2, <1>3, <1>4, LosesNone DEF HalfDeleted, IdleJob
<1>6. table # NoTable
  BY DEF AllocateNext, TakeNext, RangeIsFull, Inv, TableFits
<1>7. table' # NoTable /\ table'.used \subseteq table.used \cup Standing'
  <2>1. CASE RangeIsFull(w)
    BY <1>6, <2>1 DEF RangeIsFull
  <2>2. ASSUME NEW gid \in Gids, TakeNext(w, gid),
               job' = [job EXCEPT ![w] = [@ EXCEPT !.pc = "directory", !.gid = gid]]
        PROVE  table' # NoTable /\ table'.used \subseteq table.used \cup Standing'
    <3>1. table \in Table
      BY <1>6 DEF Inv, TypeOK
    <3>2. table' \in Table /\ table'.used = table.used \cup {gid}
      BY <2>2, <3>1, GidFacts DEF TakeNext, Take, With, Table
    <3>3. job'[w].pc = "directory" /\ job'[w].vol = job[w].vol /\ job'[w].gid = gid
      BY <1>2, <2>2 DEF Inv, TypeOK, Job
    <3>4. ASSUME NEW v \in Volumes, v = job[w].vol PROVE Own(v, gid)'
      <4>1. Holds(w)'
        BY <3>3 DEF Holds
      <4>2. QED
        BY <3>3, <3>4, <4>1 DEF Own
    <3>5. gid \in Standing'
      BY <1>2, <3>4 DEF Standing
    <3>6. QED
      BY <3>2, <3>5, NoTableIsNone
  <2>3. QED
    BY <2>1, <2>2 DEF AllocateNext
<1>8. faults' >= faults
  BY <1>1, CountedFaults
<1>9. QED
  BY <1>5, <1>6, <1>7, <1>8, LeakStep

(* A directory that cannot be made: its GID stays in use.                  *)
LEMMA CreateVolumeLoses ==
  ASSUME Inv, Inv', LeakInv, NEW w \in Workers, CreateVolume(w)
  PROVE  LeakInv'
<1>1. UNCHANGED <<table, caller, phase, gidOf>> /\ job[w].pc = "directory"
  BY DEF CreateVolume, apiVars
<1>2. \A x \in Workers : x # w => job'[x] = job[x]
  BY DEF CreateVolume, Goto, Stop, Inv, TypeOK
<1>3. Shown' = Shown
  BY <1>1 DEF Shown
<1>4. CASE Goto(w, "save") /\ UNCHANGED boundVars
  <2>1. job'[w].pc = "save" /\ job'[w].vol = job[w].vol /\ job'[w].gid = job[w].gid
    BY <1>4 DEF Goto, Inv, TypeOK
  <2>2. Standing \subseteq Standing'
    BY <1>1, <1>2, <2>1, LosesNone DEF Holds, HalfDeleted
  <2>3. faults' >= faults
    BY <1>4, CountedFaults DEF boundVars
  <2>4. QED
    BY <1>1, <1>3, <2>2, <2>3, LeakStep
<1>5. CASE Fault("directory") /\ Stop(w)
  <2>1. job'[w] = IdleJob /\ faults' = faults + 1
    BY <1>5 DEF Stop, Fault, Inv, TypeOK
  <2>2. Standing \subseteq Standing' \cup {job[w].gid}
    BY <1>1, <1>2, <2>1, LosesOne DEF HalfDeleted, IdleJob
  <2>3. QED
    BY <1>1, <1>3, <2>1, <2>2, LeakStep
<1>6. QED
  BY <1>4, <1>5 DEF CreateVolume

(* The PV takes the GID over from the worker.                              *)
LEMMA SavePVLoses ==
  ASSUME Inv, Inv', LeakInv, NoRepeatedDelete, NEW w \in Workers, SavePV(w)
  PROVE  LeakInv'
<1>1. UNCHANGED <<table, caller>> /\ job[w].pc = "save"
  BY DEF SavePV
<1>2. /\ job[w] \in Job /\ job[w].vol \in Volumes /\ phase[job[w].vol] = "wanted"
      /\ job[w].task = "provision" /\ ~HalfDeleted(w) /\ Holds(w)
  BY <1>1 DEF Inv, TypeOK, JobsFit, Job, Tasks, HalfDeleted, Holds
<1>3. \A x \in Workers : x # w => job'[x] = job[x]
  BY DEF SavePV, Stop, Inv, TypeOK
<1>4. faults' >= faults
  BY CountedFaults DEF SavePV, Fault, boundVars
<1>5. table # NoTable
  BY <1>2 DEF Inv, TableFits
<1>6. Standing \subseteq Standing'
  <2>1. CASE Publish(w) /\ Stop(w)
    <3>1. job'[w] = IdleJob
      BY <2>1 DEF Stop, Inv, TypeOK
    <3>2. /\ phase'[job[w].vol] = "bound" /\ gidOf'[job[w].vol] = job[w].gid
          /\ \A v \in Volumes : v # job[w].vol => phase'[v] = phase[v] /\ gidOf'[v] = gidOf[v]
      BY <1>2, <2>1 DEF Publish, Inv, TypeOK
    <3>3. ASSUME NEW x \in Workers, x # w, job[x].vol = job[w].vol PROVE job[x].pc = "idle"
      BY <1>1, <3>3 DEF Inv, OneWorker
    <3>4. \A x \in Workers : x # w => (Holds(x)' <=> Holds(x)) /\ (HalfDeleted(x)' <=> HalfDeleted(x))
      BY <1>3 DEF Holds, HalfDeleted
    <3>5. \A x \in Workers : job'[x].vol = job[w].vol => ~HalfDeleted(x)'
      BY <1>3, <3>1, <3>3 DEF HalfDeleted, IdleJob
    <3>6. ASSUME NEW v \in Volumes, NEW gid \in Gids, Own(v, gid) PROVE Own(v, gid)'
      <4>1. CASE v = job[w].vol /\ gid = job[w].gid
        BY <3>2, <3>5, <4>1 DEF Own
      <4>2. CASE \E x \in Workers : x # w /\ Holds(x) /\ job[x].vol = v /\ job[x].gid = gid
        BY <1>3, <3>4, <4>2 DEF Own
      <4>3. CASE /\ phase[v] \in {"bound", "released"} /\ gidOf[v] = gid
                 /\ \A x \in Workers : job[x].vol = v => ~HalfDeleted(x)
        <5>1. v # job[w].vol
          BY <1>2, <4>3
        <5>2. ASSUME NEW x \in Workers, job'[x].vol = v PROVE ~HalfDeleted(x)'
          BY <1>3, <3>1, <3>4, <4>3, <5>2 DEF HalfDeleted, IdleJob
        <5>3. QED
          BY <3>2, <4>3, <5>1, <5>2 DEF Own
      <4>4. QED
        BY <3>6, <4>1, <4>2, <4>3 DEF Own
    <3>7. QED
      BY <3>6, SameStanding
  <2>2. CASE /\ UNCHANGED <<phase, gidOf>>
             /\ job' = [job EXCEPT ![w] = [@ EXCEPT !.pc = "class", !.task = "cleanup"]]
    <3>1. job'[w] = [pc |-> "class", task |-> "cleanup", vol |-> job[w].vol, gid |-> job[w].gid]
      BY <1>2, <2>2 DEF Inv, TypeOK, Job
    <3>2. QED
      BY <1>3, <2>2, <3>1, LosesNone DEF Holds, HalfDeleted
  <2>3. ~Fault("lostSave")
    BY DEF NoRepeatedDelete, Fault
  <2>4. QED
    BY <2>1, <2>2, <2>3 DEF SavePV
<1>7. QED
  BY <1>1, <1>4, <1>5, <1>6, LeakStep

(* A class that cannot be read: the GID is not given back.                 *)
LEMMA ReadClassLoses ==
  ASSUME Inv, Inv', LeakInv, NEW w \in Workers, ReadClass(w)
  PROVE  LeakInv'
<1>1. UNCHANGED <<table, phase, gidOf>> /\ job[w].pc = "class"
  BY DEF ReadClass, apiVars
<1>2. /\ job[w] \in Job
      /\ job[w].task = "delete" => job[w].gid = gidOf[job[w].vol]
  BY <1>1 DEF Inv, TypeOK, JobsFit, Job
<1>3. \A x \in Workers : x # w => job'[x] = job[x]
  BY DEF ReadClass, Goto, Inv, TypeOK
<1>4. \A x \in Workers :
        caller'[x].pc = "install" => caller[x].pc = "install" /\ caller'[x].found = caller[x].found
  BY DEF ReadClass, Enter, Inv, TypeOK, Call, CallPCs
<1>5. Shown' = Shown
  BY <1>1 DEF Shown
<1>6. CASE Goto(w, "gid") /\ UNCHANGED boundVars
  <2>1. job'[w] = [pc |-> "gid", task |-> job[w].task, vol |-> job[w].vol, gid |-> job[w].gid]
    BY <1>2, <1>6 DEF Goto, Inv, TypeOK, Job
  <2>2. Standing \subseteq Standing'
    BY <1>1, <1>3, <2>1, LosesNone DEF Holds, HalfDeleted
  <2>3. faults' >= faults
    BY <1>6, CountedFaults DEF boundVars
  <2>4. QED
    BY <1>1, <1>4, <1>5, <2>2, <2>3, LeakStep
<1>7. CASE Goto(w, "remove") /\ Fault("classGet")
  <2>1. job'[w] = [pc |-> "remove", task |-> job[w].task, vol |-> job[w].vol, gid |-> job[w].gid]
    BY <1>2, <1>7 DEF Goto, Inv, TypeOK, Job
  <2>2. Standing \subseteq Standing' \cup {job[w].gid}
    BY <1>1, <1>2, <1>3, <2>1, LosesOne DEF HalfDeleted
  <2>3. faults' = faults + 1
    BY <1>7 DEF Fault
  <2>4. QED
    BY <1>1, <1>4, <1>5, <2>2, <2>3, LeakStep
<1>8. QED
  BY <1>6, <1>7 DEF ReadClass

(* The GID that is given back loses its volume and its place in the table. *)
LEMMA ReleaseLoses ==
  ASSUME Inv, Inv', LeakInv, NEW w \in Workers, Release(w)
  PROVE  LeakInv'
<1>1. /\ UNCHANGED <<phase, gidOf, faults>>
      /\ job[w].pc = "gid" /\ caller[w].pc = "use" /\ job[w].task # "provision"
  BY DEF Release, GiveBack, apiVars, boundVars
<1>2. /\ job[w] \in Job /\ caller[w].gid = job[w].gid /\ job[w].gid \in Gids
      /\ job[w].task = "delete" => job[w].gid = gidOf[job[w].vol]
  BY <1>1 DEF Inv, TypeOK, JobsFit, Job
<1>3. table # NoTable /\ table \in Table
  BY <1>1 DEF Inv, TypeOK, TableFits
<1>4. table' \in Table /\ table'.used = table.used \ {job[w].gid}
  BY <1>2, <1>3, GidFacts DEF Release, GiveBack, Put, With, Table, Has
<1>5. /\ \A x \in Workers : x # w => job'[x] = job[x]
      /\ job'[w] = [pc |-> "remove", task |-> job[w].task, vol |-> job[w].vol, gid |-> job[w].gid]
  BY <1>2 DEF Release, Goto, Inv, TypeOK, Job
<1>6. Standing \subseteq Standing' \cup {job[w].gid}
  BY <1>1, <1>2, <1>5, LosesOne DEF HalfDeleted
<1>7. table' # NoTable /\ InUse = table.used /\ InUse' = table'.used
  BY <1>3, <1>4, NoTableIsNone DEF InUse
<1>8. Within(InUse) /\ InUse' \in SUBSET Gids
  BY <1>4, <1>7 DEF LeakInv, Within
<1>9. faults' >= faults
  BY <1>1, CountedFaults
<1>10. InUse' \ Standing' \subseteq InUse \ Standing
  BY <1>4, <1>6, <1>7
<1>11. Within(InUse)'
  BY <1>8, <1>9, <1>10, WithinStep DEF Within
<1>12. QED
  BY <1>7, <1>11 DEF LeakInv

LEMMA RemoveVolumeLoses ==
  ASSUME Inv, Inv', LeakInv, NoRepeatedDelete, NEW w \in Workers, RemoveVolume(w)
  PROVE  LeakInv'
<1>1. ~Fault("removeAll")
  BY DEF NoRepeatedDelete, Fault
<1>2. /\ UNCHANGED <<table, caller, phase, gidOf, faults>>
      /\ job[w].pc = "remove"
      /\ IF job[w].task = "delete" THEN Goto(w, "unpublish") ELSE Stop(w)
  BY <1>1 DEF RemoveVolume, apiVars, boundVars
<1>3. job[w] \in Job
  BY DEF Inv, TypeOK, Job
<1>4. /\ \A x \in Workers : x # w => job'[x] = job[x]
      /\ HalfDeleted(w)' => HalfDeleted(w) /\ job'[w].vol = job[w].vol
  BY <1>2, <1>3 DEF Goto, Stop, IdleJob, HalfDeleted, Inv, TypeOK, Job
<1>5. ~Holds(w)
  BY <1>2 DEF Holds
<1>6. Standing \subseteq Standing'
  BY <1>2, <1>4, <1>5, LosesNone
<1>7. Shown' = Shown /\ faults' >= faults
  BY <1>2, CountedFaults DEF Shown
<1>8. QED
  BY <1>2, <1>6, <1>7, LeakStep

(* The PV that is removed stood for no GID any more.                       *)
LEMMA RemovePVLoses ==
  ASSUME Inv, Inv', LeakInv, NoRepeatedDelete, NEW w \in Workers, RemovePV(w)
  PROVE  LeakInv'
<1>1. ~Fault("remove")
  BY DEF NoRepeatedDelete, Fault
<1>2. /\ UNCHANGED <<table, caller, faults>>
      /\ job[w].pc = "unpublish" /\ Stop(w)
      /\ phase' = [phase EXCEPT ![job[w].vol] = "gone"]
      /\ gidOf' = [gidOf EXCEPT ![job[w].vol] = NoGid]
  BY <1>1 DEF RemovePV, boundVars
<1>3. job[w].vol \in Volumes /\ HalfDeleted(w) /\ ~Holds(w)
  BY <1>2 DEF Inv, TypeOK, JobsFit, Tasks, HalfDeleted, Holds
<1>4. job'[w] = IdleJob /\ \A x \in Workers : x # w => job'[x] = job[x]
  BY <1>2 DEF Stop, Inv, TypeOK
<1>5. /\ phase'[job[w].vol] = "gone"
      /\ \A v \in Volumes : v # job[w].vol => phase'[v] = phase[v] /\ gidOf'[v] = gidOf[v]
  BY <1>2, <1>3 DEF Inv, TypeOK
<1>6. \A x \in Workers : x # w => (Holds(x)' <=> Holds(x)) /\ (HalfDeleted(x)' <=> HalfDeleted(x))
  BY <1>4 DEF Holds, HalfDeleted
<1>7. ASSUME NEW v \in Volumes, NEW gid \in Gids, Own(v, gid) PROVE Own(v, gid)'
  <2>1. CASE \E x \in Workers : Holds(x) /\ job[x].vol = v /\ job[x].gid = gid
    BY <1>3, <1>4, <1>6, <2>1 DEF Own
  <2>2. CASE /\ phase[v] \in {"bound", "released"} /\ gidOf[v] = gid
             /\ \A x \in Workers : job[x].vol = v => ~HalfDeleted(x)
    <3>1. v # job[w].vol
      BY <1>3, <2>2
    <3>2. ASSUME NEW x \in Workers, job'[x].vol = v PROVE ~HalfDeleted(x)'
      BY <1>4, <1>6, <2>2, <3>2 DEF HalfDeleted, IdleJob
    <3>3. QED
      BY <1>5, <2>2, <3>1, <3>2 DEF Own
  <2>3. QED
    BY <1>7, <2>1, <2>2 DEF Own
<1>8. Standing \subseteq Standing'
  BY <1>7, SameStanding
<1>9. Shown' \subseteq Shown
  <2>1. ASSUME NEW v \in Volumes, phase'[v] \in {"bound", "released"}
        PROVE  phase[v] \in {"bound", "released"} /\ gidOf'[v] = gidOf[v]
    BY <1>5, <2>1
  <2>2. QED
    BY <2>1 DEF Shown
<1>10. faults' >= faults
  BY <1>2, CountedFaults
<1>11. QED
  BY <1>2, <1>8, <1>9, <1>10, LeakStep

(* A restart forgets what was lost: every PV stands for its GID again.     *)
LEMMA RestartLoses ==
  ASSUME Inv, Inv', NoRepeatedDelete, Restart
  PROVE  LeakInv'
<1>1. /\ UNCHANGED <<phase, gidOf, faults>> /\ table' = NoTable
      /\ job' = [w \in Workers |-> IdleJob]
  BY DEF Restart, apiVars
<1>2. \A w \in Workers : ~HalfDeleted(w)'
  BY <1>1 DEF HalfDeleted, IdleJob
<1>3. \A w \in Workers : caller'[w].pc # "install"
  <2>1. caller \in [Workers -> Call]
    BY DEF Inv, TypeOK
  <2>2. QED
    BY <2>1 DEF Restart, Call, CallPCs
<1>4. ASSUME NEW v \in Volumes, phase[v] \in {"bound", "released"}
      PROVE  gidOf'[v] \in Standing'
  <2>1. gidOf'[v] = gidOf[v] /\ gidOf[v] \in Gids
    BY <1>1, <1>4 DEF Inv, VolumesFit
  <2>2. ASSUME NEW gid \in Gids, gid = gidOf[v] PROVE Own(v, gid)'
    <3>1. \A w \in Workers : job'[w].vol = v => ~HalfDeleted(w)'
      BY <1>2
    <3>2. phase'[v] \in {"bound", "released"} /\ gidOf'[v] = gid
      BY <1>1, <1>4, <2>2
    <3>3. QED
      BY <3>1, <3>2 DEF Own
  <2>3. \A gid \in Gids : gid = gidOf[v] => gid \in Standing'
    BY <2>2 DEF Standing
  <2>4. QED
    BY <2>1, <2>3
<1>5. Shown' \subseteq Standing'
  BY <1>1, <1>4 DEF Shown
<1>6. Cardinality(Shown' \ Standing') <= faults'
  <2>1. Shown' \ Standing' = {}
    BY <1>5
  <2>2. Cardinality({}) = 0
    BY FS_EmptySet
  <2>3. faults' \in Nat
    BY <1>1, CountedFaults
  <2>4. QED
    BY <2>1, <2>2, <2>3
<1>7. Within(InUse)'
  <2>1. InUse' = Shown'
    BY <1>1 DEF InUse
  <2>2. Shown' \subseteq Gids
    BY <1>5 DEF Standing
  <2>3. QED
    BY <1>6, <2>1, <2>2 DEF Within
<1>8. QED
  BY <1>3, <1>7 DEF LeakInv

LEMMA ReleasePVLoses ==
  ASSUME Inv, Inv', LeakInv, NEW v \in Volumes, ReleasePV(v)
  PROVE  LeakInv'
<1>1. /\ UNCHANGED <<table, caller, gidOf, job, faults>>
      /\ phase[v] = "bound" /\ phase' = [phase EXCEPT ![v] = "released"]
  BY DEF ReleasePV, boundVars
<1>2. \A u \in Volumes : phase'[u] \in {"bound", "released"} <=> phase[u] \in {"bound", "released"}
  BY <1>1 DEF Inv, TypeOK
<1>3. \A w \in Workers : (Holds(w)' <=> Holds(w)) /\ (HalfDeleted(w)' <=> HalfDeleted(w))
  BY <1>1 DEF Holds, HalfDeleted
<1>4. \A u \in Volumes, gid \in Gids : Own(u, gid) => Own(u, gid)'
  BY <1>1, <1>2, <1>3 DEF Own
<1>5. Standing \subseteq Standing'
  BY <1>4, SameStanding
<1>6. Shown' = Shown
  BY <1>1, <1>2 DEF Shown
<1>7. faults' >= faults
  BY <1>1, CountedFaults
<1>8. QED
  BY <1>1, <1>5, <1>6, <1>7, LeakStep

LEMMA EditClassLoses ==
  ASSUME Inv, Inv', LeakInv, UNCHANGED <<table, caller, phase, gidOf, job, faults>>
  PROVE  LeakInv'
<1>1. Standing' = Standing /\ Shown' = Shown
  BY SameOwned DEF Standing, Shown
<1>2. faults' >= faults
  BY CountedFaults
<1>3. QED
  BY <1>1, <1>2, LeakStep

LEMMA WorkLoses ==
  ASSUME Inv, Inv', LeakInv, NoRepeatedDelete, NEW w \in Workers, Work(w)
  PROVE  LeakInv'
<1>1. CASE \E v \in Volumes : StartProvision(w, v) \/ StartDelete(w, v)
  BY <1>1, StartLoses
<1>2. CASE InAllocator(w)
  <2>1. CASE (LookUp(w) \/ Install(w)) /\ UNCHANGED <<apiVars, group, job, boundVars>>
    BY <2>1, AllocatorLoses
  <2>2. CASE Collect(w)
    BY <2>2, AllocatorLoses, ListFailsLoses DEF Collect, Shown
  <2>3. QED
    BY <1>2, <2>1, <2>2 DEF InAllocator
<1>3. CASE AllocateNext(w) \/ CreateVolume(w) \/ SavePV(w)
  BY <1>3, AllocateNextLoses, CreateVolumeLoses, SavePVLoses
<1>4. CASE ReadClass(w) \/ Release(w) \/ RemoveVolume(w) \/ RemovePV(w)
  BY <1>4, ReadClassLoses, ReleaseLoses, RemoveVolumeLoses, RemovePVLoses
<1>5. QED
  BY <1>1, <1>2, <1>3, <1>4 DEF Work

LEMMA InitLeak == Init => LeakInv
<1>1. SUFFICES ASSUME Init PROVE LeakInv
  OBVIOUS
<1>2. \A w \in Workers : job[w] = IdleJob /\ caller[w] = OutOfCall(class)
  BY <1>1 DEF Init
<1>3. table = NoTable /\ faults = 0 /\ Inv
  BY <1>1, InitInv DEF Init
<1>4. ASSUME NEW v \in Volumes, phase[v] \in {"bound", "released"}
      PROVE  gidOf[v] \in Standing
  BY <1>2, <1>3, <1>4 DEF Inv, VolumesFit, Standing, Own, HalfDeleted, IdleJob
<1>5. Shown \subseteq Standing /\ Standing \subseteq Gids
  BY <1>4 DEF Shown, Standing
<1>6. Cardinality(Shown \ Standing) = 0
  <2>1. Shown \ Standing = {}
    BY <1>5
  <2>2. QED
    BY <2>1, FS_EmptySet
<1>7. Within(InUse)
  BY <1>3, <1>5, <1>6 DEF Within, InUse
<1>8. QED
  BY <1>2, <1>7 DEF LeakInv, OutOfCall

(* The GIDs in use without an owner are at most as many as calls failed:   *)
(* no race between workers and no crash loses one.                         *)
THEOREM LeaksBounded ==
  ASSUME NoRepeatedDelete
  PROVE  Spec => []LeaksAreFailures
<1>1. Inv /\ Inv' /\ LeakInv /\ [Next]_vars => LeakInv'
  <2>1. SUFFICES ASSUME Inv, Inv', LeakInv, [Next]_vars PROVE LeakInv'
    OBVIOUS
  <2>2. CASE Next
    <3>1. CASE EditClass
      BY <2>1, <3>1, EditClassLoses DEF EditClass
    <3>2. QED
      BY <2>1, <2>2, <3>1, WorkLoses, ReleasePVLoses, RestartLoses DEF Next
  <2>3. CASE UNCHANGED vars
    BY <2>1, <2>3, EditClassLoses DEF vars, apiVars, boundVars
  <2>4. QED
    BY <2>1, <2>2, <2>3
<1>2. ASSUME Inv, LeakInv PROVE LeaksAreFailures
  <2>1. Standing \subseteq Owned
    BY DEF Standing, Own, Owned
  <2>2. CASE table = NoTable
    <3>1. table.used \ Owned = {}
      BY <2>2 DEF NoTable
    <3>2. Cardinality(table.used \ Owned) = 0 /\ faults \in Nat
      BY <1>2, <3>1, FS_EmptySet, CountedFaults
    <3>3. QED
      BY <3>2 DEF LeaksAreFailures
  <2>3. CASE table # NoTable
    <3>1. table.used \in SUBSET Gids /\ Cardinality(table.used \ Standing) <= faults
      BY <1>2, <2>3 DEF LeakInv, InUse, Within
    <3>2. table.used \ Owned \subseteq table.used \ Standing
      BY <2>1
    <3>3. table.used \ Standing \in SUBSET Gids /\ table.used \ Owned \in SUBSET Gids
      BY <3>1
    <3>4. faults \in Nat /\ faults >= faults
      BY <1>2, CountedFaults
    <3>5. Cardinality(table.used \ Owned) <= faults
      BY <3>1, <3>2, <3>3, <3>4, OneMore
    <3>6. QED
      BY <3>5 DEF LeaksAreFailures
  <2>4. QED
    BY <2>2, <2>3
<1>3. QED
  BY InitLeak, InvHolds, <1>1, <1>2, PTL DEF Spec
=============================================================================
