--------------------------- MODULE EFSProvisioner ---------------------------
(***************************************************************************)
(* aws/efs/cmd/efs-provisioner with its GID allocator, as lib/controller   *)
(* calls it: Provision takes a GID and makes a directory of that group,    *)
(* Delete gives the GID back and removes the directory.  The controller    *)
(* runs at most one of them per volume at a time, repeats a Delete whose   *)
(* volume still exists, and calls Delete itself when it cannot save the    *)
(* PersistentVolume.                                                       *)
(***************************************************************************)
EXTENDS GidAllocator

CONSTANTS
  Volumes,       \* volumes, by the name of their PV
  FaultKinds,    \* which calls may fail
  MaxFaults,     \* bound: calls that fail
  MaxEdits,      \* bound: changes of the storage class
  CrashAnywhere, \* whether the process may die inside a Delete, too
  MaxCrashes     \* bound: crashes of the provisioner

AllFaultKinds ==
  {"list", "directory", "save", "lostSave", "classGet", "removeAll", "remove"}

ASSUME EFSAssumption ==
  /\ FaultKinds \subseteq AllFaultKinds
  /\ MaxFaults \in Nat /\ MaxEdits \in Nat /\ MaxCrashes \in Nat
  /\ Ranges # {} /\ CrashAnywhere \in BOOLEAN

VARIABLES
  phase,     \* API server: wanted -> bound -> released -> gone
  gidOf,     \* the GID annotation of the volume's PV object
  group,     \* file system: group of the volume's directory
  class,     \* the range of the class parameters
  job,       \* per worker: what it is doing, for which volume, with which GID
  faults, edits, crashes

apiVars == <<phase, gidOf, class>>
boundVars == <<faults, edits, crashes>>
vars == <<table, caller, apiVars, group, job, boundVars>>

Phases == {"wanted", "bound", "released", "gone"}

Tasks == {"provision", "cleanup", "delete"}

JobPCs == {"idle", "class", "gid", "directory", "save", "remove", "unpublish"}

IdleJob == [pc |-> "idle", task |-> "provision", vol |-> "none", gid |-> NoGid]

OutOfCall(r) == [pc |-> "out", range |-> r, gid |-> NoGid, found |-> {}]

TypeOK ==
  /\ table \in Table \cup {NoTable}
  /\ caller \in [Workers -> Call]
  /\ phase \in [Volumes -> Phases]
  /\ gidOf \in [Volumes -> Gids \cup {NoGid}]
  /\ group \in [Volumes -> Gids \cup {NoGid}]
  /\ class \in Ranges
  /\ job \in [Workers -> [pc : JobPCs, task : Tasks, vol : Volumes \cup {"none"},
                          gid : Gids \cup {NoGid}]]
  /\ faults \in 0 .. MaxFaults
  /\ edits \in 0 .. MaxEdits
  /\ crashes \in 0 .. MaxCrashes

(* Some PVs may be there already, with GIDs of an earlier process.         *)
Init ==
  /\ table = NoTable
  /\ class \in Ranges
  /\ caller = [w \in Workers |-> OutOfCall(class)]
  /\ phase \in [Volumes -> {"wanted", "bound"}]
  /\ gidOf \in [Volumes -> Gids \cup {NoGid}]
  /\ \A v \in Volumes : (gidOf[v] # NoGid) <=> (phase[v] = "bound")
  /\ \A u, v \in Volumes : u # v /\ gidOf[u] # NoGid => gidOf[u] # gidOf[v]
  /\ group = gidOf
  /\ job = [w \in Workers |-> IdleJob]
  /\ faults = 0 /\ edits = 0 /\ crashes = 0

Fault(kind) ==
  /\ kind \in FaultKinds
  /\ faults < MaxFaults
  /\ faults' = faults + 1
  /\ UNCHANGED <<edits, crashes>>

Goto(w, pc) == job' = [job EXCEPT ![w] = [@ EXCEPT !.pc = pc]]

Stop(w) == job' = [job EXCEPT ![w] = IdleJob]

Free(v) == \A w \in Workers : job[w].vol # v
-----------------------------------------------------------------------------
(* The steps inside the allocator, for whatever task.                      *)

Collect(w) ==
  \/ /\ CollectGids(w, {gidOf[v] : v \in {u \in Volumes : phase[u] \in {"bound", "released"}}})
     /\ UNCHANGED <<apiVars, group, job, boundVars>>
  \/ /\ caller[w].pc = "collect"
     /\ Fault("list") /\ Leave(w) /\ Stop(w)
     /\ UNCHANGED <<table, apiVars, group>>

InAllocator(w) ==
  \/ (LookUp(w) \/ Install(w)) /\ UNCHANGED <<apiVars, group, job, boundVars>>
  \/ Collect(w)
-----------------------------------------------------------------------------
(* Provision, then the controller's save of the PV.                        *)

StartProvision(w, v) ==
  /\ job[w].pc = "idle"
  /\ phase[v] = "wanted" /\ Free(v)
  /\ job' = [job EXCEPT ![w] = [pc |-> "gid", task |-> "provision", vol |-> v, gid |-> NoGid]]
  /\ Enter(w, class, NoGid)
  /\ UNCHANGED <<table, apiVars, group, boundVars>>

AllocateNext(w) ==
  /\ job[w].pc = "gid" /\ job[w].task = "provision"
  /\ \/ \E gid \in Gids :
          /\ TakeNext(w, gid)
          /\ job' = [job EXCEPT ![w] = [@ EXCEPT !.pc = "directory", !.gid = gid]]
     \/ RangeIsFull(w) /\ Stop(w)
  /\ UNCHANGED <<apiVars, group, boundVars>>

(* Faulty: a directory that is there already is left as it is.             *)
BadCreateVolume(w) ==
  /\ job[w].pc = "directory"
  /\ group' = [group EXCEPT ![job[w].vol] = IF @ = NoGid THEN job[w].gid ELSE @]
  /\ Goto(w, "save")
  /\ UNCHANGED <<table, caller, apiVars, boundVars>>

(* createVolume: on an error the directory is removed, and the GID is not  *)
(* given back.                                                             *)
CreateVolume(w) ==
  LET v == job[w].vol
  IN  /\ job[w].pc = "directory"
      /\ \/ /\ group' = [group EXCEPT ![v] = job[w].gid]
            /\ Goto(w, "save")
            /\ UNCHANGED boundVars
         \/ /\ Fault("directory")
            /\ group' = [group EXCEPT ![v] = NoGid]
            /\ Stop(w)
      /\ UNCHANGED <<table, caller, apiVars>>

Publish(w) ==
  /\ phase' = [phase EXCEPT ![job[w].vol] = "bound"]
  /\ gidOf' = [gidOf EXCEPT ![job[w].vol] = job[w].gid]

(* The controller gives up saving only to delete the volume again.         *)
SavePV(w) ==
  /\ job[w].pc = "save"
  /\ \/ Publish(w) /\ Stop(w) /\ UNCHANGED <<caller, boundVars>>
     \/ /\ \/ Fault("save") /\ UNCHANGED <<phase, gidOf>>
           \/ Fault("lostSave") /\ Publish(w)
        /\ job' = [job EXCEPT ![w] = [@ EXCEPT !.pc = "class", !.task = "cleanup"]]
        /\ UNCHANGED caller
  /\ UNCHANGED <<table, class, group>>
-----------------------------------------------------------------------------
(* Delete, then the controller's removal of the PV object.                 *)

StartDelete(w, v) ==
  /\ job[w].pc = "idle"
  /\ phase[v] = "released" /\ Free(v)
  /\ job' = [job EXCEPT ![w] = [pc |-> "class", task |-> "delete", vol |-> v, gid |-> gidOf[v]]]
  /\ UNCHANGED <<table, caller, apiVars, group, boundVars>>

(* Release reads the class first; the error of a failed read (also when    *)
(* the class is gone) is ignored and an empty class is used, whose table   *)
(* has nothing to do with ours.                                            *)
ReadClass(w) ==
  /\ job[w].pc = "class"
  /\ \/
        /\ Enter(w, class, job[w].gid)
        /\ Goto(w, "gid")
        /\ UNCHANGED boundVars
     \/ /\ Fault("classGet")
        /\ Goto(w, "remove")
        /\ UNCHANGED caller
  /\ UNCHANGED <<table, apiVars, group>>

Release(w) ==
  /\ job[w].pc = "gid" /\ job[w].task # "provision"
  /\ GiveBack(w)
  /\ Goto(w, "remove")
  /\ UNCHANGED <<apiVars, group, boundVars>>

(* os.RemoveAll. A failed Delete is repeated from its first line, for a    *)
(* cleanup by the loop around it (or never, after the last attempt).       *)
RemoveVolume(w) ==
  LET v == job[w].vol
  IN  /\ job[w].pc = "remove"
      /\ \/ /\ group' = [group EXCEPT ![v] = NoGid]
            /\ IF job[w].task = "delete" THEN Goto(w, "unpublish") ELSE Stop(w)
            /\ UNCHANGED boundVars
         \/ /\ Fault("removeAll")
            /\ Stop(w) \/ (job[w].task = "cleanup" /\ Goto(w, "class"))
            /\ UNCHANGED group
      /\ UNCHANGED <<table, caller, apiVars>>

RemovePV(w) ==
  /\ job[w].pc = "unpublish"
  /\ \/ /\ phase' = [phase EXCEPT ![job[w].vol] = "gone"]
        /\ gidOf' = [gidOf EXCEPT ![job[w].vol] = NoGid]
        /\ UNCHANGED boundVars
     \/ Fault("remove") /\ UNCHANGED <<phase, gidOf>>
  /\ Stop(w)
  /\ UNCHANGED <<table, caller, class, group>>
-----------------------------------------------------------------------------
HalfDeleted(w) == job[w].task = "delete" /\ job[w].pc \in {"remove", "unpublish"}

(* The process dies and starts again.                                      *)
Restart ==
  /\ crashes < MaxCrashes
  /\ CrashAnywhere \/ \A w \in Workers : ~HalfDeleted(w)
  /\ crashes' = crashes + 1
  /\ table' = NoTable
  /\ caller' = [w \in Workers |-> [caller[w] EXCEPT !.pc = "out", !.gid = NoGid, !.found = {}]]
  /\ job' = [w \in Workers |-> IdleJob]
  /\ UNCHANGED <<apiVars, group, faults, edits>>

ReleasePV(v) ==
  /\ phase[v] = "bound"
  /\ phase' = [phase EXCEPT ![v] = "released"]
  /\ UNCHANGED <<table, caller, gidOf, class, group, job, boundVars>>

(* The class is deleted and created again with another range.              *)
EditClass ==
  /\ edits < MaxEdits
  /\ edits' = edits + 1
  /\ \E c \in Ranges \ {class} : class' = c
  /\ UNCHANGED <<table, caller, phase, gidOf, group, job, faults, crashes>>

Work(w) ==
  \/ \E v \in Volumes : StartProvision(w, v) \/ StartDelete(w, v)
  \/ InAllocator(w)
  \/ AllocateNext(w) \/ CreateVolume(w) \/ SavePV(w)
  \/ ReadClass(w) \/ Release(w) \/ RemoveVolume(w) \/ RemovePV(w)

Next ==
  \/ \E w \in Workers : Work(w)
  \/ \E v \in Volumes : ReleasePV(v)
  \/ EditClass
  \/ Restart

Spec == Init /\ [][Next]_vars
-----------------------------------------------------------------------------
(* "It allocates from per-SC ranges and ensures that no two PVs of the     *)
(* same SC get the same GID": no two bound volumes share a GID.            *)
UniqueGids ==
  \A u, v \in Volumes : u # v /\ phase[u] = "bound" /\ phase[v] = "bound" => gidOf[u] # gidOf[v]

(* A GID that was handed out is not handed out again: the table knows the  *)
(* GIDs of all bound volumes and of all volumes being made.                *)
Reserved ==
  /\ table # NoTable => \A v \in Volumes : phase[v] = "bound" => gidOf[v] \in table.used
  /\ \A w \in Workers : job[w].pc \in {"directory", "save"} => job[w].gid \in table.used

(* A pod gets the GID of the PV's annotation as a supplemental group: the  *)
(* directory must belong to it, however often Provision was repeated.      *)
GroupMatches == \A v \in Volumes : phase[v] = "bound" => group[v] = gidOf[v]

(* The error paths that do not give the GID back lose one GID each, until  *)
(* the next restart; nothing else does while the class exists.             *)
Owned ==
  {gidOf[v] : v \in {u \in Volumes : phase[u] \in {"bound", "released"}}}
    \cup {job[w].gid : w \in Workers}

LeaksAreFailures == Cardinality(table.used \ Owned) <= faults
=============================================================================
