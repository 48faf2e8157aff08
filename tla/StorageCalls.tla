----------------------------- MODULE StorageCalls -----------------------------
(***************************************************************************)
(* How lib/controller calls a provisioner that keeps no state of its own,  *)
(* and what such a call is made of: requests to a storage service, each of *)
(* which may fail before or after it took effect.  Every provisioner has a *)
(* module that extends this one with its requests.                         *)
(***************************************************************************)
EXTENDS Naturals, FiniteSets

CONSTANTS
  Volumes,       \* volumes, by the name of their PV
  Kinds,         \* provisioners: which one runs is chosen in Init
  Claims,        \* what the claims of all volumes may be, as functions
  Luns,          \* numbers targetd gives to exports
  MaxFaults,     \* bound: requests that fail
  MaxCrashes,    \* bound: crashes of the provisioner
  MaxEdits,      \* bound: changes of the storage class
  MaxTroubles    \* bound: all of these together

AllKinds ==
  {"hostpath", "nfsclient", "digitalocean", "flex", "targetd", "rbd",
   "cephfs", "cephfsFixed", "openebs", "glusterfs", "glusterfile", "glusterclone",
   "heketiblock", "glusterblock", "awsCopy", "gceCopy", "cinderCopy", "hostpathCopy",
   "glusterCopy", "openebsCopy"}

(* A claim has a name, which a later claim may have, too; it may ask for an *)
(* access mode the provisioner does not have.                              *)
Styles == {"plain", "manyWriters"}

ASSUME CallsAssumption ==
  /\ Kinds \subseteq AllKinds /\ Kinds # {}
  /\ \A c \in Claims, v \in Volumes : c[v].style \in Styles /\ c[v].name \notin Volumes
  /\ Luns \subseteq Nat
  /\ MaxFaults \in Nat /\ MaxCrashes \in Nat /\ MaxEdits \in Nat /\ MaxTroubles \in Nat

VARIABLES
  kind,      \* the provisioner
  claim,     \* per volume: its claim
  class,     \* the storage class: valid, invalid parameters, or absent
  phase,     \* API server: new -> wanted -> bound -> released -> gone
  pv,        \* the assets that the volume's PV object names
  has,       \* the assets in the storage service
  call,      \* per volume: the call under way
  memory,    \* GlusterFS file: whose claim p.options holds
  failures,  \* per volume: what failed or was interrupted on its behalf
  faults, crashes, edits

fixedVars == <<kind, claim>>
boundVars == <<faults, crashes, edits>>
vars == <<fixedVars, class, phase, pv, has, call, memory, failures, boundVars>>
apiVars == <<fixedVars, class, phase, pv, memory, crashes, edits>>

(* An asset is named after its volume, or by a name made up for this       *)
(* attempt (n > 0).                                                        *)
Names == 0 .. MaxFaults + MaxCrashes + 2

Asset(type, v, n) == [type |-> type, of |-> v, n |-> n]

Types == {"volume", "secret", "service", "export", "user", "brick", "started", "gid", "watch", "archive"}

ClaimNames == {c[v].name : c \in Claims, v \in Volumes}

Assets == [type : Types, of : Volumes \cup ClaimNames, n : Names \cup Luns]

Tasks == {"none", "provision", "cleanup", "delete"}

Idle == [task |-> "none", pc |-> "out", n |-> 0, made |-> {}, lun |-> 0]

(* A fresh UUID: a name no asset has or had while somebody names it (the    *)
(* least of them: which one it is makes no difference).                    *)
Fresh(v, type) ==
  LET unused == {n \in Names \ {0} : Asset(type, v, n) \notin has \cup pv[v]}
  IN  {n \in unused : \A m \in unused : n <= m}

At(v, provisioner, pc) == kind = provisioner /\ call[v].pc = pc

(* What the object given to Delete names.                                  *)
Named(v) == IF call[v].task = "cleanup" THEN call[v].made ELSE pv[v]

NamedOf(v, type) == {a \in Named(v) : a.type = type}
(* One more trouble of a sort that came n times.                           *)
MayGoWrong(n, max) == n < max /\ faults + crashes + edits < MaxTroubles
-----------------------------------------------------------------------------
(* Requests.                                                               *)

Fault(v) ==
  /\ MayGoWrong(faults, MaxFaults)
  /\ faults' = faults + 1
  /\ failures' = [failures EXCEPT ![v] = @ + 1]

NoFault == UNCHANGED <<faults, failures>>

Goto(v, pc) == call' = [call EXCEPT ![v].pc = pc]

(* The request adds and takes away assets; the answer may be an error or   *)
(* get lost, which looks the same.                                         *)
Request(v, adds, takes, ok, error) ==
  LET after == (has \ takes) \cup adds
  IN  /\ \/ /\ has' = after
            /\ call' = [call EXCEPT ![v].pc = ok, ![v].made = @ \cup adds]
            /\ NoFault
         \/ /\ Fault(v)
            /\ has' \in {has, after}
            /\ Goto(v, error)
      /\ UNCHANGED apiVars

Refuse(v, error) == Goto(v, error) /\ NoFault /\ UNCHANGED <<has, apiVars>>

(* A name that is taken is an error.                                       *)
Create(v, a, ok, error) ==
  IF a \in has THEN Refuse(v, error) ELSE Request(v, {a}, {}, ok, error)

(* A name that is taken is as good as created.                             *)
Ensure(v, adds, ok, error) == Request(v, adds, {}, ok, error)

(* What is not there cannot be removed.                                    *)
Remove(v, S, ok, error) ==
  IF S \cap has = {} THEN Refuse(v, error) ELSE Request(v, {}, S, ok, error)

RemoveIfThere(v, S, ok, error) == Request(v, {}, S, ok, error)

Ask(v, ok, error) == Request(v, {}, {}, ok, error)

(* Provision got the parameters of the class from its caller and parses    *)
(* them; Delete reads the class first.                                     *)
Parse(v, ok) ==
  IF class = "invalid" THEN Refuse(v, "error") ELSE Ask(v, ok, "error")

ReadClass(v, ok) ==
  IF class = "valid" THEN Ask(v, ok, "error") ELSE Refuse(v, "error")

(* Claims with a selector or with access modes the provisioner does not    *)
(* have are refused before anything is made.                               *)
Check(v, ok) ==
  IF claim[v].style = "manyWriters" THEN Refuse(v, "error") ELSE Goto(v, ok) /\ NoFault /\ UNCHANGED <<has, apiVars>>

(* What the PVs of the cluster name.                                       *)
AllNamed == UNION {pv[v] : v \in {u \in Volumes : phase[u] \in {"bound", "released"}}}

(* A goroutine that panics ends the process, and the calls of all others;  *)
(* the GIDs that no PV names are free again.                               *)
Die(after) ==
  /\ MayGoWrong(crashes, MaxCrashes)
  /\ crashes' = crashes + 1
  /\ failures' = [v \in Volumes |-> failures[v] + IF call[v].task = "none" THEN 0 ELSE 1]
  /\ call' = [v \in Volumes |-> Idle]
  /\ has' = {a \in after : a.type = "gid" => a \in AllNamed}
  /\ UNCHANGED <<fixedVars, memory, class, phase, pv, faults, edits>>
-----------------------------------------------------------------------------
(* lib/controller: Provision is repeated until it succeeds, Delete is      *)
(* repeated until it succeeds and is also called for a volume whose PV     *)
(* could not be saved.                                                     *)

Init ==
  /\ kind \in Kinds
  /\ claim \in Claims
  /\ class = "valid"
  /\ phase = [v \in Volumes |-> "new"]
  /\ pv = [v \in Volumes |-> {}]
  /\ has = {}
  /\ call = [v \in Volumes |-> Idle]
  /\ memory = {}
  /\ failures = [v \in Volumes |-> 0]
  /\ faults = 0 /\ crashes = 0 /\ edits = 0

(* A claim appears; two claims of one name do not exist at the same time.  *)
Appear(v) ==
  /\ phase[v] = "new"
  /\ \A u \in Volumes : claim[u].name = claim[v].name => phase[u] \notin {"wanted", "bound"}
  /\ phase' = [phase EXCEPT ![v] = "wanted"]
  /\ UNCHANGED <<fixedVars, memory, class, pv, has, call, failures, boundVars>>

StartProvision(v) ==
  /\ call[v] = Idle /\ phase[v] = "wanted" /\ class # "absent"
  /\ call' = [call EXCEPT ![v] = [Idle EXCEPT !.task = "provision", !.pc = "provision"]]
  /\ NoFault
  /\ UNCHANGED <<has, apiVars>>

(* Saving fails for good after its retries: the asset is to go again.      *)
SavePV(v) ==
  /\ call[v].pc = "done" /\ call[v].task = "provision"
  /\ \/ /\ phase' = [phase EXCEPT ![v] = "bound"]
        /\ pv' = [pv EXCEPT ![v] = call[v].made]
        /\ call' = [call EXCEPT ![v] = Idle]
        /\ NoFault
     \/ /\ Fault(v)
        /\ call' = [call EXCEPT ![v].task = "cleanup", ![v].pc = "delete"]
        /\ UNCHANGED <<phase, pv>>
  /\ UNCHANGED <<fixedVars, memory, class, has, crashes, edits>>

StartDelete(v) ==
  /\ call[v] = Idle /\ phase[v] = "released"
  /\ call' = [call EXCEPT ![v] = [Idle EXCEPT !.task = "delete", !.pc = "delete"]]
  /\ NoFault
  /\ UNCHANGED <<has, apiVars>>

RemovePV(v) ==
  /\ call[v].pc = "done" /\ call[v].task = "delete"
  /\ phase' = [phase EXCEPT ![v] = "gone"]
  /\ call' = [call EXCEPT ![v] = Idle]
  /\ UNCHANGED <<fixedVars, memory, class, pv, has, failures, boundVars>>

(* Faulty: what the attempt made is not forgotten.                         *)
BadReturn(v) ==
  /\ call[v].pc = "error"
  /\ call' = [call EXCEPT ![v].task = "none"]
  /\ NoFault
  /\ UNCHANGED <<has, apiVars>>

(* The call ended with an error, or the cleanup with success; a cleanup    *)
(* that fails is given up after its retries.                               *)
Return(v) ==
  /\ \/ call[v].pc = "error"
     \/ call[v].pc = "done" /\ call[v].task = "cleanup"
  /\ call' = [call EXCEPT ![v] = Idle]
  /\ NoFault
  /\ UNCHANGED <<has, apiVars>>

ReleasePV(v) ==
  /\ phase[v] = "bound"
  /\ phase' = [phase EXCEPT ![v] = "released"]
  /\ UNCHANGED <<fixedVars, memory, class, pv, has, call, failures, boundVars>>

EditClass ==
  /\ MayGoWrong(edits, MaxEdits)
  /\ class' \in {"valid", "invalid", "absent"} \ {class}
  /\ edits' = edits + 1
  /\ UNCHANGED <<fixedVars, memory, phase, pv, has, call, failures, faults, crashes>>

Crash == (\E v \in Volumes : call[v] # Idle) /\ Die(has)

Controller(v) ==
  StartProvision(v) \/ SavePV(v) \/ StartDelete(v) \/ RemovePV(v) \/ Return(v)
=============================================================================
