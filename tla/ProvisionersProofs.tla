------------------------- MODULE ProvisionersProofs -------------------------
(***************************************************************************)
(* What the provisioners without a state of their own do to the assets of  *)
(* their volumes, for any number of volumes, any claims, failed requests,  *)
(* crashes and changes of the storage class.                               *)
(***************************************************************************)
EXTENDS Provisioners, TLAPS

(* These name what they make after the claim, so that several volumes may  *)
(* have it; they remove nothing.                                           *)
Fixed == {"cephfsFixed", "glusterCopy"}

(* These name what they make after the volume alone.                       *)
Plain == {"hostpath", "nfsclient", "flex", "digitalocean", "openebs", "targetd", "glusterfs"}

(* These have volumes that nodes use.                                      *)
Watched == {"rbd", "digitalocean"} \cup CloudCopies

(* The sorts of asset that the provisioner k makes.                        *)
Makes(k) ==
  CASE k = "targetd" -> {"volume", "export"}
    [] k \in CephKinds -> {"volume", "user", "secret"}
    [] k = "glusterfs" -> {"gid", "brick", "volume", "started", "service"}
    [] k \in FileKinds -> {"gid", "volume", "service"}
    [] k \in BlockKinds -> {"volume", "secret"}
    [] OTHER -> {"volume"}

(* What it makes for a volume, and what a PV may name.                     *)
Own(k, v) ==
  {a \in Assets :
     /\ a.type \in Makes(k)
     /\ IF a.type = "service" \/ k \in Fixed THEN a.of \notin Volumes ELSE a.of = v
     /\ k \in Plain /\ a.type \in {"volume", "brick", "started"} => a.n = 0}

NotServices(S) == {a \in S : a.type # "service"}

(* Those whose removal Delete is sure of: after a failure, a user may stay. *)
Sure(f, S) == {a \in NotServices(S) : a.type = "user" => f = 0}

(* Where Delete is when the assets of a sort are gone.                     *)
Gone(k, type) ==
  CASE type = "user" -> {"remove", "unsecret", "done"}
    [] type = "export" -> {"destroy", "done"}
    [] type = "gid" -> {"done"} \cup IF k \in FileKinds THEN {"rmvolume", "rmservice"} ELSE {}
    [] type = "started" -> {"rmvolume", "rmbricks", "rmservice", "release", "done"}
    [] type = "brick" -> {"rmservice", "release", "done"}
    [] type = "secret" -> {"done"}
    [] type = "volume" -> {"unsecret", "rmbricks", "rmservice", "release", "done"}
    [] OTHER -> {}

(* OnlyLogged, of all assets of a volume with f failures, after e changes  *)
(* of the class.                                                           *)
Logged(k, f, e) ==
  \/ k = "glusterfs" /\ (f > 0 \/ e > 0)
  \/ k = "cinderCopy" /\ f > 0
  \/ k = "glusterCopy"

(* A call is about a volume in the phase that asked for it, and at a step  *)
(* of its task.  CephFS never finds a share of which it does not know the  *)
(* group.                                                                  *)
InPhase(k, ph, task, pc) ==
  /\ task = "none" => pc = "out"
  /\ task = "provision" =>
       /\ ph = "wanted"
       /\ pc \in Making \cup Undoing \cup {"done", "error"}
       /\ pc \in {"stop", "rmvolume", "rmbricks", "rmservice"} => k = "glusterfs"
  /\ task = "cleanup" => ph = "wanted"
  /\ task = "delete" => ph = "released"
  /\ task \in {"cleanup", "delete"} => pc \in Removing \cup {"done", "error"}
  /\ k = "cephfsFixed" =>
       /\ ph # "gone"
       /\ task \in {"cleanup", "delete"} => pc \in {"delete", "deauthorize", "error"}

(* The assets of a volume while it is provisioned.                         *)
WhileMade(k, v, task, pc, made, h) ==
  /\ made \subseteq Own(k, v) \cup {Asset("archive", v, 0)}
  /\ task = "provision" => made \subseteq Own(k, v)
  /\ task = "provision" /\ pc \in Making \cup {"done"} => NotServices(made) \subseteq h

(* While it is bound, while it is deleted, and when its PV is gone.        *)
WhileNamed(k, v, f, e, ph, p, task, pc, h) ==
  /\ p \subseteq Own(k, v)
  /\ ph = "bound" => NotServices(p) \subseteq h
  /\ task = "delete" /\ ~Logged(k, f, e) => \A a \in Sure(f, p) \cap h : pc \notin Gone(k, a.type)
  /\ ph = "gone" /\ ~Logged(k, f, e) => Sure(f, p) \cap h = {}

(* Undisturbed, GlusterFS deletes a volume that runs.                      *)
Running(k, v, f, e, ph, p, task, pc, made, h) ==
  k = "glusterfs" =>
    /\ task = "provision" /\ pc \in {"service", "done"} => Started(v) \in made
    /\ ph = "bound" => Started(v) \in p
    /\ ph = "released" /\ f = 0 /\ e = 0 =>
         /\ pc # "error"
         /\ pc \in {"out", "delete", "stop"} => Started(v) \in h

(* A volume in use is there, and Delete did not begin to remove it.        *)
WhileUsed(k, v, ph, p, task, pc, made, h) ==
  /\ k \in {"rbd"} \cup CloudCopies =>
       /\ task = "provision" /\ pc \in {"done", "tag"} => \E a \in made : a.type = "volume"
       /\ ph = "bound" => \E a \in p : a.type = "volume"
  /\ (\E a \in h : a.type = "watch" /\ a.of = v) =>
       /\ k \in Watched
       /\ ph \in {"bound", "released"} /\ pc \in {"out", "delete", "status", "error"}
       /\ \E a \in h : a.type = "volume" /\ a.of = v
  /\ \A a \in h : a.type = "watch" /\ a.of = v =>
       a.n \in IF k = "digitalocean" THEN Droplets ELSE {0}

(* All of it, for a volume v with f failures, in phase ph, whose PV names  *)
(* p, whose call made so much, while there is h.                           *)
Fits(k, v, f, e, ph, p, task, pc, made, h) ==
  /\ InPhase(k, ph, task, pc)
  /\ WhileMade(k, v, task, pc, made, h)
  /\ WhileNamed(k, v, f, e, ph, p, task, pc, h)
  /\ Running(k, v, f, e, ph, p, task, pc, made, h)
  /\ WhileUsed(k, v, ph, p, task, pc, made, h)

FitsNow(v) ==
  Fits(kind, v, failures[v], edits, phase[v], pv[v], call[v].task, call[v].pc, call[v].made, has)

IInv == TypeOK /\ (edits = 0 => class = "valid") /\ \A v \in Volumes : FitsNow(v)
-----------------------------------------------------------------------------
(* Values.                                                                 *)

LEMMA SmallNames == {0, 1, 2} \subseteq Names
BY CallsAssumption DEF Names

LEMMA NameOfClaim ==
  ASSUME TypeOK, NEW v \in Volumes
  PROVE  claim[v].name \in ClaimNames \ Volumes
BY CallsAssumption DEF TypeOK, ClaimNames

LEMMA AssetTyped ==
  ASSUME NEW type \in Types, NEW of \in Volumes \cup ClaimNames, NEW n \in Names \cup Luns
  PROVE  /\ Asset(type, of, n) \in Assets
         /\ Asset(type, of, n).type = type /\ Asset(type, of, n).of = of /\ Asset(type, of, n).n = n
BY DEF Asset, Assets

LEMMA AssetFields ==
  ASSUME NEW a \in Assets
  PROVE  a.type \in Types /\ a.of \in Volumes \cup ClaimNames /\ a.n \in Names \cup Luns
BY DEF Assets
-----------------------------------------------------------------------------
(* Steps.                                                                  *)

Pcs == {"done", "error"} \cup Making \cup Undoing \cup Removing

(* What the services have changes for one volume, or for no volume at all; *)
(* a provisioner that names assets after claims takes nothing away.        *)
OnlyOf(v, h) ==
  /\ \A a \in (has \ h) \cup (h \ has) : a.of = v \/ a.of \notin Volumes
  /\ kind \in Fixed => has \subseteq h

(* Nothing of this is seen by the other volumes.                           *)
LEMMA OthersFit ==
  ASSUME NEW v \in Volumes, NEW u \in Volumes \ {v}, NEW h, OnlyOf(v, h),
         NEW f \in Nat, NEW e \in Nat, NEW ph, NEW p, NEW task, NEW pc, NEW made,
         Fits(kind, u, f, e, ph, p, task, pc, made, has)
  PROVE  Fits(kind, u, f, e, ph, p, task, pc, made, h)
<1>1. \A a : a.of = u => (a \in h) = (a \in has)
  BY DEF OnlyOf
<1>2. \A a \in Own(kind, u) : a.type # "service" =>
        \/ (a \in h) = (a \in has)
        \/ kind \in Fixed /\ (a \in has => a \in h)
  BY <1>1 DEF Own, OnlyOf
<1>3. WhileMade(kind, u, task, pc, made, h)
  BY <1>2 DEF Fits, WhileMade, NotServices
<1>4. WhileNamed(kind, u, f, e, ph, p, task, pc, h)
  <2>1. kind = "glusterCopy" => Logged(kind, f, e)
    BY DEF Logged
  <2>2. kind = "cephfsFixed" => ph # "gone"
    BY DEF Fits, InPhase
  <2>3. kind = "cephfsFixed" /\ task = "delete" => \A type : pc \notin Gone(kind, type)
    BY DEF Fits, InPhase, Gone, FileKinds
  <2> QED
    BY <1>2, <2>1, <2>2, <2>3 DEF Fits, WhileNamed, Sure, NotServices, Fixed
<1>5. Running(kind, u, f, e, ph, p, task, pc, made, h)
  BY <1>1 DEF Fits, Running, Started, Asset
<1>6. WhileUsed(kind, u, ph, p, task, pc, made, h)
  BY <1>1 DEF Fits, WhileUsed
<1> QED
  BY <1>3, <1>4, <1>5, <1>6 DEF Fits

(* An error is the end of a call: only what is in use must still be there. *)
LEMMA ErrorFits ==
  ASSUME NEW v \in Volumes, NEW k, NEW f \in Nat, NEW g \in Nat, NEW e \in Nat, g >= f,
         NEW ph, NEW p, NEW task \in Tasks \ {"none"}, NEW pc, NEW made, NEW h, NEW h2,
         Fits(k, v, f, e, ph, p, task, pc, made, h),
         k = "glusterfs" => g > 0 \/ e > 0 \/ task # "delete",
         \A a \in h2 : a.type = "watch" => a \in h,
         (\E a \in h : a.type = "watch" /\ a.of = v) => h \subseteq h2
  PROVE  Fits(k, v, g, e, ph, p, task, "error", made, h2)
<1>1. ph = "wanted" \/ (ph = "released" /\ task = "delete")
  BY DEF Fits, InPhase, Tasks
<1>2. InPhase(k, ph, task, "error")
  BY DEF Fits, InPhase
<1>3. WhileMade(k, v, task, "error", made, h2)
  BY DEF Fits, WhileMade, Making
<1>4. WhileNamed(k, v, g, e, ph, p, task, "error", h2)
  <2>1. \A type : "error" \notin Gone(k, type)
    BY DEF Gone, FileKinds
  <2> QED
    BY <1>1, <2>1 DEF Fits, WhileNamed, Sure
<1>5. Running(k, v, g, e, ph, p, task, "error", made, h2)
  BY <1>1 DEF Fits, Running
<1>6. WhileUsed(k, v, ph, p, task, "error", made, h2)
  BY <1>1 DEF Fits, WhileUsed
<1> QED
  BY <1>2, <1>3, <1>4, <1>5, <1>6 DEF Fits

(* A step of one volume.                                                   *)
LEMMA StepFits ==
  ASSUME IInv, TypeOK', NEW v \in Volumes, OnlyOf(v, has'),
         UNCHANGED <<kind, edits, class>>,
         \A u \in Volumes \ {v} :
           UNCHANGED <<failures[u], phase[u], pv[u], call[u]>>,
         Fits(kind, v, failures'[v], edits, phase'[v], pv'[v],
              call'[v].task, call'[v].pc, call'[v].made, has')
  PROVE  IInv'
<1>1. ASSUME NEW u \in Volumes \ {v}
      PROVE  FitsNow(u)'
  <2>1. PICK h : h = has'
    OBVIOUS
  <2>2. Fits(kind, u, failures[u], edits, phase[u], pv[u],
             call[u].task, call[u].pc, call[u].made, has)
    BY DEF IInv, FitsNow
  <2>3. failures[u] \in Nat /\ edits \in Nat
    BY DEF IInv, TypeOK
  <2>4. Fits(kind, u, failures[u], edits, phase[u], pv[u],
             call[u].task, call[u].pc, call[u].made, h)
    BY <2>1, <2>2, <2>3, OthersFit
  <2> QED
    BY <2>1, <2>4 DEF FitsNow
<1>2. FitsNow(v)'
  BY DEF FitsNow
<1> QED
  BY <1>1, <1>2 DEF IInv

LEMMA IdleTyped == Idle \in Calls /\ Idle.task = "none" /\ Idle.pc = "out" /\ Idle.made = {}
BY SmallNames DEF Idle, Calls, Tasks

(* A call that goes on is a call.                                          *)
LEMMA CallGoes ==
  ASSUME TypeOK, NEW v \in Volumes, call'[v].task # "none",
         \A u \in Volumes \ {v} : call'[u] = call[u]
  PROVE  \A u \in Volumes : (call'[u].task = "none") = (call'[u] = Idle)
<1>1. (call'[v].task = "none") = (call'[v] = Idle)
  BY IdleTyped
<1>2. \A u \in Volumes : (call[u].task = "none") = (call[u] = Idle)
  BY DEF TypeOK
<1> QED
  BY <1>1, <1>2

(* A request, by what it adds and takes away, when it ends well or not.    *)
LEMMA RequestFits ==
  ASSUME IInv, NEW v \in Volumes, call[v].task # "none",
         NEW adds \in SUBSET Assets, NEW takes, NEW ok \in Pcs, NEW error \in Pcs,
         Request(v, adds, takes, ok, error),
         \A a \in adds \cup (takes \cap has) : a.of = v \/ a.of \notin Volumes,
         \A a \in adds : a.type # "watch",
         kind \in Fixed => takes = {},
         takes = {} \/ ~ \E a \in has : a.type = "watch" /\ a.of = v,
         Fits(kind, v, failures[v], edits, phase[v], pv[v],
              call[v].task, ok, call[v].made \cup adds, (has \ takes) \cup adds),
         \/ error = "error"
         \/ \A h \in {has, (has \ takes) \cup adds} :
              Fits(kind, v, failures[v] + 1, edits, phase[v], pv[v],
                   call[v].task, error, call[v].made, h)
  PROVE  IInv'
<1>. DEFINE after == (has \ takes) \cup adds
<1>1. TypeOK /\ FitsNow(v)
  BY DEF IInv
<1>2. /\ call[v] \in Calls /\ failures[v] \in Nat /\ edits \in Nat
      /\ call[v] # Idle
  BY <1>1 DEF TypeOK, Idle
<1>3. OnlyOf(v, has) /\ OnlyOf(v, after)
  BY DEF OnlyOf
<1>4. after \subseteq Assets
  BY <1>1 DEF TypeOK
<1>5. CASE has' = after /\ call' = [call EXCEPT ![v].pc = ok, ![v].made = @ \cup adds] /\ NoFault /\ UNCHANGED apiVars
  <2>1. /\ call'[v] \in Calls
        /\ call'[v].task = call[v].task /\ call'[v].pc = ok /\ call'[v].made = call[v].made \cup adds
    BY <1>1, <1>2, <1>5 DEF TypeOK, Calls, Pcs
  <2>2. \A u \in Volumes \ {v} : call'[u] = call[u]
    BY <1>1, <1>5 DEF TypeOK
  <2>3. TypeOK'
    <3>1. call' \in [Volumes -> Calls]
      BY <1>1, <1>5, <2>1, <2>2 DEF TypeOK
    <3>2. \A u \in Volumes : (call'[u].task = "none") = (call'[u] = Idle)
      BY <1>1, <2>1, <2>2, CallGoes
    <3> QED
      BY <1>1, <1>4, <1>5, <3>1, <3>2 DEF TypeOK, NoFault, apiVars, fixedVars
  <2>. HIDE DEF after
  <2>4. UNCHANGED <<kind, edits, class, failures, phase, pv>>
    BY <1>5 DEF NoFault, apiVars, fixedVars
  <2>5. Fits(kind, v, failures'[v], edits, phase'[v], pv'[v],
              call'[v].task, call'[v].pc, call'[v].made, has')
    BY <1>5, <2>1, <2>4 DEF after
  <2> QED
    BY <1>3, <1>5, <2>2, <2>3, <2>4, <2>5, StepFits
<1>6. CASE Fault(v) /\ has' \in {has, after} /\ Goto(v, error) /\ UNCHANGED apiVars
  <2>1. /\ call'[v] \in Calls
        /\ call'[v].task = call[v].task /\ call'[v].pc = error /\ call'[v].made = call[v].made
    BY <1>1, <1>2, <1>6 DEF TypeOK, Calls, Pcs, Goto
  <2>2. \A u \in Volumes \ {v} : call'[u] = call[u]
    BY <1>1, <1>6 DEF TypeOK, Goto
  <2>3. TypeOK'
    <3>1. call' \in [Volumes -> Calls]
      BY <1>1, <1>6, <2>1, <2>2 DEF TypeOK, Goto
    <3>2. \A u \in Volumes : (call'[u].task = "none") = (call'[u] = Idle)
      BY <1>1, <2>1, <2>2, CallGoes
    <3>3. failures' \in [Volumes -> Nat] /\ faults' \in 0 .. MaxFaults
      BY <1>1, <1>6, CallsAssumption DEF TypeOK, Fault, MayGoWrong
    <3> QED
      BY <1>1, <1>4, <1>6, <3>1, <3>2, <3>3 DEF TypeOK, apiVars, fixedVars
  <2>4. /\ UNCHANGED <<kind, edits, class, phase, pv>>
        /\ failures'[v] = failures[v] + 1 /\ \A u \in Volumes \ {v} : failures'[u] = failures[u]
    BY <1>1, <1>6 DEF Fault, apiVars, fixedVars, TypeOK
  <2>. HIDE DEF after
  <2>5. Fits(kind, v, failures[v] + 1, edits, phase[v], pv[v],
             call[v].task, error, call[v].made, has')
    <3>1. PICK h : h = has'
      OBVIOUS
    <3>2. CASE error = "error"
      <4>1. Fits(kind, v, failures[v] + 1, edits, phase[v], pv[v],
                 call[v].task, "error", call[v].made, h)
        <5>1. Fits(kind, v, failures[v], edits, phase[v], pv[v],
                   call[v].task, call[v].pc, call[v].made, has)
          BY <1>1 DEF FitsNow
        <5>2. call[v].task \in Tasks \ {"none"}
          BY <1>2 DEF Calls
        <5>3. \A a \in h : a.type = "watch" => a \in has
          BY <1>6, <3>1 DEF after
        <5>4. (\E a \in has : a.type = "watch" /\ a.of = v) => has \subseteq h
          BY <1>6, <3>1 DEF after
        <5>5. failures[v] + 1 \in Nat /\ failures[v] + 1 >= failures[v] /\ failures[v] + 1 > 0
          BY <1>2
        <5> QED
          BY <1>2, <5>1, <5>2, <5>3, <5>4, <5>5, ErrorFits
      <4> QED
        BY <3>1, <3>2, <4>1
    <3>3. CASE error # "error"
      BY <1>6, <3>3 DEF after
    <3> QED
      BY <3>2, <3>3
  <2> QED
    BY <1>3, <1>6, <2>1, <2>2, <2>3, <2>4, <2>5, StepFits
<1> QED
  BY <1>5, <1>6 DEF Request

(* A step that asks for nothing.                                           *)
LEMMA GoFits ==
  ASSUME IInv, NEW v \in Volumes, call[v].task # "none", NEW pc \in Pcs,
         call' \in [Volumes -> Calls],
         call'[v].task = call[v].task, call'[v].pc = pc, call'[v].made = call[v].made,
         \A u \in Volumes \ {v} : call'[u] = call[u],
         UNCHANGED <<has, kind, claim, class, phase, pv, crashes, edits>>,
         memory' \subseteq Volumes,
         \/ NoFault
         \/ Fault(v)
         \/ faults' = faults /\ failures' = [failures EXCEPT ![v] = @ + 1],
         \/ /\ pc = "error"
            /\ failures' # failures \/ edits > 0 \/ kind # "glusterfs" \/ call[v].task # "delete"
         \/ Fits(kind, v, failures'[v], edits, phase[v], pv[v],
                 call[v].task, pc, call[v].made, has)
  PROVE  IInv'
<1>1. TypeOK /\ FitsNow(v)
  BY DEF IInv
<1>2. /\ call[v] \in Calls /\ failures[v] \in Nat /\ edits \in Nat
      /\ call[v] # Idle
  BY <1>1 DEF TypeOK, Idle
<1>3. OnlyOf(v, has')
  BY DEF OnlyOf
<1>6. /\ failures' \in [Volumes -> Nat] /\ faults' \in 0 .. MaxFaults
      /\ failures'[v] \in {failures[v], failures[v] + 1}
      /\ failures' = failures \/ failures'[v] = failures[v] + 1
      /\ \A u \in Volumes \ {v} : failures'[u] = failures[u]
  BY <1>1, CallsAssumption DEF TypeOK, Fault, NoFault, MayGoWrong
<1>7. TypeOK'
  <2>1. \A u \in Volumes : (call'[u].task = "none") = (call'[u] = Idle)
    BY <1>1, CallGoes
  <2> QED
    BY <1>1, <1>6, <2>1 DEF TypeOK
<1>8. Fits(kind, v, failures'[v], edits, phase[v], pv[v],
           call[v].task, pc, call[v].made, has)
  <2>1. CASE /\ pc = "error"
             /\ failures' # failures \/ edits > 0 \/ kind # "glusterfs" \/ call[v].task # "delete"
    <3>1. PICK g \in Nat : g = failures'[v]
      BY <1>2, <1>6
    <3>2. g >= failures[v] /\ (kind = "glusterfs" => g > 0 \/ edits > 0 \/ call[v].task # "delete")
      BY <1>2, <1>6, <2>1, <3>1
    <3>3. Fits(kind, v, failures[v], edits, phase[v], pv[v],
               call[v].task, call[v].pc, call[v].made, has)
      BY <1>1 DEF FitsNow
    <3>4. call[v].task \in Tasks \ {"none"}
      BY <1>2 DEF Calls
    <3>5. Fits(kind, v, g, edits, phase[v], pv[v], call[v].task, "error", call[v].made, has)
      BY <1>2, <3>2, <3>3, <3>4, ErrorFits
    <3> QED
      BY <2>1, <3>1, <3>5
  <2> QED
    BY <2>1
<1> QED
  BY <1>3, <1>6, <1>7, <1>8, StepFits

LEMMA Going ==
  ASSUME TypeOK, NEW v \in Volumes, NEW pc \in Pcs, Goto(v, pc)
  PROVE  /\ call' \in [Volumes -> Calls]
         /\ call'[v].task = call[v].task /\ call'[v].pc = pc /\ call'[v].made = call[v].made
         /\ \A u \in Volumes \ {v} : call'[u] = call[u]
<1>1. call[v] \in Calls
  BY DEF TypeOK
<1>2. [call[v] EXCEPT !.pc = pc] \in Calls
  BY <1>1 DEF Calls, Pcs
<1> QED
  BY <1>1, <1>2 DEF TypeOK, Goto, Calls

(* The forms that the steps of the provisioners have.                      *)
LEMMA MoveFits ==
  ASSUME IInv, NEW v \in Volumes, call[v].task # "none", NEW pc \in Pcs,
         Goto(v, pc), NoFault, UNCHANGED <<has, apiVars>>,
         Fits(kind, v, failures[v], edits, phase[v], pv[v], call[v].task, pc, call[v].made, has)
  PROVE  IInv'
<1>1. /\ call' \in [Volumes -> Calls]
      /\ call'[v].task = call[v].task /\ call'[v].pc = pc /\ call'[v].made = call[v].made
      /\ \A u \in Volumes \ {v} : call'[u] = call[u]
  BY Going DEF IInv
<1>2. UNCHANGED <<has, kind, claim, class, phase, pv, crashes, edits>> /\ memory' \subseteq Volumes
  BY DEF apiVars, fixedVars, IInv, TypeOK
<1>3. failures' = failures
  BY DEF NoFault
<1>4. Fits(kind, v, failures'[v], edits, phase[v], pv[v], call[v].task, pc, call[v].made, has)
  BY <1>3
<1> QED
  BY <1>1, <1>2, <1>4, GoFits

LEMMA RefuseFits ==
  ASSUME IInv, NEW v \in Volumes, call[v].task # "none", Refuse(v, "error"),
         edits > 0 \/ kind # "glusterfs" \/ call[v].task # "delete"
  PROVE  IInv'
<1>0. "error" \in Pcs
  BY DEF Pcs
<1>1. /\ call' \in [Volumes -> Calls]
      /\ call'[v].task = call[v].task /\ call'[v].pc = "error" /\ call'[v].made = call[v].made
      /\ \A u \in Volumes \ {v} : call'[u] = call[u]
  BY <1>0, Going DEF IInv, Refuse
<1>2. /\ UNCHANGED <<has, kind, claim, class, phase, pv, crashes, edits>>
      /\ memory' \subseteq Volumes /\ NoFault
  BY DEF Refuse, apiVars, fixedVars, IInv, TypeOK
<1> QED
  BY <1>0, <1>1, <1>2, GoFits

LEMMA AskFits ==
  ASSUME IInv, NEW v \in Volumes, call[v].task # "none", NEW ok \in Pcs, Ask(v, ok, "error"),
         Fits(kind, v, failures[v], edits, phase[v], pv[v], call[v].task, ok, call[v].made, has)
  PROVE  IInv'
<1>1. "error" \in Pcs /\ {} \in SUBSET Assets
  BY DEF Pcs
<1>2. call[v].made \cup {} = call[v].made /\ (has \ {}) \cup {} = has
  OBVIOUS
<1>3. Fits(kind, v, failures[v], edits, phase[v], pv[v],
           call[v].task, ok, call[v].made \cup {}, (has \ {}) \cup {})
  BY <1>2
<1>4. Request(v, {}, {}, ok, "error")
  BY DEF Ask
<1> QED
  BY <1>1, <1>3, <1>4, RequestFits

LEMMA MakeFits ==
  ASSUME IInv, NEW v \in Volumes, call[v].task # "none", NEW ok \in Pcs,
         NEW adds \in SUBSET Assets, Request(v, adds, {}, ok, "error"),
         \A a \in adds : (a.of = v \/ a.of \notin Volumes) /\ a.type # "watch",
         Fits(kind, v, failures[v], edits, phase[v], pv[v],
              call[v].task, ok, call[v].made \cup adds, has \cup adds)
  PROVE  IInv'
<1>1. "error" \in Pcs
  BY DEF Pcs
<1>2. (has \ {}) \cup adds = has \cup adds
  OBVIOUS
<1>3. Fits(kind, v, failures[v], edits, phase[v], pv[v],
           call[v].task, ok, call[v].made \cup adds, (has \ {}) \cup adds)
  BY <1>2
<1> QED
  BY <1>1, <1>3, RequestFits

LEMMA TakeFits ==
  ASSUME IInv, NEW v \in Volumes, call[v].task # "none", NEW ok \in Pcs,
         NEW takes, Request(v, {}, takes, ok, "error"),
         \A a \in takes \cap has : a.of = v \/ a.of \notin Volumes,
         kind \notin Fixed,
         ~ \E a \in has : a.type = "watch" /\ a.of = v,
         Fits(kind, v, failures[v], edits, phase[v], pv[v],
              call[v].task, ok, call[v].made, has \ takes)
  PROVE  IInv'
<1>1. "error" \in Pcs /\ {} \in SUBSET Assets
  BY DEF Pcs
<1>2. call[v].made \cup {} = call[v].made /\ (has \ takes) \cup {} = has \ takes
  OBVIOUS
<1>3. Fits(kind, v, failures[v], edits, phase[v], pv[v],
           call[v].task, ok, call[v].made \cup {}, (has \ takes) \cup {})
  BY <1>2
<1> QED
  BY <1>1, <1>3, RequestFits
-----------------------------------------------------------------------------
(* What is known when a step begins.                                       *)

LEMMA Now ==
  ASSUME IInv, NEW v \in Volumes
  PROVE  /\ TypeOK /\ call[v] \in Calls /\ failures[v] \in Nat /\ edits \in Nat
         /\ has \subseteq Assets /\ pv[v] \subseteq Assets /\ call[v].made \subseteq Assets
         /\ kind \in AllKinds /\ (edits = 0 => class = "valid")
         /\ Fits(kind, v, failures[v], edits, phase[v], pv[v],
                 call[v].task, call[v].pc, call[v].made, has)
         /\ call[v].pc # "out" => call[v].task \in Tasks \ {"none"}
         /\ call[v].pc \in Making => call[v].task = "provision"
         /\ call[v].pc \in Removing \ Undoing => call[v].task \in {"cleanup", "delete"}
         /\ call[v].pc \in Undoing => call[v].task # "none"
<1>1. TypeOK /\ FitsNow(v)
  BY DEF IInv
<1>2. call[v] \in Calls /\ call[v].task \in Tasks /\ call[v].made \subseteq Assets
  BY <1>1 DEF TypeOK, Calls
<1>3. InPhase(kind, phase[v], call[v].task, call[v].pc)
  BY <1>1 DEF FitsNow, Fits
<1>4. kind \in AllKinds
  BY <1>1, CallsAssumption DEF TypeOK
<1> QED
  BY <1>1, <1>2, <1>3, <1>4 DEF IInv, FitsNow, TypeOK, InPhase, Making, Removing, Undoing, Tasks

(* A volume whose Delete goes on to remove it is not in use.               *)
LEMMA NotInUse ==
  ASSUME IInv, NEW v \in Volumes, call[v].task # "none",
         call[v].task # "delete" \/ call[v].pc \notin {"delete", "status", "error"}
  PROVE  ~ \E a \in has : a.type = "watch" /\ a.of = v
BY Now DEF Fits, InPhase, WhileUsed, Tasks, TypeOK, Calls, Removing, Making, Undoing
LEMMA FaultFits ==
  ASSUME IInv, NEW v \in Volumes, call[v].task # "none",
         Fault(v), Goto(v, "error"), UNCHANGED <<has, apiVars>>
  PROVE  IInv'
<1>1. UNCHANGED <<has, kind, claim, class, phase, pv, crashes, edits>> /\ memory' \subseteq Volumes
  BY Now DEF apiVars, fixedVars, TypeOK
<1>2. /\ "error" \in Pcs
      /\ call' \in [Volumes -> Calls]
      /\ call'[v].task = call[v].task /\ call'[v].pc = "error" /\ call'[v].made = call[v].made
      /\ \A u \in Volumes \ {v} : call'[u] = call[u]
  BY Going, Now DEF Pcs
<1>3. failures'[v] # failures[v]
  BY Now DEF Fault, TypeOK
<1> QED
  BY <1>1, <1>2, <1>3, GoFits
-----------------------------------------------------------------------------
(* Provision goes on.                                                      *)

(* What a step adds is in hand, and there, after it.                       *)
LEMMA ForwardFits ==
  ASSUME IInv, NEW v \in Volumes, call[v].pc \in Making,
         NEW ok \in Making \cup {"done"}, NEW adds \in SUBSET Own(kind, v),
         kind = "glusterfs" /\ ok \in {"service", "done"} => Started(v) \in call[v].made \cup adds,
         kind \in {"rbd"} \cup CloudCopies /\ ok \in {"done", "tag"} =>
           \E a \in call[v].made \cup adds : a.type = "volume"
  PROVE  Fits(kind, v, failures[v], edits, phase[v], pv[v],
              call[v].task, ok, call[v].made \cup adds, has \cup adds)
<1>1. /\ Fits(kind, v, failures[v], edits, phase[v], pv[v],
              call[v].task, call[v].pc, call[v].made, has)
      /\ call[v].task = "provision" /\ phase[v] = "wanted"
  BY Now DEF Fits, InPhase
<1>2. InPhase(kind, phase[v], call[v].task, ok)
  BY <1>1 DEF Fits, InPhase, Making
<1>3. WhileMade(kind, v, call[v].task, ok, call[v].made \cup adds, has \cup adds)
  BY <1>1 DEF Fits, WhileMade, NotServices
<1>4. WhileNamed(kind, v, failures[v], edits, phase[v], pv[v], call[v].task, ok, has \cup adds)
  BY <1>1 DEF Fits, WhileNamed, Sure
<1>5. Running(kind, v, failures[v], edits, phase[v], pv[v],
              call[v].task, ok, call[v].made \cup adds, has \cup adds)
  BY <1>1 DEF Running
<1>6. WhileUsed(kind, v, phase[v], pv[v], call[v].task, ok, call[v].made \cup adds, has \cup adds)
  <2>1. \A a \in adds : a.type # "watch"
    BY DEF Own, Makes, CephKinds, FileKinds, BlockKinds
  <2> QED
    BY <1>1, <2>1 DEF Fits, WhileUsed
<1> QED
  BY <1>2, <1>3, <1>4, <1>5, <1>6 DEF Fits

LEMMA EnsureFits ==
  ASSUME IInv, NEW v \in Volumes, call[v].pc \in Making,
         NEW ok \in Making \cup {"done"}, NEW adds \in SUBSET Own(kind, v),
         kind = "glusterfs" /\ ok \in {"service", "done"} => Started(v) \in call[v].made \cup adds,
         kind \in {"rbd"} \cup CloudCopies /\ ok \in {"done", "tag"} =>
           \E a \in call[v].made \cup adds : a.type = "volume",
         Ensure(v, adds, ok, "error")
  PROVE  IInv'
<1>1. adds \in SUBSET Assets
  BY DEF Own
<1>2. \A a \in adds : (a.of = v \/ a.of \notin Volumes) /\ a.type # "watch"
  BY DEF Own, Makes, CephKinds, FileKinds, BlockKinds
<1>3. Fits(kind, v, failures[v], edits, phase[v], pv[v],
           call[v].task, ok, call[v].made \cup adds, has \cup adds)
  BY <1>1, ForwardFits
<1>4. call[v].task # "none" /\ ok \in Pcs
  BY Now DEF Pcs
<1> QED
  BY <1>1, <1>2, <1>3, <1>4, MakeFits DEF Ensure

LEMMA CreateFits ==
  ASSUME IInv, NEW v \in Volumes, call[v].pc \in Making,
         NEW ok \in Making \cup {"done"}, NEW a \in Own(kind, v),
         kind = "glusterfs" /\ ok \in {"service", "done"} => Started(v) \in call[v].made \cup {a},
         kind \in {"rbd"} \cup CloudCopies /\ ok \in {"done", "tag"} => a.type = "volume",
         Create(v, a, ok, "error")
  PROVE  IInv'
<1>1. CASE a \in has
  BY <1>1, RefuseFits, Now DEF Create
<1>2. CASE a \notin has
  <2>1. Ensure(v, {a}, ok, "error") /\ {a} \in SUBSET Own(kind, v)
    BY <1>2 DEF Create, Ensure
  <2>2. kind \in {"rbd"} \cup CloudCopies /\ ok \in {"done", "tag"} =>
          \E b \in call[v].made \cup {a} : b.type = "volume"
    OBVIOUS
  <2> QED
    BY <2>1, <2>2, EnsureFits
<1> QED
  BY <1>1, <1>2

(* A step that adds nothing, with or without a request.                    *)
LEMMA OnwardFits ==
  ASSUME IInv, NEW v \in Volumes, call[v].pc \in Making,
         NEW ok \in Making \cup {"done"},
         kind = "glusterfs" /\ ok \in {"service", "done"} => Started(v) \in call[v].made,
         kind \in {"rbd"} \cup CloudCopies /\ ok \in {"done", "tag"} =>
           \E a \in call[v].made : a.type = "volume"
  PROVE  /\ Fits(kind, v, failures[v], edits, phase[v], pv[v], call[v].task, ok, call[v].made, has)
         /\ Ask(v, ok, "error") => IInv'
         /\ Goto(v, ok) /\ NoFault /\ UNCHANGED <<has, apiVars>> => IInv'
<1>1. call[v].made \cup {} = call[v].made /\ has \cup {} = has /\ {} \in SUBSET Own(kind, v)
  OBVIOUS
<1>2. Fits(kind, v, failures[v], edits, phase[v], pv[v],
           call[v].task, ok, call[v].made \cup {}, has \cup {})
  BY <1>1, ForwardFits
<1>3. Fits(kind, v, failures[v], edits, phase[v], pv[v], call[v].task, ok, call[v].made, has)
  BY <1>1, <1>2
<1>4. call[v].task # "none" /\ ok \in Pcs
  BY Now DEF Pcs
<1> QED
  BY <1>3, <1>4, AskFits, MoveFits

(* The checks before anything is made.                                     *)
LEMMA CheckFits ==
  ASSUME IInv, NEW v \in Volumes, call[v].pc \in Making, NEW ok \in Making \ {"service", "tag"},
         Check(v, ok) \/ Parse(v, ok)
  PROVE  IInv'
<1>1. /\ Ask(v, ok, "error") => IInv'
      /\ Goto(v, ok) /\ NoFault /\ UNCHANGED <<has, apiVars>> => IInv'
  BY OnwardFits DEF Making
<1>2. call[v].task = "provision"
  BY Now
<1>3. Refuse(v, "error") => IInv'
  BY <1>2, RefuseFits
<1> QED
  BY <1>1, <1>3 DEF Check, Parse
-----------------------------------------------------------------------------
(* Delete goes on.                                                         *)

LEMMA BackwardFits ==
  ASSUME IInv, NEW v \in Volumes, call[v].task \in {"cleanup", "delete"},
         NEW ok \in Removing \cup {"done"}, NEW takes,
         kind = "cephfsFixed" => ok = "deauthorize",
         kind # "glusterfs" \/ ok \notin {"delete", "stop"},
         (\E a \in has : a.type = "watch" /\ a.of = v) => ok = "status" /\ takes = {},
         \A a \in pv[v] \ takes :
           /\ call[v].task = "delete" /\ a \in has
           /\ a.type \in Makes(kind) /\ a.type # "service" /\ call[v].pc \notin Gone(kind, a.type)
           => ok \notin Gone(kind, a.type) \/ Logged(kind, failures[v], edits)
  PROVE  Fits(kind, v, failures[v], edits, phase[v], pv[v],
              call[v].task, ok, call[v].made, has \ takes)
<1>1. /\ Fits(kind, v, failures[v], edits, phase[v], pv[v],
              call[v].task, call[v].pc, call[v].made, has)
      /\ phase[v] = IF call[v].task = "delete" THEN "released" ELSE "wanted"
  BY Now DEF Fits, InPhase
<1>2. InPhase(kind, phase[v], call[v].task, ok)
  BY <1>1 DEF Fits, InPhase, Fixed
<1>3. WhileMade(kind, v, call[v].task, ok, call[v].made, has \ takes)
  BY <1>1 DEF Fits, WhileMade
<1>4. WhileNamed(kind, v, failures[v], edits, phase[v], pv[v], call[v].task, ok, has \ takes)
  <2>1. \A a \in pv[v] : a.type \in Makes(kind)
    BY <1>1 DEF Fits, WhileNamed, Sure, Own
  <2> QED
    BY <1>1, <2>1 DEF Fits, WhileNamed, Sure, NotServices
<1>5. Running(kind, v, failures[v], edits, phase[v], pv[v],
              call[v].task, ok, call[v].made, has \ takes)
  BY <1>1 DEF Running, Removing
<1>6. WhileUsed(kind, v, phase[v], pv[v], call[v].task, ok, call[v].made, has \ takes)
  BY <1>1 DEF Fits, WhileUsed
<1> QED
  BY <1>2, <1>3, <1>4, <1>5, <1>6 DEF Fits

LEMMA NamedIsOwn ==
  ASSUME IInv, NEW v \in Volumes, call[v].task \in {"cleanup", "delete"}
  PROVE  \A a \in Named(v) : a \in Own(kind, v) \/ a = Asset("archive", v, 0)
<1>1. Fits(kind, v, failures[v], edits, phase[v], pv[v],
           call[v].task, call[v].pc, call[v].made, has)
  BY Now
<1> QED
  BY <1>1 DEF Fits, WhileMade, WhileNamed, Sure, Named

(* Reading something, or the class, before a deletion.                     *)
LEMMA LookFits ==
  ASSUME IInv, NEW v \in Volumes, call[v].task \in {"cleanup", "delete"},
         NEW ok \in Removing \cup {"done"},
         kind = "cephfsFixed" => ok = "deauthorize", kind # "glusterfs",
         (\E a \in has : a.type = "watch" /\ a.of = v) => ok = "status",
         \A a \in pv[v] :
           /\ call[v].task = "delete" /\ a \in has
           /\ a.type \in Makes(kind) /\ a.type # "service" /\ call[v].pc \notin Gone(kind, a.type)
           => ok \notin Gone(kind, a.type) \/ Logged(kind, failures[v], edits)
  PROVE  /\ Ask(v, ok, "error") => IInv'
         /\ Refuse(v, "error") => IInv'
         /\ ReadClass(v, ok) => IInv'
         /\ Goto(v, ok) /\ NoFault /\ UNCHANGED <<has, apiVars>> => IInv'
<1>1. pv[v] \ {} = pv[v] /\ has \ {} = has
  OBVIOUS
<1>2. Fits(kind, v, failures[v], edits, phase[v], pv[v],
           call[v].task, ok, call[v].made, has \ {})
  BY <1>1, BackwardFits
<1>3. Fits(kind, v, failures[v], edits, phase[v], pv[v], call[v].task, ok, call[v].made, has)
  BY <1>1, <1>2
<1>4. call[v].task # "none" /\ ok \in Pcs
  BY DEF Pcs
<1> QED
  BY <1>3, <1>4, AskFits, MoveFits, RefuseFits DEF ReadClass

LEMMA RemoveFits ==
  ASSUME IInv, NEW v \in Volumes, call[v].task \in {"cleanup", "delete"},
         NEW ok \in Removing \cup {"done"}, NEW takes,
         kind \notin Fixed, kind # "glusterfs",
         ~ \E a \in has : a.type = "watch" /\ a.of = v,
         \A a \in takes : a.of = v \/ a.of \notin Volumes,
         \A a \in pv[v] \ takes :
           /\ call[v].task = "delete" /\ a \in has
           /\ a.type \in Makes(kind) /\ a.type # "service" /\ call[v].pc \notin Gone(kind, a.type)
           => ok \notin Gone(kind, a.type) \/ Logged(kind, failures[v], edits),
         Remove(v, takes, ok, "error") \/ RemoveIfThere(v, takes, ok, "error")
  PROVE  IInv'
<1>1. Fits(kind, v, failures[v], edits, phase[v], pv[v],
           call[v].task, ok, call[v].made, has \ takes)
  BY BackwardFits DEF Fixed
<1>2. call[v].task # "none" /\ ok \in Pcs
  BY DEF Pcs
<1>3. CASE Refuse(v, "error")
  BY <1>2, <1>3, RefuseFits
<1>4. CASE Request(v, {}, takes, ok, "error")
  BY <1>1, <1>2, <1>4, TakeFits
<1> QED
  BY <1>3, <1>4 DEF Remove, RemoveIfThere
-----------------------------------------------------------------------------
(* Directories.                                                            *)

LEMMA DirectoryIsOwn ==
  ASSUME NEW v \in Volumes, NEW k \in Plain, "volume" \in Makes(k)
  PROVE  /\ Asset("volume", v, 0) \in Own(k, v)
         /\ \A a \in Own(k, v) : a.type = "volume" => a = Asset("volume", v, 0)
<1>1. Asset("volume", v, 0) \in Assets /\ \A a \in Assets : a = Asset(a.type, a.of, a.n)
  BY SmallNames DEF Asset, Assets, Types
<1> QED
  BY <1>1 DEF Own, Plain, Fixed, Asset

LEMMA PlainPV ==
  ASSUME IInv, NEW v \in Volumes, kind \in Plain, Makes(kind) = {"volume"}
  PROVE  pv[v] \subseteq {Asset("volume", v, 0)}
<1>1. pv[v] \subseteq Own(kind, v)
  BY Now DEF Fits, WhileNamed, Sure
<1> QED
  BY <1>1, DirectoryIsOwn DEF Own

LEMMA DirectoriesFit ==
  ASSUME IInv, NEW v \in Volumes, Directories(v)
  PROVE  IInv'
<1>. DEFINE only == {Directory(v)}
<1>1. ASSUME kind \in {"hostpath", "nfsclient"}
      PROVE  /\ Makes(kind) = {"volume"} /\ kind \in Plain
             /\ kind \notin Fixed /\ kind # "glusterfs" /\ kind \notin {"rbd"} \cup CloudCopies
             /\ only \in SUBSET Own(kind, v) /\ pv[v] \ only = {}
             /\ \A a \in only : a.of = v
  <2>1. /\ Makes(kind) = {"volume"} /\ kind \in Plain
        /\ kind \notin Fixed /\ kind # "glusterfs" /\ kind \notin {"rbd"} \cup CloudCopies
    BY <1>1 DEF Makes, CephKinds, FileKinds, BlockKinds, Plain, Fixed, CloudCopies
  <2>2. Directory(v) \in Own(kind, v)
    BY <2>1, DirectoryIsOwn DEF Directory
  <2> QED
    BY <2>1, <2>2, PlainPV DEF Directory, Asset
<1>2. \A a \in has : a.type = "watch" => a.of # v
  BY <1>1, Now DEF Fits, WhileUsed, Watched, CloudCopies, Directories, HostpathProvision, HostpathDelete, NfsClientProvision, NfsClientDelete, NfsClientRemove, At
<1>. HIDE DEF only
<1>3. CASE HostpathProvision(v) \/ NfsClientProvision(v)
  BY <1>1, <1>3, EnsureFits DEF HostpathProvision, NfsClientProvision, At, Making, only
<1>4. CASE HostpathDelete(v)
  <2>1. /\ kind = "hostpath" /\ call[v].pc \in Removing \ Undoing
        /\ RemoveIfThere(v, only, "done", "error")
    BY <1>4 DEF HostpathDelete, At, Removing, Undoing, only
  <2>2. call[v].task \in {"cleanup", "delete"}
    BY <2>1, Now
  <2> QED
    BY <1>1, <1>2, <2>1, <2>2, RemoveFits
<1>5. CASE NfsClientDelete(v)
  <2>1. kind = "nfsclient" /\ call[v].pc \in Removing \ Undoing
    BY <1>5 DEF NfsClientDelete, At, Removing, Undoing
  <2>2. call[v].task \in {"cleanup", "delete"}
    BY <2>1, Now
  <2>3. CASE Named(v) \cap has = {} /\ Ask(v, "done", "error")
    <3>1. call[v].task = "delete" => pv[v] \cap has = {}
      BY <2>3 DEF Named
    <3> QED
      BY <1>1, <1>2, <2>1, <2>2, <2>3, <3>1, LookFits
  <2>4. CASE ReadClass(v, "remove")
    <3>1. \A type \in {"volume"} : "remove" \notin Gone(kind, type)
      BY DEF Gone
    <3> QED
      BY <1>1, <1>2, <2>1, <2>2, <2>4, <3>1, LookFits DEF Removing
  <2> QED
    BY <1>5, <2>3, <2>4 DEF NfsClientDelete
<1>6. CASE NfsClientRemove(v)
  <2>1. kind = "nfsclient" /\ call[v].pc \in Removing \ Undoing
    BY <1>6 DEF NfsClientRemove, At, Removing, Undoing
  <2>2. call[v].task \in {"cleanup", "delete"}
    BY <2>1, Now
  <2>3. CASE Request(v, {}, only, "done", "error")
    BY <1>1, <1>2, <2>1, <2>2, <2>3, RemoveFits DEF RemoveIfThere
  <2>4. CASE Request(v, {Asset("archive", v, 0)}, only, "done", "error")
    <3>. DEFINE kept == {Asset("archive", v, 0)}
    <3>1. kept \in SUBSET Assets /\ \A a \in kept : a.of = v /\ a.type = "archive"
      BY SmallNames, AssetTyped DEF Types
    <3>2. Fits(kind, v, failures[v], edits, phase[v], pv[v],
               call[v].task, "done", call[v].made, has \ only)
      BY <1>1, <1>2, <2>1, <2>2, BackwardFits
    <3>3. Fits(kind, v, failures[v], edits, phase[v], pv[v],
               call[v].task, "done", call[v].made \cup kept, (has \ only) \cup kept)
      <4>1. InPhase(kind, phase[v], call[v].task, "done")
        BY <3>2 DEF Fits
      <4>2. WhileMade(kind, v, call[v].task, "done", call[v].made \cup kept, (has \ only) \cup kept)
        BY <2>2, <3>2 DEF Fits, WhileMade
      <4>3. WhileNamed(kind, v, failures[v], edits, phase[v], pv[v],
                       call[v].task, "done", (has \ only) \cup kept)
        <5>1. kept \cap pv[v] = {}
          BY <1>1, <2>1, <3>1, Now DEF Fits, WhileNamed, Sure, Own
        <5> QED
          BY <3>2, <5>1 DEF Fits, WhileNamed, Sure, NotServices
      <4>4. Running(kind, v, failures[v], edits, phase[v], pv[v],
                    call[v].task, "done", call[v].made \cup kept, (has \ only) \cup kept)
        BY <2>1 DEF Running
      <4>5. WhileUsed(kind, v, phase[v], pv[v], call[v].task, "done",
                      call[v].made \cup kept, (has \ only) \cup kept)
        BY <2>1, <2>2, <3>1, <3>2 DEF Fits, WhileUsed, CloudCopies
      <4> QED
        BY <4>1, <4>2, <4>3, <4>4, <4>5 DEF Fits
    <3>4. call[v].task # "none" /\ "done" \in Pcs /\ "error" \in Pcs
      BY <2>2 DEF Pcs
    <3>5. /\ \A a \in kept \cup (only \cap has) : a.of = v
          /\ \A a \in kept : a.type # "watch"
          /\ kind \notin Fixed /\ ~ \E a \in has : a.type = "watch" /\ a.of = v
      BY <1>1, <1>2, <2>1, <3>1
    <3>6. Request(v, kept, only, "done", "error")
      BY <2>4
    <3>. HIDE DEF kept
    <3> QED
      BY <3>1, <3>3, <3>4, <3>5, <3>6, RequestFits
  <2> QED
    BY <1>6, <2>3, <2>4 DEF NfsClientRemove, only
<1> QED
  BY <1>3, <1>4, <1>5, <1>6 DEF Directories
-----------------------------------------------------------------------------
(* Ceph.                                                                   *)

LEMMA FreshName ==
  ASSUME NEW v, NEW type, NEW n \in Fresh(v, type)
  PROVE  n \in Names
BY DEF Fresh

LEMMA RbdFits ==
  ASSUME IInv, NEW v \in Volumes,
         \/ RbdProvision(v) \/ RbdParse(v) \/ CreateImage(v)
         \/ RbdDelete(v) \/ RbdStatus(v) \/ DeleteImage(v)
  PROVE  IInv'
<1>1. /\ kind = "rbd" /\ Makes(kind) = {"volume"}
      /\ kind \notin Plain \cup Fixed \cup CloudCopies /\ kind # "glusterfs"
  BY DEF RbdProvision, RbdParse, CreateImage, RbdDelete, RbdStatus, DeleteImage, At,
         Makes, CephKinds, FileKinds, BlockKinds, Plain, Fixed, CloudCopies
<1>2. CASE RbdProvision(v) \/ RbdParse(v)
  BY <1>2, CheckFits DEF RbdProvision, RbdParse, At, Making
<1>3. CASE CreateImage(v)
  <2>1. PICK n \in Fresh(v, "volume") : Create(v, Asset("volume", v, n), "done", "error")
    BY <1>3 DEF CreateImage
  <2>2. n \in Names \cup Luns
    BY FreshName
  <2>3. Asset("volume", v, n) \in Own(kind, v) /\ Asset("volume", v, n).type = "volume"
    BY <1>1, <2>2, AssetTyped DEF Own, Types
  <2> QED
    BY <1>1, <1>3, <2>1, <2>3, CreateFits DEF CreateImage, At, Making
<1>. SUFFICES ASSUME RbdDelete(v) \/ RbdStatus(v) \/ DeleteImage(v)
              PROVE  IInv'
  BY <1>2, <1>3
<1>4. call[v].task \in {"cleanup", "delete"}
  BY Now DEF RbdDelete, RbdStatus, DeleteImage, At, Removing, Undoing
<1>5. \A type : "status" \notin Gone(kind, type) /\ "rm" \notin Gone(kind, type)
  BY <1>1 DEF Gone, FileKinds
<1>6. CASE RbdDelete(v)
  BY <1>1, <1>4, <1>5, <1>6, LookFits DEF RbdDelete, Removing
<1>7. CASE RbdStatus(v)
  <2>1. Refuse(v, "error") => IInv'
    BY <1>1, <1>4, RefuseFits
  <2>2. CASE Watcher(v) \notin has /\ Ask(v, "rm", "error")
    <3>1. ~ \E a \in has : a.type = "watch" /\ a.of = v
      <4>1. \A a \in has : a.type = "watch" /\ a.of = v => a.n = 0
        BY <1>1, Now DEF Fits, WhileUsed
      <4>2. \A a \in has : a = Asset(a.type, a.of, a.n)
        BY Now DEF Assets, Asset
      <4> QED
        BY <2>2, <4>1, <4>2 DEF Watcher
    <3> QED
      BY <1>1, <1>4, <1>5, <2>2, <3>1, LookFits DEF Removing
  <2> QED
    BY <1>7, <2>1, <2>2 DEF RbdStatus
<1>8. CASE DeleteImage(v)
  <2>1. \A a \in Named(v) : a.of = v
    BY <1>1, <1>4, NamedIsOwn DEF Own, Asset
  <2>2. ~ \E a \in has : a.type = "watch" /\ a.of = v
    BY <1>4, <1>8, NotInUse DEF DeleteImage, At
  <2>3. call[v].task = "delete" => pv[v] \ Named(v) = {}
    BY DEF Named
  <2> QED
    BY <1>1, <1>4, <1>8, <2>1, <2>2, <2>3, RemoveFits DEF DeleteImage
<1> QED
  BY <1>6, <1>7, <1>8

LEMMA CephFSFits ==
  ASSUME IInv, NEW v \in Volumes,
         \/ CephProvision(v) \/ CreateShare(v) \/ AuthorizeCeph(v) \/ CreateSecret(v)
         \/ CephDelete(v) \/ Deauthorize(v) \/ DeleteShare(v) \/ DeleteSecret(v)
  PROVE  IInv'
<1>1. /\ kind \in CephKinds /\ Makes(kind) = {"volume", "user", "secret"}
      /\ kind \notin Plain \cup CloudCopies \cup FileKinds /\ kind # "glusterfs" /\ kind # "rbd"
      /\ kind \notin Watched
  BY DEF CephProvision, CreateShare, AuthorizeCeph, CreateSecret, CephDelete, Deauthorize,
         DeleteShare, DeleteSecret, InCeph,
         Makes, CephKinds, FileKinds, BlockKinds, Plain, CloudCopies, Watched
<1>2. ASSUME NEW type \in {"volume", "user", "secret"}
      PROVE  Asset(type, Owner(v), call[v].n) \in Own(kind, v)
  <2>1. call[v].n \in Names \cup Luns
    BY Now DEF Calls
  <2>2. Owner(v) \in Volumes \cup ClaimNames
    BY NameOfClaim, Now DEF Owner
  <2>3. IF kind \in Fixed THEN Owner(v) \notin Volumes ELSE Owner(v) = v
    BY <1>1, NameOfClaim, Now DEF Owner, Fixed, CephKinds
  <2> QED
    BY <1>1, <2>1, <2>2, <2>3, AssetTyped DEF Own, Types
<1>3. CASE CephProvision(v)
  <2>1. call[v].pc = "provision" /\ call[v].task = "provision" /\ call[v].task # "none"
    BY <1>3, Now DEF CephProvision, InCeph, Making
  <2>2. CASE parseParameters(v)
    <3>1. CASE Refuse(v, "error")
      BY <1>1, <2>1, <3>1, RefuseFits
    <3>2. CASE Fault(v) /\ Goto(v, "error") /\ UNCHANGED <<has, apiVars>>
      BY <2>1, <3>2, FaultFits
    <3> QED
      BY <2>2, <3>1, <3>2 DEF parseParameters, LookupFails
  <2>3. CASE /\ \E n \in IF kind = "cephfs" THEN Fresh(v, "volume") ELSE {0} :
                  call' = [call EXCEPT ![v].pc = "share", ![v].n = n]
             /\ NoFault
             /\ UNCHANGED <<has, apiVars>>
    <3>1. PICK n \in Names : call' = [call EXCEPT ![v].pc = "share", ![v].n = n]
      BY <2>3, SmallNames, FreshName
    <3>2. /\ "share" \in Pcs
          /\ call' \in [Volumes -> Calls]
          /\ call'[v].task = call[v].task /\ call'[v].pc = "share" /\ call'[v].made = call[v].made
          /\ \A u \in Volumes \ {v} : call'[u] = call[u]
      <4>1. [call[v] EXCEPT !.pc = "share", !.n = n] \in Calls
        BY Now DEF Calls, Making
      <4>2. call \in [Volumes -> Calls]
        BY Now DEF TypeOK
      <4> QED
        BY <3>1, <4>1, <4>2, Now DEF Calls, Pcs, Making
    <3>3. UNCHANGED <<has, kind, claim, class, phase, pv, crashes, edits>> /\ memory' \subseteq Volumes
      BY <2>3, Now DEF apiVars, fixedVars, TypeOK
    <3>4. Fits(kind, v, failures'[v], edits, phase[v], pv[v], call[v].task, "share", call[v].made, has)
      BY <1>1, <2>1, <2>3, OnwardFits DEF Making, NoFault
    <3> QED
      BY <2>1, <2>3, <3>2, <3>3, <3>4, GoFits
  <2> QED
    BY <1>3, <2>2, <2>3 DEF CephProvision
<1>4. CASE CreateShare(v)
  BY <1>1, <1>2, <1>4, EnsureFits DEF CreateShare, InCeph, Share, Making
<1>5. CASE AuthorizeCeph(v)
  BY <1>1, <1>2, <1>5, EnsureFits DEF AuthorizeCeph, InCeph, User, Making
<1>6. CASE CreateSecret(v)
  BY <1>1, <1>2, <1>6, CreateFits DEF CreateSecret, InCeph, Secret, Making
<1>. SUFFICES ASSUME CephDelete(v) \/ Deauthorize(v) \/ DeleteShare(v) \/ DeleteSecret(v)
              PROVE  IInv'
  BY <1>3, <1>4, <1>5, <1>6
<1>7. call[v].task \in {"cleanup", "delete"}
  BY Now DEF CephDelete, Deauthorize, DeleteShare, DeleteSecret, InCeph, Removing, Undoing
<1>8. ~ \E a \in has : a.type = "watch" /\ a.of = v
  BY <1>1, Now DEF Fits, WhileUsed
<1>9. CASE CephDelete(v)
  <2>1. \A type : "deauthorize" \notin Gone(kind, type)
    BY <1>1 DEF Gone
  <2> QED
    BY <1>1, <1>7, <1>8, <1>9, <2>1, LookFits DEF CephDelete, Removing, Fixed, CephKinds
<1>10. Refuse(v, "error") => IInv'
  BY <1>1, <1>7, RefuseFits
<1>11. kind = "cephfsFixed" => call[v].pc \in {"delete", "deauthorize", "error"}
  BY <1>7, Now DEF Fits, InPhase
<1>12. ASSUME kind = "cephfs", NEW type
       PROVE  \A a \in NamedOf(v, type) : a.of = v
  BY <1>1, <1>7, <1>12, NamedIsOwn DEF NamedOf, Own, Asset, Fixed
<1>13. CASE Deauthorize(v)
  <2>1. CASE kind = "cephfs" /\ RemoveIfThere(v, NamedOf(v, "user"), "remove", "remove")
    <3>. DEFINE takes == NamedOf(v, "user")
    <3>1. /\ failures[v] \in Nat /\ failures[v] + 1 \in Nat /\ failures[v] + 1 >= failures[v]
          /\ failures[v] + 1 # 0
      BY Now
    <3>2. Fits(kind, v, failures[v], edits, phase[v], pv[v],
               call[v].task, "remove", call[v].made, has \ takes)
      BY <1>1, <1>7, <1>8, <2>1, BackwardFits DEF Removing, Gone, NamedOf, Named
    <3>3. Fits(kind, v, failures[v], edits, phase[v], pv[v],
               call[v].task, call[v].pc, call[v].made, has)
      BY Now
    <3>4. ASSUME NEW h \in {has, has \ takes}
          PROVE  Fits(kind, v, failures[v] + 1, edits, phase[v], pv[v], call[v].task, "remove", call[v].made, h)
      <4>1. InPhase(kind, phase[v], call[v].task, "remove")
        BY <3>2 DEF Fits
      <4>2. WhileMade(kind, v, call[v].task, "remove", call[v].made, h)
        BY <1>7, <3>2 DEF Fits, WhileMade
      <4>3. WhileNamed(kind, v, failures[v] + 1, edits, phase[v], pv[v], call[v].task, "remove", h)
        <5>1. \A type \in {"volume", "secret"} : "remove" \notin Gone(kind, type)
          BY <1>1 DEF Gone
        <5>2. \A a \in Sure(failures[v] + 1, pv[v]) : a.type \in {"volume", "secret"}
          BY <1>1, <3>1, <3>3 DEF Sure, NotServices, Fits, WhileNamed, Own
        <5>3. phase[v] \in {"wanted", "released"}
          BY <1>7, <3>3 DEF Fits, InPhase
        <5> QED
          BY <3>3, <5>1, <5>2, <5>3 DEF Fits, WhileNamed
      <4>4. Running(kind, v, failures[v] + 1, edits, phase[v], pv[v], call[v].task, "remove", call[v].made, h)
        BY <1>1 DEF Running
      <4>5. WhileUsed(kind, v, phase[v], pv[v], call[v].task, "remove", call[v].made, h)
        BY <1>1, <1>8 DEF WhileUsed, CloudCopies
      <4> QED
        BY <4>1, <4>2, <4>3, <4>4, <4>5 DEF Fits
    <3>5. call[v].made \cup {} = call[v].made /\ (has \ takes) \cup {} = has \ takes
      OBVIOUS
    <3>6. /\ call[v].task # "none" /\ "remove" \in Pcs /\ kind \notin Fixed /\ {} \in SUBSET Assets
          /\ \A a \in {} \cup (takes \cap has) : a.of = v \/ a.of \notin Volumes
          /\ Request(v, {}, takes, "remove", "remove")
      BY <1>7, <1>12, <2>1 DEF Pcs, Removing, Fixed, RemoveIfThere
    <3>7. Fits(kind, v, failures[v], edits, phase[v], pv[v],
               call[v].task, "remove", call[v].made \cup {}, (has \ takes) \cup {})
      BY <3>2, <3>5
    <3>8. \A h \in {has, (has \ takes) \cup {}} :
            Fits(kind, v, failures[v] + 1, edits, phase[v], pv[v], call[v].task, "remove", call[v].made, h)
      BY <3>4, <3>5
    <3>. HIDE DEF takes
    <3> QED
      BY <1>8, <3>6, <3>7, <3>8, RequestFits
  <2>2. CASE LookupFails(v)
    BY <1>7, <2>2, FaultFits DEF LookupFails
  <2> QED
    BY <1>10, <1>13, <2>1, <2>2 DEF Deauthorize, Found
<1>14. CASE DeleteShare(v)
  <2>1. kind = "cephfs" /\ call[v].pc = "remove"
    BY <1>1, <1>11, <1>14 DEF DeleteShare, InCeph, CephKinds
  <2> QED
    BY <1>1, <1>7, <1>8, <1>12, <1>14, <2>1, RemoveFits DEF DeleteShare, Removing, Fixed, Gone, NamedOf, Named
<1>15. CASE DeleteSecret(v)
  <2>1. kind = "cephfs" /\ call[v].pc = "unsecret"
    BY <1>1, <1>11, <1>15 DEF DeleteSecret, InCeph, CephKinds
  <2> QED
    BY <1>1, <1>7, <1>8, <1>12, <1>15, <2>1, RemoveFits DEF DeleteSecret, Removing, Fixed, Gone, NamedOf, Named
<1> QED
  BY <1>9, <1>13, <1>14, <1>15
-----------------------------------------------------------------------------
(* Flex, DigitalOcean, OpenEBS.                                            *)

(* A process that dies takes all calls with it.                            *)
LEMMA DieFits ==
  ASSUME IInv, NEW after, after \subseteq has, Die(after),
         \/ after = has
         \/ \E v \in Volumes :
              /\ kind = "flex" /\ phase[v] # "bound"
              /\ \A a \in has \ after : a.of = v
  PROVE  IInv'
<1>1. TypeOK /\ \A u \in Volumes : FitsNow(u)
  BY DEF IInv
<1>2. /\ UNCHANGED <<kind, claim, class, phase, pv, memory, faults, edits>>
      /\ has' = {a \in after : a.type = "gid" => a \in AllNamed}
      /\ call' = [v \in Volumes |-> Idle]
      /\ failures' = [v \in Volumes |-> failures[v] + IF call[v].task = "none" THEN 0 ELSE 1]
      /\ crashes' = crashes + 1 /\ crashes < MaxCrashes
  BY DEF Die, MayGoWrong, fixedVars
<1>3. /\ failures' \in [Volumes -> Nat]
      /\ \A u \in Volumes :
           /\ failures'[u] >= failures[u]
           /\ call[u].task # "none" => failures'[u] > 0
  BY <1>1, <1>2 DEF TypeOK
<1>4. TypeOK'
  <2>1. call' \in [Volumes -> Calls] /\ \A u \in Volumes : call'[u] = Idle
    BY <1>2, IdleTyped
  <2>2. \A u \in Volumes : (call'[u].task = "none") = (call'[u] = Idle)
    BY <2>1, IdleTyped
  <2>3. crashes' \in 0 .. MaxCrashes
    BY <1>1, <1>2, CallsAssumption DEF TypeOK
  <2>4. has' \subseteq Assets
    BY <1>1, <1>2 DEF TypeOK
  <2> QED
    BY <1>1, <1>2, <1>3, <2>1, <2>2, <2>3, <2>4 DEF TypeOK
<1>5. ASSUME NEW u \in Volumes
      PROVE  FitsNow(u)'
  <2>1. Fits(kind, u, failures[u], edits, phase[u], pv[u],
             call[u].task, call[u].pc, call[u].made, has)
    BY <1>1 DEF FitsNow
  <2>2. /\ failures[u] \in Nat /\ failures'[u] \in Nat /\ edits \in Nat
        /\ failures'[u] >= failures[u]
        /\ failures'[u] = 0 => call[u].task = "none" /\ call[u].pc = "out"
    <3>1. call[u].task # "none" \/ call[u] = Idle
      BY <1>1 DEF TypeOK
    <3> QED
      BY <1>1, <1>3, <3>1, IdleTyped DEF TypeOK
  <2>3. PICK g \in Nat : g = failures'[u]
    BY <2>2
  <2>4. PICK h : h = has'
    OBVIOUS
  <2>5. /\ h \subseteq has
        /\ phase[u] = "bound" => NotServices(pv[u]) \cap has \subseteq h
        /\ kind # "flex" => \A a \in has : a.type # "gid" => a \in h
    <3>1. phase[u] = "bound" => pv[u] \subseteq AllNamed
      BY DEF AllNamed
    <3>2. phase[u] = "bound" /\ kind = "flex" => \A a \in pv[u] : a.of = u
      BY <2>1 DEF Fits, WhileNamed, Sure, Own, Fixed, Makes, CephKinds, FileKinds, BlockKinds
    <3>3. phase[u] = "bound" => NotServices(pv[u]) \cap has \subseteq after
      <4>1. CASE after = has
        BY <4>1
      <4>2. CASE \E v \in Volumes :
                   /\ kind = "flex" /\ phase[v] # "bound"
                   /\ \A a \in has \ after : a.of = v
        BY <3>2, <4>2 DEF NotServices
      <4> QED
        BY <4>1, <4>2
    <3>4. kind # "flex" => after = has
      OBVIOUS
    <3> QED
      BY <1>2, <2>4, <3>1, <3>3, <3>4 DEF NotServices
  <2>6. InPhase(kind, phase[u], "none", "out")
    BY <2>1 DEF Fits, InPhase
  <2>7. WhileMade(kind, u, "none", "out", {}, h)
    BY DEF WhileMade
  <2>8. WhileNamed(kind, u, g, edits, phase[u], pv[u], "none", "out", h)
    <3>1. Logged(kind, failures[u], edits) => Logged(kind, g, edits)
      BY <2>2, <2>3 DEF Logged
    <3>2. Sure(g, pv[u]) \subseteq Sure(failures[u], pv[u])
      BY <2>2, <2>3 DEF Sure
    <3> QED
      BY <2>1, <2>5, <3>1, <3>2 DEF Fits, WhileNamed
  <2>9. Running(kind, u, g, edits, phase[u], pv[u], "none", "out", {}, h)
    <3>1. Started(u).type = "started"
      BY DEF Started, Asset
    <3> QED
      BY <2>1, <2>2, <2>3, <2>5, <3>1 DEF Fits, Running
  <2>10. WhileUsed(kind, u, phase[u], pv[u], "none", "out", {}, h)
    BY <2>1, <2>5 DEF Fits, WhileUsed, Watched, CloudCopies
  <2>11. Fits(kind, u, g, edits, phase[u], pv[u], "none", "out", {}, h)
    BY <2>6, <2>7, <2>8, <2>9, <2>10 DEF Fits
  <2>12. call'[u] = Idle
    BY <1>2
  <2> QED
    BY <1>2, <2>3, <2>4, <2>11, <2>12, IdleTyped DEF FitsNow
<1> QED
  BY <1>2, <1>4, <1>5 DEF IInv

LEMMA FlexFits ==
  ASSUME IInv, NEW v \in Volumes, FlexProvision(v) \/ FlexDelete(v)
  PROVE  IInv'
<1>. DEFINE only == {PluginVolume(v)}
<1>1. /\ kind = "flex" /\ Makes(kind) = {"volume"} /\ kind \in Plain
      /\ kind \notin Fixed /\ kind # "glusterfs" /\ kind \notin {"rbd"} \cup CloudCopies
      /\ kind \notin Watched
  BY DEF FlexProvision, FlexDelete, At, Makes, CephKinds, FileKinds, BlockKinds, Plain, Fixed,
         CloudCopies, Watched
<1>2. only \in SUBSET Own(kind, v) /\ pv[v] \ only = {} /\ \A a \in only : a.of = v
  BY <1>1, DirectoryIsOwn, PlainPV DEF PluginVolume, Asset
<1>. HIDE DEF only
<1>3. CASE FlexProvision(v)
  BY <1>1, <1>2, <1>3, EnsureFits DEF FlexProvision, At, Making, only
<1>4. CASE FlexDelete(v)
  <2>1. call[v].task \in {"cleanup", "delete"}
    BY <1>4, Now DEF FlexDelete, At, Removing, Undoing
  <2>2. CASE has' = has \ only /\ Goto(v, "done") /\ NoFault /\ UNCHANGED apiVars
    <3>1. [call[v] EXCEPT !.pc = "done"] = [call[v] EXCEPT !.pc = "done", !.made = @ \cup {}]
      BY Now DEF Calls
    <3>2. [call EXCEPT ![v].pc = "done"] = [call EXCEPT ![v].pc = "done", ![v].made = @ \cup {}]
      BY <3>1, Now DEF TypeOK
    <3>3. has \ only = (has \ only) \cup {}
      OBVIOUS
    <3>4. Request(v, {}, only, "done", "error")
      BY <2>2, <3>2, <3>3 DEF Request, Goto
    <3>5. ~ \E a \in has : a.type = "watch" /\ a.of = v
      BY <1>1, Now DEF Fits, WhileUsed
    <3> QED
      BY <1>1, <1>2, <2>1, <3>4, <3>5, RemoveFits DEF RemoveIfThere
  <2>3. ASSUME NEW after \in {has, has \ only}, Die(after)
        PROVE  IInv'
    <3>1. phase[v] # "bound"
      BY <2>1, Now DEF Fits, InPhase
    <3> QED
      BY <1>1, <1>2, <2>3, <3>1, DieFits
  <2> QED
    BY <1>4, <2>2, <2>3 DEF FlexDelete, only
<1> QED
  BY <1>3, <1>4

LEMMA DigitalOceanFits ==
  ASSUME IInv, NEW v \in Volumes,
         DigitalOceanProvision(v) \/ DigitalOceanCreate(v) \/ DigitalOceanDelete(v)
  PROVE  IInv'
<1>. DEFINE only == {PluginVolume(v)}
<1>1. /\ kind = "digitalocean" /\ Makes(kind) = {"volume"} /\ kind \in Plain
      /\ kind \notin Fixed /\ kind # "glusterfs" /\ kind \notin {"rbd"} \cup CloudCopies
  BY DEF DigitalOceanProvision, DigitalOceanCreate, DigitalOceanDelete, At,
         Makes, CephKinds, FileKinds, BlockKinds, Plain, Fixed, CloudCopies
<1>2. /\ only \in SUBSET Own(kind, v) /\ pv[v] \ only = {} /\ \A a \in only : a.of = v
      /\ PluginVolume(v) \in Own(kind, v)
  BY <1>1, DirectoryIsOwn, PlainPV DEF PluginVolume, Asset
<1>. HIDE DEF only
<1>3. CASE DigitalOceanProvision(v)
  BY <1>3, CheckFits DEF DigitalOceanProvision, At, Making
<1>4. CASE DigitalOceanCreate(v)
  <2>1. call[v].pc \in Making /\ call[v].task = "provision"
    BY <1>4, Now DEF DigitalOceanCreate, At, Making
  <2>2. Refuse(v, "error") => IInv'
    BY <1>1, <2>1, RefuseFits
  <2> QED
    BY <1>1, <1>2, <1>4, <2>1, <2>2, CreateFits DEF DigitalOceanCreate
<1>5. CASE DigitalOceanDelete(v)
  <2>1. call[v].task \in {"cleanup", "delete"}
    BY <1>5, Now DEF DigitalOceanDelete, At, Removing, Undoing
  <2>2. CASE Refuse(v, "error")
    BY <1>1, <2>1, <2>2, RefuseFits
  <2>3. CASE Attached(v) = {} /\ Remove(v, only, "done", "error")
    <3>1. ~ \E a \in has : a.type = "watch" /\ a.of = v
      <4>1. \A a \in has : a.type = "watch" /\ a.of = v => a.n \in Droplets
        BY <1>1, Now DEF Fits, WhileUsed
      <4>2. \A a \in has : a = Asset(a.type, a.of, a.n)
        BY Now DEF Assets, Asset
      <4> QED
        BY <2>3, <4>1, <4>2 DEF Attached, Attachment
    <3> QED
      BY <1>1, <1>2, <2>1, <2>3, <3>1, RemoveFits
  <2> QED
    BY <1>5, <2>2, <2>3 DEF DigitalOceanDelete, only
<1> QED
  BY <1>3, <1>4, <1>5

LEMMA OpenEBSFits ==
  ASSUME IInv, NEW v \in Volumes,
         OpenEBSProvision(v) \/ OpenEBSCreate(v) \/ OpenEBSRead(v) \/ OpenEBSDelete(v)
  PROVE  IInv'
<1>. DEFINE only == {PluginVolume(v)}
<1>1. /\ kind = "openebs" /\ Makes(kind) = {"volume"} /\ kind \in Plain
      /\ kind \notin Fixed /\ kind # "glusterfs" /\ kind \notin {"rbd"} \cup CloudCopies
      /\ kind \notin Watched
  BY DEF OpenEBSProvision, OpenEBSCreate, OpenEBSRead, OpenEBSDelete, At,
         Makes, CephKinds, FileKinds, BlockKinds, Plain, Fixed, CloudCopies, Watched
<1>2. /\ only \in SUBSET Own(kind, v) /\ pv[v] \ only = {} /\ \A a \in only : a.of = v
  BY <1>1, DirectoryIsOwn, PlainPV DEF PluginVolume, Asset
<1>. HIDE DEF only
<1>3. ASSUME call[v].pc \in {"provision", "read"}, ReadBack(v)
      PROVE  IInv'
  <2>1. call[v].pc \in Making /\ call[v].task = "provision"
    BY <1>3, Now DEF Making
  <2>2. CASE Ask(v, "error", "error")
    <3>1. Fits(kind, v, failures[v], edits, phase[v], pv[v], call[v].task, "error", call[v].made, has)
      <4>1. failures[v] >= failures[v] /\ call[v].task \in Tasks \ {"none"}
        BY <2>1, Now DEF Tasks
      <4> QED
        BY <1>1, <4>1, Now, ErrorFits
    <3> QED
      BY <2>1, <2>2, <3>1, AskFits DEF Pcs
  <2>3. CASE Ensure(v, only \cap has, "done", "error")
    <3>1. only \cap has \in SUBSET Own(kind, v)
      BY <1>2
    <3> QED
      BY <1>1, <2>1, <2>3, <3>1, EnsureFits
  <2> QED
    BY <1>3, <2>2, <2>3 DEF ReadBack, only
<1>4. CASE OpenEBSProvision(v)
  <2>1. Ask(v, "create", "error") => IInv'
    BY <1>1, <1>4, OnwardFits DEF OpenEBSProvision, At, Making
  <2> QED
    BY <1>3, <1>4, <2>1 DEF OpenEBSProvision, At
<1>5. CASE OpenEBSCreate(v)
  BY <1>1, <1>2, <1>5, EnsureFits DEF OpenEBSCreate, At, Making, only
<1>6. CASE OpenEBSRead(v)
  BY <1>3, <1>6 DEF OpenEBSRead, At
<1>7. CASE OpenEBSDelete(v)
  <2>1. call[v].task \in {"cleanup", "delete"}
    BY <1>7, Now DEF OpenEBSDelete, At, Removing, Undoing
  <2>2. ~ \E a \in has : a.type = "watch" /\ a.of = v
    BY <1>1, Now DEF Fits, WhileUsed
  <2> QED
    BY <1>1, <1>2, <1>7, <2>1, <2>2, RemoveFits DEF OpenEBSDelete, only
<1> QED
  BY <1>4, <1>5, <1>6, <1>7

LEMMA PluginsFit ==
  ASSUME IInv, NEW v \in Volumes, Plugins(v)
  PROVE  IInv'
BY FlexFits, DigitalOceanFits, OpenEBSFits DEF Plugins
-----------------------------------------------------------------------------
(* targetd.                                                                *)

LEMMA TargetdFits ==
  ASSUME IInv, NEW v \in Volumes, Targetd(v)
  PROVE  IInv'
<1>1. /\ kind = "targetd" /\ Makes(kind) = {"volume", "export"} /\ kind \in Plain
      /\ kind \notin Fixed /\ kind # "glusterfs" /\ kind \notin {"rbd"} \cup CloudCopies
      /\ kind \notin Watched
  BY DEF Targetd, TargetdProvision, FirstAvailableLun, VolCreate, ExportCreate, SetInitiatorAuth,
         TargetdDelete, VolDestroy, At,
         Makes, CephKinds, FileKinds, BlockKinds, Plain, Fixed, CloudCopies, Watched
<1>2. /\ LogicalVolume(v) \in Own(kind, v) /\ LogicalVolume(v).type = "volume" /\ LogicalVolume(v).of = v
      /\ \A a \in Own(kind, v) : a.type = "volume" => a = LogicalVolume(v)
  BY <1>1, DirectoryIsOwn DEF LogicalVolume, Asset
<1>3. ~ \E a \in has : a.type = "watch" /\ a.of = v
  BY <1>1, Now DEF Fits, WhileUsed
<1>4. CASE TargetdProvision(v)
  BY <1>4, CheckFits DEF TargetdProvision, At, Making
<1>5. CASE FirstAvailableLun(v)
  <2>1. call[v].pc \in Making /\ call[v].task = "provision"
    BY <1>5, Now DEF FirstAvailableLun, At, Making
  <2>2. Refuse(v, "error") => IInv'
    BY <1>1, <2>1, RefuseFits
  <2>3. Fault(v) /\ Goto(v, "error") /\ UNCHANGED <<has, apiVars>> => IInv'
    BY <2>1, FaultFits
  <2>4. ASSUME NEW l \in FreeLuns, call' = [call EXCEPT ![v].pc = "create", ![v].lun = l],
               NoFault, UNCHANGED <<has, apiVars>>
        PROVE  IInv'
    <3>1. /\ "create" \in Pcs
          /\ call' \in [Volumes -> Calls]
          /\ call'[v].task = call[v].task /\ call'[v].pc = "create" /\ call'[v].made = call[v].made
          /\ \A u \in Volumes \ {v} : call'[u] = call[u]
      <4>1. [call[v] EXCEPT !.pc = "create", !.lun = l] \in Calls
        BY <2>4, Now DEF Calls, Making, FreeLuns
      <4>2. call \in [Volumes -> Calls]
        BY Now DEF TypeOK
      <4> QED
        BY <2>4, <4>1, <4>2, Now DEF Calls, Pcs, Making
    <3>2. UNCHANGED <<has, kind, claim, class, phase, pv, crashes, edits>> /\ memory' \subseteq Volumes
      BY <2>4, Now DEF apiVars, fixedVars, TypeOK
    <3>3. Fits(kind, v, failures'[v], edits, phase[v], pv[v], call[v].task, "create", call[v].made, has)
      BY <1>1, <2>1, <2>4, OnwardFits DEF Making, NoFault
    <3> QED
      BY <2>1, <2>4, <3>1, <3>2, <3>3, GoFits
  <2> QED
    BY <1>5, <2>2, <2>3, <2>4 DEF FirstAvailableLun
<1>6. CASE VolCreate(v)
  BY <1>1, <1>2, <1>6, CreateFits DEF VolCreate, At, Making
<1>7. CASE ExportCreate(v)
  <2>1. call[v].pc \in Making /\ call[v].task = "provision"
    BY <1>7, Now DEF ExportCreate, At, Making
  <2>2. CASE /\ call[v].lun \in FreeLuns
             /\ Request(v, {Asset("export", v, call[v].lun)}, {}, "auth", "error")
    <3>1. call[v].lun \in Names \cup Luns
      BY <2>2 DEF FreeLuns
    <3>2. Asset("export", v, call[v].lun) \in Own(kind, v)
      BY <1>1, <3>1, AssetTyped DEF Own, Types
    <3> QED
      BY <1>1, <2>1, <2>2, <3>2, EnsureFits DEF Ensure, Making
  <2>3. CASE /\ failures' = [failures EXCEPT ![v] = @ + 1]
             /\ Goto(v, "error")
             /\ UNCHANGED <<has, apiVars, faults>>
    <3>1. UNCHANGED <<has, kind, claim, class, phase, pv, crashes, edits>> /\ memory' \subseteq Volumes
      BY <2>3, Now DEF apiVars, fixedVars, TypeOK
    <3>2. /\ "error" \in Pcs
          /\ call' \in [Volumes -> Calls]
          /\ call'[v].task = call[v].task /\ call'[v].pc = "error" /\ call'[v].made = call[v].made
          /\ \A u \in Volumes \ {v} : call'[u] = call[u]
      BY <2>3, Going, Now DEF Pcs
    <3> QED
      BY <1>1, <2>1, <2>3, <3>1, <3>2, GoFits
  <2> QED
    BY <1>7, <2>2, <2>3 DEF ExportCreate
<1>8. CASE SetInitiatorAuth(v)
  BY <1>1, <1>8, OnwardFits DEF SetInitiatorAuth, At, Making
<1>9. CASE TargetdDelete(v)
  <2>1. call[v].task \in {"cleanup", "delete"}
    BY <1>9, Now DEF TargetdDelete, At, Removing, Undoing
  <2>2. \A a \in NamedOf(v, "export") : a.of = v
    BY <1>1, <2>1, NamedIsOwn DEF NamedOf, Own, Asset
  <2>3. "destroy" \notin Gone(kind, "volume") /\ (call[v].task = "delete" => Named(v) = pv[v])
    BY DEF Gone, Named
  <2> QED
    BY <1>1, <1>3, <1>9, <2>1, <2>2, <2>3, RemoveFits DEF TargetdDelete, Removing, NamedOf
<1>10. CASE VolDestroy(v)
  <2>1. call[v].task \in {"cleanup", "delete"} /\ call[v].pc = "destroy"
    BY <1>10, Now DEF VolDestroy, At, Removing, Undoing
  <2>2. "destroy" \in Gone(kind, "export")
    BY DEF Gone
  <2>3. \A a \in pv[v] : a.type = "volume" => a = LogicalVolume(v)
    BY <1>2, Now DEF Fits, WhileNamed, Sure
  <2> QED
    BY <1>1, <1>2, <1>3, <1>10, <2>1, <2>2, <2>3, RemoveFits DEF VolDestroy
<1> QED
  BY <1>4, <1>5, <1>6, <1>7, <1>8, <1>9, <1>10 DEF Targetd
-----------------------------------------------------------------------------
(* GlusterFS: what goes backward in Provision, or on after an error.       *)

LEMMA MoreFailuresFit ==
  ASSUME NEW v \in Volumes, NEW k, NEW f \in Nat, NEW g \in Nat, NEW e \in Nat, g >= f,
         NEW ph, NEW p, NEW task, NEW pc, NEW made, NEW h,
         Fits(k, v, f, e, ph, p, task, pc, made, h)
  PROVE  Fits(k, v, g, e, ph, p, task, pc, made, h)
<1>1. Logged(k, f, e) => Logged(k, g, e)
  BY DEF Logged
<1>2. WhileNamed(k, v, g, e, ph, p, task, pc, h)
  BY <1>1 DEF Fits, WhileNamed, Sure
<1>3. Running(k, v, g, e, ph, p, task, pc, made, h)
  BY DEF Fits, Running
<1> QED
  BY <1>2, <1>3 DEF Fits

LEMMA UndoFits ==
  ASSUME IInv, NEW v \in Volumes, call[v].task = "provision",
         NEW pc \in Undoing \cup {"error"},
         pc \in {"stop", "rmvolume", "rmbricks", "rmservice"} => kind = "glusterfs",
         NEW g \in Nat, g >= failures[v], NEW h, \A a \in h \ has : a.type # "watch"
  PROVE  Fits(kind, v, g, edits, phase[v], pv[v], call[v].task, pc, call[v].made, h)
<1>1. /\ Fits(kind, v, failures[v], edits, phase[v], pv[v],
              call[v].task, call[v].pc, call[v].made, has)
      /\ phase[v] = "wanted"
  BY Now DEF Fits, InPhase
<1>2. InPhase(kind, phase[v], call[v].task, pc)
  BY <1>1 DEF Fits, InPhase
<1>3. WhileMade(kind, v, call[v].task, pc, call[v].made, h)
  BY <1>1 DEF Fits, WhileMade, Making, Undoing
<1>4. WhileNamed(kind, v, g, edits, phase[v], pv[v], call[v].task, pc, h)
  BY <1>1 DEF Fits, WhileNamed, Sure
<1>5. Running(kind, v, g, edits, phase[v], pv[v], call[v].task, pc, call[v].made, h)
  BY <1>1 DEF Running, Undoing
<1>6. WhileUsed(kind, v, phase[v], pv[v], call[v].task, pc, call[v].made, h)
  BY <1>1 DEF Fits, WhileUsed, Undoing
<1> QED
  BY <1>2, <1>3, <1>4, <1>5, <1>6 DEF Fits

(* A step of Provision that is undone if it fails.                         *)
LEMMA EnsureOrUndoFits ==
  ASSUME IInv, NEW v \in Volumes, call[v].pc \in Making,
         NEW ok \in Making \cup {"done"}, NEW adds \in SUBSET Own(kind, v),
         kind = "glusterfs" /\ ok \in {"service", "done"} => Started(v) \in call[v].made \cup adds,
         kind \in {"rbd"} \cup CloudCopies /\ ok \in {"done", "tag"} =>
           \E a \in call[v].made \cup adds : a.type = "volume",
         NEW error \in Undoing \cup {"error"},
         error \in {"stop", "rmvolume", "rmbricks", "rmservice"} => kind = "glusterfs",
         Request(v, adds, {}, ok, error) \/ Refuse(v, error)
  PROVE  IInv'
<1>1. call[v].task = "provision" /\ failures[v] \in Nat /\ failures[v] >= failures[v] /\ ok \in Pcs /\ error \in Pcs
  BY Now DEF Pcs
<1>2. /\ adds \in SUBSET Assets /\ \A a \in adds : (a.of = v \/ a.of \notin Volumes) /\ a.type # "watch"
  BY DEF Own, Makes, CephKinds, FileKinds, BlockKinds
<1>3. CASE Refuse(v, error)
  <2>1. Fits(kind, v, failures[v], edits, phase[v], pv[v], call[v].task, error, call[v].made, has)
    BY <1>1, UndoFits
  <2> QED
    BY <1>1, <1>3, <2>1, MoveFits DEF Refuse
<1>4. CASE Request(v, adds, {}, ok, error)
  <2>1. Fits(kind, v, failures[v], edits, phase[v], pv[v],
             call[v].task, ok, call[v].made \cup adds, (has \ {}) \cup adds)
    <3>1. (has \ {}) \cup adds = has \cup adds
      OBVIOUS
    <3>2. Fits(kind, v, failures[v], edits, phase[v], pv[v],
               call[v].task, ok, call[v].made \cup adds, has \cup adds)
      BY ForwardFits
    <3> QED
      BY <3>1, <3>2
  <2>2. \A h \in {has, (has \ {}) \cup adds} :
          Fits(kind, v, failures[v] + 1, edits, phase[v], pv[v], call[v].task, error, call[v].made, h)
    <3>1. failures[v] + 1 \in Nat /\ failures[v] + 1 >= failures[v]
      BY <1>1
    <3>2. \A h \in {has, (has \ {}) \cup adds} : \A a \in h \ has : a.type # "watch"
      BY <1>2
    <3> QED
      BY <1>1, <3>1, <3>2, UndoFits
  <2> QED
    BY <1>1, <1>2, <1>4, <2>1, <2>2, RequestFits
<1> QED
  BY <1>3, <1>4

LEMMA TakeGidFits ==
  ASSUME IInv, NEW v \in Volumes, call[v].pc \in {"provision", "gid"}, kind \in FileKinds \cup {"glusterfs"},
         TakeGid(v, "parse")
  PROVE  IInv'
<1>1. /\ kind \notin Fixed \cup {"rbd"} \cup CloudCopies /\ "gid" \in Makes(kind)
      /\ call[v].pc \in Making
  BY DEF FileKinds, BlockKinds, Fixed, CloudCopies, Makes, CephKinds, Making
<1>2. CASE Refuse(v, "error")
  BY <1>1, <1>2, RefuseFits, Now
<1>3. ASSUME NEW n \in Fresh(v, "gid"), Ensure(v, {Asset("gid", v, n)}, "parse", "error")
      PROVE  IInv'
  <2>1. n \in Names \cup Luns
    BY FreshName
  <2>2. Asset("gid", v, n) \in Own(kind, v)
    BY <1>1, <2>1, AssetTyped DEF Own, Types
  <2> QED
    BY <1>1, <1>3, <2>2, EnsureFits DEF Making
<1> QED
  BY <1>2, <1>3 DEF TakeGid
-----------------------------------------------------------------------------
(* gluster/glusterfs.                                                      *)

LEMMA SimpleAssets ==
  ASSUME IInv, NEW v \in Volumes, kind = "glusterfs"
  PROVE  /\ Brick(v) \in Own(kind, v) /\ GlusterVolume(v) \in Own(kind, v)
         /\ Started(v) \in Own(kind, v) /\ Service(v) \in Own(kind, v)
         /\ Brick(v).of = v /\ GlusterVolume(v).of = v /\ Started(v).of = v /\ Service(v).of \notin Volumes
         /\ \A a \in pv[v] : /\ a.type = "brick" => a = Brick(v)
                             /\ a.type = "volume" => a = GlusterVolume(v)
                             /\ a.type = "started" => a = Started(v)
<1>1. /\ Makes(kind) = {"gid", "brick", "volume", "started", "service"}
      /\ kind \in Plain /\ kind \notin Fixed
  BY DEF Makes, CephKinds, FileKinds, BlockKinds, Plain, Fixed
<1>2. 0 \in Names \cup Luns /\ claim[v].name \in ClaimNames \ Volumes
  BY SmallNames, NameOfClaim, Now
<1>3. /\ Brick(v) \in Own(kind, v) /\ GlusterVolume(v) \in Own(kind, v)
      /\ Started(v) \in Own(kind, v) /\ Service(v) \in Own(kind, v)
      /\ Brick(v).of = v /\ GlusterVolume(v).of = v /\ Started(v).of = v /\ Service(v).of \notin Volumes
  BY <1>1, <1>2, AssetTyped DEF Own, Types, Brick, GlusterVolume, Started, Service
<1>4. pv[v] \subseteq Own(kind, v)
  BY Now DEF Fits, WhileNamed, Sure
<1>5. \A a \in Assets : a = Asset(a.type, a.of, a.n)
  BY DEF Assets, Asset
<1> QED
  BY <1>1, <1>3, <1>4, <1>5 DEF Own, Brick, GlusterVolume, Started

(* deleteVolume goes on in Delete, with whatever it could remove.          *)
SimpleSteps == {"rmvolume", "rmbricks", "rmservice", "release", "done"}

LEMMA SimpleBackwardFits ==
  ASSUME IInv, NEW v \in Volumes, kind = "glusterfs", call[v].task \in {"cleanup", "delete"},
         NEW ok \in SimpleSteps, NEW g \in Nat, g >= failures[v], NEW h \in SUBSET has,
         call[v].task = "delete" =>
           \/ Logged(kind, g, edits)
           \/ \A a \in NotServices(pv[v]) \cap h : ok \notin Gone(kind, a.type)
  PROVE  Fits(kind, v, g, edits, phase[v], pv[v], call[v].task, ok, call[v].made, h)
<1>1. /\ Fits(kind, v, failures[v], edits, phase[v], pv[v],
              call[v].task, call[v].pc, call[v].made, has)
      /\ phase[v] = IF call[v].task = "delete" THEN "released" ELSE "wanted"
  BY Now DEF Fits, InPhase
<1>2. InPhase(kind, phase[v], call[v].task, ok)
  BY <1>1 DEF Fits, InPhase, SimpleSteps, Removing
<1>3. WhileMade(kind, v, call[v].task, ok, call[v].made, h)
  BY <1>1 DEF Fits, WhileMade
<1>4. WhileNamed(kind, v, g, edits, phase[v], pv[v], call[v].task, ok, h)
  BY <1>1 DEF Fits, WhileNamed, Sure
<1>5. Running(kind, v, g, edits, phase[v], pv[v], call[v].task, ok, call[v].made, h)
  BY <1>1 DEF Running, SimpleSteps
<1>6. WhileUsed(kind, v, phase[v], pv[v], call[v].task, ok, call[v].made, h)
  BY <1>1 DEF Fits, WhileUsed, Watched, CloudCopies
<1> QED
  BY <1>2, <1>3, <1>4, <1>5, <1>6 DEF Fits

LEMMA SimpleRemoveFits ==
  ASSUME IInv, NEW v \in Volumes, kind = "glusterfs", call[v].task # "none",
         NEW ok, NEW error, NEW takes, \A a \in takes : a.of = v \/ a.of \notin Volumes,
         IF call[v].task = "provision"
           THEN {ok, error} \subseteq Undoing \cup {"error"}
           ELSE {ok, error} \subseteq SimpleSteps,
         call[v].task = "delete" /\ ~Logged(kind, failures[v], edits) =>
           /\ \A a \in NotServices(pv[v]) \cap (has \ takes) : ok \notin Gone(kind, a.type)
           /\ takes \cap has = {} =>
                \A a \in NotServices(pv[v]) \cap has : error \notin Gone(kind, a.type),
         Remove(v, takes, ok, error) \/ RemoveIfThere(v, takes, ok, error)
  PROVE  IInv'
<1>1. /\ failures[v] \in Nat /\ failures[v] + 1 \in Nat /\ failures[v] + 1 > 0 /\ failures[v] >= failures[v]
      /\ call[v].task \in {"provision", "cleanup", "delete"}
      /\ ok \in Pcs /\ error \in Pcs
      /\ call[v].made \cup {} = call[v].made /\ (has \ takes) \cup {} = has \ takes
      /\ {} \in SUBSET Assets /\ kind \notin Fixed
  BY Now DEF Tasks, Pcs, SimpleSteps, Removing, Calls, Fixed
<1>2. ~ \E a \in has : a.type = "watch" /\ a.of = v
  BY Now DEF Fits, WhileUsed, Watched, CloudCopies
<1>3. ASSUME NEW pc \in {ok, error}, NEW g \in {failures[v], failures[v] + 1}, NEW h \in {has, has \ takes},
             \/ g = failures[v] + 1
             \/ pc = ok /\ h = has \ takes
             \/ pc = error /\ takes \cap has = {}
      PROVE  Fits(kind, v, g, edits, phase[v], pv[v], call[v].task, pc, call[v].made, h)
  <2>1. g \in Nat /\ g >= failures[v] /\ h \in SUBSET has
    BY <1>1, <1>3
  <2>2. CASE call[v].task = "provision"
    BY <2>1, <2>2, UndoFits
  <2>3. CASE call[v].task # "provision"
    <3>1. g = failures[v] + 1 => Logged(kind, g, edits)
      BY <1>1 DEF Logged
    <3>2. pc \in SimpleSteps /\ call[v].task \in {"cleanup", "delete"}
      BY <1>1, <2>3
    <3>3. call[v].task = "delete" =>
            \/ Logged(kind, g, edits)
            \/ \A a \in NotServices(pv[v]) \cap h : pc \notin Gone(kind, a.type)
      BY <1>3, <3>1
    <3> QED
      BY <2>1, <3>2, <3>3, SimpleBackwardFits
  <2> QED
    BY <2>2, <2>3
<1>4. CASE Refuse(v, error) /\ takes \cap has = {}
  <2>1. Fits(kind, v, failures[v], edits, phase[v], pv[v], call[v].task, error, call[v].made, has)
    BY <1>3, <1>4
  <2> QED
    BY <1>1, <1>4, <2>1, MoveFits DEF Refuse
<1>5. CASE Request(v, {}, takes, ok, error)
  <2>1. Fits(kind, v, failures[v], edits, phase[v], pv[v],
             call[v].task, ok, call[v].made \cup {}, (has \ takes) \cup {})
    BY <1>1, <1>3
  <2>2. \A h \in {has, (has \ takes) \cup {}} :
          Fits(kind, v, failures[v] + 1, edits, phase[v], pv[v], call[v].task, error, call[v].made, h)
    BY <1>1, <1>3
  <2>3. \A a \in {} \cup (takes \cap has) : a.of = v \/ a.of \notin Volumes
    OBVIOUS
  <2> QED
    BY <1>1, <1>2, <1>5, <2>1, <2>2, <2>3, RequestFits
<1> QED
  BY <1>4, <1>5 DEF Remove, RemoveIfThere

LEMMA SimpleFits ==
  ASSUME IInv, NEW v \in Volumes,
         \/ SimpleProvision(v) \/ SimpleParse(v) \/ CreateBricks(v) \/ CreateGlusterVolume(v)
         \/ SimpleService(v) \/ SimpleDelete(v) \/ StopGlusterVolume(v) \/ DeleteGlusterVolume(v)
         \/ DeleteBricks(v) \/ SimpleDeleteService(v) \/ SimpleRelease(v)
  PROVE  IInv'
<1>1. /\ kind = "glusterfs" /\ kind \notin FileKinds \cup {"rbd"} \cup CloudCopies
      /\ \A a \in pv[v] : a.type \in {"gid", "brick", "volume", "started", "service"}
  <2>1. kind = "glusterfs"
    BY DEF SimpleProvision, SimpleParse, CreateBricks, CreateGlusterVolume, SimpleService,
           SimpleDelete, StopGlusterVolume, DeleteGlusterVolume, DeleteBricks, SimpleDeleteService,
           SimpleRelease, At
  <2>2. Makes(kind) = {"gid", "brick", "volume", "started", "service"}
    BY <2>1 DEF Makes, CephKinds, FileKinds, BlockKinds
  <2>3. pv[v] \subseteq Own(kind, v)
    BY Now DEF Fits, WhileNamed, Sure
  <2> QED
    BY <2>1, <2>2, <2>3 DEF Own, FileKinds, CloudCopies
<1>2. CASE SimpleProvision(v)
  BY <1>1, <1>2, TakeGidFits DEF SimpleProvision, At
<1>3. CASE SimpleParse(v)
  BY <1>3, CheckFits DEF SimpleParse, At, Making
<1>4. CASE CreateBricks(v)
  BY <1>1, <1>4, SimpleAssets, EnsureOrUndoFits DEF CreateBricks, Ensure, At, Making, Undoing
<1>5. CASE CreateGlusterVolume(v)
  <2>1. CASE At(v, "glusterfs", "create") /\ Create(v, GlusterVolume(v), "start", "stop")
    BY <1>1, <2>1, SimpleAssets, EnsureOrUndoFits DEF Create, At, Making, Undoing
  <2>2. CASE At(v, "glusterfs", "start") /\ Ensure(v, {Started(v)}, "service", "stop")
    BY <1>1, <2>2, SimpleAssets, EnsureOrUndoFits DEF Ensure, At, Making, Undoing
  <2> QED
    BY <1>5, <2>1, <2>2 DEF CreateGlusterVolume
<1>6. CASE SimpleService(v)
  <2>1. call[v].pc = "service" /\ call[v].pc \in Making
    BY <1>6 DEF SimpleService, At, Making
  <2>2. Started(v) \in call[v].made
    BY <1>1, <2>1, Now DEF Fits, Running
  <2> QED
    BY <1>1, <1>6, <2>1, <2>2, SimpleAssets, EnsureOrUndoFits DEF SimpleService, Ensure, Making, Undoing
<1>7. CASE SimpleDelete(v)
  <2>1. call[v].pc = "delete" /\ call[v].task \in {"cleanup", "delete"}
    BY <1>7, Now DEF SimpleDelete, At, Removing, Undoing
  <2>2. CASE class = "valid" /\ Ask(v, "stop", "error")
    <3>1. /\ Fits(kind, v, failures[v], edits, phase[v], pv[v],
                  call[v].task, call[v].pc, call[v].made, has)
          /\ phase[v] = IF call[v].task = "delete" THEN "released" ELSE "wanted"
      BY <2>1, Now DEF Fits, InPhase
    <3>2. InPhase(kind, phase[v], call[v].task, "stop")
      BY <2>1, <3>1, <1>1 DEF Fits, InPhase, Removing
    <3>3. WhileMade(kind, v, call[v].task, "stop", call[v].made, has)
      BY <2>1, <3>1 DEF Fits, WhileMade
    <3>4. WhileNamed(kind, v, failures[v], edits, phase[v], pv[v], call[v].task, "stop", has)
      <4>1. \A type : "stop" \notin Gone(kind, type)
        BY DEF Gone
      <4> QED
        BY <3>1, <4>1 DEF Fits, WhileNamed, Sure
    <3>5. Running(kind, v, failures[v], edits, phase[v], pv[v], call[v].task, "stop", call[v].made, has)
      BY <2>1, <3>1 DEF Fits, Running
    <3>6. WhileUsed(kind, v, phase[v], pv[v], call[v].task, "stop", call[v].made, has)
      BY <1>1, <3>1 DEF Fits, WhileUsed, Watched, CloudCopies
    <3>7. Fits(kind, v, failures[v], edits, phase[v], pv[v], call[v].task, "stop", call[v].made, has)
      BY <3>2, <3>3, <3>4, <3>5, <3>6 DEF Fits
    <3> QED
      BY <2>1, <2>2, <3>7, AskFits DEF Pcs, Removing
  <2>3. CASE class # "valid" /\ Refuse(v, "error")
    <3>1. edits > 0
      BY <2>3, Now
    <3> QED
      BY <2>1, <2>3, <3>1, RefuseFits
  <2> QED
    BY <1>7, <2>2, <2>3 DEF SimpleDelete, ReadClass
<1>8. CASE StopGlusterVolume(v)
  <2>1. call[v].pc = "stop" /\ call[v].task # "none" /\ Remove(v, {Started(v)}, "rmvolume", "rmbricks")
    BY <1>8, Now DEF StopGlusterVolume, At, Undoing
  <2>2. call[v].task = "delete" /\ ~Logged(kind, failures[v], edits) => Started(v) \in has
    BY <1>1, <2>1, Now DEF Fits, InPhase, Running, Logged
  <2>3. \A type \in {"gid", "brick", "volume"} : "rmvolume" \notin Gone(kind, type)
    BY <1>1 DEF Gone
  <2> QED
    BY <1>1, <2>1, <2>2, <2>3, SimpleAssets, SimpleRemoveFits DEF Undoing, SimpleSteps, NotServices
<1>9. ASSUME call[v].pc \in {"rmvolume", "rmbricks", "rmservice", "release"}
      PROVE  /\ call[v].task # "none"
             /\ call[v].task = "delete" /\ ~Logged(kind, failures[v], edits) =>
                  \A a \in NotServices(pv[v]) \cap has : call[v].pc \notin Gone(kind, a.type)
  <2>1. Sure(failures[v], pv[v]) = NotServices(pv[v])
    BY <1>1, Now DEF Fits, WhileNamed, Own, Makes, CephKinds, Sure, NotServices
  <2> QED
    BY <1>9, <2>1, Now DEF Fits, WhileNamed, Undoing, Removing, Tasks
<1>10. CASE DeleteGlusterVolume(v)
  <2>1. call[v].pc = "rmvolume" /\ Remove(v, {GlusterVolume(v)}, "rmbricks", "rmbricks")
    BY <1>10 DEF DeleteGlusterVolume, At
  <2>2. /\ \A type \in {"gid", "brick"} : "rmbricks" \notin Gone(kind, type)
        /\ "rmvolume" \in Gone(kind, "started")
    BY <1>1 DEF Gone
  <2>3. call[v].task = "delete" /\ ~Logged(kind, failures[v], edits) =>
          \A a \in NotServices(pv[v]) \cap (has \ {GlusterVolume(v)}) : "rmbricks" \notin Gone(kind, a.type)
    BY <1>1, <1>9, <2>1, <2>2, SimpleAssets DEF NotServices
  <2>4. {GlusterVolume(v)} \cap has = {} => has \ {GlusterVolume(v)} = has
    OBVIOUS
  <2> QED
    BY <1>1, <1>9, <2>1, <2>3, <2>4, SimpleAssets, SimpleRemoveFits DEF Undoing, SimpleSteps
<1>11. CASE DeleteBricks(v)
  <2>1. call[v].pc = "rmbricks" /\ RemoveIfThere(v, {Brick(v)}, "rmservice", "rmservice")
    BY <1>11 DEF DeleteBricks, At
  <2>2. /\ "rmservice" \notin Gone(kind, "gid")
        /\ "rmbricks" \in Gone(kind, "started") /\ "rmbricks" \in Gone(kind, "volume")
    BY <1>1 DEF Gone
  <2>3. call[v].task = "delete" /\ ~Logged(kind, failures[v], edits) =>
          \A a \in NotServices(pv[v]) \cap (has \ {Brick(v)}) : "rmservice" \notin Gone(kind, a.type)
    BY <1>1, <1>9, <2>1, <2>2, SimpleAssets DEF NotServices
  <2>4. {Brick(v)} \cap has = {} => has \ {Brick(v)} = has
    OBVIOUS
  <2> QED
    BY <1>1, <1>9, <2>1, <2>3, <2>4, SimpleAssets, SimpleRemoveFits DEF Undoing, SimpleSteps
<1>12. CASE SimpleDeleteService(v)
  <2>. DEFINE next == IF call[v].task = "provision" THEN "error" ELSE "release"
  <2>1. call[v].pc = "rmservice" /\ Remove(v, {Service(v)}, next, next)
    BY <1>12 DEF SimpleDeleteService, At
  <2>2. /\ "release" \notin Gone(kind, "gid")
        /\ \A type \in {"started", "volume", "brick"} : "rmservice" \in Gone(kind, type)
    BY <1>1 DEF Gone
  <2>3. call[v].task = "delete" /\ ~Logged(kind, failures[v], edits) =>
          \A a \in NotServices(pv[v]) \cap has : next \notin Gone(kind, a.type)
    BY <1>1, <1>9, <2>1, <2>2 DEF NotServices
  <2>4. IF call[v].task = "provision"
           THEN {next} \subseteq Undoing \cup {"error"}
           ELSE {next} \subseteq SimpleSteps
    BY DEF Undoing, SimpleSteps
  <2>. HIDE DEF next
  <2> QED
    BY <1>1, <1>9, <2>1, <2>3, <2>4, SimpleAssets, SimpleRemoveFits
<1>13. CASE SimpleRelease(v)
  <2>1. call[v].pc = "release" /\ call[v].task \in {"cleanup", "delete"}
    BY <1>13, Now DEF SimpleRelease, At, Removing, Undoing
  <2>2. CASE class = "valid" /\ RemoveIfThere(v, NamedOf(v, "gid"), "done", "done")
    <3>1. \A type \in {"started", "volume", "brick"} : "release" \in Gone(kind, type)
      BY <1>1 DEF Gone
    <3>2. call[v].task = "delete" /\ ~Logged(kind, failures[v], edits) =>
            \A a \in NotServices(pv[v]) \cap (has \ NamedOf(v, "gid")) : "done" \notin Gone(kind, a.type)
      BY <1>1, <1>9, <2>1, <3>1 DEF NotServices, NamedOf, Named
    <3>3. NamedOf(v, "gid") \cap has = {} => has \ NamedOf(v, "gid") = has
      OBVIOUS
    <3>4. \A a \in NamedOf(v, "gid") : a.of = v \/ a.of \notin Volumes
      BY <2>1, NamedIsOwn DEF NamedOf, Own, Asset
    <3> QED
      BY <1>1, <1>9, <2>1, <2>2, <3>2, <3>3, <3>4, SimpleRemoveFits DEF SimpleSteps
  <2>3. CASE class # "valid" /\ Refuse(v, "done")
    <3>1. edits > 0 /\ Logged(kind, failures[v], edits) /\ failures[v] \in Nat /\ failures[v] >= failures[v]
      BY <1>1, <2>3, Now DEF Logged
    <3>2. Fits(kind, v, failures[v], edits, phase[v], pv[v], call[v].task, "done", call[v].made, has)
      BY <1>1, <2>1, <3>1, SimpleBackwardFits DEF SimpleSteps
    <3> QED
      BY <2>1, <2>3, <3>2, MoveFits DEF Refuse, Pcs
  <2> QED
    BY <1>13, <2>2, <2>3 DEF SimpleRelease, GiveGidBack
<1> QED
  BY <1>2, <1>3, <1>4, <1>5, <1>6, <1>7, <1>8, <1>10, <1>11, <1>12, <1>13
-----------------------------------------------------------------------------
(* gluster/file.                                                           *)

LEMMA FileFits ==
  ASSUME IInv, NEW v \in Volumes,
         \/ FileProvision(v) \/ FileGid(v) \/ FileParse(v) \/ GetSource(v) \/ CreateVolume(v)
         \/ CreateVolumeSource(v) \/ UndoVolume(v) \/ AnnotatePVC(v)
         \/ FileDelete(v) \/ FileDeleteVolume(v) \/ FileDeleteService(v)
  PROVE  IInv'
<1>1. /\ kind \in FileKinds /\ Makes(kind) = {"gid", "volume", "service"}
      /\ kind \notin Plain \cup Fixed \cup {"rbd"} \cup CloudCopies \cup Watched /\ kind # "glusterfs"
      /\ \A a \in pv[v] : a.type \in {"gid", "volume", "service"}
  <2>1. kind \in FileKinds
    BY DEF FileProvision, FileGid, FileParse, GetSource, CreateVolume, CreateVolumeSource, UndoVolume,
           AnnotatePVC, FileDelete, FileDeleteVolume, FileDeleteService, InFile
  <2>2. Makes(kind) = {"gid", "volume", "service"}
    BY <2>1 DEF Makes, CephKinds, FileKinds, BlockKinds
  <2>3. pv[v] \subseteq Own(kind, v)
    BY Now DEF Fits, WhileNamed, Sure
  <2> QED
    BY <2>1, <2>2, <2>3 DEF Own, FileKinds, CloudCopies, Plain, Fixed, Watched
<1>2. CASE FileProvision(v)
  <2>1. call[v].pc \in Making /\ call[v].task = "provision"
    BY <1>2, Now DEF FileProvision, InFile, Making
  <2>2. /\ "gid" \in Pcs
        /\ call' \in [Volumes -> Calls]
        /\ call'[v].task = call[v].task /\ call'[v].pc = "gid" /\ call'[v].made = call[v].made
        /\ \A u \in Volumes \ {v} : call'[u] = call[u]
    BY <1>2, Going, Now DEF FileProvision, Pcs, Making
  <2>3. UNCHANGED <<has, kind, claim, class, phase, pv, crashes, edits>> /\ memory' \subseteq Volumes
    BY <1>2 DEF FileProvision, fixedVars
  <2>4. Fits(kind, v, failures'[v], edits, phase[v], pv[v], call[v].task, "gid", call[v].made, has)
    BY <1>1, <1>2, <2>1, OnwardFits DEF FileProvision, NoFault, Making
  <2> QED
    BY <1>2, <2>1, <2>2, <2>3, <2>4, GoFits DEF FileProvision
<1>3. CASE FileGid(v)
  BY <1>1, <1>3, TakeGidFits DEF FileGid, InFile
<1>4. CASE FileParse(v)
  BY <1>4, CheckFits DEF FileParse, InFile, Making
<1>5. CASE GetSource(v)
  BY <1>1, <1>5, OnwardFits DEF GetSource, InFile, Making
<1>6. CASE CreateVolume(v)
  <2>1. PICK n \in Fresh(v, "volume") : Create(v, Asset("volume", v, n), "nodes", "error")
    BY <1>6 DEF CreateVolume
  <2>2. n \in Names \cup Luns
    BY FreshName
  <2>3. Asset("volume", v, n) \in Own(kind, v)
    BY <1>1, <2>2, AssetTyped DEF Own, Types
  <2> QED
    BY <1>1, <1>6, <2>1, <2>3, CreateFits DEF CreateVolume, InFile, Making
<1>7. CASE CreateVolumeSource(v)
  <2>1. CASE InFile(v, "nodes") /\ Ask(v, "service", "error")
    BY <1>1, <2>1, OnwardFits DEF InFile, Making
  <2>2. ASSUME NEW u \in memory, InFile(v, "service"), Ensure(v, {Service(u)}, "annotate", "undo")
        PROVE  IInv'
    <3>1. u \in Volumes
      BY Now DEF TypeOK
    <3>2. 0 \in Names \cup Luns /\ claim[u].name \in ClaimNames \ Volumes
      BY <3>1, SmallNames, NameOfClaim, Now
    <3>3. Service(u) \in Own(kind, v)
      BY <1>1, <3>2, AssetTyped DEF Own, Service, Types
    <3> QED
      BY <1>1, <2>2, <3>3, EnsureOrUndoFits DEF Ensure, InFile, Making, Undoing
  <2> QED
    BY <1>7, <2>1, <2>2 DEF CreateVolumeSource
<1>8. CASE UndoVolume(v)
  <2>. DEFINE takes == {a \in call[v].made : a.type = "volume"}
  <2>1. call[v].pc = "undo" /\ call[v].task = "provision"
    BY <1>8, Now DEF UndoVolume, InFile, Undoing, Fits, InPhase, Tasks, Removing
  <2>2. CASE Refuse(v, "error")
    BY <1>1, <2>1, <2>2, RefuseFits
  <2>3. CASE Request(v, {}, takes, "error", "error")
    <3>1. Fits(kind, v, failures[v], edits, phase[v], pv[v],
               call[v].task, "error", call[v].made, has \ takes)
      <4>1. failures[v] \in Nat /\ failures[v] >= failures[v]
        BY Now
      <4> QED
        BY <2>1, <4>1, UndoFits
    <3>2. ~ \E a \in has : a.type = "watch" /\ a.of = v
      BY <1>1, Now DEF Fits, WhileUsed
    <3>3. \A a \in takes \cap has : a.of = v \/ a.of \notin Volumes
      BY <2>1, Now DEF Fits, WhileMade, Own
    <3>. HIDE DEF takes
    <3> QED
      BY <1>1, <2>1, <2>3, <3>1, <3>2, <3>3, TakeFits DEF Pcs
  <2> QED
    BY <1>8, <2>2, <2>3 DEF UndoVolume, Remove
<1>9. CASE AnnotatePVC(v)
  <2>1. call[v].pc = "annotate" /\ call[v].pc \in Making /\ call[v].task = "provision"
    BY <1>9, Now DEF AnnotatePVC, InFile, Making
  <2>2. Ask(v, "done", "error") => IInv'
    BY <1>1, <2>1, OnwardFits
  <2>3. CASE Ask(v, "done", "done")
    <3>1. Fits(kind, v, failures[v], edits, phase[v], pv[v], call[v].task, "done", call[v].made, has)
      BY <1>1, <2>1, OnwardFits
    <3>2. failures[v] \in Nat /\ failures[v] + 1 \in Nat /\ failures[v] + 1 >= failures[v] /\ edits \in Nat
      BY Now
    <3>3. Fits(kind, v, failures[v] + 1, edits, phase[v], pv[v], call[v].task, "done", call[v].made, has)
      BY <3>1, <3>2, MoreFailuresFit
    <3>4. call[v].made \cup {} = call[v].made /\ (has \ {}) \cup {} = has /\ {} \in SUBSET Assets
      OBVIOUS
    <3>5. Fits(kind, v, failures[v], edits, phase[v], pv[v],
               call[v].task, "done", call[v].made \cup {}, (has \ {}) \cup {})
      BY <3>1, <3>4
    <3>6. \A h \in {has, (has \ {}) \cup {}} :
            Fits(kind, v, failures[v] + 1, edits, phase[v], pv[v], call[v].task, "done", call[v].made, h)
      BY <3>3, <3>4
    <3> QED
      BY <2>1, <2>3, <3>4, <3>5, <3>6, RequestFits DEF Ask, Pcs
  <2>4. Die(has) => IInv'
    BY DieFits
  <2> QED
    BY <1>9, <2>2, <2>3, <2>4 DEF AnnotatePVC
<1>. SUFFICES ASSUME FileDelete(v) \/ FileDeleteVolume(v) \/ FileDeleteService(v)
              PROVE  IInv'
  BY <1>2, <1>3, <1>4, <1>5, <1>6, <1>7, <1>8, <1>9
<1>10. ~ \E a \in has : a.type = "watch" /\ a.of = v
  BY <1>1, Now DEF Fits, WhileUsed
<1>11. call[v].pc \in {"delete", "rmvolume", "rmservice"} /\ call[v].task \in {"cleanup", "delete"}
  <2>1. call[v].pc \in {"delete", "rmvolume", "rmservice"}
    BY DEF FileDelete, FileDeleteVolume, FileDeleteService, InFile
  <2> QED
    BY <1>1, <2>1, Now DEF Fits, InPhase, Making, Undoing, Tasks
<1>12. ASSUME NEW type \in {"gid", "volume", "service"}
       PROVE  \A a \in NamedOf(v, type) : a.of = v \/ a.of \notin Volumes
  BY <1>1, <1>11, NamedIsOwn DEF NamedOf, Own, Asset
<1>13. /\ "rmvolume" \in Gone(kind, "gid") /\ "rmservice" \in Gone(kind, "gid")
       /\ "rmservice" \in Gone(kind, "volume") /\ "rmvolume" \notin Gone(kind, "volume")
  BY <1>1 DEF Gone
<1>14. call[v].task = "delete" => Named(v) = pv[v]
  BY DEF Named
<1>15. CASE FileDelete(v)
  <2>1. Refuse(v, "error") => IInv'
    BY <1>1, <1>11, RefuseFits
  <2>2. RemoveIfThere(v, NamedOf(v, "gid"), "rmvolume", "error") => IInv'
    BY <1>1, <1>10, <1>11, <1>12, <1>13, <1>14, RemoveFits DEF Removing, NamedOf
  <2> QED
    BY <1>15, <2>1, <2>2 DEF FileDelete, GiveGidBack
<1>16. CASE FileDeleteVolume(v)
  <2>1. call[v].pc = "rmvolume" /\ Remove(v, NamedOf(v, "volume"), "rmservice", "error")
    BY <1>16 DEF FileDeleteVolume, InFile
  <2> QED
    BY <1>1, <1>10, <1>11, <1>12, <1>13, <1>14, <2>1, RemoveFits DEF Removing, NamedOf
<1>17. CASE FileDeleteService(v)
  <2>. DEFINE takes == NamedOf(v, "service")
  <2>1. call[v].pc = "rmservice" /\ Remove(v, takes, "done", "done")
    BY <1>17 DEF FileDeleteService, InFile
  <2>2. ASSUME NEW S
        PROVE  Fits(kind, v, failures[v], edits, phase[v], pv[v], call[v].task, "done", call[v].made, has \ S)
    BY <1>1, <1>10, <1>11, <1>13, <2>1, BackwardFits DEF Fixed
  <2>3. failures[v] \in Nat /\ failures[v] + 1 \in Nat /\ failures[v] + 1 >= failures[v] /\ edits \in Nat
    BY Now
  <2>4. ASSUME NEW S
        PROVE  Fits(kind, v, failures[v] + 1, edits, phase[v], pv[v], call[v].task, "done", call[v].made, has \ S)
    BY <2>2, <2>3, MoreFailuresFit
  <2>5. has \ {} = has /\ call[v].made \cup {} = call[v].made /\ (has \ takes) \cup {} = has \ takes
    OBVIOUS
  <2>6. CASE Refuse(v, "done")
    <3>1. Fits(kind, v, failures[v], edits, phase[v], pv[v], call[v].task, "done", call[v].made, has \ {})
      BY <2>2
    <3>2. Fits(kind, v, failures[v], edits, phase[v], pv[v], call[v].task, "done", call[v].made, has)
      BY <2>5, <3>1
    <3> QED
      BY <1>11, <2>6, <3>2, MoveFits DEF Refuse, Pcs
  <2>7. CASE Request(v, {}, takes, "done", "done")
    <3>1. Fits(kind, v, failures[v], edits, phase[v], pv[v],
               call[v].task, "done", call[v].made \cup {}, (has \ takes) \cup {})
      BY <2>2, <2>5
    <3>2. \A h \in {has \ {}, (has \ takes) \cup {}} :
            Fits(kind, v, failures[v] + 1, edits, phase[v], pv[v], call[v].task, "done", call[v].made, h)
      BY <2>4, <2>5
    <3>3. \A h \in {has, (has \ takes) \cup {}} :
            Fits(kind, v, failures[v] + 1, edits, phase[v], pv[v], call[v].task, "done", call[v].made, h)
      BY <2>5, <3>2
    <3>4. \A a \in {} \cup (takes \cap has) : a.of = v \/ a.of \notin Volumes
      BY <1>12
    <3>5. {} \in SUBSET Assets /\ "done" \in Pcs /\ call[v].task # "none" /\ kind \notin Fixed
      BY <1>1, <1>11 DEF Pcs
    <3>. HIDE DEF takes
    <3> QED
      BY <1>10, <2>7, <3>1, <3>3, <3>4, <3>5, RequestFits
  <2> QED
    BY <2>1, <2>6, <2>7 DEF Remove
<1> QED
  BY <1>15, <1>16, <1>17
-----------------------------------------------------------------------------
(* gluster/block.                                                          *)

LEMMA BlockFits ==
  ASSUME IInv, NEW v \in Volumes,
         \/ BlockProvision(v) \/ BlockParse(v) \/ BlockCreate(v) \/ ModifyAuth(v)
         \/ StoreFields(v) \/ CreateSecretRef(v) \/ BlockDelete(v) \/ DeleteSecretRef(v)
  PROVE  IInv'
<1>1. /\ kind \in BlockKinds /\ Makes(kind) = {"volume", "secret"}
      /\ kind \notin Plain \cup Fixed \cup {"rbd"} \cup CloudCopies \cup Watched \cup FileKinds
      /\ kind # "glusterfs"
  BY DEF BlockProvision, BlockParse, BlockCreate, ModifyAuth, StoreFields, CreateSecretRef,
         BlockDelete, DeleteSecretRef, InBlock,
         Makes, CephKinds, FileKinds, BlockKinds, Plain, Fixed, CloudCopies, Watched
<1>2. CASE BlockProvision(v) \/ BlockParse(v)
  BY <1>2, CheckFits DEF BlockProvision, BlockParse, InBlock, Making
<1>3. CASE BlockCreate(v)
  <2>1. PICK n \in Fresh(v, "volume") :
          Create(v, Asset("volume", v, n), IF kind = "glusterblock" THEN "modify" ELSE "answer", "error")
    BY <1>3 DEF BlockCreate
  <2>2. n \in Names \cup Luns
    BY FreshName
  <2>3. Asset("volume", v, n) \in Own(kind, v)
    BY <1>1, <2>2, AssetTyped DEF Own, Types
  <2> QED
    BY <1>1, <1>3, <2>1, <2>3, CreateFits DEF BlockCreate, InBlock, Making
<1>4. CASE ModifyAuth(v) \/ StoreFields(v)
  BY <1>1, <1>4, OnwardFits DEF ModifyAuth, StoreFields, InBlock, Making
<1>5. CASE CreateSecretRef(v)
  <2>1. PICK a \in call[v].made : Ensure(v, {Asset("secret", v, a.n)}, "done", "error")
    BY <1>5 DEF CreateSecretRef
  <2>2. a.n \in Names \cup Luns
    BY Now, AssetFields
  <2>3. Asset("secret", v, a.n) \in Own(kind, v)
    BY <1>1, <2>2, AssetTyped DEF Own, Types
  <2> QED
    BY <1>1, <1>5, <2>1, <2>3, EnsureFits DEF CreateSecretRef, InBlock, Making
<1>. SUFFICES ASSUME BlockDelete(v) \/ DeleteSecretRef(v)
              PROVE  IInv'
  BY <1>2, <1>3, <1>4, <1>5
<1>6. ~ \E a \in has : a.type = "watch" /\ a.of = v
  BY <1>1, Now DEF Fits, WhileUsed
<1>7. call[v].task \in {"cleanup", "delete"} /\ (call[v].task = "delete" => Named(v) = pv[v])
  BY Now DEF BlockDelete, DeleteSecretRef, InBlock, Removing, Undoing, Named
<1>8. ASSUME NEW type
      PROVE  \A a \in NamedOf(v, type) : a.of = v
  BY <1>1, <1>7, NamedIsOwn DEF NamedOf, Own, Asset
<1>9. "unsecret" \notin Gone(kind, "secret") /\ "unsecret" \in Gone(kind, "volume")
  BY DEF Gone
<1>10. CASE BlockDelete(v)
  BY <1>1, <1>6, <1>7, <1>8, <1>9, <1>10, RemoveFits DEF BlockDelete, Removing, NamedOf
<1>11. CASE DeleteSecretRef(v)
  <2>1. call[v].pc = "unsecret" /\ RemoveIfThere(v, NamedOf(v, "secret"), "done", "error")
    BY <1>11 DEF DeleteSecretRef, InBlock
  <2> QED
    BY <1>1, <1>6, <1>7, <1>8, <1>9, <2>1, RemoveFits DEF NamedOf
<1> QED
  BY <1>10, <1>11

LEMMA GlusterFits ==
  ASSUME IInv, NEW v \in Volumes, Gluster(v)
  PROVE  IInv'
BY SimpleFits, FileFits, BlockFits DEF Gluster
-----------------------------------------------------------------------------
(* Restored snapshots.                                                     *)

LEMMA PromoterFits ==
  ASSUME IInv, NEW v \in Volumes, Promoter(v)
  PROVE  IInv'
<1>1. /\ kind \in CloudCopies \cup LocalCopies /\ Makes(kind) = {"volume"}
      /\ kind \notin Plain \cup FileKinds \cup {"rbd", "glusterfs", "cephfsFixed", "flex", "digitalocean"}
      /\ kind \in Fixed => kind = "glusterCopy"
      /\ kind \in LocalCopies => kind \notin CloudCopies \cup Watched
  BY DEF Promoter, PromoterProvision, SnapshotRestore, VolumeDelete, RestoreEBS, createTags,
         DeleteUntagged, RestorePD, RestoreCinder, RestoreHostpath, RestoreGluster,
         CreateCloneVolumeSpec, RestoreOpenEBS, ReadClone, DeleteEBS, DeletePD, DeleteCinder,
         DeleteCinderVolume, DeleteHostpath, DeleteGluster, DeleteOpenEBSClone, At,
         CloudCopies, LocalCopies, Makes, CephKinds, FileKinds, BlockKinds, Plain, Fixed, Watched
<1>2. CASE PromoterProvision(v)
  BY <1>1, <1>2, OnwardFits DEF PromoterProvision, Making
<1>3. ASSUME call[v].pc = "restore"
      PROVE  /\ call[v].pc \in Making /\ call[v].task = "provision"
             /\ Refuse(v, "error") => IInv'
  <2>1. call[v].pc \in Making /\ call[v].task = "provision"
    BY <1>3, Now DEF Making
  <2> QED
    BY <1>1, <2>1, RefuseFits
<1>4. ASSUME NEW n \in Fresh(v, "volume") \cup {0}, kind # "glusterCopy"
      PROVE  Asset("volume", v, n) \in Own(kind, v) /\ Asset("volume", v, n).type = "volume"
  <2>1. n \in Names \cup Luns
    BY FreshName, SmallNames
  <2> QED
    BY <1>1, <1>4, <2>1, AssetTyped DEF Own, Types
<1>5. ASSUME NEW ok \in {"tag", "done", "reread"}, call[v].pc \in Making, kind # "glusterCopy",
             NEW n \in Fresh(v, "volume") \cup {0}, Ensure(v, {Asset("volume", v, n)}, ok, "error")
      PROVE  IInv'
  BY <1>1, <1>4, <1>5, EnsureFits DEF Making
<1>6. CASE RestoreEBS(v)
  BY <1>3, <1>5, <1>6 DEF RestoreEBS, At, CreateDisk, MadeUp
<1>7. CASE createTags(v)
  <2>1. /\ kind = "awsCopy" /\ call[v].pc = "tag" /\ call[v].pc \in Making /\ call[v].task = "provision"
        /\ Request(v, {}, {}, "done", "untagged")
    BY <1>7, Now DEF createTags, At, Ask, Making
  <2>2. \E a \in call[v].made \cup {} : a.type = "volume"
    BY <2>1, Now DEF Fits, WhileUsed, CloudCopies
  <2> QED
    BY <1>1, <2>1, <2>2, EnsureOrUndoFits DEF Undoing
<1>8. CASE DeleteUntagged(v)
  <2>1. /\ kind = "awsCopy" /\ call[v].pc = "untagged" /\ call[v].task = "provision"
        /\ Request(v, {}, call[v].made, "error", "error")
    BY <1>8, Now DEF DeleteUntagged, At, RemoveIfThere, Undoing, Fits, InPhase, Tasks, Removing
  <2>2. failures[v] \in Nat /\ failures[v] >= failures[v]
    BY Now
  <2>3. Fits(kind, v, failures[v], edits, phase[v], pv[v],
             call[v].task, "error", call[v].made, has \ call[v].made)
    BY <2>1, <2>2, UndoFits
  <2>4. ~ \E a \in has : a.type = "watch" /\ a.of = v
    BY <2>1, NotInUse
  <2>5. \A a \in call[v].made \cap has : a.of = v \/ a.of \notin Volumes
    BY <2>1, Now DEF Fits, WhileMade, Own
  <2> QED
    BY <2>1, <2>3, <2>4, <2>5, TakeFits DEF Pcs, Fixed
<1>9. CASE RestorePD(v) \/ RestoreCinder(v)
  BY <1>3, <1>5, <1>9 DEF RestorePD, RestoreCinder, CreateDiskFromSnapshot, CreateCinderVolume,
     NamedLikePV, MadeUp, At
<1>10. CASE RestoreHostpath(v)
  BY <1>3, <1>5, <1>10 DEF RestoreHostpath, MadeUp, At
<1>11. CASE RestoreGluster(v)
  <2>1. claim[v].name \in ClaimNames \ Volumes /\ 0 \in Names \cup Luns
    BY NameOfClaim, SmallNames, Now
  <2>2. NamedLikeSnapshot(v) \in Own(kind, v)
    BY <1>1, <1>11, <2>1, AssetTyped DEF NamedLikeSnapshot, RestoreGluster, At, Own, Types, Fixed
  <2> QED
    BY <1>1, <1>3, <1>11, <2>2, CreateFits DEF RestoreGluster, At, CloudCopies
<1>12. CASE CreateCloneVolumeSpec(v)
  <2>1. Die(has) => IInv'
    BY DieFits
  <2>2. Goto(v, "clone") /\ NoFault /\ UNCHANGED <<has, apiVars>> => IInv'
    BY <1>1, <1>12, OnwardFits DEF CreateCloneVolumeSpec, At, Making
  <2> QED
    BY <1>12, <2>1, <2>2 DEF CreateCloneVolumeSpec
<1>13. CASE RestoreOpenEBS(v)
  <2>1. call[v].pc \in Making
    BY <1>13 DEF RestoreOpenEBS, At, Making
  <2> QED
    BY <1>5, <1>13, <2>1 DEF RestoreOpenEBS, NamedLikePV, At
<1>14. CASE ReadClone(v)
  BY <1>1, <1>14, OnwardFits DEF ReadClone, At, Making, CloudCopies
<1>. SUFFICES ASSUME VolumeDelete(v)
              PROVE  IInv'
  BY <1>2, <1>6, <1>7, <1>8, <1>9, <1>10, <1>11, <1>12, <1>13, <1>14 DEF Promoter, SnapshotRestore
<1>15. /\ call[v].pc \in {"delete", "drop"} /\ call[v].task \in {"cleanup", "delete"}
       /\ call[v].task = "delete" => pv[v] \ Named(v) = {}
  BY Now DEF VolumeDelete, DeleteEBS, DeletePD, DeleteCinder, DeleteCinderVolume, DeleteHostpath,
     DeleteGluster, DeleteOpenEBSClone, At, Removing, Undoing, Named
<1>16. kind # "glusterCopy" => \A a \in Named(v) : a.of = v
  BY <1>1, <1>15, NamedIsOwn DEF Own, Asset
<1>17. ~InUse(v) => ~ \E a \in has : a.type = "watch" /\ a.of = v
  <2>1. \A a \in has : a.type = "watch" /\ a.of = v => a.n = 0
    BY <1>1, Now DEF Fits, WhileUsed
  <2>2. \A a \in has : a = Asset(a.type, a.of, a.n)
    BY Now DEF Assets, Asset
  <2> QED
    BY <2>1, <2>2 DEF InUse
<1>18. Refuse(v, "error") => IInv'
  BY <1>1, <1>15, RefuseFits
<1>19. CASE DeleteEBS(v) \/ DeletePD(v)
  <2>1. kind # "glusterCopy"
    BY <1>19 DEF DeleteEBS, DeletePD, At
  <2>2. Refuse(v, "error") \/ (~InUse(v) /\ RemoveIfThere(v, Named(v), "done", "error"))
    BY <1>19 DEF DeleteEBS, DeletePD, deleteVolume, DeleteDisk
  <2> QED
    BY <1>1, <1>15, <1>16, <1>17, <1>18, <2>1, <2>2, RemoveFits
<1>20. CASE DeleteCinder(v)
  <2>1. Refuse(v, "error") \/ (~InUse(v) /\ Ask(v, "drop", "error"))
    BY <1>20 DEF DeleteCinder, diskIsUsed
  <2>2. \A type : "drop" \notin Gone(kind, type)
    BY <1>1 DEF Gone
  <2> QED
    BY <1>1, <1>15, <1>17, <1>18, <2>1, <2>2, LookFits DEF Removing
<1>21. CASE DeleteCinderVolume(v)
  <2>. DEFINE takes == Named(v)
  <2>1. kind = "cinderCopy" /\ call[v].pc = "drop" /\ Request(v, {}, takes, "done", "done")
    BY <1>21 DEF DeleteCinderVolume, At, RemoveIfThere
  <2>2. ~ \E a \in has : a.type = "watch" /\ a.of = v
    BY <1>15, <2>1, NotInUse
  <2>3. failures[v] \in Nat /\ failures[v] + 1 \in Nat /\ failures[v] + 1 > 0
        /\ failures[v] + 1 >= failures[v] /\ edits \in Nat
    BY Now
  <2>4. Fits(kind, v, failures[v], edits, phase[v], pv[v],
             call[v].task, "done", call[v].made, has \ takes)
    BY <1>1, <1>15, <2>2, BackwardFits
  <2>5. ASSUME NEW h \in {has, has \ takes}
        PROVE  Fits(kind, v, failures[v] + 1, edits, phase[v], pv[v], call[v].task, "done", call[v].made, h)
    <3>1. InPhase(kind, phase[v], call[v].task, "done")
      BY <2>4 DEF Fits
    <3>2. WhileMade(kind, v, call[v].task, "done", call[v].made, h)
      BY <1>15, <2>4 DEF Fits, WhileMade
    <3>3. WhileNamed(kind, v, failures[v] + 1, edits, phase[v], pv[v], call[v].task, "done", h)
      BY <1>15, <2>1, <2>3, <2>4 DEF Fits, InPhase, WhileNamed, Sure, Logged
    <3>4. Running(kind, v, failures[v] + 1, edits, phase[v], pv[v], call[v].task, "done", call[v].made, h)
      BY <1>1 DEF Running
    <3>5. WhileUsed(kind, v, phase[v], pv[v], call[v].task, "done", call[v].made, h)
      BY <1>15, <2>2, <2>4 DEF Fits, InPhase, WhileUsed
    <3> QED
      BY <3>1, <3>2, <3>3, <3>4, <3>5 DEF Fits
  <2>6. call[v].made \cup {} = call[v].made /\ (has \ takes) \cup {} = has \ takes
    OBVIOUS
  <2>7. Fits(kind, v, failures[v], edits, phase[v], pv[v],
             call[v].task, "done", call[v].made \cup {}, (has \ takes) \cup {})
    BY <2>4, <2>6
  <2>8. \A h \in {has, (has \ takes) \cup {}} :
          Fits(kind, v, failures[v] + 1, edits, phase[v], pv[v], call[v].task, "done", call[v].made, h)
    BY <2>5, <2>6
  <2>9. \A a \in {} \cup (takes \cap has) : a.of = v \/ a.of \notin Volumes
    BY <1>16, <2>1
  <2>10. {} \in SUBSET Assets /\ "done" \in Pcs /\ call[v].task # "none" /\ kind \notin Fixed
    BY <1>15, <2>1 DEF Pcs, Fixed
  <2>. HIDE DEF takes
  <2> QED
    BY <2>1, <2>2, <2>7, <2>8, <2>9, <2>10, RequestFits
<1>22. ASSUME kind \in LocalCopies
       PROVE  ~ \E a \in has : a.type = "watch" /\ a.of = v
  BY <1>1, <1>22, Now DEF Fits, WhileUsed
<1>23. CASE DeleteHostpath(v) \/ DeleteOpenEBSClone(v)
  <2>1. kind \in LocalCopies /\ kind \notin Fixed /\ kind # "glusterCopy"
    BY <1>23 DEF DeleteHostpath, DeleteOpenEBSClone, At, LocalCopies, Fixed
  <2> QED
    BY <1>1, <1>15, <1>16, <1>22, <1>23, <2>1, RemoveFits DEF DeleteHostpath, DeleteOpenEBSClone
<1>24. CASE DeleteGluster(v)
  <2>1. kind \in LocalCopies /\ kind = "glusterCopy" /\ Logged(kind, failures[v], edits)
    BY <1>24 DEF DeleteGluster, At, LocalCopies, Logged
  <2> QED
    BY <1>1, <1>15, <1>22, <1>24, <2>1, LookFits DEF DeleteGluster
<1> QED
  BY <1>19, <1>20, <1>21, <1>23, <1>24 DEF VolumeDelete
-----------------------------------------------------------------------------
(* Nodes.                                                                  *)

LEMMA WatchFits ==
  ASSUME IInv, NEW v \in Volumes, kind \in Watched, phase[v] = "bound",
         NEW n \in IF kind = "digitalocean" THEN Droplets ELSE {0},
         \E a \in has : a.type = "volume" /\ a.of = v,
         \/ has' = has \cup {Asset("watch", v, n)}
         \/ has' = has \ {Asset("watch", v, n)},
         UNCHANGED <<fixedVars, memory, class, phase, pv, call, failures, boundVars>>
  PROVE  IInv'
<1>. DEFINE w == Asset("watch", v, n)
<1>1. UNCHANGED <<kind, claim, memory, class, phase, pv, call, failures, faults, crashes, edits>>
  BY DEF fixedVars, boundVars
<1>2. w \in Assets /\ w.type = "watch" /\ w.of = v /\ w.n = n
  <2>1. n \in Names \cup Luns
    BY SmallNames DEF Droplets
  <2> QED
    BY <2>1, AssetTyped DEF Types
<1>3. TypeOK'
  BY <1>1, <1>2, Now DEF TypeOK
<1>4. PICK h : h = has'
  OBVIOUS
<1>5. Fits(kind, v, failures[v], edits, phase[v], pv[v], call[v].task, call[v].pc, call[v].made, h)
  <2>1. Fits(kind, v, failures[v], edits, phase[v], pv[v],
             call[v].task, call[v].pc, call[v].made, has)
    BY Now
  <2>2. call[v].task = "none" /\ call[v].pc = "out"
    BY <2>1, Now DEF Fits, InPhase, Calls, Tasks
  <2>3. \A a \in Own(kind, v) : a.type # "watch"
    BY DEF Own, Makes, CephKinds, FileKinds, BlockKinds
  <2>4. \A a : a.type # "watch" => (a \in h) = (a \in has)
    BY <1>2, <1>4
  <2>5. WhileMade(kind, v, call[v].task, call[v].pc, call[v].made, h)
    BY <2>1, <2>2 DEF Fits, WhileMade
  <2>6. WhileNamed(kind, v, failures[v], edits, phase[v], pv[v], call[v].task, call[v].pc, h)
    BY <2>1, <2>2, <2>3, <2>4 DEF Fits, WhileNamed, Sure, NotServices
  <2>7. Running(kind, v, failures[v], edits, phase[v], pv[v], call[v].task, call[v].pc, call[v].made, h)
    BY <2>1, <2>2 DEF Fits, Running
  <2>8. WhileUsed(kind, v, phase[v], pv[v], call[v].task, call[v].pc, call[v].made, h)
    BY <1>2, <1>4, <2>1, <2>2, <2>4 DEF Fits, WhileUsed
  <2> QED
    BY <2>1, <2>5, <2>6, <2>7, <2>8 DEF Fits
<1>6. OnlyOf(v, has')
  BY <1>2 DEF OnlyOf, Fixed, Watched, CloudCopies
<1>. HIDE DEF w
<1> QED
  BY <1>1, <1>3, <1>4, <1>5, <1>6, StepFits

(* What is used is there: a bound volume, or one whose watch exists.       *)
LEMMA UsedExists ==
  ASSUME IInv, NEW v \in Volumes,
         \/ kind \in {"rbd"} \cup CloudCopies /\ phase[v] = "bound"
         \/ \E a \in has : a.type = "watch" /\ a.of = v
  PROVE  \E a \in has : a.type = "volume" /\ a.of = v
<1>1. Fits(kind, v, failures[v], edits, phase[v], pv[v],
           call[v].task, call[v].pc, call[v].made, has)
  BY Now
<1>2. CASE kind \in {"rbd"} \cup CloudCopies /\ phase[v] = "bound"
  <2>1. PICK a \in pv[v] : a.type = "volume"
    BY <1>1, <1>2 DEF Fits, WhileUsed
  <2>2. a \in has /\ a.of = v
    BY <1>1, <1>2, <2>1 DEF Fits, WhileNamed, Sure, NotServices, Own, Fixed, CloudCopies
  <2> QED
    BY <2>1, <2>2
<1> QED
  BY <1>1, <1>2 DEF Fits, WhileUsed

LEMMA NodeFits ==
  ASSUME IInv, NEW v \in Volumes, Node(v)
  PROVE  IInv'
<1>1. CASE MapImage(v)
  <2>1. kind = "rbd" /\ kind \in Watched /\ phase[v] = "bound"
    BY <1>1 DEF MapImage, Watched
  <2>2. /\ has' = has \cup {Asset("watch", v, 0)}
        /\ UNCHANGED <<fixedVars, memory, class, phase, pv, call, failures, boundVars>>
    BY <1>1 DEF MapImage, Watcher
  <2>3. \E a \in has : a.type = "volume" /\ a.of = v
    BY <2>1, UsedExists
  <2> QED
    BY <2>1, <2>2, <2>3, WatchFits
<1>2. CASE UseCopy(v)
  <2>1. kind \in CloudCopies /\ kind \in Watched /\ kind # "digitalocean" /\ phase[v] = "bound"
    BY <1>2 DEF UseCopy, Watched, CloudCopies
  <2>2. /\ has' = has \cup {Asset("watch", v, 0)}
        /\ UNCHANGED <<fixedVars, memory, class, phase, pv, call, failures, boundVars>>
    BY <1>2 DEF UseCopy, apiVars, boundVars, fixedVars
  <2>3. \E a \in has : a.type = "volume" /\ a.of = v
    BY <2>1, UsedExists
  <2> QED
    BY <2>1, <2>2, <2>3, WatchFits
<1>3. ASSUME NEW d \in Droplets, Attach(v, d)
      PROVE  IInv'
  <2>1. kind = "digitalocean" /\ kind \in Watched /\ phase[v] = "bound" /\ PluginVolume(v) \in has
    BY <1>3 DEF Attach, Watched
  <2>2. /\ has' = has \cup {Asset("watch", v, d)}
        /\ UNCHANGED <<fixedVars, memory, class, phase, pv, call, failures, boundVars>>
    BY <1>3 DEF Attach, Kubelet, Attachment
  <2>3. PluginVolume(v).type = "volume" /\ PluginVolume(v).of = v
    BY DEF PluginVolume, Asset
  <2> QED
    BY <2>1, <2>2, <2>3, WatchFits
<1>4. ASSUME NEW n \in Names, Asset("watch", v, n) \in has, has' = has \ {Asset("watch", v, n)},
             UNCHANGED <<fixedVars, memory, class, phase, pv, call, failures, boundVars>>
      PROVE  IInv'
  <2>. DEFINE w == Asset("watch", v, n)
  <2>1. UNCHANGED <<kind, claim, memory, class, phase, pv, call, failures, faults, crashes, edits>>
    BY <1>4 DEF fixedVars, boundVars
  <2>2. w.type = "watch" /\ w.of = v
    BY DEF Asset
  <2>3. TypeOK'
    BY <1>4, <2>1, Now DEF TypeOK
  <2>4. PICK h : h = has'
    OBVIOUS
  <2>5. Fits(kind, v, failures[v], edits, phase[v], pv[v], call[v].task, call[v].pc, call[v].made, h)
    <3>1. Fits(kind, v, failures[v], edits, phase[v], pv[v],
               call[v].task, call[v].pc, call[v].made, has)
      BY Now
    <3>2. \A a \in Own(kind, v) : a.type # "watch"
      BY DEF Own, Makes, CephKinds, FileKinds, BlockKinds
    <3>3. h \subseteq has /\ \A a \in has : a.type # "watch" => a \in h
      BY <1>4, <2>2, <2>4
    <3>4. WhileMade(kind, v, call[v].task, call[v].pc, call[v].made, h)
      BY <3>1, <3>2, <3>3 DEF Fits, WhileMade, NotServices
    <3>5. WhileNamed(kind, v, failures[v], edits, phase[v], pv[v], call[v].task, call[v].pc, h)
      BY <3>1, <3>2, <3>3 DEF Fits, WhileNamed, Sure, NotServices
    <3>6. Running(kind, v, failures[v], edits, phase[v], pv[v], call[v].task, call[v].pc, call[v].made, h)
      BY <3>1, <3>3 DEF Fits, Running, Started, Asset
    <3>7. WhileUsed(kind, v, phase[v], pv[v], call[v].task, call[v].pc, call[v].made, h)
      BY <3>1, <3>3 DEF Fits, WhileUsed
    <3> QED
      BY <3>1, <3>4, <3>5, <3>6, <3>7 DEF Fits
  <2>6. OnlyOf(v, has')
    <3>1. kind \in Watched
      BY <1>4, <2>2, Now DEF Fits, WhileUsed
    <3> QED
      BY <1>4, <2>2, <3>1 DEF OnlyOf, Fixed, Watched, CloudCopies
  <2>. HIDE DEF w
  <2> QED
    BY <2>1, <2>3, <2>4, <2>5, <2>6, StepFits
<1>5. CASE UnmapImage(v)
  BY <1>4, <1>5, SmallNames DEF UnmapImage, Watcher
<1>6. CASE LeaveCopy(v)
  BY <1>4, <1>6, SmallNames DEF LeaveCopy, InUse, apiVars, boundVars, fixedVars
<1>7. ASSUME NEW d \in Droplets, Detach(v, d)
      PROVE  IInv'
  BY <1>4, <1>7, SmallNames DEF Detach, Attached, Attachment, Kubelet, Droplets
<1> QED
  BY <1>1, <1>2, <1>3, <1>5, <1>6, <1>7 DEF Node
-----------------------------------------------------------------------------
(* lib/controller, and the users.                                          *)

LEMMA ControllerFits ==
  ASSUME IInv, NEW v \in Volumes, Controller(v) \/ Appear(v) \/ ReleasePV(v)
  PROVE  IInv'
<1>1. /\ TypeOK /\ call[v] \in Calls /\ failures[v] \in Nat /\ edits \in Nat
      /\ Fits(kind, v, failures[v], edits, phase[v], pv[v],
              call[v].task, call[v].pc, call[v].made, has)
      /\ call[v].task = "none" => call[v] = Idle
      /\ call[v].task = "none" => call[v].pc = "out" /\ call[v].made = {}
  BY Now, IdleTyped DEF TypeOK
<1>2. /\ UNCHANGED <<kind, claim, class, memory, has, crashes, edits>>
      /\ phase' \in [Volumes -> {"new", "wanted", "bound", "released", "gone"}]
      /\ pv' \in [Volumes -> SUBSET Assets]
      /\ \A u \in Volumes \ {v} : UNCHANGED <<phase[u], pv[u], failures[u], call[u]>>
      /\ failures' \in [Volumes -> Nat] /\ faults' \in 0 .. MaxFaults
  <2>1. UNCHANGED <<kind, claim, class, memory, has, crashes, edits>>
    BY DEF Controller, StartProvision, SavePV, StartDelete, RemovePV, Return, Appear, ReleasePV,
           apiVars, fixedVars, boundVars
  <2>2. \/ UNCHANGED <<faults, failures>>
        \/ Fault(v)
    BY DEF Controller, StartProvision, SavePV, StartDelete, RemovePV, Return, Appear, ReleasePV,
           NoFault, boundVars
  <2>3. /\ failures' \in [Volumes -> Nat] /\ faults' \in 0 .. MaxFaults
        /\ \A u \in Volumes \ {v} : failures'[u] = failures[u]
    BY <1>1, <2>2, CallsAssumption DEF Fault, MayGoWrong, TypeOK
  <2>4. /\ phase' \in [Volumes -> {"new", "wanted", "bound", "released", "gone"}]
        /\ pv' \in [Volumes -> SUBSET Assets]
        /\ \A u \in Volumes \ {v} : UNCHANGED <<phase[u], pv[u], call[u]>>
    BY <1>1, Now DEF TypeOK, Controller, StartProvision, SavePV, StartDelete, RemovePV, Return, Appear,
           ReleasePV, apiVars, fixedVars
  <2> QED
    BY <2>1, <2>3, <2>4
<1>3. ASSUME call' \in [Volumes -> Calls], call'[v] = Idle \/ call'[v].task # "none",
             Fits(kind, v, failures'[v], edits, phase'[v], pv'[v],
                  call'[v].task, call'[v].pc, call'[v].made, has)
      PROVE  IInv'
  <2>1. \A u \in Volumes : (call'[u].task = "none") = (call'[u] = Idle)
    <3>1. (call'[v].task = "none") = (call'[v] = Idle)
      BY <1>3, IdleTyped
    <3>2. \A u \in Volumes : (call[u].task = "none") = (call[u] = Idle)
      BY <1>1 DEF TypeOK
    <3> QED
      BY <1>2, <3>1, <3>2
  <2>2. TypeOK'
    BY <1>1, <1>2, <1>3, <2>1 DEF TypeOK
  <2>3. OnlyOf(v, has')
    BY <1>2 DEF OnlyOf
  <2>4. Fits(kind, v, failures'[v], edits, phase'[v], pv'[v],
             call'[v].task, call'[v].pc, call'[v].made, has')
    BY <1>2, <1>3
  <2> QED
    BY <1>2, <2>2, <2>3, <2>4, StepFits
<1>4. CASE StartProvision(v)
  <2>1. /\ call[v] = Idle /\ phase[v] = "wanted" /\ UNCHANGED <<phase, pv, failures>>
        /\ call' = [call EXCEPT ![v] = [Idle EXCEPT !.task = "provision", !.pc = "provision"]]
    BY <1>4 DEF StartProvision, NoFault, apiVars
  <2>2. /\ [Idle EXCEPT !.task = "provision", !.pc = "provision"] \in Calls
        /\ call' \in [Volumes -> Calls]
        /\ call'[v].task = "provision" /\ call'[v].pc = "provision" /\ call'[v].made = {}
    <3>1. [Idle EXCEPT !.task = "provision", !.pc = "provision"] \in Calls
      BY SmallNames DEF Idle, Calls, Tasks, Making
    <3> QED
      BY <1>1, <2>1, <3>1 DEF TypeOK, Idle
  <2>3. Fits(kind, v, failures[v], edits, phase[v], pv[v], "provision", "provision", {}, has)
    BY <1>1, <2>1, IdleTyped DEF Fits, InPhase, WhileMade, WhileNamed, Sure, Running, WhileUsed, NotServices, Making
  <2> QED
    BY <1>3, <2>1, <2>2, <2>3
<1>5. CASE StartDelete(v)
  <2>1. /\ call[v] = Idle /\ phase[v] = "released" /\ UNCHANGED <<phase, pv, failures>>
        /\ call' = [call EXCEPT ![v] = [Idle EXCEPT !.task = "delete", !.pc = "delete"]]
    BY <1>5 DEF StartDelete, NoFault, apiVars
  <2>2. /\ call' \in [Volumes -> Calls]
        /\ call'[v].task = "delete" /\ call'[v].pc = "delete" /\ call'[v].made = {}
    <3>1. [Idle EXCEPT !.task = "delete", !.pc = "delete"] \in Calls
      BY SmallNames DEF Idle, Calls, Tasks, Removing
    <3> QED
      BY <1>1, <2>1, <3>1 DEF TypeOK, Idle
  <2>3. Fits(kind, v, failures[v], edits, phase[v], pv[v], "delete", "delete", {}, has)
    <3>1. \A type : "delete" \notin Gone(kind, type)
      BY DEF Gone, FileKinds
    <3> QED
      BY <1>1, <2>1, <3>1, IdleTyped DEF Fits, InPhase, WhileMade, WhileNamed, Sure, Running, WhileUsed, Removing
  <2> QED
    BY <1>3, <2>1, <2>2, <2>3
<1>6. CASE SavePV(v)
  <2>1. call[v].pc = "done" /\ call[v].task = "provision" /\ phase[v] = "wanted"
    BY <1>1, <1>6 DEF SavePV, Fits, InPhase
  <2>2. CASE /\ phase' = [phase EXCEPT ![v] = "bound"]
             /\ pv' = [pv EXCEPT ![v] = call[v].made]
             /\ call' = [call EXCEPT ![v] = Idle]
             /\ NoFault
    <3>1. /\ phase'[v] = "bound" /\ pv'[v] = call[v].made /\ failures'[v] = failures[v]
          /\ call' \in [Volumes -> Calls] /\ call'[v] = Idle
      BY <1>1, <2>2, IdleTyped DEF TypeOK, NoFault
    <3>2. Fits(kind, v, failures[v], edits, "bound", call[v].made, "none", "out", {}, has)
      BY <1>1, <2>1 DEF Fits, InPhase, WhileMade, WhileNamed, Sure, Running, WhileUsed
    <3> QED
      BY <1>3, <3>1, <3>2, IdleTyped
  <2>3. CASE /\ Fault(v)
             /\ call' = [call EXCEPT ![v].task = "cleanup", ![v].pc = "delete"]
             /\ UNCHANGED <<phase, pv>>
    <3>1. /\ call' \in [Volumes -> Calls]
          /\ call'[v].task = "cleanup" /\ call'[v].pc = "delete" /\ call'[v].made = call[v].made
      <4>1. [call[v] EXCEPT !.task = "cleanup", !.pc = "delete"] \in Calls
        BY <1>1 DEF Calls, Tasks, Removing
      <4> QED
        BY <1>1, <2>3, <4>1 DEF TypeOK, Calls
    <3>2. failures'[v] = failures[v] + 1 /\ failures[v] + 1 \in Nat
      BY <1>1, <2>3 DEF Fault, TypeOK
    <3>3. Fits(kind, v, failures[v] + 1, edits, phase[v], pv[v], "cleanup", "delete", call[v].made, has)
      BY <1>1, <2>1 DEF Fits, InPhase, WhileMade, WhileNamed, Sure, Running, WhileUsed, Removing
    <3> QED
      BY <1>3, <2>3, <3>1, <3>2, <3>3
  <2> QED
    BY <1>6, <2>2, <2>3 DEF SavePV
<1>7. CASE RemovePV(v)
  <2>1. /\ call[v].pc = "done" /\ call[v].task = "delete" /\ phase[v] = "released"
        /\ phase'[v] = "gone" /\ UNCHANGED <<pv, failures>>
        /\ call' \in [Volumes -> Calls] /\ call'[v] = Idle
    BY <1>1, <1>7, IdleTyped DEF RemovePV, Fits, InPhase, TypeOK
  <2>2. Fits(kind, v, failures[v], edits, "gone", pv[v], "none", "out", {}, has)
    <3>1. InPhase(kind, "gone", "none", "out")
      BY <1>1, <2>1 DEF Fits, InPhase
    <3>2. \A a \in Own(kind, v) : a.type = "service" \/ "done" \in Gone(kind, a.type)
      BY DEF Own, Makes, Gone, CephKinds, FileKinds, BlockKinds
    <3>3. WhileNamed(kind, v, failures[v], edits, "gone", pv[v], "none", "out", has)
      BY <1>1, <2>1, <3>2 DEF Fits, WhileNamed, Sure, NotServices
    <3> QED
      BY <1>1, <2>1, <3>1, <3>3 DEF Fits, WhileMade, Running, WhileUsed
  <2> QED
    BY <1>3, <2>1, <2>2, IdleTyped
<1>8. CASE Return(v)
  <2>1. /\ call[v].pc = "error" \/ (call[v].pc = "done" /\ call[v].task = "cleanup")
        /\ call[v].task # "none" /\ UNCHANGED <<phase, pv, failures>>
        /\ call' \in [Volumes -> Calls] /\ call'[v] = Idle
    BY <1>1, <1>8, IdleTyped DEF Return, NoFault, apiVars, TypeOK
  <2>2. Fits(kind, v, failures[v], edits, phase[v], pv[v], "none", "out", {}, has)
    BY <1>1, <2>1, Now DEF Fits, InPhase, WhileMade, WhileNamed, Sure, Running, WhileUsed, Tasks, Calls
  <2> QED
    BY <1>3, <2>1, <2>2, IdleTyped
<1>9. CASE Appear(v)
  <2>1. phase[v] = "new" /\ phase'[v] = "wanted" /\ UNCHANGED <<pv, failures, call>>
    BY <1>1, <1>9 DEF Appear, TypeOK
  <2>2. call[v].task = "none" /\ call[v].pc = "out" /\ call[v].made = {}
    BY <1>1, <2>1 DEF Fits, InPhase, Calls, Tasks
  <2>3. Fits(kind, v, failures[v], edits, "wanted", pv[v], "none", "out", {}, has)
    BY <1>1, <2>1, <2>2 DEF Fits, InPhase, WhileMade, WhileNamed, Sure, Running, WhileUsed
  <2> QED
    BY <1>1, <1>3, <2>1, <2>2, <2>3 DEF TypeOK
<1>10. CASE ReleasePV(v)
  <2>1. phase[v] = "bound" /\ phase'[v] = "released" /\ UNCHANGED <<pv, failures, call>>
    BY <1>1, <1>10 DEF ReleasePV, TypeOK
  <2>2. call[v].task = "none" /\ call[v].pc = "out" /\ call[v].made = {}
    BY <1>1, <2>1 DEF Fits, InPhase, Calls, Tasks
  <2>3. Fits(kind, v, failures[v], edits, "released", pv[v], "none", "out", {}, has)
    <3>1. Started(v).type = "started"
      BY DEF Started, Asset
    <3> QED
      BY <1>1, <2>1, <2>2, <3>1 DEF Fits, InPhase, WhileMade, WhileNamed, Sure, Running, WhileUsed, NotServices
  <2> QED
    BY <1>1, <1>3, <2>1, <2>2, <2>3 DEF TypeOK
<1> QED
  BY <1>4, <1>5, <1>6, <1>7, <1>8, <1>9, <1>10 DEF Controller

LEMMA EditClassFits ==
  ASSUME IInv, EditClass
  PROVE  IInv'
<1>1. /\ class' \in {"valid", "invalid", "absent"} /\ edits' = edits + 1 /\ edits < MaxEdits
      /\ UNCHANGED <<kind, claim, memory, phase, pv, has, call, failures, faults, crashes>>
  BY DEF EditClass, MayGoWrong, fixedVars
<1>2. edits \in Nat /\ edits' \in 0 .. MaxEdits /\ edits' # 0 /\ TypeOK
  BY <1>1, CallsAssumption DEF IInv, TypeOK
<1>3. TypeOK'
  BY <1>1, <1>2 DEF TypeOK
<1>4. ASSUME NEW v \in Volumes
      PROVE  FitsNow(v)'
  <2>1. PICK e \in Nat : e = edits'
    BY <1>2
  <2>2. Fits(kind, v, failures[v], edits, phase[v], pv[v],
             call[v].task, call[v].pc, call[v].made, has)
    BY Now
  <2>3. failures[v] \in Nat /\ e > 0
    BY <1>1, <1>2, <2>1, Now
  <2>4. Logged(kind, failures[v], edits) => Logged(kind, failures[v], e)
    BY <2>3 DEF Logged
  <2>5. WhileNamed(kind, v, failures[v], e, phase[v], pv[v], call[v].task, call[v].pc, has)
    BY <2>2, <2>4 DEF Fits, WhileNamed, Sure
  <2>6. Running(kind, v, failures[v], e, phase[v], pv[v], call[v].task, call[v].pc, call[v].made, has)
    BY <2>2, <2>3 DEF Fits, Running
  <2>7. Fits(kind, v, failures[v], e, phase[v], pv[v], call[v].task, call[v].pc, call[v].made, has)
    BY <2>2, <2>5, <2>6 DEF Fits
  <2> QED
    BY <1>1, <2>1, <2>7 DEF FitsNow
<1> QED
  BY <1>2, <1>3, <1>4 DEF IInv
-----------------------------------------------------------------------------
(* The invariant, and what it implies.                                     *)

LEMMA Inductive == Spec => []IInv
<1>1. Init => IInv
  <2>. SUFFICES ASSUME Init
                PROVE  IInv
    OBVIOUS
  <2>1. TypeOK
    BY IdleTyped, CallsAssumption DEF Init, TypeOK
  <2>2. ASSUME NEW v \in Volumes
        PROVE  FitsNow(v)
    BY IdleTyped DEF Init, FitsNow, Fits, InPhase, WhileMade, WhileNamed, Sure, Running, WhileUsed, NotServices
  <2> QED
    BY <2>1, <2>2 DEF Init, IInv
<1>2. IInv /\ [Next]_vars => IInv'
  <2>. SUFFICES ASSUME IInv, [Next]_vars
                PROVE  IInv'
    OBVIOUS
  <2>1. ASSUME NEW v \in Volumes, Provisioner(v)
        PROVE  IInv'
    BY <2>1, DirectoriesFit, RbdFits, CephFSFits, PluginsFit, TargetdFits, GlusterFits, PromoterFits
       DEF Provisioner, Ceph
  <2>2. ASSUME NEW v \in Volumes, Controller(v) \/ Node(v) \/ Appear(v) \/ ReleasePV(v)
        PROVE  IInv'
    BY <2>2, ControllerFits, NodeFits
  <2>3. CASE EditClass
    BY <2>3, EditClassFits
  <2>4. CASE Crash
    BY <2>4, DieFits DEF Crash
  <2>5. CASE UNCHANGED vars
    BY <2>5 DEF vars, fixedVars, boundVars, IInv, TypeOK, FitsNow
  <2> QED
    BY <2>1, <2>2, <2>3, <2>4, <2>5 DEF Next
<1> QED
  BY <1>1, <1>2, PTL DEF Spec

(* Every object, call, asset and counter has its type, whatever fails.     *)
THEOREM TypeCorrect == Spec => []TypeOK
<1>1. IInv => TypeOK
  BY DEF IInv
<1> QED
  BY <1>1, Inductive, PTL

(* While a PV is bound, no Provision, cleanup or Delete of any volume takes *)
(* away what it names.                                                     *)
THEOREM BackedCorrect == Spec => []Backed
<1>1. IInv => Backed
  BY Now DEF Backed, Fits, WhileNamed, Sure, NotServices
<1> QED
  BY <1>1, Inductive, PTL

(* A Delete that reports success, so that the PV is removed, has removed   *)
(* each asset that the PV names, unless an error of that asset's removal   *)
(* is only logged: every other failed step keeps the PV.                   *)
THEOREM GoneMeansGoneCorrect == Spec => []GoneMeansGone
<1>1. IInv => GoneMeansGone
  <2>. SUFFICES ASSUME IInv, NEW v \in Volumes, phase[v] = "gone",
                       NEW a \in pv[v] \cap has, a.type # "service", ~OnlyLogged(v, a)
                PROVE  FALSE
    BY DEF GoneMeansGone
  <2>1. ~Logged(kind, failures[v], edits) /\ failures[v] \in Nat
    BY Now DEF OnlyLogged, Logged
  <2>2. a.type \in Makes(kind)
    BY Now DEF Fits, WhileNamed, Own
  <2>3. a.type = "user" => kind \in CephKinds
    BY <2>2 DEF Makes, FileKinds, BlockKinds, CephKinds
  <2>4. a \in Sure(failures[v], pv[v])
    BY <2>1, <2>3 DEF OnlyLogged, Sure, NotServices
  <2> QED
    BY <2>1, <2>4, Now DEF Fits, WhileNamed
<1> QED
  BY <1>1, Inductive, PTL

(* No Delete, and nothing else, removes a volume that a node uses.         *)
THEOREM InUseKeptCorrect == Spec => []InUseKept
<1>1. IInv => InUseKept
  BY UsedExists DEF InUseKept
<1> QED
  BY <1>1, Inductive, PTL
-----------------------------------------------------------------------------
(* What is left, and why.  These name the assets that a volume holds, and  *)
(* what excuses one that nobody holds.                                     *)

(* Whoever may have made an asset, judged by its name: several volumes may *)
(* share a service, and GlusterFS mixes up whose.                          *)
NamedLike(v, a) ==
  /\ kind \in FileKinds \/ a.of \in {v, claim[v].name}
  /\ a.type = "service" => a.n = 0

(* Why an asset may be left.                                               *)
Excuse(a) ==
  \/ kind = "glusterCopy"
  \/ kind = "openebs" /\ \E v \in Volumes : a.of = v /\ claim[v].style = "manyWriters"
  \/ kind \in FileKinds \cup {"glusterfs"} /\ edits > 0
  \/ \E u \in Volumes : NamedLike(u, a) /\ failures[u] > 0

(* A volume holds an asset from when it is made until Delete removed it.   *)
Holds(v, a) ==
  \/ call[v].task = "provision" /\ call[v].pc \in Making \cup {"done"} /\ a \in call[v].made
  \/ phase[v] = "bound" /\ a \in pv[v]
  \/ /\ phase[v] = "released" /\ a \in pv[v]
     /\ a.type = "service" /\ call[v].task = "delete" => call[v].pc \notin {"release", "done"}

Kept(a) == a.type \in {"watch", "archive"} \/ Excuse(a) \/ \E v \in Volumes : Holds(v, a)

(* What an attempt made when it is at a step that may refuse to go on.     *)
SoFar(k, v, name, pc, n, made) ==
  LET By(type) == Asset(type, IF k = "cephfs" THEN v ELSE name, n)
  IN  /\ pc \in {"provision", "list", "gid", "restore", "share"} => made = {}
      /\ pc \in {"parse", "create"} /\ k \notin FileKinds \cup {"glusterfs"} => made = {}
      /\ pc \in {"parse", "bricks", "create"} /\ k = "glusterfs" =>
           \A a \in made : a.type \in {"gid", "brick"}
      /\ k \in CephKinds =>
           /\ pc = "authorize" => made = {By("volume")}
           /\ pc = "secret" => made = {By("volume"), By("user")}
           /\ pc = "done" => made = {By("volume"), By("user"), By("secret")}
           /\ k = "cephfsFixed" => n = 0

Attempt(v) ==
  call[v].task = "provision" =>
    /\ \A a \in call[v].made : NamedLike(v, a)
    /\ SoFar(kind, v, claim[v].name, call[v].pc, call[v].n, call[v].made)

Published(v) ==
  phase[v] \in {"bound", "released"} =>
    /\ \A a \in pv[v] : NamedLike(v, a)
    /\ kind = "cephfsFixed" =>
         pv[v] = {Asset(type, claim[v].name, 0) : type \in {"volume", "user", "secret"}}

(* Two claims of one name do not exist at the same time.                   *)
OneOfAName ==
  \A u, v \in Volumes :
    u # v /\ claim[u].name = claim[v].name =>
      ~(phase[u] \in {"wanted", "bound"} /\ phase[v] \in {"wanted", "bound"})

LInv ==
  /\ \A a \in has : Kept(a)
  /\ \A v \in Volumes : Attempt(v) /\ Published(v)
  /\ OneOfAName
-----------------------------------------------------------------------------
(* What steps leave.                                                       *)

LEMMA HeldIsNamed ==
  ASSUME LInv, NEW v \in Volumes, NEW a, Holds(v, a)
  PROVE  NamedLike(v, a)
BY DEF LInv, Holds, Attempt, Published

LEMMA FailureExcuses ==
  ASSUME NEW v \in Volumes, NEW a, NamedLike(v, a), failures[v] > 0
  PROVE  Excuse(a)
BY DEF Excuse

(* A step of one volume: what is new, and what it held, is to be kept.     *)
LEMMA StepKeeps ==
  ASSUME IInv, LInv, NEW v \in Volumes,
         UNCHANGED <<kind, claim>>, edits' \in Nat, edits' >= edits,
         \A u \in Volumes : failures'[u] \in Nat /\ failures'[u] >= failures[u],
         \A u \in Volumes \ {v} : UNCHANGED <<call[u], phase[u], pv[u]>>,
         \A a \in has' : a \notin has \/ Holds(v, a) => Kept(a)'
  PROVE  \A a \in has' : Kept(a)'
<1> SUFFICES ASSUME NEW a \in has', a \in has PROVE Kept(a)'
  OBVIOUS
<1>1. /\ edits \in Nat /\ \A u \in Volumes : failures[u] \in Nat
      /\ \A u \in Volumes : failures[u] > 0 => failures'[u] > 0
      /\ edits > 0 => edits' > 0
  BY DEF IInv, TypeOK
<1>2. CASE a.type \in {"watch", "archive"}
  BY <1>2 DEF Kept
<1>3. CASE Excuse(a)
  BY <1>1, <1>3 DEF Kept, Excuse, NamedLike
<1>4. ASSUME NEW u \in Volumes, Holds(u, a) PROVE Kept(a)'
  <2>1. CASE u = v
    BY <1>4, <2>1
  <2>2. CASE u # v
    BY <1>4, <2>2 DEF Holds, Kept
  <2> QED
    BY <2>1, <2>2
<1> QED
  BY <1>2, <1>3, <1>4 DEF LInv, Kept

(* The call of one volume goes on.                                         *)
OnlyCallOf(v) ==
  /\ UNCHANGED <<kind, claim, edits, phase, pv>>
  /\ \A u \in Volumes \ {v} : call'[u] = call[u] /\ failures'[u] = failures[u]
  /\ call'[v].task = call[v].task

SoFarNow(v, pc, n, made) == SoFar(kind, v, claim[v].name, pc, n, made)

LEMMA CallLeft ==
  ASSUME IInv, LInv, NEW v \in Volumes, OnlyCallOf(v),
         failures'[v] \in {failures[v], failures[v] + 1},
         \A a \in has' : a \notin has \/ Holds(v, a) => Kept(a)',
         call[v].task = "provision" =>
           /\ \A a \in call'[v].made \ call[v].made : NamedLike(v, a)
           /\ SoFarNow(v, call'[v].pc, call'[v].n, call'[v].made)
  PROVE  LInv'
<1>1. /\ edits' \in Nat /\ edits' >= edits
      /\ \A u \in Volumes : failures'[u] \in Nat /\ failures'[u] >= failures[u]
      /\ \A u \in Volumes \ {v} : UNCHANGED <<call[u], phase[u], pv[u]>>
  BY DEF IInv, TypeOK, OnlyCallOf
<1>2. \A a \in has' : Kept(a)'
  BY <1>1, StepKeeps DEF OnlyCallOf
<1>3. \A u \in Volumes : Published(u)' /\ OneOfAName'
  BY DEF LInv, Published, OneOfAName, OnlyCallOf, NamedLike
<1>4. \A u \in Volumes \ {v} : Attempt(u)'
  BY DEF LInv, Attempt, OnlyCallOf, NamedLike
<1>5. Attempt(v)'
  BY DEF LInv, Attempt, OnlyCallOf, NamedLike, SoFarNow
<1> QED
  BY <1>2, <1>3, <1>4, <1>5 DEF LInv

(* It fails: whatever the volume has is excused.                           *)
LEMMA FailLeft ==
  ASSUME IInv, LInv, NEW v \in Volumes, OnlyCallOf(v),
         failures'[v] = failures[v] + 1,
         \A a \in has' \ has : NamedLike(v, a) \/ a.type = "archive",
         call'[v].made = call[v].made,
         call[v].task = "provision" => SoFarNow(v, call'[v].pc, call'[v].n, call[v].made)
  PROVE  LInv'
<1>1. failures'[v] > 0
  BY DEF IInv, TypeOK
<1>2. ASSUME NEW a, NamedLike(v, a) PROVE Kept(a)'
  BY <1>1, <1>2 DEF Kept, Excuse, NamedLike, OnlyCallOf
<1> QED
  BY <1>2, HeldIsNamed, CallLeft DEF Kept

(* It does not: what it made so far is in its hand, and what Delete does   *)
(* not hold any more is gone.                                              *)
Services(v) == {a \in pv[v] : a.type = "service"}

LEMMA GoesLeft ==
  ASSUME IInv, LInv, NEW v \in Volumes, OnlyCallOf(v),
         failures'[v] = failures[v],
         \A a \in has' \ has : a \in call'[v].made \/ a.type = "archive",
         call[v].made \subseteq call'[v].made,
         call[v].task = "provision" =>
           /\ \A a \in call'[v].made \ call[v].made : NamedLike(v, a)
           /\ SoFarNow(v, call'[v].pc, call'[v].n, call'[v].made)
           /\ \/ call'[v].pc \in Making \cup {"done"}
              \/ has' \subseteq has /\ call[v].pc \notin Making \cup {"done"}
              \/ has' \subseteq has /\ \A a \in call[v].made \cap has : Excuse(a)
              \/ has' \subseteq has /\ \A a \in call[v].made \cap has :
                   \E u \in Volumes \ {v} : Holds(u, a),
         call[v].task = "delete" /\ call'[v].pc \in {"release", "done"} =>
           call[v].pc \in {"release", "done"} \/ Services(v) \cap has' = {},
         call[v].task # "provision" => \A a \in has' \ has : a.type = "archive"
  PROVE  LInv'
<1> SUFFICES ASSUME NEW a \in has', a \notin has \/ Holds(v, a) PROVE Kept(a)'
  BY CallLeft DEF IInv, TypeOK
<1>1. CASE a.type = "archive"
  BY <1>1 DEF Kept
<1>2. CASE a.type # "archive" /\ call[v].task = "provision" /\ a \in call'[v].made
           /\ call'[v].pc \in Making \cup {"done"}
  BY <1>2 DEF Kept, Holds, OnlyCallOf
<1>3. CASE Excuse(a)
  BY <1>3 DEF Kept, Excuse, NamedLike, OnlyCallOf
<1>4. ASSUME NEW u \in Volumes \ {v}, Holds(u, a) PROVE Kept(a)'
  BY <1>4 DEF Kept, Holds, OnlyCallOf
<1>5. CASE phase[v] = "bound" /\ a \in pv[v]
  BY <1>5 DEF Kept, Holds, OnlyCallOf
<1>6. CASE /\ phase[v] = "released" /\ a \in pv[v]
           /\ a.type = "service" /\ call[v].task = "delete" => call[v].pc \notin {"release", "done"}
  BY <1>6 DEF Kept, Holds, OnlyCallOf, Services
<1> QED
  BY <1>1, <1>2, <1>3, <1>4, <1>5, <1>6 DEF Holds

(* What requests do.                                                       *)
LEMMA GotoIs ==
  ASSUME IInv, NEW v \in Volumes, NEW pc, Goto(v, pc), UNCHANGED apiVars,
         \A u \in Volumes \ {v} : failures'[u] = failures[u]
  PROVE  OnlyCallOf(v) /\ call'[v] = [call[v] EXCEPT !.pc = pc]
BY DEF Goto, OnlyCallOf, apiVars, fixedVars, IInv, TypeOK, Calls

LEMMA FaultIs ==
  ASSUME IInv, NEW v \in Volumes, Fault(v)
  PROVE  failures'[v] = failures[v] + 1 /\ \A u \in Volumes \ {v} : failures'[u] = failures[u]
BY DEF Fault, IInv, TypeOK

LEMMA FieldsOf ==
  ASSUME NEW c \in Calls, NEW d, NEW pc, NEW made,
         d = [c EXCEPT !.pc = pc] \/ d = [c EXCEPT !.pc = pc, !.made = made]
  PROVE  d.task = c.task /\ d.pc = pc /\ d.n = c.n /\ d.made \in {c.made, made}
BY DEF Calls

LEMMA RequestIs ==
  ASSUME IInv, NEW v \in Volumes, NEW adds, NEW takes, NEW ok, NEW error,
         Request(v, adds, takes, ok, error)
  PROVE  /\ OnlyCallOf(v) /\ call'[v].n = call[v].n
         /\ \/ /\ has' = (has \ takes) \cup adds /\ failures'[v] = failures[v]
               /\ call'[v].pc = ok /\ call'[v].made = call[v].made \cup adds
            \/ /\ has' \in {has, (has \ takes) \cup adds} /\ failures'[v] = failures[v] + 1
               /\ call'[v].pc = error /\ call'[v].made = call[v].made
<1>. DEFINE after == (has \ takes) \cup adds
<1>0. call[v] \in Calls
  BY Now
<1>1. CASE /\ has' = after /\ call' = [call EXCEPT ![v].pc = ok, ![v].made = @ \cup adds]
           /\ NoFault /\ UNCHANGED apiVars
  BY <1>0, <1>1 DEF OnlyCallOf, NoFault, apiVars, fixedVars, IInv, TypeOK, Calls
<1>2. CASE Fault(v) /\ has' \in {has, after} /\ Goto(v, error) /\ UNCHANGED apiVars
  <2>1. OnlyCallOf(v) /\ call'[v] = [call[v] EXCEPT !.pc = error]
    BY <1>2, GotoIs, FaultIs
  <2> QED
    BY <1>0, <1>2, <2>1, FaultIs DEF Calls
<1> QED
  BY <1>1, <1>2 DEF Request

LEMMA RefuseIs ==
  ASSUME IInv, NEW v \in Volumes, NEW pc,
         \/ Refuse(v, pc)
         \/ Goto(v, pc) /\ NoFault /\ UNCHANGED <<has, apiVars>>
  PROVE  /\ OnlyCallOf(v) /\ has' = has /\ failures'[v] = failures[v] /\ call'[v].n = call[v].n
         /\ call'[v].pc = pc /\ call'[v].made = call[v].made
<1>1. call[v] \in Calls
  BY Now
<1>2. OnlyCallOf(v) /\ call'[v] = [call[v] EXCEPT !.pc = pc]
  BY GotoIs DEF Refuse, NoFault
<1> QED
  BY <1>1, <1>2 DEF Refuse, NoFault, Calls

(* Provision goes on, adding something or not.                             *)
LEMMA EnsureLeft ==
  ASSUME IInv, LInv, NEW v \in Volumes, call[v].pc \in Making,
         NEW adds, \A a \in adds : NamedLike(v, a),
         NEW ok \in Making \cup {"done"}, NEW error,
         SoFarNow(v, ok, call[v].n, call[v].made \cup adds),
         SoFarNow(v, error, call[v].n, call[v].made),
         Request(v, adds, {}, ok, error)
  PROVE  LInv'
<1>0. OnlyCallOf(v) /\ call'[v].n = call[v].n
  BY RequestIs
<1>1. call[v].task = "provision"
  BY Now
<1>2. CASE /\ has' = (has \ {}) \cup adds /\ failures'[v] = failures[v]
           /\ call'[v].pc = ok /\ call'[v].made = call[v].made \cup adds
  <2>1. SoFarNow(v, call'[v].pc, call'[v].n, call'[v].made)
    BY <1>0, <1>2
  <2>2. /\ \A a \in has' \ has : a \in call'[v].made
        /\ \A a \in call'[v].made \ call[v].made : NamedLike(v, a)
        /\ call[v].made \subseteq call'[v].made /\ call'[v].pc \in Making \cup {"done"}
    BY <1>2
  <2> QED
    BY <1>0, <1>1, <1>2, <2>1, <2>2, GoesLeft
<1>3. CASE /\ has' \in {has, (has \ {}) \cup adds} /\ failures'[v] = failures[v] + 1
           /\ call'[v].pc = error /\ call'[v].made = call[v].made
  BY <1>0, <1>1, <1>3, FailLeft
<1> QED
  BY <1>2, <1>3, RequestIs

LEMMA OnwardLeft ==
  ASSUME IInv, LInv, NEW v \in Volumes, call[v].pc \in Making,
         NEW ok \in Making \cup {"done"}, NEW error,
         SoFarNow(v, ok, call[v].n, call[v].made),
         SoFarNow(v, error, call[v].n, call[v].made),
         \/ Ask(v, ok, error)
         \/ Goto(v, ok) /\ NoFault /\ UNCHANGED <<has, apiVars>>
  PROVE  LInv'
<1>1. call[v].task = "provision" /\ call[v].made \cup {} = call[v].made
  BY Now
<1>2. CASE Ask(v, ok, error)
  BY <1>1, <1>2, EnsureLeft DEF Ask
<1>3. CASE Goto(v, ok) /\ NoFault /\ UNCHANGED <<has, apiVars>>
  <2>1. /\ OnlyCallOf(v) /\ has' = has /\ failures'[v] = failures[v] /\ call'[v].n = call[v].n
        /\ call'[v].pc = ok /\ call'[v].made = call[v].made
    BY <1>3, RefuseIs
  <2>2. SoFarNow(v, call'[v].pc, call'[v].n, call'[v].made)
    BY <2>1
  <2> QED
    BY <1>1, <2>1, <2>2, GoesLeft
<1> QED
  BY <1>2, <1>3

(* Provision gives up, before it made anything or when that is excused.    *)
LEMMA RefuseLeft ==
  ASSUME IInv, LInv, NEW v \in Volumes, call[v].pc \in Making, NEW error,
         SoFarNow(v, error, call[v].n, call[v].made),
         \/ \A a \in call[v].made \cap has : Excuse(a)
         \/ \A a \in call[v].made \cap has : \E u \in Volumes \ {v} : Holds(u, a),
         \/ Refuse(v, error)
         \/ Ask(v, error, error)
  PROVE  LInv'
<1>1. call[v].task = "provision" /\ call[v].made \cup {} = call[v].made /\ (has \ {}) \cup {} = has
  BY Now
<1>2. /\ OnlyCallOf(v) /\ has' = has /\ call'[v].n = call[v].n
      /\ call'[v].pc = error /\ call'[v].made = call[v].made
      /\ failures'[v] = failures[v] \/ failures'[v] = failures[v] + 1
  <2>1. CASE Refuse(v, error)
    BY <2>1, RefuseIs
  <2>2. CASE Ask(v, error, error)
    <3>1. Request(v, {}, {}, error, error)
      BY <2>2 DEF Ask
    <3>2. /\ OnlyCallOf(v) /\ call'[v].n = call[v].n
          /\ \/ /\ has' = (has \ {}) \cup {} /\ failures'[v] = failures[v]
                /\ call'[v].pc = error /\ call'[v].made = call[v].made \cup {}
             \/ /\ has' \in {has, (has \ {}) \cup {}} /\ failures'[v] = failures[v] + 1
                /\ call'[v].pc = error /\ call'[v].made = call[v].made
      BY <3>1, RequestIs
    <3> QED
      BY <1>1, <3>2
  <2> QED
    BY <2>1, <2>2
<1>3. SoFarNow(v, call'[v].pc, call'[v].n, call'[v].made)
  BY <1>2
<1>4. CASE failures'[v] = failures[v]
  BY <1>1, <1>2, <1>3, <1>4, GoesLeft
<1>5. CASE failures'[v] = failures[v] + 1
  BY <1>1, <1>2, <1>3, <1>5, FailLeft
<1> QED
  BY <1>2, <1>4, <1>5

(* Where errors lead, nothing is asked of what was made.                   *)
LEMMA ErrorSoFar ==
  ASSUME LInv, NEW v \in Volumes, call[v].task = "provision", NEW made,
         NEW pc \in {"error"} \cup Undoing
  PROVE  SoFarNow(v, pc, call[v].n, made)
BY DEF SoFarNow, SoFar, Undoing, LInv, Attempt

(* Delete, and the undoing of Provision, remove things.                    *)
LEMMA TakeLeft ==
  ASSUME IInv, LInv, NEW v \in Volumes, call[v].pc \in Removing \cup Undoing,
         NEW adds, \A a \in adds : a.type = "archive", NEW takes, NEW ok, NEW error,
         call[v].task # "provision" \/ {ok, error} \subseteq {"error"} \cup Undoing,
         call[v].task = "provision" => adds = {},
         call[v].task = "delete" /\ ok \in {"release", "done"} =>
           call[v].pc = "release" \/ Services(v) \cap has \subseteq takes,
         Request(v, adds, takes, ok, error)
  PROVE  LInv'
<1>1. call[v].pc \notin Making \cup {"done"}
  BY DEF Removing, Undoing, Making
<1>2. /\ OnlyCallOf(v) /\ call'[v].n = call[v].n /\ call'[v].pc \in {ok, error}
      /\ call[v].task = "provision" => SoFarNow(v, call'[v].pc, call'[v].n, call'[v].made)
  <2>1. /\ OnlyCallOf(v) /\ call'[v].n = call[v].n /\ call'[v].pc \in {ok, error}
    BY RequestIs
  <2>2. ASSUME call[v].task = "provision"
        PROVE  SoFarNow(v, call'[v].pc, call[v].n, call'[v].made)
    <3>1. call'[v].pc \in {"error"} \cup Undoing
      BY <2>1, <2>2
    <3> QED
      BY <2>2, <3>1, ErrorSoFar
  <2> QED
    BY <2>1, <2>2
<1>3. CASE /\ has' = (has \ takes) \cup adds /\ failures'[v] = failures[v]
           /\ call'[v].pc = ok /\ call'[v].made = call[v].made \cup adds
  <2>1. Services(v) \cap adds = {}
    BY DEF Services
  <2> QED
    BY <1>1, <1>2, <1>3, <2>1, GoesLeft
<1>4. CASE /\ has' \in {has, (has \ takes) \cup adds} /\ failures'[v] = failures[v] + 1
           /\ call'[v].pc = error /\ call'[v].made = call[v].made
  BY <1>2, <1>4, FailLeft
<1> QED
  BY <1>3, <1>4, RequestIs

LEMMA SkipLeft ==
  ASSUME IInv, LInv, NEW v \in Volumes, call[v].pc \in Removing \cup Undoing, NEW pc,
         call[v].task # "provision" \/ pc \in {"error"} \cup Undoing,
         call[v].task = "delete" /\ pc \in {"release", "done"} =>
           call[v].pc = "release" \/ Services(v) \cap has = {},
         \/ Refuse(v, pc)
         \/ Goto(v, pc) /\ NoFault /\ UNCHANGED <<has, apiVars>>
  PROVE  LInv'
<1>1. call[v].pc \notin Making \cup {"done"}
  BY DEF Removing, Undoing, Making
<1>2. /\ OnlyCallOf(v) /\ has' = has /\ failures'[v] = failures[v] /\ call'[v].n = call[v].n
      /\ call'[v].pc = pc /\ call'[v].made = call[v].made
  BY RefuseIs
<1>3. call[v].task = "provision" => SoFarNow(v, call'[v].pc, call'[v].n, call'[v].made)
  BY <1>2, ErrorSoFar
<1> QED
  BY <1>1, <1>2, <1>3, GoesLeft
(* The process ends: what was in hand is excused, what is named stays so.  *)
LEMMA DieLeft ==
  ASSUME IInv, LInv, NEW after, after \subseteq has, Die(after)
  PROVE  LInv'
<1>1. /\ UNCHANGED <<kind, claim, edits, phase, pv>> /\ has' \subseteq has
      /\ \A u \in Volumes : /\ call'[u] = Idle
                            /\ failures[u] \in Nat /\ failures'[u] \in Nat
                            /\ failures'[u] >= failures[u]
                            /\ call[u].task = "provision" => failures'[u] > 0
  BY DEF Die, IInv, TypeOK, fixedVars
<1>2. Idle.task = "none"
  BY IdleTyped
<1>3. ASSUME NEW a \in has' PROVE Kept(a)'
  <2>1. CASE a.type \in {"watch", "archive"}
    BY <2>1 DEF Kept
  <2>2. CASE Excuse(a)
    <3>1. \A u \in Volumes : failures[u] > 0 => failures'[u] > 0
      BY <1>1
    <3> QED
      BY <1>1, <2>2, <3>1 DEF Kept, Excuse, NamedLike
  <2>3. ASSUME NEW u \in Volumes, Holds(u, a) PROVE Kept(a)'
    <3>1. CASE call[u].task = "provision"
      BY <1>1, <2>3, <3>1, HeldIsNamed DEF Kept, Excuse, NamedLike
    <3>2. CASE call[u].task # "provision"
      BY <1>1, <1>2, <2>3, <3>2 DEF Kept, Holds
    <3> QED
      BY <3>1, <3>2
  <2> QED
    BY <1>1, <1>3, <2>1, <2>2, <2>3 DEF LInv, Kept
<1>4. \A u \in Volumes : Attempt(u)' /\ Published(u)'
  BY <1>1, <1>2 DEF LInv, Attempt, Published, NamedLike
<1>5. OneOfAName'
  BY <1>1 DEF LInv, OneOfAName
<1> QED
  BY <1>3, <1>4, <1>5 DEF LInv

(* A request that failed without an effect.                                *)
LEMMA FaultLeft ==
  ASSUME IInv, LInv, NEW v \in Volumes, Fault(v), NEW pc,
         call[v].task = "provision" => pc \in {"error"} \cup Undoing,
         Goto(v, pc), UNCHANGED <<has, apiVars>>
  PROVE  LInv'
<1>1. OnlyCallOf(v) /\ call'[v] = [call[v] EXCEPT !.pc = pc] /\ failures'[v] = failures[v] + 1
  BY GotoIs, FaultIs
<1>2. call'[v].pc = pc /\ call'[v].n = call[v].n /\ call'[v].made = call[v].made
  BY <1>1, Now DEF Calls
<1>3. call[v].task = "provision" => SoFarNow(v, call'[v].pc, call'[v].n, call[v].made)
  BY <1>2, ErrorSoFar
<1> QED
  BY <1>1, <1>2, <1>3, FailLeft

(* What is in hand at a step.                                              *)
LEMMA InHandAt ==
  ASSUME IInv, LInv, NEW v \in Volumes, call[v].pc \in Making
  PROVE  /\ call[v].task = "provision" /\ call[v].made \subseteq Own(kind, v)
         /\ SoFarNow(v, call[v].pc, call[v].n, call[v].made)
         /\ \A a \in call[v].made : NamedLike(v, a)
BY Now DEF LInv, Attempt, SoFarNow, Fits, WhileMade

LEMMA PlainSoFar ==
  ASSUME NEW v \in Volumes, kind \notin CephKinds \cup FileKinds \cup {"glusterfs"},
         NEW pc, NEW n, NEW made,
         pc \in {"provision", "list", "gid", "restore", "share", "parse", "create"} => made = {}
  PROVE  SoFarNow(v, pc, n, made)
BY DEF SoFarNow, SoFar, CephKinds

LEMMA NoServices ==
  ASSUME IInv, NEW v \in Volumes, kind \notin FileKinds \cup {"glusterfs"}
  PROVE  Services(v) = {}
<1>1. pv[v] \subseteq Own(kind, v) /\ "service" \notin Makes(kind)
  BY Now DEF Fits, WhileNamed, Sure, Makes
<1> QED
  BY <1>1 DEF Services, Own

(* An attempt makes something, and goes on.                                *)
LEMMA AddLeft ==
  ASSUME IInv, LInv, NEW v \in Volumes, call[v].pc \in Making,
         NEW adds, \A a \in adds : NamedLike(v, a),
         NEW ok \in Making \cup {"done"}, NEW error \in {"error"} \cup Undoing,
         SoFarNow(v, ok, call[v].n, call[v].made \cup adds),
         Request(v, adds, {}, ok, error)
  PROVE  LInv'
<1>1. SoFarNow(v, error, call[v].n, call[v].made)
  BY InHandAt, ErrorSoFar
<1> QED
  BY <1>1, EnsureLeft

LEMMA GoLeft ==
  ASSUME IInv, LInv, NEW v \in Volumes, call[v].pc \in Making,
         NEW ok \in Making \cup {"done"}, NEW error \in {"error"} \cup Undoing,
         SoFarNow(v, ok, call[v].n, call[v].made),
         \/ Ask(v, ok, error)
         \/ Goto(v, ok) /\ NoFault /\ UNCHANGED <<has, apiVars>>
  PROVE  LInv'
<1>1. SoFarNow(v, error, call[v].n, call[v].made)
  BY InHandAt, ErrorSoFar
<1> QED
  BY <1>1, OnwardLeft

LEMMA StopLeft ==
  ASSUME IInv, LInv, NEW v \in Volumes, call[v].pc \in Making, NEW error \in {"error"} \cup Undoing,
         \A a \in call[v].made \cap has : Excuse(a),
         \/ Refuse(v, error)
         \/ Ask(v, error, error)
  PROVE  LInv'
<1>1. SoFarNow(v, error, call[v].n, call[v].made)
  BY InHandAt, ErrorSoFar
<1> QED
  BY <1>1, RefuseLeft

(* Delete, or what undoes Provision, takes something away.                 *)
LEMMA RemovesLeft ==
  ASSUME IInv, LInv, NEW v \in Volumes, call[v].pc \in Removing \cup Undoing,
         NEW S, NEW ok, NEW error,
         call[v].task # "provision" \/ {ok, error} \subseteq {"error"} \cup Undoing,
         call[v].task = "delete" /\ {ok, error} \cap {"release", "done"} # {} =>
           call[v].pc = "release" \/ Services(v) \cap has \subseteq S,
         Remove(v, S, ok, error) \/ RemoveIfThere(v, S, ok, error)
  PROVE  LInv'
<1>1. CASE Request(v, {}, S, ok, error)
  BY <1>1, TakeLeft
<1>2. CASE S \cap has = {} /\ Refuse(v, error)
  BY <1>2, SkipLeft
<1> QED
  BY <1>1, <1>2 DEF Remove, RemoveIfThere

(* It looks at something, and removes nothing yet.                         *)
LEMMA LooksLeft ==
  ASSUME IInv, LInv, NEW v \in Volumes, call[v].pc \in Removing \cup Undoing, NEW ok, NEW error,
         call[v].task # "provision" \/ {ok, error} \subseteq {"error"} \cup Undoing,
         call[v].task = "delete" /\ {ok, error} \cap {"release", "done"} # {} =>
           call[v].pc = "release" \/ Services(v) \cap has = {},
         Ask(v, ok, error) \/ Refuse(v, error)
  PROVE  LInv'
<1>1. CASE Ask(v, ok, error)
  BY <1>1, TakeLeft DEF Ask
<1>2. CASE Refuse(v, error)
  BY <1>2, SkipLeft
<1> QED
  BY <1>1, <1>2
-----------------------------------------------------------------------------
(* What the provisioners leave.                                            *)

(* Nothing is made before the first request that makes something.          *)
LEMMA PlainStart ==
  ASSUME IInv, LInv, NEW v \in Volumes, kind \notin CephKinds \cup FileKinds \cup {"glusterfs"},
         call[v].pc \in {"provision", "list", "restore", "parse", "create"}
  PROVE  call[v].pc \in Making /\ call[v].made = {}
<1>1. call[v].pc \in Making
  BY DEF Making
<1> QED
  BY <1>1, InHandAt DEF SoFarNow, SoFar

LEMMA PlainAdd ==
  ASSUME IInv, LInv, NEW v \in Volumes, kind \notin CephKinds \cup FileKinds \cup {"glusterfs"},
         call[v].pc \in Making, NEW adds, \A a \in adds : NamedLike(v, a),
         NEW ok \in Making \cup {"done"}, NEW error \in {"error"} \cup Undoing,
         ok \notin {"provision", "list", "gid", "restore", "share", "parse", "create"},
         Request(v, adds, {}, ok, error)
  PROVE  LInv'
<1>1. SoFarNow(v, ok, call[v].n, call[v].made \cup adds)
  BY PlainSoFar
<1> QED
  BY <1>1, AddLeft

LEMMA PlainGo ==
  ASSUME IInv, LInv, NEW v \in Volumes, kind \notin CephKinds \cup FileKinds \cup {"glusterfs"},
         call[v].pc \in Making, NEW ok \in Making \cup {"done"}, NEW error \in {"error"} \cup Undoing,
         \/ call[v].made = {}
         \/ ok \notin {"provision", "list", "gid", "restore", "share", "parse", "create"},
         \/ Ask(v, ok, error)
         \/ Goto(v, ok) /\ NoFault /\ UNCHANGED <<has, apiVars>>
  PROVE  LInv'
<1>1. SoFarNow(v, ok, call[v].n, call[v].made)
  BY PlainSoFar
<1> QED
  BY <1>1, GoLeft

LEMMA CheckLeft ==
  ASSUME IInv, LInv, NEW v \in Volumes, kind \notin CephKinds \cup FileKinds \cup {"glusterfs"},
         call[v].pc = "provision", NEW ok \in Making, Check(v, ok)
  PROVE  LInv'
<1>1. call[v].pc \in Making /\ call[v].made = {}
  BY PlainStart
<1>2. CASE Refuse(v, "error")
  BY <1>1, <1>2, StopLeft
<1>3. CASE Goto(v, ok) /\ NoFault /\ UNCHANGED <<has, apiVars>>
  BY <1>1, <1>3, PlainGo
<1> QED
  BY <1>2, <1>3 DEF Check

LEMMA ParseLeft ==
  ASSUME IInv, LInv, NEW v \in Volumes, kind \notin CephKinds \cup FileKinds \cup {"glusterfs"},
         call[v].pc = "parse", NEW ok \in Making, Parse(v, ok)
  PROVE  LInv'
<1>1. call[v].pc \in Making /\ call[v].made = {}
  BY PlainStart
<1>2. CASE Refuse(v, "error")
  BY <1>1, <1>2, StopLeft
<1>3. CASE Ask(v, ok, "error")
  BY <1>1, <1>3, PlainGo
<1> QED
  BY <1>2, <1>3 DEF Parse

(* Without services, a step of Delete leaves nothing that was not named.   *)
LEMMA PlainRemove ==
  ASSUME IInv, LInv, NEW v \in Volumes, kind \notin FileKinds \cup {"glusterfs"},
         call[v].pc \in Removing \ Undoing, NEW S, NEW ok, NEW error,
         \/ Remove(v, S, ok, error) \/ RemoveIfThere(v, S, ok, error)
         \/ Ask(v, ok, error) \/ Refuse(v, error)
  PROVE  LInv'
<1>1. Services(v) = {} /\ call[v].task # "provision"
  BY NoServices, Now
<1>2. CASE Remove(v, S, ok, error) \/ RemoveIfThere(v, S, ok, error)
  BY <1>1, <1>2, RemovesLeft
<1>3. CASE Ask(v, ok, error) \/ Refuse(v, error)
  BY <1>1, <1>3, LooksLeft
<1> QED
  BY <1>2, <1>3

LEMMA PlainReadClass ==
  ASSUME IInv, LInv, NEW v \in Volumes, kind \notin FileKinds \cup {"glusterfs"},
         call[v].pc \in Removing \ Undoing, NEW ok, ReadClass(v, ok)
  PROVE  LInv'
<1>1. Ask(v, ok, "error") \/ Refuse(v, "error")
  BY DEF ReadClass
<1> QED
  BY <1>1, PlainRemove

LEMMA MineIsNamed ==
  ASSUME IInv, NEW v \in Volumes, NEW type \in Types \ {"service"}, NEW n
  PROVE  /\ NamedLike(v, Asset(type, v, n)) /\ NamedLike(v, Asset(type, claim[v].name, n))
         /\ NamedLike(v, Asset("service", claim[v].name, 0))
BY DEF NamedLike, Asset

LEMMA DirectoriesLeft ==
  ASSUME IInv, LInv, NEW v \in Volumes, Directories(v)
  PROVE  LInv'
<1>1. NamedLike(v, Directory(v))
  BY MineIsNamed DEF Directory, Types
<1>2. CASE HostpathProvision(v) \/ NfsClientProvision(v)
  <2>1. /\ kind \notin CephKinds \cup FileKinds \cup {"glusterfs"} /\ call[v].pc \in Making
        /\ Request(v, {Directory(v)}, {}, "done", "error")
    BY <1>2 DEF HostpathProvision, NfsClientProvision, At, Ensure, CephKinds, FileKinds, Making
  <2> QED
    BY <1>1, <2>1, PlainAdd DEF Making
<1>3. CASE HostpathDelete(v) \/ NfsClientDelete(v)
  <2>1. /\ kind \notin FileKinds \cup {"glusterfs"} /\ call[v].pc \in Removing \ Undoing
        /\ \/ RemoveIfThere(v, {Directory(v)}, "done", "error")
           \/ Ask(v, "done", "error")
           \/ ReadClass(v, "remove")
    BY <1>3 DEF HostpathDelete, NfsClientDelete, At, FileKinds, Removing, Undoing
  <2> QED
    BY <2>1, PlainRemove, PlainReadClass
<1>4. CASE NfsClientRemove(v)
  <2>1. /\ kind \notin FileKinds \cup {"glusterfs"} /\ call[v].pc \in Removing
        /\ \/ Request(v, {}, {Directory(v)}, "done", "error")
           \/ Request(v, {Asset("archive", v, 0)}, {Directory(v)}, "done", "error")
        /\ call[v].task # "provision" /\ Services(v) = {} /\ Asset("archive", v, 0).type = "archive"
    BY <1>4, NoServices, Now DEF NfsClientRemove, At, FileKinds, Removing, Undoing, Asset
  <2> QED
    BY <2>1, TakeLeft
<1> QED
  BY <1>2, <1>3, <1>4 DEF Directories

LEMMA RbdLeft ==
  ASSUME IInv, LInv, NEW v \in Volumes,
         \/ RbdProvision(v) \/ RbdParse(v) \/ CreateImage(v)
         \/ RbdDelete(v) \/ RbdStatus(v) \/ DeleteImage(v)
  PROVE  LInv'
<1>1. kind = "rbd" /\ kind \notin CephKinds \cup FileKinds \cup {"glusterfs"}
  BY DEF RbdProvision, RbdParse, CreateImage, RbdDelete, RbdStatus, DeleteImage, At, CephKinds, FileKinds
<1>2. CASE RbdProvision(v)
  BY <1>1, <1>2, CheckLeft DEF RbdProvision, At, Making
<1>3. CASE RbdParse(v)
  BY <1>1, <1>3, ParseLeft DEF RbdParse, At, Making
<1>4. CASE CreateImage(v)
  <2>1. PICK n \in Fresh(v, "volume") : Create(v, Asset("volume", v, n), "done", "error")
    BY <1>4 DEF CreateImage
  <2>2. Asset("volume", v, n) \notin has
    BY DEF Fresh
  <2>3. Request(v, {Asset("volume", v, n)}, {}, "done", "error")
    BY <2>1, <2>2 DEF Create
  <2>4. NamedLike(v, Asset("volume", v, n))
    BY MineIsNamed DEF Types
  <2> QED
    BY <1>1, <1>4, <2>3, <2>4, PlainAdd DEF CreateImage, At, Making
<1>5. CASE RbdDelete(v)
  BY <1>1, <1>5, PlainReadClass DEF RbdDelete, At, Removing, Undoing
<1>6. CASE RbdStatus(v)
  <2>1. Refuse(v, "error") \/ Ask(v, "rm", "error")
    BY <1>6 DEF RbdStatus
  <2> QED
    BY <1>1, <1>6, <2>1, PlainRemove DEF RbdStatus, At, Removing, Undoing
<1>7. CASE DeleteImage(v)
  BY <1>1, <1>7, PlainRemove DEF DeleteImage, At, Removing, Undoing
<1> QED
  BY <1>2, <1>3, <1>4, <1>5, <1>6, <1>7

LEMMA CephFSLeft ==
  ASSUME IInv, LInv, NEW v \in Volumes,
         \/ CephProvision(v) \/ CreateShare(v) \/ AuthorizeCeph(v) \/ CreateSecret(v)
         \/ CephDelete(v) \/ Deauthorize(v) \/ DeleteShare(v) \/ DeleteSecret(v)
  PROVE  LInv'
<1>1. kind \in CephKinds /\ kind \notin FileKinds \cup {"glusterfs"}
  BY DEF CephProvision, CreateShare, AuthorizeCeph, CreateSecret, CephDelete, Deauthorize,
         DeleteShare, DeleteSecret, InCeph, CephKinds, FileKinds
<1>2. /\ Owner(v) \in {v, claim[v].name} /\ Owner(v) = IF kind = "cephfs" THEN v ELSE claim[v].name
      /\ NamedLike(v, Share(v)) /\ NamedLike(v, User(v)) /\ NamedLike(v, Secret(v))
      /\ Share(v).type = "volume" /\ User(v).type = "user" /\ Secret(v).type = "secret"
  <2>1. Owner(v) = IF kind = "cephfs" THEN v ELSE claim[v].name
    BY DEF Owner
  <2> QED
    BY <2>1, MineIsNamed DEF Share, User, Secret, Types, Asset
<1>3. ASSUME NEW pc, call[v].task = "provision"
      PROVE  /\ pc = "authorize" => SoFarNow(v, pc, call[v].n, {Share(v)})
             /\ pc = "secret" => SoFarNow(v, pc, call[v].n, {Share(v), User(v)})
             /\ pc = "done" => SoFarNow(v, pc, call[v].n, {Share(v), User(v), Secret(v)})
  <2>1. kind = "cephfsFixed" => call[v].n = 0
    BY <1>1, <1>3 DEF LInv, Attempt, SoFar, CephKinds
  <2> QED
    BY <1>1, <1>2, <2>1 DEF SoFarNow, SoFar, Share, User, Secret, Asset
<1>4. CASE CephProvision(v)
  <2>1. call[v].pc \in Making /\ call[v].made = {}
    <3>1. call[v].pc = "provision" /\ call[v].pc \in Making
      BY <1>4 DEF CephProvision, InCeph, Making
    <3> QED
      BY <3>1, InHandAt DEF SoFarNow, SoFar
  <2>2. CASE Refuse(v, "error")
    BY <2>1, <2>2, StopLeft
  <2>3. CASE Fault(v) /\ Goto(v, "error") /\ UNCHANGED <<has, apiVars>>
    BY <2>3, FaultLeft
  <2>4. CASE /\ \E n \in IF kind = "cephfs" THEN Fresh(v, "volume") ELSE {0} :
                  call' = [call EXCEPT ![v].pc = "share", ![v].n = n]
             /\ NoFault
             /\ UNCHANGED <<has, apiVars>>
    <3>1. PICK n \in IF kind = "cephfs" THEN Fresh(v, "volume") ELSE {0} :
            call' = [call EXCEPT ![v].pc = "share", ![v].n = n]
      BY <2>4
    <3>2. /\ OnlyCallOf(v) /\ has' = has /\ failures'[v] = failures[v]
          /\ call'[v].pc = "share" /\ call'[v].n = n /\ call'[v].made = {}
      BY <2>1, <2>4, <3>1, Now DEF OnlyCallOf, NoFault, apiVars, fixedVars, TypeOK, Calls
    <3>3. SoFarNow(v, "share", n, {})
      BY <1>1, <3>1 DEF SoFarNow, SoFar, CephKinds
    <3> QED
      BY <2>1, <3>2, <3>3, GoesLeft, InHandAt DEF Making
  <2> QED
    BY <1>4, <2>2, <2>3, <2>4 DEF CephProvision, parseParameters, LookupFails
<1>5. CASE CreateShare(v)
  <2>1. /\ call[v].pc = "share" /\ call[v].pc \in Making /\ Request(v, {Share(v)}, {}, "authorize", "error")
    BY <1>5 DEF CreateShare, InCeph, Ensure, Making
  <2>2. call[v].made = {} /\ call[v].task = "provision"
    BY <2>1, InHandAt DEF SoFarNow, SoFar
  <2>3. SoFarNow(v, "authorize", call[v].n, call[v].made \cup {Share(v)})
    <3>1. call[v].made \cup {Share(v)} = {Share(v)}
      BY <2>2
    <3> QED
      BY <1>3, <2>2, <3>1
  <2> QED
    BY <1>2, <2>1, <2>3, AddLeft DEF Making
<1>6. CASE AuthorizeCeph(v)
  <2>1. /\ call[v].pc = "authorize" /\ call[v].pc \in Making /\ Request(v, {User(v)}, {}, "secret", "error")
    BY <1>6 DEF AuthorizeCeph, InCeph, Ensure, Making
  <2>2. call[v].made = {Share(v)} /\ call[v].task = "provision"
    BY <1>1, <1>2, <2>1, InHandAt DEF SoFarNow, SoFar, Share
  <2>3. SoFarNow(v, "secret", call[v].n, call[v].made \cup {User(v)})
    <3>1. call[v].made \cup {User(v)} = {Share(v), User(v)}
      BY <2>2
    <3> QED
      BY <1>3, <2>2, <3>1
  <2> QED
    BY <1>2, <2>1, <2>3, AddLeft DEF Making
<1>7. CASE CreateSecret(v)
  <2>1. /\ call[v].pc = "secret" /\ call[v].pc \in Making
        /\ Create(v, Secret(v), "done", "error")
    BY <1>7 DEF CreateSecret, InCeph, Making
  <2>2. call[v].made = {Share(v), User(v)} /\ call[v].task = "provision"
    BY <1>1, <1>2, <2>1, InHandAt DEF SoFarNow, SoFar, Share, User
  <2>3. CASE Request(v, {Secret(v)}, {}, "done", "error")
    <3>1. call[v].made \cup {Secret(v)} = {Share(v), User(v), Secret(v)}
      BY <2>2
    <3>2. SoFarNow(v, "done", call[v].n, call[v].made \cup {Secret(v)})
      BY <1>3, <2>2, <3>1
    <3> QED
      BY <1>2, <2>1, <2>3, <3>2, AddLeft DEF Making
  <2>4. CASE Secret(v) \in has /\ Refuse(v, "error")
    <3>1. Kept(Secret(v)) /\ Secret(v) \notin call[v].made
      BY <1>2, <2>2, <2>4 DEF LInv
    <3>2. SoFarNow(v, "error", call[v].n, call[v].made)
      BY <2>2, ErrorSoFar
    <3>3. CASE Excuse(Secret(v))
      <4>1. PICK u \in Volumes : NamedLike(u, Secret(v)) /\ failures[u] > 0
        BY <1>1, <3>3 DEF Excuse, CephKinds
      <4>2. Secret(v).of = Share(v).of /\ Secret(v).of = User(v).of
        BY DEF Secret, Share, User, Asset
      <4>3. NamedLike(u, Share(v)) /\ NamedLike(u, User(v))
        BY <1>1, <1>2, <4>1, <4>2 DEF NamedLike
      <4>4. \A a \in call[v].made \cap has : Excuse(a)
        BY <2>2, <4>1, <4>3, FailureExcuses
      <4> QED
        BY <2>1, <2>4, <4>4, StopLeft
    <3>4. ASSUME NEW u \in Volumes, Holds(u, Secret(v)) PROVE LInv'
      <4>1. phase[v] = "wanted" /\ phase[u] # "gone" /\ (call[u].task = "provision" => phase[u] = "wanted")
        BY <1>1, <2>2, <3>4, Now DEF Fits, InPhase, Holds
      <4>2. u # v
        BY <2>2, <3>1, <3>4, <4>1 DEF Holds
      <4>3. NamedLike(u, Secret(v))
        BY <3>4, HeldIsNamed
      <4>4. kind = "cephfsFixed" /\ claim[u].name = claim[v].name
        <5>1. claim[v].name \notin Volumes /\ claim[u].name \notin Volumes
          BY Now, NameOfClaim
        <5>2. Secret(v).of = Owner(v) /\ Secret(v).of \in {u, claim[u].name}
          BY <1>1, <4>3 DEF NamedLike, Secret, Asset
        <5> QED
          BY <1>1, <1>2, <4>2, <5>1, <5>2 DEF CephKinds
      <4>5. phase[u] = "released" /\ ~(phase[u] \in {"wanted", "bound"})
        BY <3>4, <4>1, <4>2, <4>4 DEF Holds, LInv, OneOfAName
      <4>6. call[v].n = 0
        BY <2>1, <4>4, InHandAt DEF SoFarNow, SoFar, CephKinds
      <4>7. Share(v) \in pv[u] /\ User(v) \in pv[u]
        BY <1>2, <4>4, <4>5, <4>6 DEF LInv, Published, Share, User
      <4>8. \A a \in call[v].made \cap has : \E w \in Volumes \ {v} : Holds(w, a)
        BY <1>2, <2>2, <4>2, <4>5, <4>7 DEF Holds
      <4> QED
        BY <2>1, <2>4, <3>2, <4>8, RefuseLeft
    <3> QED
      BY <1>2, <3>1, <3>3, <3>4 DEF Kept
  <2> QED
    BY <2>1, <2>3, <2>4 DEF Create
<1>8. CASE CephDelete(v)
  BY <1>1, <1>8, PlainReadClass DEF CephDelete, InCeph, Removing, Undoing
<1>9. CASE Deauthorize(v) \/ DeleteShare(v) \/ DeleteSecret(v)
  <2>1. call[v].pc \in Removing \ Undoing
    BY <1>9 DEF Deauthorize, DeleteShare, DeleteSecret, InCeph, Removing, Undoing
  <2>2. \/ RemoveIfThere(v, NamedOf(v, "user"), "remove", "remove")
        \/ LookupFails(v)
        \/ Refuse(v, "error")
        \/ RemoveIfThere(v, NamedOf(v, "volume"), "unsecret", "error")
        \/ Remove(v, NamedOf(v, "secret"), "done", "error")
    BY <1>9 DEF Deauthorize, DeleteShare, DeleteSecret
  <2>3. CASE LookupFails(v)
    BY <2>3, FaultLeft DEF LookupFails
  <2> QED
    BY <1>1, <2>1, <2>2, <2>3, PlainRemove
<1> QED
  BY <1>4, <1>5, <1>6, <1>7, <1>8, <1>9

LEMMA FlexLeft ==
  ASSUME IInv, LInv, NEW v \in Volumes, FlexProvision(v) \/ FlexDelete(v)
  PROVE  LInv'
<1>1. kind = "flex" /\ kind \notin CephKinds \cup FileKinds \cup {"glusterfs"}
  BY DEF FlexProvision, FlexDelete, At, CephKinds, FileKinds
<1>2. CASE FlexProvision(v)
  <2>1. call[v].pc \in Making /\ Request(v, {PluginVolume(v)}, {}, "done", "error")
    BY <1>2 DEF FlexProvision, At, Ensure, Making
  <2>2. NamedLike(v, PluginVolume(v))
    BY MineIsNamed DEF PluginVolume, Types
  <2> QED
    BY <1>1, <2>1, <2>2, PlainAdd DEF Making
<1>3. CASE \E after \in {has, has \ {PluginVolume(v)}} : Die(after)
  BY <1>3, DieLeft
<1>4. CASE /\ At(v, "flex", "delete") /\ has' = has \ {PluginVolume(v)} /\ Goto(v, "done")
           /\ NoFault /\ UNCHANGED apiVars
  <2>1. /\ OnlyCallOf(v) /\ call'[v] = [call[v] EXCEPT !.pc = "done"]
        /\ failures'[v] = failures[v] /\ has' \subseteq has
    BY <1>4, GotoIs DEF NoFault
  <2>2. call'[v].pc = "done" /\ call'[v].n = call[v].n /\ call'[v].made = call[v].made
    BY <2>1, Now DEF Calls
  <2>3. call[v].task # "provision" /\ Services(v) = {}
    BY <1>1, <1>4, NoServices, Now DEF At, Removing, Undoing
  <2> QED
    BY <2>1, <2>2, <2>3, GoesLeft
<1> QED
  BY <1>2, <1>3, <1>4 DEF FlexDelete

LEMMA DigitalOceanLeft ==
  ASSUME IInv, LInv, NEW v \in Volumes,
         DigitalOceanProvision(v) \/ DigitalOceanCreate(v) \/ DigitalOceanDelete(v)
  PROVE  LInv'
<1>1. kind = "digitalocean" /\ kind \notin CephKinds \cup FileKinds \cup {"glusterfs"}
  BY DEF DigitalOceanProvision, DigitalOceanCreate, DigitalOceanDelete, At, CephKinds, FileKinds
<1>2. CASE DigitalOceanProvision(v)
  BY <1>1, <1>2, CheckLeft DEF DigitalOceanProvision, At, Making
<1>3. CASE DigitalOceanCreate(v)
  <2>1. call[v].pc = "create" /\ call[v].pc \in Making /\ call[v].made = {}
    BY <1>1, <1>3, PlainStart DEF DigitalOceanCreate, At
  <2>2. CASE Refuse(v, "error")
    BY <2>1, <2>2, StopLeft
  <2>3. CASE Request(v, {PluginVolume(v)}, {}, "done", "error")
    <3>1. NamedLike(v, PluginVolume(v))
      BY MineIsNamed DEF PluginVolume, Types
    <3> QED
      BY <1>1, <2>1, <2>3, <3>1, PlainAdd DEF Making
  <2> QED
    BY <1>3, <2>2, <2>3 DEF DigitalOceanCreate, Create
<1>4. CASE DigitalOceanDelete(v)
  <2>1. Refuse(v, "error") \/ Remove(v, {PluginVolume(v)}, "done", "error")
    BY <1>4 DEF DigitalOceanDelete
  <2> QED
    BY <1>1, <1>4, <2>1, PlainRemove DEF DigitalOceanDelete, At, Removing, Undoing
<1> QED
  BY <1>2, <1>3, <1>4

LEMMA OpenEBSLeft ==
  ASSUME IInv, LInv, NEW v \in Volumes,
         OpenEBSProvision(v) \/ OpenEBSCreate(v) \/ OpenEBSRead(v) \/ OpenEBSDelete(v)
  PROVE  LInv'
<1>1. kind = "openebs" /\ kind \notin CephKinds \cup FileKinds \cup {"glusterfs"}
  BY DEF OpenEBSProvision, OpenEBSCreate, OpenEBSRead, OpenEBSDelete, At, CephKinds, FileKinds
<1>2. NamedLike(v, PluginVolume(v))
  BY MineIsNamed DEF PluginVolume, Types
<1>3. ASSUME ReadBack(v), call[v].pc \in Making PROVE LInv'
  <2>1. CASE claim[v].style = "manyWriters"
    <3>1. \A a \in call[v].made : Excuse(a)
      <4>1. \A a \in call[v].made : a.of = v
        BY <1>1, <1>3, InHandAt DEF Own, Makes, BlockKinds, Fixed
      <4> QED
        BY <1>1, <2>1, <4>1 DEF Excuse
    <3> QED
      BY <1>3, <2>1, <3>1, StopLeft DEF ReadBack
  <2>2. CASE Request(v, {PluginVolume(v)} \cap has, {}, "done", "error")
    BY <1>1, <1>2, <1>3, <2>2, PlainAdd DEF Making
  <2> QED
    BY <1>3, <2>1, <2>2 DEF ReadBack, Ensure
<1>4. CASE OpenEBSProvision(v)
  <2>1. call[v].pc \in Making /\ call[v].made = {}
    BY <1>1, <1>4, PlainStart DEF OpenEBSProvision, At
  <2>2. ReadBack(v) \/ Ask(v, "create", "error")
    BY <1>4 DEF OpenEBSProvision
  <2> QED
    BY <1>1, <1>3, <2>1, <2>2, PlainGo DEF Making
<1>5. CASE OpenEBSCreate(v)
  BY <1>1, <1>2, <1>5, PlainAdd DEF OpenEBSCreate, At, Ensure, Making
<1>6. CASE OpenEBSRead(v)
  BY <1>3, <1>6 DEF OpenEBSRead, At, Making
<1>7. CASE OpenEBSDelete(v)
  BY <1>1, <1>7, PlainRemove DEF OpenEBSDelete, At, Removing, Undoing
<1> QED
  BY <1>4, <1>5, <1>6, <1>7

LEMMA TargetdLeft ==
  ASSUME IInv, LInv, NEW v \in Volumes, Targetd(v)
  PROVE  LInv'
<1>1. kind = "targetd" /\ kind \notin CephKinds \cup FileKinds \cup {"glusterfs"}
  BY DEF Targetd, TargetdProvision, FirstAvailableLun, VolCreate, ExportCreate, SetInitiatorAuth,
         TargetdDelete, VolDestroy, At, CephKinds, FileKinds
<1>2. CASE TargetdProvision(v)
  BY <1>1, <1>2, CheckLeft DEF TargetdProvision, At, Making
<1>3. CASE FirstAvailableLun(v)
  <2>1. call[v].pc \in Making /\ call[v].made = {} /\ call[v].task = "provision"
    BY <1>1, <1>3, PlainStart, InHandAt DEF FirstAvailableLun, At
  <2>2. CASE Refuse(v, "error")
    BY <2>1, <2>2, StopLeft
  <2>3. CASE Fault(v) /\ Goto(v, "error") /\ UNCHANGED <<has, apiVars>>
    BY <2>3, FaultLeft
  <2>4. ASSUME NEW l \in FreeLuns, call' = [call EXCEPT ![v].pc = "create", ![v].lun = l],
               NoFault, UNCHANGED <<has, apiVars>>
        PROVE  LInv'
    <3>1. /\ OnlyCallOf(v) /\ has' = has /\ failures'[v] = failures[v]
          /\ call'[v].pc = "create" /\ call'[v].n = call[v].n /\ call'[v].made = {}
      BY <2>1, <2>4, Now DEF OnlyCallOf, NoFault, apiVars, fixedVars, TypeOK, Calls
    <3>2. SoFarNow(v, call'[v].pc, call'[v].n, call'[v].made)
      BY <1>1, <3>1, PlainSoFar
    <3> QED
      BY <2>1, <3>1, <3>2, GoesLeft DEF Making
  <2> QED
    BY <1>3, <2>2, <2>3, <2>4 DEF FirstAvailableLun
<1>4. CASE VolCreate(v)
  <2>1. call[v].pc \in Making /\ call[v].made = {}
    BY <1>1, <1>4, PlainStart DEF VolCreate, At
  <2>2. CASE Refuse(v, "error")
    BY <2>1, <2>2, StopLeft
  <2>3. CASE Request(v, {LogicalVolume(v)}, {}, "export", "error")
    <3>1. NamedLike(v, LogicalVolume(v))
      BY MineIsNamed DEF LogicalVolume, Types
    <3> QED
      BY <1>1, <2>1, <2>3, <3>1, PlainAdd DEF Making
  <2> QED
    BY <1>4, <2>2, <2>3 DEF VolCreate, Create
<1>5. CASE ExportCreate(v)
  <2>1. call[v].pc \in Making /\ call[v].task = "provision"
    <3>1. call[v].pc \in Making
      BY <1>5 DEF ExportCreate, At, Making
    <3> QED
      BY <3>1, Now
  <2>2. CASE Request(v, {Asset("export", v, call[v].lun)}, {}, "auth", "error")
    <3>. DEFINE new == {Asset("export", v, call[v].lun)}
    <3>1. NamedLike(v, Asset("export", v, call[v].lun))
      BY MineIsNamed DEF Types
    <3>2. (\A a \in new : NamedLike(v, a)) /\ Request(v, new, {}, "auth", "error")
      BY <2>2, <3>1
    <3>. HIDE DEF new
    <3> QED
      BY <1>1, <2>1, <3>2, PlainAdd DEF Making
  <2>3. CASE /\ failures' = [failures EXCEPT ![v] = @ + 1] /\ Goto(v, "error")
             /\ UNCHANGED <<has, apiVars, faults>>
    <3>1. failures'[v] = failures[v] + 1 /\ \A u \in Volumes \ {v} : failures'[u] = failures[u]
      BY <2>3 DEF IInv, TypeOK
    <3>2. OnlyCallOf(v) /\ call'[v] = [call[v] EXCEPT !.pc = "error"] /\ has' = has
      BY <2>3, <3>1, GotoIs
    <3>3. call'[v].pc = "error" /\ call'[v].n = call[v].n /\ call'[v].made = call[v].made
      BY <3>2, Now DEF Calls
    <3>4. SoFarNow(v, call'[v].pc, call'[v].n, call[v].made)
      BY <2>1, <3>3, ErrorSoFar
    <3> QED
      BY <3>1, <3>2, <3>3, <3>4, FailLeft
  <2> QED
    BY <1>5, <2>2, <2>3 DEF ExportCreate
<1>6. CASE SetInitiatorAuth(v)
  BY <1>1, <1>6, PlainGo DEF SetInitiatorAuth, At, Making
<1>7. CASE TargetdDelete(v) \/ VolDestroy(v)
  <2>1. /\ call[v].pc \in Removing \ Undoing
        /\ \/ Remove(v, NamedOf(v, "export"), "destroy", "error")
           \/ Remove(v, {LogicalVolume(v)}, "done", "error")
    BY <1>7 DEF TargetdDelete, VolDestroy, At, Removing, Undoing
  <2> QED
    BY <1>1, <2>1, PlainRemove
<1> QED
  BY <1>2, <1>3, <1>4, <1>5, <1>6, <1>7 DEF Targetd
-----------------------------------------------------------------------------
(* GlusterFS, and what the promoter's plugins leave.                       *)

LEMMA TakeGidLeft ==
  ASSUME IInv, LInv, NEW v \in Volumes, kind \in FileKinds \cup {"glusterfs"},
         call[v].pc \in {"provision", "gid"}, TakeGid(v, "parse")
  PROVE  LInv'
<1>1. call[v].pc \in Making
  BY DEF Making
<1>2. call[v].made = {}
  BY <1>1, InHandAt DEF SoFarNow, SoFar
<1>3. CASE Refuse(v, "error")
  BY <1>1, <1>2, <1>3, StopLeft
<1>4. ASSUME NEW n \in Fresh(v, "gid"), Ensure(v, {Asset("gid", v, n)}, "parse", "error") PROVE LInv'
  <2>1. Asset("gid", v, n).type = "gid" /\ NamedLike(v, Asset("gid", v, n))
    BY MineIsNamed DEF Types, Asset
  <2>2. SoFarNow(v, "parse", call[v].n, call[v].made \cup {Asset("gid", v, n)})
    BY <1>2, <2>1 DEF SoFarNow, SoFar, CephKinds, FileKinds
  <2> QED
    BY <1>1, <1>4, <2>1, <2>2, AddLeft DEF Ensure, Making
<1> QED
  BY <1>3, <1>4 DEF TakeGid

(* Parameters that are refused were edited.                                *)
LEMMA ParseEdited ==
  ASSUME IInv, LInv, NEW v \in Volumes, kind \in FileKinds \cup {"glusterfs"},
         call[v].pc = "parse", NEW ok \in Making, Parse(v, ok),
         SoFarNow(v, ok, call[v].n, call[v].made)
  PROVE  LInv'
<1>1. call[v].pc \in Making
  BY DEF Making
<1>2. CASE class = "invalid" /\ Refuse(v, "error")
  <2>1. edits > 0
    BY <1>2, Now
  <2> QED
    BY <1>1, <1>2, <2>1, StopLeft DEF Excuse
<1>3. CASE Ask(v, ok, "error")
  BY <1>1, <1>3, GoLeft
<1> QED
  BY <1>2, <1>3 DEF Parse

(* A volume has one service.                                               *)
LEMMA OneService ==
  ASSUME IInv, LInv, NEW v \in Volumes, kind = "glusterfs", phase[v] = "released"
  PROVE  Services(v) \subseteq {Service(v)}
<1> SUFFICES ASSUME NEW a \in pv[v], a.type = "service" PROVE a = Service(v)
  BY DEF Services
<1>1. a \in Own(kind, v) /\ a \in Assets /\ NamedLike(v, a)
  BY Now DEF Fits, WhileNamed, Sure, LInv, Published
<1>2. a.n = 0 /\ a.of \notin Volumes
  BY <1>1 DEF Own, NamedLike
<1> QED
  BY <1>1, <1>2 DEF Service, Asset, Assets, NamedLike, FileKinds

LEMMA SimpleLeft ==
  ASSUME IInv, LInv, NEW v \in Volumes,
         \/ SimpleProvision(v) \/ SimpleParse(v) \/ CreateBricks(v) \/ CreateGlusterVolume(v)
         \/ SimpleService(v) \/ SimpleDelete(v) \/ StopGlusterVolume(v) \/ DeleteGlusterVolume(v)
         \/ DeleteBricks(v) \/ SimpleDeleteService(v) \/ SimpleRelease(v)
  PROVE  LInv'
<1>1. kind = "glusterfs" /\ kind \notin FileKinds \cup CephKinds
  BY DEF SimpleProvision, SimpleParse, CreateBricks, CreateGlusterVolume, SimpleService,
         SimpleDelete, StopGlusterVolume, DeleteGlusterVolume, DeleteBricks, SimpleDeleteService,
         SimpleRelease, At, FileKinds, CephKinds
<1>2. /\ \A a \in {Brick(v), GlusterVolume(v), Started(v), Service(v)} : NamedLike(v, a)
      /\ Brick(v).type = "brick" /\ GlusterVolume(v).type = "volume"
  BY MineIsNamed DEF Brick, GlusterVolume, Started, Service, Types, Asset
<1>3. ASSUME NEW pc, NEW made,
             pc \in {"provision", "list", "gid", "restore", "share"} => made = {},
             pc \in {"parse", "bricks", "create"} => \A a \in made : a.type \in {"gid", "brick"}
      PROVE  SoFarNow(v, pc, call[v].n, made)
  BY <1>1, <1>3 DEF SoFarNow, SoFar, CephKinds
<1>4. call[v].pc \in {"parse", "bricks", "create"} =>
        call[v].pc \in Making /\ \A a \in call[v].made : a.type \in {"gid", "brick"}
  <2>1. call[v].pc \in {"parse", "bricks", "create"} => call[v].pc \in Making
    BY DEF Making
  <2> QED
    BY <1>1, <2>1, InHandAt DEF SoFarNow, SoFar
<1>5. CASE SimpleProvision(v)
  BY <1>1, <1>5, TakeGidLeft DEF SimpleProvision, At
<1>6. CASE SimpleParse(v)
  <2>1. call[v].pc = "parse" /\ Parse(v, "bricks")
    BY <1>6 DEF SimpleParse, At
  <2>2. SoFarNow(v, "bricks", call[v].n, call[v].made)
    BY <1>3, <1>4, <2>1
  <2> QED
    BY <1>1, <2>1, <2>2, ParseEdited DEF Making
<1>7. CASE CreateBricks(v)
  <2>1. call[v].pc = "bricks" /\ Request(v, {Brick(v)}, {}, "create", "stop")
    BY <1>7 DEF CreateBricks, At, Ensure
  <2>2. SoFarNow(v, "create", call[v].n, call[v].made \cup {Brick(v)})
    BY <1>2, <1>3, <1>4, <2>1
  <2> QED
    BY <1>2, <1>4, <2>1, <2>2, AddLeft DEF Making, Undoing
<1>8. CASE At(v, "glusterfs", "create") /\ Create(v, GlusterVolume(v), "start", "stop")
  <2>1. call[v].pc = "create" /\ call[v].pc \in Making /\ call[v].task = "provision"
    BY <1>4, <1>8, Now DEF At
  <2>2. CASE Request(v, {GlusterVolume(v)}, {}, "start", "stop")
    <3>1. SoFarNow(v, "start", call[v].n, call[v].made \cup {GlusterVolume(v)})
      BY <1>3
    <3> QED
      BY <1>2, <2>1, <2>2, <3>1, AddLeft DEF Making, Undoing
  <2>3. CASE GlusterVolume(v) \in has /\ Refuse(v, "stop")
    <3>1. Kept(GlusterVolume(v)) /\ GlusterVolume(v).of = v /\ GlusterVolume(v) \notin call[v].made
      BY <1>2, <1>4, <2>1, <2>3 DEF LInv, GlusterVolume, Asset
    <3>2. ASSUME NEW u \in Volumes, NamedLike(u, GlusterVolume(v)) PROVE u = v
      <4>1. claim[u].name \notin Volumes
        BY Now, NameOfClaim
      <4> QED
        BY <1>1, <3>1, <3>2, <4>1 DEF NamedLike
    <3>3. ~ \E u \in Volumes : Holds(u, GlusterVolume(v))
      <4>1. phase[v] = "wanted"
        BY <2>1, Now DEF Fits, InPhase
      <4> QED
        BY <2>1, <3>1, <3>2, <4>1, HeldIsNamed DEF Holds
    <3>4. failures[v] > 0 \/ edits > 0
      BY <1>1, <1>2, <3>1, <3>2, <3>3 DEF Kept, Excuse
    <3>5. \A a \in call[v].made : Excuse(a)
      BY <1>1, <2>1, <3>4, FailureExcuses, InHandAt DEF Excuse
    <3> QED
      BY <2>1, <2>3, <3>5, StopLeft DEF Undoing
  <2> QED
    BY <1>8, <2>2, <2>3 DEF Create
<1>9. CASE \/ At(v, "glusterfs", "start") /\ Ensure(v, {Started(v)}, "service", "stop")
           \/ SimpleService(v)
  <2>1. /\ call[v].pc \in Making
        /\ \/ Request(v, {Started(v)}, {}, "service", "stop")
           \/ Request(v, {Service(v)}, {}, "done", "stop")
    BY <1>9 DEF SimpleService, At, Ensure, Making
  <2>2. \A made : SoFarNow(v, "service", call[v].n, made) /\ SoFarNow(v, "done", call[v].n, made)
    BY <1>3
  <2> QED
    BY <1>2, <2>1, <2>2, AddLeft DEF Making, Undoing
<1>10. CASE SimpleDelete(v)
  <2>1. /\ call[v].pc = "delete" /\ call[v].pc \in Removing \cup Undoing
        /\ Ask(v, "stop", "error") \/ Refuse(v, "error")
    BY <1>10 DEF SimpleDelete, At, ReadClass, Removing
  <2> QED
    BY <2>1, LooksLeft DEF Undoing
<1>11. CASE StopGlusterVolume(v)
  BY <1>11, RemovesLeft DEF StopGlusterVolume, At, Removing, Undoing
<1>12. CASE DeleteGlusterVolume(v)
  BY <1>12, RemovesLeft DEF DeleteGlusterVolume, At, Removing, Undoing
<1>13. CASE DeleteBricks(v)
  BY <1>13, RemovesLeft DEF DeleteBricks, At, Removing, Undoing
<1>14. CASE SimpleDeleteService(v)
  <2>. DEFINE next == IF call[v].task = "provision" THEN "error" ELSE "release"
  <2>1. call[v].pc = "rmservice" /\ Remove(v, {Service(v)}, next, next)
    BY <1>14 DEF SimpleDeleteService, At
  <2>2. call[v].task = "delete" => Services(v) \subseteq {Service(v)}
    BY <1>1, OneService, Now DEF Fits, InPhase
  <2>3. call[v].task # "provision" \/ next = "error"
    OBVIOUS
  <2>. HIDE DEF next
  <2> QED
    BY <2>1, <2>2, <2>3, RemovesLeft DEF Removing
<1>15. CASE SimpleRelease(v)
  <2>1. /\ call[v].pc = "release" /\ call[v].task # "provision"
        /\ \/ RemoveIfThere(v, NamedOf(v, "gid"), "done", "done")
           \/ Refuse(v, "done")
    BY <1>15, Now DEF SimpleRelease, At, GiveGidBack, Removing, Undoing
  <2> QED
    BY <2>1, RemovesLeft, LooksLeft DEF Removing
<1> QED
  BY <1>5, <1>6, <1>7, <1>8, <1>9, <1>10, <1>11, <1>12, <1>13, <1>14, <1>15 DEF CreateGlusterVolume

LEMMA FileLeft ==
  ASSUME IInv, LInv, NEW v \in Volumes,
         \/ FileProvision(v) \/ FileGid(v) \/ FileParse(v) \/ GetSource(v) \/ CreateVolume(v)
         \/ CreateVolumeSource(v) \/ UndoVolume(v) \/ AnnotatePVC(v)
         \/ FileDelete(v) \/ FileDeleteVolume(v) \/ FileDeleteService(v)
  PROVE  LInv'
<1>1. kind \in FileKinds /\ kind \notin CephKinds /\ kind # "glusterfs"
  BY DEF FileProvision, FileGid, FileParse, GetSource, CreateVolume, CreateVolumeSource, UndoVolume,
         AnnotatePVC, FileDelete, FileDeleteVolume, FileDeleteService, InFile, FileKinds, CephKinds
<1>2. ASSUME NEW pc, NEW made, pc \notin {"provision", "list", "gid", "restore", "share"}
      PROVE  SoFarNow(v, pc, call[v].n, made)
  BY <1>1, <1>2 DEF SoFarNow, SoFar
<1>3. CASE FileProvision(v)
  <2>1. call[v].pc = "provision" /\ call[v].pc \in Making
    BY <1>3 DEF FileProvision, InFile, Making
  <2>2. call[v].made = {} /\ call[v].task = "provision"
    BY <2>1, InHandAt DEF SoFarNow, SoFar
  <2>3. /\ OnlyCallOf(v) /\ has' = has /\ failures'[v] = failures[v]
        /\ call'[v].pc = "gid" /\ call'[v].n = call[v].n /\ call'[v].made = {}
    BY <1>3, <2>2, Now DEF FileProvision, OnlyCallOf, NoFault, Goto, fixedVars, TypeOK, Calls
  <2>4. SoFarNow(v, call'[v].pc, call'[v].n, call'[v].made)
    BY <1>1, <2>3 DEF SoFarNow, SoFar
  <2> QED
    BY <2>2, <2>3, <2>4, GoesLeft DEF Making
<1>4. CASE FileGid(v)
  BY <1>1, <1>4, TakeGidLeft DEF FileGid, InFile
<1>5. CASE FileParse(v)
  <2>. DEFINE next == IF kind = "glusterclone" THEN "source" ELSE "create"
  <2>1. call[v].pc = "parse" /\ Parse(v, next) /\ next \in Making
    BY <1>5 DEF FileParse, InFile, Making
  <2>2. next \in {"source", "create"}
    OBVIOUS
  <2>. HIDE DEF next
  <2>3. SoFarNow(v, next, call[v].n, call[v].made)
    BY <1>2, <2>2
  <2> QED
    BY <1>1, <2>1, <2>3, ParseEdited
<1>6. CASE GetSource(v) \/ (InFile(v, "nodes") /\ Ask(v, "service", "error"))
  <2>1. call[v].pc \in Making /\ (Ask(v, "create", "error") \/ Ask(v, "service", "error"))
    BY <1>6 DEF GetSource, InFile, Making
  <2>2. \A pc \in {"create", "service"} : SoFarNow(v, pc, call[v].n, call[v].made)
    BY <1>2
  <2> QED
    BY <2>1, <2>2, GoLeft DEF Making
<1>7. CASE CreateVolume(v)
  <2>1. PICK n \in Fresh(v, "volume") : Create(v, Asset("volume", v, n), "nodes", "error")
    BY <1>7 DEF CreateVolume
  <2>2. Asset("volume", v, n) \notin has
    BY DEF Fresh
  <2>3. /\ Request(v, {Asset("volume", v, n)}, {}, "nodes", "error") /\ call[v].pc \in Making
        /\ NamedLike(v, Asset("volume", v, n))
    BY <1>7, <2>1, <2>2, MineIsNamed DEF Create, CreateVolume, InFile, Making, Types
  <2>4. SoFarNow(v, "nodes", call[v].n, call[v].made \cup {Asset("volume", v, n)})
    BY <1>2
  <2> QED
    BY <2>3, <2>4, AddLeft DEF Making
<1>8. CASE \E u \in memory : InFile(v, "service") /\ Ensure(v, {Service(u)}, "annotate", "undo")
  <2>1. PICK u \in memory : InFile(v, "service") /\ Ensure(v, {Service(u)}, "annotate", "undo")
    BY <1>8
  <2>2. NamedLike(v, Service(u))
    BY <1>1 DEF NamedLike, Service, Asset
  <2>3. SoFarNow(v, "annotate", call[v].n, call[v].made \cup {Service(u)})
    BY <1>2
  <2> QED
    BY <2>1, <2>2, <2>3, AddLeft DEF InFile, Ensure, Making, Undoing
<1>9. CASE UndoVolume(v)
  <2>. DEFINE mine == {a \in call[v].made : a.type = "volume"}
  <2>1. call[v].pc = "undo" /\ Remove(v, mine, "error", "error")
    BY <1>9 DEF UndoVolume, InFile
  <2>. HIDE DEF mine
  <2> QED
    BY <2>1, RemovesLeft DEF Undoing
<1>10. CASE AnnotatePVC(v)
  <2>1. call[v].pc \in Making
    BY <1>10 DEF AnnotatePVC, InFile, Making
  <2>2. CASE Die(has)
    BY <2>2, DieLeft
  <2>3. CASE Ask(v, "done", "error") \/ Ask(v, "done", "done")
    <3>1. \A pc \in {"done", "error"} : SoFarNow(v, pc, call[v].n, call[v].made)
      BY <1>2
    <3> QED
      BY <2>1, <2>3, <3>1, OnwardLeft
  <2> QED
    BY <1>10, <2>2, <2>3 DEF AnnotatePVC
<1>11. CASE FileDelete(v)
  <2>1. /\ call[v].pc = "delete" /\ call[v].task # "provision"
        /\ \/ RemoveIfThere(v, NamedOf(v, "gid"), "rmvolume", "error")
           \/ Refuse(v, "error")
    BY <1>11, Now DEF FileDelete, InFile, GiveGidBack, Removing, Undoing
  <2> QED
    BY <2>1, RemovesLeft, LooksLeft DEF Removing
<1>12. CASE FileDeleteVolume(v)
  <2>1. /\ call[v].pc = "rmvolume" /\ call[v].task # "provision"
        /\ Remove(v, NamedOf(v, "volume"), "rmservice", "error")
    BY <1>1, <1>12, Now DEF FileDeleteVolume, InFile, Fits, InPhase
  <2> QED
    BY <2>1, RemovesLeft DEF Removing
<1>13. CASE FileDeleteService(v)
  <2>1. /\ call[v].pc = "rmservice" /\ call[v].task # "provision"
        /\ Remove(v, NamedOf(v, "service"), "done", "done")
    BY <1>1, <1>13, Now DEF FileDeleteService, InFile, Fits, InPhase
  <2>2. call[v].task = "delete" => Services(v) = NamedOf(v, "service")
    BY DEF Services, NamedOf, Named
  <2> QED
    BY <2>1, <2>2, RemovesLeft DEF Removing
<1> QED
  BY <1>3, <1>4, <1>5, <1>6, <1>7, <1>8, <1>9, <1>10, <1>11, <1>12, <1>13 DEF CreateVolumeSource

LEMMA BlockLeft ==
  ASSUME IInv, LInv, NEW v \in Volumes,
         \/ BlockProvision(v) \/ BlockParse(v) \/ BlockCreate(v) \/ ModifyAuth(v)
         \/ StoreFields(v) \/ CreateSecretRef(v) \/ BlockDelete(v) \/ DeleteSecretRef(v)
  PROVE  LInv'
<1>1. kind \notin CephKinds \cup FileKinds \cup {"glusterfs"}
  BY DEF BlockProvision, BlockParse, BlockCreate, ModifyAuth, StoreFields, CreateSecretRef,
         BlockDelete, DeleteSecretRef, InBlock, BlockKinds, CephKinds, FileKinds
<1>2. CASE BlockProvision(v)
  BY <1>1, <1>2, CheckLeft DEF BlockProvision, InBlock, Making
<1>3. CASE BlockParse(v)
  BY <1>1, <1>3, ParseLeft DEF BlockParse, InBlock, Making
<1>4. CASE BlockCreate(v)
  <2>. DEFINE next == IF kind = "glusterblock" THEN "modify" ELSE "answer"
  <2>1. PICK n \in Fresh(v, "volume") : Create(v, Asset("volume", v, n), next, "error")
    BY <1>4 DEF BlockCreate
  <2>2. next \in {"modify", "answer"} /\ Asset("volume", v, n) \notin has /\ NamedLike(v, Asset("volume", v, n))
    BY MineIsNamed DEF Fresh, Types
  <2>. HIDE DEF next
  <2>3. Request(v, {Asset("volume", v, n)}, {}, next, "error") /\ call[v].pc \in Making
    BY <1>4, <2>1, <2>2 DEF Create, BlockCreate, InBlock, Making
  <2> QED
    BY <1>1, <2>2, <2>3, PlainAdd DEF Making
<1>5. CASE ModifyAuth(v) \/ StoreFields(v)
  <2>1. call[v].pc \in Making /\ (Ask(v, "answer", "error") \/ Ask(v, "secret", "error"))
    BY <1>5 DEF ModifyAuth, StoreFields, InBlock, Making
  <2> QED
    BY <1>1, <2>1, PlainGo DEF Making
<1>6. CASE CreateSecretRef(v)
  <2>1. PICK a \in call[v].made : Ensure(v, {Asset("secret", v, a.n)}, "done", "error")
    BY <1>6 DEF CreateSecretRef
  <2>2. NamedLike(v, Asset("secret", v, a.n)) /\ call[v].pc \in Making
    BY <1>6, MineIsNamed DEF Types, CreateSecretRef, InBlock, Making
  <2> QED
    BY <1>1, <2>1, <2>2, PlainAdd DEF Ensure, Making
<1>7. CASE BlockDelete(v) \/ DeleteSecretRef(v)
  <2>1. /\ call[v].pc \in Removing \ Undoing
        /\ \/ Remove(v, NamedOf(v, "volume"), "unsecret", "error")
           \/ RemoveIfThere(v, NamedOf(v, "secret"), "done", "error")
    BY <1>7 DEF BlockDelete, DeleteSecretRef, InBlock, Removing, Undoing
  <2> QED
    BY <1>1, <2>1, PlainRemove
<1> QED
  BY <1>2, <1>3, <1>4, <1>5, <1>6, <1>7

LEMMA PromoterLeft ==
  ASSUME IInv, LInv, NEW v \in Volumes, Promoter(v)
  PROVE  LInv'
<1>1. kind \notin CephKinds \cup FileKinds \cup {"glusterfs"}
  BY DEF Promoter, SnapshotRestore, VolumeDelete, PromoterProvision, RestoreEBS, createTags,
         DeleteUntagged, RestorePD, RestoreCinder, RestoreHostpath, RestoreGluster,
         CreateCloneVolumeSpec, RestoreOpenEBS, ReadClone, DeleteEBS, DeletePD, DeleteCinder,
         DeleteCinderVolume, DeleteHostpath, DeleteGluster, DeleteOpenEBSClone, At,
         CloudCopies, LocalCopies, CephKinds, FileKinds
<1>2. /\ NamedLike(v, NamedLikePV(v)) /\ NamedLike(v, NamedLikeSnapshot(v))
      /\ \A disk \in MadeUp(v) : NamedLike(v, disk)
  <2>1. \A n : NamedLike(v, Asset("volume", v, n)) /\ NamedLike(v, Asset("volume", claim[v].name, n))
    BY MineIsNamed DEF Types
  <2> QED
    BY <2>1 DEF NamedLikePV, NamedLikeSnapshot, MadeUp
<1>3. CASE PromoterProvision(v)
  <2>1. call[v].pc = "provision" /\ Ask(v, "restore", "error")
    BY <1>3 DEF PromoterProvision
  <2> QED
    BY <1>1, <2>1, PlainStart, PlainGo DEF Making
<1>4. CASE RestoreEBS(v) \/ RestorePD(v) \/ RestoreCinder(v) \/ RestoreHostpath(v) \/ RestoreGluster(v)
  <2>1. call[v].pc = "restore"
    BY <1>4 DEF RestoreEBS, RestorePD, RestoreCinder, RestoreHostpath, RestoreGluster, At
  <2>2. call[v].pc \in Making /\ call[v].made = {}
    BY <1>1, <2>1, PlainStart
  <2>3. CASE Refuse(v, "error")
    BY <2>2, <2>3, StopLeft
  <2>4. ASSUME NEW disk, NamedLike(v, disk), NEW ok \in {"tag", "done"}, Request(v, {disk}, {}, ok, "error")
        PROVE  LInv'
    BY <1>1, <2>2, <2>4, PlainAdd DEF Making
  <2> QED
    BY <1>2, <1>4, <2>3, <2>4
    DEF RestoreEBS, RestorePD, RestoreCinder, RestoreHostpath, RestoreGluster, CreateDisk,
        CreateDiskFromSnapshot, CreateCinderVolume, Ensure, Create
<1>5. CASE createTags(v)
  BY <1>1, <1>5, PlainGo DEF createTags, At, Making, Undoing
<1>6. CASE DeleteUntagged(v)
  <2>. DEFINE mine == call[v].made
  <2>1. call[v].pc = "untagged" /\ RemoveIfThere(v, mine, "error", "error")
    BY <1>6 DEF DeleteUntagged, At
  <2>. HIDE DEF mine
  <2> QED
    BY <2>1, RemovesLeft DEF Undoing
<1>7. CASE CreateCloneVolumeSpec(v)
  <2>1. call[v].pc \in Making /\ call[v].made = {}
    BY <1>1, <1>7, PlainStart DEF CreateCloneVolumeSpec, At
  <2>2. CASE Die(has)
    BY <2>2, DieLeft
  <2>3. CASE Goto(v, "clone") /\ NoFault /\ UNCHANGED <<has, apiVars>>
    BY <1>1, <2>1, <2>3, PlainGo DEF Making
  <2> QED
    BY <1>7, <2>2, <2>3 DEF CreateCloneVolumeSpec
<1>8. CASE RestoreOpenEBS(v)
  BY <1>1, <1>2, <1>8, PlainAdd DEF RestoreOpenEBS, At, Ensure, Making
<1>9. CASE ReadClone(v)
  BY <1>1, <1>9, PlainGo DEF ReadClone, At, Making
<1>10. CASE \/ DeleteEBS(v) \/ DeletePD(v) \/ DeleteCinder(v) \/ DeleteCinderVolume(v)
            \/ DeleteHostpath(v) \/ DeleteOpenEBSClone(v)
  <2>1. call[v].pc \in Removing \ Undoing
    BY <1>10 DEF DeleteEBS, DeletePD, DeleteCinder, DeleteCinderVolume, DeleteHostpath,
                 DeleteOpenEBSClone, At, Removing, Undoing
  <2>2. \/ Refuse(v, "error") \/ Ask(v, "drop", "error")
        \/ RemoveIfThere(v, Named(v), "done", "error")
        \/ RemoveIfThere(v, Named(v), "done", "done")
        \/ Remove(v, Named(v), "done", "error")
    BY <1>10 DEF DeleteEBS, DeletePD, DeleteCinder, DeleteCinderVolume, DeleteHostpath,
                 DeleteOpenEBSClone, deleteVolume, DeleteDisk, diskIsUsed
  <2> QED
    BY <1>1, <2>1, <2>2, PlainRemove
<1>11. CASE DeleteGluster(v)
  <2>1. /\ call[v].pc = "delete" /\ Services(v) = {} /\ call[v].task # "provision"
        /\ Goto(v, "done") /\ NoFault /\ UNCHANGED <<has, apiVars>>
    BY <1>1, <1>11, NoServices, Now DEF DeleteGluster, At, Removing, Undoing
  <2> QED
    BY <2>1, SkipLeft DEF Removing
<1> QED
  BY <1>3, <1>4, <1>5, <1>6, <1>7, <1>8, <1>9, <1>10, <1>11 DEF Promoter, SnapshotRestore, VolumeDelete
-----------------------------------------------------------------------------
(* The nodes, lib/controller and the users.                                *)

LEMMA NodeLeft ==
  ASSUME IInv, LInv, NEW v \in Volumes, Node(v)
  PROVE  LInv'
<1>1. /\ UNCHANGED <<kind, claim, edits, phase, pv, call, failures>>
      /\ \A a \in has' \ has : a.type = "watch"
  BY DEF Node, MapImage, UnmapImage, UseCopy, LeaveCopy, Attach, Detach, Kubelet, Watcher, Attachment,
         Asset, apiVars, fixedVars, boundVars
<1>2. \A a \in has' : Kept(a)'
  BY <1>1 DEF LInv, Kept, Excuse, NamedLike, Holds
<1> QED
  BY <1>1, <1>2 DEF LInv, Attempt, Published, OneOfAName, NamedLike

(* A released volume's PV goes when what it named is gone, or when nobody  *)
(* looked at the errors.                                                   *)
LEMMA RemovedIsGone ==
  ASSUME IInv, LInv, NEW v \in Volumes, call[v].task = "delete", call[v].pc = "done",
         NEW a \in has, Holds(v, a)
  PROVE  Kept(a) /\ (a.type \in {"watch", "archive"} \/ Excuse(a))
<1>1. phase[v] = "released" /\ a \in pv[v] /\ a.type # "service"
  BY Now DEF Fits, InPhase, Holds
<1>2. a.type \in {"volume", "secret", "export", "user", "brick", "started", "gid"}
  BY <1>1, Now DEF Fits, WhileNamed, Sure, Own, Makes, CephKinds, FileKinds, BlockKinds
<1>3. "done" \in Gone(kind, a.type)
  BY <1>2 DEF Gone
<1>4. Logged(kind, failures[v], edits) \/ failures[v] > 0
  BY <1>1, <1>3, Now DEF Fits, WhileNamed, Sure, NotServices
<1>5. NamedLike(v, a)
  BY HeldIsNamed
<1>6. Excuse(a)
  BY <1>4, <1>5, FailureExcuses DEF Logged, Excuse
<1> QED
  BY <1>6 DEF Kept

LEMMA ControllerLeft ==
  ASSUME IInv, LInv, NEW v \in Volumes, Controller(v) \/ Appear(v) \/ ReleasePV(v)
  PROVE  LInv'
<1>1. /\ call[v] \in Calls /\ call \in [Volumes -> Calls] /\ phase \in [Volumes -> {"new", "wanted", "bound", "released", "gone"}]
      /\ pv \in [Volumes -> SUBSET Assets] /\ failures \in [Volumes -> Nat]
      /\ InPhase(kind, phase[v], call[v].task, call[v].pc)
  BY Now DEF TypeOK, Fits
<1>2. /\ Idle \in Calls /\ Idle.task = "none" /\ Idle.made = {} /\ Idle.n = 0
  BY IdleTyped DEF Idle
(* What is the same in all of these, and what is to be seen of each.       *)
<1>3. ASSUME UNCHANGED <<kind, claim, edits, has>>,
             failures'[v] \in {failures[v], failures[v] + 1},
             \A u \in Volumes \ {v} : UNCHANGED <<call[u], phase[u], pv[u], failures[u]>>,
             \A a \in has : Holds(v, a) => Kept(a)',
             Attempt(v)', Published(v)', OneOfAName'
      PROVE  LInv'
  <2>1. /\ edits' \in Nat /\ edits' >= edits
        /\ \A u \in Volumes : failures'[u] \in Nat /\ failures'[u] >= failures[u]
    BY <1>1, <1>3, Now
  <2>2. \A a \in has' : Kept(a)'
    BY <1>3, <2>1, StepKeeps
  <2>3. \A u \in Volumes \ {v} : Attempt(u)' /\ Published(u)'
    BY <1>3 DEF LInv, Attempt, Published, NamedLike
  <2> QED
    BY <1>3, <2>2, <2>3 DEF LInv
<1>4. CASE StartProvision(v)
  <2>1. /\ UNCHANGED <<kind, claim, edits, has, phase, pv, failures>> /\ phase[v] = "wanted" /\ call[v].task = "none"
        /\ \A u \in Volumes \ {v} : call'[u] = call[u]
        /\ call'[v].task = "provision" /\ call'[v].pc = "provision" /\ call'[v].made = {} /\ call'[v].n = 0
    BY <1>1, <1>2, <1>4 DEF StartProvision, NoFault, apiVars, fixedVars, Idle
  <2>2. \A a \in has : ~Holds(v, a)
    BY <2>1 DEF Holds
  <2>3. Attempt(v)'
    BY <2>1 DEF Attempt, SoFar, CephKinds
  <2>4. Published(v)' /\ OneOfAName'
    BY <2>1 DEF LInv, Published, OneOfAName, NamedLike
  <2> QED
    BY <1>3, <2>1, <2>2, <2>3, <2>4
<1>5. CASE SavePV(v)
  <2>1. /\ call[v].task = "provision" /\ call[v].pc = "done" /\ phase[v] = "wanted"
        /\ UNCHANGED <<kind, claim, edits, has>>
        /\ \A u \in Volumes \ {v} : UNCHANGED <<call[u], phase[u], pv[u], failures[u]>>
    BY <1>1, <1>5 DEF SavePV, InPhase, fixedVars, NoFault, Fault
  <2>2. /\ \A a \in call[v].made : NamedLike(v, a)
        /\ SoFar(kind, v, claim[v].name, "done", call[v].n, call[v].made)
    BY <2>1 DEF LInv, Attempt
  <2>3. \A a : Holds(v, a) => a \in call[v].made
    BY <2>1 DEF Holds
  <2>4. CASE /\ phase' = [phase EXCEPT ![v] = "bound"]
             /\ pv' = [pv EXCEPT ![v] = call[v].made]
             /\ call' = [call EXCEPT ![v] = Idle]
             /\ NoFault
    <3>1. phase'[v] = "bound" /\ pv'[v] = call[v].made /\ call'[v] = Idle /\ failures' = failures
      BY <1>1, <2>4 DEF NoFault
    <3>2. \A a \in has : Holds(v, a) => Kept(a)'
      BY <2>3, <3>1 DEF Kept, Holds
    <3>3. Attempt(v)'
      BY <1>2, <3>1 DEF Attempt
    <3>4. Published(v)'
      <4>1. kind = "cephfsFixed" =>
              call[v].made = {Asset(type, claim[v].name, 0) : type \in {"volume", "user", "secret"}}
        BY <2>2 DEF SoFar, CephKinds
      <4> QED
        BY <2>1, <2>2, <3>1, <4>1 DEF Published, NamedLike
    <3>5. OneOfAName'
      BY <2>1, <3>1 DEF LInv, OneOfAName
    <3> QED
      BY <1>3, <2>1, <3>1, <3>2, <3>3, <3>4, <3>5
  <2>5. CASE /\ Fault(v)
             /\ call' = [call EXCEPT ![v].task = "cleanup", ![v].pc = "delete"]
             /\ UNCHANGED <<phase, pv>>
    <3>1. call'[v].task = "cleanup" /\ failures'[v] = failures[v] + 1 /\ UNCHANGED <<phase, pv>>
      BY <1>1, <2>5, FaultIs DEF Calls
    <3>2. failures'[v] > 0
      BY <1>1, <3>1
    <3>3. \A a \in has : Holds(v, a) => Kept(a)'
      BY <2>1, <2>2, <2>3, <3>2 DEF Kept, Excuse, NamedLike
    <3>4. Attempt(v)' /\ Published(v)' /\ OneOfAName'
      BY <2>1, <3>1 DEF LInv, Attempt, Published, OneOfAName, NamedLike
    <3> QED
      BY <1>3, <2>1, <3>1, <3>3, <3>4
  <2> QED
    BY <1>5, <2>4, <2>5 DEF SavePV
<1>6. CASE StartDelete(v)
  <2>1. /\ UNCHANGED <<kind, claim, edits, has, phase, pv, failures>> /\ phase[v] = "released"
        /\ \A u \in Volumes \ {v} : call'[u] = call[u]
        /\ call[v] = Idle /\ call'[v].task = "delete" /\ call'[v].pc = "delete"
    BY <1>1, <1>2, <1>6 DEF StartDelete, NoFault, apiVars, fixedVars, Idle
  <2>2. \A a \in has : Holds(v, a) => Kept(a)'
    BY <1>2, <2>1 DEF Holds, Kept
  <2>3. Attempt(v)' /\ Published(v)' /\ OneOfAName'
    BY <2>1 DEF LInv, Attempt, Published, OneOfAName, NamedLike
  <2> QED
    BY <1>3, <2>1, <2>2, <2>3
<1>7. CASE RemovePV(v)
  <2>1. /\ call[v].task = "delete" /\ call[v].pc = "done"
        /\ UNCHANGED <<kind, claim, edits, has, pv, failures>>
        /\ \A u \in Volumes \ {v} : UNCHANGED <<call[u], phase[u]>>
        /\ call'[v] = Idle /\ phase'[v] = "gone"
    BY <1>1, <1>7 DEF RemovePV, fixedVars, boundVars
  <2>2. \A a \in has : Holds(v, a) => Kept(a)'
    BY <2>1, RemovedIsGone DEF Kept, Excuse, NamedLike
  <2>3. Attempt(v)' /\ Published(v)' /\ OneOfAName'
    BY <1>2, <2>1 DEF LInv, Attempt, Published, OneOfAName, NamedLike
  <2> QED
    BY <1>3, <2>1, <2>2, <2>3
<1>8. CASE Return(v)
  <2>1. /\ call[v].pc = "error" \/ (call[v].pc = "done" /\ call[v].task = "cleanup")
        /\ UNCHANGED <<kind, claim, edits, has, phase, pv, failures>>
        /\ \A u \in Volumes \ {v} : call'[u] = call[u]
        /\ call'[v] = Idle
    BY <1>1, <1>8 DEF Return, NoFault, apiVars, fixedVars
  <2>2. \A a \in has : Holds(v, a) => Kept(a)'
    BY <1>1, <1>2, <2>1 DEF Holds, Kept, InPhase, Making
  <2>3. Attempt(v)' /\ Published(v)' /\ OneOfAName'
    BY <1>2, <2>1 DEF LInv, Attempt, Published, OneOfAName, NamedLike
  <2> QED
    BY <1>3, <2>1, <2>2, <2>3
<1>9. CASE Appear(v)
  <2>1. /\ UNCHANGED <<kind, claim, edits, has, pv, call, failures>>
        /\ \A u \in Volumes \ {v} : phase'[u] = phase[u]
        /\ phase[v] = "new" /\ phase'[v] = "wanted"
        /\ \A u \in Volumes : claim[u].name = claim[v].name => phase[u] \notin {"wanted", "bound"}
    BY <1>1, <1>9 DEF Appear, fixedVars, boundVars
  <2>2. \A a \in has : Holds(v, a) => Kept(a)'
    BY <1>1, <2>1 DEF Holds, InPhase
  <2>3. Attempt(v)' /\ Published(v)' /\ OneOfAName'
    BY <2>1 DEF LInv, Attempt, Published, OneOfAName, NamedLike
  <2> QED
    BY <1>3, <2>1, <2>2, <2>3
<1>10. CASE ReleasePV(v)
  <2>1. /\ UNCHANGED <<kind, claim, edits, has, pv, call, failures>>
        /\ \A u \in Volumes \ {v} : phase'[u] = phase[u]
        /\ phase[v] = "bound" /\ phase'[v] = "released"
    BY <1>1, <1>10 DEF ReleasePV, fixedVars, boundVars
  <2>2. \A a \in has : Holds(v, a) => Kept(a)'
    BY <1>1, <2>1 DEF Holds, Kept, InPhase
  <2>3. Attempt(v)' /\ Published(v)' /\ OneOfAName'
    BY <2>1 DEF LInv, Attempt, Published, OneOfAName, NamedLike
  <2> QED
    BY <1>3, <2>1, <2>2, <2>3
<1> QED
  BY <1>4, <1>5, <1>6, <1>7, <1>8, <1>9, <1>10 DEF Controller

LEMMA EditClassLeft ==
  ASSUME IInv, LInv, EditClass
  PROVE  LInv'
<1>1. /\ UNCHANGED <<kind, claim, phase, pv, call, failures, has>> /\ (edits > 0 => edits' > 0)
  BY Now DEF EditClass, fixedVars, IInv, TypeOK
<1>2. \A a \in has' : Kept(a)'
  BY <1>1 DEF LInv, Kept, Excuse, NamedLike, Holds
<1> QED
  BY <1>1, <1>2 DEF LInv, Attempt, Published, OneOfAName, NamedLike
-----------------------------------------------------------------------------
LEMMA LeftInductive == Spec => []LInv
<1>1. Init => LInv
  BY IdleTyped DEF Init, LInv, Attempt, Published, OneOfAName
<1>2. ASSUME IInv, LInv, [Next]_vars PROVE LInv'
  <2>1. CASE UNCHANGED vars
    BY <1>2, <2>1 DEF vars, fixedVars, boundVars, LInv, Kept, Excuse, NamedLike, Holds,
                      Attempt, Published, OneOfAName
  <2>2. CASE EditClass
    BY <1>2, <2>2, EditClassLeft
  <2>3. CASE Crash
    BY <1>2, <2>3, DieLeft DEF Crash
  <2>4. ASSUME NEW v \in Volumes,
               Provisioner(v) \/ Controller(v) \/ Node(v) \/ Appear(v) \/ ReleasePV(v)
        PROVE  LInv'
    <3>1. CASE Provisioner(v)
      BY <1>2, <3>1, DirectoriesLeft, RbdLeft, CephFSLeft, FlexLeft, DigitalOceanLeft, OpenEBSLeft,
         TargetdLeft, SimpleLeft, FileLeft, BlockLeft, PromoterLeft
      DEF Provisioner, Ceph, Plugins, Gluster
    <3> QED
      BY <1>2, <2>4, <3>1, NodeLeft, ControllerLeft
  <2> QED
    BY <1>2, <2>1, <2>2, <2>3, <2>4 DEF Next
<1> QED
  BY <1>1, <1>2, Inductive, PTL DEF Spec

(* An asset that no PV names and no call will name was left by a failed    *)
(* request, a crash, or a refusal that came too late.                      *)
THEOREM LeftByFailuresCorrect == Spec => []LeftByFailures
<1>1. IInv /\ LInv => LeftByFailures
  <2> SUFFICES ASSUME IInv, LInv, NEW v \in Volumes, NEW a \in Leftovers(v)
               PROVE  \/ LeftByRefusal(v)
                      \/ \E u \in Volumes :
                           /\ claim[u].name = claim[v].name \/ kind \in FileKinds
                           /\ failures[u] > 0
    BY DEF LeftByFailures
  <2>1. a \in has /\ a.of \in {v, claim[v].name} /\ a.type \notin {"watch", "archive"}
    BY DEF Leftovers
  <2>2. \A u \in Volumes : ~Holds(u, a)
    BY DEF Leftovers, Holds, AllNamed, InHand
  <2>3. Excuse(a)
    BY <2>1, <2>2 DEF LInv, Kept
  <2>4. \A u \in Volumes : claim[u].name \notin Volumes
    BY Now, NameOfClaim
  <2>5. ASSUME NEW u \in Volumes, NamedLike(u, a), failures[u] > 0
        PROVE  claim[u].name = claim[v].name \/ kind \in FileKinds
    BY <2>1, <2>4, <2>5 DEF NamedLike
  <2> QED
    BY <2>1, <2>3, <2>4, <2>5 DEF Excuse, LeftByRefusal
<1> QED
  BY <1>1, Inductive, LeftInductive, PTL
=============================================================================
