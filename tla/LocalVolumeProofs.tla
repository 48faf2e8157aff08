------------------------- MODULE LocalVolumeProofs -------------------------
(***************************************************************************)
(* On a node with any volumes, either way of cleaning and any number of    *)
(* failures, crashes and PVs deleted by users, no goroutine and no Job     *)
(* cleans a volume in use and no volume with data is offered, as long as   *)
(* the informers catch up while the loop sleeps; all but the goroutines    *)
(* excepts the volumes whose released PV a user deleted.                   *)
(***************************************************************************)
EXTENDS LocalVolume, TLAPS

(* A process cleans in one way only.                                       *)
OneWay ==
  \A p \in Paths :
    IF useJob THEN proc[p] = "none" ELSE job[p] = "none" /\ jobCache[p] = "none"

(* Goroutines clean volumes whose PV is released, or was until a user      *)
(* deleted it; discovery has asked before it makes a PV.                   *)
ProcessesApart ==
  /\ \A p \in Paths : proc[p] = "running" => api[p] \in {"none", "released"}
  /\ pc = "create" => proc[at] # "running"

(* A cleaning that runs, failed or succeeded belongs to a released PV.     *)
OfReleased ==
  \A p \in Paths :
    (job[p] \in {"running", "succeeded"} \/ proc[p] # "none") /\ ~Disturbed(p)
      => api[p] = "released"

(* After a cleaning there is no data, nor is there any without a claim.    *)
NoData ==
  \A p \in Paths :
    /\ \/ job[p] = "succeeded" \/ proc[p] = "succeeded"
       \/ api[p] \in {"none", "available"}
    /\ ~Disturbed(p)
    => p \notin dirty

(* The loop goes through released PVs, and what the caches say of their    *)
(* Jobs is about their cleaning and not about an earlier one.              *)
TodoIsReleased ==
  pc \in {"reclaim", "remove"} =>
    \A p \in todo :
      /\ api[p] \in {"none", "released"}
      /\ ~Disturbed(p) =>
           /\ api[p] = "released"
           /\ job[p] # "deleting" /\ jobCache[p] # "deleting"
           /\ jobCache[p] = "succeeded" => job[p] = "succeeded"

(* A PV about to be deleted is released and its volume is clean.           *)
RemovedIsClean ==
  pc = "remove" =>
    /\ at \notin todo
    /\ ~Disturbed(at) =>
         /\ at \notin dirty /\ api[at] = "released"
         /\ job[at] \notin {"running", "succeeded"} /\ proc[at] = "none"

Inv == TypeOK /\ OneWay /\ ProcessesApart /\ OfReleased /\ NoData /\ TodoIsReleased /\ RemovedIsClean
-----------------------------------------------------------------------------
(* Every variable keeps its type, whatever users and informers do.         *)

LEMMA FaultType ==
  ASSUME TypeOK, NEW kind, Fault(kind)
  PROVE  faults' \in 0 .. MaxFaults /\ deletes' = deletes /\ crashes' = crashes
<1>1. faults \in 0 .. MaxFaults /\ MaxFaults \in Nat
  BY LocalVolumeAssumption DEF TypeOK
<1>2. QED
  BY <1>1 DEF Fault

LEMMA BoundsType ==
  ASSUME TypeOK, \/ UNCHANGED boundVars
                 \/ \E kind \in AllFaultKinds : Fault(kind)
  PROVE  /\ faults' \in 0 .. MaxFaults
         /\ deletes' = deletes
         /\ crashes' \in 0 .. MaxCrashes
<1>1. CASE UNCHANGED boundVars
  BY <1>1 DEF boundVars, TypeOK
<1>2. CASE \E kind \in AllFaultKinds : Fault(kind)
  BY <1>2, FaultType DEF TypeOK
<1>3. QED
  BY <1>1, <1>2

LEMMA TurnType == ASSUME TypeOK, Turn PROVE TypeOK'
<1>1. CASE StartTurn
  BY <1>1, BoundsType DEF StartTurn, TypeOK, apiVars, ReleasedPVs
<1>2. CASE ReclaimDone
  BY <1>2, BoundsType DEF ReclaimDone, TypeOK, apiVars
<1>3. CASE EndTurn
  BY <1>3, BoundsType DEF EndTurn, TypeOK, apiVars
<1>4. CASE RemovePV
  <2>1. UNCHANGED boundVars \/ \E kind \in AllFaultKinds : Fault(kind)
    BY <1>4 DEF RemovePV, AllFaultKinds
  <2>2. QED
    BY <1>4, <2>1, BoundsType DEF RemovePV, TypeOK, Phases
<1>5. CASE CreatePV
  <2>1. UNCHANGED boundVars \/ \E kind \in AllFaultKinds : Fault(kind)
    BY <1>5 DEF CreatePV, AllFaultKinds
  <2>2. QED
    BY <1>5, <2>1, BoundsType DEF CreatePV, TypeOK, Phases
<1>6. ASSUME NEW p \in Paths, SkipRunning(p) \/ SkipKnown(p) PROVE TypeOK'
  BY <1>6, BoundsType DEF SkipRunning, SkipKnown, Visit, Look, TypeOK, apiVars
<1>7. ASSUME NEW p \in Paths, RemoveStatus(p) PROVE TypeOK'
  <2>1. UNCHANGED boundVars \/ \E kind \in AllFaultKinds : Fault(kind)
    BY <1>7 DEF RemoveStatus, AllFaultKinds
  <2>2. job' \in [Paths -> JobStates] /\ proc' \in [Paths -> ProcStates]
    BY <1>7 DEF RemoveStatus, RemoveJob, RemoveEntry, TypeOK, JobStates, ProcStates
  <2>3. /\ UNCHANGED <<api, cache, jobCache, dirty, useJob>> /\ todo' \subseteq Paths
        /\ (pc' = pc /\ at' = at) \/ (pc' = "remove" /\ at' = p)
    BY <1>7 DEF RemoveStatus, Visit, TypeOK
  <2>4. QED
    BY <2>1, <2>2, <2>3, BoundsType, LocalVolumeAssumption DEF TypeOK
<1>8. ASSUME NEW p \in Paths, StartCleaning(p) PROVE TypeOK'
  <2>1. UNCHANGED boundVars \/ \E kind \in AllFaultKinds : Fault(kind)
    BY <1>8 DEF StartCleaning, runJob, AllFaultKinds
  <2>2. job' \in [Paths -> JobStates] /\ proc' \in [Paths -> ProcStates]
    BY <1>8 DEF StartCleaning, runJob, CreateJob, Mark, TypeOK, JobStates, ProcStates
  <2>3. UNCHANGED <<api, cache, jobCache, dirty, useJob, pc, at>> /\ todo' \subseteq Paths
    BY <1>8 DEF StartCleaning, runJob, Visit, TypeOK
  <2>4. QED
    BY <2>1, <2>2, <2>3, BoundsType DEF TypeOK
<1>9. ASSUME NEW p \in Paths, Discover(p) PROVE TypeOK'
  BY <1>9, BoundsType, LocalVolumeAssumption DEF Discover, Look, TypeOK, apiVars
<1>10. QED
  BY <1>1, <1>2, <1>3, <1>4, <1>5, <1>6, <1>7, <1>8, <1>9 DEF Turn

LEMMA RestartType == ASSUME TypeOK, Restart PROVE TypeOK'
<1>1. crashes' \in 0 .. MaxCrashes
  <2>1. crashes \in 0 .. MaxCrashes /\ MaxCrashes \in Nat
    BY LocalVolumeAssumption DEF TypeOK
  <2>2. QED
    BY <2>1 DEF Restart
<1>2. cache' \in [Paths -> Phases]
  BY DEF Restart, Handled, TypeOK, Phases
<1>3. job' \in [Paths -> JobStates] /\ jobCache' \in [Paths -> JobStates]
  BY DEF Restart, JobsLeft, TypeOK, JobStates
<1>4. proc' \in [Paths -> ProcStates] /\ todo' \subseteq Paths
  BY DEF Restart, ReleasedPVs, ProcStates
<1>5. QED
  BY <1>1, <1>2, <1>3, <1>4, LocalVolumeAssumption DEF Restart, TypeOK

LEMMA AroundType ==
  ASSUME TypeOK, NEW p \in Paths,
         \/ ProcessEnds(p) \/ JobSucceeds(p) \/ JobGoes(p) \/ SeePV(p) \/ SeeJob(p)
         \/ Use(p) \/ Release(p) \/ UserDeletes(p)
  PROVE  TypeOK'
<1>1. CASE ProcessEnds(p)
  <2>1. UNCHANGED boundVars \/ \E kind \in AllFaultKinds : Fault(kind)
    BY <1>1 DEF ProcessEnds, AllFaultKinds
  <2>2. proc' \in [Paths -> ProcStates] /\ dirty' \subseteq Paths
    BY <1>1 DEF ProcessEnds, Mark, TypeOK, ProcStates
  <2>3. QED
    BY <1>1, <2>1, <2>2, BoundsType DEF ProcessEnds, TypeOK, loopVars
<1>2. CASE JobSucceeds(p) \/ JobGoes(p)
  BY <1>2, BoundsType DEF JobSucceeds, JobGoes, TypeOK, JobStates, loopVars
<1>3. CASE SeePV(p) \/ SeeJob(p)
  BY <1>3, BoundsType DEF SeePV, UpdateCache, SeeJob, TypeOK, loopVars
<1>4. CASE Use(p) \/ Release(p)
  BY <1>4, BoundsType DEF Use, Release, TypeOK, Phases, loopVars
<1>5. CASE UserDeletes(p)
  BY <1>5 DEF UserDeletes, TypeOK, Phases, loopVars
<1>6. QED
  BY <1>1, <1>2, <1>3, <1>4, <1>5

LEMMA InitType == Init => TypeOK
BY LocalVolumeAssumption DEF Init, TypeOK, Handled, ReleasedPVs, Phases, JobStates, ProcStates

THEOREM TypeCorrect == Spec => []TypeOK
<1>1. TypeOK /\ [Next]_vars => TypeOK'
  <2>1. SUFFICES ASSUME TypeOK, [Next]_vars PROVE TypeOK'
    OBVIOUS
  <2>2. CASE Next
    BY <2>1, <2>2, TurnType, RestartType, AroundType DEF Next
  <2>3. CASE UNCHANGED vars
    BY <2>1, <2>3 DEF TypeOK, vars, apiVars, loopVars, boundVars
  <2>4. QED
    BY <2>1, <2>2, <2>3
<1>2. QED
  BY InitType, <1>1, PTL DEF Spec
-----------------------------------------------------------------------------
(* The steps of the loop.                                                  *)

(* A turn starts when the caches are right and no Job is on its way out.   *)
LEMMA StartTurnKeeps ==
  ASSUME Inv, Prompt, TypeOK', StartTurn
  PROVE  Inv'
<1>1. /\ UNCHANGED <<api, cache, job, jobCache, dirty, proc, useJob, deletes>>
      /\ pc' = "reclaim" /\ todo' = ReleasedPVs(api)
      /\ jobCache = job /\ \A p \in Paths : job[p] # "deleting"
  BY DEF StartTurn, CaughtUp, apiVars, boundVars
<1>2. TodoIsReleased'
  BY <1>1 DEF TodoIsReleased, ReleasedPVs
<1>3. OneWay' /\ ProcessesApart' /\ OfReleased' /\ NoData' /\ RemovedIsClean'
  BY <1>1 DEF Inv, OneWay, ProcessesApart, OfReleased, NoData, Disturbed, RemovedIsClean
<1>4. QED
  BY <1>2, <1>3 DEF Inv

(* A status that says succeeded is about this cleaning: the PV is deleted  *)
(* when its volume is clean.                                               *)
LEMMA RemoveStatusKeeps ==
  ASSUME Inv, TypeOK', NEW p \in Paths, RemoveStatus(p)
  PROVE  Inv'
<1>1. /\ UNCHANGED <<api, cache, jobCache, dirty, useJob, deletes>>
      /\ pc = "reclaim" /\ p \in todo /\ todo' = todo \ {p}
      /\ ~Disturbed(p) =>
           /\ api[p] = "released" /\ job[p] # "deleting" /\ jobCache[p] # "deleting"
           /\ jobCache[p] = "succeeded" => job[p] = "succeeded"
      /\ HasSucceeded(p)
  BY DEF Fault, boundVars, RemoveStatus, Visit, Inv, TodoIsReleased
<1>2. ~Disturbed(p) => p \notin dirty
  BY <1>1 DEF HasSucceeded, Inv, NoData
<1>3. CASE /\ useJob /\ RemoveJob(p) /\ UNCHANGED proc
           /\ pc' = "remove" /\ at' = p
  <2>1. /\ job' \in [Paths -> JobStates] /\ job'[p] = "deleting"
        /\ \A q \in Paths : q # p => job'[q] = job[q]
    BY <1>3 DEF RemoveJob, Inv, TypeOK, JobStates
  <2>2. OneWay' /\ ProcessesApart' /\ OfReleased' /\ NoData'
    BY <1>1, <1>3, <2>1 DEF Inv, OneWay, ProcessesApart, OfReleased, NoData, Disturbed
  <2>3. TodoIsReleased'
    BY <1>1, <1>3, <2>1 DEF Inv, TodoIsReleased, Disturbed, TypeOK
  <2>4. RemovedIsClean'
    BY <1>1, <1>2, <1>3, <2>1 DEF Inv, OneWay, RemovedIsClean, Disturbed
  <2>5. QED
    BY <2>2, <2>3, <2>4 DEF Inv
<1>4. CASE /\ ~useJob /\ RemoveEntry(p) /\ UNCHANGED job
           /\ pc' = "remove" /\ at' = p
  <2>1. /\ proc'[p] = "none"
        /\ \A q \in Paths : q # p => proc'[q] = proc[q]
    BY <1>4 DEF RemoveEntry, Inv, TypeOK
  <2>2. OneWay' /\ ProcessesApart' /\ OfReleased' /\ NoData'
    BY <1>1, <1>4, <2>1 DEF Inv, OneWay, ProcessesApart, OfReleased, NoData, Disturbed
  <2>3. TodoIsReleased'
    BY <1>1, <1>4 DEF Inv, TodoIsReleased, Disturbed
  <2>4. RemovedIsClean'
    BY <1>1, <1>2, <1>4, <2>1 DEF Inv, OneWay, RemovedIsClean, Disturbed
  <2>5. QED
    BY <2>2, <2>3, <2>4 DEF Inv
<1>5. CASE UNCHANGED <<job, proc, pc, at>>
  BY <1>1, <1>5 DEF Inv, OneWay, ProcessesApart, OfReleased, NoData, Disturbed, TodoIsReleased, RemovedIsClean
<1>6. QED
  BY <1>3, <1>4, <1>5 DEF RemoveStatus

(* Only volumes of released PVs are cleaned.                               *)
LEMMA StartCleaningKeeps ==
  ASSUME Inv, TypeOK', NEW p \in Paths, StartCleaning(p)
  PROVE  Inv'
<1>1. /\ UNCHANGED <<api, cache, jobCache, dirty, useJob, pc, at, deletes>>
      /\ pc = "reclaim" /\ p \in todo /\ todo' = todo \ {p}
      /\ api[p] \in {"none", "released"} /\ (~Disturbed(p) => api[p] = "released")
  BY DEF Fault, boundVars, StartCleaning, runJob, Visit, Inv, TodoIsReleased
<1>2. /\ \A q \in Paths : q # p => job'[q] = job[q] /\ proc'[q] = proc[q]
      /\ job'[p] = job[p] \/ (useJob /\ job[p] = "none" /\ job'[p] = "running")
      /\ proc'[p] = proc[p] \/ (~useJob /\ proc'[p] = "running")
  BY DEF StartCleaning, runJob, CreateJob, Mark, Inv, TypeOK
<1>3. OneWay' /\ ProcessesApart' /\ OfReleased' /\ NoData'
  BY <1>1, <1>2 DEF Inv, OneWay, ProcessesApart, OfReleased, NoData, Disturbed
<1>4. TodoIsReleased' /\ RemovedIsClean'
  BY <1>1, <1>2 DEF Inv, TodoIsReleased, RemovedIsClean, Disturbed, TypeOK
<1>5. QED
  BY <1>3, <1>4 DEF Inv

LEMMA RemovePVKeeps ==
  ASSUME Inv, TypeOK', RemovePV
  PROVE  Inv'
<1>1. /\ UNCHANGED <<cache, job, jobCache, dirty, proc, useJob, todo, deletes>>
      /\ pc = "remove" /\ pc' = "reclaim" /\ at \in Paths
      /\ api' = api \/ api' = [api EXCEPT ![at] = "none"]
  BY DEF Fault, boundVars, RemovePV, Inv, TypeOK
<1>2. /\ at \notin todo
      /\ ~Disturbed(at) => /\ at \notin dirty
                          /\ job[at] \notin {"running", "succeeded"} /\ proc[at] = "none"
  BY <1>1 DEF Inv, RemovedIsClean
<1>3. /\ \A p \in Paths : p # at => api'[p] = api[p]
      /\ api'[at] \in {api[at], "none"}
  BY <1>1 DEF Inv, TypeOK
<1>4. OneWay' /\ ProcessesApart' /\ OfReleased' /\ NoData'
  BY <1>1, <1>2, <1>3 DEF Inv, OneWay, ProcessesApart, OfReleased, NoData, Disturbed
<1>5. TodoIsReleased' /\ RemovedIsClean'
  BY <1>1, <1>2, <1>3 DEF Inv, TodoIsReleased, RemovedIsClean, Disturbed, TypeOK
<1>6. QED
  BY <1>4, <1>5 DEF Inv

(* A PV is only created where there is none, and there is no data then.    *)
LEMMA CreatePVKeeps ==
  ASSUME Inv, TypeOK', CreatePV
  PROVE  Inv'
<1>1. /\ UNCHANGED <<cache, job, jobCache, dirty, proc, useJob, todo, deletes>>
      /\ pc = "create" /\ pc' = "discover" /\ at \in Paths
      /\ \A p \in Paths :
           api'[p] = api[p] \/ (p = at /\ api[p] = "none" /\ api'[p] = "available")
      /\ proc[at] # "running"
  BY DEF Fault, boundVars, CreatePV, Inv, ProcessesApart, TypeOK
<1>2. OneWay' /\ ProcessesApart' /\ OfReleased' /\ NoData'
  BY <1>1 DEF Inv, OneWay, ProcessesApart, OfReleased, NoData, Disturbed
<1>3. TodoIsReleased' /\ RemovedIsClean'
  BY <1>1 DEF Inv, TodoIsReleased, RemovedIsClean, Disturbed
<1>4. QED
  BY <1>2, <1>3 DEF Inv

LEMMA TurnKeeps ==
  ASSUME Inv, Prompt, TypeOK', Turn
  PROVE  Inv'
<1>1. CASE ReclaimDone \/ EndTurn
  BY <1>1 DEF ReclaimDone, EndTurn, apiVars, boundVars, Inv, OneWay, ProcessesApart, OfReleased, NoData, Disturbed, TodoIsReleased,
              RemovedIsClean
<1>2. ASSUME NEW p \in Paths, SkipRunning(p) PROVE Inv'
  BY <1>2 DEF SkipRunning, Visit, apiVars, boundVars, Inv, OneWay, ProcessesApart, OfReleased, NoData, Disturbed, TodoIsReleased,
              RemovedIsClean
<1>3. ASSUME NEW p \in Paths, SkipKnown(p) PROVE Inv'
  BY <1>3 DEF SkipKnown, Look, apiVars, boundVars, Inv, OneWay, ProcessesApart, OfReleased,
              NoData, Disturbed, TodoIsReleased, RemovedIsClean
<1>4. ASSUME NEW p \in Paths, Discover(p) PROVE Inv'
  <2>1. /\ UNCHANGED <<apiVars, proc, useJob, boundVars>>
        /\ pc' = "create" /\ at' = p /\ proc[p] # "running"
    BY <1>4 DEF Discover, BeingCleaned, InProgress, IsRunning, Inv, OneWay
  <2>2. QED
    BY <2>1 DEF apiVars, boundVars, Inv, OneWay, ProcessesApart, OfReleased, NoData, Disturbed,
                TodoIsReleased, RemovedIsClean
<1>5. QED
  BY <1>1, <1>2, <1>3, <1>4, StartTurnKeeps, RemoveStatusKeeps, StartCleaningKeeps, RemovePVKeeps,
     CreatePVKeeps DEF Turn
-----------------------------------------------------------------------------
(* The steps around the loop.                                              *)

(* A restart takes longer than a Job needs to go, and its first list has   *)
(* PVs only that are released.                                             *)
LEMMA RestartKeeps ==
  ASSUME Inv, Prompt, TypeOK', Restart
  PROVE  Inv'
<1>1. /\ UNCHANGED <<api, dirty, useJob, deletes>> /\ pc' = "reclaim"
      /\ \A p \in Paths : proc'[p] = "none"
      /\ \A p \in Paths : job'[p] = (IF job[p] = "deleting" THEN "none" ELSE job[p])
      /\ jobCache' = job'
  BY DEF Restart, JobsLeft
<1>2. \A p \in todo' : p \in Paths /\ api[p] = "released"
  BY DEF Restart, Handled, ReleasedPVs
<1>3. OneWay' /\ ProcessesApart' /\ OfReleased' /\ NoData'
  BY <1>1 DEF Inv, OneWay, ProcessesApart, OfReleased, NoData, Disturbed
<1>4. TodoIsReleased'
  BY <1>1, <1>2 DEF TodoIsReleased
<1>5. RemovedIsClean'
  BY <1>1 DEF RemovedIsClean
<1>6. QED
  BY <1>3, <1>4, <1>5 DEF Inv

LEMMA CleaningEndsKeeps ==
  ASSUME Inv, TypeOK', NEW p \in Paths, ProcessEnds(p) \/ JobSucceeds(p) \/ JobGoes(p)
  PROVE  Inv'
<1>1. CASE ProcessEnds(p)
  <2>1. /\ UNCHANGED <<api, cache, job, jobCache, useJob, pc, todo, at, deletes>> /\ dirty' \subseteq dirty
        /\ proc[p] = "running" /\ proc'[p] \in {"succeeded", "failed"}
        /\ proc'[p] = "succeeded" => p \notin dirty'
        /\ \A q \in Paths : q # p => proc'[q] = proc[q]
    BY <1>1 DEF Fault, boundVars, ProcessEnds, IsRunning, Mark, loopVars, Inv, TypeOK
  <2>2. OneWay' /\ OfReleased' /\ NoData'
    BY <2>1 DEF Inv, OneWay, OfReleased, NoData, Disturbed
  <2>3. ProcessesApart'
    BY <2>1 DEF Inv, ProcessesApart, TypeOK
  <2>4. TodoIsReleased' /\ RemovedIsClean'
    BY <2>1 DEF Inv, TodoIsReleased, RemovedIsClean, Disturbed, TypeOK
  <2>5. QED
    BY <2>2, <2>4, <2>3 DEF Inv
<1>2. CASE JobSucceeds(p)
  <2>1. /\ UNCHANGED <<api, cache, jobCache, proc, useJob, pc, todo, at, deletes>> /\ dirty' = dirty \ {p}
        /\ job[p] = "running" /\ job'[p] = "succeeded"
        /\ \A q \in Paths : q # p => job'[q] = job[q]
    BY <1>2 DEF Fault, boundVars, JobSucceeds, loopVars, Inv, TypeOK
  <2>2. OneWay' /\ ProcessesApart' /\ OfReleased' /\ NoData'
    BY <2>1 DEF Inv, OneWay, ProcessesApart, OfReleased, NoData, Disturbed
  <2>3. TodoIsReleased' /\ RemovedIsClean'
    BY <2>1 DEF Inv, TodoIsReleased, RemovedIsClean, Disturbed, TypeOK
  <2>4. QED
    BY <2>2, <2>3 DEF Inv
<1>3. CASE JobGoes(p)
  <2>1. /\ UNCHANGED <<api, cache, jobCache, dirty, proc, useJob, pc, todo, at, deletes>>
        /\ job[p] = "deleting" /\ job'[p] = "none"
        /\ \A q \in Paths : q # p => job'[q] = job[q]
    BY <1>3 DEF Fault, boundVars, JobGoes, loopVars, Inv, TypeOK
  <2>2. OneWay' /\ ProcessesApart' /\ OfReleased' /\ NoData'
    BY <2>1 DEF Inv, OneWay, ProcessesApart, OfReleased, NoData, Disturbed
  <2>3. TodoIsReleased' /\ RemovedIsClean'
    BY <2>1 DEF Inv, TodoIsReleased, RemovedIsClean, Disturbed, TypeOK
  <2>4. QED
    BY <2>2, <2>3 DEF Inv
<1>4. QED
  BY <1>1, <1>2, <1>3

LEMMA InformerKeeps ==
  ASSUME Inv, TypeOK', NEW p \in Paths, SeePV(p) \/ SeeJob(p)
  PROVE  Inv'
<1>1. /\ UNCHANGED <<api, job, dirty, proc, useJob, pc, todo, at, deletes>>
      /\ \A q \in Paths : jobCache'[q] = jobCache[q] \/ jobCache'[q] = job[q]
  BY DEF Fault, boundVars, SeePV, UpdateCache, SeeJob, loopVars, Inv, TypeOK
<1>2. OneWay' /\ ProcessesApart' /\ OfReleased' /\ NoData'
  BY <1>1 DEF Inv, OneWay, ProcessesApart, OfReleased, NoData, Disturbed
<1>3. TodoIsReleased' /\ RemovedIsClean'
  BY <1>1 DEF Inv, TodoIsReleased, RemovedIsClean, Disturbed, TypeOK
<1>4. QED
  BY <1>2, <1>3 DEF Inv

(* Users come to PVs that are not released, or leave a note that they did.*)
LEMMA UserKeeps ==
  ASSUME Inv, TypeOK', NEW p \in Paths, Use(p) \/ Release(p) \/ UserDeletes(p)
  PROVE  Inv'
<1>1. /\ UNCHANGED <<cache, job, jobCache, proc, useJob, pc, todo, at>>
      /\ deletes \subseteq deletes'
      /\ api[p] \in {"available", "bound", "released"}
      /\ api[p] = "available" => api'[p] \in {"bound", "none"}
      /\ api[p] = "bound" => api'[p] = "released"
      /\ api[p] = "released" => api'[p] = "none" /\ <<p, "released">> \in deletes'
      /\ dirty' = dirty \/ (dirty' = dirty \cup {p} /\ api'[p] = "bound")
      /\ \A q \in Paths : q # p => api'[q] = api[q]
  BY LocalVolumeAssumption DEF Use, Release, UserDeletes, loopVars, boundVars, Inv, TypeOK
<1>2. OneWay' /\ ProcessesApart' /\ OfReleased'
  BY <1>1 DEF Inv, OneWay, ProcessesApart, OfReleased, Disturbed
<1>3. NoData'
  BY <1>1 DEF Inv, OfReleased, NoData, Disturbed
<1>4. TodoIsReleased'
  BY <1>1 DEF Inv, TodoIsReleased, Disturbed, TypeOK
<1>5. RemovedIsClean'
  BY <1>1 DEF Inv, RemovedIsClean, Disturbed, TypeOK
<1>6. QED
  BY <1>2, <1>3, <1>4, <1>5 DEF Inv

LEMMA InitInv == Init => Inv
<1>1. SUFFICES ASSUME Init PROVE Inv
  OBVIOUS
<1>2. OneWay /\ ProcessesApart /\ OfReleased /\ NoData
  BY <1>1 DEF Init, OneWay, ProcessesApart, OfReleased, NoData, Disturbed
<1>3. TodoIsReleased /\ RemovedIsClean
  BY <1>1 DEF Init, Handled, ReleasedPVs, TodoIsReleased, RemovedIsClean
<1>4. QED
  BY <1>1, <1>2, <1>3, InitType DEF Inv

THEOREM InvHolds ==
  ASSUME Prompt
  PROVE  Spec => []Inv
<1>1. Inv /\ TypeOK' /\ [Next]_vars => Inv'
  <2>1. SUFFICES ASSUME Inv, TypeOK', [Next]_vars PROVE Inv'
    OBVIOUS
  <2>2. CASE Next
    BY <2>1, <2>2, TurnKeeps, RestartKeeps, CleaningEndsKeeps, InformerKeeps, UserKeeps DEF Next
  <2>3. CASE UNCHANGED vars
    BY <2>1, <2>3 DEF vars, apiVars, loopVars, boundVars, Inv, OneWay, ProcessesApart, OfReleased, NoData, Disturbed,
                      TodoIsReleased, RemovedIsClean
  <2>4. QED
    BY <2>1, <2>2, <2>3
<1>2. QED
  BY InitInv, TypeCorrect, <1>1, PTL DEF Spec

(* No goroutine cleans a volume whose PV can be bound or is in use,       *)
(* whatever users delete, and no Job does unless a user deleted the PV     *)
(* that was to be cleaned.                                                 *)
THEOREM CleaningIsApart ==
  ASSUME Prompt
  PROVE  Spec => []NoneCleanedInUse
<1>1. Inv => NoneCleanedInUse
  BY DEF Inv, ProcessesApart, OfReleased, NoneCleanedInUse
<1>2. QED
  BY <1>1, InvHolds, PTL

(* Whoever binds a PV finds a volume without the data of somebody else.    *)
THEOREM OfferedIsClean ==
  ASSUME Prompt
  PROVE  Spec => []AvailableIsClean
<1>1. Inv => AvailableIsClean
  BY DEF Inv, NoData, AvailableIsClean
<1>2. QED
  BY <1>1, InvHolds, PTL

(* A PV is deleted by the loop only when its volume holds no data.         *)
THEOREM RemovalIsClean ==
  ASSUME Prompt
  PROVE  Spec => DeletedIsClean
<1>1. Inv => [\A p \in Paths :
                pc = "remove" /\ at = p /\ api[p] # "none" /\ api'[p] = "none" /\ ~Disturbed(p)
                  => p \notin dirty]_vars
  BY DEF Inv, RemovedIsClean
<1>2. QED
  BY <1>1, InvHolds, PTL DEF DeletedIsClean
=============================================================================
