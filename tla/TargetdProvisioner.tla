------------------------- MODULE TargetdProvisioner -------------------------
(***************************************************************************)
(* iscsi/targetd: a logical volume, exported to the initiators under the   *)
(* first LUN that no export in a list read before had.  targetd takes      *)
(* neither a volume nor a LUN twice, and removes only what is there.       *)
(***************************************************************************)
EXTENDS StorageCalls

LogicalVolume(v) == Asset("volume", v, 0)

Exports == {a \in has : a.type = "export"}

FreeLuns == Luns \ {a.n : a \in Exports}

TargetdProvision(v) == At(v, "targetd", "provision") /\ Check(v, "list")

(* exportList and getFirstAvailableLun: the smallest number that is free.  *)
FirstAvailableLun(v) ==
  /\ At(v, "targetd", "list")
  /\ IF FreeLuns = {}
       THEN Refuse(v, "error")
       ELSE \/ /\ \E l \in FreeLuns :
                    /\ \A m \in FreeLuns : l <= m
                    /\ call' = [call EXCEPT ![v].pc = "create", ![v].lun = l]
               /\ NoFault /\ UNCHANGED <<has, apiVars>>
            \/ Fault(v) /\ Goto(v, "error") /\ UNCHANGED <<has, apiVars>>

VolCreate(v) == At(v, "targetd", "create") /\ Create(v, LogicalVolume(v), "export", "error")

(* Faulty: the LUN of another export is taken all the same.                *)
BadExportCreate(v) ==
  /\ At(v, "targetd", "export")
  /\ Request(v, {Asset("export", v, call[v].lun)}, {a \in Exports : a.n = call[v].lun}, "auth", "error")

(* Somebody else may have the LUN by now.                                  *)
ExportCreate(v) ==
  /\ At(v, "targetd", "export")
  /\ IF call[v].lun \in FreeLuns
       THEN Request(v, {Asset("export", v, call[v].lun)}, {}, "auth", "error")
       ELSE /\ failures' = [failures EXCEPT ![v] = @ + 1]
            /\ Goto(v, "error")
            /\ UNCHANGED <<has, apiVars, faults>>

SetInitiatorAuth(v) == At(v, "targetd", "auth") /\ Ask(v, "done", "error")

TargetdDelete(v) ==
  At(v, "targetd", "delete") /\ Remove(v, NamedOf(v, "export"), "destroy", "error")

VolDestroy(v) == At(v, "targetd", "destroy") /\ Remove(v, {LogicalVolume(v)}, "done", "error")

Targetd(v) ==
  \/ TargetdProvision(v) \/ FirstAvailableLun(v) \/ VolCreate(v) \/ ExportCreate(v)
  \/ SetInitiatorAuth(v) \/ TargetdDelete(v) \/ VolDestroy(v)
=============================================================================
