-------------------------- MODULE VolumeLifecycle --------------------------
(***************************************************************************)
(* What lib/controller promises about one volume, without queues, caches   *)
(* or workers: the storage asset exists before its PersistentVolume object *)
(* and outlives it in no way but the documented one.                       *)
(***************************************************************************)
CONSTANT Volumes

VARIABLES
  asset,      \* the volumes whose storage asset exists
  object      \* object[v]: the PersistentVolume object, if any

vars == <<asset, object>>

Init == asset = {} /\ object = [v \in Volumes |-> "none"]

(* Provision works for a volume that has no object yet.                    *)
MakeAsset(v) ==
  /\ object[v] = "none"
  /\ asset' = asset \cup {v}
  /\ UNCHANGED object

(* An object is published only for an asset that exists.                   *)
Publish(v) ==
  /\ object[v] = "none" /\ v \in asset
  /\ object' = [object EXCEPT ![v] = "live"]
  /\ UNCHANGED asset

Release(v) ==
  /\ object[v] = "live"
  /\ object' = [object EXCEPT ![v] = "released"]
  /\ UNCHANGED asset

(* The asset goes only when nobody can be using it: before the object was  *)
(* ever published, or after it was released.                               *)
DropAsset(v) ==
  /\ object[v] \in {"none", "released"}
  /\ asset' = asset \ {v}
  /\ UNCHANGED object

(* The object goes only after the asset: otherwise nobody would know of it.*)
Withdraw(v) ==
  /\ object[v] = "released" /\ v \notin asset
  /\ object' = [object EXCEPT ![v] = "none"]
  /\ UNCHANGED asset

Next == \E v \in Volumes :
          MakeAsset(v) \/ Publish(v) \/ Release(v) \/ DropAsset(v) \/ Withdraw(v)

Spec == Init /\ [][Next]_vars
=============================================================================
