------------------------- MODULE PluginProvisioners -------------------------
(***************************************************************************)
(* flex: a user's script per operation.  digitalocean: one call of the     *)
(* cloud per operation, and the flexvolume plugin that attaches volumes to *)
(* nodes.  openebs: REST calls of the Maya API server.                     *)
(***************************************************************************)
EXTENDS StorageCalls

PluginVolume(v) == Asset("volume", v, 0)
-----------------------------------------------------------------------------
(* Flex: the script may be repeated.                                       *)

FlexProvision(v) == At(v, "flex", "provision") /\ Ensure(v, {PluginVolume(v)}, "done", "error")

(* A script that fails leaves no output, and the message of the missing    *)
(* output is logged: the process panics.                                   *)
FlexDelete(v) ==
  /\ At(v, "flex", "delete")
  /\ \/ /\ has' = has \ {PluginVolume(v)}
        /\ Goto(v, "done")
        /\ NoFault /\ UNCHANGED apiVars
     \/ \E after \in {has, has \ {PluginVolume(v)}} : Die(after)
-----------------------------------------------------------------------------
(* DigitalOcean: names are unique, a volume in use stays.                  *)

Droplets == {1, 2}

Attachment(v, d) == Asset("watch", v, d)

Attached(v) == {d \in Droplets : Attachment(v, d) \in has}

DigitalOceanProvision(v) == At(v, "digitalocean", "provision") /\ Check(v, "create")

DigitalOceanCreate(v) ==
  /\ At(v, "digitalocean", "create")
  /\ IF class = "invalid" THEN Refuse(v, "error") ELSE Create(v, PluginVolume(v), "done", "error")

DigitalOceanDelete(v) ==
  /\ At(v, "digitalocean", "delete")
  /\ IF Attached(v) # {} THEN Refuse(v, "error") ELSE Remove(v, {PluginVolume(v)}, "done", "error")

Kubelet(users) ==
  /\ has' = users
  /\ UNCHANGED <<fixedVars, memory, class, phase, pv, call, failures, boundVars>>

(* attach: looks the volume up by its name; a volume that another droplet  *)
(* has is an error.                                                        *)
Attach(v, d) ==
  /\ kind = "digitalocean" /\ phase[v] = "bound"
  /\ PluginVolume(v) \in has /\ Attached(v) = {}
  /\ Kubelet(has \cup {Attachment(v, d)})

(* detach: only from the droplet that has it.                              *)
Detach(v, d) ==
  /\ kind = "digitalocean" /\ PluginVolume(v) \in has /\ d \in Attached(v)
  /\ Kubelet(has \ {Attachment(v, d)})
-----------------------------------------------------------------------------
(* OpenEBS.                                                                *)

ReadBack(v) == IF claim[v].style = "manyWriters" THEN Ask(v, "error", "error") ELSE Ensure(v, {PluginVolume(v)} \cap has, "done", "error")

OpenEBSProvision(v) ==
  /\ At(v, "openebs", "provision")
  /\ IF PluginVolume(v) \in has THEN ReadBack(v) ELSE Ask(v, "create", "error")

OpenEBSCreate(v) == At(v, "openebs", "create") /\ Ensure(v, {PluginVolume(v)}, "read", "error")

(* The volume is made, and only then the access modes are looked at.       *)
OpenEBSRead(v) == At(v, "openebs", "read") /\ ReadBack(v)

OpenEBSDelete(v) == At(v, "openebs", "delete") /\ Remove(v, {PluginVolume(v)}, "done", "error")

Plugins(v) ==
  \/ FlexProvision(v) \/ FlexDelete(v)
  \/ DigitalOceanProvision(v) \/ DigitalOceanCreate(v) \/ DigitalOceanDelete(v)
  \/ OpenEBSProvision(v) \/ OpenEBSCreate(v) \/ OpenEBSRead(v) \/ OpenEBSDelete(v)
=============================================================================
