--------------------------- MODULE MCProvisioners ---------------------------
(* Two volumes.  Their claims have names of their own, or the second one    *)
(* was made after the other was deleted, has its name and asks for many    *)
(* writers, which GlusterFS and CephFS do not mind.                        *)
EXTENDS Provisioners, TLC

CONSTANTS v1, v2, a, b

MCVolumes == {v1, v2}

MCClaims ==
  {v1 :> [name |-> a, style |-> "plain"] @@ v2 :> [name |-> b, style |-> "plain"],
   v1 :> [name |-> a, style |-> "plain"] @@ v2 :> [name |-> a, style |-> "manyWriters"]}

(* One volume, for longer runs of bad luck.                                *)
MCOneVolume == {v1}

MCOneClaim ==
  {[v \in MCOneVolume |-> [name |-> a, style |-> style]] : style \in {"plain", "manyWriters"}}

MCLuns == 0 .. 2
=============================================================================
