------------------------------ MODULE IdStore ------------------------------
(***************************************************************************)
(* nfs/pkg/volume/util.go: a map of the ids in use (behind one mutex) and  *)
(* a file with one block per user of an id (behind another).  The nfs      *)
(* provisioner keeps two of them, for exports and for quota projects.      *)
(***************************************************************************)
EXTENDS Integers, FiniteSets

CONSTANTS
  Volumes,   \* volumes, by the name of their PV
  MaxId      \* bound: math.MaxUint16

NoVolume == "none"

Block == [vol : Volumes \cup {NoVolume}, id : 0 .. MaxId]

Store == [ids : SUBSET (0 .. MaxId), file : SUBSET Block]

B(vol, id) == [vol |-> vol, id |-> id]

BlocksOf(s, vol) == {b \in s.file : b.vol = vol}

Unused(s) == (0 .. MaxId) \ s.ids

(* The loop starts at 1; after the last number its uint16 wraps to 0.  It  *)
(* has no other end: with every id in use it holds the mutex forever.      *)
GenerateID(s, id) ==
  [next |-> [s EXCEPT !.ids = @ \cup {id}],
   ok   |-> /\ id \in Unused(s)
            /\ \A j \in Unused(s) \ {0} : id # 0 /\ id <= j]

DeleteID(s, id) == [s EXCEPT !.ids = @ \ {id}]

AddToFile(s, block) == [s EXCEPT !.file = @ \cup {block}]

(* strings.Replace without a limit: every copy of the block goes.          *)
RemoveFromFile(s, block) == [s EXCEPT !.file = @ \ {block}]

(* Faulty: the ids of the file are not read.                               *)
BadLoad(file) == [ids |-> {}, file |-> file]

(* getExistingIDs, at the start of the process.                            *)
Load(file) == [ids |-> {b.id : b \in file}, file |-> file]
=============================================================================
