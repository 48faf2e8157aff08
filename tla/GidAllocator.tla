---------------------------- MODULE GidAllocator ----------------------------
(***************************************************************************)
(* lib/gidallocator/allocator.go for one storage class: the table of GIDs  *)
(* is built from the PersistentVolumes when the first caller needs it, its *)
(* range follows the class, and callers take the next GID or give one      *)
(* back.  The map of tables and each table have a lock of their own, the   *)
(* list of PVs is read without any: a call is several steps.               *)
(***************************************************************************)
EXTENDS MinMaxTable

CONSTANTS
  Workers,      \* goroutines that provision or delete
  Ranges,       \* pairs <<gidMin, gidMax>> of the class parameters
  AbsoluteMax   \* absoluteGidMax, scaled down

Gids == 0 .. AbsoluteMax

(* What parseClassParameters returns; other parameters are refused before  *)
(* a table is looked for.                                                  *)
ParsedRange(r) == r[1] \in Gids /\ r[2] \in Gids /\ r[1] <= r[2]

ASSUME GidAssumption == AbsoluteMax \in Nat /\ \A r \in Ranges : ParsedRange(r)

NoGid == -1

NoTable == [used |-> {}]

VARIABLES
  table,     \* gidTable[class], NoTable when the map has none
  caller     \* per worker: where its call is, and the call's variables

CallPCs == {"out", "look", "collect", "install", "use"}

(* gid is NoGid in a call of AllocateNext, the GID to release otherwise.   *)
Call == [pc : CallPCs, range : Ranges, gid : Gids \cup {NoGid}, found : SUBSET Gids]

Enter(w, range, gid) ==
  caller' = [caller EXCEPT ![w] = [pc |-> "look", range |-> range, gid |-> gid, found |-> {}]]

Leave(w) == caller' = [caller EXCEPT ![w] = [@ EXCEPT !.pc = "out"]]

RangeOf(w, t) == SetRange(t, caller[w].range[1], caller[w].range[2])

(* A table that is there only gets the range of the caller's class.        *)
LookUp(w) ==
  /\ caller[w].pc = "look"
  /\ IF table = NoTable
       THEN /\ caller' = [caller EXCEPT ![w] = [@ EXCEPT !.pc = "collect"]]
            /\ UNCHANGED table
       ELSE /\ caller' = [caller EXCEPT ![w] = [@ EXCEPT !.pc = "use"]]
            /\ table' = RangeOf(w, table)

(* Faulty: the table starts empty.                                         *)
BadCollectGids(w, inUse) ==
  /\ caller[w].pc = "collect"
  /\ caller' = [caller EXCEPT ![w] = [@ EXCEPT !.pc = "install"]]
  /\ UNCHANGED table

(* collectGids: the PVs are listed and their GIDs put into a table of the  *)
(* caller's own; a GID found twice is only reported.                       *)
CollectGids(w, inUse) ==
  /\ caller[w].pc = "collect"
  /\ caller' = [caller EXCEPT ![w] = [@ EXCEPT !.pc = "install", !.found = inUse]]
  /\ UNCHANGED table

Filled(found) ==
  With(NewTable(0, AbsoluteMax), found, AbsoluteMax + 1 - Cardinality(found))

(* Faulty: the caller's table replaces one that appeared in the meantime.  *)
BadInstall(w) ==
  /\ caller[w].pc = "install"
  /\ table' = RangeOf(w, Filled(caller[w].found))
  /\ caller' = [caller EXCEPT ![w] = [@ EXCEPT !.pc = "use", !.found = {}]]

(* If in the meantime a table appeared, use it.                            *)
Install(w) ==
  /\ caller[w].pc = "install"
  /\ table' = RangeOf(w, IF table = NoTable THEN Filled(caller[w].found) ELSE table)
  /\ caller' = [caller EXCEPT ![w] = [@ EXCEPT !.pc = "use", !.found = {}]]

(* The range may have been changed by another caller since.                *)
TakeNext(w, gid) ==
  /\ caller[w].pc = "use" /\ caller[w].gid = NoGid
  /\ IsNext(table, gid)
  /\ table' = Take(table, gid)
  /\ Leave(w)

RangeIsFull(w) ==
  /\ caller[w].pc = "use" /\ caller[w].gid = NoGid
  /\ RangeFull(table) \/ ScanFails(table)
  /\ Leave(w)
  /\ UNCHANGED table

(* Faulty: the GID stays taken.                                            *)
BadGiveBack(w) ==
  /\ caller[w].pc = "use" /\ caller[w].gid # NoGid
  /\ Leave(w)
  /\ UNCHANGED table

GiveBack(w) ==
  /\ caller[w].pc = "use" /\ caller[w].gid # NoGid
  /\ table' = Put(table, caller[w].gid)
  /\ Leave(w)
=============================================================================
