-------------------------- MODULE MinMaxAllocator --------------------------
(***************************************************************************)
(* Callers of one allocator of lib/allocator/minmax.go.  A caller takes    *)
(* numbers with Allocate or AllocateNext, gives back only numbers it holds,*)
(* and anyone may move the range at any time, as gidallocator does on each *)
(* call when the storage class has changed.                                *)
(***************************************************************************)
EXTENDS MinMaxTable

CONSTANTS
  Callers,      \* who holds numbers
  Numbers,      \* the numbers callers ask for by name
  Ranges        \* the ranges <<min, max>> the callers set

ASSUME RangesAssumption ==
  /\ Ranges \subseteq Int \X Int
  /\ Ranges # {}
  /\ \A r \in Ranges : r[1] <= r[2]          \* ErrInvalidRange otherwise

ASSUME NumbersAssumption == Numbers \subseteq Int

VARIABLES
  table,        \* the allocator
  held          \* held[c]: the numbers caller c was given and has not released

vars == <<table, held>>

TypeOK ==
  /\ table \in Table
  /\ held \in [Callers -> SUBSET Int]

Init ==
  /\ \E r \in Ranges : table = NewTable(r[1], r[2])
  /\ held = [c \in Callers |-> {}]

ChangeRange(r) ==
  /\ table' = SetRange(table, r[1], r[2])
  /\ UNCHANGED held

Give(c, i) ==
  /\ table' = Take(table, i)
  /\ held' = [held EXCEPT ![c] = @ \cup {i}]

Allocate(c, i) == CanAllocate(table, i) /\ Give(c, i)

AllocateNext(c) == \E i \in table.min .. table.max : IsNext(table, i) /\ Give(c, i)

(* The three error answers change nothing.                                 *)
Refuse ==
  /\ RangeFull(table) \/ ScanFails(table) \/ \E i \in Numbers : ~CanAllocate(table, i)
  /\ UNCHANGED vars

Release(c, i) ==
  /\ i \in held[c]
  /\ table' = Put(table, i)
  /\ held' = [held EXCEPT ![c] = @ \ {i}]

Next ==
  \/ \E r \in Ranges : ChangeRange(r)
  \/ \E c \in Callers, i \in Numbers : Allocate(c, i)
  \/ \E c \in Callers : AllocateNext(c)
  \/ \E c \in Callers : \E i \in held[c] : Release(c, i)
  \/ Refuse

Spec == Init /\ [][Next]_vars
-----------------------------------------------------------------------------
(* The counter that AllocateNext trusts is the number of free places of    *)
(* the current range, whatever sequence of range changes, allocations and  *)
(* releases inside and outside the range led here.                         *)
FreeIsExact == Exact(table)

(* No number is held twice: a range moved away and back does not forget    *)
(* the numbers that were handed out under the earlier range.               *)
HeldOnce ==
  \A c, d \in Callers : c # d => held[c] \cap held[d] = {}

(* AllocateNext never answers ErrInternal, and it answers ErrRangeFull     *)
(* only when no number of the range is free: counter and map agree.        *)
NoSpuriousAnswer ==
  /\ ~ScanFails(table)
  /\ RangeFull(table) => \A i \in table.min .. table.max : Has(table, i)
=============================================================================
