----------------------- MODULE MinMaxAllocatorProofs -----------------------
(***************************************************************************)
(* The allocator is correct for any callers, any ranges and any order of   *)
(* range changes, allocations and releases.                                *)
(***************************************************************************)
EXTENDS MinMaxAllocator, MinMaxTableProofs

(* A range is never empty: SetRange refuses min > max.                     *)
RangeNotEmpty == table.min <= table.max

(* The allocator's map is what the callers hold: without this, a release   *)
(* by one caller could free the number of another.                         *)
HeldIsUsed == \A c \in Callers : held[c] \subseteq table.used

IInv ==
  /\ TypeOK
  /\ FreeIsExact
  /\ RangeNotEmpty
  /\ HeldIsUsed
  /\ HeldOnce

LEMMA InitIInv == Init => IInv
<1>1. SUFFICES ASSUME Init PROVE IInv
  OBVIOUS
<1>2. PICK r \in Ranges : table = NewTable(r[1], r[2])
  BY <1>1 DEF Init
<1>3. r[1] \in Int /\ r[2] \in Int /\ r[1] <= r[2]
  BY RangesAssumption
<1>4. table \in Table /\ Exact(table)
  BY <1>2, <1>3, NewTableExact
<1>5. RangeNotEmpty
  BY <1>2, <1>3 DEF NewTable, RangeNotEmpty
<1>6. QED
  BY <1>1, <1>4, <1>5 DEF Init, IInv, TypeOK, FreeIsExact, HeldIsUsed, HeldOnce

(* Taking a number that is not in use keeps the invariant: nobody else     *)
(* holds it.                                                               *)
LEMMA GiveIInv ==
  ASSUME IInv, NEW c \in Callers, NEW i \in Int, CanAllocate(table, i), Give(c, i)
  PROVE  IInv'
<1>1. table' \in Table /\ Exact(table')
  BY TakeExact DEF IInv, TypeOK, FreeIsExact, Give
<1>2. /\ table'.used = table.used \cup {i}
      /\ table'.min = table.min /\ table'.max = table.max
  BY DEF Give, Take, With, IInv, TypeOK, Table
<1>3. held' \in [Callers -> SUBSET Int]
  BY DEF Give, IInv, TypeOK
<1>4. \A d \in Callers : i \notin held[d]
  BY DEF IInv, HeldIsUsed, CanAllocate, Has
<1>5. \A d \in Callers : held'[d] = IF d = c THEN held[d] \cup {i} ELSE held[d]
  BY DEF Give, IInv, TypeOK
<1>6. HeldIsUsed'
  BY <1>2, <1>5 DEF IInv, HeldIsUsed
<1>7. HeldOnce'
  BY <1>4, <1>5 DEF IInv, HeldOnce
<1>8. QED
  BY <1>1, <1>2, <1>3, <1>6, <1>7 DEF IInv, TypeOK, FreeIsExact, RangeNotEmpty

LEMMA NextIInv == IInv /\ [Next]_vars => IInv'
<1>1. SUFFICES ASSUME IInv, [Next]_vars PROVE IInv'
  OBVIOUS
<1>2. ASSUME NEW r \in Ranges, ChangeRange(r) PROVE IInv'
  <2>1. r[1] \in Int /\ r[2] \in Int /\ r[1] <= r[2]
    BY RangesAssumption
  <2>2. /\ table' \in Table /\ Exact(table')
        /\ table'.used = table.used
        /\ table'.min = r[1] /\ table'.max = r[2]
    BY <1>1, <1>2, <2>1, SetRangeExact DEF ChangeRange, IInv, TypeOK, FreeIsExact
  <2>3. held' = held
    BY <1>2 DEF ChangeRange
  <2>4. QED
    BY <1>1, <2>1, <2>2, <2>3
       DEF IInv, TypeOK, FreeIsExact, RangeNotEmpty, HeldIsUsed, HeldOnce
<1>3. ASSUME NEW c \in Callers, NEW i \in Numbers, Allocate(c, i) PROVE IInv'
  BY <1>1, <1>3, GiveIInv, NumbersAssumption DEF Allocate
<1>4. ASSUME NEW c \in Callers, AllocateNext(c) PROVE IInv'
  BY <1>1, <1>4, GiveIInv DEF AllocateNext, IsNext, IInv, TypeOK, Table
<1>5. ASSUME NEW c \in Callers, NEW i \in held[c], Release(c, i) PROVE IInv'
  <2>1. i \in Int
    BY <1>1, <1>5 DEF IInv, TypeOK
  <2>2. /\ table' \in Table /\ Exact(table')
        /\ table'.used = table.used \ {i}
    BY <1>1, <1>5, <2>1, PutExact DEF Release, IInv, TypeOK, FreeIsExact
  <2>3. table'.min = table.min /\ table'.max = table.max
    BY <1>1, <1>5 DEF Release, Put, With, IInv, TypeOK, Table
  <2>4. held' \in [Callers -> SUBSET Int]
    BY <1>1, <1>5 DEF Release, IInv, TypeOK
  <2>5. \A d \in Callers : held'[d] = IF d = c THEN held[d] \ {i} ELSE held[d]
    BY <1>1, <1>5 DEF Release, IInv, TypeOK
  <2>6. \A d \in Callers : d # c => i \notin held[d]
    BY <1>1, <1>5 DEF IInv, HeldOnce
  <2>7. HeldIsUsed'
    BY <1>1, <2>2, <2>5, <2>6 DEF IInv, HeldIsUsed
  <2>8. HeldOnce'
    BY <1>1, <2>5 DEF IInv, HeldOnce
  <2>9. QED
    BY <1>1, <2>2, <2>3, <2>4, <2>7, <2>8 DEF IInv, TypeOK, FreeIsExact, RangeNotEmpty
<1>6. CASE Refuse \/ UNCHANGED vars
  BY <1>1, <1>6 DEF Refuse, vars, IInv, TypeOK, FreeIsExact, RangeNotEmpty, HeldIsUsed, HeldOnce
<1>7. QED
  BY <1>1, <1>2, <1>3, <1>4, <1>5, <1>6 DEF Next

(* The inductive invariant holds in every behaviour.                       *)
THEOREM Invariance == Spec => []IInv
<1>1. QED
  BY InitIInv, NextIInv, PTL DEF Spec

(* The types of the allocator and of what is held.                         *)
THEOREM TypeCorrect == Spec => []TypeOK
<1>1. IInv => TypeOK
  BY DEF IInv
<1>2. QED
  BY <1>1, Invariance, PTL

(* The free counter is right whatever the ranges did.                      *)
THEOREM CounterCorrect == Spec => []FreeIsExact
<1>1. IInv => FreeIsExact
  BY DEF IInv
<1>2. QED
  BY <1>1, Invariance, PTL

(* No number has two holders, for any number of callers and ranges.        *)
THEOREM HeldOnceCorrect == Spec => []HeldOnce
<1>1. IInv => HeldOnce
  BY DEF IInv
<1>2. QED
  BY <1>1, Invariance, PTL

(* ErrInternal cannot happen and ErrRangeFull is never a false alarm.      *)
THEOREM AnswersCorrect == Spec => []NoSpuriousAnswer
<1>1. IInv => NoSpuriousAnswer
  BY ExactAnswers DEF IInv, TypeOK, FreeIsExact, RangeNotEmpty, NoSpuriousAnswer
<1>2. QED
  BY <1>1, Invariance, PTL
=============================================================================
