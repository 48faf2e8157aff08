---------------------------- MODULE MinMaxTable ----------------------------
(***************************************************************************)
(* The data type of lib/allocator/minmax.go: a table that hands numbers    *)
(* out of a range [min, max], which may be changed while numbers are in    *)
(* use.  The Go mutex makes each method one atomic step, so a method is an *)
(* operator from the table before the call to the table after it.  The     *)
(* table is a record: GidAllocator keeps one per storage class.            *)
(***************************************************************************)
EXTENDS Integers, FiniteSets

InRange(t, i) == t.min <= i /\ i <= t.max

Has(t, i) == i \in t.used

UsedInRange(t) == t.used \cap (t.min .. t.max)

Table == [min : Int, max : Int, free : Int, used : SUBSET Int]

(* What the counter stands for: the places of the range not in use.        *)
Exact(t) == t.free = 1 + t.max - t.min - Cardinality(UsedInRange(t))

(* Faulty variants, named Bad..., show that the properties notice them.     *)
BadNewTable(min, max) == [min |-> min, max |-> max, free |-> 1 + max - min]

NewTable(min, max) ==
  [min |-> min, max |-> max, free |-> 1 + max - min, used |-> {}]

(* The same range with other numbers in use.                               *)
With(t, used, free) ==
  [min |-> t.min, max |-> t.max, free |-> free, used |-> used]

BadSetRangeForgets(t, min, max) == NewTable(min, max)

BadSetRangeNoRecount(t, min, max) ==
  [min |-> min, max |-> max, used |-> t.used, free |-> 1 + max - min]

(* SetRange recounts the numbers in use only when the range is another.    *)
SetRange(t, min, max) ==
  IF t.min = min /\ t.max = max
    THEN t
    ELSE [min |-> min, max |-> max, used |-> t.used,
          free |-> 1 + max - min - Cardinality(t.used \cap (min .. max))]

(* Allocate answers ErrOutOfRange or ErrConflict unless this holds.        *)
CanAllocate(t, i) == InRange(t, i) /\ ~Has(t, i)

Take(t, i) == With(t, t.used \cup {i}, t.free - 1)

(* AllocateNext answers ErrRangeFull on the counter alone.                 *)
RangeFull(t) == t.free <= 0

(* Otherwise it scans from min and takes the first number not in use ...   *)
IsNext(t, i) ==
  /\ ~RangeFull(t)
  /\ CanAllocate(t, i)
  /\ \A j \in t.min .. (i - 1) : Has(t, j)

(* ... and answers ErrInternal when the scan finds none.                   *)
ScanFails(t) == ~RangeFull(t) /\ \A i \in t.min .. t.max : Has(t, i)

BadPut(t, i) == IF ~Has(t, i) THEN t ELSE With(t, t.used \ {i}, t.free + 1)

(* Release does nothing for a number that is not in use.                   *)
Put(t, i) ==
  IF ~Has(t, i)
    THEN t
    ELSE With(t, t.used \ {i}, IF InRange(t, i) THEN t.free + 1 ELSE t.free)
=============================================================================
