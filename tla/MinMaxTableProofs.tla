------------------------- MODULE MinMaxTableProofs -------------------------
(***************************************************************************)
(* Facts about the methods of lib/allocator/minmax.go, for every table and *)
(* every range: each method keeps the counter equal to the number of free  *)
(* places.                                                                 *)
(***************************************************************************)
EXTENDS MinMaxTable, FiniteSetTheorems, TLAPS

(* The numbers in use inside any range are finitely many, also when the    *)
(* map of numbers in use is not known to be finite.                        *)
LEMMA RangeCardinality ==
  ASSUME NEW S, NEW a \in Int, NEW b \in Int
  PROVE  /\ IsFiniteSet(S \cap (a .. b))
         /\ Cardinality(S \cap (a .. b)) \in Nat
<1>1. IsFiniteSet(S \cap (a .. b))
  BY FS_Interval, FS_Intersection
<1>2. QED
  BY <1>1, FS_CardinalityType

(* A new table (NewMinMaxAllocator) is exact.                              *)
LEMMA NewTableExact ==
  ASSUME NEW a \in Int, NEW b \in Int
  PROVE  NewTable(a, b) \in Table /\ Exact(NewTable(a, b))
<1>1. Cardinality({} \cap (a .. b)) = 0
  <2>1. {} \cap (a .. b) = {}
    OBVIOUS
  <2>2. QED
    BY <2>1, FS_EmptySet
<1>2. QED
  BY <1>1 DEF NewTable, Table, Exact, UsedInRange

(* SetRange keeps an exact counter exact, recounting or not.               *)
LEMMA SetRangeExact ==
  ASSUME NEW t \in Table, Exact(t), NEW a \in Int, NEW b \in Int
  PROVE  /\ SetRange(t, a, b) \in Table
         /\ Exact(SetRange(t, a, b))
         /\ SetRange(t, a, b).used = t.used
         /\ SetRange(t, a, b).min = a
         /\ SetRange(t, a, b).max = b
<1>1. CASE t.min = a /\ t.max = b
  BY <1>1 DEF SetRange, Table
<1>2. CASE ~(t.min = a /\ t.max = b)
  <2>1. Cardinality(t.used \cap (a .. b)) \in Nat
    BY RangeCardinality
  <2>3. SetRange(t, a, b) = [min |-> a, max |-> b, used |-> t.used,
          free |-> 1 + b - a - Cardinality(t.used \cap (a .. b))]
    BY <1>2 DEF SetRange
  <2>4. SetRange(t, a, b) \in Table
    BY <2>1, <2>3 DEF Table
  <2>5. Exact(SetRange(t, a, b))
    BY <2>3 DEF Exact, UsedInRange
  <2>6. QED
    BY <2>3, <2>4, <2>5
<1>3. QED
  BY <1>1, <1>2

(* Taking a free number of the range (Allocate, AllocateNext) lowers the   *)
(* counter by the one place it fills.                                      *)
LEMMA TakeExact ==
  ASSUME NEW t \in Table, Exact(t), NEW i \in Int, CanAllocate(t, i)
  PROVE  Take(t, i) \in Table /\ Exact(Take(t, i))
<1>1. DEFINE U == t.used \cap (t.min .. t.max)
<1>2. IsFiniteSet(U) /\ Cardinality(U) \in Nat
  BY RangeCardinality DEF Table
<1>3. i \notin U /\ (t.used \cup {i}) \cap (t.min .. t.max) = U \cup {i}
  BY DEF CanAllocate, InRange, Has, Table
<1>4. Cardinality(U \cup {i}) = Cardinality(U) + 1
  BY <1>2, <1>3, FS_AddElement
<1>5. /\ Take(t, i).min = t.min
      /\ Take(t, i).max = t.max
      /\ Take(t, i).used = t.used \cup {i}
      /\ Take(t, i).free = t.free - 1
      /\ Take(t, i) \in Table
  BY DEF Take, With, Table
<1>6. UsedInRange(Take(t, i)) = U \cup {i}
  BY <1>3, <1>5 DEF UsedInRange
<1>7. t.free = 1 + t.max - t.min - Cardinality(U)
  BY DEF Exact, UsedInRange
<1>8. t.min \in Int /\ t.max \in Int
  BY DEF Table
<1>9. QED
  BY <1>2, <1>4, <1>5, <1>6, <1>7, <1>8 DEF Exact

(* Releasing raises the counter only for a number inside the range, which  *)
(* is exactly when a place of the range becomes free.                      *)
LEMMA PutExact ==
  ASSUME NEW t \in Table, Exact(t), NEW i \in Int
  PROVE  /\ Put(t, i) \in Table
         /\ Exact(Put(t, i))
         /\ Put(t, i).used = t.used \ {i}
<1>1. DEFINE U == t.used \cap (t.min .. t.max)
<1>2. IsFiniteSet(U) /\ Cardinality(U) \in Nat
  BY RangeCardinality DEF Table
<1>3. CASE ~Has(t, i)
  BY <1>3 DEF Put, Has
<1>4. CASE Has(t, i)
  <2>1. Put(t, i) = With(t, t.used \ {i},
                       IF InRange(t, i) THEN t.free + 1 ELSE t.free)
    BY <1>4 DEF Put
  <2>2. (t.used \ {i}) \cap (t.min .. t.max) = U \ {i}
    OBVIOUS
  <2>3. Cardinality(U \ {i}) = IF i \in U THEN Cardinality(U) - 1 ELSE Cardinality(U)
    BY <1>2, FS_RemoveElement
  <2>4. InRange(t, i) <=> i \in U
    BY <1>4 DEF InRange, Has, Table
  <2>5. /\ Put(t, i).min = t.min
        /\ Put(t, i).max = t.max
        /\ Put(t, i).used = t.used \ {i}
        /\ Put(t, i).free = IF i \in U THEN t.free + 1 ELSE t.free
        /\ Put(t, i) \in Table
    BY <2>1, <2>4 DEF With, Table
  <2>6. UsedInRange(Put(t, i)) = U \ {i}
    BY <2>2, <2>5 DEF UsedInRange
  <2>7. t.free = 1 + t.max - t.min - Cardinality(U)
    BY DEF Exact, UsedInRange
  <2>8. t.min \in Int /\ t.max \in Int /\ t.free \in Int
    BY DEF Table
  <2>9. Exact(Put(t, i))
    <3>1. CASE i \in U
      BY <3>1, <1>2, <2>3, <2>5, <2>6, <2>7, <2>8 DEF Exact
    <3>2. CASE i \notin U
      BY <3>2, <1>2, <2>3, <2>5, <2>6, <2>7, <2>8 DEF Exact
    <3>3. QED
      BY <3>1, <3>2
  <2>10. QED
    BY <2>5, <2>9
<1>5. QED
  BY <1>3, <1>4

(* With an exact counter the scan of AllocateNext finds a number whenever  *)
(* the counter is positive, and the counter is not positive only when the  *)
(* range has no free number.                                               *)
LEMMA ExactAnswers ==
  ASSUME NEW t \in Table, Exact(t), t.min <= t.max
  PROVE  /\ ~ScanFails(t)
         /\ RangeFull(t) => \A i \in t.min .. t.max : Has(t, i)
<1>1. DEFINE R == t.min .. t.max
             U == t.used \cap R
<1>2. IsFiniteSet(R) /\ Cardinality(R) = 1 + t.max - t.min
  BY FS_Interval DEF Table
<1>3. U \in SUBSET R /\ Cardinality(U) \in Nat
  BY RangeCardinality DEF Table
<1>4. Cardinality(R) = Cardinality(U) => R = U
  BY <1>2, <1>3, FS_Subset
<1>4a. Cardinality(U) <= Cardinality(R)
  BY <1>2, <1>3, FS_Subset
<1>5. t.free = Cardinality(R) - Cardinality(U)
  <2>1. t.free = 1 + t.max - t.min - Cardinality(U)
    BY DEF Exact, UsedInRange
  <2>2. QED
    BY <1>2, <1>3, <2>1 DEF Table
<1>6. ~ScanFails(t)
  <2>1. SUFFICES ASSUME \A i \in R : Has(t, i) PROVE RangeFull(t)
    BY DEF ScanFails
  <2>2. R = U
    BY <2>1 DEF Has
  <2>3. Cardinality(R) = Cardinality(U)
    BY <2>2
  <2>4. QED
    BY <2>3, <1>3, <1>5 DEF RangeFull
<1>7. ASSUME RangeFull(t) PROVE \A i \in R : Has(t, i)
  <2>1. Cardinality(R) = Cardinality(U)
    BY <1>2, <1>3, <1>4a, <1>5, <1>7 DEF RangeFull, Table
  <2>2. QED
    BY <2>1, <1>4 DEF Has
<1>8. QED
  BY <1>6, <1>7
=============================================================================
