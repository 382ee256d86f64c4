-------------------------- MODULE AvailabilityProofs --------------------------
(***************************************************************************)
(* Theorems about Availability.  What validateSchedules computes is proved *)
(* for schedules of any length: the sorting permutation exists, and the    *)
(* comparison of neighbours is equivalent to the comparison of all pairs.  *)
(* The loop of generateSlot is a recursive function; a solution is given,  *)
(* and every solution yields slots that fit and do not overlap.            *)
(*                                                                         *)
(* Induction over data is written as the choice of a least counterexample, *)
(* from the well-foundedness of the naturals and of finite subsets.        *)
(***************************************************************************)
EXTENDS Availability, FiniteSetTheorems, WellFoundedInduction, TLAPS

\* A set of naturals has a least member.
LEMMA LeastNumber ==
  ASSUME NEW T \in SUBSET Nat, T # {}
  PROVE  \E m \in T : \A n \in T : m <= n
<1>1. IsWellFoundedOn(OpToRel(<, Nat), Nat)
  BY NatLessThanWellFounded, Zenon
<1>2. PICK m \in T : \A n \in T : ~ (<<n, m>> \in OpToRel(<, Nat))
  BY <1>1, WFMin, Zenon
<1>3. \A n \in T : ~(n < m)
  BY <1>2 DEF OpToRel
<1>4. \A n \in T : m <= n
  <2> TAKE n \in T
  <2>1. m \in Nat /\ n \in Nat /\ ~(n < m)
    BY <1>3
  <2> QED BY <2>1
<1> QED BY <1>4

\* Math.min over the active offerings is one of them.
LEMMA MinRequiredType ==
  ASSUME active \subseteq Offerings
  PROVE  MinRequired \in Nat
<1>1. CASE active = {}
  BY <1>1 DEF MinRequired
<1>2. CASE active # {}
  <2> DEFINE T == {Occupied(o) : o \in active}
  <2>1. T \in SUBSET Nat /\ T # {}
    BY <1>2, AvailabilityAssumption DEF Occupied
  <2> HIDE DEF T
  <2>2. Min(T) \in T
    BY <2>1, LeastNumber DEF Min
  <2> QED BY <1>2, <2>1, <2>2 DEF MinRequired, T
<1> QED BY <1>1, <1>2

-----------------------------------------------------------------------------
(* Sorting the windows of a day *)

\* Windows are compared by numbers.
LEMMA WindowNumbers ==
  ASSUME NEW dto \in Seq(Window), NEW i \in DOMAIN dto
  PROVE  /\ i \in Nat /\ i <= Len(dto)
         /\ dto[i] \in Window
         /\ dto[i].start \in Nat /\ dto[i].end \in Nat
         /\ dto[i].start <= DayLength
         /\ dto[i].weekday \in 0..(Weekdays - 1)
<1>1. i \in 1..Len(dto) /\ Len(dto) \in Nat /\ dto[i] \in Window
  OBVIOUS
<1>2. ASSUME NEW t \in Times PROVE t \in Nat /\ t <= DayLength
  BY AvailabilityAssumption DEF Times
<1>3. dto[i].start \in Times /\ dto[i].end \in Times
         /\ dto[i].weekday \in 0..(Weekdays - 1)
  BY <1>1 DEF Window
<1> QED BY <1>1, <1>2, <1>3

\* f lists the indices T of dto in the order of Before.
Sorts(dto, T, f) ==
  /\ f \in [1..Cardinality(T) -> T]
  /\ \A k, l \in 1..Cardinality(T) : k < l => Before(dto, f[k], f[l])

\* Some index comes last.
LEMMA LastIndex ==
  ASSUME NEW dto \in Seq(Window), NEW T \in SUBSET DOMAIN dto, T # {}
  PROVE  \E t \in T : \A i \in T : i = t \/ Before(dto, i, t)
<1>0. /\ Len(dto) \in Nat
      /\ \A i \in T : i \in Nat /\ i <= Len(dto)
      /\ \A i \in T : dto[i].start \in Nat /\ dto[i].start <= DayLength
      /\ DayLength \in Nat
  BY WindowNumbers, AvailabilityAssumption
<1> DEFINE A == {DayLength - dto[i].start : i \in T}
<1>1. A \in SUBSET Nat /\ A # {}
  BY <1>0
<1>2. PICK a \in A : \A b \in A : a <= b
  BY <1>1, LeastNumber
<1>3. PICK late \in T : a = DayLength - dto[late].start
  BY <1>2
<1>4. \A i \in T : dto[i].start <= dto[late].start
  <2> TAKE i \in T
  <2>1. a <= DayLength - dto[i].start
    BY <1>2
  <2> QED BY <1>0, <1>3, <2>1
<1> DEFINE B == {Len(dto) - i : i \in {j \in T : dto[j].start = dto[late].start}}
<1>5. B \in SUBSET Nat /\ B # {}
  BY <1>0, <1>3
<1>6. PICK b \in B : \A c \in B : b <= c
  BY <1>5, LeastNumber
<1>7. PICK t \in T : dto[t].start = dto[late].start /\ b = Len(dto) - t
  BY <1>6
<1>8. \A i \in T : dto[i].start = dto[late].start => i <= t
  <2> TAKE i \in T
  <2> HAVE dto[i].start = dto[late].start
  <2>1. b <= Len(dto) - i
    BY <1>6
  <2> QED BY <1>0, <1>7, <2>1
<1>9. \A i \in T : i = t \/ Before(dto, i, t)
  <2> TAKE i \in T
  <2>1. dto[i].start <= dto[t].start
    BY <1>4, <1>7
  <2>2. dto[i].start = dto[t].start => i <= t
    BY <1>7, <1>8
  <2> QED BY <1>0, <2>1, <2>2 DEF Before
<1> QED BY <1>9

\* Any set of indices can be sorted: a smallest set that cannot be would be
\* sorted by sorting the rest and putting its last index at the end.
LEMMA SortExists ==
  ASSUME NEW dto \in Seq(Window), NEW T \in SUBSET DOMAIN dto
  PROVE  \E f : Sorts(dto, T, f)
<1> DEFINE D   == DOMAIN dto
           Bad == {U \in SUBSET D : ~\E f : Sorts(dto, U, f)}
<1>1. IsFiniteSet(D)
  BY FS_Interval
<1>2. \A U \in SUBSET D : IsFiniteSet(U) /\ Cardinality(U) \in Nat
  BY <1>1, FS_Subset, FS_CardinalityType
<1>3. Bad # {} => FALSE
  <2> HAVE Bad # {}
  <2>1. Bad \subseteq FiniteSubsetsOf(D)
    BY <1>2 DEF FiniteSubsetsOf
  <2>2. PICK U \in Bad : \A V \in Bad : ~ (<<V, U>> \in StrictSubsetOrdering(D))
    <3> HIDE DEF Bad, D
    <3> QED BY <2>1, FS_StrictSubsetOrderingWellFounded, WFMin, Zenon
  <2>3. CASE U = {}
    <3>1. Cardinality(U) = 0
      BY <2>3, FS_EmptySet
    <3>2. Sorts(dto, U, [k \in 1..0 |-> k])
      BY <3>1 DEF Sorts
    <3> QED BY <3>2
  <2>4. CASE U # {}
    <3>1. PICK t \in U : \A i \in U : i = t \/ Before(dto, i, t)
      BY <2>4, LastIndex
    <3> DEFINE V == U \ {t}
               n == Cardinality(U)
    <3>2. V \in SUBSET D /\ V # U
      OBVIOUS
    <3>3. <<V, U>> \in StrictSubsetOrdering(D)
      BY <3>2 DEF StrictSubsetOrdering
    <3>4. PICK g : Sorts(dto, V, g)
      BY <2>2, <3>2, <3>3
    <3>5. Cardinality(V) = n - 1 /\ n \in Nat
      BY <1>2, FS_RemoveElement
    <3> DEFINE f == [k \in 1..n |-> IF k = n THEN t ELSE g[k]]
    <3>6. g \in [1..(n - 1) -> V]
      BY <3>4, <3>5 DEF Sorts
    <3>7. f \in [1..n -> U]
      BY <3>5, <3>6
    <3>8. ASSUME NEW k \in 1..n, NEW l \in 1..n, k < l
          PROVE  Before(dto, f[k], f[l])
      <4>1. k \in 1..(n - 1) /\ f[k] = g[k]
        BY <3>5, <3>8
      <4>2. CASE l = n
        BY <3>1, <3>6, <4>1, <4>2
      <4>3. CASE l # n
        <5>1. l \in 1..(n - 1) /\ f[l] = g[l]
          BY <3>5, <4>3
        <5> QED BY <3>4, <3>5, <3>8, <4>1, <5>1 DEF Sorts
      <4> QED BY <4>2, <4>3
    <3>9. Sorts(dto, U, f)
      BY <3>7, <3>8 DEF Sorts
    <3> QED BY <3>9
  <2> QED BY <2>3, <2>4
<1> QED BY <1>3

\* Intervals lists the n windows of the day, each once, by their start.
Lists(dto, day, n, f) ==
  /\ Intervals(dto, day) = [k \in 1..n |-> dto[f[k]]]
  /\ \A k \in 1..n : f[k] \in DOMAIN dto /\ dto[f[k]].weekday = day
  /\ \A k, l \in 1..n : k < l => Before(dto, f[k], f[l])
  /\ \A i \in DOMAIN dto : dto[i].weekday = day => \E k \in 1..n : f[k] = i

LEMMA IntervalsSorted ==
  ASSUME NEW dto \in Seq(Window), NEW day
  PROVE  \E n \in Nat : \E f : Lists(dto, day, n, f)
<1> DEFINE T == OnDay(dto, day)
           n == Cardinality(T)
           f == SortedDay(dto, day)
<1>1. T \in SUBSET DOMAIN dto
  BY DEF OnDay
<1>2. IsFiniteSet(T) /\ n \in Nat
  <2>1. IsFiniteSet(DOMAIN dto)
    BY FS_Interval
  <2> QED BY <1>1, <2>1, FS_Subset, FS_CardinalityType
<1>3. Sorts(dto, T, f)
  <2>1. PICK g : Sorts(dto, T, g)
    BY <1>1, SortExists
  <2>2. /\ g \in [1..n -> T]
        /\ \A k, l \in DOMAIN g : k < l => Before(dto, g[k], g[l])
    BY <2>1 DEF Sorts
  <2>3. /\ f \in [1..n -> T]
        /\ \A k, l \in DOMAIN f : k < l => Before(dto, f[k], f[l])
    BY <2>2 DEF SortedDay
  <2> HIDE DEF f
  <2> QED BY <2>3 DEF Sorts
<1> HIDE DEF f
<1>4. /\ f \in [1..n -> T]
      /\ \A k, l \in 1..n : k < l => Before(dto, f[k], f[l])
  BY <1>3 DEF Sorts
<1>5. \A i \in T : ~Before(dto, i, i)
  BY <1>1, WindowNumbers DEF Before
<1>6. f \in Injection(1..n, T)
  <2>1. ASSUME NEW k \in 1..n, NEW l \in 1..n, f[k] = f[l] PROVE k = l
    BY <1>2, <1>4, <1>5, <2>1
  <2> QED BY <1>4, <2>1 DEF Injection, IsInjective
<1>7. f \in Surjection(1..n, T)
  <2>1. Cardinality(1..n) = n
    BY <1>2, FS_Interval
  <2> QED BY <1>2, <1>6, <2>1, FS_Injection
<1>8. \A i \in T : \E k \in 1..n : f[k] = i
  BY <1>7 DEF Surjection
<1>9. Intervals(dto, day) = [k \in 1..n |-> dto[f[k]]]
  BY DEF Intervals, f
<1>10. Lists(dto, day, n, f)
  BY <1>4, <1>8, <1>9 DEF Lists, OnDay
<1> QED BY <1>2, <1>10

\* A window validateSchedules has to refuse.
Refusable(dto, minReq, i) ==
  \/ dto[i].start >= dto[i].end
  \/ dto[i].end - dto[i].start < minReq
  \/ \E j \in DOMAIN dto \ {i} : ~Disjoint(dto[i], dto[j])

\* Comparing neighbours finds every pair that overlaps, and nothing else.
LEMMA NeighboursSuffice ==
  ASSUME NEW dto \in Seq(Window), NEW minReq \in Nat
  PROVE  ValidSchedules(dto, minReq)
           <=> \A i \in DOMAIN dto : ~Refusable(dto, minReq, i)
<1>0. \A i \in DOMAIN dto : /\ dto[i].start \in Nat /\ dto[i].end \in Nat
                             /\ dto[i].weekday \in 0..(Weekdays - 1)
                             /\ i \in Nat
  BY WindowNumbers
<1>1. ASSUME ValidSchedules(dto, minReq), NEW i \in DOMAIN dto
      PROVE  ~Refusable(dto, minReq, i)
  <2>1. PICK day \in 0..(Weekdays - 1) : dto[i].weekday = day
    BY <1>0
  <2>0. PICK n \in Nat : \E f : Lists(dto, day, n, f)
    BY IntervalsSorted
  <2>2. PICK f : Lists(dto, day, n, f)
    BY <2>0
  <2> DEFINE in == Intervals(dto, day)
  <2>3. /\ in = [k \in 1..n |-> dto[f[k]]]
        /\ \A k \in 1..n : f[k] \in DOMAIN dto
    BY <2>2 DEF Lists
  <2>4. Len(in) = n /\ \A k \in 1..n : in[k] = dto[f[k]]
    BY <2>3
  <2>5. \A k \in 1..Len(in) : /\ in[k].start < in[k].end
                              /\ in[k].end - in[k].start >= minReq
                              /\ k < Len(in) => ~Overlaps(in[k], in[k + 1])
    BY <1>1 DEF ValidSchedules
  <2> HIDE DEF in
  <2>6. ASSUME NEW k \in 1..n, NEW l \in 1..n, k < l
        PROVE  dto[f[k]].end <= dto[f[l]].start
    <3>1. PICK m \in 1..n : m = k + 1 /\ k < n /\ (m = l \/ m < l)
      BY <2>6
    <3>2. /\ f[k] \in DOMAIN dto /\ f[l] \in DOMAIN dto /\ f[m] \in DOMAIN dto
          /\ in[k] = dto[f[k]] /\ in[m] = dto[f[m]]
      BY <2>3, <2>4
    <3>3. ~Overlaps(in[k], in[m])
      BY <2>4, <2>5, <3>1
    <3>4. dto[f[k]].end <= dto[f[m]].start
      BY <1>0, <3>2, <3>3 DEF Overlaps
    <3>5. m = l \/ Before(dto, f[m], f[l])
      BY <2>2, <3>1 DEF Lists
    <3>6. dto[f[m]].start <= dto[f[l]].start
      BY <1>0, <3>2, <3>5 DEF Before
    <3> QED BY <1>0, <3>2, <3>4, <3>6
  <2>7. PICK k \in 1..n : f[k] = i
    BY <2>1, <2>2 DEF Lists
  <2>8. ASSUME NEW j \in DOMAIN dto \ {i} PROVE Disjoint(dto[i], dto[j])
    <3>1. CASE dto[j].weekday # day
      BY <2>1, <3>1 DEF Disjoint
    <3>2. CASE dto[j].weekday = day
      <4>1. PICK l \in 1..n : f[l] = j
        BY <2>2, <3>2 DEF Lists
      <4>2. k < l \/ l < k
        BY <2>7, <2>8, <4>1
      <4>3. dto[i].end <= dto[j].start \/ dto[j].end <= dto[i].start
        BY <2>6, <2>7, <4>1, <4>2
      <4> QED BY <4>3 DEF Disjoint
    <3> QED BY <3>1, <3>2
  <2>9. in[k] = dto[i] /\ k \in 1..Len(in)
    BY <2>4, <2>7
  <2>10. dto[i].start < dto[i].end /\ dto[i].end - dto[i].start >= minReq
    BY <2>5, <2>9
  <2> QED BY <1>0, <2>8, <2>10 DEF Refusable
<1>2. ASSUME \A i \in DOMAIN dto : ~Refusable(dto, minReq, i),
             NEW day \in 0..(Weekdays - 1)
      PROVE  LET in == Intervals(dto, day) IN
             \A k \in 1..Len(in) :
               /\ in[k].start < in[k].end
               /\ in[k].end - in[k].start >= minReq
               /\ k < Len(in) => ~Overlaps(in[k], in[k + 1])
  <2> DEFINE in == Intervals(dto, day)
  <2>0. PICK n \in Nat : \E f : Lists(dto, day, n, f)
    BY IntervalsSorted
  <2>1. PICK f : Lists(dto, day, n, f)
    BY <2>0
  <2>2. /\ in = [k \in 1..n |-> dto[f[k]]]
        /\ \A k, l \in 1..n : k < l => Before(dto, f[k], f[l])
    BY <2>1 DEF Lists
  <2>3. Len(in) = n /\ \A k \in 1..n : in[k] = dto[f[k]]
    BY <2>2
  <2>4. \A k \in 1..n : f[k] \in DOMAIN dto /\ dto[f[k]].weekday = day
    BY <2>1 DEF Lists
  <2>5. \A i \in DOMAIN dto : /\ dto[i].start < dto[i].end
                               /\ dto[i].end - dto[i].start >= minReq
    BY <1>0, <1>2 DEF Refusable
  <2>6. ASSUME NEW k \in 1..n, k < n
        PROVE  ~Overlaps(dto[f[k]], dto[f[k + 1]])
    <3> DEFINE i == f[k]
               j == f[k + 1]
    <3>1. k + 1 \in 1..n /\ k < k + 1
      BY <2>6
    <3>2. i \in DOMAIN dto /\ j \in DOMAIN dto /\ Before(dto, i, j)
            /\ dto[i].weekday = dto[j].weekday
      BY <2>2, <2>4, <3>1
    <3> HIDE DEF i, j
    <3>3. i # j /\ dto[i].start <= dto[j].start
      BY <1>0, <3>2 DEF Before
    <3>4. Disjoint(dto[i], dto[j])
      BY <1>2, <3>2, <3>3 DEF Refusable
    <3>5. dto[i].end <= dto[j].start
      BY <1>0, <2>5, <3>2, <3>3, <3>4 DEF Disjoint
    <3>6. ~Overlaps(dto[i], dto[j])
      BY <1>0, <3>2, <3>5 DEF Overlaps
    <3> QED BY <3>6 DEF i, j
  <2> SUFFICES ASSUME NEW k \in 1..n
               PROVE  /\ in[k].start < in[k].end
                      /\ in[k].end - in[k].start >= minReq
                      /\ k < n => ~Overlaps(in[k], in[k + 1])
    BY <2>3
  <2> HIDE DEF in
  <2>7. k < n => k + 1 \in 1..n
    OBVIOUS
  <2> QED BY <2>3, <2>4, <2>5, <2>6, <2>7
<1> QED BY <1>1, <1>2 DEF ValidSchedules

-----------------------------------------------------------------------------
(* The loop of generateSlot *)

\* g solves the recursion of WindowSlots.
IsLoop(g, day, o, w) ==
  g = [t \in Nat |-> IF Fits(t, o, w)
                     THEN {SlotAt(day, t, o)} \cup g[NextStart(t, o)]
                     ELSE {}]

LEMMA LoopDef ==
  ASSUME NEW day, NEW o, NEW w
  PROVE  WindowSlots(day, o, w) = (CHOOSE g : IsLoop(g, day, o, w))[w.start]
BY Zenon DEF WindowSlots, IsLoop

LEMMA OfferingNumbers ==
  ASSUME NEW o \in Offerings
  PROVE  /\ Duration[o] \in Nat /\ Duration[o] >= 1
         /\ Occupied(o) \in Nat /\ Occupied(o) >= Duration[o]
BY AvailabilityAssumption DEF Occupied

\* The starts the loop reaches from t are t, and then every duration plus
\* buffer, as long as the duration fits.
LEMMA LoopExists ==
  ASSUME NEW day, NEW o \in Offerings, NEW w \in Window
  PROVE  \E g : IsLoop(g, day, o, w)
<1> DEFINE Reach(t) == {u \in Nat : Fits(u, o, w)
                                    /\ \E k \in Nat : u = t + k * Occupied(o)}
           g == [t \in Nat |-> {SlotAt(day, u, o) : u \in Reach(t)}]
<1>0. w.end \in Nat
  BY AvailabilityAssumption DEF Window, Times
<1>1. ASSUME NEW t \in Nat
      PROVE  g[t] = IF Fits(t, o, w)
                    THEN {SlotAt(day, t, o)} \cup g[NextStart(t, o)]
                    ELSE {}
  <2>1. NextStart(t, o) = t + Occupied(o) /\ NextStart(t, o) \in Nat
    BY OfferingNumbers DEF NextStart
  <2>2. ASSUME Fits(t, o, w) PROVE Reach(t) = {t} \cup Reach(NextStart(t, o))
    <3>1. t \in Reach(t)
      <4>1. t = t + 0 * Occupied(o)
        BY OfferingNumbers
      <4> QED BY <2>2, <4>1
    <3>2. ASSUME NEW u \in Reach(t), u # t PROVE u \in Reach(NextStart(t, o))
      <4>1. PICK k \in Nat : u = t + k * Occupied(o)
        OBVIOUS
      <4>2. k # 0
        BY <3>2, <4>1, OfferingNumbers
      <4>3. k - 1 \in Nat /\ u = NextStart(t, o) + (k - 1) * Occupied(o)
        BY <2>1, <4>1, <4>2, OfferingNumbers
      <4> QED BY <4>3
    <3>3. ASSUME NEW u \in Reach(NextStart(t, o)) PROVE u \in Reach(t)
      <4>1. PICK k \in Nat : u = NextStart(t, o) + k * Occupied(o)
        OBVIOUS
      <4>2. k + 1 \in Nat /\ u = t + (k + 1) * Occupied(o)
        BY <2>1, <4>1, OfferingNumbers
      <4> QED BY <4>2
    <3> HIDE DEF Reach
    <3> QED BY <3>1, <3>2, <3>3
  <2>3. ASSUME ~Fits(t, o, w) PROVE Reach(t) = {}
    <3> SUFFICES ASSUME NEW u \in Reach(t) PROVE FALSE
      OBVIOUS
    <3>1. PICK k \in Nat : u = t + k * Occupied(o)
      OBVIOUS
    <3>2. k * Occupied(o) \in Nat
      BY OfferingNumbers
    <3>3. t <= u /\ Fits(u, o, w) /\ u \in Nat
      BY <3>1, <3>2
    <3> QED BY <1>0, <2>3, <3>3, OfferingNumbers DEF Fits
  <2> HIDE DEF Reach
  <2> QED BY <2>1, <2>2, <2>3
<1> HIDE DEF Reach
<1>2. IsLoop(g, day, o, w)
  BY <1>1 DEF IsLoop
<1> QED BY <1>2

\* Slots of a set that start apart do not overlap.
Apart(slots) == \A a, b \in slots : a.start < b.start => a.end <= b.start

\* A slot of a window starts and ends within it.
Within(slot, day, t, o, w) ==
  \E u \in Nat : slot = SlotAt(day, u, o) /\ t <= u /\ Fits(u, o, w)

LEMMA SlotNumbers ==
  ASSUME NEW day \in Nat, NEW o \in Offerings, NEW t \in Nat
  PROVE  /\ SlotAt(day, t, o).start = day * DayLength + t - UtcOffset
         /\ SlotAt(day, t, o).end = day * DayLength + t + Duration[o] - UtcOffset
         /\ day * DayLength \in Int /\ UtcOffset \in Int
         /\ SlotAt(day, t, o) \in Slot
<1>1. day * DayLength \in Int /\ UtcOffset \in Int
  BY AvailabilityAssumption
<1> DEFINE base == day * DayLength
<1>2. base \in Int /\ Duration[o] \in Nat
  BY <1>1, OfferingNumbers
<1>3. /\ SlotAt(day, t, o).start = base + t - UtcOffset
      /\ SlotAt(day, t, o).end = base + (t + Duration[o]) - UtcOffset
      /\ SlotAt(day, t, o) = [start |-> base + t - UtcOffset,
                              end |-> base + (t + Duration[o]) - UtcOffset]
  BY DEF SlotAt, Instant
<1> HIDE DEF base
<1>4. /\ SlotAt(day, t, o).end = base + t + Duration[o] - UtcOffset
      /\ SlotAt(day, t, o) \in Slot
  BY <1>1, <1>2, <1>3 DEF Slot
<1> QED BY <1>1, <1>3, <1>4 DEF base

\* Two starts that are a duration apart give slots that do not overlap, and a
\* slot starts before another one iff its minute does.
LEMMA StartsApart ==
  ASSUME NEW day \in Nat, NEW o \in Offerings, NEW t \in Nat, NEW u \in Nat
  PROVE  /\ SlotAt(day, t, o).start < SlotAt(day, u, o).start <=> t < u
         /\ t + Duration[o] <= u => SlotAt(day, t, o).end <= SlotAt(day, u, o).start
<1> DEFINE base == day * DayLength
<1>1. /\ SlotAt(day, t, o).start = base + t - UtcOffset
      /\ SlotAt(day, u, o).start = base + u - UtcOffset
      /\ SlotAt(day, t, o).end = base + t + Duration[o] - UtcOffset
      /\ base \in Int /\ UtcOffset \in Int
  BY SlotNumbers
<1>2. Duration[o] \in Nat
  BY OfferingNumbers
<1> HIDE DEF base
<1> QED BY <1>1, <1>2

\* Every solution of the recursion is right: a start with a wrong answer fits,
\* so there is one with the least room left, and the next start is right.
LEMMA LoopSlots ==
  ASSUME NEW day \in Nat, NEW o \in Offerings, NEW w \in Window
  PROVE  /\ \A a \in WindowSlots(day, o, w) : Within(a, day, w.start, o, w)
         /\ Apart(WindowSlots(day, o, w))
<1>1. PICK g : IsLoop(g, day, o, w) /\ WindowSlots(day, o, w) = g[w.start]
  BY LoopExists, LoopDef
<1>2. w.start \in Nat /\ w.end \in Nat
  BY AvailabilityAssumption DEF Window, Times
<1> DEFINE Good(t) == /\ \A a \in g[t] : Within(a, day, t, o, w)
                      /\ Apart(g[t])
           Bad  == {t \in Nat : ~Good(t)}
<1>3. \A t \in Nat : g[t] = IF Fits(t, o, w)
                            THEN {SlotAt(day, t, o)} \cup g[NextStart(t, o)]
                            ELSE {}
  BY <1>1 DEF IsLoop
<1>4. ASSUME Bad # {} PROVE FALSE
  <2>1. \A t \in Bad : Fits(t, o, w)
    BY <1>3 DEF Apart
  <2>2. \A t \in Bad : t \in Nat /\ w.end - t \in Nat
    BY <1>2, <2>1, OfferingNumbers DEF Fits
  <2> DEFINE Rooms == {w.end - t : t \in Bad}
  <2>3. Rooms \in SUBSET Nat /\ Rooms # {}
    BY <1>4, <2>2
  <2>4. PICK room \in Rooms : \A r \in Rooms : room <= r
    BY <2>3, LeastNumber
  <2>5. PICK t \in Bad : room = w.end - t
    BY <2>4
  <2>6. PICK n \in Nat : n = NextStart(t, o) /\ n = t + Occupied(o)
    BY <2>2, OfferingNumbers DEF NextStart
  <2>7. t + Duration[o] <= n /\ t < n
    BY <2>2, <2>6, OfferingNumbers
  <2>8. Good(n)
    <3> SUFFICES ASSUME n \in Bad PROVE FALSE
      OBVIOUS
    <3>1. room <= w.end - n
      BY <2>4
    <3> QED BY <1>2, <2>2, <2>5, <2>7, <3>1
  <2>9. g[t] = {SlotAt(day, t, o)} \cup g[n]
    BY <1>3, <2>1, <2>2, <2>6
  <2>10. t \in Nat /\ Fits(t, o, w)
    BY <2>1, <2>2
  <2>11. \A a \in g[n] : \E u \in Nat :
           a = SlotAt(day, u, o) /\ n <= u /\ Fits(u, o, w)
    BY <2>8 DEF Within
  <2>12. ASSUME NEW a \in g[t] PROVE Within(a, day, t, o, w)
    <3>1. CASE a = SlotAt(day, t, o)
      BY <2>10, <3>1 DEF Within
    <3>2. CASE a \in g[n]
      <4>1. PICK u \in Nat : a = SlotAt(day, u, o) /\ n <= u /\ Fits(u, o, w)
        BY <2>11, <3>2
      <4>2. t <= u
        BY <2>7, <2>10, <4>1
      <4> QED BY <4>1, <4>2 DEF Within
    <3> QED BY <2>9, <2>12, <3>1, <3>2
  <2>13. ASSUME NEW a \in g[t], NEW b \in g[t], a.start < b.start
         PROVE  a.end <= b.start
    <3>1. CASE a \in g[n] /\ b \in g[n]
      BY <2>8, <2>13, <3>1 DEF Apart
    <3>2. CASE a = SlotAt(day, t, o) /\ b \in g[n]
      <4>1. PICK u \in Nat : b = SlotAt(day, u, o) /\ n <= u
        BY <2>11, <3>2
      <4>2. t + Duration[o] <= u
        BY <2>7, <2>10, <4>1, OfferingNumbers
      <4> QED BY <2>10, <3>2, <4>1, <4>2, StartsApart
    <3>3. CASE b = SlotAt(day, t, o)
      <4>1. PICK u \in Nat : a = SlotAt(day, u, o) /\ t <= u
        BY <2>12 DEF Within
      <4>2. u < t
        BY <2>10, <2>13, <3>3, <4>1, StartsApart
      <4> QED BY <2>10, <4>1, <4>2
    <3> QED BY <2>9, <2>13, <3>1, <3>2, <3>3
  <2>14. Good(t)
    BY <2>12, <2>13 DEF Apart
  <2> QED BY <2>5, <2>14
<1> QED BY <1>1, <1>2, <1>4


\* Slots of a schedule without overlaps do not overlap, whatever windows they
\* come from.
LEMMA SlotsApart ==
  ASSUME schedule \subseteq Row, NEW day \in Nat, NEW o \in Offerings,
         \A r, q \in schedule : r # q => Disjoint(r.window, q.window)
  PROVE  Apart(Slots(day, o))
<1> SUFFICES ASSUME NEW a \in Slots(day, o), NEW b \in Slots(day, o),
                    a.start < b.start
             PROVE  a.end <= b.start
  BY DEF Apart
<1>1. PICK v \in WindowsOf(day) : a \in WindowSlots(day, o, v)
  BY DEF Slots
<1>2. PICK w \in WindowsOf(day) : b \in WindowSlots(day, o, w)
  BY DEF Slots
<1>3. v \in Window /\ w \in Window /\ v.weekday = w.weekday
  BY DEF WindowsOf, Row
<1>4. CASE v = w
  BY <1>1, <1>2, <1>3, <1>4, LoopSlots DEF Apart
<1>5. CASE v # w
  <2>1. Disjoint(v, w)
    BY <1>5 DEF WindowsOf
  <2>2. v.end <= w.start \/ w.end <= v.start
    BY <1>3, <2>1 DEF Disjoint
  <2>3. PICK t \in Nat : a = SlotAt(day, t, o) /\ v.start <= t /\ Fits(t, o, v)
    BY <1>1, <1>3, LoopSlots DEF Within
  <2>4. PICK u \in Nat : b = SlotAt(day, u, o) /\ w.start <= u /\ Fits(u, o, w)
    BY <1>2, <1>3, LoopSlots DEF Within
  <2>5. t < u
    BY <2>3, <2>4, StartsApart
  <2>6. /\ v.start \in Nat /\ v.end \in Nat /\ w.start \in Nat /\ w.end \in Nat
    BY <1>3, AvailabilityAssumption DEF Window, Times
  <2>7. t + Duration[o] <= u
    BY <2>2, <2>3, <2>4, <2>5, <2>6, OfferingNumbers DEF Fits
  <2> QED BY <2>3, <2>4, <2>7, StartsApart
<1> QED BY <1>4, <1>5

LEMMA SlotsType ==
  ASSUME schedule \subseteq Row, NEW day \in Nat, NEW o \in Offerings
  PROVE  Slots(day, o) \in SUBSET Slot
<1> SUFFICES ASSUME NEW a \in Slots(day, o) PROVE a \in Slot
  OBVIOUS
<1>1. PICK w \in WindowsOf(day) : a \in WindowSlots(day, o, w)
  BY DEF Slots
<1>2. w \in Window
  BY DEF WindowsOf, Row
<1>3. PICK t \in Nat : a = SlotAt(day, t, o)
  BY <1>1, <1>2, LoopSlots DEF Within
<1> QED BY <1>3, SlotNumbers

-----------------------------------------------------------------------------
(* The inductive invariant *)

\* The rows of a replacement carry its number.
OpenHasRound ==
  \A s \in Setters : IsOpen(s) => setter[s].round \in 1..MaxRounds

\* A replacement that is alone deletes what is in the table when it commits.
AloneDeletesAll ==
  \A s \in Setters : IsOpen(s) /\ setter[s].alone =>
    /\ \A u \in Setters \ {s} : ~IsOpen(u)
    /\ setter[s].deletes = schedule

AvailabilityInv ==
  /\ TypeOK
  /\ ValidationIsExact
  /\ OpenHasRound
  /\ AloneDeletesAll
  /\ ScheduleIsDisjoint
  /\ SlotsDoNotCollide

\* What the invariant says of one request.
SetterOK(s) ==
  /\ setter[s] \in Setter
  /\ LET dto == setter[s].dto IN
       setter[s].pc # "idle" =>
         (setter[s].pc = "refused" <=>
            \E i \in DOMAIN dto : Refusable(dto, setter[s].minReq, i))
  /\ IsOpen(s) => setter[s].round \in 1..MaxRounds

LEMMA SettersOK ==
  TypeOK /\ ValidationIsExact /\ OpenHasRound
    <=> /\ TypeOK
        /\ \A s \in Setters : SetterOK(s)
BY DEF TypeOK, ValidationIsExact, OpenHasRound, SetterOK, Refusable


LEMMA NoSetterType ==
  NoSetter \in Setter /\ NoSetter.pc = "idle"
BY AvailabilityAssumption DEF NoSetter, Setter

LEMMA NoVisitorType ==
  NoVisitor \in Visitor /\ NoVisitor.pc = "idle" /\ NoVisitor.slots = {}
BY DEF NoVisitor, Visitor

LEMMA InitInv == Init => AvailabilityInv
<1> HAVE Init
<1>1. TypeOK
  BY NoSetterType, NoVisitorType, AvailabilityAssumption DEF Init, TypeOK
<1>2. \A s \in Setters : setter[s].pc = "idle"
  BY NoSetterType DEF Init
<1>3. ValidationIsExact /\ OpenHasRound /\ AloneDeletesAll
  BY <1>2 DEF ValidationIsExact, OpenHasRound, AloneDeletesAll, IsOpen
<1>4. \A v \in Visitors : visitor[v].slots = {}
  BY NoVisitorType DEF Init
<1>5. ScheduleIsDisjoint /\ SlotsDoNotCollide
  BY <1>4 DEF Init, ScheduleIsDisjoint, SlotsDoNotCollide
<1> QED BY <1>1, <1>3, <1>5 DEF AvailabilityInv

\* A proposal is read and validated.
LEMMA ProposalInv ==
  ASSUME AvailabilityInv, NEW s \in Setters, NEW dto \in Proposals,
         SetAvailability(s, dto)
  PROVE  AvailabilityInv'
<1> DEFINE pc == IF ValidSchedules(dto, MinRequired) THEN "valid" ELSE "refused"
           m  == MinRequired
           r  == [NoSetter EXCEPT !.pc = pc, !.dto = dto, !.minReq = m]
<1>1. m \in Nat /\ dto \in Seq(Window)
  BY MinRequiredType, ProposalsAssumption DEF AvailabilityInv, TypeOK
<1>2. setter' = [setter EXCEPT ![s] = r]
        /\ UNCHANGED <<schedule, active, today, visitor, rounds, serial>>
  BY DEF SetAvailability, SetSetter
<1>3. pc = "refused" <=> \E i \in DOMAIN dto : Refusable(dto, m, i)
  BY <1>1, NeighboursSuffice
<1>4. pc \in {"valid", "refused"}
  OBVIOUS
<1> HIDE DEF pc, m
<1>5. r \in Setter /\ r.pc = pc /\ r.dto = dto /\ r.minReq = m
  BY <1>1, <1>4, NoSetterType DEF Setter
<1> HIDE DEF r
<1>6. setter \in [Setters -> Setter] /\ \A t \in Setters : SetterOK(t)
  BY SettersOK DEF AvailabilityInv, TypeOK
<1>7. \A t \in Setters \ {s} : setter'[t] = setter[t]
  BY <1>2, <1>6
<1>8. setter'[s] = r
  BY <1>2, <1>6
<1>9. TypeOK'
  BY <1>2, <1>5, <1>6 DEF AvailabilityInv, TypeOK
<1>10. \A t \in Setters : SetterOK(t)'
  <2> TAKE t \in Setters
  <2>1. CASE t = s
    BY <1>3, <1>4, <1>5, <1>8, <2>1 DEF SetterOK, IsOpen
  <2>2. CASE t # s
    BY <1>6, <1>7, <2>2 DEF SetterOK, IsOpen
  <2> QED BY <2>1, <2>2
<1>11. \A t \in Setters : IsOpen(t)' => t # s /\ IsOpen(t)
  BY <1>4, <1>5, <1>7, <1>8 DEF IsOpen
<1>12. AloneDeletesAll'
  BY <1>2, <1>7, <1>11 DEF AvailabilityInv, AloneDeletesAll, IsOpen
<1>13. ScheduleIsDisjoint' /\ SlotsDoNotCollide'
  BY <1>2 DEF AvailabilityInv, ScheduleIsDisjoint, SlotsDoNotCollide
<1>14. ValidationIsExact' /\ OpenHasRound'
  BY <1>9, <1>10 DEF ValidationIsExact, OpenHasRound, SetterOK, Refusable
<1> QED BY <1>9, <1>12, <1>13, <1>14 DEF AvailabilityInv

\* deleteMany: every other replacement that is open is no longer alone.
LEMMA OpenInv ==
  ASSUME AvailabilityInv, NEW s \in Setters, OpenReplacement(s)
  PROVE  AvailabilityInv'
<1>0. PICK alone \in BOOLEAN : alone = (\A u \in Setters : ~IsOpen(u))
  OBVIOUS
<1> DEFINE n == rounds + 1
           r == [setter[s] EXCEPT !.pc = "open", !.deletes = schedule,
                                  !.round = n, !.alone = alone]
           q(t) == [setter[t] EXCEPT !.alone = FALSE]
<1>1. /\ setter' = [t \in Setters |-> IF t = s THEN r ELSE q(t)]
      /\ UNCHANGED <<schedule, active, today, visitor, serial>>
      /\ rounds' = n
      /\ setter[s].pc = "valid"
  BY <1>0 DEF OpenReplacement, FoundByDeletion
<1>2. n \in 1..MaxRounds /\ n \in 0..MaxRounds
  <2>1. rounds \in 0..MaxRounds /\ rounds < MaxRounds
    BY DEF OpenReplacement, AvailabilityInv, TypeOK
  <2> QED BY <2>1, AvailabilityAssumption
<1>3. schedule \in SUBSET Row
  BY DEF AvailabilityInv, TypeOK
<1>4. setter \in [Setters -> Setter] /\ \A t \in Setters : SetterOK(t)
  BY SettersOK DEF AvailabilityInv, TypeOK
<1> HIDE DEF n
<1>5. /\ r \in Setter
      /\ r.pc = "open" /\ r.dto = setter[s].dto /\ r.minReq = setter[s].minReq
      /\ r.round = n /\ r.deletes = schedule /\ r.alone = alone
  <2>1. setter[s] \in Setter
    BY <1>4
  <2>2. r = [setter[s] EXCEPT !.pc = "open", !.deletes = schedule, !.round = n,
                              !.alone = alone]
    OBVIOUS
  <2> HIDE DEF r
  <2>3. /\ r.pc = "open" /\ r.dto = setter[s].dto /\ r.minReq = setter[s].minReq
        /\ r.round = n /\ r.deletes = schedule /\ r.alone = alone
    BY <2>1, <2>2 DEF Setter
  <2>4. r \in Setter
    BY <1>2, <1>3, <2>1, <2>2 DEF Setter
  <2> QED BY <2>3, <2>4
<1>6. ASSUME NEW t \in Setters
      PROVE  /\ q(t) \in Setter
             /\ q(t).pc = setter[t].pc /\ q(t).dto = setter[t].dto
             /\ q(t).minReq = setter[t].minReq /\ q(t).round = setter[t].round
             /\ ~q(t).alone
  BY <1>4 DEF Setter
<1> HIDE DEF r, q
<1>7. setter'[s] = r /\ \A t \in Setters \ {s} : setter'[t] = q(t)
  BY <1>1
<1>8. setter' \in [Setters -> Setter]
  BY <1>1, <1>5, <1>6
<1>9. TypeOK'
  BY <1>1, <1>2, <1>8 DEF AvailabilityInv, TypeOK
<1>10. \A t \in Setters : SetterOK(t)'
  <2> TAKE t \in Setters
  <2>1. CASE t = s
    BY <1>1, <1>2, <1>4, <1>5, <1>7, <2>1 DEF SetterOK, IsOpen
  <2>2. CASE t # s
    BY <1>4, <1>6, <1>7, <2>2 DEF SetterOK, IsOpen
  <2> QED BY <2>1, <2>2
<1>11. AloneDeletesAll'
  <2> SUFFICES ASSUME NEW t \in Setters, IsOpen(t)', setter'[t].alone
               PROVE  /\ \A u \in Setters \ {t} : ~IsOpen(u)'
                      /\ setter'[t].deletes = schedule'
    BY DEF AloneDeletesAll
  <2>1. t = s
    BY <1>6, <1>7
  <2>2. \A u \in Setters \ {s} : ~IsOpen(u)'
    <3>1. alone
      BY <1>5, <1>7, <2>1, Zenon
    <3>2. \A u \in Setters : setter[u].pc # "open"
      BY <1>0, <3>1 DEF IsOpen
    <3> QED BY <1>6, <1>7, <3>2 DEF IsOpen
  <2> QED BY <1>1, <1>5, <1>7, <2>1, <2>2
<1>12. ScheduleIsDisjoint' /\ SlotsDoNotCollide'
  BY <1>1 DEF AvailabilityInv, ScheduleIsDisjoint, SlotsDoNotCollide
<1>13. ValidationIsExact' /\ OpenHasRound'
  BY <1>9, <1>10 DEF ValidationIsExact, OpenHasRound, SetterOK, Refusable
<1> QED BY <1>9, <1>11, <1>12, <1>13 DEF AvailabilityInv

\* A request is over: what is said of the others stays.
LEMMA SetterGone ==
  ASSUME AvailabilityInv, NEW s \in Setters, SetSetter(s, NoSetter)
  PROVE  /\ setter' \in [Setters -> Setter]
         /\ ValidationIsExact' /\ OpenHasRound'
         /\ \A t \in Setters : IsOpen(t)' => IsOpen(t) /\ t # s
                                             /\ setter'[t] = setter[t]
<1>1. setter \in [Setters -> Setter] /\ \A t \in Setters : SetterOK(t)
  BY SettersOK DEF AvailabilityInv, TypeOK
<1>2. /\ setter'[s].pc = "idle"
      /\ setter'[s] \in Setter
      /\ \A t \in Setters \ {s} : setter'[t] = setter[t]
  BY <1>1, NoSetterType DEF SetSetter
<1>3. setter' \in [Setters -> Setter]
  BY <1>1, NoSetterType DEF SetSetter
<1>4. \A t \in Setters : SetterOK(t)'
  <2> TAKE t \in Setters
  <2>1. CASE t = s
    BY <1>2, <2>1 DEF SetterOK, IsOpen
  <2>2. CASE t # s
    BY <1>1, <1>2, <2>2 DEF SetterOK, IsOpen
  <2> QED BY <2>1, <2>2
<1>5. ValidationIsExact' /\ OpenHasRound'
  BY <1>4 DEF ValidationIsExact, OpenHasRound, SetterOK, Refusable
<1>6. \A t \in Setters : IsOpen(t)' => IsOpen(t) /\ t # s /\ setter'[t] = setter[t]
  BY <1>2 DEF IsOpen
<1> QED BY <1>3, <1>5, <1>6

\* A visitor who holds slots only learns that they may be out of date.
LEMMA StaleInv ==
  ASSUME AvailabilityInv, visitor' = [v \in Visitors |-> Stale(v)]
  PROVE  visitor' \in [Visitors -> Visitor] /\ SlotsDoNotCollide'
<1>1. visitor \in [Visitors -> Visitor]
  BY DEF AvailabilityInv, TypeOK
<1>2. ASSUME NEW v \in Visitors
      PROVE  /\ Stale(v) \in Visitor
             /\ Stale(v).slots = visitor[v].slots
             /\ Stale(v).exact = visitor[v].exact
  <2>1. (visitor[v].pc # "idle") \in BOOLEAN
    OBVIOUS
  <2> QED BY <1>1, <2>1 DEF Stale, Visitor
<1>3. visitor' \in [Visitors -> Visitor]
  BY <1>2
<1>4. \A v \in Visitors : /\ visitor'[v].slots = visitor[v].slots
                          /\ visitor'[v].exact = visitor[v].exact
  BY <1>2
<1> QED BY <1>3, <1>4 DEF AvailabilityInv, SlotsDoNotCollide

\* createMany and the commit: a lone replacement leaves its own rows, and its
\* proposal was validated.
LEMMA CommitInv ==
  ASSUME AvailabilityInv, NEW s \in Setters, CommitReplacement(s)
  PROVE  AvailabilityInv'
<1>1. /\ IsOpen(s)
      /\ schedule' = (schedule \ setter[s].deletes) \cup NewRows(s)
      /\ serial' = setter[s].alone
      /\ visitor' = [v \in Visitors |-> Stale(v)]
      /\ SetSetter(s, NoSetter)
      /\ UNCHANGED <<active, today, rounds>>
  BY DEF CommitReplacement
<1>2. SetterOK(s)
  BY SettersOK DEF AvailabilityInv
<1> DEFINE dto == setter[s].dto
<1>3. /\ dto \in Seq(Window)
      /\ setter[s].round \in 1..MaxRounds
      /\ setter[s].alone \in BOOLEAN
  BY <1>1, <1>2 DEF SetterOK, Setter
<1>4. \A i \in DOMAIN dto : \A j \in DOMAIN dto \ {i} : Disjoint(dto[i], dto[j])
  BY <1>1, <1>2 DEF SetterOK, IsOpen, Refusable
<1>5. NewRows(s) \subseteq Row
  <2>1. \A i \in DOMAIN dto : dto[i] \in Window
    BY <1>3
  <2> QED BY <1>3, <2>1 DEF NewRows, Row
<1>6. \A r, q \in NewRows(s) : r # q => Disjoint(r.window, q.window)
  <2> SUFFICES ASSUME NEW r \in NewRows(s), NEW q \in NewRows(s), r # q
               PROVE  Disjoint(r.window, q.window)
    OBVIOUS
  <2>1. PICK i \in DOMAIN dto : r = [window |-> dto[i], round |-> setter[s].round]
    BY DEF NewRows
  <2>2. PICK j \in DOMAIN dto : q = [window |-> dto[j], round |-> setter[s].round]
    BY DEF NewRows
  <2>3. i # j /\ r.window = dto[i] /\ q.window = dto[j]
    BY <2>1, <2>2
  <2> QED BY <1>4, <2>3
<1>7. TypeOK'
  BY <1>1, <1>3, <1>5, SetterGone, StaleInv DEF AvailabilityInv, TypeOK
<1>8. ScheduleIsDisjoint'
  <2>1. setter[s].alone => schedule' = NewRows(s)
    BY <1>1 DEF AvailabilityInv, AloneDeletesAll
  <2> QED BY <1>1, <1>6, <2>1 DEF ScheduleIsDisjoint
<1>9. AloneDeletesAll'
  <2> SUFFICES ASSUME NEW t \in Setters, IsOpen(t)', setter'[t].alone PROVE FALSE
    BY DEF AloneDeletesAll
  <2>1. IsOpen(t) /\ t # s /\ setter[t].alone
    BY <1>1, SetterGone
  <2> QED BY <1>1, <2>1 DEF AvailabilityInv, AloneDeletesAll
<1> QED BY <1>1, <1>7, <1>8, <1>9, SetterGone, StaleInv DEF AvailabilityInv

LEMMA EndInv ==
  ASSUME AvailabilityInv, NEW s \in Setters, SetterEnds(s)
  PROVE  AvailabilityInv'
<1>1. /\ SetSetter(s, NoSetter)
      /\ UNCHANGED <<schedule, active, today, visitor, rounds, serial>>
  BY DEF SetterEnds
<1>2. TypeOK'
  BY <1>1, SetterGone DEF AvailabilityInv, TypeOK
<1>3. AloneDeletesAll'
  <2> SUFFICES ASSUME NEW t \in Setters, IsOpen(t)', setter'[t].alone
               PROVE  /\ \A u \in Setters \ {t} : ~IsOpen(u)'
                      /\ setter'[t].deletes = schedule'
    BY DEF AloneDeletesAll
  <2>1. /\ \A u \in Setters : IsOpen(u)' => IsOpen(u)
        /\ IsOpen(t) /\ setter'[t] = setter[t]
    BY <1>1, SetterGone
  <2> QED BY <1>1, <2>1 DEF AvailabilityInv, AloneDeletesAll
<1>4. ScheduleIsDisjoint' /\ SlotsDoNotCollide'
  BY <1>1 DEF AvailabilityInv, ScheduleIsDisjoint, SlotsDoNotCollide
<1> QED BY <1>1, <1>2, <1>3, <1>4, SetterGone DEF AvailabilityInv

\* A step of one visitor leaves the schedule and the requests alone.
LEMMA VisitorInv ==
  ASSUME AvailabilityInv, NEW v \in Visitors, NEW r \in Visitor, SetVisitor(v, r),
         UNCHANGED <<schedule, active, today, setter, rounds, serial>>,
         r.exact => Apart(r.slots)
  PROVE  AvailabilityInv'
<1>1. visitor \in [Visitors -> Visitor]
  BY DEF AvailabilityInv, TypeOK
<1>2. /\ visitor' \in [Visitors -> Visitor]
      /\ visitor'[v] = r /\ \A u \in Visitors \ {v} : visitor'[u] = visitor[u]
  BY <1>1 DEF SetVisitor
<1>3. TypeOK'
  BY <1>2 DEF AvailabilityInv, TypeOK
<1>4. SlotsDoNotCollide'
  <2> SUFFICES ASSUME NEW u \in Visitors, visitor'[u].exact
               PROVE  Apart(visitor'[u].slots)
    BY DEF SlotsDoNotCollide, Apart
  <2>1. CASE u = v
    BY <1>2, <2>1
  <2>2. CASE u # v
    BY <1>2, <2>2 DEF AvailabilityInv, SlotsDoNotCollide, Apart
  <2> QED BY <2>1, <2>2
<1>5. ValidationIsExact' /\ OpenHasRound' /\ AloneDeletesAll' /\ ScheduleIsDisjoint'
  BY DEF AvailabilityInv, ValidationIsExact, OpenHasRound, AloneDeletesAll,
         ScheduleIsDisjoint, IsOpen
<1> QED BY <1>3, <1>4, <1>5 DEF AvailabilityInv

LEMMA VisitInv ==
  ASSUME AvailabilityInv, NEW v \in Visitors, Visit(v)
  PROVE  AvailabilityInv'
<1>0. visitor[v] \in Visitor /\ schedule \subseteq Row /\ active \subseteq Offerings
        /\ serial \in BOOLEAN
  BY DEF AvailabilityInv, TypeOK
<1>1. ASSUME NEW day \in 0..MaxDay, NEW o \in Offerings, GenerateSlot(v, day, o)
      PROVE  AvailabilityInv'
  <2> DEFINE slots == Slots(day, o)
             r == [NoVisitor EXCEPT !.pc = "shown", !.service = o,
                                    !.slots = slots, !.exact = serial]
  <2>1. SetVisitor(v, r) /\ UNCHANGED <<schedule, active, today, setter, rounds, serial>>
    BY <1>1 DEF GenerateSlot
  <2>2. day \in Nat
    BY AvailabilityAssumption
  <2>3. slots \in SUBSET Slot
    BY <1>0, <2>2, SlotsType
  <2>4. serial => Apart(slots)
    <3> SUFFICES ASSUME serial PROVE Apart(slots)
      OBVIOUS
    <3>1. \A p, q \in schedule : p # q => Disjoint(p.window, q.window)
      BY DEF AvailabilityInv, ScheduleIsDisjoint
    <3> QED BY <1>0, <2>2, <3>1, SlotsApart
  <2> HIDE DEF slots
  <2>5. r \in Visitor /\ r.slots = slots /\ (r.exact <=> serial)
    BY <1>0, <2>3, NoVisitorType DEF Visitor
  <2> HIDE DEF r
  <2> QED BY <2>1, <2>4, <2>5, VisitorInv
<1>2. ASSUME NEW slot \in visitor[v].slots, BookSlot(v, slot) PROVE AvailabilityInv'
  <2>1. PICK pc \in {"accepted", "refused"} :
          /\ SetVisitor(v, [visitor[v] EXCEPT !.pc = pc])
          /\ UNCHANGED <<schedule, active, today, setter, rounds, serial>>
    BY <1>2 DEF BookSlot
  <2> DEFINE r == [visitor[v] EXCEPT !.pc = pc]
  <2>2. r \in Visitor /\ r.slots = visitor[v].slots /\ r.exact = visitor[v].exact
    BY <1>0 DEF Visitor
  <2> HIDE DEF r
  <2>3. r.exact => Apart(r.slots)
    BY <2>2 DEF AvailabilityInv, SlotsDoNotCollide, Apart
  <2> QED BY <2>1, <2>2, <2>3, VisitorInv DEF r
<1>3. ASSUME VisitorLeaves(v) PROVE AvailabilityInv'
  BY <1>3, NoVisitorType, VisitorInv DEF VisitorLeaves, Apart
<1> QED BY <1>1, <1>2, <1>3 DEF Visit

\* Offerings, the date and stuttering.
LEMMA OtherInv ==
  ASSUME AvailabilityInv,
         (\E o \in Offerings : SetActive(o)) \/ Midnight \/ UNCHANGED vars
  PROVE  AvailabilityInv'
<1>1. UNCHANGED <<schedule, setter, rounds, serial>>
  BY DEF SetActive, Midnight, vars
<1>2. active' \subseteq Offerings /\ today' \in 0..MaxDay
  BY AvailabilityAssumption DEF SetActive, Midnight, vars, AvailabilityInv, TypeOK
<1>3. UNCHANGED visitor \/ visitor' = [v \in Visitors |-> Stale(v)]
  BY DEF SetActive, Midnight, vars
<1>4. visitor' \in [Visitors -> Visitor] /\ SlotsDoNotCollide'
  BY <1>3, StaleInv DEF AvailabilityInv, TypeOK, SlotsDoNotCollide
<1>5. TypeOK'
  BY <1>1, <1>2, <1>4 DEF AvailabilityInv, TypeOK
<1>6. ValidationIsExact' /\ OpenHasRound' /\ AloneDeletesAll' /\ ScheduleIsDisjoint'
  BY <1>1 DEF AvailabilityInv, ValidationIsExact, OpenHasRound, AloneDeletesAll,
              ScheduleIsDisjoint, IsOpen
<1> QED BY <1>4, <1>5, <1>6 DEF AvailabilityInv

-----------------------------------------------------------------------------
(* Theorems *)

\* The invariant holds for any offerings, proposals, setters and visitors.
THEOREM AvailabilityInvariance == Spec => []AvailabilityInv
<1>1. AvailabilityInv /\ [Next]_vars => AvailabilityInv'
  BY ProposalInv, OpenInv, CommitInv, EndInv, VisitInv, OtherInv
  DEF Next, SetRequest
<1> QED BY <1>1, InitInv, PTL DEF Spec

\* Rows, requests and slots have their types; in particular the least duration
\* asked for is a number also when no offering is active (setAvailibity).
THEOREM AvailabilityTypes == Spec => []TypeOK
<1>1. AvailabilityInv => TypeOK
  BY DEF AvailabilityInv
<1> QED BY <1>1, AvailabilityInvariance, PTL

\* validateSchedules refuses exactly the proposals with an empty window, a
\* window no offering fits in, or two windows that share a minute.
THEOREM ValidationExact == Spec => []ValidationIsExact
<1>1. AvailabilityInv => ValidationIsExact
  BY DEF AvailabilityInv
<1> QED BY <1>1, AvailabilityInvariance, PTL

\* A replacement that met no other one leaves windows without overlaps, also
\* after replacements that overlapped (deleteMany and createMany).
THEOREM ScheduleDisjoint == Spec => []ScheduleIsDisjoint
<1>1. AvailabilityInv => ScheduleIsDisjoint
  BY DEF AvailabilityInv
<1> QED BY <1>1, AvailabilityInvariance, PTL

\* Slots shown together never overlap if such a replacement left the windows
\* (the loop of generateSlot).
THEOREM SlotsNeverCollide == Spec => []SlotsDoNotCollide
<1>1. AvailabilityInv => SlotsDoNotCollide
  BY DEF AvailabilityInv
<1> QED BY <1>1, AvailabilityInvariance, PTL


=============================================================================
