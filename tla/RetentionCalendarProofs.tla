----------------------- MODULE RetentionCalendarProofs -----------------------
(***************************************************************************)
(* The names of the period folders follow the calendar on every day, and   *)
(* retention keeps the newest of them, for all settings.                   *)
(***************************************************************************)
EXTENDS RetentionCalendar, FiniteSetTheorems, WellFoundedInduction, TLAPS

LEMMA Smallest ==
    ASSUME NEW T \in SUBSET Nat, T # {}
    PROVE  \E m \in T : \A k \in T : m <= k
<1> DEFINE U == {0..(n - 1) : n \in T}
<1>1. U \subseteq FiniteSubsetsOf(Nat) /\ U # {}
  <2>1. ASSUME NEW n \in T PROVE IsFiniteSet(0..(n - 1)) /\ 0..(n - 1) \subseteq Nat
    <3>1. n - 1 \in Int /\ 0 \in Int
      OBVIOUS
    <3> QED
      BY <3>1, FS_Interval
  <2> QED
    BY <2>1 DEF FiniteSubsetsOf
<1>2. IsWellFoundedOn(StrictSubsetOrdering(Nat), FiniteSubsetsOf(Nat))
  BY FS_StrictSubsetOrderingWellFounded
<1> HIDE DEF U
<1>3. PICK x \in U : \A y \in U : <<y, x>> \notin StrictSubsetOrdering(Nat)
  BY <1>1, <1>2, WFMin
<1>4. PICK m \in T : x = 0..(m - 1)
  BY DEF U
<1>5. ASSUME NEW k \in T, ~(m <= k) PROVE FALSE
  <2> DEFINE y == 0..(k - 1)
  <2>1. y \in U
    BY DEF U
  <2>2. y \subseteq x /\ k \in x /\ k \notin y
    BY <1>4, <1>5
  <2>3. x \in SUBSET Nat /\ y \in SUBSET Nat
    BY <1>4
  <2> HIDE DEF y
  <2>4. <<y, x>> \in StrictSubsetOrdering(Nat)
    BY <2>2, <2>3 DEF StrictSubsetOrdering
  <2> QED
    BY <1>3, <2>1, <2>4
<1> QED
  BY <1>5
-----------------------------------------------------------------------------
\* The calendar.  A year has 365 or 366 days.
LEMMA LeapCount ==
    ASSUME NEW y \in Nat
    PROVE  /\ IsFiniteSet({z \in Epoch..y : Leap(z)})
           /\ Cardinality({z \in Epoch..y : Leap(z)}) \in Nat
<1>1. IsFiniteSet(Epoch..y)
  BY FS_Interval DEF Epoch
<1>2. {z \in Epoch..y : Leap(z)} \in SUBSET (Epoch..y)
  OBVIOUS
<1>3. IsFiniteSet({z \in Epoch..y : Leap(z)})
  BY <1>1, <1>2, FS_Subset
<1> QED
  BY <1>3, FS_CardinalityType

LEMMA LengthOfYear ==
    ASSUME NEW y \in Nat, y >= Epoch
    PROVE  /\ YearStart(y) \in Int
           /\ YearStart(y + 1) = YearStart(y) + (IF Leap(y) THEN 366 ELSE 365)
<1> DEFINE L == {z \in Epoch..(y - 1) : Leap(z)}
           M == {z \in Epoch..y : Leap(z)}
<1>1. y - 1 \in Nat /\ (y + 1) - 1 = y
  BY DEF Epoch
<1>2. IsFiniteSet(L) /\ Cardinality(L) \in Nat
  BY <1>1, LeapCount
<1>3. M = IF Leap(y) THEN L \union {y} ELSE L
  <2>1. \A z : z \in Epoch..y <=> z \in Epoch..(y - 1) \/ z = y
    BY DEF Epoch
  <2> QED
    BY <2>1
<1>4. y \notin L
  <2>1. y \notin Epoch..(y - 1)
    BY <1>1
  <2> QED
    BY <2>1
<1> HIDE DEF L, M
<1>5. Cardinality(M) = Cardinality(L) + (IF Leap(y) THEN 1 ELSE 0)
  BY <1>2, <1>3, <1>4, FS_AddElement
<1>6. LeapYearsFrom(y) = Cardinality(L) /\ LeapYearsFrom(y + 1) = Cardinality(M)
  BY <1>1 DEF LeapYearsFrom, L, M
<1> QED
  BY <1>2, <1>5, <1>6 DEF YearStart, Epoch

LEMMA YearsInOrder ==
    ASSUME NEW y \in Nat, NEW z \in Nat, Epoch <= y, y <= z
    PROVE  YearStart(y) <= YearStart(z) /\ YearStart(y) >= 365 * (y - Epoch)
<1> DEFINE L(x) == {w \in Epoch..(x - 1) : Leap(w)}
<1>1. y - 1 \in Nat /\ z - 1 \in Nat
  BY DEF Epoch
<1>2. IsFiniteSet(L(z)) /\ Cardinality(L(z)) \in Nat /\ Cardinality(L(y)) \in Nat
  BY <1>1, LeapCount
<1>3. L(y) \in SUBSET L(z)
  BY DEF Epoch
<1>4. Cardinality(L(y)) <= Cardinality(L(z))
  BY <1>2, <1>3, FS_Subset
<1>5. LeapYearsFrom(y) = Cardinality(L(y)) /\ LeapYearsFrom(z) = Cardinality(L(z))
  BY DEF LeapYearsFrom
<1> HIDE DEF L
<1> QED
  BY <1>2, <1>4, <1>5 DEF YearStart, Epoch

IsYear(y, d) == y \in Nat /\ Epoch <= y /\ YearStart(y) <= d /\ d < YearStart(y + 1)

\* Every day has a year.
LEMMA YearOfDay == ASSUME NEW d \in Nat PROVE IsYear(YearOf(d), d)
<1> DEFINE T == {n \in Nat : d < YearStart(Epoch + n + 1)}
<1>1. d \div 365 \in Nat /\ d < 365 * (d \div 365 + 1)
  OBVIOUS
<1>2. d \div 365 \in T
  <2>1. PICK q \in Nat : q = d \div 365
    BY <1>1
  <2>2. Epoch + q + 1 \in Nat /\ Epoch <= Epoch + q + 1 /\ (Epoch + q + 1) - Epoch = q + 1
    BY DEF Epoch
  <2>3. YearStart(Epoch + q + 1) >= 365 * (q + 1) /\ YearStart(Epoch + q + 1) \in Int
    BY <2>2, YearsInOrder, LengthOfYear
  <2>4. d < 365 * (q + 1)
    BY <1>1, <2>1
  <2> QED
    BY <2>1, <2>3, <2>4
<1>3. PICK n \in T : \A k \in T : n <= k
  BY <1>2, Smallest
<1>4. n \in Nat /\ d < YearStart(Epoch + n + 1) /\ n <= d \div 365
  BY <1>2, <1>3
<1>5. YearStart(Epoch + n) <= d
  <2>1. CASE n = 0
    <3>1. {z \in Epoch..(Epoch - 1) : Leap(z)} = {}
      BY DEF Epoch
    <3>2. YearStart(Epoch) = 0
      BY <3>1, FS_EmptySet DEF YearStart, LeapYearsFrom, Epoch
    <3> QED
      BY <2>1, <3>2 DEF Epoch
  <2>2. CASE n # 0
    <3>1. n - 1 \in Nat /\ n - 1 \notin T
      BY <1>3, <1>4, <2>2
    <3>2. Epoch + (n - 1) + 1 = Epoch + n /\ Epoch + n \in Nat /\ Epoch + n >= Epoch
      BY <1>4 DEF Epoch
    <3>3. ~(d < YearStart(Epoch + n)) /\ YearStart(Epoch + n) \in Int
      BY <3>1, <3>2, LengthOfYear
    <3> QED
      BY <3>3
  <2> QED
    BY <2>1, <2>2
<1>6. Epoch + n \in Epoch..(Epoch + (d \div 365)) /\ YearStart(Epoch + n) <= d /\ d < YearStart(Epoch + n + 1)
  BY <1>1, <1>4, <1>5 DEF Epoch
<1>7. YearOf(d) \in Epoch..(Epoch + (d \div 365)) /\ YearStart(YearOf(d)) <= d /\ d < YearStart(YearOf(d) + 1)
  BY <1>6 DEF YearOf
<1> QED
  BY <1>1, <1>7 DEF IsYear, Epoch

LEMMA LaterDayLaterYear ==
    ASSUME NEW d \in Nat, NEW e \in Nat, d <= e
    PROVE  YearOf(d) <= YearOf(e)
<1>1. PICK y, z : y = YearOf(d) /\ z = YearOf(e)
  OBVIOUS
<1>2. IsYear(y, d) /\ IsYear(z, e)
  BY <1>1, YearOfDay
<1>3. ASSUME z < y PROVE FALSE
  <2>1. z + 1 \in Nat /\ Epoch <= z + 1 /\ z + 1 <= y /\ y \in Nat
    BY <1>2, <1>3 DEF IsYear, Epoch
  <2>2. YearStart(z + 1) <= YearStart(y) /\ YearStart(z + 1) \in Int /\ YearStart(y) \in Int
    BY <1>2, <2>1, YearsInOrder, LengthOfYear DEF IsYear
  <2> QED
    BY <1>2, <2>2 DEF IsYear
<1> QED
  BY <1>1, <1>2, <1>3 DEF IsYear
-----------------------------------------------------------------------------
\* The weeks.  A key is that of the week's Thursday.
KeyOfThursday(t) == 100 * YearOf(t) + (t - YearStart(YearOf(t)) + 7) \div 7

LEMMA KeyOfItsThursday ==
    ASSUME NEW d \in Nat, d >= 3
    PROVE  /\ d - (d % 7) + 3 \in Nat
           /\ IsoWeekKeyFor(d) = KeyOfThursday(d - (d % 7) + 3)
<1>1. PICK r \in 0..6 : r = d % 7
  OBVIOUS
<1>2. d - r + 3 \in Nat /\ d + 4 - (r + 1) = d - r + 3
  BY <1>1
<1>3. PICK y \in Nat : y = YearOf(d - r + 3) /\ y >= Epoch
  BY <1>2, YearOfDay DEF IsYear
<1>4. YearStart(y) \in Int
  BY <1>3, LengthOfYear
<1>5. ((d - r + 3) - YearStart(y) + 1) + 7 - 1 = (d - r + 3) - YearStart(y) + 7
  BY <1>1, <1>4
<1>6. IsoWeekKeyFor(d) = 100 * y + (((d - r + 3) - YearStart(y) + 1) + 7 - 1) \div 7
  BY <1>1, <1>2, <1>3 DEF IsoWeekKeyFor, DayOfWeek, CeilDiv
<1> QED
  BY <1>1, <1>2, <1>3, <1>5, <1>6 DEF KeyOfThursday

LEMMA NextThursday ==
    ASSUME NEW t \in Nat
    PROVE  /\ KeyOfThursday(t) \in Nat /\ KeyOfThursday(t) < KeyOfThursday(t + 7)
<1>1. PICK y, z : y = YearOf(t) /\ z = YearOf(t + 7)
  OBVIOUS
<1>2. IsYear(y, t) /\ IsYear(z, t + 7) /\ y <= z
  BY <1>1, YearOfDay, LaterDayLaterYear
<1>3. /\ y \in Nat /\ z \in Nat /\ YearStart(y) \in Int /\ YearStart(z) \in Int
      /\ YearStart(y) <= t /\ t < YearStart(y) + 366 /\ YearStart(z) <= t + 7
  BY <1>2, LengthOfYear DEF IsYear
<1>4. PICK a \in Nat, b \in Nat : a = t - YearStart(y) /\ b = t + 7 - YearStart(z)
  BY <1>3
<1>5. KeyOfThursday(t) = 100 * y + (a + 7) \div 7 /\ KeyOfThursday(t + 7) = 100 * z + (b + 7) \div 7
  <2>1. t - YearStart(y) + 7 = a + 7 /\ (t + 7) - YearStart(z) + 7 = b + 7
    BY <1>3, <1>4
  <2> QED
    BY <1>1, <2>1 DEF KeyOfThursday
<1>6. (a + 7) \div 7 \in 1..53 /\ (b + 7) \div 7 \in Nat /\ (b + 7) \div 7 >= 1
  BY <1>3, <1>4
<1>7. CASE y = z
  <2>1. b = a + 7
    BY <1>3, <1>4, <1>7
  <2>2. (b + 7) \div 7 = (a + 7) \div 7 + 1
    BY <2>1
  <2> QED
    BY <1>3, <1>5, <1>6, <1>7, <2>2
<1>8. CASE y < z
  BY <1>3, <1>5, <1>6, <1>8
<1> QED
  BY <1>2, <1>3, <1>7, <1>8

LEMMA WeekKeys ==
    ASSUME NEW d \in Nat, d >= 3
    PROVE  /\ IsoWeekKeyFor(d) \in Nat
           /\ DayOfWeek(d + 1) = 1 => IsoWeekKeyFor(d) < IsoWeekKeyFor(d + 1)
           /\ DayOfWeek(d + 1) # 1 => IsoWeekKeyFor(d) = IsoWeekKeyFor(d + 1)
<1>1. /\ d - (d % 7) + 3 \in Nat /\ IsoWeekKeyFor(d) = KeyOfThursday(d - (d % 7) + 3)
      /\ d + 1 \in Nat /\ IsoWeekKeyFor(d + 1) = KeyOfThursday((d + 1) - ((d + 1) % 7) + 3)
  BY KeyOfItsThursday
<1>2. CASE (d + 1) % 7 = 0
  <2>1. (d + 1) - ((d + 1) % 7) + 3 = (d - (d % 7) + 3) + 7
    BY <1>2
  <2> QED
    BY <1>1, <1>2, <2>1, NextThursday DEF DayOfWeek
<1>3. CASE (d + 1) % 7 # 0
  <2>1. (d + 1) - ((d + 1) % 7) + 3 = d - (d % 7) + 3 /\ (d + 1) % 7 \in 1..6
    BY <1>3
  <2> QED
    BY <1>1, <1>3, <2>1, NextThursday DEF DayOfWeek
<1> QED
  BY <1>2, <1>3
-----------------------------------------------------------------------------
\* The months.
LEMMA MonthOfDay ==
    ASSUME NEW d \in Nat, NEW y, y = YearOf(d), NEW before, before = DaysBeforeMonth(y)
    PROVE  /\ MonthOf(d) \in 1..12 
           /\ before[MonthOf(d)] <= d - YearStart(y) /\ d - YearStart(y) < before[MonthOf(d) + 1]
           /\ \A m \in 1..13 : before[m] \in Nat /\ \A n \in 1..13 : m <= n => before[m] <= before[n]
<1>1. /\ y \in Nat /\ Epoch <= y /\ YearStart(y) \in Int /\ YearStart(y) <= d
      /\ d - YearStart(y) < (IF Leap(y) THEN 366 ELSE 365)
  BY YearOfDay, LengthOfYear DEF IsYear
<1>2. PICK l \in {0, 1} : l = (IF Leap(y) THEN 1 ELSE 0)
  OBVIOUS
<1>3. before = <<0, 31, 59 + l, 90 + l, 120 + l, 151 + l, 181 + l, 212 + l, 243 + l, 273 + l, 304 + l, 334 + l, 365 + l>>
  BY <1>2 DEF DaysBeforeMonth
<1>4. /\ before[1] = 0 /\ before[2] = 31 /\ before[3] = 59 + l /\ before[4] = 90 + l /\ before[5] = 120 + l
      /\ before[6] = 151 + l /\ before[7] = 181 + l /\ before[8] = 212 + l /\ before[9] = 243 + l
      /\ before[10] = 273 + l /\ before[11] = 304 + l /\ before[12] = 334 + l /\ before[13] = 365 + l
  BY <1>3
<1>5. \A m \in 1..13 : m \in {1, 2, 3, 4, 5, 6, 7, 8, 9, 10, 11, 12, 13}
  OBVIOUS
<1> HIDE <1>3
<1>6. ASSUME NEW m \in 1..13 PROVE before[m] \in Nat
  BY <1>4, <1>5
<1>7. ASSUME NEW m \in 1..13, NEW n \in 1..13, m <= n PROVE before[m] <= before[n]
  BY <1>4, <1>5, <1>7
<1>8. PICK x \in Nat : x = d - YearStart(y) /\ x < 365 + l
  BY <1>1, <1>2
<1>9. \E m \in 1..12 : before[m] <= x /\ x < before[m + 1]
  BY <1>4, <1>8
<1>10. /\ MonthOf(d) \in 1..12
       /\ before[MonthOf(d)] <= d - YearStart(y) /\ d - YearStart(y) < before[MonthOf(d) + 1]
  BY <1>8, <1>9 DEF MonthOf
<1> QED
  BY <1>6, <1>7, <1>10

LEMMA MonthKeys ==
    ASSUME NEW d \in Nat
    PROVE  /\ 100 * YearOf(d) + MonthOf(d) \in Nat
           /\ 100 * YearOf(d) + MonthOf(d) <= 100 * YearOf(d + 1) + MonthOf(d + 1)
<1>1. PICK y, z, m, n : y = YearOf(d) /\ z = YearOf(d + 1) /\ m = MonthOf(d) /\ n = MonthOf(d + 1)
  OBVIOUS
<1>2. d + 1 \in Nat /\ y \in Nat /\ z \in Nat /\ y <= z /\ m \in 1..12 /\ n \in 1..12
  BY <1>1, YearOfDay, LaterDayLaterYear, MonthOfDay DEF IsYear
<1>3. CASE y = z
  <2>1. PICK before : before = DaysBeforeMonth(y)
    OBVIOUS
  <2>2. /\ before[m] <= d - YearStart(y)
        /\ \A i \in 1..13 : before[i] \in Nat /\ \A j \in 1..13 : i <= j => before[i] <= before[j]
    BY <1>1, <2>1, MonthOfDay
  <2>3. y = YearOf(d + 1)
    BY <1>1, <1>3
  <2>4. (d + 1) - YearStart(y) < before[n + 1]
    BY <1>1, <1>2, <2>1, <2>3, MonthOfDay
  <2>5. YearStart(y) \in Int
    BY <1>1, YearOfDay, LengthOfYear DEF IsYear
  <2>6. ASSUME n < m PROVE FALSE
    <3>1. before[n + 1] <= before[m] /\ before[n + 1] \in Nat /\ before[m] \in Nat
      BY <1>2, <2>2, <2>6
    <3> QED
      BY <2>2, <2>4, <2>5, <3>1
  <2> QED
    BY <1>1, <1>2, <1>3, <2>6
<1>4. CASE y < z
  BY <1>1, <1>2, <1>4
<1> QED
  BY <1>1, <1>2, <1>3, <1>4
-----------------------------------------------------------------------------
\* What retention keeps of the other keys S: those with fewer than n newer ones.
NewerIn(S, k) == {j \in S : j > k}
Kept(S, n)    == {k \in S : Cardinality(NewerIn(S, k)) < n}

LEMMA NewerIsFinite ==
    ASSUME NEW S \in SUBSET Nat, IsFiniteSet(S), NEW k
    PROVE  IsFiniteSet(NewerIn(S, k)) /\ Cardinality(NewerIn(S, k)) \in Nat
<1>1. NewerIn(S, k) \in SUBSET S
  BY DEF NewerIn
<1>2. IsFiniteSet(NewerIn(S, k))
  BY <1>1, FS_Subset
<1> QED
  BY <1>2, FS_CardinalityType

LEMMA NewerThanANewer ==
    ASSUME NEW S \in SUBSET Nat, NEW g \in Nat, NEW f \in Nat, g < f
    PROVE  NewerIn(S, f) \in SUBSET NewerIn(S, g) /\ f \notin NewerIn(S, f)
<1>1. ASSUME NEW j \in NewerIn(S, f) PROVE j \in NewerIn(S, g) /\ j # f
  <2>1. j \in S /\ j \in Nat /\ j > f
    BY DEF NewerIn
  <2> QED
    BY <2>1 DEF NewerIn
<1> QED
  BY <1>1

\* A key that is dropped is older than every key that is kept.
LEMMA KeptAreNewer ==
    ASSUME NEW S \in SUBSET Nat, IsFiniteSet(S), NEW n \in Nat,
           NEW f \in S \ Kept(S, n), NEW g \in Kept(S, n)
    PROVE  f < g
<1>1. g \in S /\ g \in Nat /\ f \in Nat /\ f # g
  BY DEF Kept
<1>2. ASSUME g < f PROVE FALSE
  <2>1. NewerIn(S, f) \in SUBSET NewerIn(S, g)
    BY <1>1, <1>2, NewerThanANewer
  <2>2. Cardinality(NewerIn(S, f)) <= Cardinality(NewerIn(S, g))
    BY <2>1, NewerIsFinite, FS_Subset
  <2>3. Cardinality(NewerIn(S, f)) \in Nat /\ Cardinality(NewerIn(S, g)) \in Nat
    BY NewerIsFinite
  <2>4. ~(Cardinality(NewerIn(S, f)) < n) /\ Cardinality(NewerIn(S, g)) < n
    BY DEF Kept
  <2> QED
    BY <2>2, <2>3, <2>4
<1> QED
  BY <1>1, <1>2

\* At most n are kept; n are, when one is dropped.
LEMMA KeptAreCounted ==
    ASSUME NEW S \in SUBSET Nat, IsFiniteSet(S), NEW n \in Nat
    PROVE  /\ IsFiniteSet(Kept(S, n)) /\ Cardinality(Kept(S, n)) \in Nat
           /\ Cardinality(Kept(S, n)) <= n
           /\ S \ Kept(S, n) # {} => Cardinality(Kept(S, n)) = n
<1> DEFINE K == Kept(S, n)
<1>1. K \in SUBSET S
  BY DEF Kept
<1>2. IsFiniteSet(K) /\ Cardinality(K) \in Nat
  BY <1>1, FS_Subset, FS_CardinalityType
<1>3. Cardinality(K) <= n
  <2>1. CASE K = {}
    BY <2>1, FS_EmptySet
  <2>2. CASE K # {}
    <3>1. K \in SUBSET Nat
      BY <1>1
    <3>2. PICK m \in K : \A k \in K : m <= k
      BY <2>2, <3>1, Smallest
    <3>3. K \ {m} \in SUBSET NewerIn(S, m)
      BY <1>1, <3>1, <3>2 DEF NewerIn
    <3>4. Cardinality(NewerIn(S, m)) < n /\ m \in K
      BY DEF Kept
    <3>5. IsFiniteSet(NewerIn(S, m)) /\ Cardinality(NewerIn(S, m)) \in Nat
      BY NewerIsFinite
    <3>6. Cardinality(K \ {m}) <= Cardinality(NewerIn(S, m))
      BY <3>3, <3>5, FS_Subset
    <3>7. Cardinality(K \ {m}) = Cardinality(K) - 1
      BY <1>2, <3>4, FS_RemoveElement
    <3> QED
      BY <1>2, <3>4, <3>5, <3>6, <3>7
  <2> QED
    BY <2>1, <2>2
<1>4. ASSUME S \ K # {} PROVE Cardinality(K) >= n
  <2> DEFINE counts == {Cardinality(NewerIn(S, e)) : e \in S \ K}
  <2>1. counts \in SUBSET Nat /\ counts # {}
    BY <1>4, NewerIsFinite
  <2>2. PICK c \in counts : \A k \in counts : c <= k
    BY <2>1, Smallest
  <2>3. PICK e \in S \ K : c = Cardinality(NewerIn(S, e))
    BY <2>2
  <2>4. ASSUME NEW j \in NewerIn(S, e), j \notin K PROVE FALSE
    <3>1. j \in S \ K /\ e < j /\ j \in Nat /\ e \in Nat
      BY <2>3, <2>4 DEF NewerIn
    <3>2. c <= Cardinality(NewerIn(S, j))
      BY <2>2, <3>1
    <3>3. NewerIn(S, j) \in SUBSET NewerIn(S, e) /\ j \notin NewerIn(S, j)
      BY <3>1, NewerThanANewer
    <3>4. /\ IsFiniteSet(NewerIn(S, e)) /\ Cardinality(NewerIn(S, e)) \in Nat
          /\ Cardinality(NewerIn(S, j)) \in Nat
      BY NewerIsFinite
    <3>5. /\ Cardinality(NewerIn(S, j)) <= Cardinality(NewerIn(S, e))
          /\ Cardinality(NewerIn(S, j)) # Cardinality(NewerIn(S, e))
      BY <2>4, <3>3, <3>4, FS_Subset
    <3> QED
      BY <2>3, <3>2, <3>4, <3>5
  <2>5. NewerIn(S, e) \in SUBSET K
    BY <2>4
  <2>6. Cardinality(NewerIn(S, e)) <= Cardinality(K)
    BY <1>2, <2>5, FS_Subset
  <2>7. ~(Cardinality(NewerIn(S, e)) < n) /\ Cardinality(NewerIn(S, e)) \in Nat
    BY <2>3, NewerIsFinite DEF Kept
  <2> QED
    BY <1>2, <2>6, <2>7
<1> HIDE DEF K
<1>5. S \ K # {} => Cardinality(K) = n
  BY <1>2, <1>3, <1>4
<1> QED
  BY <1>2, <1>3, <1>5 DEF K
-----------------------------------------------------------------------------
\* The folders.  None has a key after that of the day, in its kind.
KeyOn(kind, d) == IF kind = "week" THEN IsoWeekKeyFor(d) ELSE 100 * YearOf(d) + MonthOf(d)

CalendarInv ==
    /\ today \in Nat /\ today >= 7 /\ keep \in Nat /\ mode \in {"weeks", "months", "forever"}
    /\ folders \subseteq {"week", "month"} \X Nat
    /\ \A f \in folders : f[2] <= KeyOn(f[1], today)

LEMMA KeysMoveOn ==
    ASSUME NEW d \in Nat, d >= 7, NEW kind \in {"week", "month"}
    PROVE  KeyOn(kind, d) \in Nat /\ KeyOn(kind, d + 1) \in Nat /\ KeyOn(kind, d) <= KeyOn(kind, d + 1)
<1>1. CASE kind = "week"
  <2>1. IsoWeekKeyFor(d) \in Nat /\ IsoWeekKeyFor(d + 1) \in Nat /\ IsoWeekKeyFor(d) <= IsoWeekKeyFor(d + 1)
    BY WeekKeys
  <2> QED
    BY <1>1, <2>1 DEF KeyOn
<1>2. CASE kind # "week"
  BY <1>2, MonthKeys DEF KeyOn
<1> QED
  BY <1>1, <1>2

\* What is left of the keys of the kind in force.
Current     == PeriodKeyFor(mode, today)
Retention   == IF keep < 1 THEN 1 ELSE keep
AllKeys     == KeysOf(folders \union {CurrentFolder}, mode)
Others      == AllKeys \ {Current}
Expired     == ExpiredFolders(mode, AllKeys, keep, Current)

LEMMA KeysOfTheMode ==
    ASSUME CalendarInv
    PROVE  /\ Kind(mode) \in {"week", "month"} /\ Current = KeyOn(Kind(mode), today) /\ Current \in Nat
           /\ Current \in AllKeys
           /\ Others \in SUBSET Nat /\ IsFiniteSet(Others)
           /\ \A k \in Others : k < Current
<1>1. Kind(mode) \in {"week", "month"} /\ Current = KeyOn(Kind(mode), today)
  BY DEF CalendarInv, Kind, Current, KeyOn, PeriodKeyFor
<1>2. Current \in Nat
  BY <1>1, KeysMoveOn DEF CalendarInv
<1>3. CurrentFolder[1] = Kind(mode) /\ CurrentFolder[2] = Current
  BY DEF CurrentFolder, Current
<1>4. Current \in AllKeys
  BY <1>3 DEF AllKeys, KeysOf
<1>5. ASSUME NEW k \in Others PROVE k \in 0..Current /\ k < Current
  <2>1. PICK f \in folders : f[1] = Kind(mode) /\ k = f[2]
    BY <1>3 DEF Others, AllKeys, KeysOf
  <2>2. f[2] \in Nat /\ f[2] <= KeyOn(f[1], today)
    BY DEF CalendarInv
  <2>3. k # Current
    BY DEF Others
  <2> QED
    BY <1>1, <1>2, <2>1, <2>2, <2>3
<1>6. IsFiniteSet(0..Current)
  BY <1>2, FS_Interval
<1>7. Others \in SUBSET (0..Current)
  BY <1>5
<1>8. IsFiniteSet(Others)
  BY <1>6, <1>7, FS_Subset
<1>9. Others \in SUBSET Nat
  BY <1>2, <1>5
<1> QED
  BY <1>1, <1>2, <1>4, <1>5, <1>8, <1>9

\* Nothing expires in mode "forever"; else what selectExpiredPeriodKeys chooses.
LEMMA ExpiredKeys ==
    ASSUME CalendarInv
    PROVE  Expired = IF mode = "forever" THEN {} ELSE Others \ Kept(Others, Retention - 1)
<1>1. CASE mode = "forever"
  BY <1>1 DEF Expired, ExpiredFolders
<1>2. CASE mode # "forever"
  <2>1. Retention \in Nat /\ Retention >= 1
    BY DEF Retention, CalendarInv
  <2>2. Expired = {k \in Others : Cardinality(NewerIn(Others, k)) >= Retention - 1}
    BY <1>2 DEF Expired, ExpiredFolders, SelectExpiredPeriodKeys, MinRetentionPeriods, Retention, Others, NewerIn
  <2>3. ASSUME NEW k \in Others
        PROVE  Cardinality(NewerIn(Others, k)) >= Retention - 1 <=> ~(Cardinality(NewerIn(Others, k)) < Retention - 1)
    BY <2>1, KeysOfTheMode, NewerIsFinite
  <2> QED
    BY <1>2, <2>2, <2>3 DEF Kept
<1> QED
  BY <1>1, <1>2

\* A backup leaves the current key, what it could not remove, and of the others those
\* that are kept.
LEMMA BackUpLeaves ==
    ASSUME CalendarInv, NEW refused \in SUBSET ExpiredOf(Stored), BackUp(refused)
    PROVE  /\ folders' = {f \in folders \union {CurrentFolder} :
                            f[1] = Kind(mode) /\ f[2] \in Expired => f \in refused}
           /\ CurrentFolder \in folders' \ refused
           /\ KeysOf(folders' \ refused, mode) = {Current} \union (Others \ Expired)
           /\ refused \subseteq {Kind(mode)} \X Expired
<1>0. ExpiredOf(Stored) = {Kind(mode)} \X Expired
  BY DEF ExpiredOf, Stored, Expired, AllKeys, Current
<1>1. folders' = (folders \union {CurrentFolder}) \ (({Kind(mode)} \X Expired) \ refused)
  BY <1>0 DEF BackUp, EnforceRetention, Stored
<1>2. CurrentFolder = <<Kind(mode), Current>> /\ CurrentFolder[1] = Kind(mode) /\ CurrentFolder[2] = Current
  BY DEF CurrentFolder, Current
<1>3. \A f \in folders \union {CurrentFolder} : f = <<f[1], f[2]>>
  BY <1>2 DEF CalendarInv
<1>4. \A f \in folders \union {CurrentFolder} :
        f \in {Kind(mode)} \X Expired <=> (f[1] = Kind(mode) /\ f[2] \in Expired)
  BY <1>3
<1>5. folders' = {f \in folders \union {CurrentFolder} :
                    f[1] = Kind(mode) /\ f[2] \in Expired => f \in refused}
  BY <1>1, <1>4
<1>6. Expired \subseteq Others
  BY ExpiredKeys
<1>7. Current \notin Others
  BY DEF Others
<1>8. refused \subseteq {Kind(mode)} \X Expired
  BY <1>0
<1>9. CurrentFolder \in folders' \ refused
  <2>1. CurrentFolder \notin {Kind(mode)} \X Expired
    BY <1>2, <1>6, <1>7
  <2> QED
    BY <1>1, <1>8, <2>1
<1>10. \A f : f \in folders' \ refused <=>
         f \in folders \union {CurrentFolder} /\ ~(f[1] = Kind(mode) /\ f[2] \in Expired)
  <2>1. folders' \ refused = (folders \union {CurrentFolder}) \ ({Kind(mode)} \X Expired)
    BY <1>1, <1>8
  <2> QED
    BY <1>4, <2>1
<1>11. KeysOf(folders' \ refused, mode) = AllKeys \ Expired
  BY <1>10 DEF AllKeys, KeysOf
<1>12. AllKeys \ Expired = {Current} \union (Others \ Expired)
  BY <1>6, <1>7, KeysOfTheMode DEF Others
<1> QED
  BY <1>5, <1>8, <1>9, <1>11, <1>12

LEMMA HowManyAreLeft ==
    ASSUME CalendarInv, mode # "forever",
           NEW refused \in SUBSET ExpiredOf(Stored), BackUp(refused)
    PROVE  /\ Cardinality(KeysOf(folders' \ refused, mode)) <= Retention
           /\ Expired # {} => Cardinality(KeysOf(folders' \ refused, mode)) = Retention
<1> DEFINE K == Kept(Others, Retention - 1)
<1>1. Retention \in Nat /\ Retention - 1 \in Nat
  BY DEF Retention, CalendarInv
<1>2. /\ IsFiniteSet(K) /\ Cardinality(K) \in Nat /\ Cardinality(K) <= Retention - 1
      /\ Others \ K # {} => Cardinality(K) = Retention - 1
  BY <1>1, KeysOfTheMode, KeptAreCounted
<1>3. Expired = Others \ K /\ K \subseteq Others /\ Current \notin K
  BY ExpiredKeys DEF Kept, Others
<1> HIDE DEF K
<1>4. KeysOf(folders' \ refused, mode) = K \union {Current}
  BY <1>3, BackUpLeaves
<1>5. Cardinality(K \union {Current}) = Cardinality(K) + 1
  BY <1>2, <1>3, FS_AddElement
<1>6. PICK left : left = Cardinality(KeysOf(folders' \ refused, mode))
  OBVIOUS
<1>7. left = Cardinality(K) + 1
  BY <1>4, <1>5, <1>6
<1>8. left <= Retention /\ (Expired # {} => left = Retention)
  BY <1>1, <1>2, <1>3, <1>7
<1> QED
  BY <1>6, <1>8

LEMMA InitCalendarInv == Init => CalendarInv
BY CalendarAssumption DEF Init, CalendarInv

LEMMA NextCalendarInv == CalendarInv /\ [Next]_vars => CalendarInv'
<1> SUFFICES ASSUME CalendarInv, [Next]_vars PROVE CalendarInv'
  OBVIOUS
<1>1. CASE NextDay
  <2>1. ASSUME NEW f \in folders PROVE f[2] <= KeyOn(f[1], today + 1)
    <3>1. f[1] \in {"week", "month"} /\ f[2] \in Nat /\ f[2] <= KeyOn(f[1], today) /\ today \in Nat /\ today >= 7
      BY DEF CalendarInv
    <3>2. KeyOn(f[1], today) \in Nat /\ KeyOn(f[1], today + 1) \in Nat /\ KeyOn(f[1], today) <= KeyOn(f[1], today + 1)
      BY <3>1, KeysMoveOn
    <3> QED
      BY <3>1, <3>2
  <2>2. today' = today + 1 /\ UNCHANGED <<folders, keep, mode>>
    BY <1>1 DEF NextDay
  <2> QED
    BY <2>1, <2>2 DEF CalendarInv
<1>2. ASSUME UNCHANGED <<today, keep, mode>>, folders' \subseteq Stored PROVE CalendarInv'
  <2>1. CurrentFolder = <<Kind(mode), Current>>
    BY DEF CurrentFolder, Current
  <2>2. CurrentFolder \in {"week", "month"} \X Nat /\ CurrentFolder[2] <= KeyOn(CurrentFolder[1], today)
    BY <2>1, KeysOfTheMode
  <2> QED
    BY <1>2, <2>2 DEF CalendarInv, Stored
<1>3. CASE StoreFails
  BY <1>2, <1>3 DEF StoreFails
<1>4. ASSUME NEW refused \in SUBSET ExpiredOf(Stored), BackUp(refused) PROVE CalendarInv'
  BY <1>2, <1>4 DEF BackUp, EnforceRetention
<1>5. ASSUME NEW k \in Keeps, NEW m \in Modes, EditRetention(k, m) PROVE CalendarInv'
  BY <1>5, CalendarAssumption DEF EditRetention, CalendarInv
<1>6. CASE UNCHANGED vars
  BY <1>6 DEF vars, CalendarInv
<1> QED
  BY <1>1, <1>3, <1>4, <1>5, <1>6 DEF Next

LEMMA CalendarHolds == Spec => []CalendarInv
BY InitCalendarInv, NextCalendarInv, PTL DEF Spec

\* The variables of the calendar keep their types (RetentionCalendar).
THEOREM CalendarTypeCorrect == Spec => []TypeOK
<1>1. Init => TypeOK
  BY CalendarAssumption DEF Init, TypeOK
<1>2. CalendarInv' /\ TypeOK /\ [Next]_vars => TypeOK'
  BY CalendarAssumption DEF TypeOK, CalendarInv, Next, NextDay, BackUp, EnforceRetention, StoreFails, EditRetention, vars
<1> QED
  BY <1>1, <1>2, CalendarHolds, PTL DEF Spec

\* Only a backup removes folders.
LEMMA OnlyBackUpsRemove ==
    [Next]_vars => folders \subseteq folders' \/ \E refused \in SUBSET ExpiredOf(Stored) : BackUp(refused)
BY DEF Next, NextDay, EditRetention, StoreFails, Stored, vars

LEMMA TheLimit == CalendarInv => Retention = Limit
BY DEF Retention, Limit, CalendarInv

\* Two weeks never share a folder name, and the names of later weeks sort later, also
\* across a change of year, on every day (isoWeekKeyFor).
THEOREM WeeksHaveTheirKeys == Spec => []WeekKeysFollowTheWeeks
<1>1. CalendarInv => WeekKeysFollowTheWeeks
  <2> SUFFICES ASSUME CalendarInv, NEW y \in 0..9, NEW d, d = today + 365 * y
               PROVE  IF DayOfWeek(d + 1) = 1
                        THEN IsoWeekKeyFor(d) < IsoWeekKeyFor(d + 1)
                        ELSE IsoWeekKeyFor(d) = IsoWeekKeyFor(d + 1)
    BY DEF WeekKeysFollowTheWeeks
  <2>1. d \in Nat /\ d >= 3
    BY DEF CalendarInv
  <2> QED
    BY <2>1, WeekKeys
<1> QED
  BY <1>1, CalendarHolds, PTL

\* A backup leaves its own folder and, besides what it could not remove, at most as many
\* as are to be kept, whatever the settings were before and whatever earlier failures
\* left behind (selectExpiredPeriodKeys, enforceRetention).
THEOREM RetentionIsKept == Spec => RetentionHolds
<1>1. CalendarInv /\ [Next]_vars =>
        [\A refused \in SUBSET ExpiredOf(Stored) :
           BackUp(refused) =>
             /\ CurrentFolder \in folders'
             /\ mode # "forever" => Cardinality(KeysOf(folders' \ refused, mode)) <= Limit]_vars
  BY TheLimit, BackUpLeaves, HowManyAreLeft
<1> QED
  BY <1>1, CalendarHolds, PTL DEF Spec, RetentionHolds

\* What retention removes is older than all of its kind it means to keep, and it removes
\* nothing from a destination within its limit; only what it failed to remove can be older
\* than what went (selectExpiredPeriodKeys, removePeriodFolder).
THEOREM TheOldestFoldersGo == Spec => OnlyTheOldestGo
<1>1. CalendarInv /\ [Next]_vars =>
        [\/ folders \subseteq folders'
         \/ \E refused \in SUBSET ExpiredOf(Stored) :
              /\ BackUp(refused)
              /\ \A f \in folders \ folders' :
                   /\ \A g \in folders' \ refused : g[1] = f[1] => f[2] < g[2]
                   /\ Cardinality(KeysOf(folders' \ refused, mode)) = Limit]_vars
  <2> SUFFICES ASSUME CalendarInv, [Next]_vars,
                      NEW refused \in SUBSET ExpiredOf(Stored), BackUp(refused),
                      NEW f \in folders \ folders'
               PROVE  /\ \A g \in folders' \ refused : g[1] = f[1] => f[2] < g[2]
                      /\ Cardinality(KeysOf(folders' \ refused, mode)) = Limit
    BY OnlyBackUpsRemove
  <2>1. f[1] = Kind(mode) /\ f[2] \in Expired
    BY BackUpLeaves
  <2>2. mode # "forever" /\ Expired = Others \ Kept(Others, Retention - 1)
    BY <2>1, ExpiredKeys
  <2>3. Retention = Limit /\ Retention - 1 \in Nat
    BY TheLimit DEF Retention, CalendarInv
  <2>4. Cardinality(KeysOf(folders' \ refused, mode)) = Limit
    BY <2>1, <2>2, <2>3, HowManyAreLeft
  <2>5. ASSUME NEW g \in folders' \ refused, g[1] = f[1] PROVE f[2] < g[2]
    <3>1. g[2] \in KeysOf(folders' \ refused, mode)
      BY <2>1, <2>5 DEF KeysOf
    <3>2. g[2] \in {Current} \union (Others \ Expired)
      BY <3>1, BackUpLeaves
    <3>3. CASE g[2] = Current
      BY <2>1, <2>2, <3>3, KeysOfTheMode
    <3>4. CASE g[2] \in Kept(Others, Retention - 1)
      BY <2>1, <2>2, <2>3, <3>4, KeysOfTheMode, KeptAreNewer
    <3> QED
      BY <2>2, <3>2, <3>3, <3>4
  <2> QED
    BY <2>4, <2>5
<1> QED
  BY <1>1, CalendarHolds, PTL DEF Spec, OnlyTheOldestGo
=============================================================================
