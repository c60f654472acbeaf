------------------------ MODULE SyntheticEventsProofs ------------------------
(***************************************************************************)
(* Proofs about SyntheticEvents for any definitions, names, months and     *)
(* traffic: sums of credits, the arithmetic of periods, the loop of        *)
(* getActivePeriods, and what repeated calls send.                         *)
(***************************************************************************)
EXTENDS SyntheticEvents, FiniteSetTheorems, NaturalsInduction, WellFoundedInduction, TLAPS

--------------------------------------------------------------------------------
\* Sums of credits

UnitsOf(e) == {e} \X (1..e.credits)

LEMMA UnitsOfFinite ==
  ASSUME NEW e \in Event
  PROVE  IsFiniteSet(UnitsOf(e)) /\ Cardinality(UnitsOf(e)) = e.credits
<1>1. e.credits \in Nat
  BY DEF Event
<1>2. IsFiniteSet(1..e.credits) /\ Cardinality(1..e.credits) = e.credits
  <2>1. 1 \in Int /\ e.credits \in Int
    BY <1>1
  <2>2. /\ IsFiniteSet(1..e.credits)
        /\ Cardinality(1..e.credits) = IF 1 > e.credits THEN 0 ELSE e.credits - 1 + 1
    BY ONLY <2>1, FS_Interval
  <2> QED
    BY <1>1, <2>2
<1>3. IsFiniteSet({e}) /\ Cardinality({e}) = 1
  BY FS_Singleton
<1>4. ASSUME NEW n, IsFiniteSet(n)
      PROVE  /\ IsFiniteSet({e} \X n)
             /\ Cardinality({e} \X n) = Cardinality({e}) * Cardinality(n)
  BY ONLY <1>3, <1>4, FS_Product
<1> DEFINE n == 1..e.credits
<1>5. IsFiniteSet(n) /\ Cardinality(n) = e.credits
  BY <1>2
<1> HIDE DEF n
<1>6. IsFiniteSet({e} \X n) /\ Cardinality({e} \X n) = 1 * e.credits
  BY ONLY <1>3, <1>4, <1>5
<1> QED
  BY ONLY <1>1, <1>6 DEF UnitsOf, n

LEMMA UnitsFinite ==
  ASSUME NEW S \in SUBSET Event, IsFiniteSet(S)
  PROVE  IsFiniteSet(Units(S))
<1> DEFINE T == {UnitsOf(e) : e \in S}
           f == [e \in S |-> UnitsOf(e)]
<1>1. f \in Surjection(S, T)
  BY DEF Surjection
<1>2. IsFiniteSet(T)
  BY <1>1, FS_Surjection
<1>3. \A x \in T : IsFiniteSet(x)
  BY UnitsOfFinite
<1> QED
  BY <1>2, <1>3, FS_UNION DEF Units, UnitsOf

LEMMA CreditsNat ==
  ASSUME NEW S \in SUBSET Event, IsFiniteSet(S)
  PROVE  Credits(S) \in Nat
BY UnitsFinite, FS_CardinalityType DEF Credits

\* More events have no fewer credits.
LEMMA CreditsMonotone ==
  ASSUME NEW T \in SUBSET Event, IsFiniteSet(T), NEW S \in SUBSET T
  PROVE  Credits(S) <= Credits(T)
<1>1. Units(S) \subseteq Units(T)
  BY DEF Units
<1> QED
  BY <1>1, UnitsFinite, FS_Subset DEF Credits

\* Another event adds its credits.
LEMMA CreditsAdd ==
  ASSUME NEW S \in SUBSET Event, IsFiniteSet(S), NEW e \in Event, e \notin S
  PROVE  Credits(S \cup {e}) = Credits(S) + e.credits
<1>1. Units(S \cup {e}) = Units(S) \cup UnitsOf(e)
  BY DEF Units, UnitsOf
<1>2. Units(S) \cap UnitsOf(e) = {}
  BY DEF Units, UnitsOf
<1>3. IsFiniteSet(Units(S)) /\ Cardinality(Units(S)) \in Nat
  BY UnitsFinite, FS_CardinalityType
<1>4. IsFiniteSet(UnitsOf(e)) /\ Cardinality(UnitsOf(e)) = e.credits /\ e.credits \in Nat
  BY UnitsOfFinite DEF Event
<1>5. Cardinality(Units(S) \cup UnitsOf(e)) =
        Cardinality(Units(S)) + Cardinality(UnitsOf(e)) - Cardinality(Units(S) \cap UnitsOf(e))
  BY <1>3, <1>4, FS_Union
<1>6. Cardinality(Units(S) \cap UnitsOf(e)) = 0
  BY <1>2, FS_EmptySet
<1>7. Cardinality(Units(S) \cup UnitsOf(e)) = Cardinality(Units(S)) + e.credits
  BY <1>3, <1>4, <1>5, <1>6
<1> QED
  BY <1>1, <1>7 DEF Credits

\* The credits of rows are no fewer than those of the events in them, and no more if no
\* event is in two of them.
LEMMA RowCredits ==
  ASSUME NEW rows, IsFiniteSet(rows),
         \A row \in rows : row.events \in SUBSET Event /\ IsFiniteSet(row.events)
  PROVE  LET all == UNION {row.events : row \in rows} IN
         /\ all \in SUBSET Event /\ IsFiniteSet(all)
         /\ Credits(all) \in Nat /\ CreditsOfRows(rows) \in Nat
         /\ Credits(all) <= CreditsOfRows(rows)
         /\ (\A r, n \in rows : r # n => r.events \cap n.events = {}) => CreditsOfRows(rows) = Credits(all)
<1> DEFINE all == UNION {row.events : row \in rows}
           E == {row.events : row \in rows}
           T == {{row} \X Units(row.events) : row \in rows}
           e == [row \in rows |-> row.events]
           t == [row \in rows |-> {row} \X Units(row.events)]
           f == [x \in UNION T |-> x[2]]
<1>1. e \in Surjection(rows, E) /\ t \in Surjection(rows, T)
  BY DEF Surjection
<1>2. IsFiniteSet(E) /\ IsFiniteSet(T)
  BY <1>1, FS_Surjection
<1>3. all \in SUBSET Event /\ IsFiniteSet(all)
  BY <1>2, FS_UNION
<1>4. ASSUME NEW row \in rows PROVE IsFiniteSet({row} \X Units(row.events))
  BY UnitsFinite, FS_Singleton, FS_Product
<1>5. IsFiniteSet(UNION T)
  BY <1>2, <1>4, FS_UNION
<1>6. ASSUME NEW x \in UNION T
      PROVE  x[1] \in rows /\ x[2] \in Units(x[1].events) /\ x = <<x[1], x[2]>>
  OBVIOUS
<1>7. ASSUME NEW row \in rows, NEW u \in Units(row.events)
      PROVE  u \in Units(all) /\ u[1] \in row.events
  BY DEF Units
<1>8. ASSUME NEW u \in Units(all)
      PROVE  \E row \in rows : u \in Units(row.events)
  BY DEF Units
<1>9. f \in Surjection(UNION T, Units(all))
  <2>1. ASSUME NEW x \in UNION T PROVE f[x] \in Units(all)
    BY <1>6, <1>7
  <2>2. ASSUME NEW u \in Units(all) PROVE \E x \in UNION T : f[x] = u
    <3>1. PICK row \in rows : u \in Units(row.events)
      BY <1>8
    <3>2. <<row, u>> \in UNION T
      BY <3>1
    <3> QED
      BY <3>2
  <2> QED
    BY <2>1, <2>2 DEF Surjection
<1>10. ASSUME \A r, n \in rows : r # n => r.events \cap n.events = {}
       PROVE  f \in Injection(UNION T, Units(all))
  <2>1. ASSUME NEW x \in UNION T, NEW y \in UNION T, x[2] = y[2] PROVE x = y
    <3>3. x[2][1] \in x[1].events /\ y[2][1] \in y[1].events /\ x[1] \in rows /\ y[1] \in rows
      BY <1>6, <1>7
    <3>4. x[1].events \cap y[1].events # {}
      BY <2>1, <3>3
    <3>1. x[1] = y[1]
      BY <1>10, <3>3, <3>4
    <3> QED
      BY <1>6, <2>1, <3>1
  <2>2. f \in [UNION T -> Units(all)]
    BY <1>9 DEF Surjection
  <2> QED
    BY <2>1, <2>2 DEF Injection, IsInjective
<1>11. /\ Cardinality(Units(all)) <= Cardinality(UNION T)
       /\ (\A r, n \in rows : r # n => r.events \cap n.events = {}) =>
            Cardinality(UNION T) = Cardinality(Units(all))
  BY <1>5, <1>9, <1>10, FS_Surjection
<1>12. Credits(all) \in Nat
  BY <1>3, CreditsNat
<1>13. Cardinality(UNION T) \in Nat
  BY <1>5, FS_CardinalityType
<1> HIDE DEF all
<1> QED
  BY <1>3, <1>11, <1>12, <1>13 DEF Credits, CreditsOfRows, all

--------------------------------------------------------------------------------
\* Periods and blocks of months

BlockOf(i, q) == IF q THEN i \div 3 ELSE i
Length(q)     == IF q THEN 3 ELSE 1

LEMMA BlockIsBlockOf == \A d, i : Block(d, i) = BlockOf(i, Config[d].isQuarterly)
BY DEF Block, BlockOf

LEMMA BlockOfNat ==
  ASSUME NEW i \in Nat, NEW q \in BOOLEAN
  PROVE  BlockOf(i, q) \in Nat
BY DEF BlockOf

LEMMA BlockOfMonotone ==
  ASSUME NEW i \in Nat, NEW j \in Nat, i <= j, NEW q \in BOOLEAN
  PROVE  BlockOf(i, q) <= BlockOf(j, q)
BY DEF BlockOf

LEMMA BlockOfNext ==
  ASSUME NEW i \in Nat, NEW n \in Nat, NEW q \in BOOLEAN
  PROVE  BlockOf(i + n * Length(q), q) = BlockOf(i, q) + n
<1>1. CASE q
  <2>1. (i + n * 3) \div 3 = i \div 3 + n
    OBVIOUS
  <2> QED
    BY <1>1, <2>1 DEF BlockOf, Length
<1>2. CASE ~q
  BY <1>2 DEF BlockOf, Length
<1> QED
  BY <1>1, <1>2

LEMMA DivThree ==
  ASSUME NEW y \in Nat, NEW m \in 0..11
  PROVE  (12 * y + m) \div 3 = 4 * y + m \div 3
OBVIOUS

LEMMA YearAndMonth ==
  ASSUME NEW i \in Nat
  PROVE  /\ i = 12 * (i \div 12) + (i % 12)
         /\ i \div 12 \in Nat /\ i % 12 \in 0..11
         /\ i \div 3 = 4 * (i \div 12) + (i % 12) \div 3
<1>1. i = 12 * (i \div 12) + (i % 12)
  OBVIOUS
<1>3. i \div 12 \in Nat
  OBVIOUS
<1>4. i % 12 \in 0..11
  OBVIOUS
<1>2. (12 * (i \div 12) + (i % 12)) \div 3 = 4 * (i \div 12) + (i % 12) \div 3
  BY <1>3, <1>4, DivThree
<1> QED
  BY <1>1, <1>2, <1>3, <1>4

LEMMA StartFields ==
  ASSUME NEW i \in Nat, NEW q \in BOOLEAN
  PROVE  /\ getPeriodStart(i, q).year = i \div 12
         /\ getPeriodStart(i, q).month \in 1..12
         /\ q => getPeriodStart(i, q).month = ((i % 12) \div 3) * 3 + 1
         /\ ~q => getPeriodStart(i, q).month = (i % 12) + 1
         /\ q => getPeriodStart(i, q).isQuarterly = TRUE
         /\ ~q => getPeriodStart(i, q).isQuarterly = FALSE
BY YearAndMonth DEF getPeriodStart

LEMMA StartPeriod ==
  ASSUME NEW i \in Nat, NEW q \in BOOLEAN
  PROVE  getPeriodStart(i, q) \in Period
BY StartFields DEF getPeriodStart, Period

LEMMA StartBefore ==
  ASSUME NEW i \in Nat, NEW j \in Nat, NEW q \in BOOLEAN
  PROVE  periodIsBefore(getPeriodStart(i, q), getPeriodStart(j, q)) <=> BlockOf(i, q) < BlockOf(j, q)
<1>1. CASE q
  <2>1. periodIsBefore(getPeriodStart(i, q), getPeriodStart(j, q)) <=>
          \/ i \div 12 < j \div 12
          \/ /\ i \div 12 = j \div 12
             /\ ((i % 12) \div 3) * 3 + 1 < ((j % 12) \div 3) * 3 + 1
    BY <1>1, StartFields DEF periodIsBefore
  <2>2. \/ i \div 12 < j \div 12
        \/ /\ i \div 12 = j \div 12
           /\ ((i % 12) \div 3) * 3 + 1 < ((j % 12) \div 3) * 3 + 1
        <=> i \div 3 < j \div 3
    BY YearAndMonth
  <2> QED
    BY <1>1, <2>1, <2>2 DEF BlockOf
<1>2. CASE ~q
  <2>1. periodIsBefore(getPeriodStart(i, q), getPeriodStart(j, q)) <=>
          \/ i \div 12 < j \div 12
          \/ i \div 12 = j \div 12 /\ (i % 12) + 1 < (j % 12) + 1
    BY <1>2, StartFields DEF periodIsBefore
  <2>2. \/ i \div 12 < j \div 12
        \/ i \div 12 = j \div 12 /\ (i % 12) + 1 < (j % 12) + 1
        <=> i < j
    BY YearAndMonth
  <2> QED
    BY <1>2, <2>1, <2>2 DEF BlockOf
<1> QED
  BY <1>1, <1>2

LEMMA StartEqual ==
  ASSUME NEW i \in Nat, NEW j \in Nat, NEW q \in BOOLEAN
  PROVE  getPeriodStart(i, q) = getPeriodStart(j, q) <=> BlockOf(i, q) = BlockOf(j, q)
<1>1. CASE q
  <2>1. getPeriodStart(i, q) = getPeriodStart(j, q) =>
          /\ i \div 12 = j \div 12
          /\ ((i % 12) \div 3) * 3 + 1 = ((j % 12) \div 3) * 3 + 1
    BY <1>1, StartFields
  <2>2. /\ i \div 12 = j \div 12
        /\ ((i % 12) \div 3) * 3 + 1 = ((j % 12) \div 3) * 3 + 1
        <=> i \div 3 = j \div 3
    BY YearAndMonth
  <2> QED
    BY <1>1, <2>1, <2>2 DEF getPeriodStart, BlockOf
<1>2. CASE ~q
  <2>1. getPeriodStart(i, q) = getPeriodStart(j, q) => i \div 12 = j \div 12 /\ (i % 12) + 1 = (j % 12) + 1
    BY <1>2, StartFields
  <2>2. i \div 12 = j \div 12 /\ (i % 12) + 1 = (j % 12) + 1 => i = j
    BY YearAndMonth
  <2> QED
    BY <1>2, <2>1, <2>2 DEF BlockOf
<1> QED
  BY <1>1, <1>2

\* The month in which a top-up is dated is of the block of its period.
LEMMA StartMonth ==
  ASSUME NEW i \in Nat, NEW q \in BOOLEAN
  PROVE  LET p == getPeriodStart(i, q)
             m == p.year * 12 + p.month - 1
         IN  m \in Nat /\ BlockOf(m, q) = BlockOf(i, q)
<1>1. CASE q
  <2> DEFINE m == (i \div 12) * 12 + (((i % 12) \div 3) * 3 + 1) - 1
  <2>1. m \in Nat /\ m \div 3 = i \div 3
    BY YearAndMonth
  <2>2. getPeriodStart(i, q).year * 12 + getPeriodStart(i, q).month - 1 = m
    <3>1. getPeriodStart(i, q).year = i \div 12
      BY StartFields
    <3>2. getPeriodStart(i, q).month = ((i % 12) \div 3) * 3 + 1
      BY <1>1, StartFields
    <3> QED
      BY <3>1, <3>2
  <2> QED
    BY <1>1, <2>1, <2>2 DEF BlockOf
<1>2. CASE ~q
  <2>1. (i \div 12) * 12 + ((i % 12) + 1) - 1 = i
    BY YearAndMonth
  <2> QED
    BY <1>2, <2>1, StartFields DEF BlockOf
<1> QED
  BY <1>1, <1>2

\* A period contains a row's only if the row's is of the same block, and it does so if
\* not a monthly one is asked for the row of a vendor invoiced by the quarter.
LEMMA StartContains ==
  ASSUME NEW i \in Nat, NEW j \in Nat, NEW q \in BOOLEAN, NEW r \in BOOLEAN
  PROVE  /\ periodContains(getPeriodStart(i, q), getPeriodStart(j, r)) => BlockOf(i, q) = BlockOf(j, q)
         /\ BlockOf(i, q) = BlockOf(j, q) /\ (r => q) =>
              periodContains(getPeriodStart(i, q), getPeriodStart(j, r))
<1> DEFINE p == getPeriodStart(i, q)
           s == getPeriodStart(j, r)
<1>1. /\ q => p.isQuarterly = TRUE
      /\ ~q => p.isQuarterly = FALSE
      /\ r => s.isQuarterly = TRUE
      /\ ~r => s.isQuarterly = FALSE
  BY StartFields
<1>2. CASE q = r
  <2>1. periodContains(p, s) <=> p = s
    BY <1>1, <1>2 DEF periodContains
  <2> QED
    BY <1>2, <2>1, StartEqual
<1>3. CASE q /\ ~r
  <2>1. p # s
    BY <1>1, <1>3
  <2>2. periodContains(p, s) <=> p.year = s.year /\ s.month \in p.month..(p.month + 2)
    BY <1>1, <1>3, <2>1 DEF periodContains
  <2>3. /\ p.year = i \div 12 /\ p.month = ((i % 12) \div 3) * 3 + 1
        /\ s.year = j \div 12 /\ s.month = (j % 12) + 1
    BY <1>3, StartFields
  <2>4. /\ i \div 12 = j \div 12
        /\ (j % 12) + 1 \in (((i % 12) \div 3) * 3 + 1)..(((i % 12) \div 3) * 3 + 1 + 2)
        <=> i \div 3 = j \div 3
    BY YearAndMonth
  <2> QED
    BY <1>3, <2>2, <2>3, <2>4 DEF BlockOf
<1>4. CASE ~q /\ r
  BY <1>1, <1>4 DEF periodContains
<1> QED
  BY <1>2, <1>3, <1>4
--------------------------------------------------------------------------------
\* The loop of getActivePeriods

LEMMA StartNext ==
  ASSUME NEW i \in Nat, NEW q \in BOOLEAN
  PROVE  nextPeriod(getPeriodStart(i, q)) = getPeriodStart(i + Length(q), q)
<1> DEFINE y == i \div 12
           m == i % 12
<1>1. y \in Nat /\ m \in 0..11
  BY YearAndMonth
<1>2. CASE q = TRUE
  <2> DEFINE y3 == (i + 3) \div 12
             m3 == (i + 3) % 12
             p == [year |-> y, month |-> (m \div 3) * 3 + 1, isQuarterly |-> TRUE]
  <2>1. getPeriodStart(i, TRUE) = p
    BY DEF getPeriodStart
  <2>2. getPeriodStart(i + 3, TRUE) = [year |-> y3, month |-> (m3 \div 3) * 3 + 1, isQuarterly |-> TRUE]
    BY DEF getPeriodStart
  <2>3. /\ y3 = IF m >= 9 THEN y + 1 ELSE y
        /\ m3 = IF m >= 9 THEN m - 9 ELSE m + 3
    OBVIOUS
  <2> HIDE DEF y, m, y3, m3
  <2>4. nextPeriod(p) =
          [year |-> IF (m \div 3) * 3 + 1 + 3 > 12 THEN y + 1 ELSE y,
           month |-> IF (m \div 3) * 3 + 1 + 3 > 12 THEN (m \div 3) * 3 + 1 + 3 - 12 ELSE (m \div 3) * 3 + 1 + 3,
           isQuarterly |-> TRUE]
    BY <1>1 DEF nextPeriod
  <2>5. m >= 9 <=> (m \div 3) * 3 + 1 + 3 > 12
    BY <1>1
  <2>6. (m3 \div 3) * 3 + 1 = IF m >= 9 THEN (m \div 3) * 3 + 1 + 3 - 12 ELSE (m \div 3) * 3 + 1 + 3
    BY <1>1, <2>3
  <2> QED
    BY <1>2, <2>1, <2>2, <2>3, <2>4, <2>5, <2>6 DEF Length
<1>3. CASE q = FALSE
  <2> DEFINE y1 == (i + 1) \div 12
             m1 == (i + 1) % 12
             p == [year |-> y, month |-> m + 1, isQuarterly |-> FALSE]
  <2>1. getPeriodStart(i, FALSE) = p
    BY DEF getPeriodStart
  <2>2. getPeriodStart(i + 1, FALSE) = [year |-> y1, month |-> m1 + 1, isQuarterly |-> FALSE]
    BY DEF getPeriodStart
  <2>3. /\ y1 = IF m = 11 THEN y + 1 ELSE y
        /\ m1 = IF m = 11 THEN 0 ELSE m + 1
    OBVIOUS
  <2> HIDE DEF y, m, y1, m1
  <2>4. nextPeriod(p) =
          [year |-> IF m + 1 + 1 > 12 THEN y + 1 ELSE y,
           month |-> IF m + 1 + 1 > 12 THEN m + 1 + 1 - 12 ELSE m + 1 + 1,
           isQuarterly |-> FALSE]
    BY <1>1 DEF nextPeriod
  <2>5. m = 11 <=> m + 1 + 1 > 12
    BY <1>1
  <2>6. m1 + 1 = IF m = 11 THEN m + 1 + 1 - 12 ELSE m + 1 + 1
    BY <1>1, <2>3
  <2> QED
    BY <1>3, <2>1, <2>2, <2>3, <2>4, <2>5, <2>6 DEF Length
<1> QED
  BY <1>2, <1>3

LEMMA LeastNat ==
  ASSUME NEW S \in SUBSET Nat, S # {}
  PROVE  \E m \in S : \A k \in S : m <= k
<1>1. PICK m \in S : \A k \in S : ~(<<k, m>> \in OpToRel(<, Nat))
  BY NatLessThanWellFounded, WFMin, Zenon
<1>2. \A k \in S : k \in Nat /\ ~(k < m)
  BY <1>1 DEF OpToRel
<1>3. m \in Nat
  OBVIOUS
<1>4. \A k \in S : m <= k
  BY <1>2, <1>3
<1> QED
  BY <1>4

\* Round n of the loop is at the period n lengths after the start.
LEMMA NthPeriod ==
  ASSUME NEW c, c.start \in Nat, c.isQuarterly \in BOOLEAN, NEW n \in Nat
  PROVE  PeriodsFrom(c)[n] = getPeriodStart(c.start + n * Length(c.isQuarterly), c.isQuarterly)
<1> DEFINE q == c.isQuarterly
           w == [k \in Nat |-> getPeriodStart(c.start + k * Length(q), q)]
           F(g) == [k \in Nat |-> IF k = 0 THEN getPeriodStart(c.start, q) ELSE nextPeriod(g[k - 1])]
<1>1. w = F(w)
  <2>1. ASSUME NEW k \in Nat \ {0} PROVE w[k] = nextPeriod(w[k - 1])
    <3> DEFINE i == c.start + (k - 1) * Length(q)
    <3>1. i \in Nat /\ i + Length(q) = c.start + k * Length(q)
      BY DEF Length
    <3>2. w[k - 1] = getPeriodStart(i, q) /\ w[k] = getPeriodStart(i + Length(q), q)
      BY <3>1
    <3> HIDE DEF i, w, q
    <3>3. q \in BOOLEAN
      BY DEF q
    <3> QED
      BY <3>1, <3>2, <3>3, StartNext
  <2>2. w[0] = getPeriodStart(c.start, q)
    BY DEF Length
  <2> QED
    BY <2>1, <2>2
<1>2. PeriodsFrom(c) = CHOOSE f : f = F(f)
  BY DEF PeriodsFrom
<1> HIDE DEF w
<1>3. PeriodsFrom(c) = F(PeriodsFrom(c))
  BY <1>1, <1>2, Zenon
<1> DEFINE Wrong == {k \in Nat : PeriodsFrom(c)[k] # w[k]}
<1>4. ASSUME Wrong # {} PROVE FALSE
  <2>1. PICK m \in Wrong : \A k \in Wrong : m <= k
    BY <1>4, LeastNat
  <2>2. m # 0
    BY <1>1, <1>3
  <2>3. m - 1 \in Nat /\ m - 1 \notin Wrong
    BY <2>1, <2>2
  <2> QED
    BY <1>1, <1>3, <2>2, <2>3
<1> QED
  BY <1>4 DEF w

LEMMA ConfigTyped ==
  ASSUME NEW d \in Definitions
  PROVE  /\ Config[d].event \in Names /\ Config[d].shortfallEvent \in Names
         /\ Config[d].shortfall \in BOOLEAN /\ Config[d].isQuarterly \in BOOLEAN
         /\ Config[d].quantity \in Nat /\ Config[d].start \in Months /\ Config[d].end \in Nat
BY SyntheticAssumption

LEMMA MonthsAreNat == Months \subseteq Nat
BY SyntheticAssumption DEF Months

\* The loop goes on at a period if its block is neither after the present nor the last one.
LEMMA ContinuesWhileDue ==
  ASSUME NEW d \in Definitions, NEW at \in Months, NEW i \in Nat, Config[d].start <= i
  PROVE  Continues(Config[d], at, getPeriodStart(i, Config[d].isQuarterly)) <=> Block(d, i) \in Due(d, at)
<1> DEFINE c == Config[d]
           q == c.isQuarterly
<1>1. /\ q \in BOOLEAN /\ c.start \in Nat /\ c.end \in Nat /\ at \in Nat /\ c.shortfall \in BOOLEAN
  BY ConfigTyped, MonthsAreNat
<1>2. /\ BlockOf(i, q) \in Nat /\ BlockOf(at, q) \in Nat
      /\ BlockOf(c.start, q) \in Nat /\ BlockOf(c.end, q) \in Nat
      /\ BlockOf(c.start, q) <= BlockOf(i, q)
  BY <1>1, BlockOfNat, BlockOfMonotone
<1>3. Continues(c, at, getPeriodStart(i, q)) <=>
        /\ ~(BlockOf(at, q) < BlockOf(i, q))
        /\ c.shortfall => BlockOf(i, q) # BlockOf(at, q)
        /\ BlockOf(i, q) < BlockOf(c.end, q) \/ BlockOf(i, q) = BlockOf(c.end, q)
  BY <1>1, StartBefore, StartEqual DEF Continues
<1>4. Block(d, i) \in Due(d, at) <=>
        /\ BlockOf(i, q) \in BlockOf(c.start, q)..BlockOf(c.end, q)
        /\ IF c.shortfall THEN BlockOf(i, q) < BlockOf(at, q) ELSE BlockOf(i, q) <= BlockOf(at, q)
  BY BlockIsBlockOf DEF Due
<1> HIDE DEF c, q
<1>5. /\ ~(BlockOf(at, q) < BlockOf(i, q))
      /\ c.shortfall => BlockOf(i, q) # BlockOf(at, q)
      /\ BlockOf(i, q) < BlockOf(c.end, q) \/ BlockOf(i, q) = BlockOf(c.end, q)
      <=> /\ BlockOf(i, q) \in BlockOf(c.start, q)..BlockOf(c.end, q)
          /\ IF c.shortfall THEN BlockOf(i, q) < BlockOf(at, q) ELSE BlockOf(i, q) <= BlockOf(at, q)
  BY <1>1, <1>2
<1>6. Continues(c, at, getPeriodStart(i, q)) <=> Block(d, i) \in Due(d, at)
  BY <1>3, <1>4, <1>5
<1> QED
  BY <1>6 DEF c, q

\* What the loop has pushed are periods that are due ...
LEMMA ActiveIsDue ==
  ASSUME NEW d \in Definitions, NEW at \in Months, NEW p \in ActivePeriods(Config[d], at)
  PROVE  \E i \in Nat : p = getPeriodStart(i, Config[d].isQuarterly) /\ Block(d, i) \in Due(d, at)
<1> DEFINE c == Config[d]
           q == c.isQuarterly
<1>1. q \in BOOLEAN /\ c.start \in Nat
  BY ConfigTyped, MonthsAreNat
<1>2. PICK n \in 0..(LastMonth - FirstMonth + 1) :
        p = PeriodsFrom(c)[n] /\ \A k \in 0..n : Continues(c, at, PeriodsFrom(c)[k])
  BY DEF ActivePeriods
<1> DEFINE i == c.start + n * Length(q)
<1>3. n \in Nat /\ n \in 0..n
  BY <1>2, SyntheticAssumption
<1>4. i \in Nat /\ c.start <= i
  BY <1>1, <1>3 DEF Length
<1>5. p = getPeriodStart(i, q)
  BY <1>1, <1>2, <1>3, NthPeriod
<1>6. Continues(c, at, getPeriodStart(i, q))
  BY <1>2, <1>3, <1>5
<1> HIDE DEF i
<1>7. Block(d, i) \in Due(d, at)
  BY <1>4, <1>6, ContinuesWhileDue
<1> QED
  BY <1>4, <1>5, <1>7

\* ... and it stops at none before it has come to all of them.
LEMMA DueIsActive ==
  ASSUME NEW d \in Definitions, NEW at \in Months, NEW b \in Due(d, at)
  PROVE  \E i \in Nat : /\ getPeriodStart(i, Config[d].isQuarterly) \in ActivePeriods(Config[d], at)
                        /\ Block(d, i) = b
<1> DEFINE c == Config[d]
           q == c.isQuarterly
           s == BlockOf(c.start, q)
           e == BlockOf(c.end, q)
           t == BlockOf(at, q)
           i(n) == c.start + n * Length(q)
<1>1. /\ q \in BOOLEAN /\ c.start \in Nat /\ c.end \in Nat /\ at \in Nat
      /\ c.start \in FirstMonth..LastMonth /\ at \in FirstMonth..LastMonth
      /\ FirstMonth \in Nat /\ LastMonth \in Nat
  BY ConfigTyped, MonthsAreNat, SyntheticAssumption DEF Months
<1>2. s \in Nat /\ e \in Nat /\ t \in Nat
  BY <1>1, BlockOfNat
<1>3. b \in s..e /\ IF c.shortfall THEN b < t ELSE b <= t
  BY BlockIsBlockOf DEF Due
<1>4. t - s <= LastMonth - FirstMonth + 1
  <2>1. CASE q
    BY <1>1, <2>1 DEF BlockOf
  <2>2. CASE ~q
    BY <1>1, <2>2 DEF BlockOf
  <2> QED
    BY <1>1, <2>1, <2>2
<1> DEFINE m == b - s
<1>5. m \in 0..(LastMonth - FirstMonth + 1) /\ b = s + m /\ m \in Nat
  BY <1>1, <1>2, <1>3, <1>4
<1>6. ASSUME NEW k \in 0..m
      PROVE  /\ Continues(c, at, PeriodsFrom(c)[k])
             /\ PeriodsFrom(c)[k] = getPeriodStart(i(k), q)
             /\ i(k) \in Nat /\ Block(d, i(k)) = s + k
  <2>1. k \in Nat /\ k <= m
    BY <1>5
  <2>2. i(k) \in Nat /\ c.start <= i(k)
    BY <1>1, <2>1 DEF Length
  <2>3. PeriodsFrom(c)[k] = getPeriodStart(i(k), q)
    BY <1>1, <2>1, NthPeriod
  <2>4. Block(d, i(k)) = s + k
    BY <1>1, <2>1, BlockOfNext, BlockIsBlockOf
  <2>5. s + k \in s..e /\ IF c.shortfall THEN s + k < t ELSE s + k <= t
    BY <1>2, <1>3, <1>5, <2>1
  <2>6. Block(d, i(k)) \in Due(d, at)
    BY <2>4, <2>5, BlockIsBlockOf DEF Due
  <2> HIDE DEF i
  <2>7. Continues(c, at, getPeriodStart(i(k), q))
    BY <2>2, <2>6, ContinuesWhileDue
  <2> QED
    BY <2>2, <2>3, <2>4, <2>7
<1>7. m \in 0..m
  BY <1>5
<1>8. PeriodsFrom(c)[m] \in ActivePeriods(c, at)
  BY <1>5, <1>6 DEF ActivePeriods
<1> HIDE DEF i
<1> QED
  BY <1>5, <1>6, <1>7, <1>8

LEMMA DueMonotone ==
  ASSUME NEW d \in Definitions, NEW i \in Months, NEW j \in Months, i <= j
  PROVE  Due(d, i) \subseteq Due(d, j)
<1>1. /\ Config[d].isQuarterly \in BOOLEAN /\ i \in Nat /\ j \in Nat
      /\ Config[d].start \in Nat /\ Config[d].end \in Nat
  BY ConfigTyped, MonthsAreNat
<1>2. Block(d, i) \in Nat /\ Block(d, j) \in Nat /\ Block(d, i) <= Block(d, j)
      /\ Block(d, Config[d].start) \in Nat /\ Block(d, Config[d].end) \in Nat
  BY <1>1, BlockIsBlockOf, BlockOfNat, BlockOfMonotone
<1> QED
  BY <1>2 DEF Due
--------------------------------------------------------------------------------
\* What holds between the steps

\* A table has under each name and period only events of it that have really been stored,
\* and an event is in two of its rows only if it is invoiced in both.
Sound(table) ==
  \/ table = NoTable
  \/ /\ IsFiniteSet(table)
     /\ \A row \in table :
          /\ row.period.isQuarterly \in BOOLEAN
          /\ \A x \in row.events : /\ x \in sent \cup genuine /\ x.name = row.name
                                  /\ row.period = getPeriodStart(x.month, row.period.isQuarterly)
     /\ \A r, n \in table :
          r # n /\ r.events \cap n.events # {} => r.unitPrice # NotInvoiced /\ n.unitPrice # NotInvoiced

\* What is or will be sent was made by one of the calls so far, for a period due by then.
Made ==
  /\ \A e \in genuine : e.by = Services
  /\ \A e \in sent \cup outbox : /\ e.by \in Definitions /\ e.name = EmittedName(e.by)
                                 /\ e.id <= call
                                 /\ Block(e.by, e.month) \in Due(e.by, since)

Pending == sent \cup genuine \cup outbox

CountedTwice(d, b) == \E x \in repeated : x[1] = d /\ Block(d, x[2].year * 12 + x[2].month - 1) = b

\* Unless a send has failed, or an event was counted in two rows, the events of the last call
\* will do for all that was due.
Attained ==
  call > 0 /\ ok =>
    \A d \in Definitions : \A b \in Due(d, since) :
      Credits(CountFor(Pending, d, b)) >= Config[d].quantity \/ CountedTwice(d, b)

\* With prompt extracts they are not too many either.
Bounded ==
  prompt /\ WellConfigured =>
    \A d \in Definitions : \A b \in Blocks(d) :
      MadeFor(sent \cup outbox, d, b) # {} => Credits(CountFor(Pending, d, b)) <= Config[d].quantity

IInv == TypeOK /\ Made /\ Sound(query) /\ Sound(extract) /\ Attained /\ Bounded

USE DEF jobVars

LEMMA BlocksTyped ==
  ASSUME NEW d \in Definitions, NEW i \in Nat
  PROVE  Block(d, i) \in Nat
BY ConfigTyped, BlockOfNat, BlockIsBlockOf

LEMMA CountForTyped ==
  ASSUME TypeOK, NEW d, NEW b, NEW S \in SUBSET (sent \cup genuine \cup outbox)
  PROVE  /\ CountFor(S, d, b) \in SUBSET Event /\ IsFiniteSet(CountFor(S, d, b))
         /\ Credits(CountFor(S, d, b)) \in Nat
<1>1. IsFiniteSet(sent \cup genuine \cup outbox) /\ sent \cup genuine \cup outbox \subseteq Event
  BY FS_Union DEF TypeOK
<1>2. CountFor(S, d, b) \in SUBSET (sent \cup genuine \cup outbox)
  BY DEF CountFor
<1>3. IsFiniteSet(CountFor(S, d, b)) /\ CountFor(S, d, b) \in SUBSET Event
  BY <1>1, <1>2, FS_Subset
<1> QED
  BY <1>3, CreditsNat

\* The events of the rows that are counted.
Counted(d, p) == UNION {row.events : row \in CountedRows(d, p)}

\* An extract never makes an event count that was not sent, or not for its period ...
LEMMA CountedSound ==
  ASSUME TypeOK, Sound(extract), extract # NoTable, NEW d \in Definitions, NEW i \in Nat
  PROVE  Counted(d, getPeriodStart(i, Config[d].isQuarterly))
           \subseteq CountFor(sent \cup genuine, d, Block(d, i))
<1> DEFINE q == Config[d].isQuarterly
           p == getPeriodStart(i, q)
<1> SUFFICES ASSUME NEW x \in Counted(d, p)
             PROVE  x \in CountFor(sent \cup genuine, d, Block(d, i))
  OBVIOUS
<1>1. PICK row \in extract : x \in row.events /\ row.name \in CountedNames(d) /\ periodContains(p, row.period)
  BY DEF Counted, CountedRows
<1> DEFINE r == row.period.isQuarterly
<1>2. /\ x \in sent \cup genuine /\ x.name = row.name
      /\ r \in BOOLEAN /\ row.period = getPeriodStart(x.month, r)
  BY <1>1 DEF Sound
<1>3. x.month \in Nat /\ q \in BOOLEAN
  BY <1>2, ConfigTyped DEF TypeOK, Event
<1> HIDE DEF r
<1>4. periodContains(p, getPeriodStart(x.month, r))
  BY <1>1, <1>2
<1>5. BlockOf(i, q) = BlockOf(x.month, q)
  BY <1>2, <1>3, <1>4, StartContains
<1>6. Block(d, x.month) = Block(d, i)
  BY <1>5, BlockIsBlockOf
<1> QED
  BY <1>1, <1>2, <1>6 DEF CountFor

\* ... and one that is up to date misses none.
LEMMA CountedComplete ==
  ASSUME TypeOK, UpToDate, NEW d \in Definitions, NEW i \in Nat,
         Config[d].isQuarterly \/ CountedNames(d) \cap Quarterly = {},
         \A v \in Invoices : v.name \in CountedNames(d) /\ v.period.isQuarterly => Config[d].isQuarterly
  PROVE  CountFor(sent \cup genuine, d, Block(d, i))
           \subseteq Counted(d, getPeriodStart(i, Config[d].isQuarterly))
<1> DEFINE q == Config[d].isQuarterly
           p == getPeriodStart(i, q)
<1> SUFFICES ASSUME NEW x \in CountFor(sent \cup genuine, d, Block(d, i))
             PROVE  x \in Counted(d, p)
  OBVIOUS
<1>1. x \in stored /\ x.name \in CountedNames(d) /\ Block(d, x.month) = Block(d, i)
  BY DEF CountFor, UpToDate, stored
<1>2. x.month \in Nat /\ q \in BOOLEAN
  BY <1>1, ConfigTyped DEF TypeOK, Event, stored
<1>3. BlockOf(i, q) = BlockOf(x.month, q)
  BY <1>1, BlockIsBlockOf
<1>4. ASSUME NEW row \in extract, NEW r \in BOOLEAN, r => q,
             row.period = getPeriodStart(x.month, r), row.name = x.name, x \in row.events
      PROVE  x \in Counted(d, p)
  <2>1. periodContains(p, row.period)
    BY <1>2, <1>3, <1>4, StartContains
  <2> QED
    BY <1>1, <1>4, <2>1 DEF Counted, CountedRows
<1>5. CASE x \in Uninvoiced
  <2> DEFINE r == x.name \in Quarterly
  <2>1. UsageRow(x) \in extract
    BY <1>5 DEF UpToDate, Rows
  <2>2. r \in BOOLEAN /\ (r => q) /\ UsageRow(x).period = getPeriodStart(x.month, r)
    BY <1>1 DEF UsageRow, InvoicedIn
  <2>3. UsageRow(x).name = x.name /\ x \in UsageRow(x).events
    BY <1>5 DEF UsageRow
  <2> HIDE DEF r
  <2> QED
    BY <1>4, <2>1, <2>2, <2>3
<1>6. CASE x \notin Uninvoiced
  <2>1. PICK v \in invoiced : Covers(v, x)
    BY <1>1, <1>6 DEF Uninvoiced
  <2> DEFINE r == v.period.isQuarterly
  <2>2. InvoiceRow(v) \in extract
    BY <2>1 DEF UpToDate, Rows
  <2>3. v \in Invoices /\ v.name = x.name /\ v.period = getPeriodStart(x.month, r)
    BY <2>1 DEF Covers, TypeOK
  <2>4. r \in BOOLEAN /\ (r => q)
    BY <1>1, <2>3, SyntheticAssumption DEF Period
  <2>5. InvoiceRow(v).name = x.name /\ InvoiceRow(v).period = v.period /\ x \in InvoiceRow(v).events
    BY <1>1, <2>1, <2>3 DEF InvoiceRow
  <2> HIDE DEF r
  <2> QED
    BY <1>4, <2>2, <2>3, <2>4, <2>5
<1> QED
  BY <1>5, <1>6

\* What is counted is no less than the credits of these events, and it is no more unless one
\* of them is in two rows.
LEMMA ExtractCredits ==
  ASSUME TypeOK, Sound(extract), extract # NoTable, NEW d \in Definitions, NEW i \in Nat
  PROVE  LET p == getPeriodStart(i, Config[d].isQuarterly)
             counted == Counted(d, p)
         IN
         /\ counted \in SUBSET Event /\ IsFiniteSet(counted) /\ Credits(counted) \in Nat
         /\ CountExisting(d, p) \in Nat /\ Credits(counted) <= CountExisting(d, p)
         /\ p \in ActivePeriods(Config[d], now) \ RepeatedIn(d) => CountExisting(d, p) = Credits(counted)
<1> DEFINE p == getPeriodStart(i, Config[d].isQuarterly)
           rows == CountedRows(d, p)
<1>1. IsFiniteSet(rows)
  BY FS_Subset DEF CountedRows, Sound
<1>2. IsFiniteSet(sent \cup genuine) /\ sent \cup genuine \subseteq Event
  BY FS_Union DEF TypeOK
<1>3. ASSUME NEW row \in rows PROVE row.events \in SUBSET Event /\ IsFiniteSet(row.events)
  <2>1. row.events \in SUBSET (sent \cup genuine)
    BY DEF CountedRows, Sound
  <2> QED
    BY <1>2, <2>1, FS_Subset
<1>4. ASSUME p \in ActivePeriods(Config[d], now) \ RepeatedIn(d), NEW r \in rows, NEW n \in rows, r # n
      PROVE  r.events \cap n.events = {}
  BY <1>4 DEF RepeatedIn, CountedRows, Sound
<1> HIDE DEF rows
<1> QED
  BY <1>1, <1>3, <1>4, RowCredits DEF Counted, CountExisting, rows

LEMMA NameCounts ==
  ASSUME NEW d \in Definitions
  PROVE  EmittedName(d) \in CountedNames(d) /\ EmittedName(d) \in Names
BY ConfigTyped DEF EmittedName, CountedNames

\* What a call sends for a period is what the extract lacks of the quantity.
LEMMA TopUpFields ==
  ASSUME TypeOK, Sound(extract), extract # NoTable, NEW d \in Definitions, NEW p \in MissingIn(d)
  PROVE  /\ TopUp(d, p) \in Event
         /\ TopUp(d, p).by = d /\ TopUp(d, p).id = call + 1 /\ TopUp(d, p).name = EmittedName(d)
         /\ TopUp(d, p).credits = Config[d].quantity - CountExisting(d, p)
         /\ \E i \in Nat : /\ p = getPeriodStart(i, Config[d].isQuarterly)
                           /\ Block(d, TopUp(d, p).month) = Block(d, i)
                           /\ Block(d, i) \in Due(d, now)
<1>1. p \in ActivePeriods(Config[d], now) /\ Config[d].quantity > CountExisting(d, p)
  BY DEF MissingIn
<1>2. now \in Months /\ call \in Nat
  BY SyntheticAssumption DEF TypeOK
<1>3. PICK i \in Nat : p = getPeriodStart(i, Config[d].isQuarterly) /\ Block(d, i) \in Due(d, now)
  BY <1>1, <1>2, ActiveIsDue
<1>4. Config[d].isQuarterly \in BOOLEAN /\ Config[d].quantity \in Nat
  BY ConfigTyped
<1>5. CountExisting(d, p) \in Nat
  BY <1>3, ExtractCredits
<1> DEFINE m == p.year * 12 + p.month - 1
<1>6. m \in Nat /\ BlockOf(m, Config[d].isQuarterly) = BlockOf(i, Config[d].isQuarterly)
  BY <1>3, <1>4, StartMonth
<1>7. Block(d, m) = Block(d, i)
  BY <1>6, BlockIsBlockOf
<1>8. Config[d].quantity - CountExisting(d, p) \in Nat \ {0}
  BY <1>1, <1>4, <1>5
<1> HIDE DEF m
<1>9. TopUp(d, p) = [by |-> d, id |-> call + 1, name |-> EmittedName(d), month |-> m,
                     credits |-> Config[d].quantity - CountExisting(d, p)]
  BY DEF TopUp, m
<1>10. TopUp(d, p) \in Event
  BY <1>2, <1>6, <1>8, <1>9, NameCounts DEF Event
<1> QED
  BY <1>3, <1>7, <1>9, <1>10

LEMMA MissingFinite == ASSUME now \in Months PROVE IsFiniteSet(Missing)
<1>1. ASSUME NEW d \in Definitions
      PROVE  IsFiniteSet({TopUp(d, p) : p \in MissingIn(d)})
  <2> DEFINE R == {m \in 0..(LastMonth - FirstMonth + 1) :
                     \A k \in 0..m : Continues(Config[d], now, PeriodsFrom(Config[d])[k])}
             f == [n \in R |-> PeriodsFrom(Config[d])[n]]
             g == [p \in MissingIn(d) |-> TopUp(d, p)]
  <2>1. IsFiniteSet(0..(LastMonth - FirstMonth + 1))
    BY SyntheticAssumption, FS_Interval
  <2>2. IsFiniteSet(R)
    BY <2>1, FS_Subset
  <2>3. f \in Surjection(R, ActivePeriods(Config[d], now))
    BY DEF Surjection, ActivePeriods
  <2>4. IsFiniteSet(ActivePeriods(Config[d], now))
    BY <2>2, <2>3, FS_Surjection
  <2>5. IsFiniteSet(MissingIn(d))
    BY <2>4, FS_Subset DEF MissingIn
  <2>6. g \in Surjection(MissingIn(d), {TopUp(d, p) : p \in MissingIn(d)})
    BY DEF Surjection
  <2> QED
    BY <2>5, <2>6, FS_Surjection
<1> DEFINE h == [d \in Definitions |-> {TopUp(d, p) : p \in MissingIn(d)}]
           H == {{TopUp(d, p) : p \in MissingIn(d)} : d \in Definitions}
<1>2. h \in Surjection(Definitions, H)
  BY DEF Surjection
<1>3. IsFiniteSet(H)
  BY <1>2, SyntheticAssumption, FS_Surjection
<1>4. \A T \in H : IsFiniteSet(T)
  BY <1>1
<1> QED
  BY <1>3, <1>4, FS_UNION DEF Missing

LEMMA MissingEvents ==
  ASSUME TypeOK, Sound(extract), extract # NoTable, NEW e \in Missing
  PROVE  /\ e \in Event /\ e.by \in Definitions /\ e.id = call + 1 /\ e.name = EmittedName(e.by)
         /\ Block(e.by, e.month) \in Due(e.by, now)
<1>1. PICK d \in Definitions : \E p \in MissingIn(d) : e = TopUp(d, p)
  BY DEF Missing
<1>2. PICK p \in MissingIn(d) : e = TopUp(d, p)
  BY <1>1
<1> QED
  BY <1>2, TopUpFields
--------------------------------------------------------------------------------
\* The steps

LEMMA Start == Init => IInv
<1> SUFFICES ASSUME Init PROVE IInv
  OBVIOUS
<1>1. IsFiniteSet({})
  BY FS_EmptySet
<1>2. FirstMonth \in Months
  BY SyntheticAssumption DEF Months
<1>3. TypeOK
  BY <1>1, <1>2, SyntheticAssumption, MonthsAreNat DEF Init, TypeOK
<1>4. Made /\ Sound(query) /\ Sound(extract) /\ Attained
  BY DEF Init, Made, Sound, Attained
<1>5. Bounded
  BY DEF Init, Bounded, MadeFor
<1> QED
  BY <1>3, <1>4, <1>5 DEF IInv

\* The event that is stored when a service emits one.
LEMMA OccurFields ==
  ASSUME TypeOK, NEW n \in Genuine, NEW i \in Months, Occur(n, i)
  PROVE  \E e \in Event : /\ genuine' = genuine \cup {e}
                          /\ e.by = Services /\ e.name = n /\ e.month = i
                          /\ IsFiniteSet(genuine \cup {e})
<1> DEFINE number == Cardinality({e \in genuine : e.name = n})
           e == [by |-> Services, id |-> number, name |-> n, month |-> i, credits |-> 1]
<1>1. genuine' = genuine \cup {e}
  BY DEF Occur
<1>2. number \in Nat
  BY FS_Subset, FS_CardinalityType DEF TypeOK
<1>3. e \in Event
  BY <1>2, SyntheticAssumption, MonthsAreNat DEF Event
<1>4. IsFiniteSet(genuine \cup {e})
  BY FS_AddElement DEF TypeOK
<1> QED
  BY <1>1, <1>3, <1>4

LEMMA TypeStep == TypeOK /\ Made /\ Sound(extract) /\ [Next]_vars => TypeOK'
<1> SUFFICES ASSUME TypeOK, Made, Sound(extract), [Next]_vars PROVE TypeOK'
  OBVIOUS
<1> USE DEF TypeOK
<1>1. CASE MonthEnds
  <2>1. now \in FirstMonth..LastMonth /\ since \in FirstMonth..LastMonth
    BY DEF Months
  <2>2. now + 1 \in Months /\ since <= now + 1
    BY <1>1, <2>1, SyntheticAssumption DEF MonthEnds, Months
  <2> QED
    BY <1>1, <2>2 DEF MonthEnds
<1>2. ASSUME NEW n \in Genuine, NEW i \in Months, Occur(n, i) PROVE TypeOK'
  <2>1. PICK e \in Event : /\ genuine' = genuine \cup {e} /\ e.by = Services
                           /\ IsFiniteSet(genuine \cup {e})
    BY <1>2, OccurFields
  <2>2. e \notin outbox
    BY <2>1, SyntheticAssumption DEF Made
  <2> QED
    BY <1>2, <2>1, <2>2 DEF Occur
<1>3. ASSUME NEW e \in queued, Store(e) PROVE TypeOK'
  BY <1>3 DEF Store
<1>4. CASE QueryReads \/ PutExtract \/ QueryFails
  BY <1>4 DEF QueryReads, PutExtract, QueryFails
<1>5. CASE Begin
  <2>1. IsFiniteSet(Missing)
    BY MissingFinite
  <2>2. \A e \in Missing : e \in Event /\ e.id = call + 1 /\ e.by \in Definitions
    BY <1>5, MissingEvents DEF Begin
  <2>3. call \in Nat /\ call + 1 \in 0..MaxCalls
    BY <1>5, SyntheticAssumption DEF Begin
  <2>4. \A e \in sent : e.id <= call /\ e.id \in Nat
    BY DEF Made, Event
  <2>5. \A e \in Missing : e \notin sent
    BY <2>2, <2>3, <2>4
  <2>6. \A e \in Missing : e \notin genuine
    BY <2>2, SyntheticAssumption DEF Made
  <2>7. now \in Nat
    BY MonthsAreNat
  <2>8. ASSUME NEW d \in Definitions, NEW p \in ActivePeriods(Config[d], now) PROVE p \in Period
    <3>1. PICK i \in Nat : p = getPeriodStart(i, Config[d].isQuarterly)
      BY ActiveIsDue
    <3>2. Config[d].isQuarterly \in BOOLEAN
      BY ConfigTyped
    <3> QED
      BY <3>1, <3>2, StartPeriod
  <2>9. Repeated \subseteq Definitions \X Period
    BY <2>8 DEF Repeated, RepeatedIn
  <2> QED
    BY <1>5, <2>1, <2>2, <2>3, <2>5, <2>6, <2>7, <2>9 DEF Begin
<1>6. ASSUME NEW e \in outbox, Send(e) \/ SendFails(e) PROVE TypeOK'
  <2>1. IsFiniteSet(sent \cup {e}) /\ IsFiniteSet(outbox \ {e})
    BY FS_AddElement, FS_RemoveElement
  <2> QED
    BY <1>6, <2>1 DEF Send, SendFails
<1>7. CASE UNCHANGED vars
  BY <1>7 DEF vars
<1>8. ASSUME NEW v \in Invoices, Invoice(v) PROVE TypeOK'
  BY <1>8 DEF Invoice
<1>9. ASSUME NEW v \in invoiced, Archive(v) PROVE TypeOK'
  BY <1>9 DEF Archive
<1> QED
  BY <1>1, <1>2, <1>3, <1>4, <1>5, <1>6, <1>7, <1>8, <1>9 DEF Next

LEMMA MadeStep == TypeOK /\ Made /\ Sound(extract) /\ [Next]_vars => Made'
<1> SUFFICES ASSUME TypeOK, Made, Sound(extract), [Next]_vars PROVE Made'
  OBVIOUS
<1> USE DEF Made
<1>1. CASE MonthEnds \/ (\E e \in queued : Store(e)) \/ QueryReads \/ PutExtract \/ QueryFails
           \/ (\E v \in Invoices : Invoice(v)) \/ (\E v \in invoiced : Archive(v)) \/ UNCHANGED vars
  BY <1>1 DEF MonthEnds, Invoice, Archive, Store, QueryReads, PutExtract, QueryFails, vars, Due, Block
<1>2. ASSUME NEW n \in Genuine, NEW i \in Months, Occur(n, i) PROVE Made'
  <2>1. PICK e \in Event : genuine' = genuine \cup {e} /\ e.by = Services
    BY <1>2, OccurFields
  <2> QED
    BY <1>2, <2>1 DEF Occur
<1>3. CASE Begin
  <2>1. \A e \in Missing : /\ e.by \in Definitions /\ e.name = EmittedName(e.by)
                           /\ e.id = call + 1 /\ Block(e.by, e.month) \in Due(e.by, now)
    BY <1>3, MissingEvents DEF Begin
  <2>2. call \in Nat
    BY SyntheticAssumption DEF TypeOK
  <2>3. \A e \in sent : e.id \in Nat
    BY DEF TypeOK, Event
  <2>4. \A d \in Definitions : Due(d, since) \subseteq Due(d, now)
    BY DueMonotone DEF TypeOK
  <2>5. \A e \in sent : e.id <= call + 1
    BY <2>2, <2>3
  <2>6. /\ outbox' = Missing /\ call' = call + 1 /\ since' = now
        /\ UNCHANGED <<genuine, sent>>
    BY <1>3 DEF Begin
  <2> QED
    BY <2>1, <2>2, <2>4, <2>5, <2>6
<1>4. ASSUME NEW e \in outbox, Send(e) \/ SendFails(e) PROVE Made'
  BY <1>4 DEF Send, SendFails
<1> QED
  BY <1>1, <1>2, <1>3, <1>4 DEF Next

\* An event that is invoiced is in the rows of its invoices only, one that is not in one row.
LEMMA RowsSound == TypeOK => Sound(Rows)
<1> SUFFICES ASSUME TypeOK PROVE Sound(Rows)
  OBVIOUS
<1> DEFINE I == {InvoiceRow(v) : v \in invoiced}
           U == {UsageRow(e) : e \in Uninvoiced}
           f == [v \in invoiced |-> InvoiceRow(v)]
           g == [e \in Uninvoiced |-> UsageRow(e)]
<1>1. stored \subseteq sent \cup genuine /\ Uninvoiced \subseteq stored /\ invoiced \subseteq Invoices
  BY DEF stored, Uninvoiced, TypeOK
<1>2. IsFiniteSet(invoiced) /\ IsFiniteSet(Uninvoiced)
  <2>1. IsFiniteSet(sent \cup genuine)
    BY FS_Union DEF TypeOK
  <2>2. Uninvoiced \subseteq sent \cup genuine
    BY <1>1
  <2> QED
    BY <1>1, <2>1, <2>2, FS_Subset, SyntheticAssumption
<1>3. f \in Surjection(invoiced, I) /\ g \in Surjection(Uninvoiced, U)
  BY DEF Surjection
<1>4. IsFiniteSet(Rows)
  <2>1. IsFiniteSet(I) /\ IsFiniteSet(U)
    BY <1>2, <1>3, FS_Surjection
  <2> QED
    BY <2>1, FS_Union DEF Rows
<1>5. ASSUME NEW v \in invoiced
      PROVE  /\ InvoiceRow(v).period.isQuarterly \in BOOLEAN /\ InvoiceRow(v).unitPrice # NotInvoiced
             /\ \A x \in InvoiceRow(v).events :
                  /\ x \in sent \cup genuine /\ x \notin Uninvoiced /\ x.name = InvoiceRow(v).name
                  /\ InvoiceRow(v).period = getPeriodStart(x.month, InvoiceRow(v).period.isQuarterly)
  <2>1. v.period.isQuarterly \in BOOLEAN /\ v.unitPrice # NotInvoiced
    BY <1>1, SyntheticAssumption DEF Period
  <2> QED
    BY <1>1, <2>1 DEF InvoiceRow, Covers, Uninvoiced
<1>6. ASSUME NEW e \in Uninvoiced
      PROVE  /\ UsageRow(e).period.isQuarterly \in BOOLEAN
             /\ \A x \in UsageRow(e).events :
                  /\ x \in sent \cup genuine /\ x \in Uninvoiced /\ x.name = UsageRow(e).name
                  /\ UsageRow(e).period = getPeriodStart(x.month, UsageRow(e).period.isQuarterly)
                  /\ UsageRow(e) = UsageRow(x)
  <2>1. UsageRow(e).period.isQuarterly = (e.name \in Quarterly)
    BY DEF UsageRow, InvoicedIn, getPeriodStart
  <2>2. ASSUME NEW x \in UsageRow(e).events
        PROVE  x \in Uninvoiced /\ x.name = e.name /\ InvoicedIn(x) = InvoicedIn(e)
    BY DEF UsageRow
  <2>3. ASSUME NEW x \in UsageRow(e).events
        PROVE  UsageRow(e).period = getPeriodStart(x.month, UsageRow(e).period.isQuarterly)
    <3>1. UsageRow(e).period = getPeriodStart(x.month, x.name \in Quarterly)
      BY <2>2 DEF UsageRow, InvoicedIn
    <3>2. UsageRow(e).period.isQuarterly = (x.name \in Quarterly)
      BY <2>1, <2>2
    <3> QED
      BY <3>1, <3>2
  <2>4. UsageRow(e).name = e.name
    BY DEF UsageRow
  <2>5. ASSUME NEW x \in UsageRow(e).events PROVE UsageRow(e) = UsageRow(x)
    BY <2>2 DEF UsageRow
  <2> QED
    BY <1>1, <2>1, <2>2, <2>3, <2>4, <2>5
<1>7. ASSUME NEW r \in Rows, NEW n \in Rows, r # n, r.events \cap n.events # {}
      PROVE  r.unitPrice # NotInvoiced
  <2>1. PICK x \in r.events : x \in n.events
    BY <1>7
  <2>2. CASE r \in I
    BY <1>5, <2>2
  <2>3. CASE r \in U
    <3>1. x \in Uninvoiced /\ r = UsageRow(x)
      BY <1>6, <2>1, <2>3
    <3>2. n \notin I
      BY <1>5, <2>1, <3>1
    <3>3. n \in U
      BY <3>2 DEF Rows
    <3>4. n = UsageRow(x)
      BY <1>6, <2>1, <3>3
    <3> QED
      BY <1>7, <3>1, <3>4
  <2> QED
    BY <2>2, <2>3 DEF Rows
<1>8. ASSUME NEW row \in Rows
      PROVE  /\ row.period.isQuarterly \in BOOLEAN
             /\ \A x \in row.events : /\ x \in sent \cup genuine /\ x.name = row.name
                                     /\ row.period = getPeriodStart(x.month, row.period.isQuarterly)
  BY <1>5, <1>6 DEF Rows
<1> QED
  BY <1>4, <1>7, <1>8 DEF Sound

\* The query reads what is stored, a part of what it has read is put, and nothing that
\* was sent or emitted ever is undone.
LEMMA SoundStep ==
  Sound(query) /\ Sound(extract) /\ TypeOK /\ [Next]_vars => Sound(query)' /\ Sound(extract)'
<1> SUFFICES ASSUME Sound(query), Sound(extract), TypeOK, [Next]_vars
             PROVE  Sound(query)' /\ Sound(extract)'
  OBVIOUS
<1> USE DEF Sound
<1>1. sent \subseteq sent' /\ genuine \subseteq genuine'
  BY DEF Next, vars, MonthEnds, Occur, Invoice, Archive, Store,
         QueryReads, PutExtract, QueryFails, Begin, Send, SendFails
<1>3. CASE QueryReads
  BY <1>3, RowsSound DEF QueryReads
<1>4. CASE PutExtract
  <2>1. query # NoTable /\ extract' \subseteq query /\ query' = NoTable /\ UNCHANGED <<sent, genuine>>
    BY <1>4 DEF PutExtract
  <2>2. IsFiniteSet(extract')
    BY <2>1, FS_Subset
  <2> QED
    BY <2>1, <2>2
<1>5. CASE QueryFails
  BY <1>5 DEF QueryFails
<1>6. CASE UNCHANGED <<query, extract>>
  BY <1>1, <1>6
<1>7. CASE ~(QueryReads \/ PutExtract \/ QueryFails)
  BY <1>6, <1>7 DEF Next, vars, MonthEnds, Occur, Invoice, Archive, Store, Begin, Send, SendFails
<1> QED
  BY <1>3, <1>4, <1>5, <1>7

\* A due period is topped up to its quantity, or already has it, and events never go.
LEMMA AttainedStep ==
  TypeOK /\ TypeOK' /\ Made /\ Sound(extract) /\ Attained /\ [Next]_vars => Attained'
<1> SUFFICES ASSUME TypeOK, TypeOK', Made, Sound(extract), Attained, [Next]_vars,
                    call' > 0, ok', NEW d \in Definitions, NEW b \in Due(d, since)'
             PROVE  Credits(CountFor(Pending', d, b)) >= Config[d].quantity \/ CountedTwice(d, b)'
  BY DEF Attained, CountFor, CountedNames, Block, Credits, Units, CountedTwice
<1>1. CASE Begin
  <2>1. extract # NoTable /\ outbox = {} /\ outbox' = Missing /\ since' = now /\ UNCHANGED <<sent, genuine>>
    BY <1>1 DEF Begin
  <2>2. b \in Due(d, now) /\ now \in Months
    BY <2>1 DEF Due, Block, TypeOK
  <2> DEFINE q == Config[d].isQuarterly
  <2>3. PICK i \in Nat : getPeriodStart(i, q) \in ActivePeriods(Config[d], now) /\ Block(d, i) = b
    BY <2>2, DueIsActive
  <2> DEFINE p == getPeriodStart(i, q)
             counted == Counted(d, p)
             old == CountFor(sent \cup genuine, d, b)
             new == CountFor(Pending', d, b)
  <2>4. /\ counted \in SUBSET Event /\ IsFiniteSet(counted) /\ Credits(counted) \in Nat
        /\ counted \subseteq old
    BY <2>1, <2>3, ExtractCredits, CountedSound
  <2>12. /\ CountExisting(d, p) \in Nat
         /\ p \notin RepeatedIn(d) => CountExisting(d, p) = Credits(counted)
    BY <2>1, <2>3, ExtractCredits
  <2>13. CASE p \in RepeatedIn(d)
    <3>1. <<d, p>> \in repeated'
      BY <1>1, <2>13 DEF Begin, Repeated
    <3>2. BlockOf(p.year * 12 + p.month - 1, q) = BlockOf(i, q)
      BY ConfigTyped, StartMonth
    <3>3. Block(d, p.year * 12 + p.month - 1) = b
      BY <2>3, <3>2, BlockIsBlockOf
    <3> HIDE DEF p
    <3>4. CountedTwice(d, b)'
      BY <3>1, <3>3 DEF CountedTwice, Block
    <3> QED
      BY <3>4
  <2>5. Pending' = sent \cup genuine \cup Missing
    BY <2>1 DEF Pending
  <2>6. old \subseteq new
    BY <2>5 DEF CountFor
  <2>7. IsFiniteSet(Pending') /\ Pending' \in SUBSET Event
    BY FS_Union DEF TypeOK, Pending
  <2>8. IsFiniteSet(new) /\ new \in SUBSET Event /\ Credits(new) \in Nat
    BY <2>7, FS_Subset, CreditsNat DEF CountFor
  <2>9. Config[d].quantity \in Nat
    BY ConfigTyped
  <2>10. CASE p \notin RepeatedIn(d) /\ p \in MissingIn(d)
    <3> DEFINE e == TopUp(d, p)
    <3>1. /\ e \in Event /\ e.by = d /\ e.id = call + 1 /\ e.name = EmittedName(d)
          /\ e.credits = Config[d].quantity - Credits(counted)
      BY <2>1, <2>10, <2>12, TopUpFields
    <3>2. \E j \in Nat : p = getPeriodStart(j, q) /\ Block(d, e.month) = Block(d, j)
      BY <2>1, <2>10, TopUpFields
    <3>3. Block(d, e.month) = b
      BY <2>3, <3>2, StartEqual, ConfigTyped, BlockIsBlockOf
    <3>4. e \in Missing
      BY <2>10 DEF Missing
    <3>5. e \in new
      BY <2>5, <3>1, <3>3, <3>4, NameCounts DEF CountFor
    <3>6. e \notin counted
      <4>1. e \notin sent
        BY <3>1, SyntheticAssumption DEF Made, TypeOK
      <4>2. e \notin genuine
        BY <3>1, SyntheticAssumption DEF Made
      <4> QED
        BY <2>4, <4>1, <4>2 DEF CountFor
    <3> HIDE DEF e, counted, new, old
    <3>7. Credits(counted \cup {e}) = Config[d].quantity
      BY <2>4, <2>9, <3>1, <3>6, CreditsAdd
    <3>8. counted \cup {e} \in SUBSET new
      BY <2>4, <2>6, <3>5
    <3>9. Credits(counted \cup {e}) <= Credits(new)
      BY <2>8, <3>8, CreditsMonotone
    <3>10. Credits(new) >= Config[d].quantity
      BY <2>8, <2>9, <3>7, <3>9
    <3> QED
      BY <3>10 DEF new
  <2>11. CASE p \notin RepeatedIn(d) /\ p \notin MissingIn(d)
    <3>1. Credits(counted) >= Config[d].quantity
      BY <2>3, <2>4, <2>9, <2>11, <2>12 DEF MissingIn
    <3> HIDE DEF counted, new, old
    <3>2. counted \in SUBSET new
      BY <2>4, <2>6
    <3>3. Credits(counted) <= Credits(new)
      BY <2>8, <3>2, CreditsMonotone
    <3>4. Credits(new) >= Config[d].quantity
      BY <2>4, <2>8, <2>9, <3>1, <3>3
    <3> QED
      BY <3>4 DEF new
  <2> QED
    BY <2>10, <2>11, <2>13
<1>2. CASE ~Begin
  <2>1. UNCHANGED <<call, since, repeated>> /\ ok
    BY <1>2 DEF Next, vars, MonthEnds, Occur, Invoice, Archive, Store,
         QueryReads, PutExtract, QueryFails, Send, SendFails
  <2>2. Pending \subseteq Pending'
    BY <1>2, <2>1 DEF Next, vars, MonthEnds, Occur, Invoice, Archive, Store,
         QueryReads, PutExtract, QueryFails, Send,
                 SendFails, Pending
  <2>3. b \in Due(d, since)
    BY <2>1 DEF Due, Block
  <2>11. CountedTwice(d, b)' <=> CountedTwice(d, b)
    BY <2>1 DEF CountedTwice, Block
  <2>4. SUFFICES ASSUME ~CountedTwice(d, b) PROVE Credits(CountFor(Pending', d, b)) >= Config[d].quantity
    BY <2>11
  <2>12. Credits(CountFor(Pending, d, b)) >= Config[d].quantity
    BY <2>1, <2>3, <2>4 DEF Attained
  <2>5. IsFiniteSet(Pending') /\ Pending' \in SUBSET Event
    BY FS_Union DEF TypeOK, Pending
  <2> DEFINE old == CountFor(Pending, d, b)
             new == CountFor(Pending', d, b)
  <2>6. IsFiniteSet(new) /\ new \in SUBSET Event /\ old \in SUBSET new
    BY <2>2, <2>5, FS_Subset DEF CountFor
  <2>7. IsFiniteSet(old) /\ old \in SUBSET Event
    BY <2>6, FS_Subset
  <2>8. Config[d].quantity \in Nat
    BY ConfigTyped
  <2> HIDE DEF old, new
  <2>9. Credits(old) <= Credits(new) /\ Credits(old) \in Nat /\ Credits(new) \in Nat
    BY <2>6, <2>7, CreditsMonotone, CreditsNat
  <2>10. Credits(new) >= Config[d].quantity
    BY <2>8, <2>9, <2>12 DEF old
  <2> QED
    BY <2>10 DEF new
<1> QED
  BY <1>1, <1>2

\* With an extract that is up to date, one event tops a period up to the quantity, no other
\* definition adds to it, and no genuine event comes for it after that.
LEMMA BoundedStep ==
  TypeOK /\ Made /\ Sound(extract) /\ Bounded /\ [Next]_vars => Bounded'
<1> SUFFICES ASSUME TypeOK, Made, Sound(extract), Bounded, [Next]_vars, prompt, WellConfigured,
                    NEW d \in Definitions, NEW b \in Blocks(d), MadeFor((sent \cup outbox)', d, b) # {}
             PROVE  Credits(CountFor(Pending', d, b)) <= Config[d].quantity
  BY DEF Next, vars, MonthEnds, Occur, Invoice, Archive, Store,
         QueryReads, PutExtract, QueryFails, Begin, Send,
         SendFails, Bounded, WellConfigured, EmittedName, CountedNames, Blocks, Block, MadeFor,
         CountFor, Credits, Units
<1> DEFINE c == Config[d]
           q == c.isQuarterly
<1>1. /\ c.shortfall \in BOOLEAN /\ q \in BOOLEAN /\ c.quantity \in Nat
      /\ c.shortfall \/ c.event \notin Genuine
      /\ \A x \in Definitions \ {d} : EmittedName(x) \notin CountedNames(d)
      /\ q \/ CountedNames(d) \cap Quarterly = {}
      /\ \A v \in Invoices : v.name \in CountedNames(d) /\ v.period.isQuarterly => q
  BY ConfigTyped DEF WellConfigured
<1>2. MadeFor(sent \cup outbox, d, b) # {} => Credits(CountFor(Pending, d, b)) <= c.quantity
  BY DEF Bounded
<1> HIDE DEF c, q
<1>3. CASE Begin
  <2>1. /\ extract # NoTable /\ outbox = {} /\ outbox' = Missing /\ UpToDate
        /\ UNCHANGED <<sent, genuine>>
    BY <1>3 DEF Begin
  <2> DEFINE old == CountFor(sent \cup genuine, d, b)
  <2>2. old = CountFor(Pending, d, b)
    BY <2>1 DEF Pending
  <2>3. /\ CountFor(Pending', d, b) = old \cup CountFor(Missing, d, b)
        /\ MadeFor((sent \cup outbox)', d, b) = MadeFor(sent, d, b) \cup MadeFor(Missing, d, b)
    BY <2>1 DEF Pending, CountFor, MadeFor
  <2>4. MadeFor(Missing, d, b) \subseteq CountFor(Missing, d, b)
    BY <2>1, MissingEvents, NameCounts DEF MadeFor, CountFor
  <2>5. CASE CountFor(Missing, d, b) = {}
    <3>1. MadeFor(sent \cup outbox, d, b) # {}
      BY <2>1, <2>3, <2>4, <2>5 DEF MadeFor
    <3> QED
      BY <1>2, <2>2, <2>3, <2>5, <3>1 DEF c
  <2>6. CASE CountFor(Missing, d, b) # {}
    <3>1. PICK e \in Missing : e \in CountFor(Missing, d, b)
      BY <2>6 DEF CountFor
    <3>2. ASSUME NEW x \in CountFor(Missing, d, b)
          PROVE  \E p \in MissingIn(d) : \E i \in Nat :
                   x = TopUp(d, p) /\ p = getPeriodStart(i, q) /\ Block(d, i) = b
      <4>1. x \in Missing /\ x.name \in CountedNames(d) /\ Block(d, x.month) = b
        BY DEF CountFor
      <4>2. x.by = d
        BY <1>1, <2>1, <4>1, MissingEvents
      <4>3. PICK f \in Definitions : \E p \in MissingIn(f) : x = TopUp(f, p)
        BY <4>1 DEF Missing
      <4>4. PICK p \in MissingIn(f) : x = TopUp(f, p)
        BY <4>3
      <4>5. f = d
        BY <2>1, <4>2, <4>4, TopUpFields
      <4>6. \E i \in Nat : p = getPeriodStart(i, q) /\ Block(d, x.month) = Block(d, i)
        BY <2>1, <4>4, <4>5, TopUpFields DEF q, c
      <4> QED
        BY <4>1, <4>4, <4>5, <4>6
    <3>3. PICK p \in MissingIn(d) : \E i \in Nat :
            e = TopUp(d, p) /\ p = getPeriodStart(i, q) /\ Block(d, i) = b
      BY <3>1, <3>2
    <3>4. PICK i \in Nat : e = TopUp(d, p) /\ p = getPeriodStart(i, q) /\ Block(d, i) = b
      BY <3>3
    <3>5. ASSUME NEW x \in CountFor(Missing, d, b) PROVE x = e
      <4>1. PICK r \in MissingIn(d) : \E j \in Nat :
              x = TopUp(d, r) /\ r = getPeriodStart(j, q) /\ Block(d, j) = b
        BY <3>2
      <4>2. PICK j \in Nat : x = TopUp(d, r) /\ r = getPeriodStart(j, q) /\ Block(d, j) = b
        BY <4>1
      <4>3. BlockOf(i, q) = BlockOf(j, q)
        BY <3>4, <4>2, BlockIsBlockOf DEF q, c
      <4>4. p = r
        BY <1>1, <3>4, <4>2, <4>3, StartEqual
      <4> QED
        BY <3>4, <4>2, <4>4
    <3>6. CountFor(Pending', d, b) = old \cup {e}
      BY <2>3, <3>1, <3>5
    <3>7. old = Counted(d, p)
      <4>1. old \subseteq Counted(d, p)
        BY <1>1, <2>1, <3>4, CountedComplete DEF q, c
      <4>2. Counted(d, p) \subseteq old
        BY <2>1, <3>4, CountedSound DEF q, c
      <4> QED
        BY <4>1, <4>2
    <3>8. /\ e \in Event /\ e.by = d /\ e.id = call + 1
          /\ e.credits = c.quantity - CountExisting(d, p)
          /\ CountExisting(d, p) \in Nat /\ Credits(old) <= CountExisting(d, p)
      BY <2>1, <3>4, <3>7, TopUpFields, ExtractCredits DEF c, q
    <3>9. e \notin old
      <4>1. e \notin sent
        BY <3>8, SyntheticAssumption DEF Made, TypeOK
      <4>2. e \notin genuine
        BY <3>8, SyntheticAssumption DEF Made
      <4> QED
        BY <4>1, <4>2 DEF CountFor
    <3>10. old \in SUBSET Event /\ IsFiniteSet(old) /\ Credits(old) \in Nat
      BY CountForTyped
    <3> HIDE DEF old
    <3>11. Credits(old \cup {e}) <= c.quantity
      BY <1>1, <3>8, <3>9, <3>10, CreditsAdd
    <3> QED
      BY <1>1, <3>6, <3>11 DEF c
  <2> QED
    BY <2>5, <2>6
<1>4. ASSUME NEW n \in Genuine, NEW i \in Months, Occur(n, i)
      PROVE  Credits(CountFor(Pending', d, b)) <= c.quantity
  <2>1. PICK e \in Event : /\ genuine' = genuine \cup {e}
                           /\ e.by = Services /\ e.name = n /\ e.month = i
                           /\ IsFiniteSet(genuine \cup {e})
    <3>1. TypeOK /\ Occur(n, i)
      BY <1>4
    <3> QED
      BY ONLY <3>1, OccurFields
  <2>2. i = now /\ UNCHANGED <<sent, outbox>>
    BY <1>4 DEF Occur
  <2>3. PICK x \in sent \cup outbox : x.by = d /\ Block(d, x.month) = b
    BY <2>2 DEF MadeFor
  <2>4. b \in Due(d, since)
    BY <2>3 DEF Made
  <2>5. b \in Due(d, now)
    BY <2>4, DueMonotone DEF TypeOK
  <2>6. e \notin CountFor({e}, d, b)
    <3>1. CASE c.shortfall
      <4>1. now \in Nat
        BY MonthsAreNat DEF TypeOK
      <4>2. b < Block(d, now)
        BY <2>5, <3>1 DEF Due, c
      <4>3. Block(d, now) \in Nat
        BY <4>1, BlocksTyped
      <4> QED
        BY <2>1, <2>2, <4>2, <4>3 DEF CountFor
    <3>2. CASE ~c.shortfall
      BY <1>1, <2>1, <3>2 DEF CountFor, CountedNames, c
    <3> QED
      BY <3>1, <3>2
  <2>7. CountFor(Pending', d, b) = CountFor(Pending, d, b)
    BY <2>1, <2>2, <2>6 DEF CountFor, Pending
  <2>8. MadeFor(sent \cup outbox, d, b) # {}
    BY <2>2
  <2> QED
    BY <1>2, <2>7, <2>8
<1>5. CASE ~(Begin \/ \E n \in Genuine, i \in Months : Occur(n, i))
  <2>1. /\ (sent \cup outbox)' \subseteq sent \cup outbox
        /\ Pending' \subseteq Pending
    BY <1>5 DEF Next, vars, MonthEnds, Invoice, Archive, Store,
         QueryReads, PutExtract, QueryFails, Send, SendFails,
                Pending
  <2>2. MadeFor(sent \cup outbox, d, b) # {}
    BY <2>1 DEF MadeFor
  <2>3. Credits(CountFor(Pending, d, b)) <= c.quantity
    BY <1>2, <2>2
  <2> DEFINE old == CountFor(Pending, d, b)
             new == CountFor(Pending', d, b)
  <2>4. /\ old \in SUBSET Event /\ IsFiniteSet(old)
        /\ new \in SUBSET Event /\ IsFiniteSet(new)
    BY <2>1, CountForTyped DEF Pending
  <2>5. new \in SUBSET old
    BY <2>1 DEF CountFor
  <2> HIDE DEF old, new
  <2>6. Credits(new) <= Credits(old) /\ Credits(old) \in Nat /\ Credits(new) \in Nat
    BY <2>4, <2>5, CreditsMonotone, CreditsNat
  <2>7. Credits(new) <= c.quantity
    BY <1>1, <2>3, <2>6 DEF old
  <2> QED
    BY <2>7 DEF new, c
<1> QED
  BY <1>3, <1>4, <1>5 DEF c

LEMMA Inductive == Spec => []IInv
<1>1. IInv /\ [Next]_vars => IInv'
  BY ONLY TypeStep, MadeStep, SoundStep, AttainedStep, BoundedStep DEF IInv
<1> QED
  BY <1>1, Start, PTL DEF Spec

--------------------------------------------------------------------------------
\* Every variable keeps its type; in particular whatever is sent has credits, and no event
\* is sent twice.
THEOREM Typed == Spec => []TypeOK
<1> QED
  BY Inductive, PTL DEF IInv

\* Whatever the configuration and however stale or cut off the extract, a call that has sent
\* everything leaves no period short that was due, unless an event of it was in two rows of the
\* extract, both invoiced: at two unit prices, or by the month and by the quarter.
THEOREM SentSuffices == Spec => []NoneShort
<1>1. IInv => NoneShort
  BY DEF IInv, Attained, NoneShort, Pending, CountedTwice
<1> QED
  BY <1>1, Inductive, PTL

\* The loop of getActivePeriods, with its quarters, turns of the year and end dates, lets an
\* event through only for a block of months between start and end that has begun or, for
\* shortfall events, that is over.
THEOREM SentWhenDue == Spec => []OnlyWhenDue
<1>1. IInv => OnlyWhenDue
  BY DueMonotone DEF IInv, TypeOK, Made, OnlyWhenDue
<1> QED
  BY <1>1, Inductive, PTL

\* The idempotence the comment of businessLogic promises holds if every call has an extract
\* that is up to date: for any number of definitions, calls and rejected sends.
THEOREM PromptIsIdempotent == Spec => []IdempotentIfPrompt
<1>1. IInv => IdempotentIfPrompt
  <2> SUFFICES ASSUME IInv, prompt, WellConfigured, NEW d \in Definitions, NEW b \in Blocks(d),
                      MadeFor(sent, d, b) # {}
               PROVE  Credits(CountFor(sent \cup genuine, d, b)) <= Config[d].quantity
    BY DEF IdempotentIfPrompt, Idempotent
  <2> DEFINE part == CountFor(sent \cup genuine, d, b)
             all  == CountFor(Pending, d, b)
  <2>1. Credits(all) <= Config[d].quantity
    BY DEF IInv, Bounded, MadeFor
  <2>2. /\ all \in SUBSET Event /\ IsFiniteSet(all) /\ Credits(all) \in Nat
        /\ Credits(part) \in Nat
    BY CountForTyped DEF IInv, Pending
  <2>3. part \in SUBSET all
    BY DEF CountFor, Pending
  <2>4. Config[d].quantity \in Nat
    BY ConfigTyped
  <2> HIDE DEF part, all
  <2>5. Credits(part) <= Config[d].quantity
    BY <2>1, <2>2, <2>3, <2>4, CreditsMonotone
  <2> QED
    BY <2>5 DEF part
<1> QED
  BY <1>1, Inductive, PTL
===============================================================================
