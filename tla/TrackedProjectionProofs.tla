------------------------ MODULE TrackedProjectionProofs ------------------------
(***************************************************************************)
(* Proofs about the association of TrackManager, for a table of any size,  *)
(* and about TrackedProjection, for any configurations, classes, frames    *)
(* and periods.                                                            *)
(***************************************************************************)
EXTENDS TrackedProjection, PureFunctions, FiniteSetTheorems, WellFoundedInduction, TLAPS

---------------------------------------------------------------------------
(* Induction over the numbers. *)

\* What holds of 0, and of n + 1 if of n, holds of every number: the least that
\* it did not hold of would have one before it.
LEMMA Induction ==
  ASSUME NEW X, 0 \in X, \A n \in Nat : n \in X => n + 1 \in X
  PROVE  Nat \subseteq X
<1> DEFINE Y == Nat \ X
           R == OpToRel(<, Nat)
<1> SUFFICES ASSUME Y # {} PROVE FALSE
  OBVIOUS
<1>1. PICK n \in Y : \A m \in Y : ~(<<m, n>> \in R)
  <2>1. IsWellFoundedOn(R, Nat) /\ Y \in SUBSET Nat
    BY NatLessThanWellFounded
  <2> HIDE DEF R, Y
  <2> QED BY <2>1, WFMin
<1>2. \A m \in Y : ~(m < n)
  BY <1>1 DEF OpToRel
<1> HIDE DEF R
<1>3. n \in Nat /\ n # 0 /\ n \notin X
  OBVIOUS
<1>4. n - 1 \in Nat /\ n - 1 < n /\ (n - 1) + 1 = n
  BY <1>3
<1>5. n - 1 \in X
  BY <1>2, <1>4
<1> QED BY <1>3, <1>4, <1>5

\* A set of numbers has a least one.
LEMMA Least ==
  ASSUME NEW s, s \subseteq Nat, s # {}
  PROVE  \E n \in s : \A m \in s : n <= m
<1> DEFINE R == OpToRel(<, Nat)
<1>1. PICK n \in s : \A m \in s : ~(<<m, n>> \in R)
  <2>1. IsWellFoundedOn(R, Nat) /\ s \in SUBSET Nat
    BY NatLessThanWellFounded
  <2> HIDE DEF R
  <2> QED BY <2>1, WFMin
<1>2. \A m \in s : ~(m < n)
  BY <1>1 DEF OpToRel
<1> QED BY <1>2

\* There are n numbers from 1 to n, and one more from 0.
LEMMA Count ==
  ASSUME NEW n \in Nat
  PROVE  /\ IsFiniteSet(1..n) /\ Cardinality(1..n) = n
         /\ IsFiniteSet(0..n) /\ Cardinality(0..n) = n + 1
<1>1. 0 \in Int /\ 1 \in Int /\ n \in Int
  OBVIOUS
<1>2. IsFiniteSet(1..n) /\ Cardinality(1..n) = IF 1 > n THEN 0 ELSE n - 1 + 1
  BY <1>1, FS_Interval, Zenon
<1>3. IsFiniteSet(0..n) /\ Cardinality(0..n) = IF 0 > n THEN 0 ELSE n - 0 + 1
  BY <1>1, FS_Interval, Zenon
<1> QED BY <1>2, <1>3

---------------------------------------------------------------------------
(* The search for a column. *)

\* n rows and m columns.
IsTable(cost, n, m) ==
  n \in Nat \ {0} /\ m \in Nat /\ n <= m /\ cost \in [1..n -> [1..m -> Nat]]

States(n, m) ==
  [p : [0..m -> 0..n], used : SUBSET (0..m), at : 0..m, way : [1..m -> 0..m],
   minv : UNION {[columns -> Nat] : columns \in SUBSET (1..m)},
   u : [0..n -> Int], v : [0..m -> Int]]
Typed(s, n, m) == s \in States(n, m)

\* What a cell costs more than the potentials of its row and column.
Gap(cost, s, r, j) == cost[r][j] - s.u[r] - s.v[j]

\* The potentials of the first i rows are below the costs.
Priced(cost, s, i, n, m) ==
  /\ \A r \in 1..i, j \in 1..m : Gap(cost, s, r, j) >= 0
  /\ \A r \in (i + 1)..n : s.u[r] = 0
  /\ \A j \in 1..m : s.v[j] <= 0

\* Each of the first i rows has one of the columns to itself.
Covers(p, columns, i) ==
  /\ \A j \in columns : p[j] \in 0..i
  /\ \A r \in 1..i : \E j \in columns : p[j] = r
  /\ \A j, k \in columns : p[j] = p[k] /\ p[j] # 0 => j = k

\* The row of a column costs no more than the potentials; a column without a row
\* has none.
Settled(cost, s, columns) ==
  \A j \in columns : IF s.p[j] = 0 THEN s.v[j] = 0 ELSE Gap(cost, s, s.p[j], j) = 0

\* The columns reached are a tree with column 0 as its root, rank says how deep.
Tree(cost, s, m, rank) ==
  /\ s.used \subseteq 0..m /\ s.at \in (0..m) \ s.used
  /\ \A j \in s.used : s.p[j] # 0
  /\ s.used = {} => s.at = 0 /\ DOMAIN s.minv = {}
  /\ s.used # {} => 0 \in s.used /\ DOMAIN s.minv = (1..m) \ s.used /\ s.minv[s.at] = 0
  /\ \A j \in DOMAIN s.minv :
        /\ s.way[j] \in s.used /\ s.minv[j] = Gap(cost, s, s.p[s.way[j]], j)
        /\ \A k \in s.used : s.minv[j] <= Gap(cost, s, s.p[k], j)
  /\ \A j \in s.used \ {0} : s.way[j] \in s.used /\ Gap(cost, s, s.p[s.way[j]], j) = 0
  /\ rank \in [0..m -> Nat]
  /\ \A j \in s.used \union {s.at} : rank[j] <= Cardinality(s.used)
  /\ \A j \in (s.used \union {s.at}) \ {0} : rank[s.way[j]] < rank[j]

\* Row i looks for a column, the rows before it have theirs.
Searching(cost, s, i, n, m) ==
  /\ Typed(s, n, m) /\ Priced(cost, s, i, n, m)
  /\ Covers(s.p, 0..m, i) /\ s.p[0] = i /\ Settled(cost, s, 1..m)
  /\ \E rank : Tree(cost, s, m, rank)

\* The first i rows have their columns.
Placed(cost, s, i, n, m) ==
  /\ Typed(s, n, m) /\ Priced(cost, s, i, n, m)
  /\ Covers(s.p, 1..m, i) /\ Settled(cost, s, 1..m)

LEMMA MinFacts ==
  ASSUME NEW s, s \subseteq Nat, s # {}
  PROVE  Min(s) \in s /\ \A y \in s : Min(s) <= y
<1>1. \E x \in s : \A y \in s : x <= y
  BY Least
<1> QED BY <1>1 DEF Min

\* There are more columns than rows that have one.
LEMMA FreeColumn ==
  ASSUME NEW i \in Nat, NEW m \in Nat, i <= m, NEW p, Covers(p, 0..m, i)
  PROVE  \E j \in 0..m : p[j] = 0
<1> SUFFICES ASSUME \A j \in 0..m : p[j] # 0 PROVE FALSE
  OBVIOUS
<1> DEFINE f == [j \in 0..m |-> p[j]]
<1>1. f \in [0..m -> 1..i]
  BY DEF Covers
<1>2. /\ IsFiniteSet(0..m) /\ Cardinality(0..m) = m + 1
      /\ IsFiniteSet(1..i) /\ Cardinality(1..i) = i
  BY Count
<1>3. \E j, k \in 0..m : j # k /\ f[j] = f[k]
  <2> HIDE DEF f
  <2>1. Cardinality(1..i) < Cardinality(0..m)
    BY <1>2
  <2> QED BY <1>1, <1>2, <2>1, FS_PigeonHole
<1> QED BY <1>3 DEF Covers

\* What a step makes of s: columns used so far and delta, the least slack.
Opened(cost, s, n, m, t, delta) ==
  LET used == s.used \union {s.at}
  IN  /\ t.p = s.p /\ t.used = used /\ t.at \in (1..m) \ used
      /\ t.way \in [1..m -> 0..m] /\ \A j \in used \ {0} : t.way[j] = s.way[j]
      /\ t.minv \in [(1..m) \ used -> Nat] /\ t.minv[t.at] = 0
      /\ \A j \in (1..m) \ used :
            /\ t.way[j] \in used /\ t.minv[j] + delta = Gap(cost, s, s.p[t.way[j]], j)
            /\ \A k \in used : t.minv[j] + delta <= Gap(cost, s, s.p[k], j)
      /\ t.u = [r \in 0..n |-> IF \E j \in used : s.p[j] = r THEN s.u[r] + delta ELSE s.u[r]]
      /\ t.v = [j \in 0..m |-> IF j \in used THEN s.v[j] - delta ELSE s.v[j]]
      /\ t = [p |-> t.p, used |-> t.used, at |-> t.at, way |-> t.way, minv |-> t.minv,
              u |-> t.u, v |-> t.v]

LEMMA TableFacts ==
  ASSUME NEW cost, NEW n, NEW m, IsTable(cost, n, m)
  PROVE  /\ n \in Nat \ {0} /\ m \in Nat \ {0} /\ n <= m
         /\ Rows(cost) = 1..n /\ Columns(cost) = 1..m
         /\ \A r \in 1..n, j \in 1..m : cost[r][j] \in Nat
BY DEF IsTable, Rows, Columns

LEMMA GapIsInt ==
  ASSUME NEW cost, NEW n, NEW m, IsTable(cost, n, m), NEW s, Typed(s, n, m),
         NEW r \in 1..n, NEW j \in 1..m
  PROVE  Gap(cost, s, r, j) \in Int
<1>1. cost[r][j] \in Nat /\ r \in 0..n /\ j \in 0..m
  BY TableFacts
<1>2. s.u[r] \in Int /\ s.v[j] \in Int
  BY <1>1 DEF Typed, States
<1> QED BY <1>1, <1>2 DEF Gap

LEMMA StepOpens ==
  ASSUME NEW cost, NEW n, NEW m, IsTable(cost, n, m), NEW i \in 1..n,
         NEW s, Searching(cost, s, i, n, m), s.p[s.at] # 0
  PROVE  \E delta \in Nat : Opened(cost, s, n, m, Step(cost, s), delta)
<1> PICK rank : Tree(cost, s, m, rank)
  BY DEF Searching
<1> DEFINE i0 == s.p[s.at]
           used == s.used \union {s.at}
           free == (1..m) \ used
           Slack(j) == cost[i0][j] - s.u[i0] - s.v[j]
           closer == {j \in free : j \in DOMAIN s.minv => Slack(j) < s.minv[j]}
           minv == [j \in free |-> IF j \in closer THEN Slack(j) ELSE s.minv[j]]
           delta == Min({minv[j] : j \in free})
           at == Min({j \in free : minv[j] = delta})
           way == [j \in 1..m |-> IF j \in closer THEN s.at ELSE s.way[j]]
<1>1. /\ n \in Nat \ {0} /\ m \in Nat \ {0} /\ n <= m /\ i \in Nat
      /\ Columns(cost) = 1..m /\ Typed(s, n, m)
  BY TableFacts DEF Searching
<1>2. /\ s.p \in [0..m -> 0..i] /\ s.way \in [1..m -> 0..m]
      /\ DOMAIN s.u = 0..n /\ DOMAIN s.v = 0..m
  BY <1>1 DEF Searching, Typed, States, Covers
<1>3. /\ s.used \subseteq 0..m /\ s.at \in (0..m) \ s.used
      /\ used \subseteq 0..m /\ 0 \in used /\ \A j \in used : s.p[j] \in 1..i
  <2>1. /\ s.used \subseteq 0..m /\ s.at \in (0..m) \ s.used
        /\ \A j \in s.used : s.p[j] # 0
        /\ s.used = {} => s.at = 0
        /\ s.used # {} => 0 \in s.used
    BY DEF Tree
  <2>2. \A j \in used : j \in 0..m /\ s.p[j] # 0
    BY <2>1
  <2>3. \A j \in used : s.p[j] \in 1..i
    <3> SUFFICES ASSUME NEW j \in used PROVE s.p[j] \in 1..i
      OBVIOUS
    <3>1. s.p[j] \in 0..i
      BY <1>2, <2>2
    <3> QED BY <1>1, <2>2, <3>1
  <2> QED BY <1>1, <2>1, <2>2, <2>3
<1>4. \A k \in used, j \in free : Gap(cost, s, s.p[k], j) \in Nat
  <2> SUFFICES ASSUME NEW k \in used, NEW j \in free PROVE Gap(cost, s, s.p[k], j) \in Nat
    OBVIOUS
  <2>1. s.p[k] \in 1..i /\ s.p[k] \in 1..n /\ j \in 1..m
    BY <1>1, <1>3
  <2>2. Gap(cost, s, s.p[k], j) \in Int
    BY <1>1, <2>1, GapIsInt
  <2>3. Gap(cost, s, s.p[k], j) >= 0
    BY <2>1 DEF Searching, Priced
  <2> QED BY <2>2, <2>3
<1>5. \A j \in free : Slack(j) = Gap(cost, s, s.p[s.at], j) /\ Slack(j) \in Nat
  BY <1>4 DEF Gap
<1>6. free # {}
  <2>1. PICK j \in 0..m : s.p[j] = 0
    BY <1>1, FreeColumn DEF Searching
  <2> QED BY <1>3, <2>1
<1>7. \A j \in free \ closer :
         /\ j \in DOMAIN s.minv /\ s.way[j] \in s.used
         /\ s.minv[j] = Gap(cost, s, s.p[s.way[j]], j) /\ s.minv[j] <= Slack(j)
         /\ \A k \in s.used : s.minv[j] <= Gap(cost, s, s.p[k], j)
  <2> SUFFICES ASSUME NEW j \in free, j \notin closer
               PROVE  /\ j \in DOMAIN s.minv /\ s.way[j] \in s.used
                      /\ s.minv[j] = Gap(cost, s, s.p[s.way[j]], j) /\ s.minv[j] <= Slack(j)
                      /\ \A k \in s.used : s.minv[j] <= Gap(cost, s, s.p[k], j)
    OBVIOUS
  <2>1. j \in DOMAIN s.minv /\ ~(Slack(j) < s.minv[j])
    OBVIOUS
  <2>2. /\ s.way[j] \in s.used /\ s.minv[j] = Gap(cost, s, s.p[s.way[j]], j)
        /\ \A k \in s.used : s.minv[j] <= Gap(cost, s, s.p[k], j)
    BY <2>1 DEF Tree
  <2>3. s.minv[j] \in Nat
    BY <1>4, <2>2
  <2>4. Slack(j) \in Nat
    BY <1>5
  <2> HIDE DEF Slack, closer
  <2>5. s.minv[j] <= Slack(j)
    BY <2>1, <2>3, <2>4
  <2> QED BY <2>1, <2>2, <2>5
<1>8. \A j \in free :
         /\ minv[j] \in Nat
         /\ way[j] \in used /\ minv[j] = Gap(cost, s, s.p[way[j]], j)
         /\ \A k \in used : minv[j] <= Gap(cost, s, s.p[k], j)
  <2> SUFFICES ASSUME NEW j \in free
               PROVE  /\ minv[j] \in Nat
                      /\ way[j] \in used /\ minv[j] = Gap(cost, s, s.p[way[j]], j)
                      /\ \A k \in used : minv[j] <= Gap(cost, s, s.p[k], j)
    OBVIOUS
  <2>1. CASE j \notin closer
    <3>1. minv[j] = s.minv[j] /\ way[j] = s.way[j]
      BY <2>1
    <3> HIDE DEF minv, way, closer
    <3>2. s.way[j] \in used
      BY <1>7, <2>1
    <3> HIDE DEF free
    <3>3. \A k \in used : s.minv[j] <= Gap(cost, s, s.p[k], j)
      BY <1>5, <1>7, <2>1
    <3> QED BY <1>4, <1>7, <2>1, <3>1, <3>2, <3>3
  <2>2. CASE j \in closer
    <3>1. minv[j] = Slack(j) /\ way[j] = s.at
      BY <2>2
    <3>2. ASSUME NEW k \in s.used PROVE Slack(j) <= Gap(cost, s, s.p[k], j)
      <4>1. j \in DOMAIN s.minv
        <5>1. s.used # {} => DOMAIN s.minv = (1..m) \ s.used
          BY DEF Tree
        <5>2. j \in (1..m) \ s.used
          BY <1>3
        <5> QED BY <3>2, <5>1, <5>2
      <4>2. Slack(j) < s.minv[j]
        BY <2>2, <4>1
      <4>3. /\ s.minv[j] <= Gap(cost, s, s.p[k], j) /\ s.way[j] \in s.used
            /\ s.minv[j] = Gap(cost, s, s.p[s.way[j]], j)
        BY <4>1 DEF Tree
      <4>4. Gap(cost, s, s.p[k], j) \in Nat /\ s.minv[j] \in Nat
        BY <1>4, <4>3
      <4>5. Slack(j) \in Nat
        BY <1>5
      <4> HIDE DEF Slack
      <4> QED BY <4>2, <4>3, <4>4, <4>5
    <3>3. \A k \in used : Slack(j) <= Gap(cost, s, s.p[k], j)
      <4> SUFFICES ASSUME NEW k \in used PROVE Slack(j) <= Gap(cost, s, s.p[k], j)
        OBVIOUS
      <4>1. CASE k \in s.used
        BY <3>2, <4>1
      <4>2. CASE k = s.at
        <5>1. Slack(j) = Gap(cost, s, s.p[k], j) /\ Slack(j) \in Nat
          BY <1>5, <4>2
        <5> HIDE DEF Slack
        <5> QED BY <5>1
      <4> QED BY <4>1, <4>2
    <3> HIDE DEF minv, way, Slack, closer
    <3> QED BY <1>5, <3>1, <3>3
  <2> QED BY <2>1, <2>2
<1>9. way \in [1..m -> 0..m] /\ \A j \in used \ {0} : way[j] = s.way[j]
  <2>1. \A j \in 1..m : way[j] = IF j \in closer THEN s.at ELSE s.way[j]
    OBVIOUS
  <2>2. \A j \in 1..m : s.way[j] \in 0..m
    BY <1>2
  <2>3. \A j \in used \ {0} : j \in 1..m /\ j \notin closer
    BY <1>1, <1>3
  <2> HIDE DEF closer
  <2>4. way \in [1..m -> 0..m]
    BY <1>3, <2>2
  <2> HIDE DEF way
  <2> QED BY <2>1, <2>3, <2>4
<1>10. /\ delta \in Nat /\ at \in free /\ minv[at] = delta
       /\ \A j \in free : delta <= minv[j]
  <2> DEFINE all == {minv[j] : j \in free}
             least == {j \in free : minv[j] = delta}
  <2>1. all \subseteq Nat /\ all # {}
    BY <1>6, <1>8
  <2> HIDE DEF minv, free
  <2>2. Min(all) \in all /\ \A y \in all : Min(all) <= y
    <3> HIDE DEF all
    <3> QED BY <2>1, MinFacts
  <2>3. delta \in Nat /\ (\E j \in free : minv[j] = delta) /\ \A j \in free : delta <= minv[j]
    BY <2>1, <2>2
  <2> HIDE DEF delta, all
  <2>4. least \subseteq Nat /\ least # {}
    <3>1. free \subseteq Nat
      BY <1>1 DEF free
    <3> QED BY <2>3, <3>1
  <2>5. Min(least) \in least
    <3> HIDE DEF least
    <3> QED BY <2>4, MinFacts
  <2> QED BY <2>3, <2>5
<1>11. Step(cost, s) =
         [p |-> s.p, used |-> used, at |-> at, way |-> way,
          minv |-> [j \in free |-> minv[j] - delta],
          u |-> [r \in 0..n |-> IF \E j \in used : s.p[j] = r THEN s.u[r] + delta ELSE s.u[r]],
          v |-> [j \in 0..m |-> IF j \in used THEN s.v[j] - delta ELSE s.v[j]]]
  <2>1. Columns(cost) = 1..m /\ DOMAIN s.u = 0..n /\ DOMAIN s.v = 0..m
    BY <1>1, <1>2
  <2> QED BY <2>1 DEF Step
<1> HIDE DEF minv, delta, at, way, closer, Slack
<1>12. \A j \in free : minv[j] - delta \in Nat /\ (minv[j] - delta) + delta = minv[j]
  BY <1>8, <1>10
<1>13. minv[at] - delta = 0
  BY <1>10
<1> DEFINE t == Step(cost, s)
<1>14. /\ t.p = s.p /\ t.used = used /\ t.at = at /\ t.way = way
       /\ t.minv = [j \in free |-> minv[j] - delta]
       /\ t.u = [r \in 0..n |-> IF \E j \in used : s.p[j] = r THEN s.u[r] + delta ELSE s.u[r]]
       /\ t.v = [j \in 0..m |-> IF j \in used THEN s.v[j] - delta ELSE s.v[j]]
       /\ t = [p |-> t.p, used |-> t.used, at |-> t.at, way |-> t.way, minv |-> t.minv,
               u |-> t.u, v |-> t.v]
  BY <1>11
<1> HIDE DEF t
<1>15. Opened(cost, s, n, m, t, delta)
  <2>1. /\ DOMAIN t.minv = free /\ t.minv[t.at] = 0
        /\ \A j \in free : t.minv[j] = minv[j] - delta
    BY <1>10, <1>13, <1>14
  <2>4. t.minv \in [free -> Nat]
    BY <1>12, <1>14
  <2> HIDE DEF free
  <2>2. \A j \in free :
          /\ t.minv[j] \in Nat
          /\ t.way[j] \in used /\ t.minv[j] + delta = Gap(cost, s, s.p[t.way[j]], j)
          /\ \A k \in used : t.minv[j] + delta <= Gap(cost, s, s.p[k], j)
    BY <1>8, <1>12, <1>14, <2>1
  <2>3. t.way \in [1..m -> 0..m] /\ \A j \in used \ {0} : t.way[j] = s.way[j]
    BY <1>9, <1>14
  <2> USE DEF free
  <2> QED BY <1>10, <1>14, <2>1, <2>2, <2>3, <2>4, Zenon DEF Opened
<1> QED BY <1>10, <1>15 DEF t

\* How a step changes what a cell costs more than its potentials.
LEMMA GapMoves ==
  ASSUME NEW cost, NEW n, NEW m, IsTable(cost, n, m), NEW s, Typed(s, n, m),
         NEW t, NEW delta \in Nat, Opened(cost, s, n, m, t, delta),
         NEW r \in 1..n, NEW j \in 1..m
  PROVE  Gap(cost, t, r, j) =
           IF \E k \in t.used : s.p[k] = r
           THEN IF j \in t.used THEN Gap(cost, s, r, j) ELSE Gap(cost, s, r, j) - delta
           ELSE IF j \in t.used THEN Gap(cost, s, r, j) + delta ELSE Gap(cost, s, r, j)
<1>1. r \in 0..n /\ j \in 0..m /\ cost[r][j] \in Nat
  BY TableFacts
<1>2. s.u[r] \in Int /\ s.v[j] \in Int
  BY <1>1 DEF Typed, States
<1>3. t.u[r] = IF \E k \in t.used : s.p[k] = r THEN s.u[r] + delta ELSE s.u[r]
  BY <1>1 DEF Opened
<1>4. t.v[j] = IF j \in t.used THEN s.v[j] - delta ELSE s.v[j]
  BY <1>1 DEF Opened
<1> QED BY <1>1, <1>2, <1>3, <1>4 DEF Gap

\* A step of the search keeps the potentials below the costs, the rows on cells
\* that cost as much as them, and the tree; it uses one more column.
LEMMA StepSearches ==
  ASSUME NEW cost, NEW n, NEW m, IsTable(cost, n, m), NEW i \in 1..n,
         NEW s, Searching(cost, s, i, n, m), s.p[s.at] # 0
  PROVE  /\ Searching(cost, Step(cost, s), i, n, m)
         /\ Cardinality(Step(cost, s).used) = Cardinality(s.used) + 1
<1> DEFINE t == Step(cost, s)
<1> PICK delta \in Nat : Opened(cost, s, n, m, t, delta)
  BY StepOpens
<1> HIDE DEF t
<1> PICK rank : Tree(cost, s, m, rank)
  BY DEF Searching
<1> DEFINE In(r) == \E k \in t.used : s.p[k] = r
<1>1. n \in Nat \ {0} /\ m \in Nat \ {0} /\ n <= m /\ i \in Nat /\ Typed(s, n, m)
  BY TableFacts DEF Searching
<1>2. /\ t.p = s.p /\ t.used = s.used \union {s.at} /\ t.at \in (1..m) \ t.used
      /\ t.way \in [1..m -> 0..m] /\ \A j \in t.used \ {0} : t.way[j] = s.way[j]
      /\ t.minv \in [(1..m) \ t.used -> Nat] /\ t.minv[t.at] = 0
  BY DEF Opened
<1>3. \A j \in (1..m) \ t.used :
        /\ t.minv[j] \in Nat
        /\ t.way[j] \in t.used /\ t.minv[j] + delta = Gap(cost, s, s.p[t.way[j]], j)
        /\ \A k \in t.used : t.minv[j] + delta <= Gap(cost, s, s.p[k], j)
  BY <1>2 DEF Opened
<1>4. /\ s.p \in [0..m -> 0..n] /\ s.p \in [0..m -> 0..i] /\ s.p[0] = i
      /\ \A r \in 1..i : \E j \in 0..m : s.p[j] = r
      /\ \A j, k \in 0..m : s.p[j] = s.p[k] /\ s.p[j] # 0 => j = k
  BY <1>1 DEF Searching, Covers, Typed, States
<1>5. /\ s.used \subseteq 0..m /\ s.at \in (0..m) \ s.used
      /\ \A j \in s.used : s.p[j] # 0
      /\ s.used = {} => s.at = 0
      /\ s.used # {} => 0 \in s.used
  BY DEF Tree
<1>6. t.used \subseteq 0..m /\ 0 \in t.used /\ \A j \in t.used : s.p[j] \in 1..i
  <2>1. \A j \in t.used : j \in 0..m /\ s.p[j] # 0
    BY <1>2, <1>5
  <2>2. \A j \in t.used : s.p[j] \in 1..i
    <3> SUFFICES ASSUME NEW j \in t.used PROVE s.p[j] \in 1..i
      OBVIOUS
    <3>1. s.p[j] \in 0..i
      BY <1>4, <2>1
    <3> QED BY <1>1, <2>1, <3>1
  <2> QED BY <1>2, <1>5, <2>1, <2>2
<1>7. \A r \in 1..n, j \in 1..m :
         Gap(cost, t, r, j) =
           IF In(r)
           THEN IF j \in t.used THEN Gap(cost, s, r, j) ELSE Gap(cost, s, r, j) - delta
           ELSE IF j \in t.used THEN Gap(cost, s, r, j) + delta ELSE Gap(cost, s, r, j)
  BY <1>1, GapMoves
<1> HIDE DEF In
<1>8. \A r \in 1..n, j \in 1..m : Gap(cost, s, r, j) \in Int
  BY <1>1, GapIsInt
<1>9. \A k \in t.used : In(s.p[k])
  BY DEF In
<1>10. Typed(t, n, m)
  <2>1. t.u = [r \in 0..n |-> IF In(r) THEN s.u[r] + delta ELSE s.u[r]]
    BY DEF In, Opened
  <2>2. t.v = [j \in 0..m |-> IF j \in t.used THEN s.v[j] - delta ELSE s.v[j]]
    BY DEF Opened
  <2>3. s.u \in [0..n -> Int] /\ s.v \in [0..m -> Int]
    BY <1>1 DEF Typed, States
  <2>4. t.u \in [0..n -> Int]
    <3>1. ASSUME NEW r \in 0..n PROVE s.u[r] \in Int /\ s.u[r] + delta \in Int
      <4>1. s.u[r] \in Int
        BY <2>3
      <4> QED BY <4>1
    <3> QED BY <2>1, <3>1
  <2>5. t.v \in [0..m -> Int]
    <3>1. ASSUME NEW j \in 0..m PROVE s.v[j] \in Int /\ s.v[j] - delta \in Int
      <4>1. s.v[j] \in Int
        BY <2>3
      <4> QED BY <4>1
    <3> QED BY <2>2, <3>1
  <2>6. t.minv \in UNION {[columns -> Nat] : columns \in SUBSET (1..m)}
    <3>1. t.minv \in [(1..m) \ t.used -> Nat] /\ ((1..m) \ t.used) \in SUBSET (1..m)
      BY <1>2, <1>3
    <3> QED BY <3>1
  <2>7. /\ t.p \in [0..m -> 0..n] /\ t.used \in SUBSET (0..m) /\ t.at \in 0..m
        /\ t.way \in [1..m -> 0..m]
    <3>1. \A j \in 1..m : j \in 0..m
      BY <1>1
    <3> QED BY <1>2, <1>4, <1>6, <3>1
  <2>8. t = [p |-> t.p, used |-> t.used, at |-> t.at, way |-> t.way, minv |-> t.minv,
             u |-> t.u, v |-> t.v]
    BY DEF Opened
  <2> QED BY <2>4, <2>5, <2>6, <2>7, <2>8 DEF Typed, States
<1>11. Priced(cost, t, i, n, m)
  <2>1. ASSUME NEW r \in 1..i, NEW j \in 1..m PROVE Gap(cost, t, r, j) >= 0
    <3>1. r \in 1..n /\ Gap(cost, s, r, j) \in Int /\ Gap(cost, s, r, j) >= 0
      <4>1. r \in 1..n
        BY <1>1
      <4> QED BY <1>8, <4>1 DEF Searching, Priced
    <3>2. CASE In(r) /\ j \notin t.used
      <4>1. PICK k \in t.used : s.p[k] = r
        BY <3>2 DEF In
      <4>2. t.minv[j] \in Nat /\ t.minv[j] + delta <= Gap(cost, s, r, j)
        BY <1>3, <3>2, <4>1
      <4>3. Gap(cost, t, r, j) = Gap(cost, s, r, j) - delta
        BY <1>7, <3>1, <3>2
      <4> QED BY <3>1, <4>2, <4>3
    <3>3. CASE ~(In(r) /\ j \notin t.used)
      <4>1. Gap(cost, t, r, j) \in {Gap(cost, s, r, j), Gap(cost, s, r, j) + delta}
        BY <1>7, <3>1, <3>3
      <4> QED BY <3>1, <4>1
    <3> QED BY <3>2, <3>3
  <2>2. ASSUME NEW r \in (i + 1)..n PROVE t.u[r] = 0
    <3>1. r \in 0..n /\ r \notin 1..i /\ s.u[r] = 0
      BY <1>1 DEF Searching, Priced
    <3>2. \A k \in t.used : s.p[k] # r
      BY <1>6, <3>1
    <3> QED BY <3>1, <3>2 DEF Opened
  <2>3. ASSUME NEW j \in 1..m PROVE t.v[j] <= 0
    <3>1. j \in 0..m /\ s.v[j] \in Int /\ s.v[j] <= 0
      <4>1. s.v \in [0..m -> Int] /\ Priced(cost, s, i, n, m)
        BY <1>1 DEF Searching, Typed, States
      <4> QED BY <1>1, <4>1 DEF Priced
    <3>2. t.v[j] \in {s.v[j], s.v[j] - delta}
      BY <3>1 DEF Opened
    <3> QED BY <3>1, <3>2
  <2> QED BY <2>1, <2>2, <2>3 DEF Priced
<1>12. Settled(cost, t, 1..m)
  <2> SUFFICES ASSUME NEW j \in 1..m
               PROVE  IF s.p[j] = 0 THEN t.v[j] = 0 ELSE Gap(cost, t, s.p[j], j) = 0
    BY <1>2 DEF Settled
  <2>1. j \in 0..m /\ IF s.p[j] = 0 THEN s.v[j] = 0 ELSE Gap(cost, s, s.p[j], j) = 0
    BY <1>1 DEF Searching, Settled
  <2>2. CASE s.p[j] = 0
    <3>1. j \notin t.used
      BY <1>6, <2>2
    <3> QED BY <2>1, <2>2, <3>1 DEF Opened
  <2>3. CASE s.p[j] # 0
    <3>1. s.p[j] \in 1..n
      <4>1. s.p[j] \in 0..n
        BY <1>4, <2>1
      <4> QED BY <1>1, <2>3, <4>1
    <3>2. In(s.p[j]) <=> j \in t.used
      BY <1>4, <1>6, <2>1, <2>3 DEF In
    <3> QED BY <1>7, <2>1, <2>3, <3>1, <3>2
  <2> QED BY <2>2, <2>3
<1>13. IsFiniteSet(s.used) /\ IsFiniteSet(t.used) /\ Cardinality(t.used) = Cardinality(s.used) + 1
       /\ Cardinality(s.used) \in Nat
  <2>1. IsFiniteSet(0..m)
    BY <1>1, Count
  <2>2. IsFiniteSet(s.used)
    BY <1>5, <2>1, FS_Subset
  <2>3. IsFiniteSet(t.used) /\ Cardinality(t.used) = Cardinality(s.used) + 1
    <3>1. s.at \notin s.used
      BY <1>5
    <3>2. t.used = s.used \union {s.at}
      BY <1>2
    <3>3. /\ IsFiniteSet(s.used \union {s.at})
          /\ Cardinality(s.used \union {s.at}) = Cardinality(s.used) + 1
      BY <2>2, <3>1, FS_AddElement, Zenon
    <3> QED BY <3>2, <3>3
  <2> QED BY <2>2, <2>3, FS_CardinalityType
<1> DEFINE deeper == [rank EXCEPT ![t.at] = Cardinality(t.used)]
<1>14. Tree(cost, t, m, deeper)
  <2>1. /\ t.used \subseteq 0..m /\ t.at \in (0..m) \ t.used
        /\ \A j \in t.used : t.p[j] # 0
        /\ t.used # {} /\ 0 \in t.used /\ DOMAIN t.minv = (1..m) \ t.used /\ t.minv[t.at] = 0
    BY <1>1, <1>2, <1>6
  <2>2. ASSUME NEW j \in DOMAIN t.minv
        PROVE  /\ t.way[j] \in t.used /\ t.minv[j] = Gap(cost, t, t.p[t.way[j]], j)
               /\ \A k \in t.used : t.minv[j] <= Gap(cost, t, t.p[k], j)
    <3>1. /\ j \in (1..m) \ t.used /\ t.minv[j] \in Nat
          /\ t.way[j] \in t.used /\ t.minv[j] + delta = Gap(cost, s, s.p[t.way[j]], j)
          /\ \A k \in t.used : t.minv[j] + delta <= Gap(cost, s, s.p[k], j)
      BY <1>2, <1>3
    <3>2. \A k \in t.used : Gap(cost, t, t.p[k], j) = Gap(cost, s, s.p[k], j) - delta
                            /\ Gap(cost, s, s.p[k], j) \in Int
      <4> SUFFICES ASSUME NEW k \in t.used
                   PROVE  Gap(cost, t, t.p[k], j) = Gap(cost, s, s.p[k], j) - delta
                          /\ Gap(cost, s, s.p[k], j) \in Int
        OBVIOUS
      <4>1. s.p[k] \in 1..n /\ t.p[k] = s.p[k] /\ In(s.p[k])
        <5>1. In(s.p[k])
          BY <1>9
        <5>2. t.p = s.p
          BY <1>2
        <5> HIDE DEF In
        <5>3. s.p[k] \in 1..i
          BY <1>6
        <5>4. s.p[k] \in 1..n
          BY <1>1, <5>3
        <5> QED BY <5>1, <5>2, <5>4
      <4> QED BY <1>7, <1>8, <3>1, <4>1
    <3>3. t.minv[j] = Gap(cost, t, t.p[t.way[j]], j)
      BY <3>1, <3>2
    <3>4. ASSUME NEW k \in t.used PROVE t.minv[j] <= Gap(cost, t, t.p[k], j)
      BY <3>1, <3>2
    <3> QED BY <3>1, <3>3, <3>4
  <2>3. ASSUME NEW j \in t.used \ {0}
        PROVE  t.way[j] \in s.used /\ Gap(cost, s, s.p[t.way[j]], j) = 0
    <3>1. t.way[j] = s.way[j] /\ j \in 1..m
      BY <1>1, <1>2, <1>6
    <3>2. CASE j \in s.used
      BY <3>1, <3>2 DEF Tree
    <3>3. CASE j = s.at
      <4>1. s.used # {} /\ s.minv[j] = 0 /\ j \in DOMAIN s.minv
        BY <1>5, <3>1, <3>3 DEF Tree
      <4> QED BY <3>1, <4>1 DEF Tree
    <3> QED BY <1>2, <3>2, <3>3
  <2>4. ASSUME NEW j \in t.used \ {0}
        PROVE  t.way[j] \in t.used /\ Gap(cost, t, t.p[t.way[j]], j) = 0
    <3>1. /\ t.way[j] \in s.used /\ t.way[j] \in t.used /\ j \in 1..m
          /\ Gap(cost, s, s.p[t.way[j]], j) = 0
      <4>1. j \in 1..m
        BY <1>1, <1>6
      <4> QED BY <1>2, <2>3, <4>1
    <3>2. t.p[t.way[j]] = s.p[t.way[j]] /\ s.p[t.way[j]] \in 1..n /\ In(s.p[t.way[j]])
      <4>1. \A r \in 1..i : r \in 1..n
        BY <1>1
      <4> QED BY <1>2, <1>6, <1>9, <3>1, <4>1
    <3> QED BY <1>7, <3>1, <3>2
  <2>5. /\ rank \in [0..m -> Nat]
        /\ \A j \in t.used : rank[j] \in Nat /\ rank[j] <= Cardinality(s.used)
        /\ \A j \in t.used \ {0} : rank[s.way[j]] < rank[j]
    BY <1>2, <1>6 DEF Tree
  <2>6. deeper \in [0..m -> Nat]
    BY <1>13, <2>1, <2>5
  <2>7. deeper[t.at] = Cardinality(t.used) /\ \A j \in t.used : deeper[j] = rank[j]
    BY <2>1, <2>5
  <2> HIDE DEF deeper
  <2>8. \A j \in t.used \union {t.at} : deeper[j] <= Cardinality(t.used)
    BY <1>13, <2>5, <2>7
  <2>9. ASSUME NEW j \in (t.used \union {t.at}) \ {0} PROVE deeper[t.way[j]] < deeper[j]
    <3>1. CASE j \in t.used
      <4>1. t.way[j] = s.way[j] /\ t.way[j] \in t.used
        BY <1>2, <2>4, <3>1
      <4> QED BY <2>5, <2>7, <3>1, <4>1
    <3>2. CASE j = t.at
      <4>1. t.way[j] \in t.used
        BY <1>2, <2>2, <3>2
      <4>2. deeper[t.way[j]] \in Nat /\ deeper[t.way[j]] <= Cardinality(s.used)
        BY <2>5, <2>7, <4>1
      <4> QED BY <1>13, <2>7, <3>2, <4>2
    <3> QED BY <3>1, <3>2
  <2> QED BY <2>1, <2>2, <2>4, <2>6, <2>8, <2>9 DEF Tree
<1>15. Covers(t.p, 0..m, i) /\ t.p[0] = i
  BY <1>2 DEF Searching
<1> QED BY <1>10, <1>11, <1>12, <1>13, <1>14, <1>15 DEF t, Searching

---------------------------------------------------------------------------
(* The loops of the code are recursive functions: Course says that they are *)
(* defined, and what they keep. *)

\* g goes through the N rounds of a loop: f[k] is the round k.
Loop(g, N, x, f) == g = [k \in 0..N |-> IF k = 0 THEN x ELSE f[k][g[k - 1]]]

\* D[k] is what holds after round k.
LEMMA Course ==
  ASSUME NEW N \in Nat, NEW D, NEW x \in D[0], NEW f,
         \A k \in 1..N : \A y \in D[k - 1] : f[k][y] \in D[k]
  PROVE  \E g : Loop(g, N, x, f) /\ \A k \in 0..N : g[k] \in D[k]
<1> DEFINE Rounds(g, k) == /\ g = [j \in 0..k |-> IF j = 0 THEN x ELSE f[j][g[j - 1]]]
                           /\ \A j \in 0..k : g[j] \in D[j]
           X == {k \in Nat : k <= N => \E g : Rounds(g, k)}
<1>1. 0 \in X
  <2> DEFINE g == [j \in 0..0 |-> x]
  <2>1. g = [j \in 0..0 |-> IF j = 0 THEN x ELSE f[j][g[j - 1]]]
    OBVIOUS
  <2>2. \A j \in 0..0 : g[j] \in D[j]
    OBVIOUS
  <2> HIDE DEF g
  <2> QED BY <2>1, <2>2
<1>2. ASSUME NEW k \in Nat, k \in X PROVE k + 1 \in X
  <2> SUFFICES ASSUME k + 1 <= N PROVE \E h : Rounds(h, k + 1)
    OBVIOUS
  <2>1. PICK g : Rounds(g, k)
    BY <1>2
  <2> DEFINE y == f[k + 1][g[k]]
             h == [j \in 0..(k + 1) |-> IF j = k + 1 THEN y ELSE g[j]]
  <2>2. /\ \A j \in 0..k : g[j] = IF j = 0 THEN x ELSE f[j][g[j - 1]]
        /\ \A j \in 0..k : g[j] \in D[j]
    BY <2>1, Zenon
  <2>3. y \in D[k + 1]
    <3>1. k + 1 \in 1..N /\ (k + 1) - 1 = k /\ k \in 0..k
      OBVIOUS
    <3> QED BY <2>2, <3>1
  <2>4. \A j \in 0..(k + 1) : h[j] = IF j = k + 1 THEN y ELSE g[j]
    OBVIOUS
  <2>5. DOMAIN h = 0..(k + 1) /\ h = [j \in 0..(k + 1) |-> h[j]]
    OBVIOUS
  <2> HIDE DEF h
  <2>6. ASSUME NEW j \in 0..(k + 1) PROVE h[j] = IF j = 0 THEN x ELSE f[j][h[j - 1]]
    <3>1. CASE j = k + 1
      <4>1. h[j] = f[j][g[k]] /\ j # 0 /\ j - 1 = k /\ h[k] = g[k]
        BY <2>4, <3>1
      <4> QED BY <4>1
    <3>2. CASE j = 0
      BY <2>2, <2>4, <3>2
    <3>3. CASE j \in 1..k
      <4>1. /\ j \in 0..k /\ j # 0 /\ j - 1 \in 0..(k + 1) /\ j # k + 1 /\ j - 1 # k + 1
        BY <3>3
      <4>2. h[j] = g[j] /\ h[j - 1] = g[j - 1]
        BY <2>4, <4>1
      <4> QED BY <2>2, <4>1, <4>2
    <3> QED BY <3>1, <3>2, <3>3
  <2>7. ASSUME NEW j \in 0..(k + 1) PROVE h[j] \in D[j]
    <3>1. CASE j = k + 1
      BY <2>3, <2>4, <3>1
    <3>2. CASE j \in 0..k
      <4>1. j # k + 1
        BY <3>2
      <4> QED BY <2>2, <2>4, <3>2, <4>1
    <3> QED BY <3>1, <3>2
  <2>8. h = [j \in 0..(k + 1) |-> IF j = 0 THEN x ELSE f[j][h[j - 1]]]
    BY <2>5, <2>6
  <2> QED BY <2>7, <2>8
<1>3. N \in X
  <2> HIDE DEF X
  <2> QED BY <1>1, <1>2, Induction
<1>4. PICK g : Rounds(g, N)
  BY <1>3
<1> QED BY <1>4 DEF Loop

\* What is true at the start and stays true is true after every round.
LEMMA Rounds ==
  ASSUME NEW N \in Nat, NEW P, P[0], \A k \in 1..N : P[k - 1] => P[k]
  PROVE  \A k \in 0..N : P[k]
<1> DEFINE X == {k \in Nat : k <= N => P[k]}
<1>1. 0 \in X
  OBVIOUS
<1>2. ASSUME NEW k \in Nat, k \in X PROVE k + 1 \in X
  <2>1. k + 1 <= N => k + 1 \in 1..N /\ (k + 1) - 1 = k
    OBVIOUS
  <2> QED BY <1>2, <2>1
<1>3. Nat \subseteq X
  <2> HIDE DEF X
  <2> QED BY <1>1, <1>2, Induction
<1> QED BY <1>3

\* One round of the search, if it has not ended.
Onward(cost, s) == IF s.p[s.at] = 0 THEN s ELSE Step(cost, s)

\* There are no more columns than rounds.
LEMMA AllUsed ==
  ASSUME NEW cost, NEW n, NEW m, IsTable(cost, n, m), NEW i \in 1..n,
         NEW s, Searching(cost, s, i, n, m), Cardinality(s.used) = m
  PROVE  s.p[s.at] = 0
<1> SUFFICES ASSUME s.p[s.at] # 0 PROVE FALSE
  OBVIOUS
<1>1. n \in Nat \ {0} /\ m \in Nat \ {0} /\ n <= m /\ i \in Nat /\ i <= m
  BY TableFacts
<1>2. PICK rank : Tree(cost, s, m, rank)
  BY DEF Searching
<1>3. /\ s.used \subseteq 0..m /\ s.at \in 0..m /\ s.at \notin s.used
      /\ \A j \in s.used : s.p[j] # 0
  BY <1>2 DEF Tree
<1>4. IsFiniteSet(0..m) /\ Cardinality(0..m) = m + 1
  BY <1>1, Count
<1>5. IsFiniteSet(s.used)
  BY <1>3, <1>4, FS_Subset
<1>6. Cardinality(s.used \union {s.at}) = m + 1
  <2>1. Cardinality(s.used \union {s.at}) = Cardinality(s.used) + 1
    BY <1>3, <1>5, FS_AddElement, Zenon
  <2> QED BY <2>1
<1>7. (s.used \union {s.at}) = 0..m
  <2>1. (s.used \union {s.at}) \in SUBSET (0..m)
    BY <1>3
  <2> QED BY <1>4, <1>6, <2>1, FS_Subset
<1>8. PICK j \in 0..m : s.p[j] = 0
  BY <1>1, FreeColumn DEF Searching
<1> QED BY <1>3, <1>7, <1>8

\* The search finds a column without a row.
LEMMA SearchFinds ==
  ASSUME NEW cost, NEW n, NEW m, IsTable(cost, n, m), NEW i \in 1..n,
         NEW start, Searching(cost, start, i, n, m), start.used = {}
  PROVE  /\ Searching(cost, Search(cost, start), i, n, m)
         /\ Search(cost, start).p[Search(cost, start).at] = 0
<1>1. n \in Nat \ {0} /\ m \in Nat \ {0} /\ n <= m /\ Columns(cost) = 1..m
  BY TableFacts
<1>2. Cardinality(Columns(cost)) = m
  BY <1>1, Count
<1> DEFINE D == [k \in 0..m |-> {s \in States(n, m) : /\ Searching(cost, s, i, n, m)
                                                      /\ s.p[s.at] # 0 => Cardinality(s.used) = k}]
           f == [k \in 1..m |-> [s \in States(n, m) |-> Onward(cost, s)]]
<1>3. start \in D[0]
  <2>1. start \in States(n, m)
    BY DEF Searching, Typed
  <2>2. Cardinality(start.used) = 0
    BY FS_EmptySet
  <2>3. 0 \in 0..m
    BY <1>1
  <2> QED BY <2>1, <2>2, <2>3
<1>4. ASSUME NEW k \in 1..m, NEW s \in D[k - 1]
      PROVE  f[k][s] \in D[k] /\ f[k][s] = Onward(cost, s)
  <2>1. k - 1 \in 0..m /\ k \in 0..m /\ (k - 1) + 1 = k
    BY <1>1
  <2>2. /\ s \in States(n, m) /\ Searching(cost, s, i, n, m)
        /\ s.p[s.at] # 0 => Cardinality(s.used) = k - 1
    BY <2>1
  <2>3. f[k][s] = Onward(cost, s)
    BY <2>2
  <2>4. Onward(cost, s) \in D[k]
    <3>1. CASE s.p[s.at] = 0
      BY <2>1, <2>2, <3>1 DEF Onward
    <3>2. CASE s.p[s.at] # 0
      <4>1. /\ Searching(cost, Step(cost, s), i, n, m)
            /\ Cardinality(Step(cost, s).used) = Cardinality(s.used) + 1
        BY <2>2, <3>2, StepSearches
      <4>2. Step(cost, s) \in States(n, m) /\ Cardinality(Step(cost, s).used) = k
        BY <2>1, <2>2, <3>2, <4>1 DEF Searching, Typed
      <4> QED BY <2>1, <3>2, <4>1, <4>2 DEF Onward
    <3> QED BY <3>1, <3>2
  <2> QED BY <2>3, <2>4
<1>5. PICK g : Loop(g, m, start, f) /\ \A k \in 0..m : g[k] \in D[k]
  <2> HIDE DEF D, f
  <2>1. \A k \in 1..m : \A y \in D[k - 1] : f[k][y] \in D[k]
    BY <1>4
  <2>2. m \in Nat
    BY <1>1
  <2> QED BY <1>3, <2>1, <2>2, Course
<1>6. g = [k \in 0..m |-> IF k = 0 THEN start ELSE Onward(cost, g[k - 1])]
  <2> HIDE DEF D, f
  <2>1. g = [k \in 0..m |-> IF k = 0 THEN start ELSE f[k][g[k - 1]]]
    BY <1>5 DEF Loop
  <2>2. ASSUME NEW k \in 0..m PROVE g[k] = IF k = 0 THEN start ELSE Onward(cost, g[k - 1])
    <3>1. k # 0 => k \in 1..m /\ k - 1 \in 0..m
      BY <1>1
    <3> QED BY <1>4, <1>5, <2>1, <3>1
  <2> QED BY <2>1, <2>2
<1>7. PICK after : after = CHOOSE h : h = [k \in 0..m |-> IF k = 0 THEN start ELSE Onward(cost, h[k - 1])]
  OBVIOUS
<1>8. after = [k \in 0..m |-> IF k = 0 THEN start ELSE Onward(cost, after[k - 1])]
  BY <1>6, <1>7
<1>9. Search(cost, start) = after[m]
  BY <1>2, <1>7, Zenon DEF Search, Onward
<1>10. \A k \in 0..m : after[k] \in D[k]
  <2> DEFINE P == [k \in 0..m |-> after[k] \in D[k]]
  <2> HIDE DEF D, f
  <2>1. P[0]
    <3>1. 0 \in 0..m /\ after[0] = start
      BY <1>1, <1>8
    <3> QED BY <1>3, <3>1
  <2>2. ASSUME NEW k \in 1..m, P[k - 1] PROVE P[k]
    <3>1. k \in 0..m /\ k # 0 /\ k - 1 \in 0..m
      BY <1>1
    <3>2. after[k] = Onward(cost, after[k - 1]) /\ after[k - 1] \in D[k - 1]
      BY <1>8, <2>2, <3>1
    <3>3. after[k] \in D[k]
      BY <1>4, <3>2
    <3> QED BY <3>1, <3>3
  <2>3. \A k \in 0..m : P[k]
    <3> HIDE DEF P
    <3> QED BY <1>1, <2>1, <2>2, Rounds
  <2> QED BY <2>3
<1>11. Searching(cost, after[m], i, n, m) /\ (after[m].p[after[m].at] # 0 => Cardinality(after[m].used) = m)
  <2>1. m \in 0..m /\ after[m] \in D[m]
    BY <1>1, <1>10
  <2> QED BY <2>1
<1> HIDE DEF D, f
<1> QED BY <1>9, <1>11, AllUsed

\* One round of the way back.
Back(t) ==
  IF t.at = 0 THEN t
  ELSE [t EXCEPT !.p[t.at] = t.p[t.way[t.at]], !.at = t.way[t.at]]

\* On the way back from s, at a column whose row has just been moved on.
Flipping(cost, t, s, i, n, m, rank) ==
  /\ Typed(t, n, m) /\ t.way = s.way /\ t.u = s.u /\ t.v = s.v
  /\ t.at \in s.used \union {s.at}
  /\ Covers(t.p, (0..m) \ {t.at}, i) /\ Settled(cost, t, (1..m) \ {t.at})
  /\ \A j \in 0..m : rank[j] < rank[t.at] => t.p[j] = s.p[j]

\* The cells the way back goes through.
LEMMA TreeWay ==
  ASSUME NEW cost, NEW s, NEW m \in Nat, NEW rank, Tree(cost, s, m, rank),
         NEW a \in (s.used \union {s.at}) \ {0}
  PROVE  /\ a \in 1..m /\ s.way[a] \in s.used /\ s.way[a] \in 0..m /\ s.p[s.way[a]] # 0
         /\ Gap(cost, s, s.p[s.way[a]], a) = 0 /\ rank[s.way[a]] < rank[a]
<1>1. /\ s.used \subseteq 0..m /\ s.at \in 0..m /\ a \in 1..m /\ rank[s.way[a]] < rank[a]
      /\ \A j \in s.used : s.p[j] # 0
  BY DEF Tree
<1>2. s.way[a] \in s.used /\ Gap(cost, s, s.p[s.way[a]], a) = 0
  <2>1. CASE a \in s.used
    BY <2>1 DEF Tree
  <2>2. CASE a \notin s.used
    <3>1. a = s.at /\ s.used # {}
      BY <2>2 DEF Tree
    <3>2. a \in DOMAIN s.minv /\ s.minv[a] = 0
      BY <1>1, <2>2, <3>1 DEF Tree
    <3> QED BY <3>1, <3>2 DEF Tree
  <2> QED BY <2>1, <2>2
<1> QED BY <1>1, <1>2

LEMMA BackFlips ==
  ASSUME NEW cost, NEW n, NEW m, IsTable(cost, n, m), NEW i \in 1..n,
         NEW s, Searching(cost, s, i, n, m), NEW rank, Tree(cost, s, m, rank),
         NEW t, Flipping(cost, t, s, i, n, m, rank), t.at # 0
  PROVE  /\ Flipping(cost, Back(t), s, i, n, m, rank)
         /\ rank[Back(t).at] < rank[t.at]
<1> DEFINE a == t.at
           b == s.way[a]
           b2 == Back(t)
<1>1. n \in Nat \ {0} /\ m \in Nat \ {0} /\ n <= m /\ i \in Nat
  BY TableFacts
<1>2. /\ a \in 1..m /\ a \in 0..m /\ b \in s.used /\ b \in 0..m /\ s.p[b] # 0
      /\ Gap(cost, s, s.p[b], a) = 0 /\ rank[b] < rank[a]
      /\ rank[a] \in Nat /\ rank[b] \in Nat /\ a # b
  <2>1. a \in (s.used \union {s.at}) \ {0}
    BY DEF Flipping
  <2>2. /\ a \in 1..m /\ b \in s.used /\ b \in 0..m /\ s.p[b] # 0
        /\ Gap(cost, s, s.p[b], a) = 0 /\ rank[b] < rank[a]
    BY <1>1, <2>1, TreeWay
  <2>3. a \in 0..m
    BY <1>1, <2>2
  <2>4. rank \in [0..m -> Nat]
    BY DEF Tree
  <2>5. rank[a] \in Nat /\ rank[b] \in Nat
    BY <2>2, <2>3, <2>4
  <2> QED BY <2>2, <2>3, <2>5
<1>3. t.p[b] = s.p[b] /\ t.way = s.way /\ t.u = s.u /\ t.v = s.v /\ t \in States(n, m)
  BY <1>2 DEF Flipping, Typed
<1>4. t.p \in [0..m -> 0..n] /\ t.p[b] \in 0..n
  BY <1>2, <1>3 DEF States
<1>5. b2 = [t EXCEPT !.p = [t.p EXCEPT ![a] = t.p[b]], !.at = b]
  BY <1>3 DEF Back
<1>6. /\ b2.p = [t.p EXCEPT ![a] = t.p[b]] /\ b2.at = b
      /\ b2.way = s.way /\ b2.u = s.u /\ b2.v = s.v
  BY <1>3, <1>5 DEF States
<1>7. b2 \in States(n, m)
  <2> DEFINE q == [t.p EXCEPT ![a] = t.p[b]]
  <2>1. q \in [0..m -> 0..n]
    BY <1>2, <1>4
  <2> HIDE DEF q
  <2>2. b \in 0..m /\ b2 = [t EXCEPT !.p = q, !.at = b]
    BY <1>2, <1>5 DEF q
  <2> HIDE DEF b2
  <2> QED BY <1>3, <2>1, <2>2 DEF States
<1> HIDE DEF b2
<1>8. /\ b2.p[a] = s.p[b] /\ \A j \in (0..m) \ {a} : b2.p[j] = t.p[j]
  BY <1>2, <1>3, <1>4, <1>6
<1>9. /\ \A j \in (0..m) \ {a} : t.p[j] \in 0..i
      /\ \A r \in 1..i : \E j \in (0..m) \ {a} : t.p[j] = r
      /\ \A j, k \in (0..m) \ {a} : t.p[j] = t.p[k] /\ t.p[j] # 0 => j = k
  BY DEF Flipping, Covers
<1>10. Covers(b2.p, (0..m) \ {b}, i)
  <2>1. ASSUME NEW j \in (0..m) \ {b}
        PROVE  \E k \in (0..m) \ {a} : /\ b2.p[j] = t.p[k]
                                       /\ j = a => k = b
                                       /\ j # a => k = j
    BY <1>2, <1>3, <1>8
  <2>2. ASSUME NEW r \in 1..i PROVE \E j \in (0..m) \ {b} : b2.p[j] = r
    <3>1. PICK k \in (0..m) \ {a} : t.p[k] = r
      BY <1>9
    <3>2. CASE k = b
      BY <1>2, <1>3, <1>8, <3>1, <3>2
    <3>3. CASE k # b
      BY <1>8, <3>1, <3>3
    <3> QED BY <3>2, <3>3
  <2>3. ASSUME NEW j \in (0..m) \ {b}, NEW k \in (0..m) \ {b}, b2.p[j] = b2.p[k], b2.p[j] # 0
        PROVE  j = k
    <3>1. PICK j1 \in (0..m) \ {a} : b2.p[j] = t.p[j1] /\ (j = a => j1 = b) /\ (j # a => j1 = j)
      BY <2>1
    <3>2. PICK k1 \in (0..m) \ {a} : b2.p[k] = t.p[k1] /\ (k = a => k1 = b) /\ (k # a => k1 = k)
      BY <2>1
    <3>3. j1 = k1
      BY <1>9, <2>3, <3>1, <3>2
    <3> QED BY <3>1, <3>2, <3>3
  <2> QED BY <1>9, <2>1, <2>2, <2>3 DEF Covers
<1>11. Settled(cost, b2, (1..m) \ {b})
  <2> SUFFICES ASSUME NEW j \in (1..m) \ {b}
               PROVE  IF b2.p[j] = 0 THEN b2.v[j] = 0 ELSE Gap(cost, b2, b2.p[j], j) = 0
    BY DEF Settled
  <2>1. CASE j = a
    BY <1>2, <1>6, <1>8, <2>1 DEF Gap
  <2>2. CASE j # a
    <3>1. b2.p[j] = t.p[j] /\ j \in (1..m) \ {a}
      BY <1>1, <1>8, <2>2
    <3>2. IF t.p[j] = 0 THEN t.v[j] = 0 ELSE Gap(cost, t, t.p[j], j) = 0
      BY <3>1 DEF Flipping, Settled
    <3> QED BY <1>3, <1>6, <3>1, <3>2 DEF Gap
  <2> QED BY <2>1, <2>2
<1>12. ASSUME NEW j \in 0..m, rank[j] < rank[b] PROVE b2.p[j] = s.p[j]
  <2>1. rank[j] \in Nat
    BY DEF Tree
  <2>2. j # a /\ rank[j] < rank[a]
    BY <1>2, <1>12, <2>1
  <2> QED BY <1>8, <2>2 DEF Flipping
<1> QED BY <1>2, <1>6, <1>7, <1>10, <1>11, <1>12 DEF Flipping, Typed, b2

\* The way back ends at column 0, and the rows that were moved on and row i have
\* their columns.
LEMMA FlipPlaces ==
  ASSUME NEW cost, NEW n, NEW m, IsTable(cost, n, m), NEW i \in 1..n,
         NEW s, Searching(cost, s, i, n, m), s.p[s.at] = 0
  PROVE  Placed(cost, Flip(cost, s), i, n, m)
<1> PICK rank : Tree(cost, s, m, rank)
  BY DEF Searching
<1>1. n \in Nat \ {0} /\ m \in Nat \ {0} /\ n <= m /\ Columns(cost) = 1..m /\ m + 1 \in Nat
  BY TableFacts
<1>2. Cardinality(Columns(cost)) = m
  BY <1>1, Count
<1>3. rank \in [0..m -> Nat] /\ s.at \in 0..m /\ s.used \subseteq 0..m
  BY DEF Tree
<1>4. rank[s.at] <= m
  <2>1. IsFiniteSet(0..m) /\ Cardinality(0..m) = m + 1
    BY <1>1, Count
  <2>2. s.used # 0..m /\ rank[s.at] <= Cardinality(s.used)
    BY DEF Tree
  <2>3. Cardinality(s.used) <= Cardinality(0..m) /\ Cardinality(s.used) # Cardinality(0..m)
        /\ Cardinality(s.used) \in Nat
    <3>1. IsFiniteSet(s.used) /\ Cardinality(s.used) <= Cardinality(0..m)
          /\ (Cardinality(0..m) = Cardinality(s.used) => 0..m = s.used)
      BY <1>3, <2>1, FS_Subset
    <3> QED BY <2>2, <3>1, FS_CardinalityType
  <2>4. rank[s.at] \in Nat
    BY <1>3
  <2> QED BY <1>1, <2>1, <2>2, <2>3, <2>4
<1> DEFINE D == [k \in 0..(m + 1) |->
                  {t \in States(n, m) : /\ Flipping(cost, t, s, i, n, m, rank)
                                        /\ t.at # 0 => rank[t.at] + k <= m}]
           f == [k \in 1..(m + 1) |-> [t \in States(n, m) |-> Back(t)]]
<1>5. s \in D[0]
  <2>1. s \in States(n, m) /\ Typed(s, n, m)
    BY DEF Searching, Typed
  <2>2. rank[s.at] + 0 <= m /\ 0 \in 0..(m + 1)
    BY <1>1, <1>3, <1>4
  <2>3. Covers(s.p, (0..m) \ {s.at}, i)
    <3>1. /\ \A j \in 0..m : s.p[j] \in 0..i
          /\ \A r \in 1..i : \E j \in 0..m : s.p[j] = r
          /\ \A j, k \in 0..m : s.p[j] = s.p[k] /\ s.p[j] # 0 => j = k
      BY DEF Searching, Covers
    <3>2. \A r \in 1..i : \E j \in (0..m) \ {s.at} : s.p[j] = r
      <4> SUFFICES ASSUME NEW r \in 1..i PROVE \E j \in (0..m) \ {s.at} : s.p[j] = r
        OBVIOUS
      <4>1. PICK j \in 0..m : s.p[j] = r
        BY <3>1
      <4>2. j # s.at
        BY <4>1
      <4> QED BY <4>1, <4>2
    <3> QED BY <3>1, <3>2 DEF Covers
  <2>4. Settled(cost, s, (1..m) \ {s.at})
    BY DEF Searching, Settled
  <2>5. Flipping(cost, s, s, i, n, m, rank)
    BY <2>1, <2>3, <2>4 DEF Flipping
  <2> QED BY <2>1, <2>2, <2>5
<1>6. ASSUME NEW k \in 1..(m + 1), NEW t \in D[k - 1]
      PROVE  f[k][t] \in D[k] /\ f[k][t] = Back(t)
  <2>1. k - 1 \in 0..(m + 1) /\ k \in 0..(m + 1) /\ (k - 1) + 1 = k
    BY <1>1
  <2>2. /\ t \in States(n, m) /\ Flipping(cost, t, s, i, n, m, rank)
        /\ t.at # 0 => rank[t.at] + (k - 1) <= m
    BY <2>1
  <2>3. f[k][t] = Back(t)
    BY <2>2
  <2>4. Back(t) \in D[k]
    <3>1. CASE t.at = 0
      BY <2>1, <2>2, <3>1 DEF Back
    <3>2. CASE t.at # 0
      <4>1. Flipping(cost, Back(t), s, i, n, m, rank) /\ rank[Back(t).at] < rank[t.at]
        BY <2>2, <3>2, BackFlips
      <4>2. Back(t) \in States(n, m)
        BY <4>1 DEF Flipping, Typed
      <4>3. rank[t.at] \in Nat /\ rank[Back(t).at] \in Nat
        BY <1>3, <2>2, <4>2 DEF States
      <4>4. rank[Back(t).at] + k <= m
        BY <1>1, <2>1, <2>2, <3>2, <4>1, <4>3, SMTT(30)
      <4> QED BY <2>1, <4>1, <4>2, <4>4
    <3> QED BY <3>1, <3>2
  <2> QED BY <2>3, <2>4
<1>7. PICK g : Loop(g, m + 1, s, f) /\ \A k \in 0..(m + 1) : g[k] \in D[k]
  <2>1. \A k \in 1..(m + 1) : \A y \in D[k - 1] : f[k][y] \in D[k]
    BY <1>6
  <2> HIDE DEF D, f
  <2> QED BY <1>1, <1>5, <2>1, Course
<1>8. g = [k \in 0..(m + 1) |-> IF k = 0 THEN s ELSE Back(g[k - 1])]
  <2> HIDE DEF D, f
  <2>1. g = [k \in 0..(m + 1) |-> IF k = 0 THEN s ELSE f[k][g[k - 1]]]
    BY <1>7 DEF Loop
  <2>2. ASSUME NEW k \in 0..(m + 1) PROVE g[k] = IF k = 0 THEN s ELSE Back(g[k - 1])
    <3>1. k # 0 => k \in 1..(m + 1) /\ k - 1 \in 0..(m + 1)
      BY <1>1
    <3> QED BY <1>6, <1>7, <2>1, <3>1
  <2> QED BY <2>1, <2>2
<1>9. PICK after : after = CHOOSE h : h = [k \in 0..(m + 1) |-> IF k = 0 THEN s ELSE Back(h[k - 1])]
  OBVIOUS
<1>10. after = [k \in 0..(m + 1) |-> IF k = 0 THEN s ELSE Back(after[k - 1])]
  BY <1>8, <1>9
<1>11. Flip(cost, s) = after[m + 1]
  BY <1>2, <1>9, Zenon DEF Flip, Back
<1>12. \A k \in 0..(m + 1) : after[k] \in D[k]
  <2> DEFINE P == [k \in 0..(m + 1) |-> after[k] \in D[k]]
  <2> HIDE DEF D, f
  <2>1. P[0]
    <3>1. 0 \in 0..(m + 1) /\ after[0] = s
      BY <1>1, <1>10
    <3> QED BY <1>5, <3>1
  <2>2. ASSUME NEW k \in 1..(m + 1), P[k - 1] PROVE P[k]
    <3>1. k \in 0..(m + 1) /\ k # 0 /\ k - 1 \in 0..(m + 1)
      BY <1>1
    <3>2. after[k] = Back(after[k - 1]) /\ after[k - 1] \in D[k - 1]
      BY <1>10, <2>2, <3>1
    <3>3. after[k] \in D[k]
      BY <1>6, <3>2
    <3> QED BY <3>1, <3>3
  <2>3. \A k \in 0..(m + 1) : P[k]
    <3> HIDE DEF P
    <3> QED BY <1>1, <2>1, <2>2, Rounds
  <2> QED BY <2>3
<1> DEFINE t == after[m + 1]
<1>13. /\ t \in States(n, m) /\ Flipping(cost, t, s, i, n, m, rank)
       /\ t.at # 0 => rank[t.at] + (m + 1) <= m
  <2>1. m + 1 \in 0..(m + 1) /\ t \in D[m + 1]
    BY <1>1, <1>12
  <2> QED BY <2>1
<1> HIDE DEF D, f, t
<1>14. t.at = 0
  <2>1. rank[t.at] \in Nat
    BY <1>3, <1>13 DEF States
  <2> QED BY <1>1, <1>13, <2>1
<1>15. Placed(cost, t, i, n, m)
  <2>1. (0..m) \ {0} = 1..m /\ (1..m) \ {0} = 1..m
    BY <1>1
  <2>2. Covers(t.p, 1..m, i) /\ Settled(cost, t, 1..m) /\ Typed(t, n, m)
    BY <1>13, <1>14, <2>1 DEF Flipping
  <2>3. Priced(cost, t, i, n, m)
    BY <1>13 DEF Flipping, Searching, Priced, Gap
  <2> QED BY <2>2, <2>3 DEF Placed
<1> QED BY <1>11, <1>15 DEF t

\* A row that joins gets a column, and the others keep one.
LEMMA InsertPlaces ==
  ASSUME NEW cost, NEW n, NEW m, IsTable(cost, n, m), NEW i \in 1..n,
         NEW s, Placed(cost, s, i - 1, n, m)
  PROVE  Placed(cost, Insert(cost, s, i), i, n, m)
<1> DEFINE start == [s EXCEPT !.p[0] = i, !.used = {}, !.at = 0, !.minv = [j \in {} |-> 0]]
           p == [s.p EXCEPT ![0] = i]
<1>1. n \in Nat \ {0} /\ m \in Nat \ {0} /\ n <= m /\ i \in Nat /\ i <= n /\ 0 \in 0..m
      /\ i \in 0..n /\ i - 1 \in Nat
  BY TableFacts
<1>2. s \in States(n, m) /\ s.p \in [0..m -> 0..n]
  BY DEF Placed, Typed, States
<1>3. p \in [0..m -> 0..n] /\ p[0] = i /\ \A j \in 1..m : j \in 0..m /\ p[j] = s.p[j]
  BY <1>1, <1>2
<1> HIDE DEF p
<1>4. [j \in {} |-> 0] \in UNION {[columns -> Nat] : columns \in SUBSET (1..m)}
  <2>1. [j \in {} |-> 0] \in [{} -> Nat] /\ {} \in SUBSET (1..m)
    OBVIOUS
  <2> QED BY <2>1
<1>5. start = [s EXCEPT !.p = p, !.used = {}, !.at = 0, !.minv = [j \in {} |-> 0]]
  BY <1>2 DEF p, States
<1> HIDE DEF start
<1>6. start \in States(n, m)
  <2> DEFINE nothing == [j \in {} |-> 0]
  <2>1. nothing \in UNION {[columns -> Nat] : columns \in SUBSET (1..m)}
    BY <1>4
  <2>2. start = [s EXCEPT !.p = p, !.used = {}, !.at = 0, !.minv = nothing]
    BY <1>5
  <2> HIDE DEF nothing
  <2> QED BY <1>1, <1>2, <1>3, <2>1, <2>2 DEF States
<1>7. /\ start.p = p /\ start.used = {} /\ start.at = 0 /\ start.minv = [j \in {} |-> 0]
      /\ start.u = s.u /\ start.v = s.v
  BY <1>2, <1>5 DEF States
<1>8. \A r, j : Gap(cost, start, r, j) = Gap(cost, s, r, j)
  BY <1>7 DEF Gap
<1>9. Priced(cost, start, i, n, m)
  <2>1. ASSUME NEW r \in 1..i, NEW j \in 1..m PROVE Gap(cost, s, r, j) >= 0
    <3>1. CASE r = i
      <4>1. s.u[r] = 0
        <5>1. r \in ((i - 1) + 1)..n
          BY <1>1, <3>1
        <5> QED BY <5>1 DEF Placed, Priced
      <4>2. s.v[j] <= 0 /\ s.v[j] \in Int
        <5>1. s.v \in [0..m -> Int] /\ j \in 0..m
          BY <1>2, <1>3 DEF States
        <5> QED BY <5>1 DEF Placed, Priced
      <4>3. cost[r][j] \in Nat
        BY <1>1, <3>1, TableFacts
      <4> QED BY <4>1, <4>2, <4>3 DEF Gap
    <3>2. CASE r # i
      <4>1. r \in 1..(i - 1)
        BY <1>1, <3>2
      <4> QED BY <4>1 DEF Placed, Priced
    <3> QED BY <3>1, <3>2
  <2>2. ASSUME NEW r \in (i + 1)..n PROVE start.u[r] = 0
    <3>1. r \in ((i - 1) + 1)..n
      BY <1>1
    <3> QED BY <1>7, <3>1 DEF Placed, Priced
  <2>3. \A j \in 1..m : start.v[j] <= 0
    BY <1>7 DEF Placed, Priced
  <2> QED BY <1>8, <2>1, <2>2, <2>3 DEF Priced
<1>10. /\ \A j \in 1..m : s.p[j] \in 0..(i - 1)
       /\ \A r \in 1..(i - 1) : \E j \in 1..m : s.p[j] = r
       /\ \A j, k \in 1..m : s.p[j] = s.p[k] /\ s.p[j] # 0 => j = k
  BY DEF Placed, Covers
<1>11. Covers(start.p, 0..m, i)
  <2>1. \A j \in 0..m : j = 0 \/ j \in 1..m
    BY <1>1
  <2>2. ASSUME NEW j \in 0..m PROVE p[j] \in 0..i
    <3>1. CASE j = 0
      BY <1>1, <1>3, <3>1
    <3>2. CASE j \in 1..m
      <4>1. p[j] \in 0..(i - 1)
        BY <1>3, <1>10, <3>2
      <4> QED BY <1>1, <4>1
    <3> QED BY <2>1, <3>1, <3>2
  <2>3. ASSUME NEW r \in 1..i PROVE \E j \in 0..m : p[j] = r
    <3>1. CASE r = i
      BY <1>1, <1>3, <3>1
    <3>2. CASE r # i
      <4>1. r \in 1..(i - 1)
        BY <1>1, <3>2
      <4> QED BY <1>3, <1>10, <4>1
    <3> QED BY <3>1, <3>2
  <2>4. \A j \in 1..m : p[j] # p[0]
    <3> SUFFICES ASSUME NEW j \in 1..m PROVE p[j] # i
      BY <1>3
    <3>1. p[j] \in 0..(i - 1)
      BY <1>3, <1>10
    <3> QED BY <1>1, <3>1
  <2>5. ASSUME NEW j \in 0..m, NEW k \in 0..m, p[j] = p[k], p[j] # 0 PROVE j = k
    BY <1>3, <1>10, <2>1, <2>4, <2>5
  <2> QED BY <1>7, <2>2, <2>3, <2>5 DEF Covers
<1>12. Settled(cost, start, 1..m)
  BY <1>3, <1>7, <1>8 DEF Placed, Settled
<1>13. \E rank : Tree(cost, start, m, rank)
  <2> DEFINE rank == [j \in 0..m |-> 0]
  <2>1. Cardinality({}) = 0
    BY FS_EmptySet
  <2>2. Tree(cost, start, m, rank)
    BY <1>1, <1>7, <2>1 DEF Tree
  <2> QED BY <2>2
<1>14. Searching(cost, start, i, n, m)
  BY <1>3, <1>6, <1>7, <1>9, <1>11, <1>12, <1>13 DEF Searching, Typed
<1> DEFINE found == Search(cost, start)
<1>15. Searching(cost, found, i, n, m) /\ found.p[found.at] = 0
  BY <1>7, <1>14, SearchFinds
<1>16. Insert(cost, s, i) = Flip(cost, found)
  BY DEF Insert, start
<1> HIDE DEF found
<1> QED BY <1>15, <1>16, FlipPlaces

\* Nobody has a column before the first row.
NonePlaced(cost) ==
  [p |-> [j \in {0} \union Columns(cost) |-> 0], used |-> {}, at |-> 0,
   way |-> [j \in Columns(cost) |-> 0], minv |-> [j \in {} |-> 0],
   u |-> [i \in {0} \union Rows(cost) |-> 0], v |-> [j \in {0} \union Columns(cost) |-> 0]]

LEMMA NoneIsPlaced ==
  ASSUME NEW cost, NEW n, NEW m, IsTable(cost, n, m)
  PROVE  Placed(cost, NonePlaced(cost), 0, n, m)
<1> DEFINE s == NonePlaced(cost)
<1>1. /\ n \in Nat \ {0} /\ m \in Nat \ {0} /\ n <= m /\ Columns(cost) = 1..m
      /\ {0} \union Rows(cost) = 0..n /\ {0} \union Columns(cost) = 0..m
  <2>1. /\ n \in Nat \ {0} /\ m \in Nat \ {0} /\ n <= m
        /\ Rows(cost) = 1..n /\ Columns(cost) = 1..m
    BY TableFacts
  <2>2. {0} \union 1..n = 0..n
    BY <2>1
  <2>3. {0} \union 1..m = 0..m
    BY <2>1
  <2> QED BY <2>1, <2>2, <2>3
<1>2. s \in States(n, m)
  <2> DEFINE nothing == [j \in {} |-> 0]
             zeros == [j \in {0} \union Columns(cost) |-> 0]
             roots == [j \in Columns(cost) |-> 0]
             naughts == [i \in {0} \union Rows(cost) |-> 0]
  <2>1. nothing \in UNION {[columns -> Nat] : columns \in SUBSET (1..m)}
    <3>1. nothing \in [{} -> Nat] /\ {} \in SUBSET (1..m)
      OBVIOUS
    <3> QED BY <3>1
  <2>2. zeros \in [0..m -> 0..n] /\ zeros \in [0..m -> Int] /\ naughts \in [0..n -> Int]
        /\ roots \in [1..m -> 0..m] /\ 0 \in 0..m
    BY <1>1
  <2>3. s = [p |-> zeros, used |-> {}, at |-> 0, way |-> roots, minv |-> nothing,
             u |-> naughts, v |-> zeros]
    BY DEF NonePlaced
  <2> HIDE DEF s, nothing, zeros, roots, naughts
  <2> QED BY <2>1, <2>2, <2>3 DEF States
<1>3. /\ \A j \in 0..m : s.p[j] = 0 /\ s.v[j] = 0
      /\ \A r \in 0..n : s.u[r] = 0
  BY <1>1 DEF NonePlaced
<1> HIDE DEF s
<1>4. \A j \in 1..m : j \in 0..m
  BY <1>1
<1>5. Priced(cost, s, 0, n, m)
  BY <1>1, <1>3, <1>4 DEF Priced
<1>6. Covers(s.p, 1..m, 0)
  BY <1>1, <1>3, <1>4 DEF Covers
<1>7. Settled(cost, s, 1..m)
  BY <1>3, <1>4 DEF Settled
<1> QED BY <1>2, <1>5, <1>6, <1>7 DEF Placed, Typed, s

\* In the end every row has its column.
LEMMA HungarianPlaces ==
  ASSUME NEW cost, NEW n, NEW m, IsTable(cost, n, m)
  PROVE  \E s : /\ Placed(cost, s, n, n, m)
                /\ Hungarian(cost) = [r \in 1..n |-> CHOOSE j \in 1..m : s.p[j] = r]
<1>1. /\ n \in Nat \ {0} /\ m \in Nat \ {0} /\ n <= m
      /\ Rows(cost) = 1..n /\ Columns(cost) = 1..m
      /\ {0} \union Rows(cost) = 0..n
  <2>1. /\ n \in Nat \ {0} /\ m \in Nat \ {0} /\ n <= m
        /\ Rows(cost) = 1..n /\ Columns(cost) = 1..m
    BY TableFacts
  <2>2. {0} \union 1..n = 0..n
    BY <2>1
  <2> QED BY <2>1, <2>2
<1>2. Cardinality(Rows(cost)) = n
  BY <1>1, Count
<1> DEFINE none == NonePlaced(cost)
           D == [k \in 0..n |-> {s \in States(n, m) : Placed(cost, s, k, n, m)}]
           f == [k \in 1..n |-> [s \in States(n, m) |-> Insert(cost, s, k)]]
<1>3. none \in D[0]
  <2>1. Placed(cost, none, 0, n, m) /\ 0 \in 0..n
    BY <1>1, NoneIsPlaced
  <2> HIDE DEF none
  <2> QED BY <2>1 DEF Placed, Typed
<1>4. ASSUME NEW k \in 1..n, NEW s \in D[k - 1]
      PROVE  f[k][s] \in D[k] /\ f[k][s] = Insert(cost, s, k)
  <2>1. k - 1 \in 0..n /\ k \in 0..n
    BY <1>1
  <2>2. s \in States(n, m) /\ Placed(cost, s, k - 1, n, m)
    BY <2>1
  <2>3. f[k][s] = Insert(cost, s, k)
    BY <2>2
  <2>4. Placed(cost, Insert(cost, s, k), k, n, m)
    BY <2>2, InsertPlaces
  <2>5. Insert(cost, s, k) \in D[k]
    BY <2>1, <2>4 DEF Placed, Typed
  <2> QED BY <2>3, <2>5
<1>5. PICK g : Loop(g, n, none, f) /\ \A k \in 0..n : g[k] \in D[k]
  <2>1. \A k \in 1..n : \A y \in D[k - 1] : f[k][y] \in D[k]
    BY <1>4
  <2>2. n \in Nat
    BY <1>1
  <2> HIDE DEF D, f, none
  <2> QED BY <1>3, <2>1, <2>2, Course
<1> HIDE DEF none
<1>6. g = [k \in {0} \union Rows(cost) |-> IF k = 0 THEN none ELSE Insert(cost, g[k - 1], k)]
  <2> HIDE DEF D, f
  <2>1. g = [k \in 0..n |-> IF k = 0 THEN none ELSE f[k][g[k - 1]]]
    BY <1>5 DEF Loop
  <2>2. ASSUME NEW k \in 0..n PROVE g[k] = IF k = 0 THEN none ELSE Insert(cost, g[k - 1], k)
    <3>1. k # 0 => k \in 1..n /\ k - 1 \in 0..n
      BY <1>1
    <3> QED BY <1>4, <1>5, <2>1, <3>1
  <2>3. DOMAIN g = {0} \union Rows(cost) /\ g = [k \in DOMAIN g |-> g[k]]
    BY <1>1, <2>1
  <2> QED BY <1>1, <2>2, <2>3
<1> DEFINE after == CHOOSE h : h = [k \in {0} \union Rows(cost) |->
                                      IF k = 0 THEN none ELSE Insert(cost, h[k - 1], k)]
<1>7. Hungarian(cost) = [r \in Rows(cost) |->
                           CHOOSE j \in Columns(cost) : after[Cardinality(Rows(cost))].p[j] = r]
  BY Zenon DEF Hungarian, none, NonePlaced
<1>8. \A k \in 0..n : after[k] = IF k = 0 THEN none ELSE Insert(cost, after[k - 1], k)
  <2>1. after = [k \in {0} \union Rows(cost) |-> IF k = 0 THEN none ELSE Insert(cost, after[k - 1], k)]
    BY <1>6
  <2> HIDE DEF after
  <2> QED BY <1>1, <2>1
<1> HIDE DEF after
<1>9. Hungarian(cost) = [r \in 1..n |-> CHOOSE j \in 1..m : after[n].p[j] = r]
  BY <1>1, <1>2, <1>7
<1>10. \A k \in 0..n : after[k] \in D[k]
  <2> DEFINE P == [k \in 0..n |-> after[k] \in D[k]]
  <2> HIDE DEF D, f
  <2>1. P[0]
    <3>1. 0 \in 0..n /\ after[0] = none
      BY <1>1, <1>8
    <3> QED BY <1>3, <3>1
  <2>2. ASSUME NEW k \in 1..n, P[k - 1] PROVE P[k]
    <3>1. k \in 0..n /\ k # 0 /\ k - 1 \in 0..n
      BY <1>1
    <3>2. after[k] = Insert(cost, after[k - 1], k) /\ after[k - 1] \in D[k - 1]
      BY <1>8, <2>2, <3>1
    <3>3. after[k] \in D[k]
      BY <1>4, <3>2
    <3> QED BY <3>1, <3>3
  <2>3. \A k \in 0..n : P[k]
    <3> HIDE DEF P
    <3> QED BY <1>1, <2>1, <2>2, Rounds
  <2> QED BY <2>3
<1>11. Placed(cost, after[n], n, n, m)
  <2>1. n \in 0..n /\ after[n] \in D[n]
    BY <1>1, <1>10
  <2> QED BY <2>1
<1> QED BY <1>9, <1>11

\* What the potentials say of the result: the cells chosen cost just as much as
\* them, no cell less, and a column that was not chosen has none.
Tight(cost, columnOf, n, m, u, v) ==
  /\ columnOf \in [1..n -> 1..m]
  /\ \A r, q \in 1..n : columnOf[r] = columnOf[q] => r = q
  /\ u \in [1..n -> Int] /\ v \in [1..m -> Int]
  /\ \A r \in 1..n, j \in 1..m : cost[r][j] >= u[r] + v[j]
  /\ \A r \in 1..n : cost[r][columnOf[r]] = u[r] + v[columnOf[r]]
  /\ \A j \in 1..m : v[j] <= 0
  /\ \A j \in 1..m : (\A r \in 1..n : columnOf[r] # j) => v[j] = 0

LEMMA HungarianIsTight ==
  ASSUME NEW cost, NEW n, NEW m, IsTable(cost, n, m)
  PROVE  \E u, v : Tight(cost, Hungarian(cost), n, m, u, v)
<1>1. n \in Nat \ {0} /\ m \in Nat \ {0}
  BY TableFacts
<1> PICK s : /\ Placed(cost, s, n, n, m)
             /\ Hungarian(cost) = [r \in 1..n |-> CHOOSE j \in 1..m : s.p[j] = r]
  BY HungarianPlaces
<1> DEFINE columnOf == Hungarian(cost)
           u == [r \in 1..n |-> s.u[r]]
           v == [j \in 1..m |-> s.v[j]]
<1>2. /\ \A j \in 1..m : s.p[j] \in 0..n
      /\ \A r \in 1..n : \E j \in 1..m : s.p[j] = r
      /\ \A j, k \in 1..m : s.p[j] = s.p[k] /\ s.p[j] # 0 => j = k
  BY DEF Placed, Covers
<1>3. ASSUME NEW r \in 1..n PROVE columnOf[r] \in 1..m /\ s.p[columnOf[r]] = r
  <2>1. columnOf[r] = CHOOSE j \in 1..m : s.p[j] = r
    OBVIOUS
  <2>2. \E j \in 1..m : s.p[j] = r
    BY <1>2
  <2> HIDE DEF columnOf
  <2> QED BY <2>1, <2>2
<1>4. columnOf \in [1..n -> 1..m]
  BY <1>3
<1> HIDE DEF columnOf
<1>5. \A r, q \in 1..n : columnOf[r] = columnOf[q] => r = q
  BY <1>3
<1>6. ASSUME NEW r \in 1..n, NEW j \in 1..m
      PROVE  /\ u[r] = s.u[r] /\ v[j] = s.v[j] /\ s.u[r] \in Int /\ s.v[j] \in Int
             /\ cost[r][j] \in Nat
  <2>1. s.u \in [0..n -> Int] /\ s.v \in [0..m -> Int] /\ r \in 0..n /\ j \in 0..m
    <3>1. s.u \in [0..n -> Int] /\ s.v \in [0..m -> Int]
      BY DEF Placed, Typed, States
    <3> QED BY <1>1, <3>1
  <2>2. cost[r][j] \in Nat
    BY TableFacts
  <2> QED BY <2>1, <2>2
<1>7. u \in [1..n -> Int] /\ v \in [1..m -> Int]
  <2>1. 1 \in 1..n /\ 1 \in 1..m
    BY <1>1
  <2>2. \A r \in 1..n : s.u[r] \in Int
    BY <1>6, <2>1
  <2>3. \A j \in 1..m : s.v[j] \in Int
    BY <1>6, <2>1
  <2> QED BY <2>2, <2>3
<1> HIDE DEF u, v
<1>8. ASSUME NEW r \in 1..n, NEW j \in 1..m PROVE cost[r][j] >= u[r] + v[j]
  <2>1. Gap(cost, s, r, j) >= 0
    BY DEF Placed, Priced
  <2> QED BY <1>6, <2>1 DEF Gap
<1>9. ASSUME NEW r \in 1..n PROVE cost[r][columnOf[r]] = u[r] + v[columnOf[r]]
  <2>1. PICK j \in 1..m : j = columnOf[r] /\ s.p[j] = r
    BY <1>3
  <2>2. r # 0
    BY <1>1
  <2>3. Gap(cost, s, r, j) = 0
    BY <2>1, <2>2 DEF Placed, Settled
  <2>4. /\ u[r] = s.u[r] /\ v[j] = s.v[j] /\ s.u[r] \in Int /\ s.v[j] \in Int
        /\ cost[r][j] \in Nat
    BY <1>6
  <2>5. cost[r][j] - s.u[r] - s.v[j] = 0
    BY <2>3 DEF Gap
  <2>6. cost[r][j] = u[r] + v[j]
    BY <2>4, <2>5
  <2> QED BY <2>1, <2>6
<1>10. ASSUME NEW j \in 1..m PROVE v[j] <= 0
  <2>1. 1 \in 1..n
    BY <1>1
  <2> QED BY <1>6, <2>1 DEF Placed, Priced
<1>11. ASSUME NEW j \in 1..m, \A r \in 1..n : columnOf[r] # j PROVE v[j] = 0
  <2>1. s.p[j] = 0
    <3> SUFFICES ASSUME s.p[j] # 0 PROVE FALSE
      OBVIOUS
    <3>1. s.p[j] \in 0..n
      BY <1>2
    <3>2. s.p[j] \in 1..n
      BY <1>1, <3>1
    <3>3. columnOf[s.p[j]] = j
      BY <1>2, <1>3, <3>2
    <3> QED BY <1>11, <3>2, <3>3
  <2>2. s.v[j] = 0
    BY <2>1 DEF Placed, Settled
  <2>3. 1 \in 1..n
    BY <1>1
  <2> QED BY <1>6, <2>2, <2>3
<1>12. Tight(cost, columnOf, n, m, u, v)
  BY <1>4, <1>5, <1>7, <1>8, <1>9, <1>10, <1>11 DEF Tight
<1> QED BY <1>12 DEF columnOf

---------------------------------------------------------------------------
(* Sums. *)

\* h has the sums of the first entries of g.
Sums(h, g, n) ==
  /\ h \in [0..n -> Int] /\ h[0] = 0
  /\ \A k \in 1..n : h[k] = h[k - 1] + g[k]

Sum(g, n) == (CHOOSE h : Sums(h, g, n))[n]

LEMMA SumsExist ==
  ASSUME NEW n \in Nat, NEW g \in [1..n -> Int]
  PROVE  \E h : Sums(h, g, n) /\ Sum(g, n) = h[n]
<1> DEFINE D == [k \in 0..n |-> Int]
           f == [k \in 1..n |-> [y \in Int |-> y + g[k]]]
<1>1. 0 \in D[0]
  OBVIOUS
<1>2. ASSUME NEW k \in 1..n, NEW y \in D[k - 1] PROVE f[k][y] \in D[k] /\ f[k][y] = y + g[k]
  <2>1. k - 1 \in 0..n /\ k \in 0..n /\ g[k] \in Int
    OBVIOUS
  <2>2. y \in Int
    BY <2>1
  <2> QED BY <2>1, <2>2
<1>3. PICK h : Loop(h, n, 0, f) /\ \A k \in 0..n : h[k] \in D[k]
  <2>1. \A k \in 1..n : \A y \in D[k - 1] : f[k][y] \in D[k]
    BY <1>2
  <2> HIDE DEF D, f
  <2> QED BY <1>1, <2>1, Course
<1>4. h = [k \in 0..n |-> IF k = 0 THEN 0 ELSE f[k][h[k - 1]]]
  <2> HIDE DEF f
  <2> QED BY <1>3 DEF Loop
<1>5. h \in [0..n -> Int]
  <2>1. \A k \in 0..n : h[k] \in Int
    BY <1>3
  <2> HIDE DEF f
  <2>2. DOMAIN h = 0..n /\ h = [k \in DOMAIN h |-> h[k]]
    BY <1>4
  <2> QED BY <2>1, <2>2
<1>6. h[0] = 0
  <2> HIDE DEF f
  <2> QED BY <1>4
<1>7. ASSUME NEW k \in 1..n PROVE h[k] = h[k - 1] + g[k]
  <2>1. k \in 0..n /\ k # 0 /\ k - 1 \in 0..n
    OBVIOUS
  <2>2. h[k] = f[k][h[k - 1]] /\ h[k - 1] \in D[k - 1]
    <3> HIDE DEF f, D
    <3> QED BY <1>3, <1>4, <2>1
  <2> HIDE DEF f, D
  <2> QED BY <1>2, <2>2
<1>8. Sums(h, g, n)
  BY <1>5, <1>6, <1>7 DEF Sums
<1> QED BY <1>8, Zenon DEF Sum

LEMMA SumIsInt ==
  ASSUME NEW n \in Nat, NEW g \in [1..n -> Int]
  PROVE  Sum(g, n) \in Int
<1> PICK h : Sums(h, g, n) /\ Sum(g, n) = h[n]
  BY SumsExist
<1> QED BY DEF Sums

LEMMA SumMonotone ==
  ASSUME NEW n \in Nat, NEW g \in [1..n -> Int], NEW d \in [1..n -> Int],
         \A k \in 1..n : g[k] <= d[k]
  PROVE  Sum(g, n) <= Sum(d, n)
<1> PICK h : Sums(h, g, n) /\ Sum(g, n) = h[n]
  BY SumsExist
<1> PICK e : Sums(e, d, n) /\ Sum(d, n) = e[n]
  BY SumsExist
<1> DEFINE P == [k \in 0..n |-> h[k] <= e[k]]
<1>0. 0 \in 0..n /\ n \in 0..n
  OBVIOUS
<1>1. P[0]
  <2>1. h[0] <= e[0]
    BY DEF Sums
  <2> QED BY <1>0, <2>1
<1>2. ASSUME NEW k \in 1..n, P[k - 1] PROVE P[k]
  <2>1. /\ k - 1 \in 0..n /\ k \in 0..n /\ g[k] \in Int /\ d[k] \in Int /\ g[k] <= d[k]
    OBVIOUS
  <2>2. /\ h[k - 1] \in Int /\ e[k - 1] \in Int
        /\ h[k] = h[k - 1] + g[k] /\ e[k] = e[k - 1] + d[k]
    BY <2>1 DEF Sums
  <2>3. h[k - 1] <= e[k - 1]
    BY <1>2, <2>1
  <2>4. h[k] <= e[k]
    BY <2>1, <2>2, <2>3
  <2> QED BY <2>1, <2>4
<1>3. \A k \in 0..n : P[k]
  <2> HIDE DEF P
  <2> QED BY <1>1, <1>2, Rounds
<1> QED BY <1>0, <1>3

LEMMA SumAdds ==
  ASSUME NEW n \in Nat, NEW g \in [1..n -> Int], NEW d \in [1..n -> Int],
         NEW c \in [1..n -> Int], \A k \in 1..n : c[k] = g[k] + d[k]
  PROVE  Sum(c, n) = Sum(g, n) + Sum(d, n)
<1> PICK h : Sums(h, g, n) /\ Sum(g, n) = h[n]
  BY SumsExist
<1> PICK e : Sums(e, d, n) /\ Sum(d, n) = e[n]
  BY SumsExist
<1> PICK b : Sums(b, c, n) /\ Sum(c, n) = b[n]
  BY SumsExist
<1> DEFINE P == [k \in 0..n |-> b[k] = h[k] + e[k]]
<1>0. 0 \in 0..n /\ n \in 0..n
  OBVIOUS
<1>1. P[0]
  <2>1. b[0] = h[0] + e[0]
    BY DEF Sums
  <2> QED BY <1>0, <2>1
<1>2. ASSUME NEW k \in 1..n, P[k - 1] PROVE P[k]
  <2>1. /\ k - 1 \in 0..n /\ k \in 0..n /\ g[k] \in Int /\ d[k] \in Int /\ c[k] = g[k] + d[k]
    OBVIOUS
  <2>2. /\ h[k - 1] \in Int /\ e[k - 1] \in Int /\ b[k] = b[k - 1] + c[k]
        /\ h[k] = h[k - 1] + g[k] /\ e[k] = e[k - 1] + d[k]
    BY <2>1 DEF Sums
  <2>3. b[k - 1] = h[k - 1] + e[k - 1]
    BY <1>2, <2>1
  <2>4. b[k] = h[k] + e[k]
    BY <2>1, <2>2, <2>3
  <2> QED BY <2>1, <2>4
<1>3. \A k \in 0..n : P[k]
  <2> HIDE DEF P
  <2> QED BY <1>1, <1>2, Rounds
<1> QED BY <1>0, <1>3

LEMMA SumOfZeros ==
  ASSUME NEW n \in Nat, NEW g \in [1..n -> Int], \A k \in 1..n : g[k] = 0
  PROVE  Sum(g, n) = 0
<1> PICK h : Sums(h, g, n) /\ Sum(g, n) = h[n]
  BY SumsExist
<1> DEFINE P == [k \in 0..n |-> h[k] = 0]
<1>0. 0 \in 0..n /\ n \in 0..n
  OBVIOUS
<1>1. P[0]
  <2>1. h[0] = 0
    BY DEF Sums
  <2> QED BY <1>0, <2>1
<1>2. ASSUME NEW k \in 1..n, P[k - 1] PROVE P[k]
  <2>1. k - 1 \in 0..n /\ k \in 0..n /\ g[k] = 0
    OBVIOUS
  <2>2. h[k] = h[k - 1] + g[k]
    BY DEF Sums
  <2>3. h[k - 1] = 0
    BY <1>2, <2>1
  <2>4. h[k] = 0
    BY <2>1, <2>2, <2>3
  <2> QED BY <2>1, <2>4
<1>3. \A k \in 0..n : P[k]
  <2> HIDE DEF P
  <2> QED BY <1>1, <1>2, Rounds
<1> QED BY <1>0, <1>3

\* A sum changes by as much as the one entry that changes.
LEMMA SumChanges ==
  ASSUME NEW n \in Nat, NEW g \in [1..n -> Int], NEW d \in [1..n -> Int],
         NEW x \in 1..n, \A k \in (1..n) \ {x} : g[k] = d[k]
  PROVE  Sum(d, n) = Sum(g, n) + (d[x] - g[x])
<1> PICK h : Sums(h, g, n) /\ Sum(g, n) = h[n]
  BY SumsExist
<1> PICK e : Sums(e, d, n) /\ Sum(d, n) = e[n]
  BY SumsExist
<1> PICK c \in Int : c = d[x] - g[x]
  OBVIOUS
<1> DEFINE P == [k \in 0..n |-> e[k] = h[k] + (IF k < x THEN 0 ELSE c)]
<1>0. 0 \in 0..n /\ n \in 0..n
  OBVIOUS
<1>1. P[0]
  <2>1. e[0] = h[0] + (IF 0 < x THEN 0 ELSE c)
    BY DEF Sums
  <2> QED BY <1>0, <2>1
<1>2. ASSUME NEW k \in 1..n, P[k - 1] PROVE P[k]
  <2>1. k - 1 \in 0..n /\ k \in 0..n /\ g[k] \in Int /\ d[k] \in Int
    OBVIOUS
  <2>2. /\ h[k - 1] \in Int /\ e[k - 1] \in Int
        /\ h[k] = h[k - 1] + g[k] /\ e[k] = e[k - 1] + d[k]
    BY <2>1 DEF Sums
  <2>3. e[k - 1] = h[k - 1] + (IF k - 1 < x THEN 0 ELSE c)
    BY <1>2, <2>1
  <2>4. d[k] = g[k] + (IF k = x THEN c ELSE 0)
    BY <2>1
  <2>5. e[k] = h[k] + (IF k < x THEN 0 ELSE c)
    <3>1. CASE k < x
      <4>1. k - 1 < x /\ k # x
        BY <3>1
      <4>2. e[k - 1] = h[k - 1] /\ d[k] = g[k]
        BY <2>1, <2>2, <2>3, <2>4, <4>1
      <4> QED BY <2>1, <2>2, <3>1, <4>2
    <3>2. CASE k = x
      <4>1. e[k - 1] = h[k - 1] /\ d[k] = g[k] + c
        <5>1. k - 1 < x
          BY <2>1, <3>2
        <5> QED BY <2>1, <2>2, <2>3, <2>4, <3>2, <5>1
      <4>2. e[k] = h[k] + c /\ ~(k < x)
        BY <2>1, <2>2, <3>2, <4>1
      <4> QED BY <4>2
    <3>3. CASE k > x
      <4>1. e[k - 1] = h[k - 1] + c /\ d[k] = g[k]
        BY <2>1, <2>2, <2>3, <2>4, <3>3
      <4>2. e[k] = h[k] + c
        BY <2>1, <2>2, <4>1
      <4>3. ~(k < x)
        BY <3>3
      <4> QED BY <4>2, <4>3
    <3> QED BY <3>1, <3>2, <3>3
  <2> QED BY <2>1, <2>5
<1>3. \A k \in 0..n : P[k]
  <2> HIDE DEF P
  <2> QED BY <1>1, <1>2, Rounds
<1>4. n \in 0..n /\ ~(n < x)
  OBVIOUS
<1>5. e[n] = h[n] + c
  BY <1>3, <1>4
<1> QED BY <1>5

\* SumFunction of the community modules takes the entries in any order; the sum
\* is the same.
Taking(g, s, it) == IF s = {} THEN 0 ELSE LET x == CHOOSE x \in s : TRUE IN g[x] + it[s \ {x}]

\* g with zeros outside s.
Only(g, n, s) == [k \in 1..n |-> IF k \in s THEN g[k] ELSE 0]

LEMMA SumTakes ==
  ASSUME NEW n \in Nat, NEW g \in [1..n -> Int], NEW s \in SUBSET (1..n), NEW x \in s
  PROVE  Sum(Only(g, n, s), n) = g[x] + Sum(Only(g, n, s \ {x}), n)
<1> DEFINE a == Only(g, n, s \ {x})
           b == Only(g, n, s)
<1>1. a \in [1..n -> Int] /\ b \in [1..n -> Int]
  BY DEF Only
<1>2. /\ x \in 1..n /\ a[x] = 0 /\ b[x] = g[x] /\ g[x] \in Int
      /\ \A k \in (1..n) \ {x} : a[k] = b[k]
  BY DEF Only
<1> HIDE DEF a, b
<1>3. Sum(b, n) = Sum(a, n) + (b[x] - a[x])
  <2>1. x \in 1..n /\ \A k \in (1..n) \ {x} : a[k] = b[k]
    BY <1>2
  <2> QED BY <1>1, <2>1, SumChanges
<1>4. Sum(a, n) \in Int
  BY <1>1, SumIsInt
<1>5. Sum(b, n) = g[x] + Sum(a, n)
  BY <1>2, <1>3, <1>4
<1> QED BY <1>5 DEF a, b

LEMMA SumFunctionSums ==
  ASSUME NEW n \in Nat, NEW g \in [1..n -> Int]
  PROVE  SumFunction(g) = Sum(g, n)
<1> DEFINE iter == CHOOSE it : it = [s \in SUBSET (1..n) |-> Taking(g, s, it)]
           h == [s \in SUBSET (1..n) |-> Sum(Only(g, n, s), n)]
<1>1. SumFunction(g) = iter[1..n]
  <2>1. DOMAIN g = 1..n
    OBVIOUS
  <2>2. SumFunction(g) = (CHOOSE it : it = [s \in SUBSET DOMAIN g |-> Taking(g, s, it)])[DOMAIN g]
    BY Zenon DEF SumFunction, SumFunctionOnSet, FoldFunctionOnSet, MapThenFoldSet, Taking
  <2> QED BY <2>1, <2>2
<1>2. ASSUME NEW s \in SUBSET (1..n) PROVE h[s] = Taking(g, s, h)
  <2>1. CASE s = {}
    <3>1. Only(g, n, s) \in [1..n -> Int] /\ \A k \in 1..n : Only(g, n, s)[k] = 0
      BY <2>1 DEF Only
    <3>2. Sum(Only(g, n, s), n) = 0
      BY <3>1, SumOfZeros
    <3> QED BY <2>1, <3>2 DEF Taking
  <2>2. CASE s # {}
    <3> DEFINE x == CHOOSE x \in s : TRUE
    <3>1. x \in s
      BY <2>2
    <3> HIDE DEF x
    <3>2. s \ {x} \in SUBSET (1..n)
      OBVIOUS
    <3>3. h[s] = g[x] + h[s \ {x}]
      BY <3>1, <3>2, SumTakes
    <3> HIDE DEF h
    <3> QED BY <2>2, <3>3 DEF Taking, x
  <2> QED BY <2>1, <2>2
<1>3. h = [s \in SUBSET (1..n) |-> Taking(g, s, h)]
  <2>1. DOMAIN h = SUBSET (1..n) /\ h = [s \in DOMAIN h |-> h[s]]
    OBVIOUS
  <2> HIDE DEF h
  <2> QED BY <1>2, <2>1
<1>4. iter = [s \in SUBSET (1..n) |-> Taking(g, s, iter)]
  <2>1. \E it : it = [s \in SUBSET (1..n) |-> Taking(g, s, it)]
    <3> HIDE DEF h
    <3> QED BY <1>3
  <2> QED BY <2>1
<1> HIDE DEF iter
<1>5. \A s \in SUBSET (1..n) : iter[s] = Taking(g, s, iter)
  BY <1>4
<1>6. \A s \in SUBSET (1..n) : IsFiniteSet(s) /\ Cardinality(s) \in Nat
  <2>1. IsFiniteSet(1..n)
    BY Count
  <2> QED BY <2>1, FS_Subset, FS_CardinalityType
<1> DEFINE X == {k \in Nat : \A s \in SUBSET (1..n) : Cardinality(s) = k => iter[s] = h[s]}
<1>7. ASSUME NEW s \in SUBSET (1..n),
             s # {} => \A x \in s : iter[s \ {x}] = h[s \ {x}]
      PROVE  iter[s] = h[s]
  <2> HIDE DEF h
  <2>1. CASE s = {}
    BY <1>2, <1>5, <2>1 DEF Taking
  <2>2. CASE s # {}
    <3>1. PICK x \in s : x = CHOOSE y \in s : TRUE
      BY <2>2
    <3>2. iter[s] = g[x] + iter[s \ {x}]
      BY <1>5, <2>2, <3>1 DEF Taking
    <3>3. h[s] = g[x] + h[s \ {x}]
      BY <1>2, <2>2, <3>1 DEF Taking
    <3> QED BY <1>7, <2>2, <3>2, <3>3
  <2> QED BY <2>1, <2>2
<1>8. 0 \in X
  <2>1. ASSUME NEW s \in SUBSET (1..n), Cardinality(s) = 0 PROVE iter[s] = h[s]
    <3>1. s = {}
      BY <1>6, <2>1, FS_EmptySet
    <3> HIDE DEF h
    <3> QED BY <1>7, <3>1
  <2> HIDE DEF h
  <2> QED BY <2>1
<1>9. ASSUME NEW k \in Nat, k \in X PROVE k + 1 \in X
  <2> HIDE DEF h
  <2>1. ASSUME NEW s \in SUBSET (1..n), Cardinality(s) = k + 1 PROVE iter[s] = h[s]
    <3>1. ASSUME NEW x \in s PROVE iter[s \ {x}] = h[s \ {x}]
      <4>1. Cardinality(s \ {x}) = Cardinality(s) - 1
        BY <1>6, FS_RemoveElement, Zenon
      <4>2. s \ {x} \in SUBSET (1..n) /\ Cardinality(s \ {x}) = k
        BY <2>1, <4>1
      <4> QED BY <1>9, <4>2
    <3> QED BY <1>7, <3>1
  <2> QED BY <2>1
<1>10. iter[1..n] = h[1..n]
  <2>1. Nat \subseteq X
    <3> HIDE DEF X
    <3> QED BY <1>8, <1>9, Induction
  <2>2. Cardinality(1..n) \in Nat /\ (1..n) \in SUBSET (1..n)
    BY <1>6
  <2> HIDE DEF h
  <2> QED BY <2>1, <2>2
<1>11. Only(g, n, 1..n) = g
  BY DEF Only
<1>12. h[1..n] = Sum(g, n)
  BY <1>11
<1> HIDE DEF h
<1> QED BY <1>1, <1>10, <1>12

\* Distinct entries of a function without positive entries add up to no less
\* than all of them, and to the same when the others are zero.
LEMMA DistinctSum ==
  ASSUME NEW n \in Nat, NEW m \in Nat, NEW w \in [1..m -> Int], \A j \in 1..m : w[j] <= 0,
         NEW f \in [1..n -> 1..m], \A r, q \in 1..n : f[r] = f[q] => r = q
  PROVE  LET some == [r \in 1..n |-> w[f[r]]]
         IN  /\ Sum(some, n) >= Sum(w, m)
             /\ (\A j \in 1..m : (\A r \in 1..n : f[r] # j) => w[j] = 0) => Sum(some, n) = Sum(w, m)
<1> DEFINE some == [r \in 1..n |-> w[f[r]]]
           rest == [k \in 0..n |-> [j \in 1..m |-> IF \E r \in 1..k : f[r] = j THEN 0 ELSE w[j]]]
<1>1. some \in [1..n -> Int] /\ \A r \in 1..n : some[r] = w[f[r]] /\ f[r] \in 1..m /\ w[f[r]] \in Int
  OBVIOUS
<1>2. \A k \in 0..n : rest[k] \in [1..m -> Int]
  OBVIOUS
<1>3. \A k \in 0..n : \A j \in 1..m :
         rest[k][j] = IF \E r \in 1..k : f[r] = j THEN 0 ELSE w[j]
  OBVIOUS
<1> HIDE DEF some, rest
<1> PICK h : Sums(h, some, n) /\ Sum(some, n) = h[n]
  BY <1>1, SumsExist
<1>4. Sum(w, m) \in Int
  BY SumIsInt
<1> DEFINE P == [k \in 0..n |-> Sum(rest[k], m) = Sum(w, m) - h[k]]
<1>5. P[0]
  <2>1. 0 \in 0..n /\ 1..0 = {}
    OBVIOUS
  <2>2. rest[0] = w
    BY <1>2, <1>3, <2>1
  <2>3. h[0] = 0
    BY DEF Sums
  <2>4. Sum(rest[0], m) = Sum(w, m) - h[0]
    BY <1>4, <2>2, <2>3
  <2> QED BY <2>1, <2>4
<1>6. ASSUME NEW k \in 1..n, P[k - 1] PROVE P[k]
  <2>1. k - 1 \in 0..n /\ k \in 0..n /\ f[k] \in 1..m /\ w[f[k]] \in Int
    OBVIOUS
  <2>2. 1..k = (1..(k - 1)) \union {k}
    OBVIOUS
  <2>3. rest[k - 1][f[k]] = w[f[k]]
    <3>1. \A r \in 1..(k - 1) : f[r] # f[k]
      <4> SUFFICES ASSUME NEW r \in 1..(k - 1), f[r] = f[k] PROVE FALSE
        OBVIOUS
      <4>1. r \in 1..n /\ r # k
        OBVIOUS
      <4> QED BY <4>1
    <3> QED BY <1>3, <2>1, <3>1
  <2>4. rest[k][f[k]] = 0
    <3>1. k \in 1..k
      OBVIOUS
    <3> QED BY <1>3, <2>1, <3>1
  <2>5. \A j \in (1..m) \ {f[k]} : rest[k - 1][j] = rest[k][j]
    <3> SUFFICES ASSUME NEW j \in 1..m, j # f[k] PROVE rest[k - 1][j] = rest[k][j]
      OBVIOUS
    <3>1. (\E r \in 1..k : f[r] = j) <=> (\E r \in 1..(k - 1) : f[r] = j)
      BY <2>2
    <3>2. rest[k - 1][j] = IF \E r \in 1..(k - 1) : f[r] = j THEN 0 ELSE w[j]
      BY <1>3, <2>1
    <3>3. rest[k][j] = IF \E r \in 1..k : f[r] = j THEN 0 ELSE w[j]
      BY <1>3, <2>1
    <3> QED BY <3>1, <3>2, <3>3
  <2>6. Sum(rest[k], m) = Sum(rest[k - 1], m) + (rest[k][f[k]] - rest[k - 1][f[k]])
    <3>1. rest[k - 1] \in [1..m -> Int] /\ rest[k] \in [1..m -> Int]
      BY <1>2, <2>1
    <3> QED BY <2>1, <2>5, <3>1, SumChanges
  <2>7. h[k] = h[k - 1] + w[f[k]] /\ h[k - 1] \in Int
    BY <1>1, <2>1 DEF Sums
  <2>8. Sum(rest[k - 1], m) = Sum(w, m) - h[k - 1]
    BY <1>6, <2>1
  <2>9. Sum(rest[k], m) = Sum(w, m) - h[k]
    BY <1>4, <2>1, <2>3, <2>4, <2>6, <2>7, <2>8
  <2> QED BY <2>1, <2>9
<1>7. \A k \in 0..n : P[k]
  <2> HIDE DEF P
  <2> QED BY <1>5, <1>6, Rounds
<1>8. n \in 0..n /\ h[n] \in Int /\ rest[n] \in [1..m -> Int]
  BY <1>2 DEF Sums
<1>9. Sum(rest[n], m) = Sum(w, m) - Sum(some, n)
  BY <1>7, <1>8
<1>10. Sum(rest[n], m) <= 0
  <2> DEFINE zeros == [j \in 1..m |-> 0]
  <2>1. zeros \in [1..m -> Int] /\ \A j \in 1..m : zeros[j] = 0
    OBVIOUS
  <2>2. \A j \in 1..m : rest[n][j] <= 0
    <3> SUFFICES ASSUME NEW j \in 1..m PROVE rest[n][j] <= 0
      OBVIOUS
    <3>1. rest[n][j] \in {0, w[j]} /\ w[j] <= 0
      BY <1>3, <1>8
    <3> QED BY <3>1
  <2> HIDE DEF zeros
  <2>3. \A j \in 1..m : rest[n][j] <= zeros[j]
    BY <2>1, <2>2
  <2>4. Sum(rest[n], m) <= Sum(zeros, m)
    BY <1>8, <2>1, <2>3, SumMonotone
  <2>5. Sum(zeros, m) = 0
    BY <2>1, SumOfZeros
  <2> QED BY <2>4, <2>5
<1>11. ASSUME \A j \in 1..m : (\A r \in 1..n : f[r] # j) => w[j] = 0
       PROVE  Sum(rest[n], m) = 0
  <2>1. \A j \in 1..m : rest[n][j] = 0
    BY <1>3, <1>8, <1>11
  <2> QED BY <1>8, <2>1, SumOfZeros
<1>12. Sum(some, n) \in Int
  BY <1>8
<1>13. Sum(some, n) >= Sum(w, m)
  BY <1>4, <1>9, <1>10, <1>12
<1>14. ASSUME \A j \in 1..m : (\A r \in 1..n : f[r] # j) => w[j] = 0
       PROVE  Sum(some, n) = Sum(w, m)
  <2>1. Sum(rest[n], m) = 0
    BY <1>11, <1>14
  <2> QED BY <1>4, <1>9, <1>12, <2>1
<1> QED BY <1>13, <1>14 DEF some

\* The costs of a choice of columns.
Cells(cost, f, n) == [r \in 1..n |-> cost[r][f[r]]]

LEMMA TotalIsSum ==
  ASSUME NEW cost, NEW n, NEW m, IsTable(cost, n, m), NEW f \in [1..n -> 1..m]
  PROVE  Cells(cost, f, n) \in [1..n -> Int] /\ Total(cost, f) = Sum(Cells(cost, f, n), n)
<1> DEFINE cells == Cells(cost, f, n)
<1>1. n \in Nat /\ Rows(cost) = 1..n
  BY TableFacts
<1>2. cells \in [1..n -> Int]
  <2>1. ASSUME NEW r \in 1..n PROVE cost[r][f[r]] \in Int
    <3>1. f[r] \in 1..m
      OBVIOUS
    <3>2. cost[r][f[r]] \in Nat
      BY <3>1, TableFacts
    <3> QED BY <3>2
  <2> QED BY <2>1 DEF Cells
<1>3. Total(cost, f) = SumFunction(cells)
  <2>1. Total(cost, f) = SumFunction([i \in Rows(cost) |-> cost[i][f[i]]])
    BY Zenon DEF Total
  <2>2. [i \in Rows(cost) |-> cost[i][f[i]]] = cells
    BY <1>1 DEF Cells
  <2> QED BY <2>1, <2>2, Zenon
<1> HIDE DEF cells
<1>4. Total(cost, f) = Sum(cells, n)
  BY <1>1, <1>2, <1>3, SumFunctionSums
<1> QED BY <1>2, <1>4 DEF cells

\* A tight choice of columns costs the least.
LEMMA TightIsCheapest ==
  ASSUME NEW cost, NEW n, NEW m, IsTable(cost, n, m), NEW columnOf, NEW u, NEW v,
         Tight(cost, columnOf, n, m, u, v),
         NEW f \in [1..n -> 1..m], \A r, q \in 1..n : f[r] = f[q] => r = q
  PROVE  Total(cost, columnOf) <= Total(cost, f)
<1> DEFINE cells == Cells(cost, f, n)
           chosen == Cells(cost, columnOf, n)
           vf == [r \in 1..n |-> v[f[r]]]
           vc == [r \in 1..n |-> v[columnOf[r]]]
           bound == [r \in 1..n |-> u[r] + v[f[r]]]
<1>1. n \in Nat /\ m \in Nat
  BY TableFacts
<1>2. /\ columnOf \in [1..n -> 1..m] /\ \A r, q \in 1..n : columnOf[r] = columnOf[q] => r = q
      /\ u \in [1..n -> Int] /\ v \in [1..m -> Int] /\ \A j \in 1..m : v[j] <= 0
      /\ \A j \in 1..m : (\A r \in 1..n : columnOf[r] # j) => v[j] = 0
  BY DEF Tight
<1>3. cells \in [1..n -> Int] /\ Total(cost, f) = Sum(cells, n)
  BY TotalIsSum
<1>4. chosen \in [1..n -> Int] /\ Total(cost, columnOf) = Sum(chosen, n)
  BY <1>2, TotalIsSum
<1>5. vf \in [1..n -> Int] /\ vc \in [1..n -> Int] /\ bound \in [1..n -> Int]
  <2>1. ASSUME NEW r \in 1..n
        PROVE  v[f[r]] \in Int /\ v[columnOf[r]] \in Int /\ u[r] + v[f[r]] \in Int
    <3>1. f[r] \in 1..m /\ columnOf[r] \in 1..m
      BY <1>2
    <3>2. u[r] \in Int /\ v[f[r]] \in Int /\ v[columnOf[r]] \in Int
      BY <1>2, <3>1
    <3> QED BY <3>2
  <2> QED BY <2>1
<1>6. ASSUME NEW r \in 1..n
      PROVE  /\ bound[r] = u[r] + vf[r] /\ bound[r] <= cells[r]
             /\ chosen[r] = u[r] + vc[r]
  <2>1. f[r] \in 1..m
    OBVIOUS
  <2>2. cost[r][f[r]] >= u[r] + v[f[r]] /\ cost[r][columnOf[r]] = u[r] + v[columnOf[r]]
    BY <2>1 DEF Tight
  <2>3. cells[r] \in Int /\ bound[r] \in Int
    BY <1>3, <1>5
  <2>4. cells[r] = cost[r][f[r]] /\ chosen[r] = cost[r][columnOf[r]]
    BY DEF Cells
  <2> QED BY <2>2, <2>3, <2>4
<1>7. Sum(vf, n) >= Sum(v, m)
  BY <1>1, <1>2, DistinctSum
<1>8. Sum(vc, n) = Sum(v, m)
  BY <1>1, <1>2, DistinctSum
<1> HIDE DEF cells, chosen, vf, vc, bound
<1>9. Sum(bound, n) = Sum(u, n) + Sum(vf, n)
  BY <1>1, <1>2, <1>5, <1>6, SumAdds
<1>10. Sum(chosen, n) = Sum(u, n) + Sum(vc, n)
  <2>1. \A r \in 1..n : chosen[r] = u[r] + vc[r]
    BY <1>6
  <2> QED BY <1>1, <1>2, <1>4, <1>5, <2>1, SumAdds
<1>11. Sum(bound, n) <= Sum(cells, n)
  BY <1>1, <1>3, <1>5, <1>6, SumMonotone
<1>12. /\ Sum(bound, n) \in Int /\ Sum(cells, n) \in Int /\ Sum(u, n) \in Int
       /\ Sum(vf, n) \in Int /\ Sum(vc, n) \in Int /\ Sum(v, m) \in Int
  BY <1>1, <1>2, <1>3, <1>5, SumIsInt
<1> QED BY <1>3, <1>4, <1>7, <1>8, <1>9, <1>10, <1>11, <1>12

LEMMA HungarianIsOptimal ==
  ASSUME NEW cost, NEW n, NEW m, IsTable(cost, n, m)
  PROVE  /\ Hungarian(cost) \in Injection(Rows(cost), Columns(cost))
         /\ Total(cost, Hungarian(cost)) = Optimum(cost)
<1> DEFINE columnOf == Hungarian(cost)
           choices == Injection(Rows(cost), Columns(cost))
           totals == {Total(cost, f) : f \in choices}
<1>1. PICK u, v : Tight(cost, columnOf, n, m, u, v)
  BY HungarianIsTight
<1>2. n \in Nat /\ Rows(cost) = 1..n /\ Columns(cost) = 1..m
  BY TableFacts
<1> HIDE DEF columnOf
<1>3. \A f : f \in choices <=> /\ f \in [1..n -> 1..m]
                               /\ \A r, q \in 1..n : f[r] = f[q] => r = q
  BY <1>2 DEF Injection, IsInjective
<1>4. columnOf \in choices
  BY <1>1, <1>3 DEF Tight
<1>5. ASSUME NEW f \in choices
      PROVE  Total(cost, f) \in Int /\ Total(cost, columnOf) <= Total(cost, f)
  <2>1. f \in [1..n -> 1..m] /\ \A r, q \in 1..n : f[r] = f[q] => r = q
    BY <1>3
  <2>2. Total(cost, columnOf) <= Total(cost, f)
    BY <1>1, <2>1, TightIsCheapest
  <2> DEFINE cells == Cells(cost, f, n)
  <2>3. cells \in [1..n -> Int] /\ Total(cost, f) = Sum(cells, n)
    BY <2>1, TotalIsSum
  <2> HIDE DEF cells
  <2>4. Total(cost, f) \in Int
    BY <1>2, <2>3, SumIsInt
  <2> QED BY <2>2, <2>4
<1>6. Total(cost, columnOf) = Min(totals)
  <2> DEFINE least == Total(cost, columnOf)
  <2> HIDE DEF choices
  <2>1. least \in totals /\ \A x \in totals : x \in Int /\ least <= x
    BY <1>4, <1>5
  <2> HIDE DEF totals, least
  <2>2. Min(totals) \in totals /\ \A y \in totals : Min(totals) <= y
    BY <2>1 DEF Min
  <2>3. Min(totals) <= least /\ least <= Min(totals) /\ least \in Int /\ Min(totals) \in Int
    BY <2>1, <2>2
  <2> QED BY <2>3 DEF least
<1>7. Total(cost, columnOf) = Optimum(cost)
  BY <1>6 DEF Optimum
<1> QED BY <1>4, <1>7 DEF columnOf

\* The calls that are made, and what is returned.
Associated ==
  call.of = "associate" =>
    /\ \E n, m : IsTable(call.cost, n, m)
    /\ returned # <<>> => returned = <<Hungarian(call.cost)>>

LEMMA TablesAreTables ==
  ASSUME NEW cost \in Tables, Cardinality(Rows(cost)) <= Cardinality(Columns(cost))
  PROVE  \E n, m : IsTable(cost, n, m)
<1> PICK n \in 1..MaxRows, m \in 1..MaxColumns : cost \in [1..n -> [1..m -> Costs]]
  BY DEF Tables
<1>1. n \in Nat \ {0} /\ m \in Nat
  BY SizesAssumption
<1>2. cost \in [1..n -> [1..m -> Nat]]
  <2>1. \A r \in 1..n : \A j \in 1..m : cost[r][j] \in Nat
    BY CostsAssumption
  <2>2. \A r \in 1..n : cost[r] \in [1..m -> Nat]
    BY <2>1
  <2> QED BY <2>2
<1>3. Rows(cost) = 1..n /\ Columns(cost) = 1..m
  BY <1>1, <1>2 DEF Rows, Columns
<1>4. Cardinality(1..n) = n
  BY <1>1, Count
<1>5. Cardinality(1..m) = m
  BY <1>1, Count
<1>6. IsTable(cost, n, m)
  BY <1>1, <1>2, <1>3, <1>4, <1>5 DEF IsTable
<1> QED BY <1>6

\* For any number of rows, no more than columns, and any costs: the association
\* of TrackManager (hungarian) gives each row a column of its own, at the least
\* total. No two detections get one track, and no better pairing is missed.
THEOREM AssociationIsCheapest == Calls => []AssociationOptimal
<1>1. CallInit => Associated
  <2> SUFFICES ASSUME CallInit PROVE Associated
    OBVIOUS
  <2>1. CASE call.of = "associate"
    <3>1. PICK cost \in Tables : /\ Cardinality(Rows(cost)) <= Cardinality(Columns(cost))
                                 /\ call = [of |-> "associate", cost |-> cost]
      BY <2>1 DEF CallInit
    <3>2. \E n, m : IsTable(call.cost, n, m)
      BY <3>1, TablesAreTables
    <3>3. returned = <<>>
      BY DEF CallInit
    <3> QED BY <3>2, <3>3 DEF Associated
  <2>2. CASE call.of # "associate"
    BY <2>2 DEF Associated
  <2> QED BY <2>1, <2>2
<1>2. Associated /\ [Return]_callVars => Associated'
  <2> SUFFICES ASSUME Associated, [Return]_callVars PROVE Associated'
    OBVIOUS
  <2>1. CASE Associate
    BY <2>1 DEF Associate, Associated
  <2>2. CASE Check
    BY <2>2 DEF Check, Associated
  <2>3. CASE Fill
    BY <2>3 DEF Fill, Associated
  <2>4. CASE UNCHANGED callVars
    BY <2>4 DEF callVars, Associated
  <2> QED BY <2>1, <2>2, <2>3, <2>4 DEF Return
<1>3. Associated => AssociationOptimal
  <2> SUFFICES ASSUME Associated, call.of = "associate", returned # <<>>
               PROVE  /\ returned[1] \in Injection(Rows(call.cost), Columns(call.cost))
                      /\ Total(call.cost, returned[1]) = Optimum(call.cost)
    BY DEF AssociationOptimal
  <2>1. returned[1] = Hungarian(call.cost)
    BY DEF Associated
  <2>2. PICK n, m : IsTable(call.cost, n, m)
    BY DEF Associated
  <2> QED BY <2>1, <2>2, HungarianIsOptimal
<1> QED BY <1>1, <1>2, <1>3, PTL DEF Calls

---------------------------------------------------------------------------
(* The observations and the projector. *)

USE TrackAssumption, ProjectionAssumption

---------------------------------------------------------------------------
(* The projector fails closed. *)

\* A configuration that names a registry leaves nothing but the registry's
\* entry or none: the invariant FailsClosed rests on.
Closed == named /\ ~broke => active /\ entry \in {"registry", "absent"}

LEMMA ClosedKept == ASSUME Closed, [Next]_vars PROVE Closed'
<1>1. CASE Frame
  <2>1. UNCHANGED settings
    BY <1>1 DEF Frame, OnObservations, DropObservations
  <2>2. UNCHANGED <<named, broke>>
    BY <1>1 DEF Frame
  <2> QED BY <2>1, <2>2 DEF Closed, settings
<1>2. CASE Time
  BY <1>2 DEF Closed, Time, Elapse, settings
<1>3. CASE TrackerChanges
  BY <1>3 DEF Closed, TrackerChanges, settings
<1>4. CASE ProjectorChanges
  <2> PICK on \in BOOLEAN, rate \in Periods :
        \/ \E names \in BOOLEAN :
             InitThrows(on, rate) /\ named' = names /\ broke' = TRUE
        \/ /\ \/ \E loaded \in {"registry", "absent"} : InitRegistry(on, rate, loaded)
              \/ InitWrongType(on, rate)
           /\ named' = TRUE /\ broke' = FALSE
        \/ /\ \E listed \in {"config", "absent"} : InitTable(on, rate, listed)
           /\ named' = FALSE /\ broke' = FALSE
        \/ SetEnabled(on) /\ UNCHANGED <<named, broke>>
    BY <1>4 DEF ProjectorChanges
  <2>1. CASE broke' = TRUE
    BY <2>1 DEF Closed
  <2>2. CASE \E loaded \in {"registry", "absent"} : InitRegistry(on, rate, loaded)
    BY <2>2 DEF Closed, InitRegistry
  <2>3. CASE InitWrongType(on, rate)
    BY <2>3 DEF Closed, InitWrongType, InitRegistry
  <2>4. CASE named' = FALSE
    BY <2>4 DEF Closed
  <2>5. CASE SetEnabled(on) /\ UNCHANGED <<named, broke>>
    BY <2>5 DEF Closed, SetEnabled
  <2> QED BY <2>1, <2>2, <2>3, <2>4, <2>5
<1>5. CASE UNCHANGED vars
  BY <1>5 DEF Closed, vars, geoVars, history
<1> QED BY <1>1, <1>2, <1>3, <1>4, <1>5 DEF Next

\* Nothing is projected with a mount that is not the registry's while the last
\* configuration names a registry, however it was reconfigured before
\* (m_registry_active and the early return of onObservations).
THEOREM ProjectorFailsClosed == Spec => FailsClosed
<1>1. Init => Closed
  BY DEF Init, GeoInit, Closed
<1>2. ASSUME Closed, [Next]_vars
      PROVE  [DOMAIN projected' # {} /\ named /\ ~broke => entry = "registry"]_vars
  <2>1. CASE Frame
    BY <1>2, <2>1 DEF Closed, Frame, OnObservations, DropObservations, Quiet
  <2>2. CASE Time \/ TrackerChanges \/ ProjectorChanges
    <3>1. Quiet
      BY <2>2 DEF Time, Elapse, TrackerChanges, ProjectorChanges, InitThrows, InitRegistry,
         InitWrongType, InitTable, SetEnabled
    <3>2. DOMAIN projected' = {}
      BY <3>1 DEF Quiet
    <3> QED BY <3>2
  <2> QED BY <1>2, <2>1, <2>2 DEF Next
<1> QED BY <1>1, <1>2, ClosedKept, PTL DEF Spec, FailsClosed

---------------------------------------------------------------------------
(* The tracks that are published. *)

\* The history covers the ids that were given.
Remembered ==
    /\ nextId \in Nat \ {0}
    /\ config.confirm \in Nat \ {0} /\ config.misses \in Nat
    /\ DOMAIN gap = DOMAIN streak /\ DOMAIN worst = DOMAIN streak
    /\ DOMAIN streak \subseteq 1..(nextId - 1)
    /\ \A id \in DOMAIN streak : streak[id] \in 0..HitCap /\ gap[id] \in Nat /\ worst[id] \in Nat
    /\ DOMAIN tracks \subseteq DOMAIN streak /\ seen \subseteq DOMAIN streak

IsTrack(track) == \E c : track \in [cls : {c}, hits : 0..HitCap, misses : Nat, confirmed : BOOLEAN]

\* The misses of a track are its gap; a tentative one was seen in every frame,
\* a confirmed one in as many as it takes.
Followed(track, id) ==
    /\ IsTrack(track)
    /\ track.misses = gap[id]
    /\ ~track.confirmed =>
          /\ gap[id] = 0 /\ worst[id] = 0
          /\ track.hits = streak[id] /\ streak[id] < config.confirm
    /\ track.confirmed =>
          streak[id] >= config.confirm /\ gap[id] <= config.misses /\ worst[id] <= config.misses

TracksFollowed == \A id \in DOMAIN tracks : Followed(tracks[id], id)

RulesInv == ~changed => Remembered /\ TracksFollowed /\ PublishedByTheRules

LEMMA HitFacts ==
  ASSUME NEW track, IsTrack(track), config.confirm \in Nat
  PROVE  /\ IsTrack(Hit(track))
         /\ Hit(track).hits = Capped(track.hits + 1, HitCap)
         /\ Hit(track).misses = 0
         /\ Hit(track).confirmed <=> track.confirmed \/ Capped(track.hits + 1, HitCap) >= config.confirm
<1> PICK c : track \in [cls : {c}, hits : 0..HitCap, misses : Nat, confirmed : BOOLEAN]
  BY DEF IsTrack
<1> DEFINE hits == IF track.hits = HitCap THEN HitCap ELSE track.hits + 1
           sure == track.confirmed \/ hits >= config.confirm
<1>1. hits = Capped(track.hits + 1, HitCap) /\ hits \in 0..HitCap
  BY DEF Capped
<1>2. sure \in BOOLEAN
  OBVIOUS
<1>3. Hit(track) = [track EXCEPT !.hits = hits, !.misses = 0, !.confirmed = sure]
  BY Zenon DEF Hit
<1> HIDE DEF hits, sure
<1>4. /\ Hit(track) \in [cls : {c}, hits : 0..HitCap, misses : Nat, confirmed : BOOLEAN]
      /\ Hit(track).hits = hits /\ Hit(track).misses = 0 /\ Hit(track).confirmed = sure
  <2>1. track = [cls |-> track.cls, hits |-> track.hits, misses |-> track.misses,
                 confirmed |-> track.confirmed] /\ track.cls = c
    OBVIOUS
  <2>2. Hit(track) = [cls |-> c, hits |-> hits, misses |-> 0, confirmed |-> sure]
    BY <1>3, <2>1
  <2> QED BY <1>1, <1>2, <2>2
<1>5. IsTrack(Hit(track))
  BY <1>4 DEF IsTrack
<1> USE DEF sure
<1> QED BY <1>1, <1>4, <1>5

LEMMA MissFacts ==
  ASSUME NEW track, IsTrack(track)
  PROVE  /\ IsTrack(Miss(track))
         /\ Miss(track).misses = track.misses + 1
         /\ Miss(track).confirmed = track.confirmed
<1> PICK c : track \in [cls : {c}, hits : 0..HitCap, misses : Nat, confirmed : BOOLEAN]
  BY DEF IsTrack
<1>1. Miss(track) = [track EXCEPT !.misses = track.misses + 1, !.hits = 0]
  BY DEF Miss
<1>2. /\ Miss(track) \in [cls : {c}, hits : 0..HitCap, misses : Nat, confirmed : BOOLEAN]
      /\ Miss(track).misses = track.misses + 1 /\ Miss(track).confirmed = track.confirmed
  <2>1. track = [cls |-> track.cls, hits |-> track.hits, misses |-> track.misses,
                 confirmed |-> track.confirmed] /\ track.cls = c
    OBVIOUS
  <2>2. Miss(track) = [cls |-> c, hits |-> 0, misses |-> track.misses + 1,
                       confirmed |-> track.confirmed]
    BY <1>1, <2>1
  <2> QED BY <2>2
<1> QED BY <1>2 DEF IsTrack

LEMMA NewTrackFacts ==
  ASSUME NEW cls, config.confirm \in Nat
  PROVE  /\ IsTrack(Hit(Unborn(cls)))
         /\ Hit(Unborn(cls)).hits = 1 /\ Hit(Unborn(cls)).misses = 0
         /\ Hit(Unborn(cls)).confirmed <=> 1 >= config.confirm
<1>1. /\ Unborn(cls) \in [cls : {cls}, hits : 0..HitCap, misses : Nat, confirmed : BOOLEAN]
      /\ Unborn(cls).hits = 0 /\ Unborn(cls).confirmed = FALSE
  BY DEF Unborn
<1>2. IsTrack(Unborn(cls))
  BY <1>1 DEF IsTrack
<1>3. Capped(Unborn(cls).hits + 1, HitCap) = 1
  BY <1>1 DEF Capped
<1> QED BY <1>1, <1>2, <1>3, HitFacts

StartsTrack(id) ==
    \E cls \in Classes :
        /\ id \in published' <=> Hit(Unborn(cls)).confirmed
        /\ id \in DOMAIN tracks' => tracks'[id] = Hit(Unborn(cls))

LEMMA UpdateFacts ==
  ASSUME nextId \in Nat \ {0}, DOMAIN tracks \subseteq 1..(nextId - 1),
         NEW frame \in Frames, NEW pairing \in Pairings(frame), Update(frame, pairing)
  PROVE  /\ nextId' \in Nat /\ nextId <= nextId' /\ config' = config
         /\ DOMAIN tracks' \subseteq seen' \union DOMAIN tracks
         /\ published' \subseteq seen'
         /\ \A id \in seen' \ DOMAIN tracks :
              id \in nextId..(nextId' - 1) /\ StartsTrack(id)
         /\ \A id \in seen' \intersect DOMAIN tracks :
              /\ id \in published' <=> Hit(tracks[id]).confirmed
              /\ id \in DOMAIN tracks' => tracks'[id] = Hit(tracks[id])
         /\ \A id \in DOMAIN tracks \ seen' :
              id \in DOMAIN tracks' => tracks'[id] = Miss(tracks[id]) /\ ~Dead(Miss(tracks[id]))
<1> DEFINE unpaired == DOMAIN frame \ DOMAIN pairing
           Smaller(d) == {e \in unpaired : e < d}
           IdOf(d) == IF d \in DOMAIN pairing THEN pairing[d] ELSE nextId + Cardinality(Smaller(d))
           matched == {pairing[d] : d \in DOMAIN pairing}
           born == {IdOf(d) : d \in unpaired}
           ClassOf(id) == frame[CHOOSE d \in unpaired : IdOf(d) = id]
           After(id) == IF id \in matched THEN Hit(tracks[id])
                        ELSE IF id \in DOMAIN tracks THEN Miss(tracks[id])
                        ELSE Hit(Unborn(ClassOf(id)))
           next == [id \in DOMAIN tracks \union born |-> After(id)]
<1>1. /\ nextId' = nextId + Cardinality(unpaired)
      /\ seen' = matched \union born
      /\ published' = {id \in seen' : next[id].confirmed}
      /\ tracks' = [id \in {i \in DOMAIN next : ~Dead(next[i])} |-> next[id]]
      /\ config' = config
  BY DEF Update
<1>2. IsFiniteSet(unpaired) /\ Cardinality(unpaired) \in Nat
  <2>1. PICK n \in 0..MaxDets : frame \in [1..n -> Classes]
    BY DEF Frames
  <2>2. IsFiniteSet(1..n) /\ unpaired \in SUBSET (1..n)
    <3>1. n \in Nat
      BY TrackAssumption
    <3>2. unpaired \in SUBSET (1..n)
      BY <2>1
    <3> QED BY <3>1, <3>2, Count
  <2>3. IsFiniteSet(unpaired)
    BY <2>2, FS_Subset
  <2> QED BY <2>3, FS_CardinalityType
<1>3. ASSUME NEW d \in unpaired PROVE IdOf(d) \in nextId..(nextId' - 1)
  <2>1. Smaller(d) \in SUBSET unpaired /\ d \notin Smaller(d)
    <3>1. PICK n \in 0..MaxDets : frame \in [1..n -> Classes]
      BY DEF Frames
    <3>2. d \in Int
      BY <1>3, <3>1
    <3> QED BY <3>2
  <2>2. IsFiniteSet(Smaller(d)) /\ Cardinality(Smaller(d)) <= Cardinality(unpaired)
        /\ (Cardinality(unpaired) = Cardinality(Smaller(d)) => unpaired = Smaller(d))
    <3> HIDE DEF unpaired, Smaller
    <3> QED BY <1>2, <2>1, FS_Subset
  <2>3. Cardinality(Smaller(d)) \in Nat
    <3> HIDE DEF unpaired, Smaller
    <3> QED BY <2>2, FS_CardinalityType
  <2>4. Cardinality(Smaller(d)) # Cardinality(unpaired)
    <3> HIDE DEF unpaired, Smaller
    <3> QED BY <1>3, <2>1, <2>2
  <2>5. IdOf(d) = nextId + Cardinality(Smaller(d))
    BY <1>3
  <2> HIDE DEF unpaired, Smaller, IdOf
  <2> QED BY <1>1, <1>2, <2>2, <2>3, <2>4, <2>5
<1>4. matched \subseteq DOMAIN tracks
  BY DEF Pairings
<1>5. \A id \in born : id \in nextId..(nextId' - 1) /\ id \notin DOMAIN tracks
  <2> HIDE DEF IdOf, unpaired
  <2>1. \A id \in born : id \in nextId..(nextId' - 1)
    BY <1>3
  <2>2. \A id \in DOMAIN tracks : id \in 1..(nextId - 1)
    OBVIOUS
  <2> HIDE DEF born
  <2> QED BY <2>1, <2>2
<1>c. \A id \in born : ClassOf(id) \in Classes
  <2>1. PICK n \in 0..MaxDets : frame \in [1..n -> Classes]
    BY DEF Frames
  <2>2. \A d \in unpaired : frame[d] \in Classes
    BY <2>1
  <2> HIDE DEF IdOf, unpaired
  <2> QED BY <2>2
<1> HIDE DEF unpaired, IdOf, matched, born, ClassOf
<1>6. /\ DOMAIN next = DOMAIN tracks \union born
      /\ \A id \in DOMAIN tracks \union born : next[id] = After(id)
  OBVIOUS
<1> HIDE DEF next
<1>7. /\ \A id \in seen' : id \in published' <=> After(id).confirmed
      /\ \A id \in DOMAIN tracks' : tracks'[id] = After(id) /\ ~Dead(After(id))
      /\ DOMAIN tracks' \subseteq DOMAIN tracks \union born
  BY <1>1, <1>4, <1>6
<1>8. ASSUME NEW id \in seen' \ DOMAIN tracks
      PROVE  id \in nextId..(nextId' - 1) /\ StartsTrack(id)
  <2>1. id \in born /\ id \notin matched
    BY <1>1, <1>4, <1>8
  <2>2. After(id) = Hit(Unborn(ClassOf(id))) /\ ClassOf(id) \in Classes
    BY <1>8, <1>c, <2>1
  <2> HIDE DEF After
  <2>3. StartsTrack(id)
    BY <1>7, <1>8, <2>2 DEF StartsTrack
  <2> QED BY <1>5, <2>1, <2>3
<1>9. ASSUME NEW id \in seen' \intersect DOMAIN tracks
      PROVE  /\ id \in published' <=> Hit(tracks[id]).confirmed
             /\ id \in DOMAIN tracks' => tracks'[id] = Hit(tracks[id])
  <2>1. After(id) = Hit(tracks[id])
    BY <1>1, <1>5, <1>9
  <2> HIDE DEF After
  <2> QED BY <1>7, <1>9, <2>1
<1>10. ASSUME NEW id \in DOMAIN tracks \ seen', id \in DOMAIN tracks'
       PROVE  tracks'[id] = Miss(tracks[id]) /\ ~Dead(Miss(tracks[id]))
  <2>1. After(id) = Miss(tracks[id])
    BY <1>1, <1>10
  <2> HIDE DEF After
  <2> QED BY <1>7, <1>10, <2>1
<1>11. nextId' \in Nat /\ nextId <= nextId'
  BY <1>1, <1>2
<1>12. published' \subseteq seen' /\ DOMAIN tracks' \subseteq seen' \union DOMAIN tracks
  BY <1>1, <1>7
<1> QED BY <1>1, <1>8, <1>9, <1>10, <1>11, <1>12

\* What Remember makes of the history of an id: seen again, new, or missed.
LEMMA RememberFacts ==
  ASSUME Remembered, Remember, config' = config
  PROVE  /\ DOMAIN streak' = DOMAIN streak \union seen'
         /\ DOMAIN gap' = DOMAIN streak' /\ DOMAIN worst' = DOMAIN streak'
         /\ \A id \in DOMAIN streak' :
              streak'[id] \in 0..HitCap /\ gap'[id] \in Nat /\ worst'[id] \in Nat
         /\ \A id \in seen' \ DOMAIN streak : streak'[id] = 1 /\ gap'[id] = 0 /\ worst'[id] = 0
         /\ \A id \in seen' \intersect DOMAIN streak :
              /\ gap'[id] = 0 /\ worst'[id] = worst[id]
              /\ IF gap[id] = 0 /\ worst[id] = 0
                 THEN streak'[id] = Capped(streak[id] + 1, HitCap)
                 ELSE streak'[id] = streak[id]
         /\ \A id \in DOMAIN streak \ seen' :
              /\ streak'[id] = streak[id]
              /\ gap'[id] = Capped(gap[id] + 1, config.misses + 1)
              /\ worst'[id] = IF gap'[id] > worst[id] THEN gap'[id] ELSE worst[id]
<1> DEFINE ids == DOMAIN streak \union seen'
           unbroken(id) == At(worst, id) = 0 /\ At(gap, id) = 0
           gapNow(id) == IF id \in seen' THEN 0 ELSE Capped(At(gap, id) + 1, config.misses + 1)
           streakNow(id) == IF id \in seen' /\ unbroken(id)
                            THEN Capped(At(streak, id) + 1, HitCap) ELSE At(streak, id)
           worstNow(id) == IF gapNow(id) > At(worst, id) THEN gapNow(id) ELSE At(worst, id)
<1>1. /\ streak' = [id \in ids |-> streakNow(id)]
      /\ gap' = [id \in ids |-> gapNow(id)]
      /\ worst' = [id \in ids |-> worstNow(id)]
  BY DEF Remember
<1>2. /\ DOMAIN streak' = ids /\ DOMAIN gap' = ids /\ DOMAIN worst' = ids
      /\ \A id \in ids : streak'[id] = streakNow(id) /\ gap'[id] = gapNow(id) /\ worst'[id] = worstNow(id)
  <2> HIDE DEF ids, streakNow, gapNow, worstNow
  <2> QED BY <1>1
<1>3. \A id \in DOMAIN streak :
        /\ At(streak, id) = streak[id] /\ At(gap, id) = gap[id] /\ At(worst, id) = worst[id]
        /\ streak[id] \in 0..HitCap /\ gap[id] \in Nat /\ worst[id] \in Nat
  BY DEF Remembered, At
<1>4. \A id : id \notin DOMAIN streak => At(streak, id) = 0 /\ At(gap, id) = 0 /\ At(worst, id) = 0
  BY DEF Remembered, At
<1>5. config.misses \in Nat
  BY DEF Remembered
<1> HIDE DEF ids
<1>6. ASSUME NEW id \in seen' \ DOMAIN streak
      PROVE  streakNow(id) = 1 /\ gapNow(id) = 0 /\ worstNow(id) = 0
  BY <1>4, <1>6 DEF Capped
<1>7. ASSUME NEW id \in seen' \intersect DOMAIN streak
      PROVE  /\ gapNow(id) = 0 /\ worstNow(id) = worst[id]
             /\ IF gap[id] = 0 /\ worst[id] = 0
                THEN streakNow(id) = Capped(streak[id] + 1, HitCap)
                ELSE streakNow(id) = streak[id]
  BY <1>3, <1>7
<1>8. ASSUME NEW id \in DOMAIN streak \ seen'
      PROVE  /\ streakNow(id) = streak[id]
             /\ gapNow(id) = Capped(gap[id] + 1, config.misses + 1)
             /\ worstNow(id) = IF gapNow(id) > worst[id] THEN gapNow(id) ELSE worst[id]
             /\ gapNow(id) \in Nat
  BY <1>3, <1>5, <1>8 DEF Capped
<1>9. \A n \in 0..HitCap : Capped(n + 1, HitCap) \in 0..HitCap
  BY DEF Capped
<1> HIDE DEF streakNow, gapNow, worstNow
<1>10. ids = DOMAIN streak \union seen'
  BY DEF ids
<1>11. ASSUME NEW id \in ids
       PROVE  streak'[id] \in 0..HitCap /\ gap'[id] \in Nat /\ worst'[id] \in Nat
  <2>1. CASE id \in seen' \ DOMAIN streak
    BY <1>2, <1>6, <2>1
  <2>2. CASE id \in seen' \intersect DOMAIN streak
    BY <1>2, <1>3, <1>7, <1>9, <1>11, <2>2
  <2>3. CASE id \in DOMAIN streak \ seen'
    BY <1>2, <1>3, <1>8, <1>11, <2>3
  <2> QED BY <1>10, <1>11, <2>1, <2>2, <2>3
<1> QED BY <1>2, <1>6, <1>7, <1>8, <1>10, <1>11

LEMMA FrameKeepsRules ==
  ASSUME ~changed, Remembered, TracksFollowed, Frame
  PROVE  Remembered' /\ TracksFollowed' /\ PublishedByTheRules'
<1> PICK frame \in Frames : \E pairing \in Pairings(frame) : Update(frame, pairing) /\ Remember
  BY DEF Frame
<1>1. PICK pairing \in Pairings(frame) : Update(frame, pairing) /\ Remember
  OBVIOUS
<1>2. nextId \in Nat \ {0} /\ DOMAIN tracks \subseteq 1..(nextId - 1)
  BY DEF Remembered
<1>3. config' = config /\ nextId' \in Nat /\ nextId <= nextId'
  BY <1>1, <1>2, UpdateFacts
<1>4. /\ DOMAIN tracks' \subseteq seen' \union DOMAIN tracks
      /\ published' \subseteq seen'
  BY <1>1, <1>2, UpdateFacts
<1>5. \A id \in seen' \ DOMAIN tracks : id \in nextId..(nextId' - 1) /\ StartsTrack(id)
  BY <1>1, <1>2, UpdateFacts
<1>6. \A id \in seen' \intersect DOMAIN tracks :
         /\ id \in published' <=> Hit(tracks[id]).confirmed
         /\ id \in DOMAIN tracks' => tracks'[id] = Hit(tracks[id])
  BY <1>1, <1>2, UpdateFacts
<1>7. \A id \in DOMAIN tracks \ seen' :
         id \in DOMAIN tracks' => tracks'[id] = Miss(tracks[id]) /\ ~Dead(Miss(tracks[id]))
  BY <1>1, <1>2, UpdateFacts
<1>8. /\ DOMAIN streak' = DOMAIN streak \union seen'
      /\ DOMAIN gap' = DOMAIN streak' /\ DOMAIN worst' = DOMAIN streak'
      /\ \A id \in DOMAIN streak' :
           streak'[id] \in 0..HitCap /\ gap'[id] \in Nat /\ worst'[id] \in Nat
  BY <1>1, <1>3, RememberFacts
<1>9. \A id \in seen' \ DOMAIN streak : streak'[id] = 1 /\ gap'[id] = 0 /\ worst'[id] = 0
  BY <1>1, <1>3, RememberFacts
<1>10. \A id \in seen' \intersect DOMAIN streak :
         /\ gap'[id] = 0 /\ worst'[id] = worst[id]
         /\ IF gap[id] = 0 /\ worst[id] = 0
            THEN streak'[id] = Capped(streak[id] + 1, HitCap)
            ELSE streak'[id] = streak[id]
  BY <1>1, <1>3, RememberFacts
<1>11. \A id \in DOMAIN streak \ seen' :
         /\ streak'[id] = streak[id]
         /\ gap'[id] = Capped(gap[id] + 1, config.misses + 1)
         /\ worst'[id] = IF gap'[id] > worst[id] THEN gap'[id] ELSE worst[id]
  BY <1>1, <1>3, RememberFacts
<1>12. /\ config.confirm \in Nat \ {0} /\ config.misses \in Nat
       /\ DOMAIN streak \subseteq 1..(nextId - 1) /\ DOMAIN tracks \subseteq DOMAIN streak
       /\ \A id \in DOMAIN streak : streak[id] \in 0..HitCap /\ gap[id] \in Nat /\ worst[id] \in Nat
  BY DEF Remembered
<1>13. Remembered'
  <2>1. DOMAIN streak' \subseteq 1..(nextId' - 1)
    <3>1. \A id \in DOMAIN streak : id \in 1..(nextId' - 1)
      BY <1>2, <1>3, <1>12
    <3>2. \A id \in seen' \ DOMAIN tracks : id \in 1..(nextId' - 1)
      BY <1>2, <1>3, <1>5
    <3> QED BY <1>8, <1>12, <3>1, <3>2
  <2>2. nextId' \in Nat \ {0}
    BY <1>2, <1>3
  <2>3. DOMAIN tracks' \subseteq DOMAIN streak'
    BY <1>4, <1>8, <1>12
  <2> QED BY <1>3, <1>8, <1>12, <2>1, <2>2, <2>3 DEF Remembered
<1>14. ASSUME NEW id \in seen' \ DOMAIN tracks
       PROVE  /\ id \in published' <=> streak'[id] >= config'.confirm /\ worst'[id] <= config'.misses
              /\ id \in DOMAIN tracks' => Followed(tracks[id], id)'
  <2>1. PICK cls \in Classes :
                   /\ id \in published' <=> Hit(Unborn(cls)).confirmed
                   /\ id \in DOMAIN tracks' => tracks'[id] = Hit(Unborn(cls))
    BY <1>5, <1>14 DEF StartsTrack
  <2>2. id \notin DOMAIN streak
    BY <1>2, <1>5, <1>12, <1>14
  <2>3. streak'[id] = 1 /\ gap'[id] = 0 /\ worst'[id] = 0
    BY <1>9, <1>14, <2>2
  <2>4. /\ IsTrack(Hit(Unborn(cls)))
        /\ Hit(Unborn(cls)).hits = 1 /\ Hit(Unborn(cls)).misses = 0
        /\ Hit(Unborn(cls)).confirmed <=> 1 >= config.confirm
    BY <1>12, NewTrackFacts
  <2>5. id \in published' <=> streak'[id] >= config'.confirm /\ worst'[id] <= config'.misses
    BY <1>3, <1>12, <2>1, <2>3, <2>4
  <2>6. ASSUME id \in DOMAIN tracks' PROVE Followed(tracks[id], id)'
    <3> DEFINE track == Hit(Unborn(cls))
    <3>1. tracks'[id] = track /\ IsTrack(track) /\ track.hits = 1 /\ track.misses = 0
          /\ (track.confirmed <=> 1 >= config.confirm)
      BY <2>1, <2>4, <2>6
    <3> HIDE DEF track
    <3>2. IsTrack(tracks'[id]) /\ tracks'[id].misses = gap'[id] /\ tracks'[id].hits = streak'[id]
          /\ (tracks'[id].confirmed <=> streak'[id] >= config'.confirm)
      BY <1>3, <2>3, <3>1
    <3>3. IsTrack(tracks[id])'
      BY <3>2 DEF IsTrack
    <3> QED BY <1>3, <1>12, <2>3, <3>2, <3>3 DEF Followed
  <2> QED BY <2>5, <2>6
<1>15. ASSUME NEW id \in seen' \intersect DOMAIN tracks
       PROVE  /\ id \in published' <=> streak'[id] >= config'.confirm /\ worst'[id] <= config'.misses
              /\ id \in DOMAIN tracks' => Followed(tracks[id], id)'
  <2> DEFINE track == tracks[id]
             hit == Hit(track)
  <2>1. /\ id \in published' <=> hit.confirmed
        /\ id \in DOMAIN tracks' => tracks'[id] = hit
    BY <1>6, <1>15
  <2>2. Followed(track, id)
    BY <1>15 DEF TracksFollowed
  <2>3. IsTrack(track) /\ track.misses = gap[id]
    BY <2>2 DEF Followed
  <2>4. /\ IsTrack(hit)
        /\ hit.hits = Capped(track.hits + 1, HitCap) /\ hit.misses = 0
        /\ hit.confirmed <=> track.confirmed \/ Capped(track.hits + 1, HitCap) >= config.confirm
    BY <1>12, <2>3, HitFacts
  <2>5. id \in DOMAIN streak /\ streak[id] \in 0..HitCap /\ gap[id] \in Nat /\ worst[id] \in Nat
    BY <1>12, <1>15
  <2>6. /\ gap'[id] = 0 /\ worst'[id] = worst[id]
        /\ IF gap[id] = 0 /\ worst[id] = 0
           THEN streak'[id] = Capped(streak[id] + 1, HitCap)
           ELSE streak'[id] = streak[id]
    BY <1>10, <1>15, <2>5
  <2>7. /\ ~track.confirmed =>
              /\ gap[id] = 0 /\ worst[id] = 0
              /\ track.hits = streak[id] /\ streak[id] < config.confirm
        /\ track.confirmed =>
              streak[id] >= config.confirm /\ gap[id] <= config.misses /\ worst[id] <= config.misses
    BY <2>2 DEF Followed
  <2> HIDE DEF track, hit
  <2>8. /\ hit.confirmed <=> streak'[id] >= config.confirm
        /\ worst'[id] <= config.misses
        /\ ~hit.confirmed => worst'[id] = 0 /\ hit.hits = streak'[id]
    <3>1. CASE track.confirmed
      BY <1>12, <2>4, <2>5, <2>6, <2>7, <3>1 DEF Capped
    <3>2. CASE ~track.confirmed
      <4>1. streak'[id] = Capped(track.hits + 1, HitCap) /\ worst'[id] = 0
        BY <2>6, <2>7, <3>2
      <4> QED BY <1>12, <2>4, <3>2, <4>1
    <3> QED BY <3>1, <3>2
  <2>9. id \in published' <=> streak'[id] >= config'.confirm /\ worst'[id] <= config'.misses
    BY <1>3, <2>1, <2>8
  <2>10. ASSUME id \in DOMAIN tracks' PROVE Followed(tracks[id], id)'
    <3>1. IsTrack(tracks[id])' /\ tracks'[id] = hit
      BY <2>1, <2>4, <2>10 DEF IsTrack
    <3>2. /\ ~hit.confirmed =>
                /\ gap'[id] = 0 /\ worst'[id] = 0
                /\ hit.hits = streak'[id] /\ streak'[id] < config.confirm
          /\ hit.confirmed => /\ streak'[id] >= config.confirm
                              /\ gap'[id] <= config.misses /\ worst'[id] <= config.misses
          /\ hit.misses = gap'[id]
      <4>1. streak'[id] \in 0..HitCap
        BY <1>8, <2>5
      <4> QED BY <1>12, <2>4, <2>6, <2>8, <4>1
    <3> QED BY <1>3, <3>1, <3>2 DEF Followed
  <2> QED BY <2>9, <2>10
<1>16. ASSUME NEW id \in DOMAIN tracks \ seen', id \in DOMAIN tracks'
       PROVE  Followed(tracks[id], id)'
  <2> DEFINE track == tracks[id]
             missed == Miss(track)
  <2>1. tracks'[id] = missed /\ ~Dead(missed)
    BY <1>7, <1>16
  <2>2. Followed(track, id)
    BY <1>16 DEF TracksFollowed
  <2>3. IsTrack(track) /\ track.misses = gap[id]
    BY <2>2 DEF Followed
  <2>4. IsTrack(missed) /\ missed.misses = track.misses + 1 /\ missed.confirmed = track.confirmed
    BY <2>3, MissFacts
  <2>5. id \in DOMAIN streak /\ streak[id] \in 0..HitCap /\ gap[id] \in Nat /\ worst[id] \in Nat
    BY <1>12, <1>16
  <2>6. /\ streak'[id] = streak[id]
        /\ gap'[id] = Capped(gap[id] + 1, config.misses + 1)
        /\ worst'[id] = IF gap'[id] > worst[id] THEN gap'[id] ELSE worst[id]
    BY <1>11, <1>16, <2>5
  <2>7. track.confirmed =>
          streak[id] >= config.confirm /\ gap[id] <= config.misses /\ worst[id] <= config.misses
    BY <2>2 DEF Followed
  <2> HIDE DEF track, missed
  <2>8. missed.confirmed /\ missed.misses <= config.misses
    BY <1>12, <2>1, <2>3, <2>4, <2>5 DEF Dead
  <2>9. gap'[id] = missed.misses
    BY <1>12, <2>3, <2>4, <2>5, <2>6, <2>8 DEF Capped
  <2>10. streak'[id] >= config.confirm /\ gap'[id] <= config.misses /\ worst'[id] <= config.misses
    BY <2>4, <2>6, <2>7, <2>8, <2>9
  <2>11. IsTrack(tracks[id])' /\ tracks'[id] = missed
    BY <2>1, <2>4 DEF IsTrack
  <2> QED BY <1>3, <2>8, <2>9, <2>10, <2>11 DEF Followed
<1>17. TracksFollowed'
  <2>1. ASSUME NEW id \in DOMAIN tracks' PROVE Followed(tracks[id], id)'
    BY <1>4, <1>14, <1>15, <1>16, <2>1
  <2> QED BY <2>1 DEF TracksFollowed
<1>18. PublishedByTheRules'
  BY <1>4, <1>14, <1>15 DEF PublishedByTheRules
<1> QED BY <1>13, <1>17, <1>18

\* A tracker that starts from nothing: a reset, a restart, or the first start.
LEMMA NothingFollowed ==
  ASSUME DOMAIN tracks = {}, seen = {}, published = {}, DOMAIN streak = {}, DOMAIN gap = {},
         DOMAIN worst = {}, nextId \in Nat \ {0}, config.confirm \in Nat \ {0}, config.misses \in Nat
  PROVE  Remembered /\ TracksFollowed /\ PublishedByTheRules
BY DEF Remembered, TracksFollowed, PublishedByTheRules

LEMMA RulesKept == ASSUME RulesInv, [Next]_vars PROVE RulesInv'
<1> SUFFICES ASSUME ~changed' PROVE Remembered' /\ TracksFollowed' /\ PublishedByTheRules'
  BY DEF RulesInv
<1>1. ~changed
  BY DEF Next, Frame, Time, TrackerChanges, ProjectorChanges, vars, history
<1>2. Remembered /\ TracksFollowed /\ PublishedByTheRules
  BY <1>1 DEF RulesInv
<1>3. CASE Frame
  BY <1>1, <1>2, <1>3, FrameKeepsRules
<1>4. CASE UNCHANGED <<trackVars, streak, gap, worst, changed>>
  <2>1. Remembered'
    BY <1>2, <1>4 DEF Remembered, trackVars
  <2>2. TracksFollowed'
    BY <1>2, <1>4 DEF TracksFollowed, Followed, IsTrack, trackVars
  <2>3. PublishedByTheRules'
    BY <1>2, <1>4 DEF PublishedByTheRules, trackVars
  <2> QED BY <2>1, <2>2, <2>3
<1>5. CASE TrackerChanges
  <2>1. (Reset \/ RestartTracker) /\ Forget
    BY <1>5 DEF TrackerChanges
  <2>2. /\ DOMAIN tracks' = {} /\ seen' = {} /\ published' = {} /\ config' = config
        /\ DOMAIN streak' = {} /\ DOMAIN gap' = {} /\ DOMAIN worst' = {}
        /\ nextId' \in {1, nextId}
    BY <2>1 DEF Reset, RestartTracker, Forget, None
  <2>3. nextId' \in Nat \ {0} /\ config'.confirm \in Nat \ {0} /\ config'.misses \in Nat
    BY <1>2, <2>2 DEF Remembered
  <2>4. Remembered'
    BY <2>2, <2>3 DEF Remembered
  <2>5. TracksFollowed' /\ PublishedByTheRules'
    BY <2>2 DEF TracksFollowed, PublishedByTheRules
  <2> QED BY <2>4, <2>5
<1> QED BY <1>3, <1>4, <1>5 DEF Next, Time, ProjectorChanges, vars, history

\* As long as the manager is not reconfigured, it publishes of each frame
\* exactly the tracks that confirm_hits and max_misses promise, over any number
\* of frames, detections and resets (update, Track::update, miss and dead).
THEOREM TracksPublishedByTheRules == Spec => []PublishedByTheRules
<1>1. Init => RulesInv
  <2> SUFFICES ASSUME Init PROVE Remembered /\ TracksFollowed /\ PublishedByTheRules
    BY DEF RulesInv
  <2>1. PICK c \in TrackConfigs : TrackInit(c)
    BY DEF Init
  <2>2. c.confirm \in Int /\ c.misses \in Int
    OBVIOUS
  <2>3. config.confirm \in Nat \ {0} /\ config.misses \in Nat
    BY <2>1, <2>2 DEF TrackInit, Sanitize
  <2>4. /\ DOMAIN tracks = {} /\ seen = {} /\ published = {} /\ nextId = 1
        /\ DOMAIN streak = {} /\ DOMAIN gap = {} /\ DOMAIN worst = {}
    BY <2>1 DEF TrackInit, Init, None
  <2> QED BY <2>3, <2>4, NothingFollowed
<1>2. RulesInv => PublishedByTheRules
  BY DEF RulesInv, PublishedByTheRules
<1> QED BY <1>1, <1>2, RulesKept, PTL DEF Spec

---------------------------------------------------------------------------
(* A frame goes through the throttle observation by observation. *)

LEMMA Largest ==
  ASSUME NEW s, NEW n \in s, s \subseteq Nat, \A m \in s : m <= n
  PROVE  Max(s) = n
<1>1. \E x \in s : \A y \in s : x >= y
  OBVIOUS
<1>2. Max(s) \in s /\ \A y \in s : Max(s) >= y
  BY <1>1 DEF Max
<1>3. Max(s) >= n /\ Max(s) <= n /\ Max(s) \in Nat /\ n \in Nat
  BY <1>2
<1> QED BY <1>3

\* What FoldLeft does with a set of positions.
Pass(base, obs, s, iter) ==
  IF s = {} THEN base ELSE Throttle(iter[s \ {Max(s)}], obs[Max(s)])

\* The states of the throttle in the course of a frame.
StateAfter(base, obs, after, i) ==
  IF i = 0 THEN base ELSE Throttle(after[i - 1], obs[i])

\* The fold over a frame is the last of the states in its course.
LEMMA CourseOfFrame ==
  ASSUME NEW n \in Nat, NEW obs, DOMAIN obs = 1..n, NEW base
  PROVE  \E after : /\ after = [i \in 0..n |-> StateAfter(base, obs, after, i)]
                    /\ FoldLeft(Throttle, base, obs) = after[n]
<1>i. PICK iter : iter = CHOOSE it : it = [s \in SUBSET (1..n) |-> Pass(base, obs, s, it)]
  OBVIOUS
<1>1. FoldLeft(Throttle, base, obs) = iter[1..n]
  BY <1>i DEF FoldLeft, MapThenFoldSet, Pass
<1> DEFINE X == {k \in Nat : \E it : it = [s \in SUBSET (1..k) |-> Pass(base, obs, s, it)]}
<1>2. 0 \in X
  <2> DEFINE it == [s \in SUBSET (1..0) |-> base]
  <2>1. \A s \in SUBSET (1..0) : s = {}
    OBVIOUS
  <2>2. it = [s \in SUBSET (1..0) |-> Pass(base, obs, s, it)]
    BY <2>1 DEF Pass
  <2> HIDE DEF it
  <2> QED BY <2>2
<1>3. ASSUME NEW k \in Nat, k \in X PROVE k + 1 \in X
  <2>1. PICK it : it = [s \in SUBSET (1..k) |-> Pass(base, obs, s, it)]
    BY <1>3
  <2> DEFINE new(s) == IF k + 1 \in s THEN Throttle(it[s \ {k + 1}], obs[k + 1]) ELSE it[s]
             wider == [s \in SUBSET (1..(k + 1)) |-> new(s)]
  <2>2. ASSUME NEW s \in SUBSET (1..(k + 1))
        PROVE  wider[s] = Pass(base, obs, s, wider)
    <3>1. CASE k + 1 \in s
      <4>1. Max(s) = k + 1
        <5>1. s \subseteq Nat /\ \A m \in s : m <= k + 1
          OBVIOUS
        <5> QED BY <3>1, <5>1, Largest
      <4>2. s \ {k + 1} \in SUBSET (1..(k + 1)) /\ k + 1 \notin s \ {k + 1} /\ s # {}
        BY <3>1
      <4>3. wider[s \ {k + 1}] = it[s \ {k + 1}]
        BY <4>2
      <4>4. wider[s] = Throttle(it[s \ {k + 1}], obs[k + 1])
        BY <3>1
      <4> HIDE DEF wider
      <4> QED BY <4>1, <4>2, <4>3, <4>4 DEF Pass
    <3>2. CASE k + 1 \notin s
      <4>1. s \in SUBSET (1..k)
        BY <3>2
      <4>2. \A r \in SUBSET s : wider[r] = it[r]
        BY <3>2
      <4>3. it[s] = Pass(base, obs, s, it)
        <5> HIDE DEF wider
        <5> QED BY <2>1, <4>1
      <4> HIDE DEF wider
      <4>4. Pass(base, obs, s, it) = Pass(base, obs, s, wider)
        <5>1. s \ {Max(s)} \in SUBSET s
          OBVIOUS
        <5> QED BY <4>2, <5>1 DEF Pass
      <4>5. wider[s] = it[s]
        BY <4>2
      <4> QED BY <4>3, <4>4, <4>5
    <3> QED BY <3>1, <3>2
  <2>3. wider = [s \in SUBSET (1..(k + 1)) |-> Pass(base, obs, s, wider)]
    BY <2>2
  <2> HIDE DEF wider
  <2> QED BY <2>3
<1>4. \E it : it = [s \in SUBSET (1..n) |-> Pass(base, obs, s, it)]
  <2> HIDE DEF X
  <2>1. n \in X
    BY <1>2, <1>3, Induction
  <2> QED BY <2>1 DEF X
<1>5. iter = [s \in SUBSET (1..n) |-> Pass(base, obs, s, iter)]
  BY <1>4, <1>i
<1> DEFINE after == [i \in 0..n |-> iter[1..i]]
<1>6. ASSUME NEW i \in 0..n
      PROVE  after[i] = StateAfter(base, obs, after, i)
  <2>1. iter[1..i] = Pass(base, obs, 1..i, iter)
    BY <1>5
  <2>2. CASE i = 0
    BY <2>1, <2>2 DEF Pass, StateAfter
  <2>3. CASE i # 0
    <3>1. i \in 1..i /\ 1..i \subseteq Nat /\ \A m \in 1..i : m <= i
      BY <2>3
    <3>2. Max(1..i) = i
      BY <3>1, Largest
    <3>3. (1..i) \ {i} = 1..(i - 1) /\ i - 1 \in 0..n
      BY <2>3
    <3>4. after[i - 1] = iter[1..(i - 1)]
      BY <3>3
    <3> HIDE DEF after
    <3>5. iter[1..i] = Throttle(after[i - 1], obs[i])
      BY <2>1, <3>1, <3>2, <3>3, <3>4 DEF Pass
    <3> QED BY <2>3, <3>5 DEF StateAfter, after
  <2> QED BY <2>2, <2>3
<1>7. after[n] = iter[1..n]
  OBVIOUS
<1>8. after = [i \in 0..n |-> StateAfter(base, obs, after, i)]
  BY <1>6
<1> HIDE DEF after
<1> QED BY <1>1, <1>7, <1>8

---------------------------------------------------------------------------
(* What a frame makes of the throttle. *)

LEMMA PurgedFacts ==
  ASSUME NEW ages
  PROVE  /\ DOMAIN Purged(ages) \subseteq DOMAIN ages
         /\ \A id \in DOMAIN Purged(ages) : Purged(ages)[id] = ages[id]
         /\ \A id \in DOMAIN ages \ DOMAIN Purged(ages) : ages[id] > PurgeAge
BY DEF Purged, Without

\* An event of the track is due: a period is over, and the target moved or was
\* steady for long.
Due(id, moved) == throttle[id] >= period /\ (moved[id] \/ throttle[id] >= Steady)

\* The throttle when the observations before the i-th went through: entries are
\* as they were or, of the tracks that fired, new; what was purged was old.
InCourse(state, order, moved, i) ==
    /\ state = [ages |-> state.ages, fired |-> state.fired]
    /\ state.fired \subseteq {order[j] : j \in 1..i} \intersect DOMAIN state.ages
    /\ DOMAIN state.ages \subseteq DOMAIN throttle \union state.fired
    /\ \A id \in DOMAIN state.ages :
          state.ages[id] = IF id \in state.fired THEN 0 ELSE throttle[id]
    /\ \A id \in DOMAIN throttle \ DOMAIN state.ages : throttle[id] > PurgeAge
    /\ \A j \in 1..i :
          IF order[j] \in DOMAIN throttle
          THEN period <= PurgeAge => (order[j] \in state.fired <=> Due(order[j], moved))
          ELSE order[j] \in state.fired

LEMMA ThrottleStep ==
  ASSUME period \in Nat, \A id \in DOMAIN throttle : throttle[id] \in Nat,
         NEW n \in Nat, NEW i \in 0..(n - 1), NEW order, NEW moved,
         \A j, k \in 1..n : j # k => order[j] # order[k],
         NEW state, InCourse(state, order, moved, i)
  PROVE  InCourse(Throttle(state, [id |-> order[i + 1], moved |-> moved[order[i + 1]]]),
                  order, moved, i + 1)
<1>a. PICK ages : ages = Purged(state.ages)
  OBVIOUS
<1>o. PICK id : id = order[i + 1]
  OBVIOUS
<1>t. PICK next : next = Throttle(state, [id |-> id, moved |-> moved[id]])
  OBVIOUS
<1>1. /\ DOMAIN ages \subseteq DOMAIN state.ages
      /\ \A k \in DOMAIN ages : ages[k] = state.ages[k]
      /\ \A k \in DOMAIN state.ages \ DOMAIN ages : state.ages[k] > PurgeAge
  BY <1>a, PurgedFacts
<1>2. /\ state = [ages |-> state.ages, fired |-> state.fired]
      /\ state.fired \subseteq {order[j] : j \in 1..i} \intersect DOMAIN state.ages
      /\ DOMAIN state.ages \subseteq DOMAIN throttle \union state.fired
      /\ \A k \in DOMAIN state.ages : state.ages[k] = IF k \in state.fired THEN 0 ELSE throttle[k]
      /\ \A k \in DOMAIN throttle \ DOMAIN state.ages : throttle[k] > PurgeAge
  BY DEF InCourse
<1>3. id \notin state.fired
  <2>1. \A j \in 1..i : order[j] # id
    BY <1>o
  <2> QED BY <1>2, <2>1
<1>4. state.fired \subseteq DOMAIN ages
  <2> SUFFICES ASSUME NEW k \in state.fired, k \notin DOMAIN ages PROVE FALSE
    OBVIOUS
  <2>1. state.ages[k] = 0 /\ state.ages[k] > PurgeAge
    BY <1>1, <1>2
  <2> QED BY <2>1, GeoAssumption
<1>5. /\ DOMAIN ages \subseteq DOMAIN throttle \union state.fired
      /\ \A k \in DOMAIN ages : ages[k] = IF k \in state.fired THEN 0 ELSE throttle[k]
      /\ \A k \in DOMAIN throttle \ DOMAIN ages : throttle[k] > PurgeAge
  <2>1. ASSUME NEW k \in DOMAIN throttle \ DOMAIN ages PROVE throttle[k] > PurgeAge
    BY <1>1, <1>2, <1>4, <2>1
  <2> QED BY <1>1, <1>2, <2>1
<1>6. \A j \in 1..(i + 1) : j \in 1..i \/ order[j] = id
  BY <1>o
<1>7. \A j \in 1..i : order[j] # id /\ j \in 1..(i + 1) /\ i + 1 \in 1..(i + 1)
  BY <1>o
<1>8. i + 1 \in 1..(i + 1)
  OBVIOUS
<1>9. CASE Held(ages, [id |-> id, moved |-> moved[id]])
  <2>1. next = [ages |-> ages, fired |-> state.fired]
    BY <1>2, <1>9, <1>a, <1>t DEF Throttle
  <2>2. /\ id \in DOMAIN throttle /\ ages[id] = throttle[id]
        /\ throttle[id] < period \/ (~moved[id] /\ throttle[id] < Steady)
    BY <1>3, <1>5, <1>9 DEF Held
  <2>3. ~Due(id, moved)
    BY <2>2, GeoAssumption DEF Due
  <2>4. \A j \in 1..(i + 1) :
          IF order[j] \in DOMAIN throttle
          THEN period <= PurgeAge => (order[j] \in state.fired <=> Due(order[j], moved))
          ELSE order[j] \in state.fired
    BY <1>3, <1>6, <2>2, <2>3 DEF InCourse
  <2>5. state.fired \subseteq {order[j] : j \in 1..(i + 1)} \intersect DOMAIN ages
    BY <1>2, <1>4, <1>7
  <2>6. next.ages = ages /\ next.fired = state.fired
    BY <2>1
  <2>7. InCourse(next, order, moved, i + 1)
    BY <1>5, <2>1, <2>4, <2>5, <2>6 DEF InCourse
  <2> QED BY <1>o, <1>t, <2>7
<1>10. CASE ~Held(ages, [id |-> id, moved |-> moved[id]])
  <2> DEFINE fires == state.fired \union {id}
  <2>1. next = [ages |-> With(ages, id), fired |-> fires]
    BY <1>2, <1>10, <1>a, <1>t DEF Throttle
  <2>2. /\ DOMAIN With(ages, id) = DOMAIN ages \union {id}
        /\ \A k \in DOMAIN With(ages, id) : With(ages, id)[k] = IF k = id THEN 0 ELSE ages[k]
    BY DEF With
  <2>3. ASSUME id \in DOMAIN throttle, period <= PurgeAge PROVE Due(id, moved)
    <3>1. CASE id \in DOMAIN ages
      <4>1. ages[id] = throttle[id] /\ throttle[id] \in Nat
        BY <1>3, <1>5, <2>3, <3>1
      <4>2. ~(throttle[id] < period) /\ (moved[id] \/ ~(throttle[id] < Steady))
        BY <1>10, <3>1, <4>1 DEF Held
      <4> QED BY <4>1, <4>2, GeoAssumption DEF Due
    <3>2. CASE id \notin DOMAIN ages
      <4>1. throttle[id] > PurgeAge /\ throttle[id] \in Nat
        BY <1>5, <2>3, <3>2
      <4> QED BY <2>3, <4>1, GeoAssumption DEF Due
    <3> QED BY <3>1, <3>2
  <2>4. \A j \in 1..(i + 1) :
          IF order[j] \in DOMAIN throttle
          THEN period <= PurgeAge => (order[j] \in fires <=> Due(order[j], moved))
          ELSE order[j] \in fires
    <3> SUFFICES ASSUME NEW j \in 1..(i + 1)
                 PROVE  IF order[j] \in DOMAIN throttle
                        THEN period <= PurgeAge => (order[j] \in fires <=> Due(order[j], moved))
                        ELSE order[j] \in fires
      OBVIOUS
    <3>1. CASE j \in 1..i
      <4>1. order[j] \in fires <=> order[j] \in state.fired
        BY <1>7, <3>1
      <4> QED BY <3>1, <4>1 DEF InCourse
    <3>2. CASE order[j] = id
      BY <2>3, <3>2
    <3> QED BY <1>6, <3>1, <3>2
  <2>5. fires \subseteq {order[j] : j \in 1..(i + 1)} \intersect DOMAIN With(ages, id)
    BY <1>2, <1>4, <1>7, <1>8, <1>o, <2>2
  <2>6. /\ DOMAIN With(ages, id) \subseteq DOMAIN throttle \union fires
        /\ \A k \in DOMAIN With(ages, id) : With(ages, id)[k] = IF k \in fires THEN 0 ELSE throttle[k]
        /\ \A k \in DOMAIN throttle \ DOMAIN With(ages, id) : throttle[k] > PurgeAge
    BY <1>5, <2>2
  <2>7. next.ages = With(ages, id) /\ next.fired = fires
    BY <2>1
  <2> HIDE DEF fires
  <2>8. InCourse(next, order, moved, i + 1)
    BY <2>1, <2>4, <2>5, <2>6, <2>7 DEF InCourse
  <2> QED BY <1>o, <1>t, <2>8
<1> QED BY <1>9, <1>10

\* An order of a finite set names all of it, and nothing twice.
LEMMA OrderFacts ==
  ASSUME NEW met, IsFiniteSet(met), NEW order \in SetToSeqs(met)
  PROVE  \E n \in Nat :
            /\ DOMAIN order = 1..n /\ met = {order[j] : j \in 1..n}
            /\ \A j, k \in 1..n : j # k => order[j] # order[k]
<1>n. PICK n : n = Cardinality(met)
  OBVIOUS
<1>1. n \in Nat
  BY <1>n, FS_CardinalityType
<1>2. order \in [1..n -> met] /\ \A j, k \in 1..n : j # k => order[j] # order[k]
  BY <1>n DEF SetToSeqs
<1>s. PICK named1 : named1 = {order[j] : j \in 1..n}
  OBVIOUS
<1>3. named1 \in SUBSET met
  BY <1>2, <1>s
<1>4. Cardinality(named1) = n
  <2>1. order \in Bijection(1..n, named1)
    BY <1>2, <1>s DEF Bijection, Injection, Surjection, IsInjective
  <2>2. ExistsBijection(1..n, named1)
    BY <2>1 DEF ExistsBijection
  <2>3. IsFiniteSet(1..n) /\ Cardinality(1..n) = n
    BY <1>1, Count
  <2> QED BY <2>2, <2>3, FS_Bijection
<1>5. named1 = met
  BY <1>3, <1>4, <1>n, FS_Subset
<1> QED BY <1>1, <1>2, <1>5, <1>s

\* What a frame that is projected does: the first event of a track passes, and
\* others when they are due.
LEMMA FrameFires ==
  ASSUME period \in Nat, \A id \in DOMAIN throttle : throttle[id] \in Nat,
         NEW met, IsFiniteSet(met), NEW moved \in [met -> BOOLEAN],
         NEW order \in SetToSeqs(met), OnObservations(moved, order)
  PROVE  /\ fired' \subseteq met \intersect DOMAIN throttle'
         /\ DOMAIN throttle' \subseteq DOMAIN throttle \union fired'
         /\ \A id \in DOMAIN throttle' : throttle'[id] = IF id \in fired' THEN 0 ELSE throttle[id]
         /\ \A id \in DOMAIN throttle \ DOMAIN throttle' : throttle[id] > PurgeAge
         /\ met \ DOMAIN throttle \subseteq fired'
         /\ period <= PurgeAge =>
              \A id \in met \intersect DOMAIN throttle : id \in fired' <=> Due(id, moved)
<1>1. PICK n \in Nat : /\ DOMAIN order = 1..n /\ met = {order[j] : j \in 1..n}
                       /\ \A j, k \in 1..n : j # k => order[j] # order[k]
  BY OrderFacts
<1>o. PICK obs : obs = [i \in DOMAIN order |-> [id |-> order[i], moved |-> moved[order[i]]]]
  OBVIOUS
<1>b. PICK base : base = [ages |-> throttle, fired |-> {}]
  OBVIOUS
<1>2. PICK after : /\ after = [i \in 0..n |-> StateAfter(base, obs, after, i)]
                   /\ FoldLeft(Throttle, base, obs) = after[n]
  <2>1. DOMAIN obs = 1..n
    BY <1>1, <1>o
  <2> QED BY <2>1, CourseOfFrame
<1>3. throttle' = after[n].ages /\ fired' = after[n].fired
  BY <1>2, <1>b, <1>o DEF OnObservations
<1>4. \A i \in 0..n : after[i] = StateAfter(base, obs, after, i)
  BY <1>2
<1> DEFINE X == {i \in Nat : i <= n => InCourse(after[i], order, moved, i)}
<1>5. 0 \in X
  <2>1. after[0] = base
    <3>1. 0 \in 0..n
      OBVIOUS
    <3> QED BY <1>4, <3>1 DEF StateAfter
  <2>2. base = [ages |-> base.ages, fired |-> base.fired] /\ base.ages = throttle /\ base.fired = {}
    BY <1>b
  <2>3. InCourse(base, order, moved, 0)
    BY <2>2 DEF InCourse
  <2> QED BY <2>1, <2>3
<1>6. ASSUME NEW i \in Nat, i \in X PROVE i + 1 \in X
  <2> SUFFICES ASSUME i + 1 <= n PROVE InCourse(after[i + 1], order, moved, i + 1)
    OBVIOUS
  <2>1. i \in 0..(n - 1) /\ i + 1 \in 0..n /\ i + 1 \in 1..n /\ i + 1 # 0 /\ (i + 1) - 1 = i
    OBVIOUS
  <2>2. InCourse(after[i], order, moved, i)
    BY <1>6, <2>1
  <2>3. after[i + 1] = Throttle(after[i], [id |-> order[i + 1], moved |-> moved[order[i + 1]]])
    <3>1. obs[i + 1] = [id |-> order[i + 1], moved |-> moved[order[i + 1]]]
      BY <1>1, <1>o, <2>1
    <3> QED BY <1>4, <2>1, <3>1 DEF StateAfter
  <2>4. \A state : InCourse(state, order, moved, i) =>
           InCourse(Throttle(state, [id |-> order[i + 1], moved |-> moved[order[i + 1]]]),
                    order, moved, i + 1)
    BY <1>1, <2>1, ThrottleStep
  <2> QED BY <2>2, <2>3, <2>4
<1> HIDE DEF X
<1>7. n \in X
  BY <1>5, <1>6, Induction
<1>8. InCourse(after[n], order, moved, n)
  BY <1>7 DEF X
<1>9. /\ fired' \subseteq met \intersect DOMAIN throttle'
      /\ DOMAIN throttle' \subseteq DOMAIN throttle \union fired'
      /\ \A id \in DOMAIN throttle' : throttle'[id] = IF id \in fired' THEN 0 ELSE throttle[id]
      /\ \A id \in DOMAIN throttle \ DOMAIN throttle' : throttle[id] > PurgeAge
  BY <1>1, <1>3, <1>8 DEF InCourse
<1>10. \A id \in met :
          IF id \in DOMAIN throttle
          THEN period <= PurgeAge => (id \in fired' <=> Due(id, moved))
          ELSE id \in fired'
  BY <1>1, <1>3, <1>8 DEF InCourse
<1> QED BY <1>9, <1>10

---------------------------------------------------------------------------
(* When there is an event. *)

\* The throttle remembers the age of every event that is not old, and an id is
\* given once.
Paced ==
    /\ period \in Nat
    /\ nextId \in Nat \ {0} /\ DOMAIN tracks \subseteq 1..(nextId - 1)
    /\ seen \subseteq 1..(nextId - 1) /\ published \subseteq seen
    /\ DOMAIN throttle \subseteq DOMAIN since
    /\ \A id \in DOMAIN since : since[id] \in 0..AgeCap
    /\ \A id \in DOMAIN throttle : throttle[id] = since[id]
    /\ \A id \in DOMAIN since \ DOMAIN throttle : since[id] > PurgeAge
    /\ ~restarted => DOMAIN throttle \subseteq sighted \intersect 1..(nextId - 1)

\* The tracks of a frame, and those that were born in it.
LEMMA FrameIds ==
  ASSUME nextId \in Nat \ {0}, DOMAIN tracks \subseteq 1..(nextId - 1),
         NEW frame \in Frames, NEW pairing \in Pairings(frame), Update(frame, pairing)
  PROVE  /\ nextId' \in Nat \ {0} /\ nextId <= nextId'
         /\ DOMAIN tracks' \subseteq 1..(nextId' - 1)
         /\ seen' \subseteq 1..(nextId' - 1) /\ published' \subseteq seen'
         /\ \A id \in Born : id >= nextId
<1>1. nextId' \in Nat /\ nextId <= nextId'
  BY UpdateFacts
<1>2. DOMAIN tracks' \subseteq seen' \union DOMAIN tracks
  BY UpdateFacts
<1>3. published' \subseteq seen'
  BY UpdateFacts
<1>4. \A id \in seen' \ DOMAIN tracks : id \in nextId..(nextId' - 1)
  BY UpdateFacts
<1>5. seen' \subseteq 1..(nextId' - 1)
  <2> SUFFICES ASSUME NEW id \in seen' PROVE id \in 1..(nextId' - 1)
    OBVIOUS
  <2>1. CASE id \in DOMAIN tracks
    BY <1>1, <2>1
  <2>2. CASE id \notin DOMAIN tracks
    BY <1>1, <1>4, <2>2
  <2> QED BY <2>1, <2>2
<1>6. DOMAIN tracks' \subseteq 1..(nextId' - 1)
  <2>1. DOMAIN tracks \subseteq 1..(nextId' - 1)
    BY <1>1
  <2> QED BY <1>2, <1>5, <2>1
<1>7. \A id \in Born : id >= nextId
  BY <1>4 DEF Born
<1>8. nextId' \in Nat \ {0}
  BY <1>1
<1> QED BY <1>1, <1>3, <1>5, <1>6, <1>7, <1>8

LEMMA GivenIds == ASSUME NEW n \in Nat PROVE IsFiniteSet(1..(n - 1))
<1>1. n - 1 \in Int
  OBVIOUS
<1> QED BY <1>1, FS_Interval

FirstSeenFires == ~restarted => (DOMAIN projected' \ sighted) \subseteq fired'

DueFires ==
    \A id \in DOMAIN projected' \intersect DOMAIN since : period <= PurgeAge =>
       (id \in fired' <=> since[id] >= period /\ (projected'[id] \/ since[id] >= Steady))

LEMMA FramePaced ==
  ASSUME Paced, Frame
  PROVE  Paced' /\ FirstSeenFires /\ DueFires
<1> DEFINE FrameIs(frame, pairing) ==
         /\ Update(frame, pairing)
         /\ \/ \E met \in SUBSET published' :
                 \E moved \in [met -> BOOLEAN], order \in SetToSeqs(met) :
                     /\ OnObservations(moved, order)
                     /\ sighted' = (sighted \ Born) \union met
            \/ DropObservations /\ sighted' = sighted \ Born
         /\ since' = [id \in DOMAIN since \union fired' |-> IF id \in fired' THEN 0 ELSE since[id]]
         /\ restarted' = restarted
<1>f. PICK frame \in Frames : \E pairing \in Pairings(frame) : FrameIs(frame, pairing)
  BY DEF Frame
<1>1. PICK pairing \in Pairings(frame) : FrameIs(frame, pairing)
  BY <1>f
<1>p. /\ period \in Nat
      /\ nextId \in Nat \ {0} /\ DOMAIN tracks \subseteq 1..(nextId - 1)
      /\ DOMAIN throttle \subseteq DOMAIN since
      /\ \A id \in DOMAIN since : since[id] \in 0..AgeCap
      /\ \A id \in DOMAIN throttle : throttle[id] = since[id]
      /\ \A id \in DOMAIN since \ DOMAIN throttle : since[id] > PurgeAge
      /\ ~restarted => DOMAIN throttle \subseteq sighted \intersect 1..(nextId - 1)
  BY DEF Paced
<1>2. /\ nextId' \in Nat \ {0} /\ nextId <= nextId'
      /\ DOMAIN tracks' \subseteq 1..(nextId' - 1)
      /\ seen' \subseteq 1..(nextId' - 1) /\ published' \subseteq seen'
      /\ \A id \in Born : id >= nextId
  BY <1>1, <1>p, FrameIds
<1>3. \A id \in DOMAIN throttle : throttle[id] \in Nat
  BY <1>p, GeoAssumption
<1>4. ~restarted => \A id \in DOMAIN throttle : id \notin Born /\ id \in 1..(nextId' - 1)
  <2> SUFFICES ASSUME ~restarted, NEW id \in DOMAIN throttle
               PROVE  id \notin Born /\ id \in 1..(nextId' - 1)
    OBVIOUS
  <2>1. id \in 1..(nextId - 1)
    BY <1>p
  <2> QED BY <1>2, <1>p, <2>1
<1>5. CASE DropObservations /\ sighted' = sighted \ Born
  <2>1. /\ throttle' = throttle /\ period' = period
        /\ DOMAIN projected' = {} /\ fired' = {}
    BY <1>5 DEF DropObservations, Quiet, settings
  <2>2. DOMAIN since' = DOMAIN since /\ \A id \in DOMAIN since : since'[id] = since[id]
    BY <1>1, <2>1
  <2>3. ~restarted' => DOMAIN throttle' \subseteq sighted' \intersect 1..(nextId' - 1)
    BY <1>1, <1>4, <1>5, <1>p, <2>1
  <2>4. Paced'
    BY <1>2, <1>p, <2>1, <2>2, <2>3 DEF Paced
  <2> QED BY <2>1, <2>4 DEF FirstSeenFires, DueFires
<1>6. ASSUME NEW met \in SUBSET published', NEW moved \in [met -> BOOLEAN],
             NEW order \in SetToSeqs(met),
             OnObservations(moved, order), sighted' = (sighted \ Born) \union met
      PROVE  Paced' /\ FirstSeenFires /\ DueFires
  <2>1. IsFiniteSet(met) /\ met \subseteq 1..(nextId' - 1)
    <3>1. met \in SUBSET (1..(nextId' - 1))
      BY <1>2
    <3>2. nextId' \in Nat
      BY <1>2
    <3>3. IsFiniteSet(1..(nextId' - 1))
      BY <3>2, GivenIds
    <3> QED BY <3>1, <3>3, FS_Subset
  <2>2. /\ fired' \subseteq met \intersect DOMAIN throttle'
        /\ DOMAIN throttle' \subseteq DOMAIN throttle \union fired'
        /\ \A id \in DOMAIN throttle' : throttle'[id] = IF id \in fired' THEN 0 ELSE throttle[id]
        /\ \A id \in DOMAIN throttle \ DOMAIN throttle' : throttle[id] > PurgeAge
        /\ met \ DOMAIN throttle \subseteq fired'
        /\ period <= PurgeAge =>
             \A id \in met \intersect DOMAIN throttle : id \in fired' <=> Due(id, moved)
    BY <1>3, <1>6, <1>p, <2>1, FrameFires
  <2>3. projected' = moved /\ DOMAIN projected' = met /\ period' = period
    BY <1>6 DEF OnObservations, settings
  <2>4. /\ DOMAIN since' = DOMAIN since \union fired'
        /\ \A id \in DOMAIN since' : since'[id] = IF id \in fired' THEN 0 ELSE since[id]
    BY <1>1
  <2>5. DOMAIN throttle' \subseteq DOMAIN since'
    BY <1>p, <2>2, <2>4
  <2>6. \A id \in DOMAIN since' : since'[id] \in 0..AgeCap
    BY <1>p, <2>4, GeoAssumption
  <2>7. \A id \in DOMAIN throttle' : throttle'[id] = since'[id]
    BY <1>p, <2>2, <2>4, <2>5
  <2>8. \A id \in DOMAIN since' \ DOMAIN throttle' : since'[id] > PurgeAge
    <3> SUFFICES ASSUME NEW id \in DOMAIN since', id \notin DOMAIN throttle'
                 PROVE  since'[id] > PurgeAge
      OBVIOUS
    <3>1. id \notin fired' /\ id \in DOMAIN since /\ since'[id] = since[id]
      BY <2>2, <2>4
    <3> QED BY <1>p, <2>2, <3>1
  <2>9. ~restarted' => DOMAIN throttle' \subseteq sighted' \intersect 1..(nextId' - 1)
    <3> SUFFICES ASSUME ~restarted, NEW id \in DOMAIN throttle'
                 PROVE  id \in sighted' /\ id \in 1..(nextId' - 1)
      BY <1>1
    <3>1. CASE id \in fired'
      BY <1>6, <2>1, <2>2, <3>1
    <3>2. CASE id \in DOMAIN throttle
      BY <1>4, <1>6, <1>p, <3>2
    <3> QED BY <2>2, <3>1, <3>2
  <2>10. Paced'
    BY <1>2, <1>p, <2>3, <2>5, <2>6, <2>7, <2>8, <2>9 DEF Paced
  <2>11. FirstSeenFires
    BY <1>p, <2>2, <2>3 DEF FirstSeenFires
  <2>12. DueFires
    <3> SUFFICES ASSUME NEW id \in met, id \in DOMAIN since, period <= PurgeAge
                 PROVE  id \in fired' <=> since[id] >= period /\ (moved[id] \/ since[id] >= Steady)
      BY <2>3 DEF DueFires
    <3>1. CASE id \in DOMAIN throttle
      BY <1>p, <2>2, <3>1 DEF Due
    <3>2. CASE id \notin DOMAIN throttle
      <4>1. since[id] > PurgeAge /\ since[id] \in Nat /\ id \in fired'
        BY <1>p, <2>2, <3>2, GeoAssumption
      <4> QED BY <1>p, <4>1, GeoAssumption
    <3> QED BY <3>1, <3>2
  <2> QED BY <2>10, <2>11, <2>12
<1> QED BY <1>1, <1>5, <1>6

LEMMA QuietFiresNothing ==
  ASSUME Quiet
  PROVE  FirstSeenFires /\ DueFires
BY DEF Quiet, FirstSeenFires, DueFires

LEMMA PacedStep == ASSUME Paced, [Next]_vars PROVE Paced' /\ (Next => FirstSeenFires /\ DueFires)
<1>p. /\ period \in Nat
      /\ nextId \in Nat \ {0}
      /\ DOMAIN throttle \subseteq DOMAIN since
      /\ \A id \in DOMAIN since : since[id] \in 0..AgeCap
      /\ \A id \in DOMAIN throttle : throttle[id] = since[id]
      /\ \A id \in DOMAIN since \ DOMAIN throttle : since[id] > PurgeAge
      /\ ~restarted => DOMAIN throttle \subseteq sighted \intersect 1..(nextId - 1)
  BY DEF Paced
<1>1. CASE Frame
  BY <1>1, FramePaced
<1>2. CASE Time
  <2>1. /\ throttle' = [id \in DOMAIN throttle |-> Older(throttle[id])]
        /\ since' = [id \in DOMAIN since |-> Older(since[id])]
        /\ UNCHANGED <<period, nextId, tracks, seen, published, restarted, sighted>> /\ Quiet
    BY <1>2 DEF Time, Elapse, settings, trackVars
  <2>2. \A age \in 0..AgeCap : Older(age) \in 0..AgeCap /\ (age > PurgeAge => Older(age) > PurgeAge)
    BY GeoAssumption DEF Older
  <2>3. /\ DOMAIN throttle' = DOMAIN throttle /\ DOMAIN since' = DOMAIN since
        /\ \A id \in DOMAIN throttle : throttle'[id] = Older(throttle[id])
        /\ \A id \in DOMAIN since : since'[id] = Older(since[id])
    BY <2>1
  <2>4. Paced'
    BY <1>p, <2>1, <2>2, <2>3 DEF Paced
  <2> QED BY <2>1, <2>4, QuietFiresNothing
<1>3. CASE TrackerChanges
  <2>1. Quiet /\ UNCHANGED <<period, throttle, since>>
    BY <1>3 DEF TrackerChanges, settings
  <2>2. \/ /\ DOMAIN tracks' = {} /\ seen' = {} /\ published' = {}
           /\ nextId' = nextId /\ UNCHANGED <<restarted, sighted>>
        \/ /\ UNCHANGED <<tracks, nextId, restarted, sighted>> /\ seen' = {} /\ published' = {}
        \/ /\ DOMAIN tracks' = {} /\ seen' = {} /\ published' = {}
           /\ nextId' = 1 /\ restarted' = TRUE
    BY <1>3 DEF TrackerChanges, Reset, SetConfig, RestartTracker
  <2>3. Paced'
    BY <1>p, <2>1, <2>2 DEF Paced
  <2> QED BY <2>1, <2>3, QuietFiresNothing
<1>4. CASE ProjectorChanges
  <2>1. /\ Quiet /\ UNCHANGED <<throttle, since, nextId, tracks, seen, published, restarted, sighted>>
        /\ period' \in Periods \union {period}
    BY <1>4 DEF ProjectorChanges, InitThrows, InitRegistry, InitWrongType, InitTable, SetEnabled,
       trackVars
  <2>2. period' \in Nat
    BY <1>p, <2>1, GeoAssumption
  <2>3. Paced'
    BY <2>1, <2>2 DEF Paced
  <2> QED BY <2>1, <2>3, QuietFiresNothing
<1>5. CASE UNCHANGED vars
  <2>1. Paced'
    BY <1>5 DEF Paced, vars, trackVars, geoVars, history
  <2>2. ~Next \/ Next
    OBVIOUS
  <2> QED BY <1>1, <1>2, <1>3, <1>4, <2>1 DEF Next
<1> QED BY <1>1, <1>2, <1>3, <1>4, <1>5 DEF Next

LEMMA InitPaced == Init => Paced
<1> SUFFICES ASSUME Init PROVE Paced
  OBVIOUS
<1>1. PICK c \in TrackConfigs : TrackInit(c)
  BY DEF Init
<1>2. /\ DOMAIN throttle = {} /\ DOMAIN since = {} /\ period \in Nat
      /\ DOMAIN tracks = {} /\ seen = {} /\ published = {} /\ nextId = 1
  BY <1>1, GeoAssumption DEF Init, GeoInit, TrackInit, None
<1> QED BY <1>2 DEF Paced

\* There is an event the first time a track is projected, whatever the throttle
\* remembers, holds or purged - as long as the manager that gives the ids was
\* not started again (passesThrottle, m_next_id).
THEOREM FirstSightFires == Spec => FirstSightReported
<1>1. ASSUME Paced, [Next]_vars
      PROVE  [~restarted => (DOMAIN projected' \ sighted) \subseteq fired']_vars
  BY <1>1, PacedStep DEF FirstSeenFires
<1> QED BY <1>1, InitPaced, PacedStep, PTL DEF Spec, FirstSightReported

\* Later events of a track come exactly when they are due, for any number of
\* tracks and any size from which the throttle is purged, if a period is no
\* longer than an entry lasts (passesThrottle, the purge).
THEOREM EventsArePaced == Spec => EventsPaced
<1>1. ASSUME Paced, [Next]_vars
      PROVE  [\A id \in DOMAIN projected' \intersect DOMAIN since : period <= PurgeAge =>
                (id \in fired' <=> since[id] >= period /\ (projected'[id] \/ since[id] >= Steady))]_vars
  BY <1>1, PacedStep DEF DueFires
<1> QED BY <1>1, InitPaced, PacedStep, PTL DEF Spec, EventsPaced

---------------------------------------------------------------------------
(* Types. *)

LEMMA TrackTypes ==
  ASSUME NEW track \in Track
  PROVE  Hit(track) \in Track /\ Miss(track) \in Track
<1> DEFINE hits == IF track.hits = HitCap THEN HitCap ELSE track.hits + 1
           sure == track.confirmed \/ hits >= config.confirm
<1>1. /\ track.cls \in Classes /\ track.hits \in 0..HitCap /\ track.misses \in Nat
      /\ track.confirmed \in BOOLEAN
      /\ track = [cls |-> track.cls, hits |-> track.hits, misses |-> track.misses,
                  confirmed |-> track.confirmed]
  BY DEF Track
<1>2. hits \in 0..HitCap /\ sure \in BOOLEAN
  BY <1>1
<1>3. Hit(track) = [track EXCEPT !.hits = hits, !.misses = 0, !.confirmed = sure]
  BY Zenon DEF Hit
<1> HIDE DEF hits, sure
<1>4. Hit(track) = [cls |-> track.cls, hits |-> hits, misses |-> 0, confirmed |-> sure]
  BY <1>1, <1>3
<1>5. Miss(track) = [cls |-> track.cls, hits |-> 0, misses |-> track.misses + 1,
                     confirmed |-> track.confirmed]
  <2>1. Miss(track) = [track EXCEPT !.misses = track.misses + 1, !.hits = 0]
    BY DEF Miss
  <2> QED BY <1>1, <2>1
<1> QED BY <1>1, <1>2, <1>4, <1>5 DEF Track

LEMMA NewTrackType ==
  ASSUME NEW cls \in Classes
  PROVE  Hit(Unborn(cls)) \in Track
<1>1. Unborn(cls) \in Track
  BY DEF Unborn, Track
<1> QED BY <1>1, TrackTypes

LEMMA UpdateTypes ==
  ASSUME TrackTypeOK, Paced, NEW frame \in Frames, NEW pairing \in Pairings(frame),
         Update(frame, pairing)
  PROVE  TrackTypeOK'
<1>1. nextId \in Nat \ {0} /\ DOMAIN tracks \subseteq 1..(nextId - 1)
  BY DEF Paced
<1>2. /\ nextId' \in Nat \ {0}
      /\ DOMAIN tracks' \subseteq 1..(nextId' - 1)
      /\ seen' \subseteq 1..(nextId' - 1) /\ published' \subseteq seen'
  BY <1>1, FrameIds
<1>3. nextId' <= MaxIds + 1
  BY DEF Update
<1>4. nextId' \in 1..(MaxIds + 1) /\ 1..(nextId' - 1) \subseteq Ids
  <2>1. PICK n : n = nextId'
    OBVIOUS
  <2>2. n \in Nat /\ n >= 1 /\ n <= MaxIds + 1 /\ MaxIds \in Nat
    BY <1>2, <1>3, <2>1, TrackAssumption
  <2>3. n \in 1..(MaxIds + 1) /\ \A id \in 1..(n - 1) : id \in 1..MaxIds
    BY <2>2
  <2> QED BY <2>1, <2>3 DEF Ids
<1>5. config' = config
  BY <1>1, UpdateFacts
<1>6. DOMAIN tracks' \subseteq seen' \union DOMAIN tracks
  BY <1>1, UpdateFacts
<1>7. \A id \in seen' \ DOMAIN tracks : StartsTrack(id)
  BY <1>1, UpdateFacts
<1>8. \A id \in seen' \intersect DOMAIN tracks :
        id \in DOMAIN tracks' => tracks'[id] = Hit(tracks[id])
  BY <1>1, UpdateFacts
<1>9. \A id \in DOMAIN tracks \ seen' : id \in DOMAIN tracks' => tracks'[id] = Miss(tracks[id])
  BY <1>1, UpdateFacts
<1>10. ASSUME NEW id \in DOMAIN tracks' PROVE tracks'[id] \in Track
  <2>1. CASE id \in seen' \ DOMAIN tracks
    BY <1>7, <1>10, <2>1, NewTrackType DEF StartsTrack
  <2>2. CASE id \in seen' \intersect DOMAIN tracks
    BY <1>8, <1>10, <2>2, TrackTypes DEF TrackTypeOK
  <2>3. CASE id \in DOMAIN tracks \ seen'
    BY <1>9, <1>10, <2>3, TrackTypes DEF TrackTypeOK
  <2> QED BY <1>6, <1>10, <2>1, <2>2, <2>3
<1> QED BY <1>2, <1>4, <1>5, <1>10 DEF TrackTypeOK, Track

LEMMA SanitizedConfig ==
  ASSUME NEW c \in TrackConfigs
  PROVE  Sanitize(c) \in [confirm : 1..HitCap, misses : Nat]
<1>1. c.confirm \in Int /\ c.misses \in Int /\ c.confirm <= HitCap
  OBVIOUS
<1> QED BY <1>1 DEF Sanitize

LEMMA QuietTypes ==
  ASSUME Quiet
  PROVE  fired' \subseteq DOMAIN projected' /\ DOMAIN projected' \subseteq Tracks
BY DEF Quiet

LEMMA FrameTypes ==
  ASSUME TypeOK, Paced, Paced', Frame
  PROVE  TypeOK'
<1>f. PICK frame \in Frames : \E pairing \in Pairings(frame) :
         /\ Update(frame, pairing)
         /\ \/ \E met \in SUBSET published' :
                 \E moved \in [met -> BOOLEAN], order \in SetToSeqs(met) :
                     OnObservations(moved, order)
            \/ DropObservations
  BY DEF Frame
<1>1. PICK pairing \in Pairings(frame) :
         /\ Update(frame, pairing)
         /\ \/ \E met \in SUBSET published' :
                 \E moved \in [met -> BOOLEAN], order \in SetToSeqs(met) :
                     OnObservations(moved, order)
            \/ DropObservations
  BY <1>f
<1>2. TrackTypeOK'
  BY <1>1, UpdateTypes DEF TypeOK
<1>3. \A id \in DOMAIN throttle' : throttle'[id] \in 0..AgeCap
  BY DEF Paced
<1>4. CASE DropObservations
  BY <1>2, <1>3, <1>4, QuietTypes DEF DropObservations, settings, TypeOK, GeoTypeOK
<1>5. ASSUME NEW met \in SUBSET published', NEW moved \in [met -> BOOLEAN],
             NEW order \in SetToSeqs(met), OnObservations(moved, order)
      PROVE  TypeOK'
  <2>1. /\ period \in Nat /\ nextId' \in Nat
        /\ \A id \in DOMAIN throttle : throttle[id] \in Nat
    BY GeoAssumption DEF Paced
  <2>2. met \in SUBSET Ids /\ IsFiniteSet(Ids)
    <3>1. met \subseteq Ids
      BY <1>2 DEF TrackTypeOK
    <3>2. IsFiniteSet(Ids)
      BY FS_Interval DEF Ids
    <3> QED BY <3>1, <3>2
  <2>3. IsFiniteSet(met)
    BY <2>2, FS_Subset
  <2>4. fired' \subseteq met /\ DOMAIN throttle' \subseteq DOMAIN throttle \union fired'
    BY <1>5, <2>1, <2>3, FrameFires
  <2>5. DOMAIN projected' = met /\ UNCHANGED settings
    BY <1>5 DEF OnObservations
  <2> QED BY <1>2, <1>3, <2>2, <2>4, <2>5 DEF settings, TypeOK, GeoTypeOK
<1> QED BY <1>1, <1>4, <1>5

LEMMA StepTypes == ASSUME TypeOK, Paced, [Next]_vars PROVE TypeOK'
<1>p. Paced'
  BY PacedStep
<1>a. \A id \in DOMAIN throttle' : throttle'[id] \in 0..AgeCap
  BY <1>p DEF Paced
<1>1. CASE Frame
  BY <1>1, <1>p, FrameTypes
<1>2. CASE Time
  <2>1. UNCHANGED trackVars /\ UNCHANGED settings /\ Quiet /\ DOMAIN throttle' = DOMAIN throttle
    BY <1>2 DEF Time, Elapse
  <2>2. TrackTypeOK'
    BY <2>1 DEF TypeOK, TrackTypeOK, trackVars, Track
  <2>3. GeoTypeOK'
    BY <1>a, <2>1, QuietTypes DEF TypeOK, GeoTypeOK, settings
  <2> QED BY <2>2, <2>3 DEF TypeOK
<1>3. CASE TrackerChanges
  <2>1. UNCHANGED settings /\ throttle' = throttle /\ Quiet
    BY <1>3 DEF TrackerChanges
  <2>2. GeoTypeOK'
    BY <1>a, <2>1, QuietTypes DEF TypeOK, GeoTypeOK, settings
  <2>3. TrackTypeOK'
    <3>1. CASE Reset \/ RestartTracker
      <4>1. /\ DOMAIN tracks' = {} /\ seen' = {} /\ published' = {} /\ config' = config
            /\ nextId' \in {1, nextId}
        BY <3>1 DEF Reset, RestartTracker
      <4>2. config' \in [confirm : 1..HitCap, misses : Nat] /\ nextId' \in 1..(MaxIds + 1)
        BY <4>1 DEF TypeOK, TrackTypeOK
      <4> QED BY <4>1, <4>2 DEF TrackTypeOK, Track
    <3>2. CASE \E c \in TrackConfigs : SetConfig(c)
      <4>1. PICK c \in TrackConfigs : SetConfig(c)
        BY <3>2
      <4>2. config' \in [confirm : 1..HitCap, misses : Nat]
        BY <4>1, SanitizedConfig DEF SetConfig
      <4> QED BY <4>1, <4>2 DEF SetConfig, TypeOK, TrackTypeOK, Track
    <3> QED BY <1>3, <3>1, <3>2 DEF TrackerChanges
  <2> QED BY <2>2, <2>3 DEF TypeOK
<1>4. CASE ProjectorChanges
  <2>1. PICK on \in BOOLEAN, rate \in Periods :
        \/ InitThrows(on, rate)
        \/ \E loaded \in {"registry", "absent"} : InitRegistry(on, rate, loaded)
        \/ InitWrongType(on, rate)
        \/ \E listed \in {"config", "absent"} : InitTable(on, rate, listed)
        \/ SetEnabled(on)
    BY <1>4 DEF ProjectorChanges
  <2>2. /\ enabled' \in BOOLEAN /\ period' \in Periods /\ active' \in BOOLEAN
        /\ entry' \in {"registry", "config", "absent"}
        /\ Quiet /\ throttle' = throttle
    BY <2>1 DEF InitThrows, InitRegistry, InitWrongType, InitTable, SetEnabled, TypeOK, GeoTypeOK
  <2>3. GeoTypeOK'
    BY <1>a, <2>2, QuietTypes DEF TypeOK, GeoTypeOK
  <2>4. UNCHANGED trackVars
    BY <1>4 DEF ProjectorChanges
  <2>5. TrackTypeOK'
    BY <2>4 DEF TypeOK, TrackTypeOK, trackVars, Track
  <2> QED BY <2>3, <2>5 DEF TypeOK
<1>5. CASE UNCHANGED vars
  BY <1>5 DEF vars, trackVars, geoVars, TypeOK, TrackTypeOK, GeoTypeOK, Track
<1> QED BY <1>1, <1>2, <1>3, <1>4, <1>5 DEF Next

\* Every variable keeps its type: ids within the bound, hits and ages within
\* what they are counted up to, events only of tracks that were projected.
THEOREM TypeCorrect == Spec => []TypeOK
<1>1. Init => TypeOK
  <2> SUFFICES ASSUME Init PROVE TypeOK
    OBVIOUS
  <2>1. PICK c \in TrackConfigs : TrackInit(c)
    BY DEF Init
  <2>2. TrackTypeOK
    BY <2>1, SanitizedConfig DEF TrackInit, TrackTypeOK, Ids, Track
  <2>3. GeoTypeOK
    BY DEF Init, GeoInit, GeoTypeOK
  <2> QED BY <2>2, <2>3 DEF TypeOK
<1> QED BY <1>1, InitPaced, PacedStep, StepTypes, PTL DEF Spec
=============================================================================
