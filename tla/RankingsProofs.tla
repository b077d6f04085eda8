----------------------------- MODULE RankingsProofs -----------------------------
(***************************************************************************)
(* What holds of the daily rankings for any accounts, results, page size   *)
(* and number of days: every order the database may return has a settled   *)
(* account at the same place, and so the pages of a walk, which are        *)
(* queries of their own, show it once.                                     *)
(***************************************************************************)
EXTENDS Rankings, FiniteSetTheorems, FunctionTheorems, TLAPS

\* The divisor of a page count is positive.
LEMMA QuotientTyped ==
  ASSUME NEW a \in Nat, NEW b \in Nat \ {0}
  PROVE  (a + b - 1) \div b \in Nat
  OBVIOUS

\* A walk that has asked for one page more is a walk.
LEMMA WalkTyped ==
  ASSUME NEW w \in [cat : Categories, pages : Nat, next : Nat, empty : Nat,
                    times : [Players -> Nat], steady : SUBSET Players,
                    calm : BOOLEAN],
         NEW n \in Nat, NEW e \in Nat, NEW t \in [Players -> Nat]
  PROVE  [w EXCEPT !.next = n, !.empty = e, !.times = t]
           \in [cat : Categories, pages : Nat, next : Nat, empty : Nat,
               times : [Players -> Nat], steady : SUBSET Players,
               calm : BOOLEAN]
  OBVIOUS

\* The rows, the walk of a client and the rest of the rankings keep their type.
LEMMA RankTypeCorrect == RankSpec => []RankTypeOK
<1>1. RankInit => RankTypeOK
  <2> SUFFICES ASSUME RankInit PROVE RankTypeOK
    OBVIOUS
  <2> USE RankAssumption DEF Days
  <2>1. PICK board \in Boards :
          /\ rows = [p \in Players |->
                       [d \in Days |-> IF d = 0 THEN board[p] ELSE NoRow]]
          /\ first = [p \in Players |->
                       [d \in Days |-> IF d = 0 /\ board[p] # NoRow
                                       THEN board[p].stamp ELSE 0]]
    BY DEF RankInit
  <2>2. ASSUME NEW p \in Players
        PROVE  board[p] \in [score : Scores, stamp : Nat] \cup {NoRow}
    BY 0 .. Start \subseteq Nat
  <2>3. rows \in [Players -> [Days -> [score : Scores, stamp : Nat]
                                      \cup {NoRow}]]
    BY <2>1, <2>2
  <2>4. first \in [Players -> [Days -> Nat]]
    BY <2>1, <2>2
  <2>5. QED
    BY <2>3, <2>4 DEF RankInit, RankTypeOK, NoWalk, Categories
<1>2. RankTypeOK /\ [RankNext]_rankVars => RankTypeOK'
  <2> SUFFICES ASSUME RankTypeOK, [RankNext]_rankVars PROVE RankTypeOK'
    OBVIOUS
  <2> USE RankAssumption DEF RankTypeOK, Days
  <2>1. ASSUME Watched
        PROVE  walk' \in [cat : Categories, pages : Nat, next : Nat,
                          empty : Nat, times : [Players -> Nat],
                          steady : SUBSET Players, calm : BOOLEAN]
    <3>1. NoWalk \in [cat : Categories, pages : Nat, next : Nat,
                      empty : Nat, times : [Players -> Nat],
                      steady : SUBSET Players, calm : BOOLEAN]
      BY DEF NoWalk, Categories
    <3> DEFINE kept == {p \in walk.steady :
                          p \in Settled(walk.cat)'
                          /\ Place(p, walk.cat)' = Place(p, walk.cat)}
               calm == walk.calm /\ Counted(walk.cat)' = Counted(walk.cat)
                                 /\ Listed(walk.cat)' = Listed(walk.cat)
    <3>2. \/ walk' = NoWalk
          \/ walk' = [walk EXCEPT !.steady = kept, !.calm = calm]
      <4>1. PICK c \in {walk.cat} :
               walk' = IF ~Walking THEN NoWalk ELSE
                       [walk EXCEPT
                           !.steady = {p \in @ : p \in Settled(c)'
                                                 /\ Place(p, c)' = Place(p, c)},
                           !.calm = @ /\ Counted(c)' = Counted(c)
                                      /\ Listed(c)' = Listed(c)]
        BY <2>1, Zenon DEF Watched
      <4>2. c = walk.cat
        OBVIOUS
      <4>3. QED
        BY <4>1, <4>2, Zenon
    <3>3. kept \subseteq Players
      OBVIOUS
    <3>4. calm \in BOOLEAN
      BY Zenon
    <3> HIDE DEF kept, calm
    <3>5. QED
      BY <3>1, <3>2, <3>3, <3>4
  <2>2. ASSUME NEW p \in Players, NEW score \in Scores, Record(p, score)
        PROVE  RankTypeOK'
    <3>1. seconds' \in Nat
      BY <2>2 DEF Record
    <3>2. Updated(rows[p][today], score)
            \in [score : Scores, stamp : Nat] \cup {NoRow}
      BY <3>1 DEF Updated
    <3>3. rows' \in [Players -> [Days -> [score : Scores, stamp : Nat]
                                         \cup {NoRow}]]
      BY <2>2, <3>2 DEF Record
    <3>4. first' \in [Players -> [Days -> Nat]]
      BY <2>2, <3>1 DEF Record
    <3>5. results' \in 0 .. MaxResults /\ banned' \in SUBSET Players
          /\ today' \in 0 .. MaxDay
      BY <2>2 DEF Record
    <3>6. Watched
      BY <2>2 DEF Record
    <3>7. QED
      BY <2>1, <3>1, <3>3, <3>4, <3>5, <3>6
  <2>3. ASSUME NEW p \in Players, Ban(p) PROVE RankTypeOK'
    BY <2>1, <2>3 DEF Ban
  <2>4. CASE Midnight
    BY <2>1, <2>4 DEF Midnight
  <2>5. ASSUME NEW c \in Categories, AskPageCount(c) PROVE RankTypeOK'
    <3>1. FetchRankingPageCount(c) \in Nat
      <4>1. IsFiniteSet(Counted(c))
        BY FS_Subset DEF Counted
      <4>2. Cardinality(Counted(c)) \in Nat
        BY <4>1, FS_CardinalityType
      <4>3. QED
        BY <4>2, QuotientTyped, Zenon DEF FetchRankingPageCount
    <3>2. Settled(c) \subseteq Players
      BY DEF Settled, Listed, Counted
    <3>3. QED
      BY <2>5, <3>1, <3>2 DEF AskPageCount, NoWalk
  <2>6. CASE AskPage
    <3>1. PICK order \in Orders(walk.cat) :
             walk' = [walk EXCEPT
                        !.next = @ + 1,
                        !.empty = IF FetchRankings(order, walk.next) = {}
                                  THEN @ + 1 ELSE @,
                        !.times = [p \in Players |-> @[p] +
                           IF p \in FetchRankings(order, walk.next)
                           THEN 1 ELSE 0]]
      BY <2>6 DEF AskPage
    <3> DEFINE times == [p \in Players |-> walk.times[p] +
                            IF p \in FetchRankings(order, walk.next)
                            THEN 1 ELSE 0]
               empty == IF FetchRankings(order, walk.next) = {}
                        THEN walk.empty + 1 ELSE walk.empty
    <3>2. times \in [Players -> Nat] /\ empty \in Nat
      OBVIOUS
    <3>3. walk' = [walk EXCEPT !.next = walk.next + 1, !.empty = empty,
                               !.times = times]
      BY <3>1
    <3> HIDE DEF times, empty
    <3>4. walk' \in [cat : Categories, pages : Nat, next : Nat, empty : Nat,
                     times : [Players -> Nat], steady : SUBSET Players,
                     calm : BOOLEAN]
      <4>1. walk.next + 1 \in Nat
        OBVIOUS
      <4>2. QED
        BY <4>1, <3>2, <3>3, WalkTyped, Zenon
    <3>5. UNCHANGED << today, seconds, rows, banned, first, results >>
      BY <2>6 DEF AskPage
    <3>6. QED
      BY <3>4, <3>5
  <2>7. CASE UNCHANGED rankVars
    BY <2>7 DEF rankVars
  <2>8. QED
    BY <2>2, <2>3, <2>4, <2>5, <2>6, <2>7 DEF RankNext
<1>3. QED
  BY <1>1, <1>2, PTL DEF RankSpec

-----------------------------------------------------------------------------
(***************************************************************************)
(* The order                                                               *)
(***************************************************************************)

\* An account is ranked by a number.
LEMMA ScoreTyped ==
  ASSUME RankTypeOK, NEW p \in Players, NEW c \in Categories
  PROVE  Score(p, c) \in Nat
<1>1. ASSUME NEW d PROVE Points(p, c, d) \in Nat
  <2>1. CASE d \in Counting(p, c)
    <3>1. d \in Days
      BY <2>1 DEF Counting, Period, RankTypeOK
    <3>2. rows[p][d] \in [score : Scores, stamp : Nat] /\ Scores \subseteq Nat
      BY <2>1, <3>1, RankAssumption DEF Counting, RankTypeOK
    <3>3. QED
      BY <2>1, <3>2 DEF Points
  <2>2. CASE d \notin Counting(p, c)
    BY <2>2 DEF Points
  <2>3. QED
    BY <2>1, <2>2
<1>2. QED
  BY <1>1 DEF Score

\* No account is ahead of itself.
LEMMA NotAheadOfItself ==
  ASSUME RankTypeOK, NEW p \in Players, NEW c \in Categories, p \in Listed(c)
  PROVE  ~Ahead(p, p, c)
<1>1. Score(p, c) \in Nat
  BY ScoreTyped
<1>2. PICK d \in Days : d \in Counting(p, c)
  BY DEF Listed, Counted, Counting, Period, RankTypeOK
<1>3. rows[p][d].stamp \in Stamps(p, c) /\ rows[p][d].stamp \in Nat
  BY <1>2 DEF Stamps, Counting, RankTypeOK
<1>4. QED
  BY <1>1, <1>3 DEF Ahead

\* The accounts that count and those listed are finitely many, and the listed
\* ones are no more.
LEMMA ListedFinite ==
  ASSUME NEW c
  PROVE  /\ IsFiniteSet(Counted(c)) /\ IsFiniteSet(Listed(c))
         /\ Cardinality(Counted(c)) \in Nat
         /\ Cardinality(Listed(c)) \in Nat
         /\ Cardinality(Listed(c)) <= Cardinality(Counted(c))
<1>1. Counted(c) \subseteq Players /\ Listed(c) \subseteq Counted(c)
  BY DEF Counted, Listed
<1>2. IsFiniteSet(Counted(c))
  BY <1>1, RankAssumption, FS_Subset
<1>3. IsFiniteSet(Listed(c)) /\ Cardinality(Listed(c)) <= Cardinality(Counted(c))
  BY <1>1, <1>2, FS_Subset
<1>4. QED
  BY <1>2, <1>3, FS_CardinalityType

\* An order lists every account of the ranking once.
LEMMA OrderListsAll ==
  ASSUME NEW c, NEW order \in Orders(c), NEW n, n = Cardinality(Listed(c))
  PROVE  /\ n \in Nat
         /\ order \in [1 .. n -> Listed(c)]
         /\ \A i, j \in 1 .. n : order[i] = order[j] => i = j
         /\ \A p \in Listed(c) : \E i \in 1 .. n : order[i] = p
<1>1. IsFiniteSet(Listed(c)) /\ n \in Nat
  BY ListedFinite
<1>2. order \in [1 .. n -> Listed(c)]
  BY DEF Orders
<1>3. \A i, j \in 1 .. n : i < j => order[i] # order[j]
  BY DEF Orders
<1>4. ASSUME NEW i \in 1 .. n, NEW j \in 1 .. n, order[i] = order[j]
      PROVE  i = j
  BY <1>1, <1>3, <1>4
<1>5. order \in Injection(1 .. n, Listed(c))
  BY <1>2, <1>4 DEF Injection, IsInjective
<1>6. Cardinality(1 .. n) = n
  BY <1>1, FS_Interval
<1>7. order \in Surjection(1 .. n, Listed(c))
  BY <1>1, <1>5, <1>6, FS_Injection
<1>8. QED
  BY <1>1, <1>2, <1>4, <1>7 DEF Surjection

\* A settled account has the same place in every order: those ahead of it are
\* the ones that come before.
LEMMA SettledAtItsPlace ==
  ASSUME RankTypeOK, NEW c \in Categories, NEW order \in Orders(c),
         NEW i \in DOMAIN order, order[i] \in Settled(c)
  PROVE  Place(order[i], c) = i
<1> DEFINE n == Cardinality(Listed(c))
           p == order[i]
           before == {q \in Listed(c) : Ahead(q, p, c)}
           upto == 1 .. i - 1
           cut == [j \in upto |-> order[j]]
<1>1. /\ n \in Nat /\ order \in [1 .. n -> Listed(c)]
      /\ \A j, k \in 1 .. n : order[j] = order[k] => j = k
      /\ \A q \in Listed(c) : \E j \in 1 .. n : order[j] = q
  BY OrderListsAll
<1>2. i \in 1 .. n /\ p \in Listed(c) /\ p \in Players
  BY <1>1 DEF Listed, Counted
<1>3. \A j, k \in 1 .. n : j < k => ~Ahead(order[k], order[j], c)
  BY DEF Orders
<1>4. ASSUME NEW j \in 1 .. n
      PROVE  order[j] \in before <=> j < i
  <2>1. CASE j < i
    <3>1. order[j] # p /\ ~Ahead(p, order[j], c)
      BY <1>1, <1>2, <1>3, <2>1
    <3>2. QED
      BY <1>1, <2>1, <3>1 DEF Settled
  <2>2. CASE j = i
    BY <1>2, <2>2, NotAheadOfItself
  <2>3. CASE i < j
    BY <1>2, <1>3, <2>3
  <2>4. QED
    BY <1>1, <1>2, <2>1, <2>2, <2>3
<1>5. upto \subseteq 1 .. n
  BY <1>1, <1>2
<1>6. cut \in [upto -> before]
  BY <1>1, <1>2, <1>4, <1>5
<1>7. \A j, k \in upto : cut[j] = cut[k] => j = k
  BY <1>1, <1>5
<1>8. ASSUME NEW q \in before PROVE \E j \in upto : cut[j] = q
  <2>1. PICK j \in 1 .. n : order[j] = q
    BY <1>1
  <2>2. j < i
    BY <1>4, <2>1
  <2>3. QED
    BY <1>1, <1>2, <2>1, <2>2
<1>9. cut \in Bijection(upto, before)
  BY <1>6, <1>7, <1>8, Fun_IsBij
<1>10. Cardinality(before) = i - 1
  <2>1. i - 1 \in Nat
    BY <1>1, <1>2
  <2>2. ExistsBijection(upto, before)
    BY <1>9 DEF ExistsBijection
  <2>3. QED
    BY <2>1, <2>2, FS_CountingElements
<1>11. QED
  BY <1>1, <1>2, <1>10 DEF Place

\* The place of a settled account is within the ranking.
LEMMA PlaceListed ==
  ASSUME RankTypeOK, NEW c \in Categories, NEW p \in Settled(c)
  PROVE  /\ Place(p, c) \in Nat \ {0}
         /\ Place(p, c) <= Cardinality(Listed(c))
<1> DEFINE before == {q \in Listed(c) : Ahead(q, p, c)}
<1>1. p \in Listed(c) /\ p \in Players
  BY DEF Settled, Listed, Counted
<1>2. before \subseteq Listed(c) \ {p}
  BY <1>1, NotAheadOfItself
<1>3. /\ IsFiniteSet(Listed(c) \ {p})
      /\ Cardinality(Listed(c) \ {p}) = Cardinality(Listed(c)) - 1
  BY <1>1, ListedFinite, FS_RemoveElement
<1>4. /\ IsFiniteSet(before)
      /\ Cardinality(before) <= Cardinality(Listed(c)) - 1
  BY <1>2, <1>3, FS_Subset
<1>5. Cardinality(before) \in Nat
  BY <1>4, FS_CardinalityType
<1> HIDE DEF before
<1>6. Place(p, c) = Cardinality(before) + 1
  BY DEF Place, before
<1>7. QED
  BY <1>4, <1>5, <1>6, ListedFinite

\* Being ahead is transitive: an account that counts has a timestamp.
LEMMA AheadTransitive ==
  ASSUME RankTypeOK, NEW c \in Categories, NEW p \in Listed(c),
         NEW q \in Listed(c), NEW r \in Listed(c),
         Ahead(p, q, c), Ahead(q, r, c)
  PROVE  Ahead(p, r, c)
<1>1. p \in Players /\ q \in Players /\ r \in Players
  BY DEF Listed, Counted
<1>2. Score(p, c) \in Nat /\ Score(q, c) \in Nat /\ Score(r, c) \in Nat
  BY <1>1, ScoreTyped
<1>3. ASSUME NEW x \in Players PROVE Stamps(x, c) \subseteq Nat
  BY DEF Stamps, Counting, Period, RankTypeOK
<1>4. PICK s \in Nat : s \in Stamps(q, c)
  <2>1. PICK d \in Days : d \in Counting(q, c)
    BY DEF Listed, Counted, Counting, Period, RankTypeOK
  <2>2. rows[q][d].stamp \in Stamps(q, c)
    BY <2>1 DEF Stamps
  <2>3. QED
    BY <1>1, <1>3, <2>2
<1>5. CASE Score(p, c) > Score(r, c)
  BY <1>5 DEF Ahead
<1>6. CASE ~(Score(p, c) > Score(r, c))
  <2>1. Score(p, c) = Score(q, c) /\ Score(q, c) = Score(r, c)
    BY <1>2, <1>6 DEF Ahead
  <2>2. /\ \A u \in Stamps(p, c) : u < s
        /\ \A v \in Stamps(r, c) : s < v
    BY <1>2, <1>4, <2>1 DEF Ahead
  <2>3. ASSUME NEW u \in Stamps(p, c), NEW v \in Stamps(r, c) PROVE u < v
    BY <1>1, <1>3, <1>4, <2>2
  <2>4. QED
    BY <2>1, <2>3 DEF Ahead
<1>7. QED
  BY <1>5, <1>6

\* Sets of accounts can be taken from the smallest on.
LEMMA SmallestFirst ==
  ASSUME NEW c, NEW Bad, Bad \subseteq SUBSET Listed(c), Bad # {}
  PROVE  \E U \in Bad : \A x \in U : U \ {x} \notin Bad
<1> DEFINE R == StrictSubsetOrdering(Listed(c))
<1>1. IsWellFoundedOn(R, SUBSET Listed(c))
  BY ListedFinite, FS_FiniteSubsetsOfFinite, FS_StrictSubsetOrderingWellFounded
<1>2. PICK U \in Bad : \A V \in Bad : ~(<< V, U >> \in R)
  <2> HIDE DEF R
  <2>1. QED
    BY <1>1, WFMin
<1>3. ASSUME NEW x \in U PROVE << U \ {x}, U >> \in R
  BY DEF StrictSubsetOrdering
<1>4. QED
  BY <1>2, <1>3

\* Some account of every group is ahead of none of it.
LEMMA LastExists ==
  ASSUME RankTypeOK, NEW c \in Categories, NEW U, U \subseteq Listed(c), U # {}
  PROVE  \E x \in U : \A y \in U : ~Ahead(x, y, c)
<1> DEFINE Bad == {V \in SUBSET Listed(c) :
                     V # {} /\ \A x \in V : \E y \in V : Ahead(x, y, c)}
<1>1. ASSUME Bad # {} PROVE FALSE
  <2>1. PICK V \in Bad : \A x \in V : V \ {x} \notin Bad
    BY <1>1, SmallestFirst
  <2>2. PICK x \in V : TRUE
    OBVIOUS
  <2>3. PICK y \in V : Ahead(x, y, c)
    OBVIOUS
  <2>4. x \in Listed(c) /\ x \in Players /\ y \in Listed(c)
    BY <2>2 DEF Listed, Counted
  <2>5. y # x
    BY <2>3, <2>4, NotAheadOfItself
  <2>6. PICK z \in V \ {x} : \A w \in V \ {x} : ~Ahead(z, w, c)
    BY <2>1, <2>2, <2>5
  <2>7. z \in Listed(c) /\ Ahead(z, x, c)
    BY <2>6
  <2>8. Ahead(z, y, c)
    BY <2>3, <2>4, <2>7, AheadTransitive
  <2>9. QED
    BY <2>5, <2>6, <2>8
<1>2. U \notin Bad
  BY <1>1
<1>3. QED
  BY <1>2

\* A group of accounts in an order in which none is behind one it is ahead of.
Sorted(U, c) ==
    \E order \in [1 .. Cardinality(U) -> U] :
        \A i, j \in 1 .. Cardinality(U) :
            i < j => order[i] # order[j] /\ ~Ahead(order[j], order[i], c)

\* Every ranking can be ordered, ties and all: the orders that pages are taken
\* from are never none, and a client that walks can always ask for a page.
THEOREM OrdersExist ==
  ASSUME RankTypeOK, NEW c \in Categories
  PROVE  Orders(c) # {}
<1> DEFINE Bad == {U \in SUBSET Listed(c) : ~Sorted(U, c)}
<1>1. ASSUME Bad # {} PROVE FALSE
  <2>1. PICK U \in Bad : \A x \in U : U \ {x} \notin Bad
    BY <1>1, SmallestFirst
  <2>2. U \subseteq Listed(c) /\ ~Sorted(U, c)
    OBVIOUS
  <2>3. IsFiniteSet(U) /\ Cardinality(U) \in Nat
    BY <2>2, ListedFinite, FS_Subset, FS_CardinalityType
  <2>4. U # {}
    <3>1. ASSUME U = {} PROVE FALSE
      <4>1. Cardinality(U) = 0
        BY <3>1, FS_EmptySet
      <4>2. 1 .. Cardinality(U) = {}
        BY <4>1
      <4>3. [i \in {} |-> i] \in [1 .. Cardinality(U) -> U]
        BY <4>2
      <4>4. Sorted(U, c)
        BY <4>2, <4>3, Zenon DEF Sorted
      <4>5. QED
        BY <2>2, <4>4
    <3>2. QED
      BY <3>1
  <2>5. PICK x \in U : \A y \in U : ~Ahead(x, y, c)
    BY <2>2, <2>4, LastExists
  <2> DEFINE n == Cardinality(U)
             V == U \ {x}
  <2>6. n \in Nat \ {0} /\ Cardinality(V) = n - 1
    BY <2>3, <2>5, FS_RemoveElement, FS_EmptySet
  <2>7. Sorted(V, c)
    BY <2>1, <2>2, <2>5
  <2>8. PICK g \in [1 .. n - 1 -> V] :
           \A i, j \in 1 .. n - 1 :
               i < j => g[i] # g[j] /\ ~Ahead(g[j], g[i], c)
    BY <2>6, <2>7 DEF Sorted
  <2> DEFINE f == [i \in 1 .. n |-> IF i = n THEN x ELSE g[i]]
  <2> HIDE DEF n
  <2>9. ASSUME NEW i \in 1 .. n
        PROVE  f[i] \in U /\ (i # n => i \in 1 .. n - 1 /\ f[i] = g[i])
    BY <2>5, <2>6, <2>8
  <2>10. f \in [1 .. n -> U]
    BY <2>9
  <2>11. ASSUME NEW i \in 1 .. n, NEW j \in 1 .. n, i < j
         PROVE  f[i] # f[j] /\ ~Ahead(f[j], f[i], c)
    <3>1. i # n /\ i \in 1 .. n - 1 /\ f[i] = g[i]
      BY <2>6, <2>9, <2>11
    <3>2. CASE j = n
      <4>1. f[j] = x /\ g[i] \in V
        BY <2>6, <2>8, <3>1, <3>2
      <4>2. QED
        BY <2>5, <3>1, <4>1
    <3>3. CASE j # n
      BY <2>8, <2>9, <2>11, <3>1, <3>3
    <3>4. QED
      BY <3>2, <3>3
  <2> HIDE DEF f
  <2>12. Sorted(U, c)
    BY <2>10, <2>11 DEF Sorted, n
  <2>13. QED
    BY <2>2, <2>12
<1>2. Sorted(Listed(c), c)
  BY <1>1
<1>3. PICK order \in [1 .. Cardinality(Listed(c)) -> Listed(c)] :
         \A i, j \in 1 .. Cardinality(Listed(c)) :
             i < j => order[i] # order[j] /\ ~Ahead(order[j], order[i], c)
  BY <1>2 DEF Sorted
<1>4. order \in Orders(c)
  BY <1>3 DEF Orders
<1>5. QED
  BY <1>4

-----------------------------------------------------------------------------
(***************************************************************************)
(* The timestamps                                                          *)
(***************************************************************************)

\* A row keeps the timestamp of its first result, whatever came later.
StampIsFirst ==
    \A p \in Players, d \in Days :
        rows[p][d] # NoRow => rows[p][d].stamp = first[p][d]

\* Results are the only statements that write rows, and a result never moves
\* the timestamp of the row it finds.
LEMMA StampIsFirstInvariant == RankSpec => []StampIsFirst
<1>1. RankInit => StampIsFirst
  <2> SUFFICES ASSUME RankInit, NEW p \in Players, NEW d \in Days,
                      rows[p][d] # NoRow
               PROVE  rows[p][d].stamp = first[p][d]
    BY DEF StampIsFirst
  <2>1. PICK board \in Boards :
          /\ rows = [q \in Players |->
                       [e \in Days |-> IF e = 0 THEN board[q] ELSE NoRow]]
          /\ first = [q \in Players |->
                       [e \in Days |-> IF e = 0 /\ board[q] # NoRow
                                       THEN board[q].stamp ELSE 0]]
    BY DEF RankInit
  <2>2. QED
    BY <2>1
<1>2. RankTypeOK /\ StampIsFirst /\ [RankNext]_rankVars => StampIsFirst'
  <2> SUFFICES ASSUME RankTypeOK, StampIsFirst, [RankNext]_rankVars
               PROVE  StampIsFirst'
    OBVIOUS
  <2>1. ASSUME NEW p \in Players, NEW score \in Scores, Record(p, score)
        PROVE  StampIsFirst'
    <3> SUFFICES ASSUME NEW q \in Players, NEW d \in Days,
                        rows'[q][d] # NoRow
                 PROVE  rows'[q][d].stamp = first'[q][d]
      BY DEF StampIsFirst, Days
    <3>1. today \in Days
      BY DEF RankTypeOK
    <3>2. CASE q = p /\ d = today
      <4>1. /\ rows'[q][d] = Updated(rows[p][today], score)
            /\ first'[q][d] = IF rows[p][today] = NoRow THEN seconds'
                              ELSE first[p][today]
        BY <2>1, <3>1, <3>2 DEF Record, RankTypeOK
      <4>2. CASE rows[p][today] = NoRow
        BY <4>1, <4>2 DEF Updated
      <4>3. CASE rows[p][today] # NoRow
        <5>1. rows[p][today] \in [score : Scores, stamp : Nat]
          BY <3>1, <4>3 DEF RankTypeOK
        <5>2. rows[p][today].score \in Nat /\ score \in Nat
          BY <5>1, RankAssumption
        <5>3. ~((IF rows[p][today].score < score THEN score
                 ELSE rows[p][today].score) < score)
          BY <5>2
        <5>4. Updated(rows[p][today], score).stamp = rows[p][today].stamp
          BY <4>3, <5>3 DEF Updated
        <5>5. QED
          BY <3>1, <4>1, <4>3, <5>4 DEF StampIsFirst
      <4>4. QED
        BY <4>2, <4>3
    <3>3. CASE ~(q = p /\ d = today)
      <4>1. rows'[q][d] = rows[q][d] /\ first'[q][d] = first[q][d]
        BY <2>1, <3>1, <3>3 DEF Record, RankTypeOK
      <4>2. QED
        BY <4>1 DEF StampIsFirst
    <3>4. QED
      BY <3>2, <3>3
  <2>2. ASSUME NEW p \in Players, Ban(p) PROVE StampIsFirst'
    BY <2>2 DEF Ban, StampIsFirst, Days
  <2>3. CASE Midnight
    BY <2>3 DEF Midnight, StampIsFirst, Days
  <2>4. ASSUME NEW c \in Categories, AskPageCount(c) PROVE StampIsFirst'
    BY <2>4 DEF AskPageCount, StampIsFirst, Days
  <2>5. CASE AskPage
    BY <2>5 DEF AskPage, StampIsFirst, Days
  <2>6. CASE UNCHANGED rankVars
    BY <2>6 DEF rankVars, StampIsFirst, Days
  <2>7. QED
    BY <2>1, <2>2, <2>3, <2>4, <2>5, <2>6 DEF RankNext
<1>3. QED
  BY <1>1, <1>2, RankTypeCorrect, PTL DEF RankSpec

\* The ranking of the day has one row for each account.
LEMMA TodayAlone ==
  ASSUME RankTypeOK, NEW p \in Listed(0)
  PROVE  /\ p \in Players /\ rows[p][today] # NoRow
         /\ Score(p, 0) = rows[p][today].score
         /\ Stamps(p, 0) = {rows[p][today].stamp}
<1>1. today \in Nat
  BY RankAssumption DEF RankTypeOK, Days
<1>2. p \in Players /\ Counting(p, 0) = {today} /\ rows[p][today] # NoRow
  BY DEF Listed, Counted, Counting, Period
<1>3. Score(p, 0) \in Nat
  BY <1>2, ScoreTyped DEF Categories
<1>4. /\ Points(p, 0, today) = rows[p][today].score
      /\ \A k \in 1 .. 6 : Points(p, 0, today - k) = 0
  BY <1>1, <1>2 DEF Points
<1>5. rows[p][today].score \in Nat
  <2>1. rows[p][today] \in [score : Scores, stamp : Nat]
    BY <1>2 DEF RankTypeOK
  <2>2. QED
    BY <2>1, RankAssumption
<1>6. Score(p, 0) = rows[p][today].score
  BY <1>4, <1>5 DEF Score
<1>7. Stamps(p, 0) = {rows[p][today].stamp}
  BY <1>2 DEF Stamps
<1>8. QED
  BY <1>2, <1>6, <1>7

\* Ties of the day are broken by the first result, not by the one that reached
\* the score: no order lists the earlier one behind the later one.
THEOREM TieByFirstResultHolds == RankSpec => []TieByFirstResult
<1>1. RankTypeOK /\ StampIsFirst => TieByFirstResult
  <2> SUFFICES ASSUME RankTypeOK, StampIsFirst,
                      NEW order \in Orders(0),
                      NEW i \in DOMAIN order, NEW j \in DOMAIN order, i < j,
                      rows[order[i]][today].score = rows[order[j]][today].score
               PROVE  first[order[i]][today] <= first[order[j]][today]
    BY DEF TieByFirstResult
  <2> DEFINE n == Cardinality(Listed(0))
             p == order[i]
             q == order[j]
  <2>1. i \in 1 .. n /\ j \in 1 .. n /\ p \in Listed(0) /\ q \in Listed(0)
    BY OrderListsAll
  <2>2. ~Ahead(q, p, 0)
    BY <2>1 DEF Orders
  <2>3. /\ p \in Players /\ rows[p][today] # NoRow
        /\ Score(p, 0) = rows[p][today].score
        /\ Stamps(p, 0) = {rows[p][today].stamp}
    BY <2>1, TodayAlone
  <2>4. /\ q \in Players /\ rows[q][today] # NoRow
        /\ Score(q, 0) = rows[q][today].score
        /\ Stamps(q, 0) = {rows[q][today].stamp}
    BY <2>1, TodayAlone
  <2>5. ~(rows[q][today].stamp < rows[p][today].stamp)
    BY <2>2, <2>3, <2>4 DEF Ahead
  <2>6. /\ rows[p][today].stamp = first[p][today]
        /\ rows[q][today].stamp = first[q][today]
        /\ first[p][today] \in Nat /\ first[q][today] \in Nat
    BY <2>3, <2>4 DEF StampIsFirst, RankTypeOK
  <2>7. QED
    BY <2>5, <2>6
<1>2. QED
  BY <1>1, RankTypeCorrect, StampIsFirstInvariant, PTL

-----------------------------------------------------------------------------
(***************************************************************************)
(* The walk                                                                *)
(***************************************************************************)

\* The rankings are what the rows, the bans and the day say.
LEMMA RankingsSame ==
  ASSUME UNCHANGED << today, rows, banned >>, NEW c \in Categories
  PROVE  /\ Counted(c)' = Counted(c) /\ Listed(c)' = Listed(c)
         /\ FetchRankingPageCount(c)' = FetchRankingPageCount(c)
         /\ Settled(c)' = Settled(c)
         /\ \A p : Place(p, c)' = Place(p, c)
<1>1. ASSUME NEW p PROVE Counting(p, c)' = Counting(p, c)
  BY DEF Counting, Period, Days
<1>2. ASSUME NEW p
      PROVE  Score(p, c)' = Score(p, c) /\ Stamps(p, c)' = Stamps(p, c)
  BY <1>1 DEF Score, Points, Stamps
<1>3. Counted(c)' = Counted(c) /\ Listed(c)' = Listed(c)
  BY <1>1 DEF Counted, Listed
<1>4. ASSUME NEW p, NEW q PROVE Ahead(p, q, c)' = Ahead(p, q, c)
  BY <1>2 DEF Ahead
<1>5. Settled(c)' = Settled(c)
  BY <1>3, <1>4 DEF Settled
<1>6. ASSUME NEW p PROVE Place(p, c)' = Place(p, c)
  BY <1>3, <1>4 DEF Place
<1>7. FetchRankingPageCount(c)' = FetchRankingPageCount(c)
  BY <1>3 DEF FetchRankingPageCount
<1>8. QED
  BY <1>3, <1>5, <1>6, <1>7

\* What a change to the rankings leaves of a walk.
LEMMA WatchedWalk ==
  ASSUME RankTypeOK, Watched, NEW c \in Categories, walk.cat = c
  PROVE  \/ walk' = NoWalk
         \/ /\ walk'.cat = c /\ walk'.pages = walk.pages
            /\ walk'.next = walk.next /\ walk'.empty = walk.empty
            /\ walk'.times = walk.times
            /\ \A p \in walk'.steady :
                 p \in walk.steady /\ p \in Settled(c)'
                 /\ Place(p, c)' = Place(p, c)
            /\ walk'.calm => /\ walk.calm /\ Counted(c)' = Counted(c)
                             /\ Listed(c)' = Listed(c)
<1> DEFINE kept == {p \in walk.steady : p \in Settled(c)'
                                        /\ Place(p, c)' = Place(p, c)}
           calm == walk.calm /\ Counted(c)' = Counted(c)
                             /\ Listed(c)' = Listed(c)
<1>1. walk' = NoWalk \/ walk' = [walk EXCEPT !.steady = kept, !.calm = calm]
  <2>1. PICK d \in {walk.cat} :
           walk' = IF ~Walking THEN NoWalk ELSE
                   [walk EXCEPT
                       !.steady = {p \in @ : p \in Settled(d)'
                                             /\ Place(p, d)' = Place(p, d)},
                       !.calm = @ /\ Counted(d)' = Counted(d)
                                  /\ Listed(d)' = Listed(d)]
    BY Zenon DEF Watched
  <2>2. d = c
    OBVIOUS
  <2>3. QED
    BY <2>1, <2>2, Zenon
<1>2. \A p \in kept : p \in walk.steady /\ p \in Settled(c)'
                      /\ Place(p, c)' = Place(p, c)
  OBVIOUS
<1>3. calm => /\ walk.calm /\ Counted(c)' = Counted(c)
              /\ Listed(c)' = Listed(c)
  OBVIOUS
<1>4. calm \in BOOLEAN
  BY Zenon
<1> HIDE DEF kept, calm
<1>5. QED
  BY <1>1, <1>2, <1>3, <1>4 DEF RankTypeOK

\* What a page adds to a walk.
LEMMA PageAsked ==
  ASSUME RankTypeOK, AskPage, NEW c \in Categories, walk.cat = c
  PROVE  \E order \in Orders(c) :
           LET page == FetchRankings(order, walk.next) IN
           /\ walk'.cat = c /\ walk'.pages = walk.pages
           /\ walk'.next = walk.next + 1
           /\ walk'.empty = IF page = {} THEN walk.empty + 1 ELSE walk.empty
           /\ walk'.steady = walk.steady /\ walk'.calm = walk.calm
           /\ \A p \in Players :
                walk'.times[p] = walk.times[p] + IF p \in page THEN 1 ELSE 0
<1>1. PICK order \in Orders(c) :
         walk' = [walk EXCEPT
                    !.next = @ + 1,
                    !.empty = IF FetchRankings(order, walk.next) = {}
                              THEN @ + 1 ELSE @,
                    !.times = [p \in Players |-> @[p] +
                       IF p \in FetchRankings(order, walk.next)
                       THEN 1 ELSE 0]]
  BY DEF AskPage
<1>2. QED
  BY <1>1 DEF RankTypeOK

\* The number of pages: they have room for all accounts, and the last one does
\* not begin behind them.
LEMMA PageCountCovers ==
  ASSUME NEW m \in Nat, NEW k, k = (m + PageSize - 1) \div PageSize
  PROVE  k \in Nat /\ m <= k * PageSize /\ k * PageSize < m + PageSize
<1>1. PageSize \in Nat \ {0}
  BY RankAssumption
<1> HIDE DEF RankAssumption
<1>2. k \in Nat
  BY <1>1, QuotientTyped
<1>3. m <= k * PageSize /\ k * PageSize < m + PageSize
  BY <1>1, <1>2
<1>4. QED
  BY <1>2, <1>3

\* An empty page within the page count: the ranking is shorter than the count.
LEMMA EmptyPageListsLess ==
  ASSUME NEW c, NEW order \in Orders(c), NEW page \in Nat \ {0},
         page <= FetchRankingPageCount(c), FetchRankings(order, page) = {}
  PROVE  banned \cap Counted(c) # {}
<1> DEFINE n == Cardinality(Listed(c))
           m == Cardinality(Counted(c))
           k == FetchRankingPageCount(c)
<1>1. n \in Nat /\ m \in Nat /\ DOMAIN order = 1 .. n
  BY ListedFinite, OrderListsAll
<1>2. k \in Nat /\ k * PageSize < m + PageSize
  BY <1>1, PageCountCovers DEF FetchRankingPageCount
<1>3. PageSize \in Nat \ {0}
  BY RankAssumption
<1> HIDE DEF k, m, n
<1>4. page \in Nat \ {0} /\ page <= k
  BY DEF k
<1>5. (page - 1) * PageSize \in Nat
  BY <1>3, <1>4
<1>6. (page - 1) * PageSize + 1 \notin DOMAIN order
  BY <1>3, <1>5 DEF FetchRankings
<1>7. n <= (page - 1) * PageSize
  BY <1>1, <1>5, <1>6
<1>8. (page - 1) * PageSize + PageSize <= k * PageSize
  BY <1>2, <1>3, <1>4
<1>9. n < m
  BY <1>1, <1>2, <1>3, <1>5, <1>7, <1>8
<1>10. Listed(c) # Counted(c)
  BY <1>1, <1>9 DEF n, m
<1>11. QED
  BY <1>10 DEF Listed

\* While nothing has changed a walk's page count is the present one, and what it
\* has found empty is owed to the bans.  The pages it asks for are those counted.
CalmWalk ==
    /\ walk.next >= 1
    /\ \A c \in Categories :
         walk.cat = c /\ walk.calm =>
           /\ walk.pages = FetchRankingPageCount(c)
           /\ walk.empty > 0 => banned \cap Counted(c) # {}

\* A change of the rows or of the bans keeps a walk calm only if the accounts
\* that count and those listed stay the same.
LEMMA CalmWatched ==
  ASSUME RankTypeOK, CalmWalk, Watched PROVE CalmWalk'
<1>1. PICK c \in Categories : walk.cat = c
  BY DEF RankTypeOK
<1>2. CASE walk' = NoWalk
  BY <1>2 DEF CalmWalk, NoWalk
<1>3. CASE walk' # NoWalk
  <2>1. /\ walk'.cat = c /\ walk'.pages = walk.pages
        /\ walk'.next = walk.next /\ walk'.empty = walk.empty
        /\ walk'.calm => /\ walk.calm /\ Counted(c)' = Counted(c)
                         /\ Listed(c)' = Listed(c)
    BY <1>1, <1>3, WatchedWalk
  <2>2. ASSUME walk'.calm
        PROVE  /\ walk'.pages = FetchRankingPageCount(c)'
               /\ walk'.empty > 0 => banned' \cap Counted(c)' # {}
    <3>1. FetchRankingPageCount(c)' = FetchRankingPageCount(c)
      BY <2>1, <2>2 DEF FetchRankingPageCount
    <3>2. banned' \cap Counted(c)' = banned \cap Counted(c)
      BY <2>1, <2>2 DEF Listed
    <3>3. QED
      BY <1>1, <2>1, <2>2, <3>1, <3>2 DEF CalmWalk
  <2>3. QED
    BY <2>1, <2>2 DEF CalmWalk, Categories
<1>4. QED
  BY <1>2, <1>3

\* Every step keeps the account of what a calm walk has seen.
LEMMA CalmWalkInvariant == RankSpec => []CalmWalk
<1>1. RankInit => CalmWalk
  BY DEF RankInit, CalmWalk, NoWalk
<1>2. RankTypeOK /\ CalmWalk /\ [RankNext]_rankVars => CalmWalk'
  <2> SUFFICES ASSUME RankTypeOK, CalmWalk, [RankNext]_rankVars
               PROVE  CalmWalk'
    OBVIOUS
  <2>1. ASSUME NEW p \in Players, NEW score \in Scores, Record(p, score)
        PROVE  CalmWalk'
    BY <2>1, CalmWatched DEF Record
  <2>2. ASSUME NEW p \in Players, Ban(p) PROVE CalmWalk'
    BY <2>2, CalmWatched DEF Ban
  <2>3. CASE Midnight
    BY <2>3, CalmWatched DEF Midnight
  <2>4. ASSUME NEW c \in Categories, AskPageCount(c) PROVE CalmWalk'
    <3>1. UNCHANGED << today, rows, banned >>
      BY <2>4 DEF AskPageCount
    <3>2. /\ walk'.cat = c /\ walk'.next = 1 /\ walk'.empty = 0
          /\ walk'.pages = FetchRankingPageCount(c)
      BY <2>4 DEF AskPageCount, NoWalk
    <3>3. \A d \in Categories :
            FetchRankingPageCount(d)' = FetchRankingPageCount(d)
      BY <3>1, RankingsSame
    <3>4. QED
      BY <3>2, <3>3 DEF CalmWalk, Categories
  <2>5. CASE AskPage
    <3>1. PICK c \in Categories : walk.cat = c
      BY DEF RankTypeOK
    <3>2. PICK order \in Orders(c) :
            LET page == FetchRankings(order, walk.next) IN
            /\ walk'.cat = c /\ walk'.pages = walk.pages
            /\ walk'.next = walk.next + 1
            /\ walk'.empty = IF page = {} THEN walk.empty + 1 ELSE walk.empty
            /\ walk'.calm = walk.calm
      BY <2>5, <3>1, PageAsked
    <3>3. UNCHANGED << today, rows, banned >>
      BY <2>5 DEF AskPage
    <3>4. /\ FetchRankingPageCount(c)' = FetchRankingPageCount(c)
          /\ Counted(c)' = Counted(c)
      BY <3>3, RankingsSame
    <3>5. walk.next \in Nat \ {0} /\ walk.next <= walk.pages
      BY <2>5 DEF AskPage, Walking, CalmWalk, RankTypeOK
    <3>6. ASSUME walk'.calm
          PROVE  /\ walk'.pages = FetchRankingPageCount(c)'
                 /\ walk'.empty > 0 => banned' \cap Counted(c)' # {}
      <4>1. /\ walk.pages = FetchRankingPageCount(c)
            /\ walk.empty > 0 => banned \cap Counted(c) # {}
        BY <3>1, <3>2, <3>6 DEF CalmWalk
      <4>2. FetchRankings(order, walk.next) = {}
              => banned \cap Counted(c) # {}
        BY <3>5, <4>1, EmptyPageListsLess
      <4>3. QED
        BY <3>2, <3>3, <3>4, <4>1, <4>2
    <3>7. QED
      BY <3>2, <3>5, <3>6 DEF CalmWalk, Categories
  <2>6. CASE UNCHANGED rankVars
    <3>1. UNCHANGED << today, rows, banned, walk >>
      BY <2>6 DEF rankVars
    <3>2. \A c \in Categories :
            /\ FetchRankingPageCount(c)' = FetchRankingPageCount(c)
            /\ Counted(c)' = Counted(c)
      BY <3>1, RankingsSame
    <3>3. QED
      BY <3>1, <3>2 DEF CalmWalk, Categories
  <2>7. QED
    BY <2>1, <2>2, <2>3, <2>4, <2>5, <2>6 DEF RankNext
<1>3. QED
  BY <1>1, <1>2, RankTypeCorrect, PTL DEF RankSpec

\* A page within the page count is empty only because of banned accounts, or
\* because the ranking has changed since it was counted.
THEOREM EmptyPagesMeanBannedHolds == RankSpec => []EmptyPagesMeanBanned
<1>1. RankTypeOK /\ CalmWalk => EmptyPagesMeanBanned
  BY DEF RankTypeOK, CalmWalk, EmptyPagesMeanBanned
<1>2. QED
  BY <1>1, RankTypeCorrect, CalmWalkInvariant, PTL

\* A page shows a settled account if its place is on that page, and not
\* otherwise.
LEMMA PageShowsItsPlaces ==
  ASSUME RankTypeOK, NEW c \in Categories, NEW order \in Orders(c),
         NEW page \in Nat, NEW p \in Settled(c)
  PROVE  p \in FetchRankings(order, page)
           <=> /\ (page - 1) * PageSize < Place(p, c)
               /\ Place(p, c) <= (page - 1) * PageSize + PageSize
<1> DEFINE n == Cardinality(Listed(c))
           offset == (page - 1) * PageSize
<1>1. n \in Nat /\ DOMAIN order = 1 .. n /\ offset \in Int
  BY OrderListsAll, RankAssumption
<1>2. PICK i \in 1 .. n : order[i] = p
  BY OrderListsAll DEF Settled
<1>3. i = Place(p, c)
  BY <1>1, <1>2, SettledAtItsPlace
<1>4. \A j \in 1 .. n : order[j] = p => j = i
  BY <1>2, OrderListsAll
<1> HIDE DEF offset, n
<1>5. p \in FetchRankings(order, page)
        <=> \E j \in 1 .. n : j \in offset + 1 .. offset + PageSize
                              /\ order[j] = p
  BY <1>1 DEF FetchRankings, offset
<1>6. PageSize \in Nat
  BY RankAssumption
<1>7. i \in offset + 1 .. offset + PageSize
        <=> offset < i /\ i <= offset + PageSize
  BY <1>1, <1>2, <1>6
<1>8. QED
  BY <1>2, <1>3, <1>4, <1>5, <1>7 DEF offset

\* What a walk knows of a steady account: it is settled on one of the pages
\* counted, and has been seen if that page has been asked for.
SteadyWalk ==
    /\ walk.next >= 1 /\ walk.next <= walk.pages + 1
    /\ \A c \in Categories : walk.cat = c =>
         \A p \in walk.steady :
           /\ p \in Settled(c)
           /\ Place(p, c) <= walk.pages * PageSize
           /\ walk.times[p] =
                IF Place(p, c) <= (walk.next - 1) * PageSize THEN 1 ELSE 0

\* The other steps leave the account of a steady account as it is.
LEMMA SteadyWatched ==
  ASSUME RankTypeOK, SteadyWalk, Watched PROVE SteadyWalk'
<1>1. PICK c \in Categories : walk.cat = c
  BY DEF RankTypeOK
<1>2. CASE walk' = NoWalk
  BY <1>2 DEF SteadyWalk, NoWalk
<1>3. CASE walk' # NoWalk
  <2>1. /\ walk'.cat = c /\ walk'.pages = walk.pages
        /\ walk'.next = walk.next /\ walk'.times = walk.times
        /\ \A p \in walk'.steady :
             p \in walk.steady /\ p \in Settled(c)'
             /\ Place(p, c)' = Place(p, c)
    BY <1>1, <1>3, WatchedWalk
  <2>2. QED
    BY <1>1, <2>1 DEF SteadyWalk, Categories
<1>4. QED
  BY <1>2, <1>3

\* A new walk has room for every account on its pages and has seen none.
LEMMA SteadyAtFirst ==
  ASSUME RankTypeOK, NEW c \in Categories, AskPageCount(c) PROVE SteadyWalk'
<1>1. UNCHANGED << today, rows, banned >>
  BY DEF AskPageCount
<1>2. /\ walk'.cat = c /\ walk'.next = 1 /\ walk'.steady = Settled(c)
      /\ walk'.pages = FetchRankingPageCount(c)
      /\ \A p \in Players : walk'.times[p] = 0
  BY DEF AskPageCount, NoWalk
<1>3. Settled(c)' = Settled(c) /\ \A p : Place(p, c)' = Place(p, c)
  BY <1>1, RankingsSame
<1>4. FetchRankingPageCount(c) \in Nat
  BY ListedFinite, PageCountCovers DEF FetchRankingPageCount
<1>5. ASSUME NEW p \in Settled(c)
      PROVE  /\ Place(p, c) <= FetchRankingPageCount(c) * PageSize
             /\ ~(Place(p, c) <= (1 - 1) * PageSize)
             /\ p \in Players
  <2>1. /\ Place(p, c) \in Nat \ {0}
        /\ Place(p, c) <= Cardinality(Listed(c))
    BY PlaceListed
  <2>2. /\ Cardinality(Counted(c)) \in Nat /\ Cardinality(Listed(c)) \in Nat
        /\ Cardinality(Listed(c)) <= Cardinality(Counted(c))
    BY ListedFinite
  <2>3. Cardinality(Counted(c)) <= FetchRankingPageCount(c) * PageSize
    BY <2>2, PageCountCovers DEF FetchRankingPageCount
  <2>4. (1 - 1) * PageSize = 0 /\ FetchRankingPageCount(c) * PageSize \in Nat
    BY <1>4, RankAssumption
  <2>5. p \in Players
    BY DEF Settled, Listed, Counted
  <2>6. QED
    BY <2>1, <2>2, <2>3, <2>4, <2>5
<1>6. QED
  BY <1>2, <1>3, <1>4, <1>5 DEF SteadyWalk, Categories

\* The next page shows the accounts whose place is on it, and only those.
LEMMA SteadyAsked ==
  ASSUME RankTypeOK, SteadyWalk, AskPage PROVE SteadyWalk'
<1>1. PICK c \in Categories : walk.cat = c
  BY DEF RankTypeOK
<1>2. PICK order \in Orders(c) :
         LET page == FetchRankings(order, walk.next) IN
         /\ walk'.cat = c /\ walk'.pages = walk.pages
         /\ walk'.next = walk.next + 1
         /\ walk'.steady = walk.steady
         /\ \A p \in Players :
              walk'.times[p] = walk.times[p] + IF p \in page THEN 1 ELSE 0
  BY <1>1, PageAsked
<1>3. UNCHANGED << today, rows, banned >>
  BY DEF AskPage
<1>4. Settled(c)' = Settled(c) /\ \A p : Place(p, c)' = Place(p, c)
  BY <1>3, RankingsSame
<1>5. walk.next \in Nat \ {0} /\ walk.pages \in Nat /\ walk.next <= walk.pages
  BY DEF AskPage, Walking, SteadyWalk, RankTypeOK
<1>6. ASSUME NEW p \in walk.steady
      PROVE  /\ p \in Settled(c) /\ Place(p, c) <= walk.pages * PageSize
             /\ walk'.times[p] =
                  IF Place(p, c) <= (walk.next + 1 - 1) * PageSize
                  THEN 1 ELSE 0
  <2>1. /\ p \in Settled(c) /\ Place(p, c) <= walk.pages * PageSize
        /\ walk.times[p] =
             IF Place(p, c) <= (walk.next - 1) * PageSize THEN 1 ELSE 0
    BY <1>1 DEF SteadyWalk
  <2>2. p \in Players
    BY <2>1 DEF Settled, Listed, Counted
  <2>3. p \in FetchRankings(order, walk.next)
          <=> /\ (walk.next - 1) * PageSize < Place(p, c)
              /\ Place(p, c) <= (walk.next - 1) * PageSize + PageSize
    BY <1>5, <2>1, PageShowsItsPlaces
  <2>4. /\ Place(p, c) \in Nat /\ (walk.next - 1) * PageSize \in Nat
        /\ PageSize \in Nat
        /\ (walk.next + 1 - 1) * PageSize
             = (walk.next - 1) * PageSize + PageSize
    BY <1>5, <2>1, PlaceListed, RankAssumption
  <2>5. walk'.times[p] = walk.times[p]
          + IF p \in FetchRankings(order, walk.next) THEN 1 ELSE 0
    BY <1>2, <2>2
  <2>6. QED
    BY <2>1, <2>3, <2>4, <2>5
<1>7. QED
  BY <1>2, <1>4, <1>5, <1>6 DEF SteadyWalk, Categories

\* Every step keeps the account of the steady accounts.
LEMMA SteadyWalkInvariant == RankSpec => []SteadyWalk
<1>1. RankInit => SteadyWalk
  BY DEF RankInit, SteadyWalk, NoWalk
<1>2. RankTypeOK /\ SteadyWalk /\ [RankNext]_rankVars => SteadyWalk'
  <2> SUFFICES ASSUME RankTypeOK, SteadyWalk, [RankNext]_rankVars
               PROVE  SteadyWalk'
    OBVIOUS
  <2>1. ASSUME NEW p \in Players, NEW score \in Scores, Record(p, score)
        PROVE  SteadyWalk'
    BY <2>1, SteadyWatched DEF Record
  <2>2. ASSUME NEW p \in Players, Ban(p) PROVE SteadyWalk'
    BY <2>2, SteadyWatched DEF Ban
  <2>3. CASE Midnight
    BY <2>3, SteadyWatched DEF Midnight
  <2>4. ASSUME NEW c \in Categories, AskPageCount(c) PROVE SteadyWalk'
    BY <2>4, SteadyAtFirst
  <2>5. CASE AskPage
    BY <2>5, SteadyAsked
  <2>6. CASE UNCHANGED rankVars
    <3>1. UNCHANGED << today, rows, banned, walk >>
      BY <2>6 DEF rankVars
    <3>2. \A c \in Categories :
            Settled(c)' = Settled(c) /\ \A p : Place(p, c)' = Place(p, c)
      BY <3>1, RankingsSame
    <3>3. QED
      BY <3>1, <3>2 DEF SteadyWalk, Categories
  <2>7. QED
    BY <2>1, <2>2, <2>3, <2>4, <2>5, <2>6 DEF RankNext
<1>3. QED
  BY <1>1, <1>2, RankTypeCorrect, PTL DEF RankSpec

\* A client that walks through all pages sees every account that kept its place
\* during the walk exactly once.
THEOREM WalkShowsTheSteadyHolds == RankSpec => []WalkShowsTheSteady
<1>1. RankTypeOK /\ SteadyWalk => WalkShowsTheSteady
  <2> SUFFICES ASSUME RankTypeOK, SteadyWalk, WalkOver, NEW p \in walk.steady
               PROVE  walk.times[p] = 1
    BY DEF WalkShowsTheSteady
  <2>1. PICK c \in Categories : walk.cat = c
    BY DEF RankTypeOK
  <2>2. walk.next - 1 = walk.pages
    <3>1. walk.next \in Nat /\ walk.pages \in Nat
      BY DEF RankTypeOK
    <3>2. walk.next <= walk.pages + 1
      BY DEF SteadyWalk
    <3>3. ~(walk.next <= walk.pages)
      BY DEF WalkOver, Walking
    <3>4. QED
      BY <3>1, <3>2, <3>3
  <2>3. QED
    BY <2>1, <2>2 DEF SteadyWalk
<1>2. QED
  BY <1>1, RankTypeCorrect, SteadyWalkInvariant, PTL
=============================================================================
