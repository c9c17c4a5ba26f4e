------------------------- MODULE ProfileReaderProofs -------------------------
(***************************************************************************)
(* Paged reading returns every whole transaction once, for any number of   *)
(* clients' transactions, chunks, rows and commits, wherever the pages     *)
(* stop, however they are lost, and whatever is written in between.        *)
(***************************************************************************)
EXTENDS ProfileReader, FiniteSetTheorems, WellFoundedInduction, TLAPS

USE IdsAssumption, TotalAssumption, BoundAssumption, NoneAssumption

-----------------------------------------------------------------------------
(* Numbers, and functions defined by recursion on them.                    *)

\* A set of numbers has a least one.
LEMMA LeastNumber ==
    ASSUME NEW S, S \subseteq Nat, S # {}
    PROVE  \E m \in S : \A n \in S : m <= n
<1>1. PICK m \in S : \A n \in S : <<n, m>> \notin OpToRel(<, Nat)
  BY NatLessThanWellFounded, WFMin, Zenon
<1>2. \A n \in S : ~(n < m)
  BY <1>1, Zenon DEF OpToRel
<1> QED
  BY <1>2

\* A set of numbers that has 0 and the successor of its members has all of them.
LEMMA NumberInduction ==
    ASSUME NEW S, 0 \in S, \A n \in Nat : n \in S => n + 1 \in S
    PROVE  Nat \subseteq S
<1> SUFFICES ASSUME Nat \ S # {} PROVE FALSE
  OBVIOUS
<1>1. PICK m \in Nat \ S : \A n \in Nat \ S : m <= n
  BY LeastNumber
<1>2. m # 0 /\ m - 1 \in Nat /\ ~(m <= m - 1)
  BY <1>1
<1>3. m - 1 \in S /\ (m - 1) + 1 = m
  BY <1>1, <1>2
<1> QED
  BY <1>1, <1>2, <1>3

\* A start and a step define a function on the numbers.
IsStep(X, step) == step \in [Nat -> [X -> X]]
Iterates(X, x0, step, f) ==
    f \in [Nat -> X] /\ f[0] = x0 /\ \A k \in Nat : f[k + 1] = step[k + 1][f[k]]

LEMMA RecursiveFunction ==
    ASSUME NEW X, NEW x0 \in X, NEW step, IsStep(X, step)
    PROVE  \E f : Iterates(X, x0, step, f)
<1> USE DEF IsStep
<1> DEFINE Upto(n) == {g \in [0 .. n -> X] :
                        g[0] = x0 /\ \A k \in 1 .. n : g[k] = step[k][g[k - 1]]}
           Some == {n \in Nat : Upto(n) # {}}
<1>1. 0 \in Some
  <2>1. [k \in 0 .. 0 |-> x0] \in Upto(0)
    OBVIOUS
  <2> QED
    BY <2>1
<1>2. ASSUME NEW n \in Nat, n \in Some PROVE n + 1 \in Some
  <2>1. PICK g \in [0 .. n -> X] : g[0] = x0 /\ \A k \in 1 .. n : g[k] = step[k][g[k - 1]]
    BY <1>2
  <2> DEFINE h == [k \in 0 .. n + 1 |-> IF k <= n THEN g[k] ELSE step[n + 1][g[n]]]
  <2>2. g[n] \in X /\ step[n + 1][g[n]] \in X
    <3>1. n \in 0 .. n /\ n + 1 \in Nat
      OBVIOUS
    <3>2. g[n] \in X /\ step[n + 1] \in [X -> X]
      BY <3>1
    <3> QED
      BY <3>2
  <2>3. h \in [0 .. n + 1 -> X] /\ h[0] = x0
    BY <2>1, <2>2
  <2>4. ASSUME NEW k \in 1 .. n + 1 PROVE h[k] = step[k][h[k - 1]]
    <3>1. CASE k = n + 1
      BY <3>1
    <3>2. CASE k # n + 1
      <4>1. k \in 1 .. n /\ k - 1 \in 0 .. n /\ k \in 0 .. n + 1 /\ k - 1 \in 0 .. n + 1
        BY <3>2
      <4>2. h[k] = g[k] /\ h[k - 1] = g[k - 1]
        BY <4>1
      <4> QED
        BY <2>1, <4>1, <4>2
    <3> QED
      BY <3>1, <3>2
  <2>5. h \in Upto(n + 1)
    BY <2>3, <2>4
  <2> HIDE DEF Upto, h
  <2> QED
    BY <2>5
<1>3. \A n \in Nat : Upto(n) # {}
  <2> HIDE DEF Upto
  <2> QED
    BY <1>1, <1>2, NumberInduction
<1>4. ASSUME NEW n \in Nat, NEW m \in Nat, NEW g \in Upto(n), NEW h \in Upto(m),
             NEW l \in Nat, l <= n, l <= m
      PROVE  g[l] = h[l]
  <2> DEFINE Same == {k \in Nat : k <= n /\ k <= m => g[k] = h[k]}
  <2>1. 0 \in Same
    OBVIOUS
  <2>2. ASSUME NEW k \in Nat, k \in Same PROVE k + 1 \in Same
    <3>1. SUFFICES ASSUME k + 1 <= n, k + 1 <= m PROVE g[k + 1] = h[k + 1]
      OBVIOUS
    <3>2. g[k] = h[k] /\ k + 1 \in 1 .. n /\ k + 1 \in 1 .. m /\ (k + 1) - 1 = k
      BY <2>2, <3>1
    <3> QED
      BY <3>2
  <2>3. Nat \subseteq Same
    <3> HIDE DEF Same
    <3> QED
      BY <2>1, <2>2, NumberInduction
  <2> QED
    BY <2>3, <1>4
<1> DEFINE part == [n \in Nat |-> CHOOSE g \in Upto(n) : TRUE]
           f == [n \in Nat |-> part[n][n]]
<1>5. \A n \in Nat : part[n] \in Upto(n)
  <2> HIDE DEF Upto
  <2> QED
    BY <1>3
<1>6. \A n \in Nat : part[n] \in [0 .. n -> X]
  BY <1>5
<1>7. f \in [Nat -> X]
  <2> HIDE DEF part
  <2>1. ASSUME NEW n \in Nat PROVE part[n][n] \in X
    <3>1. n \in 0 .. n
      OBVIOUS
    <3> QED
      BY <1>6, <3>1
  <2> QED
    BY <2>1
<1>8. f[0] = x0
  BY <1>5
<1>9. ASSUME NEW k \in Nat PROVE f[k + 1] = step[k + 1][f[k]]
  <2>1. k + 1 \in Nat /\ k + 1 \in 1 .. k + 1 /\ k <= k + 1 /\ (k + 1) - 1 = k
    OBVIOUS
  <2>2. part[k + 1][k + 1] = step[k + 1][part[k + 1][k]]
    <3> DEFINE g == part[k + 1]
    <3>1. g \in Upto(k + 1)
      BY <1>5, <2>1
    <3> HIDE DEF g
    <3>2. g[k + 1] = step[k + 1][g[(k + 1) - 1]]
      BY <2>1, <3>1
    <3> QED
      BY <2>1, <3>2 DEF g
  <2>3. part[k + 1][k] = part[k][k]
    <3> HIDE DEF Upto, part
    <3> QED
      BY <1>4, <1>5, <2>1
  <2> QED
    BY <2>1, <2>2, <2>3
<1> HIDE DEF f
<1> QED
  BY <1>7, <1>8, <1>9 DEF Iterates

-----------------------------------------------------------------------------
(* Counting rows of a transaction.                                         *)

\* The rows of the id of row i from there up to row k, and how many they are.
After(r, i, k) == {j \in i + 1 .. k : r[j].id = r[i].id}
Count(r, i, k) == Cardinality(After(r, i, k))

LEMMA CountFacts ==
    ASSUME NEW r, NEW i \in Nat, NEW k \in Nat
    PROVE  /\ IsFiniteSet(After(r, i, k)) /\ Count(r, i, k) \in Nat
           /\ k <= i => After(r, i, k) = {} /\ Count(r, i, k) = 0
<1>1. IsFiniteSet(After(r, i, k))
  <2>1. IsFiniteSet(i + 1 .. k)
    BY FS_Interval
  <2> QED
    BY <2>1, FS_Subset DEF After
<1>2. Count(r, i, k) \in Nat
  BY <1>1, FS_CardinalityType DEF Count
<1>3. k <= i => After(r, i, k) = {}
  BY DEF After
<1>4. k <= i => Count(r, i, k) = 0
  BY <1>3, FS_EmptySet, Zenon DEF Count
<1> QED
  BY <1>1, <1>2, <1>3, <1>4

\* One row more.
LEMMA CountStep ==
    ASSUME NEW r, NEW i \in Nat, NEW k \in Nat
    PROVE  /\ k >= i /\ r[k + 1].id = r[i].id =>
                After(r, i, k + 1) = After(r, i, k) \cup {k + 1}
                /\ Count(r, i, k + 1) = Count(r, i, k) + 1
           /\ r[k + 1].id # r[i].id =>
                After(r, i, k + 1) = After(r, i, k) /\ Count(r, i, k + 1) = Count(r, i, k)
<1>1. k >= i /\ r[k + 1].id = r[i].id => After(r, i, k + 1) = After(r, i, k) \cup {k + 1}
  BY DEF After
<1>2. r[k + 1].id # r[i].id => After(r, i, k + 1) = After(r, i, k)
  BY DEF After
<1>3. k + 1 \notin After(r, i, k)
  BY DEF After
<1>4. Cardinality(After(r, i, k) \cup {k + 1}) = Cardinality(After(r, i, k)) + 1
  BY <1>3, CountFacts, FS_AddElement, Zenon
<1>5. k >= i /\ r[k + 1].id = r[i].id => Count(r, i, k + 1) = Count(r, i, k) + 1
  BY <1>1, <1>4, Zenon DEF Count
<1>6. r[k + 1].id # r[i].id => Count(r, i, k + 1) = Count(r, i, k)
  BY <1>2, Zenon DEF Count
<1> QED
  BY <1>1, <1>2, <1>5, <1>6, Zenon

LEMMA CountMonotone ==
    ASSUME NEW r, NEW i \in Nat, NEW j \in Nat, NEW k \in Nat, j <= k
    PROVE  /\ Count(r, i, j) <= Count(r, i, k)
           /\ j < k /\ k \in After(r, i, k) => Count(r, i, j) < Count(r, i, k)
<1>1. After(r, i, j) \subseteq After(r, i, k)
  BY DEF After
<1>2. Count(r, i, j) <= Count(r, i, k)
  BY <1>1, CountFacts, FS_Subset DEF Count
<1>3. ASSUME j < k, k \in After(r, i, k) PROVE Count(r, i, j) < Count(r, i, k)
  <2>1. k \notin After(r, i, j) /\ k \in After(r, i, k)
    BY <1>3 DEF After
  <2>2. Count(r, i, j) # Count(r, i, k)
    BY <1>1, <2>1, CountFacts, FS_Subset DEF Count
  <2>3. Count(r, i, j) \in Nat /\ Count(r, i, k) \in Nat
    BY CountFacts
  <2> QED
    BY <1>2, <2>2, <2>3
<1> QED
  BY <1>2, <1>3

\* Two rows of a transaction have different counts, and every count has a row.
LEMMA NthUnique ==
    ASSUME NEW r, NEW i \in Nat, NEW a \in Nat, NEW b \in Nat,
           a \in After(r, i, a), b \in After(r, i, b), Count(r, i, a) = Count(r, i, b)
    PROVE  a = b
<1>1. Count(r, i, a) \in Nat /\ Count(r, i, b) \in Nat
  BY CountFacts
<1>2. ~(a < b) /\ ~(b < a)
  BY <1>1, CountMonotone
<1> QED
  BY <1>2

LEMMA NthExists ==
    ASSUME NEW r, NEW i \in Nat, NEW k \in Nat, NEW n \in 1 .. Count(r, i, k)
    PROVE  \E j \in After(r, i, k) : Count(r, i, j) = n
<1> DEFINE S == {j \in Nat : j <= k /\ n <= Count(r, i, j)}
<1>1. Count(r, i, k) \in Nat
  BY CountFacts
<1>2. k \in S
  BY <1>1
<1>3. PICK j \in S : \A m \in S : j <= m
  <2> HIDE DEF S
  <2>1. S \subseteq Nat
    BY DEF S
  <2> QED
    BY <1>2, <2>1, LeastNumber
<1>4. j \in Nat /\ j <= k /\ n <= Count(r, i, j) /\ n \in Nat /\ n >= 1
  BY <1>1
<1> HIDE DEF S
<1>5. j > i
  <2>1. j <= i => Count(r, i, j) = 0
    BY <1>4, CountFacts, Zenon
  <2> QED
    BY <1>4, <2>1
<1>6. j - 1 \in Nat /\ j - 1 >= i /\ (j - 1) + 1 = j /\ j - 1 <= k /\ ~(j <= j - 1)
  BY <1>4, <1>5
<1>7. Count(r, i, j - 1) \in Nat /\ Count(r, i, j - 1) < n
  <2>1. Count(r, i, j - 1) \in Nat
    BY <1>6, CountFacts
  <2>2. j - 1 \notin S
    BY <1>3, <1>6
  <2> QED
    BY <1>4, <1>6, <2>1, <2>2 DEF S
<1>8. r[j].id = r[i].id /\ Count(r, i, j) = Count(r, i, j - 1) + 1
  <2>1. r[j].id # r[i].id => Count(r, i, j) = Count(r, i, j - 1)
    BY <1>6, CountStep
  <2>2. r[j].id = r[i].id => Count(r, i, j) = Count(r, i, j - 1) + 1
    BY <1>6, CountStep
  <2> QED
    BY <1>4, <1>7, <2>1, <2>2
<1>9. Count(r, i, j) = n
  BY <1>4, <1>7, <1>8
<1>10. j \in After(r, i, k)
  BY <1>4, <1>5, <1>8 DEF After
<1> QED
  BY <1>9, <1>10

-----------------------------------------------------------------------------
(* The rows, and whole transactions among them.                            *)

Row == [id : Ids, chunk : Nat, total : Nat, version : Nat] \cup [id : {None}, version : Nat]

\* What clients write: chunks that know their total, in commits that follow each other.
RowsInv(r) ==
    /\ r \in Seq(Row) /\ Len(r) <= MaxRows
    /\ \A i \in 1 .. Len(r) : r[i].id # None => r[i].total = Total[r[i].id]
    /\ \A i, j \in 1 .. Len(r) : i <= j => r[i].version <= r[j].version

\* Row i starts a transaction; the rows of its id from there up to k go on in order;
\* k is the row that ends it; or one of them is out of order.
StartsAt(r, i) == i \in 1 .. Len(r) /\ r[i].id # None /\ r[i].chunk = 1
InOrder(r, i, k) == \A j \in After(r, i, k) : r[j].chunk = Count(r, i, j) + 1
Done(r, i, k) ==
    /\ StartsAt(r, i) /\ k \in i .. Len(r) /\ r[k].id = r[i].id
    /\ Count(r, i, k) = r[i].total - 1 /\ InOrder(r, i, k)
Broken(r, i, k) ==
    \E j \in After(r, i, k) : Count(r, i, j) <= r[i].total - 1 /\ r[j].chunk # Count(r, i, j) + 1

LEMMA RowFacts ==
    ASSUME NEW r, RowsInv(r), NEW i \in 1 .. Len(r)
    PROVE  /\ r[i].version \in Nat
           /\ r[i].id \in Ids \cup {None}
           /\ r[i].id # None =>
                r[i].chunk \in Nat /\ r[i].total \in Nat /\ r[i].total >= 1
                /\ r[i].id \in Ids /\ r[i].total = Total[r[i].id]
<1>1. r[i] \in Row /\ (r[i].id # None => r[i].total = Total[r[i].id])
  BY DEF RowsInv
<1>2. CASE r[i] \in [id : Ids, chunk : Nat, total : Nat, version : Nat]
  <2>1. r[i].id \in Ids /\ r[i].chunk \in Nat /\ r[i].total \in Nat /\ r[i].version \in Nat
    BY <1>2
  <2>2. r[i].id # None /\ Total[r[i].id] >= 1
    BY <2>1
  <2> QED
    BY <1>1, <2>1, <2>2
<1>3. CASE r[i] \in [id : {None}, version : Nat]
  BY <1>3
<1> QED
  BY <1>1, <1>2, <1>3 DEF Row

\* The rows after i of its id, in the definition of a whole transaction.
LEMMA LaterIsAfter ==
    ASSUME RowsInv(rows), NEW i \in 1 .. Len(rows)
    PROVE  /\ LaterRows(i) = After(rows, i, Len(rows))
           /\ \A j \in LaterRows(i) :
                j \in Nat /\ j \in After(rows, i, j)
                /\ {k \in LaterRows(i) : k <= j} = After(rows, i, j)
<1>1. Len(rows) \in Nat
  BY DEF RowsInv
<1> QED
  BY <1>1 DEF LaterRows, After

\* The n-th row of the id after i.
LEMMA FollowingIs ==
    ASSUME RowsInv(rows), NEW i \in 1 .. Len(rows), NEW j \in LaterRows(i)
    PROVE  Following(i, Count(rows, i, j)) = j
<1> DEFINE n == Count(rows, i, j)
           Nth(k) == Cardinality({l \in LaterRows(i) : l <= k}) = n
<1>1. Nth(j)
  BY LaterIsAfter DEF Count
<1>2. ASSUME NEW k \in LaterRows(i), Nth(k) PROVE k = j
  <2>1. Count(rows, i, k) = Count(rows, i, j)
    BY <1>2, LaterIsAfter DEF Count
  <2>2. i \in Nat /\ j \in Nat /\ k \in Nat
    BY LaterIsAfter
  <2> QED
    BY <2>1, <2>2, LaterIsAfter, NthUnique
<1> HIDE DEF n
<1>3. (CHOOSE k \in LaterRows(i) : Nth(k)) = j
  BY <1>1, <1>2
<1> QED
  BY <1>3 DEF Following, n

LEMMA DoneIsWhole ==
    ASSUME RowsInv(rows), NEW i, NEW k, Done(rows, i, k)
    PROVE  Whole(i) /\ LastRow(i) = k
<1>1. i \in 1 .. Len(rows) /\ Len(rows) \in Nat /\ i \in Nat /\ k \in Nat /\ k \in 1 .. Len(rows)
  BY DEF Done, StartsAt, RowsInv
<1>2. rows[i].total \in Nat /\ rows[i].total >= 1 /\ rows[i].total = Total[rows[i].id]
  BY <1>1, RowFacts DEF Done, StartsAt
<1>3. Count(rows, i, k) = rows[i].total - 1 /\ k <= Len(rows) /\ i <= k
  BY <1>1 DEF Done
<1>4. Cardinality(LaterRows(i)) = Count(rows, i, Len(rows))
  BY <1>1, LaterIsAfter DEF Count
<1>5. Count(rows, i, Len(rows)) >= rows[i].total - 1 /\ Count(rows, i, Len(rows)) \in Nat
  BY <1>1, <1>2, <1>3, CountMonotone, CountFacts
<1>6. ASSUME NEW n \in 1 .. rows[i].total - 1
      PROVE  rows[Following(i, n)].chunk = n + 1 /\ rows[Following(i, n)].total = rows[i].total
  <2>1. n \in 1 .. Count(rows, i, k)
    BY <1>3
  <2>2. PICK j \in After(rows, i, k) : Count(rows, i, j) = n
    BY <1>1, <2>1, NthExists
  <2>3. j \in LaterRows(i) /\ rows[j].id = rows[i].id /\ j \in 1 .. Len(rows)
    BY <1>1, <1>3 DEF LaterRows, After
  <2>4. Following(i, n) = j
    BY <1>1, <2>2, <2>3, FollowingIs
  <2>5. rows[j].chunk = n + 1
    BY <2>2 DEF Done, InOrder
  <2>6. rows[j].total = rows[i].total
    BY <1>2, <2>3, RowFacts DEF Done, StartsAt
  <2> QED
    BY <2>4, <2>5, <2>6
<1>7. Whole(i)
  BY <1>4, <1>5, <1>6 DEF Whole, Starts, Done, StartsAt
<1>8. CASE k = i
  <2>1. i <= i
    BY <1>1
  <2>2. Count(rows, i, i) = 0
    BY <1>1, <2>1, CountFacts, Zenon
  <2> QED
    BY <1>2, <1>3, <1>7, <1>8, <2>2 DEF LastRow
<1>9. CASE k # i
  <2>1. k \in LaterRows(i)
    BY <1>1, <1>3, <1>9 DEF LaterRows, Done
  <2>2. Following(i, rows[i].total - 1) = k
    BY <1>1, <1>3, <2>1, FollowingIs
  <2>3. k \in After(rows, i, k)
    BY <1>1, <2>1, LaterIsAfter
  <2>4. Count(rows, i, i) < Count(rows, i, k)
    BY <1>1, <1>3, <1>9, <2>3, CountMonotone
  <2>5. Count(rows, i, i) \in Nat
    BY <1>1, CountFacts
  <2>6. rows[i].total # 1
    BY <1>2, <1>3, <2>4, <2>5
  <2> QED
    BY <1>7, <2>2, <2>6 DEF LastRow
<1> QED
  BY <1>8, <1>9

LEMMA WholeIsDone ==
    ASSUME RowsInv(rows), NEW i \in 1 .. Len(rows), Whole(i)
    PROVE  Done(rows, i, LastRow(i))
<1> DEFINE k == LastRow(i)
<1>1. StartsAt(rows, i) /\ Len(rows) \in Nat /\ i \in Nat
  BY DEF Whole, Starts, StartsAt, RowsInv
<1>2. rows[i].total \in Nat /\ rows[i].total >= 1
  BY <1>1, RowFacts DEF StartsAt
<1>3. CASE rows[i].total = 1
  <2>1. k = i
    BY <1>3 DEF LastRow
  <2>2. After(rows, i, i) = {} /\ Count(rows, i, i) = 0
    BY <1>1, CountFacts
  <2> QED
    BY <1>1, <1>3, <2>1, <2>2 DEF Done, InOrder
<1>4. CASE rows[i].total # 1
  <2>1. Count(rows, i, Len(rows)) >= rows[i].total - 1
    BY LaterIsAfter DEF Count, Whole
  <2>2. Count(rows, i, Len(rows)) \in Nat
    BY <1>1, CountFacts
  <2>3. rows[i].total - 1 \in 1 .. Count(rows, i, Len(rows))
    BY <1>2, <1>4, <2>1, <2>2
  <2>4. PICK j \in After(rows, i, Len(rows)) : Count(rows, i, j) = rows[i].total - 1
    BY <1>1, <2>3, NthExists
  <2>5. j \in LaterRows(i) /\ j \in i + 1 .. Len(rows) /\ rows[j].id = rows[i].id
    BY LaterIsAfter DEF LaterRows
  <2>6. k = j
    BY <1>4, <2>4, <2>5, FollowingIs DEF LastRow
  <2>7. ASSUME NEW m \in After(rows, i, j) PROVE rows[m].chunk = Count(rows, i, m) + 1
    <3>1. m \in Nat /\ m \in After(rows, i, m) /\ m <= j /\ j \in Nat /\ i < m
      BY <1>1, <2>5 DEF After
    <3>2. Count(rows, i, m) <= rows[i].total - 1
      BY <1>1, <2>4, <3>1, CountMonotone
    <3>3. Count(rows, i, m) \in Nat /\ Count(rows, i, i) < Count(rows, i, m)
      BY <1>1, <3>1, CountMonotone, CountFacts
    <3>4. Count(rows, i, i) \in Nat
      BY <1>1, CountFacts
    <3>5. Count(rows, i, m) \in 1 .. rows[i].total - 1
      BY <1>2, <3>2, <3>3, <3>4
    <3>6. m \in LaterRows(i)
      BY <1>1, <2>5, <3>1 DEF LaterRows, After
    <3>7. Following(i, Count(rows, i, m)) = m
      BY <3>6, FollowingIs
    <3> QED
      BY <3>5, <3>7 DEF Whole
  <2> QED
    BY <1>1, <2>4, <2>5, <2>6, <2>7 DEF Done, InOrder
<1> QED
  BY <1>3, <1>4

\* A transaction ends at one row, and one that is broken before does not end.
LEMMA DoneOnce ==
    ASSUME NEW r, RowsInv(r), NEW i, NEW k, Done(r, i, k)
    PROVE  /\ \A l : Done(r, i, l) => l = k
           /\ \A l \in Nat : ~Broken(r, i, l)
<1>1. i \in 1 .. Len(r) /\ Len(r) \in Nat /\ i \in Nat /\ k \in Nat
  BY DEF Done, StartsAt, RowsInv
<1>2. r[i].total \in Nat /\ r[i].total >= 1
  BY <1>1, RowFacts DEF Done, StartsAt
<1>3. ASSUME NEW a, NEW b, Done(r, i, a), Done(r, i, b), a < b PROVE FALSE
  <2>1. a \in Nat /\ b \in Nat /\ b \in After(r, i, b)
    BY <1>1, <1>3 DEF Done, After
  <2>2. Count(r, i, a) < Count(r, i, b)
    BY <1>1, <1>3, <2>1, CountMonotone
  <2> QED
    BY <1>2, <1>3, <2>2 DEF Done
<1>4. ASSUME NEW l, Done(r, i, l) PROVE l = k
  <2>1. l \in Nat
    BY <1>1, <1>4 DEF Done
  <2>2. ~(l < k) /\ ~(k < l)
    BY <1>3, <1>4
  <2> QED
    BY <1>1, <2>1, <2>2
<1>5. ASSUME NEW l \in Nat, Broken(r, i, l) PROVE FALSE
  <2>1. PICK j \in After(r, i, l) : Count(r, i, j) <= r[i].total - 1 /\ r[j].chunk # Count(r, i, j) + 1
    BY <1>5 DEF Broken
  <2>2. j \in Nat /\ j \in After(r, i, j) /\ i < j
    BY <1>1 DEF After
  <2>3. CASE j <= k
    <3>1. j \in After(r, i, k)
      BY <1>1, <2>2, <2>3 DEF After
    <3> QED
      BY <2>1, <3>1 DEF Done, InOrder
  <2>4. CASE k < j
    <3>1. Count(r, i, k) < Count(r, i, j) /\ Count(r, i, j) \in Nat
      BY <1>1, <2>2, <2>4, CountMonotone, CountFacts
    <3> QED
      BY <1>2, <2>1, <3>1 DEF Done
  <2> QED
    BY <1>1, <2>2, <2>3, <2>4
<1> QED
  BY <1>4, <1>5

-----------------------------------------------------------------------------
(* The invariant.                                                          *)

\* A pending transaction of a page that has read the rows before n: they are its
\* chunks up to the next one, and its id has no broken report to go on with.
PartialInv(r, p, n, id) ==
    LET partial == p.partials[id]
    IN partial # None =>
        /\ StartsAt(r, partial.first) /\ r[partial.first].id = id
        /\ p.start <= partial.first /\ partial.first < n
        /\ partial.total = r[partial.first].total
        /\ partial.next_chunk = Count(r, partial.first, n - 1) + 2
        /\ partial.next_chunk <= partial.total
        /\ InOrder(r, partial.first, n - 1)
        /\ \E j \in 1 .. n - 1 : partial.last_version = r[j].version
        /\ p.broken[id] = 0

\* What a page made of a transaction is between its start and n; a complete one is
\* whole, and there is one for a first row, and no pending one.
OutputInv(r, p, n, o) ==
    LET output == p.outputs[o]
    IN /\ p.start <= output.first /\ output.first <= output.last /\ output.last < n
       /\ output.complete => /\ Done(r, output.first, output.last)
                             /\ output.id = r[output.first].id

OnceInv(p) ==
    \A a \in 1 .. Len(p.outputs) :
        p.outputs[a].complete =>
            /\ \A b \in 1 .. Len(p.outputs) :
                p.outputs[b].complete /\ p.outputs[a].first = p.outputs[b].first => a = b
            /\ \A id \in Ids : p.partials[id] # None => p.partials[id].first # p.outputs[a].first

BrokenInv(p) ==
    \A id \in Ids : p.broken[id] # 0 =>
        p.broken[id] \in 1 .. Len(p.outputs) /\ ~p.outputs[p.broken[id]].complete

\* Nothing that starts in the page is forgotten.
Seen(r, p, i) ==
    \/ \E o \in 1 .. Len(p.outputs) : p.outputs[o].complete /\ p.outputs[o].first = i
    \/ p.partials[r[i].id] # None /\ p.partials[r[i].id].first = i
    \/ \E o \in 1 .. Len(p.outputs) :
        /\ ~p.outputs[o].complete /\ p.outputs[o].first = i
        /\ Broken(r, i, p.outputs[o].last)

PageInv(r, p, n) ==
    /\ p \in Page /\ n \in p.start .. Len(r) + 1 /\ p.start >= 1
    /\ \A id \in Ids : PartialInv(r, p, n, id)
    /\ \A o \in 1 .. Len(p.outputs) : OutputInv(r, p, n, o)
    /\ OnceInv(p) /\ BrokenInv(p)
    /\ \A i \in p.start .. n - 1 : StartsAt(r, i) => Seen(r, p, i)

\* What was returned ends before the cursor, and nothing that starts before it goes
\* on after it, but what a stopped page reported.
ReturnedInv ==
    \A i \in 1 .. MaxRows :
        returned[i] > 0 => returned[i] = 1 /\ \E k \in i .. cursor - 1 : Done(rows, i, k)

Passed(i) ==
    \/ /\ \E k \in i .. cursor - 1 : Done(rows, i, k)
       /\ returned[i] > 0 \/ \E s \in skipped : s.first = i /\ s.why = "decode"
    \/ \E s \in skipped : s.first = i /\ s.why = "stopped"
    \/ Broken(rows, i, cursor - 1)

IInv ==
    /\ RowsInv(rows)
    /\ cursor \in 1 .. Len(rows) + 1 /\ first \in 1 .. cursor
    /\ returned \in [1 .. MaxRows -> Nat]
    /\ ReturnedInv
    /\ \A i \in first .. cursor - 1 : StartsAt(rows, i) => Passed(i)
    /\ page # None =>
        /\ page.start = cursor /\ page.end \in page.next .. Len(rows) + 1
        /\ PageInv(rows, page, page.next)
-----------------------------------------------------------------------------
(* The clients: rows are only added.                                       *)

LEMMA RowsGrow ==
    ASSUME NEW r, NEW s, RowsInv(r), RowsInv(s), Len(r) <= Len(s),
           \A i \in 1 .. Len(r) : s[i] = r[i],
           NEW i \in 1 .. Len(r), NEW k \in 0 .. Len(r)
    PROVE  /\ StartsAt(s, i) <=> StartsAt(r, i)
           /\ After(s, i, k) = After(r, i, k) /\ Count(s, i, k) = Count(r, i, k)
           /\ InOrder(s, i, k) <=> InOrder(r, i, k)
           /\ Done(s, i, k) <=> Done(r, i, k)
           /\ Broken(s, i, k) <=> Broken(r, i, k)
<1>1. Len(r) \in Nat /\ Len(s) \in Nat
  BY DEF RowsInv
<1>2. StartsAt(s, i) <=> StartsAt(r, i)
  BY <1>1 DEF StartsAt
<1>3. \A l \in 0 .. Len(r) : After(s, i, l) = After(r, i, l) /\ Count(s, i, l) = Count(r, i, l)
  <2>1. ASSUME NEW l \in 0 .. Len(r) PROVE After(s, i, l) = After(r, i, l)
    <3>1. \A j \in i + 1 .. l : j \in 1 .. Len(r) /\ s[j] = r[j]
      BY <1>1
    <3>2. s[i] = r[i]
      OBVIOUS
    <3> QED
      BY <3>1, <3>2 DEF After
  <2> QED
    BY <2>1 DEF Count
<1>4. \A j \in After(r, i, k) : j \in 1 .. Len(r) /\ j \in 0 .. Len(r)
  BY <1>1 DEF After
<1>5. InOrder(s, i, k) <=> InOrder(r, i, k)
  BY <1>1, <1>3, <1>4 DEF InOrder
<1>6. Broken(s, i, k) <=> Broken(r, i, k)
  BY <1>1, <1>3, <1>4 DEF Broken
<1>7. Done(s, i, k) <=> Done(r, i, k)
  BY <1>1, <1>2, <1>3, <1>5 DEF Done
<1> QED
  BY <1>2, <1>3, <1>5, <1>6, <1>7

LEMMA PageGrows ==
    ASSUME NEW r, NEW s, RowsInv(r), RowsInv(s), Len(r) <= Len(s),
           \A i \in 1 .. Len(r) : s[i] = r[i],
           NEW p, NEW n, PageInv(r, p, n)
    PROVE  PageInv(s, p, n)
<1>1. /\ p \in Page /\ n \in p.start .. Len(r) + 1 /\ p.start >= 1 /\ p.start \in Nat
      /\ Len(r) \in Nat /\ Len(s) \in Nat /\ n - 1 \in 0 .. Len(r)
  BY DEF PageInv, Page, RowsInv
<1>2. ASSUME NEW id \in Ids PROVE PartialInv(s, p, n, id)
  <2> DEFINE q == p.partials[id]
  <2>1. PartialInv(r, p, n, id)
    BY DEF PageInv
  <2>2. SUFFICES ASSUME q # None PROVE PartialInv(s, p, n, id)
    BY DEF PartialInv
  <2>3. q.first \in 1 .. Len(r)
    BY <2>1, <2>2 DEF PartialInv, StartsAt
  <2>4. \A j \in 1 .. n - 1 : j \in 1 .. Len(r)
    BY <1>1
  <2>5. /\ StartsAt(s, q.first) <=> StartsAt(r, q.first)
        /\ Count(s, q.first, n - 1) = Count(r, q.first, n - 1)
        /\ InOrder(s, q.first, n - 1) <=> InOrder(r, q.first, n - 1)
        /\ s[q.first] = r[q.first] /\ \A j \in 1 .. n - 1 : s[j] = r[j]
    <3> HIDE DEF q
    <3>1. s[q.first] = r[q.first] /\ \A j \in 1 .. n - 1 : s[j] = r[j]
      BY <2>3, <2>4
    <3>2. n - 1 \in 0 .. Len(r)
      BY <1>1
    <3> DEFINE k == n - 1
    <3> HIDE DEF k
    <3>3. /\ StartsAt(s, q.first) <=> StartsAt(r, q.first)
          /\ Count(s, q.first, k) = Count(r, q.first, k)
          /\ InOrder(s, q.first, k) <=> InOrder(r, q.first, k)
      BY <2>3, <3>2, RowsGrow DEF k
    <3> QED
      BY <3>1, <3>3 DEF k
  <2> QED
    BY <2>1, <2>5 DEF PartialInv
<1>3. ASSUME NEW o \in 1 .. Len(p.outputs) PROVE OutputInv(s, p, n, o)
  <2>1. OutputInv(r, p, n, o) /\ p.outputs[o] \in Output
    BY <1>1 DEF PageInv, Page
  <2>2. p.outputs[o].first \in 1 .. Len(r) /\ p.outputs[o].last \in 0 .. Len(r)
    BY <1>1, <2>1 DEF OutputInv, Output
  <2>3. /\ s[p.outputs[o].first] = r[p.outputs[o].first]
        /\ Done(s, p.outputs[o].first, p.outputs[o].last)
             <=> Done(r, p.outputs[o].first, p.outputs[o].last)
    BY <2>2, RowsGrow
  <2> QED
    BY <2>1, <2>3 DEF OutputInv
<1>4. ASSUME NEW i \in p.start .. n - 1, StartsAt(s, i) PROVE Seen(s, p, i)
  <2>1. i \in 1 .. Len(r)
    BY <1>1
  <2>2. StartsAt(r, i) /\ Seen(r, p, i)
    <3>1. 0 \in 0 .. Len(r)
      BY <1>1
    <3> QED
      BY <1>4, <2>1, <3>1, RowsGrow DEF PageInv
  <2>3. ASSUME NEW o \in 1 .. Len(p.outputs) PROVE p.outputs[o].last \in 0 .. Len(r)
    <3>1. OutputInv(r, p, n, o) /\ p.outputs[o] \in Output
      BY <1>1 DEF PageInv, Page
    <3> QED
      BY <1>1, <3>1 DEF OutputInv, Output
  <2>4. s[i] = r[i]
    BY <2>1
  <2>5. \A o \in 1 .. Len(p.outputs) :
           Broken(s, i, p.outputs[o].last) <=> Broken(r, i, p.outputs[o].last)
    BY <2>1, <2>3, RowsGrow
  <2> QED
    BY <2>2, <2>4, <2>5 DEF Seen
<1> QED
  BY <1>1, <1>2, <1>3, <1>4 DEF PageInv

LEMMA CommitRows ==
    ASSUME RowsInv(rows), Commit
    PROVE  /\ RowsInv(rows') /\ Len(rows) <= Len(rows')
           /\ \A i \in 1 .. Len(rows) : rows'[i] = rows[i]
           /\ UNCHANGED <<cursor, first, page, returned, skipped>>
<1> DEFINE version == (IF rows = <<>> THEN 0 ELSE rows[Len(rows)].version) + 1
<1>1. rows \in Seq(Row) /\ Len(rows) \in Nat
  BY DEF RowsInv
<1>2. version \in Nat /\ \A i \in 1 .. Len(rows) : rows[i].version <= version
  <2>1. CASE rows = <<>>
    BY <2>1
  <2>2. CASE rows # <<>>
    <3>1. Len(rows) \in 1 .. Len(rows)
      BY <1>1, <2>2
    <3>2. \A i \in 1 .. Len(rows) : rows[i].version \in Nat
      BY RowFacts
    <3>3. \A i \in 1 .. Len(rows) : rows[i].version <= rows[Len(rows)].version
      BY <1>1, <3>1 DEF RowsInv
    <3> QED
      BY <2>2, <3>1, <3>2, <3>3
  <2> QED
    BY <2>1, <2>2
<1>3. ASSUME NEW more \in Seq(Row), rows' = rows \o more, Len(rows') <= MaxRows,
             \A i \in 1 .. Len(more) : more[i].version = version,
             \A i \in 1 .. Len(more) : more[i].id # None => more[i].total = Total[more[i].id]
      PROVE  /\ RowsInv(rows') /\ Len(rows) <= Len(rows')
             /\ \A i \in 1 .. Len(rows) : rows'[i] = rows[i]
  <2> HIDE DEF version
  <2>1. /\ rows' \in Seq(Row) /\ Len(more) \in Nat /\ Len(rows') = Len(rows) + Len(more)
        /\ \A i \in 1 .. Len(rows') : rows'[i] = IF i <= Len(rows) THEN rows[i] ELSE more[i - Len(rows)]
    BY <1>1, <1>3
  <2>2. \A i \in 1 .. Len(rows) : rows'[i] = rows[i]
    BY <1>1, <2>1
  <2>3. \A i \in Len(rows) + 1 .. Len(rows') : i - Len(rows) \in 1 .. Len(more) /\ rows'[i] = more[i - Len(rows)]
    BY <1>1, <2>1
  <2>4. \A i \in 1 .. Len(rows') : rows'[i].id # None => rows'[i].total = Total[rows'[i].id]
    BY <1>1, <1>3, <2>1, <2>2, <2>3 DEF RowsInv
  <2>5. ASSUME NEW i \in 1 .. Len(rows'), NEW j \in 1 .. Len(rows'), i <= j
        PROVE  rows'[i].version <= rows'[j].version
    <3>1. CASE j <= Len(rows)
      BY <1>1, <2>2, <2>5, <3>1 DEF RowsInv
    <3>2. CASE i <= Len(rows) /\ ~(j <= Len(rows))
      <4>1. rows'[j].version = version
        BY <1>1, <1>3, <2>1, <2>3, <3>2
      <4>2. rows'[i].version = rows[i].version /\ i \in 1 .. Len(rows)
        BY <1>1, <2>2, <3>2
      <4> QED
        BY <1>2, <4>1, <4>2
    <3>3. CASE ~(i <= Len(rows)) /\ ~(j <= Len(rows))
      <4>1. rows'[j].version = version /\ rows'[i].version = version
        BY <1>1, <1>3, <2>1, <2>3, <3>3
      <4> QED
        BY <1>2, <4>1
    <3> QED
      BY <1>1, <2>1, <2>5, <3>1, <3>2, <3>3
  <2> QED
    BY <1>1, <1>3, <2>1, <2>2, <2>4, <2>5 DEF RowsInv
<1>4. ASSUME NEW id \in Ids, NEW from \in Chunk, NEW to \in Chunk, Flush(id, from, to),
             Len(rows') <= MaxRows
      PROVE  RowsInv(rows') /\ Len(rows) <= Len(rows') /\ \A i \in 1 .. Len(rows) : rows'[i] = rows[i]
  <2> DEFINE more == Chunks(id, from, to)
  <2>1. from \in Nat /\ to \in Nat /\ from >= 1 /\ to - from + 1 \in Nat /\ from <= to
    BY <1>4 DEF Chunk, Flush
  <2>2. more = [n \in 1 .. to - from + 1 |-> [id |-> id, chunk |-> from + n - 1,
                                              total |-> Total[id], version |-> version]]
    BY DEF Chunks
  <2>3. \A n \in 1 .. to - from + 1 : more[n] \in Row /\ more[n].version = version
                                      /\ more[n].total = Total[more[n].id]
    <3> HIDE DEF version, more
    <3>1. Total[id] \in Nat
      OBVIOUS
    <3> QED
      BY <1>2, <2>1, <2>2, <3>1 DEF Row
  <2>4. more \in Seq(Row) /\ Len(more) = to - from + 1
    <3> DEFINE size == to - from + 1
    <3>1. size \in Nat /\ DOMAIN more = 1 .. size /\ more = [n \in 1 .. size |-> more[n]]
      BY <2>1, <2>2
    <3> HIDE DEF version, more, size
    <3>2. more \in [1 .. size -> Row]
      BY <2>3, <3>1 DEF size
    <3>3. more \in Seq(Row) /\ Len(more) = size
      BY <3>1, <3>2
    <3> QED
      BY <3>3 DEF size
  <2>5. rows' = rows \o more
    BY <1>4 DEF Flush
  <2> HIDE DEF more, version
  <2> QED
    BY <1>3, <1>4, <2>3, <2>4, <2>5
<1>5. ASSUME WriteOther, Len(rows') <= MaxRows
      PROVE  RowsInv(rows') /\ Len(rows) <= Len(rows') /\ \A i \in 1 .. Len(rows) : rows'[i] = rows[i]
  <2> DEFINE more == <<[id |-> None, version |-> version]>>
  <2>1. more[1] \in Row /\ more[1].id = None /\ more[1].version = version
    <3> HIDE DEF version
    <3> QED
      BY <1>2 DEF Row
  <2>2. more \in Seq(Row) /\ Len(more) = 1
    BY <2>1
  <2>3. rows' = rows \o more
    BY <1>1, <1>5 DEF WriteOther
  <2> HIDE DEF more, version
  <2>4. \A i \in 1 .. Len(more) : more[i].version = version /\ more[i].id = None
    BY <2>1, <2>2
  <2> QED
    BY <1>3, <1>5, <2>2, <2>3, <2>4
<1> QED
  BY <1>4, <1>5 DEF Commit, Flush, WriteOther
-----------------------------------------------------------------------------
(* The end of a page.                                                      *)

LEMMA LeastFacts ==
    ASSUME NEW S, S \subseteq Nat, S # {}
    PROVE  Least(S) \in S /\ Least(S) \in Nat /\ \A a \in S : Least(S) <= a
BY LeastNumber DEF Least

\* A pass over outcomes, row by row down from the one before next: the cut and what is
\* dropped before the k-th row and after it.
PassStep(all, head, last, row, cut, dropped, cut2, dropped2) ==
    IF row < cut THEN cut2 = cut /\ dropped2 = dropped
    ELSE /\ \A o \in all : o \in dropped2 <=> o \in dropped \/ last[o] = row
         /\ cut2 = cut \/ \E o \in all : last[o] = row /\ cut2 = head[o]
         /\ cut2 <= cut
         /\ \A o \in all : last[o] = row => cut2 <= head[o]

GoesDown(all, head, last, next, from, cut, dropped) ==
    /\ cut \in [Nat -> Nat] /\ dropped \in [Nat -> SUBSET all]
    /\ cut[0] = from /\ dropped[0] = {}
    /\ \A k \in Nat : PassStep(all, head, last, next - (k + 1), cut[k], dropped[k],
                               cut[k + 1], dropped[k + 1])

Heads(p) == [o \in 1 .. Len(p.outputs) |-> p.outputs[o].first]
Lasts(p) == [o \in 1 .. Len(p.outputs) |-> p.outputs[o].last]

LEMMA CutPass ==
    ASSUME NEW p, NEW from \in Nat, p.next \in Int, p.next - p.start \in Nat,
           \A o \in 1 .. Len(p.outputs) : p.outputs[o].first \in Nat
    PROVE  \E cut, dropped :
            /\ GoesDown(1 .. Len(p.outputs), Heads(p), Lasts(p), p.next, from, cut, dropped)
            /\ Cut(p, from).cut = cut[p.next - p.start]
            /\ Cut(p, from).dropped = dropped[p.next - p.start]
<1> DEFINE all == 1 .. Len(p.outputs)
           head == Heads(p)
           last == Lasts(p)
           ending(row) == {i \in all : p.outputs[i].last = row}
           firsts(row) == {p.outputs[i].first : i \in ending(row)}
           X == [cut : Nat, dropped : SUBSET all]
           x0 == [cut |-> from, dropped |-> {}]
           lower(before, row) ==
                [cut |-> Least({before.cut} \cup firsts(row)),
                 dropped |-> before.dropped \cup ending(row)]
           body(before, row) == IF row < before.cut THEN before ELSE lower(before, row)
           step == [k \in Nat |-> [before \in X |-> body(before, p.next - k)]]
           Rec(f) == f = [k \in Nat |-> IF k = 0 THEN x0 ELSE body(f[k - 1], p.next - k)]
           pass == CHOOSE f : Rec(f)
<1>1. ASSUME NEW before \in X, NEW row \in Int
      PROVE  /\ body(before, row) \in X
             /\ row < before.cut => body(before, row) = before
             /\ ~(row < before.cut) =>
                  /\ body(before, row).dropped = before.dropped \cup ending(row)
                  /\ body(before, row).cut \in {before.cut} \cup firsts(row)
                  /\ body(before, row).cut <= before.cut
                  /\ \A o \in ending(row) : body(before, row).cut <= p.outputs[o].first
  <2> DEFINE S == {before.cut} \cup firsts(row)
  <2>1. S \subseteq Nat /\ S # {} /\ before.cut \in S
    OBVIOUS
  <2>2. \A o \in ending(row) : p.outputs[o].first \in S
    OBVIOUS
  <2>3. ending(row) \subseteq all
    OBVIOUS
  <2> HIDE DEF S, ending, all
  <2>4. Least(S) \in S /\ Least(S) \in Nat /\ \A a \in S : Least(S) <= a
    BY <2>1, LeastFacts
  <2>5. lower(before, row).cut = Least(S) /\ lower(before, row).dropped = before.dropped \cup ending(row)
    BY DEF S
  <2>6. lower(before, row) \in X
    BY <2>3, <2>4, <2>5 DEF S
  <2> QED
    BY <2>1, <2>2, <2>4, <2>5, <2>6 DEF S
<1>2. x0 \in X /\ x0.cut = from /\ x0.dropped = {}
  OBVIOUS
<1>3. \A k \in Nat : p.next - k \in Int
  OBVIOUS
<1>4. IsStep(X, step)
  <2> HIDE DEF X, body
  <2>1. \A k \in Nat, before \in X : body(before, p.next - k) \in X
    BY <1>1, <1>3
  <2> QED
    BY <2>1 DEF IsStep
<1>5. \E f : Iterates(X, x0, step, f)
  <2>1. x0 \in X
    BY <1>2
  <2> HIDE DEF X, x0, step, pass, Rec, body, lower, firsts, ending, all
  <2> QED
    BY <1>4, <2>1, RecursiveFunction
<1>6. \E f : Rec(f)
  <2> HIDE DEF X, body, x0
  <2>1. PICK f \in [Nat -> X] : f[0] = x0 /\ \A k \in Nat : f[k + 1] = step[k + 1][f[k]]
    BY <1>5 DEF Iterates
  <2>2. ASSUME NEW k \in Nat, k # 0 PROVE f[k] = body(f[k - 1], p.next - k)
    <3>1. k - 1 \in Nat /\ f[k - 1] \in X /\ (k - 1) + 1 = k
      BY <2>2
    <3>2. f[k] = step[k][f[k - 1]]
      BY <2>1, <3>1
    <3> QED
      BY <3>1, <3>2
  <2>3. f = [k \in Nat |-> f[k]]
    OBVIOUS
  <2>4. [k \in Nat |-> f[k]] = [k \in Nat |-> IF k = 0 THEN x0 ELSE body(f[k - 1], p.next - k)]
    BY <2>1, <2>2
  <2> QED
    BY <2>3, <2>4
<1>7. Rec(pass)
  <2> HIDE DEF Rec
  <2> QED
    BY <1>6
<1>8. Cut(p, from) = pass[p.next - p.start]
  BY DEF Cut
<1>9. pass[0] = x0 /\ \A k \in Nat : pass[k + 1] = body(pass[k], p.next - (k + 1))
  <2> HIDE DEF pass, body, x0
  <2>1. \A k \in Nat : pass[k] = IF k = 0 THEN x0 ELSE body(pass[k - 1], p.next - k)
    BY <1>7
  <2>2. \A k \in Nat : k + 1 \in Nat /\ k + 1 # 0 /\ (k + 1) - 1 = k
    OBVIOUS
  <2> QED
    BY <2>1, <2>2
<1>10. \A k \in Nat : pass[k] \in X
  <2> DEFINE Good == {k \in Nat : pass[k] \in X}
  <2> HIDE DEF pass, body, X, x0
  <2>1. 0 \in Good
    BY <1>2, <1>9
  <2>2. ASSUME NEW k \in Nat, k \in Good PROVE k + 1 \in Good
    <3>1. p.next - (k + 1) \in Int /\ pass[k] \in X
      BY <2>2
    <3>2. body(pass[k], p.next - (k + 1)) \in X
      BY <1>1, <3>1
    <3>3. pass[k + 1] = body(pass[k], p.next - (k + 1)) /\ k + 1 \in Nat
      BY <1>9
    <3>4. pass[k + 1] \in X
      BY <3>2, <3>3, Zenon
    <3> QED
      BY <3>3, <3>4
  <2>3. Nat \subseteq Good
    <3> HIDE DEF Good
    <3> QED
      BY <2>1, <2>2, NumberInduction
  <2> QED
    BY <2>3
<1>11. pass \in [Nat -> X]
  <2>1. pass = [k \in Nat |-> IF k = 0 THEN x0 ELSE body(pass[k - 1], p.next - k)]
    BY <1>7, Zenon
  <2> HIDE DEF pass, X, body, x0
  <2>2. pass = [k \in Nat |-> pass[k]]
    BY <2>1
  <2> QED
    BY <1>10, <2>2
<1> DEFINE cut == [k \in Nat |-> pass[k].cut]
           dropped == [k \in Nat |-> pass[k].dropped]
<1>12. ASSUME NEW k \in Nat
       PROVE  PassStep(all, head, last, p.next - (k + 1), cut[k], dropped[k],
                       cut[k + 1], dropped[k + 1])
  <2>1. PICK row \in Int : row = p.next - (k + 1)
    OBVIOUS
  <2>2. pass[k] \in X /\ pass[k + 1] = body(pass[k], row)
    <3> HIDE DEF pass, body, X
    <3> QED
      BY <1>9, <1>10, <2>1
  <2>3. cut[k] = pass[k].cut /\ dropped[k] = pass[k].dropped
        /\ cut[k + 1] = pass[k + 1].cut /\ dropped[k + 1] = pass[k + 1].dropped
    <3> HIDE DEF pass
    <3> QED
      OBVIOUS
  <2>4. \A o \in all : last[o] = p.outputs[o].last /\ head[o] = p.outputs[o].first
    BY DEF Heads, Lasts
  <2>5. \A o \in all : o \in ending(row) <=> last[o] = row
    BY <2>4
  <2> HIDE DEF pass, body, X, ending, cut, dropped, all, head, last
  <2>6. \A c : c \in firsts(row) <=> \E o \in all : last[o] = row /\ c = head[o]
    <3>1. ending(row) \subseteq all
      BY DEF ending
    <3> QED
      BY <2>4, <2>5, <3>1
  <2> HIDE DEF firsts
  <2>7. CASE row < cut[k]
    <3>1. pass[k + 1] = pass[k]
      BY <1>1, <2>2, <2>3, <2>7
    <3> QED
      BY <2>1, <2>3, <2>7, <3>1 DEF PassStep
  <2>8. CASE ~(row < cut[k])
    <3>1. /\ dropped[k + 1] = dropped[k] \cup ending(row)
          /\ cut[k + 1] \in {cut[k]} \cup firsts(row)
          /\ cut[k + 1] <= cut[k]
          /\ \A o \in ending(row) : cut[k + 1] <= p.outputs[o].first
      <4>1. ~(row < pass[k].cut) /\ pass[k] \in X
        BY <2>2, <2>3, <2>8
      <4>2. /\ body(pass[k], row).dropped = pass[k].dropped \cup ending(row)
            /\ body(pass[k], row).cut \in {pass[k].cut} \cup firsts(row)
            /\ body(pass[k], row).cut <= pass[k].cut
            /\ \A o \in ending(row) : body(pass[k], row).cut <= p.outputs[o].first
        BY <1>1, <4>1
      <4> QED
        BY <2>2, <2>3, <4>2
    <3>2. \A o \in all : o \in dropped[k + 1] <=> o \in dropped[k] \/ last[o] = row
      BY <2>5, <3>1
    <3>3. cut[k + 1] = cut[k] \/ \E o \in all : last[o] = row /\ cut[k + 1] = head[o]
      BY <2>6, <3>1
    <3>4. \A o \in all : last[o] = row => cut[k + 1] <= head[o]
      BY <2>4, <2>5, <3>1
    <3> QED
      BY <2>1, <2>8, <3>1, <3>2, <3>3, <3>4 DEF PassStep
  <2> QED
    BY <2>7, <2>8
<1>13. /\ cut \in [Nat -> Nat] /\ dropped \in [Nat -> SUBSET all]
       /\ cut[0] = from /\ dropped[0] = {}
  <2>1. pass[0].cut = from /\ pass[0].dropped = {}
    BY <1>2, <1>9
  <2> HIDE DEF pass
  <2> QED
    BY <1>10, <2>1
<1>14. GoesDown(all, head, last, p.next, from, cut, dropped)
  <2> HIDE DEF all, cut, dropped
  <2> QED
    BY <1>12, <1>13 DEF GoesDown
<1>15. /\ Cut(p, from).cut = cut[p.next - p.start]
       /\ Cut(p, from).dropped = dropped[p.next - p.start]
  <2> HIDE DEF pass
  <2> QED
    BY <1>8
<1> HIDE DEF cut, dropped
<1> QED
  BY <1>14, <1>15

\* What a pass that goes down row by row reaches: the outcomes that end at the cut or
\* after it, which all start there or after it.
OutcomesIn(all, head, last, start, next) ==
    \A o \in all : /\ head[o] \in Nat /\ last[o] \in Nat
                   /\ start <= head[o] /\ head[o] <= last[o] /\ last[o] < next
SplitsAt(all, head, last, cut, dropped) ==
    /\ dropped \subseteq all
    /\ \A o \in all : o \in dropped <=> last[o] >= cut
    /\ \A o \in dropped : head[o] >= cut

LEMMA PassSplits ==
    ASSUME NEW all, NEW head, NEW last, NEW next,
           NEW start \in Nat, NEW size \in Nat, next = start + size, NEW from \in start .. next,
           OutcomesIn(all, head, last, start, next),
           NEW cut, NEW dropped, GoesDown(all, head, last, next, from, cut, dropped)
    PROVE  cut[size] \in start .. from /\ SplitsAt(all, head, last, cut[size], dropped[size])
<1>0. \A o \in all : /\ head[o] \in Nat /\ last[o] \in Nat
                     /\ start <= head[o] /\ head[o] <= last[o] /\ last[o] < start + size
  BY DEF OutcomesIn
<1> DEFINE Split(k) == /\ start <= cut[k] /\ cut[k] <= from
                       /\ \A o \in all : o \in dropped[k] <=>
                             last[o] >= start + size - k /\ last[o] >= cut[k]
                       /\ \A o \in dropped[k] : head[o] >= cut[k]
           Good == {k \in Nat : k <= size => Split(k)}
<1> USE DEF GoesDown
<1>1. Split(0)
  BY <1>0
<1>2. ASSUME NEW k \in Nat, Split(k), k + 1 <= size PROVE Split(k + 1)
  <2>1. PICK row \in Nat : row = start + size - (k + 1)
    BY <1>2
  <2>2. row >= start /\ start + size - k = row + 1
    BY <1>2, <2>1
  <2>3. PassStep(all, head, last, row, cut[k], dropped[k], cut[k + 1], dropped[k + 1])
    BY <2>1
  <2>5. cut[k] \in Nat /\ cut[k + 1] \in Nat /\ dropped[k] \subseteq all /\ dropped[k + 1] \subseteq all
    OBVIOUS
  <2>6. \A o \in all : /\ head[o] \in Nat /\ last[o] \in Nat
                       /\ start <= head[o] /\ head[o] <= last[o]
    BY <1>0
  <2>7. start <= cut[k] /\ cut[k] <= from /\ from \in Nat
    BY <1>2
  <2>8. \A o \in all : o \in dropped[k] <=> last[o] >= row + 1 /\ last[o] >= cut[k]
    BY <1>2, <2>2
  <2>9. \A o \in dropped[k] : head[o] >= cut[k]
    BY <1>2
  <2>10. SUFFICES /\ start <= cut[k + 1] /\ cut[k + 1] <= from
                  /\ \A o \in all : o \in dropped[k + 1] <=>
                             last[o] >= row /\ last[o] >= cut[k + 1]
                  /\ \A o \in dropped[k + 1] : head[o] >= cut[k + 1]
    BY <2>1
  <2>11. CASE row < cut[k]
    <3>1. cut[k + 1] = cut[k] /\ dropped[k + 1] = dropped[k]
      BY <2>3, <2>11 DEF PassStep
    <3> QED
      BY <2>5, <2>6, <2>7, <2>8, <2>9, <2>11, <3>1
  <2>12. CASE ~(row < cut[k])
    <3>1. /\ \A o \in all : o \in dropped[k + 1] <=> o \in dropped[k] \/ last[o] = row
          /\ cut[k + 1] = cut[k] \/ \E o \in all : last[o] = row /\ cut[k + 1] = head[o]
          /\ cut[k + 1] <= cut[k]
          /\ \A o \in all : last[o] = row => cut[k + 1] <= head[o]
      BY <2>3, <2>12 DEF PassStep
    <3>2. start <= cut[k + 1] /\ cut[k + 1] <= from /\ cut[k + 1] <= row
      BY <2>2, <2>5, <2>6, <2>7, <2>12, <3>1
    <3>3. \A o \in all : o \in dropped[k + 1] <=> last[o] >= row
      <4> HIDE DEF GoesDown
      <4>1. ASSUME NEW o \in all PROVE o \in dropped[k] <=> last[o] >= row + 1
        BY <2>5, <2>6, <2>8, <2>12
      <4>2. ASSUME NEW o \in all PROVE last[o] >= row <=> last[o] >= row + 1 \/ last[o] = row
        BY <2>6
      <4> QED
        BY <3>1, <4>1, <4>2
    <3>4. ASSUME NEW o \in dropped[k + 1] PROVE head[o] >= cut[k + 1]
      <4>1. o \in all /\ head[o] \in Nat
        BY <2>5, <2>6
      <4> QED
        BY <2>5, <2>9, <3>1, <4>1
    <3> QED
      BY <2>5, <2>6, <3>2, <3>3, <3>4
  <2> QED
    BY <2>11, <2>12
<1>3. Split(size)
  <2> HIDE DEF Split
  <2>1. 0 \in Good
    BY <1>1
  <2>2. \A k \in Nat : k \in Good => k + 1 \in Good
    BY <1>2
  <2>3. Nat \subseteq Good
    <3> HIDE DEF Good
    <3> QED
      BY <2>1, <2>2, NumberInduction
  <2> QED
    BY <2>3
<1>4. cut[size] \in Nat /\ dropped[size] \subseteq all
  OBVIOUS
<1> HIDE DEF GoesDown
<1> QED
  BY <1>0, <1>3, <1>4 DEF SplitsAt
\* The cut is at the row it starts from or before, in the page; what it drops starts
\* after it, and the rest ends before it: no outcome is on both sides.
LEMMA CutFacts ==
    ASSUME NEW p \in Page, NEW from \in p.start .. p.next,
           \A o \in 1 .. Len(p.outputs) :
                /\ p.start <= p.outputs[o].first /\ p.outputs[o].first <= p.outputs[o].last
                /\ p.outputs[o].last < p.next
    PROVE  /\ Cut(p, from).cut \in p.start .. from
           /\ Cut(p, from).dropped \subseteq 1 .. Len(p.outputs)
           /\ \A o \in 1 .. Len(p.outputs) :
                o \in Cut(p, from).dropped <=> p.outputs[o].last >= Cut(p, from).cut
           /\ \A o \in Cut(p, from).dropped : p.outputs[o].first >= Cut(p, from).cut
<1> DEFINE all == 1 .. Len(p.outputs)
<1>1. \A o \in all : /\ p.start <= p.outputs[o].first
                      /\ p.outputs[o].first <= p.outputs[o].last
                      /\ p.outputs[o].last < p.next
  OBVIOUS
<1>2. PICK start \in Nat, size \in Nat :
        start = p.start /\ size = p.next - p.start /\ p.next = start + size
  <2>1. p.start \in Nat /\ p.next \in Nat
    BY DEF Page
  <2>2. p.next - p.start \in Nat /\ p.next = p.start + (p.next - p.start)
    BY <2>1
  <2> QED
    BY <2>1, <2>2
<1>3. from \in start .. start + size /\ from \in Nat
  BY <1>2
<1>4. ASSUME NEW o \in all PROVE p.outputs[o].first \in Nat /\ p.outputs[o].last \in Nat
  <2>1. p.outputs[o] \in Output
    BY DEF Page
  <2> QED
    BY <2>1 DEF Output
<1> DEFINE head == Heads(p)
           last == Lasts(p)
<1>5. /\ \A o \in all : head[o] \in Nat /\ last[o] \in Nat
      /\ \A o \in all : head[o] = p.outputs[o].first /\ last[o] = p.outputs[o].last
  BY <1>4 DEF Heads, Lasts
<1> HIDE DEF head, last
<1>6. OutcomesIn(all, head, last, start, p.next)
  BY <1>1, <1>2, <1>5 DEF OutcomesIn
<1>7. PICK cut, dropped :
            /\ GoesDown(all, head, last, p.next, from, cut, dropped)
            /\ Cut(p, from).cut = cut[size] /\ Cut(p, from).dropped = dropped[size]
  <2>1. p.next \in Int /\ p.next - p.start \in Nat
    BY <1>2
  <2> QED
    <3>1. \E cut, dropped :
            /\ GoesDown(1 .. Len(p.outputs), head, last, p.next, from, cut, dropped)
            /\ Cut(p, from).cut = cut[p.next - p.start]
            /\ Cut(p, from).dropped = dropped[p.next - p.start]
      BY <1>3, <1>4, <2>1, CutPass DEF head, last
    <3> QED
      BY <1>2, <3>1
<1>8. cut[size] \in start .. from /\ SplitsAt(all, head, last, cut[size], dropped[size])
  <2> HIDE DEF all
  <2> QED
    BY <1>2, <1>3, <1>6, <1>7, PassSplits
<1> QED
  BY <1>2, <1>5, <1>7, <1>8 DEF SplitsAt
-----------------------------------------------------------------------------
(* A row of a page.                                                        *)

\* The shape of a page, and of one of its reports.
LEMMA PageFacts ==
    ASSUME NEW p \in Page
    PROVE  /\ p.start \in Nat /\ p.next \in Nat /\ p.end \in Nat /\ Len(p.outputs) \in Nat
           /\ \A id \in Ids : p.broken[id] \in Nat /\ p.partials[id] \in Partial \cup {None}
           /\ \A id \in Ids : p.partials[id] # None =>
                 /\ p.partials[id].first \in Nat /\ p.partials[id].total \in Nat
                 /\ p.partials[id].next_chunk \in Nat /\ p.partials[id].last_version \in Nat
           /\ \A o \in 1 .. Len(p.outputs) :
                 /\ p.outputs[o] \in Output
                 /\ p.outputs[o].first \in Nat /\ p.outputs[o].last \in Nat
                 /\ p.outputs[o].id \in Ids /\ p.outputs[o].complete \in BOOLEAN
<1>1. /\ p.start \in Nat /\ p.next \in Nat /\ p.end \in Nat /\ Len(p.outputs) \in Nat
      /\ \A id \in Ids : p.broken[id] \in Nat /\ p.partials[id] \in Partial \cup {None}
      /\ \A o \in 1 .. Len(p.outputs) : p.outputs[o] \in Output
  BY DEF Page
<1>2. \A id \in Ids : p.partials[id] # None => p.partials[id] \in Partial
  BY <1>1
<1>3. \A partial \in Partial : /\ partial.first \in Nat /\ partial.total \in Nat
                               /\ partial.next_chunk \in Nat /\ partial.last_version \in Nat
  BY DEF Partial
<1>4. \A output \in Output : /\ output.first \in Nat /\ output.last \in Nat
                             /\ output.id \in Ids /\ output.complete \in BOOLEAN
  BY DEF Output
<1> QED
  BY <1>1, <1>2, <1>3, <1>4

\* What a page is after one more outcome, or after a later row of a broken transaction.
Appends(p, q, output) ==
    /\ q \in Page /\ q.start = p.start
    /\ Len(q.outputs) = Len(p.outputs) + 1
    /\ \A o \in 1 .. Len(p.outputs) : q.outputs[o] = p.outputs[o]
    /\ q.outputs[Len(p.outputs) + 1] = output

Prolongs(p, q, index, key) ==
    /\ q \in Page /\ q.start = p.start
    /\ Len(q.outputs) = Len(p.outputs)
    /\ \A o \in 1 .. Len(p.outputs) :
        /\ q.outputs[o].first = p.outputs[o].first /\ q.outputs[o].id = p.outputs[o].id
        /\ q.outputs[o].complete = p.outputs[o].complete
        /\ q.outputs[o].last = IF o = index THEN key ELSE p.outputs[o].last

\* What report_broken leaves.
Reports(p, q, from, id, key) ==
    /\ q.partials = p.partials
    /\ p.broken[id] # 0 => q.broken = p.broken /\ Prolongs(p, q, p.broken[id], key)
    /\ p.broken[id] = 0 =>
        /\ q.broken = [p.broken EXCEPT ![id] = Len(p.outputs) + 1]
        /\ Appends(p, q, [first |-> from, last |-> key, id |-> id, complete |-> FALSE])

LEMMA ReportBrokenFacts ==
    ASSUME NEW p \in Page, NEW from \in Nat, NEW id \in Ids, NEW key \in Nat,
           p.broken[id] # 0 => p.broken[id] \in 1 .. Len(p.outputs)
    PROVE  Reports(p, ReportBroken(p, from, id, key), from, id, key)
<1> DEFINE q == ReportBroken(p, from, id, key)
           output == [first |-> from, last |-> key, id |-> id, complete |-> FALSE]
<1>1. p.outputs \in Seq(Output) /\ output \in Output /\ Len(p.outputs) \in Nat
  BY DEF Page, Output
<1>2. CASE p.broken[id] # 0
  <2> DEFINE b == p.broken[id]
             changed == [p.outputs EXCEPT ![b].last = key]
  <2>1. q = [p EXCEPT !.outputs = changed]
    BY <1>2 DEF ReportBroken, Page
  <2>2. b \in 1 .. Len(p.outputs)
    BY <1>2
  <2>3. p.outputs[b] \in Output
    BY <1>1, <2>2
  <2> DEFINE report == [p.outputs[b] EXCEPT !.last = key]
  <2>4. /\ report \in Output /\ report.first = p.outputs[b].first /\ report.last = key
        /\ report.id = p.outputs[b].id /\ report.complete = p.outputs[b].complete
    BY <2>3 DEF Output
  <2>5. changed = [p.outputs EXCEPT ![b] = report]
    BY <1>1, <2>2
  <2> HIDE DEF report, changed
  <2>6. /\ changed \in Seq(Output) /\ Len(changed) = Len(p.outputs)
        /\ \A o \in 1 .. Len(p.outputs) : changed[o] = IF o = b THEN report ELSE p.outputs[o]
    BY <1>1, <2>2, <2>4, <2>5
  <2> HIDE DEF q
  <2>7. q \in Page /\ q.outputs = changed /\ q.partials = p.partials /\ q.broken = p.broken
        /\ q.start = p.start
    BY <2>1, <2>6 DEF Page
  <2>8. Prolongs(p, q, b, key)
    BY <2>4, <2>6, <2>7 DEF Prolongs
  <2> QED
    BY <1>2, <2>7, <2>8 DEF q, Reports
<1>3. CASE p.broken[id] = 0
  <2>1. q = [p EXCEPT !.broken[id] = Len(p.outputs) + 1, !.outputs = Append(@, output)]
    BY <1>3 DEF ReportBroken
  <2>2. Append(p.outputs, output) \in Seq(Output) /\ Len(Append(p.outputs, output)) = Len(p.outputs) + 1
        /\ \A o \in 1 .. Len(p.outputs) : Append(p.outputs, output)[o] = p.outputs[o]
        /\ Append(p.outputs, output)[Len(p.outputs) + 1] = output
    BY <1>1
  <2> DEFINE outputs == Append(p.outputs, output)
             broken == [p.broken EXCEPT ![id] = Len(p.outputs) + 1]
  <2>3. q = [p EXCEPT !.broken = broken, !.outputs = outputs]
    BY <2>1 DEF Page
  <2>4. broken \in [Ids -> Nat] /\ outputs \in Seq(Output)
    BY <1>1, <2>2 DEF Page
  <2> HIDE DEF q, outputs, broken, output
  <2>5. /\ q \in Page /\ q.outputs = outputs /\ q.partials = p.partials
        /\ q.broken = broken /\ q.start = p.start
    BY <2>3, <2>4 DEF Page
  <2>6. /\ q \in Page /\ q.outputs = Append(p.outputs, output) /\ q.partials = p.partials
        /\ q.broken = [p.broken EXCEPT ![id] = Len(p.outputs) + 1] /\ q.start = p.start
    BY <2>5 DEF outputs, broken
  <2>7. Appends(p, q, output)
    BY <2>2, <2>6 DEF Appends
  <2> QED
    BY <1>3, <2>6, <2>7 DEF q, output, Reports
<1> QED
  BY <1>2, <1>3

\* What a complete transaction leaves.
Completes(p, q, from, key, id) ==
    /\ q.partials = p.partials /\ q.broken = p.broken
    /\ Appends(p, q, [first |-> from, last |-> key, id |-> id, complete |-> TRUE])

LEMMA CompletedFacts ==
    ASSUME NEW p \in Page, NEW from \in Nat, NEW key \in Nat, rows[key].id \in Ids
    PROVE  Completes(p, Completed(p, from, key), from, key, rows[key].id)
<1> DEFINE q == Completed(p, from, key)
           output == [first |-> from, last |-> key, id |-> rows[key].id, complete |-> TRUE]
<1>1. p.outputs \in Seq(Output) /\ output \in Output /\ Len(p.outputs) \in Nat
  BY DEF Page, Output
<1>2. q = [p EXCEPT !.outputs = Append(@, output)]
  BY DEF Completed
<1>3. Append(p.outputs, output) \in Seq(Output) /\ Len(Append(p.outputs, output)) = Len(p.outputs) + 1
      /\ \A o \in 1 .. Len(p.outputs) : Append(p.outputs, output)[o] = p.outputs[o]
      /\ Append(p.outputs, output)[Len(p.outputs) + 1] = output
  BY <1>1
<1> HIDE DEF q, output
<1>4. /\ q \in Page /\ q.outputs = Append(p.outputs, output) /\ q.partials = p.partials
      /\ q.broken = p.broken /\ q.start = p.start
  BY <1>1, <1>2, <1>3 DEF Page
<1>5. Appends(p, q, output)
  BY <1>3, <1>4 DEF Appends
<1> QED
  BY <1>4, <1>5 DEF q, output, Completes

\* A transaction that is broken stays so.
LEMMA BrokenGrows ==
    ASSUME NEW r, NEW i \in Nat, NEW k \in Nat, NEW l \in Nat, k <= l, Broken(r, i, k)
    PROVE  Broken(r, i, l)
BY DEF Broken, After

\* A row of another id, or of none, leaves a pending transaction as it is.
LEMMA PartialSkips ==
    ASSUME NEW r, RowsInv(r), NEW p \in Page, NEW n \in 1 .. Len(r), NEW id \in Ids,
           PartialInv(r, p, n, id), r[n].id # id \/ p.partials[id] = None
    PROVE  PartialInv(r, p, n + 1, id)
<1>1. SUFFICES ASSUME p.partials[id] # None, r[n].id # id PROVE PartialInv(r, p, n + 1, id)
  BY DEF PartialInv
<1>2. PICK f \in Nat : f = p.partials[id].first
  BY <1>1, PageFacts
<1>3. n \in Nat /\ n - 1 \in Nat /\ (n - 1) + 1 = n /\ (n + 1) - 1 = n
  BY DEF RowsInv
<1>4. r[f].id = id
  BY <1>1, <1>2 DEF PartialInv
<1>5. After(r, f, n) = After(r, f, n - 1) /\ Count(r, f, n) = Count(r, f, n - 1)
  BY <1>1, <1>3, <1>4, CountStep
<1>6. InOrder(r, f, n) <=> InOrder(r, f, n - 1)
  BY <1>5 DEF InOrder
<1>7. \A j \in 1 .. n - 1 : j \in 1 .. n
  BY <1>3
<1> QED
  BY <1>1, <1>2, <1>3, <1>5, <1>6, <1>7 DEF PartialInv

\* A page at a row of an id that has nothing pending, before it begins with it.
MidInv(r, p, n) ==
    /\ p \in Page /\ n \in p.start .. Len(r) /\ p.start >= 1 /\ r[n].id \in Ids
    /\ p.partials[r[n].id] = None
    /\ \A id \in Ids : PartialInv(r, p, n + 1, id)
    /\ \A o \in 1 .. Len(p.outputs) : OutputInv(r, p, n + 1, o) /\ p.outputs[o].first < n
    /\ OnceInv(p) /\ BrokenInv(p)
    /\ \A i \in p.start .. n - 1 : StartsAt(r, i) => Seen(r, p, i)

LEMMA MidNumbers ==
    ASSUME NEW r, RowsInv(r), NEW p, NEW n, MidInv(r, p, n)
    PROVE  /\ p \in Page /\ n \in Nat /\ n \in 1 .. Len(r) /\ n >= 1 /\ Len(r) \in Nat /\ n <= Len(r)
           /\ p.start \in Nat /\ p.start <= n /\ p.start >= 1 /\ Len(p.outputs) \in Nat
           /\ n + 1 \in p.start .. Len(r) + 1 /\ (n + 1) - 1 = n
           /\ n \notin p.start .. n - 1
           /\ \A i \in p.start .. n : i = n \/ i \in p.start .. n - 1
BY PageFacts DEF MidInv, RowsInv

\* A chunk in the middle of a transaction nothing is known of.
LEMMA OrphanKeeps ==
    ASSUME NEW r, RowsInv(r), NEW p, NEW n, MidInv(r, p, n), r[n].chunk # 1
    PROVE  PageInv(r, ReportBroken(p, n, r[n].id, n), n + 1)
<1> DEFINE id == r[n].id
           q == ReportBroken(p, n, id, n)
           size == Len(p.outputs)
           output == [first |-> n, last |-> n, id |-> id, complete |-> FALSE]
<1>1. /\ p \in Page /\ n \in Nat /\ n \in 1 .. Len(r) /\ n >= 1 /\ Len(r) \in Nat /\ n <= Len(r)
      /\ p.start \in Nat /\ p.start <= n /\ p.start >= 1 /\ size \in Nat
      /\ n + 1 \in p.start .. Len(r) + 1 /\ (n + 1) - 1 = n
      /\ \A i \in p.start .. n : i = n \/ i \in p.start .. n - 1
  BY MidNumbers
<1>2. id \in Ids /\ OnceInv(p) /\ BrokenInv(p)
  BY DEF MidInv
<1>3. /\ q.partials = p.partials
      /\ p.broken[id] # 0 => q.broken = p.broken /\ Prolongs(p, q, p.broken[id], n)
      /\ p.broken[id] = 0 => q.broken = [p.broken EXCEPT ![id] = size + 1] /\ Appends(p, q, output)
  <2>1. p.broken[id] # 0 => p.broken[id] \in 1 .. Len(p.outputs)
    BY <1>2 DEF BrokenInv
  <2>2. Reports(p, q, n, id, n)
    <3> HIDE DEF id
    <3> QED
      BY <1>1, <1>2, <2>1, ReportBrokenFacts
  <2> QED
    BY <2>2 DEF Reports
<1>4. /\ p.broken \in [Ids -> Nat]
      /\ \A o \in 1 .. size : p.outputs[o].first \in Nat /\ p.outputs[o].last \in Nat
  BY <1>1, PageFacts DEF Page
<1> HIDE DEF q
<1>5. ASSUME NEW other \in Ids PROVE PartialInv(r, q, n + 1, other)
  <2>1. PartialInv(r, p, n + 1, other) /\ p.partials[id] = None
    BY DEF MidInv
  <2>2. q.start = p.start
    BY <1>3 DEF Prolongs, Appends
  <2>3. other # id => q.broken[other] = p.broken[other]
    BY <1>3, <1>4
  <2> QED
    BY <1>3, <2>1, <2>2, <2>3 DEF PartialInv
<1>6. ~StartsAt(r, n)
  BY DEF StartsAt
<1>7. CASE p.broken[id] # 0
  <2> DEFINE b == p.broken[id]
  <2>1. /\ b \in 1 .. size /\ ~p.outputs[b].complete /\ q \in Page /\ q.start = p.start
        /\ Len(q.outputs) = size /\ q.broken = p.broken /\ q.partials = p.partials
    BY <1>2, <1>3, <1>7 DEF BrokenInv, Prolongs
  <2>2. \A o \in 1 .. size :
          /\ q.outputs[o].first = p.outputs[o].first /\ q.outputs[o].id = p.outputs[o].id
          /\ q.outputs[o].complete = p.outputs[o].complete
          /\ q.outputs[o].last = IF o = b THEN n ELSE p.outputs[o].last
    BY <1>3, <1>7 DEF Prolongs
  <2> HIDE DEF b, size
  <2>3. ASSUME NEW o \in 1 .. size PROVE OutputInv(r, q, n + 1, o)
    <3>1. OutputInv(r, p, n + 1, o) /\ p.outputs[o].first < n
      BY DEF MidInv, size
    <3>2. CASE o = b
      <4>1. /\ q.outputs[o].first = p.outputs[o].first /\ q.outputs[o].last = n
            /\ ~q.outputs[o].complete
        BY <2>1, <2>2, <3>2
      <4>2. p.outputs[o].first <= n /\ n < n + 1
        BY <1>1, <1>4, <3>1 DEF size
      <4> QED
        BY <2>1, <3>1, <4>1, <4>2 DEF OutputInv
    <3>3. CASE o # b
      BY <2>1, <2>2, <3>1, <3>3 DEF OutputInv
    <3> QED
      BY <3>2, <3>3
  <2>4. OnceInv(q) /\ BrokenInv(q)
    <3>1. \A o \in 1 .. size : q.outputs[o].first = p.outputs[o].first
                              /\ q.outputs[o].complete = p.outputs[o].complete
      BY <2>2
    <3>2. OnceInv(q)
      <4>1. Len(q.outputs) = Len(p.outputs) /\ q.partials = p.partials
        BY <2>1 DEF size
      <4> QED
        BY <1>2, <3>1, <4>1 DEF OnceInv, size
    <3>3. BrokenInv(q)
      BY <1>2, <2>1, <3>1 DEF BrokenInv, size
    <3> QED
      BY <3>2, <3>3
  <2>5. ASSUME NEW i \in p.start .. n, StartsAt(r, i) PROVE Seen(r, q, i)
    <3>1. Seen(r, p, i) /\ i \in Nat
      BY <1>1, <1>6, <2>5 DEF MidInv
    <3>2. ASSUME NEW o \in 1 .. size, Broken(r, i, p.outputs[o].last)
          PROVE  Broken(r, i, q.outputs[o].last)
      <4>1. p.outputs[o].last <= n
        <5>1. OutputInv(r, p, n + 1, o)
          BY DEF MidInv, size
        <5> QED
          BY <1>1, <1>4, <5>1 DEF OutputInv
      <4>2. Broken(r, i, n)
        BY <1>1, <1>4, <3>1, <3>2, <4>1, BrokenGrows
      <4> QED
        BY <2>2, <3>2, <4>2
    <3> QED
      BY <2>1, <2>2, <3>1, <3>2 DEF Seen, size
  <2> QED
    BY <1>1, <1>5, <2>1, <2>3, <2>4, <2>5 DEF PageInv, q
<1>8. CASE p.broken[id] = 0
  <2>1. /\ q \in Page /\ q.start = p.start /\ Len(q.outputs) = size + 1
        /\ q.partials = p.partials /\ q.broken = [p.broken EXCEPT ![id] = size + 1]
        /\ \A o \in 1 .. size : q.outputs[o] = p.outputs[o]
        /\ q.outputs[size + 1] = output
    BY <1>3, <1>8 DEF Appends
  <2>2. \A o \in 1 .. size + 1 : o = size + 1 \/ o \in 1 .. size
    BY <1>1
  <2>3. output.first = n /\ output.last = n /\ output.complete = FALSE
    OBVIOUS
  <2>4. size + 1 \in 1 .. size + 1 /\ \A o \in 1 .. size : o \in 1 .. size + 1
    BY <1>1
  <2> HIDE DEF output
  <2>5. ASSUME NEW o \in 1 .. size + 1 PROVE OutputInv(r, q, n + 1, o)
    <3>1. CASE o = size + 1
      BY <1>1, <2>1, <2>3, <3>1 DEF OutputInv
    <3>2. CASE o \in 1 .. size
      <4>1. OutputInv(r, p, n + 1, o)
        BY <3>2 DEF MidInv
      <4> QED
        BY <2>1, <3>2, <4>1 DEF OutputInv
    <3> QED
      BY <2>2, <3>1, <3>2
  <2>6. OnceInv(q)
    <3>1. \A a \in 1 .. size + 1 : q.outputs[a].complete =>
              a \in 1 .. size /\ q.outputs[a] = p.outputs[a]
      BY <2>1, <2>2, <2>3
    <3>2. Len(q.outputs) = size + 1 /\ q.partials = p.partials
      BY <2>1
    <3> HIDE DEF size
    <3>3. ASSUME NEW a \in 1 .. size + 1, q.outputs[a].complete
          PROVE  /\ \A b \in 1 .. size + 1 :
                      q.outputs[b].complete /\ q.outputs[a].first = q.outputs[b].first => a = b
                 /\ \A other \in Ids : q.partials[other] # None =>
                      q.partials[other].first # q.outputs[a].first
      <4>1. a \in 1 .. size /\ q.outputs[a] = p.outputs[a] /\ p.outputs[a].complete
        BY <3>1, <3>3
      <4>2. \A b \in 1 .. size : p.outputs[b].complete /\ p.outputs[a].first = p.outputs[b].first => a = b
        BY <1>2, <4>1 DEF OnceInv, size
      <4>3. \A other \in Ids : p.partials[other] # None => p.partials[other].first # p.outputs[a].first
        BY <1>2, <4>1 DEF OnceInv, size
      <4>4. \A b \in 1 .. size + 1 : q.outputs[b].complete =>
                b \in 1 .. size /\ q.outputs[b] = p.outputs[b]
        BY <3>1
      <4>5. ASSUME NEW b \in 1 .. size + 1, q.outputs[b].complete, q.outputs[a].first = q.outputs[b].first
            PROVE  a = b
        BY <4>1, <4>2, <4>4, <4>5
      <4> QED
        BY <3>2, <4>1, <4>3, <4>5
    <3> QED
      BY <3>2, <3>3 DEF OnceInv
  <2>7. BrokenInv(q)
    <3>1. ASSUME NEW other \in Ids, q.broken[other] # 0
          PROVE  q.broken[other] \in 1 .. size + 1 /\ ~q.outputs[q.broken[other]].complete
      <4>1. CASE other = id
        <5>1. q.broken[id] = size + 1
          BY <1>2, <1>4, <2>1
        <5> QED
          BY <2>1, <2>3, <2>4, <4>1, <5>1
      <4>2. CASE other # id
        <5>1. q.broken[other] = p.broken[other]
          BY <1>4, <2>1, <4>2
        <5>2. p.broken[other] \in 1 .. size /\ ~p.outputs[p.broken[other]].complete
          BY <1>2, <3>1, <5>1 DEF BrokenInv
        <5> QED
          BY <2>1, <2>4, <5>1, <5>2
      <4> QED
        BY <4>1, <4>2
    <3> QED
      BY <2>1, <3>1 DEF BrokenInv
  <2>8. ASSUME NEW i \in p.start .. n, StartsAt(r, i) PROVE Seen(r, q, i)
    <3>1. Seen(r, p, i)
      BY <1>1, <1>6, <2>8 DEF MidInv
    <3> QED
      BY <2>1, <2>4, <3>1 DEF Seen
  <2> QED
    BY <1>1, <1>5, <2>1, <2>5, <2>6, <2>7, <2>8 DEF PageInv, q
<1> QED
  BY <1>7, <1>8
\* The outcomes of a page after one more.
LEMMA AppendsFacts ==
    ASSUME NEW p \in Page, NEW q, NEW output, Appends(p, q, output)
    PROVE  /\ q \in Page /\ q.start = p.start /\ Len(p.outputs) \in Nat
           /\ \A o \in 1 .. Len(q.outputs) :
                \/ o \in 1 .. Len(p.outputs) /\ q.outputs[o] = p.outputs[o]
                \/ o = Len(p.outputs) + 1 /\ q.outputs[o] = output
           /\ \A o \in 1 .. Len(p.outputs) : o \in 1 .. Len(q.outputs) /\ q.outputs[o] = p.outputs[o]
           /\ Len(p.outputs) + 1 \in 1 .. Len(q.outputs)
           /\ q.outputs[Len(p.outputs) + 1] = output
           /\ Len(p.outputs) + 1 \notin 1 .. Len(p.outputs)
<1>1. Len(p.outputs) \in Nat
  BY PageFacts
<1>2. Len(q.outputs) = Len(p.outputs) + 1
  BY DEF Appends
<1> QED
  BY <1>1, <1>2 DEF Appends

LEMMA AppendsOutputs ==
    ASSUME NEW r, NEW n, NEW p \in Page, NEW q, NEW output, Appends(p, q, output),
           \A o \in 1 .. Len(p.outputs) : OutputInv(r, p, n, o),
           p.start <= output.first /\ output.first <= output.last /\ output.last < n,
           output.complete => Done(r, output.first, output.last) /\ output.id = r[output.first].id
    PROVE  \A o \in 1 .. Len(q.outputs) : OutputInv(r, q, n, o)
<1> SUFFICES ASSUME NEW o \in 1 .. Len(q.outputs) PROVE OutputInv(r, q, n, o)
  OBVIOUS
<1>1. q.start = p.start
  BY DEF Appends
<1>2. CASE o \in 1 .. Len(p.outputs) /\ q.outputs[o] = p.outputs[o]
  BY <1>1, <1>2 DEF OutputInv
<1>3. CASE q.outputs[o] = output
  BY <1>1, <1>3 DEF OutputInv
<1> QED
  BY <1>2, <1>3, AppendsFacts

\* A pending transaction whose next row is not its next chunk.
LEMMA InterruptedKeeps ==
    ASSUME RowsInv(rows), NEW p, NEW n \in 1 .. Len(rows), PageInv(rows, p, n),
           rows[n].id \in Ids, p.partials[rows[n].id] # None,
           ~Continues(p.partials[rows[n].id], n)
    PROVE  MidInv(rows, ReportBroken([p EXCEPT !.partials[rows[n].id] = None],
                                     p.partials[rows[n].id].first, rows[n].id, n), n)
<1> DEFINE id == rows[n].id
           partial == p.partials[id]
           m == [p EXCEPT !.partials[id] = None]
           q == ReportBroken(m, partial.first, id, n)
           size == Len(p.outputs)
           output == [first |-> partial.first, last |-> n, id |-> id, complete |-> FALSE]
<1>1. /\ p \in Page /\ n \in Nat /\ Len(rows) \in Nat /\ n <= Len(rows) /\ n >= 1
      /\ n \in p.start .. Len(rows) /\ p.start >= 1 /\ p.start \in Nat /\ OnceInv(p) /\ BrokenInv(p)
  BY PageFacts DEF PageInv, RowsInv
<1>2. PartialInv(rows, p, n, id)
  BY DEF PageInv
<1>3. PICK f \in Nat : f = partial.first
  BY <1>1, PageFacts
<1>4. /\ StartsAt(rows, f) /\ rows[f].id = id /\ f \in 1 .. Len(rows)
      /\ p.start <= f /\ f < n /\ partial.total = rows[f].total
      /\ partial.next_chunk = Count(rows, f, n - 1) + 2 /\ partial.next_chunk <= partial.total
      /\ \E j \in 1 .. n - 1 : partial.last_version = rows[j].version
      /\ p.broken[id] = 0
  BY <1>2, <1>3 DEF PartialInv, StartsAt
<1>5. partial.next_chunk \in Nat /\ partial.total \in Nat /\ partial.total = Total[id]
  <2>1. partial.next_chunk \in Nat /\ partial.total \in Nat
    BY <1>1, PageFacts
  <2>2. rows[f].id # None => rows[f].total = Total[rows[f].id]
    BY <1>4 DEF RowsInv
  <2> QED
    BY <1>4, <2>1, <2>2
<1>6. rows[n].total = Total[id] /\ rows[n].version >= partial.last_version
  <2>1. PICK j \in 1 .. n - 1 : partial.last_version = rows[j].version
    BY <1>4
  <2>2. j \in 1 .. Len(rows) /\ j <= n
    BY <1>1
  <2>3. rows[j].version <= rows[n].version /\ rows[j].version \in Nat /\ rows[n].version \in Nat
    BY <2>2, RowFacts DEF RowsInv
  <2>4. rows[n].total = Total[id]
    BY RowFacts
  <2> QED
    BY <2>1, <2>3, <2>4
<1>7. rows[n].chunk # partial.next_chunk
  BY <1>5, <1>6 DEF Continues
<1>8. Broken(rows, f, n)
  <2>1. n - 1 \in Nat /\ (n - 1) + 1 = n /\ n - 1 >= f
    BY <1>1, <1>4
  <2>2. n \in After(rows, f, n) /\ Count(rows, f, n) = Count(rows, f, n - 1) + 1
    <3>1. After(rows, f, n) = After(rows, f, n - 1) \cup {n}
      BY <1>4, <2>1, CountStep
    <3>2. Count(rows, f, n) = Count(rows, f, n - 1) + 1
      BY <1>4, <2>1, CountStep
    <3> QED
      BY <3>1, <3>2
  <2>3. Count(rows, f, n - 1) \in Nat
    BY <2>1, CountFacts
  <2>4. Count(rows, f, n) <= rows[f].total - 1 /\ rows[n].chunk # Count(rows, f, n) + 1
    BY <1>4, <1>5, <1>7, <2>2, <2>3
  <2> QED
    BY <2>2, <2>4 DEF Broken
<1>9. /\ m \in Page /\ m.outputs = p.outputs /\ m.broken = p.broken /\ m.start = p.start
      /\ m.partials = [p.partials EXCEPT ![id] = None]
  <2> DEFINE partials == [p.partials EXCEPT ![id] = None]
  <2>1. partials \in [Ids -> Partial \cup {None}]
    BY <1>1 DEF Page
  <2>2. m = [p EXCEPT !.partials = partials]
    BY <1>1 DEF Page
  <2> HIDE DEF partials, m
  <2>3. /\ m \in Page /\ m.outputs = p.outputs /\ m.broken = p.broken /\ m.start = p.start
        /\ m.partials = partials
    BY <1>1, <2>1, <2>2 DEF Page
  <2> QED
    BY <2>3 DEF partials
<1>10. p.partials \in [Ids -> Partial \cup {None}] /\ p.broken \in [Ids -> Nat]
  BY <1>1 DEF Page
<1> HIDE DEF m
<1>11. q.partials = m.partials /\ q.broken = [p.broken EXCEPT ![id] = size + 1]
       /\ Appends(m, q, output)
  <2>1. m.broken[id] = 0 /\ id \in Ids
    BY <1>4, <1>9
  <2>2. Reports(m, q, partial.first, id, n)
    <3> DEFINE from == partial.first
    <3>1. from \in Nat
      BY <1>3
    <3> HIDE DEF id, partial, from
    <3>2. Reports(m, ReportBroken(m, from, id, n), from, id, n)
      BY <1>1, <1>9, <2>1, <3>1, ReportBrokenFacts
    <3> QED
      BY <3>2 DEF from
  <2> HIDE DEF q, id, partial
  <2> QED
    BY <1>9, <2>1, <2>2 DEF Reports
<1> HIDE DEF q
<1>12. /\ q \in Page /\ q.start = p.start /\ size \in Nat
       /\ \A o \in 1 .. Len(q.outputs) :
            \/ o \in 1 .. size /\ q.outputs[o] = p.outputs[o]
            \/ o = size + 1 /\ q.outputs[o] = output
       /\ \A o \in 1 .. size : o \in 1 .. Len(q.outputs) /\ q.outputs[o] = p.outputs[o]
       /\ size + 1 \in 1 .. Len(q.outputs) /\ q.outputs[size + 1] = output
       /\ size + 1 \notin 1 .. size
  BY <1>9, <1>11, AppendsFacts
<1>13. output.first = f /\ output.last = n /\ output.complete = FALSE
  BY <1>3
<1>14. q.partials[id] = None /\ \A other \in Ids : other # id => q.partials[other] = p.partials[other]
                                                            /\ q.broken[other] = p.broken[other]
  BY <1>9, <1>10, <1>11
<1> HIDE DEF output, size
<1>15. ASSUME NEW other \in Ids PROVE PartialInv(rows, q, n + 1, other)
  <2>1. PartialInv(rows, p, n, other)
    BY DEF PageInv
  <2>2. PartialInv(rows, q, n, other)
    BY <1>12, <1>14, <2>1 DEF PartialInv
  <2> QED
    BY <1>12, <1>14, <2>2, PartialSkips
<1>16. ASSUME NEW o \in 1 .. Len(q.outputs)
       PROVE  OutputInv(rows, q, n + 1, o) /\ q.outputs[o].first < n
  <2>1. CASE o \in 1 .. size /\ q.outputs[o] = p.outputs[o]
    <3>1. OutputInv(rows, p, n, o) /\ p.outputs[o].first \in Nat /\ p.outputs[o].last \in Nat
      BY <1>1, <2>1, PageFacts DEF PageInv, size
    <3>2. p.outputs[o].last < n + 1 /\ p.outputs[o].first < n
      BY <1>1, <3>1 DEF OutputInv
    <3> QED
      BY <1>12, <2>1, <3>1, <3>2 DEF OutputInv
  <2>2. CASE q.outputs[o] = output
    BY <1>1, <1>4, <1>12, <1>13, <2>2 DEF OutputInv
  <2> QED
    BY <1>12, <2>1, <2>2
<1>17. OnceInv(q)
  <2>1. \A a \in 1 .. Len(q.outputs) : q.outputs[a].complete =>
            a \in 1 .. size /\ q.outputs[a] = p.outputs[a]
    BY <1>12, <1>13
  <2>2. ASSUME NEW a \in 1 .. Len(q.outputs), q.outputs[a].complete,
               NEW b \in 1 .. Len(q.outputs), q.outputs[b].complete,
               q.outputs[a].first = q.outputs[b].first
        PROVE  a = b
    BY <1>1, <2>1, <2>2 DEF OnceInv, size
  <2>3. ASSUME NEW a \in 1 .. Len(q.outputs), q.outputs[a].complete,
               NEW other \in Ids, q.partials[other] # None
        PROVE  q.partials[other].first # q.outputs[a].first
    <3>1. other # id /\ q.partials[other] = p.partials[other]
      BY <1>14, <2>3
    <3>2. a \in 1 .. Len(p.outputs) /\ p.outputs[a].complete /\ q.outputs[a] = p.outputs[a]
      BY <2>1, <2>3 DEF size
    <3>3. p.partials[other].first # p.outputs[a].first
      BY <1>1, <2>3, <3>1, <3>2 DEF OnceInv
    <3> QED
      BY <3>1, <3>2, <3>3
  <2> QED
    BY <2>2, <2>3 DEF OnceInv
<1>18. BrokenInv(q)
  <2>1. q.broken[id] = size + 1 /\ ~q.outputs[size + 1].complete
    BY <1>10, <1>11, <1>12, <1>13
  <2>2. ASSUME NEW other \in Ids, other # id, q.broken[other] # 0
        PROVE  q.broken[other] \in 1 .. Len(q.outputs) /\ ~q.outputs[q.broken[other]].complete
    <3>1. p.broken[other] \in 1 .. size /\ ~p.outputs[p.broken[other]].complete
      BY <1>1, <1>14, <2>2 DEF BrokenInv, size
    <3>2. q.broken[other] = p.broken[other]
      BY <1>14, <2>2
    <3>3. \A o \in 1 .. size : o \in 1 .. Len(q.outputs) /\ q.outputs[o] = p.outputs[o]
      BY <1>12
    <3> QED
      BY <3>1, <3>2, <3>3
  <2> QED
    BY <1>12, <2>1, <2>2 DEF BrokenInv
<1>19. ASSUME NEW i \in p.start .. n - 1, StartsAt(rows, i) PROVE Seen(rows, q, i)
  <2>1. Seen(rows, p, i)
    BY <1>19 DEF PageInv
  <2>2. rows[i].id \in Ids
    BY <1>19, RowFacts DEF StartsAt
  <2>3. CASE partial.first = i
    BY <1>3, <1>8, <1>12, <1>13, <2>3 DEF Seen
  <2>4. CASE partial.first # i
    <3>1. CASE \E o \in 1 .. size :
                  /\ p.outputs[o].first = i
                  /\ p.outputs[o].complete \/ Broken(rows, i, p.outputs[o].last)
      <4>1. PICK o \in 1 .. size :
                  /\ p.outputs[o].first = i
                  /\ p.outputs[o].complete \/ Broken(rows, i, p.outputs[o].last)
        BY <3>1
      <4>2. o \in 1 .. Len(q.outputs) /\ q.outputs[o] = p.outputs[o]
        BY <1>12
      <4> QED
        BY <4>1, <4>2 DEF Seen
    <3>2. CASE p.partials[rows[i].id] # None /\ p.partials[rows[i].id].first = i
      <4>1. rows[i].id # id
        BY <2>4, <3>2
      <4> QED
        BY <1>14, <2>2, <3>2, <4>1 DEF Seen
    <3> QED
      BY <2>1, <3>1, <3>2 DEF Seen, size
  <2> QED
    BY <2>3, <2>4
<1> QED
  BY <1>1, <1>12, <1>14, <1>15, <1>16, <1>17, <1>18, <1>19 DEF MidInv, q, m

\* The fields of a page after some of them changed.
LEMMA PartialsChanged ==
    ASSUME NEW p \in Page, NEW id \in Ids, NEW partial \in Partial \cup {None}
    PROVE  /\ [p EXCEPT !.partials[id] = partial] \in Page
           /\ [p EXCEPT !.partials[id] = partial].partials = [p.partials EXCEPT ![id] = partial]
           /\ [p EXCEPT !.partials[id] = partial].start = p.start
           /\ [p EXCEPT !.partials[id] = partial].broken = p.broken
           /\ [p EXCEPT !.partials[id] = partial].outputs = p.outputs
<1> DEFINE partials == [p.partials EXCEPT ![id] = partial]
           q == [p EXCEPT !.partials[id] = partial]
<1>1. partials \in [Ids -> Partial \cup {None}]
  BY DEF Page
<1>2. q = [p EXCEPT !.partials = partials]
  BY DEF Page
<1> HIDE DEF partials, q
<1>3. /\ q \in Page /\ q.outputs = p.outputs /\ q.broken = p.broken /\ q.start = p.start
      /\ q.partials = partials
  BY <1>1, <1>2 DEF Page
<1> QED
  BY <1>3 DEF partials, q

LEMMA BrokenChanged ==
    ASSUME NEW p \in Page, NEW id \in Ids
    PROVE  /\ [p EXCEPT !.broken[id] = 0] \in Page
           /\ [p EXCEPT !.broken[id] = 0].broken = [p.broken EXCEPT ![id] = 0]
           /\ [p EXCEPT !.broken[id] = 0].start = p.start
           /\ [p EXCEPT !.broken[id] = 0].partials = p.partials
           /\ [p EXCEPT !.broken[id] = 0].outputs = p.outputs
<1> DEFINE broken == [p.broken EXCEPT ![id] = 0]
           q == [p EXCEPT !.broken[id] = 0]
<1>1. broken \in [Ids -> Nat]
  BY DEF Page
<1>2. q = [p EXCEPT !.broken = broken]
  BY DEF Page
<1> HIDE DEF broken, q
<1>3. /\ q \in Page /\ q.outputs = p.outputs /\ q.partials = p.partials /\ q.start = p.start
      /\ q.broken = broken
  BY <1>1, <1>2 DEF Page
<1> QED
  BY <1>3 DEF broken, q

\* A page before it returns the transaction of its rows from..n.
ReadyInv(m, from, n) ==
    /\ m \in Page /\ n \in Nat /\ from \in Nat /\ m.start >= 1
    /\ Done(rows, from, n) /\ m.start <= from /\ rows[n].id \in Ids
    /\ \A id \in Ids : /\ PartialInv(rows, m, n + 1, id)
                       /\ m.partials[id] # None => m.partials[id].first # from
    /\ \A o \in 1 .. Len(m.outputs) :
        OutputInv(rows, m, n + 1, o) /\ (m.outputs[o].complete => m.outputs[o].first # from)
    /\ OnceInv(m) /\ BrokenInv(m)
    /\ \A i \in m.start .. n : StartsAt(rows, i) /\ i # from => Seen(rows, m, i)

\* A transaction that is complete.
LEMMA CompletedKeeps ==
    ASSUME RowsInv(rows), NEW m, NEW from, NEW n, ReadyInv(m, from, n)
    PROVE  PageInv(rows, Completed(m, from, n), n + 1)
<1> DEFINE q == Completed(m, from, n)
           size == Len(m.outputs)
           output == [first |-> from, last |-> n, id |-> rows[n].id, complete |-> TRUE]
<1>1. /\ m \in Page /\ n \in Nat /\ from \in Nat /\ m.start >= 1 /\ m.start \in Nat
      /\ Done(rows, from, n) /\ m.start <= from /\ rows[n].id \in Ids
      /\ OnceInv(m) /\ BrokenInv(m)
  BY PageFacts DEF ReadyInv
<1>2. /\ from <= n /\ n \in 1 .. Len(rows) /\ Len(rows) \in Nat /\ rows[n].id = rows[from].id
      /\ n + 1 \in m.start .. Len(rows) + 1 /\ (n + 1) - 1 = n
  BY <1>1 DEF Done, StartsAt, RowsInv
<1>3. Completes(m, q, from, n, rows[n].id)
  BY <1>1, CompletedFacts
<1>4. q.partials = m.partials /\ q.broken = m.broken /\ Appends(m, q, output)
  BY <1>3 DEF Completes
<1> HIDE DEF q
<1>5. /\ q \in Page /\ q.start = m.start
      /\ \A o \in 1 .. Len(q.outputs) :
            \/ o \in 1 .. size /\ q.outputs[o] = m.outputs[o]
            \/ o = size + 1 /\ q.outputs[o] = output
      /\ \A o \in 1 .. size : o \in 1 .. Len(q.outputs) /\ q.outputs[o] = m.outputs[o]
      /\ size + 1 \in 1 .. Len(q.outputs) /\ q.outputs[size + 1] = output
  BY <1>1, <1>4, AppendsFacts
<1>6. /\ output.first = from /\ output.last = n /\ output.complete = TRUE
      /\ output.id = rows[from].id
  BY <1>2
<1> HIDE DEF output, size
<1>7. \A id \in Ids : PartialInv(rows, q, n + 1, id)
  <2>1. ASSUME NEW id \in Ids PROVE PartialInv(rows, q, n + 1, id)
    <3>1. PartialInv(rows, m, n + 1, id)
      BY DEF ReadyInv
    <3> QED
      BY <1>4, <1>5, <3>1 DEF PartialInv
  <2> QED
    BY <2>1
<1>8. \A o \in 1 .. Len(q.outputs) : OutputInv(rows, q, n + 1, o)
  <2>1. \A o \in 1 .. Len(m.outputs) : OutputInv(rows, m, n + 1, o)
    BY DEF ReadyInv
  <2>2. /\ m.start <= output.first /\ output.first <= output.last /\ output.last < n + 1
        /\ Done(rows, output.first, output.last) /\ output.id = rows[output.first].id
    BY <1>1, <1>2, <1>6
  <2> QED
    BY <1>1, <1>4, <2>1, <2>2, AppendsOutputs
<1>9. OnceInv(q)
  <2>1. ASSUME NEW a \in 1 .. Len(q.outputs), q.outputs[a].complete,
               NEW b \in 1 .. Len(q.outputs), q.outputs[b].complete,
               q.outputs[a].first = q.outputs[b].first
        PROVE  a = b
    <3>1. CASE a \in 1 .. size /\ b \in 1 .. size
      BY <1>1, <1>5, <2>1, <3>1 DEF OnceInv, size
    <3>2. CASE a = size + 1 /\ b = size + 1
      BY <3>2
    <3>3. CASE a = size + 1 /\ b \in 1 .. size
      <4>1. m.outputs[b].complete /\ m.outputs[b].first = from
        BY <1>5, <1>6, <2>1, <3>3
      <4> QED
        BY <3>3, <4>1 DEF ReadyInv, size
    <3>4. CASE a \in 1 .. size /\ b = size + 1
      <4>1. m.outputs[a].complete /\ m.outputs[a].first = from
        BY <1>5, <1>6, <2>1, <3>4
      <4> QED
        BY <3>4, <4>1 DEF ReadyInv, size
    <3> QED
      BY <1>5, <3>1, <3>2, <3>3, <3>4
  <2>2. ASSUME NEW a \in 1 .. Len(q.outputs), q.outputs[a].complete,
               NEW id \in Ids, q.partials[id] # None
        PROVE  q.partials[id].first # q.outputs[a].first
    <3>1. CASE a \in 1 .. size /\ q.outputs[a] = m.outputs[a]
      BY <1>1, <1>4, <2>2, <3>1 DEF OnceInv, size
    <3>2. CASE q.outputs[a] = output
      BY <1>4, <1>6, <2>2, <3>2 DEF ReadyInv
    <3> QED
      BY <1>5, <3>1, <3>2
  <2> QED
    BY <2>1, <2>2 DEF OnceInv
<1>10. BrokenInv(q)
  <2>1. ASSUME NEW id \in Ids, q.broken[id] # 0
        PROVE  q.broken[id] \in 1 .. Len(q.outputs) /\ ~q.outputs[q.broken[id]].complete
    <3>1. q.broken[id] \in 1 .. size /\ ~m.outputs[q.broken[id]].complete
      BY <1>1, <1>4, <2>1 DEF BrokenInv, size
    <3> QED
      BY <1>5, <3>1
  <2> QED
    BY <2>1 DEF BrokenInv
<1>11. ASSUME NEW i \in m.start .. n, StartsAt(rows, i) PROVE Seen(rows, q, i)
  <2>1. CASE i = from
    BY <1>5, <1>6, <2>1 DEF Seen
  <2>2. CASE i # from
    <3>1. Seen(rows, m, i)
      BY <1>11, <2>2 DEF ReadyInv
    <3> QED
      BY <1>4, <1>5, <3>1 DEF Seen, size
  <2> QED
    BY <2>1, <2>2
<1> QED
  BY <1>1, <1>2, <1>5, <1>7, <1>8, <1>9, <1>10, <1>11 DEF PageInv, q

\* A transaction of one chunk.
LEMMA SingleKeeps ==
    ASSUME RowsInv(rows), NEW p, NEW n, MidInv(rows, p, n), rows[n].chunk = 1, rows[n].total = 1
    PROVE  PageInv(rows, Completed([p EXCEPT !.broken[rows[n].id] = 0], n, n), n + 1)
<1> DEFINE id == rows[n].id
           m == [p EXCEPT !.broken[id] = 0]
<1>1. /\ p \in Page /\ n \in Nat /\ n \in 1 .. Len(rows) /\ n >= 1 /\ Len(rows) \in Nat
      /\ p.start \in Nat /\ p.start <= n /\ p.start >= 1 /\ (n + 1) - 1 = n
      /\ \A i \in p.start .. n : i = n \/ i \in p.start .. n - 1
  BY MidNumbers
<1>2. id \in Ids /\ OnceInv(p) /\ BrokenInv(p) /\ p.partials[id] = None
  BY DEF MidInv
<1>3. /\ m \in Page /\ m.broken = [p.broken EXCEPT ![id] = 0] /\ m.start = p.start
      /\ m.partials = p.partials /\ m.outputs = p.outputs
  <2> HIDE DEF id
  <2> QED
    BY <1>1, <1>2, BrokenChanged
<1>4. p.broken \in [Ids -> Nat]
  BY <1>1 DEF Page
<1> HIDE DEF m
<1>5. Done(rows, n, n)
  <2>1. After(rows, n, n) = {} /\ Count(rows, n, n) = 0
    <3>1. n <= n
      BY <1>1
    <3> QED
      BY <1>1, <3>1, CountFacts, Zenon
  <2>2. StartsAt(rows, n)
    BY <1>1, <1>2 DEF StartsAt
  <2> QED
    BY <1>1, <2>1, <2>2 DEF Done, InOrder
<1>6. ASSUME NEW other \in Ids
      PROVE  /\ PartialInv(rows, m, n + 1, other)
             /\ m.partials[other] # None => m.partials[other].first # n
  <2>1. PartialInv(rows, p, n + 1, other)
    BY DEF MidInv
  <2>2. m.broken[other] = 0 \/ m.broken[other] = p.broken[other]
    BY <1>3, <1>4
  <2>3. PartialInv(rows, m, n + 1, other)
    BY <1>3, <2>1, <2>2 DEF PartialInv
  <2>4. m.partials[other] # None => m.partials[other].first # n
    BY <1>2, <1>3, <2>1 DEF PartialInv
  <2> QED
    BY <2>3, <2>4
<1>7. ASSUME NEW o \in 1 .. Len(m.outputs)
      PROVE  OutputInv(rows, m, n + 1, o) /\ (m.outputs[o].complete => m.outputs[o].first # n)
  <2>1. OutputInv(rows, p, n + 1, o) /\ p.outputs[o].first < n
    BY <1>3 DEF MidInv
  <2> QED
    BY <1>1, <1>3, <2>1 DEF OutputInv
<1>8. OnceInv(m) /\ BrokenInv(m)
  <2>1. BrokenInv(m)
    BY <1>2, <1>3, <1>4 DEF BrokenInv
  <2>2. OnceInv(m)
    BY <1>2, <1>3 DEF OnceInv
  <2> QED
    BY <2>1, <2>2
<1>9. ASSUME NEW i \in m.start .. n, StartsAt(rows, i), i # n PROVE Seen(rows, m, i)
  <2>1. Seen(rows, p, i)
    BY <1>1, <1>3, <1>9 DEF MidInv
  <2> QED
    BY <1>3, <2>1 DEF Seen
<1>10. ReadyInv(m, n, n)
  BY <1>1, <1>2, <1>3, <1>5, <1>6, <1>7, <1>8, <1>9 DEF ReadyInv
<1> QED
  BY <1>10, CompletedKeeps DEF m

\* The first chunk of several.
Begun(p, n) == [p EXCEPT !.broken[rows[n].id] = 0,
                         !.partials[rows[n].id] = [first |-> n, total |-> rows[n].total,
                                                   next_chunk |-> 2,
                                                   last_version |-> rows[n].version]]

LEMMA FirstKeeps ==
    ASSUME RowsInv(rows), NEW p, NEW n, MidInv(rows, p, n), rows[n].chunk = 1, rows[n].total > 1
    PROVE  PageInv(rows, Begun(p, n), n + 1)
<1> DEFINE id == rows[n].id
           partial == [first |-> n, total |-> rows[n].total, next_chunk |-> 2,
                       last_version |-> rows[n].version]
           m == [p EXCEPT !.broken[id] = 0]
           q == [p EXCEPT !.broken[id] = 0, !.partials[id] = partial]
<1>1. /\ p \in Page /\ n \in Nat /\ n \in 1 .. Len(rows) /\ n >= 1 /\ Len(rows) \in Nat
      /\ p.start \in Nat /\ p.start <= n /\ p.start >= 1 /\ (n + 1) - 1 = n
      /\ n + 1 \in p.start .. Len(rows) + 1
      /\ \A i \in p.start .. n : i = n \/ i \in p.start .. n - 1
  BY MidNumbers
<1>2. id \in Ids /\ OnceInv(p) /\ BrokenInv(p) /\ p.partials[id] = None
  BY DEF MidInv
<1>3. /\ m \in Page /\ m.broken = [p.broken EXCEPT ![id] = 0] /\ m.start = p.start
      /\ m.partials = p.partials /\ m.outputs = p.outputs
  <2> HIDE DEF id
  <2> QED
    BY <1>1, <1>2, BrokenChanged
<1>4. /\ partial \in Partial /\ partial.first = n /\ partial.total = rows[n].total
      /\ partial.next_chunk = 2 /\ partial.last_version = rows[n].version /\ partial # None
  <2>1. rows[n].total \in Nat /\ rows[n].version \in Nat
    BY <1>1, <1>2, RowFacts
  <2> QED
    BY <1>1, <2>1 DEF Partial
<1>5. q = [m EXCEPT !.partials[id] = partial]
  <2> HIDE DEF partial, id
  <2> QED
    BY <1>1 DEF Page
<1> HIDE DEF m, q
<1>6. /\ q \in Page /\ q.broken = [p.broken EXCEPT ![id] = 0] /\ q.start = p.start
      /\ q.partials = [p.partials EXCEPT ![id] = partial] /\ q.outputs = p.outputs
  <2>1. partial \in Partial \cup {None}
    BY <1>4
  <2> HIDE DEF partial, id
  <2> QED
    BY <1>2, <1>3, <1>5, <2>1, PartialsChanged
<1>7. p.broken \in [Ids -> Nat] /\ p.partials \in [Ids -> Partial \cup {None}]
  BY <1>1 DEF Page
<1>8. q.partials[id] = partial /\ q.broken[id] = 0
      /\ \A other \in Ids : other # id => q.partials[other] = p.partials[other]
                                          /\ q.broken[other] = p.broken[other]
  BY <1>2, <1>6, <1>7
<1>9. StartsAt(rows, n)
  BY <1>1, <1>2 DEF StartsAt
<1> HIDE DEF partial
<1>10. ASSUME NEW other \in Ids PROVE PartialInv(rows, q, n + 1, other)
  <2>1. CASE other = id
    <3>1. After(rows, n, n) = {} /\ Count(rows, n, n) = 0
      <4>1. n <= n
        BY <1>1
      <4> QED
        BY <1>1, <4>1, CountFacts, Zenon
    <3>2. InOrder(rows, n, n) /\ n \in 1 .. n /\ n < n + 1
      BY <1>1, <3>1 DEF InOrder
    <3>3. /\ StartsAt(rows, partial.first) /\ rows[partial.first].id = id
          /\ p.start <= partial.first /\ partial.first < n + 1
          /\ partial.total = rows[partial.first].total
          /\ partial.next_chunk = Count(rows, partial.first, (n + 1) - 1) + 2
          /\ InOrder(rows, partial.first, (n + 1) - 1)
      BY <1>1, <1>4, <1>9, <3>1, <3>2
    <3>4. partial.next_chunk <= partial.total
      <4>1. rows[n].total \in Nat
        BY <1>1, <1>2, RowFacts
      <4> QED
        BY <1>4, <4>1
    <3>5. \E j \in 1 .. (n + 1) - 1 : partial.last_version = rows[j].version
      BY <1>1, <1>4, <3>2
    <3> QED
      BY <1>6, <1>8, <2>1, <3>3, <3>4, <3>5 DEF PartialInv
  <2>2. CASE other # id
    <3>1. PartialInv(rows, p, n + 1, other)
      BY DEF MidInv
    <3> QED
      BY <1>6, <1>8, <2>2, <3>1 DEF PartialInv
  <2> QED
    BY <2>1, <2>2
<1>11. ASSUME NEW o \in 1 .. Len(q.outputs) PROVE OutputInv(rows, q, n + 1, o)
  <2>1. OutputInv(rows, p, n + 1, o)
    BY <1>6 DEF MidInv
  <2> QED
    BY <1>6, <2>1 DEF OutputInv
<1>12. OnceInv(q)
  <2>1. ASSUME NEW a \in 1 .. Len(p.outputs), p.outputs[a].complete,
               NEW other \in Ids, q.partials[other] # None
        PROVE  q.partials[other].first # p.outputs[a].first
    <3>1. CASE other = id
      <4>1. p.outputs[a].first < n /\ p.outputs[a].first \in Nat
        BY <1>1, PageFacts DEF MidInv
      <4> QED
        BY <1>1, <1>4, <1>8, <3>1, <4>1
    <3>2. CASE other # id
      BY <1>2, <1>8, <2>1, <3>2 DEF OnceInv
    <3> QED
      BY <3>1, <3>2
  <2> QED
    BY <1>2, <1>6, <2>1 DEF OnceInv
<1>13. BrokenInv(q)
  BY <1>2, <1>6, <1>8 DEF BrokenInv
<1>14. ASSUME NEW i \in p.start .. n, StartsAt(rows, i) PROVE Seen(rows, q, i)
  <2>1. CASE i = n
    BY <1>4, <1>8, <2>1 DEF Seen
  <2>2. CASE i # n
    <3>1. Seen(rows, p, i)
      BY <1>1, <1>14, <2>2 DEF MidInv
    <3>2. rows[i].id \in Ids
      BY <1>1, <1>14, RowFacts DEF StartsAt
    <3>3. p.partials[rows[i].id] # None => rows[i].id # id
      BY <1>2
    <3> QED
      BY <1>6, <1>8, <3>1, <3>2, <3>3 DEF Seen
  <2> QED
    BY <2>1, <2>2
<1> QED
  BY <1>1, <1>6, <1>10, <1>11, <1>12, <1>13, <1>14 DEF PageInv, q, partial, Begun

\* The next chunk of a pending transaction.
GoesOn(p, n, f) ==
    LET partial == p.partials[rows[n].id]
    IN /\ partial # None /\ f = partial.first /\ f \in Nat /\ f < n /\ p.start <= f
       /\ StartsAt(rows, f) /\ rows[f].id = rows[n].id /\ ~StartsAt(rows, n)
       /\ Count(rows, f, n) = rows[n].chunk - 1 /\ InOrder(rows, f, n)
       /\ rows[n].chunk = partial.next_chunk /\ rows[n].chunk \in Nat
       /\ partial.total = rows[f].total /\ partial.total \in Nat
       /\ partial.next_chunk <= partial.total

LEMMA ContinuesFacts ==
    ASSUME RowsInv(rows), NEW p, NEW n \in 1 .. Len(rows), PageInv(rows, p, n),
           rows[n].id \in Ids, Continues(p.partials[rows[n].id], n)
    PROVE  \E f : GoesOn(p, n, f)
<1> DEFINE id == rows[n].id
           partial == p.partials[id]
<1>1. p \in Page /\ n \in Nat /\ n >= 1 /\ Len(rows) \in Nat
  BY DEF PageInv, RowsInv
<1>2. PartialInv(rows, p, n, id)
  BY DEF PageInv
<1>3. partial # None /\ rows[n].chunk = partial.next_chunk
  BY DEF Continues
<1>4. PICK f \in Nat : f = partial.first
  BY <1>1, <1>3, PageFacts
<1>5. /\ StartsAt(rows, f) /\ rows[f].id = id /\ p.start <= f /\ f < n
      /\ partial.total = rows[f].total
      /\ partial.next_chunk = Count(rows, f, n - 1) + 2
      /\ partial.next_chunk <= partial.total /\ InOrder(rows, f, n - 1)
  BY <1>2, <1>3, <1>4 DEF PartialInv
<1>6. rows[n].chunk \in Nat /\ partial.total \in Nat
  BY <1>1, <1>3, PageFacts
<1>7. n - 1 \in Nat /\ (n - 1) + 1 = n /\ n - 1 >= f
  BY <1>1, <1>5
<1>8. After(rows, f, n) = After(rows, f, n - 1) \cup {n}
  BY <1>5, <1>7, CountStep
<1>9. Count(rows, f, n) = Count(rows, f, n - 1) + 1
  BY <1>5, <1>7, CountStep
<1>10. Count(rows, f, n - 1) \in Nat
  BY <1>7, CountFacts
<1>11. Count(rows, f, n) = rows[n].chunk - 1 /\ rows[n].chunk = Count(rows, f, n) + 1
       /\ rows[n].chunk # 1
  BY <1>3, <1>5, <1>9, <1>10
<1>12. InOrder(rows, f, n)
  BY <1>5, <1>8, <1>11 DEF InOrder
<1>13. ~StartsAt(rows, n)
  BY <1>11 DEF StartsAt
<1> QED
  BY <1>3, <1>4, <1>5, <1>6, <1>11, <1>12, <1>13 DEF GoesOn

\* ... when it is its last.
LEMMA LastKeeps ==
    ASSUME RowsInv(rows), NEW p, NEW n \in 1 .. Len(rows), PageInv(rows, p, n),
           rows[n].id \in Ids, Continues(p.partials[rows[n].id], n),
           rows[n].chunk = p.partials[rows[n].id].total
    PROVE  PageInv(rows, Completed([p EXCEPT !.partials[rows[n].id] = None],
                                   p.partials[rows[n].id].first, n), n + 1)
<1> DEFINE id == rows[n].id
           m == [p EXCEPT !.partials[id] = None]
<1>1. /\ p \in Page /\ n \in Nat /\ n >= 1 /\ Len(rows) \in Nat /\ n <= Len(rows)
      /\ n \in p.start .. Len(rows) /\ p.start >= 1 /\ p.start \in Nat
      /\ OnceInv(p) /\ BrokenInv(p)
  BY PageFacts DEF PageInv, RowsInv
<1>2. PICK f : GoesOn(p, n, f)
  BY ContinuesFacts
<1>3. /\ p.partials[id] # None /\ f = p.partials[id].first /\ f \in Nat /\ f < n /\ p.start <= f
      /\ StartsAt(rows, f) /\ rows[f].id = id /\ ~StartsAt(rows, n)
      /\ Count(rows, f, n) = rows[f].total - 1 /\ InOrder(rows, f, n)
  BY <1>2 DEF GoesOn
<1>4. Done(rows, f, n)
  BY <1>1, <1>3 DEF Done
<1>5. /\ m \in Page /\ m.outputs = p.outputs /\ m.broken = p.broken /\ m.start = p.start
      /\ m.partials = [p.partials EXCEPT ![id] = None]
  <2> HIDE DEF id
  <2>1. id \in Ids
    BY DEF id
  <2> QED
    BY <1>1, <2>1, PartialsChanged
<1>6. p.partials \in [Ids -> Partial \cup {None}]
  BY <1>1 DEF Page
<1> HIDE DEF m
<1>7. m.partials[id] = None /\ \A other \in Ids : other # id => m.partials[other] = p.partials[other]
  BY <1>5, <1>6
<1>8. ASSUME NEW other \in Ids
      PROVE  /\ PartialInv(rows, m, n + 1, other)
             /\ m.partials[other] # None => m.partials[other].first # f
  <2>1. PartialInv(rows, p, n, other)
    BY DEF PageInv
  <2>2. PartialInv(rows, m, n, other)
    BY <1>5, <1>7, <2>1 DEF PartialInv
  <2>3. PartialInv(rows, m, n + 1, other)
    BY <1>5, <1>7, <2>2, PartialSkips
  <2>4. m.partials[other] # None => m.partials[other].first # f
    BY <1>3, <1>7, <2>2 DEF PartialInv
  <2> QED
    BY <2>3, <2>4
<1>9. ASSUME NEW o \in 1 .. Len(m.outputs)
      PROVE  OutputInv(rows, m, n + 1, o) /\ (m.outputs[o].complete => m.outputs[o].first # f)
  <2>1. OutputInv(rows, p, n, o) /\ p.outputs[o].last \in Nat
    BY <1>1, <1>5, PageFacts DEF PageInv
  <2>2. p.outputs[o].last < n => p.outputs[o].last < n + 1
    BY <1>1, <2>1
  <2>3. p.outputs[o].complete => p.outputs[o].first # f
    BY <1>1, <1>3, <1>5 DEF OnceInv
  <2> QED
    BY <1>5, <2>1, <2>2, <2>3 DEF OutputInv
<1>10. BrokenInv(m)
  BY <1>1, <1>5 DEF BrokenInv
<1>11. OnceInv(m)
  BY <1>1, <1>5, <1>7 DEF OnceInv
<1>12. ASSUME NEW i \in m.start .. n, StartsAt(rows, i), i # f PROVE Seen(rows, m, i)
  <2>1. i # n /\ i \in p.start .. n - 1
    BY <1>1, <1>3, <1>5, <1>12
  <2>2. Seen(rows, p, i) /\ rows[i].id \in Ids
    BY <1>12, <2>1, RowFacts DEF PageInv, StartsAt
  <2>3. p.partials[rows[i].id].first = i => rows[i].id # id
    BY <1>3, <1>12
  <2> QED
    BY <1>5, <1>7, <2>2, <2>3 DEF Seen
<1>13. ReadyInv(m, f, n)
  BY <1>1, <1>3, <1>4, <1>5, <1>8, <1>9, <1>10, <1>11, <1>12 DEF ReadyInv
<1>14. PageInv(rows, Completed(m, f, n), n + 1)
  BY <1>13, CompletedKeeps
<1> QED
  BY <1>3, <1>14 DEF m

\* ... and when it is not.
GoneOn(p, n) == [p EXCEPT !.partials[rows[n].id].next_chunk = @ + 1,
                          !.partials[rows[n].id].last_version = rows[n].version]

LEMMA NextKeeps ==
    ASSUME RowsInv(rows), NEW p, NEW n \in 1 .. Len(rows), PageInv(rows, p, n),
           rows[n].id \in Ids, Continues(p.partials[rows[n].id], n),
           rows[n].chunk # p.partials[rows[n].id].total
    PROVE  PageInv(rows, GoneOn(p, n), n + 1)
<1> DEFINE id == rows[n].id
           partial == p.partials[id]
           more == [partial EXCEPT !.next_chunk = @ + 1, !.last_version = rows[n].version]
           q == [p EXCEPT !.partials[id].next_chunk = @ + 1, !.partials[id].last_version = rows[n].version]
<1>1. /\ p \in Page /\ n \in Nat /\ n >= 1 /\ Len(rows) \in Nat /\ n <= Len(rows)
      /\ n \in p.start .. Len(rows) /\ p.start >= 1 /\ p.start \in Nat
      /\ OnceInv(p) /\ BrokenInv(p) /\ (n + 1) - 1 = n
  BY PageFacts DEF PageInv, RowsInv
<1>2. PICK f : GoesOn(p, n, f)
  BY ContinuesFacts
<1>3. /\ partial # None /\ f = partial.first /\ f \in Nat /\ f < n /\ p.start <= f
      /\ StartsAt(rows, f) /\ rows[f].id = id /\ ~StartsAt(rows, n)
      /\ Count(rows, f, n) = rows[n].chunk - 1 /\ InOrder(rows, f, n)
      /\ rows[n].chunk = partial.next_chunk /\ rows[n].chunk \in Nat
      /\ partial.total = rows[f].total /\ partial.total \in Nat
      /\ partial.next_chunk <= partial.total
  BY <1>2 DEF GoesOn
<1>4. PartialInv(rows, p, n, id) /\ id \in Ids
  BY DEF PageInv
<1>5. p.partials \in [Ids -> Partial \cup {None}] /\ partial \in Partial /\ rows[n].version \in Nat
  BY <1>1, <1>3, <1>4, RowFacts DEF Page
<1>6. /\ more \in Partial /\ more.first = f /\ more.total = partial.total
      /\ more.next_chunk = partial.next_chunk + 1 /\ more.last_version = rows[n].version
      /\ more # None
  <2> DEFINE version == rows[n].version
  <2> HIDE DEF partial, version
  <2>1. more = [partial EXCEPT !.next_chunk = @ + 1, !.last_version = version]
    BY DEF version
  <2> HIDE DEF more
  <2>2. version \in Nat
    BY <1>5 DEF version
  <2>3. more \in Partial
    <3>1. partial.next_chunk + 1 \in Nat
      BY <1>5 DEF Partial
    <3> DEFINE chunk == partial.next_chunk + 1
    <3>2. more = [partial EXCEPT !.next_chunk = chunk, !.last_version = version]
      BY <2>1
    <3> HIDE DEF chunk
    <3> QED
      BY <1>5, <2>2, <3>1, <3>2 DEF Partial, chunk
  <2>4. /\ more.first = partial.first /\ more.total = partial.total
        /\ more.next_chunk = partial.next_chunk + 1 /\ more.last_version = version
    BY <1>5, <2>1 DEF Partial
  <2> QED
    BY <1>3, <2>3, <2>4 DEF version
<1>7. q = [p EXCEPT !.partials[id] = more]
  <2> HIDE DEF id
  <2> QED
    BY <1>1, <1>4, <1>5 DEF Page, Partial
<1> HIDE DEF q, more
<1>8. /\ q \in Page /\ q.broken = p.broken /\ q.start = p.start /\ q.outputs = p.outputs
      /\ q.partials = [p.partials EXCEPT ![id] = more]
  <2>1. more \in Partial \cup {None}
    BY <1>6
  <2> HIDE DEF id
  <2> QED
    BY <1>1, <1>4, <1>7, <2>1, PartialsChanged
<1>9. q.partials[id] = more /\ \A other \in Ids : other # id => q.partials[other] = p.partials[other]
  BY <1>4, <1>5, <1>8
<1>10. ASSUME NEW other \in Ids PROVE PartialInv(rows, q, n + 1, other)
  <2>1. PartialInv(rows, p, n, other)
    BY DEF PageInv
  <2>2. CASE other = id
    <3>1. /\ StartsAt(rows, more.first) /\ rows[more.first].id = id
          /\ p.start <= more.first /\ more.first < n + 1
          /\ more.total = rows[more.first].total
      <4>1. f < n /\ f \in Nat => f < n + 1
        BY <1>1
      <4>2. more.first = f /\ more.total = rows[f].total
        BY <1>3, <1>6, Zenon
      <4> HIDE DEF partial, id
      <4> QED
        BY <1>3, <4>1, <4>2
    <3>2. more.next_chunk = Count(rows, more.first, n) + 2
      <4>1. more.first = f /\ more.next_chunk = rows[n].chunk + 1
        BY <1>3, <1>6, Zenon
      <4>2. Count(rows, f, n) = rows[n].chunk - 1 /\ rows[n].chunk \in Nat
        BY <1>3
      <4> HIDE DEF partial, id
      <4> QED
        BY <4>1, <4>2
    <3>3. more.next_chunk <= more.total
      <4>1. partial.next_chunk \in Nat /\ partial.total \in Nat /\ partial.next_chunk # partial.total
            /\ partial.next_chunk <= partial.total
        BY <1>3
      <4>2. more.next_chunk = partial.next_chunk + 1 /\ more.total = partial.total
        BY <1>6
      <4> QED
        BY <4>1, <4>2
    <3>4. InOrder(rows, more.first, n)
      BY <1>3, <1>6, Zenon
    <3>5. \E j \in 1 .. n : more.last_version = rows[j].version
      <4>1. n \in 1 .. n
        BY <1>1
      <4> QED
        BY <1>6, <4>1
    <3>6. p.broken[id] = 0
      BY <1>3, <1>4 DEF PartialInv
    <3> QED
      BY <1>1, <1>8, <1>9, <2>2, <3>1, <3>2, <3>3, <3>4, <3>5, <3>6 DEF PartialInv
  <2>3. CASE other # id
    <3>1. PartialInv(rows, q, n, other)
      BY <1>8, <1>9, <2>1, <2>3 DEF PartialInv
    <3> QED
      BY <1>8, <2>3, <3>1, PartialSkips
  <2> QED
    BY <2>2, <2>3
<1>11. ASSUME NEW o \in 1 .. Len(q.outputs) PROVE OutputInv(rows, q, n + 1, o)
  <2>1. OutputInv(rows, p, n, o) /\ p.outputs[o].last \in Nat
    BY <1>1, <1>8, PageFacts DEF PageInv
  <2>2. p.outputs[o].last < n => p.outputs[o].last < n + 1
    BY <1>1, <2>1
  <2> QED
    BY <1>8, <2>1, <2>2 DEF OutputInv
<1>12. OnceInv(q)
  <2>1. \A other \in Ids : q.partials[other] # None =>
            p.partials[other] # None /\ q.partials[other].first = p.partials[other].first
    BY <1>3, <1>6, <1>9
  <2>2. q.outputs = p.outputs
    BY <1>8
  <2> HIDE DEF partial, id
  <2>3. ASSUME NEW a \in 1 .. Len(p.outputs), p.outputs[a].complete
        PROVE  /\ \A b \in 1 .. Len(p.outputs) :
                    p.outputs[b].complete /\ p.outputs[a].first = p.outputs[b].first => a = b
               /\ \A other \in Ids : q.partials[other] # None =>
                    q.partials[other].first # p.outputs[a].first
    <3>1. \A other \in Ids : p.partials[other] # None =>
                p.partials[other].first # p.outputs[a].first
      BY <1>1, <2>3 DEF OnceInv
    <3>2. \A b \in 1 .. Len(p.outputs) :
                p.outputs[b].complete /\ p.outputs[a].first = p.outputs[b].first => a = b
      BY <1>1, <2>3 DEF OnceInv
    <3> QED
      BY <2>1, <3>1, <3>2
  <2> QED
    BY <2>2, <2>3 DEF OnceInv
<1>13. BrokenInv(q)
  BY <1>1, <1>8 DEF BrokenInv
<1>14. ASSUME NEW i \in p.start .. n, StartsAt(rows, i) PROVE Seen(rows, q, i)
  <2>1. i # n /\ i \in p.start .. n - 1
    <3>1. ~StartsAt(rows, n)
      BY <1>3
    <3> HIDE DEF partial, id
    <3> QED
      BY <1>1, <1>14, <3>1
  <2>2. Seen(rows, p, i) /\ rows[i].id \in Ids
    BY <1>1, <1>14, <2>1, RowFacts DEF PageInv, StartsAt
  <2>3. rows[i].id = id \/ q.partials[rows[i].id] = p.partials[rows[i].id]
    BY <1>9, <2>2
  <2>4. p.partials[rows[i].id] # None /\ p.partials[rows[i].id].first = i =>
            q.partials[rows[i].id] # None /\ q.partials[rows[i].id].first = i
    BY <1>3, <1>6, <1>9, <2>3
  <2>5. q.outputs = p.outputs
    BY <1>8
  <2> QED
    BY <2>2, <2>4, <2>5, Zenon DEF Seen
<1>15. PageInv(rows, q, n + 1)
  <2>1. q.start = p.start /\ q \in Page /\ n + 1 \in p.start .. Len(rows) + 1
    BY <1>1, <1>8
  <2> HIDE DEF partial, id
  <2> QED
    BY <1>1, <1>10, <1>11, <1>12, <1>13, <1>14, <2>1 DEF PageInv
<1> QED
  BY <1>15 DEF q, GoneOn

\* A row that is no chunk.
LEMMA IgnoredKeeps ==
    ASSUME RowsInv(rows), NEW p, NEW n \in 1 .. Len(rows), PageInv(rows, p, n), rows[n].id = None
    PROVE  PageInv(rows, p, n + 1)
<1>1. /\ p \in Page /\ n \in Nat /\ Len(rows) \in Nat /\ n <= Len(rows) /\ p.start \in Nat
      /\ n \in p.start .. Len(rows) /\ p.start >= 1 /\ OnceInv(p) /\ BrokenInv(p)
      /\ n + 1 \in p.start .. Len(rows) + 1 /\ (n + 1) - 1 = n
      /\ \A i \in p.start .. n : i = n \/ i \in p.start .. n - 1
  BY PageFacts DEF PageInv, RowsInv
<1>2. ASSUME NEW id \in Ids PROVE PartialInv(rows, p, n + 1, id)
  <2>1. PartialInv(rows, p, n, id) /\ rows[n].id # id
    BY DEF PageInv
  <2> QED
    BY <1>1, <2>1, PartialSkips
<1>3. ASSUME NEW o \in 1 .. Len(p.outputs) PROVE OutputInv(rows, p, n + 1, o)
  <2>1. OutputInv(rows, p, n, o) /\ p.outputs[o].last \in Nat
    BY <1>1, PageFacts DEF PageInv
  <2>2. p.outputs[o].last < n => p.outputs[o].last < n + 1
    BY <1>1, <2>1
  <2> QED
    BY <2>1, <2>2 DEF OutputInv
<1>4. \A i \in p.start .. n : StartsAt(rows, i) => Seen(rows, p, i)
  BY <1>1 DEF PageInv, StartsAt
<1> QED
  BY <1>1, <1>2, <1>3, <1>4 DEF PageInv

\* A chunk of an id that has nothing pending.
LEMMA NothingPending ==
    ASSUME RowsInv(rows), NEW p, NEW n \in 1 .. Len(rows), PageInv(rows, p, n),
           rows[n].id \in Ids, p.partials[rows[n].id] = None
    PROVE  MidInv(rows, p, n)
<1>1. /\ p \in Page /\ n \in Nat /\ Len(rows) \in Nat /\ n <= Len(rows) /\ p.start \in Nat
      /\ n \in p.start .. Len(rows) /\ p.start >= 1 /\ OnceInv(p) /\ BrokenInv(p)
  BY PageFacts DEF PageInv, RowsInv
<1>2. ASSUME NEW id \in Ids PROVE PartialInv(rows, p, n + 1, id)
  <2>1. PartialInv(rows, p, n, id)
    BY DEF PageInv
  <2>2. rows[n].id # id \/ p.partials[id] = None
    OBVIOUS
  <2> QED
    BY <1>1, <2>1, <2>2, PartialSkips
<1>3. ASSUME NEW o \in 1 .. Len(p.outputs)
      PROVE  OutputInv(rows, p, n + 1, o) /\ p.outputs[o].first < n
  <2>1. OutputInv(rows, p, n, o) /\ p.outputs[o].last \in Nat /\ p.outputs[o].first \in Nat
    BY <1>1, PageFacts DEF PageInv
  <2>2. /\ p.outputs[o].last < n => p.outputs[o].last < n + 1
        /\ p.outputs[o].first <= p.outputs[o].last /\ p.outputs[o].last < n => p.outputs[o].first < n
    BY <1>1, <2>1
  <2> QED
    BY <2>1, <2>2 DEF OutputInv
<1>4. \A i \in p.start .. n - 1 : StartsAt(rows, i) => Seen(rows, p, i)
  BY DEF PageInv
<1> QED
  BY <1>1, <1>2, <1>3, <1>4 DEF MidInv

\* process keeps the invariant of the page, and its range.
LEMMA ProcessKeeps ==
    ASSUME RowsInv(rows), NEW p, NEW n \in 1 .. Len(rows), PageInv(rows, p, n), rows[n].id \in Ids
    PROVE  PageInv(rows, Process(p, n), n + 1)
<1> DEFINE id == rows[n].id
           partial == p.partials[id]
<1>1. p \in Page /\ n \in Nat
  BY DEF PageInv
<1>2. CASE Continues(partial, n)
  <2>1. Process(p, n) = Extended(p, partial, n)
    BY <1>2 DEF Process
  <2>2. CASE rows[n].chunk = partial.total
    <3>1. Process(p, n) = Completed([p EXCEPT !.partials[id] = None], partial.first, n)
      BY <2>1, <2>2 DEF Extended
    <3> QED
      BY <1>2, <2>2, <3>1, LastKeeps
  <2>3. CASE rows[n].chunk # partial.total
    <3>1. Process(p, n) = GoneOn(p, n)
      BY <2>1, <2>3 DEF Extended, GoneOn
    <3> QED
      BY <1>2, <2>3, <3>1, NextKeeps
  <2> QED
    BY <2>2, <2>3
<1>3. CASE ~Continues(partial, n)
  <2> DEFINE m == IF partial = None THEN p
                  ELSE ReportBroken([p EXCEPT !.partials[id] = None], partial.first, id, n)
  <2>1. Process(p, n) = Started(m, n)
    BY <1>3 DEF Process
  <2>2. MidInv(rows, m, n)
    <3>1. CASE partial = None
      BY <3>1, NothingPending
    <3>2. CASE partial # None
      <4>1. m = ReportBroken([p EXCEPT !.partials[id] = None], partial.first, id, n)
        BY <3>2
      <4> HIDE DEF m
      <4> QED
        BY <1>3, <3>2, <4>1, InterruptedKeeps
    <3> QED
      BY <3>1, <3>2
  <2> HIDE DEF m
  <2>3. CASE rows[n].chunk = 1 /\ rows[n].total = 1
    <3>1. Started(m, n) = Completed([m EXCEPT !.broken[id] = 0], n, n)
      BY <2>3 DEF Started
    <3> QED
      BY <2>1, <2>2, <2>3, <3>1, SingleKeeps
  <2>4. CASE rows[n].chunk = 1 /\ rows[n].total > 1
    <3>1. rows[n].total # 1
      BY <2>4
    <3>2. Started(m, n) = Begun(m, n)
      BY <2>4, <3>1 DEF Started, Begun
    <3> QED
      BY <2>1, <2>2, <2>4, <3>2, FirstKeeps
  <2>5. CASE rows[n].chunk # 1
    <3>1. Started(m, n) = ReportBroken(m, n, id, n)
      BY <2>5 DEF Started
    <3> QED
      BY <2>1, <2>2, <2>5, <3>1, OrphanKeeps
  <2>6. rows[n].total \in Nat /\ rows[n].total >= 1
    BY RowFacts
  <2> QED
    BY <2>3, <2>4, <2>5, <2>6
<1> QED
  BY <1>2, <1>3

SameRange(p, q) == q.start = p.start /\ q.next = p.next /\ q.end = p.end

LEMMA ProcessRange ==
    ASSUME NEW p \in Page, NEW n
    PROVE  SameRange(p, Process(p, n))
<1> DEFINE Ranged(q) == /\ {"start", "next", "end", "partials", "broken", "outputs"} = DOMAIN q
                        /\ SameRange(p, q)
<1>1. Ranged(p)
  BY DEF Page, SameRange
<1>2. ASSUME NEW q, Ranged(q), NEW id
      PROVE  /\ \A v : Ranged([q EXCEPT !.partials[id] = v])
             /\ \A v : Ranged([q EXCEPT !.broken[id] = v])
             /\ \A v, w : Ranged([q EXCEPT !.broken[id] = v, !.partials[id] = w])
             /\ \A v, w : Ranged([q EXCEPT !.partials[id].next_chunk = @ + 1,
                                           !.partials[id].last_version = v])
             /\ \A key : Ranged(Completed(q, id, key))
             /\ \A from, key : Ranged(ReportBroken(q, from, id, key))
  BY <1>2 DEF SameRange, Completed, ReportBroken
<1> HIDE DEF Ranged
<1>3. ASSUME NEW q, Ranged(q) PROVE Ranged(Started(q, n))
  BY <1>2, <1>3 DEF Started
<1>4. \A partial : Ranged(Extended(p, partial, n))
  BY <1>1, <1>2 DEF Extended
<1>5. Ranged(Process(p, n))
  BY <1>1, <1>2, <1>3, <1>4 DEF Process
<1> QED
  BY <1>5 DEF Ranged

-----------------------------------------------------------------------------
(* The end of a page.                                                      *)

\* What finish returns of a page, and where the next one starts: nothing is on both
\* sides, and what is pending starts after, or is reported.
EndInv(p, end) ==
    /\ end.next \in p.start .. p.next
    /\ \A o \in 1 .. Len(p.outputs) : o \in end.dropped <=> p.outputs[o].last >= end.next
    /\ \A o \in 1 .. Len(p.outputs) : o \in end.dropped => p.outputs[o].first >= end.next
    /\ \A id \in Ids : p.partials[id] # None =>
        p.partials[id].first >= end.next \/ p.partials[id].first \in end.broken

\* The pending transaction that starts first.
LEMMA OldestFacts ==
    ASSUME NEW p \in Page, Pending(p) # {}
    PROVE  /\ \E id \in Ids : p.partials[id] # None /\ Oldest(p).first = p.partials[id].first
           /\ \A id \in Ids : p.partials[id] # None => Oldest(p).first <= p.partials[id].first
<1> DEFINE heads == {q.first : q \in Pending(p)}
<1>1. \A q \in Pending(p) : \E id \in Ids : p.partials[id] # None /\ q = p.partials[id]
  BY DEF Pending
<1>2. \A id \in Ids : p.partials[id] # None => p.partials[id] \in Pending(p)
  BY DEF Pending
<1>3. heads \subseteq Nat
  BY <1>1, PageFacts
<1>4. heads # {}
  OBVIOUS
<1>5. PICK m \in heads : \A n \in heads : m <= n
  <2> HIDE DEF heads
  <2> QED
    BY <1>3, <1>4, LeastNumber
<1>6. PICK q \in Pending(p) : q.first = m
  BY <1>5
<1>7. \A other \in Pending(p) : q.first <= other.first
  BY <1>5, <1>6
<1>8. Oldest(p) \in Pending(p) /\ \A other \in Pending(p) : Oldest(p).first <= other.first
  BY <1>7 DEF Oldest
<1> QED
  BY <1>1, <1>2, <1>8

\* finish, with or without pending transactions; a page that was stopped advances.
LEMMA ResumeFacts ==
    ASSUME NEW r, NEW p, PageInv(r, p, p.next), NEW stopped \in BOOLEAN
    PROVE  /\ EndInv(p, Resume(p, stopped))
           /\ stopped /\ p.next > p.start => Resume(p, stopped).next > p.start
<1> DEFINE end == Resume(p, stopped)
           from == Oldest(p).first
           oldest == Cut(p, from)
<1>1. /\ p \in Page /\ p.next \in Nat /\ p.start \in Nat /\ p.start <= p.next
      /\ Len(p.outputs) \in Nat
  BY PageFacts DEF PageInv
<1>2. ASSUME NEW o \in 1 .. Len(p.outputs)
      PROVE  /\ p.start <= p.outputs[o].first /\ p.outputs[o].first <= p.outputs[o].last
             /\ p.outputs[o].last < p.next
             /\ p.outputs[o].first \in Nat /\ p.outputs[o].last \in Nat
  BY <1>1, PageFacts DEF PageInv, OutputInv
<1>3. ASSUME NEW id \in Ids, p.partials[id] # None
      PROVE  p.start <= p.partials[id].first /\ p.partials[id].first < p.next
             /\ p.partials[id].first \in Nat
  <2>1. PartialInv(r, p, p.next, id)
    BY DEF PageInv
  <2> QED
    BY <1>1, <1>3, <2>1, PageFacts DEF PartialInv
<1>4. CASE Pending(p) = {} \/ (stopped /\ oldest.cut <= p.start)
  <2>1. end = [next |-> p.next, dropped |-> {}, broken |-> {q.first : q \in Pending(p)}]
    BY <1>4 DEF Resume
  <2>2. end.next = p.next /\ end.dropped = {} /\ end.broken = {q.first : q \in Pending(p)}
    BY <2>1
  <2> HIDE DEF end
  <2>3. \A o \in 1 .. Len(p.outputs) : ~(p.outputs[o].last >= p.next)
    BY <1>1, <1>2
  <2>4. \A id \in Ids : p.partials[id] # None => p.partials[id].first \in end.broken
    BY <2>2 DEF Pending
  <2>5. EndInv(p, end)
    BY <1>1, <2>2, <2>3, <2>4 DEF EndInv
  <2> QED
    BY <2>2, <2>5 DEF end
<1>5. CASE ~(Pending(p) = {} \/ (stopped /\ oldest.cut <= p.start))
  <2>1. end = [next |-> oldest.cut, dropped |-> oldest.dropped, broken |-> {}]
    BY <1>5 DEF Resume
  <2>2. end.next = oldest.cut /\ end.dropped = oldest.dropped
    BY <2>1
  <2> HIDE DEF end
  <2>3. /\ \E id \in Ids : p.partials[id] # None /\ from = p.partials[id].first
        /\ \A id \in Ids : p.partials[id] # None => from <= p.partials[id].first
    BY <1>1, <1>5, OldestFacts
  <2>4. from \in p.start .. p.next
    BY <1>1, <1>3, <2>3
  <2> HIDE DEF from
  <2>5. /\ oldest.cut \in p.start .. from
        /\ \A o \in 1 .. Len(p.outputs) : o \in oldest.dropped <=> p.outputs[o].last >= oldest.cut
        /\ \A o \in oldest.dropped : p.outputs[o].first >= oldest.cut
    BY <1>1, <1>2, <2>4, CutFacts
  <2> HIDE DEF oldest
  <2>6. oldest.cut \in p.start .. p.next
    BY <1>1, <2>4, <2>5
  <2>7. ASSUME NEW id \in Ids, p.partials[id] # None PROVE p.partials[id].first >= oldest.cut
    <3>1. from <= p.partials[id].first /\ p.partials[id].first \in Nat
      BY <1>3, <2>3, <2>7
    <3>2. oldest.cut <= from /\ from \in Nat /\ oldest.cut \in Nat
      BY <1>1, <2>4, <2>5, <2>6
    <3> QED
      BY <3>1, <3>2
  <2>8. EndInv(p, end)
    BY <2>2, <2>5, <2>6, <2>7 DEF EndInv
  <2>9. stopped => oldest.cut > p.start
    BY <1>1, <1>5, <2>6
  <2> QED
    BY <2>2, <2>8, <2>9 DEF end
<1> QED
  BY <1>4, <1>5

\* The outcomes that finish keeps, and the transactions among them it returns.
Kept(p, end) == {p.outputs[o] : o \in (1 .. Len(p.outputs)) \ end.dropped}
Decodes(output) == output.complete /\ output.id \notin Undecodable
Given(p, end, i) == {output \in Kept(p, end) : Decodes(output) /\ output.first = i}

FinishesAt(end, stopped) ==
    /\ page # None /\ (stopped => page.next > page.start)
    /\ returned' = [i \in 1 .. MaxRows |-> returned[i] + Cardinality(Given(page, end, i))]
    /\ skipped \subseteq skipped'
    /\ \A output \in Kept(page, end) : output.complete /\ ~Decodes(output) =>
            [first |-> output.first, why |-> "decode"] \in skipped'
    /\ \A i \in end.broken : [first |-> i, why |-> "stopped"] \in skipped'
    /\ cursor' = end.next /\ page' = None /\ rows' = rows /\ first' = first

LEMMA FinishIs ==
    ASSUME NEW stopped, Finish(stopped)
    PROVE  FinishesAt(Resume(page, stopped), stopped)
BY DEF Finish, FinishesAt, Kept, Decodes, Given

\* A page returns a transaction at most once, and one that is whole before the cursor.
LEMMA GivenOnce ==
    ASSUME NEW p, PageInv(rows, p, p.next), NEW end, EndInv(p, end), NEW i
    PROVE  /\ Cardinality(Given(p, end, i)) \in {0, 1}
           /\ Cardinality(Given(p, end, i)) = 1 =>
                p.start <= i /\ \E k \in i .. end.next - 1 : Done(rows, i, k)
           /\ \A o \in 1 .. Len(p.outputs) :
                o \notin end.dropped /\ Decodes(p.outputs[o]) /\ p.outputs[o].first = i =>
                    Cardinality(Given(p, end, i)) = 1
<1> DEFINE given == Given(p, end, i)
<1>1. p \in Page /\ OnceInv(p) /\ end.next \in p.start .. p.next /\ p.start \in Nat /\ p.next \in Nat
  BY PageFacts DEF PageInv, EndInv
<1>2. ASSUME NEW output \in given
      PROVE  \E o \in 1 .. Len(p.outputs) :
                /\ output = p.outputs[o] /\ o \notin end.dropped
                /\ Decodes(output) /\ output.first = i
  BY DEF Given, Kept
<1>3. ASSUME NEW a \in given, NEW b \in given PROVE a = b
  <2>1. PICK o \in 1 .. Len(p.outputs) : a = p.outputs[o] /\ Decodes(a) /\ a.first = i
    BY <1>2
  <2>2. PICK m \in 1 .. Len(p.outputs) : b = p.outputs[m] /\ Decodes(b) /\ b.first = i
    BY <1>2
  <2>3. o = m
    BY <1>1, <2>1, <2>2 DEF OnceInv, Decodes
  <2> QED
    BY <2>1, <2>2, <2>3
<1> HIDE DEF given
<1>4. given = {} => Cardinality(given) = 0
  BY FS_EmptySet
<1>5. ASSUME NEW output \in given
      PROVE  /\ Cardinality(given) = 1
             /\ p.start <= i /\ \E k \in i .. end.next - 1 : Done(rows, i, k)
  <2>1. given = {output}
    BY <1>3
  <2>2. Cardinality(given) = 1
    BY <2>1, FS_Singleton
  <2>3. PICK o \in 1 .. Len(p.outputs) :
            output = p.outputs[o] /\ o \notin end.dropped /\ Decodes(output) /\ output.first = i
    BY <1>2
  <2>4. OutputInv(rows, p, p.next, o) /\ p.outputs[o].first \in Nat /\ p.outputs[o].last \in Nat
    BY <1>1, PageFacts DEF PageInv
  <2>5. /\ p.start <= i /\ i <= p.outputs[o].last /\ Done(rows, i, p.outputs[o].last) /\ i \in Nat
    BY <2>3, <2>4 DEF OutputInv, Decodes
  <2>6. p.outputs[o].last < end.next
    BY <1>1, <2>3, <2>4 DEF EndInv
  <2>7. p.outputs[o].last \in i .. end.next - 1
    BY <1>1, <2>4, <2>5, <2>6
  <2> QED
    BY <2>2, <2>5, <2>7
<1>6. ASSUME NEW o \in 1 .. Len(p.outputs), o \notin end.dropped, Decodes(p.outputs[o]),
             p.outputs[o].first = i
      PROVE  Cardinality(given) = 1
  <2>1. p.outputs[o] \in given
    BY <1>6 DEF given, Given, Kept
  <2> QED
    BY <1>5, <2>1
<1>7. Cardinality(given) \in {0, 1} /\ (Cardinality(given) = 1 => given # {})
  BY <1>4, <1>5
<1>8. Cardinality(given) = 1 => p.start <= i /\ \E k \in i .. end.next - 1 : Done(rows, i, k)
  BY <1>5, <1>7
<1> QED
  BY <1>6, <1>7, <1>8 DEF given

-----------------------------------------------------------------------------
(* The steps.                                                              *)

\* Where a page reads on is no part of what it made of the rows.
LEMMA NextMoves ==
    ASSUME NEW r, NEW p, NEW n, PageInv(r, p, n), NEW m \in Nat
    PROVE  /\ PageInv(r, [p EXCEPT !.next = m], n)
           /\ [p EXCEPT !.next = m].start = p.start /\ [p EXCEPT !.next = m].next = m
           /\ [p EXCEPT !.next = m].end = p.end
<1> DEFINE q == [p EXCEPT !.next = m]
<1>1. p \in Page
  BY DEF PageInv
<1>2. /\ q \in Page /\ q.start = p.start /\ q.next = m /\ q.end = p.end
      /\ q.partials = p.partials /\ q.broken = p.broken /\ q.outputs = p.outputs
  BY <1>1 DEF Page
<1> HIDE DEF q
<1>3. \A id \in Ids : PartialInv(r, q, n, id)
  <2>1. ASSUME NEW id \in Ids PROVE PartialInv(r, q, n, id)
    <3>1. PartialInv(r, p, n, id)
      BY DEF PageInv
    <3> QED
      BY <1>2, <3>1 DEF PartialInv
  <2> QED
    BY <2>1
<1>4. \A o \in 1 .. Len(q.outputs) : OutputInv(r, q, n, o)
  BY <1>2 DEF PageInv, OutputInv
<1>5. OnceInv(q) /\ BrokenInv(q)
  <2>1. OnceInv(p) /\ BrokenInv(p)
    BY DEF PageInv
  <2>2. OnceInv(q)
    <3>1. q.outputs = p.outputs /\ q.partials = p.partials
      BY <1>2
    <3> QED
      BY <2>1, <3>1 DEF OnceInv
  <2>3. BrokenInv(q)
    BY <1>2, <2>1 DEF BrokenInv
  <2> QED
    BY <2>2, <2>3
<1>6. \A i \in q.start .. n - 1 : StartsAt(r, i) => Seen(r, q, i)
  <2>1. ASSUME NEW i, Seen(r, p, i) PROVE Seen(r, q, i)
    BY <1>2, <2>1, Zenon DEF Seen
  <2> QED
    BY <1>2, <2>1 DEF PageInv
<1>7. PageInv(r, q, n)
  BY <1>2, <1>3, <1>4, <1>5, <1>6 DEF PageInv
<1> QED
  BY <1>2, <1>7 DEF q

\* The invariant of a page that is being read.
ReadingInv ==
    page # None =>
        /\ page.start = cursor /\ page.end \in page.next .. Len(rows) + 1
        /\ PageInv(rows, page, page.next)

\* A row more of the page.
LEMMA PushKeeps ==
    ASSUME IInv, Push
    PROVE  IInv'
<1> DEFINE n == page.next
           p == IF rows[n].id = None THEN page ELSE Process(page, n)
<1>1. /\ page # None /\ n < page.end /\ RowsInv(rows)
      /\ page.start = cursor /\ page.end \in n .. Len(rows) + 1 /\ PageInv(rows, page, n)
  BY DEF IInv, Push
<1>2. page' = [p EXCEPT !.next = n + 1]
  BY DEF Push
<1>3. page \in Page /\ n \in Nat /\ page.start \in Nat /\ page.start >= 1 /\ n >= page.start
      /\ Len(rows) \in Nat /\ page.end \in Nat
  BY <1>1, PageFacts DEF PageInv, RowsInv
<1>4. n \in 1 .. Len(rows) /\ n + 1 \in Nat /\ page.end \in n + 1 .. Len(rows) + 1
  BY <1>1, <1>3
<1>5. PageInv(rows, p, n + 1) /\ SameRange(page, p)
  <2> HIDE DEF n
  <2>1. CASE rows[n].id = None
    BY <1>1, <1>4, <2>1, IgnoredKeeps DEF SameRange
  <2>2. CASE rows[n].id # None
    <3>1. rows[n].id \in Ids
      BY <1>1, <1>4, <2>2, RowFacts
    <3>2. PageInv(rows, Process(page, n), n + 1)
      BY <1>1, <1>4, <3>1, ProcessKeeps
    <3>3. SameRange(page, Process(page, n))
      BY <1>3, ProcessRange
    <3> QED
      BY <2>2, <3>2, <3>3
  <2> QED
    BY <2>1, <2>2
<1> HIDE DEF p
<1>6. /\ PageInv(rows, page', n + 1) /\ page'.next = n + 1 /\ page'.start = page.start
      /\ page'.end = page.end
  <2> HIDE DEF n
  <2> QED
    BY <1>2, <1>4, <1>5, NextMoves DEF SameRange
<1>7. UNCHANGED <<rows, cursor, first, returned, skipped>>
  BY DEF Push
<1> QED
  BY <1>1, <1>4, <1>6, <1>7 DEF IInv, ReturnedInv, Passed

\* How many rows have a version before one.
LEMMA BelowFacts ==
    ASSUME RowsInv(rows), NEW version
    PROVE  Cardinality({i \in 1 .. Len(rows) : rows[i].version < version}) \in 0 .. Len(rows)
<1> DEFINE below == {i \in 1 .. Len(rows) : rows[i].version < version}
<1>1. Len(rows) \in Nat
  BY DEF RowsInv
<1>2. IsFiniteSet(1 .. Len(rows)) /\ Cardinality(1 .. Len(rows)) = Len(rows)
  <2>1. IsFiniteSet(1 .. Len(rows))
    BY <1>1, FS_Interval
  <2>2. Cardinality(1 .. Len(rows)) = IF 1 > Len(rows) THEN 0 ELSE Len(rows) - 1 + 1
    BY <1>1, FS_Interval
  <2> QED
    BY <1>1, <2>1, <2>2
<1>3. below \subseteq 1 .. Len(rows)
  OBVIOUS
<1> HIDE DEF below
<1>4. IsFiniteSet(below) /\ Cardinality(below) <= Cardinality(1 .. Len(rows))
  BY <1>2, <1>3, FS_Subset
<1>5. Cardinality(below) \in Nat
  BY <1>4, FS_CardinalityType
<1> QED
  BY <1>1, <1>2, <1>4, <1>5 DEF below

\* A page begins, with nothing read.
LEMMA StartPageKeeps ==
    ASSUME IInv, NEW end_version, StartPage(end_version)
    PROVE  IInv'
<1> DEFINE below == Cardinality({i \in 1 .. Len(rows) : rows[i].version < end_version})
           end == IF below + 1 < cursor THEN cursor ELSE below + 1
           partials == [id \in Ids |-> None]
           broken == [id \in Ids |-> 0]
           p == [start |-> cursor, next |-> cursor, end |-> end, partials |-> partials,
                 broken |-> broken, outputs |-> <<>>]
<1>1. page' = p /\ UNCHANGED <<rows, cursor, first, returned, skipped>>
  BY DEF StartPage
<1>2. RowsInv(rows) /\ Len(rows) \in Nat /\ cursor \in 1 .. Len(rows) + 1 /\ cursor \in Nat
  BY DEF IInv, RowsInv
<1>3. end \in cursor .. Len(rows) + 1 /\ end \in Nat
  <2>1. below \in 0 .. Len(rows)
    BY <1>2, BelowFacts
  <2> HIDE DEF below
  <2> QED
    BY <1>2, <2>1
<1>4. partials \in [Ids -> Partial \cup {None}] /\ broken \in [Ids -> Nat] /\ <<>> \in Seq(Output)
  OBVIOUS
<1>5. \A id \in Ids : partials[id] = None /\ broken[id] = 0
  OBVIOUS
<1> HIDE DEF end, partials, broken
<1>6. /\ p \in Page /\ p.start = cursor /\ p.next = cursor /\ p.end = end /\ p.outputs = <<>>
      /\ p.partials = partials /\ p.broken = broken
  BY <1>2, <1>3, <1>4 DEF Page
<1> HIDE DEF p
<1>7. PageInv(rows, p, cursor)
  <2>1. Len(p.outputs) = 0 /\ 1 .. 0 = {}
    BY <1>6
  <2>2. \A id \in Ids : PartialInv(rows, p, cursor, id)
    BY <1>5, <1>6 DEF PartialInv
  <2>3. OnceInv(p) /\ BrokenInv(p)
    BY <1>5, <1>6, <2>1 DEF OnceInv, BrokenInv
  <2>4. \A o \in 1 .. Len(p.outputs) : OutputInv(rows, p, cursor, o)
    BY <2>1
  <2>5. \A i \in p.start .. cursor - 1 : FALSE
    BY <1>2, <1>6
  <2> QED
    BY <1>2, <1>6, <2>2, <2>3, <2>4, <2>5 DEF PageInv
<1> QED
  BY <1>1, <1>2, <1>3, <1>6, <1>7 DEF IInv, ReturnedInv, Passed

\* The scan begins elsewhere: nothing was returned yet.
LEMMA SeekKeeps ==
    ASSUME IInv, NEW version, Seek(version)
    PROVE  IInv'
<1> DEFINE below == Cardinality({i \in 1 .. Len(rows) : rows[i].version < version})
<1>1. /\ page = None /\ cursor = 1 /\ cursor' = 1 + below /\ first' = 1 + below
      /\ UNCHANGED <<rows, page, returned, skipped>>
  BY DEF Seek
<1>2. RowsInv(rows) /\ Len(rows) \in Nat /\ returned \in [1 .. MaxRows -> Nat]
  BY DEF IInv, RowsInv
<1>3. below \in 0 .. Len(rows)
  BY <1>2, BelowFacts
<1> HIDE DEF below
<1>4. \A i \in 1 .. MaxRows : ~(returned[i] > 0)
  BY <1>1 DEF IInv, ReturnedInv
<1>5. \A i \in first' .. cursor' - 1 : FALSE
  BY <1>1, <1>3
<1>6. cursor' \in 1 .. Len(rows) + 1 /\ first' \in 1 .. cursor'
  BY <1>1, <1>2, <1>3
<1> QED
  BY <1>1, <1>2, <1>4, <1>5, <1>6 DEF IInv, ReturnedInv, Passed

\* The clients write behind everything that was read.
LEMMA CommitKeeps ==
    ASSUME IInv, Commit
    PROVE  IInv'
<1>1. /\ RowsInv(rows') /\ Len(rows) <= Len(rows')
      /\ \A i \in 1 .. Len(rows) : rows'[i] = rows[i]
      /\ UNCHANGED <<cursor, first, page, returned, skipped>>
  BY CommitRows DEF IInv
<1>2. /\ RowsInv(rows) /\ Len(rows) \in Nat /\ Len(rows') \in Nat
      /\ cursor \in 1 .. Len(rows) + 1 /\ first \in 1 .. cursor
      /\ returned \in [1 .. MaxRows -> Nat]
  BY <1>1 DEF IInv, RowsInv
<1>3. ASSUME NEW i, NEW k, Done(rows, i, k) PROVE Done(rows', i, k)
  <2>1. i \in 1 .. Len(rows) /\ k \in 0 .. Len(rows)
    BY <1>2, <1>3 DEF Done, StartsAt
  <2> QED
    BY <1>1, <1>2, <1>3, <2>1, RowsGrow
<1>4. ReturnedInv'
  BY <1>1, <1>3 DEF IInv, ReturnedInv
<1>5. ASSUME NEW i \in first .. cursor - 1, StartsAt(rows', i) PROVE Passed(i)'
  <2>1. i \in 1 .. Len(rows) /\ cursor - 1 \in 0 .. Len(rows)
    BY <1>2
  <2> DEFINE k == cursor - 1
  <2> HIDE DEF k
  <2>2. k \in 0 .. Len(rows)
    BY <2>1 DEF k
  <2>3. (StartsAt(rows', i) <=> StartsAt(rows, i)) /\ (Broken(rows', i, k) <=> Broken(rows, i, k))
    BY <1>1, <1>2, <2>1, <2>2, RowsGrow
  <2>4. Passed(i)
    BY <1>5, <2>3 DEF IInv
  <2> QED
    BY <1>1, <1>3, <2>3, <2>4 DEF Passed, k
<1>6. ASSUME page # None
      PROVE  page.end \in page.next .. Len(rows') + 1 /\ PageInv(rows', page, page.next)
  <2>1. PageInv(rows, page, page.next) /\ page.end \in page.next .. Len(rows) + 1
    BY <1>6 DEF IInv
  <2>2. PageInv(rows', page, page.next)
    BY <1>1, <1>2, <2>1, PageGrows
  <2>3. page.next \in Nat /\ page.end \in Nat
    BY <2>1, PageFacts DEF PageInv
  <2> QED
    BY <1>1, <1>2, <2>1, <2>2, <2>3
<1>7. cursor \in 1 .. Len(rows') + 1
  BY <1>1, <1>2
<1> QED
  BY <1>1, <1>2, <1>4, <1>5, <1>6, <1>7 DEF IInv

\* Rows before a cursor, and before a later one.
LEMMA BeforeLater ==
    ASSUME NEW a \in Nat, NEW b \in Nat, a >= 1, a <= b
    PROVE  /\ a - 1 \in Nat /\ b - 1 \in Nat /\ a - 1 <= b - 1
           /\ \A i \in Nat : i .. a - 1 \subseteq i .. b - 1
           /\ \A i, l \in Nat : i \in l .. b - 1 <=> l <= i /\ i < b
OBVIOUS

\* The caller gets the page, and resumes where it ends.
LEMMA FinishKeeps ==
    ASSUME IInv, NEW stopped \in BOOLEAN, Finish(stopped)
    PROVE  /\ IInv'
           /\ stopped => cursor' > cursor
<1> DEFINE end == Resume(page, stopped)
           given(i) == Cardinality(Given(page, end, i))
<1>1. /\ page # None /\ (stopped => page.next > page.start)
      /\ returned' = [i \in 1 .. MaxRows |-> returned[i] + given(i)]
      /\ skipped \subseteq skipped'
      /\ \A output \in Kept(page, end) : output.complete /\ ~Decodes(output) =>
            [first |-> output.first, why |-> "decode"] \in skipped'
      /\ \A i \in end.broken : [first |-> i, why |-> "stopped"] \in skipped'
      /\ cursor' = end.next /\ page' = None /\ rows' = rows /\ first' = first
  BY FinishIs DEF FinishesAt
<1>2. /\ RowsInv(rows) /\ Len(rows) \in Nat /\ cursor \in 1 .. Len(rows) + 1 /\ first \in 1 .. cursor
      /\ returned \in [1 .. MaxRows -> Nat] /\ ReturnedInv
      /\ page.start = cursor /\ page.end \in page.next .. Len(rows) + 1
      /\ PageInv(rows, page, page.next)
  BY <1>1 DEF IInv, RowsInv
<1>3. EndInv(page, end) /\ (stopped => end.next > page.start)
  BY <1>1, <1>2, ResumeFacts
<1> HIDE DEF end
<1>4. /\ page \in Page /\ page.next \in Nat /\ page.next <= Len(rows) + 1
      /\ end.next \in cursor .. page.next /\ cursor' \in Nat /\ cursor \in Nat /\ cursor <= cursor'
      /\ cursor' <= page.next
  BY <1>1, <1>2, <1>3, PageFacts DEF PageInv, EndInv
<1>5. ASSUME NEW i
      PROVE  /\ given(i) \in {0, 1}
             /\ given(i) = 1 => cursor <= i /\ \E k \in i .. cursor' - 1 : Done(rows, i, k)
             /\ \A o \in 1 .. Len(page.outputs) :
                  o \notin end.dropped /\ Decodes(page.outputs[o]) /\ page.outputs[o].first = i =>
                    given(i) = 1
  BY <1>1, <1>2, <1>3, GivenOnce
<1> HIDE DEF given
<1>12. /\ first \in Nat /\ first >= 1 /\ first <= cursor /\ MaxRows \in Nat /\ Len(rows) <= MaxRows
       /\ cursor \in Nat /\ cursor' \in Nat /\ cursor <= cursor' /\ cursor' - 1 \in Nat
       /\ cursor - 1 \in Nat /\ Len(rows) \in Nat
  BY <1>2, <1>4 DEF RowsInv
<1>13. /\ \A i \in Nat : i .. cursor - 1 \subseteq i .. cursor' - 1
       /\ \A i, l \in Nat : i \in l .. cursor' - 1 <=> l <= i /\ i < cursor'
       /\ cursor - 1 \in Nat /\ cursor' - 1 \in Nat /\ cursor - 1 <= cursor' - 1
  <2>1. cursor >= 1
    BY <1>12
  <2> QED
    BY <1>12, <2>1, BeforeLater, Zenon
<1>6. returned' \in [1 .. MaxRows -> Nat]
  <2>1. ASSUME NEW i \in 1 .. MaxRows PROVE returned[i] + given(i) \in Nat
    <3>1. returned[i] \in Nat /\ given(i) \in {0, 1}
      <4>1. returned \in [1 .. MaxRows -> Nat]
        BY <1>2
      <4> QED
        BY <1>5, <4>1
    <3> QED
      BY <3>1
  <2> QED
    BY <1>1, <2>1
<1>7. ASSUME NEW i \in 1 .. MaxRows, returned'[i] > 0
      PROVE  returned'[i] = 1 /\ \E k \in i .. cursor' - 1 : Done(rows, i, k)
  <2>1. returned'[i] = returned[i] + given(i) /\ returned[i] \in Nat /\ given(i) \in {0, 1}
    BY <1>1, <1>2, <1>5
  <2>2. CASE returned[i] > 0
    <3>1. returned[i] = 1 /\ \E k \in i .. cursor - 1 : Done(rows, i, k)
      BY <1>2, <2>2 DEF ReturnedInv
    <3>2. \E k \in i .. cursor' - 1 : Done(rows, i, k)
      <4>1. i \in Nat
        OBVIOUS
      <4> QED
        BY <1>13, <3>1, <4>1, Zenon
    <3>3. ~(cursor <= i)
      BY <1>4, <3>1
    <3> QED
      BY <1>5, <2>1, <3>1, <3>2, <3>3
  <2>3. CASE ~(returned[i] > 0)
    <3>1. given(i) = 1 /\ returned[i] = 0
      BY <1>7, <2>1, <2>3
    <3> QED
      BY <1>5, <2>1, <3>1
  <2> QED
    BY <2>2, <2>3
<1>8. ASSUME NEW i \in 1 .. MaxRows, returned[i] > 0 \/ given(i) = 1 PROVE returned'[i] > 0
  <2>1. returned'[i] = returned[i] + given(i) /\ returned[i] \in Nat /\ given(i) \in {0, 1}
    BY <1>1, <1>2, <1>5
  <2> QED
    BY <1>8, <2>1
<1>9. ASSUME NEW i \in first .. cursor' - 1, StartsAt(rows, i) PROVE Passed(i)'
  <2>1. i \in 1 .. MaxRows /\ i \in Nat /\ i < cursor'
    <3>1. i \in 1 .. Len(rows)
      BY <1>9 DEF StartsAt
    <3>2. i \in Nat /\ i \in 1 .. MaxRows
      BY <1>12, <3>1
    <3> QED
      BY <1>9, <1>12, <1>13, <3>2, Zenon
  <2>2. CASE i < cursor
    <3>1. Passed(i)
      <4>1. i \in first .. cursor - 1
        BY <1>2, <1>9, <2>2
      <4> QED
        BY <1>9, <4>1 DEF IInv
    <3>2. (\E k \in i .. cursor - 1 : Done(rows, i, k)) => \E k \in i .. cursor' - 1 : Done(rows, i, k)
      BY <1>13, <2>1, Zenon
    <3>3. Broken(rows, i, cursor - 1) => Broken(rows, i, cursor' - 1)
      <4> DEFINE k == cursor - 1
                 l == cursor' - 1
      <4>1. k \in Nat /\ l \in Nat /\ k <= l
        BY <1>13
      <4> HIDE DEF k, l
      <4>2. Broken(rows, i, k) => Broken(rows, i, l)
        BY <2>1, <4>1, BrokenGrows
      <4> QED
        BY <4>2 DEF k, l
    <3>4. returned[i] > 0 => returned'[i] > 0
      BY <1>8, <2>1
    <3>5. rows' = rows /\ \A s \in skipped : s \in skipped'
      BY <1>1
    <3> QED
      BY <3>1, <3>2, <3>3, <3>4, <3>5 DEF Passed
  <2>3. CASE ~(i < cursor)
    <3>1. i \in page.start .. page.next - 1
      BY <1>2, <1>4, <2>1, <2>3
    <3>2. Seen(rows, page, i) /\ rows[i].id \in Ids
      BY <1>2, <1>9, <3>1, RowFacts DEF PageInv, StartsAt
    <3>3. ASSUME NEW o \in 1 .. Len(page.outputs), page.outputs[o].first = i
          PROVE  /\ o \notin end.dropped /\ page.outputs[o] \in Kept(page, end)
                 /\ page.outputs[o].last \in Nat /\ i <= page.outputs[o].last
                 /\ page.outputs[o].last < cursor'
                 /\ page.outputs[o].complete => Done(rows, i, page.outputs[o].last)
      <4>1. OutputInv(rows, page, page.next, o) /\ page.outputs[o].last \in Nat
        BY <1>2, <1>4, PageFacts DEF PageInv
      <4>2. o \notin end.dropped
        BY <1>1, <1>3, <1>4, <2>1, <3>3 DEF EndInv
      <4>3. page.outputs[o].last < cursor'
        BY <1>1, <1>3, <1>4, <4>1, <4>2 DEF EndInv
      <4> QED
        BY <3>3, <4>1, <4>2, <4>3 DEF OutputInv, Kept
    <3>4. ASSUME NEW o \in 1 .. Len(page.outputs), page.outputs[o].first = i, page.outputs[o].complete
          PROVE  Passed(i)'
      <4>1. \E k \in i .. cursor' - 1 : Done(rows', i, k)
        <5> DEFINE k == page.outputs[o].last
        <5>1. k \in Nat /\ i <= k /\ k < cursor' /\ Done(rows, i, k)
          BY <3>3, <3>4
        <5> HIDE DEF k
        <5>2. k \in i .. cursor' - 1
          BY <1>13, <2>1, <5>1, Zenon
        <5> QED
          BY <1>1, <5>1, <5>2
      <4>2. CASE Decodes(page.outputs[o])
        <5>1. returned'[i] > 0
          BY <1>5, <1>8, <2>1, <3>3, <3>4, <4>2
        <5> QED
          BY <4>1, <5>1 DEF Passed
      <4>3. CASE ~Decodes(page.outputs[o])
        <5>1. [first |-> i, why |-> "decode"] \in skipped'
          BY <1>1, <3>3, <3>4, <4>3
        <5>2. \E s \in skipped' : s.first = i /\ s.why = "decode"
          BY <5>1
        <5> QED
          BY <4>1, <5>2 DEF Passed
      <4> QED
        BY <4>2, <4>3
    <3>5. CASE page.partials[rows[i].id] # None /\ page.partials[rows[i].id].first = i
      <4>1. i \in end.broken
        BY <1>1, <1>3, <1>4, <2>1, <3>2, <3>5 DEF EndInv
      <4>2. [first |-> i, why |-> "stopped"] \in skipped'
        BY <1>1, <4>1
      <4>3. \E s \in skipped' : s.first = i /\ s.why = "stopped"
        BY <4>2
      <4> QED
        BY <4>3 DEF Passed
    <3>6. ASSUME NEW o \in 1 .. Len(page.outputs), page.outputs[o].first = i,
                 Broken(rows, i, page.outputs[o].last)
          PROVE  Passed(i)'
      <4> DEFINE k == page.outputs[o].last
                 l == cursor' - 1
      <4>1. k \in Nat /\ l \in Nat /\ k <= l
        BY <1>4, <3>3, <3>6
      <4> HIDE DEF k, l
      <4>2. Broken(rows, i, l)
        <5>1. Broken(rows, i, k)
          BY <3>6 DEF k
        <5> QED
          BY <2>1, <4>1, <5>1, BrokenGrows
      <4> QED
        BY <1>1, <4>2 DEF Passed, l
    <3> QED
      BY <3>2, <3>4, <3>5, <3>6 DEF Seen
  <2> QED
    BY <2>2, <2>3
<1>10. cursor' \in 1 .. Len(rows) + 1 /\ first \in 1 .. cursor'
  BY <1>2, <1>4
<1>11. IInv'
  BY <1>1, <1>2, <1>6, <1>7, <1>9, <1>10 DEF IInv, ReturnedInv
<1> QED
  BY <1>1, <1>2, <1>3, <1>11

-----------------------------------------------------------------------------
(* The theorems.                                                           *)

\* Init and Next: the invariant holds in every state, whatever the clients write, the
\* callers stop and the reads that fail.
THEOREM Invariance == Spec => []IInv
<1>1. Init => IInv
  <2> SUFFICES ASSUME Init PROVE IInv
    OBVIOUS
  <2>1. /\ rows = <<>> /\ cursor = 1 /\ first = 1 /\ page = None
        /\ returned = [i \in 1 .. MaxRows |-> 0]
    BY DEF Init
  <2>2. RowsInv(rows) /\ Len(rows) = 0
    BY <2>1 DEF RowsInv
  <2>3. \A i \in first .. cursor - 1 : FALSE
    BY <2>1
  <2>4. ReturnedInv /\ returned \in [1 .. MaxRows -> Nat]
    BY <2>1 DEF ReturnedInv
  <2> QED
    BY <2>1, <2>2, <2>3, <2>4 DEF IInv
<1>2. IInv /\ [Next]_vars => IInv'
  <2> SUFFICES ASSUME IInv, [Next]_vars PROVE IInv'
    OBVIOUS
  <2>1. CASE Commit
    BY <2>1, CommitKeeps
  <2>2. ASSUME NEW version \in 1 .. MaxCommits, Seek(version) PROVE IInv'
    BY <2>2, SeekKeeps
  <2>3. ASSUME NEW end_version \in 1 .. MaxCommits + 1, StartPage(end_version) PROVE IInv'
    BY <2>3, StartPageKeeps
  <2>4. CASE Push
    BY <2>4, PushKeeps
  <2>5. ASSUME NEW stopped \in BOOLEAN, Finish(stopped) PROVE IInv'
    BY <2>5, FinishKeeps
  <2>6. CASE PageLost
    BY <2>6 DEF PageLost, IInv, ReturnedInv, Passed
  <2>7. CASE UNCHANGED vars
    BY <2>7 DEF vars, IInv, ReturnedInv, Passed
  <2> QED
    BY <2>1, <2>2, <2>3, <2>4, <2>5, <2>6, <2>7 DEF Next
<1> QED
  BY <1>1, <1>2, PTL DEF Spec

\* read_page: a transaction is returned at most once, and only whole; and a whole one
\* the scan has passed was returned, or is reported because it does not decode or because
\* a caller stopped a page that had begun with a pending one.
THEOREM EachOnceHolds == Spec => []EachOnce
<1>1. IInv => EachOnce
  <2> SUFFICES ASSUME IInv PROVE EachOnce
    OBVIOUS
  <2>1. RowsInv(rows) /\ Len(rows) \in Nat /\ cursor \in Nat /\ first \in 1 .. cursor
    BY DEF IInv, RowsInv
  <2>2. ASSUME NEW i \in 1 .. MaxRows, returned[i] > 0
        PROVE  returned[i] = 1 /\ i <= Len(rows) /\ Whole(i)
    <3>1. PICK k \in i .. cursor - 1 : Done(rows, i, k)
      BY <2>2 DEF IInv, ReturnedInv
    <3>2. returned[i] = 1
      BY <2>2 DEF IInv, ReturnedInv
    <3>3. Whole(i) /\ i <= Len(rows)
      BY <2>1, <3>1, DoneIsWhole DEF Done, StartsAt
    <3> QED
      BY <3>2, <3>3
  <2>3. ASSUME NEW i \in first .. Len(rows), Whole(i), LastRow(i) < cursor
        PROVE  returned[i] > 0
               \/ \E s \in skipped : s.first = i /\ s.why \in {"decode", "stopped"}
    <3>1. i \in 1 .. Len(rows) /\ i \in Nat
      BY <2>1
    <3>2. Done(rows, i, LastRow(i))
      BY <2>1, <2>3, <3>1, WholeIsDone
    <3>3. StartsAt(rows, i) /\ LastRow(i) \in Nat /\ i <= LastRow(i)
      BY <2>1, <3>1, <3>2 DEF Done
    <3>4. i \in first .. cursor - 1 /\ cursor - 1 \in Nat
      BY <2>1, <2>3, <3>1, <3>3
    <3>5. Passed(i)
      BY <3>3, <3>4 DEF IInv
    <3>6. ~Broken(rows, i, cursor - 1)
      BY <2>1, <3>2, <3>4, DoneOnce
    <3> QED
      BY <3>5, <3>6 DEF Passed
  <2> QED
    BY <2>2, <2>3 DEF EachOnce
<1> QED
  BY <1>1, Invariance, PTL

\* finish: a page the caller stopped leaves the cursor further than it was.
THEOREM StoppedAdvance == Spec => StoppedPagesAdvance
<1>1. IInv /\ [Next]_vars => [Finish(TRUE) => cursor' > cursor]_vars
  BY FinishKeeps
<1> QED
  BY <1>1, Invariance, PTL DEF Spec, StoppedPagesAdvance
=============================================================================
