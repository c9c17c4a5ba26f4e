-------------------------- MODULE SequentialProofs --------------------------
(***************************************************************************)
(* What is proved of the parts that run on one thread of one client, for   *)
(* any names, bounds, requests and programs.                               *)
(*                                                                         *)
(* Range reads return each key once and in order, and report the conflict  *)
(* ranges there are.  The heart is Progress: what has been returned is     *)
(* what the range held up to the last key of it, and the options that go   *)
(* on select what is left; and ParserAt: the parser has every range that   *)
(* ends at or before the last marker it was fed.                           *)
(*                                                                         *)
(* The binding tester's programs never want a transaction that nobody      *)
(* holds, change no transaction behind its back, and keep the directory    *)
(* list in step.  The heart is Consistent.  It holds between instructions, *)
(* of the stack and the map, and inside one, of what is left of the stack  *)
(* and of the map without the current transaction: a future that owns a    *)
(* transaction names it, the map has its id under that name, no other      *)
(* entry has the same one, and no other future the same name.              *)
(***************************************************************************)
EXTENDS RangeReads, StackMachine, DirectoryInstructions, FiniteSetTheorems, WellFoundedInduction, TLAPS

USE RangeBoundAssumption, RequestsAssumption, NoValueAssumption

-----------------------------------------------------------------------------
(* Numbers, and functions defined by recursion on them.                    *)

\* A set of numbers has a least one.
LEMMA LeastNumber ==
    ASSUME NEW S, S \subseteq Nat, S # {}
    PROVE  \E m \in S : \A n \in S : m <= n
<1>1. PICK m \in S : \A n \in S : <<n, m>> \notin OpToRel(<, Nat)
  BY NatLessThanWellFounded, WFMin, Zenon
<1>2. \A n \in S : ~(n < m)
  BY <1>1, Zenon DEF OpToRel
<1> QED
  BY <1>2

\* A set of numbers that has 0 and the successor of its members has all of them.
LEMMA NumberInduction ==
    ASSUME NEW S, 0 \in S, \A n \in Nat : n \in S => n + 1 \in S
    PROVE  Nat \subseteq S
<1> SUFFICES ASSUME Nat \ S # {} PROVE FALSE
  OBVIOUS
<1>1. PICK m \in Nat \ S : \A n \in Nat \ S : m <= n
  BY LeastNumber
<1>2. m # 0 /\ m - 1 \in Nat /\ ~(m <= m - 1)
  BY <1>1
<1>3. m - 1 \in S /\ (m - 1) + 1 = m
  BY <1>1, <1>2
<1> QED
  BY <1>1, <1>2, <1>3

\* A start and a step define a function on the numbers.
IsStep(X, step) == step \in [Nat -> [X -> X]]
Iterates(X, x0, step, f) ==
    f \in [Nat -> X] /\ f[0] = x0 /\ \A k \in Nat : f[k + 1] = step[k + 1][f[k]]

LEMMA RecursiveFunction ==
    ASSUME NEW X, NEW x0 \in X, NEW step, IsStep(X, step)
    PROVE  \E f : Iterates(X, x0, step, f)
<1> USE DEF IsStep
<1> DEFINE Upto(n) == {g \in [0 .. n -> X] :
                        g[0] = x0 /\ \A k \in 1 .. n : g[k] = step[k][g[k - 1]]}
           Some == {n \in Nat : Upto(n) # {}}
<1>1. 0 \in Some
  <2>1. [k \in 0 .. 0 |-> x0] \in Upto(0)
    OBVIOUS
  <2> QED
    BY <2>1
<1>2. ASSUME NEW n \in Nat, n \in Some PROVE n + 1 \in Some
  <2>1. PICK g \in [0 .. n -> X] : g[0] = x0 /\ \A k \in 1 .. n : g[k] = step[k][g[k - 1]]
    BY <1>2
  <2> DEFINE h == [k \in 0 .. n + 1 |-> IF k <= n THEN g[k] ELSE step[n + 1][g[n]]]
  <2>2. g[n] \in X /\ step[n + 1][g[n]] \in X
    <3>1. n \in 0 .. n /\ n + 1 \in Nat
      OBVIOUS
    <3>2. g[n] \in X /\ step[n + 1] \in [X -> X]
      BY <3>1
    <3> QED
      BY <3>2
  <2>3. h \in [0 .. n + 1 -> X] /\ h[0] = x0
    BY <2>1, <2>2
  <2>4. ASSUME NEW k \in 1 .. n + 1 PROVE h[k] = step[k][h[k - 1]]
    <3>1. CASE k = n + 1
      BY <3>1
    <3>2. CASE k # n + 1
      <4>1. k \in 1 .. n /\ k - 1 \in 0 .. n /\ k \in 0 .. n + 1 /\ k - 1 \in 0 .. n + 1
        BY <3>2
      <4>2. h[k] = g[k] /\ h[k - 1] = g[k - 1]
        BY <4>1
      <4> QED
        BY <2>1, <4>1, <4>2
    <3> QED
      BY <3>1, <3>2
  <2>5. h \in Upto(n + 1)
    BY <2>3, <2>4
  <2> HIDE DEF Upto, h
  <2> QED
    BY <2>5
<1>3. \A n \in Nat : Upto(n) # {}
  <2> HIDE DEF Upto
  <2> QED
    BY <1>1, <1>2, NumberInduction
<1>4. ASSUME NEW n \in Nat, NEW m \in Nat, NEW g \in Upto(n), NEW h \in Upto(m),
             NEW l \in Nat, l <= n, l <= m
      PROVE  g[l] = h[l]
  <2> DEFINE Same == {k \in Nat : k <= n /\ k <= m => g[k] = h[k]}
  <2>1. 0 \in Same
    OBVIOUS
  <2>2. ASSUME NEW k \in Nat, k \in Same PROVE k + 1 \in Same
    <3>1. SUFFICES ASSUME k + 1 <= n, k + 1 <= m PROVE g[k + 1] = h[k + 1]
      OBVIOUS
    <3>2. g[k] = h[k] /\ k + 1 \in 1 .. n /\ k + 1 \in 1 .. m /\ (k + 1) - 1 = k
      BY <2>2, <3>1
    <3> QED
      BY <3>2
  <2>3. Nat \subseteq Same
    <3> HIDE DEF Same
    <3> QED
      BY <2>1, <2>2, NumberInduction
  <2> QED
    BY <2>3, <1>4
<1> DEFINE part == [n \in Nat |-> CHOOSE g \in Upto(n) : TRUE]
           f == [n \in Nat |-> part[n][n]]
<1>5. \A n \in Nat : part[n] \in Upto(n)
  <2> HIDE DEF Upto
  <2> QED
    BY <1>3
<1>6. \A n \in Nat : part[n] \in [0 .. n -> X]
  BY <1>5
<1>7. f \in [Nat -> X]
  <2> HIDE DEF part
  <2>1. ASSUME NEW n \in Nat PROVE part[n][n] \in X
    <3>1. n \in 0 .. n
      OBVIOUS
    <3> QED
      BY <1>6, <3>1
  <2> QED
    BY <2>1
<1>8. f[0] = x0
  BY <1>5
<1>9. ASSUME NEW k \in Nat PROVE f[k + 1] = step[k + 1][f[k]]
  <2>1. k + 1 \in Nat /\ k + 1 \in 1 .. k + 1 /\ k <= k + 1 /\ (k + 1) - 1 = k
    OBVIOUS
  <2>2. part[k + 1][k + 1] = step[k + 1][part[k + 1][k]]
    <3> DEFINE g == part[k + 1]
    <3>1. g \in Upto(k + 1)
      BY <1>5, <2>1
    <3> HIDE DEF g
    <3>2. g[k + 1] = step[k + 1][g[(k + 1) - 1]]
      BY <2>1, <3>1
    <3> QED
      BY <2>1, <3>2 DEF g
  <2>3. part[k + 1][k] = part[k][k]
    <3> HIDE DEF Upto, part
    <3> QED
      BY <1>4, <1>5, <2>1
  <2> QED
    BY <2>1, <2>2, <2>3
<1> HIDE DEF f
<1> QED
  BY <1>7, <1>8, <1>9 DEF Iterates

-----------------------------------------------------------------------------
(* The order of keys, and the places of the keys of a set in it.           *)

\* Either direction is a strict total order of the keys.
LEMMA PrecedesFacts ==
    ASSUME NEW r, NEW a \in Int, NEW b \in Int
    PROVE  /\ ~Precedes(r, a, a)
           /\ Precedes(r, a, b) \/ Precedes(r, b, a) \/ a = b
           /\ ~(Precedes(r, a, b) /\ Precedes(r, b, a))
           /\ \A c \in Int : Precedes(r, a, b) /\ Precedes(r, b, c) => Precedes(r, a, c)
BY DEF Precedes

\* A finite set of keys, and those of it that come no later than k.
KeySet(S) == S \subseteq Int /\ IsFiniteSet(S)
UpTo(S, r, k) == {j \in S : ~Precedes(r, k, j)}

\* The place of a key is the number of keys that come no later.
LEMMA PlaceType ==
    ASSUME NEW S, KeySet(S), NEW r, NEW k \in S
    PROVE  /\ UpTo(S, r, k) \subseteq S /\ k \in UpTo(S, r, k)
           /\ Place(S, r, k) = Cardinality(UpTo(S, r, k))
           /\ Place(S, r, k) \in 1 .. Cardinality(S) /\ Cardinality(S) \in Nat
<1>1. UpTo(S, r, k) \subseteq S /\ k \in UpTo(S, r, k)
  BY PrecedesFacts DEF UpTo, KeySet
<1>2. Place(S, r, k) = Cardinality(UpTo(S, r, k))
  BY DEF Place, UpTo
<1>3. IsFiniteSet(UpTo(S, r, k)) /\ Cardinality(UpTo(S, r, k)) <= Cardinality(S)
  BY <1>1, FS_Subset DEF KeySet
<1>4. Cardinality(S) \in Nat /\ Cardinality(UpTo(S, r, k)) \in Nat
  BY <1>3, FS_CardinalityType DEF KeySet
<1>5. Cardinality(UpTo(S, r, k)) # 0
  BY <1>1, <1>3, FS_EmptySet
<1> QED
  BY <1>1, <1>2, <1>3, <1>4, <1>5

\* A key that comes before another one has a smaller place.
LEMMA PlaceOrder ==
    ASSUME NEW S, KeySet(S), NEW r, NEW a \in S, NEW b \in S, Precedes(r, a, b)
    PROVE  Place(S, r, a) < Place(S, r, b)
<1>1. UpTo(S, r, a) \subseteq UpTo(S, r, b)
  BY PrecedesFacts DEF UpTo, KeySet
<1>2. b \notin UpTo(S, r, a) /\ b \in UpTo(S, r, b)
  BY PrecedesFacts DEF UpTo, KeySet
<1>3. IsFiniteSet(UpTo(S, r, b))
  BY PlaceType, FS_Subset DEF KeySet
<1>4. Cardinality(UpTo(S, r, a)) <= Cardinality(UpTo(S, r, b))
      /\ Cardinality(UpTo(S, r, a)) # Cardinality(UpTo(S, r, b))
  BY <1>1, <1>2, <1>3, FS_Subset
<1> QED
  BY <1>4, PlaceType

\* Places tell the keys of a set apart, and their order.
LEMMA PlaceUnique ==
    ASSUME NEW S, KeySet(S), NEW r, NEW a \in S, NEW b \in S
    PROVE  /\ Place(S, r, a) = Place(S, r, b) => a = b
           /\ Place(S, r, a) < Place(S, r, b) => Precedes(r, a, b)
<1>1. a \in Int /\ b \in Int
  BY DEF KeySet
<1>2. Place(S, r, a) \in Nat /\ Place(S, r, b) \in Nat
  BY PlaceType
<1>3. Precedes(r, a, b) => Place(S, r, a) < Place(S, r, b)
  BY PlaceOrder
<1>4. Precedes(r, b, a) => Place(S, r, b) < Place(S, r, a)
  BY PlaceOrder
<1>5. Precedes(r, a, b) \/ Precedes(r, b, a) \/ a = b
  BY <1>1, PrecedesFacts
<1> QED
  BY <1>2, <1>3, <1>4, <1>5

\* Every place has a key.
LEMMA PlaceTaken ==
    ASSUME NEW S, KeySet(S), NEW r, NEW i \in 1 .. Cardinality(S)
    PROVE  \E k \in S : Place(S, r, k) = i
<1> DEFINE n == Cardinality(S)
           f == [k \in S |-> Place(S, r, k)]
<1>1. n \in Nat
  BY FS_CardinalityType DEF KeySet
<1>2. IsFiniteSet(1 .. n) /\ Cardinality(1 .. n) = n
  BY <1>1, FS_Interval
<1>3. f \in [S -> 1 .. n]
  BY PlaceType
<1>4. f \in Injection(S, 1 .. n)
  BY <1>3, PlaceUnique DEF Injection, IsInjective
<1>5. f \in Surjection(S, 1 .. n)
  <2> HIDE DEF f, n
  <2>1. Cardinality(S) = Cardinality(1 .. n)
    BY <1>2 DEF n
  <2> QED
    BY <1>2, <1>4, <2>1, FS_Injection
<1> QED
  BY <1>5 DEF Surjection

\* Sorted lists the keys of a set in the order of their places.
LEMMA SortedFacts ==
    ASSUME NEW S, KeySet(S), NEW r
    PROVE  /\ Sorted(S, r) \in Seq(S) /\ Len(Sorted(S, r)) = Cardinality(S)
           /\ Cardinality(S) \in Nat
           /\ \A i \in 1 .. Cardinality(S) :
                Sorted(S, r)[i] \in S /\ Place(S, r, Sorted(S, r)[i]) = i
           /\ \A k \in S : Sorted(S, r)[Place(S, r, k)] = k
<1>1. Cardinality(S) \in Nat
  BY FS_CardinalityType DEF KeySet
<1>2. ASSUME NEW i \in 1 .. Cardinality(S)
      PROVE  Sorted(S, r)[i] \in S /\ Place(S, r, Sorted(S, r)[i]) = i
  BY PlaceTaken DEF Sorted
<1>3. Sorted(S, r) \in [1 .. Cardinality(S) -> S]
  BY <1>2 DEF Sorted
<1>4. Sorted(S, r) \in Seq(S) /\ Len(Sorted(S, r)) = Cardinality(S)
  BY <1>1, <1>3
<1>5. ASSUME NEW k \in S PROVE Sorted(S, r)[Place(S, r, k)] = k
  BY <1>2, PlaceType, PlaceUnique
<1> QED
  BY <1>1, <1>2, <1>4, <1>5

\* A sequence of keys in the order of a direction.
Ordered(s, r) == \A i, j \in 1 .. Len(s) : i < j => Precedes(r, s[i], s[j])

\* A sorted set is in order.
LEMMA SortedOrdered ==
    ASSUME NEW S, KeySet(S), NEW r
    PROVE  Ordered(Sorted(S, r), r)
BY SortedFacts, PlaceUnique DEF Ordered

\* The keys of a set after one of them, and what is left of the sorted ones.
After(S, r, x) == {k \in S : Precedes(r, x, k)}

\* The keys after the one at place m are the sorted ones without the first m.
LEMMA SortedTail ==
    ASSUME NEW S, KeySet(S), NEW r, NEW m \in 1 .. Cardinality(S),
           NEW x, x = Sorted(S, r)[m]
    PROVE  /\ Cardinality(After(S, r, x)) = Cardinality(S) - m
           /\ Sorted(After(S, r, x), r) = SubSeq(Sorted(S, r), m + 1, Cardinality(S))
<1> DEFINE T == After(S, r, x)
           n == Cardinality(S)
<1>1. x \in S /\ Place(S, r, x) = m /\ n \in Nat
  BY SortedFacts
<1>2. UpTo(S, r, x) \subseteq S /\ Cardinality(UpTo(S, r, x)) = m
      /\ IsFiniteSet(UpTo(S, r, x))
  BY <1>1, PlaceType, FS_Subset DEF KeySet
<1>3. T = S \ UpTo(S, r, x)
  BY DEF After, UpTo
<1>4. Cardinality(T) = n - m
  <2>1. S \cap UpTo(S, r, x) = UpTo(S, r, x)
    BY <1>2
  <2>2. Cardinality(S \ UpTo(S, r, x)) = Cardinality(S) - Cardinality(S \cap UpTo(S, r, x))
    BY FS_Difference DEF KeySet
  <2> QED
    BY <1>2, <1>3, <2>1, <2>2
<1>5. KeySet(T)
  BY FS_Subset DEF KeySet, After
<1>6. ASSUME NEW k \in T PROVE Place(S, r, k) = m + Place(T, r, k)
  <2>1. k \in S
    BY DEF After
  <2>2. UpTo(S, r, k) = UpTo(S, r, x) \cup UpTo(T, r, k)
    BY <1>1, PrecedesFacts DEF UpTo, KeySet, After
  <2>3. UpTo(S, r, x) \cap UpTo(T, r, k) = {}
    BY <1>3 DEF UpTo
  <2>4. IsFiniteSet(UpTo(T, r, k))
    BY <1>5, PlaceType, FS_Subset DEF KeySet
  <2>5. Cardinality({}) = 0 /\ Cardinality(UpTo(T, r, k)) \in Nat
    BY <2>4, FS_EmptySet, FS_CardinalityType
  <2>6. Cardinality(UpTo(S, r, k)) = m + Cardinality(UpTo(T, r, k))
    <3>1. Cardinality(UpTo(S, r, x) \cup UpTo(T, r, k))
            = Cardinality(UpTo(S, r, x)) + Cardinality(UpTo(T, r, k))
                - Cardinality(UpTo(S, r, x) \cap UpTo(T, r, k))
      BY <1>2, <2>4, FS_Union, Zenon
    <3>2. Cardinality(UpTo(S, r, k)) = m + Cardinality(UpTo(T, r, k)) - 0
      BY <1>2, <2>2, <2>3, <2>5, <3>1, Zenon
    <3> QED
      BY <2>5, <3>2
  <2> QED
    BY <1>5, <2>1, <2>6, PlaceType
<1> HIDE DEF T, n
<1>7. Sorted(T, r) \in [1 .. n - m -> T] /\ Sorted(T, r) \in Seq(T) /\ Len(Sorted(T, r)) = n - m
  BY <1>4, <1>5, SortedFacts
<1>8. ASSUME NEW i \in 1 .. n - m PROVE Sorted(T, r)[i] = Sorted(S, r)[m + i]
  <2>1. Sorted(T, r)[i] \in T /\ Place(T, r, Sorted(T, r)[i]) = i
    BY <1>4, <1>5, SortedFacts
  <2>2. Place(S, r, Sorted(T, r)[i]) = m + i
    BY <1>6, <2>1
  <2>3. Sorted(T, r)[i] \in S
    BY <1>3, <2>1
  <2> QED
    BY <2>2, <2>3, SortedFacts
<1>9. Sorted(S, r) \in Seq(S) /\ Len(Sorted(S, r)) = n
  BY SortedFacts DEF n
<1>10. SubSeq(Sorted(S, r), m + 1, n) = [i \in 1 .. n - m |-> Sorted(S, r)[m + i]]
  BY <1>1, <1>9
<1>11. Sorted(T, r) = [i \in 1 .. n - m |-> Sorted(S, r)[m + i]]
  BY <1>7, <1>8
<1> QED
  BY <1>4, <1>10, <1>11 DEF T, n

-----------------------------------------------------------------------------
(* What selectors select.                                                  *)

\* The keys a selector counts are those up to a place.
LEMMA PassedFacts ==
    ASSUME NEW view, KeySet(view), NEW sel \in Selector
    PROVE  /\ Cardinality(Passed(view, sel)) \in Nat /\ Resolve(view, sel) \in Int
           /\ \A k \in view :
                k \in Passed(view, sel) <=> Place(view, Forward, k) <= Cardinality(Passed(view, sel))
<1> DEFINE C == Passed(view, sel)
<1>1. C \subseteq view
  BY DEF Passed
<1>2. IsFiniteSet(C)
  BY <1>1, FS_Subset DEF KeySet
<1>3. Cardinality(C) \in Nat
  BY <1>2, FS_CardinalityType
<1>4. Resolve(view, sel) \in Int
  BY <1>3 DEF Resolve, Selector
<1>5. ASSUME NEW k \in view, k \in C PROVE Place(view, Forward, k) <= Cardinality(C)
  <2>1. ASSUME NEW j \in UpTo(view, Forward, k) PROVE j \in C
    <3>1. j \in view /\ j \in Int /\ k \in Int /\ j <= k /\ sel.key \in Int
      BY DEF UpTo, Precedes, Forward, KeySet, Selector
    <3> QED
      BY <1>5, <3>1 DEF Passed
  <2> QED
    BY <1>2, <2>1, FS_Subset, PlaceType
<1>6. ASSUME NEW k \in view, k \notin C PROVE ~(Place(view, Forward, k) <= Cardinality(C))
  <2>1. ASSUME NEW j \in C PROVE j \in UpTo(view, Forward, k)
    <3>1. j \in view /\ j \in Int /\ k \in Int
      BY <1>1 DEF KeySet
    <3>3. sel.key \in Int
      BY DEF Selector
    <3>2. j <= k
      BY <1>6, <3>1, <3>3 DEF Passed
    <3> QED
      BY <3>1, <3>2 DEF UpTo, Precedes, Forward
  <2>2. IsFiniteSet(UpTo(view, Forward, k))
    BY PlaceType, FS_Subset DEF KeySet
  <2>3. Cardinality(C) <= Cardinality(UpTo(view, Forward, k))
        /\ Cardinality(C) # Cardinality(UpTo(view, Forward, k))
    BY <1>6, <2>1, <2>2, PlaceType, FS_Subset
  <2> QED
    BY <1>3, <2>3, PlaceType
<1> QED
  BY <1>3, <1>4, <1>5, <1>6

\* A selector of offset 1 begins after the keys it counts, or ends with them.
LEMMA SelectedFacts ==
    ASSUME NEW view, KeySet(view), NEW opt \in Option, NEW k \in view
    PROVE  /\ opt.begin.offset = 1 /\ k \in Selected(view, opt) => k \notin Passed(view, opt.begin)
           /\ opt.end.offset = 1 /\ k \in Selected(view, opt) => k \in Passed(view, opt.end)
           /\ Fixed(opt) /\ k \notin Passed(view, opt.begin) /\ k \in Passed(view, opt.end)
                => k \in Selected(view, opt)
<1>1. opt.begin \in Selector /\ opt.end \in Selector
  BY DEF Option
<1>2. Place(view, Forward, k) \in Nat
  BY PlaceType
<1>3. /\ Cardinality(Passed(view, opt.begin)) \in Nat
      /\ k \in Passed(view, opt.begin) <=> Place(view, Forward, k) <= Cardinality(Passed(view, opt.begin))
  BY <1>1, PassedFacts
<1>4. /\ Cardinality(Passed(view, opt.end)) \in Nat
      /\ k \in Passed(view, opt.end) <=> Place(view, Forward, k) <= Cardinality(Passed(view, opt.end))
  BY <1>1, PassedFacts
<1>5. k \in Selected(view, opt) <=>
        /\ Place(view, Forward, k) >= opt.begin.offset + Cardinality(Passed(view, opt.begin))
        /\ Place(view, Forward, k) <= opt.end.offset + Cardinality(Passed(view, opt.end)) - 1
  BY <1>1, <1>2, <1>3, <1>4 DEF Selected, Resolve, Selector
<1> QED
  BY <1>1, <1>2, <1>3, <1>4, <1>5 DEF Fixed, Selector

\* Two selectors of offset 1 select what lies within their bounds.
LEMMA SelectedWithin ==
    ASSUME NEW view, KeySet(view), view \subseteq Key, NEW opt \in Option, Fixed(opt)
    PROVE  Selected(view, opt) = view \cap Within(opt)
<1>1. Selected(view, opt) \subseteq view
  BY DEF Selected
<1>2. ASSUME NEW k \in view PROVE k \in Selected(view, opt) <=> k \in Within(opt)
  BY <1>2, SelectedFacts DEF Within, Passed, Fixed, Option, Selector, Key
<1> QED
  BY <1>1, <1>2

\* The options that go on after a selected key select what is left.
GoesOnAfter(asked, opt, x) ==
    \/ ~asked.reverse /\ opt.begin = first_greater_than(x) /\ opt.end = asked.end
    \/ asked.reverse /\ opt.begin = asked.begin /\ opt.end = first_greater_or_equal(x)

\* Options that go on after x select nothing up to x; and all that x left.
LEMMA SelectedAfter ==
    ASSUME NEW view, KeySet(view), NEW asked \in Option, NEW opt \in Option,
           NEW x \in Int, GoesOnAfter(asked, opt, x)
    PROVE  /\ \A k \in Selected(view, opt) : Precedes(asked.reverse, x, k)
           /\ x \in Selected(view, asked) =>
                Selected(view, opt) = After(Selected(view, asked), asked.reverse, x)
<1>1. Selected(view, opt) \subseteq view /\ Selected(view, asked) \subseteq view
  BY DEF Selected
<1>2. ASSUME NEW k \in Selected(view, opt) PROVE Precedes(asked.reverse, x, k)
  <2>1. k \in view /\ k \in Int
    BY <1>1 DEF KeySet
  <2>2. CASE asked.reverse
    <3>1. opt.end = first_greater_or_equal(x) /\ opt.end.offset = 1
      BY <2>2 DEF GoesOnAfter, first_greater_or_equal, KeySelector
    <3>2. k \in Passed(view, opt.end)
      BY <2>1, <3>1, SelectedFacts
    <3> QED
      BY <2>1, <2>2, <3>1, <3>2 DEF Passed, Precedes, first_greater_or_equal, KeySelector
  <2>3. CASE ~asked.reverse
    <3>1. opt.begin = first_greater_than(x) /\ opt.begin.offset = 1
      BY <2>3 DEF GoesOnAfter, first_greater_than, KeySelector
    <3>2. k \notin Passed(view, opt.begin)
      BY <2>1, <3>1, SelectedFacts
    <3> QED
      BY <2>1, <2>3, <3>1, <3>2 DEF Passed, Precedes, first_greater_than, KeySelector
  <2> QED
    BY <2>2, <2>3
<1>3. ASSUME x \in Selected(view, asked), NEW k \in view
      PROVE  k \in Selected(view, opt) <=> k \in Selected(view, asked) /\ Precedes(asked.reverse, x, k)
  <2> DEFINE P(j) == Place(view, Forward, j)
             C(sel) == Cardinality(Passed(view, sel))
  <2>1. x \in view /\ x \in Int /\ k \in Int /\ P(x) \in Nat /\ P(k) \in Nat
    <3>1. x \in view /\ k \in Int
      BY <1>1, <1>3 DEF KeySet
    <3> QED
      BY <3>1, PlaceType
  <2>2. asked.begin \in Selector /\ asked.end \in Selector /\ opt.begin \in Selector /\ opt.end \in Selector
    BY DEF Option
  <2>3. /\ k < x => P(k) < P(x)
        /\ x < k => P(x) < P(k)
    BY <2>1, PlaceOrder DEF Precedes, Forward
  <2>4. /\ P(x) >= Resolve(view, asked.begin) /\ P(x) < Resolve(view, asked.end)
        /\ Resolve(view, asked.begin) \in Int /\ Resolve(view, asked.end) \in Int
    BY <1>3, <2>1, <2>2, PassedFacts DEF Selected
  <2>5. k \in Selected(view, asked) <=>
          P(k) >= Resolve(view, asked.begin) /\ P(k) < Resolve(view, asked.end)
    BY <2>1, <2>2, PassedFacts DEF Selected
  <2>6. k \in Selected(view, opt) <=>
          P(k) >= Resolve(view, opt.begin) /\ P(k) < Resolve(view, opt.end)
    BY <2>1, <2>2, PassedFacts DEF Selected
  <2>7. CASE asked.reverse
    <3>1. opt.end = first_greater_or_equal(x) /\ opt.begin = asked.begin
      BY <2>7 DEF GoesOnAfter
    <3>2. Resolve(view, opt.end) = 1 + C(opt.end) /\ C(opt.end) \in Nat
      BY <2>2, <3>1, PassedFacts DEF Resolve, first_greater_or_equal, KeySelector
    <3>3. k \in Passed(view, opt.end) <=> k < x
      BY <3>1 DEF Passed, first_greater_or_equal, KeySelector
    <3>4. k < x <=> P(k) <= C(opt.end)
      BY <2>2, <3>3, PassedFacts
    <3>5. Precedes(asked.reverse, x, k) <=> k < x
      BY <2>1, <2>7 DEF Precedes
    <3> HIDE DEF P, C
    <3> QED
      BY <2>1, <2>3, <2>4, <2>5, <2>6, <3>1, <3>2, <3>4, <3>5
  <2>8. CASE ~asked.reverse
    <3>1. opt.begin = first_greater_than(x) /\ opt.end = asked.end
      BY <2>8 DEF GoesOnAfter
    <3>2. Resolve(view, opt.begin) = 1 + C(opt.begin) /\ C(opt.begin) \in Nat
      BY <2>2, <3>1, PassedFacts DEF Resolve, first_greater_than, KeySelector
    <3>3. k \in Passed(view, opt.begin) <=> k <= x
      BY <2>1, <3>1 DEF Passed, first_greater_than, KeySelector
    <3>4. k <= x <=> P(k) <= C(opt.begin)
      BY <2>2, <3>3, PassedFacts
    <3>5. Precedes(asked.reverse, x, k) <=> x < k
      BY <2>1, <2>8 DEF Precedes
    <3> HIDE DEF P, C
    <3> QED
      BY <2>1, <2>3, <2>4, <2>5, <2>6, <3>1, <3>2, <3>4, <3>5
  <2> QED
    BY <2>7, <2>8
<1> QED
  BY <1>1, <1>2, <1>3 DEF After

-----------------------------------------------------------------------------
(* Sequences of keys, and batches.                                         *)

\* The items of a concatenation.
LEMMA ConcatFacts ==
    ASSUME NEW X, NEW s \in Seq(X), NEW t \in Seq(X)
    PROVE  /\ s \o t \in Seq(X) /\ Len(s \o t) = Len(s) + Len(t)
           /\ \A i \in 1 .. Len(s) : (s \o t)[i] = s[i]
           /\ \A i \in 1 .. Len(t) : (s \o t)[Len(s) + i] = t[i]
           /\ t # <<>> => s \o t # <<>> /\ (s \o t)[Len(s \o t)] = t[Len(t)]
           /\ t = <<>> => s \o t = s
OBVIOUS

\* The set of items of a concatenation.
LEMMA ConcatSet ==
    ASSUME NEW X, NEW s \in Seq(X), NEW t \in Seq(X)
    PROVE  ToSet(s \o t) = ToSet(s) \cup ToSet(t)
<1>1. ASSUME NEW i \in 1 .. Len(s \o t) PROVE (s \o t)[i] \in ToSet(s) \cup ToSet(t)
  <2>1. CASE i \in 1 .. Len(s)
    BY <2>1 DEF ToSet
  <2>2. CASE i \notin 1 .. Len(s)
    <3>1. i - Len(s) \in 1 .. Len(t) /\ (s \o t)[i] = t[i - Len(s)]
      BY <2>2
    <3> QED
      BY <3>1 DEF ToSet
  <2> QED
    BY <2>1, <2>2
<1>2. ASSUME NEW i \in 1 .. Len(s) PROVE s[i] \in ToSet(s \o t)
  BY DEF ToSet
<1>3. ASSUME NEW i \in 1 .. Len(t) PROVE t[i] \in ToSet(s \o t)
  <2>1. Len(s) + i \in 1 .. Len(s \o t) /\ (s \o t)[Len(s) + i] = t[i]
    OBVIOUS
  <2> QED
    BY <2>1 DEF ToSet
<1>4. DOMAIN s = 1 .. Len(s) /\ DOMAIN t = 1 .. Len(t) /\ DOMAIN (s \o t) = 1 .. Len(s \o t)
  OBVIOUS
<1> QED
  BY <1>1, <1>2, <1>3, <1>4 DEF ToSet

\* Ordered keys followed by ordered keys that all come later are in order.
LEMMA ConcatOrdered ==
    ASSUME NEW r, NEW s \in Seq(Int), NEW t \in Seq(Int), Ordered(s, r), Ordered(t, r),
           s = <<>> \/ \A i \in 1 .. Len(t) : Precedes(r, s[Len(s)], t[i])
    PROVE  Ordered(s \o t, r)
<1> SUFFICES ASSUME NEW i \in 1 .. Len(s \o t), NEW j \in 1 .. Len(s \o t), i < j
             PROVE  Precedes(r, (s \o t)[i], (s \o t)[j])
  BY DEF Ordered
<1>1. CASE j <= Len(s)
  BY <1>1 DEF Ordered
<1>2. CASE i > Len(s)
  <2>1. i - Len(s) \in 1 .. Len(t) /\ j - Len(s) \in 1 .. Len(t) /\ i - Len(s) < j - Len(s)
        /\ (s \o t)[i] = t[i - Len(s)] /\ (s \o t)[j] = t[j - Len(s)]
    BY <1>2
  <2> QED
    BY <2>1 DEF Ordered
<1>3. CASE i <= Len(s) /\ j > Len(s)
  <2>1. /\ i \in 1 .. Len(s) /\ Len(s) \in 1 .. Len(s) /\ j - Len(s) \in 1 .. Len(t) /\ s # <<>>
        /\ (s \o t)[i] = s[i] /\ (s \o t)[j] = t[j - Len(s)]
    BY <1>3
  <2>2. Precedes(r, s[Len(s)], t[j - Len(s)])
    BY <2>1
  <2>3. i = Len(s) \/ Precedes(r, s[i], s[Len(s)])
    BY <2>1 DEF Ordered
  <2>4. s[i] \in Int /\ s[Len(s)] \in Int /\ t[j - Len(s)] \in Int
    BY <2>1
  <2> QED
    BY <2>1, <2>2, <2>3, <2>4, PrecedesFacts
<1> QED
  BY <1>1, <1>2, <1>3

\* The first n items of a sequence.
LEMMA PrefixFacts ==
    ASSUME NEW X, NEW s \in Seq(X), NEW n \in 0 .. Len(s)
    PROVE  /\ SubSeq(s, 1, n) \in Seq(X) /\ Len(SubSeq(s, 1, n)) = n
           /\ \A i \in 1 .. n : SubSeq(s, 1, n)[i] = s[i]
           /\ n = 0 <=> SubSeq(s, 1, n) = <<>>
           /\ n = Len(s) => SubSeq(s, 1, n) = s
OBVIOUS

\* What is left after m items, and the first n of them.
LEMMA PrefixOfRest ==
    ASSUME NEW X, NEW s \in Seq(X), NEW m \in 0 .. Len(s), NEW n \in 0 .. Len(s) - m
    PROVE  SubSeq(s, 1, m) \o SubSeq(SubSeq(s, m + 1, Len(s)), 1, n) = SubSeq(s, 1, m + n)
OBVIOUS

\* What the database may return.
IsBatch(S, opt, batch, n) ==
    /\ n \in 0 .. Cardinality(S) /\ batch.kvs = SubSeq(Sorted(S, opt.reverse), 1, n)
    /\ n = 0 => S = {}
    /\ ~batch.more => n = Cardinality(S)
    /\ opt.limit # 0 => n <= opt.limit

\* What the database answers is a batch of what the options select.
LEMMA BatchFacts ==
    ASSUME NEW view, KeySet(view), NEW opt \in Option, NEW batch \in Batches(view, opt)
    PROVE  /\ KeySet(Selected(view, opt))
           /\ \E n \in Nat : IsBatch(Selected(view, opt), opt, batch, n)
<1> DEFINE S == Selected(view, opt)
           all == Sorted(S, opt.reverse)
           most == IF opt.limit = 0 THEN Len(all) ELSE AtMost(Len(all), fdb_limit(opt.limit))
<1>1. KeySet(S)
  BY FS_Subset DEF Selected, KeySet
<1>2. Len(all) = Cardinality(S) /\ Cardinality(S) \in Nat /\ all \in Seq(S)
  BY <1>1, SortedFacts
<1>3. Cardinality(S) = 0 <=> S = {}
  BY <1>1, FS_EmptySet DEF KeySet
<1>4. most \in Nat /\ most <= Cardinality(S) /\ (opt.limit # 0 => most <= opt.limit)
  BY <1>2 DEF AtMost, fdb_limit, Option
<1>5. CASE all = <<>>
  <2>1. batch = [kvs |-> SubSeq(all, 1, 0), more |-> FALSE]
    BY <1>5 DEF Batches
  <2>2. Cardinality(S) = 0
    BY <1>2, <1>5
  <2>3. IsBatch(S, opt, batch, 0)
    <3> HIDE DEF S
    <3> QED
      BY <1>3, <2>1, <2>2 DEF IsBatch, Option
  <2> QED
    BY <1>1, <2>3
<1>6. CASE all # <<>>
  <2> HIDE DEF S
  <2>1. \/ \E n \in 1 .. most : batch = [kvs |-> SubSeq(all, 1, n), more |-> TRUE]
        \/ most = Len(all) /\ batch = [kvs |-> SubSeq(all, 1, most), more |-> FALSE]
    BY <1>6 DEF Batches, S
  <2>2. Len(all) # 0
    BY <1>2, <1>6
  <2>3. CASE most = Len(all) /\ batch = [kvs |-> SubSeq(all, 1, most), more |-> FALSE]
    <3>1. IsBatch(S, opt, batch, most)
      BY <1>2, <1>3, <1>4, <2>2, <2>3 DEF IsBatch
    <3> QED
      BY <1>1, <1>4, <3>1 DEF S
  <2>4. CASE \E n \in 1 .. most : batch = [kvs |-> SubSeq(all, 1, n), more |-> TRUE]
    <3>1. PICK n \in 1 .. most : batch = [kvs |-> SubSeq(all, 1, n), more |-> TRUE]
      BY <2>4
    <3> HIDE DEF most
    <3>2. n \in Nat /\ n # 0 /\ n <= Cardinality(S) /\ (opt.limit # 0 => n <= opt.limit)
      BY <1>2, <1>4, <3>1 DEF Option
    <3>3. IsBatch(S, opt, batch, n)
      BY <1>2, <3>1, <3>2 DEF IsBatch
    <3> QED
      BY <1>1, <3>2, <3>3 DEF S
  <2> QED
    BY <2>1, <2>3, <2>4
<1> QED
  BY <1>5, <1>6

-----------------------------------------------------------------------------
(* The invariant of a stream and of a scan.                                *)

\* The keys after the last one of s, in a direction; all of them if there is none.
Rest(s, reverse, S) == {k \in S : s = <<>> \/ Precedes(reverse, s[Len(s)], k)}

\* The options that read what is left of asked once got was returned.
Continued(asked, got) ==
    LET rest == IF asked.limit = 0 THEN 0 ELSE asked.limit - Len(got)
    IN  IF got = <<>> THEN asked
        ELSE IF asked.reverse
        THEN [asked EXCEPT !.limit = rest, !.end = first_greater_or_equal(got[Len(got)])]
        ELSE [asked EXCEPT !.limit = rest, !.begin = first_greater_than(got[Len(got)])]

\* The limit is reached; what a range without writes returns; and the keys
\* in the bounds that nobody wrote.
Full(asked, got) == asked.limit # 0 /\ Len(got) = asked.limit
Alone(h, asked) == Sorted(Selected(h.stored, asked), asked.reverse)
Stable(h, asked) == (h.stored \cap Within(asked)) \ h.written

\* Nothing was left out so far, or at all.
KeptSoFar(h, asked, got) ==
    /\ h.written = {} =>
        Len(got) <= Len(Alone(h, asked)) /\ got = SubSeq(Alone(h, asked), 1, Len(got))
    /\ Fixed(asked) => Stable(h, asked) \ Rest(got, asked.reverse, Key) \subseteq ToSet(got)
KeptAll(h, asked, got) ==
    /\ h.written = {} => got = Alone(h, asked)
    /\ Fixed(asked) => Stable(h, asked) \subseteq ToSet(got)

\* Never more than was asked for.
WithinLimit(asked, got) == asked.limit # 0 => Len(got) <= asked.limit

\* The options that go on are those asked for but for one bound and the limit.
LEMMA ContinuedFacts ==
    ASSUME NEW asked \in Option, NEW got \in Seq(Key), WithinLimit(asked, got),
           NEW opt, opt = Continued(asked, got)
    PROVE  /\ opt \in Option /\ opt.reverse = asked.reverse
           /\ opt.limit = IF asked.limit = 0 THEN 0 ELSE asked.limit - Len(got)
           /\ got = <<>> => opt = asked
           /\ got # <<>> => got[Len(got)] \in Key /\ GoesOnAfter(asked, opt, got[Len(got)])
           /\ Fixed(asked) => Fixed(opt)
<1>1. CASE got = <<>>
  BY <1>1 DEF Continued, Option
<1>2. CASE got # <<>>
  <2> DEFINE x == got[Len(got)]
             rest == IF asked.limit = 0 THEN 0 ELSE asked.limit - Len(got)
  <2>1. x \in Key /\ x \in Nat /\ rest \in Nat
    BY <1>2 DEF Key, WithinLimit, Option
  <2>2. first_greater_or_equal(x) \in Selector /\ first_greater_or_equal(x).offset = 1
        /\ first_greater_than(x) \in Selector /\ first_greater_than(x).offset = 1
    BY <2>1 DEF Selector, first_greater_or_equal, first_greater_than, KeySelector
  <2>3. opt = IF asked.reverse
              THEN [asked EXCEPT !.limit = rest, !.end = first_greater_or_equal(x)]
              ELSE [asked EXCEPT !.limit = rest, !.begin = first_greater_than(x)]
    BY <1>2 DEF Continued
  <2> HIDE DEF x, rest
  <2>4. /\ opt \in Option /\ opt.reverse = asked.reverse /\ opt.limit = rest
        /\ asked.reverse => opt.begin = asked.begin /\ opt.end = first_greater_or_equal(x)
        /\ ~asked.reverse => opt.begin = first_greater_than(x) /\ opt.end = asked.end
    BY <2>1, <2>2, <2>3 DEF Option
  <2> QED
    BY <1>2, <2>1, <2>2, <2>4 DEF x, rest, GoesOnAfter, Fixed
<1> QED
  BY <1>1, <1>2

\* The options that next_range makes are those that go on after the batch.
LEMMA NextRangeContinues ==
    ASSUME NEW asked \in Option, NEW got \in Seq(Key), WithinLimit(asked, got),
           ~Full(asked, got), NEW opt, opt = Continued(asked, got),
           NEW batch, batch.kvs \in Seq(Key), opt.limit # 0 => Len(batch.kvs) <= opt.limit
    PROVE  /\ WithinLimit(asked, got \o batch.kvs)
           /\ NextRange(opt, batch) # NoValue =>
                /\ NextRange(opt, batch) = Continued(asked, got \o batch.kvs)
                /\ ~Full(asked, got \o batch.kvs)
           /\ NextRange(opt, batch) = NoValue =>
                ~batch.more \/ batch.kvs = <<>> \/ Full(asked, got \o batch.kvs)
<1> DEFINE kvs == batch.kvs
           both == got \o kvs
           x == kvs[Len(kvs)]
           rest == opt.limit - AtMost(Len(kvs), opt.limit)
           left == IF asked.limit = 0 THEN 0 ELSE asked.limit - Len(both)
<1>1. /\ opt \in Option /\ opt.reverse = asked.reverse
      /\ opt.limit = IF asked.limit = 0 THEN 0 ELSE asked.limit - Len(got)
      /\ got # <<>> => got[Len(got)] \in Key /\ GoesOnAfter(asked, opt, got[Len(got)])
      /\ got = <<>> => opt = asked
  BY ContinuedFacts
<1>2. Len(both) = Len(got) + Len(kvs) /\ both \in Seq(Key)
      /\ (kvs # <<>> => both # <<>> /\ both[Len(both)] = x)
  BY ConcatFacts
<1>3. asked.limit \in Nat /\ opt.limit \in Nat /\ asked.reverse \in BOOLEAN
  BY <1>1 DEF Option
<1>4. Len(kvs) \in Nat /\ Len(got) \in Nat
  OBVIOUS
<1>5. WithinLimit(asked, both)
  BY <1>1, <1>2, <1>3, <1>4 DEF WithinLimit, Full
<1>6. rest = left
  BY <1>1, <1>2, <1>3, <1>4 DEF AtMost, WithinLimit, Full
<1>7. NextRange(opt, batch) =
        IF ~batch.more \/ kvs = <<>> \/ (opt.limit # 0 /\ rest = 0) THEN NoValue
        ELSE IF opt.reverse THEN [opt EXCEPT !.limit = rest, !.end = first_greater_or_equal(x)]
        ELSE [opt EXCEPT !.limit = rest, !.begin = first_greater_than(x)]
  BY DEF NextRange, Last
<1>8. opt.limit # 0 /\ rest = 0 => Full(asked, both)
  <2> HIDE DEF both, rest
  <2> QED
    BY <1>1, <1>2, <1>3, <1>4, <1>6 DEF Full
<1>9. ~(opt.limit # 0 /\ rest = 0) /\ kvs # <<>> => ~Full(asked, both)
  <2>1. kvs # <<>> => Len(kvs) > 0
    BY <1>4
  <2> HIDE DEF both, rest, kvs
  <2> QED
    BY <1>1, <1>2, <1>3, <1>4, <1>6, <2>1 DEF Full
<1>10. ASSUME kvs # <<>>
       PROVE  Continued(asked, both) =
                IF opt.reverse THEN [opt EXCEPT !.limit = rest, !.end = first_greater_or_equal(x)]
                ELSE [opt EXCEPT !.limit = rest, !.begin = first_greater_than(x)]
  <2>1. Continued(asked, both) =
            IF asked.reverse THEN [asked EXCEPT !.limit = left, !.end = first_greater_or_equal(x)]
            ELSE [asked EXCEPT !.limit = left, !.begin = first_greater_than(x)]
    <3> HIDE DEF both, x, kvs
    <3> QED
      BY <1>2, <1>10 DEF Continued, left
  <2>2. asked.reverse => opt.begin = asked.begin
    BY <1>1 DEF GoesOnAfter
  <2>3. ~asked.reverse => opt.end = asked.end
    BY <1>1 DEF GoesOnAfter
  <2> HIDE DEF x, left, rest, kvs, both
  <2>4. CASE asked.reverse
    <3> DEFINE e == first_greater_or_equal(x)
    <3> HIDE DEF e
    <3>1. [asked EXCEPT !.limit = left, !.end = e] = [opt EXCEPT !.limit = rest, !.end = e]
      BY <1>1, <1>6, <2>2, <2>4 DEF Option
    <3> QED
      BY <1>1, <2>1, <2>4, <3>1 DEF e
  <2>5. CASE ~asked.reverse
    <3> DEFINE e == first_greater_than(x)
    <3> HIDE DEF e
    <3>1. [asked EXCEPT !.limit = left, !.begin = e] = [opt EXCEPT !.limit = rest, !.begin = e]
      BY <1>1, <1>6, <2>3, <2>5 DEF Option
    <3> QED
      BY <1>1, <2>1, <2>5, <3>1 DEF e
  <2> QED
    BY <2>4, <2>5
<1>11. NextRange(opt, batch) # NoValue =>
         NextRange(opt, batch) = Continued(asked, both) /\ ~Full(asked, both)
  <2> HIDE DEF x, left, rest, both, kvs
  <2> QED
    BY <1>7, <1>9, <1>10
<1>12. ASSUME ~(~batch.more \/ kvs = <<>> \/ (opt.limit # 0 /\ rest = 0))
       PROVE  NextRange(opt, batch) # NoValue
  <2> HIDE DEF left, both
  <2>1. x \in Key /\ x \in Nat
    BY <1>12 DEF Key
  <2>2. rest \in Nat
    BY <1>3, <1>4 DEF AtMost
  <2>3. /\ first_greater_or_equal(x) \in Selector
        /\ first_greater_than(x) \in Selector
    BY <2>1 DEF Selector, first_greater_or_equal, first_greater_than, KeySelector
  <2> HIDE DEF x, rest, kvs
  <2>4. NextRange(opt, batch) \in Option
    BY <1>1, <1>7, <1>12, <2>2, <2>3 DEF Option
  <2> QED
    BY <2>4
<1>13. NextRange(opt, batch) = NoValue => ~batch.more \/ kvs = <<>> \/ Full(asked, both)
  <2> HIDE DEF x, left, rest, both, kvs
  <2> QED
    BY <1>8, <1>12
<1> QED
  BY <1>5, <1>11, <1>13

-----------------------------------------------------------------------------
\* What a reader has got, and how it goes on: in order, within the limit and
\* the bounds, with nothing left out up to the last key; and with the options
\* that go on after that key, or none because it has all it may have.
Progress(h, asked, got, opt) ==
    /\ Ordered(got, asked.reverse)
    /\ WithinLimit(asked, got)
    /\ Fixed(asked) => ToSet(got) \subseteq Within(asked)
    /\ KeptSoFar(h, asked, got)
    /\ opt # NoValue => opt = Continued(asked, got) /\ ~Full(asked, got)
    /\ opt = NoValue => Full(asked, got) \/ KeptAll(h, asked, got)

\* The keys are those at the beginning but for the ones written since.
StoredInv(view, h) ==
    /\ view \subseteq Key /\ h.stored \subseteq Key
    /\ \A k \in Key \ h.written : k \in view <=> k \in h.stored

\* Every set of keys is one that can be sorted.
LEMMA KeysFinite == \A S \in SUBSET Key : KeySet(S)
<1>1. IsFiniteSet(Key)
  BY FS_Interval DEF Key
<1>2. Key \subseteq Int
  BY DEF Key
<1> QED
  BY <1>1, <1>2, FS_Subset DEF KeySet

\* The options that go on select what is left of what was asked for.
LEMMA ContinuedSelects ==
    ASSUME NEW view, NEW h, StoredInv(view, h), NEW asked \in Option, NEW got \in Seq(Key), NEW opt,
           Progress(h, asked, got, opt), opt # NoValue
    PROVE  /\ got # <<>> => \A k \in Selected(view, opt) :
                                Precedes(asked.reverse, got[Len(got)], k)
           /\ Fixed(asked) => /\ Selected(view, opt) \subseteq Within(asked)
                              /\ Stable(h, asked) \cap Rest(got, asked.reverse, Key)
                                    \subseteq Selected(view, opt)
           /\ h.written = {} =>
                Sorted(Selected(view, opt), asked.reverse)
                    = SubSeq(Alone(h, asked), Len(got) + 1, Len(Alone(h, asked)))
<1> DEFINE r == asked.reverse
           x == got[Len(got)]
           H == Selected(h.stored, asked)
<1>1. KeySet(view) /\ KeySet(h.stored)
  BY KeysFinite DEF StoredInv
<1>2. /\ opt \in Option /\ opt.reverse = asked.reverse
      /\ got = <<>> => opt = asked
      /\ got # <<>> => x \in Key /\ GoesOnAfter(asked, opt, x)
      /\ Fixed(asked) => Fixed(opt)
  BY ContinuedFacts DEF Progress
<1>3. got # <<>> => \A k \in Selected(view, opt) : Precedes(r, x, k)
  BY <1>1, <1>2, SelectedAfter DEF Key
<1>4. ASSUME Fixed(asked) PROVE Selected(view, opt) \subseteq Within(asked)
  <2>1. Selected(view, opt) = view \cap Within(opt)
    BY <1>1, <1>2, <1>4, SelectedWithin DEF StoredInv
  <2>2. CASE got = <<>>
    BY <1>2, <2>1, <2>2
  <2>3. CASE got # <<>>
    <3>1. x \in ToSet(got)
      BY <2>3 DEF ToSet
    <3>2. x \in Within(asked)
      BY <1>4, <3>1 DEF Progress
    <3> QED
      BY <1>2, <1>4, <2>1, <2>3, <3>2 DEF Within, GoesOnAfter, Fixed, Option, Selector, Key,
         first_greater_than, first_greater_or_equal, KeySelector
  <2> QED
    BY <2>2, <2>3
<1>5. ASSUME Fixed(asked), NEW k \in Stable(h, asked), k \in Rest(got, r, Key)
      PROVE  k \in Selected(view, opt)
  <2>1. Selected(view, opt) = view \cap Within(opt)
    BY <1>1, <1>2, <1>5, SelectedWithin DEF StoredInv
  <2>2. k \in view /\ k \in Within(asked) /\ k \in Key
    BY <1>5 DEF Stable, StoredInv
  <2>3. CASE got = <<>>
    BY <1>2, <2>1, <2>2, <2>3
  <2>4. CASE got # <<>>
    <3>1. Precedes(r, x, k)
      BY <1>5, <2>4 DEF Rest
    <3> QED
      BY <1>2, <2>1, <2>2, <2>4, <3>1 DEF Within, GoesOnAfter, Precedes, Option, Selector, Key,
         first_greater_than, first_greater_or_equal, KeySelector
  <2> QED
    BY <2>3, <2>4
<1>6. ASSUME h.written = {}
      PROVE  Sorted(Selected(view, opt), r) = SubSeq(Alone(h, asked), Len(got) + 1, Len(Alone(h, asked)))
  <2>1. view = h.stored
    BY <1>6 DEF StoredInv
  <2>2. KeySet(H)
    BY <1>1, FS_Subset DEF KeySet, Selected
  <2>3. Alone(h, asked) = Sorted(H, r) /\ Sorted(H, r) \in Seq(H) /\ Len(Sorted(H, r)) = Cardinality(H)
        /\ Cardinality(H) \in Nat
    BY <2>2, SortedFacts DEF Alone
  <2>4. CASE got = <<>>
    <3>1. Selected(view, opt) = H
      BY <1>2, <2>1, <2>4
    <3> HIDE DEF H
    <3> QED
      BY <2>3, <2>4, <3>1
  <2>5. CASE got # <<>>
    <3>1. Len(got) <= Len(Alone(h, asked)) /\ got = SubSeq(Alone(h, asked), 1, Len(got))
      BY <1>6 DEF Progress, KeptSoFar
    <3>2. Len(got) \in 1 .. Cardinality(H)
      BY <2>3, <2>5, <3>1
    <3>3. x = Sorted(H, r)[Len(got)]
      <4> HIDE DEF H
      <4>1. \A i \in 1 .. Len(got) : SubSeq(Sorted(H, r), 1, Len(got))[i] = Sorted(H, r)[i]
        BY <2>3, <3>2, PrefixFacts
      <4>2. got = SubSeq(Sorted(H, r), 1, Len(got))
        BY <2>3, <3>1
      <4>3. Len(got) \in 1 .. Len(got)
        BY <3>2
      <4> QED
        BY <4>1, <4>2, <4>3
    <3>4. x \in H
      BY <2>2, <3>2, <3>3, SortedFacts
    <3>5. Selected(view, opt) = After(H, r, x)
      <4>1. x \in Int
        BY <1>2, <2>5 DEF Key
      <4> QED
        BY <1>1, <1>2, <2>1, <2>5, <3>4, <4>1, SelectedAfter
    <3> HIDE DEF H, x
    <3>6. Sorted(After(H, r, x), r) = SubSeq(Sorted(H, r), Len(got) + 1, Cardinality(H))
      BY <2>2, <3>2, <3>3, SortedTail
    <3> QED
      BY <2>3, <3>5, <3>6
  <2> QED
    BY <2>4, <2>5
<1> QED
  BY <1>3, <1>4, <1>5, <1>6

\* A batch takes what is left as far as it goes.
LEMMA BatchProgress ==
    ASSUME NEW view, NEW h, StoredInv(view, h), NEW asked \in Option, NEW got \in Seq(Key), NEW opt,
           Progress(h, asked, got, opt), opt # NoValue, NEW batch \in Batches(view, opt)
    PROVE  /\ got \o batch.kvs \in Seq(Key)
           /\ Progress(h, asked, got \o batch.kvs, NextRange(opt, batch))
           /\ batch.kvs \in Seq(Key) /\ (batch.kvs = <<>> => NextRange(opt, batch) = NoValue)
<1> DEFINE r == asked.reverse
           S == Selected(view, opt)
           all == Sorted(S, r)
           kvs == batch.kvs
           both == got \o kvs
           next == NextRange(opt, batch)
           m == Len(got)
<1>1. KeySet(view) /\ S \subseteq Key
  BY KeysFinite DEF StoredInv, Selected
<1>2. /\ WithinLimit(asked, got) /\ ~Full(asked, got) /\ opt = Continued(asked, got)
      /\ opt \in Option /\ opt.reverse = r
  BY ContinuedFacts DEF Progress
<1>3. KeySet(S)
  BY <1>1, <1>2, BatchFacts
<1>4. PICK n \in Nat : IsBatch(S, opt, batch, n)
  BY <1>1, <1>2, BatchFacts
<1>5. /\ n \in 0 .. Cardinality(S) /\ kvs = SubSeq(all, 1, n)
      /\ n = 0 => S = {}
      /\ ~batch.more => n = Cardinality(S)
      /\ opt.limit # 0 => n <= opt.limit
  BY <1>2, <1>4 DEF IsBatch
<1>6. all \in Seq(S) /\ all \in Seq(Key) /\ Len(all) = Cardinality(S) /\ Cardinality(S) \in Nat
  <2> HIDE DEF S
  <2>1. all \in Seq(S) /\ Len(all) = Cardinality(S) /\ Cardinality(S) \in Nat
    BY <1>3, SortedFacts
  <2> QED
    BY <1>1, <2>1
<1>7. /\ kvs \in Seq(S) /\ kvs \in Seq(Key) /\ Len(kvs) = n
      /\ \A i \in 1 .. n : kvs[i] = all[i]
      /\ n = 0 <=> kvs = <<>>
      /\ n = Cardinality(S) => kvs = all
  <2> HIDE DEF S, all, kvs
  <2>1. n \in 0 .. Len(all)
    BY <1>5, <1>6
  <2>2. /\ kvs \in Seq(S) /\ Len(kvs) = n /\ \A i \in 1 .. n : kvs[i] = all[i]
        /\ n = 0 <=> kvs = <<>>
        /\ n = Len(all) => kvs = all
    BY <1>5, <1>6, <2>1, PrefixFacts
  <2>3. kvs \in Seq(Key)
    BY <1>5, <1>6, <2>1, PrefixFacts
  <2> QED
    BY <1>6, <2>2, <2>3
<1>8. Ordered(all, r)
  <2> HIDE DEF S
  <2> QED
    BY <1>3, SortedOrdered
<1>9. /\ got # <<>> => \A k \in S : Precedes(r, got[m], k)
      /\ Fixed(asked) => S \subseteq Within(asked) /\ Stable(h, asked) \cap Rest(got, r, Key) \subseteq S
      /\ h.written = {} => all = SubSeq(Alone(h, asked), m + 1, Len(Alone(h, asked)))
  BY ContinuedSelects
<1>10. /\ WithinLimit(asked, both)
       /\ next # NoValue => next = Continued(asked, both) /\ ~Full(asked, both)
       /\ next = NoValue => ~batch.more \/ kvs = <<>> \/ Full(asked, both)
  <2>1. opt.limit # 0 => Len(batch.kvs) <= opt.limit
    BY <1>5, <1>7
  <2>2. batch.kvs \in Seq(Key)
    BY <1>7
  <2> QED
    BY <1>2, <2>1, <2>2, NextRangeContinues
<1>11. /\ both \in Seq(Key) /\ Len(both) = m + n /\ m \in Nat
       /\ kvs # <<>> => both # <<>> /\ both[Len(both)] = kvs[n]
       /\ kvs = <<>> => both = got
       /\ both = <<>> => kvs = <<>>
       /\ ToSet(both) = ToSet(got) \cup ToSet(kvs)
  <2> HIDE DEF kvs
  <2>1. ToSet(both) = ToSet(got) \cup ToSet(kvs)
    BY <1>7, ConcatSet
  <2>2. kvs \in Seq(Key) /\ Len(kvs) = n /\ m = Len(got) /\ m \in Nat
    BY <1>7
  <2>3. /\ both \in Seq(Key) /\ Len(both) = Len(got) + Len(kvs)
        /\ kvs # <<>> => both # <<>> /\ both[Len(both)] = kvs[Len(kvs)]
        /\ kvs = <<>> => both = got
    <3>1. got \in Seq(Key) /\ both = got \o kvs
      BY DEF both
    <3> HIDE DEF both
    <3> QED
      BY <2>2, <3>1, ConcatFacts
  <2> QED
    BY <2>1, <2>2, <2>3
<1> HIDE DEF S, all, kvs, both, next, m
<1>12. next = NoValue => Full(asked, both) \/ n = Cardinality(S)
  <2>1. kvs = <<>> => n = Cardinality(S)
    <3>1. kvs = <<>> => Cardinality(S) = 0
      BY <1>5, <1>7, FS_EmptySet
    <3> QED
      BY <1>7, <3>1
  <2> QED
    BY <1>5, <1>10, <2>1
<1>13. kvs = <<>> => next = NoValue
  BY DEF next, NextRange, kvs
<1>14. Ordered(both, r)
  <2>1. Ordered(got, r)
    BY DEF Progress
  <2>2. Ordered(kvs, r)
    <3>1. \A i \in 1 .. n : i \in 1 .. Len(all)
      BY <1>5, <1>6
    <3> QED
      BY <1>7, <1>8, <3>1 DEF Ordered
  <2>3. got = <<>> \/ \A i \in 1 .. Len(kvs) : Precedes(r, got[m], kvs[i])
    <3>1. \A i \in 1 .. Len(kvs) : kvs[i] \in S
      BY <1>7
    <3> QED
      BY <1>9, <3>1
  <2>4. got \in Seq(Int) /\ kvs \in Seq(Int)
    <3>1. \A s \in Seq(Key) : s \in Seq(Int)
      BY DEF Key
    <3> QED
      BY <1>7, <3>1
  <2> QED
    BY <2>1, <2>2, <2>3, <2>4, ConcatOrdered DEF both, m
<1>15. Fixed(asked) => ToSet(both) \subseteq Within(asked)
  <2>1. ToSet(kvs) \subseteq S
    BY <1>7 DEF ToSet
  <2> QED
    BY <1>9, <1>11, <2>1 DEF Progress
<1>16. ASSUME h.written = {}
       PROVE  /\ Len(both) <= Len(Alone(h, asked)) /\ both = SubSeq(Alone(h, asked), 1, Len(both))
              /\ n = Cardinality(S) => both = Alone(h, asked)
  <2> DEFINE alone == Alone(h, asked)
  <2>1. m <= Len(alone) /\ got = SubSeq(alone, 1, m)
    BY <1>16 DEF Progress, KeptSoFar, m
  <2>2. alone \in Seq(Key)
    <3>1. KeySet(Selected(h.stored, asked)) /\ Selected(h.stored, asked) \subseteq Key
      BY KeysFinite DEF Selected, StoredInv
    <3>2. alone \in Seq(Selected(h.stored, asked))
      BY <3>1, SortedFacts DEF Alone
    <3> QED
      BY <3>1, <3>2
  <2> HIDE DEF alone
  <2>3. all = SubSeq(alone, m + 1, Len(alone)) /\ Len(all) = Len(alone) - m
    <3>1. all = SubSeq(alone, m + 1, Len(alone))
      BY <1>9, <1>16 DEF alone
    <3> QED
      BY <1>11, <2>1, <2>2, <3>1
  <2>4. m \in 0 .. Len(alone) /\ n \in 0 .. Len(alone) - m
    BY <1>5, <1>6, <1>11, <2>1, <2>2, <2>3
  <2>5. both = SubSeq(alone, 1, m + n)
    <3>1. SubSeq(alone, 1, m) \o SubSeq(SubSeq(alone, m + 1, Len(alone)), 1, n) = SubSeq(alone, 1, m + n)
      BY <2>2, <2>4, PrefixOfRest
    <3> QED
      BY <1>5, <2>1, <2>3, <3>1 DEF both
  <2>6. n = Cardinality(S) => m + n = Len(alone)
    BY <1>6, <1>11, <2>2, <2>3
  <2>7. SubSeq(alone, 1, Len(alone)) = alone
    BY <2>2
  <2>8. m + n <= Len(alone)
    BY <1>11, <2>2, <2>4
  <2> QED
    BY <1>11, <2>5, <2>6, <2>7, <2>8 DEF alone
<1>17. ASSUME Fixed(asked), NEW k \in Stable(h, asked),
              n = Cardinality(S) \/ k \notin Rest(both, r, Key)
       PROVE  k \in ToSet(both)
  <2>1. k \in Key
    BY <1>17 DEF Stable, StoredInv
  <2>2. CASE k \notin Rest(got, r, Key)
    BY <1>11, <1>17, <2>2 DEF Progress, KeptSoFar
  <2>3. CASE k \in Rest(got, r, Key)
    <3>1. k \in S
      BY <1>9, <1>17, <2>3
    <3>2. PICK i \in 1 .. Cardinality(S) : all[i] = k
      <4>1. Place(S, r, k) \in 1 .. Cardinality(S) /\ all[Place(S, r, k)] = k
        BY <1>3, <3>1, PlaceType, SortedFacts DEF all
      <4> QED
        BY <4>1
    <3>3. i <= n
      <4>1. CASE n = Cardinality(S)
        BY <4>1
      <4>2. CASE k \notin Rest(both, r, Key)
        <5>1. kvs # <<>>
          BY <1>11, <2>3, <4>2
        <5>2. n \in 1 .. Len(all) /\ both # <<>> /\ both[Len(both)] = all[n]
          BY <1>5, <1>6, <1>7, <1>11, <5>1
        <5>3. ~Precedes(r, all[n], all[i])
          BY <2>1, <3>2, <4>2, <5>2 DEF Rest
        <5> QED
          BY <1>6, <1>8, <5>2, <5>3 DEF Ordered
      <4> QED
        BY <1>17, <4>1, <4>2
    <3>4. i \in 1 .. n /\ kvs[i] = k
      BY <1>7, <3>2, <3>3
    <3>5. k \in ToSet(kvs)
      BY <1>7, <3>4 DEF ToSet
    <3> QED
      BY <1>11, <3>5
  <2> QED
    BY <2>2, <2>3
<1>18. KeptSoFar(h, asked, both)
  BY <1>16, <1>17 DEF KeptSoFar, r
<1>19. n = Cardinality(S) => KeptAll(h, asked, both)
  BY <1>16, <1>17 DEF KeptAll
<1>20. Progress(h, asked, both, next)
  BY <1>10, <1>12, <1>14, <1>15, <1>18, <1>19 DEF Progress, r
<1> QED
  BY <1>7, <1>11, <1>13, <1>20 DEF both, kvs, next

-----------------------------------------------------------------------------
\* The shape of what is being read.
ReadType ==
    /\ read.asked \in Option /\ read.got \in Seq(Key) /\ read.done \in Seq(Key)
    /\ read = [kind |-> read.kind, asked |-> read.asked, opt |-> read.opt,
               got |-> read.got, done |-> read.done, check |-> read.check]
    /\ history = [stored |-> history.stored, covered |-> history.covered, written |-> history.written]
\* A scan reads everything; a page that is checked having read nothing is the
\* last; and a page could begin again from what is done.
ScanState ==
    /\ read.check => read.kind = "scan"
    /\ read.kind = "scan" =>
        /\ read.asked = Everything /\ Len(read.done) <= Len(read.got)
        /\ read.check /\ read.got = read.done => read.opt = NoValue
        /\ Progress(history, read.asked, read.done, ResumedAt(read.asked, read.done))

\* The invariant of streams and scans.
ReadInv ==
    /\ ReadType /\ StoredInv(stored, history) /\ ScanState
    /\ read.kind \in {"stream", "scan"} => Progress(history, read.asked, read.got, read.opt)

\* What a scan asks for.
LEMMA EverythingFacts ==
    /\ Everything \in Option /\ Everything.limit = 0 /\ Everything.reverse = FALSE
    /\ Everything.begin = first_greater_or_equal(1)
    /\ Everything.end = first_greater_or_equal(MaxKey + 1)
BY DEF Everything, HalfOpen, RangeOption, first_greater_or_equal, KeySelector, Option, Selector

\* A page of a scan begins where the range goes on after what is done.
LEMMA PageBegins ==
    ASSUME NEW done \in Seq(Key)
    PROVE  /\ ResumedAt(Everything, done) = Continued(Everything, done)
           /\ ResumedAt(Everything, done) # NoValue
<1>1. ResumedAt(Everything, done) = Continued(Everything, done)
  <2>1. CASE done = <<>>
    BY <2>1 DEF ResumedAt, Continued
  <2>2. CASE done # <<>>
    <3> DEFINE b == first_greater_than(done[Len(done)])
    <3> HIDE DEF b
    <3>1. ResumedAt(Everything, done) = [Everything EXCEPT !.begin = b]
      BY <2>2 DEF ResumedAt, b, Last
    <3>2. Continued(Everything, done) = [Everything EXCEPT !.limit = 0, !.begin = b]
      BY <2>2, EverythingFacts DEF Continued, b
    <3>3. [Everything EXCEPT !.begin = b] = [Everything EXCEPT !.limit = 0, !.begin = b]
      BY EverythingFacts DEF Option
    <3> QED
      BY <3>1, <3>2, <3>3
  <2> QED
    BY <2>1, <2>2
<1>2. Continued(Everything, done) \in Option
  BY EverythingFacts, ContinuedFacts DEF WithinLimit
<1>3. NoValue \notin Option
  BY NoValueAssumption
<1> QED
  BY <1>1, <1>2, <1>3

\* What a page has read is done when the next begins.
LEMMA PageProgress ==
    ASSUME NEW h, NEW got \in Seq(Key), NEW opt, Progress(h, Everything, got, opt)
    PROVE  Progress(h, Everything, got, ResumedAt(Everything, got))
BY PageBegins, EverythingFacts DEF Progress, Full

\* A page that has read as much as it began with has read nothing since.
LEMMA PageGrows ==
    ASSUME NEW X, NEW done \in Seq(X), NEW got \in Seq(X), NEW kvs \in Seq(X),
           Len(done) <= Len(got)
    PROVE  Len(done) <= Len(got \o kvs) /\ (got \o kvs = done => kvs = <<>>)
<1>1. /\ Len(got \o kvs) = Len(got) + Len(kvs)
      /\ Len(got) \in Nat /\ Len(kvs) \in Nat /\ Len(done) \in Nat
  OBVIOUS
<1>2. Len(done) <= Len(got \o kvs)
  BY <1>1
<1>3. Len(kvs) = 0 => kvs = <<>>
  OBVIOUS
<1>4. ASSUME got \o kvs = done PROVE Len(kvs) = 0
  BY <1>1, <1>4
<1> QED
  BY <1>2, <1>3, <1>4

\* A write leaves fewer keys to return.
LEMMA ProgressKept ==
    ASSUME NEW h, NEW after, after.stored = h.stored, after.written # {},
           \A j \in h.written : j \in after.written,
           NEW asked, NEW got, NEW opt, opt # NoValue, Progress(h, asked, got, opt)
    PROVE  Progress(after, asked, got, opt)
<1>1. Stable(after, asked) \subseteq Stable(h, asked)
  BY DEF Stable
<1>2. KeptSoFar(after, asked, got)
  BY <1>1 DEF Progress, KeptSoFar
<1> QED
  BY <1>2 DEF Progress

\* A reader that has got nothing goes on with what it asks for.
LEMMA StartProgress ==
    ASSUME NEW view, NEW h, StoredInv(view, h), h.written = {}, NEW asked \in Option
    PROVE  Progress(h, asked, <<>>, asked)
<1>1. Ordered(<<>>, asked.reverse) /\ WithinLimit(asked, <<>>) /\ ToSet(<<>>) \subseteq Within(asked)
  BY DEF Ordered, WithinLimit, Option, ToSet
<1>2. KeptSoFar(h, asked, <<>>)
  <2>1. Rest(<<>>, asked.reverse, Key) = Key
    BY DEF Rest
  <2>2. Stable(h, asked) \subseteq Key
    BY DEF Stable, StoredInv
  <2>3. Len(Alone(h, asked)) \in Nat /\ SubSeq(Alone(h, asked), 1, 0) = <<>>
    <3>1. KeySet(Selected(h.stored, asked))
      BY KeysFinite DEF Selected, StoredInv
    <3>2. Alone(h, asked) \in Seq(Selected(h.stored, asked))
      BY <3>1, SortedFacts DEF Alone
    <3> QED
      BY <3>2
  <2>4. Len(<<>>) = 0
    OBVIOUS
  <2> QED
    BY <2>1, <2>2, <2>3, <2>4 DEF KeptSoFar
<1>3. asked = Continued(asked, <<>>) /\ ~Full(asked, <<>>) /\ asked # NoValue
  BY DEF Continued, Full, Option
<1> QED
  BY <1>1, <1>2, <1>3 DEF Progress

\* A stream, a scan and a conflict-range read begin so.
LEMMA ReadInit == RangeInit => ReadInv
<1> SUFFICES ASSUME RangeInit PROVE ReadInv
  OBVIOUS
<1>1. StoredInv(stored, history) /\ history.written = {}
  BY DEF RangeInit, StoredInv, Key
<1>2. \/ \E opt \in Requests : read = NewRead("stream", opt)
      \/ read = NewRead("scan", Everything)
      \/ read = NewRead("conflicts", Everything)
  BY DEF RangeInit
<1>3. read.asked \in Option /\ read.opt = read.asked /\ read.got = <<>> /\ read.done = <<>> /\ ~read.check
      /\ (read.kind = "scan" => read.asked = Everything)
  BY <1>2, EverythingFacts DEF NewRead
<1>4. history = [stored |-> history.stored, covered |-> history.covered, written |-> history.written]
  BY DEF RangeInit
<1>5. ReadType
  BY <1>2, <1>3, <1>4 DEF ReadType, NewRead
<1>6. Progress(history, read.asked, <<>>, read.asked) /\ ResumedAt(read.asked, <<>>) = read.asked
  BY <1>1, <1>3, StartProgress DEF ResumedAt
<1>7. Len(read.done) <= Len(read.got)
  BY <1>3
<1> QED
  BY <1>1, <1>3, <1>5, <1>6, <1>7 DEF ReadInv, ScanState

\* Batches, failures, budgets, writes and conflict ranges keep it so.
LEMMA ReadStep == ReadInv /\ [RangeNext]_rangevars => ReadInv'
<1> SUFFICES ASSUME ReadInv, [RangeNext]_rangevars PROVE ReadInv'
  OBVIOUS
<1> USE DEF ReadInv
<1>0. /\ ReadType /\ StoredInv(stored, history) /\ ScanState
      /\ read.kind \in {"stream", "scan"} => Progress(history, read.asked, read.got, read.opt)
  OBVIOUS
<1>1. CASE NextBatch
  <2>1. /\ read.opt # NoValue /\ read.kind \in {"stream", "scan"}
        /\ UNCHANGED <<stored, history>>
    BY <1>1 DEF NextBatch, Reading
  <2>2. PICK batch \in Batches(stored, read.opt) :
            read' = [read EXCEPT !.opt = NextRange(read.opt, batch), !.got = @ \o batch.kvs,
                                 !.check = read.kind = "scan"]
    BY <1>1 DEF NextBatch
  <2>3. /\ read'.opt = NextRange(read.opt, batch) /\ read'.got = read.got \o batch.kvs
        /\ read'.check = (read.kind = "scan") /\ read'.kind = read.kind /\ read'.asked = read.asked
        /\ read'.done = read.done
        /\ read' = [kind |-> read'.kind, asked |-> read'.asked, opt |-> read'.opt,
                    got |-> read'.got, done |-> read'.done, check |-> read'.check]
    BY <2>2 DEF ReadType
  <2>4. /\ read.got \o batch.kvs \in Seq(Key)
        /\ Progress(history, read.asked, read.got \o batch.kvs, NextRange(read.opt, batch))
        /\ batch.kvs \in Seq(Key) /\ (batch.kvs = <<>> => NextRange(read.opt, batch) = NoValue)
    BY <1>0, <2>1, BatchProgress DEF ReadType
  <2>5. Progress(history', read'.asked, read'.got, read'.opt)
    BY <2>1, <2>3, <2>4
  <2>6. StoredInv(stored', history')
    BY <1>0, <2>1
  <2>7. ReadType'
    BY <1>0, <2>1, <2>3, <2>4 DEF ReadType
  <2>8. ASSUME Len(read.done) <= Len(read.got)
        PROVE  /\ Len(read'.done) <= Len(read'.got)
               /\ read'.got = read'.done => read'.opt = NoValue
    <3>1. /\ Len(read.done) <= Len(read.got \o batch.kvs)
          /\ read.got \o batch.kvs = read.done => batch.kvs = <<>>
      BY <1>0, <2>4, <2>8, PageGrows DEF ReadType
    <3>2. /\ read'.got = read.got \o batch.kvs /\ read'.done = read.done
          /\ read'.opt = NextRange(read.opt, batch)
      BY <2>3
    <3>3. batch.kvs = <<>> => NextRange(read.opt, batch) = NoValue
      BY <2>4
    <3> QED
      BY <3>1, <3>2, <3>3, Zenon
  <2>9. ScanState'
    BY <1>0, <2>1, <2>3, <2>8 DEF ScanState
  <2> QED
    BY <2>5, <2>6, <2>7, <2>9
<1>2. CASE BatchFails
  <2>1. /\ read'.kind = "failed" /\ read'.asked = read.asked /\ read'.got = read.got
        /\ read'.check = read.check /\ ~read.check /\ read'.done = read.done
        /\ UNCHANGED <<stored, history>>
        /\ read' = [kind |-> read'.kind, asked |-> read'.asked, opt |-> read'.opt,
                    got |-> read'.got, done |-> read'.done, check |-> read'.check]
    BY <1>0, <1>2 DEF BatchFails, ReadType, Reading
  <2>2. StoredInv(stored', history')
    BY <1>0, <2>1
  <2> QED
    BY <1>0, <2>1, <2>2 DEF ReadType, ScanState
<1>3. CASE NextMarkers
  <2>1. /\ read.kind = "conflicts" /\ read'.kind = read.kind /\ read'.asked = read.asked
        /\ read'.got = read.got /\ read'.check = read.check /\ read'.done = read.done
        /\ UNCHANGED <<stored, history>>
        /\ read' = [kind |-> read'.kind, asked |-> read'.asked, opt |-> read'.opt,
                    got |-> read'.got, done |-> read'.done, check |-> read'.check]
    BY <1>0, <1>3 DEF NextMarkers, ReadType, Reading
  <2>2. StoredInv(stored', history')
    BY <1>0, <2>1
  <2> QED
    BY <1>0, <2>1, <2>2 DEF ReadType, ScanState
<1>4. CASE CheckBudget
  <2>1. /\ read.check /\ UNCHANGED <<stored, history>>
        /\ \/ read' = [read EXCEPT !.check = FALSE]
           \/ read.got = read.done /\ read' = [read EXCEPT !.check = FALSE, !.opt = NoValue]
           \/ read' = [read EXCEPT !.check = FALSE, !.done = read.got,
                                   !.opt = ResumedAt(read.asked, read.got)]
    BY <1>4 DEF CheckBudget
  <2>2. /\ read.kind = "scan" /\ read.asked = Everything /\ Len(read.done) <= Len(read.got)
        /\ read.got = read.done => read.opt = NoValue
        /\ Progress(history, read.asked, read.done, ResumedAt(read.asked, read.done))
        /\ Progress(history, read.asked, read.got, read.opt)
    BY <1>0, <2>1 DEF ScanState
  <2>3. /\ read'.kind = read.kind /\ read'.asked = read.asked /\ read'.got = read.got
        /\ ~read'.check
        /\ \/ read'.opt = read.opt /\ read'.done = read.done
           \/ read'.opt = ResumedAt(read.asked, read.got) /\ read'.done = read.got
        /\ read' = [kind |-> read'.kind, asked |-> read'.asked, opt |-> read'.opt,
                    got |-> read'.got, done |-> read'.done, check |-> read'.check]
    BY <1>0, <2>1, <2>2 DEF ReadType
  <2>4. ReadType' /\ StoredInv(stored', history')
    BY <1>0, <2>1, <2>3 DEF ReadType
  <2>5. CASE read'.opt = read.opt /\ read'.done = read.done
    BY <2>1, <2>2, <2>3, <2>4, <2>5 DEF ScanState
  <2>6. CASE read'.opt = ResumedAt(read.asked, read.got) /\ read'.done = read.got
    <3>1. Progress(history, read.asked, read.got, ResumedAt(read.asked, read.got))
      BY <1>0, <2>2, PageProgress DEF ReadType
    <3>2. Len(read.got) <= Len(read.got)
      BY <1>0 DEF ReadType
    <3> QED
      BY <2>1, <2>2, <2>3, <2>4, <2>6, <3>1, <3>2 DEF ScanState
  <2> QED
    BY <2>3, <2>5, <2>6
<1>8. CASE PageRetried
  <2>1. /\ read.kind = "scan" /\ UNCHANGED <<stored, history>>
        /\ read' = [read EXCEPT !.check = FALSE, !.got = read.done,
                                !.opt = ResumedAt(read.asked, read.done)]
    BY <1>8 DEF PageRetried
  <2>2. /\ read'.kind = read.kind /\ read'.asked = read.asked /\ read'.got = read.done
        /\ read'.done = read.done /\ ~read'.check /\ read'.opt = ResumedAt(read.asked, read.done)
        /\ read' = [kind |-> read'.kind, asked |-> read'.asked, opt |-> read'.opt,
                    got |-> read'.got, done |-> read'.done, check |-> read'.check]
    BY <1>0, <2>1 DEF ReadType
  <2>3. /\ read.asked = Everything /\ Len(read.done) <= Len(read.done)
        /\ Progress(history, read.asked, read.done, ResumedAt(read.asked, read.done))
    BY <1>0, <2>1 DEF ScanState, ReadType
  <2>4. ReadType' /\ StoredInv(stored', history')
    BY <1>0, <2>1, <2>2 DEF ReadType
  <2> QED
    BY <2>1, <2>2, <2>3, <2>4 DEF ScanState
<1>5. ASSUME NEW k \in Key, WriteKey(k) PROVE ReadInv'
  <2>1. /\ read' = read /\ stored' = IF k \in stored THEN stored \ {k} ELSE stored \cup {k}
        /\ history' = [history EXCEPT !.written = @ \cup {k}]
        /\ read.opt # NoValue
    BY <1>5 DEF WriteKey
  <2>2. history'.stored = history.stored /\ k \in history'.written
        /\ \A j \in history.written : j \in history'.written
        /\ history' = [stored |-> history'.stored, covered |-> history'.covered, written |-> history'.written]
    BY <1>0, <2>1 DEF ReadType
  <2>3. StoredInv(stored', history')
    BY <1>0, <1>5, <2>1, <2>2 DEF StoredInv
  <2>4. ASSUME read.kind \in {"stream", "scan"}
        PROVE  Progress(history', read'.asked, read'.got, read'.opt)
    <3>1. Progress(history, read.asked, read.got, read.opt) /\ history'.written # {}
      BY <1>0, <2>2, <2>4
    <3>2. Progress(history', read.asked, read.got, read.opt)
      BY <2>1, <2>2, <3>1, ProgressKept
    <3> QED
      BY <2>1, <3>2
  <2>5. ASSUME read.kind = "scan"
        PROVE  Progress(history', read.asked, read.done, ResumedAt(read.asked, read.done))
    <3>1. ResumedAt(read.asked, read.done) # NoValue
      BY <1>0, <2>5, PageBegins DEF ReadType, ScanState
    <3> QED
      BY <1>0, <2>2, <2>5, <3>1, ProgressKept DEF ScanState
  <2>6. ReadType'
    BY <1>0, <2>1, <2>2 DEF ReadType
  <2>7. ScanState'
    BY <1>0, <2>1, <2>5 DEF ScanState
  <2> QED
    BY <2>3, <2>1, <2>4, <2>6, <2>7
<1>6. ASSUME NEW k \in 1 .. MaxKey - 1, AddConflict(k) PROVE ReadInv'
  <2>1. UNCHANGED <<stored, history, read>>
    BY <1>6 DEF AddConflict
  <2> QED
    BY <1>0, <2>1 DEF ReadType, ScanState
<1>7. CASE UNCHANGED rangevars
  <2>1. UNCHANGED <<stored, history, read>>
    BY <1>7 DEF rangevars
  <2> QED
    BY <1>0, <2>1 DEF ReadType, ScanState
<1> QED
  BY <1>1, <1>2, <1>3, <1>4, <1>5, <1>6, <1>7, <1>8 DEF RangeNext

\* The first n items of a sequence are a prefix of it.
LEMMA PrefixIs ==
    ASSUME NEW X, NEW s \in Seq(X), NEW n \in 0 .. Len(s)
    PROVE  IsPrefix(SubSeq(s, 1, n), s)
BY DEF IsPrefix

\* A reader that made such progress has read each key once.
LEMMA ReadImplies == ReadInv => RangeReadOnce
<1> SUFFICES ASSUME ReadInv, read.kind \in {"stream", "scan"} PROVE RangeReadOnce
  BY DEF RangeReadOnce
<1> DEFINE asked == read.asked
           got == read.got
           alone == Sorted(Selected(history.stored, asked), asked.reverse)
<1>1. /\ asked \in Option /\ got \in Seq(Key) /\ StoredInv(stored, history)
      /\ Progress(history, asked, got, read.opt)
  BY DEF ReadInv, ReadType
<1>2. ASSUME NEW i \in 1 .. Len(got) - 1 PROVE Precedes(asked.reverse, got[i], got[i + 1])
  <2>1. i \in 1 .. Len(got) /\ i + 1 \in 1 .. Len(got) /\ i < i + 1
    BY <1>1
  <2> QED
    BY <1>1, <2>1 DEF Progress, Ordered
<1>3. history.written = {} => IsPrefix(got, alone)
  <2>1. alone = Alone(history, asked) /\ alone \in Seq(Selected(history.stored, asked))
    <3>1. KeySet(Selected(history.stored, asked))
      BY <1>1, KeysFinite DEF Selected, StoredInv
    <3> QED
      BY <3>1, SortedFacts DEF Alone
  <2> HIDE DEF alone
  <2>2. history.written = {} => Len(got) \in 0 .. Len(alone) /\ got = SubSeq(alone, 1, Len(got))
    BY <1>1, <2>1 DEF Progress, KeptSoFar
  <2> QED
    BY <2>1, <2>2, PrefixIs
<1>4. alone = Alone(history, asked)
  BY DEF Alone
<1>5. /\ asked.limit # 0 => Len(got) <= asked.limit
      /\ Fixed(asked) => ToSet(got) \subseteq Within(asked)
  BY <1>1 DEF Progress, WithinLimit
<1>6. Ended /\ ~(asked.limit # 0 /\ Len(got) = asked.limit) =>
        /\ history.written = {} => got = alone
        /\ Fixed(asked) => (history.stored \cap Within(asked)) \ history.written \subseteq ToSet(got)
  BY <1>1, <1>4 DEF Progress, Ended, Full, KeptAll, Stable
<1> QED
  BY <1>2, <1>3, <1>5, <1>6 DEF RangeReadOnce

\* get_ranges, next_range and the budgeted scan: for any keys, requests, limits
\* and budgets, whatever batches the database answers with and whatever is
\* written in between, each key is returned once, in order, inside the range and
\* the limit, and at the end none is missing.
THEOREM RangesReadOnce == RangeSpec => []RangeReadOnce
<1>1. RangeInit => ReadInv
  BY ReadInit
<1>2. ReadInv /\ [RangeNext]_rangevars => ReadInv'
  BY ReadStep
<1>3. ReadInv => RangeReadOnce
  BY ReadImplies
<1> QED
  BY <1>1, <1>2, <1>3, PTL DEF RangeSpec
-----------------------------------------------------------------------------
(* Conflict ranges.                                                        *)

\* The markers of the conflict ranges c, which lie inside the key space.
Edges(c) == {k \in Key : (k \in c) # (k - 1 \in c)}
Bounded(c) == c \subseteq 1 .. MaxKey - 1

\* Where there is no edge, every key is covered or none is.
LEMMA NoEdge ==
    ASSUME NEW c, NEW a \in 0 .. MaxKey, NEW b \in 0 .. MaxKey,
           \A k \in Edges(c) : ~(a < k /\ k <= b)
    PROVE  \A x \in a .. b : x \in c <=> a \in c
<1> DEFINE Odd == {x \in a .. b : ~(x \in c <=> a \in c)}
<1> SUFFICES ASSUME Odd # {} PROVE FALSE
  OBVIOUS
<1>1. Odd \subseteq Nat
  OBVIOUS
<1>2. PICK x \in Odd : \A y \in Odd : x <= y
  <2> HIDE DEF Odd
  <2> QED
    BY <1>1, LeastNumber
<1>3. x # a /\ x \in a .. b
  BY <1>2
<1>4. x - 1 \in a .. b /\ ~(x <= x - 1)
  BY <1>3
<1>5. x - 1 \in c <=> a \in c
  BY <1>2, <1>4
<1>6. (x \in c) # (x - 1 \in c)
  BY <1>2, <1>5
<1>7. x \in Key
  BY <1>3 DEF Key
<1>8. x \in Edges(c) /\ a < x /\ x <= b
  BY <1>3, <1>6, <1>7 DEF Edges
<1> QED
  BY <1>8

\* The parser; the keys of a reported range; and of all of them.
Parser == [open : Key \cup {NoValue}, ranges : Seq(Key \X Key)]
Spanned(pair) == pair[1] .. pair[2] - 1
InRanges(p, k) == \E i \in 1 .. Len(p.ranges) : k \in Spanned(p.ranges[i])

\* What is reported is covered, by c.
ParserSound(c, p) ==
    p \in Parser /\ \A i \in 1 .. Len(p.ranges) : Spanned(p.ranges[i]) \subseteq c

\* The parser once it has seen the markers up to l, 0 before the first one.
\* Unless something was added to c0, it has all that is covered up to there.
ParserAt(c0, c, p, l) ==
    /\ ParserSound(c, p)
    /\ \A i \in 1 .. Len(p.ranges) : p.ranges[i][2] <= l
    /\ p.open # NoValue =>
        p.open = l /\ l \in c /\ \A i \in 1 .. Len(p.ranges) : p.ranges[i][2] < l
    /\ \A i, j \in 1 .. Len(p.ranges) : i < j => p.ranges[i][2] < p.ranges[j][1]
    /\ c = c0 => \A k \in c : k <= l => InRanges(p, k) \/ k = p.open

\* The items of a sequence with one more.
LEMMA AppendFacts ==
    ASSUME NEW X, NEW s \in Seq(X), NEW e \in X
    PROVE  /\ Append(s, e) \in Seq(X) /\ Len(Append(s, e)) = Len(s) + 1
           /\ \A i \in 1 .. Len(s) : Append(s, e)[i] = s[i]
           /\ Append(s, e)[Len(s) + 1] = e
           /\ \A i \in 1 .. Len(s) + 1 : i \in 1 .. Len(s) \/ i = Len(s) + 1
OBVIOUS

\* The next marker, fed, takes the parser there.
LEMMA MarkerKeeps ==
    ASSUME Bounded(covered), NEW c0, NEW p, NEW l \in 0 .. MaxKey, ParserAt(c0, covered, p, l),
           NEW k \in Edges(covered), l < k, \A e \in Edges(covered) : ~(l < e /\ e < k)
    PROVE  ParserAt(c0, covered, Marker(p, k), k)
<1>1. k \in Key /\ k \in 1 .. MaxKey /\ k - 1 \in 0 .. MaxKey /\ l \in l .. k - 1 /\ k - 1 \in l .. k - 1
  BY DEF Edges, Key
<1>2. \A x \in l .. k - 1 : x \in covered <=> l \in covered
  <2>1. \A e \in Edges(covered) : ~(l < e /\ e <= k - 1)
    BY <1>1 DEF Edges, Key
  <2> QED
    BY <1>1, <2>1, NoEdge
<1>3. k \in covered <=> l \notin covered
  <2>1. k \in covered <=> k - 1 \notin covered
    BY DEF Edges
  <2> QED
    BY <1>1, <1>2, <2>1
<1>4. p \in Parser /\ p.ranges \in Seq(Key \X Key) /\ Len(p.ranges) \in Nat
  BY DEF ParserAt, ParserSound, Parser
<1>5. \A i \in 1 .. Len(p.ranges) : p.ranges[i] \in Key \X Key /\ p.ranges[i][2] \in Nat
  BY <1>4 DEF Key
<1>6. CASE k \in covered
  <2>1. p.open = NoValue
    BY <1>3, <1>6 DEF ParserAt
  <2>2. Marker(p, k).open = k /\ Marker(p, k).ranges = p.ranges /\ Marker(p, k) \in Parser
    BY <1>1, <1>4, <1>6 DEF Marker, Parser
  <2>3. ASSUME covered = c0, NEW x \in covered, x <= k PROVE InRanges(p, x) \/ x = k
    <3>1. CASE x <= l
      <4>1. x # NoValue
        BY <2>3 DEF Bounded
      <4> QED
        BY <2>1, <2>3, <3>1, <4>1 DEF ParserAt
    <3>2. CASE ~(x <= l)
      <4>1. x = k \/ x \in l .. k - 1
        BY <1>1, <2>3, <3>2 DEF Bounded
      <4> QED
        BY <1>2, <1>3, <1>6, <2>3, <4>1
    <3> QED
      BY <3>1, <3>2
  <2>4. \A i \in 1 .. Len(p.ranges) : p.ranges[i][2] < k
    BY <1>1, <1>5 DEF ParserAt
  <2>5. \A x : InRanges(Marker(p, k), x) <=> InRanges(p, x)
    BY <2>2 DEF InRanges
  <2>6. ParserSound(covered, Marker(p, k))
    BY <2>2 DEF ParserSound, ParserAt
  <2>7. \A i, j \in 1 .. Len(p.ranges) : i < j => p.ranges[i][2] < p.ranges[j][1]
    BY DEF ParserAt
  <2>8. \A i \in 1 .. Len(p.ranges) : p.ranges[i][2] <= k
    BY <1>1, <1>5, <2>4
  <2> QED
    BY <1>6, <2>2, <2>3, <2>4, <2>5, <2>6, <2>7, <2>8 DEF ParserAt
<1>7. CASE k \notin covered /\ p.open = NoValue
  <2>1. Marker(p, k) = p
    BY <1>7 DEF Marker
  <2>2. l \in covered /\ l # NoValue
    BY <1>3, <1>7
  <2>3. ~InRanges(p, l)
    BY <1>5 DEF ParserAt, InRanges, Spanned, Key
  <2>4. covered # c0
    BY <1>7, <2>2, <2>3 DEF ParserAt
  <2>5. \A i \in 1 .. Len(p.ranges) : p.ranges[i][2] <= k
    BY <1>1, <1>5 DEF ParserAt
  <2> QED
    BY <1>7, <2>1, <2>4, <2>5 DEF ParserAt
<1>8. CASE k \notin covered /\ p.open # NoValue
  <2>1. p.open = l /\ l \in covered /\ l \in Key
        /\ \A i \in 1 .. Len(p.ranges) : p.ranges[i][2] < l
    <3>1. p.open = l /\ \A i \in 1 .. Len(p.ranges) : p.ranges[i][2] < l
      BY <1>8 DEF ParserAt
    <3>2. l \in Key
      BY <1>4, <1>8, <3>1 DEF Parser
    <3> QED
      BY <1>3, <1>8, <3>1, <3>2
  <2> DEFINE pair == <<l, k>>
             more == Append(p.ranges, pair)
             n == Len(p.ranges)
  <2>2. Marker(p, k) = [open |-> NoValue, ranges |-> more]
    BY <1>8, <2>1 DEF Marker
  <2>3. pair \in Key \X Key /\ pair[1] = l /\ pair[2] = k
    BY <1>1, <2>1
  <2>4. Spanned(pair) \subseteq covered
    BY <1>2, <2>1, <2>3 DEF Spanned
  <2> HIDE DEF pair
  <2>5. /\ more \in Seq(Key \X Key) /\ Len(more) = n + 1
        /\ \A i \in 1 .. n : more[i] = p.ranges[i]
        /\ more[n + 1] = pair
        /\ \A i \in 1 .. n + 1 : i \in 1 .. n \/ i = n + 1
    BY <1>4, <2>3, AppendFacts
  <2> HIDE DEF more
  <2>6. Marker(p, k) \in Parser /\ Marker(p, k).ranges = more /\ Marker(p, k).open = NoValue
    BY <2>2, <2>5 DEF Parser
  <2>7. ParserSound(covered, Marker(p, k))
    BY <2>4, <2>5, <2>6 DEF ParserAt, ParserSound
  <2>8. \A i \in 1 .. n + 1 : more[i][2] <= k
    BY <1>1, <1>5, <2>1, <2>3, <2>5
  <2>9. ASSUME NEW i \in 1 .. n + 1, NEW j \in 1 .. n + 1, i < j PROVE more[i][2] < more[j][1]
    <3>1. i \in 1 .. n
      BY <1>4, <2>9
    <3>2. CASE j \in 1 .. n
      BY <2>5, <2>9, <3>1, <3>2 DEF ParserAt
    <3>3. CASE j = n + 1
      BY <2>1, <2>3, <2>5, <3>1, <3>3
    <3> QED
      BY <2>5, <3>2, <3>3
  <2>10. ASSUME covered = c0, NEW x \in covered, x <= k PROVE InRanges(Marker(p, k), x)
    <3>1. x \in Nat /\ x # k
      BY <1>8 DEF Bounded
    <3>2. CASE x < l
      <4>1. InRanges(p, x)
        BY <2>1, <2>10, <3>1, <3>2 DEF ParserAt
      <4>2. PICK i \in 1 .. n : x \in Spanned(p.ranges[i])
        BY <4>1 DEF InRanges
      <4>3. i \in 1 .. n + 1 /\ more[i] = p.ranges[i]
        BY <1>4, <2>5
      <4> QED
        BY <2>5, <2>6, <4>2, <4>3 DEF InRanges
    <3>3. CASE ~(x < l)
      <4>1. x \in Spanned(pair)
        BY <1>1, <2>3, <2>10, <3>1, <3>3 DEF Spanned
      <4>2. n + 1 \in 1 .. n + 1
        BY <1>4
      <4> QED
        BY <2>5, <2>6, <4>1, <4>2 DEF InRanges
    <3> QED
      BY <3>2, <3>3
  <2> QED
    BY <2>5, <2>6, <2>7, <2>8, <2>9, <2>10 DEF ParserAt
<1> QED
  BY <1>6, <1>7, <1>8

\* Feed takes the markers of a batch one after the other.
IsFed(fed, p, batch) ==
    fed = [i \in 0 .. Len(batch) |-> IF i = 0 THEN p ELSE Marker(fed[i - 1], batch[i])]

\* A marker makes a parser of a parser.
LEMMA MarkerType == ASSUME NEW p \in Parser, NEW k \in Key PROVE Marker(p, k) \in Parser
<1>1. CASE p.open = NoValue \/ k \in covered
  BY <1>1 DEF Marker, Parser
<1>2. CASE p.open # NoValue /\ k \notin covered
  <2>1. p.open \in Key /\ p.ranges \in Seq(Key \X Key)
    BY <1>2 DEF Parser
  <2>2. Append(p.ranges, <<p.open, k>>) \in Seq(Key \X Key)
    BY <2>1
  <2>3. Marker(p, k) = [open |-> NoValue, ranges |-> Append(p.ranges, <<p.open, k>>)]
    BY <1>2 DEF Marker
  <2> QED
    BY <2>2, <2>3 DEF Parser
<1> QED
  BY <1>1, <1>2

\* Feeding a batch goes through a parser for each of its markers.
LEMMA FeedExists ==
    ASSUME NEW p \in Parser, NEW batch \in Seq(Key)
    PROVE  \E fed : IsFed(fed, p, batch)
<1> DEFINE key(i) == IF i \in 1 .. Len(batch) THEN batch[i] ELSE MaxKey
           step == [i \in Nat |-> [q \in Parser |-> Marker(q, key(i))]]
<1>1. \A i \in Nat : key(i) \in Key
  BY DEF Key
<1>2. IsStep(Parser, step)
  <2> HIDE DEF key
  <2>1. \A i \in Nat : \A q \in Parser : Marker(q, key(i)) \in Parser
    BY <1>1, MarkerType
  <2> QED
    BY <2>1 DEF IsStep
<1>3. PICK f : Iterates(Parser, p, step, f)
  <2> HIDE DEF step
  <2> QED
    BY <1>2, RecursiveFunction
<1>4. f \in [Nat -> Parser] /\ f[0] = p /\ \A k \in Nat : f[k + 1] = step[k + 1][f[k]]
  BY <1>3 DEF Iterates
<1>5. ASSUME NEW i \in 1 .. Len(batch) PROVE f[i] = Marker(f[i - 1], batch[i])
  <2>1. i - 1 \in Nat /\ (i - 1) + 1 = i /\ i \in Nat
    OBVIOUS
  <2>2. f[i] = step[i][f[i - 1]] /\ f[i - 1] \in Parser
    BY <1>4, <2>1
  <2>3. step[i][f[i - 1]] = Marker(f[i - 1], key(i))
    BY <2>1, <2>2
  <2> QED
    BY <2>2, <2>3
<1> DEFINE fed == [i \in 0 .. Len(batch) |-> f[i]]
<1>6. ASSUME NEW i \in 0 .. Len(batch)
      PROVE  fed[i] = IF i = 0 THEN p ELSE Marker(fed[i - 1], batch[i])
  <2>1. CASE i = 0
    BY <1>4, <2>1
  <2>2. CASE i # 0
    <3>1. i \in 1 .. Len(batch) /\ i - 1 \in 0 .. Len(batch)
      BY <2>2
    <3>2. fed[i] = f[i] /\ fed[i - 1] = f[i - 1]
      BY <3>1
    <3> QED
      BY <1>5, <2>2, <3>1, <3>2
  <2> QED
    BY <2>1, <2>2
<1>7. fed = [i \in 0 .. Len(batch) |-> fed[i]]
  OBVIOUS
<1> HIDE DEF fed
<1>8. IsFed(fed, p, batch)
  BY <1>6, <1>7 DEF IsFed
<1> QED
  BY <1>8

\* It ends with the last of them.
LEMMA FeedIs ==
    ASSUME NEW p \in Parser, NEW batch \in Seq(Key)
    PROVE  \E fed : /\ Feed(p, batch) = fed[Len(batch)] /\ fed[0] = p
                    /\ \A i \in 1 .. Len(batch) : fed[i] = Marker(fed[i - 1], batch[i])
<1> DEFINE fed == CHOOSE g : g = [i \in 0 .. Len(batch) |->
                                    IF i = 0 THEN p ELSE Marker(g[i - 1], batch[i])]
<1>1. fed = [i \in 0 .. Len(batch) |-> IF i = 0 THEN p ELSE Marker(fed[i - 1], batch[i])]
  <2>1. \E g : g = [i \in 0 .. Len(batch) |-> IF i = 0 THEN p ELSE Marker(g[i - 1], batch[i])]
    BY FeedExists DEF IsFed
  <2> QED
    BY <2>1, Zenon
<1>2. Feed(p, batch) = fed[Len(batch)]
  BY DEF Feed
<1> HIDE DEF fed
<1>3. fed[0] = p
  <2>1. 0 \in 0 .. Len(batch)
    OBVIOUS
  <2> QED
    BY <1>1, <2>1
<1>4. ASSUME NEW i \in 1 .. Len(batch) PROVE fed[i] = Marker(fed[i - 1], batch[i])
  <2>1. i \in 0 .. Len(batch) /\ i # 0
    OBVIOUS
  <2> QED
    BY <1>1, <2>1
<1> QED
  BY <1>2, <1>3, <1>4

\* The markers after l, and the options that go on after it, from 0 anew.
Ahead(l) == {k \in Edges(covered) : l < k}
MarkersFrom(l) ==
    IF l = 0 THEN Everything ELSE [Everything EXCEPT !.begin = first_greater_than(l)]

\* Those options select those markers.
LEMMA MarkersSelected ==
    ASSUME NEW l \in 0 .. MaxKey
    PROVE  /\ MarkersFrom(l) \in Option /\ Selected(Boundaries, MarkersFrom(l)) = Ahead(l)
           /\ MarkersFrom(l).limit = 0 /\ MarkersFrom(l).reverse = FALSE
           /\ KeySet(Boundaries) /\ Boundaries \subseteq Key
<1> DEFINE opt == MarkersFrom(l)
<1>1. Boundaries = Edges(covered) /\ Boundaries \subseteq Key /\ KeySet(Boundaries)
  BY KeysFinite DEF Boundaries, Edges
<1>2. /\ opt \in Option /\ opt.limit = 0 /\ opt.reverse = FALSE
      /\ opt.begin = IF l = 0 THEN first_greater_or_equal(1) ELSE first_greater_than(l)
      /\ opt.end = first_greater_or_equal(MaxKey + 1)
  <2>1. first_greater_than(l) \in Selector
    BY DEF first_greater_than, KeySelector, Selector
  <2> DEFINE b == first_greater_than(l)
  <2> HIDE DEF b
  <2> QED
    BY <2>1, EverythingFacts DEF MarkersFrom, Option, b
<1> HIDE DEF opt
<1>3. Fixed(opt)
  BY <1>2 DEF Fixed, first_greater_or_equal, first_greater_than, KeySelector
<1>4. Selected(Boundaries, opt) = Boundaries \cap Within(opt)
  BY <1>1, <1>2, <1>3, SelectedWithin
<1>5. ASSUME NEW k \in Key PROVE k \in Within(opt) <=> l < k
  BY <1>2 DEF Within, Key, first_greater_or_equal, first_greater_than, KeySelector
<1>6. Selected(Boundaries, opt) = Ahead(l)
  BY <1>1, <1>4, <1>5 DEF Ahead
<1> QED
  BY <1>1, <1>2, <1>6 DEF opt

\* The first n markers after l have been fed.
LEMMA FeedKeeps ==
    ASSUME Bounded(covered), NEW c0, NEW p, NEW l \in 0 .. MaxKey, ParserAt(c0, covered, p, l),
           NEW kvs \in Seq(Key), Len(kvs) <= Cardinality(Ahead(l)),
           \A i \in 1 .. Len(kvs) : kvs[i] = Sorted(Ahead(l), FALSE)[i]
    PROVE  ParserAt(c0, covered, Feed(p, kvs), IF kvs = <<>> THEN l ELSE kvs[Len(kvs)])
<1> DEFINE S == Ahead(l)
           all == Sorted(S, FALSE)
           n == Len(kvs)
           at(i) == IF i = 0 THEN l ELSE all[i]
<1>1. KeySet(S) /\ S \subseteq Key /\ \A k \in S : l < k /\ k \in Edges(covered)
  BY KeysFinite DEF Ahead, Edges
<1>2. /\ all \in Seq(S) /\ Len(all) = Cardinality(S) /\ Cardinality(S) \in Nat
      /\ \A i \in 1 .. Cardinality(S) : all[i] \in S
      /\ \A k \in S : \E i \in 1 .. Cardinality(S) : all[i] = k
  <2> HIDE DEF S
  <2>1. /\ all \in Seq(S) /\ Len(all) = Cardinality(S) /\ Cardinality(S) \in Nat
        /\ \A i \in 1 .. Cardinality(S) : all[i] \in S
        /\ \A k \in S : all[Place(S, FALSE, k)] = k
    BY <1>1, SortedFacts
  <2>2. \A k \in S : Place(S, FALSE, k) \in 1 .. Cardinality(S)
    BY <1>1, PlaceType
  <2> QED
    BY <2>1, <2>2
<1>3. ASSUME NEW i \in 1 .. Cardinality(S), NEW j \in 1 .. Cardinality(S), i < j
      PROVE  all[i] < all[j]
  <2> HIDE DEF S, all
  <2>1. Ordered(all, FALSE)
    BY <1>1, SortedOrdered DEF all
  <2>2. Precedes(FALSE, all[i], all[j])
    BY <1>2, <1>3, <2>1 DEF Ordered
  <2> QED
    BY <2>2 DEF Precedes
<1>4. PICK fed : /\ Feed(p, kvs) = fed[n] /\ fed[0] = p
                 /\ \A i \in 1 .. n : fed[i] = Marker(fed[i - 1], kvs[i])
  BY FeedIs DEF ParserAt, ParserSound
<1>5. n \in Nat /\ n <= Cardinality(S)
  OBVIOUS
<1> HIDE DEF S, all, n
<1> DEFINE Good == {i \in Nat : i <= n => ParserAt(c0, covered, fed[i], at(i)) /\ at(i) \in 0 .. MaxKey}
<1>6. 0 \in Good
  BY <1>4
<1>7. ASSUME NEW i \in Nat, i \in Good PROVE i + 1 \in Good
  <2>1. SUFFICES ASSUME i + 1 <= n
                 PROVE  ParserAt(c0, covered, fed[i + 1], at(i + 1)) /\ at(i + 1) \in 0 .. MaxKey
    OBVIOUS
  <2> DEFINE k == all[i + 1]
  <2>2. i + 1 \in 1 .. n /\ i + 1 \in 1 .. Cardinality(S) /\ (i + 1) - 1 = i /\ i + 1 # 0
    BY <1>2, <1>5, <2>1
  <2>3. ParserAt(c0, covered, fed[i], at(i)) /\ at(i) \in 0 .. MaxKey
    BY <1>5, <1>7, <2>1
  <2>4. k \in S /\ k \in Key /\ k \in Edges(covered) /\ l < k
    BY <1>1, <1>2, <2>2
  <2>5. at(i) < k
    <3>1. CASE i = 0
      BY <2>4, <3>1
    <3>2. CASE i # 0
      <4>1. i \in 1 .. Cardinality(S) /\ i < i + 1
        BY <1>2, <2>2, <3>2
      <4> QED
        BY <1>3, <2>2, <3>2, <4>1
    <3> QED
      BY <3>1, <3>2
  <2>6. ASSUME NEW e \in Edges(covered), at(i) < e, e < k PROVE FALSE
    <3>1. e \in Int /\ l \in Int /\ k \in Int
      BY <2>4 DEF Edges, Key
    <3>2. l < e
      <4>1. CASE i = 0
        BY <2>6, <4>1
      <4>2. CASE i # 0
        <5>1. i \in 1 .. Cardinality(S)
          BY <1>2, <2>2, <4>2
        <5>2. all[i] \in S
          BY <1>2, <5>1
        <5>3. l < all[i] /\ all[i] \in Int
          BY <1>1, <5>2 DEF Key
        <5> QED
          BY <2>6, <3>1, <4>2, <5>3
      <4> QED
        BY <4>1, <4>2
    <3>3. PICK j \in 1 .. Cardinality(S) : all[j] = e
      BY <1>2, <3>2 DEF S, Ahead
    <3>4. ~(i + 1 <= j)
      <4>1. j = i + 1 => e = k
        BY <3>3
      <4>2. i + 1 < j => k < e
        BY <1>3, <2>2, <3>3
      <4> QED
        BY <2>6, <3>1, <4>1, <4>2, <2>2, <1>2
    <3>5. i # 0 /\ i \in 1 .. Cardinality(S)
      BY <2>2, <3>4, <1>2
    <3>6. j = i => e = at(i)
      BY <3>3, <3>5
    <3>7. j < i => e < at(i)
      BY <1>3, <3>3, <3>5
    <3>8. at(i) \in Int
      BY <2>3
    <3> HIDE DEF at, k
    <3> QED
      BY <2>6, <3>1, <3>4, <3>5, <3>6, <3>7, <3>8, <1>2
  <2>7. fed[i + 1] = Marker(fed[i], k)
    BY <1>4, <2>2 DEF n, all, S
  <2>8. at(i + 1) = k
    BY <2>2
  <2>9. k \in 0 .. MaxKey
    BY <2>4 DEF Key
  <2> HIDE DEF at, k
  <2>10. ParserAt(c0, covered, Marker(fed[i], k), k)
    BY <2>3, <2>4, <2>5, <2>6, MarkerKeeps
  <2> QED
    BY <2>7, <2>8, <2>9, <2>10
<1>8. n \in Good
  <2> HIDE DEF Good
  <2> QED
    BY <1>5, <1>6, <1>7, NumberInduction
<1>9. ParserAt(c0, covered, fed[n], at(n))
  BY <1>5, <1>8
<1>10. at(n) = IF kvs = <<>> THEN l ELSE kvs[n]
  <2>1. n = 0 <=> kvs = <<>>
    BY DEF n
  <2>2. n # 0 => n \in 1 .. n
    BY <1>5
  <2> QED
    BY <2>1, <2>2 DEF n, all, S
<1> QED
  BY <1>4, <1>9, <1>10 DEF n

\* Nothing begins or ends after l.
NoMore(c, l) == \A k \in Edges(c) : k <= l

\* Some l is where the reading of the markers, as opt has it, got to.
MarkersRead(c0, c, opt, p) ==
    \E l \in 0 .. MaxKey :
        ParserAt(c0, c, p, l) /\ IF opt = NoValue THEN NoMore(c, l) ELSE opt = MarkersFrom(l)

\* A batch of markers takes the parser and the options to its last one.
LEMMA MarkersProgress ==
    ASSUME Bounded(covered), NEW c0, NEW p, NEW opt, opt # NoValue,
           MarkersRead(c0, covered, opt, p), NEW batch \in Batches(Boundaries, opt)
    PROVE  MarkersRead(c0, covered, NextRange(opt, batch), Feed(p, batch.kvs))
<1>1. PICK l \in 0 .. MaxKey : ParserAt(c0, covered, p, l) /\ opt = MarkersFrom(l)
  BY DEF MarkersRead
<1> DEFINE S == Ahead(l)
           all == Sorted(S, FALSE)
           kvs == batch.kvs
           at == IF kvs = <<>> THEN l ELSE kvs[Len(kvs)]
           next == NextRange(opt, batch)
<1>2. /\ opt \in Option /\ Selected(Boundaries, opt) = S /\ opt.limit = 0 /\ opt.reverse = FALSE
      /\ KeySet(Boundaries)
  BY <1>1, MarkersSelected
<1>3. KeySet(S) /\ S \subseteq Key
  BY KeysFinite DEF Ahead, Edges
<1>4. PICK n \in Nat : IsBatch(S, opt, batch, n)
  BY <1>2, BatchFacts
<1>5. /\ n \in 0 .. Cardinality(S) /\ kvs = SubSeq(all, 1, n)
      /\ n = 0 => S = {}
      /\ ~batch.more => n = Cardinality(S)
  BY <1>2, <1>4 DEF IsBatch
<1>6. /\ all \in Seq(S) /\ all \in Seq(Key) /\ Len(all) = Cardinality(S) /\ Cardinality(S) \in Nat
  <2> HIDE DEF S
  <2>1. all \in Seq(S) /\ Len(all) = Cardinality(S) /\ Cardinality(S) \in Nat
    BY <1>3, SortedFacts
  <2> HIDE DEF all
  <2> QED
    BY <1>3, <2>1
<1> HIDE DEF S, all, kvs
<1>7. /\ kvs \in Seq(S) /\ kvs \in Seq(Key) /\ Len(kvs) = n
      /\ \A i \in 1 .. n : kvs[i] = all[i]
      /\ n = 0 <=> kvs = <<>>
  <2>1. n \in 0 .. Len(all)
    BY <1>5, <1>6
  <2>2. /\ kvs \in Seq(S) /\ Len(kvs) = n /\ \A i \in 1 .. n : kvs[i] = all[i]
        /\ n = 0 <=> kvs = <<>>
    BY <1>5, <1>6, <2>1, PrefixFacts
  <2>3. kvs \in Seq(Key)
    BY <1>5, <1>6, <2>1, PrefixFacts
  <2> QED
    BY <2>2, <2>3
<1>8. ParserAt(c0, covered, Feed(p, kvs), at)
  <2>1. Len(kvs) <= Cardinality(S)
    BY <1>5, <1>6, <1>7
  <2>2. \A i \in 1 .. Len(kvs) : kvs[i] = Sorted(Ahead(l), FALSE)[i]
    BY <1>7 DEF all, S
  <2> QED
    BY <1>1, <1>7, <2>1, <2>2, FeedKeeps DEF S
<1>9. kvs # <<>> => at \in Key /\ l < at /\ n \in 1 .. Len(all) /\ at = all[n] /\ at = kvs[Len(kvs)]
  <2>1. kvs # <<>> => n \in 1 .. Len(all) /\ n \in 1 .. n
    BY <1>5, <1>6, <1>7
  <2>2. kvs # <<>> => at = all[n] /\ at = kvs[Len(kvs)]
    BY <1>7, <2>1
  <2>3. kvs # <<>> => all[n] \in S
    BY <1>6, <2>1
  <2>4. \A k \in S : l < k
    BY DEF S, Ahead
  <2> QED
    BY <1>3, <2>1, <2>2, <2>3, <2>4
<1>10. at \in 0 .. MaxKey
  BY <1>1, <1>9 DEF Key
<1>11. /\ next = NoValue => ~batch.more \/ kvs = <<>>
       /\ next # NoValue => kvs # <<>> /\ next = MarkersFrom(at)
  <2>1. opt.limit - AtMost(Len(kvs), opt.limit) = 0
    <3>1. Len(kvs) \in Nat /\ opt.limit = 0
      BY <1>2, <1>7
    <3>2. AtMost(Len(kvs), 0) = 0
      BY <3>1 DEF AtMost
    <3> QED
      BY <3>1, <3>2
  <2>2. next = IF ~batch.more \/ kvs = <<>> THEN NoValue
               ELSE [opt EXCEPT !.limit = 0, !.begin = first_greater_than(kvs[Len(kvs)])]
    BY <1>2, <2>1 DEF NextRange, Last, kvs
  <2>3. ASSUME kvs # <<>>
        PROVE  [opt EXCEPT !.limit = 0, !.begin = first_greater_than(kvs[Len(kvs)])] = MarkersFrom(at)
    <3> DEFINE b == first_greater_than(at)
               a == first_greater_than(l)
    <3> HIDE DEF a, b
    <3>1. opt = Everything \/ opt = [Everything EXCEPT !.begin = a]
      BY <1>1 DEF MarkersFrom, a
    <3>2. [opt EXCEPT !.limit = 0, !.begin = b] = [Everything EXCEPT !.begin = b]
      BY <3>1, EverythingFacts DEF Option
    <3>3. at # 0 /\ at = kvs[Len(kvs)]
      BY <1>9, <2>3 DEF Key
    <3> HIDE DEF at
    <3> QED
      BY <3>2, <3>3 DEF MarkersFrom, b
  <2>4. ASSUME kvs # <<>> PROVE MarkersFrom(at) # NoValue
    BY <1>10, MarkersSelected
  <2> HIDE DEF at, next
  <2> QED
    BY <2>2, <2>3, <2>4
<1>12. ASSUME next = NoValue, NEW k \in Edges(covered) PROVE k <= at
  <2>1. n = Cardinality(S)
    <3>1. Cardinality({}) = 0
      BY FS_EmptySet
    <3> QED
      BY <1>5, <1>7, <1>11, <1>12, <3>1
  <2>2. k \in Key /\ k \in Int /\ at \in Int /\ l \in Int
    BY <1>10 DEF Edges, Key
  <2>3. CASE k <= l
    BY <1>9, <2>2, <2>3
  <2>4. CASE ~(k <= l)
    <3>1. k \in S
      BY <2>2, <2>4 DEF S, Ahead
    <3> DEFINE i == Place(S, FALSE, k)
    <3>2. i \in 1 .. Cardinality(S) /\ all[i] = k
      BY <1>3, <3>1, PlaceType, SortedFacts DEF all
    <3> HIDE DEF i
    <3>3. i \in 1 .. n /\ n \in 1 .. Len(all) /\ kvs # <<>>
      BY <1>6, <1>7, <2>1, <3>2
    <3>4. Ordered(all, FALSE)
      BY <1>3, SortedOrdered DEF all
    <3>5. i = n \/ Precedes(FALSE, all[i], all[n])
      <4>1. i \in 1 .. Len(all) /\ (i < n \/ i = n)
        BY <1>6, <2>1, <3>2, <3>3
      <4> QED
        BY <3>3, <3>4, <4>1 DEF Ordered
    <3>6. i = n \/ k < all[n]
      BY <3>2, <3>5 DEF Precedes
    <3> QED
      BY <1>9, <2>2, <3>2, <3>3, <3>6
  <2> QED
    BY <2>3, <2>4
<1> HIDE DEF at
<1>13. CASE next = NoValue
  <2>1. NoMore(covered, at)
    BY <1>12, <1>13 DEF NoMore
  <2> QED
    BY <1>8, <1>10, <1>13, <2>1 DEF MarkersRead, kvs
<1>14. CASE next # NoValue
  <2> HIDE DEF next
  <2>1. next = MarkersFrom(at)
    BY <1>11, <1>14
  <2> QED
    BY <1>8, <1>10, <1>14, <2>1 DEF MarkersRead, kvs, next
<1> QED
  BY <1>13, <1>14

-----------------------------------------------------------------------------
\* The invariant of conflict-range reads.
ConflictInv ==
    /\ ReadInv
    /\ history.covered \subseteq covered /\ Bounded(covered) /\ ParserSound(covered, parser)
    /\ read.kind = "conflicts" => MarkersRead(history.covered, covered, read.opt, parser)

\* No marker has been read, and no range reported.
LEMMA ConflictInit == RangeInit => ConflictInv
<1> SUFFICES ASSUME RangeInit PROVE ConflictInv
  OBVIOUS
<1>1. ReadInv
  BY ReadInit
<1>2. /\ history.covered = covered /\ Bounded(covered) /\ parser = NewParser
      /\ read.kind = "conflicts" => read.opt = Everything
  BY DEF RangeInit, Bounded, NewRead
<1>3. parser \in Parser /\ Len(parser.ranges) = 0 /\ parser.open = NoValue
  BY <1>2 DEF NewParser, Parser
<1>4. ParserSound(covered, parser)
  BY <1>3 DEF ParserSound
<1>5. ParserAt(history.covered, covered, parser, 0)
  BY <1>2, <1>3, <1>4 DEF ParserAt, Bounded
<1>6. Everything = MarkersFrom(0) /\ Everything # NoValue /\ 0 \in 0 .. MaxKey
  BY EverythingFacts DEF MarkersFrom
<1> QED
  BY <1>1, <1>2, <1>4, <1>5, <1>6 DEF ConflictInv, MarkersRead

\* Batches of markers and new conflict ranges keep it so.
LEMMA ConflictStep == ConflictInv /\ [RangeNext]_rangevars => ConflictInv'
<1> SUFFICES ASSUME ConflictInv, [RangeNext]_rangevars PROVE ConflictInv'
  OBVIOUS
<1>0. /\ ReadInv /\ ReadInv' /\ ReadType /\ ScanState
      /\ history.covered \subseteq covered /\ Bounded(covered) /\ ParserSound(covered, parser)
      /\ read.kind = "conflicts" => MarkersRead(history.covered, covered, read.opt, parser)
  BY ReadStep DEF ConflictInv, ReadInv
<1>1. ASSUME UNCHANGED <<covered, parser>>, history'.covered = history.covered,
             read'.kind # "conflicts" \/ (read'.opt = read.opt /\ read.kind = "conflicts")
      PROVE  ConflictInv'
  BY <1>0, <1>1 DEF ConflictInv
<1>2. CASE NextBatch
  <2>1. UNCHANGED <<covered, parser, history>> /\ read'.kind # "conflicts"
    BY <1>0, <1>2 DEF NextBatch, ReadType
  <2> QED
    BY <1>1, <2>1
<1>3. CASE BatchFails
  <2>1. UNCHANGED <<covered, parser, history>> /\ read'.kind # "conflicts"
    BY <1>0, <1>3 DEF BatchFails, ReadType
  <2> QED
    BY <1>1, <2>1
<1>4. CASE NextMarkers
  <2>1. /\ read.opt # NoValue /\ read.kind = "conflicts" /\ UNCHANGED <<covered, history>>
        /\ read'.kind = read.kind
    BY <1>0, <1>4 DEF NextMarkers, Reading, ReadType
  <2>2. PICK batch \in Batches(Boundaries, read.opt) :
            parser' = Feed(parser, batch.kvs) /\ read'.opt = NextRange(read.opt, batch)
    BY <1>0, <1>4 DEF NextMarkers, ReadType
  <2>3. MarkersRead(history.covered, covered, NextRange(read.opt, batch), Feed(parser, batch.kvs))
    BY <1>0, <2>1, MarkersProgress
  <2>4. MarkersRead(history'.covered, covered', read'.opt, parser')
    BY <2>1, <2>2, <2>3
  <2>5. ParserSound(covered', parser')
    BY <2>4 DEF MarkersRead, ParserAt
  <2> QED
    BY <1>0, <2>1, <2>4, <2>5 DEF ConflictInv
<1>5. CASE CheckBudget
  <2>1. UNCHANGED <<covered, parser, history>> /\ read'.kind = read.kind /\ read.kind = "scan"
    BY <1>0, <1>5 DEF CheckBudget, ReadType, ScanState
  <2> QED
    BY <1>1, <2>1
<1>9. CASE PageRetried
  <2>1. UNCHANGED <<covered, parser, history>> /\ read'.kind = read.kind /\ read.kind = "scan"
    BY <1>0, <1>9 DEF PageRetried, ReadType
  <2> QED
    BY <1>1, <2>1
<1>6. ASSUME NEW k \in Key, WriteKey(k) PROVE ConflictInv'
  <2>1. UNCHANGED <<covered, parser, read>> /\ history'.covered = history.covered
        /\ read.kind # "conflicts"
    BY <1>0, <1>6 DEF WriteKey, ReadType
  <2> QED
    BY <1>1, <2>1
<1>7. ASSUME NEW k \in 1 .. MaxKey - 1, AddConflict(k) PROVE ConflictInv'
  <2>1. /\ UNCHANGED <<parser, read, history>> /\ covered' = covered \cup {k}
        /\ k \notin covered /\ read.opt # NoValue /\ read.kind = "conflicts"
    BY <1>7 DEF AddConflict
  <2>2. Bounded(covered') /\ history'.covered \subseteq covered' /\ covered' # history'.covered
    BY <1>0, <1>7, <2>1 DEF Bounded
  <2>3. PICK l \in 0 .. MaxKey :
            ParserAt(history.covered, covered, parser, l) /\ read.opt = MarkersFrom(l)
    BY <1>0, <2>1 DEF MarkersRead
  <2>4. ParserSound(covered', parser')
    BY <1>0, <2>1 DEF ParserSound
  <2>5. ParserAt(history'.covered, covered', parser', l)
    BY <2>1, <2>2, <2>3, <2>4 DEF ParserAt
  <2>6. MarkersRead(history'.covered, covered', read'.opt, parser')
    BY <2>1, <2>3, <2>5 DEF MarkersRead
  <2> QED
    BY <1>0, <2>2, <2>4, <2>6 DEF ConflictInv
<1>8. CASE UNCHANGED rangevars
  BY <1>0, <1>8, <1>1 DEF rangevars, ConflictInv
<1> QED
  BY <1>2, <1>3, <1>4, <1>5, <1>6, <1>7, <1>8, <1>9 DEF RangeNext

\* Once the markers are read, every conflict range is reported, and no other.
LEMMA ConflictImplies == ConflictInv => ConflictRangesHold
<1> SUFFICES ASSUME ConflictInv PROVE ConflictRangesHold
  OBVIOUS
<1> DEFINE Reported(i) == parser.ranges[i][1] .. parser.ranges[i][2] - 1
           all == UNION {Reported(i) : i \in 1 .. Len(parser.ranges)}
<1>1. Bounded(covered) /\ ParserSound(covered, parser)
  BY DEF ConflictInv
<1>2. all \subseteq covered
  BY <1>1 DEF ParserSound, Spanned
<1>3. ASSUME Ended, read.kind = "conflicts", covered = history.covered
      PROVE  /\ covered \subseteq all
             /\ \A i \in 1 .. Len(parser.ranges) - 1 : parser.ranges[i][2] < parser.ranges[i + 1][1]
  <2>1. PICK l \in 0 .. MaxKey : ParserAt(history.covered, covered, parser, l) /\ NoMore(covered, l)
    BY <1>3 DEF ConflictInv, MarkersRead, Ended
  <2>2. \A x \in l .. MaxKey : x \in covered <=> l \in covered
    <3>1. \A k \in Edges(covered) : ~(l < k /\ k <= MaxKey)
      BY <2>1 DEF NoMore, Edges, Key
    <3>2. MaxKey \in 0 .. MaxKey
      OBVIOUS
    <3> QED
      BY <3>1, <3>2, NoEdge
  <2>3. \A x \in l .. MaxKey : x \notin covered
    <3>1. MaxKey \in l .. MaxKey /\ MaxKey \notin covered
      BY <1>1 DEF Bounded
    <3> QED
      BY <2>2, <3>1
  <2>4. parser.open = NoValue
    <3>1. l \notin covered
      BY <2>3
    <3> QED
      BY <2>1, <3>1 DEF ParserAt
  <2>5. ASSUME NEW x \in covered PROVE x \in all
    <3>1. x \in Nat /\ x <= MaxKey
      BY <1>1, <2>5 DEF Bounded
    <3>2. x <= l /\ x # NoValue
      BY <2>3, <3>1
    <3>3. InRanges(parser, x)
      BY <1>3, <2>1, <2>4, <3>2 DEF ParserAt
    <3> QED
      BY <3>3 DEF InRanges, Spanned
  <2>6. ASSUME NEW i \in 1 .. Len(parser.ranges) - 1 PROVE parser.ranges[i][2] < parser.ranges[i + 1][1]
    <3>1. Len(parser.ranges) \in Nat
      BY <1>1 DEF ParserSound, Parser
    <3>2. i \in 1 .. Len(parser.ranges) /\ i + 1 \in 1 .. Len(parser.ranges) /\ i < i + 1
      BY <3>1
    <3> QED
      BY <2>1, <3>2 DEF ParserAt
  <2> QED
    BY <2>5, <2>6
<1>4. Ended /\ read.kind = "conflicts" /\ covered = history.covered =>
        /\ all = covered
        /\ \A i \in 1 .. Len(parser.ranges) - 1 : parser.ranges[i][2] < parser.ranges[i + 1][1]
  <2> HIDE DEF all
  <2> QED
    BY <1>2, <1>3
<1> QED
  BY <1>2, <1>4 DEF ConflictRangesHold

\* read_conflict_range_keyspace: for any conflict ranges and batches, what is
\* reported is covered; and unless something was added, it is all, each range
\* once and whole.
THEOREM ConflictsReported == RangeSpec => []ConflictRangesHold
<1>1. RangeInit => ConflictInv
  BY ConflictInit
<1>2. ConflictInv /\ [RangeNext]_rangevars => ConflictInv'
  BY ConflictStep
<1>3. ConflictInv => ConflictRangesHold
  BY ConflictImplies
<1> QED
  BY <1>1, <1>2, <1>3, PTL DEF RangeSpec

-----------------------------------------------------------------------------
(* The invariant of StackMachine.                                          *)

USE PrefixAssumption, BoundAssumption, NoneAssumption

Named(item) == item.fut # None /\ item.fut.name # None
Owes(t) == t # None /\ t.state = "Pending"

\* What a future on the stack is to the map: nothing, or the owner of the
\* transaction whose name it has.
Backed(item, map, counter) ==
    item.fut # None =>
        \/ item.fut.name = None /\ item.fut.id = 0
        \/ /\ item.fut.name \in Names
           /\ item.fut.id \in 1 .. counter /\ item.fut.state \in Resting
           /\ map[item.fut.name] = Pending(item.fut.id)

Shapes(s, map, counter, gone) ==
    /\ s \in Seq(Item)
    /\ map \in [Names -> TransactionState \cup {None}]
    /\ counter \in 0 .. MaxIds
    /\ gone \in SUBSET Names

\* No future shares a name, and no entry of the map an id.
FuturesApart(s) ==
    \A i, j \in 1 .. Len(s) :
        Named(s[i]) /\ Named(s[j]) /\ s[i].fut.name = s[j].fut.name => i = j
IdsApart(map, counter) ==
    \A n \in Names : Owes(map[n]) =>
        /\ map[n].id \in 1 .. counter
        /\ \A m \in Names : map[m] = map[n] => m = n

\* A transaction that left the map has a future, unless it is lost.
Kept(s, map, gone) ==
    \A n \in Names \ gone : Owes(map[n]) =>
        \E i \in 1 .. Len(s) : Named(s[i]) /\ s[i].fut.name = n

Consistent(s, map, counter, gone) ==
    /\ Shapes(s, map, counter, gone)
    /\ \A i \in 1 .. Len(s) : Backed(s[i], map, counter)
    /\ FuturesApart(s)
    /\ IdsApart(map, counter)
    /\ Kept(s, map, gone)

MachineInv ==
    /\ cur_transaction \in Names
    /\ Consistent(stack, transactions, trx_counter, lost)
    /\ cur_transaction \notin lost => Held # None

\* The invariant of DirectoryInstructions: besides what the property says, the
\* index used instead of a null one leads to a directory too.
DirectoryInv ==
    /\ directory_stack \in Seq({"Directory", "Subspace", "Null"} \cup Output)
    /\ directory_index \in Nat /\ error_index \in Nat /\ created \in Nat
    /\ ListInStep
    /\ Exists(error_index) /\ ListEntry(error_index) # "Null"

-----------------------------------------------------------------------------
(* Items and states.                                                       *)

\* A state of a transaction is not None, and only Pending owes.
LEMMA StateFacts ==
    /\ \A x \in Resting : State(x) \in TransactionState /\ State(x) # None
                            /\ ~Owes(State(x)) /\ Usable(State(x))
    /\ \A id \in 1 .. MaxIds : Pending(id) \in TransactionState /\ Pending(id) # None
                                /\ Owes(Pending(id))
    /\ \A t \in TransactionState :
        IF Owes(t) THEN t.id \in 1 .. MaxIds /\ t = Pending(t.id)
        ELSE \E x \in Resting : t = State(x)
<1>1. \A x \in Resting : State(x) \in TransactionState /\ State(x).state = x
  BY DEF State, TransactionState
<1>2. \A id \in 1 .. MaxIds : Pending(id) \in TransactionState
                                /\ Pending(id).state = "Pending" /\ Pending(id).id = id
  BY DEF Pending, TransactionState
<1>3. "Pending" \notin Resting
  BY DEF Resting
<1>4. \A t \in TransactionState :
        (\E x \in Resting : t = State(x)) \/ (\E id \in 1 .. MaxIds : t = Pending(id))
  BY DEF TransactionState
<1>5. None \notin TransactionState
  OBVIOUS
<1> QED
  BY <1>1, <1>2, <1>3, <1>4, <1>5 DEF Owes, Usable

\* Data, and a result that a future left, own nothing.
LEMMA ItemFacts ==
    /\ \A data \in Names \cup {"data"} : DataItem(data) \in Item /\ DataItem(data).fut = None
    /\ \A item \in Item :
        /\ Awaited(item) \in Item /\ Awaited(item).fut = None
        /\ item.fut # None => item.fut \in Future
    /\ \A id \in 0 .. MaxIds, name \in Names \cup {None}, x \in Resting \cup {None} :
        LET item == Issued(id, name, x)
        IN  /\ item \in Item /\ item.fut # None
            /\ item.fut.id = id /\ item.fut.name = name /\ item.fut.state = x
<1>1. \A data \in Names \cup {"data"} : DataItem(data) \in Item /\ DataItem(data).fut = None
  BY DEF DataItem, Item
<1>2. \A item \in Item : Awaited(item) \in Item /\ Awaited(item).fut = None
                          /\ (item.fut # None => item.fut \in Future)
  BY <1>1 DEF Awaited, Item
<1>3. ASSUME NEW id \in 0 .. MaxIds, NEW name \in Names \cup {None}, NEW x \in Resting \cup {None}
      PROVE  LET item == Issued(id, name, x)
             IN  /\ item \in Item /\ item.fut # None
                 /\ item.fut.id = id /\ item.fut.name = name /\ item.fut.state = x
  <2>1. [id |-> id, name |-> name, state |-> x] \in Future
    BY DEF Future
  <2> QED
    BY <2>1 DEF Issued, Item
<1> QED
  BY <1>1, <1>2, <1>3

\* What is left below the items that an instruction pops.
LEMMA BelowFacts ==
    ASSUME NEW T, NEW s \in Seq(T), NEW n \in 0 .. Len(s)
    PROVE  /\ Below(s, n) \in Seq(T) /\ Len(Below(s, n)) = Len(s) - n
           /\ \A i \in 1 .. Len(s) - n : Below(s, n)[i] = s[i]
BY DEF Below

-----------------------------------------------------------------------------
(* What the parts of an instruction do to a consistent stack and map.      *)

\* The counter grows and more names are lost.
LEMMA ConsistentGrows ==
    ASSUME NEW s, NEW map, NEW c, NEW gone, NEW d \in 0 .. MaxIds, NEW lose \in SUBSET Names,
           Consistent(s, map, c, gone), c <= d, gone \subseteq lose
    PROVE  Consistent(s, map, d, lose)
BY DEF Consistent, Shapes, Backed, IdsApart, Kept

\* Nothing is named after a transaction that is in the map.
LEMMA Unnamed ==
    ASSUME NEW s, NEW map, NEW c, NEW gone, NEW name \in Names,
           Consistent(s, map, c, gone), ~Owes(map[name])
    PROVE  \A i \in 1 .. Len(s) : ~(Named(s[i]) /\ s[i].fut.name = name)
<1> SUFFICES ASSUME NEW i \in 1 .. Len(s), Named(s[i]), s[i].fut.name = name
             PROVE  FALSE
  OBVIOUS
<1>1. c \in 0 .. MaxIds
  BY DEF Consistent, Shapes
<1>2. s[i].fut.id \in 1 .. c /\ map[name] = Pending(s[i].fut.id)
  BY DEF Consistent, Backed, Named
<1> QED
  BY <1>1, <1>2, StateFacts

\* Items below the top of a stack, or in its place, when nothing that owns a
\* transaction was taken away or added.
LEMMA ConsistentPushed ==
    ASSUME NEW s, NEW map, NEW c, NEW gone, NEW out \in Seq(Item),
           Consistent(s, map, c, gone),
           \A i \in 1 .. Len(out) : Backed(out[i], map, c) /\ ~Named(out[i])
    PROVE  Consistent(s \o out, map, c, gone)
<1> DEFINE both == s \o out
<1>1. s \in Seq(Item) /\ both \in Seq(Item) /\ Len(both) = Len(s) + Len(out)
  BY DEF Consistent, Shapes
<1>2. /\ Len(s) \in Nat /\ Len(out) \in Nat
      /\ \A i \in 1 .. Len(s) : both[i] = s[i]
      /\ \A i \in Len(s) + 1 .. Len(both) : both[i] = out[i - Len(s)]
  BY <1>1
<1> HIDE DEF both
<1>3. \A i \in 1 .. Len(both) : \/ i \in 1 .. Len(s) /\ both[i] = s[i]
                                \/ Backed(both[i], map, c) /\ ~Named(both[i])
  <2> SUFFICES ASSUME NEW i \in 1 .. Len(both), i \notin 1 .. Len(s)
               PROVE  Backed(both[i], map, c) /\ ~Named(both[i])
    BY <1>2
  <2>1. i - Len(s) \in 1 .. Len(out) /\ both[i] = out[i - Len(s)]
    BY <1>1, <1>2
  <2> QED
    BY <2>1
<1>4. Shapes(both, map, c, gone)
  BY <1>1 DEF Consistent, Shapes
<1>5. \A i \in 1 .. Len(both) : Backed(both[i], map, c)
  BY <1>3 DEF Consistent
<1>6. FuturesApart(both)
  BY <1>3 DEF Consistent, FuturesApart
<1>7. Kept(both, map, gone)
  <2>1. \A i \in 1 .. Len(s) : i \in 1 .. Len(both) /\ both[i] = s[i]
    BY <1>1, <1>2
  <2> QED
    BY <2>1 DEF Consistent, Kept
<1> QED
  BY <1>4, <1>5, <1>6, <1>7 DEF Consistent, both

\* What a map becomes when transactions return to it from the futures of s:
\* only one that was owed changes, and it becomes what its future says.
BringsOwed(s, map, new) ==
    /\ \A name \in Names : ~Owes(map[name]) => new[name] = map[name]
    /\ \A name \in Names : new[name] # map[name] =>
        /\ new[name] # None /\ ~Owes(new[name])
        /\ \E i \in 1 .. Len(s) : /\ Named(s[i]) /\ s[i].fut.name = name
                               /\ new[name] = State(s[i].fut.state)

\* Items are popped, and the transactions that come back with them go to the
\* map.
LEMMA ConsistentPopped ==
    ASSUME NEW s, NEW map, NEW c, NEW gone, NEW n \in 0 .. Len(s),
           Consistent(s, map, c, gone)
    PROVE  /\ Consistent(Below(s, n), Returned(map, Popped(s, n)), c, gone)
           /\ BringsOwed(s, map, Returned(map, Popped(s, n)))
<1> DEFINE low == Below(s, n)
           items == Popped(s, n)
           back == Returned(map, items)
<1>1. /\ s \in Seq(Item) /\ Len(s) \in Nat
      /\ low \in Seq(Item) /\ Len(low) = Len(s) - n /\ \A i \in 1 .. Len(low) : low[i] = s[i]
  BY BelowFacts DEF Consistent, Shapes
<1>2. /\ DOMAIN items = 1 .. n
      /\ \A i \in 1 .. n : Len(s) - n + i \in 1 .. Len(s) /\ items[i] = s[Len(s) - n + i]
  BY <1>1 DEF Popped
<1> HIDE DEF low, items
<1>3. \A name \in Names :
        \/ /\ back[name] = map[name]
           /\ \A i \in 1 .. n : ~(Named(items[i]) /\ items[i].fut.name = name)
        \/ \E i \in 1 .. n : /\ Named(items[i]) /\ items[i].fut.name = name
                             /\ back[name] = State(items[i].fut.state)
  <2> SUFFICES ASSUME NEW name \in Names
               PROVE  \/ /\ back[name] = map[name]
                         /\ \A i \in 1 .. n : ~(Named(items[i]) /\ items[i].fut.name = name)
                      \/ \E i \in 1 .. n : /\ Named(items[i]) /\ items[i].fut.name = name
                                           /\ back[name] = State(items[i].fut.state)
    OBVIOUS
  <2> DEFINE mine == {i \in DOMAIN items : items[i].fut # None /\ items[i].fut.name = name}
  <2>1. CASE mine = {}
    <3>1. back[name] = map[name]
      BY <2>1 DEF Returned
    <3> QED
      BY <2>1, <3>1, <1>2 DEF Named
  <2>2. CASE mine # {}
    <3> DEFINE first == CHOOSE i \in mine : \A j \in mine : i <= j
    <3>1. back[name] = State(items[first].fut.state)
      BY <2>2 DEF Returned
    <3>2. first \in mine
      <4>1. mine \in SUBSET Nat
        BY <1>2
      <4>2. PICK m \in mine : \A j \in mine : m <= j
        BY <4>1, <2>2, LeastNumber
      <4> QED
        BY <4>2
    <3> HIDE DEF first
    <3>3. first \in 1 .. n /\ Named(items[first]) /\ items[first].fut.name = name
      BY <3>2, <1>2 DEF Named
    <3> QED
      BY <3>1, <3>3
  <2> QED
    BY <2>1, <2>2
<1>4. back \in [Names -> TransactionState \cup {None}]
  <2>1. \A name \in Names : back[name] \in TransactionState \cup {None}
    <3> SUFFICES ASSUME NEW name \in Names PROVE back[name] \in TransactionState \cup {None}
      OBVIOUS
    <3>1. CASE back[name] = map[name]
      BY <3>1 DEF Consistent, Shapes
    <3>2. ASSUME NEW i \in 1 .. n, Named(items[i]), back[name] = State(items[i].fut.state)
          PROVE  back[name] \in TransactionState
      <4>1. items[i].fut.state \in Resting
        BY <3>2, <1>2 DEF Consistent, Backed, Named
      <4> QED
        BY <3>2, <4>1, StateFacts
    <3> QED
      BY <1>3, <3>1, <3>2
  <2>2. back = [name \in Names |-> back[name]]
    BY DEF Returned
  <2> QED
    BY <2>1, <2>2
<1> HIDE DEF back
\* A transaction that came back has left the stack with its future.
<1>5. \A name \in Names :
        \/ back[name] = map[name]
        \/ /\ Owes(map[name]) /\ ~Owes(back[name]) /\ back[name] # None
           /\ \A j \in 1 .. Len(low) : ~(Named(low[j]) /\ low[j].fut.name = name)
           /\ \E k \in 1 .. Len(s) : /\ Named(s[k]) /\ s[k].fut.name = name
                                     /\ back[name] = State(s[k].fut.state)
  <2> SUFFICES ASSUME NEW name \in Names, back[name] # map[name]
               PROVE  /\ Owes(map[name]) /\ ~Owes(back[name]) /\ back[name] # None
                      /\ \A j \in 1 .. Len(low) : ~(Named(low[j]) /\ low[j].fut.name = name)
                      /\ \E k \in 1 .. Len(s) : /\ Named(s[k]) /\ s[k].fut.name = name
                                                /\ back[name] = State(s[k].fut.state)
    OBVIOUS
  <2>1. PICK i \in 1 .. n : /\ Named(items[i]) /\ items[i].fut.name = name
                            /\ back[name] = State(items[i].fut.state)
    BY <1>3
  <2>2. PICK k \in 1 .. Len(s) : k = Len(s) - n + i /\ items[i] = s[k]
    BY <1>2
  <2>3. /\ s[k].fut.state \in Resting /\ map[name] = Pending(s[k].fut.id)
        /\ s[k].fut.id \in 1 .. c
    BY <2>1, <2>2 DEF Consistent, Backed, Named
  <2>4. Owes(map[name])
    BY <2>3, StateFacts DEF Consistent, Shapes
  <2>5. ~Owes(back[name]) /\ back[name] # None
    BY <2>1, <2>2, <2>3, StateFacts
  <2>6. ASSUME NEW j \in 1 .. Len(low), Named(low[j]), low[j].fut.name = name PROVE FALSE
    <3>1. j \in 1 .. Len(s) /\ j # k /\ low[j] = s[j]
      BY <1>1, <2>2
    <3>2. Named(s[j]) /\ Named(s[k]) /\ s[j].fut.name = s[k].fut.name
      BY <3>1, <2>1, <2>2, <2>6
    <3>3. FuturesApart(s)
      BY DEF Consistent
    <3> QED
      BY <3>1, <3>2, <3>3 DEF FuturesApart
  <2> QED
    BY <2>1, <2>2, <2>4, <2>5, <2>6
<1>6. Shapes(low, back, c, gone)
  BY <1>1, <1>4 DEF Consistent, Shapes
<1>7. ASSUME NEW i \in 1 .. Len(low) PROVE Backed(low[i], back, c)
  <2>1. Backed(low[i], map, c)
    BY <1>1 DEF Consistent
  <2>2. Named(low[i]) /\ low[i].fut.name \in Names => back[low[i].fut.name] = map[low[i].fut.name]
    BY <1>5
  <2> QED
    BY <2>1, <2>2 DEF Backed, Named
<1>8. FuturesApart(low)
  <2>1. FuturesApart(s)
    BY DEF Consistent
  <2> QED
    BY <1>1, <2>1 DEF FuturesApart
<1>9. IdsApart(back, c)
  <2>1. \A name \in Names : Owes(back[name]) => back[name] = map[name]
    BY <1>5
  <2> QED
    BY <2>1 DEF Consistent, IdsApart
<1>10. Kept(low, back, gone)
  <2> SUFFICES ASSUME NEW name \in Names \ gone, Owes(back[name])
               PROVE  \E i \in 1 .. Len(low) : Named(low[i]) /\ low[i].fut.name = name
    BY DEF Kept
  <2>1. back[name] = map[name]
    BY <1>5
  <2>2. PICK i \in 1 .. Len(s) : Named(s[i]) /\ s[i].fut.name = name
    BY <2>1 DEF Consistent, Kept
  <2>3. CASE i \in 1 .. Len(low)
    BY <2>2, <2>3, <1>1
  <2>4. CASE i \notin 1 .. Len(low)
    <3>1. i - (Len(s) - n) \in 1 .. n /\ Len(s) - n + (i - (Len(s) - n)) = i
      BY <2>4, <1>1
    <3>2. items[i - (Len(s) - n)] = s[i]
      BY <3>1, <1>2
    <3>3. PICK j \in 1 .. n : back[name] = State(items[j].fut.state) /\ Named(items[j])
      BY <1>3, <2>2, <3>1, <3>2
    <3>4. items[j].fut.state \in Resting
      BY <1>2, <3>3 DEF Consistent, Backed, Named
    <3> QED
      BY <3>3, <3>4, StateFacts
  <2> QED
    BY <2>3, <2>4
<1>11. Consistent(low, back, c, gone)
  BY <1>6, <1>7, <1>8, <1>9, <1>10 DEF Consistent
<1> QED
  BY <1>5, <1>11 DEF BringsOwed, low, items, back

\* A transaction that no other entry owes is put under a name that has none.
LEMMA ConsistentRestored ==
    ASSUME NEW s, NEW map, NEW c, NEW gone, NEW name \in Names, NEW lose \in SUBSET Names,
           NEW t \in TransactionState,
           Consistent(s, map, c, gone), ~Owes(map[name]), gone \ {name} \subseteq lose,
           Owes(t) => /\ t.id \in 1 .. c /\ name \in lose
                      /\ \A m \in Names : map[m] # t
    PROVE  Consistent(s, [map EXCEPT ![name] = t], c, lose)
<1> DEFINE new == [map EXCEPT ![name] = t]
<1>1. map \in [Names -> TransactionState \cup {None}]
  BY DEF Consistent, Shapes
<1>2. /\ new \in [Names -> TransactionState \cup {None}]
      /\ new[name] = t /\ \A m \in Names \ {name} : new[m] = map[m]
  BY <1>1
<1> HIDE DEF new
<1>3. Shapes(s, new, c, lose)
  BY <1>2 DEF Consistent, Shapes
<1>4. \A i \in 1 .. Len(s) : Backed(s[i], new, c)
  <2>1. \A i \in 1 .. Len(s) : ~(Named(s[i]) /\ s[i].fut.name = name)
    BY Unnamed
  <2> QED
    BY <2>1, <1>2 DEF Consistent, Backed, Named
<1>5. IdsApart(new, c)
  <2> SUFFICES ASSUME NEW n \in Names, Owes(new[n])
               PROVE  /\ new[n].id \in 1 .. c
                      /\ \A m \in Names : new[m] = new[n] => m = n
    BY DEF IdsApart
  <2>1. CASE n = name
    BY <2>1, <1>2
  <2>2. CASE n # name
    BY <2>2, <1>2 DEF Consistent, IdsApart
  <2> QED
    BY <2>1, <2>2
<1>6. Kept(s, new, lose)
  BY <1>2 DEF Consistent, Kept
<1> QED
  BY <1>3, <1>4, <1>5, <1>6 DEF Consistent, new

\* The transaction of the name goes to a new future.
LEMMA ConsistentHanded ==
    ASSUME NEW s, NEW map, NEW c, NEW gone, NEW name \in Names, NEW x \in Resting,
           Consistent(s, map, c, gone), ~Owes(map[name]), c < MaxIds
    PROVE  Consistent(s \o <<Issued(c + 1, name, x)>>,
                      [map EXCEPT ![name] = Pending(c + 1)], c + 1, gone)
<1> DEFINE new == [map EXCEPT ![name] = Pending(c + 1)]
           item == Issued(c + 1, name, x)
           both == s \o <<item>>
<1>1. map \in [Names -> TransactionState \cup {None}] /\ c \in 0 .. MaxIds /\ s \in Seq(Item)
  BY DEF Consistent, Shapes
<1>2. c + 1 \in 1 .. MaxIds /\ c + 1 \in 0 .. MaxIds
  BY <1>1
<1>3. /\ Pending(c + 1) \in TransactionState /\ Pending(c + 1).id = c + 1
      /\ Owes(Pending(c + 1))
  BY <1>2, StateFacts DEF Pending
<1>4. /\ new \in [Names -> TransactionState \cup {None}]
      /\ new[name] = Pending(c + 1) /\ \A m \in Names \ {name} : new[m] = map[m]
  BY <1>1, <1>3
<1>5. /\ item \in Item /\ item.fut # None
      /\ item.fut.id = c + 1 /\ item.fut.name = name /\ item.fut.state = x
  BY <1>2, ItemFacts
<1>6. Named(item)
  BY <1>5 DEF Named
<1> HIDE DEF new, item
<1>7. /\ both \in Seq(Item) /\ Len(both) = Len(s) + 1 /\ Len(s) \in Nat
      /\ both[Len(s) + 1] = item
      /\ \A i \in 1 .. Len(s) : both[i] = s[i] /\ i \in 1 .. Len(both)
  BY <1>1, <1>5
<1> HIDE DEF both
<1>8. \A i \in 1 .. Len(both) : i \in 1 .. Len(s) \/ i = Len(s) + 1
  BY <1>7
<1>9. \A i \in 1 .. Len(s) : ~(Named(s[i]) /\ s[i].fut.name = name)
  BY Unnamed
<1>10. Shapes(both, new, c + 1, gone)
  BY <1>2, <1>4, <1>7 DEF Consistent, Shapes
<1>11. ASSUME NEW i \in 1 .. Len(both) PROVE Backed(both[i], new, c + 1)
  <2>1. CASE i \in 1 .. Len(s)
    <3>1. both[i] = s[i] /\ Backed(s[i], map, c)
      BY <1>7, <2>1 DEF Consistent
    <3> QED
      BY <2>1, <3>1, <1>1, <1>4, <1>9 DEF Backed, Named
  <2>2. CASE i = Len(s) + 1
    BY <2>2, <1>1, <1>4, <1>5, <1>7 DEF Backed
  <2> QED
    BY <2>1, <2>2, <1>8
<1>12. FuturesApart(both)
  <2> SUFFICES ASSUME NEW i \in 1 .. Len(both), NEW j \in 1 .. Len(both),
                      Named(both[i]), Named(both[j]), both[i].fut.name = both[j].fut.name
               PROVE  i = j
    BY DEF FuturesApart
  <2>1. \A k \in 1 .. Len(s) : Named(both[k]) => both[k].fut.name # name
    BY <1>7, <1>9
  <2>2. CASE i \in 1 .. Len(s) /\ j \in 1 .. Len(s)
    BY <2>2, <1>7 DEF Consistent, FuturesApart
  <2> QED
    BY <2>1, <2>2, <1>5, <1>7, <1>8
<1>13. IdsApart(new, c + 1)
  <2> SUFFICES ASSUME NEW n \in Names, Owes(new[n])
               PROVE  /\ new[n].id \in 1 .. c + 1
                      /\ \A m \in Names : new[m] = new[n] => m = n
    BY DEF IdsApart
  <2>1. \A m \in Names \ {name} : Owes(new[m]) => new[m].id \in 1 .. c
    BY <1>4 DEF Consistent, IdsApart
  <2>2. c + 1 \notin 1 .. c /\ c + 1 \in 1 .. c + 1 /\ 1 .. c \subseteq 1 .. c + 1
    BY <1>1
  <2>3. CASE n = name
    BY <2>1, <2>2, <2>3, <1>3, <1>4
  <2>4. CASE n # name
    <3>1. new[n].id \in 1 .. c /\ Owes(map[n]) /\ new[n] = map[n]
      BY <2>1, <2>4, <1>4
    <3>2. new[name] # new[n]
      BY <3>1, <2>2, <1>3, <1>4
    <3> QED
      BY <3>1, <3>2, <2>2, <2>4, <1>4 DEF Consistent, IdsApart
  <2> QED
    BY <2>3, <2>4
<1>14. Kept(both, new, gone)
  <2> SUFFICES ASSUME NEW n \in Names \ gone, Owes(new[n])
               PROVE  \E i \in 1 .. Len(both) : Named(both[i]) /\ both[i].fut.name = n
    BY DEF Kept
  <2>1. CASE n = name
    <3>1. Len(s) + 1 \in 1 .. Len(both)
      BY <1>7
    <3> QED
      BY <3>1, <2>1, <1>5, <1>6, <1>7
  <2>2. CASE n # name
    <3>1. PICK i \in 1 .. Len(s) : Named(s[i]) /\ s[i].fut.name = n
      BY <2>2, <1>4 DEF Consistent, Kept
    <3> QED
      BY <3>1, <1>7
  <2> QED
    BY <2>1, <2>2
<1> QED
  BY <1>10, <1>11, <1>12, <1>13, <1>14 DEF Consistent, both, new, item

-----------------------------------------------------------------------------
(* The start of an instruction.                                            *)

\* The futures that own the transaction of a name are those that name it.
LEMMA OwnersNamed ==
    ASSUME NEW name \in Names, Consistent(stack, transactions, trx_counter, lost)
    PROVE  Owner(transactions[name]) =
                {i \in 1 .. Len(stack) : Named(stack[i]) /\ stack[i].fut.name = name}
<1> DEFINE t == transactions[name]
           named(i) == Named(stack[i]) /\ stack[i].fut.name = name
<1>1. trx_counter \in 0 .. MaxIds /\ t \in TransactionState \cup {None}
  BY DEF Consistent, Shapes
<1>2. ASSUME NEW i \in 1 .. Len(stack), named(i) PROVE i \in Owner(t)
  <2>1. stack[i].fut.id \in 1 .. MaxIds /\ t = Pending(stack[i].fut.id)
    BY <1>1, <1>2 DEF Consistent, Backed, Named
  <2>2. t # None /\ t.state = "Pending" /\ t.id = stack[i].fut.id
    BY <2>1, StateFacts DEF Pending
  <2> QED
    BY <1>2, <2>2 DEF Owner, Named
<1>3. ASSUME NEW i \in Owner(t) PROVE i \in 1 .. Len(stack) /\ named(i)
  <2>1. /\ i \in 1 .. Len(stack) /\ stack[i].fut # None
        /\ Owes(t) /\ stack[i].fut.id = t.id
    BY DEF Owner, Owes
  <2>2. t.id \in 1 .. MaxIds /\ t = Pending(t.id) /\ t.id # 0
    BY <2>1, <1>1, StateFacts DEF Owes
  <2>3. stack[i].fut.name \in Names /\ transactions[stack[i].fut.name] = t
    BY <2>1, <2>2 DEF Consistent, Backed
  <2>4. stack[i].fut.name = name
    BY <2>1, <2>3 DEF Consistent, IdsApart
  <2> QED
    BY <2>1, <2>3, <2>4 DEF Named
<1> QED
  BY <1>2, <1>3 DEF Owner

\* The transaction that an instruction starts with is usable, or lost.
LEMMA CurrentFacts ==
    ASSUME NEW c, c = cur_transaction, c \in Names,
           Consistent(stack, transactions, trx_counter, lost), Held # None
    PROVE  /\ Current \in TransactionState
           /\ ~Owes(Current) => Usable(Current)
           /\ Owes(Current) => c \in lost /\ Current = transactions[c]
<1>1. Held = transactions[c] /\ Held \in TransactionState
  BY DEF Held, Consistent, Shapes
<1>2. Owner(Held) = {i \in 1 .. Len(stack) : Named(stack[i]) /\ stack[i].fut.name = c}
  BY <1>1, OwnersNamed
<1>3. CASE Owner(Held) = {}
  <2>1. Current = Held
    BY <1>3 DEF Current
  <2>2. Owes(Held) => c \in lost
    BY <1>1, <1>2, <1>3 DEF Consistent, Kept
  <2>3. ~Owes(Held) => Usable(Held)
    BY <1>1, StateFacts
  <2> QED
    BY <1>1, <2>1, <2>2, <2>3
<1>4. CASE Owner(Held) # {}
  <2>1. PICK i \in Owner(Held) : Current = State(stack[i].fut.state)
    BY <1>4 DEF Current
  <2>2. stack[i].fut.state \in Resting
    BY <1>2, <2>1 DEF Consistent, Backed, Named
  <2> QED
    BY <2>1, <2>2, StateFacts
<1> QED
  BY <1>3, <1>4

\* The future that owns the current transaction is awaited where it lies, and
\* the transaction leaves the map: what is left is consistent without it.
LEMMA SettledFacts ==
    ASSUME NEW c, c = cur_transaction, c \in Names,
           Consistent(stack, transactions, trx_counter, lost)
    PROVE  /\ Consistent(Settled, Taken, trx_counter, lost)
           /\ Len(Settled) = Len(stack)
           /\ Taken[c] = None /\ \A m \in Names \ {c} : Taken[m] = transactions[m]
           /\ \A i \in 1 .. Len(Settled) : Named(Settled[i]) =>
                Settled[i] = stack[i] /\ Settled[i].fut.name # c
           /\ \A i \in 1 .. Len(Settled) : Settled[i].fut = None \/ Settled[i] = stack[i]
<1>1. /\ stack \in Seq(Item) /\ Len(stack) \in Nat /\ trx_counter \in 0 .. MaxIds
      /\ transactions \in [Names -> TransactionState \cup {None}]
  BY DEF Consistent, Shapes
<1>2. Owner(Held) = {i \in 1 .. Len(stack) : Named(stack[i]) /\ stack[i].fut.name = c}
  BY OwnersNamed DEF Held
<1>3. /\ DOMAIN Settled = 1 .. Len(stack)
      /\ \A i \in 1 .. Len(stack) : Settled[i] =
            IF i \in Owner(Held) THEN Awaited(stack[i]) ELSE stack[i]
      /\ Settled = [i \in 1 .. Len(stack) |-> Settled[i]]
  BY DEF Settled
<1>4. /\ Taken \in [Names -> TransactionState \cup {None}]
      /\ Taken[c] = None /\ \A m \in Names \ {c} : Taken[m] = transactions[m]
  BY <1>1 DEF Taken
<1>5. \A i \in 1 .. Len(stack) : stack[i] \in Item
  BY <1>1
<1>6. \A i \in 1 .. Len(stack) :
        /\ Settled[i] \in Item
        /\ \/ Settled[i].fut = None
           \/ Settled[i] = stack[i] /\ ~(Named(stack[i]) /\ stack[i].fut.name = c)
  BY <1>2, <1>3, <1>5, ItemFacts
<1>7. Settled \in Seq(Item) /\ Len(Settled) = Len(stack)
  <2>1. \A i \in 1 .. Len(stack) : Settled[i] \in Item
    BY <1>6
  <2> QED
    BY <2>1, <1>1, <1>3
<1>8. Shapes(Settled, Taken, trx_counter, lost)
  BY <1>4, <1>7 DEF Consistent, Shapes
<1>9. \A i \in 1 .. Len(Settled) : Backed(Settled[i], Taken, trx_counter)
  <2> SUFFICES ASSUME NEW i \in 1 .. Len(stack) PROVE Backed(Settled[i], Taken, trx_counter)
    BY <1>7
  <2>1. CASE Settled[i].fut = None
    BY <2>1 DEF Backed
  <2>2. CASE Settled[i] = stack[i] /\ ~(Named(stack[i]) /\ stack[i].fut.name = c)
    BY <2>2, <1>4 DEF Consistent, Backed, Named
  <2> QED
    BY <2>1, <2>2, <1>6
<1>10. \A i \in 1 .. Len(stack) : Named(Settled[i]) => Settled[i] = stack[i] /\ Settled[i].fut.name # c
  BY <1>6 DEF Named
<1>11. FuturesApart(Settled)
  BY <1>7, <1>10 DEF Consistent, FuturesApart
<1>12. IdsApart(Taken, trx_counter)
  <2>1. \A m \in Names : Owes(Taken[m]) => m # c /\ Taken[m] = transactions[m]
    BY <1>4 DEF Owes
  <2> QED
    BY <2>1 DEF Consistent, IdsApart
<1>13. Kept(Settled, Taken, lost)
  <2> SUFFICES ASSUME NEW n \in Names \ lost, Owes(Taken[n])
               PROVE  \E i \in 1 .. Len(Settled) : Named(Settled[i]) /\ Settled[i].fut.name = n
    BY DEF Kept
  <2>1. n # c /\ Taken[n] = transactions[n]
    BY <1>4 DEF Owes
  <2>2. PICK i \in 1 .. Len(stack) : Named(stack[i]) /\ stack[i].fut.name = n
    BY <2>1 DEF Consistent, Kept
  <2>3. Settled[i] = stack[i]
    BY <2>1, <2>2, <1>2, <1>3
  <2> QED
    BY <2>2, <2>3, <1>7
<1> QED
  BY <1>4, <1>6, <1>7, <1>8, <1>9, <1>10, <1>11, <1>12, <1>13 DEF Consistent

\* The map that an instruction has once it popped n items.
Popping(n) == Returned(Taken, Popped(Settled, n))

\* Where a map has what transactions come back from the futures that own them.
Brings(map) ==
    \A name \in Names \ {cur_transaction} :
        LET t == transactions[name]
        IN t # None => map[name] \in {t} \cup {State(stack[i].fut.state) : i \in Owner(t)}

\* The items that an instruction pops bring back no current transaction.
LEMMA PoppingFacts ==
    ASSUME NEW c, c = cur_transaction, c \in Names,
           Consistent(stack, transactions, trx_counter, lost),
           NEW n \in 0 .. Len(Settled)
    PROVE  /\ Consistent(Below(Settled, n), Popping(n), trx_counter, lost)
           /\ Popping(n)[c] = None
           /\ \A m \in Names : Owes(Popping(n)[m]) => m # c /\ Popping(n)[m] = transactions[m]
           /\ \A m \in Names \ {c} : transactions[m] # None => Popping(n)[m] # None
           /\ Brings(Popping(n))
<1>1. Consistent(Settled, Taken, trx_counter, lost)
  BY SettledFacts
<1>2. Taken[c] = None /\ \A m \in Names \ {c} : Taken[m] = transactions[m]
  BY SettledFacts
<1>3. /\ Consistent(Below(Settled, n), Popping(n), trx_counter, lost)
      /\ BringsOwed(Settled, Taken, Popping(n))
  BY <1>1, ConsistentPopped DEF Popping
<1>4. Popping(n)[c] = None
  BY <1>2, <1>3 DEF BringsOwed, Owes
<1>5. ASSUME NEW m \in Names, Owes(Popping(n)[m])
      PROVE  m # c /\ Popping(n)[m] = transactions[m]
  <2>1. m # c
    BY <1>4, <1>5 DEF Owes
  <2>2. Popping(n)[m] = Taken[m]
    BY <1>3, <1>5 DEF BringsOwed
  <2> QED
    BY <2>1, <2>2, <1>2
<1>6. Brings(Popping(n))
  <2> SUFFICES ASSUME NEW name \in Names \ {c}, transactions[name] # None,
                      Popping(n)[name] # transactions[name]
               PROVE  \E i \in Owner(transactions[name]) : Popping(n)[name] = State(stack[i].fut.state)
    BY DEF Brings
  <2>1. PICK i \in 1 .. Len(Settled) :
            /\ Named(Settled[i]) /\ Settled[i].fut.name = name
            /\ Popping(n)[name] = State(Settled[i].fut.state)
    BY <1>2, <1>3 DEF BringsOwed
  <2>2. i \in 1 .. Len(stack) /\ Settled[i] = stack[i]
    BY <2>1, SettledFacts
  <2>3. i \in Owner(transactions[name])
    BY <2>1, <2>2, OwnersNamed
  <2> QED
    BY <2>1, <2>2, <2>3
<1>7. \A m \in Names \ {c} : transactions[m] # None => Popping(n)[m] # None
  BY <1>2, <1>3 DEF BringsOwed
<1> QED
  BY <1>3, <1>4, <1>5, <1>6, <1>7

\* What an instruction may put back: a transaction that nothing owns, or the
\* one that it found.
Fits(t) == t \in TransactionState /\ (Owes(t) => t = Current)

\* The current transaction fits, and no other entry has its id.
LEMMA CurrentFits ==
    ASSUME MachineInv, Held # None
    PROVE  /\ Fits(Current) /\ Current # None
           /\ Owes(Current) =>
                /\ Current.id \in 1 .. trx_counter /\ cur_transaction \in lost
                /\ \A m \in Names \ {cur_transaction} : transactions[m] # Current
<1> DEFINE c == cur_transaction
<1>1. c \in Names /\ Consistent(stack, transactions, trx_counter, lost)
  BY DEF MachineInv
<1> HIDE DEF c
<1>2. c = cur_transaction
  BY DEF c
<1>3. /\ Current \in TransactionState
      /\ Owes(Current) => c \in lost /\ Current = transactions[c]
  BY <1>1, <1>2, CurrentFacts
<1>4. Owes(Current) => /\ Current.id \in 1 .. trx_counter
                       /\ \A m \in Names : transactions[m] = Current => m = c
  BY <1>1, <1>3 DEF Consistent, IdsApart
<1> QED
  BY <1>2, <1>3, <1>4 DEF Fits

\* n items are popped and a transaction that fits is put back.
LEMMA PopAndRestore ==
    ASSUME MachineInv, Held # None, NEW n \in 0 .. Len(Settled), NEW t, Fits(t)
    PROVE  /\ Consistent(Below(Settled, n), Restored(Popping(n), t), trx_counter, lost)
           /\ Restored(Popping(n), t)[cur_transaction] = t /\ t # None
           /\ Brings(Restored(Popping(n), t))
           /\ \A m \in Names \ {cur_transaction} :
                transactions[m] # None => Restored(Popping(n), t)[m] # None
<1> DEFINE c == cur_transaction
<1>1. c \in Names /\ Consistent(stack, transactions, trx_counter, lost)
  BY DEF MachineInv
<1> HIDE DEF c
<1>2. c = cur_transaction
  BY DEF c
<1>3. /\ Consistent(Below(Settled, n), Popping(n), trx_counter, lost)
      /\ Popping(n)[c] = None
      /\ \A m \in Names : Owes(Popping(n)[m]) => m # c /\ Popping(n)[m] = transactions[m]
      /\ Brings(Popping(n))
      /\ \A m \in Names \ {c} : transactions[m] # None => Popping(n)[m] # None
  BY <1>1, <1>2, PoppingFacts
<1>4. Owes(t) => /\ t.id \in 1 .. trx_counter /\ c \in lost
                 /\ \A m \in Names : Popping(n)[m] # t
  BY <1>2, <1>3, CurrentFits DEF Fits
<1>5. /\ ~Owes(Popping(n)[c]) /\ lost \in SUBSET Names /\ lost \ {c} \subseteq lost
      /\ t \in TransactionState
  BY <1>1, <1>3 DEF Owes, Consistent, Shapes, Fits
<1>6. /\ Consistent(Below(Settled, n), [Popping(n) EXCEPT ![c] = t], trx_counter, lost)
      /\ [Popping(n) EXCEPT ![c] = t][c] = t /\ t # None
  <2>1. Consistent(Below(Settled, n), [Popping(n) EXCEPT ![c] = t], trx_counter, lost)
    BY <1>1, <1>3, <1>4, <1>5, ConsistentRestored, Zenon
  <2>2. Popping(n) \in [Names -> TransactionState \cup {None}]
    BY <1>3 DEF Consistent, Shapes
  <2> QED
    BY <2>1, <2>2, <1>1, <1>5
<1>7. Restored(Popping(n), t) = [Popping(n) EXCEPT ![c] = t]
  BY <1>2, <1>3 DEF Restored
<1>8. \A m \in Names \ {c} : Restored(Popping(n), t)[m] = Popping(n)[m]
  <2>1. Popping(n) \in [Names -> TransactionState \cup {None}]
    BY <1>3 DEF Consistent, Shapes
  <2> QED
    BY <1>7, <2>1
<1>9. Brings(Restored(Popping(n), t))
  BY <1>2, <1>3, <1>8 DEF Brings
<1> QED
  BY <1>2, <1>3, <1>6, <1>7, <1>8, <1>9

\* An item that neither owns a transaction nor names one.
Free(item) == item \in Item /\ (item.fut # None => item.fut.name = None /\ item.fut.id = 0)

\* Such items may be pushed.
LEMMA FreePushed ==
    ASSUME NEW s, NEW map, NEW c, NEW gone, NEW out \in Seq(Item),
           Consistent(s, map, c, gone), \A i \in 1 .. Len(out) : Free(out[i])
    PROVE  Consistent(s \o out, map, c, gone)
<1>1. \A i \in 1 .. Len(out) : Backed(out[i], map, c) /\ ~Named(out[i])
  BY DEF Free, Backed, Named
<1> QED
  BY <1>1, ConsistentPushed

-----------------------------------------------------------------------------
(* The kinds of instructions.                                              *)

\* What every step of a program does.
Sound == MachineInv' /\ KeepsOthers

\* With the current transaction where it was, only the entries matter.
LEMMA SoundHere ==
    ASSUME MachineInv, Consistent(stack, transactions, trx_counter, lost)',
           UNCHANGED cur_transaction, Brings(transactions'),
           cur_transaction \notin lost' => transactions'[cur_transaction] # None
    PROVE  Sound
BY DEF Sound, MachineInv, KeepsOthers, Brings, Held

\* An instruction that puts back what fits and pushes what is free.
LEMMA InstructionSound ==
    ASSUME MachineInv, NEW n \in Nat, NEW t, Fits(t), NEW out \in Seq(Item),
           \A i \in 1 .. Len(out) : Free(out[i]),
           Instruction(n, t, out), lost' = lost,
           trx_counter' \in 0 .. MaxIds, trx_counter <= trx_counter'
    PROVE  Sound
<1>1. Len(Settled) \in Nat /\ stack \in Seq(Item)
  <2>1. cur_transaction \in Names /\ Consistent(stack, transactions, trx_counter, lost)
    BY DEF MachineInv
  <2>2. Len(Settled) = Len(stack)
    BY <2>1, SettledFacts
  <2> QED
    BY <2>1, <2>2 DEF Consistent, Shapes
<1>2. /\ Held # None /\ n \in 0 .. Len(Settled)
      /\ stack' = Below(Settled, n) \o out
      /\ transactions' = Restored(Popping(n), t)
      /\ UNCHANGED cur_transaction
  BY <1>1 DEF Instruction, Popping
<1>3. /\ Consistent(Below(Settled, n), transactions', trx_counter, lost)
      /\ transactions'[cur_transaction] = t /\ t # None
      /\ Brings(transactions')
  BY <1>2, PopAndRestore
<1>4. Consistent(stack', transactions', trx_counter, lost)
  BY <1>2, <1>3, FreePushed
<1>5. lost \in SUBSET Names
  BY DEF MachineInv, Consistent, Shapes
<1>6. Consistent(stack', transactions', trx_counter', lost')
  BY <1>4, <1>5, ConsistentGrows
<1> QED
  BY <1>2, <1>3, <1>6, SoundHere

\* An early return pushes an error and keeps the current transaction out.
LEMMA AbandonedSound ==
    ASSUME MachineInv, NEW n \in Nat, Abandoned(n), UNCHANGED counters
    PROVE  Sound
<1> DEFINE c == cur_transaction
           low == Below(Settled, n)
<1>1. c \in Names /\ Consistent(stack, transactions, trx_counter, lost)
  BY DEF MachineInv
<1>2. Len(Settled) \in Nat
  BY <1>1, SettledFacts DEF Consistent, Shapes
<1>3. /\ n \in 0 .. Len(Settled)
      /\ stack' = low \o <<DataItem("data")>>
      /\ transactions' = Popping(n)
      /\ lost' = IF transactions'[c] = None THEN lost \cup {c} ELSE lost
      /\ UNCHANGED <<cur_transaction, trx_counter>>
  BY <1>2 DEF Abandoned, Popping, counters
<1>4. /\ Consistent(low, transactions', trx_counter, lost)
      /\ Brings(transactions')
  BY <1>1, <1>3, PoppingFacts
<1>5. /\ <<DataItem("data")>> \in Seq(Item)
      /\ \A i \in 1 .. Len(<<DataItem("data")>>) : Free(<<DataItem("data")>>[i])
  BY ItemFacts DEF Free
<1>6. Consistent(stack', transactions', trx_counter, lost)
  BY <1>3, <1>4, <1>5, FreePushed
<1>7. lost' \in SUBSET Names /\ lost \subseteq lost' /\ trx_counter \in 0 .. MaxIds
  BY <1>1, <1>3 DEF Consistent, Shapes
<1>8. trx_counter' \in 0 .. MaxIds /\ trx_counter <= trx_counter'
  BY <1>3, <1>7
<1>9. Consistent(stack', transactions', trx_counter', lost')
  BY <1>6, <1>7, <1>8, ConsistentGrows
<1> QED
  BY <1>3, <1>4, <1>9, SoundHere

\* Items are popped, with the map whole, and a result or an error pushed.
LEMMA DatabasePops ==
    ASSUME MachineInv, NEW n \in Nat, Len(stack) >= n,
           NEW map, map = Returned(transactions, Popped(stack, n))
    PROVE  /\ Consistent(Below(stack, n) \o <<DataItem("data")>>, map, trx_counter, lost)
           /\ map \in [Names -> TransactionState \cup {None}]
           /\ Brings(map)
           /\ Held = None => map[cur_transaction] = None
           /\ Held # None => map[cur_transaction] # None
<1> DEFINE c == cur_transaction
<1>1. /\ c \in Names /\ Consistent(stack, transactions, trx_counter, lost)
      /\ n \in 0 .. Len(stack)
  BY DEF MachineInv, Consistent, Shapes
<1>2. Consistent(Below(stack, n), map, trx_counter, lost) /\ BringsOwed(stack, transactions, map)
  BY <1>1, ConsistentPopped
<1>3. /\ <<DataItem("data")>> \in Seq(Item)
      /\ \A i \in 1 .. Len(<<DataItem("data")>>) : Free(<<DataItem("data")>>[i])
  BY ItemFacts DEF Free
<1>4. Consistent(Below(stack, n) \o <<DataItem("data")>>, map, trx_counter, lost)
  BY <1>2, <1>3, FreePushed
<1>5. Brings(map)
  <2> SUFFICES ASSUME NEW name \in Names \ {c}, map[name] # transactions[name]
               PROVE  \E i \in Owner(transactions[name]) : map[name] = State(stack[i].fut.state)
    BY DEF Brings
  <2>1. PICK i \in 1 .. Len(stack) :
            /\ Named(stack[i]) /\ stack[i].fut.name = name
            /\ map[name] = State(stack[i].fut.state)
    BY <1>2 DEF BringsOwed
  <2>2. i \in Owner(transactions[name])
    BY <1>1, <2>1, OwnersNamed
  <2> QED
    BY <2>1, <2>2
<1>6. /\ Held = None => map[c] = None
      /\ Held # None => map[c] # None
  BY <1>1, <1>2 DEF BringsOwed, Held, Owes
<1> QED
  BY <1>2, <1>4, <1>5, <1>6 DEF Consistent, Shapes

LEMMA DatabaseFailsSound == ASSUME MachineInv, DatabaseFails PROVE Sound
<1>1. /\ cur_transaction \in Names /\ Consistent(stack, transactions, trx_counter, lost)
      /\ cur_transaction \notin lost => Held # None
  BY DEF MachineInv
<1>2. /\ stack' = stack \o <<DataItem("data")>>
      /\ UNCHANGED <<transactions, cur_transaction, lost, trx_counter>>
  BY <1>1 DEF DatabaseFails, counters, Consistent, Shapes
<1>3. /\ <<DataItem("data")>> \in Seq(Item)
      /\ \A i \in 1 .. Len(<<DataItem("data")>>) : Free(<<DataItem("data")>>[i])
  BY ItemFacts DEF Free
<1>4. Consistent(stack', transactions', trx_counter, lost)
  BY <1>1, <1>2, <1>3, FreePushed
<1>5. Brings(transactions')
  BY <1>2 DEF Brings
<1> QED
  BY <1>1, <1>2, <1>4, <1>5, SoundHere DEF Held

LEMMA MutateDatabaseSound ==
    ASSUME MachineInv, NEW n \in Nat, MutateDatabase(n)
    PROVE  Sound
<1>1. /\ Len(stack) >= n /\ stack' = Below(stack, n) \o <<DataItem("data")>>
      /\ transactions' = Returned(transactions, Popped(stack, n))
      /\ UNCHANGED <<cur_transaction, lost, trx_counter>>
  BY DEF MutateDatabase, counters
<1>2. /\ Consistent(stack', transactions', trx_counter, lost)
      /\ Brings(transactions')
      /\ Held # None => transactions'[cur_transaction] # None
  BY <1>1, DatabasePops
<1>3. cur_transaction \notin lost => Held # None
  BY DEF MachineInv
<1> QED
  BY <1>1, <1>2, <1>3, SoundHere

\* The transaction of a read serves as the current one if there is none.
LEMMA ReadDatabaseSound ==
    ASSUME MachineInv, NEW n \in Nat, ReadDatabase(n)
    PROVE  Sound
<1> DEFINE c == cur_transaction
           map == Returned(transactions, Popped(stack, n))
           t == State("Transaction")
<1>1. /\ Len(stack) >= n /\ stack' = Below(stack, n) \o <<DataItem("data")>>
      /\ transactions' = Restored(map, t)
      /\ lost' = IF Held = None THEN lost \ {c} ELSE lost
      /\ UNCHANGED <<cur_transaction, trx_counter>>
  BY DEF ReadDatabase, counters
<1>2. /\ Consistent(stack', map, trx_counter, lost)
      /\ map \in [Names -> TransactionState \cup {None}]
      /\ Brings(map)
      /\ Held = None => map[c] = None
      /\ Held # None => map[c] # None
  BY <1>1, DatabasePops
<1>3. c \in Names /\ lost \in SUBSET Names /\ lost' \in SUBSET Names
  BY <1>1 DEF MachineInv, Consistent, Shapes
<1> HIDE DEF map
<1>4. CASE Held = None
  <2>1. transactions' = [map EXCEPT ![c] = t]
    BY <1>1, <1>2, <1>4 DEF Restored
  <2>2. t \in TransactionState /\ ~Owes(t) /\ t # None
    BY StateFacts DEF Resting
  <2>3. ~Owes(map[c]) /\ lost \ {c} \subseteq lost'
    BY <1>1, <1>2, <1>4 DEF Owes
  <2> HIDE DEF t
  <2>4. Consistent(stack', transactions', trx_counter, lost')
    BY <1>2, <1>3, <2>1, <2>2, <2>3, ConsistentRestored
  <2>5. transactions'[c] = t /\ \A m \in Names \ {c} : transactions'[m] = map[m]
    BY <1>2, <1>3, <2>1
  <2>6. Brings(transactions')
    BY <1>2, <2>5 DEF Brings
  <2> QED
    BY <1>1, <2>2, <2>4, <2>5, <2>6, SoundHere
<1>5. CASE Held # None
  <2>1. transactions' = map
    BY <1>1, <1>2, <1>5 DEF Restored
  <2> QED
    BY <1>1, <1>2, <1>5, <2>1, SoundHere
<1> QED
  BY <1>4, <1>5

\* Two items change places.
LEMMA ConsistentSwapped ==
    ASSUME NEW s, NEW map, NEW c, NEW gone, NEW i \in 1 .. Len(s), NEW j \in 1 .. Len(s),
           Consistent(s, map, c, gone)
    PROVE  Consistent([s EXCEPT ![i] = s[j], ![j] = s[i]], map, c, gone)
<1> DEFINE new == [s EXCEPT ![i] = s[j], ![j] = s[i]]
           from(k) == IF k = j THEN i ELSE IF k = i THEN j ELSE k
<1>1. s \in Seq(Item) /\ Len(s) \in Nat
  BY DEF Consistent, Shapes
<1>2. /\ new \in Seq(Item) /\ Len(new) = Len(s)
      /\ \A k \in 1 .. Len(s) : new[k] = s[from(k)] /\ from(k) \in 1 .. Len(s)
  BY <1>1
<1>3. \A k, m \in 1 .. Len(s) : /\ from(k) = from(m) => k = m
                               /\ from(from(k)) = k
  OBVIOUS
<1> HIDE DEF new, from
<1>4. Shapes(new, map, c, gone)
  BY <1>2 DEF Consistent, Shapes
<1>5. \A k \in 1 .. Len(new) : Backed(new[k], map, c)
  BY <1>2 DEF Consistent
<1>6. FuturesApart(new)
  <2> SUFFICES ASSUME NEW k \in 1 .. Len(s), NEW m \in 1 .. Len(s),
                      Named(new[k]), Named(new[m]), new[k].fut.name = new[m].fut.name
               PROVE  k = m
    BY <1>2 DEF FuturesApart
  <2>1. from(k) = from(m)
    BY <1>2 DEF Consistent, FuturesApart
  <2> QED
    BY <2>1, <1>3
<1>7. Kept(new, map, gone)
  <2> SUFFICES ASSUME NEW n \in Names \ gone, Owes(map[n])
               PROVE  \E k \in 1 .. Len(new) : Named(new[k]) /\ new[k].fut.name = n
    BY DEF Kept
  <2>1. PICK k \in 1 .. Len(s) : Named(s[k]) /\ s[k].fut.name = n
    BY DEF Consistent, Kept
  <2>2. from(k) \in 1 .. Len(new) /\ new[from(k)] = s[k]
    BY <1>2, <1>3
  <2> QED
    BY <2>1, <2>2
<1> QED
  BY <1>4, <1>5, <1>6, <1>7 DEF Consistent, new

LEMMA SwapSound ==
    ASSUME MachineInv, NEW depth \in 0 .. MaxStack, Swap(depth)
    PROVE  Sound
<1> DEFINE rest == Below(Settled, 1)
           top == Len(rest)
<1>1. /\ cur_transaction \in Names
      /\ Consistent(stack, transactions, trx_counter, lost)
  BY DEF MachineInv
<1>2. /\ Settled \in Seq(Item) /\ Len(Settled) \in Nat
  BY <1>1, SettledFacts DEF Consistent, Shapes
<1>3. /\ Held # None /\ Len(Settled) > 0 /\ depth < top
      /\ stack' = [rest EXCEPT ![top] = rest[top - depth], ![top - depth] = rest[top]]
      /\ transactions' = Restored(Popping(1), Current)
      /\ UNCHANGED <<cur_transaction, lost, trx_counter>>
  BY DEF Swap, Top, Popping, counters
<1>4. 1 \in 0 .. Len(Settled)
  BY <1>2, <1>3
<1>5. rest \in Seq(Item) /\ top \in Nat
  BY <1>2, <1>4, BelowFacts
<1>6. Fits(Current)
  BY <1>3, CurrentFits
<1>7. /\ Consistent(rest, transactions', trx_counter, lost)
      /\ transactions'[cur_transaction] = Current /\ Current # None
      /\ Brings(transactions')
  BY <1>3, <1>4, <1>6, PopAndRestore
<1>8. top \in 1 .. Len(rest) /\ top - depth \in 1 .. Len(rest)
  BY <1>3, <1>5
<1> HIDE DEF rest
<1>9. Consistent(stack', transactions', trx_counter, lost)
  BY <1>3, <1>7, <1>8, ConsistentSwapped
<1> QED
  BY <1>3, <1>7, <1>9, SoundHere

\* Every future is dropped, and the transactions they own are lost.
LEMMA EmptyStackSound ==
    ASSUME MachineInv, EmptyStack
    PROVE  Sound
<1> DEFINE c == cur_transaction
           t == Current
<1>1. c \in Names /\ Consistent(stack, transactions, trx_counter, lost)
  BY DEF MachineInv
<1>2. /\ Held # None /\ stack' = <<>>
      /\ transactions' = Restored(Taken, t)
      /\ lost' = lost \cup {name \in Names \ {c} :
                    \E i \in 1 .. Len(stack) : stack[i].fut # None /\ stack[i].fut.name = name}
      /\ UNCHANGED <<cur_transaction, trx_counter>>
  BY DEF EmptyStack, counters
<1>3. /\ Consistent(Settled, Taken, trx_counter, lost)
      /\ Taken[c] = None /\ \A m \in Names \ {c} : Taken[m] = transactions[m]
  BY <1>1, SettledFacts
<1>4. lost \in SUBSET Names /\ lost' \in SUBSET Names /\ lost \subseteq lost'
  BY <1>1, <1>2 DEF Consistent, Shapes
<1>5. Kept(<<>>, Taken, lost')
  <2> SUFFICES ASSUME NEW n \in Names \ lost', Owes(Taken[n]) PROVE FALSE
    BY DEF Kept
  <2>1. n # c /\ Taken[n] = transactions[n] /\ n \notin lost
    BY <1>3, <1>4 DEF Owes
  <2>2. PICK i \in 1 .. Len(stack) : Named(stack[i]) /\ stack[i].fut.name = n
    BY <1>1, <2>1 DEF Consistent, Kept
  <2> QED
    BY <2>1, <2>2, <1>2 DEF Named
<1>6. Consistent(<<>>, Taken, trx_counter, lost')
  BY <1>3, <1>4, <1>5 DEF Consistent, Shapes, FuturesApart
<1>7. /\ Fits(t) /\ t # None
      /\ Owes(t) => /\ t.id \in 1 .. trx_counter /\ c \in lost'
                    /\ \A m \in Names : Taken[m] # t
  BY <1>2, <1>3, <1>4, CurrentFits
<1>8. ~Owes(Taken[c]) /\ lost' \ {c} \subseteq lost' /\ t \in TransactionState
  BY <1>3, <1>7 DEF Owes, Fits
<1>9. transactions' = [Taken EXCEPT ![c] = t]
  BY <1>2, <1>3 DEF Restored
<1> HIDE DEF t, c
<1>10. c \in Names
  BY <1>1 DEF c
<1>11. Consistent(stack', transactions', trx_counter, lost')
  <2>1. Consistent(<<>>, [Taken EXCEPT ![c] = t], trx_counter, lost')
    BY <1>4, <1>6, <1>7, <1>8, <1>10, ConsistentRestored
  <2> QED
    BY <2>1, <1>2, <1>9
<1>12. transactions'[c] = t /\ \A m \in Names \ {c} : transactions'[m] = transactions[m]
  BY <1>1, <1>3, <1>9, <1>10 DEF Consistent, Shapes
<1>13. Brings(transactions')
  BY <1>12 DEF Brings, c
<1> QED
  BY <1>2, <1>7, <1>11, <1>12, <1>13, SoundHere DEF c

LEMMA NewTransactionSound ==
    ASSUME MachineInv, NewTransaction
    PROVE  Sound
<1> DEFINE c == cur_transaction
           t == State("Transaction")
<1>1. c \in Names /\ Consistent(stack, transactions, trx_counter, lost)
  BY DEF MachineInv
<1>2. /\ Consistent(Settled, Taken, trx_counter, lost)
      /\ Taken[c] = None /\ \A m \in Names \ {c} : Taken[m] = transactions[m]
  BY <1>1, SettledFacts
<1>3. t \in TransactionState /\ ~Owes(t) /\ t # None
  BY StateFacts DEF Resting
<1>4. transactions \in [Names -> TransactionState \cup {None}]
  BY <1>1 DEF Consistent, Shapes
<1>5. /\ stack' = Settled /\ lost' = lost \ {c}
      /\ UNCHANGED <<cur_transaction, trx_counter>>
  BY DEF NewTransaction, counters
<1>6. transactions' = [transactions EXCEPT ![c] = t]
  BY <1>1, <1>3, <1>4 DEF NewTransaction, Restored
<1>7. transactions' = [Taken EXCEPT ![c] = t]
  BY <1>4, <1>6 DEF Taken
<1>8. ~Owes(Taken[c]) /\ lost \ {c} \subseteq lost' /\ lost' \in SUBSET Names
  BY <1>1, <1>2, <1>5 DEF Owes, Consistent, Shapes
<1> HIDE DEF t
<1>9. Consistent(stack', transactions', trx_counter, lost')
  BY <1>1, <1>2, <1>3, <1>5, <1>7, <1>8, ConsistentRestored
<1>10. transactions'[c] = t /\ \A m \in Names \ {c} : transactions'[m] = transactions[m]
  BY <1>1, <1>4, <1>6
<1>11. Brings(transactions')
  BY <1>10 DEF Brings
<1> QED
  BY <1>3, <1>5, <1>9, <1>10, <1>11, SoundHere

\* USE_TRANSACTION, up to the lookup of the name: the current transaction is in
\* the map again.
LEMMA UseFacts ==
    ASSUME MachineInv, Held # None, NEW item, Top(item)
    PROVE  LET kept == Restored(Popping(1), Current)
           IN  /\ Consistent(Below(Settled, 1), kept, trx_counter, lost)
               /\ kept[cur_transaction] = Current /\ Current # None
               /\ Brings(kept)
               /\ \A m \in Names \ {cur_transaction} : transactions[m] # None => kept[m] # None
<1>1. Consistent(stack, transactions, trx_counter, lost) /\ cur_transaction \in Names
  BY DEF MachineInv
<1>2. Len(Settled) \in Nat
  BY <1>1, SettledFacts DEF Consistent, Shapes
<1>3. 1 \in 0 .. Len(Settled)
  BY <1>2 DEF Top
<1> QED
  BY <1>3, CurrentFits, PopAndRestore

LEMMA UseTransactionSound ==
    ASSUME MachineInv, NEW name \in Names, UseTransaction(name)
    PROVE  Sound
<1> DEFINE c == cur_transaction
           kept == Restored(Popping(1), Current)
           t == State("Transaction")
<1>1. /\ Held # None /\ Top(DataItem(name))
      /\ stack' = Below(Settled, 1)
      /\ transactions' = IF kept[name] = None THEN [kept EXCEPT ![name] = t] ELSE kept
      /\ cur_transaction' = name
      /\ UNCHANGED <<lost, trx_counter>>
  BY DEF UseTransaction, Popping, counters
<1>2. /\ Consistent(stack', kept, trx_counter, lost)
      /\ kept[c] = Current /\ Current # None
      /\ Brings(kept)
      /\ \A m \in Names \ {c} : transactions[m] # None => kept[m] # None
  BY <1>1, UseFacts
<1>3. t \in TransactionState /\ ~Owes(t) /\ t # None
  BY StateFacts DEF Resting
<1>4. kept \in [Names -> TransactionState \cup {None}] /\ lost \in SUBSET Names
  BY <1>2 DEF Consistent, Shapes
<1> HIDE DEF kept, t
<1>5. CASE kept[name] = None
  <2>1. transactions' = [kept EXCEPT ![name] = t]
    BY <1>1, <1>5
  <2>2. ~Owes(kept[name]) /\ lost \ {name} \subseteq lost
    BY <1>5 DEF Owes
  <2>3. Consistent(stack', [kept EXCEPT ![name] = t], trx_counter, lost)
    BY <1>2, <1>3, <1>4, <2>2, ConsistentRestored
  <2>4. transactions'[name] = t /\ \A m \in Names \ {name} : transactions'[m] = kept[m]
    BY <1>4, <2>1
  <2>5. name # c /\ transactions[name] = None
    BY <1>2, <1>5
  <2>6. MachineInv'
    BY <1>1, <1>3, <2>1, <2>3, <2>4 DEF MachineInv, Held
  <2>7. transactions'[c] = Current
    <3>1. c \in Names
      BY DEF MachineInv
    <3> QED
      BY <3>1, <1>2, <2>4, <2>5
  <2>8. \A m \in Names \ {c} : transactions[m] # None => transactions'[m] = kept[m]
    BY <2>4, <2>5
  <2> QED
    BY <1>2, <2>6, <2>7, <2>8 DEF Sound, KeepsOthers, Brings
<1>6. CASE kept[name] # None
  <2>1. transactions' = kept
    BY <1>1, <1>6
  <2>2. MachineInv'
    BY <1>1, <1>2, <1>6, <2>1 DEF MachineInv, Held
  <2> QED
    BY <1>2, <2>1, <2>2 DEF Sound, KeepsOthers, Brings
<1> QED
  BY <1>5, <1>6

LEMMA UseTransactionFailsSound ==
    ASSUME MachineInv, NEW name \in Names, UseTransactionFails(name)
    PROVE  Sound
<1>1. /\ Held # None /\ Top(DataItem(name))
      /\ stack' = Below(Settled, 1) \o <<DataItem("data")>>
      /\ transactions' = Restored(Popping(1), Current)
      /\ UNCHANGED <<cur_transaction, lost, trx_counter>>
  BY DEF UseTransactionFails, Popping, counters
<1>2. /\ Consistent(Below(Settled, 1), transactions', trx_counter, lost)
      /\ transactions'[cur_transaction] = Current /\ Current # None
      /\ Brings(transactions')
  BY <1>1, UseFacts
<1>3. /\ <<DataItem("data")>> \in Seq(Item)
      /\ \A i \in 1 .. Len(<<DataItem("data")>>) : Free(<<DataItem("data")>>[i])
  BY ItemFacts DEF Free
<1>4. Consistent(stack', transactions', trx_counter, lost)
  BY <1>1, <1>2, <1>3, FreePushed
<1> QED
  BY <1>1, <1>2, <1>4, SoundHere

\* The current transaction goes to a future that is pushed.
LEMMA HandSound ==
    ASSUME MachineInv, NEW n \in Nat, NEW x \in Resting, Hand(n, x)
    PROVE  Sound
<1> DEFINE c == cur_transaction
           t == Pending(trx_counter + 1)
           low == Below(Settled, n)
           future == <<Issued(trx_counter + 1, c, x)>>
<1>1. c \in Names /\ Consistent(stack, transactions, trx_counter, lost)
  BY DEF MachineInv
<1>2. Len(Settled) \in Nat /\ trx_counter \in 0 .. MaxIds
  BY <1>1, SettledFacts DEF Consistent, Shapes
<1>3. /\ trx_counter < MaxIds /\ trx_counter' = trx_counter + 1
      /\ Held # None /\ n \in 0 .. Len(Settled)
      /\ stack' = low \o future
      /\ transactions' = Restored(Popping(n), t)
      /\ UNCHANGED <<cur_transaction, lost>>
  BY <1>2 DEF Hand, Instruction, Popping
<1>4. /\ Consistent(low, Popping(n), trx_counter, lost)
      /\ Popping(n)[c] = None
      /\ Brings(Popping(n))
  BY <1>1, <1>3, PoppingFacts
<1>5. /\ transactions' = [Popping(n) EXCEPT ![c] = t]
      /\ ~Owes(Popping(n)[c])
      /\ Popping(n) \in [Names -> TransactionState \cup {None}]
  BY <1>3, <1>4 DEF Restored, Owes, Consistent, Shapes
<1>6. t # None
  <2>1. trx_counter + 1 \in 1 .. MaxIds
    BY <1>2, <1>3
  <2> QED
    BY <2>1, StateFacts
<1>7. Consistent(low \o future, [Popping(n) EXCEPT ![c] = t], trx_counter + 1, lost)
  BY <1>1, <1>3, <1>4, <1>5, ConsistentHanded, Zenon
<1>8. Consistent(stack', transactions', trx_counter', lost')
  BY <1>3, <1>5, <1>7
<1> HIDE DEF t
<1>9. transactions'[c] = t /\ \A m \in Names \ {c} : transactions'[m] = Popping(n)[m]
  BY <1>1, <1>5
<1>10. Brings(transactions')
  BY <1>4, <1>9 DEF Brings
<1> QED
  BY <1>3, <1>6, <1>8, <1>9, <1>10, SoundHere

-----------------------------------------------------------------------------
(* Every instruction is of one of these kinds.                             *)

LEMMA FreeData == \A n \in Nat : Data(n) \in Seq(Item) /\ \A i \in 1 .. Len(Data(n)) : Free(Data(n)[i])
BY ItemFacts DEF Data, Free

\* The transactions that instructions put back fit.
LEMMA FitsFacts ==
    ASSUME MachineInv, Held # None
    PROVE  /\ Fits(Current)
           /\ \A x \in Resting : Fits(State(x))
           /\ Usable(Current) => Fits(Renewed(Current))
<1>1. Fits(Current)
  BY CurrentFits
<1>2. \A x \in Resting : Fits(State(x))
  BY StateFacts DEF Fits
<1>3. Usable(Current) => Fits(Renewed(Current))
  BY <1>1, <1>2 DEF Renewed, Resting
<1> QED
  BY <1>1, <1>2, <1>3

\* With the transaction as found, renewed or at rest, and the counters alone.
LEMMA PlainSound ==
    ASSUME MachineInv, NEW n \in Nat, NEW t, NEW out \in Seq(Item),
           \A i \in 1 .. Len(out) : Free(out[i]),
           Instruction(n, t, out), UNCHANGED <<trx_counter, lost>>,
           \/ t = Current
           \/ Usable(Current) /\ t = Renewed(Current)
           \/ \E x \in Resting : t = State(x)
    PROVE  Sound
<1>1. Held # None
  BY DEF Instruction
<1>2. Fits(t)
  BY <1>1, FitsFacts
<1>3. trx_counter' \in 0 .. MaxIds /\ trx_counter <= trx_counter'
  BY DEF MachineInv, Consistent, Shapes
<1> QED
  BY <1>2, <1>3, InstructionSound

LEMMA ComputeSound ==
    ASSUME MachineInv, NEW n \in Nat, NEW m \in Nat, Compute(n, m)
    PROVE  Sound
BY FreeData, PlainSound DEF Compute, counters

LEMMA AskSound == ASSUME MachineInv, NEW n \in Nat, Ask(n) PROVE Sound
<1>1. Data(1) \in Seq(Item) /\ \A i \in 1 .. Len(Data(1)) : Free(Data(1)[i])
  BY FreeData
<1> QED
  BY <1>1, PlainSound DEF Ask, counters

LEMMA NothingPushed == <<>> \in Seq(Item) /\ \A i \in 1 .. Len(<<>>) : Free(<<>>[i])
OBVIOUS

LEMMA MutateSound == ASSUME MachineInv, NEW n \in Nat, Mutate(n) PROVE Sound
BY NothingPushed, PlainSound DEF Mutate, counters

LEMMA FetchSound == ASSUME MachineInv, NEW n \in Nat, Fetch(n) PROVE Sound
<1> DEFINE out == <<Issued(0, None, None)>>
<1>1. out \in Seq(Item) /\ \A i \in 1 .. Len(out) : Free(out[i])
  BY ItemFacts DEF Free
<1> QED
  BY <1>1, PlainSound DEF Fetch, counters

\* What is read at the top of the stack has been awaited.
LEMMA TopFree == ASSUME MachineInv, NEW item, Top(item) PROVE Free(item)
<1>1. Consistent(stack, transactions, trx_counter, lost) /\ cur_transaction \in Names
  BY DEF MachineInv
<1>2. Settled \in Seq(Item)
  BY <1>1, SettledFacts DEF Consistent, Shapes
<1>3. Len(Settled) \in 1 .. Len(Settled) /\ Settled[Len(Settled)] \in Item
  BY <1>2 DEF Top
<1> QED
  BY <1>3, ItemFacts DEF Top, Free

LEMMA DataSound == ASSUME MachineInv, DataInstruction PROVE Sound
<1>1. ASSUME NEW element \in Names \cup {"data"}, Push(element) PROVE Sound
  <2> DEFINE out == <<DataItem(element)>>
  <2>1. out \in Seq(Item) /\ \A i \in 1 .. Len(out) : Free(out[i])
    BY ItemFacts DEF Free
  <2> QED
    BY <2>1, <1>1, PlainSound DEF Push, counters
<1>2. CASE Dup
  <2>1. PICK item \in Item : /\ Top(item) /\ Instruction(1, Current, <<item, item>>)
                             /\ UNCHANGED <<lost, counters>>
    BY <1>2 DEF Dup
  <2>2. /\ <<item, item>> \in Seq(Item)
        /\ \A i \in 1 .. Len(<<item, item>>) : Free(<<item, item>>[i])
    BY <2>1, TopFree
  <2> QED
    BY <2>1, <2>2, PlainSound DEF counters
<1>3. CASE WaitFuture
  <2>1. PICK item \in Item : /\ Top(item) /\ Instruction(1, Current, <<item>>)
                             /\ UNCHANGED <<lost, counters>>
    BY <1>3 DEF WaitFuture
  <2>2. <<item>> \in Seq(Item) /\ \A i \in 1 .. Len(<<item>>) : Free(<<item>>[i])
    BY <2>1, TopFree
  <2> QED
    BY <2>1, <2>2, PlainSound DEF counters
<1>4. ASSUME NEW depth \in 0 .. MaxStack, Swap(depth) PROVE Sound
  BY <1>4, SwapSound
<1>5. CASE EmptyStack
  BY <1>5, EmptyStackSound
<1>6. CASE WaitEmptyFails
  BY <1>6, AbandonedSound DEF WaitEmptyFails
<1>7. CASE Pop \/ Sub \/ Concat \/ Convert \/ StartThread \/ WaitEmpty
  BY <1>7, ComputeSound DEF Pop, Sub, Concat, Convert, StartThread, WaitEmpty
<1> QED
  BY <1>1, <1>2, <1>3, <1>4, <1>5, <1>6, <1>7 DEF DataInstruction

LEMMA TupleSound == ASSUME MachineInv, TupleInstruction PROVE Sound
<1>1. PICK n \in 0 .. MaxStack :
        \/ TuplePack(n)
        \/ \E complete \in BOOLEAN : TuplePackWithVersionstamp(n, complete)
        \/ TupleUnpack(n) \/ TupleRange(n) \/ TupleSort(n)
  BY DEF TupleInstruction
<1>2. \E p, q \in Nat : Compute(p, q)
  BY <1>1 DEF TuplePack, TuplePackWithVersionstamp, TupleUnpack, TupleRange, TupleSort
<1> QED
  BY <1>2, ComputeSound

LEMMA MapSound == ASSUME MachineInv, MapInstruction PROVE Sound
<1>1. CASE NewTransaction
  BY <1>1, NewTransactionSound
<1>2. CASE NewTransactionFails
  BY <1>2, AbandonedSound DEF NewTransactionFails
<1>3. ASSUME NEW name \in Names, UseTransaction(name) PROVE Sound
  BY <1>3, UseTransactionSound
<1>4. ASSUME NEW name \in Names, UseTransactionFails(name) PROVE Sound
  BY <1>4, UseTransactionFailsSound
<1>5. CASE OnError
  BY <1>5, HandSound DEF OnError, Resting
<1>6. ASSUME NEW ok \in BOOLEAN, Commit(ok) PROVE Sound
  BY <1>6, HandSound DEF Commit, Resting
<1>7. CASE Cancel
  <2>1. "Cancelled" \in Resting
    BY DEF Resting
  <2> QED
    BY <2>1, <1>7, NothingPushed, PlainSound DEF Cancel, counters
<1>8. CASE Reset
  BY <1>8, MutateSound DEF Reset
<1>9. CASE LogStack
  <2>1. /\ Instruction(Len(Settled), State("Transaction"), <<>>)
        /\ lost' = lost /\ trx_counter < MaxIds /\ trx_counter' = trx_counter + 1
    BY <1>9 DEF LogStack
  <2>2. cur_transaction \in Names /\ Consistent(stack, transactions, trx_counter, lost)
    BY DEF MachineInv
  <2>3. Len(Settled) \in Nat /\ trx_counter \in 0 .. MaxIds
    BY <2>2, SettledFacts DEF Consistent, Shapes
  <2>4. Fits(State("Transaction"))
    BY StateFacts DEF Fits, Resting
  <2>5. trx_counter' \in 0 .. MaxIds /\ trx_counter <= trx_counter'
    BY <2>1, <2>3
  <2> QED
    BY <2>1, <2>3, <2>4, <2>5, NothingPushed, InstructionSound
<1> QED
  BY <1>1, <1>2, <1>3, <1>4, <1>5, <1>6, <1>7, <1>8, <1>9 DEF MapInstruction

LEMMA TransactionSound == ASSUME MachineInv, TransactionInstruction PROVE Sound
<1>1. CASE Get \/ GetKey \/ GetVersionstamp
  BY <1>1, FetchSound DEF Get, GetKey, GetVersionstamp
<1>2. CASE \/ \E n \in {4, 5, 10} : GetRange(n)
           \/ AddConflictRange \/ AddConflictKey \/ GetApproximateSize
           \/ GetEstimatedRangeSize \/ GetRangeSplitPoints
  BY <1>2, AskSound DEF GetRange, AddConflictRange, AddConflictKey, GetApproximateSize,
        GetEstimatedRangeSize, GetRangeSplitPoints
<1>3. CASE \/ Set \/ Clear \/ AtomicOp \/ SetReadVersion
           \/ \E n \in {1, 2} : ClearRange(n)
           \/ DisableWriteConflict \/ UnitTests
  BY <1>3, MutateSound DEF Set, Clear, ClearRange, AtomicOp, SetReadVersion,
        DisableWriteConflict, UnitTests
<1>4. CASE DisableWriteConflictFails \/ UnitTestsFail
  BY <1>4, AbandonedSound DEF DisableWriteConflictFails, UnitTestsFail
<1>5. Data(1) \in Seq(Item) /\ \A i \in 1 .. Len(Data(1)) : Free(Data(1)[i])
  BY FreeData
<1>6. ASSUME NEW ok \in BOOLEAN, GetReadVersion(ok) PROVE Sound
  BY <1>5, <1>6, PlainSound DEF GetReadVersion
<1>7. CASE GetCommittedVersion
  BY <1>5, <1>7, PlainSound DEF GetCommittedVersion
<1> QED
  BY <1>1, <1>2, <1>3, <1>4, <1>6, <1>7 DEF TransactionInstruction

\* Whatever the program, an instruction keeps the invariant, and the other
\* transactions.
LEMMA MachineStep == MachineInv /\ [MachineNext]_machinevars => MachineInv' /\ [KeepsOthers]_machinevars
<1> SUFFICES ASSUME MachineInv, [MachineNext]_machinevars
             PROVE  MachineInv' /\ [KeepsOthers]_machinevars
  OBVIOUS
<1>1. CASE MachineNext
  <2>1. ASSUME DatabaseForms PROVE Sound
    BY <2>1, ReadDatabaseSound, MutateDatabaseSound, DatabaseFailsSound DEF DatabaseForms
  <2>2. Sound
    BY <1>1, <2>1, DataSound, TupleSound, MapSound, TransactionSound DEF MachineNext
  <2> QED
    BY <2>2 DEF Sound
<1>2. CASE UNCHANGED machinevars
  BY <1>2 DEF machinevars, MachineInv, Held
<1> QED
  BY <1>1, <1>2

LEMMA MachineStart == MachineInit => MachineInv
<1> SUFFICES ASSUME MachineInit PROVE MachineInv
  OBVIOUS
<1> DEFINE t == State("Transaction")
<1>1. t \in TransactionState /\ t # None /\ ~Owes(t)
  BY StateFacts DEF Resting
<1>2. /\ transactions \in [Names -> TransactionState \cup {None}]
      /\ \A name \in Names : ~Owes(transactions[name])
      /\ Held = t
  BY <1>1 DEF MachineInit, Held, Owes
<1>3. /\ stack \in Seq(Item) /\ Len(stack) = 0
      /\ trx_counter = 0 /\ lost = {} /\ cur_transaction \in Names
  BY DEF MachineInit
<1> HIDE DEF t
<1> QED
  BY <1>1, <1>2, <1>3 DEF MachineInv, Consistent, Shapes, FuturesApart, IdsApart, Kept

\* The invariant says more than the property of the runs.
LEMMA MachineInvOwned == MachineInv => TransactionsOwned
<1> SUFFICES ASSUME MachineInv PROVE TransactionsOwned
  OBVIOUS
<1> DEFINE c == cur_transaction
<1>1. c \in Names /\ Consistent(stack, transactions, trx_counter, lost)
  BY DEF MachineInv
<1>2. ASSUME c \notin lost PROVE Usable(Current)
  <2>1. Held # None
    BY <1>2 DEF MachineInv
  <2> QED
    BY <2>1, <1>1, <1>2, CurrentFacts
<1>3. ASSUME NEW name \in Names \ lost
      PROVE  LET t == transactions[name]
             IN  /\ {i \in 1 .. Len(stack) : stack[i].fut # None /\ stack[i].fut.name = name} = Owner(t)
                 /\ Cardinality(Owner(t)) = IF t # None /\ t.state = "Pending" THEN 1 ELSE 0
  <2> DEFINE t == transactions[name]
             owners == {i \in 1 .. Len(stack) : Named(stack[i]) /\ stack[i].fut.name = name}
  <2>1. Owner(t) = owners
    BY <1>1, OwnersNamed
  <2>2. {i \in 1 .. Len(stack) : stack[i].fut # None /\ stack[i].fut.name = name} = owners
    BY <1>3 DEF Named
  <2>3. CASE Owes(t)
    <3>1. PICK i \in owners : TRUE
      BY <1>1, <2>3 DEF Consistent, Kept
    <3>2. \A j \in owners : j = i
      BY <1>1, <3>1 DEF Consistent, FuturesApart
    <3>3. Owner(t) = {i}
      BY <2>1, <3>1, <3>2
    <3>4. Cardinality(Owner(t)) = 1
      BY <3>3, FS_Singleton
    <3> QED
      BY <2>1, <2>2, <2>3, <3>4 DEF Owes
  <2>4. CASE ~Owes(t)
    <3>1. Owner(t) = {}
      BY <2>4 DEF Owner, Owes
    <3>2. Cardinality(Owner(t)) = 0
      BY <3>1, FS_EmptySet
    <3> QED
      BY <2>1, <2>2, <2>4, <3>2 DEF Owes
  <2> QED
    BY <2>3, <2>4
<1> QED
  BY <1>2, <1>3 DEF TransactionsOwned

\* TransactionState::Pending, take, as_mut: in any program, with any number of
\* names, futures and items, the current transaction is usable when an
\* instruction wants it, unless an error or EMPTY_STACK lost it, and each
\* transaction that a future owns comes back from exactly one item.
THEOREM OwnershipHolds == MachineSpec => []TransactionsOwned
<1>1. MachineSpec => []MachineInv
  BY MachineStart, MachineStep, PTL DEF MachineSpec
<1> QED
  BY <1>1, MachineInvOwned, PTL

\* run_step: in any program an instruction leaves the transactions of other
\* names as they were, or as the future it awaits gives them back.
THEOREM OthersAreKept == MachineSpec => OthersKept
<1>1. MachineSpec => []MachineInv
  BY MachineStart, MachineStep, PTL DEF MachineSpec
<1> QED
  BY <1>1, MachineStep, PTL DEF MachineSpec, OthersKept

-----------------------------------------------------------------------------
(* The directory list.                                                     *)

\* DirectoryInv, by the entries.
Entries == {"Directory", "Subspace", "Null"} \cup Output
LEMMA DirectoryInvByEntries ==
    DirectoryInv <=>
        /\ directory_stack \in Seq(Entries)
        /\ directory_index \in Nat /\ error_index \in Nat /\ created \in Nat
        /\ Len(directory_stack) = created + 1
        /\ directory_index < Len(directory_stack) /\ directory_stack[directory_index + 1] # "Null"
        /\ error_index < Len(directory_stack) /\ directory_stack[error_index + 1] # "Null"
BY DEF DirectoryInv, ListInStep, get_current_directory_item, Exists, ListEntry, Entries

\* Entries stay where they are in a list that grows.
LEMMA EntryStays ==
    ASSUME NEW list \in Seq(Entries), NEW items \in Seq(Entries), NEW index \in Nat,
           index < Len(list)
    PROVE  index < Len(list \o items) /\ (list \o items)[index + 1] = list[index + 1]
OBVIOUS

LEMMA ListGrows ==
    ASSUME NEW T, NEW list \in Seq(T), NEW items \in Seq(T)
    PROVE  list \o items \in Seq(T) /\ Len(list \o items) = Len(list) + Len(items)
OBVIOUS

\* An instruction appends what one of its kind appends, works or fails.
LEMMA AppendsOne ==
    ASSUME DirectoryInv, NEW items \in Seq(Entries), NEW out, NEW code,
           Appends(items, out), Counted(code),
           Len(items) = IF code \in Making THEN 1 ELSE 0
    PROVE  DirectoryInv'
<1>1. /\ directory_stack' = directory_stack \o items
      /\ created' = IF code \in Making THEN created + 1 ELSE created
      /\ directory_index' = directory_index /\ error_index' = error_index
  BY DEF Appends, Counted
<1>2. /\ directory_stack \in Seq(Entries)
      /\ directory_index \in Nat /\ error_index \in Nat /\ created \in Nat
      /\ Len(directory_stack) = created + 1
      /\ directory_index < Len(directory_stack) /\ directory_stack[directory_index + 1] # "Null"
      /\ error_index < Len(directory_stack) /\ directory_stack[error_index + 1] # "Null"
  BY DirectoryInvByEntries
<1>3. directory_stack' \in Seq(Entries) /\ Len(directory_stack') = created' + 1 /\ created' \in Nat
  <2>1. /\ directory_stack \o items \in Seq(Entries)
        /\ Len(directory_stack \o items) = Len(directory_stack) + Len(items)
    BY <1>2, ListGrows
  <2> QED
    BY <1>1, <1>2, <2>1
<1>4. /\ directory_index < Len(directory_stack') /\ directory_stack'[directory_index + 1] # "Null"
      /\ error_index < Len(directory_stack') /\ directory_stack'[error_index + 1] # "Null"
  BY <1>1, <1>2, EntryStays
<1> QED
  BY <1>1, <1>2, <1>3, <1>4 DEF DirectoryInv, ListInStep, get_current_directory_item, Exists,
     ListEntry, Entries

LEMMA AppendsNone ==
    ASSUME DirectoryInv, NEW out, NEW code, Appends(<<>>, out), Counted(code), code \notin Making
    PROVE  DirectoryInv'
<1> DEFINE items == <<>>
<1>1. items \in Seq(Entries) /\ Len(items) = 0 /\ Appends(items, out)
  OBVIOUS
<1> HIDE DEF items
<1> QED
  BY <1>1, AppendsOne

LEMMA ErrorAppends ==
    ASSUME DirectoryInv, NEW code, push_directory_err(code), Counted(code)
    PROVE  DirectoryInv'
<1> DEFINE items == IF code \in Making THEN <<"Null">> ELSE <<>>
<1>1. items \in Seq(Entries) /\ Len(items) = IF code \in Making THEN 1 ELSE 0
  <2>1. <<>> \in Seq(Entries) /\ Len(<<>>) = 0
    OBVIOUS
  <2>2. <<"Null">> \in Seq(Entries) /\ Len(<<"Null">>) = 1
    BY DEF Entries
  <2> QED
    BY <2>1, <2>2
<1> QED
  BY <1>1, AppendsOne DEF push_directory_err

\* What an instruction on the directory layer appends is the same whether its
\* transaction succeeded at once, after some attempts, or never.
LEMMA OperationAppends ==
    ASSUME DirectoryInv, NEW code, NEW out, DirectoryOperation(code, out),
           code \in Making <=> code \in OnDirectory
    PROVE  DirectoryInv'
<1>1. CASE push_directory_err(code)
  BY <1>1, ErrorAppends DEF DirectoryOperation
<1>2. ASSUME NEW item \in Output, Appends(IF code \in OnDirectory THEN <<item>> ELSE <<>>, out)
      PROVE  DirectoryInv'
  <2>1. Counted(code)
    BY DEF DirectoryOperation
  <2>2. CASE code \in Making
    <3>1. <<item>> \in Seq(Entries) /\ Len(<<item>>) = 1 /\ Appends(<<item>>, out)
      BY <1>2, <2>2 DEF Entries
    <3> QED
      BY <2>1, <2>2, <3>1, AppendsOne
  <2>3. CASE code \notin Making
    BY <1>2, <2>1, <2>3, AppendsNone
  <2> QED
    BY <2>2, <2>3
<1> QED
  BY <1>1, <1>2 DEF DirectoryOperation

LEMMA SubspaceAppends ==
    ASSUME DirectoryInv, NEW code, NEW out, OnSubspace(code, out), code \notin Making
    PROVE  DirectoryInv'
BY AppendsNone, ErrorAppends DEF OnSubspace

\* The attempts of an operation, and changes of the two indices, leave the list.
LEMMA ListUnchanged ==
    ASSUME DirectoryInv, UNCHANGED <<directory_stack, created>>,
           \/ directory_index' = directory_index
           \/ directory_index' = error_index
           \/ /\ directory_index' \in Nat /\ Exists(directory_index')
              /\ ListEntry(directory_index') # "Null",
           \/ error_index' = error_index
           \/ error_index' \in Nat /\ Exists(error_index') /\ ListEntry(error_index') # "Null"
    PROVE  DirectoryInv'
BY DirectoryInvByEntries DEF DirectoryInv, ListInStep, get_current_directory_item, Exists,
   ListEntry, Entries

\* Whatever the program and whatever fails, the list stays in step.
LEMMA DirectoryStep == DirectoryInv /\ [DirectoryNext]_directoryvars => DirectoryInv'
<1> SUFFICES ASSUME DirectoryInv, [DirectoryNext]_directoryvars PROVE DirectoryInv'
  OBVIOUS
<1>1. CASE \/ Create \/ Open \/ CreateOrOpen \/ Move \/ MoveTo \/ RemoveDirectory
           \/ RemoveIfExists \/ List \/ DirectoryExists
  <2>1. \A code \in {"create", "open", "create_or_open", "move", "move_to", "remove",
                     "remove_if_exists", "list", "exists"} :
            code \in Making <=> code \in OnDirectory
    BY DEF Making, OnDirectory
  <2>2. \E out : \E code \in {"create", "open", "create_or_open", "move", "move_to", "remove",
                     "remove_if_exists", "list", "exists"} : DirectoryOperation(code, out)
    BY <1>1 DEF Create, Open, CreateOrOpen, Move, MoveTo, RemoveDirectory, RemoveIfExists,
          List, DirectoryExists
  <2> QED
    BY <2>1, <2>2, OperationAppends
<1>2. CASE \/ PackInSubspace \/ DirectoryRange \/ ContainsKey
           \/ \E n \in 0 .. 2 : UnpackKey(n)
           \/ \E matches \in BOOLEAN : StripPrefix(matches)
  <2>1. \A code \in {"pack_key", "unpack_key", "range", "contains", "strip_prefix"} : code \notin Making
    BY DEF Making
  <2>2. \/ \E out : \E code \in {"pack_key", "unpack_key", "range", "contains", "strip_prefix"} :
                OnSubspace(code, out)
        \/ push_directory_err("strip_prefix") /\ Counted("strip_prefix")
    BY <1>2 DEF PackInSubspace, DirectoryRange, ContainsKey, UnpackKey, StripPrefix
  <2> QED
    BY <2>1, <2>2, SubspaceAppends, ErrorAppends
<1>3. CASE Attempt
  BY <1>3, ListUnchanged DEF Attempt
<1>4. CASE CreateSubspace
  <2>1. <<"Subspace">> \in Seq(Entries) /\ Len(<<"Subspace">>) = 1 /\ "create_subspace" \in Making
    BY DEF Entries, Making
  <2> QED
    BY <2>1, <1>4, AppendsOne DEF CreateSubspace
<1>5. ASSUME NEW node \in Index, NEW content \in Index, CreateLayer(node, content)
      PROVE  DirectoryInv'
  <2>1. /\ <<"Directory">> \in Seq(Entries) /\ Len(<<"Directory">>) = 1
        /\ <<"Null">> \in Seq(Entries) /\ Len(<<"Null">>) = 1 /\ "create_layer" \in Making
    BY DEF Entries, Making
  <2> QED
    BY <2>1, <1>5, AppendsOne DEF CreateLayer
<1>6. CASE OpenSubspace
  <2>1. <<"Subspace">> \in Seq(Entries) /\ Len(<<"Subspace">>) = 1 /\ "open_subspace" \in Making
    BY DEF Entries, Making
  <2> QED
    BY <2>1, <1>6, AppendsOne, ErrorAppends DEF OpenSubspace
<1>7. CASE LogSubspace
  <2>1. "log_subspace" \notin Making
    BY DEF Making
  <2> QED
    BY <2>1, <1>7, AppendsNone, ErrorAppends DEF LogSubspace
<1>8. CASE LogDirectory
  <2>1. "log_directory" \notin Making
    BY DEF Making
  <2> QED
    BY <2>1, <1>8, AppendsNone DEF LogDirectory
<1>9. ASSUME NEW index \in Index, Change(index) \/ SetErrorIndex(index)
      PROVE  DirectoryInv'
  <2>1. index \in Nat
    BY DEF Index
  <2>2. CASE Change(index)
    BY <2>1, <2>2, ListUnchanged DEF Change
  <2>3. CASE SetErrorIndex(index)
    BY <2>1, <2>3, ListUnchanged DEF SetErrorIndex
  <2> QED
    BY <1>9, <2>2, <2>3
<1>10. CASE UNCHANGED directoryvars
  BY <1>10, ListUnchanged DEF directoryvars
<1> QED
  BY <1>1, <1>2, <1>3, <1>4, <1>5, <1>6, <1>7, <1>8, <1>9, <1>10 DEF DirectoryNext

\* push_directory_err, DIRECTORY_CHANGE: in any program, the list has one entry
\* for each instruction that makes a directory or a subspace, whatever failed
\* and however often its transaction was tried, and the current directory is an
\* entry of it that is not null.
THEOREM ListStaysInStep == DirectorySpec => []ListInStep
<1>1. DirectoryInit => DirectoryInv
  BY DEF DirectoryInit, DirectoryInv, ListInStep, get_current_directory_item, Exists, ListEntry
<1>2. DirectoryInv => ListInStep
  BY DEF DirectoryInv
<1> QED
  BY <1>1, <1>2, DirectoryStep, PTL DEF DirectorySpec
=============================================================================
