--------------------------- MODULE DirectoryProofs ---------------------------
(***************************************************************************)
(* A directory of a newer version is left alone, whatever clients ask for, *)
(* whatever the names and the allocator, and with prefixes by hand or not. *)
(***************************************************************************)
EXTENDS Directory, SequenceTheorems, WellFoundedInduction, TLAPS

-----------------------------------------------------------------------------
(* The invariant.                                                          *)

\* The shape of a store and of an execution.
StoreShape(db) == db = [meta |-> db.meta, data |-> db.data]
RunShape(e) ==
    e = [db |-> e.db, reads |-> e.reads, writes |-> e.writes, result |-> e.result,
         prefix |-> e.prefix, layer |-> e.layer, prefixes |-> e.prefixes]

\* No write makes the root's version another than the current one.
GoodWrite(w) ==
    /\ w.op \in {"set", "clear", "content"}
    /\ w.op = "set" /\ w.key = VersionKey(Root) => w.value = "current"
GoodWrites(ws) == \E S : ws \in Seq(S) /\ \A w \in S : GoodWrite(w)

\* No directory of a store is a partition, and no write makes one.
NoPartition(db) == \A k \in DOMAIN db.meta : k.item = <<"layer">> => db.meta[k] # Partition
PlainWrite(w) ==
    w.op = "set" /\ w.key.item = <<"layer">> => w.value # Partition

Tame(e, plain) ==
    RunShape(e) /\ StoreShape(e.db) /\ GoodWrites(e.writes) /\ (plain => NoPartition(e.db))

\* The root's version is there and newer.
Newer(db) == VersionKey(Root) \in DOMAIN db.meta /\ db.meta[VersionKey(Root)] # "current"
Major(db) == Newer(db) /\ db.meta[VersionKey(Root)] = "major"

StoreInv(db) ==
    /\ StoreShape(db)
    /\ Newer(db) => NoPartition(db) /\ db.meta[VersionKey(Root)] \in {"minor", "major"}

\* A newer version is at most filled, and a new major version not even that.
WritesInv(db, ws) ==
    /\ GoodWrites(ws)
    /\ Newer(db) => \A i \in 1 .. Len(ws) : ws[i].op = "content"
    /\ Major(db) => ws = <<>>

VersionInv ==
    /\ StoreInv(store)
    /\ txn = [c \in Client |-> txn[c]]
    /\ \A c \in Client : WritesInv(store, txn[c].writes)

-----------------------------------------------------------------------------
(* Numbers.                                                                *)

\* A set of numbers that has 0 and the successor of its members has all of them.
LEMMA NumberInduction ==
    ASSUME NEW S, 0 \in S, \A n \in Nat : n \in S => n + 1 \in S
    PROVE  Nat \subseteq S
<1> SUFFICES ASSUME Nat \ S # {} PROVE FALSE
  OBVIOUS
<1>1. PICK m \in Nat \ S : \A n \in Nat \ S : <<n, m>> \notin OpToRel(<, Nat)
  BY NatLessThanWellFounded, WFMin, Zenon
<1>2. \A n \in Nat \ S : ~(n < m)
  BY <1>1, Zenon DEF OpToRel
<1>3. m # 0 /\ m \in Nat
  BY <1>1
<1>4. m - 1 \in Nat /\ m - 1 < m /\ (m - 1) + 1 = m
  BY <1>3
<1>5. m - 1 \in S
  BY <1>2, <1>4
<1> QED
  BY <1>1, <1>4, <1>5

-----------------------------------------------------------------------------
(* One write.                                                              *)

\* A sequence of good writes is one more write long.
LEMMA AppendGood ==
    ASSUME NEW ws, NEW w, GoodWrites(ws), GoodWrite(w)
    PROVE  GoodWrites(Append(ws, w))
<1>1. PICK S : ws \in Seq(S) /\ \A v \in S : GoodWrite(v)
  BY DEF GoodWrites
<1>2. ws \in Seq(S \cup {w}) /\ w \in S \cup {w}
  <2>1. ws \in [1 .. Len(ws) -> S] /\ Len(ws) \in Nat
    BY <1>1
  <2> QED
    BY <2>1
<1>3. Append(ws, w) \in Seq(S \cup {w})
  BY <1>2
<1>4. \A v \in S \cup {w} : GoodWrite(v)
  BY <1>1
<1> QED
  BY <1>3, <1>4 DEF GoodWrites

\* The writes of a sequence are good, and there are finitely many.
LEMMA GoodFacts ==
    ASSUME NEW ws, GoodWrites(ws)
    PROVE  Len(ws) \in Nat /\ \A i \in 1 .. Len(ws) : GoodWrite(ws[i])
<1>1. PICK S : ws \in Seq(S) /\ \A v \in S : GoodWrite(v)
  BY DEF GoodWrites
<1>2. Len(ws) \in Nat /\ \A i \in 1 .. Len(ws) : ws[i] \in S
  BY <1>1
<1> QED
  BY <1>1, <1>2

\* Nothing written is well written.
LEMMA EmptyGood == GoodWrites(<<>>)
<1> DEFINE none == {}
<1>1. <<>> \in Seq(none) /\ \A v \in none : GoodWrite(v)
  OBVIOUS
<1> HIDE DEF none
<1> QED
  BY <1>1 DEF GoodWrites

\* A good write keeps the shape of a store and its version, unless newer; a plain
\* one makes no partition, and content changes no metadata.
LEMMA AppliedFacts ==
    ASSUME NEW db, NEW w, StoreShape(db), GoodWrite(w)
    PROVE  /\ StoreShape(Applied(db, w))
           /\ ~Newer(db) => ~Newer(Applied(db, w))
           /\ NoPartition(db) /\ PlainWrite(w) => NoPartition(Applied(db, w))
           /\ w.op = "content" => Applied(db, w).meta = db.meta
<1>1. CASE w.op = "set"
  <2> DEFINE m == [k \in DOMAIN db.meta \cup {w.key} |-> IF k = w.key THEN w.value ELSE db.meta[k]]
  <2>1. Applied(db, w) = [db EXCEPT !.meta = m]
    BY <1>1 DEF Applied
  <2>2. Applied(db, w) = [meta |-> m, data |-> db.data]
    BY <2>1 DEF StoreShape
  <2>3. Applied(db, w).meta = m /\ StoreShape(Applied(db, w))
    BY <2>2 DEF StoreShape
  <2>4. \A k \in DOMAIN m : m[k] = IF k = w.key THEN w.value ELSE db.meta[k]
    OBVIOUS
  <2>5. \A k \in DOMAIN m : k # w.key => k \in DOMAIN db.meta
    OBVIOUS
  <2> HIDE DEF m
  <2>6. ~Newer(db) => ~Newer(Applied(db, w))
    BY <1>1, <2>3, <2>4, <2>5 DEF Newer, GoodWrite
  <2>7. NoPartition(db) /\ PlainWrite(w) => NoPartition(Applied(db, w))
    BY <1>1, <2>3, <2>4, <2>5 DEF NoPartition, PlainWrite
  <2> QED
    BY <1>1, <2>3, <2>6, <2>7
<1>2. CASE w.op = "clear"
  <2> DEFINE D == {k \in DOMAIN db.meta : ~\E x \in w.extents : Overlap(x, Exactly(k))}
             m == [k \in D |-> db.meta[k]]
             d == {p \in db.data : ~\E x \in w.extents : IsRaw(x) /\ IsPrefix(x.at, p)}
  <2>1. Applied(db, w) = [meta |-> m, data |-> d]
    BY <1>2 DEF Applied
  <2>2. Applied(db, w).meta = m /\ StoreShape(Applied(db, w))
    <3> HIDE DEF m, d
    <3> QED
      BY <2>1 DEF StoreShape
  <2>3. D \subseteq DOMAIN db.meta
    OBVIOUS
  <2> HIDE DEF D
  <2>4. DOMAIN m = D /\ \A k \in D : m[k] = db.meta[k]
    OBVIOUS
  <2> HIDE DEF m
  <2>5. ~Newer(db) => ~Newer(Applied(db, w))
    BY <2>2, <2>3, <2>4 DEF Newer
  <2>6. NoPartition(db) => NoPartition(Applied(db, w))
    BY <2>2, <2>3, <2>4 DEF NoPartition
  <2> QED
    BY <1>2, <2>2, <2>5, <2>6
<1>3. CASE w.op = "content"
  <2>1. Applied(db, w) = [db EXCEPT !.data = db.data \cup {x.at : x \in w.extents}]
    BY <1>3 DEF Applied
  <2>2. Applied(db, w) = [meta |-> db.meta, data |-> db.data \cup {x.at : x \in w.extents}]
    BY <2>1 DEF StoreShape
  <2>3. Applied(db, w).meta = db.meta /\ StoreShape(Applied(db, w))
    BY <2>2 DEF StoreShape
  <2> QED
    BY <2>3 DEF Newer, NoPartition
<1> QED
  BY <1>1, <1>2, <1>3 DEF GoodWrite

\* The writes there are.
LEMMA VersionWrite ==
    ASSUME NEW L
    PROVE  GoodWrite(SetKey(VersionKey(L), "current")) /\ PlainWrite(SetKey(VersionKey(L), "current"))
BY DEF GoodWrite, PlainWrite, SetKey, VersionKey, Key

\* What the allocator writes is good, and makes no partition.
LEMMA HcaWrite ==
    ASSUME NEW L, NEW c, NEW v
    PROVE  GoodWrite(SetKey(HcaKey(L, c), v)) /\ PlainWrite(SetKey(HcaKey(L, c), v))
<1>1. <<"hca", c>> # <<"version">> /\ <<"hca", c>> # <<"layer">>
  OBVIOUS
<1>2. SetKey(HcaKey(L, c), v).op = "set" /\ SetKey(HcaKey(L, c), v).key.item = <<"hca", c>>
  BY DEF SetKey, HcaKey, Key
<1>3. VersionKey(Root).item = <<"version">>
  BY DEF VersionKey, Key
<1> QED
  BY <1>1, <1>2, <1>3 DEF GoodWrite, PlainWrite

\* An entry in a parent is good, and makes no partition.
LEMMA SubWrite ==
    ASSUME NEW L, NEW node, NEW name, NEW v
    PROVE  GoodWrite(SetKey(SubKey(L, node, name), v)) /\ PlainWrite(SetKey(SubKey(L, node, name), v))
<1>1. <<"sub", name>> # <<"version">> /\ <<"sub", name>> # <<"layer">>
  OBVIOUS
<1>2. SetKey(SubKey(L, node, name), v).op = "set" /\ SetKey(SubKey(L, node, name), v).key.item = <<"sub", name>>
  BY DEF SetKey, SubKey, Key
<1>3. VersionKey(Root).item = <<"version">>
  BY DEF VersionKey, Key
<1> QED
  BY <1>1, <1>2, <1>3 DEF GoodWrite, PlainWrite

\* The layer of a node is good, and makes no partition unless it is one.
LEMMA LayerWrite ==
    ASSUME NEW L, NEW node, NEW v
    PROVE  /\ GoodWrite(SetKey(LayerKey(L, node), v))
           /\ v # Partition => PlainWrite(SetKey(LayerKey(L, node), v))
<1>1. SetKey(LayerKey(L, node), v).op = "set" /\ SetKey(LayerKey(L, node), v).key.item = <<"layer">>
  BY DEF SetKey, LayerKey, Key
<1>2. SetKey(LayerKey(L, node), v).value = v
  BY DEF SetKey
<1>3. VersionKey(Root).item = <<"version">>
  BY DEF VersionKey, Key
<1> QED
  BY <1>1, <1>2, <1>3 DEF GoodWrite, PlainWrite

\* What is cleared and what content is stored are good, and make no partition.
LEMMA OtherWrites ==
    ASSUME NEW x
    PROVE  /\ GoodWrite(Clear(x)) /\ PlainWrite(Clear(x))
           /\ GoodWrite(Content(x)) /\ PlainWrite(Content(x)) /\ Content(x).op = "content"
BY DEF GoodWrite, PlainWrite, Clear, Content

\* The stores between the writes of a transaction.
StoresIs(f, db, ws) ==
    /\ AllApplied(db, ws) = f[Len(ws)] /\ f[0] = db
    /\ \A i \in 1 .. Len(ws) : f[i] = Applied(f[i - 1], ws[i])

\* AllApplied goes from a store to the next, write by write.
LEMMA StoresFacts ==
    ASSUME NEW db, NEW ws, Len(ws) \in Nat
    PROVE  \E f : StoresIs(f, db, ws)
<1> DEFINE St(i, x) == Applied(x, ws[i])
           IsUpto(f, m) == f = [i \in 0 .. m |-> IF i = 0 THEN db ELSE St(i, f[i - 1])]
           Some == {m \in Nat : \E f : IsUpto(f, m)}
           g0 == [i \in 0 .. 0 |-> db]
           at == CHOOSE f : IsUpto(f, Len(ws))
<1>1. AllApplied(db, ws) = at[Len(ws)]
  BY DEF AllApplied
<1>2. \A i \in 1 .. Len(ws) : \A x : St(i, x) = Applied(x, ws[i])
  OBVIOUS
<1> HIDE DEF St, at
<1>3. 0 \in Some
  <2>1. g0 = [i \in 0 .. 0 |-> IF i = 0 THEN db ELSE St(i, g0[i - 1])]
    OBVIOUS
  <2> QED
    BY <2>1
<1>4. ASSUME NEW m \in Nat, m \in Some PROVE m + 1 \in Some
  <2>1. PICK g : IsUpto(g, m)
    BY <1>4
  <2> DEFINE h == [i \in 0 .. m + 1 |-> IF i <= m THEN g[i] ELSE St(m + 1, g[m])]
  <2>2. ASSUME NEW i \in 0 .. m + 1 PROVE h[i] = IF i = 0 THEN db ELSE St(i, h[i - 1])
    <3>1. CASE i = 0
      BY <2>1, <3>1
    <3>2. CASE i \in 1 .. m
      <4>1. i - 1 \in 0 .. m /\ i \in 0 .. m /\ i - 1 \in 0 .. m + 1 /\ i \in 0 .. m + 1 /\ i # 0
        BY <3>2
      <4>2. h[i] = g[i] /\ h[i - 1] = g[i - 1]
        BY <4>1
      <4>3. g[i] = St(i, g[i - 1])
        BY <2>1, <4>1
      <4> QED
        BY <4>1, <4>2, <4>3
    <3>3. CASE i = m + 1
      <4>1. i - 1 = m /\ m \in 0 .. m + 1 /\ m + 1 \in 0 .. m + 1 /\ ~(m + 1 <= m) /\ m + 1 # 0
        BY <3>3
      <4>2. h[m + 1] = St(m + 1, g[m]) /\ h[m] = g[m]
        BY <4>1
      <4> QED
        BY <3>3, <4>1, <4>2
    <3> QED
      BY <3>1, <3>2, <3>3
  <2>3. h = [i \in 0 .. m + 1 |-> h[i]]
    OBVIOUS
  <2> HIDE DEF h
  <2>4. IsUpto(h, m + 1)
    BY <2>2, <2>3
  <2> HIDE DEF IsUpto
  <2> QED
    BY <2>4
<1>5. \E f : IsUpto(f, Len(ws))
  <2> HIDE DEF IsUpto
  <2>1. Len(ws) \in Some
    <3> HIDE DEF Some
    <3> QED
      BY <1>3, <1>4, NumberInduction
  <2> QED
    BY <2>1
<1>6. IsUpto(at, Len(ws))
  <2> HIDE DEF IsUpto
  <2>1. at = CHOOSE f : IsUpto(f, Len(ws))
    BY DEF at
  <2> QED
    BY <1>5, <2>1, Zenon
<1>7. at[0] = db
  <2>1. 0 \in 0 .. Len(ws)
    OBVIOUS
  <2> QED
    BY <1>6, <2>1
<1>8. ASSUME NEW i \in 1 .. Len(ws) PROVE at[i] = St(i, at[i - 1])
  <2>1. i \in 0 .. Len(ws) /\ i # 0
    OBVIOUS
  <2> QED
    BY <1>6, <2>1
<1>9. \A i \in 1 .. Len(ws) : at[i] = Applied(at[i - 1], ws[i])
  BY <1>2, <1>8
<1>10. StoresIs(at, db, ws)
  BY <1>1, <1>7, <1>9 DEF StoresIs
<1> QED
  BY <1>10

\* The nodes of a walk.
WalkIs(f, db, L, path, start) ==
    /\ Walk(db, L, path, start) = f[Len(path)] /\ f[0] = start
    /\ \A i \in 1 .. Len(path) : f[i] = Further(db, L, path, f[i - 1])

\* A walk goes from a node to the next, name by name.
LEMMA WalkFacts ==
    ASSUME NEW db, NEW L, NEW path, NEW start, Len(path) \in Nat
    PROVE  \E f : WalkIs(f, db, L, path, start)
<1> DEFINE St(i, x) == Further(db, L, path, x)
           IsUpto(f, m) == f = [i \in 0 .. m |-> IF i = 0 THEN start ELSE St(i, f[i - 1])]
           Some == {m \in Nat : \E f : IsUpto(f, m)}
           g0 == [i \in 0 .. 0 |-> start]
           at == CHOOSE f : IsUpto(f, Len(path))
<1>1. Walk(db, L, path, start) = at[Len(path)]
  BY DEF Walk
<1>2. \A i \in 1 .. Len(path) : \A x : St(i, x) = Further(db, L, path, x)
  OBVIOUS
<1> HIDE DEF St, at
<1>3. 0 \in Some
  <2>1. g0 = [i \in 0 .. 0 |-> IF i = 0 THEN start ELSE St(i, g0[i - 1])]
    OBVIOUS
  <2> QED
    BY <2>1
<1>4. ASSUME NEW m \in Nat, m \in Some PROVE m + 1 \in Some
  <2>1. PICK g : IsUpto(g, m)
    BY <1>4
  <2> DEFINE h == [i \in 0 .. m + 1 |-> IF i <= m THEN g[i] ELSE St(m + 1, g[m])]
  <2>2. ASSUME NEW i \in 0 .. m + 1 PROVE h[i] = IF i = 0 THEN start ELSE St(i, h[i - 1])
    <3>1. CASE i = 0
      BY <2>1, <3>1
    <3>2. CASE i \in 1 .. m
      <4>1. i - 1 \in 0 .. m /\ i \in 0 .. m /\ i - 1 \in 0 .. m + 1 /\ i \in 0 .. m + 1 /\ i # 0
        BY <3>2
      <4>2. h[i] = g[i] /\ h[i - 1] = g[i - 1]
        BY <4>1
      <4>3. g[i] = St(i, g[i - 1])
        BY <2>1, <4>1
      <4> QED
        BY <4>1, <4>2, <4>3
    <3>3. CASE i = m + 1
      <4>1. i - 1 = m /\ m \in 0 .. m + 1 /\ m + 1 \in 0 .. m + 1 /\ ~(m + 1 <= m) /\ m + 1 # 0
        BY <3>3
      <4>2. h[m + 1] = St(m + 1, g[m]) /\ h[m] = g[m]
        BY <4>1
      <4> QED
        BY <3>3, <4>1, <4>2
    <3> QED
      BY <3>1, <3>2, <3>3
  <2>3. h = [i \in 0 .. m + 1 |-> h[i]]
    OBVIOUS
  <2> HIDE DEF h
  <2>4. IsUpto(h, m + 1)
    BY <2>2, <2>3
  <2> HIDE DEF IsUpto
  <2> QED
    BY <2>4
<1>5. \E f : IsUpto(f, Len(path))
  <2> HIDE DEF IsUpto
  <2>1. Len(path) \in Some
    <3> HIDE DEF Some
    <3> QED
      BY <1>3, <1>4, NumberInduction
  <2> QED
    BY <2>1
<1>6. IsUpto(at, Len(path))
  <2> HIDE DEF IsUpto
  <2>1. at = CHOOSE f : IsUpto(f, Len(path))
    BY DEF at
  <2> QED
    BY <1>5, <2>1, Zenon
<1>7. at[0] = start
  <2>1. 0 \in 0 .. Len(path)
    OBVIOUS
  <2> QED
    BY <1>6, <2>1
<1>8. ASSUME NEW i \in 1 .. Len(path) PROVE at[i] = St(i, at[i - 1])
  <2>1. i \in 0 .. Len(path) /\ i # 0
    OBVIOUS
  <2> QED
    BY <1>6, <2>1
<1>9. \A i \in 1 .. Len(path) : at[i] = Further(db, L, path, at[i - 1])
  BY <1>2, <1>8
<1>10. WalkIs(at, db, L, path, start)
  BY <1>1, <1>7, <1>9 DEF WalkIs
<1> QED
  BY <1>10

\* How often a path is forwarded at most is a number.
LEMMA ForwardsNat ==
    ASSUME NEW path, Len(path) \in Nat PROVE Forwards(path) \in Nat
BY DEF Forwards

\* The places an operation comes to.
InnermostIs(f, e, L, path, allow) ==
    /\ Innermost(e, L, path, allow) = f[Forwards(path)] /\ f[0] = Place(e, L, path)
    /\ \A i \in 1 .. Forwards(path) : f[i] = Forwarded(f[i - 1], allow)

\* An operation is forwarded from a layer to the next.
LEMMA InnermostFacts ==
    ASSUME NEW e, NEW L, NEW path, NEW allow, Forwards(path) \in Nat
    PROVE  \E f : InnermostIs(f, e, L, path, allow)
<1> DEFINE St(i, x) == Forwarded(x, allow)
           IsUpto(f, m) == f = [i \in 0 .. m |-> IF i = 0 THEN Place(e, L, path) ELSE St(i, f[i - 1])]
           Some == {m \in Nat : \E f : IsUpto(f, m)}
           g0 == [i \in 0 .. 0 |-> Place(e, L, path)]
           at == CHOOSE f : IsUpto(f, Forwards(path))
<1>1. Innermost(e, L, path, allow) = at[Forwards(path)]
  BY DEF Innermost
<1>2. \A i \in 1 .. Forwards(path) : \A x : St(i, x) = Forwarded(x, allow)
  OBVIOUS
<1> HIDE DEF St, at
<1>3. 0 \in Some
  <2>1. g0 = [i \in 0 .. 0 |-> IF i = 0 THEN Place(e, L, path) ELSE St(i, g0[i - 1])]
    OBVIOUS
  <2> QED
    BY <2>1
<1>4. ASSUME NEW m \in Nat, m \in Some PROVE m + 1 \in Some
  <2>1. PICK g : IsUpto(g, m)
    BY <1>4
  <2> DEFINE h == [i \in 0 .. m + 1 |-> IF i <= m THEN g[i] ELSE St(m + 1, g[m])]
  <2>2. ASSUME NEW i \in 0 .. m + 1 PROVE h[i] = IF i = 0 THEN Place(e, L, path) ELSE St(i, h[i - 1])
    <3>1. CASE i = 0
      BY <2>1, <3>1
    <3>2. CASE i \in 1 .. m
      <4>1. i - 1 \in 0 .. m /\ i \in 0 .. m /\ i - 1 \in 0 .. m + 1 /\ i \in 0 .. m + 1 /\ i # 0
        BY <3>2
      <4>2. h[i] = g[i] /\ h[i - 1] = g[i - 1]
        BY <4>1
      <4>3. g[i] = St(i, g[i - 1])
        BY <2>1, <4>1
      <4> QED
        BY <4>1, <4>2, <4>3
    <3>3. CASE i = m + 1
      <4>1. i - 1 = m /\ m \in 0 .. m + 1 /\ m + 1 \in 0 .. m + 1 /\ ~(m + 1 <= m) /\ m + 1 # 0
        BY <3>3
      <4>2. h[m + 1] = St(m + 1, g[m]) /\ h[m] = g[m]
        BY <4>1
      <4> QED
        BY <3>3, <4>1, <4>2
    <3> QED
      BY <3>1, <3>2, <3>3
  <2>3. h = [i \in 0 .. m + 1 |-> h[i]]
    OBVIOUS
  <2> HIDE DEF h
  <2>4. IsUpto(h, m + 1)
    BY <2>2, <2>3
  <2> HIDE DEF IsUpto
  <2> QED
    BY <2>4
<1>5. \E f : IsUpto(f, Forwards(path))
  <2> HIDE DEF IsUpto
  <2>1. Forwards(path) \in Some
    <3> HIDE DEF Some
    <3> QED
      BY <1>3, <1>4, NumberInduction
  <2> QED
    BY <2>1
<1>6. IsUpto(at, Forwards(path))
  <2> HIDE DEF IsUpto
  <2>1. at = CHOOSE f : IsUpto(f, Forwards(path))
    BY DEF at
  <2> QED
    BY <1>5, <2>1, Zenon
<1>7. at[0] = Place(e, L, path)
  <2>1. 0 \in 0 .. Forwards(path)
    OBVIOUS
  <2> QED
    BY <1>6, <2>1
<1>8. ASSUME NEW i \in 1 .. Forwards(path) PROVE at[i] = St(i, at[i - 1])
  <2>1. i \in 0 .. Forwards(path) /\ i # 0
    OBVIOUS
  <2> QED
    BY <1>6, <2>1
<1>9. \A i \in 1 .. Forwards(path) : at[i] = Forwarded(at[i - 1], allow)
  BY <1>2, <1>8
<1>10. InnermostIs(at, e, L, path, allow)
  BY <1>1, <1>7, <1>9 DEF InnermostIs
<1> QED
  BY <1>10

\* The executions between the choices of prefixes.
ChooseIs(f, e, L, path, missing, prefix, picks) ==
    /\ ChooseAll(e, L, path, missing, prefix, picks) = f[missing] /\ f[0] = e
    /\ \A i \in 1 .. missing : f[i] = IF i = 1 THEN ChoosePrefix(f[i - 1], L, prefix, picks[Len(path) + 1 - i])
                ELSE ChooseFor(f[i - 1], L, SubSeq(path, 1, Len(path) + 1 - i), picks[Len(path) + 1 - i])

\* The prefixes are chosen one after the other, the own one first.
LEMMA ChooseFacts ==
    ASSUME NEW e, NEW L, NEW path, NEW missing, NEW prefix, NEW picks, missing \in Nat
    PROVE  \E f : ChooseIs(f, e, L, path, missing, prefix, picks)
<1> DEFINE St(i, x) == IF i = 1 THEN ChoosePrefix(x, L, prefix, picks[Len(path) + 1 - i])
                ELSE ChooseFor(x, L, SubSeq(path, 1, Len(path) + 1 - i), picks[Len(path) + 1 - i])
           IsUpto(f, m) == f = [i \in 0 .. m |-> IF i = 0 THEN e ELSE St(i, f[i - 1])]
           Some == {m \in Nat : \E f : IsUpto(f, m)}
           g0 == [i \in 0 .. 0 |-> e]
           at == CHOOSE f : IsUpto(f, missing)
<1>1. ChooseAll(e, L, path, missing, prefix, picks) = at[missing]
  BY DEF ChooseAll
<1>2. \A i \in 1 .. missing : \A x : St(i, x) = IF i = 1 THEN ChoosePrefix(x, L, prefix, picks[Len(path) + 1 - i])
                ELSE ChooseFor(x, L, SubSeq(path, 1, Len(path) + 1 - i), picks[Len(path) + 1 - i])
  OBVIOUS
<1> HIDE DEF St, at
<1>3. 0 \in Some
  <2>1. g0 = [i \in 0 .. 0 |-> IF i = 0 THEN e ELSE St(i, g0[i - 1])]
    OBVIOUS
  <2> QED
    BY <2>1
<1>4. ASSUME NEW m \in Nat, m \in Some PROVE m + 1 \in Some
  <2>1. PICK g : IsUpto(g, m)
    BY <1>4
  <2> DEFINE h == [i \in 0 .. m + 1 |-> IF i <= m THEN g[i] ELSE St(m + 1, g[m])]
  <2>2. ASSUME NEW i \in 0 .. m + 1 PROVE h[i] = IF i = 0 THEN e ELSE St(i, h[i - 1])
    <3>1. CASE i = 0
      BY <2>1, <3>1
    <3>2. CASE i \in 1 .. m
      <4>1. i - 1 \in 0 .. m /\ i \in 0 .. m /\ i - 1 \in 0 .. m + 1 /\ i \in 0 .. m + 1 /\ i # 0
        BY <3>2
      <4>2. h[i] = g[i] /\ h[i - 1] = g[i - 1]
        BY <4>1
      <4>3. g[i] = St(i, g[i - 1])
        BY <2>1, <4>1
      <4> QED
        BY <4>1, <4>2, <4>3
    <3>3. CASE i = m + 1
      <4>1. i - 1 = m /\ m \in 0 .. m + 1 /\ m + 1 \in 0 .. m + 1 /\ ~(m + 1 <= m) /\ m + 1 # 0
        BY <3>3
      <4>2. h[m + 1] = St(m + 1, g[m]) /\ h[m] = g[m]
        BY <4>1
      <4> QED
        BY <3>3, <4>1, <4>2
    <3> QED
      BY <3>1, <3>2, <3>3
  <2>3. h = [i \in 0 .. m + 1 |-> h[i]]
    OBVIOUS
  <2> HIDE DEF h
  <2>4. IsUpto(h, m + 1)
    BY <2>2, <2>3
  <2> HIDE DEF IsUpto
  <2> QED
    BY <2>4
<1>5. \E f : IsUpto(f, missing)
  <2> HIDE DEF IsUpto
  <2>1. missing \in Some
    <3> HIDE DEF Some
    <3> QED
      BY <1>3, <1>4, NumberInduction
  <2> QED
    BY <2>1
<1>6. IsUpto(at, missing)
  <2> HIDE DEF IsUpto
  <2>1. at = CHOOSE f : IsUpto(f, missing)
    BY DEF at
  <2> QED
    BY <1>5, <2>1, Zenon
<1>7. at[0] = e
  <2>1. 0 \in 0 .. missing
    OBVIOUS
  <2> QED
    BY <1>6, <2>1
<1>8. ASSUME NEW i \in 1 .. missing PROVE at[i] = St(i, at[i - 1])
  <2>1. i \in 0 .. missing /\ i # 0
    OBVIOUS
  <2> QED
    BY <1>6, <2>1
<1>9. \A i \in 1 .. missing : at[i] = IF i = 1 THEN ChoosePrefix(at[i - 1], L, prefix, picks[Len(path) + 1 - i])
                ELSE ChooseFor(at[i - 1], L, SubSeq(path, 1, Len(path) + 1 - i), picks[Len(path) + 1 - i])
  BY <1>2, <1>8
<1>10. ChooseIs(at, e, L, path, missing, prefix, picks)
  BY <1>1, <1>7, <1>9 DEF ChooseIs
<1> QED
  BY <1>10

\* The executions between the nodes that are written.
LinkIs(f, e, L, path, missing, node, layer) ==
    /\ LinkAll(e, L, path, missing, node, layer) = f[missing] /\ f[0] = e
    /\ \A i \in 1 .. missing : f[i] = Link(f[i - 1], L, IF i - 1 = 0 THEN node ELSE e.prefixes[missing + 1 - (i - 1)],
                     path[Len(path) - missing + i], IF i = 0 THEN node ELSE e.prefixes[missing + 1 - i],
                     IF i < missing \/ layer = None THEN "" ELSE layer)

\* The nodes are written one after the other, the own one last.
LEMMA LinkFacts ==
    ASSUME NEW e, NEW L, NEW path, NEW missing, NEW node, NEW layer, missing \in Nat
    PROVE  \E f : LinkIs(f, e, L, path, missing, node, layer)
<1> DEFINE St(i, x) == Link(x, L, IF i - 1 = 0 THEN node ELSE e.prefixes[missing + 1 - (i - 1)],
                     path[Len(path) - missing + i], IF i = 0 THEN node ELSE e.prefixes[missing + 1 - i],
                     IF i < missing \/ layer = None THEN "" ELSE layer)
           IsUpto(f, m) == f = [i \in 0 .. m |-> IF i = 0 THEN e ELSE St(i, f[i - 1])]
           Some == {m \in Nat : \E f : IsUpto(f, m)}
           g0 == [i \in 0 .. 0 |-> e]
           at == CHOOSE f : IsUpto(f, missing)
<1>1. LinkAll(e, L, path, missing, node, layer) = at[missing]
  BY DEF LinkAll
<1>2. \A i \in 1 .. missing : \A x : St(i, x) = Link(x, L, IF i - 1 = 0 THEN node ELSE e.prefixes[missing + 1 - (i - 1)],
                     path[Len(path) - missing + i], IF i = 0 THEN node ELSE e.prefixes[missing + 1 - i],
                     IF i < missing \/ layer = None THEN "" ELSE layer)
  OBVIOUS
<1> HIDE DEF St, at
<1>3. 0 \in Some
  <2>1. g0 = [i \in 0 .. 0 |-> IF i = 0 THEN e ELSE St(i, g0[i - 1])]
    OBVIOUS
  <2> QED
    BY <2>1
<1>4. ASSUME NEW m \in Nat, m \in Some PROVE m + 1 \in Some
  <2>1. PICK g : IsUpto(g, m)
    BY <1>4
  <2> DEFINE h == [i \in 0 .. m + 1 |-> IF i <= m THEN g[i] ELSE St(m + 1, g[m])]
  <2>2. ASSUME NEW i \in 0 .. m + 1 PROVE h[i] = IF i = 0 THEN e ELSE St(i, h[i - 1])
    <3>1. CASE i = 0
      BY <2>1, <3>1
    <3>2. CASE i \in 1 .. m
      <4>1. i - 1 \in 0 .. m /\ i \in 0 .. m /\ i - 1 \in 0 .. m + 1 /\ i \in 0 .. m + 1 /\ i # 0
        BY <3>2
      <4>2. h[i] = g[i] /\ h[i - 1] = g[i - 1]
        BY <4>1
      <4>3. g[i] = St(i, g[i - 1])
        BY <2>1, <4>1
      <4> QED
        BY <4>1, <4>2, <4>3
    <3>3. CASE i = m + 1
      <4>1. i - 1 = m /\ m \in 0 .. m + 1 /\ m + 1 \in 0 .. m + 1 /\ ~(m + 1 <= m) /\ m + 1 # 0
        BY <3>3
      <4>2. h[m + 1] = St(m + 1, g[m]) /\ h[m] = g[m]
        BY <4>1
      <4> QED
        BY <3>3, <4>1, <4>2
    <3> QED
      BY <3>1, <3>2, <3>3
  <2>3. h = [i \in 0 .. m + 1 |-> h[i]]
    OBVIOUS
  <2> HIDE DEF h
  <2>4. IsUpto(h, m + 1)
    BY <2>2, <2>3
  <2> HIDE DEF IsUpto
  <2> QED
    BY <2>4
<1>5. \E f : IsUpto(f, missing)
  <2> HIDE DEF IsUpto
  <2>1. missing \in Some
    <3> HIDE DEF Some
    <3> QED
      BY <1>3, <1>4, NumberInduction
  <2> QED
    BY <2>1
<1>6. IsUpto(at, missing)
  <2> HIDE DEF IsUpto
  <2>1. at = CHOOSE f : IsUpto(f, missing)
    BY DEF at
  <2> QED
    BY <1>5, <2>1, Zenon
<1>7. at[0] = e
  <2>1. 0 \in 0 .. missing
    OBVIOUS
  <2> QED
    BY <1>6, <2>1
<1>8. ASSUME NEW i \in 1 .. missing PROVE at[i] = St(i, at[i - 1])
  <2>1. i \in 0 .. missing /\ i # 0
    OBVIOUS
  <2> QED
    BY <1>6, <2>1
<1>9. \A i \in 1 .. missing : at[i] = Link(at[i - 1], L, IF i - 1 = 0 THEN node ELSE e.prefixes[missing + 1 - (i - 1)],
                     path[Len(path) - missing + i], IF i = 0 THEN node ELSE e.prefixes[missing + 1 - i],
                     IF i < missing \/ layer = None THEN "" ELSE layer)
  BY <1>2, <1>8
<1>10. LinkIs(at, e, L, path, missing, node, layer)
  BY <1>1, <1>7, <1>9 DEF LinkIs
<1> QED
  BY <1>10

\* The places a move comes to.
MoveIs(f, e, L, old, new) ==
    /\ InnermostMove(e, L, old, new) = f[Forwards(old)] /\ f[0] = MovePlace(e, L, old, new)
    /\ \A i \in 1 .. Forwards(old) : f[i] = MoveForwarded(f[i - 1])

\* A move is forwarded from a layer to the next.
LEMMA MoveFacts ==
    ASSUME NEW e, NEW L, NEW old, NEW new, Forwards(old) \in Nat
    PROVE  \E f : MoveIs(f, e, L, old, new)
<1> DEFINE St(i, x) == MoveForwarded(x)
           IsUpto(f, m) == f = [i \in 0 .. m |-> IF i = 0 THEN MovePlace(e, L, old, new) ELSE St(i, f[i - 1])]
           Some == {m \in Nat : \E f : IsUpto(f, m)}
           g0 == [i \in 0 .. 0 |-> MovePlace(e, L, old, new)]
           at == CHOOSE f : IsUpto(f, Forwards(old))
<1>1. InnermostMove(e, L, old, new) = at[Forwards(old)]
  BY DEF InnermostMove
<1>2. \A i \in 1 .. Forwards(old) : \A x : St(i, x) = MoveForwarded(x)
  OBVIOUS
<1> HIDE DEF St, at
<1>3. 0 \in Some
  <2>1. g0 = [i \in 0 .. 0 |-> IF i = 0 THEN MovePlace(e, L, old, new) ELSE St(i, g0[i - 1])]
    OBVIOUS
  <2> QED
    BY <2>1
<1>4. ASSUME NEW m \in Nat, m \in Some PROVE m + 1 \in Some
  <2>1. PICK g : IsUpto(g, m)
    BY <1>4
  <2> DEFINE h == [i \in 0 .. m + 1 |-> IF i <= m THEN g[i] ELSE St(m + 1, g[m])]
  <2>2. ASSUME NEW i \in 0 .. m + 1 PROVE h[i] = IF i = 0 THEN MovePlace(e, L, old, new) ELSE St(i, h[i - 1])
    <3>1. CASE i = 0
      BY <2>1, <3>1
    <3>2. CASE i \in 1 .. m
      <4>1. i - 1 \in 0 .. m /\ i \in 0 .. m /\ i - 1 \in 0 .. m + 1 /\ i \in 0 .. m + 1 /\ i # 0
        BY <3>2
      <4>2. h[i] = g[i] /\ h[i - 1] = g[i - 1]
        BY <4>1
      <4>3. g[i] = St(i, g[i - 1])
        BY <2>1, <4>1
      <4> QED
        BY <4>1, <4>2, <4>3
    <3>3. CASE i = m + 1
      <4>1. i - 1 = m /\ m \in 0 .. m + 1 /\ m + 1 \in 0 .. m + 1 /\ ~(m + 1 <= m) /\ m + 1 # 0
        BY <3>3
      <4>2. h[m + 1] = St(m + 1, g[m]) /\ h[m] = g[m]
        BY <4>1
      <4> QED
        BY <3>3, <4>1, <4>2
    <3> QED
      BY <3>1, <3>2, <3>3
  <2>3. h = [i \in 0 .. m + 1 |-> h[i]]
    OBVIOUS
  <2> HIDE DEF h
  <2>4. IsUpto(h, m + 1)
    BY <2>2, <2>3
  <2> HIDE DEF IsUpto
  <2> QED
    BY <2>4
<1>5. \E f : IsUpto(f, Forwards(old))
  <2> HIDE DEF IsUpto
  <2>1. Forwards(old) \in Some
    <3> HIDE DEF Some
    <3> QED
      BY <1>3, <1>4, NumberInduction
  <2> QED
    BY <2>1
<1>6. IsUpto(at, Forwards(old))
  <2> HIDE DEF IsUpto
  <2>1. at = CHOOSE f : IsUpto(f, Forwards(old))
    BY DEF at
  <2> QED
    BY <1>5, <2>1, Zenon
<1>7. at[0] = MovePlace(e, L, old, new)
  <2>1. 0 \in 0 .. Forwards(old)
    OBVIOUS
  <2> QED
    BY <1>6, <2>1
<1>8. ASSUME NEW i \in 1 .. Forwards(old) PROVE at[i] = St(i, at[i - 1])
  <2>1. i \in 0 .. Forwards(old) /\ i # 0
    OBVIOUS
  <2> QED
    BY <1>6, <2>1
<1>9. \A i \in 1 .. Forwards(old) : at[i] = MoveForwarded(at[i - 1])
  BY <1>2, <1>8
<1>10. MoveIs(at, e, L, old, new)
  BY <1>1, <1>7, <1>9 DEF MoveIs
<1> QED
  BY <1>10

-----------------------------------------------------------------------------
(* Every execution writes good writes only.                                *)

\* Two fields at once are two fields one after the other: prefix and layer.
LEMMA PlacedFacts ==
    ASSUME NEW e, NEW x, NEW y, RunShape(e)
    PROVE  [e EXCEPT !.prefix = x, !.layer = y] =
                [db |-> e.db, reads |-> e.reads, writes |-> e.writes, result |-> e.result,
                 prefix |-> x, layer |-> y, prefixes |-> e.prefixes]
<1> DEFINE g == [e EXCEPT !.prefix = x]
<1>1. g = [db |-> e.db, reads |-> e.reads, writes |-> e.writes, result |-> e.result,
                 prefix |-> x, layer |-> e.layer, prefixes |-> e.prefixes]
  BY DEF RunShape
<1>2. [e EXCEPT !.prefix = x, !.layer = y] = [g EXCEPT !.layer = y]
  OBVIOUS
<1> HIDE DEF g
<1>3. [g EXCEPT !.layer = y] =
                [db |-> e.db, reads |-> e.reads, writes |-> e.writes, result |-> e.result,
                 prefix |-> x, layer |-> y, prefixes |-> e.prefixes]
  BY <1>1
<1> QED
  BY <1>2, <1>3, Zenon

\* Two fields at once are two fields one after the other: store and writes.
LEMMA WrittenFacts ==
    ASSUME NEW e, NEW x, NEW y, RunShape(e)
    PROVE  [e EXCEPT !.db = x, !.writes = y] =
                [db |-> x, reads |-> e.reads, writes |-> y, result |-> e.result,
                 prefix |-> e.prefix, layer |-> e.layer, prefixes |-> e.prefixes]
<1> DEFINE g == [e EXCEPT !.db = x]
<1>1. g = [db |-> x, reads |-> e.reads, writes |-> e.writes, result |-> e.result,
                 prefix |-> e.prefix, layer |-> e.layer, prefixes |-> e.prefixes]
  BY DEF RunShape
<1>2. [e EXCEPT !.db = x, !.writes = y] = [g EXCEPT !.writes = y]
  OBVIOUS
<1> HIDE DEF g
<1>3. [g EXCEPT !.writes = y] =
                [db |-> x, reads |-> e.reads, writes |-> y, result |-> e.result,
                 prefix |-> e.prefix, layer |-> e.layer, prefixes |-> e.prefixes]
  BY <1>1
<1> QED
  BY <1>2, <1>3, Zenon

\* Reading leaves all but what was read.
LEMMA ReadingFacts ==
    ASSUME NEW e, NEW x, RunShape(e)
    PROVE  /\ RunShape(Reading(e, x)) /\ Reading(e, x).db = e.db /\ Reading(e, x).writes = e.writes
           /\ Reading(e, x).result = e.result /\ Reading(e, x).prefixes = e.prefixes
<1>1. Reading(e, x) = [db |-> e.db, reads |-> e.reads \cup x, writes |-> e.writes, result |-> e.result,
                       prefix |-> e.prefix, layer |-> e.layer, prefixes |-> e.prefixes]
  BY DEF Reading, RunShape
<1> QED
  BY <1>1 DEF RunShape

\* Failing leaves all but the result.
LEMMA FailingFacts ==
    ASSUME NEW e, NEW r, RunShape(e)
    PROVE  /\ RunShape(Failing(e, r)) /\ Failing(e, r).db = e.db /\ Failing(e, r).writes = e.writes
           /\ Failing(e, r).result = r
<1>1. Failing(e, r) = [db |-> e.db, reads |-> e.reads, writes |-> e.writes, result |-> r,
                       prefix |-> e.prefix, layer |-> e.layer, prefixes |-> e.prefixes]
  BY DEF Failing, RunShape
<1> QED
  BY <1>1 DEF RunShape

\* Writing applies the write and remembers it.
LEMMA WritingFacts ==
    ASSUME NEW e, NEW w, RunShape(e)
    PROVE  /\ RunShape(Writing(e, w)) /\ Writing(e, w).db = Applied(e.db, w)
           /\ Writing(e, w).writes = Append(e.writes, w) /\ Writing(e, w).result = e.result
<1> DEFINE db == Applied(e.db, w)
           ws == Append(e.writes, w)
<1>1. Writing(e, w) = [e EXCEPT !.db = db, !.writes = ws]
  BY DEF Writing
<1>2. db = Applied(e.db, w) /\ ws = Append(e.writes, w)
  OBVIOUS
<1> HIDE DEF db, ws
<1> DEFINE done == [db |-> db, reads |-> e.reads, writes |-> ws, result |-> e.result,
                    prefix |-> e.prefix, layer |-> e.layer, prefixes |-> e.prefixes]
<1>3. [e EXCEPT !.db = db, !.writes = ws] = done
  BY WrittenFacts
<1> QED
  BY <1>1, <1>2, <1>3 DEF RunShape

\* Reading keeps an execution tame.
LEMMA TameReading ==
    ASSUME NEW e, NEW plain, NEW x, Tame(e, plain) PROVE Tame(Reading(e, x), plain)
BY ReadingFacts DEF Tame

\* So does failing.
LEMMA TameFailing ==
    ASSUME NEW e, NEW plain, NEW r, Tame(e, plain) PROVE Tame(Failing(e, r), plain)
BY FailingFacts DEF Tame

\* So does a good write, if it makes no partition where none may be.
LEMMA TameWriting ==
    ASSUME NEW e, NEW plain, NEW w, Tame(e, plain), GoodWrite(w), plain => PlainWrite(w)
    PROVE  Tame(Writing(e, w), plain)
<1>1. RunShape(e) /\ StoreShape(e.db) /\ GoodWrites(e.writes) /\ (plain => NoPartition(e.db))
  BY DEF Tame
<1>2. /\ RunShape(Writing(e, w)) /\ Writing(e, w).db = Applied(e.db, w)
      /\ Writing(e, w).writes = Append(e.writes, w)
  BY <1>1, WritingFacts
<1>3. StoreShape(Applied(e.db, w)) /\ (plain => NoPartition(Applied(e.db, w)))
  BY <1>1, AppliedFacts
<1>4. GoodWrites(Append(e.writes, w))
  BY <1>1, AppendGood
<1> QED
  BY <1>1, <1>2, <1>3, <1>4 DEF Tame

\* So does check_version, which at most writes the current version.
LEMMA TameVersion ==
    ASSUME NEW e, NEW plain, NEW L, NEW allow, Tame(e, plain)
    PROVE  Tame(CheckVersion(e, L, allow), plain)
<1> DEFINE read == Reading(e, {Exactly(VersionKey(L))})
<1>1. Tame(read, plain)
  BY TameReading
<1>2. Tame(Failing(read, "Version"), plain)
  <2> HIDE DEF read
  <2> QED
    BY <1>1, TameFailing
<1>3. Tame(Writing(read, SetKey(VersionKey(L), "current")), plain)
  <2> HIDE DEF read
  <2> QED
    BY <1>1, TameWriting, VersionWrite
<1> QED
  BY <1>1, <1>2, <1>3 DEF CheckVersion

\* So does the allocator.
LEMMA TameAllocated ==
    ASSUME NEW e, NEW plain, NEW L, NEW c, Tame(e, plain)
    PROVE  Tame(Allocated(e, L, c), plain)
<1> DEFINE read == Reading(e, {Exactly(HcaKey(L, c))})
           yes == TRUE
<1>1. Tame(read, plain)
  BY TameReading
<1>2. Tame(Failing(e, "taken"), plain)
  BY TameFailing
<1>3. Tame(Writing(read, SetKey(HcaKey(L, c), yes)), plain)
  <2> HIDE DEF read, yes
  <2> QED
    BY <1>1, TameWriting, HcaWrite
<1> QED
  BY <1>2, <1>3 DEF Allocated

\* The prefix, the layer and the prefixes chosen do not matter.
LEMMA TameOther ==
    ASSUME NEW e, NEW plain, NEW p, NEW l, Tame(e, plain)
    PROVE  /\ Tame([e EXCEPT !.prefix = p], plain)
           /\ Tame([e EXCEPT !.prefix = p, !.layer = l], plain)
           /\ Tame([e EXCEPT !.prefixes = p], plain)
<1>1. RunShape(e)
  BY DEF Tame
<1>2. [e EXCEPT !.prefix = p] =
        [db |-> e.db, reads |-> e.reads, writes |-> e.writes, result |-> e.result,
         prefix |-> p, layer |-> e.layer, prefixes |-> e.prefixes]
  BY <1>1 DEF RunShape
<1>3. [e EXCEPT !.prefix = p, !.layer = l] =
        [db |-> e.db, reads |-> e.reads, writes |-> e.writes, result |-> e.result,
         prefix |-> p, layer |-> l, prefixes |-> e.prefixes]
  BY <1>1, PlacedFacts
<1>4. [e EXCEPT !.prefixes = p] =
        [db |-> e.db, reads |-> e.reads, writes |-> e.writes, result |-> e.result,
         prefix |-> e.prefix, layer |-> e.layer, prefixes |-> p]
  BY <1>1 DEF RunShape
<1>5. Tame([e EXCEPT !.prefix = p], plain)
  BY <1>2 DEF Tame, RunShape
<1>6. Tame([e EXCEPT !.prefix = p, !.layer = l], plain)
  BY <1>3 DEF Tame, RunShape
<1>7. Tame([e EXCEPT !.prefixes = p], plain)
  BY <1>4 DEF Tame, RunShape
<1> QED
  BY <1>5, <1>6, <1>7

\* So does get_prefix.
LEMMA TamePrefix ==
    ASSUME NEW e, NEW plain, NEW L, NEW prefix, NEW c, Tame(e, plain)
    PROVE  Tame(GetPrefix(e, L, prefix, c), plain)
<1> DEFINE new == Append(L, c)
           allocated == Allocated(e, L, c)
           read == Reading(allocated, {Raw(new)})
<1>1. Tame(allocated, plain)
  BY TameAllocated
<1> HIDE DEF allocated, new
<1>2. Tame(read, plain)
  BY <1>1, TameReading
<1> HIDE DEF read
<1>3. Tame(Failing(read, "PrefixNotEmpty"), plain) /\ Tame([read EXCEPT !.prefix = new], plain)
  BY <1>2, TameFailing, TameOther
<1>4. Tame([e EXCEPT !.prefix = prefix], plain)
  BY TameOther
<1>5. GetPrefix(e, L, prefix, c) =
        IF prefix # None THEN [e EXCEPT !.prefix = prefix]
        ELSE IF ~Ok(allocated) THEN allocated
        ELSE IF Holds(allocated.db, new) THEN Failing(read, "PrefixNotEmpty")
        ELSE [read EXCEPT !.prefix = new]
  BY DEF GetPrefix, allocated, new, read
<1> QED
  BY <1>1, <1>3, <1>4, <1>5

\* So does is_prefix_free, which only reads.
LEMMA TameFree ==
    ASSUME NEW e, NEW plain, NEW L, NEW snapshot, Tame(e, plain)
    PROVE  Tame(CheckPrefixFree(e, L, snapshot), plain)
<1>1. \A x : Tame(Reading(e, x), plain)
  BY TameReading
<1>2. \A r : Tame(Failing(e, r), plain)
  BY TameFailing
<1>3. \A x, r : Tame(Failing(Reading(e, x), r), plain)
  BY <1>1, TameFailing
<1> QED
  BY <1>1, <1>2, <1>3 DEF CheckPrefixFree

\* So does the choice of a prefix.
LEMMA TameChoose ==
    ASSUME NEW e, NEW plain, NEW L, NEW prefix, NEW c, Tame(e, plain)
    PROVE  Tame(ChoosePrefix(e, L, prefix, c), plain)
<1> DEFINE yes == TRUE
           snapshot == prefix = None
           versioned == CheckVersion(e, L, yes)
           chosen == GetPrefix(versioned, L, prefix, c)
           free == CheckPrefixFree(chosen, L, snapshot)
<1>1. ChoosePrefix(e, L, prefix, c) =
        IF ~Ok(versioned) THEN versioned
        ELSE IF ~Ok(chosen) THEN chosen
        ELSE [free EXCEPT !.prefixes = Append(free.prefixes, chosen.prefix)]
  BY DEF ChoosePrefix
<1>2. Tame(versioned, plain)
  <2> HIDE DEF yes
  <2> QED
    BY TameVersion
<1> HIDE DEF versioned
<1>3. Tame(chosen, plain)
  BY <1>2, TamePrefix
<1> HIDE DEF chosen, snapshot
<1>4. Tame(free, plain)
  BY <1>3, TameFree
<1> HIDE DEF free
<1>5. Tame([free EXCEPT !.prefixes = Append(free.prefixes, chosen.prefix)], plain)
  BY <1>4, TameOther
<1> QED
  BY <1>1, <1>2, <1>3, <1>5

\* So does looking a parent up.
LEMMA TameLooked ==
    ASSUME NEW e, NEW plain, NEW L, NEW path, Tame(e, plain)
    PROVE  Tame(Looked(e, L, path), plain)
<1> DEFINE no == FALSE
           versioned == CheckVersion(e, L, no)
           reads == Find(e.db, L, path).reads
<1>1. Looked(e, L, path) = Reading(versioned, reads)
  BY DEF Looked
<1>2. Tame(versioned, plain)
  <2> HIDE DEF no
  <2> QED
    BY TameVersion
<1> HIDE DEF versioned, reads
<1> QED
  BY <1>1, <1>2, TameReading

\* So does the choice of a prefix for a parent.
LEMMA TameChooseFor ==
    ASSUME NEW e, NEW plain, NEW L, NEW path, NEW c, Tame(e, plain)
    PROVE  Tame(ChooseFor(e, L, path, c), plain)
<1> DEFINE looked == Looked(e, L, path)
<1>1. ChooseFor(e, L, path, c) = IF Ok(e) THEN ChoosePrefix(looked, L, None, c) ELSE e
  BY DEF ChooseFor
<1>2. Tame(looked, plain)
  BY TameLooked
<1> HIDE DEF looked
<1>3. Tame(ChoosePrefix(looked, L, None, c), plain)
  BY <1>2, TameChoose
<1> QED
  BY <1>1, <1>3

\* So does the choice of all the prefixes.
LEMMA TameChooseAll ==
    ASSUME NEW e, NEW plain, NEW L, NEW path, NEW missing \in Nat, NEW prefix, NEW picks, Tame(e, plain)
    PROVE  Tame(ChooseAll(e, L, path, missing, prefix, picks), plain)
<1> PICK f : ChooseIs(f, e, L, path, missing, prefix, picks)
  BY ChooseFacts
<1>1. /\ ChooseAll(e, L, path, missing, prefix, picks) = f[missing] /\ f[0] = e
      /\ \A i \in 1 .. missing : f[i] =
                    IF i = 1 THEN ChoosePrefix(f[i - 1], L, prefix, picks[Len(path) + 1 - i])
                    ELSE ChooseFor(f[i - 1], L, SubSeq(path, 1, Len(path) + 1 - i), picks[Len(path) + 1 - i])
  BY DEF ChooseIs
<1> DEFINE Some == {i \in Nat : i <= missing => Tame(f[i], plain)}
<1>2. 0 \in Some
  BY <1>1
<1>3. ASSUME NEW i \in Nat, i \in Some PROVE i + 1 \in Some
  <2>1. SUFFICES ASSUME i + 1 <= missing PROVE Tame(f[i + 1], plain)
    OBVIOUS
  <2>2. Tame(f[i], plain) /\ i + 1 \in 1 .. missing /\ (i + 1) - 1 = i
    BY <1>3, <2>1
  <2> DEFINE n == Len(path) + 1 - (i + 1)
  <2>3. f[i + 1] = IF i + 1 = 1 THEN ChoosePrefix(f[i], L, prefix, picks[n])
                   ELSE ChooseFor(f[i], L, SubSeq(path, 1, n), picks[n])
    BY <1>1, <2>2
  <2> HIDE DEF n
  <2>4. Tame(ChoosePrefix(f[i], L, prefix, picks[n]), plain)
    BY <2>2, TameChoose
  <2>5. Tame(ChooseFor(f[i], L, SubSeq(path, 1, n), picks[n]), plain)
    BY <2>2, TameChooseFor
  <2> QED
    BY <2>3, <2>4, <2>5
<1>4. missing \in Some
  <2> HIDE DEF Some
  <2> QED
    BY <1>2, <1>3, NumberInduction
<1>5. Tame(f[missing], plain)
  BY <1>4
<1> QED
  BY <1>1, <1>5

\* So does writing a node, if it is no partition where none may be.
LEMMA TameLink ==
    ASSUME NEW e, NEW plain, NEW L, NEW parent, NEW name, NEW prefix, NEW layer,
           Tame(e, plain), plain => layer # Partition
    PROVE  Tame(Link(e, L, parent, name, prefix, layer), plain)
<1> DEFINE sub == SetKey(SubKey(L, parent, name), prefix)
           own == SetKey(LayerKey(L, prefix), layer)
           linked == Writing(e, sub)
<1>1. Link(e, L, parent, name, prefix, layer) = Writing(linked, own)
  BY DEF Link
<1>2. GoodWrite(sub) /\ PlainWrite(sub) /\ GoodWrite(own) /\ (plain => PlainWrite(own))
  BY SubWrite, LayerWrite
<1> HIDE DEF sub, own
<1>3. Tame(linked, plain)
  BY <1>2, TameWriting
<1> HIDE DEF linked
<1> QED
  BY <1>1, <1>2, <1>3, TameWriting

\* So does writing all the nodes.
LEMMA TameLinkAll ==
    ASSUME NEW e, NEW plain, NEW L, NEW path, NEW missing \in Nat, NEW node, NEW layer,
           Tame(e, plain), plain => layer # Partition
    PROVE  Tame(LinkAll(e, L, path, missing, node, layer), plain)
<1> PICK f : LinkIs(f, e, L, path, missing, node, layer)
  BY LinkFacts
<1>1. /\ LinkAll(e, L, path, missing, node, layer) = f[missing] /\ f[0] = e
      /\ \A i \in 1 .. missing : f[i] =
                    Link(f[i - 1], L, IF i - 1 = 0 THEN node ELSE e.prefixes[missing + 1 - (i - 1)],
                         path[Len(path) - missing + i], IF i = 0 THEN node ELSE e.prefixes[missing + 1 - i],
                         IF i < missing \/ layer = None THEN "" ELSE layer)
  BY DEF LinkIs
<1> DEFINE Some == {i \in Nat : i <= missing => Tame(f[i], plain)}
<1>2. 0 \in Some
  BY <1>1
<1>3. ASSUME NEW i \in Nat, i \in Some PROVE i + 1 \in Some
  <2>1. SUFFICES ASSUME i + 1 <= missing PROVE Tame(f[i + 1], plain)
    OBVIOUS
  <2>2. Tame(f[i], plain) /\ i + 1 \in 1 .. missing /\ (i + 1) - 1 = i
    BY <1>3, <2>1
  <2> DEFINE a == IF i = 0 THEN node ELSE e.prefixes[missing + 1 - i]
             b == path[Len(path) - missing + (i + 1)]
             c == IF i + 1 = 0 THEN node ELSE e.prefixes[missing + 1 - (i + 1)]
             l == IF i + 1 < missing \/ layer = None THEN "" ELSE layer
  <2>3. f[i + 1] = Link(f[i], L, a, b, c, l)
    BY <1>1, <2>2
  <2>4. plain => l # Partition
    BY DEF Partition
  <2> HIDE DEF a, b, c, l
  <2>5. Tame(Link(f[i], L, a, b, c, l), plain)
    BY <2>2, <2>4, TameLink
  <2> QED
    BY <2>3, <2>5
<1>4. missing \in Some
  <2> HIDE DEF Some
  <2> QED
    BY <1>2, <1>3, NumberInduction
<1>5. Tame(f[missing], plain)
  BY <1>4
<1> QED
  BY <1>1, <1>5

-----------------------------------------------------------------------------
(* Walks.                                                                  *)

\* The fields of a place on a walk.
WalkShape(f) == f = [node |-> f.node, depth |-> f.depth, layer |-> f.layer, reads |-> f.reads]

\* A walk goes at most as deep as its path, and without partitions ends in none.
LEMMA FindDepth ==
    ASSUME NEW db, NEW L, NEW path, Len(path) \in Nat
    PROVE  /\ Find(db, L, path).depth \in 0 .. Len(path)
           /\ NoPartition(db) => Find(db, L, path).layer # Partition
<1> DEFINE start == [node |-> RootNode(L), depth |-> 0, layer |-> LayerOf(db, L, RootNode(L)),
                     reads |-> IF path = <<>> THEN {Exactly(LayerKey(L, RootNode(L)))} ELSE {}]
           Deep(f, i) == WalkShape(f) /\ f.depth \in 0 .. i /\ (NoPartition(db) => f.layer # Partition)
<1>1. Find(db, L, path) = Walk(db, L, path, start)
  BY DEF Find
<1>2. \A node : NoPartition(db) => LayerOf(db, L, node) # Partition
  <2>1. \A node : LayerKey(L, node).item = <<"layer">>
    BY DEF LayerKey, Key
  <2>2. "" # Partition
    BY DEF Partition
  <2> QED
    BY <2>1, <2>2 DEF NoPartition, LayerOf
<1>3. start.depth = 0 /\ WalkShape(start) /\ start.layer = LayerOf(db, L, RootNode(L))
  BY DEF WalkShape
<1>4. Deep(start, 0)
  <2> HIDE DEF start
  <2> QED
    BY <1>2, <1>3
<1> HIDE DEF start
<1> PICK f : WalkIs(f, db, L, path, start)
  BY WalkFacts
<1>5. /\ Walk(db, L, path, start) = f[Len(path)] /\ f[0] = start
      /\ \A i \in 1 .. Len(path) : f[i] = Further(db, L, path, f[i - 1])
  BY DEF WalkIs
<1>6. ASSUME NEW at, NEW i \in Nat, Deep(at, i) PROVE Deep(Further(db, L, path, at), i + 1)
  <2> DEFINE key == SubKey(L, at.node, path[at.depth + 1])
             reads == at.reads \cup {Exactly(key)}
             node == db.meta[key]
             lost == [at EXCEPT !.node = None, !.reads = reads]
             next == [node |-> node, depth |-> at.depth + 1, layer |-> LayerOf(db, L, node),
                      reads |-> reads \cup {Exactly(LayerKey(L, node))}]
  <2>1. Further(db, L, path, at) =
            IF ~Found(at) \/ (at.depth > 0 /\ at.layer = Partition) THEN at
            ELSE IF key \notin DOMAIN db.meta THEN lost ELSE next
    BY DEF Further
  <2>2. Deep(at, i + 1)
    BY <1>6
  <2>3. Deep(lost, i + 1)
    <3> DEFINE g == [at EXCEPT !.node = None]
    <3> HIDE DEF reads
    <3>1. lost = [g EXCEPT !.reads = reads]
      OBVIOUS
    <3>2. g = [node |-> None, depth |-> at.depth, layer |-> at.layer, reads |-> at.reads]
      BY <1>6 DEF WalkShape
    <3> HIDE DEF g
    <3>3. [g EXCEPT !.reads = reads] = [node |-> None, depth |-> at.depth, layer |-> at.layer, reads |-> reads]
      BY <3>2
    <3> HIDE DEF lost
    <3>4. WalkShape(lost) /\ lost.depth = at.depth /\ lost.layer = at.layer
      BY <3>1, <3>3 DEF WalkShape
    <3> QED
      BY <2>2, <3>4
  <2>4. Deep(next, i + 1)
    <3> HIDE DEF reads, node
    <3>1. WalkShape(next) /\ next.depth = at.depth + 1 /\ next.layer = LayerOf(db, L, node)
      BY DEF WalkShape
    <3> HIDE DEF next
    <3>2. at.depth + 1 \in 0 .. i + 1
      BY <1>6
    <3> QED
      BY <1>2, <3>1, <3>2
  <2> HIDE DEF lost, next, key, Deep
  <2> QED
    BY <2>1, <2>2, <2>3, <2>4
<1> DEFINE Some == {i \in Nat : i <= Len(path) => Deep(f[i], i)}
<1> HIDE DEF Deep
<1>7. 0 \in Some
  BY <1>4, <1>5
<1>8. ASSUME NEW i \in Nat, i \in Some PROVE i + 1 \in Some
  <2>1. SUFFICES ASSUME i + 1 <= Len(path) PROVE Deep(f[i + 1], i + 1)
    OBVIOUS
  <2>2. Deep(f[i], i) /\ i + 1 \in 1 .. Len(path) /\ (i + 1) - 1 = i
    BY <1>8, <2>1
  <2>3. f[i + 1] = Further(db, L, path, f[i])
    BY <1>5, <2>2
  <2> QED
    BY <1>6, <2>2, <2>3
<1>9. Len(path) \in Some
  <2> HIDE DEF Some
  <2> QED
    BY <1>7, <1>8, NumberInduction
<1>10. Deep(f[Len(path)], Len(path))
  BY <1>9
<1> QED
  BY <1>1, <1>5, <1>10 DEF Deep

-----------------------------------------------------------------------------
(* Every operation writes good writes only.                                *)

\* create_internal keeps an execution tame.
LEMMA TameCreateInternal ==
    ASSUME NEW e, NEW plain, NEW L, NEW path, NEW prefix, NEW layer, NEW allowCreate, NEW picks,
           Tame(e, plain), Len(path) \in Nat, plain => layer # Partition
    PROVE  Tame(CreateInternal(e, L, path, prefix, layer, allowCreate, picks), plain)
<1> DEFINE found == Find(e.db, L, path).depth
           missing == Len(path) - found
           all == ChooseAll(e, L, path, missing, prefix, picks)
           parent == SubSeq(path, 1, found)
           base == IF found = 0 THEN all ELSE Looked(all, L, parent)
           node == Find(all.db, L, parent).node
           created == LinkAll(base, L, path, missing, node, layer)
           own == all.prefixes[1]
           under == LayerOf(created.db, L, own)
<1>1. CreateInternal(e, L, path, prefix, layer, allowCreate, picks) =
        IF ~allowCreate THEN Failing(e, "DirectoryDoesNotExists")
        ELSE IF ~Ok(all) THEN all
        ELSE [created EXCEPT !.prefix = own, !.layer = under]
  BY DEF CreateInternal, Created
<1>2. missing \in Nat
  <2>1. found \in 0 .. Len(path)
    BY FindDepth
  <2> HIDE DEF found
  <2> QED
    BY <2>1
<1> HIDE DEF found, missing
<1>3. Tame(all, plain)
  BY <1>2, TameChooseAll
<1> HIDE DEF all
<1>4. Tame(base, plain)
  <2>1. Tame(Looked(all, L, parent), plain)
    BY <1>3, TameLooked
  <2> QED
    BY <1>3, <2>1
<1> HIDE DEF base, parent, node
<1>5. Tame(created, plain)
  BY <1>2, <1>4, TameLinkAll
<1> HIDE DEF created, own, under
<1>6. Tame([created EXCEPT !.prefix = own, !.layer = under], plain)
  BY <1>5, TameOther
<1>7. Tame(Failing(e, "DirectoryDoesNotExists"), plain)
  BY TameFailing
<1> QED
  BY <1>1, <1>3, <1>6, <1>7

\* So does create_or_open in the layer it has come to.
LEMMA TameHere ==
    ASSUME NEW e, NEW plain, NEW L, NEW path, NEW prefix, NEW layer, NEW allowCreate, NEW allowOpen,
           NEW picks, Tame(e, plain), Len(path) \in Nat, plain => layer # Partition
    PROVE  Tame(CreateOrOpenHere(e, L, path, prefix, layer, allowCreate, allowOpen, picks), plain)
<1> DEFINE no == FALSE
           versioned == CheckVersion(e, L, no)
           f == Find(versioned.db, L, path)
           found == Reading(versioned, f.reads)
           opened == OpenInternal(found, f, layer, allowOpen)
           made == CreateInternal(found, L, path, prefix, layer, allowCreate, picks)
<1>1. CreateOrOpenHere(e, L, path, prefix, layer, allowCreate, allowOpen, picks) \in
        {versioned, Failing(versioned, "PrefixNotAllowed"), Failing(versioned, "NoPathProvided"), opened, made}
  <2> DEFINE one == ~Ok(versioned)
             two == prefix # None /\ (Manual = {} \/ L # Root)
             three == path = <<>>
             four == Found(f)
  <2>1. CreateOrOpenHere(e, L, path, prefix, layer, allowCreate, allowOpen, picks) =
            IF one THEN versioned
            ELSE IF two THEN Failing(versioned, "PrefixNotAllowed")
            ELSE IF three THEN Failing(versioned, "NoPathProvided")
            ELSE IF four THEN opened
            ELSE made
    BY DEF CreateOrOpenHere
  <2> HIDE DEF one, two, three, four, versioned, opened, made
  <2> QED
    BY <2>1
<1>2. Tame(versioned, plain)
  <2> HIDE DEF no
  <2> QED
    BY TameVersion
<1> HIDE DEF versioned, f
<1>3. Tame(Failing(versioned, "PrefixNotAllowed"), plain) /\ Tame(Failing(versioned, "NoPathProvided"), plain)
  BY <1>2, TameFailing
<1>4. Tame(found, plain)
  BY <1>2, TameReading
<1> HIDE DEF found
<1>5. Tame(opened, plain)
  <2>1. Tame(Failing(found, "DirAlreadyExists"), plain) /\ Tame(Failing(found, "IncompatibleLayer"), plain)
    BY <1>4, TameFailing
  <2> DEFINE node == f.node
             under == f.layer
  <2>2. OpenInternal(found, f, layer, allowOpen) =
            IF ~allowOpen THEN Failing(found, "DirAlreadyExists")
            ELSE IF layer \notin {None, "", f.layer} THEN Failing(found, "IncompatibleLayer")
            ELSE [found EXCEPT !.prefix = node, !.layer = under]
    BY DEF OpenInternal
  <2> HIDE DEF node, under
  <2>3. Tame([found EXCEPT !.prefix = node, !.layer = under], plain)
    BY <1>4, TameOther
  <2> QED
    BY <2>1, <2>2, <2>3
<1>6. Tame(made, plain)
  BY <1>4, TameCreateInternal
<1> QED
  BY <1>1, <1>2, <1>3, <1>5, <1>6

\* A tame execution on a path of names, come to some layer.
PlaceOk(p, plain) == p = Place(p.e, p.at, p.path) /\ Tame(p.e, plain) /\ p.path \in Seq(Name)

\* What is forwarded is tame, on a path of names again.
LEMMA TameForwarded ==
    ASSUME NEW p, NEW plain, NEW allow, PlaceOk(p, plain)
    PROVE  PlaceOk(Forwarded(p, allow), plain)
<1> DEFINE versioned == CheckVersion(p.e, p.at, allow)
           f == Find(versioned.db, p.at, p.path)
           read == Reading(versioned, f.reads)
           below == Subpath(f, p.path)
<1>1. Forwarded(p, allow) = IF Ok(versioned) /\ IsInPartition(f, p.path) THEN Place(read, f.node, below) ELSE p
  BY DEF Forwarded
<1>2. Tame(versioned, plain)
  BY TameVersion DEF PlaceOk
<1> HIDE DEF versioned
<1>3. Tame(read, plain)
  <2> DEFINE r == f.reads
  <2>1. read = Reading(versioned, r)
    OBVIOUS
  <2> HIDE DEF r
  <2> QED
    BY <1>2, <2>1, TameReading
<1>4. below \in Seq(Name)
  <2>1. p.path \in Seq(Name) /\ Len(p.path) \in Nat
    BY DEF PlaceOk
  <2>2. f.depth \in 0 .. Len(p.path)
    BY <2>1, FindDepth
  <2> DEFINE m == f.depth + 1
             n == Len(p.path)
  <2>3. m \in Int /\ n \in Int /\ \A i \in m .. n : i \in 1 .. n
    BY <2>1, <2>2
  <2>4. \A i \in m .. n : p.path[i] \in Name
    BY <2>1, <2>3
  <2>5. below = SubSeq(p.path, m, n)
    BY DEF Subpath
  <2> HIDE DEF m, n, below
  <2> QED
    BY <2>3, <2>4, <2>5, SubSeqProperties
<1> HIDE DEF read, below, f
<1>5. PlaceOk(Place(read, f.node, below), plain)
  BY <1>3, <1>4 DEF PlaceOk, Place
<1> QED
  BY <1>1, <1>5

\* So is what has been forwarded all the way.
LEMMA TameInnermost ==
    ASSUME NEW e, NEW plain, NEW L, NEW path \in Seq(Name), NEW allow, Tame(e, plain)
    PROVE  PlaceOk(Innermost(e, L, path, allow), plain)
<1>1. Forwards(path) \in Nat
  BY ForwardsNat
<1> PICK f : InnermostIs(f, e, L, path, allow)
  BY <1>1, InnermostFacts
<1>2. /\ Innermost(e, L, path, allow) = f[Forwards(path)] /\ f[0] = Place(e, L, path)
      /\ \A i \in 1 .. Forwards(path) : f[i] = Forwarded(f[i - 1], allow)
  BY DEF InnermostIs
<1> DEFINE Some == {i \in Nat : i <= Forwards(path) => PlaceOk(f[i], plain)}
<1>3. 0 \in Some
  <2>1. PlaceOk(Place(e, L, path), plain)
    BY DEF PlaceOk, Place
  <2> QED
    BY <1>2, <2>1
<1>4. ASSUME NEW i \in Nat, i \in Some PROVE i + 1 \in Some
  <2>1. SUFFICES ASSUME i + 1 <= Forwards(path) PROVE PlaceOk(f[i + 1], plain)
    OBVIOUS
  <2>2. PlaceOk(f[i], plain) /\ i + 1 \in 1 .. Forwards(path) /\ (i + 1) - 1 = i
    BY <1>1, <1>4, <2>1
  <2>3. f[i + 1] = Forwarded(f[i], allow)
    BY <1>2, <2>2
  <2> QED
    BY <2>2, <2>3, TameForwarded
<1>5. Forwards(path) \in Some
  <2> HIDE DEF Some
  <2> QED
    BY <1>1, <1>3, <1>4, NumberInduction
<1>6. PlaceOk(f[Forwards(path)], plain)
  BY <1>5
<1> QED
  BY <1>2, <1>6

\* create_or_open keeps an execution tame.
LEMMA TameCreate ==
    ASSUME NEW e, NEW plain, NEW L, NEW path \in Seq(Name), NEW prefix, NEW layer, NEW allowCreate,
           NEW allowOpen, NEW picks, Tame(e, plain), plain => layer # Partition
    PROVE  Tame(CreateOrOpen(e, L, path, prefix, layer, allowCreate, allowOpen, picks), plain)
<1> DEFINE no == FALSE
           last == Innermost(e, L, path, no)
<1>1. CreateOrOpen(e, L, path, prefix, layer, allowCreate, allowOpen, picks) =
        CreateOrOpenHere(last.e, last.at, last.path, prefix, layer, allowCreate, allowOpen, picks)
  BY DEF CreateOrOpen
<1>2. PlaceOk(last, plain)
  <2> HIDE DEF no
  <2> QED
    BY TameInnermost
<1> HIDE DEF last
<1>3. Tame(last.e, plain) /\ Len(last.path) \in Nat
  BY <1>2 DEF PlaceOk
<1>4. Tame(CreateOrOpenHere(last.e, last.at, last.path, prefix, layer, allowCreate, allowOpen, picks), plain)
  BY <1>3, TameHere
<1> QED
  BY <1>1, <1>4

\* remove_from_parent only clears.
LEMMA TameRemoveFromParent ==
    ASSUME NEW e, NEW plain, NEW L, NEW path, Tame(e, plain)
    PROVE  Tame(RemoveFromParent(e, L, path), plain)
<1> DEFINE parent == Find(e.db, L, Front(path))
           read == Reading(e, parent.reads)
           extents == {Exactly(SubKey(L, parent.node, Last(path)))}
<1>1. RemoveFromParent(e, L, path) = IF Found(parent) THEN Writing(read, Clear(extents)) ELSE read
  BY DEF RemoveFromParent
<1> HIDE DEF parent, extents
<1>2. Tame(read, plain)
  BY TameReading
<1> HIDE DEF read
<1>3. Tame(Writing(read, Clear(extents)), plain)
  BY <1>2, TameWriting, OtherWrites
<1> QED
  BY <1>1, <1>2, <1>3

\* remove keeps an execution tame.
LEMMA TameRemove ==
    ASSUME NEW e, NEW plain, NEW L, NEW path \in Seq(Name), NEW fail, Tame(e, plain)
    PROVE  Tame(RemoveTree(e, L, path, fail), plain)
<1> DEFINE yes == TRUE
           last == Innermost(e, L, path, yes)
           versioned == CheckVersion(last.e, last.at, yes)
           f == Find(versioned.db, last.at, last.path)
           read == Reading(versioned, f.reads)
           family == Family(read.db, last.at, f.node)
           ranges == {SubDirs(last.at, n) : n \in family}
           extents == {Raw(n) : n \in family} \cup {AllOf(last.at, n) : n \in family}
           again == Reading(read, ranges)
           cleared == Writing(again, Clear(extents))
<1>1. RemoveTree(e, L, path, fail) = RemoveHere(last.e, last.at, last.path, fail)
  BY DEF RemoveTree
<1>2. RemoveRecursive(read, last.at, f.node) = cleared
  BY DEF RemoveRecursive
<1>3. RemoveHere(last.e, last.at, last.path, fail) \in
        {versioned, Failing(versioned, "CannotModifyRootDirectory"),
         Failing(read, "DirectoryDoesNotExists"), read, RemoveFromParent(cleared, last.at, last.path)}
  <2> DEFINE one == ~Ok(versioned)
             two == last.path = <<>>
             three == ~Found(f)
             removed == RemoveFromParent(RemoveRecursive(read, last.at, f.node), last.at, last.path)
  <2>1. RemoveHere(last.e, last.at, last.path, fail) =
            IF one THEN versioned
            ELSE IF two THEN Failing(versioned, "CannotModifyRootDirectory")
            ELSE IF three THEN IF fail THEN Failing(read, "DirectoryDoesNotExists") ELSE read
            ELSE removed
    BY DEF RemoveHere
  <2>2. removed = RemoveFromParent(cleared, last.at, last.path)
    BY <1>2
  <2> HIDE DEF one, two, three, removed, versioned, read, cleared, last
  <2> QED
    BY <2>1, <2>2
<1>4. Tame(last.e, plain)
  <2>1. PlaceOk(last, plain)
    <3> HIDE DEF yes
    <3> QED
      BY TameInnermost
  <2> QED
    BY <2>1 DEF PlaceOk
<1> HIDE DEF last
<1>5. Tame(versioned, plain)
  <2> HIDE DEF yes
  <2> QED
    BY <1>4, TameVersion
<1> HIDE DEF versioned, f
<1>6. Tame(read, plain)
  BY <1>5, TameReading
<1> HIDE DEF read, ranges, extents
<1>7. Tame(again, plain)
  BY <1>6, TameReading
<1> HIDE DEF again
<1>8. Tame(cleared, plain)
  BY <1>7, TameWriting, OtherWrites
<1> HIDE DEF cleared
<1>9. Tame(RemoveFromParent(cleared, last.at, last.path), plain)
  BY <1>8, TameRemoveFromParent
<1>10. Tame(Failing(versioned, "CannotModifyRootDirectory"), plain)
  BY <1>5, TameFailing
<1>11. Tame(Failing(read, "DirectoryDoesNotExists"), plain)
  BY <1>6, TameFailing
<1> QED
  BY <1>1, <1>3, <1>5, <1>6, <1>9, <1>10, <1>11

\* A move that is forwarded is tame.
LEMMA TameMoveForwarded ==
    ASSUME NEW p, NEW plain, Tame(p.e, plain)
    PROVE  Tame(MoveForwarded(p).e, plain)
<1> DEFINE yes == TRUE
           versioned == CheckVersion(p.e, p.at, yes)
           fo == Find(versioned.db, p.at, p.old)
           fn == Find(versioned.db, p.at, p.new)
           reads == fo.reads \cup fn.reads
           read == Reading(versioned, reads)
           inside == MovePlace(read, fn.node, Subpath(fo, p.old), Subpath(fn, p.new))
<1>1. MoveForwarded(p) \in {p, inside}
  BY DEF MoveForwarded
<1>2. inside.e = read
  BY DEF MovePlace
<1>3. Tame(versioned, plain)
  <2> HIDE DEF yes
  <2> QED
    BY TameVersion
<1> HIDE DEF versioned, reads
<1>4. Tame(read, plain)
  BY <1>3, TameReading
<1> HIDE DEF inside, read
<1> QED
  BY <1>1, <1>2, <1>4

\* move_to keeps an execution tame.
LEMMA TameMove ==
    ASSUME NEW e, NEW plain, NEW L, NEW old, NEW new, Tame(e, plain), Len(old) \in Nat
    PROVE  Tame(MoveTo(e, L, old, new), plain)
<1> DEFINE last == InnermostMove(e, L, old, new)
<1>1. MoveTo(e, L, old, new) = MoveHere(last.e, last.at, last.old, last.new)
  BY DEF MoveTo
<1>2. Tame(last.e, plain)
  <2> PICK f : MoveIs(f, e, L, old, new)
    BY ForwardsNat, MoveFacts
  <2>1. /\ InnermostMove(e, L, old, new) = f[Forwards(old)] /\ f[0] = MovePlace(e, L, old, new)
        /\ \A i \in 1 .. Forwards(old) : f[i] = MoveForwarded(f[i - 1])
    BY DEF MoveIs
  <2> DEFINE Some == {i \in Nat : i <= Forwards(old) => Tame(f[i].e, plain)}
  <2>2. 0 \in Some
    BY <2>1 DEF MovePlace
  <2>3. ASSUME NEW i \in Nat, i \in Some PROVE i + 1 \in Some
    <3>1. SUFFICES ASSUME i + 1 <= Forwards(old) PROVE Tame(f[i + 1].e, plain)
      OBVIOUS
    <3>2. Tame(f[i].e, plain) /\ i + 1 \in 1 .. Forwards(old) /\ (i + 1) - 1 = i
      BY <2>3, <3>1, ForwardsNat
    <3>3. f[i + 1] = MoveForwarded(f[i])
      BY <2>1, <3>2
    <3> QED
      BY <3>2, <3>3, TameMoveForwarded
  <2>4. Forwards(old) \in Some
    <3> HIDE DEF Some
    <3> QED
      BY <2>2, <2>3, ForwardsNat, NumberInduction
  <2>5. Tame(f[Forwards(old)].e, plain)
    BY <2>4
  <2> QED
    BY <2>1, <2>5
<1> HIDE DEF last
<1> DEFINE yes == TRUE
           versioned == CheckVersion(last.e, last.at, yes)
           fo == Find(versioned.db, last.at, last.old)
           fn == Find(versioned.db, last.at, last.new)
           both == Reading(versioned, fo.reads \cup fn.reads)
           parent == Find(versioned.db, last.at, Front(last.new))
           read == Reading(both, parent.reads)
           set == Writing(read, SetKey(SubKey(last.at, parent.node, Last(last.new)), fo.node))
<1>3. MoveHere(last.e, last.at, last.old, last.new) \in
        {versioned, Failing(versioned, "CannotMoveBetweenSubdirectory"), Failing(both, "PathDoesNotExists"),
         Failing(both, "CannotMoveBetweenPartition"), Failing(both, "DirAlreadyExists"),
         Failing(read, "ParentDirDoesNotExists"), RemoveFromParent(set, last.at, last.old)}
  <2> DEFINE one == ~Ok(versioned)
             two == IsPrefix(last.old, last.new)
             three == ~Found(fo)
             four == IsInPartition(fo, last.old) \/ IsInPartition(fn, last.new)
             five == Found(fn)
             six == ~Found(parent)
  <2>1. MoveHere(last.e, last.at, last.old, last.new) =
            IF one THEN versioned
            ELSE IF two THEN Failing(versioned, "CannotMoveBetweenSubdirectory")
            ELSE IF three THEN Failing(both, "PathDoesNotExists")
            ELSE IF four THEN Failing(both, "CannotMoveBetweenPartition")
            ELSE IF five THEN Failing(both, "DirAlreadyExists")
            ELSE IF six THEN Failing(read, "ParentDirDoesNotExists")
            ELSE RemoveFromParent(set, last.at, last.old)
    BY DEF MoveHere
  <2> HIDE DEF one, two, three, four, five, six, versioned, both, read, set
  <2> QED
    BY <2>1
<1>4. Tame(versioned, plain)
  <2> HIDE DEF yes
  <2> QED
    BY <1>2, TameVersion
<1> HIDE DEF versioned, fo, fn, parent
<1>5. Tame(both, plain)
  BY <1>4, TameReading
<1> HIDE DEF both
<1>6. Tame(read, plain)
  BY <1>5, TameReading
<1> HIDE DEF read
<1>7. Tame(set, plain)
  BY <1>6, TameWriting, SubWrite
<1> HIDE DEF set
<1>8. Tame(RemoveFromParent(set, last.at, last.old), plain)
  BY <1>7, TameRemoveFromParent
<1>9. /\ Tame(Failing(versioned, "CannotMoveBetweenSubdirectory"), plain)
      /\ Tame(Failing(both, "PathDoesNotExists"), plain)
      /\ Tame(Failing(both, "CannotMoveBetweenPartition"), plain)
      /\ Tame(Failing(both, "DirAlreadyExists"), plain)
      /\ Tame(Failing(read, "ParentDirDoesNotExists"), plain)
  BY <1>4, <1>5, <1>6, TameFailing
<1> QED
  BY <1>1, <1>3, <1>4, <1>8, <1>9

\* Storing content keeps an execution tame.
LEMMA TameStore ==
    ASSUME NEW e, NEW plain, NEW path \in Seq(Name), Tame(e, plain), ~plain
    PROVE  Tame(StoreIn(e, path), plain)
<1> DEFINE no == FALSE
           yes == TRUE
           nothing == <<>>
           none == None
           opened == CreateOrOpen(e, Root, path, none, none, no, yes, nothing)
           filled == Writing(opened, Content(opened.prefix))
           refused == Failing(opened, "CannotPackDirectoryPartition")
<1>1. StoreIn(e, path) \in {opened, refused, filled}
  <2> DEFINE one == ~Ok(opened)
             two == opened.layer = Partition
  <2>1. StoreIn(e, path) = IF one THEN opened ELSE IF two THEN refused ELSE filled
    BY DEF StoreIn, Packed
  <2> HIDE DEF one, two, opened, refused, filled
  <2> QED
    BY <2>1
<1>2. Tame(opened, plain)
  <2> HIDE DEF no, yes, nothing, none
  <2>1. plain => none # Partition
    OBVIOUS
  <2> QED
    BY <2>1, TameCreate
<1> HIDE DEF opened
<1>3. Tame(refused, plain)
  BY <1>2, TameFailing
<1>4. Tame(filled, plain)
  <2> DEFINE content == Content(opened.prefix)
  <2>1. GoodWrite(content)
    BY OtherWrites
  <2>2. filled = Writing(opened, content)
    OBVIOUS
  <2> HIDE DEF content, filled
  <2> QED
    BY <1>2, <2>1, <2>2, TameWriting
<1> HIDE DEF refused, filled
<1> QED
  BY <1>1, <1>2, <1>3, <1>4

-----------------------------------------------------------------------------
(* An operation on a directory of a newer version.                         *)

\* A store with a newer version, which is minor or major.
Frozen(db) ==
    /\ Newer(db) /\ StoreShape(db) /\ NoPartition(db)
    /\ db.meta[VersionKey(Root)] \in {"minor", "major"}

\* An execution that has written nothing to it.
Settled(e, db) == RunShape(e) /\ e.db = db /\ e.writes = <<>>

\* An operation begins with nothing written.
LEMMA StartedSettled ==
    ASSUME NEW db
    PROVE  Settled(Started(db), db)
BY DEF Settled, Started, RunShape

\* Reading, failing and naming the directory found write nothing.
LEMMA SettledFacts ==
    ASSUME NEW e, NEW db, NEW x, NEW y, Settled(e, db)
    PROVE  /\ Settled(Reading(e, x), db) /\ Settled(Failing(e, x), db)
           /\ Settled([e EXCEPT !.prefix = x, !.layer = y], db)
<1>1. RunShape(e) /\ e.db = db /\ e.writes = <<>>
  BY DEF Settled
<1>2. Settled(Reading(e, x), db)
  BY <1>1, ReadingFacts DEF Settled
<1>3. Settled(Failing(e, x), db)
  BY <1>1, FailingFacts DEF Settled
<1>4. [e EXCEPT !.prefix = x, !.layer = y] =
        [db |-> e.db, reads |-> e.reads, writes |-> e.writes, result |-> e.result,
         prefix |-> x, layer |-> y, prefixes |-> e.prefixes]
  BY <1>1, PlacedFacts
<1>5. Settled([e EXCEPT !.prefix = x, !.layer = y], db)
  BY <1>1, <1>4 DEF Settled, RunShape
<1> QED
  BY <1>2, <1>3, <1>5

\* check_version writes nothing over a newer version, and fails if it is a major
\* one or if the operation may write.
LEMMA NewerVersion ==
    ASSUME NEW e, NEW db, NEW allow, Frozen(db), Settled(e, db)
    PROVE  /\ Settled(CheckVersion(e, Root, allow), db)
           /\ Major(db) \/ allow => ~Ok(CheckVersion(e, Root, allow))
<1> DEFINE key == VersionKey(Root)
           read == Reading(e, {Exactly(key)})
           failed == Failing(read, "Version")
           version == e.db.meta[key]
<1>1. key \in DOMAIN e.db.meta /\ version \in {"minor", "major"} /\ (Major(db) <=> version = "major")
  BY DEF Frozen, Settled, Newer, Major
<1>2. Settled(read, db)
  BY SettledFacts
<1> HIDE DEF read
<1>3. Settled(failed, db)
  BY <1>2, SettledFacts
<1>4. ~Ok(failed)
  <2>1. failed.result = "Version"
    BY <1>2, FailingFacts DEF Settled
  <2> HIDE DEF failed
  <2> QED
    BY <2>1 DEF Ok
<1>5. CheckVersion(e, Root, allow) =
        IF key \notin DOMAIN e.db.meta
        THEN IF allow THEN Writing(read, SetKey(key, "current")) ELSE read
        ELSE IF version = "major" \/ (version = "minor" /\ allow) THEN failed ELSE read
  BY DEF CheckVersion, Has, read, failed
<1> HIDE DEF key, failed, version
<1> QED
  BY <1>1, <1>2, <1>3, <1>4, <1>5

\* There is no partition to forward an operation to.
LEMMA NewerStays ==
    ASSUME NEW e, NEW db, NEW path, NEW allow, Frozen(db), Settled(e, db), Len(path) \in Nat
    PROVE  Innermost(e, Root, path, allow) = Place(e, Root, path)
<1> DEFINE here == Place(e, Root, path)
<1>1. Forwarded(here, allow) = here
  <2> DEFINE versioned == CheckVersion(e, Root, allow)
             f == Find(versioned.db, Root, path)
             inside == Place(Reading(versioned, f.reads), f.node, Subpath(f, path))
  <2>1. Forwarded(here, allow) = IF Ok(versioned) /\ IsInPartition(f, path) THEN inside ELSE here
    BY DEF Forwarded, Place
  <2>2. versioned.db = db
    BY NewerVersion DEF Settled
  <2> HIDE DEF versioned
  <2>3. f.layer # Partition
    BY <2>2, FindDepth DEF Frozen
  <2>4. ~IsInPartition(f, path)
    <3> HIDE DEF f
    <3> QED
      BY <2>3 DEF IsInPartition
  <2> HIDE DEF f, inside, here
  <2> QED
    BY <2>1, <2>4
<1> PICK f : InnermostIs(f, e, Root, path, allow)
  BY ForwardsNat, InnermostFacts
<1>2. /\ Innermost(e, Root, path, allow) = f[Forwards(path)] /\ f[0] = here
      /\ \A i \in 1 .. Forwards(path) : f[i] = Forwarded(f[i - 1], allow)
  BY DEF InnermostIs
<1> HIDE DEF here
<1> DEFINE Some == {i \in Nat : i <= Forwards(path) => f[i] = here}
<1>3. 0 \in Some
  BY <1>2
<1>4. ASSUME NEW i \in Nat, i \in Some PROVE i + 1 \in Some
  <2>1. SUFFICES ASSUME i + 1 <= Forwards(path) PROVE f[i + 1] = here
    OBVIOUS
  <2>2. f[i] = here /\ i + 1 \in 1 .. Forwards(path) /\ (i + 1) - 1 = i
    BY <1>4, <2>1, ForwardsNat
  <2>3. f[i + 1] = Forwarded(f[i], allow)
    BY <1>2, <2>2
  <2> QED
    BY <1>1, <2>2, <2>3
<1>5. Forwards(path) \in Some
  <2> HIDE DEF Some
  <2> QED
    BY <1>3, <1>4, ForwardsNat, NumberInduction
<1>6. f[Forwards(path)] = here
  BY <1>5
<1> QED
  BY <1>2, <1>6 DEF here

\* A removal is refused.
LEMMA NewerRemove ==
    ASSUME NEW e, NEW db, NEW path, NEW fail, Frozen(db), Settled(e, db), Len(path) \in Nat
    PROVE  RemoveTree(e, Root, path, fail).writes = <<>>
<1> DEFINE yes == TRUE
           last == Innermost(e, Root, path, yes)
           versioned == CheckVersion(e, Root, yes)
<1>1. last = Place(e, Root, path)
  <2> HIDE DEF yes
  <2> QED
    BY NewerStays
<1>2. RemoveTree(e, Root, path, fail) = RemoveHere(last.e, last.at, last.path, fail)
  BY DEF RemoveTree
<1>3. last.e = e /\ last.at = Root /\ last.path = path
  <2> HIDE DEF last
  <2> QED
    BY <1>1 DEF Place
<1>4. Settled(versioned, db) /\ ~Ok(versioned)
  <2> HIDE DEF yes
  <2>1. yes
    BY DEF yes
  <2> QED
    BY <2>1, NewerVersion
<1> HIDE DEF last
<1>5. RemoveHere(e, Root, path, fail) = versioned
  <2> DEFINE f == Find(versioned.db, Root, path)
             read == Reading(versioned, f.reads)
             one == ~Ok(versioned)
             two == path = <<>>
             three == ~Found(f)
             removed == RemoveFromParent(RemoveRecursive(read, Root, f.node), Root, path)
  <2>1. RemoveHere(e, Root, path, fail) =
            IF one THEN versioned
            ELSE IF two THEN Failing(versioned, "CannotModifyRootDirectory")
            ELSE IF three THEN IF fail THEN Failing(read, "DirectoryDoesNotExists") ELSE read
            ELSE removed
    BY DEF RemoveHere
  <2> HIDE DEF two, three, removed, versioned, read
  <2> QED
    BY <1>4, <2>1
<1> HIDE DEF versioned
<1> QED
  BY <1>2, <1>3, <1>4, <1>5 DEF Settled

\* A move is refused.
LEMMA NewerMove ==
    ASSUME NEW e, NEW db, NEW old, NEW new, Frozen(db), Settled(e, db), Len(old) \in Nat
    PROVE  MoveTo(e, Root, old, new).writes = <<>>
<1> DEFINE yes == TRUE
           here == MovePlace(e, Root, old, new)
           last == InnermostMove(e, Root, old, new)
           versioned == CheckVersion(e, Root, yes)
<1>1. Settled(versioned, db) /\ ~Ok(versioned)
  <2> HIDE DEF yes
  <2>1. yes
    BY DEF yes
  <2> QED
    BY <2>1, NewerVersion
<1>2. MoveForwarded(here) = here
  <2> DEFINE fo == Find(versioned.db, Root, old)
             fn == Find(versioned.db, Root, new)
             other == ~IsPrefix(old, new) /\ IsInPartition(fo, old) /\ IsInPartition(fn, new)
                      /\ SubSeq(old, 1, fo.depth) = SubSeq(new, 1, fn.depth)
             inside == MovePlace(Reading(versioned, fo.reads \cup fn.reads), fn.node,
                                 Subpath(fo, old), Subpath(fn, new))
  <2>1. MoveForwarded(here) = IF Ok(versioned) /\ other THEN inside ELSE here
    BY DEF MoveForwarded, MovePlace
  <2> HIDE DEF other, inside, here, versioned
  <2> QED
    BY <1>1, <2>1
<1>3. last = here
  <2> PICK f : MoveIs(f, e, Root, old, new)
    BY ForwardsNat, MoveFacts
  <2>1. /\ last = f[Forwards(old)] /\ f[0] = here
        /\ \A i \in 1 .. Forwards(old) : f[i] = MoveForwarded(f[i - 1])
    BY DEF MoveIs
  <2> HIDE DEF here, last
  <2> DEFINE Some == {i \in Nat : i <= Forwards(old) => f[i] = here}
  <2>2. 0 \in Some
    BY <2>1
  <2>3. ASSUME NEW i \in Nat, i \in Some PROVE i + 1 \in Some
    <3>1. SUFFICES ASSUME i + 1 <= Forwards(old) PROVE f[i + 1] = here
      OBVIOUS
    <3>2. f[i] = here /\ i + 1 \in 1 .. Forwards(old) /\ (i + 1) - 1 = i
      BY <2>3, <3>1, ForwardsNat
    <3>3. f[i + 1] = MoveForwarded(f[i])
      BY <2>1, <3>2
    <3> QED
      BY <1>2, <3>2, <3>3
  <2>4. Forwards(old) \in Some
    <3> HIDE DEF Some
    <3> QED
      BY <2>2, <2>3, ForwardsNat, NumberInduction
  <2>5. f[Forwards(old)] = here
    BY <2>4
  <2> QED
    BY <2>1, <2>5
<1>4. MoveTo(e, Root, old, new) = MoveHere(last.e, last.at, last.old, last.new)
  BY DEF MoveTo
<1>5. last.e = e /\ last.at = Root /\ last.old = old /\ last.new = new
  <2> HIDE DEF last
  <2> QED
    BY <1>3 DEF MovePlace
<1> HIDE DEF last
<1>6. MoveHere(e, Root, old, new) = versioned
  <2> DEFINE fo == Find(versioned.db, Root, old)
             fn == Find(versioned.db, Root, new)
             both == Reading(versioned, fo.reads \cup fn.reads)
             parent == Find(versioned.db, Root, Front(new))
             read == Reading(both, parent.reads)
             set == Writing(read, SetKey(SubKey(Root, parent.node, Last(new)), fo.node))
             one == ~Ok(versioned)
             two == IsPrefix(old, new)
             three == ~Found(fo)
             four == IsInPartition(fo, old) \/ IsInPartition(fn, new)
             five == Found(fn)
             six == ~Found(parent)
  <2>1. MoveHere(e, Root, old, new) =
            IF one THEN versioned
            ELSE IF two THEN Failing(versioned, "CannotMoveBetweenSubdirectory")
            ELSE IF three THEN Failing(both, "PathDoesNotExists")
            ELSE IF four THEN Failing(both, "CannotMoveBetweenPartition")
            ELSE IF five THEN Failing(both, "DirAlreadyExists")
            ELSE IF six THEN Failing(read, "ParentDirDoesNotExists")
            ELSE RemoveFromParent(set, Root, old)
    BY DEF MoveHere
  <2> HIDE DEF two, three, four, five, six, versioned, both, read, set
  <2> QED
    BY <1>1, <2>1
<1> HIDE DEF versioned
<1> QED
  BY <1>1, <1>4, <1>5, <1>6 DEF Settled

\* The choice of a prefix writes nothing, and fails.
LEMMA NewerChoose ==
    ASSUME NEW e, NEW db, NEW path, NEW missing \in Nat, NEW prefix, NEW picks, Frozen(db), Settled(e, db)
    PROVE  /\ Settled(ChooseAll(e, Root, path, missing, prefix, picks), db)
           /\ missing # 0 => ~Ok(ChooseAll(e, Root, path, missing, prefix, picks))
<1> PICK f : ChooseIs(f, e, Root, path, missing, prefix, picks)
  BY ChooseFacts
<1>1. /\ ChooseAll(e, Root, path, missing, prefix, picks) = f[missing] /\ f[0] = e
      /\ \A i \in 1 .. missing : f[i] =
                    IF i = 1 THEN ChoosePrefix(f[i - 1], Root, prefix, picks[Len(path) + 1 - i])
                    ELSE ChooseFor(f[i - 1], Root, SubSeq(path, 1, Len(path) + 1 - i), picks[Len(path) + 1 - i])
  BY DEF ChooseIs
<1> DEFINE Some == {i \in Nat : i <= missing => Settled(f[i], db) /\ (i # 0 => ~Ok(f[i]))}
<1>2. 0 \in Some
  BY <1>1
<1>3. ASSUME NEW i \in Nat, i \in Some PROVE i + 1 \in Some
  <2>1. SUFFICES ASSUME i + 1 <= missing PROVE Settled(f[i + 1], db) /\ ~Ok(f[i + 1])
    OBVIOUS
  <2>2. Settled(f[i], db) /\ (i # 0 => ~Ok(f[i])) /\ i + 1 \in 1 .. missing /\ (i + 1) - 1 = i
    BY <1>3, <2>1
  <2> DEFINE n == Len(path) + 1 - (i + 1)
             yes == TRUE
             versioned == CheckVersion(f[i], Root, yes)
  <2>3. f[i + 1] = IF i + 1 = 1 THEN ChoosePrefix(f[i], Root, prefix, picks[n])
                   ELSE ChooseFor(f[i], Root, SubSeq(path, 1, n), picks[n])
    BY <1>1, <2>2
  <2> HIDE DEF n
  <2>4. Settled(versioned, db) /\ ~Ok(versioned)
    <3> HIDE DEF yes
    <3>1. yes
      BY DEF yes
    <3> QED
      BY <2>2, <3>1, NewerVersion
  <2>5. ChoosePrefix(f[i], Root, prefix, picks[n]) = versioned
    BY <2>4 DEF ChoosePrefix
  <2>6. i # 0 => ChooseFor(f[i], Root, SubSeq(path, 1, n), picks[n]) = f[i]
    BY <2>2 DEF ChooseFor
  <2> HIDE DEF versioned
  <2> QED
    BY <2>2, <2>3, <2>4, <2>5, <2>6
<1>4. missing \in Some
  <2> HIDE DEF Some
  <2> QED
    BY <1>2, <1>3, NumberInduction
<1>5. Settled(f[missing], db) /\ (missing # 0 => ~Ok(f[missing]))
  BY <1>4
<1> QED
  BY <1>1, <1>5

\* A parent that is looked up is left as it is.
LEMMA NewerLooked ==
    ASSUME NEW e, NEW db, NEW path, Frozen(db), Settled(e, db)
    PROVE  Settled(Looked(e, Root, path), db)
<1> DEFINE no == FALSE
           versioned == CheckVersion(e, Root, no)
           reads == Find(e.db, Root, path).reads
<1>1. Looked(e, Root, path) = Reading(versioned, reads)
  BY DEF Looked
<1>2. Settled(versioned, db)
  <2> HIDE DEF no
  <2> QED
    BY NewerVersion
<1> HIDE DEF versioned, reads
<1> QED
  BY <1>1, <1>2, SettledFacts

\* No directory is created.
LEMMA NewerCreateInternal ==
    ASSUME NEW e, NEW db, NEW path, NEW prefix, NEW layer, NEW allowCreate, NEW picks,
           Frozen(db), Settled(e, db), Len(path) \in Nat
    PROVE  Settled(CreateInternal(e, Root, path, prefix, layer, allowCreate, picks), db)
<1> DEFINE found == Find(e.db, Root, path).depth
           missing == Len(path) - found
           all == ChooseAll(e, Root, path, missing, prefix, picks)
           parent == SubSeq(path, 1, found)
           base == IF found = 0 THEN all ELSE Looked(all, Root, parent)
           node == Find(all.db, Root, parent).node
           created == LinkAll(base, Root, path, missing, node, layer)
           own == all.prefixes[1]
           under == LayerOf(created.db, Root, own)
<1>1. CreateInternal(e, Root, path, prefix, layer, allowCreate, picks) =
        IF ~allowCreate THEN Failing(e, "DirectoryDoesNotExists")
        ELSE IF ~Ok(all) THEN all
        ELSE [created EXCEPT !.prefix = own, !.layer = under]
  BY DEF CreateInternal, Created
<1>2. missing \in Nat
  <2>1. found \in 0 .. Len(path)
    BY FindDepth
  <2> HIDE DEF found
  <2> QED
    BY <2>1
<1> HIDE DEF found, missing
<1>3. Settled(all, db) /\ (missing # 0 => ~Ok(all))
  BY <1>2, NewerChoose
<1> HIDE DEF all
<1>4. Settled(base, db)
  <2>1. Settled(Looked(all, Root, parent), db)
    BY <1>3, NewerLooked
  <2> QED
    BY <1>3, <2>1
<1> HIDE DEF base, parent, node
<1>5. missing = 0 => created = base
  <2> PICK f : LinkIs(f, base, Root, path, missing, node, layer)
    BY <1>2, LinkFacts
  <2>1. created = f[missing] /\ f[0] = base
    BY DEF LinkIs
  <2> HIDE DEF created
  <2> QED
    BY <2>1
<1> HIDE DEF created, own, under
<1>6. missing = 0 => Settled([created EXCEPT !.prefix = own, !.layer = under], db)
  <2>1. Settled([base EXCEPT !.prefix = own, !.layer = under], db)
    BY <1>4, SettledFacts
  <2> QED
    BY <1>5, <2>1
<1>7. Settled(Failing(e, "DirectoryDoesNotExists"), db)
  BY SettledFacts
<1> QED
  BY <1>1, <1>3, <1>6, <1>7

\* A directory is at most opened, and not even that if the version is a major one.
LEMMA NewerCreate ==
    ASSUME NEW e, NEW db, NEW path, NEW prefix, NEW layer, NEW allowCreate, NEW allowOpen, NEW picks,
           Frozen(db), Settled(e, db), Len(path) \in Nat
    PROVE  /\ Settled(CreateOrOpen(e, Root, path, prefix, layer, allowCreate, allowOpen, picks), db)
           /\ Major(db) => ~Ok(CreateOrOpen(e, Root, path, prefix, layer, allowCreate, allowOpen, picks))
<1> DEFINE no == FALSE
           last == Innermost(e, Root, path, no)
           versioned == CheckVersion(e, Root, no)
           f == Find(versioned.db, Root, path)
           found == Reading(versioned, f.reads)
           opened == OpenInternal(found, f, layer, allowOpen)
           made == CreateInternal(found, Root, path, prefix, layer, allowCreate, picks)
           done == CreateOrOpenHere(e, Root, path, prefix, layer, allowCreate, allowOpen, picks)
<1>1. CreateOrOpen(e, Root, path, prefix, layer, allowCreate, allowOpen, picks) = done
  <2>1. CreateOrOpen(e, Root, path, prefix, layer, allowCreate, allowOpen, picks) =
        CreateOrOpenHere(last.e, last.at, last.path, prefix, layer, allowCreate, allowOpen, picks)
    BY DEF CreateOrOpen
  <2>2. last = Place(e, Root, path)
    <3> HIDE DEF no
    <3> QED
      BY NewerStays
  <2> HIDE DEF last
  <2>3. last.e = e /\ last.at = Root /\ last.path = path
    BY <2>2 DEF Place
  <2> QED
    BY <2>1, <2>3
<1>2. Settled(versioned, db) /\ (Major(db) => ~Ok(versioned))
  <2> HIDE DEF no
  <2> QED
    BY NewerVersion
<1>3. /\ done \in {versioned, Failing(versioned, "PrefixNotAllowed"),
                   Failing(versioned, "NoPathProvided"), opened, made}
      /\ ~Ok(versioned) => done = versioned
  <2> DEFINE one == ~Ok(versioned)
             two == prefix # None /\ (Manual = {} \/ Root # Root)
             three == path = <<>>
             four == Found(f)
  <2>1. done = IF one THEN versioned
               ELSE IF two THEN Failing(versioned, "PrefixNotAllowed")
               ELSE IF three THEN Failing(versioned, "NoPathProvided")
               ELSE IF four THEN opened
               ELSE made
    BY DEF CreateOrOpenHere
  <2>2. one <=> ~Ok(versioned)
    OBVIOUS
  <2> HIDE DEF one, two, three, four, versioned, opened, made, done
  <2> QED
    BY <2>1, <2>2
<1> HIDE DEF versioned, f, done
<1>4. Settled(found, db)
  BY <1>2, SettledFacts
<1> HIDE DEF found
<1>5. Settled(opened, db)
  <2>1. Settled(Failing(found, "DirAlreadyExists"), db) /\ Settled(Failing(found, "IncompatibleLayer"), db)
    BY <1>4, SettledFacts
  <2> DEFINE node == f.node
             under == f.layer
  <2>2. OpenInternal(found, f, layer, allowOpen) =
            IF ~allowOpen THEN Failing(found, "DirAlreadyExists")
            ELSE IF layer \notin {None, "", f.layer} THEN Failing(found, "IncompatibleLayer")
            ELSE [found EXCEPT !.prefix = node, !.layer = under]
    BY DEF OpenInternal
  <2> HIDE DEF node, under
  <2>3. Settled([found EXCEPT !.prefix = node, !.layer = under], db)
    BY <1>4, SettledFacts
  <2> QED
    BY <2>1, <2>2, <2>3
<1>6. Settled(made, db)
  BY <1>4, NewerCreateInternal
<1>7. Settled(Failing(versioned, "PrefixNotAllowed"), db) /\ Settled(Failing(versioned, "NoPathProvided"), db)
  BY <1>2, SettledFacts
<1> HIDE DEF opened, made
<1>8. Settled(done, db)
  BY <1>2, <1>3, <1>5, <1>6, <1>7
<1> QED
  BY <1>1, <1>2, <1>3, <1>8

\* Content is all that is stored, and none if the version is a major one.
LEMMA NewerStore ==
    ASSUME NEW e, NEW db, NEW path, Frozen(db), Settled(e, db), Len(path) \in Nat
    PROVE  /\ \A i \in 1 .. Len(StoreIn(e, path).writes) : StoreIn(e, path).writes[i].op = "content"
           /\ Major(db) => StoreIn(e, path).writes = <<>>
<1> DEFINE no == FALSE
           yes == TRUE
           nothing == <<>>
           none == None
           opened == CreateOrOpen(e, Root, path, none, none, no, yes, nothing)
           content == Content(opened.prefix)
           filled == Writing(opened, content)
           refused == Failing(opened, "CannotPackDirectoryPartition")
<1>1. /\ StoreIn(e, path) \in {opened, refused, filled}
      /\ ~Ok(opened) => StoreIn(e, path) = opened
  <2> DEFINE one == ~Ok(opened)
             two == opened.layer = Partition
  <2>1. StoreIn(e, path) = IF one THEN opened ELSE IF two THEN refused ELSE filled
    BY DEF StoreIn, Packed
  <2>2. one <=> ~Ok(opened)
    OBVIOUS
  <2> HIDE DEF one, two, opened, refused, filled
  <2> QED
    BY <2>1, <2>2
<1>2. Settled(opened, db) /\ (Major(db) => ~Ok(opened))
  <2> HIDE DEF no, yes, nothing, none
  <2> QED
    BY NewerCreate
<1> HIDE DEF opened
<1>3. refused.writes = <<>>
  BY <1>2, FailingFacts DEF Settled
<1>4. filled.writes = <<content>>
  <2> HIDE DEF content
  <2>1. filled.writes = Append(opened.writes, content)
    BY <1>2, WritingFacts DEF Settled
  <2>2. opened.writes = <<>>
    BY <1>2 DEF Settled
  <2> HIDE DEF filled
  <2> QED
    BY <2>1, <2>2
<1>5. opened.writes = <<>>
  BY <1>2 DEF Settled
<1>6. content.op = "content"
  BY OtherWrites
<1> HIDE DEF refused, filled, content
<1>7. StoreIn(e, path).writes \in {<<>>, <<content>>}
  BY <1>1, <1>3, <1>4, <1>5
<1>8. \A ws \in {<<>>, <<content>>} : \A i \in 1 .. Len(ws) : ws[i].op = "content"
  BY <1>6
<1> QED
  BY <1>1, <1>2, <1>5, <1>7, <1>8

-----------------------------------------------------------------------------
(* Transactions.                                                           *)

\* The operations are asked for on sequences of names.
LEMMA PathFacts ==
    ASSUME NEW path \in Path
    PROVE  path \in Seq(Name) /\ Len(path) \in Nat
<1>1. PICK n \in 1 .. MaxDepth : path \in [1 .. n -> Name]
  BY DEF Path
<1>2. n \in Nat
  BY <1>1, DepthAssumption
<1> QED
  BY <1>1, <1>2

\* What the writes of a transaction make of a store: a version stays newer or
\* not, a newer one is filled at most, and a major one is left as it is.
LEMMA AllAppliedFacts ==
    ASSUME NEW db, NEW ws, StoreInv(db), WritesInv(db, ws)
    PROVE  /\ StoreInv(AllApplied(db, ws))
           /\ ~Newer(db) => ~Newer(AllApplied(db, ws))
           /\ Newer(db) => AllApplied(db, ws).meta = db.meta
           /\ Major(db) => AllApplied(db, ws) = db
<1>1. Len(ws) \in Nat /\ \A i \in 1 .. Len(ws) : GoodWrite(ws[i])
  BY GoodFacts DEF WritesInv
<1> PICK f : StoresIs(f, db, ws)
  BY <1>1, StoresFacts
<1>2. /\ AllApplied(db, ws) = f[Len(ws)] /\ f[0] = db
      /\ \A i \in 1 .. Len(ws) : f[i] = Applied(f[i - 1], ws[i])
  BY DEF StoresIs
<1> DEFINE Kept(d) == /\ StoreShape(d) /\ (~Newer(db) => ~Newer(d))
                      /\ Newer(db) => d.meta = db.meta
           Some == {i \in Nat : i <= Len(ws) => Kept(f[i])}
<1>3. 0 \in Some
  BY <1>2 DEF StoreInv
<1>4. ASSUME NEW i \in Nat, i \in Some PROVE i + 1 \in Some
  <2>1. SUFFICES ASSUME i + 1 <= Len(ws) PROVE Kept(f[i + 1])
    OBVIOUS
  <2>2. Kept(f[i]) /\ i + 1 \in 1 .. Len(ws) /\ (i + 1) - 1 = i
    BY <1>1, <1>4, <2>1
  <2>3. f[i + 1] = Applied(f[i], ws[i + 1]) /\ GoodWrite(ws[i + 1])
    BY <1>1, <1>2, <2>2
  <2>4. Newer(db) => ws[i + 1].op = "content"
    BY <2>2 DEF WritesInv
  <2>5. /\ StoreShape(Applied(f[i], ws[i + 1]))
        /\ ~Newer(f[i]) => ~Newer(Applied(f[i], ws[i + 1]))
        /\ ws[i + 1].op = "content" => Applied(f[i], ws[i + 1]).meta = f[i].meta
    BY <2>2, <2>3, AppliedFacts
  <2> QED
    BY <2>2, <2>3, <2>4, <2>5
<1>5. Len(ws) \in Some
  <2> HIDE DEF Some
  <2> QED
    BY <1>1, <1>3, <1>4, NumberInduction
<1>6. Kept(AllApplied(db, ws))
  BY <1>2, <1>5
<1>7. StoreInv(AllApplied(db, ws))
  BY <1>6 DEF StoreInv, Newer, NoPartition
<1>8. Major(db) => AllApplied(db, ws) = db
  BY <1>2 DEF WritesInv
<1> QED
  BY <1>6, <1>7, <1>8

\* An operation begins with a store as it is, and with nothing written.
LEMMA StartedTame ==
    ASSUME NEW db, NEW plain, StoreShape(db), plain => NoPartition(db)
    PROVE  Tame(Started(db), plain)
<1>1. RunShape(Started(db)) /\ Started(db).db = db /\ Started(db).writes = <<>>
  BY DEF Started, RunShape
<1> QED
  BY <1>1, EmptyGood DEF Tame

\* An operation that left a newer version alone has good writes.
LEMMA WritesFacts ==
    ASSUME NEW e, NEW db, NEW plain, Tame(e, plain),
           Newer(db) => /\ \A i \in 1 .. Len(e.writes) : e.writes[i].op = "content"
                        /\ Major(db) => e.writes = <<>>
    PROVE  WritesInv(db, e.writes)
BY DEF Tame, WritesInv, Major

\* Nothing written is nothing but content written.
LEMMA EmptyWrites ==
    ASSUME NEW ws, ws = <<>>
    PROVE  \A i \in 1 .. Len(ws) : ws[i].op = "content"
OBVIOUS

\* Every operation on a store keeps to what its version allows.
LEMMA OperationsKeep ==
    ASSUME NEW path \in Path, StoreInv(store)
    PROVE  /\ \A prefix, layer, allowCreate, allowOpen, picks :
                WritesInv(store, CreateOrOpen(Started(store), Root, path, prefix, layer,
                                              allowCreate, allowOpen, picks).writes)
           /\ \A new \in Path : WritesInv(store, MoveTo(Started(store), Root, path, new).writes)
           /\ \A fail : WritesInv(store, RemoveTree(Started(store), Root, path, fail).writes)
           /\ WritesInv(store, StoreIn(Started(store), path).writes)
<1> DEFINE no == FALSE
           e == Started(store)
<1>1. ~no
  OBVIOUS
<1> HIDE DEF no
<1>2. Tame(e, no) /\ Settled(e, store)
  BY <1>1, StartedTame, StartedSettled DEF StoreInv
<1>3. Newer(store) => Frozen(store)
  BY DEF StoreInv, Frozen
<1>4. path \in Seq(Name) /\ Len(path) \in Nat
  BY PathFacts
<1> HIDE DEF e
<1>5. ASSUME NEW prefix, NEW layer, NEW allowCreate, NEW allowOpen, NEW picks
      PROVE  WritesInv(store, CreateOrOpen(e, Root, path, prefix, layer, allowCreate, allowOpen, picks).writes)
  <2> DEFINE done == CreateOrOpen(e, Root, path, prefix, layer, allowCreate, allowOpen, picks)
  <2>1. Tame(done, no)
    BY <1>1, <1>2, <1>4, TameCreate
  <2>2. Newer(store) => done.writes = <<>>
    <3>1. Newer(store) => Settled(done, store)
      BY <1>2, <1>3, <1>4, NewerCreate
    <3> QED
      BY <3>1 DEF Settled
  <2> HIDE DEF done
  <2>3. WritesInv(store, done.writes)
    BY <2>1, <2>2, EmptyWrites, WritesFacts
  <2> QED
    BY <2>3 DEF done
<1>6. ASSUME NEW new \in Path PROVE WritesInv(store, MoveTo(e, Root, path, new).writes)
  <2> DEFINE done == MoveTo(e, Root, path, new)
  <2>1. Tame(done, no)
    BY <1>2, <1>4, TameMove
  <2>2. Newer(store) => done.writes = <<>>
    BY <1>2, <1>3, <1>4, NewerMove
  <2> HIDE DEF done
  <2>3. WritesInv(store, done.writes)
    BY <2>1, <2>2, EmptyWrites, WritesFacts
  <2> QED
    BY <2>3 DEF done
<1>7. ASSUME NEW fail PROVE WritesInv(store, RemoveTree(e, Root, path, fail).writes)
  <2> DEFINE done == RemoveTree(e, Root, path, fail)
  <2>1. Tame(done, no)
    BY <1>2, <1>4, TameRemove
  <2>2. Newer(store) => done.writes = <<>>
    BY <1>2, <1>3, <1>4, NewerRemove
  <2> HIDE DEF done
  <2>3. WritesInv(store, done.writes)
    BY <2>1, <2>2, EmptyWrites, WritesFacts
  <2> QED
    BY <2>3 DEF done
<1>8. WritesInv(store, StoreIn(e, path).writes)
  <2> DEFINE done == StoreIn(e, path)
  <2>1. Tame(done, no)
    BY <1>1, <1>2, <1>4, TameStore
  <2>2. Newer(store) => /\ \A i \in 1 .. Len(done.writes) : done.writes[i].op = "content"
                        /\ Major(store) => done.writes = <<>>
    BY <1>2, <1>3, <1>4, NewerStore
  <2> HIDE DEF done
  <2>3. WritesInv(store, done.writes)
    BY <2>1, <2>2, WritesFacts
  <2> QED
    BY <2>3 DEF done
<1> QED
  BY <1>5, <1>6, <1>7, <1>8 DEF e

-----------------------------------------------------------------------------
(* The theorems.                                                           *)

\* A new directory has no version, and one of a newer version no partition.
LEMMA VersionInit == Init => VersionInv
<1> SUFFICES ASSUME Init PROVE VersionInv
  OBVIOUS
<1> DEFINE nothing == <<>>
<1>1. DOMAIN nothing = {}
  OBVIOUS
<1>2. StoreShape(Fresh) /\ Fresh.meta = nothing
  BY DEF StoreShape, Fresh
<1>3. NoPartition(Fresh) /\ ~Newer(Fresh)
  <2> HIDE DEF nothing
  <2> QED
    BY <1>1, <1>2 DEF NoPartition, Newer
<1>4. StoreInv(store)
  <2>1. CASE store = Fresh
    BY <1>2, <1>3, <2>1 DEF StoreInv
  <2>2. ASSUME NEW v \in Versions \ {"new"}, NEW n \in Name, NEW c \in Candidate, store = Used(v, n, c)
        PROVE  StoreInv(store)
    <3> DEFINE yes == TRUE
               none == None
               plainly == ""
               path == <<n>>
               picks == <<c>>
               e == CreateOrOpen(Started(Fresh), Root, path, none, plainly, yes, yes, picks)
               key == VersionKey(Root)
               w == SetKey(key, v)
               m == [k \in DOMAIN e.db.meta \cup {key} |-> IF k = key THEN v ELSE e.db.meta[k]]
    <3>1. store = Applied(e.db, w) /\ yes /\ plainly # Partition /\ path \in Seq(Name)
      <4>1. store = Applied(e.db, w)
        BY <2>2 DEF Used
      <4>2. yes /\ plainly # Partition
        BY DEF Partition
      <4>3. path \in Seq(Name)
        OBVIOUS
      <4> QED
        BY <4>1, <4>2, <4>3
    <3>2. Tame(e, yes)
      <4> HIDE DEF yes, none, plainly, path, picks
      <4>1. Tame(Started(Fresh), yes)
        BY <1>2, <1>3, StartedTame
      <4> QED
        BY <3>1, <4>1, TameCreate
    <3>3. v \in {"minor", "major"}
      BY VersionAssumption
    <3>4. StoreShape(e.db) /\ NoPartition(e.db)
      BY <3>1, <3>2 DEF Tame
    <3> HIDE DEF e
    <3>5. w.op = "set" /\ w.key = key /\ w.value = v
      BY DEF SetKey
    <3> HIDE DEF w
    <3>6. Applied(e.db, w) = [e.db EXCEPT !.meta = m]
      BY <3>5 DEF Applied
    <3>7. key.item = <<"version">>
      BY DEF VersionKey, Key
    <3>8. \A k \in DOMAIN m : m[k] = IF k = key THEN v ELSE e.db.meta[k]
      OBVIOUS
    <3>9. key \in DOMAIN m /\ \A k \in DOMAIN m : k # key => k \in DOMAIN e.db.meta
      OBVIOUS
    <3> HIDE DEF m
    <3>10. Applied(e.db, w) = [meta |-> m, data |-> e.db.data]
      BY <3>4, <3>6 DEF StoreShape
    <3>11. store.meta = m /\ StoreShape(store)
      <4> DEFINE d == e.db.data
      <4>1. store = [meta |-> m, data |-> d]
        BY <3>1, <3>10
      <4> HIDE DEF d
      <4> QED
        BY <4>1 DEF StoreShape
    <3>12. NoPartition(store)
      <4>1. <<"version">> # <<"layer">>
        OBVIOUS
      <4> HIDE DEF key
      <4> QED
        BY <3>4, <3>7, <3>8, <3>9, <3>11, <4>1 DEF NoPartition
    <3>13. store.meta[key] = v
      BY <3>8, <3>9, <3>11
    <3> QED
      BY <3>3, <3>11, <3>12, <3>13 DEF StoreInv
  <2> QED
    BY <2>1, <2>2 DEF Init
<1>5. txn = [c \in Client |-> Idle] /\ Idle.writes = <<>>
  BY DEF Init, Idle
<1> HIDE DEF nothing
<1>6. WritesInv(store, <<>>)
  BY EmptyGood, EmptyWrites DEF WritesInv
<1> QED
  BY <1>4, <1>5, <1>6 DEF VersionInv

\* A commit and the operations keep it.
LEMMA VersionStep == VersionInv /\ [Next]_vars => VersionInv'
<1> SUFFICES ASSUME VersionInv, [Next]_vars PROVE VersionInv'
  OBVIOUS
<1>1. /\ StoreInv(store) /\ txn = [c \in Client |-> txn[c]]
      /\ \A c \in Client : WritesInv(store, txn[c].writes)
  BY DEF VersionInv
<1>2. ASSUME NEW c \in Client, NEW e, Run(c, e), WritesInv(store, e.writes)
      PROVE  VersionInv'
  <2> DEFINE mine == [reads |-> e.reads, writes |-> e.writes]
  <2>1. txn' = [txn EXCEPT ![c] = mine] /\ store' = store /\ mine.writes = e.writes
    BY <1>2 DEF Run
  <2> HIDE DEF mine
  <2>2. txn' = [d \in Client |-> txn'[d]] /\ \A d \in Client : txn'[d] = IF d = c THEN mine ELSE txn[d]
    BY <1>1, <2>1
  <2>3. \A d \in Client : WritesInv(store', txn'[d].writes)
    BY <1>1, <1>2, <2>1, <2>2
  <2> QED
    BY <1>1, <2>1, <2>2, <2>3 DEF VersionInv
<1>3. ASSUME NEW c \in Client, CreateDirectory(c) PROVE VersionInv'
  <2>1. PICK path \in Path, layer \in {"", Partition}, prefix \in Manual \cup {None} :
            \E picks \in [1 .. Len(path) -> Candidate] :
                Run(c, CreateOrOpen(Started(store), Root, path, prefix, layer, TRUE, TRUE, picks))
    BY <1>3 DEF CreateDirectory
  <2>2. PICK picks : Run(c, CreateOrOpen(Started(store), Root, path, prefix, layer, TRUE, TRUE, picks))
    BY <2>1
  <2> QED
    BY <1>1, <1>2, <2>2, OperationsKeep
<1>4. ASSUME NEW c \in Client, MoveDirectory(c) PROVE VersionInv'
  <2>1. PICK old \in Path, new \in Path : Run(c, MoveTo(Started(store), Root, old, new))
    BY <1>4 DEF MoveDirectory
  <2> QED
    BY <1>1, <1>2, <2>1, OperationsKeep
<1>5. ASSUME NEW c \in Client, RemoveDirectory(c) PROVE VersionInv'
  <2>1. PICK path \in Path : Run(c, RemoveTree(Started(store), Root, path, TRUE))
    BY <1>5 DEF RemoveDirectory
  <2> QED
    BY <1>1, <1>2, <2>1, OperationsKeep
<1>6. ASSUME NEW c \in Client, StoreContent(c) PROVE VersionInv'
  <2>1. PICK path \in Path : Run(c, StoreIn(Started(store), path))
    BY <1>6 DEF StoreContent
  <2> QED
    BY <1>1, <1>2, <2>1, OperationsKeep
<1>7. ASSUME NEW c \in Client, Commit(c) PROVE VersionInv'
  <2> DEFINE new == AllApplied(store, txn[c].writes)
  <2>1. store' = new /\ txn' = [d \in Client |->
            IF d = c \/ Conflict(txn[d].reads, txn[c].writes) THEN Idle ELSE txn[d]]
    BY <1>7 DEF Commit
  <2>2. /\ StoreInv(new) /\ (~Newer(store) => ~Newer(new)) /\ (Newer(store) => new.meta = store.meta)
    BY <1>1, AllAppliedFacts
  <2> HIDE DEF new
  <2>3. Idle.writes = <<>> /\ WritesInv(new, <<>>)
    BY EmptyGood, EmptyWrites DEF WritesInv, Idle
  <2>4. ASSUME NEW d \in Client PROVE WritesInv(new, txn[d].writes)
    BY <1>1, <2>2 DEF WritesInv, Newer, Major
  <2>5. txn' = [d \in Client |-> txn'[d]] /\ \A d \in Client : txn'[d] \in {Idle, txn[d]}
    BY <2>1
  <2>6. \A d \in Client : WritesInv(store', txn'[d].writes)
    BY <2>1, <2>3, <2>4, <2>5
  <2> QED
    BY <2>1, <2>2, <2>5, <2>6 DEF VersionInv
<1>8. CASE UNCHANGED vars
  BY <1>1, <1>8 DEF vars, VersionInv
<1> QED
  BY <1>3, <1>4, <1>5, <1>6, <1>7, <1>8 DEF Next

\* What a newer version holds is not touched by a step.
LEMMA StepUntouched ==
    ASSUME VersionInv, [Next]_vars, VersionKey(Root) \in DOMAIN store.meta
    PROVE  /\ store.meta[VersionKey(Root)] # "current" => store'.meta = store.meta
           /\ store.meta[VersionKey(Root)] = "major" => store' = store
<1>1. StoreInv(store) /\ \A c \in Client : WritesInv(store, txn[c].writes)
  BY DEF VersionInv
<1>2. store' = store \/ \E c \in Client : Commit(c)
  BY DEF Next, CreateDirectory, MoveDirectory, RemoveDirectory, StoreContent, Run, vars
<1>3. ASSUME NEW c \in Client, Commit(c)
      PROVE  /\ Newer(store) => store'.meta = store.meta
             /\ Major(store) => store' = store
  <2>1. store' = AllApplied(store, txn[c].writes)
    BY <1>3 DEF Commit
  <2> QED
    BY <1>1, <2>1, AllAppliedFacts
<1>4. /\ store.meta[VersionKey(Root)] # "current" => Newer(store)
      /\ store.meta[VersionKey(Root)] = "major" => Major(store)
  BY DEF Newer, Major
<1> QED
  BY <1>2, <1>3, <1>4

\* Whatever clients ask for, a directory of a newer version holds no partition,
\* and no transaction under way would set its version back, or change anything
\* but content in it (check_version).
THEOREM VersionKept == Spec => []VersionInv
<1> QED
  BY VersionInit, VersionStep, PTL DEF Spec

\* No operation changes a directory of a newer minor version, though content may
\* be stored in it, and none does anything to one of a newer major version:
\* check_version, asked by create_or_open, move_to and remove before they write.
THEOREM NewerUntouched == Spec => NewerVersionUntouched
<1>1. VersionInv /\ [Next]_vars =>
        [VersionKey(Root) \in DOMAIN store.meta =>
            /\ store.meta[VersionKey(Root)] # "current" => store'.meta = store.meta
            /\ store.meta[VersionKey(Root)] = "major" => store' = store]_vars
  BY StepUntouched
<1> QED
  BY <1>1, VersionKept, PTL DEF Spec, NewerVersionUntouched
=============================================================================
