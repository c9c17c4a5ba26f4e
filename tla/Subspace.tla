------------------------------ MODULE Subspace ------------------------------
(***************************************************************************)
(* Subspaces of the tuple layer (subspace.rs): a prefix that tuples extend,*)
(* and the keys packed under it.  One that holds an incomplete versionstamp*)
(* is followed by the place of the stamp, which is counted from the start  *)
(* of the whole key; the database writes the transaction's version there.  *)
(***************************************************************************)
EXTENDS TupleLayer

CONSTANTS
    PathTuples,     \* tuples that extend a subspace
    KeyTuples,      \* tuples packed under it
    Version,        \* the transaction version the database assigns
    MaxPath         \* bound: elements of a subspace's tuple

ASSUME VersionAssumption ==
    Version \in [1 .. StampSize -> 0 .. Base - 1] /\ Version # Unset

VARIABLES
    prefix,         \* of the Subspace
    offset,         \* its versionstamp_offset
    path,           \* the tuple it was made of
    opaque,         \* its first elements, known to it as raw bytes only
    keys            \* the key packed last, with its tuple, subspace and suffix

vars == <<prefix, offset, path, opaque, keys>>

ApiVersions == {510, 520}

\* pack_into, after a prefix.
PackInto(v) == Pack(Tuple(v), 0)

\* Subspace::all.
All == prefix = <<>> /\ offset = NoIncomplete(0) /\ path = <<>> /\ opaque = 0

\* Subspace::subspace.
Extend(v) ==
    LET p == PackInto(v)
    IN /\ prefix' = prefix \o p.bytes
       /\ offset' = Plus(offset, p.offset)
       /\ path' = path \o v
       /\ UNCHANGED <<opaque, keys>>

\* Subspace::from_bytes of another's into_bytes.
FromBytes ==
    /\ path # <<>> /\ opaque # Len(path)
    /\ offset' = NoIncomplete(Len(prefix)) /\ opaque' = Len(path)
    /\ UNCHANGED <<prefix, path, keys>>

\* Subspace::range.
KeysUnder(p) == [begin |-> Append(p, NIL), end |-> Append(p, ESCAPE)]

Entry(v, bytes, suffix) ==
    [path |-> path, opaque |-> opaque, tuple |-> v, bytes |-> bytes, suffix |-> suffix,
     prefix |-> prefix]

\* Subspace::pack.
PackKey(v) ==
    /\ keys' = {Entry(v, prefix \o PackInto(v).bytes, 0)}
    /\ UNCHANGED <<prefix, offset, path, opaque>>

\* append_key_offset: little endian, in two bytes before API 520 and in four
\* after; with several stamps, or a place that is too far, it panics.
Suffix(at, api) ==
    LET size == IF api < 520 THEN 2 ELSE 4
    IN CASE at.kind = "None" -> <<>>
         [] at.kind = "One" -> Reverse(Digits(at.n, size))
Fits(at, api) == at.kind # "Multiple" /\ (at.kind = "One" /\ api < 520 => at.n < Power(2))

Placed_InTuple(at) == at
\* pack_with_versionstamp and pack_with_versionstamp_for_key: the place of the
\* stamp in the tuple, after the prefix.
Placed(at) == Plus(offset, at)

PackStampedKey(v, api) ==
    LET p == PackInto(v)
        at == Placed(p.offset)
    IN /\ Fits(at, api)
       /\ keys' = {Entry(v, prefix \o p.bytes \o Suffix(at, api), Len(Suffix(at, api)))}
       /\ UNCHANGED <<prefix, offset, path, opaque>>

Init == All /\ keys = {}

Next ==
    \/ \E v \in PathTuples : Len(path) + Len(v) <= MaxPath /\ keys = {} /\ Extend(v)
    \/ keys = {} /\ FromBytes
    \/ keys = {} /\ \E v \in KeyTuples : PackKey(v) \/ \E api \in ApiVersions : PackStampedKey(v, api)

Spec == Init /\ [][Next]_vars

-----------------------------------------------------------------------------
(* Properties.                                                             *)

Plain == {k \in keys : k.suffix = 0}
Extends(k) == k.path \o k.tuple

\* The types a value can be read as: every integer type wide enough for it.
Sizes == 1 .. 3
RECURSIVE TypeOf(_, _)
TypeOf(e, sz) ==
    CASE e.type = "Tuple" -> [name |-> "Tuple", of |-> [i \in DOMAIN e.items |-> TypeOf(e.items[i], sz)]]
      [] e.type = "Nil" -> [name |-> "Option", of |-> AnElement]
      [] e.type = "Int" -> [name |-> "Option", of |-> [name |-> "Int", size |-> sz]]
      [] OTHER -> [name |-> e.type]
RECURSIVE Fitting(_, _)
Fitting(e, sz) ==
    CASE e.type = "Tuple" -> \A i \in DOMAIN e.items : Fitting(e.items[i], sz)
      [] e.type = "Int" -> -(Power(sz) \div 2) <= e.n /\ e.n < Power(sz) \div 2
      [] OTHER -> TRUE

\* What an unpack may return for a tuple.
Same(r, tuple) == ~Failed(r) /\ CmpAtRoot(r.v, tuple) = 0
Read(r, v, fits) == IF fits THEN r = Ok(<<>>, v) ELSE Failed(r)

\* Subspace::unpack: a key packed under a subspace is read back under it, as an
\* Element or as the types it was packed from; a type too narrow for a number
\* in it is an error, never another number.
RoundTrip ==
    \A k \in Plain :
        LET rest == SubSeq(k.bytes, Len(k.prefix) + 1, Len(k.bytes))
            tuple == Tuple(k.tuple)
        IN /\ Same(UnpackRoot(AnElement, rest), tuple)
           /\ Read(UnpackRoot([name |-> "Vec", of |-> AnElement], rest), tuple, TRUE)
           /\ \A sz \in Sizes :
                Read(UnpackRoot(TypeOf(tuple, sz), rest), tuple, Fitting(tuple, sz))
           /\ \A e \in {x \in ToSet(k.tuple) : x.type = "Int"}, sz \in Sizes :
                Read(UnpackRoot([name |-> "Unsigned", size |-> sz], PackInt(e.n).bytes),
                     e, e.n \in 0 .. Power(sz) - 1)

SameSign(a, b) == (a < 0 <=> b < 0) /\ (a = 0 <=> b = 0)
\* The order of keys is the order of the tuples they were packed from, however
\* much of them came from the subspace.
KeysInOrder ==
    \A k \in Plain, v \in KeyTuples :
        SameSign(CmpBytes(k.bytes, PackInto(v).bytes), CmpAtRoot(Tuple(Extends(k)), Tuple(v)))

\* range(): of a subspace holds exactly the keys that extend its tuple, and none
\* of a sibling whose packed tuple begins with the same bytes.
InItsRange ==
    \A k \in Plain, v \in KeyTuples :
        LET range == KeysUnder(k.prefix)
            Inside(bytes) == CmpBytes(range.begin, bytes) <= 0 /\ CmpBytes(bytes, range.end) < 0
        IN /\ Inside(k.bytes) <=> k.tuple # <<>>
           /\ Inside(PackInto(v).bytes) <=> IsStrictPrefix(k.path, v)

\* Keys are faithful to their tuples: in what is read back, in order, in ranges.
KeysFaithful == RoundTrip /\ KeysInOrder /\ InItsRange

\* What the database makes of the key of SetVersionstampedKey: it takes the
\* suffix off and writes the version where it says.
Stamped(bytes, suffix) ==
    LET at == Value(Reverse(SubSeq(bytes, Len(bytes) - suffix + 1, Len(bytes))))
        key == SubSeq(bytes, 1, Len(bytes) - suffix)
    IN [i \in DOMAIN key |-> IF i \in at + 1 .. at + StampSize THEN Version[i - at] ELSE key[i]]

RECURSIVE Completed(_)
Completed(e) ==
    CASE e.type = "Tuple" -> Tuple([i \in DOMAIN e.items |-> Completed(e.items[i])])
      [] e.type = "Versionstamp" /\ ~is_complete(e.v) -> Stamp(Append(Version, e.v[StampSize + 1]))
      [] OTHER -> e

\* pack_with_versionstamp: the version is written over the one incomplete stamp
\* of the key, in the subspace or in the tuple and however deep, and the key the
\* database stores is that of the tuple with the stamp completed.
StampLands ==
    \A k \in keys :
        k.suffix > 0 =>
            LET raw == SubSeq(k.path, 1, k.opaque)
                known == SubSeq(k.path, k.opaque + 1, Len(k.path)) \o k.tuple
            IN Stamped(k.bytes, k.suffix)
                = PackInto(raw).bytes \o PackInto(Completed(Tuple(known)).items).bytes
=============================================================================
