------------------------------ MODULE Directory ------------------------------
(***************************************************************************)
(* The directory layer (directory_layer.rs, directory_partition.rs,         *)
(* node.rs) over the FoundationDB keys it is made of.  Clients run one      *)
(* directory operation per transaction: it reads the store as it is when    *)
(* the transaction begins, overlaid with what it writes itself, and commits *)
(* unless another commit wrote something it read, snapshot reads excepted.  *)
(*                                                                         *)
(* A prefix is a sequence of symbols.  FE, above every other symbol, stands *)
(* for the 0xFE below which each layer keeps its nodes; a layer is named by *)
(* its content prefix, <<>> for the root and a partition's own for what is  *)
(* inside that.                                                            *)
(***************************************************************************)
EXTENDS Naturals, Sequences, FiniteSets, SequencesExt

CONSTANTS
    Client,
    Name, MaxDepth,     \* bound: the paths operations are asked for
    Candidate,          \* bound: what the allocator can hand out
    Manual,             \* prefixes asked for by hand; {} if not allowed
    MaxContent,         \* bound: directories with content when one is given some
    Versions,           \* versions of the directory that may be found at first
    FE, None

ASSUME SymbolAssumption == Candidate \subseteq Nat /\ FE \in Nat /\ \A c \in Candidate : c < FE
ASSUME DepthAssumption == MaxDepth \in Nat
ASSUME VersionAssumption == Versions \subseteq {"new", "minor", "major"}

VARIABLES
    store,      \* keys: metadata, and which prefixes hold content
    txn         \* each client's transaction

vars == <<store, txn>>

-----------------------------------------------------------------------------
(* Keys.  A metadata key is an item of a node of a layer.                  *)

Root == <<>>
RootNode(L) == Append(L, FE)
Key(L, node, item) == [at |-> L, node |-> node, item |-> item]
VersionKey(L) == Key(L, RootNode(L), <<"version">>)
HcaKey(L, c) == Key(L, RootNode(L), <<"hca", c>>)
SubKey(L, node, name) == Key(L, node, <<"sub", name>>)
LayerKey(L, node) == Key(L, node, <<"layer">>)

Partition == "partition"

\* The order of byte strings.
AtMost(s, t) ==
    \/ IsPrefix(s, t)
    \/ \E i \in DOMAIN s \cap DOMAIN t :
        s[i] < t[i] /\ \A j \in 1 .. i - 1 : s[j] = t[j]

\* What a read or a write covers: items of the nodes of a layer in a range, or
\* every key that starts with a prefix.
Extent(L, from, to, item) == [at |-> L, from |-> from, to |-> to, item |-> item]
Exactly(key) == Extent(key.at, key.node, key.node, key.item)
SubDirs(L, node) == Extent(L, node, node, <<"sub">>)
AllOf(L, node) == Extent(L, node, node, <<>>)
Raw(prefix) == Extent(prefix, <<>>, <<>>, <<"raw">>)

IsRaw(x) == x.item = <<"raw">>
Bytes(x) == IF IsRaw(x) THEN x.at ELSE RootNode(x.at)
Comparable(s, t) == IsPrefix(s, t) \/ IsPrefix(t, s)

Overlap(x, y) ==
    IF IsRaw(x) THEN IsPrefix(Bytes(x), Bytes(y)) \/ (IsRaw(y) /\ IsPrefix(Bytes(y), Bytes(x)))
    ELSE IF IsRaw(y) THEN IsPrefix(Bytes(y), Bytes(x))
    ELSE /\ x.at = y.at /\ Comparable(x.item, y.item)
         /\ AtMost(x.from, y.to) /\ AtMost(y.from, x.to)

\* Writes: a key set, ranges cleared, content stored.
SetKey(key, value) == [op |-> "set", extents |-> {Exactly(key)}, key |-> key, value |-> value]
Clear(extents) == [op |-> "clear", extents |-> extents]
Content(prefix) == [op |-> "content", extents |-> {Raw(prefix)}]

Applied(db, w) ==
    CASE w.op = "set" ->
            [db EXCEPT !.meta = [k \in DOMAIN @ \cup {w.key} |->
                                    IF k = w.key THEN w.value ELSE @[k]]]
      [] w.op = "clear" ->
            LET Cleared(key) == \E x \in w.extents : Overlap(x, Exactly(key))
            IN  [meta |-> [k \in {k \in DOMAIN db.meta : ~Cleared(k)} |-> db.meta[k]],
                 data |-> {p \in db.data : ~\E x \in w.extents : IsRaw(x) /\ IsPrefix(x.at, p)}]
      [] w.op = "content" -> [db EXCEPT !.data = @ \cup {x.at : x \in w.extents}]

\* The writes of a transaction, in their order.
AllApplied(db, writes) ==
    LET after[i \in 0 .. Len(writes)] == IF i = 0 THEN db ELSE Applied(after[i - 1], writes[i])
    IN  after[Len(writes)]

-----------------------------------------------------------------------------
(* The execution of an operation: the store as the transaction sees it,    *)
(* what it read and wrote, the directory it returns, and the prefixes that  *)
(* were chosen for new ones.                                               *)

Started(db) == [db |-> db, reads |-> {}, writes |-> <<>>, result |-> "ok",
                prefix |-> <<>>, layer |-> "", prefixes |-> <<>>]

Reading(e, extents) == [e EXCEPT !.reads = @ \cup extents]
Writing(e, w) == [e EXCEPT !.db = Applied(@, w), !.writes = Append(@, w)]
Failing(e, err) == [e EXCEPT !.result = err]
Ok(e) == e.result = "ok"

Has(e, key) == key \in DOMAIN e.db.meta
LayerOf(db, L, node) == IF LayerKey(L, node) \in DOMAIN db.meta THEN db.meta[LayerKey(L, node)] ELSE ""

-----------------------------------------------------------------------------
(* find, and where it stopped.                                             *)

Found(f) == f.node # None

\* One name further, unless a name was not found or led to a partition.
Further(db, L, path, at) ==
    LET key == SubKey(L, at.node, path[at.depth + 1])
        reads == at.reads \cup {Exactly(key)}
        node == db.meta[key]
    IN  IF ~Found(at) \/ (at.depth > 0 /\ at.layer = Partition) THEN at
        ELSE IF key \notin DOMAIN db.meta THEN [at EXCEPT !.node = None, !.reads = reads]
        ELSE [node |-> node, depth |-> at.depth + 1, layer |-> LayerOf(db, L, node),
              reads |-> reads \cup {Exactly(LayerKey(L, node))}]

Walk(db, L, path, start) ==
    LET at[i \in 0 .. Len(path)] == IF i = 0 THEN start ELSE Further(db, L, path, at[i - 1])
    IN  at[Len(path)]

Find_Snapshot(db, L, path) ==
    LET start == [node |-> RootNode(L), depth |-> 0, layer |-> LayerOf(db, L, RootNode(L)), reads |-> {}]
    IN  [Walk(db, L, path, start) EXCEPT !.reads = {}]

\* The walk stops at the first partition on the path.
Find(db, L, path) ==
    LET start == [node |-> RootNode(L), depth |-> 0, layer |-> LayerOf(db, L, RootNode(L)),
                  reads |-> IF path = <<>> THEN {Exactly(LayerKey(L, RootNode(L)))} ELSE {}]
    IN  Walk(db, L, path, start)

IsInPartition(f, path) == Found(f) /\ f.layer = Partition /\ f.depth < Len(path)
Subpath(f, path) == SubSeq(path, f.depth + 1, Len(path))

CheckVersion_MajorOnly(e, L, allowCreation) ==
    IF ~Has(e, VersionKey(L))
    THEN IF allowCreation THEN Writing(e, SetKey(VersionKey(L), "current")) ELSE e
    ELSE IF e.db.meta[VersionKey(L)] = "major" THEN Failing(e, "Version") ELSE e

\* check_version: newer layers are not read, or read only; none is initialised
\* by the first operation that may write.
CheckVersion(e, L, allowCreation) ==
    LET read == Reading(e, {Exactly(VersionKey(L))})
        version == e.db.meta[VersionKey(L)]
    IN  IF ~Has(e, VersionKey(L))
        THEN IF allowCreation THEN Writing(read, SetKey(VersionKey(L), "current")) ELSE read
        ELSE IF version = "major" \/ (version = "minor" /\ allowCreation)
             THEN Failing(read, "Version") ELSE read

\* An operation on a path, and the layer it has come to: a partition on the path
\* forwards it to the layer inside.
Place(e, L, path) == [e |-> e, at |-> L, path |-> path]
Forwarded(place, allowCreation) ==
    LET versioned == CheckVersion(place.e, place.at, allowCreation)
        f == Find(versioned.db, place.at, place.path)
    IN  IF Ok(versioned) /\ IsInPartition(f, place.path)
        THEN Place(Reading(versioned, f.reads), f.node, Subpath(f, place.path)) ELSE place

\* How often at most: a forward takes a name off the path and leaves one.
Forwards(path) == IF Len(path) = 0 THEN 0 ELSE Len(path) - 1

Innermost(e, L, path, allowCreation) ==
    LET place[i \in 0 .. Forwards(path)] ==
            IF i = 0 THEN Place(e, L, path) ELSE Forwarded(place[i - 1], allowCreation)
    IN  place[Forwards(path)]

-----------------------------------------------------------------------------
(* Creation.                                                               *)

\* The allocator hands out what no visible transaction was handed out: the
\* candidate is read, and set, in conflict with other allocations of it.
Allocated(e, L, c) ==
    IF Has(e, HcaKey(L, c)) THEN Failing(e, "taken")
    ELSE Writing(Reading(e, {Exactly(HcaKey(L, c))}), SetKey(HcaKey(L, c), TRUE))

Holds(db, prefix) ==
    \/ \E p \in db.data : IsPrefix(prefix, p)
    \/ \E k \in DOMAIN db.meta : Overlap(Raw(prefix), Exactly(k))

\* get_prefix: nothing may be stored under an allocated prefix.
GetPrefix(e, L, prefix, c) ==
    IF prefix # None THEN [e EXCEPT !.prefix = prefix]
    ELSE LET new == Append(L, c)
             allocated == Allocated(e, L, c)
             read == Reading(allocated, {Raw(new)})
         IN  IF ~Ok(allocated) THEN allocated
             ELSE IF Holds(allocated.db, new) THEN Failing(read, "PrefixNotEmpty")
             ELSE [read EXCEPT !.prefix = new]

Nodes(db, L) == {k.node : k \in {k \in DOMAIN db.meta : k.at = L}}

\* is_prefix_free, node_containing_key: the node just before the prefix must not
\* start it, and no node may start with it.
CheckPrefixFree(e, L, snapshot) ==
    LET prefix == e.prefix
        before == {n \in Nodes(e.db, L) : AtMost(n, prefix)}
        last == CHOOSE n \in before : \A m \in before : AtMost(m, n)
        inside == {n \in Nodes(e.db, L) : IsPrefix(prefix, n)}
        reads == {Extent(L, IF before = {} THEN <<>> ELSE last, prefix, <<>>),
                  Extent(L, prefix, prefix \o <<FE, FE>>, <<>>)}
        read == IF snapshot THEN e ELSE Reading(e, reads)
    IN  IF prefix = <<>> \/ IsPrefix(RootNode(L), prefix) THEN Failing(e, "DirectoryPrefixInUse")
        ELSE IF (before # {} /\ IsPrefix(last, prefix)) \/ inside # {}
        THEN Failing(read, "DirectoryPrefixInUse") ELSE read

\* The prefix of a directory that is created, and its node.
ChoosePrefix(e, L, prefix, c) ==
    LET versioned == CheckVersion(e, L, TRUE)
        chosen == GetPrefix(versioned, L, prefix, c)
    IN  IF ~Ok(versioned) THEN versioned
        ELSE IF ~Ok(chosen) THEN chosen
        ELSE [CheckPrefixFree(chosen, L, prefix = None) EXCEPT !.prefixes = Append(@, chosen.prefix)]
Link(e, L, parent, name, prefix, layer) ==
    Writing(Writing(e, SetKey(SubKey(L, parent, name), prefix)), SetKey(LayerKey(L, prefix), layer))

\* A parent is looked up like a directory that may be created.
Looked(e, L, path) == Reading(CheckVersion(e, L, FALSE), Find(e.db, L, path).reads)
ChooseFor(e, L, path, c) ==
    IF Ok(e) THEN ChoosePrefix(Looked(e, L, path), L, None, c) ELSE e

\* The prefixes of a directory and of its ancestors that are missing, its own first.
ChooseAll(e, L, path, missing, prefix, picks) ==
    LET chosen[i \in 0 .. missing] ==
            LET n == Len(path) + 1 - i
            IN  IF i = 0 THEN e
                ELSE IF i = 1 THEN ChoosePrefix(chosen[i - 1], L, prefix, picks[n])
                ELSE ChooseFor(chosen[i - 1], L, SubSeq(path, 1, n), picks[n])
    IN  chosen[missing]

\* Their nodes, its own last, below the one that was found.
LinkAll(e, L, path, missing, node, layer) ==
    LET Node(i) == IF i = 0 THEN node ELSE e.prefixes[missing + 1 - i]
        linked[i \in 0 .. missing] ==
            IF i = 0 THEN e
            ELSE Link(linked[i - 1], L, Node(i - 1), path[Len(path) - missing + i], Node(i),
                      IF i < missing \/ layer = None THEN "" ELSE layer)
    IN  linked[missing]

\* Once their prefixes are chosen, the nodes are linked.
Created(all, L, path, found, layer) ==
    LET parent == SubSeq(path, 1, found)
        created == LinkAll(IF found = 0 THEN all ELSE Looked(all, L, parent), L, path,
                           Len(path) - found, Find(all.db, L, parent).node, layer)
        own == all.prefixes[1]
    IN  IF ~Ok(all) THEN all
        ELSE [created EXCEPT !.prefix = own, !.layer = LayerOf(created.db, L, own)]

\* create_internal: a prefix is chosen and checked before the parents are
\* created, and its node written after.
CreateInternal(e, L, path, prefix, layer, allowCreate, picks) ==
    LET found == Find(e.db, L, path).depth
    IN  IF ~allowCreate THEN Failing(e, "DirectoryDoesNotExists")
        ELSE Created(ChooseAll(e, L, path, Len(path) - found, prefix, picks),
                     L, path, found, layer)

\* open_internal.
OpenInternal(e, f, layer, allowOpen) ==
    IF ~allowOpen THEN Failing(e, "DirAlreadyExists")
    ELSE IF layer \notin {None, "", f.layer} THEN Failing(e, "IncompatibleLayer")
    ELSE [e EXCEPT !.prefix = f.node, !.layer = f.layer]

CreateOrOpenHere(e, L, path, prefix, layer, allowCreate, allowOpen, picks) ==
    LET versioned == CheckVersion(e, L, FALSE)
        f == Find(versioned.db, L, path)
        found == Reading(versioned, f.reads)
    IN  IF ~Ok(versioned) THEN versioned
        ELSE IF prefix # None /\ (Manual = {} \/ L # Root) THEN Failing(versioned, "PrefixNotAllowed")
        ELSE IF path = <<>> THEN Failing(versioned, "NoPathProvided")
        ELSE IF Found(f) THEN OpenInternal(found, f, layer, allowOpen)
        ELSE CreateInternal(found, L, path, prefix, layer, allowCreate, picks)

CreateOrOpen(e, L, path, prefix, layer, allowCreate, allowOpen, picks) ==
    LET last == Innermost(e, L, path, FALSE)
    IN  CreateOrOpenHere(last.e, last.at, last.path, prefix, layer, allowCreate, allowOpen, picks)

-----------------------------------------------------------------------------
(* Moving and removing.                                                    *)

SubKeys(db, L, node) ==
    {k \in DOMAIN db.meta : k.node = node /\ k.at = L /\ k.item[1] = "sub"}

RemoveFromParent(e, L, path) ==
    LET parent == Find(e.db, L, Front(path))
        read == Reading(e, parent.reads)
    IN  IF Found(parent)
        THEN Writing(read, Clear({Exactly(SubKey(L, parent.node, Last(path)))})) ELSE read

\* A move within a partition is forwarded to the layer inside.
MovePlace(e, L, old, new) == [e |-> e, at |-> L, old |-> old, new |-> new]
MoveForwarded(place) ==
    LET versioned == CheckVersion(place.e, place.at, TRUE)
        fo == Find(versioned.db, place.at, place.old)
        fn == Find(versioned.db, place.at, place.new)
    IN  IF /\ Ok(versioned) /\ ~IsPrefix(place.old, place.new)
           /\ IsInPartition(fo, place.old) /\ IsInPartition(fn, place.new)
           /\ SubSeq(place.old, 1, fo.depth) = SubSeq(place.new, 1, fn.depth)
        THEN MovePlace(Reading(versioned, fo.reads \cup fn.reads), fn.node,
                       Subpath(fo, place.old), Subpath(fn, place.new))
        ELSE place

MoveHere(e, L, old, new) ==
    LET versioned == CheckVersion(e, L, TRUE)
        fo == Find(versioned.db, L, old)
        fn == Find(versioned.db, L, new)
        both == Reading(versioned, fo.reads \cup fn.reads)
        parent == Find(versioned.db, L, Front(new))
        read == Reading(both, parent.reads)
        set == Writing(read, SetKey(SubKey(L, parent.node, Last(new)), fo.node))
    IN  IF ~Ok(versioned) THEN versioned
        ELSE IF IsPrefix(old, new) THEN Failing(versioned, "CannotMoveBetweenSubdirectory")
        ELSE IF ~Found(fo) THEN Failing(both, "PathDoesNotExists")
        ELSE IF IsInPartition(fo, old) \/ IsInPartition(fn, new)
        THEN Failing(both, "CannotMoveBetweenPartition")
        ELSE IF Found(fn) THEN Failing(both, "DirAlreadyExists")
        ELSE IF ~Found(parent) THEN Failing(read, "ParentDirDoesNotExists")
        ELSE RemoveFromParent(set, L, old)

InnermostMove(e, L, old, new) ==
    LET place[i \in 0 .. Forwards(old)] ==
            IF i = 0 THEN MovePlace(e, L, old, new) ELSE MoveForwarded(place[i - 1])
    IN  place[Forwards(old)]

MoveTo(e, L, old, new) ==
    LET last == InnermostMove(e, L, old, new)
    IN  MoveHere(last.e, last.at, last.old, last.new)

\* A directory and all below it in its layer, one generation after the other.
WithChildren(db, L, nodes) == nodes \cup UNION {{db.meta[k] : k \in SubKeys(db, L, n)} : n \in nodes}
Family(db, L, node) ==
    LET family[i \in 0 .. Cardinality(DOMAIN db.meta)] ==
            IF i = 0 THEN {node} ELSE WithChildren(db, L, family[i - 1])
    IN  family[Cardinality(DOMAIN db.meta)]

RemoveRecursive_Snapshot(e, L, node) ==
    LET family == Family(e.db, L, node)
    IN  Writing(e, Clear({Raw(n) : n \in family} \cup {AllOf(L, n) : n \in family}))

\* Every directory below, its content, a partition's inner layer included.
RemoveRecursive(e, L, node) ==
    LET family == Family(e.db, L, node)
    IN  Writing(Reading(e, {SubDirs(L, n) : n \in family}),
                Clear({Raw(n) : n \in family} \cup {AllOf(L, n) : n \in family}))

RemoveHere(e, L, path, failOnNonexistent) ==
    LET versioned == CheckVersion(e, L, TRUE)
        f == Find(versioned.db, L, path)
        read == Reading(versioned, f.reads)
    IN  IF ~Ok(versioned) THEN versioned
        ELSE IF path = <<>> THEN Failing(versioned, "CannotModifyRootDirectory")
        ELSE IF ~Found(f)
        THEN IF failOnNonexistent THEN Failing(read, "DirectoryDoesNotExists") ELSE read
        ELSE RemoveFromParent(RemoveRecursive(read, L, f.node), L, path)

RemoveTree(e, L, path, failOnNonexistent) ==
    LET last == Innermost(e, L, path, TRUE)
    IN  RemoveHere(last.e, last.at, last.path, failOnNonexistent)

-----------------------------------------------------------------------------
(* Transactions.                                                           *)

Path == UNION {[1 .. n -> Name] : n \in 1 .. MaxDepth}

\* Content stored in an opened directory, which a partition refuses to hold.
Packed(opened) ==
    IF ~Ok(opened) THEN opened
    ELSE IF opened.layer = Partition THEN Failing(opened, "CannotPackDirectoryPartition")
    ELSE Writing(opened, Content(opened.prefix))
StoreIn(e, path) == Packed(CreateOrOpen(e, Root, path, None, None, FALSE, TRUE, <<>>))

Idle == [reads |-> {}, writes |-> <<>>]

\* An operation that wrote nothing, because it failed or had nothing to do,
\* leaves nothing to commit; one that failed half way may be committed.
Run(c, e) ==
    /\ e.result # "taken" /\ e.writes # <<>>
    /\ txn' = [txn EXCEPT ![c] = [reads |-> e.reads, writes |-> e.writes]]
    /\ UNCHANGED store

CreateDirectory(c) ==
    /\ txn[c] = Idle
    /\ \E path \in Path, layer \in {"", Partition}, prefix \in Manual \cup {None} :
        \E picks \in [1 .. Len(path) -> Candidate] :
            Run(c, CreateOrOpen(Started(store), Root, path, prefix, layer, TRUE, TRUE, picks))

MoveDirectory(c) ==
    /\ txn[c] = Idle
    /\ \E old, new \in Path : Run(c, MoveTo(Started(store), Root, old, new))

RemoveDirectory(c) ==
    /\ txn[c] = Idle
    /\ \E path \in Path : Run(c, RemoveTree(Started(store), Root, path, TRUE))

StoreContent(c) ==
    /\ txn[c] = Idle /\ Cardinality(store.data) < MaxContent
    /\ \E path \in Path : Run(c, StoreIn(Started(store), path))

Conflict(reads, writes) ==
    \E r \in reads, i \in DOMAIN writes : \E x \in writes[i].extents : Overlap(r, x)

\* A transaction that read what this one writes can only fail to commit now,
\* which changes nothing: it is dropped at once.  One whose client gives up
\* changes nothing either and is as if it had never begun.
Commit(c) ==
    /\ txn[c] # Idle
    /\ store' = AllApplied(store, txn[c].writes)
    /\ txn' = [d \in Client |->
            IF d = c \/ Conflict(txn[d].reads, txn[c].writes) THEN Idle ELSE txn[d]]

-----------------------------------------------------------------------------
\* A new database, or one used with another version of the directory, which made
\* a directory.
Fresh == [meta |-> <<>>, data |-> {}]
Used(version, name, c) ==
    LET e == CreateOrOpen(Started(Fresh), Root, <<name>>, None, "", TRUE, TRUE, <<c>>)
    IN  Applied(e.db, SetKey(VersionKey(Root), version))

Init ==
    /\ \/ "new" \in Versions /\ store = Fresh
       \/ \E v \in Versions \ {"new"}, n \in Name, c \in Candidate : store = Used(v, n, c)
    /\ txn = [c \in Client |-> Idle]

Next ==
    \E c \in Client :
        \/ CreateDirectory(c) \/ MoveDirectory(c) \/ RemoveDirectory(c)
        \/ StoreContent(c) \/ Commit(c)

Spec == Init /\ [][Next]_vars

-----------------------------------------------------------------------------
\* check_version, "read-only when opened using directory layer": no operation
\* changes a directory of a newer minor version, though content may be stored in
\* it, and none does anything to one of a newer major version.
NewerVersionUntouched ==
    [][VersionKey(Root) \in DOMAIN store.meta =>
        /\ store.meta[VersionKey(Root)] # "current" => store'.meta = store.meta
        /\ store.meta[VersionKey(Root)] = "major" => store' = store]_vars
=============================================================================
