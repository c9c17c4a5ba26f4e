---------------------------- MODULE DirectoryView ----------------------------
(***************************************************************************)
(* What the clients of the directory layer see of its store: the answers of *)
(* exists and list, and the tree of directories that the store represents.  *)
(***************************************************************************)
EXTENDS Directory

-----------------------------------------------------------------------------
(* Looking up.  A look-up answers, or fails with an error.                 *)

Answer(value) == [result |-> "ok", value |-> value]
Refused(err) == [result |-> err]

Checked_NotRead(db, L) == Started(db)

\* A look-up checks the version of each layer it comes to.
Checked(db, L) == CheckVersion(Started(db), L, FALSE)

RECURSIVE Exists(_, _, _), List(_, _, _)
Exists(db, L, path) ==
    LET f == Find(db, L, path)
    IN  IF ~Ok(Checked(db, L)) THEN Refused(Checked(db, L).result)
        ELSE IF IsInPartition(f, path) THEN Exists(db, f.node, Subpath(f, path))
        ELSE Answer(Found(f))

SubFolders(db, L, node) == Answer({k.item[2] : k \in SubKeys(db, L, node)})

List_Outer(db, L, path) ==
    LET f == Find(db, L, path)
    IN  IF ~Ok(Checked(db, L)) THEN Refused(Checked(db, L).result)
        ELSE IF ~Found(f) THEN Refused("PathDoesNotExists")
        ELSE IF IsInPartition(f, path) THEN List(db, f.node, Subpath(f, path))
        ELSE SubFolders(db, L, f.node)

\* A partition lists the root of its inner layer.
List(db, L, path) ==
    LET f == Find(db, L, path)
    IN  IF ~Ok(Checked(db, L)) THEN Refused(Checked(db, L).result)
        ELSE IF ~Found(f) THEN Refused("PathDoesNotExists")
        ELSE IF f.layer = Partition THEN List(db, f.node, Subpath(f, path))
        ELSE SubFolders(db, L, f.node)

-----------------------------------------------------------------------------
(* The tree the store represents.                                          *)

RECURSIVE Below(_, _, _, _, _)
Below(db, L, node, path, fuel) ==
    LET children == {
            [path |-> Append(path, k.item[2]), prefix |-> db.meta[k],
             partition |-> LayerOf(db, L, db.meta[k]) = Partition,
             data |-> db.meta[k] \in db.data] : k \in SubKeys(db, L, node)}
    IN  IF fuel = 0 THEN {}
        ELSE UNION {
            {d} \cup IF d.partition THEN Below(db, d.prefix, RootNode(d.prefix), d.path, fuel - 1)
                     ELSE Below(db, L, d.prefix, d.path, fuel - 1) : d \in children}

\* Its depth is bounded lest a store with a cycle be walked for ever.
Tree(db) == Below(db, Root, RootNode(Root), <<>>, Cardinality(DOMAIN db.meta))

Abstract == INSTANCE DirectoryTree WITH tree <- Tree(store)

\* Directory operations are transactional: whatever runs concurrently, each
\* commit is one operation on one tree whose directories keep their prefixes,
\* their content and what is below them, and share no key with any other.
ImplementsTree == Abstract!Spec

\* No operation leaves behind nodes, or content, that no path leads to: what a
\* removed directory held is not found by a later one.
NothingOrphaned ==
    LET tree == Tree(store)
        owners == {d.prefix : d \in tree}
    IN  /\ \A k \in DOMAIN store.meta :
            /\ k.node \in owners \cup {RootNode(k.at)}
            /\ k.at \in owners \cup {Root}
        /\ store.data \subseteq owners

\* Directory::exists and Directory::list answer for the paths of the tree,
\* through partitions and without them, and list fails for any other path; in a
\* directory of a newer major version, which may not be read, both fail for
\* every path.
LookupsAgree ==
    LET paths == {d.path : d \in Tree(store)}
        readable == LET v == VersionKey(Root) IN v \in DOMAIN store.meta => store.meta[v] # "major"
        Names(path) == {Last(q) : q \in {q \in paths : Front(q) = path}}
    IN  \A path \in Path \cup {<<>>} :
        LET known == path \in paths \cup {<<>>}
        IN  /\ Exists(store, Root, path) =
                IF readable THEN Answer(known) ELSE Refused("Version")
            /\ List(store, Root, path) =
                IF ~readable THEN Refused("Version")
                ELSE IF known THEN Answer(Names(path)) ELSE Refused("PathDoesNotExists")
=============================================================================
