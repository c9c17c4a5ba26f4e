---------------------------- MODULE DirectoryTree ----------------------------
(***************************************************************************)
(* What the directory layer promises: one tree of directories, each with a *)
(* prefix of its own for its content, changed by one operation at a time.  *)
(* A partition is a directory whose descendants have prefixes inside its   *)
(* own, and which no directory is moved into or out of.                    *)
(*                                                                         *)
(* An operation is a relation between the tree t before it and u after it. *)
(***************************************************************************)
EXTENDS Naturals, Sequences, SequencesExt

CONSTANT Path           \* the paths operations are asked for

VARIABLE tree           \* the directories, as [path, prefix, partition, data]

-----------------------------------------------------------------------------
Paths(t) == {d.path : d \in t}
Ancestors(path) == {SubSeq(path, 1, i) : i \in 1 .. Len(path) - 1}
Subtree(t, path) == {d \in t : IsPrefix(path, d.path)}

\* The partitions a path is in.
Homes(t, path) == {d \in t : d.partition /\ IsStrictPrefix(d.path, path)}

\* Every key belongs to one directory: a prefix starts another only if that
\* other is below the partition it belongs to.
OwnPrefixes(t) ==
    \A d, e \in t : d # e =>
        (IsPrefix(d.prefix, e.prefix) <=> d.partition /\ IsStrictPrefix(d.path, e.path))

\* A directory and its missing ancestors appear, empty; only the directory
\* itself may be a partition.
Create(t, u, path) ==
    LET new == u \ t
    IN  /\ t \subseteq u
        /\ Paths(new) = ({path} \cup Ancestors(path)) \ Paths(t)
        /\ \A d \in new : ~d.data /\ (d.partition => d.path = path)
        /\ OwnPrefixes(u)

\* A directory and all below it change their paths and nothing else, their
\* parent exists, and they stay in the partition they are in.
Move(t, u, old, new) ==
    LET Moved(d) == [d EXCEPT !.path = new \o SubSeq(@, Len(old) + 1, Len(@))]
    IN  /\ ~IsPrefix(old, new)
        /\ Len(new) > 1 => Front(new) \in Paths(t)
        /\ Homes(t, old) = Homes(t, new)
        /\ u = (t \ Subtree(t, old)) \cup {Moved(d) : d \in Subtree(t, old)}

\* A directory and all below it disappear with their content.
Delete(t, u, path) == u = t \ Subtree(t, path)

\* Content is stored in a directory that is no partition.
Fill(t, u, path) ==
    \E d \in t :
        /\ d.path = path /\ ~d.partition
        /\ u = (t \ {d}) \cup {[d EXCEPT !.data = TRUE]}

\* Only what is not there is created or moved to.
Operation(t, u) ==
    LET there == Path \cap Paths(t)
        free == Path \ Paths(t)
    IN  \/ \E path \in free : Create(t, u, path)
        \/ \E path \in there, new \in free : Move(t, u, path, new)
        \/ \E path \in there : Delete(t, u, path) \/ Fill(t, u, path)

-----------------------------------------------------------------------------
\* No directory, or those an earlier user of the database left.
Init ==
    /\ \A path \in Paths(tree) : Ancestors(path) \subseteq Paths(tree)
    /\ OwnPrefixes(tree)

Next == \E t \in {tree}, u \in {tree'} : u # t /\ Operation(t, u)

Spec == Init /\ [][Next]_tree
=============================================================================
