----------------------- MODULE DirectoryInstructions -----------------------
(***************************************************************************)
(* The directory instructions of the binding tester's stack machine.       *)
(* Other instructions name a directory by its place in the directory list, *)
(* so the list must grow by one for every instruction that makes a         *)
(* directory or a subspace, whether it succeeds or fails, and however many *)
(* attempts its transaction takes.                                         *)
(*                                                                         *)
(* A program is any sequence of instructions that panics nowhere: it works *)
(* on an active transaction, uses a directory where one is needed, and     *)
(* gives an error index that is not null.  What the directory layer        *)
(* answers is any outcome; see Directory for the layer itself.             *)
(***************************************************************************)
EXTENDS Naturals, Sequences

CONSTANTS
    MaxList,        \* bound: entries of the directory list
    MaxAttempts     \* bound: attempts of one database operation

VARIABLES
    directory_stack,    \* the directory list
    directory_index,    \* the current directory, from 0
    error_index,        \* used instead of a null one
    pushed,             \* what the last instruction pushed on the stack
    running,            \* attempts of the operation run on the database, or 0
    created             \* instructions that append to the directory list

directoryvars == <<directory_stack, directory_index, error_index, pushed, running, created>>

-----------------------------------------------------------------------------
Output == {"DirectorySubspace", "DirectoryPartition"}

ListEntry(index) == directory_stack[index + 1]
Exists(index) == index < Len(directory_stack)

get_current_directory_item == IF Exists(directory_index) THEN ListEntry(directory_index) ELSE "Null"
CurrentDirectory == get_current_directory_item \in {"Directory"} \cup Output
\* The items that have bytes of their own: pack, unpack, range, contains.
CurrentSubspace == get_current_directory_item \in {"Subspace", "DirectorySubspace"}

\* The instructions whose failure appends a null, and those that append.
Making == {"create_subspace", "create_or_open", "create_layer", "create", "open", "move",
           "move_to", "open_subspace"}
OnDirectory == {"create", "open", "create_or_open", "move", "move_to"}

Idle == running = 0

Appends(items, out) ==
    /\ Len(directory_stack) + Len(items) <= MaxList
    /\ directory_stack' = directory_stack \o items
    /\ pushed' = out

push_directory_err_NoNull(code) == Appends(<<>>, <<"DIRECTORY_ERROR">>)

\* An error is pushed on the stack, and a null on the list if an instruction
\* that works would have appended there.
push_directory_err(code) ==
    Appends(IF code \in Making THEN <<"Null">> ELSE <<>>, <<"DIRECTORY_ERROR">>)

Counted(code) ==
    /\ created' = IF code \in Making THEN created + 1 ELSE created
    /\ running' = 0
    /\ UNCHANGED <<directory_index, error_index>>

-----------------------------------------------------------------------------
(* Instructions on the directory layer.  Those run on the database may    *)
(* be preceded by attempts.                                                *)

\* directory_operation: in the current transaction, or with _DATABASE in
\* Database::run, which may try it several times and publishes one result.
DirectoryOperation(code, out) ==
    /\ CurrentDirectory
    /\ \/ \E item \in Output :
            Appends(IF code \in OnDirectory THEN <<item>> ELSE <<>>, out)
       \/ push_directory_err(code)
    /\ Counted(code)
Attempt ==
    /\ CurrentDirectory /\ running < MaxAttempts
    /\ running' = running + 1
    /\ UNCHANGED <<directory_stack, directory_index, error_index, pushed, created>>

Create == DirectoryOperation("create", <<>>)
Open == DirectoryOperation("open", <<>>)
CreateOrOpen == DirectoryOperation("create_or_open", <<>>)
Move == DirectoryOperation("move", <<>>)
MoveTo == DirectoryOperation("move_to", <<>>)
RemoveDirectory == DirectoryOperation("remove", <<>>)
RemoveIfExists == DirectoryOperation("remove_if_exists", <<>>)
List == DirectoryOperation("list", <<"value">>)
DirectoryExists == DirectoryOperation("exists", <<"value">>)

CreateSubspace ==
    /\ Idle
    /\ Appends(<<"Subspace">>, <<>>)
    /\ Counted("create_subspace")

\* Both indices must lead to subspaces; an index past the list gives a null.
CreateLayer(node, content) ==
    /\ Idle
    /\ IF Exists(node) /\ Exists(content)
       THEN /\ ListEntry(node) = "Subspace" /\ ListEntry(content) = "Subspace"
            /\ Appends(<<"Directory">>, <<>>)
       ELSE Appends(<<"Null">>, <<>>)
    /\ Counted("create_layer")

\* open_subspace, pack, unpack, range, contains and strip_prefix need bytes.
OpenSubspace ==
    /\ Idle
    /\ IF CurrentSubspace
       THEN Appends(<<"Subspace">>, <<>>) ELSE push_directory_err("open_subspace")
    /\ Counted("open_subspace")

OnSubspace(code, out) ==
    /\ Idle
    /\ IF CurrentSubspace THEN Appends(<<>>, out) ELSE push_directory_err(code)
    /\ Counted(code)
PackInSubspace == OnSubspace("pack_key", <<"value">>)
UnpackKey(n) == OnSubspace("unpack_key", [i \in 1 .. n |-> "value"])
DirectoryRange == OnSubspace("range", <<"value", "value">>)
ContainsKey == OnSubspace("contains", <<"value">>)
StripPrefix(matches) ==
    IF matches THEN OnSubspace("strip_prefix", <<"value">>)
    ELSE Idle /\ push_directory_err("strip_prefix") /\ Counted("strip_prefix")

\* The key of the current subspace is written; a partition's root has none.
LogSubspace ==
    /\ Idle
    /\ CurrentSubspace \/ get_current_directory_item = "DirectoryPartition"
    /\ IF CurrentSubspace THEN Appends(<<>>, <<>>) ELSE push_directory_err("log_subspace")
    /\ Counted("log_subspace")
\* The path, layer, existence and children of the current directory are written.
LogDirectory ==
    /\ Idle /\ CurrentDirectory
    /\ Appends(<<>>, <<>>)
    /\ Counted("log_directory")

-----------------------------------------------------------------------------
(* The current directory.                                                  *)

Change(index) ==
    /\ Idle
    /\ directory_index' =
        IF Exists(index) /\ ListEntry(index) # "Null" THEN index ELSE error_index
    /\ pushed' = <<>>
    /\ UNCHANGED <<directory_stack, error_index, running, created>>

SetErrorIndex(index) ==
    /\ Idle /\ Exists(index) /\ ListEntry(index) # "Null"
    /\ error_index' = index
    /\ pushed' = <<>>
    /\ UNCHANGED <<directory_stack, directory_index, running, created>>

DirectoryInit ==
    /\ directory_stack = <<"Directory">>
    /\ directory_index = 0 /\ error_index = 0
    /\ pushed = <<>> /\ running = 0 /\ created = 0

Index == 0 .. MaxList

DirectoryNext ==
    \/ Create
    \/ Open
    \/ CreateOrOpen
    \/ Move
    \/ MoveTo
    \/ RemoveDirectory
    \/ RemoveIfExists
    \/ List
    \/ DirectoryExists
    \/ Attempt
    \/ CreateSubspace
    \/ \E node, content \in Index : CreateLayer(node, content)
    \/ OpenSubspace
    \/ PackInSubspace
    \/ \E n \in 0 .. 2 : UnpackKey(n)
    \/ DirectoryRange
    \/ ContainsKey
    \/ \E matches \in BOOLEAN : StripPrefix(matches)
    \/ LogSubspace
    \/ LogDirectory
    \/ \E index \in Index : Change(index) \/ SetErrorIndex(index)

DirectorySpec == DirectoryInit /\ [][DirectoryNext]_directoryvars

-----------------------------------------------------------------------------
(* Properties.                                                             *)

\* push_directory_err, DIRECTORY_CHANGE: the directory list has one entry for each
\* instruction that makes a directory, failed or retried as it may be, so that
\* indices in the program keep naming the directories it means; and the current
\* one is an entry of the list and never null.
ListInStep ==
    /\ Len(directory_stack) = created + 1
    /\ Exists(directory_index) /\ get_current_directory_item # "Null"
=============================================================================
