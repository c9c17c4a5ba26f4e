--------------------------- MODULE ProfileReader ---------------------------
(***************************************************************************)
(* Paged reading of the client profiling keyspace (reader.rs of            *)
(* foundationdb-profiling).  Clients append the chunks of their sampled    *)
(* transactions, in one commit or in two, with rows of other transactions  *)
(* in between; a commit whose result was unknown may be written again.  A  *)
(* page reads the rows from its cursor on, in a snapshot, reassembles the  *)
(* transactions and says where the next page starts.  The caller may stop  *)
(* it after any row, and its read may fail.                                *)
(*                                                                         *)
(* Rows are numbered in key order, which is the order they are written in, *)
(* since a later commit has a greater versionstamp.  A key is such a       *)
(* number, a cursor the number of the next row to read.                    *)
(***************************************************************************)
EXTENDS Integers, Sequences, FiniteSets

CONSTANTS
    Ids,            \* ids of transactions, numbers in key order
    Total,          \* chunks of each
    Undecodable,    \* ids of transactions whose blob does not decode
    MaxRows,        \* bound: rows written
    MaxCommits,     \* bound: commits of the clients
    None            \* Option::None

ASSUME IdsAssumption == Ids \subseteq Nat /\ Undecodable \subseteq Ids
ASSUME TotalAssumption == Total \in [Ids -> Nat \ {0}]
ASSUME BoundAssumption == MaxRows \in Nat /\ MaxCommits \in Nat

\* The transactions a page has begun to reassemble, and what it made of others.
Partial == [first : Nat, total : Nat, next_chunk : Nat, last_version : Nat]
Output == [first : Nat, last : Nat, id : Ids, complete : BOOLEAN]
Page == [start : Nat, next : Nat, end : Nat, partials : [Ids -> Partial \cup {None}],
         broken : [Ids -> Nat], outputs : Seq(Output)]

ASSUME NoneAssumption == None \notin Ids \cup Partial \cup Page

VARIABLES
    rows,       \* the keyspace, in key order
    cursor,     \* where the next page starts
    first,      \* where the scan started
    page,       \* the page being read: the Assembler and its range, or None
    returned,   \* how often the transaction that starts at a row was returned
    skipped     \* transactions reported as broken or undecodable

vars == <<rows, cursor, first, page, returned, skipped>>

-----------------------------------------------------------------------------
(* Rows and reports.                                                       *)

Chunk == 1 .. MaxRows

\* The reference: a whole transaction starts at a row that is its chunk 1 and
\* goes on through the next rows of its id, chunk after chunk.
LaterRows(i) == {j \in i + 1 .. Len(rows) : rows[j].id = rows[i].id}
Following(i, n) ==
    CHOOSE j \in LaterRows(i) : Cardinality({k \in LaterRows(i) : k <= j}) = n
Starts(i) == rows[i].id # None /\ rows[i].chunk = 1
Whole(i) ==
    /\ Starts(i) /\ Cardinality(LaterRows(i)) >= rows[i].total - 1
    /\ \A n \in 1 .. rows[i].total - 1 :
        rows[Following(i, n)].chunk = n + 1 /\ rows[Following(i, n)].total = rows[i].total
LastRow(i) == IF rows[i].total = 1 THEN i ELSE Following(i, rows[i].total - 1)

-----------------------------------------------------------------------------
(* The clients.                                                            *)

Chunks(id, from, to) ==
    [n \in 1 .. to - from + 1 |-> [id |-> id, chunk |-> from + n - 1, total |-> Total[id],
                                   version |-> (IF rows = <<>> THEN 0
                                                ELSE rows[Len(rows)].version) + 1]]

\* How many chunks of a transaction its client has written, since it started.
Written(id) ==
    LET mine == {i \in 1 .. Len(rows) : rows[i].id = id}
    IN IF mine = {} THEN 0 ELSE rows[CHOOSE i \in mine : \A j \in mine : j <= i].chunk

\* A commit of one client: the rest of the transaction it flushes, or a part;
\* or all of it again.
Flush(id, from, to) ==
    /\ from \in {1, Written(id) + 1} /\ from <= to /\ to <= Total[id]
    /\ rows' = rows \o Chunks(id, from, to)
    /\ UNCHANGED <<cursor, first, page, returned, skipped>>

\* A key under the prefix that is not a chunk key.
WriteOther ==
    /\ rows' = Append(rows, [id |-> None, version |-> (IF rows = <<>> THEN 0
                                                       ELSE rows[Len(rows)].version) + 1])
    /\ UNCHANGED <<cursor, first, page, returned, skipped>>

Commits == IF rows = <<>> THEN 0 ELSE rows[Len(rows)].version
Commit ==
    /\ Commits < MaxCommits
    /\ \/ \E id \in Ids, from, to \in Chunk : Flush(id, from, to)
       \/ WriteOther
    /\ Len(rows') <= MaxRows

-----------------------------------------------------------------------------
(* A page: Assembler.                                                      *)

\* Cursor::at_version, before the first page: the first row of a version.
Seek(version) ==
    /\ page = None /\ cursor = 1
    /\ cursor' = 1 + Cardinality({i \in 1 .. Len(rows) : rows[i].version < version})
    /\ first' = cursor'
    /\ UNCHANGED <<rows, page, returned, skipped>>

\* ProfileScanner::range: the rows up to end_version, if it is set, that a
\* transaction sees when it starts to read.
StartPage(end_version) ==
    /\ page = None
    /\ page' = [start |-> cursor, next |-> cursor,
                end |-> LET below == Cardinality({i \in 1 .. Len(rows) :
                                                    rows[i].version < end_version})
                        IN IF below + 1 < cursor THEN cursor ELSE below + 1,
                partials |-> [id \in Ids |-> None], broken |-> [id \in Ids |-> 0],
                outputs |-> <<>>]
    /\ UNCHANGED <<rows, cursor, first, returned, skipped>>

\* report_broken: once per id, until a new chunk 1 of that id.
ReportBroken(p, from, id, key) ==
    IF p.broken[id] # 0 THEN [p EXCEPT !.outputs[p.broken[id]].last = key]
    ELSE [p EXCEPT !.broken[id] = Len(p.outputs) + 1,
                   !.outputs = Append(@, [first |-> from, last |-> key, id |-> id,
                                          complete |-> FALSE])]

Continues(partial, key) ==
    /\ partial # None
    /\ rows[key].total = partial.total /\ rows[key].chunk = partial.next_chunk
    /\ rows[key].version >= partial.last_version

Completed(p, from, key) ==
    [p EXCEPT !.outputs = Append(@, [first |-> from, last |-> key, id |-> rows[key].id,
                                     complete |-> TRUE])]

Extended_NotTaken(p, partial, key) ==
    LET id == rows[key].id
    IN IF rows[key].chunk = partial.total THEN Completed(p, partial.first, key)
       ELSE [p EXCEPT !.partials[id].next_chunk = @ + 1,
                      !.partials[id].last_version = rows[key].version]

\* process: the row goes on with the pending transaction of its id...
Extended(p, partial, key) ==
    LET id == rows[key].id
    IN IF rows[key].chunk = partial.total
       THEN Completed([p EXCEPT !.partials[id] = None], partial.first, key)
       ELSE [p EXCEPT !.partials[id].next_chunk = @ + 1,
                      !.partials[id].last_version = rows[key].version]

\* ... or starts one, or is of none, which breaks what was pending.
Started(p, key) ==
    LET id == rows[key].id
    IN CASE rows[key].chunk = 1 /\ rows[key].total = 1 ->
                Completed([p EXCEPT !.broken[id] = 0], key, key)
         [] rows[key].chunk = 1 /\ rows[key].total > 1 ->
                [p EXCEPT !.broken[id] = 0,
                          !.partials[id] = [first |-> key, total |-> rows[key].total,
                                            next_chunk |-> 2,
                                            last_version |-> rows[key].version]]
         [] OTHER -> ReportBroken(p, key, id, key)

Process(p, key) ==
    LET id == rows[key].id
        partial == p.partials[id]
        interrupted == IF partial = None THEN p
                       ELSE ReportBroken([p EXCEPT !.partials[id] = None],
                                         partial.first, id, key)
    IN IF Continues(partial, key) THEN Extended(p, partial, key)
       ELSE Started(interrupted, key)

\* push: keys that do not parse are ignored.
Push ==
    /\ page # None /\ page.next < page.end
    /\ page' = [(IF rows[page.next].id = None THEN page ELSE Process(page, page.next))
                    EXCEPT !.next = page.next + 1]
    /\ UNCHANGED <<rows, cursor, first, returned, skipped>>

-----------------------------------------------------------------------------
(* The end of a page.                                                      *)

Least(S) == CHOOSE a \in S : \A b \in S : a <= b

Pending(p) == {p.partials[id] : id \in {i \in Ids : p.partials[i] # None}}

Cut_NotLowered(p, from) ==
    [cut |-> from, dropped |-> {i \in 1 .. Len(p.outputs) : p.outputs[i].last >= from}]

\* cut: lowered to the first row of every outcome whose last row is not before
\* it, in one pass over the outcomes by last row, the greatest first.  (Outcomes
\* with the same last row go together: the pass takes all of them or none.)
Cut(p, from) ==
    LET ending(row) == {i \in 1 .. Len(p.outputs) : p.outputs[i].last = row}
        firsts(row) == {p.outputs[i].first : i \in ending(row)}
        pass[k \in Nat] ==
            IF k = 0 THEN [cut |-> from, dropped |-> {}]
            ELSE IF p.next - k < pass[k - 1].cut THEN pass[k - 1]
                 ELSE [cut |-> Least({pass[k - 1].cut} \cup firsts(p.next - k)),
                       dropped |-> pass[k - 1].dropped \cup ending(p.next - k)]
    IN pass[p.next - p.start]

Oldest(p) == CHOOSE partial \in Pending(p) : \A q \in Pending(p) : partial.first <= q.first

Resume_StaysBefore(p, stopped) ==
    LET oldest == Cut(p, Oldest(p).first)
    IN IF Pending(p) = {} THEN [next |-> p.next, dropped |-> {}, broken |-> {}]
       ELSE [next |-> oldest.cut, dropped |-> oldest.dropped, broken |-> {}]

\* finish: with transactions pending the page ends at the cut before them, and
\* drops what it completed after it.  A stopped page that would not advance
\* breaks them instead.
Resume(p, stopped) ==
    LET oldest == Cut(p, Oldest(p).first)
    IN IF Pending(p) = {} \/ (stopped /\ oldest.cut <= p.start)
       THEN [next |-> p.next, dropped |-> {}, broken |-> {q.first : q \in Pending(p)}]
       ELSE [next |-> oldest.cut, dropped |-> oldest.dropped, broken |-> {}]

Finish(stopped) ==
    LET end == Resume(page, stopped)
        kept == {page.outputs[i] : i \in (1 .. Len(page.outputs)) \ end.dropped}
        Decodes(output) == output.complete /\ output.id \notin Undecodable
    IN /\ page # None
       /\ IF stopped THEN page.next > page.start ELSE page.next = page.end
       /\ returned' = [i \in 1 .. MaxRows |-> returned[i]
                        + Cardinality({o \in kept : Decodes(o) /\ o.first = i})]
       /\ skipped' = skipped
            \cup {[first |-> o.first, why |-> IF o.complete THEN "decode" ELSE "broken"] :
                    o \in {k \in kept : ~Decodes(k)}}
            \cup {[first |-> i, why |-> "stopped"] : i \in end.broken}
       /\ cursor' = end.next
       /\ page' = None
       /\ UNCHANGED <<rows, first>>

\* The stream of rows fails, or the caller does before it keeps the page.
PageLost ==
    /\ page # None
    /\ page' = None
    /\ UNCHANGED <<rows, cursor, first, returned, skipped>>

-----------------------------------------------------------------------------
Init ==
    /\ rows = <<>> /\ cursor = 1 /\ first = 1 /\ page = None
    /\ returned = [i \in 1 .. MaxRows |-> 0] /\ skipped = {}

Next ==
    \/ Commit
    \/ \E version \in 1 .. MaxCommits : Seek(version)
    \/ \E end_version \in 1 .. MaxCommits + 1 : StartPage(end_version)
    \/ Push
    \/ \E stopped \in BOOLEAN : Finish(stopped)
    \/ PageLost

Spec == Init /\ [][Next]_vars

\* A caller that tails the keyspace: again and again it reads a page of the
\* whole range to its end, however often it stops, bounds or loses others, and
\* there is no row at which every read fails.
WholeRange == page # None /\ page.end > Len(rows)
FairSpec ==
    /\ Spec
    /\ WF_vars(Push \/ Finish(FALSE))
    /\ SF_vars(StartPage(MaxCommits + 1))
    /\ \A i \in 1 .. MaxRows : SF_vars(WholeRange /\ page.next = i /\ Push)
    /\ SF_vars(WholeRange /\ Finish(FALSE))

-----------------------------------------------------------------------------
(* Properties.                                                             *)

\* read_page: over the pages that each resume from the previous one, a transaction
\* is returned at most once, and only if its chunks are there and in order; and
\* a whole one that the scan has passed was returned, or reported because it does
\* not decode, or was lost because a caller stopped a page that had started with
\* a pending transaction; never for another reason.
EachOnce ==
    /\ \A i \in 1 .. MaxRows :
        returned[i] > 0 => returned[i] = 1 /\ i <= Len(rows) /\ Whole(i)
    /\ \A i \in first .. Len(rows) :
        Whole(i) /\ LastRow(i) < cursor =>
            returned[i] > 0 \/ \E s \in skipped : s.first = i /\ s.why \in {"decode", "stopped"}

\* finish: a page the caller stopped leaves the cursor further than it was, so
\* a caller with any budget reads the keyspace to its end.
StoppedPagesAdvance == [][Finish(TRUE) => cursor' > cursor]_vars

\* Tailing: a whole transaction, at a moment when no client is in the middle of
\* one, is returned or reported in the end.  (A page keeps nothing after the
\* first row of a transaction that never goes on, so while there is one, those
\* interleaved with it wait.)
Settled == \A id \in Ids : Written(id) \in {0, Total[id]}
WholeReported ==
    \A i \in 1 .. MaxRows :
        (Settled /\ i \in first .. Len(rows) /\ Whole(i))
            ~> (i < first \/ returned[i] = 1 \/ \E s \in skipped : s.first = i)
=============================================================================
