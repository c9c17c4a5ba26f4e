----------------------------- MODULE RangeReads -----------------------------
(***************************************************************************)
(* Reading a range batch after batch (transaction.rs, keyselector.rs): the *)
(* stream of get_ranges, whose transaction may write between two batches,  *)
(* the conflict ranges read from \xff\xff/transaction/, whose markers may  *)
(* be split over batches, and the scan that a ClientBudget cuts into       *)
(* several transactions (budget.rs, examples/budgeted_scan.rs).            *)
(* get_mapped_ranges does with parent keys what get_ranges does with keys. *)
(*                                                                         *)
(* Keys are the numbers 1 .. MaxKey in byte order.  The database returns   *)
(* any non-empty part of what is left, and may say that there is more when *)
(* there is not.                                                           *)
(***************************************************************************)
EXTENDS Integers, FiniteSets, Sequences, SequencesExt

CONSTANTS
    MaxKey,             \* bound: the keys
    Requests,           \* the RangeOptions read by a stream
    IntMax,             \* i32::MAX
    MaxRead,            \* max_bytes_read of the budget, in keys
    MaxWrites,          \* bound: writes while a range is being read
    NoValue             \* Option::None

ASSUME RangeBoundAssumption ==
    MaxKey \in Nat \ {0} /\ IntMax \in Nat \ {0} /\ MaxRead \in Nat /\ MaxWrites \in Nat

Selector == [key : Nat, or_equal : BOOLEAN, offset : Int]
Option == [begin : Selector, end : Selector, limit : Nat, reverse : BOOLEAN]

ASSUME RequestsAssumption == Requests \subseteq Option
ASSUME NoValueAssumption == NoValue \notin Option \cup Nat

VARIABLES
    stored,     \* the keys of the range, as the transaction sees them
    covered,    \* the keys in the transaction's conflict ranges
    read,       \* what is being read, and what has been returned
    parser,     \* the ConflictRangeParser
    usage,      \* keys fetched in the current accounting generation
    history     \* keys and conflict ranges at the beginning, keys written since

rangevars == <<stored, covered, read, parser, usage, history>>

-----------------------------------------------------------------------------
(* Selectors and options.                                                  *)

Key == 1 .. MaxKey

KeySelector(key, or_equal, offset) == [key |-> key, or_equal |-> or_equal, offset |-> offset]
last_less_than(key) == KeySelector(key, FALSE, 0)
last_less_or_equal(key) == KeySelector(key, TRUE, 0)
first_greater_than(key) == KeySelector(key, TRUE, 1)
first_greater_or_equal(key) == KeySelector(key, FALSE, 1)

\* From<Range> and From<RangeInclusive>; no limit is None or Some(0).
RangeOption(begin, end) == [begin |-> begin, end |-> end, limit |-> 0, reverse |-> FALSE]
HalfOpen(begin, end) == RangeOption(first_greater_or_equal(begin), first_greater_or_equal(end))

AtMost(n, max) == IF n > max THEN max ELSE n

fdb_limit(limit) == AtMost(limit, IntMax)

NextRange_KeepsLimit(opt, batch) ==
    LET rest == opt.limit - AtMost(Len(batch.kvs), opt.limit)
    IN  IF ~batch.more \/ batch.kvs = <<>> THEN NoValue
        ELSE IF opt.reverse
        THEN [opt EXCEPT !.limit = rest, !.end = first_greater_or_equal(Last(batch.kvs))]
        ELSE [opt EXCEPT !.limit = rest, !.begin = first_greater_than(Last(batch.kvs))]

\* next_range: a limit used up ends the range, for 0 would lift the limit.
NextRange(opt, batch) ==
    LET rest == opt.limit - AtMost(Len(batch.kvs), opt.limit)
    IN  IF ~batch.more \/ batch.kvs = <<>> \/ (opt.limit # 0 /\ rest = 0) THEN NoValue
        ELSE IF opt.reverse
        THEN [opt EXCEPT !.limit = rest, !.end = first_greater_or_equal(Last(batch.kvs))]
        ELSE [opt EXCEPT !.limit = rest, !.begin = first_greater_than(Last(batch.kvs))]

-----------------------------------------------------------------------------
(* The database.                                                           *)

\* The keys a selector counts, and the place, from 1, of the one it selects.
Passed(view, selector) ==
    {k \in view : k < selector.key \/ (selector.or_equal /\ k = selector.key)}
Resolve(view, selector) == selector.offset + Cardinality(Passed(view, selector))

\* The order in which a range is returned, and the place of a key in it.
Forward == FALSE
Precedes(reverse, a, b) == IF reverse THEN a > b ELSE a < b
Place(S, reverse, k) == Cardinality({j \in S : ~Precedes(reverse, k, j)})

Selected(view, opt) ==
    {k \in view : Place(view, Forward, k) \in Resolve(view, opt.begin) .. Resolve(view, opt.end) - 1}

Sorted(S, reverse) ==
    [i \in 1 .. Cardinality(S) |-> CHOOSE k \in S : Place(S, reverse, k) = i]

Batches(view, opt) ==
    LET all == Sorted(Selected(view, opt), opt.reverse)
        most == IF opt.limit = 0 THEN Len(all) ELSE AtMost(Len(all), fdb_limit(opt.limit))
        Batch(n, more) == [kvs |-> SubSeq(all, 1, n), more |-> more]
    IN  IF all = <<>> THEN {Batch(0, FALSE)}
        ELSE {Batch(n, TRUE) : n \in 1 .. most}
                \cup (IF most = Len(all) THEN {Batch(most, FALSE)} ELSE {})

\* The keys where a conflict range begins or ends.
Boundaries == {k \in Key : (k \in covered) # (k - 1 \in covered)}

-----------------------------------------------------------------------------
(* ConflictRangeParser.                                                    *)

NewParser == [open |-> NoValue, ranges |-> <<>>]

Marker(p, k) ==
    IF k \in covered THEN [p EXCEPT !.open = k]
    ELSE IF p.open = NoValue THEN p
    ELSE [open |-> NoValue, ranges |-> Append(p.ranges, <<p.open, k>>)]

Feed_AnewEachBatch(p, batch) ==
    LET fed[i \in 0 .. Len(batch)] ==
            IF i = 0 THEN [p EXCEPT !.open = NoValue] ELSE Marker(fed[i - 1], batch[i])
    IN  fed[Len(batch)]

\* feed: b"1" opens a range, in place of one still open; b"0" closes it.
Feed(p, batch) ==
    LET fed[i \in 0 .. Len(batch)] == IF i = 0 THEN p ELSE Marker(fed[i - 1], batch[i])
    IN  fed[Len(batch)]

-----------------------------------------------------------------------------
(* Reading.                                                                *)

\* What has been returned by the pages of a scan that ended is done.
NewRead(kind, opt) ==
    [kind |-> kind, asked |-> opt, opt |-> opt, got |-> <<>>, done |-> <<>>, check |-> FALSE]
Everything == HalfOpen(1, MaxKey + 1)
Reading == read.opt # NoValue /\ ~read.check

\* get_ranges: the next batch of a stream or of a scan, which is metered.
NextBatch ==
    /\ Reading /\ read.kind \in {"stream", "scan"}
    /\ \E batch \in Batches(stored, read.opt) :
        /\ read' = [read EXCEPT !.opt = NextRange(read.opt, batch), !.got = @ \o batch.kvs,
                                !.check = read.kind = "scan"]
        /\ usage' = usage + Len(batch.kvs)
    /\ UNCHANGED <<stored, covered, parser, history>>

\* An error is the last item of the stream; one that is not retried is the
\* result of the scan.
BatchFails ==
    /\ Reading
    /\ read' = [read EXCEPT !.opt = NoValue, !.kind = "failed"]
    /\ UNCHANGED <<stored, covered, parser, usage, history>>

\* read_conflict_range_keyspace: not metered.
NextMarkers ==
    /\ Reading /\ read.kind = "conflicts"
    /\ \E batch \in Batches(Boundaries, read.opt) :
        /\ parser' = Feed(parser, batch.kvs)
        /\ read' = [read EXCEPT !.opt = NextRange(read.opt, batch)]
    /\ UNCHANGED <<stored, covered, usage, history>>

\* Where a page of a scan begins.
ResumedAt(opt, done) ==
    IF done = <<>> THEN opt ELSE [opt EXCEPT !.begin = first_greater_than(Last(done))]

\* check_client_budget, on time or on what was read.  A page that is cut commits,
\* and the next begins after its last key, in a new transaction whose budget
\* starts a new generation; there is none after a page that read nothing.
CheckBudget ==
    /\ read.check
    /\ \E late \in BOOLEAN :
        IF ~late /\ usage <= MaxRead THEN read' = [read EXCEPT !.check = FALSE] /\ UNCHANGED usage
        ELSE /\ read' = IF read.got = read.done
                        THEN [read EXCEPT !.check = FALSE, !.opt = NoValue]
                        ELSE [read EXCEPT !.check = FALSE, !.done = read.got,
                                          !.opt = ResumedAt(read.asked, read.got)]
             /\ usage' = 0
    /\ UNCHANGED <<stored, covered, parser, history>>

\* A batch of a page fails, or its commit: Database::run begins the page again
\* from the same key, without the rows it had, and with the whole budget.
PageRetried ==
    /\ read.kind = "scan" /\ (Reading \/ read.check)
    /\ read' = [read EXCEPT !.check = FALSE, !.got = read.done,
                            !.opt = ResumedAt(read.asked, read.done)]
    /\ usage' = 0
    /\ UNCHANGED <<stored, covered, parser, history>>

\* The transaction sets or clears a key while it reads; or another one does,
\* before a page of a scan has read its first batch.
WriteKey(k) ==
    /\ read.opt # NoValue /\ read.kind # "conflicts"
    /\ read.kind = "scan" => read.got = read.done
    /\ Cardinality(history.written \cup {k}) <= MaxWrites
    /\ stored' = IF k \in stored THEN stored \ {k} ELSE stored \cup {k}
    /\ history' = [history EXCEPT !.written = @ \cup {k}]
    /\ UNCHANGED <<covered, read, parser, usage>>

\* Another clone of the transaction adds a conflict range.
AddConflict(k) ==
    /\ read.opt # NoValue /\ read.kind = "conflicts"
    /\ k \notin covered /\ Cardinality(covered \ history.covered) < MaxWrites
    /\ covered' = covered \cup {k}
    /\ UNCHANGED <<stored, read, parser, usage, history>>

-----------------------------------------------------------------------------
RangeInit ==
    /\ stored \in SUBSET Key /\ covered \in SUBSET (1 .. MaxKey - 1)
    /\ read \in {NewRead("stream", opt) : opt \in Requests}
                \cup {NewRead("scan", Everything), NewRead("conflicts", Everything)}
    \* The keys matter to a stream and a scan, the conflict ranges to the third.
    /\ IF read.kind = "conflicts" THEN stored = {} ELSE covered = {}
    /\ parser = NewParser /\ usage = 0
    /\ history = [stored |-> stored, covered |-> covered, written |-> {}]

RangeNext ==
    \/ NextBatch
    \/ BatchFails
    \/ NextMarkers
    \/ CheckBudget
    \/ PageRetried
    \/ \E k \in Key : WriteKey(k)
    \/ \E k \in 1 .. MaxKey - 1 : AddConflict(k)

RangeSpec == RangeInit /\ [][RangeNext]_rangevars

-----------------------------------------------------------------------------
(* Properties.                                                             *)

Ended == read.opt = NoValue /\ read.kind # "failed" /\ ~read.check

\* The selectors that name a bound whatever keys there are, and their range.
Fixed(opt) == opt.begin.offset = 1 /\ opt.end.offset = 1
Within(opt) ==
    {k \in Key : /\ IF opt.begin.or_equal THEN k > opt.begin.key ELSE k >= opt.begin.key
                 /\ IF opt.end.or_equal THEN k <= opt.end.key ELSE k < opt.end.key}

\* get_ranges, next_range and the scan, whose pages may fail and begin again: the
\* batches of a range follow each other in its direction without a key twice,
\* outside the range or beyond the limit; and when the range ends, every key that
\* was there all along has been returned, unless the limit was reached.
RangeReadOnce ==
    read.kind \in {"stream", "scan"} =>
    LET asked == read.asked
        full == asked.limit # 0 /\ Len(read.got) = asked.limit
        alone == Sorted(Selected(history.stored, asked), asked.reverse)
    IN  /\ \A i \in 1 .. Len(read.got) - 1 :
            Precedes(asked.reverse, read.got[i], read.got[i + 1])
        /\ asked.limit # 0 => Len(read.got) <= asked.limit
        /\ Fixed(asked) => ToSet(read.got) \subseteq Within(asked)
        /\ history.written = {} => IsPrefix(read.got, alone)
        /\ Ended /\ ~full =>
            /\ history.written = {} => read.got = alone
            /\ Fixed(asked) => (history.stored \cap Within(asked)) \ history.written \subseteq ToSet(read.got)

\* read_conflict_range_keyspace: whatever is added while it reads, a range it
\* reports is made of keys in conflict ranges; and it reports all of them when
\* nothing was added, each range once and whole.
ConflictRangesHold ==
    LET Reported(i) == parser.ranges[i][1] .. parser.ranges[i][2] - 1
        all == UNION {Reported(i) : i \in 1 .. Len(parser.ranges)}
    IN  /\ all \subseteq covered
        /\ Ended /\ read.kind = "conflicts" /\ covered = history.covered =>
            /\ all = covered
            /\ \A i \in 1 .. Len(parser.ranges) - 1 :
                parser.ranges[i][2] < parser.ranges[i + 1][1]
=============================================================================
