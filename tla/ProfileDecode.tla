--------------------------- MODULE ProfileDecode ---------------------------
(***************************************************************************)
(* From blobs to hot keys (decode.rs and aggregate.rs of                   *)
(* foundationdb-profiling).  A client writes the protocol version and the  *)
(* events of a sampled transaction one after the other; decode_events      *)
(* reads them back, and an Aggregator counts the keys and ranges that the  *)
(* transactions read and wrote.                                            *)
(*                                                                         *)
(* A blob is a sequence of units: a number of any width is one, whole or   *)
(* missing, and a byte of a string is one.                                 *)
(***************************************************************************)
EXTENDS Integers, Sequences, FiniteSets, SequencesExt, BagsExt

CONSTANTS
    Versions,       \* protocol versions of the clients: 71 for 7.1
    Events(_),      \* what a client of a version logs
    MaxEvents,      \* bound: events of the first blob; the others hold one
    MaxHits,        \* bound: hits recorded before another blob is
    None            \* Option::None

VARIABLES
    version,        \* of the client
    blob,           \* what it has written for a transaction
    logged,         \* the events it meant
    reads, writes   \* the KeyCounts of an Aggregator

vars == <<version, blob, logged, reads, writes>>

EVENT_GET_VERSION == 0
EVENT_GET == 1
EVENT_GET_RANGE == 2
EVENT_COMMIT == 3
EVENT_ERROR_GET == 4
EVENT_ERROR_GET_RANGE == 5
EVENT_ERROR_COMMIT == 6
CLEAR_RANGE == 1
CHECKSUM_LEN == 4
ACCUMULATIVE_CHECKSUM_INDEX_LEN == 2

is_supported(v) == v \in {71, 72, 73, 74}
has_otel_span_context(v) == v >= 72

KeyRange(begin, end) == [begin |-> begin, end |-> end]
Mutation(type, param1, param2) == [type |-> type, param1 |-> param1, param2 |-> param2]
IsSingleKey(begin, end) == end = Append(begin, 0)

-----------------------------------------------------------------------------
(* The client: what is known of its format in decode.rs and its tests.     *)

PutBytes(v) == <<Len(v)>> \o v
PutOption(v, Put(_)) == IF v = None THEN <<0>> ELSE <<1>> \o Put(v)
PutVec(v, Put(_)) == <<Len(v)>> \o FlattenSeq([i \in DOMAIN v |-> Put(v[i])])
PutRange(r) == PutBytes(r.begin) \o PutBytes(r.end)
\* One key is written as the end of its range, and an empty string.
PutConflictRange(r) ==
    IF IsSingleKey(r.begin, r.end) THEN PutRange(KeyRange(r.end, <<>>)) ELSE PutRange(r)
\* checksum: flags of the type, and the bytes they add to the second parameter.
PutMutation(m, checksum) ==
    LET single == m.type = CLEAR_RANGE /\ IsSingleKey(m.param1, m.param2)
        added == CASE checksum >= 192 -> CHECKSUM_LEN + ACCUMULATIVE_CHECKSUM_INDEX_LEN
                   [] checksum = 128 -> CHECKSUM_LEN
                   [] OTHER -> 0
    IN <<m.type + checksum>> \o PutBytes(IF single THEN m.param2 ELSE m.param1)
        \o PutBytes((IF single THEN <<>> ELSE m.param2) \o [i \in 1 .. added |-> 7])
PutSpan(s, v) == s.trace_id \o IF v >= 72 THEN <<s.span_id, s.flags>> ELSE <<>>
PutRequest(r, v, checksum) ==
    PutVec(r.read_ranges, PutConflictRange) \o PutVec(r.write_ranges, PutConflictRange)
        \o PutVec(r.mutations, LAMBDA m : PutMutation(m, checksum))
        \o <<r.read_snapshot, 0, r.lock_aware>>
        \o PutOption(r.span_context, LAMBDA s : PutSpan(s, v))

\* The latency, sizes and codes of an event are its numbers.
Put(e, v, checksum) ==
    <<e.type, e.time>> \o PutBytes(e.dc_id) \o PutOption(e.tenant, PutBytes) \o e.numbers
        \o CASE e.type = EVENT_GET_VERSION -> <<>>
             [] e.type \in {EVENT_GET, EVENT_ERROR_GET} -> PutBytes(e.key)
             [] e.type \in {EVENT_GET_RANGE, EVENT_ERROR_GET_RANGE} -> PutRange(e.range)
             [] e.type \in {EVENT_COMMIT, EVENT_ERROR_COMMIT} -> PutRequest(e.request, v, checksum)

-----------------------------------------------------------------------------
(* Reader: the rest of the input and a value, or an error.                 *)

Ok(rest, v) == [rest |-> rest, v |-> v]
Err(error) == [error |-> error]
Failed(r) == "error" \in DOMAIN r

take(input, n) ==
    IF Len(input) < n THEN Err("UnexpectedEof")
    ELSE Ok(SubSeq(input, n + 1, Len(input)), SubSeq(input, 1, n))
\* The ? of the code: go on with what was read, unless it failed.
And(r, Go(_, _)) == IF Failed(r) THEN r ELSE Go(r.rest, r.v)
number(input) == And(take(input, 1), LAMBDA rest, v : Ok(rest, v[1]))
bool(input) == And(number(input), LAMBDA rest, v : Ok(rest, v # 0))
bytes(input) == And(number(input), LAMBDA rest, len : take(rest, len))
option(input, Elem(_)) ==
    And(bool(input), LAMBDA rest, some : IF some THEN Elem(rest) ELSE Ok(rest, None))
key_range(input) ==
    And(bytes(input), LAMBDA rest, begin :
        And(bytes(rest), LAMBDA last, end : Ok(last, KeyRange(begin, end))))
vec(input, Elem(_)) ==
    And(number(input), LAMBDA rest, count :
        FoldLeft(LAMBDA r, i : And(r, LAMBDA left, out :
                                   And(Elem(left), LAMBDA after, v : Ok(after, Append(out, v)))),
                 Ok(rest, <<>>), [i \in 1 .. count |-> i]))

\* A single key is expanded to its range.
conflict_range(input) ==
    And(key_range(input), LAMBDA rest, r :
        IF r.end # <<>> \/ r.begin = <<>> THEN Ok(rest, r)
        ELSE IF Last(r.begin) # 0 THEN Err("MalformedKeyRange")
        ELSE Ok(rest, KeyRange(Front(r.begin), r.begin)))

\* The checksum goes first, then a single-key clear is expanded.
Stripped(m) ==
    LET suffix == CHECKSUM_LEN + IF m.type >= 192 THEN ACCUMULATIVE_CHECKSUM_INDEX_LEN ELSE 0
    IN IF m.type < 128 THEN Ok(<<>>, m)
       ELSE IF Len(m.param2) < suffix THEN Err("MalformedMutation")
       ELSE Ok(<<>>, Mutation(m.type % 64, m.param1, SubSeq(m.param2, 1, Len(m.param2) - suffix)))
Expanded(m) ==
    IF m.type = CLEAR_RANGE /\ m.param2 = <<>> /\ m.param1 # <<>>
    THEN Mutation(CLEAR_RANGE, Front(m.param1), m.param1) ELSE m

Normalized_ClearFirst(m) == Stripped(Expanded(m))
Normalized(m) == And(Stripped(m), LAMBDA rest, stripped : Ok(rest, Expanded(stripped)))

mutation(input) ==
    And(number(input), LAMBDA rest, type :
        And(key_range(rest), LAMBDA last, params :
            And(Normalized(Mutation(type, params.begin, params.end)), LAMBDA none, m : Ok(last, m))))

span_context(input, v) ==
    And(take(input, 2), LAMBDA rest, trace_id :
        IF has_otel_span_context(v)
        THEN And(take(rest, 2), LAMBDA last, span :
                 Ok(last, [trace_id |-> trace_id, span_id |-> span[1], flags |-> span[2]]))
        ELSE Ok(rest, [trace_id |-> trace_id, span_id |-> 0, flags |-> 0]))

commit_request(input, v) ==
    And(vec(input, conflict_range), LAMBDA rest1, read_ranges :
    And(vec(rest1, conflict_range), LAMBDA rest2, write_ranges :
    And(vec(rest2, mutation), LAMBDA rest3, mutations :
    And(take(rest3, 3), LAMBDA rest4, scalars :
    And(option(rest4, LAMBDA rest : span_context(rest, v)), LAMBDA rest5, span :
        Ok(rest5, [read_ranges |-> read_ranges, write_ranges |-> write_ranges,
                   mutations |-> mutations, read_snapshot |-> scalars[1],
                   lock_aware |-> scalars[3], span_context |-> span]))))))

header(input) ==
    And(number(input), LAMBDA rest, time :
    And(bytes(rest), LAMBDA rest2, dc_id :
    And(option(rest2, bytes), LAMBDA rest3, tenant :
        Ok(rest3, [time |-> time, dc_id |-> dc_id, tenant |-> tenant]))))

\* The numbers of each type before its key, range or request.
Numbers(type) ==
    CASE type = EVENT_GET_VERSION -> 3
      [] type \in {EVENT_GET, EVENT_GET_RANGE} -> 2
      [] type = EVENT_COMMIT -> 4
      [] OTHER -> 1
Body(type, input, v) ==
    CASE type = EVENT_GET_VERSION -> Ok(input, <<>>)
      [] type \in {EVENT_GET, EVENT_ERROR_GET} ->
            And(bytes(input), LAMBDA rest, key : Ok(rest, [key |-> key]))
      [] type \in {EVENT_GET_RANGE, EVENT_ERROR_GET_RANGE} ->
            And(key_range(input), LAMBDA rest, r : Ok(rest, [range |-> r]))
      [] type \in {EVENT_COMMIT, EVENT_ERROR_COMMIT} ->
            And(commit_request(input, v), LAMBDA rest, r : Ok(rest, [request |-> r]))

event(input, v) ==
    And(number(input), LAMBDA rest, type :
    IF type \notin EVENT_GET_VERSION .. EVENT_ERROR_COMMIT THEN Err("UnknownEventType") ELSE
    And(header(rest), LAMBDA rest2, head :
    And(take(rest2, Numbers(type)), LAMBDA rest3, numbers :
    And(Body(type, rest3, v), LAMBDA rest4, body :
        Ok(rest4, head @@ [type |-> type, numbers |-> numbers] @@ body)))))

\* The events from the n-th unit on, until the reader is empty.
EventsFrom(input, v) ==
    LET From[n \in Nat] ==
            IF n > Len(input) THEN Ok(<<>>, <<>>)
            ELSE And(event(SubSeq(input, n, Len(input)), v), LAMBDA rest, e :
                 And(From[Len(input) - Len(rest) + 1], LAMBDA none, events :
                     Ok(none, <<e>> \o events)))
    IN From[2]
decode_events(input) ==
    And(number(input), LAMBDA rest, v :
        IF is_supported(v) THEN EventsFrom(input, v) ELSE Err("UnsupportedProtocolVersion"))

-----------------------------------------------------------------------------
(* Aggregator.                                                             *)

NoHits == [keys |-> EmptyBag, ranges |-> EmptyBag]
insert_key(counts, key) == [counts EXCEPT !.keys = BagAdd(@, key)]
insert_range(counts, range) == [counts EXCEPT !.ranges = BagAdd(@, range)]

\* SetValue, AddValue and the atomic operations; SetVersionstampedKey (14) has
\* no key yet.
SINGLE_KEY_WRITE_TYPES == {0, 2, 6, 7, 8, 9, 12, 13, 15, 16, 17, 18, 19, 20}

\* record_event: an operation that failed does not count.
Read(counts, e) ==
    CASE e.type = EVENT_GET -> insert_key(counts, e.key)
      [] e.type = EVENT_GET_RANGE -> insert_range(counts, e.range)
      [] OTHER -> counts
Write(counts, e) ==
    IF e.type # EVENT_COMMIT THEN counts
    ELSE FoldLeft(LAMBDA acc, m :
                    IF m.type = CLEAR_RANGE THEN insert_range(acc, KeyRange(m.param1, m.param2))
                    ELSE IF m.type \in SINGLE_KEY_WRITE_TYPES THEN insert_key(acc, m.param1)
                    ELSE acc,
                  counts, e.request.mutations)

total(counts) == BagCardinality(counts.keys) + BagCardinality(counts.ranges)

Before(a, b) ==
    \/ IsStrictPrefix(a, b)
    \/ \E i \in (DOMAIN a) \cap (DOMAIN b) : SubSeq(a, 1, i - 1) = SubSeq(b, 1, i - 1) /\ a[i] < b[i]

\* A key hits itself, a range its begin.
StartsAt(counts) ==
    BagToSet(counts.keys) \cup {r.begin : r \in BagToSet(counts.ranges)}
HitsAt(counts, key) ==
    CopiesIn(key, counts.keys)
        + BagCardinality([r \in {x \in BagToSet(counts.ranges) : x.begin = key} |-> counts.ranges[r]])

Cuts_AtSize(bucket_size, s, n) == s.count >= bucket_size
\* A bucket is cut when it is full, unless it is the last.
Cuts(bucket_size, s, n) == s.count >= bucket_size /\ Len(s.out) + 1 < n

buckets(counts, n) ==
    LET hits == total(counts)
        size == IF hits \div n > 1 THEN hits \div n ELSE 1
        starts == SetToSortSeq(StartsAt(counts), Before)
        Cut(s) == Append(s.out, [start |-> s.start, count |-> s.count])
        Take(s, key) ==
            IF s.count > 0 /\ Cuts(size, s, n)
            THEN [out |-> Cut(s), start |-> key, count |-> HitsAt(counts, key)]
            ELSE [out |-> s.out, start |-> IF s.count = 0 THEN key ELSE s.start,
                  count |-> s.count + HitsAt(counts, key)]
        all == FoldLeft(Take, [out |-> <<>>, start |-> <<>>, count |-> 0], starts)
    IN IF n = 0 \/ hits = 0 THEN <<>> ELSE Cut(all)

-----------------------------------------------------------------------------
Init ==
    /\ version \in Versions
    /\ blob = <<version>> /\ logged = <<>>
    /\ reads = NoHits /\ writes = NoHits

Checksums == {0, 128, 192}
Log(e, checksum) ==
    /\ Len(logged) < IF total(reads) + total(writes) = 0 THEN MaxEvents ELSE 1
    /\ checksum > 0 => version >= 74 /\ e.type \in {EVENT_COMMIT, EVENT_ERROR_COMMIT}
    /\ blob' = blob \o Put(e, version, checksum)
    /\ logged' = Append(logged, e)
    /\ UNCHANGED <<version, reads, writes>>

\* Aggregator::record of the transaction a page returned: one that decoded.
Record ==
    LET decoded == decode_events(blob)
    IN /\ logged # <<>> /\ ~Failed(decoded)
       /\ total(reads) + total(writes) <= MaxHits
       /\ reads' = FoldLeft(Read, reads, decoded.v)
       /\ writes' = FoldLeft(Write, writes, decoded.v)
       /\ blob' = <<version>> /\ logged' = <<>>
       /\ UNCHANGED version

Next ==
    \/ \E e \in Events(version), checksum \in Checksums : Log(e, checksum)
    \/ Record

Spec == Init /\ [][Next]_vars

-----------------------------------------------------------------------------
(* Properties.                                                             *)

\* decode_events: the events a client of a supported version logged, with their
\* single keys expanded and their checksums gone; no other version is guessed at.
\* A blob cut short anywhere is an error, or, cut between two events, the events
\* before; it is never read as another event.
DecodesLogged ==
    /\ decode_events(blob) =
        IF is_supported(version) THEN Ok(<<>>, logged) ELSE Err("UnsupportedProtocolVersion")
    /\ \A n \in 0 .. Len(blob) - 1 :
        LET decoded == decode_events(SubSeq(blob, 1, n))
        IN IF Failed(decoded)
           THEN decoded.error \in {"UnexpectedEof", "UnsupportedProtocolVersion"}
           ELSE IsStrictPrefix(decoded.v, logged)

\* KeyCounts::buckets: at most n, in key order, and each holds exactly the hits
\* that start in it, so that together they hold them all.
BucketsSplitTheHits ==
    \A counts \in {reads, writes}, n \in 1 .. 4 :
        LET out == buckets(counts, n)
            In(key, i) == ~Before(key, out[i].start)
                          /\ (i < Len(out) => Before(key, out[i + 1].start))
        IN /\ Len(out) <= n
           /\ \A i \in 1 .. Len(out) :
                out[i].count = MapThenSumSet(LAMBDA key : HitsAt(counts, key),
                                             {key \in StartsAt(counts) : In(key, i)})
           /\ \A key \in StartsAt(counts) : \E i \in 1 .. Len(out) : In(key, i)
=============================================================================
