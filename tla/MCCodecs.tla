------------------------------ MODULE MCCodecs ------------------------------
(***************************************************************************)
(* The codecs and readers without a schedule of their own, for model       *)
(* checking: tuples and subspaces, the decoder of profiling blobs, and     *)
(* range reads.  They share no state, so that a behaviour is one of any of *)
(* them; which one is chosen initially.                                    *)
(***************************************************************************)
EXTENDS Subspace, RangeReads

CONSTANTS Versions, MaxEvents, MaxHits

VARIABLES
    part,                                   \* which of the three
    version, blob, logged, reads, writes    \* of ProfileDecode

-----------------------------------------------------------------------------
(* Tuples and subspaces: values at the borders of every encoding.          *)

Numbers == {0, 1, 31, 32, 63, 64, 2047, 2048, 4095, 4096, 200000,
            -1, -32, -33, -63, -64, -2048, -2049, -4095, -4096, -200000}
Strings == {<<>>, <<0>>, <<0, 0>>, <<1>>, <<0, 63>>, <<63>>}
Late == Stamp(<<63, 2>>)
Done == Stamp(<<5, 2>>)
Inner == {<<>>, <<Nil>>, <<Bytes(<<0>>)>>, <<Nil, Nil>>, <<Tuple(<<Nil>>)>>, <<Number(-1)>>, <<Late>>}
MCElements ==
    {Nil, Bool(TRUE), Bool(FALSE), Late, Done} \cup {Number(i) : i \in Numbers}
        \cup {Bytes(s) : s \in Strings} \cup {String(s) : s \in Strings}
        \cup {Float(b) : b \in {0, 1, 31, 32, 33, 63}} \cup {Tuple(v) : v \in Inner}
MCKeyTuples ==
    {<<>>, <<Bytes(<<>>), Late>>, <<Nil, Nil>>, <<Late, Number(4096)>>, <<Late, Late>>,
     <<Tuple(<<Number(-4096), Late>>), Nil>>, <<Tuple(<<>>), Nil>>, <<String(<<>>), Nil>>}
        \cup {<<e>> : e \in MCElements}
MCPathTuples ==
    {<<Bytes(<<>>)>>, <<Number(64), Nil>>, <<Late>>, <<Tuple(<<Nil>>)>>, <<Number(-4096)>>, <<Done, Float(3)>>}
MCVersion == <<7>>

-----------------------------------------------------------------------------
(* Events of every type, with and without a tenant and a span.             *)

D == INSTANCE ProfileDecode WITH None <- NoValue, Events <- LAMBDA v : {}

Head0 == [time |-> 5, dc_id |-> <<>>, tenant |-> NoValue]
InTenant == [time |-> 5, dc_id |-> <<9>>, tenant |-> <<0, 2>>]
LoggedKeys == {<<>>, <<1>>}
LoggedRanges == {D!KeyRange(<<>>, <<0>>), D!KeyRange(<<0>>, <<0, 0>>), D!KeyRange(<<1>>, <<2>>)}
Span(v) == [trace_id |-> <<3, 4>>, span_id |-> IF v >= 72 THEN 6 ELSE 0, flags |-> IF v >= 72 THEN 1 ELSE 0]
Request(ranges, mutations, span) ==
    [read_ranges |-> ranges, write_ranges |-> Reverse(ranges), mutations |-> mutations,
     read_snapshot |-> 8, lock_aware |-> 1, span_context |-> span]
Mutations ==
    {<<>>, <<D!Mutation(0, <<0>>, <<>>), D!Mutation(1, <<1>>, <<1, 0>>),
             D!Mutation(1, <<>>, <<0>>), D!Mutation(14, <<1>>, <<2>>)>>}

Event(head, type, numbers, body) == head @@ [type |-> type, numbers |-> numbers] @@ body
MCEvents(v) ==
    {Event(InTenant, 0, <<1, 0, 3>>, <<>>)}
        \cup {Event(Head0, 1, <<1, 2>>, [key |-> k]) : k \in LoggedKeys}
        \cup {Event(InTenant, 2, <<1, 2>>, [range |-> r]) : r \in LoggedRanges}
        \cup {Event(Head0, 4, <<1>>, [key |-> <<0>>]),
              Event(InTenant, 5, <<1>>, [range |-> D!KeyRange(<<0>>, <<1>>)])}
        \cup {Event(Head0, 3, <<1, 1, 2, 3>>,
                    [request |-> Request(<<D!KeyRange(<<1>>, <<1, 0>>), D!KeyRange(<<>>, <<1>>)>>, m, Span(v))]) : m \in Mutations}
        \cup {Event(Head0, 6, <<7>>,
                    [request |-> Request(<<D!KeyRange(<<>>, <<0>>)>>, <<D!Mutation(1, <<1>>, <<1, 0>>)>>, NoValue)])}

Profiles == INSTANCE ProfileDecode WITH None <- NoValue, Events <- MCEvents

-----------------------------------------------------------------------------
(* Ranges whose selectors name a bound or count keys, limits below, at and *)
(* above what a batch can hold, both directions.                           *)

Begins == {first_greater_or_equal(1), first_greater_than(2), last_less_or_equal(2),
           KeySelector(1, FALSE, 2)}
Ends == {first_greater_or_equal(4), first_greater_than(3), last_less_than(5),
         KeySelector(2, TRUE, 2)}
MCRequests ==
    {[RangeOption(b, e) EXCEPT !.limit = n, !.reverse = r] :
        b \in Begins, e \in Ends, n \in {0, 1, 3}, r \in BOOLEAN}

-----------------------------------------------------------------------------
profilevars == <<version, blob, logged, reads, writes>>
mcvars == <<part, vars, profilevars, rangevars>>

NoProfile == version = 70 /\ blob = <<70>> /\ logged = <<>> /\ reads = D!NoHits /\ writes = D!NoHits
NoRange ==
    /\ stored = {} /\ covered = {} /\ parser = NewParser /\ usage = 0
    /\ read = NewRead("failed", NoValue)
    /\ history = [stored |-> {}, covered |-> {}, written |-> {}]

MCInit ==
    /\ Init
    /\ \/ part = "tuples" /\ NoProfile /\ NoRange
       \/ part = "profiles" /\ Profiles!Init /\ NoRange
       \/ part = "ranges" /\ NoProfile /\ RangeInit

MCNext ==
    \/ part = "tuples" /\ Next /\ UNCHANGED <<part, profilevars, rangevars>>
    \/ part = "profiles" /\ Profiles!Next /\ UNCHANGED <<part, vars, rangevars>>
    \/ part = "ranges" /\ RangeNext /\ UNCHANGED <<part, vars, profilevars>>

MCSpec == MCInit /\ [][MCNext]_mcvars

\* Properties of ProfileDecode, in its behaviours.
DecodesLogged == part = "profiles" => Profiles!DecodesLogged
BucketsSplitTheHits == part = "profiles" => Profiles!BucketsSplitTheHits
=============================================================================
