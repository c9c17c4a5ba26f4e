--------------------------- MODULE ElectionOracle ---------------------------
(***************************************************************************)
(* The replay oracle of the leader election workload (leader_election/     *)
(* workload.rs of foundationdb-recipes-simulation): what `replay` makes of *)
(* the next entry of the operation log, which is read in commit order.     *)
(*                                                                         *)
(* The instants of an entry and of an expectation are ages, counted from   *)
(* the moment the entry is committed.  The operation numbers of a client   *)
(* are never used twice, so only a second commit of an operation could     *)
(* repeat one: `again` says that the entry is one.                         *)
(***************************************************************************)
EXTENDS ElectionOps, Integers, FiniteSets

CONSTANT TimerEps   \* SIMULATED_TIMER_EPSILON

NoRecord == [revision |-> 0, owner |-> Nobody, lease |-> 0]
UnknownInput == [kind |-> "unknown", owner |-> Nobody, rank |-> 0, lease |-> 0, age |-> 0]
NoPlan == 0     \* planned_adoption_delay = None
NoPost == -1    \* prior_post_run_at = None

\* LogEntry, as an operation other than a poll or a resignation fills it in.
Entry(kind, actor, record, since) ==
    [kind |-> kind, actor |-> actor, again |-> FALSE, prior |-> record, current |-> record,
     local |-> UnknownInput, tracks |-> FALSE, since |-> since, configured |-> 1,
     planned |-> NoPlan, post |-> NoPost, transition |-> "None", result |-> TRUE,
     requested |-> 0, observed |-> 0, value |-> Nobody, committed |-> FALSE, payload |-> Nobody]

ProtectedPayload(actor) == [actor EXCEPT !.text = "leader"]
StalePayload(actor) == [actor EXCEPT !.text = "stale"]

Forced == {"expiry", "foreign_takeover", "before_expiry", "after_expiry", "stale_renew",
           "stale_write", "delayed_observation_adoption", "exact_resign",
           "follower_duration_reset"}

NoRace == [predecessor |-> NoRecord, contenders |-> {}, winner |-> Nobody, writers |-> {}]

NewReplay ==
    [ok |-> TRUE, rec |-> NoRecord, rank |-> 0, value |-> Nobody, expected |-> <<>>,
     saw |-> {}, renewal |-> 0, race |-> NoRace]

-----------------------------------------------------------------------------
(* The local input.                                                        *)

Claimed(local) == [revision |-> local.rank, owner |-> local.owner, lease |-> local.lease]
Elapsed(e) == e.local.age - e.since
Claims(o, e, kind) == e.local.kind = kind /\ Claimed(e.local) = o.rec

Exact(local) == [kind |-> "exact", local |-> local, planned |-> NoPlan]
AdoptedObservation(rec, notBefore, planned) ==
    [kind |-> "adopted", planned |-> planned,
     local |-> [kind |-> "observation", owner |-> rec.owner, rank |-> rec.revision,
                lease |-> rec.lease, age |-> notBefore]]

\* A new observation is adopted after the poll began and its run returned,
\* after the planned delay as a timer may cut it short, and before the poll
\* that uses it begins.
AdoptedInTime(e, want) ==
    LET at == e.local.age
    IN  /\ e.local = [want.local EXCEPT !.age = at]
        /\ at < want.local.age /\ at <= want.local.age - want.planned
        /\ at >= e.since
        /\ e.post # NoPost /\ e.post <= want.local.age /\ e.post >= e.since
        /\ at <= e.post /\ at <= e.post - want.planned + TimerEps

ValidLocalInput(o, e) ==
    e.tracks =>
        IF e.actor \notin DOMAIN o.expected THEN e.local = UnknownInput
        ELSE LET want == o.expected[e.actor]
             IN  IF want.kind = "exact" THEN e.local = want.local ELSE AdoptedInTime(e, want)

Delayed(o, e) ==
    e.tracks /\ e.actor \in DOMAIN o.expected /\ o.expected[e.actor].kind = "adopted"
             /\ o.expected[e.actor].planned > e.local.lease

\* advance_local_state, with the record as the entry left it.
Advanced(o, e, rec) ==
    LET next == CASE e.kind = "poll" /\ e.result ->
                        Exact([kind |-> "leadership", owner |-> e.actor, rank |-> rec.revision,
                               lease |-> rec.lease, age |-> e.since])
                  [] e.kind = "poll" /\ e.local.kind = "observation" /\ Claimed(e.local) = rec ->
                        Exact(e.local)
                  [] e.kind = "poll" -> AdoptedObservation(rec, e.since, e.planned)
                  [] e.kind = "resign" /\ e.result -> Exact(UnknownInput)
                  [] OTHER -> Exact(e.local)
    IN  IF e.tracks
        THEN [a \in DOMAIN o.expected \cup {e.actor} |->
                IF a = e.actor THEN next ELSE o.expected[a]]
        ELSE o.expected

\* A poll that leads or that keeps its observation plans no adoption delay.
ValidPlan(o, e) ==
    e.tracks /\ e.kind = "poll" /\ (e.result \/ Claims(o, e, "observation"))
        => e.planned = NoPlan

-----------------------------------------------------------------------------
(* What each kind of operation may report, and what it makes of the state. *)

NoEffect(e) ==
    /\ e.requested = 0 /\ e.observed = 0 /\ e.value = Nobody
    /\ ~e.committed /\ e.payload = Nobody

RenewalEnabled(o, e) ==
    e.local.owner = e.actor /\ Claims(o, e, "leadership") /\ Elapsed(e) < e.local.lease
TakeoverEnabled(o, e) == Claims(o, e, "observation") /\ Elapsed(e) >= e.local.lease

ValidTransition(o, e) ==
    CASE e.transition = "Acquired" -> e.result /\ o.rec.owner = Nobody
      [] e.transition = "Renewed" -> e.result /\ RenewalEnabled(o, e)
      [] e.transition = "TookOver" -> e.result /\ TakeoverEnabled(o, e) /\ e.local.owner # e.actor
      [] e.transition = "Reacquired" -> e.result /\ TakeoverEnabled(o, e) /\ e.local.owner = e.actor
      [] e.transition = "Followed" ->
            /\ ~e.result /\ o.rec.owner # Nobody
            /\ ~RenewalEnabled(o, e) /\ ~TakeoverEnabled(o, e)
      [] OTHER -> FALSE

ValidPoll(o, e) ==
    /\ ValidTransition(o, e)
    /\ IF e.result
       THEN /\ e.current = LeaderRecord(o.rec, e.actor, e.configured)
            /\ e.requested = e.current.revision
            /\ e.observed = o.rank /\ e.value = o.value
            /\ e.committed /\ e.payload = ProtectedPayload(e.actor)
       ELSE e.current = o.rec /\ NoEffect(e)

ValidResign(o, e) ==
    LET matches == Claimed(e.local) = o.rec
    IN  /\ e.local.kind = "leadership" /\ e.transition = "None" /\ e.result = matches
        /\ e.current = IF matches THEN [o.rec EXCEPT !.owner = Nobody] ELSE o.rec
        /\ NoEffect(e)

ValidObserve(o, e) ==
    /\ e.current = o.rec /\ e.local = UnknownInput /\ e.transition = "None" /\ e.result
    /\ NoEffect(e)

ValidStaleWrite(o, e) ==
    /\ e.current = o.rec /\ e.local = UnknownInput /\ e.transition = "None" /\ ~e.result
    /\ e.requested < o.rec.revision /\ e.observed = o.rank /\ e.value = o.value
    /\ ~e.committed /\ e.payload = StalePayload(e.actor)

-----------------------------------------------------------------------------
(* The coordinated race.                                                   *)

Racing(e) == e.actor.label = "race"
Contends(e) ==
    e.kind = "poll" /\ Racing(e) /\ e.local.kind = "observation" /\ Elapsed(e) >= e.local.lease

\* record_race_takeover
ValidContender(o, e) ==
    Contends(e) =>
        /\ o.race.predecessor \in {NoRecord, Claimed(e.local)}
        /\ e.actor \notin o.race.contenders
        /\ \/ e.transition = "TookOver" /\ e.result /\ o.race.winner = Nobody
           \/ e.transition = "Followed" /\ ~e.result

\* record_race_stale_write
ValidRaceWrite(o, e) ==
    e.kind = "stale_write" /\ Racing(e) =>
        /\ o.race.predecessor # NoRecord
        /\ e.requested = o.race.predecessor.revision
        /\ e.actor \notin o.race.writers

RaceAfter_CountsWinners(o, e) ==
    IF Contends(e) /\ e.result
    THEN [o.race EXCEPT !.predecessor = Claimed(e.local), !.contenders = @ \cup {e.actor},
                        !.winner = e.actor]
    ELSE IF e.kind = "stale_write" /\ Racing(e)
    THEN [o.race EXCEPT !.writers = @ \cup {e.actor}]
    ELSE o.race

RaceAfter(o, e) ==
    IF Contends(e)
    THEN [o.race EXCEPT !.predecessor = Claimed(e.local), !.contenders = @ \cup {e.actor},
                        !.winner = IF e.result THEN e.actor ELSE @]
    ELSE IF e.kind = "stale_write" /\ Racing(e)
    THEN [o.race EXCEPT !.writers = @ \cup {e.actor}]
    ELSE o.race

SawRace(o) ==
    /\ Cardinality(o.race.contenders) >= 2
    /\ o.race.winner # Nobody /\ o.race.writers = o.race.contenders

-----------------------------------------------------------------------------
(* The witnesses that the end of the workload is to force.                 *)

\* The rank of a renewal that changed the duration, the last one.
RenewalAfter(o, e) ==
    IF e.transition = "Renewed" /\ e.configured # o.rec.lease THEN e.current.revision ELSE o.renewal

Witnessed(o, e) ==
    CASE e.kind = "resign" -> IF e.result THEN {"exact_resign"} ELSE {}
      [] e.kind = "stale_write" -> {"stale_write"}
      [] e.kind = "observe" -> {}
      [] OTHER ->
        LET own == e.local.kind = "leadership" /\ e.local.owner = e.actor
            When(holds, witness) == IF holds THEN {witness} ELSE {}
            before == ~e.result /\ Claims(o, e, "observation") /\ Elapsed(e) < e.local.lease
        IN  When(e.transition \in {"TookOver", "Reacquired"}, "expiry")
              \cup When(e.transition = "TookOver", "foreign_takeover")
              \cup When(\/ e.result /\ Claims(o, e, "observation") /\ Elapsed(e) > e.local.lease
                        \/ ~e.result /\ own /\ Claimed(e.local) = o.rec /\ Elapsed(e) >= e.local.lease,
                        "after_expiry")
              \cup When(before, "before_expiry")
              \cup When(before /\ Delayed(o, e), "delayed_observation_adoption")
              \cup When(~e.result /\ own, "stale_renew")
              \cup When(/\ ~e.result /\ o.renewal # 0 /\ o.rec.revision = o.renewal
                        /\ e.local.kind # "observation", "follower_duration_reset")

-----------------------------------------------------------------------------
(* replay: one entry.                                                      *)

Accepts(o, e) ==
    /\ ~e.again /\ e.prior = o.rec /\ e.configured > 0
    /\ ValidLocalInput(o, e) /\ ValidPlan(o, e)
    /\ CASE e.kind = "poll" -> ValidPoll(o, e) /\ ValidContender(o, e)
         [] e.kind = "resign" -> ValidResign(o, e)
         [] e.kind = "observe" -> ValidObserve(o, e)
         [] e.kind = "stale_write" -> ValidStaleWrite(o, e) /\ ValidRaceWrite(o, e)

Replay(o, e) ==
    IF ~o.ok \/ ~Accepts(o, e) THEN [o EXCEPT !.ok = FALSE]
    ELSE LET leads == e.kind = "poll" /\ e.result
         IN  [ok |-> TRUE, rec |-> e.current,
              rank |-> IF leads THEN e.requested ELSE o.rank,
              value |-> IF leads THEN e.payload ELSE o.value,
              expected |-> Advanced(o, e, e.current),
              saw |-> o.saw \cup Witnessed(o, e), renewal |-> RenewalAfter(o, e),
              race |-> RaceAfter(o, e)]

\* Time passes: the expectations get older, and an instant older than
\* `horizon` is one no lease lasts until.
Older(age, horizon) == IF age < horizon THEN age + 1 ELSE age
AgedInput(local, horizon) ==
    IF local.kind = "unknown" THEN local ELSE [local EXCEPT !.age = Older(@, horizon)]
AgedReplay(o, horizon) ==
    [o EXCEPT !.expected = [a \in DOMAIN @ |->
        [@[a] EXCEPT !.local = AgedInput(@, horizon)]]]
=============================================================================
