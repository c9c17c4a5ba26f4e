-------------------------- MODULE ElectionWorkload --------------------------
(***************************************************************************)
(* The leader election workload of foundationdb-recipes-simulation: what   *)
(* its clients do to one election and one ranked register, the log they    *)
(* leave, and the oracle that replays it (ElectionOracle).                 *)
(*                                                                         *)
(* A client is its plan: the steps it is still to do, of which one may     *)
(* begin, end, or put others in front.  Every operation is one run of      *)
(* Database::run that writes an entry to the log, so it takes effect at    *)
(* its commit.  With AutomaticIdempotency a commit is applied at most once *)
(* though its outcome be unknown; the run then returns or fails.           *)
(*                                                                         *)
(* Time.  Clients share the clock of the simulator.  A run takes between   *)
(* one tick and script.runs, the rest no time, and a timer may be TimerEps *)
(* early.  Instants are ages that saturate at Horizon; a lease longer than *)
(* Horizon outlasts every behaviour.                                       *)
(***************************************************************************)
EXTENDS RegisterOps, ElectionOracle, Sequences

CONSTANTS
    Client,         \* 0 .. client_count - 1
    LeaseOf,        \* lease_duration of each client
    Longer,         \* what a changed lease (lease_duration_for_round) may add
    ForeignLonger,  \* what the foreign participant's lease is longer by
    Scripts,        \* bounds: clients, rounds and their kinds, the end, run times, failures
    Horizon         \* ages saturate here

VARIABLES
    rec, reg,   \* the election's record and the register
    marks,      \* the phase markers, with their statuses
    client,     \* the clients
    oracle,     \* the replay of the log so far
    alarms,     \* the protocol errors reported by the clients
    failures,   \* runs that failed, before the completion and in it
    script      \* one of Scripts

vars == <<rec, reg, marks, client, oracle, alarms, failures, script>>

-----------------------------------------------------------------------------
(* Values.                                                                 *)

\* A participant ID: what its text begins with, the client and its incarnation.
Id(text, label, c) == [text |-> text, label |-> label, client |-> c, inc |-> client[c].inc]
Me(c) == Id("id", client[c].label, c)
Foreign(c) == Id("id", "foreign", c)

Step(op, mode, lease, delay) == [op |-> op, mode |-> mode, lease |-> lease, delay |-> delay]
Do(op, mode) == Step(op, mode, 1, "none")
Poll(lease, delay) == Step("poll", "once", lease, delay)

\* Runs that log an operation.
Logged == {"poll", "foreign", "stale_poll", "resign", "stale_resign", "stale_write", "observe"}

NoOutcome == [decision |-> "none", rec |-> NoRecord]

NewClient ==
    [label |-> "own", inc |-> 0, local |-> UnknownInput, post |-> NoPost,
     last |-> UnknownInput, stale |-> UnknownInput,     \* last_leadership, stale_leadership
     held |-> UnknownInput, seen |-> UnknownInput,      \* locals: a token, an observation
     led |-> FALSE, status |-> "ready",                 \* locals: Some(leadership), status
     round |-> 0, zeroDone |-> FALSE, staleDone |-> FALSE, pauseDone |-> FALSE,
     forced |-> FALSE, failed |-> FALSE,
     plan |-> <<>>, phase |-> "ready", since |-> 0, left |-> 0, claim |-> UnknownInput,
     outcome |-> NoOutcome]

Now(c) == Head(client[c].plan)
Ready(c) == client[c].phase = "ready" /\ client[c].plan # <<>>

\* AdoptionDelay::duration
DelayFor(delay, lease) ==
    CASE delay = "shorter" -> lease \div 2 [] delay = "exact" -> lease
      [] delay = "longer" -> lease + 1 [] OTHER -> NoPlan

Fresh(x, label) ==
    [x EXCEPT !.inc = @ + 1, !.label = label, !.local = UnknownInput, !.post = NoPost,
              !.last = UnknownInput, !.stale = UnknownInput]
\* Where x goes on: its next steps, in front of the rest of its plan.
Then(x, steps) == [x EXCEPT !.plan = steps \o Tail(@), !.phase = "ready", !.outcome = NoOutcome,
                            !.claim = UnknownInput, !.since = 0]

\* The oracle need not expect more of an incarnation that ended.
Forgotten(o, actor) == [o EXCEPT !.expected = [a \in DOMAIN @ \ {actor} |-> @[a]]]

Others == <<rec, reg, marks, oracle, alarms, failures, script>>

-----------------------------------------------------------------------------
(* One operation.                                                          *)

\* The claim an operation makes, and who makes it.
ClaimOf(c, step) ==
    CASE step.op = "poll" -> client[c].local
      [] step.op = "resign" /\ step.mode # "final" -> client[c].local
      [] step.op \in {"stale_poll", "stale_resign", "resign"} -> client[c].held
      [] OTHER -> UnknownInput
ActorOf(c, step) ==
    CASE step.op = "foreign" -> Foreign(c)
      [] step.op \in {"resign", "stale_resign"} -> client[c].claim.owner
      [] OTHER -> Me(c)

\* The clock is read once, before the run.
Begin(c) ==
    /\ Ready(c) /\ Now(c).op \in Logged
    /\ client' = [client EXCEPT ![c].phase = "running", ![c].claim = ClaimOf(c, Now(c))]
    /\ UNCHANGED Others

\* run_poll's transaction: its entry, and the register it leaves.
PollEntry(c, step) ==
    LET x == client[c]
        p == ActorOf(c, step)
        decision == Decide(rec, p, x.claim, x.claim.age - x.since)
        leads == decision \in LeaderDecision
        next == LeaderRecord(rec, p, step.lease)
        fenced == RankedRead(reg, next.revision)
        entry == [Entry("poll", p, rec, x.since) EXCEPT
                    !.local = x.claim, !.tracks = step.op = "poll", !.configured = step.lease,
                    !.post = IF step.op = "poll" THEN x.post ELSE NoPost]
    IN  IF leads
        THEN [entry |-> [entry EXCEPT
                !.current = next, !.transition = decision,
                !.requested = next.revision, !.observed = fenced.maxWrite, !.value = fenced.value,
                !.committed = WriteAccepted(fenced, next.revision), !.payload = ProtectedPayload(p)],
              reg |-> RankedWrite(fenced, next.revision, ProtectedPayload(p)),
              outcome |-> [decision |-> decision, rec |-> next]]
        ELSE [entry |-> [entry EXCEPT !.result = FALSE, !.transition = "Followed",
                !.planned = IF step.op = "poll" /\ decision = "Reset"
                            THEN DelayFor(step.delay, rec.lease) ELSE NoPlan],
              reg |-> reg, outcome |-> [decision |-> decision, rec |-> rec]]

\* run_resign's
ResignEntry(c, step) ==
    LET x == client[c]
        released == Claimed(x.claim) = rec
    IN  [entry |-> [Entry("resign", x.claim.owner, rec, x.since) EXCEPT
            !.current.owner = IF released THEN Nobody ELSE @, !.local = x.claim,
            !.tracks = step.op = "resign", !.result = released, !.configured = step.lease,
            !.post = IF step.mode = "own" THEN x.post ELSE NoPost],
         reg |-> reg,
         outcome |-> [NoOutcome EXCEPT !.decision = IF released THEN "Resigned" ELSE "Rejected"]]

\* run_stale_write's, at rank zero, the one of the token, or the race's.
StaleWriteEntry(c, step) ==
    LET rank == CASE step.mode = "zero" -> 0 [] step.mode = "race" -> client[c].seen.rank
                  [] OTHER -> client[c].held.rank
        after == RankedWrite(reg, rank, StalePayload(Me(c)))
    IN  [entry |-> [Entry("stale_write", Me(c), rec, client[c].since) EXCEPT
            !.result = WriteAccepted(reg, rank), !.committed = WriteAccepted(reg, rank),
            !.requested = rank, !.observed = after.maxWrite, !.value = after.value,
            !.payload = StalePayload(Me(c))],
         reg |-> after,
         outcome |-> [NoOutcome EXCEPT !.decision =
                        IF WriteAccepted(reg, rank) THEN "Committed" ELSE "Aborted"]]

Operation(c, step) ==
    CASE step.op \in {"poll", "foreign", "stale_poll"} -> PollEntry(c, step)
      [] step.op \in {"resign", "stale_resign"} -> ResignEntry(c, step)
      [] step.op = "stale_write" -> StaleWriteEntry(c, step)
      [] OTHER -> [entry |-> Entry("observe", Me(c), rec, client[c].since), reg |-> reg,
                   outcome |-> NoOutcome]

\* The commit is applied, with its entry in the log: once.
Commits(c) ==
    LET did == Operation(c, Now(c))
    IN  /\ client[c].phase = "running" /\ Now(c).op \in Logged /\ client[c].since >= 1
        /\ rec' = did.entry.current /\ reg' = did.reg
        /\ oracle' = Replay(oracle, did.entry)
        /\ client' = [client EXCEPT ![c].phase = "applied", ![c].outcome = did.outcome]
        /\ UNCHANGED <<marks, alarms, failures, script>>

-----------------------------------------------------------------------------
(* What the client makes of the result.                                    *)

\* exercise_stale_tokens, of the token in `held`.
StaleTokens(c) ==
    <<Step("stale_poll", "", LeaseOf[c], "none"), Do("wait", "held"),
      Step("stale_resign", "", LeaseOf[c], "none"), Do("stale_write", "token")>>

Adopted_AtTheStart(x) ==
    LET to(kind, age) == [kind |-> kind, owner |-> x.outcome.rec.owner, age |-> age,
                          rank |-> x.outcome.rec.revision, lease |-> x.outcome.rec.lease]
    IN  CASE x.outcome.decision \in LeaderDecision -> to("leadership", x.since)
          [] x.outcome.decision = "Preserve" -> x.claim
          [] OTHER -> to("observation", x.since)

\* LocalState::adopt.  The run took some time, so the adoption is later than
\* its beginning.
Adopted(x) ==
    LET to(kind, age) == [kind |-> kind, owner |-> x.outcome.rec.owner, age |-> age,
                          rank |-> x.outcome.rec.revision, lease |-> x.outcome.rec.lease]
    IN  CASE x.outcome.decision \in LeaderDecision -> to("leadership", x.since)
          [] x.outcome.decision = "Preserve" -> x.claim
          [] OTHER -> to("observation", 0)

\* A tracked poll: the local state, and the leaderships it makes stale.
Polled(c, x) ==
    LET mine == Adopted(x)
        leads == mine.kind = "leadership"
        mode == Now(c).mode
        y == [x EXCEPT !.local = mine, !.led = leads,
                !.last = IF leads /\ mode # "race" THEN mine ELSE @,
                !.stale = IF leads /\ mode # "race" /\ x.last.kind # "unknown" /\ x.last.rank < mine.rank
                          THEN x.last ELSE @,
                !.forced = IF mode = "round" THEN leads /\ ~x.pauseDone ELSE @]
    IN  Then(y, IF mode = "round" /\ leads /\ ~x.zeroDone THEN <<Do("stale_write", "zero")>> ELSE <<>>)

\* What a run that returned Ok leaves behind, the adoption of a poll apart.
Returned(c, x) ==
    LET step == Now(c)
        ok == x.outcome.decision
        won == x.outcome.decision \in LeaderDecision
        token == [kind |-> "leadership", owner |-> x.outcome.rec.owner, age |-> x.since,
                  rank |-> x.outcome.rec.revision, lease |-> x.outcome.rec.lease]
    IN  CASE step.op = "foreign" /\ won ->
                Then([x EXCEPT !.held = token, !.local = UnknownInput, !.post = NoPost],
                     <<Poll(step.lease - ForeignLonger, step.delay),
                       Step("observed", "", step.lease - ForeignLonger, "none")>>)
          [] step.op = "resign" /\ step.mode = "own" /\ ok = "Resigned" ->
                Then([x EXCEPT !.local = UnknownInput, !.post = NoPost],
                     <<Step("foreign", "", step.lease + ForeignLonger, step.delay)>>)
          [] step.op = "stale_write" /\ step.mode = "zero" ->
                Then([x EXCEPT !.zeroDone = ok = "Aborted"], <<>>)
          [] step.op = "stale_write" /\ step.mode = "token" ->
                Then([x EXCEPT !.staleDone = ok = "Aborted"], <<>>)
          [] step.op = "stale_write" /\ step.mode = "race" ->
                Then([x EXCEPT !.status = IF ok = "Aborted" THEN "contended" ELSE "error"], <<>>)
          [] OTHER -> Then(x, <<>>)

\* protocol_error
Alarming(c, x) ==
    LET ok == x.outcome.decision
    IN  \/ Now(c).op = "stale_write" /\ ok = "Committed"
        \/ Now(c).op = "stale_poll" /\ ok = "Renewed"
        \/ Now(c).op = "stale_resign" /\ ok = "Resigned"
        \/ Now(c).op = "resign" /\ Now(c).mode = "final" /\ ok = "Rejected"

Returns(c) ==
    LET x == client[c]
        planned == IF x.outcome.decision = "Reset" THEN DelayFor(Now(c).delay, x.outcome.rec.lease)
                   ELSE NoPlan
    IN  /\ x.phase = "applied"
        /\ client' = [client EXCEPT ![c] =
                IF Now(c).op # "poll" THEN Returned(c, x)
                ELSE IF planned = NoPlan THEN Polled(c, [x EXCEPT !.post = 0])
                ELSE [x EXCEPT !.phase = "delayed", !.post = 0, !.left = planned]]
        /\ alarms' = IF Alarming(c, x) THEN alarms \cup {Now(c)} ELSE alarms
        /\ UNCHANGED <<rec, reg, marks, oracle, failures, script>>

\* The planned delay is over, or almost.
AdoptionDelayed(c) ==
    /\ client[c].phase = "delayed" /\ client[c].left <= TimerEps
    /\ client' = [client EXCEPT ![c] = Polled(c, client[c])]
    /\ UNCHANGED Others

\* A run fails, its commit applied or not.  The client replaces an incarnation
\* whose local state it may have lost.
RunFails(c) ==
    LET x == client[c]
        step == Now(c)
        gone == step.op = "poll" \/ (step.op = "resign" /\ step.mode = "own")
        y == [x EXCEPT !.led = FALSE, !.failed = TRUE,
                       !.status = IF step.mode = "race" THEN "error" ELSE @]
    IN  /\ x.phase \in {"running", "applied", "delayed"} /\ step.op \in Logged
        /\ failures < script.failures /\ failures' = failures + 1
        /\ client' = [client EXCEPT ![c] = Then(IF gone THEN Fresh(y, "own") ELSE y, <<>>)]
        /\ oracle' = IF gone THEN Forgotten(oracle, Me(c)) ELSE oracle
        /\ UNCHANGED <<rec, reg, marks, alarms, script>>

-----------------------------------------------------------------------------
(* Timers and phase markers.                                               *)

\* COMPLETION_RENEWAL_BASE_LEASE_DURATION; a renewal makes it a second longer.
Forever == Horizon + 1

\* What delay_until waits for: the end of the lease of an observation, of the
\* own leadership or of a token, a tick before or after it; or an offset.
Remaining(c, step) ==
    LET x == client[c]
        Ends(state, offset) == IF state.lease > Horizon THEN Forever ELSE state.lease + offset - state.age
        lease == IF x.local.kind = "unknown" THEN LeaseOf[c] ELSE x.local.lease
        After(offset) == offset - x.local.age
    IN  CASE step.mode = "before" -> Ends(x.seen, -1)
          [] step.mode = "exact" -> Ends(x.seen, 0)
          [] step.mode = "held" -> Ends(x.held, 1)
          [] step.mode = "half" -> After(lease \div 2)
          [] step.mode = "lease" -> After(lease)
          [] step.mode = "after" -> After(lease + 1)
          [] OTHER -> 1

Waits(c) ==
    LET left == Remaining(c, Now(c))
    IN  /\ Ready(c) /\ Now(c).op = "wait"
        /\ client' = [client EXCEPT ![c].phase = "waiting", ![c].left = IF left > 0 THEN left ELSE 0]
        /\ UNCHANGED Others

\* A wait for a lease that outlasts the behaviour does not end.
Wakes(c) ==
    /\ client[c].phase = "waiting" /\ client[c].left <= TimerEps
    /\ client' = [client EXCEPT ![c] = Then(@, <<>>)]
    /\ UNCHANGED Others

\* write_phase_marker, tried until it is done.
Marks(c) ==
    LET status == IF Now(c).mode = "done" THEN client[c].status ELSE "ready"
    IN  /\ \/ Ready(c) /\ Now(c).op = "mark" /\ UNCHANGED marks
              /\ client' = [client EXCEPT ![c].phase = "running"]
           \/ client[c].phase = "running" /\ Now(c).op = "mark" /\ client[c].since >= 1
              /\ marks' = marks \cup {<<Now(c).mode, c, status>>}
              /\ client' = [client EXCEPT ![c] = Then(@, <<>>)]
        /\ UNCHANGED <<rec, reg, oracle, alarms, failures, script>>

\* wait_for_phase_markers, read again and again.
Marked(phase, c) == \E m \in marks : m[1] = phase /\ m[2] = c
Awaits(c) ==
    /\ \/ Ready(c) /\ Now(c).op = "await"
          /\ client' = [client EXCEPT ![c].phase = "awaiting"]
       \/ client[c].phase = "awaiting" /\ client[c].since >= 1
          /\ \A d \in script.clients : Marked(Now(c).mode, d)
          /\ client' = [client EXCEPT ![c] = Then(@, <<>>)]
    /\ UNCHANGED Others

-----------------------------------------------------------------------------
(* The program of a client: what it decides between its operations.        *)

Kinds == {"poll", "change", "observe", "resign", "stale", "drop"}
Phase(name) == <<Do("mark", name), Do("await", name)>>

\* One round of start: a kind, the adoption delay, the pause at its end.
Round(c, kind, delay, lease, pause) ==
    LET polls == client[c].round = 0 \/ kind \in {"poll", "change"}
    IN  (IF polls THEN <<Step("poll", "round", lease, delay)>> ELSE <<>>)
          \o (CASE kind = "observe" -> <<Do("observe", "")>>
                [] kind = "resign" -> <<Step("resign?", "", lease, delay)>>
                [] kind = "stale" -> <<Do("stale?", "")>>
                [] kind = "drop" -> <<Do("replace", "own")>>
                [] OTHER -> <<>>)
          \o <<Do("pause?", pause)>>

BeginRound(c) ==
    LET x == client[c]
    IN  /\ x.phase = "ready" /\ x.plan = <<>> /\ x.round < script.rounds
        /\ \E kind \in script.kinds, delay \in {"none", "shorter", "exact", "longer"} \cap script.delays,
              pause \in {"half", "lease", "after"} \cap script.pauses, more \in {0, Longer} :
            /\ kind = "change" \/ more = 0
            /\ client' = [client EXCEPT
                    ![c].plan = Round(c, kind, delay, LeaseOf[c] + more, pause),
                    ![c].round = @ + 1, ![c].forced = FALSE]
        /\ UNCHANGED Others

\* The end of start: the race, and for client 0 the completion.
BeginRace(c) ==
    /\ client[c].phase = "ready" /\ client[c].plan = <<>>
    /\ client[c].round = script.rounds /\ script.last # "rounds"
    /\ client' = [client EXCEPT
            ![c].round = @ + 1,
            ![c].plan = Phase("ready")
                \o <<Do("replace", "race"), Step("poll", "race", LeaseOf[c], "none")>>
                \o Phase("observed") \o <<Do("expire?", "")>> \o Phase("expired")
                \o <<Do("race?", "")>> \o Phase("done")
                \o (IF c = 0 /\ script.last = "completion" THEN <<Do("complete", "")>> ELSE <<>>)]
    /\ UNCHANGED Others

\* lease_duration_for_round, from one phase of the completion to the next.
LeaseFor(c, k) == LeaseOf[c] + (IF k % 2 = 0 THEN 0 ELSE Longer)
Completion(c, k) ==
    LET delay == <<"shorter", "exact", "longer">>[k]
    IN  <<Poll(LeaseFor(c, k), delay), Step("led?", "first", LeaseFor(c, k + 1), delay),
          Step("tail?", "observation", LeaseFor(c, k), delay)>>

\* What the next step, a decision, puts in front of the plan.
Decided(c, step) ==
    LET x == client[c]
        again == Poll(step.lease, step.delay)
        follows == x.local.kind = "observation"
        leads == x.local.kind = "leadership"
        observing == [x EXCEPT !.seen = IF follows THEN x.local ELSE UnknownInput]
        stale == x.stale.kind # "unknown"
        When(holds, steps) == IF holds THEN steps ELSE <<>>
    IN  CASE step.op = "replace" -> Then(Fresh(x, IF step.mode = "race" THEN "race" ELSE "own"), <<>>)
          [] step.op = "resign?" ->
                Then(x, When(leads, <<Step("resign", "own", step.lease, step.delay)>>))
          [] step.op = "stale?" ->
                Then([x EXCEPT !.held = IF stale THEN x.stale ELSE @],
                     When(stale /\ ~x.staleDone, StaleTokens(c)))
          [] step.op = "pause?" ->
                Then([x EXCEPT !.pauseDone = @ \/ x.forced],
                     <<Do("wait", IF ~x.forced THEN step.mode
                                  ELSE IF x.local.kind = "unknown" THEN "tick" ELSE "after")>>)
          \* force_foreign_takeover, from the poll that follows the foreign one.
          [] step.op = "observed" ->
                Then(observing, When(
                    follows /\ x.local.owner # Me(c) /\ x.local.lease = x.held.lease,
                    <<Do("wait", "before"), again, Do("wait", "exact"), again, Do("taken?", "")>>))
          [] step.op = "taken?" ->
                Then(x, When(x.led /\ x.local.rank > x.held.rank, StaleTokens(c)))
          \* coordinated_takeover_race
          [] step.op = "expire?" -> Then(observing, When(follows, <<Do("wait", "exact")>>))
          [] step.op = "race?" ->
                IF x.status = "error" THEN Then(x, <<>>)
                ELSE IF x.seen.kind = "unknown" THEN Then([x EXCEPT !.status = "incumbent"], <<>>)
                ELSE Then(x, <<Step("poll", "race", LeaseOf[c], "none"), Do("raced?", "")>>)
          [] step.op = "raced?" ->
                Then(x, When(x.status # "error", <<Do("stale_write", "race")>>))
          \* complete_witnesses
          [] step.op = "complete" ->
                Then([x EXCEPT !.failed = FALSE],
                     <<Do("replace", "own")>> \o Completion(c, 1) \o Completion(c, 2)
                        \o Completion(c, 3) \o <<Do("replace", "own"), Poll(LeaseFor(c, 4), "longer"),
                            Step("adopt?", "", LeaseFor(c, 4), "longer"),
                            Step("adopted?", "", LeaseFor(c, 4), "none"),
                            Do("replace", "own"), Poll(Forever, "none"), Do("loop?", "")>>)
          [] step.op = "led?" /\ step.mode = "first" ->
                Then(x, When(x.led, <<again, Step("led?", "second", step.lease, step.delay),
                                      Do("replace", "own"), again>>))
          [] step.op = "led?" ->
                Then([x EXCEPT !.held = IF x.led THEN x.stale ELSE @],
                     When(x.led, StaleTokens(c) \o <<Step("resign", "own", step.lease, step.delay)>>))
          [] step.op = "tail?" /\ step.mode = "observation" ->
                Then(observing, When(follows, <<Do("wait", "before"), again, Do("wait", "exact"), again>>)
                                    \o <<Step("tail?", "leadership", step.lease, step.delay)>>)
          [] step.op = "tail?" -> Then(x, When(leads, <<Do("wait", "after"), again>>))
          [] step.op = "adopt?" -> Then(x, When(leads, <<Do("replace", "own"), again>>))
          [] step.op = "adopted?" -> Then(x, When(follows, <<again>>))
          \* force_exact_resign_and_follower_duration_reset
          [] step.op = "loop?" ->
                IF x.led THEN Then(x, <<Poll(Forever + 1, "none"), Do("renewed?", "")>>)
                ELSE Then(observing, <<Do("wait", IF follows THEN "exact" ELSE "tick"),
                                       Poll(Forever, "none"), step>>)
          [] OTHER ->   \* renewed?
                Then([x EXCEPT !.held = x.local],
                     When(x.led, <<Do("replace", "keep"), Poll(Forever + 1, "none"),
                                   Step("resign", "final", Forever + 1, "none")>>))

Decisions == {"replace", "resign?", "stale?", "pause?", "observed", "taken?", "expire?", "race?", "raced?",
              "complete", "led?", "tail?", "adopt?", "adopted?", "loop?", "renewed?"}

\* A replaced incarnation logs nothing more, but for the last one to resign.
Decides(c) ==
    /\ Ready(c) /\ Now(c).op \in Decisions
    /\ client' = [client EXCEPT ![c] = Decided(c, Now(c))]
    /\ oracle' = IF Now(c).op = "replace" /\ Now(c).mode # "keep"
                 THEN Forgotten(oracle, Me(c)) ELSE oracle
    /\ UNCHANGED <<rec, reg, marks, alarms, failures, script>>

-----------------------------------------------------------------------------
\* Time passes when nobody can do anything without it, or overdue.
MayWait(x) ==
    \/ x.phase \in {"running", "applied"} /\ x.since < script.runs
    \/ x.phase \in {"waiting", "delayed"} /\ x.left > 0
    \/ x.phase = "awaiting" /\ (x.since < script.runs \/ \E d \in script.clients : ~Marked(Head(x.plan).mode, d))
    \/ /\ x.phase = "ready" /\ x.plan = <<>>
       /\ x.round > script.rounds \/ (x.round = script.rounds /\ script.last = "rounds")

AgedClient(x) ==
    LET InRun == x.phase \in {"running", "applied", "delayed", "awaiting"}
    IN  [x EXCEPT !.local = AgedInput(@, Horizon), !.claim = AgedInput(@, Horizon),
                  !.last = AgedInput(@, Horizon), !.stale = AgedInput(@, Horizon),
                  !.held = AgedInput(@, Horizon), !.seen = AgedInput(@, Horizon),
                  !.post = IF @ = NoPost THEN @ ELSE Older(@, Horizon),
                  !.since = IF InRun THEN Older(@, Horizon) ELSE @,
                  !.left = IF x.phase \in {"waiting", "delayed"} /\ @ <= Horizon THEN @ - 1 ELSE @]
Tick ==
    /\ \A c \in script.clients : MayWait(client[c])
    /\ client' = [c \in Client |-> AgedClient(client[c])]
    /\ oracle' = AgedReplay(oracle, Horizon)
    /\ UNCHANGED <<rec, reg, marks, alarms, failures, script>>

Init ==
    /\ rec = NoRecord /\ reg = EmptyRegister(Nobody) /\ marks = {}
    /\ client = [c \in Client |-> NewClient] /\ oracle = NewReplay
    /\ alarms = {} /\ failures = 0 /\ script \in Scripts

Next ==
    \/ \E c \in script.clients :
        \/ BeginRound(c)
        \/ BeginRace(c)
        \/ Decides(c)
        \/ Begin(c)
        \/ Commits(c)
        \/ Returns(c)
        \/ AdoptionDelayed(c)
        \/ RunFails(c)
        \/ Waits(c)
        \/ Wakes(c)
        \/ Marks(c)
        \/ Awaits(c)
    \/ Tick

Spec == Init /\ [][Next]_vars

-----------------------------------------------------------------------------
(* Properties.                                                             *)

\* replay, protocol_error, continuous_snapshot_check: whatever the clients do,
\* and however their runs interleave, are delayed or fail, the oracle accepts the
\* log they leave and ends with the state the database holds; no client sees a
\* stale token work, and a snapshot of the two recipes is sound.
OracleAccepts ==
    /\ oracle.ok /\ alarms = {}
    /\ rec = oracle.rec /\ reg.maxWrite = oracle.rank /\ reg.value = oracle.value
    /\ IF rec.revision = 0 THEN rec = NoRecord ELSE rec.lease > 0
    /\ reg.maxWrite <= rec.revision /\ (reg.maxWrite = 0) = (reg.value = Nobody)

\* When no run of the race failed, it had its contenders, who all observed one
\* predecessor, one winner, and a stale write of each contender; and the oracle
\* counts the contenders that the clients counted.
Over(c) == client[c].phase = "ready" /\ client[c].plan = <<>> /\ client[c].round > script.rounds
With(status) == {m \in marks : m[1] = "done" /\ m[3] = status}
RaceWitnessed ==
    (\A c \in script.clients : Marked("done", c)) /\ With("error") = {} =>
        /\ Cardinality(With("contended")) = Cardinality(oracle.race.contenders)
        /\ Cardinality(With("contended")) >= 2 => SawRace(oracle)
        /\ Cardinality(With("incumbent")) <= 1

\* "complete_witnesses deterministically drives these paths after the swarm
\* finishes" (its comment): when no run of the completion failed, the oracle saw
\* them all.  A client alone that played no round may lack the stale write.
WitnessesForced == script.last = "completion" /\ Over(0) /\ ~client[0].failed => oracle.saw = Forced

\* check: what the race and the completion are there to show was shown, so that no
\* correct run is reported as an error for a missing witness.
WitnessesSeen == RaceWitnessed /\ WitnessesForced
=============================================================================
