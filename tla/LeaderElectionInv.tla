------------------------- MODULE LeaderElectionInv -------------------------
(***************************************************************************)
(* The inductive invariant of LeaderElection.                              *)
(*                                                                         *)
(* What each participant knows or is about to write is stated relative to  *)
(* the durable state of the moment.  The heart is Legal: a write that the  *)
(* database would still accept, whether its client waits for it or has     *)
(* given it up, is one of three kinds, each harmless whenever it lands.    *)
(***************************************************************************)
EXTENDS LeaderElection

\* In all three, r is the record, g the register and age the record's age at
\* the moment.  A new epoch: the next revision with its fence, and perhaps a
\* write under it.  It replaces another owner only once that lease ran out.
EpochTxn(t, r, g, age) ==
    /\ t.reads = Key /\ t.writes = Key
    /\ t.rec.revision = r.revision + 1
    /\ t.rec.owner \in Participant
    /\ t.reg.maxRead = t.rec.revision
    /\ \/ t.reg.maxWrite = t.rec.revision /\ t.reg.value = t.rec.owner
       \/ t.reg.maxWrite = g.maxWrite /\ t.reg.value = g.value
    /\ r.owner \notin {Nobody, t.rec.owner} => age >= r.lease

\* The release of the current epoch.
ReleaseTxn(t, r) ==
    /\ t.reads = {"election"} /\ t.writes = {"election"}
    /\ r.owner # Nobody
    /\ t.rec = [r EXCEPT !.owner = Nobody]

\* The first write of the current epoch, by its owner (or former owner).
WriteTxn(t, r, g) ==
    /\ t.reads = {"register"} /\ t.writes = {"register"}
    /\ t.reg.maxRead = g.maxRead
    /\ t.reg.maxWrite = r.revision /\ g.maxWrite < r.revision
    /\ t.reg.value \in Participant
    /\ r.owner \in {t.reg.value, Nobody}

Legal(t, r, g, age) == EpochTxn(t, r, g, age) \/ ReleaseTxn(t, r) \/ WriteTxn(t, r, g)

\* What a participant remembers: an observation of the record as it stands is
\* no older than the record, a leadership of it no younger.
LocalInv(p) ==
    /\ local[p].rank <= rec.revision
    /\ (local[p].kind = "observation" /\ rec.owner \in Participant
            /\ SameRecord(rec, local[p].owner, local[p].rank, local[p].lease))
        => local[p].age <= recAge
    /\ (local[p].kind = "leadership" /\ rec.owner = p) => recAge <= local[p].age

\* The run in progress.
Seen(p) == run[p].phase = "done" \/ (Committing(p) /\ ReadOnly(p))
RunInv(p) ==
    /\ run[p].rank \in {0, token[p].last, token[p].stale}
    /\ (run[p].op = "poll" /\ run[p].phase \in {"attempt", "commit"})
        => run[p].elapsed <= local[p].age
    /\ run[p].phase = "done" => Polling(p)
    /\ Seen(p) => run[p].txn.rec.revision <= rec.revision
    /\ (run[p].phase = "done" /\ run[p].result \in LeaderDecision /\ rec.owner = p)
        => recAge <= run[p].since
    /\ (Committing(p) /\ Polling(p)) => run[p].txn.writes \in {{}, Key}
    /\ (Committing(p) /\ run[p].result \in LeaderDecision)
        => /\ Polling(p)
           /\ run[p].txn.writes = Key /\ run[p].txn.rec.owner = p
    /\ (Committing(p) /\ run[p].txn.writes = {"election"})
        => /\ run[p].op = "resign" /\ run[p].result = "Resigned"
           /\ run[p].fresh => rec.owner = p /\ local[p].rank = rec.revision
    /\ (Committing(p) /\ ~ReadOnly(p) /\ run[p].fresh) => Legal(run[p].txn, rec, reg, recAge)

\* A rank granted to p: if the record r still carries it, p owns the record
\* or released it.
RankOK(rank, p, r) ==
    /\ rank <= r.revision
    /\ rank = r.revision /\ rank # 0 => r.owner \in {p, Nobody}
RankInv(p) == \A rank \in Ranks(p) : RankOK(rank, p, rec)

Disjoint == \A p, q \in Participant : p # q => Ranks(p) \cap Ranks(q) \subseteq {0}

ParticipantInv(p) == LocalInv(p) /\ RunInv(p) /\ RankInv(p)

IInv ==
    /\ TypeOK
    /\ FenceAtEpoch
    /\ Disjoint
    /\ \A t \in limbo : Legal(t, rec, reg, recAge)
    /\ \A p \in Participant : ParticipantInv(p)
=============================================================================
