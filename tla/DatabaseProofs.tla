---------------------------- MODULE DatabaseProofs ----------------------------
(***************************************************************************)
(* What the calls that a program makes on a database promise.              *)
(*   - The high contention allocator never grants a value twice and never  *)
(*     forgets one, for any number of transactions and of calls on each of *)
(*     them, any windows, and however the windows advance.                 *)
(*   - Database::transact is safe for every bound on the retry limits.     *)
(***************************************************************************)
EXTENDS Hca, Transact, FiniteSetTheorems, TLAPS

-----------------------------------------------------------------------------
(* The allocator.                                                          *)

USE WindowAssumption, ThresholdAssumption, BoundAssumption

\* The shape of the variables.
Shape ==
    /\ db \in Content
    /\ trx \in [Client -> Transaction]
    /\ call \in [Client -> [Call -> Progress]]
    /\ granted \in [Value -> Nat]

\* A call that returned its candidate, or that is about to.
Holds(p) == p.pc = "returned" \/ (p.pc = "answer" /\ p.free /\ ~p.superseded)

\* A reader of the content cannot take v: it is recent, or a later window is open.
Taken(content, v) == v \in content.recent \/ \E s \in Start : s > v /\ content.counters[s] > 0

\* Recent keys and counters are cleared up to one window, and it is counted in.
WritesInv(w) == w.retired = w.pruned /\ (w.pruned > 0 => w.added[w.pruned] > 0)

\* What a transaction writes keeps its candidate from others: while its calls run and
\* once it commits.
HeldInv(t, p) ==
    Holds(p) =>
        /\ p.candidate \in t.writes.set \/ p.candidate < t.writes.pruned
        /\ p.candidate \in t.readConflicts
        /\ granted[p.candidate] > 0 => p.candidate \in t.changed
        /\ p.pc = "returned" => p.candidate \in t.writeConflicts

\* What was granted is known to an open transaction: from its snapshot, or as a change
\* since, with which its read conflicts.
SnapshotInv(t) ==
    t.open => \A v \in Value : granted[v] > 0 /\ v \notin t.changed => Taken(t.snapshot, v)

ClientInv(c) ==
    /\ WritesInv(trx[c].writes)
    /\ SnapshotInv(trx[c])
    /\ \A k \in Call : HeldInv(trx[c], call[c][k])
    /\ \A j, k \in Call : Holds(call[c][j]) /\ Holds(call[c][k])
                          /\ call[c][j].candidate = call[c][k].candidate => j = k
    /\ ~trx[c].open => call[c] = [k \in Call |-> NotCalled]

IInv ==
    /\ Shape
    /\ \A c \in Client : ClientInv(c)
    /\ UniqueAllocations
    /\ GrantsRemembered

-----------------------------------------------------------------------------
\* The candidates of a window are values.
LEMMA WindowInValue == ASSUME NEW s \in Start PROVE Window(s) \subseteq Value
<1>1. WindowSize(s) \in Nat /\ WindowSize(MaxStart) \in Nat /\ WindowSize(s) <= WindowSize(MaxStart)
  BY DEF WindowSize, Start
<1> QED
  BY <1>1 DEF Window, Value, Start

\* What is taken in a content is taken in any overlay, and so is what it sets.
LEMMA OverlayTaken ==
    ASSUME NEW content \in Content, NEW w \in Buffer, WritesInv(w), NEW v \in Nat,
           Taken(content, v) \/ v \in w.set \/ v < w.pruned
    PROVE  Taken(Overlay(content, w), v)
<1> DEFINE o == Overlay(content, w)
<1>1. /\ o.recent = {u \in content.recent : u >= w.pruned} \cup w.set
      /\ \A s \in Start : o.counters[s] = (IF s < w.retired THEN 0 ELSE content.counters[s]) + w.added[s]
  BY DEF Overlay
<1>2. /\ w.pruned \in Start /\ w.retired = w.pruned
      /\ w.pruned > 0 => w.added[w.pruned] > 0
      /\ \A s \in Start : w.added[s] \in Nat /\ content.counters[s] \in Nat
  BY DEF Buffer, Content, WritesInv
<1> HIDE DEF o
<1>3. CASE v < w.pruned
  <2>1. o.counters[w.pruned] > 0
    BY <1>1, <1>2, <1>3 DEF Start
  <2> QED
    BY <1>2, <1>3, <2>1 DEF Taken, o
<1>4. CASE v \in w.set
  BY <1>1, <1>4 DEF Taken, o
<1>5. CASE v \in content.recent /\ ~ v < w.pruned
  BY <1>1, <1>2, <1>5 DEF Taken, o, Start
<1>6. ASSUME NEW s \in Start, s > v, content.counters[s] > 0
      PROVE  Taken(o, v)
  <2>1. CASE s < w.pruned
    BY <1>2, <1>3, <1>6, <2>1 DEF Start, o
  <2>2. CASE ~ s < w.pruned
    <3>1. o.counters[s] > 0
      BY <1>1, <1>2, <1>6, <2>2
    <3> QED
      BY <1>6, <3>1 DEF Taken
  <2> QED
    BY <2>1, <2>2
<1> QED
  BY <1>3, <1>4, <1>5, <1>6 DEF Taken, o

LEMMA OverlayContent ==
    ASSUME NEW content \in Content, NEW w \in Buffer
    PROVE  Overlay(content, w) \in Content
BY DEF Overlay, Content, Buffer

\* A call that finds its window the latest and its candidate free in the view of its
\* transaction has found neither taken.
LEMMA FreeNotTaken ==
    ASSUME NEW content, NEW start \in Start, NEW v \in Window(start),
           \A s \in Start : content.counters[s] > 0 => s <= start, v \notin content.recent
    PROVE  ~Taken(content, v)
<1>1. v \in Value /\ v >= start
  BY WindowInValue DEF Window, Start, Value
<1> QED
  BY <1>1 DEF Taken, Start, Value

\* The view of a call whose answers are that its window is the latest and its candidate
\* free tells that neither the snapshot nor the transaction's writes have taken it.
LEMMA FreeIsNew ==
    ASSUME NEW content \in Content, NEW w \in Buffer, WritesInv(w), NEW start \in Start,
           NEW v \in Window(start), v \notin Overlay(content, w).recent,
           \A s \in Start : Overlay(content, w).counters[s] > 0 => s <= start
    PROVE  ~Taken(content, v) /\ v \notin w.set /\ ~ v < w.pruned
<1>1. ~Taken(Overlay(content, w), v)
  BY FreeNotTaken
<1>2. v \in Nat
  BY WindowInValue DEF Value
<1> QED
  BY <1>1, <1>2, OverlayTaken

LEMMA Initials == Closed \in Transaction /\ NotCalled \in Progress /\ NoWrites \in Buffer
<1>1. 0 \in Start /\ 0 \in Value
  BY DEF Start, Value, WindowSize
<1>2. NoWrites \in Buffer
  BY <1>1 DEF NoWrites, Buffer
<1>3. NotCalled \in Progress
  BY <1>1 DEF NotCalled, Progress, Phase
<1>4. Closed \in Transaction
  BY <1>2 DEF Closed, Transaction, Content
<1> QED
  BY <1>2, <1>3, <1>4

\* What a write buffer knows to be taken, a later one does too.
KeepsWrites(w, later) ==
    \A v \in Nat : v \in w.set \/ v < w.pruned => v \in later.set \/ v < later.pruned

LEMMA Incremented ==
    ASSUME NEW f \in [Start -> Nat], NEW start \in Start
    PROVE  /\ [f EXCEPT ![start] = f[start] + 1] \in [Start -> Nat]
           /\ \A s \in Start : [f EXCEPT ![start] = f[start] + 1][s] = IF s = start THEN f[s] + 1 ELSE f[s]
OBVIOUS

\* The writes of one pass through the inner loop, with or without a clear.
LEMMA CountedWrites ==
    ASSUME NEW w \in Buffer, WritesInv(w), NEW start \in Start,
           NEW cleared \in {w, Cleared(w, start)}
    PROVE  /\ Counted(cleared, start) \in Buffer
           /\ WritesInv(Counted(cleared, start))
           /\ KeepsWrites(w, Counted(cleared, start))
<1>1. CASE cleared = w
  <2> DEFINE added == [w.added EXCEPT ![start] = w.added[start] + 1]
  <2>1. Counted(w, start) = [w EXCEPT !.added = added]
    BY DEF Counted
  <2>2. added \in [Start -> Nat] /\ \A s \in Start : added[s] >= w.added[s]
    BY DEF Buffer
  <2> HIDE DEF added
  <2>3. /\ Counted(w, start) \in Buffer
        /\ Counted(w, start).added = added /\ Counted(w, start).set = w.set
        /\ Counted(w, start).retired = w.retired /\ Counted(w, start).pruned = w.pruned
    BY <2>1, <2>2 DEF Buffer
  <2>4. w.pruned \in Start /\ w.added \in [Start -> Nat]
    BY DEF Buffer
  <2> QED
    BY <1>1, <2>2, <2>3, <2>4 DEF WritesInv, KeepsWrites
<1>2. CASE cleared = Cleared(w, start)
  <2> DEFINE kept == [s \in Start |-> IF s < start THEN 0 ELSE w.added[s]]
             added == [kept EXCEPT ![start] = kept[start] + 1]
  <2>1. kept \in [Start -> Nat] /\ added \in [Start -> Nat]
    BY DEF Buffer
  <2>2. /\ added[start] > 0
        /\ \A s \in Start : s >= start => added[s] >= w.added[s]
    <3>1. w.added \in [Start -> Nat]
      BY DEF Buffer
    <3>2. \A s \in Start : kept[s] = IF s < start THEN 0 ELSE w.added[s]
      OBVIOUS
    <3> HIDE DEF kept
    <3>3. \A s \in Start : added[s] = IF s = start THEN kept[start] + 1 ELSE kept[s]
      BY <2>1, Incremented
    <3> HIDE DEF added
    <3>4. start \in Int /\ \A s \in Start : s \in Int /\ w.added[s] \in Nat
      BY <3>1 DEF Start
    <3>5. kept[start] = w.added[start] /\ added[start] = w.added[start] + 1
      BY <3>2, <3>3, <3>4
    <3>6. ASSUME NEW s \in Start, s >= start PROVE added[s] >= w.added[s]
      <4>1. CASE s = start
        BY <3>4, <3>5, <4>1
      <4>2. CASE s # start
        BY <3>2, <3>3, <3>4, <3>6, <4>2
      <4> QED
        BY <4>1, <4>2
    <3> QED
      BY <3>4, <3>5, <3>6
  <2> HIDE DEF kept, added
  <2>3. Counted(cleared, start) =
          [retired |-> Larger(start, w.retired), pruned |-> Larger(start, w.pruned),
           added |-> added, set |-> {v \in w.set : v >= start}]
    BY <1>2 DEF Counted, Cleared, kept, added
  <2>4. w.retired = w.pruned /\ w.pruned \in Start /\ w.set \subseteq Value
        /\ (w.pruned > 0 => w.added[w.pruned] > 0) /\ w.added \in [Start -> Nat]
    BY DEF Buffer, WritesInv
  <2>5. Larger(start, w.pruned) \in {start, w.pruned} /\ Larger(start, w.pruned) >= start
        /\ Larger(start, w.pruned) >= w.pruned
    BY <2>4 DEF Larger, Start
  <2>6. Counted(cleared, start) \in Buffer
    BY <2>1, <2>3, <2>4, <2>5 DEF Buffer
  <2>7. added[Larger(start, w.pruned)] > 0
    <3>1. CASE Larger(start, w.pruned) = start
      BY <2>2, <3>1
    <3>2. CASE Larger(start, w.pruned) = w.pruned /\ w.pruned # start
      <4>1. w.pruned \in Nat /\ start \in Nat /\ w.pruned >= start
        BY <2>4, <2>5, <3>2 DEF Start
      <4>2. w.pruned > 0
        BY <3>2, <4>1
      <4>3. added[w.pruned] >= w.added[w.pruned] /\ w.added[w.pruned] > 0
        BY <2>2, <2>4, <4>1, <4>2
      <4>4. added[w.pruned] \in Nat /\ w.added[w.pruned] \in Nat
        BY <2>1, <2>4
      <4> QED
        BY <3>2, <4>3, <4>4
    <3> QED
      BY <2>5, <3>1, <3>2
  <2>8. WritesInv(Counted(cleared, start))
    BY <2>3, <2>4, <2>7 DEF WritesInv
  <2>9. KeepsWrites(w, Counted(cleared, start))
    BY <2>3, <2>4, <2>5 DEF KeepsWrites, Start
  <2> QED
    BY <2>6, <2>8, <2>9
<1> QED
  BY <1>1, <1>2

-----------------------------------------------------------------------------
\* What happens to one client leaves the others as they are.
LEMMA OthersStay ==
    ASSUME NEW d \in Client, ClientInv(d), trx'[d] = trx[d], call'[d] = call[d], granted' = granted
    PROVE  ClientInv(d)'
BY DEF ClientInv, SnapshotInv, HeldInv

\* A step of one call: the transaction t it leaves takes no less than before, and the
\* call p holds its candidate alone.
LEMMA CallStep ==
    ASSUME IInv, NEW c \in Client, NEW k \in Call, NEW t \in Transaction, NEW p \in Progress,
           trx[c].open, t.open, t.snapshot = trx[c].snapshot, t.changed = trx[c].changed,
           WritesInv(t.writes), KeepsWrites(trx[c].writes, t.writes),
           trx[c].readConflicts \subseteq t.readConflicts,
           trx[c].writeConflicts \subseteq t.writeConflicts,
           HeldInv(t, p),
           \A j \in Call \ {k} :
               Holds(p) /\ Holds(call[c][j]) => call[c][j].candidate # p.candidate,
           trx' = [trx EXCEPT ![c] = t],
           call' = [call EXCEPT ![c] = [call[c] EXCEPT ![k] = p]],
           db' = db, granted' = granted
    PROVE  IInv'
<1>1. /\ trx'[c] = t /\ call'[c][k] = p
      /\ \A j \in Call \ {k} : call'[c][j] = call[c][j]
      /\ \A d \in Client \ {c} : trx'[d] = trx[d] /\ call'[d] = call[d]
  BY DEF IInv, Shape
<1>2. Shape'
  BY DEF IInv, Shape
<1>3. ASSUME NEW d \in Client PROVE ClientInv(d)'
  <2>1. CASE d # c
    BY <1>1, <2>1, OthersStay DEF IInv
  <2>2. CASE d = c
    <3>1. WritesInv(trx[c].writes)'
      BY <1>1
    <3>2. SnapshotInv(trx[c])'
      BY <1>1 DEF IInv, ClientInv, SnapshotInv
    <3>3. ASSUME NEW j \in Call PROVE HeldInv(trx[c], call[c][j])'
      <4>1. CASE j = k
        BY <1>1, <4>1 DEF HeldInv
      <4>2. CASE j # k
        <5>1. call[c][j].candidate \in Nat
          BY DEF IInv, Shape, Progress, Value
        <5>2. HeldInv(trx[c], call[c][j])
          BY DEF IInv, ClientInv
        <5> QED
          BY <1>1, <4>2, <5>1, <5>2 DEF HeldInv, KeepsWrites
      <4> QED
        BY <4>1, <4>2
    <3>4. \A i, j \in Call : Holds(call'[c][i]) /\ Holds(call'[c][j])
                              /\ call'[c][i].candidate = call'[c][j].candidate => i = j
      BY <1>1 DEF IInv, ClientInv
    <3> QED
      BY <1>1, <2>2, <3>1, <3>2, <3>3, <3>4 DEF ClientInv
  <2> QED
    BY <2>1, <2>2
<1>4. UniqueAllocations' /\ GrantsRemembered'
  BY DEF IInv, UniqueAllocations, GrantsRemembered
<1> QED
  BY <1>2, <1>3, <1>4 DEF IInv

-----------------------------------------------------------------------------
LEMMA RunningOpen ==
    ASSUME IInv, NEW c \in Client, NEW k \in Call, call[c][k].pc # "new"
    PROVE  trx[c].open
BY DEF IInv, ClientInv, NotCalled

LEMMA ReadWindowStep ==
    ASSUME IInv, NEW c \in Client, NEW k \in Call, ReadWindow(c, k)
    PROVE  IInv'
<1>1. PICK start \in Start :
          call' = [call EXCEPT ![c][k] = [NotCalled EXCEPT !.pc = "count", !.start = start]]
  BY DEF ReadWindow
<1> DEFINE p == [NotCalled EXCEPT !.pc = "count", !.start = start]
<1>2. p \in Progress /\ ~Holds(p)
  BY Initials DEF Progress, Phase, Holds
<1>3. trx[c] \in Transaction /\ call \in [Client -> [Call -> Progress]]
  BY DEF IInv, Shape
<1>4. trx' = [trx EXCEPT ![c] = trx[c]] /\ db' = db /\ granted' = granted /\ trx[c].open
  BY DEF ReadWindow, IInv, Shape
<1>5. call' = [call EXCEPT ![c] = [call[c] EXCEPT ![k] = p]]
  BY <1>1
<1>6. WritesInv(trx[c].writes) /\ KeepsWrites(trx[c].writes, trx[c].writes) /\ HeldInv(trx[c], p)
  BY <1>2 DEF IInv, ClientInv, KeepsWrites, HeldInv
<1> HIDE DEF p
<1> QED
  BY <1>2, <1>3, <1>4, <1>5, <1>6, CallStep

LEMMA CountWindowStep ==
    ASSUME IInv, NEW c \in Client, NEW k \in Call, CountWindow(c, k)
    PROVE  IInv'
<1> DEFINE q == call[c][k]
           w == trx[c].writes
           cleared == IF q.advanced THEN Cleared(w, q.start) ELSE w
           writes == Counted(cleared, q.start)
           t == [trx[c] EXCEPT !.writes = writes]
<1>1. trx[c] \in Transaction /\ q \in Progress /\ w \in Buffer /\ q.start \in Start
      /\ call \in [Client -> [Call -> Progress]]
  BY DEF IInv, Shape, Transaction, Progress
<1>2. WritesInv(w) /\ trx[c].open
  BY RunningOpen DEF IInv, ClientInv, CountWindow
<1>3. writes \in Buffer /\ WritesInv(writes) /\ KeepsWrites(w, writes)
  BY <1>1, <1>2, CountedWrites
<1>4. trx' = [trx EXCEPT ![c] = t] /\ db' = db /\ granted' = granted
  BY DEF CountWindow
<1>5. PICK p \in Progress : ~Holds(p) /\ call' = [call EXCEPT ![c] = [call[c] EXCEPT ![k] = p]]
  <2>1. CASE call' = [call EXCEPT ![c][k].pc = "choose"]
    <3>1. [q EXCEPT !.pc = "choose"] \in Progress /\ ~Holds([q EXCEPT !.pc = "choose"])
      BY <1>1 DEF Progress, Phase, Holds
    <3>2. call' = [call EXCEPT ![c] = [call[c] EXCEPT ![k] = [q EXCEPT !.pc = "choose"]]]
      BY <2>1
    <3> QED
      BY <3>1, <3>2
  <2>2. CASE /\ q.start + WindowSize(q.start) <= MaxStart
             /\ call' = [call EXCEPT ![c][k].start = @ + WindowSize(q.start),
                                     ![c][k].advanced = TRUE]
    <3> DEFINE p == [q EXCEPT !.start = q.start + WindowSize(q.start), !.advanced = TRUE]
    <3>1. q.start + WindowSize(q.start) \in Start
      BY <1>1, <2>2 DEF WindowSize, Start
    <3>2. p \in Progress
      BY <1>1, <3>1 DEF Progress
    <3>3. ~Holds(p)
      BY <1>1 DEF CountWindow, Progress, Holds
    <3>4. call' = [call EXCEPT ![c] = [call[c] EXCEPT ![k] = p]]
      BY <1>1, <2>2
    <3> QED
      BY <3>2, <3>3, <3>4
  <2> QED
    BY <2>1, <2>2 DEF CountWindow
<1>6. t \in Transaction /\ t.open /\ t.snapshot = trx[c].snapshot /\ t.changed = trx[c].changed
      /\ t.writes = writes /\ t.readConflicts = trx[c].readConflicts
      /\ t.writeConflicts = trx[c].writeConflicts
  BY <1>1, <1>2, <1>3 DEF Transaction
<1>7. HeldInv(t, p)
  BY <1>5 DEF HeldInv
<1> HIDE DEF t, writes
<1> QED
  BY <1>2, <1>3, <1>4, <1>5, <1>6, <1>7, CallStep

LEMMA ChooseStep ==
    ASSUME IInv, NEW c \in Client, NEW k \in Call, Choose(c, k)
    PROVE  IInv'
<1> DEFINE q == call[c][k]
           w == trx[c].writes
<1>1. PICK v \in Window(q.start) :
          /\ call' = [call EXCEPT ![c][k] =
                [q EXCEPT !.pc = "answer", !.candidate = v,
                          !.superseded = ~ \A s \in Start :
                                               View(c).counters[s] > 0 => s <= q.start,
                          !.free = v \notin View(c).recent]]
          /\ trx' = [trx EXCEPT ![c].writes.set = @ \cup {v},
                                ![c].readConflicts =
                                    IF v \in w.set \/ v < w.pruned THEN @ ELSE @ \cup {v}]
  BY DEF Choose
<1> DEFINE superseded == ~ \A s \in Start : View(c).counters[s] > 0 => s <= q.start
           free == v \notin View(c).recent
           p == [q EXCEPT !.pc = "answer", !.candidate = v, !.superseded = superseded,
                          !.free = free]
           writes == [w EXCEPT !.set = w.set \cup {v}]
           reads == IF v \in w.set \/ v < w.pruned THEN trx[c].readConflicts
                    ELSE trx[c].readConflicts \cup {v}
           t == [trx[c] EXCEPT !.writes = writes, !.readConflicts = reads]
<1>2. trx[c] \in Transaction /\ q \in Progress /\ w \in Buffer /\ q.start \in Start
      /\ trx[c].snapshot \in Content /\ trx[c].readConflicts \subseteq Value
      /\ call \in [Client -> [Call -> Progress]] /\ trx \in [Client -> Transaction]
  BY DEF IInv, Shape, Transaction, Progress
<1>3. WritesInv(w) /\ trx[c].open
  BY RunningOpen DEF IInv, ClientInv, Choose
<1>4. v \in Value /\ v \in Nat
  BY <1>2, WindowInValue DEF Value
<1>5. writes \in Buffer /\ WritesInv(writes) /\ KeepsWrites(w, writes) /\ v \in writes.set
  BY <1>2, <1>3, <1>4 DEF Buffer, WritesInv, KeepsWrites
<1>6. db' = db /\ granted' = granted
  BY DEF Choose
<1>7. call' = [call EXCEPT ![c] = [call[c] EXCEPT ![k] = p]]
  BY <1>1
<1>8. trx' = [trx EXCEPT ![c] = t]
  BY <1>1, <1>2 DEF Transaction, Buffer
<1>9. p \in Progress /\ p.pc = "answer" /\ p.candidate = v /\ p.superseded = superseded
      /\ p.free = free
  BY <1>2, <1>4 DEF Progress, Phase
<1>10. t \in Transaction /\ t.open /\ t.snapshot = trx[c].snapshot /\ t.changed = trx[c].changed
       /\ t.writes = writes /\ t.readConflicts = reads /\ t.writeConflicts = trx[c].writeConflicts
       /\ trx[c].readConflicts \subseteq reads
  BY <1>2, <1>3, <1>4, <1>5 DEF Transaction
<1>11. Holds(p) => ~Taken(trx[c].snapshot, v) /\ v \notin w.set /\ ~ v < w.pruned
  BY <1>2, <1>3, <1>9, FreeIsNew DEF Holds, View
<1>12. HeldInv(t, p)
  <2>1. Holds(p) => v \in reads
    BY <1>11
  <2>2. Holds(p) /\ granted[v] > 0 => v \in trx[c].changed
    BY <1>3, <1>4, <1>11 DEF IInv, ClientInv, SnapshotInv
  <2> QED
    BY <1>5, <1>9, <1>10, <2>1, <2>2 DEF HeldInv
<1>13. ASSUME NEW j \in Call \ {k}, Holds(p), Holds(call[c][j])
       PROVE  call[c][j].candidate # p.candidate
  BY <1>9, <1>11, <1>13 DEF IInv, ClientInv, HeldInv
<1> HIDE DEF t, p, writes, reads, superseded, free
<1> QED
  BY <1>3, <1>5, <1>6, <1>7, <1>8, <1>9, <1>10, <1>12, <1>13, CallStep

LEMMA ResolveStep ==
    ASSUME IInv, NEW c \in Client, NEW k \in Call, Resolve(c, k)
    PROVE  IInv'
<1> DEFINE q == call[c][k]
<1>1. trx[c] \in Transaction /\ q \in Progress /\ trx \in [Client -> Transaction]
      /\ call \in [Client -> [Call -> Progress]]
  BY DEF IInv, Shape
<1>2. WritesInv(trx[c].writes) /\ KeepsWrites(trx[c].writes, trx[c].writes) /\ trx[c].open
      /\ HeldInv(trx[c], q)
  BY RunningOpen DEF IInv, ClientInv, Resolve, KeepsWrites
<1>3. db' = db /\ granted' = granted /\ q.pc = "answer"
  BY DEF Resolve
<1>4. CASE q.free /\ ~q.superseded
  <2> DEFINE p == [NotCalled EXCEPT !.pc = "returned", !.candidate = q.candidate]
             t == [trx[c] EXCEPT !.writeConflicts = trx[c].writeConflicts \cup {q.candidate}]
  <2>1. call' = [call EXCEPT ![c] = [call[c] EXCEPT ![k] = p]] /\ trx' = [trx EXCEPT ![c] = t]
    BY <1>4 DEF Resolve
  <2>2. p \in Progress /\ p.pc = "returned" /\ p.candidate = q.candidate /\ q.candidate \in Value
    BY <1>1, Initials DEF Progress, Phase
  <2>3. t \in Transaction /\ t.open /\ t.snapshot = trx[c].snapshot /\ t.changed = trx[c].changed
        /\ t.writes = trx[c].writes /\ t.readConflicts = trx[c].readConflicts
        /\ t.writeConflicts = trx[c].writeConflicts \cup {q.candidate}
    BY <1>1, <1>2, <2>2 DEF Transaction
  <2>4. Holds(q) /\ HeldInv(t, p)
    BY <1>2, <1>3, <1>4, <2>2, <2>3 DEF Holds, HeldInv
  <2>5. \A j \in Call \ {k} : Holds(p) /\ Holds(call[c][j]) => call[c][j].candidate # p.candidate
    BY <2>2, <2>4 DEF IInv, ClientInv
  <2> HIDE DEF p, t
  <2> QED
    BY <1>2, <1>3, <2>1, <2>2, <2>3, <2>4, <2>5, CallStep
<1>5. CASE ~(q.free /\ ~q.superseded)
  <2> DEFINE p == IF q.superseded THEN NotCalled ELSE [q EXCEPT !.pc = "choose", !.candidate = 0]
  <2>1. call' = [call EXCEPT ![c] = [call[c] EXCEPT ![k] = p]] /\ trx' = [trx EXCEPT ![c] = trx[c]]
    BY <1>1, <1>5 DEF Resolve
  <2>2. p \in Progress
    BY <1>1, Initials DEF Progress, Phase, NotCalled
  <2>3. ~Holds(p)
    BY <1>1 DEF Holds, NotCalled, Progress
  <2>4. HeldInv(trx[c], p)
    BY <2>3 DEF HeldInv
  <2> HIDE DEF p
  <2> QED
    BY <1>1, <1>2, <1>3, <2>1, <2>2, <2>3, <2>4, CallStep
<1> QED
  BY <1>4, <1>5

LEMMA DropCallStep ==
    ASSUME IInv, NEW c \in Client, NEW k \in Call, DropCall(c, k)
    PROVE  IInv'
<1> DEFINE p == [NotCalled EXCEPT !.pc = "dropped"]
<1>1. trx[c] \in Transaction /\ trx \in [Client -> Transaction]
  BY DEF IInv, Shape
<1>2. WritesInv(trx[c].writes) /\ KeepsWrites(trx[c].writes, trx[c].writes) /\ trx[c].open
  BY RunningOpen DEF IInv, ClientInv, DropCall, KeepsWrites
<1>3. db' = db /\ granted' = granted /\ trx' = [trx EXCEPT ![c] = trx[c]]
      /\ call' = [call EXCEPT ![c] = [call[c] EXCEPT ![k] = p]]
  BY <1>1 DEF DropCall
<1>4. p \in Progress /\ ~Holds(p)
  BY Initials DEF Progress, Phase, Holds
<1>5. HeldInv(trx[c], p)
  BY <1>4 DEF HeldInv
<1> HIDE DEF p
<1> QED
  BY <1>1, <1>2, <1>3, <1>4, <1>5, CallStep

-----------------------------------------------------------------------------
\* A client whose calls are all new has nothing to keep.
LEMMA NothingHeld ==
    ASSUME NEW c \in Client, call'[c] = [k \in Call |-> NotCalled],
           WritesInv(trx'[c].writes), SnapshotInv(trx[c])'
    PROVE  ClientInv(c)'
<1>1. \A k \in Call : ~Holds(call'[c][k])
  BY DEF Holds, NotCalled
<1> QED
  BY <1>1 DEF ClientInv, HeldInv

LEMMA BeginStep ==
    ASSUME IInv, NEW c \in Client, Begin(c)
    PROVE  IInv'
<1> DEFINE t == [Closed EXCEPT !.open = TRUE, !.snapshot = db]
<1>1. t \in Transaction /\ t.snapshot = db /\ t.writes = NoWrites /\ t.changed = {}
  BY Initials DEF IInv, Shape, Transaction, Closed
<1>2. trx' = [trx EXCEPT ![c] = t] /\ db' = db /\ call' = call /\ granted' = granted /\ ~trx[c].open
  BY DEF Begin
<1> HIDE DEF t
<1>3. trx'[c] = t /\ \A d \in Client \ {c} : trx'[d] = trx[d]
  BY <1>2 DEF IInv, Shape
<1>4. Shape'
  BY <1>1, <1>2 DEF IInv, Shape
<1>5. ASSUME NEW d \in Client PROVE ClientInv(d)'
  <2>1. CASE d # c
    BY <1>2, <1>3, <2>1, OthersStay DEF IInv
  <2>2. CASE d = c
    <3>1. call'[c] = [k \in Call |-> NotCalled]
      BY <1>2 DEF IInv, ClientInv
    <3>2. WritesInv(NoWrites)
      BY DEF WritesInv, NoWrites
    <3>3. SnapshotInv(trx[c])'
      BY <1>1, <1>2, <1>3 DEF SnapshotInv, IInv, GrantsRemembered, Taken
    <3> QED
      BY <1>1, <1>3, <2>2, <3>1, <3>2, <3>3, NothingHeld
  <2> QED
    BY <2>1, <2>2
<1>6. UniqueAllocations' /\ GrantsRemembered'
  BY <1>2 DEF IInv, UniqueAllocations, GrantsRemembered
<1> QED
  BY <1>4, <1>5, <1>6 DEF IInv

\* A transaction that ended.
LEMMA ClosedInv == WritesInv(Closed.writes) /\ Closed.open = FALSE
BY DEF Closed, WritesInv, NoWrites

LEMMA AbortStep ==
    ASSUME IInv, NEW c \in Client, Abort(c)
    PROVE  IInv'
<1>1. /\ trx' = [trx EXCEPT ![c] = Closed] /\ db' = db /\ granted' = granted
      /\ call' = [call EXCEPT ![c] = [k \in Call |-> NotCalled]]
  BY DEF Abort, Ends
<1>2. /\ trx'[c] = Closed /\ call'[c] = [k \in Call |-> NotCalled]
      /\ \A d \in Client \ {c} : trx'[d] = trx[d] /\ call'[d] = call[d]
  BY <1>1 DEF IInv, Shape
<1>3. Shape'
  BY <1>1, Initials DEF IInv, Shape
<1>4. ASSUME NEW d \in Client PROVE ClientInv(d)'
  <2>1. CASE d # c
    BY <1>1, <1>2, <2>1, OthersStay DEF IInv
  <2>2. CASE d = c
    BY <1>2, <2>2, ClosedInv, NothingHeld DEF SnapshotInv
  <2> QED
    BY <2>1, <2>2
<1>5. UniqueAllocations' /\ GrantsRemembered'
  BY <1>1 DEF IInv, UniqueAllocations, GrantsRemembered
<1> QED
  BY <1>3, <1>4, <1>5 DEF IInv

\* The calls of a committing transaction that returned v: at most one, and none if v
\* was granted before.
LEMMA CommitGrants ==
    ASSUME IInv, NEW c \in Client, Commit(c), NEW v \in Value
    PROVE  LET K == {k \in Call : call[c][k].pc = "returned" /\ call[c][k].candidate = v}
           IN  /\ Cardinality(K) \in {0, 1}
               /\ Cardinality(K) = 1 =>
                    /\ granted[v] = 0 /\ v \in trx[c].writeConflicts
                    /\ v \in trx[c].writes.set \/ v < trx[c].writes.pruned
<1> DEFINE K == {k \in Call : call[c][k].pc = "returned" /\ call[c][k].candidate = v}
<1>1. CASE K = {}
  BY <1>1, FS_EmptySet
<1>2. ASSUME NEW k \in K
      PROVE  /\ Cardinality(K) = 1 /\ granted[v] = 0 /\ v \in trx[c].writeConflicts
             /\ v \in trx[c].writes.set \/ v < trx[c].writes.pruned
  <2>1. Holds(call[c][k]) /\ HeldInv(trx[c], call[c][k]) /\ call[c][k].candidate = v
        /\ call[c][k].pc = "returned" /\ k \in Call
    BY <1>2 DEF IInv, ClientInv, Holds
  <2>2. \A j \in K : j = k
    BY <2>1 DEF IInv, ClientInv, Holds
  <2>3. K = {k}
    BY <1>2, <2>2
  <2>4. Cardinality(K) = 1
    BY <2>3, FS_Singleton
  <2>5. v \notin trx[c].changed
    BY <2>1 DEF HeldInv, Commit, NoConflict
  <2>6. granted[v] \in Nat
    BY DEF IInv, Shape
  <2> QED
    BY <2>1, <2>4, <2>5, <2>6 DEF HeldInv
<1> QED
  BY <1>1, <1>2

LEMMA CommitStep ==
    ASSUME IInv, NEW c \in Client, Commit(c)
    PROVE  IInv'
<1> DEFINE K(v) == {k \in Call : call[c][k].pc = "returned" /\ call[c][k].candidate = v}
           w == trx[c].writes
<1>1. /\ db' = Overlay(db, w)
      /\ \A v \in Value : granted'[v] = granted[v] + Cardinality(K(v))
      /\ call' = [call EXCEPT ![c] = [k \in Call |-> NotCalled]]
  BY DEF Commit, Ends
<1>2. \A v \in Value :
        /\ Cardinality(K(v)) \in {0, 1}
        /\ Cardinality(K(v)) = 1 =>
            granted[v] = 0 /\ v \in trx[c].writeConflicts /\ (v \in w.set \/ v < w.pruned)
  BY CommitGrants
<1>3. granted' \in [Value -> Nat]
  <2>1. granted' = [v \in Value |-> granted[v] + Cardinality(K(v))]
    BY DEF Commit
  <2>2. \A v \in Value : granted[v] + Cardinality(K(v)) \in Nat
    BY <1>2 DEF IInv, Shape
  <2> HIDE DEF K
  <2> QED
    BY <2>1, <2>2
<1> HIDE DEF K
<1>4. \A v \in Value : granted'[v] > 0 =>
        granted[v] > 0 \/ (v \in trx[c].writeConflicts /\ (v \in w.set \/ v < w.pruned))
  BY <1>1, <1>2 DEF IInv, Shape
<1>5. w \in Buffer /\ WritesInv(w) /\ db \in Content /\ trx[c].writeConflicts \subseteq Value
  BY DEF IInv, Shape, Transaction, ClientInv
<1>6. ASSUME NEW d \in Client \ {c}
      PROVE  /\ call'[d] = call[d]
             /\ trx'[d] \in Transaction
             /\ trx'[d].open = trx[d].open /\ trx'[d].writes = trx[d].writes
             /\ trx'[d].snapshot = trx[d].snapshot
             /\ trx'[d].readConflicts = trx[d].readConflicts
             /\ trx'[d].writeConflicts = trx[d].writeConflicts
             /\ trx[d].changed \subseteq trx'[d].changed
             /\ trx[d].open => trx[c].writeConflicts \subseteq trx'[d].changed
  <2>1. trx[d] \in Transaction /\ call'[d] = call[d]
    BY <1>1 DEF IInv, Shape
  <2>2. trx'[d] = IF ~trx[d].open THEN trx[d]
                  ELSE [trx[d] EXCEPT !.changed = trx[d].changed \cup trx[c].writeConflicts]
    BY DEF Commit
  <2> QED
    BY <1>5, <2>1, <2>2 DEF Transaction
<1>7. trx'[c] = Closed /\ call'[c] = [k \in Call |-> NotCalled]
  BY <1>1 DEF Commit, IInv, Shape
<1>8. Shape'
  <2>1. db' \in Content
    BY <1>1, <1>5, OverlayContent
  <2>2. \A d \in Client : trx'[d] \in Transaction
    BY <1>6, <1>7, Initials
  <2>3. trx' \in [Client -> Transaction]
    BY <2>2 DEF Commit
  <2>4. call' \in [Client -> [Call -> Progress]]
    BY <1>1, Initials DEF IInv, Shape
  <2> QED
    BY <1>3, <2>1, <2>3, <2>4 DEF Shape
<1>9. ASSUME NEW d \in Client PROVE ClientInv(d)'
  <2>1. CASE d = c
    BY <1>7, <2>1, ClosedInv, NothingHeld DEF SnapshotInv
  <2>2. CASE d # c
    <3>1. ClientInv(d)
      BY DEF IInv
    <3>2. SnapshotInv(trx[d])'
      BY <1>4, <1>6, <2>2, <3>1 DEF ClientInv, SnapshotInv
    <3>3. ASSUME NEW k \in Call, Holds(call[d][k]) PROVE HeldInv(trx[d], call[d][k])'
      <4>1. HeldInv(trx[d], call[d][k])
        BY <3>1 DEF ClientInv
      <4>2. trx[d].open
        BY <3>1, <3>3 DEF ClientInv, Holds, NotCalled
      <4>3. call[d][k].candidate \in Value
        BY DEF IInv, Shape, Progress
      <4> QED
        BY <1>4, <1>6, <2>2, <3>3, <4>1, <4>2, <4>3 DEF HeldInv
    <3>4. \A k \in Call : HeldInv(trx[d], call[d][k])'
      BY <1>6, <2>2, <3>3 DEF HeldInv
    <3> QED
      BY <1>6, <2>2, <3>1, <3>2, <3>4 DEF ClientInv
  <2> QED
    BY <2>1, <2>2
<1>10. UniqueAllocations'
  BY <1>1, <1>2 DEF IInv, Shape, UniqueAllocations
<1>11. GrantsRemembered'
  <2>1. ASSUME NEW v \in Value, granted'[v] > 0
        PROVE  Taken(Overlay(db, w), v)
    <3>1. Taken(db, v) \/ v \in w.set \/ v < w.pruned
      BY <1>4, <2>1 DEF IInv, GrantsRemembered, Taken
    <3>2. v \in Nat
      BY DEF Value
    <3> QED
      BY <1>5, <3>1, <3>2, OverlayTaken
  <2> QED
    BY <1>1, <2>1 DEF GrantsRemembered, Taken
<1> QED
  BY <1>8, <1>9, <1>10, <1>11 DEF IInv

-----------------------------------------------------------------------------
LEMMA InvInit == Init => IInv
<1> SUFFICES ASSUME Init PROVE IInv
  OBVIOUS
<1>1. Shape
  BY Initials DEF Init, Shape, Transaction
<1>2. ASSUME NEW c \in Client PROVE ClientInv(c)
  <2>1. trx[c] = Closed /\ call[c] = [k \in Call |-> NotCalled]
    BY DEF Init
  <2>2. \A k \in Call : ~Holds(call[c][k])
    BY <2>1 DEF Holds, NotCalled
  <2> QED
    BY <2>1, <2>2, ClosedInv DEF ClientInv, SnapshotInv, HeldInv
<1>3. UniqueAllocations /\ GrantsRemembered
  BY DEF Init, UniqueAllocations, GrantsRemembered
<1> QED
  BY <1>1, <1>2, <1>3 DEF IInv

LEMMA InvNext == IInv /\ [Next]_vars => IInv'
<1> SUFFICES ASSUME IInv, [Next]_vars PROVE IInv'
  OBVIOUS
<1>1. CASE Next
  <2>1. PICK c \in Client :
          \/ Begin(c)
          \/ \E k \in Call : ReadWindow(c, k) \/ CountWindow(c, k) \/ Choose(c, k)
                             \/ Resolve(c, k) \/ DropCall(c, k)
          \/ Commit(c)
          \/ Abort(c)
    BY <1>1 DEF Next
  <2>2. ASSUME NEW k \in Call,
               ReadWindow(c, k) \/ CountWindow(c, k) \/ Choose(c, k) \/ Resolve(c, k) \/ DropCall(c, k)
        PROVE  IInv'
    BY <2>2, ReadWindowStep, CountWindowStep, ChooseStep, ResolveStep, DropCallStep
  <2> QED
    BY <2>1, <2>2, BeginStep, CommitStep, AbortStep
<1>2. CASE UNCHANGED vars
  <2>1. \A d \in Client : ClientInv(d)'
    BY <1>2, OthersStay DEF IInv, vars
  <2> QED
    BY <1>2, <2>1 DEF IInv, vars, Shape, UniqueAllocations, GrantsRemembered
<1> QED
  BY <1>1, <1>2

\* The inductive invariant, of any number of clients and calls.
THEOREM InvCorrect == Spec => []IInv
BY InvInit, InvNext, PTL DEF Spec

\* allocate: no value is returned by two calls whose transactions commit, whatever the
\* windows, the clears and the calls dropped on the way.
THEOREM UniqueCorrect == Spec => []UniqueAllocations
<1>1. IInv => UniqueAllocations
  BY DEF IInv
<1> QED
  BY <1>1, InvCorrect, PTL

\* The clears of a window advance never make a granted value look free.
THEOREM RememberedCorrect == Spec => []GrantsRemembered
<1>1. IInv => GrantsRemembered
  BY DEF IInv
<1> QED
  BY <1>1, InvCorrect, PTL

-----------------------------------------------------------------------------
(* Database::transact.                                                    *)

USE LimitAssumption

\* What an attempt may have left behind, by where the loop is: only a failed
\* commit has an effect before the call returns, and the one retried without
\* is_idempotent is at most one that timed out, which on_error refuses.
EffectsInv ==
    ~options.idempotent =>
        /\ pc \in {"create", "closure", "commit"} => effects = 0
        /\ pc \in {"failed", "on_error"} => error \in FdbError
        /\ pc = "failed" => effects = 0 \/ (effects = 1 /\ error \in Uncertain)
        /\ pc = "on_error" => effects = 0 \/ (effects = 1 /\ error = "timed_out")
        /\ pc = "done" =>
            /\ effects <= 1
            /\ result = "ok" => effects = 1
            /\ result \notin Uncertain \cup {"ok"} => effects = 0

\* can_retry counts an attempt once it failed: while one runs, one more was
\* started than counted.
TriesInv ==
    options.retryLimit # None =>
        /\ pc = "create" => starts = 0 /\ tries = 0
        /\ pc \in {"closure", "commit", "failed"} =>
            starts = tries + 1 /\ (tries = 0 \/ tries < options.retryLimit)
        /\ pc = "on_error" => starts = tries /\ tries < options.retryLimit
        /\ pc = "done" => starts <= 1 \/ starts <= options.retryLimit

TransactInv == TypeOK /\ EffectsInv /\ TriesInv

-----------------------------------------------------------------------------
\* A call starts without attempts and without effects.
LEMMA TransactInvInit == TransactInit => TransactInv
<1> SUFFICES ASSUME TransactInit PROVE TransactInv
  OBVIOUS
<1>1. TypeOK
  <2>1. options \in TransactOption /\ pc \in {"create", "closure", "commit", "failed", "on_error", "done"}
    BY DEF TransactInit
  <2>2. error \in FdbError \cup {None} /\ result \in FdbError \cup {"custom", "ok", None}
    BY DEF TransactInit
  <2>3. tries \in 0 .. MaxLimit /\ starts \in 0 .. MaxLimit + 2 /\ effects \in 0 .. 2
    BY DEF TransactInit
  <2>4. late \in BOOLEAN
    BY DEF TransactInit
  <2> QED
    BY <2>1, <2>2, <2>3, <2>4 DEF TypeOK
<1>2. EffectsInv
  BY DEF TransactInit, EffectsInv
<1>3. TriesInv
  BY DEF TransactInit, TriesInv
<1> QED
  BY <1>1, <1>2, <1>3 DEF TransactInv

\* Every step of the loop keeps the types.
LEMMA TypeStep == TypeOK /\ [TransactNext]_transactvars => TypeOK'
<1> SUFFICES ASSUME TypeOK, [TransactNext]_transactvars PROVE TypeOK'
  OBVIOUS
<1> USE DEF TypeOK, FdbError, Uncertain, AtMost, Returns
<1>1. CASE CreateTransaction
  BY <1>1 DEF CreateTransaction
<1>2. CASE ClosureSucceeds
  BY <1>2 DEF ClosureSucceeds
<1>3. CASE ClosureFails
  BY <1>3 DEF ClosureFails
<1>4. CASE CommitSucceeds
  BY <1>4 DEF CommitSucceeds
<1>5. CASE CommitFails
  BY <1>5 DEF CommitFails
<1>6. CASE DecideRetry
  BY <1>6 DEF DecideRetry
<1>7. CASE OnErrorSucceeds
  BY <1>7 DEF OnErrorSucceeds
<1>8. CASE OnErrorRefuses
  BY <1>8 DEF OnErrorRefuses
<1>9. CASE DeadlinePasses
  BY <1>9 DEF DeadlinePasses
<1>10. CASE UNCHANGED transactvars
  BY <1>10 DEF transactvars
<1> QED
  BY <1>1, <1>2, <1>3, <1>4, <1>5, <1>6, <1>7, <1>8, <1>9, <1>10 DEF TransactNext, Loop

\* No step of the loop hides an effect or adds a second one.
LEMMA EffectsStep == TypeOK /\ EffectsInv /\ [TransactNext]_transactvars => EffectsInv'
<1> SUFFICES ASSUME TypeOK, EffectsInv, [TransactNext]_transactvars, ~options'.idempotent
             PROVE  EffectsInv'
  BY DEF EffectsInv
<1> USE DEF TypeOK, EffectsInv, FdbError, Uncertain, AtMost, Returns
<1>1. CASE CreateTransaction
  BY <1>1 DEF CreateTransaction
<1>2. CASE ClosureSucceeds
  BY <1>2 DEF ClosureSucceeds
<1>3. CASE ClosureFails
  BY <1>3 DEF ClosureFails
<1>4. CASE CommitSucceeds
  BY <1>4 DEF CommitSucceeds
<1>5. CASE CommitFails
  BY <1>5 DEF CommitFails
<1>6. CASE DecideRetry
  BY <1>6 DEF DecideRetry, MayRetry, IsMaybeCommitted
<1>7. CASE OnErrorSucceeds
  BY <1>7 DEF OnErrorSucceeds, Retryable
<1>8. CASE OnErrorRefuses
  BY <1>8 DEF OnErrorRefuses
<1>9. CASE DeadlinePasses
  BY <1>9 DEF DeadlinePasses
<1>10. CASE UNCHANGED transactvars
  BY <1>10 DEF transactvars
<1> QED
  BY <1>1, <1>2, <1>3, <1>4, <1>5, <1>6, <1>7, <1>8, <1>9, <1>10 DEF TransactNext, Loop

\* No step of the loop starts a closure the limit does not allow.
LEMMA TriesStep == TypeOK /\ TriesInv /\ [TransactNext]_transactvars => TriesInv'
<1> SUFFICES ASSUME TypeOK, TriesInv, [TransactNext]_transactvars, options'.retryLimit # None
             PROVE  TriesInv'
  BY DEF TriesInv
<1> USE DEF TypeOK, TriesInv, AtMost, Returns
<1>0. options' = options /\ options.retryLimit \in 0 .. MaxLimit
  <2>1. options' = options
    BY DEF TransactNext, Loop, transactvars, CreateTransaction, ClosureSucceeds, ClosureFails, CommitSucceeds,
           CommitFails, DecideRetry, OnErrorSucceeds, OnErrorRefuses, DeadlinePasses
  <2> QED
    BY <2>1 DEF TransactOption
<1>1. CASE CreateTransaction
  BY <1>0, <1>1 DEF CreateTransaction
<1>2. CASE ClosureSucceeds
  BY <1>0, <1>2 DEF ClosureSucceeds
<1>3. CASE ClosureFails
  BY <1>0, <1>3 DEF ClosureFails
<1>4. CASE CommitSucceeds
  BY <1>0, <1>4 DEF CommitSucceeds
<1>5. CASE CommitFails
  BY <1>0, <1>5 DEF CommitFails
<1>6. CASE DecideRetry
  BY <1>0, <1>6 DEF DecideRetry, CanRetry
<1>7. CASE OnErrorSucceeds
  BY <1>0, <1>7 DEF OnErrorSucceeds
<1>8. CASE OnErrorRefuses
  BY <1>0, <1>8 DEF OnErrorRefuses
<1>9. CASE DeadlinePasses
  BY <1>0, <1>9 DEF DeadlinePasses
<1>10. CASE UNCHANGED transactvars
  BY <1>0, <1>10 DEF transactvars
<1> QED
  BY <1>1, <1>2, <1>3, <1>4, <1>5, <1>6, <1>7, <1>8, <1>9, <1>10 DEF TransactNext, Loop

\* The invariant of the loop holds throughout a call of transact.
THEOREM TransactInvCorrect == TransactSpec => []TransactInv
<1>1. TransactInv /\ [TransactNext]_transactvars => TransactInv'
  BY TypeStep, EffectsStep, TriesStep DEF TransactInv
<1> QED
  BY <1>1, TransactInvInit, PTL DEF TransactSpec

\* is_idempotent: however often and wherever the attempts of a call fail, a closure
\* not declared idempotent takes effect at most once and its result tells.
THEOREM AtMostOnceCorrect == TransactSpec => []AtMostOnce
<1>1. TransactInv => AtMostOnce
  BY DEF TransactInv, TypeOK, EffectsInv, AtMostOnce, Uncertain
<1> QED
  BY <1>1, TransactInvCorrect, PTL

\* retry_limit: for every limit the closure is started at most that often.
THEOREM LimitsCorrect == TransactSpec => []LimitsHold
<1>1. TransactInv => LimitsHold
  BY DEF TransactInv, TypeOK, TransactOption, TriesInv, LimitsHold
<1> QED
  BY <1>1, TransactInvCorrect, PTL
=============================================================================
