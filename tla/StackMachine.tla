---------------------------- MODULE StackMachine ----------------------------
(***************************************************************************)
(* The stack machine of the binding tester (foundationdb-bindingtester):   *)
(* it runs a program of instructions, a stack of items some of which are   *)
(* futures, and a map from names to transactions.  An instruction takes    *)
(* the current transaction out of the map and puts it back when it ends;   *)
(* commit and on_error consume the transaction, which comes back with the  *)
(* result of a future that lies on the stack.  What can go wrong is a      *)
(* transaction that nobody holds any more when an instruction wants it:    *)
(* run_step then panics.                                                   *)
(*                                                                         *)
(* A program is any sequence of instructions whose arguments have the      *)
(* expected kind.  Items are names of transactions, futures, or other      *)
(* data; instruction numbers, keys and values are left out.  The result of *)
(* a future is chosen when it is issued and seen when it is awaited.       *)
(* Directory instructions are in DirectoryInstructions.                    *)
(***************************************************************************)
EXTENDS Naturals, Sequences, FiniteSets

CONSTANTS
    Names,      \* transaction names
    Prefix,     \* the machine's prefix, its first transaction
    MaxStack,   \* bound: items on the stack
    MaxIds,     \* bound: futures that own a transaction, LOG_STACKs
    None        \* Option::None, or no entry in the map

ASSUME PrefixAssumption == Prefix \in Names
ASSUME BoundAssumption == MaxStack \in Nat /\ MaxIds \in Nat

VARIABLES
    stack,              \* the stack, oldest item first
    transactions,       \* the transaction map
    cur_transaction,    \* the name in use
    last_version,       \* where the last seen version came from
    trx_counter,        \* ids given to futures
    lost                \* names whose transaction an error or EMPTY_STACK dropped

machinevars == <<stack, transactions, cur_transaction, last_version, trx_counter, lost>>
counters == <<last_version, trx_counter>>

-----------------------------------------------------------------------------
(* TransactionState and StackItem.                                         *)

State(s) == [state |-> s, id |-> None]
Pending(id) == [state |-> "Pending", id |-> id]
Resting == {"Transaction", "Cancelled", "Committed", "CommitError"}
TransactionState == {State(s) : s \in Resting} \cup {Pending(i) : i \in 1 .. MaxIds}

\* A future that owns no transaction has id 0.
Future == [id : 0 .. MaxIds, name : Names \cup {None}, state : Resting \cup {None}]
Item == [data : Names \cup {"data"}, fut : {None}] \cup [data : {None}, fut : Future]

ASSUME NoneAssumption == None \notin Names \cup {"data"} \cup Future \cup TransactionState

DataItem(data) == [data |-> data, fut |-> None]
Issued(id, name, state) ==
    [data |-> None, fut |-> [id |-> id, name |-> name, state |-> state]]

\* await_fut: the item's data is the result, or the packed error.
Awaited(item) == IF item.fut = None THEN item ELSE DataItem("data")

\* TransactionState::reset.
Renewed(t) == IF t.state \in {"Committed", "CommitError"} THEN State("Transaction") ELSE t

\* as_mut and take panic on a transaction a future owns.
Usable(t) == t # None /\ t.state \in Resting

-----------------------------------------------------------------------------
(* The start of run_step: the current transaction leaves the map, and the  *)
(* future that owns it is awaited where it lies on the stack.              *)

Held == transactions[cur_transaction]

Owner(t) == {i \in 1 .. Len(stack) : stack[i].fut # None /\ t # None /\ t.state = "Pending"
                                     /\ stack[i].fut.id = t.id}

Current_NotAwaited == Held
Current ==
    IF Owner(Held) = {} THEN Held
    ELSE State(stack[CHOOSE i \in Owner(Held) : TRUE].fut.state)

Settled ==
    [i \in 1 .. Len(stack) |-> IF i \in Owner(Held) THEN Awaited(stack[i]) ELSE stack[i]]

Taken == [transactions EXCEPT ![cur_transaction] = None]

(* pop awaits the item it returns, and a transaction that comes back with  *)
(* it goes to the map.                                                     *)

Below(items, n) == SubSeq(items, 1, Len(items) - n)
Popped(items, n) == [i \in 1 .. n |-> items[Len(items) - n + i]]

Returned(map, items) ==
    [name \in Names |->
        LET back == {i \in DOMAIN items : items[i].fut # None /\ items[i].fut.name = name}
        IN IF back = {} THEN map[name]
           ELSE State(items[CHOOSE i \in back : \A j \in back : i <= j].fut.state)]

\* The end of run_step: the current transaction goes back, unless the map has
\* a newer one.
Restored(map, t) ==
    IF map[cur_transaction] = None THEN [map EXCEPT ![cur_transaction] = t] ELSE map

-----------------------------------------------------------------------------
(* An instruction on the current transaction pops n items, leaves the      *)
(* transaction as t and pushes out.                                      *)
Instruction(n, t, out) ==
    /\ Held # None /\ Len(Settled) >= n
    /\ Len(Settled) - n + Len(out) <= MaxStack
    /\ stack' = Below(Settled, n) \o out
    /\ transactions' = Restored(Returned(Taken, Popped(Settled, n)), t)
    /\ UNCHANGED cur_transaction

\* The same with check(number, ...)?: the error is pushed and run_step returns
\* at once, without the current transaction.
Abandoned(n) ==
    /\ Held # None /\ Len(Settled) >= n
    /\ Len(Settled) - n + 1 <= MaxStack
    /\ stack' = Below(Settled, n) \o <<DataItem("data")>>
    /\ transactions' = Returned(Taken, Popped(Settled, n))
    /\ lost' = IF transactions'[cur_transaction] = None
               THEN lost \cup {cur_transaction} ELSE lost
    /\ UNCHANGED cur_transaction

\* With _DATABASE, the instruction has a transaction of its own, and the map is
\* touched by what the popped items return.  A read is awaited at once, and its
\* transaction is kept if the map has no current one.
ReadDatabase(n) ==
    /\ Len(stack) >= n /\ Len(stack) - n < MaxStack
    /\ stack' = Below(stack, n) \o <<DataItem("data")>>
    /\ transactions' = Restored(Returned(transactions, Popped(stack, n)),
                                State("Transaction"))
    /\ lost' = IF Held = None THEN lost \ {cur_transaction} ELSE lost
    /\ UNCHANGED <<cur_transaction, counters>>

\* A mutation is committed, and its result or its error pushed.
MutateDatabase(n) ==
    /\ Len(stack) >= n /\ Len(stack) - n < MaxStack
    /\ stack' = Below(stack, n) \o <<DataItem("data")>>
    /\ transactions' = Returned(transactions, Popped(stack, n))
    /\ UNCHANGED <<cur_transaction, lost, counters>>

\* Its transaction cannot be created: the error is pushed, and nothing popped.
DatabaseFails ==
    /\ Len(stack) < MaxStack
    /\ stack' = Append(stack, DataItem("data"))
    /\ UNCHANGED <<transactions, cur_transaction, lost, counters>>

Data(n) == [i \in 1 .. n |-> DataItem("data")]
Compute(n, out) == Instruction(n, Current, Data(out)) /\ UNCHANGED <<lost, counters>>

-----------------------------------------------------------------------------
(* Data operations, which leave the transaction alone.                     *)

Push(element) == Instruction(0, Current, <<DataItem(element)>>) /\ UNCHANGED <<lost, counters>>

Pop == Compute(1, 0)

Top(item) == Len(Settled) > 0 /\ item = Awaited(Settled[Len(Settled)])

Dup ==
    \E item \in Item :
        /\ Top(item)
        /\ Instruction(1, Current, <<item, item>>)
        /\ UNCHANGED <<lost, counters>>

WaitFuture ==
    \E item \in Item :
        /\ Top(item)
        /\ Instruction(1, Current, <<item>>)
        /\ UNCHANGED <<lost, counters>>

\* The depth is popped; the items themselves, futures included, change places.
Swap(depth) ==
    LET rest == Below(Settled, 1)
        top == Len(rest)
    IN /\ Held # None /\ Top(DataItem("data")) /\ depth < top
       /\ stack' = [rest EXCEPT ![top] = rest[top - depth], ![top - depth] = rest[top]]
       /\ transactions' = Restored(Returned(Taken, Popped(Settled, 1)), Current)
       /\ UNCHANGED <<cur_transaction, lost, counters>>

\* EMPTY_STACK drops the futures it finds, and the transactions they own.
EmptyStack ==
    /\ Held # None
    /\ stack' = <<>>
    /\ transactions' = Restored(Taken, Current)
    /\ lost' = lost \cup {name \in Names \ {cur_transaction} :
                            \E i \in 1 .. Len(stack) : /\ stack[i].fut # None
                                                       /\ stack[i].fut.name = name}
    /\ UNCHANGED <<cur_transaction, counters>>

Sub == Compute(2, 1)
Concat == Compute(2, 1)
Convert == Compute(1, 1)            \* ENCODE_ and DECODE_FLOAT, _DOUBLE
TuplePack(n) == Compute(n + 1, 1)
TuplePackWithVersionstamp(n, complete) == Compute(n + 2, IF complete THEN 2 ELSE 1)
TupleUnpack(n) == Compute(1, n)
TupleRange(n) == Compute(n + 1, 2)
TupleSort(n) == Compute(n + 1, n)

-----------------------------------------------------------------------------
(* Transactions and the map.                                               *)

\* create_trx puts a new transaction in the map, where the end of run_step
\* finds it and drops the old one.
NewTransaction ==
    /\ Held # None
    /\ stack' = Settled
    /\ transactions' = Restored([transactions EXCEPT ![cur_transaction] = State("Transaction")],
                                Current)
    /\ lost' = lost \ {cur_transaction}
    /\ UNCHANGED <<cur_transaction, counters>>
NewTransactionFails == Abandoned(0) /\ UNCHANGED counters

UseTransaction_ForgetsCurrent(name) ==
    LET returned == Returned(Taken, Popped(Settled, 1))
    IN /\ Held # None /\ Top(DataItem(name))
       /\ stack' = Below(Settled, 1)
       /\ transactions' = IF returned[name] = None
                          THEN [returned EXCEPT ![name] = State("Transaction")] ELSE returned
       /\ cur_transaction' = name
       /\ UNCHANGED <<lost, counters>>

\* The current transaction is put back, unless popping the name brought back a
\* newer one, before the other is looked up.
UseTransaction(name) ==
    LET kept == Restored(Returned(Taken, Popped(Settled, 1)), Current)
    IN /\ Held # None /\ Top(DataItem(name))
       /\ stack' = Below(Settled, 1)
       /\ transactions' = IF kept[name] = None
                          THEN [kept EXCEPT ![name] = State("Transaction")] ELSE kept
       /\ cur_transaction' = name
       /\ UNCHANGED <<lost, counters>>

\* The new transaction cannot be created: the current one is in the map.
UseTransactionFails(name) ==
    LET kept == Restored(Returned(Taken, Popped(Settled, 1)), Current)
    IN /\ Held # None /\ Top(DataItem(name)) /\ kept[name] = None
       /\ stack' = Below(Settled, 1) \o <<DataItem("data")>>
       /\ transactions' = kept
       /\ UNCHANGED <<cur_transaction, lost, counters>>

\* take: the transaction goes to a future that gives it back when awaited.
Hand(n, state) ==
    /\ Usable(Current) /\ trx_counter < MaxIds
    /\ trx_counter' = trx_counter + 1
    /\ Instruction(n, Pending(trx_counter + 1),
                   <<Issued(trx_counter + 1, cur_transaction, state)>>)
    /\ UNCHANGED <<last_version, lost>>

OnError == Hand(1, "Transaction")
Commit(ok) == Hand(0, IF ok THEN "Committed" ELSE "CommitError")

\* Cancel, through take and cancel.
Cancel ==
    /\ Usable(Current)
    /\ Instruction(0, State("Cancelled"), <<>>)
    /\ UNCHANGED <<lost, counters>>

\* LOG_STACK pops the prefix, then every item, and commits the current
\* transaction, by batches of a hundred items; a failed commit panics.
LogStack ==
    /\ Usable(Current) /\ trx_counter < MaxIds /\ Len(stack) > 0
    /\ trx_counter' = trx_counter + 1
    /\ Instruction(Len(Settled), State("Transaction"), <<>>)
    /\ UNCHANGED <<last_version, lost>>

\* get, get_key, get_versionstamp: as_mut, then a future that owns nothing.
Fetch(n) ==
    /\ Usable(Current)
    /\ Instruction(n, Renewed(Current), <<Issued(0, None, None)>>)
    /\ UNCHANGED <<lost, counters>>

\* Reads that are awaited at once, conflict ranges and keys: as_mut, and a
\* result or an error is pushed.
Ask(n) ==
    /\ Usable(Current)
    /\ Instruction(n, Renewed(Current), Data(1))
    /\ UNCHANGED <<lost, counters>>

\* Mutations, SET_READ_VERSION, RESET: as_mut, and nothing is pushed.
Mutate(n) ==
    /\ Usable(Current)
    /\ Instruction(n, Renewed(Current), <<>>)
    /\ UNCHANGED <<lost, counters>>

Get == Fetch(1)
GetKey == Fetch(4)
GetVersionstamp == Fetch(0)
GetRange(n) == Ask(n)
AddConflictRange == Ask(2)
AddConflictKey == Ask(1)
GetApproximateSize == Ask(0)
GetEstimatedRangeSize == Ask(2)
GetRangeSplitPoints == Ask(3)
Set == Mutate(2)
Clear == Mutate(1)
ClearRange(n) == Mutate(n)
AtomicOp == Mutate(3)
SetReadVersion == Mutate(0)
Reset == Mutate(0)

\* GET_READ_VERSION keeps the version it read, if it read one.
GetReadVersion(ok) ==
    /\ Usable(Current)
    /\ Instruction(0, Renewed(Current), Data(1))
    /\ last_version' = IF ok THEN "read" ELSE last_version
    /\ UNCHANGED <<trx_counter, lost>>

\* It looks at the transaction without resetting it.
GetCommittedVersion ==
    /\ Instruction(0, Current, Data(1))
    /\ last_version' = IF Current = State("Committed") THEN "committed" ELSE "invalid"
    /\ UNCHANGED <<trx_counter, lost>>

\* Instructions whose failure goes through check(...)?.
DisableWriteConflict == Mutate(0)
DisableWriteConflictFails == Usable(Current) /\ Abandoned(0) /\ UNCHANGED counters
WaitEmpty == Compute(1, 1)
WaitEmptyFails == Abandoned(1) /\ UNCHANGED counters
UnitTests == Mutate(0)
UnitTestsFail == Usable(Current) /\ Abandoned(0) /\ UNCHANGED counters

\* A thread has a machine of its own, with its own map and its own stack: it
\* leaves nothing here but the handle to join.
StartThread == Compute(1, 0)

-----------------------------------------------------------------------------
MachineInit ==
    /\ stack = <<>>
    /\ transactions = [name \in Names |-> IF name = Prefix THEN State("Transaction") ELSE None]
    /\ cur_transaction = Prefix
    /\ last_version = "none" /\ trx_counter = 0
    /\ lost = {}

DataInstruction ==
    \/ \E element \in Names \cup {"data"} : Push(element)
    \/ Pop
    \/ Dup
    \/ WaitFuture
    \/ \E depth \in 0 .. MaxStack : Swap(depth)
    \/ EmptyStack
    \/ Sub
    \/ Concat
    \/ Convert
    \/ StartThread
    \/ WaitEmpty
    \/ WaitEmptyFails

TupleInstruction == \E n \in 0 .. MaxStack :
    \/ TuplePack(n)
    \/ \E complete \in BOOLEAN : TuplePackWithVersionstamp(n, complete)
    \/ TupleUnpack(n)
    \/ TupleRange(n)
    \/ TupleSort(n)

MapInstruction ==
    \/ NewTransaction
    \/ NewTransactionFails
    \/ \E name \in Names : UseTransaction(name) \/ UseTransactionFails(name)
    \/ OnError
    \/ \E ok \in BOOLEAN : Commit(ok)
    \/ Cancel
    \/ Reset
    \/ LogStack

TransactionInstruction ==
    \/ Get
    \/ GetKey
    \/ GetVersionstamp
    \/ \E n \in {4, 5, 10} : GetRange(n)
    \/ AddConflictRange
    \/ AddConflictKey
    \/ GetApproximateSize
    \/ GetEstimatedRangeSize
    \/ GetRangeSplitPoints
    \/ Set
    \/ Clear
    \/ \E n \in {1, 2} : ClearRange(n)
    \/ AtomicOp
    \/ SetReadVersion
    \/ \E ok \in BOOLEAN : GetReadVersion(ok)
    \/ GetCommittedVersion
    \/ DisableWriteConflict
    \/ DisableWriteConflictFails
    \/ UnitTests
    \/ UnitTestsFail

\* The instructions that have a _DATABASE form, by their arguments.
DatabaseForms ==
    \/ \E n \in {1, 4, 5, 10} : ReadDatabase(n)
    \/ \E n \in {1, 2, 3} : MutateDatabase(n)
    \/ DatabaseFails

MachineNext ==
    \/ DataInstruction
    \/ TupleInstruction
    \/ MapInstruction
    \/ TransactionInstruction
    \/ DatabaseForms

MachineSpec == MachineInit /\ [][MachineNext]_machinevars

-----------------------------------------------------------------------------
(* Properties.                                                             *)

\* TransactionState::Pending: unless an error or EMPTY_STACK lost it, the
\* current transaction is in the map and usable once its future is awaited, so
\* no instruction panics in as_mut, take or remove, and each transaction that
\* a future owns comes back from exactly one item of the stack.
TransactionsOwned ==
    /\ cur_transaction \notin lost => Usable(Current)
    /\ \A name \in Names \ lost :
        LET t == transactions[name]
        IN {i \in 1 .. Len(stack) : stack[i].fut # None /\ stack[i].fut.name = name}
           = Owner(t)
           /\ Cardinality(Owner(t)) = IF t # None /\ t.state = "Pending" THEN 1 ELSE 0

\* TransactionState: an instruction changes no transaction but its own, except
\* to bring back one whose future it awaits, and UseTransaction leaves its own
\* as it was: what a transaction has read, written or committed is there when
\* the program returns to it.
KeepsOthers ==
    /\ \A name \in Names \ {cur_transaction} :
        LET t == transactions[name]
        IN t # None => transactions'[name] \in
                            {t} \cup {State(stack[i].fut.state) : i \in Owner(t)}
    /\ cur_transaction' # cur_transaction => transactions'[cur_transaction] = Current
OthersKept == [][KeepsOthers]_machinevars
=============================================================================
