# mDBMS in TLA+

A TLA+ model of this repository's database server: concurrency control (locks, timestamps, validation, versions), the
path of a write through buffer pool, log, checkpoint, rollback and recovery, the sessions of the clients, the statements
from their tokens to the rows they change, the index files, and the protocol between client and server. TLC checks the
models on small instances; TLAPS proves the main results about locks, the buffer pool, the log and recovery, sessions, timestamps
and the client protocol for every number of transactions, keys, frames, crashes, clients, tables, queries and retries.

Paths below are relative to the repository (`src/` in PROJECT.json). Definitions keep the names of the
code; PROJECT.json maps each to its lines.

## 1. The system

A server process runs one thread per client (`server.py`). The thread passes each statement to one shared
`QueryProcessor`, which has it parsed and rewritten by the `OptimizationEngine`, asks the `ConcurrencyControlManager`
(CCM) for access to each table, lets the `StorageEngine` read or change rows through the `BufferManager`, and ends the
transaction through the CCM, which tells the `FailureRecoveryManager` (FRM). The FRM owns the buffer pool, the log
`wal.log` and the `RecoveryEngine`. Everything is shared by all threads; the only locks in the process guard the
id generator, the client counter and the FRM's set of active transactions. A client runs two threads of its own, for
queries and for heartbeats, over one socket.

| Component | State | Operations | What is hard about it | What makes it correct |
|---|---|---|---|---|
| Lock strategy (`lock_based_strategy.py`) | lock table: object -> type, holders | validate, log (validate again, assign), end | several calls, no mutual exclusion; wounding calls back into it | two-phase exclusion, no lock lost, none leaked |
| Coordinator, end of transaction, transaction manager | status, active/committed/aborted sets, `waiting_for` | begin, execute, validate, commit, abort | a commit and a wound at the same time | one outcome per transaction |
| Deadlock detector | none (reads `waiting_for`) | check_and_resolve | edges left by denied and abandoned requests | no cycle stays |
| Timestamp, validation, multi-version strategies | timestamps; read/write sets; versions | the same three calls | order of ids, validation that is never called | serializability or snapshot isolation |
| Id generator | counter | generate | ids are ordered as strings | unique ids |
| CCM facade (`Concurrency_Control_Manager/classes.py`) | current strategy | begin, validate, log, commit, abort, set mechanism | commit and rollback are sequences of calls on other components | the sequence keeps WAL and disk consistent |
| Buffer manager | rows by key, LRU order, dirty and deleted flags | read, write, delete, evict, flush, recovery writes | dirty rows of running transactions reach the disk; deleted rows stay buffered | reads see the last write, the pool keeps its capacity |
| Write ahead log (`wal_manager.py`) | file of records | lifecycle, operation, checkpoint, two cuts, backward iteration | cuts while others run | what may have to be undone is never cut |
| Recovery engine | none (works on log and buffer) | recover, abort_transaction | crashes between any two steps | committed work is redone, the rest undone |
| FRM | active transactions | notify, save_checkpoint, abort, recover | list of active transactions read before the checkpoint is written | checkpoint names exactly the unfinished |
| Log history | audit file | append | - | - |
| Storage engine, serializer | table and schema files | read, insert, update, delete, flush callback, DDL, statistics | merges disk and buffer, key check on both | one row per key |
| Hash and B+ tree indexes | index files: key -> row numbers | create, insert, delete, search, range | row numbers change under flushes, splits with duplicates | the index finds what a scan finds |
| Query processor, sessions | one session per client, one shared `current_transaction_id` | dispatch, begin/commit/rollback, auto-commit, retries | the shared id | a statement runs in its own transaction, and every transaction is ended by its session |
| Query processor, operators and DDL | none (works on the storage engine) | select, insert, update, delete, create, drop with foreign keys | several evaluators of one expression; cascades | a statement does what its text means |
| Query optimizer | statistics cache | parse, rewrite, cost | precedence through two parsers; rewritings | the tree means what the text means, before and after |
| Server, client | sockets, receive buffers, heartbeat clock | query, heartbeat | two client threads share one socket and one buffer; a dropped connection ends nothing | each query gets its answer |

PROJECT.json lists the components with what is and is not modelled, and the hazards: the places where
the code can go wrong in a way a unit test hardly reaches, each with the properties about it.

## 2. Modules

| Module | Models | State |
|---|---|---|
| `LockManager` | lock strategy, coordinator, end of transaction, transaction manager, detector, retry loop of the query processor | `lock_table`, `status`, `waiting_for`, and per thread `pc`, `request`, `tries`; `granted` is history: the accesses a transaction was let through to |
| `TwoPhaseLocking` | abstract: what the lock strategy promises | `state`, `held` |
| `LockManagerProofs` | theorems about `LockManager` | - |
| `Strategies` | timestamp-based, validation-based and multi-version strategies as operators on a record `strategy` | - |
| `Sessions` | sessions, BEGIN/COMMIT/ROLLBACK/SET CONCURRENCY, auto-commit, the accesses of a statement with their retries and exceptions, over `Strategies` | `sessions`, `shared` (`current_transaction_id`), `thread`, `strategy`, `active`, `begun`; history: `committed`, `raised`, `touched`, `before` |
| `SessionsProofs` | theorems about `Sessions` and, in it, `Strategies` | - |
| `BufferManager` | buffer pool and table files as functions on a record `store` (disk, buffer in LRU order, capacity) | - |
| `WriteAheadLog` | records and cuts of the log, what the recovery engine reads out of it, redo and undo | - |
| `Recovery` | begin, insert, update, delete, wound, commit, rollback, crash, recover, composed of the two modules above | `store`, `wal`, `active_transactions`, `server`, `pc`, `ongoing`; history: `writes`, `durable` |
| `AtomicStore` | abstract: transactions whose writes take effect together at commit or never | `db`, `writes` |
| `FoldTheorems` | what `FoldLeft` gives on sequences of any length, and a function by recursion on numbers, for any operator | - |
| `BufferManagerProofs`, `RecoveryProofs` | theorems about `BufferManager`, and about `Recovery` and `WriteAheadLog`, with `Recovery` implementing `AtomicStore`; the second extends the first | - |
| `QueryParser` | the parsers, from tokens to query trees | - |
| `QueryOptimizer` | the rewriting rules and the rounds in which they are applied | - |
| `QueryOperators` | projection, selection, joins, ordering, limit on rows | - |
| `Statements` | every statement of one client, over the three modules above: rows, types, expressions, keys, foreign keys, CREATE, DROP | `db`, `marks` (buffered rows flagged as deleted) |
| `BPlusTree` | the B+ tree: insert with splits, delete, search, range search, and what makes it a search tree | - |
| `Indexes` | a table file with its blocks, a hash and a B+ tree index on one column, and the statements that read and change them, over `BPlusTree` and `BufferManager` | `file`, `pool`, `hash`, `btree`; history: `exact`, `distinct`, `erased` |
| `BPlusTreeProofs`, `IndexesProofs` | theorems about the operators of `BPlusTree`, and about `Indexes`; the second extends the first | - |
| `ClientProtocol` | client threads, socket, server thread | `up`, `down`, `buffer`, `pc`, `chunk`, `line`, `alive`, `missed`, `server`, ...; history: `executed`, `answered` |
| `ClientProtocolProofs` | theorems about `ClientProtocol` | - |
| `MC_...` | symmetry, workloads and statements for TLC | - |

`LockManager`, `Recovery`, `Sessions`, `Statements`, `Indexes` and `ClientProtocol` are state machines, each about one
question; they meet in what each takes from another as its promise. `Recovery` takes from `LockManager` that
nobody touches a key a running transaction has written. `Sessions` calls a strategy where `LockManager` is one. `Statements` is what one access
of `Sessions` does, and `Indexes` what one `write_block` of `Statements` does, with the files underneath.

Definitions whose comment says "Variant" are the model with a plausible bug in it. No specification uses
them: put in the place of the definition that follows they show that a property can fail.

### LockManager

One step is one call on shared state, because that is the grain at which the threads of the server
mostly interleave: `Validate` is `validate_operation`; `Execute`, `LogObject` and `Grant` are the three parts of
`log_object` (test for ACTIVE, second validation, assignment); `Commit` and `CommitEnd` are the two
halves of `end_transaction`. What a conflict does (`Wait`, `Die`, `Wound`) includes the callbacks: a wound ends all
victims, a wait runs the detector, and both release locks and clear `waiting_for`.

* `AtomicCalls = TRUE` makes a `log_object` or a commit exclude the calls of other threads (`MayRun`). This is
  how the unit tests drive the strategy, and what one client at a time sees. `FALSE` is the server as it is.
* A validation, a grant and a release are one step each even with `FALSE`. The interpreter may switch threads inside
  them too, so the races shown are not all there are.
* Objects are tables: that is what the query processor passes. Ids are numbers in the place of id strings;
  nothing but their total order is used.
* `Leave(t, "failed")` is the session that refuses everything except ROLLBACK. A COMMIT that finds the
  transaction ended by somebody else raises and leaves the session as it was: the client may go on sending.
* `Disconnect` drops the connection: the thread ends and the transaction stays as it is.
* A READ that wounds fails itself (`WoundRaises`): `validate_object` iterates over the live holder set, the
  callback removes from it, and the next iteration raises `RuntimeError`. The WRITE branch iterates over a
  copy. This contradicts "After wounding, older transaction can proceed"
  (`lock_based_strategy.py:194`); `OldestWriteNeverRefused` is about WRITE for that reason.

### Recovery

`commit_transaction` is a sequence of seven calls on CCM and FRM and `abort_transaction` one of five; each call is one step
(`Commit`, `LogCommit`, `NotifyEnd`, `Snapshot`, `FlushDirty`, `LogCheckpoint`, `ClearWal`; `Rollback`, `LogAbort`, `Undo`,
`FlushDirty`, `NotifyEnd`). A crash may come between any two of them. A call on the buffer manager or the log is one step.

* A key is a table with a primary key value, a row is the other columns. The buffer is a sequence in LRU
  order with every flag the code keeps, so eviction, the flush of everybody's dirty rows and the "nothing dirty: clear
  the buffer" branch are exact.
* Locks are taken from `LockManager` as its promise: nobody touches a key that a running transaction has
  written (`Lockable`). They go at `Commit` or `Rollback`, or, for a wounded transaction, when it is wounded.
* `durable` is what the disk would hold after a crash now and a recovery to its end (`Outcome` runs the recovery of
  the model on the current disk and log). `writes` is what each transaction has written and neither committed nor
  had undone. The refinement reads the specification through these two:
  `Client == INSTANCE AtomicStore WITH db <- durable`. A `Commit` of the abstract store is the COMMIT record, an `Abort` is
  the undo; every flush, eviction, checkpoint and cut must leave `durable` alone.
* In `Outcome` a flush that is certain to come counts as done: the one at the end of a rollback, and, where no crash is
  allowed inside a commit, the one after the COMMIT record.

**Workloads.** The code keeps its promises only for some uses of the database. A workload is a record, fixed in
the initial state, that says which; the safe ones are what `RecoverySafe` checks, and each restriction
is there because the code fails without it. The safe ones are `Updates` (two clients with two writes each, a pool of one row, crashes
while serving and inside a commit), `Deletes` (updates and deletions by one client after another, a pool of one row), `Cuts`
(three clients with one deletion each, so that a log is cut while two others run) and `Inserts` (insertions and
updates by one client after another, crashes anywhere).

| Restriction | In the safe workloads | Without it |
|---|---|---|
| `ops` | no deletion together with insertion | a deleted row stays buffered with its flag; an insert of the same key is invisible and lost (`RecoveryReinsert`) |
| `alone`, `capacity` | inserts by one transaction at a time, all rows fit | the undo of an insert drops the buffered row only; once a flush has written the row, rollback and recovery leave it (`recovery.py:202`) |
| `crash` without "commit" for deletes | deletes are not redone | a committed delete comes back (`RecoveryLostDelete`) |
| `crash` without "abort", "recovery" for updates | ABORT record, then undo | a crash in between leaves the flushed rows of the aborted transaction: recovery takes it for undone |
| `serial` | a commit or rollback excludes other calls | the list of active transactions is read before the checkpoint is written; a transaction that commits in between is named in it and undone by recovery |
| `overwrite` | a wounded transaction's keys stay untouched until it has rolled back | its rollback undoes writes that others have committed since (`RecoveryOverwrite`) |
| ids ascend with BEGIN (guard of `Begin`) | clients of one address and port | the cut starts at the START of the smallest id string and drops earlier records of others (`wal_manager.py:209`) |

### Sessions and Strategies

A step of a thread goes from one access to shared state to the next: `Validate` (`validate_object` with its retries), `Log`
(`execute_operation`, `log_object`), `Perform` (the storage engine, with `_track_modified_table`), and `Begin`, `Commit`, `Refresh`,
`Abort`, `Switch`. `current_transaction_id` is one variable, `shared`: an explicit transaction sets it when its statement
starts, BEGIN sets it, and every access reads it anew. So with two threads at work an access may be made in the name of
another client's transaction; the model has that, and which properties survive it is the point of the runs.

* `serial`, fixed in the initial state, says whether a statement is sent before the one before it is answered. It restricts
  the clients, never the server.
* An exception anywhere (denied too often, multi-version's `TypeError`, a refused row) goes to `Except`, which for auto-commit
  tests the shared id as the code does. CREATE and DROP catch theirs, a denial included, and answer with a message
  (`Raise`); so do the checks of foreign keys (`PerformRefused`, `CreateRefused`).
* `Commit`, `Refresh` and `Abort` may fail half-way, whenever they have something to do that can: the flush of a commit comes after the transaction
  has ended, `_commit` then walks through a set of tables to which another thread may add, and the undo of a rollback and its flush come
  before the session is reset. What an exception leaves is modelled as the code has it: COMMIT passes it on and keeps the session
  with its ended transaction; auto-commit takes it for a failed statement and rolls back (`CommitRaises`). When a failure comes is left
  to chance, so it includes the causes that are not in this model (a negative integer, a table dropped before the flush).
* `Cascades` are the foreign keys with ON DELETE CASCADE. A deletion or DROP may take rows of the tables that refer to its own;
  `touched` keeps these changes as `"cascade"`, and neither the manager nor the session hears of them.
* A transaction is `<<client, number>>`: the id strings begin with the address of the client, and the multi-version
  strategy compares strings. `Hash` is the `hash` of the string, any nonzero number.
* The lock strategy is left to `LockManager`: a client has changed to another one at the start.
* `before` is the conflict order that the timestamp strategy has let through; an aborted transaction leaves no trace in it. It is
  about accesses that ask the strategy: the look-ups and cascades of foreign keys (`Query_Processor/classes.py:1392`, `:1454`) do not.
* A connection that drops leaves the session and its transaction: with no later statement of the client that is a
  behaviour of the model already.

### QueryParser, QueryOptimizer, QueryOperators, Statements

A statement is a sequence of tokens; `Parse`, `Optimized` and `ProcessNode` / `Outcomes` are the code's path from there to
rows. `MC_Statements` writes every statement down a second time as what it means in SQL, on sets of rows and without a
definition of the model (`Means`, `Meant`), and compares. `Plan` holds the query trees of the statements: they are computed once and do not
depend on the state.

* Names of columns and tables in a statement are strings in both, for the parser tells keywords from names. Values are numbers.
* Every statement is a transaction of its own that is committed and flushed, so that a state is the files and the rows
  that a deletion leaves in the buffer (`marks`).
* Where the code walks a set or `glob` result, any order is an outcome. `data_dir` is empty, as `server.py` sets it, so the
  search for dependent tables sees the schemas there are.
* `_create_table` is modelled as it runs: the parser's tree of a table constraint is read the way the code reads it, which is
  not the way the parser writes it.

### BPlusTree and Indexes

`Laid`, `Scanned` and `Fetched` are the blocks of the serializer: which row lies where, what a scan of all blocks returns and
what one offset returns, `Torn` where no row begins. The two decode a text with different functions, and `Padded` and `Stripped` say
what each makes of it. On a VARCHAR column both return what was written. A CHAR value comes back from a scan
(`deserialize_with_blocks`, `serializer.py:75`) filled up with spaces, and from an offset (`deserialize_single_row`, line 344) without spaces
around it. `file` holds the texts as a scan reads them, which is what the code goes by wherever it rewrites the file or makes an
index. `Plain` says that both readings give the text that was written. Columns of length 3 and 7 are left out: a scan goes by the width of a
column and reads their texts as numbers (lines 65-68), after which the next flush fails. Reads go through `IndexScan`, as `read_block` with candidates of an index
does, or through the whole file. The buffer pool is `BufferManager`, the same as in `Recovery`.

A node of the tree carries its height in the place of the flag `is_leaf`: the tree is balanced, so a node is a leaf exactly at height 0.
What the code does by recursion, down to a leaf and up again, is then a function on the nodes of one height that is defined by the
function on the nodes of the height below (`Grown`, `LeavesFrom`, `TreeDelete`); a RECURSIVE operator would do as well for TLC, but
could not be proved about. `Ordered` says what a search tree is: leaves of one depth, sorted keys that lie between those of the
children, one child more than keys, no node overfull.

An index holds row numbers, and the code does not keep them right for ever: an insertion takes the number of rows in
the file, so a second one before a flush takes the same; a flush that drops rows moves those behind them; an insertion under a key
that lies deleted in the buffer is entered and then lost. `exact` is a history variable that ends the claim there and starts again when the index is rebuilt; `distinct` and `erased` do the same for the duplicates that
`search` and `search_range` miss when they lie in two leaves. What a read through an index finds is claimed under `Plain`; without it the two
reads may differ with the row numbers all right: an index made on a CHAR column has texts filled up, a scan tests them so, and an index
read strips them first. What remains is claimed without condition: the tree is a
search tree, the file holds what the buffer manager takes it to hold, as a scan reads it.

### ClientProtocol

Both client threads run `receive_message` on one socket and one `receive_buffer` without a lock. It is modelled assignment by
assignment (`Recv`, `Add`, `Store`, `Check`, `Split`, `Parse`), and a message is two fragments, so that threads steal, interleave
and tear each other's lines. Two halves of different messages may happen to be a message (`Mixed`). Timeouts come at any
time. `HEARTBEAT_TIMEOUT` is counted in missed heartbeats; the server may stop at any point.

## 3. Runs

| Run | Instance | Distinct states | Shows |
|---|---|---|---|
| `LockSerial` | 3 transactions, 2 tables, wound-wait, 1 retry, `AtomicCalls` | 1.1 million | `TypeOK`; `GrantsCompatible`: no conflicting accesses; `GrantsHeld`: no lock is lost or downgraded; `EndedHoldNothing`: none leaks; `WaitsForSmallerId`; `OldestWriteNeverRefused`; `ImplementsTwoPhaseLocking` |
| `LockThreads` | 2 transactions, 2 tables, wound-wait, wait-die and timeout, calls interleave | 0.6 million | `NoDeadlockCycle`: the detector leaves no cycle; `WaitsForSmallerId` and `OutcomeIsFinal` need no mutual exclusion; `EveryCallReturns` |
| `LockRace` (violated) | 2 transactions, 1 table, calls interleave | - | `GrantsCompatible` fails: the re-validation of `log_object` and its assignment are not one step |
| `RecoverySafe` | 2 keys, 2 rows, the four safe workloads | 0.4 million | `TypeOK` (with the capacity of the pool); `VisibleIsCurrent`; `CleanRowsOnDisk`: a row that an eviction drops without a flush is on disk; `UndoInformationKept`; `ImplementsAtomicStore` |
| `RecoveryReinsert` (violated) | 2 clients in turn, insert and delete, no crash | - | `VisibleIsCurrent` fails |
| `RecoveryLostDelete` (violated) | 2 clients in turn, update and delete, crash in a commit | - | `CommitIsDurable` fails |
| `RecoveryOverwrite` (violated) | 2 clients, updates, a wounded transaction's rows are written | - | `RollbackKeepsCommitted` fails |
| `Sessions` | 2 clients; a join of 2 tables, a write that cascades, CREATE, DROP; 2 transactions; timestamps, validation, versions | 1.1 million | in every interleaving, with failing commits and rollbacks: `TransactionsOwned` (no active transaction is left behind or shared), `FailedNeverCommits`, `EveryStatementAnswered`; without overlap: `RunsAsOwner`, `Serializable`, `RefreshesOwn` (a commit refreshes what its transaction changed, but for cascades, and no more) |
| `SessionsUndone` (violated) | the same, fewer statements | - | `CommitsArePermanent` fails: auto-commit rolls back after a commit whose flush failed |
| `Statements` | 12 queries, 13 changes, 7 others on tables `p` and `c` | 2 thousand | `SelectAnswers`: a query answers what its text means; `WritesAsMeant`: a change leaves the rows its text means; `ReferentialIntegrity`; `TypeOK` (one row per key) |
| `Indexes` | 5 keys, 3 values of a VARCHAR column, tree of order 3, 2 rows per block, 2 writes | 0.2 million | `FileMatchesStore`, `TreeOrdered`; `HashScanAnswers`, `TreeScanAnswers`, `RangeScanAnswers`: a scan through an index finds what a scan of the table finds |
| `ClientProtocol` | 2 queries, 2 heartbeats | 0.9 million | `OneInDoubt`: no answer is taken for another's, and at most the last query's fate is unknown; `QueryReturns`; `ServerThreadEnds` |

**Bounds.** Three transactions are the fewest with two younger readers wounded by one older writer, and with
a victim that is not the only other one; two tables allow a deadlock, for which, and for a commit that races a wound, two transactions do
(`LockThreads`). A retry is there to be used and to
run out; more only repeat the same step. In `Recovery` two transactions of two writes give every combination of
a finished and an unfinished one, a key written twice, one transaction's flush of the other's rows, and with a pool
of one row every change of key steals a frame. The cut of the log looks for the oldest of several unfinished transactions, which takes
three. Keys are symmetric, and so are rows; the four safe workloads together fire every action. Nothing bounds the number
of crashes: a crash ends every running transaction and ids are used once, so the log is finite.

In `Sessions` two transactions (`MaxTx`), of one client or one of each, and five statements one after the other (`MaxSerial`)
or three that overlap (`MaxConcurrent`) are enough for two transactions in conflict over two tables, a failed statement, another client's commit in
between, a change of mechanism and the end: BEGIN and an access, a statement of the other client, another access and COMMIT are a
cycle of conflicts, were they let through. A join of two
tables is interrupted between its accesses. The hashes follow neither time nor client, and two are negative. Sessions start with timestamps
and may change to the other two. All safety properties of this run, and those of `LockThreads` but `NoDeadlockCycle` under wait-die and timeout,
are proved for any number of clients and transactions, so the instances stay small. In `Statements` nothing is
bounded but the texts: the values they can produce close after 2 thousand states. They cover each clause, each operator of precedence, each kind of join and of
constraint. In `Indexes` the order is 3 instead of 5, so four rows split a leaf and the root, and a block of 5 bytes for rows of 2 leaves a byte unused, as
1024 does for most rows; two statements that write (`MaxWrites`) with any number of flushes, creations and drops between them are the first that move rows
under an index; tables that start with equal values in two leaves make the duplicates. In `ClientProtocol` two queries are the fewest of which one can get the other's answer, two
heartbeats the fewest of which one answers late; `MaxMissed` (3) is larger than what two heartbeats can miss, so it never forces `Expire`, which may come after any missed one.

**Deadlock** is checked in all passing runs but `ClientProtocol`, where both sides may come to their end. `AllEnded` is the end of every client in `LockManager`; in `Recovery` a
server that has served its last transaction can still crash and be started again; in `Sessions` and `Statements` a statement that is refused is always possible.

**Fairness.** `LockManager!FairSpec` has weak fairness on the server's steps of each thread: the interpreter runs every
thread, `time.sleep` in the retry loop ends, and nothing blocks on a lock. Clients owe nothing: they may
stop after any answer. `Sessions!Spec` asks the same of each client's thread. `Recovery!FairSpec` asks it too, and that the server is started again
after a crash; the two runs that use it check action properties, for which fairness only makes the
counterexample a fair one. `ClientProtocol!Fairness` is weak fairness of `receive_message` in each thread, which is a loop with a
deadline and ends, and of the server thread; nothing makes a user type, a server stop or a heartbeat thread wake up.

## 4. Theorems

**`LockManagerProofs`**, all from `ConstantsAssumption` (the transactions are a finite set of numbers, schemes are among the
three, the retries are a number):

* `TypeCorrect`: `Spec => []TypeOK`.
* `WaitsOnlyForSmallerId`: under wound-wait every edge of the wait-for graph leads to a smaller id, however
  the calls interleave. `WoundWaitNeverDeadlocks` follows, when wound-wait is the only scheme: a cycle
  would have a smallest member that waits for a member.
* `OutcomesAreFinal`: no step takes a committed or aborted transaction to another outcome, however the
  calls interleave.
* `LocksAreKept`, `NoLockLeaks`, `TwoPhaseExclusion` and `RefinesTwoPhaseLocking`, all under `AtomicCalls`.

The last four rest on one inductive invariant, `AtomicInv`, of three parts. `TypeOK`. `TableInv`: granted accesses are
carried by the table (`GrantsHeld`), holders are ACTIVE (`EndedHoldNothing`), an entry of type write has exactly
one holder and a free one none (`EntryForm`), and a transaction without a status has been granted nothing.
`CallsProtected`: at most one thread is inside a call, it is ACTIVE there, and between the second validation and the
assignment nothing blocks its request. The last part is what makes the others inductive, and it is exactly
what fails when calls interleave: `GrantsCompatible` alone says nothing about a thread that is about to assign.
`GrantsCompatible` follows because two holders of one entry cannot include a writer. For the refinement each step maps to a
step of `TwoPhaseLocking`: a grant to `Acquire`, a wound or a deadlock victim to `Finish` of a set, the rest to
stuttering.

**`SessionsProofs`**, from `SessionsAssumption` (clients are numbers, hashes are nonzero numbers, statements are nonempty
sequences of accesses, any tables may refer to any): `TypeCorrect`, `EveryTransactionOwned`, `NoFailedCommit` for every interleaving, `OwnTransaction`
and `EveryTableRefreshed` for statements that do not overlap. One inductive invariant, `IInv`:

* `Types`, and `Named`: the transactions of a client are numbered without a gap, so that the next one is new; this is what makes a session's
  transaction its own.
* `Owned`: a session has a transaction exactly while it is explicit, and every active transaction is that of the session of its client. It
  does not say that a session's transaction is active: a failing COMMIT or ROLLBACK leaves one that has ended. The error path of auto-commit
  goes to the rollback only if `current_transaction_id` is set, by whomever; that it always is once anything was begun is the last part of `Named`.
* `Failures`: no access, and no commit, is under way in an active transaction that has failed.
* `Alone`, if statements do not overlap: at most one thread is busy, the shared id is its own transaction while it makes an access, which is
  active from the validation on, and the modified tables of a session are those its transaction has changed or created otherwise than by a cascade, while it is
  active and until its statistics are refreshed.

The second part of the module is `CommittedAreSerializable`. While no two statements run at once, and if no two transactions
have the same hash (`DistinctHashes`; 64 random bits in the code), the committed transactions are serializable under timestamps in the accesses that ask the strategy, through any number
of changes of the mechanism. On top of `IInv` the invariant `SerialInv` says that there is a set of transactions, those
of the present mechanism (`now`), such that: conflicts lead from older transactions into it and never back (`Ordered`); inside it they
lead from smaller to larger hashes; the timestamps of a table are at least the hashes of those in it that have touched the
table (`StampsCover`); and a thread between its validation and its access is not behind one it conflicts with (`InOrder`). A change of the
mechanism empties the set, which is sound because no transaction is active then. `StillAcyclic` is the heart: a transaction that
follows by its hash those of its own time closes no cycle, whatever the rest of the graph.

**`ClientProtocolProofs`**, from `BoundsAssumption`: `TypeCorrect` and `QueriesInOrder` (`OneInDoubt`), for any number of queries and
heartbeats. `IInv` adds to both: `Streams` (a fragment anywhere, in the stream, the buffer or a local of a thread, belongs to a query
that was executed), `Waiting` (the query thread has all answers when it waits for input, all but one when it waits for an
answer) and `Pending` (the query that is sent and not executed is on its way or with the server, once).

**`RecoveryProofs`**, from `WorkloadAssumption` (a workload has the fields of `Workload`, and the pool at least one frame) and the
assumptions on transactions, keys and rows, for any number of each:

* `TypeCorrect` and `CleanRowsAreOnDisk`, for every workload, those outside the safe ones too: no key is buffered twice, the pool
  never exceeds its capacity, and a buffered row that is not dirty is what the file holds. The inductive invariant is `TypeInv`,
  the two properties together; the eviction needs both, since it flushes everything else and drops a frame that is clean. The
  lemmas of `BufferManagerProofs` say it of each operation on the pool (and, for a pool with room for every
  key, `Roomy`, that nothing is evicted, which is how `Indexes` uses it), those of the first part of the module of a redo, an undo
  and a whole recovery, which are folds of such operations.
* `RollbackFindsItsWrites` (`UndoInformationKept`), where calls exclude each other (`workload.serial`): the log holds every write
  of a running transaction, oldest first, whatever others have cut from it. `CallInv` is inductive: at most one transaction is
  inside a commit or a rollback (`OneCall`); the FRM's list of active transactions is the true one, and the list handed to a
  checkpoint names exactly those still running (`ActiveListed`, `OngoingListed`); each running transaction has its START record,
  and none of a larger id has a record before it (`StartsFirst`). The last is what makes `CutKeeps` hold: the cut starts at the
  START of the smallest id, which is only then before everything the others may have to undo. It is the formal place of the
  restriction "ids ascend with BEGIN".

The second part of `RecoveryProofs` is about workloads that satisfy `UpdatesOnly`: `serial`, no `overwrite`, updates only, crashes between
statements or inside a commit. Each of these is a row of the table of restrictions above, with what the code does without it; how
many transactions, writes, keys, rows, frames and crashes there are is left open. Every `Update` is still an update of any key the
locks allow, and evictions flush rows of other running transactions.

* `UpdatesAreAtomic` (`ImplementsAtomicStore`): `Recovery` implements `AtomicStore`. The COMMIT record is the abstract `Commit`,
  an update is `Write`, the undo is `Abort`, a crash while the server is up is `Crash`; every other step (flushes, checkpoints,
  cuts, recovery, recovery once more) leaves `durable` and `writes` alone.
* `StatementsReadCurrent` (`VisibleIsCurrent`), `CommitsAreDurable` (`CommitIsDurable`) and `RollbacksKeepCommitted`
  (`RollbackKeepsCommitted`), from the same invariant. The last two are the properties that `RecoveryLostDelete` and
  `RecoveryOverwrite` refute in workloads outside `UpdatesOnly`; here they hold.

The inductive invariant `StoreInv` adds `AtomInv` to `TypeInv` and `CallInv`. Its idea is to say, key by key, what three sources
agree on: the disk, the records that would be redone, and the records that would be undone. `PendingLive`, `PendingStarted` and
`UndoLogged` say whom recovery would undo: those running, or in a rollback before its flush. `OneWriter`: at most one of them has
records of a key. `Foretold`: after a crash a key would be what its writer found there first or, without a writer, the last record
to redo, or else what is on disk. `SettledRedo`: the last committed record of a key, if the log still has one, is what is durable;
without it a cut could leave an old record that takes a row back. `RedoVisible`, `UndoneVisible` and `WriterSees` relate the same
records to what statements see, and so the log to the buffer. `FlushedFirst`, `CutAtEnd` and `EmptyDown` are what a checkpoint, a
cut and a recovery find. `durable` itself is a recovery run on paper (`Outcome`), so the proof first reduces a recovery to one
key: `RedoneUndone` leaves of a key the last record redone or, if any is undone, the before-image of the oldest one. Then each
action is followed on those two sequences of records.

**`BPlusTreeProofs`**, from `OrderAssumption` (an order of at least 3; the code's is 5). `Tree(h, node, low, high, mode)` is a
search tree of height `h` with its keys in the bounds, and how far the children of a node are kept apart: "strict", nothing equal to
a separator is left of it; "tight", equal keys may be left of it, and the separator itself is a key right of it; "any", equal keys on
both sides. `Under` is the sequence of its entries from left to right. By induction on the height:

* `InsertMeans`: an insertion gives a tree in the same bounds and mode whose entries are the old ones and, in one place, the new
  one, however many nodes split on the way up. For "strict" the key must be new.
* `DeleteMeans`: a removal keeps the tree and removes exactly the entry, if the entry is in the leaf it looks in; without duplicates
  that is always so. For "tight" nothing is claimed: a removal may take the key a separator repeats, which is why `search` may miss
  duplicates after it (`erased`).
* `FindLeafMeans`: in a "strict" or a "tight" tree a key that the tree has is in the leaf `_find_leaf` ends in, the only one that
  `search` looks for it in. With `LeavesFromMeans` (the way down leaves out no entry that is not below the key; `search_range` goes past equal
  keys, so for it only in a "strict" tree) and `UpToIs` (the loop stops behind the last entry not above the bound) this gives
  what the searches find.

**`IndexesProofs`**, from the assumptions of `Indexes` (finitely many keys and values, the values positive numbers and at least one,
a row that fits into a block, tables without a repeated key; and `TextAssumption`: to fill up a text that is filled up changes nothing,
and does not show after stripping) and `OrderAssumption`, for tables of any size, any number of statements
and any order of the tree:

* `IndexesTypeCorrect` and `FileIsStore` (`FileMatchesStore`), from `FileInv`: the file is what the serializer lays out for the rows it
  is read back as (`file = Blocks(Scanned(file))`), and these rows are those the pool takes to be on disk, with their texts as a scan reads
them. It is proved for any `Padded`, CHAR columns included: `Shows` is what a merge of buffer and file shows of a key, as it was written if it is
buffered and filled up if it is not, and `Stored` what the next flush makes of it. The first part is what
  makes it inductive: that each row is found at the offset it was written to needs the whole layout, with the bytes left unused at the
  end of each block.
* `HashAnswers` (`HashScanAnswers`), from `HashInv`, where texts are read as they were written (`Plain`): while `exact` holds, the index pairs each value that statements see with the place
  its row has in the file or will have after the next flush (`Numbering`), and at most one row is still to come (`OneUnsaved`). Two of them
  would take one number; this is the formal place of what `exact` ends.
* `TreeStaysOrdered` (`TreeOrdered`), with no condition: duplicates, stale numbers, removals and CHAR columns included.
* `TreeAnswers` (`TreeScanAnswers`) and `RangeAnswers` (`RangeScanAnswers`), under `Plain` too, from `TreeInv`: the tree is of mode "any" always, "strict" while the
  column has no duplicates (`distinct`), "tight" while nothing was removed (`~erased`); and in the last two cases its entries are
  `Numbering`, as for the hash index. The mode has to be in the invariant: an ordered tree with the right entries may still
  hide one of them from `search`.

**Induction over data.** `FoldTheorems` states what a fold over a sequence gives, by induction on its length (`SequenceInduction`,
from the well-foundedness of `<`), for a CONSTANT operator `Op`; a module that folds takes an `INSTANCE` with its own operator.
Its theorems ask for induction on the naturals as a hypothesis (`Inductive`), which each module proves once for its instance
(`RInductive`, `TRInductive` and so on), so that an instance does not carry the library's theorems with it. `RecursionExists`
is what makes a function defined by recursion on heights usable: the equation that its definition states has a solution.
The same way `SequenceInduction` is used as a fact about sets: a set of sequences that has the empty one and is closed under
`Append` has all. So the selection from a log (`Only`), the redo and the undo are proved about, for logs of any length.

**Only model-checked**: liveness (`EveryCallReturns`, `EveryStatementAnswered`, `QueryReturns`, `ServerThreadEnds`), for fairness
and ENABLED are out of the prover's reach; `OldestWriteNeverRefused`; `NoDeadlockCycle` for wait-die and timeout (there it holds
because of the detector, not of an order); `VisibleIsCurrent` and `ImplementsAtomicStore` for workloads with deletions or
insertions (`Deletes`, `Cuts`, `Inserts`), whose invariants are others than `AtomInv`, because a deletion is not redone and an
insertion is undone by dropping its frame; and the properties of `Statements`, whose texts are computed by RECURSIVE operators, which
leave the prover without its SMT solver.

## 5. What the counterexamples show

Five runs end in a state that the repository's documents rule out; PROJECT.json quotes the lines.

* Locks and recovery: `LockRace`, `RecoveryReinsert`, `RecoveryLostDelete`, `RecoveryOverwrite`.
* `SessionsUndone`: the COMMIT of an auto-commit statement is in the log when its flush fails; the handler of the statement's
  exceptions calls `abort_transaction`, and the undo takes back what has been committed. An explicit COMMIT leaves the session with
  the ended transaction, and a ROLLBACK after it does the same.

Two of the recovery runs were
reproduced with the code itself, by calling the storage engine and the CCM in the order of the trace: the row
inserted under a deleted key that never appears, and the committed delete that comes back after a restart.

## 6. Where a property stops

Some uses of the code fall outside what the properties claim, because there the code does something else. Those of `Recovery` are
the table of restrictions in section 2. The others:

| Where | What the code does | How the model has it |
|---|---|---|
| Two statements at once (`Query_Processor/classes.py:182`) | an access may be made in another client's transaction, a modified table be noted in its session | modelled; `RunsAsOwner`, `Serializable`, `RefreshesOwn` are stated for `serial` |
| A commit or rollback that fails half-way (`Concurrency_Control_Manager/classes.py:67`, `Query_Processor/classes.py:461`, `:472`) | leaves a session with an ended transaction, whose statements are then denied until a ROLLBACK succeeds; statistics stay as they were | modelled; `TransactionsOwned` is about active transactions, `RefreshesOwn` about what a commit sets out to refresh |
| Errors of CREATE and DROP (`Query_Processor/classes.py:1280`, `:1344`) | are messages, a denied access too; the transaction goes on and commits | modelled; not failures in `FailedNeverCommits` |
| Foreign keys and the CCM (`Query_Processor/classes.py:1392`, `:1327`, `:1454`) | look-ups and cascades ask for no access and note no table | cascades modelled; not in `Serializable`, not in `RefreshesOwn` |
| `validate_for_commit` (`validation_based_strategy.py`) | is never called: the strategy validates nothing | modelled; no serializability is claimed for it |
| Multi-version reads (`multi_version_strategy.py:71`) | a live version's expiry is a number and is compared with a string: a READ after a WRITE raises `TypeError` | modelled (`"raise"`); no answer is claimed |
| A dropped connection (`server.py:259`) | ends no session and no transaction | modelled; no end is claimed |
| NOT, IN, LIKE, BETWEEN, `!=` and arithmetic in WHERE (`storage_engine.py:814`) | conditions the evaluators know nothing of are false or skipped | operators modelled; not among the texts with a meaning |
| OR in UPDATE and DELETE (`Query_Processor/classes.py:1505`) | is flattened to AND | modelled by `ExtractConditions`; the texts use AND |
| UPDATE without WHERE (`storage_engine.py:232`), DELETE WHERE NOT (`classes.py:1512`) | the first inserts a row, the second deletes all | modelled; not among the texts |
| UPDATE and foreign keys (`classes.py:873`) | looks at none; an UPDATE of a primary key leaves the old row | modelled; updates of a referring column are not among the texts |
| FOREIGN KEY as a table constraint (`classes.py:1192`) | is looked for under the wrong names | modelled by `WithTableConstraints`; the texts refer in the column |
| Cascades (`classes.py:1450`) | one level deep, without the CCM, and a refusal comes after deletions that stay | modelled; one dependent table in the run |
| Join conditions in WHERE (`selection_rules.py:277`) | found anywhere, also below OR, and given to the innermost product | modelled; the texts have them below AND, on the inner pair |
| ON with an unknown column, natural joins with aliases or without a common column, self-joins without aliases | compare missing values, or lose rows | modelled; not among the texts |
| LIMIT 0 (`classes.py:685`) | returns all rows | modelled; not among the texts |
| Insertion under a deleted key (`buffer_manager.py:106`) | reports one row and loses it | modelled; the second disjunct of `WritesAsMeant`; ends `exact` in `Indexes` |
| Row numbers in indexes (`storage_engine.py:321`, `:433`, `:734`) | out of step after two insertions without a flush, a change of rows after a deletion, a flush that drops rows, an insertion under a deleted key | modelled; `exact` ends the claim |
| Duplicates in two leaves (`b_plus_tree_index.py:39`, `:71`) | missed by `search` after a removal, by `search_range` always | modelled; `distinct`, `erased` |
| Index on a number column (`storage_engine.py:979`, `:868`) | an index made from the file holds normalised keys (`005.00`), and searches look for those; insertions and updates enter the value's own string (`5`), which no search finds | text column in `Indexes` |
| Index on a CHAR column (`serializer.py:75`, `:344`) | the index has a text filled up or as it was entered, a scan tests it filled up, an index read stripped | modelled; the answers are claimed under `Plain` |
| VARCHAR and CHAR of length 3 and 7 (`serializer.py:65`) | a scan reads them as numbers; the next flush of the table fails | left out of `Indexes` |
| Rollback (`recovery.py`) | leaves the indexes as they are | not in `Indexes` |

## 7. Not modelled

* The tokenizer, the wording and layout of answers, and log history (an audit file nobody reads).
* Costs and statistics (`lib/cost`, `get_stats`, `defragment`): they choose nothing that changes a result; that the statistics
  of the right tables are computed is `RefreshesOwn`.
* The bytes of values, schemas and index files. Three limits of theirs are therefore out of sight, but for the failing flush in `Sessions`: a negative integer
  fails at the flush (`serializer.py:131`), a row wider than a block is not refused (`storage_engine.py:114`), and the name of an index file is
  ambiguous for names with "_" (`storage_engine.py:584`).
* The three rewriting rules that look for nodes the parser never makes: their guards are modelled, their rewriting
  cannot happen. `_parse_create_table_sql` is dead code.
* Interleavings inside one call of the buffer manager, one rewriting of the log file or one statement of the interpreter; the wrap of the counter of
  transaction ids; the periodic checkpoint thread, which only a unit test starts.
* `init.py`, `mock_storage.py` and the unit tests.
