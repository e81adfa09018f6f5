-------------------------------- MODULE Recovery -------------------------------
(***************************************************************************)
(* Transactions over the buffer pool and the log: the calls that Concurrency*)
(* ControlManager makes on FailureRecoveryManager when a transaction begins,*)
(* writes, commits or rolls back, crashes between them, and the recovery    *)
(* the server runs when it starts.                                          *)
(*                                                                          *)
(* A commit and a rollback are sequences of calls, one step each: other     *)
(* clients' threads and crashes come in between.  Locks are table locks; a  *)
(* transaction that wrote a key keeps others from it until it starts to     *)
(* commit or to roll back, which is when its locks go.                      *)
(*                                                                          *)
(* How the database is used is a workload, fixed in the initial state.      *)
(***************************************************************************)
EXTENDS WriteAheadLog, FiniteSets

CONSTANT Workloads   \* the uses the database may be put to

\* The places where a crash may find the server.
CrashPoint == {"serving", "commit", "abort", "recovery"}

Workload ==
  [tx : SUBSET Tx,               \* the transactions there are
   writes : Nat,                 \* bound on the writes of each
   ops : SUBSET Data,            \* the statements they execute
   capacity : Nat \ {0},         \* of the buffer pool
   alone : BOOLEAN,              \* one transaction at a time
   serial : BOOLEAN,             \* a commit or a rollback excludes other calls
   overwrite : BOOLEAN,          \* a wounded transaction's keys may be written
   crash : SUBSET CrashPoint]

ASSUME WorkloadAssumption == Workloads \subseteq Workload

VARIABLES
  workload,
  store,                \* disk and buffer pool
  wal,                  \* the log file
  active_transactions,  \* of FailureRecoveryManager
  server,               \* "up", or "down" until recovery has run
  pc,                   \* where each transaction stands
  ongoing,              \* the list a commit passes to save_checkpoint
  writes,               \* history: the writes of each transaction that are
                        \* neither committed nor undone
  durable               \* history: the database that a crash would leave

memory == <<active_transactions, server, ongoing>>
vars == <<workload, store, wal, active_transactions, server, pc, ongoing, writes, durable>>

--------------------------------------------------------------------------------
Commits == {"log_commit", "notify_commit", "snapshot", "flush", "checkpoint", "clear"}
Aborts == {"log_abort", "undo", "flush_undone", "notify_abort"}
Committed == {"notify_commit", "snapshot", "flush"}   \* not yet flushed
Undoing == {"undo", "flush_undone"}
Place == {"begin", "active", "wounded", "done"} \cup Commits \cup Aborts

TypeOK ==
  /\ workload \in Workloads
  /\ store \in Store /\ store.capacity = workload.capacity /\ StoreOK(store)
  /\ wal \in Seq(Record)
  /\ active_transactions \subseteq Tx
  /\ server \in {"up", "down"}
  /\ pc \in [Tx -> Place]
  /\ ongoing \in [Tx -> SUBSET Tx]
  /\ writes \in [Tx -> Seq([key : Key, row : Row \cup {NoRow}])]
  /\ \A t \in Tx : Len(writes[t]) <= workload.writes
  /\ durable \in [Key -> Row \cup {NoRow}]

\* The server starts with whatever tables it finds and an empty log.
Init ==
  /\ workload \in Workloads
  /\ store \in {[capacity |-> workload.capacity, disk |-> d, buffer |-> <<>>] :
                  d \in [Key -> Row \cup {NoRow}]}
  /\ wal = <<>>
  /\ active_transactions = {}
  /\ server = "up"
  /\ pc = [t \in Tx |-> "begin"]
  /\ ongoing = [t \in Tx |-> {}]
  /\ writes = [t \in Tx |-> <<>>]
  /\ durable = store.disk

--------------------------------------------------------------------------------
MidCall(t) == pc[t] \in Commits \cup Aborts
MayRun(t) == server = "up" /\ (workload.serial => \A u \in Tx \ {t} : ~MidCall(u))

\* The thread of t goes from one call to the next.
Step(t, from, to) == MayRun(t) /\ pc[t] \in from /\ pc' = [pc EXCEPT ![t] = to]

KeysWritten(t) == {w.key : w \in ToSet(writes[t])}

\* The locks t's statement needs are to be had: a wound takes them from the
\* victim, whose rows are still in the buffer until its client rolls back.
Lockable(t, k) ==
  \A u \in Tx \ {t} :
    pc[u] = "active" \/ (pc[u] = "wounded" /\ ~workload.overwrite) => k \notin KeysWritten(u)

\* begin_transaction.  Ids ascend in the order of BEGIN, as they do for the
\* clients of one address and port.
Begin(t) ==
  /\ Step(t, {"begin"}, "active")
  /\ t \in workload.tx
  /\ \A u \in workload.tx : u < t => pc[u] # "begin"
  /\ workload.alone => \A u \in Tx \ {t} : pc[u] \in {"begin", "done"}
  /\ active_transactions' = active_transactions \cup {t}
  /\ wal' = Append(wal, Lifecycle("start", t))
  /\ UNCHANGED <<workload, store, server, ongoing, writes>>

Statement(t, k, row) ==
  /\ Step(t, {"active"}, "active")
  /\ Lockable(t, k)
  /\ Len(writes[t]) < workload.writes
  /\ writes' = [writes EXCEPT ![t] = Append(@, [key |-> k, row |-> row])]
  /\ UNCHANGED workload /\ UNCHANGED memory

WriteBlock(t, k, row) ==
  /\ Statement(t, k, row)
  /\ store' = Written(store, k, row)
  /\ wal' = Append(wal, Operation(t, k, BeforeImage(store, k), row))

\* INSERT refuses a primary key that is on disk, deleted in the buffer or not,
\* or live in the buffer.
Insert(t) ==
  /\ "insert" \in workload.ops
  /\ \E k \in Key, row \in Row :
       /\ store.disk[k] = NoRow /\ Visible(store, k) = NoRow
       /\ WriteBlock(t, k, row)

Update(t) ==
  /\ "update" \in workload.ops
  /\ \E k \in Key, row \in Row :
       /\ Visible(store, k) # NoRow
       /\ WriteBlock(t, k, row)

Delete(t) ==
  /\ "delete" \in workload.ops
  /\ \E k \in Key :
       /\ Visible(store, k) # NoRow
       /\ Statement(t, k, NoRow)
       /\ store' = Deleted(store, k)
       /\ wal' = Append(wal, Operation(t, k, Visible(store, k), NoRow))

\* An older transaction wounds t.
Wound(t) ==
  /\ Step(t, {"active"}, "wounded")
  /\ \E u \in Tx : u < t /\ pc[u] = "active"
  /\ UNCHANGED <<workload, store, wal, writes>> /\ UNCHANGED memory

--------------------------------------------------------------------------------
(* commit_transaction.                                                      *)

\* coordinator.commit: the locks go.
Commit(t) ==
  /\ Step(t, {"active"}, "log_commit")
  /\ UNCHANGED <<workload, store, wal, writes>> /\ UNCHANGED memory

\* write_log_entry(COMMIT): from here on the client has committed.
LogCommit(t) ==
  /\ Step(t, {"log_commit"}, "notify_commit")
  /\ wal' = Append(wal, Lifecycle("commit", t))
  /\ writes' = [writes EXCEPT ![t] = <<>>]
  /\ UNCHANGED <<workload, store>> /\ UNCHANGED memory

NotifyEnd(t, from, to) ==
  /\ Step(t, {from}, to)
  /\ active_transactions' = active_transactions \ {t}
  /\ UNCHANGED <<workload, store, wal, server, ongoing, writes>>

Snapshot(t) ==
  /\ Step(t, {"snapshot"}, "flush")
  /\ ongoing' = [ongoing EXCEPT ![t] = active_transactions]
  /\ UNCHANGED <<workload, store, wal, active_transactions, server, writes>>

\* save_checkpoint: flush, then the record, then the log is cut.
FlushDirty(t, from, to) ==
  /\ Step(t, {from}, to)
  /\ store' = Flushed(store)
  /\ UNCHANGED <<workload, wal, writes>> /\ UNCHANGED memory

LogCheckpoint(t) ==
  /\ Step(t, {"checkpoint"}, "clear")
  /\ wal' = Append(wal, Checkpoint(ongoing[t]))
  /\ UNCHANGED <<workload, store, writes>> /\ UNCHANGED memory

ClearWal(t) ==
  /\ Step(t, {"clear"}, "done")
  /\ wal' = Cleared(wal, ongoing[t])
  /\ ongoing' = [ongoing EXCEPT ![t] = {}]
  /\ UNCHANGED <<workload, store, active_transactions, server, writes>>

--------------------------------------------------------------------------------
(* abort_transaction.                                                       *)

Rollback(t) ==
  /\ Step(t, {"active", "wounded"}, "log_abort")
  /\ UNCHANGED <<workload, store, wal, writes>> /\ UNCHANGED memory

LogAbort(t) ==
  /\ Step(t, {"log_abort"}, "undo")
  /\ wal' = Append(wal, Lifecycle("abort", t))
  /\ UNCHANGED <<workload, store, writes>> /\ UNCHANGED memory

\* The engine's abort_transaction up to its flush.
Undo(t) ==
  LET undone == OperationsOf(wal, t) IN
  /\ Step(t, {"undo"}, "flush_undone")
  /\ store' = UndoneAll(store, undone)
  /\ wal' = wal \o Answers(undone)
  /\ writes' = [writes EXCEPT ![t] = <<>>]
  /\ UNCHANGED workload /\ UNCHANGED memory

--------------------------------------------------------------------------------
Where ==
  IF server = "down" THEN "recovery"
  ELSE IF \E t \in Tx : pc[t] \in Aborts THEN "abort"
  ELSE IF \E t \in Tx : pc[t] \in Commits THEN "commit"
  ELSE "serving"

\* The process dies: the buffer and every session go with it.
Crash ==
  /\ server = "up" /\ Where \in workload.crash
  /\ server' = "down"
  /\ store' = [store EXCEPT !.buffer = <<>>]
  /\ active_transactions' = {}
  /\ pc' = [t \in Tx |-> IF pc[t] = "begin" THEN "begin" ELSE "done"]
  /\ ongoing' = [t \in Tx |-> {}]
  /\ writes' = [t \in Tx |-> <<>>]
  /\ UNCHANGED <<workload, wal>>

\* recover, to its end.
Recover ==
  /\ server = "down"
  /\ server' = "up"
  /\ store' = Flushed(RedoneUndone(store, wal))
  /\ wal' = wal \o Answers(UndoList(wal))
  /\ UNCHANGED <<workload, active_transactions, pc, ongoing, writes>>

\* The process dies again before recover has flushed.
RecoverInterrupted ==
  /\ server = "down" /\ Where \in workload.crash
  /\ store' = [RedoneUndone(store, wal) EXCEPT !.buffer = <<>>]
  /\ wal' = wal \o Answers(UndoList(wal))
  /\ UNCHANGED <<workload, active_transactions, server, pc, ongoing, writes>>

--------------------------------------------------------------------------------
(* What the disk and the log amount to, with the transactions at place p.  A *)
(* flush that is certain to come counts as done: the one that ends the undo  *)
(* of a rollback, with the ABORT record before it, and, in a workload where  *)
(* no crash comes in between, the one after a COMMIT record.                 *)

Flushing(p) == "commit" \notin workload.crash /\ \E t \in Tx : p[t] \in Committed

Outcome(s, log, p) ==
  LET settled == Only(log, {r \in ToSet(log) : ~(r.action = "abort" /\ p[r.tx] \in Undoing)})
      disk == IF Flushing(p) THEN Flushed(s).disk ELSE s.disk
  IN Flushed(RedoneUndone([s EXCEPT !.disk = disk, !.buffer = <<>>], settled)).disk

Foresee == durable' = Outcome(store', wal', pc')

ServerStep(t) ==
  \/ LogCommit(t) /\ Foresee
  \/ NotifyEnd(t, "notify_commit", "snapshot") /\ Foresee
  \/ Snapshot(t) /\ Foresee
  \/ FlushDirty(t, "flush", "checkpoint") /\ Foresee
  \/ LogCheckpoint(t) /\ Foresee
  \/ ClearWal(t) /\ Foresee
  \/ LogAbort(t) /\ Foresee
  \/ Undo(t) /\ Foresee
  \/ FlushDirty(t, "flush_undone", "notify_abort") /\ Foresee
  \/ NotifyEnd(t, "notify_abort", "done") /\ Foresee

ClientStep(t) ==
  \/ Begin(t) /\ Foresee
  \/ Insert(t) /\ Foresee
  \/ Update(t) /\ Foresee
  \/ Delete(t) /\ Foresee
  \/ Wound(t) /\ Foresee
  \/ Commit(t) /\ Foresee
  \/ Rollback(t) /\ Foresee

Restart == Recover /\ Foresee

Next ==
  \/ \E t \in Tx : ServerStep(t) \/ ClientStep(t)
  \/ Crash /\ Foresee
  \/ Restart
  \/ RecoverInterrupted /\ Foresee

Spec == Init /\ [][Next]_vars

\* Threads keep running while the server is up, and it is started after a crash.
FairSpec == Spec /\ WF_vars(Restart) /\ \A t \in Tx : WF_vars(ServerStep(t))

--------------------------------------------------------------------------------
Client == INSTANCE AtomicStore WITH db <- durable

\* Every transaction is atomic and durable, through flushes of uncommitted rows,
\* checkpoints, cuts of the log and crashes.
ImplementsAtomicStore == Client!Spec

\* Who has written k and neither committed nor undone it.
Writers(k) == {t \in Tx : k \in KeysWritten(t)}

\* What statements read is what a crash would leave, with the writes of running
\* transactions on top: the buffer, the disk and the log never drift apart.
VisibleIsCurrent ==
  server = "up" =>
    \A k \in Key :
      IF Writers(k) = {} THEN Visible(store, k) = durable[k]
      ELSE \E t \in Writers(k) : Visible(store, k) = Client!Effect(durable, writes[t])[k]

\* A row is dropped from the buffer unsaved only if the file has it already.
CleanRowsOnDisk == CleanOnDisk(store)

\* However the log is cut, it still holds every write of a transaction that may
\* yet have to be undone, in order.
UndoInformationKept ==
  \A t \in Tx : pc[t] \in {"active", "wounded"} =>
    LET ops == Reverse(OperationsOf(wal, t))
    IN [i \in DOMAIN ops |-> [key |-> ops[i].key, row |-> ops[i].after]] = writes[t]

--------------------------------------------------------------------------------
\* COMMIT makes the writes of the transaction permanent, all of them.
CommitIsDurable ==
  [][\A t \in Tx : pc[t] = "log_commit" /\ pc'[t] = "notify_commit" =>
       durable' = Client!Effect(durable, writes[t])]_vars

\* A rollback takes back nothing that another transaction has committed.
RollbackKeepsCommitted ==
  [][\A t \in Tx : pc[t] \in Aborts /\ pc'[t] # pc[t] /\ server' = "up" =>
       durable' = durable]_vars

================================================================================
