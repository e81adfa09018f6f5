----------------------------- MODULE WriteAheadLog -----------------------------
(***************************************************************************)
(* The log file wal.log (WALManager) as a sequence of records, and what the *)
(* RecoveryEngine reads out of it.  Timestamps are left out: the engine     *)
(* never selects by them.                                                   *)
(***************************************************************************)
EXTENDS BufferManager

CONSTANT Tx   \* transaction ids; the order of Nat is that of the id strings

ASSUME TxAssumption == Tx \subseteq Nat \ {0}

--------------------------------------------------------------------------------
Data == {"insert", "update", "delete"}

Lifecycle(action, t) == [action |-> action, tx |-> t]

\* log_operation finds the action from the images it is given.
Operation(t, k, before, after) ==
  [action |-> CASE before = NoRow -> "insert"
                [] after = NoRow -> "delete"
                [] OTHER -> "update",
   tx |-> t, key |-> k, before |-> before, after |-> after]

\* _write_compensation_log: the record that an operation was undone.
Compensation(r) ==
  [action |-> "compensation", tx |-> r.tx, key |-> r.key, before |-> r.after, after |-> r.before]

\* A checkpoint has no transaction; the code reads its id as -1.
NoTx == 0
Checkpoint(ongoing) == [action |-> "checkpoint", tx |-> NoTx, ongoing |-> ongoing]

Record ==
  [action : {"start", "commit", "abort"}, tx : Tx]
    \cup [action : Data \cup {"compensation"}, tx : Tx, key : Key,
          before : Row \cup {NoRow}, after : Row \cup {NoRow}]
    \cup [action : {"checkpoint"}, tx : {NoTx}, ongoing : SUBSET Tx]

LastCheckpoint(wal) == SelectLastInSeq(wal, LAMBDA r : r.action = "checkpoint")

--------------------------------------------------------------------------------
\* The records at the indices in I, in their order.
Kept(wal, I) ==
  LET idx == Only([i \in DOMAIN wal |-> i], I) IN [j \in DOMAIN idx |-> wal[idx[j]]]

Smallest(S) == CHOOSE t \in S : \A u \in S : t <= u

\* clear_wal_before_oldest_transaction: the last checkpoint stays, and from the
\* START of the smallest id on the records of ongoing transactions.
ClearedBeforeOldest(wal, ongoing) ==
  LET start == SelectInSeq(wal, LAMBDA r : r = Lifecycle("start", Smallest(ongoing)))
      last == LastCheckpoint(wal)
  IN Kept(wal, {i \in DOMAIN wal : i = last \/ (start \in 1 .. i /\ wal[i].tx \in ongoing)})

\* Variant: everything before the checkpoint goes, whoever is still running.
ClearedAll(wal, ongoing) == SubSeq(wal, LastCheckpoint(wal), Len(wal))

\* clear_wal_after_checkpoint; without ongoing transactions it keeps the last
\* checkpoint and what follows it.
Cleared(wal, ongoing) ==
  IF ongoing = {}
    THEN SubSeq(wal, LastCheckpoint(wal), Len(wal))
    ELSE ClearedBeforeOldest(wal, ongoing)

--------------------------------------------------------------------------------
(* RecoveryEngine.                                                          *)

Image(k, row) == [key |-> k, data |-> row, is_dirty |-> TRUE, is_deleted |-> FALSE]

\* _apply_redo
Redone(s, r) ==
  IF r.action = "delete" THEN Dropped(s, r.key) ELSE Put(s, Image(r.key, r.after))

\* _apply_undo
Undone(s, r) ==
  IF r.action = "insert" THEN Dropped(s, r.key) ELSE Put(s, Image(r.key, r.before))

Operations(wal) == {r \in ToSet(wal) : r.action \in Data}

RedoneAll(s, records) == FoldLeft(Redone, s, records)
UndoneAll(s, records) == FoldLeft(Undone, s, records)

\* Variant: the operations are undone in the order they were made.
OperationsOfForward(wal, t) == Only(wal, {r \in Operations(wal) : r.tx = t})

\* abort_transaction: the operations of t, newest first.
OperationsOf(wal, t) == Only(Reverse(wal), {r \in Operations(wal) : r.tx = t})

\* recover: what follows the last checkpoint ...
After(wal) == SubSeq(wal, LastCheckpoint(wal) + 1, Len(wal))

With(records, action) == {r.tx : r \in {x \in ToSet(records) : x.action = action}}

\* ... the operations to redo, those of transactions with an ABORT record left out ...
\* Variant: all of them.
RedoListAll(wal) == Only(After(wal), Operations(wal))

RedoList(wal) ==
  Only(After(wal), {r \in Operations(wal) : r.tx \notin With(After(wal), "abort")})

\* ... the transactions that neither committed nor aborted ...
Incomplete(wal) ==
  LET last == LastCheckpoint(wal)
      ongoing == IF last = 0 THEN {} ELSE wal[last].ongoing
  IN (ongoing \cup With(After(wal), "start"))
       \ (With(After(wal), "commit") \cup With(After(wal), "abort"))

\* ... and, newest first in the whole log, their operations and START records.
UndoList(wal) ==
  Only(Reverse(wal),
       {r \in ToSet(wal) : r.tx \in Incomplete(wal) /\ r.action \in Data \cup {"start"}})

\* An operation is compensated, the START of a transaction answered by an ABORT.
Answers(records) ==
  [i \in DOMAIN records |-> IF records[i].action = "start"
                              THEN Lifecycle("abort", records[i].tx)
                              ELSE Compensation(records[i])]

\* The store after redo and undo; recover then flushes it.
RedoneUndone(s, wal) ==
  UndoneAll(RedoneAll(s, RedoList(wal)), Only(UndoList(wal), Operations(wal)))

================================================================================
