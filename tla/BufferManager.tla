----------------------------- MODULE BufferManager -----------------------------
(***************************************************************************)
(* The buffer pool of the DBMS (BufferManager) over the table files that    *)
(* StorageEngine reads and writes for it, as functions on a store.          *)
(*                                                                          *)
(* A store holds what is on disk and what is in memory.  The buffer is the  *)
(* dictionary buffer_data in the order of lru_order, the least recently     *)
(* used row first: the code changes both together.  A key stands for a      *)
(* table with a primary key value, a Row for the other columns.             *)
(***************************************************************************)
EXTENDS Naturals, Sequences, SequencesExt

CONSTANTS
  Key,      \* (table, primary key value)
  Row,      \* contents of a row
  NoRow     \* no such row; also the contents {} of a row just created

ASSUME NoRowAssumption == NoRow \notin Row

--------------------------------------------------------------------------------
\* The elements of s that are in S, in their order.
Only(s, S) == FoldLeft(LAMBDA kept, e : IF e \in S THEN Append(kept, e) ELSE kept, <<>>, s)

BufferedRow == [key : Key, data : Row \cup {NoRow}, is_dirty : BOOLEAN, is_deleted : BOOLEAN]

Store == [capacity : Nat \ {0}, disk : [Key -> Row \cup {NoRow}], buffer : Seq(BufferedRow)]

\* Every key is buffered once, and never more rows than the pool has room for.
StoreOK(s) ==
  /\ Len(s.buffer) <= s.capacity
  /\ \A i, j \in DOMAIN s.buffer : s.buffer[i].key = s.buffer[j].key => i = j

Keys(s) == {row.key : row \in ToSet(s.buffer)}
Buffered(s, k) == CHOOSE row \in ToSet(s.buffer) : row.key = k
Others(s, k) == Only(s.buffer, {row \in ToSet(s.buffer) : row.key # k})

\* _merge_buffer_with_disk: what a statement sees of k.
Visible(s, k) ==
  IF k \notin Keys(s) THEN s.disk[k]
  ELSE IF Buffered(s, k).is_deleted THEN NoRow ELSE Buffered(s, k).data

\* A row that is not dirty says what the file says: to evict it loses nothing.
CleanOnDisk(s) ==
  \A row \in ToSet(s.buffer) :
    ~row.is_dirty => s.disk[row.key] = IF row.is_deleted THEN NoRow ELSE row.data

--------------------------------------------------------------------------------
\* What save_buffer_to_disk leaves of k once the dirty rows are merged into it.
Merged(s, k) ==
  IF k \in Keys(s) /\ Buffered(s, k).is_dirty
    THEN IF Buffered(s, k).is_deleted THEN NoRow ELSE Buffered(s, k).data
    ELSE s.disk[k]

\* flush_dirty_blocks: all dirty rows go to disk, whoever changed them, and stay
\* in the buffer, deleted ones too; with nothing to write the buffer is cleared.
Flushed(s) ==
  IF \A row \in ToSet(s.buffer) : ~row.is_dirty
    THEN [s EXCEPT !.buffer = <<>>]
    ELSE [s EXCEPT !.disk = [k \in Key |-> Merged(s, k)],
                   !.buffer = [i \in DOMAIN @ |-> [@[i] EXCEPT !.is_dirty = FALSE]]]

\* _evict_block takes the least recently used row; a dirty one is flushed first,
\* with all the others.  No code ever sets is_pinned.
Evicted(s) ==
  LET clean == IF Head(s.buffer).is_dirty THEN Flushed(s) ELSE s
  IN [clean EXCEPT !.buffer = Tail(@)]

\* Variant: one row more than the capacity.
AddedOneMore(s, row) ==
  LET room == IF Len(s.buffer) > s.capacity THEN Evicted(s) ELSE s
  IN [room EXCEPT !.buffer = Append(@, row)]

\* _add_to_buffer, for a key that is not buffered.
Added(s, row) ==
  LET room == IF Len(s.buffer) >= s.capacity THEN Evicted(s) ELSE s
  IN [room EXCEPT !.buffer = Append(@, row)]

\* write_to_buffer_for_recovery replaces the buffered row, flags and all.
Put(s, row) ==
  IF row.key \in Keys(s)
    THEN [s EXCEPT !.buffer = Append(Others(s, row.key), row)]
    ELSE Added(s, row)

\* delete_from_buffer_for_recovery forgets the row: the disk is not told.
Dropped(s, k) == [s EXCEPT !.buffer = Others(s, k)]

\* read_block, or the empty row write_block creates for a key it does not find.
Fetched(s, k) ==
  IF k \in Keys(s) THEN s
  ELSE Added(s, [key |-> k, data |-> s.disk[k], is_dirty |-> s.disk[k] = NoRow,
                 is_deleted |-> FALSE])

\* Variant: the dirty flag is left alone.
WrittenUnmarked(s, k, new) ==
  LET f == Fetched(s, k)
  IN Put(f, [Buffered(f, k) EXCEPT !.data = new])

\* write_block sets the contents and the dirty flag, not the deleted flag.
Written(s, k, new) ==
  LET f == Fetched(s, k)
  IN Put(f, [Buffered(f, k) EXCEPT !.data = new, !.is_dirty = TRUE])

\* delete_block marks the row and leaves its contents.
Deleted(s, k) ==
  LET f == Fetched(s, k)
  IN Put(f, [Buffered(f, k) EXCEPT !.is_deleted = TRUE, !.is_dirty = TRUE])

\* The before image write_block logs: the contents of the buffered row.
BeforeImage(s, k) == Buffered(Fetched(s, k), k).data

================================================================================
