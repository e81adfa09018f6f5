-------------------------------- MODULE Indexes --------------------------------
(***************************************************************************)
(* StorageEngine with index files: one table of the engine, its hash index  *)
(* and its B+ tree index on one text column, and the reads that go through  *)
(* them (search_type "index").                                              *)
(*                                                                          *)
(* An index maps the value of the column to row numbers, the places of the  *)
(* rows in the table file.  Statements change the buffer pool and the index *)
(* files at once; the table file changes when the pool is flushed.  The     *)
(* pool is the one of BufferManager, large enough to evict nothing here.    *)
(*                                                                          *)
(* A scan and a read by row number decode the text of a row differently:    *)
(* Padded and Stripped say what each makes of a text.  On a VARCHAR column  *)
(* both give the text that was written.  On a CHAR column the first gives   *)
(* it filled up with spaces and the second without spaces around it.        *)
(* Columns of length 3 and 7 are left out: a scan takes the bytes of their  *)
(* texts for an integer or a floating-point number.                         *)
(***************************************************************************)
EXTENDS BPlusTree

CONSTANTS
  Key,         \* values of the primary key column
  Value,       \* values of the indexed column, numbered in the order of strings
  Padded,      \* what deserialize_with_blocks makes of a text that was written
  Stripped,    \* what deserialize_single_row makes of it
  NoRow,       \* no such row
  NoFile,      \* no such index file
  BlockSize,   \* bytes of a block of the table file: 1024
  RowSize,     \* bytes of a row
  Tables,      \* contents the table may start with: sequences of rows
  MaxWrites    \* bound on the statements that write

\* The columns have fixed widths, so there are finitely many keys and values.
ASSUME KeyAssumption == IsFiniteSet(Key)
ASSUME ValueAssumption == Value \subseteq Nat \ {0} /\ IsFiniteSet(Value) /\ Value # {}
\* Spaces at the end of a text make no difference to either reading.
ASSUME TextAssumption ==
  /\ Padded \in [Value -> Value] /\ Stripped \in [Value -> Value]
  /\ \A v \in Value : Padded[Padded[v]] = Padded[v] /\ Stripped[Padded[v]] = Stripped[v]
ASSUME NoRowAssumption == NoRow \notin Value
ASSUME SizeAssumption == RowSize \in 1 .. BlockSize /\ BlockSize \in Nat
ASSUME NoFileAssumption == NoFile \notin {EmptyTree, <<>>}
ASSUME TablesAssumption ==
  \A rows \in Tables : /\ rows \in Seq([key : Key, value : Value])
                       /\ \A i, j \in DOMAIN rows : rows[i].key = rows[j].key => i = j
ASSUME BoundAssumption == MaxWrites \in Nat

VARIABLES
  file,     \* the table file: its length and the row at each offset
  pool,     \* the store of BufferManager: disk by key, and buffered rows
  hash,     \* the hash index file: the row numbers of each value
  btree,    \* the B+ tree index file: its root
  writes,   \* statements so far that wrote
  exact,    \* history: the indexes that nothing put out of step since they were made
  distinct, \* history: the B+ tree never held one value twice
  erased    \* history: an entry was removed from the B+ tree

vars == <<file, pool, hash, btree, writes, exact, distinct, erased>>

B == INSTANCE BufferManager WITH Row <- Value

--------------------------------------------------------------------------------
(* The table file.                                                          *)

\* serialize_with_blocks: a row that does not fit in the block starts the next.
Laid(f, row) ==
  LET next == f.used + RowSize > BlockSize
      full == IF next THEN f.full + BlockSize ELSE f.full
      used == IF next THEN 0 ELSE f.used
  IN [full |-> full, used |-> used + RowSize,
      rows |-> [o \in DOMAIN f.rows \cup {full + used} |-> IF o = full + used THEN row ELSE f.rows[o]]]

Blocks(rows) ==
  LET f == FoldLeft(Laid, [full |-> 0, used |-> 0, rows |-> <<>>], rows)
  IN [size |-> f.full + f.used, rows |-> f.rows]

\* A text is stored up to the width of its column: the file of this model holds
\* the text that a scan reads there.
Filled(rows) == [i \in DOMAIN rows |-> [key |-> rows[i].key, value |-> Padded[rows[i].value]]]

Serialized(rows) == Blocks(Filled(rows))

\* deserialize_with_blocks: row by row in each block, until too little is left.
Block(f, b) ==
  LET start == b * BlockSize
      bytes == Min({BlockSize, f.size - start})
  IN [j \in 1 .. bytes \div RowSize |-> f.rows[start + (j - 1) * RowSize]]

Scanned(f) ==
  FlattenSeq([b \in 1 .. (f.size + BlockSize - 1) \div BlockSize |-> Block(f, b - 1)])

\* Variant: rows are laid end to end.
OffsetDense(idx) == idx * RowSize

\* Where _read_disk_rows looks for the row of a number.
Offset(idx) ==
  LET rowsPerBlock == BlockSize \div RowSize
  IN (idx \div rowsPerBlock) * BlockSize + (idx % rowsPerBlock) * RowSize

\* What is read where no row begins.
Torn == [key |-> NoRow, value |-> 0]

\* A number beyond the end of the file gives no row.
Fetched(f, numbers) ==
  LET found == B!Only(numbers, {idx \in ToSet(numbers) : Offset(idx) < f.size})
  IN [i \in DOMAIN found |->
        LET o == Offset(found[i])
        IN IF o \in DOMAIN f.rows THEN [f.rows[o] EXCEPT !.value = Stripped[@]] ELSE Torn]

\* _merge_buffer_with_disk, and the same merge in write_block and delete_block.
Merge(rows) ==
  LET kept == B!Only(rows, {r \in ToSet(rows) : ~ \E b \in ToSet(pool.buffer) :
                                                    b.key = r.key /\ b.is_deleted})
      read == {r.key : r \in ToSet(rows)}
      only == B!Only(pool.buffer, {b \in ToSet(pool.buffer) : ~b.is_deleted /\ b.key \notin read})
  IN [i \in DOMAIN kept |-> IF kept[i].key \in B!Keys(pool)
                              THEN [kept[i] EXCEPT !.value = B!Buffered(pool, kept[i].key).data]
                              ELSE kept[i]]
       \o [i \in DOMAIN only |-> [key |-> only[i].key, value |-> only[i].data]]

MergedRows == Merge(Scanned(file))

--------------------------------------------------------------------------------
(* Reads.                                                                   *)

Within(value, low, high) == low <= value /\ (high = NoBound \/ value <= high)

\* The range conditions of the column; read_block tests them on every row.
Answer(rows, low, high) == B!Only(rows, {r \in ToSet(rows) : Within(r.value, low, high)})

\* read_block with the candidates of an index.
IndexScan(numbers, low, high) == Answer(Merge(Fetched(file, numbers)), low, high)

HashSearch(v) == IF v \in DOMAIN hash THEN hash[v] ELSE <<>>

--------------------------------------------------------------------------------
(* HashIndex.                                                               *)

HashInsert(index, v, idx) ==
  [w \in DOMAIN index \cup {v} |->
     IF w # v THEN index[w] ELSE Append(IF v \in DOMAIN index THEN index[v] ELSE <<>>, idx)]

\* Variant: a value stays in the index without row numbers.
HashDeleteKept(index, v, idx) ==
  IF v \notin DOMAIN index \/ idx \notin ToSet(index[v]) THEN index
  ELSE [index EXCEPT ![v] = RemoveFirst(@, idx)]

HashDelete(index, v, idx) ==
  IF v \notin DOMAIN index \/ idx \notin ToSet(index[v]) THEN index
  ELSE LET left == RemoveFirst(index[v], idx)
       IN [w \in DOMAIN index \ (IF left = <<>> THEN {v} ELSE {}) |->
             IF w = v THEN left ELSE index[w]]

\* _update_indexes loads each index file there is, changes it and saves it.
Entered(i, v, idx) ==
  [hash |-> IF i.hash = NoFile THEN NoFile ELSE HashInsert(i.hash, v, idx),
   btree |-> IF i.btree = NoFile THEN NoFile ELSE TreeInsert(i.btree, v, idx)]

Removed(i, v, idx) ==
  [hash |-> IF i.hash = NoFile THEN NoFile ELSE HashDelete(i.hash, v, idx),
   btree |-> IF i.btree = NoFile THEN NoFile ELSE TreeDelete(i.btree, v, idx)]

Indexed == [hash |-> hash, btree |-> btree]

Unique(t) ==
  t # NoFile =>
    LET entries == Entries(Leaves(t))
    IN \A i, j \in DOMAIN entries : entries[i].key = entries[j].key => i = j

--------------------------------------------------------------------------------
(* Statements.                                                              *)

Condition == [column : {"key"}, is : Key] \cup [column : {"value"}, is : Value]

Matches(row, c) == row[c.column] = c.is

\* The rows a condition chooses, by their place.
Chosen(rows, c) ==
  B!Only([i \in DOMAIN rows |-> i], {i \in DOMAIN rows : Matches(rows[i], c)})

\* Rows that are in the buffer only, and rows of the file marked as deleted.
Unsaved == {b.key : b \in {r \in ToSet(pool.buffer) : ~r.is_deleted}}
             \ {r.key : r \in ToSet(Scanned(file))}
Leaving == {b.key : b \in {r \in ToSet(pool.buffer) : r.is_deleted}}
             \cap {r.key : r \in ToSet(Scanned(file))}

\* A statement leaves the pool and the index files of s.  The history: the row
\* numbers stay those of the file as long as ok.
Statement(s, ok) ==
  /\ writes < MaxWrites
  /\ writes' = writes + 1
  /\ pool' = s.pool
  /\ hash' = s.indexed.hash
  /\ btree' = s.indexed.btree
  /\ exact' = IF ok THEN exact ELSE {}
  /\ distinct' = (distinct /\ Unique(btree'))
  /\ UNCHANGED file

\* write_block without conditions: the number of the new row is the number of
\* rows in the file.  Under a key that is buffered as deleted no row appears, but
\* its number is entered.
Insert(k, v) ==
  /\ k \notin {r.key : r \in ToSet(Scanned(file))}
  /\ k \in B!Keys(pool) => B!Buffered(pool, k).is_deleted
  /\ Statement([pool |-> B!Written(pool, k, v),
                indexed |-> Entered(Indexed, v, Len(Scanned(file)))],
               Unsaved = {} /\ k \notin B!Keys(pool))
  /\ UNCHANGED erased

\* write_block with conditions sets the column of the chosen rows to v.
Rewritten(row, idx, v, s) ==
  [pool |-> B!Written(s.pool, row.key, v),
   indexed |-> IF row.value = v THEN s.indexed
               ELSE Entered(Removed(s.indexed, row.value, idx), v, idx)]

Update(c, v) ==
  LET rows == MergedRows
      chosen == Chosen(rows, c)
  IN /\ chosen # <<>>
     /\ Statement(FoldLeft(LAMBDA s, i : Rewritten(rows[i], i - 1, v, s),
                           [pool |-> pool, indexed |-> Indexed], chosen),
                  Leaving = {})
     /\ erased' = (erased \/ btree # NoFile)

\* delete_block marks the chosen rows, then removes them from the indexes.
Delete(c) ==
  LET rows == MergedRows
      chosen == Chosen(rows, c)
  IN /\ chosen # <<>>
     /\ Statement([pool |-> FoldLeft(LAMBDA s, i : B!Deleted(s, rows[i].key), pool, chosen),
                   indexed |-> FoldLeft(LAMBDA s, i : Removed(s, rows[i].value, i - 1),
                                        Indexed, chosen)],
                  Leaving = {})
     /\ erased' = (erased \/ btree # NoFile)

\* Variant: deleted rows are written back.
SavedWithDeleted ==
  LET dirty == B!Only(pool.buffer, {b \in ToSet(pool.buffer) : b.is_dirty})
      rows == Scanned(file)
      old == {r.key : r \in ToSet(rows)}
      new == B!Only(dirty, {b \in ToSet(dirty) : ~b.is_deleted /\ b.key \notin old})
  IN [i \in DOMAIN rows |->
        IF \E b \in ToSet(dirty) : b.key = rows[i].key
          THEN [rows[i] EXCEPT !.value = B!Buffered(pool, rows[i].key).data] ELSE rows[i]]
       \o [i \in DOMAIN new |-> [key |-> new[i].key, value |-> new[i].data]]

\* save_buffer_to_disk: rows keep their place, deleted rows leave theirs, new
\* rows come last.  Here they come in the order of the pool, in the code in that
\* in which they came into it; no property below tells these orders apart.
Saved ==
  LET dirty == B!Only(pool.buffer, {b \in ToSet(pool.buffer) : b.is_dirty})
      rows == Scanned(file)
      old == {r.key : r \in ToSet(rows)}
      kept == B!Only(rows, {r \in ToSet(rows) : ~ \E b \in ToSet(dirty) :
                                                    b.key = r.key /\ b.is_deleted})
      new == B!Only(dirty, {b \in ToSet(dirty) : ~b.is_deleted /\ b.key \notin old})
  IN [i \in DOMAIN kept |->
        IF \E b \in ToSet(dirty) : b.key = kept[i].key
          THEN [kept[i] EXCEPT !.value = B!Buffered(pool, kept[i].key).data] ELSE kept[i]]
       \o [i \in DOMAIN new |-> [key |-> new[i].key, value |-> new[i].data]]

Flush ==
  /\ pool.buffer # <<>>
  /\ pool' = B!Flushed(pool)
  /\ file' = IF \E b \in ToSet(pool.buffer) : b.is_dirty THEN Serialized(Saved) ELSE file
  /\ exact' = IF Leaving = {} THEN exact ELSE {}
  /\ UNCHANGED <<hash, btree, writes, distinct, erased>>

--------------------------------------------------------------------------------
(* Making and dropping an index.                                            *)

\* set_index reads the table file, not the buffer.
Built(x) ==
  LET rows == Scanned(file)
      numbers == [i \in DOMAIN rows |-> i]
  IN IF x = "hash" THEN FoldLeft(LAMBDA h, i : HashInsert(h, rows[i].value, i - 1), <<>>, numbers)
     ELSE FoldLeft(LAMBDA t, i : TreeInsert(t, rows[i].value, i - 1), EmptyTree, numbers)

Kinds == {"hash", "btree"}

Replace(x, f) ==
  /\ hash' = IF x = "hash" THEN f ELSE hash
  /\ btree' = IF x = "btree" THEN f ELSE btree
  /\ exact' = IF \A b \in ToSet(pool.buffer) : ~b.is_dirty THEN exact \cup {x} ELSE exact \ {x}
  /\ distinct' = IF x = "btree" THEN Unique(f) ELSE distinct
  /\ erased' = (erased /\ x # "btree")
  /\ UNCHANGED <<file, pool, writes>>

SetIndex(x) == Replace(x, Built(x))

\* The create of the two classes, for a table without an index on the column.
Create(x) == hash = NoFile /\ btree = NoFile /\ Replace(x, Built(x))

Drop(x) == (IF x = "hash" THEN hash ELSE btree) # NoFile /\ Replace(x, NoFile)

--------------------------------------------------------------------------------
Init ==
  /\ \E rows \in Tables :
       /\ file = Serialized(rows)
       /\ pool = [capacity |-> Cardinality(Key) + 1,
                  disk |-> [k \in Key |->
                              IF \E r \in ToSet(rows) : r.key = k
                                THEN (CHOOSE r \in ToSet(rows) : r.key = k).value ELSE NoRow],
                  buffer |-> <<>>]
  /\ hash = NoFile /\ btree = NoFile
  /\ writes = 0
  /\ exact = {} /\ distinct = TRUE /\ erased = FALSE

Next ==
  \/ \E k \in Key, v \in Value : Insert(k, v)
  \/ \E c \in Condition, v \in Value : Update(c, v)
  \/ \E c \in Condition : Delete(c)
  \/ Flush
  \/ \E x \in Kinds : Create(x) \/ SetIndex(x) \/ Drop(x)

Spec == Init /\ [][Next]_vars

--------------------------------------------------------------------------------
(* Properties.                                                              *)

\* The two ways to read a row give the text that was written.
Plain == \A v \in Value : Padded[v] = v /\ Stripped[v] = v

SameRows(a, b) == Len(a) = Len(b) /\ ToSet(a) = ToSet(b)

\* StorageEngine: the keyed view that the buffer manager has of the table is the
\* content of the file, and rows have the types of their columns.
TypeOK ==
  /\ pool \in [capacity : Nat, disk : [Key -> Value \cup {NoRow}], buffer : Seq(B!BufferedRow)]
  /\ B!StoreOK(pool)
  /\ ToSet(Scanned(file)) \subseteq [key : Key, value : Value]
  /\ hash # NoFile => DOMAIN hash \subseteq Value /\ \A v \in DOMAIN hash : hash[v] # <<>>
  /\ writes \in 0 .. MaxWrites

\* save_buffer_to_disk and the serializer: what a scan of the file gives is, key
\* by key, what the buffer manager takes to be on disk.
FileMatchesStore ==
  LET rows == ToSet(Scanned(file))
  IN /\ {r.key : r \in rows} = {k \in Key : pool.disk[k] # NoRow}
     /\ \A r \in rows : r.value = Padded[pool.disk[r.key]]
     /\ Cardinality(rows) = Len(Scanned(file))

\* BPlusTreeIndex: whatever was inserted and deleted, the tree stays a search
\* tree of one depth.
TreeOrdered == btree # NoFile => Ordered(btree, 1, Max(Value))

\* Where both ways to read a row agree, as on a VARCHAR column, read_block with a hash
\* index answers as without it, as long as the row numbers in the index are those of
\* the file.  On a CHAR column it need not: the row that the index leads to is read
\* without the spaces that a scan, and the index itself, have in its value.
HashScanAnswers ==
  Plain /\ hash # NoFile /\ "hash" \in exact =>
    LET rows == MergedRows
    IN \A v \in Value : SameRows(IndexScan(HashSearch(v), v, v), Answer(rows, v, v))

\* An equality search through the B+ tree as well, when the column has no
\* duplicates or nothing was ever removed from the tree.
TreeScanAnswers ==
  Plain /\ btree # NoFile /\ "btree" \in exact /\ (distinct \/ ~erased) =>
    LET rows == MergedRows
    IN \A v \in Value : SameRows(IndexScan(Search(btree, v), v, v), Answer(rows, v, v))

\* A range search through the B+ tree, when the column has no duplicates.
RangeScanAnswers ==
  Plain /\ btree # NoFile /\ "btree" \in exact /\ distinct =>
    LET rows == MergedRows
    IN \A low, high \in Value \cup {NoBound} :
         SameRows(IndexScan(SearchRange(btree, low, high), low, high), Answer(rows, low, high))

================================================================================
