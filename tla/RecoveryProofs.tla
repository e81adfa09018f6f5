----------------------------- MODULE RecoveryProofs -----------------------------
(***************************************************************************)
(* What holds of Recovery for every workload, every number of transactions, *)
(* keys and rows and every capacity of the buffer pool: the types, that the *)
(* buffer pool never gives up a row the file does not have, and that no cut *)
(* of the log loses what a rollback needs.  Then, for transactions that     *)
(* only update, that Recovery implements AtomicStore.                       *)
(***************************************************************************)
EXTENDS Recovery, BufferManagerProofs, SequenceTheorems

R == INSTANCE FoldTheorems WITH Op <- LAMBDA c, s, r : Redone(s, r)
U == INSTANCE FoldTheorems WITH Op <- LAMBDA c, s, r : Undone(s, r)

\* Induction, for the theorems about the folds of R.
LEMMA RInductive == R!Inductive
  BY NaturalInduction DEF R!Inductive

\* Induction, for the theorems about the folds of U.
LEMMA UInductive == U!Inductive
  BY NaturalInduction DEF U!Inductive

--------------------------------------------------------------------------------
(* Records.                                                                 *)

DataRecord == {r \in Record : r.action \in Data}

LEMMA RecordFields ==
  /\ \A r \in Record : r.tx \in Tx \/ (r.tx = NoTx /\ r.action = "checkpoint" /\ r.ongoing \subseteq Tx)
  /\ \A r \in Record : r.action = "checkpoint" => r.tx = NoTx /\ r.ongoing \subseteq Tx
  /\ \A r \in DataRecord : /\ r.tx \in Tx /\ r.key \in Key
                           /\ r.before \in Row \cup {NoRow} /\ r.after \in Row \cup {NoRow}
  /\ NoTx \notin Tx
  BY TxAssumption DEF Record, DataRecord, Data, NoTx

LEMMA LifecycleType ==
  /\ \A t \in Tx : \A a \in {"start", "commit", "abort"} :
       /\ Lifecycle(a, t) \in Record
       /\ Lifecycle(a, t).action = a /\ Lifecycle(a, t).tx = t
  /\ \A S \in SUBSET Tx : /\ Checkpoint(S) \in Record /\ Checkpoint(S).tx = NoTx
                          /\ Checkpoint(S).action = "checkpoint" /\ Checkpoint(S).ongoing = S
  BY DEF Lifecycle, Checkpoint, Record

LEMMA OperationType ==
  ASSUME NEW t \in Tx, NEW k \in Key, NEW before \in Row \cup {NoRow}, NEW after \in Row \cup {NoRow}
  PROVE  /\ Operation(t, k, before, after) \in DataRecord
         /\ Operation(t, k, before, after).tx = t /\ Operation(t, k, before, after).key = k
         /\ Operation(t, k, before, after).before = before
         /\ Operation(t, k, before, after).after = after
         /\ before # NoRow /\ after # NoRow => Operation(t, k, before, after).action = "update"
  <1> DEFINE a == CASE before = NoRow -> "insert" [] after = NoRow -> "delete" [] OTHER -> "update"
  <1>1. a \in Data /\ (before # NoRow /\ after # NoRow => a = "update")
    BY DEF Data
  <1>2. Operation(t, k, before, after)
          = [action |-> a, tx |-> t, key |-> k, before |-> before, after |-> after]
    BY DEF Operation
  <1> HIDE DEF a
  <1> QED BY <1>1, <1>2 DEF Record, DataRecord

LEMMA CompensationType ==
  ASSUME NEW r \in DataRecord
  PROVE  /\ Compensation(r) \in Record /\ Compensation(r).action = "compensation"
         /\ Compensation(r).tx = r.tx
  BY DEF Compensation, Record, DataRecord, Data

\* The place of the last checkpoint.
LEMMA LastCheckpointPlace ==
  ASSUME NEW log \in Seq(Record)
  PROVE  /\ LastCheckpoint(log) \in 0 .. Len(log)
         /\ LastCheckpoint(log) # 0 => log[LastCheckpoint(log)].action = "checkpoint"
         /\ \A i \in DOMAIN log : log[i].action = "checkpoint" =>
              i <= LastCheckpoint(log) /\ LastCheckpoint(log) # 0
  <1> DEFINE I == {i \in 1 .. Len(log) : log[i].action = "checkpoint"}
  <1>1. LastCheckpoint(log) = IF I # {} THEN F!Top(I) ELSE 0
    BY DEF LastCheckpoint, SelectLastInSeq, Max, F!Top
  <1>2. Len(log) \in Nat /\ I \subseteq 1 .. Len(log) /\ DOMAIN log = 1 .. Len(log)
    OBVIOUS
  <1>3. I # {} => F!Top(I) \in I /\ \A x \in I : x <= F!Top(I)
    BY <1>2, F!MaxOf, FInductive
  <1>4. \A i \in DOMAIN log : log[i].action = "checkpoint" <=> i \in I
    BY <1>2
  <1> DEFINE l == LastCheckpoint(log)
  <1> HIDE DEF I, l
  <1>5. CASE I = {}
    <2>1. l = 0
      BY <1>1, <1>5 DEF l
    <2> QED BY <1>2, <1>4, <1>5, <2>1 DEF l
  <1>6. CASE I # {}
    <2>1. l \in I /\ \A x \in I : x <= l
      BY <1>1, <1>3, <1>6 DEF l
    <2>2. l \in 1 .. Len(log)
      BY <1>2, <2>1
    <2> QED BY <1>2, <1>4, <2>1, <2>2 DEF l
  <1> QED BY <1>5, <1>6

LEMMA AfterType ==
  ASSUME NEW log \in Seq(Record)
  PROVE  /\ After(log) \in Seq(Record)
         /\ Len(After(log)) = Len(log) - LastCheckpoint(log)
         /\ \A i \in 1 .. Len(log) - LastCheckpoint(log) : After(log)[i] = log[LastCheckpoint(log) + i]
  <1> DEFINE l == LastCheckpoint(log)
             n == Len(log)
  <1>1. l \in 0 .. n /\ n \in Nat
    BY LastCheckpointPlace
  <1> HIDE DEF l
  <1>2. \A i \in l + 1 .. n : log[i] \in Record
    BY <1>1
  <1>3. /\ SubSeq(log, l + 1, n) \in Seq(Record)
        /\ Len(SubSeq(log, l + 1, n)) = IF l + 1 <= n THEN n - (l + 1) + 1 ELSE 0
        /\ \A i \in 1 .. n - (l + 1) + 1 : SubSeq(log, l + 1, n)[i] = log[l + 1 + i - 1]
    BY <1>1, <1>2, SubSeqProperties
  <1>4. After(log) = SubSeq(log, l + 1, n)
    BY DEF After, l
  <1>5. n - (l + 1) + 1 = n - l /\ \A i \in 1 .. n - l : l + 1 + i - 1 = l + i
    BY <1>1
  <1>6. l + 1 <= n \/ n - l = 0
    BY <1>1
  <1> QED BY <1>3, <1>4, <1>5, <1>6 DEF l

--------------------------------------------------------------------------------
(* Cuts of the log.                                                         *)

\* What is kept is a choice of records: h gives the place in the log of each, and
\* these are the places in I.
PlacesKept(h, k, log, I) ==
  /\ h \in [1 .. Len(k) -> 1 .. Len(log)]
  /\ \A i, j \in 1 .. Len(k) : i < j => h[i] < h[j]
  /\ \A i \in 1 .. Len(k) : k[i] = log[h[i]] /\ h[i] \in I
  /\ \A j \in (1 .. Len(log)) \cap I : \E i \in 1 .. Len(k) : h[i] = j

LEMMA KeptPlaces ==
  ASSUME NEW log \in Seq(Record), NEW I
  PROVE  Kept(log, I) \in Seq(Record) /\ \E h : PlacesKept(h, Kept(log, I), log, I)
  <1> DEFINE D == 1 .. Len(log)
             id == [i \in D |-> i]
             idx == Only(id, I)
             k == [j \in DOMAIN idx |-> log[idx[j]]]
  <1>1. Len(log) \in Nat /\ DOMAIN log = D
    OBVIOUS
  <1>2. id \in Seq(D) /\ Len(id) = Len(log) /\ \A i \in D : id[i] = i
    BY <1>1
  <1>3. Kept(log, I) = k
    BY <1>1 DEF Kept
  <1> HIDE DEF id
  <1>4. idx \in Seq(D) /\ idx \in Seq(D \cap I)
    BY <1>2, OnlyType, Zenon
  <1>5. PICK h : Selects(h, id, idx, I)
    BY <1>2, OnlySelects, Zenon
  <1> HIDE DEF idx
  <1>6. /\ Len(idx) \in Nat /\ DOMAIN idx = 1 .. Len(idx)
        /\ \A i \in 1 .. Len(idx) : idx[i] \in D /\ idx[i] \in I
    BY <1>4
  <1>7. /\ k \in Seq(Record) /\ Len(k) = Len(idx)
        /\ \A i \in 1 .. Len(idx) : k[i] = log[idx[i]]
    BY <1>1, <1>6
  <1>8. /\ h \in [1 .. Len(idx) -> D]
        /\ \A i, j \in 1 .. Len(idx) : i < j => h[i] < h[j]
        /\ \A i \in 1 .. Len(idx) : idx[i] = h[i]
        /\ \A j \in D : j \in I => \E i \in 1 .. Len(idx) : h[i] = j
    BY <1>2, <1>5 DEF Selects
  <1> HIDE DEF k
  <1>9. \A i \in 1 .. Len(k) : k[i] = log[h[i]] /\ h[i] \in I
    BY <1>6, <1>7, <1>8
  <1>10. /\ h \in [1 .. Len(k) -> 1 .. Len(log)]
         /\ \A i, j \in 1 .. Len(k) : i < j => h[i] < h[j]
         /\ \A j \in (1 .. Len(log)) \cap I : \E i \in 1 .. Len(k) : h[i] = j
    BY <1>7, <1>8
  <1>11. PlacesKept(h, k, log, I)
    BY <1>9, <1>10 DEF PlacesKept
  <1> QED BY <1>3, <1>7, <1>11

\* A cut keeps in order what it keeps: with every record of S, all that can be
\* chosen from S.
LEMMA KeptOnly ==
  ASSUME NEW log \in Seq(Record), NEW I, NEW S, \A i \in DOMAIN log : log[i] \in S => i \in I
  PROVE  Only(Kept(log, I), S) = Only(log, S)
  <1> DEFINE k == Kept(log, I)
  <1>1. k \in Seq(Record)
    BY KeptPlaces
  <1>2. PICK h : PlacesKept(h, k, log, I)
    BY KeptPlaces
  <1> HIDE DEF k
  <1>3. Selects(h, log, k, S)
    BY <1>2 DEF PlacesKept, Selects
  <1>4. Only(k, S) = Only(log, S)
    BY <1>1, <1>3, OnlySelected, Zenon
  <1> QED BY <1>4 DEF k

\* The end of a log.
LEMMA EndOfLog ==
  ASSUME NEW log \in Seq(Record), NEW m \in 1 .. Len(log), NEW S,
         \A i \in DOMAIN log : log[i] \in S => i >= m
  PROVE  /\ SubSeq(log, m, Len(log)) \in Seq(Record)
         /\ Len(SubSeq(log, m, Len(log))) = Len(log) - m + 1
         /\ \A i \in 1 .. Len(log) - m + 1 : SubSeq(log, m, Len(log))[i] = log[m + i - 1]
         /\ Only(SubSeq(log, m, Len(log)), S) = Only(log, S)
  <1> DEFINE n == Len(log)
             e == SubSeq(log, m, n)
             h == [i \in 1 .. n - m + 1 |-> m + i - 1]
  <1>1. n \in Nat /\ m \in 1 .. n /\ \A i \in m .. n : log[i] \in Record
    OBVIOUS
  <1>2. e \in Seq(Record) /\ Len(e) = n - m + 1 /\ \A i \in 1 .. n - m + 1 : e[i] = log[m + i - 1]
    BY <1>1, SubSeqProperties
  <1> HIDE DEF e
  <1>3. \A i \in 1 .. n - m + 1 : h[i] = m + i - 1 /\ h[i] \in 1 .. n
    BY <1>1
  <1>4. h \in [1 .. Len(e) -> 1 .. n]
    BY <1>2, <1>3
  <1> HIDE DEF h
  <1>5. \A i, j \in 1 .. Len(e) : i < j => h[i] < h[j]
    BY <1>1, <1>2, <1>3
  <1>6. \A j \in 1 .. n : log[j] \in S => \E i \in 1 .. Len(e) : h[i] = j
    <2> TAKE j \in 1 .. n
    <2> HAVE log[j] \in S
    <2>1. j >= m
      OBVIOUS
    <2>2. j - m + 1 \in 1 .. Len(e) /\ h[j - m + 1] = j
      BY <1>1, <1>2, <1>3, <2>1
    <2> QED BY <2>2
  <1>7. Selects(h, log, e, S)
    BY <1>2, <1>3, <1>4, <1>5, <1>6 DEF Selects
  <1>8. Only(e, S) = Only(log, S)
    BY <1>2, <1>7, OnlySelected, Zenon
  <1> QED BY <1>2, <1>8 DEF e

\* The cut of a commit leaves records, a checkpoint among them, if the log has one.
LEMMA ClearedType ==
  ASSUME NEW log \in Seq(Record), NEW S \in SUBSET Tx,
         NEW c \in DOMAIN log, log[c].action = "checkpoint"
  PROVE  /\ Cleared(log, S) \in Seq(Record)
         /\ \E i \in DOMAIN Cleared(log, S) : Cleared(log, S)[i].action = "checkpoint"
  <1> DEFINE l == LastCheckpoint(log)
             n == Len(log)
  <1>1. l \in 1 .. n /\ n \in Nat /\ log[l].action = "checkpoint"
    BY LastCheckpointPlace
  <1> HIDE DEF l
  <1>2. CASE S = {}
    <2> DEFINE e == SubSeq(log, l, n)
    <2>1. e \in Seq(Record) /\ Len(e) = n - l + 1 /\ \A i \in 1 .. n - l + 1 : e[i] = log[l + i - 1]
      <3>1. \A i \in DOMAIN log : log[i] \in {} => i >= l
        OBVIOUS
      <3> QED BY <1>1, <3>1, EndOfLog
    <2> HIDE DEF e
    <2>2. 1 \in DOMAIN e /\ e[1] = log[l]
      BY <1>1, <2>1
    <2>3. Cleared(log, S) = e
      BY <1>2 DEF Cleared, l, e
    <2> QED BY <1>1, <2>1, <2>2, <2>3
  <1>3. CASE S # {}
    <2> DEFINE start == SelectInSeq(log, LAMBDA r : r = Lifecycle("start", Smallest(S)))
               I == {i \in DOMAIN log : i = l \/ (start \in 1 .. i /\ log[i].tx \in S)}
               k == Kept(log, I)
    <2>1. Cleared(log, S) = k
      BY <1>3 DEF Cleared, ClearedBeforeOldest, l
    <2>2. l \in (1 .. Len(log)) \cap I
      BY <1>1
    <2> HIDE DEF I
    <2>3. k \in Seq(Record)
      BY KeptPlaces
    <2>0. PICK h : PlacesKept(h, k, log, I)
      BY KeptPlaces
    <2> HIDE DEF k
    <2>4. /\ \A i \in 1 .. Len(k) : k[i] = log[h[i]] /\ h[i] \in I
          /\ \A j \in (1 .. Len(log)) \cap I : \E i \in 1 .. Len(k) : h[i] = j
      BY <2>0 DEF PlacesKept
    <2>5. PICK i \in 1 .. Len(k) : h[i] = l
      BY <2>2, <2>4
    <2>6. i \in DOMAIN k /\ k[i].action = "checkpoint"
      BY <1>1, <2>3, <2>4, <2>5
    <2> QED BY <2>1, <2>3, <2>6
  <1> QED BY <1>2, <1>3

--------------------------------------------------------------------------------
(* Redo and undo.                                                           *)

LEMMA RedoneAllIsFold ==
  ASSUME NEW s, NEW records
  PROVE  RedoneAll(s, records) = R!Fold(0, s, records)
  BY DEF RedoneAll, R!Fold, FoldLeft, MapThenFoldSet, R!MapThenFoldSet, Max, R!Top

LEMMA UndoneAllIsFold ==
  ASSUME NEW s, NEW records
  PROVE  UndoneAll(s, records) = U!Fold(0, s, records)
  BY DEF UndoneAll, U!Fold, FoldLeft, MapThenFoldSet, U!MapThenFoldSet, Max, U!Top

\* The good stores of a capacity.
GoodStores(c) == {s \in Store : Good(s) /\ s.capacity = c}

LEMMA RedoneGood ==
  ASSUME NEW s, Good(s), NEW r \in DataRecord
  PROVE  Shows(s, Redone(s, r), r.key, IF r.action = "delete" THEN s.disk[r.key] ELSE r.after)
  <1>1. r.key \in Key /\ r.after \in Row \cup {NoRow}
    BY RecordFields
  <1>2. Image(r.key, r.after) \in BufferedRow
    BY <1>1 DEF Image, BufferedRow
  <1>3. /\ Image(r.key, r.after).is_dirty /\ Image(r.key, r.after).key = r.key
        /\ Value(Image(r.key, r.after)) = r.after
    BY DEF Image, Value
  <1>4. Shows(s, Put(s, Image(r.key, r.after)), r.key, r.after)
    BY <1>2, <1>3, PutGood
  <1>5. Shows(s, Dropped(s, r.key), r.key, s.disk[r.key])
    BY <1>1, DroppedGood
  <1> QED BY <1>4, <1>5 DEF Redone

LEMMA UndoneGood ==
  ASSUME NEW s, Good(s), NEW r \in DataRecord
  PROVE  Shows(s, Undone(s, r), r.key, IF r.action = "insert" THEN s.disk[r.key] ELSE r.before)
  <1>1. r.key \in Key /\ r.before \in Row \cup {NoRow}
    BY RecordFields
  <1>2. Image(r.key, r.before) \in BufferedRow
    BY <1>1 DEF Image, BufferedRow
  <1>3. /\ Image(r.key, r.before).is_dirty /\ Image(r.key, r.before).key = r.key
        /\ Value(Image(r.key, r.before)) = r.before
    BY DEF Image, Value
  <1>4. Shows(s, Put(s, Image(r.key, r.before)), r.key, r.before)
    BY <1>2, <1>3, PutGood
  <1>5. Shows(s, Dropped(s, r.key), r.key, s.disk[r.key])
    BY <1>1, DroppedGood
  <1> QED BY <1>4, <1>5 DEF Undone

LEMMA FoldsGood ==
  ASSUME NEW s, Good(s), NEW records \in Seq(DataRecord)
  PROVE  /\ Good(RedoneAll(s, records)) /\ RedoneAll(s, records).capacity = s.capacity
         /\ Good(UndoneAll(s, records)) /\ UndoneAll(s, records).capacity = s.capacity
  <1> DEFINE D == GoodStores(s.capacity)
  <1>1. s \in D
    BY DEF GoodStores, Good
  <1>2. \A u \in D, r \in DataRecord : Redone(u, r) \in D /\ Undone(u, r) \in D
    BY RedoneGood, UndoneGood DEF GoodStores, Shows, Good
  <1> HIDE DEF D
  <1>3. R!Fold(0, s, records) \in D
    BY <1>1, <1>2, R!FoldType, RInductive
  <1>4. U!Fold(0, s, records) \in D
    BY <1>1, <1>2, U!FoldType, UInductive
  <1> QED BY <1>3, <1>4, RedoneAllIsFold, UndoneAllIsFold DEF D, GoodStores

\* The selections of recovery and rollback are of data records.
LEMMA SelectionsType ==
  ASSUME NEW log \in Seq(Record)
  PROVE  /\ Reverse(log) \in Seq(Record)
         /\ RedoList(log) \in Seq(DataRecord)
         /\ UndoList(log) \in Seq(DataRecord \cup {r \in Record : r.action = "start"})
         /\ Only(UndoList(log), Operations(log)) \in Seq(DataRecord)
         /\ \A t \in Tx : OperationsOf(log, t) \in Seq({r \in DataRecord : r.tx = t})
  <1>1. \A i \in DOMAIN log : log[i] \in Record
    OBVIOUS
  <1>2. \A r \in ToSet(log) : r \in Record
    BY <1>1 DEF ToSet
  <1>3. Operations(log) \subseteq DataRecord
    BY <1>2 DEF Operations, DataRecord
  <1>4. Reverse(log) \in Seq(Record)
    BY ReverseType
  <1>5. \A A, B : A \subseteq B => Seq(A) \subseteq Seq(B)
    OBVIOUS
  <1>6. RedoList(log) \in Seq(DataRecord)
    <2> DEFINE S == {r \in Operations(log) : r.tx \notin With(After(log), "abort")}
    <2>1. Only(After(log), S) \in Seq(Record \cap S)
      BY AfterType, OnlyType, Zenon
    <2>2. Record \cap S \subseteq DataRecord
      BY <1>3
    <2> QED BY <1>5, <2>1, <2>2 DEF RedoList
  <1>7. UndoList(log) \in Seq(DataRecord \cup {r \in Record : r.action = "start"})
    <2> DEFINE S == {r \in ToSet(log) : r.tx \in Incomplete(log) /\ r.action \in Data \cup {"start"}}
    <2>1. Only(Reverse(log), S) \in Seq(Record \cap S)
      BY <1>4, OnlyType, Zenon
    <2>2. Record \cap S \subseteq DataRecord \cup {r \in Record : r.action = "start"}
      BY DEF DataRecord
    <2> QED BY <1>5, <2>1, <2>2 DEF UndoList
  <1>8. Only(UndoList(log), Operations(log)) \in Seq(DataRecord)
    <2> DEFINE E == DataRecord \cup {r \in Record : r.action = "start"}
    <2>1. Only(UndoList(log), Operations(log)) \in Seq(E \cap Operations(log))
      BY <1>7, OnlyType, Zenon
    <2>2. E \cap Operations(log) \subseteq DataRecord
      BY <1>3
    <2> QED BY <1>5, <2>1, <2>2
  <1>9. ASSUME NEW t \in Tx
        PROVE  OperationsOf(log, t) \in Seq({r \in DataRecord : r.tx = t})
    <2> DEFINE S == {r \in Operations(log) : r.tx = t}
    <2>1. Only(Reverse(log), S) \in Seq(Record \cap S)
      BY <1>4, OnlyType, Zenon
    <2>2. Record \cap S \subseteq {r \in DataRecord : r.tx = t}
      BY <1>3
    <2> QED BY <1>5, <2>1, <2>2 DEF OperationsOf
  <1> QED BY <1>4, <1>6, <1>7, <1>8, <1>9

\* The records that answer an undo are no operations and no checkpoints.
LEMMA AnswersType ==
  ASSUME NEW records \in Seq(DataRecord \cup {r \in Record : r.action = "start"})
  PROVE  /\ Answers(records) \in Seq(Record) /\ Len(Answers(records)) = Len(records)
         /\ \A i \in DOMAIN records : /\ Answers(records)[i].action \in {"abort", "compensation"}
                                      /\ Answers(records)[i].tx = records[i].tx
                                      /\ Answers(records)[i].tx \in Tx
                                      /\ Answers(records)[i].action = "abort"
                                           => records[i].action = "start"
  <1> DEFINE E == DataRecord \cup {r \in Record : r.action = "start"}
             A(r) == IF r.action = "start" THEN Lifecycle("abort", r.tx) ELSE Compensation(r)
  <1>1. ASSUME NEW r \in E
        PROVE  /\ A(r) \in Record /\ A(r).tx = r.tx /\ r.tx \in Tx
               /\ A(r).action \in {"abort", "compensation"}
               /\ A(r).action = "abort" => r.action = "start"
    <2>1. CASE r.action = "start"
      BY <2>1, RecordFields, LifecycleType
    <2>2. CASE r.action # "start"
      BY <2>2, RecordFields, CompensationType
    <2> QED BY <2>1, <2>2
  <1>2. Answers(records) = [i \in DOMAIN records |-> A(records[i])]
    BY DEF Answers
  <1>3. records \in Seq(E)
    OBVIOUS
  <1> HIDE DEF A, E
  <1>4. \A i \in DOMAIN records : records[i] \in E
    BY <1>3
  <1>5. /\ Len(records) \in Nat /\ DOMAIN records = 1 .. Len(records)
    BY <1>3
  <1>6. [i \in DOMAIN records |-> A(records[i])] \in Seq(Record)
    BY <1>1, <1>4, <1>5
  <1> QED BY <1>1, <1>2, <1>4, <1>5, <1>6

\* What recovery leaves.
LEMMA RecoveredGood ==
  ASSUME NEW s, Good(s), NEW log \in Seq(Record)
  PROVE  Good(RedoneUndone(s, log)) /\ RedoneUndone(s, log).capacity = s.capacity
  <1> DEFINE r == RedoneAll(s, RedoList(log))
             u == Only(UndoList(log), Operations(log))
  <1>1. RedoList(log) \in Seq(DataRecord) /\ u \in Seq(DataRecord)
    BY SelectionsType
  <1>2. Good(r) /\ r.capacity = s.capacity
    BY <1>1, FoldsGood
  <1> HIDE DEF r, u
  <1>3. Good(UndoneAll(r, u)) /\ UndoneAll(r, u).capacity = r.capacity
    BY <1>1, <1>2, FoldsGood
  <1> QED BY <1>2, <1>3 DEF RedoneUndone, r, u

LEMMA StoreExcept ==
  ASSUME NEW s \in Store, NEW d \in [Key -> Row \cup {NoRow}], NEW b \in Seq(BufferedRow)
  PROVE  [s EXCEPT !.disk = d, !.buffer = b] = [capacity |-> s.capacity, disk |-> d, buffer |-> b]
  <1> DEFINE x == [s EXCEPT !.disk = d, !.buffer = b]
             y == [capacity |-> s.capacity, disk |-> d, buffer |-> b]
  <1>1. x \in Store /\ x.capacity = s.capacity /\ x.disk = d /\ x.buffer = b
    BY DEF Store
  <1>2. y \in Store /\ y.capacity = s.capacity /\ y.disk = d /\ y.buffer = b
    BY DEF Store
  <1> HIDE DEF x, y
  <1>3. x = y
    BY <1>1, <1>2 DEF Store
  <1> QED BY <1>3 DEF x, y

\* A store with nothing in the buffer.
LEMMA EmptyBuffer ==
  ASSUME NEW s, Good(s), NEW d \in [Key -> Row \cup {NoRow}], NEW u,
         u = [capacity |-> s.capacity, disk |-> d, buffer |-> <<>>]
  PROVE  /\ Good(u) /\ u.capacity = s.capacity /\ u.disk = d
         /\ \A k \in Key : Visible(u, k) = d[k]
  <1>1. s \in Store /\ StoreOK(s)
    BY DEF Good
  <1>2. u \in Store /\ ToSet(u.buffer) = {} /\ u.disk = d /\ u.capacity = s.capacity
    BY <1>1, StoreFields DEF Store, ToSet
  <1>3. StoreOK(u)
    BY <1>1, StoreFields DEF StoreOK
  <1>4. Good(u)
    BY <1>2, <1>3 DEF Good, CleanOnDisk
  <1>5. \A k \in Key : Visible(u, k) = d[k]
    BY <1>2, <1>3, VisibleIs
  <1> QED BY <1>2, <1>4, <1>5

\* The buffer is lost.
LEMMA BufferLost ==
  ASSUME NEW s, Good(s)
  PROVE  /\ Good([s EXCEPT !.buffer = <<>>])
         /\ [s EXCEPT !.buffer = <<>>].capacity = s.capacity
         /\ [s EXCEPT !.buffer = <<>>].disk = s.disk
         /\ \A k \in Key : Visible([s EXCEPT !.buffer = <<>>], k) = s.disk[k]
         /\ [s EXCEPT !.buffer = <<>>] = [capacity |-> s.capacity, disk |-> s.disk, buffer |-> <<>>]
  <1> DEFINE u == [s EXCEPT !.buffer = <<>>]
  <1>1. u = [capacity |-> s.capacity, disk |-> s.disk, buffer |-> <<>>]
    BY StoreFields DEF Good
  <1>2. s.disk \in [Key -> Row \cup {NoRow}]
    BY StoreFields DEF Good
  <1> HIDE DEF u
  <1>3. Good(u) /\ u.capacity = s.capacity /\ u.disk = s.disk /\ \A k \in Key : Visible(u, k) = s.disk[k]
    BY <1>1, <1>2, EmptyBuffer
  <1> QED BY <1>1, <1>3 DEF u

LEMMA CrashedGood ==
  ASSUME NEW s, Good(s), NEW d \in [Key -> Row \cup {NoRow}]
  PROVE  /\ Good([s EXCEPT !.disk = d, !.buffer = <<>>])
         /\ [s EXCEPT !.disk = d, !.buffer = <<>>].capacity = s.capacity
         /\ [s EXCEPT !.disk = d, !.buffer = <<>>].disk = d
         /\ \A k \in Key : Visible([s EXCEPT !.disk = d, !.buffer = <<>>], k) = d[k]
         /\ [s EXCEPT !.disk = d, !.buffer = <<>>] = [capacity |-> s.capacity, disk |-> d, buffer |-> <<>>]
  <1> DEFINE u == [s EXCEPT !.disk = d, !.buffer = <<>>]
  <1>1. u = [capacity |-> s.capacity, disk |-> d, buffer |-> <<>>]
    <2>1. s \in Store /\ <<>> \in Seq(BufferedRow)
      BY DEF Good
    <2> QED BY <2>1, StoreExcept
  <1> HIDE DEF u
  <1>2. Good(u) /\ u.capacity = s.capacity /\ u.disk = d /\ \A k \in Key : Visible(u, k) = d[k]
    BY <1>1, EmptyBuffer
  <1> QED BY <1>1, <1>2 DEF u

\* The database that disk and log amount to.
LEMMA OutcomeType ==
  ASSUME NEW s, Good(s), NEW log \in Seq(Record), NEW p
  PROVE  Outcome(s, log, p) \in [Key -> Row \cup {NoRow}]
  <1> DEFINE settled == Only(log, {r \in ToSet(log) : ~(r.action = "abort" /\ p[r.tx] \in Undoing)})
             disk == IF Flushing(p) THEN Flushed(s).disk ELSE s.disk
             c == [s EXCEPT !.disk = disk, !.buffer = <<>>]
             u == RedoneUndone(c, settled)
  <1>1. settled \in Seq(Record)
    BY OnlyType, Zenon
  <1>2. disk \in [Key -> Row \cup {NoRow}]
    BY FlushedGood, StoreFields DEF Good
  <1> HIDE DEF settled, disk
  <1>3. Good(c)
    BY <1>2, CrashedGood
  <1> HIDE DEF c
  <1>4. Good(u)
    BY <1>1, <1>3, RecoveredGood
  <1> HIDE DEF u
  <1>5. Flushed(u).disk \in [Key -> Row \cup {NoRow}]
    BY <1>4, FlushedGood, StoreFields DEF Good
  <1> QED BY <1>5 DEF Outcome, u, c, disk, settled

--------------------------------------------------------------------------------
(* Types.                                                                   *)

HasCheckpoint(log) == \E i \in DOMAIN log : log[i].action = "checkpoint"

\* The cut of a commit finds the checkpoint record.
CheckpointLogged == (\E t \in Tx : pc[t] = "clear") => HasCheckpoint(wal)

TypeInv == TypeOK /\ CleanRowsOnDisk /\ CheckpointLogged

WritesType == [Tx -> Seq([key : Key, row : Row \cup {NoRow}])]

LEMMA TypeInvFacts ==
  ASSUME TypeInv
  PROVE  /\ workload \in Workload /\ Good(store) /\ store.capacity = workload.capacity
         /\ store.disk \in [Key -> Row \cup {NoRow}]
         /\ wal \in Seq(Record) /\ active_transactions \subseteq Tx
         /\ pc \in [Tx -> Place] /\ ongoing \in [Tx -> SUBSET Tx]
         /\ writes \in WritesType
  BY WorkloadAssumption, StoreFields DEF TypeInv, TypeOK, CleanRowsOnDisk, Good, WritesType

\* A log that grows keeps its records.
LEMMA LogGrows ==
  ASSUME NEW log \in Seq(Record)
  PROVE  /\ \A r \in Record : /\ Append(log, r) \in Seq(Record)
                              /\ HasCheckpoint(log) => HasCheckpoint(Append(log, r))
                              /\ r.action = "checkpoint" => HasCheckpoint(Append(log, r))
         /\ \A more \in Seq(Record) : /\ log \o more \in Seq(Record)
                                      /\ HasCheckpoint(log) => HasCheckpoint(log \o more)
  <1>1. ASSUME NEW r \in Record
        PROVE  /\ Append(log, r) \in Seq(Record)
               /\ HasCheckpoint(log) => HasCheckpoint(Append(log, r))
               /\ r.action = "checkpoint" => HasCheckpoint(Append(log, r))
    <2> DEFINE v == Append(log, r)
    <2>1. /\ v \in Seq(Record) /\ Len(log) + 1 \in DOMAIN v /\ v[Len(log) + 1] = r
          /\ \A i \in DOMAIN log : i \in DOMAIN v /\ v[i] = log[i]
      OBVIOUS
    <2> HIDE DEF v
    <2>2. HasCheckpoint(log) => HasCheckpoint(v)
      BY <2>1 DEF HasCheckpoint
    <2>3. r.action = "checkpoint" => HasCheckpoint(v)
      BY <2>1 DEF HasCheckpoint
    <2> QED BY <2>1, <2>2, <2>3 DEF v
  <1>2. ASSUME NEW more \in Seq(Record)
        PROVE  log \o more \in Seq(Record) /\ (HasCheckpoint(log) => HasCheckpoint(log \o more))
    <2> DEFINE v == log \o more
    <2>1. v \in Seq(Record) /\ \A i \in DOMAIN log : i \in DOMAIN v /\ v[i] = log[i]
      OBVIOUS
    <2> HIDE DEF v
    <2>2. HasCheckpoint(log) => HasCheckpoint(v)
      BY <2>1 DEF HasCheckpoint
    <2> QED BY <2>1, <2>2 DEF v
  <1> QED BY <1>1, <1>2

\* What a step has to show for the invariant.
LEMMA TypeInvStep ==
  ASSUME TypeInv,
         UNCHANGED workload,
         Good(store'), store'.capacity = store.capacity,
         wal' \in Seq(Record),
         active_transactions' \subseteq Tx, server' \in {"up", "down"},
         pc' \in [Tx -> Place], ongoing' \in [Tx -> SUBSET Tx],
         writes' \in WritesType, \A t \in Tx : Len(writes'[t]) <= workload.writes,
         \A t \in Tx : pc'[t] = "clear" => HasCheckpoint(wal'),
         Foresee
  PROVE  TypeInv'
  <1>1. durable' \in [Key -> Row \cup {NoRow}]
    BY OutcomeType DEF Foresee
  <1>2. TypeOK'
    BY <1>1 DEF TypeInv, TypeOK, Good, WritesType
  <1>3. CleanRowsOnDisk'
    BY DEF CleanRowsOnDisk, Good
  <1>4. CheckpointLogged'
    BY DEF CheckpointLogged
  <1> QED BY <1>2, <1>3, <1>4 DEF TypeInv

LEMMA StepPlaces ==
  ASSUME TypeInv, NEW t \in Tx, NEW from, NEW to \in Place, Step(t, from, to)
  PROVE  /\ pc' \in [Tx -> Place] /\ pc'[t] = to /\ pc[t] \in from /\ server = "up"
         /\ \A u \in Tx \ {t} : pc'[u] = pc[u]
         /\ to # "clear" => \A u \in Tx : pc'[u] = "clear" => pc[u] = "clear"
         /\ \A u \in Tx : pc'[u] = "clear" /\ pc[u] = "clear" => HasCheckpoint(wal)
  BY TypeInvFacts DEF Step, MayRun, TypeInv, CheckpointLogged

\* A statement of a client writes one row and one record.
LEMMA StatementTypes ==
  ASSUME TypeInv, NEW t \in Tx, NEW k \in Key, NEW row \in Row \cup {NoRow}, Statement(t, k, row)
  PROVE  /\ UNCHANGED workload /\ UNCHANGED memory
         /\ writes' \in WritesType /\ \A u \in Tx : Len(writes'[u]) <= workload.writes
         /\ writes'[t] = Append(writes[t], [key |-> k, row |-> row])
         /\ \A u \in Tx \ {t} : writes'[u] = writes[u]
         /\ pc' = pc
  <1>1. writes \in WritesType /\ workload.writes \in Nat /\ pc \in [Tx -> Place]
    BY TypeInvFacts DEF Workload
  <1>2. \A u \in Tx : writes[u] \in Seq([key : Key, row : Row \cup {NoRow}])
    BY <1>1 DEF WritesType
  <1>3. /\ writes' = [writes EXCEPT ![t] = Append(writes[t], [key |-> k, row |-> row])]
        /\ Len(writes[t]) < workload.writes
        /\ UNCHANGED workload /\ UNCHANGED memory
    BY DEF Statement
  <1> DEFINE w == Append(writes[t], [key |-> k, row |-> row])
  <1>4. w \in Seq([key : Key, row : Row \cup {NoRow}]) /\ Len(w) = Len(writes[t]) + 1
    <2>1. [key |-> k, row |-> row] \in [key : Key, row : Row \cup {NoRow}]
      OBVIOUS
    <2>2. \A A : \A q \in Seq(A), a \in A : Append(q, a) \in Seq(A) /\ Len(Append(q, a)) = Len(q) + 1
      OBVIOUS
    <2>3. writes[t] \in Seq([key : Key, row : Row \cup {NoRow}])
      BY <1>2
    <2> QED BY <2>1, <2>2, <2>3, Zenon
  <1> HIDE DEF w
  <1>5. writes' = [writes EXCEPT ![t] = w]
    BY <1>3 DEF w
  <1>6. writes' \in WritesType /\ writes'[t] = w /\ \A u \in Tx \ {t} : writes'[u] = writes[u]
    BY <1>1, <1>4, <1>5 DEF WritesType
  <1>7. \A u \in Tx : Len(writes[u]) <= workload.writes
    BY DEF TypeInv, TypeOK
  <1>8. Len(w) <= workload.writes
    BY <1>1, <1>2, <1>3, <1>4
  <1>9. pc' = pc
    BY <1>1 DEF Statement, Step
  <1> QED BY <1>3, <1>6, <1>7, <1>8, <1>9 DEF w

LEMMA WriteBlockTypes ==
  ASSUME TypeInv, NEW t \in Tx, NEW k \in Key, NEW row \in Row, WriteBlock(t, k, row), Foresee
  PROVE  TypeInv'
  <1>1. /\ Good(store) /\ wal \in Seq(Record) /\ row \in Row \cup {NoRow}
        /\ active_transactions \subseteq Tx /\ pc \in [Tx -> Place] /\ ongoing \in [Tx -> SUBSET Tx]
    BY TypeInvFacts
  <1>2. /\ store' = Written(store, k, row) /\ Statement(t, k, row)
        /\ wal' = Append(wal, Operation(t, k, BeforeImage(store, k), row))
    BY DEF WriteBlock
  <1>3. Good(store') /\ store'.capacity = store.capacity /\ BeforeImage(store, k) \in Row \cup {NoRow}
    BY <1>1, <1>2, WrittenGood DEF Shows
  <1>4. Operation(t, k, BeforeImage(store, k), row) \in Record
    BY <1>1, <1>3, OperationType DEF DataRecord
  <1>5. wal' \in Seq(Record) /\ (HasCheckpoint(wal) => HasCheckpoint(wal'))
    BY <1>1, <1>2, <1>4, LogGrows
  <1>6. /\ UNCHANGED workload /\ UNCHANGED memory
        /\ writes' \in WritesType /\ \A u \in Tx : Len(writes'[u]) <= workload.writes
        /\ pc' = pc
    BY <1>1, <1>2, StatementTypes
  <1>7. \A u \in Tx : pc'[u] = "clear" => HasCheckpoint(wal')
    BY <1>5, <1>6 DEF TypeInv, CheckpointLogged
  <1>8. server' \in {"up", "down"} /\ active_transactions' \subseteq Tx /\ ongoing' \in [Tx -> SUBSET Tx]
    BY <1>1, <1>6 DEF memory, TypeInv, TypeOK
  <1> QED BY <1>1, <1>3, <1>5, <1>6, <1>7, <1>8, TypeInvStep

LEMMA DeleteTypes ==
  ASSUME TypeInv, NEW t \in Tx, Delete(t), Foresee
  PROVE  TypeInv'
  <1>1. /\ Good(store) /\ wal \in Seq(Record)
        /\ active_transactions \subseteq Tx /\ pc \in [Tx -> Place] /\ ongoing \in [Tx -> SUBSET Tx]
    BY TypeInvFacts
  <1>2. PICK k \in Key : /\ Statement(t, k, NoRow)
                         /\ store' = Deleted(store, k)
                         /\ wal' = Append(wal, Operation(t, k, Visible(store, k), NoRow))
    BY DEF Delete
  <1>3. Good(store') /\ store'.capacity = store.capacity
    BY <1>1, <1>2, DeletedGood DEF Shows
  <1>4. Visible(store, k) \in Row \cup {NoRow}
    BY <1>1, VisibleOfRow DEF Good
  <1>5. Operation(t, k, Visible(store, k), NoRow) \in Record
    BY <1>4, OperationType DEF DataRecord
  <1>6. wal' \in Seq(Record) /\ (HasCheckpoint(wal) => HasCheckpoint(wal'))
    BY <1>1, <1>2, <1>5, LogGrows
  <1>7. /\ UNCHANGED workload /\ UNCHANGED memory
        /\ writes' \in WritesType /\ \A u \in Tx : Len(writes'[u]) <= workload.writes
        /\ pc' = pc
    BY <1>2, StatementTypes
  <1>8. \A u \in Tx : pc'[u] = "clear" => HasCheckpoint(wal')
    BY <1>6, <1>7 DEF TypeInv, CheckpointLogged
  <1>9. server' \in {"up", "down"} /\ active_transactions' \subseteq Tx /\ ongoing' \in [Tx -> SUBSET Tx]
    BY <1>1, <1>7 DEF memory, TypeInv, TypeOK
  <1> QED BY <1>1, <1>3, <1>6, <1>7, <1>8, <1>9, TypeInvStep

\* Forgetting the writes of t.
LEMMA WritesForgotten ==
  ASSUME TypeInv, NEW t \in Tx
  PROVE  /\ [writes EXCEPT ![t] = <<>>] \in WritesType
         /\ [writes EXCEPT ![t] = <<>>][t] = <<>>
         /\ \A u \in Tx \ {t} : [writes EXCEPT ![t] = <<>>][u] = writes[u]
         /\ \A u \in Tx : Len([writes EXCEPT ![t] = <<>>][u]) <= workload.writes
         /\ [u \in Tx |-> <<>>] \in WritesType
         /\ \A u \in Tx : Len([x \in Tx |-> <<>>][u]) <= workload.writes
  <1>1. writes \in WritesType /\ workload.writes \in Nat
    BY TypeInvFacts DEF Workload
  <1>2. \A u \in Tx : Len(writes[u]) <= workload.writes
    BY DEF TypeInv, TypeOK
  <1>3. <<>> \in Seq([key : Key, row : Row \cup {NoRow}]) /\ Len(<<>>) = 0
    OBVIOUS
  <1> DEFINE w == [writes EXCEPT ![t] = <<>>]
             v == [u \in Tx |-> <<>>]
  <1>4. w \in WritesType /\ w[t] = <<>> /\ \A u \in Tx \ {t} : w[u] = writes[u]
    BY <1>1, <1>3 DEF WritesType
  <1>5. v \in WritesType /\ \A u \in Tx : v[u] = <<>>
    BY <1>3 DEF WritesType
  <1> HIDE DEF w, v
  <1>6. ASSUME NEW u \in Tx
        PROVE  Len(w[u]) <= workload.writes /\ Len(v[u]) <= workload.writes
    <2>1. 0 <= workload.writes
      BY <1>1
    <2>2. CASE u = t
      BY <1>3, <1>4, <1>5, <2>1, <2>2
    <2>3. CASE u # t
      BY <1>2, <1>3, <1>4, <1>5, <2>1, <2>3
    <2> QED BY <2>2, <2>3
  <1> QED BY <1>4, <1>5, <1>6 DEF w, v

\* The steps that at most flush and log how far a transaction got.
LEMMA QuietTypes ==
  ASSUME TypeInv, NEW t \in Tx, NEW from, NEW to \in Place \ {"clear"}, Step(t, from, to),
         UNCHANGED <<workload, server>>,
         store' = store \/ store' = Flushed(store),
         wal' = wal \/ \E a \in {"start", "commit", "abort"} : wal' = Append(wal, Lifecycle(a, t)),
         active_transactions' \subseteq Tx, ongoing' \in [Tx -> SUBSET Tx],
         writes' = writes \/ writes' = [writes EXCEPT ![t] = <<>>],
         Foresee
  PROVE  TypeInv'
  <1>1. /\ Good(store) /\ wal \in Seq(Record) /\ writes \in WritesType
        /\ \A u \in Tx : Len(writes[u]) <= workload.writes
        /\ server \in {"up", "down"}
    BY TypeInvFacts DEF TypeInv, TypeOK
  <1>2. Good(store') /\ store'.capacity = store.capacity
    BY <1>1, FlushedGood
  <1>3. wal' \in Seq(Record) /\ (HasCheckpoint(wal) => HasCheckpoint(wal'))
    <2>1. CASE wal' = wal
      BY <1>1, <2>1
    <2>2. CASE wal' # wal
      <3>1. PICK a \in {"start", "commit", "abort"} : wal' = Append(wal, Lifecycle(a, t))
        BY <2>2
      <3>2. Lifecycle(a, t) \in Record
        BY LifecycleType
      <3> QED BY <1>1, <3>1, <3>2, LogGrows
    <2> QED BY <2>1, <2>2
  <1>4. writes' \in WritesType /\ \A u \in Tx : Len(writes'[u]) <= workload.writes
    BY <1>1, WritesForgotten
  <1>5. pc' \in [Tx -> Place] /\ \A u \in Tx : pc'[u] = "clear" => HasCheckpoint(wal)
    BY StepPlaces
  <1>6. \A u \in Tx : pc'[u] = "clear" => HasCheckpoint(wal')
    BY <1>3, <1>5
  <1> QED BY <1>1, <1>2, <1>3, <1>4, <1>5, <1>6, TypeInvStep

LEMMA EndTypes ==
  ASSUME TypeInv, NEW t \in Tx, Foresee,
         \/ LogCommit(t) \/ LogAbort(t)
         \/ NotifyEnd(t, "notify_commit", "snapshot") \/ NotifyEnd(t, "notify_abort", "done")
         \/ Snapshot(t)
         \/ FlushDirty(t, "flush", "checkpoint") \/ FlushDirty(t, "flush_undone", "notify_abort")
         \/ Begin(t) \/ Wound(t) \/ Commit(t) \/ Rollback(t)
  PROVE  TypeInv'
  <1>1. /\ active_transactions \subseteq Tx /\ ongoing \in [Tx -> SUBSET Tx]
    BY TypeInvFacts
  <1> USE DEF Place, Commits, Aborts
  <1>2. CASE LogCommit(t)
    BY <1>1, <1>2, QuietTypes DEF LogCommit, memory
  <1>3. CASE LogAbort(t)
    BY <1>1, <1>3, QuietTypes DEF LogAbort, memory
  <1>4. CASE NotifyEnd(t, "notify_commit", "snapshot")
    BY <1>1, <1>4, QuietTypes DEF NotifyEnd
  <1>5. CASE NotifyEnd(t, "notify_abort", "done")
    BY <1>1, <1>5, QuietTypes DEF NotifyEnd
  <1>6. CASE Snapshot(t)
    <2>1. ongoing' \in [Tx -> SUBSET Tx]
      BY <1>1, <1>6 DEF Snapshot
    <2> QED BY <1>1, <1>6, <2>1, QuietTypes DEF Snapshot
  <1>7. CASE FlushDirty(t, "flush", "checkpoint")
    BY <1>1, <1>7, QuietTypes DEF FlushDirty, memory
  <1>8. CASE FlushDirty(t, "flush_undone", "notify_abort")
    BY <1>1, <1>8, QuietTypes DEF FlushDirty, memory
  <1>9. CASE Begin(t)
    BY <1>1, <1>9, QuietTypes DEF Begin
  <1>10. CASE Wound(t)
    BY <1>1, <1>10, QuietTypes DEF Wound, memory
  <1>11. CASE Commit(t)
    BY <1>1, <1>11, QuietTypes DEF Commit, memory
  <1>12. CASE Rollback(t)
    BY <1>1, <1>12, QuietTypes DEF Rollback, memory
  <1> QED
    BY <1>2, <1>3, <1>4, <1>5, <1>6, <1>7, <1>8, <1>9, <1>10, <1>11, <1>12

LEMMA LogCheckpointTypes ==
  ASSUME TypeInv, NEW t \in Tx, LogCheckpoint(t), Foresee
  PROVE  TypeInv'
  <1>1. /\ Good(store) /\ wal \in Seq(Record) /\ writes \in WritesType
        /\ \A u \in Tx : Len(writes[u]) <= workload.writes
        /\ active_transactions \subseteq Tx /\ ongoing \in [Tx -> SUBSET Tx]
        /\ server \in {"up", "down"}
    BY TypeInvFacts DEF TypeInv, TypeOK
  <1>2. /\ Step(t, {"checkpoint"}, "clear") /\ wal' = Append(wal, Checkpoint(ongoing[t]))
        /\ UNCHANGED <<workload, store, writes>> /\ UNCHANGED memory
    BY DEF LogCheckpoint
  <1>3. Checkpoint(ongoing[t]) \in Record /\ Checkpoint(ongoing[t]).action = "checkpoint"
    BY <1>1, LifecycleType
  <1>4. wal' \in Seq(Record) /\ HasCheckpoint(wal')
    BY <1>1, <1>2, <1>3, LogGrows
  <1>5. pc' \in [Tx -> Place]
    BY <1>2, StepPlaces DEF Place, Commits
  <1> QED BY <1>1, <1>2, <1>4, <1>5, TypeInvStep DEF memory

LEMMA ClearWalTypes ==
  ASSUME TypeInv, NEW t \in Tx, ClearWal(t), Foresee
  PROVE  TypeInv'
  <1>1. /\ Good(store) /\ wal \in Seq(Record) /\ writes \in WritesType
        /\ \A u \in Tx : Len(writes[u]) <= workload.writes
        /\ active_transactions \subseteq Tx /\ ongoing \in [Tx -> SUBSET Tx]
        /\ server \in {"up", "down"}
    BY TypeInvFacts DEF TypeInv, TypeOK
  <1>2. /\ Step(t, {"clear"}, "done") /\ wal' = Cleared(wal, ongoing[t])
        /\ ongoing' = [ongoing EXCEPT ![t] = {}]
        /\ UNCHANGED <<workload, store, active_transactions, server, writes>>
    BY DEF ClearWal
  <1>3. pc' \in [Tx -> Place] /\ pc[t] = "clear"
    BY <1>2, StepPlaces DEF Place
  <1>4. HasCheckpoint(wal)
    BY <1>3 DEF TypeInv, CheckpointLogged
  <1>5. wal' \in Seq(Record) /\ HasCheckpoint(wal')
    BY <1>1, <1>2, <1>4, ClearedType DEF HasCheckpoint
  <1>6. ongoing' \in [Tx -> SUBSET Tx]
    BY <1>1, <1>2
  <1> QED BY <1>1, <1>2, <1>3, <1>5, <1>6, TypeInvStep

LEMMA UndoTypes ==
  ASSUME TypeInv, NEW t \in Tx, Undo(t), Foresee
  PROVE  TypeInv'
  <1>1. /\ Good(store) /\ wal \in Seq(Record)
        /\ active_transactions \subseteq Tx /\ ongoing \in [Tx -> SUBSET Tx]
        /\ server \in {"up", "down"}
    BY TypeInvFacts DEF TypeInv, TypeOK
  <1> DEFINE undone == OperationsOf(wal, t)
  <1>2. /\ Step(t, {"undo"}, "flush_undone") /\ store' = UndoneAll(store, undone)
        /\ wal' = wal \o Answers(undone) /\ writes' = [writes EXCEPT ![t] = <<>>]
        /\ UNCHANGED workload /\ UNCHANGED memory
    BY DEF Undo
  <1>3. undone \in Seq(DataRecord)
    <2>1. undone \in Seq({r \in DataRecord : r.tx = t})
      BY <1>1, SelectionsType
    <2>2. \A A, B : A \subseteq B => Seq(A) \subseteq Seq(B)
      OBVIOUS
    <2>3. {r \in DataRecord : r.tx = t} \subseteq DataRecord
      OBVIOUS
    <2> QED BY <2>1, <2>2, <2>3
  <1> HIDE DEF undone
  <1>4. Good(store') /\ store'.capacity = store.capacity
    BY <1>1, <1>2, <1>3, FoldsGood
  <1>5. Answers(undone) \in Seq(Record)
    <2>1. \A A, B : A \subseteq B => Seq(A) \subseteq Seq(B)
      OBVIOUS
    <2>2. undone \in Seq(DataRecord \cup {r \in Record : r.action = "start"})
      BY <1>3, <2>1
    <2> QED BY <2>2, AnswersType
  <1>6. wal' \in Seq(Record) /\ (HasCheckpoint(wal) => HasCheckpoint(wal'))
    BY <1>1, <1>2, <1>5, LogGrows
  <1>7. pc' \in [Tx -> Place] /\ \A u \in Tx : pc'[u] = "clear" => HasCheckpoint(wal)
    BY <1>2, StepPlaces DEF Place, Aborts
  <1>8. writes' \in WritesType /\ \A u \in Tx : Len(writes'[u]) <= workload.writes
    BY <1>2, WritesForgotten
  <1>9. \A u \in Tx : pc'[u] = "clear" => HasCheckpoint(wal')
    BY <1>6, <1>7
  <1> QED BY <1>1, <1>2, <1>4, <1>6, <1>7, <1>8, <1>9, TypeInvStep DEF memory

LEMMA CrashTypes ==
  ASSUME TypeInv, Crash, Foresee
  PROVE  TypeInv'
  <1>1. /\ Good(store) /\ wal \in Seq(Record) /\ pc \in [Tx -> Place]
    BY TypeInvFacts
  <1>2. /\ store' = [store EXCEPT !.buffer = <<>>] /\ server' = "down" /\ active_transactions' = {}
        /\ pc' = [t \in Tx |-> IF pc[t] = "begin" THEN "begin" ELSE "done"]
        /\ ongoing' = [t \in Tx |-> {}] /\ writes' = [t \in Tx |-> <<>>]
        /\ UNCHANGED <<workload, wal>>
    BY DEF Crash
  <1>3. Good(store') /\ store'.capacity = store.capacity
    BY <1>1, <1>2, BufferLost
  <1>4. pc' \in [Tx -> Place] /\ \A t \in Tx : pc'[t] # "clear"
    BY <1>2 DEF Place
  <1>5. writes' \in WritesType /\ \A u \in Tx : Len(writes'[u]) <= workload.writes
    <2>1. workload.writes \in Nat
      BY TypeInvFacts DEF Workload
    <2>2. \A u \in Tx : writes'[u] = <<>>
      BY <1>2
    <2>3. <<>> \in Seq([key : Key, row : Row \cup {NoRow}]) /\ Len(<<>>) = 0
      OBVIOUS
    <2>4. 0 <= workload.writes
      BY <2>1
    <2> QED BY <1>2, <2>2, <2>3, <2>4 DEF WritesType
  <1> QED BY <1>1, <1>2, <1>3, <1>4, <1>5, TypeInvStep

LEMMA RecoverTypes ==
  ASSUME TypeInv, Recover \/ RecoverInterrupted, Foresee
  PROVE  TypeInv'
  <1>1. /\ Good(store) /\ wal \in Seq(Record) /\ writes \in WritesType /\ pc \in [Tx -> Place]
        /\ \A u \in Tx : Len(writes[u]) <= workload.writes
        /\ active_transactions \subseteq Tx /\ ongoing \in [Tx -> SUBSET Tx]
        /\ server \in {"up", "down"}
    BY TypeInvFacts DEF TypeInv, TypeOK
  <1> DEFINE r == RedoneUndone(store, wal)
  <1>2. /\ store' = Flushed(r) \/ store' = [r EXCEPT !.buffer = <<>>]
        /\ wal' = wal \o Answers(UndoList(wal)) /\ server' \in {"up", "down"}
        /\ UNCHANGED <<workload, active_transactions, pc, ongoing, writes>>
    BY <1>1 DEF Recover, RecoverInterrupted
  <1>3. Good(r) /\ r.capacity = store.capacity
    BY <1>1, RecoveredGood
  <1> HIDE DEF r
  <1>4. Good(store') /\ store'.capacity = store.capacity
    BY <1>2, <1>3, FlushedGood, BufferLost
  <1>5. Answers(UndoList(wal)) \in Seq(Record)
    BY <1>1, SelectionsType, AnswersType
  <1>6. wal' \in Seq(Record) /\ (HasCheckpoint(wal) => HasCheckpoint(wal'))
    BY <1>1, <1>2, <1>5, LogGrows
  <1>7. \A u \in Tx : pc'[u] = "clear" => HasCheckpoint(wal')
    BY <1>2, <1>6 DEF TypeInv, CheckpointLogged
  <1> QED BY <1>1, <1>2, <1>4, <1>6, <1>7, TypeInvStep

LEMMA TypeInvInit == Init => TypeInv
  <1> SUFFICES ASSUME Init PROVE TypeInv
    OBVIOUS
  <1>1. PICK d \in [Key -> Row \cup {NoRow}] :
          store = [capacity |-> workload.capacity, disk |-> d, buffer |-> <<>>]
    BY DEF Init
  <1>2. workload \in Workload
    BY WorkloadAssumption DEF Init
  <1>3. store \in Store /\ ToSet(store.buffer) = {} /\ store.capacity = workload.capacity
        /\ store.disk \in [Key -> Row \cup {NoRow}]
    BY <1>1, <1>2 DEF Store, ToSet, Workload
  <1>4. StoreOK(store)
    BY <1>1, <1>2 DEF StoreOK, Workload
  <1>5. writes \in WritesType /\ \A t \in Tx : Len(writes[t]) <= workload.writes
    <2>1. \A u \in Tx : writes[u] = <<>>
      BY DEF Init
    <2>2. <<>> \in Seq([key : Key, row : Row \cup {NoRow}]) /\ Len(<<>>) = 0
      OBVIOUS
    <2>3. 0 <= workload.writes
      BY <1>2 DEF Workload
    <2> QED BY <2>1, <2>2, <2>3 DEF WritesType, Init
  <1>6. pc \in [Tx -> Place] /\ \A t \in Tx : pc[t] # "clear"
    BY DEF Init, Place
  <1>7. wal \in Seq(Record) /\ active_transactions \subseteq Tx /\ server \in {"up", "down"}
        /\ ongoing \in [Tx -> SUBSET Tx] /\ durable \in [Key -> Row \cup {NoRow}]
        /\ workload \in Workloads
    BY <1>3 DEF Init
  <1> QED BY <1>3, <1>4, <1>5, <1>6, <1>7
          DEF TypeInv, TypeOK, CleanRowsOnDisk, CleanOnDisk, CheckpointLogged, WritesType

LEMMA TypeInvNext == TypeInv /\ [Next]_vars => TypeInv'
  <1> SUFFICES ASSUME TypeInv, [Next]_vars PROVE TypeInv'
    OBVIOUS
  <1>1. ASSUME NEW t \in Tx, ServerStep(t)
        PROVE  TypeInv'
    BY <1>1, EndTypes, LogCheckpointTypes, ClearWalTypes, UndoTypes DEF ServerStep
  <1>2. ASSUME NEW t \in Tx, ClientStep(t)
        PROVE  TypeInv'
    <2>1. CASE Insert(t) /\ Foresee
      BY <2>1, WriteBlockTypes DEF Insert
    <2>2. CASE Update(t) /\ Foresee
      BY <2>2, WriteBlockTypes DEF Update
    <2> QED BY <1>2, <2>1, <2>2, DeleteTypes, EndTypes DEF ClientStep
  <1>3. CASE Crash /\ Foresee
    BY <1>3, CrashTypes
  <1>4. CASE Restart \/ (RecoverInterrupted /\ Foresee)
    BY <1>4, RecoverTypes DEF Restart
  <1>5. CASE UNCHANGED vars
    BY <1>5 DEF vars, TypeInv, TypeOK, CleanRowsOnDisk, CheckpointLogged
  <1> QED BY <1>1, <1>2, <1>3, <1>4, <1>5 DEF Next

\* TypeInv: the types and the bounds of the pool (TypeOK), and what holds of the
\* buffer and the log between any two steps, for every workload.
THEOREM TypesAndCleanRows == Spec => []TypeInv
  BY TypeInvInit, TypeInvNext, PTL DEF Spec

\* TypeOK: rows, records and the places of transactions are what they should be;
\* no key is buffered twice and the buffer pool never holds more than its capacity.
THEOREM TypeCorrect == Spec => []TypeOK
  BY TypesAndCleanRows, PTL DEF TypeInv

\* CleanRowsOnDisk: a buffered row that is not dirty is what the table's file has,
\* whatever is written, undone, evicted, flushed or recovered: evicting it loses
\* nothing.
THEOREM CleanRowsAreOnDisk == Spec => []CleanRowsOnDisk
  BY TypesAndCleanRows, PTL DEF TypeInv

--------------------------------------------------------------------------------
(* What a rollback finds in the log, in workloads where the calls of a       *)
(* commit or a rollback exclude the others.                                  *)

\* A transaction with writes that are neither committed nor undone; one that
\* FailureRecoveryManager takes to be active.
Holding == {"active", "wounded", "log_commit", "log_abort", "undo"}
Open == Holding \cup {"notify_commit", "flush_undone", "notify_abort"}

OneCall == \A t, u \in Tx : MidCall(t) /\ MidCall(u) => t = u

NoneWhenDown == server = "down" => \A t \in Tx : pc[t] \in {"begin", "done"}

\* Transactions begin in the order of their ids.
BeginsInOrder ==
  /\ \A t \in Tx : pc[t] # "begin" => t \in workload.tx
  /\ \A t, u \in workload.tx : pc[t] = "begin" /\ t < u => pc[u] = "begin"

Unheard(log, t) == \A i \in DOMAIN log : log[i].tx # t
NotBegun == \A t \in Tx : pc[t] = "begin" => writes[t] = <<>> /\ Unheard(wal, t)

ActiveListed == active_transactions = {t \in Tx : pc[t] \in Open}

\* The list a checkpoint is given names those still running.
OngoingListed ==
  \A t \in Tx : pc[t] \in {"flush", "checkpoint", "clear"} =>
    ongoing[t] = {u \in Tx : pc[u] \in {"active", "wounded"}}

START(t) == Lifecycle("start", t)
Started(log, t) == \E i \in DOMAIN log : log[i] = START(t)
BeginsLogged == \A t \in Tx : pc[t] \in Holding => Started(wal, t)

\* Nothing of u comes before the START record of t.
After1(log, t, u) == \A i \in DOMAIN log : log[i].tx = u => \E j \in 1 .. i : log[j] = START(t)
StartsFirst ==
  \A t, u \in Tx : pc[t] \in Holding /\ pc[u] \in Holding /\ t <= u => After1(wal, t, u)

DataOf(t) == {r \in DataRecord : r.tx = t}
Images(records) == [i \in DOMAIN records |-> [key |-> records[i].key, row |-> records[i].after]]
Logged(log, t) == Images(Only(log, DataOf(t)))
WritesLogged == \A t \in Tx : pc[t] \in Holding => writes[t] = Logged(wal, t)

CallInv ==
  /\ workload.serial
  /\ OneCall /\ NoneWhenDown /\ BeginsInOrder /\ NotBegun /\ ActiveListed /\ OngoingListed
  /\ BeginsLogged /\ StartsFirst /\ WritesLogged

\* What is chosen of a log as the records of t is what a rollback reads, reversed.
LEMMA OperationsReversed ==
  ASSUME NEW log \in Seq(Record), NEW t \in Tx
  PROVE  /\ OperationsOf(log, t) = Reverse(Only(log, DataOf(t)))
         /\ Reverse(OperationsOf(log, t)) = Only(log, DataOf(t))
  <1> DEFINE S == {r \in Operations(log) : r.tx = t}
             o == Only(log, DataOf(t))
  <1>1. log \in Seq(ToSet(log)) /\ ToSet(log) \subseteq Record
    BY DEF ToSet
  <1>2. \A r \in ToSet(log) : r \in S <=> r \in DataOf(t)
    BY <1>1 DEF Operations, DataOf, DataRecord
  <1>3. Only(log, S) = o
    <2> HIDE DEF S
    <2> QED BY <1>1, <1>2, OnlyCongruent
  <1>4. Only(Reverse(log), S) = Reverse(Only(log, S))
    BY OnlyReverse, Zenon
  <1>5. OperationsOf(log, t) = Reverse(o)
    BY <1>3, <1>4 DEF OperationsOf
  <1>6. o \in Seq(Record)
    BY OnlyType, Zenon
  <1> HIDE DEF o
  <1>7. Reverse(Reverse(o)) = o
    <2> DEFINE p == Reverse(o)
               q == Reverse(p)
    <2>1. p \in Seq(Record) /\ Len(p) = Len(o) /\ \A i \in 1 .. Len(o) : p[i] = o[Len(o) - i + 1]
      BY <1>6, ReverseType
    <2>2. q \in Seq(Record) /\ Len(q) = Len(p) /\ \A i \in 1 .. Len(p) : q[i] = p[Len(p) - i + 1]
      BY <2>1, ReverseType
    <2> HIDE DEF p, q
    <2>3. Len(o) \in Nat
      BY <1>6
    <2>4. \A i \in 1 .. Len(o) : /\ Len(o) - i + 1 \in 1 .. Len(o)
                                 /\ Len(o) - (Len(o) - i + 1) + 1 = i
      BY <2>3
    <2>5. \A i \in 1 .. Len(o) : q[i] = o[i]
      BY <2>1, <2>2, <2>4
    <2>6. q = o
      BY <1>6, <2>1, <2>2, <2>5
    <2> QED BY <2>6 DEF p, q
  <1> QED BY <1>5, <1>7 DEF o

\* The image of one record more.
LEMMA ImagesAppend ==
  ASSUME NEW o \in Seq(Record), NEW r \in Record
  PROVE  Images(Append(o, r)) = Append(Images(o), [key |-> r.key, row |-> r.after])
  <1> DEFINE n == Len(o)
             v == Append(o, r)
             w == Append(Images(o), [key |-> r.key, row |-> r.after])
  <1>1. n \in Nat /\ DOMAIN o = 1 .. n /\ DOMAIN v = 1 .. n + 1 /\ v[n + 1] = r
        /\ \A i \in 1 .. n : v[i] = o[i]
    OBVIOUS
  <1>2. DOMAIN Images(o) = 1 .. n /\ Len(Images(o)) = n
        /\ \A i \in 1 .. n : Images(o)[i] = [key |-> o[i].key, row |-> o[i].after]
    BY <1>1 DEF Images
  <1>3. w = [i \in 1 .. n + 1 |-> IF i = n + 1 THEN [key |-> r.key, row |-> r.after] ELSE Images(o)[i]]
    BY <1>1, <1>2
  <1>4. Images(v) = [i \in 1 .. n + 1 |-> [key |-> v[i].key, row |-> v[i].after]]
    BY <1>1 DEF Images
  <1> HIDE DEF n, v, w
  <1>5. \A i \in 1 .. n + 1 : [key |-> v[i].key, row |-> v[i].after]
                                = IF i = n + 1 THEN [key |-> r.key, row |-> r.after] ELSE Images(o)[i]
    BY <1>1, <1>2
  <1>6. Images(v) = w
    BY <1>3, <1>4, <1>5
  <1> QED BY <1>6 DEF v, w

\* The log grows by one record, of t or not.
LEMMA LoggedAppend ==
  ASSUME NEW log \in Seq(Record), NEW r \in Record, NEW u \in Tx
  PROVE  /\ r \notin DataOf(u) => Logged(Append(log, r), u) = Logged(log, u)
         /\ r \in DataOf(u) =>
              Logged(Append(log, r), u) = Append(Logged(log, u), [key |-> r.key, row |-> r.after])
  <1> DEFINE o == Only(log, DataOf(u))
  <1>1. Only(Append(log, r), DataOf(u)) = IF r \in DataOf(u) THEN Append(o, r) ELSE o
    BY OnlyAppend, Zenon
  <1>2. o \in Seq(Record)
    BY OnlyType, Zenon
  <1> HIDE DEF o
  <1>3. Images(Append(o, r)) = Append(Images(o), [key |-> r.key, row |-> r.after])
    BY <1>2, ImagesAppend
  <1>4. CASE r \in DataOf(u)
    BY <1>1, <1>3, <1>4 DEF Logged, o
  <1>5. CASE r \notin DataOf(u)
    BY <1>1, <1>5 DEF Logged, o
  <1> QED BY <1>4, <1>5

\* It grows by the answers to an undo.
LEMMA LoggedAnswers ==
  ASSUME NEW log \in Seq(Record), NEW u \in Tx,
         NEW records \in Seq(DataRecord \cup {r \in Record : r.action = "start"})
  PROVE  Logged(log \o Answers(records), u) = Logged(log, u)
  <1> DEFINE E == {r \in Record : r.action \in {"abort", "compensation"}}
             a == Answers(records)
  <1>1. a \in Seq(Record) /\ Len(a) = Len(records)
        /\ \A i \in DOMAIN records : a[i].action \in {"abort", "compensation"}
    BY AnswersType
  <1> HIDE DEF a
  <1>2. a \in Seq(E)
    BY <1>1
  <1>3. \A e \in E : e \notin DataOf(u)
    BY DEF DataOf, DataRecord, Data
  <1>4. Only(a, DataOf(u)) = <<>>
    BY <1>2, <1>3, OnlyNone, Zenon
  <1>5. Only(log \o a, DataOf(u)) = Only(log, DataOf(u)) \o Only(a, DataOf(u))
    <2>1. \A x, y \in Seq(Record) : Only(x \o y, DataOf(u)) = Only(x, DataOf(u)) \o Only(y, DataOf(u))
      BY OnlyConcat
    <2> QED BY <1>1, <2>1, Zenon
  <1>6. Only(log, DataOf(u)) \in Seq(Record)
    BY OnlyType, Zenon
  <1>7. \A q \in Seq(Record) : q \o <<>> = q
    OBVIOUS
  <1>8. Only(log \o a, DataOf(u)) = Only(log, DataOf(u))
    BY <1>4, <1>5, <1>6, <1>7, Zenon
  <1> QED BY <1>8, Zenon DEF Logged, a

FirstOf(log, r) ==
  IF {i \in 1 .. Len(log) : log[i] = r} # {} THEN Min({i \in 1 .. Len(log) : log[i] = r}) ELSE 0

LEMMA FirstPlace ==
  ASSUME NEW log \in Seq(Record), NEW r, \E i \in DOMAIN log : log[i] = r
  PROVE  /\ FirstOf(log, r) \in DOMAIN log /\ log[FirstOf(log, r)] = r
         /\ \A i \in DOMAIN log : log[i] = r => FirstOf(log, r) <= i
  <1> DEFINE I == {i \in 1 .. Len(log) : log[i] = r}
  <1>1. DOMAIN log = 1 .. Len(log) /\ Len(log) \in Nat
    OBVIOUS
  <1>2. I # {} /\ I \subseteq Nat
    BY <1>1
  <1>3. \E m \in I : \A n \in I : m <= n
    <2> HIDE DEF I
    <2> QED BY <1>2, LeastElement
  <1>4. Min(I) \in I /\ \A n \in I : Min(I) <= n
    <2> HIDE DEF I
    <2> QED BY <1>3 DEF Min
  <1>5. FirstOf(log, r) = Min(I)
    BY <1>2 DEF FirstOf
  <1> QED BY <1>1, <1>4, <1>5

LEMMA SmallestOf ==
  ASSUME NEW S \in SUBSET Tx, S # {}
  PROVE  Smallest(S) \in S /\ \A u \in S : Smallest(S) <= u
  <1>1. S \subseteq Nat
    BY TxAssumption
  <1>2. \E m \in S : \A u \in S : m <= u
    BY <1>1, LeastElement
  <1> QED BY <1>2 DEF Smallest

\* The log has what is needed of the transactions in S.
Complete(log, S) ==
  /\ \A m \in S : Started(log, m)
  /\ \A m, u \in S : m <= u => After1(log, m, u)

\* A cut adds nothing, and keeps in order every record of a running transaction.
LEMMA CutKeeps ==
  ASSUME NEW log \in Seq(Record), NEW S \in SUBSET Tx, HasCheckpoint(log), Complete(log, S)
  PROVE  /\ \A i \in DOMAIN Cleared(log, S) : \E j \in DOMAIN log : Cleared(log, S)[i] = log[j]
         /\ \A u \in S : Only(Cleared(log, S), DataOf(u)) = Only(log, DataOf(u))
         /\ Complete(Cleared(log, S), S)
  <1> DEFINE l == LastCheckpoint(log)
             n == Len(log)
  <1>1. l \in 1 .. n /\ n \in Nat /\ log[l].action = "checkpoint" /\ DOMAIN log = 1 .. n
    BY LastCheckpointPlace DEF HasCheckpoint
  <1> HIDE DEF l
  <1>2. CASE S = {}
    <2> DEFINE e == SubSeq(log, l, n)
    <2>1. e \in Seq(Record) /\ Len(e) = n - l + 1 /\ \A i \in 1 .. n - l + 1 : e[i] = log[l + i - 1]
      <3>1. \A i \in DOMAIN log : log[i] \in {} => i >= l
        OBVIOUS
      <3> QED BY <1>1, <3>1, EndOfLog
    <2> HIDE DEF e
    <2>2. \A i \in DOMAIN e : \E j \in DOMAIN log : e[i] = log[j]
      <3> TAKE i \in DOMAIN e
      <3>1. i \in 1 .. n - l + 1
        BY <2>1
      <3>2. l + i - 1 \in DOMAIN log
        BY <1>1, <3>1
      <3> QED BY <2>1, <3>1, <3>2
    <2>3. Cleared(log, S) = e
      BY <1>2 DEF Cleared, l, e
    <2> QED BY <1>2, <2>2, <2>3 DEF Complete
  <1>3. CASE S # {}
    <2> DEFINE m0 == Smallest(S)
               start == SelectInSeq(log, LAMBDA r : r = Lifecycle("start", Smallest(S)))
               I == {i \in DOMAIN log : i = l \/ (start \in 1 .. i /\ log[i].tx \in S)}
               k == Kept(log, I)
    <2>1. Cleared(log, S) = k
      BY <1>3 DEF Cleared, ClearedBeforeOldest, l
    <2>2. m0 \in S /\ \A u \in S : m0 <= u
      BY <1>3, SmallestOf
    <2>3. /\ start \in DOMAIN log
          /\ \A i \in DOMAIN log : log[i] = START(m0) => start <= i
      <3>1. \E i \in DOMAIN log : log[i] = START(m0)
        BY <2>2 DEF Complete, Started
      <3>2. start = FirstOf(log, START(m0))
        BY DEF SelectInSeq, START, FirstOf
      <3> HIDE DEF start, m0
      <3> QED BY <3>1, <3>2, FirstPlace
    <2>4. ASSUME NEW i \in DOMAIN log, log[i].tx \in S
          PROVE  i \in I
      <3>1. PICK j \in 1 .. i : log[j] = START(m0)
        BY <2>2, <2>4 DEF Complete, After1
      <3>2. i \in 1 .. n /\ j \in 1 .. n
        BY <1>1, <3>1
      <3> HIDE DEF start, m0
      <3>4. start <= j /\ start \in 1 .. n
        BY <1>1, <2>3, <3>1, <3>2
      <3>3. start \in 1 .. i
        BY <1>1, <3>1, <3>2, <3>4
      <3> QED BY <2>4, <3>3 DEF I
    <2> HIDE DEF I, start, m0
    <2>5. k \in Seq(Record)
      BY KeptPlaces
    <2>0. PICK h : PlacesKept(h, k, log, I)
      BY KeptPlaces
    <2>6. /\ h \in [1 .. Len(k) -> 1 .. Len(log)]
          /\ \A i, j \in 1 .. Len(k) : i < j => h[i] < h[j]
          /\ \A i \in 1 .. Len(k) : k[i] = log[h[i]] /\ h[i] \in I
          /\ \A j \in (1 .. Len(log)) \cap I : \E i \in 1 .. Len(k) : h[i] = j
      BY <2>0 DEF PlacesKept
    <2>7. ASSUME NEW u \in S
          PROVE  Only(k, DataOf(u)) = Only(log, DataOf(u))
      <3>1. \A i \in DOMAIN log : log[i] \in DataOf(u) => i \in I
        BY <2>4 DEF DataOf
      <3> QED BY <3>1, KeptOnly
    <2> HIDE DEF k
    <2>8. DOMAIN k = 1 .. Len(k) /\ Len(k) \in Nat
      BY <2>5
    <2>9. \A i \in DOMAIN k : \E j \in DOMAIN log : k[i] = log[j]
      BY <1>1, <2>6, <2>8
    <2>10. ASSUME NEW m \in S
           PROVE  Started(k, m)
      <3>1. PICK j \in DOMAIN log : log[j] = START(m)
        BY DEF Complete, Started
      <3>2. log[j].tx = m
        BY <3>1, LifecycleType DEF START
      <3>3. j \in (1 .. Len(log)) \cap I
        BY <1>1, <2>4, <3>2
      <3>4. PICK i \in 1 .. Len(k) : h[i] = j
        BY <2>6, <3>3
      <3> QED BY <2>6, <2>8, <3>1, <3>4 DEF Started
    <2>11. ASSUME NEW m \in S, NEW u \in S, m <= u, NEW i \in DOMAIN k, k[i].tx = u
           PROVE  \E j \in 1 .. i : k[j] = START(m)
      <3>1. h[i] \in DOMAIN log /\ log[h[i]].tx = u
        BY <1>1, <2>6, <2>8, <2>11
      <3>2. PICK j \in 1 .. h[i] : log[j] = START(m)
        BY <2>11, <3>1 DEF Complete, After1
      <3>3. j \in 1 .. n /\ j <= h[i]
        BY <1>1, <3>1, <3>2
      <3>4. log[j].tx = m
        BY <3>2, LifecycleType DEF START
      <3>5. j \in (1 .. Len(log)) \cap I
        BY <1>1, <2>4, <3>3, <3>4
      <3>6. PICK p \in 1 .. Len(k) : h[p] = j
        BY <2>6, <3>5
      <3>7. p <= i
        <4>1. CASE i < p
          <5>1. h[i] < h[p]
            BY <2>6, <2>8, <4>1
          <5>2. h[i] \in Nat /\ h[p] \in Nat
            BY <1>1, <2>6, <2>8
          <5> QED BY <3>3, <3>6, <5>1, <5>2
        <4> QED BY <2>8, <4>1
      <3>8. p \in 1 .. i /\ k[p] = START(m)
        BY <2>6, <2>8, <3>2, <3>6, <3>7
      <3> QED BY <3>8
    <2>12. Complete(k, S)
      BY <2>10, <2>11 DEF Complete, After1
    <2> QED BY <2>1, <2>7, <2>9, <2>12
  <1> QED BY <1>2, <1>3

\* One more record: what was before it still is.
LEMMA AppendKeeps ==
  ASSUME NEW log \in Seq(Record), NEW r \in Record
  PROVE  /\ \A m : Started(log, m) => Started(Append(log, r), m)
         /\ \A m : r = START(m) => Started(Append(log, r), m)
         /\ \A u : Unheard(log, u) /\ r.tx # u => Unheard(Append(log, r), u)
         /\ \A m, u : After1(log, m, u) /\ (r.tx = u => Started(Append(log, r), m))
                        => After1(Append(log, r), m, u)
  <1> DEFINE v == Append(log, r)
             n == Len(log)
  <1>1. /\ n \in Nat /\ DOMAIN log = 1 .. n /\ DOMAIN v = 1 .. n + 1
        /\ v[n + 1] = r /\ \A i \in 1 .. n : v[i] = log[i]
    OBVIOUS
  <1> HIDE DEF v, n
  <1>2. \A m : Started(log, m) => Started(v, m)
    BY <1>1 DEF Started
  <1>3. \A m : r = START(m) => Started(v, m)
    BY <1>1 DEF Started
  <1>4. \A u : Unheard(log, u) /\ r.tx # u => Unheard(v, u)
    BY <1>1 DEF Unheard
  <1>5. ASSUME NEW m, NEW u, After1(log, m, u), r.tx = u => Started(v, m),
               NEW i \in DOMAIN v, v[i].tx = u
        PROVE  \E j \in 1 .. i : v[j] = START(m)
    <2>1. CASE i \in 1 .. n
      <3>1. PICK j \in 1 .. i : log[j] = START(m)
        BY <1>1, <1>5, <2>1 DEF After1
      <3> QED BY <1>1, <2>1, <3>1
    <2>2. CASE i = n + 1
      <3>1. Started(v, m)
        BY <1>1, <1>5, <2>2
      <3> QED BY <1>1, <2>2, <3>1 DEF Started
    <2> QED BY <1>1, <2>1, <2>2
  <1>6. \A m, u : After1(log, m, u) /\ (r.tx = u => Started(v, m)) => After1(v, m, u)
    BY <1>5 DEF After1
  <1> QED BY <1>2, <1>3, <1>4, <1>6 DEF v

\* The same of several.
LEMMA ConcatKeeps ==
  ASSUME NEW log \in Seq(Record), NEW more \in Seq(Record)
  PROVE  /\ \A m : Started(log, m) => Started(log \o more, m)
         /\ \A u : Unheard(log, u) /\ Unheard(more, u) => Unheard(log \o more, u)
         /\ \A m, u : After1(log, m, u) /\ Unheard(more, u) => After1(log \o more, m, u)
  <1> DEFINE v == log \o more
             n == Len(log)
             p == Len(more)
  <1>1. /\ n \in Nat /\ p \in Nat /\ DOMAIN log = 1 .. n /\ DOMAIN more = 1 .. p
        /\ DOMAIN v = 1 .. n + p
        /\ \A i \in 1 .. n : v[i] = log[i]
        /\ \A i \in 1 .. n + p : i > n => i - n \in 1 .. p /\ v[i] = more[i - n]
    OBVIOUS
  <1> HIDE DEF v, n, p
  <1>2. \A m : Started(log, m) => Started(v, m)
    BY <1>1 DEF Started
  <1>3. ASSUME NEW i \in DOMAIN v
        PROVE  i \in 1 .. n \/ \E j \in DOMAIN more : v[i] = more[j]
    <2>1. CASE i > n
      BY <1>1, <2>1
    <2> QED BY <1>1, <2>1
  <1>4. \A u : Unheard(log, u) /\ Unheard(more, u) => Unheard(v, u)
    BY <1>1, <1>3 DEF Unheard
  <1>5. ASSUME NEW m, NEW u, After1(log, m, u), Unheard(more, u),
               NEW i \in DOMAIN v, v[i].tx = u
        PROVE  \E j \in 1 .. i : v[j] = START(m)
    <2>1. i \in 1 .. n
      BY <1>3, <1>5 DEF Unheard
    <2>2. PICK j \in 1 .. i : log[j] = START(m)
      BY <1>1, <1>5, <2>1 DEF After1
    <2> QED BY <1>1, <2>1, <2>2
  <1>6. \A m, u : After1(log, m, u) /\ Unheard(more, u) => After1(v, m, u)
    BY <1>5 DEF After1
  <1> QED BY <1>2, <1>4, <1>6 DEF v

\* What a step of t has to show.
LEMMA CallInvStep ==
  ASSUME TypeInv, CallInv, NEW t \in Tx, NEW from, NEW to \in Place \ {"begin"}, Step(t, from, to),
         UNCHANGED <<workload, server>>,
         pc[t] # "begin" \/ (t \in workload.tx /\ \A u \in workload.tx : u < t => pc[u] # "begin"),
         \A u \in Tx \ {t} : writes'[u] = writes[u] /\ (Unheard(wal, u) => Unheard(wal', u)),
         active_transactions' = {u \in Tx : pc'[u] \in Open},
         to \in {"flush", "checkpoint", "clear"} =>
           ongoing'[t] = {u \in Tx : pc'[u] \in {"active", "wounded"}},
         \A u \in Tx : pc'[u] \in Holding => Started(wal', u) /\ writes'[u] = Logged(wal', u),
         \A m, u \in Tx : pc'[m] \in Holding /\ pc'[u] \in Holding /\ m <= u => After1(wal', m, u)
  PROVE  CallInv'
  <1>1. /\ pc' \in [Tx -> Place] /\ pc'[t] = to /\ \A u \in Tx \ {t} : pc'[u] = pc[u]
        /\ server = "up"
    BY StepPlaces
  <1>2. \A u \in Tx \ {t} : ~MidCall(u)
    BY DEF Step, MayRun, CallInv
  <1>3. \A u \in Tx \ {t} : MidCall(u)' <=> MidCall(u)
    BY <1>1 DEF MidCall
  <1>4. OneCall'
    BY <1>2, <1>3 DEF OneCall
  <1>5. NoneWhenDown'
    BY <1>1 DEF NoneWhenDown
  <1>6. BeginsInOrder'
    <2>1. \A u \in Tx : pc[u] # "begin" => u \in workload.tx
      BY DEF CallInv, BeginsInOrder
    <2>2. \A u \in Tx : pc'[u] # "begin" => u \in workload.tx
      BY <1>1, <2>1
    <2>3. ASSUME NEW u \in workload.tx, NEW v \in workload.tx, pc'[u] = "begin", u < v
          PROVE  pc'[v] = "begin"
      <3>1. u \in Tx /\ v \in Tx
        BY TypeInvFacts DEF Workload
      <3>2. u # t /\ pc[u] = "begin"
        BY <1>1, <2>3, <3>1
      <3>3. pc[v] = "begin"
        BY <2>3, <3>2 DEF CallInv, BeginsInOrder
      <3>4. v # t
        BY <2>3, <3>2, <3>3
      <3> QED BY <1>1, <3>1, <3>3, <3>4
    <2> QED BY <2>2, <2>3 DEF BeginsInOrder
  <1>7. NotBegun'
    BY <1>1 DEF NotBegun, CallInv
  <1>8. ActiveListed'
    BY DEF ActiveListed
  <1>9. OngoingListed'
    <2>1. \A u \in Tx \ {t} : pc'[u] \notin {"flush", "checkpoint", "clear"}
      BY <1>1, <1>2 DEF MidCall, Commits
    <2> QED BY <1>1, <2>1 DEF OngoingListed
  <1>10. BeginsLogged' /\ WritesLogged' /\ StartsFirst'
    BY DEF BeginsLogged, WritesLogged, StartsFirst
  <1>11. workload.serial'
    BY DEF CallInv
  <1> QED BY <1>4, <1>5, <1>6, <1>7, <1>8, <1>9, <1>10, <1>11 DEF CallInv

\* A step that leaves the log, or adds a record that is no operation of anyone.
LEMMA CallStepLogs ==
  ASSUME TypeInv, CallInv, NEW t \in Tx, NEW from, NEW to \in Place \ {"begin"}, Step(t, from, to),
         UNCHANGED <<workload, server>>, pc[t] # "begin",
         to \in Holding => pc[t] \in Holding /\ writes'[t] = writes[t],
         \A u \in Tx \ {t} : writes'[u] = writes[u],
         \/ wal' = wal
         \/ \E r \in Record : /\ r.tx \in {t, NoTx} /\ r.action \notin Data
                              /\ wal' = Append(wal, r),
         active_transactions' = {u \in Tx : pc'[u] \in Open},
         to \in {"flush", "checkpoint", "clear"} =>
           ongoing'[t] = {u \in Tx : pc'[u] \in {"active", "wounded"}}
  PROVE  CallInv'
  <1>1. /\ pc' \in [Tx -> Place] /\ pc'[t] = to /\ \A u \in Tx \ {t} : pc'[u] = pc[u]
    BY StepPlaces
  <1>2. wal \in Seq(Record)
    BY TypeInvFacts
  <1>3. \A u \in Tx : pc'[u] \in Holding => pc[u] \in Holding /\ writes'[u] = writes[u]
    BY <1>1
  <1>4. /\ \A u \in Tx : pc[u] \in Holding => Started(wal, u) /\ writes[u] = Logged(wal, u)
        /\ \A m, u \in Tx : pc[m] \in Holding /\ pc[u] \in Holding /\ m <= u => After1(wal, m, u)
    BY DEF CallInv, BeginsLogged, WritesLogged, StartsFirst
  <1>5. /\ \A u \in Tx \ {t} : Unheard(wal, u) => Unheard(wal', u)
        /\ \A u \in Tx : pc'[u] \in Holding => Started(wal', u) /\ writes'[u] = Logged(wal', u)
        /\ \A m, u \in Tx : pc'[m] \in Holding /\ pc'[u] \in Holding /\ m <= u => After1(wal', m, u)
    <2>1. CASE wal' = wal
      BY <1>3, <1>4, <2>1
    <2>2. CASE wal' # wal
      <3>1. PICK r \in Record : /\ r.tx \in {t, NoTx} /\ r.action \notin Data
                                /\ wal' = Append(wal, r)
        BY <2>2
      <3>2. \A u \in Tx : r \notin DataOf(u)
        BY <3>1 DEF DataOf, DataRecord
      <3>3. \A u \in Tx : Logged(wal', u) = Logged(wal, u)
        BY <1>2, <3>1, <3>2, LoggedAppend
      <3>4. \A u \in Tx : Started(wal, u) => Started(wal', u)
        BY <1>2, <3>1, AppendKeeps
      <3>5. \A u \in Tx \ {t} : Unheard(wal, u) => Unheard(wal', u)
        BY <1>2, <3>1, AppendKeeps, RecordFields
      <3>6. \A m, u \in Tx : After1(wal, m, u) /\ Started(wal', m) => After1(wal', m, u)
        BY <1>2, <3>1, AppendKeeps
      <3> QED BY <1>3, <1>4, <3>3, <3>4, <3>5, <3>6
    <2> QED BY <2>1, <2>2
  <1> QED BY <1>5, CallInvStep

LEMMA CallFacts ==
  ASSUME TypeInv, CallInv, NEW t \in Tx, NEW from, NEW to \in Place, Step(t, from, to)
  PROVE  /\ pc' \in [Tx -> Place] /\ pc'[t] = to /\ pc[t] \in from /\ server = "up"
         /\ \A u \in Tx \ {t} : pc'[u] = pc[u] /\ pc[u] \in {"begin", "active", "wounded", "done"}
         /\ active_transactions = {u \in Tx : pc[u] \in Open}
  <1>1. /\ pc' \in [Tx -> Place] /\ pc'[t] = to /\ pc[t] \in from /\ server = "up"
        /\ \A u \in Tx \ {t} : pc'[u] = pc[u]
    BY StepPlaces
  <1>2. \A u \in Tx \ {t} : ~MidCall(u)
    BY DEF Step, MayRun, CallInv
  <1>3. pc \in [Tx -> Place]
    BY TypeInvFacts
  <1>4. \A u \in Tx \ {t} : pc[u] \in {"begin", "active", "wounded", "done"}
    BY <1>2, <1>3 DEF MidCall, Place
  <1>5. active_transactions = {u \in Tx : pc[u] \in Open}
    BY <1>1 DEF CallInv, ActiveListed
  <1> QED BY <1>1, <1>4, <1>5

LEMMA EndCalls ==
  ASSUME TypeInv, CallInv, NEW t \in Tx,
         \/ LogCommit(t) \/ LogAbort(t)
         \/ NotifyEnd(t, "notify_commit", "snapshot") \/ NotifyEnd(t, "notify_abort", "done")
         \/ Snapshot(t)
         \/ FlushDirty(t, "flush", "checkpoint") \/ FlushDirty(t, "flush_undone", "notify_abort")
         \/ LogCheckpoint(t) \/ Wound(t) \/ Commit(t) \/ Rollback(t)
  PROVE  CallInv'
  <1>1. /\ writes \in WritesType /\ ongoing \in [Tx -> SUBSET Tx]
    BY TypeInvFacts
  <1>2. /\ \A a \in {"start", "commit", "abort"} :
             /\ Lifecycle(a, t) \in Record /\ Lifecycle(a, t).tx = t
             /\ Lifecycle(a, t).action \notin Data
        /\ Checkpoint(ongoing[t]) \in Record /\ Checkpoint(ongoing[t]).tx = NoTx
        /\ Checkpoint(ongoing[t]).action \notin Data
    BY <1>1, LifecycleType DEF Data
  <1> USE DEF Place, Commits, Aborts
  <1>3. CASE LogCommit(t)
    <2>1. /\ Step(t, {"log_commit"}, "notify_commit") /\ UNCHANGED <<workload, server, active_transactions>>
          /\ wal' = Append(wal, Lifecycle("commit", t))
      BY <1>3 DEF LogCommit, memory
    <2>2. \A u \in Tx \ {t} : writes'[u] = writes[u]
      BY <1>1, <1>3 DEF LogCommit, WritesType
    <2>3. active_transactions' = {u \in Tx : pc'[u] \in Open} /\ pc[t] # "begin"
      BY <2>1, CallFacts DEF Open, Holding
    <2> QED BY <1>2, <2>1, <2>2, <2>3, CallStepLogs DEF Holding
  <1>4. CASE LogAbort(t)
    <2>1. /\ Step(t, {"log_abort"}, "undo") /\ UNCHANGED <<workload, server, active_transactions, writes>>
          /\ wal' = Append(wal, Lifecycle("abort", t))
      BY <1>4 DEF LogAbort, memory
    <2>2. active_transactions' = {u \in Tx : pc'[u] \in Open} /\ pc[t] # "begin" /\ pc[t] \in Holding
      BY <2>1, CallFacts DEF Open, Holding
    <2> QED BY <1>2, <2>1, <2>2, CallStepLogs
  <1>5. ASSUME NEW from \in {"notify_commit", "notify_abort"}, NEW to \in {"snapshot", "done"},
               NotifyEnd(t, from, to)
        PROVE  CallInv'
    <2>1. /\ Step(t, {from}, to) /\ UNCHANGED <<workload, server, writes, wal>>
          /\ active_transactions' = active_transactions \ {t}
      BY <1>5 DEF NotifyEnd
    <2>2. active_transactions' = {u \in Tx : pc'[u] \in Open} /\ pc[t] # "begin"
      BY <2>1, CallFacts DEF Open, Holding
    <2> QED BY <2>1, <2>2, CallStepLogs DEF Holding
  <1>6. CASE Snapshot(t)
    <2>1. /\ Step(t, {"snapshot"}, "flush")
          /\ UNCHANGED <<workload, server, writes, wal, active_transactions>>
          /\ ongoing'[t] = active_transactions
      BY <1>1, <1>6 DEF Snapshot
    <2>2. active_transactions' = {u \in Tx : pc'[u] \in Open} /\ pc[t] # "begin"
      BY <2>1, CallFacts DEF Open, Holding
    <2>3. ongoing'[t] = {u \in Tx : pc'[u] \in {"active", "wounded"}}
      BY <2>1, CallFacts DEF Open, Holding
    <2> QED BY <2>1, <2>2, <2>3, CallStepLogs DEF Holding
  <1>7. CASE FlushDirty(t, "flush", "checkpoint")
    <2>1. /\ Step(t, {"flush"}, "checkpoint")
          /\ UNCHANGED <<workload, server, writes, wal, active_transactions, ongoing>>
      BY <1>7 DEF FlushDirty, memory
    <2>2. active_transactions' = {u \in Tx : pc'[u] \in Open} /\ pc[t] # "begin"
      BY <2>1, CallFacts DEF Open, Holding
    <2>3. ongoing'[t] = {u \in Tx : pc'[u] \in {"active", "wounded"}}
      BY <2>1, CallFacts DEF CallInv, OngoingListed
    <2> QED BY <2>1, <2>2, <2>3, CallStepLogs DEF Holding
  <1>8. CASE FlushDirty(t, "flush_undone", "notify_abort")
    <2>1. /\ Step(t, {"flush_undone"}, "notify_abort")
          /\ UNCHANGED <<workload, server, writes, wal, active_transactions, ongoing>>
      BY <1>8 DEF FlushDirty, memory
    <2>2. active_transactions' = {u \in Tx : pc'[u] \in Open} /\ pc[t] # "begin"
      BY <2>1, CallFacts DEF Open, Holding
    <2> QED BY <2>1, <2>2, CallStepLogs DEF Holding
  <1>9. CASE LogCheckpoint(t)
    <2>1. /\ Step(t, {"checkpoint"}, "clear")
          /\ UNCHANGED <<workload, server, writes, active_transactions, ongoing>>
          /\ wal' = Append(wal, Checkpoint(ongoing[t]))
      BY <1>9 DEF LogCheckpoint, memory
    <2>2. active_transactions' = {u \in Tx : pc'[u] \in Open} /\ pc[t] # "begin"
      BY <2>1, CallFacts DEF Open, Holding
    <2>3. ongoing'[t] = {u \in Tx : pc'[u] \in {"active", "wounded"}}
      BY <2>1, CallFacts DEF CallInv, OngoingListed
    <2> QED BY <1>2, <2>1, <2>2, <2>3, CallStepLogs DEF Holding
  <1>10. ASSUME NEW from \in SUBSET {"active", "wounded"}, NEW to \in {"wounded", "log_commit", "log_abort"},
                Step(t, from, to), UNCHANGED <<workload, store, wal, writes>> /\ UNCHANGED memory
         PROVE  CallInv'
    <2>1. UNCHANGED <<workload, server, writes, wal, active_transactions, ongoing>>
      BY <1>10 DEF memory
    <2>2. /\ active_transactions' = {u \in Tx : pc'[u] \in Open} /\ pc[t] # "begin"
          /\ pc[t] \in Holding
      <3>1. /\ pc'[t] = to /\ pc[t] \in from /\ \A u \in Tx \ {t} : pc'[u] = pc[u]
            /\ active_transactions = {u \in Tx : pc[u] \in Open}
        BY <1>10, CallFacts
      <3>2. pc[t] \in {"active", "wounded"}
        BY <1>10, <3>1
      <3>3. \A u \in Tx : pc'[u] \in Open <=> pc[u] \in Open
        BY <1>10, <3>1, <3>2 DEF Open, Holding
      <3> QED BY <2>1, <3>1, <3>2, <3>3 DEF Holding
    <2> QED BY <1>10, <2>1, <2>2, CallStepLogs DEF Holding
  <1>11. CASE Wound(t)
    BY <1>10, <1>11 DEF Wound
  <1>12. CASE Commit(t)
    BY <1>10, <1>12 DEF Commit
  <1>13. CASE Rollback(t)
    BY <1>10, <1>13 DEF Rollback
  <1> QED BY <1>3, <1>4, <1>5, <1>6, <1>7, <1>8, <1>9, <1>11, <1>12, <1>13

LEMMA BeginCalls ==
  ASSUME TypeInv, CallInv, NEW t \in Tx, Begin(t)
  PROVE  CallInv'
  <1>1. /\ Step(t, {"begin"}, "active") /\ t \in workload.tx
        /\ \A u \in workload.tx : u < t => pc[u] # "begin"
        /\ active_transactions' = active_transactions \cup {t}
        /\ wal' = Append(wal, START(t)) /\ UNCHANGED <<workload, server, ongoing, writes>>
    BY DEF Begin, START
  <1>2. wal \in Seq(Record) /\ Tx \subseteq Nat /\ pc \in [Tx -> Place]
    BY TypeInvFacts, TxAssumption
  <1>3. START(t) \in Record /\ START(t).tx = t /\ \A u \in Tx : START(t) \notin DataOf(u)
    <2>1. START(t) \in Record /\ START(t).tx = t /\ START(t).action = "start"
      BY LifecycleType DEF START
    <2> QED BY <2>1 DEF DataOf, DataRecord, Data
  <1>4. /\ pc'[t] = "active" /\ pc[t] = "begin" /\ \A u \in Tx \ {t} : pc'[u] = pc[u]
        /\ active_transactions' = {u \in Tx : pc'[u] \in Open}
    BY <1>1, CallFacts DEF Open, Holding, Place
  <1>5. \A u \in Tx : Logged(wal', u) = Logged(wal, u)
    BY <1>1, <1>2, <1>3, LoggedAppend
  <1>6. /\ Started(wal', t) /\ \A u \in Tx : Started(wal, u) => Started(wal', u)
        /\ \A u \in Tx \ {t} : Unheard(wal, u) => Unheard(wal', u)
        /\ \A m, u \in Tx : After1(wal, m, u) /\ Started(wal', m) => After1(wal', m, u)
    BY <1>1, <1>2, <1>3, AppendKeeps
  <1>7. writes[t] = <<>> /\ Unheard(wal, t)
    BY <1>4 DEF CallInv, NotBegun
  <1>8. writes[t] = Logged(wal, t)
    <2> DEFINE E == {r \in Record : r.tx # t}
    <2>1. wal \in Seq(E)
      BY <1>2, <1>7 DEF Unheard
    <2>2. \A r \in E : r \notin DataOf(t)
      BY DEF DataOf
    <2> HIDE DEF E
    <2>3. Only(wal, DataOf(t)) = <<>>
      BY <2>1, <2>2, OnlyNone, Zenon
    <2>4. Images(<<>>) = <<>>
      BY DEF Images
    <2> QED BY <1>7, <2>3, <2>4, Zenon DEF Logged
  <1>9. \A u \in Tx : pc'[u] \in Holding => Started(wal', u) /\ writes'[u] = Logged(wal', u)
    <2>1. \A u \in Tx : pc[u] \in Holding => Started(wal, u) /\ writes[u] = Logged(wal, u)
      BY DEF CallInv, BeginsLogged, WritesLogged
    <2> QED BY <1>1, <1>4, <1>5, <1>6, <1>8, <2>1
  <1>10. ASSUME NEW m \in Tx, NEW u \in Tx, pc'[m] \in Holding, pc'[u] \in Holding, m <= u
         PROVE  After1(wal', m, u)
    <2>1. Started(wal', m)
      BY <1>9, <1>10
    <2>2. CASE u = t
      BY <1>6, <1>7, <2>1, <2>2 DEF After1, Unheard
    <2>3. CASE u # t /\ m # t
      BY <1>4, <1>6, <1>10, <2>1, <2>3 DEF CallInv, StartsFirst
    <2>4. CASE u # t /\ m = t
      <3>1. pc[u] # "begin"
        BY <1>4, <1>10, <2>4 DEF Holding
      <3>2. u \in workload.tx /\ m < u
        BY <1>2, <1>10, <2>4, <3>1 DEF CallInv, BeginsInOrder
      <3> QED BY <1>1, <1>4, <2>4, <3>1, <3>2 DEF CallInv, BeginsInOrder
    <2> QED BY <2>2, <2>3, <2>4
  <1> QED BY <1>1, <1>4, <1>6, <1>9, <1>10, CallInvStep DEF Place

\* A statement logs what it writes.
LEMMA StatementCalls ==
  ASSUME TypeInv, CallInv, NEW t \in Tx, NEW k \in Key, NEW row \in Row \cup {NoRow},
         NEW before \in Row \cup {NoRow}, Statement(t, k, row),
         wal' = Append(wal, Operation(t, k, before, row))
  PROVE  CallInv'
  <1> DEFINE r == Operation(t, k, before, row)
  <1>1. /\ UNCHANGED <<workload, server, active_transactions, ongoing>>
        /\ writes'[t] = Append(writes[t], [key |-> k, row |-> row])
        /\ \A u \in Tx \ {t} : writes'[u] = writes[u]
        /\ Step(t, {"active"}, "active")
    BY StatementTypes DEF memory, Statement
  <1>2. wal \in Seq(Record)
    BY TypeInvFacts
  <1>3. r \in DataRecord /\ r.tx = t /\ r.key = k /\ r.after = row
    BY OperationType
  <1> HIDE DEF r
  <1>4. r \in Record /\ r \in DataOf(t) /\ \A u \in Tx \ {t} : r \notin DataOf(u)
    BY <1>3 DEF DataOf, DataRecord
  <1>5. wal' = Append(wal, r)
    BY DEF r
  <1>6. /\ pc'[t] = "active" /\ pc[t] = "active" /\ \A u \in Tx : pc'[u] = pc[u]
        /\ active_transactions' = {u \in Tx : pc'[u] \in Open}
    BY <1>1, CallFacts DEF Open, Holding, Place
  <1>7. /\ Logged(wal', t) = Append(Logged(wal, t), [key |-> k, row |-> row])
        /\ \A u \in Tx \ {t} : Logged(wal', u) = Logged(wal, u)
    BY <1>2, <1>3, <1>4, <1>5, LoggedAppend
  <1>8. /\ \A u \in Tx : Started(wal, u) => Started(wal', u)
        /\ \A u \in Tx \ {t} : Unheard(wal, u) => Unheard(wal', u)
        /\ \A m, u \in Tx : After1(wal, m, u) /\ Started(wal', m) => After1(wal', m, u)
    BY <1>2, <1>3, <1>4, <1>5, AppendKeeps
  <1>9. \A u \in Tx : pc'[u] \in Holding => Started(wal', u) /\ writes'[u] = Logged(wal', u)
    <2>1. \A u \in Tx : pc[u] \in Holding => Started(wal, u) /\ writes[u] = Logged(wal, u)
      BY DEF CallInv, BeginsLogged, WritesLogged
    <2>2. ASSUME NEW u \in Tx, pc'[u] \in Holding
          PROVE  writes'[u] = Logged(wal', u)
      <3>1. CASE u = t
        BY <1>1, <1>6, <1>7, <2>1, <2>2, <3>1
      <3>2. CASE u # t
        BY <1>1, <1>6, <1>7, <2>1, <2>2, <3>2
      <3> QED BY <3>1, <3>2
    <2> QED BY <1>6, <1>8, <2>1, <2>2
  <1>10. \A m, u \in Tx : pc'[m] \in Holding /\ pc'[u] \in Holding /\ m <= u => After1(wal', m, u)
    BY <1>6, <1>8, <1>9 DEF CallInv, StartsFirst
  <1> QED BY <1>1, <1>6, <1>8, <1>9, <1>10, CallInvStep DEF Place

LEMMA WriteCalls ==
  ASSUME TypeInv, CallInv, NEW t \in Tx, Insert(t) \/ Update(t) \/ Delete(t)
  PROVE  CallInv'
  <1>1. Good(store)
    BY TypeInvFacts
  <1>2. ASSUME NEW k \in Key, NEW row \in Row, WriteBlock(t, k, row)
        PROVE  CallInv'
    <2>1. BeforeImage(store, k) \in Row \cup {NoRow}
      BY <1>1, WrittenGood
    <2> QED BY <1>2, <2>1, StatementCalls DEF WriteBlock
  <1>3. ASSUME Delete(t)
        PROVE  CallInv'
    <2>1. PICK k \in Key : /\ Statement(t, k, NoRow)
                           /\ wal' = Append(wal, Operation(t, k, Visible(store, k), NoRow))
      BY <1>3 DEF Delete
    <2>2. Visible(store, k) \in Row \cup {NoRow}
      BY <1>1, VisibleOfRow DEF Good
    <2> QED BY <2>1, <2>2, StatementCalls
  <1> QED BY <1>2, <1>3 DEF Insert, Update

LEMMA UndoCalls ==
  ASSUME TypeInv, CallInv, NEW t \in Tx, Undo(t)
  PROVE  CallInv'
  <1> DEFINE undone == OperationsOf(wal, t)
             a == Answers(undone)
  <1>1. /\ Step(t, {"undo"}, "flush_undone") /\ wal' = wal \o a
        /\ writes' = [writes EXCEPT ![t] = <<>>]
        /\ UNCHANGED <<workload, server, active_transactions, ongoing>>
    BY DEF Undo, memory
  <1>2. wal \in Seq(Record) /\ writes \in WritesType
    BY TypeInvFacts
  <1>3. undone \in Seq({r \in DataRecord : r.tx = t})
    BY <1>2, SelectionsType
  <1>4. undone \in Seq(DataRecord \cup {r \in Record : r.action = "start"})
    <2>1. \A A, B : A \subseteq B => Seq(A) \subseteq Seq(B)
      OBVIOUS
    <2>2. {r \in DataRecord : r.tx = t} \subseteq DataRecord \cup {r \in Record : r.action = "start"}
      OBVIOUS
    <2> HIDE DEF undone
    <2> QED BY <1>3, <2>1, <2>2
  <1> HIDE DEF undone
  <1>5. /\ a \in Seq(Record) /\ Len(a) = Len(undone)
        /\ \A i \in DOMAIN undone : a[i].tx = undone[i].tx
    BY <1>4, AnswersType
  <1>6. \A u \in Tx \ {t} : Unheard(a, u)
    <2>1. \A i \in DOMAIN undone : undone[i].tx = t
      BY <1>3
    <2>2. DOMAIN a = DOMAIN undone
      BY <1>3, <1>5
    <2> QED BY <1>5, <2>1, <2>2 DEF Unheard
  <1>7. \A u \in Tx : Logged(wal', u) = Logged(wal, u)
    BY <1>1, <1>2, <1>4, LoggedAnswers
  <1> HIDE DEF a
  <1>8. /\ pc'[t] = "flush_undone" /\ pc[t] = "undo" /\ \A u \in Tx \ {t} : pc'[u] = pc[u]
        /\ active_transactions' = {u \in Tx : pc'[u] \in Open}
    <2>1. /\ pc'[t] = "flush_undone" /\ pc[t] = "undo" /\ \A u \in Tx \ {t} : pc'[u] = pc[u]
          /\ active_transactions = {u \in Tx : pc[u] \in Open}
      BY <1>1, CallFacts DEF Place, Aborts
    <2>2. \A u \in Tx : pc'[u] \in Open <=> pc[u] \in Open
      BY <2>1 DEF Open, Holding
    <2> QED BY <1>1, <2>1, <2>2
  <1>9. \A u \in Tx \ {t} : writes'[u] = writes[u]
    BY <1>1, <1>2 DEF WritesType
  <1>10. /\ \A m \in Tx : Started(wal, m) => Started(wal', m)
         /\ \A u \in Tx \ {t} : Unheard(wal, u) => Unheard(wal', u)
         /\ \A m \in Tx, u \in Tx \ {t} : After1(wal, m, u) => After1(wal', m, u)
    BY <1>1, <1>2, <1>5, <1>6, ConcatKeeps
  <1>11. \A u \in Tx : pc'[u] \in Holding => u # t /\ pc[u] \in Holding
    BY <1>8 DEF Holding
  <1>12. \A u \in Tx : pc'[u] \in Holding => Started(wal', u) /\ writes'[u] = Logged(wal', u)
    BY <1>7, <1>9, <1>10, <1>11 DEF CallInv, BeginsLogged, WritesLogged
  <1>13. \A m, u \in Tx : pc'[m] \in Holding /\ pc'[u] \in Holding /\ m <= u => After1(wal', m, u)
    BY <1>10, <1>11 DEF CallInv, StartsFirst
  <1> QED BY <1>1, <1>8, <1>9, <1>10, <1>12, <1>13, CallInvStep DEF Place, Aborts

LEMMA ClearWalCalls ==
  ASSUME TypeInv, CallInv, NEW t \in Tx, ClearWal(t)
  PROVE  CallInv'
  <1> DEFINE S == ongoing[t]
  <1>1. /\ Step(t, {"clear"}, "done") /\ wal' = Cleared(wal, S)
        /\ UNCHANGED <<workload, server, active_transactions, writes>>
    BY DEF ClearWal
  <1>2. wal \in Seq(Record) /\ S \in SUBSET Tx
    BY TypeInvFacts
  <1>3. /\ pc'[t] = "done" /\ pc[t] = "clear" /\ \A u \in Tx \ {t} : pc'[u] = pc[u]
        /\ active_transactions' = {u \in Tx : pc'[u] \in Open}
        /\ \A u \in Tx \ {t} : pc[u] \in {"begin", "active", "wounded", "done"}
    BY <1>1, CallFacts DEF Open, Holding, Place
  <1>4. S = {u \in Tx : pc[u] \in {"active", "wounded"}}
    BY <1>3 DEF CallInv, OngoingListed
  <1>5. \A u \in Tx : pc'[u] \in Holding <=> u \in S
    BY <1>3, <1>4 DEF Holding
  <1> HIDE DEF S
  <1>6. HasCheckpoint(wal)
    BY <1>3 DEF TypeInv, CheckpointLogged
  <1>7. Complete(wal, S)
    BY <1>3, <1>4 DEF Complete, CallInv, BeginsLogged, StartsFirst, Holding
  <1>8. /\ \A i \in DOMAIN wal' : \E j \in DOMAIN wal : wal'[i] = wal[j]
        /\ \A u \in S : Only(wal', DataOf(u)) = Only(wal, DataOf(u))
        /\ Complete(wal', S)
    BY <1>1, <1>2, <1>6, <1>7, CutKeeps
  <1>9. \A u \in Tx : Unheard(wal, u) => Unheard(wal', u)
    BY <1>8 DEF Unheard
  <1>10. \A u \in S : Logged(wal', u) = Logged(wal, u)
    BY <1>8 DEF Logged
  <1>11. \A u \in Tx : pc'[u] \in Holding => Started(wal', u) /\ writes'[u] = Logged(wal', u)
    <2>1. \A u \in S : writes[u] = Logged(wal, u)
      BY <1>4 DEF CallInv, WritesLogged, Holding
    <2> QED BY <1>1, <1>5, <1>8, <1>10, <2>1 DEF Complete
  <1>12. \A m, u \in Tx : pc'[m] \in Holding /\ pc'[u] \in Holding /\ m <= u => After1(wal', m, u)
    BY <1>5, <1>8 DEF Complete
  <1> QED BY <1>1, <1>3, <1>9, <1>11, <1>12, CallInvStep DEF Place

LEMMA CrashCalls ==
  ASSUME TypeInv, CallInv, Crash
  PROVE  CallInv'
  <1>1. /\ pc' = [t \in Tx |-> IF pc[t] = "begin" THEN "begin" ELSE "done"]
        /\ writes' = [t \in Tx |-> <<>>] /\ server' = "down" /\ active_transactions' = {}
        /\ UNCHANGED <<workload, wal>>
    BY DEF Crash
  <1>2. /\ \A t \in Tx : pc'[t] \in {"begin", "done"} /\ (pc'[t] = "begin" <=> pc[t] = "begin")
        /\ \A t \in Tx : writes'[t] = <<>>
    BY <1>1
  <1>3. BeginsInOrder'
    <2>1. workload.tx \subseteq Tx
      BY TypeInvFacts DEF Workload
    <2> QED BY <1>1, <1>2, <2>1 DEF CallInv, BeginsInOrder
  <1>4. NotBegun'
    BY <1>1, <1>2 DEF CallInv, NotBegun
  <1>5. ActiveListed'
    BY <1>1, <1>2 DEF ActiveListed, Open, Holding
  <1>6. \A t \in Tx : pc'[t] \notin Commits \cup Aborts /\ pc'[t] \notin Holding
    BY <1>2 DEF Commits, Aborts, Holding
  <1>7. OneCall' /\ NoneWhenDown'
    BY <1>2, <1>6 DEF OneCall, MidCall, NoneWhenDown
  <1>8. OngoingListed'
    BY <1>2 DEF OngoingListed
  <1>9. BeginsLogged' /\ StartsFirst' /\ WritesLogged'
    BY <1>6 DEF BeginsLogged, StartsFirst, WritesLogged
  <1>10. workload.serial'
    BY <1>1 DEF CallInv
  <1> QED BY <1>3, <1>4, <1>5, <1>7, <1>8, <1>9, <1>10 DEF CallInv

LEMMA RecoverCalls ==
  ASSUME TypeInv, CallInv, Recover \/ RecoverInterrupted
  PROVE  CallInv'
  <1> DEFINE l == UndoList(wal)
             a == Answers(l)
             E == DataRecord \cup {r \in Record : r.action = "start"}
  <1>1. /\ wal' = wal \o a /\ server = "down"
        /\ UNCHANGED <<workload, active_transactions, pc, ongoing, writes>>
    BY DEF Recover, RecoverInterrupted
  <1>2. wal \in Seq(Record) /\ l \in Seq(E)
    BY TypeInvFacts, SelectionsType
  <1>3. ToSet(l) \subseteq ToSet(wal)
    <2> DEFINE S == {r \in ToSet(wal) : r.tx \in Incomplete(wal) /\ r.action \in Data \cup {"start"}}
    <2>1. Reverse(wal) \in Seq(Record) /\ l = Only(Reverse(wal), S)
      BY <1>2, SelectionsType DEF UndoList
    <2>2. ToSet(l) = ToSet(Reverse(wal)) \cap S
      <3> HIDE DEF l, S
      <3> QED BY <2>1, OnlyRange
    <2> QED BY <2>2
  <1> HIDE DEF l
  <1>4. /\ a \in Seq(Record) /\ Len(a) = Len(l) /\ \A i \in DOMAIN l : a[i].tx = l[i].tx
    BY <1>2, AnswersType
  <1>5. \A u \in Tx : Unheard(wal, u) => Unheard(a, u)
    <2>1. DOMAIN a = DOMAIN l
      BY <1>2, <1>4
    <2>2. \A i \in DOMAIN l : l[i] \in ToSet(wal)
      BY <1>3 DEF ToSet
    <2> QED BY <1>4, <2>1, <2>2 DEF Unheard, ToSet
  <1> HIDE DEF a
  <1>6. \A u \in Tx : Unheard(wal, u) => Unheard(wal', u)
    BY <1>1, <1>2, <1>4, <1>5, ConcatKeeps
  <1>7. \A t \in Tx : pc[t] \in {"begin", "done"}
    BY <1>1 DEF CallInv, NoneWhenDown
  <1>8. NotBegun' /\ BeginsInOrder'
    BY <1>1, <1>6 DEF CallInv, NotBegun, BeginsInOrder
  <1>9. ActiveListed'
    BY <1>1 DEF CallInv, ActiveListed
  <1> QED BY <1>1, <1>7, <1>8, <1>9
          DEF CallInv, OneCall, MidCall, Commits, Aborts, NoneWhenDown, OngoingListed,
              BeginsLogged, StartsFirst, WritesLogged, Holding

LEMMA CallInvInit == Init /\ workload.serial => CallInv
  <1> SUFFICES ASSUME Init, workload.serial PROVE CallInv
    OBVIOUS
  <1>1. /\ \A t \in Tx : pc[t] = "begin" /\ writes[t] = <<>>
        /\ wal = <<>> /\ active_transactions = {} /\ server = "up"
    BY DEF Init
  <1>2. workload.tx \subseteq Tx
    BY WorkloadAssumption DEF Init, Workload
  <1>3. BeginsInOrder
    BY <1>1, <1>2 DEF BeginsInOrder
  <1>4. NotBegun
    BY <1>1 DEF NotBegun, Unheard
  <1>5. \A t \in Tx : pc[t] \notin Commits \cup Aborts /\ pc[t] \notin Open /\ pc[t] \notin Holding
    BY <1>1 DEF Commits, Aborts, Open, Holding
  <1>6. OneCall /\ NoneWhenDown /\ ActiveListed /\ OngoingListed
    BY <1>1, <1>5 DEF OneCall, MidCall, NoneWhenDown, ActiveListed, OngoingListed
  <1>7. BeginsLogged /\ StartsFirst /\ WritesLogged
    BY <1>5 DEF BeginsLogged, StartsFirst, WritesLogged
  <1> QED BY <1>3, <1>4, <1>6, <1>7 DEF CallInv

LEMMA CallInvNext == TypeInv /\ CallInv /\ [Next]_vars => CallInv'
  <1> SUFFICES ASSUME TypeInv, CallInv, [Next]_vars PROVE CallInv'
    OBVIOUS
  <1>1. ASSUME NEW t \in Tx, ServerStep(t)
        PROVE  CallInv'
    BY <1>1, EndCalls, ClearWalCalls, UndoCalls DEF ServerStep
  <1>2. ASSUME NEW t \in Tx, ClientStep(t)
        PROVE  CallInv'
    BY <1>2, BeginCalls, WriteCalls, EndCalls DEF ClientStep
  <1>3. CASE Crash
    BY <1>3, CrashCalls
  <1>4. CASE Recover \/ RecoverInterrupted
    BY <1>4, RecoverCalls
  <1>5. CASE UNCHANGED vars
    BY <1>5 DEF vars, CallInv, OneCall, MidCall, NoneWhenDown, BeginsInOrder, NotBegun, ActiveListed,
                OngoingListed, BeginsLogged, StartsFirst, WritesLogged
  <1> QED BY <1>1, <1>2, <1>3, <1>4, <1>5 DEF Next, Restart

\* UndoInformationKept: where the calls of a commit or a rollback exclude the
\* others, abort_transaction finds in the log every write of its transaction, in
\* order, whatever the checkpoints of the other transactions have cut and
\* whatever crashes and recoveries went before.
THEOREM RollbackFindsItsWrites == Spec /\ workload.serial => []UndoInformationKept
  <1>1. TypeInv /\ CallInv => UndoInformationKept
    <2> SUFFICES ASSUME TypeInv, CallInv, NEW t \in Tx, pc[t] \in {"active", "wounded"}
                 PROVE  LET ops == Reverse(OperationsOf(wal, t))
                        IN [i \in DOMAIN ops |-> [key |-> ops[i].key, row |-> ops[i].after]] = writes[t]
      BY DEF UndoInformationKept
    <2>1. wal \in Seq(Record)
      BY TypeInvFacts
    <2>2. Reverse(OperationsOf(wal, t)) = Only(wal, DataOf(t))
      BY <2>1, OperationsReversed
    <2>3. writes[t] = Logged(wal, t)
      BY DEF CallInv, WritesLogged, Holding
    <2> QED BY <2>2, <2>3 DEF Logged, Images
  <1> QED BY <1>1, CallInvInit, CallInvNext, TypesAndCleanRows, PTL DEF Spec

--------------------------------------------------------------------------------
(* Atomicity.  Transactions that update are atomic and durable: Recovery    *)
(* implements AtomicStore, whatever the sizes of the database, the buffer   *)
(* pool and the transactions, where the calls of a commit or a rollback     *)
(* exclude the others and the server crashes between statements or inside a *)
(* commit.                                                                  *)

\* Records of updates, and those of one key.
Change == {r \in DataRecord : r.action = "update"}
OnKey(k) == {r \in DataRecord : r.key = k}

\* What is left of a key once the records are redone, or undone, one after another.
Latest(records, d) == IF records = <<>> THEN d ELSE records[Len(records)].after
Restored(records, d) == IF records = <<>> THEN d ELSE records[Len(records)].before

\* One record more decides what is left of its key.
LEMMA LatestIsLast ==
  ASSUME NEW records \in Seq(Record), NEW r \in Record, NEW d
  PROVE  Latest(Append(records, r), d) = r.after /\ Restored(Append(records, r), d) = r.before
  <1>1. /\ Append(records, r) # <<>> /\ Len(Append(records, r)) = Len(records) + 1
        /\ Append(records, r)[Len(records) + 1] = r
    OBVIOUS
  <1> QED BY <1>1 DEF Latest, Restored

\* A choice from a choice.
LEMMA OnlyOnly ==
  ASSUME NEW E, NEW s \in Seq(E), NEW S, NEW T
  PROVE  Only(Only(s, S), T) = Only(s, S \cap T)
  <1> DEFINE I == {x \in Seq(E) : Only(Only(x, S), T) = Only(x, S \cap T)}
  <1>1. <<>> \in I
    <2>1. <<>> \in Seq(E)
      OBVIOUS
    <2>2. Only(<<>>, S) = <<>> /\ Only(<<>>, T) = <<>> /\ Only(<<>>, S \cap T) = <<>>
      BY OnlyEmpty, Zenon
    <2> QED BY <2>1, <2>2, Zenon
  <1>2. ASSUME NEW x \in Seq(E), NEW e \in E, x \in I
        PROVE  Append(x, e) \in I
    <2>1. Only(x, S) \in Seq(E) /\ Append(x, e) \in Seq(E)
      BY OnlyType, AppendProperties, Zenon
    <2>2. Only(Append(x, e), S) = IF e \in S THEN Append(Only(x, S), e) ELSE Only(x, S)
      BY OnlyAppend, Zenon
    <2>3. Only(Append(Only(x, S), e), T)
            = IF e \in T THEN Append(Only(Only(x, S), T), e) ELSE Only(Only(x, S), T)
      BY <2>1, OnlyAppend, Zenon
    <2>4. Only(Append(x, e), S \cap T)
            = IF e \in S \cap T THEN Append(Only(x, S \cap T), e) ELSE Only(x, S \cap T)
      BY OnlyAppend, Zenon
    <2>5. Only(Only(x, S), T) = Only(x, S \cap T)
      BY <1>2
    <2>6. CASE e \in S /\ e \in T
      <3>1. Only(Only(Append(x, e), S), T) = Append(Only(x, S \cap T), e)
        BY <2>2, <2>3, <2>5, <2>6, Zenon
      <3>2. Only(Append(x, e), S \cap T) = Append(Only(x, S \cap T), e)
        BY <2>4, <2>6, Zenon
      <3> QED BY <2>1, <3>1, <3>2, Zenon
    <2>7. CASE e \in S /\ e \notin T
      <3>1. Only(Only(Append(x, e), S), T) = Only(x, S \cap T)
        BY <2>2, <2>3, <2>5, <2>7, Zenon
      <3>2. Only(Append(x, e), S \cap T) = Only(x, S \cap T)
        BY <2>4, <2>7, Zenon
      <3> QED BY <2>1, <3>1, <3>2, Zenon
    <2>8. CASE e \notin S
      <3>1. Only(Only(Append(x, e), S), T) = Only(x, S \cap T)
        BY <2>2, <2>5, <2>8, Zenon
      <3>2. Only(Append(x, e), S \cap T) = Only(x, S \cap T)
        BY <2>4, <2>8, Zenon
      <3> QED BY <2>1, <3>1, <3>2, Zenon
    <2> QED BY <2>6, <2>7, <2>8
  <1> HIDE DEF I
  <1>3. Seq(E) \subseteq I
    BY <1>1, <1>2, F!SequenceInduction, FInductive
  <1> QED BY <1>3 DEF I

--------------------------------------------------------------------------------
(* What redo and undo leave of a key.                                        *)

\* Redo leaves the last after image, if the key has a record.
LEMMA RedoneShows ==
  ASSUME NEW s, Good(s), NEW k \in Key, NEW records \in Seq(Change)
  PROVE  /\ Good(RedoneAll(s, records))
         /\ Visible(RedoneAll(s, records), k) = Latest(Only(records, OnKey(k)), Visible(s, k))
  <1> DEFINE v(x) == Latest(Only(x, OnKey(k)), Visible(s, k))
             I == {x \in Seq(Change) : /\ Good(R!Fold(0, s, x)) /\ Visible(R!Fold(0, s, x), k) = v(x)}
  <1>1. <<>> \in I
    <2>1. <<>> \in Seq(Change)
      OBVIOUS
    <2>2. Only(<<>>, OnKey(k)) = <<>> /\ R!Fold(0, s, <<>>) = s
      BY OnlyEmpty, R!FoldEmpty, RInductive, Zenon
    <2>3. v(<<>>) = Visible(s, k)
      BY <2>2, Zenon DEF Latest
    <2> QED BY <2>1, <2>2, <2>3, Zenon
  <1>2. ASSUME NEW x \in Seq(Change), NEW r \in Change, x \in I
        PROVE  Append(x, r) \in I
    <2> DEFINE u == R!Fold(0, s, x)
               w == R!Fold(0, s, Append(x, r))
               o == Only(x, OnKey(k))
    <2>1. Append(x, r) \in Seq(Change) /\ o \in Seq(Change)
      BY OnlyType, AppendProperties, Zenon
    <2>2. w = Redone(u, r)
      BY R!FoldAppend, RInductive
    <2>3. Good(u) /\ Visible(u, k) = v(x)
      BY <1>2
    <2>4. Only(Append(x, r), OnKey(k)) = IF r \in OnKey(k) THEN Append(o, r) ELSE o
      BY OnlyAppend, Zenon
    <2> HIDE DEF u, w, o
    <2>5. Shows(u, w, r.key, r.after)
      BY <2>2, <2>3, RedoneGood DEF Change
    <2>6. r \in OnKey(k) <=> r.key = k
      BY DEF Change, OnKey
    <2>7. Good(w) /\ Visible(w, k) = IF r.key = k THEN r.after ELSE Visible(u, k)
      <3>1. Good(w) /\ \A j \in Key : Visible(w, j) = IF j = r.key THEN r.after ELSE Visible(u, j)
        BY <2>5 DEF Shows
      <3> QED BY <3>1
    <2>8. CASE r.key = k
      <3>1. v(Append(x, r)) = Latest(Append(o, r), Visible(s, k))
        BY <2>4, <2>6, <2>8
      <3>2. o \in Seq(Record) /\ r \in Record
        <4>1. Change \subseteq Record
          BY DEF Change, DataRecord
        <4> QED BY <2>1, <4>1
      <3>3. v(Append(x, r)) = r.after
        BY <3>1, <3>2, LatestIsLast
      <3> HIDE DEF v
      <3> QED BY <2>1, <2>7, <2>8, <3>3 DEF w
    <2>9. CASE r.key # k
      <3>1. v(Append(x, r)) = v(x)
        BY <2>4, <2>6, <2>9 DEF o
      <3> HIDE DEF v
      <3> QED BY <2>1, <2>3, <2>7, <2>9, <3>1 DEF w
    <2> QED BY <2>8, <2>9
  <1> HIDE DEF I
  <1>3. Seq(Change) \subseteq I
    BY <1>1, <1>2, F!SequenceInduction, FInductive
  <1>4. records \in I
    BY <1>3
  <1> QED BY <1>4, RedoneAllIsFold DEF I

\* Undo leaves the last before image; the disk gets nothing that was not visible
\* of a key without records.
LEMMA UndoneShows ==
  ASSUME NEW s, Good(s), NEW k \in Key, NEW records \in Seq(Change)
  PROVE  /\ Good(UndoneAll(s, records))
         /\ Visible(UndoneAll(s, records), k) = Restored(Only(records, OnKey(k)), Visible(s, k))
         /\ Only(records, OnKey(k)) = <<>>
              => UndoneAll(s, records).disk[k] \in {s.disk[k], Visible(s, k)}
  <1> DEFINE v(x) == Restored(Only(x, OnKey(k)), Visible(s, k))
             quiet(x, u) == Only(x, OnKey(k)) = <<>>
                              => Visible(u, k) = Visible(s, k) /\ u.disk[k] \in {s.disk[k], Visible(s, k)}
             I == {x \in Seq(Change) : /\ Good(U!Fold(0, s, x)) /\ Visible(U!Fold(0, s, x), k) = v(x)
                                       /\ quiet(x, U!Fold(0, s, x))}
  <1>1. <<>> \in I
    <2>1. <<>> \in Seq(Change)
      OBVIOUS
    <2>2. Only(<<>>, OnKey(k)) = <<>> /\ U!Fold(0, s, <<>>) = s
      BY OnlyEmpty, U!FoldEmpty, UInductive, Zenon
    <2>3. v(<<>>) = Visible(s, k)
      BY <2>2, Zenon DEF Restored
    <2>4. quiet(<<>>, s)
      OBVIOUS
    <2> HIDE DEF quiet, v
    <2> QED BY <2>1, <2>2, <2>3, <2>4, Zenon
  <1>2. ASSUME NEW x \in Seq(Change), NEW r \in Change, x \in I
        PROVE  Append(x, r) \in I
    <2> DEFINE u == U!Fold(0, s, x)
               w == U!Fold(0, s, Append(x, r))
               o == Only(x, OnKey(k))
    <2>1. Append(x, r) \in Seq(Change) /\ o \in Seq(Change)
      BY OnlyType, AppendProperties, Zenon
    <2>2. w = Undone(u, r)
      BY U!FoldAppend, UInductive
    <2>3. Good(u) /\ Visible(u, k) = v(x) /\ quiet(x, u)
      BY <1>2
    <2>4. Only(Append(x, r), OnKey(k)) = IF r \in OnKey(k) THEN Append(o, r) ELSE o
      BY OnlyAppend, Zenon
    <2> HIDE DEF u, w, o
    <2>5. Shows(u, w, r.key, r.before)
      BY <2>2, <2>3, UndoneGood DEF Change
    <2>6. r \in OnKey(k) <=> r.key = k
      BY DEF Change, OnKey
    <2>7. /\ Good(w) /\ Visible(w, k) = IF r.key = k THEN r.before ELSE Visible(u, k)
          /\ w.disk[k] \in {u.disk[k], Visible(u, k)}
      <3>1. /\ Good(w) /\ \A j \in Key : Visible(w, j) = IF j = r.key THEN r.before ELSE Visible(u, j)
            /\ \A j \in Key : w.disk[j] \in {u.disk[j], Visible(u, j)}
        BY <2>5 DEF Shows
      <3> QED BY <3>1
    <2>8. CASE r.key = k
      <3>1. v(Append(x, r)) = Restored(Append(o, r), Visible(s, k))
        BY <2>4, <2>6, <2>8
      <3>2. o \in Seq(Record) /\ r \in Record
        <4>1. Change \subseteq Record
          BY DEF Change, DataRecord
        <4> QED BY <2>1, <4>1
      <3>3. v(Append(x, r)) = r.before
        BY <3>1, <3>2, LatestIsLast
      <3>4. quiet(Append(x, r), w)
        <4>1. Only(Append(x, r), OnKey(k)) # <<>>
          BY <2>1, <2>4, <2>6, <2>8
        <4> QED BY <4>1
      <3> HIDE DEF v, quiet
      <3> QED BY <2>1, <2>7, <2>8, <3>3, <3>4 DEF w
    <2>9. CASE r.key # k
      <3>1. v(Append(x, r)) = v(x)
        BY <2>4, <2>6, <2>9 DEF o
      <3>2. quiet(Append(x, r), w)
        BY <2>3, <2>4, <2>6, <2>7, <2>9 DEF o
      <3> HIDE DEF v, quiet
      <3> QED BY <2>1, <2>3, <2>7, <2>9, <3>1, <3>2 DEF w
    <2> QED BY <2>8, <2>9
  <1> HIDE DEF I
  <1>3. Seq(Change) \subseteq I
    BY <1>1, <1>2, F!SequenceInduction, FInductive
  <1>4. records \in I
    BY <1>3
  <1> QED BY <1>4, UndoneAllIsFold DEF I

--------------------------------------------------------------------------------
(* The end of the log, after the last checkpoint, as the log grows.          *)

\* The transactions that the last checkpoint names.
Named(log) == IF LastCheckpoint(log) = 0 THEN {} ELSE log[LastCheckpoint(log)].ongoing

Uncut(records) == \A i \in DOMAIN records : records[i].action # "checkpoint"

\* A log with more records and no checkpoint among them, index by index ...
LEMMA LongerLog ==
  ASSUME NEW log \in Seq(Record), NEW more \in Seq(Record), NEW whole \in Seq(Record), Uncut(more),
         Len(whole) = Len(log) + Len(more),
         \A i \in 1 .. Len(log) : whole[i] = log[i],
         \A i \in 1 .. Len(more) : whole[Len(log) + i] = more[i]
  PROVE  /\ LastCheckpoint(whole) = LastCheckpoint(log) /\ Named(whole) = Named(log)
         /\ Len(After(whole)) = Len(After(log)) + Len(more)
         /\ \A i \in 1 .. Len(After(log)) : After(whole)[i] = After(log)[i]
         /\ \A i \in 1 .. Len(more) : After(whole)[Len(After(log)) + i] = more[i]
  <1> DEFINE l == LastCheckpoint(log)
             p == LastCheckpoint(whole)
             n == Len(log)
             m == Len(more)
             a == After(log)
             b == After(whole)
  <1>1. /\ DOMAIN log = 1 .. n /\ n \in Nat /\ DOMAIN more = 1 .. m /\ m \in Nat
        /\ DOMAIN whole = 1 .. n + m
    OBVIOUS
  <1>2. /\ l \in 0 .. n /\ (l # 0 => log[l].action = "checkpoint")
        /\ \A i \in 1 .. n : log[i].action = "checkpoint" => i <= l /\ l # 0
    BY <1>1, LastCheckpointPlace
  <1>3. /\ p \in 0 .. n + m /\ (p # 0 => whole[p].action = "checkpoint")
        /\ \A i \in 1 .. n + m : whole[i].action = "checkpoint" => i <= p /\ p # 0
    BY <1>1, LastCheckpointPlace
  <1>4. /\ a \in Seq(Record) /\ Len(a) = n - l /\ \A i \in 1 .. n - l : a[i] = log[l + i]
    BY AfterType
  <1>5. /\ b \in Seq(Record) /\ Len(b) = (n + m) - p /\ \A i \in 1 .. (n + m) - p : b[i] = whole[p + i]
    <2>1. /\ b \in Seq(Record) /\ Len(b) = Len(whole) - p
          /\ \A i \in 1 .. Len(whole) - p : b[i] = whole[p + i]
      BY AfterType
    <2>2. Len(whole) = n + m
      OBVIOUS
    <2> HIDE DEF b, p, n, m
    <2> QED BY <2>1, <2>2, Zenon
  <1> HIDE DEF l, p, a, b
  <1>6. p <= l
    <2>1. CASE p = 0
      BY <1>2, <2>1
    <2>2. CASE p # 0 /\ p > n
      <3>1. p - n \in 1 .. m /\ n + (p - n) = p
        BY <1>1, <1>3, <2>2
      <3>2. whole[p] = more[p - n]
        BY <3>1
      <3> QED BY <1>1, <1>3, <2>2, <3>1, <3>2 DEF Uncut
    <2>3. CASE p # 0 /\ p <= n
      <3>1. p \in 1 .. n
        BY <1>1, <1>3, <2>3
      <3> QED BY <1>2, <1>3, <3>1
    <2> QED BY <1>1, <1>3, <2>1, <2>2, <2>3
  <1>7. l <= p
    <2>1. CASE l # 0
      <3>1. l \in 1 .. n /\ l \in 1 .. n + m
        BY <1>1, <1>2, <2>1
      <3> QED BY <1>2, <1>3, <3>1
    <2> QED BY <1>3, <2>1
  <1>8. p = l
    BY <1>1, <1>2, <1>3, <1>6, <1>7
  <1>9. Named(whole) = Named(log)
    BY <1>1, <1>2, <1>8 DEF Named, l, p
  <1>10. Len(b) = Len(a) + m
    BY <1>1, <1>2, <1>4, <1>5, <1>8
  <1>11. \A i \in 1 .. Len(a) : b[i] = a[i]
    <2> TAKE i \in 1 .. Len(a)
    <2>1. i \in 1 .. n - l /\ i \in 1 .. (n + m) - p /\ p + i \in 1 .. n
      BY <1>1, <1>2, <1>4, <1>8
    <2> QED BY <1>4, <1>5, <1>8, <2>1
  <1>12. \A i \in 1 .. m : b[Len(a) + i] = more[i]
    <2> TAKE i \in 1 .. m
    <2>1. Len(a) + i \in 1 .. (n + m) - p /\ p + (Len(a) + i) = n + i
      BY <1>1, <1>2, <1>4, <1>8
    <2>2. b[Len(a) + i] = whole[p + (Len(a) + i)]
      BY <1>5, <2>1
    <2> QED BY <2>1, <2>2
  <1> QED BY <1>8, <1>9, <1>10, <1>11, <1>12 DEF l, p, a, b

\* ... and as a concatenation.
LEMMA AfterConcat ==
  ASSUME NEW log \in Seq(Record), NEW more \in Seq(Record), Uncut(more)
  PROVE  After(log \o more) = After(log) \o more /\ Named(log \o more) = Named(log)
  <1> DEFINE w == log \o more
             a == After(log)
             b == After(w)
             c == a \o more
  <1>1. /\ w \in Seq(Record) /\ Len(w) = Len(log) + Len(more)
        /\ \A i \in 1 .. Len(log) : w[i] = log[i]
        /\ \A i \in 1 .. Len(more) : w[Len(log) + i] = more[i]
    BY ConcatProperties
  <1>2. a \in Seq(Record)
    BY AfterType
  <1>3. /\ c \in Seq(Record) /\ Len(c) = Len(a) + Len(more)
        /\ \A i \in 1 .. Len(a) : c[i] = a[i]
        /\ \A i \in 1 .. Len(more) : c[Len(a) + i] = more[i]
    BY <1>2, ConcatProperties
  <1> HIDE DEF w, c
  <1>4. b \in Seq(Record)
    BY <1>1, AfterType
  <1>5. /\ Named(w) = Named(log) /\ Len(b) = Len(a) + Len(more)
        /\ \A i \in 1 .. Len(a) : b[i] = a[i]
        /\ \A i \in 1 .. Len(more) : b[Len(a) + i] = more[i]
    BY <1>1, LongerLog
  <1> HIDE DEF a, b
  <1>6. \A i \in 1 .. Len(c) : b[i] = c[i]
    <2> TAKE i \in 1 .. Len(c)
    <2>1. CASE i \in 1 .. Len(a)
      BY <1>3, <1>5, <2>1
    <2>2. CASE i \notin 1 .. Len(a)
      <3>1. i - Len(a) \in 1 .. Len(more) /\ Len(a) + (i - Len(a)) = i
        BY <1>2, <1>3, <2>2
      <3> QED BY <1>3, <1>5, <3>1
    <2> QED BY <2>1, <2>2
  <1>7. b = c
    <2>1. Len(b) = Len(c)
      BY <1>3, <1>5
    <2> QED BY <1>3, <1>4, <1>6, <2>1
  <1> QED BY <1>5, <1>7 DEF w, a, b, c

\* The empty log.
LEMMA AfterNothing ==
  /\ After(<<>>) = <<>> /\ Named(<<>>) = {} /\ <<>> \in Seq(Record)
  <1> DEFINE e == <<>>
  <1>1. e \in Seq(Record) /\ Len(e) = 0
    OBVIOUS
  <1> HIDE DEF e
  <1>2. LastCheckpoint(e) \in 0 .. Len(e)
    BY <1>1, LastCheckpointPlace
  <1>3. LastCheckpoint(e) = 0
    BY <1>1, <1>2
  <1>4. After(e) \in Seq(Record) /\ Len(After(e)) = Len(e) - LastCheckpoint(e)
    BY <1>1, AfterType
  <1>5. Len(After(e)) = 0
    BY <1>1, <1>3, <1>4
  <1>6. \A q \in Seq(Record) : Len(q) = 0 => q = <<>>
    OBVIOUS
  <1> QED BY <1>1, <1>3, <1>4, <1>5, <1>6 DEF e, Named

\* A log that ends in a checkpoint.
LEMMA EndsInCheckpoint ==
  ASSUME NEW w \in Seq(Record), Len(w) > 0, w[Len(w)].action = "checkpoint"
  PROVE  After(w) = <<>> /\ Named(w) = w[Len(w)].ongoing
  <1> DEFINE n == Len(w)
  <1>1. n \in Nat /\ DOMAIN w = 1 .. n /\ n \in DOMAIN w
    OBVIOUS
  <1>2. /\ LastCheckpoint(w) \in 0 .. n
        /\ \A i \in DOMAIN w : w[i].action = "checkpoint" => i <= LastCheckpoint(w)
    BY LastCheckpointPlace
  <1>3. LastCheckpoint(w) = n
    <2>1. n <= LastCheckpoint(w)
      BY <1>1, <1>2
    <2> QED BY <1>1, <1>2, <2>1
  <1>4. After(w) \in Seq(Record) /\ Len(After(w)) = n - LastCheckpoint(w)
    BY AfterType
  <1>5. Len(After(w)) = 0
    BY <1>1, <1>3, <1>4
  <1>6. \A q \in Seq(Record) : Len(q) = 0 => q = <<>>
    OBVIOUS
  <1>7. Named(w) = w[n].ongoing
    BY <1>1, <1>3 DEF Named
  <1> QED BY <1>4, <1>5, <1>6, <1>7

\* A checkpoint starts anew.
LEMMA AfterCheckpoint ==
  ASSUME NEW log \in Seq(Record), NEW r \in Record, r.action = "checkpoint"
  PROVE  After(Append(log, r)) = <<>> /\ Named(Append(log, r)) = r.ongoing
  <1> DEFINE w == Append(log, r)
  <1>1. w \in Seq(Record) /\ Len(w) = Len(log) + 1 /\ w[Len(w)] = r /\ Len(w) > 0
    OBVIOUS
  <1> HIDE DEF w
  <1>2. After(w) = <<>> /\ Named(w) = r.ongoing
    BY <1>1, EndsInCheckpoint
  <1> QED BY <1>2 DEF w

\* The end of a log, and the part before it, which ends in a checkpoint if it is
\* not empty.
LEMMA AfterIsTheEnd ==
  ASSUME NEW log \in Seq(Record)
  PROVE  /\ Uncut(After(log))
         /\ \E q \in Seq(Record) :
              /\ log = q \o After(log)
              /\ \/ q = <<>> /\ Named(log) = {}
                 \/ \E x \in Seq(Record), r \in Record :
                      q = Append(x, r) /\ r.action = "checkpoint" /\ Named(log) = r.ongoing
                      /\ \E i \in DOMAIN log : log[i] = r
  <1> DEFINE l == LastCheckpoint(log)
             n == Len(log)
             a == After(log)
  <1>1. /\ l \in 0 .. n /\ n \in Nat /\ DOMAIN log = 1 .. n
        /\ l # 0 => log[l].action = "checkpoint"
        /\ \A i \in 1 .. n : log[i].action = "checkpoint" => i <= l
    BY LastCheckpointPlace
  <1>2. /\ a \in Seq(Record) /\ Len(a) = n - l /\ \A i \in 1 .. n - l : a[i] = log[l + i]
    BY AfterType
  <1> HIDE DEF a, l
  <1>3. Uncut(a)
    <2> SUFFICES ASSUME NEW i \in DOMAIN a, a[i].action = "checkpoint" PROVE FALSE
      BY DEF Uncut
    <2>1. i \in 1 .. n - l /\ l + i \in 1 .. n
      BY <1>1, <1>2
    <2>2. l + i <= l
      BY <1>1, <1>2, <2>1
    <2> QED BY <1>1, <2>1, <2>2
  <1>4. CASE l = 0
    <2>1. log = <<>> \o a
      <3>1. Len(a) = Len(log) /\ \A i \in 1 .. Len(log) : a[i] = log[i]
        BY <1>1, <1>2, <1>4
      <3>2. a = log
        BY <1>2, <3>1
      <3>3. \A q \in Seq(Record) : <<>> \o q = q
        OBVIOUS
      <3> QED BY <1>2, <3>2, <3>3
    <2>2. Named(log) = {} /\ <<>> \in Seq(Record)
      BY <1>4 DEF Named, l
    <2> QED BY <1>3, <2>1, <2>2, Zenon DEF a
  <1>5. CASE l # 0
    <2> DEFINE x == SubSeq(log, 1, l - 1)
               r == log[l]
               q == Append(x, r)
    <2>1. /\ x \in Seq(Record) /\ Len(x) = l - 1 /\ \A i \in 1 .. l - 1 : x[i] = log[i]
      <3>1. l - 1 \in 0 .. n /\ \A i \in 1 .. l - 1 : log[i] \in Record
        BY <1>1, <1>5
      <3>2. /\ x \in Seq(Record) /\ Len(x) = (IF 1 <= l - 1 THEN (l - 1) - 1 + 1 ELSE 0)
            /\ \A i \in 1 .. (l - 1) - 1 + 1 : x[i] = log[1 + i - 1]
        BY <3>1, SubSeqProperties
      <3> HIDE DEF x
      <3> QED BY <1>1, <1>5, <3>1, <3>2
    <2>2. r \in Record /\ l \in 1 .. n
      BY <1>1, <1>5
    <2> HIDE DEF x, r
    <2>3. /\ q \in Seq(Record) /\ Len(q) = l /\ q[l] = r /\ \A i \in 1 .. l - 1 : q[i] = x[i]
      BY <2>1, <2>2
    <2> HIDE DEF q
    <2> DEFINE c == q \o a
    <2>4. /\ c \in Seq(Record) /\ Len(c) = l + (n - l)
          /\ \A i \in 1 .. l : c[i] = q[i]
          /\ \A i \in 1 .. n - l : c[l + i] = a[i]
      <3>1. /\ c \in Seq(Record) /\ Len(c) = Len(q) + Len(a)
            /\ \A i \in 1 .. Len(q) : c[i] = q[i]
            /\ \A i \in 1 .. Len(a) : c[Len(q) + i] = a[i]
        <4>1. q \in Seq(Record) /\ a \in Seq(Record)
          BY <1>2, <2>3
        <4> QED BY <4>1, ConcatProperties
      <3> HIDE DEF c
      <3> QED BY <1>2, <2>3, <3>1
    <2> HIDE DEF c
    <2>5. \A i \in 1 .. n : c[i] = log[i]
      <3> TAKE i \in 1 .. n
      <3>1. CASE i < l
        BY <1>1, <2>1, <2>2, <2>3, <2>4, <3>1
      <3>2. CASE i = l
        BY <1>1, <2>2, <2>3, <2>4, <3>2 DEF r
      <3>3. CASE i > l
        <4>1. i - l \in 1 .. n - l /\ l + (i - l) = i
          BY <1>1, <2>2, <3>3
        <4> QED BY <1>2, <2>4, <4>1
      <3> QED BY <1>1, <3>1, <3>2, <3>3
    <2>6. log = c
      <3>1. Len(c) = n
        BY <1>1, <2>4
      <3> QED BY <2>4, <2>5, <3>1
    <2>7. r.action = "checkpoint" /\ Named(log) = r.ongoing /\ \E i \in DOMAIN log : log[i] = r
      BY <1>1, <1>5, <2>2 DEF Named, l, r
    <2> QED BY <1>3, <2>1, <2>2, <2>3, <2>6, <2>7 DEF a, c, q
  <1> QED BY <1>4, <1>5

\* What a choice that has the checkpoints leaves after the last of them.
LEMMA AfterOnly ==
  ASSUME NEW log \in Seq(Record), NEW T,
         \A i \in DOMAIN log : log[i].action = "checkpoint" => log[i] \in T
  PROVE  After(Only(log, T)) = Only(After(log), T) /\ Named(Only(log, T)) = Named(log)
  <1> DEFINE a == After(log)
             b == Only(a, T)
  <1>1. a \in Seq(Record) /\ Uncut(a)
    BY AfterType, AfterIsTheEnd
  <1>2. b \in Seq(Record) /\ Uncut(b)
    <2>1. b \in Seq(Record) /\ ToSet(b) = ToSet(a) \cap T
      BY <1>1, OnlyType, OnlyRange, Zenon
    <2> HIDE DEF a, b
    <2>2. \A i \in DOMAIN b : b[i] \in ToSet(a)
      BY <2>1 DEF ToSet
    <2> QED BY <1>1, <2>1, <2>2 DEF ToSet, Uncut
  <1>3. PICK q \in Seq(Record) :
           /\ log = q \o a
           /\ \/ q = <<>> /\ Named(log) = {}
              \/ \E x \in Seq(Record), r \in Record :
                   q = Append(x, r) /\ r.action = "checkpoint" /\ Named(log) = r.ongoing
                   /\ \E i \in DOMAIN log : log[i] = r
    BY AfterIsTheEnd
  <1> HIDE DEF a, b
  <1>4. /\ Only(q, T) \in Seq(Record) /\ After(Only(q, T)) = <<>>
        /\ Named(Only(q, T)) = Named(log)
    <2>1. CASE q = <<>> /\ Named(log) = {}
      <3>1. Only(q, T) = <<>>
        BY <2>1, OnlyEmpty, Zenon
      <3> QED BY <2>1, <3>1, AfterNothing, Zenon
    <2>2. ASSUME NEW x \in Seq(Record), NEW r \in Record, q = Append(x, r), r.action = "checkpoint",
                 Named(log) = r.ongoing, \E i \in DOMAIN log : log[i] = r
          PROVE  /\ Only(q, T) \in Seq(Record) /\ After(Only(q, T)) = <<>>
                 /\ Named(Only(q, T)) = Named(log)
      <3>1. r \in T
        BY <2>2
      <3>0. Only(x, T) \in Seq(Record) /\ Only(q, T) \in Seq(Record)
        BY OnlyType, Zenon
      <3>4. Only(Append(x, r), T) = IF r \in T THEN Append(Only(x, T), r) ELSE Only(x, T)
        BY OnlyAppend, Zenon
      <3>2. Only(q, T) = Append(Only(x, T), r) /\ Only(x, T) \in Seq(Record) /\ Only(q, T) \in Seq(Record)
        BY <2>2, <3>0, <3>1, <3>4, Zenon
      <3>3. After(Append(Only(x, T), r)) = <<>> /\ Named(Append(Only(x, T), r)) = r.ongoing
        BY <2>2, <3>2, AfterCheckpoint, Zenon
      <3> QED BY <2>2, <3>2, <3>3, Zenon
    <2> QED BY <1>3, <2>1, <2>2
  <1>5. Only(q \o a, T) = Only(q, T) \o b
    <2>1. \A x, y \in Seq(Record) : Only(x \o y, T) = Only(x, T) \o Only(y, T)
      BY OnlyConcat
    <2> QED BY <1>1, <2>1, Zenon DEF b
  <1>6. /\ After(Only(q, T) \o b) = After(Only(q, T)) \o b
        /\ Named(Only(q, T) \o b) = Named(Only(q, T))
    BY <1>2, <1>4, AfterConcat, Zenon
  <1>7. <<>> \o b = b
    <2>1. \A x \in Seq(Record) : <<>> \o x = x
      OBVIOUS
    <2> QED BY <1>2, <2>1, Zenon
  <1> QED BY <1>3, <1>4, <1>5, <1>6, <1>7, Zenon DEF a, b

--------------------------------------------------------------------------------
(* What recovery reads in the log, with the transactions at place p: which   *)
(* transactions it leaves out and which it undoes, and what it does to a key.*)

\* The transactions whose operations are not redone, a rollback that has not
\* ended aside; those that are undone.
Aborted(log, p) == {t \in With(After(log), "abort") : p[t] \notin Undoing}
Pending(log, p) ==
  (Named(log) \cup With(After(log), "start")) \ (With(After(log), "commit") \cup Aborted(log, p))

\* The records of k: of t, and to redo when the transactions in A are left out.
OnKeyOf(t, k) == {r \in OnKey(k) : r.tx = t}
UndoOn(log, t, k) == Only(log, OnKeyOf(t, k))
Wrote(log, t, k) == UndoOn(log, t, k) # <<>>
RedoSet(A, k) == {r \in OnKey(k) : r.tx \notin A}
RedoOf(log, A, k) == Only(After(log), RedoSet(A, k))

\* A log of updates.
OnlyUpdates(log) ==
  \A i \in DOMAIN log : log[i].action \in Data =>
    log[i].action = "update" /\ log[i].before \in Row /\ log[i].after \in Row

\* Records that begin and end transactions, or answer an undo.
Quiet(records) == \A i \in DOMAIN records : records[i].action \notin Data \cup {"checkpoint"}

\* Records of a log, by their index or as a set.
LEMMA InLog ==
  ASSUME NEW log \in Seq(Record)
  PROVE  /\ ToSet(log) \subseteq Record /\ log \in Seq(ToSet(log))
         /\ \A i \in DOMAIN log : log[i] \in ToSet(log)
         /\ \A r \in ToSet(log) : \E i \in DOMAIN log : log[i] = r
         /\ ToSet(After(log)) \subseteq ToSet(log)
         /\ \A r \in Record : r \in DataRecord <=> r.action \in Data
  <1>1. After(log) \in Seq(Record) /\ Len(After(log)) = Len(log) - LastCheckpoint(log)
        /\ \A i \in 1 .. Len(log) - LastCheckpoint(log) : After(log)[i] = log[LastCheckpoint(log) + i]
        /\ LastCheckpoint(log) \in 0 .. Len(log)
    BY AfterType, LastCheckpointPlace
  <1> DEFINE a == After(log)
             l == LastCheckpoint(log)
  <1> HIDE DEF a, l
  <1>2. \A i \in DOMAIN a : \E j \in DOMAIN log : a[i] = log[j]
    <2> TAKE i \in DOMAIN a
    <2>1. i \in 1 .. Len(log) - l /\ l + i \in DOMAIN log
      BY <1>1 DEF a, l
    <2> QED BY <1>1, <2>1 DEF a, l
  <1>3. ToSet(a) \subseteq ToSet(log)
    BY <1>2 DEF ToSet
  <1> QED BY <1>3 DEF a, ToSet, DataRecord

\* Who is named with an action in a longer log.
LEMMA WithConcat ==
  ASSUME NEW x \in Seq(Record), NEW y \in Seq(Record), NEW a
  PROVE  With(x \o y, a) = With(x, a) \cup With(y, a)
  <1> DEFINE w == x \o y
  <1>1. /\ w \in Seq(Record) /\ Len(w) = Len(x) + Len(y)
        /\ \A i \in 1 .. Len(x) : w[i] = x[i]
        /\ \A i \in 1 .. Len(y) : w[Len(x) + i] = y[i]
    BY ConcatProperties
  <1> HIDE DEF w
  <1>2. \A i \in DOMAIN w : (\E j \in DOMAIN x : w[i] = x[j]) \/ (\E j \in DOMAIN y : w[i] = y[j])
    <2> TAKE i \in DOMAIN w
    <2>1. CASE i \in 1 .. Len(x)
      BY <1>1, <2>1
    <2>2. CASE i \notin 1 .. Len(x)
      <3>1. i - Len(x) \in 1 .. Len(y) /\ Len(x) + (i - Len(x)) = i
        BY <1>1, <2>2
      <3> QED BY <1>1, <3>1
    <2> QED BY <2>1, <2>2
  <1>3. /\ \A j \in DOMAIN x : \E i \in DOMAIN w : w[i] = x[j]
        /\ \A j \in DOMAIN y : \E i \in DOMAIN w : w[i] = y[j]
    <2>1. \A j \in DOMAIN x : j \in DOMAIN w /\ w[j] = x[j]
      BY <1>1
    <2>2. \A j \in DOMAIN y : Len(x) + j \in DOMAIN w /\ w[Len(x) + j] = y[j]
      BY <1>1
    <2> QED BY <2>1, <2>2
  <1>4. ToSet(w) = ToSet(x) \cup ToSet(y)
    BY <1>2, <1>3 DEF ToSet
  <1> QED BY <1>4 DEF With, w

\* Records without operations and checkpoints change nobody's redo or undo.
LEMMA QuietRecords ==
  ASSUME NEW log \in Seq(Record), NEW more \in Seq(Record), Quiet(more)
  PROVE  /\ Named(log \o more) = Named(log)
         /\ \A a : With(After(log \o more), a) = With(After(log), a) \cup With(more, a)
         /\ \A A, k : RedoOf(log \o more, A, k) = RedoOf(log, A, k)
         /\ \A t, k : UndoOn(log \o more, t, k) = UndoOn(log, t, k)
         /\ OnlyUpdates(log) => OnlyUpdates(log \o more)
         /\ log \o more \in Seq(Record)
  <1>1. After(log \o more) = After(log) \o more /\ Named(log \o more) = Named(log)
    <2>1. Uncut(more)
      BY DEF Quiet, Uncut
    <2> QED BY <2>1, AfterConcat
  <1>2. After(log) \in Seq(Record)
    BY AfterType
  <1>3. \A a : With(After(log \o more), a) = With(After(log), a) \cup With(more, a)
    BY <1>1, <1>2, WithConcat
  <1>4. ASSUME NEW x \in Seq(Record), NEW S, S \subseteq DataRecord
        PROVE  Only(x \o more, S) = Only(x, S)
    <2> DEFINE E == ToSet(more)
    <2>1. more \in Seq(E) /\ \A e \in E : e \notin S
      <3>1. more \in Seq(E) /\ \A e \in E : \E i \in DOMAIN more : more[i] = e
        BY InLog
      <3> HIDE DEF E
      <3> QED BY <1>4, <3>1 DEF Quiet, DataRecord
    <2> HIDE DEF E
    <2>2. Only(more, S) = <<>>
      BY <2>1, OnlyNone, Zenon
    <2>3. Only(x \o more, S) = Only(x, S) \o Only(more, S)
      BY OnlyConcat
    <2>4. \A q \in Seq(Record) : q \o <<>> = q
      OBVIOUS
    <2>5. Only(x, S) \in Seq(Record)
      BY OnlyType, Zenon
    <2> QED BY <2>2, <2>3, <2>4, <2>5, Zenon
  <1>5. \A A, k : RedoSet(A, k) \subseteq DataRecord
    BY DEF RedoSet, OnKey
  <1>6. \A t, k : OnKeyOf(t, k) \subseteq DataRecord
    BY DEF OnKeyOf, OnKey
  <1>7. \A A, k : RedoOf(log \o more, A, k) = RedoOf(log, A, k)
    BY <1>1, <1>2, <1>4, <1>5, Zenon DEF RedoOf
  <1>8. \A t, k : UndoOn(log \o more, t, k) = UndoOn(log, t, k)
    BY <1>4, <1>6, Zenon DEF UndoOn
  <1>9. ASSUME OnlyUpdates(log)
        PROVE  OnlyUpdates(log \o more)
    <2> DEFINE w == log \o more
    <2>1. /\ w \in Seq(Record) /\ Len(w) = Len(log) + Len(more)
          /\ \A i \in 1 .. Len(log) : w[i] = log[i]
          /\ \A i \in 1 .. Len(more) : w[Len(log) + i] = more[i]
      BY ConcatProperties
    <2> HIDE DEF w
    <2>2. \A i \in DOMAIN w : w[i].action \in Data => i \in DOMAIN log
      <3> SUFFICES ASSUME NEW i \in DOMAIN w, i \notin DOMAIN log PROVE w[i].action \notin Data
        OBVIOUS
      <3>1. i - Len(log) \in 1 .. Len(more) /\ Len(log) + (i - Len(log)) = i
        BY <2>1
      <3> QED BY <2>1, <3>1 DEF Quiet
    <2>3. \A i \in DOMAIN log : w[i] = log[i]
      BY <2>1
    <2>4. OnlyUpdates(w)
      BY <1>9, <2>2, <2>3 DEF OnlyUpdates
    <2> QED BY <2>4 DEF w
  <1>10. log \o more \in Seq(Record)
    BY ConcatProperties
  <1> QED BY <1>1, <1>3, <1>7, <1>8, <1>9, <1>10

\* One that begins or ends a transaction.
LEMMA LifecycleAppended ==
  ASSUME NEW log \in Seq(Record), NEW t \in Tx, NEW b \in {"start", "commit", "abort"}
  PROVE  LET w == Append(log, Lifecycle(b, t))
         IN /\ Named(w) = Named(log)
            /\ \A a : With(After(w), a) = With(After(log), a) \cup (IF a = b THEN {t} ELSE {})
            /\ \A A, k : RedoOf(w, A, k) = RedoOf(log, A, k)
            /\ \A u, k : UndoOn(w, u, k) = UndoOn(log, u, k)
            /\ OnlyUpdates(log) => OnlyUpdates(w)
  <1> DEFINE r == Lifecycle(b, t)
             m == <<r>>
             w == Append(log, r)
  <1>1. r \in Record /\ r.action = b /\ r.tx = t
    BY LifecycleType
  <1> HIDE DEF r
  <1>2. m \in Seq(Record) /\ ToSet(m) = {r} /\ w = log \o m /\ \A i \in DOMAIN m : m[i] = r
    BY <1>1 DEF ToSet
  <1> HIDE DEF m, w
  <1>3. Quiet(m)
    BY <1>1, <1>2 DEF Quiet, Data
  <1>4. \A a : With(m, a) = IF a = b THEN {t} ELSE {}
    BY <1>1, <1>2 DEF With
  <1>5. /\ Named(w) = Named(log)
        /\ \A a : With(After(w), a) = With(After(log), a) \cup With(m, a)
        /\ \A A, k : RedoOf(w, A, k) = RedoOf(log, A, k)
        /\ \A u, k : UndoOn(w, u, k) = UndoOn(log, u, k)
        /\ OnlyUpdates(log) => OnlyUpdates(w)
    <2>1. /\ Named(log \o m) = Named(log)
          /\ \A a : With(After(log \o m), a) = With(After(log), a) \cup With(m, a)
          /\ \A A, k : RedoOf(log \o m, A, k) = RedoOf(log, A, k)
          /\ \A u, k : UndoOn(log \o m, u, k) = UndoOn(log, u, k)
          /\ OnlyUpdates(log) => OnlyUpdates(log \o m)
      BY <1>2, <1>3, QuietRecords
    <2> QED BY <1>2, <2>1, Zenon
  <1>6. \A a : With(After(w), a) = With(After(log), a) \cup (IF a = b THEN {t} ELSE {})
    BY <1>4, <1>5, Zenon
  <1> QED BY <1>5, <1>6 DEF w, r

\* One of an operation.
LEMMA OperationAppended ==
  ASSUME NEW log \in Seq(Record), NEW r \in Change, r.before \in Row, r.after \in Row
  PROVE  LET w == Append(log, r)
         IN /\ Named(w) = Named(log)
            /\ \A a \in {"start", "commit", "abort"} : With(After(w), a) = With(After(log), a)
            /\ \A A, k : RedoOf(w, A, k) = IF r.key = k /\ r.tx \notin A
                                             THEN Append(RedoOf(log, A, k), r) ELSE RedoOf(log, A, k)
            /\ \A u, k : UndoOn(w, u, k) = IF r.key = k /\ r.tx = u
                                             THEN Append(UndoOn(log, u, k), r) ELSE UndoOn(log, u, k)
            /\ OnlyUpdates(log) => OnlyUpdates(w)
  <1> DEFINE m == <<r>>
             w == Append(log, r)
  <1>1. r \in Record /\ r \in DataRecord /\ r.action = "update"
    BY DEF Change, DataRecord
  <1>2. m \in Seq(Record) /\ ToSet(m) = {r} /\ w = log \o m /\ \A i \in DOMAIN m : m[i] = r
    BY <1>1 DEF ToSet
  <1>3. After(log) \o m = Append(After(log), r)
    <2>1. \A q \in Seq(Record) : q \o <<r>> = Append(q, r)
      BY <1>1
    <2> QED BY <2>1, AfterType
  <1> HIDE DEF m, w
  <1>4. Uncut(m)
    BY <1>1, <1>2 DEF Uncut
  <1>5. After(w) = After(log) \o m /\ Named(w) = Named(log) /\ After(log) \in Seq(Record)
    BY <1>2, <1>4, AfterConcat, AfterType, Zenon
  <1>6. \A a \in {"start", "commit", "abort"} : With(After(w), a) = With(After(log), a)
    <2>1. \A a \in {"start", "commit", "abort"} : With(m, a) = {}
      BY <1>1, <1>2 DEF With
    <2>2. \A a : With(After(log) \o m, a) = With(After(log), a) \cup With(m, a)
      BY <1>2, <1>5, WithConcat
    <2> QED BY <1>5, <2>1, <2>2
  <1>7. ASSUME NEW q \in Seq(Record), NEW S
        PROVE  Only(Append(q, r), S) = IF r \in S THEN Append(Only(q, S), r) ELSE Only(q, S)
    BY <1>1, OnlyAppend, Zenon
  <1>8. \A A, k : r \in RedoSet(A, k) <=> r.key = k /\ r.tx \notin A
    BY <1>1 DEF RedoSet, OnKey
  <1>9. \A u, k : r \in OnKeyOf(u, k) <=> r.key = k /\ r.tx = u
    BY <1>1 DEF OnKeyOf, OnKey
  <1>10. \A A, k : RedoOf(w, A, k) = IF r.key = k /\ r.tx \notin A
                                       THEN Append(RedoOf(log, A, k), r) ELSE RedoOf(log, A, k)
    <2> TAKE A, k
    <2>1. RedoOf(w, A, k) = IF r \in RedoSet(A, k) THEN Append(RedoOf(log, A, k), r) ELSE RedoOf(log, A, k)
      <3>1. Only(Append(After(log), r), RedoSet(A, k))
              = IF r \in RedoSet(A, k) THEN Append(Only(After(log), RedoSet(A, k)), r)
                                       ELSE Only(After(log), RedoSet(A, k))
        BY <1>5, <1>7, Zenon
      <3>2. After(w) = Append(After(log), r)
        BY <1>3, <1>5, Zenon
      <3> QED BY <3>1, <3>2, Zenon DEF RedoOf
    <2> QED BY <1>8, <2>1, Zenon
  <1>11. \A u, k : UndoOn(w, u, k) = IF r.key = k /\ r.tx = u
                                       THEN Append(UndoOn(log, u, k), r) ELSE UndoOn(log, u, k)
    <2> TAKE u, k
    <2>1. UndoOn(w, u, k) = IF r \in OnKeyOf(u, k) THEN Append(UndoOn(log, u, k), r) ELSE UndoOn(log, u, k)
      BY <1>7, Zenon DEF UndoOn, w
    <2> QED BY <1>9, <2>1, Zenon
  <1>12. ASSUME OnlyUpdates(log)
         PROVE  OnlyUpdates(w)
    <2>1. /\ DOMAIN w = 1 .. Len(log) + 1 /\ w[Len(log) + 1] = r /\ Len(log) \in Nat
          /\ \A i \in 1 .. Len(log) : w[i] = log[i]
      BY <1>1 DEF w
    <2>2. \A i \in DOMAIN w : i \in DOMAIN log \/ w[i] = r
      BY <2>1
    <2> QED BY <1>1, <1>12, <2>1, <2>2 DEF OnlyUpdates
  <1> QED BY <1>5, <1>6, <1>10, <1>11, <1>12 DEF w

\* A checkpoint.
LEMMA CheckpointAppended ==
  ASSUME NEW log \in Seq(Record), NEW S \in SUBSET Tx
  PROVE  LET w == Append(log, Checkpoint(S))
         IN /\ Named(w) = S /\ After(w) = <<>>
            /\ \A a : With(After(w), a) = {}
            /\ \A A, k : RedoOf(w, A, k) = <<>>
            /\ \A u, k : UndoOn(w, u, k) = UndoOn(log, u, k)
            /\ OnlyUpdates(log) => OnlyUpdates(w)
  <1> DEFINE r == Checkpoint(S)
             w == Append(log, r)
  <1>1. r \in Record /\ r.action = "checkpoint" /\ r.ongoing = S
    BY LifecycleType
  <1> HIDE DEF r
  <1>2. Named(w) = S /\ After(w) = <<>>
    BY <1>1, AfterCheckpoint, Zenon
  <1>3. \A a : With(<<>>, a) = {}
    BY DEF With, ToSet
  <1>4. \A T : Only(<<>>, T) = <<>>
    BY OnlyEmpty, Zenon
  <1>5. r \notin DataRecord
    BY <1>1 DEF DataRecord, Data
  <1>6. \A u, k : UndoOn(w, u, k) = UndoOn(log, u, k)
    <2>1. \A u, k : r \notin OnKeyOf(u, k)
      BY <1>5 DEF OnKeyOf, OnKey
    <2>2. ASSUME NEW T, r \notin T
          PROVE  Only(w, T) = Only(log, T)
      BY <1>1, <2>2, OnlyAppend, Zenon
    <2> QED BY <2>1, <2>2, Zenon DEF UndoOn
  <1>7. ASSUME OnlyUpdates(log)
        PROVE  OnlyUpdates(w)
    <2>1. /\ DOMAIN w = 1 .. Len(log) + 1 /\ w[Len(log) + 1] = r /\ Len(log) \in Nat
          /\ \A i \in 1 .. Len(log) : w[i] = log[i]
      BY <1>1
    <2>2. \A i \in DOMAIN w : i \in DOMAIN log \/ w[i] = r
      BY <2>1
    <2> QED BY <1>1, <1>7, <2>1, <2>2 DEF OnlyUpdates, Data
  <1>8. \A A, k : RedoOf(w, A, k) = <<>>
    BY <1>2, <1>4, Zenon DEF RedoOf
  <1>9. \A a : With(After(w), a) = {}
    BY <1>2, <1>3, Zenon
  <1> HIDE DEF w
  <1> QED BY <1>2, <1>6, <1>7, <1>8, <1>9 DEF w, r

\* The cut of a commit leaves nothing after the checkpoint, if there was nothing.
LEMMA CutEnd ==
  ASSUME NEW log \in Seq(Record), NEW S \in SUBSET Tx, HasCheckpoint(log), After(log) = <<>>
  PROVE  After(Cleared(log, S)) = <<>> /\ Named(Cleared(log, S)) = Named(log)
  <1> DEFINE l == LastCheckpoint(log)
             n == Len(log)
             w == Cleared(log, S)
  <1>1. l \in 1 .. n /\ n \in Nat /\ log[l].action = "checkpoint" /\ DOMAIN log = 1 .. n
    BY LastCheckpointPlace DEF HasCheckpoint
  <1>2. l = n
    <2>1. Len(After(log)) = n - l
      BY AfterType
    <2>2. Len(After(log)) = 0
      OBVIOUS
    <2> HIDE DEF l, n
    <2>3. 0 = n - l
      BY <2>1, <2>2, Zenon
    <2> QED BY <1>1, <2>3
  <1>3. Named(log) = log[n].ongoing
    BY <1>1, <1>2 DEF Named
  <1>4. w \in Seq(Record) /\ Len(w) > 0 /\ w[Len(w)] = log[n]
    <2>1. CASE S = {}
      <3> DEFINE e == SubSeq(log, n, n)
      <3>1. e \in Seq(Record) /\ Len(e) = n - n + 1 /\ \A i \in 1 .. n - n + 1 : e[i] = log[n + i - 1]
        <4>1. \A i \in DOMAIN log : log[i] \in {} => i >= n
          OBVIOUS
        <4>2. n \in 1 .. Len(log)
          BY <1>1
        <4> QED BY <4>1, <4>2, EndOfLog
      <3> HIDE DEF e
      <3>2. Len(e) = 1 /\ e[1] = log[n]
        BY <1>1, <3>1
      <3>3. w = e
        BY <1>2, <2>1 DEF Cleared, e
      <3>4. Len(e) > 0 /\ e[Len(e)] = log[n]
        BY <3>2
      <3> HIDE DEF w
      <3> QED BY <3>1, <3>3, <3>4, Zenon
    <2>2. CASE S # {}
      <3> DEFINE start == SelectInSeq(log, LAMBDA r : r = Lifecycle("start", Smallest(S)))
                 I == {i \in DOMAIN log : i = l \/ (start \in 1 .. i /\ log[i].tx \in S)}
                 k == Kept(log, I)
      <3>1. w = k
        BY <2>2 DEF Cleared, ClearedBeforeOldest
      <3>2. n \in (1 .. Len(log)) \cap I
        BY <1>1, <1>2
      <3> HIDE DEF I, w
      <3>3. k \in Seq(Record)
        BY KeptPlaces
      <3>4. PICK h : PlacesKept(h, k, log, I)
        BY KeptPlaces
      <3> HIDE DEF k
      <3>5. /\ h \in [1 .. Len(k) -> 1 .. n]
            /\ \A i, j \in 1 .. Len(k) : i < j => h[i] < h[j]
            /\ \A i \in 1 .. Len(k) : k[i] = log[h[i]]
            /\ \A j \in (1 .. Len(log)) \cap I : \E i \in 1 .. Len(k) : h[i] = j
        BY <3>4 DEF PlacesKept
      <3>6. PICK i \in 1 .. Len(k) : h[i] = n
        BY <3>2, <3>5
      <3>7. Len(k) \in Nat /\ Len(k) \in 1 .. Len(k)
        BY <3>3, <3>6
      <3>8. i = Len(k)
        <4>1. h[Len(k)] \in 1 .. n
          BY <3>5, <3>7
        <4>2. i < Len(k) => n < h[Len(k)]
          BY <3>5, <3>6, <3>7
        <4> QED BY <1>1, <3>6, <3>7, <4>1, <4>2
      <3>9. Len(k) > 0 /\ k[Len(k)] = log[n]
        BY <3>5, <3>6, <3>7, <3>8
      <3> QED BY <3>1, <3>3, <3>9, Zenon
    <2> QED BY <2>1, <2>2
  <1> HIDE DEF w
  <1>5. After(w) = <<>> /\ Named(w) = w[Len(w)].ongoing
    BY <1>1, <1>2, <1>4, EndsInCheckpoint
  <1> QED BY <1>3, <1>4, <1>5 DEF w

\* A record of t on k shows that t wrote it.
LEMMA WroteSeen ==
  ASSUME NEW log \in Seq(Record), NEW t, NEW k
  PROVE  Wrote(log, t, k) <=> \E r \in ToSet(log) : r \in OnKeyOf(t, k)
  <1> DEFINE q == UndoOn(log, t, k)
  <1>1. q \in Seq(Record) /\ ToSet(q) = ToSet(log) \cap OnKeyOf(t, k)
    BY OnlyType, OnlyRange, Zenon DEF UndoOn
  <1> HIDE DEF q
  <1>2. q # <<>> <=> \E i \in DOMAIN q : TRUE
    BY <1>1
  <1>3. q # <<>> <=> \E r \in ToSet(q) : TRUE
    BY <1>2 DEF ToSet
  <1> QED BY <1>1, <1>3 DEF Wrote, q

\* To leave out those who have not written k makes no difference to k.
LEMMA NotRedone ==
  ASSUME NEW log \in Seq(Record), NEW A, NEW B, NEW k,
         \A t \in (A \ B) \cup (B \ A) : ~Wrote(log, t, k)
  PROVE  RedoOf(log, A, k) = RedoOf(log, B, k)
  <1> DEFINE E == ToSet(After(log))
  <1>1. After(log) \in Seq(E) /\ E \subseteq ToSet(log)
    BY InLog, AfterType
  <1>2. ASSUME NEW e \in E, e \in OnKey(k)
        PROVE  e.tx \in A <=> e.tx \in B
    <2>1. Wrote(log, e.tx, k)
      BY <1>1, <1>2, WroteSeen DEF OnKeyOf
    <2> QED BY <2>1
  <1>3. \A e \in E : e \in RedoSet(A, k) <=> e \in RedoSet(B, k)
    BY <1>2 DEF RedoSet
  <1> HIDE DEF E
  <1>4. Only(After(log), RedoSet(A, k)) = Only(After(log), RedoSet(B, k))
    BY <1>1, <1>3, OnlyCongruent
  <1> QED BY <1>4 DEF RedoOf

\* The oldest of the rows that t has written over.
Oldest(log, t, k) == UndoOn(log, t, k)[1].before

\* Nobody in P, nobody in P but t, has written k.
Unwritten(log, P, k) == \A t \in P : ~Wrote(log, t, k)
OnlyWriter(log, P, t, k) == t \in P /\ Wrote(log, t, k) /\ \A u \in P : Wrote(log, u, k) => u = t

\* The last before image of the reversed records is that of the oldest.
LEMMA ReverseLast ==
  ASSUME NEW q \in Seq(Record), NEW d
  PROVE  /\ q = <<>> => Restored(Reverse(q), d) = d
         /\ q # <<>> => Restored(Reverse(q), d) = q[1].before
  <1> DEFINE r == Reverse(q)
             n == Len(q)
  <1>1. r \in Seq(Record) /\ Len(r) = n /\ n \in Nat /\ \A i \in 1 .. n : r[i] = q[n - i + 1]
    BY ReverseType
  <1> HIDE DEF r
  <1>2. CASE q = <<>>
    <2>1. r = <<>>
      <3>1. Len(r) = 0
        BY <1>1, <1>2
      <3>2. \A x \in Seq(Record) : Len(x) = 0 => x = <<>>
        OBVIOUS
      <3> QED BY <1>1, <3>1, <3>2, Zenon
    <2> QED BY <1>2, <2>1, Zenon DEF Restored, r
  <1>3. CASE q # <<>>
    <2>1. n > 0
      BY <1>3
    <2>2. n \in 1 .. n /\ n - n + 1 = 1 /\ Len(r) > 0
      BY <1>1, <2>1
    <2>3. r[n] = q[1]
      BY <1>1, <2>2
    <2>4. r # <<>>
      <3>1. Len(<<>>) = 0
        OBVIOUS
      <3> QED BY <1>1, <2>1, <3>1
    <2> QED BY <1>1, <1>3, <2>3, <2>4, Zenon DEF Restored, r
  <1> QED BY <1>2, <1>3

\* What recovery makes of a key: the oldest row the one who wrote it and did not
\* finish has written over or, if there is none, the last one redone.
LEMMA RecoveredOn ==
  ASSUME NEW s, Good(s), NEW log \in Seq(Record), OnlyUpdates(log), NEW k \in Key
  PROVE  /\ Good(RedoneUndone(s, log))
         /\ Unwritten(log, Incomplete(log), k) =>
              Visible(RedoneUndone(s, log), k)
                = Latest(RedoOf(log, With(After(log), "abort"), k), Visible(s, k))
         /\ \A t : OnlyWriter(log, Incomplete(log), t, k) =>
              Visible(RedoneUndone(s, log), k) = Oldest(log, t, k)
  <1> DEFINE A == With(After(log), "abort")
             P == Incomplete(log)
             S0 == {r \in Operations(log) : r.tx \notin A}
             S1 == {r \in ToSet(log) : r.tx \in P /\ r.action \in Data \cup {"start"}}
             redo == RedoList(log)
             undo == Only(UndoList(log), Operations(log))
             mid == RedoneAll(s, redo)
             end == UndoneAll(mid, undo)
             S == (S1 \cap Operations(log)) \cap OnKey(k)
  <1>1. Operations(log) \subseteq Change /\ Operations(log) = ToSet(log) \cap DataRecord
    <2>1. \A r \in ToSet(log) : r \in Record /\ (r \in DataRecord <=> r.action \in Data)
      BY InLog
    <2>2. \A r \in ToSet(log) : r.action \in Data => r.action = "update"
      BY InLog DEF OnlyUpdates
    <2> QED BY <2>1, <2>2 DEF Operations, Change
  <1>0. \A X, Y : X \subseteq Y => Seq(X) \subseteq Seq(Y)
    OBVIOUS
  <1>2. redo \in Seq(Change) /\ redo = Only(After(log), S0)
    <2>1. redo = Only(After(log), S0)
      BY DEF RedoList
    <2>2. Only(After(log), S0) \in Seq(Record \cap S0)
      BY AfterType, OnlyType, Zenon
    <2>3. Record \cap S0 \subseteq Change
      BY <1>1
    <2> QED BY <1>0, <2>1, <2>2, <2>3
  <1>3. undo \in Seq(Change)
    <2>1. UndoList(log) \in Seq(DataRecord \cup {r \in Record : r.action = "start"})
      BY SelectionsType
    <2>2. undo \in Seq((DataRecord \cup {r \in Record : r.action = "start"}) \cap Operations(log))
      BY <2>1, OnlyType, Zenon
    <2>3. (DataRecord \cup {r \in Record : r.action = "start"}) \cap Operations(log) \subseteq Change
      BY <1>1
    <2> QED BY <1>0, <2>2, <2>3
  <1>4. Only(redo, OnKey(k)) = RedoOf(log, A, k)
    <2> DEFINE E == ToSet(After(log))
    <2>1. After(log) \in Seq(E) /\ E \subseteq ToSet(log)
      BY InLog, AfterType
    <2>2. Only(redo, OnKey(k)) = Only(After(log), S0 \cap OnKey(k))
      <3>1. Only(Only(After(log), S0), OnKey(k)) = Only(After(log), S0 \cap OnKey(k))
        BY AfterType, OnlyOnly
      <3> QED BY <1>2, <3>1
    <2>3. \A e \in E : e \in S0 \cap OnKey(k) <=> e \in RedoSet(A, k)
      BY <1>1, <2>1 DEF RedoSet, OnKey
    <2> HIDE DEF E, S0
    <2>4. Only(After(log), S0 \cap OnKey(k)) = Only(After(log), RedoSet(A, k))
      BY <2>1, <2>3, OnlyCongruent
    <2> QED BY <2>2, <2>4 DEF RedoOf
  <1>5. Only(undo, OnKey(k)) = Reverse(Only(log, S))
    <2>1. Reverse(log) \in Seq(Record) /\ UndoList(log) = Only(Reverse(log), S1)
      BY SelectionsType DEF UndoList
    <2> HIDE DEF S1
    <2>2. undo = Only(Reverse(log), S1 \cap Operations(log))
      BY <2>1, OnlyOnly
    <2>3. Only(undo, OnKey(k)) = Only(Reverse(log), S)
      BY <2>1, <2>2, OnlyOnly
    <2>4. Only(Reverse(log), S) = Reverse(Only(log, S))
      BY OnlyReverse, Zenon
    <2> QED BY <2>3, <2>4
  <1>6. /\ Good(mid) /\ Visible(mid, k) = Latest(RedoOf(log, A, k), Visible(s, k))
    BY <1>2, <1>4, RedoneShows
  <1>7. /\ Good(end) /\ Visible(end, k) = Restored(Reverse(Only(log, S)), Visible(mid, k))
    <2> HIDE DEF mid, undo
    <2> QED BY <1>3, <1>5, <1>6, UndoneShows
  <1>8. end = RedoneUndone(s, log)
    BY DEF RedoneUndone
  <1>9. ToSet(log) \subseteq Record /\ log \in Seq(ToSet(log))
    BY InLog
  <1>10. \A e \in ToSet(log) : e \in S => e \in OnKeyOf(e.tx, k) /\ e.tx \in P /\ Wrote(log, e.tx, k)
    <2> TAKE e \in ToSet(log)
    <2> HAVE e \in S
    <2>1. e \in OnKeyOf(e.tx, k) /\ e.tx \in P
      BY DEF OnKeyOf
    <2> QED BY <2>1, WroteSeen
  <1>11. ASSUME Unwritten(log, P, k)
         PROVE  Only(log, S) = <<>>
    <2>1. \A e \in ToSet(log) : e \notin S
      BY <1>10, <1>11 DEF Unwritten
    <2> HIDE DEF S
    <2> QED BY <1>9, <2>1, OnlyNone, Zenon
  <1>12. ASSUME NEW t, OnlyWriter(log, P, t, k)
         PROVE  Only(log, S) = UndoOn(log, t, k)
    <2>1. \A e \in ToSet(log) : e \in S => e \in OnKeyOf(t, k)
      BY <1>10, <1>12 DEF OnlyWriter
    <2>2. \A e \in ToSet(log) : e \in OnKeyOf(t, k) => e \in S
      BY <1>1, <1>12 DEF OnlyWriter, OnKeyOf, OnKey, Operations
    <2> HIDE DEF S
    <2>3. Only(log, S) = Only(log, OnKeyOf(t, k))
      BY <1>9, <2>1, <2>2, OnlyCongruent
    <2> QED BY <2>3 DEF UndoOn
  <1>13. Only(log, S) \in Seq(Record)
    BY OnlyType, Zenon
  <1> HIDE DEF A, P, S, mid, end
  <1>14. ASSUME Unwritten(log, P, k)
         PROVE  Visible(end, k) = Latest(RedoOf(log, A, k), Visible(s, k))
    BY <1>6, <1>7, <1>11, <1>13, <1>14, ReverseLast, Zenon
  <1>15. ASSUME NEW t, OnlyWriter(log, P, t, k)
         PROVE  Visible(end, k) = Oldest(log, t, k)
    <2>1. UndoOn(log, t, k) # <<>>
      BY <1>15 DEF OnlyWriter, Wrote
    <2>2. Only(log, S) = UndoOn(log, t, k)
      BY <1>12, <1>15
    <2> QED BY <1>7, <1>13, <2>1, <2>2, ReverseLast, Zenon DEF Oldest
  <1> QED BY <1>7, <1>8, <1>14, <1>15 DEF A, P

\* The disk of the outcome before recovery.
DiskOf(s, p) == IF Flushing(p) THEN Flushed(s).disk ELSE s.disk

\* What disk and log amount to, key by key.
LEMMA OutcomeOn ==
  ASSUME NEW s, Good(s), NEW log \in Seq(Record), OnlyUpdates(log), NEW p, NEW k \in Key
  PROVE  /\ Unwritten(log, Pending(log, p), k) =>
              Outcome(s, log, p)[k] = Latest(RedoOf(log, Aborted(log, p), k), DiskOf(s, p)[k])
         /\ \A t : OnlyWriter(log, Pending(log, p), t, k) => Outcome(s, log, p)[k] = Oldest(log, t, k)
  <1> DEFINE T == {r \in ToSet(log) : ~(r.action = "abort" /\ p[r.tx] \in Undoing)}
             w == Only(log, T)
             d == DiskOf(s, p)
             c == [s EXCEPT !.disk = d, !.buffer = <<>>]
             u == RedoneUndone(c, w)
             A == With(After(w), "abort")
             P == Incomplete(w)
  <1>1. Outcome(s, log, p) = Flushed(u).disk
    BY DEF Outcome, DiskOf
  <1>2. d \in [Key -> Row \cup {NoRow}]
    BY FlushedGood, StoreFields DEF Good, DiskOf
  <1> HIDE DEF d
  <1>3. Good(c) /\ Visible(c, k) = d[k]
    <2>1. s \in Store /\ <<>> \in Seq(BufferedRow)
      BY DEF Good
    <2>2. c = [capacity |-> s.capacity, disk |-> d, buffer |-> <<>>]
      BY <1>2, <2>1, StoreExcept
    <2> HIDE DEF c
    <2> QED BY <1>2, <2>2, EmptyBuffer
  <1>4. ToSet(log) \subseteq Record /\ log \in Seq(ToSet(log)) /\ ToSet(After(log)) \subseteq ToSet(log)
    BY InLog
  <1>5. After(w) = Only(After(log), T) /\ Named(w) = Named(log)
    <2>1. \A i \in DOMAIN log : log[i].action = "checkpoint" => log[i] \in T
      <3>1. \A i \in DOMAIN log : log[i] \in ToSet(log)
        BY InLog
      <3> QED BY <3>1
    <2> HIDE DEF T
    <2> QED BY <2>1, AfterOnly
  <1>6. w \in Seq(Record) /\ ToSet(w) = ToSet(log) \cap T /\ ToSet(After(w)) = ToSet(After(log)) \cap T
    <2> HIDE DEF T
    <2>1. w \in Seq(Record) /\ ToSet(w) = ToSet(log) \cap T
      BY OnlyType, OnlyRange, Zenon
    <2>2. ToSet(Only(After(log), T)) = ToSet(After(log)) \cap T
      BY AfterType, OnlyRange, Zenon
    <2> QED BY <1>5, <2>1, <2>2
  <1>7. A = Aborted(log, p)
    BY <1>4, <1>6 DEF Aborted, With
  <1>8. P = Pending(log, p)
    <2>1. \A a \in {"start", "commit"} : With(After(w), a) = With(After(log), a)
      BY <1>4, <1>6 DEF With
    <2> HIDE DEF w
    <2> QED BY <1>5, <1>7, <2>1 DEF Incomplete, Pending, Named
  <1>9. OnlyUpdates(w)
    <2>1. \A i \in DOMAIN w : w[i] \in ToSet(w)
      BY <1>6, InLog
    <2>2. \A r \in ToSet(log) : \E i \in DOMAIN log : log[i] = r
      BY InLog
    <2> QED BY <1>6, <2>1, <2>2 DEF OnlyUpdates
  <1>10. \A S : S \subseteq DataRecord => Only(w, S) = Only(log, S)
    <2> TAKE S
    <2> HAVE S \subseteq DataRecord
    <2>1. \A e \in ToSet(log) : e \in T \cap S <=> e \in S
      BY DEF DataRecord, Data
    <2> HIDE DEF T
    <2>2. Only(w, S) = Only(log, T \cap S)
      BY OnlyOnly
    <2> QED BY <1>4, <2>1, <2>2, OnlyCongruent
  <1>11. \A S : S \subseteq DataRecord => Only(After(w), S) = Only(After(log), S)
    <2> TAKE S
    <2> HAVE S \subseteq DataRecord
    <2>1. \A e \in ToSet(After(log)) : e \in T \cap S <=> e \in S
      BY <1>4 DEF DataRecord, Data
    <2> HIDE DEF T, w
    <2>2. Only(After(w), S) = Only(After(log), T \cap S)
      BY <1>5, AfterType, OnlyOnly
    <2>3. After(log) \in Seq(ToSet(After(log)))
      BY AfterType, InLog
    <2> QED BY <2>1, <2>2, <2>3, OnlyCongruent
  <1> HIDE DEF w, c
  <1>12. RedoOf(w, A, k) = RedoOf(log, Aborted(log, p), k)
    <2>1. RedoSet(A, k) \subseteq DataRecord
      BY DEF RedoSet, OnKey
    <2> QED BY <1>7, <1>11, <2>1 DEF RedoOf
  <1>13. \A t : UndoOn(w, t, k) = UndoOn(log, t, k)
    <2>1. \A t : OnKeyOf(t, k) \subseteq DataRecord
      BY DEF OnKeyOf, OnKey
    <2> QED BY <1>10, <2>1 DEF UndoOn
  <1>14. \A t : Wrote(w, t, k) = Wrote(log, t, k) /\ Oldest(w, t, k) = Oldest(log, t, k)
    BY <1>13 DEF Wrote, Oldest
  <1>15. /\ Good(u)
         /\ Unwritten(w, P, k) => Visible(u, k) = Latest(RedoOf(w, A, k), Visible(c, k))
         /\ \A t : OnlyWriter(w, P, t, k) => Visible(u, k) = Oldest(w, t, k)
    BY <1>3, <1>6, <1>9, RecoveredOn
  <1> HIDE DEF u, A, P
  <1>16. Flushed(u).disk[k] = Visible(u, k)
    BY <1>15, FlushedGood
  <1>17. Unwritten(log, Pending(log, p), k) =>
           Outcome(s, log, p)[k] = Latest(RedoOf(log, Aborted(log, p), k), d[k])
    BY <1>1, <1>3, <1>8, <1>12, <1>14, <1>15, <1>16 DEF Unwritten
  <1>18. \A t : OnlyWriter(log, Pending(log, p), t, k) => Outcome(s, log, p)[k] = Oldest(log, t, k)
    BY <1>1, <1>8, <1>14, <1>15, <1>16 DEF OnlyWriter
  <1> QED BY <1>17, <1>18 DEF d

--------------------------------------------------------------------------------
(* The invariant of these workloads.                                         *)

\* One call at a time, updates that wait for their locks, and crashes between
\* statements or inside a commit.
UpdatesOnly ==
  /\ workload.serial /\ ~workload.overwrite
  /\ workload.ops \subseteq {"update"} /\ workload.crash \subseteq {"serving", "commit"}

\* A transaction recovery would undo, if the server crashed now.
Live == Holding \cup {"flush_undone"}

PendingLive == server = "up" => Pending(wal, pc) = {t \in Tx : pc[t] \in Live}
PendingStarted == \A t \in Pending(wal, pc) : Started(wal, t)
UndoLogged == \A t \in Tx : pc[t] \in Undoing => t \in With(After(wal), "abort")

\* Locks keep two of them from writing the same key.
OneWriter ==
  \A k \in Key : \A t, u \in Pending(wal, pc) : Wrote(wal, t, k) /\ Wrote(wal, u, k) => t = u

\* A crash would leave of a key what its writer found or, if nobody is writing it,
\* what is last in the log, or else on disk.
Foretold ==
  \A k \in Key :
    /\ Unwritten(wal, Pending(wal, pc), k) =>
         durable[k] = Latest(RedoOf(wal, Aborted(wal, pc), k), DiskOf(store, pc)[k])
    /\ \A t \in Tx : OnlyWriter(wal, Pending(wal, pc), t, k) => durable[k] = Oldest(wal, t, k)

\* The last of the committed records of a key, if the log has one, is what is durable.
SettledRedo ==
  \A k \in Key :
    Latest(RedoOf(wal, Aborted(wal, pc) \cup Pending(wal, pc), k), durable[k]) = durable[k]

\* What statements see is what the log says last, but for a key just undone ...
UndoneKey(k) == \E t \in Tx : pc[t] = "flush_undone" /\ Wrote(wal, t, k)
RedoVisible ==
  server = "up" =>
    \A k \in Key : ~UndoneKey(k) =>
      Latest(RedoOf(wal, Aborted(wal, pc), k), DiskOf(store, pc)[k]) = Visible(store, k)
UndoneVisible == \A k \in Key : UndoneKey(k) => Visible(store, k) = durable[k]

\* ... and what its writer has written last.
Newest(log, t, k) == Latest(UndoOn(log, t, k), NoRow)
WriterSees ==
  \A k \in Key, t \in Tx :
    pc[t] \in Holding /\ Wrote(wal, t, k) => Newest(wal, t, k) = Visible(store, k)

FlushedFirst == \A t \in Tx : pc[t] = "checkpoint" => \A k \in Key : store.disk[k] = Visible(store, k)
CutAtEnd == \A t \in Tx : pc[t] = "clear" => After(wal) = <<>>
EmptyDown == server = "down" => store.buffer = <<>>

AtomInv ==
  /\ UpdatesOnly /\ OnlyUpdates(wal)
  /\ PendingLive /\ PendingStarted /\ UndoLogged /\ OneWriter
  /\ Foretold /\ SettledRedo /\ RedoVisible /\ UndoneVisible /\ WriterSees
  /\ FlushedFirst /\ CutAtEnd /\ EmptyDown

\* A value that redo would leave is left by redo over itself.
LEMMA LatestAgain ==
  ASSUME NEW q, NEW d, NEW v, Latest(q, d) = v
  PROVE  Latest(q, v) = v
  BY DEF Latest

\* The disk, once a flush that is certain to come is done.
LEMMA DiskOfIs ==
  ASSUME NEW s, Good(s), NEW p, NEW k \in Key
  PROVE  /\ DiskOf(s, p)[k] = IF Flushing(p) THEN Visible(s, k) ELSE s.disk[k]
         /\ DiskOf(s, p)[k] \in {s.disk[k], Visible(s, k)}
  BY FlushedGood DEF DiskOf

\* Recovery undoes transactions, not the checkpoint.
LEMMA PendingTx ==
  ASSUME NEW log \in Seq(Record), NEW p
  PROVE  Pending(log, p) \subseteq Tx
  <1>1. \A i \in DOMAIN log : log[i] \in Record
    OBVIOUS
  <1>2. Named(log) \subseteq Tx
    <2>1. /\ LastCheckpoint(log) \in 0 .. Len(log)
          /\ LastCheckpoint(log) # 0 => log[LastCheckpoint(log)].action = "checkpoint"
      BY LastCheckpointPlace
    <2>2. LastCheckpoint(log) # 0 => LastCheckpoint(log) \in DOMAIN log
      BY <2>1
    <2> QED BY <1>1, <2>1, <2>2, RecordFields DEF Named
  <1>3. With(After(log), "start") \subseteq Tx
    <2>1. ToSet(After(log)) \subseteq Record
      BY InLog
    <2> QED BY <2>1, RecordFields DEF With
  <1> QED BY <1>2, <1>3 DEF Pending

\* The outcome of a step, once its log is known.
LEMMA Foreseen ==
  ASSUME TypeInv', OnlyUpdates(wal'), Foresee, UNCHANGED workload
  PROVE  /\ \A k \in Key :
              /\ Unwritten(wal', Pending(wal', pc'), k) =>
                   durable'[k] = Latest(RedoOf(wal', Aborted(wal', pc'), k), DiskOf(store', pc')[k])
              /\ \A t \in Tx : OnlyWriter(wal', Pending(wal', pc'), t, k) =>
                                 durable'[k] = Oldest(wal', t, k)
         /\ Foretold'
  <1>1. Good(store') /\ wal' \in Seq(Record)
    BY DEF TypeInv, TypeOK, CleanRowsOnDisk, Good
  <1>2. \A k \in Key :
          /\ Unwritten(wal', Pending(wal', pc'), k) =>
               durable'[k] = Latest(RedoOf(wal', Aborted(wal', pc'), k), DiskOf(store', pc')[k])
          /\ \A t \in Tx : OnlyWriter(wal', Pending(wal', pc'), t, k) =>
                             durable'[k] = Oldest(wal', t, k)
    BY <1>1, OutcomeOn DEF Foresee
  <1>3. (DiskOf(store, pc))' = DiskOf(store', pc')
    BY DEF DiskOf, Flushing
  <1> QED BY <1>2, <1>3 DEF Foretold

\* The invariant holds at the start.
LEMMA AtomInit == Init /\ UpdatesOnly => AtomInv
  <1> SUFFICES ASSUME Init, UpdatesOnly PROVE AtomInv
    OBVIOUS
  <1>1. /\ wal = <<>> /\ server = "up" /\ durable = store.disk /\ store.buffer = <<>>
        /\ \A t \in Tx : pc[t] = "begin"
    BY DEF Init
  <1>2. TypeInv /\ Good(store)
    BY TypeInvInit, TypeInvFacts
  <1>3. /\ After(wal) = <<>> /\ Named(wal) = {}
        /\ \A a : With(After(wal), a) = {}
        /\ \A A, k : RedoOf(wal, A, k) = <<>>
        /\ \A t, k : ~Wrote(wal, t, k)
        /\ OnlyUpdates(wal)
    <2>1. After(wal) = <<>> /\ Named(wal) = {}
      BY <1>1, AfterNothing, Zenon
    <2>2. \A a : With(<<>>, a) = {}
      BY DEF With, ToSet
    <2>3. \A S : Only(<<>>, S) = <<>>
      BY OnlyEmpty, Zenon
    <2>4. DOMAIN <<>> = {}
      OBVIOUS
    <2> QED BY <1>1, <2>1, <2>2, <2>3, <2>4, Zenon DEF RedoOf, Wrote, UndoOn, OnlyUpdates
  <1>4. Pending(wal, pc) = {}
    BY <1>3 DEF Pending
  <1>5. \A t \in Tx : /\ pc[t] \notin Live /\ pc[t] \notin Holding /\ pc[t] \notin Undoing
                      /\ pc[t] \notin Committed /\ pc[t] \notin {"checkpoint", "clear", "flush_undone"}
    BY <1>1 DEF Live, Holding, Undoing, Committed
  <1>6. \A k \in Key : DiskOf(store, pc)[k] = durable[k] /\ Visible(store, k) = durable[k]
    <2>1. ~Flushing(pc)
      BY <1>5 DEF Flushing
    <2>2. \A k \in Key : DiskOf(store, pc)[k] = durable[k]
      BY <1>1, <2>1 DEF DiskOf
    <2>3. ToSet(store.buffer) = {}
      BY <1>1 DEF ToSet
    <2>4. \A k \in Key : Visible(store, k) = store.disk[k]
      BY <1>2, <2>3, CleanVisible
    <2> QED BY <1>1, <2>2, <2>4
  <1>7. \A k \in Key : \A A : Latest(RedoOf(wal, A, k), durable[k]) = durable[k]
    BY <1>3 DEF Latest
  <1>8. Foretold
    BY <1>4, <1>6, <1>7 DEF Foretold, OnlyWriter
  <1>9. SettledRedo /\ RedoVisible /\ UndoneVisible /\ WriterSees
    BY <1>5, <1>6, <1>7 DEF SettledRedo, RedoVisible, UndoneVisible, UndoneKey, WriterSees
  <1>10. PendingLive /\ PendingStarted /\ UndoLogged /\ OneWriter
    BY <1>4, <1>5 DEF PendingLive, PendingStarted, UndoLogged, OneWriter
  <1>11. FlushedFirst /\ CutAtEnd /\ EmptyDown
    BY <1>1, <1>5 DEF FlushedFirst, CutAtEnd, EmptyDown
  <1> QED BY <1>3, <1>8, <1>9, <1>10, <1>11 DEF AtomInv

\* Of those recovery would undo, nobody has written a key or exactly one has.
LEMMA OneOrNone ==
  ASSUME TypeInv, AtomInv, NEW k \in Key
  PROVE  /\ Pending(wal, pc) \subseteq Tx
         /\ \/ Unwritten(wal, Pending(wal, pc), k)
            \/ \E t \in Pending(wal, pc) : OnlyWriter(wal, Pending(wal, pc), t, k)
  <1>1. Pending(wal, pc) \subseteq Tx
    BY TypeInvFacts, PendingTx
  <1> QED BY <1>1 DEF AtomInv, OneWriter, Unwritten, OnlyWriter

\* The durable database is known by its keys.
LEMMA SameDurable ==
  ASSUME TypeInv, TypeInv', \A k \in Key : durable'[k] = durable[k]
  PROVE  durable' = durable
  <1>1. durable \in [Key -> Row \cup {NoRow}] /\ durable' \in [Key -> Row \cup {NoRow}]
    BY DEF TypeInv, TypeOK
  <1> QED BY <1>1

\* Where everybody is when t takes a step.
LEMMA AtomPlaces ==
  ASSUME TypeInv, CallInv, AtomInv, NEW t \in Tx, NEW from, NEW to \in Place, Step(t, from, to)
  PROVE  /\ pc'[t] = to /\ pc[t] \in from /\ server = "up"
         /\ \A u \in Tx \ {t} : pc'[u] = pc[u] /\ pc[u] \in {"begin", "active", "wounded", "done"}
         /\ Pending(wal, pc) = {u \in Tx : pc[u] \in Live}
         /\ Flushing(pc) <=> "commit" \notin workload.crash /\ pc[t] \in Committed
         /\ Flushing(pc') <=> "commit" \notin workload.crash /\ to \in Committed
         /\ pc' \in [Tx -> Place]
  <1>1. /\ pc' \in [Tx -> Place] /\ pc'[t] = to /\ pc[t] \in from /\ server = "up"
        /\ \A u \in Tx \ {t} : pc'[u] = pc[u] /\ pc[u] \in {"begin", "active", "wounded", "done"}
    BY CallFacts
  <1>2. \A u \in Tx \ {t} : pc[u] \notin Committed /\ pc'[u] \notin Committed
    BY <1>1 DEF Committed
  <1>3. Pending(wal, pc) = {u \in Tx : pc[u] \in Live}
    BY <1>1 DEF AtomInv, PendingLive
  <1> QED BY <1>1, <1>2, <1>3 DEF Flushing

\* A step that changes nothing of what recovery would do, nor the store; the
\* transactions in N begin.
LEMMA QuietAtom ==
  ASSUME TypeInv, TypeInv', AtomInv, UNCHANGED <<workload, store, server>>, Foresee, server = "up",
         NEW N \in SUBSET Tx,
         Aborted(wal', pc') = Aborted(wal, pc), Pending(wal', pc') = Pending(wal, pc) \cup N,
         \A A, k : RedoOf(wal', A, k) = RedoOf(wal, A, k),
         \A u \in Pending(wal, pc) : /\ \A k : UndoOn(wal', u, k) = UndoOn(wal, u, k)
                                     /\ Started(wal, u) => Started(wal', u),
         \A u \in N : Started(wal', u) /\ \A k : ~Wrote(wal', u, k),
         OnlyUpdates(wal'), Flushing(pc') <=> Flushing(pc),
         \A u \in Tx : /\ pc'[u] \in Live <=> pc[u] \in Live \/ u \in N
                       /\ pc'[u] \in Holding => pc[u] \in Holding \/ u \in N
                       /\ pc'[u] = "flush_undone" => pc[u] = "flush_undone"
                       /\ pc[u] = "flush_undone" => pc'[u] = "flush_undone"
                       /\ pc'[u] # "checkpoint"
                       /\ pc'[u] # "clear"
                       /\ pc'[u] \in Undoing => u \in With(After(wal'), "abort")
  PROVE  AtomInv' /\ durable' = durable
  <1> DEFINE P == Pending(wal, pc)
             A == Aborted(wal, pc)
  <1>1. P = {u \in Tx : pc[u] \in Live}
    BY DEF AtomInv, PendingLive
  <1>2. \A u \in P, k \in Key : /\ Wrote(wal', u, k) = Wrote(wal, u, k)
                                /\ Oldest(wal', u, k) = Oldest(wal, u, k)
                                /\ Newest(wal', u, k) = Newest(wal, u, k)
    BY DEF Wrote, Oldest, Newest
  <1>3. DiskOf(store', pc') = DiskOf(store, pc) /\ (DiskOf(store, pc))' = DiskOf(store, pc)
    BY DEF DiskOf, Flushing
  <1>4. ASSUME NEW k \in Key
        PROVE  durable'[k] = durable[k]
    <2>1. CASE Unwritten(wal, P, k)
      <3>1. Unwritten(wal', P \cup N, k)
        BY <1>2, <2>1 DEF Unwritten
      <3>2. durable[k] = Latest(RedoOf(wal, A, k), DiskOf(store, pc)[k])
        BY <2>1 DEF AtomInv, Foretold
      <3>3. durable'[k] = Latest(RedoOf(wal', A, k), DiskOf(store', pc')[k])
        BY <3>1, Foreseen
      <3> QED BY <1>3, <3>2, <3>3
    <2>2. ASSUME NEW u \in P, OnlyWriter(wal, P, u, k)
          PROVE  durable'[k] = durable[k]
      <3>1. OnlyWriter(wal', P \cup N, u, k)
        BY <1>2, <2>2 DEF OnlyWriter
      <3>2. u \in Tx
        BY <1>1
      <3>3. durable[k] = Oldest(wal, u, k)
        BY <2>2, <3>2 DEF AtomInv, Foretold
      <3>4. durable'[k] = Oldest(wal', u, k)
        BY <3>1, <3>2, Foreseen
      <3> QED BY <1>2, <3>3, <3>4
    <2> QED BY <2>1, <2>2, OneOrNone
  <1>5. durable' = durable
    BY <1>4, SameDurable
  <1> HIDE DEF P, A
  <1>6. PendingLive' /\ PendingStarted' /\ UndoLogged'
    BY <1>1 DEF AtomInv, PendingLive, PendingStarted, UndoLogged, P
  <1>7. OneWriter'
    BY <1>2 DEF AtomInv, OneWriter, P
  <1>8. Foretold'
    BY Foreseen
  <1>9. SettledRedo'
    <2>1. wal' \in Seq(Record)
      BY DEF TypeInv, TypeOK
    <2>2. \A k : RedoOf(wal', A \cup (P \cup N), k) = RedoOf(wal', A \cup P, k)
      BY <2>1, NotRedone
    <2> QED BY <1>5, <2>2 DEF AtomInv, SettledRedo, A, P
  <1>10. \A k \in Key : UndoneKey(k)' <=> UndoneKey(k)
    <2>1. \A u \in Tx : pc[u] = "flush_undone" => u \in P
      BY <1>1 DEF Live
    <2> QED BY <1>2, <2>1 DEF UndoneKey
  <1>11. RedoVisible' /\ UndoneVisible'
    BY <1>3, <1>5, <1>10 DEF AtomInv, RedoVisible, UndoneVisible
  <1>12. WriterSees'
    <2>1. \A u \in Tx : pc'[u] \in Holding => u \in N \/ (u \in P /\ pc[u] \in Holding)
      BY <1>1 DEF Live
    <2> QED BY <1>2, <2>1 DEF AtomInv, WriterSees
  <1>13. FlushedFirst' /\ CutAtEnd' /\ EmptyDown'
    BY DEF FlushedFirst, CutAtEnd, EmptyDown
  <1>14. UpdatesOnly'
    BY DEF AtomInv, UpdatesOnly
  <1> QED BY <1>5, <1>6, <1>7, <1>8, <1>9, <1>11, <1>12, <1>13, <1>14 DEF AtomInv

\* The same when no transaction begins.
LEMMA QuietStep ==
  ASSUME TypeInv, TypeInv', AtomInv, UNCHANGED <<workload, store, server>>, Foresee, server = "up",
         Aborted(wal', pc') = Aborted(wal, pc), Pending(wal', pc') = Pending(wal, pc),
         \A A, k : RedoOf(wal', A, k) = RedoOf(wal, A, k),
         \A u \in Pending(wal, pc) : /\ \A k : UndoOn(wal', u, k) = UndoOn(wal, u, k)
                                     /\ Started(wal, u) => Started(wal', u),
         OnlyUpdates(wal'), Flushing(pc') <=> Flushing(pc),
         \A u \in Tx : /\ pc'[u] \in Live <=> pc[u] \in Live
                       /\ pc'[u] \in Holding => pc[u] \in Holding
                       /\ pc'[u] = "flush_undone" => pc[u] = "flush_undone"
                       /\ pc[u] = "flush_undone" => pc'[u] = "flush_undone"
                       /\ pc'[u] # "checkpoint"
                       /\ pc'[u] # "clear"
                       /\ pc'[u] \in Undoing => u \in With(After(wal'), "abort")
  PROVE  AtomInv' /\ durable' = durable
  <1> DEFINE N == {}
  <1>1. N \in SUBSET Tx
    OBVIOUS
  <1>2. Pending(wal', pc') = Pending(wal, pc) \cup N
    OBVIOUS
  <1>3. \A u \in N : Started(wal', u) /\ \A k : ~Wrote(wal', u, k)
    OBVIOUS
  <1>4. \A u \in Tx : /\ pc'[u] \in Live <=> pc[u] \in Live \/ u \in N
                      /\ pc'[u] \in Holding => pc[u] \in Holding \/ u \in N
                      /\ pc'[u] = "flush_undone" => pc[u] = "flush_undone"
                      /\ pc[u] = "flush_undone" => pc'[u] = "flush_undone"
                      /\ pc'[u] # "checkpoint"
                      /\ pc'[u] # "clear"
                      /\ pc'[u] \in Undoing => u \in With(After(wal'), "abort")
    OBVIOUS
  <1> HIDE DEF N
  <1> QED BY <1>1, <1>2, <1>3, <1>4, QuietAtom

\* The steps of a call that only take it further.
LEMMA CallGoesOn ==
  ASSUME TypeInv, TypeInv', CallInv, AtomInv, NEW t \in Tx, NEW from, NEW to \in Place,
         Step(t, from, to), UNCHANGED <<workload, store, wal>>, server' = server, Foresee,
         \/ from \subseteq {"active", "wounded"} /\ to \in {"wounded", "log_commit", "log_abort"}
         \/ from \subseteq {"notify_commit", "snapshot"} /\ to \in {"snapshot", "flush"}
         \/ from = {"notify_abort"} /\ to = "done"
  PROVE  AtomInv' /\ durable' = durable
  <1>1. /\ pc'[t] = to /\ pc[t] \in from /\ server = "up"
        /\ \A u \in Tx \ {t} : pc'[u] = pc[u] /\ pc[u] \in {"begin", "active", "wounded", "done"}
        /\ Flushing(pc) <=> "commit" \notin workload.crash /\ pc[t] \in Committed
        /\ Flushing(pc') <=> "commit" \notin workload.crash /\ to \in Committed
    BY AtomPlaces
  <1>2. /\ pc'[t] \in Live <=> pc[t] \in Live
        /\ pc'[t] \in Holding => pc[t] \in Holding
        /\ pc'[t] \notin Undoing /\ pc[t] \notin Undoing /\ pc[t] # "flush_undone"
        /\ pc'[t] \notin {"flush_undone", "checkpoint", "clear"}
        /\ to \in Committed <=> pc[t] \in Committed
    BY <1>1 DEF Live, Holding, Undoing, Committed
  <1>3. \A u \in Tx \ {t} : pc[u] \notin Undoing /\ pc[u] \notin {"flush_undone", "checkpoint", "clear"}
    BY <1>1 DEF Undoing
  <1>4. With(After(wal), "abort") \subseteq Tx
    <2>1. ToSet(After(wal)) \subseteq Record
      BY TypeInvFacts, InLog
    <2> QED BY <2>1, RecordFields DEF With
  <1>5. Aborted(wal', pc') = Aborted(wal, pc)
    BY <1>1, <1>2, <1>3, <1>4 DEF Aborted
  <1>6. Pending(wal', pc') = Pending(wal, pc)
    BY <1>5 DEF Pending
  <1>7. OnlyUpdates(wal')
    BY DEF AtomInv
  <1> QED BY <1>1, <1>2, <1>3, <1>5, <1>6, <1>7, QuietStep

\* The ABORT record: a rollback under way is still one to undo.
LEMMA LogAbortAtom ==
  ASSUME TypeInv, TypeInv', CallInv, AtomInv, NEW t \in Tx, LogAbort(t), Foresee
  PROVE  AtomInv' /\ durable' = durable
  <1>1. /\ Step(t, {"log_abort"}, "undo") /\ wal' = Append(wal, Lifecycle("abort", t))
        /\ UNCHANGED <<workload, store, server>>
    BY DEF LogAbort, memory
  <1>2. /\ pc'[t] = "undo" /\ pc[t] = "log_abort" /\ server = "up"
        /\ \A u \in Tx \ {t} : pc'[u] = pc[u] /\ pc[u] \in {"begin", "active", "wounded", "done"}
        /\ Pending(wal, pc) = {u \in Tx : pc[u] \in Live}
        /\ Flushing(pc') <=> Flushing(pc)
    BY <1>1, AtomPlaces DEF Place, Aborts, Committed
  <1>3. wal \in Seq(Record) /\ Lifecycle("abort", t) \in Record
    BY TypeInvFacts, LifecycleType
  <1>4. /\ Named(wal') = Named(wal)
        /\ \A a : With(After(wal'), a) = With(After(wal), a) \cup (IF a = "abort" THEN {t} ELSE {})
        /\ \A A, k : RedoOf(wal', A, k) = RedoOf(wal, A, k)
        /\ \A u, k : UndoOn(wal', u, k) = UndoOn(wal, u, k)
        /\ OnlyUpdates(wal')
    BY <1>1, <1>3, LifecycleAppended DEF AtomInv
  <1>5. t \in Pending(wal, pc)
    BY <1>2 DEF Live, Holding
  <1>6. t \notin With(After(wal), "abort")
    BY <1>2, <1>5 DEF Pending, Aborted, Undoing
  <1>7. \A u \in Tx \ {t} : pc[u] \notin Undoing /\ pc[u] \notin {"flush_undone", "checkpoint", "clear"}
    BY <1>2 DEF Undoing
  <1>8. With(After(wal), "abort") \subseteq Tx
    <2>1. ToSet(After(wal)) \subseteq Record
      BY <1>3, InLog
    <2> QED BY <2>1, RecordFields DEF With
  <1>9. Aborted(wal', pc') = Aborted(wal, pc)
    BY <1>2, <1>4, <1>6, <1>7, <1>8 DEF Aborted, Undoing
  <1>10. Pending(wal', pc') = Pending(wal, pc)
    BY <1>4, <1>9 DEF Pending
  <1>11. \A u : Started(wal, u) => Started(wal', u)
    BY <1>1, <1>3, AppendKeeps
  <1>12. \A u \in Tx : /\ pc'[u] \in Live <=> pc[u] \in Live
                       /\ pc'[u] \in Holding => pc[u] \in Holding
                       /\ pc'[u] # "flush_undone" /\ pc[u] # "flush_undone"
                       /\ pc'[u] # "checkpoint" /\ pc'[u] # "clear"
                       /\ pc'[u] \in Undoing => u \in With(After(wal'), "abort")
    BY <1>2, <1>4, <1>7 DEF Live, Holding
  <1> QED BY <1>1, <1>2, <1>4, <1>9, <1>10, <1>11, <1>12, QuietStep

\* The START record: one more that recovery would undo, with nothing written.
LEMMA BeginAtom ==
  ASSUME TypeInv, TypeInv', CallInv, AtomInv, NEW t \in Tx, Begin(t), Foresee
  PROVE  AtomInv' /\ durable' = durable
  <1>1. /\ Step(t, {"begin"}, "active") /\ wal' = Append(wal, Lifecycle("start", t))
        /\ UNCHANGED <<workload, store, server>>
    BY DEF Begin
  <1>2. /\ pc'[t] = "active" /\ pc[t] = "begin" /\ server = "up"
        /\ \A u \in Tx \ {t} : pc'[u] = pc[u] /\ pc[u] \in {"begin", "active", "wounded", "done"}
        /\ Pending(wal, pc) = {u \in Tx : pc[u] \in Live}
        /\ Flushing(pc') <=> Flushing(pc)
    BY <1>1, AtomPlaces DEF Place, Committed
  <1>3. wal \in Seq(Record) /\ Lifecycle("start", t) \in Record /\ Lifecycle("start", t) = START(t)
    BY TypeInvFacts, LifecycleType DEF START
  <1>4. /\ Named(wal') = Named(wal)
        /\ \A a : With(After(wal'), a) = With(After(wal), a) \cup (IF a = "start" THEN {t} ELSE {})
        /\ \A A, k : RedoOf(wal', A, k) = RedoOf(wal, A, k)
        /\ \A u, k : UndoOn(wal', u, k) = UndoOn(wal, u, k)
        /\ OnlyUpdates(wal')
    BY <1>1, <1>3, LifecycleAppended DEF AtomInv
  <1>5. \A r \in ToSet(wal) : r.tx # t
    <2>1. Unheard(wal, t)
      BY <1>2 DEF CallInv, NotBegun
    <2>2. \A r \in ToSet(wal) : \E i \in DOMAIN wal : wal[i] = r
      BY <1>3, InLog
    <2> QED BY <2>1, <2>2 DEF Unheard
  <1>6. \A a : t \notin With(After(wal), a)
    <2>1. ToSet(After(wal)) \subseteq ToSet(wal)
      BY <1>3, InLog
    <2> QED BY <1>5, <2>1 DEF With
  <1>7. \A u \in Tx \ {t} : pc[u] \notin Undoing /\ pc[u] \notin {"flush_undone", "checkpoint", "clear"}
    BY <1>2 DEF Undoing
  <1>8. With(After(wal), "abort") \subseteq Tx
    <2>1. ToSet(After(wal)) \subseteq Record
      BY <1>3, InLog
    <2> QED BY <2>1, RecordFields DEF With
  <1>9. Aborted(wal', pc') = Aborted(wal, pc)
    BY <1>2, <1>4, <1>6, <1>7, <1>8 DEF Aborted, Undoing
  <1>10. Pending(wal', pc') = Pending(wal, pc) \cup {t}
    <2>1. t \notin With(After(wal), "commit") \cup Aborted(wal, pc)
      BY <1>6 DEF Aborted
    <2> QED BY <1>4, <1>9, <2>1 DEF Pending
  <1>11. (\A u : Started(wal, u) => Started(wal', u)) /\ Started(wal', t)
    BY <1>1, <1>3, AppendKeeps
  <1>12. \A k : ~Wrote(wal', t, k)
    <2>1. \A k : ~Wrote(wal, t, k)
      BY <1>3, <1>5, WroteSeen DEF OnKeyOf
    <2> QED BY <1>4, <2>1 DEF Wrote
  <1>13. \A u \in Tx : /\ pc'[u] \in Live <=> pc[u] \in Live \/ u \in {t}
                       /\ pc'[u] \in Holding => pc[u] \in Holding \/ u \in {t}
                       /\ pc'[u] # "flush_undone" /\ pc[u] # "flush_undone"
                       /\ pc'[u] # "checkpoint" /\ pc'[u] # "clear"
                       /\ pc'[u] \notin Undoing
    BY <1>2, <1>7 DEF Live, Holding, Undoing
  <1>14. /\ \A u \in Pending(wal, pc) : /\ \A k : UndoOn(wal', u, k) = UndoOn(wal, u, k)
                                        /\ Started(wal, u) => Started(wal', u)
         /\ \A u \in {t} : Started(wal', u) /\ \A k : ~Wrote(wal', u, k)
    BY <1>4, <1>11, <1>12
  <1>15. /\ \A A, k : RedoOf(wal', A, k) = RedoOf(wal, A, k)
         /\ OnlyUpdates(wal')
         /\ UNCHANGED <<workload, store, server>> /\ server = "up"
         /\ Flushing(pc') <=> Flushing(pc)
         /\ {t} \in SUBSET Tx
    BY <1>1, <1>2, <1>4
  <1>16. \A u \in Tx : /\ pc'[u] \in Live <=> pc[u] \in Live \/ u \in {t}
                       /\ pc'[u] \in Holding => pc[u] \in Holding \/ u \in {t}
                       /\ pc'[u] = "flush_undone" => pc[u] = "flush_undone"
                       /\ pc[u] = "flush_undone" => pc'[u] = "flush_undone"
                       /\ pc'[u] # "checkpoint"
                       /\ pc'[u] # "clear"
                       /\ pc'[u] \in Undoing => u \in With(After(wal'), "abort")
    BY <1>13
  <1> QED BY <1>9, <1>10, <1>14, <1>15, <1>16, QuietAtom

\* The cut of the log at the end of a commit.
LEMMA ClearWalAtom ==
  ASSUME TypeInv, TypeInv', CallInv, AtomInv, NEW t \in Tx, ClearWal(t), Foresee
  PROVE  AtomInv' /\ durable' = durable
  <1> DEFINE S == ongoing[t]
  <1>1. /\ Step(t, {"clear"}, "done") /\ wal' = Cleared(wal, S)
        /\ UNCHANGED <<workload, store, server>>
    BY DEF ClearWal
  <1>2. /\ pc'[t] = "done" /\ pc[t] = "clear" /\ server = "up"
        /\ \A u \in Tx \ {t} : pc'[u] = pc[u] /\ pc[u] \in {"begin", "active", "wounded", "done"}
        /\ Pending(wal, pc) = {u \in Tx : pc[u] \in Live}
        /\ Flushing(pc') <=> Flushing(pc)
    BY <1>1, AtomPlaces DEF Place, Committed
  <1>3. wal \in Seq(Record) /\ wal' \in Seq(Record) /\ S \in SUBSET Tx
    BY TypeInvFacts DEF TypeInv, TypeOK
  <1>4. S = {u \in Tx : pc[u] \in {"active", "wounded"}}
    BY <1>2 DEF CallInv, OngoingListed
  <1>5. Pending(wal, pc) = S
    BY <1>2, <1>4 DEF Live, Holding
  <1> HIDE DEF S
  <1>6. HasCheckpoint(wal) /\ After(wal) = <<>>
    BY <1>2 DEF TypeInv, CheckpointLogged, AtomInv, CutAtEnd
  <1>7. Complete(wal, S)
    BY <1>2, <1>4 DEF Complete, CallInv, BeginsLogged, StartsFirst, Holding
  <1>8. /\ \A i \in DOMAIN wal' : \E j \in DOMAIN wal : wal'[i] = wal[j]
        /\ \A u \in S : Only(wal', DataOf(u)) = Only(wal, DataOf(u))
        /\ Complete(wal', S)
    BY <1>1, <1>3, <1>6, <1>7, CutKeeps
  <1>9. After(wal') = <<>> /\ Named(wal') = Named(wal)
    BY <1>1, <1>3, <1>6, CutEnd
  <1>10. /\ \A a : With(After(wal'), a) = With(After(wal), a) /\ With(After(wal), a) = {}
         /\ \A A, k : RedoOf(wal', A, k) = RedoOf(wal, A, k)
    <2>1. \A a : With(<<>>, a) = {}
      BY DEF With, ToSet
    <2> QED BY <1>6, <1>9, <2>1, Zenon DEF RedoOf
  <1>11. ASSUME NEW u \in S, NEW k
         PROVE  UndoOn(wal', u, k) = UndoOn(wal, u, k)
    <2>1. DataOf(u) \cap OnKey(k) = OnKeyOf(u, k)
      BY DEF DataOf, OnKey, OnKeyOf
    <2>2. Only(Only(wal', DataOf(u)), OnKey(k)) = Only(wal', OnKeyOf(u, k))
      BY <1>3, <2>1, OnlyOnly
    <2>3. Only(Only(wal, DataOf(u)), OnKey(k)) = Only(wal, OnKeyOf(u, k))
      BY <1>3, <2>1, OnlyOnly
    <2> QED BY <1>8, <2>2, <2>3 DEF UndoOn
  <1>12. Aborted(wal', pc') = Aborted(wal, pc)
    BY <1>10 DEF Aborted
  <1>13. Pending(wal', pc') = Pending(wal, pc)
    BY <1>9, <1>10, <1>12 DEF Pending
  <1>14. OnlyUpdates(wal')
    BY <1>8 DEF AtomInv, OnlyUpdates
  <1>15. \A u \in Tx : /\ pc'[u] \in Live <=> pc[u] \in Live
                       /\ pc'[u] \in Holding => pc[u] \in Holding
                       /\ pc'[u] # "flush_undone" /\ pc[u] # "flush_undone"
                       /\ pc'[u] # "checkpoint" /\ pc'[u] # "clear"
                       /\ pc'[u] \notin Undoing
    BY <1>2 DEF Live, Holding, Undoing
  <1>16. \A u \in S : Started(wal', u)
    BY <1>8 DEF Complete
  <1>17. \A u \in Pending(wal, pc) : /\ \A k : UndoOn(wal', u, k) = UndoOn(wal, u, k)
                                     /\ Started(wal, u) => Started(wal', u)
    BY <1>5, <1>11, <1>16
  <1>18. /\ \A A, k : RedoOf(wal', A, k) = RedoOf(wal, A, k)
         /\ UNCHANGED <<workload, store, server>> /\ server = "up"
         /\ Flushing(pc') <=> Flushing(pc)
    BY <1>1, <1>2, <1>10
  <1>19. \A u \in Tx : /\ pc'[u] \in Live <=> pc[u] \in Live
                       /\ pc'[u] \in Holding => pc[u] \in Holding
                       /\ pc'[u] = "flush_undone" => pc[u] = "flush_undone"
                       /\ pc[u] = "flush_undone" => pc'[u] = "flush_undone"
                       /\ pc'[u] # "checkpoint"
                       /\ pc'[u] # "clear"
                       /\ pc'[u] \in Undoing => u \in With(After(wal'), "abort")
    BY <1>15
  <1> QED BY <1>12, <1>13, <1>14, <1>17, <1>18, <1>19, QuietStep

\* The steps of a call that change neither the store nor the log.
LEMMA QuietSteps ==
  ASSUME TypeInv, TypeInv', CallInv, AtomInv, NEW t \in Tx, Foresee,
         \/ Wound(t) \/ Commit(t) \/ Rollback(t) \/ Snapshot(t)
         \/ NotifyEnd(t, "notify_commit", "snapshot") \/ NotifyEnd(t, "notify_abort", "done")
  PROVE  AtomInv' /\ durable' = durable
  <1>1. {"wounded", "log_commit", "log_abort", "snapshot", "flush", "done"} \subseteq Place
    BY DEF Place, Commits, Aborts
  <1>2. CASE Wound(t)
    <2>1. Step(t, {"active"}, "wounded") /\ UNCHANGED <<workload, store, wal>> /\ server' = server
      BY <1>2 DEF Wound, memory
    <2> QED BY <1>1, <2>1, CallGoesOn
  <1>3. CASE Commit(t)
    <2>1. Step(t, {"active"}, "log_commit") /\ UNCHANGED <<workload, store, wal>> /\ server' = server
      BY <1>3 DEF Commit, memory
    <2> QED BY <1>1, <2>1, CallGoesOn
  <1>4. CASE Rollback(t)
    <2>1. Step(t, {"active", "wounded"}, "log_abort") /\ UNCHANGED <<workload, store, wal>>
          /\ server' = server
      BY <1>4 DEF Rollback, memory
    <2> QED BY <1>1, <2>1, CallGoesOn
  <1>5. CASE Snapshot(t)
    <2>1. Step(t, {"snapshot"}, "flush") /\ UNCHANGED <<workload, store, wal>> /\ server' = server
      BY <1>5 DEF Snapshot
    <2> QED BY <1>1, <2>1, CallGoesOn
  <1>6. CASE NotifyEnd(t, "notify_commit", "snapshot")
    <2>1. Step(t, {"notify_commit"}, "snapshot") /\ UNCHANGED <<workload, store, wal>>
          /\ server' = server
      BY <1>6 DEF NotifyEnd
    <2> QED BY <1>1, <2>1, CallGoesOn
  <1>7. CASE NotifyEnd(t, "notify_abort", "done")
    <2>1. Step(t, {"notify_abort"}, "done") /\ UNCHANGED <<workload, store, wal>> /\ server' = server
      BY <1>7 DEF NotifyEnd
    <2> QED BY <1>1, <2>1, CallGoesOn
  <1> QED BY <1>2, <1>3, <1>4, <1>5, <1>6, <1>7

--------------------------------------------------------------------------------
(* The writes of a transaction and its records.                              *)

Assigned(d, w) == [d EXCEPT ![w.key] = w.row]
E == INSTANCE FoldTheorems WITH Op <- LAMBDA c, d, w : Assigned(d, w)

\* Induction, for the theorems about the folds of E.
LEMMA EInductive == E!Inductive
  BY NaturalInduction DEF E!Inductive

\* AtomicStore applies the writes one after another.
LEMMA EffectIsFold ==
  ASSUME NEW d, NEW ws
  PROVE  Client!Effect(d, ws) = E!Fold(0, d, ws)
  BY DEF Assigned, Client!Effect, E!Fold, FoldLeft, Client!FoldLeft, MapThenFoldSet,
         E!MapThenFoldSet, Client!MapThenFoldSet, Max, E!Top, Client!Max

\* What the records of a transaction make of a database, key by key.
LEMMA EffectOn ==
  ASSUME NEW d \in [Key -> Row \cup {NoRow}], NEW q \in Seq(DataRecord)
  PROVE  /\ Client!Effect(d, Images(q)) \in [Key -> Row \cup {NoRow}]
         /\ \A k \in Key : Client!Effect(d, Images(q))[k] = Latest(Only(q, OnKey(k)), d[k])
  <1> DEFINE e(x) == E!Fold(0, d, Images(x))
             I == {x \in Seq(DataRecord) :
                     /\ e(x) \in [Key -> Row \cup {NoRow}]
                     /\ \A k \in Key : e(x)[k] = Latest(Only(x, OnKey(k)), d[k])}
  <1>0. Seq(DataRecord) \subseteq Seq(Record)
    BY DEF DataRecord
  <1>1. <<>> \in I
    <2>1. Images(<<>>) = <<>> /\ <<>> \in Seq(DataRecord)
      BY DEF Images
    <2>2. e(<<>>) = d
      BY <2>1, E!FoldEmpty, EInductive
    <2>3. \A k : Latest(Only(<<>>, OnKey(k)), d[k]) = d[k]
      <3>1. \A k : Only(<<>>, OnKey(k)) = <<>>
        BY OnlyEmpty, Zenon
      <3> QED BY <3>1 DEF Latest
    <2> HIDE DEF e
    <2> QED BY <2>1, <2>2, <2>3
  <1>2. ASSUME NEW x \in Seq(DataRecord), NEW r \in DataRecord, x \in I
        PROVE  Append(x, r) \in I
    <2> DEFINE w == [key |-> r.key, row |-> r.after]
               y == Append(x, r)
    <2>1. y \in Seq(DataRecord) /\ x \in Seq(Record) /\ r \in Record
      BY <1>0 DEF DataRecord
    <2>2. Images(y) = Append(Images(x), w)
      BY <2>1, ImagesAppend
    <2>3. Images(x) \in Seq([key : Key, row : Row \cup {NoRow}]) /\ w \in [key : Key, row : Row \cup {NoRow}]
      <3>1. DOMAIN x = 1 .. Len(x) /\ \A i \in DOMAIN x : x[i] \in DataRecord
        OBVIOUS
      <3>2. \A i \in DOMAIN x : [key |-> x[i].key, row |-> x[i].after] \in [key : Key, row : Row \cup {NoRow}]
        BY <3>1, RecordFields
      <3> QED BY <3>1, <3>2, RecordFields DEF Images
    <2>4. e(y) = [e(x) EXCEPT ![r.key] = r.after]
      <3>1. E!Fold(0, d, Append(Images(x), w)) = Assigned(E!Fold(0, d, Images(x)), w)
        <4> DEFINE W == [key : Key, row : Row \cup {NoRow}]
        <4>1. Images(x) \in Seq(W) /\ w \in W
          BY <2>3
        <4> HIDE DEF W, w
        <4> QED BY <4>1, E!FoldAppend, EInductive
      <3> QED BY <2>2, <3>1 DEF Assigned
    <2>5. e(x) \in [Key -> Row \cup {NoRow}] /\ \A k \in Key : e(x)[k] = Latest(Only(x, OnKey(k)), d[k])
      BY <1>2
    <2> HIDE DEF e
    <2>6. r.key \in Key /\ r.after \in Row \cup {NoRow}
      BY RecordFields
    <2>7. ASSUME NEW k \in Key
          PROVE  e(y)[k] = Latest(Only(y, OnKey(k)), d[k])
      <3> DEFINE o == Only(x, OnKey(k))
      <3>1. Only(y, OnKey(k)) = IF r \in OnKey(k) THEN Append(o, r) ELSE o
        BY OnlyAppend, Zenon
      <3>2. o \in Seq(Record)
        BY <2>1, OnlyType, Zenon
      <3> HIDE DEF o
      <3>3. CASE r.key = k
        <4>1. r \in OnKey(k)
          BY <3>3 DEF OnKey
        <4>2. Latest(Append(o, r), d[k]) = r.after
          BY <2>1, <3>2, LatestIsLast
        <4>3. e(y)[k] = r.after
          BY <2>4, <2>5, <3>3
        <4> QED BY <3>1, <4>1, <4>2, <4>3, Zenon
      <3>4. CASE r.key # k
        <4>1. r \notin OnKey(k)
          BY <3>4 DEF OnKey
        <4>2. e(y)[k] = e(x)[k]
          BY <2>4, <2>5, <3>4
        <4>3. e(x)[k] = Latest(o, d[k])
          BY <2>5 DEF o
        <4> QED BY <3>1, <4>1, <4>2, <4>3, Zenon
      <3> QED BY <3>3, <3>4
    <2>8. e(y) \in [Key -> Row \cup {NoRow}]
      BY <2>4, <2>5, <2>6
    <2> HIDE DEF y
    <2> QED BY <2>1, <2>7, <2>8 DEF y
  <1> HIDE DEF I
  <1>3. Seq(DataRecord) \subseteq I
    BY <1>1, <1>2, F!SequenceInduction, FInductive
  <1> QED BY <1>3, EffectIsFold DEF I

\* The writes of a running transaction are its records in the log.
LEMMA WritesOn ==
  ASSUME TypeInv, CallInv, NEW t \in Tx, pc[t] \in Holding
  PROVE  /\ \A k \in Key : k \in KeysWritten(t) <=> Wrote(wal, t, k)
         /\ \A d \in [Key -> Row \cup {NoRow}] :
              /\ Client!Effect(d, writes[t]) \in [Key -> Row \cup {NoRow}]
              /\ \A k \in Key : Client!Effect(d, writes[t])[k] = Latest(UndoOn(wal, t, k), d[k])
  <1> DEFINE q == Only(wal, DataOf(t))
  <1>1. wal \in Seq(Record)
    BY TypeInvFacts
  <1>2. writes[t] = Images(q)
    BY DEF CallInv, WritesLogged, Logged
  <1>3. q \in Seq(Record) /\ q \in Seq(DataRecord)
    <2>1. q \in Seq(Record) /\ q \in Seq(Record \cap DataOf(t))
      BY <1>1, OnlyType, Zenon
    <2>2. Seq(Record \cap DataOf(t)) \subseteq Seq(DataRecord)
      BY DEF DataOf
    <2> QED BY <2>1, <2>2
  <1>4. \A k : Only(q, OnKey(k)) = UndoOn(wal, t, k)
    <2>1. \A k : DataOf(t) \cap OnKey(k) = OnKeyOf(t, k)
      BY DEF DataOf, OnKey, OnKeyOf
    <2> QED BY <1>1, <2>1, OnlyOnly DEF UndoOn
  <1> HIDE DEF q
  <1>5. ASSUME NEW k \in Key
        PROVE  k \in KeysWritten(t) <=> Wrote(wal, t, k)
    <2>1. k \in KeysWritten(t) <=> \E i \in DOMAIN q : q[i].key = k
      <3>1. DOMAIN Images(q) = DOMAIN q /\ \A i \in DOMAIN q : Images(q)[i].key = q[i].key
        BY DEF Images
      <3> QED BY <1>2, <3>1 DEF KeysWritten, ToSet
    <2>2. (\E i \in DOMAIN q : q[i].key = k) <=> \E r \in ToSet(q) : r \in OnKey(k)
      BY <1>3 DEF ToSet, OnKey
    <2>3. ToSet(Only(q, OnKey(k))) = ToSet(q) \cap OnKey(k)
      BY <1>3, OnlyRange, Zenon
    <2>4. Only(q, OnKey(k)) \in Seq(Record)
      BY <1>3, OnlyType, Zenon
    <2>5. \A z \in Seq(Record) : z = <<>> <=> ToSet(z) = {}
      BY DEF ToSet
    <2> QED BY <1>4, <2>1, <2>2, <2>3, <2>4, <2>5 DEF Wrote
  <1> QED BY <1>2, <1>3, <1>4, <1>5, EffectOn

\* The records of a transaction on a key are records.
LEMMA UndoOnType ==
  ASSUME NEW log \in Seq(Record), NEW t, NEW k
  PROVE  UndoOn(log, t, k) \in Seq(Record)
  BY OnlyType, Zenon DEF UndoOn

\* From log to w there is one record more to undo.
OneMore(log, w, r) ==
  \A u, j : UndoOn(w, u, j) = IF r.key = j /\ r.tx = u
                                THEN Append(UndoOn(log, u, j), r) ELSE UndoOn(log, u, j)

\* Who has written a key then, over what, and what.
LEMMA UpdateLogged ==
  ASSUME NEW log \in Seq(Record), NEW w, NEW t, NEW k, NEW r \in Record, OneMore(log, w, r),
         r.key = k, r.tx = t
  PROVE  /\ Wrote(w, t, k) /\ Newest(w, t, k) = r.after
         /\ Oldest(w, t, k) = IF Wrote(log, t, k) THEN Oldest(log, t, k) ELSE r.before
         /\ \A u, j : u # t \/ j # k => /\ Wrote(w, u, j) = Wrote(log, u, j)
                                        /\ Oldest(w, u, j) = Oldest(log, u, j)
                                        /\ Newest(w, u, j) = Newest(log, u, j)
  <1> DEFINE q == UndoOn(log, t, k)
  <1>1. q \in Seq(Record)
    BY UndoOnType
  <1>2. UndoOn(w, t, k) = Append(q, r)
    BY DEF OneMore
  <1> HIDE DEF q
  <1>3. Append(q, r) # <<>> /\ Append(q, r)[1] = IF q = <<>> THEN r ELSE q[1]
    <2>1. Len(Append(q, r)) = Len(q) + 1 /\ Append(q, r)[Len(q) + 1] = r /\ Len(q) \in Nat
          /\ \A i \in 1 .. Len(q) : Append(q, r)[i] = q[i]
      BY <1>1
    <2>2. Append(q, r) # <<>>
      BY <1>1
    <2>3. CASE q = <<>>
      <3>1. Len(q) = 0
        BY <2>3
      <3> QED BY <2>1, <2>2, <2>3, <3>1
    <2>4. CASE q # <<>>
      <3>1. 1 \in 1 .. Len(q)
        BY <1>1, <2>4
      <3>2. Append(q, r)[1] = q[1]
        BY <2>1, <3>1
      <3> QED BY <2>2, <2>4, <3>2, Zenon
    <2> QED BY <2>3, <2>4
  <1>4. Latest(Append(q, r), NoRow) = r.after
    BY <1>1, LatestIsLast
  <1>5. Wrote(w, t, k) /\ Newest(w, t, k) = r.after
    BY <1>2, <1>3, <1>4, Zenon DEF Wrote, Newest
  <1>6. Oldest(w, t, k) = IF Wrote(log, t, k) THEN Oldest(log, t, k) ELSE r.before
    <2>1. CASE q = <<>>
      BY <1>2, <1>3, <2>1, Zenon DEF Oldest, Wrote, q
    <2>2. CASE q # <<>>
      BY <1>2, <1>3, <2>2, Zenon DEF Oldest, Wrote, q
    <2> QED BY <2>1, <2>2
  <1>7. \A u, j : u # t \/ j # k => UndoOn(w, u, j) = UndoOn(log, u, j)
    BY DEF OneMore
  <1> QED BY <1>5, <1>6, <1>7 DEF Wrote, Oldest, Newest

\* An update of a key that no other transaction is writing.
LEMMA UpdateAtom ==
  ASSUME TypeInv, TypeInv', CallInv, AtomInv, NEW t \in Tx, Update(t), Foresee
  PROVE  AtomInv' /\ durable' = durable
  <1> DEFINE P == Pending(wal, pc)
             A == Aborted(wal, pc)
  <1>1. PICK k \in Key, row \in Row : Visible(store, k) # NoRow /\ WriteBlock(t, k, row)
    BY DEF Update
  <1> DEFINE r == Operation(t, k, BeforeImage(store, k), row)
  <1>2. /\ Step(t, {"active"}, "active") /\ Lockable(t, k) /\ pc' = pc
        /\ store' = Written(store, k, row) /\ wal' = Append(wal, r)
        /\ UNCHANGED workload /\ server' = server
    BY <1>1, StatementTypes DEF WriteBlock, Statement, memory
  <1>3. Good(store) /\ wal \in Seq(Record)
    BY TypeInvFacts
  <1>4. Shows(store, store', k, row) /\ BeforeImage(store, k) = Visible(store, k)
        /\ Visible(store, k) \in Row
    <2>1. Visible(store, k) \in Row \cup {NoRow}
      BY <1>3, VisibleOfRow DEF Good
    <2> QED BY <1>1, <1>2, <1>3, <2>1, WrittenGood
  <1>5. /\ r \in Change /\ r \in Record /\ r.tx = t /\ r.key = k
        /\ r.before = Visible(store, k) /\ r.after = row
    <2>1. row # NoRow
      BY NoRowAssumption
    <2> QED BY <1>1, <1>4, <2>1, OperationType DEF Change, DataRecord
  <1> HIDE DEF r
  <1>6. /\ pc[t] = "active" /\ server = "up" /\ P = {u \in Tx : pc[u] \in Live}
        /\ \A u \in Tx : pc[u] \in {"begin", "active", "wounded", "done"}
        /\ ~Flushing(pc)
    <2>1. "active" \in Place /\ "active" \notin Committed
      BY DEF Place, Committed
    <2> QED BY <1>2, <2>1, AtomPlaces
  <1>7. /\ Named(wal') = Named(wal)
        /\ \A a \in {"start", "commit", "abort"} : With(After(wal'), a) = With(After(wal), a)
        /\ \A B, j : RedoOf(wal', B, j) = IF r.key = j /\ r.tx \notin B
                                            THEN Append(RedoOf(wal, B, j), r) ELSE RedoOf(wal, B, j)
        /\ \A u, j : UndoOn(wal', u, j) = IF r.key = j /\ r.tx = u
                                            THEN Append(UndoOn(wal, u, j), r) ELSE UndoOn(wal, u, j)
        /\ OnlyUpdates(wal')
    BY <1>2, <1>3, <1>4, <1>5, OperationAppended DEF AtomInv
  <1>8. Aborted(wal', pc') = A /\ Pending(wal', pc') = P
    BY <1>2, <1>7 DEF Aborted, Pending
  <1>9. t \in P /\ t \notin A
    <2>1. t \in P
      BY <1>6 DEF Live, Holding
    <2> QED BY <2>1 DEF Pending
  <1>10. \A u \in P : u \in Tx /\ pc[u] \in {"active", "wounded"} /\ pc[u] \in Holding
    BY <1>6 DEF Live, Holding
  <1>11. \A u \in P : u # t => ~Wrote(wal, u, k)
    <2>1. ~workload.overwrite
      BY DEF AtomInv, UpdatesOnly
    <2> QED BY <1>2, <1>10, <2>1, WritesOn DEF Lockable
  <1>12. /\ Wrote(wal', t, k) /\ Newest(wal', t, k) = row
         /\ Oldest(wal', t, k) = IF Wrote(wal, t, k) THEN Oldest(wal, t, k) ELSE Visible(store, k)
         /\ \A u, j : u # t \/ j # k => /\ Wrote(wal', u, j) = Wrote(wal, u, j)
                                        /\ Oldest(wal', u, j) = Oldest(wal, u, j)
                                        /\ Newest(wal', u, j) = Newest(wal, u, j)
    <2>1. OneMore(wal, wal', r)
      BY <1>7 DEF OneMore
    <2> HIDE DEF P, A
    <2>2. /\ Wrote(wal', t, k) /\ Newest(wal', t, k) = r.after
          /\ Oldest(wal', t, k) = IF Wrote(wal, t, k) THEN Oldest(wal, t, k) ELSE r.before
          /\ \A u, j : u # t \/ j # k => /\ Wrote(wal', u, j) = Wrote(wal, u, j)
                                         /\ Oldest(wal', u, j) = Oldest(wal, u, j)
                                         /\ Newest(wal', u, j) = Newest(wal, u, j)
      BY <1>3, <1>5, <2>1, UpdateLogged
    <2> QED BY <1>5, <2>2
  <1>13. /\ Visible(store', k) = row
         /\ \A j \in Key : /\ j # k => Visible(store', j) = Visible(store, j)
                           /\ store'.disk[j] \in {store.disk[j], Visible(store, j)}
    BY <1>4 DEF Shows
  <1>14. DiskOf(store, pc) = store.disk /\ DiskOf(store', pc') = store'.disk /\ ~Flushing(pc')
         /\ (DiskOf(store, pc))' = store'.disk
    BY <1>2, <1>6 DEF DiskOf, Flushing
  <1>15. \A j \in Key : Latest(RedoOf(wal, A, j), store.disk[j]) = Visible(store, j)
    <2>1. \A j \in Key : ~UndoneKey(j)
      BY <1>6 DEF UndoneKey
    <2> QED BY <1>6, <1>14, <2>1 DEF AtomInv, RedoVisible
  <1>16. \A j \in Key : j # k => Latest(RedoOf(wal', A, j), store'.disk[j]) = Visible(store, j)
    <2>1. \A j \in Key : j # k => RedoOf(wal', A, j) = RedoOf(wal, A, j)
      BY <1>5, <1>7
    <2>2. \A j \in Key : Latest(RedoOf(wal, A, j), Visible(store, j)) = Visible(store, j)
      BY <1>15, LatestAgain
    <2> QED BY <1>13, <1>15, <2>1, <2>2
  <1>17. Latest(RedoOf(wal', A, k), store'.disk[k]) = row
    <2>1. RedoOf(wal', A, k) = Append(RedoOf(wal, A, k), r)
      BY <1>5, <1>7, <1>9
    <2>2. RedoOf(wal, A, k) \in Seq(Record)
      BY <1>3, AfterType, OnlyType, Zenon DEF RedoOf
    <2> QED BY <1>5, <2>1, <2>2, LatestIsLast
  <1> HIDE DEF P, A
  <1>18. ASSUME NEW j \in Key
         PROVE  durable'[j] = durable[j]
    <2>0. /\ Unwritten(wal', P, j) =>
               durable'[j] = Latest(RedoOf(wal', A, j), store'.disk[j])
          /\ \A u \in Tx : OnlyWriter(wal', P, u, j) => durable'[j] = Oldest(wal', u, j)
      BY <1>2, <1>7, <1>8, <1>14, Foreseen
    <2>00. /\ Unwritten(wal, P, j) => durable[j] = Visible(store, j)
           /\ \A u \in Tx : OnlyWriter(wal, P, u, j) => durable[j] = Oldest(wal, u, j)
      BY <1>14, <1>15 DEF AtomInv, Foretold, P, A
    <2>1. CASE j = k
      <3>1. OnlyWriter(wal', P, t, k)
        BY <1>9, <1>11, <1>12 DEF OnlyWriter
      <3>2. CASE Wrote(wal, t, k)
        <4>1. OnlyWriter(wal, P, t, k)
          BY <1>9, <1>11, <3>2 DEF OnlyWriter
        <4> QED BY <1>12, <2>0, <2>00, <2>1, <3>1, <3>2, <4>1
      <3>3. CASE ~Wrote(wal, t, k)
        <4>1. Unwritten(wal, P, k)
          BY <1>11, <3>3 DEF Unwritten
        <4> QED BY <1>12, <2>0, <2>00, <2>1, <3>1, <3>3, <4>1
      <3> QED BY <3>2, <3>3
    <2>2. CASE j # k
      <3>1. CASE Unwritten(wal, P, j)
        <4>1. Unwritten(wal', P, j)
          BY <1>12, <2>2, <3>1 DEF Unwritten
        <4> QED BY <1>16, <2>0, <2>00, <2>2, <3>1, <4>1
      <3>2. ASSUME NEW u \in P, OnlyWriter(wal, P, u, j)
            PROVE  durable'[j] = durable[j]
        <4>1. OnlyWriter(wal', P, u, j)
          BY <1>12, <2>2, <3>2 DEF OnlyWriter
        <4> QED BY <1>10, <1>12, <2>0, <2>00, <2>2, <3>2, <4>1
      <3> QED BY <3>1, <3>2, OneOrNone DEF P
    <2> QED BY <2>1, <2>2
  <1>19. durable' = durable
    BY <1>18, SameDurable
  <1>20. PendingLive' /\ PendingStarted' /\ UndoLogged'
    <2>1. \A u : Started(wal, u) => Started(wal', u)
      BY <1>2, <1>3, <1>5, AppendKeeps
    <2> QED BY <1>2, <1>6, <1>8, <2>1 DEF AtomInv, PendingLive, PendingStarted, UndoLogged, P, Undoing
  <1>21. OneWriter'
    BY <1>8, <1>11, <1>12 DEF AtomInv, OneWriter, P
  <1>22. Foretold'
    BY <1>2, <1>7, Foreseen
  <1>23. SettledRedo'
    <2>1. \A j \in Key : RedoOf(wal', A \cup P, j) = RedoOf(wal, A \cup P, j)
      BY <1>5, <1>7, <1>9
    <2> QED BY <1>8, <1>19, <2>1 DEF AtomInv, SettledRedo, A, P
  <1>24. RedoVisible' /\ UndoneVisible'
    <2>1. \A j \in Key : Latest(RedoOf(wal', A, j), store'.disk[j]) = Visible(store', j)
      BY <1>13, <1>16, <1>17
    <2>2. \A j \in Key : ~UndoneKey(j)'
      BY <1>2, <1>6 DEF UndoneKey
    <2> QED BY <1>8, <1>14, <2>1, <2>2 DEF RedoVisible, UndoneVisible
  <1>25. WriterSees'
    <2>1. ASSUME NEW j \in Key, NEW u \in Tx, pc'[u] \in Holding, Wrote(wal', u, j)
          PROVE  Newest(wal', u, j) = Visible(store', j)
      <3>1. u \in P
        BY <1>2, <1>6, <2>1 DEF Live, P
      <3>2. CASE u = t /\ j = k
        BY <1>12, <1>13, <3>2
      <3>3. CASE u # t \/ j # k
        <4>1. Wrote(wal, u, j) /\ Newest(wal', u, j) = Newest(wal, u, j)
          BY <1>12, <2>1, <3>3
        <4>2. j # k
          BY <1>11, <3>1, <3>3, <4>1
        <4> QED BY <1>2, <1>13, <2>1, <4>1, <4>2 DEF AtomInv, WriterSees
      <3> QED BY <3>2, <3>3
    <2> QED BY <2>1 DEF WriterSees
  <1>26. FlushedFirst' /\ CutAtEnd' /\ EmptyDown' /\ UpdatesOnly'
    BY <1>2, <1>6 DEF AtomInv, FlushedFirst, CutAtEnd, EmptyDown, UpdatesOnly
  <1> QED BY <1>7, <1>19, <1>20, <1>21, <1>22, <1>23, <1>24, <1>25, <1>26 DEF AtomInv

\* The commit record: what the transaction has written is durable now.
LEMMA LogCommitAtom ==
  ASSUME TypeInv, TypeInv', CallInv, AtomInv, NEW t \in Tx, LogCommit(t), Foresee
  PROVE  AtomInv' /\ durable' = Client!Effect(durable, writes[t])
  <1> DEFINE P == Pending(wal, pc)
             A == Aborted(wal, pc)
             Q == P \ {t}
  <1>1. /\ Step(t, {"log_commit"}, "notify_commit") /\ wal' = Append(wal, Lifecycle("commit", t))
        /\ UNCHANGED <<workload, store, server>>
    BY DEF LogCommit, memory
  <1>2. /\ pc'[t] = "notify_commit" /\ pc[t] = "log_commit" /\ server = "up"
        /\ \A u \in Tx \ {t} : pc'[u] = pc[u] /\ pc[u] \in {"begin", "active", "wounded", "done"}
        /\ P = {u \in Tx : pc[u] \in Live}
        /\ ~Flushing(pc)
    <2>1. "notify_commit" \in Place /\ "log_commit" \notin Committed
      BY DEF Place, Commits, Committed
    <2> QED BY <1>1, <2>1, AtomPlaces
  <1>3. wal \in Seq(Record) /\ Lifecycle("commit", t) \in Record /\ Good(store)
    BY TypeInvFacts, LifecycleType
  <1>4. /\ Named(wal') = Named(wal)
        /\ \A a : With(After(wal'), a) = With(After(wal), a) \cup (IF a = "commit" THEN {t} ELSE {})
        /\ \A B, k : RedoOf(wal', B, k) = RedoOf(wal, B, k)
        /\ \A u, k : UndoOn(wal', u, k) = UndoOn(wal, u, k)
        /\ OnlyUpdates(wal')
    BY <1>1, <1>3, LifecycleAppended DEF AtomInv
  <1>5. \A u \in Tx : /\ pc[u] \notin Undoing /\ pc[u] # "flush_undone"
                      /\ pc'[u] \notin Undoing
                      /\ pc'[u] \notin {"flush_undone", "checkpoint", "clear"}
    BY <1>2 DEF Undoing
  <1>6. With(After(wal), "abort") \subseteq Tx
    <2>1. ToSet(After(wal)) \subseteq Record
      BY <1>3, InLog
    <2> QED BY <2>1, RecordFields DEF With
  <1>7. Aborted(wal', pc') = A
    BY <1>4, <1>5, <1>6 DEF Aborted
  <1>8. Pending(wal', pc') = Q
    BY <1>4, <1>7 DEF Pending
  <1>9. t \in P /\ P \subseteq Tx
    BY <1>2 DEF Live, Holding
  <1>10. \A u, k : /\ Wrote(wal', u, k) = Wrote(wal, u, k)
                   /\ Oldest(wal', u, k) = Oldest(wal, u, k)
                   /\ Newest(wal', u, k) = Newest(wal, u, k)
    BY <1>4 DEF Wrote, Oldest, Newest
  <1>11. \A k \in Key : Latest(RedoOf(wal, A, k), store.disk[k]) = Visible(store, k)
    <2>1. \A k \in Key : ~UndoneKey(k)
      BY <1>5 DEF UndoneKey
    <2>2. DiskOf(store, pc) = store.disk
      BY <1>2 DEF DiskOf
    <2> QED BY <1>2, <2>1, <2>2 DEF AtomInv, RedoVisible
  <1>12. \A k \in Key : /\ Latest(RedoOf(wal', A, k), DiskOf(store', pc')[k]) = Visible(store, k)
                        /\ Latest(RedoOf(wal, A, k), Visible(store, k)) = Visible(store, k)
    <2>1. \A k \in Key : DiskOf(store', pc')[k] \in {store.disk[k], Visible(store, k)}
      BY <1>1, <1>3, DiskOfIs
    <2>2. \A k \in Key : Latest(RedoOf(wal, A, k), Visible(store, k)) = Visible(store, k)
      BY <1>11, LatestAgain
    <2> QED BY <1>4, <1>11, <2>1, <2>2
  <1> HIDE DEF P, A
  <1>13. \A k \in Key, u \in P : Wrote(wal, t, k) /\ Wrote(wal, u, k) => u = t
    BY <1>9 DEF AtomInv, OneWriter, P
  <1>14. ASSUME NEW k \in Key
         PROVE  durable'[k] = IF Wrote(wal, t, k) THEN Visible(store, k) ELSE durable[k]
    <2>1. /\ Unwritten(wal', Q, k) => durable'[k] = Visible(store, k)
          /\ \A u \in Tx : OnlyWriter(wal', Q, u, k) => durable'[k] = Oldest(wal', u, k)
      BY <1>1, <1>4, <1>7, <1>8, <1>12, Foreseen
    <2>2. /\ Unwritten(wal, P, k) => durable[k] = Visible(store, k)
          /\ \A u \in Tx : OnlyWriter(wal, P, u, k) => durable[k] = Oldest(wal, u, k)
      <3>1. DiskOf(store, pc) = store.disk
        BY <1>2 DEF DiskOf
      <3> QED BY <1>11, <3>1 DEF AtomInv, Foretold, P, A
    <2>3. CASE Wrote(wal, t, k)
      <3>1. Unwritten(wal', Q, k)
        BY <1>10, <1>13, <2>3 DEF Unwritten
      <3> QED BY <2>1, <2>3, <3>1
    <2>4. CASE ~Wrote(wal, t, k)
      <3>1. CASE Unwritten(wal, P, k)
        <4>1. Unwritten(wal', Q, k)
          BY <1>10, <3>1 DEF Unwritten
        <4> QED BY <2>1, <2>2, <2>4, <3>1, <4>1
      <3>2. ASSUME NEW u \in P, OnlyWriter(wal, P, u, k)
            PROVE  durable'[k] = durable[k]
        <4>1. OnlyWriter(wal', Q, u, k)
          BY <1>10, <2>4, <3>2 DEF OnlyWriter
        <4> QED BY <1>9, <1>10, <2>1, <2>2, <3>2, <4>1
      <3> QED BY <2>4, <3>1, <3>2, OneOrNone DEF P
    <2> QED BY <2>3, <2>4
  <1>15. durable' = Client!Effect(durable, writes[t])
    <2>1. durable \in [Key -> Row \cup {NoRow}] /\ durable' \in [Key -> Row \cup {NoRow}]
      BY DEF TypeInv, TypeOK
    <2>2. pc[t] \in Holding
      BY <1>2 DEF Holding
    <2>3. /\ Client!Effect(durable, writes[t]) \in [Key -> Row \cup {NoRow}]
          /\ \A k \in Key : Client!Effect(durable, writes[t])[k] = Latest(UndoOn(wal, t, k), durable[k])
      BY <2>1, <2>2, WritesOn
    <2>4. ASSUME NEW k \in Key
          PROVE  durable'[k] = Latest(UndoOn(wal, t, k), durable[k])
      <3>1. CASE Wrote(wal, t, k)
        <4>1. Newest(wal, t, k) = Visible(store, k)
          BY <2>2, <3>1 DEF AtomInv, WriterSees
        <4>2. Latest(UndoOn(wal, t, k), durable[k]) = Newest(wal, t, k)
          BY <3>1, Zenon DEF Latest, Newest, Wrote
        <4> QED BY <1>14, <3>1, <4>1, <4>2
      <3>2. CASE ~Wrote(wal, t, k)
        <4>1. Latest(UndoOn(wal, t, k), durable[k]) = durable[k]
          BY <3>2, Zenon DEF Latest, Wrote
        <4> QED BY <1>14, <3>2, <4>1
      <3> QED BY <3>1, <3>2
    <2>5. \A k \in Key : durable'[k] = Client!Effect(durable, writes[t])[k]
      BY <2>3, <2>4
    <2> QED BY <2>1, <2>3, <2>5
  <1>16. PendingLive' /\ PendingStarted' /\ UndoLogged' /\ OneWriter'
    <2>1. \A u : Started(wal, u) => Started(wal', u)
      BY <1>1, <1>3, AppendKeeps
    <2>2. pc'[t] \notin Live
      BY <1>2 DEF Live, Holding
    <2>3. Q = {u \in Tx : pc'[u] \in Live}
      BY <1>2, <2>2 DEF P
    <2>4. \A u \in Q : u \in P
      OBVIOUS
    <2> HIDE DEF Q
    <2>5. PendingLive' /\ PendingStarted' /\ UndoLogged'
      BY <1>5, <1>8, <2>1, <2>3, <2>4 DEF AtomInv, PendingLive, PendingStarted, UndoLogged, P
    <2>6. OneWriter'
      BY <1>8, <1>10, <2>4 DEF AtomInv, OneWriter, P
    <2> QED BY <2>5, <2>6
  <1>17. Foretold'
    BY <1>1, <1>4, Foreseen
  <1>18. SettledRedo'
    <2>1. ASSUME NEW k \in Key
          PROVE  Latest(RedoOf(wal', A \cup Q, k), durable'[k]) = durable'[k]
      <3>1. CASE Wrote(wal, t, k)
        <4>1. \A u \in ((A \cup Q) \ A) \cup (A \ (A \cup Q)) : ~Wrote(wal, u, k)
          BY <1>13, <3>1
        <4>2. RedoOf(wal, A \cup Q, k) = RedoOf(wal, A, k)
          BY <1>3, <4>1, NotRedone
        <4> QED BY <1>4, <1>12, <1>14, <3>1, <4>2
      <3>2. CASE ~Wrote(wal, t, k)
        <4>1. \A u \in ((A \cup Q) \ (A \cup P)) \cup ((A \cup P) \ (A \cup Q)) : ~Wrote(wal, u, k)
          BY <3>2
        <4>2. RedoOf(wal, A \cup Q, k) = RedoOf(wal, A \cup P, k)
          BY <1>3, <4>1, NotRedone
        <4>3. Latest(RedoOf(wal, A \cup P, k), durable[k]) = durable[k]
          BY DEF AtomInv, SettledRedo, A, P
        <4> QED BY <1>4, <1>14, <3>2, <4>2, <4>3
      <3> QED BY <3>1, <3>2
    <2> HIDE DEF Q
    <2> QED BY <1>7, <1>8, <2>1 DEF SettledRedo
  <1>19. RedoVisible' /\ UndoneVisible'
    <2>1. \A k \in Key : ~UndoneKey(k)'
      BY <1>5 DEF UndoneKey
    <2>2. (DiskOf(store, pc))' = DiskOf(store', pc')
      BY <1>1 DEF DiskOf, Flushing
    <2> QED BY <1>1, <1>7, <1>12, <2>1, <2>2 DEF RedoVisible, UndoneVisible
  <1>20. WriterSees'
    <2>1. \A u \in Tx : pc'[u] \in Holding => pc[u] \in Holding
      BY <1>2 DEF Holding
    <2> QED BY <1>1, <1>10, <2>1 DEF AtomInv, WriterSees
  <1>21. FlushedFirst' /\ CutAtEnd' /\ EmptyDown' /\ UpdatesOnly'
    BY <1>1, <1>2, <1>5 DEF AtomInv, FlushedFirst, CutAtEnd, EmptyDown, UpdatesOnly
  <1> QED BY <1>4, <1>15, <1>16, <1>17, <1>18, <1>19, <1>20, <1>21 DEF AtomInv

\* The flush of a commit.
LEMMA FlushAtom ==
  ASSUME TypeInv, TypeInv', CallInv, AtomInv, NEW t \in Tx, FlushDirty(t, "flush", "checkpoint"),
         Foresee
  PROVE  AtomInv' /\ durable' = durable
  <1> DEFINE P == Pending(wal, pc)
             A == Aborted(wal, pc)
  <1>1. /\ Step(t, {"flush"}, "checkpoint") /\ store' = Flushed(store)
        /\ UNCHANGED <<workload, wal, server>>
    BY DEF FlushDirty, memory
  <1>2. /\ pc'[t] = "checkpoint" /\ pc[t] = "flush" /\ server = "up"
        /\ \A u \in Tx \ {t} : pc'[u] = pc[u] /\ pc[u] \in {"begin", "active", "wounded", "done"}
        /\ P = {u \in Tx : pc[u] \in Live}
        /\ ~Flushing(pc')
    <2>1. "checkpoint" \in Place /\ "checkpoint" \notin Committed
      BY DEF Place, Commits, Committed
    <2> QED BY <1>1, <2>1, AtomPlaces
  <1>3. wal \in Seq(Record) /\ Good(store)
    BY TypeInvFacts
  <1>4. \A u \in Tx : /\ pc[u] \notin Undoing /\ pc[u] # "flush_undone"
                      /\ pc'[u] \notin Undoing /\ pc'[u] \notin {"flush_undone", "clear"}
                      /\ pc'[u] \in Live <=> pc[u] \in Live
                      /\ pc'[u] \in Holding => pc[u] \in Holding
    BY <1>2 DEF Undoing, Live, Holding
  <1>5. With(After(wal), "abort") \subseteq Tx
    <2>1. ToSet(After(wal)) \subseteq Record
      BY <1>3, InLog
    <2> QED BY <2>1, RecordFields DEF With
  <1>6. Aborted(wal', pc') = A /\ Pending(wal', pc') = P /\ P \subseteq Tx
    <2>1. Aborted(wal', pc') = A
      BY <1>1, <1>4, <1>5 DEF Aborted
    <2> QED BY <1>1, <1>2, <2>1 DEF Pending
  <1>7. \A k \in Key : store'.disk[k] = Visible(store, k) /\ Visible(store', k) = Visible(store, k)
    BY <1>1, <1>3, FlushedGood
  <1>8. DiskOf(store', pc') = store'.disk /\ (DiskOf(store, pc))' = store'.disk
    BY <1>1, <1>2 DEF DiskOf, Flushing
  <1>9. \A k \in Key : /\ Latest(RedoOf(wal, A, k), DiskOf(store, pc)[k]) = Visible(store, k)
                       /\ Latest(RedoOf(wal, A, k), Visible(store, k)) = Visible(store, k)
    <2>1. \A k \in Key : ~UndoneKey(k)
      BY <1>4 DEF UndoneKey
    <2>2. \A k \in Key : Latest(RedoOf(wal, A, k), DiskOf(store, pc)[k]) = Visible(store, k)
      BY <1>2, <2>1 DEF AtomInv, RedoVisible
    <2> QED BY <2>2, LatestAgain
  <1> HIDE DEF P, A
  <1>10. OnlyUpdates(wal')
    BY <1>1 DEF AtomInv
  <1>11. ASSUME NEW k \in Key
         PROVE  durable'[k] = durable[k]
    <2>1. /\ Unwritten(wal, P, k) => durable'[k] = Visible(store, k)
          /\ \A u \in Tx : OnlyWriter(wal, P, u, k) => durable'[k] = Oldest(wal, u, k)
      BY <1>1, <1>6, <1>7, <1>8, <1>9, <1>10, Foreseen
    <2>2. /\ Unwritten(wal, P, k) => durable[k] = Visible(store, k)
          /\ \A u \in Tx : OnlyWriter(wal, P, u, k) => durable[k] = Oldest(wal, u, k)
      BY <1>9 DEF AtomInv, Foretold, P, A
    <2>3. CASE Unwritten(wal, P, k)
      BY <2>1, <2>2, <2>3
    <2>4. ASSUME NEW u \in P, OnlyWriter(wal, P, u, k)
          PROVE  durable'[k] = durable[k]
      BY <1>6, <2>1, <2>2, <2>4
    <2> QED BY <2>3, <2>4, OneOrNone DEF P
  <1>12. durable' = durable
    BY <1>11, SameDurable
  <1>13. PendingLive' /\ PendingStarted' /\ UndoLogged' /\ OneWriter'
    BY <1>1, <1>2, <1>4, <1>6 DEF AtomInv, PendingLive, PendingStarted, UndoLogged, OneWriter, P
  <1>14. Foretold'
    BY <1>1, <1>10, Foreseen
  <1>15. SettledRedo'
    BY <1>1, <1>6, <1>12 DEF AtomInv, SettledRedo, A, P
  <1>16. RedoVisible' /\ UndoneVisible'
    <2>1. \A k \in Key : ~UndoneKey(k)'
      BY <1>4 DEF UndoneKey
    <2> QED BY <1>1, <1>6, <1>7, <1>8, <1>9, <2>1 DEF RedoVisible, UndoneVisible
  <1>17. WriterSees'
    BY <1>1, <1>4, <1>7 DEF AtomInv, WriterSees
  <1>18. FlushedFirst'
    BY <1>7 DEF FlushedFirst
  <1>19. CutAtEnd' /\ EmptyDown' /\ UpdatesOnly'
    BY <1>1, <1>2, <1>4 DEF AtomInv, CutAtEnd, EmptyDown, UpdatesOnly
  <1> QED BY <1>10, <1>12, <1>13, <1>14, <1>15, <1>16, <1>17, <1>18, <1>19 DEF AtomInv

\* The checkpoint record: recovery starts from the disk, and still knows who runs.
LEMMA LogCheckpointAtom ==
  ASSUME TypeInv, TypeInv', CallInv, AtomInv, NEW t \in Tx, LogCheckpoint(t), Foresee
  PROVE  AtomInv' /\ durable' = durable
  <1> DEFINE P == Pending(wal, pc)
             A == Aborted(wal, pc)
  <1>1. /\ Step(t, {"checkpoint"}, "clear") /\ wal' = Append(wal, Checkpoint(ongoing[t]))
        /\ UNCHANGED <<workload, store, server>>
    BY DEF LogCheckpoint, memory
  <1>2. /\ pc'[t] = "clear" /\ pc[t] = "checkpoint" /\ server = "up"
        /\ \A u \in Tx \ {t} : pc'[u] = pc[u] /\ pc[u] \in {"begin", "active", "wounded", "done"}
        /\ P = {u \in Tx : pc[u] \in Live}
        /\ ~Flushing(pc) /\ ~Flushing(pc')
    <2>1. "clear" \in Place /\ "clear" \notin Committed /\ "checkpoint" \notin Committed
      BY DEF Place, Commits, Committed
    <2> QED BY <1>1, <2>1, AtomPlaces
  <1>3. wal \in Seq(Record) /\ Good(store) /\ ongoing[t] \in SUBSET Tx
    BY TypeInvFacts
  <1>4. \A u \in Tx : /\ pc[u] # "flush_undone"
                      /\ pc'[u] \notin Undoing /\ pc'[u] \notin {"flush_undone", "checkpoint"}
                      /\ pc'[u] \in Live <=> pc[u] \in Live
                      /\ pc'[u] \in Holding => pc[u] \in Holding
    BY <1>2 DEF Undoing, Live, Holding
  <1>5. ongoing[t] = P
    <2>1. ongoing[t] = {u \in Tx : pc[u] \in {"active", "wounded"}}
      BY <1>2 DEF CallInv, OngoingListed
    <2> QED BY <1>2, <2>1 DEF Live, Holding
  <1>6. /\ Named(wal') = P /\ After(wal') = <<>>
        /\ \A a : With(After(wal'), a) = {}
        /\ \A B, k : RedoOf(wal', B, k) = <<>>
        /\ \A u, k : UndoOn(wal', u, k) = UndoOn(wal, u, k)
        /\ OnlyUpdates(wal')
    BY <1>1, <1>3, <1>5, CheckpointAppended DEF AtomInv
  <1>7. Pending(wal', pc') = P
    BY <1>6 DEF Aborted, Pending
  <1>8. \A u, k : /\ Wrote(wal', u, k) = Wrote(wal, u, k)
                  /\ Oldest(wal', u, k) = Oldest(wal, u, k)
                  /\ Newest(wal', u, k) = Newest(wal, u, k)
    BY <1>6 DEF Wrote, Oldest, Newest
  <1>9. /\ DiskOf(store, pc) = store.disk /\ DiskOf(store', pc') = store.disk
        /\ (DiskOf(store, pc))' = store.disk
    BY <1>1, <1>2 DEF DiskOf, Flushing
  <1>10. \A k \in Key : store.disk[k] = Visible(store, k)
    BY <1>2 DEF AtomInv, FlushedFirst
  <1>11. \A k \in Key : Latest(RedoOf(wal, A, k), store.disk[k]) = Visible(store, k)
    <2>1. \A k \in Key : ~UndoneKey(k)
      BY <1>4 DEF UndoneKey
    <2> QED BY <1>2, <1>9, <2>1 DEF AtomInv, RedoVisible
  <1>12. \A B, k, d : Latest(RedoOf(wal', B, k), d) = d
    BY <1>6, Zenon DEF Latest
  <1> HIDE DEF P, A
  <1>13. ASSUME NEW k \in Key
         PROVE  durable'[k] = durable[k]
    <2>1. /\ Unwritten(wal', P, k) => durable'[k] = Visible(store, k)
          /\ \A u \in Tx : OnlyWriter(wal', P, u, k) => durable'[k] = Oldest(wal', u, k)
      BY <1>1, <1>6, <1>7, <1>9, <1>10, <1>12, Foreseen
    <2>2. /\ Unwritten(wal, P, k) => durable[k] = Visible(store, k)
          /\ \A u \in Tx : OnlyWriter(wal, P, u, k) => durable[k] = Oldest(wal, u, k)
      BY <1>9, <1>11 DEF AtomInv, Foretold, P, A
    <2>3. CASE Unwritten(wal, P, k)
      BY <1>8, <2>1, <2>2, <2>3 DEF Unwritten
    <2>4. ASSUME NEW u \in P, OnlyWriter(wal, P, u, k)
          PROVE  durable'[k] = durable[k]
      <3>1. OnlyWriter(wal', P, u, k)
        BY <1>8, <2>4 DEF OnlyWriter
      <3>2. u \in Tx
        BY <1>3, <1>5
      <3> QED BY <1>8, <2>1, <2>2, <2>4, <3>1, <3>2
    <2> QED BY <2>3, <2>4, OneOrNone DEF P
  <1>14. durable' = durable
    BY <1>13, SameDurable
  <1>15. PendingLive' /\ PendingStarted' /\ UndoLogged' /\ OneWriter'
    <2>1. \A u : Started(wal, u) => Started(wal', u)
      BY <1>1, <1>3, LifecycleType, AppendKeeps
    <2> QED BY <1>1, <1>2, <1>4, <1>7, <1>8, <2>1
          DEF AtomInv, PendingLive, PendingStarted, UndoLogged, OneWriter, P
  <1>16. Foretold'
    BY <1>1, <1>6, Foreseen
  <1>17. SettledRedo'
    BY <1>12 DEF SettledRedo
  <1>18. RedoVisible' /\ UndoneVisible'
    <2>1. \A k \in Key : ~UndoneKey(k)'
      BY <1>4 DEF UndoneKey
    <2> QED BY <1>1, <1>9, <1>10, <1>12, <2>1 DEF RedoVisible, UndoneVisible
  <1>19. WriterSees'
    BY <1>1, <1>4, <1>8 DEF AtomInv, WriterSees
  <1>20. FlushedFirst' /\ CutAtEnd'
    BY <1>4, <1>6 DEF FlushedFirst, CutAtEnd
  <1>21. EmptyDown' /\ UpdatesOnly'
    BY <1>1, <1>2 DEF AtomInv, EmptyDown, UpdatesOnly
  <1> QED BY <1>6, <1>14, <1>15, <1>16, <1>17, <1>18, <1>19, <1>20, <1>21 DEF AtomInv

\* The flush that ends an undo: from then on the operations are left out of the
\* redo, for good.
LEMMA UndoFlushAtom ==
  ASSUME TypeInv, TypeInv', CallInv, AtomInv, NEW t \in Tx,
         FlushDirty(t, "flush_undone", "notify_abort"), Foresee
  PROVE  AtomInv' /\ durable' = durable
  <1> DEFINE P == Pending(wal, pc)
             A == Aborted(wal, pc)
             Q == P \ {t}
             B == A \cup {t}
  <1>1. /\ Step(t, {"flush_undone"}, "notify_abort") /\ store' = Flushed(store)
        /\ UNCHANGED <<workload, wal, server>>
    BY DEF FlushDirty, memory
  <1>2. /\ pc'[t] = "notify_abort" /\ pc[t] = "flush_undone" /\ server = "up"
        /\ \A u \in Tx \ {t} : pc'[u] = pc[u] /\ pc[u] \in {"begin", "active", "wounded", "done"}
        /\ P = {u \in Tx : pc[u] \in Live}
        /\ ~Flushing(pc) /\ ~Flushing(pc')
    <2>1. "notify_abort" \in Place /\ "notify_abort" \notin Committed /\ "flush_undone" \notin Committed
      BY DEF Place, Aborts, Committed
    <2> QED BY <1>1, <2>1, AtomPlaces
  <1>3. wal \in Seq(Record) /\ Good(store) /\ OnlyUpdates(wal')
    BY <1>1, TypeInvFacts DEF AtomInv
  <1>4. \A u \in Tx : /\ pc'[u] \notin Undoing
                      /\ pc'[u] \notin {"flush_undone", "checkpoint", "clear"}
                      /\ u # t => pc[u] \notin Undoing /\ pc[u] # "flush_undone"
                      /\ pc'[u] \in Live <=> pc[u] \in Live /\ u # t
                      /\ pc'[u] \in Holding => pc[u] \in Holding
    BY <1>2 DEF Undoing, Live, Holding
  <1>5. With(After(wal), "abort") \subseteq Tx /\ t \in With(After(wal), "abort")
    <2>1. ToSet(After(wal)) \subseteq Record
      BY <1>3, InLog
    <2>2. pc[t] \in Undoing
      BY <1>2 DEF Undoing
    <2> QED BY <2>1, <2>2, RecordFields DEF With, AtomInv, UndoLogged
  <1>6. Aborted(wal', pc') = B
    <2>1. pc[t] \in Undoing
      BY <1>2 DEF Undoing
    <2> QED BY <1>1, <1>4, <1>5, <2>1 DEF Aborted
  <1>7. Pending(wal', pc') = Q /\ P \subseteq Tx /\ t \in P
    <2>1. Pending(wal', pc') = Q
      BY <1>1, <1>6 DEF Pending
    <2> QED BY <1>2, <2>1 DEF Live
  <1>8. \A k \in Key : store'.disk[k] = Visible(store, k) /\ Visible(store', k) = Visible(store, k)
    BY <1>1, <1>3, FlushedGood
  <1>9. /\ DiskOf(store, pc) = store.disk /\ DiskOf(store', pc') = store'.disk
        /\ (DiskOf(store, pc))' = store'.disk
    BY <1>1, <1>2 DEF DiskOf, Flushing
  <1>10. \A k \in Key : UndoneKey(k) <=> Wrote(wal, t, k)
    BY <1>2, <1>4 DEF UndoneKey
  <1> HIDE DEF P, A
  <1>11. \A k \in Key, u \in P : Wrote(wal, t, k) /\ Wrote(wal, u, k) => u = t
    BY <1>7 DEF AtomInv, OneWriter, P
  <1>12. ASSUME NEW k \in Key, Wrote(wal, t, k)
         PROVE  Latest(RedoOf(wal, B, k), Visible(store, k)) = Visible(store, k)
                /\ Visible(store, k) = durable[k]
    <2>1. Visible(store, k) = durable[k]
      BY <1>10, <1>12 DEF AtomInv, UndoneVisible
    <2>2. Latest(RedoOf(wal, A \cup P, k), durable[k]) = durable[k]
      BY DEF AtomInv, SettledRedo, A, P
    <2>3. \A u \in (B \ (A \cup P)) \cup ((A \cup P) \ B) : ~Wrote(wal, u, k)
      BY <1>7, <1>11, <1>12
    <2>4. RedoOf(wal, B, k) = RedoOf(wal, A \cup P, k)
      BY <1>3, <2>3, NotRedone
    <2> QED BY <2>1, <2>2, <2>4
  <1>13. ASSUME NEW k \in Key, ~Wrote(wal, t, k)
         PROVE  /\ Latest(RedoOf(wal, B, k), Visible(store, k)) = Visible(store, k)
                /\ Latest(RedoOf(wal, A, k), store.disk[k]) = Visible(store, k)
    <2>1. Latest(RedoOf(wal, A, k), store.disk[k]) = Visible(store, k)
      BY <1>2, <1>9, <1>10, <1>13 DEF AtomInv, RedoVisible, A
    <2>2. \A u \in (B \ A) \cup (A \ B) : ~Wrote(wal, u, k)
      BY <1>13
    <2>3. RedoOf(wal, B, k) = RedoOf(wal, A, k)
      BY <1>3, <2>2, NotRedone
    <2> QED BY <2>1, <2>3, LatestAgain
  <1>14. \A k \in Key : Latest(RedoOf(wal, B, k), Visible(store, k)) = Visible(store, k)
    BY <1>12, <1>13
  <1> HIDE DEF B
  <1>15. ASSUME NEW k \in Key
         PROVE  durable'[k] = durable[k]
    <2>1. /\ Unwritten(wal, Q, k) => durable'[k] = Visible(store, k)
          /\ \A u \in Tx : OnlyWriter(wal, Q, u, k) => durable'[k] = Oldest(wal, u, k)
      BY <1>1, <1>3, <1>6, <1>7, <1>8, <1>9, <1>14, Foreseen
    <2>2. /\ Unwritten(wal, P, k) => durable[k] = Latest(RedoOf(wal, A, k), store.disk[k])
          /\ \A u \in Tx : OnlyWriter(wal, P, u, k) => durable[k] = Oldest(wal, u, k)
      BY <1>9 DEF AtomInv, Foretold, P, A
    <2>3. CASE Wrote(wal, t, k)
      <3>1. Unwritten(wal, Q, k)
        BY <1>11, <2>3 DEF Unwritten
      <3> QED BY <1>12, <2>1, <2>3, <3>1
    <2>4. CASE ~Wrote(wal, t, k)
      <3>1. CASE Unwritten(wal, P, k)
        <4>1. Unwritten(wal, Q, k)
          BY <3>1 DEF Unwritten
        <4> QED BY <1>13, <2>1, <2>2, <2>4, <3>1, <4>1
      <3>2. ASSUME NEW u \in P, OnlyWriter(wal, P, u, k)
            PROVE  durable'[k] = durable[k]
        <4>1. OnlyWriter(wal, Q, u, k)
          BY <2>4, <3>2 DEF OnlyWriter
        <4> QED BY <1>7, <2>1, <2>2, <3>2, <4>1
      <3> QED BY <3>1, <3>2, OneOrNone DEF P
    <2> QED BY <2>3, <2>4
  <1>16. durable' = durable
    BY <1>15, SameDurable
  <1>17. PendingLive' /\ PendingStarted' /\ UndoLogged' /\ OneWriter'
    <2>1. Q = {u \in Tx : pc'[u] \in Live}
      BY <1>2, <1>4 DEF P
    <2>2. \A u \in Q : u \in P
      OBVIOUS
    <2> HIDE DEF Q
    <2> QED BY <1>1, <1>4, <1>7, <2>1, <2>2
          DEF AtomInv, PendingLive, PendingStarted, UndoLogged, OneWriter, P
  <1>18. Foretold'
    BY <1>1, <1>3, Foreseen
  <1>19. SettledRedo'
    <2>1. B \cup Q = A \cup P
      BY <1>7 DEF B
    <2> QED BY <1>1, <1>6, <1>7, <1>16, <2>1 DEF AtomInv, SettledRedo, A, P
  <1>20. RedoVisible' /\ UndoneVisible'
    <2>1. \A k \in Key : ~UndoneKey(k)'
      BY <1>4 DEF UndoneKey
    <2> QED BY <1>1, <1>6, <1>8, <1>9, <1>14, <2>1 DEF RedoVisible, UndoneVisible
  <1>21. WriterSees'
    BY <1>1, <1>4, <1>8 DEF AtomInv, WriterSees
  <1>22. FlushedFirst' /\ CutAtEnd' /\ EmptyDown' /\ UpdatesOnly'
    BY <1>1, <1>2, <1>4 DEF AtomInv, FlushedFirst, CutAtEnd, EmptyDown, UpdatesOnly
  <1> QED BY <1>1, <1>3, <1>16, <1>17, <1>18, <1>19, <1>20, <1>21, <1>22 DEF AtomInv

--------------------------------------------------------------------------------
(* The undo of a rollback.                                                   *)

\* What it leaves of a key, and that the disk gets nothing else.
LEMMA UndoneOf ==
  ASSUME NEW s, Good(s), NEW log \in Seq(Record), OnlyUpdates(log), NEW t \in Tx, NEW k \in Key
  PROVE  LET u == UndoneAll(s, OperationsOf(log, t))
         IN /\ Visible(u, k) = IF Wrote(log, t, k) THEN Oldest(log, t, k) ELSE Visible(s, k)
            /\ ~Wrote(log, t, k) => u.disk[k] \in {s.disk[k], Visible(s, k)}
  <1> DEFINE q == Only(log, DataOf(t))
             x == UndoOn(log, t, k)
             o == OperationsOf(log, t)
  <1>1. q \in Seq(Change)
    <2>1. log \in Seq(ToSet(log))
      BY InLog
    <2>2. q \in Seq(ToSet(log) \cap DataOf(t))
      BY <2>1, OnlyType, Zenon
    <2>3. ToSet(log) \cap DataOf(t) \subseteq Change
      <3>1. \A r \in ToSet(log) : \E i \in DOMAIN log : log[i] = r
        BY InLog
      <3> QED BY <3>1 DEF OnlyUpdates, DataOf, DataRecord, Change
    <2>4. Seq(ToSet(log) \cap DataOf(t)) \subseteq Seq(Change)
      BY <2>3
    <2> QED BY <2>2, <2>4
  <1>2. o = Reverse(q)
    BY OperationsReversed
  <1>3. o \in Seq(Change)
    BY <1>1, <1>2, ReverseType
  <1>4. Only(q, OnKey(k)) = x
    <2>1. DataOf(t) \cap OnKey(k) = OnKeyOf(t, k)
      BY DEF DataOf, OnKey, OnKeyOf
    <2> QED BY <2>1, OnlyOnly DEF UndoOn
  <1>5. Only(o, OnKey(k)) = Reverse(x)
    <2> HIDE DEF q, x, o
    <2>1. Only(Reverse(q), OnKey(k)) = Reverse(Only(q, OnKey(k)))
      BY <1>1, OnlyReverse
    <2> QED BY <1>2, <1>4, <2>1
  <1>6. x \in Seq(Record)
    BY UndoOnType
  <1> HIDE DEF q, x, o
  <1>7. /\ Visible(UndoneAll(s, o), k) = Restored(Reverse(x), Visible(s, k))
        /\ Reverse(x) = <<>> => UndoneAll(s, o).disk[k] \in {s.disk[k], Visible(s, k)}
    BY <1>3, <1>5, UndoneShows
  <1>8. /\ x = <<>> => Restored(Reverse(x), Visible(s, k)) = Visible(s, k)
        /\ x # <<>> => Restored(Reverse(x), Visible(s, k)) = x[1].before
    BY <1>6, ReverseLast
  <1>9. x = <<>> => Reverse(x) = <<>>
    BY DEF Reverse
  <1>10. CASE x = <<>>
    BY <1>7, <1>8, <1>9, <1>10, Zenon DEF Wrote, o, x
  <1>11. CASE x # <<>>
    BY <1>7, <1>8, <1>11, Zenon DEF Wrote, Oldest, o, x
  <1> QED BY <1>10, <1>11

\* What it adds to the log.
LEMMA UndoAnswers ==
  ASSUME NEW log \in Seq(Record), NEW t \in Tx
  PROVE  LET more == Answers(OperationsOf(log, t))
         IN /\ more \in Seq(Record) /\ Quiet(more)
            /\ \A a \in {"start", "commit", "abort"} : With(more, a) = {}
  <1> DEFINE o == OperationsOf(log, t)
             more == Answers(o)
  <1>1. o \in Seq({r \in DataRecord : r.tx = t})
    BY SelectionsType
  <1> HIDE DEF o
  <1>2. \A i \in DOMAIN o : o[i] \in DataRecord /\ o[i].action \in Data
    BY <1>1 DEF DataRecord
  <1>3. o \in Seq(DataRecord \cup {r \in Record : r.action = "start"}) /\ DOMAIN o = 1 .. Len(o)
    BY <1>1
  <1>4. /\ more \in Seq(Record) /\ Len(more) = Len(o)
        /\ \A i \in DOMAIN o : more[i].action \in {"abort", "compensation"}
                               /\ (more[i].action = "abort" => o[i].action = "start")
    BY <1>3, AnswersType
  <1>5. \A i \in DOMAIN more : more[i].action = "compensation"
    <2>1. DOMAIN more = DOMAIN o
      BY <1>3, <1>4
    <2> QED BY <1>2, <1>4, <2>1 DEF Data
  <1> HIDE DEF more
  <1>6. Quiet(more)
    BY <1>5 DEF Quiet, Data
  <1>7. \A r \in ToSet(more) : r.action = "compensation"
    BY <1>4, <1>5, InLog
  <1> QED BY <1>4, <1>6, <1>7 DEF With, more, o

\* The undo, up to its flush, leaves what was there before the transaction.
LEMMA UndoAtom ==
  ASSUME TypeInv, TypeInv', CallInv, AtomInv, NEW t \in Tx, Undo(t), Foresee
  PROVE  AtomInv' /\ durable' = durable
  <1> DEFINE P == Pending(wal, pc)
             A == Aborted(wal, pc)
             more == Answers(OperationsOf(wal, t))
  <1>1. /\ Step(t, {"undo"}, "flush_undone") /\ store' = UndoneAll(store, OperationsOf(wal, t))
        /\ wal' = wal \o more /\ UNCHANGED workload /\ server' = server
    BY DEF Undo, memory
  <1>2. /\ pc'[t] = "flush_undone" /\ pc[t] = "undo" /\ server = "up"
        /\ \A u \in Tx \ {t} : pc'[u] = pc[u] /\ pc[u] \in {"begin", "active", "wounded", "done"}
        /\ P = {u \in Tx : pc[u] \in Live}
        /\ ~Flushing(pc) /\ ~Flushing(pc')
    <2>1. "flush_undone" \in Place /\ "flush_undone" \notin Committed /\ "undo" \notin Committed
      BY DEF Place, Aborts, Committed
    <2> QED BY <1>1, <2>1, AtomPlaces
  <1>3. wal \in Seq(Record) /\ Good(store) /\ more \in Seq(Record) /\ Quiet(more)
        /\ \A a \in {"start", "commit", "abort"} : With(more, a) = {}
    BY TypeInvFacts, UndoAnswers
  <1> HIDE DEF more
  <1>4. /\ Named(wal') = Named(wal)
        /\ \A a \in {"start", "commit", "abort"} : With(After(wal'), a) = With(After(wal), a)
        /\ \A B, k : RedoOf(wal', B, k) = RedoOf(wal, B, k)
        /\ \A u, k : UndoOn(wal', u, k) = UndoOn(wal, u, k)
        /\ OnlyUpdates(wal')
    <2>1. OnlyUpdates(wal)
      BY DEF AtomInv
    <2> DEFINE v == wal \o more
    <2>2. /\ Named(v) = Named(wal)
          /\ \A a : With(After(v), a) = With(After(wal), a) \cup With(more, a)
          /\ \A B, k : RedoOf(v, B, k) = RedoOf(wal, B, k)
          /\ \A u, k : UndoOn(v, u, k) = UndoOn(wal, u, k)
          /\ OnlyUpdates(v)
      BY <1>3, <2>1, QuietRecords
    <2> HIDE DEF v
    <2>3. wal' = v
      BY <1>1 DEF v
    <2> QED BY <1>3, <2>2, <2>3
  <1>5. \A u \in Tx : /\ pc'[u] \in Undoing <=> pc[u] \in Undoing
                      /\ pc'[u] = "flush_undone" <=> u = t
                      /\ pc[u] # "flush_undone"
                      /\ pc'[u] \notin {"checkpoint", "clear"}
                      /\ pc'[u] \in Live <=> pc[u] \in Live
                      /\ pc'[u] \in Holding => pc[u] \in Holding /\ u # t
    BY <1>2 DEF Undoing, Live, Holding
  <1>6. With(After(wal), "abort") \subseteq Tx
    <2>1. ToSet(After(wal)) \subseteq Record
      BY <1>3, InLog
    <2> QED BY <2>1, RecordFields DEF With
  <1>7. Aborted(wal', pc') = A
    BY <1>4, <1>5, <1>6 DEF Aborted
  <1>8. Pending(wal', pc') = P
    BY <1>4, <1>7 DEF Pending
  <1>9. t \in P /\ P \subseteq Tx
    BY <1>2 DEF Live, Holding
  <1>10. \A u, k : /\ Wrote(wal', u, k) = Wrote(wal, u, k)
                   /\ Oldest(wal', u, k) = Oldest(wal, u, k)
                   /\ Newest(wal', u, k) = Newest(wal, u, k)
    BY <1>4 DEF Wrote, Oldest, Newest
  <1>11. \A k \in Key :
           /\ Visible(store', k) = IF Wrote(wal, t, k) THEN Oldest(wal, t, k) ELSE Visible(store, k)
           /\ ~Wrote(wal, t, k) => store'.disk[k] \in {store.disk[k], Visible(store, k)}
    BY <1>1, <1>3, UndoneOf DEF AtomInv
  <1>12. /\ DiskOf(store, pc) = store.disk /\ DiskOf(store', pc') = store'.disk
         /\ (DiskOf(store, pc))' = store'.disk
    BY <1>1, <1>2 DEF DiskOf, Flushing
  <1>13. \A k \in Key : /\ Latest(RedoOf(wal, A, k), store.disk[k]) = Visible(store, k)
                        /\ Latest(RedoOf(wal, A, k), Visible(store, k)) = Visible(store, k)
    <2>1. \A k \in Key : ~UndoneKey(k)
      BY <1>5 DEF UndoneKey
    <2>2. \A k \in Key : Latest(RedoOf(wal, A, k), store.disk[k]) = Visible(store, k)
      BY <1>2, <1>12, <2>1 DEF AtomInv, RedoVisible
    <2> QED BY <2>2, LatestAgain
  <1>14. \A k \in Key : ~Wrote(wal, t, k) =>
           Latest(RedoOf(wal', A, k), store'.disk[k]) = Visible(store, k)
    BY <1>4, <1>11, <1>13
  <1> HIDE DEF P, A
  <1>15. \A k \in Key, u \in P : Wrote(wal, t, k) /\ Wrote(wal, u, k) => u = t
    BY <1>9 DEF AtomInv, OneWriter, P
  <1>16. \A k \in Key :
           /\ Unwritten(wal, P, k) => durable[k] = Visible(store, k)
           /\ \A u \in Tx : OnlyWriter(wal, P, u, k) => durable[k] = Oldest(wal, u, k)
    BY <1>12, <1>13 DEF AtomInv, Foretold, P, A
  <1>17. ASSUME NEW k \in Key
         PROVE  durable'[k] = durable[k]
    <2>1. /\ Unwritten(wal', P, k) =>
               durable'[k] = Latest(RedoOf(wal', A, k), store'.disk[k])
          /\ \A u \in Tx : OnlyWriter(wal', P, u, k) => durable'[k] = Oldest(wal', u, k)
      BY <1>1, <1>4, <1>7, <1>8, <1>12, Foreseen
    <2>2. CASE Unwritten(wal, P, k)
      <3>1. Unwritten(wal', P, k) /\ ~Wrote(wal, t, k)
        BY <1>9, <1>10, <2>2 DEF Unwritten
      <3> QED BY <1>14, <1>16, <2>1, <2>2, <3>1
    <2>3. ASSUME NEW u \in P, OnlyWriter(wal, P, u, k)
          PROVE  durable'[k] = durable[k]
      <3>1. OnlyWriter(wal', P, u, k)
        BY <1>10, <2>3 DEF OnlyWriter
      <3> QED BY <1>9, <1>10, <1>16, <2>1, <2>3, <3>1
    <2> QED BY <2>2, <2>3, OneOrNone DEF P
  <1>18. durable' = durable
    BY <1>17, SameDurable
  <1>19. PendingLive' /\ PendingStarted' /\ UndoLogged' /\ OneWriter'
    <2>1. \A u : Started(wal, u) => Started(wal', u)
      BY <1>1, <1>3, ConcatKeeps
    <2> QED BY <1>1, <1>2, <1>4, <1>5, <1>8, <1>10, <2>1
          DEF AtomInv, PendingLive, PendingStarted, UndoLogged, OneWriter, P
  <1>20. Foretold'
    BY <1>1, <1>4, Foreseen
  <1>21. SettledRedo'
    BY <1>4, <1>7, <1>8, <1>18 DEF AtomInv, SettledRedo, A, P
  <1>22. \A k \in Key : UndoneKey(k)' <=> Wrote(wal, t, k)
    BY <1>5, <1>10 DEF UndoneKey
  <1>23. RedoVisible'
    BY <1>7, <1>11, <1>12, <1>14, <1>22 DEF RedoVisible
  <1>24. UndoneVisible'
    <2>1. ASSUME NEW k \in Key, Wrote(wal, t, k)
          PROVE  Visible(store', k) = durable'[k]
      <3>1. OnlyWriter(wal, P, t, k)
        BY <1>9, <1>15, <2>1 DEF OnlyWriter
      <3> QED BY <1>11, <1>16, <1>18, <2>1, <3>1
    <2> QED BY <1>22, <2>1 DEF UndoneVisible
  <1>25. WriterSees'
    <2>1. ASSUME NEW k \in Key, NEW u \in Tx, pc'[u] \in Holding, Wrote(wal', u, k)
          PROVE  Newest(wal', u, k) = Visible(store', k)
      <3>1. pc[u] \in Holding /\ u # t /\ Wrote(wal, u, k)
        BY <1>5, <1>10, <2>1
      <3>2. u \in P
        BY <1>2, <3>1 DEF Live, P
      <3>3. ~Wrote(wal, t, k)
        BY <1>15, <3>1, <3>2
      <3> QED BY <1>10, <1>11, <3>1, <3>3 DEF AtomInv, WriterSees
    <2> QED BY <2>1 DEF WriterSees
  <1>26. FlushedFirst' /\ CutAtEnd' /\ EmptyDown' /\ UpdatesOnly'
    BY <1>1, <1>2, <1>5 DEF AtomInv, FlushedFirst, CutAtEnd, EmptyDown, UpdatesOnly
  <1> QED BY <1>4, <1>18, <1>19, <1>20, <1>21, <1>23, <1>24, <1>25, <1>26 DEF AtomInv

--------------------------------------------------------------------------------
(* Crash and recovery.                                                       *)

\* The crash leaves what was foretold.
LEMMA CrashAtom ==
  ASSUME TypeInv, TypeInv', CallInv, AtomInv, Crash, Foresee
  PROVE  AtomInv' /\ durable' = durable
  <1> DEFINE P == Pending(wal, pc)
             A == Aborted(wal, pc)
  <1>1. /\ server = "up" /\ Where \in {"serving", "commit"} /\ Where \in workload.crash
        /\ store' = [store EXCEPT !.buffer = <<>>]
        /\ server' = "down" /\ UNCHANGED <<workload, wal>>
        /\ pc' = [t \in Tx |-> IF pc[t] = "begin" THEN "begin" ELSE "done"]
    BY DEF Crash, AtomInv, UpdatesOnly
  <1>2. \A t \in Tx : pc[t] \notin Aborts /\ pc'[t] \in {"begin", "done"}
    BY <1>1 DEF Where
  <1>3. \A t \in Tx : /\ pc[t] \notin Undoing /\ pc[t] # "flush_undone"
                      /\ pc'[t] \notin Undoing /\ pc'[t] \notin Committed
                      /\ pc'[t] \notin {"flush_undone", "checkpoint", "clear"}
                      /\ pc'[t] \notin Holding
    BY <1>2 DEF Aborts, Undoing, Committed, Holding
  <1>4. ~Flushing(pc) /\ ~Flushing(pc')
    <2>1. ~Flushing(pc)
      <3>1. ASSUME NEW t \in Tx, pc[t] \in Committed PROVE "commit" \in workload.crash
        <4>1. pc[t] \in Commits
          BY <3>1 DEF Committed, Commits
        <4> QED BY <1>1, <1>2, <4>1 DEF Where
      <3> QED BY <3>1 DEF Flushing
    <2> QED BY <1>3, <2>1 DEF Flushing
  <1>5. wal \in Seq(Record) /\ Good(store) /\ OnlyUpdates(wal')
    BY <1>1, TypeInvFacts DEF AtomInv
  <1>6. With(After(wal), "abort") \subseteq Tx
    <2>1. ToSet(After(wal)) \subseteq Record
      BY <1>5, InLog
    <2> QED BY <2>1, RecordFields DEF With
  <1>7. Aborted(wal', pc') = A
    BY <1>1, <1>3, <1>6 DEF Aborted
  <1>8. Pending(wal', pc') = P /\ P \subseteq Tx
    <2>1. Pending(wal', pc') = P
      BY <1>1, <1>7 DEF Pending
    <2> QED BY <1>5, <2>1, PendingTx
  <1>9. store'.disk = store.disk /\ store'.buffer = <<>>
    <2>1. [store EXCEPT !.buffer = <<>>] = [capacity |-> store.capacity, disk |-> store.disk, buffer |-> <<>>]
      BY <1>5, BufferLost
    <2> QED BY <1>1, <2>1
  <1>10. /\ DiskOf(store, pc) = store.disk /\ DiskOf(store', pc') = store.disk
         /\ (DiskOf(store, pc))' = store.disk
    BY <1>1, <1>4, <1>9 DEF DiskOf, Flushing
  <1> HIDE DEF P, A
  <1>11. ASSUME NEW k \in Key
         PROVE  durable'[k] = durable[k]
    <2>1. /\ Unwritten(wal, P, k) => durable'[k] = Latest(RedoOf(wal, A, k), store.disk[k])
          /\ \A u \in Tx : OnlyWriter(wal, P, u, k) => durable'[k] = Oldest(wal, u, k)
      BY <1>1, <1>5, <1>7, <1>8, <1>10, Foreseen
    <2>2. /\ Unwritten(wal, P, k) => durable[k] = Latest(RedoOf(wal, A, k), store.disk[k])
          /\ \A u \in Tx : OnlyWriter(wal, P, u, k) => durable[k] = Oldest(wal, u, k)
      BY <1>10 DEF AtomInv, Foretold, P, A
    <2>3. Unwritten(wal, P, k) \/ \E u \in P : OnlyWriter(wal, P, u, k)
      BY OneOrNone DEF P
    <2> QED BY <1>8, <2>1, <2>2, <2>3
  <1>12. durable' = durable
    BY <1>11, SameDurable
  <1>13. PendingLive' /\ PendingStarted' /\ UndoLogged' /\ OneWriter'
    BY <1>1, <1>3, <1>8 DEF AtomInv, PendingLive, PendingStarted, UndoLogged, OneWriter, P
  <1>14. Foretold'
    BY <1>1, <1>5, Foreseen
  <1>15. SettledRedo'
    BY <1>1, <1>7, <1>8, <1>12 DEF AtomInv, SettledRedo, A, P
  <1>16. RedoVisible' /\ UndoneVisible'
    BY <1>1, <1>3 DEF RedoVisible, UndoneVisible, UndoneKey
  <1>17. WriterSees' /\ FlushedFirst' /\ CutAtEnd'
    BY <1>3 DEF WriterSees, FlushedFirst, CutAtEnd
  <1>18. EmptyDown' /\ UpdatesOnly'
    BY <1>1, <1>9 DEF AtomInv, EmptyDown, UpdatesOnly
  <1> QED BY <1>5, <1>12, <1>13, <1>14, <1>15, <1>16, <1>17, <1>18 DEF AtomInv

\* What recovery adds to the log: an ABORT record for everyone it has undone.
LEMMA RecoveryAnswers ==
  ASSUME NEW log \in Seq(Record), \A t \in Incomplete(log) : Started(log, t)
  PROVE  LET more == Answers(UndoList(log))
         IN /\ more \in Seq(Record) /\ Quiet(more)
            /\ With(more, "start") = {} /\ With(more, "commit") = {}
            /\ With(more, "abort") = Incomplete(log)
  <1> DEFINE o == UndoList(log)
             more == Answers(o)
             S == {r \in ToSet(log) : r.tx \in Incomplete(log) /\ r.action \in Data \cup {"start"}}
  <1>1. o \in Seq(DataRecord \cup {r \in Record : r.action = "start"}) /\ ToSet(o) = ToSet(log) \cap S
    <2>1. Reverse(log) \in Seq(Record) /\ ToSet(Reverse(log)) = ToSet(log)
      BY ReverseType
    <2>2. o = Only(Reverse(log), S)
      BY Zenon DEF UndoList
    <2> HIDE DEF o, S
    <2>3. ToSet(Only(Reverse(log), S)) = ToSet(Reverse(log)) \cap S
      BY <2>1, OnlyRange, Zenon
    <2> QED BY <2>1, <2>2, <2>3, SelectionsType DEF o
  <1> HIDE DEF o
  <1>2. /\ \A i \in DOMAIN o : o[i] \in ToSet(o)
        /\ \A r \in ToSet(o) : \E i \in DOMAIN o : o[i] = r
        /\ DOMAIN o = 1 .. Len(o)
    BY <1>1 DEF ToSet
  <1>3. /\ more \in Seq(Record) /\ Len(more) = Len(o)
        /\ \A i \in DOMAIN o : /\ more[i].action \in {"abort", "compensation"}
                               /\ more[i].tx = o[i].tx
                               /\ more[i].action = "abort" => o[i].action = "start"
    BY <1>1, AnswersType
  <1>4. \A i \in DOMAIN o : o[i].action = "start" => more[i].action = "abort"
    BY DEF Answers, Lifecycle
  <1>5. DOMAIN more = DOMAIN o
    BY <1>2, <1>3
  <1> HIDE DEF more
  <1>6. Quiet(more)
    BY <1>3, <1>5 DEF Quiet, Data
  <1>7. /\ \A i \in DOMAIN more : more[i] \in ToSet(more)
        /\ \A r \in ToSet(more) : \E i \in DOMAIN more : more[i] = r
    BY <1>3, InLog
  <1>8. With(more, "start") = {} /\ With(more, "commit") = {}
    BY <1>3, <1>5, <1>7 DEF With
  <1>9. With(more, "abort") \subseteq Incomplete(log)
    BY <1>1, <1>2, <1>3, <1>5, <1>7 DEF With
  <1>10. ASSUME NEW t \in Incomplete(log)
         PROVE  t \in With(more, "abort")
    <2>1. START(t) \in ToSet(log)
      BY <1>10, InLog DEF Started
    <2>2. START(t).tx = t /\ START(t).action = "start"
      BY DEF START, Lifecycle
    <2>3. START(t) \in ToSet(o)
      BY <1>1, <2>1, <2>2
    <2>4. PICK i \in DOMAIN o : o[i] = START(t)
      BY <1>2, <2>3
    <2>5. more[i].action = "abort" /\ more[i].tx = t /\ more[i] \in ToSet(more)
      BY <1>3, <1>4, <1>5, <1>7, <2>2, <2>4
    <2> QED BY <2>5 DEF With
  <1> QED BY <1>3, <1>6, <1>8, <1>9, <1>10 DEF more, o

\* Recovery makes the disk what was foretold and finishes everyone in the log.
LEMMA RecoverAtom ==
  ASSUME TypeInv, TypeInv', CallInv, AtomInv, Recover, Foresee
  PROVE  AtomInv' /\ durable' = durable
  <1> DEFINE P == Pending(wal, pc)
             A == Aborted(wal, pc)
             u == RedoneUndone(store, wal)
             more == Answers(UndoList(wal))
  <1>1. /\ server = "down" /\ server' = "up" /\ store' = Flushed(u)
        /\ wal' = wal \o more /\ UNCHANGED <<workload, pc>>
    BY DEF Recover
  <1>2. \A t \in Tx : pc[t] \in {"begin", "done"}
    BY <1>1 DEF CallInv, NoneWhenDown
  <1>3. \A t \in Tx : /\ pc[t] \notin Undoing /\ pc[t] \notin Committed /\ pc[t] \notin Live
                      /\ pc[t] \notin Holding
                      /\ pc[t] \notin {"flush_undone", "checkpoint", "clear"}
    BY <1>2 DEF Undoing, Committed, Live, Holding
  <1>4. wal \in Seq(Record) /\ Good(store) /\ OnlyUpdates(wal)
    BY TypeInvFacts DEF AtomInv
  <1>5. With(After(wal), "abort") \subseteq Tx
    <2>1. ToSet(After(wal)) \subseteq Record
      BY <1>4, InLog
    <2> QED BY <2>1, RecordFields DEF With
  <1>6. A = With(After(wal), "abort") /\ P = Incomplete(wal)
    <2>1. A = With(After(wal), "abort")
      BY <1>3, <1>5 DEF Aborted
    <2> QED BY <2>1 DEF Pending, Incomplete, Named
  <1>7. \A k \in Key : Visible(store, k) = store.disk[k]
    <2>1. ToSet(store.buffer) = {}
      BY <1>1 DEF AtomInv, EmptyDown, ToSet
    <2> QED BY <1>4, <2>1, CleanVisible
  <1>8. /\ DiskOf(store, pc) = store.disk /\ DiskOf(store', pc') = store'.disk
        /\ (DiskOf(store, pc))' = store'.disk
    BY <1>1, <1>3 DEF DiskOf, Flushing
  <1>9. /\ more \in Seq(Record) /\ Quiet(more)
        /\ With(more, "start") = {} /\ With(more, "commit") = {} /\ With(more, "abort") = P
    BY <1>4, <1>6, RecoveryAnswers DEF AtomInv, PendingStarted
  <1> HIDE DEF more
  <1>10. /\ Named(wal') = Named(wal)
         /\ \A a : With(After(wal'), a) = With(After(wal), a) \cup With(more, a)
         /\ \A B, k : RedoOf(wal', B, k) = RedoOf(wal, B, k)
         /\ OnlyUpdates(wal')
    <2> DEFINE v == wal \o more
    <2>1. /\ Named(v) = Named(wal)
          /\ \A a : With(After(v), a) = With(After(wal), a) \cup With(more, a)
          /\ \A B, k : RedoOf(v, B, k) = RedoOf(wal, B, k)
          /\ OnlyUpdates(v)
      BY <1>4, <1>9, QuietRecords
    <2> HIDE DEF v
    <2>2. wal' = v
      BY <1>1 DEF v
    <2> QED BY <2>1, <2>2
  <1>11. Aborted(wal', pc') = A \cup P
    <2>1. P \subseteq Tx
      BY <1>4, PendingTx
    <2> QED BY <1>1, <1>3, <1>6, <1>9, <1>10, <2>1 DEF Aborted
  <1>12. Pending(wal', pc') = {}
    <2>1. With(After(wal'), "start") = With(After(wal), "start")
          /\ With(After(wal'), "commit") = With(After(wal), "commit")
      BY <1>9, <1>10
    <2> QED BY <1>10, <1>11, <2>1 DEF Pending
  <1> HIDE DEF P, A
  <1>13. Good(u) /\ \A k \in Key : Visible(u, k) = durable[k]
    <2>1. Good(u)
      BY <1>4, RecoveredGood
    <2>2. ASSUME NEW k \in Key
          PROVE  Visible(u, k) = durable[k]
      <3>1. /\ Unwritten(wal, P, k) => Visible(u, k) = Latest(RedoOf(wal, A, k), store.disk[k])
            /\ \A t : OnlyWriter(wal, P, t, k) => Visible(u, k) = Oldest(wal, t, k)
        BY <1>4, <1>6, <1>7, RecoveredOn
      <3>2. /\ Unwritten(wal, P, k) => durable[k] = Latest(RedoOf(wal, A, k), store.disk[k])
            /\ \A t \in Tx : OnlyWriter(wal, P, t, k) => durable[k] = Oldest(wal, t, k)
        BY <1>8 DEF AtomInv, Foretold, P, A
      <3>3. P \subseteq Tx /\ (Unwritten(wal, P, k) \/ \E t \in P : OnlyWriter(wal, P, t, k))
        BY OneOrNone DEF P
      <3> QED BY <3>1, <3>2, <3>3
    <2> QED BY <2>1, <2>2
  <1> HIDE DEF u
  <1>14. \A k \in Key : store'.disk[k] = durable[k] /\ Visible(store', k) = durable[k]
    BY <1>1, <1>13, FlushedGood
  <1>15. \A k \in Key : Latest(RedoOf(wal', A \cup P, k), durable[k]) = durable[k]
    BY <1>10 DEF AtomInv, SettledRedo, A, P
  <1>16. durable' = durable
    <2>1. \A k \in Key : Unwritten(wal', Pending(wal', pc'), k)
      BY <1>12 DEF Unwritten
    <2>2. \A k \in Key : durable'[k] = Latest(RedoOf(wal', A \cup P, k), store'.disk[k])
      BY <1>1, <1>8, <1>10, <1>11, <2>1, Foreseen
    <2> QED BY <1>14, <1>15, <2>2, SameDurable
  <1>17. PendingLive' /\ PendingStarted' /\ UndoLogged' /\ OneWriter'
    BY <1>1, <1>3, <1>12 DEF PendingLive, PendingStarted, UndoLogged, OneWriter
  <1>18. Foretold'
    BY <1>1, <1>10, Foreseen
  <1>19. SettledRedo'
    <2>1. Aborted(wal', pc') \cup Pending(wal', pc') = A \cup P
      BY <1>11, <1>12
    <2> QED BY <1>15, <1>16, <2>1 DEF SettledRedo
  <1>20. RedoVisible' /\ UndoneVisible'
    <2>1. \A k \in Key : ~UndoneKey(k)'
      BY <1>1, <1>3 DEF UndoneKey
    <2> QED BY <1>8, <1>11, <1>14, <1>15, <2>1 DEF RedoVisible, UndoneVisible
  <1>21. WriterSees' /\ FlushedFirst' /\ CutAtEnd'
    BY <1>1, <1>3 DEF WriterSees, FlushedFirst, CutAtEnd
  <1>22. EmptyDown' /\ UpdatesOnly'
    BY <1>1 DEF AtomInv, EmptyDown, UpdatesOnly
  <1> QED BY <1>10, <1>16, <1>17, <1>18, <1>19, <1>20, <1>21, <1>22 DEF AtomInv

--------------------------------------------------------------------------------
(* Every step, and what it is of AtomicStore.                                *)

\* Nobody else has writes.
WritesHeld == \A t \in Tx : pc[t] \notin Holding => writes[t] = <<>>

StoreInv == TypeInv /\ CallInv /\ AtomInv /\ WritesHeld

\* The actions that CommitIsDurable and RollbackKeepsCommitted allow.
CommitTakesEffect ==
  \A t \in Tx : pc[t] = "log_commit" /\ pc'[t] = "notify_commit" =>
    durable' = Client!Effect(durable, writes[t])
RollbackTakesNothing ==
  \A t \in Tx : pc[t] \in Aborts /\ pc'[t] # pc[t] /\ server' = "up" => durable' = durable

StepOfStore ==
  StoreInv' /\ [Client!Next]_<<durable, writes>> /\ CommitTakesEffect /\ RollbackTakesNothing

\* A step of a call that leaves the writes of transactions alone.
LEMMA StutterStep ==
  ASSUME StoreInv, TypeInv', CallInv', NEW t \in Tx, NEW from, NEW to \in Place, Step(t, from, to),
         to # "notify_commit", to \in Holding => pc[t] \in Holding \/ pc[t] = "begin",
         to \notin Holding => pc[t] \notin Holding,
         AtomInv' /\ durable' = durable, writes' = writes
  PROVE  StepOfStore
  <1>1. /\ pc'[t] = to /\ pc[t] \in from
        /\ \A u \in Tx \ {t} : pc'[u] = pc[u]
    BY CallFacts DEF StoreInv
  <1>2. WritesHeld'
    BY <1>1 DEF StoreInv, WritesHeld
  <1>3. CommitTakesEffect /\ RollbackTakesNothing
    BY <1>1 DEF CommitTakesEffect, RollbackTakesNothing
  <1> QED BY <1>2, <1>3 DEF StepOfStore, StoreInv

\* The steps of commits and rollbacks.
LEMMA ServerSteps ==
  ASSUME StoreInv, TypeInv', CallInv', NEW t \in Tx, ServerStep(t)
  PROVE  StepOfStore
  <1> DEFINE L == {"notify_commit", "snapshot", "flush", "checkpoint", "clear", "done", "log_abort",
                   "undo", "flush_undone", "notify_abort"}
  <1>0. TypeInv /\ CallInv /\ AtomInv /\ WritesHeld /\ L \subseteq Place
    BY DEF StoreInv, Place, Commits, Aborts
  <1> USE <1>0
  <1>1. CASE LogCommit(t) /\ Foresee
    <2>1. AtomInv' /\ durable' = Client!Effect(durable, writes[t])
      BY <1>1, LogCommitAtom
    <2>2. Step(t, {"log_commit"}, "notify_commit") /\ writes' = [writes EXCEPT ![t] = <<>>]
      BY <1>1 DEF LogCommit
    <2>3. /\ pc'[t] = "notify_commit" /\ pc[t] = "log_commit"
          /\ \A u \in Tx \ {t} : pc'[u] = pc[u] /\ pc[u] \in {"begin", "active", "wounded", "done"}
      BY <2>2, CallFacts
    <2>4. writes'[t] = <<>> /\ \A u \in Tx \ {t} : writes'[u] = writes[u]
      BY <2>2, WritesForgotten
    <2>5. WritesHeld'
      BY <2>3, <2>4 DEF WritesHeld
    <2>6. Client!Next
      BY <2>1, <2>2 DEF Client!Next, Client!Commit
    <2>7. CommitTakesEffect
      BY <2>1, <2>3 DEF CommitTakesEffect
    <2>8. RollbackTakesNothing
      BY <2>3 DEF RollbackTakesNothing, Aborts
    <2> QED BY <2>1, <2>5, <2>6, <2>7, <2>8 DEF StepOfStore, StoreInv
  <1>2. CASE Undo(t) /\ Foresee
    <2>1. AtomInv' /\ durable' = durable
      BY <1>2, UndoAtom
    <2>2. Step(t, {"undo"}, "flush_undone") /\ writes' = [writes EXCEPT ![t] = <<>>]
      BY <1>2 DEF Undo
    <2>3. /\ pc'[t] = "flush_undone" /\ pc[t] = "undo"
          /\ \A u \in Tx \ {t} : pc'[u] = pc[u]
      BY <2>2, CallFacts
    <2>4. writes'[t] = <<>> /\ \A u \in Tx \ {t} : writes'[u] = writes[u]
      BY <2>2, WritesForgotten
    <2>5. WritesHeld'
      BY <2>3, <2>4 DEF WritesHeld
    <2>6. Client!Next
      BY <2>1, <2>2 DEF Client!Next, Client!Abort
    <2>7. CommitTakesEffect /\ RollbackTakesNothing
      BY <2>1, <2>3 DEF CommitTakesEffect, RollbackTakesNothing
    <2> QED BY <2>1, <2>5, <2>6, <2>7 DEF StepOfStore, StoreInv
  <1>3. CASE NotifyEnd(t, "notify_commit", "snapshot") /\ Foresee
    <2>1. AtomInv' /\ durable' = durable
      BY <1>3, QuietSteps
    <2>2. Step(t, {"notify_commit"}, "snapshot") /\ writes' = writes
      BY <1>3 DEF NotifyEnd
    <2> QED BY <2>1, <2>2, StutterStep, CallFacts DEF Holding
  <1>4. CASE Snapshot(t) /\ Foresee
    <2>1. AtomInv' /\ durable' = durable
      BY <1>4, QuietSteps
    <2>2. Step(t, {"snapshot"}, "flush") /\ writes' = writes
      BY <1>4 DEF Snapshot
    <2> QED BY <2>1, <2>2, StutterStep, CallFacts DEF Holding
  <1>5. CASE FlushDirty(t, "flush", "checkpoint") /\ Foresee
    <2>1. AtomInv' /\ durable' = durable
      BY <1>5, FlushAtom
    <2>2. Step(t, {"flush"}, "checkpoint") /\ writes' = writes
      BY <1>5 DEF FlushDirty
    <2> QED BY <2>1, <2>2, StutterStep, CallFacts DEF Holding
  <1>6. CASE LogCheckpoint(t) /\ Foresee
    <2>1. AtomInv' /\ durable' = durable
      BY <1>6, LogCheckpointAtom
    <2>2. Step(t, {"checkpoint"}, "clear") /\ writes' = writes
      BY <1>6 DEF LogCheckpoint
    <2> QED BY <2>1, <2>2, StutterStep, CallFacts DEF Holding
  <1>7. CASE ClearWal(t) /\ Foresee
    <2>1. AtomInv' /\ durable' = durable
      BY <1>7, ClearWalAtom
    <2>2. Step(t, {"clear"}, "done") /\ writes' = writes
      BY <1>7 DEF ClearWal
    <2> QED BY <2>1, <2>2, StutterStep, CallFacts DEF Holding
  <1>8. CASE LogAbort(t) /\ Foresee
    <2>1. AtomInv' /\ durable' = durable
      BY <1>8, LogAbortAtom
    <2>2. Step(t, {"log_abort"}, "undo") /\ writes' = writes
      BY <1>8 DEF LogAbort
    <2> QED BY <2>1, <2>2, StutterStep, CallFacts DEF Holding
  <1>9. CASE FlushDirty(t, "flush_undone", "notify_abort") /\ Foresee
    <2>1. AtomInv' /\ durable' = durable
      BY <1>9, UndoFlushAtom
    <2>2. Step(t, {"flush_undone"}, "notify_abort") /\ writes' = writes
      BY <1>9 DEF FlushDirty
    <2> QED BY <2>1, <2>2, StutterStep, CallFacts DEF Holding
  <1>10. CASE NotifyEnd(t, "notify_abort", "done") /\ Foresee
    <2>1. AtomInv' /\ durable' = durable
      BY <1>10, QuietSteps
    <2>2. Step(t, {"notify_abort"}, "done") /\ writes' = writes
      BY <1>10 DEF NotifyEnd
    <2> QED BY <2>1, <2>2, StutterStep, CallFacts DEF Holding
  <1> QED BY <1>1, <1>2, <1>3, <1>4, <1>5, <1>6, <1>7, <1>8, <1>9, <1>10 DEF ServerStep

\* The steps of clients.
LEMMA ClientSteps ==
  ASSUME StoreInv, TypeInv', CallInv', NEW t \in Tx, ClientStep(t)
  PROVE  StepOfStore
  <1>0. TypeInv /\ CallInv /\ AtomInv /\ WritesHeld
        /\ {"active", "wounded", "log_commit", "log_abort"} \subseteq Place
    BY DEF StoreInv, Place, Commits, Aborts
  <1> USE <1>0
  <1>1. CASE Begin(t) /\ Foresee
    <2>1. AtomInv' /\ durable' = durable
      BY <1>1, BeginAtom
    <2>2. Step(t, {"begin"}, "active") /\ writes' = writes
      BY <1>1 DEF Begin
    <2> QED BY <2>1, <2>2, StutterStep, CallFacts DEF Holding
  <1>2. CASE Update(t) /\ Foresee
    <2>1. AtomInv' /\ durable' = durable
      BY <1>2, UpdateAtom
    <2>2. PICK k \in Key, row \in Row : WriteBlock(t, k, row)
      BY <1>2 DEF Update
    <2>3. /\ Step(t, {"active"}, "active") /\ pc' = pc
          /\ writes' = [writes EXCEPT ![t] = Append(@, [key |-> k, row |-> row])]
          /\ \A u \in Tx \ {t} : writes'[u] = writes[u]
      BY <2>2, StatementTypes DEF WriteBlock, Statement
    <2>4. pc[t] = "active"
      BY <2>3 DEF Step
    <2>5. WritesHeld'
      BY <2>3, <2>4 DEF WritesHeld, Holding
    <2>6. Client!Next
      BY <2>1, <2>3 DEF Client!Next, Client!Write
    <2>7. CommitTakesEffect /\ RollbackTakesNothing
      BY <2>1, <2>3 DEF CommitTakesEffect, RollbackTakesNothing
    <2> QED BY <2>1, <2>5, <2>6, <2>7 DEF StepOfStore, StoreInv
  <1>3. ~Insert(t) /\ ~Delete(t)
    BY DEF AtomInv, UpdatesOnly, Insert, Delete
  <1>4. CASE Wound(t) /\ Foresee
    <2>1. AtomInv' /\ durable' = durable
      BY <1>4, QuietSteps
    <2>2. Step(t, {"active"}, "wounded") /\ writes' = writes
      BY <1>4 DEF Wound
    <2> QED BY <2>1, <2>2, StutterStep, CallFacts DEF Holding
  <1>5. CASE Commit(t) /\ Foresee
    <2>1. AtomInv' /\ durable' = durable
      BY <1>5, QuietSteps
    <2>2. Step(t, {"active"}, "log_commit") /\ writes' = writes
      BY <1>5 DEF Commit
    <2> QED BY <2>1, <2>2, StutterStep, CallFacts DEF Holding
  <1>6. CASE Rollback(t) /\ Foresee
    <2>1. AtomInv' /\ durable' = durable
      BY <1>6, QuietSteps
    <2>2. Step(t, {"active", "wounded"}, "log_abort") /\ writes' = writes
      BY <1>6 DEF Rollback
    <2> QED BY <2>1, <2>2, StutterStep, CallFacts DEF Holding
  <1> QED BY <1>1, <1>2, <1>3, <1>4, <1>5, <1>6 DEF ClientStep

\* All steps.
LEMMA StoreSteps ==
  ASSUME StoreInv, [Next]_vars
  PROVE  StepOfStore
  <1>0. TypeInv /\ CallInv /\ AtomInv /\ WritesHeld /\ TypeInv' /\ CallInv'
    BY TypeInvNext, CallInvNext DEF StoreInv
  <1> USE <1>0
  <1>1. ASSUME NEW t \in Tx, ServerStep(t) \/ ClientStep(t)
        PROVE  StepOfStore
    BY <1>1, ServerSteps, ClientSteps
  <1>2. CASE Crash /\ Foresee
    <2>1. AtomInv' /\ durable' = durable
      BY <1>2, CrashAtom
    <2>2. /\ writes' = [t \in Tx |-> <<>>]
          /\ pc' = [t \in Tx |-> IF pc[t] = "begin" THEN "begin" ELSE "done"]
      BY <1>2 DEF Crash
    <2>3. WritesHeld' /\ Client!Next
      BY <2>1, <2>2 DEF WritesHeld, Client!Next, Client!Crash
    <2>4. CommitTakesEffect /\ RollbackTakesNothing
      BY <2>1, <2>2 DEF CommitTakesEffect, RollbackTakesNothing
    <2> QED BY <2>1, <2>3, <2>4 DEF StepOfStore, StoreInv
  <1>3. CASE Recover /\ Foresee
    <2>1. AtomInv' /\ durable' = durable
      BY <1>3, RecoverAtom
    <2>2. writes' = writes /\ pc' = pc
      BY <1>3 DEF Recover
    <2>3. WritesHeld' /\ CommitTakesEffect /\ RollbackTakesNothing
      BY <2>1, <2>2 DEF WritesHeld, CommitTakesEffect, RollbackTakesNothing
    <2> QED BY <2>1, <2>2, <2>3 DEF StepOfStore, StoreInv
  <1>4. ~RecoverInterrupted
    BY DEF AtomInv, UpdatesOnly, RecoverInterrupted, Where
  <1>5. CASE UNCHANGED vars
    <2>1. /\ UNCHANGED <<workload, store, wal, server, pc, writes, durable>>
      BY <1>5 DEF vars
    <2>2. AtomInv'
      BY <2>1 DEF AtomInv, UpdatesOnly, OnlyUpdates, PendingLive, PendingStarted, UndoLogged, OneWriter,
         Foretold, SettledRedo, RedoVisible, UndoneVisible, UndoneKey, WriterSees, FlushedFirst,
         CutAtEnd, EmptyDown, DiskOf, Flushing
    <2>3. WritesHeld' /\ CommitTakesEffect /\ RollbackTakesNothing
      BY <2>1 DEF WritesHeld, CommitTakesEffect, RollbackTakesNothing
    <2> QED BY <2>1, <2>2, <2>3 DEF StepOfStore, StoreInv
  <1> QED BY <1>1, <1>2, <1>3, <1>4, <1>5 DEF Next, Restart

\* The invariant at the start.
LEMMA StoreInit == Init /\ UpdatesOnly => StoreInv
  <1> SUFFICES ASSUME Init, UpdatesOnly PROVE StoreInv
    OBVIOUS
  <1>1. WritesHeld
    BY DEF Init, WritesHeld
  <1>2. CallInv
    BY CallInvInit DEF UpdatesOnly
  <1> QED BY <1>1, <1>2, TypeInvInit, AtomInit DEF StoreInv

\* What is visible of a key, from the invariant.
LEMMA VisibleFrom == StoreInv => VisibleIsCurrent
  <1> SUFFICES ASSUME StoreInv, server = "up", NEW k \in Key
               PROVE  IF Writers(k) = {} THEN Visible(store, k) = durable[k]
                      ELSE \E t \in Writers(k) : Visible(store, k) = Client!Effect(durable, writes[t])[k]
    BY DEF VisibleIsCurrent
  <1>0. TypeInv /\ CallInv /\ AtomInv /\ WritesHeld
    BY DEF StoreInv
  <1>1. \A t \in Tx : pc[t] \in Holding => (t \in Writers(k) <=> Wrote(wal, t, k))
    BY <1>0, WritesOn DEF Writers
  <1>2. \A t \in Writers(k) : t \in Tx /\ pc[t] \in Holding
    <2>1. ASSUME NEW t \in Tx, pc[t] \notin Holding PROVE KeysWritten(t) = {}
      <3>1. ToSet(writes[t]) = {}
        BY <1>0, <2>1 DEF WritesHeld, ToSet
      <3> QED BY <3>1 DEF KeysWritten
    <2> QED BY <2>1 DEF Writers
  <1>3. CASE Writers(k) = {}
    <2>1. CASE UndoneKey(k)
      BY <1>0, <1>3, <2>1 DEF AtomInv, UndoneVisible
    <2>2. CASE ~UndoneKey(k)
      <3>1. Pending(wal, pc) = {t \in Tx : pc[t] \in Live}
        BY <1>0 DEF AtomInv, PendingLive
      <3>2. Unwritten(wal, Pending(wal, pc), k)
        BY <1>1, <1>3, <2>2, <3>1 DEF Unwritten, Live, UndoneKey
      <3>3. Latest(RedoOf(wal, Aborted(wal, pc), k), DiskOf(store, pc)[k]) = Visible(store, k)
        BY <1>0, <2>2 DEF AtomInv, RedoVisible
      <3>4. durable[k] = Latest(RedoOf(wal, Aborted(wal, pc), k), DiskOf(store, pc)[k])
        BY <1>0, <3>2 DEF AtomInv, Foretold
      <3> QED BY <1>3, <3>3, <3>4
    <2> QED BY <2>1, <2>2
  <1>4. ASSUME NEW t \in Writers(k)
        PROVE  Visible(store, k) = Client!Effect(durable, writes[t])[k]
    <2>1. t \in Tx /\ pc[t] \in Holding /\ Wrote(wal, t, k)
      BY <1>1, <1>2
    <2>2. Newest(wal, t, k) = Visible(store, k)
      BY <1>0, <2>1 DEF AtomInv, WriterSees
    <2>3. durable \in [Key -> Row \cup {NoRow}]
      BY <1>0 DEF TypeInv, TypeOK
    <2>4. Client!Effect(durable, writes[t])[k] = Latest(UndoOn(wal, t, k), durable[k])
      BY <1>0, <2>1, <2>3, WritesOn
    <2>5. Latest(UndoOn(wal, t, k), durable[k]) = Newest(wal, t, k)
      BY <2>1, Zenon DEF Latest, Newest, Wrote
    <2> QED BY <2>2, <2>4, <2>5
  <1> QED BY <1>3, <1>4

--------------------------------------------------------------------------------
\* VisibleIsCurrent: with updates, statements read what a crash would leave, with
\* the writes of running transactions on top, whatever has been evicted, flushed,
\* cut from the log, undone or recovered before.
THEOREM StatementsReadCurrent == Spec /\ UpdatesOnly => []VisibleIsCurrent
  <1>1. StoreInv /\ [Next]_vars => StoreInv'
    BY StoreSteps DEF StepOfStore
  <1> QED BY <1>1, StoreInit, VisibleFrom, PTL DEF Spec

\* ImplementsAtomicStore: the buffer pool, the log and recovery together are a
\* store whose transactions take effect at their COMMIT record or never.
THEOREM UpdatesAreAtomic == Spec /\ UpdatesOnly => ImplementsAtomicStore
  <1>1. StoreInv /\ [Next]_vars => StoreInv' /\ [Client!Next]_<<durable, writes>>
    BY StoreSteps DEF StepOfStore
  <1>2. Init => Client!Init
    BY DEF Init, Client!Init
  <1> QED BY <1>1, <1>2, StoreInit, PTL DEF Spec, ImplementsAtomicStore, Client!Spec

\* CommitIsDurable: the COMMIT record makes all writes of its transaction durable.
THEOREM CommitsAreDurable == Spec /\ UpdatesOnly => CommitIsDurable
  <1>1. StoreInv /\ [Next]_vars => StoreInv' /\ CommitTakesEffect
    BY StoreSteps DEF StepOfStore
  <1> QED BY <1>1, StoreInit, PTL DEF Spec, CommitIsDurable, CommitTakesEffect

\* RollbackKeepsCommitted: no step of a rollback changes what is durable.
THEOREM RollbacksKeepCommitted == Spec /\ UpdatesOnly => RollbackKeepsCommitted
  <1>1. StoreInv /\ [Next]_vars => StoreInv' /\ RollbackTakesNothing
    BY StoreSteps DEF StepOfStore
  <1> QED BY <1>1, StoreInit, PTL DEF Spec, RollbackKeepsCommitted, RollbackTakesNothing

================================================================================
