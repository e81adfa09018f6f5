----------------------------- MODULE IndexesProofs -----------------------------
(***************************************************************************)
(* What holds of Indexes for every table, every number of statements, every *)
(* size of rows and blocks and every order of the tree: the table file, the *)
(* pool and the hash index first, the B+ tree and its searches last.        *)
(***************************************************************************)
EXTENDS Indexes, BPlusTreeProofs, FiniteSetTheorems

BP == INSTANCE BufferManagerProofs WITH Row <- Value

--------------------------------------------------------------------------------
(* The buffer pool.                                                         *)

\* The lemmas of BufferManagerProofs are about the same operators.
LEMMA SameOnly ==
  ASSUME NEW s, NEW S
  PROVE  B!Only(s, S) = BP!Only(s, S)
  BY DEF B!Only, BP!Only, B!FoldLeft, BP!FoldLeft, B!MapThenFoldSet, BP!MapThenFoldSet, B!Max, BP!Max

\* The instances of the library are one library.
LEMMA SameSet ==
  ASSUME NEW s
  PROVE  B!ToSet(s) = ToSet(s) /\ BP!ToSet(s) = ToSet(s)
  BY DEF B!ToSet, BP!ToSet, ToSet

\* Their pools are the same,
LEMMA SamePool ==
  /\ B!BufferedRow = BP!BufferedRow
  /\ \A s : B!StoreOK(s) <=> BP!StoreOK(s)
  /\ \A s : B!Keys(s) = BP!Keys(s)
  /\ \A s, k : B!Buffered(s, k) = BP!Buffered(s, k)
  BY SameSet DEF B!BufferedRow, BP!BufferedRow, B!StoreOK, BP!StoreOK, B!Keys, BP!Keys, B!Buffered, BP!Buffered

\* and so are the operations on them.
LEMMA SameOperations ==
  /\ \A s : B!Flushed(s) = BP!Flushed(s)
  /\ \A s, k, x : B!Written(s, k, x) = BP!Written(s, k, x)
  /\ \A s, k : B!Deleted(s, k) = BP!Deleted(s, k)
  <1>1. \A s : B!Flushed(s) = BP!Flushed(s)
    BY SameSet, SamePool DEF B!Flushed, BP!Flushed, B!Merged, BP!Merged
  <1>2. \A s, row : B!Added(s, row) = BP!Added(s, row)
    BY <1>1 DEF B!Added, BP!Added, B!Evicted, BP!Evicted
  <1>3. \A s, k : B!Others(s, k) = BP!Others(s, k)
    BY SameSet, SameOnly DEF B!Others, BP!Others
  <1>4. \A s, row : B!Put(s, row) = BP!Put(s, row)
    BY <1>2, <1>3, SamePool DEF B!Put, BP!Put
  <1>5. \A s, k : B!Fetched(s, k) = BP!Fetched(s, k)
    BY <1>2, SamePool DEF B!Fetched, BP!Fetched
  <1> QED BY <1>1, <1>4, <1>5, SamePool DEF B!Written, BP!Written, B!Deleted, BP!Deleted

Rows == [key : Key, value : Value]
KeysOf(q) == {r.key : r \in ToSet(q)}

\* What statements see of a key.
Seen(k) == BP!Visible(pool, k)

\* A selection.
LEMMA Selection ==
  ASSUME NEW E, NEW s \in Seq(E), NEW S
  PROVE  /\ B!Only(s, S) \in Seq(E) /\ ToSet(B!Only(s, S)) = ToSet(s) \cap S
         /\ ToSet(s) \subseteq S => B!Only(s, S) = s
         /\ BP!Distinct(s) => BP!Distinct(B!Only(s, S))
  <1>1. BP!Only(s, S) \in Seq(E)
    BY NoRowAssumption, BP!OnlyType
  <1>2. BP!ToSet(BP!Only(s, S)) = BP!ToSet(s) \cap S
    BY NoRowAssumption, BP!OnlyRange
  <1>3. BP!ToSet(s) \subseteq S => BP!Only(s, S) = s
    BY NoRowAssumption, BP!OnlyAll
  <1>4. BP!Distinct(s) => BP!Distinct(BP!Only(s, S))
    BY NoRowAssumption, BP!OnlyDistinct
  <1> QED BY <1>1, <1>2, <1>3, <1>4, SameOnly, SameSet

\* The rows of a pool that evicts nothing.
LEMMA PoolRows ==
  ASSUME BP!Roomy(pool)
  PROVE  /\ pool.buffer \in Seq(BP!BufferedRow) /\ BP!Distinct(pool.buffer)
         /\ pool.disk \in [Key -> Value \cup {NoRow}]
         /\ \A b \in ToSet(pool.buffer) :
              /\ b \in BP!BufferedRow /\ b.key \in Key /\ b.data \in Value
              /\ b.key \in B!Keys(pool) /\ B!Buffered(pool, b.key) = b
              /\ Seen(b.key) = IF b.is_deleted THEN NoRow ELSE b.data
              /\ ~b.is_dirty => pool.disk[b.key] = Seen(b.key)
         /\ \A k \in Key \ B!Keys(pool) : Seen(k) = pool.disk[k]
         /\ \A k \in B!Keys(pool) : \E b \in ToSet(pool.buffer) : b.key = k
         /\ \A k \in Key : Seen(k) \in Value \cup {NoRow}
  <1>1. /\ pool \in BP!Store /\ BP!StoreOK(pool) /\ BP!CleanOnDisk(pool)
        /\ \A b \in ToSet(pool.buffer) : b.data \in Value
    BY SameSet DEF BP!Roomy, BP!Good
  <1>2. /\ pool.buffer \in Seq(BP!BufferedRow) /\ BP!Distinct(pool.buffer)
        /\ pool.disk \in [Key -> Value \cup {NoRow}]
        /\ ToSet(pool.buffer) \subseteq BP!BufferedRow
    BY <1>1, NoRowAssumption, SameSet, BP!StoreFields
  <1>3. \A b \in ToSet(pool.buffer) : b.key \in B!Keys(pool) /\ B!Buffered(pool, b.key) = b
    BY <1>1, NoRowAssumption, SameSet, SamePool, BP!BufferedIsTheRow
  <1>4. /\ \A b \in ToSet(pool.buffer) : Seen(b.key) = BP!Value(b)
        /\ \A k \in Key : k \notin B!Keys(pool) => Seen(k) = pool.disk[k]
        /\ \A k \in Key : Seen(k) \in Value \cup {NoRow}
    BY <1>1, NoRowAssumption, SameSet, SamePool, BP!VisibleOfRow DEF Seen
  <1>5. ASSUME NEW b \in ToSet(pool.buffer)
        PROVE  /\ b \in BP!BufferedRow /\ b.key \in Key /\ b.data \in Value
               /\ ~b.is_dirty => pool.disk[b.key] = BP!Value(b)
    BY <1>1, <1>2, SameSet DEF BP!BufferedRow, BP!CleanOnDisk, BP!Value
  <1>6. \A k \in B!Keys(pool) : \E b \in ToSet(pool.buffer) : b.key = k
    BY SameSet DEF B!Keys
  <1>7. \A b : BP!Value(b) = IF b.is_deleted THEN NoRow ELSE b.data
    BY DEF BP!Value
  <1> QED BY <1>2, <1>3, <1>4, <1>5, <1>6, <1>7

--------------------------------------------------------------------------------
(* The rows that a merge of buffer and disk gives.                          *)

\* The text a merge gives of a key: what is buffered as it was written, what is in
\* the file as a scan reads it.
Shows == [k \in Key |-> IF k \in B!Keys(pool) \/ Seen(k) = NoRow THEN Seen(k) ELSE Padded[Seen(k)]]

\* The text that a scan reads of a key after a flush.
Stored == [k \in Key |-> IF Seen(k) = NoRow THEN NoRow ELSE Padded[Seen(k)]]

View == [Key -> Value \cup {NoRow}]

\* Both show the keys that are seen, and in plain text what is seen of them.
LEMMA Views ==
  ASSUME BP!Roomy(pool)
  PROVE  /\ Shows \in View /\ Stored \in View
         /\ \A k \in Key : /\ Shows[k] = NoRow <=> Seen(k) = NoRow
                           /\ Stored[k] = NoRow <=> Seen(k) = NoRow
                           /\ Seen(k) # NoRow => Stored[k] = Padded[Seen(k)]
                           /\ k \in B!Keys(pool) => Shows[k] = Seen(k)
                           /\ k \notin B!Keys(pool) /\ Seen(k) # NoRow => Shows[k] = Padded[Seen(k)]
                           /\ Plain => Shows[k] = Seen(k)
  <1>1. \A k \in Key : Seen(k) \in Value \cup {NoRow}
    BY PoolRows
  <1>2. \A v \in Value : Padded[v] \in Value
    BY TextAssumption
  <1>3. \A k \in Key : Seen(k) # NoRow => Padded[Seen(k)] \in Value /\ Padded[Seen(k)] # NoRow
    BY <1>1, <1>2, NoRowAssumption
  <1>4. ASSUME NEW k \in Key, Plain PROVE Shows[k] = Seen(k)
    BY <1>1, <1>4 DEF Plain, Shows
  <1> QED BY <1>1, <1>3, <1>4 DEF Shows, Stored, View

\* Rows with what a view shows of their keys.
Shown(x, q) == [i \in DOMAIN q |-> [key |-> q[i].key, value |-> x[q[i].key]]]

\* Rows with what a view shows of their keys are rows, with the keys they had.
LEMMA ShownRows ==
  ASSUME NEW x \in View, NEW E, NEW q \in Seq(E),
         \A r \in ToSet(q) : r.key \in Key /\ x[r.key] # NoRow
  PROVE  /\ Shown(x, q) \in Seq(Rows) /\ Len(Shown(x, q)) = Len(q)
         /\ \A i \in DOMAIN q : Shown(x, q)[i].key = q[i].key
         /\ ToSet(Shown(x, q)) = {[key |-> k, value |-> x[k]] : k \in KeysOf(q)}
         /\ BP!Distinct(q) => BP!Distinct(Shown(x, q))
  <1>1. \A i \in DOMAIN q : q[i].key \in Key /\ x[q[i].key] \in Value
    BY DEF ToSet, View
  <1>2. Shown(x, q) \in Seq(Rows) /\ Len(Shown(x, q)) = Len(q)
    <2>1. DOMAIN q = 1 .. Len(q) /\ Len(q) \in Nat
      OBVIOUS
    <2>2. \A i \in 1 .. Len(q) : [key |-> q[i].key, value |-> x[q[i].key]] \in Rows
      BY <1>1, <2>1 DEF Rows
    <2>3. Shown(x, q) = [i \in 1 .. Len(q) |-> [key |-> q[i].key, value |-> x[q[i].key]]]
      BY <2>1 DEF Shown
    <2> QED BY <2>1, <2>2, <2>3
  <1>3. DOMAIN Shown(x, q) = DOMAIN q /\ \A i \in DOMAIN q : Shown(x, q)[i] = [key |-> q[i].key, value |-> x[q[i].key]]
    BY DEF Shown
  <1>4. ToSet(Shown(x, q)) = {[key |-> k, value |-> x[k]] : k \in KeysOf(q)}
    BY <1>3 DEF ToSet, KeysOf
  <1>5. BP!Distinct(q) => BP!Distinct(Shown(x, q))
    BY <1>3 DEF BP!Distinct
  <1> QED BY <1>2, <1>3, <1>4, <1>5

\* One sequence after another.
LEMMA TwoParts ==
  ASSUME NEW a \in Seq(Rows), NEW b \in Seq(Rows), BP!Distinct(a), BP!Distinct(b),
         \A i \in DOMAIN a, j \in DOMAIN b : a[i].key # b[j].key
  PROVE  /\ a \o b \in Seq(Rows) /\ BP!Distinct(a \o b)
         /\ ToSet(a \o b) = ToSet(a) \cup ToSet(b)
         /\ \A i \in DOMAIN a : i \in DOMAIN (a \o b) /\ (a \o b)[i] = a[i]
         /\ \A i \in DOMAIN (a \o b) : i \notin DOMAIN a => (a \o b)[i] \in ToSet(b)
  <1> DEFINE c == a \o b
             m == Len(a)
             n == Len(b)
  <1>1. /\ c \in Seq(Rows) /\ DOMAIN c = 1 .. m + n /\ DOMAIN a = 1 .. m /\ DOMAIN b = 1 .. n
        /\ m \in Nat /\ n \in Nat
        /\ \A i \in 1 .. m : c[i] = a[i]
        /\ \A i \in 1 .. n : c[m + i] = b[i]
        /\ \A i \in 1 .. m + n : i > m => c[i] = b[i - m]
    OBVIOUS
  <1> HIDE DEF c, m, n
  <1>2. BP!Distinct(c)
    <2> SUFFICES ASSUME NEW i \in DOMAIN c, NEW j \in DOMAIN c, c[i].key = c[j].key
                 PROVE  i = j
      BY DEF BP!Distinct
    <2>1. CASE i <= m /\ j <= m
      BY <1>1, <2>1 DEF BP!Distinct
    <2>2. CASE i > m /\ j > m
      <3>1. i - m \in 1 .. n /\ j - m \in 1 .. n
        BY <1>1, <2>2
      <3>2. i - m = j - m
        BY <1>1, <2>2, <3>1 DEF BP!Distinct
      <3> QED BY <1>1, <3>2
    <2>3. CASE i <= m /\ j > m
      <3>1. i \in 1 .. m /\ j - m \in 1 .. n
        BY <1>1, <2>3
      <3> QED BY <1>1, <2>3, <3>1
    <2>4. CASE i > m /\ j <= m
      <3>1. j \in 1 .. m /\ i - m \in 1 .. n
        BY <1>1, <2>4
      <3> QED BY <1>1, <2>4, <3>1
    <2> QED BY <1>1, <2>1, <2>2, <2>3, <2>4
  <1>3. \A i \in 1 .. m + n : i > m => i - m \in 1 .. n
    BY <1>1
  <1>4. \A i \in 1 .. n : m + i \in 1 .. m + n
    BY <1>1
  <1>5. \A i \in 1 .. m : i \in 1 .. m + n
    BY <1>1
  <1>6. \A i \in 1 .. m + n : i \notin 1 .. m => c[i] \in ToSet(b)
    <2> SUFFICES ASSUME NEW i \in 1 .. m + n, i \notin 1 .. m PROVE c[i] \in ToSet(b)
      OBVIOUS
    <2>1. i - m \in DOMAIN b /\ c[i] = b[i - m]
      BY <1>1, <1>3
    <2> QED BY <2>1, Zenon DEF ToSet
  <1>7. ToSet(c) = ToSet(a) \cup ToSet(b)
    <2>1. \A i \in DOMAIN c : c[i] \in ToSet(a) \cup ToSet(b)
      BY <1>1, <1>6 DEF ToSet
    <2>2. \A i \in DOMAIN a : a[i] \in ToSet(c)
      BY <1>1, <1>5 DEF ToSet
    <2>3. \A i \in DOMAIN b : b[i] \in ToSet(c)
      <3> SUFFICES ASSUME NEW i \in DOMAIN b PROVE b[i] \in ToSet(c)
        OBVIOUS
      <3>1. m + i \in DOMAIN c /\ c[m + i] = b[i]
        BY <1>1, <1>4
      <3> QED BY <3>1, Zenon DEF ToSet
    <2> QED BY <2>1, <2>2, <2>3 DEF ToSet
  <1> QED BY <1>1, <1>2, <1>5, <1>6, <1>7 DEF c

\* The rows of R that are shown, and those of Q that are shown and not in R.
Parts(x, R, S, Q, T) == Shown(x, B!Only(R, S)) \o Shown(x, B!Only(Q, T))

\* R keeps its places when all of it is shown, and what comes after it is not in R.
Extends(M, R) ==
  /\ \A i \in DOMAIN R : i \in DOMAIN M /\ M[i].key = R[i].key
  /\ \A i \in DOMAIN M : i \notin DOMAIN R => M[i].key \notin KeysOf(R)

ShownOf(x, K) == {[key |-> k, value |-> x[k]] : k \in {k \in K : x[k] # NoRow}}

\* A merge has the keys of both parts that are shown, each once.
LEMMA ShownParts ==
  ASSUME NEW x \in View, NEW R \in Seq(Rows), BP!Distinct(R),
         NEW Q \in Seq(BP!BufferedRow), BP!Distinct(Q), NEW S, NEW T,
         \A r \in ToSet(R) : r \in S <=> x[r.key] # NoRow,
         \A b \in ToSet(Q) : b \in T <=> x[b.key] # NoRow /\ b.key \notin KeysOf(R)
  PROVE  /\ Parts(x, R, S, Q, T) \in Seq(Rows) /\ BP!Distinct(Parts(x, R, S, Q, T))
         /\ ToSet(Parts(x, R, S, Q, T)) = ShownOf(x, KeysOf(R) \cup KeysOf(Q))
         /\ (\A r \in ToSet(R) : x[r.key] # NoRow) => Extends(Parts(x, R, S, Q, T), R)
  <1> DEFINE a == B!Only(R, S)
             b == B!Only(Q, T)
             M == Parts(x, R, S, Q, T)
  <1>1. /\ a \in Seq(Rows) /\ BP!Distinct(a) /\ ToSet(a) = ToSet(R) \cap S
        /\ ToSet(R) \subseteq S => a = R
    BY Selection
  <1>2. b \in Seq(BP!BufferedRow) /\ BP!Distinct(b) /\ ToSet(b) = ToSet(Q) \cap T
    BY Selection
  <1>3. M = Shown(x, a) \o Shown(x, b)
    BY DEF Parts
  <1> HIDE DEF a, b, M
  <1>4. \A r \in ToSet(a) : r.key \in Key /\ x[r.key] # NoRow
    <2>1. \A r \in ToSet(R) : r \in Rows
      BY DEF ToSet
    <2> QED BY <1>1, <2>1 DEF Rows
  <1>5. \A r \in ToSet(b) : r.key \in Key /\ x[r.key] # NoRow
    <2>1. \A r \in ToSet(Q) : r \in BP!BufferedRow
      BY DEF ToSet
    <2> QED BY <1>2, <2>1 DEF BP!BufferedRow
  <1>6. /\ Shown(x, a) \in Seq(Rows) /\ Len(Shown(x, a)) = Len(a) /\ BP!Distinct(Shown(x, a))
        /\ \A i \in DOMAIN a : Shown(x, a)[i].key = a[i].key
        /\ ToSet(Shown(x, a)) = {[key |-> k, value |-> x[k]] : k \in KeysOf(a)}
    BY <1>1, <1>4, ShownRows
  <1>7. /\ Shown(x, b) \in Seq(Rows) /\ Len(Shown(x, b)) = Len(b) /\ BP!Distinct(Shown(x, b))
        /\ \A i \in DOMAIN b : Shown(x, b)[i].key = b[i].key
        /\ ToSet(Shown(x, b)) = {[key |-> k, value |-> x[k]] : k \in KeysOf(b)}
    BY <1>2, <1>5, ShownRows
  <1>8. /\ DOMAIN Shown(x, a) = DOMAIN a /\ DOMAIN Shown(x, b) = DOMAIN b
        /\ DOMAIN a = 1 .. Len(a) /\ DOMAIN b = 1 .. Len(b)
    BY <1>1, <1>2 DEF Shown
  <1>9. KeysOf(a) \subseteq KeysOf(R) /\ \A k \in KeysOf(b) : k \notin KeysOf(R)
    BY <1>1, <1>2 DEF KeysOf
  <1>10. \A i \in DOMAIN Shown(x, a), j \in DOMAIN Shown(x, b) : Shown(x, a)[i].key # Shown(x, b)[j].key
    <2>1. \A i \in DOMAIN a : a[i].key \in KeysOf(a)
      BY DEF KeysOf, ToSet
    <2>2. \A j \in DOMAIN b : b[j].key \in KeysOf(b)
      BY DEF KeysOf, ToSet
    <2> QED BY <1>6, <1>7, <1>8, <1>9, <2>1, <2>2
  <1>11. /\ M \in Seq(Rows) /\ BP!Distinct(M) /\ ToSet(M) = ToSet(Shown(x, a)) \cup ToSet(Shown(x, b))
         /\ \A i \in DOMAIN Shown(x, a) : i \in DOMAIN M /\ M[i] = Shown(x, a)[i]
         /\ \A i \in DOMAIN M : i \notin DOMAIN Shown(x, a) => M[i] \in ToSet(Shown(x, b))
    <2> DEFINE u == Shown(x, a)
               w == Shown(x, b)
    <2>1. /\ u \in Seq(Rows) /\ BP!Distinct(u) /\ w \in Seq(Rows) /\ BP!Distinct(w) /\ M = u \o w
          /\ \A i \in DOMAIN u, j \in DOMAIN w : u[i].key # w[j].key
      BY <1>3, <1>6, <1>7, <1>10, Zenon
    <2> HIDE DEF u, w
    <2>2. /\ M \in Seq(Rows) /\ BP!Distinct(M) /\ ToSet(M) = ToSet(u) \cup ToSet(w)
          /\ \A i \in DOMAIN u : i \in DOMAIN M /\ M[i] = u[i]
          /\ \A i \in DOMAIN M : i \notin DOMAIN u => M[i] \in ToSet(w)
      BY <2>1, TwoParts
    <2> QED BY <2>2 DEF u, w
  <1>12. KeysOf(a) \cup KeysOf(b) = {k \in KeysOf(R) \cup KeysOf(Q) : x[k] # NoRow}
    <2>1. KeysOf(a) = {r.key : r \in ToSet(R) \cap S} /\ KeysOf(b) = {r.key : r \in ToSet(Q) \cap T}
      BY <1>1, <1>2, Zenon DEF KeysOf
    <2>2. KeysOf(R) = {r.key : r \in ToSet(R)} /\ KeysOf(Q) = {r.key : r \in ToSet(Q)}
      BY Zenon DEF KeysOf
    <2> QED BY <2>1, <2>2, SMTT(30)
  <1>13. ToSet(M) = ShownOf(x, KeysOf(R) \cup KeysOf(Q))
    BY <1>6, <1>7, <1>11, <1>12 DEF ShownOf
  <1>14. ASSUME \A r \in ToSet(R) : x[r.key] # NoRow PROVE Extends(M, R)
    <2>1. a = R
      BY <1>1, <1>14
    <2>2. \A y \in ToSet(Shown(x, b)) : y.key \notin KeysOf(R)
      BY <1>7, <1>9
    <2> QED BY <1>6, <1>8, <1>11, <2>1, <2>2 DEF Extends
  <1> QED BY <1>11, <1>13, <1>14 DEF M

--------------------------------------------------------------------------------
(* Merges of the pool with rows of the file.                                *)

\* Rows of the file, with the contents the pool takes to be on disk.
FromDisk(R) ==
  /\ R \in Seq(Rows) /\ BP!Distinct(R)
  /\ \A r \in ToSet(R) : pool.disk[r.key] \in Value /\ r.value = Padded[pool.disk[r.key]]

\* _merge_buffer_with_disk gives what is seen of the rows read and of the buffered ones.
LEMMA MergeShows ==
  ASSUME BP!Roomy(pool), NEW R, FromDisk(R)
  PROVE  /\ Merge(R) \in Seq(Rows) /\ BP!Distinct(Merge(R))
         /\ ToSet(Merge(R)) = ShownOf(Shows, KeysOf(R) \cup B!Keys(pool))
         /\ (\A r \in ToSet(R) : Seen(r.key) # NoRow) => Extends(Merge(R), R)
  <1> DEFINE S == {r \in ToSet(R) : ~ \E b \in ToSet(pool.buffer) : b.key = r.key /\ b.is_deleted}
             T == {b \in ToSet(pool.buffer) : ~b.is_deleted /\ b.key \notin KeysOf(R)}
             a == B!Only(R, S)
             c == B!Only(pool.buffer, T)
             f == [i \in DOMAIN a |-> IF a[i].key \in B!Keys(pool)
                              THEN [a[i] EXCEPT !.value = B!Buffered(pool, a[i].key).data] ELSE a[i]]
             g == [i \in DOMAIN c |-> [key |-> c[i].key, value |-> c[i].data]]
  <1>1. Merge(R) = f \o g
    BY DEF Merge, KeysOf
  <1>2. R \in Seq(Rows) /\ BP!Distinct(R) /\ \A r \in ToSet(R) : r \in Rows /\ pool.disk[r.key] \in Value /\ r.value = Padded[pool.disk[r.key]]
    BY DEF FromDisk, ToSet
  <1>3. /\ pool.buffer \in Seq(BP!BufferedRow) /\ BP!Distinct(pool.buffer)
        /\ \A b \in ToSet(pool.buffer) :
              /\ b \in BP!BufferedRow /\ b.key \in Key /\ b.data \in Value
              /\ b.key \in B!Keys(pool) /\ B!Buffered(pool, b.key) = b
              /\ Seen(b.key) = IF b.is_deleted THEN NoRow ELSE b.data
        /\ \A k \in Key \ B!Keys(pool) : Seen(k) = pool.disk[k]
        /\ \A k \in B!Keys(pool) : \E b \in ToSet(pool.buffer) : b.key = k
    BY PoolRows
  <1>v. /\ Shows \in View
        /\ \A k \in Key : /\ Shows[k] = NoRow <=> Seen(k) = NoRow
                          /\ k \in B!Keys(pool) => Shows[k] = Seen(k)
                          /\ k \notin B!Keys(pool) /\ Seen(k) # NoRow => Shows[k] = Padded[Seen(k)]
    BY Views
  <1>4. \A r \in ToSet(R) : r \in S <=> Seen(r.key) # NoRow
    <2> SUFFICES ASSUME NEW r \in ToSet(R) PROVE r \in S <=> Seen(r.key) # NoRow
      OBVIOUS
    <2>1. r.key \in Key /\ r.value \in Value /\ pool.disk[r.key] \in Value
      BY <1>2 DEF Rows
    <2>2. CASE r.key \in B!Keys(pool)
      BY <2>2, <1>3, NoRowAssumption
    <2>3. CASE r.key \notin B!Keys(pool)
      BY <2>1, <2>3, <1>3, NoRowAssumption
    <2> QED BY <2>2, <2>3
  <1>5. \A b \in ToSet(pool.buffer) : b \in T <=> Seen(b.key) # NoRow /\ b.key \notin KeysOf(R)
    BY <1>3, NoRowAssumption
  <1>6. /\ a \in Seq(Rows) /\ ToSet(a) = ToSet(R) \cap S
        /\ c \in Seq(BP!BufferedRow) /\ ToSet(c) = ToSet(pool.buffer) \cap T
    BY <1>2, <1>3, Selection
  <1> HIDE DEF S, T
  <1>7. f = Shown(Shows, a)
    <2> SUFFICES ASSUME NEW i \in DOMAIN a
                 PROVE  f[i] = [key |-> a[i].key, value |-> Shows[a[i].key]]
      BY DEF Shown
    <2>1. a[i] \in ToSet(R) /\ a[i] \in S
      BY <1>6 DEF ToSet
    <2>2. a[i] \in Rows /\ a[i].key \in Key /\ a[i].value = Padded[pool.disk[a[i].key]] /\ Seen(a[i].key) # NoRow
      BY <1>2, <1>4, <2>1 DEF Rows
    <2>3. CASE a[i].key \in B!Keys(pool)
      <3>1. PICK b \in ToSet(pool.buffer) : b.key = a[i].key
        BY <1>3, <2>3
      <3>2. Seen(a[i].key) = b.data /\ B!Buffered(pool, a[i].key) = b
        BY <1>3, <2>2, <3>1
      <3> QED BY <1>v, <2>2, <2>3, <3>2 DEF Rows
    <2>4. CASE a[i].key \notin B!Keys(pool)
      BY <1>3, <1>v, <2>2, <2>4 DEF Rows
    <2> QED BY <2>3, <2>4
  <1>8. g = Shown(Shows, c)
    <2> SUFFICES ASSUME NEW i \in DOMAIN c
                 PROVE  c[i].data = Shows[c[i].key]
      BY DEF Shown
    <2>1. c[i] \in ToSet(pool.buffer) /\ c[i] \in T
      BY <1>6 DEF ToSet
    <2> QED BY <1>3, <1>5, <1>v, <2>1
  <1>9. Merge(R) = Parts(Shows, R, S, pool.buffer, T)
    BY <1>1, <1>7, <1>8 DEF Parts
  <1>10. KeysOf(pool.buffer) = B!Keys(pool)
    BY SameSet DEF KeysOf, B!Keys
  <1> HIDE DEF f, g, a, c
  <1> DEFINE Q == pool.buffer
  <1>11. /\ R \in Seq(Rows) /\ BP!Distinct(R) /\ Q \in Seq(BP!BufferedRow) /\ BP!Distinct(Q)
         /\ \A b \in ToSet(Q) : b \in T <=> Seen(b.key) # NoRow /\ b.key \notin KeysOf(R)
    BY <1>2, <1>3, <1>5
  <1> HIDE DEF Q
  <1>12. /\ Parts(Shows, R, S, Q, T) \in Seq(Rows) /\ BP!Distinct(Parts(Shows, R, S, Q, T))
         /\ ToSet(Parts(Shows, R, S, Q, T)) = ShownOf(Shows, KeysOf(R) \cup KeysOf(Q))
         /\ (\A r \in ToSet(R) : Seen(r.key) # NoRow) => Extends(Parts(Shows, R, S, Q, T), R)
    <2>1. /\ \A r \in ToSet(R) : r \in S <=> Shows[r.key] # NoRow
          /\ \A r \in ToSet(R) : Seen(r.key) # NoRow <=> Shows[r.key] # NoRow
      BY <1>2, <1>4, <1>v DEF Rows
    <2>2. \A b \in ToSet(Q) : b \in T <=> Shows[b.key] # NoRow /\ b.key \notin KeysOf(R)
      BY <1>3, <1>11, <1>v DEF Q
    <2>3. Shows \in View
      BY <1>v
    <2>4. /\ Parts(Shows, R, S, Q, T) \in Seq(Rows) /\ BP!Distinct(Parts(Shows, R, S, Q, T))
          /\ ToSet(Parts(Shows, R, S, Q, T)) = ShownOf(Shows, KeysOf(R) \cup KeysOf(Q))
          /\ (\A r \in ToSet(R) : Shows[r.key] # NoRow) => Extends(Parts(Shows, R, S, Q, T), R)
      <3> DEFINE x == Shows
      <3>1. x \in View /\ \A r \in ToSet(R) : r \in S <=> x[r.key] # NoRow
        BY <2>1, <2>3
      <3>2. \A b \in ToSet(Q) : b \in T <=> x[b.key] # NoRow /\ b.key \notin KeysOf(R)
        BY <2>2
      <3> HIDE DEF x
      <3>3. /\ Parts(x, R, S, Q, T) \in Seq(Rows) /\ BP!Distinct(Parts(x, R, S, Q, T))
            /\ ToSet(Parts(x, R, S, Q, T)) = ShownOf(x, KeysOf(R) \cup KeysOf(Q))
            /\ (\A r \in ToSet(R) : x[r.key] # NoRow) => Extends(Parts(x, R, S, Q, T), R)
        BY <1>11, <3>1, <3>2, ShownParts
      <3> QED BY <3>3 DEF x
    <2> QED BY <2>1, <2>4
  <1> QED BY <1>9, <1>10, <1>12 DEF Q

\* Filled changes the texts of rows only.
LEMMA FilledRows ==
  ASSUME NEW rows \in Seq(Rows)
  PROVE  /\ Filled(rows) \in Seq(Rows) /\ Len(Filled(rows)) = Len(rows) /\ DOMAIN Filled(rows) = DOMAIN rows
         /\ \A i \in DOMAIN rows : Filled(rows)[i] = [key |-> rows[i].key, value |-> Padded[rows[i].value]]
         /\ Plain => Filled(rows) = rows
  <1> DEFINE g == Filled(rows)
             n == Len(rows)
  <1>1. DOMAIN rows = 1 .. n /\ n \in Nat /\ \A i \in DOMAIN rows : rows[i] \in Rows
    OBVIOUS
  <1>2. ASSUME NEW r \in Rows
        PROVE  /\ [key |-> r.key, value |-> Padded[r.value]] \in Rows
               /\ Plain => [key |-> r.key, value |-> Padded[r.value]] = r
    <2>1. r.key \in Key /\ r.value \in Value /\ r = [key |-> r.key, value |-> r.value]
      BY DEF Rows
    <2>2. Padded[r.value] \in Value
      BY <2>1, TextAssumption
    <2>3. Plain => Padded[r.value] = r.value
      BY <2>1 DEF Plain
    <2> QED BY <2>1, <2>2, <2>3 DEF Rows
  <1>3. /\ DOMAIN g = DOMAIN rows
        /\ \A i \in DOMAIN rows : g[i] = [key |-> rows[i].key, value |-> Padded[rows[i].value]]
    BY Zenon DEF Filled
  <1>4. g = [i \in DOMAIN rows |-> g[i]]
    BY DEF Filled
  <1>5. rows = [i \in DOMAIN rows |-> rows[i]]
    OBVIOUS
  <1> HIDE DEF g, n
  <1>6. \A i \in 1 .. n : g[i] \in Rows /\ (Plain => g[i] = rows[i])
    <2> SUFFICES ASSUME NEW i \in 1 .. n PROVE g[i] \in Rows /\ (Plain => g[i] = rows[i])
      OBVIOUS
    <2>1. i \in DOMAIN rows /\ rows[i] \in Rows
      BY <1>1
    <2>2. g[i] = [key |-> rows[i].key, value |-> Padded[rows[i].value]]
      BY <1>3, <2>1, Zenon
    <2>3. /\ [key |-> rows[i].key, value |-> Padded[rows[i].value]] \in Rows
          /\ Plain => [key |-> rows[i].key, value |-> Padded[rows[i].value]] = rows[i]
      BY <1>2, <2>1, Zenon
    <2> QED BY <2>2, <2>3, Zenon
  <1>7. g \in Seq(Rows) /\ Len(g) = n
    BY <1>1, <1>4, <1>6
  <1>8. Plain => g = rows
    BY <1>1, <1>4, <1>5, <1>6, Zenon
  <1> QED BY <1>3, <1>7, <1>8 DEF g, n

\* The elements of a concatenation.
LEMMA ConcatAt ==
  ASSUME NEW a \in Seq(Rows), NEW b \in Seq(Rows)
  PROVE  /\ a \o b \in Seq(Rows) /\ DOMAIN (a \o b) = 1 .. Len(a) + Len(b)
         /\ \A i \in 1 .. Len(a) + Len(b) : (a \o b)[i] = IF i <= Len(a) THEN a[i] ELSE b[i - Len(a)]
         /\ a \o b = [i \in DOMAIN (a \o b) |-> (a \o b)[i]]
  <1> DEFINE c == a \o b
  <1>1. /\ c \in Seq(Rows) /\ DOMAIN c = 1 .. Len(a) + Len(b)
        /\ \A i \in 1 .. Len(a) + Len(b) : c[i] = IF i <= Len(a) THEN a[i] ELSE b[i - Len(a)]
    OBVIOUS
  <1> HIDE DEF c
  <1>2. c = [i \in DOMAIN c |-> c[i]]
    BY <1>1
  <1> QED BY <1>1, <1>2 DEF c

LEMMA FilledParts ==
  ASSUME NEW a \in Seq(Rows), NEW b \in Seq(Rows)
  PROVE  Filled(a \o b) = Filled(a) \o Filled(b)
  <1> DEFINE m == Len(a)
             n == Len(b)
             c == a \o b
             d == Filled(a)
             e == Filled(b)
             g == Filled(c)
             h == d \o e
  <1>1. m \in Nat /\ n \in Nat /\ DOMAIN a = 1 .. m /\ DOMAIN b = 1 .. n
    OBVIOUS
  <1>2. /\ c \in Seq(Rows) /\ DOMAIN c = 1 .. m + n
        /\ \A i \in 1 .. m + n : c[i] = IF i <= m THEN a[i] ELSE b[i - m]
    BY ConcatAt
  <1>3. d \in Seq(Rows) /\ Len(d) = m /\ e \in Seq(Rows) /\ Len(e) = n
    BY FilledRows
  <1>4. \A i \in 1 .. m : d[i] = [key |-> a[i].key, value |-> Padded[a[i].value]]
    BY <1>1, FilledRows
  <1>5. \A i \in 1 .. n : e[i] = [key |-> b[i].key, value |-> Padded[b[i].value]]
    BY <1>1, FilledRows
  <1>6. DOMAIN g = 1 .. m + n /\ \A i \in 1 .. m + n : g[i] = [key |-> c[i].key, value |-> Padded[c[i].value]]
    <2> HIDE DEF c
    <2> QED BY <1>2, FilledRows
  <1>7. g = [i \in DOMAIN g |-> g[i]]
    <2> HIDE DEF c
    <2> QED BY DEF Filled
  <1>8. /\ DOMAIN h = 1 .. m + n /\ h = [i \in DOMAIN h |-> h[i]]
        /\ \A i \in 1 .. m + n : h[i] = IF i <= m THEN d[i] ELSE e[i - m]
    <2> HIDE DEF d, e, m, n
    <2>1. /\ h \in Seq(Rows) /\ DOMAIN h = 1 .. Len(d) + Len(e) /\ h = [i \in DOMAIN h |-> h[i]]
          /\ \A i \in 1 .. Len(d) + Len(e) : h[i] = IF i <= Len(d) THEN d[i] ELSE e[i - Len(d)]
      BY <1>3, ConcatAt
    <2> QED BY <1>3, <2>1, Zenon
  <1> HIDE DEF c, d, e, g, h, m, n
  <1>9. ASSUME NEW i \in 1 .. m + n PROVE g[i] = h[i]
    <2>1. CASE i <= m
      <3>1. i \in 1 .. m
        BY <1>1, <2>1
      <3>2. c[i] = a[i] /\ h[i] = d[i]
        BY <1>2, <1>8, <2>1
      <3> QED BY <1>4, <1>6, <3>1, <3>2, Zenon
    <2>2. CASE ~(i <= m)
      <3>1. i - m \in 1 .. n
        BY <1>1, <2>2
      <3>2. c[i] = b[i - m] /\ h[i] = e[i - m]
        BY <1>2, <1>8, <2>2
      <3> QED BY <1>5, <1>6, <3>1, <3>2, Zenon
    <2> QED BY <2>1, <2>2
  <1>10. g = h
    BY <1>6, <1>7, <1>8, <1>9, Zenon
  <1> QED BY <1>10 DEF c, d, e, g, h

\* The rows that a flush writes, as a scan will read them.
LEMMA SavedShows ==
  ASSUME BP!Roomy(pool), FromDisk(Scanned(file)),
         \A k \in Key : k \in KeysOf(Scanned(file)) <=> pool.disk[k] # NoRow
  PROVE  /\ Filled(Saved) \in Seq(Rows) /\ BP!Distinct(Filled(Saved))
         /\ ToSet(Filled(Saved)) = ShownOf(Stored, Key)
         /\ (\A r \in ToSet(Scanned(file)) : Seen(r.key) # NoRow) => Extends(Filled(Saved), Scanned(file))
  <1> DEFINE R == Scanned(file)
             D == {b \in ToSet(pool.buffer) : b.is_dirty}
             Q == B!Only(pool.buffer, D)
             S == {r \in ToSet(R) : ~ \E b \in ToSet(Q) : b.key = r.key /\ b.is_deleted}
             T == {b \in ToSet(Q) : ~b.is_deleted /\ b.key \notin KeysOf(R)}
             a == B!Only(R, S)
             c == B!Only(Q, T)
             f == [i \in DOMAIN a |-> IF \E b \in ToSet(Q) : b.key = a[i].key
                              THEN [a[i] EXCEPT !.value = B!Buffered(pool, a[i].key).data] ELSE a[i]]
             g == [i \in DOMAIN c |-> [key |-> c[i].key, value |-> c[i].data]]
  <1>1. Saved = f \o g
    BY DEF Saved, KeysOf
  <1>2. R \in Seq(Rows) /\ BP!Distinct(R) /\ \A r \in ToSet(R) : r \in Rows /\ pool.disk[r.key] \in Value /\ r.value = Padded[pool.disk[r.key]]
    BY DEF FromDisk, ToSet
  <1>a. \A k \in Key : k \in KeysOf(R) <=> pool.disk[k] # NoRow
    OBVIOUS
  <1>3. /\ pool.buffer \in Seq(BP!BufferedRow) /\ BP!Distinct(pool.buffer)
        /\ \A b \in ToSet(pool.buffer) :
              /\ b \in BP!BufferedRow /\ b.key \in Key /\ b.data \in Value
              /\ b.key \in B!Keys(pool) /\ B!Buffered(pool, b.key) = b
              /\ Seen(b.key) = IF b.is_deleted THEN NoRow ELSE b.data
              /\ ~b.is_dirty => pool.disk[b.key] = Seen(b.key)
        /\ \A k \in Key \ B!Keys(pool) : Seen(k) = pool.disk[k]
        /\ \A k \in B!Keys(pool) : \E b \in ToSet(pool.buffer) : b.key = k
    BY PoolRows
  <1>b. Q \in Seq(BP!BufferedRow) /\ BP!Distinct(Q) /\ ToSet(Q) = ToSet(pool.buffer) \cap D
    BY <1>3, Selection
  <1>c. \A b \in ToSet(pool.buffer) : b \in ToSet(Q) <=> b.is_dirty
    BY <1>b
  <1>d. ToSet(Q) \subseteq ToSet(pool.buffer)
    BY <1>b
  <1> HIDE DEF Q, D, R
  <1>e. \A k \in Key : (~ \E b \in ToSet(Q) : b.key = k) => Seen(k) = pool.disk[k]
    BY <1>3, <1>c
  <1>v. /\ Stored \in View
        /\ \A k \in Key : /\ Stored[k] = NoRow <=> Seen(k) = NoRow
                          /\ Seen(k) # NoRow => Stored[k] = Padded[Seen(k)]
    BY Views
  <1>4. \A r \in ToSet(R) : r \in S <=> Seen(r.key) # NoRow
    <2> SUFFICES ASSUME NEW r \in ToSet(R) PROVE r \in S <=> Seen(r.key) # NoRow
      OBVIOUS
    <2>1. r.key \in Key /\ r.value \in Value /\ pool.disk[r.key] \in Value
      BY <1>2 DEF Rows
    <2>2. CASE \E b \in ToSet(Q) : b.key = r.key
      BY <2>2, <1>3, <1>d, NoRowAssumption
    <2>3. CASE ~ \E b \in ToSet(Q) : b.key = r.key
      BY <2>1, <2>3, <1>e, NoRowAssumption
    <2> QED BY <2>2, <2>3
  <1>5. \A b \in ToSet(Q) : b \in T <=> Seen(b.key) # NoRow /\ b.key \notin KeysOf(R)
    BY <1>3, <1>d, NoRowAssumption
  <1>6. /\ a \in Seq(Rows) /\ ToSet(a) = ToSet(R) \cap S
        /\ c \in Seq(BP!BufferedRow) /\ ToSet(c) = ToSet(Q) \cap T
    BY <1>2, <1>b, Selection
  <1> HIDE DEF S, T
  <1>7. /\ \A i \in DOMAIN a : f[i] \in Rows
        /\ \A i \in DOMAIN a : [key |-> f[i].key, value |-> Padded[f[i].value]] = [key |-> a[i].key, value |-> Stored[a[i].key]]
    <2> SUFFICES ASSUME NEW i \in DOMAIN a
                 PROVE  f[i] \in Rows /\ f[i].key = a[i].key /\ Padded[f[i].value] = Stored[a[i].key]
      OBVIOUS
    <2>1. a[i] \in ToSet(R) /\ a[i] \in S
      BY <1>6 DEF ToSet
    <2>2. /\ a[i] \in Rows /\ a[i].key \in Key /\ pool.disk[a[i].key] \in Value
          /\ a[i].value = Padded[pool.disk[a[i].key]] /\ Seen(a[i].key) # NoRow
          /\ Stored[a[i].key] = Padded[Seen(a[i].key)]
      BY <1>2, <1>4, <1>v, <2>1 DEF Rows
    <2>3. CASE \E b \in ToSet(Q) : b.key = a[i].key
      <3>1. PICK b \in ToSet(pool.buffer) : b.key = a[i].key
        BY <1>d, <2>3
      <3>2. Seen(a[i].key) = b.data /\ B!Buffered(pool, a[i].key) = b /\ b.data \in Value
        BY <1>3, <2>2, <3>1
      <3> QED BY <2>2, <2>3, <3>2 DEF Rows
    <2>4. CASE ~ \E b \in ToSet(Q) : b.key = a[i].key
      BY <1>e, <2>2, <2>4, TextAssumption DEF Rows
    <2> QED BY <2>3, <2>4
  <1>8. /\ \A i \in DOMAIN c : g[i] \in Rows
        /\ \A i \in DOMAIN c : [key |-> g[i].key, value |-> Padded[g[i].value]] = [key |-> c[i].key, value |-> Stored[c[i].key]]
    <2> SUFFICES ASSUME NEW i \in DOMAIN c
                 PROVE  c[i].key \in Key /\ c[i].data \in Value /\ Padded[c[i].data] = Stored[c[i].key]
      BY DEF Rows
    <2>1. c[i] \in ToSet(Q) /\ c[i] \in T
      BY <1>6 DEF ToSet
    <2> QED BY <1>3, <1>5, <1>d, <1>v, <2>1
  <1>g. /\ DOMAIN f = DOMAIN a /\ DOMAIN g = DOMAIN c
        /\ f = [i \in DOMAIN a |-> f[i]] /\ g = [i \in DOMAIN c |-> g[i]]
    OBVIOUS
  <1>9. Filled(Saved) = Parts(Stored, R, S, Q, T)
    <2> HIDE DEF f, g
    <2>0. /\ f \in Seq(Rows) /\ g \in Seq(Rows)
      <3>1. DOMAIN a = 1 .. Len(a) /\ Len(a) \in Nat /\ DOMAIN c = 1 .. Len(c) /\ Len(c) \in Nat
        BY <1>6
      <3> HIDE DEF a, c
      <3> QED BY <1>7, <1>8, <1>g, <3>1
    <2> DEFINE x == Filled(f)
               y == Filled(g)
    <2>x. x = [i \in DOMAIN f |-> x[i]] /\ y = [i \in DOMAIN g |-> y[i]]
      BY DEF Filled
    <2>y. /\ \A i \in DOMAIN f : x[i] = [key |-> f[i].key, value |-> Padded[f[i].value]]
          /\ \A i \in DOMAIN g : y[i] = [key |-> g[i].key, value |-> Padded[g[i].value]]
      BY <2>0, FilledRows
    <2> HIDE DEF x, y, a, c
    <2>1. x = Shown(Stored, a)
      <3>1. DOMAIN f = DOMAIN a /\ x = [i \in DOMAIN f |-> x[i]]
        BY <1>g, <2>x
      <3>2. \A i \in DOMAIN a : x[i] = [key |-> a[i].key, value |-> Stored[a[i].key]]
        <4> SUFFICES ASSUME NEW i \in DOMAIN a PROVE x[i] = [key |-> a[i].key, value |-> Stored[a[i].key]]
          OBVIOUS
        <4>1. x[i] = [key |-> f[i].key, value |-> Padded[f[i].value]]
          BY <2>y, <3>1, Zenon
        <4>2. [key |-> f[i].key, value |-> Padded[f[i].value]] = [key |-> a[i].key, value |-> Stored[a[i].key]]
          BY <1>7, Zenon
        <4> QED BY <4>1, <4>2, Zenon
      <3> QED BY <3>1, <3>2, Zenon DEF Shown
    <2>2. y = Shown(Stored, c)
      <3>1. DOMAIN g = DOMAIN c /\ y = [i \in DOMAIN g |-> y[i]]
        BY <1>g, <2>x
      <3>2. \A i \in DOMAIN c : y[i] = [key |-> c[i].key, value |-> Stored[c[i].key]]
        <4> SUFFICES ASSUME NEW i \in DOMAIN c PROVE y[i] = [key |-> c[i].key, value |-> Stored[c[i].key]]
          OBVIOUS
        <4>1. y[i] = [key |-> g[i].key, value |-> Padded[g[i].value]]
          BY <2>y, <3>1, Zenon
        <4>2. [key |-> g[i].key, value |-> Padded[g[i].value]] = [key |-> c[i].key, value |-> Stored[c[i].key]]
          BY <1>8, Zenon
        <4> QED BY <4>1, <4>2, Zenon
      <3> QED BY <3>1, <3>2, Zenon DEF Shown
    <2>3. Filled(Saved) = x \o y
      BY <1>1, <2>0, FilledParts DEF x, y
    <2> QED BY <2>1, <2>2, <2>3 DEF Parts, a, c
  <1> HIDE DEF f, g, a, c
  <1>10. ShownOf(Stored, KeysOf(R) \cup KeysOf(Q)) = ShownOf(Stored, Key)
    <2>1. KeysOf(R) \subseteq Key
      BY <1>2 DEF KeysOf, Rows
    <2>2. KeysOf(Q) \subseteq Key
      BY <1>3, <1>d DEF KeysOf
    <2>3. \A k \in Key : Seen(k) # NoRow => k \in KeysOf(R) \cup KeysOf(Q)
      <3> SUFFICES ASSUME NEW k \in Key, Seen(k) # NoRow, k \notin KeysOf(Q)
                   PROVE  k \in KeysOf(R)
        OBVIOUS
      <3>1. ~ \E b \in ToSet(Q) : b.key = k
        BY DEF KeysOf
      <3> QED BY <3>1, <1>a, <1>e DEF R
    <2> QED BY <1>v, <2>1, <2>2, <2>3 DEF ShownOf
  <1>11. /\ Parts(Stored, R, S, Q, T) \in Seq(Rows) /\ BP!Distinct(Parts(Stored, R, S, Q, T))
         /\ ToSet(Parts(Stored, R, S, Q, T)) = ShownOf(Stored, KeysOf(R) \cup KeysOf(Q))
         /\ (\A r \in ToSet(R) : Seen(r.key) # NoRow) => Extends(Parts(Stored, R, S, Q, T), R)
    <2>1. /\ \A r \in ToSet(R) : r \in S <=> Stored[r.key] # NoRow
          /\ \A r \in ToSet(R) : Seen(r.key) # NoRow <=> Stored[r.key] # NoRow
      BY <1>2, <1>4, <1>v DEF Rows
    <2>2. \A b \in ToSet(Q) : b \in T <=> Stored[b.key] # NoRow /\ b.key \notin KeysOf(R)
      BY <1>3, <1>5, <1>d, <1>v
    <2> DEFINE x == Stored
    <2>3. x \in View /\ \A r \in ToSet(R) : r \in S <=> x[r.key] # NoRow
      BY <1>v, <2>1
    <2>4. \A b \in ToSet(Q) : b \in T <=> x[b.key] # NoRow /\ b.key \notin KeysOf(R)
      BY <2>2
    <2> HIDE DEF x
    <2>5. /\ Parts(x, R, S, Q, T) \in Seq(Rows) /\ BP!Distinct(Parts(x, R, S, Q, T))
          /\ ToSet(Parts(x, R, S, Q, T)) = ShownOf(x, KeysOf(R) \cup KeysOf(Q))
          /\ (\A r \in ToSet(R) : x[r.key] # NoRow) => Extends(Parts(x, R, S, Q, T), R)
      BY <1>2, <1>b, <2>3, <2>4, ShownParts
    <2> QED BY <2>1, <2>5 DEF x
  <1> QED BY <1>9, <1>10, <1>11 DEF R

--------------------------------------------------------------------------------
(* The blocks of the file.                                                  *)

PerBlock == BlockSize \div RowSize

\* A block has room for at least one row, and for no more than PerBlock.
LEMMA BlockRoom ==
  /\ PerBlock \in Nat /\ PerBlock >= 1 /\ BlockSize \in Nat /\ RowSize \in Nat /\ RowSize >= 1
  /\ PerBlock * RowSize <= BlockSize
  /\ \A k \in Nat : k * RowSize <= BlockSize <=> k <= PerBlock
  <1>1. BlockSize \in Nat /\ RowSize \in Nat /\ RowSize >= 1 /\ RowSize <= BlockSize
    BY SizeAssumption
  <1>2. PerBlock \in Nat /\ PerBlock * RowSize <= BlockSize /\ BlockSize < (PerBlock + 1) * RowSize
    BY <1>1 DEF PerBlock
  <1>3. PerBlock >= 1
    BY <1>1, <1>2
  <1>4. ASSUME NEW k \in Nat, k <= PerBlock PROVE k * RowSize <= BlockSize
    <2>1. k * RowSize <= PerBlock * RowSize
      BY <1>1, <1>2, <1>4
    <2> QED BY <1>1, <1>2, <2>1
  <1>5. ASSUME NEW k \in Nat, ~ (k <= PerBlock) PROVE ~ (k * RowSize <= BlockSize)
    <2>1. (PerBlock + 1) * RowSize <= k * RowSize
      BY <1>1, <1>2, <1>5
    <2> QED BY <1>1, <1>2, <2>1
  <1> QED BY <1>1, <1>2, <1>3, <1>4, <1>5

\* The block of a row and its place there.
LEMMA PlaceOfRow ==
  ASSUME NEW i \in Nat
  PROVE  /\ i \div PerBlock \in Nat /\ i % PerBlock \in 0 .. PerBlock - 1
         /\ i = (i \div PerBlock) * PerBlock + (i % PerBlock)
         /\ Offset(i) = (i \div PerBlock) * BlockSize + (i % PerBlock) * RowSize
         /\ Offset(i) \in Nat
         /\ \A q \in Nat, m \in 0 .. PerBlock - 1 :
              i = q * PerBlock + m => i \div PerBlock = q /\ i % PerBlock = m
  <1>1. PerBlock \in Nat /\ PerBlock >= 1 /\ BlockSize \in Nat /\ RowSize \in Nat
    BY BlockRoom
  <1>2. Offset(i) = (i \div PerBlock) * BlockSize + (i % PerBlock) * RowSize
    BY DEF Offset, PerBlock
  <1> HIDE DEF PerBlock
  <1>3. /\ i \div PerBlock \in Nat /\ i % PerBlock \in 0 .. PerBlock - 1
        /\ i = (i \div PerBlock) * PerBlock + (i % PerBlock)
    BY <1>1
  <1>4. (i \div PerBlock) * BlockSize + (i % PerBlock) * RowSize \in Nat
    BY <1>1, <1>3
  <1>5. ASSUME NEW q \in Nat, NEW m \in 0 .. PerBlock - 1, i = q * PerBlock + m
        PROVE  i \div PerBlock = q /\ i % PerBlock = m
    BY <1>1, <1>5
  <1> QED BY <1>2, <1>3, <1>4, <1>5

\* A row ends before the next one begins.
LEMMA OffsetsGrow ==
  ASSUME NEW i \in Nat, NEW j \in Nat, i < j
  PROVE  Offset(i) + RowSize <= Offset(j)
  <1> DEFINE p == PerBlock
             q == i \div p
             m == i % p
             r == j \div p
             n == j % p
  <1>1. p \in Nat /\ p >= 1 /\ BlockSize \in Nat /\ RowSize \in Nat /\ RowSize >= 1 /\ p * RowSize <= BlockSize
    BY BlockRoom
  <1>2. /\ q \in Nat /\ m \in 0 .. p - 1 /\ i = q * p + m /\ Offset(i) = q * BlockSize + m * RowSize
        /\ r \in Nat /\ n \in 0 .. p - 1 /\ j = r * p + n /\ Offset(j) = r * BlockSize + n * RowSize
    BY PlaceOfRow
  <1> HIDE DEF p, q, m, r, n
  <1>3. m * RowSize + RowSize = (m + 1) * RowSize
    BY <1>1, <1>2
  <1>4. q <= r
    <2> SUFFICES ASSUME r + 1 <= q PROVE FALSE
      BY <1>2
    <2>1. (r + 1) * p <= q * p /\ (r + 1) * p = r * p + p
      BY <1>1, <1>2
    <2> QED BY <1>1, <1>2, <2>1
  <1>5. CASE q = r
    <2>1. m + 1 <= n
      BY <1>1, <1>2, <1>5
    <2>2. (m + 1) * RowSize <= n * RowSize
      BY <1>1, <1>2, <2>1
    <2> QED BY <1>1, <1>2, <1>3, <1>5, <2>2
  <1>6. CASE q + 1 <= r
    <2>1. (q + 1) * BlockSize <= r * BlockSize /\ (q + 1) * BlockSize = q * BlockSize + BlockSize
      BY <1>1, <1>2, <1>6
    <2>2. (m + 1) * RowSize <= p * RowSize /\ 0 <= n * RowSize
      BY <1>1, <1>2
    <2> QED BY <1>1, <1>2, <1>3, <2>1, <2>2
  <1> QED BY <1>2, <1>4, <1>5, <1>6

LF == INSTANCE FoldTheorems WITH Op <- LAMBDA c, f, row : Laid(f, row)

\* Induction, for the theorems about the folds of LF.
LEMMA LFInductive == LF!Inductive
  BY NaturalInduction DEF LF!Inductive

NoBytes == [full |-> 0, used |-> 0, rows |-> <<>>]

\* Blocks is a fold that lays one row after the other.
LEMMA BlocksAreFold ==
  ASSUME NEW rows
  PROVE  Blocks(rows) = [size |-> LF!Fold(0, NoBytes, rows).full + LF!Fold(0, NoBytes, rows).used,
                             rows |-> LF!Fold(0, NoBytes, rows).rows]
  BY DEF Blocks, NoBytes, LF!Fold, FoldLeft, MapThenFoldSet, LF!MapThenFoldSet, Max, LF!Top

\* Where the rows are, and how long the blocks are that hold them.
LaidOut(f, rows) ==
  /\ DOMAIN f.rows = {Offset(i) : i \in 0 .. Len(rows) - 1}
  /\ \A i \in 0 .. Len(rows) - 1 : f.rows[Offset(i)] = rows[i + 1]
  /\ Len(rows) = 0 => f.full = 0 /\ f.used = 0
  /\ Len(rows) > 0 => /\ f.full = ((Len(rows) - 1) \div PerBlock) * BlockSize
                      /\ f.used = (((Len(rows) - 1) % PerBlock) + 1) * RowSize

NextFull(f) == IF f.used + RowSize > BlockSize THEN f.full + BlockSize ELSE f.full
NextUsed(f) == IF f.used + RowSize > BlockSize THEN 0 ELSE f.used

\* The next row comes where the next number says.
LEMMA NextPlace ==
  ASSUME NEW f, NEW E, NEW rows \in Seq(E), LaidOut(f, rows)
  PROVE  /\ NextFull(f) + NextUsed(f) = Offset(Len(rows))
         /\ NextFull(f) = (Len(rows) \div PerBlock) * BlockSize
         /\ NextUsed(f) + RowSize = ((Len(rows) % PerBlock) + 1) * RowSize
  <1> DEFINE n == Len(rows)
             p == PerBlock
             d == n \div p
             r == n % p
             q == (n - 1) \div p
             m == (n - 1) % p
  <1>1. p \in Nat /\ p >= 1 /\ BlockSize \in Nat /\ RowSize \in Nat /\ RowSize >= 1 /\ n \in Nat
    BY BlockRoom
  <1>2. \A k \in Nat : k * RowSize <= BlockSize <=> k <= p
    BY BlockRoom
  <1>3. /\ d \in Nat /\ r \in 0 .. p - 1 /\ Offset(n) = d * BlockSize + r * RowSize
        /\ \A x \in Nat, y \in 0 .. p - 1 : n = x * p + y => d = x /\ r = y
    BY <1>1, PlaceOfRow
  <1>4. n = 0 => f.full = 0 /\ f.used = 0
    BY DEF LaidOut
  <1>5. n > 0 => /\ q \in Nat /\ m \in 0 .. p - 1 /\ n - 1 = q * p + m
                 /\ f.full = q * BlockSize /\ f.used = (m + 1) * RowSize
    <2> SUFFICES ASSUME n > 0
                 PROVE  /\ q \in Nat /\ m \in 0 .. p - 1 /\ n - 1 = q * p + m
                        /\ f.full = q * BlockSize /\ f.used = (m + 1) * RowSize
      OBVIOUS
    <2>1. n - 1 \in Nat
      BY <1>1
    <2> QED BY <2>1, PlaceOfRow DEF LaidOut
  <1> SUFFICES /\ NextFull(f) + NextUsed(f) = Offset(n)
               /\ NextFull(f) = d * BlockSize
               /\ NextUsed(f) + RowSize = (r + 1) * RowSize
    OBVIOUS
  <1> HIDE DEF n, p, d, r, q, m
  <1>6. CASE n = 0
    <2>1. n = 0 * p + 0 /\ 0 \in 0 .. p - 1
      BY <1>1, <1>6
    <2>2. d = 0 /\ r = 0
      BY <1>3, <2>1
    <2>3. ~ (0 + RowSize > BlockSize)
      BY SizeAssumption
    <2>4. NextFull(f) = 0 /\ NextUsed(f) = 0
      BY <1>4, <1>6, <2>3 DEF NextFull, NextUsed
    <2> QED BY <1>1, <1>3, <2>2, <2>4
  <1>7. CASE n > 0
    <2>1. f.used + RowSize = (m + 2) * RowSize /\ m + 2 \in Nat
      BY <1>1, <1>5, <1>7, SMTT(30)
    <2>2. f.used + RowSize <= BlockSize <=> m + 2 <= p
      BY <1>2, <2>1
    <2>3. f.used + RowSize \in Nat
      BY <1>1, <2>1
    <2>4. CASE m + 2 <= p
      <3>0. q * p \in Nat /\ m \in Nat /\ n - 1 = q * p + m
        BY <1>1, <1>5, <1>7
      <3>1. n = q * p + (m + 1) /\ m + 1 \in 0 .. p - 1
        <4> DEFINE t == q * p
        <4>1. t \in Nat /\ n - 1 = t + m
          BY <3>0
        <4> HIDE DEF t
        <4>2. n = t + (m + 1)
          BY <1>1, <3>0, <4>1
        <4> QED BY <1>1, <3>0, <2>4, <4>2 DEF t
      <3>2. d = q /\ r = m + 1
        BY <1>3, <1>5, <1>7, <3>1
      <3>3. ~ (f.used + RowSize > BlockSize)
        BY <1>1, <2>2, <2>3, <2>4
      <3>4. NextFull(f) = f.full /\ NextUsed(f) = f.used
        BY <3>3 DEF NextFull, NextUsed
      <3>5. (r + 1) * RowSize = (m + 2) * RowSize
        BY <1>5, <1>7, <3>2
      <3>6. Offset(n) = q * BlockSize + (m + 1) * RowSize
        BY <1>3, <3>2, Zenon
      <3>7. f.full = q * BlockSize /\ f.used = (m + 1) * RowSize
        BY <1>5, <1>7
      <3>8. NextFull(f) = d * BlockSize /\ NextFull(f) + NextUsed(f) = Offset(n)
        BY <3>2, <3>4, <3>6, <3>7, Zenon
      <3>9. NextUsed(f) + RowSize = (r + 1) * RowSize
        BY <2>1, <3>4, <3>5, Zenon
      <3> QED BY <3>8, <3>9, Zenon
    <2>5. CASE m + 2 > p
      <3>0. m = p - 1 /\ q + 1 \in Nat /\ 0 \in 0 .. p - 1
        <4>1. q \in Nat /\ m \in 0 .. p - 1 /\ p \in Nat /\ p >= 1
          BY <1>1, <1>5, <1>7
        <4> QED BY <2>5, <4>1
      <3>1. n = (q + 1) * p + 0
        <4> DEFINE t == q * p
        <4>1. t \in Nat /\ n - 1 = t + m /\ (q + 1) * p = t + p
          BY <1>1, <1>5, <1>7
        <4> HIDE DEF t
        <4> QED BY <1>1, <3>0, <4>1
      <3>2. d = q + 1 /\ r = 0
        BY <1>3, <3>0, <3>1
      <3>3. f.used + RowSize > BlockSize
        <4>1. f.used + RowSize \in Nat /\ BlockSize \in Nat /\ ~ (f.used + RowSize <= BlockSize)
          <5>1. ~ (m + 2 <= p)
            BY <1>1, <1>5, <1>7, <2>5
          <5> QED BY <1>1, <2>2, <2>3, <5>1, Zenon
        <4> QED BY <4>1
      <3>4. (q + 1) * BlockSize = q * BlockSize + BlockSize /\ q * BlockSize \in Nat
        BY <1>1, <1>5, <1>7
      <3>5. 0 * RowSize = 0 /\ (0 + 1) * RowSize = RowSize
        BY <1>1
      <3>6. NextFull(f) = f.full + BlockSize /\ NextUsed(f) = 0
        BY <3>3 DEF NextFull, NextUsed
      <3>7. f.full = q * BlockSize
        BY <1>5, <1>7
      <3> DEFINE x == q * BlockSize
                 y == (q + 1) * BlockSize
      <3>8. Offset(n) = y + 0 * RowSize /\ d * BlockSize = y
        BY <1>3, <3>2, Zenon
      <3>9. x \in Nat /\ BlockSize \in Nat /\ RowSize \in Nat /\ y = x + BlockSize
        BY <1>1, <3>4
      <3>10. NextFull(f) = x + BlockSize /\ NextUsed(f) = 0
        BY <3>6, <3>7
      <3>11. (r + 1) * RowSize = RowSize
        BY <3>2, <3>5, Zenon
      <3> HIDE DEF x, y
      <3>12. Offset(n) = y
        BY <3>5, <3>8, <3>9
      <3> QED BY <3>8, <3>9, <3>10, <3>11, <3>12
    <2> QED BY <1>1, <1>5, <1>7, <2>4, <2>5
  <1> QED BY <1>1, <1>6, <1>7

\* One row more is laid at the next place,
LEMMA LaidNext ==
  ASSUME NEW f, NEW E, NEW rows \in Seq(E), NEW row \in E, LaidOut(f, rows)
  PROVE  LaidOut(Laid(f, row), Append(rows, row))
  <1> DEFINE n == Len(rows)
             full == NextFull(f)
             used == NextUsed(f)
             new == Append(rows, row)
  <1>1. /\ n \in Nat /\ Len(new) = n + 1 /\ new[n + 1] = row /\ \A i \in 1 .. n : new[i] = rows[i]
    OBVIOUS
  <1>2. /\ full + used = Offset(n)
        /\ full = (n \div PerBlock) * BlockSize
        /\ used + RowSize = ((n % PerBlock) + 1) * RowSize
    BY NextPlace
  <1>3. Laid(f, row) = [full |-> full, used |-> used + RowSize,
                        rows |-> [o \in DOMAIN f.rows \cup {full + used} |->
                                    IF o = full + used THEN row ELSE f.rows[o]]]
    BY DEF Laid, NextFull, NextUsed
  <1> HIDE DEF full, used, new, n
  <1>4. Laid(f, row).rows = [o \in DOMAIN f.rows \cup {Offset(n)} |-> IF o = Offset(n) THEN row ELSE f.rows[o]]
    BY <1>2, <1>3
  <1>5. /\ DOMAIN f.rows = {Offset(i) : i \in 0 .. n - 1}
        /\ \A i \in 0 .. n - 1 : f.rows[Offset(i)] = rows[i + 1]
    BY DEF LaidOut, n
  <1>6. \A i \in 0 .. n - 1 : Offset(i) # Offset(n)
    <2> SUFFICES ASSUME NEW i \in 0 .. n - 1 PROVE Offset(i) # Offset(n)
      OBVIOUS
    <2>1. i \in Nat /\ i < n
      BY <1>1
    <2>2. Offset(i) + RowSize <= Offset(n) /\ Offset(i) \in Nat /\ Offset(n) \in Nat /\ RowSize \in Nat /\ RowSize >= 1
      BY <1>1, <2>1, OffsetsGrow, PlaceOfRow, BlockRoom
    <2> QED BY <2>2
  <1>7. \A i \in 0 .. n : i \in 0 .. n - 1 \/ i = n
    BY <1>1
  <1>8. n \in 0 .. n /\ \A i \in 0 .. n - 1 : i \in 0 .. n
    BY <1>1
  <1>9. DOMAIN Laid(f, row).rows = {Offset(i) : i \in 0 .. n}
    BY <1>4, <1>5, <1>7, <1>8
  <1>10. \A i \in 0 .. n : Laid(f, row).rows[Offset(i)] = new[i + 1]
    <2>1. Laid(f, row).rows[Offset(n)] = new[n + 1]
      BY <1>1, <1>4
    <2>2. \A i \in 0 .. n - 1 : Laid(f, row).rows[Offset(i)] = new[i + 1]
      <3> SUFFICES ASSUME NEW i \in 0 .. n - 1 PROVE Laid(f, row).rows[Offset(i)] = new[i + 1]
        OBVIOUS
      <3>1. i + 1 \in 1 .. n /\ Offset(i) \in DOMAIN f.rows
        BY <1>1, <1>5
      <3> QED BY <1>1, <1>4, <1>5, <1>6, <3>1
    <2> QED BY <1>7, <2>1, <2>2
  <1>11. Len(new) - 1 = n /\ Len(new) > 0 /\ Len(new) # 0
    BY <1>1
  <1>12. /\ Laid(f, row).full = ((Len(new) - 1) \div PerBlock) * BlockSize
         /\ Laid(f, row).used = (((Len(new) - 1) % PerBlock) + 1) * RowSize
    BY <1>2, <1>3, <1>11
  <1>13. LaidOut(Laid(f, row), new)
    BY <1>9, <1>10, <1>11, <1>12 DEF LaidOut
  <1> QED BY <1>13 DEF new

\* and so all are.
LEMMA LaidOutAll ==
  ASSUME NEW E, NEW rows \in Seq(E)
  PROVE  LaidOut(LF!Fold(0, NoBytes, rows), rows)
  <1> DEFINE I == {u \in Seq(E) : LaidOut(LF!Fold(0, NoBytes, u), u)}
  <1>1. <<>> \in I
    <2>1. LF!Fold(0, NoBytes, <<>>) = NoBytes
      BY LF!FoldEmpty, LFInductive, Zenon
    <2>2. Len(<<>>) = 0 /\ 0 .. 0 - 1 = {} /\ <<>> \in Seq(E) /\ DOMAIN <<>> = {}
      OBVIOUS
    <2>3. LaidOut(NoBytes, <<>>)
      BY <2>2 DEF NoBytes, LaidOut
    <2> QED BY <2>1, <2>2, <2>3
  <1>2. ASSUME NEW u \in Seq(E), NEW e \in E, u \in I
        PROVE  Append(u, e) \in I
    <2>1. LF!Fold(0, NoBytes, Append(u, e)) = Laid(LF!Fold(0, NoBytes, u), e)
      BY LF!FoldAppend, LFInductive
    <2>2. Append(u, e) \in Seq(E)
      OBVIOUS
    <2>3. LaidOut(Laid(LF!Fold(0, NoBytes, u), e), Append(u, e))
      BY <1>2, LaidNext
    <2> QED BY <2>1, <2>2, <2>3
  <1> HIDE DEF I
  <1>3. Seq(E) \subseteq I
    BY <1>1, <1>2, LF!SequenceInduction, LFInductive
  <1> QED BY <1>3 DEF I

\* A number is divided in one way only.
LEMMA Quotient ==
  ASSUME NEW d \in Nat, d >= 1, NEW q \in Nat, NEW r \in 0 .. d - 1
  PROVE  /\ q * d \in Nat /\ (q * d + r) \div d = q /\ (q * d + r) % d = r
         /\ (q + 1) * d = q * d + d
  <1>1. q * d \in Nat /\ (q + 1) * d = q * d + d
    OBVIOUS
  <1> DEFINE x == q * d + r
  <1>2. x \in Nat /\ x = q * d + r
    BY <1>1
  <1> HIDE DEF x
  <1>3. x \div d = q /\ x % d = r
    BY <1>2
  <1> QED BY <1>1, <1>3 DEF x

\* Products of naturals grow with a factor.
LEMMA Multiples ==
  ASSUME NEW a \in Nat, NEW b \in Nat, a <= b, NEW c \in Nat
  PROVE  a * c <= b * c /\ a * c \in Nat /\ b * c \in Nat
  OBVIOUS

\* A prefix and what comes after it.
LEMMA Halves ==
  ASSUME NEW E, NEW s \in Seq(E), NEW a \in Nat, NEW b \in Nat, a <= b, b <= Len(s)
  PROVE  SubSeq(s, 1, a) \o SubSeq(s, a + 1, b) = SubSeq(s, 1, b) /\ SubSeq(s, a + 1, b) \in Seq(E)
  OBVIOUS

\* The smaller of two numbers.
LEMMA MinOfTwo ==
  ASSUME NEW a \in Nat, NEW b \in Nat
  PROVE  Min({a, b}) = IF a <= b THEN a ELSE b
  BY DEF Min

\* The number of blocks, and what is in each.
LEMMA BlockCount ==
  ASSUME NEW q \in Nat, NEW m \in 0 .. PerBlock - 1
  PROVE  /\ (q * BlockSize + (m + 1) * RowSize + BlockSize - 1) \div BlockSize = q + 1
         /\ (m + 1) * RowSize \in 1 .. BlockSize
  <1> DEFINE u == (m + 1) * RowSize
             t == q * BlockSize
             p == PerBlock
  <1>1. p \in Nat /\ p >= 1 /\ BlockSize \in Nat /\ RowSize \in Nat /\ RowSize >= 1 /\ p * RowSize <= BlockSize
    BY BlockRoom
  <1>2. m \in Nat /\ m + 1 \in Nat /\ m + 1 <= p /\ 1 <= m + 1
    BY <1>1
  <1> HIDE DEF p
  <1>3. u <= p * RowSize /\ 1 * RowSize <= u /\ u \in Nat /\ p * RowSize \in Nat
    BY <1>1, <1>2, Multiples
  <1> HIDE DEF u
  <1>4. u \in 1 .. BlockSize /\ u - 1 \in 0 .. BlockSize - 1 /\ BlockSize >= 1
    BY <1>1, <1>3
  <1>5. /\ q + 1 \in Nat /\ t \in Nat /\ (q + 1) * BlockSize = t + BlockSize
    BY <1>1, <1>4, Quotient
  <1> HIDE DEF t
  <1>6. ((q + 1) * BlockSize + (u - 1)) \div BlockSize = q + 1
    BY <1>1, <1>4, <1>5, Quotient
  <1>7. t + u + BlockSize - 1 = t + BlockSize + (u - 1)
    BY <1>1, <1>4, <1>5
  <1>8. (t + u + BlockSize - 1) \div BlockSize = q + 1
    BY <1>5, <1>6, <1>7
  <1> QED BY <1>4, <1>8 DEF u, t

\* The row j of block b has the number b * PerBlock + j.
LEMMA OffsetInBlock ==
  ASSUME NEW b \in Nat, NEW j \in 1 .. PerBlock
  PROVE  Offset(b * PerBlock + (j - 1)) = b * BlockSize + (j - 1) * RowSize /\ b * PerBlock + (j - 1) \in Nat
  <1> DEFINE i == b * PerBlock + (j - 1)
  <1>1. PerBlock \in Nat /\ PerBlock >= 1
    BY BlockRoom
  <1>2. j - 1 \in 0 .. PerBlock - 1
    BY <1>1
  <1>3. i \div PerBlock = b /\ i % PerBlock = j - 1 /\ b * PerBlock \in Nat
    BY <1>1, <1>2, Quotient
  <1> QED BY <1>3 DEF Offset, PerBlock

\* A block is read back with the rows laid in it.
LEMMA BlockHolds ==
  ASSUME NEW E, NEW rows \in Seq(E), NEW f, \A i \in 0 .. Len(rows) - 1 : f.rows[Offset(i)] = rows[i + 1],
         NEW b \in Nat, NEW k \in 1 .. PerBlock, b * PerBlock + k <= Len(rows),
         Min({BlockSize, f.size - b * BlockSize}) \div RowSize = k
  PROVE  Block(f, b) = SubSeq(rows, b * PerBlock + 1, b * PerBlock + k)
  <1> DEFINE start == b * BlockSize
             from == b * PerBlock
             s == SubSeq(rows, from + 1, from + k)
  <1>1. PerBlock \in Nat /\ from \in Nat /\ k \in Nat /\ Len(rows) \in Nat /\ from + k <= Len(rows)
    BY BlockRoom, Multiples
  <1>2. Block(f, b) = [j \in 1 .. k |-> f.rows[start + (j - 1) * RowSize]]
    BY DEF Block
  <1>3. ASSUME NEW j \in 1 .. k PROVE f.rows[start + (j - 1) * RowSize] = rows[from + j]
    <2>1. j \in 1 .. PerBlock
      BY <1>1
    <2>2. Offset(from + (j - 1)) = start + (j - 1) * RowSize
      BY <2>1, OffsetInBlock
    <2> HIDE DEF from
    <2>3. from + (j - 1) \in 0 .. Len(rows) - 1 /\ from + (j - 1) + 1 = from + j
      BY <1>1
    <2> QED BY <2>2, <2>3
  <1> HIDE DEF from, start
  <1>4. s = [j \in 1 .. k |-> rows[from + j]]
    <2>1. Len(s) = k /\ DOMAIN s = 1 .. k /\ s \in Seq(E)
      BY <1>1
    <2>2. \A j \in 1 .. k : s[j] = rows[from + j]
      BY <1>1
    <2> HIDE DEF s
    <2>3. s = [j \in 1 .. k |-> s[j]]
      BY <2>1
    <2> QED BY <2>2, <2>3
  <1>5. \A j \in 1 .. k : f.rows[start + (j - 1) * RowSize] = rows[from + j]
    BY <1>3
  <1>6. Block(f, b) = s
    BY <1>2, <1>4, <1>5
  <1> QED BY <1>6 DEF from

\* Blocks that hold the rows from a multiple of their room to the next.
Shares(g, rows, p, q) ==
  \A b \in 1 .. q : g[b] = SubSeq(rows, (b - 1) * p + 1, (b - 1) * p + p)

\* Blocks that share out the rows give the rows when they are joined.
LEMMA FlattenBlocks ==
  ASSUME NEW E, NEW rows \in Seq(E), NEW p \in Nat, NEW q \in Nat, q * p <= Len(rows),
         NEW g, DOMAIN g = 1 .. q, g = [b \in DOMAIN g |-> g[b]], Shares(g, rows, p, q)
  PROVE  g \in Seq(Seq(E)) /\ FlattenSeq(g) = SubSeq(rows, 1, q * p)
  <1> DEFINE n == Len(rows)
             h(k) == [b \in 1 .. k |-> g[b]]
             I == {k \in Nat : k <= q => h(k) \in Seq(Seq(E)) /\ FlattenSeq(h(k)) = SubSeq(rows, 1, k * p)}
  <1>1. 0 \in I
    <2>1. h(0) = <<>> /\ <<>> \in Seq(Seq(E)) /\ 0 * p = 0 /\ SubSeq(rows, 1, 0) = <<>>
      OBVIOUS
    <2>2. FlattenSeq(h(0)) = SubSeq(rows, 1, 0 * p)
      BY <2>1, FlattenEmpty
    <2> QED BY <2>1, <2>2
  <1>2. ASSUME NEW k \in Nat, k \in I PROVE k + 1 \in I
    <2> SUFFICES ASSUME k + 1 <= q
                 PROVE  h(k + 1) \in Seq(Seq(E)) /\ FlattenSeq(h(k + 1)) = SubSeq(rows, 1, (k + 1) * p)
      OBVIOUS
    <2> DEFINE kp == k * p
    <2>1. h(k) \in Seq(Seq(E)) /\ FlattenSeq(h(k)) = SubSeq(rows, 1, kp)
      BY <1>2
    <2>2. kp \in Nat /\ (k + 1) * p = kp + p /\ kp + p <= n /\ n \in Nat
      <3>0. k + 1 \in Nat
        OBVIOUS
      <3> DEFINE x == (k + 1) * p
                 y == q * p
      <3>1. x <= y /\ x \in Nat /\ y \in Nat /\ y <= n
        BY <3>0, Multiples
      <3>2. kp \in Nat /\ x = kp + p /\ n \in Nat
        OBVIOUS
      <3> HIDE DEF kp, x, y, n
      <3>3. kp + p <= n
        BY <3>1, <3>2
      <3> QED BY <3>2, <3>3 DEF x
    <2>3. g[k + 1] = SubSeq(rows, kp + 1, kp + p)
      <3>1. k + 1 \in 1 .. q /\ (k + 1) - 1 = k
        OBVIOUS
      <3> QED BY <3>1 DEF Shares
    <2> HIDE DEF kp
    <2>0. kp + p \in Nat /\ kp <= kp + p /\ kp + p <= Len(rows)
      BY <2>2
    <2>4. g[k + 1] \in Seq(E)
      BY <2>0, <2>2, <2>3, Halves, Zenon
    <2>5. h(k + 1) = Append(h(k), g[k + 1])
      <3> DEFINE u == h(k)
                 e == g[k + 1]
      <3>1. u \in Seq(Seq(E)) /\ Len(u) = k /\ \A b \in 1 .. k : u[b] = g[b]
        BY <2>1
      <3> HIDE DEF u
      <3>2. Append(u, e) = [b \in 1 .. k + 1 |-> IF b = k + 1 THEN e ELSE u[b]]
        BY <2>4, <3>1
      <3>3. \A b \in 1 .. k + 1 : g[b] = IF b = k + 1 THEN e ELSE u[b]
        BY <3>1
      <3>4. h(k + 1) = Append(u, e)
        BY <3>2, <3>3
      <3> QED BY <3>4 DEF u
    <2>6. Append(h(k), g[k + 1]) \in Seq(Seq(E))
      BY <2>1, <2>4
    <2>7. FlattenSeq(Append(h(k), g[k + 1])) = FlattenSeq(h(k)) \o g[k + 1]
      BY <2>1, <2>4, FlattenAppend
    <2>8. SubSeq(rows, 1, kp) \o SubSeq(rows, kp + 1, kp + p) = SubSeq(rows, 1, kp + p)
      BY <2>0, <2>2, Halves, Zenon
    <2> QED BY <2>1, <2>2, <2>3, <2>5, <2>6, <2>7, <2>8
  <1> HIDE DEF I
  <1>3. Nat \subseteq I
    BY <1>1, <1>2, NaturalInduction
  <1>4. q \in I
    BY <1>3
  <1>5. g = h(q)
    OBVIOUS
  <1> HIDE DEF h
  <1> QED BY <1>4, <1>5 DEF I

\* The size of a file with rows, and where they are.
LEMMA FileSize ==
  ASSUME NEW E, NEW rows \in Seq(E)
  PROVE  /\ Len(rows) = 0 => Blocks(rows).size = 0
         /\ Len(rows) > 0 =>
              LET q == (Len(rows) - 1) \div PerBlock
                  m == (Len(rows) - 1) % PerBlock
              IN /\ q \in Nat /\ m \in 0 .. PerBlock - 1 /\ Len(rows) - 1 = q * PerBlock + m
                 /\ Blocks(rows).size = q * BlockSize + (m + 1) * RowSize
         /\ DOMAIN Blocks(rows).rows = {Offset(i) : i \in 0 .. Len(rows) - 1}
         /\ \A i \in 0 .. Len(rows) - 1 : Blocks(rows).rows[Offset(i)] = rows[i + 1]
  <1> DEFINE l == LF!Fold(0, NoBytes, rows)
  <1>1. Blocks(rows).size = l.full + l.used /\ Blocks(rows).rows = l.rows /\ LaidOut(l, rows)
    BY BlocksAreFold, LaidOutAll
  <1>2. Len(rows) > 0 => Len(rows) - 1 \in Nat
    OBVIOUS
  <1> HIDE DEF l
  <1>3. Len(rows) = 0 => Blocks(rows).size = 0
    BY <1>1 DEF LaidOut
  <1>4. ASSUME Len(rows) > 0
        PROVE  /\ Blocks(rows).size = ((Len(rows) - 1) \div PerBlock) * BlockSize
                                            + (((Len(rows) - 1) % PerBlock) + 1) * RowSize
               /\ (Len(rows) - 1) \div PerBlock \in Nat /\ (Len(rows) - 1) % PerBlock \in 0 .. PerBlock - 1
               /\ Len(rows) - 1 = ((Len(rows) - 1) \div PerBlock) * PerBlock + ((Len(rows) - 1) % PerBlock)
    <2>1. Len(rows) - 1 \in Nat
      BY <1>2, <1>4
    <2> QED BY <1>1, <1>4, <2>1, PlaceOfRow DEF LaidOut
  <1> QED BY <1>1, <1>3, <1>4 DEF LaidOut

\* What was laid out block by block is read back as it was.
LEMMA RoundTrip ==
  ASSUME NEW E, NEW rows \in Seq(E)
  PROVE  Scanned(Blocks(rows)) = rows
  <1> DEFINE f == Blocks(rows)
             n == Len(rows)
             p == PerBlock
             q == (n - 1) \div p
             m == (n - 1) % p
             count == (f.size + BlockSize - 1) \div BlockSize
             g == [b \in 1 .. count |-> Block(f, b - 1)]
  <1>1. p \in Nat /\ p >= 1 /\ BlockSize \in Nat /\ RowSize \in Nat /\ RowSize >= 1 /\ n \in Nat /\ p * RowSize <= BlockSize
    BY BlockRoom
  <1>2. Scanned(f) = FlattenSeq(g)
    BY DEF Scanned
  <1>3. \A i \in 0 .. n - 1 : f.rows[Offset(i)] = rows[i + 1]
    BY FileSize
  <1>4. n = 0 => f.size = 0
    BY FileSize
  <1>5. n > 0 => /\ q \in Nat /\ m \in 0 .. p - 1 /\ n - 1 = q * p + m
                 /\ f.size = q * BlockSize + (m + 1) * RowSize
    BY FileSize
  <1> HIDE DEF f, n, p, q, m
  <1>6. CASE n = 0
    <2>1. (0 + BlockSize - 1) \div BlockSize = 0
      <3>1. BlockSize >= 1 /\ BlockSize - 1 \in 0 .. BlockSize - 1 /\ 0 * BlockSize + (BlockSize - 1) = 0 + BlockSize - 1
        BY <1>1, SizeAssumption
      <3> QED BY <1>1, <3>1, Quotient
    <2>2. 1 .. count = {}
      BY <1>4, <1>6, <2>1
    <2>3. g = <<>>
      BY <2>2
    <2>4. rows = <<>>
      BY <1>6 DEF n
    <2> QED BY <1>2, <2>3, <2>4, FlattenEmpty DEF f
  <1>7. CASE n > 0
    <2> DEFINE u == (m + 1) * RowSize
    <2>1. count = q + 1 /\ u \in 1 .. BlockSize
      BY <1>5, <1>7, BlockCount DEF p
    <2>2. /\ q \in Nat /\ m \in 0 .. p - 1 /\ n - 1 = q * p + m /\ f.size = q * BlockSize + u
          /\ m + 1 \in 1 .. p /\ q * p \in Nat /\ q * BlockSize \in Nat
      <3>1. /\ q \in Nat /\ m \in 0 .. p - 1 /\ n - 1 = q * p + m /\ f.size = q * BlockSize + u
            /\ p \in Nat /\ BlockSize \in Nat
        BY <1>1, <1>5, <1>7
      <3>2. m + 1 \in 1 .. p
        BY <3>1
      <3>3. q * p \in Nat /\ q * BlockSize \in Nat
        BY <3>1, Multiples
      <3> QED BY <3>1, <3>2, <3>3, Zenon
    <2>3. n = q * p + (m + 1) /\ m + 1 \in Nat
      <3> DEFINE t == q * p
      <3>1. t \in Nat /\ n - 1 = t + m /\ m \in Nat
        BY <1>1, <2>2
      <3> HIDE DEF t
      <3>2. n = t + (m + 1)
        BY <1>1, <3>1
      <3> QED BY <3>1, <3>2 DEF t
    <2>4. \A b \in 1 .. q : g[b] = SubSeq(rows, (b - 1) * p + 1, (b - 1) * p + p)
      <3> SUFFICES ASSUME NEW b \in 1 .. q
                   PROVE  g[b] = SubSeq(rows, (b - 1) * p + 1, (b - 1) * p + p)
        OBVIOUS
      <3>1. b \in 1 .. count /\ b - 1 \in Nat /\ b \in Nat /\ b <= q /\ (b - 1) + 1 = b
        BY <2>1, <2>2
      <3>2. (b - 1) * p \in Nat /\ b * p = (b - 1) * p + p /\ b * p <= q * p
        BY <1>1, <2>2, <3>1, Quotient, Multiples
      <3>3. (b - 1) * p + p <= n
        <4> DEFINE x == (b - 1) * p
                   y == b * p
                   z == q * p
        <4>1. x \in Nat /\ y = x + p /\ y <= z /\ n = z + (m + 1) /\ m + 1 \in Nat /\ z \in Nat
          BY <3>2, <2>2, <2>3
        <4> HIDE DEF x, y, z
        <4>2. x + p <= n
          BY <1>1, <4>1
        <4> QED BY <4>2 DEF x
      <3>4. Min({BlockSize, f.size - (b - 1) * BlockSize}) = BlockSize
        <4> DEFINE x == (b - 1) * BlockSize
                   y == b * BlockSize
                   z == q * BlockSize
        <4>1. BlockSize >= 1
          BY SizeAssumption
        <4>2. x \in Nat /\ y = x + BlockSize /\ y <= z /\ z \in Nat /\ f.size = z + u
          BY <1>1, <2>2, <3>1, <4>1, Quotient, Multiples
        <4> HIDE DEF x, y, z, u
        <4>3. f.size - x \in Nat /\ BlockSize <= f.size - x
          BY <1>1, <2>1, <4>2
        <4>4. Min({BlockSize, f.size - x}) = BlockSize
          BY <1>1, <4>3, MinOfTwo
        <4> QED BY <4>4 DEF x
      <3>5. p \in 1 .. PerBlock
        BY <1>1 DEF p
      <3>6. Block(f, b - 1) = SubSeq(rows, (b - 1) * p + 1, (b - 1) * p + p)
        <4>1. Min({BlockSize, f.size - (b - 1) * BlockSize}) \div RowSize = p
          BY <3>4 DEF p, PerBlock
        <4> DEFINE c == b - 1
        <4>2. /\ rows \in Seq(E) /\ c \in Nat /\ p \in 1 .. PerBlock /\ c * PerBlock + p <= Len(rows)
              /\ \A i \in 0 .. Len(rows) - 1 : f.rows[Offset(i)] = rows[i + 1]
              /\ Min({BlockSize, f.size - c * BlockSize}) \div RowSize = p
          BY <1>3, <3>1, <3>3, <3>5, <4>1 DEF p, n
        <4> HIDE DEF c, p, n
        <4>3. Block(f, c) = SubSeq(rows, c * PerBlock + 1, c * PerBlock + p)
          BY <4>2, BlockHolds
        <4> QED BY <4>3 DEF c, p
      <3> QED BY <3>1, <3>6
    <2>5. g[q + 1] = SubSeq(rows, q * p + 1, n)
      <3>1. Min({BlockSize, f.size - q * BlockSize}) = u
        <4> DEFINE z == q * BlockSize
        <4>1. z \in Nat /\ f.size = z + u
          BY <2>2
        <4> HIDE DEF z, u
        <4>2. f.size - z = u /\ u \in Nat /\ u <= BlockSize
          BY <2>1, <4>1
        <4>3. Min({BlockSize, f.size - z}) = u
          BY <1>1, <4>2, MinOfTwo
        <4> QED BY <4>3 DEF z
      <3>2. u \div RowSize = m + 1
        <4>1. 0 \in 0 .. RowSize - 1 /\ (m + 1) * RowSize + 0 = u
          BY <1>1, <2>3, Multiples
        <4> QED BY <1>1, <2>3, <4>1, Quotient
      <3> HIDE DEF u
      <3>3. Block(f, q) = SubSeq(rows, q * p + 1, q * p + (m + 1))
        <4>1. q * PerBlock + (m + 1) <= Len(rows) /\ m + 1 \in 1 .. PerBlock
          BY <2>2, <2>3, <1>1 DEF p, n
        <4> QED BY <1>3, <2>2, <3>1, <3>2, <4>1, BlockHolds DEF p, n
      <3>4. q + 1 \in 1 .. count /\ (q + 1) - 1 = q
        BY <2>1, <2>2
      <3> QED BY <2>3, <3>3, <3>4
    <2> DEFINE h == [b \in 1 .. q |-> g[b]]
    <2>6. q * p <= n /\ q * p \in Nat
      BY <2>2, <2>3, <1>1
    <2>7. h \in Seq(Seq(E)) /\ FlattenSeq(h) = SubSeq(rows, 1, q * p)
      <3>1. q * p <= Len(rows) /\ p \in Nat /\ q \in Nat
        BY <1>1, <2>2, <2>6 DEF n
      <3>2. h = [b \in 1 .. q |-> g[b]]
        OBVIOUS
      <3>3. Shares(h, rows, p, q)
        <4> HIDE DEF g
        <4> QED BY <2>4 DEF Shares
      <3>4. DOMAIN h = 1 .. q /\ h = [b \in DOMAIN h |-> h[b]]
        <4> HIDE DEF g
        <4> QED OBVIOUS
      <3> HIDE DEF g, h
      <3> QED BY <3>1, <3>3, <3>4, FlattenBlocks
    <2>8. g[q + 1] \in Seq(E)
      <3> HIDE DEF g
      <3> DEFINE t == q * p
      <3>1. t \in Nat /\ t <= n /\ g[q + 1] = SubSeq(rows, t + 1, n)
        BY <2>5, <2>6
      <3> HIDE DEF t
      <3> QED BY <3>1, <1>1 DEF n
    <2>9. g = Append(h, g[q + 1])
      <3>1. DOMAIN g = 1 .. q + 1 /\ q \in Nat
        BY <2>1, <2>2
      <3> HIDE DEF g
      <3>2. Len(h) = q /\ \A b \in 1 .. q : h[b] = g[b]
        BY <2>7, <3>1
      <3> DEFINE k == h
                 e == g[q + 1]
      <3>3. k \in Seq(Seq(E)) /\ Len(k) = q /\ \A b \in 1 .. q : k[b] = g[b]
        BY <2>7, <3>2
      <3> HIDE DEF k
      <3>4. Append(k, e) = [b \in 1 .. q + 1 |-> IF b = q + 1 THEN e ELSE k[b]]
        BY <2>8, <3>3
      <3>5. \A b \in 1 .. q + 1 : g[b] = IF b = q + 1 THEN e ELSE k[b]
        BY <3>1, <3>3
      <3>6. g = [b \in 1 .. q + 1 |-> g[b]]
        BY <3>1, <2>1 DEF g
      <3>7. g = Append(k, e)
        BY <3>4, <3>5, <3>6
      <3> QED BY <3>7 DEF k
    <2> HIDE DEF g, h
    <2>10. FlattenSeq(Append(h, g[q + 1])) = FlattenSeq(h) \o g[q + 1]
      BY <2>7, <2>8, FlattenAppend
    <2>11. SubSeq(rows, 1, q * p) \o SubSeq(rows, q * p + 1, n) = SubSeq(rows, 1, n)
      BY <1>1, <2>6, Halves DEF n
    <2>12. SubSeq(rows, 1, n) = rows
      BY DEF n
    <2> QED BY <1>2, <2>5, <2>7, <2>9, <2>10, <2>11, <2>12 DEF f
  <1> QED BY <1>1, <1>6, <1>7 DEF f

\* A number has its row, or lies beyond the end of the file.
LEMMA RowAt ==
  ASSUME NEW E, NEW rows \in Seq(E), NEW i \in Nat
  PROVE  /\ Offset(i) < Blocks(rows).size <=> i < Len(rows)
         /\ i < Len(rows) => /\ Offset(i) \in DOMAIN Blocks(rows).rows
                             /\ Blocks(rows).rows[Offset(i)] = rows[i + 1]
  <1> DEFINE n == Len(rows)
             f == Blocks(rows)
             q == (n - 1) \div PerBlock
             m == (n - 1) % PerBlock
  <1>1. n \in Nat /\ RowSize \in Nat /\ RowSize >= 1 /\ Offset(i) \in Nat
    BY BlockRoom, PlaceOfRow
  <1>2. n = 0 => f.size = 0
    BY FileSize
  <1>3. n > 0 => /\ q \in Nat /\ m \in 0 .. PerBlock - 1
                 /\ f.size = q * BlockSize + (m + 1) * RowSize
    BY FileSize
  <1>4. i < n => Offset(i) \in DOMAIN f.rows /\ f.rows[Offset(i)] = rows[i + 1]
    <2>1. i < n => i \in 0 .. n - 1
      BY <1>1
    <2> QED BY <2>1, FileSize
  <1> HIDE DEF f, n
  <1>5. n > 0 => f.size = Offset(n - 1) + RowSize /\ Offset(n - 1) \in Nat
    <2> SUFFICES ASSUME n > 0 PROVE f.size = Offset(n - 1) + RowSize /\ Offset(n - 1) \in Nat
      OBVIOUS
    <2>1. n - 1 \in Nat
      BY <1>1
    <2>2. Offset(n - 1) = q * BlockSize + m * RowSize /\ Offset(n - 1) \in Nat
      BY <2>1, PlaceOfRow
    <2> HIDE DEF q, m
    <2> DEFINE x == q * BlockSize
               y == m * RowSize
    <2>3. x \in Nat /\ y \in Nat /\ (m + 1) * RowSize = y + RowSize
      <3>1. m \in Nat /\ q \in Nat /\ BlockSize \in Nat
        BY <1>3, BlockRoom
      <3> QED BY <1>1, <3>1
    <2>4. f.size = x + (y + RowSize) /\ Offset(n - 1) = x + y
      BY <1>3, <2>2, <2>3
    <2> HIDE DEF x, y
    <2> QED BY <1>1, <2>2, <2>3, <2>4
  <1>6. CASE i < n
    <2>1. n - 1 \in Nat /\ n > 0 /\ (i = n - 1 \/ i < n - 1)
      BY <1>1, <1>6
    <2>2. i < n - 1 => Offset(i) + RowSize <= Offset(n - 1)
      BY <2>1, OffsetsGrow
    <2>3. Offset(i) < f.size
      BY <1>1, <1>5, <2>1, <2>2
    <2> QED BY <1>4, <1>6, <2>3 DEF n, f
  <1>7. CASE ~ (i < n)
    <2>1. n > 0 => n - 1 \in Nat /\ n - 1 < i
      BY <1>1, <1>7
    <2>2. n > 0 => Offset(n - 1) + RowSize <= Offset(i)
      BY <2>1, OffsetsGrow
    <2>3. ~ (Offset(i) < f.size)
      BY <1>1, <1>2, <1>5, <2>2
    <2> QED BY <1>7, <2>3 DEF n, f
  <1> QED BY <1>6, <1>7

--------------------------------------------------------------------------------
(* Hash index files.                                                        *)

HashFile(h) ==
  /\ h = [w \in DOMAIN h |-> h[w]] /\ DOMAIN h \subseteq Value
  /\ \A w \in DOMAIN h : h[w] \in Seq(Nat) /\ h[w] # <<>>

\* Two sequences, one after the other.
LEMMA Joined ==
  ASSUME NEW E, NEW a \in Seq(E), NEW b \in Seq(E)
  PROVE  /\ a \o b \in Seq(E) /\ Len(a \o b) = Len(a) + Len(b) /\ Len(a) \in Nat /\ Len(b) \in Nat
         /\ \A j \in 1 .. Len(a) : (a \o b)[j] = a[j]
         /\ \A j \in 1 .. Len(b) : (a \o b)[Len(a) + j] = b[j]
  OBVIOUS

\* A sequence without one element.
LEMMA LessOne ==
  ASSUME NEW E, NEW q \in Seq(E), NEW i \in 1 .. Len(q)
  PROVE  /\ RemoveAt(q, i) \in Seq(E) /\ Len(RemoveAt(q, i)) = Len(q) - 1
         /\ \A j \in 1 .. Len(q) - 1 : RemoveAt(q, i)[j] = IF j < i THEN q[j] ELSE q[j + 1]
  <1> DEFINE a == SubSeq(q, 1, i - 1)
             b == SubSeq(q, i + 1, Len(q))
             n == Len(q)
  <1>1. /\ n \in Nat /\ a \in Seq(E) /\ b \in Seq(E) /\ Len(a) = i - 1 /\ Len(b) = n - i
        /\ \A j \in 1 .. i - 1 : a[j] = q[j]
        /\ \A j \in 1 .. n - i : b[j] = q[i + j]
    OBVIOUS
  <1>2. RemoveAt(q, i) = a \o b
    BY DEF RemoveAt
  <1>3. i \in 1 .. n
    OBVIOUS
  <1> HIDE DEF a, b, n
  <1> DEFINE c == a \o b
  <1>4. /\ c \in Seq(E) /\ Len(c) = Len(a) + Len(b)
        /\ \A j \in 1 .. Len(a) : c[j] = a[j]
        /\ \A j \in 1 .. Len(b) : c[Len(a) + j] = b[j]
    <2>0. a \in Seq(E) /\ b \in Seq(E)
      BY <1>1
    <2>1. c \in Seq(E) /\ Len(c) = Len(a) + Len(b)
      BY <2>0, Joined
    <2>2. \A j \in 1 .. Len(a) : c[j] = a[j]
      BY <2>0, Joined
    <2>3. \A j \in 1 .. Len(b) : c[Len(a) + j] = b[j]
      BY <2>0, Joined
    <2> QED BY <2>1, <2>2, <2>3
  <1> HIDE DEF c
  <1>5. ASSUME NEW j \in 1 .. n - 1 PROVE c[j] = IF j < i THEN q[j] ELSE q[j + 1]
    <2>1. CASE j < i
      <3>1. j \in 1 .. i - 1
        BY <1>1, <1>3, <2>1
      <3> QED BY <1>1, <1>4, <2>1, <3>1
    <2>2. CASE ~ (j < i)
      <3>1. j - (i - 1) \in 1 .. n - i /\ i + (j - (i - 1)) = j + 1 /\ (i - 1) + (j - (i - 1)) = j
        BY <1>1, <1>3, <2>2
      <3>2. c[j] = b[j - (i - 1)] /\ b[j - (i - 1)] = q[j + 1]
        BY <1>1, <1>4, <3>1
      <3> QED BY <2>2, <3>2
    <2> QED BY <2>1, <2>2
  <1>6. Len(c) = n - 1
    BY <1>1, <1>3, <1>4
  <1> QED BY <1>2, <1>4, <1>5, <1>6 DEF n, c

\* Taking the first e out of q.
LEMMA FirstTaken ==
  ASSUME NEW E, NEW q \in Seq(E), NEW e \in ToSet(q)
  PROVE  /\ RemoveFirst(q, e) \in Seq(E)
         /\ Once(q) => Once(RemoveFirst(q, e)) /\ ToSet(RemoveFirst(q, e)) = ToSet(q) \ {e}
  <1> DEFINE S == {i \in 1 .. Len(q) : q[i] = e}
             i == Min(S)
             u == RemoveFirst(q, e)
             n == Len(q)
  <1>1. n \in Nat /\ DOMAIN q = 1 .. n /\ S \subseteq Nat /\ \E j \in 1 .. n : q[j] = e
    BY DEF ToSet
  <1>2. i \in 1 .. n /\ q[i] = e
    <2>1. S # {}
      BY <1>1
    <2>2. i \in S
      BY <1>1, <2>1, MinOf
    <2> QED BY <2>2
  <1>3. u = RemoveAt(q, i)
    BY <1>1 DEF RemoveFirst, SelectInSeq
  <1> HIDE DEF i, u
  <1>4. /\ u \in Seq(E) /\ Len(u) = n - 1
        /\ \A j \in 1 .. n - 1 : u[j] = IF j < i THEN q[j] ELSE q[j + 1]
    BY <1>2, <1>3, LessOne
  <1> HIDE DEF n
  <1> DEFINE g == [j \in 1 .. n - 1 |-> IF j < i THEN j ELSE j + 1]
  <1>5. DOMAIN u = 1 .. n - 1
    BY <1>1, <1>4
  <1>6. /\ \A j \in 1 .. n - 1 : g[j] \in 1 .. n /\ g[j] # i /\ u[j] = q[g[j]]
        /\ \A j, k \in 1 .. n - 1 : g[j] = g[k] => j = k
        /\ \A k \in 1 .. n : k # i => \E j \in 1 .. n - 1 : g[j] = k
    <2>1. \A j \in 1 .. n - 1 : g[j] \in 1 .. n /\ g[j] # i /\ u[j] = q[g[j]]
      BY <1>1, <1>2, <1>4
    <2>2. \A j, k \in 1 .. n - 1 : g[j] = g[k] => j = k
      BY <1>1, <1>2
    <2>3. ASSUME NEW k \in 1 .. n, k # i PROVE \E j \in 1 .. n - 1 : g[j] = k
      <3>1. CASE k < i
        <4>1. k \in 1 .. n - 1 /\ g[k] = k
          BY <1>1, <1>2, <3>1
        <4> QED BY <4>1, Zenon
      <3>2. CASE k > i
        <4>1. k - 1 \in 1 .. n - 1 /\ g[k - 1] = k
          BY <1>1, <1>2, <3>2
        <4> QED BY <4>1, Zenon
      <3> QED BY <1>1, <1>2, <2>3, <3>1, <3>2
    <2> QED BY <2>1, <2>2, <2>3
  <1> HIDE DEF g
  <1>7. ASSUME Once(q) PROVE Once(u) /\ ToSet(u) = ToSet(q) \ {e}
    <2>1. Once(u)
      BY <1>1, <1>5, <1>6, <1>7 DEF Once
    <2>2. \A x \in ToSet(u) : x \in ToSet(q) /\ x # e
      BY <1>1, <1>2, <1>5, <1>6, <1>7 DEF ToSet, Once
    <2>3. ASSUME NEW x \in ToSet(q), x # e PROVE x \in ToSet(u)
      <3>1. PICK k \in 1 .. n : q[k] = x
        BY <1>1 DEF ToSet
      <3>2. PICK j \in 1 .. n - 1 : g[j] = k
        BY <1>2, <1>6, <2>3, <3>1
      <3>3. u[j] = x /\ j \in DOMAIN u
        BY <1>5, <1>6, <3>1, <3>2
      <3> QED BY <3>3, Zenon DEF ToSet
    <2> QED BY <2>1, <2>2, <2>3
  <1> QED BY <1>4, <1>7 DEF u

--------------------------------------------------------------------------------
\* An index whose searches give exactly the numbers that R pairs with a value.
HashMeans(h, R) ==
  \A w \in Value :
    LET found == IF w \in DOMAIN h THEN h[w] ELSE <<>>
    IN Once(found) /\ ToSet(found) = {i \in Nat : <<w, i>> \in R}

\* HashIndex.insert adds one pair,
LEMMA HashInsertMeans ==
  ASSUME NEW h, HashFile(h), NEW v \in Value, NEW idx \in Nat
  PROVE  /\ HashFile(HashInsert(h, v, idx))
         /\ \A R : HashMeans(h, R) /\ <<v, idx>> \notin R => HashMeans(HashInsert(h, v, idx), R \cup {<<v, idx>>})
  <1> DEFINE old == IF v \in DOMAIN h THEN h[v] ELSE <<>>
             g == HashInsert(h, v, idx)
  <1>1. old \in Seq(Nat)
    BY DEF HashFile
  <1>2. /\ DOMAIN g = DOMAIN h \cup {v} /\ g[v] = Append(old, idx)
        /\ \A w \in DOMAIN h : w # v => g[w] = h[w]
        /\ g = [w \in DOMAIN g |-> g[w]]
    BY DEF HashInsert
  <1> HIDE DEF old, g
  <1>3. Append(old, idx) \in Seq(Nat) /\ Append(old, idx) # <<>>
    <2>1. Len(Append(old, idx)) = Len(old) + 1 /\ Len(old) \in Nat /\ Append(old, idx) \in Seq(Nat)
      BY <1>1
    <2>2. Len(<<>>) = 0
      OBVIOUS
    <2>3. Len(Append(old, idx)) # 0
      BY <2>1
    <2> QED BY <2>1, <2>2, <2>3, Zenon
  <1>4. HashFile(g)
    BY <1>2, <1>3 DEF HashFile
  <1>5. ASSUME NEW R, HashMeans(h, R), <<v, idx>> \notin R
        PROVE  HashMeans(g, R \cup {<<v, idx>>})
    <2>1. Once(old) /\ ToSet(old) = {i \in Nat : <<v, i>> \in R}
      BY <1>5 DEF HashMeans, old
    <2>2. Once(Append(old, idx)) /\ ToSet(Append(old, idx)) = ToSet(old) \cup {idx}
      BY <1>1, <1>5, <2>1, OnceAppend
    <2>3. ASSUME NEW w \in Value
          PROVE  LET found == IF w \in DOMAIN g THEN g[w] ELSE <<>>
                 IN Once(found) /\ ToSet(found) = {i \in Nat : <<w, i>> \in R \cup {<<v, idx>>}}
      <3>1. CASE w = v
        <4>1. {i \in Nat : <<v, i>> \in R \cup {<<v, idx>>}} = {i \in Nat : <<v, i>> \in R} \cup {idx}
          BY <1>1
        <4>2. v \in DOMAIN g /\ g[v] = Append(old, idx)
          BY <1>2
        <4> QED BY <2>1, <2>2, <3>1, <4>1, <4>2, Zenon
      <3>2. CASE w # v
        <4>1. {i \in Nat : <<w, i>> \in R \cup {<<v, idx>>}} = {i \in Nat : <<w, i>> \in R}
          BY <3>2
        <4> QED BY <1>2, <1>5, <3>2, <4>1 DEF HashMeans
      <3> QED BY <3>1, <3>2
    <2> QED BY <2>3 DEF HashMeans
  <1> QED BY <1>4, <1>5 DEF g

\* and HashIndex.delete takes one pair out.
LEMMA HashDeleteMeans ==
  ASSUME NEW h, HashFile(h), NEW v \in Value, NEW idx \in Nat
  PROVE  /\ HashFile(HashDelete(h, v, idx))
         /\ \A R : HashMeans(h, R) => HashMeans(HashDelete(h, v, idx), R \ {<<v, idx>>})
  <1> DEFINE g == HashDelete(h, v, idx)
             left == RemoveFirst(h[v], idx)
  <1>1. CASE v \notin DOMAIN h \/ idx \notin ToSet(h[v])
    <2>1. g = h
      BY <1>1 DEF HashDelete
    <2>2. ASSUME NEW R, HashMeans(h, R) PROVE HashMeans(h, R \ {<<v, idx>>})
      <3>1. <<v, idx>> \notin R
        <4>1. LET found == IF v \in DOMAIN h THEN h[v] ELSE <<>>
              IN idx \notin ToSet(found) /\ ToSet(found) = {i \in Nat : <<v, i>> \in R}
          <5>1. ToSet(<<>>) = {}
            BY DEF ToSet
          <5> QED BY <1>1, <2>2, <5>1 DEF HashMeans
        <4> QED BY <4>1
      <3>2. R \ {<<v, idx>>} = R
        BY <3>1
      <3> QED BY <2>2, <3>2
    <2> QED BY <2>1, <2>2
  <1>2. CASE v \in DOMAIN h /\ idx \in ToSet(h[v])
    <2>1. /\ DOMAIN g = DOMAIN h \ (IF left = <<>> THEN {v} ELSE {})
          /\ \A w \in DOMAIN g : g[w] = IF w = v THEN left ELSE h[w]
          /\ g = [w \in DOMAIN g |-> g[w]]
      BY <1>2 DEF HashDelete
    <2>2. h[v] \in Seq(Nat)
      BY <1>2 DEF HashFile
    <2>3. left \in Seq(Nat) /\ (Once(h[v]) => Once(left) /\ ToSet(left) = ToSet(h[v]) \ {idx})
      BY <1>2, <2>2, FirstTaken
    <2> HIDE DEF left, g
    <2>4. HashFile(g)
      BY <2>1, <2>3 DEF HashFile
    <2>5. ASSUME NEW R, HashMeans(h, R) PROVE HashMeans(g, R \ {<<v, idx>>})
      <3>1. Once(h[v]) /\ ToSet(h[v]) = {i \in Nat : <<v, i>> \in R}
        BY <1>2, <2>5 DEF HashMeans
      <3>2. ASSUME NEW w \in Value
            PROVE  LET found == IF w \in DOMAIN g THEN g[w] ELSE <<>>
                   IN Once(found) /\ ToSet(found) = {i \in Nat : <<w, i>> \in R \ {<<v, idx>>}}
        <4>1. CASE w = v
          <5>1. (IF w \in DOMAIN g THEN g[w] ELSE <<>>) = left
            BY <1>2, <2>1, <4>1
          <5> QED BY <2>3, <3>1, <4>1, <5>1
        <4>2. CASE w # v
          <5>1. {i \in Nat : <<w, i>> \in R \ {<<v, idx>>}} = {i \in Nat : <<w, i>> \in R}
            BY <4>2
          <5>2. (IF w \in DOMAIN g THEN g[w] ELSE <<>>) = IF w \in DOMAIN h THEN h[w] ELSE <<>>
            BY <2>1, <4>2
          <5> QED BY <2>5, <5>1, <5>2 DEF HashMeans
        <4> QED BY <4>1, <4>2
      <3> QED BY <3>2 DEF HashMeans
    <2> QED BY <2>4, <2>5 DEF g
  <1> QED BY <1>1, <1>2

--------------------------------------------------------------------------------
(* Statements on many rows.                                                 *)

UF == INSTANCE FoldTheorems WITH Op <- LAMBDA c, s, i : Rewritten(c.rows[i], i - 1, c.to, s)
DF == INSTANCE FoldTheorems WITH Op <- LAMBDA c, s, i : B!Deleted(s, c[i].key)
RF == INSTANCE FoldTheorems WITH Op <- LAMBDA c, s, i : Removed(s, c[i].value, i - 1)
HF == INSTANCE FoldTheorems WITH Op <- LAMBDA c, h, i : HashInsert(h, c[i].value, i - 1)
TF == INSTANCE FoldTheorems WITH Op <- LAMBDA c, t, i : TreeInsert(t, c[i].value, i - 1)

\* Induction, for the theorems about the folds of UF.
LEMMA UFInductive == UF!Inductive
  BY NaturalInduction DEF UF!Inductive

\* Induction, for the theorems about the folds of DF.
LEMMA DFInductive == DF!Inductive
  BY NaturalInduction DEF DF!Inductive

\* Induction, for the theorems about the folds of RF.
LEMMA RFInductive == RF!Inductive
  BY NaturalInduction DEF RF!Inductive

\* Induction, for the theorems about the folds of HF.
LEMMA HFInductive == HF!Inductive
  BY NaturalInduction DEF HF!Inductive

\* Induction, for the theorems about the folds of TF.
LEMMA TFInductive == TF!Inductive
  BY NaturalInduction DEF TF!Inductive

\* The loops of the statements as folds with a constant operator.
LEMMA FoldsOfStatements ==
  /\ \A rows, v, base, s : FoldLeft(LAMBDA x, i : Rewritten(rows[i], i - 1, v, x), base, s)
                             = UF!Fold([rows |-> rows, to |-> v], base, s)
  /\ \A rows, base, s : FoldLeft(LAMBDA x, i : B!Deleted(x, rows[i].key), base, s) = DF!Fold(rows, base, s)
  /\ \A rows, base, s : FoldLeft(LAMBDA x, i : Removed(x, rows[i].value, i - 1), base, s) = RF!Fold(rows, base, s)
  /\ \A rows, base, s : FoldLeft(LAMBDA h, i : HashInsert(h, rows[i].value, i - 1), base, s) = HF!Fold(rows, base, s)
  /\ \A rows, base, s : FoldLeft(LAMBDA t, i : TreeInsert(t, rows[i].value, i - 1), base, s) = TF!Fold(rows, base, s)
  <1>1. \A rows, v, base, s : FoldLeft(LAMBDA x, i : Rewritten(rows[i], i - 1, v, x), base, s)
                             = UF!Fold([rows |-> rows, to |-> v], base, s)
    BY DEF UF!Fold, FoldLeft, MapThenFoldSet, UF!MapThenFoldSet, Max, UF!Top
  <1>2. \A rows, base, s : FoldLeft(LAMBDA x, i : B!Deleted(x, rows[i].key), base, s) = DF!Fold(rows, base, s)
    BY DEF DF!Fold, FoldLeft, MapThenFoldSet, DF!MapThenFoldSet, Max, DF!Top
  <1>3. \A rows, base, s : FoldLeft(LAMBDA x, i : Removed(x, rows[i].value, i - 1), base, s) = RF!Fold(rows, base, s)
    BY DEF RF!Fold, FoldLeft, MapThenFoldSet, RF!MapThenFoldSet, Max, RF!Top
  <1>4. \A rows, base, s : FoldLeft(LAMBDA h, i : HashInsert(h, rows[i].value, i - 1), base, s) = HF!Fold(rows, base, s)
    BY DEF HF!Fold, FoldLeft, MapThenFoldSet, HF!MapThenFoldSet, Max, HF!Top
  <1>5. \A rows, base, s : FoldLeft(LAMBDA t, i : TreeInsert(t, rows[i].value, i - 1), base, s) = TF!Fold(rows, base, s)
    BY DEF TF!Fold, FoldLeft, MapThenFoldSet, TF!MapThenFoldSet, Max, TF!Top
  <1> QED BY <1>1, <1>2, <1>3, <1>4, <1>5

\* The pool after the rows of u are set to v ...
LEMMA PoolRewritten ==
  ASSUME BP!Roomy(pool), NEW rows \in Seq(Rows), NEW v \in Value, NEW i,
         \A r \in ToSet(rows) : Seen(r.key) # NoRow,
         NEW u \in Seq(DOMAIN rows), NEW s, s = UF!Fold([rows |-> rows, to |-> v], [pool |-> pool, indexed |-> i], u)
  PROVE  /\ BP!Roomy(s.pool) /\ s.pool.disk = pool.disk
         /\ \A k \in Key : BP!Visible(s.pool, k) = IF \E j \in ToSet(u) : rows[j].key = k THEN v ELSE Seen(k)
  <1> DEFINE c == [rows |-> rows, to |-> v]
             base == [pool |-> pool, indexed |-> i]
             P(x, w) == /\ BP!Roomy(x.pool) /\ x.pool.disk = pool.disk
                        /\ \A k \in Key : BP!Visible(x.pool, k) =
                                            IF \E j \in ToSet(w) : rows[j].key = k THEN v ELSE Seen(k)
             I == {w \in Seq(DOMAIN rows) : P(UF!Fold(c, base, w), w)}
  <1>1. <<>> \in I
    <2>1. UF!Fold(c, base, <<>>) = base
      BY UF!FoldEmpty, UFInductive, Zenon
    <2>2. ToSet(<<>>) = {} /\ <<>> \in Seq(DOMAIN rows)
      BY DEF ToSet
    <2>3. P(base, <<>>)
      BY <2>2 DEF Seen
    <2> QED BY <2>1, <2>2, <2>3
  <1>2. ASSUME NEW w \in Seq(DOMAIN rows), NEW e \in DOMAIN rows, w \in I
        PROVE  Append(w, e) \in I
    <2> DEFINE x == UF!Fold(c, base, w)
               y == UF!Fold(c, base, Append(w, e))
    <2>1. y = Rewritten(rows[e], e - 1, v, x)
      <3>1. c.rows = rows /\ c.to = v
        OBVIOUS
      <3> HIDE DEF c, base
      <3>2. y = Rewritten(c.rows[e], e - 1, c.to, x)
        BY UF!FoldAppend, UFInductive
      <3> QED BY <3>1, <3>2
    <2>2. P(x, w)
      BY <1>2
    <2> HIDE DEF x, y
    <2>3. rows[e].key \in Key /\ Seen(rows[e].key) # NoRow
      <3>1. rows[e] \in Rows
        OBVIOUS
      <3>2. rows[e] \in ToSet(rows)
        BY DEF ToSet
      <3> QED BY <3>1, <3>2 DEF Rows
    <2>4. y.pool = BP!Written(x.pool, rows[e].key, v)
      BY <2>1, SameOperations DEF Rewritten
    <2>5. BP!Visible(x.pool, rows[e].key) # NoRow
      BY <2>2, <2>3, NoRowAssumption
    <2>6. ~ (rows[e].key \in BP!Keys(x.pool) /\ BP!Buffered(x.pool, rows[e].key).is_deleted)
      BY <2>5 DEF BP!Visible
    <2>7. /\ BP!Roomy(y.pool) /\ y.pool.disk = x.pool.disk
          /\ BP!Visible(y.pool, rows[e].key) = v
          /\ \A k \in Key \ {rows[e].key} : BP!Visible(y.pool, k) = BP!Visible(x.pool, k)
      BY <2>2, <2>3, <2>4, <2>6, NoRowAssumption, BP!WrittenRoomy
    <2>8. ToSet(Append(w, e)) = ToSet(w) \cup {e} /\ Append(w, e) \in Seq(DOMAIN rows)
      BY OnceAppend
    <2>9. P(y, Append(w, e))
      BY <2>2, <2>7, <2>8
    <2> QED BY <2>8, <2>9 DEF y
  <1> HIDE DEF I
  <1>3. Seq(DOMAIN rows) \subseteq I
    BY <1>1, <1>2, UF!SequenceInduction, UFInductive
  <1>4. P(UF!Fold(c, base, u), u)
    BY <1>3 DEF I
  <1> QED BY <1>4

\* ... and after they are deleted.
LEMMA PoolDeleted ==
  ASSUME BP!Roomy(pool), NEW rows \in Seq(Rows), \A r \in ToSet(rows) : Seen(r.key) # NoRow,
         BP!Distinct(rows), NEW u \in Seq(DOMAIN rows), Once(u), NEW s, s = DF!Fold(rows, pool, u)
  PROVE  /\ BP!Roomy(s) /\ s.disk = pool.disk
         /\ \A k \in Key : BP!Visible(s, k) = IF \E j \in ToSet(u) : rows[j].key = k THEN NoRow ELSE Seen(k)
  <1> DEFINE P(x, w) == /\ BP!Roomy(x) /\ x.disk = pool.disk
                        /\ \A k \in Key : BP!Visible(x, k) =
                                            IF \E j \in ToSet(w) : rows[j].key = k THEN NoRow ELSE Seen(k)
             I == {w \in Seq(DOMAIN rows) : Once(w) => P(DF!Fold(rows, pool, w), w)}
  <1>1. <<>> \in I
    <2>1. DF!Fold(rows, pool, <<>>) = pool
      BY DF!FoldEmpty, DFInductive, Zenon
    <2>2. ToSet(<<>>) = {} /\ <<>> \in Seq(DOMAIN rows)
      BY DEF ToSet
    <2>3. P(pool, <<>>)
      BY <2>2 DEF Seen
    <2> QED BY <2>1, <2>2, <2>3
  <1>2. ASSUME NEW w \in Seq(DOMAIN rows), NEW e \in DOMAIN rows, w \in I
        PROVE  Append(w, e) \in I
    <2> DEFINE x == DF!Fold(rows, pool, w)
               y == DF!Fold(rows, pool, Append(w, e))
    <2>0. ToSet(Append(w, e)) = ToSet(w) \cup {e} /\ Append(w, e) \in Seq(DOMAIN rows)
          /\ (Once(Append(w, e)) <=> Once(w) /\ e \notin ToSet(w))
      BY OnceAppend
    <2> SUFFICES ASSUME Once(w), e \notin ToSet(w)
                 PROVE  P(y, Append(w, e))
      BY <2>0
    <2>1. y = B!Deleted(x, rows[e].key)
      BY DF!FoldAppend, DFInductive
    <2>2. P(x, w)
      BY <1>2
    <2> HIDE DEF x, y
    <2>3. rows[e].key \in Key /\ Seen(rows[e].key) # NoRow
      <3>1. rows[e] \in Rows
        OBVIOUS
      <3>2. rows[e] \in ToSet(rows)
        BY DEF ToSet
      <3> QED BY <3>1, <3>2 DEF Rows
    <2>4. y = BP!Deleted(x, rows[e].key)
      BY <2>1, SameOperations
    <2>5. ~ \E j \in ToSet(w) : rows[j].key = rows[e].key
      <3>1. \A j \in ToSet(w) : j \in DOMAIN rows /\ j # e
        BY DEF ToSet
      <3> QED BY <3>1 DEF BP!Distinct
    <2>6. BP!Visible(x, rows[e].key) # NoRow
      BY <2>2, <2>3, <2>5
    <2>7. /\ BP!Roomy(y) /\ y.disk = x.disk
          /\ BP!Visible(y, rows[e].key) = NoRow
          /\ \A k \in Key \ {rows[e].key} : BP!Visible(y, k) = BP!Visible(x, k)
      BY <2>2, <2>3, <2>4, <2>6, NoRowAssumption, BP!DeletedRoomy
    <2> QED BY <2>0, <2>2, <2>7
  <1> HIDE DEF I
  <1>3. Seq(DOMAIN rows) \subseteq I
    BY <1>1, <1>2, DF!SequenceInduction, DFInductive
  <1>4. P(DF!Fold(rows, pool, u), u)
    BY <1>3 DEF I
  <1> QED BY <1>4

\* The pairs of value and row number after the rows with numbers in U are set to v,
\* and after they are deleted.
Paired(rows, U, v) == {<<IF j \in U THEN v ELSE rows[j].value, j - 1>> : j \in DOMAIN rows}
Kept(rows, U) == {<<rows[j].value, j - 1>> : j \in DOMAIN rows \ U}

\* One row more is set or deleted.
LEMMA PairedNext ==
  ASSUME NEW E, NEW rows \in Seq(E), NEW U, U \subseteq DOMAIN rows, NEW e \in DOMAIN rows, e \notin U, NEW v
  PROVE  /\ rows[e].value # v =>
              /\ Paired(rows, U \cup {e}, v) = (Paired(rows, U, v) \ {<<rows[e].value, e - 1>>}) \cup {<<v, e - 1>>}
              /\ <<v, e - 1>> \notin Paired(rows, U, v) \ {<<rows[e].value, e - 1>>}
         /\ Kept(rows, U \cup {e}) = Kept(rows, U) \ {<<rows[e].value, e - 1>>}
  <1>1. \A j \in DOMAIN rows : j \in Nat /\ (j - 1 = e - 1 => j = e)
    OBVIOUS
  <1>3. ASSUME NEW w, NEW i, <<w, i>> \in Paired(rows, U, v), i = e - 1
        PROVE  w = rows[e].value
    BY <1>1, <1>3 DEF Paired
  <1>4. rows[e].value # v => <<v, e - 1>> \notin Paired(rows, U, v)
    BY <1>3
  <1>5. ASSUME rows[e].value # v
        PROVE  Paired(rows, U \cup {e}, v) = (Paired(rows, U, v) \ {<<rows[e].value, e - 1>>}) \cup {<<v, e - 1>>}
    <2>1. ASSUME NEW p \in Paired(rows, U \cup {e}, v)
          PROVE  p \in (Paired(rows, U, v) \ {<<rows[e].value, e - 1>>}) \cup {<<v, e - 1>>}
      BY <1>1 DEF Paired
    <2>2. ASSUME NEW p \in Paired(rows, U, v), p # <<rows[e].value, e - 1>>
          PROVE  p \in Paired(rows, U \cup {e}, v)
      <3>1. PICK j \in DOMAIN rows : p = <<IF j \in U THEN v ELSE rows[j].value, j - 1>>
        BY DEF Paired
      <3>2. j # e
        BY <2>2, <3>1
      <3> QED BY <3>1, <3>2 DEF Paired
    <2>3. <<v, e - 1>> \in Paired(rows, U \cup {e}, v)
      BY DEF Paired
    <2> QED BY <2>1, <2>2, <2>3
  <1>6. Kept(rows, U \cup {e}) = Kept(rows, U) \ {<<rows[e].value, e - 1>>}
    BY <1>1 DEF Kept
  <1> QED BY <1>4, <1>5, <1>6

\* The hash index file after the rows of u are set to v ...
LEMMA HashRewritten ==
  ASSUME NEW rows \in Seq(Rows), NEW v \in Value, NEW i, NEW p, i.hash # NoFile => HashFile(i.hash),
         NEW u \in Seq(DOMAIN rows), NEW s, s = UF!Fold([rows |-> rows, to |-> v], [pool |-> p, indexed |-> i], u)
  PROVE  s.indexed.hash # NoFile =>
           /\ i.hash # NoFile /\ HashFile(s.indexed.hash)
           /\ HashMeans(i.hash, Paired(rows, {}, v)) /\ Once(u) =>
                HashMeans(s.indexed.hash, Paired(rows, ToSet(u), v))
  <1> DEFINE c == [rows |-> rows, to |-> v]
             base == [pool |-> p, indexed |-> i]
             P(x, w) == x.indexed.hash # NoFile =>
                          /\ i.hash # NoFile /\ HashFile(x.indexed.hash)
                          /\ HashMeans(i.hash, Paired(rows, {}, v)) /\ Once(w) =>
                               HashMeans(x.indexed.hash, Paired(rows, ToSet(w), v))
             I == {w \in Seq(DOMAIN rows) : P(UF!Fold(c, base, w), w)}
  <1>1. <<>> \in I
    <2>1. UF!Fold(c, base, <<>>) = base
      BY UF!FoldEmpty, UFInductive, Zenon
    <2>2. ToSet(<<>>) = {} /\ <<>> \in Seq(DOMAIN rows)
      BY DEF ToSet
    <2>3. P(base, <<>>)
      BY <2>2
    <2> QED BY <2>1, <2>2, <2>3
  <1>2. ASSUME NEW w \in Seq(DOMAIN rows), NEW e \in DOMAIN rows, w \in I
        PROVE  Append(w, e) \in I
    <2> DEFINE x == UF!Fold(c, base, w)
               y == UF!Fold(c, base, Append(w, e))
    <2>1. y = Rewritten(rows[e], e - 1, v, x)
      <3>1. c.rows = rows /\ c.to = v
        OBVIOUS
      <3> HIDE DEF c, base
      <3>2. y = Rewritten(c.rows[e], e - 1, c.to, x)
        BY UF!FoldAppend, UFInductive
      <3> QED BY <3>1, <3>2
    <2>2. P(x, w)
      BY <1>2
    <2>3. /\ ToSet(Append(w, e)) = ToSet(w) \cup {e} /\ Append(w, e) \in Seq(DOMAIN rows)
          /\ (Once(Append(w, e)) <=> Once(w) /\ e \notin ToSet(w))
      BY OnceAppend
    <2>4. rows[e].value \in Value /\ e - 1 \in Nat /\ ToSet(w) \subseteq DOMAIN rows
      <3>1. rows[e] \in Rows /\ e \in Nat /\ e >= 1
        OBVIOUS
      <3> QED BY <3>1 DEF Rows, ToSet
    <2> HIDE DEF x, y, c, base
    <2>5. ASSUME y.indexed.hash # NoFile
          PROVE  /\ i.hash # NoFile /\ HashFile(y.indexed.hash)
                 /\ HashMeans(i.hash, Paired(rows, {}, v)) /\ Once(Append(w, e)) =>
                      HashMeans(y.indexed.hash, Paired(rows, ToSet(w) \cup {e}, v))
      <3>1. CASE rows[e].value = v
        <4>1. y.indexed = x.indexed
          BY <2>1, <3>1 DEF Rewritten
        <4>2. Paired(rows, ToSet(w) \cup {e}, v) = Paired(rows, ToSet(w), v)
          BY <3>1 DEF Paired
        <4> QED BY <2>2, <2>3, <2>5, <4>1, <4>2
      <3>2. CASE rows[e].value # v
        <4> DEFINE h == x.indexed.hash
                   g == HashDelete(h, rows[e].value, e - 1)
        <4>1. h # NoFile /\ g # NoFile /\ y.indexed.hash = HashInsert(g, v, e - 1)
          BY <2>1, <2>5, <3>2 DEF Rewritten, Entered, Removed
        <4>2. HashFile(h) /\ i.hash # NoFile
          BY <2>2, <4>1
        <4> HIDE DEF h
        <4>3. /\ HashFile(g)
              /\ \A R : HashMeans(h, R) => HashMeans(g, R \ {<<rows[e].value, e - 1>>})
          BY <2>4, <4>2, HashDeleteMeans
        <4> HIDE DEF g
        <4>4. /\ HashFile(y.indexed.hash)
              /\ \A R : HashMeans(g, R) /\ <<v, e - 1>> \notin R => HashMeans(y.indexed.hash, R \cup {<<v, e - 1>>})
          BY <2>4, <4>1, <4>3, HashInsertMeans
        <4>5. ASSUME HashMeans(i.hash, Paired(rows, {}, v)), Once(Append(w, e))
              PROVE  HashMeans(y.indexed.hash, Paired(rows, ToSet(w) \cup {e}, v))
          <5>1. HashMeans(h, Paired(rows, ToSet(w), v))
            BY <2>2, <2>3, <4>1, <4>5 DEF h
          <5>2. /\ Paired(rows, ToSet(w) \cup {e}, v) =
                     (Paired(rows, ToSet(w), v) \ {<<rows[e].value, e - 1>>}) \cup {<<v, e - 1>>}
                /\ <<v, e - 1>> \notin Paired(rows, ToSet(w), v) \ {<<rows[e].value, e - 1>>}
            BY <2>3, <2>4, <3>2, <4>5, PairedNext
          <5>3. HashMeans(g, Paired(rows, ToSet(w), v) \ {<<rows[e].value, e - 1>>})
            BY <4>3, <5>1
          <5> QED BY <4>4, <5>2, <5>3
        <4> QED BY <4>2, <4>4, <4>5
      <3> QED BY <3>1, <3>2
    <2>6. P(y, Append(w, e))
      BY <2>3, <2>5
    <2> QED BY <2>3, <2>6 DEF y
  <1> HIDE DEF I
  <1>3. Seq(DOMAIN rows) \subseteq I
    BY <1>1, <1>2, UF!SequenceInduction, UFInductive
  <1>4. P(UF!Fold(c, base, u), u)
    BY <1>3 DEF I
  <1> QED BY <1>4

\* ... after they are deleted ...
LEMMA HashRemoved ==
  ASSUME NEW rows \in Seq(Rows), NEW i, i.hash # NoFile => HashFile(i.hash),
         NEW u \in Seq(DOMAIN rows), NEW s, s = RF!Fold(rows, i, u)
  PROVE  s.hash # NoFile =>
           /\ i.hash # NoFile /\ HashFile(s.hash)
           /\ HashMeans(i.hash, Kept(rows, {})) /\ Once(u) => HashMeans(s.hash, Kept(rows, ToSet(u)))
  <1> DEFINE P(x, w) == x.hash # NoFile =>
                          /\ i.hash # NoFile /\ HashFile(x.hash)
                          /\ HashMeans(i.hash, Kept(rows, {})) /\ Once(w) => HashMeans(x.hash, Kept(rows, ToSet(w)))
             I == {w \in Seq(DOMAIN rows) : P(RF!Fold(rows, i, w), w)}
  <1>1. <<>> \in I
    <2>1. RF!Fold(rows, i, <<>>) = i
      BY RF!FoldEmpty, RFInductive, Zenon
    <2>2. ToSet(<<>>) = {} /\ <<>> \in Seq(DOMAIN rows)
      BY DEF ToSet
    <2>3. P(i, <<>>)
      BY <2>2
    <2> QED BY <2>1, <2>2, <2>3
  <1>2. ASSUME NEW w \in Seq(DOMAIN rows), NEW e \in DOMAIN rows, w \in I
        PROVE  Append(w, e) \in I
    <2> DEFINE x == RF!Fold(rows, i, w)
               y == RF!Fold(rows, i, Append(w, e))
    <2>1. y = Removed(x, rows[e].value, e - 1)
      BY RF!FoldAppend, RFInductive
    <2>2. P(x, w)
      BY <1>2
    <2>3. /\ ToSet(Append(w, e)) = ToSet(w) \cup {e} /\ Append(w, e) \in Seq(DOMAIN rows)
          /\ (Once(Append(w, e)) <=> Once(w) /\ e \notin ToSet(w))
      BY OnceAppend
    <2>4. rows[e].value \in Value /\ e - 1 \in Nat /\ ToSet(w) \subseteq DOMAIN rows
      <3>1. rows[e] \in Rows /\ e \in Nat /\ e >= 1
        OBVIOUS
      <3> QED BY <3>1 DEF Rows, ToSet
    <2> HIDE DEF x, y
    <2>5. ASSUME y.hash # NoFile
          PROVE  /\ i.hash # NoFile /\ HashFile(y.hash)
                 /\ HashMeans(i.hash, Kept(rows, {})) /\ Once(Append(w, e)) =>
                      HashMeans(y.hash, Kept(rows, ToSet(w) \cup {e}))
      <3> DEFINE h == x.hash
      <3>1. h # NoFile /\ y.hash = HashDelete(h, rows[e].value, e - 1)
        BY <2>1, <2>5 DEF Removed
      <3>2. HashFile(h) /\ i.hash # NoFile
        BY <2>2, <3>1
      <3> HIDE DEF h
      <3>3. /\ HashFile(y.hash)
            /\ \A R : HashMeans(h, R) => HashMeans(y.hash, R \ {<<rows[e].value, e - 1>>})
        <4> DEFINE g == HashDelete(h, rows[e].value, e - 1)
        <4>1. HashFile(g) /\ \A R : HashMeans(h, R) => HashMeans(g, R \ {<<rows[e].value, e - 1>>})
          BY <2>4, <3>2, HashDeleteMeans
        <4> HIDE DEF g
        <4>2. y.hash = g
          BY <3>1 DEF g
        <4> QED BY <4>1, <4>2
      <3>4. e \notin ToSet(w) => Kept(rows, ToSet(w) \cup {e}) = Kept(rows, ToSet(w)) \ {<<rows[e].value, e - 1>>}
        BY <2>4, PairedNext
      <3>5. HashMeans(i.hash, Kept(rows, {})) /\ Once(w) => HashMeans(h, Kept(rows, ToSet(w)))
        BY <2>2, <3>1 DEF h
      <3> QED BY <2>3, <3>2, <3>3, <3>4, <3>5
    <2>6. P(y, Append(w, e))
      BY <2>3, <2>5
    <2> QED BY <2>3, <2>6 DEF y
  <1> HIDE DEF I
  <1>3. Seq(DOMAIN rows) \subseteq I
    BY <1>1, <1>2, RF!SequenceInduction, RFInductive
  <1>4. P(RF!Fold(rows, i, u), u)
    BY <1>3 DEF I
  <1> QED BY <1>4

\* ... and when it is made from all of them.
LEMMA HashBuilt ==
  ASSUME NEW rows \in Seq(Rows), NEW h, h = HF!Fold(rows, <<>>, [j \in DOMAIN rows |-> j])
  PROVE  HashFile(h) /\ HashMeans(h, Kept(rows, {}))
  <1> DEFINE R(w) == {<<rows[j].value, j - 1>> : j \in ToSet(w)}
             x(w) == HF!Fold(rows, <<>>, w)
             I == {w \in Seq(DOMAIN rows) : HashFile(x(w)) /\ (Once(w) => HashMeans(x(w), R(w)))}
  <1>1. <<>> \in I
    <2>1. x(<<>>) = <<>>
      BY HF!FoldEmpty, HFInductive, Zenon
    <2>2. ToSet(<<>>) = {} /\ <<>> \in Seq(DOMAIN rows) /\ DOMAIN <<>> = {} /\ Once(<<>>)
      BY DEF ToSet, Once
    <2>3. HashFile(<<>>) /\ HashMeans(<<>>, R(<<>>))
      BY <2>2 DEF HashFile, HashMeans
    <2> QED BY <2>1, <2>2, <2>3
  <1>2. ASSUME NEW w \in Seq(DOMAIN rows), NEW e \in DOMAIN rows, w \in I
        PROVE  Append(w, e) \in I
    <2>1. x(Append(w, e)) = HashInsert(x(w), rows[e].value, e - 1)
      BY HF!FoldAppend, HFInductive
    <2>2. /\ ToSet(Append(w, e)) = ToSet(w) \cup {e} /\ Append(w, e) \in Seq(DOMAIN rows)
          /\ (Once(Append(w, e)) <=> Once(w) /\ e \notin ToSet(w))
      BY OnceAppend
    <2>3. rows[e].value \in Value /\ e - 1 \in Nat /\ ToSet(w) \subseteq DOMAIN rows
      <3>1. rows[e] \in Rows /\ e \in Nat /\ e >= 1
        OBVIOUS
      <3> QED BY <3>1 DEF Rows, ToSet
    <2>4. HashFile(x(w)) /\ (Once(w) => HashMeans(x(w), R(w)))
      BY <1>2
    <2>5. e \notin ToSet(w) => <<rows[e].value, e - 1>> \notin R(w)
      <3>1. \A j \in DOMAIN rows : j \in Nat /\ (j - 1 = e - 1 => j = e)
        OBVIOUS
      <3> QED BY <2>3, <3>1
    <2>6. R(Append(w, e)) = R(w) \cup {<<rows[e].value, e - 1>>}
      BY <2>2
    <2> HIDE DEF x, R
    <2>7. /\ HashFile(x(Append(w, e)))
          /\ \A S : HashMeans(x(w), S) /\ <<rows[e].value, e - 1>> \notin S
                      => HashMeans(x(Append(w, e)), S \cup {<<rows[e].value, e - 1>>})
      <3> DEFINE g == HashInsert(x(w), rows[e].value, e - 1)
      <3>1. /\ HashFile(g)
            /\ \A S : HashMeans(x(w), S) /\ <<rows[e].value, e - 1>> \notin S
                        => HashMeans(g, S \cup {<<rows[e].value, e - 1>>})
        BY <2>3, <2>4, HashInsertMeans
      <3> HIDE DEF g
      <3>2. x(Append(w, e)) = g
        BY <2>1 DEF g
      <3> QED BY <3>1, <3>2
    <2>8. Once(Append(w, e)) => HashMeans(x(Append(w, e)), R(Append(w, e)))
      BY <2>2, <2>4, <2>5, <2>6, <2>7
    <2> QED BY <2>2, <2>7, <2>8
  <1> HIDE DEF I
  <1>3. Seq(DOMAIN rows) \subseteq I
    BY <1>1, <1>2, HF!SequenceInduction, HFInductive
  <1> DEFINE all == [j \in DOMAIN rows |-> j]
  <1>4. all \in Seq(DOMAIN rows) /\ Once(all) /\ ToSet(all) = DOMAIN rows
    <2>1. DOMAIN rows = 1 .. Len(rows) /\ Len(rows) \in Nat
      BY SMTT(30)
    <2>2. all \in Seq(DOMAIN rows)
      BY <2>1, SMTT(30)
    <2> QED BY <2>2 DEF Once, ToSet
  <1> HIDE DEF all
  <1>5. HashFile(x(all)) /\ HashMeans(x(all), R(all))
    BY <1>3, <1>4 DEF I
  <1>6. R(all) = Kept(rows, {})
    BY <1>4 DEF Kept
  <1> QED BY <1>5, <1>6 DEF all

--------------------------------------------------------------------------------
(* The inductive invariant.                                                 *)

FileInv ==
  /\ BP!Roomy(pool)
  /\ file = Blocks(Scanned(file)) /\ FromDisk(Scanned(file))
  /\ \A k \in Key : k \in KeysOf(Scanned(file)) <=> pool.disk[k] # NoRow
  /\ writes \in 0 .. MaxWrites
  /\ hash # NoFile => HashFile(hash)

\* The place of the row of a key: in the file, or the next one after it.
At(i, k) ==
  \/ i + 1 \in DOMAIN Scanned(file) /\ Scanned(file)[i + 1].key = k
  \/ i = Len(Scanned(file)) /\ k \notin KeysOf(Scanned(file))

Numbering == {p \in Value \X Nat : \E k \in Key : At(p[2], k) /\ Seen(k) = p[1]}

OneUnsaved == \A k, l \in Key \ KeysOf(Scanned(file)) : Seen(k) # NoRow /\ Seen(l) # NoRow => k = l

HashInv == Plain /\ hash # NoFile /\ "hash" \in exact => OneUnsaved /\ HashMeans(hash, Numbering)

\* The history of the rows that the file does not have, and of those only it has.
LEMMA InAndOut ==
  ASSUME FileInv
  PROVE  /\ \A k \in Key : k \in Unsaved <=> k \notin KeysOf(Scanned(file)) /\ Seen(k) # NoRow
         /\ \A k \in Key : k \in Leaving <=> k \in KeysOf(Scanned(file)) /\ Seen(k) = NoRow
         /\ Unsaved \subseteq Key /\ Leaving \subseteq Key
         /\ KeysOf(Scanned(file)) \subseteq Key
  <1> DEFINE F == Scanned(file)
  <1>1. /\ \A b \in ToSet(pool.buffer) :
              /\ b.key \in Key /\ b.data \in Value /\ b.key \in B!Keys(pool)
              /\ B!Buffered(pool, b.key) = b
              /\ Seen(b.key) = IF b.is_deleted THEN NoRow ELSE b.data
        /\ \A k \in Key \ B!Keys(pool) : Seen(k) = pool.disk[k]
        /\ \A k \in B!Keys(pool) : \E b \in ToSet(pool.buffer) : b.key = k
    BY PoolRows DEF FileInv
  <1>2. \A k \in Key : k \in KeysOf(F) <=> pool.disk[k] # NoRow
    BY DEF FileInv
  <1>3. KeysOf(F) \subseteq Key
    <2>1. F \in Seq(Rows)
      BY DEF FileInv, FromDisk
    <2> HIDE DEF F
    <2>2. \A r \in ToSet(F) : r \in Rows
      BY <2>1 DEF ToSet
    <2> QED BY <2>2 DEF KeysOf, Rows
  <1>4. \A k \in Key : k \in Unsaved <=> k \notin KeysOf(F) /\ Seen(k) # NoRow
    <2>1. Unsaved = {b.key : b \in {r \in ToSet(pool.buffer) : ~r.is_deleted}} \ KeysOf(F)
      BY DEF Unsaved, KeysOf
    <2> HIDE DEF F
    <2> QED BY <1>1, <1>2, <2>1, NoRowAssumption
  <1>5. \A k \in Key : k \in Leaving <=> k \in KeysOf(F) /\ Seen(k) = NoRow
    <2>1. Leaving = {b.key : b \in {r \in ToSet(pool.buffer) : r.is_deleted}} \cap KeysOf(F)
      BY DEF Leaving, KeysOf
    <2> HIDE DEF F
    <2> QED BY <1>1, <1>2, <2>1, NoRowAssumption
  <1>6. Unsaved \subseteq Key /\ Leaving \subseteq Key
    BY <1>1 DEF Unsaved, Leaving
  <1> QED BY <1>3, <1>4, <1>5, <1>6

\* What a statement reads: the rows that are seen, each once.
LEMMA MergedRowsAre ==
  ASSUME FileInv
  PROVE  /\ MergedRows \in Seq(Rows) /\ BP!Distinct(MergedRows)
         /\ ToSet(MergedRows) = ShownOf(Shows, Key)
         /\ \A r \in ToSet(MergedRows) : r.key \in Key /\ Seen(r.key) # NoRow /\ (Plain => Seen(r.key) = r.value)
         /\ \A k \in Key : Seen(k) # NoRow => \E j \in DOMAIN MergedRows : MergedRows[j].key = k
         /\ Leaving = {} => Extends(MergedRows, Scanned(file))
  <1> DEFINE F == Scanned(file)
             M == MergedRows
  <1>1. BP!Roomy(pool) /\ FromDisk(F) /\ \A k \in Key : k \in KeysOf(F) <=> pool.disk[k] # NoRow
    BY DEF FileInv
  <1>2. M = Merge(F)
    BY DEF MergedRows
  <1>3. /\ M \in Seq(Rows) /\ BP!Distinct(M) /\ ToSet(M) = ShownOf(Shows, KeysOf(F) \cup B!Keys(pool))
        /\ (\A r \in ToSet(F) : Seen(r.key) # NoRow) => Extends(M, F)
    BY <1>1, <1>2, MergeShows
  <1>4. /\ \A k \in Key \ B!Keys(pool) : Seen(k) = pool.disk[k]
        /\ \A b \in ToSet(pool.buffer) : b.key \in Key
        /\ \A k \in B!Keys(pool) : \E b \in ToSet(pool.buffer) : b.key = k
    BY <1>1, PoolRows
  <1>v. /\ Shows \in View
        /\ \A k \in Key : (Shows[k] = NoRow <=> Seen(k) = NoRow) /\ (Plain => Shows[k] = Seen(k))
    BY <1>1, Views
  <1>5. KeysOf(F) \subseteq Key /\ \A k \in Key : k \in Leaving <=> k \in KeysOf(F) /\ Seen(k) = NoRow
    BY InAndOut
  <1> HIDE DEF M, F
  <1>6. ShownOf(Shows, KeysOf(F) \cup B!Keys(pool)) = ShownOf(Shows, Key)
    BY <1>1, <1>4, <1>5, <1>v DEF ShownOf
  <1>7. \A r \in ToSet(M) : r.key \in Key /\ Seen(r.key) # NoRow /\ (Plain => Seen(r.key) = r.value)
    BY <1>3, <1>6, <1>v DEF ShownOf
  <1>8. ASSUME NEW k \in Key, Seen(k) # NoRow PROVE \E j \in DOMAIN M : M[j].key = k
    <2>1. [key |-> k, value |-> Shows[k]] \in ToSet(M)
      BY <1>3, <1>6, <1>8, <1>v DEF ShownOf
    <2>2. PICK j \in DOMAIN M : M[j] = [key |-> k, value |-> Shows[k]]
      BY <2>1 DEF ToSet
    <2> QED BY <2>2
  <1>9. Leaving = {} => Extends(M, F)
    <2>1. \A r \in ToSet(F) : r.key \in KeysOf(F)
      BY DEF KeysOf
    <2> QED BY <1>3, <1>5, <2>1
  <1> QED BY <1>3, <1>6, <1>7, <1>8, <1>9 DEF M, F

\* When no row of the file is deleted and texts are read as they were written, the numbers are the places of the rows read.
LEMMA Places ==
  ASSUME FileInv, Plain, Leaving = {}, OneUnsaved
  PROVE  /\ \A j \in DOMAIN MergedRows : j - 1 \in Nat /\ At(j - 1, MergedRows[j].key)
         /\ \A i \in Nat, k \in Key : At(i, k) /\ Seen(k) # NoRow =>
              i + 1 \in DOMAIN MergedRows /\ MergedRows[i + 1].key = k
         /\ Numbering = Kept(MergedRows, {})
  <1> DEFINE F == Scanned(file)
             M == MergedRows
             n == Len(F)
  <1>1. /\ M \in Seq(Rows) /\ BP!Distinct(M) /\ Extends(M, F)
        /\ \A r \in ToSet(M) : r.key \in Key /\ Seen(r.key) # NoRow /\ (Plain => Seen(r.key) = r.value)
        /\ \A k \in Key : Seen(k) # NoRow => \E j \in DOMAIN M : M[j].key = k
    BY MergedRowsAre
  <1>2. F \in Seq(Rows) /\ DOMAIN F = 1 .. n /\ n \in Nat /\ DOMAIN M = 1 .. Len(M) /\ Len(M) \in Nat
    BY <1>1 DEF FileInv, FromDisk
  <1>3. \A i \in DOMAIN M : /\ M[i] \in Rows /\ M[i].key \in Key /\ Seen(M[i].key) # NoRow
                            /\ Seen(M[i].key) = M[i].value /\ M[i].value \in Value
    <2>1. \A i \in DOMAIN M : M[i] \in ToSet(M) /\ M[i] \in Rows
      BY <1>1 DEF ToSet
    <2> QED BY <1>1, <2>1 DEF Rows
  <1>4. \A k, l \in Key \ KeysOf(F) : Seen(k) # NoRow /\ Seen(l) # NoRow => k = l
    BY DEF OneUnsaved
  <1>5. \A i, k : At(i, k) <=> (i + 1 \in DOMAIN F /\ F[i + 1].key = k) \/ (i = n /\ k \notin KeysOf(F))
    BY DEF At
  <1>6. /\ \A i \in DOMAIN F : i \in DOMAIN M /\ M[i].key = F[i].key
        /\ \A i \in DOMAIN M : i \notin DOMAIN F => M[i].key \notin KeysOf(F)
    BY <1>1 DEF Extends
  <1> HIDE DEF F, M, n
  <1>7. ASSUME NEW j \in DOMAIN M, j \notin DOMAIN F PROVE j = n + 1
    <2>1. n + 1 \in DOMAIN M /\ n + 1 \notin DOMAIN F
      BY <1>2, <1>7
    <2>2. M[j].key = M[n + 1].key
      BY <1>3, <1>4, <1>6, <1>7, <2>1
    <2> QED BY <1>1, <2>1, <2>2 DEF BP!Distinct
  <1>8. ASSUME NEW j \in DOMAIN M PROVE j - 1 \in Nat /\ At(j - 1, M[j].key)
    <2>1. j - 1 \in Nat /\ j - 1 + 1 = j
      BY <1>2
    <2>2. CASE j \in DOMAIN F
      BY <1>5, <1>6, <2>1, <2>2
    <2>3. CASE j \notin DOMAIN F
      <3>1. j - 1 = n
        BY <1>2, <1>7, <2>3
      <3> QED BY <1>5, <1>6, <2>1, <2>3, <3>1
    <2> QED BY <2>2, <2>3
  <1>9. ASSUME NEW i \in Nat, NEW k \in Key, At(i, k), Seen(k) # NoRow
        PROVE  i + 1 \in DOMAIN M /\ M[i + 1].key = k
    <2>1. CASE i + 1 \in DOMAIN F /\ F[i + 1].key = k
      BY <1>6, <2>1
    <2>2. CASE i = n /\ k \notin KeysOf(F)
      <3>1. PICK j \in DOMAIN M : M[j].key = k
        BY <1>1, <1>9
      <3>2. j \notin DOMAIN F
        <4>1. \A x \in DOMAIN F : F[x].key \in KeysOf(F)
          BY DEF KeysOf, ToSet
        <4> QED BY <1>6, <2>2, <3>1, <4>1
      <3>3. j = n + 1
        BY <1>7, <3>2
      <3> QED BY <2>2, <3>1, <3>3
    <2> QED BY <1>5, <1>9, <2>1, <2>2
  <1>10. Numbering = Kept(M, {})
    <2>1. ASSUME NEW p \in Numbering PROVE p \in Kept(M, {})
      <3>1. PICK k \in Key : p \in Value \X Nat /\ At(p[2], k) /\ Seen(k) = p[1]
        BY DEF Numbering
      <3>2. p[2] \in Nat /\ p[1] \in Value /\ p = <<p[1], p[2]>> /\ p[2] + 1 - 1 = p[2]
        BY <3>1
      <3>3. p[2] + 1 \in DOMAIN M /\ M[p[2] + 1].key = k
        BY <1>9, <3>1, <3>2, NoRowAssumption
      <3>4. M[p[2] + 1].value = p[1]
        BY <1>3, <3>1, <3>3
      <3> QED BY <3>2, <3>3, <3>4 DEF Kept
    <2>2. ASSUME NEW p \in Kept(M, {}) PROVE p \in Numbering
      <3>1. PICK j \in DOMAIN M : p = <<M[j].value, j - 1>>
        BY DEF Kept
      <3>2. j - 1 \in Nat /\ At(j - 1, M[j].key) /\ M[j].key \in Key /\ Seen(M[j].key) = M[j].value /\ M[j].value \in Value
        BY <1>3, <1>8
      <3>3. p \in Value \X Nat /\ p[1] = M[j].value /\ p[2] = j - 1
        BY <3>1, <3>2
      <3> QED BY <3>2, <3>3 DEF Numbering
    <2> QED BY <2>1, <2>2
  <1> QED BY <1>8, <1>9, <1>10 DEF M

--------------------------------------------------------------------------------
(* Reads through an index.                                                  *)

\* A sequence without repetitions is as long as its set is large.
LEMMA LengthOfOnce ==
  ASSUME NEW E, NEW q \in Seq(E), Once(q)
  PROVE  IsFiniteSet(ToSet(q)) /\ Cardinality(ToSet(q)) = Len(q)
  <1>1. DOMAIN q = 1 .. Len(q) /\ Len(q) \in Nat /\ q \in [1 .. Len(q) -> ToSet(q)]
    BY DEF ToSet
  <1>2. q \in Bijection(1 .. Len(q), ToSet(q))
    BY <1>1 DEF Bijection, Injection, Surjection, IsInjective, ToSet, Once
  <1>3. IsFiniteSet(1 .. Len(q)) /\ Cardinality(1 .. Len(q)) = Len(q)
    BY <1>1, FS_Interval
  <1>4. ExistsBijection(1 .. Len(q), ToSet(q))
    BY <1>2 DEF ExistsBijection
  <1> QED BY <1>3, <1>4, FS_Bijection

\* Rows of the same set, no key twice in either sequence.
LEMMA SameSetSameRows ==
  ASSUME NEW a \in Seq(Rows), NEW b \in Seq(Rows), BP!Distinct(a), BP!Distinct(b), ToSet(a) = ToSet(b)
  PROVE  SameRows(a, b)
  <1>1. Once(a) /\ Once(b)
    BY DEF Once, BP!Distinct
  <1>2. Cardinality(ToSet(a)) = Len(a) /\ Cardinality(ToSet(b)) = Len(b)
    BY <1>1, LengthOfOnce
  <1> QED BY <1>2 DEF SameRows

\* A selection repeats nothing that the sequence does not.
LEMMA OnlyOnce ==
  ASSUME NEW E, NEW s \in Seq(E), NEW S, Once(s)
  PROVE  Once(B!Only(s, S))
  <1> DEFINE o == B!Only(s, S)
  <1>1. o \in Seq(E)
    BY Selection
  <1>2. \E h : BP!Selects(h, s, o, S)
    BY NoRowAssumption, SameOnly, BP!OnlySelects
  <1>3. PICK h : BP!Selects(h, s, o, S)
    BY <1>2
  <1> HIDE DEF o
  <1>4. /\ DOMAIN o = 1 .. Len(o) /\ DOMAIN s = 1 .. Len(s) /\ Len(o) \in Nat /\ Len(s) \in Nat
        /\ \A i \in 1 .. Len(o) : h[i] \in 1 .. Len(s) /\ o[i] = s[h[i]]
        /\ \A i, j \in 1 .. Len(o) : i < j => h[i] < h[j]
    BY <1>1, <1>3 DEF BP!Selects
  <1>5. ASSUME NEW i \in DOMAIN o, NEW j \in DOMAIN o, o[i] = o[j]
        PROVE  i = j
    <2>1. h[i] = h[j]
      BY <1>4, <1>5 DEF Once
    <2> QED BY <1>4, <2>1
  <1> QED BY <1>5 DEF Once, o

\* _read_disk_rows with row numbers.
LEMMA FetchedAre ==
  ASSUME Plain, NEW F \in Seq(Rows), BP!Distinct(F), NEW f, f = Blocks(F),
         NEW numbers \in Seq(Nat), Once(numbers)
  PROVE  /\ Fetched(f, numbers) \in Seq(Rows) /\ BP!Distinct(Fetched(f, numbers))
         /\ ToSet(Fetched(f, numbers)) = {F[i + 1] : i \in {i \in ToSet(numbers) : i < Len(F)}}
  <1> DEFINE S == {idx \in ToSet(numbers) : Offset(idx) < f.size}
             found == B!Only(numbers, S)
             R == Fetched(f, numbers)
  <1>1. found \in Seq(Nat) /\ ToSet(found) = ToSet(numbers) \cap S /\ Once(found)
    BY Selection, OnlyOnce
  <1>2. R = [i \in DOMAIN found |-> LET o == Offset(found[i]) IN IF o \in DOMAIN f.rows THEN [f.rows[o] EXCEPT !.value = Stripped[@]] ELSE Torn]
    BY DEF Fetched
  <1>3. \A i \in ToSet(numbers) : i \in Nat
    BY DEF ToSet
  <1>4. \A i \in ToSet(numbers) : i \in S <=> i < Len(F)
    BY <1>3, RowAt
  <1> HIDE DEF S, found, R
  <1>5. \A i \in DOMAIN found : found[i] \in Nat /\ found[i] \in ToSet(numbers) /\ found[i] < Len(F)
    <2>1. \A i \in DOMAIN found : found[i] \in ToSet(found)
      BY DEF ToSet
    <2> QED BY <1>1, <1>3, <1>4, <2>1
  <1>6. ASSUME NEW i \in DOMAIN found PROVE R[i] = F[found[i] + 1]
    <2>1. Offset(found[i]) \in DOMAIN f.rows /\ f.rows[Offset(found[i])] = F[found[i] + 1]
      BY <1>5, RowAt
    <2>2. found[i] + 1 \in DOMAIN F
      BY <1>5
    <2>3. F[found[i] + 1] \in Rows
      BY <2>2
    <2>4. \A r \in Rows : [r EXCEPT !.value = Stripped[@]] = r
      BY DEF Rows, Plain
    <2> QED BY <1>2, <2>1, <2>3, <2>4
  <1>7. DOMAIN R = DOMAIN found /\ R = [i \in DOMAIN found |-> R[i]] /\ DOMAIN found = 1 .. Len(found) /\ Len(found) \in Nat
    BY <1>1, <1>2
  <1>8. \A i \in DOMAIN found : found[i] + 1 \in DOMAIN F
    <2>1. DOMAIN F = 1 .. Len(F) /\ Len(F) \in Nat
      OBVIOUS
    <2> QED BY <1>5, <2>1
  <1>9. \A i \in DOMAIN found : R[i] \in Rows
    BY <1>6, <1>8
  <1>10. R \in Seq(Rows)
    BY <1>7, <1>9
  <1>11. BP!Distinct(R)
    <2> SUFFICES ASSUME NEW i \in DOMAIN found, NEW j \in DOMAIN found, R[i].key = R[j].key PROVE i = j
      BY <1>7 DEF BP!Distinct
    <2>1. found[i] + 1 = found[j] + 1
      BY <1>6, <1>8 DEF BP!Distinct
    <2>2. found[i] = found[j]
      BY <1>5, <2>1
    <2> QED BY <1>1, <2>2 DEF Once
  <1>12. ToSet(R) = {F[i + 1] : i \in {i \in ToSet(numbers) : i < Len(F)}}
    <2>1. ToSet(R) = {F[i + 1] : i \in ToSet(found)}
      BY <1>6, <1>7 DEF ToSet
    <2>2. ToSet(found) = {i \in ToSet(numbers) : i < Len(F)}
      BY <1>1, <1>4
    <2> QED BY <2>1, <2>2
  <1> QED BY <1>10, <1>11, <1>12 DEF R

\* Numbers of the rows that a condition chooses give the answer of a full scan.
LEMMA ScanAnswers ==
  ASSUME FileInv, Plain, NEW low, NEW high, NEW numbers \in Seq(Nat), Once(numbers),
         ToSet(numbers) = {i \in Nat : \E k \in Key : At(i, k) /\ Seen(k) # NoRow /\ Within(Seen(k), low, high)}
  PROVE  SameRows(IndexScan(numbers, low, high), Answer(MergedRows, low, high))
  <1> DEFINE F == Scanned(file)
             R == Fetched(file, numbers)
             M == MergedRows
             S(q) == {r \in ToSet(q) : Within(r.value, low, high)}
  <1>1. BP!Roomy(pool) /\ FromDisk(F) /\ file = Blocks(F) /\ F \in Seq(Rows) /\ BP!Distinct(F)
    BY DEF FileInv, FromDisk
  <1>2. /\ R \in Seq(Rows) /\ BP!Distinct(R)
        /\ ToSet(R) = {F[i + 1] : i \in {i \in ToSet(numbers) : i < Len(F)}}
    BY <1>1, FetchedAre
  <1>3. /\ M \in Seq(Rows) /\ BP!Distinct(M) /\ ToSet(M) = ShownOf(Shows, Key)
    BY MergedRowsAre
  <1>4. /\ \A k \in Key \ B!Keys(pool) : Seen(k) = pool.disk[k]
        /\ \A b \in ToSet(pool.buffer) : b.key \in Key
        /\ \A k \in B!Keys(pool) : \E b \in ToSet(pool.buffer) : b.key = k
    BY <1>1, PoolRows
  <1>v. \A k \in Key : Shows[k] = Seen(k)
    BY <1>1, Views
  <1>5. KeysOf(F) \subseteq Key /\ \A k \in Key : k \in KeysOf(F) <=> pool.disk[k] # NoRow
    BY InAndOut DEF FileInv
  <1>6. \A i, k : At(i, k) <=> (i + 1 \in DOMAIN F /\ F[i + 1].key = k) \/ (i = Len(F) /\ k \notin KeysOf(F))
    BY DEF At
  <1>7. /\ IndexScan(numbers, low, high) = B!Only(Merge(R), S(Merge(R)))
        /\ Answer(M, low, high) = B!Only(M, S(M))
    BY DEF IndexScan, Answer
  <1> HIDE DEF F, R, M
  <1>8. DOMAIN F = 1 .. Len(F) /\ Len(F) \in Nat
    BY <1>1
  <1>9. FromDisk(R)
    <2>1. \A r \in ToSet(R) : r \in ToSet(F)
      <3>1. \A i \in ToSet(numbers) : i \in Nat
        BY DEF ToSet
      <3>2. \A i \in Nat : i < Len(F) => i + 1 \in DOMAIN F
        BY <1>8
      <3> QED BY <1>2, <3>1, <3>2 DEF ToSet
    <2> QED BY <1>1, <1>2, <2>1 DEF FromDisk
  <1>10. /\ Merge(R) \in Seq(Rows) /\ BP!Distinct(Merge(R))
         /\ ToSet(Merge(R)) = ShownOf(Shows, KeysOf(R) \cup B!Keys(pool))
    BY <1>1, <1>9, MergeShows
  <1>11. ASSUME NEW k \in KeysOf(F), Seen(k) # NoRow, Within(Seen(k), low, high)
         PROVE  k \in KeysOf(R)
    <2>1. PICK j \in DOMAIN F : F[j].key = k
      BY DEF KeysOf, ToSet
    <2>2. j - 1 \in Nat /\ j - 1 + 1 = j /\ j - 1 < Len(F)
      BY <1>8
    <2>3. At(j - 1, k) /\ k \in Key
      BY <1>5, <1>6, <2>1, <2>2
    <2>4. j - 1 \in ToSet(numbers)
      BY <1>11, <2>2, <2>3
    <2>5. F[j - 1 + 1] \in ToSet(R)
      BY <1>2, <2>2, <2>4
    <2> QED BY <2>1, <2>2, <2>5 DEF KeysOf
  <1>12. \A k \in KeysOf(R) : k \in Key
    <2>1. \A r \in ToSet(R) : r \in Rows
      BY <1>2 DEF ToSet
    <2> QED BY <2>1 DEF KeysOf, Rows
  <1>13. ASSUME NEW k \in Key, Seen(k) # NoRow, Within(Seen(k), low, high)
         PROVE  k \in KeysOf(R) \cup B!Keys(pool)
    <2>1. k \notin B!Keys(pool) => k \in KeysOf(F)
      BY <1>4, <1>5, <1>13
    <2> QED BY <1>11, <1>13, <2>1
  <1>14. \A k \in B!Keys(pool) : k \in Key
    BY <1>4
  <1> DEFINE a == B!Only(Merge(R), S(Merge(R)))
             b == B!Only(M, S(M))
  <1>15. a \in Seq(Rows) /\ BP!Distinct(a) /\ ToSet(a) = ToSet(Merge(R)) \cap S(Merge(R))
    <2>1. Merge(R) \in Seq(Rows) /\ BP!Distinct(Merge(R))
      BY <1>10
    <2> QED BY ONLY <2>1, Selection, NoRowAssumption
  <1>16. b \in Seq(Rows) /\ BP!Distinct(b) /\ ToSet(b) = ToSet(M) \cap S(M)
    BY <1>3, Selection
  <1> HIDE DEF a, b
  <1>17. ToSet(a) = ToSet(b)
    BY <1>3, <1>10, <1>12, <1>13, <1>14, <1>15, <1>16, <1>v DEF ShownOf
  <1>18. SameRows(a, b)
    BY <1>15, <1>16, <1>17, SameSetSameRows
  <1> QED BY <1>7, <1>18 DEF a, b, M

--------------------------------------------------------------------------------
(* The numbers of the rows, after each statement.                           *)

\* Nothing moves in the file.
LEMMA FileKept ==
  ASSUME FileInv, file' = file, BP!Roomy(pool'), pool'.disk = pool.disk,
         writes' \in 0 .. MaxWrites, hash' # NoFile => HashFile(hash')
  PROVE  FileInv'
  BY DEF FileInv, FromDisk, Scanned, KeysOf, Block

\* so that the places in it stay,
LEMMA SamePlaces ==
  ASSUME file' = file
  PROVE  /\ Scanned(file)' = Scanned(file)
         /\ KeysOf(Scanned(file))' = KeysOf(Scanned(file))
         /\ \A i, k : At(i, k)' <=> At(i, k)
  <1>1. Scanned(file)' = Scanned(file)
    BY DEF Scanned, Block
  <1>2. KeysOf(Scanned(file))' = KeysOf(Scanned(file))
    BY <1>1 DEF KeysOf
  <1>3. \A i, k : At(i, k)' <=> At(i, k)
    BY <1>1, <1>2 DEF At
  <1> QED BY <1>1, <1>2, <1>3

\* and the numbers too when all keys show what they did.
LEMMA NumbersKept ==
  ASSUME file' = file, \A k \in Key : Seen(k)' = Seen(k)
  PROVE  Numbering' = Numbering /\ (OneUnsaved => OneUnsaved')
  BY SamePlaces DEF Numbering, OneUnsaved

\* An insertion gives the number that comes after the file, when nothing else has it.
LEMMA NumbersAfterInsert ==
  ASSUME FileInv, file' = file, NEW k \in Key, NEW v \in Value,
         k \notin KeysOf(Scanned(file)), Unsaved = {}, 
         \A l \in Key : Seen(l)' = IF l = k THEN v ELSE Seen(l)
  PROVE  /\ OneUnsaved' /\ <<v, Len(Scanned(file))>> \notin Numbering
         /\ Numbering' = Numbering \cup {<<v, Len(Scanned(file))>>}
  <1> DEFINE F == Scanned(file)
             n == Len(F)
  <1>1. \A l \in Key : l \notin KeysOf(F) => Seen(l) = NoRow
    BY InAndOut
  <1>2. F \in Seq(Rows) /\ n \in Nat /\ DOMAIN F = 1 .. n
    BY DEF FileInv, FromDisk
  <1>3. \A i, l : At(i, l) <=> (i + 1 \in DOMAIN F /\ F[i + 1].key = l) \/ (i = n /\ l \notin KeysOf(F))
    BY DEF At
  <1>4. k \notin KeysOf(F) /\ v # NoRow
    BY NoRowAssumption
  <1>5. KeysOf(F)' = KeysOf(F) /\ \A i, l : At(i, l)' <=> At(i, l)
    BY SamePlaces
  <1>6. OneUnsaved'
    BY <1>1, <1>4, <1>5 DEF OneUnsaved
  <1> HIDE DEF F, n
  <1>7. n + 1 \notin DOMAIN F
    BY <1>2
  <1>8. \A l \in Key : Seen(l) \in Value => ~At(n, l)
    BY <1>1, <1>3, <1>7, NoRowAssumption
  <1>9. <<v, n>> \notin Numbering
    BY <1>8 DEF Numbering
  <1>10. \A i : ~ (i + 1 \in DOMAIN F /\ F[i + 1].key = k)
    BY <1>4 DEF KeysOf, ToSet
  <1>11. \A i : At(i, k) <=> i = n
    BY <1>3, <1>4, <1>10
  <1>12. Numbering' = Numbering \cup {<<v, n>>}
    <2>1. ASSUME NEW p \in Value \X Nat
          PROVE  (\E l \in Key : At(p[2], l)' /\ Seen(l)' = p[1]) <=>
                   (\E l \in Key : At(p[2], l) /\ Seen(l) = p[1]) \/ p = <<v, n>>
      <3>1. p[1] \in Value /\ p[1] # NoRow /\ p = <<p[1], p[2]>>
        BY NoRowAssumption
      <3>2. Seen(k) # p[1]
        BY <1>1, <1>4, <3>1
      <3> QED BY <1>5, <1>11, <3>1, <3>2
    <2>2. <<v, n>> \in Value \X Nat
      BY <1>2
    <2> QED BY <2>1, <2>2 DEF Numbering
  <1> QED BY <1>6, <1>9, <1>12 DEF n, F

\* An update changes the values of numbers,
LEMMA NumbersAfterUpdate ==
  ASSUME FileInv, Plain, file' = file, Leaving = {}, OneUnsaved, NEW v \in Value, NEW U, U \subseteq DOMAIN MergedRows,
         \A k \in Key : Seen(k)' = IF \E j \in U : MergedRows[j].key = k THEN v ELSE Seen(k)
  PROVE  OneUnsaved' /\ Numbering' = Paired(MergedRows, U, v)
  <1> DEFINE M == MergedRows
  <1>1. /\ M \in Seq(Rows) /\ BP!Distinct(M)
        /\ \A r \in ToSet(M) : r.key \in Key /\ Seen(r.key) # NoRow /\ Seen(r.key) = r.value
    BY MergedRowsAre
  <1>2. /\ \A j \in DOMAIN M : j - 1 \in Nat /\ At(j - 1, M[j].key)
        /\ \A i \in Nat, k \in Key : At(i, k) /\ Seen(k) # NoRow => i + 1 \in DOMAIN M /\ M[i + 1].key = k
    BY Places
  <1>3. KeysOf(Scanned(file))' = KeysOf(Scanned(file)) /\ \A i, k : At(i, k)' <=> At(i, k)
    BY SamePlaces
  <1>4. /\ U \subseteq DOMAIN M
        /\ \A k \in Key : BP!Visible(pool', k) = IF \E j \in U : M[j].key = k THEN v ELSE Seen(k)
    BY DEF Seen
  <1> HIDE DEF M
  <1>5. \A j \in DOMAIN M : M[j].key \in Key /\ Seen(M[j].key) # NoRow /\ Seen(M[j].key) = M[j].value /\ M[j].value \in Value
    <2>1. \A j \in DOMAIN M : M[j] \in ToSet(M) /\ M[j] \in Rows
      BY <1>1 DEF ToSet
    <2> QED BY <1>1, <2>1 DEF Rows
  <1>6. \A k \in Key : BP!Visible(pool', k) = Seen(k)' /\ (Seen(k)' # NoRow => Seen(k) # NoRow)
    BY <1>4, <1>5 DEF Seen
  <1>7. OneUnsaved'
    BY <1>3, <1>6 DEF OneUnsaved
  <1>8. \A j \in DOMAIN M : BP!Visible(pool', M[j].key) = IF j \in U THEN v ELSE M[j].value
    BY <1>1, <1>4, <1>5 DEF BP!Distinct
  <1>9. ASSUME NEW p \in Numbering' PROVE p \in Paired(M, U, v)
    <2>1. PICK k \in Key : p \in Value \X Nat /\ At(p[2], k)' /\ Seen(k)' = p[1]
      BY <1>9 DEF Numbering
    <2>2. p[2] \in Nat /\ p[1] \in Value /\ p = <<p[1], p[2]>> /\ p[2] + 1 - 1 = p[2]
      BY <2>1
    <2>3. p[2] + 1 \in DOMAIN M /\ M[p[2] + 1].key = k
      BY <1>2, <1>3, <1>6, <2>1, <2>2, NoRowAssumption
    <2>4. p[1] = IF p[2] + 1 \in U THEN v ELSE M[p[2] + 1].value
      BY <1>6, <1>8, <2>1, <2>3
    <2> QED BY <2>2, <2>3, <2>4 DEF Paired
  <1>10. ASSUME NEW p \in Paired(M, U, v) PROVE p \in Numbering'
    <2>1. PICK j \in DOMAIN M : p = <<IF j \in U THEN v ELSE M[j].value, j - 1>>
      BY <1>10 DEF Paired
    <2>2. p = <<BP!Visible(pool', M[j].key), j - 1>> /\ BP!Visible(pool', M[j].key) \in Value /\ M[j].key \in Key /\ (\A k : k = M[j].key => At(j - 1, k)') /\ j - 1 \in Nat
      BY <1>2, <1>3, <1>5, <1>8, <2>1
    <2>3. p \in Value \X Nat /\ p[1] = BP!Visible(pool', M[j].key) /\ p[2] = j - 1
      BY <2>2
    <2>4. \E k \in Key : At(p[2], k)' /\ Seen(k)' = p[1]
      BY <1>6, <2>2, <2>3
    <2> QED BY <2>3, <2>4 DEF Numbering
  <1> QED BY <1>7, <1>9, <1>10 DEF M

\* and a deletion takes numbers out.
LEMMA NumbersAfterDelete ==
  ASSUME FileInv, Plain, file' = file, Leaving = {}, OneUnsaved, NEW U, U \subseteq DOMAIN MergedRows,
         \A k \in Key : Seen(k)' = IF \E j \in U : MergedRows[j].key = k THEN NoRow ELSE Seen(k)
  PROVE  OneUnsaved' /\ Numbering' = Kept(MergedRows, U)
  <1> DEFINE M == MergedRows
  <1>1. /\ M \in Seq(Rows) /\ BP!Distinct(M)
        /\ \A r \in ToSet(M) : r.key \in Key /\ Seen(r.key) # NoRow /\ Seen(r.key) = r.value
    BY MergedRowsAre
  <1>2. /\ \A j \in DOMAIN M : j - 1 \in Nat /\ At(j - 1, M[j].key)
        /\ \A i \in Nat, k \in Key : At(i, k) /\ Seen(k) # NoRow => i + 1 \in DOMAIN M /\ M[i + 1].key = k
    BY Places
  <1>3. KeysOf(Scanned(file))' = KeysOf(Scanned(file)) /\ \A i, k : At(i, k)' <=> At(i, k)
    BY SamePlaces
  <1>4. /\ U \subseteq DOMAIN M
        /\ \A k \in Key : BP!Visible(pool', k) = IF \E j \in U : M[j].key = k THEN NoRow ELSE Seen(k)
    BY DEF Seen
  <1> HIDE DEF M
  <1>5. \A j \in DOMAIN M : M[j].key \in Key /\ Seen(M[j].key) # NoRow /\ Seen(M[j].key) = M[j].value /\ M[j].value \in Value
    <2>1. \A j \in DOMAIN M : M[j] \in ToSet(M) /\ M[j] \in Rows
      BY <1>1 DEF ToSet
    <2> QED BY <1>1, <2>1 DEF Rows
  <1>6. \A k \in Key : BP!Visible(pool', k) = Seen(k)' /\ (Seen(k)' # NoRow => Seen(k)' = Seen(k))
    BY <1>4 DEF Seen
  <1>7. OneUnsaved'
    BY <1>3, <1>6 DEF OneUnsaved
  <1>8. \A j \in DOMAIN M : BP!Visible(pool', M[j].key) = IF j \in U THEN NoRow ELSE M[j].value
    BY <1>1, <1>4, <1>5 DEF BP!Distinct
  <1>9. ASSUME NEW p \in Numbering' PROVE p \in Kept(M, U)
    <2>1. PICK k \in Key : p \in Value \X Nat /\ At(p[2], k)' /\ Seen(k)' = p[1]
      BY <1>9 DEF Numbering
    <2>2. p[2] \in Nat /\ p[1] \in Value /\ p = <<p[1], p[2]>> /\ p[2] + 1 - 1 = p[2] /\ p[1] # NoRow
      BY <2>1, NoRowAssumption
    <2>3. p[2] + 1 \in DOMAIN M /\ M[p[2] + 1].key = k
      BY <1>2, <1>3, <1>6, <2>1, <2>2
    <2>4. p[2] + 1 \notin U /\ M[p[2] + 1].value = p[1]
      BY <1>6, <1>8, <2>1, <2>2, <2>3
    <2> QED BY <2>2, <2>3, <2>4 DEF Kept
  <1>10. ASSUME NEW p \in Kept(M, U) PROVE p \in Numbering'
    <2>1. PICK j \in DOMAIN M \ U : p = <<M[j].value, j - 1>>
      BY <1>10 DEF Kept
    <2>2. p = <<BP!Visible(pool', M[j].key), j - 1>> /\ BP!Visible(pool', M[j].key) \in Value /\ M[j].key \in Key /\ (\A k : k = M[j].key => At(j - 1, k)') /\ j - 1 \in Nat
      BY <1>2, <1>3, <1>5, <1>8, <2>1
    <2>3. p \in Value \X Nat /\ p[1] = BP!Visible(pool', M[j].key) /\ p[2] = j - 1
      BY <2>2
    <2>4. \E k \in Key : At(p[2], k)' /\ Seen(k)' = p[1]
      BY <1>6, <2>2, <2>3
    <2> QED BY <2>3, <2>4 DEF Numbering
  <1> QED BY <1>7, <1>9, <1>10 DEF M

\* The rows a flush writes get the numbers they had.
LEMMA NumbersAfterFlush ==
  ASSUME FileInv, Leaving = {}, OneUnsaved, Scanned(file)' = Filled(Saved), \A k \in Key : Seen(k)' = Seen(k)
  PROVE  OneUnsaved' /\ Numbering' = Numbering
  <1> DEFINE F == Scanned(file)
             G == Filled(Saved)
             n == Len(F)
  <1>1. /\ BP!Roomy(pool) /\ FromDisk(F) /\ \A k \in Key : k \in KeysOf(F) <=> pool.disk[k] # NoRow
    BY DEF FileInv
  <1>2. \A r \in ToSet(F) : Seen(r.key) # NoRow
    <2>1. \A r \in ToSet(F) : r.key \in KeysOf(F)
      BY DEF KeysOf
    <2> QED BY <2>1, InAndOut
  <1>3. /\ G \in Seq(Rows) /\ BP!Distinct(G) /\ ToSet(G) = ShownOf(Stored, Key) /\ Extends(G, F)
    BY <1>1, <1>2, SavedShows
  <1>v. \A k \in Key : Stored[k] = NoRow <=> Seen(k) = NoRow
    BY <1>1, Views
  <1>4. F \in Seq(Rows) /\ DOMAIN F = 1 .. n /\ n \in Nat /\ DOMAIN G = 1 .. Len(G) /\ Len(G) \in Nat
    BY <1>1, <1>3 DEF FromDisk
  <1>5. /\ \A k, l \in Key \ KeysOf(F) : Seen(k) # NoRow /\ Seen(l) # NoRow => k = l
        /\ KeysOf(F) \subseteq Key
    BY InAndOut DEF OneUnsaved
  <1>6. \A i, k : At(i, k) <=> (i + 1 \in DOMAIN F /\ F[i + 1].key = k) \/ (i = n /\ k \notin KeysOf(F))
    BY DEF At
  <1>7. \A i, k : At(i, k)' <=> (i + 1 \in DOMAIN G /\ G[i + 1].key = k) \/ (i = Len(G) /\ k \notin KeysOf(G))
    <2>1. KeysOf(Scanned(file))' = KeysOf(G)
      BY DEF KeysOf
    <2> QED BY <2>1 DEF At
  <1>8. /\ \A i \in DOMAIN F : i \in DOMAIN G /\ G[i].key = F[i].key
        /\ \A i \in DOMAIN G : i \notin DOMAIN F => G[i].key \notin KeysOf(F)
    BY <1>3 DEF Extends
  <1>9. OneUnsaved' <=> \A k, l \in Key \ KeysOf(G) : Seen(k) # NoRow /\ Seen(l) # NoRow => k = l
    BY DEF OneUnsaved, KeysOf
  <1> HIDE DEF F, G, n
  <1>10. \A k \in Key : k \in KeysOf(G) <=> Seen(k) # NoRow
    <2>1. \A x \in ShownOf(Stored, Key) : x.key \in Key /\ Seen(x.key) # NoRow
      BY <1>v DEF ShownOf
    <2>2. ASSUME NEW k \in Key, Seen(k) # NoRow PROVE k \in KeysOf(G)
      <3>1. [key |-> k, value |-> Stored[k]] \in ShownOf(Stored, Key) /\ [key |-> k, value |-> Stored[k]].key = k
        BY <1>v, <2>2 DEF ShownOf
      <3> QED BY <1>3, <3>1, Zenon DEF KeysOf
    <2> QED BY <1>3, <2>1, <2>2 DEF KeysOf
  <1>11. \A i \in DOMAIN G : G[i].key \in Key /\ Seen(G[i].key) # NoRow
    BY <1>3, <1>v DEF ShownOf, ToSet
  <1>12. OneUnsaved'
    BY <1>9, <1>10
  <1>13. ASSUME NEW j \in DOMAIN G, j \notin DOMAIN F PROVE j = n + 1
    <2>1. n + 1 \in DOMAIN G /\ n + 1 \notin DOMAIN F
      BY <1>4, <1>13
    <2>2. G[j].key = G[n + 1].key
      BY <1>5, <1>8, <1>11, <1>13, <2>1
    <2> QED BY <1>3, <2>1, <2>2 DEF BP!Distinct
  <1>14. ASSUME NEW i \in Nat, NEW k \in Key, Seen(k) # NoRow
         PROVE  At(i, k)' <=> At(i, k)
    <2>1. k \in KeysOf(G)
      BY <1>10, <1>14
    <2>2. CASE k \in KeysOf(F)
      <3>1. At(i, k) => At(i, k)'
        BY <1>6, <1>7, <1>8, <2>2
      <3>2. ASSUME At(i, k)' PROVE At(i, k)
        <4>1. i + 1 \in DOMAIN G /\ G[i + 1].key = k
          BY <1>7, <2>1, <3>2
        <4>2. i + 1 \in DOMAIN F
          BY <1>8, <2>2, <4>1
        <4> QED BY <1>6, <1>8, <4>1, <4>2
      <3> QED BY <3>1, <3>2
    <2>3. CASE k \notin KeysOf(F)
      <3>1. \A x \in DOMAIN F : F[x].key # k
        BY <2>3 DEF KeysOf, ToSet
      <3>2. PICK j \in DOMAIN G : G[j].key = k
        BY <2>1 DEF KeysOf, ToSet
      <3>3. j \notin DOMAIN F
        BY <1>8, <3>1, <3>2
      <3>4. j = n + 1
        BY <1>13, <3>3
      <3>5. At(i, k) <=> i = n
        BY <1>6, <2>3, <3>1
      <3>6. At(i, k)' => i + 1 = n + 1
        BY <1>3, <1>7, <2>1, <3>2, <3>4 DEF BP!Distinct
      <3>7. i = n => At(i, k)'
        BY <1>7, <3>2, <3>4
      <3> QED BY <1>4, <3>5, <3>6, <3>7
    <2> QED BY <2>2, <2>3
  <1>15. Numbering' = Numbering
    <2>1. ASSUME NEW p \in Value \X Nat
          PROVE  (\E k \in Key : At(p[2], k)' /\ Seen(k)' = p[1]) <=> (\E k \in Key : At(p[2], k) /\ Seen(k) = p[1])
      <3>1. p[1] # NoRow /\ p[2] \in Nat
        BY NoRowAssumption
      <3> QED BY <1>14, <3>1
    <2> QED BY <2>1 DEF Numbering
  <1> QED BY <1>12, <1>15

--------------------------------------------------------------------------------
(* Each step keeps the invariant.                                           *)

\* write_block without conditions.
LEMMA InsertKeeps ==
  ASSUME FileInv, HashInv, NEW k \in Key, NEW v \in Value, Insert(k, v)
  PROVE  FileInv' /\ HashInv'
  <1> DEFINE n == Len(Scanned(file))
             i == Entered(Indexed, v, n)
             ok == Unsaved = {} /\ k \notin B!Keys(pool)
  <1>1. /\ k \notin KeysOf(Scanned(file)) /\ writes < MaxWrites /\ writes' = writes + 1
        /\ pool' = B!Written(pool, k, v) /\ hash' = i.hash
        /\ exact' = (IF ok THEN exact ELSE {}) /\ file' = file
    BY DEF Insert, Statement, KeysOf
  <1>2. BP!Roomy(pool) /\ FromDisk(Scanned(file)) /\ (hash # NoFile => HashFile(hash)) /\ writes \in 0 .. MaxWrites
    BY DEF FileInv
  <1>3. n \in Nat
    BY <1>2 DEF FromDisk
  <1>4. pool' = BP!Written(pool, k, v)
    BY <1>1, SameOperations
  <1>5. /\ BP!Roomy(pool') /\ pool'.disk = pool.disk
        /\ k \notin B!Keys(pool) => BP!Visible(pool', k) = v
        /\ \A l \in Key \ {k} : BP!Visible(pool', l) = BP!Visible(pool, l)
    BY <1>2, <1>4, NoRowAssumption, SamePool, BP!WrittenRoomy
  <1>6. writes' \in 0 .. MaxWrites
    BY <1>1, <1>2, BoundAssumption
  <1>7. hash' = IF hash = NoFile THEN NoFile ELSE HashInsert(hash, v, n)
    BY <1>1 DEF Indexed, Entered
  <1>8. hash # NoFile =>
          /\ HashFile(HashInsert(hash, v, n))
          /\ \A R : HashMeans(hash, R) /\ <<v, n>> \notin R => HashMeans(HashInsert(hash, v, n), R \cup {<<v, n>>})
    BY <1>2, <1>3, HashInsertMeans
  <1>9. FileInv'
    BY <1>1, <1>5, <1>6, <1>7, <1>8, FileKept
  <1>10. ASSUME Plain, hash' # NoFile, "hash" \in exact'
         PROVE  OneUnsaved' /\ HashMeans(hash', Numbering')
    <2>1. ok /\ "hash" \in exact /\ hash # NoFile
      BY <1>1, <1>7, <1>10
    <2>2. \A l \in Key : Seen(l)' = IF l = k THEN v ELSE Seen(l)
      BY <1>5, <2>1 DEF Seen
    <2>3. /\ OneUnsaved' /\ <<v, n>> \notin Numbering /\ Numbering' = Numbering \cup {<<v, n>>}
      BY <1>1, <2>1, <2>2, NumbersAfterInsert
    <2>4. HashMeans(hash, Numbering)
      BY <1>10, <2>1 DEF HashInv
    <2> QED BY <1>7, <1>8, <2>1, <2>3, <2>4
  <1>11. HashInv'
    BY <1>10 DEF HashInv, HashMeans
  <1> QED BY <1>9, <1>11

\* A choice of places of rows.
LEMMA ChosenPlaces ==
  ASSUME NEW rows \in Seq(Rows), NEW c
  PROVE  Chosen(rows, c) \in Seq(DOMAIN rows) /\ Once(Chosen(rows, c))
  <1> DEFINE all == [i \in DOMAIN rows |-> i]
  <1>1. all \in Seq(DOMAIN rows) /\ Once(all)
    <2>1. DOMAIN rows = 1 .. Len(rows) /\ Len(rows) \in Nat
      BY SMTT(30)
    <2>2. all \in Seq(DOMAIN rows)
      BY <2>1, SMTT(30)
    <2> QED BY <2>2 DEF Once
  <1>2. Chosen(rows, c) = B!Only(all, {i \in DOMAIN rows : Matches(rows[i], c)})
    BY DEF Chosen
  <1> HIDE DEF all
  <1> QED BY <1>1, <1>2, Selection, OnlyOnce

\* write_block with conditions.
LEMMA UpdateKeeps ==
  ASSUME FileInv, HashInv, NEW c, NEW v \in Value, Update(c, v)
  PROVE  FileInv' /\ HashInv'
  <1> DEFINE rows == MergedRows
             u == Chosen(rows, c)
             s == FoldLeft(LAMBDA x, i : Rewritten(rows[i], i - 1, v, x), [pool |-> pool, indexed |-> Indexed], u)
  <1>1. /\ writes < MaxWrites /\ writes' = writes + 1
        /\ pool' = s.pool /\ hash' = s.indexed.hash
        /\ exact' = (IF Leaving = {} THEN exact ELSE {}) /\ file' = file
    BY DEF Update, Statement
  <1>2. s = UF!Fold([rows |-> rows, to |-> v], [pool |-> pool, indexed |-> Indexed], u)
    BY FoldsOfStatements
  <1>3. BP!Roomy(pool) /\ (hash # NoFile => HashFile(hash)) /\ writes \in 0 .. MaxWrites
    BY DEF FileInv
  <1>4. /\ rows \in Seq(Rows) /\ \A r \in ToSet(rows) : Seen(r.key) # NoRow
    BY MergedRowsAre
  <1>5. u \in Seq(DOMAIN rows) /\ Once(u)
    BY <1>4, ChosenPlaces
  <1>6. Indexed.hash = hash
    BY DEF Indexed
  <1> HIDE DEF s, u, rows
  <1>7. /\ BP!Roomy(s.pool) /\ s.pool.disk = pool.disk
        /\ \A k \in Key : BP!Visible(s.pool, k) = IF \E j \in ToSet(u) : rows[j].key = k THEN v ELSE Seen(k)
    BY <1>2, <1>3, <1>4, <1>5, PoolRewritten
  <1>8. s.indexed.hash # NoFile =>
          /\ hash # NoFile /\ HashFile(s.indexed.hash)
          /\ HashMeans(hash, Paired(rows, {}, v)) /\ Once(u) => HashMeans(s.indexed.hash, Paired(rows, ToSet(u), v))
    <2>1. Indexed.hash # NoFile => HashFile(Indexed.hash)
      BY <1>3, <1>6
    <2> QED BY <1>2, <1>4, <1>5, <1>6, <2>1, HashRewritten
  <1>9. writes' \in 0 .. MaxWrites
    BY <1>1, <1>3, BoundAssumption
  <1>10. FileInv'
    BY <1>1, <1>7, <1>8, <1>9, FileKept
  <1>11. ASSUME Plain, hash' # NoFile, "hash" \in exact'
         PROVE  OneUnsaved' /\ HashMeans(hash', Numbering')
    <2>1. Leaving = {} /\ "hash" \in exact /\ hash # NoFile
      BY <1>1, <1>8, <1>11
    <2>2. OneUnsaved /\ HashMeans(hash, Numbering)
      BY <1>11, <2>1 DEF HashInv
    <2>3. Numbering = Kept(rows, {})
      BY <1>11, <2>1, <2>2, Places DEF rows
    <2>4. Kept(rows, {}) = Paired(rows, {}, v)
      BY DEF Kept, Paired
    <2>5. ToSet(u) \subseteq DOMAIN rows
      BY <1>5 DEF ToSet
    <2>6. \A k \in Key : Seen(k)' = IF \E j \in ToSet(u) : rows[j].key = k THEN v ELSE Seen(k)
      BY <1>1, <1>7 DEF Seen
    <2>7. OneUnsaved' /\ Numbering' = Paired(rows, ToSet(u), v)
      BY <1>1, <2>1, <2>2, <2>5, <2>6, NumbersAfterUpdate, <1>11 DEF rows
    <2>8. HashMeans(s.indexed.hash, Paired(rows, ToSet(u), v))
      BY <1>1, <1>5, <1>8, <1>11, <2>2, <2>3, <2>4
    <2> QED BY <1>1, <2>7, <2>8
  <1>12. HashInv'
    BY <1>11 DEF HashInv, HashMeans
  <1> QED BY <1>10, <1>12

\* delete_block.
LEMMA DeleteKeeps ==
  ASSUME FileInv, HashInv, NEW c, Delete(c)
  PROVE  FileInv' /\ HashInv'
  <1> DEFINE rows == MergedRows
             u == Chosen(rows, c)
             p == FoldLeft(LAMBDA x, i : B!Deleted(x, rows[i].key), pool, u)
             s == FoldLeft(LAMBDA x, i : Removed(x, rows[i].value, i - 1), Indexed, u)
  <1>1. /\ writes < MaxWrites /\ writes' = writes + 1
        /\ pool' = p /\ hash' = s.hash
        /\ exact' = (IF Leaving = {} THEN exact ELSE {}) /\ file' = file
    BY DEF Delete, Statement
  <1>2. p = DF!Fold(rows, pool, u) /\ s = RF!Fold(rows, Indexed, u)
    BY FoldsOfStatements
  <1>3. BP!Roomy(pool) /\ (hash # NoFile => HashFile(hash)) /\ writes \in 0 .. MaxWrites
    BY DEF FileInv
  <1>4. /\ rows \in Seq(Rows) /\ BP!Distinct(rows) /\ \A r \in ToSet(rows) : Seen(r.key) # NoRow
    BY MergedRowsAre
  <1>5. u \in Seq(DOMAIN rows) /\ Once(u)
    BY <1>4, ChosenPlaces
  <1>6. Indexed.hash = hash
    BY DEF Indexed
  <1> HIDE DEF p, s, u, rows
  <1>7. /\ BP!Roomy(p) /\ p.disk = pool.disk
        /\ \A k \in Key : BP!Visible(p, k) = IF \E j \in ToSet(u) : rows[j].key = k THEN NoRow ELSE Seen(k)
    BY <1>2, <1>3, <1>4, <1>5, PoolDeleted
  <1>8. s.hash # NoFile =>
          /\ hash # NoFile /\ HashFile(s.hash)
          /\ HashMeans(hash, Kept(rows, {})) /\ Once(u) => HashMeans(s.hash, Kept(rows, ToSet(u)))
    <2>1. Indexed.hash # NoFile => HashFile(Indexed.hash)
      BY <1>3, <1>6
    <2> QED BY <1>2, <1>4, <1>5, <1>6, <2>1, HashRemoved
  <1>9. writes' \in 0 .. MaxWrites
    BY <1>1, <1>3, BoundAssumption
  <1>10. FileInv'
    BY <1>1, <1>7, <1>8, <1>9, FileKept
  <1>11. ASSUME Plain, hash' # NoFile, "hash" \in exact'
         PROVE  OneUnsaved' /\ HashMeans(hash', Numbering')
    <2>1. Leaving = {} /\ "hash" \in exact /\ hash # NoFile
      BY <1>1, <1>8, <1>11
    <2>2. OneUnsaved /\ HashMeans(hash, Numbering)
      BY <1>11, <2>1 DEF HashInv
    <2>3. Numbering = Kept(rows, {})
      BY <1>11, <2>1, <2>2, Places DEF rows
    <2>5. ToSet(u) \subseteq DOMAIN rows
      BY <1>5 DEF ToSet
    <2>6. \A k \in Key : Seen(k)' = IF \E j \in ToSet(u) : rows[j].key = k THEN NoRow ELSE Seen(k)
      BY <1>1, <1>7 DEF Seen
    <2>7. OneUnsaved' /\ Numbering' = Kept(rows, ToSet(u))
      BY <1>1, <2>1, <2>2, <2>5, <2>6, NumbersAfterDelete, <1>11 DEF rows
    <2>8. HashMeans(s.hash, Kept(rows, ToSet(u)))
      BY <1>1, <1>5, <1>8, <1>11, <2>2, <2>3
    <2> QED BY <1>1, <2>7, <2>8
  <1>12. HashInv'
    BY <1>11 DEF HashInv, HashMeans
  <1> QED BY <1>10, <1>12

\* save_buffer_to_disk: the file is laid out anew, and read back it is what the store takes it to be.
LEMMA FlushKeeps ==
  ASSUME FileInv, HashInv, Flush
  PROVE  FileInv' /\ HashInv'
  <1> DEFINE dirty == \E b \in ToSet(pool.buffer) : b.is_dirty
             G == Filled(Saved)
             F == Scanned(file)
  <1>1. /\ pool' = B!Flushed(pool) /\ file' = (IF dirty THEN Blocks(G) ELSE file)
        /\ exact' = (IF Leaving = {} THEN exact ELSE {}) /\ hash' = hash /\ writes' = writes
    BY DEF Flush, Serialized
  <1>2. BP!Roomy(pool) /\ (hash # NoFile => HashFile(hash)) /\ writes \in 0 .. MaxWrites
        /\ FromDisk(F) /\ \A k \in Key : k \in KeysOf(F) <=> pool.disk[k] # NoRow
    BY DEF FileInv
  <1>3. pool' = BP!Flushed(pool)
    BY <1>1, SameOperations
  <1>4. /\ BP!Roomy(pool')
        /\ \A k \in Key : pool'.disk[k] = Seen(k) /\ BP!Visible(pool', k) = Seen(k)
    BY <1>2, <1>3, NoRowAssumption, BP!FlushedRoomy DEF Seen
  <1>v. \A k \in Key : /\ Stored[k] = NoRow <=> Seen(k) = NoRow
                       /\ Seen(k) # NoRow => Stored[k] = Padded[Seen(k)] /\ Seen(k) \in Value
    BY <1>2, Views, PoolRows
  <1>5. \A k \in Key : Seen(k)' = Seen(k)
    BY <1>4 DEF Seen
  <1>6. CASE ~dirty
    <2>1. file' = file
      BY <1>1, <1>6
    <2>2. \A b \in BP!ToSet(pool.buffer) : ~b.is_dirty
      BY <1>6, SameSet
    <2>3. pool'.disk = pool.disk
      BY <1>3, <1>2, <2>2 DEF BP!Flushed, BP!Roomy, BP!Good, BP!Store
    <2>4. FileInv'
      BY <1>1, <1>2, <1>4, <2>1, <2>3, FileKept
    <2>5. Numbering' = Numbering /\ (OneUnsaved => OneUnsaved')
      BY <1>5, <2>1, NumbersKept
    <2>6. "hash" \in exact' => "hash" \in exact
      BY <1>1
    <2>7. HashInv'
      BY <1>1, <2>5, <2>6 DEF HashInv, HashMeans
    <2> QED BY <2>4, <2>7
  <1>7. CASE dirty
    <2>1. G \in Seq(Rows) /\ BP!Distinct(G) /\ ToSet(G) = ShownOf(Stored, Key)
      BY <1>2, SavedShows
    <2> HIDE DEF G
    <2>2. Scanned(file') = G /\ Scanned(file)' = G /\ file' = Blocks(G)
      <3>1. Scanned(Blocks(G)) = G
        BY <2>1, RoundTrip
      <3>2. Scanned(file)' = Scanned(file')
        BY DEF Scanned, Block
      <3> QED BY <1>1, <1>7, <3>1, <3>2
    <2>3. \A r \in ToSet(G) : r.key \in Key /\ Seen(r.key) # NoRow /\ r.value = Padded[Seen(r.key)] /\ Seen(r.key) \in Value
      BY <1>v, <2>1 DEF ShownOf
    <2>4. \A k \in Key : k \in KeysOf(G) <=> Seen(k) # NoRow
      <3>1. ASSUME NEW k \in Key, Seen(k) # NoRow PROVE k \in KeysOf(G)
        <4>1. [key |-> k, value |-> Stored[k]] \in ShownOf(Stored, Key) /\ [key |-> k, value |-> Stored[k]].key = k
          BY <1>v, <3>1 DEF ShownOf
        <4> QED BY <2>1, <4>1, Zenon DEF KeysOf
      <3> QED BY <2>3, <3>1 DEF KeysOf
    <2>5. \A r \in ToSet(G) : pool'.disk[r.key] \in Value /\ r.value = Padded[pool'.disk[r.key]]
      BY <1>4, <2>3
    <2>6. \A k \in Key : k \in KeysOf(G) <=> pool'.disk[k] # NoRow
      BY <1>4, <2>4
    <2>7. FileInv'
      BY <1>1, <1>2, <1>4, <2>1, <2>2, <2>5, <2>6 DEF FileInv, FromDisk, KeysOf
    <2>8. ASSUME Plain, hash # NoFile, "hash" \in exact'
          PROVE  OneUnsaved' /\ HashMeans(hash, Numbering')
      <3>1. Leaving = {} /\ "hash" \in exact
        BY <1>1, <2>8
      <3>2. OneUnsaved /\ HashMeans(hash, Numbering)
        BY <2>8, <3>1 DEF HashInv
      <3> QED BY <1>5, <2>2, <3>1, <3>2, NumbersAfterFlush DEF G
    <2>9. HashInv'
      BY <1>1, <2>8 DEF HashInv, HashMeans
    <2> QED BY <2>7, <2>9
  <1> QED BY <1>6, <1>7

\* While no buffered row is dirty, the rows seen are those of the file.
LEMMA CleanNumbers ==
  ASSUME FileInv, Plain, \A b \in ToSet(pool.buffer) : ~b.is_dirty
  PROVE  OneUnsaved /\ Numbering = Kept(Scanned(file), {})
  <1> DEFINE F == Scanned(file)
  <1>1. /\ \A b \in ToSet(pool.buffer) : pool.disk[b.key] = Seen(b.key)
        /\ \A k \in Key \ B!Keys(pool) : Seen(k) = pool.disk[k]
        /\ \A k \in B!Keys(pool) : \E b \in ToSet(pool.buffer) : b.key = k
    BY PoolRows DEF FileInv
  <1>2. F \in Seq(Rows) /\ (\A r \in ToSet(F) : pool.disk[r.key] = r.value)
        /\ \A k \in Key : k \in KeysOf(F) <=> pool.disk[k] # NoRow
    <2>1. /\ F \in Seq(Rows) /\ (\A r \in ToSet(F) : pool.disk[r.key] \in Value /\ r.value = Padded[pool.disk[r.key]])
          /\ \A k \in Key : k \in KeysOf(F) <=> pool.disk[k] # NoRow
      BY DEF FileInv, FromDisk
    <2>2. \A v \in Value : Padded[v] = v
      BY DEF Plain
    <2> HIDE DEF F
    <2> QED BY <2>1, <2>2
  <1>3. \A k \in Key : Seen(k) = pool.disk[k]
    BY <1>1
  <1>4. OneUnsaved
    BY <1>2, <1>3 DEF OneUnsaved
  <1>5. \A i, k : At(i, k) <=> (i + 1 \in DOMAIN F /\ F[i + 1].key = k) \/ (i = Len(F) /\ k \notin KeysOf(F))
    BY DEF At
  <1> HIDE DEF F
  <1>6. \A j \in DOMAIN F : /\ j - 1 \in Nat /\ j - 1 + 1 = j /\ F[j].key \in Key /\ F[j].value \in Value
                            /\ pool.disk[F[j].key] = F[j].value
    <2>1. \A j \in DOMAIN F : j \in Nat /\ j >= 1 /\ F[j] \in Rows
      BY <1>2
    <2>2. \A j \in DOMAIN F : F[j] \in ToSet(F)
      BY DEF ToSet
    <2>3. \A j \in DOMAIN F : j - 1 \in Nat /\ j - 1 + 1 = j
      BY <2>1
    <2> QED BY <1>2, <2>1, <2>2, <2>3 DEF Rows
  <1>7. ASSUME NEW p \in Numbering PROVE p \in Kept(F, {})
    <2>1. PICK k \in Key : p \in Value \X Nat /\ At(p[2], k) /\ Seen(k) = p[1]
      BY DEF Numbering
    <2>2. p[2] \in Nat /\ p[1] \in Value /\ p = <<p[1], p[2]>> /\ p[2] + 1 - 1 = p[2] /\ p[1] # NoRow
      BY <2>1, NoRowAssumption
    <2>3. p[2] + 1 \in DOMAIN F /\ F[p[2] + 1].key = k
      BY <1>2, <1>3, <1>5, <2>1, <2>2
    <2>4. F[p[2] + 1].value = p[1]
      BY <1>3, <1>6, <2>1, <2>3
    <2> QED BY <2>2, <2>3, <2>4 DEF Kept
  <1>8. ASSUME NEW p \in Kept(F, {}) PROVE p \in Numbering
    <2>1. PICK j \in DOMAIN F : p = <<F[j].value, j - 1>>
      BY DEF Kept
    <2>2. At(j - 1, F[j].key) /\ Seen(F[j].key) = F[j].value
      BY <1>3, <1>5, <1>6
    <2>3. p \in Value \X Nat /\ p[1] = F[j].value /\ p[2] = j - 1
      BY <1>6, <2>1
    <2> QED BY <1>6, <2>2, <2>3 DEF Numbering
  <1> QED BY <1>4, <1>7, <1>8 DEF F

\* set_index and the removal of an index file.
LEMMA ReplaceKeeps ==
  ASSUME FileInv, HashInv, NEW x \in Kinds, NEW f, Replace(x, f), f \in {NoFile, Built(x)}
  PROVE  FileInv' /\ HashInv'
  <1> DEFINE F == Scanned(file)
  <1>1. /\ hash' = (IF x = "hash" THEN f ELSE hash) /\ file' = file /\ pool' = pool /\ writes' = writes
        /\ exact' = (IF \A b \in ToSet(pool.buffer) : ~b.is_dirty THEN exact \cup {x} ELSE exact \ {x})
    BY DEF Replace
  <1>2. BP!Roomy(pool) /\ (hash # NoFile => HashFile(hash)) /\ writes \in 0 .. MaxWrites /\ F \in Seq(Rows)
    BY DEF FileInv, FromDisk
  <1>3. Numbering' = Numbering /\ (OneUnsaved => OneUnsaved')
    <2>1. \A k \in Key : Seen(k)' = Seen(k)
      BY <1>1 DEF Seen
    <2> QED BY <1>1, <2>1, NumbersKept
  <1>4. ASSUME x = "hash", f # NoFile
        PROVE  HashFile(f) /\ HashMeans(f, Kept(F, {}))
    <2>1. f = Built("hash")
      BY <1>4
    <2>2. f = HF!Fold(F, <<>>, [j \in DOMAIN F |-> j])
      BY <2>1, FoldsOfStatements DEF Built
    <2> HIDE DEF F
    <2> QED BY <1>2, <2>2, HashBuilt
  <1>5. FileInv'
    BY <1>1, <1>2, <1>4, FileKept
  <1>6. ASSUME Plain, hash' # NoFile, "hash" \in exact'
        PROVE  OneUnsaved' /\ HashMeans(hash', Numbering)
    <2>1. CASE x = "hash"
      <3>1. \A b \in ToSet(pool.buffer) : ~b.is_dirty
        BY <1>1, <1>6, <2>1
      <3>2. OneUnsaved /\ Numbering = Kept(F, {})
        BY <1>6, <3>1, CleanNumbers
      <3> QED BY <1>1, <1>3, <1>4, <1>6, <2>1, <3>2
    <2>2. CASE x # "hash"
      <3>1. "hash" \in exact /\ hash' = hash
        BY <1>1, <1>6, <2>2
      <3> QED BY <1>3, <1>6, <3>1 DEF HashInv
    <2> QED BY <2>1, <2>2
  <1>7. HashInv'
    BY <1>3, <1>6 DEF HashInv, HashMeans
  <1> QED BY <1>5, <1>7

\* A table file as it was written, nothing buffered and no index.
LEMMA InitKeeps ==
  ASSUME Init
  PROVE  FileInv /\ HashInv
  <1>1. PICK rows \in Tables :
          /\ file = Serialized(rows)
          /\ pool = [capacity |-> Cardinality(Key) + 1,
                  disk |-> [k \in Key |->
                              IF \E r \in ToSet(rows) : r.key = k
                                THEN (CHOOSE r \in ToSet(rows) : r.key = k).value ELSE NoRow],
                  buffer |-> <<>>]
    BY DEF Init
  <1>2. hash = NoFile /\ writes = 0 /\ exact = {}
    BY DEF Init
  <1>3. rows \in Seq(Rows) /\ BP!Distinct(rows)
    BY TablesAssumption DEF Rows, BP!Distinct
  <1> DEFINE F == Filled(rows)
  <1>f. /\ F \in Seq(Rows) /\ DOMAIN F = DOMAIN rows
        /\ \A i \in DOMAIN rows : F[i] = [key |-> rows[i].key, value |-> Padded[rows[i].value]]
    BY <1>3, FilledRows
  <1> HIDE DEF F
  <1>4. Scanned(file) = F /\ file = Blocks(F)
    <2>1. file = Blocks(F)
      BY <1>1 DEF Serialized, F
    <2> QED BY <1>f, <2>1, RoundTrip
  <1>r. /\ BP!Distinct(F) /\ KeysOf(F) = KeysOf(rows)
        /\ \A q \in ToSet(F) : \E r \in ToSet(rows) : q.key = r.key /\ q.value = Padded[r.value]
    BY <1>3, <1>f DEF BP!Distinct, KeysOf, ToSet
  <1>5. \A r \in ToSet(rows) : r \in Rows /\ r.key \in Key /\ r.value \in Value
    <2>1. \A i \in DOMAIN rows : rows[i] \in Rows
      BY <1>3
    <2> QED BY <2>1 DEF ToSet, Rows
  <1>6. \A r, q \in ToSet(rows) : r.key = q.key => r = q
    BY <1>3 DEF ToSet, BP!Distinct
  <1>7. /\ \A r \in ToSet(rows) : pool.disk[r.key] = r.value
        /\ \A k \in Key : k \in KeysOf(rows) <=> pool.disk[k] # NoRow
        /\ pool.disk \in [Key -> Value \cup {NoRow}]
    <2>1. \A k \in Key : pool.disk[k] = IF \E r \in ToSet(rows) : r.key = k
                                THEN (CHOOSE r \in ToSet(rows) : r.key = k).value ELSE NoRow
      BY <1>1
    <2>2. pool.disk = [k \in Key |-> pool.disk[k]]
      BY <1>1
    <2>3. ASSUME NEW k \in Key, NEW r \in ToSet(rows), r.key = k PROVE pool.disk[k] = r.value
      <3>1. (CHOOSE q \in ToSet(rows) : q.key = k) \in ToSet(rows) /\ (CHOOSE q \in ToSet(rows) : q.key = k).key = k
        BY <2>3
      <3>2. (CHOOSE q \in ToSet(rows) : q.key = k) = r
        BY <1>6, <2>3, <3>1
      <3> QED BY <2>1, <2>3, <3>2
    <2>4. \A k \in Key : k \notin KeysOf(rows) => pool.disk[k] = NoRow
      BY <2>1 DEF KeysOf
    <2>5. \A k \in Key : k \in KeysOf(rows) => pool.disk[k] \in Value
      BY <1>5, <2>3 DEF KeysOf
    <2> QED BY <1>5, <2>2, <2>3, <2>4, <2>5, NoRowAssumption
  <1>8. BP!Roomy(pool)
    <2>1. Cardinality(Key) \in Nat
      BY KeyAssumption, FS_CardinalityType
    <2>2. pool.capacity = Cardinality(Key) + 1 /\ pool.buffer = <<>> /\ BP!ToSet(<<>>) = {}
      BY <1>1 DEF BP!ToSet
    <2>3. pool \in BP!Store
      BY <1>1, <1>7, <2>1, <2>2 DEF BP!Store
    <2>4. BP!StoreOK(pool) /\ BP!CleanOnDisk(pool)
      BY <2>1, <2>2 DEF BP!StoreOK, BP!CleanOnDisk
    <2>5. pool.capacity > Cardinality(Key)
      BY <2>1, <2>2
    <2>6. BP!IsFiniteSet(Key) /\ BP!Cardinality(Key) = Cardinality(Key)
      <3>1. BP!IsFiniteSet(Key) <=> IsFiniteSet(Key)
        BY DEF BP!IsFiniteSet, IsFiniteSet
      <3>2. BP!Cardinality(Key) = Cardinality(Key)
        BY DEF BP!Cardinality, Cardinality
      <3> QED BY <3>1, <3>2, KeyAssumption
    <2> QED BY <2>2, <2>3, <2>4, <2>5, <2>6 DEF BP!Roomy, BP!Good
  <1>d. FromDisk(F)
    BY <1>5, <1>7, <1>f, <1>r DEF FromDisk
  <1>9. FileInv
    BY <1>2, <1>4, <1>7, <1>8, <1>d, <1>r, BoundAssumption DEF FileInv
  <1> QED BY <1>2, <1>9 DEF HashInv

\* All steps.
LEMMA StepKeeps ==
  ASSUME FileInv, HashInv, [Next]_vars
  PROVE  FileInv' /\ HashInv'
  <1>1. ASSUME NEW k \in Key, NEW v \in Value, Insert(k, v) PROVE FileInv' /\ HashInv'
    BY <1>1, InsertKeeps
  <1>2. ASSUME NEW c \in Condition, NEW v \in Value, Update(c, v) PROVE FileInv' /\ HashInv'
    BY <1>2, UpdateKeeps
  <1>3. ASSUME NEW c \in Condition, Delete(c) PROVE FileInv' /\ HashInv'
    BY <1>3, DeleteKeeps
  <1>4. CASE Flush
    BY <1>4, FlushKeeps
  <1>5. ASSUME NEW x \in Kinds, Create(x) \/ SetIndex(x) \/ Drop(x) PROVE FileInv' /\ HashInv'
    <2>1. PICK f \in {NoFile, Built(x)} : Replace(x, f)
      BY <1>5 DEF Create, SetIndex, Drop
    <2> QED BY <2>1, ReplaceKeeps
  <1>6. CASE UNCHANGED vars
    <2>1. file' = file /\ pool' = pool /\ hash' = hash /\ exact' = exact /\ writes' = writes
      BY <1>6 DEF vars
    <2>2. Numbering' = Numbering /\ (OneUnsaved => OneUnsaved')
      <3>1. \A k \in Key : Seen(k)' = Seen(k)
        BY <2>1 DEF Seen
      <3> QED BY <2>1, <3>1, NumbersKept
    <2>3. FileInv'
      BY <2>1, FileKept DEF FileInv
    <2>4. HashInv'
      BY <2>1, <2>2 DEF HashInv, HashMeans
    <2> QED BY <2>3, <2>4
  <1> QED BY <1>1, <1>2, <1>3, <1>4, <1>5, <1>6 DEF Next

\* The inductive invariant of the table file, the buffer pool and the hash index:
\* the file is laid out from the rows it is read back as, the pool takes these to
\* be on disk, and an index in step pairs each value seen with the place its row
\* has in the file or will have.
THEOREM IndexesInvariant == Spec => [](FileInv /\ HashInv)
  <1>1. Init => FileInv /\ HashInv
    BY InitKeeps
  <1>2. (FileInv /\ HashInv) /\ [Next]_vars => (FileInv /\ HashInv)'
    BY StepKeeps
  <1> QED BY <1>1, <1>2, PTL DEF Spec

\* Pool, file and hash index have the types that the storage engine relies on: no
\* key is buffered twice and no value is indexed without row numbers.
THEOREM IndexesTypeCorrect == Spec => []TypeOK
  <1>1. FileInv => TypeOK
    <2> SUFFICES ASSUME FileInv PROVE TypeOK
      OBVIOUS
    <2>1. BP!Roomy(pool) /\ Scanned(file) \in Seq(Rows) /\ writes \in 0 .. MaxWrites /\ (hash # NoFile => HashFile(hash))
      BY DEF FileInv, FromDisk
    <2>2. pool \in [capacity : Nat, disk : [Key -> Value \cup {NoRow}], buffer : Seq(B!BufferedRow)]
      BY <2>1, SamePool DEF BP!Roomy, BP!Good, BP!Store
    <2>3. B!StoreOK(pool)
      BY <2>1, SamePool DEF BP!Roomy, BP!Good
    <2>4. ToSet(Scanned(file)) \subseteq [key : Key, value : Value]
      <3> DEFINE F == Scanned(file)
      <3> HIDE DEF F
      <3>1. F \in Seq(Rows) => ToSet(F) \subseteq Rows
        BY DEF ToSet
      <3> QED BY <2>1, <3>1 DEF F, Rows
    <2> QED BY <2>1, <2>2, <2>3, <2>4 DEF TypeOK, HashFile
  <1> QED BY <1>1, IndexesInvariant, PTL

\* save_buffer_to_disk and the serializer lose nothing: whatever was written,
\* deleted and flushed, a scan of the file gives each key once, with the contents
\* that the buffer manager takes to be on disk.
THEOREM FileIsStore == Spec => []FileMatchesStore
  <1>1. FileInv => FileMatchesStore
    <2> SUFFICES ASSUME FileInv PROVE FileMatchesStore
      OBVIOUS
    <2> DEFINE F == Scanned(file)
    <2>1. F \in Seq(Rows) /\ BP!Distinct(F) /\ (\A r \in ToSet(F) : r.value = Padded[pool.disk[r.key]])
          /\ \A k \in Key : k \in KeysOf(F) <=> pool.disk[k] # NoRow
      BY DEF FileInv, FromDisk
    <2>2. KeysOf(F) \subseteq Key
      BY InAndOut
    <2>3. FileMatchesStore <=> /\ KeysOf(F) = {k \in Key : pool.disk[k] # NoRow}
                               /\ \A r \in ToSet(F) : r.value = Padded[pool.disk[r.key]]
                               /\ Cardinality(ToSet(F)) = Len(F)
      BY DEF FileMatchesStore, KeysOf
    <2> HIDE DEF F
    <2>4. Cardinality(ToSet(F)) = Len(F)
      <3>1. Once(F)
        BY <2>1 DEF Once, BP!Distinct
      <3> QED BY <2>1, <3>1, LengthOfOnce
    <2>5. KeysOf(F) = {k \in Key : pool.disk[k] # NoRow}
      BY <2>1, <2>2
    <2> QED BY <2>1, <2>3, <2>4, <2>5
  <1> QED BY <1>1, IndexesInvariant, PTL

\* A read through the hash index gives what a full scan gives, for every table,
\* every sequence of statements and every size of rows and blocks, as long as the
\* row numbers in the index are those of the file and both ways to read a row give
\* its text as it was written.
THEOREM HashAnswers == Spec => []HashScanAnswers
  <1>1. FileInv /\ HashInv => HashScanAnswers
    <2> SUFFICES ASSUME Plain, FileInv, HashInv, hash # NoFile, "hash" \in exact, NEW v \in Value
                 PROVE  SameRows(IndexScan(HashSearch(v), v, v), Answer(MergedRows, v, v))
      BY DEF HashScanAnswers
    <2> DEFINE found == HashSearch(v)
    <2>1. HashFile(hash) /\ HashMeans(hash, Numbering) /\ BP!Roomy(pool)
      BY DEF FileInv, HashInv
    <2>2. found \in Seq(Nat) /\ Once(found) /\ ToSet(found) = {i \in Nat : <<v, i>> \in Numbering}
      BY <2>1 DEF HashFile, HashMeans, HashSearch
    <2>3. \A i \in Nat : <<v, i>> \in Numbering <=> \E k \in Key : At(i, k) /\ Seen(k) = v
      BY DEF Numbering
    <2>4. \A k \in Key : Seen(k) = v <=> Seen(k) # NoRow /\ Within(Seen(k), v, v)
      <3>1. \A k \in Key : Seen(k) \in Value \cup {NoRow}
        BY <2>1, PoolRows
      <3>2. \A w \in Value : w = v <=> Within(w, v, v)
        BY ValueAssumption DEF Within, NoBound
      <3> QED BY <3>1, <3>2, NoRowAssumption
    <2> HIDE DEF found
    <2>5. ToSet(found) = {i \in Nat : \E k \in Key : At(i, k) /\ Seen(k) # NoRow /\ Within(Seen(k), v, v)}
      BY <2>2, <2>3, <2>4
    <2>6. SameRows(IndexScan(found, v, v), Answer(MergedRows, v, v))
      BY <2>2, <2>5, ScanAnswers
    <2> QED BY <2>6 DEF found
  <1> QED BY <1>1, IndexesInvariant, PTL

--------------------------------------------------------------------------------
(* The B+ tree of an index file.                                            *)

\* The values of the column have a largest.
LEMMA LargestValue ==
  /\ Max(Value) \in Value /\ Max(Value) \in Nat
  /\ \A v \in Value : v \in Nat /\ 1 <= v /\ v <= Max(Value)
  <1>1. Value \subseteq Nat \ {0} /\ IsFiniteSet(Value) /\ Value # {}
    BY ValueAssumption
  <1>2. PICK n \in Nat : ExistsSurjection(1 .. n, Value)
    BY <1>1, FS_NatSurjection
  <1>3. PICK f \in [1 .. n -> Value] : \A v \in Value : \E i \in 1 .. n : f[i] = v
    BY <1>2 DEF ExistsSurjection, Surjection
  <1> DEFINE I == {m \in Nat : 1 <= m /\ m <= n => \E i \in 1 .. m : \A j \in 1 .. m : f[j] <= f[i]}
  <1>4. 0 \in I
    OBVIOUS
  <1>5. ASSUME NEW m \in Nat, m \in I PROVE m + 1 \in I
    <2> SUFFICES ASSUME m + 1 <= n PROVE \E i \in 1 .. m + 1 : \A j \in 1 .. m + 1 : f[j] <= f[i]
      OBVIOUS
    <2>1. \A j \in 1 .. m + 1 : f[j] \in Nat /\ (j \in 1 .. m \/ j = m + 1)
      <3>1. \A j \in 1 .. n : f[j] \in Value
        BY <1>3
      <3>2. \A j \in 1 .. m + 1 : j \in 1 .. n /\ (j \in 1 .. m \/ j = m + 1)
        BY <1>2
      <3>3. \A v \in Value : v \in Nat
        BY <1>1
      <3> QED BY <3>1, <3>2, <3>3
    <2>2. CASE m = 0
      <3>1. 1 \in 1 .. m + 1 /\ \A j \in 1 .. m + 1 : j = 1 /\ f[j] \in Nat
        BY <2>1, <2>2
      <3>2. \A j \in 1 .. m + 1 : f[j] <= f[1]
        <4> SUFFICES ASSUME NEW j \in 1 .. m + 1 PROVE f[j] <= f[1]
          OBVIOUS
        <4>1. j = 1 /\ f[1] \in Nat
          BY <3>1
        <4>2. f[1] <= f[1]
          BY <4>1
        <4> QED BY <4>1, <4>2
      <3> QED BY <3>1, <3>2
    <2>3. CASE m # 0
      <3>1. PICK i \in 1 .. m : \A j \in 1 .. m : f[j] <= f[i]
        BY <1>5, <2>3
      <3>2. i \in 1 .. m + 1 /\ m + 1 \in 1 .. m + 1
        BY <3>1
      <3>3. CASE f[m + 1] <= f[i]
        BY <2>1, <3>1, <3>2, <3>3
      <3>4. CASE ~ (f[m + 1] <= f[i])
        <4>1. \A j \in 1 .. m + 1 : f[j] <= f[m + 1]
          <5> SUFFICES ASSUME NEW j \in 1 .. m + 1 PROVE f[j] <= f[m + 1]
            OBVIOUS
          <5>1. f[j] \in Nat /\ f[m + 1] \in Nat /\ f[i] \in Nat
            BY <2>1, <3>2
          <5>2. CASE j = m + 1
            BY <5>1, <5>2
          <5>3. CASE j # m + 1
            <6>1. f[j] <= f[i]
              BY <2>1, <3>1, <5>3
            <6> QED BY <3>4, <5>1, <6>1
          <5> QED BY <5>2, <5>3
        <4> QED BY <3>2, <4>1, Zenon
      <3> QED BY <3>3, <3>4
    <2> QED BY <2>2, <2>3
  <1> HIDE DEF I
  <1>6. n \in I
    BY <1>4, <1>5, NaturalInduction
  <1>7. n # 0
    <2>1. PICK v \in Value : TRUE
      BY <1>1
    <2>2. PICK i \in 1 .. n : f[i] = v
      BY <1>3, <2>1
    <2> QED BY <2>2
  <1>8. PICK i \in 1 .. n : \A j \in 1 .. n : f[j] <= f[i]
    BY <1>6, <1>7 DEF I
  <1>9. \A v \in Value : v <= f[i]
    BY <1>3, <1>8
  <1>10. \A v \in Value : f[i] >= v
    BY <1>1, <1>3, <1>9
  <1>11. Max(Value) \in Value /\ \A v \in Value : Max(Value) >= v
    BY <1>3, <1>10 DEF Max
  <1>12. \A v \in Value : v \in Nat /\ 1 <= v
    BY <1>1
  <1> DEFINE z == Max(Value)
  <1> HIDE DEF z
  <1>13. z \in Value /\ \A v \in Value : z >= v
    BY <1>11 DEF z
  <1>14. z \in Nat /\ \A v \in Value : v <= z
    BY <1>12, <1>13
  <1> QED BY <1>11, <1>12, <1>14 DEF z

\* A key that a list has twice.
Twice(u, v) == \E i, j \in DOMAIN u : i # j /\ u[i].key = v /\ u[j].key = v

\* A list with an entry in one place more, place by place.
LEMMA LongerIs ==
  ASSUME NEW u, NEW w, NEW e \in Entry, Longer(u, w, e)
  PROVE  /\ u \in Seq(Entry) /\ w \in Seq(Entry) /\ ToSet(w) = ToSet(u) \cup {e}
         /\ KeysOnce(w) <=> KeysOnce(u) /\ \A x \in ToSet(u) : x.key # e.key
         /\ \E n \in Nat, p \in Nat : /\ DOMAIN u = 1 .. n /\ DOMAIN w = 1 .. n + 1 /\ p <= n /\ w[p + 1] = e
                     /\ \A j \in 1 .. n : w[IF j <= p THEN j ELSE j + 1] = u[j]
  <1>1. PICK a \in Seq(Entry), b \in Seq(Entry) : u = Cat(a, b) /\ w = Cat(Append(a, e), b)
    BY DEF Longer
  <1>2. a \in Seq(Entry) /\ b \in Seq(Entry)
    BY <1>1
  <1>3. /\ u \in Seq(Entry) /\ w \in Seq(Entry) /\ ToSet(w) = ToSet(u) \cup {e} /\ Append(a, e) \in Seq(Entry)
        /\ KeysOnce(w) <=> KeysOnce(u) /\ \A x \in ToSet(u) : x.key # e.key
    BY <1>1, Amid
  <1> DEFINE p == Len(a)
             q == Len(b)
             c == Append(a, e)
  <1>4. /\ p \in Nat /\ q \in Nat /\ Len(c) = p + 1 /\ c[p + 1] = e /\ \A j \in 1 .. p : c[j] = a[j]
    BY <1>2
  <1>5. p + 1 \in Nat
    BY <1>4
  <1> HIDE DEF p, q, c
  <1>6. c \in Seq(Entry) /\ u = Cat(a, b) /\ w = Cat(c, b)
    BY <1>1, <1>3 DEF c
  <1>7. Spliced(Entry, u, a, b, p, q)
    <2>1. Len(a) = p /\ Len(b) = q
      BY DEF p, q
    <2> QED BY <1>2, <1>4, <1>6, <2>1, AllCat
  <1>8. Spliced(Entry, w, c, b, p + 1, q)
    <2>1. Len(b) = q
      BY DEF q
    <2> QED BY <1>2, <1>4, <1>5, <1>6, <2>1, AllCat
  <1>9. /\ Len(u) = p + q /\ Len(w) = (p + 1) + q
        /\ \A j \in 1 .. p : u[j] = a[j] /\ w[j] = a[j]
        /\ w[p + 1] = e
        /\ \A j \in 1 .. q : u[p + j] = b[j] /\ w[(p + 1) + j] = b[j]
    BY <1>4, <1>7, <1>8 DEF Spliced
  <1>10. DOMAIN u = 1 .. p + q /\ DOMAIN w = 1 .. (p + q) + 1
    BY <1>3, <1>4, <1>9
  <1>11. ASSUME NEW j \in 1 .. p + q PROVE w[IF j <= p THEN j ELSE j + 1] = u[j]
    <2>1. CASE j <= p
      BY <1>4, <1>9, <2>1
    <2>2. CASE ~ (j <= p)
      <3>1. j - p \in 1 .. q /\ p + (j - p) = j /\ (p + 1) + (j - p) = j + 1
        BY <1>4, <2>2
      <3>2. u[p + (j - p)] = b[j - p] /\ w[(p + 1) + (j - p)] = b[j - p]
        BY <1>9, <3>1
      <3> QED BY <2>2, <3>1, <3>2
    <2> QED BY <2>1, <2>2
  <1>12. p + q \in Nat /\ p <= p + q
    BY <1>4
  <1>13. \E n \in Nat, k \in Nat : /\ DOMAIN u = 1 .. n /\ DOMAIN w = 1 .. n + 1 /\ k <= n /\ w[k + 1] = e
                     /\ \A j \in 1 .. n : w[IF j <= k THEN j ELSE j + 1] = u[j]
    BY <1>4, <1>9, <1>10, <1>11, <1>12
  <1> QED BY <1>3, <1>13

\* What it says of repetitions.
LEMMA LongerOnce ==
  ASSUME NEW u, NEW w, NEW e \in Entry, Longer(u, w, e)
  PROVE  /\ Once(w) <=> Once(u) /\ e \notin ToSet(u)
         /\ \A v : Twice(u, v) => Twice(w, v)
         /\ \A v : Twice(w, v) /\ e.key # v => Twice(u, v)
         /\ (\E x \in ToSet(u) : x.key = e.key) => Twice(w, e.key)
  <1>1. PICK n \in Nat, p \in Nat : /\ DOMAIN u = 1 .. n /\ DOMAIN w = 1 .. n + 1 /\ p <= n /\ w[p + 1] = e
                     /\ \A j \in 1 .. n : w[IF j <= p THEN j ELSE j + 1] = u[j]
    BY LongerIs
  <1> DEFINE g(j) == IF j <= p THEN j ELSE j + 1
  <1>2. /\ \A j \in 1 .. n : g(j) \in DOMAIN w /\ w[g(j)] = u[j] /\ g(j) # p + 1
        /\ \A i, j \in 1 .. n : g(i) = g(j) => i = j
        /\ p + 1 \in DOMAIN w
    BY <1>1
  <1>3. ASSUME NEW i \in DOMAIN w, i # p + 1 PROVE \E j \in 1 .. n : g(j) = i
    <2>1. CASE i <= p
      BY <1>1, <2>1
    <2>2. CASE ~ (i <= p)
      <3>1. i - 1 \in 1 .. n /\ ~ (i - 1 <= p) /\ i - 1 + 1 = i
        BY <1>1, <1>3, <2>2
      <3> QED BY <3>1
    <2> QED BY <2>1, <2>2
  <1> HIDE DEF g
  <1>4. ASSUME Once(w) PROVE Once(u) /\ e \notin ToSet(u)
    <2>1. ASSUME NEW i \in 1 .. n, NEW j \in 1 .. n, u[i] = u[j] PROVE i = j
      <3>1. w[g(i)] = w[g(j)]
        BY <1>2, <2>1
      <3>2. g(i) = g(j)
        BY <1>2, <1>4, <3>1 DEF Once
      <3> QED BY <1>2, <3>2
    <2>2. ASSUME NEW i \in 1 .. n PROVE u[i] # e
      <3>1. g(i) # p + 1 /\ w[g(i)] = u[i] /\ g(i) \in DOMAIN w
        BY <1>2
      <3> QED BY <1>1, <1>2, <1>4, <3>1 DEF Once
    <2>3. e \notin ToSet(u)
      BY <1>1, <2>2 DEF ToSet
    <2> QED BY <1>1, <2>1, <2>3 DEF Once
  <1>5. ASSUME Once(u), e \notin ToSet(u) PROVE Once(w)
    <2> SUFFICES ASSUME NEW i \in DOMAIN w, NEW j \in DOMAIN w, w[i] = w[j] PROVE i = j
      BY DEF Once
    <2>1. \A x \in 1 .. n : u[x] # e
      BY <1>1, <1>5 DEF ToSet
    <2>2. ASSUME NEW x \in DOMAIN w, x # p + 1 PROVE w[x] # e
      <3>1. PICK y \in 1 .. n : g(y) = x
        BY <1>3, <2>2
      <3> QED BY <1>2, <2>1, <3>1
    <2>3. CASE i = p + 1 \/ j = p + 1
      BY <1>1, <2>2, <2>3
    <2>4. CASE i # p + 1 /\ j # p + 1
      <3>1. PICK x \in 1 .. n : g(x) = i
        BY <1>3, <2>4
      <3>2. PICK y \in 1 .. n : g(y) = j
        BY <1>3, <2>4
      <3>3. u[x] = u[y]
        BY <1>2, <3>1, <3>2
      <3>4. x = y
        BY <1>1, <1>5, <3>3 DEF Once
      <3> QED BY <3>1, <3>2, <3>4
    <2> QED BY <2>3, <2>4
  <1>6. \A v : Twice(u, v) => Twice(w, v)
    BY <1>1, <1>2 DEF Twice
  <1>7. ASSUME NEW v, Twice(w, v), e.key # v PROVE Twice(u, v)
    <2>1. PICK i, j \in DOMAIN w : i # j /\ w[i].key = v /\ w[j].key = v
      BY <1>7 DEF Twice
    <2>2. i # p + 1 /\ j # p + 1
      BY <1>1, <1>7, <2>1
    <2>3. PICK x \in 1 .. n : g(x) = i
      BY <1>3, <2>1, <2>2
    <2>4. PICK y \in 1 .. n : g(y) = j
      BY <1>3, <2>1, <2>2
    <2>5. x # y /\ u[x].key = v /\ u[y].key = v
      BY <1>2, <2>1, <2>3, <2>4
    <2> QED BY <1>1, <2>5 DEF Twice
  <1>8. ASSUME NEW x \in ToSet(u), x.key = e.key PROVE Twice(w, e.key)
    <2>1. PICK j \in 1 .. n : u[j] = x
      BY <1>1 DEF ToSet
    <2>2. w[g(j)].key = e.key /\ w[p + 1].key = e.key /\ g(j) # p + 1 /\ g(j) \in DOMAIN w /\ p + 1 \in DOMAIN w
      BY <1>1, <1>2, <1>8, <2>1
    <2> QED BY <2>2 DEF Twice
  <1> QED BY <1>4, <1>5, <1>6, <1>7, <1>8

\* What the tree holds: the pairs of value and row number in R, each once.
Numbered(w, R) ==
  /\ Once(w)
  /\ \A x \in ToSet(w) : <<x.key, x.value>> \in R
  /\ \A k, i : <<k, i>> \in R => [key |-> k, value |-> i] \in ToSet(w)

\* The trees of an index file have their keys among the values of the column.
High == Max(Value)

TreeMade(t, mode) == IsTree(t, 1, High, mode)

\* The file as it is made.
LEMMA EmptyTreeIs ==
  /\ TreeMade(EmptyTree, "tight") /\ TreeMade(EmptyTree, "strict")
  /\ Under(EmptyTree) = <<>> /\ EmptyTree \in Nodes[0]
  <1>1. EmptyTree \in Nodes[0] /\ EmptyTree.keys = <<>> /\ EmptyTree.children = <<>>
    <2>1. <<>> \in Seq(Nat)
      OBVIOUS
    <2> QED BY <2>1, NodeFields DEF EmptyTree, Leaf
  <1>2. Pairs(<<>>, <<>>) = <<>>
    BY DEF Pairs
  <1>3. Under(EmptyTree) = <<>>
    BY <1>1, <1>2, UnderIs
  <1>4. Len(<<>>) < Order /\ Sorted(<<>>, 1, High) /\ \A mode : Ascending(mode, <<>>)
    BY OrderAssumption DEF Sorted, Ascending
  <1>5. 1 \in Nat /\ High \in Nat /\ 0 \in Nat
    BY LargestValue DEF High
  <1>6. \A mode \in Modes : Tree(0, EmptyTree, 1, High, mode)
    BY <1>1, <1>4, <1>5, TreeIs
  <1> QED BY <1>1, <1>3, <1>5, <1>6 DEF TreeMade, IsTree, Modes

\* A pair more or less.
LEMMA LongerNumbered ==
  ASSUME NEW u, NEW w, NEW e \in Entry, Longer(u, w, e), NEW R
  PROVE  /\ Numbered(w, R) => Numbered(u, R \ {<<e.key, e.value>>})
         /\ Numbered(u, R) /\ <<e.key, e.value>> \notin R => Numbered(w, R \cup {<<e.key, e.value>>})
  <1>1. u \in Seq(Entry) /\ w \in Seq(Entry) /\ ToSet(w) = ToSet(u) \cup {e}
    BY LongerIs
  <1>2. Once(w) <=> Once(u) /\ e \notin ToSet(u)
    BY LongerOnce
  <1>3. \A x \in ToSet(w) : x \in Entry
    BY <1>1 DEF ToSet
  <1>4. \A x \in ToSet(w) : x = [key |-> x.key, value |-> x.value] /\ (<<x.key, x.value>> = <<e.key, e.value>> => x = e)
    BY <1>3 DEF Entry
  <1>5. ASSUME Numbered(w, R) PROVE Numbered(u, R \ {<<e.key, e.value>>})
    <2>1. Once(u) /\ e \notin ToSet(u)
      BY <1>2, <1>5 DEF Numbered
    <2>2. \A x \in ToSet(u) : <<x.key, x.value>> \in R /\ x # e
      BY <1>1, <1>5, <2>1 DEF Numbered
    <2>3. \A x \in ToSet(u) : <<x.key, x.value>> \in R \ {<<e.key, e.value>>}
      BY <1>1, <1>4, <2>2
    <2>4. ASSUME NEW k, NEW i, <<k, i>> \in R \ {<<e.key, e.value>>} PROVE [key |-> k, value |-> i] \in ToSet(u)
      <3>1. [key |-> k, value |-> i] \in ToSet(w)
        BY <1>5, <2>4 DEF Numbered
      <3>2. [key |-> k, value |-> i] # e
        <4>1. [key |-> k, value |-> i].key = k /\ [key |-> k, value |-> i].value = i
          OBVIOUS
        <4> QED BY <2>4, <4>1
      <3> QED BY <1>1, <3>1, <3>2
    <2> QED BY <2>1, <2>3, <2>4 DEF Numbered
  <1>6. ASSUME Numbered(u, R), <<e.key, e.value>> \notin R PROVE Numbered(w, R \cup {<<e.key, e.value>>})
    <2>1. Once(w)
      BY <1>2, <1>6 DEF Numbered
    <2>2. \A x \in ToSet(w) : <<x.key, x.value>> \in R \cup {<<e.key, e.value>>}
      BY <1>1, <1>6 DEF Numbered
    <2>3. ASSUME NEW k, NEW i, <<k, i>> \in R \cup {<<e.key, e.value>>} PROVE [key |-> k, value |-> i] \in ToSet(w)
      <3>1. CASE <<k, i>> \in R
        BY <1>1, <1>6, <3>1 DEF Numbered
      <3>2. CASE <<k, i>> = <<e.key, e.value>>
        <4>1. k = e.key /\ i = e.value /\ e = [key |-> e.key, value |-> e.value] /\ e \in ToSet(w)
          BY <1>1, <1>4, <3>2
        <4> QED BY <4>1
      <3> QED BY <2>3, <3>1, <3>2
    <2> QED BY <2>1, <2>2, <2>3 DEF Numbered
  <1> QED BY <1>5, <1>6

\* insert on the tree of an index file: a value that was there is then there twice.
LEMMA AfterInsert ==
  ASSUME NEW t, TreeMade(t, "any"), NEW v \in Value, NEW n \in Nat, NEW g, g = TreeInsert(t, v, n)
  PROVE  /\ TreeMade(g, "any") /\ (TreeMade(t, "tight") => TreeMade(g, "tight"))
         /\ Twice(Under(t), v) => Twice(Under(g), v)
         /\ TreeMade(t, "strict") => TreeMade(g, "strict") \/ Twice(Under(g), v)
         /\ \A R : Numbered(Under(t), R) /\ <<v, n>> \notin R => Numbered(Under(g), R \cup {<<v, n>>})
  <1> DEFINE e == [key |-> v, value |-> n]
  <1>1. v \in Nat /\ 1 <= v /\ v <= High
    BY LargestValue DEF High
  <1>2. ASSUME NEW mode, TreeMade(t, mode), mode = "strict" => v \notin KeysUnder(t)
        PROVE  TreeMade(g, mode) /\ Longer(Under(t), Under(g), e)
    BY <1>1, <1>2, InsertMeans, Zenon DEF TreeMade
  <1>3. e \in Entry /\ e.key = v /\ e.value = n
    BY <1>1, NumberHeld
  <1> HIDE DEF e
  <1>4. TreeMade(g, "any") /\ Longer(Under(t), Under(g), e)
    BY <1>2
  <1>5. TreeMade(t, "tight") => TreeMade(g, "tight")
    BY <1>2
  <1>6. /\ Twice(Under(t), v) => Twice(Under(g), v)
        /\ (\E x \in ToSet(Under(t)) : x.key = v) => Twice(Under(g), v)
    BY <1>3, <1>4, LongerOnce
  <1>7. TreeMade(t, "strict") => TreeMade(g, "strict") \/ Twice(Under(g), v)
    <2>1. CASE v \in KeysUnder(t)
      BY <1>6, <2>1 DEF KeysUnder
    <2>2. CASE v \notin KeysUnder(t)
      BY <1>2, <2>2
    <2> QED BY <2>1, <2>2
  <1>8. \A R : Numbered(Under(t), R) /\ <<v, n>> \notin R => Numbered(Under(g), R \cup {<<v, n>>})
    BY <1>3, <1>4, LongerNumbered
  <1> QED BY <1>4, <1>5, <1>6, <1>7, <1>8

\* delete: the tree of a column without duplicates loses the pair.
LEMMA AfterDelete ==
  ASSUME NEW t, TreeMade(t, "any"), NEW w \in Value, NEW n \in Nat, NEW g, g = TreeDelete(t, w, n)
  PROVE  /\ TreeMade(g, "any")
         /\ \A v : v # w /\ Twice(Under(t), v) => Twice(Under(g), v)
         /\ TreeMade(t, "strict") =>
              /\ TreeMade(g, "strict")
              /\ \A R : Numbered(Under(t), R) => Numbered(Under(g), R \ {<<w, n>>})
  <1> DEFINE e == [key |-> w, value |-> n]
  <1>1. w \in Nat /\ 1 <= w /\ w <= High
    BY LargestValue DEF High
  <1>2. e \in Entry /\ e.key = w /\ e.value = n
    BY <1>1, NumberHeld
  <1>3. g = TreeDelete(t, e.key, e.value) /\ 1 <= e.key /\ e.key <= High
    BY <1>1, <1>2
  <1> HIDE DEF e
  <1>4. ASSUME NEW mode, TreeMade(t, mode), mode # "tight"
        PROVE  TreeMade(g, mode) /\ Lost(Under(g), Under(t), mode, e)
    <2>1. PICK h \in Nat : Tree(h, t, 1, High, mode)
      BY <1>4 DEF TreeMade, IsTree
    <2>2. Tree(h, g, 1, High, mode) /\ Lost(Under(g), Under(t), mode, e)
      <3>1. \A m \in Nat : \A o, low, high, md : Tree(m, o, low, high, md) /\ md # "tight" /\ low <= e.key /\ e.key <= high =>
              /\ Tree(m, TreeDelete(o, e.key, e.value), low, high, md)
              /\ Lost(Under(TreeDelete(o, e.key, e.value)), Under(o), md, e)
        BY <1>2, DeleteMeans
      <3> DEFINE T(x, md) == Tree(h, x, 1, High, md)
      <3>2. \A o, md : T(o, md) /\ md # "tight" =>
              /\ T(TreeDelete(o, e.key, e.value), md)
              /\ Lost(Under(TreeDelete(o, e.key, e.value)), Under(o), md, e)
        BY <1>3, <2>1, <3>1, Zenon
      <3> QED BY <1>3, <1>4, <2>1, <3>2, Zenon
    <2> QED BY <2>1, <2>2, Zenon DEF TreeMade, IsTree
  <1>5. TreeMade(g, "any") /\ Lost(Under(g), Under(t), "any", e)
    BY <1>4
  <1>6. ASSUME NEW v, v # w, Twice(Under(t), v) PROVE Twice(Under(g), v)
    <2>1. Longer(Under(g), Under(t), e) => Twice(Under(g), v)
      BY <1>2, <1>6, LongerOnce
    <2> QED BY <1>5, <1>6, <2>1 DEF Lost
  <1>7. ASSUME TreeMade(t, "strict")
        PROVE  TreeMade(g, "strict") /\ \A R : Numbered(Under(t), R) => Numbered(Under(g), R \ {<<w, n>>})
    <2>1. TreeMade(g, "strict") /\ Lost(Under(g), Under(t), "strict", e)
      BY <1>4, <1>7
    <2>2. CASE Under(g) = Under(t) /\ e \notin ToSet(Under(t))
      <3>1. ASSUME NEW R, Numbered(Under(t), R) PROVE Numbered(Under(g), R \ {<<w, n>>})
        <4>1. <<w, n>> \notin R
          BY <2>2, <3>1 DEF Numbered, e
        <4>2. R \ {<<w, n>>} = R
          BY <4>1
        <4> QED BY <2>2, <3>1, <4>2
      <3> QED BY <2>1, <3>1
    <2>3. CASE Longer(Under(g), Under(t), e)
      BY <1>2, <2>1, <2>3, LongerNumbered
    <2> QED BY <2>1, <2>2, <2>3 DEF Lost
  <1> QED BY <1>5, <1>6, <1>7

\* One row of a statement that sets the column.
LEMMA TreeMoved ==
  ASSUME NEW t, TreeMade(t, "any"), NEW w \in Value, NEW v \in Value, w # v, NEW n \in Nat,
         NEW g, g = TreeDelete(t, w, n), NEW y, y = TreeInsert(g, v, n)
  PROVE  /\ TreeMade(y, "any")
         /\ Twice(Under(t), v) => Twice(Under(y), v)
         /\ TreeMade(t, "strict") => TreeMade(y, "strict") \/ Twice(Under(y), v)
         /\ TreeMade(t, "strict") => \A R : Numbered(Under(t), R) => Numbered(Under(y), (R \ {<<w, n>>}) \cup {<<v, n>>}) \/ <<v, n>> \in R \ {<<w, n>>}
  <1>1. /\ TreeMade(g, "any")
        /\ Twice(Under(t), v) => Twice(Under(g), v)
        /\ TreeMade(t, "strict") =>
              /\ TreeMade(g, "strict")
              /\ \A R : Numbered(Under(t), R) => Numbered(Under(g), R \ {<<w, n>>})
    BY AfterDelete
  <1>2. /\ TreeMade(y, "any")
        /\ Twice(Under(g), v) => Twice(Under(y), v)
        /\ TreeMade(g, "strict") => TreeMade(y, "strict") \/ Twice(Under(y), v)
        /\ \A R : Numbered(Under(g), R) /\ <<v, n>> \notin R => Numbered(Under(y), R \cup {<<v, n>>})
    BY <1>1, AfterInsert
  <1> QED BY <1>1, <1>2

\* The tree y is t with the number n under v where it was under w ...
Moved(t, w, v, n, y) ==
  /\ TreeMade(y, "any")
  /\ Twice(Under(t), v) => Twice(Under(y), v)
  /\ TreeMade(t, "strict") => TreeMade(y, "strict") \/ Twice(Under(y), v)
  /\ TreeMade(t, "strict") => \A R : Numbered(Under(t), R) => Numbered(Under(y), (R \ {<<w, n>>}) \cup {<<v, n>>}) \/ <<v, n>> \in R \ {<<w, n>>}

\* ... g is t without the number n under w ...
Shed(t, w, n, g) ==
  /\ TreeMade(g, "any")
  /\ TreeMade(t, "strict") =>
       /\ TreeMade(g, "strict")
       /\ \A R : Numbered(Under(t), R) => Numbered(Under(g), R \ {<<w, n>>})

\* ... and g is t with the number n under v.
Gained(t, v, n, g) ==
  /\ TreeMade(g, "any") /\ (TreeMade(t, "tight") => TreeMade(g, "tight"))
  /\ \A R : Numbered(Under(t), R) /\ <<v, n>> \notin R => Numbered(Under(g), R \cup {<<v, n>>})

\* The same for all trees at once.
LEMMA AllTreesMove ==
  /\ \A t, n : TreeMade(t, "any") /\ n \in Nat =>
       \A w, v : w \in Value /\ v \in Value /\ w # v => Moved(t, w, v, n, TreeInsert(TreeDelete(t, w, n), v, n))
  /\ \A t, n : TreeMade(t, "any") /\ n \in Nat => \A w : w \in Value => Shed(t, w, n, TreeDelete(t, w, n))
  /\ \A t, n : TreeMade(t, "any") /\ n \in Nat => \A v : v \in Value => Gained(t, v, n, TreeInsert(t, v, n))
  <1>1. ASSUME NEW t, NEW n, TreeMade(t, "any"), n \in Nat, NEW w, NEW v, w \in Value, v \in Value, w # v
        PROVE  Moved(t, w, v, n, TreeInsert(TreeDelete(t, w, n), v, n))
    <2> DEFINE g == TreeDelete(t, w, n)
               y == TreeInsert(g, v, n)
    <2>1. g = TreeDelete(t, w, n) /\ y = TreeInsert(g, v, n)
      OBVIOUS
    <2> HIDE DEF g, y
    <2>2. Moved(t, w, v, n, y)
      BY <1>1, <2>1, TreeMoved DEF Moved
    <2> QED BY <2>2 DEF g, y
  <1>2. ASSUME NEW t, NEW n, TreeMade(t, "any"), n \in Nat, NEW w, w \in Value
        PROVE  Shed(t, w, n, TreeDelete(t, w, n))
    <2> DEFINE g == TreeDelete(t, w, n)
    <2>1. g = TreeDelete(t, w, n)
      OBVIOUS
    <2> HIDE DEF g
    <2>2. Shed(t, w, n, g)
      BY <1>2, <2>1, AfterDelete DEF Shed
    <2> QED BY <2>2 DEF g
  <1>3. ASSUME NEW t, NEW n, TreeMade(t, "any"), n \in Nat, NEW v, v \in Value
        PROVE  Gained(t, v, n, TreeInsert(t, v, n))
    <2> DEFINE g == TreeInsert(t, v, n)
    <2>1. g = TreeInsert(t, v, n)
      OBVIOUS
    <2> HIDE DEF g
    <2>2. Gained(t, v, n, g)
      BY <1>3, <2>1, AfterInsert DEF Gained
    <2> QED BY <2>2 DEF g
  <1> QED BY <1>1, <1>2, <1>3, Zenon

\* The B+ tree after the rows of u are set to v ...
LEMMA TreeRewritten ==
  ASSUME NEW rows \in Seq(Rows), NEW v \in Value, NEW i, NEW p, i.btree # NoFile => TreeMade(i.btree, "any"),
         NEW u \in Seq(DOMAIN rows), NEW s, s = UF!Fold([rows |-> rows, to |-> v], [pool |-> p, indexed |-> i], u)
  PROVE  s.indexed.btree # NoFile =>
           /\ i.btree # NoFile /\ TreeMade(s.indexed.btree, "any")
           /\ TreeMade(i.btree, "strict") =>
                \/ Twice(Under(s.indexed.btree), v)
                \/ /\ TreeMade(s.indexed.btree, "strict")
                   /\ Numbered(Under(i.btree), Paired(rows, {}, v)) /\ Once(u) =>
                        Numbered(Under(s.indexed.btree), Paired(rows, ToSet(u), v))
  <1> DEFINE c == [rows |-> rows, to |-> v]
             base == [pool |-> p, indexed |-> i]
             N(x, w) == Numbered(Under(i.btree), Paired(rows, {}, v)) /\ Once(w) => Numbered(Under(x), Paired(rows, ToSet(w), v))
             P(x, w) == x.indexed.btree # NoFile =>
                          /\ i.btree # NoFile /\ TreeMade(x.indexed.btree, "any")
                          /\ TreeMade(i.btree, "strict") =>
                               \/ Twice(Under(x.indexed.btree), v)
                               \/ TreeMade(x.indexed.btree, "strict") /\ N(x.indexed.btree, w)
             I == {w \in Seq(DOMAIN rows) : P(UF!Fold(c, base, w), w)}
  <1>1. <<>> \in I
    <2>1. UF!Fold(c, base, <<>>) = base
      BY UF!FoldEmpty, UFInductive, Zenon
    <2>2. ToSet(<<>>) = {} /\ <<>> \in Seq(DOMAIN rows)
      BY DEF ToSet
    <2>3. P(base, <<>>)
      BY <2>2
    <2> QED BY <2>1, <2>2, <2>3
  <1>2. ASSUME NEW w \in Seq(DOMAIN rows), NEW e \in DOMAIN rows, w \in I
        PROVE  Append(w, e) \in I
    <2> DEFINE x == UF!Fold(c, base, w)
               y == UF!Fold(c, base, Append(w, e))
    <2>1. y = Rewritten(rows[e], e - 1, v, x)
      <3>1. c.rows = rows /\ c.to = v
        OBVIOUS
      <3> HIDE DEF c, base
      <3>2. y = Rewritten(c.rows[e], e - 1, c.to, x)
        BY UF!FoldAppend, UFInductive
      <3> QED BY <3>1, <3>2
    <2>2. P(x, w)
      BY <1>2
    <2>3. /\ ToSet(Append(w, e)) = ToSet(w) \cup {e} /\ Append(w, e) \in Seq(DOMAIN rows)
          /\ (Once(Append(w, e)) <=> Once(w) /\ e \notin ToSet(w))
      BY OnceAppend
    <2>4. rows[e].value \in Value /\ e - 1 \in Nat /\ ToSet(w) \subseteq DOMAIN rows
      <3>1. rows[e] \in Rows /\ e \in Nat /\ e >= 1
        OBVIOUS
      <3> QED BY <3>1 DEF Rows, ToSet
    <2> HIDE DEF x, y, c, base
    <2>5. ASSUME y.indexed.btree # NoFile
          PROVE  /\ i.btree # NoFile /\ TreeMade(y.indexed.btree, "any")
                 /\ TreeMade(i.btree, "strict") =>
                       \/ Twice(Under(y.indexed.btree), v)
                       \/ TreeMade(y.indexed.btree, "strict") /\ N(y.indexed.btree, Append(w, e))
      <3>1. CASE rows[e].value = v
        <4>1. y.indexed = x.indexed
          BY <2>1, <3>1 DEF Rewritten
        <4>2. Paired(rows, ToSet(w) \cup {e}, v) = Paired(rows, ToSet(w), v)
          BY <3>1 DEF Paired
        <4> QED BY <2>2, <2>3, <2>5, <4>1, <4>2
      <3>2. CASE rows[e].value # v
        <4> DEFINE t == x.indexed.btree
                   g == TreeDelete(t, rows[e].value, e - 1)
                   z == TreeInsert(g, v, e - 1)
        <4>1. t # NoFile /\ y.indexed.btree = z
          BY <2>1, <2>5, <3>2 DEF Rewritten, Entered, Removed
        <4> HIDE DEF t, N
        <4>2. /\ TreeMade(t, "any") /\ i.btree # NoFile
              /\ TreeMade(i.btree, "strict") => Twice(Under(t), v) \/ (TreeMade(t, "strict") /\ N(t, w))
          BY <2>2, <4>1 DEF t
        <4>3. /\ TreeMade(z, "any")
              /\ Twice(Under(t), v) => Twice(Under(z), v)
              /\ TreeMade(t, "strict") => TreeMade(z, "strict") \/ Twice(Under(z), v)
              /\ TreeMade(t, "strict") => \A R : Numbered(Under(t), R) => Numbered(Under(z), (R \ {<<rows[e].value, e - 1>>}) \cup {<<v, e - 1>>}) \/ <<v, e - 1>> \in R \ {<<rows[e].value, e - 1>>}
          <5>1. Moved(t, rows[e].value, v, e - 1, z)
            BY <2>4, <3>2, <4>2, AllTreesMove, Zenon
          <5> QED BY <5>1, Zenon DEF Moved
        <4> HIDE DEF z
        <4>4. ASSUME TreeMade(t, "strict"), N(t, w)
              PROVE  N(z, Append(w, e))
          <5> SUFFICES ASSUME Numbered(Under(i.btree), Paired(rows, {}, v)), Once(Append(w, e))
                       PROVE  Numbered(Under(z), Paired(rows, ToSet(Append(w, e)), v))
            BY DEF N
          <5>1. Numbered(Under(t), Paired(rows, ToSet(w), v))
            BY <2>3, <4>4 DEF N
          <5>2. /\ Paired(rows, ToSet(w) \cup {e}, v) =
                     (Paired(rows, ToSet(w), v) \ {<<rows[e].value, e - 1>>}) \cup {<<v, e - 1>>}
                /\ <<v, e - 1>> \notin Paired(rows, ToSet(w), v) \ {<<rows[e].value, e - 1>>}
            BY <2>3, <2>4, <3>2, PairedNext
          <5>3. Numbered(Under(z), Paired(rows, ToSet(w) \cup {e}, v))
            BY <4>3, <4>4, <5>1, <5>2
          <5> QED BY <2>3, <5>3
        <4> QED BY <4>1, <4>2, <4>3, <4>4
      <3> QED BY <3>1, <3>2
    <2>6. P(y, Append(w, e))
      BY <2>5
    <2> QED BY <2>3, <2>6 DEF y
  <1> HIDE DEF I
  <1>3. Seq(DOMAIN rows) \subseteq I
    BY <1>1, <1>2, UF!SequenceInduction, UFInductive
  <1>4. P(UF!Fold(c, base, u), u)
    BY <1>3 DEF I
  <1> QED BY <1>4

\* ... after they are deleted ...
LEMMA TreeRemoved ==
  ASSUME NEW rows \in Seq(Rows), NEW i, i.btree # NoFile => TreeMade(i.btree, "any"),
         NEW u \in Seq(DOMAIN rows), NEW s, s = RF!Fold(rows, i, u)
  PROVE  s.btree # NoFile =>
           /\ i.btree # NoFile /\ TreeMade(s.btree, "any")
           /\ TreeMade(i.btree, "strict") =>
                /\ TreeMade(s.btree, "strict")
                /\ Numbered(Under(i.btree), Kept(rows, {})) /\ Once(u) => Numbered(Under(s.btree), Kept(rows, ToSet(u)))
  <1> DEFINE N(x, w) == Numbered(Under(i.btree), Kept(rows, {})) /\ Once(w) => Numbered(Under(x), Kept(rows, ToSet(w)))
             P(x, w) == x.btree # NoFile =>
                          /\ i.btree # NoFile /\ TreeMade(x.btree, "any")
                          /\ TreeMade(i.btree, "strict") => TreeMade(x.btree, "strict") /\ N(x.btree, w)
             I == {w \in Seq(DOMAIN rows) : P(RF!Fold(rows, i, w), w)}
  <1>1. <<>> \in I
    <2>1. RF!Fold(rows, i, <<>>) = i
      BY RF!FoldEmpty, RFInductive, Zenon
    <2>2. ToSet(<<>>) = {} /\ <<>> \in Seq(DOMAIN rows)
      BY DEF ToSet
    <2>3. P(i, <<>>)
      BY <2>2
    <2> QED BY <2>1, <2>2, <2>3
  <1>2. ASSUME NEW w \in Seq(DOMAIN rows), NEW e \in DOMAIN rows, w \in I
        PROVE  Append(w, e) \in I
    <2> DEFINE x == RF!Fold(rows, i, w)
               y == RF!Fold(rows, i, Append(w, e))
    <2>1. y = Removed(x, rows[e].value, e - 1)
      BY RF!FoldAppend, RFInductive
    <2>2. P(x, w)
      BY <1>2
    <2>3. /\ ToSet(Append(w, e)) = ToSet(w) \cup {e} /\ Append(w, e) \in Seq(DOMAIN rows)
          /\ (Once(Append(w, e)) <=> Once(w) /\ e \notin ToSet(w))
      BY OnceAppend
    <2>4. rows[e].value \in Value /\ e - 1 \in Nat /\ ToSet(w) \subseteq DOMAIN rows
      <3>1. rows[e] \in Rows /\ e \in Nat /\ e >= 1
        OBVIOUS
      <3> QED BY <3>1 DEF Rows, ToSet
    <2> HIDE DEF x, y
    <2>5. ASSUME y.btree # NoFile
          PROVE  /\ i.btree # NoFile /\ TreeMade(y.btree, "any")
                 /\ TreeMade(i.btree, "strict") => TreeMade(y.btree, "strict") /\ N(y.btree, Append(w, e))
      <3> DEFINE t == x.btree
                 z == TreeDelete(t, rows[e].value, e - 1)
      <3>1. t # NoFile /\ y.btree = z
        BY <2>1, <2>5 DEF Removed
      <3> HIDE DEF t, N
      <3>2. /\ TreeMade(t, "any") /\ i.btree # NoFile
            /\ TreeMade(i.btree, "strict") => TreeMade(t, "strict") /\ N(t, w)
        BY <2>2, <3>1 DEF t
      <3>3. /\ TreeMade(z, "any")
            /\ TreeMade(t, "strict") =>
                 /\ TreeMade(z, "strict")
                 /\ \A R : Numbered(Under(t), R) => Numbered(Under(z), R \ {<<rows[e].value, e - 1>>})
        <4>1. Shed(t, rows[e].value, e - 1, z)
          BY <2>4, <3>2, AllTreesMove, Zenon
        <4> QED BY <4>1, Zenon DEF Shed
      <3> HIDE DEF z
      <3>4. ASSUME TreeMade(t, "strict"), N(t, w) PROVE N(z, Append(w, e))
        <4> SUFFICES ASSUME Numbered(Under(i.btree), Kept(rows, {})), Once(Append(w, e))
                     PROVE  Numbered(Under(z), Kept(rows, ToSet(Append(w, e))))
          BY DEF N
        <4>1. Numbered(Under(t), Kept(rows, ToSet(w)))
          BY <2>3, <3>4 DEF N
        <4>2. Kept(rows, ToSet(w) \cup {e}) = Kept(rows, ToSet(w)) \ {<<rows[e].value, e - 1>>}
          BY <2>3, <2>4, PairedNext
        <4>3. Numbered(Under(z), Kept(rows, ToSet(w) \cup {e}))
          BY <3>3, <3>4, <4>1, <4>2
        <4> QED BY <2>3, <4>3
      <3> QED BY <3>1, <3>2, <3>3, <3>4
    <2>6. P(y, Append(w, e))
      BY <2>5
    <2> QED BY <2>3, <2>6 DEF y
  <1> HIDE DEF I
  <1>3. Seq(DOMAIN rows) \subseteq I
    BY <1>1, <1>2, RF!SequenceInduction, RFInductive
  <1>4. P(RF!Fold(rows, i, u), u)
    BY <1>3 DEF I
  <1> QED BY <1>4

\* ... and when it is made from all of them.
LEMMA TreeBuilt ==
  ASSUME NEW rows \in Seq(Rows), NEW t, t = TF!Fold(rows, EmptyTree, [j \in DOMAIN rows |-> j])
  PROVE  TreeMade(t, "any") /\ TreeMade(t, "tight") /\ Numbered(Under(t), Kept(rows, {}))
  <1> DEFINE R(w) == {<<rows[j].value, j - 1>> : j \in ToSet(w)}
             x(w) == TF!Fold(rows, EmptyTree, w)
             I == {w \in Seq(DOMAIN rows) : /\ TreeMade(x(w), "any") /\ TreeMade(x(w), "tight")
                                            /\ Once(w) => Numbered(Under(x(w)), R(w))}
  <1>1. <<>> \in I
    <2>1. x(<<>>) = EmptyTree
      BY TF!FoldEmpty, TFInductive, Zenon
    <2>2. ToSet(<<>>) = {} /\ <<>> \in Seq(DOMAIN rows) /\ DOMAIN <<>> = {} /\ Once(<<>>)
      BY DEF ToSet, Once
    <2>3. Numbered(<<>>, R(<<>>))
      BY <2>2 DEF Numbered
    <2>4. Under(EmptyTree) = <<>> /\ TreeMade(EmptyTree, "tight") /\ TreeMade(EmptyTree, "any")
      <3>1. Under(EmptyTree) = <<>> /\ TreeMade(EmptyTree, "tight")
        BY EmptyTreeIs
      <3> QED BY <3>1, TreeAny, Zenon DEF TreeMade, IsTree
    <2> QED BY <2>1, <2>2, <2>3, <2>4
  <1>2. ASSUME NEW w \in Seq(DOMAIN rows), NEW e \in DOMAIN rows, w \in I
        PROVE  Append(w, e) \in I
    <2>1. x(Append(w, e)) = TreeInsert(x(w), rows[e].value, e - 1)
      BY TF!FoldAppend, TFInductive
    <2>2. /\ ToSet(Append(w, e)) = ToSet(w) \cup {e} /\ Append(w, e) \in Seq(DOMAIN rows)
          /\ (Once(Append(w, e)) <=> Once(w) /\ e \notin ToSet(w))
      BY OnceAppend
    <2>3. rows[e].value \in Value /\ e - 1 \in Nat /\ ToSet(w) \subseteq DOMAIN rows
      <3>1. rows[e] \in Rows /\ e \in Nat /\ e >= 1
        OBVIOUS
      <3> QED BY <3>1 DEF Rows, ToSet
    <2>4. TreeMade(x(w), "any") /\ TreeMade(x(w), "tight") /\ (Once(w) => Numbered(Under(x(w)), R(w)))
      BY <1>2
    <2>5. e \notin ToSet(w) => <<rows[e].value, e - 1>> \notin R(w)
      <3>1. \A j \in DOMAIN rows : j \in Nat /\ (j - 1 = e - 1 => j = e)
        OBVIOUS
      <3> QED BY <2>3, <3>1
    <2>6. R(Append(w, e)) = R(w) \cup {<<rows[e].value, e - 1>>}
      BY <2>2
    <2> HIDE DEF x, R
    <2>7. /\ TreeMade(x(Append(w, e)), "any") /\ TreeMade(x(Append(w, e)), "tight")
          /\ \A S : Numbered(Under(x(w)), S) /\ <<rows[e].value, e - 1>> \notin S
                      => Numbered(Under(x(Append(w, e))), S \cup {<<rows[e].value, e - 1>>})
      <3> DEFINE g == TreeInsert(x(w), rows[e].value, e - 1)
      <3>1. /\ TreeMade(g, "any") /\ TreeMade(g, "tight")
            /\ \A S : Numbered(Under(x(w)), S) /\ <<rows[e].value, e - 1>> \notin S
                        => Numbered(Under(g), S \cup {<<rows[e].value, e - 1>>})
        <4>1. Gained(x(w), rows[e].value, e - 1, g)
          BY <2>3, <2>4, AllTreesMove, Zenon
        <4> QED BY <2>4, <4>1, Zenon DEF Gained
      <3> HIDE DEF g
      <3>2. x(Append(w, e)) = g
        BY <2>1 DEF g
      <3> QED BY <3>1, <3>2
    <2>8. Once(Append(w, e)) => Numbered(Under(x(Append(w, e))), R(Append(w, e)))
      BY <2>2, <2>4, <2>5, <2>6, <2>7
    <2> QED BY <2>2, <2>7, <2>8
  <1> HIDE DEF I
  <1>3. Seq(DOMAIN rows) \subseteq I
    BY <1>1, <1>2, TF!SequenceInduction, TFInductive
  <1> DEFINE all == [j \in DOMAIN rows |-> j]
  <1>4. all \in Seq(DOMAIN rows) /\ Once(all) /\ ToSet(all) = DOMAIN rows
    <2>1. DOMAIN rows = 1 .. Len(rows) /\ Len(rows) \in Nat
      BY SMTT(30)
    <2>2. all \in Seq(DOMAIN rows)
      BY <2>1, SMTT(30)
    <2> QED BY <2>2 DEF Once, ToSet
  <1> HIDE DEF all
  <1>5. TreeMade(x(all), "any") /\ TreeMade(x(all), "tight") /\ Numbered(Under(x(all)), R(all))
    BY <1>3, <1>4 DEF I
  <1>6. R(all) = Kept(rows, {})
    BY <1>4 DEF Kept
  <1> QED BY <1>5, <1>6 DEF all

--------------------------------------------------------------------------------
(* The invariant of the B+ tree.                                            *)

\* The tree is in order whatever happens.  Without duplicates the keys of its nodes
\* separate strictly, and until a removal each of them is a key right of it; either
\* way the tree means, while it is in step and texts are read as written, what the
\* file does.
TreeInv ==
  btree # NoFile =>
    /\ TreeMade(btree, "any")
    /\ distinct => TreeMade(btree, "strict")
    /\ ~erased => TreeMade(btree, "tight")
    /\ Plain /\ "btree" \in exact /\ (distinct \/ ~erased) => OneUnsaved /\ Numbered(Under(btree), Numbering)

\* What the history means by a tree without duplicates.
LEMMA UniqueTree ==
  ASSUME NEW t, t # NoFile, Unique(t)
  PROVE  /\ \A v : ~ Twice(Under(t), v)
         /\ TreeMade(t, "tight") => TreeMade(t, "strict")
  <1>1. KeysOnce(Under(t))
    BY DEF Unique, KeysOnce, Under
  <1>2. \A v : ~ Twice(Under(t), v)
    BY <1>1 DEF KeysOnce, Twice
  <1>3. ASSUME TreeMade(t, "tight") PROVE TreeMade(t, "strict")
    <2>1. PICK h \in Nat : Tree(h, t, 1, High, "tight")
      BY <1>3 DEF TreeMade, IsTree
    <2>2. Tree(h, t, 1, High, "strict")
      BY <1>1, <2>1, TightStrict, Zenon
    <2> QED BY <2>1, <2>2, Zenon DEF TreeMade, IsTree
  <1> QED BY <1>2, <1>3

\* write_block without conditions.
LEMMA InsertKeepsTree ==
  ASSUME FileInv, TreeInv, NEW k \in Key, NEW v \in Value, Insert(k, v)
  PROVE  TreeInv'
  <1> DEFINE n == Len(Scanned(file))
             i == Entered(Indexed, v, n)
             ok == Unsaved = {} /\ k \notin B!Keys(pool)
             t == TreeInsert(btree, v, n)
  <1>1. /\ k \notin KeysOf(Scanned(file))
        /\ pool' = B!Written(pool, k, v) /\ btree' = i.btree
        /\ exact' = (IF ok THEN exact ELSE {}) /\ file' = file /\ erased' = erased
        /\ distinct' = (distinct /\ Unique(btree'))
    BY DEF Insert, Statement, KeysOf
  <1>2. BP!Roomy(pool) /\ FromDisk(Scanned(file))
    BY DEF FileInv
  <1>3. n \in Nat
    BY <1>2 DEF FromDisk
  <1>4. pool' = BP!Written(pool, k, v)
    BY <1>1, SameOperations
  <1>5. /\ k \notin B!Keys(pool) => BP!Visible(pool', k) = v
        /\ \A l \in Key \ {k} : BP!Visible(pool', l) = BP!Visible(pool, l)
    BY <1>2, <1>4, NoRowAssumption, SamePool, BP!WrittenRoomy
  <1>6. btree' = IF btree = NoFile THEN NoFile ELSE t
    BY <1>1 DEF Indexed, Entered
  <1> SUFFICES ASSUME btree' # NoFile
               PROVE  /\ TreeMade(btree', "any")
                      /\ distinct' => TreeMade(btree', "strict")
                      /\ ~erased' => TreeMade(btree', "tight")
                      /\ Plain /\ "btree" \in exact' /\ (distinct' \/ ~erased') => OneUnsaved' /\ Numbered(Under(btree'), Numbering')
    BY DEF TreeInv
  <1>7. btree # NoFile /\ btree' = t
    BY <1>6
  <1>8. /\ TreeMade(btree, "any") /\ (distinct => TreeMade(btree, "strict")) /\ (~erased => TreeMade(btree, "tight"))
        /\ Plain /\ "btree" \in exact /\ (distinct \/ ~erased) => OneUnsaved /\ Numbered(Under(btree), Numbering)
    BY <1>7 DEF TreeInv
  <1>9. /\ TreeMade(t, "any") /\ (TreeMade(btree, "tight") => TreeMade(t, "tight"))
        /\ TreeMade(btree, "strict") => TreeMade(t, "strict") \/ Twice(Under(t), v)
        /\ \A R : Numbered(Under(btree), R) /\ <<v, n>> \notin R => Numbered(Under(t), R \cup {<<v, n>>})
    <2> HIDE DEF n
    <2>1. t = TreeInsert(btree, v, n)
      OBVIOUS
    <2> HIDE DEF t
    <2> QED BY <1>3, <1>8, <2>1, AfterInsert
  <1> HIDE DEF t, i
  <1>10. distinct' => distinct /\ TreeMade(t, "strict")
    <2>1. distinct' => distinct /\ Unique(t)
      BY <1>1, <1>7
    <2>2. Unique(t) => ~ Twice(Under(t), v)
      BY <1>7, UniqueTree
    <2> QED BY <1>8, <1>9, <2>1, <2>2
  <1>11. ~erased' => ~erased /\ TreeMade(t, "tight")
    BY <1>1, <1>8, <1>9
  <1>12. ASSUME Plain, "btree" \in exact', distinct' \/ ~erased'
         PROVE  OneUnsaved' /\ Numbered(Under(btree'), Numbering')
    <2>1. ok /\ "btree" \in exact
      BY <1>1, <1>12
    <2>2. \A l \in Key : Seen(l)' = IF l = k THEN v ELSE Seen(l)
      BY <1>5, <2>1 DEF Seen
    <2>3. /\ OneUnsaved' /\ <<v, n>> \notin Numbering /\ Numbering' = Numbering \cup {<<v, n>>}
      BY <1>1, <2>1, <2>2, NumbersAfterInsert
    <2>4. Numbered(Under(btree), Numbering)
      BY <1>8, <1>10, <1>11, <1>12, <2>1
    <2> HIDE DEF n
    <2>5. Numbered(Under(t), Numbering')
      BY <1>9, <2>3, <2>4
    <2> QED BY <1>7, <2>3, <2>5
  <1> QED BY <1>7, <1>9, <1>10, <1>11, <1>12

\* write_block with conditions.
LEMMA UpdateKeepsTree ==
  ASSUME FileInv, TreeInv, NEW c, NEW v \in Value, Update(c, v)
  PROVE  TreeInv'
  <1> DEFINE rows == MergedRows
             u == Chosen(rows, c)
             s == FoldLeft(LAMBDA x, i : Rewritten(rows[i], i - 1, v, x), [pool |-> pool, indexed |-> Indexed], u)
             t == s.indexed.btree
  <1>1. /\ pool' = s.pool /\ btree' = t /\ erased' = (erased \/ btree # NoFile)
        /\ exact' = (IF Leaving = {} THEN exact ELSE {}) /\ file' = file
        /\ distinct' = (distinct /\ Unique(btree'))
    BY DEF Update, Statement
  <1>2. s = UF!Fold([rows |-> rows, to |-> v], [pool |-> pool, indexed |-> Indexed], u)
    BY FoldsOfStatements
  <1>3. BP!Roomy(pool)
    BY DEF FileInv
  <1>4. /\ rows \in Seq(Rows) /\ \A r \in ToSet(rows) : Seen(r.key) # NoRow
    BY MergedRowsAre
  <1>5. u \in Seq(DOMAIN rows) /\ Once(u)
    BY <1>4, ChosenPlaces
  <1>6. Indexed.btree = btree
    BY DEF Indexed
  <1> HIDE DEF s, u, rows
  <1>7. \A k \in Key : BP!Visible(s.pool, k) = IF \E j \in ToSet(u) : rows[j].key = k THEN v ELSE Seen(k)
    BY <1>2, <1>3, <1>4, <1>5, PoolRewritten
  <1>8. t # NoFile =>
           /\ btree # NoFile /\ TreeMade(t, "any")
           /\ TreeMade(btree, "strict") =>
                \/ Twice(Under(t), v)
                \/ /\ TreeMade(t, "strict")
                   /\ Numbered(Under(btree), Paired(rows, {}, v)) /\ Once(u) =>
                        Numbered(Under(t), Paired(rows, ToSet(u), v))
    <2>1. Indexed.btree # NoFile => TreeMade(Indexed.btree, "any")
      BY <1>6 DEF TreeInv
    <2> QED BY <1>2, <1>4, <1>5, <1>6, <2>1, TreeRewritten
  <1> HIDE DEF t
  <1> SUFFICES ASSUME btree' # NoFile
               PROVE  /\ TreeMade(btree', "any")
                      /\ distinct' => TreeMade(btree', "strict")
                      /\ ~erased' => TreeMade(btree', "tight")
                      /\ Plain /\ "btree" \in exact' /\ (distinct' \/ ~erased') => OneUnsaved' /\ Numbered(Under(btree'), Numbering')
    BY DEF TreeInv
  <1>9. t # NoFile /\ btree # NoFile /\ TreeMade(t, "any") /\ erased'
    BY <1>1, <1>8
  <1>10. /\ distinct => TreeMade(btree, "strict")
         /\ Plain /\ "btree" \in exact /\ (distinct \/ ~erased) => OneUnsaved /\ Numbered(Under(btree), Numbering)
    BY <1>9 DEF TreeInv
  <1>11. distinct' => distinct /\ ~ Twice(Under(t), v)
    <2>1. distinct' => distinct /\ Unique(t)
      BY <1>1
    <2>2. Unique(t) => ~ Twice(Under(t), v)
      BY <1>9, UniqueTree
    <2> QED BY <2>1, <2>2
  <1>12. distinct' => TreeMade(t, "strict")
    BY <1>8, <1>9, <1>10, <1>11
  <1>13. ASSUME Plain, "btree" \in exact', distinct' \/ ~erased'
         PROVE  OneUnsaved' /\ Numbered(Under(btree'), Numbering')
    <2>1. Leaving = {} /\ "btree" \in exact /\ distinct' /\ distinct
      BY <1>1, <1>9, <1>11, <1>13
    <2>2. OneUnsaved /\ Numbered(Under(btree), Numbering)
      BY <1>10, <1>13, <2>1
    <2>3. Numbering = Kept(rows, {})
      BY <1>13, <2>1, <2>2, Places DEF rows
    <2>4. Kept(rows, {}) = Paired(rows, {}, v)
      BY DEF Kept, Paired
    <2>5. ToSet(u) \subseteq DOMAIN rows
      BY <1>5 DEF ToSet
    <2>6. \A k \in Key : Seen(k)' = IF \E j \in ToSet(u) : rows[j].key = k THEN v ELSE Seen(k)
      BY <1>1, <1>7 DEF Seen
    <2>7. OneUnsaved' /\ Numbering' = Paired(rows, ToSet(u), v)
      BY <1>1, <2>1, <2>2, <2>5, <2>6, NumbersAfterUpdate, <1>13 DEF rows
    <2>8. Numbered(Under(t), Paired(rows, ToSet(u), v))
      BY <1>5, <1>8, <1>9, <1>10, <1>11, <2>1, <2>2, <2>3, <2>4
    <2> QED BY <1>1, <2>7, <2>8
  <1> QED BY <1>1, <1>9, <1>12, <1>13

\* delete_block.
LEMMA DeleteKeepsTree ==
  ASSUME FileInv, TreeInv, NEW c, Delete(c)
  PROVE  TreeInv'
  <1> DEFINE rows == MergedRows
             u == Chosen(rows, c)
             p == FoldLeft(LAMBDA x, i : B!Deleted(x, rows[i].key), pool, u)
             s == FoldLeft(LAMBDA x, i : Removed(x, rows[i].value, i - 1), Indexed, u)
             t == s.btree
  <1>1. /\ pool' = p /\ btree' = t /\ erased' = (erased \/ btree # NoFile)
        /\ exact' = (IF Leaving = {} THEN exact ELSE {}) /\ file' = file
        /\ distinct' = (distinct /\ Unique(btree'))
    BY DEF Delete, Statement
  <1>2. p = DF!Fold(rows, pool, u) /\ s = RF!Fold(rows, Indexed, u)
    BY FoldsOfStatements
  <1>3. BP!Roomy(pool)
    BY DEF FileInv
  <1>4. /\ rows \in Seq(Rows) /\ BP!Distinct(rows) /\ \A r \in ToSet(rows) : Seen(r.key) # NoRow
    BY MergedRowsAre
  <1>5. u \in Seq(DOMAIN rows) /\ Once(u)
    BY <1>4, ChosenPlaces
  <1>6. Indexed.btree = btree
    BY DEF Indexed
  <1> HIDE DEF p, s, u, rows
  <1>7. \A k \in Key : BP!Visible(p, k) = IF \E j \in ToSet(u) : rows[j].key = k THEN NoRow ELSE Seen(k)
    BY <1>2, <1>3, <1>4, <1>5, PoolDeleted
  <1>8. t # NoFile =>
           /\ btree # NoFile /\ TreeMade(t, "any")
           /\ TreeMade(btree, "strict") =>
                /\ TreeMade(t, "strict")
                /\ Numbered(Under(btree), Kept(rows, {})) /\ Once(u) => Numbered(Under(t), Kept(rows, ToSet(u)))
    <2>1. Indexed.btree # NoFile => TreeMade(Indexed.btree, "any")
      BY <1>6 DEF TreeInv
    <2> QED BY <1>2, <1>4, <1>5, <1>6, <2>1, TreeRemoved
  <1> HIDE DEF t
  <1> SUFFICES ASSUME btree' # NoFile
               PROVE  /\ TreeMade(btree', "any")
                      /\ distinct' => TreeMade(btree', "strict")
                      /\ ~erased' => TreeMade(btree', "tight")
                      /\ Plain /\ "btree" \in exact' /\ (distinct' \/ ~erased') => OneUnsaved' /\ Numbered(Under(btree'), Numbering')
    BY DEF TreeInv
  <1>9. t # NoFile /\ btree # NoFile /\ TreeMade(t, "any") /\ erased'
    BY <1>1, <1>8
  <1>10. /\ distinct => TreeMade(btree, "strict")
         /\ Plain /\ "btree" \in exact /\ (distinct \/ ~erased) => OneUnsaved /\ Numbered(Under(btree), Numbering)
    BY <1>9 DEF TreeInv
  <1>11. distinct' => distinct
    BY <1>1
  <1>12. distinct' => TreeMade(t, "strict")
    BY <1>8, <1>9, <1>10, <1>11
  <1>13. ASSUME Plain, "btree" \in exact', distinct' \/ ~erased'
         PROVE  OneUnsaved' /\ Numbered(Under(btree'), Numbering')
    <2>1. Leaving = {} /\ "btree" \in exact /\ distinct' /\ distinct
      BY <1>1, <1>9, <1>11, <1>13
    <2>2. OneUnsaved /\ Numbered(Under(btree), Numbering)
      BY <1>10, <1>13, <2>1
    <2>3. Numbering = Kept(rows, {})
      BY <1>13, <2>1, <2>2, Places DEF rows
    <2>5. ToSet(u) \subseteq DOMAIN rows
      BY <1>5 DEF ToSet
    <2>6. \A k \in Key : Seen(k)' = IF \E j \in ToSet(u) : rows[j].key = k THEN NoRow ELSE Seen(k)
      BY <1>1, <1>7 DEF Seen
    <2>7. OneUnsaved' /\ Numbering' = Kept(rows, ToSet(u))
      BY <1>1, <2>1, <2>2, <2>5, <2>6, NumbersAfterDelete, <1>13 DEF rows
    <2>8. Numbered(Under(t), Kept(rows, ToSet(u)))
      BY <1>5, <1>8, <1>9, <1>10, <2>1, <2>2, <2>3
    <2> QED BY <1>1, <2>7, <2>8
  <1> QED BY <1>1, <1>9, <1>12, <1>13

\* save_buffer_to_disk.
LEMMA FlushKeepsTree ==
  ASSUME FileInv, TreeInv, Flush
  PROVE  TreeInv'
  <1> DEFINE dirty == \E b \in ToSet(pool.buffer) : b.is_dirty
             G == Filled(Saved)
  <1>1. /\ pool' = B!Flushed(pool) /\ file' = (IF dirty THEN Blocks(G) ELSE file)
        /\ exact' = (IF Leaving = {} THEN exact ELSE {}) /\ btree' = btree
        /\ distinct' = distinct /\ erased' = erased
    BY DEF Flush, Serialized
  <1>2. BP!Roomy(pool) /\ FromDisk(Scanned(file)) /\ \A k \in Key : k \in KeysOf(Scanned(file)) <=> pool.disk[k] # NoRow
    BY DEF FileInv
  <1>3. pool' = BP!Flushed(pool)
    BY <1>1, SameOperations
  <1>4. \A k \in Key : BP!Visible(pool', k) = Seen(k)
    BY <1>2, <1>3, NoRowAssumption, BP!FlushedRoomy DEF Seen
  <1>5. \A k \in Key : Seen(k)' = Seen(k)
    BY <1>4 DEF Seen
  <1>6. ASSUME "btree" \in exact', OneUnsaved
        PROVE  OneUnsaved' /\ Numbering' = Numbering
    <2>1. CASE ~dirty
      BY <1>1, <1>5, <1>6, <2>1, NumbersKept
    <2>2. CASE dirty
      <3>1. Leaving = {}
        BY <1>1, <1>6
      <3>2. G \in Seq(Rows) /\ BP!Distinct(G)
        BY <1>2, SavedShows
      <3>3. Scanned(file)' = G
        <4> HIDE DEF G
        <4>1. Scanned(Blocks(G)) = G
          BY <3>2, RoundTrip
        <4>2. Scanned(file)' = Scanned(file')
          BY DEF Scanned, Block
        <4> QED BY <1>1, <2>2, <4>1, <4>2
      <3> QED BY <1>5, <1>6, <3>1, <3>3, NumbersAfterFlush
    <2> QED BY <2>1, <2>2
  <1>7. "btree" \in exact' => "btree" \in exact
    BY <1>1
  <1> SUFFICES ASSUME btree' # NoFile
               PROVE  /\ TreeMade(btree', "any")
                      /\ distinct' => TreeMade(btree', "strict")
                      /\ ~erased' => TreeMade(btree', "tight")
                      /\ Plain /\ "btree" \in exact' /\ (distinct' \/ ~erased') => OneUnsaved' /\ Numbered(Under(btree'), Numbering')
    BY DEF TreeInv
  <1> HIDE DEF dirty, G
  <1> QED BY <1>1, <1>6, <1>7 DEF TreeInv

\* set_index and the removal of an index file.
LEMMA ReplaceKeepsTree ==
  ASSUME FileInv, TreeInv, NEW x \in Kinds, NEW f, Replace(x, f), f \in {NoFile, Built(x)}
  PROVE  TreeInv'
  <1> DEFINE F == Scanned(file)
  <1>1. /\ btree' = (IF x = "btree" THEN f ELSE btree) /\ file' = file /\ pool' = pool
        /\ exact' = (IF \A b \in ToSet(pool.buffer) : ~b.is_dirty THEN exact \cup {x} ELSE exact \ {x})
        /\ distinct' = (IF x = "btree" THEN Unique(f) ELSE distinct)
        /\ erased' = (erased /\ x # "btree")
    BY DEF Replace
  <1>2. F \in Seq(Rows)
    BY DEF FileInv, FromDisk
  <1>3. Numbering' = Numbering /\ (OneUnsaved => OneUnsaved')
    <2>1. \A k \in Key : Seen(k)' = Seen(k)
      BY <1>1 DEF Seen
    <2> QED BY <1>1, <2>1, NumbersKept
  <1> SUFFICES ASSUME btree' # NoFile
               PROVE  /\ TreeMade(btree', "any")
                      /\ distinct' => TreeMade(btree', "strict")
                      /\ ~erased' => TreeMade(btree', "tight")
                      /\ Plain /\ "btree" \in exact' /\ (distinct' \/ ~erased') => OneUnsaved' /\ Numbered(Under(btree'), Numbering')
    BY DEF TreeInv
  <1>4. CASE x = "btree"
    <2>1. f # NoFile /\ f = Built("btree") /\ btree' = f
      BY <1>1, <1>4
    <2>2. f = TF!Fold(F, EmptyTree, [j \in DOMAIN F |-> j])
      BY <2>1, FoldsOfStatements DEF Built
    <2>3. TreeMade(f, "any") /\ TreeMade(f, "tight") /\ Numbered(Under(f), Kept(F, {}))
      <3> HIDE DEF F
      <3> QED BY <1>2, <2>2, TreeBuilt
    <2>4. distinct' => TreeMade(f, "strict")
      BY <1>1, <1>4, <2>1, <2>3, UniqueTree
    <2>5. ASSUME Plain, "btree" \in exact' PROVE OneUnsaved' /\ Numbered(Under(f), Numbering')
      <3>1. \A b \in ToSet(pool.buffer) : ~b.is_dirty
        BY <1>1, <1>4, <2>5
      <3>2. OneUnsaved /\ Numbering = Kept(F, {})
        BY <2>5, <3>1, CleanNumbers
      <3> QED BY <1>3, <2>3, <3>2
    <2> QED BY <2>1, <2>3, <2>4, <2>5
  <1>5. CASE x # "btree"
    <2>1. btree' = btree /\ distinct' = distinct /\ (erased' <=> erased) /\ ("btree" \in exact' => "btree" \in exact)
      BY <1>1, <1>5
    <2> QED BY <1>3, <2>1 DEF TreeInv
  <1> QED BY <1>4, <1>5

\* All steps.
LEMMA StepKeepsTree ==
  ASSUME FileInv, TreeInv, [Next]_vars
  PROVE  TreeInv'
  <1>1. ASSUME NEW k \in Key, NEW v \in Value, Insert(k, v) PROVE TreeInv'
    BY <1>1, InsertKeepsTree
  <1>2. ASSUME NEW c \in Condition, NEW v \in Value, Update(c, v) PROVE TreeInv'
    BY <1>2, UpdateKeepsTree
  <1>3. ASSUME NEW c \in Condition, Delete(c) PROVE TreeInv'
    BY <1>3, DeleteKeepsTree
  <1>4. CASE Flush
    BY <1>4, FlushKeepsTree
  <1>5. ASSUME NEW x \in Kinds, Create(x) \/ SetIndex(x) \/ Drop(x) PROVE TreeInv'
    <2>1. PICK f \in {NoFile, Built(x)} : Replace(x, f)
      BY <1>5 DEF Create, SetIndex, Drop
    <2> QED BY <2>1, ReplaceKeepsTree
  <1>6. CASE UNCHANGED vars
    <2>1. /\ file' = file /\ pool' = pool /\ btree' = btree /\ exact' = exact
          /\ distinct' = distinct /\ erased' = erased
      BY <1>6 DEF vars
    <2>2. Numbering' = Numbering /\ (OneUnsaved => OneUnsaved')
      <3>1. \A k \in Key : Seen(k)' = Seen(k)
        BY <2>1 DEF Seen
      <3> QED BY <2>1, <3>1, NumbersKept
    <2> QED BY <2>1, <2>2 DEF TreeInv
  <1> QED BY <1>1, <1>2, <1>3, <1>4, <1>5, <1>6 DEF Next

\* The invariant of the B+ tree, on top of that of the file.
THEOREM TreeInvariant == Spec => [](FileInv /\ TreeInv)
  <1>1. Init => FileInv /\ TreeInv
    <2>1. Init => TreeInv
      BY DEF Init, TreeInv
    <2> QED BY <2>1, InitKeeps
  <1>2. (FileInv /\ TreeInv) /\ HashInv /\ HashInv' /\ FileInv' /\ [Next]_vars => (FileInv /\ TreeInv)'
    BY StepKeepsTree
  <1>3. FileInv /\ HashInv /\ [Next]_vars => FileInv' /\ HashInv'
    BY StepKeeps
  <1>4. Init => FileInv /\ HashInv
    BY InitKeeps
  <1> QED BY <1>1, <1>2, <1>3, <1>4, PTL DEF Spec

\* The B+ tree of the index file is a search tree after every statement: its leaves
\* have one depth and are sorted, the keys of a node lie between those of its
\* children and no node is overfull, whatever was inserted, updated and deleted,
\* and with duplicates too.
THEOREM TreeStaysOrdered == Spec => []TreeOrdered
  <1>1. TreeInv => TreeOrdered
    <2> SUFFICES ASSUME TreeInv, btree # NoFile PROVE Ordered(btree, 1, Max(Value))
      BY DEF TreeOrdered
    <2>1. TreeMade(btree, "any")
      BY DEF TreeInv
    <2>2. PICK h \in Nat : Tree(h, btree, 1, High, "any")
      BY <2>1 DEF TreeMade, IsTree
    <2>3. btree \in Nodes[h]
      BY <2>2, TreeIs
    <2>4. btree.height = h
      BY <2>3, NodeFields
    <2>5. [node |-> btree, low |-> 1, high |-> High] \in SearchTrees[h]
      BY <2>2, TreeIsSearchTree, Zenon
    <2> QED BY <2>4, <2>5, Zenon DEF Ordered, High
  <1> QED BY <1>1, TreeInvariant, PTL

\* While at most one row is unsaved, a number belongs to one value.
LEMMA NumberOfOne ==
  ASSUME FileInv, OneUnsaved, NEW v, NEW w, NEW i, <<v, i>> \in Numbering, <<w, i>> \in Numbering
  PROVE  v = w
  <1> DEFINE F == Scanned(file)
  <1>1. PICK k \in Key : At(i, k) /\ Seen(k) = v
    BY DEF Numbering
  <1>2. PICK l \in Key : At(i, l) /\ Seen(l) = w
    BY DEF Numbering
  <1>3. v # NoRow /\ w # NoRow
    BY NoRowAssumption DEF Numbering
  <1>4. F \in Seq(Rows)
    BY DEF FileInv, FromDisk
  <1>5. /\ (i + 1 \in DOMAIN F /\ F[i + 1].key = k) \/ (i = Len(F) /\ k \notin KeysOf(F))
        /\ (i + 1 \in DOMAIN F /\ F[i + 1].key = l) \/ (i = Len(F) /\ l \notin KeysOf(F))
    BY <1>1, <1>2 DEF At
  <1>6. \A a, b \in Key \ KeysOf(F) : Seen(a) # NoRow /\ Seen(b) # NoRow => a = b
    BY DEF OneUnsaved
  <1> HIDE DEF F
  <1>7. i = Len(F) => i + 1 \notin DOMAIN F
    BY <1>4
  <1>8. k = l
    BY <1>1, <1>2, <1>3, <1>5, <1>6, <1>7
  <1> QED BY <1>1, <1>2, <1>8

\* The end of a list that has no element twice.
LEMMA OnceEnd ==
  ASSUME NEW a \in Seq(Entry), NEW b \in Seq(Entry), Once(Cat(a, b))
  PROVE  Once(b)
  <1> DEFINE m == Len(a)
             n == Len(b)
             c == Cat(a, b)
  <1>1. m \in Nat /\ n \in Nat /\ DOMAIN b = 1 .. n
    OBVIOUS
  <1>2. Spliced(Entry, c, a, b, m, n)
    BY <1>1, AllCat
  <1> HIDE DEF c, m, n
  <1>3. DOMAIN c = 1 .. m + n /\ \A j \in 1 .. n : c[m + j] = b[j]
    BY <1>1, <1>2 DEF Spliced
  <1>4. \A j \in 1 .. n : m + j \in 1 .. m + n
    BY <1>1
  <1>5. \A j, k \in 1 .. n : b[j] = b[k] => m + j = m + k
    BY <1>3, <1>4 DEF Once, c
  <1>6. \A j, k \in 1 .. n : m + j = m + k => j = k
    BY <1>1
  <1> QED BY <1>1, <1>5, <1>6 DEF Once

\* The numbers of the values in K that are not above a bound.
NumbersOf(K, bound) == {i \in Nat : \E k \in K : <<k, i>> \in Numbering /\ (bound = NoBound \/ k <= bound)}

\* What a search gives: these numbers, each once.
Gives(found, K, bound) == found \in Seq(Nat) /\ Once(found) /\ ToSet(found) = NumbersOf(K, bound)

\* The loop over the leaves that a search has reached.
LEMMA ReachedGives ==
  ASSUME FileInv, OneUnsaved, NEW u \in Seq(Entry), Numbered(u, Numbering), InOrder(u),
         NEW key \in Nat, NEW past \in BOOLEAN, NEW mode, ~past \/ mode = "strict",
         NEW q, Reached(q, u, key, past, mode), NEW K, \A k \in K : k \in Nat /\ key <= k, NEW bound \in Nat
  PROVE  Gives(ValuesOf(IF bound = NoBound THEN Entries(q) ELSE UpTo(Entries(q), bound), K), K, bound)
  <1> DEFINE e == Entries(q)
             s == IF bound = NoBound THEN e ELSE UpTo(e, bound)
             S == ToSet(u)
  <1>1. PICK a \in Seq(Entry) : u = Cat(a, e) /\ \A x \in ToSet(a) : x.key < key
    BY DEF Reached
  <1>2. e \in Seq(Entry)
    BY EntriesAppend DEF Reached
  <1> HIDE DEF e
  <1>3. ToSet(u) = ToSet(a) \cup ToSet(e) /\ InOrder(e)
    BY <1>1, <1>2, ConcatSet, InOrderConcat
  <1>4. Once(e)
    BY <1>1, <1>2, OnceEnd DEF Numbered
  <1>5. /\ s \in Seq(Entry) /\ Once(s)
        /\ ToSet(s) = {x \in ToSet(e) : bound = NoBound \/ x.key <= bound}
    BY <1>2, <1>3, <1>4, UpToIs
  <1> HIDE DEF s
  <1>6. \A x \in S : x \in Entry /\ <<x.key, x.value>> \in Numbering
    <2>1. \A x \in S : x \in Entry
      BY DEF ToSet
    <2>2. \A x \in S : <<x.key, x.value>> \in Numbering
      BY DEF Numbered
    <2> QED BY <2>1, <2>2
  <1>7. Telling(S, K)
    <2>1. \A x \in S : x.value \in Nat
      BY <1>6 DEF Numbering
    <2>2. ASSUME NEW x \in S, NEW y \in S, x.value = y.value PROVE x = y
      <3>1. x.key = y.key
        BY <1>6, <2>2, NumberOfOne
      <3>2. x \in Entry /\ y \in Entry
        BY <1>6
      <3>3. \A f, g \in Entry : f.key = g.key /\ f.value = g.value => f = g
        BY DEF Entry
      <3> QED BY <2>2, <3>1, <3>2, <3>3
    <2> HIDE DEF S
    <2> QED BY <2>1, <2>2 DEF Telling
  <1> DEFINE r == ValuesOf(s, K)
  <1>8. /\ r \in Seq(Nat) /\ Once(r)
        /\ \A i : i \in ToSet(r) <=> \E x \in ToSet(s) : x.key \in K /\ x.value = i
    <2>1. ToSet(s) \subseteq S
      BY <1>3, <1>5
    <2> HIDE DEF S
    <2> QED BY <1>5, <1>7, <2>1, ValuesOfAre
  <1> HIDE DEF r
  <1>9. \A i \in ToSet(r) : i \in Nat
    BY <1>8 DEF ToSet
  <1>10. ASSUME NEW i \in ToSet(r) PROVE i \in NumbersOf(K, bound)
    <2>1. PICK x \in ToSet(s) : x.key \in K /\ x.value = i
      BY <1>8
    <2>2. x \in S /\ (bound = NoBound \/ x.key <= bound)
      BY <1>3, <1>5, <2>1
    <2>3. <<x.key, i>> \in Numbering
      BY <1>6, <2>1, <2>2
    <2> QED BY <1>9, <2>1, <2>2, <2>3 DEF NumbersOf
  <1>11. ASSUME NEW i \in NumbersOf(K, bound) PROVE i \in ToSet(r)
    <2>1. PICK k \in K : <<k, i>> \in Numbering /\ (bound = NoBound \/ k <= bound)
      BY DEF NumbersOf
    <2> DEFINE x == [key |-> k, value |-> i]
    <2>2. x \in S
      BY <2>1 DEF Numbered
    <2>3. x.key = k /\ x.value = i
      OBVIOUS
    <2> HIDE DEF x
    <2>4. x \notin ToSet(a)
      <3>1. k \in Nat /\ key <= k
        BY <2>1
      <3>2. ~ (k < key)
        BY <3>1
      <3> QED BY <1>1, <2>3, <3>2
    <2>5. x \in ToSet(s)
      BY <1>3, <1>5, <2>1, <2>2, <2>3, <2>4
    <2> QED BY <1>8, <2>1, <2>3, <2>5
  <1>12. ToSet(r) = NumbersOf(K, bound)
    BY <1>10, <1>11
  <1> QED BY <1>8, <1>12 DEF Gives, r, s, e

\* search, in a tree without duplicates or from which nothing was removed.
LEMMA SearchGives ==
  ASSUME FileInv, OneUnsaved, NEW t, NEW mode \in {"strict", "tight"}, TreeMade(t, mode),
         Numbered(Under(t), Numbering), NEW v \in Value
  PROVE  Gives(Search(t, v), {v}, v)
  <1>1. PICK h \in Nat : Tree(h, t, 1, High, mode)
    BY DEF TreeMade, IsTree
  <1>2. v \in Nat /\ v # NoBound
    BY ValueAssumption DEF NoBound
  <1>3. Under(t) \in Seq(Entry) /\ InOrder(Under(t))
    BY <1>1, TreeIs, UnderIs, TreeInOrder
  <1> DEFINE found == v \in ToSet(FindLeaf(t, v).keys)
             s == UpTo(Entries(LeavesFrom(t, v, FALSE)), v)
             r == ValuesOf(s, {v})
  <1>4. Search(t, v) = IF found THEN r ELSE <<>>
    BY DEF Search
  <1>5. Gives(r, {v}, v)
    <2> DEFINE q == LeavesFrom(t, v, FALSE)
               p == FALSE
    <2>0. p \in BOOLEAN /\ ~p
      OBVIOUS
    <2>1. Reached(q, Under(t), v, p, mode)
      BY <1>1, <1>2, LeavesFromMeans
    <2>2. \A k \in {v} : k \in Nat /\ v <= k
      BY <1>2
    <2> HIDE DEF q, p
    <2>3. Gives(ValuesOf(IF v = NoBound THEN Entries(q) ELSE UpTo(Entries(q), v), {v}), {v}, v)
      BY <1>2, <1>3, <2>0, <2>1, <2>2, ReachedGives
    <2> QED BY <1>2, <2>3 DEF q
  <1>6. CASE found
    BY <1>4, <1>5, <1>6
  <1>7. CASE ~found
    <2>1. v \notin KeysUnder(t)
      BY <1>1, <1>2, <1>7, FindLeafMeans
    <2>2. NumbersOf({v}, v) = {}
      <3> SUFFICES ASSUME NEW i \in NumbersOf({v}, v) PROVE FALSE
        OBVIOUS
      <3>1. <<v, i>> \in Numbering
        BY DEF NumbersOf
      <3> DEFINE x == [key |-> v, value |-> i]
      <3>2. x \in ToSet(Under(t)) /\ x.key = v
        BY <3>1 DEF Numbered
      <3> HIDE DEF x
      <3> QED BY <2>1, <3>2 DEF KeysUnder
    <2>3. <<>> \in Seq(Nat) /\ Once(<<>>) /\ ToSet(<<>>) = {}
      BY DEF Once, ToSet
    <2> HIDE DEF found
    <2> QED BY <1>4, <1>7, <2>2, <2>3 DEF Gives
  <1> QED BY <1>6, <1>7

\* search_range, in a tree without duplicates.
LEMMA SearchRangeGives ==
  ASSUME FileInv, OneUnsaved, NEW t, NEW mode, mode = "strict", TreeMade(t, mode), Numbered(Under(t), Numbering),
         NEW low \in Nat, NEW high \in Nat
  PROVE  Gives(SearchRange(t, low, high), {k \in Nat : low <= k}, high)
  <1> DEFINE p == TRUE
             q == LeavesFrom(t, low, p)
             K == {k \in Nat : low <= k}
  <1>1. PICK h \in Nat : Tree(h, t, 1, High, mode)
    BY DEF TreeMade, IsTree
  <1>2. Under(t) \in Seq(Entry) /\ InOrder(Under(t))
    BY <1>1, TreeIs, UnderIs, TreeInOrder
  <1>3. p \in BOOLEAN
    OBVIOUS
  <1>4. SearchRange(t, low, high) = ValuesOf(IF high = NoBound THEN Entries(q) ELSE UpTo(Entries(q), high), K)
    BY DEF SearchRange
  <1> HIDE DEF p
  <1>5. Reached(q, Under(t), low, p, mode)
    BY <1>1, <1>3, LeavesFromMeans
  <1>6. \A k \in K : k \in Nat /\ low <= k
    OBVIOUS
  <1> HIDE DEF q, K
  <1>7. Gives(ValuesOf(IF high = NoBound THEN Entries(q) ELSE UpTo(Entries(q), high), K), K, high)
    BY <1>2, <1>3, <1>5, <1>6, ReachedGives
  <1> QED BY <1>4, <1>7 DEF K

\* The rows behind the numbers that a search gives answer its condition.
LEMMA GivenAnswers ==
  ASSUME FileInv, Plain, NEW low, NEW high, NEW K, NEW bound, NEW found, Gives(found, K, bound),
         \A k \in Value : k \in K /\ (bound = NoBound \/ k <= bound) <=> Within(k, low, high)
  PROVE  SameRows(IndexScan(found, low, high), Answer(MergedRows, low, high))
  <1>1. \A k \in Key : Seen(k) \in Value \cup {NoRow}
    BY PoolRows DEF FileInv
  <1>2. \A v, i : <<v, i>> \in Numbering <=> v \in Value /\ i \in Nat /\ \E k \in Key : At(i, k) /\ Seen(k) = v
    BY DEF Numbering
  <1>3. ASSUME NEW i \in Nat
        PROVE  i \in NumbersOf(K, bound) <=> \E k \in Key : At(i, k) /\ Seen(k) # NoRow /\ Within(Seen(k), low, high)
    <2>1. ASSUME i \in NumbersOf(K, bound)
          PROVE  \E k \in Key : At(i, k) /\ Seen(k) # NoRow /\ Within(Seen(k), low, high)
      <3>1. PICK v \in K : <<v, i>> \in Numbering /\ (bound = NoBound \/ v <= bound)
        BY <2>1 DEF NumbersOf
      <3>2. PICK k \in Key : At(i, k) /\ Seen(k) = v
        BY <1>2, <3>1
      <3>3. v \in Value /\ v # NoRow
        BY <1>2, <3>1, NoRowAssumption
      <3>4. Within(v, low, high)
        BY <3>1, <3>3
      <3> QED BY <3>2, <3>3, <3>4
    <2>2. ASSUME NEW k \in Key, At(i, k), Seen(k) # NoRow, Within(Seen(k), low, high)
          PROVE  i \in NumbersOf(K, bound)
      <3>1. Seen(k) \in Value
        BY <1>1, <2>2
      <3>2. <<Seen(k), i>> \in Numbering
        BY <1>2, <2>2, <3>1
      <3>3. Seen(k) \in K /\ (bound = NoBound \/ Seen(k) <= bound)
        BY <2>2, <3>1
      <3> QED BY <3>2, <3>3 DEF NumbersOf
    <2> QED BY <2>1, <2>2
  <1>4. ToSet(found) = {i \in Nat : \E k \in Key : At(i, k) /\ Seen(k) # NoRow /\ Within(Seen(k), low, high)}
    <2>1. ToSet(found) = NumbersOf(K, bound) /\ \A i \in NumbersOf(K, bound) : i \in Nat
      BY DEF Gives, NumbersOf
    <2> QED BY <1>3, <2>1
  <1> QED BY <1>4, ScanAnswers DEF Gives

\* An equality search through the B+ tree gives what a full scan gives, for every table,
\* every sequence of statements and every order of the tree, while the row numbers in
\* the index are those of the file, both ways to read a row give its text as it was
\* written, and the column has no duplicates or nothing was removed from the tree.
THEOREM TreeAnswers == Spec => []TreeScanAnswers
  <1>1. FileInv /\ TreeInv => TreeScanAnswers
    <2> SUFFICES ASSUME Plain, FileInv, TreeInv, btree # NoFile, "btree" \in exact, distinct \/ ~erased, NEW v \in Value
                 PROVE  SameRows(IndexScan(Search(btree, v), v, v), Answer(MergedRows, v, v))
      BY DEF TreeScanAnswers
    <2>1. OneUnsaved /\ Numbered(Under(btree), Numbering)
      BY DEF TreeInv
    <2>2. PICK mode \in {"strict", "tight"} : TreeMade(btree, mode)
      BY DEF TreeInv
    <2>3. Gives(Search(btree, v), {v}, v)
      BY <2>1, <2>2, SearchGives
    <2>4. \A k \in Value : k \in {v} /\ (v = NoBound \/ k <= v) <=> Within(k, v, v)
      BY ValueAssumption DEF Within, NoBound
    <2> DEFINE found == Search(btree, v)
               K == {v}
    <2> HIDE DEF found, K
    <2>5. Gives(found, K, v) /\ \A k \in Value : k \in K /\ (v = NoBound \/ k <= v) <=> Within(k, v, v)
      BY <2>3, <2>4 DEF found, K
    <2> QED BY <2>5, GivenAnswers DEF found
  <1> QED BY <1>1, TreeInvariant, PTL

\* So does a range search, with any bounds or none, when the column has no duplicates.
THEOREM RangeAnswers == Spec => []RangeScanAnswers
  <1>1. FileInv /\ TreeInv => RangeScanAnswers
    <2> SUFFICES ASSUME Plain, FileInv, TreeInv, btree # NoFile, "btree" \in exact, distinct,
                        NEW low \in Value \cup {NoBound}, NEW high \in Value \cup {NoBound}
                 PROVE  SameRows(IndexScan(SearchRange(btree, low, high), low, high), Answer(MergedRows, low, high))
      BY DEF RangeScanAnswers
    <2>1. OneUnsaved /\ Numbered(Under(btree), Numbering) /\ TreeMade(btree, "strict")
      BY DEF TreeInv
    <2>2. low \in Nat /\ high \in Nat
      BY ValueAssumption DEF NoBound
    <2> DEFINE found == SearchRange(btree, low, high)
               K == {k \in Nat : low <= k}
    <2>3. Gives(found, K, high)
      BY <2>1, <2>2, SearchRangeGives
    <2>4. \A k \in Value : k \in K /\ (high = NoBound \/ k <= high) <=> Within(k, low, high)
      BY ValueAssumption DEF Within
    <2> HIDE DEF found, K
    <2> QED BY <2>3, <2>4, GivenAnswers DEF found
  <1> QED BY <1>1, TreeInvariant, PTL

================================================================================
