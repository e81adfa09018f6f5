------------------------------ MODULE AtomicStore ------------------------------
(***************************************************************************)
(* What a client may rely on: a transaction's writes take effect together,  *)
(* when it commits, or never; a rollback and a crash undo only what was not *)
(* committed.                                                               *)
(***************************************************************************)
EXTENDS Sequences, SequencesExt

CONSTANTS Tx, Key, Row, NoRow

VARIABLES
  db,       \* the committed contents of the database
  writes    \* Tx -> the writes of the transaction that are neither committed nor undone

Effect(d, ws) == FoldLeft(LAMBDA acc, w : [acc EXCEPT ![w.key] = w.row], d, ws)

Init ==
  /\ db \in [Key -> Row \cup {NoRow}]
  /\ writes = [t \in Tx |-> <<>>]

Write(t) ==
  /\ \E k \in Key, row \in Row \cup {NoRow} :
       writes' = [writes EXCEPT ![t] = Append(@, [key |-> k, row |-> row])]
  /\ UNCHANGED db

Commit(t) ==
  /\ db' = Effect(db, writes[t])
  /\ writes' = [writes EXCEPT ![t] = <<>>]

Abort(t) ==
  /\ writes' = [writes EXCEPT ![t] = <<>>]
  /\ UNCHANGED db

Crash ==
  /\ writes' = [t \in Tx |-> <<>>]
  /\ UNCHANGED db

Next == Crash \/ \E t \in Tx : Write(t) \/ Commit(t) \/ Abort(t)

Spec == Init /\ [][Next]_<<db, writes>>

================================================================================
