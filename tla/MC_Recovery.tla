------------------------------ MODULE MC_Recovery ------------------------------
(* Workloads for model checking Recovery.                                   *)
EXTENDS Recovery, TLC

Symmetric == Permutations(Key) \cup Permutations(Row)

\* Updates by two clients, uncommitted rows pushed to disk by a full buffer and
\* by the other's commits, crashes while serving and inside a commit.
Updates ==
  [tx |-> {1, 2}, writes |-> 2, ops |-> {"update"}, capacity |-> 1, alone |-> FALSE,
   serial |-> TRUE, overwrite |-> FALSE, crash |-> {"serving", "commit"}]

\* With deletions, which the redo pass would lose: no crash inside a commit.  One
\* client after another, uncommitted rows pushed to disk by a full buffer ...
Deletes ==
  [Updates EXCEPT !.ops = {"update", "delete"}, !.alone = TRUE, !.crash = {"serving"}]

\* ... or by the others' commits, which also cut the log.
Cuts ==
  [Deletes EXCEPT !.tx = {1, 2, 3}, !.writes = 1, !.ops = {"delete"},
                  !.capacity = Cardinality(Key), !.alone = FALSE]

\* Insertions by one client after another, all in the buffer until the commit;
\* crashes anywhere.
Inserts ==
  [Updates EXCEPT !.ops = {"insert", "update"}, !.capacity = Cardinality(Key),
                  !.alone = TRUE, !.crash = CrashPoint]

SafeWorkloads == {Updates, Deletes, Cuts, Inserts}

\* One client deletes and inserts, nothing crashes.
ReinsertWorkloads == {[Inserts EXCEPT !.ops = {"insert", "delete"}, !.crash = {}]}

\* One client deletes, and the server crashes while it commits.
LostDeleteWorkloads == {[Deletes EXCEPT !.crash = {"commit"}]}

\* A wounded transaction's row is written and committed by the one that wounded it.
OverwriteWorkloads ==
  {[Updates EXCEPT !.overwrite = TRUE, !.capacity = Cardinality(Key), !.crash = {}]}

================================================================================
