-------------------------------- MODULE Sessions --------------------------------
(***************************************************************************)
(* The sessions of the clients in the query processor: a thread per client  *)
(* executes its statements, in an explicit transaction or in one of their   *)
(* own (auto-commit), through the concurrency control manager.              *)
(*                                                                          *)
(* The transaction of a client is kept in its session and copied to         *)
(* current_transaction_id of the query processor, which all threads share   *)
(* and which every access reads anew.  A step is what a thread does from    *)
(* one access to shared state to the next.  What an access does to the      *)
(* rows is in Statements, what it does to log and buffer in Recovery.       *)
(* Rows that foreign keys make a statement look up or delete are not among  *)
(* its accesses: the manager hears nothing of them.                         *)
(***************************************************************************)
EXTENDS Strategies

CONSTANTS
  Clients,        \* numbers, in the order of the addresses as strings
  Queries,        \* statements: sequences of accesses <<table, action>>
  Cascades,       \* <<table, dependent>>: a foreign key with ON DELETE CASCADE
  Mechanisms,     \* those that clients may change to
  Hash,           \* the hash of the name of a transaction: a random number
  MaxTx,          \* bound: transactions begun
  RetryMax,       \* CCM_RETRY_MAX
  MaxSerial,      \* bound: statements sent in all, one after the other,
  MaxConcurrent   \* or at the same time

Tables == UNION {{q[i][1] : i \in DOMAIN q} : q \in Queries}
\* A query reads; INSERT, UPDATE and DELETE write; CREATE TABLE and DROP TABLE.
Actions == {"read", "write", "create", "drop"}

ASSUME SessionsAssumption ==
  /\ Clients \subseteq Nat \ {0} /\ MaxTx \in Nat
  /\ Hash \in [Clients \X (1 .. MaxTx) -> Int \ {0}]
  /\ Mechanisms \subseteq {"timestamp-based", "validation-based", "multi-version"}
  /\ Queries \subseteq Seq(Tables \X Actions) \ {<<>>}
  /\ Cascades \subseteq Tables \X Tables
  /\ RetryMax \in Nat /\ MaxSerial \in Nat /\ MaxConcurrent \in Nat

VARIABLES
  sessions,    \* by client: transaction, explicit, failed, modified tables
  shared,      \* QueryProcessor.current_transaction_id
  thread,      \* by client: where it is in its statement, and what is left of it
  strategy,    \* the strategy in use
  active,      \* TransactionManager.active_transactions
  begun,       \* TransactionManager.transactions
  serial,      \* no statement is sent before the answer to the one before it
  sent,        \* how many statements have been sent
  \* history
  committed,   \* transactions
  raised,      \* transactions one of whose statements has failed
  touched,     \* by table and action, or "cascade": the transactions that have done it
  before       \* <<t, u>>: under timestamps, u made an access that conflicts with one of t

vars == <<sessions, shared, thread, strategy, active, begun, serial, sent, committed, raised, touched, before>>
history == <<committed, raised, touched, before>>

--------------------------------------------------------------------------------

NewSession == [tx |-> NoTx, explicit |-> FALSE, failed |-> FALSE, modified |-> {}]
Kinds == Actions \cup {"cascade"}
Running(at, auto, todo) == [at |-> at, auto |-> auto, todo |-> todo, tries |-> 0]
Idle == Running("idle", FALSE, <<>>)

\* A client has changed to timestamps already.
Init ==
  /\ sessions = [c \in Clients |-> NewSession]
  /\ shared = NoTx
  /\ thread = [c \in Clients |-> Idle]
  /\ strategy = NewStrategy("timestamp-based")
  /\ active = {} /\ begun = {}
  /\ serial \in BOOLEAN /\ sent = 0
  /\ committed = {} /\ raised = {} /\ before = {}
  /\ touched = [x \in Tables |-> [k \in Kinds |-> {}]]

Goto(c, at) == thread' = [thread EXCEPT ![c].at = at]
Answered(c) == thread' = [thread EXCEPT ![c] = Idle]
Is(c, at) == thread[c].at = at
Tx(c) == sessions[c].tx

\* Client c sends a statement and its thread takes it, or refuses it at once.
Sends(c) ==
  /\ Is(c, "idle")
  /\ serial => \A d \in Clients : Is(d, "idle")
Refuses(c) == Sends(c) /\ UNCHANGED vars
Takes(c) ==
  /\ Sends(c)
  /\ sent < IF serial THEN MaxSerial ELSE MaxConcurrent
  /\ sent' = sent + 1
  /\ UNCHANGED <<strategy, active, begun, serial, committed, touched, before>>
TakesTo(c, at) == Takes(c) /\ Goto(c, at) /\ UNCHANGED <<sessions, shared, raised>>

TakesToBegin(c, query, auto) ==
  /\ Cardinality(begun) + Cardinality({d \in Clients : Is(d, "begin")}) < MaxTx
  /\ Takes(c)
  /\ thread' = [thread EXCEPT ![c] = Running("begin", auto, query)]
  /\ UNCHANGED <<sessions, shared, raised>>

--------------------------------------------------------------------------------
(* BEGIN, COMMIT, ROLLBACK, SET CONCURRENCY                                 *)

HandleBegin(c) == IF Tx(c) = NoTx THEN TakesToBegin(c, <<>>, FALSE) ELSE Refuses(c)

\* Variant: a failed transaction may commit.
HandleCommitAnyway(c) == IF Tx(c) = NoTx THEN Refuses(c) ELSE TakesTo(c, "commit")

HandleCommit(c) == IF Tx(c) = NoTx \/ sessions[c].failed THEN Refuses(c) ELSE TakesTo(c, "commit")

HandleRollback(c) == IF Tx(c) = NoTx THEN Refuses(c) ELSE TakesTo(c, "abort")

\* set_concurrency_mechanism looks for active transactions first.
HandleSetConcurrency(c) == IF active # {} THEN Refuses(c) ELSE TakesTo(c, "switch")

Switch(c) ==
  /\ Is(c, "switch")
  /\ \E m \in Mechanisms : strategy' = NewStrategy(m)
  /\ Answered(c)
  /\ UNCHANGED <<sessions, shared, active, begun, serial, sent, history>>

--------------------------------------------------------------------------------
(* Any other statement                                                      *)

\* The statement fails: in an explicit transaction it fails that, too.
MarkFailed(c) ==
  /\ sessions' = [sessions EXCEPT ![c].failed = TRUE]
  /\ raised' = raised \cup {Tx(c)}

\* Without a semicolon: nothing is begun.
HandleUnterminated(c) ==
  IF ~sessions[c].explicit \/ sessions[c].failed THEN Refuses(c)
  ELSE Takes(c) /\ MarkFailed(c) /\ UNCHANGED <<thread, shared>>

\* The parser refuses it, in an explicit transaction or in one of its own.
HandleUnparsed(c) ==
  CASE ~sessions[c].explicit -> TakesToBegin(c, <<>>, TRUE)
    [] sessions[c].failed -> Refuses(c)
    [] OTHER -> TakesTo(c, "raised")

\* Variant: the statement runs under the transaction that was there last.
ExplicitUnset(c, query) ==
  /\ Takes(c)
  /\ thread' = [thread EXCEPT ![c] = Running("validate", FALSE, query)]
  /\ UNCHANGED <<sessions, shared, raised>>

\* In an explicit transaction: it becomes the current one of all threads.
Explicit(c, query) ==
  /\ Takes(c)
  /\ thread' = [thread EXCEPT ![c] = Running("validate", FALSE, query)]
  /\ shared' = Tx(c)
  /\ UNCHANGED <<sessions, raised>>

HandleQuery(c) ==
  \E query \in Queries :
    CASE ~sessions[c].explicit -> TakesToBegin(c, query, TRUE)
      [] sessions[c].failed -> Refuses(c)
      [] OTHER -> Explicit(c, query)

--------------------------------------------------------------------------------
(* Transactions                                                             *)

\* Variant: an auto-commit transaction is not noted in the session.
BegunUnnoted(c, tx) == sessions' = IF thread[c].auto THEN sessions ELSE [sessions EXCEPT ![c] = [@ EXCEPT !.tx = tx, !.explicit = TRUE]]

BegunBy(c, tx) == sessions' = [sessions EXCEPT ![c] = [@ EXCEPT !.tx = tx, !.explicit = TRUE]]

\* begin_transaction; the statement of an auto-commit transaction goes on.
Begin(c) ==
  LET tx == <<c, 1 + Cardinality({t \in begun : t[1] = c})>>
      next == IF thread[c].todo = <<>> THEN "raised" ELSE "validate"
  IN /\ Is(c, "begin")
     /\ begun' = begun \cup {tx}
     /\ active' = active \cup {tx}
     /\ BegunBy(c, tx)
     /\ shared' = tx
     /\ IF thread[c].auto THEN Goto(c, next) ELSE Answered(c)
     /\ UNCHANGED <<strategy, serial, sent, history>>

Ended(tx) ==
  /\ active' = active \ {tx}
  /\ strategy' = EndTransaction(strategy, tx, active)

\* An exception in _commit: auto-commit handles it, COMMIT leaves it to the server,
\* which answers.  The session keeps its transaction.
CommitRaises(c) == IF thread[c].auto THEN Goto(c, "raised") ELSE Answered(c)

\* A transaction that has ended cannot commit; one that can has ended when the flush fails.
Commit(c) ==
  /\ Is(c, "commit")
  /\ IF Tx(c) \in active
       THEN /\ Ended(Tx(c))
            /\ committed' = committed \cup {Tx(c)}
            /\ Goto(c, "refresh") \/ CommitRaises(c)
       ELSE CommitRaises(c) /\ UNCHANGED <<strategy, active, committed>>
  /\ UNCHANGED <<sessions, shared, begun, serial, sent, raised, touched, before>>

\* The statistics of the modified tables are computed anew, and the session is reset;
\* the set of the tables may grow meanwhile, a table not be there.
Refresh(c) ==
  /\ Is(c, "refresh")
  /\ \/ sessions' = [sessions EXCEPT ![c] = NewSession] /\ Answered(c)
     \/ sessions[c].modified # {} /\ CommitRaises(c) /\ UNCHANGED sessions
  /\ UNCHANGED <<shared, strategy, active, begun, serial, sent, history>>

\* The history keeps nothing of a transaction that is undone.
Forget(tx) ==
  /\ raised' = raised \ {tx}
  /\ touched' = [x \in Tables |-> [k \in Kinds |-> touched[x][k] \ {tx}]]
  /\ before' = {e \in before : e[1] # tx /\ e[2] # tx}

\* abort_transaction undoes what the log has of the transaction, also if it has ended;
\* undo and flush may raise before the session is reset.
Abort(c) ==
  /\ Is(c, "abort")
  /\ IF Tx(c) \in active THEN Ended(Tx(c)) /\ Forget(Tx(c))
                         ELSE UNCHANGED <<active, strategy, raised, touched, before>>
  /\ sessions' \in {sessions, [sessions EXCEPT ![c] = NewSession]}
  /\ Answered(c)
  /\ UNCHANGED <<shared, begun, serial, sent, committed>>

--------------------------------------------------------------------------------
(* The accesses of a statement, each under the current transaction          *)

Access(c) == Head(thread[c].todo)
Action(c) == Access(c)[2]
\* The action that the manager is told.
Mode(c) == IF Action(c) = "read" THEN "read" ELSE "write"

\* An access is over: the next one, or the end of the statement.
Finish(c) ==
  LET rest == Tail(thread[c].todo) IN
  CASE rest # <<>> -> thread' = [thread EXCEPT ![c] = Running("validate", thread[c].auto, rest)]
    [] rest = <<>> /\ thread[c].auto -> Goto(c, "commit")
    [] OTHER -> Answered(c)

\* An exception within an access; CREATE and DROP make it a message.
Raise(c) == IF Action(c) \in {"create", "drop"} THEN Finish(c) ELSE Goto(c, "raised")

\* Variant: as often as it takes.
RetryForever(c) == Goto(c, "validate")

\* Variant: once too often.
RetryOnceMore(c) ==
  IF thread[c].tries <= RetryMax THEN thread' = [thread EXCEPT ![c].tries = @ + 1] ELSE Raise(c)

\* A denied access is tried again; then it is an exception.
Retry(c) ==
  IF thread[c].tries < RetryMax THEN thread' = [thread EXCEPT ![c].tries = @ + 1] ELSE Raise(c)

Validate(c) ==
  LET answer == IF shared \notin active THEN "denied"
                ELSE ValidateObject(strategy, Access(c)[1], shared, Hash[shared], Mode(c))
  IN /\ Is(c, "validate")
     /\ CASE answer = "allowed" -> Goto(c, "log")
          [] answer = "denied" -> Retry(c)
          [] answer = "raise" -> Raise(c)
     /\ UNCHANGED <<sessions, shared, strategy, active, begun, serial, sent, history>>

\* execute_operation; the transaction may have ended since.
Log(c) ==
  /\ Is(c, "log")
  /\ IF shared \notin active THEN Raise(c) /\ UNCHANGED strategy
     ELSE /\ Goto(c, "perform")
          /\ strategy' = LogObject(strategy, Access(c)[1], shared, Hash[shared], Mode(c))
  /\ UNCHANGED <<sessions, shared, active, begun, serial, sent, history>>

\* Variant: every session with a transaction.
TrackedByAll(table) ==
  [c \in Clients |-> IF Tx(c) # NoTx THEN [sessions[c] EXCEPT !.modified = @ \cup {table}] ELSE sessions[c]]

\* _track_modified_table: the session that has the current transaction.
Tracked(table) ==
  [c \in Clients |-> IF Tx(c) = shared THEN [sessions[c] EXCEPT !.modified = @ \cup {table}] ELSE sessions[c]]

\* The transactions that have read, or changed, a table through the manager, and those
\* that have changed it and note it as modified.
Readers(table) == touched[table]["read"]
Writers(table) == touched[table]["write"] \cup touched[table]["create"] \cup touched[table]["drop"]
Modifiers(table) == touched[table]["write"] \cup touched[table]["create"]

\* The history of the accesses, of statements that do not overlap: <<table, kind>>.
Touches(accesses) ==
  IF ~serial THEN UNCHANGED touched
  ELSE touched' = [x \in Tables |-> [k \in Kinds |->
                     IF <<x, k>> \in accesses THEN touched[x][k] \cup {shared} ELSE touched[x][k]]]

\* Those that an access is in conflict with come before its transaction.
Follows(table, mode) ==
  LET conflicting == Writers(table) \cup IF mode = "write" THEN Readers(table) ELSE {} IN
  before' = IF ~serial \/ strategy.mechanism # "timestamp-based" THEN before
            ELSE before \cup ((conflicting \ {shared}) \X {shared})

\* The tables that lose rows to a DELETE or DROP: any of those that refer to the table.
CascadesOf(c) ==
  LET dependents == IF Action(c) \in {"write", "drop"} THEN {d \in Tables : <<Access(c)[1], d>> \in Cascades} ELSE {}
  IN {S \X {"cascade"} : S \in SUBSET dependents}

\* The rows are read or changed; those of other tables as well, which nothing notes.
Perform(c) ==
  /\ Is(c, "perform")
  /\ \E cascade \in CascadesOf(c) : Touches({Access(c)} \cup cascade)
  /\ Follows(Access(c)[1], Mode(c))
  /\ sessions' = IF Action(c) \in {"write", "create"} THEN Tracked(Access(c)[1]) ELSE sessions
  /\ Finish(c)
  /\ UNCHANGED <<shared, strategy, active, begun, serial, sent, committed, raised>>

\* A message and no exception: a foreign key is violated, a table is there or is not.
\* Rows that refer to other rows of the statement may have been deleted before.
PerformRefused(c) ==
  /\ Is(c, "perform") /\ Action(c) # "read"
  /\ \E cascade \in CascadesOf(c) : Touches(cascade)
  /\ Finish(c)
  /\ UNCHANGED <<sessions, shared, strategy, active, begun, serial, sent, committed, raised, before>>

\* The same of a CREATE with a reference to nothing, before it asks the manager.
CreateRefused(c) ==
  /\ Is(c, "validate") /\ thread[c].tries = 0 /\ Action(c) = "create"
  /\ Finish(c)
  /\ UNCHANGED <<sessions, shared, strategy, active, begun, serial, sent, history>>

\* A row is refused, a table is not there.
PerformRaises(c) ==
  /\ Is(c, "perform") /\ Action(c) \in {"read", "write"}
  /\ \E cascade \in CascadesOf(c) : Touches(cascade)
  /\ Goto(c, "raised")
  /\ UNCHANGED <<sessions, shared, strategy, active, begun, serial, sent, committed, raised, before>>

\* The exception handlers: auto-commit rolls back if there is a current transaction.
Except(c) ==
  /\ Is(c, "raised")
  /\ IF thread[c].auto
       THEN /\ IF shared # NoTx THEN Goto(c, "abort") ELSE Answered(c)
            /\ raised' = raised \cup {Tx(c)}
            /\ UNCHANGED sessions
       ELSE MarkFailed(c) /\ Answered(c)
  /\ UNCHANGED <<shared, strategy, active, begun, serial, sent, committed, touched, before>>

--------------------------------------------------------------------------------

Statement(c) ==
  \/ HandleBegin(c) \/ HandleCommit(c) \/ HandleRollback(c) \/ HandleSetConcurrency(c)
  \/ HandleUnterminated(c) \/ HandleUnparsed(c) \/ HandleQuery(c)

Step(c) ==
  \/ Switch(c) \/ Begin(c) \/ Commit(c) \/ Refresh(c) \/ Abort(c)
  \/ Validate(c) \/ CreateRefused(c) \/ Log(c)
  \/ Perform(c) \/ PerformRefused(c) \/ PerformRaises(c) \/ Except(c)

Next == \E c \in Clients : Statement(c) \/ Step(c)

\* Every thread of the server runs on; no client need send anything.
Spec == Init /\ [][Next]_vars /\ \A c \in Clients : WF_vars(Step(c))

--------------------------------------------------------------------------------
(* Properties                                                               *)

TypeOK ==
  /\ \A c \in Clients :
       /\ Tx(c) \in begun \cup {NoTx} /\ sessions[c].modified \subseteq Tables
       /\ thread[c].tries \in 0 .. RetryMax /\ (Is(c, "validate") => thread[c].todo # <<>>)
  /\ shared \in begun \cup {NoTx}
  /\ active \cup committed \cup raised \subseteq begun
  /\ strategy.mechanism \in Mechanisms \cup {"timestamp-based"}

\* However the statements of the clients interleave, every active transaction is that of
\* a session, whose client can end it, and no two sessions share one: exceptions,
\* refusals and failures of COMMIT and ROLLBACK included (execute_query, _commit,
\* _rollback).  Such a failure leaves a session with a transaction that has ended.
TransactionsOwned ==
  /\ \A t \in active : \E c \in Clients : Tx(c) = t
  /\ \A c \in Clients : Is(c, "idle") => (sessions[c].explicit <=> Tx(c) # NoTx)
  /\ \A c, d \in Clients : c # d /\ Tx(c) # NoTx => Tx(c) # Tx(d)

\* A transaction is not committed after one of its statements has failed, whatever came
\* between them (transaction_failed, the error path of auto-commit).  To fail is to raise:
\* the errors that CREATE, DROP and foreign keys turn into messages do not count.
FailedNeverCommits == [][\A t \in committed' \ committed : t \notin raised]_vars

\* Not so: a commit makes all changes permanent (README.md:106).  abort_transaction takes
\* back what the log has of a transaction, and it is called for one that has changed
\* tables and has committed: its COMMIT is in the log, the flush after that has failed.
CommitsArePermanent ==
  serial => \A c \in Clients : Is(c, "abort") /\ Tx(c) \in committed => \A x \in Tables : Tx(c) \notin Modifiers(x)

\* When no two statements run at once, those of a client run under its own transaction
\* from the first access to the last, however the transactions overlap, and no access
\* that was let through is made after the transaction has ended.
RunsAsOwner ==
  serial => \A c \in Clients :
    /\ Is(c, "validate") \/ Is(c, "log") \/ Is(c, "perform") => shared = Tx(c)
    /\ Is(c, "log") \/ Is(c, "perform") => shared \in active

\* Then timestamps make the committed transactions serializable, over any number of
\* changes of the mechanism: conflicting accesses give an order.  The accesses are those
\* made through the manager, not the look-ups and deletions that foreign keys cause.
Serializable ==
  serial => \A S \in SUBSET committed : S # {} => \E t \in S : \A u \in S : <<u, t>> \notin before

\* Then a commit refreshes the statistics of every table that its transaction has changed
\* or created, of one dropped later as well, and of no other, whatever the transactions of
\* other clients have changed in between: all but the tables that have only lost rows to a
\* cascade, for _handle_fk_on_delete and _drop_table note nothing (_track_modified_table).
RefreshesOwn ==
  serial => \A c \in Clients : Is(c, "refresh") =>
    LET changed == {x \in Tables : Tx(c) \in Modifiers(x) \cup touched[x]["cascade"]}
        cascaded == {x \in Tables : Tx(c) \in touched[x]["cascade"] \ Modifiers(x)}
    IN sessions[c].modified = changed \ cascaded

\* Every statement is answered: an access that is denied is not tried for ever.
EveryStatementAnswered == \A c \in Clients : ~Is(c, "idle") ~> Is(c, "idle")

================================================================================
