------------------------------ MODULE LockManager ------------------------------
(***************************************************************************)
(* The lock based concurrency control of the DBMS: LockBasedStrategy, the   *)
(* TransactionCoordinator and TransactionManager above it, and the retry    *)
(* loop (_validate_ccm) with which the query processor asks for access.     *)
(*                                                                          *)
(* Every client is served by a thread of its own and no lock protects the   *)
(* lock table, so the calls of different clients interleave.  A step of     *)
(* this module is one call on the shared state: validate_object, the        *)
(* ACTIVE test of execute_operation, the re-validation inside log_object,   *)
(* the assignment to the lock table that follows it, the two halves of      *)
(* end_transaction.  With AtomicCalls = TRUE a log_object or a commit runs  *)
(* to its end before another client's call, as it does in the unit tests    *)
(* and with a single client; with FALSE nothing orders them.                *)
(***************************************************************************)
EXTENDS Naturals, FiniteSets

CONSTANTS
  Tx,             \* transaction ids; the order of Nat stands for the order of
                  \* the id strings "ip:port-timestamp-counter"
  Object,         \* lockable objects: the strategy is called with table names
  Schemes,        \* the schemes LockBasedStrategy may be constructed with
  CCM_RETRY_MAX,  \* retries of a denied validation by the query processor
  AtomicCalls     \* whether log_object and commit exclude other calls

ASSUME ConstantsAssumption ==
  /\ Tx \subseteq Nat
  /\ IsFiniteSet(Tx)
  /\ Schemes \subseteq {"wound-wait", "wait-die", "timeout"}
  /\ CCM_RETRY_MAX \in Nat
  /\ AtomicCalls \in BOOLEAN

VARIABLES
  scheme,         \* deadlock_prevention_scheme of the strategy object
  lock_table,     \* Object -> LockEntry
  status,         \* TransactionManager: life cycle of every transaction
  waiting_for,    \* Transaction.waiting_for: {} for None, else a singleton
  pc,             \* where the thread that serves the transaction stands
  request,        \* the access its statement asks for
  tries,          \* denied validations of that access so far
  granted         \* the accesses log_object let the transaction make

shared == <<lock_table, status, waiting_for, granted>>
vars == <<scheme, lock_table, status, waiting_for, granted, pc, request, tries>>

--------------------------------------------------------------------------------
Access == [object : Object, action : {"READ", "WRITE"}]
NoAccess == [object |-> "none", action |-> "none"]

\* A key that is not in the dictionary is the entry Free.
Free == [lock_type |-> "free", holders |-> {}]
LockEntry == [lock_type : {"free", "read", "write"}, holders : SUBSET Tx]

\* "new": no Transaction object yet.  A TERMINATED transaction is a member of
\* committed_transactions or of aborted_transactions: it keeps that name here.
Status == {"new", "active", "committed", "aborted"}

\* "ready" and "failed" wait for the client; "gone" has lost its connection.
Place == {"begin", "ready", "validate", "execute", "log", "grant",
          "commit", "failed", "done", "gone"}
InCall == {"log", "grant", "commit"}
Working == {"validate", "execute"} \cup InCall

TypeOK ==
  /\ scheme \in Schemes
  /\ lock_table \in [Object -> LockEntry]
  /\ status \in [Tx -> Status]
  /\ waiting_for \in [Tx -> SUBSET Tx]
  /\ pc \in [Tx -> Place]
  /\ request \in [Tx -> Access \cup {NoAccess}]
  /\ \A t \in Tx : pc[t] \in Working \ {"commit"} => request[t] \in Access
  /\ tries \in [Tx -> 0 .. CCM_RETRY_MAX]
  /\ granted \in [Tx -> SUBSET Access]

Init ==
  /\ scheme \in Schemes
  /\ lock_table = [o \in Object |-> Free]
  /\ status = [t \in Tx |-> "new"]
  /\ waiting_for = [t \in Tx |-> {}]
  /\ pc = [t \in Tx |-> "begin"]
  /\ request = [t \in Tx |-> NoAccess]
  /\ tries = [t \in Tx |-> 0]
  /\ granted = [t \in Tx |-> {}]

--------------------------------------------------------------------------------
(* What a request meets in the lock table.                                  *)

Entry(t) == lock_table[request[t].object]

\* The holders that conflict with the request of t; {} when it is compatible.
Blockers(t) ==
  IF \/ Entry(t).lock_type = "write" /\ t \in Entry(t).holders
     \/ Entry(t).lock_type = "read" /\ request[t].action = "READ"
    THEN {}
    ELSE Entry(t).holders \ {t}

\* Variant: min and max confused.
OldestSwapped(S) == {m \in S : \A u \in S : u <= m}

Oldest(S) == {m \in S : \A u \in S : m <= u}
Youngest(S) == {m \in S : \A u \in S : u <= m}

\* Variant: the comparison of wound-wait turned round.
ShouldWaitReversed(t) ==
  \/ scheme = "wound-wait" /\ \E h \in Blockers(t) : t < h
  \/ scheme = "timeout"

\* _should_wait: what the scheme decides on a conflict.
ShouldWait(t) ==
  \/ scheme = "wound-wait" /\ \E h \in Blockers(t) : h <= t
  \/ scheme = "wait-die" /\ \E h \in Blockers(t) : t < h
  \/ scheme = "timeout"

(* The wait-for graph over active_transactions.  Every transaction waits    *)
(* for at most one other, so a cycle is a minimal set closed under the edge. *)
Closed(wf, C) ==
  /\ C # {}
  /\ \A t \in C : status[t] = "active" /\ wf[t] # {} /\ wf[t] \subseteq C

Cycles(wf) ==
  {C \in SUBSET Tx : Closed(wf, C) /\ \A D \in SUBSET C : Closed(wf, D) => D = C}

\* The lock table once every member of S has released what it held.
Released(S) ==
  [o \in Object |->
     IF lock_table[o].holders \subseteq S
       THEN Free
       ELSE [lock_table[o] EXCEPT !.holders = @ \ S]]

\* end_transaction of the active members of S, waiting_for being wf before it.
End(S, outcome, wf) ==
  /\ lock_table' = Released(S)
  /\ status' = [u \in Tx |-> IF u \in S THEN outcome ELSE status[u]]
  /\ waiting_for' = [u \in Tx |-> IF u \in S THEN {} ELSE wf[u]]
  /\ granted' = [u \in Tx |-> IF u \in S THEN {} ELSE granted[u]]

--------------------------------------------------------------------------------
(* validate_object on a conflict.                                           *)

\* Variant: deadlock_callback is not called.
WaitUndetected(t) ==
  /\ Blockers(t) # {} /\ ShouldWait(t)
  /\ waiting_for' = [waiting_for EXCEPT ![t] = Oldest(Blockers(t))]
  /\ UNCHANGED <<lock_table, status, granted>>

\* The requester waits for the oldest holder; the wait that closes a cycle
\* makes the detector abort the youngest member of it.
Wait(t) ==
  LET wf == [waiting_for EXCEPT ![t] = Oldest(Blockers(t))] IN
  /\ Blockers(t) # {} /\ ShouldWait(t)
  /\ \/ /\ Cycles(wf) = {}
        /\ waiting_for' = wf
        /\ UNCHANGED <<lock_table, status, granted>>
     \/ \E C \in Cycles(wf) : End(Youngest(C), "aborted", wf)

\* wait-die: the requester gets an exception, nothing else happens to it.
Die(t) ==
  /\ Blockers(t) # {} /\ ~ShouldWait(t)
  /\ scheme = "wait-die"
  /\ UNCHANGED shared

\* Variant: only one of several younger readers is wounded.
VictimsYoungestOnly(t) == Youngest({h \in Blockers(t) : status[h] = "active"})

\* wound-wait: abort_callback ends the younger holders that are still ACTIVE.
Victims(t) == {h \in Blockers(t) : t < h /\ status[h] = "active"}

Wound(t) ==
  /\ Blockers(t) # {} /\ ~ShouldWait(t)
  /\ scheme = "wound-wait"
  /\ End(Victims(t), "aborted", waiting_for)

\* A READ wounds while it iterates over the live holder set, from which the
\* callback removes the victim: "Set changed size during iteration".
WoundRaises(t) == request[t].action = "READ" /\ Victims(t) # {}

\* The thread of t goes on to another place, still busy with its request ...
Move(t, place) == pc' = [pc EXCEPT ![t] = place] /\ UNCHANGED <<request, tries>>

\* ... or is done with it: the locals of _validate_ccm are gone.  "failed" is the
\* session that refuses everything but ROLLBACK.
Leave(t, place) ==
  /\ pc' = [pc EXCEPT ![t] = place]
  /\ request' = [request EXCEPT ![t] = NoAccess]
  /\ tries' = [tries EXCEPT ![t] = 0]

\* Variants: one retry too many, and no limit on them.
DeniedOnceMore(t) ==
  IF tries[t] <= CCM_RETRY_MAX
    THEN tries' = [tries EXCEPT ![t] = @ + 1] /\ UNCHANGED <<pc, request>>
    ELSE Leave(t, "failed")

DeniedForever(t) == UNCHANGED <<pc, request, tries>>

\* Response(allowed=False): another try after a pause, as long as they last.
Denied(t) ==
  IF tries[t] < CCM_RETRY_MAX
    THEN tries' = [tries EXCEPT ![t] = @ + 1] /\ UNCHANGED <<pc, request>>
    ELSE Leave(t, "failed")

\* Under AtomicCalls nothing happens while another thread is inside a call.
MayRun(t) == AtomicCalls => \A u \in Tx \ {t} : pc[u] \notin InCall

--------------------------------------------------------------------------------
(* The client's moves.                                                      *)

Begin(t) ==
  /\ MayRun(t)
  /\ pc[t] = "begin"
  /\ status' = [status EXCEPT ![t] = "active"]
  /\ Leave(t, "ready")
  /\ UNCHANGED <<lock_table, waiting_for, granted>>

\* A statement reaches _validate_ccm for a table it reads or writes.
Request(t) ==
  /\ MayRun(t)
  /\ pc[t] = "ready"
  /\ \E a \in Access : request' = [request EXCEPT ![t] = a]
  /\ pc' = [pc EXCEPT ![t] = "validate"]
  /\ UNCHANGED tries
  /\ UNCHANGED shared

\* A statement that fails for a reason of its own: the session is marked failed.
StatementFails(t) ==
  /\ MayRun(t)
  /\ pc[t] = "ready"
  /\ Leave(t, "failed")
  /\ UNCHANGED shared

\* COMMIT passes the ACTIVE test of end_transaction.  When it does not, the
\* failure report leaves transaction and session as they are.
Commit(t) ==
  /\ MayRun(t)
  /\ pc[t] = "ready" /\ status[t] = "active"
  /\ Move(t, "commit")
  /\ UNCHANGED shared

\* ROLLBACK: end_transaction when the transaction is still ACTIVE; the report
\* that says it was not is ignored.
Rollback(t) ==
  /\ MayRun(t)
  /\ pc[t] \in {"ready", "failed"}
  /\ End({t} \cap {u \in Tx : status[u] = "active"}, "aborted", waiting_for)
  /\ Leave(t, "done")

\* The connection drops: the server forgets the client and ends nothing.
Disconnect(t) ==
  /\ MayRun(t)
  /\ pc[t] \in {"ready", "failed"}
  /\ Leave(t, "gone")
  /\ UNCHANGED shared

--------------------------------------------------------------------------------
(* The server's steps for a request.                                        *)

\* validate_operation and, for an ACTIVE transaction, validate_object.
Validate(t) ==
  /\ MayRun(t)
  /\ pc[t] = "validate"
  /\ \/ status[t] # "active" /\ UNCHANGED shared /\ Denied(t)
     \/ /\ status[t] = "active"
        /\ \/ Blockers(t) = {} /\ UNCHANGED shared /\ Move(t, "execute")
           \/ Wait(t) /\ Denied(t)
           \/ Die(t) /\ Leave(t, "failed")
           \/ Wound(t) /\ (IF WoundRaises(t) THEN Leave(t, "failed") ELSE Move(t, "execute"))

\* Variant: execute_operation trusts the validation before it.
ExecuteUnchecked(t) ==
  /\ MayRun(t)
  /\ pc[t] = "execute"
  /\ Move(t, "log")
  /\ UNCHANGED shared

\* execute_operation: only an ACTIVE transaction enters log_object.
Execute(t) ==
  /\ MayRun(t)
  /\ pc[t] = "execute"
  /\ IF status[t] = "active" THEN Move(t, "log") ELSE Leave(t, "failed")
  /\ UNCHANGED shared

\* Variant: log_object relies on the validation that came before it.
LogObjectUnchecked(t) ==
  /\ MayRun(t)
  /\ pc[t] = "log"
  /\ Move(t, "grant")
  /\ UNCHANGED shared

\* log_object validates again, this time without looking at the status.
LogObject(t) ==
  /\ MayRun(t)
  /\ pc[t] = "log"
  /\ \/ Blockers(t) = {} /\ UNCHANGED shared /\ Move(t, "grant")
     \/ Wait(t) /\ Leave(t, "failed")
     \/ Die(t) /\ Leave(t, "failed")
     \/ Wound(t) /\ (IF WoundRaises(t) THEN Leave(t, "failed") ELSE Move(t, "grant"))

\* Variant: a READ always leaves a read entry, the reader's own write lock included.
GrantedDowngrade(t) ==
  IF request[t].action = "WRITE"
    THEN [lock_type |-> "write", holders |-> {t}]
    ELSE [lock_type |-> "read", holders |-> Entry(t).holders \cup {t}]

\* What log_object then writes: a WRITE replaces the entry whatever it is, a
\* READ joins a read entry and leaves a write entry alone.
Granted(t) ==
  CASE request[t].action = "WRITE" -> [lock_type |-> "write", holders |-> {t}]
    [] request[t].action = "READ" /\ Entry(t).lock_type # "write" ->
         [lock_type |-> "read", holders |-> Entry(t).holders \cup {t}]
    [] OTHER -> Entry(t)

Grant(t) ==
  /\ MayRun(t)
  /\ pc[t] = "grant"
  /\ lock_table' = [lock_table EXCEPT ![request[t].object] = Granted(t)]
  /\ waiting_for' = [waiting_for EXCEPT ![t] = {}]
  /\ granted' = [granted EXCEPT ![t] = @ \cup {request[t]}]
  /\ Leave(t, "ready")
  /\ UNCHANGED status

\* Variant: commit_transaction does not look at the status again.
CommitEndUnchecked(t) ==
  /\ MayRun(t)
  /\ pc[t] = "commit"
  /\ End({t}, "committed", waiting_for)
  /\ Leave(t, "done")

\* The rest of end_transaction: the locks go, and commit_transaction raises
\* when the transaction was ended by somebody else in the meantime.
CommitEnd(t) ==
  /\ MayRun(t)
  /\ pc[t] = "commit"
  /\ End({t}, IF status[t] = "active" THEN "committed" ELSE status[t], waiting_for)
  /\ Leave(t, IF status[t] = "active" THEN "done" ELSE "ready")

--------------------------------------------------------------------------------
\* What the server owes a request, and what the clients may or may not do.
ServerStep(t) ==
  \/ Validate(t) /\ UNCHANGED scheme
  \/ Execute(t) /\ UNCHANGED scheme
  \/ LogObject(t) /\ UNCHANGED scheme
  \/ Grant(t) /\ UNCHANGED scheme
  \/ CommitEnd(t) /\ UNCHANGED scheme

ClientStep(t) ==
  \/ Begin(t) /\ UNCHANGED scheme
  \/ Request(t) /\ UNCHANGED scheme
  \/ StatementFails(t) /\ UNCHANGED scheme
  \/ Commit(t) /\ UNCHANGED scheme
  \/ Rollback(t) /\ UNCHANGED scheme
  \/ Disconnect(t) /\ UNCHANGED scheme

AllEnded == (\A t \in Tx : pc[t] \in {"done", "gone"}) /\ UNCHANGED vars

Next ==
  \/ \E t \in Tx : ServerStep(t) \/ ClientStep(t)
  \/ AllEnded

Spec == Init /\ [][Next]_vars

\* The interpreter keeps running every thread; clients owe nothing.
FairSpec == Spec /\ \A t \in Tx : WF_vars(ServerStep(t))

--------------------------------------------------------------------------------
(* Safety.                                                                  *)

Conflict(a, b) == a.object = b.object /\ "WRITE" \in {a.action, b.action}

\* Two-phase locking as the strategy promises it: no two ACTIVE transactions
\* have been let through to conflicting accesses of one object.
GrantsCompatible ==
  \A t, u \in Tx :
    t # u /\ status[t] = "active" /\ status[u] = "active" =>
      \A a \in granted[t], b \in granted[u] : ~Conflict(a, b)

\* The lock table really carries t's access a.
Holds(t, a) ==
  /\ t \in lock_table[a.object].holders
  /\ a.action = "WRITE" => /\ lock_table[a.object].lock_type = "write"
                           /\ lock_table[a.object].holders = {t}

\* An ACTIVE transaction keeps every lock it was granted until it ends: no other
\* client's request may take or downgrade one without aborting its holder.
GrantsHeld ==
  \A t \in Tx : status[t] = "active" => \A a \in granted[t] : Holds(t, a)

\* end_transaction leaves no lock behind: only ACTIVE transactions hold locks, so
\* nobody is denied because of a transaction that can never release.
EndedHoldNothing ==
  \A o \in Object : \A t \in lock_table[o].holders : status[t] = "active"

\* The detector and the schemes leave no cycle in the wait-for graph, whatever
\* edges denied requests have left in it.
NoDeadlockCycle == Cycles(waiting_for) = {}

\* wound-wait: a transaction only ever waits for one with a smaller id, which is
\* why no wait can close a cycle and the detector never has a victim to choose.
WaitsForSmallerId ==
  scheme = "wound-wait" => \A t \in Tx : \A u \in waiting_for[t] : u < t

--------------------------------------------------------------------------------
(* The strategy seen through what it lets transactions do: with the calls   *)
(* protected from each other, it implements two-phase locking.              *)

Promise == INSTANCE TwoPhaseLocking WITH state <- status, held <- granted

ImplementsTwoPhaseLocking == Promise!Spec

--------------------------------------------------------------------------------
(* What a step may never do.                                                *)

\* COMMIT and a wound race: whichever comes first decides, and a transaction that
\* has ended is never ended again with the other outcome.
OutcomeIsFinal ==
  [][\A t \in Tx : status[t] \in {"committed", "aborted"} => status'[t] = status[t]]_vars

\* A transaction ended by somebody else's step.
EndedByOther(t) == status[t] = "active" /\ status'[t] = "aborted" /\ pc'[t] = pc[t]

\* wound-wait keeps its promise to the oldest: the ACTIVE transaction with the
\* smallest id is never refused a WRITE, nor made to wait for it.
SmallestIdActive(t) ==
  status[t] = "active" /\ \A u \in Tx : status[u] = "active" => t <= u

OldestWriteNeverRefused ==
  [][\A t \in Tx :
       /\ SmallestIdActive(t)
       /\ pc[t] \in {"validate", "execute", "log"}
       /\ request[t].action = "WRITE"
       => pc'[t] # "failed" /\ tries'[t] = tries[t]]_vars

--------------------------------------------------------------------------------
(* Liveness.                                                                *)

\* Every statement and every COMMIT is answered, whoever holds the lock and
\* whatever became of the holder: the retries are bounded.
EveryCallReturns == \A t \in Tx : pc[t] \in Working ~> pc[t] \notin Working

================================================================================
