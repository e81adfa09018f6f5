--------------------------- MODULE LockManagerProofs ---------------------------
(***************************************************************************)
(* What holds of LockManager for every set of transactions and tables, every *)
(* scheme and every number of retries.                                       *)
(***************************************************************************)
EXTENDS LockManager, NaturalsInduction, WellFoundedInduction, TLAPS

--------------------------------------------------------------------------------
(* Typing of the helpers.                                                   *)

\* The transactions that block a request are transactions other than the
\* requester, and they hold the requested object.
LEMMA BlockersType ==
  ASSUME TypeOK, NEW t \in Tx, request[t] \in Access
  PROVE  /\ Entry(t) \in LockEntry
         /\ Blockers(t) \subseteq Tx \ {t}
         /\ Blockers(t) \subseteq Entry(t).holders
         /\ Victims(t) \subseteq Blockers(t)
         /\ Oldest(Blockers(t)) \subseteq Blockers(t)
  BY DEF TypeOK, Access, LockEntry, Entry, Blockers, Victims, Oldest

\* Ending any transactions keeps the shared state well typed.
LEMMA EndType ==
  ASSUME TypeOK, NEW S, NEW outcome \in Status, NEW wf \in [Tx -> SUBSET Tx],
         End(S, outcome, wf)
  PROVE  /\ lock_table' \in [Object -> LockEntry]
         /\ status' \in [Tx -> Status]
         /\ waiting_for' \in [Tx -> SUBSET Tx]
         /\ granted' \in [Tx -> SUBSET Access]
  <1>1. lock_table' \in [Object -> LockEntry]
    <2>1. ASSUME NEW o \in Object
          PROVE  (IF lock_table[o].holders \subseteq S
                    THEN Free ELSE [lock_table[o] EXCEPT !.holders = @ \ S]) \in LockEntry
      BY <2>1 DEF TypeOK, LockEntry, Free
    <2> QED BY <2>1 DEF End, Released
  <1>2. status' \in [Tx -> Status]
    BY DEF TypeOK, End
  <1>3. waiting_for' \in [Tx -> SUBSET Tx]
    BY DEF TypeOK, End
  <1>4. granted' \in [Tx -> SUBSET Access]
    BY DEF TypeOK, End
  <1> QED BY <1>1, <1>2, <1>3, <1>4

\* What the three outcomes of a conflict do to the shared state.
SharedType ==
  /\ lock_table \in [Object -> LockEntry]
  /\ status \in [Tx -> Status]
  /\ waiting_for \in [Tx -> SUBSET Tx]
  /\ granted \in [Tx -> SUBSET Access]

LEMMA ConflictType ==
  ASSUME TypeOK, NEW t \in Tx, request[t] \in Access,
         UNCHANGED shared \/ Wait(t) \/ Die(t) \/ Wound(t)
  PROVE  SharedType'
  <1>1. CASE UNCHANGED shared
    BY <1>1 DEF TypeOK, SharedType, shared
  <1>2. CASE Wait(t)
    <2> DEFINE wf == [waiting_for EXCEPT ![t] = Oldest(Blockers(t))]
    <2>1. wf \in [Tx -> SUBSET Tx]
      BY BlockersType DEF TypeOK
    <2>2. CASE waiting_for' = wf /\ UNCHANGED <<lock_table, status, granted>>
      BY <2>1, <2>2 DEF TypeOK, SharedType
    <2>3. CASE \E C \in Cycles(wf) : End(Youngest(C), "aborted", wf)
      BY <2>1, <2>3, EndType DEF SharedType, Status
    <2> QED BY <1>2, <2>2, <2>3 DEF Wait
  <1>3. CASE Die(t)
    BY <1>3 DEF TypeOK, SharedType, shared, Die
  <1>4. CASE Wound(t)
    BY <1>4, EndType DEF TypeOK, SharedType, Wound, Status
  <1> QED BY <1>1, <1>2, <1>3, <1>4

--------------------------------------------------------------------------------
(* Typing of the threads.                                                   *)

ThreadType ==
  /\ pc \in [Tx -> Place]
  /\ request \in [Tx -> Access \cup {NoAccess}]
  /\ \A t \in Tx : pc[t] \in Working \ {"commit"} => request[t] \in Access
  /\ tries \in [Tx -> 0 .. CCM_RETRY_MAX]

LEMMA TypeParts == TypeOK <=> scheme \in Schemes /\ SharedType /\ ThreadType
  BY DEF TypeOK, SharedType, ThreadType

LEMMA MoveType ==
  ASSUME ThreadType, NEW t \in Tx, NEW p \in Place, Move(t, p),
         p \in Working \ {"commit"} => request[t] \in Access
  PROVE  ThreadType'
  BY DEF ThreadType, Move

LEMMA LeaveType ==
  ASSUME ThreadType, NEW t \in Tx, NEW p \in Place \ Working, Leave(t, p)
  PROVE  ThreadType'
  BY ConstantsAssumption DEF ThreadType, Leave, Working, InCall, Place

LEMMA DeniedType ==
  ASSUME ThreadType, NEW t \in Tx, Denied(t)
  PROVE  ThreadType'
  <1>1. CASE tries[t] < CCM_RETRY_MAX
    BY <1>1, ConstantsAssumption DEF Denied, ThreadType
  <1>2. CASE ~(tries[t] < CCM_RETRY_MAX)
    BY <1>2, LeaveType DEF Denied, Place, Working, InCall
  <1> QED BY <1>1, <1>2

\* Every step of Next keeps every variable in its type.
LEMMA TypeStep == TypeOK /\ [Next]_vars => TypeOK'
  <1> SUFFICES ASSUME TypeOK, [Next]_vars PROVE TypeOK'
    OBVIOUS
  <1>a. scheme \in Schemes /\ SharedType /\ ThreadType
    BY TypeParts
  <1>b. UNCHANGED scheme /\ SharedType' /\ ThreadType' => TypeOK'
    BY <1>a DEF TypeOK, SharedType, ThreadType
  <1>1. CASE UNCHANGED vars
    BY <1>1 DEF TypeOK, vars
  <1>2. ASSUME NEW t \in Tx, UNCHANGED scheme, ServerStep(t) \/ ClientStep(t)
        PROVE  TypeOK'
    <2>1. CASE Begin(t)
      <3>1. SharedType'
        BY <1>a, <2>1 DEF Begin, SharedType, Status
      <3>2. ThreadType'
        BY <1>a, <2>1, LeaveType DEF Begin, Place, Working, InCall
      <3> QED BY <1>b, <1>2, <3>1, <3>2
    <2>2. CASE Request(t)
      BY <1>a, <1>b, <1>2, <2>2 DEF Request, SharedType, ThreadType, shared, Place
    <2>3. CASE Commit(t)
      <3>1. ThreadType'
        BY <1>a, <2>3, MoveType, LeaveType DEF Commit, Place, Working, InCall
      <3> QED BY <1>a, <1>b, <1>2, <2>3, <3>1 DEF Commit, SharedType, shared
    <2>4. CASE Rollback(t)
      <3>1. ThreadType'
        BY <1>a, <2>4, LeaveType DEF Rollback, Place, Working, InCall
      <3>2. SharedType'
        BY <1>a, <2>4, EndType DEF Rollback, SharedType, Status
      <3> QED BY <1>b, <1>2, <3>1, <3>2
    <2>5. CASE StatementFails(t) \/ Disconnect(t)
      <3>1. ThreadType'
        BY <1>a, <2>5, LeaveType DEF StatementFails, Disconnect, Place, Working, InCall
      <3> QED BY <1>a, <1>b, <1>2, <2>5, <3>1 DEF StatementFails, Disconnect, SharedType, shared
    <2>6. CASE Validate(t)
      <3>1. request[t] \in Access
        BY <1>a, <2>6 DEF Validate, ThreadType, Working
      <3>2. SharedType'
        BY <1>a, <2>6, <3>1, ConflictType DEF Validate
      <3>3. ThreadType'
        BY <1>a, <2>6, <3>1, MoveType, LeaveType, DeniedType
           DEF Validate, Place, Working, InCall
      <3> QED BY <1>b, <1>2, <3>2, <3>3
    <2>7. CASE Execute(t)
      <3>1. ThreadType'
        BY <1>a, <2>7, MoveType, LeaveType DEF Execute, ThreadType, Place, Working, InCall
      <3> QED BY <1>a, <1>b, <1>2, <2>7, <3>1 DEF Execute, SharedType, shared
    <2>8. CASE LogObject(t)
      <3>1. request[t] \in Access
        BY <1>a, <2>8 DEF LogObject, ThreadType, Working, InCall
      <3>2. SharedType'
        BY <1>a, <2>8, <3>1, ConflictType DEF LogObject
      <3>3. ThreadType'
        BY <1>a, <2>8, <3>1, MoveType, LeaveType DEF LogObject, Place, Working, InCall
      <3> QED BY <1>b, <1>2, <3>2, <3>3
    <2>9. CASE Grant(t)
      <3>1. request[t] \in Access
        BY <1>a, <2>9 DEF Grant, ThreadType, Working, InCall
      <3>2. Granted(t) \in LockEntry
        BY <3>1, BlockersType DEF Granted, LockEntry, Access
      <3>3. SharedType'
        BY <1>a, <2>9, <3>1, <3>2 DEF Grant, SharedType, Access
      <3>4. ThreadType'
        BY <1>a, <2>9, LeaveType DEF Grant, Place, Working, InCall
      <3> QED BY <1>b, <1>2, <3>3, <3>4
    <2>10. CASE CommitEnd(t)
      <3>1. SharedType'
        BY <1>a, <2>10, EndType DEF CommitEnd, SharedType, Status
      <3>2. ThreadType'
        BY <1>a, <2>10, LeaveType DEF CommitEnd, Place, Working, InCall
      <3> QED BY <1>b, <1>2, <3>1, <3>2
    <2> QED
      BY <1>2, <2>1, <2>2, <2>3, <2>4, <2>5, <2>6, <2>7, <2>8, <2>9, <2>10
         DEF ServerStep, ClientStep
  <1> QED BY <1>1, <1>2 DEF Next, AllEnded, ServerStep, ClientStep

\* The state of the lock manager always has its types; in particular no request is
\* retried more often than CCM_RETRY_MAX allows.
THEOREM TypeCorrect == Spec => []TypeOK
  <1>1. Init => TypeOK
    BY ConstantsAssumption
       DEF Init, TypeOK, LockEntry, Free, Status, Place, Working, InCall
  <1> QED BY <1>1, TypeStep, PTL DEF Spec

--------------------------------------------------------------------------------
(* Wound-wait cannot deadlock.                                              *)

\* A wait of t under wound-wait is for a transaction with a smaller id.
LEMMA WaitIsForSmaller ==
  ASSUME TypeOK, NEW t \in Tx, request[t] \in Access,
         scheme = "wound-wait", ShouldWait(t), NEW m \in Oldest(Blockers(t))
  PROVE  m < t
  <1>1. PICK h \in Blockers(t) : h <= t
    BY DEF ShouldWait
  <1>2. m \in Blockers(t) /\ m <= h
    BY <1>1 DEF Oldest
  <1>3. m \in Nat /\ h \in Nat /\ t \in Nat /\ m # t
    BY <1>1, <1>2, BlockersType, ConstantsAssumption
  <1> QED BY <1>1, <1>2, <1>3

LEMMA ConflictKeepsWaits ==
  ASSUME TypeOK, WaitsForSmallerId, UNCHANGED scheme, NEW t \in Tx, request[t] \in Access,
         UNCHANGED shared \/ Wait(t) \/ Die(t) \/ Wound(t)
  PROVE  WaitsForSmallerId'
  <1> SUFFICES ASSUME scheme = "wound-wait", NEW v \in Tx, NEW u \in waiting_for'[v]
               PROVE  u < v
    BY DEF WaitsForSmallerId
  <1>1. CASE UNCHANGED shared \/ Die(t)
    BY <1>1 DEF WaitsForSmallerId, shared, Die
  <1>2. CASE Wound(t)
    BY <1>2 DEF Wound, End, WaitsForSmallerId
  <1>3. CASE Wait(t)
    <2> DEFINE wf == [waiting_for EXCEPT ![t] = Oldest(Blockers(t))]
    <2>1. u \in wf[v]
      BY <1>3 DEF Wait, End, TypeOK
    <2>2. CASE v = t
      BY <1>3, <2>1, <2>2, WaitIsForSmaller DEF Wait, TypeOK
    <2>3. CASE v # t
      BY <2>1, <2>3 DEF WaitsForSmallerId, TypeOK
    <2> QED BY <2>2, <2>3
  <1> QED BY <1>1, <1>2, <1>3

\* Under wound-wait every edge of the wait-for graph leads to a smaller id, in every
\* interleaving of the clients.
THEOREM WaitsOnlyForSmallerId == Spec => []WaitsForSmallerId
  <1>1. Init => WaitsForSmallerId
    BY DEF Init, WaitsForSmallerId
  <1>2. TypeOK /\ WaitsForSmallerId /\ [Next]_vars => WaitsForSmallerId'
    <2> SUFFICES ASSUME TypeOK, WaitsForSmallerId, [Next]_vars PROVE WaitsForSmallerId'
      OBVIOUS
    <2>1. CASE UNCHANGED vars
      BY <2>1 DEF WaitsForSmallerId, vars
    <2>2. ASSUME NEW t \in Tx, UNCHANGED scheme, ServerStep(t) \/ ClientStep(t)
          PROVE  WaitsForSmallerId'
      <3>1. CASE Begin(t)
        BY <2>2, <3>1 DEF Begin, WaitsForSmallerId
      <3>2. CASE Request(t) \/ StatementFails(t) \/ Commit(t) \/ Disconnect(t) \/ Execute(t)
        BY <2>2, <3>2 DEF Request, StatementFails, Commit, Disconnect, Execute, shared, WaitsForSmallerId
      <3>3. CASE Rollback(t) \/ CommitEnd(t)
        BY <2>2, <3>3 DEF Rollback, CommitEnd, End, WaitsForSmallerId
      <3>4. CASE Validate(t) \/ LogObject(t)
        <4>1. request[t] \in Access
          BY <3>4 DEF Validate, LogObject, TypeOK, Working, InCall
        <4> QED BY <2>2, <3>4, <4>1, ConflictKeepsWaits DEF Validate, LogObject
      <3>5. CASE Grant(t)
        BY <2>2, <3>5 DEF Grant, WaitsForSmallerId, TypeOK
      <3> QED BY <2>2, <3>1, <3>2, <3>3, <3>4, <3>5 DEF ServerStep, ClientStep
    <2> QED BY <2>1, <2>2 DEF Next, AllEnded, ServerStep, ClientStep
  <1> QED BY <1>1, <1>2, TypeCorrect, PTL DEF Spec

\* A finite set of naturals that is not empty has a smallest element.
LEMMA SmallestElement ==
  ASSUME NEW S, S \subseteq Nat, S # {}
  PROVE  \E m \in S : \A n \in S : m <= n
  <1>1. \E m \in S : \A n \in S : ~ (<<n, m>> \in OpToRel(<, Nat))
    BY NatLessThanWellFounded, WFMin
  <1>2. \A n, m \in S : ~ (<<n, m>> \in OpToRel(<, Nat)) => m <= n
    BY DEF OpToRel
  <1> QED BY <1>1, <1>2

\* Hence the graph has no cycle and the deadlock detector never finds a victim.
THEOREM WoundWaitNeverDeadlocks ==
  ASSUME Schemes = {"wound-wait"}
  PROVE  Spec => []NoDeadlockCycle
  <1>1. TypeOK /\ WaitsForSmallerId => NoDeadlockCycle
    <2> SUFFICES ASSUME TypeOK, WaitsForSmallerId, NEW C \in Cycles(waiting_for)
                 PROVE  FALSE
      BY DEF NoDeadlockCycle
    <2>1. C \subseteq Tx /\ Closed(waiting_for, C)
      BY DEF Cycles
    <2>2. PICK m \in C : \A n \in C : m <= n
      BY <2>1, SmallestElement, ConstantsAssumption DEF Closed
    <2>3. PICK n \in waiting_for[m] : n \in C
      BY <2>1, <2>2 DEF Closed
    <2>4. n < m
      BY <2>1, <2>3 DEF WaitsForSmallerId, TypeOK
    <2> QED BY <2>1, <2>2, <2>3, <2>4, ConstantsAssumption
  <1> QED BY <1>1, TypeCorrect, WaitsOnlyForSmallerId, PTL

--------------------------------------------------------------------------------
(* Two-phase locking, when a log_object or a commit runs without another    *)
(* client's call in between.                                                *)

\* The form of the entries: no entry without holders, one holder of a write lock.
EntryForm ==
  \A o \in Object :
    /\ lock_table[o].lock_type = "free" <=> lock_table[o].holders = {}
    /\ lock_table[o].lock_type = "write" => \E t \in Tx : lock_table[o].holders = {t}

NothingGrantedOutside == \A t \in Tx : status[t] # "active" => granted[t] = {}

\* A thread inside a call serves an ACTIVE transaction and is alone there; once
\* log_object has validated, nothing stands in the way of its assignment.
CallsProtected ==
  /\ \A t \in Tx : pc[t] = "begin" => status[t] = "new"
  /\ \A t \in Tx : pc[t] \in InCall => status[t] = "active"
  /\ \A t \in Tx : pc[t] = "grant" => Blockers(t) = {}
  /\ \A t, u \in Tx : pc[t] \in InCall /\ pc[u] \in InCall => t = u

TableInv == GrantsHeld /\ EndedHoldNothing /\ EntryForm /\ NothingGrantedOutside
AtomicInv == TypeOK /\ TableInv /\ CallsProtected

\* Releasing the locks of transactions that end disturbs nobody else's.
LEMMA EndKeepsTable ==
  ASSUME TypeOK, TableInv, NEW S, NEW outcome \in Status \ {"active"},
         NEW wf, End(S, outcome, wf)
  PROVE  TableInv'
  <1>1. GrantsHeld'
    <2> SUFFICES ASSUME NEW t \in Tx, status'[t] = "active", NEW a \in granted'[t]
                 PROVE  Holds(t, a)'
      BY DEF GrantsHeld
    <2>1. t \notin S /\ status[t] = "active" /\ a \in granted[t] /\ a.object \in Object
      BY DEF End, TypeOK, Access
    <2>2. Holds(t, a)
      BY <2>1 DEF TableInv, GrantsHeld
    <2>3. lock_table'[a.object]
            = [lock_table[a.object] EXCEPT !.holders = @ \ S]
      BY <2>1, <2>2 DEF End, Released, Holds
    <2>4. lock_table[a.object] \in LockEntry
      BY <2>1 DEF TypeOK
    <2>5. t \in lock_table'[a.object].holders
      BY <2>1, <2>2, <2>3, <2>4 DEF Holds, LockEntry
    <2>6. CASE a.action = "WRITE"
      BY <2>1, <2>2, <2>3, <2>4, <2>5, <2>6 DEF Holds, LockEntry
    <2>7. CASE a.action # "WRITE"
      BY <2>5, <2>7 DEF Holds
    <2> QED BY <2>6, <2>7
  <1>2. ASSUME NEW o \in Object
        PROVE  /\ lock_table[o].holders \subseteq S => lock_table'[o] = Free
               /\ ~(lock_table[o].holders \subseteq S) =>
                    /\ lock_table'[o].lock_type = lock_table[o].lock_type
                    /\ lock_table'[o].holders = lock_table[o].holders \ S
    <2>1. lock_table[o] \in LockEntry
      BY DEF TypeOK
    <2> QED BY <2>1 DEF End, Released, LockEntry
  <1>3. EndedHoldNothing'
    BY <1>2 DEF TableInv, EndedHoldNothing, End, TypeOK, LockEntry, Free
  <1>4. EntryForm'
    <2> SUFFICES ASSUME NEW o \in Object
                 PROVE  /\ lock_table'[o].lock_type = "free" <=> lock_table'[o].holders = {}
                        /\ lock_table'[o].lock_type = "write" =>
                             \E t \in Tx : lock_table'[o].holders = {t}
      BY DEF EntryForm
    <2>1. CASE lock_table[o].holders \subseteq S
      BY <1>2, <2>1 DEF Free
    <2>2. CASE ~(lock_table[o].holders \subseteq S)
      BY <1>2, <2>2 DEF TableInv, EntryForm
    <2> QED BY <2>1, <2>2
  <1>5. NothingGrantedOutside'
    BY DEF TableInv, NothingGrantedOutside, End
  <1> QED BY <1>1, <1>3, <1>4, <1>5 DEF TableInv

\* The transactions a conflict ends, other than those it leaves alone, are ACTIVE.
LEMMA ConflictKeepsTable ==
  ASSUME AtomicInv, NEW t \in Tx, request[t] \in Access,
         UNCHANGED shared \/ Wait(t) \/ Die(t) \/ Wound(t)
  PROVE  /\ TableInv'
         /\ \A u \in Tx : status[u] # "active" => status'[u] = status[u]
  <1>1. CASE UNCHANGED shared \/ Die(t)
    BY <1>1 DEF AtomicInv, TableInv, GrantsHeld, Holds, EndedHoldNothing, EntryForm,
                NothingGrantedOutside, shared, Die
  <1>2. CASE Wound(t)
    BY <1>2, EndKeepsTable DEF AtomicInv, Wound, End, Status, Victims
  <1>3. CASE Wait(t)
    <2> DEFINE wf == [waiting_for EXCEPT ![t] = Oldest(Blockers(t))]
    <2>1. CASE UNCHANGED <<lock_table, status, granted>>
      BY <2>1 DEF AtomicInv, TableInv, GrantsHeld, Holds, EndedHoldNothing, EntryForm,
                  NothingGrantedOutside
    <2>2. ASSUME NEW C \in Cycles(wf), End(Youngest(C), "aborted", wf)
          PROVE  /\ TableInv'
                 /\ \A u \in Tx : status[u] # "active" => status'[u] = status[u]
      <3>1. TableInv'
        BY <2>2, EndKeepsTable DEF AtomicInv, Status
      <3>2. \A u \in Youngest(C) : status[u] = "active"
        BY <2>2 DEF Cycles, Closed, Youngest
      <3> QED BY <2>2, <3>1, <3>2 DEF End
    <2> QED BY <1>3, <2>1, <2>2 DEF Wait
  <1> QED BY <1>1, <1>2, <1>3

\* After a wound nobody stands between the requester and the object.
LEMMA WoundClears ==
  ASSUME AtomicInv, NEW t \in Tx, request[t] \in Access, UNCHANGED request, Wound(t)
  PROVE  Blockers(t)' = {} /\ status'[t] = status[t]
  <1> DEFINE o == request[t].object
  <1>1. o \in Object /\ lock_table[o] \in LockEntry
    BY DEF AtomicInv, TypeOK, Access
  <1>2. Victims(t) = Blockers(t)
    <2>1. \A h \in Blockers(t) : ~(h <= t) /\ h \in Nat /\ t \in Nat
      BY BlockersType, ConstantsAssumption DEF Wound, ShouldWait, AtomicInv
    <2>2. \A h \in Blockers(t) : status[h] = "active"
      BY <1>1, BlockersType DEF AtomicInv, TableInv, EndedHoldNothing, Entry
    <2> QED BY <2>1, <2>2 DEF Victims
  <1>3. Blockers(t) = lock_table[o].holders \ {t}
    BY DEF Wound, Blockers, Entry
  <1>4. lock_table'[o].holders \ {t} = {}
    BY <1>1, <1>2, <1>3 DEF Wound, End, Released, LockEntry, Free
  <1>5. Blockers(t)' = {}
    BY <1>4 DEF Blockers, Entry
  <1>6. t \notin Victims(t)
    BY BlockersType DEF AtomicInv
  <1> QED BY <1>5, <1>6 DEF Wound, End

\* The assignment of log_object gives t its access and takes nobody else's.
LEMMA GrantKeepsTable ==
  ASSUME AtomicInv, NEW t \in Tx, Grant(t)
  PROVE  TableInv'
  <1> DEFINE o == request[t].object
  <1>1. /\ request[t] \in Access /\ o \in Object /\ lock_table[o] \in LockEntry
        /\ status[t] = "active" /\ Blockers(t) = {}
    BY DEF Grant, AtomicInv, TypeOK, CallsProtected, Working, InCall, Access
  <1>2. /\ lock_table[o].lock_type = "write" => lock_table[o].holders = {t}
        /\ request[t].action = "WRITE" => lock_table[o].holders \subseteq {t}
    <2>1. lock_table[o].lock_type = "write" =>
            \E w \in Tx : lock_table[o].holders = {w}
      BY <1>1 DEF AtomicInv, TableInv, EntryForm
    <2> QED BY <1>1, <2>1 DEF Blockers, Entry
  <1>3. lock_table' = [lock_table EXCEPT ![o] = Granted(t)]
    BY DEF Grant
  <1>4. NothingGrantedOutside'
    BY <1>1 DEF Grant, AtomicInv, TypeOK, TableInv, NothingGrantedOutside
  <1>5. CASE request[t].action = "WRITE"
    <2>1. Granted(t) = [lock_type |-> "write", holders |-> {t}]
      BY <1>5 DEF Granted
    <2>2. GrantsHeld'
      BY <1>1, <1>2, <1>3, <1>5, <2>1
         DEF Grant, AtomicInv, TypeOK, TableInv, GrantsHeld, Holds, Access
    <2>3. ASSUME NEW x \in Object
          PROVE  IF x = o THEN lock_table'[x] = Granted(t) ELSE lock_table'[x] = lock_table[x]
      BY <1>1, <1>3 DEF AtomicInv, TypeOK
    <2>4. EndedHoldNothing'
      BY <1>1, <2>1, <2>3 DEF Grant, AtomicInv, TableInv, EndedHoldNothing
    <2>5. EntryForm'
      BY <1>1, <2>1, <2>3 DEF AtomicInv, TableInv, EntryForm
    <2> QED BY <1>4, <2>2, <2>4, <2>5 DEF TableInv
  <1>6. CASE request[t].action = "READ" /\ lock_table[o].lock_type # "write"
    <2>1. Granted(t) = [lock_type |-> "read", holders |-> lock_table[o].holders \cup {t}]
      BY <1>6 DEF Granted, Entry
    <2>2. GrantsHeld'
      BY <1>1, <1>3, <1>6, <2>1
         DEF Grant, AtomicInv, TypeOK, TableInv, GrantsHeld, Holds, Access
    <2>3. ASSUME NEW x \in Object
          PROVE  IF x = o THEN lock_table'[x] = Granted(t) ELSE lock_table'[x] = lock_table[x]
      BY <1>1, <1>3 DEF AtomicInv, TypeOK
    <2>4. EndedHoldNothing'
      BY <1>1, <2>1, <2>3 DEF Grant, AtomicInv, TableInv, EndedHoldNothing
    <2>5. EntryForm'
      BY <1>1, <2>1, <2>3 DEF AtomicInv, TableInv, EntryForm
    <2> QED BY <1>4, <2>2, <2>4, <2>5 DEF TableInv
  <1>7. CASE request[t].action = "READ" /\ lock_table[o].lock_type = "write"
    <2>1. Granted(t) = lock_table[o] /\ lock_table' = lock_table
      BY <1>1, <1>3, <1>7 DEF Granted, Entry, AtomicInv, TypeOK
    <2>2. GrantsHeld'
      BY <1>1, <1>2, <1>7, <2>1
         DEF Grant, AtomicInv, TypeOK, TableInv, GrantsHeld, Holds, Access
    <2>3. EndedHoldNothing' /\ EntryForm'
      BY <2>1 DEF Grant, AtomicInv, TableInv, EndedHoldNothing, EntryForm
    <2> QED BY <1>4, <2>2, <2>3 DEF TableInv
  <1> QED BY <1>1, <1>5, <1>6, <1>7 DEF Access

\* The protection of the calls survives a step of t that ends only ACTIVE
\* transactions and leaves t in a place where it is entitled to be.
LEMMA StepKeepsCalls ==
  ASSUME AtomicCalls, CallsProtected, NEW t \in Tx, MayRun(t),
         \A u \in Tx \ {t} : pc'[u] = pc[u],
         \A u \in Tx \ {t} : status[u] # "active" => status'[u] = status[u],
         pc'[t] # "begin",
         pc'[t] \in InCall => status'[t] = "active",
         pc'[t] = "grant" => Blockers(t)' = {}
  PROVE  CallsProtected'
  <1>1. \A u \in Tx \ {t} : pc'[u] \notin InCall
    BY DEF MayRun
  <1>2. \A u \in Tx : pc'[u] = "begin" => status'[u] = "new"
    BY DEF CallsProtected
  <1> QED BY <1>1, <1>2 DEF CallsProtected, InCall

LEMMA AtomicStep ==
  ASSUME AtomicCalls, AtomicInv, [Next]_vars
  PROVE  TableInv' /\ CallsProtected'
  <1>1. CASE UNCHANGED vars
    BY <1>1 DEF AtomicInv, TableInv, GrantsHeld, Holds, EndedHoldNothing, EntryForm,
                NothingGrantedOutside, CallsProtected, Blockers, Entry, vars
  <1>2. ASSUME NEW t \in Tx, ServerStep(t) \/ ClientStep(t)
        PROVE  TableInv' /\ CallsProtected'
    <2>a. \A u \in Tx \ {t} : pc'[u] = pc[u]
      BY <1>2 DEF ServerStep, ClientStep, Begin, Request, StatementFails, Commit, Rollback, Disconnect,
                  Validate, Execute, LogObject, Grant, CommitEnd, Move, Leave, Denied,
                  AtomicInv, TypeOK
    <2>b. MayRun(t) /\ pc \in [Tx -> Place]
      BY <1>2 DEF ServerStep, ClientStep, Begin, Request, StatementFails, Commit, Rollback, Disconnect,
                  Validate, Execute, LogObject, Grant, CommitEnd, AtomicInv, TypeOK
    <2>1. CASE Begin(t)
      <3>1. TableInv'
        BY <2>1 DEF Begin, AtomicInv, TypeOK, TableInv, GrantsHeld, Holds,
                    EndedHoldNothing, EntryForm, NothingGrantedOutside, CallsProtected
      <3> QED
        BY <2>1, <2>a, <2>b, <3>1, StepKeepsCalls
           DEF Begin, Leave, AtomicInv, TypeOK, InCall
    <2>2. CASE Request(t) \/ StatementFails(t) \/ Commit(t) \/ Disconnect(t) \/ Execute(t)
      <3>1. TableInv'
        BY <2>2 DEF Request, StatementFails, Commit, Disconnect, Execute, shared, AtomicInv, TableInv,
                    GrantsHeld, Holds, EndedHoldNothing, EntryForm, NothingGrantedOutside
      <3> QED
        BY <2>2, <2>a, <2>b, <3>1, StepKeepsCalls
           DEF Request, StatementFails, Commit, Disconnect, Execute, Move, Leave, shared, AtomicInv, InCall
    <2>3. CASE Rollback(t)
      <3>1. TableInv'
        BY <2>3, EndKeepsTable DEF Rollback, AtomicInv, Status
      <3> QED
        BY <2>3, <2>a, <2>b, <3>1, StepKeepsCalls DEF Rollback, End, Leave, AtomicInv, InCall
    <2>4. CASE CommitEnd(t)
      <3>1. status[t] = "active"
        BY <2>4 DEF CommitEnd, AtomicInv, CallsProtected, InCall
      <3>2. TableInv'
        BY <2>4, <3>1, EndKeepsTable DEF CommitEnd, AtomicInv, Status
      <3> QED
        BY <2>4, <2>a, <2>b, <3>1, <3>2, StepKeepsCalls
           DEF CommitEnd, End, Leave, AtomicInv, InCall
    <2>5. CASE Validate(t)
      <3>1. request[t] \in Access
        BY <2>5 DEF Validate, AtomicInv, TypeOK, Working
      <3>2. TableInv' /\ \A u \in Tx : status[u] # "active" => status'[u] = status[u]
        BY <2>5, <3>1, ConflictKeepsTable DEF Validate
      <3>3. pc'[t] \in {"validate", "execute", "failed"}
        BY <2>5, <2>b DEF Validate, Move, Leave, Denied
      <3> QED BY <2>a, <2>b, <3>2, <3>3, StepKeepsCalls DEF AtomicInv, InCall
    <2>6. CASE LogObject(t)
      <3>1. request[t] \in Access /\ status[t] = "active"
        BY <2>6 DEF LogObject, AtomicInv, TypeOK, CallsProtected, Working, InCall
      <3>2. TableInv' /\ \A u \in Tx : status[u] # "active" => status'[u] = status[u]
        BY <2>6, <3>1, ConflictKeepsTable DEF LogObject
      <3>3. pc'[t] \in {"grant", "failed"}
        BY <2>6, <2>b DEF LogObject, Move, Leave
      <3>4. pc'[t] = "grant" => Blockers(t)' = {} /\ status'[t] = "active"
        <4>1. CASE Blockers(t) = {} /\ UNCHANGED shared /\ Move(t, "grant")
          BY <3>1, <4>1 DEF Blockers, Entry, shared, Move
        <4>2. CASE Wound(t) /\ Move(t, "grant")
          BY <3>1, <4>2, WoundClears DEF Move
        <4> QED BY <2>6, <2>b, <4>1, <4>2 DEF LogObject, Leave
      <3> QED BY <2>a, <2>b, <3>2, <3>3, <3>4, StepKeepsCalls DEF AtomicInv, InCall
    <2>7. CASE Grant(t)
      <3>1. TableInv'
        BY <2>7, GrantKeepsTable
      <3> QED
        BY <2>7, <2>a, <2>b, <3>1, StepKeepsCalls DEF Grant, Leave, AtomicInv, InCall
    <2> QED BY <1>2, <2>1, <2>2, <2>3, <2>4, <2>5, <2>6, <2>7 DEF ServerStep, ClientStep
  <1> QED BY <1>1, <1>2 DEF Next, AllEnded

\* The inductive invariant behind two-phase locking.
LEMMA AtomicInvariant ==
  ASSUME AtomicCalls
  PROVE  Spec => []AtomicInv
  <1>1. Init => AtomicInv
    <2>1. Init => TypeOK
      BY ConstantsAssumption
         DEF Init, TypeOK, LockEntry, Free, Status, Place, Working, InCall
    <2>2. Init => TableInv
      BY DEF Init, TableInv, GrantsHeld, EndedHoldNothing, EntryForm,
             NothingGrantedOutside, Free
    <2>3. Init => CallsProtected
      BY DEF Init, CallsProtected, InCall
    <2> QED BY <2>1, <2>2, <2>3 DEF AtomicInv
  <1>2. AtomicInv /\ [Next]_vars => AtomicInv'
    BY AtomicStep, TypeStep DEF AtomicInv
  <1> QED BY <1>1, <1>2, PTL DEF Spec

\* Locks are kept: no interference between calls takes a lock from an ACTIVE
\* transaction.
THEOREM LocksAreKept ==
  ASSUME AtomicCalls
  PROVE  Spec => []GrantsHeld
  BY AtomicInvariant, PTL DEF AtomicInv, TableInv

\* Every lock belongs to an ACTIVE transaction: end_transaction leaks none.
THEOREM NoLockLeaks ==
  ASSUME AtomicCalls
  PROVE  Spec => []EndedHoldNothing
  BY AtomicInvariant, PTL DEF AtomicInv, TableInv

\* No two ACTIVE transactions are ever let through to conflicting accesses.
THEOREM TwoPhaseExclusion ==
  ASSUME AtomicCalls
  PROVE  Spec => []GrantsCompatible
  <1>1. AtomicInv => GrantsCompatible
    <2> SUFFICES ASSUME AtomicInv, NEW t \in Tx, NEW u \in Tx, t # u,
                        status[t] = "active", status[u] = "active",
                        NEW a \in granted[t], NEW b \in granted[u], Conflict(a, b)
                 PROVE  FALSE
      BY DEF GrantsCompatible
    <2>1. Holds(t, a) /\ Holds(u, b)
      BY DEF AtomicInv, TableInv, GrantsHeld
    <2> QED BY <2>1 DEF Holds, Conflict
  <1> QED BY <1>1, AtomicInvariant, PTL

--------------------------------------------------------------------------------
(* The lock manager implements TwoPhaseLocking.                             *)

\* Ending ACTIVE transactions is Finish, or nothing when there are none.
LEMMA EndIsFinish ==
  ASSUME TypeOK, NEW S \in SUBSET Tx, NEW outcome \in {"committed", "aborted"}, NEW wf,
         \A t \in S : status[t] = "active", End(S, outcome, wf)
  PROVE  Promise!Finish(S, outcome) \/ UNCHANGED <<status, granted>>
  <1>1. CASE S = {}
    BY <1>1 DEF End, TypeOK
  <1>2. CASE S # {}
    BY <1>2 DEF End, Promise!Finish
  <1> QED BY <1>1, <1>2

LEMMA ConflictIsFinish ==
  ASSUME TypeOK, NEW t \in Tx, request[t] \in Access,
         UNCHANGED shared \/ Wait(t) \/ Die(t) \/ Wound(t)
  PROVE  [Promise!Next]_<<status, granted>>
  <1>1. CASE UNCHANGED shared \/ Die(t)
    BY <1>1 DEF shared, Die
  <1>2. CASE Wound(t)
    <2>1. Victims(t) \in SUBSET Tx /\ \A u \in Victims(t) : status[u] = "active"
      BY BlockersType DEF Victims
    <2>2. Promise!Finish(Victims(t), "aborted") \/ UNCHANGED <<status, granted>>
      BY <1>2, <2>1, EndIsFinish DEF Wound
    <2> QED BY <2>1, <2>2 DEF Promise!Next
  <1>3. CASE Wait(t)
    <2> DEFINE wf == [waiting_for EXCEPT ![t] = Oldest(Blockers(t))]
    <2>1. ASSUME NEW C \in Cycles(wf), End(Youngest(C), "aborted", wf)
          PROVE  [Promise!Next]_<<status, granted>>
      <3>1. Youngest(C) \in SUBSET Tx /\ \A u \in Youngest(C) : status[u] = "active"
        BY <2>1 DEF Cycles, Closed, Youngest
      <3>2. Promise!Finish(Youngest(C), "aborted") \/ UNCHANGED <<status, granted>>
        BY <2>1, <3>1, EndIsFinish
      <3> QED BY <3>1, <3>2 DEF Promise!Next
    <2> QED BY <1>3, <2>1 DEF Wait
  <1> QED BY <1>1, <1>2, <1>3

\* log_object's assignment acquires an access nobody else conflicts with.
LEMMA GrantIsAcquire ==
  ASSUME AtomicInv, NEW t \in Tx, Grant(t)
  PROVE  Promise!Acquire(t, request[t]) /\ request[t] \in Promise!Access
  <1>1. /\ request[t] \in Access /\ status[t] = "active" /\ Blockers(t) = {}
    BY DEF Grant, AtomicInv, TypeOK, CallsProtected, Working, InCall
  <1>2. ASSUME NEW u \in Tx \ {t}, status[u] = "active", NEW b \in granted[u],
               Conflict(request[t], b)
        PROVE  FALSE
    <2>1. Holds(u, b)
      BY <1>2 DEF AtomicInv, TableInv, GrantsHeld
    <2>2. request[t].object \in Object /\ b.object = request[t].object
      BY <1>1, <1>2 DEF Conflict, Access
    <2>3. Entry(t).lock_type = "write" => \E w \in Tx : Entry(t).holders = {w}
      BY <2>2 DEF AtomicInv, TableInv, EntryForm, Entry
    <2> QED BY <1>1, <1>2, <2>1, <2>2, <2>3 DEF Holds, Conflict, Blockers, Entry, Access
  <1>3. \A u \in Tx \ {t} : status[u] = "active" =>
          \A b \in granted[u] : ~Promise!Conflicting(request[t], b)
    BY <1>2 DEF Conflict, Promise!Conflicting
  <1> QED BY <1>1, <1>3 DEF Promise!Acquire, Grant, Promise!Access, Access

\* The strategy implements two-phase locking: accesses are acquired one at a time,
\* only without a conflict, and given up only when their transaction ends.
THEOREM RefinesTwoPhaseLocking ==
  ASSUME AtomicCalls
  PROVE  Spec => ImplementsTwoPhaseLocking
  <1>1. Init => Promise!Init
    BY DEF Init, Promise!Init
  <1>2. AtomicInv /\ [Next]_vars => [Promise!Next]_<<status, granted>>
    <2> SUFFICES ASSUME AtomicInv, [Next]_vars PROVE [Promise!Next]_<<status, granted>>
      OBVIOUS
    <2>1. CASE UNCHANGED vars
      BY <2>1 DEF vars
    <2>2. ASSUME NEW t \in Tx, ServerStep(t) \/ ClientStep(t)
          PROVE  [Promise!Next]_<<status, granted>>
      <3>1. CASE Begin(t)
        BY <3>1 DEF Begin, AtomicInv, CallsProtected, Promise!Next, Promise!Start
      <3>2. CASE Request(t) \/ StatementFails(t) \/ Commit(t) \/ Disconnect(t) \/ Execute(t)
        BY <3>2 DEF Request, StatementFails, Commit, Disconnect, Execute, shared
      <3>3. CASE Rollback(t)
        <4> DEFINE S == {t} \cap {u \in Tx : status[u] = "active"}
        <4>1. Promise!Finish(S, "aborted") \/ UNCHANGED <<status, granted>>
          BY <3>3, EndIsFinish DEF Rollback, AtomicInv
        <4> QED BY <4>1 DEF Promise!Next
      <3>4. CASE CommitEnd(t)
        <4>1. status[t] = "active"
          BY <3>4 DEF CommitEnd, AtomicInv, CallsProtected, InCall
        <4>2. Promise!Finish({t}, "committed") \/ UNCHANGED <<status, granted>>
          BY <3>4, <4>1, EndIsFinish DEF CommitEnd, AtomicInv
        <4> QED BY <4>2 DEF Promise!Next
      <3>5. CASE Validate(t) \/ LogObject(t)
        <4>1. request[t] \in Access
          BY <3>5 DEF Validate, LogObject, AtomicInv, TypeOK, Working, InCall
        <4> QED BY <3>5, <4>1, ConflictIsFinish DEF Validate, LogObject, AtomicInv
      <3>6. CASE Grant(t)
        BY <3>6, GrantIsAcquire DEF Promise!Next
      <3> QED BY <2>2, <3>1, <3>2, <3>3, <3>4, <3>5, <3>6 DEF ServerStep, ClientStep
    <2> QED BY <2>1, <2>2 DEF Next, AllEnded
  <1> QED BY <1>1, <1>2, AtomicInvariant, PTL DEF Spec, ImplementsTwoPhaseLocking, Promise!Spec

--------------------------------------------------------------------------------
\* A conflict ends none but ACTIVE transactions.
LEMMA ConflictEndsActive ==
  ASSUME TypeOK, NEW t \in Tx,
         UNCHANGED shared \/ Wait(t) \/ Die(t) \/ Wound(t)
  PROVE  \A u \in Tx : status[u] # "active" => status'[u] = status[u]
  <1>1. CASE UNCHANGED shared \/ Die(t)
    BY <1>1 DEF shared, Die
  <1>2. CASE Wound(t)
    BY <1>2 DEF Wound, End, Victims
  <1>3. CASE Wait(t)
    <2> DEFINE wf == [waiting_for EXCEPT ![t] = Oldest(Blockers(t))]
    <2>1. ASSUME NEW C \in Cycles(wf), End(Youngest(C), "aborted", wf)
          PROVE  \A u \in Tx : status[u] # "active" => status'[u] = status[u]
      BY <2>1 DEF Cycles, Closed, Youngest, End
    <2> QED BY <1>3, <2>1 DEF Wait
  <1> QED BY <1>1, <1>2, <1>3

\* COMMIT and a wound cannot both decide: an outcome, once reached, is final, in
\* every interleaving and under every scheme.
THEOREM OutcomesAreFinal == Spec => OutcomeIsFinal
  <1> DEFINE Final == \A t \in Tx : status[t] \in {"committed", "aborted"} =>
                                       status'[t] = status[t]
      Fresh == \A t \in Tx : pc[t] = "begin" => status[t] = "new"
  <1>1. Init => Fresh
    BY DEF Init
  <1>2. ASSUME TypeOK, Fresh, [Next]_vars
        PROVE  Final /\ Fresh'
    <2>1. CASE UNCHANGED vars
      BY <1>2, <2>1 DEF vars
    <2>2. ASSUME NEW t \in Tx, ServerStep(t) \/ ClientStep(t)
          PROVE  Final /\ Fresh'
      <3>1. \A u \in Tx : pc'[u] = "begin" => pc[u] = "begin" /\ u # t
        BY <1>2, <2>2
           DEF ServerStep, ClientStep, Begin, Request, StatementFails, Commit, Rollback, Disconnect,
               Validate, Execute, LogObject, Grant, CommitEnd, Move, Leave, Denied, TypeOK
      <3>2. CASE Begin(t)
        BY <1>2, <3>1, <3>2 DEF Begin, TypeOK
      <3>3. CASE Request(t) \/ StatementFails(t) \/ Commit(t) \/ Disconnect(t) \/ Execute(t) \/ Grant(t)
        BY <1>2, <3>1, <3>3 DEF Request, StatementFails, Commit, Disconnect, Execute, Grant, shared
      <3>4. CASE Rollback(t)
        BY <1>2, <3>1, <3>4 DEF Rollback, End
      <3>5. CASE CommitEnd(t)
        BY <1>2, <3>1, <3>5 DEF CommitEnd, End
      <3>6. CASE Validate(t) \/ LogObject(t)
        <4>1. request[t] \in Access
          BY <1>2, <3>6 DEF Validate, LogObject, TypeOK, Working, InCall
        <4>2. UNCHANGED shared \/ Wait(t) \/ Die(t) \/ Wound(t)
          BY <3>6 DEF Validate, LogObject
        <4>3. \A u \in Tx : status[u] # "active" => status'[u] = status[u]
          BY <1>2, <4>1, <4>2, ConflictEndsActive
        <4> QED BY <1>2, <3>1, <4>3
      <3> QED BY <2>2, <3>2, <3>3, <3>4, <3>5, <3>6 DEF ServerStep, ClientStep
    <2> QED BY <1>2, <2>1, <2>2 DEF Next, AllEnded
  <1> QED BY <1>1, <1>2, TypeCorrect, PTL DEF Spec, OutcomeIsFinal

================================================================================
