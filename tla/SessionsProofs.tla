---------------------------- MODULE SessionsProofs -----------------------------
(***************************************************************************)
(* What holds of Sessions for any number of clients, tables, statements and *)
(* retries, however the threads of the clients interleave.                  *)
(***************************************************************************)
EXTENDS Sessions, FiniteSetTheorems, SequenceTheorems, TLAPS

--------------------------------------------------------------------------------
(* The inductive invariant.                                                 *)

Accesses == Tables \X Actions
Accessing == {"validate", "log", "perform"}
Transacting == Accessing \cup {"raised", "commit", "refresh", "abort"}
Places == Transacting \cup {"idle", "begin", "switch"}
Thread == [at : Places, auto : BOOLEAN, todo : Seq(Accesses), tries : 0 .. RetryMax]
Known == {"timestamp-based", "validation-based", "multi-version"}

Types ==
  /\ sessions \in [Clients -> [tx : begun \cup {NoTx}, explicit : BOOLEAN, failed : BOOLEAN, modified : SUBSET Tables]]
  /\ thread \in [Clients -> Thread]
  /\ shared \in begun \cup {NoTx}
  /\ active \subseteq begun /\ committed \subseteq begun /\ raised \subseteq begun
  /\ touched \in [Tables -> [Kinds -> SUBSET begun]]
  /\ "mechanism" \in DOMAIN strategy /\ strategy.mechanism \in Mechanisms \cup {"timestamp-based"}

\* The transactions of a client have the numbers from 1 to how many there are.
OfClient(c) == {t \in begun : t[1] = c}
Named ==
  /\ IsFiniteSet(begun)
  /\ \A c \in Clients : OfClient(c) = {c} \X (1 .. Cardinality(OfClient(c)))
  /\ \A t \in begun : t[1] \in Clients
  /\ begun # {} => shared # NoTx

\* A session has its transaction from BEGIN to the end of COMMIT or ROLLBACK, and every
\* active transaction is that of the session of its client.
Owned ==
  /\ \A c \in Clients :
       /\ Tx(c) # NoTx => Tx(c)[1] = c
       /\ sessions[c].explicit <=> Tx(c) # NoTx
       /\ thread[c].at = "begin" => Tx(c) = NoTx
       /\ thread[c].at \in Transacting => Tx(c) # NoTx
       /\ thread[c].at \in Accessing => thread[c].todo # <<>>
       /\ thread[c].at \in {"refresh", "switch"} => Tx(c) \notin active
  /\ \A t \in active : Tx(t[1]) = t

\* No statement and no commit is under way in an active transaction that has failed.
Failures ==
  \A c \in Clients : Tx(c) \in active \cap raised =>
    /\ thread[c].at \notin Accessing \cup {"raised", "commit"}
    /\ Is(c, "idle") => sessions[c].failed

\* Statements that do not overlap.
Alone ==
  serial =>
    /\ \A c, d \in Clients : ~Is(c, "idle") /\ ~Is(d, "idle") => c = d
    /\ \A c \in Clients :
         /\ thread[c].at \in Accessing => shared = Tx(c)
         /\ thread[c].at \in {"log", "perform"} => Tx(c) \in active
         /\ Tx(c) \in active \cup {NoTx} \/ Is(c, "refresh") => sessions[c].modified = {x \in Tables : Tx(c) \in Modifiers(x)}

IInv == Types /\ Named /\ Owned /\ Failures /\ Alone

--------------------------------------------------------------------------------
(* Lemmas.                                                                  *)

\* NoTx is no transaction that was begun, and has written nothing.
LEMMA NoTxNotBegun ==
  ASSUME Named PROVE NoTx \notin begun
  BY SessionsAssumption DEF Named, NoTx

\* The sessions of two clients never hold the same transaction.
LEMMA Distinct ==
  ASSUME Owned, NEW c \in Clients, NEW d \in Clients, c # d, Tx(c) # NoTx
  PROVE  Tx(c) # Tx(d)
  BY DEF Owned

\* An active transaction is that of a session.
LEMMA OwnedBy ==
  ASSUME IInv, NEW t \in active
  PROVE  t \in begun /\ t[1] \in Clients /\ Tx(t[1]) = t
  BY DEF IInv, Types, Named, Owned

LEMMA InitInv == Init => IInv
  <1> SUFFICES ASSUME Init PROVE IInv
    OBVIOUS
  <1> USE SessionsAssumption DEF Init
  <1>1. Types
    BY DEF Types, NewSession, Idle, Running, Thread, Places, Transacting, Accessing, Accesses, NewStrategy, Kinds
  <1>2. Named
    <2>1. \A c \in Clients : OfClient(c) = {}
      BY DEF OfClient
    <2>2. \A c \in Clients : {c} \X (1 .. 0) = {}
      OBVIOUS
    <2> QED BY <2>1, <2>2, FS_EmptySet DEF Named
  <1>3. Owned
    BY DEF Owned, Tx, Is, NewSession, Idle, Running, Transacting, Accessing
  <1>4. Failures
    BY DEF Failures
  <1>5. Alone
    <2>1. \A x \in Tables : Modifiers(x) = {}
      BY DEF Modifiers, Kinds, Actions
    <2> QED BY <2>1 DEF Alone, Tx, Is, NewSession, Idle, Running, Accessing
  <1> QED BY <1>1, <1>2, <1>3, <1>4, <1>5 DEF IInv

\* What a step leaves of the history of accesses.
LEMMA Untouched ==
  ASSUME IInv, UNCHANGED <<begun, touched>>
  PROVE  /\ touched' \in [Tables -> [Kinds -> SUBSET begun]]
         /\ \A x \in Tables : Modifiers(x)' = Modifiers(x)
  BY DEF IInv, Types, Modifiers

\* A step that moves one thread only.
LEMMA ThreadMoves ==
  ASSUME IInv, NEW c \in Clients, NEW th \in Thread,
         thread' = [thread EXCEPT ![c] = th],
         UNCHANGED <<sessions, shared, active, begun, serial, committed, raised>>,
         touched' \in [Tables -> [Kinds -> SUBSET begun]],
         \A x \in Tables : Modifiers(x)' = Modifiers(x),
         "mechanism" \in DOMAIN strategy', strategy'.mechanism \in Mechanisms \cup {"timestamp-based"},
         th.at # "refresh", th.at = "switch" => Tx(c) \notin active,
         th.at = "begin" => Tx(c) = NoTx,
         th.at \in Transacting => Tx(c) # NoTx,
         th.at \in Accessing => th.todo # <<>> /\ (serial => shared = Tx(c)),
         serial /\ th.at \in {"log", "perform"} => Tx(c) \in active,
         th.at \in Accessing \cup {"raised", "commit"} => Tx(c) \notin active \cap raised,
         th.at = "idle" /\ Tx(c) \in active \cap raised => sessions[c].failed,
         th.at # "idle" /\ serial => \A d \in Clients \ {c} : Is(d, "idle")
  PROVE  IInv'
  <1> USE DEF IInv
  <1>0. thread \in [Clients -> Thread] /\ thread'[c] = th /\ \A d \in Clients : d # c => thread'[d] = thread[d]
    BY DEF Types
  <1>1. Types'
    BY <1>0 DEF Types
  <1>2. Named'
    BY DEF Named, OfClient
  <1>3. Owned'
    <2>1. \A d \in Clients : Tx(d)' = Tx(d)
      BY DEF Tx
    <2>2. \A t \in active' : Tx(t[1])' = t
      BY OwnedBy, <2>1
    <2> QED BY <1>0, <2>1, <2>2 DEF Owned
  <1>4. Failures'
    BY <1>0 DEF Failures, Tx, Is
  <1>5. Alone'
    <2> SUFFICES ASSUME serial PROVE Alone'
      BY DEF Alone
    <2>1. \A d \in Clients : Tx(d)' = Tx(d)
      BY DEF Tx
    <2>2. \A d, e \in Clients : ~Is(d, "idle")' /\ ~Is(e, "idle")' => d = e
      BY <1>0 DEF Alone, Is
    <2>3. \A d \in Clients : /\ thread'[d].at \in Accessing => shared = Tx(d)
                             /\ thread'[d].at \in {"log", "perform"} => Tx(d) \in active
      BY <1>0 DEF Alone
    <2>4. ASSUME NEW d \in Clients, Tx(d) \in active \cup {NoTx} \/ Is(d, "refresh")'
          PROVE  sessions[d].modified = {x \in Tables : Tx(d) \in Modifiers(x)'}
      <3>1. Tx(d) \in active \cup {NoTx} \/ Is(d, "refresh")
        BY <1>0, <2>4 DEF Is
      <3>2. sessions[d].modified = {x \in Tables : Tx(d) \in Modifiers(x)}
        BY <3>1 DEF Alone
      <3> QED BY <3>2
    <2> QED BY <2>1, <2>2, <2>3, <2>4 DEF Alone
  <1> QED BY <1>1, <1>2, <1>3, <1>4, <1>5

\* A refused statement changes nothing.
LEMMA Stutters == IInv /\ UNCHANGED vars => IInv'
  BY DEF IInv, Types, Named, OfClient, Owned, Failures, Alone, Tx, Is, vars, Modifiers

--------------------------------------------------------------------------------
(* The client sends a statement.                                            *)

\* A thread that takes a statement is idle, and alone if statements do not overlap.
LEMMA Sending ==
  ASSUME IInv, NEW c \in Clients, Sends(c)
  PROVE  /\ thread[c] \in Thread /\ thread[c].at = "idle"
         /\ serial => \A d \in Clients \ {c} : Is(d, "idle")
         /\ Tx(c) \in begun \cup {NoTx}
  <1>1. thread[c] \in Thread /\ thread[c].at = "idle"
    BY DEF IInv, Types, Sends, Is
  <1>2. serial => \A d \in Clients \ {c} : Is(d, "idle")
    BY DEF Sends
  <1>3. Tx(c) \in begun \cup {NoTx}
    BY DEF IInv, Types, Tx
  <1> QED BY <1>1, <1>2, <1>3

LEMMA TakesToBeginInv ==
  ASSUME IInv, NEW c \in Clients, NEW query \in Queries \cup {<<>>}, NEW auto \in BOOLEAN,
         Tx(c) = NoTx, TakesToBegin(c, query, auto)
  PROVE  IInv'
  <1> DEFINE th == Running("begin", auto, query)
  <1>1. Sends(c)
    BY DEF TakesToBegin, Takes
  <1>2. th \in Thread
    <2>1. query \in Seq(Accesses)
      <3>1. Queries \subseteq Seq(Tables \X Actions)
        BY SessionsAssumption
      <3>2. query = <<>> \/ query \in Seq(Tables \X Actions)
        BY <3>1
      <3> QED BY <3>2, EmptySeq DEF Accesses
    <2>2. 0 \in 0 .. RetryMax
      BY SessionsAssumption
    <2> QED BY <2>1, <2>2 DEF Running, Thread, Places
  <1>3. thread' = [thread EXCEPT ![c] = th]
    BY DEF TakesToBegin
  <1>4. UNCHANGED <<sessions, shared, strategy, active, begun, serial, committed, raised, touched>>
    BY DEF TakesToBegin, Takes
  <1>5. "mechanism" \in DOMAIN strategy' /\ strategy'.mechanism \in Mechanisms \cup {"timestamp-based"}
    BY <1>4 DEF IInv, Types
  <1>6. th.at = "begin"
    BY DEF Running
  <1> HIDE DEF th
  <1> QED BY <1>1, <1>2, <1>3, <1>4, <1>5, <1>6, Sending, Untouched, ThreadMoves DEF Transacting, Accessing

LEMMA TakesToInv ==
  ASSUME IInv, NEW c \in Clients, NEW at \in {"commit", "abort", "switch", "raised"},
         IF at = "switch" THEN Tx(c) \notin active ELSE Tx(c) # NoTx,
         at \in {"commit", "raised"} => ~sessions[c].failed,
         TakesTo(c, at)
  PROVE  IInv'
  <1> DEFINE th == [thread[c] EXCEPT !.at = at]
  <1>1. Sends(c)
    BY DEF TakesTo, Takes
  <1>2. th \in Thread /\ th.at = at
    BY <1>1, Sending DEF Running, Thread, Places, Transacting
  <1>3. thread' = [thread EXCEPT ![c] = th]
    BY DEF TakesTo, Goto, IInv, Types
  <1>4. UNCHANGED <<sessions, shared, strategy, active, begun, serial, committed, raised, touched>>
    BY DEF TakesTo, Takes
  <1>5. "mechanism" \in DOMAIN strategy' /\ strategy'.mechanism \in Mechanisms \cup {"timestamp-based"}
    BY <1>4 DEF IInv, Types
  <1>6. Tx(c) \in active \cap raised => sessions[c].failed
    BY <1>1, Sending DEF IInv, Failures, Is
  <1> HIDE DEF th
  <1> QED BY <1>1, <1>2, <1>3, <1>4, <1>5, <1>6, Sending, Untouched, ThreadMoves DEF Transacting, Accessing

\* A statement that fails at once, in an explicit transaction.
LEMMA UnterminatedInv ==
  ASSUME IInv, NEW c \in Clients, sessions[c].explicit, Takes(c), MarkFailed(c), UNCHANGED <<thread, shared>>
  PROVE  IInv'
  <1> USE DEF IInv
  <1>0. /\ Sends(c) /\ thread[c].at = "idle" /\ Tx(c) \in begun /\ Tx(c) # NoTx
        /\ raised' = raised \cup {Tx(c)}
        /\ UNCHANGED <<thread, shared, strategy, active, begun, serial, committed, touched>>
    BY Sending DEF Takes, MarkFailed, Owned
  <1>1. \A d \in Clients : /\ sessions'[d].tx = sessions[d].tx
                           /\ sessions'[d].explicit = sessions[d].explicit
                           /\ sessions'[d].modified = sessions[d].modified
                           /\ sessions'[d].failed = IF d = c THEN TRUE ELSE sessions[d].failed
    BY DEF MarkFailed, Types
  <1>2. Types'
    <2>1. Types
      OBVIOUS
    <2> HIDE DEF IInv
    <2>2. sessions' \in [Clients -> [tx : begun \cup {NoTx}, explicit : BOOLEAN, failed : BOOLEAN, modified : SUBSET Tables]]
      BY <2>1 DEF Types, MarkFailed
    <2>3. raised' \subseteq begun
      BY <1>0, <2>1 DEF Types
    <2> QED BY <1>0, <2>1, <2>2, <2>3 DEF Types
  <1>3. Named'
    BY <1>0 DEF Named, OfClient
  <1>4. Owned'
    <2>1. \A d \in Clients : Tx(d)' = Tx(d)
      BY <1>1 DEF Tx
    <2>2. \A t \in active' : Tx(t[1])' = t
      BY <1>0, <2>1, OwnedBy
    <2>3. \A d \in Clients : /\ thread'[d] = thread[d]
                             /\ sessions'[d].explicit <=> Tx(d) # NoTx
      BY <1>0, <1>1 DEF Owned
    <2> QED BY <1>0, <2>1, <2>2, <2>3 DEF Owned
  <1>5. Failures'
    <2> SUFFICES ASSUME NEW d \in Clients, Tx(d) \in active, Tx(d) \in raised'
                 PROVE  /\ thread[d].at \notin Accessing \cup {"raised", "commit"}
                        /\ thread[d].at = "idle" => sessions'[d].failed
      BY <1>0, <1>1 DEF Failures, Is, Tx
    <2>1. CASE d = c
      BY <1>0, <1>1, <2>1 DEF Accessing
    <2>2. CASE d # c
      BY <1>0, <1>1, <2>2, Distinct DEF Failures, Is
    <2> QED BY <2>1, <2>2
  <1>6. Alone'
    <2>1. \A d \in Clients : /\ Tx(d)' = Tx(d) /\ thread'[d] = thread[d]
                             /\ sessions'[d].modified = sessions[d].modified
      BY <1>0, <1>1 DEF Tx
    <2>2. \A x \in Tables : Modifiers(x)' = Modifiers(x)
      BY <1>0, Untouched
    <2> QED BY <1>0, <2>1, <2>2 DEF Alone, Is
  <1> QED BY <1>2, <1>3, <1>4, <1>5, <1>6

LEMMA ExplicitInv ==
  ASSUME IInv, NEW c \in Clients, NEW query \in Queries, sessions[c].explicit, ~sessions[c].failed, Explicit(c, query)
  PROVE  IInv'
  <1> USE DEF IInv
  <1> DEFINE th == Running("validate", FALSE, query)
  <1>0. /\ thread[c].at = "idle" /\ Tx(c) \in begun /\ Tx(c) # NoTx /\ Tx(c) \notin active \cap raised
        /\ serial => \A d \in Clients \ {c} : Is(d, "idle")
        /\ shared' = Tx(c)
        /\ UNCHANGED <<sessions, strategy, active, begun, serial, committed, raised, touched>>
    BY Sending DEF Explicit, Takes, Owned, Failures, Is
  <1>1. th \in Thread /\ query # <<>> /\ th.at = "validate" /\ th.todo = query
    BY SessionsAssumption DEF Running, Thread, Places, Transacting, Accessing, Accesses
  <1>2. /\ thread' = [thread EXCEPT ![c] = th]
        /\ thread'[c] = th /\ \A d \in Clients : d # c => thread'[d] = thread[d]
    <2>1. thread' = [thread EXCEPT ![c] = th]
      BY DEF Explicit
    <2> QED BY <2>1 DEF Types
  <1>3. Types'
    BY <1>0, <1>1, <1>2 DEF Types
  <1>4. Named'
    BY <1>0 DEF Named, OfClient
  <1>5. Owned'
    <2>1. \A d \in Clients : Tx(d)' = Tx(d)
      BY <1>0 DEF Tx
    <2>2. \A t \in active' : Tx(t[1])' = t
      BY <1>0, <2>1, OwnedBy
    <2>3. \A d \in Clients : sessions'[d].explicit <=> Tx(d) # NoTx
      BY <1>0 DEF Owned
    <2> HIDE DEF th
    <2> QED BY <1>0, <1>1, <1>2, <2>1, <2>2, <2>3 DEF Owned
  <1>6. Failures'
    <2> HIDE DEF th
    <2> QED BY <1>0, <1>1, <1>2 DEF Failures, Tx, Is
  <1>7. Alone'
    <2> HIDE DEF th
    <2>1. \A x \in Tables : Modifiers(x)' = Modifiers(x)
      BY <1>0, Untouched
    <2>2. \A d \in Clients : Tx(d)' = Tx(d) /\ (Is(d, "refresh")' <=> Is(d, "refresh"))
      BY <1>0, <1>1, <1>2 DEF Tx, Is
    <2>3. serial => \A d, e \in Clients : ~Is(d, "idle")' /\ ~Is(e, "idle")' => d = e
      BY <1>0, <1>1, <1>2 DEF Is
    <2>4. serial => \A d \in Clients : /\ thread'[d].at \in Accessing => shared' = Tx(d)
                                       /\ thread'[d].at \notin {"log", "perform"}
      BY <1>0, <1>1, <1>2 DEF Is, Accessing
    <2> QED BY <1>0, <2>1, <2>2, <2>3, <2>4 DEF Alone
  <1> QED BY <1>3, <1>4, <1>5, <1>6, <1>7

LEMMA StatementInv ==
  ASSUME IInv, NEW c \in Clients, Statement(c)
  PROVE  IInv'
  <1>0. /\ sessions[c].explicit <=> Tx(c) # NoTx
        /\ sessions[c].explicit \in BOOLEAN /\ sessions[c].failed \in BOOLEAN
    BY DEF IInv, Owned, Types
  <1>1. Refuses(c) => IInv'
    BY Stutters DEF Refuses
  <1>2. CASE HandleBegin(c)
    BY <1>1, <1>2, TakesToBeginInv DEF HandleBegin
  <1>3. CASE HandleCommit(c)
    BY <1>1, <1>3, TakesToInv DEF HandleCommit
  <1>4. CASE HandleRollback(c)
    BY <1>1, <1>4, TakesToInv DEF HandleRollback
  <1>5. CASE HandleSetConcurrency(c)
    BY <1>1, <1>5, TakesToInv DEF HandleSetConcurrency
  <1>6. CASE HandleUnterminated(c)
    BY <1>1, <1>6, UnterminatedInv DEF HandleUnterminated
  <1>7. CASE HandleUnparsed(c)
    BY <1>0, <1>1, <1>7, TakesToBeginInv, TakesToInv DEF HandleUnparsed
  <1>8. CASE HandleQuery(c)
    <2>1. PICK query \in Queries :
            CASE ~sessions[c].explicit -> TakesToBegin(c, query, TRUE)
              [] sessions[c].failed -> Refuses(c)
              [] OTHER -> Explicit(c, query)
      BY <1>8 DEF HandleQuery
    <2> QED BY <1>0, <1>1, <2>1, TakesToBeginInv, ExplicitInv
  <1> QED BY <1>2, <1>3, <1>4, <1>5, <1>6, <1>7, <1>8 DEF Statement

--------------------------------------------------------------------------------
(* Strategies.                                                              *)

Mechanism(s) == "mechanism" \in DOMAIN s /\ s.mechanism \in Mechanisms \cup {"timestamp-based"}

\* A strategy allows, denies or raises, and remains the strategy it is.
LEMMA ValidateAnswers ==
  ASSUME NEW s, Mechanism(s), NEW object, NEW tx, NEW stamp, NEW action
  PROVE  ValidateObject(s, object, tx, stamp, action) \in {"allowed", "denied", "raise"}
  <1>1. ReadVersion(At(s.versions, object, <<>>), tx) \in {"allowed", "denied", "raise"}
    BY DEF ReadVersion
  <1>2. VersionAnswer(s, object, tx, action) \in {"allowed", "denied", "raise"}
    BY <1>1 DEF VersionAnswer
  <1>3. s.mechanism \in Known
    BY SessionsAssumption DEF Mechanism, Known
  <1> QED BY <1>2, <1>3 DEF ValidateObject, Known

LEMMA LogKeepsMechanism ==
  ASSUME NEW s, Mechanism(s), NEW object, NEW tx, NEW stamp, NEW action
  PROVE  Mechanism(LogObject(s, object, tx, stamp, action))
  <1>1. Mechanism(Stamped(s, object, stamp, action))
    BY DEF Mechanism, Stamped
  <1>2. Mechanism(Noted(s, object, tx, action))
    BY DEF Mechanism, Noted
  <1>3. Mechanism(Versioned(s, object, tx, action))
    BY DEF Mechanism, Versioned
  <1>4. s.mechanism \in Known
    BY SessionsAssumption DEF Mechanism, Known
  <1> QED BY <1>1, <1>2, <1>3, <1>4 DEF LogObject, Known

LEMMA EndKeepsMechanism ==
  ASSUME NEW s, Mechanism(s), NEW tx, NEW running
  PROVE  Mechanism(EndTransaction(s, tx, running))
  <1>1. Mechanism(Forgotten(s, tx))
    BY DEF Mechanism, Forgotten
  <1>2. Mechanism(Collected(s, running))
    BY DEF Mechanism, Collected
  <1>3. s.mechanism \in Known
    BY SessionsAssumption DEF Mechanism, Known
  <1> QED BY <1>1, <1>2, <1>3 DEF EndTransaction, Known

--------------------------------------------------------------------------------
(* Steps that move a thread.                                                *)

LEMMA SwitchInv ==
  ASSUME IInv, NEW c \in Clients, Switch(c)
  PROVE  IInv'
  <1>1. thread[c].at = "switch" /\ Tx(c) \notin active
    BY DEF Switch, Is, IInv, Owned
  <1>2. Idle \in Thread /\ Idle.at = "idle"
    BY SessionsAssumption, EmptySeq DEF Idle, Running, Thread, Places
  <1>3. thread' = [thread EXCEPT ![c] = Idle]
    BY DEF Switch, Answered
  <1>4. UNCHANGED <<sessions, shared, active, begun, serial, committed, raised, touched>>
    BY DEF Switch, history
  <1>5. "mechanism" \in DOMAIN strategy' /\ strategy'.mechanism \in Mechanisms \cup {"timestamp-based"}
    BY DEF Switch, NewStrategy
  <1> QED BY <1>1, <1>2, <1>3, <1>4, <1>5, Untouched, ThreadMoves DEF Transacting, Accessing

\* From an access to another place of its statement, or to its end.
LEMMA AccessMoves ==
  ASSUME IInv, NEW c \in Clients, thread[c].at \in Accessing,
         NEW th \in Thread, th.at \in Accessing \cup {"raised", "commit", "idle"},
         th.at \in Accessing => th.todo # <<>>,
         serial /\ th.at \in {"log", "perform"} => shared \in active,
         thread' = [thread EXCEPT ![c] = th],
         Mechanism(strategy'),
         UNCHANGED <<sessions, shared, active, begun, serial, committed, raised>>,
         touched' \in [Tables -> [Kinds -> SUBSET begun]],
         \A x \in Tables : Modifiers(x)' = Modifiers(x)
  PROVE  IInv'
  <1>1. Tx(c) # NoTx /\ Tx(c) \notin active \cap raised
    BY DEF IInv, Owned, Failures, Transacting
  <1>2. serial => /\ shared = Tx(c)
                  /\ \A d \in Clients \ {c} : Is(d, "idle")
    BY DEF IInv, Alone, Is, Accessing
  <1>3. th.at \notin {"refresh", "begin", "switch"}
    BY DEF Accessing
  <1> QED BY <1>1, <1>2, <1>3, ThreadMoves DEF Mechanism

\* Going on to another place, to the next access or to the end, and trying again.
LEMMA Going ==
  ASSUME IInv, NEW c \in Clients, NEW at \in Places, Goto(c, at)
  PROVE  \E th \in Thread : /\ th.at = at /\ th.todo = thread[c].todo
                            /\ thread' = [thread EXCEPT ![c] = th]
  <1> DEFINE th == [thread[c] EXCEPT !.at = at]
  <1>1. th \in Thread /\ th.at = at /\ th.todo = thread[c].todo
    BY DEF IInv, Types, Thread
  <1>2. thread' = [thread EXCEPT ![c] = th]
    BY DEF Goto
  <1> QED BY <1>1, <1>2

LEMMA IdleType == Idle \in Thread /\ Idle.at = "idle"
  BY SessionsAssumption, EmptySeq DEF Idle, Running, Thread, Places

\* What an access is to, and what is left to do after it.
LEMMA AccessType ==
  ASSUME IInv, NEW c \in Clients, thread[c].at \in Accessing
  PROVE  /\ Access(c) \in Tables \X Actions /\ Access(c)[1] \in Tables /\ Action(c) \in Actions
         /\ Mode(c) \in {"read", "write"}
         /\ Tail(thread[c].todo) \in Seq(Accesses)
  <1>1. thread[c].todo \in Seq(Accesses) /\ thread[c].todo # <<>>
    BY DEF IInv, Types, Owned, Thread
  <1>2. Head(thread[c].todo) \in Accesses /\ Tail(thread[c].todo) \in Seq(Accesses)
    BY <1>1, HeadTailProperties
  <1> QED BY <1>2 DEF Access, Action, Mode, Accesses

LEMMA Finishing ==
  ASSUME IInv, NEW c \in Clients, thread[c].at \in Accessing, Finish(c)
  PROVE  \E th \in Thread : /\ th.at \in {"validate", "commit", "idle"}
                            /\ th.at = "validate" => th.todo # <<>>
                            /\ thread' = [thread EXCEPT ![c] = th]
  <1> DEFINE rest == Tail(thread[c].todo)
  <1>0. rest \in Seq(Accesses) /\ thread[c].auto \in BOOLEAN
    BY AccessType DEF IInv, Types, Thread
  <1>1. CASE rest # <<>>
    <2> DEFINE th == Running("validate", thread[c].auto, rest)
    <2>1. thread' = [thread EXCEPT ![c] = th]
      BY <1>1 DEF Finish
    <2>2. 0 \in 0 .. RetryMax
      BY SessionsAssumption
    <2>3. th \in Thread /\ th.at = "validate" /\ th.todo # <<>>
      BY <1>0, <1>1, <2>2 DEF Running, Thread, Places, Transacting, Accessing
    <2> QED BY <2>1, <2>3
  <1>2. CASE rest = <<>> /\ thread[c].auto
    <2>1. Goto(c, "commit")
      BY <1>2 DEF Finish
    <2> QED BY <2>1, Going DEF Places, Transacting
  <1>3. CASE rest = <<>> /\ ~thread[c].auto
    <2>1. thread' = [thread EXCEPT ![c] = Idle]
      BY <1>3 DEF Finish, Answered
    <2> QED BY <2>1, IdleType
  <1> QED BY <1>0, <1>1, <1>2, <1>3

LEMMA Raising ==
  ASSUME IInv, NEW c \in Clients, thread[c].at \in Accessing, Raise(c)
  PROVE  \E th \in Thread : /\ th.at \in {"validate", "commit", "idle", "raised"}
                            /\ th.at = "validate" => th.todo # <<>>
                            /\ thread' = [thread EXCEPT ![c] = th]
  BY Finishing, Going DEF Raise, Places, Transacting

LEMMA Retrying ==
  ASSUME IInv, NEW c \in Clients, thread[c].at = "validate", Retry(c)
  PROVE  \E th \in Thread : /\ th.at \in {"validate", "commit", "idle", "raised"}
                            /\ th.at = "validate" => th.todo # <<>>
                            /\ thread' = [thread EXCEPT ![c] = th]
  <1>0. thread[c] \in Thread /\ thread[c].tries \in 0 .. RetryMax /\ thread[c].todo # <<>>
    BY DEF IInv, Types, Owned, Thread, Accessing
  <1>1. CASE thread[c].tries < RetryMax
    <2> DEFINE th == [thread[c] EXCEPT !.tries = thread[c].tries + 1]
    <2>1. th \in Thread /\ th.at = "validate" /\ th.todo # <<>>
      <3>1. thread[c].tries + 1 \in 0 .. RetryMax
        BY <1>0, <1>1, SessionsAssumption
      <3> QED BY <1>0, <3>1 DEF Thread
    <2>2. thread' = [thread EXCEPT ![c] = th]
      BY <1>1 DEF Retry
    <2> QED BY <2>1, <2>2
  <1>2. CASE ~(thread[c].tries < RetryMax)
    BY <1>2, Raising DEF Retry, Accessing
  <1> QED BY <1>1, <1>2

\* A validation lets the access go on, and then the transaction is active, or not.
LEMMA Validating ==
  ASSUME IInv, NEW c \in Clients, Validate(c)
  PROVE  /\ thread[c].at = "validate"
         /\ UNCHANGED <<sessions, shared, strategy, active, begun, serial, history>>
         /\ \/ /\ Goto(c, "log") /\ shared \in active
               /\ ValidateObject(strategy, Access(c)[1], shared, Hash[shared], Mode(c)) = "allowed"
            \/ Retry(c) \/ Raise(c)
  <1> DEFINE answer == IF shared \notin active THEN "denied"
                       ELSE ValidateObject(strategy, Access(c)[1], shared, Hash[shared], Mode(c))
  <1>1. answer \in {"allowed", "denied", "raise"}
    BY ValidateAnswers DEF IInv, Types, Mechanism
  <1>2. (CASE answer = "allowed" -> Goto(c, "log")
           [] answer = "denied" -> Retry(c)
           [] answer = "raise" -> Raise(c))
    BY DEF Validate
  <1>3. answer = "allowed" => shared \in active
    OBVIOUS
  <1>4. shared \in active => answer = ValidateObject(strategy, Access(c)[1], shared, Hash[shared], Mode(c))
    OBVIOUS
  <1> HIDE DEF answer
  <1> QED BY <1>1, <1>2, <1>3, <1>4 DEF Validate, Is

LEMMA ValidateInv ==
  ASSUME IInv, NEW c \in Clients, Validate(c)
  PROVE  IInv'
  <1>1. /\ thread[c].at = "validate" /\ thread[c].todo # <<>>
        /\ UNCHANGED <<sessions, shared, strategy, active, begun, serial, committed, raised, touched>>
    BY Validating DEF history, IInv, Owned, Accessing
  <1>2. Mechanism(strategy')
    BY <1>1 DEF IInv, Types, Mechanism
  <1>3. CASE Goto(c, "log") /\ shared \in active
    <2>1. PICK th \in Thread : th.at = "log" /\ th.todo = thread[c].todo /\ thread' = [thread EXCEPT ![c] = th]
      BY <1>3, Going DEF Places, Transacting, Accessing
    <2> QED BY <1>1, <1>2, <1>3, <2>1, Untouched, AccessMoves DEF Accessing
  <1>4. CASE Retry(c) \/ Raise(c)
    <2>1. PICK th \in Thread : /\ th.at \in {"validate", "commit", "idle", "raised"}
                               /\ th.at = "validate" => th.todo # <<>>
                               /\ thread' = [thread EXCEPT ![c] = th]
      BY <1>1, <1>4, Retrying, Raising DEF Accessing
    <2> QED BY <1>1, <1>2, <2>1, Untouched, AccessMoves DEF Accessing
  <1> QED BY <1>3, <1>4, Validating

LEMMA LogInv ==
  ASSUME IInv, NEW c \in Clients, Log(c)
  PROVE  IInv'
  <1>1. /\ thread[c].at = "log" /\ thread[c].todo # <<>>
        /\ UNCHANGED <<sessions, shared, active, begun, serial, committed, raised, touched>>
        /\ Raise(c) \/ (Goto(c, "perform") /\ shared \in active)
    BY DEF Log, Is, history, IInv, Owned, Accessing
  <1>2. Mechanism(strategy')
    BY LogKeepsMechanism DEF Log, IInv, Types, Mechanism
  <1>3. CASE Goto(c, "perform") /\ shared \in active
    <2>1. PICK th \in Thread : th.at = "perform" /\ th.todo = thread[c].todo /\ thread' = [thread EXCEPT ![c] = th]
      BY <1>3, Going DEF Places, Transacting, Accessing
    <2> QED BY <1>1, <1>2, <1>3, <2>1, Untouched, AccessMoves DEF Accessing
  <1>4. CASE Raise(c)
    <2>1. PICK th \in Thread : /\ th.at \in {"validate", "commit", "idle", "raised"}
                               /\ th.at = "validate" => th.todo # <<>>
                               /\ thread' = [thread EXCEPT ![c] = th]
      BY <1>1, <1>4, Raising DEF Accessing
    <2> QED BY <1>1, <1>2, <2>1, Untouched, AccessMoves DEF Accessing
  <1> QED BY <1>1, <1>3, <1>4

\* Deletions that foreign keys cause are in the history as nothing else.
LEMMA CascadeTouches ==
  ASSUME IInv, NEW c \in Clients, NEW cascade \in CascadesOf(c), shared \in begun, UNCHANGED begun, Touches(cascade)
  PROVE  /\ touched' \in [Tables -> [Kinds -> SUBSET begun]]
         /\ \A x \in Tables : Modifiers(x)' = Modifiers(x) /\ Readers(x)' = Readers(x) /\ Writers(x)' = Writers(x)
  <1>1. touched \in [Tables -> [Kinds -> SUBSET begun]]
    BY DEF IInv, Types
  <1>2. \A x \in Tables : \A k \in Actions : <<x, k>> \notin cascade
    BY DEF CascadesOf, Actions
  <1>3. CASE serial
    <2>1. touched' = [x \in Tables |-> [k \in Kinds |->
                       IF <<x, k>> \in cascade THEN touched[x][k] \cup {shared} ELSE touched[x][k]]]
      BY <1>3 DEF Touches
    <2>2. touched' \in [Tables -> [Kinds -> SUBSET begun]]
      BY <1>1, <2>1
    <2>3. \A x \in Tables : \A k \in Actions : touched'[x][k] = touched[x][k]
      BY <1>2, <2>1 DEF Kinds
    <2> QED BY <2>2, <2>3 DEF Modifiers, Readers, Writers, Actions
  <1>4. CASE ~serial
    BY <1>1, <1>4 DEF Touches, Modifiers, Readers, Writers
  <1> QED BY <1>3, <1>4

\* An access that changes nothing but rows of tables that refer to its own.
LEMMA NoAccessInv ==
  ASSUME IInv, NEW c \in Clients, PerformRefused(c) \/ PerformRaises(c) \/ CreateRefused(c)
  PROVE  IInv'
  <1>1. /\ thread[c].at \in Accessing /\ shared \in begun
        /\ UNCHANGED <<sessions, shared, strategy, active, begun, serial, committed, raised>>
    BY DEF PerformRefused, PerformRaises, CreateRefused, Is, history, IInv, Named, Owned, Types, Transacting, Accessing, Tx
  <1>2. Mechanism(strategy')
    BY <1>1 DEF IInv, Types, Mechanism
  <1>3. PICK th \in Thread : /\ th.at \in {"validate", "commit", "idle", "raised"}
                             /\ th.at = "validate" => th.todo # <<>>
                             /\ thread' = [thread EXCEPT ![c] = th]
    BY <1>1, Finishing, Going DEF PerformRefused, PerformRaises, CreateRefused, Places, Transacting
  <1>4. touched' \in [Tables -> [Kinds -> SUBSET begun]] /\ \A x \in Tables : Modifiers(x)' = Modifiers(x)
    <2>1. CASE CreateRefused(c)
      BY <1>1, <2>1, Untouched DEF CreateRefused, history
    <2>2. CASE PerformRefused(c) \/ PerformRaises(c)
      BY <1>1, <2>2, CascadeTouches DEF PerformRefused, PerformRaises
    <2> QED BY <2>1, <2>2
  <1> QED BY <1>1, <1>2, <1>3, <1>4, AccessMoves DEF Accessing

--------------------------------------------------------------------------------
(* Steps that begin and end transactions.                                   *)

\* The next number of a client is not used.
LEMMA NextNumber ==
  ASSUME Named, NEW c \in Clients, NEW tx, tx = <<c, 1 + Cardinality(OfClient(c))>>,
         begun' = begun \cup {tx}, shared' = tx
  PROVE  tx \notin begun /\ tx # NoTx /\ Named'
  <1> DEFINE n == Cardinality(OfClient(c))
  <1>1. IsFiniteSet(OfClient(c)) /\ n \in Nat
    BY FS_Subset, FS_CardinalityType DEF Named, OfClient
  <1>2. OfClient(c) = {c} \X (1 .. n)
    BY DEF Named
  <1> HIDE DEF n
  <1>3. tx = <<c, 1 + n>> /\ tx[1] = c
    BY DEF n
  <1>4. tx \notin OfClient(c)
    BY <1>1, <1>2, <1>3
  <1>5. tx \notin begun
    BY <1>3, <1>4 DEF OfClient
  <1>6. tx # NoTx
    BY <1>1, <1>3 DEF NoTx
  <1>7. OfClient(c)' = OfClient(c) \cup {tx}
    BY <1>3 DEF OfClient
  <1>8. Cardinality(OfClient(c)') = n + 1
    BY <1>1, <1>4, <1>7, FS_AddElement DEF n
  <1>9. OfClient(c)' = {c} \X (1 .. n + 1)
    BY <1>1, <1>2, <1>3, <1>7
  <1>10. \A d \in Clients \ {c} : OfClient(d)' = OfClient(d)
    BY <1>3 DEF OfClient
  <1>11. IsFiniteSet(begun')
    BY FS_AddElement DEF Named
  <1>12. \A d \in Clients : OfClient(d)' = {d} \X (1 .. Cardinality(OfClient(d)'))
    BY <1>8, <1>9, <1>10 DEF Named
  <1>13. \A t \in begun' : t[1] \in Clients
    BY <1>3 DEF Named
  <1> QED BY <1>5, <1>6, <1>11, <1>12, <1>13 DEF Named

\* One client's session and thread change.
LEMMA SessionMoves ==
  ASSUME IInv, NEW c \in Clients, NEW th \in Thread, NEW ns,
         ns \in [tx : begun' \cup {NoTx}, explicit : BOOLEAN, failed : BOOLEAN, modified : SUBSET Tables],
         begun \subseteq begun',
         thread' = [thread EXCEPT ![c] = th],
         sessions' = [sessions EXCEPT ![c] = ns]
  PROVE  /\ thread' \in [Clients -> Thread]
         /\ sessions' \in [Clients -> [tx : begun' \cup {NoTx}, explicit : BOOLEAN, failed : BOOLEAN, modified : SUBSET Tables]]
         /\ thread'[c] = th /\ sessions'[c] = ns
         /\ \A d \in Clients \ {c} : thread'[d] = thread[d] /\ sessions'[d] = sessions[d]
  BY DEF IInv, Types

LEMMA BeginInv ==
  ASSUME IInv, NEW c \in Clients, Begin(c)
  PROVE  IInv'
  <1> DEFINE tx == <<c, 1 + Cardinality(OfClient(c))>>
             ns == [sessions[c] EXCEPT !.tx = tx, !.explicit = TRUE]
  <1>1. /\ thread[c].at = "begin" /\ Tx(c) = NoTx
        /\ begun' = begun \cup {tx} /\ active' = active \cup {tx} /\ shared' = tx
        /\ sessions' = [sessions EXCEPT ![c] = ns]
        /\ UNCHANGED <<strategy, serial, committed, raised, touched>>
    BY DEF Begin, BegunBy, history, IInv, Owned, OfClient, Is
  <1>2. tx \notin begun /\ tx # NoTx /\ tx[1] = c /\ Named'
    BY <1>1, NextNumber DEF IInv
  <1>3. \E th \in Thread : /\ th.at \in {"validate", "raised", "idle"}
                           /\ th.at = "validate" => th.todo # <<>>
                           /\ thread' = [thread EXCEPT ![c] = th]
    <2>1. CASE thread[c].auto /\ thread[c].todo = <<>>
      BY <2>1, Going DEF Begin, Places, Transacting, Accessing
    <2>2. CASE thread[c].auto /\ thread[c].todo # <<>>
      BY <2>2, Going DEF Begin, Places, Transacting, Accessing
    <2>3. CASE ~thread[c].auto
      <3>1. thread' = [thread EXCEPT ![c] = Idle]
        BY <2>3 DEF Begin, Answered
      <3> QED BY <3>1, IdleType
    <2> QED BY <2>1, <2>2, <2>3
  <1>4. PICK th \in Thread : /\ th.at \in {"validate", "raised", "idle"}
                             /\ th.at = "validate" => th.todo # <<>>
                             /\ thread' = [thread EXCEPT ![c] = th]
    BY <1>3
  <1>5. /\ ns \in [tx : begun' \cup {NoTx}, explicit : BOOLEAN, failed : BOOLEAN, modified : SUBSET Tables]
        /\ ns.tx = tx /\ ns.explicit = TRUE /\ ns.failed = sessions[c].failed /\ ns.modified = sessions[c].modified
    BY <1>1 DEF IInv, Types
  <1> HIDE DEF tx, ns
  <1>6. /\ thread' \in [Clients -> Thread]
        /\ sessions' \in [Clients -> [tx : begun' \cup {NoTx}, explicit : BOOLEAN, failed : BOOLEAN, modified : SUBSET Tables]]
        /\ thread'[c] = th /\ sessions'[c] = ns
        /\ \A d \in Clients \ {c} : thread'[d] = thread[d] /\ sessions'[d] = sessions[d]
    BY <1>1, <1>4, <1>5, SessionMoves
  <1>7. Tx(c)' = tx /\ \A d \in Clients \ {c} : Tx(d)' = Tx(d)
    BY <1>5, <1>6 DEF Tx
  <1>8. Types'
    BY <1>1, <1>6 DEF IInv, Types
  <1>9. Owned'
    <2>1. tx[1] \in Clients
      BY <1>2
    <2>2. \A t \in active : t \in begun /\ t[1] \in Clients /\ Tx(t[1]) = t
      BY OwnedBy
    <2>3. \A t \in active' : Tx(t[1])' = t
      <3> SUFFICES ASSUME NEW t \in active' PROVE Tx(t[1])' = t
        OBVIOUS
      <3>1. CASE t = tx
        BY <1>2, <1>7, <3>1
      <3>2. CASE t # tx
        <4>1. t \in active /\ Tx(t[1]) = t /\ t[1] \in Clients /\ t # NoTx
          BY <1>1, <2>2, <3>2, NoTxNotBegun DEF IInv
        <4>2. t[1] # c
          BY <1>1, <4>1
        <4> QED BY <1>7, <4>1, <4>2
      <3> QED BY <3>1, <3>2
    <2>4. /\ thread'[c].at \in {"validate", "raised", "idle"}
          /\ thread'[c].at \in Accessing => thread'[c].todo # <<>>
      BY <1>4, <1>6 DEF Accessing
    <2>5. \A d \in Clients \ {c} : /\ Tx(d)' # NoTx => Tx(d)'[1] = d
                                   /\ sessions'[d].explicit <=> Tx(d)' # NoTx
                                   /\ thread'[d].at = "begin" => Tx(d)' = NoTx
                                   /\ thread'[d].at \in Transacting => Tx(d)' # NoTx
                                   /\ thread'[d].at \in Accessing => thread'[d].todo # <<>>
      BY <1>6, <1>7 DEF IInv, Owned
    <2>6. \A d \in Clients \ {c} : thread'[d].at \in {"refresh", "switch"} => Tx(d)' \notin active'
      <3> SUFFICES ASSUME NEW d \in Clients \ {c}, thread'[d].at \in {"refresh", "switch"} PROVE Tx(d) \notin active \cup {tx}
        BY <1>1, <1>7
      <3>1. Tx(d) \notin active /\ Tx(d) \in begun \cup {NoTx}
        BY <1>6 DEF IInv, Owned, Types, Tx
      <3> QED BY <1>2, <3>1
    <2> QED BY <1>2, <1>5, <1>6, <1>7, <2>3, <2>4, <2>5, <2>6 DEF Owned
  <1>10. Failures'
    <2>1. tx \notin raised'
      BY <1>1, <1>2 DEF IInv, Types
    <2>2. ASSUME NEW d \in Clients \ {c}, Tx(d)' \in active' \cap raised'
          PROVE  /\ thread'[d].at \notin Accessing \cup {"raised", "commit"}
                 /\ thread'[d].at = "idle" => sessions'[d].failed
      <3>1. Tx(d) \in active \cap raised
        BY <1>1, <1>7, <2>1, <2>2
      <3> QED BY <1>6, <3>1 DEF IInv, Failures, Is
    <2> QED BY <1>7, <2>1, <2>2 DEF Failures, Is
  <1>11. Alone'
    <2> SUFFICES ASSUME serial PROVE Alone'
      BY <1>1 DEF Alone
    <2>0. \A d, e \in Clients : ~Is(d, "idle") /\ ~Is(e, "idle") => d = e
      BY DEF IInv, Alone
    <2>1. \A d \in Clients \ {c} : thread'[d].at = "idle"
      BY <1>1, <1>6, <2>0 DEF Is
    <2>2. \A d, e \in Clients : ~Is(d, "idle")' /\ ~Is(e, "idle")' => d = e
      BY <2>1 DEF Is
    <2>3. \A d \in Clients : thread'[d].at \in Accessing => shared' = Tx(d)'
      BY <1>1, <1>7, <2>1 DEF Accessing
    <2>4. \A x \in Tables : Modifiers(x) \subseteq begun /\ Modifiers(x)' = Modifiers(x)
      BY <1>1 DEF IInv, Types, Modifiers, Kinds, Actions
    <2>5. sessions[c].modified = {x \in Tables : NoTx \in Modifiers(x)}
      BY <1>1 DEF IInv, Alone
    <2>6. sessions'[c].modified = {x \in Tables : Tx(c)' \in Modifiers(x)'}
      <3>1. \A x \in Tables : tx \notin Modifiers(x) /\ NoTx \notin Modifiers(x)
        BY <1>2, <2>4, NoTxNotBegun DEF IInv
      <3> QED BY <1>5, <1>6, <1>7, <2>4, <2>5, <3>1
    <2>7. ASSUME NEW d \in Clients \ {c}, Tx(d)' \in active' \cup {NoTx} \/ Is(d, "refresh")'
          PROVE  sessions'[d].modified = {x \in Tables : Tx(d)' \in Modifiers(x)'}
      <3>1. Tx(d) \in active \cup {NoTx}
        <4>1. Tx(d) \in begun \cup {NoTx} /\ Tx(d)' = Tx(d) /\ thread'[d].at = "idle"
          BY <1>7, <2>1 DEF IInv, Types, Tx
        <4> QED BY <1>1, <1>2, <2>7, <4>1 DEF Is
      <3>2. sessions[d].modified = {x \in Tables : Tx(d) \in Modifiers(x)}
        BY <3>1 DEF IInv, Alone
      <3> QED BY <1>6, <1>7, <2>4, <3>2
    <2>8. \A d \in Clients : thread'[d].at \notin {"log", "perform"}
      BY <1>4, <1>6, <2>1
    <2> QED BY <2>2, <2>3, <2>6, <2>7, <2>8 DEF Alone
  <1> QED BY <1>2, <1>8, <1>9, <1>10, <1>11 DEF IInv

\* A COMMIT ends its transaction, and may raise after that, or because it has ended before.
LEMMA Committing ==
  ASSUME IInv, NEW c \in Clients, CommitRaises(c)
  PROVE  \E th \in Thread : th.at \in {"raised", "idle"} /\ thread' = [thread EXCEPT ![c] = th]
  BY Going, IdleType DEF CommitRaises, Answered, Places, Transacting

LEMMA CommitInv ==
  ASSUME IInv, NEW c \in Clients, Commit(c)
  PROVE  IInv'
  <1>1. /\ thread[c].at = "commit" /\ Tx(c) # NoTx /\ Tx(c) \in begun
        /\ serial => \A d \in Clients \ {c} : Is(d, "idle")
        /\ UNCHANGED <<sessions, shared, begun, serial, raised, touched>>
    BY DEF Commit, Is, IInv, Owned, Alone, Types, Transacting, Tx
  <1>2. CASE Tx(c) \notin active
    <2>1. CommitRaises(c) /\ UNCHANGED <<strategy, active, committed>>
      BY <1>2 DEF Commit
    <2>2. PICK th \in Thread : th.at \in {"raised", "idle"} /\ thread' = [thread EXCEPT ![c] = th]
      BY <2>1, Committing
    <2>3. "mechanism" \in DOMAIN strategy' /\ strategy'.mechanism \in Mechanisms \cup {"timestamp-based"}
      BY <2>1 DEF IInv, Types
    <2> QED BY <1>1, <1>2, <2>1, <2>2, <2>3, Untouched, ThreadMoves DEF Accessing
  <1>3. CASE Tx(c) \in active
    <2>1. /\ active' = active \ {Tx(c)} /\ committed' = committed \cup {Tx(c)}
          /\ Goto(c, "refresh") \/ CommitRaises(c)
      BY <1>3 DEF Commit, Ended
    <2>2. PICK th \in Thread : th.at \in {"refresh", "raised", "idle"} /\ thread' = [thread EXCEPT ![c] = th]
      BY <2>1, Going, Committing DEF Places, Transacting
    <2>3. /\ thread' \in [Clients -> Thread] /\ thread'[c] = th
          /\ \A d \in Clients \ {c} : thread'[d] = thread[d]
      BY <2>2 DEF IInv, Types
    <2>4. "mechanism" \in DOMAIN strategy' /\ strategy'.mechanism \in Mechanisms \cup {"timestamp-based"}
      BY <1>3, EndKeepsMechanism DEF Commit, Ended, Mechanism, IInv, Types
    <2>5. Types'
      BY <1>1, <2>1, <2>3, <2>4 DEF IInv, Types
    <2>6. Named'
      BY <1>1 DEF IInv, Named, OfClient
    <2>7. \A d \in Clients : Tx(d)' = Tx(d)
      BY <1>1 DEF Tx
    <2>8. Owned'
      <3>1. \A t \in active' : Tx(t[1])' = t
        BY <2>1, <2>7, OwnedBy
      <3>2. Tx(c) \notin active' /\ thread'[c].at \in {"refresh", "raised", "idle"}
        BY <2>1, <2>2, <2>3
      <3> QED BY <1>1, <2>1, <2>3, <2>7, <3>1, <3>2 DEF IInv, Owned, Accessing
    <2>9. Failures'
      BY <1>1, <2>1, <2>3, <2>7 DEF IInv, Failures, Is
    <2>10. Alone'
      <3> SUFFICES ASSUME serial PROVE Alone'
        BY <1>1 DEF Alone
      <3>1. \A d \in Clients \ {c} : thread'[d].at = "idle"
        BY <1>1, <2>3 DEF Is
      <3>2. thread'[c].at \in {"refresh", "raised", "idle"}
        BY <2>2, <2>3
      <3>3. \A x \in Tables : Modifiers(x)' = Modifiers(x)
        BY <1>1, Untouched
      <3>4. ASSUME NEW d \in Clients, Tx(d) \in active' \cup {NoTx} \/ Is(d, "refresh")'
            PROVE  sessions[d].modified = {x \in Tables : Tx(d) \in Modifiers(x)}
        <4>1. Tx(d) \in active \cup {NoTx}
          BY <1>3, <2>1, <3>1, <3>4 DEF Is
        <4> QED BY <4>1 DEF IInv, Alone
      <3> QED BY <1>1, <2>7, <3>1, <3>2, <3>3, <3>4 DEF Alone, Is, Accessing
    <2> QED BY <2>5, <2>6, <2>8, <2>9, <2>10 DEF IInv
  <1> QED BY <1>2, <1>3

\* A statement that ends a session's transaction, or finds it ended: the session is reset, or not.
LEMMA SessionEnds ==
  ASSUME IInv, NEW c \in Clients, Tx(c) # NoTx,
         Answered(c), sessions' \in {sessions, [sessions EXCEPT ![c] = NewSession]},
         UNCHANGED <<shared, begun, serial, committed>>,
         active' = active \ {Tx(c)},
         raised' \subseteq raised,
         Mechanism(strategy'),
         touched' \in [Tables -> [Kinds -> SUBSET begun]],
         \A d \in Clients \ {c} : \A x \in Tables : Tx(d) \in Modifiers(x)' <=> Tx(d) \in Modifiers(x)
  PROVE  IInv'
  <1>1. /\ NewSession \in [tx : begun' \cup {NoTx}, explicit : BOOLEAN, failed : BOOLEAN, modified : SUBSET Tables]
        /\ NewSession.tx = NoTx /\ NewSession.explicit = FALSE /\ NewSession.modified = {}
    BY DEF NewSession
  <1>2. PICK ns \in {sessions[c], NewSession} : sessions' = [sessions EXCEPT ![c] = ns]
    <2>1. CASE sessions' = sessions
      <3>1. sessions = [sessions EXCEPT ![c] = sessions[c]]
        BY DEF IInv, Types
      <3> QED BY <2>1, <3>1
    <2>2. CASE sessions' = [sessions EXCEPT ![c] = NewSession]
      BY <2>2
    <2> QED BY <2>1, <2>2
  <1> HIDE DEF NewSession
  <1>3. /\ ns \in [tx : begun' \cup {NoTx}, explicit : BOOLEAN, failed : BOOLEAN, modified : SUBSET Tables]
        /\ ns.explicit <=> ns.tx # NoTx
        /\ ns.tx = NoTx \/ ns.tx = Tx(c)
        /\ ns.tx = NoTx => ns.modified = {}
    <2>1. /\ sessions[c] \in [tx : begun' \cup {NoTx}, explicit : BOOLEAN, failed : BOOLEAN, modified : SUBSET Tables]
          /\ sessions[c].tx = Tx(c) /\ (sessions[c].explicit <=> Tx(c) # NoTx)
      BY DEF IInv, Types, Owned, Tx
    <2> QED BY <1>1, <1>2, <2>1
  <1>4. /\ thread' \in [Clients -> Thread]
        /\ sessions' \in [Clients -> [tx : begun' \cup {NoTx}, explicit : BOOLEAN, failed : BOOLEAN, modified : SUBSET Tables]]
        /\ thread'[c] = Idle /\ thread'[c].at = "idle" /\ sessions'[c] = ns
        /\ \A d \in Clients \ {c} : thread'[d] = thread[d] /\ sessions'[d] = sessions[d]
    BY <1>2, <1>3, IdleType, SessionMoves DEF Answered
  <1>5. (Tx(c)' = NoTx \/ Tx(c)' = Tx(c)) /\ \A d \in Clients \ {c} : Tx(d)' = Tx(d)
    BY <1>3, <1>4 DEF Tx
  <1>6. Types'
    BY <1>4 DEF IInv, Types, Mechanism
  <1>7. Named'
    BY DEF IInv, Named, OfClient
  <1>8. Owned'
    <2>1. \A t \in active' : Tx(t[1])' = t
      <3> SUFFICES ASSUME NEW t \in active' PROVE Tx(t[1])' = t
        OBVIOUS
      <3>1. t \in active /\ t # Tx(c) /\ Tx(t[1]) = t /\ t[1] \in Clients
        BY OwnedBy
      <3> QED BY <1>5, <3>1
    <2>2. \A d \in Clients \ {c} : /\ Tx(d)' # NoTx => Tx(d)'[1] = d
                                   /\ sessions'[d].explicit <=> Tx(d)' # NoTx
                                   /\ thread'[d].at = "begin" => Tx(d)' = NoTx
                                   /\ thread'[d].at \in Transacting => Tx(d)' # NoTx
                                   /\ thread'[d].at \in Accessing => thread'[d].todo # <<>>
                                   /\ thread'[d].at \in {"refresh", "switch"} => Tx(d)' \notin active'
      BY <1>4, <1>5 DEF IInv, Owned
    <2>3. /\ Tx(c)' # NoTx => Tx(c)'[1] = c
          /\ sessions'[c].explicit <=> Tx(c)' # NoTx
      <3>1. Tx(c)[1] = c /\ Tx(c)' = ns.tx
        BY <1>4 DEF IInv, Owned, Tx
      <3> QED BY <1>3, <1>4, <3>1
    <2> QED BY <1>4, <2>1, <2>2, <2>3 DEF Owned, Transacting, Accessing
  <1>9. Failures'
    <2>1. NoTx \notin active' /\ Tx(c) \notin active'
      BY NoTxNotBegun DEF IInv, Types
    <2>2. ASSUME NEW d \in Clients \ {c}, Tx(d)' \in active' \cap raised'
          PROVE  /\ thread'[d].at \notin Accessing \cup {"raised", "commit"}
                 /\ thread'[d].at = "idle" => sessions'[d].failed
      <3>1. Tx(d) \in active \cap raised
        BY <1>5, <2>2
      <3> QED BY <1>4, <3>1 DEF IInv, Failures, Is
    <2> QED BY <1>5, <2>1, <2>2 DEF Failures, Is
  <1>10. Alone'
    <2> SUFFICES ASSUME serial PROVE Alone'
      BY DEF Alone
    <2>1. \A d, e \in Clients : ~Is(d, "idle")' /\ ~Is(e, "idle")' => d = e
      BY <1>4 DEF IInv, Alone, Is
    <2>2. \A d \in Clients : /\ thread'[d].at \in Accessing => shared' = Tx(d)'
                             /\ thread'[d].at \in {"log", "perform"} => Tx(d)' \in active'
      <3> SUFFICES ASSUME NEW d \in Clients, thread'[d].at \in Accessing
                   PROVE  shared = Tx(d)' /\ (thread'[d].at \in {"log", "perform"} => Tx(d)' \in active')
        BY DEF Accessing
      <3>1. d # c /\ thread'[d] = thread[d] /\ Tx(d)' = Tx(d)
        BY <1>4, <1>5 DEF Accessing
      <3>2. Tx(d) # Tx(c)
        BY <3>1, Distinct DEF IInv
      <3> QED BY <3>1, <3>2 DEF IInv, Alone
    <2>3. \A x \in Tables : NoTx \notin Modifiers(x)'
      <3>1. \A x \in Tables : Modifiers(x)' \subseteq begun
        BY DEF Modifiers, Kinds, Actions
      <3> QED BY <3>1, NoTxNotBegun DEF IInv
    <2>4. ASSUME Tx(c)' \in active' \cup {NoTx}
          PROVE  sessions'[c].modified = {x \in Tables : Tx(c)' \in Modifiers(x)'}
      <3>1. Tx(c)' = NoTx
        BY <1>5, <2>4
      <3>2. sessions'[c].modified = {}
        BY <1>3, <1>4, <3>1 DEF Tx
      <3> QED BY <2>3, <3>1, <3>2
    <2>5. ASSUME NEW d \in Clients \ {c}, Tx(d)' \in active' \cup {NoTx} \/ Is(d, "refresh")'
          PROVE  sessions'[d].modified = {x \in Tables : Tx(d)' \in Modifiers(x)'}
      <3>1. Tx(d) \in active \cup {NoTx} \/ Is(d, "refresh")
        BY <1>4, <1>5, <2>5 DEF Is
      <3>2. sessions[d].modified = {x \in Tables : Tx(d) \in Modifiers(x)}
        BY <3>1 DEF IInv, Alone
      <3> QED BY <1>4, <1>5, <3>2
    <2>6. ~Is(c, "refresh")'
      BY <1>4 DEF Is
    <2> QED BY <2>1, <2>2, <2>4, <2>5, <2>6 DEF Alone
  <1> QED BY <1>6, <1>7, <1>8, <1>9, <1>10 DEF IInv

LEMMA RefreshInv ==
  ASSUME IInv, NEW c \in Clients, Refresh(c)
  PROVE  IInv'
  <1>1. /\ thread[c].at = "refresh" /\ Tx(c) # NoTx /\ Tx(c) \notin active
        /\ serial => \A d \in Clients \ {c} : Is(d, "idle")
        /\ UNCHANGED <<shared, strategy, active, begun, serial, committed, raised, touched>>
    BY DEF Refresh, history, Is, IInv, Owned, Alone, Transacting
  <1>2. Mechanism(strategy')
    BY <1>1 DEF Mechanism, IInv, Types
  <1>3. CASE sessions' = [sessions EXCEPT ![c] = NewSession] /\ Answered(c)
    <2>1. active' = active \ {Tx(c)}
      BY <1>1
    <2> QED BY <1>1, <1>2, <1>3, <2>1, Untouched, SessionEnds
  <1>4. CASE CommitRaises(c) /\ UNCHANGED sessions
    <2>1. PICK th \in Thread : th.at \in {"raised", "idle"} /\ thread' = [thread EXCEPT ![c] = th]
      BY <1>4, Committing
    <2> QED BY <1>1, <1>2, <1>4, <2>1, Untouched, ThreadMoves DEF Accessing, Mechanism
  <1> QED BY <1>3, <1>4 DEF Refresh

LEMMA AbortInv ==
  ASSUME IInv, NEW c \in Clients, Abort(c)
  PROVE  IInv'
  <1>1. /\ Tx(c) # NoTx /\ Answered(c)
        /\ sessions' \in {sessions, [sessions EXCEPT ![c] = NewSession]}
        /\ UNCHANGED <<shared, begun, serial, committed>>
    BY DEF Abort, Is, IInv, Owned, Transacting
  <1>2. CASE Tx(c) \notin active
    <2>1. UNCHANGED <<active, strategy, raised, touched>> /\ active' = active \ {Tx(c)}
      BY <1>2 DEF Abort
    <2>2. Mechanism(strategy')
      BY <2>1 DEF Mechanism, IInv, Types
    <2> QED BY <1>1, <2>1, <2>2, Untouched, SessionEnds
  <1>3. CASE Tx(c) \in active
    <2>1. /\ active' = active \ {Tx(c)} /\ raised' = raised \ {Tx(c)}
          /\ touched' = [x \in Tables |-> [k \in Kinds |-> touched[x][k] \ {Tx(c)}]]
      BY <1>3 DEF Abort, Ended, Forget
    <2>2. Mechanism(strategy')
      BY <1>3, EndKeepsMechanism DEF Abort, Ended, Mechanism, IInv, Types
    <2>3. touched' \in [Tables -> [Kinds -> SUBSET begun]]
      BY <2>1 DEF IInv, Types
    <2>4. \A x \in Tables : Modifiers(x)' = Modifiers(x) \ {Tx(c)}
      BY <2>1 DEF Modifiers, Kinds, Actions
    <2>5. \A d \in Clients \ {c} : Tx(d) # Tx(c)
      BY <1>1, Distinct DEF IInv
    <2>6. \A d \in Clients \ {c} : \A x \in Tables : Tx(d) \in Modifiers(x)' <=> Tx(d) \in Modifiers(x)
      BY <2>4, <2>5
    <2> QED BY <1>1, <2>1, <2>2, <2>3, <2>6, SessionEnds
  <1> QED BY <1>2, <1>3

--------------------------------------------------------------------------------
(* Steps that end an access or a statement.                                 *)

LEMMA ExceptInv ==
  ASSUME IInv, NEW c \in Clients, Except(c)
  PROVE  IInv'
  <1>1. /\ thread[c].at = "raised" /\ Tx(c) # NoTx /\ Tx(c) \in begun
        /\ raised' = raised \cup {Tx(c)}
        /\ UNCHANGED <<shared, strategy, active, begun, serial, committed, touched>>
    BY DEF Except, MarkFailed, Is, IInv, Owned, Types, Transacting, Tx
  <1>2. shared # NoTx
    BY <1>1 DEF IInv, Named
  <1>3. \E th \in Thread : /\ thread' = [thread EXCEPT ![c] = th]
                           /\ \/ th.at = "abort" /\ sessions' = sessions
                              \/ th.at = "idle" /\ sessions' = [sessions EXCEPT ![c].failed = TRUE]
    <2>1. CASE thread[c].auto
      BY <1>2, <2>1, Going DEF Except, Places, Transacting
    <2>2. CASE ~thread[c].auto
      <3>1. thread' = [thread EXCEPT ![c] = Idle] /\ sessions' = [sessions EXCEPT ![c].failed = TRUE]
        BY <2>2 DEF Except, MarkFailed, Answered
      <3> QED BY <3>1, IdleType
    <2> QED BY <2>1, <2>2
  <1>4. PICK th \in Thread : /\ thread' = [thread EXCEPT ![c] = th]
                             /\ \/ th.at = "abort" /\ sessions' = sessions
                                \/ th.at = "idle" /\ sessions' = [sessions EXCEPT ![c].failed = TRUE]
    BY <1>3
  <1>5. /\ thread' \in [Clients -> Thread] /\ thread'[c] = th
        /\ \A d \in Clients \ {c} : thread'[d] = thread[d]
    BY <1>4 DEF IInv, Types
  <1>6. /\ sessions' \in [Clients -> [tx : begun \cup {NoTx}, explicit : BOOLEAN, failed : BOOLEAN, modified : SUBSET Tables]]
        /\ th.at = "idle" => sessions'[c].failed
        /\ \A d \in Clients : /\ sessions'[d].tx = sessions[d].tx
                              /\ sessions'[d].explicit = sessions[d].explicit
                              /\ sessions'[d].modified = sessions[d].modified
                              /\ d # c => sessions'[d].failed = sessions[d].failed
    <2>1. sessions \in [Clients -> [tx : begun \cup {NoTx}, explicit : BOOLEAN, failed : BOOLEAN, modified : SUBSET Tables]]
      BY DEF IInv, Types
    <2>2. CASE th.at = "abort" /\ sessions' = sessions
      BY <2>1, <2>2
    <2>3. CASE th.at = "idle" /\ sessions' = [sessions EXCEPT ![c].failed = TRUE]
      BY <2>1, <2>3
    <2> QED BY <1>4, <2>2, <2>3
  <1>7. \A d \in Clients : Tx(d)' = Tx(d) /\ (Is(d, "refresh")' <=> Is(d, "refresh"))
    BY <1>1, <1>4, <1>5, <1>6 DEF Tx, Is
  <1>8. Types'
    BY <1>1, <1>5, <1>6 DEF IInv, Types
  <1>9. Named'
    BY <1>1 DEF IInv, Named, OfClient
  <1>10. Owned'
    <2>1. \A t \in active' : Tx(t[1])' = t
      BY <1>1, <1>7, OwnedBy
    <2>2. \A d \in Clients : sessions'[d].explicit <=> Tx(d) # NoTx
      BY <1>6 DEF IInv, Owned
    <2>3. thread'[c].at \in {"abort", "idle"}
      BY <1>4, <1>5
    <2> QED BY <1>1, <1>5, <1>7, <2>1, <2>2, <2>3 DEF IInv, Owned, Accessing
  <1>11. Failures'
    <2>1. \A d \in Clients \ {c} : Tx(d) # Tx(c)
      BY <1>1, Distinct DEF IInv
    <2>2. ASSUME NEW d \in Clients \ {c}, Tx(d)' \in active' \cap raised'
          PROVE  /\ thread'[d].at \notin Accessing \cup {"raised", "commit"}
                 /\ thread'[d].at = "idle" => sessions'[d].failed
      <3>1. Tx(d) \in active \cap raised
        BY <1>1, <1>7, <2>1, <2>2
      <3> QED BY <1>5, <1>6, <3>1 DEF IInv, Failures, Is
    <2>3. thread'[c].at \in {"abort", "idle"} /\ (thread'[c].at = "idle" => sessions'[c].failed)
      BY <1>4, <1>5, <1>6
    <2> QED BY <2>2, <2>3 DEF Failures, Is, Accessing
  <1>12. Alone'
    <2> SUFFICES ASSUME serial PROVE Alone'
      BY <1>1 DEF Alone
    <2>1. \A d \in Clients \ {c} : thread'[d].at = "idle"
      BY <1>1, <1>5 DEF IInv, Alone, Is
    <2>2. \A d, e \in Clients : ~Is(d, "idle")' /\ ~Is(e, "idle")' => d = e
      BY <2>1 DEF Is
    <2>3. \A d \in Clients : thread'[d].at \notin Accessing
      BY <1>4, <1>5, <2>1 DEF Accessing
    <2>4. \A x \in Tables : Modifiers(x)' = Modifiers(x)
      BY <1>1, Untouched
    <2>5. ASSUME NEW d \in Clients, Tx(d) \in active \cup {NoTx} \/ Is(d, "refresh")
          PROVE  sessions'[d].modified = {x \in Tables : Tx(d) \in Modifiers(x)}
      BY <1>6, <2>5 DEF IInv, Alone
    <2> QED BY <1>1, <1>7, <2>2, <2>3, <2>4, <2>5 DEF Alone, Accessing
  <1> QED BY <1>8, <1>9, <1>10, <1>11, <1>12 DEF IInv

\* The history of an access, of statements that do not overlap: what it deletes of the
\* tables that refer to its own is in it as nothing else.
LEMMA PerformTouches ==
  ASSUME IInv, NEW c \in Clients, thread[c].at \in Accessing, shared \in begun, UNCHANGED <<begun, shared>>,
         NEW cascade \in CascadesOf(c), Touches({Access(c)} \cup cascade),
         NEW table, table = Access(c)[1], NEW action, action = Action(c)
  PROVE  /\ touched' \in [Tables -> [Kinds -> SUBSET begun]]
         /\ ~serial => UNCHANGED touched
         /\ serial => \A x \in Tables :
              /\ Readers(x)' = IF x = table /\ action = "read" THEN Readers(x) \cup {shared} ELSE Readers(x)
              /\ Writers(x)' = IF x = table /\ action # "read" THEN Writers(x) \cup {shared} ELSE Writers(x)
              /\ Modifiers(x)' = IF x = table /\ action \in {"write", "create"} THEN Modifiers(x) \cup {shared} ELSE Modifiers(x)
  <1>1. touched \in [Tables -> [Kinds -> SUBSET begun]]
    BY DEF IInv, Types
  <1>2. Access(c) = <<table, action>> /\ table \in Tables /\ action \in Actions
    BY AccessType DEF Action
  <1>3. CASE serial
    <2>1. touched' = [x \in Tables |-> [k \in Kinds |->
                       IF <<x, k>> \in {Access(c)} \cup cascade THEN touched[x][k] \cup {shared} ELSE touched[x][k]]]
      BY <1>3 DEF Touches
    <2>2. touched' \in [Tables -> [Kinds -> SUBSET begun]]
      BY <1>1, <2>1
    <2>3. \A x \in Tables : \A k \in Actions : <<x, k>> \in {Access(c)} \cup cascade <=> x = table /\ k = action
      <3> SUFFICES ASSUME NEW x \in Tables, NEW k \in Actions
                   PROVE  <<x, k>> \in {Access(c)} \cup cascade <=> x = table /\ k = action
        OBVIOUS
      <3>1. <<x, k>> \notin cascade
        BY DEF CascadesOf, Actions
      <3>2. <<x, k>> = Access(c) <=> x = table /\ k = action
        BY <1>2
      <3> QED BY <3>1, <3>2
    <2>4. \A x \in Tables : \A k \in Actions :
            touched'[x][k] = IF x = table /\ k = action THEN touched[x][k] \cup {shared} ELSE touched[x][k]
      <3>1. Actions \subseteq Kinds
        BY DEF Kinds
      <3>2. \A x \in Tables : \A k \in Actions :
              touched'[x][k] = IF <<x, k>> \in {Access(c)} \cup cascade THEN touched[x][k] \cup {shared} ELSE touched[x][k]
        BY <2>1, <3>1
      <3> QED BY <2>3, <3>2
    <2>5. \A x \in Tables :
            /\ Readers(x)' = IF x = table /\ action = "read" THEN Readers(x) \cup {shared} ELSE Readers(x)
            /\ Writers(x)' = IF x = table /\ action # "read" THEN Writers(x) \cup {shared} ELSE Writers(x)
            /\ Modifiers(x)' = IF x = table /\ action \in {"write", "create"} THEN Modifiers(x) \cup {shared} ELSE Modifiers(x)
      BY <1>2, <2>4 DEF Readers, Writers, Modifiers, Actions
    <2> QED BY <1>3, <2>2, <2>5
  <1>4. CASE ~serial
    BY <1>1, <1>4 DEF Touches
  <1> QED BY <1>3, <1>4

\* A write or create makes a modified table of every session that has the current transaction.
LEMMA PerformTracks ==
  ASSUME IInv, NEW table \in Tables, NEW action,
         sessions' = IF action \in {"write", "create"} THEN Tracked(table) ELSE sessions
  PROVE  /\ sessions' \in [Clients -> [tx : begun \cup {NoTx}, explicit : BOOLEAN, failed : BOOLEAN, modified : SUBSET Tables]]
         /\ \A d \in Clients : /\ sessions'[d].tx = sessions[d].tx
                               /\ sessions'[d].explicit = sessions[d].explicit
                               /\ sessions'[d].failed = sessions[d].failed
                               /\ sessions'[d].modified = IF action \in {"write", "create"} /\ Tx(d) = shared
                                                          THEN sessions[d].modified \cup {table} ELSE sessions[d].modified
  <1>1. sessions \in [Clients -> [tx : begun \cup {NoTx}, explicit : BOOLEAN, failed : BOOLEAN, modified : SUBSET Tables]]
    BY DEF IInv, Types
  <1>2. CASE action \in {"write", "create"}
    BY <1>1, <1>2 DEF Tracked
  <1>3. CASE action \notin {"write", "create"}
    BY <1>1, <1>3
  <1> QED BY <1>2, <1>3

LEMMA PerformInv ==
  ASSUME IInv, NEW c \in Clients, Perform(c)
  PROVE  IInv'
  <1>1. /\ thread[c].at = "perform" /\ Tx(c) # NoTx /\ Tx(c) \in begun /\ Tx(c) \notin active \cap raised
        /\ serial => shared = Tx(c) /\ Tx(c) \in active
        /\ UNCHANGED <<shared, strategy, active, begun, serial, committed, raised>>
    BY DEF Perform, Is, IInv, Owned, Failures, Alone, Types, Transacting, Accessing, Tx
  <1>2. PICK table \in Tables, action \in Actions : table = Access(c)[1] /\ action = Action(c)
    BY <1>1, AccessType DEF Accessing
  <1>3. shared \in begun
    BY <1>1 DEF IInv, Named, Types
  <1>4. PICK cascade \in CascadesOf(c) : Touches({Access(c)} \cup cascade)
    BY DEF Perform
  <1>5. sessions' = IF action \in {"write", "create"} THEN Tracked(table) ELSE sessions
    BY <1>2 DEF Perform
  <1>6. PICK th \in Thread : /\ th.at \in {"validate", "commit", "idle"}
                             /\ th.at = "validate" => th.todo # <<>>
                             /\ thread' = [thread EXCEPT ![c] = th]
    BY <1>1, Finishing DEF Perform, Accessing
  <1>7. /\ thread' \in [Clients -> Thread] /\ thread'[c] = th
        /\ \A d \in Clients \ {c} : thread'[d] = thread[d]
    BY <1>6 DEF IInv, Types
  <1>8. /\ sessions' \in [Clients -> [tx : begun \cup {NoTx}, explicit : BOOLEAN, failed : BOOLEAN, modified : SUBSET Tables]]
        /\ \A d \in Clients : /\ sessions'[d].tx = sessions[d].tx
                              /\ sessions'[d].explicit = sessions[d].explicit
                              /\ sessions'[d].failed = sessions[d].failed
                              /\ sessions'[d].modified = IF action \in {"write", "create"} /\ Tx(d) = shared
                                                         THEN sessions[d].modified \cup {table} ELSE sessions[d].modified
    BY <1>5, PerformTracks
  <1>9. /\ touched' \in [Tables -> [Kinds -> SUBSET begun]]
        /\ serial => \A x \in Tables :
             Modifiers(x)' = IF x = table /\ action \in {"write", "create"} THEN Modifiers(x) \cup {shared} ELSE Modifiers(x)
    BY <1>1, <1>2, <1>3, <1>4, PerformTouches DEF Accessing
  <1>10. \A d \in Clients : Tx(d)' = Tx(d) /\ (Is(d, "refresh")' <=> Is(d, "refresh"))
    BY <1>1, <1>6, <1>7, <1>8 DEF Tx, Is
  <1>11. Types'
    BY <1>1, <1>7, <1>8, <1>9 DEF IInv, Types
  <1>12. Named'
    BY <1>1 DEF IInv, Named, OfClient
  <1>13. Owned'
    <2>1. \A t \in active' : Tx(t[1])' = t
      BY <1>1, <1>10, OwnedBy
    <2>2. \A d \in Clients : sessions'[d].explicit <=> Tx(d) # NoTx
      BY <1>8 DEF IInv, Owned
    <2>3. thread'[c].at \in {"validate", "commit", "idle"} /\ (thread'[c].at = "validate" => thread'[c].todo # <<>>)
      BY <1>6, <1>7
    <2> QED BY <1>1, <1>7, <1>10, <2>1, <2>2, <2>3 DEF IInv, Owned, Accessing
  <1>14. Failures'
    <2> SUFFICES ASSUME NEW d \in Clients, Tx(d) \in active \cap raised
                 PROVE  /\ thread'[d].at \notin Accessing \cup {"raised", "commit"}
                        /\ thread'[d].at = "idle" => sessions[d].failed
      BY <1>1, <1>8, <1>10 DEF Failures, Is
    <2>1. d # c /\ thread'[d] = thread[d]
      BY <1>1, <1>7
    <2> QED BY <2>1 DEF IInv, Failures, Is
  <1>15. Alone'
    <2> SUFFICES ASSUME serial PROVE Alone'
      BY <1>1 DEF Alone
    <2>1. shared = Tx(c) /\ \A d \in Clients \ {c} : thread'[d].at = "idle"
      BY <1>1, <1>7 DEF IInv, Alone, Is, Accessing
    <2>2. \A d, e \in Clients : ~Is(d, "idle")' /\ ~Is(e, "idle")' => d = e
      BY <2>1 DEF Is
    <2>3. \A d \in Clients : /\ thread'[d].at \in Accessing => shared' = Tx(d)'
                             /\ thread'[d].at \notin {"log", "perform"}
      BY <1>1, <1>6, <1>7, <1>10, <2>1 DEF Accessing
    <2>4. \A d \in Clients \ {c} : Tx(d) # shared
      BY <1>1, <2>1, Distinct DEF IInv
    <2>5. ASSUME NEW d \in Clients, Tx(d) \in active \cup {NoTx} \/ Is(d, "refresh")
          PROVE  sessions'[d].modified = {x \in Tables : Tx(d) \in Modifiers(x)'}
      <3>1. sessions[d].modified = {x \in Tables : Tx(d) \in Modifiers(x)}
        BY <2>5 DEF IInv, Alone
      <3>2. CASE d = c /\ action \in {"write", "create"}
        <4>1. sessions'[d].modified = sessions[d].modified \cup {table}
          BY <1>8, <2>1, <3>2
        <4>2. \A x \in Tables : Tx(d) \in Modifiers(x)' <=> Tx(d) \in Modifiers(x) \/ x = table
          BY <1>9, <2>1, <3>2
        <4> QED BY <1>2, <3>1, <4>1, <4>2
      <3>3. CASE d # c \/ action \notin {"write", "create"}
        <4>1. sessions'[d].modified = sessions[d].modified
          BY <1>8, <2>4, <3>3
        <4>2. \A x \in Tables : Tx(d) \in Modifiers(x)' <=> Tx(d) \in Modifiers(x)
          BY <1>9, <2>4, <3>3
        <4> QED BY <3>1, <4>1, <4>2
      <3> QED BY <3>2, <3>3
    <2> QED BY <1>1, <1>10, <2>2, <2>3, <2>5 DEF Alone
  <1> QED BY <1>11, <1>12, <1>13, <1>14, <1>15 DEF IInv

--------------------------------------------------------------------------------
(* Theorems.                                                                *)

LEMMA StepInv ==
  ASSUME IInv, NEW c \in Clients, Step(c)
  PROVE  IInv'
  BY SwitchInv, BeginInv, CommitInv, RefreshInv, AbortInv, ValidateInv, LogInv, PerformInv, NoAccessInv, ExceptInv
     DEF Step

LEMMA NextInv == IInv /\ [Next]_vars => IInv'
  <1> SUFFICES ASSUME IInv, [Next]_vars PROVE IInv'
    OBVIOUS
  <1>1. CASE UNCHANGED vars
    BY <1>1, Stutters
  <1>2. CASE Next
    BY <1>2, StatementInv, StepInv DEF Next
  <1> QED BY <1>1, <1>2

\* The inductive invariant holds in every reachable state of Sessions: what execute_query,
\* _commit and _rollback keep of the sessions, the threads and the active transactions.
THEOREM Invariant == Spec => []IInv
  BY InitInv, NextInv, PTL DEF Spec

\* The sessions, the threads and the sets of transactions keep their types through
\* every statement (query_processor.classes.QueryProcessor).
THEOREM TypeCorrect == Spec => []TypeOK
  <1>1. IInv => TypeOK
    BY DEF IInv, Types, Owned, TypeOK, Tx, Is, Thread, Accessing
  <1> QED BY <1>1, Invariant, PTL

\* Every active transaction is that of a session, whose client can end it, and no two
\* sessions share one, however the threads of any number of clients interleave and
\* whichever of their statements, commits and rollbacks fail (execute_query, _commit,
\* _handle_commit, _rollback).
THEOREM EveryTransactionOwned == Spec => []TransactionsOwned
  <1>1. IInv => TransactionsOwned
    <2> SUFFICES ASSUME IInv PROVE TransactionsOwned
      OBVIOUS
    <2>1. \A c, d \in Clients : c # d /\ Tx(c) # NoTx => Tx(c) # Tx(d)
      BY Distinct DEF IInv
    <2>2. \A c \in Clients : sessions[c].explicit <=> Tx(c) # NoTx
      BY DEF IInv, Owned
    <2>3. \A t \in active : \E c \in Clients : Tx(c) = t
      BY OwnedBy
    <2> QED BY <2>1, <2>2, <2>3 DEF TransactionsOwned
  <1> QED BY <1>1, Invariant, PTL

\* No COMMIT and no auto-commit ends a transaction one of whose statements has failed.
THEOREM NoFailedCommit == Spec => FailedNeverCommits
  <1>1. IInv /\ [Next]_vars => [\A t \in committed' \ committed : t \notin raised]_vars
    <2> SUFFICES ASSUME IInv, Next PROVE \A t \in committed' \ committed : t \notin raised
      BY DEF vars
    <2>1. PICK c \in Clients : Statement(c) \/ Step(c)
      BY DEF Next
    <2>2. CASE Commit(c)
      BY <2>2 DEF Commit, IInv, Failures, Is
    <2>3. CASE ~Commit(c)
      <3>1. CASE Statement(c)
        BY <3>1 DEF Statement, HandleBegin, HandleCommit, HandleRollback, HandleSetConcurrency,
                    HandleUnterminated, HandleUnparsed, HandleQuery, Explicit, TakesToBegin, TakesTo, Takes, Refuses, vars
      <3>2. CASE Step(c)
        BY <2>3, <3>2 DEF Step, Switch, Begin, Refresh, Abort, Validate, CreateRefused, Log, Perform, PerformRefused, PerformRaises,
                           Except, history
      <3> QED BY <2>1, <3>1, <3>2
    <2> QED BY <2>2, <2>3
  <1> QED BY <1>1, Invariant, PTL DEF Spec, FailedNeverCommits

\* Statements that do not overlap read and write under the transaction of their client,
\* which is active, although current_transaction_id is shared.
THEOREM OwnTransaction == Spec => []RunsAsOwner
  <1>1. IInv => RunsAsOwner
    BY DEF IInv, Owned, Alone, RunsAsOwner, Is, Transacting, Accessing
  <1> QED BY <1>1, Invariant, PTL

\* A commit of statements that do not overlap computes the statistics of the tables that
\* statements of its transaction name and have changed or created, and of no other; not of
\* those that have lost rows to a cascade (_track_modified_table, _commit).
THEOREM EveryTableRefreshed == Spec => []RefreshesOwn
  <1>1. IInv => RefreshesOwn
    BY DEF IInv, Alone, RefreshesOwn, Is
  <1> QED BY <1>1, Invariant, PTL

--------------------------------------------------------------------------------
(* Timestamps.  They make the committed transactions serializable, as long  *)
(* as no two statements run at once and no two transactions have the same   *)
(* hash.                                                                    *)

Hashed == Clients \X (1 .. MaxTx)
DistinctHashes == \A t, u \in Hashed : t # u => Hash[t] # Hash[u]

--------------------------------------------------------------------------------
(* The inductive invariant.                                                 *)

Counted ==
  /\ begun \subseteq Hashed
  /\ Cardinality(begun) <= MaxTx
  /\ \A c \in Clients : Is(c, "begin") => Cardinality(begun) < MaxTx

Stamp(x) == strategy.stamps[x]
Conflicting(x, mode) == Writers(x) \cup IF mode = "write" THEN Readers(x) ELSE {}

\* The timestamps of a table are no smaller than the hashes of the transactions that have
\* touched it since the mechanism was set (now).
StampsCover(now) ==
  /\ "stamps" \in DOMAIN strategy
  /\ \A x \in DOMAIN strategy.stamps : Stamp(x) \in [read : Int, write : Int]
  /\ \A x \in Tables :
       /\ \A t \in Readers(x) \cap now : x \in DOMAIN strategy.stamps /\ Hash[t] <= Stamp(x).read
       /\ \A t \in Writers(x) \cap now : x \in DOMAIN strategy.stamps /\ Hash[t] <= Stamp(x).write

\* An access past its validation comes after those it conflicts with; logged, it has left its timestamp.
InOrder(now, c) ==
  LET x == Access(c)[1] IN
  /\ Is(c, "log") \/ Is(c, "perform") => \A t \in Conflicting(x, Mode(c)) \cap now : Hash[t] <= Hash[shared]
  /\ Is(c, "perform") => /\ x \in DOMAIN strategy.stamps
                         /\ Mode(c) = "read" => Hash[shared] <= Stamp(x).read
                         /\ Mode(c) = "write" => Hash[shared] <= Stamp(x).write

Stamps(now) ==
  strategy.mechanism = "timestamp-based" => StampsCover(now) /\ \A c \in Clients : InOrder(now, c)

\* Transactions of the present mechanism follow those of earlier ones, and each other by their hashes.
Acyclic == \A S \in SUBSET begun : S # {} => \E t \in S : \A u \in S : <<u, t>> \notin before
Ordered(now) ==
  /\ active \subseteq now
  /\ before \subseteq begun \X begun
  /\ \A t, u \in begun : <<t, u>> \in before /\ t \in now => u \in now /\ Hash[t] < Hash[u]
  /\ Acyclic

SerialInv ==
  serial => /\ Counted
            /\ \A c \in Clients : Is(c, "switch") => active = {}
            /\ \E now \in SUBSET begun : Ordered(now) /\ Stamps(now)

--------------------------------------------------------------------------------
(* Lemmas.                                                                  *)

LEMMA HashType == ASSUME NEW t \in Hashed PROVE Hash[t] \in Int
  BY SessionsAssumption DEF Hashed

\* The timestamps after an access has been logged.
LEMMA StampedStamps ==
  ASSUME NEW s, "stamps" \in DOMAIN s, NEW object, NEW stamp \in Int, NEW action \in {"read", "write"},
         \A x \in DOMAIN s.stamps : s.stamps[x] \in [read : Int, write : Int],
         NEW r, r = Stamped(s, object, stamp, action)
  PROVE  /\ "stamps" \in DOMAIN r
         /\ DOMAIN r.stamps = DOMAIN s.stamps \cup {object}
         /\ \A x \in DOMAIN r.stamps : r.stamps[x] \in [read : Int, write : Int]
         /\ \A x \in DOMAIN s.stamps : /\ s.stamps[x].read <= r.stamps[x].read
                                       /\ x # object \/ action # "write" => r.stamps[x].write = s.stamps[x].write
         /\ action = "read" => stamp <= r.stamps[object].read
         /\ action = "write" => stamp = r.stamps[object].write
  <1> DEFINE entry == At(s.stamps, object, Unstamped)
             new == IF action = "write" THEN [entry EXCEPT !.write = stamp]
                                        ELSE [entry EXCEPT !.read = Larger(@, stamp)]
  <1>1. entry \in [read : Int, write : Int]
    BY DEF At, Unstamped
  <1>2. /\ new \in [read : Int, write : Int]
        /\ new.read = IF action = "write" THEN entry.read ELSE Larger(entry.read, stamp)
        /\ new.write = IF action = "write" THEN stamp ELSE entry.write
    BY <1>1 DEF Larger
  <1>3. r.stamps = With(s.stamps, object, new) /\ "stamps" \in DOMAIN r
    BY DEF Stamped
  <1>4. object \in DOMAIN s.stamps => entry = s.stamps[object]
    BY DEF At
  <1> HIDE DEF entry, new
  <1>5. /\ DOMAIN r.stamps = DOMAIN s.stamps \cup {object}
        /\ r.stamps[object] = new
        /\ \A x \in DOMAIN s.stamps \ {object} : r.stamps[x] = s.stamps[x]
    BY <1>3 DEF With
  <1>6. \A x \in DOMAIN r.stamps : r.stamps[x] \in [read : Int, write : Int]
    BY <1>2, <1>5
  <1>7. action = "read" => new.read >= stamp /\ new.read >= entry.read
    BY <1>1, <1>2 DEF Larger
  <1>8. \A x \in DOMAIN s.stamps : /\ s.stamps[x].read <= r.stamps[x].read
                                   /\ x # object \/ action # "write" => r.stamps[x].write = s.stamps[x].write
    BY <1>1, <1>2, <1>4, <1>5, <1>7
  <1> QED BY <1>2, <1>3, <1>5, <1>6, <1>7, <1>8

LEMMA SerialInit == Init => SerialInv
  <1> SUFFICES ASSUME Init PROVE SerialInv
    OBVIOUS
  <1>1. begun = {} /\ active = {} /\ before = {} /\ Cardinality(begun) = 0
    BY FS_EmptySet DEF Init
  <1>2. \A c \in Clients : thread[c].at = "idle"
    BY DEF Init, Idle, Running
  <1>3. Counted /\ \A c \in Clients : Is(c, "switch") => active = {}
    BY <1>1, <1>2, SessionsAssumption DEF Counted, Is
  <1>4. Ordered({})
    BY <1>1 DEF Ordered, Acyclic
  <1>5. Stamps({})
    BY <1>2 DEF Init, NewStrategy, Stamps, StampsCover, InOrder, Is
  <1> QED BY <1>3, <1>4, <1>5 DEF SerialInv

\* While statements do not overlap, the other threads are idle.
LEMMA OthersIdle ==
  ASSUME IInv, serial, NEW c \in Clients, Sends(c) \/ thread[c].at # "idle",
         NEW th, thread' = [thread EXCEPT ![c] = th]
  PROVE  thread'[c] = th /\ \A d \in Clients \ {c} : thread'[d].at = "idle"
  <1>1. \A d \in Clients \ {c} : thread[d].at = "idle"
    BY DEF IInv, Alone, Sends, Is
  <1> QED BY <1>1 DEF IInv, Types

\* A step that makes no access, and leaves no thread where it begins, switches or accesses.
LEMMA QuietStep ==
  ASSUME IInv, SerialInv, UNCHANGED <<serial, begun>>,
         \A d \in Clients : thread'[d].at \notin {"begin", "switch", "log", "perform"},
         active' \subseteq active, before' \subseteq before,
         \A x \in Tables : Readers(x)' \subseteq Readers(x) /\ Writers(x)' \subseteq Writers(x),
         strategy' = strategy \/ strategy'.mechanism # "timestamp-based"
  PROVE  SerialInv'
  <1> SUFFICES ASSUME serial PROVE SerialInv'
    BY DEF SerialInv
  <1>1. PICK now \in SUBSET begun : Ordered(now) /\ Stamps(now)
    BY DEF SerialInv
  <1>2. Counted' /\ \A c \in Clients : Is(c, "switch")' => active' = {}
    BY DEF SerialInv, Counted, Is
  <1>3. Ordered(now)'
    <2>1. Acyclic'
      BY <1>1 DEF Ordered, Acyclic
    <2> QED BY <1>1, <2>1 DEF Ordered
  <1>4. Stamps(now)'
    <2> SUFFICES ASSUME strategy'.mechanism = "timestamp-based" PROVE StampsCover(now)' /\ \A d \in Clients : InOrder(now, d)'
      BY DEF Stamps
    <2>1. StampsCover(now)'
      BY <1>1 DEF Stamps, StampsCover, Stamp
    <2>2. \A d \in Clients : InOrder(now, d)'
      BY DEF InOrder, Is
    <2> QED BY <2>1, <2>2
  <1> QED BY <1>2, <1>3, <1>4 DEF SerialInv

--------------------------------------------------------------------------------
(* The client sends a statement.                                            *)

LEMMA TakesToBeginSerial ==
  ASSUME IInv, SerialInv, NEW c \in Clients, NEW query, NEW auto, TakesToBegin(c, query, auto)
  PROVE  SerialInv'
  <1> SUFFICES ASSUME serial PROVE SerialInv'
    BY DEF SerialInv, TakesToBegin, Takes
  <1>1. /\ Sends(c) /\ UNCHANGED <<strategy, active, begun, serial, before, touched, shared>>
        /\ Cardinality(begun) + Cardinality({d \in Clients : Is(d, "begin")}) < MaxTx
    BY DEF TakesToBegin, Takes
  <1>2. thread'[c].at = "begin" /\ \A d \in Clients \ {c} : thread'[d].at = "idle"
    <2>1. thread' = [thread EXCEPT ![c] = Running("begin", auto, query)]
      BY DEF TakesToBegin
    <2>2. thread'[c] = Running("begin", auto, query) /\ \A d \in Clients \ {c} : thread'[d].at = "idle"
      BY <1>1, <2>1, OthersIdle
    <2> QED BY <2>2 DEF Running
  <1>3. Cardinality({d \in Clients : Is(d, "begin")}) = 0
    <2>1. {d \in Clients : Is(d, "begin")} = {}
      BY <1>1 DEF Sends, Is
    <2> QED BY <2>1, FS_EmptySet
  <1>4. Cardinality(begun) \in Nat /\ MaxTx \in Nat
    BY FS_CardinalityType, SessionsAssumption DEF IInv, Named
  <1>5. Counted'
    BY <1>1, <1>3, <1>4 DEF SerialInv, Counted
  <1>6. PICK now \in SUBSET begun : Ordered(now) /\ Stamps(now)
    BY DEF SerialInv
  <1>7. Ordered(now)'
    BY <1>1, <1>6 DEF Ordered, Acyclic
  <1>8. Stamps(now)'
    BY <1>1, <1>2, <1>6 DEF Stamps, StampsCover, Stamp, InOrder, Is, Readers, Writers
  <1> QED BY <1>1, <1>2, <1>5, <1>7, <1>8 DEF SerialInv, Is

LEMMA TakesToSerial ==
  ASSUME IInv, SerialInv, NEW c \in Clients, NEW at \in {"commit", "abort", "switch", "raised"},
         at = "switch" => active = {}, TakesTo(c, at)
  PROVE  SerialInv'
  <1> SUFFICES ASSUME serial PROVE SerialInv'
    BY DEF SerialInv, TakesTo, Takes
  <1>1. Sends(c) /\ UNCHANGED <<strategy, active, begun, serial, before, touched, shared>>
    BY DEF TakesTo, Takes
  <1>2. PICK th \in Thread : th.at = at /\ thread' = [thread EXCEPT ![c] = th]
    BY Going DEF TakesTo, Places, Transacting
  <1>3. thread'[c].at = at /\ \A d \in Clients \ {c} : thread'[d].at = "idle"
    BY <1>1, <1>2, OthersIdle
  <1>4. CASE at # "switch"
    BY <1>1, <1>3, <1>4, QuietStep DEF Readers, Writers
  <1>5. CASE at = "switch"
    <2>1. Counted'
      BY <1>1, <1>3, <1>5 DEF SerialInv, Counted, Is
    <2>2. PICK now \in SUBSET begun : Ordered(now) /\ Stamps(now)
      BY DEF SerialInv
    <2>3. Ordered(now)'
      BY <1>1, <2>2 DEF Ordered, Acyclic
    <2>4. Stamps(now)'
      BY <1>1, <1>3, <1>5, <2>2 DEF Stamps, StampsCover, Stamp, InOrder, Is, Readers, Writers
    <2> QED BY <1>1, <1>5, <2>1, <2>3, <2>4 DEF SerialInv
  <1> QED BY <1>4, <1>5

LEMMA StatementSerial ==
  ASSUME IInv, SerialInv, NEW c \in Clients, Statement(c)
  PROVE  SerialInv'
  <1>0. sessions[c].explicit \in BOOLEAN /\ sessions[c].failed \in BOOLEAN
    BY DEF IInv, Types
  <1>1. ASSUME UNCHANGED <<serial, begun, active, before, touched, strategy, thread>>, Sends(c) PROVE SerialInv'
    <2> SUFFICES ASSUME serial PROVE SerialInv'
      BY <1>1 DEF SerialInv
    <2>1. \A d \in Clients : thread'[d].at = "idle"
      BY <1>1 DEF Sends, Is
    <2> QED BY <1>1, <2>1, QuietStep DEF Readers, Writers
  <1>2. Refuses(c) => SerialInv'
    BY <1>1 DEF Refuses, vars
  <1>3. CASE HandleBegin(c)
    BY <1>2, <1>3, TakesToBeginSerial DEF HandleBegin
  <1>4. CASE HandleCommit(c)
    BY <1>2, <1>4, TakesToSerial DEF HandleCommit
  <1>5. CASE HandleRollback(c)
    BY <1>2, <1>5, TakesToSerial DEF HandleRollback
  <1>6. CASE HandleSetConcurrency(c)
    BY <1>2, <1>6, TakesToSerial DEF HandleSetConcurrency
  <1>7. CASE HandleUnterminated(c)
    <2>1. CASE Takes(c) /\ UNCHANGED thread
      BY <1>1, <2>1 DEF Takes
    <2> QED BY <1>2, <1>7, <2>1 DEF HandleUnterminated
  <1>8. CASE HandleUnparsed(c)
    BY <1>0, <1>2, <1>8, TakesToBeginSerial, TakesToSerial DEF HandleUnparsed
  <1>9. CASE HandleQuery(c)
    <2>1. PICK query \in Queries :
            CASE ~sessions[c].explicit -> TakesToBegin(c, query, TRUE)
              [] sessions[c].failed -> Refuses(c)
              [] OTHER -> Explicit(c, query)
      BY <1>9 DEF HandleQuery
    <2>2. CASE Explicit(c, query)
      <3> SUFFICES ASSUME serial PROVE SerialInv'
        BY <2>2 DEF SerialInv, Explicit, Takes
      <3>1. Sends(c) /\ UNCHANGED <<strategy, active, begun, serial, before, touched>>
        BY <2>2 DEF Explicit, Takes
      <3>2. thread'[c].at = "validate" /\ \A d \in Clients \ {c} : thread'[d].at = "idle"
        <4>1. thread' = [thread EXCEPT ![c] = Running("validate", FALSE, query)]
          BY <2>2 DEF Explicit
        <4>2. thread'[c] = Running("validate", FALSE, query) /\ \A d \in Clients \ {c} : thread'[d].at = "idle"
          BY <3>1, <4>1, OthersIdle
        <4> QED BY <4>2 DEF Running
      <3> QED BY <3>1, <3>2, QuietStep DEF Readers, Writers
    <2> QED BY <1>0, <1>2, <2>1, <2>2, TakesToBeginSerial
  <1> QED BY <1>3, <1>4, <1>5, <1>6, <1>7, <1>8, <1>9 DEF Statement

--------------------------------------------------------------------------------
(* The steps of the threads.                                                *)

\* A step of one thread that makes no access.
LEMMA QuietThread ==
  ASSUME IInv, SerialInv, NEW c \in Clients, thread[c].at # "idle", UNCHANGED <<serial, begun>>,
         NEW th, th.at \notin {"begin", "switch", "log", "perform"}, thread' = [thread EXCEPT ![c] = th],
         active' \subseteq active, before' \subseteq before,
         \A x \in Tables : Readers(x)' \subseteq Readers(x) /\ Writers(x)' \subseteq Writers(x),
         strategy' = strategy \/ strategy'.mechanism # "timestamp-based"
  PROVE  SerialInv'
  <1> SUFFICES ASSUME serial PROVE SerialInv'
    BY DEF SerialInv
  <1>1. thread'[c] = th /\ \A d \in Clients \ {c} : thread'[d].at = "idle"
    BY OthersIdle
  <1>2. \A d \in Clients : thread'[d].at \notin {"begin", "switch", "log", "perform"}
    BY <1>1
  <1> QED BY <1>2, QuietStep

LEMMA IdleAt == Idle.at = "idle"
  BY DEF Idle, Running

LEMMA SwitchSerial ==
  ASSUME IInv, SerialInv, NEW c \in Clients, Switch(c)
  PROVE  SerialInv'
  <1> SUFFICES ASSUME serial PROVE SerialInv'
    BY DEF SerialInv, Switch
  <1>1. /\ thread[c].at = "switch" /\ UNCHANGED <<active, begun, before, touched, serial>>
        /\ \E m \in Mechanisms : strategy' = NewStrategy(m)
        /\ thread' = [thread EXCEPT ![c] = Idle]
    BY DEF Switch, Is, Answered, history
  <1>2. \A d \in Clients : thread'[d].at = "idle"
    BY <1>1, OthersIdle, IdleAt
  <1>3. active = {}
    BY <1>1 DEF SerialInv, Is
  <1>4. Counted'
    BY <1>1, <1>2 DEF SerialInv, Counted, Is
  <1>5. PICK now \in SUBSET begun : Ordered(now)
    BY DEF SerialInv
  <1>6. Ordered({})'
    BY <1>1, <1>3, <1>5 DEF Ordered, Acyclic
  <1>7. Stamps({})'
    BY <1>1, <1>2 DEF Stamps, StampsCover, Stamp, InOrder, Is, NewStrategy, Readers, Writers
  <1> QED BY <1>1, <1>2, <1>4, <1>6, <1>7 DEF SerialInv, Is

LEMMA BeginSerial ==
  ASSUME IInv, IInv', SerialInv, NEW c \in Clients, Begin(c)
  PROVE  SerialInv'
  <1> SUFFICES ASSUME serial PROVE SerialInv'
    BY DEF SerialInv, Begin
  <1>0. PICK tx : tx = <<c, 1 + Cardinality(OfClient(c))>>
    OBVIOUS
  <1>1. /\ thread[c].at = "begin"
        /\ begun' = begun \cup {tx} /\ active' = active \cup {tx} /\ shared' = tx
        /\ UNCHANGED <<strategy, serial, before, touched>>
    BY <1>0 DEF Begin, Is, OfClient, history
  <1>2. tx \notin begun
    BY <1>0, <1>1, NextNumber DEF IInv
  <1>3. tx \in Hashed /\ Cardinality(begun') <= MaxTx
    <2>1. /\ Cardinality(begun) \in Nat /\ MaxTx \in Nat /\ Cardinality(begun) < MaxTx
          /\ Cardinality(begun') = Cardinality(begun) + 1
      BY <1>1, <1>2, FS_CardinalityType, FS_AddElement, SessionsAssumption DEF SerialInv, Counted, IInv, Named, Is
    <2>2. Cardinality(OfClient(c)) \in Nat /\ Cardinality(OfClient(c)) <= Cardinality(begun)
      BY FS_Subset, FS_CardinalityType DEF OfClient, IInv, Named
    <2> QED BY <1>0, <2>1, <2>2 DEF Hashed
  <1>4. \E at \in {"validate", "raised", "idle"} : thread'[c].at = at /\ \A d \in Clients \ {c} : thread'[d].at = "idle"
    <2>1. CASE thread[c].auto
      <3>1. PICK th \in Thread : th.at \in {"validate", "raised"} /\ thread' = [thread EXCEPT ![c] = th]
        <4>1. Goto(c, "raised") \/ Goto(c, "validate")
          BY <2>1 DEF Begin
        <4> QED BY <4>1, Going DEF Places, Transacting, Accessing
      <3> QED BY <1>1, <3>1, OthersIdle
    <2>2. CASE ~thread[c].auto
      <3>1. thread' = [thread EXCEPT ![c] = Idle]
        BY <2>2 DEF Begin, Answered
      <3> QED BY <1>1, <3>1, OthersIdle, IdleAt
    <2> QED BY <2>1, <2>2
  <1>5. Counted'
    BY <1>1, <1>3, <1>4 DEF SerialInv, Counted, Is
  <1>6. PICK now \in SUBSET begun : Ordered(now) /\ Stamps(now)
    BY DEF SerialInv
  <1>7. Ordered(now \cup {tx})'
    <2>1. \A t : <<t, tx>> \notin before /\ <<tx, t>> \notin before
      BY <1>2, <1>6 DEF Ordered
    <2>2. Acyclic'
      <3> SUFFICES ASSUME NEW S \in SUBSET begun', S # {}
                   PROVE  \E t \in S : \A u \in S : <<u, t>> \notin before
        BY <1>1 DEF Acyclic
      <3>1. CASE tx \in S
        BY <2>1, <3>1
      <3>2. CASE tx \notin S
        BY <1>1, <1>6, <3>2 DEF Ordered, Acyclic
      <3> QED BY <3>1, <3>2
    <2>3. \A t, u \in begun' : <<t, u>> \in before' /\ t \in now \cup {tx} => u \in now \cup {tx} /\ Hash[t] < Hash[u]
      BY <1>1, <1>6, <2>1 DEF Ordered
    <2> QED BY <1>1, <1>6, <2>2, <2>3 DEF Ordered
  <1>8. Stamps(now \cup {tx})'
    <2>1. \A x \in Tables : tx \notin Readers(x) /\ tx \notin Writers(x)
      BY <1>2 DEF IInv, Types, Readers, Writers, Kinds, Actions
    <2> QED BY <1>1, <1>4, <1>6, <2>1 DEF Stamps, StampsCover, Stamp, InOrder, Is, Readers, Writers
  <1> QED BY <1>1, <1>4, <1>5, <1>6, <1>7, <1>8 DEF SerialInv, Is

\* The end of a transaction leaves the timestamps as they are.
LEMMA EndKeepsStamps ==
  ASSUME IInv, NEW tx, Ended(tx)
  PROVE  strategy' = strategy \/ strategy'.mechanism # "timestamp-based"
  <1>1. CASE strategy.mechanism = "timestamp-based"
    BY <1>1 DEF Ended, EndTransaction
  <1>2. CASE strategy.mechanism = "validation-based"
    BY <1>2 DEF Ended, EndTransaction, Forgotten, IInv, Types
  <1>3. CASE strategy.mechanism = "multi-version"
    BY <1>3 DEF Ended, EndTransaction, Collected, IInv, Types
  <1> QED BY <1>1, <1>2, <1>3, SessionsAssumption DEF IInv, Types

LEMMA CommitSerial ==
  ASSUME IInv, SerialInv, NEW c \in Clients, Commit(c)
  PROVE  SerialInv'
  <1>1. /\ thread[c].at = "commit" /\ active' \subseteq active
        /\ UNCHANGED <<serial, begun, before, touched>>
    BY DEF Commit, Ended, Is
  <1>2. PICK th \in Thread : th.at \in {"refresh", "raised", "idle"} /\ thread' = [thread EXCEPT ![c] = th]
    BY Going, Committing DEF Commit, Places, Transacting
  <1>3. strategy' = strategy \/ strategy'.mechanism # "timestamp-based"
    BY EndKeepsStamps DEF Commit
  <1> QED BY <1>1, <1>2, <1>3, QuietThread DEF Readers, Writers

LEMMA RefreshSerial ==
  ASSUME IInv, SerialInv, NEW c \in Clients, Refresh(c)
  PROVE  SerialInv'
  <1>1. thread[c].at = "refresh" /\ UNCHANGED <<serial, begun, active, before, touched, strategy>>
    BY DEF Refresh, history, Is
  <1>2. PICK th \in Thread : th.at \in {"raised", "idle"} /\ thread' = [thread EXCEPT ![c] = th]
    BY Committing, IdleType DEF Refresh, Answered
  <1> QED BY <1>1, <1>2, QuietThread DEF Readers, Writers

LEMMA AbortSerial ==
  ASSUME IInv, SerialInv, NEW c \in Clients, Abort(c)
  PROVE  SerialInv'
  <1>1. /\ thread[c].at = "abort" /\ thread' = [thread EXCEPT ![c] = Idle]
        /\ UNCHANGED <<serial, begun>>
    BY DEF Abort, Answered, Is
  <1>2. CASE Tx(c) \notin active
    <2>1. UNCHANGED <<active, before, touched, strategy>>
      BY <1>2 DEF Abort
    <2> QED BY <1>1, <2>1, IdleAt, QuietThread DEF Readers, Writers
  <1>3. CASE Tx(c) \in active
    <2>1. Ended(Tx(c)) /\ Forget(Tx(c))
      BY <1>3 DEF Abort
    <2>2. active' \subseteq active /\ before' \subseteq before
      BY <2>1 DEF Ended, Forget
    <2>3. \A x \in Tables : Readers(x)' \subseteq Readers(x) /\ Writers(x)' \subseteq Writers(x)
      BY <2>1 DEF Forget, Readers, Writers, Kinds, Actions
    <2> QED BY <1>1, <2>1, <2>2, <2>3, EndKeepsStamps, IdleAt, QuietThread
  <1> QED BY <1>2, <1>3

LEMMA ExceptSerial ==
  ASSUME IInv, SerialInv, NEW c \in Clients, Except(c)
  PROVE  SerialInv'
  <1>1. thread[c].at = "raised" /\ UNCHANGED <<serial, begun, active, before, touched, strategy>>
    BY DEF Except, Is
  <1>2. PICK th \in Thread : th.at \in {"abort", "idle"} /\ thread' = [thread EXCEPT ![c] = th]
    BY Going, IdleType DEF Except, Answered, Places, Transacting
  <1> QED BY <1>1, <1>2, QuietThread DEF Readers, Writers

\* An access that is refused, or raises, has made no access through the manager.
LEMMA NoAccessSerial ==
  ASSUME IInv, SerialInv, NEW c \in Clients, PerformRefused(c) \/ PerformRaises(c) \/ CreateRefused(c)
  PROVE  SerialInv'
  <1>1. thread[c].at \in Accessing /\ UNCHANGED <<serial, begun, active, before, strategy, shared>>
    BY DEF PerformRefused, PerformRaises, CreateRefused, Is, history, Accessing
  <1>2. PICK th \in Thread : th.at \in {"validate", "commit", "idle", "raised"} /\ thread' = [thread EXCEPT ![c] = th]
    BY <1>1, Finishing, Going DEF PerformRefused, PerformRaises, CreateRefused, Places, Transacting
  <1>3. \A x \in Tables : Readers(x)' = Readers(x) /\ Writers(x)' = Writers(x)
    <2>1. CASE CreateRefused(c)
      BY <2>1 DEF CreateRefused, history, Readers, Writers
    <2>2. CASE PerformRefused(c) \/ PerformRaises(c)
      <3>1. shared \in begun
        BY <1>1 DEF IInv, Named, Owned, Types, Transacting, Tx
      <3> QED BY <1>1, <2>2, <3>1, CascadeTouches DEF PerformRefused, PerformRaises
    <2> QED BY <2>1, <2>2
  <1> QED BY <1>1, <1>2, <1>3, QuietThread DEF Accessing

--------------------------------------------------------------------------------
(* The accesses.                                                            *)

\* What the thread of an access has to do, while statements do not overlap.
LEMMA AccessKnown ==
  ASSUME IInv, SerialInv, serial, NEW c \in Clients, thread[c].at \in Accessing
  PROVE  /\ Access(c)[1] \in Tables /\ Mode(c) \in {"read", "write"}
         /\ shared \in begun /\ Hash[shared] \in Int
         /\ \A t \in begun : Hash[t] \in Int
         /\ thread[c].at \in {"log", "perform"} => shared \in active
  <1>1. shared = Tx(c) /\ Tx(c) # NoTx
    BY DEF IInv, Owned, Alone, Transacting
  <1>2. shared \in begun /\ (thread[c].at \in {"log", "perform"} => shared \in active)
    BY <1>1 DEF IInv, Alone, Types
  <1>3. \A t \in begun : Hash[t] \in Int
    BY HashType DEF SerialInv, Counted
  <1> QED BY <1>2, <1>3, AccessType

\* A step within an access: no thread begins or switches, the transactions are what they were.
LEMMA AccessStep ==
  ASSUME IInv, SerialInv, serial, NEW c \in Clients,
         thread'[c].at \notin {"begin", "switch"}, \A d \in Clients \ {c} : thread'[d].at = "idle",
         UNCHANGED <<serial, begun, active>>,
         NEW now \in SUBSET begun, Ordered(now)', Stamps(now)'
  PROVE  SerialInv'
  <1>1. \A d \in Clients : thread'[d].at \notin {"begin", "switch"}
    OBVIOUS
  <1>2. Counted' /\ \A d \in Clients : Is(d, "switch")' => active' = {}
    BY <1>1 DEF SerialInv, Counted, Is
  <1> QED BY <1>2 DEF SerialInv

LEMMA ValidateSerial ==
  ASSUME IInv, SerialInv, NEW c \in Clients, Validate(c)
  PROVE  SerialInv'
  <1> DEFINE x == Access(c)[1]
             action == Mode(c)
  <1> SUFFICES ASSUME serial PROVE SerialInv'
    BY DEF SerialInv, Validate
  <1>1. /\ thread[c].at = "validate"
        /\ UNCHANGED <<serial, begun, active, before, touched, strategy, shared>>
    BY DEF Validate, Is, history
  <1>4. CASE Retry(c) \/ Raise(c)
    <2>1. PICK th \in Thread : /\ th.at \in {"validate", "commit", "idle", "raised"}
                               /\ thread' = [thread EXCEPT ![c] = th]
      BY <1>1, <1>4, Retrying, Raising DEF Accessing
    <2> QED BY <1>1, <2>1, QuietThread DEF Readers, Writers
  <1>5. CASE Goto(c, "log") /\ shared \in active /\ ValidateObject(strategy, x, shared, Hash[shared], action) = "allowed"
    <2>2. PICK th \in Thread : th.at = "log" /\ th.todo = thread[c].todo /\ thread' = [thread EXCEPT ![c] = th]
      BY <1>5, Going DEF Places, Transacting, Accessing
    <2>3. /\ thread'[c].at = "log" /\ thread'[c].todo = thread[c].todo
          /\ \A d \in Clients \ {c} : thread'[d].at = "idle"
      BY <1>1, <2>2, OthersIdle
    <2>4. PICK now \in SUBSET begun : Ordered(now) /\ Stamps(now)
      BY DEF SerialInv
    <2>5. Ordered(now)'
      BY <1>1, <2>4 DEF Ordered, Acyclic
    <2>6. Stamps(now)'
      <3> SUFFICES ASSUME strategy.mechanism = "timestamp-based"
                   PROVE  StampsCover(now)' /\ \A d \in Clients : InOrder(now, d)'
        BY <1>1 DEF Stamps
      <3>1. StampsCover(now)'
        BY <1>1, <2>4 DEF Stamps, StampsCover, Stamp, Readers, Writers
      <3>2. \A t \in Conflicting(x, action) \cap now : Hash[t] <= Hash[shared]
        <4>1. x \in Tables /\ action \in {"read", "write"} /\ Hash[shared] \in Int /\ \A t \in begun : Hash[t] \in Int
          BY <1>1, AccessKnown DEF Accessing
        <4>2. StampAllows(strategy, x, Hash[shared], action)
          BY <1>5 DEF ValidateObject
        <4>3. StampsCover(now)
          BY <2>4 DEF Stamps
        <4> HIDE DEF x, action
        <4>4. x \in DOMAIN strategy.stamps =>
                /\ Stamp(x).read \in Int /\ Stamp(x).write \in Int
                /\ Hash[shared] >= Stamp(x).write
                /\ action = "write" => Hash[shared] >= Stamp(x).read
          BY <4>2, <4>3 DEF StampAllows, StampsCover, Stamp
        <4>5. ASSUME NEW t \in Writers(x) \cap now PROVE Hash[t] <= Hash[shared]
          <5>1. x \in DOMAIN strategy.stamps /\ Hash[t] <= Stamp(x).write
            BY <4>1, <4>3 DEF StampsCover
          <5> QED BY <4>1, <4>4, <5>1
        <4>6. ASSUME action = "write", NEW t \in Readers(x) \cap now PROVE Hash[t] <= Hash[shared]
          <5>1. x \in DOMAIN strategy.stamps /\ Hash[t] <= Stamp(x).read
            BY <4>1, <4>3 DEF StampsCover
          <5> QED BY <4>1, <4>4, <4>6, <5>1
        <4> QED BY <4>5, <4>6 DEF Conflicting
      <3>3. InOrder(now, c)'
        BY <1>1, <2>3, <3>2 DEF InOrder, Is, Access, Action, Mode, Conflicting, Readers, Writers
      <3>4. \A d \in Clients \ {c} : InOrder(now, d)'
        BY <2>3 DEF InOrder, Is
      <3> QED BY <3>1, <3>3, <3>4
    <2> QED BY <1>1, <2>3, <2>4, <2>5, <2>6, AccessStep
  <1> QED BY <1>4, <1>5, Validating

LEMMA LogSerial ==
  ASSUME IInv, SerialInv, NEW c \in Clients, Log(c)
  PROVE  SerialInv'
  <1> DEFINE x == Access(c)[1]
             action == Mode(c)
  <1> SUFFICES ASSUME serial PROVE SerialInv'
    BY DEF SerialInv, Log
  <1>1. /\ thread[c].at = "log"
        /\ UNCHANGED <<serial, begun, active, before, touched, shared>>
    BY DEF Log, Is, history
  <1>2. /\ x \in Tables /\ action \in {"read", "write"} /\ Hash[shared] \in Int /\ \A t \in begun : Hash[t] \in Int
        /\ shared \in active
    BY <1>1, AccessKnown DEF Accessing
  <1>3. Goto(c, "perform") /\ strategy' = LogObject(strategy, x, shared, Hash[shared], action)
    BY <1>2 DEF Log
  <1>4. PICK th \in Thread : th.at = "perform" /\ th.todo = thread[c].todo /\ thread' = [thread EXCEPT ![c] = th]
    BY <1>3, Going DEF Places, Transacting, Accessing
  <1>5. /\ thread'[c].at = "perform" /\ thread'[c].todo = thread[c].todo
        /\ \A d \in Clients \ {c} : thread'[d].at = "idle"
    BY <1>1, <1>4, OthersIdle
  <1>6. PICK now \in SUBSET begun : Ordered(now) /\ Stamps(now)
    BY DEF SerialInv
  <1>7. Ordered(now)'
    BY <1>1, <1>6 DEF Ordered, Acyclic
  <1>8. Stamps(now)'
    <2>1. CASE strategy.mechanism # "timestamp-based"
      <3>1. CASE strategy.mechanism = "validation-based"
        BY <1>3, <3>1 DEF LogObject, Noted, Stamps, IInv, Types
      <3>2. CASE strategy.mechanism = "multi-version"
        BY <1>3, <3>2 DEF LogObject, Versioned, Stamps, IInv, Types
      <3> QED BY <2>1, <3>1, <3>2, SessionsAssumption DEF IInv, Types
    <2>2. CASE strategy.mechanism = "timestamp-based"
      <3>0. StampsCover(now) /\ InOrder(now, c)
        BY <1>6, <2>2 DEF Stamps
      <3> PICK object : object = x
        OBVIOUS
      <3> PICK act : act = action
        OBVIOUS
      <3> HIDE DEF x, action
      <3>1. strategy' = Stamped(strategy, object, Hash[shared], act)
        BY <1>3, <2>2 DEF LogObject
      <3>2. /\ "stamps" \in DOMAIN strategy'
            /\ DOMAIN strategy'.stamps = DOMAIN strategy.stamps \cup {object}
            /\ \A y \in DOMAIN strategy'.stamps : strategy'.stamps[y] \in [read : Int, write : Int]
            /\ \A y \in DOMAIN strategy.stamps :
                 /\ strategy.stamps[y].read <= strategy'.stamps[y].read
                 /\ y # object \/ act # "write" => strategy'.stamps[y].write = strategy.stamps[y].write
            /\ act = "read" => Hash[shared] <= strategy'.stamps[object].read
            /\ act = "write" => Hash[shared] = strategy'.stamps[object].write
        BY <1>2, <3>0, <3>1, StampedStamps DEF StampsCover, Stamp
      <3>3. \A t \in Conflicting(object, act) \cap now : Hash[t] <= Hash[shared]
        BY <1>1, <3>0 DEF InOrder, Is, x, action
      <3>4. \A y \in Tables : \A t \in Readers(y) \cap now : y \in DOMAIN strategy'.stamps /\ Hash[t] <= strategy'.stamps[y].read
        <4> SUFFICES ASSUME NEW y \in Tables, NEW t \in Readers(y) \cap now
                     PROVE  y \in DOMAIN strategy'.stamps /\ Hash[t] <= strategy'.stamps[y].read
          OBVIOUS
        <4>1. y \in DOMAIN strategy.stamps /\ Hash[t] <= strategy.stamps[y].read
          BY <3>0 DEF StampsCover, Stamp
        <4>2. Hash[t] \in Int /\ strategy.stamps[y].read \in Int /\ strategy'.stamps[y].read \in Int
          BY <1>2, <3>0, <3>2, <4>1 DEF StampsCover, Stamp
        <4> QED BY <3>2, <4>1, <4>2
      <3>5. \A y \in Tables : \A t \in Writers(y) \cap now : y \in DOMAIN strategy'.stamps /\ Hash[t] <= strategy'.stamps[y].write
        <4> SUFFICES ASSUME NEW y \in Tables, NEW t \in Writers(y) \cap now
                     PROVE  y \in DOMAIN strategy'.stamps /\ Hash[t] <= strategy'.stamps[y].write
          OBVIOUS
        <4>1. y \in DOMAIN strategy.stamps /\ Hash[t] <= strategy.stamps[y].write
          BY <3>0 DEF StampsCover, Stamp
        <4>2. CASE y # object \/ act # "write"
          BY <3>2, <4>1, <4>2
        <4>3. CASE y = object /\ act = "write"
          BY <3>2, <3>3, <4>1, <4>3 DEF Conflicting
        <4> QED BY <4>2, <4>3
      <3>6. StampsCover(now)'
        BY <1>1, <3>2, <3>4, <3>5 DEF StampsCover, Stamp, Readers, Writers
      <3>7. Access(c)' = Access(c) /\ Mode(c)' = Mode(c)
        BY <1>5 DEF Access, Action, Mode
      <3>8. InOrder(now, c)'
        BY <1>1, <1>2, <3>2, <3>3, <3>7 DEF InOrder, Is, Conflicting, Readers, Writers, Stamp, x, action
      <3>9. \A d \in Clients \ {c} : InOrder(now, d)'
        BY <1>5 DEF InOrder, Is
      <3> QED BY <3>6, <3>8, <3>9 DEF Stamps
    <2> QED BY <2>1, <2>2
  <1> QED BY <1>1, <1>5, <1>6, <1>7, <1>8, AccessStep

\* A transaction that comes after those it conflicts with closes no cycle.
LEMMA StillAcyclic ==
  ASSUME NEW now \in SUBSET begun, Ordered(now), NEW u \in now, NEW C \in SUBSET begun, u \notin C,
         \A t \in begun : Hash[t] \in Int,
         \A t \in C \cap now : Hash[t] < Hash[u]
  PROVE  \A S \in SUBSET begun : S # {} => \E t \in S : \A v \in S : <<v, t>> \notin before \cup (C \X {u})
  <1> SUFFICES ASSUME NEW S \in SUBSET begun, S # {}
               PROVE  \E t \in S : \A v \in S : <<v, t>> \notin before \cup (C \X {u})
    OBVIOUS
  <1>1. CASE u \notin S
    <2>1. PICK t \in S : \A v \in S : <<v, t>> \notin before
      BY DEF Ordered, Acyclic
    <2> QED BY <1>1, <2>1
  <1>2. CASE u \in S
    <2> DEFINE P == {t \in S : t \notin now \/ Hash[t] < Hash[u]}
    <2>1. CASE P # {}
      <3>1. PICK t \in P : \A v \in P : <<v, t>> \notin before
        BY <2>1 DEF Ordered, Acyclic
      <3>2. \A v \in S : <<v, t>> \notin before
        <4> SUFFICES ASSUME NEW v \in S, <<v, t>> \in before PROVE FALSE
          OBVIOUS
        <4>1. v \notin P
          BY <3>1
        <4>2. v \in now /\ ~(Hash[v] < Hash[u])
          BY <4>1
        <4>3. t \in now /\ Hash[v] < Hash[t]
          BY <4>2 DEF Ordered
        <4> QED BY <4>2, <4>3
      <3>3. t # u
        OBVIOUS
      <3> QED BY <3>2, <3>3
    <2>2. CASE P = {}
      <3>1. \A v \in S : v \in now /\ ~(Hash[v] < Hash[u])
        BY <2>2
      <3>2. \A v \in S : <<v, u>> \notin before
        BY <3>1 DEF Ordered
      <3>3. \A v \in S : v \notin C
        BY <3>1
      <3> QED BY <1>2, <3>2, <3>3
    <2> QED BY <2>1, <2>2
  <1> QED BY <1>1, <1>2

LEMMA PerformSerial ==
  ASSUME DistinctHashes, IInv, SerialInv, NEW c \in Clients, Perform(c)
  PROVE  SerialInv'
  <1> SUFFICES ASSUME serial PROVE SerialInv'
    BY DEF SerialInv, Perform
  <1>1. thread[c].at = "perform" /\ UNCHANGED <<serial, begun, active, shared, strategy>>
    BY DEF Perform, Is
  <1>2. PICK x \in Tables, action \in {"read", "write"} : x = Access(c)[1] /\ action = Mode(c)
    BY <1>1, AccessKnown DEF Accessing
  <1>3. shared \in active /\ shared \in begun /\ Hash[shared] \in Int /\ \A t \in begun : Hash[t] \in Int
    BY <1>1, AccessKnown DEF Accessing
  <1>4. before' = IF strategy.mechanism # "timestamp-based" THEN before
                  ELSE before \cup ((Conflicting(x, action) \ {shared}) \X {shared})
    BY <1>2 DEF Perform, Follows, Conflicting
  <1>5. thread'[c].at \in {"validate", "commit", "idle"} /\ \A d \in Clients \ {c} : thread'[d].at = "idle"
    <2>1. PICK th \in Thread : th.at \in {"validate", "commit", "idle"} /\ thread' = [thread EXCEPT ![c] = th]
      BY <1>1, Finishing DEF Perform, Accessing
    <2> QED BY <1>1, <2>1, OthersIdle
  <1>6. Conflicting(x, action) \subseteq begun
    BY DEF IInv, Types, Conflicting, Readers, Writers, Kinds, Actions
  <1>7. \A y \in Tables :
          /\ Readers(y)' = IF y = x /\ action = "read" THEN Readers(y) \cup {shared} ELSE Readers(y)
          /\ Writers(y)' = IF y = x /\ action = "write" THEN Writers(y) \cup {shared} ELSE Writers(y)
    <2>1. PICK cascade \in CascadesOf(c) : Touches({Access(c)} \cup cascade)
      BY DEF Perform
    <2>2. \A y \in Tables :
            /\ Readers(y)' = IF y = x /\ Action(c) = "read" THEN Readers(y) \cup {shared} ELSE Readers(y)
            /\ Writers(y)' = IF y = x /\ Action(c) # "read" THEN Writers(y) \cup {shared} ELSE Writers(y)
      BY <1>1, <1>2, <1>3, <2>1, PerformTouches DEF Accessing
    <2>3. (action = "read" <=> Action(c) = "read") /\ (action = "write" <=> Action(c) # "read")
      BY <1>2 DEF Mode
    <2> QED BY <2>2, <2>3
  <1>8. PICK now \in SUBSET begun : Ordered(now) /\ Stamps(now)
    BY DEF SerialInv
  <1>9. shared \in now
    BY <1>3, <1>8 DEF Ordered
  <1>10. CASE strategy.mechanism # "timestamp-based"
    <2>1. Ordered(now)'
      BY <1>1, <1>4, <1>8, <1>10 DEF Ordered, Acyclic
    <2>2. Stamps(now)'
      BY <1>1, <1>10 DEF Stamps
    <2> QED BY <1>1, <1>5, <2>1, <2>2, AccessStep
  <1>11. CASE strategy.mechanism = "timestamp-based"
    <2> DEFINE C == Conflicting(x, action) \ {shared}
    <2>1. before' = before \cup (C \X {shared})
      BY <1>4, <1>11
    <2>2. StampsCover(now) /\ InOrder(now, c)
      BY <1>8, <1>11 DEF Stamps
    <2>3. \A t \in C \cap now : Hash[t] < Hash[shared]
      <3> SUFFICES ASSUME NEW t \in C \cap now PROVE Hash[t] < Hash[shared]
        OBVIOUS
      <3>1. Hash[t] <= Hash[shared]
        BY <1>1, <1>2, <2>2 DEF InOrder, Is
      <3>2. Hash[t] # Hash[shared]
        BY <1>3 DEF DistinctHashes, SerialInv, Counted
      <3> QED BY <1>3, <3>1, <3>2
    <2>4. Ordered(now)'
      <3>1. C \in SUBSET begun /\ shared \notin C
        BY <1>6
      <3> HIDE DEF C
      <3>2. Acyclic'
        <4>1. \A S \in SUBSET begun : S # {} => \E t \in S : \A v \in S : <<v, t>> \notin before'
          BY <1>3, <1>8, <1>9, <2>1, <2>3, <3>1, StillAcyclic
        <4> QED BY <1>1, <4>1 DEF Acyclic
      <3>3. before' \subseteq begun' \X begun'
        BY <1>1, <1>3, <1>8, <2>1, <3>1 DEF Ordered
      <3>4. \A t, u \in begun' : <<t, u>> \in before' /\ t \in now => u \in now /\ Hash[t] < Hash[u]
        BY <1>1, <1>8, <1>9, <2>1, <2>3 DEF Ordered
      <3> QED BY <1>1, <1>8, <3>2, <3>3, <3>4 DEF Ordered
    <2>5. StampsCover(now)'
      <3>1. /\ x \in DOMAIN strategy.stamps
            /\ action = "read" => Hash[shared] <= Stamp(x).read
            /\ action = "write" => Hash[shared] <= Stamp(x).write
        BY <1>1, <1>2, <2>2 DEF InOrder, Is
      <3> QED BY <1>1, <1>7, <2>2, <3>1, ZenonT(40) DEF StampsCover, Stamp
    <2>6. \A d \in Clients : InOrder(now, d)'
      BY <1>5 DEF InOrder, Is
    <2>7. Stamps(now)'
      BY <2>5, <2>6 DEF Stamps
    <2> QED BY <1>1, <1>5, <2>4, <2>7, AccessStep
  <1> QED BY <1>10, <1>11

--------------------------------------------------------------------------------
(* Theorems.                                                                *)

LEMMA SerialNext == DistinctHashes /\ IInv /\ IInv' /\ SerialInv /\ [Next]_vars => SerialInv'
  <1> SUFFICES ASSUME DistinctHashes, IInv, IInv', SerialInv, [Next]_vars PROVE SerialInv'
    OBVIOUS
  <1>1. CASE UNCHANGED vars
    <2> SUFFICES ASSUME serial PROVE SerialInv'
      BY <1>1 DEF SerialInv, vars
    <2>1. PICK now \in SUBSET begun : Ordered(now) /\ Stamps(now)
      BY DEF SerialInv
    <2>2. Counted' /\ \A c \in Clients : Is(c, "switch")' => active' = {}
      BY <1>1 DEF SerialInv, Counted, Is, vars
    <2>3. Ordered(now)'
      BY <1>1, <2>1 DEF Ordered, Acyclic, vars
    <2>4. Stamps(now)'
      BY <1>1, <2>1, ZenonT(40) DEF vars, Stamps, StampsCover, Stamp, InOrder, Is, Access, Action, Mode, Conflicting, Readers, Writers
    <2>5. now \in SUBSET begun'
      BY <1>1 DEF vars
    <2> QED BY <2>2, <2>3, <2>4, <2>5 DEF SerialInv
  <1>2. CASE Next
    <2>1. PICK c \in Clients : Statement(c) \/ Step(c)
      BY <1>2 DEF Next
    <2> QED BY <2>1, StatementSerial, SwitchSerial, BeginSerial, CommitSerial, RefreshSerial, AbortSerial, ValidateSerial,
               LogSerial, PerformSerial, NoAccessSerial, ExceptSerial DEF Step
  <1> QED BY <1>1, <1>2

\* While no two statements run at once, the committed transactions that the timestamp-based
\* strategy has let through are serializable, for any number of clients, tables and transactions
\* and any number of changes of the mechanism, if no two transactions have the same hash.
THEOREM CommittedAreSerializable ==
  ASSUME DistinctHashes
  PROVE  Spec => []Serializable
  <1>1. SerialInv /\ IInv => Serializable
    <2> SUFFICES ASSUME SerialInv, IInv, serial, NEW S \in SUBSET committed, S # {}
                 PROVE  \E t \in S : \A u \in S : <<u, t>> \notin before
      BY DEF Serializable
    <2>1. S \in SUBSET begun
      BY DEF IInv, Types
    <2> QED BY <2>1 DEF SerialInv, Ordered, Acyclic
  <1>2. IInv /\ IInv' /\ SerialInv /\ [Next]_vars => SerialInv'
    BY SerialNext
  <1> QED BY <1>1, <1>2, SerialInit, Invariant, PTL DEF Spec

================================================================================
