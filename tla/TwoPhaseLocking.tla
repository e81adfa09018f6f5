---------------------------- MODULE TwoPhaseLocking ----------------------------
(***************************************************************************)
(* What the lock based strategy promises, without lock table, schemes or    *)
(* threads: accesses are acquired one at a time by ACTIVE transactions, an  *)
(* access is acquired only when no other ACTIVE transaction has one that    *)
(* conflicts with it, and nothing is given up before the transaction ends.  *)
(***************************************************************************)
CONSTANTS Tx, Object

VARIABLES
  state,     \* Tx -> life cycle
  held       \* Tx -> the accesses acquired while active

Access == [object : Object, action : {"READ", "WRITE"}]

Conflicting(a, b) == a.object = b.object /\ "WRITE" \in {a.action, b.action}

Init ==
  /\ state = [t \in Tx |-> "new"]
  /\ held = [t \in Tx |-> {}]

Start(t) ==
  /\ state[t] = "new"
  /\ state' = [state EXCEPT ![t] = "active"]
  /\ UNCHANGED held

Acquire(t, a) ==
  /\ state[t] = "active"
  /\ \A u \in Tx \ {t} : state[u] = "active" => \A b \in held[u] : ~Conflicting(a, b)
  /\ held' = [held EXCEPT ![t] = @ \cup {a}]
  /\ UNCHANGED state

\* Some ACTIVE transactions end together with one outcome.
Finish(S, outcome) ==
  /\ S # {} /\ \A t \in S : state[t] = "active"
  /\ state' = [t \in Tx |-> IF t \in S THEN outcome ELSE state[t]]
  /\ held' = [t \in Tx |-> IF t \in S THEN {} ELSE held[t]]

Next ==
  \/ \E t \in Tx : Start(t) \/ Finish({t}, "committed")
  \/ \E t \in Tx, a \in Access : Acquire(t, a)
  \/ \E S \in SUBSET Tx : Finish(S, "aborted")

Spec == Init /\ [][Next]_<<state, held>>

================================================================================
