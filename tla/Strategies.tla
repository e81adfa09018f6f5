------------------------------- MODULE Strategies -------------------------------
(***************************************************************************)
(* Three of the concurrency control strategies, those that never wait:      *)
(* timestamp-based, validation-based, multi-version.  The lock-based one is *)
(* in LockManager.                                                          *)
(*                                                                          *)
(* A transaction is named by its client and its number.  The names are      *)
(* strings "ip:port-time-counter" in the code, which the multi-version      *)
(* strategy compares; the timestamp-based one compares their hashes.        *)
(***************************************************************************)
EXTENDS Integers, Sequences, FiniteSets, SequencesExt, TLC

NoTx == <<0, 0>>
\* The strings in their order: first by client.
IdBefore(t, u) == t[1] < u[1] \/ (t[1] = u[1] /\ t[2] < u[2])
NotAfter(t, u) == t = u \/ IdBefore(t, u)

\* The expiry 999999 of a version that is live, a number among strings.
Live == <<>>

\* A strategy without a past: the timestamps of objects, the sets of objects that
\* transactions read and write, the versions of objects.
NewStrategy(mechanism) ==
  [mechanism |-> mechanism, stamps |-> [o \in {} |-> 0], sets |-> [t \in {} |-> 0], versions |-> [o \in {} |-> 0]]

At(f, x, default) == IF x \in DOMAIN f THEN f[x] ELSE default
With(f, x, value) == [y \in DOMAIN f \cup {x} |-> IF y = x THEN value ELSE f[y]]
Larger(m, n) == IF m > n THEN m ELSE n

--------------------------------------------------------------------------------
(* TimestampBasedStrategy                                                   *)

Unstamped == [read |-> 0, write |-> 0]

\* Variant: a write does not look at the reads.
StampAllowsWrites(s, object, stamp, action) ==
  object \in DOMAIN s.stamps => stamp >= s.stamps[object].write

StampAllows(s, object, stamp, action) ==
  LET entry == s.stamps[object] IN
  object \in DOMAIN s.stamps =>
    /\ stamp >= entry.write
    /\ action = "write" => stamp >= entry.read

\* The write timestamp is overwritten, the read timestamp never falls.
Stamped(s, object, stamp, action) ==
  LET entry == At(s.stamps, object, Unstamped)
      new == IF action = "write" THEN [entry EXCEPT !.write = stamp]
                                 ELSE [entry EXCEPT !.read = Larger(@, stamp)]
  IN [s EXCEPT !.stamps = With(@, object, new)]

--------------------------------------------------------------------------------
(* ValidationBasedStrategy: the sets are kept, and compared with nothing.   *)

Noted(s, object, tx, action) ==
  LET entry == At(s.sets, tx, [read |-> {}, write |-> {}])
  IN [s EXCEPT !.sets = With(@, tx, [entry EXCEPT ![action] = @ \cup {object}])]

Forgotten(s, tx) == [s EXCEPT !.sets = [t \in DOMAIN @ \ {tx} |-> @[t]]]

--------------------------------------------------------------------------------
(* MultiVersionStrategy                                                     *)

\* A read takes the last version that is not newer than the transaction and has not
\* expired before it; the comparison of the transaction with a live version's expiry
\* raises TypeError.  Else any older version will do.
ReadVersion(versions, tx) ==
  LET valid == {i \in DOMAIN versions : /\ NotAfter(versions[i].created, tx)
                                        /\ versions[i].expired = Live \/ IdBefore(tx, versions[i].expired)}
      last == CHOOSE i \in valid : \A j \in valid : j <= i
      older == \E i \in DOMAIN versions : IdBefore(versions[i].created, tx)
  IN CASE valid # {} -> IF versions[last].expired = Live THEN "raise" ELSE "allowed"
       [] older \/ versions = <<>> -> "allowed"
       [] OTHER -> "denied"

\* A write is denied if a younger transaction has made a version.
VersionAnswer(s, object, tx, action) ==
  LET versions == At(s.versions, object, <<>>) IN
  CASE action = "read" -> ReadVersion(versions, tx)
    [] \E i \in DOMAIN versions : IdBefore(tx, versions[i].created) -> "denied"
    [] OTHER -> "allowed"

\* A write expires the live version and adds its own; a read leaves no trace.
Versioned(s, object, tx, action) ==
  LET versions == At(s.versions, object, <<>>)
      live == SelectLastInSeq(versions, LAMBDA v : v.expired = Live)
      expired == IF live = 0 THEN versions ELSE [versions EXCEPT ![live].expired = tx]
  IN IF action = "read" THEN s
     ELSE [s EXCEPT !.versions = With(@, object, Append(expired, [created |-> tx, expired |-> Live]))]

\* garbage_collect_versions keeps what the oldest active transaction may read; an
\* object keeps its live version.
Collected(s, active) ==
  LET oldest == CHOOSE t \in active : \A u \in active : NotAfter(t, u)
      Kept(versions) == SelectSeq(versions, LAMBDA v : v.expired = Live \/ NotAfter(oldest, v.expired))
  IN [s EXCEPT !.versions = [o \in DOMAIN @ |-> Kept(@[o])]]

--------------------------------------------------------------------------------
(* The three calls of ConcurrencyStrategy                                   *)

\* validate_object: "allowed", "denied" or "raise".
ValidateObject(s, object, tx, stamp, action) ==
  CASE s.mechanism = "timestamp-based" -> IF StampAllows(s, object, stamp, action) THEN "allowed" ELSE "denied"
    [] s.mechanism = "validation-based" -> "allowed"
    [] s.mechanism = "multi-version" -> VersionAnswer(s, object, tx, action)

\* log_object
LogObject(s, object, tx, stamp, action) ==
  CASE s.mechanism = "timestamp-based" -> Stamped(s, object, stamp, action)
    [] s.mechanism = "validation-based" -> Noted(s, object, tx, action)
    [] s.mechanism = "multi-version" -> Versioned(s, object, tx, action)

\* end_transaction, while the transaction is still among the active ones.
EndTransaction(s, tx, active) ==
  CASE s.mechanism = "timestamp-based" -> s
    [] s.mechanism = "validation-based" -> Forgotten(s, tx)
    [] s.mechanism = "multi-version" -> Collected(s, active)

================================================================================
