------------------------- MODULE ClientProtocolProofs --------------------------
(***************************************************************************)
(* What holds of ClientProtocol for any number of queries and heartbeats,   *)
(* however recv cuts the stream and the two threads take turns.             *)
(***************************************************************************)
EXTENDS ClientProtocol, SequenceTheorems, TLAPS

--------------------------------------------------------------------------------
(* The inductive invariant.                                                 *)

\* Fragments of answers that can exist: those to queries that were executed.
Known == {f \in Fragment : f.type = "QUERY" => f.id <= Len(executed)}

\* Wherever a fragment is, in the stream, in the buffer or in a local of a thread,
\* its query was executed.
Streams ==
  /\ down \in Seq(Known) /\ buffer \in Seq(Known)
  /\ chunk \in [Threads -> Seq(Known)] /\ line \in [Threads -> Seq(Known)]

\* The query thread has all answers when it waits for input, and all but one when
\* it waits for an answer.
Waiting ==
  /\ pc["query"] = "input" => sent = answered
  /\ pc["query"] \notin {"input", "ended"} => sent = answered + 1

\* The one query that is sent and not executed is on its way or with the server.
Pending ==
  /\ \A i \in DOMAIN up : up[i].type = "QUERY" =>
       up[i].id = sent /\ Len(executed) + 1 = sent /\ server # "executing"
  /\ \A i, j \in DOMAIN up : up[i].type = "QUERY" /\ up[j].type = "QUERY" => i = j
  /\ server = "executing" =>
       serving.type = "QUERY" /\ serving.id = sent /\ Len(executed) + 1 = sent

IInv == TypeOK /\ OneInDoubt /\ Streams /\ Waiting /\ Pending

--------------------------------------------------------------------------------
(* Lemmas about fragments.                                                  *)

\* The two fragments of a message are fragments with its id and type.
LEMMA FragmentsOfMessage ==
  ASSUME NEW m \in Message
  PROVE  /\ Fragments(m) \in Seq(Fragment)
         /\ Len(Fragments(m)) = 2
         /\ \A i \in 1 .. 2 : Fragments(m)[i].id = m.id /\ Fragments(m)[i].type = m.type
  BY DEF Fragments, Message, Fragment

\* A stream cut or put together holds the fragments it held.
LEMMA CutStream ==
  ASSUME NEW S, NEW s \in Seq(S), NEW n \in 1 .. Len(s)
  PROVE  SubSeq(s, 1, n) \in Seq(S) /\ SubSeq(s, n + 1, Len(s)) \in Seq(S)
  <1>1. \A i \in 1 .. n : s[i] \in S
    BY ElementOfSeq
  <1>2. \A i \in n + 1 .. Len(s) : s[i] \in S
    BY ElementOfSeq
  <1> QED BY <1>1, <1>2, SubSeqProperties, LenProperties

\* Executing more queries makes more fragments known.
LEMMA KnownGrows ==
  ASSUME TypeOK, Streams, executed' \in Seq(Nat), Len(executed) <= Len(executed')
  PROVE  /\ Known \subseteq Known'
         /\ down \in Seq(Known') /\ buffer \in Seq(Known')
         /\ chunk \in [Threads -> Seq(Known')] /\ line \in [Threads -> Seq(Known')]
  <1>1. Known \subseteq Known'
    BY LenProperties DEF TypeOK, Known, Fragment
  <1>2. \A s \in Seq(Known) : s \in Seq(Known')
    BY <1>1, SeqMonotonic
  <1> QED BY <1>1, <1>2 DEF Streams

\* The streams hold fragments, so the conjuncts of TypeOK about them are implied.
LEMMA StreamsType ==
  ASSUME Streams
  PROVE  /\ down \in Seq(Fragment) /\ buffer \in Seq(Fragment)
         /\ chunk \in [Threads -> Seq(Fragment)] /\ line \in [Threads -> Seq(Fragment)]
  <1>1. Known \subseteq Fragment
    BY DEF Known
  <1>2. \A s \in Seq(Known) : s \in Seq(Fragment)
    BY <1>1, SeqMonotonic
  <1> QED BY <1>2 DEF Streams

--------------------------------------------------------------------------------
(* The invariant holds at first.                                            *)

LEMMA InitInv == Init => IInv
  <1> SUFFICES ASSUME Init PROVE IInv
    OBVIOUS
  <1>1. /\ up = <<>> /\ down = <<>> /\ buffer = <<>> /\ executed = <<>>
        /\ chunk = [t \in Threads |-> <<>>] /\ line = [t \in Threads |-> <<>>]
    BY DEF Init
  <1>2. \A S : <<>> \in Seq(S)
    BY EmptySeq
  <1>3. Streams
    BY <1>1, <1>2 DEF Streams
  <1>4. TypeOK
    <2>1. Ping \in Message
      BY DEF Ping, Message, NoId
    <2>2. pings \in 0 .. MaxPings /\ sent \in 0 .. MaxQueries /\ missed \in Nat /\ answered \in Nat
      BY BoundsAssumption DEF Init
    <2>3. up \in Seq(Message) /\ executed \in Seq(Nat)
      BY <1>1, <1>2
    <2>4. \A t \in Threads : alive <=> pc[t] # "ended"
      BY DEF Init
    <2>5. alive \in BOOLEAN /\ exiting \in BOOLEAN
      BY DEF Init
    <2>6. /\ pc \in [Threads -> {"input", "sleep", "recv", "add", "store", "check", "split",
                                 "rest", "ended"}]
          /\ server \in {"reading", "executing", "closed"} /\ serving \in Message
      BY <2>1 DEF Init
    <2>7. QED BY <1>3, <2>2, <2>3, <2>4, <2>5, <2>6, StreamsType DEF TypeOK
  <1>5. OneInDoubt /\ Waiting /\ Pending
    BY <1>1 DEF Init, OneInDoubt, Waiting, Pending, Threads
  <1> QED BY <1>3, <1>4, <1>5 DEF IInv

--------------------------------------------------------------------------------
(* Steps that leave the order of the queries alone.                         *)

order == <<up, server, serving, sent, executed, answered>>

\* Pending is about the variables of order, and the other two parts about the place
\* of the query thread as well.
LEMMA OrderKept ==
  ASSUME IInv, UNCHANGED order,
         pc'["query"] \notin {"input", "ended"} => pc["query"] \notin {"input", "ended"},
         pc'["query"] = "input" => pc["query"] = "input"
  PROVE  OneInDoubt' /\ Waiting' /\ Pending'
  BY DEF IInv, order, OneInDoubt, Waiting, Pending

\* What the end of the client does.
LEMMA QuitStep ==
  ASSUME TypeOK, Quit
  PROVE  /\ pc' \in [Threads -> {"input", "sleep", "recv", "add", "store", "check", "split",
                                 "rest", "ended"}]
         /\ alive' \in BOOLEAN
         /\ \A t \in Threads : alive' <=> pc'[t] # "ended"
         /\ pc'["query"] = "ended"
  BY DEF Quit, Threads

\* What None does to the thread that gets it.
LEMMA NoneStep ==
  ASSUME TypeOK, NEW t \in Threads, alive, pc[t] \in {"recv", "split"}, ReturnNone(t)
  PROVE  /\ pc' \in [Threads -> {"input", "sleep", "recv", "add", "store", "check", "split",
                                 "rest", "ended"}]
         /\ alive' \in BOOLEAN
         /\ \A u \in Threads : alive' <=> pc'[u] # "ended"
         /\ missed' \in Nat
         /\ pc'["query"] \in {pc["query"], "ended"}
  <1>1. CASE t = "query" /\ Quit /\ UNCHANGED missed
    BY <1>1, QuitStep DEF TypeOK
  <1>2. CASE t = "heartbeat" /\ pc' = [pc EXCEPT ![t] = "sleep"] /\ missed' = missed + 1
             /\ UNCHANGED alive
    BY <1>2 DEF TypeOK, Threads
  <1> QED BY <1>1, <1>2 DEF ReturnNone

\* What a message does to the thread that gets it.
LEMMA MessageStep ==
  ASSUME TypeOK, NEW t \in Threads, alive, pc[t] = "rest", NEW m, ReturnMessage(t, m)
  PROVE  /\ pc' \in [Threads -> {"input", "sleep", "recv", "add", "store", "check", "split",
                                 "rest", "ended"}]
         /\ alive' \in BOOLEAN
         /\ \A u \in Threads : alive' <=> pc'[u] # "ended"
         /\ missed' \in Nat
  <1>1. CASE t = "query" /\ Accepts(m) /\ missed' = 0 /\ Quit
    BY <1>1, QuitStep
  <1>2. CASE t = "query" /\ missed' = 0 /\ UNCHANGED alive
             /\ pc' \in {[pc EXCEPT ![t] = "input"], [pc EXCEPT ![t] = "recv"]}
    BY <1>2 DEF TypeOK, Threads
  <1>3. CASE t = "heartbeat" /\ pc' = [pc EXCEPT ![t] = "sleep"] /\ UNCHANGED alive
             /\ missed' \in {0, missed + 1}
    BY <1>3 DEF TypeOK, Threads
  <1> QED BY <1>1, <1>2, <1>3 DEF ReturnMessage

\* A step that executes nothing and only moves fragments keeps Streams if each of
\* the four places gets known fragments.
LEMMA StreamsStep ==
  ASSUME UNCHANGED executed,
         down' \in Seq(Known), buffer' \in Seq(Known),
         chunk' \in [Threads -> Seq(Known)], line' \in [Threads -> Seq(Known)]
  PROVE  Streams'
  BY DEF Streams, Known

\* The parts of the client that a thread changes are well typed after the step.
ClientTypeNext ==
  /\ pc' \in [Threads -> {"input", "sleep", "recv", "add", "store", "check", "split", "rest",
                          "ended"}]
  /\ alive' \in BOOLEAN
  /\ missed' \in Nat
  /\ \A u \in Threads : alive' <=> pc'[u] # "ended"

LEMMA ClientStep ==
  ASSUME IInv, UNCHANGED <<up, exiting, pings, server, serving, sent, executed>>,
         answered' \in Nat, Streams', ClientTypeNext
  PROVE  TypeOK'
  <1>1. /\ down' \in Seq(Fragment) /\ buffer' \in Seq(Fragment)
        /\ chunk' \in [Threads -> Seq(Fragment)] /\ line' \in [Threads -> Seq(Fragment)]
    <2>1. Known' \subseteq Fragment
      BY DEF Known
    <2>2. \A s \in Seq(Known') : s \in Seq(Fragment)
      BY <2>1, SeqMonotonic
    <2> QED BY <2>2 DEF Streams
  <1>2. /\ up' \in Seq(Message) /\ exiting' \in BOOLEAN /\ pings' \in 0 .. MaxPings
        /\ server' \in {"reading", "executing", "closed"} /\ serving' \in Message
        /\ sent' \in 0 .. MaxQueries /\ executed' \in Seq(Nat)
    BY DEF IInv, TypeOK
  <1> QED BY <1>1, <1>2 DEF TypeOK, ClientTypeNext

--------------------------------------------------------------------------------
(* receive_message.                                                         *)

LEMMA RecvInv ==
  ASSUME IInv, NEW t \in Threads, Recv(t)
  PROVE  IInv'
  <1>1. PICK n \in 1 .. Len(down) :
           /\ chunk' = [chunk EXCEPT ![t] = SubSeq(down, 1, n)]
           /\ down' = SubSeq(down, n + 1, Len(down))
    BY DEF Recv
  <1>2. Streams'
    <2>1. SubSeq(down, 1, n) \in Seq(Known) /\ SubSeq(down, n + 1, Len(down)) \in Seq(Known)
      BY CutStream DEF IInv, Streams
    <2> QED BY <1>1, <2>1, StreamsStep DEF IInv, Streams, Recv
  <1>3. ClientTypeNext
    BY DEF IInv, TypeOK, Recv, ClientTypeNext
  <1>4. TypeOK'
    BY <1>2, <1>3, ClientStep DEF IInv, TypeOK, Recv
  <1>5. OneInDoubt' /\ Waiting' /\ Pending'
    BY OrderKept DEF IInv, TypeOK, Recv, order, Threads
  <1> QED BY <1>2, <1>4, <1>5 DEF IInv

\* The three ways None is returned.
LEMMA NoneInv ==
  ASSUME IInv, NEW t \in Threads, RecvEnd(t) \/ TimeOut(t) \/ SplitFails(t)
  PROVE  IInv'
  <1>1. alive /\ pc[t] \in {"recv", "split"} /\ ReturnNone(t)
    BY DEF RecvEnd, TimeOut, SplitFails
  <1>2. UNCHANGED <<up, down, buffer, chunk, line, exiting, pings, server, serving, sent, executed,
                    answered>>
    BY DEF RecvEnd, TimeOut, SplitFails
  <1>3. ClientTypeNext /\ pc'["query"] \in {pc["query"], "ended"}
    BY <1>1, NoneStep DEF IInv, ClientTypeNext
  <1>4. Streams'
    BY <1>2, StreamsStep DEF IInv, Streams
  <1>5. TypeOK'
    BY <1>2, <1>3, <1>4, ClientStep DEF IInv, TypeOK
  <1>6. OneInDoubt' /\ Waiting' /\ Pending'
    BY <1>2, <1>3, OrderKept DEF order
  <1> QED BY <1>4, <1>5, <1>6 DEF IInv

\* Adding the chunk, storing the sum and looking for a line.
LEMMA BufferInv ==
  ASSUME IInv, NEW t \in Threads, Add(t) \/ Store(t) \/ Check(t)
  PROVE  IInv'
  <1>1. Streams'
    <2>1. CASE Add(t)
      <3>1. buffer \o chunk[t] \in Seq(Known)
        BY ConcatProperties DEF IInv, Streams
      <3> QED BY <2>1, <3>1, StreamsStep DEF IInv, Streams, Add
    <2>2. CASE Store(t)
      BY <2>2, StreamsStep, EmptySeq DEF IInv, Streams, Store
    <2>3. CASE Check(t)
      BY <2>3, StreamsStep DEF IInv, Streams, Check
    <2> QED BY <2>1, <2>2, <2>3
  <1>2. /\ UNCHANGED <<up, alive, exiting, missed, pings, server, serving, sent, executed, answered>>
        /\ pc[t] \in {"add", "store", "check"}
        /\ \E p \in {"store", "check", "split", "recv"} : pc' = [pc EXCEPT ![t] = p]
    BY DEF Add, Store, Check
  <1>3. ClientTypeNext
    BY <1>2 DEF IInv, TypeOK, ClientTypeNext
  <1>4. TypeOK'
    BY <1>1, <1>2, <1>3, ClientStep DEF IInv, TypeOK
  <1>5. OneInDoubt' /\ Waiting' /\ Pending'
    BY <1>2, OrderKept DEF IInv, TypeOK, order, Threads
  <1> QED BY <1>1, <1>4, <1>5 DEF IInv

LEMMA SplitInv ==
  ASSUME IInv, NEW t \in Threads, Split(t)
  PROVE  IInv'
  <1>1. PICK n \in DOMAIN buffer :
           /\ line' = [line EXCEPT ![t] = SubSeq(buffer, 1, n)]
           /\ chunk' = [chunk EXCEPT ![t] = SubSeq(buffer, n + 1, Len(buffer))]
    BY DEF Split
  <1>2. Streams'
    <2>1. n \in 1 .. Len(buffer)
      BY LenProperties DEF IInv, Streams
    <2>2. SubSeq(buffer, 1, n) \in Seq(Known) /\ SubSeq(buffer, n + 1, Len(buffer)) \in Seq(Known)
      BY <2>1, CutStream DEF IInv, Streams
    <2> QED BY <1>1, <2>2, StreamsStep DEF IInv, Streams, Split
  <1>3. ClientTypeNext
    BY DEF IInv, TypeOK, Split, ClientTypeNext
  <1>4. TypeOK'
    BY <1>2, <1>3, ClientStep DEF IInv, TypeOK, Split
  <1>5. OneInDoubt' /\ Waiting' /\ Pending'
    BY OrderKept DEF IInv, TypeOK, Split, order, Threads
  <1> QED BY <1>2, <1>4, <1>5 DEF IInv

\* The message of the line: the answer that is accepted has the id of the query
\* waited for, and an answer with that id exists only when it was executed.
LEMMA ParseInv ==
  ASSUME IInv, NEW t \in Threads, Parse(t)
  PROVE  IInv'
  <1>1. Streams'
    BY StreamsStep, EmptySeq DEF IInv, Streams, Parse
  <1>2. CASE pc' = [pc EXCEPT ![t] = "recv"] /\ UNCHANGED <<alive, missed, answered>>
    <2>1. ClientTypeNext
      BY <1>2 DEF IInv, TypeOK, Parse, ClientTypeNext
    <2>2. TypeOK'
      BY <1>1, <1>2, <2>1, ClientStep DEF IInv, TypeOK, Parse
    <2>3. OneInDoubt' /\ Waiting' /\ Pending'
      BY <1>2, OrderKept DEF IInv, TypeOK, Parse, order, Threads
    <2> QED BY <1>1, <2>2, <2>3 DEF IInv
  <1>3. CASE (Whole(line[t]) \/ Mixed(line[t])) /\ ReturnMessage(t, line[t][1])
    <2> DEFINE m == line[t][1]
    <2>1. m \in Known
      <3>1. Len(line[t]) = 2 /\ line[t] \in Seq(Known)
        BY <1>3 DEF Whole, Mixed, IInv, Streams
      <3> QED BY <3>1, ElementOfSeq
    <2>2. ClientTypeNext
      BY <1>3, MessageStep DEF IInv, Parse, ClientTypeNext
    <2>3. /\ UNCHANGED <<up, down, exiting, pings, server, serving, sent, executed>>
          /\ alive /\ pc[t] = "rest"
      BY DEF Parse
    <2>4. CASE t = "query" /\ Accepts(m) /\ answered' = answered + 1
               /\ pc'["query"] \in {"input", "ended"}
      <3>1. sent = answered + 1
        BY <2>3, <2>4 DEF IInv, Waiting
      <3>2. sent <= Len(executed)
        BY <2>1, <2>4 DEF Accepts, Known
      <3>3. TypeOK'
        BY <1>1, <2>2, <2>3, <2>4, ClientStep DEF IInv, TypeOK
      <3>4. OneInDoubt'
        BY <2>3, <2>4, <3>1, <3>2 DEF IInv, TypeOK, OneInDoubt
      <3>5. Waiting' /\ Pending'
        BY <2>3, <2>4, <3>1 DEF IInv, Waiting, Pending
      <3> QED BY <1>1, <3>3, <3>4, <3>5 DEF IInv
    <2>5. CASE UNCHANGED answered /\ (pc' = [pc EXCEPT ![t] = "recv"]
                                       \/ (t = "heartbeat" /\ pc' = [pc EXCEPT ![t] = "sleep"]))
      <3>1. TypeOK'
        BY <1>1, <2>2, <2>3, <2>5, ClientStep DEF IInv, TypeOK
      <3>2. OneInDoubt' /\ Waiting' /\ Pending'
        BY <2>3, <2>5, OrderKept DEF IInv, TypeOK, order, Threads
      <3> QED BY <1>1, <3>1, <3>2 DEF IInv
    <2>6. Accepts(m) /\ t = "query" => pc'["query"] \in {"input", "ended"} /\ answered' = answered + 1
      BY <1>3 DEF ReturnMessage, Quit, IInv, TypeOK, Threads
    <2> QED BY <1>3, <2>4, <2>5, <2>6 DEF ReturnMessage
  <1> QED BY <1>2, <1>3 DEF Parse

--------------------------------------------------------------------------------
(* The other steps of the client.                                           *)

\* The query thread may send only when every query was answered, so none is on its
\* way or with the server.
LEMMA SendQueryInv ==
  ASSUME IInv, SendQuery
  PROVE  IInv'
  <1> DEFINE m == [id |-> sent', type |-> "QUERY", exit |-> exiting']
  <1>1. /\ sent' = sent + 1 /\ sent < MaxQueries /\ up' = Append(up, m) /\ exiting' \in BOOLEAN
        /\ missed' = 0 /\ pc' = [pc EXCEPT !["query"] = "recv"]
        /\ alive /\ pc["query"] = "input"
        /\ UNCHANGED <<down, buffer, chunk, line, alive, pings, server, serving, executed, answered>>
    BY DEF SendQuery
  <1>2. sent = answered /\ Len(executed) = sent
    <2>1. sent \in Nat /\ answered \in Nat /\ Len(executed) \in Nat
      BY LenProperties, BoundsAssumption DEF IInv, TypeOK
    <2> QED BY <1>1, <2>1 DEF IInv, Waiting, OneInDoubt
  <1>3. m \in Message
    BY <1>1, BoundsAssumption DEF Message, IInv, TypeOK
  <1>4. /\ up' \in Seq(Message) /\ Len(up') = Len(up) + 1 /\ up'[Len(up) + 1] = m
        /\ \A i \in 1 .. Len(up) : up'[i] = up[i]
    BY <1>1, <1>3, AppendProperties DEF IInv, TypeOK
  <1>d. /\ Len(up) \in Nat /\ DOMAIN up = 1 .. Len(up) /\ Len(up') \in Nat
        /\ DOMAIN up' = 1 .. Len(up')
    <2>1. up \in Seq(Message)
      BY DEF IInv, TypeOK
    <2> QED BY <2>1, <1>4, LenProperties
  <1>5. Streams'
    BY <1>1, StreamsStep DEF IInv, Streams
  <1>6. TypeOK'
    <2>1. /\ pc' \in [Threads -> {"input", "sleep", "recv", "add", "store", "check", "split",
                                  "rest", "ended"}]
          /\ \A t \in Threads : alive' <=> pc'[t] # "ended"
      BY <1>1 DEF IInv, TypeOK
    <2>2. sent' \in 0 .. MaxQueries /\ missed' \in Nat
      BY <1>1, BoundsAssumption DEF IInv, TypeOK
    <2>3. /\ down' \in Seq(Fragment) /\ buffer' \in Seq(Fragment)
          /\ chunk' \in [Threads -> Seq(Fragment)] /\ line' \in [Threads -> Seq(Fragment)]
          /\ alive' \in BOOLEAN /\ exiting' \in BOOLEAN /\ pings' \in 0 .. MaxPings
          /\ server' \in {"reading", "executing", "closed"} /\ serving' \in Message
          /\ executed' \in Seq(Nat) /\ answered' \in Nat
      BY <1>1 DEF IInv, TypeOK
    <2> QED BY <1>4, <2>1, <2>2, <2>3 DEF TypeOK
  <1>7. OneInDoubt' /\ Waiting'
    BY <1>1, <1>2, LenProperties DEF IInv, TypeOK, OneInDoubt, Waiting, Threads
  <1>8. Pending'
    <2>1. server # "executing"
      BY <1>2 DEF IInv, Pending, TypeOK
    <2>2. \A i \in 1 .. Len(up) : up[i].type # "QUERY"
      BY <1>2, LenProperties DEF IInv, Pending, TypeOK
    <2>3. \A i \in DOMAIN up' : up'[i].type = "QUERY" => i = Len(up) + 1
      BY <1>d, <1>4, <2>2
    <2>4. Len(executed') + 1 = sent' /\ m.id = sent'
      BY <1>1, <1>2
    <2> QED BY <1>1, <1>4, <2>1, <2>3, <2>4 DEF Pending
  <1> QED BY <1>5, <1>6, <1>7, <1>8 DEF IInv

\* A heartbeat is no query.
LEMMA SendPingInv ==
  ASSUME IInv, SendPing
  PROVE  IInv'
  <1>1. /\ pings' = pings + 1 /\ pings < MaxPings /\ up' = Append(up, Ping)
        /\ pc' = [pc EXCEPT !["heartbeat"] = "recv"] /\ alive
        /\ UNCHANGED <<down, buffer, chunk, line, alive, exiting, missed, server, serving, sent,
                       executed, answered>>
    BY DEF SendPing
  <1>2. Ping \in Message /\ Ping.type = "HEARTBEAT"
    BY DEF Ping, Message, NoId
  <1>3. /\ up' \in Seq(Message) /\ Len(up') = Len(up) + 1 /\ up'[Len(up) + 1] = Ping
        /\ \A i \in 1 .. Len(up) : up'[i] = up[i]
    BY <1>1, <1>2, AppendProperties DEF IInv, TypeOK
  <1>d. /\ Len(up) \in Nat /\ DOMAIN up = 1 .. Len(up) /\ Len(up') \in Nat
        /\ DOMAIN up' = 1 .. Len(up')
    <2>1. up \in Seq(Message)
      BY DEF IInv, TypeOK
    <2> QED BY <2>1, <1>3, LenProperties
  <1>4. Streams'
    BY <1>1, StreamsStep DEF IInv, Streams
  <1>5. TypeOK'
    <2>1. pings' \in 0 .. MaxPings
      BY <1>1, BoundsAssumption DEF IInv, TypeOK
    <2>2. /\ pc' \in [Threads -> {"input", "sleep", "recv", "add", "store", "check", "split",
                                  "rest", "ended"}]
          /\ \A t \in Threads : alive' <=> pc'[t] # "ended"
      BY <1>1 DEF IInv, TypeOK
    <2>3. /\ down' \in Seq(Fragment) /\ buffer' \in Seq(Fragment)
          /\ chunk' \in [Threads -> Seq(Fragment)] /\ line' \in [Threads -> Seq(Fragment)]
          /\ alive' \in BOOLEAN /\ exiting' \in BOOLEAN /\ missed' \in Nat
          /\ server' \in {"reading", "executing", "closed"} /\ serving' \in Message
          /\ sent' \in 0 .. MaxQueries /\ executed' \in Seq(Nat) /\ answered' \in Nat
      BY <1>1 DEF IInv, TypeOK
    <2> QED BY <1>3, <2>1, <2>2, <2>3 DEF TypeOK
  <1>6. OneInDoubt' /\ Waiting'
    BY <1>1 DEF IInv, TypeOK, OneInDoubt, Waiting, Threads
  <1>7. Pending'
    <2>1. \A i \in DOMAIN up' : up'[i].type = "QUERY" => i \in DOMAIN up /\ up'[i] = up[i]
      <3> SUFFICES ASSUME NEW i \in DOMAIN up', up'[i].type = "QUERY"
                   PROVE  i \in DOMAIN up /\ up'[i] = up[i]
        OBVIOUS
      <3>1. i # Len(up) + 1
        BY <1>2, <1>3
      <3> QED BY <1>d, <1>3, <3>1
    <2> QED BY <1>1, <2>1 DEF IInv, Pending
  <1> QED BY <1>4, <1>5, <1>6, <1>7 DEF IInv

LEMMA QuitInv ==
  ASSUME IInv, Leave \/ Expire
  PROVE  IInv'
  <1>1. /\ Quit
        /\ UNCHANGED <<up, down, buffer, chunk, line, exiting, missed, pings, server, serving, sent,
                       executed, answered>>
    BY DEF Leave, Expire
  <1>2. ClientTypeNext /\ pc'["query"] = "ended"
    BY <1>1, QuitStep DEF IInv, TypeOK, ClientTypeNext
  <1>3. Streams'
    BY <1>1, StreamsStep DEF IInv, Streams
  <1>4. TypeOK'
    BY <1>1, <1>2, <1>3, ClientStep DEF IInv, TypeOK
  <1>5. OneInDoubt' /\ Waiting' /\ Pending'
    BY <1>1, <1>2, OrderKept DEF order
  <1> QED BY <1>3, <1>4, <1>5 DEF IInv

--------------------------------------------------------------------------------
(* The server thread.                                                       *)

\* What the server leaves alone.
client == <<buffer, pc, chunk, line, alive, exiting, missed, pings, sent, answered>>

\* The conjuncts of TypeOK that a step of the server is about.
LEMMA ServerType ==
  ASSUME IInv, UNCHANGED client, up' \in Seq(Message), down' \in Seq(Fragment),
         server' \in {"reading", "executing", "closed"}, serving' \in Message,
         executed' \in Seq(Nat)
  PROVE  TypeOK'
  BY DEF IInv, TypeOK, client

LEMMA ReadPingInv ==
  ASSUME IInv, ReadPing
  PROVE  IInv'
  <1>1. /\ up # <<>> /\ Head(up).type = "HEARTBEAT" /\ up' = Tail(up)
        /\ down' = down \o Fragments(Head(up))
        /\ UNCHANGED client /\ UNCHANGED <<server, serving, executed>>
    BY DEF ReadPing, client
  <1>2. /\ Head(up) \in Message /\ up' \in Seq(Message) /\ Len(up') = Len(up) - 1
        /\ \A i \in 1 .. Len(up') : up'[i] = up[i + 1]
    BY <1>1, HeadTailProperties DEF IInv, TypeOK
  <1>d. /\ Len(up) \in Nat /\ DOMAIN up = 1 .. Len(up) /\ Len(up') \in Nat
        /\ DOMAIN up' = 1 .. Len(up')
    <2>1. up \in Seq(Message)
      BY DEF IInv, TypeOK
    <2> QED BY <2>1, <1>2, LenProperties
  <1>3. Fragments(Head(up)) \in Seq(Known)
    <2>1. \A i \in 1 .. 2 : Fragments(Head(up))[i] \in Known
      BY <1>1, <1>2, FragmentsOfMessage, ElementOfSeq DEF Known
    <2> QED BY <2>1, <1>2, FragmentsOfMessage DEF Fragments
  <1>4. Streams'
    <2>1. down' \in Seq(Known)
      BY <1>1, <1>3, ConcatProperties DEF IInv, Streams
    <2> QED BY <1>1, <2>1, StreamsStep DEF IInv, Streams, client
  <1>5. TypeOK'
    <2>1. down' \in Seq(Fragment)
      BY <1>1, <1>2, FragmentsOfMessage, ConcatProperties DEF IInv, TypeOK
    <2> QED BY <1>1, <1>2, <2>1, ServerType DEF IInv, TypeOK
  <1>6. OneInDoubt' /\ Waiting'
    BY <1>1 DEF IInv, OneInDoubt, Waiting, client
  <1>7. Pending'
    <2>1. \A i \in DOMAIN up' : i + 1 \in DOMAIN up /\ up'[i] = up[i + 1]
      BY <1>d, <1>2
    <2>2. \A i \in DOMAIN up' : up'[i].type = "QUERY" =>
             up'[i].id = sent /\ Len(executed) + 1 = sent /\ server # "executing"
      BY <2>1 DEF IInv, Pending
    <2>3. \A i, j \in DOMAIN up' : up'[i].type = "QUERY" /\ up'[j].type = "QUERY" => i = j
      <3> SUFFICES ASSUME NEW i \in DOMAIN up', NEW j \in DOMAIN up',
                          up'[i].type = "QUERY", up'[j].type = "QUERY"
                   PROVE  i = j
        OBVIOUS
      <3>1. i + 1 = j + 1
        BY <2>1 DEF IInv, Pending
      <3>2. i \in Nat /\ j \in Nat
        BY <1>2, LenProperties
      <3> QED BY <3>1, <3>2
    <2> QED BY <1>1, <2>2, <2>3 DEF IInv, Pending, client
  <1> QED BY <1>4, <1>5, <1>6, <1>7 DEF IInv

\* The query that is read is the only one, and it is the one last sent.
LEMMA ReadQueryInv ==
  ASSUME IInv, ReadQuery
  PROVE  IInv'
  <1>1. /\ up # <<>> /\ Head(up).type = "QUERY" /\ up' = Tail(up)
        /\ server' = "executing" /\ serving' = Head(up)
        /\ UNCHANGED client /\ UNCHANGED <<down, executed>>
    BY DEF ReadQuery, client
  <1>2. /\ Head(up) \in Message /\ up' \in Seq(Message) /\ Len(up') = Len(up) - 1
        /\ \A i \in 1 .. Len(up') : up'[i] = up[i + 1]
    BY <1>1, HeadTailProperties DEF IInv, TypeOK
  <1>d. /\ Len(up) \in Nat /\ DOMAIN up = 1 .. Len(up) /\ Len(up') \in Nat
        /\ DOMAIN up' = 1 .. Len(up')
    <2>1. up \in Seq(Message)
      BY DEF IInv, TypeOK
    <2> QED BY <2>1, <1>2, LenProperties
  <1>3. 1 \in DOMAIN up /\ up[1] = Head(up)
    BY <1>1, EmptySeq, LenProperties DEF IInv, TypeOK
  <1>4. Head(up).id = sent /\ Len(executed) + 1 = sent
    BY <1>1, <1>3 DEF IInv, Pending
  <1>5. \A i \in DOMAIN up' : up'[i].type # "QUERY"
    <2> SUFFICES ASSUME NEW i \in DOMAIN up', up'[i].type = "QUERY" PROVE FALSE
      OBVIOUS
    <2>1. i \in Nat \ {0} /\ i + 1 \in DOMAIN up /\ up'[i] = up[i + 1]
      BY <1>d, <1>2
    <2>2. i + 1 = 1
      BY <1>1, <1>3, <2>1 DEF IInv, Pending
    <2> QED BY <2>1, <2>2
  <1>6. Streams'
    BY <1>1, StreamsStep DEF IInv, Streams, client
  <1>7. TypeOK'
    BY <1>1, <1>2, ServerType DEF IInv, TypeOK
  <1>8. OneInDoubt' /\ Waiting'
    BY <1>1 DEF IInv, OneInDoubt, Waiting, client
  <1>9. Pending'
    BY <1>1, <1>4, <1>5 DEF Pending, client
  <1> QED BY <1>6, <1>7, <1>8, <1>9 DEF IInv

\* The query executed is the next one, and its answer is known from now on.
LEMMA AnswerInv ==
  ASSUME IInv, Answer \/ AnswerFails
  PROVE  IInv'
  <1>1. /\ server = "executing" /\ executed' = Append(executed, serving.id)
        /\ server' \in {"reading", "closed"}
        /\ down' = down \o Fragments(serving) \/ down' = down
        /\ UNCHANGED client /\ UNCHANGED <<up, serving>>
    BY DEF Answer, AnswerFails, client
  <1>2. serving.type = "QUERY" /\ serving.id = sent /\ Len(executed) + 1 = sent
    BY <1>1 DEF IInv, Pending
  <1>3. serving \in Message /\ serving.id \in Nat
    BY DEF IInv, TypeOK, Message
  <1>4. /\ executed' \in Seq(Nat) /\ Len(executed') = Len(executed) + 1
        /\ executed'[Len(executed) + 1] = sent
        /\ \A i \in 1 .. Len(executed) : executed'[i] = executed[i]
    BY <1>1, <1>2, <1>3, AppendProperties DEF IInv, TypeOK
  <1>5. /\ down \in Seq(Known') /\ buffer \in Seq(Known')
        /\ chunk \in [Threads -> Seq(Known')] /\ line \in [Threads -> Seq(Known')]
    <2>1. Len(executed) <= Len(executed')
      BY <1>4, LenProperties DEF IInv, TypeOK
    <2> QED BY <1>4, <2>1, KnownGrows DEF IInv
  <1>6. Streams'
    <2>1. \A i \in 1 .. 2 : Fragments(serving)[i] \in Known'
      BY <1>2, <1>3, <1>4, FragmentsOfMessage, ElementOfSeq DEF Known
    <2>2. Fragments(serving) \in Seq(Known')
      BY <2>1, <1>3, FragmentsOfMessage DEF Fragments
    <2>3. down' \in Seq(Known')
      BY <1>1, <1>5, <2>2, ConcatProperties
    <2> QED BY <1>1, <1>5, <2>3 DEF Streams, client
  <1>7. TypeOK'
    <2>1. down \in Seq(Fragment) /\ Fragments(serving) \in Seq(Fragment)
      BY <1>3, FragmentsOfMessage DEF IInv, TypeOK
    <2>2. down' \in Seq(Fragment)
      BY <1>1, <2>1, ConcatProperties
    <2>3. up' \in Seq(Message) /\ serving' \in Message
      BY <1>1 DEF IInv, TypeOK
    <2> QED BY <1>1, <1>4, <2>2, <2>3, ServerType DEF IInv, TypeOK
  <1>8. OneInDoubt'
    <2>1. \A i \in DOMAIN executed' : executed'[i] = i
      <3>1. Len(executed) \in Nat /\ DOMAIN executed = 1 .. Len(executed)
        BY LenProperties DEF IInv, TypeOK
      <3>2. DOMAIN executed' = 1 .. Len(executed) + 1
        BY <1>4, LenProperties
      <3>3. \A i \in 1 .. Len(executed) : executed[i] = i
        BY <3>1 DEF IInv, OneInDoubt
      <3> QED BY <1>2, <1>4, <3>1, <3>2, <3>3
    <2>2. sent \in Nat /\ answered \in Nat /\ Len(executed) \in Nat
      BY LenProperties, BoundsAssumption DEF IInv, TypeOK
    <2> QED BY <1>1, <1>2, <1>4, <2>1, <2>2 DEF IInv, OneInDoubt, client
  <1>9. Waiting'
    BY <1>1 DEF IInv, Waiting, client
  <1>10. Pending'
    <2>1. \A i \in DOMAIN up : up[i].type # "QUERY"
      BY <1>1 DEF IInv, Pending
    <2> QED BY <1>1, <2>1 DEF Pending
  <1> QED BY <1>6, <1>7, <1>8, <1>9, <1>10 DEF IInv

LEMMA CloseInv ==
  ASSUME IInv, Notice \/ Stop
  PROVE  IInv'
  <1>1. server' = "closed" /\ UNCHANGED client /\ UNCHANGED <<up, down, serving, executed>>
    BY DEF Notice, Stop, client
  <1>2. Streams'
    BY <1>1, StreamsStep DEF IInv, Streams, client
  <1>3. TypeOK'
    BY <1>1, ServerType DEF IInv, TypeOK
  <1>4. OneInDoubt' /\ Waiting' /\ Pending'
    BY <1>1 DEF IInv, OneInDoubt, Waiting, Pending, client
  <1> QED BY <1>2, <1>3, <1>4 DEF IInv

--------------------------------------------------------------------------------
(* The theorems.                                                            *)

\* Every step of either process keeps the invariant.
LEMMA NextInv == IInv /\ [Next]_vars => IInv'
  <1> SUFFICES ASSUME IInv, [Next]_vars PROVE IInv'
    OBVIOUS
  <1>1. CASE SendQuery
    BY <1>1, SendQueryInv
  <1>2. CASE Leave \/ Expire
    BY <1>2, QuitInv
  <1>3. CASE SendPing
    BY <1>3, SendPingInv
  <1>4. ASSUME NEW t \in Threads, Receive(t)
        PROVE  IInv'
    BY <1>4, RecvInv, NoneInv, BufferInv, SplitInv, ParseInv DEF Receive
  <1>5. CASE Serve
    BY <1>5, ReadPingInv, ReadQueryInv, AnswerInv, CloseInv DEF Serve
  <1>6. CASE Stop
    BY <1>6, CloseInv
  <1>7. CASE UNCHANGED vars
    BY <1>7 DEF vars, IInv, TypeOK, OneInDoubt, Streams, Known, Waiting, Pending
  <1> QED BY <1>1, <1>2, <1>3, <1>4, <1>5, <1>6, <1>7 DEF Next

\* Client and server: the types and the order of the queries are kept for ever.
THEOREM Invariant == Spec => []IInv
  BY InitInv, NextInv, PTL DEF Spec

\* client.py: the stream, the shared buffer and the threads are well typed, and a
\* client that has gone has no thread left.
THEOREM TypeCorrect == Spec => []TypeOK
  <1>1. IInv => TypeOK
    BY DEF IInv
  <1> QED BY <1>1, Invariant, PTL

\* send_query and handle_client: each query is executed once and in order, the
\* answers seen are those of executed queries, and one query at most is in doubt.
THEOREM QueriesInOrder == Spec => []OneInDoubt
  <1>1. IInv => OneInDoubt
    BY DEF IInv
  <1> QED BY <1>1, Invariant, PTL

================================================================================
