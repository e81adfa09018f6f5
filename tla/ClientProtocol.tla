---------------------------- MODULE ClientProtocol -----------------------------
(***************************************************************************)
(* The line protocol between a client and the server: Client (client.py)    *)
(* with its query thread and its heartbeat thread, and the server thread    *)
(* that handle_client runs for the connection.                              *)
(*                                                                          *)
(* Both client threads read the one socket and keep what they read in the   *)
(* one receive_buffer, without a lock: receive_message is modelled          *)
(* assignment by assignment.  A message comes in two fragments, for recv    *)
(* returns whatever part of the stream is there.  On the way to the server  *)
(* nothing is lost by fragments: one thread reads them, line by line.       *)
(***************************************************************************)
EXTENDS Naturals, Sequences

CONSTANTS
  MaxQueries,  \* bound on the queries a user types
  MaxPings,    \* bound on the heartbeats sent
  MaxMissed    \* heartbeats without an answer after which HEARTBEAT_TIMEOUT is over

ASSUME BoundsAssumption == MaxQueries \in Nat /\ MaxPings \in Nat /\ MaxMissed \in Nat \ {0}

VARIABLES
  up,        \* messages on their way to the server
  down,      \* fragments of answers on their way to the client
  buffer,    \* receive_buffer
  pc,        \* where each client thread is
  chunk,     \* its local of that name; then the new contents of receive_buffer
  line,      \* its local of that name
  alive,     \* the client process runs, its socket is open
  exiting,   \* the query waited for is 'exit'
  missed,    \* heartbeats since last_heartbeat was set
  pings,     \* heartbeats sent
  server,    \* what the server thread does
  serving,   \* the query it executes
  sent,      \* number of queries sent: the last one has this number as its id
  executed,  \* history: the queries the server executed
  answered   \* history: the queries whose answer the user has seen

vars == <<up, down, buffer, pc, chunk, line, alive, exiting, missed, pings, server, serving,
          sent, executed, answered>>

--------------------------------------------------------------------------------
Threads == {"query", "heartbeat"}

NoId == 0   \* the id of a heartbeat, which nobody looks at

Message == [id : Nat, type : {"QUERY", "HEARTBEAT"}, exit : BOOLEAN]

\* The last fragment of a message holds the newline.
Fragment == [id : Nat, type : {"QUERY", "HEARTBEAT"}, last : BOOLEAN]

Fragments(m) == << [id |-> m.id, type |-> m.type, last |-> FALSE],
                   [id |-> m.id, type |-> m.type, last |-> TRUE] >>

HasLine(b) == \E i \in DOMAIN b : b[i].last

\* The place split('\n', 1) cuts b at.
LineEnds(b, n) == b[n].last /\ \A j \in 1 .. n - 1 : ~b[j].last

\* json.loads: the halves of two messages may happen to be a message, with the id
\* and the type of the first; anything else that is not one message is no JSON.
Whole(l) == Len(l) = 2 /\ ~l[1].last /\ l[1].id = l[2].id /\ l[1].type = l[2].type
Mixed(l) == Len(l) = 2 /\ ~l[1].last /\ ~Whole(l)

Ping == [id |-> NoId, type |-> "HEARTBEAT", exit |-> FALSE]

--------------------------------------------------------------------------------
(* The client process.                                                      *)

\* Variant: the heartbeat thread is left alone.
QuitAlone ==
  /\ alive' = FALSE
  /\ pc' = [pc EXCEPT !["query"] = "ended"]

\* close(), or os._exit.
Quit ==
  /\ alive' = FALSE
  /\ pc' = [t \in Threads |-> "ended"]

\* send_query sends the query, then sets last_heartbeat and waits.
SendQuery ==
  /\ alive /\ pc["query"] = "input" /\ sent < MaxQueries
  /\ sent' = sent + 1
  /\ exiting' \in BOOLEAN
  /\ up' = Append(up, [id |-> sent', type |-> "QUERY", exit |-> exiting'])
  /\ missed' = 0
  /\ pc' = [pc EXCEPT !["query"] = "recv"]
  /\ UNCHANGED <<down, buffer, chunk, line, alive, pings, server, serving, executed, answered>>

\* The user ends the input, or the socket refuses the query: send_query is None.
Leave ==
  /\ alive /\ pc["query"] = "input"
  /\ Quit
  /\ UNCHANGED <<up, down, buffer, chunk, line, exiting, missed, pings, server, serving, sent,
                 executed, answered>>

\* heartbeat_monitor after its sleep.
SendPing ==
  /\ alive /\ pc["heartbeat"] = "sleep" /\ missed < MaxMissed /\ pings < MaxPings
  /\ pings' = pings + 1
  /\ up' = Append(up, Ping)
  /\ pc' = [pc EXCEPT !["heartbeat"] = "recv"]
  /\ UNCHANGED <<down, buffer, chunk, line, alive, exiting, missed, server, serving, sent,
                 executed, answered>>

\* HEARTBEAT_TIMEOUT takes more than one interval, and no more than MaxMissed.
Expire ==
  /\ alive /\ pc["heartbeat"] = "sleep" /\ missed > 0
  /\ Quit
  /\ UNCHANGED <<up, down, buffer, chunk, line, exiting, missed, pings, server, serving, sent,
                 executed, answered>>

--------------------------------------------------------------------------------
(* receive_message in thread t.                                             *)

\* What the caller does with None.
ReturnNone(t) ==
  \/ t = "query" /\ Quit /\ UNCHANGED missed
  \/ /\ t = "heartbeat"
     /\ pc' = [pc EXCEPT ![t] = "sleep"]
     /\ missed' = missed + 1
     /\ UNCHANGED alive

\* Variant: any message is taken for the answer.
AcceptsAny(m) == TRUE

\* send_query waits for the answer to its own query.
Accepts(m) == m.type = "QUERY" /\ m.id = sent

\* What the caller does with a message: the query thread waits on when it is not
\* the answer, the heartbeat thread drops what is not a PONG.
ReturnMessage(t, m) ==
  \/ /\ t = "query" /\ Accepts(m)
     /\ answered' = answered + 1
     /\ missed' = 0
     /\ IF exiting THEN Quit ELSE pc' = [pc EXCEPT ![t] = "input"] /\ UNCHANGED alive
  \/ /\ t = "query" /\ ~Accepts(m)
     /\ pc' = [pc EXCEPT ![t] = "recv"]
     /\ missed' = 0
     /\ UNCHANGED <<alive, answered>>
  \/ /\ t = "heartbeat"
     /\ pc' = [pc EXCEPT ![t] = "sleep"]
     /\ missed' = IF m.type = "HEARTBEAT" THEN 0 ELSE missed + 1
     /\ UNCHANGED <<alive, answered>>

\* recv returns some of what has arrived.
Recv(t) ==
  /\ alive /\ pc[t] = "recv"
  /\ \E n \in 1 .. Len(down) :
       /\ chunk' = [chunk EXCEPT ![t] = SubSeq(down, 1, n)]
       /\ down' = SubSeq(down, n + 1, Len(down))
  /\ pc' = [pc EXCEPT ![t] = "add"]
  /\ UNCHANGED <<up, buffer, line, alive, exiting, missed, pings, server, serving, sent,
                 executed, answered>>

\* recv returns nothing once the server has closed the connection.
RecvEnd(t) ==
  /\ alive /\ pc[t] = "recv" /\ down = <<>> /\ server = "closed"
  /\ ReturnNone(t)
  /\ UNCHANGED <<up, down, buffer, chunk, line, exiting, pings, server, serving, sent, executed,
                 answered>>

\* Variant: the query thread waits as long as it takes.
TimeOutPing(t) ==
  /\ alive /\ pc[t] = "recv" /\ t = "heartbeat"
  /\ ReturnNone(t)
  /\ UNCHANGED <<up, down, buffer, chunk, line, exiting, pings, server, serving, sent, executed,
                 answered>>

\* The loop ends when the time is over: ten seconds, or two for a heartbeat.
TimeOut(t) ==
  /\ alive /\ pc[t] = "recv"
  /\ ReturnNone(t)
  /\ UNCHANGED <<up, down, buffer, chunk, line, exiting, pings, server, serving, sent, executed,
                 answered>>

\* receive_buffer += chunk reads the buffer, then sets it.
Add(t) ==
  /\ alive /\ pc[t] = "add"
  /\ chunk' = [chunk EXCEPT ![t] = buffer \o @]
  /\ pc' = [pc EXCEPT ![t] = "store"]
  /\ UNCHANGED <<up, down, buffer, line, alive, exiting, missed, pings, server, serving, sent,
                 executed, answered>>

Store(t) ==
  /\ alive /\ pc[t] = "store"
  /\ buffer' = chunk[t]
  /\ chunk' = [chunk EXCEPT ![t] = <<>>]
  /\ pc' = [pc EXCEPT ![t] = "check"]
  /\ UNCHANGED <<up, down, line, alive, exiting, missed, pings, server, serving, sent, executed,
                 answered>>

Check(t) ==
  /\ alive /\ pc[t] = "check"
  /\ pc' = [pc EXCEPT ![t] = IF HasLine(buffer) THEN "split" ELSE "recv"]
  /\ UNCHANGED <<up, down, buffer, chunk, line, alive, exiting, missed, pings, server, serving,
                 sent, executed, answered>>

\* The line that was there is taken apart, to be put back without its first part.
Split(t) ==
  /\ alive /\ pc[t] = "split"
  /\ \E n \in DOMAIN buffer :
       /\ LineEnds(buffer, n)
       /\ line' = [line EXCEPT ![t] = SubSeq(buffer, 1, n)]
       /\ chunk' = [chunk EXCEPT ![t] = SubSeq(buffer, n + 1, Len(buffer))]
  /\ pc' = [pc EXCEPT ![t] = "rest"]
  /\ UNCHANGED <<up, down, buffer, alive, exiting, missed, pings, server, serving, sent, executed,
                 answered>>

\* The other thread took the line since: there is one part to unpack into two
\* variables, and the exception makes it None.
SplitFails(t) ==
  /\ alive /\ pc[t] = "split" /\ ~HasLine(buffer)
  /\ ReturnNone(t)
  /\ UNCHANGED <<up, down, buffer, chunk, line, exiting, pings, server, serving, sent, executed,
                 answered>>

\* The rest becomes the buffer and the line is parsed.
Parse(t) ==
  /\ alive /\ pc[t] = "rest"
  /\ buffer' = chunk[t]
  /\ chunk' = [chunk EXCEPT ![t] = <<>>]
  /\ line' = [line EXCEPT ![t] = <<>>]
  /\ \/ /\ Whole(line[t]) \/ Mixed(line[t])
        /\ ReturnMessage(t, line[t][1])
     \/ /\ ~Whole(line[t])
        /\ pc' = [pc EXCEPT ![t] = "recv"]
        /\ UNCHANGED <<alive, missed, answered>>
  /\ UNCHANGED <<up, down, exiting, pings, server, serving, sent, executed>>

Receive(t) ==
  Recv(t) \/ RecvEnd(t) \/ TimeOut(t) \/ Add(t) \/ Store(t) \/ Check(t) \/ Split(t)
    \/ SplitFails(t) \/ Parse(t)

--------------------------------------------------------------------------------
(* handle_client.                                                           *)

\* A heartbeat is answered at once, a query is executed, 'exit' ends the thread.
ReadPing ==
  /\ server = "reading" /\ up # <<>> /\ Head(up).type = "HEARTBEAT"
  /\ up' = Tail(up)
  /\ down' = down \o Fragments(Head(up))
  /\ UNCHANGED <<buffer, pc, chunk, line, alive, exiting, missed, pings, server, serving, sent,
                 executed, answered>>

ReadQuery ==
  /\ server = "reading" /\ up # <<>> /\ Head(up).type = "QUERY"
  /\ up' = Tail(up)
  /\ server' = "executing"
  /\ serving' = Head(up)
  /\ UNCHANGED <<down, buffer, pc, chunk, line, alive, exiting, missed, pings, sent, executed,
                 answered>>

\* execute_query returns or raises, and its text is the answer.
Answer ==
  /\ server = "executing"
  /\ executed' = Append(executed, serving.id)
  /\ down' = down \o Fragments(serving)
  /\ server' = IF serving.exit THEN "closed" ELSE "reading"
  /\ UNCHANGED <<up, buffer, pc, chunk, line, alive, exiting, missed, pings, serving, sent,
                 answered>>

\* send raises when the client has gone.
AnswerFails ==
  /\ server = "executing" /\ ~alive
  /\ executed' = Append(executed, serving.id)
  /\ server' = "closed"
  /\ UNCHANGED <<up, down, buffer, pc, chunk, line, alive, exiting, missed, pings, serving, sent,
                 answered>>

\* Variant: an empty chunk is read again.
NoticeReset ==
  /\ server = "reading" /\ ~alive /\ up # <<>>
  /\ server' = "closed"
  /\ UNCHANGED <<up, down, buffer, pc, chunk, line, alive, exiting, missed, pings, serving, sent,
                 executed, answered>>

\* recv gives an empty chunk at the end of the stream, or raises on a reset that
\* takes the unread messages with it.
Notice ==
  /\ server = "reading" /\ ~alive
  /\ server' = "closed"
  /\ UNCHANGED <<up, down, buffer, pc, chunk, line, alive, exiting, missed, pings, serving, sent,
                 executed, answered>>

Serve == ReadPing \/ ReadQuery \/ Answer \/ AnswerFails \/ Notice

\* The server process ends, with or without what it was executing.
Stop ==
  /\ server # "closed"
  /\ server' = "closed"
  /\ UNCHANGED <<up, down, buffer, pc, chunk, line, alive, exiting, missed, pings, serving, sent,
                 executed, answered>>

--------------------------------------------------------------------------------
Init ==
  /\ up = <<>> /\ down = <<>> /\ buffer = <<>>
  /\ pc = [t \in Threads |-> IF t = "query" THEN "input" ELSE "sleep"]
  /\ chunk = [t \in Threads |-> <<>>] /\ line = [t \in Threads |-> <<>>]
  /\ alive = TRUE /\ exiting = FALSE
  /\ missed = 0 /\ pings = 0
  /\ server = "reading" /\ serving = Ping
  /\ sent = 0 /\ executed = <<>> /\ answered = 0

Next ==
  \/ SendQuery \/ Leave \/ SendPing \/ Expire
  \/ \E t \in Threads : Receive(t)
  \/ Serve \/ Stop

\* Both processes run their threads.  Nothing makes the user type, the server
\* stop or, in this model, the heartbeat thread wake up.
Fairness == (\A t \in Threads : WF_vars(Receive(t))) /\ WF_vars(Serve)

Spec == Init /\ [][Next]_vars /\ Fairness

--------------------------------------------------------------------------------
(* Properties.                                                              *)

\* client.py, server.py: the streams hold messages, the threads are where they
\* can be, and a client that has gone has no thread left.
TypeOK ==
  /\ up \in Seq(Message)
  /\ down \in Seq(Fragment) /\ buffer \in Seq(Fragment)
  /\ chunk \in [Threads -> Seq(Fragment)] /\ line \in [Threads -> Seq(Fragment)]
  /\ pc \in [Threads -> {"input", "sleep", "recv", "add", "store", "check", "split", "rest",
                         "ended"}]
  /\ alive \in BOOLEAN /\ exiting \in BOOLEAN
  /\ missed \in Nat /\ pings \in 0 .. MaxPings
  /\ server \in {"reading", "executing", "closed"} /\ serving \in Message
  /\ sent \in 0 .. MaxQueries /\ executed \in Seq(Nat) /\ answered \in Nat
  /\ \A t \in Threads : alive <=> pc[t] # "ended"

\* send_query and handle_client: whatever the two threads do to the buffer, the
\* server executes the queries in order and once, the user has seen the answers
\* to queries that were executed, and knows the fate of all but the last.
OneInDoubt ==
  /\ \A i \in DOMAIN executed : executed[i] = i
  /\ answered <= Len(executed)
  /\ Len(executed) <= sent
  /\ sent <= answered + 1

\* send_query: an answer, or the end of the client; a query that the heartbeat
\* thread took the answer of is not waited for without end.
QueryReturns == pc["query"] \notin {"input", "ended"} ~> pc["query"] \in {"input", "ended"}

\* handle_client: no server thread stays behind when its client has gone.
ServerThreadEnds == ~alive ~> server = "closed"

================================================================================
