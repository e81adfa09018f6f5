------------------------------- MODULE MC_Sessions -------------------------------
(***************************************************************************)
(* Two clients: a join of two tables, a write to one of them whose rows the *)
(* other refers to, CREATE and DROP.                                        *)
(***************************************************************************)
EXTENDS Sessions

MCQueries == {<< <<"x", "read">>, <<"y", "read">> >>, << <<"x", "write">> >>,
              << <<"y", "create">> >>, << <<"x", "drop">> >>}
MCCascades == {<<"x", "y">>}
\* Hashes do not follow the order of the transactions, nor of the clients.
MCHash == [t \in {1, 2} \X (1 .. MaxTx) |-> << <<-1, 1>>, <<2, -2>> >>[t[1]][t[2]]]

================================================================================
