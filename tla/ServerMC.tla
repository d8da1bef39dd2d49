------------------------------ MODULE ServerMC ------------------------------
(***************************************************************************)
(* Constants for Server: one machine and one port, an id that is followed  *)
(* by one that sorts before it.                                            *)
(***************************************************************************)
EXTENDS Server, TLC

Header(g, s) == [ip |-> 1, port |-> 1, guid |-> g, startTime |-> 1, seqNum |-> s]

MCNames == [i \in Ip |-> {"h1"}]
MCPing == {Header(2, 30), Header(1, 31)}

\* -l here -p 7000 -k 2 -s statsd, and as given by mistake
Line == [l |-> "here", p |-> 7000, k |-> 2, q |-> FALSE,
         s |-> [host |-> "statsd", port |-> Absent], t |-> Absent]

MCCommandLines == {Line, [Line EXCEPT !.k = 0]}
=============================================================================
