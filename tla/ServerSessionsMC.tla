-------------------------- MODULE ServerSessionsMC --------------------------
(***************************************************************************)
(* Constants for ServerSessions.  Two machines send to the server:         *)
(* machine 1, port 1, starts a period as id 2 and goes on as id 1 (so the  *)
(* successor sorts before its predecessor); machine 2, which may resolve   *)
(* to a name of its own or to machine 1's, uses the same port and started  *)
(* in the same second.  The counter wraps during the stream.               *)
(***************************************************************************)
EXTENDS ServerSessions, TLC

Ping1(g, s) == [ip |-> 1, port |-> 1, guid |-> g, startTime |-> 1, seqNum |-> s]
Ping2(g, s) == [ip |-> 2, port |-> 1, guid |-> g, startTime |-> 1, seqNum |-> s]

MCNames == [i \in Ip |-> IF i = 1 THEN {"h1"} ELSE {"h1", "h2"}]
MCPing == {Ping1(2, 30), Ping1(2, 31), Ping1(1, 1), Ping2(3, 5)}

\* Addresses are interchangeable: only equality is ever tested on them.
Addresses == Permutations(Addr)
=============================================================================
