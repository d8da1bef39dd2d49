------------------------------ MODULE UDPingMC ------------------------------
(***************************************************************************)
(* Constants for UDPing: one host, the client's; addresses are             *)
(* interchangeable.                                                        *)
(***************************************************************************)
EXTENDS UDPing, TLC

MCNames == [i \in Ip |-> Host]

MCPing == [ip : Ip, port : Port, guid : Guid, startTime : StartTime, seqNum : Seqnum]

Addresses == Permutations(Addr)
=============================================================================
