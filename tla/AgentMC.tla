------------------------------ MODULE AgentMC ------------------------------
(***************************************************************************)
(* Constants for Agent: a udping peer whose mesh changes its delay, a      *)
(* pinged peer, and a mesh of a mechanism the agent does not know.         *)
(***************************************************************************)
EXTENDS Agent

Entry(mechanism, peer, delay) ==
  [mechanism |-> mechanism, mesh |-> "m", peer |-> peer, ip |-> "here", delay |-> delay]

MCLists ==
  {<<Entry("udping", "p", "fast"), Entry("other", "p", "fast")>>,
   <<Entry("udping", "p", "slow"), Entry("ping", "q", "slow")>>}
=============================================================================
