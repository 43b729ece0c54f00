---------------------------- MODULE MCAgentSync ----------------------------
(* A small instance of AgentSync for TLC. *)
EXTENDS AgentSync, TLC

CONSTANTS h1, h2, l1, l2

(* Two display names. *)
MCLabel == h1 :> l1 @@ h2 :> l2

(* Devices are interchangeable, and so are addresses. *)
Symmetry == Permutations(Peers) \cup Permutations(IPs)
=============================================================================
