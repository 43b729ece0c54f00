---------------------------- MODULE MCDirectory -----------------------------
(* Directory with rules and packets for TLC. *)
EXTENDS Directory, TLC

CONSTANTS k1, k2, lan, staff, r1, r2

(* A rule on ports with a group that may be empty, a disabled denial of a   *)
(* protocol that has no ports, and a rule whose port is out of range        *)
MCRules ==
    {[name |-> "a", src |-> staff, dst |-> Star, proto |-> "tcp", port |-> 22,
      action |-> "allow", enabled |-> TRUE, prio |-> 1],
     [name |-> "b", src |-> Star, dst |-> k2, proto |-> "icmp", port |-> 22,
      action |-> "deny", enabled |-> FALSE, prio |-> 1000],
     [name |-> "c", src |-> lan, dst |-> staff, proto |-> "all", port |-> 70000,
      action |-> "allow", enabled |-> TRUE, prio |-> 1]}

MCEdits == {{"enabled", "prio"}, {"name", "src"}}

MCPackets ==
    {[src |-> s, dst |-> d, proto |-> p, dport |-> n] :
        s \in {k1, lan}, d \in {k2}, p \in {"tcp", "icmp"}, n \in {22, 80}}

MCSymmetry == Permutations(Handlers)
=============================================================================
