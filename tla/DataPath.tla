------------------------------ MODULE DataPath ------------------------------
(***************************************************************************)
(* What an agent does with decrypted packets, by platform: a Windows agent *)
(* passes them through AclFilter, a netstack agent through NetRouter.      *)
(***************************************************************************)
EXTENDS AclFilter, NetRouter

VARIABLE platform

vars == <<platform, filterVars, routerVars>>

Init ==
    /\ platform \in {"windows", "netstack"}
    /\ FilterInit
    /\ RouterInit

Next ==
    /\ UNCHANGED platform
    /\ \/ platform = "windows" /\ FilterNext /\ UNCHANGED routerVars
       \/ platform = "netstack" /\ RouterNext /\ UNCHANGED filterVars

Spec == Init /\ [][Next]_vars /\ RouterFairness

(* Every variable keeps its type; the flow table of the filter stays within  *)
(* its limit and the slots of the router within their capacity.             *)
TypeOK ==
    /\ platform \in {"windows", "netstack"}
    /\ FilterTypeOK
    /\ RouterTypeOK
=============================================================================
