------------------------------ MODULE Admission ------------------------------
(***************************************************************************)
(* How a device gets in: Login takes its address and its setup key         *)
(* (Enrollment), within the limits on logins (LoginLimits), and the token  *)
(* it answers with opens Sync (Tokens).  The three have their own locks    *)
(* and share no variable, so a behaviour moves one of them.                *)
(***************************************************************************)
EXTENDS Enrollment, LoginLimits, Tokens

VARIABLE part

allVars == <<part, vars, limitVars, tokenVars>>

AdmissionInit ==
    /\ part \in {"enrollment", "limits", "tokens"}
    /\ Init /\ LimitInit /\ TokenInit

AdmissionNext ==
    /\ UNCHANGED part
    /\ \/ part = "enrollment" /\ Next /\ UNCHANGED <<limitVars, tokenVars>>
       \/ part = "limits" /\ LimitNext /\ UNCHANGED <<vars, tokenVars>>
       \/ part = "tokens" /\ TokenNext /\ UNCHANGED <<vars, limitVars>>

(* Only Tokens has a liveness property; the fairness leaves its behaviours. *)
AdmissionSpec == AdmissionInit /\ [][AdmissionNext]_allVars /\ TokenFairness
=============================================================================
