---------------------------- MODULE GuardVerdict ----------------------------
(***************************************************************************)
(* The abstract specification of one guard phase: the attached guards'     *)
(* checks answer in any order, and once all have answered the request is   *)
(* accepted or rejected in one step, by what the phase promises (Accepts). *)
(* GuardEngine is shown to implement it.                                   *)
(***************************************************************************)
CONSTANTS Guard, Configs, Verdict,
          Accepts(_, _)         \* PassCriteria's promise

VARIABLES config,       \* the phase's configuration
          verdict,      \* what each guard's check answered, "none" before that
          outcome       \* "pending", then "accepted" or "rejected"

vVars == <<config, verdict, outcome>>

VInit == /\ config \in Configs
         /\ verdict = [g \in Guard |-> "none"]
         /\ outcome = "pending"

\* A guard's check answers, once.
Answer(g, v) == /\ outcome = "pending"
                /\ g \in config.attached
                /\ verdict[g] = "none"
                /\ verdict' = [verdict EXCEPT ![g] = v]
                /\ UNCHANGED <<config, outcome>>

\* The request is decided when every attached guard has answered.
Settle == /\ outcome = "pending"
          /\ \A g \in config.attached : verdict[g] # "none"
          /\ outcome' = IF Accepts(config, verdict) THEN "accepted" ELSE "rejected"
          /\ UNCHANGED <<config, verdict>>

VNext == \/ \E g \in Guard, v \in Verdict : Answer(g, v)
         \/ Settle

VSpec == VInit /\ [][VNext]_vVars
=============================================================================
