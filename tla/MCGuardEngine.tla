---------------------------- MODULE MCGuardEngine ----------------------------
(***************************************************************************)
(* Bounds for GuardEngine: every combination of attachment, fail-open and  *)
(* shadow mode over Guard, and for n_of_m every threshold up to            *)
(* MaxThreshold, one more than there are guards.                           *)
(***************************************************************************)
EXTENDS GuardEngine

CONSTANT MaxThreshold

Modes == UNION {[attached : {a}, failOpen : SUBSET a, shadow : SUBSET a] : a \in SUBSET Guard}

WithCriteria(m, c, t) ==
  [attached |-> m.attached, failOpen |-> m.failOpen, shadow |-> m.shadow,
   criteria |-> c, threshold |-> t]

MCConfigs ==
  {WithCriteria(m, c, 0) : m \in Modes, c \in {"all", "any"}}
    \cup {WithCriteria(m, "n_of_m", t) : m \in Modes, t \in 1..MaxThreshold}
=============================================================================
