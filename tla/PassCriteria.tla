---------------------------- MODULE PassCriteria ----------------------------
(***************************************************************************)
(* What one phase (input or output) of a source promises about a request:  *)
(* whether it is accepted, as a function of the phase's configuration and  *)
(* of what each guard's check answered.  This is the vocabulary shared by  *)
(* the abstract decision (GuardVerdict), the concurrent engine that        *)
(* computes it (GuardEngine) and the request pipeline that uses it.        *)
(***************************************************************************)
EXTENDS Naturals, FiniteSets

CONSTANTS Guard,        \* guards a source may have attached
          Configs       \* the phase configurations considered

\* What guard.Validate came back with; an "error" is an outage of the guard's
\* dependency (timeout, connection refused, bad status), not a rejection.
Verdict == {"pass", "fail", "error"}

\* The pass criteria the control plane admits (service/source.go:50).
Criteria == {"all", "any", "n_of_m"}

\* One phase of a resolved source: its guards, those marked fail-open or
\* shadow, and how their results are combined.  A threshold below 1 never
\* reaches the data plane.
PhaseConfig ==
  {c \in [attached : SUBSET Guard, failOpen : SUBSET Guard, shadow : SUBSET Guard,
          criteria : Criteria, threshold : Nat] :
     /\ c.failOpen \subseteq c.attached
     /\ c.shadow \subseteq c.attached
     /\ c.criteria = "n_of_m" => c.threshold >= 1}

ASSUME GuardAssumption == IsFiniteSet(Guard)
ASSUME ConfigsAssumption == Configs \subseteq PhaseConfig

\* Guards whose result counts: shadow guards are recorded only.
Enforcing(c) == c.attached \ c.shadow

\* A guard's result counts as passed when it passed, or when it could not be
\* evaluated and its owner chose fail-open.
CountsAsPassed(c, g, v) == v = "pass" \/ (v = "error" /\ g \in c.failOpen)

PassingGuards(c, verdict) == {g \in Enforcing(c) : CountsAsPassed(c, g, verdict[g])}

\* engine.go's evaluate: the criteria over the two counts.
Evaluate(criteria, threshold, passCount, total) ==
  CASE criteria = "any"    -> passCount > 0
    [] criteria = "n_of_m" -> passCount >= threshold
    [] OTHER               -> passCount = total

\* The promise, stated over sets rather than counts: with nothing enforcing
\* nothing can block; otherwise every / some / at least threshold enforcing
\* guards must pass.
Accepts(c, verdict) ==
  \/ Enforcing(c) = {}
  \/ /\ c.criteria = "all"
     /\ \A g \in Enforcing(c) : CountsAsPassed(c, g, verdict[g])
  \/ /\ c.criteria = "any"
     /\ \E g \in Enforcing(c) : CountsAsPassed(c, g, verdict[g])
  \/ /\ c.criteria = "n_of_m"
     /\ Cardinality(PassingGuards(c, verdict)) >= c.threshold
=============================================================================
