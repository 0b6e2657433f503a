----------------------------- MODULE GuardEngine -----------------------------
(***************************************************************************)
(* guard.Engine.Run: one goroutine per attached guard calls Validate,      *)
(* turns the answer into a Result (marking errors and shadow mode) and     *)
(* writes it to its slot; the caller waits for all of them, counts the     *)
(* non-shadow results and evaluates the pass criteria.                     *)
(***************************************************************************)
EXTENDS PassCriteria

VARIABLES
  cfg,          \* the guards passed to Run and their EvalConfig
  phase,        \* "called", "waiting" (wg.Wait) or "returned"
  answered,     \* per guard, what Validate returned to its goroutine
  results,      \* per guard, the slot results[idx]
  passed        \* EngineResult.Passed once Run has returned

vars == <<cfg, phase, answered, results, passed>>

NoResult == [passed |-> FALSE, errored |-> FALSE, shadow |-> FALSE, written |-> FALSE]
Result == [passed : BOOLEAN, errored : BOOLEAN, shadow : BOOLEAN, written : BOOLEAN]

Init ==
  /\ cfg \in Configs
  /\ phase = "called"
  /\ answered = [g \in Guard |-> "none"]
  /\ results = [g \in Guard |-> NoResult]
  /\ passed = FALSE

\* Run is entered: no guards is an immediate pass, otherwise a goroutine is
\* started per guard.
Start ==
  /\ phase = "called"
  /\ IF cfg.attached = {}
     THEN phase' = "returned" /\ passed' = TRUE
     ELSE phase' = "waiting" /\ UNCHANGED passed
  /\ UNCHANGED <<cfg, answered, results>>

\* The dependency behind guard g answers its goroutine.
Validate(g, v) ==
  /\ phase = "waiting"
  /\ g \in cfg.attached
  /\ answered[g] = "none"
  /\ answered' = [answered EXCEPT ![g] = v]
  /\ UNCHANGED <<cfg, phase, results, passed>>

\* Faulty variants of BuildResult: fail-open is ignored; every error passes.
FailClosedResult(c, g, v) ==
  [passed |-> v = "pass", errored |-> v = "error", shadow |-> g \in c.shadow, written |-> TRUE]
FailOpenResult(c, g, v) ==
  [passed |-> v # "fail", errored |-> v = "error", shadow |-> g \in c.shadow, written |-> TRUE]

\* The Result a goroutine builds: an error counts as failed unless the guard
\* (through its wrappers) is fail-open, and a shadow guard's result is marked.
BuildResult(c, g, v) ==
  [passed  |-> CountsAsPassed(c, g, v),
   errored |-> v = "error",
   shadow  |-> g \in c.shadow,
   written |-> TRUE]

\* Faulty variant: a goroutine whose check errored returns before wg.Done.
WriteUnlessErrored(g) ==
  /\ phase = "waiting"
  /\ answered[g] \notin {"none", "error"}
  /\ ~results[g].written
  /\ results' = [results EXCEPT ![g] = BuildResult(cfg, g, answered[g])]
  /\ UNCHANGED <<cfg, phase, answered, passed>>

\* The goroutine writes its slot and calls wg.Done.
WriteResult(g) ==
  /\ phase = "waiting"
  /\ answered[g] # "none"
  /\ ~results[g].written
  /\ results' = [results EXCEPT ![g] = BuildResult(cfg, g, answered[g])]
  /\ UNCHANGED <<cfg, phase, answered, passed>>

\* Faulty variant: the wait ends with the first goroutine.
FirstDone == \E g \in cfg.attached : results[g].written

\* wg.Wait returns once every goroutine has called Done.
AllDone == \A g \in cfg.attached : results[g].written

\* Faulty variant: shadow results are not skipped.
EveryResult == cfg.attached

\* The counting loop over results, skipping shadow guards.
EnforcingResults == {g \in cfg.attached : ~results[g].shadow}
\* Faulty variant: shadow passes are counted.
PassCountWithShadow == Cardinality({g \in cfg.attached : results[g].passed})

PassCount == Cardinality({g \in EnforcingResults : results[g].passed})
EnforcingCount == Cardinality(EnforcingResults)

Decide ==
  /\ phase = "waiting"
  /\ AllDone
  /\ phase' = "returned"
  /\ passed' = (\/ EnforcingCount = 0
                \/ Evaluate(cfg.criteria, cfg.threshold, PassCount, EnforcingCount))
  /\ UNCHANGED <<cfg, answered, results>>

Next ==
  \/ Start
  \/ \E g \in Guard, v \in Verdict : Validate(g, v)
  \/ \E g \in Guard : WriteResult(g)
  \/ Decide

Spec == Init /\ [][Next]_vars

\* Every goroutine runs, and every Validate returns: each guard bounds its
\* call by the request's context and its own client timeout.
FairSpec ==
  /\ Spec
  /\ WF_vars(Start) /\ WF_vars(Decide)
  /\ \A g \in Guard : /\ WF_vars(\E v \in Verdict : Validate(g, v))
                      /\ WF_vars(WriteResult(g))
-----------------------------------------------------------------------------
TypeOK ==
  /\ cfg \in PhaseConfig
  /\ phase \in {"called", "waiting", "returned"}
  /\ answered \in [Guard -> Verdict \cup {"none"}]
  /\ results \in [Guard -> Result]
  /\ passed \in BOOLEAN

Returned == phase = "returned"

\* The verdicts a shadow guard, or a fail-open guard in an outage, might have
\* had instead.
WithVerdicts(alt) == [g \in Guard |-> IF g \in DOMAIN alt THEN alt[g] ELSE answered[g]]

\* The decision Run returns (engine.go:92-112) is the one the pass criteria ask
\* for, computed from every attached guard's answer.
DecisionSound == Returned => passed = Accepts(cfg, answered)

\* What the engine (engine.go:74 and :92) promises of shadow mode: whatever the
\* shadow guards answered, in whatever order the goroutines finished, the
\* decision is the one their other possible answers would have given.
ShadowNeutral ==
  Returned => \A alt \in [cfg.shadow -> Verdict] :
                passed = Accepts(cfg, WithVerdicts(alt))

\* engine.go:58: an outage of a fail-open guard's dependency does not block
\* traffic.  A rejected request would be rejected too had those guards been up
\* and passed.
OutageNeverBlocks ==
  Returned /\ ~passed =>
    ~Accepts(cfg, WithVerdicts([g \in {h \in cfg.failOpen : answered[h] = "error"} |-> "pass"]))

\* engine.go:58: errors fail closed.  A request accepted while an enforcing,
\* fail-closed guard could not be evaluated was accepted by the other guards'
\* passes: the criteria tolerate that guard failing outright.
FailClosed ==
  Returned /\ passed =>
    Accepts(cfg, WithVerdicts([g \in {h \in cfg.attached \ cfg.failOpen :
                                          answered[h] = "error"} |-> "fail"]))

\* Run returns: no goroutine is waited for twice and none is forgotten.
EventuallyReturns == <>Returned

\* Why the decision is sound, as an inductive invariant: a slot holds exactly
\* what its guard's answer dictates, or nothing, and Run returns only when all
\* slots are written.
DecisionInv ==
  /\ TypeOK
  /\ \A g \in Guard :
       \/ results[g] = NoResult
       \/ /\ answered[g] \in Verdict
          /\ results[g] = BuildResult(cfg, g, answered[g])
  /\ \A g \in Guard : answered[g] # "none" => g \in cfg.attached
  /\ Returned => AllDone
  /\ DecisionSound

\* The engine implements the abstract decision.
Verdicts == INSTANCE GuardVerdict
              WITH config <- cfg,
                   verdict <- answered,
                   outcome <- IF ~Returned THEN "pending"
                              ELSE IF passed THEN "accepted" ELSE "rejected"
ImplementsVerdict == Verdicts!VSpec
=============================================================================
