-------------------------- MODULE GuardEngineProofs --------------------------
(***************************************************************************)
(* Proofs about GuardEngine, for any finite set of guards and any phase    *)
(* configurations: the decision is the one the criteria ask for whatever   *)
(* the interleaving of the goroutines, shadow guards do not influence it,  *)
(* an outage of a fail-open guard does not block, and the engine           *)
(* implements GuardVerdict.                                                *)
(***************************************************************************)
EXTENDS GuardEngine, FiniteSetTheorems, TLAPS

\* The guards of a phase are finitely many, and so are the enforcing ones and
\* those that pass.
LEMMA FinitePhase ==
  ASSUME NEW c \in PhaseConfig, NEW v
  PROVE  /\ IsFiniteSet(Enforcing(c)) /\ Cardinality(Enforcing(c)) \in Nat
         /\ PassingGuards(c, v) \subseteq Enforcing(c)
         /\ IsFiniteSet(PassingGuards(c, v)) /\ Cardinality(PassingGuards(c, v)) \in Nat
<1>1. Enforcing(c) \subseteq Guard /\ PassingGuards(c, v) \subseteq Enforcing(c)
  BY DEF PhaseConfig, Enforcing, PassingGuards
<1>2. IsFiniteSet(Enforcing(c)) /\ IsFiniteSet(PassingGuards(c, v))
  BY <1>1, GuardAssumption, FS_Subset
<1> QED BY <1>1, <1>2, FS_CardinalityType

\* Comparing the two counts (engine.go's evaluate) is the same as quantifying
\* over the enforcing guards.
LEMMA CountingDecides ==
  ASSUME NEW c \in PhaseConfig, NEW v
  PROVE  (\/ Cardinality(Enforcing(c)) = 0
          \/ Evaluate(c.criteria, c.threshold, Cardinality(PassingGuards(c, v)),
                      Cardinality(Enforcing(c))))
           = Accepts(c, v)
<1> DEFINE E == Enforcing(c)
           P == PassingGuards(c, v)
<1>1. /\ IsFiniteSet(E) /\ Cardinality(E) \in Nat
      /\ P \subseteq E /\ IsFiniteSet(P) /\ Cardinality(P) \in Nat
  BY FinitePhase
<1>2. Cardinality(E) = 0 <=> E = {}
  BY <1>1, FS_EmptySet
<1>3. Cardinality(P) > 0 <=> P # {}
  BY <1>1, FS_EmptySet
<1>4. Cardinality(P) = Cardinality(E) <=> P = E
  BY <1>1, FS_Subset
<1>5. P # {} <=> \E g \in E : CountsAsPassed(c, g, v[g])
  BY DEF PassingGuards
<1>6. P = E <=> \A g \in E : CountsAsPassed(c, g, v[g])
  BY DEF PassingGuards
<1>7. c.criteria \in {"all", "any", "n_of_m"}
  BY DEF PhaseConfig, Criteria
<1> HIDE DEF E, P
<1>8. CASE c.criteria = "all"
  BY <1>2, <1>4, <1>6, <1>8 DEF Accepts, Evaluate, E, P
<1>9. CASE c.criteria = "any"
  BY <1>2, <1>3, <1>5, <1>9 DEF Accepts, Evaluate, E, P
<1>10. CASE c.criteria = "n_of_m"
  BY <1>2, <1>10 DEF Accepts, Evaluate, E, P
<1> QED BY <1>7, <1>8, <1>9, <1>10

\* Only the enforcing guards' verdicts matter.
LEMMA AcceptsLocal ==
  ASSUME NEW c \in PhaseConfig, NEW v, NEW w,
         \A g \in Enforcing(c) : v[g] = w[g]
  PROVE  Accepts(c, v) = Accepts(c, w)
<1>1. PassingGuards(c, v) = PassingGuards(c, w)
  BY DEF PassingGuards
<1> QED BY <1>1 DEF Accepts

\* Accepting is monotone in the set of guards that pass.
LEMMA AcceptsMonotone ==
  ASSUME NEW c \in PhaseConfig, NEW v, NEW w,
         \A g \in Enforcing(c) : CountsAsPassed(c, g, v[g]) => CountsAsPassed(c, g, w[g]),
         Accepts(c, v)
  PROVE  Accepts(c, w)
<1>1. PassingGuards(c, v) \subseteq PassingGuards(c, w)
  BY DEF PassingGuards
<1>2. /\ IsFiniteSet(PassingGuards(c, w))
      /\ Cardinality(PassingGuards(c, v)) \in Nat
      /\ Cardinality(PassingGuards(c, w)) \in Nat
  BY FinitePhase
<1>3. Cardinality(PassingGuards(c, v)) <= Cardinality(PassingGuards(c, w))
  BY <1>1, <1>2, FS_Subset
<1>4. c.threshold \in Nat
  BY DEF PhaseConfig
<1>5. CASE Enforcing(c) = {}
  BY <1>5 DEF Accepts
<1>6. CASE c.criteria = "all" /\ \A g \in Enforcing(c) : CountsAsPassed(c, g, v[g])
  BY <1>6 DEF Accepts
<1>7. CASE c.criteria = "any" /\ \E g \in Enforcing(c) : CountsAsPassed(c, g, v[g])
  BY <1>7 DEF Accepts
<1>8. CASE c.criteria = "n_of_m" /\ Cardinality(PassingGuards(c, v)) >= c.threshold
  <2>1. Cardinality(PassingGuards(c, w)) >= c.threshold
    BY <1>2, <1>3, <1>4, <1>8
  <2> QED BY <1>8, <2>1 DEF Accepts
<1> QED BY <1>5, <1>6, <1>7, <1>8 DEF Accepts
-----------------------------------------------------------------------------
\* When all slots are written, what the counting loop counts is exactly the
\* enforcing guards and the passing ones among them.
LEMMA CountedSets ==
  ASSUME DecisionInv, AllDone
  PROVE  /\ EnforcingResults = Enforcing(cfg)
         /\ {g \in EnforcingResults : results[g].passed} = PassingGuards(cfg, answered)
<1>1. cfg.attached \subseteq Guard
  BY DEF DecisionInv, TypeOK, PhaseConfig
<1>2. ASSUME NEW g \in cfg.attached
      PROVE  /\ results[g].shadow = (g \in cfg.shadow)
             /\ results[g].passed = CountsAsPassed(cfg, g, answered[g])
  <2>1. results[g] = BuildResult(cfg, g, answered[g])
    BY <1>1 DEF DecisionInv, AllDone, NoResult
  <2>2. /\ BuildResult(cfg, g, answered[g]).shadow = (g \in cfg.shadow)
        /\ BuildResult(cfg, g, answered[g]).passed = CountsAsPassed(cfg, g, answered[g])
    BY DEF BuildResult, CountsAsPassed
  <2> QED BY <2>1, <2>2
<1>3. EnforcingResults = Enforcing(cfg)
  BY <1>2 DEF EnforcingResults, Enforcing
<1> QED BY <1>2, <1>3 DEF PassingGuards, Enforcing

LEMMA InitInv == Init => DecisionInv
<1> SUFFICES ASSUME Init PROVE DecisionInv
  OBVIOUS
<1>1. TypeOK
  BY ConfigsAssumption DEF Init, TypeOK, NoResult, Result, Verdict
<1> QED BY <1>1 DEF Init, DecisionInv, DecisionSound, Returned

\* Every step keeps the invariant; Decide is the step it is for.
LEMMA NextInv == DecisionInv /\ [Next]_vars => DecisionInv'
<1> SUFFICES ASSUME DecisionInv, [Next]_vars PROVE DecisionInv'
  OBVIOUS
<1> USE DEF DecisionInv
<1>1. CASE Start
  <2>1. TypeOK'
    BY <1>1 DEF Start, TypeOK
  <2>2. Returned' => AllDone'
    BY <1>1 DEF Start, Returned, AllDone
  <2>3. DecisionSound'
    BY <1>1 DEF Start, DecisionSound, Returned, Accepts, Enforcing
  <2> QED BY <1>1, <2>1, <2>2, <2>3 DEF Start
<1>2. ASSUME NEW g \in Guard, NEW v \in Verdict, Validate(g, v)
      PROVE  DecisionInv'
  <2>1. TypeOK'
    BY <1>2 DEF Validate, TypeOK
  <2>2. \A h \in Guard : \/ results'[h] = NoResult
                         \/ /\ answered'[h] \in Verdict
                            /\ results'[h] = BuildResult(cfg', h, answered'[h])
    BY <1>2 DEF Validate, TypeOK, Verdict
  <2>3. \A h \in Guard : answered'[h] # "none" => h \in cfg'.attached
    BY <1>2 DEF Validate, TypeOK
  <2>4. ~Returned'
    BY <1>2 DEF Validate, Returned
  <2> QED BY <2>1, <2>2, <2>3, <2>4 DEF DecisionSound
<1>3. ASSUME NEW g \in Guard, WriteResult(g)
      PROVE  DecisionInv'
  <2>1. answered[g] \in Verdict
    BY <1>3 DEF WriteResult, TypeOK
  <2>2. BuildResult(cfg, g, answered[g]) \in Result
    BY DEF BuildResult, Result, CountsAsPassed
  <2>3. TypeOK'
    BY <1>3, <2>2 DEF WriteResult, TypeOK
  <2>4. \A h \in Guard : \/ results'[h] = NoResult
                         \/ /\ answered'[h] \in Verdict
                            /\ results'[h] = BuildResult(cfg', h, answered'[h])
    BY <1>3, <2>1 DEF WriteResult, TypeOK
  <2>5. ~Returned'
    BY <1>3 DEF WriteResult, Returned
  <2> QED BY <1>3, <2>3, <2>4, <2>5 DEF WriteResult, DecisionSound
<1>4. CASE Decide
  <2>1. cfg \in PhaseConfig
    BY DEF TypeOK
  <2>2. /\ EnforcingCount = Cardinality(Enforcing(cfg))
        /\ PassCount = Cardinality(PassingGuards(cfg, answered))
    BY <1>4, CountedSets DEF Decide, EnforcingCount, PassCount
  <2>3. passed' = Accepts(cfg, answered)
    BY <1>4, <2>1, <2>2, CountingDecides DEF Decide
  <2>4. passed' \in BOOLEAN
    BY <2>3 DEF Accepts
  <2>5. TypeOK'
    BY <1>4, <2>4 DEF Decide, TypeOK
  <2>6. AllDone'
    BY <1>4 DEF Decide, AllDone
  <2>7. DecisionSound'
    BY <1>4, <2>3 DEF Decide, DecisionSound, Accepts, Enforcing, PassingGuards
  <2> QED BY <1>4, <2>5, <2>6, <2>7 DEF Decide
<1>5. CASE UNCHANGED vars
  BY <1>5 DEF vars, TypeOK, Returned, AllDone, DecisionSound, Accepts, Enforcing, PassingGuards
<1> QED BY <1>1, <1>2, <1>3, <1>4, <1>5 DEF Next

\* The engine's variables keep their types (guard/engine.go's Run).
THEOREM TypeCorrect == Spec => []TypeOK
<1>1. DecisionInv => TypeOK
  BY DEF DecisionInv
<1> QED BY <1>1, InitInv, NextInv, PTL DEF Spec

\* Whatever the interleaving of the guard goroutines, Run's decision is the one
\* the pass criteria ask for (engine.go:82-112).
THEOREM DecisionIsSound == Spec => []DecisionSound
<1>1. DecisionInv => DecisionSound
  BY DEF DecisionInv
<1> QED BY <1>1, InitInv, NextInv, PTL DEF Spec

\* Shadow guards "never affect the decision" (engine.go:74).
THEOREM ShadowIsNeutral == Spec => []ShadowNeutral
<1>1. DecisionInv => ShadowNeutral
  <2> SUFFICES ASSUME DecisionInv, Returned, NEW alt \in [cfg.shadow -> Verdict]
               PROVE  passed = Accepts(cfg, WithVerdicts(alt))
    BY DEF ShadowNeutral
  <2>1. cfg \in PhaseConfig
    BY DEF DecisionInv, TypeOK
  <2>2. \A g \in Enforcing(cfg) : answered[g] = WithVerdicts(alt)[g]
    BY <2>1 DEF Enforcing, WithVerdicts, PhaseConfig
  <2>3. Accepts(cfg, answered) = Accepts(cfg, WithVerdicts(alt))
    BY <2>1, <2>2, AcceptsLocal
  <2> QED BY <2>3 DEF DecisionInv, DecisionSound
<1> QED BY <1>1, InitInv, NextInv, PTL DEF Spec

\* An outage of a fail-open guard's dependency does not block traffic
\* (engine.go:58).
THEOREM OutageIsHarmless == Spec => []OutageNeverBlocks
<1>1. DecisionInv => OutageNeverBlocks
  <2> DEFINE up == [g \in {h \in cfg.failOpen : answered[h] = "error"} |-> "pass"]
  <2> SUFFICES ASSUME DecisionInv, Returned, ~passed, Accepts(cfg, WithVerdicts(up))
               PROVE  FALSE
    BY DEF OutageNeverBlocks
  <2>1. cfg \in PhaseConfig
    BY DEF DecisionInv, TypeOK
  <2>2. \A g \in Enforcing(cfg) :
          CountsAsPassed(cfg, g, WithVerdicts(up)[g]) => CountsAsPassed(cfg, g, answered[g])
    BY <2>1 DEF Enforcing, WithVerdicts, CountsAsPassed, PhaseConfig
  <2>3. Accepts(cfg, answered)
    BY <2>1, <2>2, AcceptsMonotone
  <2> QED BY <2>3 DEF DecisionInv, DecisionSound
<1> QED BY <1>1, InitInv, NextInv, PTL DEF Spec

\* Errors of guards that are not fail-open count as failures (engine.go:58).
THEOREM ErrorsFailClosed == Spec => []FailClosed
<1>1. DecisionInv => FailClosed
  <2> DEFINE S == {h \in cfg.attached \ cfg.failOpen : answered[h] = "error"}
             failed == [g \in S |-> "fail"]
  <2> SUFFICES ASSUME DecisionInv, Returned, passed
               PROVE  Accepts(cfg, WithVerdicts(failed))
    BY DEF FailClosed
  <2>1. cfg \in PhaseConfig
    BY DEF DecisionInv, TypeOK
  <2>2. \A g \in Enforcing(cfg) :
          CountsAsPassed(cfg, g, answered[g]) => CountsAsPassed(cfg, g, WithVerdicts(failed)[g])
    BY <2>1 DEF Enforcing, WithVerdicts, CountsAsPassed, PhaseConfig
  <2>3. Accepts(cfg, answered)
    BY DEF DecisionInv, DecisionSound
  <2> QED BY <2>1, <2>2, <2>3, AcceptsMonotone
<1> QED BY <1>1, InitInv, NextInv, PTL DEF Spec
-----------------------------------------------------------------------------
\* The concurrent engine implements the one-step abstract decision.
THEOREM EngineImplementsVerdict == Spec => ImplementsVerdict
<1>1. Init => Verdicts!VInit
  BY DEF Init, Verdicts!VInit, Returned
<1>2. DecisionInv /\ DecisionInv' /\ [Next]_vars => [Verdicts!VNext]_(Verdicts!vVars)
  <2> SUFFICES ASSUME DecisionInv, DecisionInv', [Next]_vars
               PROVE  [Verdicts!VNext]_(Verdicts!vVars)
    OBVIOUS
  <2> USE DEF Verdicts!VNext, Verdicts!vVars
  <2>1. CASE Start
    <3>1. CASE cfg.attached = {}
      <4>1. Accepts(cfg, answered)
        BY <3>1 DEF Accepts, Enforcing
      <4> QED BY <2>1, <3>1, <4>1 DEF Start, Verdicts!Settle, Returned
    <3>2. CASE cfg.attached # {}
      BY <2>1, <3>2 DEF Start, Returned
    <3> QED BY <3>1, <3>2
  <2>2. ASSUME NEW g \in Guard, NEW v \in Verdict, Validate(g, v)
        PROVE  [Verdicts!VNext]_(Verdicts!vVars)
    BY <2>2 DEF Validate, Verdicts!Answer, Returned
  <2>3. ASSUME NEW g \in Guard, WriteResult(g)
        PROVE  [Verdicts!VNext]_(Verdicts!vVars)
    BY <2>3 DEF WriteResult, Returned
  <2>4. CASE Decide
    <3>1. passed' = Accepts(cfg, answered)
      BY <2>4 DEF Decide, DecisionInv, DecisionSound, Returned, Accepts, Enforcing, PassingGuards
    <3>2. \A g \in cfg.attached : answered[g] # "none"
      BY <2>4 DEF Decide, AllDone, DecisionInv, TypeOK, PhaseConfig, NoResult, Verdict
    <3> QED BY <2>4, <3>1, <3>2 DEF Decide, Verdicts!Settle, Returned
  <2>5. CASE UNCHANGED vars
    BY <2>5 DEF vars, Returned
  <2> QED BY <2>1, <2>2, <2>3, <2>4, <2>5 DEF Next
<1> QED BY <1>1, <1>2, InitInv, NextInv, PTL DEF Spec, ImplementsVerdict, Verdicts!VSpec
=============================================================================
