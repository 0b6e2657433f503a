-------------------------- MODULE GatewayLoadProofs --------------------------
(***************************************************************************)
(* RetriesBounded, ContextHonoured and AdmissionsHold for any number of    *)
(* requests, keys and webhooks, any retries, timeouts and limits.          *)
(***************************************************************************)
EXTENDS GatewayLoad, FiniteSetTheorems, WellFoundedInduction, TLAPS

\* A call as the client keeps it.
CallRecord ==
  [at : {"idle", "headers", "body", "backoff"}, attempt : Nat, status : Status,
   timer : Nat, backoff : Nat, wait : Nat, left : Int]
ServedRecord == [answers : Nat, attempts : Nat]

\* While a call goes on, every attempt it made is counted and none was answered;
\* a backoff is followed by an attempt that is still allowed.
CallInv(c) ==
  /\ served[c].attempts <= MaxRetries + 1
  /\ served[c].answers <= 1
  /\ Busy(c) => /\ served[c].answers = 0
                /\ served[c].attempts <= call[c].attempt
                /\ call[c].attempt <= MaxRetries + 1
                /\ call[c].left >= 0
  /\ call[c].at = "backoff" => call[c].attempt <= MaxRetries

ClientInv ==
  /\ call \in [Request -> CallRecord]
  /\ served \in [Request -> ServedRecord]
  /\ \A c \in Request : CallInv(c)

\* Giving up or backing off.
LEMMA FailKeeps ==
  ASSUME ClientInv, NEW c \in Request, NEW r \in BOOLEAN, Busy(c), Fail(c, r), served' = served
  PROVE  ClientInv'
<1> DEFINE p == call[c]
           q == [at |-> "backoff", attempt |-> p.attempt, status |-> "ok", timer |-> 0,
                 backoff |-> 2 * p.backoff, wait |-> p.backoff, left |-> p.left]
<1>1. p \in CallRecord /\ CallInv(c) /\ p.at # "idle"
  BY DEF ClientInv, Busy
<1>2. CASE call' = [call EXCEPT ![c] = NoCall]
  <2>1. NoCall \in CallRecord BY DEF NoCall, CallRecord, Status
  <2>2. call' \in [Request -> CallRecord] BY <2>1, <1>2 DEF ClientInv
  <2>3. call'[c].at = "idle" BY <1>2 DEF ClientInv, NoCall
  <2>4. \A d \in Request \ {c} : call'[d] = call[d] BY <1>2 DEF ClientInv
  <2>5. \A d \in Request : CallInv(d)' BY <2>3, <2>4 DEF ClientInv, CallInv, Busy
  <2> QED BY <2>2, <2>5 DEF ClientInv
<1>3. CASE call' = [call EXCEPT ![c] = q] /\ p.left > 0 /\ p.attempt # MaxRetries + 1
  <2>2. p.attempt \in Nat /\ p.backoff \in Nat /\ p.left \in Int BY <1>1 DEF CallRecord
  <2>3. q \in CallRecord BY <2>2 DEF CallRecord, Status
  <2>4. call' \in [Request -> CallRecord] BY <2>3, <1>3 DEF ClientInv
  <2>5. call'[c] = q BY <1>3 DEF ClientInv
  <2>6. call'[c].at = "backoff" /\ call'[c].attempt = p.attempt /\ call'[c].left = p.left
    BY <2>5
  <2>7. CallInv(c)'
    BY <2>6, <2>2, <1>1, <1>3, ClientAssumption DEF CallInv, Busy
  <2>8. \A d \in Request \ {c} : call'[d] = call[d] BY <1>3 DEF ClientInv
  <2>9. \A d \in Request : CallInv(d)' BY <2>7, <2>8 DEF ClientInv, CallInv, Busy
  <2> QED BY <2>4, <2>9 DEF ClientInv
<1>4. \/ call' = [call EXCEPT ![c] = NoCall]
      \/ call' = [call EXCEPT ![c] = q] /\ ~(p.left <= 0) /\ p.attempt # MaxRetries + 1
  BY DEF Fail, Return
<1>5. ~(p.left <= 0) => p.left > 0 BY <1>1 DEF CallRecord
<1> QED BY <1>2, <1>3, <1>4, <1>5

\* An attempt leaves the same record but for what it starts.
LEMMA AttemptKeeps ==
  ASSUME ClientInv, NEW c \in Request, call[c].at = "backoff", Attempt(c, call[c])
  PROVE  ClientInv'
<1> DEFINE p == call[c]
           q == [at |-> "headers", attempt |-> p.attempt + 1, status |-> "ok", timer |-> Timeout,
                 backoff |-> p.backoff, wait |-> 0, left |-> p.left]
           n == [served EXCEPT ![c].attempts = IF p.left > 0 THEN @ + 1 ELSE @]
<1>1. p \in CallRecord /\ served[c] \in ServedRecord /\ CallInv(c) /\ Busy(c)
  BY DEF ClientInv, Busy
<1>2. call' = [call EXCEPT ![c] = q] /\ served' = n BY DEF Attempt
<1>3. p.attempt \in Nat /\ Timeout \in Nat /\ MaxRetries \in Nat BY <1>1, ClientAssumption DEF CallRecord
<1>4. q \in CallRecord BY <1>1, <1>3 DEF CallRecord, Status
<1>5. call' \in [Request -> CallRecord] BY <1>2, <1>4 DEF ClientInv
<1>6. n[c] = [served[c] EXCEPT !.attempts = IF p.left > 0 THEN @ + 1 ELSE @] BY DEF ClientInv
<1>7. n[c] \in ServedRecord /\ n[c].answers = served[c].answers
      /\ n[c].attempts <= served[c].attempts + 1
  BY <1>6, <1>1 DEF ServedRecord
<1>8. \A d \in Request \ {c} : n[d] = served[d] /\ call'[d] = call[d] BY <1>2 DEF ClientInv
<1>9. n \in [Request -> ServedRecord]
  <2>1. \A d \in Request : n[d] \in ServedRecord BY <1>7, <1>8 DEF ClientInv
  <2> QED BY <2>1 DEF ClientInv
<1>10. call'[c] = q BY <1>2 DEF ClientInv
<1>11. call'[c].at = "headers" /\ call'[c].attempt = p.attempt + 1 /\ call'[c].left = p.left
  BY <1>10, <1>1 DEF CallRecord
<1>12. CallInv(c)'
  BY <1>1, <1>2, <1>3, <1>7, <1>11 DEF CallInv, Busy, ServedRecord
<1>13. \A d \in Request : CallInv(d)' BY <1>2, <1>8, <1>12 DEF ClientInv, CallInv, Busy
<1> QED BY <1>2, <1>5, <1>9, <1>13 DEF ClientInv

\* Only the state of one attempt changes.
LEMMA StageKeeps ==
  ASSUME ClientInv, NEW c \in Request, Busy(c), NEW q \in CallRecord,
         q.at \in {"headers", "body"} \/ q.at = call[c].at,
         q.attempt = call[c].attempt, q.left >= 0,
         call' = [call EXCEPT ![c] = q], served' = served
  PROVE  ClientInv'
<1>1. call' \in [Request -> CallRecord] BY DEF ClientInv
<1>2. call'[c] = q BY DEF ClientInv
<1>3. CallInv(c)' BY <1>2 DEF ClientInv, CallInv, Busy
<1>4. \A d \in Request \ {c} : call'[d] = call[d] BY DEF ClientInv
<1>5. \A d \in Request : CallInv(d)' BY <1>3, <1>4 DEF ClientInv, CallInv, Busy
<1> QED BY <1>1, <1>5 DEF ClientInv

LEMMA NoCallTyped == NoCall \in CallRecord
BY DEF NoCall, CallRecord, Status

\* A call that returns, with another answer or without.
LEMMA ReturnKeeps ==
  ASSUME ClientInv, NEW c \in Request, call' = [call EXCEPT ![c] = NoCall],
         NEW r \in ServedRecord, r.answers <= 1, r.attempts <= MaxRetries + 1,
         served' = [served EXCEPT ![c] = r]
  PROVE  ClientInv'
<1>1. call' \in [Request -> CallRecord] /\ served' \in [Request -> ServedRecord]
  BY NoCallTyped DEF ClientInv
<1>2. call'[c].at = "idle" /\ served'[c] = r BY DEF ClientInv, NoCall
<1>3. CallInv(c)' BY <1>2 DEF CallInv, Busy
<1>4. \A d \in Request \ {c} : call'[d] = call[d] /\ served'[d] = served[d] BY DEF ClientInv
<1>5. \A d \in Request : CallInv(d)' BY <1>3, <1>4 DEF ClientInv, CallInv, Busy
<1> QED BY <1>1, <1>5 DEF ClientInv

-----------------------------------------------------------------------------
LEMMA InitInv == Init => ClientInv
<1>1. [answers |-> 0, attempts |-> 0] \in ServedRecord BY DEF ServedRecord
<1>2. NoCall.at = "idle" BY DEF NoCall
<1> QED BY <1>1, <1>2, NoCallTyped, ClientAssumption
        DEF Init, ClientInit, ClientInv, CallInv, Busy

LEMMA BeginKeeps == ASSUME ClientInv, NEW c \in Request, Begin(c) PROVE ClientInv'
<1> DEFINE q == [at |-> "headers", attempt |-> 1, status |-> "ok", timer |-> Timeout,
                 backoff |-> BaseBackoff, wait |-> 0, left |-> ProxyTimeout]
           r == [answers |-> 0, attempts |-> 1]
<1>1. MaxRetries \in Nat /\ Timeout \in Nat /\ BaseBackoff \in Nat /\ ProxyTimeout \in Nat
  BY ClientAssumption
<1>2. q \in CallRecord /\ r \in ServedRecord BY <1>1 DEF CallRecord, Status, ServedRecord
<1>3. call' = [call EXCEPT ![c] = q] /\ served' = [served EXCEPT ![c] = r] BY DEF Begin
<1>4. call' \in [Request -> CallRecord] /\ served' \in [Request -> ServedRecord]
  BY <1>2, <1>3 DEF ClientInv
<1>5. call'[c] = q /\ served'[c] = r BY <1>3 DEF ClientInv
<1>6. CallInv(c)' BY <1>1, <1>5 DEF CallInv, Busy
<1>7. \A d \in Request \ {c} : call'[d] = call[d] /\ served'[d] = served[d] BY <1>3 DEF ClientInv
<1>8. \A d \in Request : CallInv(d)' BY <1>6, <1>7 DEF ClientInv, CallInv, Busy
<1> QED BY <1>4, <1>8 DEF ClientInv

LEMMA HeadersKeeps == ASSUME ClientInv, NEW c \in Request, Headers(c) PROVE ClientInv'
<1> DEFINE p == call[c]
<1>1. PICK s \in Status : call' = [call EXCEPT ![c].at = "body", ![c].status = s] BY DEF Headers
<1> DEFINE q == [p EXCEPT !.at = "body", !.status = s]
<1>2. p \in CallRecord /\ p.at = "headers" /\ Busy(c) /\ p.left >= 0
  BY DEF Headers, ClientInv, CallInv, Busy
<1>3. call' = [call EXCEPT ![c] = q] BY <1>1
<1>4. p = [at |-> p.at, attempt |-> p.attempt, status |-> p.status, timer |-> p.timer,
           backoff |-> p.backoff, wait |-> p.wait, left |-> p.left]
  BY <1>2 DEF CallRecord
<1>5. q \in CallRecord
  <2>1. DOMAIN q = DOMAIN p OBVIOUS
  <2> QED BY <2>1, <1>2, <1>4 DEF CallRecord
<1>6. q.at = "body" /\ q.attempt = p.attempt /\ q.left = p.left BY <1>2, <1>4 DEF CallRecord
<1> HIDE DEF q
<1> QED BY <1>2, <1>3, <1>5, <1>6, StageKeeps DEF Headers

LEMMA BodyKeeps == ASSUME ClientInv, NEW c \in Request, Body(c) PROVE ClientInv'
<1> DEFINE ok == call[c].status = "ok"
           r == [served[c] EXCEPT !.answers = IF ok THEN @ + 1 ELSE @]
<1>1. Busy(c) /\ served[c] \in ServedRecord /\ served[c].answers = 0
      /\ served[c].attempts <= MaxRetries + 1
  BY DEF Body, Busy, ClientInv, CallInv
<1>2. served' = [served EXCEPT ![c] = r] BY DEF Body
<1>3. r = [answers |-> IF ok THEN 1 ELSE 0, attempts |-> served[c].attempts]
  BY <1>1 DEF ServedRecord
<1>4. r \in ServedRecord /\ r.answers <= 1 /\ r.attempts <= MaxRetries + 1
  BY <1>1, <1>3 DEF ServedRecord
<1>5. CASE Return(c)
  <2> HIDE DEF r
  <2> QED BY <1>2, <1>4, <1>5, ReturnKeeps DEF Return
<1>6. CASE Fail(c, ok = TRUE /\ FALSE) \/ (~ok /\ Fail(c, call[c].status = "transient"))
  <2>1. CASE ~ok
    <3>1. r = served[c] BY <2>1, <1>1 DEF ServedRecord
    <3>2. served' = served BY <3>1, <1>2 DEF ClientInv
    <3>3. (call[c].status = "transient") \in BOOLEAN /\ (ok = TRUE /\ FALSE) \in BOOLEAN OBVIOUS
    <3> QED BY <1>1, <1>6, <3>2, <3>3, FailKeeps
  <2>2. CASE ok
    <3>1. Return(c) BY <2>2, <1>6 DEF Fail
    <3> QED BY <3>1, <1>5
  <2> QED BY <2>1, <2>2
<1>7. CASE ok /\ Fail(c, call[c].status = "transient")
  <2>1. Return(c) BY <1>7 DEF Fail
  <2> QED BY <2>1, <1>5
<1> QED BY <1>5, <1>6, <1>7 DEF Body

LEMMA CallKeeps == ASSUME ClientInv, NEW c \in Request, Client(c) PROVE ClientInv'
<1>1. CASE NoHeaders(c)
  <2>1. Busy(c) /\ served' = served BY <1>1 DEF NoHeaders, Busy
  <2>2. Fail(c, FALSE) \/ Fail(c, TRUE) BY <1>1 DEF NoHeaders
  <2> QED BY <2>1, <2>2, FailKeeps
<1>2. CASE BodyLost(c)
  <2>1. Busy(c) /\ served' = served /\ Fail(c, TRUE) BY <1>2 DEF BodyLost, Busy
  <2> QED BY <2>1, FailKeeps
<1>3. CASE Backoff(c)
  <2>1. CASE Return(c) /\ served' = served
    <3>1. served' = [served EXCEPT ![c] = served[c]] BY <2>1 DEF ClientInv
    <3>2. served[c] \in ServedRecord /\ served[c].answers <= 1
          /\ served[c].attempts <= MaxRetries + 1
      BY DEF ClientInv, CallInv
    <3> QED BY <2>1, <3>1, <3>2, ReturnKeeps DEF Return
  <2>2. CASE Attempt(c, call[c]) BY <1>3, <2>2, AttemptKeeps DEF Backoff
  <2> QED BY <1>3, <2>1, <2>2 DEF Backoff
<1> QED BY <1>1, <1>2, <1>3, HeadersKeeps, BodyKeeps DEF Client

LEMMA CancelKeeps == ASSUME ClientInv, NEW c \in Request, Cancel(c) PROVE ClientInv'
<1> DEFINE p == call[c]
           q == [p EXCEPT !.left = 0]
<1>1. p \in CallRecord /\ Busy(c) BY DEF Cancel, ClientInv
<1>2. call' = [call EXCEPT ![c] = q] /\ served' = served BY DEF Cancel
<1>3. p = [at |-> p.at, attempt |-> p.attempt, status |-> p.status, timer |-> p.timer,
           backoff |-> p.backoff, wait |-> p.wait, left |-> p.left]
  BY <1>1 DEF CallRecord
<1>4. q \in CallRecord
  <2>1. DOMAIN q = DOMAIN p OBVIOUS
  <2> QED BY <2>1, <1>1, <1>3 DEF CallRecord
<1>5. q.at = call[c].at /\ q.attempt = call[c].attempt /\ q.left >= 0
  BY <1>1, <1>3 DEF CallRecord
<1> HIDE DEF q, p
<1> QED BY <1>1, <1>2, <1>4, <1>5, StageKeeps

\* Whoever is still busy when time goes on has time left.
LEMMA TickKeeps == ASSUME ClientInv, ClientTick PROVE ClientInv'
<1>1. SUFFICES ASSUME NEW c \in Request
               PROVE  call'[c] \in CallRecord /\ CallInv(c)'
  <2>1. call' \in [Request -> CallRecord] BY <1>1 DEF ClientTick
  <2>2. \A c \in Request : CallInv(c)' BY <1>1
  <2> QED BY <2>1, <2>2 DEF ClientTick, ClientInv
<1> DEFINE p == call[c]
           q == [p EXCEPT !.timer = Pass(@), !.wait = Pass(@), !.left = Late(@)]
<1>2. p \in CallRecord /\ CallInv(c) /\ served' = served BY DEF ClientInv, ClientTick
<1>3. CASE ~Busy(c)
  <2>1. call'[c] = p BY <1>3 DEF ClientTick
  <2> QED BY <1>2, <2>1 DEF CallInv, Busy
<1>4. CASE Busy(c)
  <2>1. p.left > 0
    <3>1. ~Woken(c) /\ p.at \in {"headers", "body", "backoff"}
      BY <1>2, <1>4 DEF ClientTick, CallRecord, Busy
    <3>2. ~(p.left <= 0) BY <3>1 DEF Woken, Interrupted, BackoffOver
    <3> QED BY <1>2, <3>2 DEF CallRecord
  <2>2. call'[c] = q BY <1>4 DEF ClientTick
  <2>3. p = [at |-> p.at, attempt |-> p.attempt, status |-> p.status, timer |-> p.timer,
             backoff |-> p.backoff, wait |-> p.wait, left |-> p.left]
    BY <1>2 DEF CallRecord
  <2>4. Pass(p.timer) \in Nat /\ Pass(p.wait) \in Nat /\ Late(p.left) \in Int /\ Late(p.left) >= 0
    BY <1>2, <2>1 DEF CallRecord, Pass, Late
  <2>5. q \in CallRecord
    <3>1. DOMAIN q = DOMAIN p OBVIOUS
    <3> HIDE DEF Pass, Late
    <3> QED BY <3>1, <1>2, <2>3, <2>4 DEF CallRecord
  <2>6. q.at = p.at /\ q.attempt = p.attempt /\ q.left = Late(p.left)
    BY <1>2, <2>3 DEF CallRecord
  <2> QED BY <1>2, <1>4, <2>2, <2>4, <2>5, <2>6 DEF CallInv, Busy
<1> QED BY <1>3, <1>4

\* Answered: nothing of the call is left.
LEMMA AnswerKeeps == ASSUME ClientInv, NEW c \in Request, Answer(c) PROVE ClientInv'
<1> DEFINE r == [answers |-> 0, attempts |-> 0]
<1>1. call' = call /\ served' = [served EXCEPT ![c] = r] /\ ~Busy(c) BY DEF Answer
<1>2. r \in ServedRecord /\ MaxRetries \in Nat BY ClientAssumption DEF ServedRecord
<1>3. served' \in [Request -> ServedRecord] /\ served'[c] = r BY <1>1, <1>2 DEF ClientInv
<1>4. \A d \in Request \ {c} : served'[d] = served[d] BY <1>1 DEF ClientInv
<1>5. CallInv(c)' BY <1>1, <1>2, <1>3 DEF ClientInv, CallInv, Busy
<1>6. \A d \in Request : CallInv(d)' BY <1>1, <1>4, <1>5 DEF ClientInv, CallInv, Busy
<1> QED BY <1>1, <1>3, <1>6 DEF ClientInv

LEMMA StepInv == ClientInv /\ [Next]_vars => ClientInv'
<1>1. SUFFICES ASSUME ClientInv, [Next]_vars PROVE ClientInv' OBVIOUS
<1>2. CASE UNCHANGED clientVars
  BY <1>1, <1>2 DEF clientVars, ClientInv, CallInv, Busy
<1>3. CASE Tick BY <1>1, <1>3, TickKeeps DEF Tick
<1>4. ASSUME NEW c \in Request, Throttle(c) PROVE ClientInv'
  BY <1>1, <1>2, <1>4, BeginKeeps DEF Throttle
<1>5. ASSUME NEW c \in Request, Call(c) PROVE ClientInv'
  BY <1>1, <1>5, CallKeeps DEF Call
<1>6. ASSUME NEW c \in Request, Answer(c) PROVE ClientInv'
  BY <1>1, <1>6, AnswerKeeps
<1>7. ASSUME NEW c \in Request, Leave(c) PROVE ClientInv'
  BY <1>1, <1>7, CancelKeeps DEF Leave
<1>8. ASSUME NEW c \in Request, Arrive(c) \/ Limiter(c) PROVE ClientInv'
  BY <1>2, <1>8 DEF Arrive, Limiter
<1>9. CASE UNCHANGED vars BY <1>2, <1>9 DEF vars
<1> QED BY <1>1, <1>2, <1>3, <1>4, <1>5, <1>6, <1>7, <1>8, <1>9 DEF Next, Serve

LEMMA InvHolds == Spec => []ClientInv
BY InitInv, StepInv, PTL DEF Spec

\* The provider gets a request at most MaxRetries + 1 times, and not again after an
\* answer, for any provider and any timing (client.go:91).
THEOREM RetriesBounded == Spec => []CallsBounded
<1>1. ClientInv => CallsBounded
  <2>1. SUFFICES ASSUME ClientInv, NEW c \in Request
                 PROVE  /\ served[c].attempts <= MaxRetries + 1
                        /\ served[c].answers <= 1
                        /\ served[c].answers = 1 => ~Busy(c)
    BY DEF CallsBounded
  <2>2. CallInv(c) BY <2>1 DEF ClientInv
  <2> QED BY <2>2 DEF CallInv
<1> QED BY <1>1, InvHolds, PTL

\* No call outlives its request's context, whatever the timeouts and backoffs are
\* (client.go:94, router.go:68).
THEOREM ContextHonoured == Spec => []AnsweredInTime
<1>1. ClientInv => AnsweredInTime BY DEF ClientInv, CallInv, AnsweredInTime
<1> QED BY <1>1, InvHolds, PTL

-----------------------------------------------------------------------------
(* Limits. *)

\* Finitely many numbers have a greatest one: the numbers above it are fewest.
LEMMA MaxOf ==
  ASSUME NEW T \in SUBSET Nat, IsFiniteSet(T), T # {}
  PROVE  Max(T) \in T /\ \A u \in T : u <= Max(T)
<1> DEFINE above(t) == {u \in T : t < u}
           N == {Cardinality(above(t)) : t \in T}
           R == OpToRel(<, Nat)
<1>1. ASSUME NEW t \in T PROVE IsFiniteSet(above(t)) /\ Cardinality(above(t)) \in Nat
  <2>1. IsFiniteSet(above(t)) BY FS_Subset
  <2> QED BY <2>1, FS_CardinalityType
<1>2. N \subseteq Nat /\ N # {} BY <1>1
<1>3. PICK x \in N : \A y \in N : ~(<<y, x>> \in R)
  <2>1. IsWellFoundedOn(R, Nat) BY NatLessThanWellFounded
  <2> HIDE DEF N, R
  <2> QED BY <1>2, <2>1, WFMin
<1>4. PICK t \in T : x = Cardinality(above(t)) OBVIOUS
<1>5. ASSUME NEW u \in T, t < u PROVE FALSE
  <2>1. above(u) \subseteq above(t)
    <3> SUFFICES ASSUME NEW v \in T, u < v PROVE t < v OBVIOUS
    <3>1. t \in Nat /\ u \in Nat /\ v \in Nat OBVIOUS
    <3> QED BY <3>1, <1>5
  <2>2. u \in above(t) /\ u \notin above(u) BY <1>5
  <2>3. Cardinality(above(u)) < Cardinality(above(t))
    <3> HIDE DEF above
    <3> QED BY <1>1, <2>1, <2>2, FS_Subset
  <2>4. Cardinality(above(u)) \in N /\ N \subseteq Nat BY <1>2
  <2>5. <<Cardinality(above(u)), x>> \notin R BY <1>3, <2>4
  <2> HIDE DEF above, N
  <2> QED BY <1>2, <1>4, <2>3, <2>4, <2>5 DEF OpToRel
<1>6. \A u \in T : u <= t BY <1>5
<1> QED BY <1>6 DEF Max

LEMMA MinOf ==
  ASSUME NEW x \in Nat, NEW y \in Nat
  PROVE  /\ Min({x, y}) \in Nat /\ Min({x, y}) <= x /\ Min({x, y}) <= y
         /\ Min({x, y}) = x \/ Min({x, y}) = y
<1>1. \E m \in {x, y} : \A z \in {x, y} : m <= z OBVIOUS
<1>2. Min({x, y}) \in {x, y} /\ \A z \in {x, y} : Min({x, y}) <= z BY <1>1 DEF Min
<1> QED BY <1>2

\* Limits are positive, a burst admits a request, and they are finitely many.
LEMMA LimitsTyped ==
  ASSUME NEW k \in Bucketed
  PROVE  /\ \A f \in LimitsOf(k) : /\ f.rate \in Nat /\ f.burst \in Nat /\ f.burst >= Cost
                                   /\ f = [rate |-> f.rate, burst |-> f.burst]
         /\ IsFiniteSet(LimitsOf(k))
         /\ Cost \in Nat \ {0} /\ IdleTTL \in Nat \ {0} /\ Horizon \in Nat \ {0}
<1> DEFINE L == LimitsOf(k)
           O == Overrides \cup {Unset}
<1>1. \A own \in O : own.rps \in Nat /\ own.burst \in Nat BY OverridesAssumption DEF Unset
<1>2. \A f \in L : f.rate \in Nat /\ f.burst \in Nat /\ f = [rate |-> f.rate, burst |-> f.burst]
  <2>1. CASE k \in Webhook BY <2>1, RatesAssumption DEF LimitsOf, AlertLimits
  <2>2. CASE k \notin Webhook BY <1>1, <2>2, RatesAssumption DEF LimitsOf, InForce
  <2> QED BY <2>1, <2>2
<1>3. IsFiniteSet(L)
  <2>1. CASE k \in Webhook BY <2>1, FS_Singleton DEF LimitsOf
  <2>2. CASE k \notin Webhook
    <3> DEFINE g == [own \in O |-> InForce(own)]
    <3>1. IsFiniteSet(O) BY OverridesAssumption, FS_AddElement
    <3>2. g \in Surjection(O, L) BY <2>2 DEF LimitsOf, Surjection
    <3> QED BY <3>1, <3>2, FS_Surjection
  <2> QED BY <2>1, <2>2
<1>7. \A f \in L : f.burst >= Cost BY BurstAssumption DEF L
<1> QED BY <1>2, <1>3, <1>7, RatesAssumption DEF L

\* Finitely many numbers, and none at all, have a largest one with 0.
LEMMA LargestOf ==
  ASSUME NEW T, IsFiniteSet(T), NEW h \in [T -> Nat]
  PROVE  LET V == {0} \cup {h[f] : f \in T}
         IN  Max(V) \in V /\ Max(V) \in Nat /\ \A f \in T : h[f] <= Max(V)
<1> DEFINE U == {h[f] : f \in T}
           V == {0} \cup U
<1>1. h \in Surjection(T, U) BY DEF Surjection
<1>2. IsFiniteSet(U) BY <1>1, FS_Surjection
<1>3. V = U \cup {0} OBVIOUS
<1>4. IsFiniteSet(V)
  <2> HIDE DEF V, U
  <2> QED BY <1>2, <1>3, FS_AddElement
<1>5. V \subseteq Nat /\ V # {} OBVIOUS
<1>6. Max(V) \in V /\ \A u \in V : u <= Max(V)
  <2> HIDE DEF V
  <2> QED BY <1>4, <1>5, MaxOf
<1> QED BY <1>5, <1>6

\* The refills of n ticks.
LEMMA Refills ==
  ASSUME NEW m \in Nat, NEW n \in Nat, NEW x \in Nat, NEW y \in Nat
  PROVE  /\ m * x \in Nat /\ (m + 1) * x = m * x + x /\ (m + n) * x = m * x + n * x
         /\ m <= n => m * x <= n * x
         /\ x <= y => m * x <= m * y
<1>1. m * x \in Nat /\ (m + 1) * x = m * x + x /\ (m + n) * x = m * x + n * x OBVIOUS
<1>2. ASSUME m <= n PROVE m * x <= n * x
  <2>1. PICK d \in Nat : n = m + d
    <3>1. n - m \in Nat /\ n = m + (n - m) BY <1>2
    <3> QED BY <3>1
  <2>2. n * x = m * x + d * x /\ d * x \in Nat /\ m * x \in Nat BY <2>1
  <2> QED BY <2>2
<1>3. ASSUME x <= y PROVE m * x <= m * y
  <2>1. PICK d \in Nat : y = x + d
    <3>1. y - x \in Nat /\ y = x + (y - x) BY <1>3
    <3> QED BY <3>1
  <2>2. m * y = m * x + m * d /\ m * d \in Nat /\ m * x \in Nat BY <2>1
  <2> QED BY <2>2
<1> QED BY <1>1, <1>2, <1>3

-----------------------------------------------------------------------------
(* One window. *)

\* A window of key k: its limits are k's.
Windows(k) == {w \in Window : w.limits \subseteq LimitsOf(k)}
L == IdleTTL + 1

LEMMA Largest ==
  ASSUME NEW k \in Bucketed, NEW w \in Windows(k)
  PROVE  /\ LargestBurst(w) \in Nat /\ LargestRate(w) \in Nat
         /\ LargestBurst(w) \in {0} \cup {f.burst : f \in w.limits}
         /\ LargestRate(w) \in {0} \cup {f.rate : f \in w.limits}
         /\ \A f \in w.limits : f.burst <= LargestBurst(w) /\ f.rate <= LargestRate(w)
<1> DEFINE T == w.limits
<1>1. IsFiniteSet(T) /\ \A f \in T : f.rate \in Nat /\ f.burst \in Nat
  <2>1. T \subseteq LimitsOf(k) BY DEF Windows
  <2> QED BY <2>1, LimitsTyped, FS_Subset
<1> HIDE DEF T
<1>2. LET V == {0} \cup {f.burst : f \in T}
      IN  Max(V) \in V /\ Max(V) \in Nat /\ \A f \in T : f.burst <= Max(V)
  <2> DEFINE h == [f \in T |-> f.burst]
  <2>1. h \in [T -> Nat] BY <1>1
  <2>2. {h[f] : f \in T} = {f.burst : f \in T} /\ \A f \in T : h[f] = f.burst OBVIOUS
  <2> HIDE DEF h
  <2>3. PICK V : V = {0} \cup {h[f] : f \in T} OBVIOUS
  <2>4. Max(V) \in V /\ Max(V) \in Nat /\ \A f \in T : h[f] <= Max(V)
    BY <1>1, <2>1, <2>3, LargestOf
  <2>5. V = {0} \cup {f.burst : f \in T} BY <2>2, <2>3
  <2> QED BY <2>2, <2>4, <2>5
<1>3. LET V == {0} \cup {f.rate : f \in T}
      IN  Max(V) \in V /\ Max(V) \in Nat /\ \A f \in T : f.rate <= Max(V)
  <2> DEFINE h == [f \in T |-> f.rate]
  <2>1. h \in [T -> Nat] BY <1>1
  <2>2. {h[f] : f \in T} = {f.rate : f \in T} /\ \A f \in T : h[f] = f.rate OBVIOUS
  <2> HIDE DEF h
  <2>3. PICK V : V = {0} \cup {h[f] : f \in T} OBVIOUS
  <2>4. Max(V) \in V /\ Max(V) \in Nat /\ \A f \in T : h[f] <= Max(V)
    BY <1>1, <2>1, <2>3, LargestOf
  <2>5. V = {0} \cup {f.rate : f \in T} BY <2>2, <2>3
  <2> QED BY <2>2, <2>4, <2>5
<1> QED BY <1>2, <1>3 DEF LargestBurst, LargestRate, T

LEMMA MaxOfTwo ==
  ASSUME NEW x \in Int
  PROVE  Max({0, x}) \in Nat /\ Max({0, x}) >= x /\ (Max({0, x}) = 0 \/ Max({0, x}) = x)
<1>1. \E m \in {0, x} : \A z \in {0, x} : m >= z OBVIOUS
<1>2. Max({0, x}) \in {0, x} /\ \A z \in {0, x} : Max({0, x}) >= z BY <1>1 DEF Max
<1> QED BY <1>2

\* What a key is entitled to, without its products.
LEMMA EntitledOf ==
  ASSUME NEW k \in Bucketed, NEW w \in Windows(k)
  PROVE  /\ Gain(w) \in Nat /\ L * LargestRate(w) \in Nat
         /\ Gain(w) + L * LargestRate(w) >= LargestBurst(w)
         /\ \A m \in Nat : /\ Entitled(w, m) \in Nat /\ Entitled(w, m) >= LargestBurst(w)
                           /\ Entitled(w, m + 1) = Entitled(w, m) + LargestRate(w)
                           /\ Entitled(w, m + L) = Entitled(w, m) + L * LargestRate(w)
<1>1. PICK mb \in Nat : mb = LargestBurst(w) BY Largest
<1>2. PICK mr \in Nat : mr = LargestRate(w) BY Largest
<1>3. PICK e \in Nat : e = w.evicted BY DEF Windows, Window
<1>4. PICK l \in Nat : l = L BY LimitsTyped DEF L
<1>5. PICK x \in Nat : x = l * mr BY Refills
<1>6. PICK g : g = Gain(w) OBVIOUS
<1>7. g \in Nat /\ g >= mb - x /\ (g = 0 \/ g = mb - x)
  <2>1. g = Max({0, mb - x}) BY <1>1, <1>2, <1>4, <1>5, <1>6 DEF Gain, L
  <2> QED BY <2>1, MaxOfTwo
<1>8. PICK y \in Nat : y = e * g BY <1>7, Refills
<1>9. ASSUME NEW m \in Nat
      PROVE  /\ Entitled(w, m) \in Nat /\ Entitled(w, m) >= mb
             /\ Entitled(w, m + 1) = Entitled(w, m) + mr
             /\ Entitled(w, m + l) = Entitled(w, m) + x
  <2>1. PICK z \in Nat : z = m * mr BY Refills
  <2>2. (m + 1) * mr = z + mr /\ (m + l) * mr = z + x BY <2>1, <1>5, Refills
  <2>3. Entitled(w, m) = mb + z + y BY <1>1, <1>2, <1>3, <1>6, <1>8, <2>1 DEF Entitled
  <2>4. Entitled(w, m + 1) = mb + (z + mr) + y
    BY <1>1, <1>2, <1>3, <1>6, <1>8, <2>2 DEF Entitled
  <2>5. Entitled(w, m + l) = mb + (z + x) + y
    BY <1>1, <1>2, <1>3, <1>6, <1>8, <2>2 DEF Entitled
  <2> QED BY <2>3, <2>4, <2>5
<1>10. g + x >= mb BY <1>7
<1> QED BY <1>1, <1>2, <1>4, <1>5, <1>6, <1>7, <1>9, <1>10

LEMMA EntitledGrows ==
  ASSUME NEW k \in Bucketed, NEW w \in Windows(k), NEW m \in Nat, NEW n \in Nat, m <= n
  PROVE  Entitled(w, m) <= Entitled(w, n)
<1>1. PICK mr \in Nat : mr = LargestRate(w) BY Largest
<1>2. PICK x, y : x = m * mr /\ y = n * mr OBVIOUS
<1>3. x \in Nat /\ y \in Nat /\ x <= y BY <1>2, Refills
<1>4. PICK c : c = w.evicted * Gain(w) OBVIOUS
<1>5. c \in Nat
  <2>1. w.evicted \in Nat /\ Gain(w) \in Nat BY EntitledOf DEF Windows, Window
  <2> QED BY <2>1, <1>4, Refills
<1>6. PICK b \in Nat : b = LargestBurst(w) BY Largest
<1>7. Entitled(w, m) = b + x + c /\ Entitled(w, n) = b + y + c
  BY <1>1, <1>2, <1>4, <1>6 DEF Entitled
<1> QED BY <1>3, <1>5, <1>7

\* More limits in a window entitle to no less, beyond their burst.
LEMMA LimitsGrow ==
  ASSUME NEW k \in Bucketed, NEW w \in Windows(k), NEW v \in Windows(k),
         w.limits \subseteq v.limits, v.evicted = w.evicted,
         NEW m \in Nat, w.evicted * L <= m
  PROVE  /\ LargestBurst(w) <= LargestBurst(v)
         /\ Entitled(w, m) + LargestBurst(v) <= Entitled(v, m) + LargestBurst(w)
<1>1. PICK b \in Nat : b = LargestBurst(w) BY Largest
<1>2. PICK c \in Nat : c = LargestBurst(v) BY Largest
<1>3. PICK r \in Nat : r = LargestRate(w) BY Largest
<1>4. PICK s \in Nat : s = LargestRate(v) BY Largest
<1>5. b <= c
  <2>1. b = 0 \/ \E f \in w.limits : b = f.burst BY <1>1, Largest
  <2>2. \A f \in w.limits : f.burst <= c BY <1>2, Largest
  <2> QED BY <2>1, <2>2
<1>6. r <= s
  <2>1. r = 0 \/ \E f \in w.limits : r = f.rate BY <1>3, Largest
  <2>2. \A f \in w.limits : f.rate <= s BY <1>4, Largest
  <2> QED BY <2>1, <2>2
<1>7. PICK e \in Nat : e = w.evicted BY DEF Windows, Window
<1>8. PICK l \in Nat : l = L BY LimitsTyped DEF L
<1>9. PICK g, h : g = Gain(w) /\ h = Gain(v) OBVIOUS
<1>10. PICK x, y : x = l * r /\ y = l * s OBVIOUS
<1>11. x \in Nat /\ y \in Nat /\ x <= y BY <1>6, <1>10, Refills
<1>12. g \in Nat /\ h \in Nat /\ (g = 0 \/ g = b - x) /\ (h >= c - y)
  <2>1. g = Max({0, b - x}) BY <1>1, <1>3, <1>8, <1>9, <1>10 DEF Gain, L
  <2>2. h = Max({0, c - y}) BY <1>2, <1>4, <1>8, <1>9, <1>10 DEF Gain, L
  <2>3. b - x \in Int /\ c - y \in Int BY <1>11
  <2> QED BY <2>1, <2>2, <2>3, MaxOfTwo
<1>13. x + g <= y + h BY <1>5, <1>11, <1>12
<1>14. PICK d \in Nat : m = e * l + d
  <2>1. e * l \in Nat BY Refills
  <2>2. PICK p \in Nat : p = e * l BY <2>1
  <2>3. p <= m BY <1>7, <1>8, <2>2
  <2>4. m - p \in Nat /\ m = p + (m - p) BY <2>3
  <2> QED BY <2>2, <2>4
<1>15. PICK p, q : p = d * r /\ q = d * s OBVIOUS
<1>16. p \in Nat /\ q \in Nat /\ p <= q BY <1>6, <1>15, Refills
<1>17. PICK t, u : t = e * (x + g) /\ u = e * (y + h) OBVIOUS
<1>18. t \in Nat /\ u \in Nat /\ t <= u
  <2>1. x + g \in Nat /\ y + h \in Nat BY <1>11, <1>12
  <2> QED BY <1>13, <1>17, <2>1, Refills
<1>19. m * r + e * g = p + t
  <2>1. m * r = (e * l) * r + d * r BY <1>14, Refills
  <2>2. (e * l) * r = e * x BY <1>10
  <2>3. e * (x + g) = e * x + e * g BY <1>11, <1>12
  <2>4. e * x \in Nat /\ e * g \in Nat BY <1>11, <1>12, Refills
  <2> QED BY <2>1, <2>2, <2>3, <2>4, <1>15, <1>16, <1>17
<1>20. m * s + e * h = q + u
  <2>1. m * s = (e * l) * s + d * s BY <1>14, Refills
  <2>2. (e * l) * s = e * y BY <1>10
  <2>3. e * (y + h) = e * y + e * h BY <1>11, <1>12
  <2>4. e * y \in Nat /\ e * h \in Nat BY <1>11, <1>12, Refills
  <2> QED BY <2>1, <2>2, <2>3, <2>4, <1>15, <1>16, <1>17
<1>21. Entitled(w, m) = b + (p + t)
  <2>1. Entitled(w, m) = b + m * r + e * g BY <1>1, <1>3, <1>7, <1>9 DEF Entitled
  <2>2. m * r \in Nat /\ e * g \in Nat BY <1>12, Refills
  <2> QED BY <2>1, <2>2, <1>19
<1>22. Entitled(v, m) = c + (q + u)
  <2>1. Entitled(v, m) = c + m * s + e * h BY <1>2, <1>4, <1>7, <1>9 DEF Entitled
  <2>2. m * s \in Nat /\ e * h \in Nat BY <1>12, Refills
  <2> QED BY <2>1, <2>2, <1>20
<1>23. Entitled(w, m) + c <= Entitled(v, m) + b BY <1>16, <1>18, <1>21, <1>22
<1> QED BY <1>1, <1>2, <1>5, <1>23

-----------------------------------------------------------------------------
(* One bucket, seen in one window. *)

Bucket == [tokens : Nat, rate : Nat, burst : Nat, idle : Nat]
Admissions == [1..Horizon -> Window]

LEMMA NoBucketTyped == NoBucket \in Bucket /\ NoBucket.burst = 0 /\ NoBucket.idle = 0
BY DEF NoBucket, Bucket

\* A bucket that exists has a burst.
LEMMA BucketExists ==
  ASSUME NEW k \in Bucketed, NEW b, SetIn(b) \in LimitsOf(k)
  PROVE  b # NoBucket /\ b.rate \in Nat /\ b.burst \in Nat /\ b.burst >= Cost
<1>1. SetIn(b).rate = b.rate /\ SetIn(b).burst = b.burst BY DEF SetIn
<1>2. b.burst >= Cost /\ b.burst \in Nat /\ b.rate \in Nat /\ Cost \in Nat \ {0}
  BY <1>1, LimitsTyped
<1> QED BY <1>2, NoBucketTyped

LEMMA WithLimitsTyped ==
  ASSUME NEW k \in Bucketed, NEW w \in Windows(k), NEW f \in LimitsOf(k), NEW v, v = WithLimits(w, f)
  PROVE  /\ v \in Windows(k) /\ v.admitted = w.admitted /\ v.evicted = w.evicted
         /\ v.limits = w.limits \cup {f}
<1>1. v = [w EXCEPT !.limits = w.limits \cup {f}] BY DEF WithLimits
<1>2. f \in [rate : Nat, burst : Nat] BY LimitsTyped
<1>3. w \in Window /\ w.limits \subseteq LimitsOf(k) BY DEF Windows
<1>4. v = [admitted |-> w.admitted, evicted |-> w.evicted, limits |-> w.limits \cup {f}]
  BY <1>1, <1>3 DEF Window
<1>5. v \in Window BY <1>2, <1>3, <1>4 DEF Window
<1> QED BY <1>3, <1>4, <1>5 DEF Windows

\* A new bucket takes the place of none.
LEMMA NewSound ==
  ASSUME NEW k \in Bucketed, NEW w \in Windows(k), NEW n \in 1..Horizon, WindowSound(NoBucket, w, n),
         NEW f \in LimitsOf(k), NEW b, b = NewLimiter(f)
  PROVE  /\ b \in Bucket /\ b.idle = 0 /\ b # NoBucket /\ SetIn(b) = f
         /\ WindowSound(b, WithLimits(w, f), n)
<1>1. b = [tokens |-> f.burst, rate |-> f.rate, burst |-> f.burst, idle |-> 0] BY DEF NewLimiter
<1>2. /\ f.rate \in Nat /\ f.burst \in Nat /\ f.burst >= Cost
      /\ f = [rate |-> f.rate, burst |-> f.burst] /\ Cost \in Nat \ {0} /\ IdleTTL \in Nat
  BY LimitsTyped
<1>3. b.tokens = f.burst /\ b.rate = f.rate /\ b.burst = f.burst /\ b.idle = 0 BY <1>1
<1>4. b \in Bucket BY <1>1, <1>2 DEF Bucket
<1>5. SetIn(b) = f BY <1>2, <1>3 DEF SetIn
<1>6. b # NoBucket BY <1>5, BucketExists
<1>7. PICK v : v = WithLimits(w, f) OBVIOUS
<1>8. /\ v \in Windows(k) /\ v.admitted = w.admitted /\ v.evicted = w.evicted
      /\ v.limits = w.limits \cup {f}
  BY <1>7, WithLimitsTyped
<1>9. PICK m \in Nat : m = n - 1 /\ n = m + 1 /\ n - 1 - b.idle = m
  <2>1. n - 1 \in Nat /\ n = (n - 1) + 1 /\ n - 1 - b.idle = n - 1 BY <1>3
  <2> QED BY <2>1
<1>10. PICK x : x = Cost * w.admitted OBVIOUS
<1>11. x \in Nat
  <2>1. w.admitted \in Nat BY DEF Windows, Window
  <2> QED BY <1>2, <1>10, <2>1, Refills
<1>12. x + LargestBurst(w) <= Entitled(w, m) /\ w.evicted * L <= m
  BY <1>9, <1>10 DEF WindowSound, L
<1>13. /\ LargestBurst(w) <= LargestBurst(v)
       /\ Entitled(w, m) + LargestBurst(v) <= Entitled(v, m) + LargestBurst(w)
  BY <1>8, <1>12, LimitsGrow
<1>14. /\ LargestBurst(w) \in Nat /\ LargestBurst(v) \in Nat /\ f.burst <= LargestBurst(v)
       /\ Entitled(w, m) \in Nat /\ Entitled(v, m) \in Nat
  BY <1>8, Largest, EntitledOf
<1>15. x + b.tokens <= Entitled(v, m) /\ x <= Entitled(v, m)
  <2>1. x + LargestBurst(v) <= Entitled(v, m) BY <1>11, <1>12, <1>13, <1>14
  <2> QED BY <1>2, <1>3, <1>11, <1>14, <2>1
<1>16. WindowSound(b, v, n)
  <2>1. SetIn(b) \in v.limits BY <1>5, <1>8
  <2>2. Cost * v.admitted = x /\ v.evicted * (IdleTTL + 1) <= m BY <1>8, <1>10, <1>12 DEF L
  <2>3. ~(n <= b.idle) /\ b.tokens >= Cost BY <1>2, <1>3
  <2> QED BY <1>6, <1>9, <1>15, <2>1, <2>2, <2>3 DEF WindowSound
<1> QED BY <1>3, <1>4, <1>5, <1>6, <1>7, <1>16

\* Limits set in place leave the tokens alone.
LEMMA SetSound ==
  ASSUME NEW k \in Bucketed, NEW w \in Windows(k), NEW n \in 1..Horizon,
         NEW b \in Bucket, b # NoBucket, WindowSound(b, w, n),
         NEW f \in LimitsOf(k), NEW a \in Bucket,
         a.tokens = b.tokens, a.rate = f.rate, a.burst = f.burst, a.idle = 0
  PROVE  a # NoBucket /\ WindowSound(a, WithLimits(w, f), n)
<1>1. /\ f.rate \in Nat /\ f.burst \in Nat /\ f = [rate |-> f.rate, burst |-> f.burst]
      /\ Cost \in Nat \ {0} /\ IdleTTL \in Nat
  BY LimitsTyped
<1>2. SetIn(a) = f BY <1>1 DEF SetIn
<1>3. a # NoBucket BY <1>2, BucketExists
<1>4. PICK v : v = WithLimits(w, f) OBVIOUS
<1>5. /\ v \in Windows(k) /\ v.admitted = w.admitted /\ v.evicted = w.evicted
      /\ v.limits = w.limits \cup {f}
  BY <1>4, WithLimitsTyped
<1>6. PICK m \in Nat : m = n - 1 /\ n = m + 1 /\ n - 1 - a.idle = m
  <2>1. n - 1 \in Nat /\ n = (n - 1) + 1 /\ n - 1 - a.idle = n - 1 OBVIOUS
  <2> QED BY <2>1
<1>7. PICK x : x = Cost * w.admitted OBVIOUS
<1>8. x \in Nat /\ b.tokens \in Nat /\ b.idle \in Nat /\ w.evicted \in Nat
  <2>1. w.admitted \in Nat /\ w.evicted \in Nat BY DEF Windows, Window
  <2> QED BY <1>1, <1>7, <2>1, Refills DEF Bucket
<1>9. x + b.tokens <= Entitled(w, m) BY <1>6, <1>7 DEF WindowSound
<1>10. w.evicted * L <= m
  <2>1. PICK p : p = w.evicted * L OBVIOUS
  <2>2. L \in Nat BY <1>1 DEF L
  <2>3. p \in Nat BY <1>8, <2>1, <2>2, Refills
  <2>4. CASE n <= b.idle
    <3>1. w.evicted = 0 BY <2>4 DEF WindowSound
    <3>2. p = 0 BY <2>1, <2>2, <3>1
    <3> QED BY <2>1, <3>2
  <2>5. CASE n > b.idle
    <3>1. p <= n - 1 - b.idle BY <2>1, <2>5 DEF WindowSound, L
    <3> QED BY <1>6, <1>8, <2>1, <2>3, <3>1
  <2> QED BY <2>4, <2>5, <1>8
<1>11. /\ LargestBurst(w) <= LargestBurst(v)
       /\ Entitled(w, m) + LargestBurst(v) <= Entitled(v, m) + LargestBurst(w)
  BY <1>5, <1>10, LimitsGrow
<1>12. /\ LargestBurst(w) \in Nat /\ LargestBurst(v) \in Nat
       /\ Entitled(w, m) \in Nat /\ Entitled(v, m) \in Nat
  BY <1>5, Largest, EntitledOf
<1>13. x + a.tokens <= Entitled(v, m) /\ x <= Entitled(v, m) BY <1>8, <1>9, <1>11, <1>12
<1>14. WindowSound(a, v, n)
  <2>1. SetIn(a) \in v.limits BY <1>2, <1>5
  <2>2. Cost * v.admitted = x /\ v.evicted * (IdleTTL + 1) <= m BY <1>5, <1>7, <1>10 DEF L
  <2>3. ~(n <= a.idle) OBVIOUS
  <2>4. v.admitted = 0 => a.tokens >= Cost \/ \E g \in v.limits : a.tokens >= (n - 1) * g.rate
    BY <1>5 DEF WindowSound
  <2> QED BY <1>3, <1>6, <1>13, <2>1, <2>2, <2>3, <2>4 DEF WindowSound
<1> QED BY <1>3, <1>4, <1>14

\* An admission costs as many tokens as it counts.
LEMMA AllowSound ==
  ASSUME NEW k \in Bucketed, NEW w \in Windows(k), NEW n \in 1..Horizon,
         NEW b \in Bucket, SetIn(b) \in LimitsOf(k), b.idle = 0, WindowSound(b, w, n)
  PROVE  /\ Taken(b) \in Bucket /\ Taken(b).idle = 0 /\ Taken(b) # NoBucket
         /\ Counted(w, b) \in Windows(k) /\ WindowSound(Taken(b), Counted(w, b), n)
<1>1. /\ Cost \in Nat \ {0} /\ IdleTTL \in Nat /\ b # NoBucket
      /\ b.rate \in Nat /\ b.burst \in Nat /\ b.burst >= Cost /\ b.tokens \in Nat
  BY LimitsTyped, BucketExists DEF Bucket
<1>2. PICK t : t = Tokens(b) OBVIOUS
<1>3. t \in Nat /\ t <= b.tokens /\ (t = b.tokens \/ t = b.burst) BY <1>1, <1>2, MinOf DEF Tokens
<1>4. Admits(b) <=> t >= Cost BY <1>2 DEF Admits
<1>5. PICK a : a = Taken(b) OBVIOUS
<1>6. a = [b EXCEPT !.tokens = t - IF t >= Cost THEN Cost ELSE 0] BY <1>2, <1>4, <1>5 DEF Taken
<1>7. a.rate = b.rate /\ a.burst = b.burst /\ a.idle = 0
      /\ a.tokens = t - IF t >= Cost THEN Cost ELSE 0
  BY <1>6 DEF Bucket
<1>8. a.tokens \in Nat BY <1>1, <1>3, <1>7
<1>9. a \in Bucket BY <1>6, <1>7, <1>8 DEF Bucket
<1>10. SetIn(a) = SetIn(b) /\ a # NoBucket
  <2>1. SetIn(a) = SetIn(b) BY <1>7 DEF SetIn
  <2> QED BY <2>1, BucketExists
<1>11. PICK v : v = Counted(w, b) OBVIOUS
<1>12. w \in Window /\ w.limits \subseteq LimitsOf(k) BY DEF Windows
<1>13. v = [admitted |-> w.admitted + IF t >= Cost THEN 1 ELSE 0, evicted |-> w.evicted,
            limits |-> w.limits]
  BY <1>4, <1>11, <1>12 DEF Counted, Window
<1>14. v \in Windows(k) BY <1>12, <1>13 DEF Windows, Window
<1>15. PICK r \in Nat : r = w.admitted BY <1>12 DEF Window
<1>16. v.admitted = (r + IF t >= Cost THEN 1 ELSE 0) /\ v.evicted = w.evicted /\ v.limits = w.limits
  BY <1>13, <1>15
<1>17. PICK m \in Nat : m = n - 1 /\ n - 1 - b.idle = m /\ n - 1 - a.idle = m
  <2>1. n - 1 \in Nat /\ n - 1 - b.idle = n - 1 /\ n - 1 - a.idle = n - 1 BY <1>7
  <2> QED BY <2>1
<1>18. PICK x : x = Cost * r OBVIOUS
<1>19. x \in Nat BY <1>1, <1>18, Refills
<1>20. PICK E : E = Entitled(w, m) OBVIOUS
<1>21. E \in Nat /\ Entitled(v, m) = E
  <2>1. LargestBurst(v) = LargestBurst(w) /\ LargestRate(v) = LargestRate(w)
    BY <1>16 DEF LargestBurst, LargestRate
  <2>2. Gain(v) = Gain(w) BY <2>1 DEF Gain
  <2>3. Entitled(v, m) = Entitled(w, m) BY <1>16, <2>1, <2>2 DEF Entitled
  <2> QED BY <1>20, <2>3, EntitledOf
<1>22. x + b.tokens <= E BY <1>1, <1>15, <1>17, <1>18, <1>20 DEF WindowSound
<1>23. PICK z : z = Cost * v.admitted OBVIOUS
<1>24. z \in Nat /\ z + a.tokens = x + t
  <2>1. CASE t >= Cost
    <3>1. v.admitted = r + 1 /\ a.tokens = t - Cost BY <2>1, <1>7, <1>16
    <3>2. Cost * (r + 1) = x + Cost BY <1>1, <1>18
    <3>3. z = x + Cost BY <1>23, <3>1, <3>2
    <3> QED BY <3>1, <3>3, <1>1, <1>3, <1>19
  <2>2. CASE ~(t >= Cost)
    <3>1. v.admitted = r /\ a.tokens = t BY <2>2, <1>3, <1>7, <1>16
    <3> QED BY <3>1, <1>18, <1>19, <1>23
  <2> QED BY <2>1, <2>2
<1>25. z + a.tokens <= E /\ z <= E BY <1>3, <1>8, <1>19, <1>21, <1>22, <1>24, <1>1
<1>26. ASSUME v.admitted = 0
       PROVE  a.tokens >= Cost \/ \E g \in v.limits : a.tokens >= (n - 1) * g.rate
  <2>1. w.admitted = 0 /\ ~(t >= Cost) BY <1>15, <1>16, <1>26
  <2>2. a.tokens = b.tokens BY <2>1, <1>1, <1>3, <1>7
  <2>3. b.tokens >= Cost \/ \E g \in w.limits : b.tokens >= (n - 1) * g.rate
    BY <1>1, <2>1 DEF WindowSound
  <2> QED BY <2>2, <2>3, <1>16
<1>27. WindowSound(a, v, n)
  <2>1. SetIn(a) \in v.limits BY <1>1, <1>10, <1>16 DEF WindowSound
  <2>2. v.evicted * (IdleTTL + 1) <= m BY <1>1, <1>16, <1>17 DEF WindowSound
  <2>3. ~(n <= a.idle) BY <1>7
  <2>4. Cost * v.admitted + a.tokens <= Entitled(v, m) /\ Cost * v.admitted <= Entitled(v, m)
    BY <1>21, <1>23, <1>25
  <2> QED BY <1>10, <1>17, <1>26, <2>1, <2>2, <2>3, <2>4 DEF WindowSound
<1> QED BY <1>5, <1>7, <1>9, <1>10, <1>11, <1>14, <1>27

\* A window that begins now is a window of the bucket.
LEMMA NewWindowTyped ==
  ASSUME NEW k \in Bucketed, NEW b, b = NoBucket \/ SetIn(b) \in LimitsOf(k)
  PROVE  NewWindow(b) \in Windows(k)
<1>1. PICK w : w = NewWindow(b) OBVIOUS
<1>2. PICK S : S = IF b = NoBucket THEN {} ELSE {SetIn(b)} OBVIOUS
<1>3. S \subseteq LimitsOf(k) BY <1>2
<1>4. S \subseteq [rate : Nat, burst : Nat]
  <2> SUFFICES ASSUME NEW f \in S PROVE f \in [rate : Nat, burst : Nat] OBVIOUS
  <2> QED BY <1>3, LimitsTyped
<1>5. w = [admitted |-> 0, evicted |-> 0, limits |-> S] BY <1>1, <1>2 DEF NewWindow
<1>6. w \in Window BY <1>4, <1>5 DEF Window
<1> QED BY <1>1, <1>3, <1>5, <1>6 DEF Windows

\* A tick begins a window in which nothing was admitted yet.
LEMMA FirstSound ==
  ASSUME NEW k \in Bucketed, NEW b \in Bucket, SetIn(b) \in LimitsOf(k),
         NEW a \in Bucket, a.tokens <= b.burst, a.rate = b.rate, a.burst = b.burst
  PROVE  WindowSound(a, NewWindow(b), 1)
<1>1. PICK w : w = NewWindow(b) OBVIOUS
<1>2. w \in Windows(k) BY <1>1, NewWindowTyped
<1>3. b # NoBucket /\ SetIn(a) = SetIn(b) /\ a # NoBucket
  <2>1. SetIn(a) = SetIn(b) BY DEF SetIn
  <2> QED BY <2>1, BucketExists
<1>4. w.admitted = 0 /\ w.evicted = 0 /\ w.limits = {SetIn(b)}
  BY <1>1, <1>3 DEF NewWindow
<1>5. Cost \in Nat /\ IdleTTL \in Nat /\ a.idle \in Nat /\ a.tokens \in Nat /\ a.rate \in Nat
      /\ b.burst \in Nat
  BY LimitsTyped DEF Bucket
<1>6. PICK mb \in Nat : mb = LargestBurst(w) BY <1>2, Largest
<1>7. b.burst <= mb
  <2>1. SetIn(b).burst <= mb BY <1>2, <1>4, <1>6, Largest
  <2> QED BY <2>1 DEF SetIn
<1>8. Entitled(w, 0) \in Nat /\ Entitled(w, 0) >= mb BY <1>2, <1>6, EntitledOf
<1>9. Cost * w.admitted = 0 /\ w.evicted * (IdleTTL + 1) = 0 BY <1>4, <1>5
<1>10. 1 - 1 = 0 /\ (1 > a.idle => 1 - 1 - a.idle = 0) BY <1>5
<1>11. a.tokens >= (1 - 1) * SetIn(b).rate
  <2>1. SetIn(b).rate \in Nat BY LimitsTyped
  <2>2. (1 - 1) * SetIn(b).rate = 0 BY <2>1
  <2> QED BY <1>5, <2>2
<1>12. Cost * w.admitted + a.tokens <= Entitled(w, 0) /\ Cost * w.admitted <= Entitled(w, 0)
  BY <1>5, <1>7, <1>8, <1>9
<1>13. \E f \in w.limits : a.tokens >= (1 - 1) * f.rate BY <1>4, <1>11
<1> QED BY <1>1, <1>3, <1>4, <1>9, <1>10, <1>12, <1>13 DEF WindowSound

\* A tick adds no more to a bucket than to its bound.
LEMMA RefillSound ==
  ASSUME NEW k \in Bucketed, NEW b \in Bucket, SetIn(b) \in LimitsOf(k),
         NEW w \in Windows(k), NEW p \in Nat, p \in 1..Horizon, WindowSound(b, w, p),
         NEW i \in Nat, i = 0 \/ i = b.idle + 1 \/ i = b.idle,
         NEW a \in Bucket, a.tokens = Min({b.burst, b.tokens + b.rate}),
         a.rate = b.rate, a.burst = b.burst, a.idle = i
  PROVE  WindowSound(a, w, p + 1)
<1>1. /\ Cost \in Nat \ {0} /\ IdleTTL \in Nat /\ b # NoBucket
      /\ b.rate \in Nat /\ b.burst \in Nat /\ b.burst >= Cost /\ b.tokens \in Nat /\ b.idle \in Nat
  BY LimitsTyped, BucketExists DEF Bucket
<1>2. PICK t : t = a.tokens OBVIOUS
<1>3. t \in Nat /\ t <= b.tokens + b.rate /\ (t = b.burst \/ t = b.tokens + b.rate)
  <2>1. b.tokens + b.rate \in Nat BY <1>1
  <2> QED BY <1>1, <1>2, <2>1, MinOf
<1>4. SetIn(a) = SetIn(b) /\ a # NoBucket
  <2>1. SetIn(a) = SetIn(b) BY DEF SetIn
  <2> QED BY <2>1, BucketExists
<1>5. SetIn(b) \in w.limits BY <1>1 DEF WindowSound
<1>6. PICK mr \in Nat : mr = LargestRate(w) /\ b.rate <= mr
  <2>1. LargestRate(w) \in Nat /\ SetIn(b).rate <= LargestRate(w) BY <1>5, Largest
  <2> QED BY <2>1 DEF SetIn
<1>7. PICK m \in Nat : m = p - 1 /\ p = m + 1 /\ (p + 1) - 1 = m + 1
  <2>1. p - 1 \in Nat /\ p = (p - 1) + 1 /\ (p + 1) - 1 = (p - 1) + 1 OBVIOUS
  <2> QED BY <2>1
<1>8. PICK x : x = Cost * w.admitted OBVIOUS
<1>9. x \in Nat /\ w.evicted \in Nat /\ w.admitted \in Nat
  <2>1. w.admitted \in Nat /\ w.evicted \in Nat BY DEF Windows, Window
  <2> QED BY <1>1, <1>8, <2>1, Refills
<1>10. x + t <= Entitled(w, m + 1)
  <2>1. x + b.tokens <= Entitled(w, m) BY <1>1, <1>7, <1>8 DEF WindowSound
  <2>2. Entitled(w, m) \in Nat /\ Entitled(w, m + 1) = Entitled(w, m) + mr BY <1>6, EntitledOf
  <2> QED BY <2>1, <2>2, <1>1, <1>3, <1>6, <1>9
<1>11. ASSUME p + 1 <= i PROVE w.admitted = 0 /\ w.evicted = 0
  <2>1. p <= b.idle BY <1>1, <1>11
  <2> QED BY <2>1, <1>1 DEF WindowSound
<1>12. ASSUME p + 1 > i
       PROVE  x <= Entitled(w, m + 1 - i) /\ w.evicted * L <= m + 1 - i
  <2>1. PICK j \in Nat : j = m + 1 - i
    <3>1. m + 1 - i \in Nat BY <1>7, <1>12
    <3> QED BY <3>1
  <2>2. Entitled(w, j) \in Nat BY EntitledOf
  <2>3. PICK y : y = w.evicted * L OBVIOUS
  <2>4. y \in Nat
    <3>1. L \in Nat BY <1>1 DEF L
    <3> QED BY <3>1, <2>3, <1>9, Refills
  <2>5. CASE p <= b.idle
    <3>1. w.admitted = 0 /\ w.evicted = 0 BY <2>5, <1>1 DEF WindowSound
    <3>2. x = 0 /\ y = 0
      <4>1. L \in Nat BY <1>1 DEF L
      <4> QED BY <3>1, <4>1, <1>1, <1>8, <2>3
    <3> QED BY <3>2, <2>1, <2>2, <2>3
  <2>6. CASE p > b.idle
    <3>1. PICK d \in Nat : d = p - 1 - b.idle
      <4>1. p - 1 - b.idle \in Nat BY <2>6, <1>1
      <4> QED BY <4>1
    <3>2. x <= Entitled(w, d) /\ y <= d
      BY <1>1, <1>8, <2>3, <2>6, <3>1 DEF WindowSound, L
    <3>3. d <= j BY <1>1, <1>7, <2>1, <3>1
    <3>4. Entitled(w, d) <= Entitled(w, j) /\ Entitled(w, d) \in Nat
      BY <3>3, EntitledGrows, EntitledOf
    <3>5. x <= Entitled(w, j) /\ y <= j BY <3>2, <3>3, <3>4, <2>2, <2>4, <1>9
    <3> QED BY <3>5, <2>1, <2>3
  <2> QED BY <2>5, <2>6, <1>1
<1>13. ASSUME w.admitted = 0
       PROVE  t >= Cost \/ \E g \in w.limits : t >= (m + 1) * g.rate
  <2>1. CASE t = b.burst BY <2>1, <1>1
  <2>2. CASE b.tokens >= Cost
    <3>1. t >= Cost BY <2>2, <1>1, <1>3
    <3> QED BY <3>1
  <2>3. CASE ~(b.tokens >= Cost) /\ t = b.tokens + b.rate
    <3>1. PICK g \in w.limits : b.tokens >= m * g.rate BY <1>1, <1>7, <1>13, <2>3 DEF WindowSound
    <3>2. PICK x1 \in Nat : x1 = g.rate
      <4>1. g \in LimitsOf(k) BY DEF Windows
      <4> QED BY <4>1, LimitsTyped
    <3>3. CASE x1 <= b.rate
      <4>1. PICK z : z = m * x1 OBVIOUS
      <4>2. z \in Nat /\ (m + 1) * x1 = z + x1 BY <4>1, Refills
      <4>3. z <= b.tokens BY <3>1, <3>2, <4>1
      <4>4. z + x1 <= t BY <4>2, <4>3, <2>3, <3>3, <1>1
      <4> QED BY <4>2, <4>4, <3>2
    <3>4. CASE b.rate <= x1
      <4>1. PICK z, u : z = m * b.rate /\ u = m * x1 OBVIOUS
      <4>2. z \in Nat /\ u \in Nat /\ z <= u /\ (m + 1) * b.rate = z + b.rate
        BY <4>1, <1>1, <3>4, Refills
      <4>3. u <= b.tokens BY <3>1, <3>2, <4>1
      <4>4. z + b.rate <= t BY <4>2, <4>3, <2>3, <1>1
      <4>5. SetIn(b).rate = b.rate BY DEF SetIn
      <4>6. t >= (m + 1) * SetIn(b).rate BY <4>2, <4>4, <4>5, <1>1, <1>3
      <4> QED BY <4>6, <1>5
    <3> QED BY <3>3, <3>4, <1>1
  <2> QED BY <2>1, <2>2, <2>3, <1>3
<1>14. (p + 1) - 1 - i = m + 1 - i BY <1>7
<1> QED BY <1>2, <1>4, <1>5, <1>7, <1>8, <1>10, <1>11, <1>12, <1>13, <1>14 DEF WindowSound, L

\* No bucket, a tick later.
LEMMA NoneSound ==
  ASSUME NEW k \in Bucketed, NEW w \in Windows(k), NEW p \in Nat, p \in 1..Horizon,
         WindowSound(NoBucket, w, p)
  PROVE  WindowSound(NoBucket, w, p + 1)
<1>1. PICK m \in Nat : m = p - 1 /\ (p + 1) - 1 = m + 1
  <2>1. p - 1 \in Nat /\ (p + 1) - 1 = (p - 1) + 1 OBVIOUS
  <2> QED BY <2>1
<1>2. Entitled(w, m) <= Entitled(w, m + 1) /\ Entitled(w, m) \in Nat /\ Entitled(w, m + 1) \in Nat
  <2>1. m + 1 \in Nat /\ m <= m + 1 OBVIOUS
  <2> QED BY <2>1, EntitledGrows, EntitledOf
<1>3. PICK x, y : x = Cost * w.admitted + LargestBurst(w) /\ y = w.evicted * (IdleTTL + 1) OBVIOUS
<1>4. x \in Nat /\ y \in Nat
  <2>1. w.admitted \in Nat /\ w.evicted \in Nat BY DEF Windows, Window
  <2>2. LargestBurst(w) \in Nat BY Largest
  <2>3. Cost \in Nat /\ IdleTTL + 1 \in Nat BY LimitsTyped
  <2>4. Cost * w.admitted \in Nat /\ w.evicted * (IdleTTL + 1) \in Nat BY <2>1, <2>3, Refills
  <2> QED BY <2>2, <2>4, <1>3
<1>5. x <= Entitled(w, m) /\ y <= m BY <1>1, <1>3 DEF WindowSound
<1>6. x <= Entitled(w, m + 1) /\ y <= m + 1 BY <1>2, <1>4, <1>5
<1> QED BY <1>1, <1>3, <1>6 DEF WindowSound

LEMMA FirstNone ==
  ASSUME NEW k \in Bucketed
  PROVE  WindowSound(NoBucket, NewWindow(NoBucket), 1)
<1>1. PICK w : w = NewWindow(NoBucket) OBVIOUS
<1>2. w \in Windows(k) BY <1>1, NewWindowTyped
<1>3. w.admitted = 0 /\ w.evicted = 0 BY <1>1 DEF NewWindow
<1>4. Cost \in Nat /\ IdleTTL \in Nat BY LimitsTyped
<1>5. Cost * w.admitted = 0 /\ w.evicted * (IdleTTL + 1) = 0 BY <1>3, <1>4
<1>6. LargestBurst(w) \in Nat /\ Entitled(w, 0) >= LargestBurst(w) BY <1>2, Largest, EntitledOf
<1>7. Cost * w.admitted + LargestBurst(w) <= Entitled(w, 1 - 1) BY <1>5, <1>6
<1>8. w.evicted * (IdleTTL + 1) <= 1 - 1 BY <1>5
<1> QED BY <1>1, <1>7, <1>8 DEF WindowSound

\* A bucket that has been idle for longer than IdleTTL gives way to none, which stands
\* for a full one: what that adds is the gain.
LEMMA EvictSound ==
  ASSUME NEW k \in Bucketed, NEW w \in Windows(k), NEW n \in 1..Horizon,
         NEW b \in Bucket, b # NoBucket, b.idle = IdleTTL + 1, WindowSound(b, w, n),
         NEW v, v = IF n > IdleTTL + 1 THEN [w EXCEPT !.evicted = @ + 1] ELSE w
  PROVE  v \in Windows(k) /\ WindowSound(NoBucket, v, n)
<1>1. Cost \in Nat \ {0} /\ IdleTTL \in Nat /\ L \in Nat BY LimitsTyped DEF L
<1>2. PICK m \in Nat : m = n - 1 /\ n = m + 1
  <2>1. n - 1 \in Nat /\ n = (n - 1) + 1 OBVIOUS
  <2> QED BY <2>1
<1>3. w \in Window /\ w.limits \subseteq LimitsOf(k) /\ w.evicted \in Nat /\ w.admitted \in Nat
  BY DEF Windows, Window
<1>4. LargestBurst(w) \in Nat /\ Entitled(w, m) \in Nat /\ Entitled(w, m) >= LargestBurst(w)
  BY Largest, EntitledOf
<1>5. CASE ~(n > IdleTTL + 1)
  <2>1. v = w BY <1>5
  <2>2. n <= b.idle BY <1>1, <1>5
  <2>3. w.admitted = 0 /\ w.evicted = 0 BY <2>2 DEF WindowSound
  <2>4. Cost * w.admitted = 0 /\ w.evicted * (IdleTTL + 1) = 0 BY <2>3, <1>1
  <2>5. Cost * w.admitted + LargestBurst(w) <= Entitled(w, n - 1) BY <2>4, <1>2, <1>4
  <2>6. w.evicted * (IdleTTL + 1) <= n - 1 BY <2>4, <1>2
  <2> QED BY <2>1, <2>5, <2>6 DEF WindowSound
<1>6. CASE n > IdleTTL + 1
  <2>1. v = [admitted |-> w.admitted, evicted |-> w.evicted + 1, limits |-> w.limits]
    BY <1>3, <1>6 DEF Window
  <2>2. v \in Windows(k) BY <1>3, <2>1 DEF Windows, Window
  <2>3. v.admitted = w.admitted /\ v.evicted = w.evicted + 1 /\ v.limits = w.limits BY <2>1
  <2>4. LargestBurst(v) = LargestBurst(w) /\ LargestRate(v) = LargestRate(w) /\ Gain(v) = Gain(w)
    BY <2>3 DEF LargestBurst, LargestRate, Gain
  <2>5. PICK d \in Nat : d = n - 1 - b.idle /\ m = d + L
    <3>1. n - 1 - b.idle \in Nat /\ n - 1 = (n - 1 - b.idle) + (IdleTTL + 1) BY <1>1, <1>6
    <3> QED BY <3>1, <1>2 DEF L
  <2>6. PICK x : x = Cost * w.admitted OBVIOUS
  <2>7. x \in Nat BY <1>1, <1>3, <2>6, Refills
  <2>8. x <= Entitled(w, d) /\ w.evicted * L <= d
    <3>1. n > b.idle BY <1>6
    <3> QED BY <2>5, <2>6, <3>1 DEF WindowSound, L
  <2>9. PICK c \in Nat : c = L * LargestRate(w) BY EntitledOf
  <2>10. PICK g \in Nat : g = Gain(w) BY EntitledOf
  <2>11. g + c >= LargestBurst(w) /\ Entitled(w, d) \in Nat /\ Entitled(w, m) = Entitled(w, d) + c
    BY <2>5, <2>9, <2>10, EntitledOf
  <2>12. Entitled(v, m) = Entitled(w, m) + g
    <3>1. PICK y \in Nat : y = w.evicted * g BY <1>3, <2>10, Refills
    <3>2. (w.evicted + 1) * g = y + g BY <1>3, <3>1, <2>10, Refills
    <3>3. PICK z : z = m * LargestRate(w) OBVIOUS
    <3>4. z \in Nat BY <3>3, Largest, Refills
    <3>5. Entitled(w, m) = LargestBurst(w) + z + y BY <3>1, <3>3, <2>10 DEF Entitled
    <3>6. Entitled(v, m) = LargestBurst(w) + z + (y + g) BY <3>2, <3>3, <2>3, <2>4, <2>10 DEF Entitled
    <3> QED BY <3>4, <3>5, <3>6, <1>4
  <2>13. x + LargestBurst(v) <= Entitled(v, m) BY <2>4, <2>7, <2>8, <2>11, <2>12, <1>4
  <2>14. v.evicted * L <= m
    <3>1. PICK y \in Nat : y = w.evicted * L BY <1>1, <1>3, Refills
    <3>2. v.evicted * L = y + L BY <1>1, <1>3, <2>3, <3>1, Refills
    <3> QED BY <3>1, <3>2, <2>5, <2>8, <1>1
  <2>15. Cost * v.admitted + LargestBurst(v) <= Entitled(v, n - 1) BY <1>2, <2>3, <2>6, <2>13
  <2>16. v.evicted * (IdleTTL + 1) <= n - 1 BY <1>2, <2>14 DEF L
  <2> QED BY <2>2, <2>15, <2>16 DEF WindowSound
<1> QED BY <1>5, <1>6

-----------------------------------------------------------------------------
(* The limiter among the requests. *)

RequestRecord ==
  [at : {"idle", "keyed", "limited", "proxied"},
   key : Key \cup {NoRequest.key}, own : Overrides \cup {Unset}]

\* The parts of LoadInv: the buckets, and the requests on their way to them.
BucketsOK ==
  /\ buckets \in [Bucketed -> Bucket] /\ recent \in [Bucketed -> Admissions]
  /\ \A k \in Bucketed : Sound(k, buckets[k], recent[k]) /\ (k \in Webhook => buckets[k].idle = 0)
Waits(c) ==
  /\ req[c].at \in {"keyed", "limited"} => req[c].key \in Key
  /\ req[c].at = "limited" => buckets[req[c].key] # NoBucket /\ buckets[req[c].key].idle = 0

LEMMA LoadInvParts ==
  LoadInv <=> /\ limits \in [Key -> Overrides \cup {Unset}] /\ BucketsOK
              /\ req \in [Request -> RequestRecord] /\ \A c \in Request : Waits(c)
BY DEF LoadInv, BucketsOK, Waits, Bucket, Admissions, RequestRecord

LEMMA InForceLimits ==
  ASSUME NEW k \in Key, NEW own \in Overrides \cup {Unset}
  PROVE  k \in Bucketed /\ k \notin Webhook /\ InForce(own) \in LimitsOf(k)
BY KindsAssumption DEF LimitsOf, Bucketed

\* One bucket moves, the others stay.
LEMMA OneMoves ==
  ASSUME BucketsOK, NEW k \in Bucketed, NEW b \in Bucket, NEW r \in Admissions, Sound(k, b, r), b.idle = 0,
         buckets' = [buckets EXCEPT ![k] = b], recent' = [recent EXCEPT ![k] = r]
  PROVE  BucketsOK'
<1>1. buckets' \in [Bucketed -> Bucket] /\ recent' \in [Bucketed -> Admissions] BY DEF BucketsOK
<1>2. ASSUME NEW j \in Bucketed
      PROVE  Sound(j, buckets'[j], recent'[j]) /\ (j \in Webhook => buckets'[j].idle = 0)
  <2>1. CASE j = k BY <2>1 DEF BucketsOK
  <2>2. CASE j # k BY <2>2 DEF BucketsOK
  <2> QED BY <2>1, <2>2
<1> QED BY <1>1, <1>2 DEF BucketsOK

\* A history says it of each of its windows.
LEMMA SoundOf ==
  ASSUME NEW k \in Bucketed, NEW b, NEW r \in Admissions, Sound(k, b, r), NEW n \in 1..Horizon
  PROVE  /\ r[n] \in Windows(k) /\ WindowSound(b, r[n], n)
         /\ b # NoBucket => SetIn(b) \in LimitsOf(k)
<1>1. r[n] \in Window /\ r[n].limits \subseteq LimitsOf(k) /\ WindowSound(b, r[n], n)
  BY DEF Sound, Admissions
<1>2. b # NoBucket => SetIn(b) \in r[n].limits BY <1>1 DEF WindowSound
<1> QED BY <1>1, <1>2 DEF Windows

LEMMA SoundFrom ==
  ASSUME NEW k \in Bucketed, NEW b, b.idle <= IdleTTL + 1, NEW r,
         r = [n \in 1..Horizon |-> r[n]],
         \A n \in 1..Horizon : r[n] \in Windows(k) /\ WindowSound(b, r[n], n)
  PROVE  r \in Admissions /\ Sound(k, b, r)
<1>1. \A n \in 1..Horizon : r[n] \in Window /\ r[n].limits \subseteq LimitsOf(k) BY DEF Windows
<1>2. r \in Admissions BY <1>1 DEF Admissions
<1> QED BY <1>1, <1>2 DEF Sound

LEMMA OneInHorizon == 1 \in 1..Horizon /\ IdleTTL \in Nat
BY RatesAssumption

\* The limits a bucket has are in every window of its history.
LEMMA OwnLimits ==
  ASSUME NEW k \in Bucketed, NEW b, b # NoBucket, NEW r \in Admissions, Sound(k, b, r)
  PROVE  /\ SetIn(b) \in LimitsOf(k)
         /\ \A n \in 1..Horizon : WithLimits(r[n], SetIn(b)) = r[n]
<1>1. SetIn(b) \in LimitsOf(k) BY OneInHorizon, SoundOf
<1>2. ASSUME NEW n \in 1..Horizon PROVE WithLimits(r[n], SetIn(b)) = r[n]
  <2>1. PICK w \in Window : w = r[n] BY DEF Admissions
  <2>2. WindowSound(b, w, n) BY <2>1, SoundOf
  <2>3. SetIn(b) \in w.limits BY <2>2 DEF WindowSound
  <2>4. w.limits \cup {SetIn(b)} = w.limits BY <2>3
  <2>5. WithLimits(w, SetIn(b)) = [w EXCEPT !.limits = w.limits] BY <2>4 DEF WithLimits
  <2>6. [w EXCEPT !.limits = w.limits] = w BY DEF Window
  <2> QED BY <2>1, <2>5, <2>6
<1> QED BY <1>1, <1>2

\* A limiter is asked: its bucket is there and in use.
LEMMA AllowKeeps ==
  ASSUME BucketsOK, NEW k \in Bucketed, NEW b \in Bucket, b.idle = 0, SetIn(b) \in LimitsOf(k),
         \A n \in 1..Horizon : WindowSound(b, WithLimits(recent[k][n], SetIn(b)), n),
         Allow(k, b)
  PROVE  BucketsOK' /\ buckets'[k] # NoBucket /\ buckets'[k].idle = 0
         /\ \A j \in Bucketed \ {k} : buckets'[j] = buckets[j]
<1>1. PICK a : a = Taken(b) OBVIOUS
<1>2. PICK r : r = recent[k] OBVIOUS
<1>3. r \in Admissions /\ \A n \in 1..Horizon : r[n] \in Windows(k)
  <2>1. r \in Admissions /\ Sound(k, buckets[k], r) BY <1>2 DEF BucketsOK
  <2> QED BY <2>1, SoundOf
<1>4. PICK q : q = [n \in 1..Horizon |-> Counted(WithLimits(r[n], SetIn(b)), b)] OBVIOUS
<1>5. ASSUME NEW n \in 1..Horizon
      PROVE  q[n] \in Windows(k) /\ WindowSound(a, q[n], n)
             /\ a \in Bucket /\ a.idle = 0 /\ a # NoBucket
  <2>1. PICK w : w = WithLimits(r[n], SetIn(b)) OBVIOUS
  <2>2. w \in Windows(k) BY <2>1, <1>3, WithLimitsTyped
  <2>3. WindowSound(b, w, n) BY <2>1, <1>2
  <2>4. q[n] = Counted(w, b) BY <1>4, <2>1
  <2> QED BY <1>1, <2>2, <2>3, <2>4, AllowSound
<1>6. a \in Bucket /\ a.idle = 0 /\ a # NoBucket BY <1>5, OneInHorizon
<1>7. q \in Admissions /\ Sound(k, a, q)
  <2>1. a.idle <= IdleTTL + 1 BY <1>6, OneInHorizon
  <2>2. q = [n \in 1..Horizon |-> q[n]] BY <1>4
  <2> QED BY <1>5, <2>1, <2>2, SoundFrom
<1>8. buckets' = [buckets EXCEPT ![k] = a] BY <1>1 DEF Allow
<1>9. recent' = [recent EXCEPT ![k] = q] BY <1>2, <1>4 DEF Allow
<1>10. BucketsOK' BY <1>6, <1>7, <1>8, <1>9, OneMoves
<1>11. buckets'[k] = a /\ \A j \in Bucketed \ {k} : buckets'[j] = buckets[j]
  BY <1>8 DEF BucketsOK
<1> QED BY <1>6, <1>10, <1>11

LEMMA GetLimiterKeeps ==
  ASSUME BucketsOK, NEW k \in Key, NEW own \in Overrides \cup {Unset}, GetLimiter(k, own)
  PROVE  BucketsOK' /\ buckets'[k] # NoBucket /\ buckets'[k].idle = 0
         /\ \A j \in Bucketed \ {k} : buckets'[j] = buckets[j]
<1>1. k \in Bucketed /\ InForce(own) \in LimitsOf(k) BY InForceLimits
<1>2. PICK f \in LimitsOf(k) : f = InForce(own) BY <1>1
<1>3. PICK b \in Bucket : b = buckets[k] BY <1>1 DEF BucketsOK
<1>4. PICK r \in Admissions : r = recent[k] BY <1>1 DEF BucketsOK
<1>5. Sound(k, b, r) BY <1>1, <1>3, <1>4 DEF BucketsOK
<1>6. PICK a : a = LimiterWith(b, f) OBVIOUS
<1>7. buckets' = [buckets EXCEPT ![k] = a] BY <1>2, <1>3, <1>6 DEF GetLimiter
<1>8. PICK q : q = [n \in 1..Horizon |-> WithLimits(r[n], f)] OBVIOUS
<1>9. recent' = [recent EXCEPT ![k] = q] BY <1>2, <1>4, <1>8 DEF GetLimiter
<1>10. ASSUME NEW n \in 1..Horizon
       PROVE  q[n] \in Windows(k) /\ WindowSound(a, q[n], n)
              /\ a \in Bucket /\ a.idle = 0 /\ a # NoBucket
  <2>1. PICK w : w = r[n] OBVIOUS
  <2>2. w \in Windows(k) /\ WindowSound(b, w, n) BY <1>1, <1>5, <2>1, SoundOf
  <2>3. q[n] = WithLimits(w, f) /\ q[n] \in Windows(k)
    BY <1>1, <1>8, <2>1, <2>2, WithLimitsTyped
  <2>4. CASE b = NoBucket
    <3>1. a = NewLimiter(f) BY <2>4, <1>6 DEF LimiterWith
    <3>2. WindowSound(NoBucket, w, n) BY <2>2, <2>4
    <3> QED BY <1>1, <2>2, <2>3, <3>1, <3>2, NewSound
  <2>5. CASE b # NoBucket
    <3>1. a = [b EXCEPT !.rate = f.rate, !.burst = f.burst, !.idle = 0]
      BY <2>5, <1>6 DEF LimiterWith
    <3>2. f.rate \in Nat /\ f.burst \in Nat BY <1>1, LimitsTyped
    <3>3. a \in Bucket BY <3>1, <3>2 DEF Bucket
    <3>4. a.tokens = b.tokens /\ a.rate = f.rate /\ a.burst = f.burst /\ a.idle = 0
      BY <3>1 DEF Bucket
    <3> QED BY <1>1, <2>2, <2>3, <2>5, <3>3, <3>4, SetSound
  <2> QED BY <2>4, <2>5
<1>11. a \in Bucket /\ a.idle = 0 /\ a # NoBucket BY <1>10, OneInHorizon
<1>12. q \in Admissions /\ Sound(k, a, q)
  <2>1. a.idle <= IdleTTL + 1 BY <1>11, OneInHorizon
  <2>2. q = [n \in 1..Horizon |-> q[n]] BY <1>8
  <2> QED BY <1>1, <1>10, <2>1, <2>2, SoundFrom
<1>13. BucketsOK' BY <1>1, <1>7, <1>9, <1>11, <1>12, OneMoves
<1>14. buckets'[k] = a /\ \A j \in Bucketed \ {k} : buckets'[j] = buckets[j]
  BY <1>1, <1>7 DEF BucketsOK
<1> QED BY <1>11, <1>13, <1>14

LEMMA AlertKeeps ==
  ASSUME BucketsOK, NEW w \in Webhook, AllowAlert(w)
  PROVE  BucketsOK' /\ \A j \in Bucketed \ {w} : buckets'[j] = buckets[j]
<1>1. w \in Bucketed /\ AlertLimits \in LimitsOf(w) BY DEF Bucketed, LimitsOf
<1>2. PICK r \in Admissions : r = recent[w] BY <1>1 DEF BucketsOK
<1>3. Sound(w, buckets[w], r) /\ buckets[w] \in Bucket BY <1>1, <1>2 DEF BucketsOK
<1>4. PICK b : b = IF buckets[w] = NoBucket THEN NewLimiter(AlertLimits) ELSE buckets[w] OBVIOUS
<1>5. Allow(w, b) BY <1>4 DEF AllowAlert
<1>6. CASE buckets[w] = NoBucket
  <2>1. b = NewLimiter(AlertLimits) BY <1>4, <1>6
  <2>2. ASSUME NEW n \in 1..Horizon
        PROVE  /\ b \in Bucket /\ b.idle = 0 /\ SetIn(b) = AlertLimits
               /\ WindowSound(b, WithLimits(r[n], AlertLimits), n)
    <3>1. r[n] \in Windows(w) /\ WindowSound(NoBucket, r[n], n) BY <1>1, <1>3, <1>6, SoundOf
    <3> QED BY <1>1, <2>1, <3>1, NewSound
  <2>3. b \in Bucket /\ b.idle = 0 /\ SetIn(b) = AlertLimits BY <2>2, OneInHorizon
  <2>4. \A n \in 1..Horizon : WindowSound(b, WithLimits(recent[w][n], SetIn(b)), n)
    BY <2>2, <2>3, <1>2
  <2> QED BY <1>1, <1>5, <2>3, <2>4, AllowKeeps
<1>7. CASE buckets[w] # NoBucket
  <2>1. b \in Bucket /\ b # NoBucket /\ b.idle = 0 /\ Sound(w, b, r)
    BY <1>1, <1>3, <1>4, <1>7 DEF BucketsOK
  <2>2. SetIn(b) \in LimitsOf(w) /\ \A n \in 1..Horizon : WithLimits(r[n], SetIn(b)) = r[n]
    BY <1>1, <2>1, OwnLimits
  <2>3. \A n \in 1..Horizon : WindowSound(b, WithLimits(recent[w][n], SetIn(b)), n)
    BY <1>1, <1>2, <2>1, <2>2, SoundOf
  <2> QED BY <1>1, <1>5, <2>1, <2>2, <2>3, AllowKeeps
<1> QED BY <1>6, <1>7

LEMMA EvictKeeps ==
  ASSUME BucketsOK, EvictIdle
  PROVE  /\ BucketsOK'
         /\ \A k \in Bucketed : buckets[k].idle = 0 => buckets'[k] = buckets[k]
<1>1. buckets' = [k \in Bucketed |-> IF Idle(k) THEN NoBucket ELSE buckets[k]]
  BY DEF EvictIdle
<1>2. recent' = [k \in Bucketed |-> [n \in 1..Horizon |->
         IF Idle(k) /\ n > IdleTTL + 1 THEN [recent[k][n] EXCEPT !.evicted = @ + 1]
                                       ELSE recent[k][n]]]
  BY DEF EvictIdle
<1>3. ASSUME NEW k \in Bucketed
      PROVE  /\ buckets'[k] \in Bucket /\ recent'[k] \in Admissions
             /\ Sound(k, buckets'[k], recent'[k])
             /\ k \in Webhook => buckets'[k].idle = 0
             /\ buckets[k].idle = 0 => buckets'[k] = buckets[k]
  <2>1. PICK b \in Bucket : b = buckets[k] BY DEF BucketsOK
  <2>2. PICK r \in Admissions : r = recent[k] BY DEF BucketsOK
  <2>3. Sound(k, b, r) /\ (k \in Webhook => b.idle = 0) BY <2>1, <2>2 DEF BucketsOK
  <2>4. IdleTTL \in Nat /\ b.idle \in Nat BY RatesAssumption DEF Bucket
  <2>5. PICK q : q = recent'[k] OBVIOUS
  <2>6. q = [n \in 1..Horizon |-> IF Idle(k) /\ n > IdleTTL + 1
                                  THEN [r[n] EXCEPT !.evicted = @ + 1] ELSE r[n]]
    BY <1>2, <2>2, <2>5
  <2>7. CASE Idle(k)
    <3>1. buckets'[k] = NoBucket /\ b.idle > IdleTTL /\ k \in Key BY <1>1, <2>1, <2>7 DEF Idle
    <3>2. b # NoBucket /\ b.idle = IdleTTL + 1
      <4>1. b # NoBucket BY <3>1, <2>4, NoBucketTyped
      <4> QED BY <4>1, <3>1, <2>3, <2>4 DEF Sound
    <3>3. ASSUME NEW n \in 1..Horizon PROVE q[n] \in Windows(k) /\ WindowSound(NoBucket, q[n], n)
      <4>1. PICK w : w = r[n] OBVIOUS
      <4>2. w \in Windows(k) /\ WindowSound(b, w, n) BY <2>3, <4>1, SoundOf
      <4>3. q[n] = IF n > IdleTTL + 1 THEN [w EXCEPT !.evicted = @ + 1] ELSE w
        BY <2>6, <2>7, <4>1
      <4> QED BY <3>2, <4>2, <4>3, EvictSound
    <3>4. NoBucket.idle <= IdleTTL + 1 BY <2>4, NoBucketTyped
    <3>5. q = [n \in 1..Horizon |-> q[n]] BY <2>6
    <3>6. q \in Admissions /\ Sound(k, NoBucket, q) BY <3>3, <3>4, <3>5, SoundFrom
    <3>7. k \notin Webhook /\ b.idle # 0 BY <2>4, <3>1, KindsAssumption
    <3> QED BY <2>1, <2>5, <3>1, <3>6, <3>7, NoBucketTyped
  <2>8. CASE ~Idle(k)
    <3>1. buckets'[k] = b BY <1>1, <2>1, <2>8
    <3>2. q = r
      <4>1. q = [n \in 1..Horizon |-> r[n]] BY <2>6, <2>8
      <4> QED BY <4>1 DEF Admissions
    <3> QED BY <2>1, <2>3, <2>5, <3>1, <3>2
  <2> QED BY <2>7, <2>8
<1>4. buckets' \in [Bucketed -> Bucket] /\ recent' \in [Bucketed -> Admissions]
  BY <1>1, <1>2, <1>3
<1> QED BY <1>3, <1>4 DEF BucketsOK

LEMMA TickKeepsBuckets ==
  ASSUME BucketsOK, Refill
  PROVE  BucketsOK'
<1>1. ASSUME NEW k \in Bucketed
      PROVE  /\ buckets'[k] \in Bucket /\ recent'[k] \in Admissions
             /\ Sound(k, buckets'[k], recent'[k])
             /\ k \in Webhook => buckets'[k].idle = 0
  <2>1. PICK b \in Bucket : b = buckets[k] BY DEF BucketsOK
  <2>2. PICK r \in Admissions : r = recent[k] BY DEF BucketsOK
  <2>3. Sound(k, b, r) BY <2>1, <2>2 DEF BucketsOK
  <2>4. PICK i : i = IF k \in Key THEN Min({IdleTTL + 1, b.idle + 1}) ELSE 0 OBVIOUS
  <2>5. PICK a : a = [b EXCEPT !.tokens = Min({b.burst, @ + b.rate}), !.idle = i] OBVIOUS
  <2>6. PICK q : q = [n \in 1..Horizon |-> IF n = 1 THEN NewWindow(b) ELSE r[n - 1]] OBVIOUS
  <2>7. recent'[k] = q BY <2>1, <2>2, <2>6 DEF Refill
  <2>8. buckets'[k] = IF b = NoBucket THEN b ELSE a
    <3>1. buckets'[k] = Refilled(k, b) BY <2>1 DEF Refill
    <3> QED BY <3>1, <2>4, <2>5 DEF Refilled
  <2>9. q = [n \in 1..Horizon |-> q[n]] BY <2>6
  <2>10. ASSUME NEW n \in 1..Horizon
         PROVE  IF n = 1 THEN q[n] = NewWindow(b)
                ELSE \E p \in Nat : /\ p \in 1..Horizon /\ n = p + 1 /\ q[n] = r[p]
                                    /\ q[n] \in Windows(k) /\ WindowSound(b, q[n], p)
    <3>1. CASE n = 1 BY <2>6, <3>1
    <3>2. CASE n # 1
      <4>1. n - 1 \in Nat /\ n - 1 \in 1..Horizon /\ n = (n - 1) + 1
        BY <3>2, LimitsTyped
      <4>2. q[n] = r[n - 1] BY <2>6, <3>2
      <4>3. r[n - 1] \in Windows(k) /\ WindowSound(b, r[n - 1], n - 1) BY <2>3, <4>1, SoundOf
      <4> QED BY <3>2, <4>1, <4>2, <4>3
    <3> QED BY <3>1, <3>2
  <2>11. CASE b = NoBucket
    <3>1. ASSUME NEW n \in 1..Horizon PROVE q[n] \in Windows(k) /\ WindowSound(NoBucket, q[n], n)
      <4>1. CASE n = 1 BY <4>1, <2>10, <2>11, NewWindowTyped, FirstNone
      <4>2. CASE n # 1
        <5>1. PICK p \in Nat : /\ p \in 1..Horizon /\ n = p + 1
                               /\ q[n] \in Windows(k) /\ WindowSound(b, q[n], p)
          BY <4>2, <2>10
        <5> QED BY <5>1, <2>11, NoneSound
      <4> QED BY <4>1, <4>2
    <3>2. NoBucket.idle = 0 /\ NoBucket.idle <= IdleTTL + 1 BY NoBucketTyped, OneInHorizon
    <3>3. q \in Admissions /\ Sound(k, NoBucket, q) BY <2>9, <3>1, <3>2, SoundFrom
    <3> QED BY <2>7, <2>8, <2>11, <3>2, <3>3, NoBucketTyped
  <2>12. CASE b # NoBucket
    <3>1. IdleTTL \in Nat /\ b.idle \in Nat BY RatesAssumption DEF Bucket
    <3>2. b.idle <= IdleTTL + 1 /\ SetIn(b) \in LimitsOf(k) BY <2>3, <2>12, OwnLimits DEF Sound
    <3>3. i \in Nat /\ i <= IdleTTL + 1 /\ (i = 0 \/ i = b.idle + 1 \/ i = b.idle)
      <4>1. CASE k \in Key
        <5>1. PICK x, y : x = IdleTTL + 1 /\ y = b.idle + 1 OBVIOUS
        <5>2. x \in Nat /\ y \in Nat BY <3>1, <5>1
        <5>3. i = Min({x, y}) BY <2>4, <4>1, <5>1
        <5>4. i \in Nat /\ i <= x /\ i <= y /\ (i = x \/ i = y) BY <5>2, <5>3, MinOf
        <5>5. CASE i = y BY <5>1, <5>4, <5>5
        <5>6. CASE i = x /\ i # y BY <3>1, <3>2, <5>1, <5>2, <5>4, <5>6
        <5> QED BY <5>4, <5>5, <5>6
      <4>2. CASE k \notin Key BY <2>4, <3>1, <4>2
      <4> QED BY <4>1, <4>2
    <3>4. /\ a \in Bucket /\ a.tokens = Min({b.burst, b.tokens + b.rate}) /\ a.tokens <= b.burst
          /\ a.rate = b.rate /\ a.burst = b.burst /\ a.idle = i
      <4>1. b.burst \in Nat /\ b.tokens \in Nat /\ b.rate \in Nat BY DEF Bucket
      <4>2. PICK x : x = b.tokens + b.rate OBVIOUS
      <4>3. x \in Nat BY <4>1, <4>2
      <4>4. PICK t : t = Min({b.burst, x}) OBVIOUS
      <4>5. t \in Nat /\ t <= b.burst BY <4>1, <4>3, <4>4, MinOf
      <4>6. a = [b EXCEPT !.tokens = t, !.idle = i] BY <2>5, <4>2, <4>4
      <4>7. a \in Bucket BY <4>5, <4>6, <3>3 DEF Bucket
      <4>8. a.tokens = t /\ a.rate = b.rate /\ a.burst = b.burst /\ a.idle = i
        BY <4>6 DEF Bucket
      <4> QED BY <4>2, <4>4, <4>5, <4>7, <4>8
    <3>5. ASSUME NEW n \in 1..Horizon PROVE q[n] \in Windows(k) /\ WindowSound(a, q[n], n)
      <4>1. CASE n = 1 BY <4>1, <2>10, <3>2, <3>4, NewWindowTyped, FirstSound
      <4>2. CASE n # 1
        <5>1. PICK p \in Nat : /\ p \in 1..Horizon /\ n = p + 1
                               /\ q[n] \in Windows(k) /\ WindowSound(b, q[n], p)
          BY <4>2, <2>10
        <5> QED BY <5>1, <3>2, <3>3, <3>4, RefillSound
      <4> QED BY <4>1, <4>2
    <3>6. a.idle <= IdleTTL + 1 BY <3>3, <3>4
    <3>7. q \in Admissions /\ Sound(k, a, q) BY <2>9, <3>5, <3>6, SoundFrom
    <3>8. k \in Webhook => a.idle = 0 BY <2>4, <3>4, KindsAssumption
    <3> QED BY <2>7, <2>8, <2>12, <3>4, <3>7, <3>8
  <2> QED BY <2>11, <2>12
<1>2. buckets' \in [Bucketed -> Bucket] /\ recent' \in [Bucketed -> Admissions]
  BY <1>1 DEF Refill
<1> QED BY <1>1, <1>2 DEF BucketsOK

LEMMA InitLoad == Init => LoadInv
<1> SUFFICES ASSUME Init PROVE LoadInv OBVIOUS
<1>1. limits \in [Key -> Overrides \cup {Unset}] BY DEF Init, LimiterInit
<1>2. NoRequest \in RequestRecord /\ NoRequest.at = "idle" BY DEF NoRequest, RequestRecord
<1>3. req \in [Request -> RequestRecord] /\ \A c \in Request : Waits(c) BY <1>2 DEF Init, Waits
<1>5. ASSUME NEW k \in Bucketed
      PROVE  /\ buckets[k] = NoBucket /\ recent[k] \in Admissions
             /\ Sound(k, NoBucket, recent[k])
  <2>1. buckets[k] = NoBucket /\ recent[k] = [n \in 1..Horizon |-> NewWindow(NoBucket)]
    BY DEF Init, LimiterInit
  <2>2. PICK w : w = NewWindow(NoBucket) OBVIOUS
  <2>3. w \in Windows(k) /\ WindowSound(NoBucket, w, 1) BY <2>2, NewWindowTyped, FirstNone
  <2>4. ASSUME NEW n \in 1..Horizon PROVE WindowSound(NoBucket, w, n)
    <3>1. PICK m \in Nat : m = n - 1 /\ 0 <= m
      <4>1. n - 1 \in Nat OBVIOUS
      <4> QED BY <4>1
    <3>2. PICK x, y : x = Cost * w.admitted + LargestBurst(w) /\ y = w.evicted * (IdleTTL + 1)
      OBVIOUS
    <3>3. x <= Entitled(w, 0) /\ y <= 0 BY <2>3, <3>2 DEF WindowSound
    <3>4. Entitled(w, 0) <= Entitled(w, m) /\ Entitled(w, 0) \in Nat /\ Entitled(w, m) \in Nat
      BY <2>3, <3>1, EntitledGrows, EntitledOf
    <3>5. x \in Nat /\ y \in Nat
      <4>1. w.admitted = 0 /\ w.evicted = 0 BY <2>2 DEF NewWindow
      <4>2. Cost \in Nat /\ IdleTTL \in Nat /\ LargestBurst(w) \in Nat BY <2>3, LimitsTyped, Largest
      <4>3. Cost * w.admitted = 0 /\ w.evicted * (IdleTTL + 1) = 0 BY <4>1, <4>2
      <4> QED BY <4>2, <4>3, <3>2
    <3>6. x <= Entitled(w, m) /\ y <= m BY <3>1, <3>3, <3>4, <3>5
    <3> QED BY <3>1, <3>2, <3>6 DEF WindowSound
  <2>5. PICK r : r = recent[k] OBVIOUS
  <2>6. r = [n \in 1..Horizon |-> r[n]] /\ \A n \in 1..Horizon : r[n] = w BY <2>1, <2>2, <2>5
  <2>7. NoBucket.idle <= IdleTTL + 1 BY NoBucketTyped, OneInHorizon
  <2>8. r \in Admissions /\ Sound(k, NoBucket, r) BY <2>3, <2>4, <2>6, <2>7, SoundFrom
  <2> QED BY <2>1, <2>5, <2>8
<1>4. buckets \in [Bucketed -> Bucket] /\ recent \in [Bucketed -> Admissions]
  BY <1>5, NoBucketTyped DEF Init, LimiterInit
<1>6. BucketsOK BY <1>4, <1>5, NoBucketTyped DEF BucketsOK
<1> QED BY <1>1, <1>3, <1>6, LoadInvParts

\* The parts give LoadInv back, after a step as well.
LEMMA LoadInvAfter ==
  ASSUME limits' \in [Key -> Overrides \cup {Unset}], BucketsOK',
         (req \in [Request -> RequestRecord])', \A c \in Request : Waits(c)'
  PROVE  LoadInv'
BY DEF LoadInv, BucketsOK, Waits, Bucket, Admissions, RequestRecord

\* A request moves on to a record that waits for no bucket, or for its own.
LEMMA OneGoes ==
  ASSUME req \in [Request -> RequestRecord], NEW c \in Request, NEW q \in RequestRecord,
         req' = [req EXCEPT ![c] = q],
         q.at \in {"keyed", "limited"} => q.key \in Key,
         q.at = "limited" => buckets'[q.key] # NoBucket /\ buckets'[q.key].idle = 0,
         \A d \in Request \ {c} : Waits(d) /\ (req[d].at = "limited" =>
           buckets'[req[d].key] # NoBucket /\ buckets'[req[d].key].idle = 0)
  PROVE  (req \in [Request -> RequestRecord])' /\ \A d \in Request : Waits(d)'
<1>1. req' \in [Request -> RequestRecord] OBVIOUS
<1>2. req'[c] = q /\ \A d \in Request \ {c} : req'[d] = req[d] OBVIOUS
<1>3. Waits(c)' BY <1>2 DEF Waits
<1>4. \A d \in Request \ {c} : Waits(d)' BY <1>2 DEF Waits
<1> QED BY <1>1, <1>3, <1>4

\* A key's bucket that moved is in use; a webhook's is nobody's.
LEMMA OthersWait ==
  ASSUME NEW k \in Bucketed, NEW c \in Request, Waits(c),
         \A j \in Bucketed \ {k} : buckets'[j] = buckets[j],
         k \in Webhook \/ (buckets'[k] # NoBucket /\ buckets'[k].idle = 0)
  PROVE  req[c].at = "limited" =>
           buckets'[req[c].key] # NoBucket /\ buckets'[req[c].key].idle = 0
<1>1. SUFFICES ASSUME req[c].at = "limited"
               PROVE  buckets'[req[c].key] # NoBucket /\ buckets'[req[c].key].idle = 0
  OBVIOUS
<1>2. req[c].key \in Key /\ buckets[req[c].key] # NoBucket /\ buckets[req[c].key].idle = 0
  BY <1>1 DEF Waits
<1>3. req[c].key \in Bucketed /\ req[c].key \notin Webhook
  BY <1>2, KindsAssumption DEF Bucketed
<1>4. CASE req[c].key = k BY <1>3, <1>4
<1>5. CASE req[c].key # k
  <2>1. buckets'[req[c].key] = buckets[req[c].key] BY <1>3, <1>5
  <2> QED BY <1>2, <2>1
<1> QED BY <1>4, <1>5

LEMMA NoRequestTyped == NoRequest \in RequestRecord /\ NoRequest.at = "idle"
BY DEF NoRequest, RequestRecord

-----------------------------------------------------------------------------
(* One lemma per action that the limiter, or a request's way to it, sees. *)

LEMMA EditLoad == ASSUME LoadInv, EditLimits, req' = req PROVE LoadInv'
<1>1. PICK k \in Key, own \in Overrides : limits' = [limits EXCEPT ![k] = own] BY DEF EditLimits
<1>2. limits' \in [Key -> Overrides \cup {Unset}] BY <1>1, LoadInvParts
<1>3. buckets' = buckets /\ recent' = recent BY DEF EditLimits
<1>4. BucketsOK' BY <1>3, LoadInvParts DEF BucketsOK
<1>5. (req \in [Request -> RequestRecord])' BY LoadInvParts
<1>6. \A c \in Request : Waits(c)' BY <1>3, LoadInvParts DEF Waits
<1> QED BY <1>2, <1>4, <1>5, <1>6, LoadInvAfter

LEMMA EvictLoad == ASSUME LoadInv, EvictIdle, req' = req PROVE LoadInv'
<1>1. BucketsOK' /\ \A k \in Bucketed : buckets[k].idle = 0 => buckets'[k] = buckets[k]
  BY LoadInvParts, EvictKeeps
<1>2. limits' = limits BY DEF EvictIdle
<1>3. ASSUME NEW c \in Request PROVE Waits(c)'
  <2>1. Waits(c) BY LoadInvParts
  <2>2. req[c].key \in Key => req[c].key \in Bucketed BY DEF Bucketed
  <2> QED BY <1>1, <2>1, <2>2 DEF Waits
<1>4. limits' \in [Key -> Overrides \cup {Unset}] /\ (req \in [Request -> RequestRecord])'
  BY <1>2, LoadInvParts
<1> QED BY <1>1, <1>3, <1>4, LoadInvAfter

LEMMA ArriveLoad == ASSUME LoadInv, NEW c \in Request, Arrive(c) PROVE LoadInv'
<1>1. limits' = limits /\ buckets' = buckets /\ recent' = recent BY DEF Arrive, limiterVars
<1>2. PICK k \in Key : req' = [req EXCEPT ![c] = [at |-> "keyed", key |-> k, own |-> limits[k]]]
  BY DEF Arrive
<1>3. PICK q : q = [at |-> "keyed", key |-> k, own |-> limits[k]] OBVIOUS
<1>4. limits[k] \in Overrides \cup {Unset} BY LoadInvParts
<1>5. q \in RequestRecord /\ q.at = "keyed" /\ q.key \in Key BY <1>3, <1>4 DEF RequestRecord
<1>6. req \in [Request -> RequestRecord] /\ \A d \in Request : Waits(d) BY LoadInvParts
<1>7. \A d \in Request \ {c} : Waits(d) /\ (req[d].at = "limited" =>
        buckets'[req[d].key] # NoBucket /\ buckets'[req[d].key].idle = 0)
  BY <1>1, <1>6 DEF Waits
<1>8. req' = [req EXCEPT ![c] = q] BY <1>2, <1>3
<1>9. (req \in [Request -> RequestRecord])' /\ \A d \in Request : Waits(d)'
  BY <1>5, <1>6, <1>7, <1>8, OneGoes
<1>10. BucketsOK' BY <1>1, LoadInvParts DEF BucketsOK
<1>11. limits' \in [Key -> Overrides \cup {Unset}] BY <1>1, LoadInvParts
<1> QED BY <1>9, <1>10, <1>11, LoadInvAfter

LEMMA LimiterLoad == ASSUME LoadInv, NEW c \in Request, Limiter(c) PROVE LoadInv'
<1>1. req[c].at = "keyed" /\ limits' = limits BY DEF Limiter
<1>2. req \in [Request -> RequestRecord] /\ BucketsOK /\ \A d \in Request : Waits(d)
  BY LoadInvParts
<1>3. PICK k \in Key : k = req[c].key BY <1>1, <1>2 DEF Waits
<1>4. PICK own \in Overrides \cup {Unset} : own = req[c].own BY <1>2 DEF RequestRecord
<1>5. GetLimiter(k, own) BY <1>3, <1>4 DEF Limiter
<1>6. BucketsOK' /\ buckets'[k] # NoBucket /\ buckets'[k].idle = 0
      /\ \A j \in Bucketed \ {k} : buckets'[j] = buckets[j]
  BY <1>1, <1>2, <1>5, GetLimiterKeeps
<1>7. k \in Bucketed BY DEF Bucketed
<1>8. PICK q : q = [req[c] EXCEPT !.at = "limited", !.own = Unset] OBVIOUS
<1>9. req[c] \in RequestRecord BY <1>2
<1>10. q \in RequestRecord /\ q.at = "limited" /\ q.key = k
  BY <1>3, <1>8, <1>9 DEF RequestRecord
<1>11. req' = [req EXCEPT ![c] = q] BY <1>8 DEF Limiter
<1>12. \A d \in Request \ {c} : Waits(d) /\ (req[d].at = "limited" =>
         buckets'[req[d].key] # NoBucket /\ buckets'[req[d].key].idle = 0)
  BY <1>2, <1>6, <1>7, OthersWait
<1>13. (req \in [Request -> RequestRecord])' /\ \A d \in Request : Waits(d)'
  BY <1>2, <1>6, <1>10, <1>11, <1>12, OneGoes
<1>14. limits' \in [Key -> Overrides \cup {Unset}] BY <1>1, LoadInvParts
<1> QED BY <1>6, <1>13, <1>14, LoadInvAfter

LEMMA ThrottleLoad == ASSUME LoadInv, NEW c \in Request, Throttle(c) PROVE LoadInv'
<1>1. req[c].at = "limited" /\ limits' = limits BY DEF Throttle
<1>2. req \in [Request -> RequestRecord] /\ BucketsOK /\ \A d \in Request : Waits(d)
  BY LoadInvParts
<1>3. PICK k \in Key : k = req[c].key BY <1>1, <1>2 DEF Waits
<1>4. k \in Bucketed BY DEF Bucketed
<1>5. PICK b \in Bucket : b = buckets[k] BY <1>2, <1>4 DEF BucketsOK
<1>6. b # NoBucket /\ b.idle = 0 BY <1>1, <1>2, <1>3, <1>5 DEF Waits
<1>7. PICK r \in Admissions : r = recent[k] /\ Sound(k, b, r) BY <1>2, <1>4, <1>5 DEF BucketsOK
<1>8. Allow(k, b) BY <1>3, <1>5 DEF Throttle
<1>9. BucketsOK' /\ buckets'[k] # NoBucket /\ buckets'[k].idle = 0
      /\ \A j \in Bucketed \ {k} : buckets'[j] = buckets[j]
  <2>1. SetIn(b) \in LimitsOf(k) /\ \A n \in 1..Horizon : WithLimits(r[n], SetIn(b)) = r[n]
    BY <1>4, <1>6, <1>7, OwnLimits
  <2>2. \A n \in 1..Horizon : WindowSound(b, WithLimits(recent[k][n], SetIn(b)), n)
    BY <1>4, <1>7, <2>1, SoundOf
  <2> QED BY <1>2, <1>4, <1>6, <1>8, <2>1, <2>2, AllowKeeps
<1>10. \A d \in Request \ {c} : Waits(d) /\ (req[d].at = "limited" =>
         buckets'[req[d].key] # NoBucket /\ buckets'[req[d].key].idle = 0)
  BY <1>2, <1>4, <1>9, OthersWait
<1>11. PICK q \in RequestRecord : q.at \in {"idle", "proxied"} /\ req' = [req EXCEPT ![c] = q]
  <2>1. CASE req' = [req EXCEPT ![c] = NoRequest] BY <2>1, NoRequestTyped
  <2>2. CASE req' = [req EXCEPT ![c].at = "proxied"]
    <3>1. PICK q : q = [req[c] EXCEPT !.at = "proxied"] OBVIOUS
    <3>2. req[c] \in RequestRecord BY <1>2
    <3>3. q \in RequestRecord /\ q.at = "proxied" BY <3>1, <3>2 DEF RequestRecord
    <3>4. req' = [req EXCEPT ![c] = q] BY <2>2, <3>1
    <3> QED BY <3>3, <3>4
  <2> QED BY <2>1, <2>2 DEF Throttle
<1>12. (req \in [Request -> RequestRecord])' /\ \A d \in Request : Waits(d)'
  BY <1>2, <1>10, <1>11, OneGoes
<1>13. limits' \in [Key -> Overrides \cup {Unset}] BY <1>1, LoadInvParts
<1> QED BY <1>9, <1>12, <1>13, LoadInvAfter

LEMMA AnswerLoad == ASSUME LoadInv, NEW c \in Request, Answer(c) PROVE LoadInv'
<1>1. limits' = limits /\ req' = [req EXCEPT ![c] = NoRequest] BY DEF Answer
<1>2. req \in [Request -> RequestRecord] /\ BucketsOK /\ \A d \in Request : Waits(d)
  BY LoadInvParts
<1>3. BucketsOK' /\ \A d \in Request : Waits(d) /\ (req[d].at = "limited" =>
        buckets'[req[d].key] # NoBucket /\ buckets'[req[d].key].idle = 0)
  <2>1. ASSUME NEW w \in Webhook, AllowAlert(w)
        PROVE  BucketsOK' /\ \A d \in Request : Waits(d) /\ (req[d].at = "limited" =>
                 buckets'[req[d].key] # NoBucket /\ buckets'[req[d].key].idle = 0)
    <3>1. BucketsOK' /\ \A j \in Bucketed \ {w} : buckets'[j] = buckets[j]
      BY <1>2, <2>1, AlertKeeps
    <3>2. w \in Bucketed BY DEF Bucketed
    <3> QED BY <1>2, <3>1, <3>2, OthersWait
  <2>2. CASE UNCHANGED <<buckets, recent>>
    <3>1. BucketsOK' BY <1>2, <2>2 DEF BucketsOK
    <3> QED BY <1>2, <2>2, <3>1 DEF Waits
  <2> QED BY <2>1, <2>2 DEF Answer
<1>4. (req \in [Request -> RequestRecord])' /\ \A d \in Request : Waits(d)'
  BY <1>1, <1>2, <1>3, NoRequestTyped, OneGoes
<1>5. limits' \in [Key -> Overrides \cup {Unset}] BY <1>1, LoadInvParts
<1> QED BY <1>3, <1>4, <1>5, LoadInvAfter

\* No request waits for its bucket when time goes on.
LEMMA TickLoad == ASSUME LoadInv, Tick PROVE LoadInv'
<1>1. BucketsOK' BY LoadInvParts, TickKeepsBuckets DEF Tick
<1>2. limits' = limits /\ req' = req BY DEF Tick, Refill
<1>3. \A c \in Request : req[c].at \notin {"keyed", "limited"} BY DEF Tick
<1>4. \A c \in Request : Waits(c)' BY <1>2, <1>3 DEF Waits
<1>5. limits' \in [Key -> Overrides \cup {Unset}] /\ (req \in [Request -> RequestRecord])'
  BY <1>2, LoadInvParts
<1> QED BY <1>1, <1>4, <1>5, LoadInvAfter

LEMMA StillLoad ==
  ASSUME LoadInv, UNCHANGED <<limits, buckets, recent, req>> PROVE LoadInv'
<1>1. LoadInv' = LoadInv BY DEF LoadInv
<1> QED BY <1>1

LEMMA StepLoad == LoadInv /\ [Next]_vars => LoadInv'
<1>1. SUFFICES ASSUME LoadInv, [Next]_vars PROVE LoadInv' OBVIOUS
<1>2. CASE Tick BY <1>1, <1>2, TickLoad
<1>3. CASE (EditLimits \/ EvictIdle) /\ req' = req BY <1>1, <1>3, EditLoad, EvictLoad
<1>4. ASSUME NEW c \in Request, Arrive(c) PROVE LoadInv' BY <1>1, <1>4, ArriveLoad
<1>5. ASSUME NEW c \in Request, Limiter(c) PROVE LoadInv' BY <1>1, <1>5, LimiterLoad
<1>6. ASSUME NEW c \in Request, Throttle(c) PROVE LoadInv' BY <1>1, <1>6, ThrottleLoad
<1>7. ASSUME NEW c \in Request, Call(c) \/ Leave(c) PROVE LoadInv'
  BY <1>1, <1>7, StillLoad DEF Call, Leave, limiterVars
<1>8. ASSUME NEW c \in Request, Answer(c) PROVE LoadInv' BY <1>1, <1>8, AnswerLoad
<1>9. CASE UNCHANGED vars BY <1>1, <1>9, StillLoad DEF vars, limiterVars
<1> QED BY <1>1, <1>2, <1>3, <1>4, <1>5, <1>6, <1>7, <1>8, <1>9 DEF Next, Serve

LEMMA LoadHolds == Spec => []LoadInv
BY InitLoad, StepLoad, PTL DEF Spec

\* What a bucket and its history say of the bound and of a quiet time.
LEMMA SoundBounds ==
  ASSUME NEW k \in Bucketed, NEW b \in Bucket, NEW r \in Admissions, Sound(k, b, r),
         NEW n \in 1..Horizon
  PROVE  /\ Cost * r[n].admitted <= Entitled(r[n], n - 1)
         /\ r[n].admitted = 0 /\ (\A f \in r[n].limits : (n - 1) * f.rate >= Cost) =>
              b = NoBucket \/ Admits(b)
<1>1. PICK w : w = r[n] OBVIOUS
<1>2. w \in Windows(k) /\ WindowSound(b, w, n) /\ (b # NoBucket => SetIn(b) \in LimitsOf(k))
  BY <1>1, SoundOf
<1>3. Cost \in Nat \ {0} /\ n - 1 \in Nat BY LimitsTyped
<1>4. Cost * w.admitted <= Entitled(w, n - 1)
  <2>1. PICK x : x = Cost * w.admitted OBVIOUS
  <2>2. x \in Nat
    <3>1. w.admitted \in Nat BY <1>2 DEF Windows, Window
    <3> QED BY <1>3, <2>1, <3>1, Refills
  <2>3. b.tokens \in Nat /\ LargestBurst(w) \in Nat /\ Entitled(w, n - 1) \in Nat
    BY <1>2, <1>3, Largest, EntitledOf DEF Bucket
  <2>4. x + b.tokens <= Entitled(w, n - 1) \/ x + LargestBurst(w) <= Entitled(w, n - 1)
    BY <1>2, <2>1 DEF WindowSound
  <2>5. x <= Entitled(w, n - 1) BY <2>2, <2>3, <2>4
  <2> QED BY <2>1, <2>5
<1>5. ASSUME w.admitted = 0, \A f \in w.limits : (n - 1) * f.rate >= Cost, b # NoBucket
      PROVE  Admits(b)
  <2>1. b.tokens \in Nat /\ b.burst \in Nat /\ b.burst >= Cost BY <1>2, <1>5, BucketExists DEF Bucket
  <2>2. b.tokens >= Cost
    <3>1. b.tokens >= Cost \/ \E f \in w.limits : b.tokens >= (n - 1) * f.rate
      BY <1>2, <1>5 DEF WindowSound
    <3>2. ASSUME NEW f \in w.limits, b.tokens >= (n - 1) * f.rate PROVE b.tokens >= Cost
      <4>1. PICK x : x = (n - 1) * f.rate OBVIOUS
      <4>2. x \in Nat
        <5>1. f \in LimitsOf(k) BY <1>2 DEF Windows
        <5>2. f.rate \in Nat BY <5>1, LimitsTyped
        <5> QED BY <1>3, <4>1, <5>2, Refills
      <4>3. x >= Cost /\ b.tokens >= x BY <1>5, <3>2, <4>1
      <4> QED BY <1>3, <2>1, <4>2, <4>3
    <3> QED BY <3>1, <3>2
  <2>3. Tokens(b) = b.tokens \/ Tokens(b) = b.burst BY <2>1, MinOf DEF Tokens
  <2> QED BY <2>1, <2>2, <2>3 DEF Admits
<1> QED BY <1>1, <1>4, <1>5

\* In any n ticks a key or webhook is admitted at most a burst and n - 1 refills of the
\* limits its bucket had in them, and for each eviction what the idle time could not
\* refill; after the time of one request it is admitted again.  For any limits, however
\* slow, and any number of keys, requests, edits and evictions in any order; of the
\* limits it takes only that a burst is a request or more (ratelimit.go:14, 55, 86-93).
THEOREM AdmissionsHold == Spec => []AdmissionsBounded
<1>1. LoadInv => AdmissionsBounded
  <2>1. SUFFICES ASSUME LoadInv, NEW k \in Bucketed
                 PROVE  /\ \A n \in 1..Horizon :
                             Cost * recent[k][n].admitted <= Entitled(recent[k][n], n - 1)
                        /\ (\E n \in Quiet(k) : \A f \in recent[k][n].limits :
                              (n - 1) * f.rate >= Cost) =>
                             buckets[k] = NoBucket \/ Admits(buckets[k])
    BY DEF AdmissionsBounded
  <2>2. PICK b \in Bucket : b = buckets[k] BY <2>1, LoadInvParts DEF BucketsOK
  <2>3. PICK r \in Admissions : r = recent[k] /\ Sound(k, b, r)
    BY <2>1, <2>2, LoadInvParts DEF BucketsOK
  <2>4. \A n \in 1..Horizon : Cost * r[n].admitted <= Entitled(r[n], n - 1)
    BY <2>3, SoundBounds
  <2>5. ASSUME NEW n \in 1..Horizon, r[n].admitted = 0,
               \A f \in r[n].limits : (n - 1) * f.rate >= Cost
        PROVE  b = NoBucket \/ Admits(b)
    BY <2>3, <2>5, SoundBounds
  <2> QED BY <2>2, <2>3, <2>4, <2>5 DEF Quiet
<1> QED BY <1>1, LoadHolds, PTL
=============================================================================
