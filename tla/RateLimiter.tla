----------------------------- MODULE RateLimiter -----------------------------
(***************************************************************************)
(* Token buckets: one per API key, with the key's own limits or the        *)
(* defaults, changed in place when the limits are edited and evicted when  *)
(* idle; and one per alert webhook, with fixed limits, never evicted.      *)
(*                                                                         *)
(* Time advances in ticks.  Tokens are counted in units of 1/Cost of a     *)
(* request, so that a rate below one request per tick can be given.  The   *)
(* library refills a bucket when it is used; here every tick does.         *)
(***************************************************************************)
EXTENDS Integers, FiniteSets, FiniteSetsExt

CONSTANTS Key, Webhook,
          Cost,                       \* units per request
          DefaultRate, DefaultBurst,  \* of the configuration: units per tick, units
          AlertRate, AlertBurst,      \* 0.1 a second, 3
          Overrides,                  \* a key's own limits: [rps, burst], 0 when unset
          IdleTTL,
          Horizon,                    \* bound: how many ticks the history goes back
          MaxEdits                    \* bound: edits of a key's limits

Bucketed == Key \cup Webhook
Unset == [rps |-> 0, burst |-> 0]

ASSUME KindsAssumption == Key \cap Webhook = {}
ASSUME RatesAssumption ==
  {Cost, DefaultRate, DefaultBurst, AlertRate, AlertBurst, IdleTTL, Horizon} \subseteq Nat \ {0}
ASSUME OverridesAssumption ==
  Overrides \subseteq [rps : Nat, burst : Nat] /\ IsFiniteSet(Overrides) /\ MaxEdits \in Nat

VARIABLES
  limits,   \* each key's own limits, as the applied config has them
  buckets,  \* each limiter: tokens, its limits, and ticks since it was last used
  recent,   \* history, of the last n ticks for n to Horizon: requests admitted,
            \* buckets evicted after a whole idle time, limits that were set
  edits

limiterVars == <<limits, buckets, recent, edits>>

NoBucket == [tokens |-> 0, rate |-> 0, burst |-> 0, idle |-> 0]
NewLimiter(f) == [tokens |-> f.burst, rate |-> f.rate, burst |-> f.burst, idle |-> 0]

\* A limit that is not positive means the default.
InForce(own) == [rate |-> IF own.rps > 0 THEN own.rps ELSE DefaultRate,
                 burst |-> IF own.burst > 0 THEN own.burst ELSE DefaultBurst]
AlertLimits == [rate |-> AlertRate, burst |-> AlertBurst]
LimitsOf(k) == IF k \in Webhook THEN {AlertLimits} ELSE {InForce(own) : own \in Overrides \cup {Unset}}
SetIn(b) == [rate |-> b.rate, burst |-> b.burst]

\* What recent says of a number of ticks.
Window == [admitted : Nat, evicted : Nat, limits : SUBSET [rate : Nat, burst : Nat]]

\* A stretch of time that begins with bucket b.
NewWindow(b) == [admitted |-> 0, evicted |-> 0,
                 limits |-> IF b = NoBucket THEN {} ELSE {SetIn(b)}]

\* A burst is a number of requests.
ASSUME BurstAssumption == \A k \in Bucketed : \A f \in LimitsOf(k) : f.burst >= Cost

LimiterInit ==
  /\ limits \in [Key -> Overrides \cup {Unset}]
  /\ buckets = [k \in Bucketed |-> NoBucket]
  /\ recent = [k \in Bucketed |-> [n \in 1..Horizon |-> NewWindow(NoBucket)]]
  /\ edits = 0

\* The key's row gets other limits, and the next config carries them.
EditLimits ==
  /\ edits < MaxEdits
  /\ edits' = edits + 1
  /\ \E k \in Key, own \in Overrides : limits' = [limits EXCEPT ![k] = own]
  /\ UNCHANGED <<buckets, recent>>

\* Faulty: other limits, another limiter.
LimiterAnew(b, f) ==
  IF b = NoBucket \/ SetIn(b) # f THEN NewLimiter(f) ELSE [b EXCEPT !.idle = 0]

\* The key's limiter, created full or with its limits set in place.
LimiterWith(b, f) ==
  IF b = NoBucket THEN NewLimiter(f)
                  ELSE [b EXCEPT !.rate = f.rate, !.burst = f.burst, !.idle = 0]

\* A window in which limits f were set as well.
WithLimits(w, f) == [w EXCEPT !.limits = @ \cup {f}]

GetLimiter(k, own) ==
  LET f == InForce(own) IN
  /\ buckets' = [buckets EXCEPT ![k] = LimiterWith(@, f)]
  /\ recent' = [recent EXCEPT ![k] = [n \in 1..Horizon |-> WithLimits(@[n], f)]]

\* Allow: what exceeds a burst that was lowered is lost.
Tokens(b) == Min({b.tokens, b.burst})
Admits(b) == Tokens(b) >= Cost
Taken(b) == [b EXCEPT !.tokens = Tokens(b) - IF Admits(b) THEN Cost ELSE 0]
Counted(w, b) == [w EXCEPT !.admitted = @ + IF Admits(b) THEN 1 ELSE 0]
Allow(k, b) ==
  /\ buckets' = [buckets EXCEPT ![k] = Taken(b)]
  /\ recent' = [recent EXCEPT ![k] =
                  [n \in 1..Horizon |-> Counted(WithLimits(@[n], SetIn(b)), b)]]

\* A webhook's bucket is looked up and asked under one lock.
AllowAlert(w) == Allow(w, IF buckets[w] = NoBucket THEN NewLimiter(AlertLimits) ELSE buckets[w])

\* Faulty: a bucket that is idle at all is swept.
IdleAtAll(k) == k \in Key /\ buckets[k].idle > 0

\* Used for the last time before the cutoff.
Idle(k) == k \in Key /\ buckets[k].idle > IdleTTL

\* One sweep.  An eviction counts in the windows that hold the idle time before it.
EvictIdle ==
  /\ \E k \in Key : Idle(k)
  /\ buckets' = [k \in Bucketed |-> IF Idle(k) THEN NoBucket ELSE buckets[k]]
  /\ recent' = [k \in Bucketed |-> [n \in 1..Horizon |->
       IF Idle(k) /\ n > IdleTTL + 1 THEN [recent[k][n] EXCEPT !.evicted = @ + 1]
                                     ELSE recent[k][n]]]
  /\ UNCHANGED <<limits, edits>>

\* A tick: idle counts no further than the sweep looks.
Refilled(k, b) ==
  IF b = NoBucket THEN b
  ELSE [b EXCEPT !.tokens = Min({b.burst, @ + b.rate}),
                 !.idle = IF k \in Key THEN Min({IdleTTL + 1, @ + 1}) ELSE 0]
Refill ==
  /\ buckets' = [k \in Bucketed |-> Refilled(k, buckets[k])]
  /\ recent' = [k \in Bucketed |-> [n \in 1..Horizon |->
                  IF n = 1 THEN NewWindow(buckets[k]) ELSE recent[k][n - 1]]]
  /\ UNCHANGED <<limits, edits>>

-----------------------------------------------------------------------------
(* Properties. *)

\* The largest limits of a window, and what its bucket gains by an eviction: what of a
\* burst the idle time does not refill.
LargestBurst(w) == Max({0} \cup {f.burst : f \in w.limits})
LargestRate(w) == Max({0} \cup {f.rate : f \in w.limits})
Gain(w) == Max({0, LargestBurst(w) - (IdleTTL + 1) * LargestRate(w)})

\* A burst, m refills, and the gains.
Entitled(w, m) == LargestBurst(w) + m * LargestRate(w) + w.evicted * Gain(w)

Quiet(k) == {n \in 1..Horizon : recent[k][n].admitted = 0}

\* In any n ticks a key is admitted no more than a burst and n-1 refills of the limits
\* its bucket had in those ticks, whatever edits, stale limits and evictions do to it
\* (ratelimit.go:55 changes it in place); an eviction adds nothing if the idle time
\* fills the bucket, else no more than what it leaves unfilled (ratelimit.go:14, "Long
\* enough that active keys are never dropped mid-burst").  And a key that let the time
\* of one request pass is admitted.
AdmissionsBounded ==
  \A k \in Bucketed :
    /\ \A n \in 1..Horizon : Cost * recent[k][n].admitted <= Entitled(recent[k][n], n - 1)
    /\ (\E n \in Quiet(k) : \A f \in recent[k][n].limits : (n - 1) * f.rate >= Cost) =>
         buckets[k] = NoBucket \/ Admits(buckets[k])

\* The inductive invariant behind AdmissionsBounded, of a key's bucket b and window w
\* of n ticks.  What was admitted and what is left do not exceed the bound, where no
\* bucket is a full one; while a bucket idles the bound tightens, until at its eviction
\* a full one may take its place; and what a quiet time refilled is there.
WindowSound(b, w, n) ==
  IF b = NoBucket
  THEN /\ Cost * w.admitted + LargestBurst(w) <= Entitled(w, n - 1)
       /\ w.evicted * (IdleTTL + 1) <= n - 1
  ELSE /\ SetIn(b) \in w.limits
       /\ Cost * w.admitted + b.tokens <= Entitled(w, n - 1)
       /\ n <= b.idle => w.admitted = 0 /\ w.evicted = 0
       /\ n > b.idle => /\ Cost * w.admitted <= Entitled(w, n - 1 - b.idle)
                        /\ w.evicted * (IdleTTL + 1) <= n - 1 - b.idle
       /\ w.admitted = 0 => b.tokens >= Cost \/ \E f \in w.limits : b.tokens >= (n - 1) * f.rate

Sound(k, b, r) ==
  /\ b.idle <= IdleTTL + 1
  /\ \A n \in 1..Horizon : r[n].limits \subseteq LimitsOf(k) /\ WindowSound(b, r[n], n)
=============================================================================
