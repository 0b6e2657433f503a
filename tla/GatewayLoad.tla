----------------------------- MODULE GatewayLoad -----------------------------
(***************************************************************************)
(* Requests on their way through a data plane: authenticated with the      *)
(* key's limits of that moment, admitted or refused by the key's bucket,   *)
(* sent to the provider, and perhaps the cause of an alert.                *)
(***************************************************************************)
EXTENDS RateLimiter, LLMClient

VARIABLE req   \* each request's way through the middleware: [at, key, own]

vars == <<limiterVars, clientVars, req>>

NoRequest == [at |-> "idle", key |-> CHOOSE k \in Key : TRUE, own |-> Unset]

Init == LimiterInit /\ ClientInit /\ req = [c \in Request |-> NoRequest]

\* APIKeyAuth puts the key's limits into the request.
Arrive(c) ==
  /\ req[c].at = "idle"
  /\ \E k \in Key : req' = [req EXCEPT ![c] = [at |-> "keyed", key |-> k, own |-> limits[k]]]
  /\ UNCHANGED <<limiterVars, clientVars>>

Limiter(c) ==
  /\ req[c].at = "keyed"
  /\ GetLimiter(req[c].key, req[c].own)
  /\ req' = [req EXCEPT ![c].at = "limited", ![c].own = Unset]
  /\ UNCHANGED <<limits, edits, clientVars>>

\* Another request may have set other limits since.
Throttle(c) ==
  LET b == buckets[req[c].key] IN
  /\ req[c].at = "limited"
  /\ Allow(req[c].key, b)
  /\ \/ ~Admits(b) /\ req' = [req EXCEPT ![c] = NoRequest] /\ UNCHANGED clientVars
     \/ Admits(b) /\ req' = [req EXCEPT ![c].at = "proxied"] /\ Begin(c)
  /\ UNCHANGED <<limits, edits>>

Call(c) ==
  /\ req[c].at = "proxied" /\ Client(c)
  /\ UNCHANGED <<limiterVars, req>>

Leave(c) ==
  /\ req[c].at = "proxied" /\ Cancel(c)
  /\ UNCHANGED <<limiterVars, req>>

\* Answered; a rejection is announced, if the webhook's bucket admits it.
Answer(c) ==
  /\ req[c].at = "proxied" /\ ~Busy(c)
  /\ req' = [req EXCEPT ![c] = NoRequest]
  /\ served' = [served EXCEPT ![c] = [answers |-> 0, attempts |-> 0]]
  /\ \/ \E w \in Webhook : AllowAlert(w)
     \/ UNCHANGED <<buckets, recent>>
  /\ UNCHANGED <<limits, edits, call>>

\* What the goroutines have to do at once is done.
Tick ==
  /\ \A c \in Request : req[c].at = "idle" \/ (req[c].at = "proxied" /\ Busy(c))
  /\ ClientTick /\ Refill
  /\ UNCHANGED req

Serve(c) == Limiter(c) \/ Throttle(c) \/ Call(c) \/ Answer(c)
Next ==
  \/ Tick
  \/ (EditLimits \/ EvictIdle) /\ UNCHANGED <<clientVars, req>>
  \/ \E c \in Request : Arrive(c) \/ Serve(c) \/ Leave(c)

\* Time passes, whatever comes between two ticks, and goroutines run.  That the
\* provider answers is not assumed.
Urgent(c) == Limiter(c) \/ Throttle(c) \/ Answer(c) \/ (Woken(c) /\ Call(c))
Spec == Init /\ [][Next]_vars /\ SF_vars(Tick) /\ \A c \in Request : WF_vars(Urgent(c))

\* Types of all variables.
TypeOK ==
  /\ limits \in [Key -> Overrides \cup {Unset}]
  /\ call \in [Request -> CallState]
  /\ \A k \in Bucketed : /\ buckets[k].idle \in 0..IdleTTL + 1
                         /\ buckets[k] = NoBucket \/ SetIn(buckets[k]) \in LimitsOf(k)
  /\ edits \in 0..MaxEdits

\* Every request is answered, even by a provider that never does.
EventuallyAnswered == \A c \in Request : req[c].at = "proxied" ~> req[c].at = "idle"

\* The inductive invariant behind AdmissionsBounded: between getLimiter and Allow no
\* time passes, hence the bucket of a request is not evicted.
LoadInv ==
  /\ limits \in [Key -> Overrides \cup {Unset}]
  /\ buckets \in [Bucketed -> [tokens : Nat, rate : Nat, burst : Nat, idle : Nat]]
  /\ recent \in [Bucketed -> [1..Horizon -> Window]]
  /\ \A k \in Bucketed : Sound(k, buckets[k], recent[k]) /\ (k \in Webhook => buckets[k].idle = 0)
  /\ req \in [Request -> [at : {"idle", "keyed", "limited", "proxied"},
                         key : Key \cup {NoRequest.key}, own : Overrides \cup {Unset}]]
  /\ \A c \in Request :
       /\ req[c].at \in {"keyed", "limited"} => req[c].key \in Key
       /\ req[c].at = "limited" => /\ buckets[req[c].key] # NoBucket
                                  /\ buckets[req[c].key].idle = 0
=============================================================================
