------------------------------ MODULE LLMClient ------------------------------
(***************************************************************************)
(* ChatCompletionAt: attempts at one provider call with exponential        *)
(* backoff, under the request's context.  An attempt waits for the         *)
(* response's headers, then reads the body; it is cut short when the HTTP  *)
(* client's own timeout or the context ends.                               *)
(*                                                                         *)
(* Time advances in ticks, and a goroutine that something woke runs before *)
(* the next tick.                                                          *)
(***************************************************************************)
EXTENDS Integers, FiniteSets

CONSTANTS Request,
          MaxRetries, BaseBackoff,  \* 2, 200ms
          Timeout,                  \* http.Client.Timeout, of one attempt
          ProxyTimeout              \* of the context

ASSUME ClientAssumption ==
  MaxRetries \in Nat /\ {BaseBackoff, Timeout, ProxyTimeout} \subseteq Nat \ {0}

VARIABLES
  call,    \* each request's ChatCompletionAt
  served   \* history: per request, the answers with a decodable body it was sent
           \* and the attempts that reached the provider

clientVars == <<call, served>>

\* 429 and 5xx are transient, any other error is not.
Status == {"ok", "transient", "refused"}

\* left: ticks until the context ends, 0 when it has or the client went away, -1 in
\* a tick it should not have lived to see.
CallState ==
  [at : {"idle", "headers", "body", "backoff"}, attempt : 0..MaxRetries + 1,
   status : Status, timer : 0..Timeout, backoff : Nat, wait : Nat, left : -1..ProxyTimeout]
NoCall == [at |-> "idle", attempt |-> 0, status |-> "ok", timer |-> 0,
           backoff |-> 0, wait |-> 0, left |-> 0]

ClientInit ==
  /\ call = [c \in Request |-> NoCall]
  /\ served = [c \in Request |-> [answers |-> 0, attempts |-> 0]]

Busy(c) == call[c].at # "idle"

\* An attempt.  One whose context has ended does not reach the provider.
Attempt(c, p) ==
  /\ call' = [call EXCEPT ![c] =
       [at |-> "headers", attempt |-> p.attempt + 1, status |-> "ok", timer |-> Timeout,
        backoff |-> p.backoff, wait |-> 0, left |-> p.left]]
  /\ served' = [served EXCEPT ![c].attempts = IF p.left > 0 THEN @ + 1 ELSE @]

Begin(c) ==
  /\ ~Busy(c)
  /\ call' = [call EXCEPT ![c] =
       [at |-> "headers", attempt |-> 1, status |-> "ok", timer |-> Timeout,
        backoff |-> BaseBackoff, wait |-> 0, left |-> ProxyTimeout]]
  /\ served' = [served EXCEPT ![c] = [answers |-> 0, attempts |-> 1]]

Return(c) == call' = [call EXCEPT ![c] = NoCall]

\* The attempt failed: give up, or back off, twice as long every time.
Fail(c, retryable) ==
  LET p == call[c] IN
  IF ~retryable \/ p.left <= 0 \/ p.attempt = MaxRetries + 1
  THEN Return(c)
  ELSE call' = [call EXCEPT ![c] =
         [at |-> "backoff", attempt |-> p.attempt, status |-> "ok", timer |-> 0,
          backoff |-> 2 * p.backoff, wait |-> p.backoff, left |-> p.left]]

\* Faulty: neither a timeout nor the context.
InterruptedNever(c) == FALSE

\* The HTTP client's timeout or the end of the context cuts the attempt short.
Interrupted(c) == call[c].timer = 0 \/ call[c].left <= 0

\* No answer: a timeout is a DeadlineExceeded and is not tried again.
NoHeaders(c) ==
  /\ call[c].at = "headers"
  /\ IF Interrupted(c) THEN Fail(c, FALSE) ELSE Fail(c, TRUE)
  /\ UNCHANGED served

Headers(c) ==
  /\ call[c].at = "headers" /\ ~Interrupted(c)
  /\ \E s \in Status : call' = [call EXCEPT ![c].at = "body", ![c].status = s]
  /\ UNCHANGED served

\* The connection is lost, or time is up: tried again while the context lives.
BodyLost(c) ==
  /\ call[c].at = "body"
  /\ Fail(c, TRUE)
  /\ UNCHANGED served

\* Faulty: an answer that cannot be decoded is asked for again.
BodyRetried(c) ==
  /\ call[c].at = "body" /\ ~Interrupted(c)
  /\ \/ call[c].status = "ok" /\ Return(c)
     \/ Fail(c, call[c].status # "refused")
  /\ served' = [served EXCEPT ![c].answers = IF call[c].status = "ok" THEN @ + 1 ELSE @]

\* The body: an answer, decodable or not, or an error.
Body(c) ==
  /\ call[c].at = "body" /\ ~Interrupted(c)
  /\ \/ call[c].status = "ok" /\ Return(c)
     \/ Fail(c, call[c].status = "transient")
  /\ served' = [served EXCEPT ![c].answers = IF call[c].status = "ok" THEN @ + 1 ELSE @]

\* Faulty: time.Sleep.
BackoffSlept(c) == call[c].wait = 0

\* select: the context, or the timer; either when both are ready.
BackoffOver(c) == call[c].wait = 0 \/ call[c].left <= 0
Backoff(c) ==
  /\ call[c].at = "backoff" /\ BackoffOver(c)
  /\ \/ call[c].left <= 0 /\ Return(c) /\ UNCHANGED served
     \/ call[c].wait = 0 /\ Attempt(c, call[c])

\* The client goes away.
Cancel(c) ==
  /\ Busy(c) /\ call[c].left > 0
  /\ call' = [call EXCEPT ![c].left = 0]
  /\ UNCHANGED served

\* What must happen before time goes on.
Woken(c) ==
  \/ call[c].at \in {"headers", "body"} /\ Interrupted(c)
  \/ call[c].at = "backoff" /\ BackoffOver(c)

Pass(n) == IF n > 0 THEN n - 1 ELSE 0
Late(n) == IF n >= 0 THEN n - 1 ELSE n
ClientTick ==
  /\ \A c \in Request : ~Woken(c)
  /\ call' = [c \in Request |->
       IF Busy(c) THEN [call[c] EXCEPT !.timer = Pass(@), !.wait = Pass(@), !.left = Late(@)]
                  ELSE call[c]]
  /\ UNCHANGED served

Client(c) == NoHeaders(c) \/ Headers(c) \/ BodyLost(c) \/ Body(c) \/ Backoff(c)

-----------------------------------------------------------------------------
(* Properties. *)

\* No request outlives its context, neither in a backoff nor in an attempt with
\* a timeout of its own (client.go:80, router.go:68).
AnsweredInTime == \A c \in Request : Busy(c) => call[c].left >= 0

\* The provider gets a request at most MaxRetries + 1 times, and never again once
\* it has given an answer, good or undecodable ("Retries apply only to transient
\* failures", client.go:24).  What was lost on the way may have been charged.
CallsBounded ==
  \A c \in Request :
    /\ served[c].attempts <= MaxRetries + 1
    /\ served[c].answers <= 1
    /\ served[c].answers = 1 => ~Busy(c)
=============================================================================
