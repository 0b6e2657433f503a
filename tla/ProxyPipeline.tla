---------------------------- MODULE ProxyPipeline ----------------------------
(***************************************************************************)
(* The data plane's request path: API-key authentication, source lookup,   *)
(* input transformers, input guards, LLM call, output transformers, output *)
(* guards, audit record and alert, while the poller swaps the workspace    *)
(* config underneath the running requests.  One phase's guards are one     *)
(* decision here (GuardEngine implements it); the answers of guards,       *)
(* transformers and the LLM are arbitrary.                                 *)
(***************************************************************************)
EXTENDS PassCriteria, Sequences, FiniteSetsExt

CONSTANTS Request, Key, Org, Route, Webhook,
          KeyOrg, WebhookOrg,   \* the organization a key / webhook belongs to
          Text,                 \* message contents
          EmptyText,            \* what guards see of no message
          Conversation,         \* messages arrays clients send and transformers return
          Workspace,            \* workspace configs the poller may apply
          MaxVersions,          \* bound: configs applied during a behavior
          MaxChoices            \* bound: choices in a response, and in its rewrites

\* on_error of a transformer.
OnError == {"fail_closed", "fail_open"}

\* A resolved source: its transformer chains and guard phases, and the guards
\* with scope: all_messages.
Source == [org : Org, route : Route, enabled : BOOLEAN,
           inChain : Seq(OnError), outChain : Seq(OnError),
           inPhase : Configs, outPhase : Configs, wide : SUBSET Guard]

\* A message: who speaks, and the text of it.
Role == {"user", "other"}
Message == [role : Role, text : Text]

\* A resolved workspace config.  (organization, route) is unique.
WorkspaceConfig == [keys : SUBSET Key, sources : SUBSET Source, webhooks : SUBSET Webhook]

ASSUME OwnerAssumption ==
  KeyOrg \in [Key -> Org] /\ WebhookOrg \in [Webhook -> Org]
ASSUME TextAssumption == EmptyText \in Text
ASSUME ConversationAssumption == Conversation \subseteq Seq(Message)
ASSUME WorkspaceAssumption ==
  /\ Workspace \subseteq WorkspaceConfig
  /\ \A w \in Workspace : \A s, t \in w.sources :
       s.org = t.org /\ s.route = t.route => s = t
ASSUME PipelineBoundAssumption == MaxVersions \in Nat /\ MaxChoices \in Nat

VARIABLES
  applied,      \* configs applied so far; the store serves the last one
  rq,           \* per request, its progress through Execute
  audit,        \* per request, what it passed to AuditSink.Record
  alerts        \* per request, the webhooks an alert was posted to

vars == <<applied, rq, audit, alerts>>

Answers == {"none", "refused", "error", "rejected", "passed"}
Steps == {"idle", "authed", "input", "llm", "output", "outGuards", "deliver",
          "alert", "done"}

\* What the guards of an input phase are given: the texts of messages.
Judgement == [Guard -> Seq(Text)]

\* ver and authVer index applied (0: not yet); msgs are ChatRequest.Messages.
\* Histories: calls, the arrays sent to the LLM; inCleared and outCleared, what was
\* before the guards of a phase that accepted; inRan and outRan, the chain positions
\* whose transformer succeeded.
RequestState ==
  [at : Steps, answer : Answers, key : Key, route : Route,
   authVer : Nat, ver : Nat, pos : Nat \ {0}, msgs : Seq(Message), work : Seq(Text),
   choices : Seq(Text), calls : Seq(Seq(Message)), billed : BOOLEAN,
   inCleared : Seq(Judgement), outCleared : Seq(Text),
   inRan : SUBSET Nat, outRan : SUBSET Nat, delivered : Seq(Text)]

AuditEntry == [result : {"pass", "fail"}, prompt : Text, usage : BOOLEAN]

TextLists == UNION {[1..n -> Text] : n \in 0..MaxChoices}

Current == Len(applied)
Live == applied[Current]

\* Faulty variant: sources are keyed by route alone.
SourcesByRoute(v, q) == {s \in applied[v].sources : s.route = q.route}

\* LookupSource on the config of version v: the source is keyed by the
\* caller's organization and the route in the URL.
SourcesAt(v, q) ==
  {s \in applied[v].sources : s.org = KeyOrg[q.key] /\ s.route = q.route}

\* The source captured by the request, a pointer into the config of q.ver.
SourceOf(q) == CHOOSE s \in SourcesAt(q.ver, q) : TRUE

\* Handle refuses an empty messages array.
NewRequest(k, rt, ms) ==
  [at |-> "idle", answer |-> "none", key |-> k, route |-> rt, authVer |-> 0,
   ver |-> 0, pos |-> 1, msgs |-> ms, work |-> <<>>, choices |-> <<>>,
   calls |-> <<>>, billed |-> FALSE, inCleared |-> <<>>, outCleared |-> <<>>,
   inRan |-> {}, outRan |-> {}, delivered |-> <<>>]

Init ==
  /\ applied = <<>>
  /\ rq \in [Request -> {NewRequest(k, rt, ms) : k \in Key, rt \in Route,
                                                ms \in Conversation \ {<<>>}}]
  /\ audit = [r \in Request |-> <<>>]
  /\ alerts = [r \in Request |-> {}]
-----------------------------------------------------------------------------
\* Store.Apply swaps the config in one atomic store.
ApplyConfig(w) ==
  /\ Current < MaxVersions
  /\ applied' = Append(applied, w)
  /\ UNCHANGED <<rq, audit, alerts>>

\* Request r continues in state q; nothing else changes.
Continue(r, q) ==
  /\ rq' = [rq EXCEPT ![r] = q]
  /\ UNCHANGED <<applied, audit, alerts>>

Finish(r, answer) == Continue(r, [rq[r] EXCEPT !.at = "done", !.answer = answer])

\* APIKeyAuth: 503 without a config, 401 for a key it does not hold.
Authenticate(r) ==
  /\ rq[r].at = "idle"
  /\ IF Current > 0 /\ rq[r].key \in Live.keys
     THEN Continue(r, [rq[r] EXCEPT !.at = "authed", !.authVer = Current])
     ELSE Finish(r, "refused")

\* The per-key rate limiter answers 429, or Handle refuses the body with 400.
Throttle(r) ==
  /\ rq[r].at = "authed"
  /\ Finish(r, "refused")

\* Execute reads the store again: the config may have changed since
\* authentication.
Lookup(r) ==
  /\ rq[r].at = "authed"
  /\ IF \E s \in SourcesAt(Current, rq[r]) : s.enabled
     THEN Continue(r, [rq[r] EXCEPT !.at = "input", !.ver = Current])
     ELSE Finish(r, "error")

\* ApplyAll over the input chain: a transformer rewrites the messages; a failing
\* one is skipped if fail-open, otherwise the request is aborted.
TransformInput(r) ==
  LET q == rq[r]
      chain == SourceOf(q).inChain
  IN  /\ q.at = "input"
      /\ q.pos <= Len(chain)
      /\ \/ \E ms \in Conversation :
              Continue(r, [q EXCEPT !.msgs = ms, !.pos = q.pos + 1,
                                    !.inRan = q.inRan \cup {q.pos}])
         \/ /\ chain[q.pos] = "fail_open"
            /\ Continue(r, [q EXCEPT !.pos = q.pos + 1])
         \/ /\ chain[q.pos] = "fail_closed"
            /\ Finish(r, "error")

\* ExtractInputText: the last user message.
UserAt(ms) == {i \in DOMAIN ms : ms[i].role = "user"}
InputText(ms) == IF UserAt(ms) = {} THEN EmptyText ELSE ms[Max(UserAt(ms))].text

\* SerializeMessages, but for the roles written before the texts.
Serialized(ms) == [i \in DOMAIN ms |-> ms[i].text]

\* Each input guard of source s is given the last user message; one with scope
\* all_messages the whole conversation, if there is any.
Judged(s, ms) ==
  [g \in Guard |-> IF g \notin s.inPhase.attached THEN <<>>
                   ELSE IF g \in s.wide /\ ms # <<>> THEN Serialized(ms)
                   ELSE <<InputText(ms)>>]

\* Faulty variant: a rejection never carries token usage.
RejectWithoutUsage(r, usage) ==
  /\ rq' = [rq EXCEPT ![r].at = "alert", ![r].answer = "rejected"]
  /\ audit' = [audit EXCEPT ![r] =
                 Append(@, [result |-> "fail", prompt |-> InputText(rq[r].msgs), usage |-> FALSE])]
  /\ UNCHANGED <<applied, alerts>>

\* A rejection records the request and goes on to alert.
Reject(r, usage) ==
  /\ rq' = [rq EXCEPT ![r].at = "alert", ![r].answer = "rejected"]
  /\ audit' = [audit EXCEPT ![r] =
                 Append(@, [result |-> "fail", prompt |-> InputText(rq[r].msgs), usage |-> usage])]
  /\ UNCHANGED <<applied, alerts>>

\* Faulty variant: the guards do not wait for the transformers.
InputGuardsUnordered(r) ==
  LET q == rq[r]
      c == SourceOf(q).inPhase
  IN  /\ q.at = "input"
      /\ \E verdict \in [c.attached -> Verdict] :
           IF Accepts(c, verdict)
           THEN Continue(r, [q EXCEPT !.at = "llm",
                  !.inCleared = IF c.attached = {} THEN @ ELSE Append(@, Judged(SourceOf(q), q.msgs))])
           ELSE Reject(r, FALSE)

\* The input phase decides on the transformed messages; no guards is a pass.
InputGuards(r) ==
  LET q == rq[r]
      c == SourceOf(q).inPhase
  IN  /\ q.at = "input"
      /\ q.pos > Len(SourceOf(q).inChain)
      /\ \E verdict \in [c.attached -> Verdict] :
           IF Accepts(c, verdict)
           THEN Continue(r, [q EXCEPT !.at = "llm",
                  !.inCleared = IF c.attached = {} THEN @ ELSE Append(@, Judged(SourceOf(q), q.msgs))])
           ELSE Reject(r, FALSE)

\* The LLM client (with its own retries) sends the whole array and returns a
\* response or gives up.
CallLLM(r) ==
  LET q == rq[r]
  IN  /\ q.at = "llm"
      /\ \/ \E cs \in TextLists :
              Continue(r, [q EXCEPT
                !.at = IF SourceOf(q).outChain = <<>> \/ cs = <<>>
                       THEN "outGuards" ELSE "output",
                !.pos = 1, !.choices = cs, !.work = cs, !.billed = TRUE,
                !.calls = Append(@, q.msgs)])
         \/ Continue(r, [q EXCEPT !.at = "done", !.answer = "error",
                                  !.calls = Append(@, q.msgs)])

\* ApplyAll over the output chain: the choices' messages, one per choice.  A
\* transformer may return any number of messages.
TransformOutput(r) ==
  LET q == rq[r]
      chain == SourceOf(q).outChain
  IN  /\ q.at = "output"
      /\ q.pos <= Len(chain)
      /\ \/ \E cs \in TextLists :
              Continue(r, [q EXCEPT !.work = cs, !.pos = q.pos + 1,
                                    !.outRan = q.outRan \cup {q.pos}])
         \/ /\ chain[q.pos] = "fail_open"
            /\ Continue(r, [q EXCEPT !.pos = q.pos + 1])
         \/ /\ chain[q.pos] = "fail_closed"
            /\ Finish(r, "error")

\* The rewritten messages replace the choices' if there are as many.
AdoptOutput(r) ==
  LET q == rq[r]
  IN  /\ q.at = "output"
      /\ q.pos > Len(SourceOf(q).outChain)
      /\ IF Len(q.work) = Len(q.choices)
         THEN Continue(r, [q EXCEPT !.at = "outGuards", !.choices = q.work])
         ELSE Finish(r, "error")

\* ExtractOutputText: the first choice only.
OutputText(q) == IF q.choices = <<>> THEN EmptyText ELSE q.choices[1]

\* Faulty variant: the guards see the response before it is rewritten.
OutputGuardsEarly(r) ==
  LET q == rq[r]
      c == SourceOf(q).outPhase
  IN  /\ q.at \in {"output", "outGuards"}
      /\ \E verdict \in [c.attached -> Verdict] :
           IF Accepts(c, verdict)
           THEN Continue(r, [q EXCEPT !.at = "deliver",
                  !.outCleared = IF c.attached = {} THEN @ ELSE Append(@, OutputText(q))])
           ELSE Reject(r, TRUE)

\* The output phase decides on the text of the rewritten response.
OutputGuards(r) ==
  LET q == rq[r]
      c == SourceOf(q).outPhase
  IN  /\ q.at = "outGuards"
      /\ \E verdict \in [c.attached -> Verdict] :
           IF Accepts(c, verdict)
           THEN Continue(r, [q EXCEPT !.at = "deliver",
                  !.outCleared = IF c.attached = {} THEN @ ELSE Append(@, OutputText(q))])
           ELSE Reject(r, TRUE)

\* Record "pass" and write the response.
Deliver(r) ==
  /\ rq[r].at = "deliver"
  /\ rq' = [rq EXCEPT ![r].at = "done", ![r].answer = "passed",
                      ![r].delivered = rq[r].choices]
  /\ audit' = [audit EXCEPT ![r] =
                 Append(@, [result |-> "pass", prompt |-> InputText(rq[r].msgs), usage |-> TRUE])]
  /\ UNCHANGED <<applied, alerts>>

\* The organization's webhooks, in the config live when the alert is sent.
WebhooksOf(q) == {h \in Live.webhooks : WebhookOrg[h] = KeyOrg[q.key]}

\* Faulty variant: a request without webhooks to alert never returns.
AlertConfigured(r) ==
  /\ rq[r].at = "alert"
  /\ \E hs \in SUBSET WebhooksOf(rq[r]) \ {{}} : alerts' = [alerts EXCEPT ![r] = hs]
  /\ rq' = [rq EXCEPT ![r].at = "done"]
  /\ UNCHANGED <<applied, audit>>

\* Notify posts to each webhook its rate cap admits.
Alert(r) ==
  /\ rq[r].at = "alert"
  /\ \E hs \in SUBSET WebhooksOf(rq[r]) : alerts' = [alerts EXCEPT ![r] = hs]
  /\ rq' = [rq EXCEPT ![r].at = "done"]
  /\ UNCHANGED <<applied, audit>>

Handle(r) ==
  \/ Authenticate(r) \/ Throttle(r) \/ Lookup(r) \/ TransformInput(r)
  \/ InputGuards(r) \/ CallLLM(r) \/ TransformOutput(r) \/ AdoptOutput(r)
  \/ OutputGuards(r) \/ Deliver(r) \/ Alert(r)

Next ==
  \/ \E w \in Workspace : ApplyConfig(w)
  \/ \E r \in Request : Handle(r)

Spec == Init /\ [][Next]_vars

\* Every handler runs to its end: each call it makes is bounded by the
\* request's timeout.
FairSpec == Spec /\ \A r \in Request : WF_vars(Handle(r))
-----------------------------------------------------------------------------
TypeOK ==
  /\ applied \in Seq(WorkspaceConfig)
  /\ rq \in [Request -> RequestState]
  /\ audit \in [Request -> Seq(AuditEntry)]
  /\ alerts \in [Request -> SUBSET Webhook]

\* A transformer that fails closed and did not succeed.
Unrun(chain, ran) == {i \in 1..Len(chain) : chain[i] = "fail_closed" /\ i \notin ran}

\* processor.go:150: "The transformed request is what input guards and the LLM see."
\* The provider is asked once, with an array every fail-closed transformer of the
\* source has rewritten, and of which each input guard was given its part: the last
\* user message, or all of it with scope all_messages.  What else is in the array no
\* guard of the default scope has seen.
GuardedCall ==
  \A r \in Request : LET q == rq[r] IN q.calls # <<>> =>
    /\ Len(q.calls) = 1
    /\ Unrun(SourceOf(q).inChain, q.inRan) = {}
    /\ SourceOf(q).inPhase.attached # {} =>
         q.inCleared = <<Judged(SourceOf(q), q.calls[1])>>

\* The client gets no part of a response before it is through the fail-closed
\* output transformers and its text was accepted by the output guards: not
\* while they run, not when they reject, not on an error.
GuardedDelivery ==
  \A r \in Request : LET q == rq[r] IN
    /\ q.delivered # <<>> => q.answer = "passed"
    /\ q.answer = "passed" =>
         /\ Len(q.calls) = 1
         /\ q.delivered # <<>> => Unrun(SourceOf(q).outChain, q.outRan) = {}
         /\ SourceOf(q).outPhase.attached # {} => q.outCleared = <<OutputText(q)>>

\* Whatever config is swapped in between its two reads of the store, a request
\* is served by an enabled source of the organization whose key it presented,
\* in a config no older than the one that authenticated it, and its rejection
\* is posted to that organization's webhooks only.
TenantIsolation ==
  \A r \in Request : LET q == rq[r] IN
    /\ q.ver # 0 => /\ q.authVer \in 1..q.ver
                    /\ q.key \in applied[q.authVer].keys
                    /\ SourceOf(q).org = KeyOrg[q.key]
                    /\ SourceOf(q).enabled
    /\ \A h \in alerts[r] : WebhookOrg[h] = KeyOrg[q.key]

\* A decided request has one audit entry, which says what was decided, about which
\* last user message, and whether tokens were used; no request has two, and one that
\* was not served has none.  An alert is posted for recorded rejections only.
AuditFaithful ==
  \A r \in Request : LET q == rq[r] IN
    /\ Len(audit[r]) <= 1
    /\ q.ver = 0 => audit[r] = <<>>
    /\ q.answer \in {"passed", "rejected"} =>
         /\ audit[r] # <<>>
         /\ audit[r][1].result = (IF q.answer = "passed" THEN "pass" ELSE "fail")
         /\ audit[r][1].prompt = InputText(IF q.calls = <<>> THEN q.msgs ELSE q.calls[1])
         /\ audit[r][1].usage = q.billed
    /\ alerts[r] # {} => audit[r] # <<>> /\ audit[r][1].result = "fail"

\* Every request the server admits is answered, alerts included, whatever the
\* poller does meanwhile.
EventuallyAnswered == \A r \in Request : rq[r].at = "authed" ~> rq[r].at = "done"

\* Why the pipeline is sound, as an inductive invariant.  First, a request that
\* has a source got it from one config, after that or an earlier one admitted
\* its key.
Served(q) ==
  /\ q.at = "authed" => q.authVer \in 1..Current /\ q.key \in applied[q.authVer].keys
  /\ q.ver # 0 => /\ q.ver \in 1..Current /\ q.authVer \in 1..q.ver
                  /\ q.key \in applied[q.authVer].keys
                  /\ \E s \in SourcesAt(q.ver, q) : s.enabled

\* Every fail-closed transformer before position n has succeeded.
RanUpTo(chain, ran, n) ==
  \A i \in 1..Len(chain) : i < n /\ chain[i] = "fail_closed" => i \in ran

\* What the provider gets, or got, went through all of source s.
InputCleared(q, s) ==
  /\ RanUpTo(s.inChain, q.inRan, Len(s.inChain) + 1)
  /\ s.inPhase.attached # {} => q.inCleared = <<Judged(s, q.msgs)>>

OutputRewritten(q, s) ==
  q.choices # <<>> => RanUpTo(s.outChain, q.outRan, Len(s.outChain) + 1)

\* Then, at each step, what has been done with source s so far, and what audit
\* log au and alerts al say of it.
Sound(q, s, au, al) ==
  /\ q.at \in {"idle", "authed"} => q.ver = 0 /\ q.pos = 1 /\ q.inCleared = <<>>
  /\ q.at \in {"input", "llm", "output", "outGuards", "deliver", "alert"} => q.ver # 0
  /\ q.at = "input" => q.inCleared = <<>> /\ RanUpTo(s.inChain, q.inRan, q.pos)
  /\ q.at = "llm" => InputCleared(q, s)
  /\ q.at \in {"idle", "authed", "input", "llm"} =>
       q.calls = <<>> /\ ~q.billed /\ q.outCleared = <<>>
  /\ q.calls # <<>> => q.ver # 0 /\ q.calls = <<q.msgs>> /\ InputCleared(q, s)
  /\ q.at \in {"output", "outGuards", "deliver"} => q.calls # <<>> /\ q.billed
  /\ q.at \in {"output", "outGuards"} => q.outCleared = <<>>
  /\ q.at = "output" => RanUpTo(s.outChain, q.outRan, q.pos)
  /\ q.at = "outGuards" => OutputRewritten(q, s)
  /\ q.at = "deliver" \/ q.answer = "passed" =>
       /\ q.calls # <<>> /\ q.billed /\ OutputRewritten(q, s)
       /\ s.outPhase.attached # {} => q.outCleared = <<OutputText(q)>>
  /\ q.at \notin {"alert", "done"} => q.answer = "none"
  /\ q.at = "alert" => q.answer = "rejected"
  /\ q.answer = "rejected" => q.ver # 0
  /\ q.delivered # <<>> => q.answer = "passed" /\ q.delivered = q.choices
  /\ IF q.answer \in {"passed", "rejected"}
     THEN au = <<[result |-> IF q.answer = "passed" THEN "pass" ELSE "fail",
                  prompt |-> InputText(q.msgs), usage |-> q.billed]>>
     ELSE au = <<>>
  /\ al # {} => q.answer = "rejected"
  /\ \A h \in al : WebhookOrg[h] = KeyOrg[q.key]

PipelineInv ==
  /\ TypeOK
  /\ applied \in Seq(Workspace)
  /\ \A r \in Request : Served(rq[r]) /\ Sound(rq[r], SourceOf(rq[r]), audit[r], alerts[r])
=============================================================================
