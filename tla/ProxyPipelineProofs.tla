------------------------ MODULE ProxyPipelineProofs ------------------------
(***************************************************************************)
(* Proofs about ProxyPipeline, for any number of requests, organizations,  *)
(* configs and config swaps, chains of any length and any guard phases:    *)
(* what the provider and the client get went through the source's chains   *)
(* and guards, requests stay within their organization, and the audit log  *)
(* says what happened.                                                     *)
(***************************************************************************)
EXTENDS ProxyPipeline, NaturalsInduction, WellFoundedInduction, TLAPS

\* A source a request was served by is one of its config's, and enabled.
LEMMA SourceTyped ==
  ASSUME applied \in Seq(Workspace), NEW q \in RequestState, Served(q), q.ver # 0
  PROVE  /\ SourceOf(q) \in SourcesAt(q.ver, q)
         /\ SourceOf(q) \in Source
         /\ SourceOf(q).enabled
         /\ SourceOf(q).org = KeyOrg[q.key]
<1>1. PICK s \in SourcesAt(q.ver, q) : s.enabled
  BY DEF Served
<1>2. SourceOf(q) \in SourcesAt(q.ver, q)
  BY <1>1 DEF SourceOf
<1>3. q.ver \in 1..Len(applied)
  BY DEF Served, Current
<1>4. applied[q.ver] \in Workspace
  BY <1>3
<1>5. /\ applied[q.ver].sources \subseteq Source
      /\ \A t, u \in applied[q.ver].sources : t.org = u.org /\ t.route = u.route => t = u
  BY <1>4, WorkspaceAssumption DEF WorkspaceConfig
<1>6. SourceOf(q) = s
  BY <1>1, <1>2, <1>5 DEF SourcesAt
<1> QED BY <1>1, <1>2, <1>5, <1>6 DEF SourcesAt

\* A request without a source has done nothing that depends on one.
LEMMA NoSourceYet ==
  ASSUME NEW q, NEW s, NEW t, NEW au, NEW al, Sound(q, s, au, al), q.ver = 0
  PROVE  Sound(q, t, au, al)
BY DEF Sound

\* Texts the environment produces are sequences of texts.
LEMMA TextListsTyped == TextLists \subseteq Seq(Text)
BY DEF TextLists

\* The last user message is one of the messages.
LEMMA LastUser ==
  ASSUME NEW ms \in Seq(Message), UserAt(ms) # {}
  PROVE  Max(UserAt(ms)) \in DOMAIN ms
<1>1. PICK n \in Nat : n = Len(ms) /\ UserAt(ms) \subseteq 1..n
  BY DEF UserAt
<1> DEFINE T == {n - i : i \in UserAt(ms)}
           R == OpToRel(<, Nat)
<1>2. T \subseteq Nat /\ T # {}
  <2>1. ASSUME NEW i \in UserAt(ms) PROVE n - i \in Nat
    BY <1>1
  <2>2. PICK i \in UserAt(ms) : TRUE
    OBVIOUS
  <2>3. n - i \in T
    BY <2>2
  <2> QED BY <2>1, <2>3
<1>3. IsWellFoundedOn(R, Nat)
  BY NatLessThanWellFounded
<1>4. PICK x \in T : \A y \in T : ~(<<y, x>> \in R)
  <2> HIDE DEF T, R
  <2> QED BY <1>2, <1>3, WFMin
<1>5. \A y \in T : ~(y < x)
  BY <1>2, <1>4 DEF OpToRel
<1>6. PICK i \in UserAt(ms) : x = n - i
  OBVIOUS
<1>7. ASSUME NEW j \in UserAt(ms) PROVE i >= j
  <2>1. ~(n - j < n - i)
    BY <1>5, <1>6
  <2>2. j \in 1..n /\ i \in 1..n
    BY <1>1
  <2> QED BY <2>1, <2>2
<1>8. Max(UserAt(ms)) \in UserAt(ms)
  BY <1>7 DEF Max
<1> QED BY <1>8 DEF UserAt

\* What the guards are given, and what is recorded, are texts.
LEMMA JudgedTyped ==
  ASSUME NEW ms \in Seq(Message), NEW s
  PROVE  InputText(ms) \in Text /\ Judged(s, ms) \in Judgement
<1>1. \A i \in DOMAIN ms : ms[i].text \in Text
  <2> SUFFICES ASSUME NEW i \in DOMAIN ms PROVE ms[i].text \in Text
    OBVIOUS
  <2>1. ms[i] \in Message
    OBVIOUS
  <2> QED BY <2>1 DEF Message
<1>2. InputText(ms) \in Text
  BY <1>1, LastUser, TextAssumption DEF InputText
<1>3. Serialized(ms) \in Seq(Text)
  BY <1>1 DEF Serialized
<1> QED BY <1>2, <1>3 DEF Judged, Judgement

\* The store keeps serving what it served to requests that captured a source.
LEMMA SwapKeeps ==
  ASSUME applied \in Seq(Workspace), NEW w \in Workspace, applied' = Append(applied, w),
         NEW q \in RequestState, Served(q)
  PROVE  /\ Served(q)'
         /\ q.ver # 0 => SourceOf(q)' = SourceOf(q)
<1>1. Len(applied) \in Nat /\ Len(applied') = Len(applied) + 1
  OBVIOUS
<1>2. \A v \in 1..Len(applied) : applied'[v] = applied[v]
  OBVIOUS
<1>3. q.ver \in Nat /\ q.authVer \in Nat
  BY DEF RequestState
<1>4. ASSUME q.ver # 0
      PROVE  SourcesAt(q.ver, q)' = SourcesAt(q.ver, q)
  <2>1. q.ver \in 1..Len(applied)
    BY <1>4 DEF Served, Current
  <2> QED BY <2>1, <1>2 DEF SourcesAt
<1>5. q.ver # 0 => SourceOf(q)' = SourceOf(q)
  BY <1>4 DEF SourceOf
<1>6. Served(q)'
  <2>1. ASSUME q.at = "authed"
        PROVE  q.authVer \in 1..Len(applied') /\ q.key \in applied'[q.authVer].keys
    <3>1. q.authVer \in 1..Len(applied) /\ q.key \in applied[q.authVer].keys
      BY <2>1 DEF Served, Current
    <3> QED BY <3>1, <1>1, <1>2
  <2>2. ASSUME q.ver # 0
        PROVE  /\ q.ver \in 1..Len(applied') /\ q.authVer \in 1..q.ver
               /\ q.key \in applied'[q.authVer].keys
               /\ \E s \in SourcesAt(q.ver, q)' : s.enabled
    <3>1. /\ q.ver \in 1..Len(applied) /\ q.authVer \in 1..q.ver
          /\ q.key \in applied[q.authVer].keys
          /\ \E s \in SourcesAt(q.ver, q) : s.enabled
      BY <2>2 DEF Served, Current
    <3>2. q.authVer \in 1..Len(applied)
      BY <3>1, <1>1, <1>3
    <3> QED BY <3>1, <3>2, <1>1, <1>2, <1>4, <2>2
  <2> QED BY <2>1, <2>2 DEF Served, Current
<1> QED BY <1>5, <1>6

\* One request moves on, the others and the store stay.
LEMMA OneMoves ==
  ASSUME PipelineInv, NEW r \in Request, NEW q \in RequestState,
         NEW au \in Seq(AuditEntry), NEW al \in SUBSET Webhook,
         applied' = applied, rq' = [rq EXCEPT ![r] = q],
         audit' = [audit EXCEPT ![r] = au], alerts' = [alerts EXCEPT ![r] = al],
         Served(q), Sound(q, SourceOf(q), au, al)
  PROVE  PipelineInv'
<1>1. /\ rq \in [Request -> RequestState] /\ audit \in [Request -> Seq(AuditEntry)]
      /\ alerts \in [Request -> SUBSET Webhook] /\ applied \in Seq(WorkspaceConfig)
      /\ applied \in Seq(Workspace)
  BY DEF PipelineInv, TypeOK
<1>2. TypeOK'
  BY <1>1 DEF TypeOK
<1>3. ASSUME NEW t \in Request
      PROVE  (Served(rq[t]) /\ Sound(rq[t], SourceOf(rq[t]), audit[t], alerts[t]))'
  <2>1. CASE t = r
    <3>1. (rq[t])' = q /\ (audit[t])' = au /\ (alerts[t])' = al
      BY <1>1, <2>1
    <3>2. Served(rq[t])' <=> Served(q)
      BY <3>1 DEF Served, SourcesAt, Current
    <3>3. SourcesAt(rq[t].ver, rq[t])' = SourcesAt(q.ver, q)
      BY <3>1 DEF SourcesAt
    <3>4. SourceOf(rq[t])' = SourceOf(q)
      BY <3>3 DEF SourceOf
    <3>5. Sound(rq[t], SourceOf(rq[t]), audit[t], alerts[t])' <=> Sound(q, SourceOf(q), au, al)
      BY <3>1, <3>4 DEF Sound, InputCleared, OutputRewritten, RanUpTo, OutputText
    <3> QED BY <3>2, <3>5
  <2>2. CASE t # r
    <3>1. (rq[t])' = rq[t] /\ (audit[t])' = audit[t] /\ (alerts[t])' = alerts[t]
      BY <1>1, <2>2
    <3>2. Served(rq[t])' <=> Served(rq[t])
      BY <3>1 DEF Served, SourcesAt, Current
    <3>3. SourcesAt(rq[t].ver, rq[t])' = SourcesAt(rq[t].ver, rq[t])
      BY <3>1 DEF SourcesAt
    <3>4. SourceOf(rq[t])' = SourceOf(rq[t])
      BY <3>3 DEF SourceOf
    <3>5. Sound(rq[t], SourceOf(rq[t]), audit[t], alerts[t])'
           <=> Sound(rq[t], SourceOf(rq[t]), audit[t], alerts[t])
      BY <3>1, <3>4 DEF Sound, InputCleared, OutputRewritten, RanUpTo, OutputText
    <3> QED BY <3>2, <3>5 DEF PipelineInv
  <2> QED BY <2>1, <2>2
<1> QED BY <1>1, <1>2, <1>3 DEF PipelineInv

\* What the invariant says of one request.
LEMMA OneRequest ==
  ASSUME PipelineInv, NEW r \in Request
  PROVE  /\ rq[r] \in RequestState
         /\ audit[r] \in Seq(AuditEntry) /\ alerts[r] \in SUBSET Webhook
         /\ Served(rq[r])
         /\ Sound(rq[r], SourceOf(rq[r]), audit[r], alerts[r])
         /\ rq[r].ver # 0 => /\ SourceOf(rq[r]) \in Source
                             /\ SourceOf(rq[r]).enabled
                             /\ SourceOf(rq[r]).org = KeyOrg[rq[r].key]
BY SourceTyped DEF PipelineInv, TypeOK

\* Steps that touch no sink.
LEMMA Continues ==
  ASSUME PipelineInv, NEW r \in Request, NEW q \in RequestState, Continue(r, q),
         Served(q), Sound(q, SourceOf(q), audit[r], alerts[r])
  PROVE  PipelineInv'
<1>1. PICK au \in Seq(AuditEntry), al \in SUBSET Webhook : au = audit[r] /\ al = alerts[r]
  BY OneRequest
<1>2. audit' = [audit EXCEPT ![r] = au] /\ alerts' = [alerts EXCEPT ![r] = al]
  BY <1>1 DEF Continue, PipelineInv, TypeOK
<1> QED BY <1>1, <1>2, OneMoves DEF Continue

\* A request keeps its source while it keeps its key, route and version.
LEMMA KeepsSource ==
  ASSUME NEW p, NEW q, q.key = p.key, q.route = p.route, q.ver = p.ver,
         q.authVer = p.authVer, q.at # "authed", Served(p)
  PROVE  Served(q) /\ SourceOf(q) = SourceOf(p)
<1>1. SourcesAt(q.ver, q) = SourcesAt(p.ver, p)
  BY DEF SourcesAt
<1>2. SourceOf(q) = SourceOf(p)
  BY <1>1 DEF SourceOf
<1>3. Served(q)
  BY <1>1 DEF Served
<1> QED BY <1>2, <1>3

\* One request moves on with the source it has.
LEMMA MovesOn ==
  ASSUME PipelineInv, NEW r \in Request, NEW q \in RequestState,
         NEW au \in Seq(AuditEntry), NEW al \in SUBSET Webhook,
         applied' = applied, rq' = [rq EXCEPT ![r] = q],
         audit' = [audit EXCEPT ![r] = au], alerts' = [alerts EXCEPT ![r] = al],
         q.key = rq[r].key, q.route = rq[r].route, q.ver = rq[r].ver,
         q.authVer = rq[r].authVer, q.at # "authed",
         Sound(q, SourceOf(rq[r]), au, al)
  PROVE  PipelineInv'
<1>1. PICK p : p = rq[r]
  OBVIOUS
<1>2. Served(q) /\ SourceOf(q) = SourceOf(rq[r])
  BY <1>1, OneRequest, KeepsSource
<1> QED BY <1>2, OneMoves

LEMMA ContinuesOn ==
  ASSUME PipelineInv, NEW r \in Request, NEW q \in RequestState, Continue(r, q),
         q.key = rq[r].key, q.route = rq[r].route, q.ver = rq[r].ver,
         q.authVer = rq[r].authVer, q.at # "authed",
         Sound(q, SourceOf(rq[r]), audit[r], alerts[r])
  PROVE  PipelineInv'
<1>1. PICK p : p = rq[r]
  OBVIOUS
<1>2. Served(q) /\ SourceOf(q) = SourceOf(rq[r])
  BY <1>1, OneRequest, KeepsSource
<1> QED BY <1>2, Continues

\* A request that ends undecided: refused, or an error.
LEMMA Finishes ==
  ASSUME PipelineInv, NEW r \in Request, NEW a \in {"refused", "error"},
         rq[r].at \notin {"alert", "done"}, Finish(r, a)
  PROVE  PipelineInv'
<1>1. rq[r] \in RequestState /\ Sound(rq[r], SourceOf(rq[r]), audit[r], alerts[r])
  BY OneRequest
<1>2. PICK q : q = [rq[r] EXCEPT !.at = "done", !.answer = a]
  OBVIOUS
<1>3. q \in RequestState
  BY <1>1, <1>2 DEF RequestState, Steps, Answers
<1>4. /\ q.key = rq[r].key /\ q.route = rq[r].route /\ q.ver = rq[r].ver
      /\ q.authVer = rq[r].authVer /\ q.at # "authed"
  BY <1>1, <1>2 DEF RequestState
<1>5. Sound(q, SourceOf(rq[r]), audit[r], alerts[r])
  BY <1>1, <1>2 DEF Sound, InputCleared, OutputRewritten, RanUpTo, RequestState
<1>6. Continue(r, q)
  BY <1>2 DEF Finish
<1> QED BY <1>3, <1>4, <1>5, <1>6, ContinuesOn

\* A failing fail-open transformer is skipped: the text stays as it was.
LEMMA Skips ==
  ASSUME PipelineInv, NEW r \in Request, NEW chain \in Seq(OnError),
         \/ rq[r].at = "input" /\ chain = SourceOf(rq[r]).inChain
         \/ rq[r].at = "output" /\ chain = SourceOf(rq[r]).outChain,
         rq[r].pos <= Len(chain), chain[rq[r].pos] = "fail_open",
         Continue(r, [rq[r] EXCEPT !.pos = rq[r].pos + 1])
  PROVE  PipelineInv'
<1>1. rq[r] \in RequestState /\ Sound(rq[r], SourceOf(rq[r]), audit[r], alerts[r])
  BY OneRequest
<1>2. PICK q : q = [rq[r] EXCEPT !.pos = rq[r].pos + 1]
  OBVIOUS
<1>3. rq[r].pos \in Nat /\ rq[r].pos + 1 \in Nat \ {0}
  <2>1. rq[r].pos \in Nat
    BY <1>1 DEF RequestState
  <2> QED BY <2>1
<1>4. /\ q.key = rq[r].key /\ q.route = rq[r].route /\ q.ver = rq[r].ver
      /\ q.authVer = rq[r].authVer /\ q.at # "authed"
  BY <1>1, <1>2 DEF RequestState
<1>5. q \in RequestState
  BY <1>1, <1>2, <1>3 DEF RequestState
<1>6. ASSUME NEW ran, RanUpTo(chain, ran, rq[r].pos)
      PROVE  RanUpTo(chain, ran, rq[r].pos + 1)
  BY <1>3, <1>6 DEF RanUpTo
<1>7. Sound(q, SourceOf(rq[r]), audit[r], alerts[r])
  <2>1. PICK n : n = rq[r].pos + 1
    OBVIOUS
  <2>2. q = [rq[r] EXCEPT !.pos = n]
    BY <1>2, <2>1
  <2>3. rq[r].at = "input" => RanUpTo(SourceOf(rq[r]).inChain, rq[r].inRan, n)
    BY <1>1, <1>6, <2>1 DEF Sound
  <2>4. rq[r].at = "output" => RanUpTo(SourceOf(rq[r]).outChain, rq[r].outRan, n)
    BY <1>1, <1>6, <2>1 DEF Sound
  <2>5. OutputText(q) = OutputText(rq[r])
    BY <1>1, <2>2 DEF OutputText, RequestState
  <2> QED BY <1>1, <2>2, <2>3, <2>4, <2>5
          DEF Sound, InputCleared, OutputRewritten, RequestState
<1>8. Continue(r, q)
  BY <1>2
<1> QED BY <1>4, <1>5, <1>7, <1>8, ContinuesOn

\* A transformer that succeeds has run.
LEMMA RanNext ==
  ASSUME NEW chain, NEW ran, NEW n \in Nat, RanUpTo(chain, ran, n)
  PROVE  RanUpTo(chain, ran \cup {n}, n + 1)
BY DEF RanUpTo

LEMMA RanAll ==
  ASSUME NEW chain \in Seq(OnError), NEW ran, NEW n \in Nat, n > Len(chain),
         RanUpTo(chain, ran, n)
  PROVE  RanUpTo(chain, ran, Len(chain) + 1)
BY DEF RanUpTo
-----------------------------------------------------------------------------
\* Initially no request has a source, and nothing was done.
LEMMA InitInv == Init => PipelineInv
<1> SUFFICES ASSUME Init PROVE PipelineInv
  OBVIOUS
<1>1. ASSUME NEW r \in Request
      PROVE  /\ rq[r] \in RequestState /\ Served(rq[r])
             /\ Sound(rq[r], SourceOf(rq[r]), audit[r], alerts[r])
  <2>1. PICK k \in Key, rt \in Route, ms \in Seq(Message) : rq[r] = NewRequest(k, rt, ms)
    BY ConversationAssumption DEF Init
  <2>2. rq[r] \in RequestState
    BY <2>1 DEF NewRequest, RequestState, Steps, Answers
  <2>3. Served(rq[r])
    BY <2>1 DEF NewRequest, Served
  <2>4. Sound(rq[r], SourceOf(rq[r]), audit[r], alerts[r])
    BY <2>1 DEF NewRequest, Sound, Init
  <2> QED BY <2>2, <2>3, <2>4
<1>2. rq \in [Request -> RequestState]
  BY <1>1 DEF Init
<1> QED BY <1>1, <1>2 DEF Init, PipelineInv, TypeOK

\* The poller swaps the config in.
LEMMA ApplyConfigInv ==
  ASSUME PipelineInv, NEW w \in Workspace, ApplyConfig(w)
  PROVE  PipelineInv'
<1>1. /\ applied \in Seq(Workspace) /\ applied' = Append(applied, w)
      /\ rq' = rq /\ audit' = audit /\ alerts' = alerts
  BY DEF PipelineInv, ApplyConfig
<1>2. TypeOK'
  <2>1. applied \in Seq(WorkspaceConfig) /\ w \in WorkspaceConfig
    BY WorkspaceAssumption DEF PipelineInv, TypeOK
  <2> QED BY <1>1, <2>1 DEF PipelineInv, TypeOK
<1>3. ASSUME NEW r \in Request
      PROVE  (Served(rq[r]) /\ Sound(rq[r], SourceOf(rq[r]), audit[r], alerts[r]))'
  <2>1. PICK q, au, al :
           q = rq[r] /\ au = audit[r] /\ al = alerts[r]
    BY OneRequest
  <2>2. q \in RequestState /\ Served(q) /\ Sound(q, SourceOf(q), au, al)
    BY <2>1, OneRequest
  <2>3. Served(q)' /\ (q.ver # 0 => SourceOf(q)' = SourceOf(q))
    BY <1>1, <2>2, SwapKeeps DEF PipelineInv
  <2>4. Sound(q, SourceOf(q)', au, al)
    BY <2>2, <2>3, NoSourceYet
  <2>5. (rq[r])' = q /\ (audit[r])' = au /\ (alerts[r])' = al
    BY <1>1, <2>1
  <2>6. Served(rq[r])' <=> Served(q)'
    BY <2>5 DEF Served, SourcesAt, Current
  <2>7. SourceOf(rq[r])' = SourceOf(q)'
    <3>1. SourcesAt(rq[r].ver, rq[r])' = SourcesAt(q.ver, q)'
      BY <2>5 DEF SourcesAt
    <3> QED BY <3>1 DEF SourceOf
  <2>8. Sound(rq[r], SourceOf(rq[r]), audit[r], alerts[r])'
    BY <2>4, <2>5, <2>7 DEF Sound, InputCleared, OutputRewritten, RanUpTo, OutputText
  <2> QED BY <2>3, <2>6, <2>8
<1> QED BY <1>1, <1>2, <1>3 DEF PipelineInv

LEMMA AuthenticateInv ==
  ASSUME PipelineInv, NEW r \in Request, Authenticate(r)
  PROVE  PipelineInv'
<1>1. /\ rq[r] \in RequestState /\ rq[r].at = "idle"
      /\ Sound(rq[r], SourceOf(rq[r]), audit[r], alerts[r])
  BY OneRequest DEF Authenticate
<1>2. CASE ~(Current > 0 /\ rq[r].key \in Live.keys)
  <2>1. Finish(r, "refused")
    BY <1>2 DEF Authenticate
  <2> QED BY <1>1, <2>1, Finishes
<1>3. CASE Current > 0 /\ rq[r].key \in Live.keys
  <2>1. PICK q : q = [rq[r] EXCEPT !.at = "authed", !.authVer = Current]
    OBVIOUS
  <2>2. Continue(r, q)
    BY <1>3, <2>1 DEF Authenticate
  <2>3. Current \in Nat
    BY DEF PipelineInv, Current
  <2>4. q \in RequestState
    BY <1>1, <2>1, <2>3 DEF RequestState, Steps
  <2>5. q.ver = 0 /\ q.authVer = Current /\ q.key = rq[r].key
    BY <1>1, <2>1 DEF RequestState, Sound
  <2>6. Served(q)
    BY <1>3, <2>3, <2>5 DEF Served, Live
  <2>7. Sound(q, SourceOf(rq[r]), audit[r], alerts[r])
    BY <1>1, <2>1 DEF Sound, RequestState
  <2>8. Sound(q, SourceOf(q), audit[r], alerts[r])
    <3>1. PICK s, t, au, al : s = SourceOf(rq[r]) /\ t = SourceOf(q) /\ au = audit[r] /\ al = alerts[r]
      OBVIOUS
    <3> QED BY <2>5, <2>7, <3>1, NoSourceYet
  <2> QED BY <2>2, <2>4, <2>6, <2>8, Continues
<1> QED BY <1>2, <1>3

LEMMA LookupInv ==
  ASSUME PipelineInv, NEW r \in Request, Lookup(r)
  PROVE  PipelineInv'
<1>1. /\ rq[r] \in RequestState /\ rq[r].at = "authed" /\ Served(rq[r])
      /\ Sound(rq[r], SourceOf(rq[r]), audit[r], alerts[r])
  BY OneRequest DEF Lookup
<1>2. CASE ~ \E s \in SourcesAt(Current, rq[r]) : s.enabled
  <2>1. Finish(r, "error")
    BY <1>2 DEF Lookup
  <2> QED BY <1>1, <2>1, Finishes
<1>3. CASE \E s \in SourcesAt(Current, rq[r]) : s.enabled
  <2>1. PICK q : q = [rq[r] EXCEPT !.at = "input", !.ver = Current]
    OBVIOUS
  <2>2. Continue(r, q)
    BY <1>3, <2>1 DEF Lookup
  <2>3. Current \in Nat
    BY DEF PipelineInv, Current
  <2>4. q \in RequestState
    BY <1>1, <2>1, <2>3 DEF RequestState, Steps
  <2>5. /\ q.at = "input" /\ q.ver = Current /\ q.authVer = rq[r].authVer
        /\ q.key = rq[r].key /\ q.route = rq[r].route
    BY <1>1, <2>1 DEF RequestState
  <2>6. q.authVer \in 1..Current /\ q.key \in applied[q.authVer].keys
    BY <1>1, <2>5 DEF Served
  <2>7. SourcesAt(q.ver, q) = SourcesAt(Current, rq[r])
    BY <2>5 DEF SourcesAt
  <2>8. Current \in 1..Current
    BY <2>3, <2>6
  <2>9. Served(q)
    BY <1>3, <2>5, <2>6, <2>7, <2>8 DEF Served
  <2>10. q.pos = 1 /\ q.ver # 0
    BY <1>1, <2>1, <2>5, <2>8 DEF RequestState, Sound
  <2>11. Sound(q, SourceOf(q), audit[r], alerts[r])
    BY <1>1, <2>1, <2>10 DEF Sound, RanUpTo, RequestState
  <2> QED BY <2>2, <2>4, <2>9, <2>11, Continues
<1> QED BY <1>2, <1>3

LEMMA TransformInputInv ==
  ASSUME PipelineInv, NEW r \in Request, TransformInput(r)
  PROVE  PipelineInv'
<1>1. /\ rq[r] \in RequestState /\ rq[r].at = "input"
      /\ Sound(rq[r], SourceOf(rq[r]), audit[r], alerts[r])
  BY OneRequest DEF TransformInput
<1>2. PICK chain : chain = SourceOf(rq[r]).inChain
  OBVIOUS
<1>3. chain \in Seq(OnError)
  BY <1>1, <1>2, OneRequest DEF Sound, Source
<1>4. rq[r].pos \in Nat /\ rq[r].pos + 1 \in Nat \ {0}
  <2>1. rq[r].pos \in Nat
    BY <1>1 DEF RequestState
  <2> QED BY <2>1
<1>5. CASE \E ms \in Conversation : Continue(r, [rq[r] EXCEPT !.msgs = ms, !.pos = rq[r].pos + 1,
                                          !.inRan = rq[r].inRan \cup {rq[r].pos}])
  <2>1. PICK ms \in Conversation : Continue(r, [rq[r] EXCEPT !.msgs = ms, !.pos = rq[r].pos + 1,
                                          !.inRan = rq[r].inRan \cup {rq[r].pos}])
    BY <1>5
  <2>2. PICK q : q = [rq[r] EXCEPT !.msgs = ms, !.pos = rq[r].pos + 1,
                                   !.inRan = rq[r].inRan \cup {rq[r].pos}]
    OBVIOUS
  <2>3. q \in RequestState
    BY <1>1, <1>4, <2>2, ConversationAssumption DEF RequestState
  <2>4. /\ q.key = rq[r].key /\ q.route = rq[r].route /\ q.ver = rq[r].ver
        /\ q.authVer = rq[r].authVer /\ q.at # "authed"
    BY <1>1, <2>2 DEF RequestState
  <2>5. RanUpTo(chain, rq[r].inRan \cup {rq[r].pos}, rq[r].pos + 1)
    BY <1>1, <1>2, <1>4, RanNext DEF Sound
  <2>6. Sound(q, SourceOf(rq[r]), audit[r], alerts[r])
    BY <1>1, <1>2, <2>2, <2>5 DEF Sound, RequestState
  <2>7. Continue(r, q)
    BY <2>1, <2>2
  <2> QED BY <2>3, <2>4, <2>6, <2>7, ContinuesOn
<1>6. CASE /\ chain[rq[r].pos] = "fail_open"
           /\ Continue(r, [rq[r] EXCEPT !.pos = rq[r].pos + 1])
  <2>1. rq[r].pos <= Len(chain)
    BY <1>2 DEF TransformInput
  <2> QED BY <1>1, <1>2, <1>3, <1>6, <2>1, Skips
<1>7. CASE Finish(r, "error")
  BY <1>1, <1>7, Finishes
<1> QED BY <1>2, <1>5, <1>6, <1>7 DEF TransformInput

\* A rejection, in either phase.
LEMMA Rejects ==
  ASSUME PipelineInv, NEW r \in Request, NEW usage \in BOOLEAN, usage = rq[r].billed,
         rq[r].at \in {"input", "outGuards"}, Reject(r, usage)
  PROVE  PipelineInv'
<1>1. rq[r] \in RequestState /\ Sound(rq[r], SourceOf(rq[r]), audit[r], alerts[r])
  BY OneRequest
<1>2. PICK q : q = [rq[r] EXCEPT !.at = "alert", !.answer = "rejected"]
  OBVIOUS
<1>3. q \in RequestState
  BY <1>1, <1>2 DEF RequestState, Steps, Answers
<1>4. /\ q.key = rq[r].key /\ q.route = rq[r].route /\ q.ver = rq[r].ver
      /\ q.authVer = rq[r].authVer /\ q.at # "authed"
  BY <1>1, <1>2 DEF RequestState
<1>5. PICK au : au = <<[result |-> "fail", prompt |-> InputText(rq[r].msgs), usage |-> usage]>>
  OBVIOUS
<1>6. au \in Seq(AuditEntry)
  <2>1. InputText(rq[r].msgs) \in Text
    BY <1>1, JudgedTyped DEF RequestState
  <2> QED BY <1>5, <2>1 DEF AuditEntry
<1>7. audit[r] = <<>>
  BY <1>1 DEF Sound
<1>8. PICK al \in SUBSET Webhook : al = alerts[r]
  BY OneRequest
<1>9. Sound(q, SourceOf(rq[r]), au, al)
  BY <1>1, <1>2, <1>5, <1>8 DEF Sound, InputCleared, RequestState
<1>10. /\ applied' = applied /\ rq' = [rq EXCEPT ![r] = q]
       /\ audit' = [audit EXCEPT ![r] = au] /\ alerts' = [alerts EXCEPT ![r] = al]
  <2>1. rq' = [rq EXCEPT ![r] = q]
    BY <1>2 DEF Reject
  <2>2. audit' = [audit EXCEPT ![r] = au]
    BY <1>5, <1>7 DEF Reject
  <2>3. alerts' = [alerts EXCEPT ![r] = al]
    BY <1>8 DEF Reject, PipelineInv, TypeOK
  <2> QED BY <2>1, <2>2, <2>3 DEF Reject
<1> QED BY <1>3, <1>4, <1>6, <1>9, <1>10, MovesOn

LEMMA InputGuardsInv ==
  ASSUME PipelineInv, NEW r \in Request, InputGuards(r)
  PROVE  PipelineInv'
<1>1. /\ rq[r] \in RequestState /\ rq[r].at = "input" /\ ~rq[r].billed
      /\ Sound(rq[r], SourceOf(rq[r]), audit[r], alerts[r])
  BY OneRequest DEF InputGuards, Sound
<1>2. CASE Reject(r, FALSE)
  <2>1. FALSE = rq[r].billed
    BY <1>1, Zenon DEF RequestState
  <2> QED BY <1>1, <1>2, <2>1, Rejects
<1>3. CASE Continue(r, [rq[r] EXCEPT !.at = "llm",
                          !.inCleared = IF SourceOf(rq[r]).inPhase.attached = {} THEN @
                                        ELSE Append(@, Judged(SourceOf(rq[r]), rq[r].msgs))])
  <2>1. PICK ic : ic = IF SourceOf(rq[r]).inPhase.attached = {} THEN rq[r].inCleared
                        ELSE Append(rq[r].inCleared, Judged(SourceOf(rq[r]), rq[r].msgs))
    OBVIOUS
  <2>2. rq[r].inCleared = <<>> /\ Judged(SourceOf(rq[r]), rq[r].msgs) \in Judgement
    BY <1>1, JudgedTyped DEF Sound, RequestState
  <2>3. /\ ic \in Seq(Judgement)
        /\ SourceOf(rq[r]).inPhase.attached # {} => ic = <<Judged(SourceOf(rq[r]), rq[r].msgs)>>
    BY <2>1, <2>2
  <2>4. PICK q : q = [rq[r] EXCEPT !.at = "llm", !.inCleared = ic]
    OBVIOUS
  <2>5. q \in RequestState
    BY <1>1, <2>3, <2>4 DEF RequestState, Steps
  <2>6. /\ q.key = rq[r].key /\ q.route = rq[r].route /\ q.ver = rq[r].ver
        /\ q.authVer = rq[r].authVer /\ q.at # "authed"
    BY <1>1, <2>4 DEF RequestState
  <2>7. PICK chain : chain = SourceOf(rq[r]).inChain
    OBVIOUS
  <2>8. RanUpTo(chain, rq[r].inRan, Len(chain) + 1)
    <3>1. chain \in Seq(OnError) /\ rq[r].pos \in Nat
      BY <1>1, <2>7, OneRequest DEF Sound, Source, RequestState
    <3>2. rq[r].pos > Len(chain) /\ RanUpTo(chain, rq[r].inRan, rq[r].pos)
      BY <1>1, <2>7 DEF InputGuards, Sound
    <3> QED BY <3>1, <3>2, RanAll
  <2>9. Sound(q, SourceOf(rq[r]), audit[r], alerts[r])
    BY <1>1, <2>3, <2>4, <2>7, <2>8 DEF Sound, InputCleared, RequestState
  <2>10. Continue(r, q)
    BY <1>3, <2>1, <2>4
  <2> QED BY <2>5, <2>6, <2>9, <2>10, ContinuesOn
<1> QED BY <1>2, <1>3 DEF InputGuards

LEMMA CallLLMInv ==
  ASSUME PipelineInv, NEW r \in Request, CallLLM(r)
  PROVE  PipelineInv'
<1>1. /\ rq[r] \in RequestState /\ rq[r].at = "llm"
      /\ Sound(rq[r], SourceOf(rq[r]), audit[r], alerts[r])
  BY OneRequest DEF CallLLM
<1>2. PICK cl : cl = Append(rq[r].calls, rq[r].msgs)
  OBVIOUS
<1>3. cl = <<rq[r].msgs>> /\ cl \in Seq(Seq(Message)) /\ cl # <<>>
  <2>1. rq[r].calls = <<>> /\ rq[r].msgs \in Seq(Message)
    BY <1>1 DEF Sound, RequestState
  <2> QED BY <1>2, <2>1
<1>4. CASE \E cs \in TextLists :
             Continue(r, [rq[r] EXCEPT
               !.at = IF SourceOf(rq[r]).outChain = <<>> \/ cs = <<>> THEN "outGuards" ELSE "output",
               !.pos = 1, !.choices = cs, !.work = cs, !.billed = TRUE, !.calls = Append(@, rq[r].msgs)])
  <2>1. PICK cs \in TextLists :
             Continue(r, [rq[r] EXCEPT
               !.at = IF SourceOf(rq[r]).outChain = <<>> \/ cs = <<>> THEN "outGuards" ELSE "output",
               !.pos = 1, !.choices = cs, !.work = cs, !.billed = TRUE, !.calls = Append(@, rq[r].msgs)])
    BY <1>4
  <2>2. PICK at : at = IF SourceOf(rq[r]).outChain = <<>> \/ cs = <<>> THEN "outGuards" ELSE "output"
    OBVIOUS
  <2>3. PICK q : q = [rq[r] EXCEPT !.at = at, !.pos = 1, !.choices = cs, !.work = cs,
                                   !.billed = TRUE, !.calls = cl]
    OBVIOUS
  <2>4. Continue(r, q)
    BY <1>2, <2>1, <2>2, <2>3
  <2>5. cs \in Seq(Text) /\ at \in Steps
    BY <2>2, TextListsTyped DEF Steps
  <2>6. q \in RequestState
    <3>1. PICK p : p = [rq[r] EXCEPT !.at = at, !.pos = 1, !.calls = cl]
      OBVIOUS
    <3>2. p \in RequestState
      <4>1. cl \in Seq(Seq(Message)) /\ at \in Steps /\ 1 \in Nat \ {0} /\ rq[r] \in RequestState
        BY <1>1, <1>3, <2>5
      <4> QED BY <4>1, <3>1 DEF RequestState
    <3>3. q = [p EXCEPT !.choices = cs, !.work = cs, !.billed = TRUE]
      BY <1>1, <2>3, <3>1 DEF RequestState
    <3> QED BY <2>5, <3>2, <3>3 DEF RequestState
  <2>7. /\ q.key = rq[r].key /\ q.route = rq[r].route /\ q.ver = rq[r].ver
        /\ q.authVer = rq[r].authVer /\ q.at # "authed"
    BY <1>1, <2>2, <2>3 DEF RequestState
  <2>8. PICK chain : chain = SourceOf(rq[r]).outChain
    OBVIOUS
  <2>9. RanUpTo(chain, rq[r].outRan, 1)
    BY DEF RanUpTo
  <2>10. chain = <<>> => RanUpTo(chain, rq[r].outRan, Len(chain) + 1)
    BY DEF RanUpTo
  <2>11. Sound(q, SourceOf(rq[r]), audit[r], alerts[r])
    BY <1>1, <1>3, <2>2, <2>3, <2>8, <2>9, <2>10
      DEF Sound, InputCleared, OutputRewritten, RequestState
  <2> QED BY <2>4, <2>6, <2>7, <2>11, ContinuesOn
<1>5. CASE Continue(r, [rq[r] EXCEPT !.at = "done", !.answer = "error",
                                     !.calls = Append(@, rq[r].msgs)])
  <2>1. PICK q : q = [rq[r] EXCEPT !.at = "done", !.answer = "error", !.calls = cl]
    OBVIOUS
  <2>2. Continue(r, q)
    BY <1>2, <1>5, <2>1
  <2>3. q \in RequestState
    BY <1>1, <1>3, <2>1 DEF RequestState, Steps, Answers
  <2>4. /\ q.key = rq[r].key /\ q.route = rq[r].route /\ q.ver = rq[r].ver
        /\ q.authVer = rq[r].authVer /\ q.at # "authed"
    BY <1>1, <2>1 DEF RequestState
  <2>5. Sound(q, SourceOf(rq[r]), audit[r], alerts[r])
    BY <1>1, <1>3, <2>1 DEF Sound, InputCleared, RequestState
  <2> QED BY <2>2, <2>3, <2>4, <2>5, ContinuesOn
<1> QED BY <1>4, <1>5 DEF CallLLM

LEMMA TransformOutputInv ==
  ASSUME PipelineInv, NEW r \in Request, TransformOutput(r)
  PROVE  PipelineInv'
<1>1. /\ rq[r] \in RequestState /\ rq[r].at = "output"
      /\ Sound(rq[r], SourceOf(rq[r]), audit[r], alerts[r])
  BY OneRequest DEF TransformOutput
<1>2. PICK chain : chain = SourceOf(rq[r]).outChain
  OBVIOUS
<1>3. chain \in Seq(OnError)
  BY <1>1, <1>2, OneRequest DEF Sound, Source
<1>4. rq[r].pos \in Nat /\ rq[r].pos + 1 \in Nat \ {0}
  <2>1. rq[r].pos \in Nat
    BY <1>1 DEF RequestState
  <2> QED BY <2>1
<1>5. CASE \E cs \in TextLists : Continue(r, [rq[r] EXCEPT !.work = cs, !.pos = rq[r].pos + 1,
                                                 !.outRan = rq[r].outRan \cup {rq[r].pos}])
  <2>1. PICK cs \in TextLists : Continue(r, [rq[r] EXCEPT !.work = cs, !.pos = rq[r].pos + 1,
                                                !.outRan = rq[r].outRan \cup {rq[r].pos}])
    BY <1>5
  <2>2. PICK q : q = [rq[r] EXCEPT !.work = cs, !.pos = rq[r].pos + 1,
                                   !.outRan = rq[r].outRan \cup {rq[r].pos}]
    OBVIOUS
  <2>3. q \in RequestState
    BY <1>1, <1>4, <2>2, TextListsTyped DEF RequestState
  <2>4. /\ q.key = rq[r].key /\ q.route = rq[r].route /\ q.ver = rq[r].ver
        /\ q.authVer = rq[r].authVer /\ q.at # "authed"
    BY <1>1, <2>2 DEF RequestState
  <2>5. RanUpTo(chain, rq[r].outRan \cup {rq[r].pos}, rq[r].pos + 1)
    BY <1>1, <1>2, <1>4, RanNext DEF Sound
  <2>6. Sound(q, SourceOf(rq[r]), audit[r], alerts[r])
    BY <1>1, <1>2, <2>2, <2>5 DEF Sound, InputCleared, RequestState
  <2>7. Continue(r, q)
    BY <2>1, <2>2
  <2> QED BY <2>3, <2>4, <2>6, <2>7, ContinuesOn
<1>6. CASE /\ chain[rq[r].pos] = "fail_open"
           /\ Continue(r, [rq[r] EXCEPT !.pos = rq[r].pos + 1])
  <2>1. rq[r].pos <= Len(chain)
    BY <1>2 DEF TransformOutput
  <2> QED BY <1>1, <1>2, <1>3, <1>6, <2>1, Skips
<1>7. CASE Finish(r, "error")
  BY <1>1, <1>7, Finishes
<1> QED BY <1>2, <1>5, <1>6, <1>7 DEF TransformOutput

LEMMA AdoptOutputInv ==
  ASSUME PipelineInv, NEW r \in Request, AdoptOutput(r)
  PROVE  PipelineInv'
<1>1. /\ rq[r] \in RequestState /\ rq[r].at = "output"
      /\ Sound(rq[r], SourceOf(rq[r]), audit[r], alerts[r])
  BY OneRequest DEF AdoptOutput
<1>2. CASE Finish(r, "error")
  BY <1>1, <1>2, Finishes
<1>3. CASE Continue(r, [rq[r] EXCEPT !.at = "outGuards", !.choices = rq[r].work])
  <2>1. PICK q : q = [rq[r] EXCEPT !.at = "outGuards", !.choices = rq[r].work]
    OBVIOUS
  <2>2. q \in RequestState
    BY <1>1, <2>1 DEF RequestState, Steps
  <2>3. /\ q.key = rq[r].key /\ q.route = rq[r].route /\ q.ver = rq[r].ver
        /\ q.authVer = rq[r].authVer /\ q.at # "authed"
    BY <1>1, <2>1 DEF RequestState
  <2>4. PICK chain : chain = SourceOf(rq[r]).outChain
    OBVIOUS
  <2>5. RanUpTo(chain, rq[r].outRan, Len(chain) + 1)
    <3>1. chain \in Seq(OnError) /\ rq[r].pos \in Nat
      BY <1>1, <2>4, OneRequest DEF Sound, Source, RequestState
    <3>2. rq[r].pos > Len(chain) /\ RanUpTo(chain, rq[r].outRan, rq[r].pos)
      BY <1>1, <2>4 DEF AdoptOutput, Sound
    <3> QED BY <3>1, <3>2, RanAll
  <2>6. Sound(q, SourceOf(rq[r]), audit[r], alerts[r])
    BY <1>1, <2>1, <2>4, <2>5 DEF Sound, InputCleared, OutputRewritten, RequestState
  <2>7. Continue(r, q)
    BY <1>3, <2>1
  <2> QED BY <2>2, <2>3, <2>6, <2>7, ContinuesOn
<1> QED BY <1>2, <1>3 DEF AdoptOutput

LEMMA OutputGuardsInv ==
  ASSUME PipelineInv, NEW r \in Request, OutputGuards(r)
  PROVE  PipelineInv'
<1>1. /\ rq[r] \in RequestState /\ rq[r].at = "outGuards" /\ rq[r].billed
      /\ Sound(rq[r], SourceOf(rq[r]), audit[r], alerts[r])
  BY OneRequest DEF OutputGuards, Sound
<1>2. CASE Reject(r, TRUE)
  <2>1. TRUE = rq[r].billed
    BY <1>1, Zenon DEF RequestState
  <2> QED BY <1>1, <1>2, <2>1, Rejects
<1>3. CASE Continue(r, [rq[r] EXCEPT !.at = "deliver",
                          !.outCleared = IF SourceOf(rq[r]).outPhase.attached = {} THEN @
                                         ELSE Append(@, OutputText(rq[r]))])
  <2>1. PICK oc : oc = IF SourceOf(rq[r]).outPhase.attached = {} THEN rq[r].outCleared
                       ELSE Append(rq[r].outCleared, OutputText(rq[r]))
    OBVIOUS
  <2>2. rq[r].outCleared = <<>> /\ OutputText(rq[r]) \in Text
    <3>1. rq[r].choices \in Seq(Text)
      BY <1>1 DEF RequestState
    <3> QED BY <1>1, <3>1, TextAssumption DEF Sound, OutputText
  <2>3. /\ oc \in Seq(Text)
        /\ SourceOf(rq[r]).outPhase.attached # {} => oc = <<OutputText(rq[r])>>
    BY <2>1, <2>2
  <2>4. PICK q : q = [rq[r] EXCEPT !.at = "deliver", !.outCleared = oc]
    OBVIOUS
  <2>5. q \in RequestState
    BY <1>1, <2>3, <2>4 DEF RequestState, Steps
  <2>6. /\ q.key = rq[r].key /\ q.route = rq[r].route /\ q.ver = rq[r].ver
        /\ q.authVer = rq[r].authVer /\ q.at # "authed"
    BY <1>1, <2>4 DEF RequestState
  <2>7. OutputText(q) = OutputText(rq[r])
    BY <1>1, <2>4 DEF OutputText, RequestState
  <2>8. Sound(q, SourceOf(rq[r]), audit[r], alerts[r])
    BY <1>1, <2>3, <2>4, <2>7 DEF Sound, InputCleared, OutputRewritten, RequestState
  <2>9. Continue(r, q)
    BY <1>3, <2>1, <2>4
  <2> QED BY <2>5, <2>6, <2>8, <2>9, ContinuesOn
<1> QED BY <1>2, <1>3 DEF OutputGuards

LEMMA DeliverInv ==
  ASSUME PipelineInv, NEW r \in Request, Deliver(r)
  PROVE  PipelineInv'
<1>1. /\ rq[r] \in RequestState /\ rq[r].at = "deliver" /\ rq[r].billed
      /\ Sound(rq[r], SourceOf(rq[r]), audit[r], alerts[r])
  BY OneRequest DEF Deliver, Sound
<1>2. PICK q : q = [rq[r] EXCEPT !.at = "done", !.answer = "passed", !.delivered = rq[r].choices]
  OBVIOUS
<1>3. q \in RequestState
  BY <1>1, <1>2 DEF RequestState, Steps, Answers
<1>4. /\ q.key = rq[r].key /\ q.route = rq[r].route /\ q.ver = rq[r].ver
      /\ q.authVer = rq[r].authVer /\ q.at # "authed"
  BY <1>1, <1>2 DEF RequestState
<1>5. PICK au : au = <<[result |-> "pass", prompt |-> InputText(rq[r].msgs), usage |-> TRUE]>>
  OBVIOUS
<1>6. au \in Seq(AuditEntry)
  <2>1. InputText(rq[r].msgs) \in Text
    BY <1>1, JudgedTyped DEF RequestState
  <2> QED BY <1>5, <2>1 DEF AuditEntry
<1>7. audit[r] = <<>>
  BY <1>1 DEF Sound
<1>8. PICK al \in SUBSET Webhook : al = alerts[r]
  BY OneRequest
<1>9. TRUE = rq[r].billed
  BY <1>1, Zenon DEF RequestState
<1>10. OutputText(q) = OutputText(rq[r])
  BY <1>1, <1>2 DEF OutputText, RequestState
<1>11. Sound(q, SourceOf(rq[r]), au, al)
  BY <1>1, <1>2, <1>5, <1>8, <1>9, <1>10
    DEF Sound, InputCleared, OutputRewritten, RequestState
<1>12. /\ applied' = applied /\ rq' = [rq EXCEPT ![r] = q]
       /\ audit' = [audit EXCEPT ![r] = au] /\ alerts' = [alerts EXCEPT ![r] = al]
  <2>1. rq' = [rq EXCEPT ![r] = q]
    BY <1>2 DEF Deliver
  <2>2. audit' = [audit EXCEPT ![r] = au]
    BY <1>5, <1>7 DEF Deliver
  <2>3. alerts' = [alerts EXCEPT ![r] = al]
    BY <1>8 DEF Deliver, PipelineInv, TypeOK
  <2> QED BY <2>1, <2>2, <2>3 DEF Deliver
<1> QED BY <1>3, <1>4, <1>6, <1>11, <1>12, MovesOn

LEMMA AlertInv ==
  ASSUME PipelineInv, NEW r \in Request, Alert(r)
  PROVE  PipelineInv'
<1>1. /\ rq[r] \in RequestState /\ rq[r].at = "alert"
      /\ Sound(rq[r], SourceOf(rq[r]), audit[r], alerts[r])
  BY OneRequest DEF Alert
<1>2. PICK q : q = [rq[r] EXCEPT !.at = "done"]
  OBVIOUS
<1>3. q \in RequestState
  BY <1>1, <1>2 DEF RequestState, Steps
<1>4. /\ q.key = rq[r].key /\ q.route = rq[r].route /\ q.ver = rq[r].ver
      /\ q.authVer = rq[r].authVer /\ q.at # "authed"
  BY <1>1, <1>2 DEF RequestState
<1>5. PICK al \in SUBSET WebhooksOf(rq[r]) : alerts' = [alerts EXCEPT ![r] = al]
  BY DEF Alert
<1>6. rq[r].ver # 0 /\ Current \in 1..Len(applied)
  <2>1. rq[r].ver # 0 /\ rq[r].ver \in 1..Current /\ Current \in Nat
    BY <1>1, OneRequest DEF Sound, Served, PipelineInv, Current
  <2> QED BY <2>1 DEF Current
<1>7. Live \in WorkspaceConfig
  BY <1>6 DEF Live, PipelineInv, TypeOK
<1>8. al \in SUBSET Webhook /\ \A h \in al : WebhookOrg[h] = KeyOrg[q.key]
  <2>1. q.key = rq[r].key
    BY <1>4
  <2> QED BY <1>5, <1>7, <2>1 DEF WebhooksOf, WorkspaceConfig
<1>9. PICK au \in Seq(AuditEntry) : au = audit[r]
  BY OneRequest
<1>10. Sound(q, SourceOf(rq[r]), au, al)
  BY <1>1, <1>2, <1>8, <1>9 DEF Sound, InputCleared, OutputRewritten, OutputText, RequestState
<1>11. /\ applied' = applied /\ rq' = [rq EXCEPT ![r] = q]
       /\ audit' = [audit EXCEPT ![r] = au]
  <2>1. rq' = [rq EXCEPT ![r] = q]
    BY <1>2 DEF Alert
  <2>2. audit' = [audit EXCEPT ![r] = au]
    BY <1>9 DEF Alert, PipelineInv, TypeOK
  <2> QED BY <2>1, <2>2 DEF Alert
<1> QED BY <1>3, <1>4, <1>5, <1>8, <1>9, <1>10, <1>11, MovesOn
-----------------------------------------------------------------------------
LEMMA NextInv == PipelineInv /\ [Next]_vars => PipelineInv'
<1> SUFFICES ASSUME PipelineInv, [Next]_vars PROVE PipelineInv'
  OBVIOUS
<1>1. ASSUME NEW w \in Workspace, ApplyConfig(w) PROVE PipelineInv'
  BY <1>1, ApplyConfigInv
<1>2. ASSUME NEW r \in Request, Authenticate(r) PROVE PipelineInv'
  BY <1>2, AuthenticateInv
<1>3. ASSUME NEW r \in Request, Throttle(r) PROVE PipelineInv'
  BY <1>3, Finishes DEF Throttle
<1>4. ASSUME NEW r \in Request, Lookup(r) PROVE PipelineInv'
  BY <1>4, LookupInv
<1>5. ASSUME NEW r \in Request, TransformInput(r) PROVE PipelineInv'
  BY <1>5, TransformInputInv
<1>6. ASSUME NEW r \in Request, InputGuards(r) PROVE PipelineInv'
  BY <1>6, InputGuardsInv
<1>7. ASSUME NEW r \in Request, CallLLM(r) PROVE PipelineInv'
  BY <1>7, CallLLMInv
<1>8. ASSUME NEW r \in Request, TransformOutput(r) PROVE PipelineInv'
  BY <1>8, TransformOutputInv
<1>9. ASSUME NEW r \in Request, AdoptOutput(r) PROVE PipelineInv'
  BY <1>9, AdoptOutputInv
<1>10. ASSUME NEW r \in Request, OutputGuards(r) PROVE PipelineInv'
  BY <1>10, OutputGuardsInv
<1>11. ASSUME NEW r \in Request, Deliver(r) PROVE PipelineInv'
  BY <1>11, DeliverInv
<1>12. ASSUME NEW r \in Request, Alert(r) PROVE PipelineInv'
  BY <1>12, AlertInv
<1>13. CASE UNCHANGED vars
  <2>1. /\ TypeOK' /\ (applied \in Seq(Workspace))'
    BY <1>13 DEF PipelineInv, TypeOK, vars
  <2>2. ASSUME NEW r \in Request
        PROVE  (Served(rq[r]) /\ Sound(rq[r], SourceOf(rq[r]), audit[r], alerts[r]))'
    <3>1. SourcesAt(rq[r].ver, rq[r])' = SourcesAt(rq[r].ver, rq[r])
      BY <1>13 DEF SourcesAt, vars
    <3>2. SourceOf(rq[r])' = SourceOf(rq[r])
      BY <3>1 DEF SourceOf
    <3>3. Served(rq[r])' <=> Served(rq[r])
      BY <1>13, <3>1 DEF Served, SourcesAt, Current, vars
    <3>4. Sound(rq[r], SourceOf(rq[r]), audit[r], alerts[r])'
           <=> Sound(rq[r], SourceOf(rq[r]), audit[r], alerts[r])
      BY <1>13, <3>2 DEF Sound, InputCleared, OutputRewritten, RanUpTo, OutputText, vars
    <3> QED BY <3>3, <3>4 DEF PipelineInv
  <2> QED BY <2>1, <2>2 DEF PipelineInv
<1> QED BY <1>1, <1>2, <1>3, <1>4, <1>5, <1>6, <1>7, <1>8, <1>9, <1>10, <1>11, <1>12, <1>13
        DEF Next, Handle

\* The pipeline's variables keep their types, chains and phases of any size
\* included.
THEOREM TypeCorrect == Spec => []TypeOK
<1>1. PipelineInv => TypeOK
  BY DEF PipelineInv
<1> QED BY <1>1, InitInv, NextInv, PTL DEF Spec

LEMMA AllRan ==
  ASSUME NEW chain \in Seq(OnError), NEW ran, RanUpTo(chain, ran, Len(chain) + 1)
  PROVE  Unrun(chain, ran) = {}
BY DEF RanUpTo, Unrun

\* The provider is asked once, with messages that every fail-closed transformer of the
\* source rewrote, and of which its input guards were given, and accepted, the last
\* user message, or all of them with scope all_messages (processor.go:150-217).
THEOREM GuardsJudgeWhatIsSent == Spec => []GuardedCall
<1>1. PipelineInv => GuardedCall
  <2> SUFFICES ASSUME PipelineInv, NEW r \in Request, rq[r].calls # <<>>
               PROVE  /\ Len(rq[r].calls) = 1
                      /\ Unrun(SourceOf(rq[r]).inChain, rq[r].inRan) = {}
                      /\ SourceOf(rq[r]).inPhase.attached # {} =>
                           rq[r].inCleared = <<Judged(SourceOf(rq[r]), rq[r].calls[1])>>
    BY DEF GuardedCall
  <2>1. /\ rq[r].ver # 0 /\ rq[r].calls = <<rq[r].msgs>>
        /\ InputCleared(rq[r], SourceOf(rq[r]))
    BY OneRequest DEF Sound
  <2>2. PICK chain \in Seq(OnError) : chain = SourceOf(rq[r]).inChain
    BY <2>1, OneRequest DEF Source
  <2>3. Unrun(chain, rq[r].inRan) = {}
    BY <2>1, <2>2, AllRan DEF InputCleared
  <2>4. Len(rq[r].calls) = 1 /\ rq[r].calls[1] = rq[r].msgs
    BY <2>1
  <2> QED BY <2>1, <2>2, <2>3, <2>4 DEF InputCleared
<1> QED BY <1>1, InitInv, NextInv, PTL DEF Spec

\* The client gets a response only if it passed the source's output chain and
\* guards (processor.go:219-298).
THEOREM ClientGetsGuardedResponse == Spec => []GuardedDelivery
<1>1. PipelineInv => GuardedDelivery
  <2> SUFFICES ASSUME PipelineInv, NEW r \in Request
               PROVE  /\ rq[r].delivered # <<>> => rq[r].answer = "passed"
                      /\ rq[r].answer = "passed" =>
                           /\ Len(rq[r].calls) = 1
                           /\ rq[r].delivered # <<>> =>
                                Unrun(SourceOf(rq[r]).outChain, rq[r].outRan) = {}
                           /\ SourceOf(rq[r]).outPhase.attached # {} =>
                                rq[r].outCleared = <<OutputText(rq[r])>>
    BY DEF GuardedDelivery
  <2>1. rq[r].delivered # <<>> => rq[r].answer = "passed" /\ rq[r].delivered = rq[r].choices
    BY OneRequest DEF Sound
  <2>2. ASSUME rq[r].answer = "passed"
        PROVE  /\ Len(rq[r].calls) = 1
               /\ rq[r].delivered # <<>> => Unrun(SourceOf(rq[r]).outChain, rq[r].outRan) = {}
               /\ SourceOf(rq[r]).outPhase.attached # {} =>
                    rq[r].outCleared = <<OutputText(rq[r])>>
    <3>1. /\ rq[r].ver # 0 /\ rq[r].calls = <<rq[r].msgs>>
          /\ OutputRewritten(rq[r], SourceOf(rq[r]))
          /\ SourceOf(rq[r]).outPhase.attached # {} =>
               rq[r].outCleared = <<OutputText(rq[r])>>
      BY <2>2, OneRequest DEF Sound
    <3>2. PICK chain \in Seq(OnError) : chain = SourceOf(rq[r]).outChain
      BY <3>1, OneRequest DEF Source
    <3>3. rq[r].delivered # <<>> => Unrun(chain, rq[r].outRan) = {}
      BY <2>1, <3>1, <3>2, AllRan DEF OutputRewritten
    <3> QED BY <3>1, <3>2, <3>3
  <2> QED BY <2>1, <2>2
<1> QED BY <1>1, InitInv, NextInv, PTL DEF Spec

\* Requests and alerts stay within the organization whose key was presented,
\* whatever configs are swapped in (auth.go:26-52, store.go:101-119).
THEOREM TenantsAreIsolated == Spec => []TenantIsolation
<1>1. PipelineInv => TenantIsolation
  <2> SUFFICES ASSUME PipelineInv, NEW r \in Request
               PROVE  /\ rq[r].ver # 0 => /\ rq[r].authVer \in 1..rq[r].ver
                                          /\ rq[r].key \in applied[rq[r].authVer].keys
                                          /\ SourceOf(rq[r]).org = KeyOrg[rq[r].key]
                                          /\ SourceOf(rq[r]).enabled
                      /\ \A h \in alerts[r] : WebhookOrg[h] = KeyOrg[rq[r].key]
    BY DEF TenantIsolation
  <2> QED BY OneRequest DEF Served, Sound
<1> QED BY <1>1, InitInv, NextInv, PTL DEF Spec

\* A decided request has its audit entry, which tells what happened; no request has
\* two (processor.go:189-202, 247-298).
THEOREM AuditTellsTheTruth == Spec => []AuditFaithful
<1>1. PipelineInv => AuditFaithful
  <2> SUFFICES ASSUME PipelineInv, NEW r \in Request
               PROVE  /\ Len(audit[r]) <= 1
                      /\ rq[r].ver = 0 => audit[r] = <<>>
                      /\ rq[r].answer \in {"passed", "rejected"} =>
                           /\ audit[r] # <<>>
                           /\ audit[r][1].result =
                                (IF rq[r].answer = "passed" THEN "pass" ELSE "fail")
                           /\ audit[r][1].prompt = InputText(IF rq[r].calls = <<>> THEN rq[r].msgs
                                                             ELSE rq[r].calls[1])
                           /\ audit[r][1].usage = rq[r].billed
                      /\ alerts[r] # {} => audit[r] # <<>> /\ audit[r][1].result = "fail"
    BY DEF AuditFaithful
  <2>a. Sound(rq[r], SourceOf(rq[r]), audit[r], alerts[r])
    BY OneRequest
  <2>1. /\ IF rq[r].answer \in {"passed", "rejected"}
           THEN audit[r] = <<[result |-> IF rq[r].answer = "passed" THEN "pass" ELSE "fail",
                              prompt |-> InputText(rq[r].msgs), usage |-> rq[r].billed]>>
           ELSE audit[r] = <<>>
        /\ alerts[r] # {} => rq[r].answer = "rejected"
        /\ rq[r].calls # <<>> => rq[r].calls = <<rq[r].msgs>>
    <3>1. IF rq[r].answer \in {"passed", "rejected"}
          THEN audit[r] = <<[result |-> IF rq[r].answer = "passed" THEN "pass" ELSE "fail",
                             prompt |-> InputText(rq[r].msgs), usage |-> rq[r].billed]>>
          ELSE audit[r] = <<>>
      BY <2>a, Zenon DEF Sound
    <3>2. alerts[r] # {} => rq[r].answer = "rejected"
      BY <2>a, Zenon DEF Sound
    <3>3. rq[r].calls # <<>> => rq[r].calls = <<rq[r].msgs>>
      BY <2>a, Zenon DEF Sound
    <3> QED BY <3>1, <3>2, <3>3, Zenon
  <2>2. rq[r].ver = 0 => rq[r].answer \notin {"passed", "rejected"}
    <3>1. /\ rq[r].at \in {"input", "llm", "output", "outGuards", "deliver", "alert"}
               => rq[r].ver # 0
          /\ rq[r].calls # <<>> => rq[r].ver # 0
          /\ rq[r].answer = "passed" => rq[r].calls # <<>>
          /\ rq[r].answer = "rejected" => rq[r].ver # 0
      BY <2>a, Zenon DEF Sound
    <3> QED BY <3>1
  <2>3. CASE rq[r].answer \notin {"passed", "rejected"}
    BY <2>1, <2>3
  <2>4. CASE rq[r].answer \in {"passed", "rejected"}
    <3>1. PICK e : e = [result |-> IF rq[r].answer = "passed" THEN "pass" ELSE "fail",
                        prompt |-> InputText(rq[r].msgs), usage |-> rq[r].billed]
      OBVIOUS
    <3>2. audit[r] = <<e>>
      BY <2>1, <2>4, <3>1
    <3>3. audit[r] # <<>> /\ Len(audit[r]) = 1 /\ audit[r][1] = e
      BY <3>2
    <3>4. /\ e.result = (IF rq[r].answer = "passed" THEN "pass" ELSE "fail")
          /\ e.prompt = InputText(rq[r].msgs) /\ e.usage = rq[r].billed
      BY <3>1, Zenon
    <3>5. (IF rq[r].calls = <<>> THEN rq[r].msgs ELSE rq[r].calls[1]) = rq[r].msgs
      BY <2>1
    <3> QED BY <2>1, <2>2, <2>4, <3>3, <3>4, <3>5
  <2> QED BY <2>3, <2>4
<1> QED BY <1>1, InitInv, NextInv, PTL DEF Spec
=============================================================================
