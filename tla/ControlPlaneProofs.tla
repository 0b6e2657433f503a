-------------------------- MODULE ControlPlaneProofs --------------------------
(***************************************************************************)
(* Proofs about AdminTables and ConfigBuilder for any number of sources,   *)
(* guardrails, transformers, accounts and concurrent calls.                *)
(***************************************************************************)
EXTENDS ConfigBuilder, FiniteSetTheorems, WellFoundedInduction, TLAPS

-----------------------------------------------------------------------------
(* What a step does.  Each effect gives the tables and calls after it; the   *)
(* actions that share one differ in their guards only.                       *)

Value == Secret \cup {Redacted}

\* What is known of a call that holds no rows and registers nobody.
Calm(p) ==
  /\ p \in CallState /\ p.ins = 0 /\ p.at # "user" /\ p.org \in orgs
  /\ p.at \in {"read", "write"} /\ p.item \in Source => p.params.secret \subseteq Secret
  /\ p.at = "append" => p.item \in Transformer

Creates ==
  /\ \E i \in Item, e \in BOOLEAN, k \in Value :
       /\ row[i].st = "unused" /\ (i \in Source => k \in Secret)
       /\ row' = [row EXCEPT ![i] = [st |-> "live", enabled |-> e, secret |-> k]]
  /\ UNCHANGED <<wired, chain, orgs, users, tokens, call>>
Rewrites ==
  /\ \/ row' = row
     \/ \E i \in Item, e \in BOOLEAN, k \in Value :
          /\ Live(i) /\ (i \in Source => k \in Secret)
          /\ row' = [row EXCEPT ![i].enabled = e, ![i].secret = k]
  /\ call' = call \/ \E c \in Call : call' = [call EXCEPT ![c] = NoCall]
  /\ UNCHANGED <<wired, chain, orgs, users, tokens>>
LogsIn ==
  /\ \E e \in Email : tokens' = tokens \cup q!GetUserByEmail(e)
  /\ UNCHANGED <<row, wired, chain, orgs, users, call>>
Progresses(c) ==
  /\ \E p : Calm(p) /\ call' = [call EXCEPT ![c] = p]
  /\ UNCHANGED <<row, wired, chain, orgs, users, tokens>>
Removes(i) ==
  /\ Live(i) /\ row' = [row EXCEPT ![i].st = "deleted"]
  /\ UNCHANGED <<orgs, users, tokens>>
RemovesSource(s) ==
  /\ Removes(s)
  /\ \A c \in Call : InTx(c, s) => call[c].del = {} /\ call[c].ins = 0
  /\ wired' = {w \in wired : w[1] # s} /\ chain' = [chain EXCEPT ![s] = <<>>]
  /\ call' = Unsee(call, s, Transformer)
RemovesTransformer(t) ==
  /\ Removes(t)
  /\ \A c \in Call, s \in Source : ~Holds(c, s, t)
  /\ chain' = [s \in Source |-> q!Without(chain[s], {t})] /\ UNCHANGED wired
  /\ call' = [c \in Call |-> [call[c] EXCEPT !.sees = @ \ {t}]]
RemovesOther(i) ==
  /\ Removes(i) /\ i \in Guardrail \cup Webhook
  /\ wired' = {w \in wired : w[2] # i} /\ UNCHANGED <<chain, call>>
Wires(c) ==
  /\ \/ \E s \in Source, g \in Guardrail : Live(s) /\ Live(g) /\ wired' = wired \cup {<<s, g>>}
     \/ wired' \subseteq wired
  /\ call' = [call EXCEPT ![c] = NoCall]
  /\ UNCHANGED <<row, chain, orgs, users, tokens>>
Appends(c) ==
  /\ call[c].at = "append"
  /\ q!AttachTransformerToSource(call[c].source, call[c].item, call[c].pos)
  /\ call' = [call EXCEPT ![c] = NoCall] /\ UNCHANGED tokens
Inserts(c) ==
  /\ call[c].at = "insert" /\ call[c].ins < Len(call[c].ids)
  /\ Live(call[c].ids[call[c].ins + 1]) /\ Live(call[c].source)
  /\ call' = [call EXCEPT ![c] = [call[c] EXCEPT !.ins = @ + 1]]
  /\ UNCHANGED <<row, wired, chain, orgs, users, tokens>>

\* A request that becomes a pending call, holding no rows.
LEMMA AcceptedCalm ==
  ASSUME AdminInv, NEW p, Calm(p), NEW c \in Call, Accept(c, p), NothingWritten
  PROVE  Progresses(c)
BY DEF Accept, NothingWritten, tables, Progresses

LEMMA EmptyChain == <<>> \in ChainLists /\ Len(<<>>) = 0
<1>1. Cardinality(Transformer) \in Nat BY IdsAssumption, FS_CardinalityType
<1>2. <<>> \in [1..0 -> Transformer] /\ 0 \in 0..Cardinality(Transformer) BY <1>1
<1>3. \A i, j \in DOMAIN <<>> : <<>>[i] = <<>>[j] => i = j OBVIOUS
<1> QED BY <1>2, <1>3 DEF ChainLists

LEMMA NoCallCalm ==
  ASSUME AdminInv
  PROVE  Calm(NoCall)
<1>1. (CHOOSE i \in Item : TRUE) \in Item /\ (CHOOSE s \in Source : TRUE) \in Source
  BY IdsAssumption DEF Item, q!Item
<1>2. <<>> \in ChainLists /\ Len(<<>>) = 0 BY EmptyChain
<1>3. [enabled |-> {}, secret |-> {}] \in Params BY DEF Params, Option
<1>4. Home \in orgs /\ Home \in Org /\ Owner \in Email BY HomeAssumption DEF AdminInv, AdminTypeOK
<1>5. NoCall \in CallState BY <1>1, <1>2, <1>3, <1>4 DEF NoCall, CallState
<1> QED BY <1>4, <1>5 DEF Calm, NoCall

LEMMA OrElseIn ==
  ASSUME NEW S, NEW o \in Option(S), NEW d, o = {} => d \in S
  PROVE  OrElse(o, d) \in S
<1>1. CASE o = {} BY <1>1 DEF OrElse
<1>2. CASE o # {}
  <2>1. PICK x \in S : o = {x} BY <1>2 DEF Option
  <2>2. (CHOOSE y \in o : TRUE) = x BY <2>1
  <2> QED BY <1>2, <2>1, <2>2 DEF OrElse
<1> QED BY <1>1, <1>2

LEMMA CreateEffects ==
  ASSUME AdminInv, CreateSource \/ CreateGuardrail \/ CreateTransformer \/ CreateWebhook \/ CreateAPIKey
  PROVE  Creates
<1> USE DEF Create, Once, Submit, q!Insert, q!accounts, Creates
<1>0. /\ \A i \in Item : row[i].secret \in Value
      /\ Source \subseteq Item /\ Guardrail \subseteq Item /\ Transformer \subseteq Item
      /\ Webhook \subseteq Item /\ Key \subseteq Item
      /\ Source \cap (Guardrail \cup Transformer \cup Webhook \cup Key) = {}
      /\ Secret \subseteq Value
  BY KindsAssumption DEF AdminInv, AdminTypeOK, Row, q!Row, Value, Item, q!Item, Check, q!Check
<1>1. \A e \in Option(BOOLEAN) \cup {{}, {FALSE}} : OrElse(e, TRUE) \in BOOLEAN
  <2>1. {{}, {FALSE}} \subseteq Option(BOOLEAN) BY DEF Option
  <2> QED BY <2>1, OrElseIn
<1>2. CASE CreateSource BY <1>0, <1>1, <1>2 DEF CreateSource, PostSource, q!CreateSource
<1>3. CASE CreateGuardrail BY <1>0, <1>1, <1>3 DEF CreateGuardrail, PostGuardrail, q!CreateGuardrail
<1>4. CASE CreateTransformer
  BY <1>0, <1>1, <1>4 DEF CreateTransformer, PostTransformer, q!CreateTransformer
<1>5. CASE CreateWebhook BY <1>0, <1>1, <1>5 DEF CreateWebhook, PostAlert, q!CreateAlertWebhook
<1>6. CASE CreateAPIKey BY <1>0, <1>1, <1>6 DEF CreateAPIKey, q!CreateAPIKey
<1> QED BY <1>2, <1>3, <1>4, <1>5, <1>6

\* Requests that are accepted.
LEMMA UpdateEffects ==
  ASSUME AdminInv, NEW c \in Call,
         UpdateSource(c) \/ UpdateGuardrail(c) \/ UpdateTransformer(c) \/ UpdateWebhook(c)
  PROVE  Progresses(c)
<1>0. /\ Source \subseteq Item /\ Guardrail \subseteq Item /\ Transformer \subseteq Item
      /\ Webhook \subseteq Item /\ {{}, {FALSE}} \subseteq Option(BOOLEAN)
      /\ Option(Secret) \subseteq Option(Value) /\ {} \in Option(Value)
      /\ \A o \in Option(Secret) : o \subseteq Secret
  BY DEF Item, q!Item, Check, q!Check, Option, Value
<1>1. ASSUME NEW i \in Item, NEW e \in Option(BOOLEAN), NEW k \in Option(Value),
             NEW first \in {"read", "write"}, k \subseteq Secret,
             NEW r, r.item = i, r.enabled = e, r.secret = k, Update(c, r, first)
      PROVE  Progresses(c)
  <2> DEFINE p == [NoCall EXCEPT !.at = first, !.item = i, !.keeps = k = {},
                                 !.params = [enabled |-> e, secret |-> k]]
  <2>1. Calm(NoCall) BY NoCallCalm
  <2>2. [enabled |-> e, secret |-> k] \in Params BY DEF Params, Value
  <2>3. p \in CallState BY <2>1, <2>2 DEF Calm, CallState
  <2>4. p.ins = 0 /\ p.at = first /\ p.org = NoCall.org /\ p.item = i /\ p.params.secret = k
    BY DEF NoCall
  <2>5. Calm(p) BY <1>1, <2>1, <2>3, <2>4 DEF Calm
  <2>6. Accept(c, p) /\ NothingWritten BY <1>1 DEF Update
  <2> QED BY <2>5, <2>6, AcceptedCalm
<1>2. CASE UpdateSource(c)
  <2>1. PICK r \in PutSource : Update(c, r, IF r.secret = {} THEN "read" ELSE "write") BY <1>2 DEF UpdateSource
  <2>2. /\ r.item \in Item /\ r.enabled \in Option(BOOLEAN)
        /\ r.secret \in Option(Value) /\ r.secret \subseteq Secret
    BY <1>0 DEF PutSource
  <2> QED BY <1>1, <2>1, <2>2
<1>3. CASE UpdateGuardrail(c)
  <2>1. PICK r \in PutGuardrail : Update(c, r, "read") BY <1>3 DEF UpdateGuardrail
  <2>2. /\ r.item \in Item /\ r.enabled \in Option(BOOLEAN)
        /\ r.secret \in Option(Value) /\ r.secret \subseteq Secret
    BY <1>0 DEF PutGuardrail
  <2> QED BY <1>1, <2>1, <2>2
<1>4. CASE UpdateTransformer(c)
  <2>1. PICK r \in PutTransformer : Update(c, r, "read") BY <1>4 DEF UpdateTransformer
  <2>2. /\ r.item \in Item /\ r.enabled \in Option(BOOLEAN)
        /\ r.secret \in Option(Value) /\ r.secret \subseteq Secret
    BY <1>0 DEF PutTransformer
  <2> QED BY <1>1, <2>1, <2>2
<1>5. CASE UpdateWebhook(c)
  <2>1. PICK r \in PutAlert : Update(c, r, "read") BY <1>5 DEF UpdateWebhook
  <2>2. /\ r.item \in Item /\ r.enabled \in Option(BOOLEAN)
        /\ r.secret \in Option(Value) /\ r.secret \subseteq Secret
    BY <1>0 DEF PutAlert
  <2> QED BY <1>1, <2>1, <2>2
<1> QED BY <1>2, <1>3, <1>4, <1>5

LEMMA RequestEffects ==
  ASSUME AdminInv, NEW c \in Call, StartAttach(c) \/ StartDetach(c) \/ SetSourceTransformers(c)
  PROVE  Progresses(c)
<1>1. Calm(NoCall) BY NoCallCalm
<1>2. ASSUME NEW i \in Check, NEW s \in Source, NEW at \in {"attach", "detach"},
             Accept(c, [NoCall EXCEPT !.at = at, !.item = i, !.source = s]), NothingWritten
      PROVE  Progresses(c)
  <2> DEFINE p == [NoCall EXCEPT !.at = at, !.item = i, !.source = s]
  <2>1. i \in Item BY DEF Item, q!Item, Check
  <2>2. p \in CallState BY <1>1, <2>1 DEF Calm, CallState
  <2>3. p.ins = 0 /\ p.at = at /\ p.org = NoCall.org BY DEF NoCall
  <2>4. Calm(p) BY <1>1, <2>2, <2>3 DEF Calm
  <2> QED BY <2>4, <1>2, AcceptedCalm
<1>3. CASE SetSourceTransformers(c)
  <2>1. PICK r \in PutSourceTransformers :
          Accept(c, [NoCall EXCEPT !.at = "check", !.source = r.source, !.ids = r.ids]) /\ NothingWritten
    BY <1>3 DEF SetSourceTransformers
  <2> DEFINE p == [NoCall EXCEPT !.at = "check", !.source = r.source, !.ids = r.ids]
  <2>2. r.source \in Source /\ r.ids \in ChainLists BY DEF PutSourceTransformers
  <2>3. p \in CallState BY <1>1, <2>2 DEF Calm, CallState
  <2>4. p.ins = 0 /\ p.at = "check" /\ p.org = NoCall.org BY DEF NoCall
  <2>5. Calm(p) BY <1>1, <2>3, <2>4 DEF Calm
  <2> QED BY <2>1, <2>5, AcceptedCalm
<1> QED BY <1>2, <1>3 DEF StartAttach, StartDetach

\* An update's parameters, once what the request left out is filled in.
LEMMA PreserveIn ==
  ASSUME NEW p \in Params, NEW i \in Item, NEW r \in Row
  PROVE  /\ Preserve(i, p, r) \in Params
         /\ i \in Source => Preserve(i, p, r).secret = {OrElse(p.secret, r.secret)}
<1>1. p.enabled \in Option(BOOLEAN) /\ p.secret \in Option(Secret \cup {Redacted}) BY DEF Params
<1>2. r.enabled \in BOOLEAN /\ r.secret \in Secret \cup {Redacted} BY DEF Row, q!Row
<1>3. OrElse(p.enabled, r.enabled) \in BOOLEAN BY <1>1, <1>2, OrElseIn
<1>4. OrElse(p.secret, r.secret) \in Secret \cup {Redacted} BY <1>1, <1>2, OrElseIn
<1>5. /\ {OrElse(p.enabled, r.enabled)} \in Option(BOOLEAN)
      /\ {OrElse(p.secret, r.secret)} \in Option(Secret \cup {Redacted})
  BY <1>3, <1>4 DEF Option
<1>6. i \in Source => i \notin Webhook BY KindsAssumption
<1> QED BY <1>5, <1>6 DEF Preserve, Params

LEMMA ReadEffects ==
  ASSUME AdminInv, NEW c \in Call, ReadStored(c) \/ ReadFails(c)
  PROVE  Progresses(c)
<1>1. /\ call[c] \in CallState /\ call[c].at = "read" /\ call[c].ins = 0 /\ call[c].org \in orgs
      /\ call[c].item \in Source => call[c].params.secret \subseteq Secret
  BY DEF AdminInv, AdminTypeOK, CallsSound, Registering, ReadStored, ReadFails
<1>2. call[c].item \in Item /\ call[c].params \in Params BY <1>1 DEF CallState
<1>3. ASSUME NEW w \in Params, call[c].item \in Source => w.secret \subseteq Secret
      PROVE  Calm([call[c] EXCEPT !.at = "write", !.params = w])
  <2> DEFINE p == [call[c] EXCEPT !.at = "write", !.params = w]
  <2>1. p \in CallState BY <1>1 DEF CallState
  <2>2. p.at = "write" /\ p.ins = 0 /\ p.org \in orgs /\ p.item = call[c].item /\ p.params = w
    BY <1>1 DEF CallState
  <2> QED BY <1>3, <2>1, <2>2 DEF Calm
<1>4. CASE ReadStored(c)
  <2>1. PICK r \in Stored(call[c].item) :
          Proceed(c, [call[c] EXCEPT
            !.at = "write", !.params = Preserve(call[c].item, call[c].params, r[2])])
    BY <1>4 DEF ReadStored
  <2>2. r[2] = row[call[c].item]
    BY DEF Stored, q!GetSource, q!GetGuardrail, q!GetTransformer, q!GetAlertWebhook, q!Selected
  <2>3. r[2] \in Row /\ (call[c].item \in Source => r[2].secret \in Secret)
    BY <1>2, <2>2 DEF AdminInv, AdminTypeOK
  <2> DEFINE w == Preserve(call[c].item, call[c].params, r[2])
  <2>4. w \in Params /\ (call[c].item \in Source => w.secret = {OrElse(call[c].params.secret, r[2].secret)})
    BY <1>2, <2>3, PreserveIn
  <2>5. call[c].item \in Source => w.secret \subseteq Secret
    <3> SUFFICES ASSUME call[c].item \in Source PROVE OrElse(call[c].params.secret, r[2].secret) \in Secret
      BY <2>4
    <3>1. call[c].params.secret \in Option(Secret) BY <1>1, <1>2 DEF Params, Option
    <3> QED BY <2>3, <3>1, OrElseIn
  <2>6. Calm([call[c] EXCEPT !.at = "write", !.params = w]) BY <1>3, <2>4, <2>5
  <2> HIDE DEF w
  <2> QED BY <1>4, <2>1, <2>6 DEF ReadStored, Proceed, NothingWritten, tables, Progresses, w
<1>5. CASE ReadFails(c)
  <2>1. Calm(AfterFailedRead(call[c]))
    <3>1. CASE call[c].item \in Check
      <4> DEFINE w == [call[c].params EXCEPT !.secret = {OrElse(call[c].params.secret, Redacted)}]
      <4>1. call[c].params.secret \in Option(Secret \cup {Redacted}) BY <1>2 DEF Params
      <4>2. OrElse(call[c].params.secret, Redacted) \in Secret \cup {Redacted} BY <4>1, OrElseIn
      <4>3. w \in Params BY <1>2, <4>2 DEF Params, Option
      <4>4. call[c].item \notin Source BY <3>1, KindsAssumption
      <4>5. Calm([call[c] EXCEPT !.at = "write", !.params = w]) BY <1>3, <4>3, <4>4
      <4>6. AfterFailedRead(call[c]) = [call[c] EXCEPT !.at = "write", !.params = w]
        BY <1>1, <3>1 DEF AfterFailedRead, CallState
      <4> QED BY <4>5, <4>6
    <3>2. CASE call[c].item \notin Check BY <3>2, NoCallCalm DEF AfterFailedRead
    <3> QED BY <3>1, <3>2
  <2> QED BY <1>5, <2>1 DEF ReadFails, NothingWritten, tables, Progresses
<1> QED BY <1>4, <1>5

LEMMA RewriteEffects ==
  ASSUME AdminInv, RevokeAPIKey \/ \E c \in Call : WriteRow(c)
  PROVE  Rewrites
<1>0. /\ \A i \in Item : row[i].enabled \in BOOLEAN /\ row[i].secret \in Value
      /\ Secret \subseteq Value /\ Key \subseteq Item
      /\ \A s \in Source : row[s].secret \in Secret
  BY DEF AdminInv, AdminTypeOK, Row, q!Row, Value, Item, q!Item
<1>1. ASSUME NEW i \in Item, NEW e \in BOOLEAN, NEW k \in Value, i \in Source => k \in Secret, q!Set(i, e, k),
             UNCHANGED tokens, call' = call \/ \E c \in Call : call' = [call EXCEPT ![c] = NoCall]
      PROVE  Rewrites
  <2>1. CASE Live(i) BY <1>1, <2>1 DEF q!Set, q!accounts, Rewrites, Live
  <2>2. CASE ~Live(i) BY <1>1, <2>2 DEF q!Set, q!accounts, Rewrites, Live
  <2> QED BY <2>1, <2>2
<1>2. CASE RevokeAPIKey
  <2>1. PICK k \in Key : Once /\ q!Set(k, FALSE, row[k].secret)
    BY <1>2 DEF RevokeAPIKey, q!RevokeAPIKey
  <2>2. k \notin Source BY KindsAssumption
  <2> QED BY <1>0, <1>1, <2>1, <2>2 DEF Once
<1>3. ASSUME NEW c \in Call, WriteRow(c) PROVE Rewrites
  <2> DEFINE i == call[c].item
             e == OrElse(call[c].params.enabled, TRUE)
             k == OrElse(call[c].params.secret, row[i].secret)
  <2>1. /\ i \in Item /\ call[c].params \in Params /\ call[c].at = "write"
        /\ i \in Source => call[c].params.secret \subseteq Secret
    BY <1>3 DEF AdminInv, AdminTypeOK, CallsSound, CallState, WriteRow
  <2>2. call[c].params.enabled \in Option(BOOLEAN) /\ call[c].params.secret \in Option(Value)
    BY <2>1 DEF Params, Value
  <2>3. e \in BOOLEAN BY <2>2, OrElseIn
  <2>4. k \in Value BY <1>0, <2>1, <2>2, OrElseIn
  <2>5. i \in Source => k \in Secret
    <3> SUFFICES ASSUME i \in Source PROVE k \in Secret OBVIOUS
    <3>1. call[c].params.secret \in Option(Secret) BY <2>1, <2>2 DEF Option
    <3> QED BY <1>0, <3>1, OrElseIn
  <2>6. q!Set(i, e, k) /\ Return(c)
    BY <1>3 DEF WriteRow, q!UpdateSource, q!UpdateGuardrail, q!UpdateTransformer, q!UpdateAlertWebhook
  <2>7. call' = [call EXCEPT ![c] = NoCall] /\ UNCHANGED tokens BY <2>6 DEF Return, Proceed
  <2> HIDE DEF i, e, k
  <2> QED BY <1>1, <2>1, <2>3, <2>4, <2>5, <2>6, <2>7
<1> QED BY <1>2, <1>3

\* The ranks of finitely many rows have a greatest one: the rows above t are fewest there.
LEMMA GreatestExists ==
  ASSUME NEW D, IsFiniteSet(D), D # {}, NEW f \in [D -> Nat]
  PROVE  \E t \in D : \A u \in D : f[u] <= f[t]
<1> DEFINE above(t) == {u \in D : f[t] < f[u]}
           N == {Cardinality(above(t)) : t \in D}
           R == OpToRel(<, Nat)
<1>1. ASSUME NEW t \in D PROVE IsFiniteSet(above(t)) /\ Cardinality(above(t)) \in Nat
  <2>1. IsFiniteSet(above(t)) BY FS_Subset
  <2> QED BY <2>1, FS_CardinalityType
<1>2. N \subseteq Nat /\ N # {} BY <1>1
<1>3. PICK x \in N : \A y \in N : ~(<<y, x>> \in R)
  <2>1. IsWellFoundedOn(R, Nat) BY NatLessThanWellFounded
  <2> HIDE DEF N, R
  <2> QED BY <1>2, <2>1, WFMin
<1>4. PICK t \in D : x = Cardinality(above(t)) OBVIOUS
<1>5. ASSUME NEW u \in D, f[t] < f[u] PROVE FALSE
  <2>1. above(u) \subseteq above(t)
    <3> SUFFICES ASSUME NEW v \in D, f[u] < f[v] PROVE f[t] < f[v] OBVIOUS
    <3>1. f[t] \in Nat /\ f[u] \in Nat /\ f[v] \in Nat OBVIOUS
    <3> QED BY <3>1, <1>5
  <2>2. u \in above(t) /\ u \notin above(u) BY <1>5
  <2>3. Cardinality(above(u)) < Cardinality(above(t))
    <3> HIDE DEF above
    <3> QED BY <1>1, <2>1, <2>2, FS_Subset
  <2>4. Cardinality(above(u)) \in N /\ N \subseteq Nat BY <1>2
  <2>5. <<Cardinality(above(u)), x>> \notin R BY <1>3, <2>4
  <2> HIDE DEF above, N
  <2> QED BY <1>2, <1>4, <2>3, <2>4, <2>5 DEF OpToRel
<1>6. \A u \in D : ~(f[t] < f[u]) BY <1>5
<1> QED BY <1>6

LEMMA NextPositionNat ==
  ASSUME AdminTypeOK, NEW s \in Source
  PROVE  q!NextPosition(s) \in Nat
<1>1. DOMAIN chain[s] \subseteq Transformer /\ chain[s] \in [DOMAIN chain[s] -> Nat] BY DEF AdminTypeOK
<1>2. IsFiniteSet(DOMAIN chain[s]) BY <1>1, IdsAssumption, FS_Subset
<1>3. CASE DOMAIN chain[s] = {} BY <1>3 DEF q!NextPosition
<1>4. CASE DOMAIN chain[s] # {}
  <2>1. \E t \in DOMAIN chain[s] : \A u \in DOMAIN chain[s] : chain[s][u] <= chain[s][t]
    BY <1>1, <1>2, <1>4, GreatestExists
  <2> DEFINE t == CHOOSE t \in DOMAIN chain[s] : \A u \in DOMAIN chain[s] : chain[s][u] <= chain[s][t]
  <2>2. t \in DOMAIN chain[s] BY <2>1
  <2>3. chain[s][t] \in Nat BY <1>1, <2>2
  <2>4. q!NextPosition(s) = 1 + chain[s][t] BY <1>4 DEF q!NextPosition
  <2> HIDE DEF t
  <2> QED BY <2>3, <2>4
<1> QED BY <1>3, <1>4

\* Steps between a chain transaction's first check and its commit, and failures.
LEMMA PendingEffects ==
  ASSUME AdminInv, NEW c \in Call,
         ReadPosition(c) \/ CheckSource(c) \/ TxDelete(c) \/ TxDeleted(c) \/ DeadlockVictim(c) \/ Abort(c)
  PROVE  Progresses(c)
<1>1. /\ call[c] \in CallState /\ call[c].org \in orgs /\ (call[c].at # "insert" => call[c].ins = 0)
      /\ Calm(NoCall)
  BY NoCallCalm DEF AdminInv, AdminTypeOK, CallsSound, Registering
<1>2. ASSUME NEW p, Calm(p), call' = [call EXCEPT ![c] = p], UNCHANGED tokens, NothingWritten
      PROVE  Progresses(c)
  BY <1>2 DEF NothingWritten, tables, Progresses
<1>3. CASE ReadPosition(c)
  <2> DEFINE p == [call[c] EXCEPT !.at = "append", !.pos = q!NextPosition(call[c].source)]
  <2>1. q!NextPosition(call[c].source) \in Nat BY <1>1, NextPositionNat DEF CallState, AdminInv
  <2>2. p \in CallState BY <1>1, <2>1 DEF CallState
  <2>3. p.ins = 0 /\ p.at = "append" /\ p.org \in orgs /\ p.item \in Transformer
    BY <1>1, <1>3 DEF CallState, ReadPosition
  <2>4. Calm(p) BY <2>2, <2>3 DEF Calm
  <2> HIDE DEF p
  <2> QED BY <1>2, <1>3, <2>4 DEF ReadPosition, Proceed, p
<1>4. CASE CheckSource(c)
  <2> DEFINE p == [call[c] EXCEPT !.at = "delete"]
  <2>1. p \in CallState BY <1>1 DEF CallState
  <2>2. p.ins = 0 /\ p.at = "delete" /\ p.org \in orgs BY <1>1, <1>4 DEF CallState, CheckSource
  <2>3. Calm(p) BY <2>1, <2>2 DEF Calm
  <2> HIDE DEF p
  <2>4. \/ Proceed(c, p) /\ NothingWritten
        \/ Proceed(c, NoCall) /\ NothingWritten
    BY <1>4 DEF CheckSource, p
  <2> QED BY <1>1, <1>2, <2>3, <2>4 DEF Proceed
<1>5. CASE TxDelete(c)
  <2> DEFINE p == [call[c] EXCEPT !.at = "deleting", !.sees = q!DeleteSourceTransformers(call[c].source)]
  <2>1. q!DeleteSourceTransformers(call[c].source) \subseteq Transformer
    BY <1>1 DEF q!DeleteSourceTransformers, CallState, AdminInv, AdminTypeOK
  <2>2. p \in CallState BY <1>1, <2>1 DEF CallState
  <2>3. p.ins = 0 /\ p.at = "deleting" /\ p.org \in orgs BY <1>1, <1>5 DEF CallState, TxDelete
  <2>4. Calm(p) BY <2>2, <2>3 DEF Calm
  <2> HIDE DEF p
  <2> QED BY <1>2, <1>5, <2>4 DEF TxDelete, Proceed, p
<1>6. CASE TxDeleted(c)
  <2> DEFINE p == [call[c] EXCEPT !.at = "insert", !.sees = {}, !.del = call[c].sees]
  <2>1. p \in CallState BY <1>1 DEF CallState
  <2>2. p.ins = 0 /\ p.at = "insert" /\ p.org \in orgs BY <1>1, <1>6 DEF CallState, TxDeleted
  <2>3. Calm(p) BY <2>1, <2>2 DEF Calm
  <2> HIDE DEF p
  <2> QED BY <1>2, <1>6, <2>3 DEF TxDeleted, Proceed, p
<1>7. CASE DeadlockVictim(c) BY <1>1, <1>2, <1>7 DEF DeadlockVictim, Return, Proceed
<1>8. CASE Abort(c) BY <1>1, <1>2, <1>8 DEF Abort
<1> QED BY <1>3, <1>4, <1>5, <1>6, <1>7, <1>8

LEMMA InsertEffects ==
  ASSUME AdminInv, NEW c \in Call, TxInsert(c)
  PROVE  Inserts(c) \/ Progresses(c)
<1> DEFINE t == call[c].ids[call[c].ins + 1]
           ok == q!InsertSourceTransformer(call[c].source, t, call[c].del)
<1>1. /\ call[c].at = "insert" /\ call[c].ins < Len(call[c].ids) /\ NothingWritten
      /\ Proceed(c, IF ok THEN [call[c] EXCEPT !.ins = @ + 1] ELSE NoCall)
  BY DEF TxInsert
<1>2. CASE ok
  <2>1. Live(t) /\ Live(call[c].source) BY <1>2 DEF q!InsertSourceTransformer, Live
  <2> QED BY <1>1, <1>2, <2>1 DEF Proceed, NothingWritten, tables, Inserts
<1>3. CASE ~ok BY <1>1, <1>3, NoCallCalm DEF Proceed, NothingWritten, tables, Progresses
<1> QED BY <1>2, <1>3

LEMMA RemoveEffects ==
  ASSUME AdminInv, DeleteSource \/ DeleteGuardrail \/ DeleteTransformer \/ DeleteWebhook
  PROVE  \/ \E s \in Source : RemovesSource(s)
         \/ \E t \in Transformer : RemovesTransformer(t)
         \/ \E i \in Guardrail \cup Webhook : RemovesOther(i)
<1> USE DEF Delete, Submit, Live, q!Remove, q!Live, q!accounts, Removes
<1>1. CASE DeleteSource BY <1>1 DEF DeleteSource, q!DeleteSource, RemovesSource
<1>2. CASE DeleteGuardrail BY <1>2 DEF DeleteGuardrail, q!DeleteGuardrail, RemovesOther
<1>3. CASE DeleteTransformer BY <1>3 DEF DeleteTransformer, q!DeleteTransformer, RemovesTransformer
<1>4. CASE DeleteWebhook
  <2>1. PICK i \in Webhook : Delete(i) /\ q!DeleteAlertWebhook(i) /\ UNCHANGED call
    BY <1>4 DEF DeleteWebhook
  <2>2. i \notin Guardrail BY KindsAssumption DEF Check, q!Check
  <2>3. \A w \in wired : w[2] # i BY <2>2 DEF AdminInv, AdminTypeOK
  <2>4. wired = {w \in wired : w[2] # i} BY <2>3
  <2> QED BY <2>1, <2>4 DEF q!DeleteAlertWebhook, RemovesOther
<1> QED BY <1>1, <1>2, <1>3, <1>4

LEMMA AttachEffects ==
  ASSUME AdminInv, NEW c \in Call, AttachGuardrail(c) \/ DetachGuardrail(c) \/ AttachTransformer(c)
  PROVE  Wires(c) \/ Appends(c)
<1>0. call[c].source \in Source BY DEF AdminInv, AdminTypeOK, CallState
<1>1. CASE AttachGuardrail(c)
  BY <1>0, <1>1 DEF AttachGuardrail, q!AttachGuardrailToSource, q!accounts, Return, Proceed, Live, Wires
<1>2. CASE DetachGuardrail(c)
  BY <1>0, <1>2 DEF DetachGuardrail, q!DetachGuardrailFromSource, q!accounts, Return, Proceed, Wires
<1>3. CASE AttachTransformer(c) BY <1>3 DEF AttachTransformer, Return, Proceed, Appends
<1> QED BY <1>1, <1>2, <1>3

\* Every step of the dashboard calls has one of these effects.
Effect ==
  \/ Creates \/ Rewrites \/ LogsIn
  \/ \E s \in Source : RemovesSource(s)
  \/ \E t \in Transformer : RemovesTransformer(t)
  \/ \E i \in Guardrail \cup Webhook : RemovesOther(i)
  \/ \E c \in Call :
       \/ Progresses(c) \/ Inserts(c) \/ Wires(c) \/ Appends(c)
       \/ DetachTransformer(c) \/ TxCommit(c) \/ Register(c) \/ CreateUser(c)
  \/ UNCHANGED <<row, wired, chain, orgs, users, tokens, call>>

LEMMA ActionEffects ==
  ASSUME AdminInv, AdminNext
  PROVE  Effect
<1>1. CASE Edit
  <2>1. CASE CreateSource \/ CreateGuardrail \/ CreateTransformer \/ CreateWebhook \/ CreateAPIKey
    BY <2>1, CreateEffects DEF Effect
  <2>2. CASE RevokeAPIKey BY <2>2, RewriteEffects DEF Effect
  <2>3. CASE Login BY <2>3 DEF Login, NothingWritten, tables, LogsIn, Effect
  <2>4. CASE DeleteSource \/ DeleteGuardrail \/ DeleteTransformer \/ DeleteWebhook
    BY <2>4, RemoveEffects DEF Effect
  <2> QED BY <1>1, <2>1, <2>2, <2>3, <2>4 DEF Edit
<1>2. ASSUME NEW c \in Call, Request(c) PROVE Effect
  BY <1>2, UpdateEffects, RequestEffects DEF Request, Effect
<1>3. ASSUME NEW c \in Call, Step(c) PROVE Effect
  <2>1. CASE ReadStored(c) \/ ReadFails(c) BY <2>1, ReadEffects DEF Effect
  <2>2. CASE WriteRow(c) BY <2>2, RewriteEffects DEF Effect
  <2>3. CASE AttachGuardrail(c) \/ DetachGuardrail(c) \/ AttachTransformer(c)
    BY <2>3, AttachEffects DEF Effect
  <2>4. CASE ReadPosition(c) \/ CheckSource(c) \/ TxDelete(c) \/ TxDeleted(c) \/ DeadlockVictim(c)
    BY <2>4, PendingEffects DEF Effect
  <2>5. CASE TxInsert(c) BY <2>5, InsertEffects DEF Effect
  <2>6. CASE DetachTransformer(c) \/ TxCommit(c) \/ CreateUser(c) BY <2>6 DEF Effect
  <2> QED BY <1>3, <2>1, <2>2, <2>3, <2>4, <2>5, <2>6 DEF Step
<1>4. ASSUME NEW c \in Call, Abort(c) PROVE Effect BY <1>4, PendingEffects DEF Effect
<1> QED BY <1>1, <1>2, <1>3, <1>4 DEF AdminNext

-----------------------------------------------------------------------------
(* The invariant. *)

LEMMA LiveItem ==
  ASSUME AdminInv, NEW i, i \in Source \cup Guardrail \cup Transformer \cup Webhook \cup Key
  PROVE  i \in Item /\ (Live(i) <=> row[i].st = "live") /\ row[i] \in Row
BY DEF AdminInv, AdminTypeOK, Item, q!Item, Check, q!Check, Live, q!Live

\* The row a deletion takes.
Gone(i) ==
  \/ i \in Source /\ RemovesSource(i)
  \/ i \in Transformer /\ RemovesTransformer(i)
  \/ i \in Guardrail \cup Webhook /\ RemovesOther(i)

\* Rows are created from unused ids and removed for good.
LEMMA RowsAfter ==
  ASSUME AdminInv, Effect
  PROVE  /\ row' \in [Item -> Row] /\ \A s \in Source : row'[s].secret \in Secret
         /\ \A i \in Item : row[i].st = "deleted" => row'[i].st = "deleted"
         /\ \A i \in Item : row[i].st = "live" => row'[i].st = "live" \/ Gone(i)
<1>1. /\ row \in [Item -> Row] /\ \A s \in Source : s \in Item /\ row[s].secret \in Secret
  BY LiveItem DEF AdminInv, AdminTypeOK
<1>2. CASE Creates
  <2>1. PICK i \in Item, e \in BOOLEAN, k \in Value :
          /\ row[i].st = "unused" /\ (i \in Source => k \in Secret)
          /\ row' = [row EXCEPT ![i] = [st |-> "live", enabled |-> e, secret |-> k]]
    BY <1>2 DEF Creates
  <2>2. [st |-> "live", enabled |-> e, secret |-> k] \in Row BY DEF Row, q!Row, Value
  <2> QED BY <1>1, <2>1, <2>2
<1>3. CASE Rewrites
  <2>1. CASE row' = row BY <1>1, <2>1
  <2>2. CASE row' # row
    <3>1. PICK i \in Item, e \in BOOLEAN, k \in Value :
            /\ Live(i) /\ (i \in Source => k \in Secret)
            /\ row' = [row EXCEPT ![i].enabled = e, ![i].secret = k]
      BY <1>3, <2>2 DEF Rewrites
    <3>2. row' = [row EXCEPT ![i] = [row[i] EXCEPT !.enabled = e, !.secret = k]] BY <1>1, <3>1
    <3>3. /\ [row[i] EXCEPT !.enabled = e, !.secret = k] \in Row
          /\ [row[i] EXCEPT !.enabled = e, !.secret = k].st = row[i].st
          /\ [row[i] EXCEPT !.enabled = e, !.secret = k].secret = k
      BY <1>1 DEF Row, q!Row, Value
    <3> QED BY <1>1, <3>1, <3>2, <3>3
  <2> QED BY <2>1, <2>2
<1>4. ASSUME NEW i \in Item, Removes(i)
      PROVE  /\ row' \in [Item -> Row] /\ \A s \in Source : row'[s].secret \in Secret
             /\ \A j \in Item : j # i => row'[j] = row[j]
             /\ row'[i].st = "deleted"
  <2>1. row' = [row EXCEPT ![i] = [row[i] EXCEPT !.st = "deleted"]] BY <1>4 DEF Removes
  <2>2. /\ [row[i] EXCEPT !.st = "deleted"] \in Row
        /\ [row[i] EXCEPT !.st = "deleted"].st = "deleted"
        /\ [row[i] EXCEPT !.st = "deleted"].secret = row[i].secret
    BY <1>1 DEF Row, q!Row
  <2> QED BY <1>1, <2>1, <2>2
<1>5. ASSUME NEW i, Gone(i)
      PROVE  /\ row' \in [Item -> Row] /\ \A s \in Source : row'[s].secret \in Secret
             /\ \A j \in Item : row[j].st = "deleted" => row'[j].st = "deleted"
             /\ \A j \in Item : row[j].st = "live" => row'[j].st = "live" \/ Gone(j)
  <2>1. i \in Item /\ Removes(i)
    BY <1>5, LiveItem DEF Gone, RemovesSource, RemovesTransformer, RemovesOther
  <2> QED BY <1>4, <1>5, <2>1
<1>6. CASE row' = row BY <1>1, <1>6
<1> QED BY <1>2, <1>3, <1>5, <1>6
    DEF Effect, Gone, LogsIn, Progresses, Inserts, Wires,
        Appends, DetachTransformer, TxCommit, Register, CreateUser, q!AttachTransformerToSource,
        q!DetachTransformerFromSource, q!CreateOrganization, q!CreateUser, q!tables

\* A pending call moves on, fails, or sees fewer rows; only Register makes one "user".
Moves(c) ==
  \/ \E S \in SUBSET Transformer : call'[c] = [call[c] EXCEPT !.sees = S]
  \/ Calm(call'[c])
  \/ Inserts(c)
  \/ Register(c)

LEMMA Unseen ==
  ASSUME AdminInv, NEW p \in CallState, NEW S
  PROVE  [p EXCEPT !.sees = @ \ S] = [p EXCEPT !.sees = p.sees \ S] /\ p.sees \ S \in SUBSET Transformer
BY DEF CallState

LEMMA CallsMove ==
  ASSUME AdminInv, Effect
  PROVE  \A c \in Call : call' = [d \in Call |-> call'[d]] /\ Moves(c)
<1> SUFFICES ASSUME NEW c \in Call PROVE call' = [d \in Call |-> call'[d]] /\ Moves(c) OBVIOUS
<1>1. /\ call \in [Call -> CallState] /\ Calm(NoCall)
      /\ \A d \in Call : call[d] \in CallState /\ call[d].sees \in SUBSET Transformer
  BY NoCallCalm DEF AdminInv, AdminTypeOK, CallState
<1>2. \A d \in Call : call[d] = [call[d] EXCEPT !.sees = call[d].sees] BY <1>1 DEF CallState
<1>3. CASE call' = call BY <1>1, <1>2, <1>3 DEF Moves
<1>4. ASSUME NEW d \in Call, NEW p, Calm(p), call' = [call EXCEPT ![d] = p]
      PROVE  call' = [e \in Call |-> call'[e]] /\ Moves(c)
  <2>1. c = d \/ call'[c] = call[c] BY <1>1, <1>4
  <2>2. c = d => call'[c] = p BY <1>1, <1>4
  <2> QED BY <1>1, <1>2, <1>4, <2>1, <2>2 DEF Moves
<1>5. ASSUME NEW d \in Call, Inserts(d) \/ Register(d)
      PROVE  call' = [e \in Call |-> call'[e]] /\ Moves(c)
  <2>1. PICK p : call' = [call EXCEPT ![d] = p] BY <1>5 DEF Inserts, Register, Accept
  <2>2. c = d \/ call'[c] = call[c] BY <1>1, <2>1
  <2> QED BY <1>1, <1>2, <1>5, <2>1, <2>2 DEF Moves
<1>6. ASSUME NEW calls \in [Call -> CallState], NEW s, NEW S, call' = Unsee(calls, s, S),
             \A d \in Call : calls[d] = call[d] \/ calls[d] = NoCall
      PROVE  call' = [e \in Call |-> call'[e]] /\ Moves(c)
  <2>1. call' = [e \in Call |-> call'[e]] BY <1>6 DEF Unsee
  <2>2. call'[c] = calls[c] \/ call'[c] = [calls[c] EXCEPT !.sees = @ \ S] BY <1>6 DEF Unsee
  <2>3. CASE calls[c] = call[c] BY <1>1, <1>2, <2>1, <2>2, <2>3, Unseen DEF Moves
  <2>4. CASE calls[c] = NoCall
    <3>1. NoCall.sees = {} BY DEF NoCall
    <3>2. [NoCall EXCEPT !.sees = @ \ S] = NoCall BY <1>1, <3>1 DEF Calm, CallState
    <3> QED BY <1>1, <2>1, <2>2, <2>4, <3>2 DEF Moves
  <2> QED BY <1>6, <2>3, <2>4
<1>7. CASE \E s \in Source : RemovesSource(s) BY <1>1, <1>6, <1>7 DEF RemovesSource
<1>8. CASE \E t \in Transformer : RemovesTransformer(t)
  BY <1>1, <1>8, Unseen DEF RemovesTransformer, Moves
<1>9. ASSUME NEW d \in Call, DetachTransformer(d) \/ TxCommit(d)
      PROVE  call' = [e \in Call |-> call'[e]] /\ Moves(c)
  <2> DEFINE calls == [call EXCEPT ![d] = NoCall]
  <2>1. calls \in [Call -> CallState] /\ \A e \in Call : calls[e] = call[e] \/ calls[e] = NoCall
    BY <1>1 DEF Calm
  <2>2. \E s, S : call' = Unsee(calls, s, S) BY <1>9 DEF DetachTransformer, TxCommit
  <2> HIDE DEF calls
  <2> QED BY <1>6, <2>1, <2>2
<1>10. CASE Creates BY <1>3, <1>10 DEF Creates
<1>11. CASE Rewrites BY <1>1, <1>3, <1>4, <1>11 DEF Rewrites
<1>12. ASSUME NEW d \in Call, Progresses(d) \/ Wires(d) \/ Appends(d) \/ CreateUser(d)
       PROVE  call' = [e \in Call |-> call'[e]] /\ Moves(c)
  BY <1>1, <1>4, <1>12 DEF Progresses, Wires, Appends, CreateUser
<1> QED BY <1>3, <1>5, <1>7, <1>8, <1>9, <1>10, <1>11, <1>12 DEF Effect, LogsIn, RemovesOther

LEMMA KindsApart ==
  /\ Source \cap (Guardrail \cup Transformer \cup Webhook \cup Key) = {}
  /\ Guardrail \cap (Transformer \cup Webhook \cup Key) = {}
  /\ Transformer \cap (Webhook \cup Key) = {}
BY KindsAssumption DEF Check, q!Check

LEMMA ChainListType ==
  ASSUME NEW ids \in ChainLists
  PROVE  /\ ids \in Seq(Transformer) /\ Len(ids) \in Nat /\ DOMAIN ids = 1..Len(ids)
         /\ \A i, j \in 1..Len(ids) : ids[i] = ids[j] => i = j
<1>1. PICK n \in 0..Cardinality(Transformer) : ids \in [1..n -> Transformer] BY DEF ChainLists
<1>2. n \in Nat BY IdsAssumption, FS_CardinalityType
<1>3. ids \in Seq(Transformer) /\ Len(ids) = n BY <1>1, <1>2
<1> QED BY <1>1, <1>2, <1>3 DEF ChainLists

\* What a chain transaction has inserted is not deleted under it.
LEMMA InsertedLive ==
  ASSUME AdminInv, Effect, NEW c \in Call, NEW i \in 1..call[c].ins
  PROVE  row'[call[c].ids[i]].st = "live" /\ row'[call[c].source].st = "live"
<1> DEFINE t == call[c].ids[i]
           s == call[c].source
<1>1. /\ call[c] \in CallState /\ Live(t) /\ Live(s) /\ call[c].ins \in Nat
      /\ call[c].ins <= Len(call[c].ids) /\ call[c].ins # 0 /\ call[c].at = "insert"
  BY DEF AdminInv, AdminTypeOK, CallsSound, CallState
<1>2. t \in Transformer /\ s \in Source
  <2>1. call[c].ids \in Seq(Transformer) /\ Len(call[c].ids) \in Nat
    BY <1>1, ChainListType DEF CallState
  <2>2. i \in 1..Len(call[c].ids) BY <1>1, <2>1
  <2> QED BY <1>1, <2>1, <2>2 DEF CallState
<1>3. Holds(c, s, t) BY <1>1 DEF Holds, InTx, Inserted
<1>4. t \in Item /\ s \in Item /\ row[t].st = "live" /\ row[s].st = "live" BY <1>1, <1>2, LiveItem
<1>5. ~Gone(t)
  <2>1. t \notin Source /\ t \notin Guardrail \cup Webhook BY <1>2, KindsApart
  <2>2. ~RemovesTransformer(t) BY <1>2, <1>3 DEF RemovesTransformer
  <2> QED BY <2>1, <2>2 DEF Gone
<1>6. ~Gone(s)
  <2>1. s \notin Transformer /\ s \notin Guardrail \cup Webhook BY <1>2, KindsApart
  <2>2. ~RemovesSource(s) BY <1>1, <1>3 DEF RemovesSource, Holds
  <2> QED BY <2>1, <2>2 DEF Gone
<1> QED BY <1>4, <1>5, <1>6, RowsAfter

LEMMA OrgsGrow ==
  ASSUME Effect
  PROVE  orgs \subseteq orgs'
BY DEF Effect, Creates, Rewrites, LogsIn, RemovesSource, RemovesTransformer, RemovesOther, Removes,
       Progresses, Inserts, Wires, Appends, DetachTransformer, TxCommit, Register, CreateUser,
       q!AttachTransformerToSource, q!DetachTransformerFromSource, q!CreateOrganization, q!CreateUser,
       q!accounts

LEMMA CallsAfter ==
  ASSUME AdminInv, Effect
  PROVE  /\ call' \in [Call -> CallState] /\ CallsSound'
         /\ \A c \in Call : call'[c].org \in orgs'
<1>1. ASSUME NEW c \in Call
      PROVE  /\ call'[c] \in CallState /\ call'[c].org \in orgs'
             /\ call'[c].at \in {"read", "write"} /\ call'[c].item \in Source =>
                  call'[c].params.secret \subseteq Secret
             /\ call'[c].at = "append" => call'[c].item \in Transformer
             /\ call'[c].at # "insert" => call'[c].ins = 0
             /\ call'[c].ins <= Len(call'[c].ids)
             /\ \A i \in 1..call'[c].ins : row'[call'[c].ids[i]].st = "live" /\ row'[call'[c].source].st = "live"
  <2>1. Moves(c) BY CallsMove
  <2>2. /\ call[c] \in CallState /\ call \in [Call -> CallState]
        /\ call[c].org \in orgs /\ orgs \subseteq orgs'
        /\ call[c].at \in {"read", "write"} /\ call[c].item \in Source =>
             call[c].params.secret \subseteq Secret
        /\ call[c].at = "append" => call[c].item \in Transformer
        /\ call[c].at # "insert" => call[c].ins = 0
        /\ call[c].ins <= Len(call[c].ids) /\ call[c].ins \in Nat
        /\ call[c].ids \in Seq(Transformer) /\ Len(call[c].ids) \in Nat
    <3>1. call[c] \in CallState BY DEF AdminInv, AdminTypeOK
    <3> QED BY <3>1, ChainListType, OrgsGrow DEF AdminInv, AdminTypeOK, CallsSound, Registering, CallState
  <2>3. CASE \E S \in SUBSET Transformer : call'[c] = [call[c] EXCEPT !.sees = S]
    <3>1. PICK S \in SUBSET Transformer : call'[c] = [call[c] EXCEPT !.sees = S] BY <2>3
    <3>2. call'[c] \in CallState BY <2>2, <3>1 DEF CallState
    <3>3. /\ call'[c].at = call[c].at /\ call'[c].item = call[c].item /\ call'[c].params = call[c].params
          /\ call'[c].ins = call[c].ins /\ call'[c].ids = call[c].ids
          /\ call'[c].source = call[c].source /\ call'[c].org = call[c].org
      BY <2>2, <3>1 DEF CallState
    <3> QED BY <2>2, <3>2, <3>3, InsertedLive
  <2>4. CASE Calm(call'[c])
    <3>1. call'[c].ids \in Seq(Transformer) /\ Len(call'[c].ids) \in Nat /\ call'[c].ins = 0
      BY <2>4, ChainListType DEF Calm, CallState
    <3>2. \A i \in 1..call'[c].ins : FALSE BY <3>1
    <3>3. call'[c].ins <= Len(call'[c].ids) BY <3>1
    <3>4. call'[c] \in CallState /\ call'[c].org \in orgs' BY <2>2, <2>4 DEF Calm
    <3>5. call'[c].at \in {"read", "write"} /\ call'[c].item \in Source =>
            call'[c].params.secret \subseteq Secret
      BY <2>4 DEF Calm
    <3>6. call'[c].at = "append" => call'[c].item \in Transformer BY <2>4 DEF Calm
    <3> QED BY <3>1, <3>2, <3>3, <3>4, <3>5, <3>6
  <2>5. CASE Inserts(c)
    <3>1. call'[c] = [call[c] EXCEPT !.ins = call[c].ins + 1] BY <2>2, <2>5 DEF Inserts
    <3>2. call'[c] \in CallState
      <4>1. call[c] \in CallState /\ call[c].ins + 1 \in Nat BY <2>2
      <4> QED BY <3>1, <4>1 DEF CallState
    <3>3. /\ call'[c].at = "insert" /\ call'[c].ids = call[c].ids /\ call'[c].ins = call[c].ins + 1
          /\ call'[c].source = call[c].source /\ call'[c].org = call[c].org
      BY <2>2, <2>5, <3>1 DEF CallState, Inserts
    <3>4. /\ row' = row /\ call[c].ins < Len(call[c].ids)
          /\ Live(call[c].ids[call[c].ins + 1]) /\ Live(call[c].source)
      BY <2>5 DEF Inserts
    <3>5. call[c].source \in Source /\ call[c].ids[call[c].ins + 1] \in Transformer
      BY <2>2, <3>4 DEF CallState
    <3>6. row'[call[c].source].st = "live" /\ row'[call[c].ids[call[c].ins + 1]].st = "live"
      BY <3>4, <3>5, LiveItem
    <3>7. ASSUME NEW i \in 1..call'[c].ins
          PROVE  row'[call'[c].ids[i]].st = "live" /\ row'[call'[c].source].st = "live"
      <4>1. i = call[c].ins + 1 \/ i \in 1..call[c].ins BY <2>2, <3>3
      <4> QED BY <3>3, <3>6, <4>1, InsertedLive
    <3> QED BY <2>2, <3>2, <3>3, <3>4, <3>7
  <2>6. CASE Register(c)
    <3>1. PICK e \in Email, o \in Org :
            /\ call' = [call EXCEPT ![c] = [NoCall EXCEPT !.at = "user", !.email = e, !.org = o]]
            /\ orgs' = orgs \cup {o}
      BY <2>6 DEF Register, Accept, q!CreateOrganization
    <3> DEFINE p == [NoCall EXCEPT !.at = "user", !.email = e, !.org = o]
    <3>2. call'[c] = p BY <2>2, <3>1
    <3>3. p \in CallState BY NoCallCalm DEF Calm, CallState
    <3>4. p.at = "user" /\ p.org = o /\ p.ins = 0 /\ p.ids = <<>> BY DEF NoCall
    <3> HIDE DEF p
    <3>5. /\ p \in CallState /\ p.org \in orgs' /\ p.at \notin {"read", "write", "append"}
          /\ p.ins = 0 /\ p.ins <= Len(p.ids)
      BY <3>1, <3>3, <3>4
    <3>6. \A i \in 1..p.ins : FALSE BY <3>4
    <3> QED BY <3>2, <3>5, <3>6
  <2> QED BY <2>1, <2>3, <2>4, <2>5, <2>6 DEF Moves
<1>2. call' \in [Call -> CallState]
  <2>1. CASE Call = {}
    <3>1. \/ call' = call
          \/ \E s : call' = Unsee(call, s, Transformer)
          \/ \E t : call' = [c \in Call |-> [call[c] EXCEPT !.sees = @ \ {t}]]
      BY <2>1 DEF Effect, Creates, Rewrites, LogsIn, RemovesSource, RemovesTransformer, RemovesOther
    <3> QED BY <2>1, <3>1 DEF Unsee, AdminInv, AdminTypeOK
  <2>2. CASE Call # {}
    <3>1. call' = [d \in Call |-> call'[d]] BY <2>2, CallsMove
    <3> QED BY <1>1, <3>1
  <2> QED BY <2>1, <2>2
<1>3. CallsSound' BY <1>1 DEF CallsSound, Live, q!Live
<1> QED BY <1>1, <1>2, <1>3

\* What other rows a step leaves alone.
LEMMA RemovesOne ==
  ASSUME AdminInv, NEW i, Removes(i)
  PROVE  \A j \in Item : j # i => row'[j] = row[j]
BY DEF Removes, AdminInv, AdminTypeOK

LEMMA LiveKept ==
  ASSUME AdminInv, Creates \/ Rewrites \/ row' = row
  PROVE  \A j \in Item : row[j].st = "live" => row'[j].st = "live"
<1>1. row \in [Item -> Row] BY DEF AdminInv, AdminTypeOK
<1>2. CASE Creates BY <1>1, <1>2 DEF Creates
<1>3. CASE Rewrites
  <2>1. CASE row' # row
    <3>1. PICK i \in Item, e \in BOOLEAN, k \in Value :
            row' = [row EXCEPT ![i].enabled = e, ![i].secret = k]
      BY <1>3, <2>1 DEF Rewrites
    <3>2. row' = [row EXCEPT ![i] = [row[i] EXCEPT !.enabled = e, !.secret = k]] BY <1>1, <3>1
    <3>3. [row[i] EXCEPT !.enabled = e, !.secret = k].st = row[i].st BY <1>1 DEF Row, q!Row
    <3> QED BY <1>1, <3>2, <3>3
  <2> QED BY <2>1
<1> QED BY <1>2, <1>3

LEMMA WiredAfter ==
  ASSUME AdminInv, Effect
  PROVE  /\ wired' \subseteq Source \X Guardrail
         /\ \A w \in wired' : row'[w[1]].st = "live" /\ row'[w[2]].st = "live"
<1>1. /\ wired \subseteq Source \X Guardrail
      /\ \A w \in wired : /\ w[1] \in Source /\ w[1] \in Item /\ row[w[1]].st = "live"
                          /\ w[2] \in Guardrail /\ w[2] \in Item /\ row[w[2]].st = "live"
  <2>1. wired \subseteq Source \X Guardrail BY DEF AdminInv, AdminTypeOK
  <2>2. \A w \in wired : Live(w[1]) /\ Live(w[2]) BY DEF AdminInv, Referential
  <2> QED BY <2>1, <2>2, LiveItem
<1>2. CASE wired' \subseteq wired /\ (Creates \/ Rewrites \/ row' = row) BY <1>1, <1>2, LiveKept
<1>3. ASSUME NEW s \in Source, RemovesSource(s)
      PROVE  wired' \subseteq wired /\ \A w \in wired' : row'[w[1]].st = "live" /\ row'[w[2]].st = "live"
  <2>1. \A w \in wired' : w \in wired /\ w[1] # s /\ w[2] # s BY <1>1, <1>3, KindsApart DEF RemovesSource
  <2> QED BY <1>1, <1>3, <2>1, RemovesOne DEF RemovesSource
<1>4. ASSUME NEW t \in Transformer, RemovesTransformer(t)
      PROVE  wired' \subseteq wired /\ \A w \in wired' : row'[w[1]].st = "live" /\ row'[w[2]].st = "live"
  <2>1. \A w \in wired' : w \in wired /\ w[1] # t /\ w[2] # t
    BY <1>1, <1>4, KindsApart DEF RemovesTransformer
  <2> QED BY <1>1, <1>4, <2>1, RemovesOne DEF RemovesTransformer
<1>5. ASSUME NEW i \in Guardrail \cup Webhook, RemovesOther(i)
      PROVE  wired' \subseteq wired /\ \A w \in wired' : row'[w[1]].st = "live" /\ row'[w[2]].st = "live"
  <2>1. \A w \in wired' : w \in wired /\ w[1] # i /\ w[2] # i BY <1>1, <1>5, KindsApart DEF RemovesOther
  <2> QED BY <1>1, <1>5, <2>1, RemovesOne DEF RemovesOther
<1>6. ASSUME NEW c \in Call, Wires(c)
      PROVE  /\ wired' \subseteq Source \X Guardrail
             /\ \A w \in wired' : row'[w[1]].st = "live" /\ row'[w[2]].st = "live"
  <2>1. CASE wired' \subseteq wired BY <1>2, <1>1, <1>6, <2>1, LiveKept DEF Wires
  <2>2. ASSUME NEW s \in Source, NEW g \in Guardrail, Live(s), Live(g), wired' = wired \cup {<<s, g>>}
        PROVE  /\ wired' \subseteq Source \X Guardrail
               /\ \A w \in wired' : row'[w[1]].st = "live" /\ row'[w[2]].st = "live"
    <3>1. row[s].st = "live" /\ row[g].st = "live" /\ row' = row BY <1>6, <2>2, LiveItem DEF Wires
    <3> QED BY <1>1, <2>2, <3>1
  <2> QED BY <1>6, <2>1, <2>2 DEF Wires
<1>7. CASE Creates \/ Rewrites BY <1>1, <1>2, <1>7 DEF Creates, Rewrites
<1>8. CASE LogsIn \/ \E c \in Call : \/ Progresses(c) \/ Inserts(c) \/ Appends(c) \/ Register(c)
                                     \/ CreateUser(c) \/ DetachTransformer(c) \/ TxCommit(c)
  BY <1>1, <1>2, <1>8 DEF LogsIn, Progresses, Inserts, Appends, Register, CreateUser, DetachTransformer,
     TxCommit, q!AttachTransformerToSource, q!DetachTransformerFromSource, q!CreateOrganization,
     q!CreateUser, q!tables
<1> QED BY <1>1, <1>2, <1>3, <1>4, <1>5, <1>6, <1>7, <1>8 DEF Effect

LEMMA ChainAfter ==
  ASSUME AdminInv, Effect
  PROVE  /\ chain' = [s \in Source |-> chain'[s]]
         /\ \A s \in Source : /\ DOMAIN chain'[s] \subseteq Transformer
                              /\ chain'[s] \in [DOMAIN chain'[s] -> Nat]
                              /\ \A t \in DOMAIN chain'[s] : row'[s].st = "live" /\ row'[t].st = "live"
<1> DEFINE ChainOK(f, s) == /\ DOMAIN f \subseteq Transformer /\ f \in [DOMAIN f -> Nat]
                            /\ \A t \in DOMAIN f : row'[s].st = "live" /\ row'[t].st = "live"
<1>1. /\ chain = [s \in Source |-> chain[s]]
      /\ \A s \in Source : /\ s \in Item /\ DOMAIN chain[s] \subseteq Transformer
                           /\ chain[s] \in [DOMAIN chain[s] -> Nat]
      /\ \A s \in Source : \A t \in DOMAIN chain[s] : /\ t \in Item
                                                      /\ row[s].st = "live" /\ row[t].st = "live"
  <2>1. AdminTypeOK /\ Referential BY DEF AdminInv
  <2> QED BY <2>1, LiveItem DEF AdminTypeOK, Referential
<1>2. CASE chain' = chain /\ (Creates \/ Rewrites \/ row' = row) BY <1>1, <1>2, LiveKept
<1>3. ASSUME NEW x \in Source, RemovesSource(x)
      PROVE  chain' = [s \in Source |-> chain'[s]] /\ \A s \in Source : ChainOK(chain'[s], s)
  <2>1. chain' = [chain EXCEPT ![x] = <<>>] /\ Removes(x) BY <1>3 DEF RemovesSource
  <2>2. chain'[x] = <<>> /\ \A s \in Source \ {x} : chain'[s] = chain[s] BY <1>1, <2>1
  <2>3. DOMAIN <<>> = {} /\ <<>> \in [{} -> Nat] OBVIOUS
  <2>4. ChainOK(chain'[x], x) BY <2>2, <2>3
  <2>5. ASSUME NEW s \in Source \ {x} PROVE ChainOK(chain'[s], s)
    <3>1. \A t \in DOMAIN chain[s] : t # x BY <1>1, KindsApart
    <3> QED BY <1>1, <2>1, <2>2, <3>1, RemovesOne
  <2> HIDE DEF ChainOK
  <2> QED BY <1>1, <2>1, <2>4, <2>5
<1>4. ASSUME NEW x \in Transformer, RemovesTransformer(x)
      PROVE  chain' = [s \in Source |-> chain'[s]] /\ \A s \in Source : ChainOK(chain'[s], s)
  <2>1. chain' = [s \in Source |-> q!Without(chain[s], {x})] /\ Removes(x) BY <1>4 DEF RemovesTransformer
  <2>2. ASSUME NEW s \in Source PROVE ChainOK(q!Without(chain[s], {x}), s)
    <3>1. s # x BY KindsApart
    <3> QED BY <1>1, <2>1, <3>1, RemovesOne DEF q!Without
  <2> HIDE DEF ChainOK
  <2> QED BY <1>1, <2>1, <2>2
<1>5. ASSUME NEW x \in Guardrail \cup Webhook, RemovesOther(x)
      PROVE  chain' = [s \in Source |-> chain'[s]] /\ \A s \in Source : ChainOK(chain'[s], s)
  <2>1. \A s \in Source : s # x /\ \A t \in DOMAIN chain[s] : t # x BY <1>1, KindsApart
  <2> QED BY <1>1, <1>5, <2>1, RemovesOne DEF RemovesOther
<1>6. ASSUME row' = row, NEW x \in Source, NEW f, ChainOK(f, x), chain' = [chain EXCEPT ![x] = f]
      PROVE  chain' = [s \in Source |-> chain'[s]] /\ \A s \in Source : ChainOK(chain'[s], s)
  <2>1. \A s \in Source : chain'[s] = IF s = x THEN f ELSE chain[s] BY <1>1, <1>6
  <2>2. \A s \in Source : ChainOK(chain[s], s) BY <1>1, <1>6
  <2> HIDE DEF ChainOK
  <2> QED BY <1>1, <1>6, <2>1, <2>2
<1> HIDE DEF ChainOK
<1>7. ASSUME NEW c \in Call, Appends(c)
      PROVE  chain' = [s \in Source |-> chain'[s]] /\ \A s \in Source : ChainOK(chain'[s], s)
  <2> DEFINE x == call[c].source
             t == call[c].item
             f == [u \in DOMAIN chain[x] \cup {t} |-> IF u = t THEN call[c].pos ELSE chain[x][u]]
  <2>1. x \in Source /\ t \in Item /\ call[c].pos \in Nat BY DEF AdminInv, AdminTypeOK, CallState
  <2>2. row' = row /\ chain' = IF Live(t) /\ Live(x) /\ t \notin DOMAIN chain[x]
                               THEN [chain EXCEPT ![x] = f] ELSE chain
    BY <1>7 DEF Appends, q!AttachTransformerToSource, Live
  <2>3. t \in Transformer BY <1>7 DEF AdminInv, CallsSound, Appends
  <2>4. CASE Live(t) /\ Live(x) /\ t \notin DOMAIN chain[x]
    <3>1. ChainOK(f, x) BY <1>1, <2>1, <2>2, <2>3, <2>4, LiveItem DEF ChainOK
    <3> QED BY <1>6, <2>1, <2>2, <2>4, <3>1
  <2> QED BY <1>2, <2>2, <2>4 DEF ChainOK
<1>8. ASSUME NEW c \in Call, DetachTransformer(c)
      PROVE  chain' = [s \in Source |-> chain'[s]] /\ \A s \in Source : ChainOK(chain'[s], s)
  <2> DEFINE x == call[c].source
             f == q!Without(chain[x], {call[c].item})
  <2>1. x \in Source BY DEF AdminInv, AdminTypeOK, CallState
  <2>2. row' = row /\ chain' = [chain EXCEPT ![x] = f]
    BY <1>8 DEF DetachTransformer, q!DetachTransformerFromSource
  <2>3. ChainOK(f, x) BY <1>1, <2>1, <2>2 DEF ChainOK, q!Without
  <2> HIDE DEF f, x
  <2> QED BY <1>6, <2>1, <2>2, <2>3
<1>9. ASSUME NEW c \in Call, TxCommit(c)
      PROVE  chain' = [s \in Source |-> chain'[s]] /\ \A s \in Source : ChainOK(chain'[s], s)
  <2> DEFINE x == call[c].source
             f == Replaced(chain[x], call[c])
  <2>1. x \in Source /\ call[c].ids \in ChainLists BY DEF AdminInv, AdminTypeOK, CallState
  <2>2. row' = row /\ chain' = [chain EXCEPT ![x] = f] /\ call[c].ins = Len(call[c].ids)
    BY <1>9 DEF TxCommit
  <2>3. call[c].ids \in Seq(Transformer) /\ DOMAIN call[c].ids = 1..Len(call[c].ids)
    BY <2>1, ChainListType
  <2>4. \A t \in IdsOf(call[c].ids) : t \in Transformer /\ row[t].st = "live" /\ row[x].st = "live"
    <3> SUFFICES ASSUME NEW i \in 1..Len(call[c].ids)
                 PROVE  /\ call[c].ids[i] \in Transformer
                        /\ row[call[c].ids[i]].st = "live" /\ row[x].st = "live"
      BY <2>3 DEF IdsOf
    <3>1. call[c].ids[i] \in Transformer BY <2>3
    <3>2. Live(call[c].ids[i]) /\ Live(x) BY <2>2 DEF AdminInv, CallsSound
    <3> QED BY <2>1, <3>1, <3>2, LiveItem
  <2>5. \A t \in IdsOf(call[c].ids) : (CHOOSE i \in DOMAIN call[c].ids : call[c].ids[i] = t) - 1 \in Nat
    <3> SUFFICES ASSUME NEW t \in IdsOf(call[c].ids)
                 PROVE  (CHOOSE i \in DOMAIN call[c].ids : call[c].ids[i] = t) - 1 \in Nat
      OBVIOUS
    <3> DEFINE n == CHOOSE i \in DOMAIN call[c].ids : call[c].ids[i] = t
    <3>1. \E i \in DOMAIN call[c].ids : call[c].ids[i] = t BY DEF IdsOf
    <3>2. n \in 1..Len(call[c].ids) BY <2>3, <3>1
    <3>3. Len(call[c].ids) \in Nat BY <2>3
    <3> HIDE DEF n
    <3>4. n - 1 \in Nat BY <3>2, <3>3
    <3> QED BY <3>4 DEF n
  <2>6. /\ DOMAIN f = (DOMAIN chain[x] \ call[c].del) \cup IdsOf(call[c].ids)
        /\ f = [t \in DOMAIN f |-> f[t]]
        /\ \A t \in DOMAIN f : t \in IdsOf(call[c].ids) => f[t] \in Nat
        /\ \A t \in DOMAIN f : t \notin IdsOf(call[c].ids) => f[t] = chain[x][t]
    BY <2>5 DEF Replaced
  <2>7. ChainOK(f, x)
    <3> HIDE DEF f
    <3>1. \A t \in DOMAIN f : t \in IdsOf(call[c].ids) \/ t \in DOMAIN chain[x] BY <2>6
    <3>2. \A t \in DOMAIN f : f[t] \in Nat BY <1>1, <2>1, <2>6, <3>1
    <3> QED BY <1>1, <2>1, <2>2, <2>4, <2>6, <3>1, <3>2 DEF ChainOK
  <2> HIDE DEF f, x
  <2> QED BY <1>6, <2>1, <2>2, <2>7
<1>10. CASE Creates \/ Rewrites BY <1>2, <1>10 DEF Creates, Rewrites, ChainOK
<1>11. CASE LogsIn \/ \E c \in Call : Progresses(c) \/ Inserts(c) \/ Wires(c) \/ Register(c) \/ CreateUser(c)
  BY <1>2, <1>11 DEF LogsIn, Progresses, Inserts, Wires, Register, CreateUser, q!CreateOrganization,
     q!CreateUser, q!tables, ChainOK
<1>12. CASE UNCHANGED <<row, wired, chain, orgs, users, tokens, call>> BY <1>2, <1>12 DEF ChainOK
<1> QED BY <1>3, <1>4, <1>5, <1>7, <1>8, <1>9, <1>10, <1>11, <1>12 DEF Effect, ChainOK

\* Who is registering after a step was before it, or has just begun.
LEMMA RegisteringBefore ==
  ASSUME AdminInv, Effect, NEW c \in Call, call'[c].at = "user"
  PROVE  Register(c) \/ (call[c].at = "user" /\ call'[c].org = call[c].org)
<1>1. Moves(c) /\ call \in [Call -> CallState] BY CallsMove DEF AdminInv, AdminTypeOK
<1>2. CASE \E S \in SUBSET Transformer : call'[c] = [call[c] EXCEPT !.sees = S]
  BY <1>1, <1>2 DEF CallState
<1>3. CASE Inserts(c) BY <1>1, <1>3 DEF Inserts, CallState
<1>4. ~Calm(call'[c]) BY DEF Calm
<1> QED BY <1>1, <1>2, <1>3, <1>4 DEF Moves

AccountsOK ==
  /\ orgs \subseteq Org /\ Home \in orgs
  /\ DOMAIN users \subseteq Email /\ \A e \in DOMAIN users : users[e] \in orgs
  /\ tokens \subseteq Email \X Org
  /\ TokensMatchAccounts
  /\ \A c \in Call : call[c].at = "user" =>
       /\ \A e \in DOMAIN users : users[e] # call[c].org
       /\ \A d \in Call \ {c} : call[d].at = "user" => call[d].org # call[c].org

LEMMA AccountsAfter ==
  ASSUME AdminInv, Effect
  PROVE  AccountsOK'
<1>1. AccountsOK BY DEF AdminInv, AdminTypeOK, Registering, AccountsOK
<1>2. CASE UNCHANGED <<orgs, users>> /\ ~(\E c \in Call : Register(c))
  <2>1. \A c \in Call : call'[c].at = "user" => call[c].at = "user" /\ call'[c].org = call[c].org
    BY <1>2, RegisteringBefore
  <2>2. CASE tokens' = tokens BY <1>1, <1>2, <2>1, <2>2 DEF AccountsOK, TokensMatchAccounts
  <2>3. CASE LogsIn
    <3>1. PICK e \in Email : tokens' = tokens \cup q!GetUserByEmail(e) BY <2>3 DEF LogsIn
    <3>2. \A t \in q!GetUserByEmail(e) : t[1] \in DOMAIN users /\ t = <<t[1], users[t[1]]>>
      BY DEF q!GetUserByEmail
    <3>3. \A t \in q!GetUserByEmail(e) : t \in Email \X Org /\ users[t[1]] = t[2]
      BY <1>1, <3>2 DEF AccountsOK
    <3> QED BY <1>1, <1>2, <2>1, <3>1, <3>2, <3>3 DEF AccountsOK, TokensMatchAccounts
  <2>4. CASE ~LogsIn /\ tokens' # tokens
    BY <1>2, <2>4 DEF Effect, Creates, Rewrites, RemovesSource, RemovesTransformer, RemovesOther, Removes,
       Progresses, Inserts, Wires, Appends, DetachTransformer, TxCommit, CreateUser, q!CreateUser
  <2> QED BY <2>2, <2>3, <2>4
<1>3. ASSUME NEW c \in Call, Register(c) PROVE AccountsOK'
  <2>1. PICK e \in Email, o \in Org \ orgs :
          /\ \A d \in Call : call[d].org # o
          /\ call' = [call EXCEPT ![c] = [NoCall EXCEPT !.at = "user", !.email = e, !.org = o]]
          /\ orgs' = orgs \cup {o} /\ users' = users /\ tokens' = tokens
    BY <1>3 DEF Register, Accept, q!CreateOrganization
  <2>2. call \in [Call -> CallState] BY DEF AdminInv, AdminTypeOK
  <2>3. /\ call'[c].at = "user" /\ call'[c].org = o
        /\ \A d \in Call \ {c} : call'[d] = call[d]
    BY <2>1, <2>2 DEF NoCall
  <2>4. \A f \in DOMAIN users : users[f] # o BY <1>1 DEF AccountsOK
  <2>5. ASSUME NEW d \in Call, call'[d].at = "user"
        PROVE  /\ \A f \in DOMAIN users' : users'[f] # call'[d].org
               /\ \A x \in Call \ {d} : call'[x].at = "user" => call'[x].org # call'[d].org
    <3>1. CASE d = c BY <2>1, <2>3, <2>4, <3>1
    <3>2. CASE d # c
      <4>1. call'[d] = call[d] /\ call[d].org # o BY <2>1, <2>3, <3>2
      <4>2. \A f \in DOMAIN users : users[f] # call[d].org BY <1>1, <2>5, <4>1 DEF AccountsOK
      <4>3. \A x \in Call \ {d} : call[x].at = "user" => call[x].org # call[d].org
        BY <1>1, <2>5, <4>1 DEF AccountsOK
      <4>4. \A x \in Call \ {d} : call'[x].at = "user" => call'[x].org # call[d].org
        BY <2>3, <4>1, <4>3
      <4> QED BY <2>1, <4>1, <4>2, <4>4
    <3> QED BY <3>1, <3>2
  <2>6. TokensMatchAccounts' BY <1>1, <2>1 DEF AccountsOK, TokensMatchAccounts
  <2> QED BY <1>1, <2>1, <2>5, <2>6 DEF AccountsOK
<1>4. ASSUME NEW c \in Call, CreateUser(c), call[c].email \notin DOMAIN users PROVE AccountsOK'
  <2> DEFINE e == call[c].email
             o == call[c].org
  <2>1. /\ users' = [x \in DOMAIN users \cup {e} |-> IF x = e THEN o ELSE users[x]]
        /\ tokens' = tokens \cup {<<e, o>>} /\ orgs' = orgs /\ call' = [call EXCEPT ![c] = NoCall]
        /\ call[c].at = "user"
    BY <1>4 DEF CreateUser, q!CreateUser
  <2>2. /\ call \in [Call -> CallState] /\ e \in Email /\ o \in Org /\ o \in orgs
    BY DEF AdminInv, AdminTypeOK, Registering, CallState
  <2>3. \A f \in DOMAIN users : users[f] # o BY <1>1, <2>1 DEF AccountsOK
  <2>4. /\ DOMAIN users' = DOMAIN users \cup {e} /\ users'[e] = o
        /\ \A f \in DOMAIN users : users'[f] = users[f]
    BY <1>4, <2>1
  <2>5. call'[c].at = "idle" /\ \A d \in Call \ {c} : call'[d] = call[d] BY <2>1, <2>2 DEF NoCall
  <2>6. ASSUME NEW d \in Call, call'[d].at = "user"
        PROVE  /\ \A f \in DOMAIN users' : users'[f] # call'[d].org
               /\ \A x \in Call \ {d} : call'[x].at = "user" => call'[x].org # call'[d].org
    <3>1. d # c /\ call'[d] = call[d] BY <2>5, <2>6
    <3>2. call[d].org # o BY <1>1, <2>1, <2>6, <3>1 DEF AccountsOK
    <3>3. \A f \in DOMAIN users : users[f] # call[d].org BY <1>1, <2>6, <3>1 DEF AccountsOK
    <3>4. \A x \in Call \ {d} : call[x].at = "user" => call[x].org # call[d].org
      BY <1>1, <2>6, <3>1 DEF AccountsOK
    <3>5. \A x \in Call : call'[x].at = "user" => call'[x] = call[x] BY <2>5
    <3> HIDE DEF e, o
    <3> QED BY <2>4, <3>1, <3>2, <3>3, <3>4, <3>5
  <2>7. TokensMatchAccounts'
    <3> HIDE DEF e, o
    <3>1. \A t \in tokens' : t[1] \in DOMAIN users' /\ users'[t[1]] = t[2]
      BY <1>1, <2>1, <2>4 DEF AccountsOK, TokensMatchAccounts
    <3>2. \A f, g \in DOMAIN users' : users'[f] = users'[g] => f = g
      BY <1>1, <2>3, <2>4 DEF AccountsOK, TokensMatchAccounts
    <3> QED BY <3>1, <3>2 DEF TokensMatchAccounts
  <2> HIDE DEF e, o
  <2>8. DOMAIN users' \subseteq Email /\ \A f \in DOMAIN users' : users'[f] \in orgs'
    BY <1>1, <2>1, <2>2, <2>4 DEF AccountsOK
  <2>9. tokens' \subseteq Email \X Org /\ orgs' \subseteq Org /\ Home \in orgs'
    BY <1>1, <2>1, <2>2 DEF AccountsOK
  <2> QED BY <2>6, <2>7, <2>8, <2>9 DEF AccountsOK
<1>5. ASSUME NEW c \in Call, CreateUser(c), call[c].email \in DOMAIN users PROVE AccountsOK'
  <2>1. UNCHANGED <<orgs, users, tokens>> /\ call' = [call EXCEPT ![c] = NoCall]
    BY <1>5 DEF CreateUser, q!CreateUser
  <2>2. call \in [Call -> CallState] BY DEF AdminInv, AdminTypeOK
  <2>3. call'[c].at = "idle" /\ \A d \in Call \ {c} : call'[d] = call[d] BY <2>1, <2>2 DEF NoCall
  <2>4. \A d \in Call : call'[d].at = "user" => call'[d] = call[d] BY <2>3
  <2>5. TokensMatchAccounts' BY <1>1, <2>1 DEF AccountsOK, TokensMatchAccounts
  <2>6. ASSUME NEW d \in Call, call'[d].at = "user"
        PROVE  /\ \A f \in DOMAIN users' : users'[f] # call'[d].org
               /\ \A x \in Call \ {d} : call'[x].at = "user" => call'[x].org # call'[d].org
    <3>1. call'[d] = call[d] BY <2>4, <2>6
    <3>2. \A f \in DOMAIN users : users[f] # call[d].org BY <1>1, <2>6, <3>1 DEF AccountsOK
    <3>3. \A x \in Call \ {d} : call[x].at = "user" => call[x].org # call[d].org
      BY <1>1, <2>6, <3>1 DEF AccountsOK
    <3> QED BY <2>1, <2>4, <3>1, <3>2, <3>3
  <2> QED BY <1>1, <2>1, <2>5, <2>6 DEF AccountsOK
<1>6. CASE ~(\E c \in Call : Register(c) \/ CreateUser(c))
  <2>1. UNCHANGED <<orgs, users>>
    BY <1>6 DEF Effect, Creates, Rewrites, LogsIn, RemovesSource, RemovesTransformer, RemovesOther, Removes,
       Progresses, Inserts, Wires, Appends, DetachTransformer, TxCommit, q!AttachTransformerToSource,
       q!DetachTransformerFromSource, q!accounts
  <2> QED BY <1>2, <1>6, <2>1
<1> QED BY <1>3, <1>4, <1>5, <1>6

\* The bounds.
LEMMA BoundsKept ==
  ASSUME AdminInv, AdminNext
  PROVE  edits' \in 0..MaxEdits /\ faults' \in 0..MaxFaults
<1>0. edits \in 0..MaxEdits /\ faults \in 0..MaxFaults /\ MaxEdits \in Nat /\ MaxFaults \in Nat
  BY EditBoundAssumption DEF AdminInv, AdminTypeOK
<1>1. \/ Submit \/ UNCHANGED <<edits, faults>>
      \/ edits' = edits /\ faults < MaxFaults /\ faults' = faults + 1
  <2>1. CASE Edit
    BY <2>1 DEF Edit, CreateSource, CreateGuardrail, CreateTransformer, CreateWebhook, CreateAPIKey,
       RevokeAPIKey, Login, DeleteSource, DeleteGuardrail, DeleteTransformer, DeleteWebhook, Create, Once,
       Delete
  <2>2. ASSUME NEW c \in Call, Request(c) PROVE Submit
    BY <2>2 DEF Request, UpdateSource, UpdateGuardrail, UpdateTransformer, UpdateWebhook, Update,
       StartAttach, StartDetach, SetSourceTransformers, Register, Accept
  <2>3. ASSUME NEW c \in Call, Step(c), ~ReadFails(c) PROVE UNCHANGED <<edits, faults>>
    BY <2>3 DEF Step, ReadStored, WriteRow, AttachGuardrail, ReadPosition, AttachTransformer,
       DetachGuardrail, DetachTransformer, CheckSource, TxDelete, TxDeleted, TxInsert, TxCommit,
       DeadlockVictim, CreateUser, Proceed, Return
  <2>4. ASSUME NEW c \in Call, ReadFails(c) \/ Abort(c)
        PROVE  edits' = edits /\ (faults' # faults => faults < MaxFaults /\ faults' = faults + 1)
    BY <2>4 DEF ReadFails, Abort
  <2> QED BY <2>1, <2>2, <2>3, <2>4 DEF AdminNext
<1> QED BY <1>0, <1>1 DEF Submit

LEMMA InitAdmin ==
  ASSUME Init
  PROVE  AdminInv
<1>1. (CHOOSE s \in Secret : TRUE) \in Secret BY IdsAssumption
<1>2. Fresh("live") \in Row /\ Fresh("unused") \in Row BY <1>1 DEF Fresh, Row, q!Row
<1>3. PICK E \in Existing :
        row = [i \in Item |-> IF i \in E THEN Fresh("live") ELSE Fresh("unused")]
  BY DEF Init
<1>4. row \in [Item -> Row] /\ \A s \in Source : row[s].secret \in Secret
  <2>1. \A s \in Source : s \in Item BY DEF Item, q!Item
  <2> QED BY <1>1, <1>2, <1>3, <2>1 DEF Fresh
<1>5. wired \subseteq Source \X Guardrail /\ \A w \in wired : Live(w[1]) /\ Live(w[2]) BY DEF Init
<1>6. PICK ids \in [Source -> ChainLists] :
        /\ \A s \in Source : \A t \in IdsOf(ids[s]) : Live(s) /\ Live(t)
        /\ chain = [s \in Source |->
                      [t \in IdsOf(ids[s]) |-> (CHOOSE i \in DOMAIN ids[s] : ids[s][i] = t) - 1]]
  BY DEF Init
<1>7. ASSUME NEW s \in Source
      PROVE  /\ DOMAIN chain[s] \subseteq Transformer /\ chain[s] \in [DOMAIN chain[s] -> Nat]
             /\ \A t \in DOMAIN chain[s] : Live(s) /\ Live(t)
  <2> DEFINE list == ids[s]
             place(t) == CHOOSE i \in DOMAIN list : list[i] = t
  <2>1. chain[s] = [t \in IdsOf(list) |-> place(t) - 1] BY <1>6
  <2>2. /\ list \in Seq(Transformer) /\ DOMAIN list = 1..Len(list) /\ Len(list) \in Nat
    <3>1. list \in ChainLists OBVIOUS
    <3> HIDE DEF list
    <3> QED BY <3>1, ChainListType
  <2>3. ASSUME NEW t \in IdsOf(list) PROVE t \in Transformer /\ place(t) - 1 \in Nat
    <3> HIDE DEF list
    <3>1. \E i \in DOMAIN list : list[i] = t BY DEF IdsOf
    <3>2. place(t) \in 1..Len(list) BY <2>2, <3>1
    <3>3. t \in Transformer BY <2>2, <3>1
    <3> HIDE DEF place
    <3> QED BY <2>2, <3>2, <3>3
  <2>4. \A t \in IdsOf(list) : Live(s) /\ Live(t) BY <1>6
  <2> HIDE DEF list, place
  <2> QED BY <2>1, <2>3, <2>4
<1>8. orgs = {Home} /\ users = [e \in {Owner} |-> Home] /\ tokens = {<<Owner, Home>>}
  BY DEF Init
<1>9. call \in [Call -> CallState] /\ \A c \in Call : call[c] = NoCall
  <2>1. NoCall \in CallState
    <3>1. (CHOOSE i \in Item : TRUE) \in Item /\ (CHOOSE s \in Source : TRUE) \in Source
      BY IdsAssumption DEF Item, q!Item
    <3>2. <<>> \in ChainLists BY EmptyChain
    <3>3. [enabled |-> {}, secret |-> {}] \in Params BY DEF Params, Option
    <3> QED BY <3>1, <3>2, <3>3, HomeAssumption DEF NoCall, CallState
  <2> QED BY <2>1 DEF Init
<1>10. AdminTypeOK
  <2>1. chain = [s \in Source |-> chain[s]] BY <1>6
  <2>2. edits \in 0..MaxEdits /\ faults \in 0..MaxFaults BY EditBoundAssumption DEF Init
  <2>3. /\ orgs \subseteq Org /\ Home \in orgs /\ DOMAIN users \subseteq Email
        /\ \A e \in DOMAIN users : users[e] \in orgs
        /\ tokens \subseteq Email \X Org
    BY <1>8, HomeAssumption
  <2> QED BY <1>4, <1>5, <1>7, <1>9, <2>1, <2>2, <2>3 DEF AdminTypeOK
<1>11. Referential BY <1>5, <1>7 DEF Referential
<1>12. TokensMatchAccounts BY <1>8 DEF TokensMatchAccounts
<1>13. NoCall.at = "idle" /\ NoCall.ins = 0 /\ NoCall.ids = <<>> /\ NoCall.org = Home BY DEF NoCall
<1>14. CallsSound
  <2>1. \A i \in 1..NoCall.ins : FALSE BY <1>13
  <2>2. NoCall.ins <= Len(NoCall.ids) BY <1>13
  <2> QED BY <1>9, <1>13, <2>1, <2>2 DEF CallsSound
<1>15. Registering BY <1>8, <1>9, <1>13 DEF Registering
<1> QED BY <1>4, <1>10, <1>11, <1>12, <1>14, <1>15 DEF AdminInv

LEMMA EffectKeepsInv ==
  ASSUME AdminInv, Effect, edits' \in 0..MaxEdits, faults' \in 0..MaxFaults
  PROVE  AdminInv'
<1>1. row' \in [Item -> Row] /\ \A s \in Source : row'[s].secret \in Secret BY RowsAfter
<1>2. call' \in [Call -> CallState] /\ CallsSound' /\ \A c \in Call : call'[c].org \in orgs'
  BY CallsAfter
<1>3. AccountsOK' BY AccountsAfter
<1>4. /\ wired' \subseteq Source \X Guardrail
      /\ \A w \in wired' : row'[w[1]].st = "live" /\ row'[w[2]].st = "live"
  BY WiredAfter
<1>5. /\ chain' = [s \in Source |-> chain'[s]]
      /\ \A s \in Source : /\ DOMAIN chain'[s] \subseteq Transformer
                           /\ chain'[s] \in [DOMAIN chain'[s] -> Nat]
                           /\ \A t \in DOMAIN chain'[s] : row'[s].st = "live" /\ row'[t].st = "live"
  BY ChainAfter
<1>6. Referential' BY <1>4, <1>5 DEF Referential, Live, q!Live
<1>7. AdminTypeOK'
  <2>1. \A s \in Source : DOMAIN chain'[s] \subseteq Transformer /\ chain'[s] \in [DOMAIN chain'[s] -> Nat]
    BY <1>5
  <2>2. chain' = [s \in Source |-> chain'[s]] BY <1>5
  <2> QED BY <1>1, <1>2, <1>3, <1>4, <2>1, <2>2 DEF AdminTypeOK, AccountsOK
<1>8. Registering' BY <1>2, <1>3 DEF Registering, AccountsOK
<1> QED BY <1>1, <1>2, <1>3, <1>6, <1>7, <1>8 DEF AdminInv, AccountsOK

\* The invariant of the tables and the calls under way holds whatever dashboard calls,
\* registrations, failures and deadlocks interleave (service/*.go).
THEOREM AdminInvariant == AdminSpec => []AdminInv
<1>1. Init => AdminInv BY InitAdmin
<1>2. AdminInv /\ [AdminNext]_adminVars => AdminInv'
  <2> SUFFICES ASSUME AdminInv, [AdminNext]_adminVars PROVE AdminInv' OBVIOUS
  <2>1. CASE AdminNext BY <2>1, ActionEffects, BoundsKept, EffectKeepsInv
  <2>2. CASE UNCHANGED adminVars
    <3>1. Effect BY <2>2 DEF adminVars, Effect
    <3>2. edits' \in 0..MaxEdits /\ faults' \in 0..MaxFaults
      BY <2>2 DEF adminVars, AdminInv, AdminTypeOK
    <3> QED BY <3>1, <3>2, EffectKeepsInv
  <2> QED BY <2>1, <2>2
<1> QED BY <1>1, <1>2, PTL DEF AdminSpec

LEMMA StepEffects ==
  ASSUME AdminInv, [AdminNext]_adminVars
  PROVE  Effect
BY ActionEffects DEF adminVars, Effect

\* A replacement puts the ids of its list at 0..n-1.
LEMMA ReplacedInOrder ==
  ASSUME NEW rows, NEW p \in CallState
  PROVE  Replaces(p, rows, Replaced(rows, p))
<1> DEFINE place(t) == CHOOSE i \in DOMAIN p.ids : p.ids[i] = t
           new == Replaced(rows, p)
<1>1. /\ DOMAIN p.ids = 1..Len(p.ids) /\ Len(p.ids) \in Nat
      /\ \A i, j \in DOMAIN p.ids : p.ids[i] = p.ids[j] => i = j
  <2>1. p.ids \in ChainLists BY DEF CallState
  <2> QED BY <2>1, ChainListType
<1>2. ASSUME NEW i \in DOMAIN p.ids PROVE place(p.ids[i]) = i BY <1>1
<1>3. ASSUME NEW i \in DOMAIN p.ids PROVE p.ids[i] \in DOMAIN new /\ new[p.ids[i]] = i - 1
  <2>1. p.ids[i] \in IdsOf(p.ids) BY DEF IdsOf
  <2>2. p.ids[i] \in DOMAIN new /\ new[p.ids[i]] = place(p.ids[i]) - 1 BY <2>1 DEF Replaced
  <2> QED BY <1>2, <2>2
<1>4. ASSUME NEW i \in DOMAIN p.ids, NEW j \in DOMAIN p.ids, i < j PROVE new[p.ids[i]] < new[p.ids[j]]
  <2>1. i - 1 < j - 1 BY <1>1, <1>4
  <2> QED BY <1>3, <2>1
<1> HIDE DEF new
<1> QED BY <1>3, <1>4 DEF Replaces, new

\* Every chain that a step changes was changed in one of the ways of ChainChanges.
LEMMA ChainStep ==
  ASSUME AdminInv, Effect, NEW s \in Source, chain'[s] # chain[s]
  PROVE  ChainChanges(s)
<1>1. /\ call \in [Call -> CallState] /\ chain = [x \in Source |-> chain[x]] /\ row \in [Item -> Row]
      /\ NoCall.at = "idle"
  BY DEF AdminInv, AdminTypeOK, NoCall
<1>2. ASSUME NEW i \in Source \cup Transformer, Removes(i) PROVE ChainChanges(s)
  <2>1. row[i].st = "live" /\ i \in Item BY <1>2, LiveItem DEF Removes
  <2>2. row'[i].st = "deleted" BY <1>1, <1>2, <2>1 DEF Removes, Row, q!Row
  <2> QED BY <2>1, <2>2 DEF ChainChanges
<1>3. ASSUME NEW c \in Call, Appends(c) PROVE ChainChanges(s)
  <2>1. /\ call[c].at = "append" /\ call'[c].at = "idle"
        /\ chain' # chain
    BY <1>1, <1>3 DEF Appends
  <2>2. PICK f : /\ DOMAIN f = DOMAIN chain[call[c].source] \cup {call[c].item}
                 /\ chain' = [chain EXCEPT ![call[c].source] = f]
    BY <1>3, <2>1 DEF Appends, q!AttachTransformerToSource
  <2>3. call[c].source = s BY <1>1, <2>2
  <2>4. DOMAIN chain[s] \subseteq DOMAIN chain'[s] BY <1>1, <2>2, <2>3
  <2> QED BY <2>1, <2>3, <2>4 DEF ChainChanges
<1>4. ASSUME NEW c \in Call, NEW x, NEW S, call' = Unsee([call EXCEPT ![c] = NoCall], x, S)
      PROVE  call'[c].at = "idle"
  <2>1. call'[c] = NoCall \/ call'[c] = [NoCall EXCEPT !.sees = @ \ S] BY <1>1, <1>4 DEF Unsee
  <2>2. [NoCall EXCEPT !.sees = @ \ S].at = "idle" BY DEF NoCall
  <2> QED BY <1>1, <2>1, <2>2
<1>5. ASSUME NEW c \in Call, DetachTransformer(c) PROVE ChainChanges(s)
  <2>1. /\ call[c].at = "detach"
        /\ chain' = [chain EXCEPT ![call[c].source] = q!Without(chain[call[c].source], {call[c].item})]
        /\ call' = Unsee([call EXCEPT ![c] = NoCall], call[c].source, {call[c].item})
    BY <1>5 DEF DetachTransformer, q!DetachTransformerFromSource
  <2>2. call[c].source = s BY <1>1, <2>1
  <2>3. call'[c].at = "idle" BY <1>4, <2>1
  <2> QED BY <2>1, <2>2, <2>3 DEF ChainChanges
<1>6. ASSUME NEW c \in Call, TxCommit(c) PROVE ChainChanges(s)
  <2>1. /\ call[c].at = "insert"
        /\ chain' = [chain EXCEPT ![call[c].source] = Replaced(chain[call[c].source], call[c])]
        /\ call' = Unsee([call EXCEPT ![c] = NoCall], call[c].source, call[c].del)
    BY <1>6 DEF TxCommit
  <2>2. call[c].source = s BY <1>1, <2>1
  <2>3. call'[c].at = "idle" BY <1>4, <2>1
  <2>4. chain'[s] = Replaced(chain[s], call[c]) BY <1>1, <2>1, <2>2
  <2>5. Replaces(call[c], chain[s], chain'[s]) BY <1>1, <2>4, ReplacedInOrder
  <2> QED BY <2>1, <2>2, <2>3, <2>5 DEF ChainChanges
<1>7. chain' # chain OBVIOUS
<1> QED BY <1>2, <1>3, <1>5, <1>6, <1>7
    DEF Effect, Creates, Rewrites, LogsIn, RemovesSource, RemovesTransformer, RemovesOther, Progresses,
        Inserts, Wires, Register, CreateUser, q!CreateOrganization, q!CreateUser, q!tables

-----------------------------------------------------------------------------
(* The dashboard's tables. *)

\* The tables and the calls' local state keep their types, whoever edits them.
THEOREM TablesTyped == AdminSpec => []AdminTypeOK
BY AdminInvariant, PTL DEF AdminInv

\* Deletions, attachments and chain transactions in any order never leave an
\* attachment whose source, guardrail or transformer is gone.
THEOREM NothingDangles == AdminSpec => []Referential
BY AdminInvariant, PTL DEF AdminInv

\* No update, whatever it read or failed to read, stores a blank or a marker as a
\* source's key.
THEOREM KeysAreGiven == AdminSpec => []SourceKeyGiven
<1>1. AdminInv => SourceKeyGiven BY DEF AdminInv, SourceKeyGiven
<1> QED BY <1>1, AdminInvariant, PTL

\* However registrations of one email race or fail half way, a token stands for the
\* account that holds the email, and accounts do not share an organization.
THEOREM TokensGenuine == AdminSpec => []TokensMatchAccounts
BY AdminInvariant, PTL DEF AdminInv

\* No late write of an update brings a deleted row back.
THEOREM DeletionsLast == AdminSpec => DeletedStaysDeleted
<1>1. AdminInv /\ [AdminNext]_adminVars =>
        [\A i \in Item : row[i].st = "deleted" => row'[i].st = "deleted"]_adminVars
  <2> SUFFICES ASSUME AdminInv, [AdminNext]_adminVars
               PROVE  \A i \in Item : row[i].st = "deleted" => row'[i].st = "deleted"
    OBVIOUS
  <2> QED BY StepEffects, RowsAfter
<1> QED BY <1>1, AdminInvariant, PTL DEF AdminSpec, DeletedStaysDeleted

\* A chain changes by a deletion, by one row, or whole: never by a replacement that
\* stopped half way.
THEOREM ChainsReplacedWhole == AdminSpec => ReplacedWhole
<1>1. AdminInv /\ [AdminNext]_adminVars =>
        [\A s \in Source : chain'[s] # chain[s] => ChainChanges(s)]_adminVars
  <2> SUFFICES ASSUME AdminInv, [AdminNext]_adminVars, NEW s \in Source, chain'[s] # chain[s]
               PROVE  ChainChanges(s)
    OBVIOUS
  <2> QED BY StepEffects, ChainStep
<1> QED BY <1>1, AdminInvariant, PTL DEF AdminSpec, ReplacedWhole

-----------------------------------------------------------------------------
(* The config that is built while the tables move. *)

LEMMA BuilderKeepsAdmin ==
  ASSUME AdminInv, [Next]_vars
  PROVE  AdminInv'
<1>1. CASE Admin BY <1>1, ActionEffects, BoundsKept, EffectKeepsInv DEF Admin
<1>2. CASE UNCHANGED adminVars
  <2>1. Effect BY <1>2 DEF adminVars, Effect
  <2>2. edits' \in 0..MaxEdits /\ faults' \in 0..MaxFaults BY <1>2 DEF adminVars, AdminInv, AdminTypeOK
  <2> QED BY <2>1, <2>2, EffectKeepsInv
<1>3. CASE BuildFails
  <2>1. Effect BY <1>3 DEF BuildFails, tables, Effect
  <2>2. edits' \in 0..MaxEdits /\ faults' \in 0..MaxFaults
    BY <1>3, EditBoundAssumption DEF BuildFails, AdminInv, AdminTypeOK
  <2> QED BY <2>1, <2>2, EffectKeepsInv
<1> QED BY <1>1, <1>2, <1>3 DEF Next, Builder, StartBuild, Query, Respond, vars

\* What the tables hold of each kind, and which query finds it.
LEMMA NowRows ==
  ASSUME AdminInv, NEW x \in Now.rows
  PROVE  /\ x[1] \in Key => x \in q!ListAllActiveAPIKeys
         /\ x[1] \in Source => x \in q!ListAllSources
         /\ x[1] \in Guardrail => x \in q!ListAllEnabledGuardrails
         /\ x[1] \in Transformer => x \in q!ListAllEnabledTransformers
         /\ x[1] \in Webhook => x \in q!ListAllEnabledAlertWebhooks
         /\ x[1] \in Key \cup Source \cup Guardrail \cup Transformer \cup Webhook
<1>1. x \in q!ListAllSources \cup q!ListAllEnabledGuardrails \cup q!ListAllEnabledTransformers
            \cup q!ListAllEnabledAlertWebhooks \cup q!ListAllActiveAPIKeys
  BY DEF Now
<1>2. /\ x \in q!ListAllSources => x[1] \in Source
      /\ x \in q!ListAllEnabledGuardrails => x[1] \in Guardrail
      /\ x \in q!ListAllEnabledTransformers => x[1] \in Transformer
      /\ x \in q!ListAllEnabledAlertWebhooks => x[1] \in Webhook
      /\ x \in q!ListAllActiveAPIKeys => x[1] \in Key
  BY DEF q!ListAllSources, q!ListAllEnabledGuardrails, q!ListAllEnabledTransformers,
         q!ListAllEnabledAlertWebhooks, q!ListAllActiveAPIKeys, q!Enabled, q!Selected
<1>3. ASSUME NEW i PROVE /\ i \in Source => i \notin Guardrail \cup Transformer \cup Webhook \cup Key
                         /\ i \in Guardrail => i \notin Transformer \cup Webhook \cup Key
                         /\ i \in Transformer => i \notin Webhook \cup Key
                         /\ i \in Webhook => i \notin Key
  BY KindsApart, KindsAssumption
<1>4. CASE x \in q!ListAllSources BY <1>2, <1>3, <1>4
<1>5. CASE x \in q!ListAllEnabledGuardrails BY <1>2, <1>3, <1>5
<1>6. CASE x \in q!ListAllEnabledTransformers BY <1>2, <1>3, <1>6
<1>7. CASE x \in q!ListAllEnabledAlertWebhooks BY <1>2, <1>3, <1>7
<1>8. CASE x \in q!ListAllActiveAPIKeys BY <1>2, <1>3, <1>8
<1> QED BY <1>1, <1>4, <1>5, <1>6, <1>7, <1>8

LEMMA NowSources ==
  ASSUME AdminInv, NEW s \in Source
  PROVE  /\ Live(s) => <<s, row[s]>> \in q!ListAllSources /\ row[s] \in Row
         /\ \A r : <<s, r>> \in q!ListAllSources => Live(s)
<1>1. row[s] \in Row BY LiveItem
<1> QED BY <1>1 DEF q!ListAllSources, q!Selected, Live

\* A source that is gone has an empty chain.
LEMMA NoChain ==
  ASSUME AdminInv, NEW s \in Source, ~Live(s)
  PROVE  q!Ordered(chain[s]) = <<>>
<1>1. DOMAIN chain[s] = {} BY DEF AdminInv, Referential
<1>2. q!Cardinality(DOMAIN chain[s]) = 0
  <2>1. q!Cardinality({}) = Cardinality({}) BY DEF q!Cardinality, Cardinality
  <2> QED BY <1>1, <2>1, FS_EmptySet
<1> DEFINE Precedes(t, u) == \/ chain[s][t] < chain[s][u]
                           \/ (chain[s][t] = chain[s][u] /\ Before(t, u))
           place(i) == CHOOSE t \in DOMAIN chain[s] :
                         q!Cardinality({u \in DOMAIN chain[s] : Precedes(u, t)}) = i - 1
<1>3. q!Ordered(chain[s]) = [i \in 1..q!Cardinality(DOMAIN chain[s]) |-> place(i)] BY DEF q!Ordered
<1> HIDE DEF place
<1>4. [i \in 1..0 |-> place(i)] = <<>> OBVIOUS
<1> QED BY <1>2, <1>3, <1>4

LEMMA NowAttached ==
  ASSUME AdminInv
  PROVE  /\ \A w \in Now.wires : w[1] \in Source /\ Live(w[1])
         /\ \A x \in Now.chains : x[1] \in Source /\ (x[2] # <<>> => Live(x[1]))
         /\ \A s \in Source : ~Live(s) => <<s, <<>>>> \in Now.chains
<1>1. Now.wires = wired /\ Now.chains = {<<s, q!Ordered(chain[s])>> : s \in Source}
  BY DEF Now, q!ListAllSourceGuardrails, q!ListAllSourceTransformers
<1>2. \A w \in wired : w[1] \in Source /\ Live(w[1]) BY DEF AdminInv, AdminTypeOK, Referential
<1>3. \A s \in Source : <<s, q!Ordered(chain[s])>> \in Now.chains BY <1>1
<1>4. \A x \in Now.chains : x[1] \in Source /\ x[2] = q!Ordered(chain[x[1]]) BY <1>1
<1> QED BY <1>1, <1>2, <1>3, <1>4, NoChain

LEMMA Answers ==
  /\ Answer(Queries[1]) = [Nothing EXCEPT !.orgs = q!ListAllOrganizationIDs]
  /\ Answer(Queries[2]) = [Nothing EXCEPT !.rows = q!ListAllActiveAPIKeys]
  /\ Answer(Queries[3]) = [Nothing EXCEPT !.rows = q!ListAllSources]
  /\ Answer(Queries[4]) = [Nothing EXCEPT !.rows = q!ListAllEnabledGuardrails]
  /\ Answer(Queries[5]) = [Nothing EXCEPT !.wires = q!ListAllSourceGuardrails]
  /\ Answer(Queries[6]) = [Nothing EXCEPT !.rows = q!ListAllEnabledTransformers]
  /\ Answer(Queries[7]) = [Nothing EXCEPT !.chains = q!ListAllSourceTransformers]
  /\ Answer(Queries[8]) = [Nothing EXCEPT !.rows = q!ListAllEnabledAlertWebhooks]
  /\ Len(Queries) = 8
BY DEF Answer, Queries

\* What a query adds was there when it ran, and is what stayed in its table.
LEMMA QueryReads ==
  ASSUME BuildSound, build \in 1..8, NEW read, read = Both(got, Answer(Queries[build]))
  PROVE  /\ Within(read, ever) /\ Gathered(read, build + 1)
         /\ Attached(read, build + 1) /\ ChainsRead(read, build + 1)
<1> DEFINE a == Answer(Queries[build])
<1>0. PICK k \in 1..8 : k = build OBVIOUS
<1>1. /\ AdminInv /\ Within(got, ever) /\ Within(steady, Now) /\ Within(Now, ever)
      /\ Gathered(got, k) /\ Attached(got, k) /\ ChainsRead(got, k)
  BY <1>0 DEF BuildSound
<1>2. /\ read.orgs = got.orgs \cup a.orgs /\ read.rows = got.rows \cup a.rows
      /\ read.wires = got.wires \cup a.wires /\ read.chains = got.chains \cup a.chains
  BY DEF Both
<1>3. /\ Now.orgs = orgs /\ Now.wires = wired /\ Now.chains = q!ListAllSourceTransformers
      /\ Now.rows = q!ListAllSources \cup q!ListAllEnabledGuardrails \cup q!ListAllEnabledTransformers
                    \cup q!ListAllEnabledAlertWebhooks \cup q!ListAllActiveAPIKeys
  BY DEF Now, q!ListAllOrganizationIDs, q!ListAllSourceGuardrails
<1>4. /\ k = 1 => a.orgs = Now.orgs /\ a.rows = {} /\ a.wires = {} /\ a.chains = {}
      /\ k = 2 => a.orgs = {} /\ a.rows = q!ListAllActiveAPIKeys /\ a.wires = {} /\ a.chains = {}
      /\ k = 3 => a.orgs = {} /\ a.rows = q!ListAllSources /\ a.wires = {} /\ a.chains = {}
      /\ k = 4 => a.orgs = {} /\ a.rows = q!ListAllEnabledGuardrails /\ a.wires = {} /\ a.chains = {}
      /\ k = 5 => a.orgs = {} /\ a.rows = {} /\ a.wires = Now.wires /\ a.chains = {}
      /\ k = 6 => a.orgs = {} /\ a.rows = q!ListAllEnabledTransformers /\ a.wires = {} /\ a.chains = {}
      /\ k = 7 => a.orgs = {} /\ a.rows = {} /\ a.wires = {} /\ a.chains = Now.chains
      /\ k = 8 => a.orgs = {} /\ a.rows = q!ListAllEnabledAlertWebhooks /\ a.wires = {} /\ a.chains = {}
  BY <1>0, <1>3, Answers DEF Nothing, q!ListAllOrganizationIDs, q!ListAllSourceGuardrails
<1> HIDE DEF a
<1>5. k = 1 \/ k = 2 \/ k = 3 \/ k = 4 \/ k = 5 \/ k = 6 \/ k = 7 \/ k = 8 BY <1>0
<1>6. Within(a, Now) BY <1>3, <1>4, <1>5 DEF Within
<1>7. Within(read, ever) BY <1>1, <1>2, <1>6 DEF Within
<1>8. ASSUME NEW x \in steady.rows
      PROVE  /\ x[1] \in Key => x \in q!ListAllActiveAPIKeys
             /\ x[1] \in Source => x \in q!ListAllSources
             /\ x[1] \in Guardrail => x \in q!ListAllEnabledGuardrails
             /\ x[1] \in Transformer => x \in q!ListAllEnabledTransformers
             /\ x[1] \in Webhook => x \in q!ListAllEnabledAlertWebhooks
  <2>1. x \in Now.rows BY <1>1 DEF Within
  <2> QED BY <1>1, <2>1, NowRows
<1>9. steady.orgs \subseteq Now.orgs /\ steady.wires \subseteq Now.wires /\ steady.chains \subseteq Now.chains
  BY <1>1 DEF Within
<1>10. Gathered(read, k + 1)
  <2>1. CASE k = 1 BY <1>1, <1>2, <1>4, <1>9, <2>1 DEF Gathered
  <2>2. CASE k = 2 BY <1>1, <1>2, <1>4, <1>8, <2>2 DEF Gathered
  <2>3. CASE k = 3 BY <1>1, <1>2, <1>4, <1>8, <2>3 DEF Gathered
  <2>4. CASE k = 4 BY <1>1, <1>2, <1>4, <1>8, <2>4 DEF Gathered
  <2>5. CASE k = 5 BY <1>1, <1>2, <1>4, <1>9, <2>5 DEF Gathered
  <2>6. CASE k = 6 BY <1>1, <1>2, <1>4, <1>8, <2>6 DEF Gathered
  <2>7. CASE k = 7 BY <1>1, <1>2, <1>4, <1>9, <2>7 DEF Gathered
  <2>8. CASE k = 8 BY <1>1, <1>2, <1>4, <1>8, <2>8 DEF Gathered
  <2> QED BY <1>5, <2>1, <2>2, <2>3, <2>4, <2>5, <2>6, <2>7, <2>8
<1>11. Listed(got) \subseteq Listed(read) BY <1>2 DEF Listed
<1>12. Attached(read, k + 1)
  <2>1. CASE k < 3 BY <2>1 DEF Attached
  <2>2. CASE k = 3
    <3>1. \A s \in Source : Live(s) => s \in Listed(read)
      BY <1>1, <1>2, <1>4, <2>2, NowSources DEF Listed
    <3>2. \A w \in steady.wires : w[1] \in Listed(read) BY <1>1, <1>9, <3>1, NowAttached
    <3>3. \A x \in steady.chains : x[2] # <<>> => x[1] \in Listed(read) BY <1>1, <1>9, <3>1, NowAttached
    <3>4. ASSUME NEW s \in Source \ Listed(read) PROVE <<s, <<>>>> \in ever.chains
      <4>1. <<s, <<>>>> \in Now.chains BY <1>1, <3>1, NowAttached
      <4> QED BY <1>1, <4>1 DEF Within
    <3> QED BY <3>2, <3>3, <3>4 DEF Attached
  <2>3. CASE k > 3 BY <1>1, <1>11, <2>3 DEF Attached
  <2> QED BY <1>0, <2>1, <2>2, <2>3
<1>13. ChainsRead(read, k + 1)
  <2>1. CASE k < 7
    <3>1. a.chains = {} /\ got.chains = {} BY <1>1, <1>4, <1>5, <2>1 DEF ChainsRead
    <3> QED BY <1>0, <1>2, <2>1, <3>1 DEF ChainsRead
  <2>2. CASE k = 7
    <3>1. got.chains = {} /\ read.chains = Now.chains BY <1>1, <1>2, <1>4, <2>2 DEF ChainsRead
    <3>2. Now.chains = {<<s, q!Ordered(chain[s])>> : s \in Source} BY DEF Now, q!ListAllSourceTransformers
    <3>3. ASSUME NEW s \in Source
          PROVE  \E x \in Now.chains : x = <<s, x[2]>> /\ \A y \in Now.chains : y[1] = s => y = x
      <4> DEFINE list(u) == q!Ordered(chain[u])
      <4>1. Now.chains = {<<u, list(u)>> : u \in Source} BY <3>2
      <4> HIDE DEF list
      <4>2. <<s, list(s)>> \in Now.chains /\ \A y \in Now.chains : y = <<y[1], list(y[1])>> BY <4>1
      <4>3. PICK x : x = <<s, list(s)>> OBVIOUS
      <4>4. x \in Now.chains /\ x = <<s, x[2]>> /\ \A y \in Now.chains : y[1] = s => y = x BY <4>2, <4>3
      <4> QED BY <4>4
    <3> QED BY <2>2, <3>1, <3>3 DEF ChainsRead
  <2>3. CASE k = 8
    <3>1. read.chains = got.chains BY <1>2, <1>4, <2>3
    <3> QED BY <1>1, <2>3, <3>1 DEF ChainsRead
  <2> QED BY <1>0, <2>1, <2>2, <2>3
<1> QED BY <1>0, <1>7, <1>10, <1>12, <1>13

\* The config made of all that was read.
LEMMA AssembledBetween ==
  ASSUME BuildSound, build # 0, NEW read, Within(read, ever), Gathered(read, 9), Attached(read, 9),
         ChainsRead(read, 9)
  PROVE  Within(steady, Assemble(read)) /\ Within(Assemble(read), ever)
<1> DEFINE config == Assemble(read)
           place(s) == IF s \in Listed(read) THEN (CHOOSE x \in read.chains : x[1] = s)[2] ELSE <<>>
<1>1. /\ AdminInv /\ Within(steady, Now) /\ Within(Now, ever) /\ Home \in steady.orgs
  BY DEF BuildSound
<1>2. /\ steady.orgs \subseteq read.orgs /\ steady.wires \subseteq read.wires
      /\ steady.chains \subseteq read.chains /\ steady.rows \subseteq read.rows
  <2>1. \A x \in steady.rows : x \in Now.rows BY <1>1 DEF Within
  <2>2. \A x \in steady.rows : x[1] \in Key \cup Source \cup Guardrail \cup Transformer \cup Webhook
    BY <1>1, <2>1, NowRows
  <2> QED BY <2>2 DEF Gathered
<1>3. PICK a : a = Assemble(read) OBVIOUS
<1>4. /\ a.orgs = read.orgs /\ a.rows = read.rows
      /\ a.wires = {w \in read.wires : w[1] \in Listed(read)}
      /\ a.chains = {<<s, place(s)>> : s \in Source}
  <2>1. Home \in read.orgs BY <1>1, <1>2
  <2> QED BY <1>3, <2>1 DEF Assemble
<1> HIDE DEF place
<1>5. /\ \A w \in steady.wires : w[1] \in Listed(read)
      /\ \A x \in steady.chains : x[2] # <<>> => x[1] \in Listed(read)
      /\ \A s \in Source \ Listed(read) : <<s, <<>>>> \in ever.chains
  BY DEF Attached
<1>6. ASSUME NEW s \in Source
      PROVE  \E x \in read.chains : /\ x = <<s, x[2]>> /\ \A y \in read.chains : y[1] = s => y = x
                                    /\ s \in Listed(read) => place(s) = x[2]
                                    /\ s \notin Listed(read) => place(s) = <<>>
  <2>1. PICK x \in read.chains : x = <<s, x[2]>> /\ \A y \in read.chains : y[1] = s => y = x BY DEF ChainsRead
  <2>2. (CHOOSE y \in read.chains : y[1] = s) = x BY <2>1
  <2> QED BY <2>1, <2>2 DEF place
<1>7. \A x \in Now.chains : \E s \in Source : \E l : x = <<s, l>> BY DEF Now, q!ListAllSourceTransformers
<1>8. steady.chains \subseteq a.chains
  <2> SUFFICES ASSUME NEW x \in steady.chains PROVE x \in a.chains OBVIOUS
  <2>1. x \in Now.chains /\ x \in read.chains BY <1>1, <1>2 DEF Within
  <2>2. PICK s \in Source : \E l : x = <<s, l>> BY <1>7, <2>1
  <2>3. PICK l : x = <<s, l>> BY <2>2
  <2>4. x[1] = s /\ x[2] = l BY <2>3
  <2>5. place(s) = l
    <3>1. CASE s \in Listed(read) BY <1>6, <2>1, <2>4, <3>1
    <3>2. CASE s \notin Listed(read) BY <1>5, <1>6, <2>4, <3>2
    <3> QED BY <3>1, <3>2
  <2> QED BY <1>4, <2>3, <2>5
<1>9. a.chains \subseteq ever.chains
  <2> SUFFICES ASSUME NEW s \in Source PROVE <<s, place(s)>> \in ever.chains BY <1>4
  <2>1. CASE s \notin Listed(read) BY <1>5, <1>6, <2>1
  <2>2. CASE s \in Listed(read)
    <3>1. PICK x \in read.chains : x = <<s, x[2]>> /\ place(s) = x[2] BY <1>6, <2>2
    <3>2. x \in ever.chains BY DEF Within
    <3> QED BY <3>1, <3>2
  <2> QED BY <2>1, <2>2
<1> QED BY <1>1, <1>2, <1>3, <1>4, <1>5, <1>8, <1>9 DEF Within

LEMMA SameNow ==
  ASSUME UNCHANGED adminVars
  PROVE  Now' = Now
BY DEF adminVars, Now, q!ListAllOrganizationIDs, q!ListAllSources, q!ListAllEnabledGuardrails,
   q!ListAllEnabledTransformers, q!ListAllEnabledAlertWebhooks, q!ListAllActiveAPIKeys,
   q!ListAllSourceGuardrails, q!ListAllSourceTransformers, q!Enabled, q!Selected, q!Live, q!Ordered

LEMMA BuildStep ==
  ASSUME BuildSound, [Next]_vars
  PROVE  BuildSound'
<1>0. AdminInv /\ AdminInv' /\ build \in 0..8 /\ Len(Queries) = 8
  BY BuilderKeepsAdmin, Answers DEF BuildSound
<1>1. CASE StartBuild
  <2>1. got' = Nothing /\ steady' = Now /\ ever' = Now /\ build' = 1 BY <1>1 DEF StartBuild
  <2>2. Now' = Now BY <1>1, SameNow DEF StartBuild, adminVars
  <2>3. Within(got', ever') /\ Within(steady', Now') /\ Within(Now', ever')
    BY <2>1, <2>2 DEF Within, Nothing
  <2>4. Home \in steady'.orgs
    BY <1>0, <2>1 DEF Now, q!ListAllOrganizationIDs, AdminInv, AdminTypeOK
  <2>5. Gathered(got, build)' /\ Attached(got, build)' /\ ChainsRead(got, build)'
    BY <2>1 DEF Gathered, Attached, ChainsRead, Nothing
  <2> QED BY <1>0, <2>1, <2>3, <2>4, <2>5 DEF BuildSound
<1>2. CASE Query
  <2>1. PICK read : read = Both(got, Answer(Queries[build])) OBVIOUS
  <2>2. /\ build \in 1..7 /\ build' = build + 1 /\ got' = read
        /\ steady' = steady /\ ever' = ever
    BY <1>0, <1>2, <2>1 DEF Query
  <2>3. Now' = Now BY <1>2, SameNow DEF Query, adminVars
  <2>4. /\ Within(read, ever) /\ Gathered(read, build + 1)
        /\ Attached(read, build + 1) /\ ChainsRead(read, build + 1)
    BY <2>1, <2>2, QueryReads
  <2>5. Gathered(got, build)' /\ Attached(got, build)' /\ ChainsRead(got, build)'
    BY <2>2, <2>4 DEF Gathered, Attached, ChainsRead, Listed
  <2>6. /\ Within(got', ever') /\ Within(steady', Now') /\ Within(Now', ever') /\ Home \in steady'.orgs
    BY <2>2, <2>3, <2>4 DEF BuildSound
  <2>7. build' \in 0..8 BY <2>2
  <2> QED BY <1>0, <2>5, <2>6, <2>7 DEF BuildSound
<1>3. CASE build' = 0 BY <1>0, <1>3 DEF BuildSound
<1>4. CASE Admin /\ build # 0
  <2>1. PICK now : now = Now' OBVIOUS
  <2>2. /\ build' = build /\ got' = got
        /\ steady' = Common(steady, now) /\ ever' = Both(ever, now)
    BY <1>4, <2>1 DEF Admin, Observe
  <2>3. /\ Within(got, ever) /\ Home \in steady.orgs
        /\ Gathered(got, build) /\ Attached(got, build) /\ ChainsRead(got, build)
    BY <1>4 DEF BuildSound
  <2>4. Within(steady', now) /\ Within(now, ever') /\ Within(ever, ever') /\ Within(steady', steady)
    BY <2>2 DEF Within, Common, Both
  <2>5. Home \in steady'.orgs
    <3>1. now.orgs = orgs' /\ Home \in orgs' BY <1>0, <2>1 DEF Now, q!ListAllOrganizationIDs, AdminInv, AdminTypeOK
    <3> QED BY <2>2, <2>3, <3>1 DEF Common
  <2>6. Within(got', ever') BY <2>2, <2>3, <2>4 DEF Within
  <2>7. Gathered(got, build)' BY <2>2, <2>3, <2>4 DEF Gathered, Within
  <2>8. Attached(got, build)' BY <2>2, <2>3, <2>4 DEF Attached, Listed, Within
  <2>9. ChainsRead(got, build)' BY <2>2, <2>3 DEF ChainsRead
  <2> QED BY <1>0, <2>1, <2>2, <2>4, <2>5, <2>6, <2>7, <2>8, <2>9 DEF BuildSound
<1>5. CASE UNCHANGED vars
  <2>1. Now' = Now BY <1>5, SameNow DEF vars
  <2>2. UNCHANGED <<build, got, steady, ever>> BY <1>5 DEF vars, builderVars
  <2>3. build # 0 => Gathered(got, build)' /\ Attached(got, build)' /\ ChainsRead(got, build)'
    BY <2>2 DEF BuildSound, Gathered, Attached, ChainsRead, Listed
  <2> QED BY <1>0, <2>1, <2>2, <2>3 DEF BuildSound
<1>6. CASE Admin /\ build = 0 BY <1>3, <1>6 DEF Admin, Observe
<1>7. CASE Respond \/ BuildFails BY <1>3, <1>7 DEF Respond, BuildFails, Idle
<1> QED BY <1>1, <1>2, <1>4, <1>5, <1>6, <1>7 DEF Next, Builder

\* What a build has read lies between what stayed in the tables and what was ever in
\* them since it began (Builder.Build).
THEOREM BuildInvariant == Spec => []BuildSound
<1>1. BuilderInit => BuildSound BY InitAdmin, Answers DEF BuilderInit, BuildSound
<1>2. BuildSound /\ [Next]_vars => BuildSound' BY BuildStep
<1> QED BY <1>1, <1>2, PTL DEF Spec

\* However the tables move between its queries, a config holds everything that stayed
\* in them throughout the build, and nothing that was at no time in them.
THEOREM BuildsAreRegular == Spec => BuildIsRegular
<1>1. BuildSound /\ [Next]_vars =>
        [Respond => Within(steady, served') /\ Within(served', ever)]_vars
  <2> SUFFICES ASSUME BuildSound, Respond PROVE Within(steady, served') /\ Within(served', ever)
    OBVIOUS
  <2>1. PICK read : read = Both(got, Answer(Queries[build])) OBVIOUS
  <2>2. build = 8 /\ served' = Assemble(read) BY <2>1, Answers DEF Respond
  <2>3. Within(read, ever) /\ Gathered(read, 9) /\ Attached(read, 9) /\ ChainsRead(read, 9)
    BY <2>1, <2>2, QueryReads
  <2> QED BY <2>2, <2>3, AssembledBetween
<1> QED BY <1>1, BuildInvariant, PTL DEF Spec, BuildIsRegular
=============================================================================
