----------------------------- MODULE AdminTables -----------------------------
(***************************************************************************)
(* The dashboard calls that edit the control plane's tables.  Calls run    *)
(* concurrently and most are several SQL statements (AdminQueries): an     *)
(* update reads the stored row before it writes it back, attaching checks  *)
(* the guardrail first, replacing a transformer chain is a transaction,    *)
(* registering creates an organization and then its user.                  *)
(*                                                                         *)
(* Requests that decoding or validation refuses change nothing and are not *)
(* enumerated.                                                             *)
(***************************************************************************)
EXTENDS Naturals, Sequences, FiniteSets

CONSTANTS Source, Guardrail, Transformer, Webhook, Key, Org, Email,
          Home,         \* the organization whose rows are modelled
          Owner,        \* its user
          Secret, Redacted, Before(_, _),
          Call,         \* concurrent dashboard calls
          Existing,     \* sets of items that may exist initially
          MaxEdits,     \* bound: calls made during a behavior
          MaxFaults     \* bound: statements that fail during a behavior

VARIABLES
  row, wired, chain, orgs, users,  \* the tables
  tokens,  \* the claims of the login tokens issued: email and organization
  call,    \* each call's progress
  edits, faults

q == INSTANCE AdminQueries

Check == q!Check
Item == q!Item
Row == q!Row
Live(i) == q!Live(i)
tables == <<row, wired, chain>>
adminVars == <<row, wired, chain, orgs, users, tokens, call, edits, faults>>

ASSUME RedactedAssumption == Redacted \notin Secret
ASSUME KindsAssumption ==
  /\ Source \cap (Check \cup Webhook \cup Key) = {} /\ Guardrail \cap Transformer = {}
  /\ Check \cap (Webhook \cup Key) = {} /\ Webhook \cap Key = {}
ASSUME ExistingAssumption == Existing \subseteq SUBSET Item
ASSUME EditBoundAssumption == MaxEdits \in Nat /\ MaxFaults \in Nat
ASSUME HomeAssumption == Home \in Org /\ Owner \in Email
ASSUME IdsAssumption == Source # {} /\ Secret # {} /\ IsFiniteSet(Transformer)

\* Omitted JSON fields are {}; an omitted `enabled` is true, but in the update
\* of a webhook.
Option(S) == {{}} \cup {{x} : x \in S}
OrElse(option, default) == IF option = {} THEN default ELSE CHOOSE x \in option : TRUE

\* What an update carries.  A client that does not change a secret sends back
\* what the response showed: nothing for a source, Redacted for a check.
Params == [enabled : Option(BOOLEAN), secret : Option(Secret \cup {Redacted})]

ChainLists == {ids \in UNION {[1..n -> Transformer] : n \in 0..Cardinality(Transformer)} :
                 \A i, j \in DOMAIN ids : ids[i] = ids[j] => i = j}
IdsOf(list) == {list[i] : i \in DOMAIN list}

\* keeps: the update omitted the secret.  sees, del, ins: a chain
\* transaction's DELETE snapshot, deleted rows and inserted rows, uncommitted.
\* email, org: a registration's.
CallState ==
  [at : {"idle", "read", "write", "attach", "append", "detach",
         "check", "delete", "deleting", "insert", "user"},
   item : Item, params : Params, keeps : BOOLEAN, source : Source, pos : Nat,
   ids : ChainLists, sees : SUBSET Transformer, del : SUBSET Transformer, ins : Nat,
   email : Email, org : Org]

NoCall == [at |-> "idle", item |-> CHOOSE i \in Item : TRUE,
           params |-> [enabled |-> {}, secret |-> {}], keeps |-> FALSE,
           source |-> CHOOSE s \in Source : TRUE, pos |-> 0,
           ids |-> <<>>, sees |-> {}, del |-> {}, ins |-> 0, email |-> Owner, org |-> Home]

\* Ids are random: a client names what was there when it looked.
Known(i) == row[i].st # "unused"
Fresh(st) == [st |-> st, enabled |-> TRUE, secret |-> CHOOSE s \in Secret : TRUE]

\* A database some earlier calls left behind, everything in it enabled, and
\* Home's user logged in.
Init ==
  /\ \E E \in Existing :
       row = [i \in Item |-> IF i \in E THEN Fresh("live") ELSE Fresh("unused")]
  /\ wired \in SUBSET {w \in Source \X Guardrail : Live(w[1]) /\ Live(w[2])}
  /\ \E ids \in [Source -> ChainLists] :
       /\ \A s \in Source : \A t \in IdsOf(ids[s]) : Live(s) /\ Live(t)
       /\ chain = [s \in Source |->
                     [t \in IdsOf(ids[s]) |-> (CHOOSE i \in DOMAIN ids[s] : ids[s][i] = t) - 1]]
  /\ orgs = {Home}
  /\ users = [e \in {Owner} |-> Home]
  /\ tokens = {<<Owner, Home>>}
  /\ call = [c \in Call |-> NoCall]
  /\ edits = 0 /\ faults = 0

Submit == edits < MaxEdits /\ edits' = edits + 1 /\ UNCHANGED faults

\* A call that becomes pending.
Accept(c, p) ==
  /\ call[c].at = "idle"
  /\ Submit
  /\ call' = [call EXCEPT ![c] = p]
  /\ UNCHANGED tokens

\* A pending call's step, and its last.
Proceed(c, p) == call' = [call EXCEPT ![c] = p] /\ UNCHANGED <<tokens, edits, faults>>
Return(c) == Proceed(c, NoCall)
NothingWritten == UNCHANGED <<tables, orgs, users>>

\* A call of one statement.
Once == Submit /\ UNCHANGED <<call, tokens>>

-----------------------------------------------------------------------------
(* The requests the handlers pass on: decoded, valid, with the fields they   *)
(* require.                                                                  *)

PostSource == [item : Source, enabled : {{}, {FALSE}}, secret : Secret]
PostGuardrail == [item : Guardrail, enabled : {{}, {FALSE}}, secret : Secret]
PostTransformer == [item : Transformer, enabled : {{}, {FALSE}}, secret : Secret]
PostAlert == [item : Webhook, enabled : Option(BOOLEAN)]

PutSource == [item : Source, enabled : {{}, {FALSE}}, secret : Option(Secret)]
PutGuardrail == [item : Guardrail, enabled : {{}, {FALSE}}, secret : Option(Secret)]
PutTransformer == [item : Transformer, enabled : {{}, {FALSE}}, secret : Option(Secret)]
PutAlert == [item : Webhook, enabled : Option(BOOLEAN), secret : {{}}]

PutSourceTransformers == [source : Source, ids : ChainLists]

-----------------------------------------------------------------------------
(* Creating: one INSERT. *)

Create(i) == row[i].st = "unused" /\ Once

CreateSource ==
  \E r \in PostSource : Create(r.item) /\ q!CreateSource(r.item, OrElse(r.enabled, TRUE), r.secret)
CreateGuardrail ==
  \E r \in PostGuardrail :
    Create(r.item) /\ q!CreateGuardrail(r.item, OrElse(r.enabled, TRUE), r.secret)
CreateTransformer ==
  \E r \in PostTransformer :
    Create(r.item) /\ q!CreateTransformer(r.item, OrElse(r.enabled, TRUE), r.secret)
CreateWebhook ==
  \E r \in PostAlert :
    Create(r.item) /\ q!CreateAlertWebhook(r.item, OrElse(r.enabled, TRUE), row[r.item].secret)
CreateAPIKey == \E k \in Key : Create(k) /\ q!CreateAPIKey(k, row[k].secret)

RevokeAPIKey == \E k \in Key : Known(k) /\ Once /\ q!RevokeAPIKey(k)

-----------------------------------------------------------------------------
(* Registering: the organization, then its user.  Logging in.                *)

Register(c) ==
  \E e \in Email, o \in Org \ orgs :
    /\ \A d \in Call : call[d].org # o
    /\ Accept(c, [NoCall EXCEPT !.at = "user", !.email = e, !.org = o])
    /\ q!CreateOrganization(o)

\* A token if the user was created.
CreateUser(c) ==
  LET e == call[c].email IN
  /\ call[c].at = "user"
  /\ q!CreateUser(call[c].org, e)
  /\ call' = [call EXCEPT ![c] = NoCall]
  /\ tokens' = IF e \in DOMAIN users THEN tokens ELSE tokens \cup {<<e, call[c].org>>}
  /\ UNCHANGED <<edits, faults>>

\* With the right password.
Login ==
  \E e \in Email :
    /\ q!GetUserByEmail(e) # {}
    /\ tokens' = tokens \cup q!GetUserByEmail(e)
    /\ Submit
    /\ NothingWritten
    /\ UNCHANGED call

-----------------------------------------------------------------------------
(* Updating: read what the request leaves out, then write the whole row. *)

Update(c, r, first) ==
  /\ Known(r.item)
  /\ Accept(c, [NoCall EXCEPT !.at = first, !.item = r.item, !.keeps = r.secret = {},
                              !.params = [enabled |-> r.enabled, secret |-> r.secret]])
  /\ NothingWritten

\* A source is read only when the key is omitted.
UpdateSource(c) == \E r \in PutSource : Update(c, r, IF r.secret = {} THEN "read" ELSE "write")
UpdateGuardrail(c) == \E r \in PutGuardrail : Update(c, r, "read")
UpdateTransformer(c) == \E r \in PutTransformer : Update(c, r, "read")
UpdateWebhook(c) == \E r \in PutAlert : Update(c, r, "read")

\* Only a webhook keeps an omitted `enabled`; elsewhere it means true.
Preserve(i, p, stored) ==
  IF i \in Webhook THEN [p EXCEPT !.enabled = {OrElse(p.enabled, stored.enabled)}]
                   ELSE [p EXCEPT !.secret = {OrElse(p.secret, stored.secret)}]

Stored(i) == UNION {
  IF i \in Source THEN q!GetSource(i) ELSE {},
  IF i \in Guardrail THEN q!GetGuardrail(i) ELSE {},
  IF i \in Transformer THEN q!GetTransformer(i) ELSE {},
  IF i \in Webhook THEN q!GetAlertWebhook(i) ELSE {}}

ReadStored(c) ==
  /\ call[c].at = "read"
  /\ \E r \in Stored(call[c].item) :
       Proceed(c, [call[c] EXCEPT
         !.at = "write", !.params = Preserve(call[c].item, call[c].params, r[2])])
  /\ NothingWritten

\* Faulty: a source is updated like a check.
AfterAnyFailedRead(p) ==
  IF p.item \in Check \cup Source
  THEN [p EXCEPT !.at = "write", !.params.secret = {OrElse(p.params.secret, Redacted)}]
  ELSE NoCall

\* The read fails, or finds nothing.  An update of a check goes on without
\* the stored config, with the redacted value the client sent.
AfterFailedRead(p) ==
  IF p.item \in Check
  THEN [p EXCEPT !.at = "write", !.params.secret = {OrElse(p.params.secret, Redacted)}]
  ELSE NoCall

ReadFails(c) ==
  LET found == Stored(call[c].item) # {} IN
  /\ call[c].at = "read"
  /\ found => faults < MaxFaults
  /\ call' = [call EXCEPT ![c] = AfterFailedRead(call[c])]
  /\ faults' = IF found THEN faults + 1 ELSE faults
  /\ NothingWritten /\ UNCHANGED <<tokens, edits>>

WriteRow(c) ==
  LET i == call[c].item
      e == OrElse(call[c].params.enabled, TRUE)
      s == OrElse(call[c].params.secret, row[i].secret) IN
  /\ call[c].at = "write"
  /\ \/ i \in Source /\ q!UpdateSource(i, e, s)
     \/ i \in Guardrail /\ q!UpdateGuardrail(i, e, s)
     \/ i \in Transformer /\ q!UpdateTransformer(i, e, s)
     \/ i \in Webhook /\ q!UpdateAlertWebhook(i, e, s)
  /\ Return(c)

-----------------------------------------------------------------------------
(* Row locks.  A chain transaction holds the rows it deleted and inserted    *)
(* until it ends; READ COMMITTED statements of others wait for them.         *)

InTx(c, s) == call[c].at = "insert" /\ call[c].source = s
Inserted(c) == {call[c].ids[i] : i \in 1..call[c].ins}
Holds(c, s, t) == InTx(c, s) /\ t \in call[c].del \cup Inserted(c)

\* Whom c's next statement waits for.
WaitsFor(c, d) ==
  LET p == call[c] IN
  /\ c # d
  /\ \/ p.at = "deleting" /\ \E t \in p.sees : Holds(d, p.source, t)
     \/ p.at = "insert" /\ p.ins < Len(p.ids) /\ Holds(d, p.source, p.ids[p.ins + 1])
     \/ p.at \in {"append", "detach"} /\ Holds(d, p.source, p.item)
Waits(c) == \E d \in Call : WaitsFor(c, d)

\* A DELETE that waited skips the rows another statement has removed, and
\* does not see rows inserted since it began.
Unsee(calls, s, gone) ==
  [c \in Call |-> IF calls[c].source = s THEN [calls[c] EXCEPT !.sees = @ \ gone]
                                         ELSE calls[c]]

-----------------------------------------------------------------------------
(* Deleting: one DELETE.  One that waits for a chain transaction is one that *)
(* starts once that has ended.                                               *)

Delete(i) == Live(i) /\ Submit /\ UNCHANGED tokens

DeleteSource ==
  \E s \in Source :
    /\ \A c \in Call : InTx(c, s) => call[c].del = {} /\ call[c].ins = 0
    /\ Delete(s) /\ q!DeleteSource(s)
    /\ call' = Unsee(call, s, Transformer)
DeleteGuardrail == \E g \in Guardrail : Delete(g) /\ q!DeleteGuardrail(g) /\ UNCHANGED call
DeleteTransformer ==
  \E t \in Transformer :
    /\ \A c \in Call, s \in Source : ~Holds(c, s, t)
    /\ Delete(t) /\ q!DeleteTransformer(t)
    /\ call' = [c \in Call |-> [call[c] EXCEPT !.sees = @ \ {t}]]
DeleteWebhook == \E w \in Webhook : Delete(w) /\ q!DeleteAlertWebhook(w) /\ UNCHANGED call

-----------------------------------------------------------------------------
(* Attaching and detaching: look the check up, then one statement.  Only the *)
(* foreign keys look at the source.                                          *)

StartAttach(c) ==
  \E p \in Check, s \in Source :
    /\ Known(s) /\ Stored(p) # {}
    /\ Accept(c, [NoCall EXCEPT !.at = "attach", !.item = p, !.source = s])
    /\ NothingWritten
StartDetach(c) ==
  \E p \in Check, s \in Source :
    /\ Known(s) /\ Stored(p) # {}
    /\ Accept(c, [NoCall EXCEPT !.at = "detach", !.item = p, !.source = s])
    /\ NothingWritten

AttachGuardrail(c) ==
  /\ call[c].at = "attach" /\ call[c].item \in Guardrail
  /\ q!AttachGuardrailToSource(call[c].source, call[c].item)
  /\ Return(c)

\* The INSERT's SELECT sees the rows committed before it.
ReadPosition(c) ==
  /\ call[c].at = "attach" /\ call[c].item \in Transformer
  /\ Proceed(c, [call[c] EXCEPT !.at = "append", !.pos = q!NextPosition(call[c].source)])
  /\ NothingWritten

AttachTransformer(c) ==
  /\ call[c].at = "append" /\ ~Waits(c)
  /\ q!AttachTransformerToSource(call[c].source, call[c].item, call[c].pos)
  /\ Return(c)

DetachGuardrail(c) ==
  /\ call[c].at = "detach" /\ call[c].item \in Guardrail
  /\ q!DetachGuardrailFromSource(call[c].source, call[c].item)
  /\ Return(c)

DetachTransformer(c) ==
  LET s == call[c].source
      t == call[c].item IN
  /\ call[c].at = "detach" /\ t \in Transformer /\ ~Waits(c)
  /\ q!DetachTransformerFromSource(s, t)
  /\ call' = Unsee([call EXCEPT ![c] = NoCall], s, {t})
  /\ UNCHANGED <<tokens, edits, faults>>

-----------------------------------------------------------------------------
(* Replacing a source's chain: three checks, then a transaction of one       *)
(* DELETE and an INSERT per id.                                              *)

\* The ids are distinct and the organization's.
SetSourceTransformers(c) ==
  \E r \in PutSourceTransformers :
    /\ Known(r.source)
    /\ q!CountTransformersByOrgAndIDs(IdsOf(r.ids)) = Len(r.ids)
    /\ Accept(c, [NoCall EXCEPT !.at = "check", !.source = r.source, !.ids = r.ids])
    /\ NothingWritten

CheckSource(c) ==
  /\ call[c].at = "check"
  /\ Proceed(c, IF q!GetSource(call[c].source) # {} THEN [call[c] EXCEPT !.at = "delete"]
                                                    ELSE NoCall)
  /\ NothingWritten

\* The DELETE takes its snapshot, and ends once nobody holds a row of it.
TxDelete(c) ==
  /\ call[c].at = "delete"
  /\ Proceed(c, [call[c] EXCEPT
       !.at = "deleting", !.sees = q!DeleteSourceTransformers(call[c].source)])
  /\ NothingWritten
\* Faulty: the DELETE runs outside the transaction.
TxDeletedAtOnce(c) ==
  LET p == call[c] IN
  /\ p.at = "deleting" /\ ~Waits(c)
  /\ chain' = [chain EXCEPT ![p.source] = q!Without(@, p.sees)]
  /\ Proceed(c, [p EXCEPT !.at = "insert", !.sees = {}])
  /\ UNCHANGED <<row, wired, orgs, users>>
TxDeleted(c) ==
  /\ call[c].at = "deleting" /\ ~Waits(c)
  /\ Proceed(c, [call[c] EXCEPT !.at = "insert", !.sees = {}, !.del = call[c].sees])
  /\ NothingWritten

\* Faulty: a failed insert is tried again, with the transaction held open.
TxInsertRetrying(c) ==
  LET p == call[c]
      t == p.ids[p.ins + 1] IN
  /\ p.at = "insert" /\ p.ins < Len(p.ids) /\ ~Waits(c)
  /\ q!InsertSourceTransformer(p.source, t, p.del)
  /\ Proceed(c, [p EXCEPT !.ins = @ + 1])
  /\ NothingWritten

\* A row that exists, or a foreign key that does not, rolls back.
TxInsert(c) ==
  LET p == call[c]
      t == p.ids[p.ins + 1] IN
  /\ p.at = "insert" /\ p.ins < Len(p.ids) /\ ~Waits(c)
  /\ Proceed(c, IF q!InsertSourceTransformer(p.source, t, p.del)
                THEN [p EXCEPT !.ins = @ + 1]
                ELSE NoCall)
  /\ NothingWritten

\* Positions 0..n-1 for the new rows; rows the DELETE did not see remain.
Replaced(rows, p) ==
  [t \in (DOMAIN rows \ p.del) \cup IdsOf(p.ids) |->
     IF t \in IdsOf(p.ids) THEN (CHOOSE i \in DOMAIN p.ids : p.ids[i] = t) - 1 ELSE rows[t]]

TxCommit(c) ==
  LET p == call[c] IN
  /\ p.at = "insert" /\ p.ins = Len(p.ids)
  /\ chain' = [chain EXCEPT ![p.source] = Replaced(@, p)]
  /\ call' = Unsee([call EXCEPT ![c] = NoCall], p.source, p.del)
  /\ UNCHANGED <<row, wired, orgs, users, tokens, edits, faults>>

\* Postgres aborts one of the calls that wait for each other.
DeadlockVictim(c) ==
  /\ \E S \in SUBSET Call : c \in S /\ \A d \in S : \E e \in S : WaitsFor(d, e)
  /\ Return(c)
  /\ NothingWritten

\* A statement fails, or the client goes away: a transaction rolls back, what
\* an earlier statement of another call wrote stays.
Abort(c) ==
  /\ call[c].at # "idle" /\ faults < MaxFaults
  /\ call' = [call EXCEPT ![c] = NoCall]
  /\ faults' = faults + 1
  /\ NothingWritten /\ UNCHANGED <<tokens, edits>>

-----------------------------------------------------------------------------

Step(c) ==
  \/ ReadStored(c) \/ ReadFails(c) \/ WriteRow(c)
  \/ AttachGuardrail(c) \/ ReadPosition(c) \/ AttachTransformer(c)
  \/ DetachGuardrail(c) \/ DetachTransformer(c)
  \/ CheckSource(c) \/ TxDelete(c) \/ TxDeleted(c) \/ TxInsert(c) \/ TxCommit(c)
  \/ DeadlockVictim(c) \/ CreateUser(c)

Edit ==
  \/ CreateSource \/ CreateGuardrail \/ CreateTransformer \/ CreateWebhook \/ CreateAPIKey
  \/ RevokeAPIKey \/ Login
  \/ DeleteSource \/ DeleteGuardrail \/ DeleteTransformer \/ DeleteWebhook

Request(c) ==
  \/ UpdateSource(c) \/ UpdateGuardrail(c) \/ UpdateTransformer(c) \/ UpdateWebhook(c)
  \/ StartAttach(c) \/ StartDetach(c) \/ SetSourceTransformers(c) \/ Register(c)

AdminNext == Edit \/ \E c \in Call : Request(c) \/ Step(c) \/ Abort(c)
AdminSpec == Init /\ [][AdminNext]_adminVars /\ \A c \in Call : WF_adminVars(Step(c))

-----------------------------------------------------------------------------
(* Properties. *)

\* Types of the tables and of the calls' local state.
AdminTypeOK ==
  /\ row \in [Item -> Row]
  /\ wired \subseteq Source \X Guardrail
  /\ chain = [s \in Source |-> chain[s]]
  /\ \A s \in Source : /\ DOMAIN chain[s] \subseteq Transformer
                       /\ chain[s] \in [DOMAIN chain[s] -> Nat]
  /\ orgs \subseteq Org /\ Home \in orgs
  /\ DOMAIN users \subseteq Email /\ \A e \in DOMAIN users : users[e] \in orgs
  /\ tokens \subseteq Email \X Org
  /\ call \in [Call -> CallState]
  /\ edits \in 0..MaxEdits /\ faults \in 0..MaxFaults

\* No attachment outlives what it connects, in whatever order deletions,
\* attachments and chain transactions commit (transformer.go:131, guardrail.go:172:
\* only the check's existence is looked at, and before the statement).
Referential ==
  /\ \A w \in wired : Live(w[1]) /\ Live(w[2])
  /\ \A s \in Source : \A t \in DOMAIN chain[s] : Live(s) /\ Live(t)

\* A source's key is one an administrator gave: an update that could not read
\* the stored key gives up (source.go:171) and never stores a blank or a marker.
SourceKeyGiven == \A s \in Source : Live(s) => row[s].secret \in Secret

\* An update that read a row before it was deleted does not bring it back
\* (source.go:204, guardrail.go:153, transformer.go:113, alert.go:88).
DeletedStaysDeleted ==
  [][\A i \in Item : row[i].st = "deleted" => row'[i].st = "deleted"]_adminVars

\* A login token stands for the account that holds its email, and an account is
\* alone in its organization, however registrations of one email race or fail
\* between their two statements (auth.go:62, auth.go:75).
TokensMatchAccounts ==
  /\ \A t \in tokens : t[1] \in DOMAIN users /\ users[t[1]] = t[2]
  /\ \A e, f \in DOMAIN users : users[e] = users[f] => e = f

\* Who changes a chain: a deletion, a one-row attach or detach that ends, or a
\* replacement that ends with all its ids in their order.  One that fails half
\* way changes nothing (transformer.go:192).
Replaces(p, old, new) ==
  new = old \/ /\ \A i \in DOMAIN p.ids : p.ids[i] \in DOMAIN new
               /\ \A i, j \in DOMAIN p.ids : i < j => new[p.ids[i]] < new[p.ids[j]]
ChainChanges(s) ==
  \/ row' # row
  \/ \E c \in Call : /\ call[c].source = s /\ call[c].at # "idle" /\ call'[c].at = "idle"
                     /\ call[c].at \notin {"append", "detach"} => Replaces(call[c], chain[s], chain'[s])
                     /\ call[c].at = "append" => DOMAIN chain[s] \subseteq DOMAIN chain'[s]
ReplacedWhole == [][\A s \in Source : chain'[s] # chain[s] => ChainChanges(s)]_adminVars

\* Every call returns: calls that wait for each other's rows do not wait forever
\* (transformer.go:202 inserts in the order of the request).
CallsReturn == \A c \in Call : call[c].at # "idle" ~> call[c].at = "idle"

\* An update that leaves the secret out keeps the stored one ("An empty
\* LLMAPIKey keeps the stored key rather than overwriting it", source.go:164;
\* "the stored value is kept instead of overwriting the real secret",
\* sanitize.go:34).
OmittedSecretKept ==
  [][\A c \in Call : call[c].at = "write" /\ call[c].keeps /\ call'[c].at = "idle" =>
       row'[call[c].item].secret = row[call[c].item].secret]_adminVars

\* The inductive invariant behind Referential, SourceKeyGiven and TokensMatchAccounts:
\* what a chain transaction has inserted stays live, a key on its way to a source was
\* given, only transformers are appended, and the organization of a registration under
\* way is its own.
CallsSound ==
  \A c \in Call :
    /\ call[c].at \in {"read", "write"} /\ call[c].item \in Source =>
         call[c].params.secret \subseteq Secret
    /\ call[c].at = "append" => call[c].item \in Transformer
    /\ call[c].at # "insert" => call[c].ins = 0
    /\ call[c].ins <= Len(call[c].ids)
    /\ \A i \in 1..call[c].ins : Live(call[c].ids[i]) /\ Live(call[c].source)
Registering ==
  /\ \A c \in Call : call[c].org \in orgs
  /\ \A c \in Call : call[c].at = "user" =>
       /\ \A e \in DOMAIN users : users[e] # call[c].org
       /\ \A d \in Call \ {c} : call[d].at = "user" => call[d].org # call[c].org
AdminInv ==
  /\ AdminTypeOK /\ Referential /\ TokensMatchAccounts /\ CallsSound /\ Registering
  /\ \A s \in Source : row[s].secret \in Secret
=============================================================================
