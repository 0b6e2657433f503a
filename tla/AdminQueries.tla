----------------------------- MODULE AdminQueries -----------------------------
(***************************************************************************)
(* The control plane's tables, and the SQL statements the services run on  *)
(* them: one operator per generated query, named as in Go.  A statement    *)
(* that writes is the action of its commit, cascades and foreign keys      *)
(* included; one that reads is the rows it returns.                        *)
(*                                                                         *)
(* The rows of sources, guardrails, transformers, webhooks and keys are    *)
(* those of one organization, Home: every statement on them is scoped by   *)
(* organization_id.  A column the properties do not tell apart (names,     *)
(* URLs, criteria) is left out; `secret` stands for a source's LLM key and *)
(* for the secret field of a guardrail's or transformer's config.          *)
(***************************************************************************)
EXTENDS Naturals, Sequences, FiniteSets

CONSTANTS Source, Guardrail, Transformer, Webhook, Key, Org, Email,
          Home,         \* the organization whose rows are modelled
          Secret,
          Redacted,     \* "***", what responses show in place of a secret
          Before(_, _)  \* the order of transformer ids

VARIABLES
  row,     \* each item's row
  wired,   \* source_guardrails
  chain,   \* source_transformers: per source, the position of each transformer
  orgs,    \* organizations
  users    \* users: the organization of each registered email

tables == <<row, wired, chain>>
accounts == <<orgs, users>>

Check == Guardrail \cup Transformer
Item == Source \cup Check \cup Webhook \cup Key

\* Ids are never reused.  A key's `enabled` is revoked_at IS NULL.
Row == [st : {"unused", "live", "deleted"}, enabled : BOOLEAN, secret : Secret \cup {Redacted}]

Live(i) == row[i].st = "live"

Insert(i, e, s) ==
  /\ row' = [row EXCEPT ![i] = [st |-> "live", enabled |-> e, secret |-> s]]
  /\ UNCHANGED <<wired, chain, accounts>>

\* WHERE id: nothing to write once the row is gone.
Set(i, e, s) ==
  /\ row' = IF Live(i) THEN [row EXCEPT ![i].enabled = e, ![i].secret = s] ELSE row
  /\ UNCHANGED <<wired, chain, accounts>>

Remove(i) == row' = IF Live(i) THEN [row EXCEPT ![i].st = "deleted"] ELSE row

Selected(items) == {<<i, row[i]>> : i \in {j \in items : Live(j)}}
Enabled(items) == Selected({i \in items : row[i].enabled})

Without(rows, gone) == [t \in DOMAIN rows \ gone |-> rows[t]]

-----------------------------------------------------------------------------
(* sources *)

CreateSource(s, e, k) == Insert(s, e, k)
GetSource(s) == Selected({s})

\* Faulty: an upsert.
UpsertSource(s, e, k) == Insert(s, e, k)
UpdateSource(s, e, k) == Set(s, e, k)

\* The attachments go with the source.
DeleteSource(s) ==
  /\ Remove(s)
  /\ wired' = {w \in wired : w[1] # s}
  /\ chain' = [chain EXCEPT ![s] = <<>>]
  /\ UNCHANGED accounts

ListAllSources == Selected(Source)

-----------------------------------------------------------------------------
(* guardrails, source_guardrails *)

CreateGuardrail(g, e, k) == Insert(g, e, k)
GetGuardrail(g) == Selected({g})
UpdateGuardrail(g, e, k) == Set(g, e, k)

DeleteGuardrail(g) ==
  /\ Remove(g)
  /\ wired' = {w \in wired : w[2] # g}
  /\ UNCHANGED <<chain, accounts>>

\* Faulty: without the foreign keys.
AttachGuardrailUnchecked(s, g) ==
  /\ wired' = wired \cup {<<s, g>>}
  /\ UNCHANGED <<row, chain, accounts>>

\* ON CONFLICT DO NOTHING; a missing foreign key is an error.
AttachGuardrailToSource(s, g) ==
  /\ wired' = IF Live(g) /\ Live(s) THEN wired \cup {<<s, g>>} ELSE wired
  /\ UNCHANGED <<row, chain, accounts>>

DetachGuardrailFromSource(s, g) ==
  /\ wired' = wired \ {<<s, g>>}
  /\ UNCHANGED <<row, chain, accounts>>

ListAllEnabledGuardrails == Enabled(Guardrail)
ListAllSourceGuardrails == wired

-----------------------------------------------------------------------------
(* transformers, source_transformers *)

CreateTransformer(t, e, k) == Insert(t, e, k)
GetTransformer(t) == Selected({t})
UpdateTransformer(t, e, k) == Set(t, e, k)

DeleteTransformer(t) ==
  /\ Remove(t)
  /\ chain' = [s \in Source |-> Without(chain[s], {t})]
  /\ UNCHANGED <<wired, accounts>>

CountTransformersByOrgAndIDs(ids) == Cardinality(Selected(ids))

\* COALESCE(MAX(position) + 1, 0), over the rows committed before the INSERT.
NextPosition(s) ==
  LET rows == chain[s] IN
  IF DOMAIN rows = {} THEN 0
  ELSE 1 + rows[CHOOSE t \in DOMAIN rows : \A u \in DOMAIN rows : rows[u] <= rows[t]]

\* ON CONFLICT DO NOTHING; a missing foreign key is an error.
AttachTransformerToSource(s, t, pos) ==
  /\ chain' = IF Live(t) /\ Live(s) /\ t \notin DOMAIN chain[s]
              THEN [chain EXCEPT ![s] = [u \in DOMAIN chain[s] \cup {t} |->
                      IF u = t THEN pos ELSE chain[s][u]]]
              ELSE chain
  /\ UNCHANGED <<row, wired, accounts>>

DetachTransformerFromSource(s, t) ==
  /\ chain' = [chain EXCEPT ![s] = Without(chain[s], {t})]
  /\ UNCHANGED <<row, wired, accounts>>

\* The rows the DELETE of a chain transaction finds.
DeleteSourceTransformers(s) == DOMAIN chain[s]

\* Whether an INSERT of it succeeds: the foreign keys exist, the row does not.
InsertSourceTransformer(s, t, deleted) ==
  Live(t) /\ Live(s) /\ t \notin DOMAIN chain[s] \ deleted

ListAllEnabledTransformers == Enabled(Transformer)

\* ORDER BY position, transformer_id.
Ordered(rows) ==
  LET Precedes(t, u) == \/ rows[t] < rows[u]
                        \/ rows[t] = rows[u] /\ Before(t, u)
  IN  [i \in 1..Cardinality(DOMAIN rows) |->
         CHOOSE t \in DOMAIN rows :
           Cardinality({u \in DOMAIN rows : Precedes(u, t)}) = i - 1]
ListAllSourceTransformers == {<<s, Ordered(chain[s])>> : s \in Source}

-----------------------------------------------------------------------------
(* alert_webhooks, api_keys *)

CreateAlertWebhook(w, e, u) == Insert(w, e, u)
GetAlertWebhook(w) == Selected({w})
UpdateAlertWebhook(w, e, u) == Set(w, e, u)
DeleteAlertWebhook(w) == Remove(w) /\ UNCHANGED <<wired, chain, accounts>>
ListAllEnabledAlertWebhooks == Enabled(Webhook)

CreateAPIKey(k, h) == Insert(k, TRUE, h)
RevokeAPIKey(k) == Set(k, FALSE, row[k].secret)
ListAllActiveAPIKeys == Enabled(Key)

-----------------------------------------------------------------------------
(* organizations, users *)

CreateOrganization(o) ==
  /\ orgs' = orgs \cup {o}
  /\ UNCHANGED <<tables, users>>

\* Faulty: an upsert by email.
UpsertUser(o, e) ==
  /\ users' = [x \in DOMAIN users \cup {e} |-> IF x = e THEN o ELSE users[x]]
  /\ UNCHANGED <<tables, orgs>>

\* An email that is taken is an error.
CreateUser(o, e) ==
  /\ users' = IF e \in DOMAIN users THEN users
              ELSE [x \in DOMAIN users \cup {e} |-> IF x = e THEN o ELSE users[x]]
  /\ UNCHANGED <<tables, orgs>>

GetUserByEmail(e) == {<<x, users[x]>> : x \in DOMAIN users \cap {e}}

ListAllOrganizationIDs == orgs
=============================================================================
