---------------------------- MODULE ConfigBuilder ----------------------------
(***************************************************************************)
(* Builder.Build assembles the config a data plane polls from one query    *)
(* per table, without a transaction, while dashboard calls edit the tables.*)
(***************************************************************************)
EXTENDS AdminTables

VARIABLES
  build,    \* the query Build is at: 1..Len(Queries), 0 when not building
  got,      \* what the queries so far returned
  served,   \* the last config a data plane received
  steady,   \* history: what the tables held ever since Build began
  ever      \* history: what they held at some time since

builderVars == <<build, got, served, steady, ever>>
vars == <<adminVars, builderVars>>

Queries == <<"orgs", "keys", "sources", "guardrails", "wires", "transformers", "chains",
             "webhooks">>

\* What a config says: organizations, rows, attachments, and each source's
\* chain in order.
Content == [orgs : SUBSET Org, rows : SUBSET (Item \X Row),
            wires : SUBSET (Source \X Guardrail), chains : SUBSET (Source \X ChainLists)]
Nothing == [orgs |-> {}, rows |-> {}, wires |-> {}, chains |-> {}]

\* One query's rows.
Answer(query) ==
  CASE query = "orgs"         -> [Nothing EXCEPT !.orgs = q!ListAllOrganizationIDs]
    [] query = "keys"         -> [Nothing EXCEPT !.rows = q!ListAllActiveAPIKeys]
    [] query = "sources"      -> [Nothing EXCEPT !.rows = q!ListAllSources]
    [] query = "guardrails"   -> [Nothing EXCEPT !.rows = q!ListAllEnabledGuardrails]
    [] query = "wires"        -> [Nothing EXCEPT !.wires = q!ListAllSourceGuardrails]
    [] query = "transformers" -> [Nothing EXCEPT !.rows = q!ListAllEnabledTransformers]
    [] query = "chains"       -> [Nothing EXCEPT !.chains = q!ListAllSourceTransformers]
    [] query = "webhooks"     -> [Nothing EXCEPT !.rows = q!ListAllEnabledAlertWebhooks]

Both(x, y) == [orgs |-> x.orgs \cup y.orgs, rows |-> x.rows \cup y.rows,
               wires |-> x.wires \cup y.wires, chains |-> x.chains \cup y.chains]
Common(x, y) == [orgs |-> x.orgs \cap y.orgs, rows |-> x.rows \cap y.rows,
                 wires |-> x.wires \cap y.wires, chains |-> x.chains \cap y.chains]
Within(x, y) == /\ x.orgs \subseteq y.orgs /\ x.rows \subseteq y.rows
                /\ x.wires \subseteq y.wires /\ x.chains \subseteq y.chains

\* What the tables hold now, as one consistent read would find it.
Now ==
  [orgs |-> q!ListAllOrganizationIDs,
   rows |-> q!ListAllSources \cup q!ListAllEnabledGuardrails \cup q!ListAllEnabledTransformers
            \cup q!ListAllEnabledAlertWebhooks \cup q!ListAllActiveAPIKeys,
   wires |-> q!ListAllSourceGuardrails, chains |-> q!ListAllSourceTransformers]

\* The sources a config has.
Listed(read) == {s \in Source : \E r \in Row : <<s, r>> \in read.rows}

\* Faulty: a source that is disabled loses its attachments.
AssembleEnabled(read) ==
  LET listed == {s \in Source : \E r \in Row : r.enabled /\ <<s, r>> \in read.rows} IN
  [read EXCEPT !.wires = {w \in @ : w[1] \in listed},
               !.chains = {<<s, IF s \in listed THEN (CHOOSE x \in @ : x[1] = s)[2] ELSE <<>>>>
                             : s \in Source}]

\* Rows go into the config with their organization, attachments with the
\* source they belong to.
Assemble(read) ==
  [read EXCEPT !.rows = IF Home \in read.orgs THEN @ ELSE {},
               !.wires = {w \in @ : w[1] \in Listed(read)},
               !.chains = {<<s, IF s \in Listed(read) THEN (CHOOSE x \in @ : x[1] = s)[2] ELSE <<>>>>
                             : s \in Source}]

BuilderInit ==
  /\ Init
  /\ build = 0 /\ got = Nothing /\ served = Assemble(Now)
  /\ steady = Nothing /\ ever = Nothing

StartBuild ==
  /\ build = 0
  /\ build' = 1 /\ got' = Nothing /\ steady' = Now /\ ever' = Now
  /\ UNCHANGED <<served, adminVars>>

Query ==
  /\ build \in 1..Len(Queries) - 1
  /\ build' = build + 1
  /\ got' = Both(got, Answer(Queries[build]))
  /\ UNCHANGED <<served, steady, ever, adminVars>>

Idle == build' = 0 /\ got' = Nothing /\ steady' = Nothing /\ ever' = Nothing

\* Faulty: a config is built once.
RespondOnce ==
  /\ build = Len(Queries)
  /\ served' = IF served = Nothing THEN Assemble(Both(got, Answer(Queries[build]))) ELSE served
  /\ Idle
  /\ UNCHANGED adminVars

\* The last query, and the response.
Respond ==
  /\ build = Len(Queries)
  /\ served' = Assemble(Both(got, Answer(Queries[build])))
  /\ Idle
  /\ UNCHANGED adminVars

\* A query fails, or a key cannot be decrypted: no config.
BuildFails ==
  /\ build # 0 /\ faults < MaxFaults
  /\ faults' = faults + 1
  /\ Idle
  /\ UNCHANGED <<served, tables, orgs, users, tokens, call, edits>>

\* The tables move while Build runs.
Observe ==
  /\ steady' = IF build = 0 THEN steady ELSE Common(steady, Now')
  /\ ever' = IF build = 0 THEN ever ELSE Both(ever, Now')
  /\ UNCHANGED <<build, got, served>>
Admin == AdminNext /\ Observe

Builder == StartBuild \/ Query \/ Respond
Next == Builder \/ BuildFails \/ Admin

\* Data planes keep polling and queries answer; calls make progress.
Spec == /\ BuilderInit /\ [][Next]_vars
        /\ WF_vars(Builder) /\ \A c \in Call : WF_vars(Step(c) /\ Observe)

-----------------------------------------------------------------------------
(* Properties. *)

\* Types of all variables.
TypeOK ==
  /\ AdminTypeOK
  /\ build \in 0..Len(Queries)
  /\ got \in Content /\ served \in Content /\ steady \in Content /\ ever \in Content

\* The queries see different moments (builder.go:34), but the config holds
\* everything that stayed in the tables throughout: a guardrail that is enabled
\* and attached all along is in force, and nothing that was never there during
\* the build: a key revoked, a guardrail disabled or a chain replaced before it
\* began does not come back.
BuildIsRegular ==
  [][Respond => Within(steady, served') /\ Within(served', ever)]_vars

\* Once the edits end, data planes get what the tables hold.
Delivered == <>[](served = Assemble(Now))

\* The inductive invariant behind BuildIsRegular, of what was read before query n.  Of
\* the tables read, it holds all that stayed in them since the build began; and as no
\* attachment outlives its source, the sources query found every source with an
\* attachment that stayed.
Gathered(read, n) ==
  /\ n > 1 => steady.orgs \subseteq read.orgs
  /\ n > 2 => \A x \in steady.rows : x[1] \in Key => x \in read.rows
  /\ n > 3 => \A x \in steady.rows : x[1] \in Source => x \in read.rows
  /\ n > 4 => \A x \in steady.rows : x[1] \in Guardrail => x \in read.rows
  /\ n > 5 => steady.wires \subseteq read.wires
  /\ n > 6 => \A x \in steady.rows : x[1] \in Transformer => x \in read.rows
  /\ n > 7 => steady.chains \subseteq read.chains
  /\ n > 8 => \A x \in steady.rows : x[1] \in Webhook => x \in read.rows
Attached(read, n) ==
  n > 3 => /\ \A w \in steady.wires : w[1] \in Listed(read)
           /\ \A x \in steady.chains : x[2] # <<>> => x[1] \in Listed(read)
           /\ \A s \in Source \ Listed(read) : <<s, <<>>>> \in ever.chains
ChainsRead(read, n) ==
  /\ n <= 7 => read.chains = {}
  /\ n > 7 => \A s \in Source : \E x \in read.chains :
                x = <<s, x[2]>> /\ \A y \in read.chains : y[1] = s => y = x
BuildSound ==
  /\ AdminInv
  /\ build \in 0..Len(Queries)
  /\ build # 0 => /\ Within(got, ever) /\ Within(steady, Now) /\ Within(Now, ever)
                  /\ Home \in steady.orgs
                  /\ Gathered(got, build) /\ Attached(got, build) /\ ChainsRead(got, build)
=============================================================================
