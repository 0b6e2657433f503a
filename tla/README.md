# Sheeld in TLA+

Sheeld is an LLM gateway: a *data plane* proxies chat requests through
transformers and guards to an LLM provider, and a *control plane* holds the
organizations' configuration and publishes it. This directory holds TLA+ models
of the parts of Sheeld whose behaviour is concurrent, distributed or subtle, the
TLC configurations that check them, and TLAPS proofs about them. Paths below are
relative to the repository.

## 1. The system

### Components, their state and operations

| Component | Code | State | Operations |
|---|---|---|---|
| Guard engine | `internal/shared/guard/engine.go`, `guard.go` | none between requests; per call one result slot per guard | `Engine.Run`: one goroutine per guard, wait, count, decide |
| Guards | `internal/shared/guard/*.go` | none | `Validate`: text predicates and calls to external services |
| Transformers | `internal/shared/transform` | per request: placeholder map and counters | `ApplyAll` over a chain; redact, anonymize, restore, rewrite |
| Message formats | `internal/shared/llm/types.go` | per message: text, raw content | decode, extract text, encode |
| Config store | `internal/dataplane/backendconfig/store.go` | one atomically swapped snapshot | `Apply`, `LookupAPIKey`, `LookupSource`, `AlertWebhooks` |
| Config poller | `poller.go`, `snapshot.go` | `lastETag`, the file on disk | `FetchOnce`, `WaitForInitial`, `Run`, `Save`, `Load` |
| Config endpoint | `internal/controlplane/workspaceconfig` | none (reads eight tables) | `Handler.Get`, `Builder.Build` |
| Gateway | `internal/dataplane/gateway` | per-key token buckets | authenticate, limit, decode, answer, stream |
| Processor | `internal/dataplane/processor` | none between requests | `Execute`: the request pipeline |
| LLM client | `internal/shared/llm` | none | attempts with backoff |
| Audit writer | `internal/dataplane/auditstore/writer.go` | buffered channel, batch | `Record`, `run`, `flush`, `Close` |
| Audit store | `auditstore/handler.go`, `analytics.go`, `pruner.go` | `audit_logs` table | list by cursor, aggregate, prune |
| Alert notifier | `internal/dataplane/alert` | per-webhook token buckets | `Notify`, `deliver` |
| Process | `cmd/sheeld-server/main.go` | — | start order, signal, shutdown with deadlines |
| Control-plane services | `internal/controlplane/service`, `api` | PostgreSQL | CRUD of sources, guards, transformer chains, keys, webhooks; registration |
| Helpers | `internal/shared/{crypto,urlpolicy,metrics,response,modelcatalog}` | counters | pure functions |
| Dashboard, charts, mock | `web`, `helm`, `cmd/mock-llm` | — | — |

### How they interact

* The data plane *polls* the control plane (conditional GET); the answer is
  resolved (guards and transformers are built) and swapped into the store by one
  atomic pointer store. The applied config is then written to disk, and startup
  falls back to that file when the control plane cannot be reached.
* Each HTTP request reads the store *twice* (authentication, then source lookup),
  and a third time for alert webhooks if it is rejected. It keeps the resolved
  source it found; nothing else is shared with the poller.
* Inside a request the guard engine starts goroutines that write disjoint slots.
* Every decided request enqueues one entry on the audit writer's channel; a single
  goroutine batches and inserts. Shutdown closes this channel while handlers may
  still run.
* Edits through the control plane's API become visible only through the next poll.

### Hard behaviours

`PROJECT.json` lists the hazards, each at its line: guard goroutines finishing in
any order and failing independently; shadow guards that must not count; a config
that fails to apply, or is undone, or arrives after a crash; the startup deadline
racing a control plane that comes back; config swaps in the middle of a request;
the audit channel full or closed; a batch that fails half-way and is retried;
errors after the provider was already paid; retries and three kinds of timeout around
a provider call; a bucket that is edited, evicted and asked at once; pages of a table
that grows and shrinks; texts cut at offsets and put together again; dashboard calls of
several statements that interleave on the same rows; a config read table by table while
they do.

## 2. Modules

| Module | Models | Kind |
|---|---|---|
| `PassCriteria` | what a guard phase must decide: `Accepts`, the criteria, the wrappers | operators |
| `GuardVerdict` | the decision as one atomic step | abstract specification |
| `GuardEngine` | `Engine.Run` goroutine by goroutine | component, refines `GuardVerdict` |
| `ConfigFeed` | served revisions never go back while the process runs | abstract specification |
| `ConfigSync` | poller, store, disk, config endpoint, process crashes, outages | component, refines `ConfigFeed` |
| `AuditWriter` | handlers, channel, writer goroutine, database errors, shutdown | component |
| `AuditStore` | the `audit_logs` table between writer, pruner, paging client and analytics | component |
| `ProxyPipeline` | requests through `Execute` while configs are swapped; uses `PassCriteria` | composition |
| `RateLimiter` | token buckets per key and per alert webhook | component |
| `LLMClient` | one provider call: attempts, backoff, timeouts, cancellation | component |
| `GatewayLoad` | requests through `RateLimiter` and `LLMClient` in time | composition |
| `ChatStream` | a response sent whole or replayed in chunks | component |
| `TextPath` | a request's texts: decoded, anonymized, answered, restored, sent by `ChatStream` | composition |
| `AdminQueries` | the control plane's tables and the generated queries, one operator each | operators and statements |
| `AdminTables` | concurrent dashboard calls and registrations over `AdminQueries`, SQL statement by statement | component |
| `ConfigBuilder` | `Builder.Build` query by query over `AdminTables` | composition |
| `MC*` | constants and bounds for TLC | model checking |
| `*Proofs` | theorems and their proofs | TLAPS |

`PassCriteria` is the interface of the guard engine: `GuardEngine` proves that the
goroutines implement it, and `ProxyPipeline` uses it as the one-step decision of a
phase.

Definitions named as *faulty variants* (`LimiterAnew`, `ApplyFailsAfterETag`, …)
are not part of any specification. Each is a plausible slip in the code next to
which it stands; putting it in the place of the real definition breaks the
property `PROJECT.json` pairs it with, which shows that the property depends on
that code.

### GuardEngine

State: the phase configuration `cfg` (attached guards, which are wrapped fail-open
and shadow, criteria and threshold), `phase` (the call's progress), `answered`
(what each `Validate` returned), `results` (the slots of the results slice),
`passed`. Actions: `Start` (the early return for no guards, or the spawned
goroutines), `Validate(g)`, `WriteResult(g)`, `Decide` (after `wg.Wait`). A guard's
answer is any of pass, fail or error. The wrapper that turns an error into a pass
(`WithFailOpen`) or a fail, and the mark a shadow result carries, are in
`BuildResult`. An empty guard list, criteria `any` and `n_of_m` with shadow guards
only, and thresholds up to and beyond the number of enforcing guards are covered.

### ConfigSync

State: `history`, the configs the control plane published; `store`, `disk` and
`seen` are positions in it; `etag` is a *content*, because the version is a hash of
the content: undoing an edit brings an old ETag back. `poll` is the poller's place
inside `FetchOnce`, so edits, crashes and outages happen between its steps. The
order `Store.Apply` → `lastETag` → `Save` is kept as two actions, `Apply` and
`Save`. A content outside `Buildable` makes `Apply` fail; with `FlakyBuild`, so may
any other (building a guard resolves its URL's host). Responses are lost or
refused through `FetchFails`. Poll intervals and deadlines are "eventually".

### AuditWriter

State: per entry its handler's outcome, main's shutdown phase, the channel and its
closed flag, the writer goroutine's place, batch, position and attempt, and the
table's rows in insertion order. An insert that errors may have committed. `Tick` is
the flush ticker. `ReturnEarly` is `srv.Shutdown` giving up, or the listener
failing, while handlers run; `ExitEarly` is `Close` giving up on the goroutine.

### ProxyPipeline

State: `applied`, the configs the store served, oldest first; `rq[r]`, the request's
local variables in `Execute` and the config versions its two reads of the store saw;
`audit` and `alerts`, what reached the sinks. Guards, transformers and the LLM
answer arbitrarily. Response choices are a sequence of texts, transformers may
return any number of messages. Shadow and fail-open are part of the phase's
configuration. A `done` request is answered.

What goes to the provider and what the input guards judge are two things. `msgs` is the
whole messages array, each message with its role (`user`, or another) and its text, and
`CallLLM` sends all of it. `Judged` is what each guard is given of it: `InputText`, the
last user message, or with `scope: all_messages` (`wide`) every text (`Serialized`, without
the roles `SerializeMessages` writes before them). `GuardedCall` says that what the guards
accepted is their part of the very array that is sent, after every fail-closed transformer.
It does *not* say that every message was judged: system, assistant, tool and earlier user
messages pass a guard of the default scope unseen, as the code means them to
(`types.go:271`), and so do image parts and tool calls under either scope. The audit entry
carries the last user message as well. `AuditFaithful` promises an entry for a decided
request; one that fails after the provider was called has none (see Findings).

### AuditStore

State: `now`, the committed `rows` and the inserts in flight (`pending`: `created_at` is
the time an insert began, so rows become visible in another order than their times),
`pruner` (its place in `Run` and the sweep's cutoff), `reader` (one client: its filter
and the pages so far, or its report so far), and two history variables, the rows a
reader could have seen all along (`base`) and at any time (`ever`). `FirstPage` and
`NextPage` are `Handler.List` as the dashboard calls it, with the last row shown as the
cursor; `Summary`, `Daily`, `Models`, `Sources` are the four queries of
`Handler.Analytics` with one `since`. `PruneOnce` is one batch of `pruneOnce`. Every
query names one organization, so one is modelled; one reader suffices, as reads do not
disturb each other.

### RateLimiter, LLMClient, GatewayLoad

Time is discrete: a tick passes only when every goroutine that could run has run, and
every token bucket is refilled then (the library refills when a bucket is used, to the
same effect). `RateLimiter`: `GetLimiter` creates a key's bucket or sets its limits in
place; `Allow`; `EvictIdle`; `EditLimits`, a new config. Tokens are counted in units of
1/`Cost` of a request. The history `recent[k][n]` says of the last `n` ticks how many
requests a key was admitted, which limits its bucket had in them (a request may set the
limits it read before an edit, so an edited key can have both for a while), and how many
evictions fell in them with the idle time before. `AdmissionsBounded` measures a key by
those limits, its own, and not by the largest that anyone has. A bucket is evicted by the
time it was last used and not by its tokens (`ratelimit.go:86`), so a key whose burst is
above 600 times its rate has a full burst again after ten idle minutes that would not have
refilled it; each such eviction counts as the `Gain` of what they leave unfilled, and it is 0
for limits that fill in time. The one assumption about limits is that a burst admits a
request (`BurstAssumption`). `LLMClient`: `call[c]` is the state of `ChatCompletionAt`: waiting
for headers, reading the body, or backing off, with the attempt, the timer of
`http.Client.Timeout`, the backoff and what is left of the request's context. A provider
may answer, answer late, break the connection in the body, or never answer; the client
may go away (`Cancel`). `GatewayLoad` puts the request around them: `Arrive` reads the
key's limits (`APIKeyAuth`), `Limiter` and `Throttle` use them after other requests may have
set others, then the call, then `Answer`, perhaps with an alert. No tick falls between
`getLimiter` and `Allow`: evicting a bucket in between would need the idle time of ten minutes.

### ChatStream, TextPath

A text is a sequence of bytes, each of which knows the word or placeholder it is part of:
offsets are bytes, as in Go, and a placeholder can be recognized wherever it ends up.
`ChatStream`: `splitContent` piece by piece (`BackedUp`, `Cut`, `Piece`) and the events of
`writeSSEResponse`, next to `WriteJSON`. `TextPath`: `Decoded` and `Marshalled` are
`Message.UnmarshalJSON` and `MarshalJSON` (a content is a string or parts whose raw form is
sent again when the text was not touched), `Analyze` takes any set of spans of whole words,
`Replace` is one iteration of `anonymizeReversibly`, `Allocated` is `AllocatePlaceholder`,
`Deanonymize` one pass of the replacer over every choice. The provider echoes a message or
combines words and the placeholders it was sent. A failing analyzer skips its transformer
or fails the request, after some messages were already given placeholders.

Each text has a trace (a history, `traced`): the place in the client's message every byte
of it comes from, 0 for one of a placeholder; the places of all detections so far (`found`);
and those of detections *apart*, which none that is replaced before them overlaps. A skipped
transformer takes its traces back (`before`).

Spans are offsets in the original text, and replacing back to front keeps those of earlier
spans valid only if no two overlap. When two do (an e-mail address and the domain in it) the
one that starts later is replaced first. If its placeholder is shorter, the other's end may
lie outside the text by then: it is skipped, and what it found before the inner one is sent
as it was. If it is longer, the tail of what was found moves out of the outer span and is
sent. In between, the outer placeholder swallows part of the inner one and one pass of the
replacer does not bring the original back. `NothingFoundIsSent` says, whatever overlaps,
that the provider reads placeholders and the client's own bytes, none of them of a
detection apart; `FoundIsNotSent` says it of all detections, and `text_overlap` shows it
violated. `RoundTrip` has no condition but for a message that is echoed, which the client
gets back as it wrote it only if no detections of the request overlapped. The analyzer is
assumed not to take placeholders of an earlier transformer for entities.

### AdminQueries, AdminTables

`AdminQueries` has the tables: `row` (every item's row: unused, live or deleted, its
`enabled` and its secret), `wired` (`source_guardrails`), `chain` (`source_transformers`
with their positions), `orgs` and `users`; and the generated queries by their names, a
writing one as the action of its commit with its cascades and foreign keys, a reading one
as the rows it returns.

`AdminTables` adds `call` (each running dashboard call: where it is, what it was asked,
what it has read) and `tokens` (the claims of tokens issued). A call that is one statement
is one action; the others are one action per statement: `Register` → `CreateUser`;
`Update*` → `ReadStored` or `ReadFails` → `WriteRow`; `StartAttach` →
`AttachGuardrail`, or `ReadPosition` → `AttachTransformer` (the `SELECT MAX` and the
insert of one statement are separate, as nothing locks the chain between them);
`SetSourceTransformers` → `CheckSource` → `TxDelete` → `TxDeleted` → `TxInsert`* →
`TxCommit`. The requests a call may be made with are named after the route (`PostSource`,
`PutAlert`, …). The transaction's effects are local to the call (`sees`, `del`, `ins`) until
it commits. PostgreSQL is modelled from how the code uses it, under its default READ
COMMITTED: row locks (`Holds`), a waiting DELETE that skips rows removed meanwhile
(`Unsee`), foreign keys with cascades, a deadlock victim, `ON CONFLICT DO NOTHING`. One
wait is shortened: `DeleteTransformer` begins when no transaction holds a chain row of the
transformer, whereas PostgreSQL locks the transformer first and waits in the cascade, so it
may deadlock with that transaction's INSERT (`transformer.go:202`) and one of the two fails;
both then end as a call that failed or one that ran alone, which the model has. A
secret is a value; `Redacted` is the marker responses show. A source's update omits
the key; the others send the marker back. Two concurrent replacements of one chain may
both survive in part (see the notes under Findings); `ReplacedWhole` says what is left:
each that commits has all its ids, in their order, and one that fails changes nothing.

### ConfigBuilder

State: `build`, the query `Build` is at; `got`, the rows so far; `served`, the last
config delivered; and two history variables, what the tables held all the time since
the build began (`steady`) and at any time (`ever`). Each query is an action between
which any step of `AdminTables` may happen. `BuildIsRegular` is what a series of
unsynchronized reads can promise. It does not promise a moment: a guardrail created and attached during the build may be
served as an attachment without its guardrail, which is read earlier.

## 3. Runs

| Run | Question | Bounds | Result |
|---|---|---|---|
| `guard_engine` | Is the concurrent decision the specified one, in every interleaving and for every mix of wrappers, criteria and outages? Does `Run` return? | 3 guards, threshold to 4 | holds |
| `config_sync` | Is a 304 ever stale, the snapshot ever useless, a config ever rolled back, an edit never delivered? | 4 revisions of 3 contents, 3 faults | holds |
| `audit_writer` | Is an accepted entry lost, reordered or multiplied; does every entry settle? | 3 requests, channel 1, batch 2 | holds |
| `audit_panic` | Can audit logging fail a request? | 3 requests | violated |
| `audit_store` | Do pages skip or repeat rows, do a report's figures fit no moment, does a sweep spare expired rows or take others? | 3 rows, 3 moments, pages of 1 and 2, 1 fault | holds |
| `proxy` | What do guards, provider, client, audit and webhooks get while configs change under a request? | 2 organizations, 3 config swaps, 5 messages arrays, 2 choices | holds |
| `gateway_load` | Are more requests admitted than the key's limits allow, does a call outlive its context, is an answer asked for again, is every request answered? | 2 requests, 3 ticks of history, 1 edit, 1 retry | holds |
| `text_path` | Is anything sent that was found apart, does what comes back differ from what was meant, do chunks add up? | 2 messages, chain of 2, 2 spans, 2 choices, chunks of 3 bytes | holds |
| `text_overlap` | Is anything sent that was found? | as `text_path` | violated |
| `admin_tables` | Do concurrent edits leave dangling attachments, false tokens, revive rows, leave half a chain, or wait forever? | 2 calls, 2 edits, 1 fault, 2 transformers | holds |
| `secret_lost` | Does an update that omits a secret keep the stored one? | as `admin_tables`, with 2 organizations | violated |
| `config_builder` | Is what a torn read serves bounded by what the tables held, and is the last edit delivered? | 1 stepwise call, 2 edits, 1 fault | holds |

Why the bounds are enough:

* Guards interact only through the counts; three guards give every split of
  passing, failing, fail-open and shadow, and a threshold of 4 exceeds any count.
* Four revisions of three contents allow an edit that is undone (A, B, A), one that
  cannot be built, and another after it. Three faults allow an outage, a failed
  write and a crash in one behaviour.
* A channel of 1 and a batch of 2 with 3 entries: the channel fills while a batch
  is inserted, an entry is dropped, a batch fails between its two inserts, and a
  partial batch waits for the ticker or for `Close`.
* Requests do not interact with one another in `ProxyPipeline` (their states are
  disjoint), so one request suffices against three swaps: one before
  authentication, one between it and lookup, one before the alert. The messages arrays
  have the last user message alone, after, before and between others, and none at all, and
  the guard of one config has the other scope.
* `AdminTables`: every property is about two calls that meet on one row or one chain, so
  two edits (both stepwise, or one of them a single statement) and one failing
  statement give each pairing in every order; two transformers are what a deadlock of
  two replacements needs. Runs start from a new organization and from one in use,
  with every attachment already made or not.
* `AuditStore`: three rows at three moments give two of one moment and one apart, a row
  committed late before and after the cursor, and a batch of one leaves a sweep
  unfinished; a window, a retention and a page of one or two let each of them cut
  between any two rows.
* `GatewayLoad`: two requests of one key meet at its bucket with different limits; one
  edit is what makes them differ. A request costs two units; the key's own limits are the
  default burst of two requests at half the default rate, which two idle ticks refill by
  half only, so that its eviction is an early one and that of a key with the defaults is
  not. Three ticks see a bucket empty, refill, idle and be evicted. The context (2 ticks) ends before, in and after the one backoff; that attempts
  are bounded for any number of retries is a theorem, not this run's.
* `TextPath`: three prompts: two names in a row; a name after two-byte runes and a space,
  and again in a second message; parts around an image before an empty message. Words of
  one to three bytes and placeholders of two, cut into chunks of three bytes, give every
  kind of cut; two transformers and two messages share the map of placeholders; two spans
  are in order, adjacent, nested or overlapping, with a placeholder that is longer or shorter
  than what it stands for.
* `ConfigBuilder`: two edits inside one build: one seen and one missed, in either
  order. The calls are one at a time but each of its statements falls between any two
  queries; one kind of secret suffices, as the config copies it.

Fairness. `GuardEngine`: every check answers or errors (each HTTP guard has a client
timeout and the request a deadline) and goroutines are scheduled. `ConfigSync`: the
poller's timers fire, every request is answered or fails (client timeout), a
supervisor restarts the process; that the control plane comes back is *not*
assumed, `Converges` has it as its hypothesis and `ResumesFromSnapshot` does
without it. The startup deadline passing (`Fallback`) is strongly fair: a
`WaitForInitial` that keeps failing must reach its deadline although failed fetches
come and go. `AuditWriter`: the writer goroutine runs and each insert returns
within `flush`'s timeout; main's deadlines are not assumed to pass, so
`EventuallySettled` also holds while shutdown waits. `ProxyPipeline`: each handler
proceeds, as every call in it is bounded by the request timeout; nothing is assumed
of the poller. `AdminTables`: each accepted call's next statement runs unless it waits for
a row (statements have a server and a client behind them that time out), and
PostgreSQL ends a deadlock; new calls are never assumed. `ConfigBuilder`: data planes
keep polling (`Poller.Run`'s ticker) and queries answer. `AuditStore`: the pruner's
goroutine runs, its ticker fires and a stopped process is started again.
`GatewayLoad`: goroutines that something woke run, and time passes: `SF_vars(Tick)`, strong
because edits, sweeps and other requests may come between any two ticks without holding
time up. That a provider ever answers is not assumed: `EventuallyAnswered` rests on the
timers alone.

`CHECK_DEADLOCK FALSE` is set where the modelled system really ends: a call that
returned, a process that exited, requests that were all answered. `ConfigSync` runs
forever and is checked for deadlock.

### Findings

The violation runs show where the code departs from what its documentation says;
`PROJECT.json` quotes each statement.

1. `audit_panic`: when `srv.Shutdown` gives up or the listener fails (TLC's trace), the
   deferred `Close` closes the channel under handlers still running, whose `Record` then
   panics.
2. `text_overlap`: of two detections that overlap, the longer is skipped once the text has
   become shorter than its end (`presidio.go:174`), and what it found is sent, although
   "PII round-trips without ever reaching the LLM provider" (`README.md:41`).
3. `secret_lost`: an update of a guardrail or transformer goes on when reading the stored
   config fails and stores the marker; and any update with an omitted secret may put
   back a value that another call replaced between its read and its write.

Seen while modelling, without a run of their own:

* `poller.go:87` advances `lastETag` before the snapshot is saved; a failed save is only
  logged, the following polls get 304, and the disk keeps the older config until the
  next edit (`README.md:413` speaks of the last applied config).
* `Store.Apply` refuses the whole workspace when one guard of one organization cannot be
  built, so another organization's revoked key keeps working until then
  (`README.md:412`). `Converges` has a buildable config as its hypothesis.
* Output guards see the first choice, the client gets all (`types.go:302`). Input guards
  of the default scope see the last user message, the provider gets all (`types.go:271`).
* A streamed response has role, content and finish reason of a choice and not its
  `tool_calls` (`stream.go:70`, against `README.md:337`).
* A key whose own burst is above 600 times its rate gets it back after ten idle minutes
  (`ratelimit.go:86`).
* The chain transaction's DELETE locks only rows it finds: an attach or another
  replacement that commits before it leaves a row at one of its positions
  (`transformer.go:199`).
* A failing output transformer (or one that changes the number of messages) ends a request,
  whose tokens were used, without an audit entry (`processor.go:232`), although "each
  proxied request records the LLM's reported" tokens (`CHANGELOG.md:47`). `AuditFaithful`
  does not hold the code to that: it is about decided requests.
* Detections that overlap are not always restored (see TextPath).

## 4. Proofs

TLAPS proves, for all values of the constants that meet the modules' named
assumptions:

* `GuardEngineProofs` — assumptions: `Guard` is finite, the configurations are
  well-formed phases. Inductive invariant `DecisionInv`: every written slot is what
  `BuildResult` makes of the recorded answer, the slots are all written once the
  call returned, and the returned decision is `Accepts(cfg, answered)`. Written
  counts equal the cardinalities in `Accepts` because the results are in
  one-to-one correspondence with the enforcing guards. From it follow soundness,
  shadow neutrality and the two failure-mode properties through one lemma,
  `AcceptsMonotone`: turning answers of enforcing guards into passes never turns
  acceptance into rejection. The refinement of `GuardVerdict` maps each step to its
  step or a stutter; the abstract `Settle` is the engine's `Decide`.
* `ConfigSyncProofs` — inductive invariant `SyncInv`: `lastETag`, when set, names the
  content of the store; a 200 or 304 on its way carries a revision no older than the
  store's; a 304 on its way names the store's content; the store is empty before
  startup completes. The first is what makes a 304 fresh; it is inductive only
  together with the others. The refinement of `ConfigFeed` needs the monotonicity
  part.
* `AuditWriterProofs` — inductive invariant `WriterInv`: everything in channel, batch,
  table and history comes from a recorded entry; while inserting, the batch's
  entries before the current position have a row; the last flush happens only on a
  closed, empty channel. From it: `Conserved`, `OnlyRecorded`, `CloseDrains`. `AtMostTwice`
  and `AcceptOrder` rest on a second invariant, `OrderInv`: the accepted entries are the
  settled ones, then the batch, then the channel (`Laid`); no entry has a row before its
  turn, and of a batch those with a row come first (`InTurn`); an entry has no more rows
  than its batch has had attempts (`Counted`). How often an entry was inserted is the size
  of a set of row numbers, which an insert extends by one: no induction over the sequence.
* `ControlPlaneProofs`, for `AdminTables` and `ConfigBuilder` — assumptions: the kinds of
  items are disjoint (`KindsAssumption`), there is a source and a secret and finitely many
  transformers (`IdsAssumption`), an organization and an owner to begin with
  (`HomeAssumption`), bounds are numbers (`EditBoundAssumption`). Inductive invariant
  `AdminInv`: the types, `Referential`, `TokensMatchAccounts`; what an uncommitted chain
  transaction inserted are live transformers of a live source (row locks keep them so;
  without it a commit could leave a dangling chain); the values a stepwise update of a
  source carries are given secrets; and the organization of a registration between its two
  statements has no account and no second registration. Many actions do the same to
  the tables under different guards, so they are first reduced to the fourteen *effects* of
  which `Effect` is the disjunction, and the invariant is carried over each.
  `DeletedStaysDeleted` and `ReplacedWhole` are read off the effects. `BuildIsRegular`
  rests on `BuildSound`: of each table read so far, `got` holds what stayed in it since the
  build began, and everything in `got` was in it at some time. Attachments need more: the
  source of an attachment that stayed has stayed itself, by `Referential`, hence `Assemble`
  does not drop it. That is where the two components meet, and why the proof of the
  builder carries `AdminInv` along.
* `AuditStoreProofs` — assumptions: ids are numbers and finitely many (`IdAssumption`), page
  and batch sizes are positive (`SizesAssumption`), an entry's tokens are a number and no
  price is listed for a missing model (`EntryAssumption`); entries and filters are otherwise
  arbitrary.
  Inductive invariant `StoreInv`: `TypeOK`, `PagesComplete`, the rows a reader began with
  and that were not deleted are still there, pages are rows and a client that goes on has
  seen one, and a sweep's cutoff lies at least the retention back. The page is characterized
  once, in `PageOf`: the number of newer rows is an injection of the selected rows into as
  many numbers, hence onto (`Ranks`), so each place of a page is taken by exactly one row.
  `PagesJoin` puts a page behind those already shown. `OnlyExpiredPruned` needs only the
  bound on the cutoff, because time never makes an expired row young. `AnalyticsBracketed`
  (`ReportsBracketed`) rests on a second invariant, `AnswersSound`: each answer is its query's,
  of the rows of one of the report's `Moments`, sets between the rows that stayed and those
  ever seen. What is left is about sums of finitely many numbers: a sum without one summand
  (`SumWithout`), no smaller over a larger set (`SumLess`), the same when summed class by class
  (`SumParts`, which is why the daily, per-model and per-source figures of one set of rows
  equal its totals). Each is proved by a smallest counterexample (`LeastFailure`); `FoldExists`
  shows that way that the recursive function behind `SumFunction` is one.
* `GatewayLoadProofs` — assumptions: those of the two modules. `RetriesBounded` rests on an
  invariant that bounds the attempts made by the attempt a call is at, and says that while
  a call goes on no answer has arrived. `ContextHonoured` rests on one that ties a timer to
  the place it is used at, and on time passing only when nobody is woken: a call whose
  context has ended is always woken. Neither depends on the limiter, whose steps leave the
  calls alone. `AdmissionsHold` proves `AdmissionsBounded`, of the limits from
  `BurstAssumption` only, with the invariant `LoadInv`. Its part `Sound` relates a bucket to
  each of its windows (`WindowSound`): what was admitted in `n` ticks and the tokens left
  together stay within what the window's limits and evictions entitle to (a step of `Allow`
  moves from one to the other, a tick shifts the history and adds one refill to each side,
  other limits raise the bound at least to what they let in); for a bucket that idles the
  bound shrinks by one refill a tick, so that the full bucket that takes its place when it is
  evicted exceeds it by the `Gain` at most; a window of `n` ticks holds at most as many
  evictions as whole idle times; and a quiet stretch has left its refills in the bucket, or
  the price of a request. The rest says that the bucket a request waits for is there and in
  use, hence not evicted. `MaxOf` proves, by well-founded minima of cardinalities, that the
  largest rate and burst of a window exist.
* `TextPathProofs` — assumptions: words and entity types differ and have lengths
  (`WordAssumption`), a prompt has a message and is decoded from strings or parts
  (`PromptAssumption`). Inductive invariant `TextInv`: the trace of every text, of the request's
  messages and of the transformer's copy, tracks it (`Tracks`); the raw form of a message is
  what its text was read from, so sending it again says the same (`MessagesOK`); a type's
  placeholders are numbered as its counter counts (`MappingsOK`). `Tracks` has two parts:
  every byte is a placeholder's or the client's own from the place the trace names, and none
  of those occurs twice (`Follows`); and a byte detected apart that is still there lies in a
  detection to come, itself apart, which ends inside the text (`Awaits`). Without the last
  part the detection could be skipped, without the uniqueness a copy of the byte could stay.
  An analysis makes it so (`DetectedTracks`). When the foremost detection is replaced the
  bytes before it stay and those behind it move (`SplicedMoves`); a detection apart that is
  still to come ends before it (`ApartEnds`), so its bytes have not moved
  (`ReplacedTracks`); one that is passed over was not apart (`PassedTracks`). `FlatJoined`
  shows by a minimal counterexample that the recursive function behind `FlattenSeq` exists;
  the same argument, from the end of a text (`Backwards`), shows that the one behind
  `Restored` does (`RestoredText`).
  `RoundTrips` adds the invariant `RestoreInv`: as long as detections did not overlap, every
  text of the request, restored, is what the client asked, and its placeholders are whole
  (`Says`); the detections to come lie in the client's own bytes (`Ordinary`); what an answer
  means is what its restoration gives. That placeholders are whole (`Unbroken`) is what
  makes restoring a text and then another the same as restoring both (`RestoredConcat`),
  hence a replacement invisible (`RestoredReplaced`) and an answer restored word by word
  (`FlatRestored`); a mapping that is added changes nothing said before
  (`RestoredExtended`). It needs the bounds of an answer to be numbers
  (`BoundAssumption`). The same module proves `ReplayAddsUp` of
  `ChatStream`'s own specification — assumptions: any chunk size, any response whose contents
  are `Valid` (UTF-8: the first byte begins a rune, a space is no part of one, a rune is
  shorter than a chunk). The invariant is `StreamAddsUp` with: the rest is a suffix of the
  content, `Valid` again. A cut is never empty because a window contains the start of a rune
  after its first byte, and never inside a rune because a cut follows a space or precedes a
  start.
* `ProxyPipelineProofs` — assumptions: a key, source, guard or transformer has one
  owner (`OwnerAssumption`), the empty text is a text (`TextAssumption`), a conversation is
  a sequence of messages (`ConversationAssumption`), every config is a workspace in which a
  route names one source of an organization (`WorkspaceAssumption`). Inductive
  invariant `PipelineInv`: `TypeOK`, the served configs are workspaces, and for each
  request `Served` (the key it authenticated with and the source it runs come from
  configs that were served, the key's no later than the source's) and `Sound` (what
  its step implies: what the input guards judged, what was rewritten, sent, billed, cleared
  and delivered, and what the audit log and the webhooks hold of it). `Sound` is what makes
  the properties inductive: that the guards judged their part of the array at the provider
  (`GuardsJudgeWhatIsSent`) is only known from the step the request is at, and from no
  transformer running after it. Actions move one request, so one lemma per action
  proves the moved request sound and `MovesOn` carries the others; `SwapKeeps` shows
  that a config applied in between changes nothing a request holds.

Only model-checked: the liveness properties of the runs (fairness and `~>` are beyond the
prover): `EventuallyReturns`, `Converges`, `ResumesFromSnapshot`, `EventuallySettled`,
`ExpiredPruned`, both `EventuallyAnswered`, `CallsReturn` and `Delivered`; and the three
violations. Every other property of a passing run is a theorem.

## 5. Not modelled, and the plan

Left out for good: database drivers, cryptography, URL policy, metrics, the dashboard,
charts and the mock provider (I/O, pure functions or presentation); what a guard decides
about a text (an arbitrary answer here); queries that only list rows for the dashboard.

Next theorems: those of the safety properties the next modules bring; the runs' present ones
are proved.

Next modules: `DataPlane`, `ProxyPipeline` fed by `ConfigSync`, so that revocation and
shutdown are stated end to end.
