------------------------------ MODULE AuditStore ------------------------------
(***************************************************************************)
(* The audit_logs table of a data plane and those who use it at the same   *)
(* time: the writer that inserts rows, the pruner that deletes expired     *)
(* ones in batches, and a client that pages through the log by cursor or   *)
(* asks for usage analytics, four queries without a transaction.           *)
(*                                                                         *)
(* One organization (every query names one), and one client: reads do not  *)
(* disturb each other.  Time is a counter; a sweep can begin at any moment *)
(* of its interval.                                                        *)
(***************************************************************************)
EXTENDS Integers, Sequences, FiniteSets, FiniteSetsExt, SequencesExt

CONSTANTS Id,            \* row ids, in the order of the database
          Entry(_),      \* what the row of an id says: source, result, model, tokens
          NoModel,       \* model IS NULL
          Priced,        \* the models with a price
          DayLength,
          Window,        \* how far analytics look back
          Retention,     \* how long rows are kept; 0 is forever
          BatchSize,
          DefaultLimit, MaxLimit,
          Filters,       \* the filters a client lists with
          Limits,        \* the page sizes it asks for
          MaxTime,       \* bound: the clock
          MaxFaults      \* bound: failed statements and restarts

ASSUME IdAssumption == Id \subseteq Nat /\ IsFiniteSet(Id)
ASSUME SizesAssumption == /\ {DayLength, BatchSize, DefaultLimit, MaxLimit} \subseteq Nat \ {0}
                          /\ {Retention, Window, MaxTime, MaxFaults} \subseteq Nat
ASSUME EntryAssumption == /\ \A i \in Id : Entry(i).tokens \in Nat
                          /\ NoModel \notin Priced

VARIABLES
  now,
  rows,      \* the committed rows
  pending,   \* inserts that have begun
  pruner,    \* the pruner goroutine: [at, cutoff]
  reader,    \* the client: its request and what it was answered
  base,      \* history: a reader's rows when it began, without those deleted since
  ever,      \* history: base, and every row committed since
  faults

vars == <<now, rows, pending, pruner, reader, base, ever, faults>>

\* created_at is the time the insert began.
RowsAt(times) == {[id |-> i, time |-> t, entry |-> Entry(i)] : i \in Id, t \in times}
NoReader == [at |-> "idle"]

\* (created_at, id)
Precedes(r, s) == r.time < s.time \/ (r.time = s.time /\ r.id < s.id)

-----------------------------------------------------------------------------
(* The queries. *)

\* COUNT(*), SUM(total_tokens)
TokensOf(S) == SumFunction([r \in S |-> r.entry.tokens])
Totals(S) == [requests |-> Cardinality(S), tokens |-> TokensOf(S)]
Passed(S) == {r \in S : r.entry.result = "pass"}

\* ORDER BY created_at DESC, id DESC LIMIT n.
Newer(S, r) == {s \in S : Precedes(r, s)}
Newest(S, n) ==
  [i \in 1..Min({n, Cardinality(S)}) |-> CHOOSE r \in S : Cardinality(Newer(S, r)) = i - 1]

\* Faulty: rows of the cursor's moment are skipped.
ListByTime(filter, cursor, n) ==
  LET found == {r \in rows :
        /\ \A s \in filter.source : r.entry.source = s
        /\ \A p \in filter.status : r.entry.result = p
        /\ \A t \in filter.from : r.time >= t
        /\ \A t \in filter.to : r.time <= t
        /\ \A c \in cursor : r.time < c.time}
  IN  Newest(found, n)

\* Omitted filters, and the cursor of the first page, are {}.
ListAuditLogs(filter, cursor, n) ==
  LET found == {r \in rows :
        /\ \A s \in filter.source : r.entry.source = s
        /\ \A p \in filter.status : r.entry.result = p
        /\ \A t \in filter.from : r.time >= t
        /\ \A t \in filter.to : r.time <= t
        /\ \A c \in cursor : Precedes(r, c)}
  IN  Newest(found, n)

\* What the WHERE of an analytics query leaves.
Since(t) == {r \in rows : r.time >= t}

AuditSummary(S) == [total |-> Totals(S), passed |-> Cardinality(Passed(S))]
AuditDailySeries(S) ==
  [d \in {r.time \div DayLength : r \in S} |-> Totals({r \in S : r.time \div DayLength = d})]
AuditByModel(S) ==
  LET known == {r \in S : r.entry.model # NoModel} IN
  [m \in {r.entry.model : r \in known} |-> Totals({r \in known : r.entry.model = m})]
AuditBySource(S) ==
  [s \in {r.entry.source : r \in S} |->
     LET T == {r \in S : r.entry.source = s} IN
     [totals |-> Totals(T), rejected |-> Cardinality(T \ Passed(T))]]

-----------------------------------------------------------------------------
Init ==
  /\ now = 0 /\ rows = {} /\ pending = {} /\ faults = 0
  /\ pruner = [at |-> IF Retention = 0 THEN "off" ELSE "waiting", cutoff |-> 0]
  /\ reader = NoReader /\ base = {} /\ ever = {}

Tick == now < MaxTime /\ now' = now + 1 /\ UNCHANGED <<rows, pending, pruner, reader, base, ever, faults>>

\* The writer inserts; ids are random.  The id of a pruned row stands for a new one.
BeginAuditLog ==
  \E i \in Id \ {r.id : r \in rows \cup pending \cup ever} :
    /\ pending' = pending \cup {[id |-> i, time |-> now, entry |-> Entry(i)]}
    /\ UNCHANGED <<now, rows, pruner, reader, base, ever, faults>>

\* The insert commits, in any order.
CreateAuditLog ==
  \E r \in pending :
    /\ rows' = rows \cup {r}
    /\ ever' = IF reader.at = "idle" THEN ever ELSE ever \cup {r}
    /\ pending' = pending \ {r}
    /\ UNCHANGED <<now, pruner, reader, base, faults>>

-----------------------------------------------------------------------------
(* The pruner. *)

\* Faulty: the DELETE has no cutoff.
PruneAll(batch) ==
  /\ batch \in kSubset(Min({BatchSize, Cardinality(rows)}), rows)
  /\ rows' = rows \ batch
  /\ base' = base \ batch
  /\ UNCHANGED <<now, pending, reader, ever, faults>>

\* Any BatchSize of the rows before the cutoff, or all of them if fewer.
DeleteAuditLogsBefore(batch) ==
  LET old == {r \in rows : r.time < pruner.cutoff} IN
  /\ batch \in kSubset(Min({BatchSize, Cardinality(old)}), old)
  /\ rows' = rows \ batch
  /\ base' = base \ batch
  /\ UNCHANGED <<now, pending, reader, ever, faults>>

\* At the start, and when the ticker fires.
Sweep ==
  /\ pruner.at = "waiting"
  /\ pruner' = [at |-> "sweeping", cutoff |-> now - Retention]
  /\ UNCHANGED <<now, rows, pending, reader, base, ever, faults>>

\* Faulty: the sweep only ends with the process.
PruneOnceForever ==
  \E batch \in SUBSET rows :
    /\ pruner.at = "sweeping"
    /\ DeleteAuditLogsBefore(batch)
    /\ UNCHANGED pruner

\* One statement of a sweep; a batch that is not full ends it.
PruneOnce ==
  \E batch \in SUBSET rows :
    /\ pruner.at = "sweeping"
    /\ DeleteAuditLogsBefore(batch)
    /\ pruner' = IF Cardinality(batch) < BatchSize THEN [pruner EXCEPT !.at = "waiting"] ELSE pruner

\* A statement fails: the sweep is over, the next tick starts another.
PruneFails ==
  /\ pruner.at = "sweeping" /\ faults < MaxFaults
  /\ pruner' = [pruner EXCEPT !.at = "waiting"]
  /\ faults' = faults + 1
  /\ UNCHANGED <<now, rows, pending, reader, base, ever>>

\* The process stops; what was being inserted may be lost.
Stop ==
  /\ pruner.at \in {"waiting", "sweeping"} /\ faults < MaxFaults
  /\ pruner' = [pruner EXCEPT !.at = "stopped"]
  /\ pending' \in SUBSET pending
  /\ faults' = faults + 1
  /\ UNCHANGED <<now, rows, reader, base, ever>>

\* Run sweeps at once.
Run ==
  /\ pruner.at = "stopped"
  /\ pruner' = [at |-> "sweeping", cutoff |-> now - Retention]
  /\ UNCHANGED <<now, rows, pending, reader, base, ever, faults>>

Pruner == Sweep \/ PruneOnce \/ Run

-----------------------------------------------------------------------------
(* Paging: the client passes on the last row it was shown. *)

\* limit: 50 unless 1..200.
Limit(n) == IF n \in 1..MaxLimit THEN n ELSE DefaultLimit

List(filter, cursor, n, listed) ==
  LET page == ListAuditLogs(filter, cursor, Limit(n)) IN
  reader' = [at |-> IF Len(page) < Limit(n) THEN "listed" ELSE "paging",
             filter |-> filter, limit |-> n, pages |-> listed \o page]

FirstPage ==
  /\ reader.at = "idle"
  /\ \E f \in Filters, n \in Limits : List(f, {}, n, <<>>)
  /\ base' = rows /\ ever' = rows
  /\ UNCHANGED <<now, rows, pending, pruner, faults>>

NextPage ==
  /\ reader.at = "paging"
  /\ List(reader.filter, {Last(reader.pages)}, reader.limit, reader.pages)
  /\ UNCHANGED <<now, rows, pending, pruner, base, ever, faults>>

-----------------------------------------------------------------------------
(* Analytics: the window is fixed, then one query after another. *)

Summary ==
  /\ reader.at = "idle"
  /\ reader' = [at |-> "summary", since |-> now - Window,
                answers |-> <<AuditSummary(Since(now - Window))>>]
  /\ base' = rows /\ ever' = rows
  /\ UNCHANGED <<now, rows, pending, pruner, faults>>

\* Faulty: every query has a window of its own.
AskedLast == now - Window

\* The window all queries of a report share.
Asked == reader.since

Ask(at, next, table) ==
  /\ reader.at = at
  /\ reader' = [at |-> next, since |-> reader.since, answers |-> Append(reader.answers, table)]
  /\ UNCHANGED <<now, rows, pending, pruner, base, ever, faults>>

Daily == Ask("summary", "daily", AuditDailySeries(Since(Asked)))
Models == Ask("daily", "models", AuditByModel(Since(Asked)))
Sources == Ask("models", "answered", AuditBySource(Since(Asked)))

\* A model without a price counts its requests as unpriced.
EstimatedCost(models) == SumFunction([m \in DOMAIN models \cap Priced |-> models[m].tokens])
UnpricedRequests(models) == SumFunction([m \in DOMAIN models \ Priced |-> models[m].requests])

\* The client has what it wanted, or leaves, or a query fails (a 500).
Close ==
  /\ reader.at # "idle"
  /\ reader' = NoReader /\ base' = {} /\ ever' = {}
  /\ UNCHANGED <<now, rows, pending, pruner, faults>>

Reader == FirstPage \/ NextPage \/ Summary \/ Daily \/ Models \/ Sources \/ Close
Next == Tick \/ BeginAuditLog \/ CreateAuditLog \/ Pruner \/ PruneFails \/ Stop \/ Reader

\* The pruner goroutine runs and its ticker fires; a stopped process is started.
Spec == Init /\ [][Next]_vars /\ WF_vars(Pruner)

-----------------------------------------------------------------------------
(* Properties. *)

\* Types, the bound of a page, and unique ids.
TypeOK ==
  /\ now \in 0..MaxTime
  /\ rows \cup pending \cup base \cup ever \subseteq RowsAt(0..now)
  /\ \A r, s \in rows \cup pending : r.id = s.id => r = s
  /\ pruner \in [at : {"off", "waiting", "sweeping", "stopped"}, cutoff : -Retention..MaxTime]
  /\ faults \in 0..MaxFaults

\* Paging shows every row that matched when it began and is still there, once
\* and newest first, whatever is inserted, committed late or pruned meanwhile
\* ("Ordering is (created_at, id) DESC so the cursor is stable under inserts",
\* audit_logs.sql.go:308).
PagesComplete ==
  reader.at \in {"paging", "listed"} =>
    LET shown == ToSet(reader.pages)
        asked == {r \in base : /\ \A s \in reader.filter.source : r.entry.source = s
                               /\ \A p \in reader.filter.status : r.entry.result = p
                               /\ \A t \in reader.filter.from : r.time >= t
                               /\ \A t \in reader.filter.to : r.time <= t} IN
    /\ \A i, j \in DOMAIN reader.pages : i < j => Precedes(reader.pages[j], reader.pages[i])
    /\ reader.at = "listed" => asked \subseteq shown
    /\ reader.at = "paging" =>
         \A r \in asked : r \in shown \/ Precedes(r, Last(reader.pages))

\* Every figure of an analytics answer lies between what was in its window all
\* along and what was in it at some time, although its four queries see
\* different moments (analytics.go:72): a row committed or pruned in between
\* never makes one figure miss what another counts and both saw.
InWindow(S, since) == {r \in S : r.time >= since}
Between(x, f(_), since) == f(InWindow(base, since)) <= x /\ x <= f(InWindow(ever, since))
Requests(S) == Cardinality(S)
Rejected(S) == Cardinality(S \ Passed(S))
CostOf(S) == TokensOf({r \in S : r.entry.model \in Priced})
UnpricedOf(S) == Cardinality({r \in S : r.entry.model \notin Priced \cup {NoModel}})
SumOf(table, f(_)) == SumFunction([k \in DOMAIN table |-> f(table[k])])
AnalyticsBracketed ==
  reader.at = "answered" =>
    LET t == reader.since
        summary == reader.answers[1]
        daily == reader.answers[2]
        models == reader.answers[3]
        sources == reader.answers[4] IN
    /\ Between(summary.total.requests, Requests, t)
    /\ Between(summary.total.tokens, TokensOf, t)
    /\ Between(summary.total.requests - summary.passed, Rejected, t)
    /\ Between(SumOf(daily, LAMBDA x : x.requests), Requests, t)
    /\ Between(SumOf(daily, LAMBDA x : x.tokens), TokensOf, t)
    /\ Between(SumOf(sources, LAMBDA x : x.totals.requests), Requests, t)
    /\ Between(SumOf(sources, LAMBDA x : x.rejected), Rejected, t)
    /\ Between(EstimatedCost(models), CostOf, t)
    /\ Between(UnpricedRequests(models), UnpricedOf, t)

\* Only expired rows are deleted, also by a sweep that began long ago
\* (pruner.go:61): "Prune audit rows older than this", README.md:405.
OnlyExpiredPruned ==
  [][\A r \in rows \ rows' : Retention # 0 /\ r.time + Retention < now]_vars

\* An expired row does not stay: batches that fail, restarts and backlogs larger
\* than a batch only delay it (pruner.go:47).
ExpiredPruned ==
  \A i \in Id :
    (Retention # 0 /\ \E r \in rows : r.id = i /\ r.time + Retention < now)
      ~> ~ \E r \in rows : r.id = i /\ r.time + Retention < now

\* What a step relies on besides: a pruner only sweeps what has expired; what a
\* reader began with is still there; pages hold rows.
PrunerSound ==
  /\ Retention = 0 => pruner.at = "off"
  /\ pruner.at = "sweeping" => pruner.cutoff <= now - Retention
PagesTyped ==
  reader.at \in {"paging", "listed"} =>
    /\ reader.pages \in Seq(RowsAt(0..now))
    /\ reader.at = "paging" => reader.pages # <<>>

\* Each answer of a report is the query's, of rows that were in the window at a moment
\* since the report began.
Moments == {S \in SUBSET InWindow(ever, reader.since) : InWindow(base, reader.since) \subseteq S}
AnswersSound ==
  /\ reader.at # "idle" => rows \subseteq ever
  /\ reader.at = "summary" =>
       \E S \in Moments : reader.answers = <<AuditSummary(S)>>
  /\ reader.at = "daily" =>
       \E S \in Moments : \E T \in Moments : reader.answers = <<AuditSummary(S), AuditDailySeries(T)>>
  /\ reader.at = "models" =>
       \E S \in Moments : \E T \in Moments : \E M \in Moments :
         reader.answers = <<AuditSummary(S), AuditDailySeries(T), AuditByModel(M)>>
  /\ reader.at = "answered" =>
       \E S \in Moments : \E T \in Moments : \E M \in Moments : \E U \in Moments :
         reader.answers = <<AuditSummary(S), AuditDailySeries(T), AuditByModel(M), AuditBySource(U)>>

\* The inductive invariant behind PagesComplete and OnlyExpiredPruned, and what
\* AnalyticsBracketed needs besides.
StoreInv == TypeOK /\ PrunerSound /\ base \subseteq rows /\ PagesTyped /\ PagesComplete
AnalyticsInv == StoreInv /\ AnswersSound
=============================================================================
