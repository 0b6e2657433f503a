----------------------------- MODULE AuditWriter -----------------------------
(***************************************************************************)
(* auditstore.Writer inside the data-plane process: request handlers       *)
(* enqueue one audit entry each without blocking, one goroutine batches    *)
(* and inserts them with one retry, and main's shutdown drains HTTP        *)
(* handlers and then closes the writer, each within a deadline.            *)
(***************************************************************************)
EXTENDS Naturals, Sequences, FiniteSets

CONSTANTS Entry,        \* the entries requests may record, one per request
          BufferSize,   \* capacity of the channel
          BatchSize     \* entries per batch

ASSUME SizeAssumption == BufferSize \in Nat \ {0} /\ BatchSize \in Nat \ {0}

VARIABLES
  handler,      \* the request that records the entry: "idle", "running", and how
                \* Record ended: "recorded", "dropped" (buffer full), "panicked"
  main,         \* run(): "serving", "draining" (srv.Shutdown), "closing" (the
                \* deferred Writer.Close), "exited"
  ch,           \* buffered channel
  closed,       \* the channel has been closed
  writer,       \* Writer.run: "waiting" in its select, "inserting" or in
                \* "backoff" inside flush, "exited"
  batch,        \* entries received and not yet flushed
  pos,          \* next entry of the batch to insert
  attempt,      \* 1 or 2
  last,         \* this flush is the one after the channel was drained
  rows,         \* audit_logs, in insertion order
  abandoned,    \* entries of batches given up after the retry
  accepted      \* history: entries the channel took, in order

vars == <<handler, main, ch, closed, writer, batch, pos, attempt, last, rows,
          abandoned, accepted>>
flushVars == <<batch, pos, attempt, last>>
dbVars == <<rows, abandoned>>

In(e, s) == \E i \in 1..Len(s) : s[i] = e

Init ==
  /\ handler = [e \in Entry |-> "idle"]
  /\ main = "serving"
  /\ ch = <<>> /\ closed = FALSE
  /\ writer = "waiting" /\ batch = <<>> /\ pos = 1 /\ attempt = 1 /\ last = FALSE
  /\ rows = <<>> /\ abandoned = {}
  /\ accepted = <<>>
-----------------------------------------------------------------------------
(* Request handlers. *)

\* A proxy request is admitted; it will reach its Record call.
Begin(e) ==
  /\ main = "serving"
  /\ handler[e] = "idle"
  /\ handler' = [handler EXCEPT ![e] = "running"]
  /\ UNCHANGED <<main, ch, closed, writer, flushVars, dbVars, accepted>>

\* Record: a non-blocking send.  Sending on a closed channel panics (the
\* request then fails with a 500 from the recoverer middleware).  Record's
\* other early return, an entry that cannot be marshalled, cannot happen: the
\* guard details it marshals are strings, numbers, booleans and decoded JSON.
Record(e) ==
  /\ main # "exited"
  /\ handler[e] = "running"
  /\ \/ /\ closed
        /\ handler' = [handler EXCEPT ![e] = "panicked"]
        /\ UNCHANGED <<ch, accepted>>
     \/ /\ ~closed /\ Len(ch) < BufferSize
        /\ handler' = [handler EXCEPT ![e] = "recorded"]
        /\ ch' = Append(ch, e)
        /\ accepted' = Append(accepted, e)
     \/ /\ ~closed /\ Len(ch) >= BufferSize
        /\ handler' = [handler EXCEPT ![e] = "dropped"]
        /\ UNCHANGED <<ch, accepted>>
  /\ UNCHANGED <<main, closed, writer, flushVars, dbVars>>
-----------------------------------------------------------------------------
(* The writer goroutine. *)

StartFlush(isLast) ==
  /\ writer' = "inserting"
  /\ pos' = 1 /\ attempt' = 1 /\ last' = isLast

\* Faulty variant of Receive: the entry is put in front of the batch.
ReceiveInFront ==
  /\ main # "exited"
  /\ writer = "waiting" /\ ch # <<>>
  /\ ch' = Tail(ch)
  /\ batch' = <<Head(ch)>> \o batch
  /\ IF Len(batch) + 1 >= BatchSize
     THEN StartFlush(FALSE)
     ELSE UNCHANGED <<writer, pos, attempt, last>>
  /\ UNCHANGED <<handler, main, closed, dbVars, accepted>>

\* Receive an entry; a full batch is flushed at once.
Receive ==
  /\ main # "exited"
  /\ writer = "waiting" /\ ch # <<>>
  /\ ch' = Tail(ch)
  /\ batch' = Append(batch, Head(ch))
  /\ IF Len(batch) + 1 >= BatchSize
     THEN StartFlush(FALSE)
     ELSE UNCHANGED <<writer, pos, attempt, last>>
  /\ UNCHANGED <<handler, main, closed, dbVars, accepted>>

\* Faulty variant: the ticker flushes full batches only.
TickFullOnly ==
  /\ main # "exited"
  /\ writer = "waiting" /\ Len(batch) >= BatchSize
  /\ StartFlush(FALSE)
  /\ UNCHANGED <<handler, main, ch, closed, batch, dbVars, accepted>>

\* The ticker fires and there is something to flush.
Tick ==
  /\ main # "exited"
  /\ writer = "waiting" /\ batch # <<>>
  /\ StartFlush(FALSE)
  /\ UNCHANGED <<handler, main, ch, closed, batch, dbVars, accepted>>

\* Faulty variant: the goroutine returns without the last flush.
ChannelDrainedNoFlush ==
  /\ main # "exited"
  /\ writer = "waiting" /\ closed /\ ch = <<>>
  /\ writer' = "exited"
  /\ UNCHANGED <<handler, main, ch, closed, flushVars, dbVars, accepted>>

\* The closed channel is drained: one last flush, then the goroutine returns.
ChannelDrained ==
  /\ main # "exited"
  /\ writer = "waiting" /\ closed /\ ch = <<>>
  /\ IF batch = <<>>
     THEN writer' = "exited" /\ UNCHANGED <<pos, attempt, last>>
     ELSE StartFlush(TRUE)
  /\ UNCHANGED <<handler, main, ch, closed, batch, dbVars, accepted>>

\* flush returns and the loop reuses the batch slice from the start.
FlushDone ==
  /\ batch' = <<>>
  /\ pos' = 1
  /\ writer' = IF last THEN "exited" ELSE "waiting"
  /\ UNCHANGED <<attempt, last>>

InsertSucceeds ==
  /\ main # "exited"
  /\ writer = "inserting"
  /\ rows' = Append(rows, batch[pos])
  /\ IF pos = Len(batch)
     THEN FlushDone
     ELSE pos' = pos + 1 /\ UNCHANGED <<writer, batch, attempt, last>>
  /\ UNCHANGED <<handler, main, ch, closed, abandoned, accepted>>

\* Faulty variants of InsertFails: the second error is taken for a success; the
\* number of attempts is not limited.
InsertFailsSilently ==
  /\ main # "exited"
  /\ writer = "inserting"
  /\ rows' \in {rows, Append(rows, batch[pos])}
  /\ \/ attempt = 1 /\ writer' = "backoff" /\ UNCHANGED flushVars
     \/ attempt = 2 /\ FlushDone
  /\ UNCHANGED <<handler, main, ch, closed, abandoned, accepted>>

InsertFailsForever ==
  /\ main # "exited"
  /\ writer = "inserting"
  /\ rows' \in {rows, Append(rows, batch[pos])}
  /\ writer' = "backoff"
  /\ UNCHANGED <<flushVars, abandoned, handler, main, ch, closed, accepted>>

\* An insert errors; its row may have been committed all the same (the
\* connection broke, or flush's own deadline passed, after the commit).  The
\* whole batch is tried once more from its first entry, then given up.
InsertFails ==
  /\ main # "exited"
  /\ writer = "inserting"
  /\ rows' \in {rows, Append(rows, batch[pos])}
  /\ \/ /\ attempt = 1
        /\ writer' = "backoff"
        /\ UNCHANGED <<flushVars, abandoned>>
     \/ /\ attempt = 2
        /\ abandoned' = abandoned \cup {batch[i] : i \in 1..Len(batch)}
        /\ FlushDone
  /\ UNCHANGED <<handler, main, ch, closed, accepted>>

\* The half-second pause before the second attempt.
BackoffEnds ==
  /\ main # "exited"
  /\ writer = "backoff"
  /\ writer' = "inserting"
  /\ pos' = 1 /\ attempt' = 2
  /\ UNCHANGED <<handler, main, ch, closed, batch, last, dbVars, accepted>>
-----------------------------------------------------------------------------
(* main: a signal starts srv.Shutdown, which waits for the running handlers *)
(* but no longer than its deadline; returning from run() closes the writer. *)

Signal ==
  /\ main = "serving"
  /\ main' = "draining"
  /\ UNCHANGED <<handler, ch, closed, writer, flushVars, dbVars, accepted>>

CloseWriter ==
  /\ main' = "closing"
  /\ closed' = TRUE
  /\ UNCHANGED <<handler, ch, writer, flushVars, dbVars, accepted>>

Drained ==
  /\ main = "draining"
  /\ \A e \in Entry : handler[e] # "running"
  /\ CloseWriter

\* srv.Shutdown's deadline passes, or the listener fails: run() returns while
\* handlers are still running.
ReturnEarly ==
  /\ main \in {"draining", "serving"}
  /\ CloseWriter

\* Close saw the goroutine's done, or gave up waiting; the process exits.
Exit ==
  /\ main = "closing"
  /\ writer = "exited"
  /\ main' = "exited"
  /\ UNCHANGED <<handler, ch, closed, writer, flushVars, dbVars, accepted>>

ExitEarly ==
  /\ main = "closing"
  /\ writer # "exited"
  /\ main' = "exited"
  /\ UNCHANGED <<handler, ch, closed, writer, flushVars, dbVars, accepted>>

Writer == Receive \/ Tick \/ ChannelDrained \/ InsertSucceeds \/ InsertFails \/ BackoffEnds

Next ==
  \/ \E e \in Entry : Begin(e) \/ Record(e)
  \/ Writer
  \/ Signal \/ Drained \/ ReturnEarly \/ Exit \/ ExitEarly

Spec == Init /\ [][Next]_vars

\* The writer goroutine runs and every insert returns within flush's deadline;
\* main's deadlines are not assumed to pass.
WriterFairSpec == Spec /\ WF_vars(Writer) /\ WF_vars(Exit)
-----------------------------------------------------------------------------
TypeOK ==
  /\ handler \in [Entry -> {"idle", "running", "recorded", "dropped", "panicked"}]
  /\ main \in {"serving", "draining", "closing", "exited"}
  /\ ch \in Seq(Entry) /\ Len(ch) <= BufferSize
  /\ closed \in BOOLEAN
  /\ writer \in {"waiting", "inserting", "backoff", "exited"}
  /\ batch \in Seq(Entry) /\ Len(batch) <= BatchSize
  /\ pos \in Nat /\ (writer = "inserting" => pos \in 1..Len(batch))
  /\ attempt \in {1, 2}
  /\ last \in BOOLEAN
  /\ rows \in Seq(Entry)
  /\ abandoned \subseteq Entry
  /\ accepted \in Seq(Entry)

\* Nothing the channel took is lost track of: until the process exits it is in
\* the channel or the batch, and when it leaves them it is in the table or in a
\* batch given up (and counted) after two attempts.  (writer.go:127-197)
Conserved ==
  \A e \in Entry : handler[e] = "recorded" =>
    In(e, ch) \/ In(e, batch) \/ In(e, rows) \/ e \in abandoned

\* The table holds only what requests recorded: an entry dropped at a full
\* buffer, or never recorded, has no row.  (writer.go:106)
OnlyRecorded ==
  \A i \in 1..Len(rows) : handler[rows[i]] = "recorded"

Occurrences(e) == {i \in 1..Len(rows) : rows[i] = e}
FirstRow(e) == CHOOSE i \in Occurrences(e) : \A j \in Occurrences(e) : i <= j

\* The retry bounds the damage: no entry has more than two rows.
\* (writer.go:163)
AtMostTwice == \A e \in Entry : Cardinality(Occurrences(e)) <= 2

\* Entries first appear in the table in the order the channel took them,
\* however flushes, retries and given-up batches interleave.
AcceptOrder ==
  \A i, j \in 1..Len(accepted) :
    i < j /\ In(accepted[i], rows) /\ In(accepted[j], rows) =>
      FirstRow(accepted[i]) < FirstRow(accepted[j])

\* writer.go:114: "Close stops the writer and drains buffered entries": when the
\* goroutine has returned, every entry taken is in the table, unless its batch
\* failed twice; and nothing is inserted afterwards.
CloseDrains ==
  writer = "exited" =>
    /\ closed /\ ch = <<>> /\ batch = <<>>
    /\ \A i \in 1..Len(accepted) : In(accepted[i], rows) \/ accepted[i] \in abandoned

\* An entry taken by the channel is eventually inserted or given up, unless the
\* process exits first.
EventuallySettled ==
  \A e \in Entry :
    In(e, accepted) ~> In(e, rows) \/ e \in abandoned \/ main = "exited"

\* writer.go:48: "audit logging never blocks or fails the request path".
NeverFailsRequest == \A e \in Entry : handler[e] # "panicked"

\* The inductive invariant behind Conserved, OnlyRecorded and CloseDrains.
Tracked(s) == \A i \in 1..Len(s) : s[i] \in Entry /\ handler[s[i]] = "recorded"

WriterInv ==
  /\ TypeOK
  /\ Tracked(ch) /\ Tracked(batch) /\ Tracked(rows) /\ Tracked(accepted)
  /\ Conserved
  /\ writer \in {"inserting", "backoff"} => batch # <<>>
  /\ writer = "inserting" => \A i \in 1..(pos - 1) : In(batch[i], rows)
  /\ writer \in {"inserting", "backoff"} /\ last => closed /\ ch = <<>>
  /\ writer = "waiting" => Len(batch) < BatchSize
  /\ writer = "exited" => closed /\ ch = <<>> /\ batch = <<>>

\* The inductive invariants behind AtMostTwice and AcceptOrder.  The entries taken
\* are the settled ones, then the batch, then the channel.
Settled == Len(accepted) - Len(batch) - Len(ch)
Laid ==
  /\ Settled >= 0
  /\ \A i \in 1..Len(batch) : batch[i] = accepted[Settled + i]
  /\ \A i \in 1..Len(ch) : ch[i] = accepted[Settled + Len(batch) + i]
  /\ \A i, j \in 1..Len(accepted) : accepted[i] = accepted[j] => i = j

\* No row comes before its turn: of a batch, those with a row come first.
InTurn ==
  /\ \A i \in 1..Len(ch) : ~In(ch[i], rows)
  /\ writer = "waiting" => \A i \in 1..Len(batch) : ~In(batch[i], rows)
  /\ \A i, j \in 1..Len(batch) : i < j /\ In(batch[j], rows) => In(batch[i], rows)
  /\ \A i, j \in 1..Len(accepted), k \in 1..Len(rows) :
       i < j /\ rows[k] = accepted[j] /\ In(accepted[i], rows) =>
         \E h \in 1..Len(rows) : h < k /\ rows[h] = accepted[i]

\* Each attempt adds at most one row to an entry of the batch.
Tries(i) == IF writer = "backoff" \/ (writer = "inserting" /\ i < pos) THEN attempt ELSE attempt - 1
Counted ==
  /\ \A e \in Entry : Cardinality(Occurrences(e)) <= 2
  /\ writer \in {"inserting", "backoff"} =>
       \A i \in 1..Len(batch) : Cardinality(Occurrences(batch[i])) <= Tries(i)
  /\ writer = "backoff" => attempt = 1

OrderInv == Laid /\ InTurn /\ Counted
=============================================================================
