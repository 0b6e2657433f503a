-------------------------- MODULE AuditWriterProofs --------------------------
(***************************************************************************)
(* Proofs about AuditWriter for any set of entries, any buffer and any     *)
(* batch size: types, conservation of accepted entries, no row without a   *)
(* recorded entry, and what a returned writer goroutine leaves behind.     *)
(***************************************************************************)
EXTENDS AuditWriter, FiniteSetTheorems, WellFoundedInduction, TLAPS

\* What a send adds to a sequence.
LEMMA InAppend ==
  ASSUME NEW s \in Seq(Entry), NEW x \in Entry
  PROVE  /\ Append(s, x) \in Seq(Entry)
         /\ Len(Append(s, x)) = Len(s) + 1
         /\ \A i \in 1..Len(s) : Append(s, x)[i] = s[i]
         /\ Append(s, x)[Len(s) + 1] = x
         /\ \A e : In(e, Append(s, x)) <=> In(e, s) \/ e = x
<1>1. /\ Append(s, x) \in Seq(Entry)
      /\ Len(Append(s, x)) = Len(s) + 1
      /\ \A i \in 1..Len(s) : Append(s, x)[i] = s[i]
      /\ Append(s, x)[Len(s) + 1] = x
  OBVIOUS
<1>2. ASSUME NEW e PROVE In(e, Append(s, x)) <=> In(e, s) \/ e = x
  BY <1>1 DEF In
<1> QED BY <1>1, <1>2

\* What a receive leaves of a sequence.
LEMMA InTail ==
  ASSUME NEW s \in Seq(Entry), s # <<>>
  PROVE  /\ Head(s) \in Entry
         /\ Tail(s) \in Seq(Entry)
         /\ Len(Tail(s)) = Len(s) - 1
         /\ Len(s) \in Nat \ {0}
         /\ \A i \in 1..Len(Tail(s)) : Tail(s)[i] = s[i + 1]
         /\ Head(s) = s[1]
         /\ \A e : In(e, s) <=> e = Head(s) \/ In(e, Tail(s))
<1>1. /\ Head(s) \in Entry
      /\ Tail(s) \in Seq(Entry)
      /\ Len(Tail(s)) = Len(s) - 1
      /\ Len(s) \in Nat \ {0}
      /\ \A i \in 1..Len(Tail(s)) : Tail(s)[i] = s[i + 1]
      /\ Head(s) = s[1]
  OBVIOUS
<1>2. ASSUME NEW e, In(e, s) PROVE e = Head(s) \/ In(e, Tail(s))
  <2>1. PICK i \in 1..Len(s) : s[i] = e
    BY <1>2 DEF In
  <2>2. CASE i = 1
    BY <2>1, <2>2, <1>1
  <2>3. CASE i # 1
    <3>1. i - 1 \in 1..Len(Tail(s)) /\ Tail(s)[i - 1] = e
      BY <2>1, <2>3, <1>1
    <3> QED BY <3>1 DEF In
  <2> QED BY <2>2, <2>3
<1>3. ASSUME NEW e, e = Head(s) \/ In(e, Tail(s)) PROVE In(e, s)
  <2>1. CASE e = Head(s)
    BY <2>1, <1>1 DEF In
  <2>2. CASE In(e, Tail(s))
    <3>1. PICK i \in 1..Len(Tail(s)) : Tail(s)[i] = e
      BY <2>2 DEF In
    <3>2. i + 1 \in 1..Len(s) /\ s[i + 1] = e
      BY <3>1, <1>1
    <3> QED BY <3>2 DEF In
  <2> QED BY <1>3, <2>1, <2>2
<1> QED BY <1>1, <1>2, <1>3

LEMMA InitInv == Init => WriterInv
<1> SUFFICES ASSUME Init PROVE WriterInv
  OBVIOUS
<1>1. /\ Len(<<>>) = 0 /\ <<>> \in Seq(Entry)
      /\ 0 <= BufferSize /\ 0 <= BatchSize /\ 0 < BatchSize
  BY SizeAssumption
<1>2. TypeOK
  BY <1>1 DEF Init, TypeOK
<1>3. Tracked(ch) /\ Tracked(batch) /\ Tracked(rows) /\ Tracked(accepted)
  BY <1>1 DEF Init, Tracked
<1>4. Conserved
  BY DEF Init, Conserved
<1> QED BY <1>1, <1>2, <1>3, <1>4 DEF Init, WriterInv
-----------------------------------------------------------------------------
\* The database step of an insert: the rows grow by the entry at pos or not at
\* all, and only by recorded entries.
LEMMA RowsGrow ==
  ASSUME WriterInv, writer = "inserting", handler' = handler,
         rows' \in {rows, Append(rows, batch[pos])}
  PROVE  /\ rows' \in Seq(Entry)
         /\ Tracked(rows)'
         /\ \A e : In(e, rows) => In(e, rows')
         /\ rows' = Append(rows, batch[pos]) => In(batch[pos], rows')
<1>1. /\ batch[pos] \in Entry /\ handler[batch[pos]] = "recorded"
      /\ rows \in Seq(Entry) /\ Tracked(rows)
  BY DEF WriterInv, TypeOK, Tracked
<1>2. CASE rows' = rows
  BY <1>1, <1>2 DEF Tracked
<1>3. CASE rows' = Append(rows, batch[pos])
  <2>1. /\ rows' \in Seq(Entry) /\ Len(rows') = Len(rows) + 1
        /\ \A i \in 1..Len(rows) : rows'[i] = rows[i]
        /\ rows'[Len(rows) + 1] = batch[pos]
        /\ \A e : In(e, rows') <=> In(e, rows) \/ e = batch[pos]
    BY <1>1, <1>3, InAppend
  <2>2. Tracked(rows)'
    <3> SUFFICES ASSUME NEW i \in 1..Len(rows')
                 PROVE  rows'[i] \in Entry /\ handler[rows'[i]] = "recorded"
      BY DEF Tracked
    <3>1. CASE i \in 1..Len(rows)
      BY <3>1, <2>1, <1>1 DEF Tracked
    <3>2. CASE i = Len(rows) + 1
      BY <3>2, <2>1, <1>1
    <3> QED BY <3>1, <3>2, <2>1, <1>1
  <2> QED BY <2>1, <2>2
<1> QED BY <1>2, <1>3

LEMMA NextInv == WriterInv /\ [Next]_vars => WriterInv'
<1> SUFFICES ASSUME WriterInv, [Next]_vars PROVE WriterInv'
  OBVIOUS
<1> USE SizeAssumption DEF flushVars, dbVars
<1>1. ASSUME NEW e \in Entry, Begin(e)
      PROVE  WriterInv'
  <2>1. /\ handler' = [handler EXCEPT ![e] = "running"] /\ handler[e] = "idle"
        /\ UNCHANGED <<main, ch, closed, writer, batch, pos, attempt, last,
                      rows, abandoned, accepted>>
    BY <1>1 DEF Begin
  <2>2. \A x \in Entry : handler'[x] = "recorded" <=> handler[x] = "recorded"
    BY <2>1 DEF WriterInv, TypeOK
  <2>3. TypeOK'
    BY <2>1 DEF WriterInv, TypeOK
  <2>4. Tracked(ch)' /\ Tracked(batch)' /\ Tracked(rows)' /\ Tracked(accepted)'
    <3>1. Tracked(ch) /\ Tracked(batch) /\ Tracked(rows) /\ Tracked(accepted)
      BY DEF WriterInv
    <3> QED BY <2>1, <2>2, <3>1 DEF Tracked
  <2>5. Conserved'
    BY <2>1, <2>2 DEF WriterInv, Conserved, In
  <2> QED BY <2>1, <2>3, <2>4, <2>5 DEF WriterInv, In
<1>2. ASSUME NEW e \in Entry, Record(e)
      PROVE  WriterInv'
  <2>1. CASE ch' = ch /\ accepted' = accepted
    <3>1. PICK r \in {"panicked", "dropped"} :
            /\ handler' = [handler EXCEPT ![e] = r] /\ handler[e] = "running"
            /\ UNCHANGED <<main, ch, closed, writer, batch, pos, attempt, last,
                          rows, abandoned, accepted>>
      <4>1. CASE ch' = Append(ch, e)
        BY <2>1, <4>1, InAppend DEF WriterInv, TypeOK
      <4>2. CASE handler' = [handler EXCEPT ![e] = "panicked"]
        BY <1>2, <2>1, <4>2 DEF Record
      <4>3. CASE handler' = [handler EXCEPT ![e] = "dropped"]
        BY <1>2, <2>1, <4>3 DEF Record
      <4> QED BY <1>2, <4>1, <4>2, <4>3 DEF Record
    <3>2. \A x \in Entry : handler'[x] = "recorded" <=> handler[x] = "recorded"
      BY <3>1 DEF WriterInv, TypeOK
    <3>3. TypeOK'
      BY <3>1 DEF WriterInv, TypeOK
    <3>4. Tracked(ch)' /\ Tracked(batch)' /\ Tracked(rows)' /\ Tracked(accepted)'
      BY <3>1, <3>2 DEF WriterInv, Tracked
    <3>5. Conserved'
      BY <3>1, <3>2 DEF WriterInv, Conserved, In
    <3> QED BY <3>1, <3>3, <3>4, <3>5 DEF WriterInv, In
  <2>2. CASE ~closed /\ ch' = Append(ch, e)
    <3>1. /\ ch \in Seq(Entry) /\ accepted \in Seq(Entry)
          /\ handler' = [handler EXCEPT ![e] = "recorded"]
          /\ accepted' = Append(accepted, e) /\ Len(ch) < BufferSize
          /\ UNCHANGED <<main, closed, writer, batch, pos, attempt, last, rows, abandoned>>
      BY <1>2, <2>2 DEF Record, WriterInv, TypeOK
    <3>2. /\ ch' \in Seq(Entry) /\ Len(ch') = Len(ch) + 1
          /\ \A i \in 1..Len(ch) : ch'[i] = ch[i]
          /\ ch'[Len(ch) + 1] = e
          /\ \A x : In(x, ch') <=> In(x, ch) \/ x = e
      BY <2>2, <3>1, InAppend
    <3>3. /\ accepted' \in Seq(Entry) /\ Len(accepted') = Len(accepted) + 1
          /\ \A i \in 1..Len(accepted) : accepted'[i] = accepted[i]
          /\ accepted'[Len(accepted) + 1] = e
      BY <3>1, InAppend
    <3>4. TypeOK'
      BY <3>1, <3>2, <3>3 DEF WriterInv, TypeOK
    <3>5. Tracked(ch)' /\ Tracked(accepted)' /\ Tracked(batch)' /\ Tracked(rows)'
      <4>1. /\ handler'[e] = "recorded"
            /\ \A x \in Entry : handler[x] = "recorded" => handler'[x] = "recorded"
        BY <3>1 DEF WriterInv, TypeOK
      <4>2. Tracked(ch) /\ Tracked(accepted) /\ Tracked(batch) /\ Tracked(rows)
        BY DEF WriterInv
      <4>3. Tracked(ch)'
        <5> SUFFICES ASSUME NEW i \in 1..Len(ch')
                     PROVE  ch'[i] \in Entry /\ handler'[ch'[i]] = "recorded"
          BY DEF Tracked
        <5>1. CASE i \in 1..Len(ch)
          <6>1. ch[i] \in Entry /\ handler[ch[i]] = "recorded"
            BY <4>2, <5>1 DEF Tracked
          <6> QED BY <3>2, <4>1, <5>1, <6>1
        <5>2. CASE i = Len(ch) + 1
          BY <3>2, <4>1, <5>2
        <5>3. Len(ch) \in Nat
          BY <3>1
        <5> QED BY <3>2, <5>1, <5>2, <5>3
      <4>4. Tracked(accepted)'
        <5> SUFFICES ASSUME NEW i \in 1..Len(accepted')
                     PROVE  accepted'[i] \in Entry /\ handler'[accepted'[i]] = "recorded"
          BY DEF Tracked
        <5>1. CASE i \in 1..Len(accepted)
          <6>1. accepted[i] \in Entry /\ handler[accepted[i]] = "recorded"
            BY <4>2, <5>1 DEF Tracked
          <6> QED BY <3>3, <4>1, <5>1, <6>1
        <5>2. CASE i = Len(accepted) + 1
          BY <3>3, <4>1, <5>2
        <5>3. Len(accepted) \in Nat
          BY <3>1
        <5> QED BY <3>3, <5>1, <5>2, <5>3
      <4>5. Tracked(batch)' /\ Tracked(rows)'
        <5>1. batch' = batch /\ rows' = rows
          BY <3>1
        <5> QED BY <4>1, <4>2, <5>1 DEF Tracked
      <4> QED BY <4>3, <4>4, <4>5
    <3>6. Conserved'
      <4>1. ASSUME NEW x \in Entry, handler'[x] = "recorded"
            PROVE  In(x, ch') \/ In(x, batch) \/ In(x, rows) \/ x \in abandoned
        <5>1. x = e \/ handler[x] = "recorded"
          BY <3>1, <4>1 DEF WriterInv, TypeOK
        <5>2. Conserved
          BY DEF WriterInv
        <5> QED BY <3>2, <5>1, <5>2 DEF Conserved
      <4>2. batch' = batch /\ rows' = rows /\ abandoned' = abandoned
        BY <3>1
      <4> QED BY <4>1, <4>2 DEF Conserved, In
    <3> QED BY <2>2, <3>1, <3>4, <3>5, <3>6 DEF WriterInv, In
  <2> QED BY <1>2, <2>1, <2>2 DEF Record
<1>3. CASE Receive
  <2>1. /\ ch \in Seq(Entry) /\ ch # <<>> /\ batch \in Seq(Entry)
        /\ ch' = Tail(ch) /\ batch' = Append(batch, Head(ch))
        /\ Len(batch) < BatchSize /\ writer = "waiting"
        /\ UNCHANGED <<handler, main, closed, rows, abandoned, accepted>>
    BY <1>3 DEF Receive, WriterInv, TypeOK
  <2>2. /\ ch' \in Seq(Entry) /\ Len(ch') = Len(ch) - 1 /\ Len(ch) \in Nat \ {0}
        /\ \A i \in 1..Len(ch') : ch'[i] = ch[i + 1]
        /\ Head(ch) = ch[1] /\ Head(ch) \in Entry
        /\ \A x : In(x, ch) <=> x = Head(ch) \/ In(x, ch')
    BY <2>1, InTail
  <2>3. /\ batch' \in Seq(Entry) /\ Len(batch') = Len(batch) + 1
        /\ \A i \in 1..Len(batch) : batch'[i] = batch[i]
        /\ batch'[Len(batch) + 1] = Head(ch)
        /\ \A x : In(x, batch') <=> In(x, batch) \/ x = Head(ch)
    BY <2>1, <2>2, InAppend
  <2>4. \/ /\ Len(batch') >= BatchSize
           /\ writer' = "inserting" /\ pos' = 1 /\ attempt' = 1 /\ last' = FALSE
        \/ Len(batch') < BatchSize /\ UNCHANGED <<writer, pos, attempt, last>>
    BY <1>3, <2>1, <2>3 DEF Receive, StartFlush
  <2>5. TypeOK'
    <3>1. last' \in BOOLEAN
      BY <2>4, Zenon DEF WriterInv, TypeOK
    <3>2. pos' \in Nat /\ (writer' = "inserting" => pos' \in 1..Len(batch'))
      BY <2>1, <2>3, <2>4 DEF WriterInv, TypeOK
    <3>3. Len(ch') <= BufferSize /\ Len(batch') <= BatchSize
      BY <2>1, <2>2, <2>3 DEF WriterInv, TypeOK
    <3> QED BY <2>1, <2>2, <2>3, <2>4, <3>1, <3>2, <3>3 DEF WriterInv, TypeOK
  <2>6. Tracked(ch)' /\ Tracked(batch)' /\ Tracked(rows)' /\ Tracked(accepted)'
    BY <2>1, <2>2, <2>3 DEF WriterInv, TypeOK, Tracked
  <2>7. Conserved'
    BY <2>1, <2>2, <2>3 DEF WriterInv, Conserved, In
  <2> QED BY <2>1, <2>3, <2>4, <2>5, <2>6, <2>7 DEF WriterInv
<1>4. CASE Tick
  <2>1. /\ writer = "waiting" /\ batch # <<>> /\ Len(batch) \in Nat \ {0}
        /\ writer' = "inserting" /\ pos' = 1 /\ attempt' = 1
        /\ UNCHANGED <<handler, main, ch, closed, batch, rows, abandoned, accepted>>
    BY <1>4 DEF Tick, StartFlush, WriterInv, TypeOK
  <2>2. last' \in BOOLEAN
    BY <1>4, Zenon DEF Tick, StartFlush
  <2>3. ~last'
    BY <1>4 DEF Tick, StartFlush
  <2> QED BY <2>1, <2>2, <2>3 DEF WriterInv, TypeOK, Tracked, Conserved, In
<1>5. CASE ChannelDrained
  <2>1. /\ writer = "waiting" /\ closed /\ ch = <<>>
        /\ UNCHANGED <<handler, main, ch, closed, batch, rows, abandoned, accepted>>
    BY <1>5 DEF ChannelDrained
  <2>2. CASE batch = <<>> /\ writer' = "exited" /\ UNCHANGED <<pos, attempt, last>>
    BY <2>1, <2>2 DEF WriterInv, TypeOK, Tracked, Conserved, In
  <2>3. CASE batch # <<>> /\ StartFlush(TRUE)
    <3>1. /\ Len(batch) \in Nat \ {0}
          /\ writer' = "inserting" /\ pos' = 1 /\ attempt' = 1
      BY <2>3 DEF StartFlush, WriterInv, TypeOK
    <3>2. last' \in BOOLEAN
      BY <2>3, Zenon DEF StartFlush
    <3> QED BY <2>1, <3>1, <3>2 DEF WriterInv, TypeOK, Tracked, Conserved, In
  <2> QED BY <1>5, <2>2, <2>3 DEF ChannelDrained
<1>6. CASE InsertSucceeds
  <2>1. /\ writer = "inserting" /\ rows' = Append(rows, batch[pos])
        /\ UNCHANGED <<handler, main, ch, closed, abandoned, accepted>>
        /\ pos \in 1..Len(batch) /\ batch \in Seq(Entry)
    BY <1>6 DEF InsertSucceeds, WriterInv, TypeOK
  <2>2. /\ rows' \in Seq(Entry) /\ Tracked(rows)'
        /\ \A e : In(e, rows) => In(e, rows')
        /\ In(batch[pos], rows')
    BY <2>1, RowsGrow
  <2>3. CASE pos = Len(batch)
    <3>1. /\ batch' = <<>> /\ pos' = 1 /\ UNCHANGED <<attempt, last>>
          /\ writer' = IF last THEN "exited" ELSE "waiting"
      BY <1>6, <2>3 DEF InsertSucceeds, FlushDone
    <3>2. \A i \in 1..Len(batch) : In(batch[i], rows')
      BY <2>1, <2>2, <2>3 DEF WriterInv
    <3>3. \A e : In(e, batch) => In(e, rows')
      BY <3>2 DEF In
    <3>4. TypeOK'
      BY <2>1, <2>2, <3>1 DEF WriterInv, TypeOK
    <3>5. Conserved'
      BY <2>1, <2>2, <3>3 DEF WriterInv, Conserved, In
    <3>6. Tracked(ch)' /\ Tracked(batch)' /\ Tracked(accepted)'
      BY <2>1, <3>1 DEF WriterInv, Tracked
    <3> QED BY <2>1, <2>2, <3>1, <3>4, <3>5, <3>6 DEF WriterInv
  <2>4. CASE pos # Len(batch)
    <3>1. pos' = pos + 1 /\ UNCHANGED <<writer, batch, attempt, last>>
      BY <1>6, <2>4 DEF InsertSucceeds
    <3>2. TypeOK'
      BY <2>1, <2>2, <2>4, <3>1 DEF WriterInv, TypeOK
    <3>3. Conserved'
      BY <2>1, <2>2, <3>1 DEF WriterInv, Conserved, In
    <3>4. Tracked(ch)' /\ Tracked(batch)' /\ Tracked(accepted)'
      BY <2>1, <3>1 DEF WriterInv, Tracked
    <3>5. \A i \in 1..(pos' - 1) : In(batch'[i], rows')
      BY <2>1, <2>2, <3>1 DEF WriterInv
    <3> QED BY <2>1, <2>2, <3>1, <3>2, <3>3, <3>4, <3>5 DEF WriterInv
  <2> QED BY <2>3, <2>4
<1>7. CASE InsertFails
  <2>1. /\ writer = "inserting" /\ rows' \in {rows, Append(rows, batch[pos])}
        /\ UNCHANGED <<handler, main, ch, closed, accepted>>
        /\ pos \in 1..Len(batch) /\ batch \in Seq(Entry)
    BY <1>7 DEF InsertFails, WriterInv, TypeOK
  <2>2. /\ rows' \in Seq(Entry) /\ Tracked(rows)'
        /\ \A e : In(e, rows) => In(e, rows')
    BY <2>1, RowsGrow
  <2>3. CASE writer' = "backoff" /\ UNCHANGED <<batch, pos, attempt, last, abandoned>>
    <3>1. TypeOK'
      BY <2>1, <2>2, <2>3 DEF WriterInv, TypeOK
    <3>2. Conserved'
      BY <2>1, <2>2, <2>3 DEF WriterInv, Conserved, In
    <3>3. Tracked(ch)' /\ Tracked(batch)' /\ Tracked(accepted)'
      BY <2>1, <2>3 DEF WriterInv, Tracked
    <3> QED BY <2>1, <2>2, <2>3, <3>1, <3>2, <3>3 DEF WriterInv
  <2>4. CASE /\ abandoned' = abandoned \cup {batch[i] : i \in 1..Len(batch)}
             /\ FlushDone
    <3>1. /\ batch' = <<>> /\ pos' = 1 /\ UNCHANGED <<attempt, last>>
          /\ writer' = IF last THEN "exited" ELSE "waiting"
      BY <2>4 DEF FlushDone
    <3>2. \A e : In(e, batch) => e \in abandoned'
      BY <2>4 DEF In
    <3>3. abandoned' \subseteq Entry
      BY <2>1, <2>4 DEF WriterInv, TypeOK
    <3>4. TypeOK'
      BY <2>1, <2>2, <3>1, <3>3 DEF WriterInv, TypeOK
    <3>5. Conserved'
      BY <2>1, <2>2, <2>4, <3>2 DEF WriterInv, Conserved, In
    <3>6. Tracked(ch)' /\ Tracked(batch)' /\ Tracked(accepted)'
      BY <2>1, <3>1 DEF WriterInv, Tracked
    <3> QED BY <2>1, <2>2, <3>1, <3>4, <3>5, <3>6 DEF WriterInv
  <2> QED BY <1>7, <2>3, <2>4 DEF InsertFails
<1>8. CASE BackoffEnds
  <2>1. Len(batch) \in Nat \ {0}
    BY <1>8 DEF BackoffEnds, WriterInv, TypeOK
  <2> QED BY <1>8, <2>1 DEF BackoffEnds, WriterInv, TypeOK, Tracked, Conserved, In
<1>9. CASE Signal
  BY <1>9 DEF Signal, WriterInv, TypeOK, Tracked, Conserved, In
<1>10. CASE CloseWriter
  BY <1>10 DEF CloseWriter, WriterInv, TypeOK, Tracked, Conserved, In
<1>11. CASE Exit \/ ExitEarly
  <2>1. /\ main' = "exited"
        /\ UNCHANGED <<handler, ch, closed, writer, batch, pos, attempt, last,
                      rows, abandoned, accepted>>
    BY <1>11 DEF Exit, ExitEarly
  <2> QED BY <2>1 DEF WriterInv, TypeOK, Tracked, Conserved, In
<1>12. CASE UNCHANGED vars
  BY <1>12 DEF vars, WriterInv, TypeOK, Tracked, Conserved, In
<1> QED BY <1>1, <1>2, <1>3, <1>4, <1>5, <1>6, <1>7, <1>8, <1>9, <1>10, <1>11, <1>12
        DEF Next, Writer, Drained, ReturnEarly
-----------------------------------------------------------------------------
\* The variables keep their types: neither buffer exceeds its capacity
\* (writer.go:60, :130, :143).
THEOREM TypeCorrect == Spec => []TypeOK
<1>1. WriterInv => TypeOK
  BY DEF WriterInv
<1> QED BY <1>1, InitInv, NextInv, PTL DEF Spec

\* No entry the channel took is lost: it is queued, in the table, or in a batch
\* given up after two attempts (writer.go:127-197).
THEOREM EntriesAreConserved == Spec => []Conserved
<1>1. WriterInv => Conserved
  BY DEF WriterInv
<1> QED BY <1>1, InitInv, NextInv, PTL DEF Spec

\* Every row comes from an entry the channel took (writer.go:104-111).
THEOREM RowsAreRecorded == Spec => []OnlyRecorded
<1>1. WriterInv => OnlyRecorded
  BY DEF WriterInv, Tracked, OnlyRecorded
<1> QED BY <1>1, InitInv, NextInv, PTL DEF Spec

\* When the goroutine has returned, what it accepted is in the table or was
\* given up (writer.go:114-125, :137-140).
THEOREM ClosingDrains == Spec => []CloseDrains
<1>1. WriterInv => CloseDrains
  <2> SUFFICES ASSUME WriterInv, writer = "exited",
                      NEW i \in 1..Len(accepted)
               PROVE  /\ closed /\ ch = <<>> /\ batch = <<>>
                      /\ In(accepted[i], rows) \/ accepted[i] \in abandoned
    BY DEF WriterInv, CloseDrains
  <2>1. closed /\ ch = <<>> /\ batch = <<>>
    BY DEF WriterInv
  <2>2. handler[accepted[i]] = "recorded" /\ accepted[i] \in Entry
    BY DEF WriterInv, Tracked
  <2> QED BY <2>1, <2>2 DEF WriterInv, Conserved, In
<1> QED BY <1>1, InitInv, NextInv, PTL DEF Spec
-----------------------------------------------------------------------------
(* How often, and in which order, entries get their rows. *)

LEMMA InitOrder == Init => OrderInv
<1> SUFFICES ASSUME Init PROVE OrderInv
  OBVIOUS
<1>1. Len(<<>>) = 0 OBVIOUS
<1>2. ASSUME NEW e \in Entry PROVE Cardinality(Occurrences(e)) = 0
  <2>1. Occurrences(e) = {} BY <1>1 DEF Init, Occurrences
  <2> QED BY <2>1, FS_EmptySet
<1> QED BY <1>1, <1>2 DEF Init, OrderInv, Laid, Settled, InTurn, Counted

\* What a step may do to the sequences: nothing, a send, a receive, an insert.
Sends(e) ==
  /\ handler[e] = "running" /\ ch' = Append(ch, e) /\ accepted' = Append(accepted, e)
  /\ UNCHANGED <<batch, rows, writer, pos, attempt>>
Receives ==
  /\ writer = "waiting" /\ ch # <<>> /\ ch' = Tail(ch) /\ batch' = Append(batch, Head(ch))
  /\ UNCHANGED <<rows, accepted>>
  /\ \/ writer' = "inserting" /\ pos' = 1 /\ attempt' = 1
     \/ UNCHANGED <<writer, pos, attempt>>
Inserts ==
  /\ writer = "inserting" /\ rows' \in {rows, Append(rows, batch[pos])}
  /\ UNCHANGED <<ch, accepted>>
  /\ \/ batch' = <<>> /\ writer' \in {"exited", "waiting"}
     \/ /\ rows' = Append(rows, batch[pos]) /\ pos # Len(batch) /\ pos' = pos + 1
        /\ UNCHANGED <<writer, batch, attempt>>
     \/ attempt = 1 /\ writer' = "backoff" /\ UNCHANGED <<batch, pos, attempt>>
Moves ==
  /\ UNCHANGED <<ch, batch, rows, accepted>>
  /\ \/ UNCHANGED <<writer, pos, attempt>>
     \/ writer = "waiting" /\ writer' \in {"inserting", "exited"} /\ (writer' = "inserting" => pos' = 1 /\ attempt' = 1)
     \/ writer = "backoff" /\ writer' = "inserting" /\ pos' = 1 /\ attempt' = 2

LEMMA Shapes ==
  ASSUME [Next]_vars
  PROVE  (\E e \in Entry : Sends(e)) \/ Receives \/ Inserts \/ Moves
<1> USE DEF flushVars, dbVars
<1>1. ASSUME NEW e \in Entry, Begin(e) PROVE Moves BY <1>1 DEF Begin, Moves
<1>2. ASSUME NEW e \in Entry, Record(e) PROVE Sends(e) \/ Moves
  BY <1>2 DEF Record, Sends, Moves
<1>3. CASE Receive
  BY <1>3 DEF Receive, StartFlush, Receives
<1>4. CASE Tick BY <1>4 DEF Tick, StartFlush, Moves
<1>5. CASE ChannelDrained BY <1>5 DEF ChannelDrained, StartFlush, Moves
<1>6. CASE InsertSucceeds BY <1>6 DEF InsertSucceeds, FlushDone, Inserts
<1>7. CASE InsertFails BY <1>7 DEF InsertFails, FlushDone, Inserts
<1>8. CASE BackoffEnds BY <1>8 DEF BackoffEnds, Moves
<1>9. CASE Signal BY <1>9 DEF Signal, Moves
<1>10. CASE CloseWriter BY <1>10 DEF CloseWriter, Moves
<1>11. CASE Exit \/ ExitEarly BY <1>11 DEF Exit, ExitEarly, Moves
<1>12. CASE UNCHANGED vars BY <1>12 DEF vars, Moves
<1> QED BY <1>1, <1>2, <1>3, <1>4, <1>5, <1>6, <1>7, <1>8, <1>9, <1>10, <1>11, <1>12
        DEF Next, Writer, Drained, ReturnEarly

LEMMA LaidKept ==
  ASSUME WriterInv, Laid, [Next]_vars
  PROVE  Laid'
<1>0. /\ ch \in Seq(Entry) /\ batch \in Seq(Entry) /\ accepted \in Seq(Entry)
      /\ Len(ch) \in Nat /\ Len(batch) \in Nat /\ Len(accepted) \in Nat
  BY DEF WriterInv, TypeOK
<1>1. ASSUME NEW e \in Entry, Sends(e) PROVE Laid'
  <2>1. /\ Len(ch') = Len(ch) + 1 /\ ch'[Len(ch) + 1] = e
        /\ \A i \in 1..Len(ch) : ch'[i] = ch[i]
        /\ Len(accepted') = Len(accepted) + 1 /\ accepted'[Len(accepted) + 1] = e
        /\ \A i \in 1..Len(accepted) : accepted'[i] = accepted[i]
        /\ batch' = batch
    BY <1>0, <1>1, InAppend DEF Sends
  <2>2. \A i \in 1..Len(accepted) : accepted[i] # e
    BY <1>1 DEF Sends, WriterInv, Tracked
  <2>3. Settled' = Settled /\ Settled \in Nat BY <1>0, <2>1 DEF Settled, Laid
  <2>4. \A i \in 1..Len(batch') : batch'[i] = accepted'[Settled' + i]
    <3> SUFFICES ASSUME NEW i \in 1..Len(batch)
                 PROVE  batch[i] = accepted'[Settled + i]
      BY <2>1, <2>3
    <3>1. Settled + i \in 1..Len(accepted) BY <1>0, <2>3 DEF Settled
    <3> QED BY <3>1, <2>1 DEF Laid
  <2>5. \A i \in 1..Len(ch') : ch'[i] = accepted'[Settled' + Len(batch') + i]
    <3> SUFFICES ASSUME NEW i \in 1..Len(ch')
                 PROVE  ch'[i] = accepted'[Settled + Len(batch) + i]
      BY <2>1, <2>3
    <3>1. CASE i \in 1..Len(ch)
      <4>1. ch'[i] = ch[i] /\ ch[i] = accepted[Settled + Len(batch) + i] BY <2>1, <3>1 DEF Laid
      <4>2. Settled + Len(batch) + i \in 1..Len(accepted) BY <1>0, <2>3, <3>1 DEF Settled
      <4> QED BY <2>1, <4>1, <4>2
    <3>2. CASE i = Len(ch) + 1 BY <1>0, <2>1, <3>2 DEF Settled
    <3> QED BY <3>1, <3>2, <1>0, <2>1
  <2>6. \A i, j \in 1..Len(accepted') : accepted'[i] = accepted'[j] => i = j
    <3>1. PICK n \in Nat : n = Len(accepted) BY <1>0
    <3>2. \A i, j \in 1..n : accepted[i] = accepted[j] => i = j BY <3>1 DEF Laid
    <3>3. Len(accepted') = n + 1 /\ accepted'[n + 1] = e BY <2>1, <3>1
    <3>4. \A i \in 1..n : accepted'[i] = accepted[i] /\ accepted[i] # e BY <2>1, <2>2, <3>1
    <3>5. \A i \in 1..n + 1 : i \in 1..n \/ i = n + 1 OBVIOUS
    <3> QED BY ONLY <3>2, <3>3, <3>4, <3>5
  <2> QED BY <2>3, <2>4, <2>5, <2>6 DEF Laid
<1>2. CASE Receives
  <2>1. /\ Len(ch') = Len(ch) - 1 /\ Len(ch) \in Nat \ {0} /\ Head(ch) = ch[1] /\ Head(ch) \in Entry
        /\ \A i \in 1..Len(ch') : ch'[i] = ch[i + 1]
        /\ accepted' = accepted
    BY <1>0, <1>2, InTail DEF Receives
  <2>2. /\ Len(batch') = Len(batch) + 1 /\ batch'[Len(batch) + 1] = ch[1]
        /\ \A i \in 1..Len(batch) : batch'[i] = batch[i]
    BY <1>0, <1>2, <2>1, InAppend DEF Receives
  <2>3. Settled' = Settled /\ Settled \in Nat BY <1>0, <2>1, <2>2 DEF Settled, Laid
  <2>4. \A i \in 1..Len(batch') : batch'[i] = accepted'[Settled' + i]
    <3> SUFFICES ASSUME NEW i \in 1..Len(batch')
                 PROVE  batch'[i] = accepted[Settled + i]
      BY <2>1, <2>3
    <3>1. CASE i \in 1..Len(batch) BY <2>2, <3>1 DEF Laid
    <3>2. CASE i = Len(batch) + 1
      <4>1. ch[1] = accepted[Settled + Len(batch) + 1] BY <2>1 DEF Laid
      <4>2. Settled + i = Settled + Len(batch) + 1 BY <3>2, <2>3, <1>0
      <4> QED BY <4>1, <4>2, <2>2, <3>2
    <3> QED BY <3>1, <3>2, <1>0, <2>2
  <2>5. \A i \in 1..Len(ch') : ch'[i] = accepted'[Settled' + Len(batch') + i]
    <3> SUFFICES ASSUME NEW i \in 1..Len(ch')
                 PROVE  ch'[i] = accepted[Settled + Len(batch') + i]
      BY <2>1, <2>3
    <3>1. i + 1 \in 1..Len(ch) /\ ch'[i] = ch[i + 1] BY <2>1
    <3>2. ch[i + 1] = accepted[Settled + Len(batch) + (i + 1)] BY <3>1 DEF Laid
    <3>3. Settled + Len(batch') + i = Settled + Len(batch) + (i + 1) BY <1>0, <2>2, <2>3
    <3> QED BY <3>1, <3>2, <3>3
  <2> QED BY <2>1, <2>3, <2>4, <2>5 DEF Laid
<1>3. CASE ch' = ch /\ accepted' = accepted /\ batch' = batch
  BY <1>3 DEF Laid, Settled
<1>4. CASE ch' = ch /\ accepted' = accepted /\ batch' = <<>>
  <2>1. Len(batch') = 0 BY <1>4
  <2>2. Settled' = Settled + Len(batch) /\ Settled \in Nat /\ Settled' + 0 = Settled'
    BY <1>0, <1>4, <2>1 DEF Settled, Laid
  <2> QED BY <1>0, <1>4, <2>1, <2>2 DEF Laid
<1> QED BY <1>1, <1>2, <1>3, <1>4, Shapes DEF Inserts, Moves

\* Where the batch and the channel lie among the entries taken.
LEMMA LaidOut ==
  ASSUME WriterInv, Laid
  PROVE  /\ \A i \in 1..Len(batch) :
              Settled + i \in 1..Len(accepted) /\ batch[i] = accepted[Settled + i]
         /\ \A i \in 1..Len(ch) : Settled + Len(batch) + i \in 1..Len(accepted)
                                  /\ ch[i] = accepted[Settled + Len(batch) + i]
         /\ Settled \in Nat /\ Len(batch) \in Nat /\ Len(ch) \in Nat /\ Len(accepted) \in Nat
         /\ \A i, j \in 1..Len(batch) : batch[i] = batch[j] => i = j
         /\ \A i \in 1..Len(batch), j \in 1..Len(ch) : batch[i] # ch[j]
<1>1. Len(batch) \in Nat /\ Len(ch) \in Nat /\ Len(accepted) \in Nat
  BY DEF WriterInv, TypeOK
<1>2. Settled \in Nat /\ Settled + Len(batch) + Len(ch) = Len(accepted)
  BY <1>1 DEF Laid, Settled
<1>3. \A i \in 1..Len(batch) :
        Settled + i \in 1..Len(accepted) /\ batch[i] = accepted[Settled + i]
  BY <1>1, <1>2 DEF Laid
<1>4. \A i \in 1..Len(ch) : Settled + Len(batch) + i \in 1..Len(accepted)
                            /\ ch[i] = accepted[Settled + Len(batch) + i]
  BY <1>1, <1>2 DEF Laid
<1>5. \A i, j \in 1..Len(accepted) : accepted[i] = accepted[j] => i = j
  BY DEF Laid
<1>6. ASSUME NEW i \in 1..Len(batch), NEW j \in 1..Len(batch), batch[i] = batch[j] PROVE i = j
  <2>1. Settled + i = Settled + j BY <1>3, <1>5, <1>6
  <2> QED BY <2>1, <1>2
<1>7. ASSUME NEW i \in 1..Len(batch), NEW j \in 1..Len(ch), batch[i] = ch[j] PROVE FALSE
  <2>1. Settled + i = Settled + Len(batch) + j BY <1>3, <1>4, <1>5, <1>7
  <2> QED BY <2>1, <1>1, <1>2
<1> QED BY <1>1, <1>2, <1>3, <1>4, <1>6, <1>7

\* A row for batch[pos] comes in its turn: what the channel took later has none.
LEMMA TurnOfRow ==
  ASSUME WriterInv, Laid, InTurn, writer = "inserting", rows' = Append(rows, batch[pos]),
         accepted' = accepted
  PROVE  \A i, j \in 1..Len(accepted), k \in 1..Len(rows') :
           i < j /\ rows'[k] = accepted[j] /\ In(accepted[i], rows') =>
             \E h \in 1..Len(rows') : h < k /\ rows'[h] = accepted[i]
<1>1. /\ pos \in 1..Len(batch) /\ batch[pos] \in Entry
      /\ rows \in Seq(Entry) /\ Len(rows) \in Nat
  BY DEF WriterInv, TypeOK
<1>2. /\ Len(rows') = Len(rows) + 1 /\ rows'[Len(rows) + 1] = batch[pos]
      /\ \A i \in 1..Len(rows) : rows'[i] = rows[i]
      /\ \A e : In(e, rows') <=> In(e, rows) \/ e = batch[pos]
  BY <1>1, InAppend
<1>3. Settled + pos \in 1..Len(accepted) /\ batch[pos] = accepted[Settled + pos]
  BY <1>1, LaidOut
<1>4. SUFFICES ASSUME NEW i \in 1..Len(accepted), NEW j \in 1..Len(accepted), i < j,
                      NEW k \in 1..Len(rows'), rows'[k] = accepted[j], In(accepted[i], rows')
               PROVE  \E h \in 1..Len(rows') : h < k /\ rows'[h] = accepted[i]
  OBVIOUS
<1>5. CASE In(accepted[i], rows) /\ k \in 1..Len(rows)
  <2>1. \E h \in 1..Len(rows) : h < k /\ rows[h] = accepted[i]
    BY <1>2, <1>4, <1>5 DEF InTurn
  <2> QED BY <2>1, <1>1, <1>2
<1>6. CASE In(accepted[i], rows) /\ k = Len(rows) + 1
  <2>1. PICK h \in 1..Len(rows) : rows[h] = accepted[i] BY <1>6 DEF In
  <2> QED BY <2>1, <1>1, <1>2, <1>6
<1>7. CASE ~In(accepted[i], rows)
  <2>1. accepted[i] = batch[pos] BY <1>2, <1>4, <1>7
  <2>2. i = Settled + pos BY <2>1, <1>3 DEF Laid
  <2>3. k \in 1..Len(rows) /\ In(accepted[j], rows)
    <3>1. k # Len(rows) + 1
      <4>1. SUFFICES ASSUME k = Len(rows) + 1 PROVE FALSE OBVIOUS
      <4>2. accepted[j] = accepted[i] BY <4>1, <2>1, <1>2, <1>4
      <4>3. j = i BY <4>2 DEF Laid
      <4> QED BY <4>3, <1>4
    <3>2. k \in 1..Len(rows) BY <3>1, <1>1, <1>2
    <3> QED BY <3>2, <1>2, <1>4 DEF In
  <2>4. CASE j <= Settled + Len(batch)
    <3> DEFINE n == j - Settled
    <3>1. n \in 1..Len(batch) /\ Settled + n = j /\ pos < n
      BY <2>2, <2>4, <1>1, <1>4, LaidOut
    <3>2. batch[n] = accepted[j] BY <3>1, LaidOut
    <3>3. In(batch[pos], rows) BY <3>1, <3>2, <2>3, <1>1 DEF InTurn
    <3> QED BY <3>3, <2>1, <1>7
  <2>5. CASE j > Settled + Len(batch)
    <3> DEFINE n == j - Settled - Len(batch)
    <3>1. Settled + Len(batch) + Len(ch) = Len(accepted)
      BY LaidOut DEF Settled
    <3>2. n \in 1..Len(ch) /\ Settled + Len(batch) + n = j
      BY <2>5, <3>1, <1>4, LaidOut
    <3>3. ch[n] = accepted[j] BY <3>2, LaidOut
    <3> QED BY <3>2, <3>3, <2>3 DEF InTurn
  <2> QED BY <2>4, <2>5, LaidOut
<1> QED BY <1>1, <1>2, <1>5, <1>6, <1>7

LEMMA InTurnKept ==
  ASSUME WriterInv, Laid, InTurn, [Next]_vars
  PROVE  InTurn'
<1>0. /\ ch \in Seq(Entry) /\ batch \in Seq(Entry) /\ accepted \in Seq(Entry) /\ rows \in Seq(Entry)
      /\ Len(ch) \in Nat /\ Len(batch) \in Nat /\ Len(accepted) \in Nat /\ Len(rows) \in Nat
  BY DEF WriterInv, TypeOK
<1>1. ASSUME NEW e \in Entry, Sends(e) PROVE InTurn'
  <2>1. /\ Len(ch') = Len(ch) + 1 /\ ch'[Len(ch) + 1] = e
        /\ \A i \in 1..Len(ch) : ch'[i] = ch[i]
        /\ Len(accepted') = Len(accepted) + 1 /\ accepted'[Len(accepted) + 1] = e
        /\ \A i \in 1..Len(accepted) : accepted'[i] = accepted[i]
        /\ batch' = batch /\ rows' = rows /\ writer' = writer
    BY <1>0, <1>1, InAppend DEF Sends
  <2>2. \A k \in 1..Len(rows) : rows[k] # e
    BY <1>1 DEF Sends, WriterInv, Tracked
  <2>3. \A i \in 1..Len(ch') : ~In(ch'[i], rows')
    <3> SUFFICES ASSUME NEW i \in 1..Len(ch') PROVE ~In(ch'[i], rows)
      BY <2>1 DEF In
    <3>1. CASE i \in 1..Len(ch) BY <3>1, <2>1 DEF InTurn
    <3>2. CASE i = Len(ch) + 1 BY <3>2, <2>1, <2>2 DEF In
    <3> QED BY <3>1, <3>2, <1>0, <2>1
  <2>4. ASSUME NEW i \in 1..Len(accepted'), NEW j \in 1..Len(accepted'), NEW k \in 1..Len(rows),
               i < j, rows[k] = accepted'[j], In(accepted'[i], rows)
        PROVE  \E h \in 1..Len(rows) : h < k /\ rows[h] = accepted'[i]
    <3>1. j # Len(accepted) + 1 BY <2>1, <2>2, <2>4
    <3>2. i \in 1..Len(accepted) /\ j \in 1..Len(accepted)
      <4>1. PICK n \in Nat : n = Len(accepted) BY <1>0
      <4>2. i \in 1..n + 1 /\ j \in 1..n + 1 /\ j # n + 1 BY <4>1, <3>1, <2>1
      <4>3. i < j BY <2>4
      <4>4. i \in 1..n /\ j \in 1..n BY ONLY <4>2, <4>3, n \in Nat
      <4> QED BY <4>1, <4>4
    <3>3. accepted'[i] = accepted[i] /\ accepted'[j] = accepted[j] BY <3>2, <2>1
    <3>4. \E h \in 1..Len(rows) : h < k /\ rows[h] = accepted[i]
      BY <3>2, <3>3, <2>4 DEF InTurn
    <3> QED BY <3>3, <3>4
  <2> QED BY <2>1, <2>3, <2>4 DEF InTurn, In
<1>2. CASE Receives
  <2>1. /\ Len(ch') = Len(ch) - 1 /\ Len(ch) \in Nat \ {0} /\ Head(ch) = ch[1] /\ Head(ch) \in Entry
        /\ \A i \in 1..Len(ch') : ch'[i] = ch[i + 1]
        /\ accepted' = accepted /\ rows' = rows /\ writer = "waiting"
    BY <1>0, <1>2, InTail DEF Receives
  <2>2. /\ Len(batch') = Len(batch) + 1 /\ batch'[Len(batch) + 1] = ch[1]
        /\ \A i \in 1..Len(batch) : batch'[i] = batch[i]
    BY <1>0, <1>2, <2>1, InAppend DEF Receives
  <2>3. \A i \in 1..Len(ch') : ~In(ch'[i], rows)
    <3>1. \A i \in 1..Len(ch') : i + 1 \in 1..Len(ch) BY <2>1
    <3> QED BY <3>1, <2>1 DEF InTurn
  <2>4. \A i \in 1..Len(batch') : ~In(batch'[i], rows)
    <3> SUFFICES ASSUME NEW i \in 1..Len(batch') PROVE ~In(batch'[i], rows)
      OBVIOUS
    <3>1. CASE i \in 1..Len(batch) BY <3>1, <2>1, <2>2 DEF InTurn
    <3>2. CASE i = Len(batch) + 1 BY <3>2, <2>1, <2>2 DEF InTurn
    <3> QED BY <3>1, <3>2, <1>0, <2>2
  <2> QED BY <2>1, <2>3, <2>4 DEF InTurn, In
<1>3. CASE Inserts
  <2>1. /\ pos \in 1..Len(batch) /\ batch[pos] \in Entry /\ ch' = ch /\ accepted' = accepted
        /\ writer = "inserting" /\ \A i \in 1..pos - 1 : In(batch[i], rows)
    BY <1>3 DEF Inserts, WriterInv, TypeOK
  <2>2. \A i, j \in 1..Len(accepted'), k \in 1..Len(rows') :
          i < j /\ rows'[k] = accepted'[j] /\ In(accepted'[i], rows') =>
            \E h \in 1..Len(rows') : h < k /\ rows'[h] = accepted'[i]
    <3>1. CASE rows' = rows BY <3>1, <2>1 DEF InTurn
    <3>2. CASE rows' = Append(rows, batch[pos]) BY <3>2, <2>1, TurnOfRow
    <3> QED BY <3>1, <3>2, <1>3 DEF Inserts
  <2>3. /\ \A e : In(e, rows') => In(e, rows) \/ e = batch[pos]
        /\ \A e : In(e, rows) => In(e, rows')
    <3>1. CASE rows' = rows BY <3>1
    <3>2. CASE rows' = Append(rows, batch[pos]) BY <3>2, <1>0, <2>1, InAppend
    <3> QED BY <3>1, <3>2, <1>3 DEF Inserts
  <2>4. \A i \in 1..Len(ch') : ~In(ch'[i], rows')
    BY <2>1, <2>3, LaidOut DEF InTurn
  <2>5. CASE batch' = <<>>
    <3>1. Len(batch') = 0 BY <2>5
    <3> QED BY <3>1, <2>2, <2>4 DEF InTurn
  <2>6. CASE batch' = batch /\ writer' # "waiting"
    <3>1. ASSUME NEW i \in 1..Len(batch), NEW j \in 1..Len(batch), i < j, In(batch[j], rows')
          PROVE  In(batch[i], rows)
      <4>1. CASE In(batch[j], rows) BY <4>1, <3>1 DEF InTurn
      <4>2. CASE batch[j] = batch[pos]
        <5>1. j = pos BY <4>2, <2>1, LaidOut
        <5>2. i \in 1..pos - 1 BY <5>1, <3>1, <2>1
        <5> QED BY <5>2, <2>1
      <4> QED BY <4>1, <4>2, <3>1, <2>3
    <3>2. \A i, j \in 1..Len(batch') : i < j /\ In(batch'[j], rows') => In(batch'[i], rows')
      BY <3>1, <2>3, <2>6
    <3> QED BY <2>2, <2>4, <2>6, <3>2 DEF InTurn
  <2> QED BY <2>5, <2>6, <1>3 DEF Inserts
<1>4. CASE Moves
  BY <1>4 DEF Moves, InTurn, In
<1> QED BY <1>1, <1>2, <1>3, <1>4, Shapes

\* A row more of one entry.
RowsOf(e, s) == {i \in 1..Len(s) : s[i] = e}

LEMMA RowCounted ==
  ASSUME NEW s \in Seq(Entry), NEW x \in Entry
  PROVE  /\ Cardinality(RowsOf(x, Append(s, x))) = Cardinality(RowsOf(x, s)) + 1
         /\ \A e : e # x => RowsOf(e, Append(s, x)) = RowsOf(e, s)
         /\ \A e : Cardinality(RowsOf(e, s)) \in Nat
<1>1. /\ Len(s) \in Nat /\ Len(Append(s, x)) = Len(s) + 1 /\ Append(s, x)[Len(s) + 1] = x
      /\ \A i \in 1..Len(s) : Append(s, x)[i] = s[i]
  BY InAppend
<1>2. RowsOf(x, Append(s, x)) = RowsOf(x, s) \cup {Len(s) + 1} BY <1>1 DEF RowsOf
<1>3. Len(s) + 1 \notin RowsOf(x, s) BY <1>1 DEF RowsOf
<1>4. \A e : IsFiniteSet(RowsOf(e, s))
  <2>1. IsFiniteSet(1..Len(s)) BY <1>1, FS_Interval
  <2> QED BY <2>1, FS_Subset DEF RowsOf
<1>5. Cardinality(RowsOf(x, Append(s, x))) = Cardinality(RowsOf(x, s)) + 1
  BY <1>2, <1>3, <1>4, FS_AddElement
<1>6. ASSUME NEW e, e # x PROVE RowsOf(e, Append(s, x)) = RowsOf(e, s)
  BY <1>1, <1>6 DEF RowsOf
<1> QED BY <1>4, <1>5, <1>6, FS_CardinalityType

LEMMA NoRows ==
  ASSUME NEW s, NEW e, ~In(e, s)
  PROVE  Cardinality(RowsOf(e, s)) = 0
<1>1. RowsOf(e, s) = {} BY DEF RowsOf, In
<1> QED BY <1>1, FS_EmptySet

LEMMA CountedKept ==
  ASSUME WriterInv, Laid, InTurn, Counted, [Next]_vars
  PROVE  Counted'
<1>0. /\ ch \in Seq(Entry) /\ batch \in Seq(Entry) /\ rows \in Seq(Entry) /\ attempt \in {1, 2}
      /\ Len(batch) \in Nat /\ writer \in {"waiting", "inserting", "backoff", "exited"}
  BY DEF WriterInv, TypeOK
<1>1. ASSUME NEW e \in Entry, Sends(e) PROVE Counted'
  BY <1>1 DEF Sends, Counted, Tries, Occurrences
<1>2. CASE Receives
  <2>1. CASE UNCHANGED <<rows, writer>>
    BY <1>2, <2>1 DEF Receives, Counted, Occurrences
  <2>2. CASE writer' = "inserting" /\ pos' = 1 /\ attempt' = 1
    <3>1. ch[1] = Head(ch) /\ Head(ch) \in Entry /\ 1 \in 1..Len(ch) BY <1>0, <1>2, InTail DEF Receives
    <3>2. /\ Len(batch') = Len(batch) + 1 /\ batch'[Len(batch) + 1] = ch[1]
          /\ \A i \in 1..Len(batch) : batch'[i] = batch[i]
      BY <1>0, <1>2, <3>1, InAppend DEF Receives
    <3>3. \A i \in 1..Len(batch') : Cardinality(RowsOf(batch'[i], rows)) = 0
      <4> SUFFICES ASSUME NEW i \in 1..Len(batch') PROVE ~In(batch'[i], rows)
        BY NoRows
      <4>1. CASE i \in 1..Len(batch) BY <4>1, <1>2, <3>2 DEF InTurn, Receives
      <4>2. CASE i = Len(batch) + 1 BY <4>2, <3>1, <3>2 DEF InTurn
      <4> QED BY <4>1, <4>2, <1>0, <3>2
    <3>4. \A i \in 1..Len(batch') : Tries(i)' = 0 BY <2>2 DEF Tries
    <3>5. rows' = rows BY <1>2 DEF Receives
    <3> QED BY <2>2, <3>3, <3>4, <3>5 DEF Counted, Occurrences, RowsOf
  <2> QED BY <2>1, <2>2, <1>2 DEF Receives
<1>3. CASE Inserts
  <2>1. /\ pos \in 1..Len(batch) /\ batch[pos] \in Entry /\ writer = "inserting"
        /\ \A i \in 1..Len(batch) : batch[i] \in Entry
    BY <1>3 DEF Inserts, WriterInv, TypeOK
  <2>2. PICK b \in Entry : b = batch[pos] BY <2>1
  <2>3. \A i \in 1..Len(batch) : Cardinality(RowsOf(batch[i], rows)) <= IF i < pos THEN attempt ELSE attempt - 1
    BY <2>1 DEF Counted, Tries, Occurrences, RowsOf
  <2>4. \A e \in Entry : Cardinality(RowsOf(e, rows)) <= 2 /\ Cardinality(RowsOf(e, rows)) \in Nat
    BY <1>0, RowCounted DEF Counted, Occurrences, RowsOf
  <2>5. /\ \A e : e # b => Cardinality(RowsOf(e, rows')) = Cardinality(RowsOf(e, rows))
        /\ Cardinality(RowsOf(b, rows')) <= attempt
    <3>1. Cardinality(RowsOf(b, rows)) <= attempt - 1 BY <1>0, <2>1, <2>2, <2>3
    <3>2. rows' \in {rows, Append(rows, b)} BY <1>3, <2>2 DEF Inserts
    <3>3. CASE rows' = rows
      <4>1. Cardinality(RowsOf(b, rows)) \in Nat BY <2>4
      <4> QED BY <4>1, <3>1, <3>3, <1>0
    <3>4. CASE rows' = Append(rows, b)
      <4>1. Cardinality(RowsOf(b, rows)) \in Nat BY <2>4
      <4>2. Cardinality(RowsOf(b, rows')) = Cardinality(RowsOf(b, rows)) + 1
        BY <3>4, <1>0, RowCounted
      <4>3. \A e : e # b => RowsOf(e, rows') = RowsOf(e, rows) BY <3>4, <1>0, RowCounted
      <4> QED BY <4>1, <4>2, <4>3, <3>1, <1>0
    <3> QED BY <3>2, <3>3, <3>4
  <2>6. \A e \in Entry : Cardinality(RowsOf(e, rows')) <= 2
    <3>1. Cardinality(RowsOf(b, rows')) <= 2
      <4>1. Cardinality(RowsOf(b, rows')) \in Nat
        <5>1. CASE rows' = rows BY <5>1, <2>4
        <5>2. CASE rows' = Append(rows, b) BY <5>2, <1>0, <2>4, RowCounted
        <5> QED BY <5>1, <5>2, <1>3, <2>2 DEF Inserts
      <4> QED BY <4>1, <1>0, <2>5
    <3> QED BY <3>1, <2>4, <2>5
  <2>7. \A i \in 1..Len(batch) : i # pos => batch[i] # b
    BY <2>1, <2>2, LaidOut
  <2>8. CASE batch' = <<>> /\ writer' \in {"exited", "waiting"}
    BY <2>6, <2>8 DEF Counted, Occurrences, RowsOf
  <2>9. CASE writer' = "inserting" /\ pos' = pos + 1 /\ UNCHANGED <<batch, attempt>>
    <3>1. \A i \in 1..Len(batch) : Cardinality(RowsOf(batch[i], rows')) <= IF i < pos + 1 THEN attempt ELSE attempt - 1
      <4> SUFFICES ASSUME NEW i \in 1..Len(batch)
                   PROVE  Cardinality(RowsOf(batch[i], rows')) <= IF i < pos + 1 THEN attempt ELSE attempt - 1
        OBVIOUS
      <4>1. CASE i = pos BY <4>1, <1>0, <2>1, <2>2, <2>5
      <4>2. CASE i # pos BY <4>2, <1>0, <2>1, <2>3, <2>5, <2>7
      <4> QED BY <4>1, <4>2
    <3>2. \A i \in 1..Len(batch') : Cardinality(RowsOf(batch'[i], rows')) <= Tries(i)'
      BY <2>9, <3>1 DEF Tries
    <3> QED BY <2>6, <2>9, <3>2 DEF Counted, Occurrences, RowsOf
  <2>10. CASE attempt = 1 /\ writer' = "backoff" /\ UNCHANGED <<batch, pos, attempt>>
    <3>1. \A i \in 1..Len(batch) : Cardinality(RowsOf(batch[i], rows')) <= attempt
      <4> SUFFICES ASSUME NEW i \in 1..Len(batch)
                   PROVE  Cardinality(RowsOf(batch[i], rows')) <= attempt
        OBVIOUS
      <4>1. CASE i = pos BY <4>1, <2>2, <2>5
      <4>2. Cardinality(RowsOf(batch[i], rows)) \in Nat BY <2>1, <2>4
      <4>3. CASE i # pos BY <4>2, <4>3, <1>0, <2>1, <2>3, <2>5, <2>7
      <4> QED BY <4>1, <4>3
    <3>2. \A i \in 1..Len(batch') : Cardinality(RowsOf(batch'[i], rows')) <= Tries(i)'
      BY <2>10, <3>1 DEF Tries
    <3> QED BY <2>6, <2>10, <3>2 DEF Counted, Occurrences, RowsOf
  <2> QED BY <1>3, <2>1, <2>8, <2>9, <2>10 DEF Inserts
<1>4. CASE Moves
  <2>1. ASSUME UNCHANGED <<batch, rows>>
        PROVE  \A e : Occurrences(e)' = Occurrences(e)
    BY <2>1 DEF Occurrences
  <2>2. CASE UNCHANGED <<writer, pos, attempt>>
    BY <1>4, <2>2 DEF Moves, Counted, Occurrences, Tries
  <2>3. CASE writer = "waiting" /\ writer' = "exited"
    BY <1>4, <2>3 DEF Moves, Counted, Occurrences
  <2>4. CASE writer = "waiting" /\ writer' = "inserting" /\ pos' = 1 /\ attempt' = 1
    <3>1. \A i \in 1..Len(batch) : Cardinality(RowsOf(batch[i], rows)) = 0
      BY <2>4, NoRows DEF InTurn
    <3>2. \A i \in 1..Len(batch') : Tries(i)' = 0 BY <2>4 DEF Tries
    <3> QED BY <1>4, <2>4, <3>1, <3>2 DEF Moves, Counted, Occurrences, RowsOf
  <2>5. CASE writer = "backoff" /\ writer' = "inserting" /\ pos' = 1 /\ attempt' = 2
    <3>1. \A i \in 1..Len(batch) : Tries(i) = 1 BY <2>5 DEF Tries, Counted
    <3>2. \A i \in 1..Len(batch') : Tries(i)' = 1 BY <2>5 DEF Tries
    <3> QED BY <1>4, <2>5, <3>1, <3>2 DEF Moves, Counted, Occurrences
  <2> QED BY <1>4, <2>2, <2>3, <2>4, <2>5 DEF Moves
<1> QED BY <1>1, <1>2, <1>3, <1>4, Shapes

LEMMA SpecOrder == Spec => [](WriterInv /\ OrderInv)
<1>1. WriterInv /\ OrderInv /\ [Next]_vars => OrderInv'
  BY LaidKept, InTurnKept, CountedKept DEF OrderInv
<1> QED BY <1>1, InitInv, InitOrder, NextInv, PTL DEF Spec

\* The retry gives an entry a second row at most (writer.go:163-181).
THEOREM RetryBounded == Spec => []AtMostTwice
<1>1. OrderInv => AtMostTwice
  BY DEF OrderInv, Counted, AtMostTwice
<1> QED BY <1>1, SpecOrder, PTL

\* Which row of an entry is its first.
LEMMA FirstRowFirst ==
  ASSUME NEW e, In(e, rows), rows \in Seq(Entry)
  PROVE  FirstRow(e) \in Occurrences(e) /\ \A j \in Occurrences(e) : FirstRow(e) <= j
<1> DEFINE R == OpToRel(<, Nat)
<1>1. Occurrences(e) \subseteq Nat /\ Occurrences(e) # {} BY DEF Occurrences, In
<1>2. IsWellFoundedOn(R, Nat) BY NatLessThanWellFounded
<1>3. PICK x \in Occurrences(e) : \A y \in Occurrences(e) : ~(<<y, x>> \in R)
  <2> HIDE DEF R
  <2> QED BY <1>1, <1>2, WFMin
<1>4. \A y \in Occurrences(e) : ~(y < x) BY <1>1, <1>3 DEF OpToRel
<1>5. \A y \in Occurrences(e) : x <= y BY <1>1, <1>4
<1> QED BY <1>5 DEF FirstRow

\* Entries get their first rows in the order the channel took them
\* (writer.go:128-197).
THEOREM AcceptedInOrder == Spec => []AcceptOrder
<1>1. WriterInv /\ OrderInv => AcceptOrder
  <2> SUFFICES ASSUME WriterInv, OrderInv,
                      NEW i \in 1..Len(accepted), NEW j \in 1..Len(accepted),
                      i < j, In(accepted[i], rows), In(accepted[j], rows)
               PROVE  FirstRow(accepted[i]) < FirstRow(accepted[j])
    BY DEF AcceptOrder
  <2>1. rows \in Seq(Entry) BY DEF WriterInv, TypeOK
  <2>2. FirstRow(accepted[j]) \in Occurrences(accepted[j])
    BY <2>1, FirstRowFirst
  <2>3. PICK h \in 1..Len(rows) : h < FirstRow(accepted[j]) /\ rows[h] = accepted[i]
    BY <2>2 DEF OrderInv, InTurn, Occurrences
  <2>4. FirstRow(accepted[i]) \in 1..Len(rows) /\ FirstRow(accepted[i]) <= h
    BY <2>1, <2>3, FirstRowFirst DEF Occurrences
  <2> QED BY <2>2, <2>3, <2>4 DEF Occurrences
<1> QED BY <1>1, SpecOrder, PTL
=============================================================================
