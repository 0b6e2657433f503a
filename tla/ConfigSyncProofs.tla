-------------------------- MODULE ConfigSyncProofs --------------------------
(***************************************************************************)
(* Proofs about ConfigSync for any set of configs and any bounds: types,   *)
(* the freshness of what a 304 confirms, the usability of the disk         *)
(* snapshot, and that the data plane implements ConfigFeed.                *)
(***************************************************************************)
EXTENDS ConfigSync, TLAPS

USE DEF Latest

\* A published revision never changes.
LEMMA HistoryAppends ==
  ASSUME history \in Seq(Content), NEW c \in Content,
         history' = Append(history, c)
  PROVE  /\ history' \in Seq(Content)
         /\ Len(history') = Len(history) + 1
         /\ \A r \in 1..Len(history) : history'[r] = history[r]
  OBVIOUS

LEMMA InitInv == Init => SyncInv
<1> SUFFICES ASSUME Init PROVE SyncInv
  OBVIOUS
<1>1. history \in Seq(Content) /\ Len(history) = 1
  <2>1. PICK c \in Content : history = <<c>>
    BY DEF Init
  <2> QED BY <2>1
<1>2. TypeOK
  BY <1>1, BoundAssumption DEF Init, TypeOK, Reply, NoReply
<1> QED BY <1>2 DEF Init, SyncInv, FreshAsLastPoll, SnapshotUsable, NoReply

LEMMA NextInv == SyncInv /\ [Next]_vars => SyncInv'
<1> SUFFICES ASSUME SyncInv, [Next]_vars PROVE SyncInv'
  OBVIOUS
<1> USE ContentAssumption, ModeAssumption, BoundAssumption
    DEF SyncInv, TypeOK, FreshAsLastPoll, SnapshotUsable, cpVars, dpVars, Fault, Reply, NoReply
<1>1. ASSUME NEW c \in Content, Edit(c)
      PROVE  SyncInv'
  <2>1. /\ history' \in Seq(Content)
        /\ Len(history') = Len(history) + 1
        /\ \A r \in 1..Len(history) : history'[r] = history[r]
    BY <1>1, HistoryAppends DEF Edit
  <2> QED BY <1>1, <2>1 DEF Edit
<1>2. CASE CPStops
  <2>1. /\ UNCHANGED <<history, proc, poll, reply, store, etag, disk, seen>>
        /\ faults' = faults + 1 /\ faults < MaxFaults /\ cpUp' = FALSE
    BY <1>2 DEF CPStops
  <2>2. cpUp' \in BOOLEAN
    BY <1>2, Zenon DEF CPStops
  <2> QED BY <2>1, <2>2
<1>3. CASE CPStarts
  BY <1>3 DEF CPStarts
<1>4. CASE Serve
  BY <1>4 DEF Serve
<1>5. CASE FetchFails
  BY <1>5 DEF FetchFails
<1>6. CASE Send
  BY <1>6 DEF Send
<1>7. CASE NotModified
  BY <1>7 DEF NotModified, FetchDone
<1>8. CASE Apply
  BY <1>8 DEF Apply, FetchDone
<1>9. CASE ApplyFails
  BY <1>9 DEF ApplyFails
<1>10. CASE FetchError
  BY <1>10 DEF FetchError
<1>11. CASE Save
  BY <1>11 DEF Save, FetchDone
<1>12. CASE SaveFails
  BY <1>12 DEF SaveFails, FetchDone
<1>13. CASE Retry
  BY <1>13 DEF Retry
<1>14. CASE Fallback
  BY <1>14 DEF Fallback
<1>15. CASE Crash
  BY <1>15 DEF Crash
<1>16. CASE Restart
  BY <1>16 DEF Restart
<1>17. CASE UNCHANGED vars
  BY <1>17 DEF vars
<1> QED BY <1>1, <1>2, <1>3, <1>4, <1>5, <1>6, <1>7, <1>8, <1>9, <1>10, <1>11,
           <1>12, <1>13, <1>14, <1>15, <1>16, <1>17 DEF Next, Poller

\* The variables keep their types (poller.go, store.go, snapshot.go).
THEOREM TypeCorrect == Spec => []TypeOK
<1>1. SyncInv => TypeOK
  BY DEF SyncInv
<1> QED BY <1>1, InitInv, NextInv, PTL DEF Spec

\* A 304 confirms exactly what the store serves (poller.go:64, :75, :87).
THEOREM PollsAreFresh == Spec => []FreshAsLastPoll
<1>1. SyncInv => FreshAsLastPoll
  BY DEF SyncInv
<1> QED BY <1>1, InitInv, NextInv, PTL DEF Spec

\* The disk never holds a config that could not be applied (poller.go:83-94).
THEOREM SnapshotsAreUsable == Spec => []SnapshotUsable
<1>1. SyncInv => SnapshotUsable
  BY DEF SyncInv
<1> QED BY <1>1, InitInv, NextInv, PTL DEF Spec
-----------------------------------------------------------------------------
\* The data plane serves published revisions and, while it runs, never goes
\* back: fetching, falling back to disk, crashing and restarting implement
\* ConfigFeed.
THEOREM SyncImplementsFeed == Spec => ImplementsFeed
<1>1. Init => Feed!FInit
  BY DEF Init, Feed!FInit
<1>2. SyncInv /\ [Next]_vars => [Feed!FNext]_(Feed!fVars)
  <2> SUFFICES ASSUME SyncInv, [Next]_vars
               PROVE  [Feed!FNext]_(Feed!fVars)
    OBVIOUS
  <2> USE DEF Feed!FNext, Feed!fVars
  <2>1. ASSUME NEW c \in Content, Edit(c)
        PROVE  Feed!Publish
    BY <2>1, HistoryAppends DEF Edit, dpVars, Feed!Publish, SyncInv, TypeOK
  <2>2. CASE Apply
    <3>1. reply.rev \in 1..Latest /\ store <= reply.rev /\ store \in Nat
      BY <2>2 DEF Apply, SyncInv, TypeOK
    <3>2. store' = reply.rev /\ history' = history
      BY <2>2 DEF Apply, cpVars
    <3> QED BY <3>1, <3>2 DEF Feed!Adopt
  <2>3. CASE Fallback
    <3>1. store = 0 /\ disk \in 0..Latest /\ history' = history
      BY <2>3 DEF Fallback, SyncInv, TypeOK, cpVars
    <3>2. CASE store' = disk /\ disk # 0
      BY <3>1, <3>2 DEF Feed!Adopt
    <3>3. CASE store' = store
      BY <3>1, <3>3
    <3> QED BY <2>3, <3>2, <3>3 DEF Fallback
  <2>4. CASE Crash
    BY <2>4 DEF Crash, cpVars, Feed!Stop
  <2>5. CASE \/ CPStops \/ CPStarts \/ Serve \/ FetchFails \/ Send \/ NotModified
             \/ ApplyFails \/ FetchError \/ Save \/ SaveFails \/ Retry \/ Restart
    BY <2>5 DEF CPStops, CPStarts, Serve, FetchFails, Send, NotModified, ApplyFails,
                FetchError, Save, SaveFails, Retry, Restart, cpVars, dpVars
  <2>6. CASE UNCHANGED vars
    BY <2>6 DEF vars
  <2> QED BY <2>1, <2>2, <2>3, <2>4, <2>5, <2>6 DEF Next, Poller
<1> QED BY <1>1, <1>2, InitInv, NextInv, PTL DEF Spec, ImplementsFeed, Feed!FSpec
=============================================================================
