----------------------------- MODULE ConfigSync -----------------------------
(***************************************************************************)
(* How a workspace config reaches a data plane.  Admins edit the control   *)
(* plane's database; the data plane's poller asks for the config with the  *)
(* ETag it last applied, the control plane answers 304 or the config, the  *)
(* poller resolves it into the in-memory store and then persists it to     *)
(* disk.  At startup WaitForInitial retries the same fetch until a         *)
(* deadline and then falls back to the disk snapshot.                      *)
(*                                                                         *)
(* A config is identified by its revision, its place in the control        *)
(* plane's history; equal contents hash to equal ETags, so an edit that    *)
(* is undone brings back an earlier ETag.  Times (poll interval, backoff,  *)
(* startup deadline) are abstracted to "eventually".                       *)
(***************************************************************************)
EXTENDS Naturals, Sequences, FiniteSets

CONSTANTS
  Content,            \* workspace configs, up to equality of their hash
  Buildable,          \* those all of whose guards and transformers build
  SnapshotEnabled,    \* SHEELD_DP_CONFIG_SNAPSHOT_PATH is set
  FlakyBuild,         \* building a guard may fail transiently (it resolves DNS)
  NoETag,             \* the poller's lastETag = ""
  MaxRevisions,       \* bound: revisions published
  MaxFaults           \* bound: faults the environment injects

ASSUME ContentAssumption == Buildable \subseteq Content /\ NoETag \notin Content
ASSUME ModeAssumption == SnapshotEnabled \in BOOLEAN /\ FlakyBuild \in BOOLEAN
ASSUME BoundAssumption == MaxRevisions \in Nat \ {0} /\ MaxFaults \in Nat

VARIABLES
  history,      \* the control plane's configs, oldest first; the last is current
  cpUp,         \* the control plane answers
  proc,         \* data-plane process: "down", "starting" (WaitForInitial), "running"
  poll,         \* the poller inside FetchOnce: "idle", "sent", "replied", "saving", "failed"
  reply,        \* the response on its way to the poller
  store,        \* revision in the in-memory store, 0 before the first Apply
  etag,         \* the poller's lastETag
  disk,         \* revision in the disk snapshot, 0 if there is none
  seen,         \* history: revision the last successful fetch was answered from
  faults        \* history: faults injected so far

vars == <<history, cpUp, proc, poll, reply, store, etag, disk, seen, faults>>
cpVars == <<history, cpUp>>
dpVars == <<store, etag, disk, seen>>

Latest == Len(history)
NoReply == [status |-> "none", rev |-> 0]
Reply == [status : {"none", "200", "304", "error"}, rev : Nat]

Fault == faults < MaxFaults /\ faults' = faults + 1

Init ==
  /\ \E c \in Content : history = <<c>>
  /\ cpUp = TRUE
  /\ proc = "starting"
  /\ poll = "idle"
  /\ reply = NoReply
  /\ store = 0
  /\ etag = NoETag
  /\ disk = 0
  /\ seen = 0
  /\ faults = 0
-----------------------------------------------------------------------------
(* The control plane. *)

\* Some admin operation changes what the workspace-config endpoint returns.
Edit(c) ==
  /\ Latest < MaxRevisions
  /\ c # history[Latest]
  /\ history' = Append(history, c)
  /\ UNCHANGED <<cpUp, proc, poll, reply, dpVars, faults>>

CPStops ==
  /\ cpUp /\ Fault
  /\ cpUp' = FALSE
  /\ UNCHANGED <<history, proc, poll, reply, dpVars>>

CPStarts ==
  /\ ~cpUp
  /\ cpUp' = TRUE
  /\ UNCHANGED <<history, proc, poll, reply, dpVars, faults>>

\* Handler.Get: build the current config; 304 when its version is the ETag the
\* poller sent (the poller cannot change lastETag while it waits).
Serve ==
  /\ poll = "sent" /\ cpUp
  /\ poll' = "replied"
  /\ reply' = [status |-> IF history[Latest] = etag THEN "304" ELSE "200", rev |-> Latest]
  /\ UNCHANGED <<cpVars, proc, dpVars, faults>>

\* The request cannot be answered: the control plane is down, or it answers
\* with an error, the response is lost or cut short, or the client times out.
FetchFails ==
  /\ poll = "sent"
  /\ \/ ~cpUp /\ UNCHANGED faults
     \/ cpUp /\ Fault
  /\ poll' = "replied"
  /\ reply' = [status |-> "error", rev |-> 0]
  /\ UNCHANGED <<cpVars, proc, dpVars>>
-----------------------------------------------------------------------------
(* The poller. *)

\* FetchOnce sends the request, from Run's timer or WaitForInitial's loop.
Send ==
  /\ proc # "down" /\ poll = "idle"
  /\ poll' = "sent"
  /\ UNCHANGED <<cpVars, proc, reply, dpVars, faults>>

\* FetchOnce returns nil: in WaitForInitial the process goes on to serve.
FetchDone ==
  /\ poll' = "idle"
  /\ proc' = "running"
  /\ reply' = NoReply

NotModified ==
  /\ poll = "replied" /\ reply.status = "304"
  /\ seen' = reply.rev
  /\ FetchDone
  /\ UNCHANGED <<cpVars, store, etag, disk, faults>>

\* Store.Apply succeeds and swaps the snapshot in; then lastETag advances, and
\* only then is the snapshot persisted.
Apply ==
  /\ poll = "replied" /\ reply.status = "200"
  /\ history[reply.rev] \in Buildable
  /\ store' = reply.rev
  /\ etag' = history[reply.rev]
  /\ seen' = reply.rev
  /\ IF SnapshotEnabled
     THEN poll' = "saving" /\ UNCHANGED <<proc, reply>>
     ELSE FetchDone
  /\ UNCHANGED <<cpVars, disk, faults>>

\* Faulty variants of ApplyFails: lastETag has advanced before the config was
\* applied; the config was persisted before it was applied.
ApplyFailsAfterETag ==
  /\ poll = "replied" /\ reply.status = "200"
  /\ \/ history[reply.rev] \notin Buildable /\ UNCHANGED faults
     \/ FlakyBuild /\ Fault
  /\ poll' = "failed"
  /\ reply' = NoReply
  /\ etag' = history[reply.rev]
  /\ UNCHANGED <<cpVars, proc, store, disk, seen>>

ApplyFailsAfterSave ==
  /\ poll = "replied" /\ reply.status = "200"
  /\ \/ history[reply.rev] \notin Buildable /\ UNCHANGED faults
     \/ FlakyBuild /\ Fault
  /\ poll' = "failed"
  /\ reply' = NoReply
  /\ disk' = reply.rev
  /\ UNCHANGED <<cpVars, proc, store, etag, seen>>

\* Apply fails for the whole config when one guard or transformer of one
\* organization cannot be built; nothing is swapped and lastETag stays.
ApplyFails ==
  /\ poll = "replied" /\ reply.status = "200"
  /\ \/ history[reply.rev] \notin Buildable /\ UNCHANGED faults
     \/ FlakyBuild /\ Fault
  /\ poll' = "failed"
  /\ reply' = NoReply
  /\ UNCHANGED <<cpVars, proc, dpVars>>

FetchError ==
  /\ poll = "replied" /\ reply.status = "error"
  /\ poll' = "failed"
  /\ reply' = NoReply
  /\ UNCHANGED <<cpVars, proc, dpVars, faults>>

\* Snapshotter.Save renames the new file over the old one.
Save ==
  /\ poll = "saving"
  /\ disk' = store
  /\ FetchDone
  /\ UNCHANGED <<cpVars, store, etag, seen, faults>>

\* Save fails (disk full, permissions): warned about, and the fetch succeeded.
SaveFails ==
  /\ poll = "saving" /\ Fault
  /\ FetchDone
  /\ UNCHANGED <<cpVars, dpVars>>

\* Faulty variant: Run's loop ends at the first failed fetch.
RetryAtStartupOnly ==
  /\ poll = "failed" /\ proc = "starting"
  /\ poll' = "idle"
  /\ UNCHANGED <<cpVars, proc, reply, dpVars, faults>>

\* After a failed fetch: sleep and try again, in Run or before the deadline.
Retry ==
  /\ poll = "failed"
  /\ poll' = "idle"
  /\ UNCHANGED <<cpVars, proc, reply, dpVars, faults>>

\* Faulty variants of Fallback: a failed fetch of a serving process falls back
\* too; the snapshot is ignored.
FallbackWhileServing ==
  /\ proc # "down" /\ poll = "failed"
  /\ SnapshotEnabled /\ disk # 0
  /\ history[disk] \in Buildable
  /\ proc' = "running"
  /\ poll' = "idle"
  /\ store' = disk
  /\ UNCHANGED <<cpVars, reply, etag, disk, seen, faults>>

FallbackWithoutSnapshot ==
  /\ proc = "starting" /\ poll = "failed"
  /\ proc' = "running"
  /\ poll' = "idle"
  /\ UNCHANGED <<cpVars, reply, dpVars, faults>>

\* WaitForInitial's deadline has passed: apply the disk snapshot if there is
\* one that builds, else start without a config (the proxy answers 503).
\* lastETag is not touched.
Fallback ==
  /\ proc = "starting" /\ poll = "failed"
  /\ proc' = "running"
  /\ poll' = "idle"
  /\ \/ /\ SnapshotEnabled /\ disk # 0
        /\ history[disk] \in Buildable
        /\ store' = disk
        /\ UNCHANGED faults
     \/ /\ \/ ~SnapshotEnabled
           \/ disk = 0
           \/ disk # 0 /\ history[disk] \notin Buildable
        /\ UNCHANGED <<store, faults>>
     \/ /\ FlakyBuild /\ Fault
        /\ UNCHANGED store
  /\ UNCHANGED <<cpVars, reply, etag, disk, seen>>
-----------------------------------------------------------------------------
(* The data-plane process. *)

\* The process dies, or is stopped for a deploy: only the disk survives.
Crash ==
  /\ proc # "down" /\ Fault
  /\ proc' = "down"
  /\ poll' = "idle"
  /\ reply' = NoReply
  /\ store' = 0
  /\ etag' = NoETag
  /\ seen' = 0
  /\ UNCHANGED <<cpVars, disk>>

Restart ==
  /\ proc = "down"
  /\ proc' = "starting"
  /\ UNCHANGED <<cpVars, poll, reply, dpVars, faults>>

Poller == \/ Send \/ NotModified \/ Apply \/ ApplyFails \/ FetchError
          \/ Save \/ SaveFails \/ Retry \/ Fallback

Next ==
  \/ \E c \in Content : Edit(c)
  \/ CPStops \/ CPStarts \/ Serve \/ FetchFails
  \/ Poller
  \/ Crash \/ Restart

Spec == Init /\ [][Next]_vars

\* The poller never stops polling, every request is answered or fails, every
\* response is handled, the startup deadline passes, and a supervisor restarts
\* the process.  Nothing is assumed about the control plane coming back.
PollerFairness ==
  /\ WF_vars(Send) /\ WF_vars(Serve \/ FetchFails)
  /\ WF_vars(NotModified \/ Apply \/ ApplyFails \/ FetchError)
  /\ WF_vars(Save \/ SaveFails) /\ WF_vars(Retry \/ Fallback)
  /\ SF_vars(Fallback)
  /\ WF_vars(Restart)

\* The outage lasts: the control plane may stay down for good.
OutageSpec == Spec /\ PollerFairness
-----------------------------------------------------------------------------
TypeOK ==
  /\ history \in Seq(Content) /\ Latest \in 1..MaxRevisions
  /\ cpUp \in BOOLEAN
  /\ proc \in {"down", "starting", "running"}
  /\ poll \in {"idle", "sent", "replied", "saving", "failed"}
  /\ reply \in Reply
  /\ store \in 0..Latest /\ disk \in 0..Latest /\ seen \in 0..Latest
  /\ etag \in Content \cup {NoETag}
  /\ faults \in 0..MaxFaults

\* A 304 is never a stale answer: after a successful fetch the store serves
\* exactly the content the control plane had when it answered, even when edits
\* were undone in between or an earlier Apply failed.  (poller.go:64 and :87,
\* workspaceconfig/handler.go:32)
FreshAsLastPoll ==
  seen # 0 => store # 0 /\ history[store] = history[seen]

\* A persisted snapshot can be resolved again: only a config that was applied
\* is ever written to disk, so the fallback does not fail on its content.
\* (poller.go:83-94, :116)
SnapshotUsable ==
  disk # 0 => history[disk] \in Buildable

\* Once edits and faults stop and the control plane stays up, a buildable config
\* is served, whatever happened before.  (README.md:412)
Converges ==
  <>[]cpUp => <>[](history[Latest] \in Buildable =>
         proc = "running" /\ store # 0 /\ history[store] = history[Latest])

\* A data plane that starts with a snapshot resumes serving, even if the control
\* plane never comes back, unless something else fails meanwhile.
\* (README.md:413, snapshot.go:13)
ResumesFromSnapshot ==
  \A n \in 0..MaxFaults :
    (SnapshotEnabled /\ proc = "starting" /\ disk # 0 /\ faults = n)
       ~> (proc = "running" /\ store # 0) \/ faults > n

\* The data plane serves published revisions and never goes back to an earlier
\* one while it runs.
Feed == INSTANCE ConfigFeed WITH head <- Latest, served <- store
ImplementsFeed == Feed!FSpec

\* Why all this holds, as an inductive invariant: lastETag always names what the
\* store serves, a response never carries a revision older than the store's, and
\* the store is empty until a first fetch or the fallback fills it.
SyncInv ==
  /\ TypeOK
  /\ FreshAsLastPoll
  /\ SnapshotUsable
  /\ etag # NoETag => store # 0 /\ history[store] = etag
  /\ poll = "replied" /\ reply.status \in {"200", "304"} =>
       reply.rev \in 1..Latest /\ store <= reply.rev
  /\ poll = "replied" /\ reply.status = "304" => etag = history[reply.rev]
  /\ poll = "saving" => store # 0 /\ history[store] \in Buildable
  /\ proc = "starting" /\ poll # "saving" => store = 0
  /\ proc = "down" => store = 0 /\ poll = "idle"
=============================================================================
