SPECIFICATION OutageSpec
CONSTANTS
  good1 = good1
  good2 = good2
  broken = broken
  NoETag = NoETag
  Content <- MCContent
  Buildable <- MCBuildable
  SnapshotEnabled = TRUE
  FlakyBuild = TRUE
  MaxRevisions = 4
  MaxFaults = 3
INVARIANTS
  FreshAsLastPoll
  SnapshotUsable
PROPERTIES
  ImplementsFeed
  Converges
  ResumesFromSnapshot
