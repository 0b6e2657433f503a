--------------------------- MODULE AuditStoreProofs ---------------------------
(***************************************************************************)
(* Proofs about AuditStore for any number of rows, any retention, batch    *)
(* and page size, and any filters.                                         *)
(***************************************************************************)
EXTENDS AuditStore, FiniteSetTheorems, SequenceTheorems, WellFoundedInduction, TLAPS

-----------------------------------------------------------------------------
(* The order of a page. *)

\* Rows no two of which share an id.
Distinct(S) == \A r, s \in S : r.id = s.id => r = s

LEMMA RowTypes ==
  ASSUME NEW m \in Nat, NEW r \in RowsAt(0..m)
  PROVE  r.id \in Nat /\ r.time \in 0..m /\ r.time \in Nat
BY IdAssumption DEF RowsAt

LEMMA RowsFinite ==
  ASSUME NEW m \in Nat
  PROVE  IsFiniteSet(RowsAt(0..m))
<1> DEFINE P == Id \X (0..m)
           f == [p \in P |-> [id |-> p[1], time |-> p[2], entry |-> Entry(p[1])]]
<1>1. IsFiniteSet(P)
  <2>1. IsFiniteSet(0..m) BY FS_Interval
  <2>2. IsFiniteSet(Id) BY IdAssumption
  <2> QED BY <2>1, <2>2, FS_Product
<1>2. f \in [P -> RowsAt(0..m)] BY DEF RowsAt
<1>3. ASSUME NEW r \in RowsAt(0..m)
      PROVE  \E p \in P : f[p] = r
  <2>1. PICK i \in Id, t \in 0..m : r = [id |-> i, time |-> t, entry |-> Entry(i)]
    BY DEF RowsAt
  <2>2. <<i, t>> \in P /\ f[<<i, t>>] = r BY <2>1
  <2> QED BY <2>2
<1>4. f \in Surjection(P, RowsAt(0..m)) BY <1>2, <1>3 DEF Surjection
<1> QED BY <1>1, <1>4, FS_Surjection

\* Rows with different ids are strictly ordered.
LEMMA OrderOfRows ==
  ASSUME NEW m \in Nat, NEW S \in SUBSET RowsAt(0..m), Distinct(S)
  PROVE  /\ \A r \in S : ~Precedes(r, r)
         /\ \A r, s, t \in S : Precedes(r, s) /\ Precedes(s, t) => Precedes(r, t)
         /\ \A r, s \in S : r # s => Precedes(r, s) \/ Precedes(s, r)
<1>1. \A r \in S : r.id \in Nat /\ r.time \in Nat BY RowTypes
<1> QED BY <1>1 DEF Precedes, Distinct

LEMMA PrecedesTransitive ==
  ASSUME NEW m \in Nat, NEW r \in RowsAt(0..m), NEW s \in RowsAt(0..m), NEW t \in RowsAt(0..m),
         Precedes(r, s), Precedes(s, t)
  PROVE  Precedes(r, t)
<1>1. \A x \in {r, s, t} : x.id \in Nat /\ x.time \in Nat BY RowTypes
<1> QED BY <1>1 DEF Precedes

\* A page of n of the rows S: in descending order, all of them when it is not
\* full, and otherwise what it leaves out precedes its last row.
PageFor(page, S, n) ==
  /\ page \in Seq(S) /\ Len(page) <= n
  /\ \A i, j \in DOMAIN page : i < j => Precedes(page[j], page[i])
  /\ Len(page) < n => S \subseteq ToSet(page)
  /\ Len(page) > 0 => \A r \in S : r \in ToSet(page) \/ Precedes(r, page[Len(page)])

\* How many rows are newer numbers the rows of a set from 0 on.
LEMMA Ranks ==
  ASSUME NEW m \in Nat, NEW S \in SUBSET RowsAt(0..m), Distinct(S)
  PROVE  /\ IsFiniteSet(S) /\ Cardinality(S) \in Nat
         /\ \A r \in S : Cardinality(Newer(S, r)) \in 0..(Cardinality(S) - 1)
         /\ \A r, s \in S : Precedes(r, s) => Cardinality(Newer(S, s)) < Cardinality(Newer(S, r))
         /\ \A r, s \in S : Cardinality(Newer(S, r)) = Cardinality(Newer(S, s)) => r = s
         /\ \A k \in 0..(Cardinality(S) - 1) : \E r \in S : Cardinality(Newer(S, r)) = k
<1> DEFINE n == Cardinality(S)
           rank(r) == Cardinality(Newer(S, r))
<1>1. IsFiniteSet(S) /\ n \in Nat BY RowsFinite, FS_Subset, FS_CardinalityType
<1>2. ASSUME NEW r \in S
      PROVE  IsFiniteSet(Newer(S, r)) /\ rank(r) \in Nat /\ rank(r) < n
  <2>1. Newer(S, r) \in SUBSET S BY DEF Newer
  <2>2. r \notin Newer(S, r) BY OrderOfRows DEF Newer
  <2>3. Newer(S, r) # S BY <2>2
  <2> QED BY <1>1, <2>1, <2>3, FS_Subset, FS_CardinalityType
<1>3. ASSUME NEW r \in S, NEW s \in S, Precedes(r, s)
      PROVE  rank(s) < rank(r)
  <2>1. Newer(S, s) \in SUBSET Newer(S, r) BY <1>3, OrderOfRows DEF Newer
  <2>2. s \in Newer(S, r) /\ s \notin Newer(S, s) BY <1>3, OrderOfRows DEF Newer
  <2>3. rank(s) <= rank(r) /\ rank(s) # rank(r) BY <1>2, <2>1, <2>2, FS_Subset
  <2> QED BY <1>2, <2>3
<1>4. ASSUME NEW r \in S, NEW s \in S, rank(r) = rank(s)
      PROVE  r = s
  <2>1. ~Precedes(r, s) /\ ~Precedes(s, r) BY <1>2, <1>3, <1>4
  <2> QED BY <2>1, OrderOfRows
<1>5. ASSUME NEW k \in 0..(n - 1)
      PROVE  \E r \in S : rank(r) = k
  <2> DEFINE f == [r \in S |-> rank(r)]
             T == 0..(n - 1)
  <2> HIDE DEF rank, n
  <2>1. f \in [S -> T] BY <1>1, <1>2
  <2>2. f \in Injection(S, T)
    <3>1. \A r, s \in S : f[r] = f[s] => r = s BY <1>4
    <3> QED BY <2>1, <3>1 DEF Injection, IsInjective
  <2>3. IsFiniteSet(T) /\ Cardinality(T) = n BY <1>1, FS_Interval
  <2>4. f \in Surjection(S, T) BY <2>2, <2>3, FS_Injection DEF n
  <2> QED BY <2>4 DEF Surjection
<1> QED BY <1>1, <1>2, <1>3, <1>4, <1>5

\* The newest rows of a set are a page of it.
LEMMA PageOf ==
  ASSUME NEW m \in Nat, NEW S \in SUBSET RowsAt(0..m), Distinct(S), NEW n \in Nat \ {0},
         NEW page, page = Newest(S, n)
  PROVE  PageFor(page, S, n)
<1> DEFINE c == Cardinality(S)
           rank(r) == Cardinality(Newer(S, r))
<1>1. c \in Nat BY Ranks
<1>2. PICK z : z = Min({n, c}) OBVIOUS
<1>3. z \in Nat /\ z <= n /\ z <= c /\ (z = n \/ z = c)
  <2> HIDE DEF c
  <2>1. \E x \in {n, c} : \A y \in {n, c} : x <= y BY <1>1
  <2>2. z \in {n, c} /\ \A y \in {n, c} : z <= y BY <1>2, <2>1 DEF Min
  <2> QED BY <1>1, <2>2
<1>4. page = [i \in 1..z |-> CHOOSE r \in S : rank(r) = i - 1] BY <1>2 DEF Newest
<1>5. \A i \in 1..z : page[i] \in S /\ rank(page[i]) = i - 1
  <2> TAKE i \in 1..z
  <2>1. i - 1 \in 0..(c - 1) BY <1>1, <1>3
  <2>2. \E r \in S : rank(r) = i - 1 BY <2>1, Ranks
  <2>3. page[i] = CHOOSE r \in S : rank(r) = i - 1 BY <1>4
  <2> QED BY <2>2, <2>3
<1>6. page \in Seq(S) /\ Len(page) = z /\ DOMAIN page = 1..z
  <2>1. DOMAIN page = 1..z BY <1>4
  <2>2. page \in [1..z -> S] BY <1>4, <1>5
  <2> QED BY <1>3, <2>1, <2>2
<1> HIDE DEF c, rank
<1>7. ASSUME NEW i \in 1..z, NEW j \in 1..z, i < j
      PROVE  Precedes(page[j], page[i])
  <2>1. page[i] \in S /\ page[j] \in S /\ rank(page[i]) = i - 1 /\ rank(page[j]) = j - 1 BY <1>5
  <2>2. rank(page[i]) < rank(page[j]) BY <2>1, <1>3, <1>7
  <2>3. ~Precedes(page[i], page[j])
    <3>1. Precedes(page[i], page[j]) => rank(page[j]) < rank(page[i]) BY <2>1, Ranks DEF rank
    <3> QED BY <2>1, <2>2, <3>1, <1>3
  <2>4. page[i] # page[j] BY <2>2, <2>1, <1>3, <1>7
  <2> QED BY <2>1, <2>3, <2>4, OrderOfRows
<1>8. ASSUME NEW r \in S, rank(r) < z
      PROVE  r \in ToSet(page)
  <2>1. rank(r) \in 0..(c - 1) BY Ranks DEF rank, c
  <2>2. rank(r) + 1 \in 1..z BY <2>1, <1>8, <1>1, <1>3
  <2>3. page[rank(r) + 1] \in S /\ rank(page[rank(r) + 1]) = rank(r) BY <2>1, <2>2, <1>5
  <2>4. page[rank(r) + 1] = r BY <2>3, Ranks DEF rank
  <2> QED BY <2>2, <2>4, <1>6 DEF ToSet
<1>9. ASSUME NEW r \in S, r \notin ToSet(page), z > 0
      PROVE  Precedes(r, page[z])
  <2>1. rank(r) \in 0..(c - 1) BY Ranks DEF rank, c
  <2>2. ~(rank(r) < z) BY <1>8, <1>9
  <2>3. page[z] \in S /\ rank(page[z]) = z - 1 BY <1>3, <1>5, <1>9
  <2>4. ~Precedes(page[z], r)
    <3>1. Precedes(page[z], r) => rank(r) < rank(page[z]) BY <2>3, Ranks DEF rank
    <3> QED BY <2>1, <2>2, <2>3, <3>1, <1>3
  <2>5. page[z] # r BY <2>1, <2>2, <2>3, <1>3
  <2> QED BY <2>3, <2>4, <2>5, OrderOfRows
<1>10. ASSUME z < n, NEW r \in S
       PROVE  r \in ToSet(page)
  <2>1. rank(r) \in 0..(c - 1) BY Ranks DEF rank, c
  <2> QED BY <2>1, <1>10, <1>3, <1>1, <1>8
<1> QED BY <1>3, <1>6, <1>7, <1>9, <1>10 DEF PageFor

-----------------------------------------------------------------------------
(* Types, and what the pruner relies on. *)

LEMMA TimePasses ==
  ASSUME NEW m \in Nat, NEW k \in Nat, m <= k
  PROVE  RowsAt(0..m) \subseteq RowsAt(0..k)
BY DEF RowsAt

LEMMA InitType == Init => TypeOK /\ PrunerSound /\ base \subseteq rows /\ PagesTyped /\ PagesComplete
<1> SUFFICES ASSUME Init PROVE TypeOK /\ PrunerSound /\ base \subseteq rows /\ PagesTyped /\ PagesComplete
  OBVIOUS
<1> USE SizesAssumption DEF Init
<1>1. TypeOK BY DEF TypeOK
<1>2. PrunerSound /\ base \subseteq rows BY DEF PrunerSound
<1>3. PagesTyped /\ PagesComplete BY DEF PagesTyped, PagesComplete, NoReader
<1> QED BY <1>1, <1>2, <1>3

\* A batch is part of what has expired.
LEMMA BatchExpired ==
  ASSUME NEW batch, DeleteAuditLogsBefore(batch)
  PROVE  batch \subseteq {r \in rows : r.time < pruner.cutoff}
BY DEF DeleteAuditLogsBefore, kSubset

\* What the clock and the set of rows can do in a step.
LEMMA RowsMove ==
  ASSUME TypeOK, base \subseteq rows, Next
  PROVE  /\ now' \in 0..MaxTime /\ now <= now'
         /\ rows' \cup pending' \cup base' \cup ever' \subseteq RowsAt(0..now)
         /\ \A r, s \in rows' \cup pending' : r.id = s.id => r = s
         /\ base' \subseteq rows'
<1> USE SizesAssumption
<1>0. now \in Nat /\ now <= now BY DEF TypeOK
<1>1. CASE Tick BY <1>1 DEF Tick, TypeOK
<1>2. CASE BeginAuditLog
  <2>1. PICK i \in Id \ {r.id : r \in rows \cup pending \cup ever} :
          pending' = pending \cup {[id |-> i, time |-> now, entry |-> Entry(i)]}
    BY <1>2 DEF BeginAuditLog
  <2>2. UNCHANGED <<now, rows, base, ever>> BY <1>2 DEF BeginAuditLog
  <2>3. [id |-> i, time |-> now, entry |-> Entry(i)] \in RowsAt(0..now) BY <1>0 DEF RowsAt
  <2>4. \A r \in rows \cup pending : r.id # i BY <2>1
  <2> QED BY <1>0, <2>1, <2>2, <2>3, <2>4 DEF TypeOK
<1>3. CASE CreateAuditLog BY <1>0, <1>3 DEF CreateAuditLog, TypeOK
<1>4. CASE PruneOnce
  <2>1. PICK batch \in SUBSET rows : DeleteAuditLogsBefore(batch) BY <1>4 DEF PruneOnce
  <2> QED BY <1>0, <2>1 DEF DeleteAuditLogsBefore, TypeOK
<1>5. CASE Sweep \/ Run \/ PruneFails BY <1>0, <1>5 DEF Sweep, Run, PruneFails, TypeOK
<1>6. CASE Stop BY <1>0, <1>6 DEF Stop, TypeOK
<1>7. CASE FirstPage \/ Summary BY <1>0, <1>7 DEF FirstPage, Summary, TypeOK
<1>8. CASE NextPage \/ Daily \/ Models \/ Sources
  BY <1>0, <1>8 DEF NextPage, Daily, Models, Sources, Ask, TypeOK
<1>9. CASE Close BY <1>0, <1>9 DEF Close, TypeOK
<1> QED BY <1>1, <1>2, <1>3, <1>4, <1>5, <1>6, <1>7, <1>8, <1>9 DEF Next, Pruner, Reader

LEMMA PrunerMoves ==
  ASSUME TypeOK, PrunerSound, Next
  PROVE  /\ pruner' \in [at : {"off", "waiting", "sweeping", "stopped"},
                        cutoff : -Retention..MaxTime]
         /\ faults' \in 0..MaxFaults
         /\ PrunerSound'
<1> USE SizesAssumption
<1>1. CASE Tick
  BY <1>1 DEF Tick, TypeOK, PrunerSound
<1>2. CASE BeginAuditLog \/ CreateAuditLog \/ Reader
  <2>1. UNCHANGED <<now, pruner, faults>>
    BY <1>2 DEF BeginAuditLog, CreateAuditLog, Reader, FirstPage, NextPage, Summary, Daily, Models,
                Sources, Ask, Close
  <2> QED BY <2>1 DEF TypeOK, PrunerSound
<1>3. CASE Sweep \/ Run
  <2>1. pruner' = [at |-> "sweeping", cutoff |-> now - Retention] /\ UNCHANGED <<now, faults>>
    BY <1>3 DEF Sweep, Run
  <2>2. Retention # 0 BY <1>3 DEF Sweep, Run, PrunerSound
  <2>3. pruner'.at = "sweeping" /\ pruner'.cutoff = now - Retention BY <2>1
  <2> QED BY <2>1, <2>2, <2>3 DEF TypeOK, PrunerSound
<1>4. CASE PruneOnce \/ PruneFails \/ Stop
  <2>1. \/ pruner' = pruner \/ pruner' = [pruner EXCEPT !.at = "waiting"]
        \/ pruner' = [pruner EXCEPT !.at = "stopped"]
    BY <1>4 DEF PruneOnce, PruneFails, Stop
  <2>2. now' = now BY <1>4 DEF PruneOnce, DeleteAuditLogsBefore, PruneFails, Stop
  <2>4. faults' \in 0..MaxFaults
    <3>1. CASE PruneOnce BY <3>1 DEF PruneOnce, DeleteAuditLogsBefore, TypeOK
    <3>2. CASE PruneFails \/ Stop BY <3>2 DEF PruneFails, Stop, TypeOK
    <3> QED BY <1>4, <3>1, <3>2
  <2>3. pruner.at # "off" BY <1>4 DEF PruneOnce, PruneFails, Stop
  <2> QED BY <2>1, <2>2, <2>3, <2>4 DEF TypeOK, PrunerSound
<1> QED BY <1>1, <1>2, <1>3, <1>4 DEF Next, Pruner

-----------------------------------------------------------------------------
(* Paging. *)

\* What a filter asks of a set of rows.
Wanted(filter, S) ==
  {r \in S : /\ \A s \in filter.source : r.entry.source = s
             /\ \A p \in filter.status : r.entry.result = p
             /\ \A t \in filter.from : r.time >= t
             /\ \A t \in filter.to : r.time <= t}

\* PagesComplete of given pages.
Complete(at, filter, pages, S) ==
  /\ \A i, j \in DOMAIN pages : i < j => Precedes(pages[j], pages[i])
  /\ at = "listed" => Wanted(filter, S) \subseteq ToSet(pages)
  /\ at = "paging" =>
       \A r \in Wanted(filter, S) : r \in ToSet(pages) \/ Precedes(r, Last(pages))

LEMMA CompleteOf ==
  PagesComplete <=>
    (reader.at \in {"paging", "listed"} => Complete(reader.at, reader.filter, reader.pages, base))
BY DEF PagesComplete, Complete, Wanted

\* The same after a step.
LEMMA CompleteAfter ==
  ASSUME NEW at, NEW filter, NEW pages, NEW S, reader'.at = at, base' = S,
         at \in {"paging", "listed"} =>
           /\ reader'.filter = filter /\ reader'.pages = pages /\ Complete(at, filter, pages, S)
  PROVE  PagesComplete'
BY DEF PagesComplete, Complete, Wanted

LEMMA LimitType ==
  ASSUME NEW n
  PROVE  Limit(n) \in Nat \ {0}
BY SizesAssumption DEF Limit

\* A page answers with the newest of the rows the query selects.
LEMMA PageAnswer ==
  ASSUME TypeOK, NEW filter, NEW cursor, NEW n \in Nat \ {0},
         NEW page, page = ListAuditLogs(filter, cursor, n),
         NEW found, found = {r \in Wanted(filter, rows) : \A c \in cursor : Precedes(r, c)}
  PROVE  PageFor(page, found, n) /\ found \subseteq RowsAt(0..now)
<1>1. now \in Nat BY SizesAssumption DEF TypeOK
<1>2. found \in SUBSET RowsAt(0..now) /\ Distinct(found) BY DEF TypeOK, Wanted, Distinct
<1>3. found = {r \in rows : /\ \A s \in filter.source : r.entry.source = s
                            /\ \A p \in filter.status : r.entry.result = p
                            /\ \A t \in filter.from : r.time >= t
                            /\ \A t \in filter.to : r.time <= t
                            /\ \A c \in cursor : Precedes(r, c)}
  BY DEF Wanted
<1>4. page = Newest(found, n) BY <1>3 DEF ListAuditLogs
<1> QED BY <1>1, <1>2, <1>4, PageOf

\* A page after those already shown: they stay in order, and nothing is missed.
LEMMA PagesJoin ==
  ASSUME NEW m \in Nat, NEW listed \in Seq(RowsAt(0..m)), NEW page \in Seq(RowsAt(0..m)),
         NEW found, NEW filter, NEW S, NEW n \in Nat \ {0}, NEW at,
         at = IF Len(page) < n THEN "listed" ELSE "paging",
         \A i, j \in DOMAIN listed : i < j => Precedes(listed[j], listed[i]),
         PageFor(page, found, n),
         listed # <<>> => \A i \in DOMAIN page : Precedes(page[i], Last(listed)),
         Wanted(filter, S) \subseteq ToSet(listed) \cup found
  PROVE  /\ listed \o page \in Seq(RowsAt(0..m))
         /\ at = "paging" => listed \o page # <<>>
         /\ Complete(at, filter, listed \o page, S)
<1> DEFINE pages == listed \o page
           a == Len(listed)
           b == Len(page)
<1>1. /\ pages \in Seq(RowsAt(0..m)) /\ Len(pages) = a + b /\ a \in Nat /\ b \in Nat
      /\ \A i \in 1..a : pages[i] = listed[i]
      /\ \A i \in 1..b : pages[a + i] = page[i]
      /\ DOMAIN pages = 1..(a + b) /\ DOMAIN listed = 1..a /\ DOMAIN page = 1..b
  OBVIOUS
<1>2. \A i \in 1..a : listed[i] \in RowsAt(0..m) OBVIOUS
<1>3. \A i \in 1..b : page[i] \in RowsAt(0..m) OBVIOUS
<1>4. Last(listed) = listed[a] BY DEF Last
<1>5. Last(pages) = pages[a + b] BY <1>1 DEF Last
<1>6. at = "paging" <=> ~(b < n) BY <1>1
<1>7. listed # <<>> <=> a > 0 BY <1>1
<1> HIDE DEF pages, a, b
<1>8. at = "paging" => b > 0 /\ pages # <<>> BY <1>1, <1>6
<1>9. ASSUME NEW i \in DOMAIN pages, NEW j \in DOMAIN pages, i < j
      PROVE  Precedes(pages[j], pages[i])
  <2>1. i \in 1..(a + b) /\ j \in 1..(a + b) /\ i \in Nat /\ j \in Nat
    <3>1. DOMAIN pages = 1..(a + b) /\ a \in Nat /\ b \in Nat BY <1>1
    <3> QED BY ONLY <3>1, i \in DOMAIN pages, j \in DOMAIN pages
  <2>2. CASE j <= a
    <3>1. i \in 1..a /\ j \in 1..a BY <1>1, <1>9, <2>1, <2>2
    <3> QED BY <3>1, <1>1, <1>9
  <2>3. CASE i <= a /\ ~(j <= a)
    <3>1. i \in 1..a /\ j - a \in 1..b /\ a + (j - a) = j /\ a > 0 /\ a \in 1..a
      BY <1>1, <2>1, <2>3
    <3>2. pages[i] = listed[i] /\ pages[j] = page[j - a] BY <3>1, <1>1
    <3>3. Precedes(page[j - a], listed[a]) BY <3>1, <1>1, <1>4, <1>7
    <3>4. i = a \/ Precedes(listed[a], listed[i])
      <4>1. i = a \/ i < a BY <2>1, <2>3, <1>1
      <4>2. i \in DOMAIN listed /\ a \in DOMAIN listed BY <3>1, <1>1
      <4> QED BY <4>1, <4>2
    <3> QED BY <3>1, <3>2, <3>3, <3>4, <1>2, <1>3, PrecedesTransitive
  <2>4. CASE ~(i <= a)
    <3> DEFINE k == i - a
               l == j - a
    <3>1. k \in 1..b /\ l \in 1..b /\ a + k = i /\ a + l = j /\ k < l
      <4>1. a \in Nat /\ b \in Nat BY <1>1
      <4>2. k \in 1..b /\ a + k = i BY <4>1, <2>1, <2>4
      <4>3. l \in 1..b /\ a + l = j BY <4>1, <1>9, <2>1, <2>4
      <4> QED BY <4>1, <4>2, <4>3, <1>9, <2>1
    <3> HIDE DEF k, l
    <3>2. pages[i] = page[k] /\ pages[j] = page[l] BY <3>1, <1>1
    <3> QED BY <3>1, <3>2, <1>1 DEF PageFor
  <2> QED BY <2>2, <2>3, <2>4
<1>10. ToSet(listed) \cup ToSet(page) \subseteq ToSet(pages)
  <2>1. \A i \in 1..a : i \in 1..(a + b) BY <1>1
  <2>2. \A i \in 1..b : a + i \in 1..(a + b) BY <1>1
  <2> QED BY <1>1, <2>1, <2>2 DEF ToSet
<1>11. at = "listed" => Wanted(filter, S) \subseteq ToSet(pages) BY <1>6, <1>10 DEF b, PageFor
<1>12. ASSUME at = "paging", NEW r \in Wanted(filter, S)
       PROVE  r \in ToSet(pages) \/ Precedes(r, Last(pages))
  <2>1. b > 0 /\ b \in 1..b BY <1>12, <1>8, <1>1
  <2>2. Last(pages) = page[b] BY <2>1, <1>1, <1>5
  <2>3. CASE r \in found BY <2>1, <2>2, <2>3, <1>10 DEF b, PageFor
  <2> QED BY <2>3, <1>10
<1> QED BY <1>1, <1>8, <1>9, <1>11, <1>12 DEF Complete, pages

\* A step that asks for no page only takes away what a reader may expect.
LEMMA PagesStay ==
  ASSUME StoreInv, Next, ~FirstPage, ~NextPage
  PROVE  PagesTyped' /\ PagesComplete'
<1>1. now \in Nat /\ now' \in Nat /\ now <= now' BY RowsMove, SizesAssumption DEF StoreInv, TypeOK
<1>2. RowsAt(0..now) \subseteq RowsAt(0..now') BY <1>1, TimePasses
<1>3. CASE reader'.at \notin {"paging", "listed"} BY <1>3 DEF PagesTyped, PagesComplete
<1>4. CASE reader' = reader /\ base' \subseteq base
  <2>1. PagesTyped' BY <1>2, <1>4 DEF StoreInv, PagesTyped
  <2>2. Wanted(reader.filter, base') \subseteq Wanted(reader.filter, base) BY <1>4 DEF Wanted
  <2>3. reader.at \in {"paging", "listed"} =>
          Complete(reader.at, reader.filter, reader.pages, base)
    BY CompleteOf DEF StoreInv
  <2>4. reader.at \in {"paging", "listed"} =>
          Complete(reader.at, reader.filter, reader.pages, base')
    BY <2>2, <2>3 DEF Complete
  <2>5. PICK b : b = base' OBVIOUS
  <2>6. PagesComplete' BY <2>4, <2>5, <1>4, CompleteAfter
  <2> QED BY <2>1, <2>6
<1>5. (reader' = reader /\ base' \subseteq base) \/ reader'.at \notin {"paging", "listed"}
  <2>1. CASE Tick \/ BeginAuditLog \/ CreateAuditLog \/ PruneFails \/ Stop
    BY <2>1 DEF Tick, BeginAuditLog, CreateAuditLog, PruneFails, Stop
  <2>2. CASE Pruner BY <2>2 DEF Pruner, Sweep, PruneOnce, Run, DeleteAuditLogsBefore
  <2>3. CASE Summary BY <2>3 DEF Summary
  <2>4. CASE Daily \/ Models \/ Sources BY <2>4 DEF Daily, Models, Sources, Ask
  <2>5. CASE Close BY <2>5 DEF Close, NoReader
  <2> QED BY <2>1, <2>2, <2>3, <2>4, <2>5 DEF Next, Reader
<1> QED BY <1>3, <1>4, <1>5

\* The reader after a page.
LEMMA ListedAfter ==
  ASSUME NEW filter, NEW cursor, NEW n, NEW listed, List(filter, cursor, n, listed),
         NEW page, page = ListAuditLogs(filter, cursor, Limit(n)),
         NEW at, at = IF Len(page) < Limit(n) THEN "listed" ELSE "paging",
         now' = now, listed \o page \in Seq(RowsAt(0..now)), at = "paging" => listed \o page # <<>>,
         NEW S, base' = S, Complete(at, filter, listed \o page, S)
  PROVE  PagesTyped' /\ PagesComplete'
<1>1. /\ reader'.at = at /\ reader'.filter = filter /\ reader'.pages = listed \o page
  BY DEF List
<1>2. PICK pages : pages = listed \o page OBVIOUS
<1>3. PagesTyped' BY <1>1 DEF PagesTyped
<1>4. PagesComplete' BY <1>1, <1>2, CompleteAfter
<1> QED BY <1>3, <1>4

LEMMA FirstPageKeeps ==
  ASSUME StoreInv, FirstPage
  PROVE  PagesTyped' /\ PagesComplete'
<1>1. PICK f \in Filters, n \in Limits : List(f, {}, n, <<>>) BY DEF FirstPage
<1>2. now' = now /\ base' = rows BY DEF FirstPage
<1>3. PICK k : k = Limit(n) OBVIOUS
<1>4. k \in Nat \ {0} BY <1>3, LimitType
<1>5. PICK page : page = ListAuditLogs(f, {}, Limit(n)) OBVIOUS
<1>6. PICK at : at = IF Len(page) < Limit(n) THEN "listed" ELSE "paging" OBVIOUS
<1>7. PICK found : found = {r \in Wanted(f, rows) : \A c \in {} : Precedes(r, c)} OBVIOUS
<1>8. found = Wanted(f, rows) BY <1>7 DEF Wanted
<1>9. PageFor(page, found, k) /\ found \subseteq RowsAt(0..now)
  <2>1. TypeOK BY DEF StoreInv
  <2>2. page = ListAuditLogs(f, {}, k) BY <1>3, <1>5
  <2> QED BY ONLY <2>1, <2>2, <1>4, <1>7, PageAnswer
<1>10. now \in Nat BY SizesAssumption DEF StoreInv, TypeOK
<1>11. PICK listed : listed = <<>> OBVIOUS
<1>12. listed \in Seq(RowsAt(0..now)) /\ DOMAIN listed = {} BY <1>11
<1>13. page \in Seq(RowsAt(0..now)) BY <1>9 DEF PageFor
<1>14. at = IF Len(page) < k THEN "listed" ELSE "paging" BY <1>3, <1>6
<1>15. /\ listed \o page \in Seq(RowsAt(0..now))
       /\ at = "paging" => listed \o page # <<>>
       /\ Complete(at, f, listed \o page, rows)
  BY <1>4, <1>8, <1>9, <1>10, <1>11, <1>12, <1>13, <1>14, PagesJoin
<1> QED BY <1>1, <1>2, <1>5, <1>6, <1>11, <1>15, ListedAfter

LEMMA NextPageKeeps ==
  ASSUME StoreInv, NextPage
  PROVE  PagesTyped' /\ PagesComplete'
<1>1. PICK f, n, listed : f = reader.filter /\ n = reader.limit /\ listed = reader.pages OBVIOUS
<1>2. PICK last : last = Last(listed) OBVIOUS
<1>3. List(f, {last}, n, listed) BY <1>1, <1>2 DEF NextPage
<1>4. now' = now /\ base' = base BY DEF NextPage
<1>5. PICK k : k = Limit(n) OBVIOUS
<1>6. k \in Nat \ {0} BY <1>5, LimitType
<1>7. PICK page : page = ListAuditLogs(f, {last}, Limit(n)) OBVIOUS
<1>8. PICK at : at = IF Len(page) < Limit(n) THEN "listed" ELSE "paging" OBVIOUS
<1>9. PICK found : found = {r \in Wanted(f, rows) : \A c \in {last} : Precedes(r, c)} OBVIOUS
<1>10. PageFor(page, found, k) /\ found \subseteq RowsAt(0..now)
  <2>1. TypeOK BY DEF StoreInv
  <2>2. PICK cursor : cursor = {last} OBVIOUS
  <2>3. page = ListAuditLogs(f, cursor, k) BY <1>5, <1>7, <2>2
  <2>4. found = {r \in Wanted(f, rows) : \A c \in cursor : Precedes(r, c)} BY <1>9, <2>2
  <2> QED BY ONLY <2>1, <2>3, <2>4, <1>6, PageAnswer
<1>11. now \in Nat BY SizesAssumption DEF StoreInv, TypeOK
<1>12. listed \in Seq(RowsAt(0..now)) BY <1>1 DEF StoreInv, PagesTyped, NextPage
<1>13. Complete("paging", f, listed, base) BY <1>1, CompleteOf DEF StoreInv, NextPage
<1>14. \A i, j \in DOMAIN listed : i < j => Precedes(listed[j], listed[i]) BY <1>13 DEF Complete
<1>15. \A i \in DOMAIN page : Precedes(page[i], last) BY <1>9, <1>10 DEF PageFor
<1>16. Wanted(f, base) \subseteq ToSet(listed) \cup found
  <2>1. Wanted(f, base) \subseteq Wanted(f, rows) BY DEF StoreInv, Wanted
  <2>2. \A r \in Wanted(f, base) : r \in ToSet(listed) \/ Precedes(r, last)
    BY <1>2, <1>13 DEF Complete
  <2> QED BY <2>1, <2>2, <1>9
<1>17. page \in Seq(RowsAt(0..now)) BY <1>10 DEF PageFor
<1>18. at = IF Len(page) < k THEN "listed" ELSE "paging" BY <1>5, <1>8
<1>19. /\ listed \o page \in Seq(RowsAt(0..now))
       /\ at = "paging" => listed \o page # <<>>
       /\ Complete(at, f, listed \o page, base)
  BY <1>2, <1>6, <1>10, <1>11, <1>12, <1>14, <1>15, <1>16, <1>17, <1>18, PagesJoin
<1> QED BY <1>3, <1>4, <1>7, <1>8, <1>19, ListedAfter

-----------------------------------------------------------------------------
(* The theorems. *)

LEMMA NextInv == StoreInv /\ [Next]_vars => StoreInv'
<1> SUFFICES ASSUME StoreInv, [Next]_vars PROVE StoreInv' OBVIOUS
<1>1. CASE Next
  <2>1. TypeOK'
    <3>1. now' \in 0..MaxTime /\ now <= now'
          /\ rows' \cup pending' \cup base' \cup ever' \subseteq RowsAt(0..now)
          /\ \A r, s \in rows' \cup pending' : r.id = s.id => r = s
      BY <1>1, RowsMove DEF StoreInv
    <3>2. now \in Nat /\ now' \in Nat BY <3>1, SizesAssumption DEF StoreInv, TypeOK
    <3>3. RowsAt(0..now) \subseteq RowsAt(0..now') BY <3>1, <3>2, TimePasses
    <3>4. /\ pruner' \in [at : {"off", "waiting", "sweeping", "stopped"},
                          cutoff : -Retention..MaxTime]
          /\ faults' \in 0..MaxFaults
      BY <1>1, PrunerMoves DEF StoreInv
    <3> QED BY <3>1, <3>3, <3>4 DEF TypeOK
  <2>2. PrunerSound' BY <1>1, PrunerMoves DEF StoreInv
  <2>3. base' \subseteq rows' BY <1>1, RowsMove DEF StoreInv
  <2>4. PagesTyped' /\ PagesComplete' BY <1>1, PagesStay, FirstPageKeeps, NextPageKeeps
  <2> QED BY <2>1, <2>2, <2>3, <2>4 DEF StoreInv
<1>2. CASE UNCHANGED vars
  BY <1>2 DEF vars, StoreInv, TypeOK, PrunerSound, PagesTyped, PagesComplete
<1> QED BY <1>1, <1>2

\* The invariant of the store holds whatever the writer, the pruner and the
\* reader do.
THEOREM StoreInvariant == Spec => []StoreInv
<1>1. Init => StoreInv BY InitType DEF StoreInv
<1> QED BY <1>1, NextInv, PTL DEF Spec

\* Rows have unique ids and the time of their insert, and the pruner's cutoff
\* stays in its range (audit_logs.sql.go, pruner.go).
THEOREM StoreTyped == Spec => []TypeOK
<1>1. StoreInv => TypeOK BY DEF StoreInv
<1> QED BY <1>1, StoreInvariant, PTL

\* For any number of rows, page size and filter, cursor paging shows each row
\* that matched throughout exactly once and newest first, although rows are
\* inserted, committed late and pruned between two pages (ListAuditLogs).
THEOREM PagesLoseNothing == Spec => []PagesComplete
<1>1. StoreInv => PagesComplete BY DEF StoreInv
<1> QED BY <1>1, StoreInvariant, PTL

\* No statement of the pruner deletes a row younger than the retention, however
\* long ago its sweep computed the cutoff (pruneOnce).
THEOREM OnlyExpiredRowsPruned == Spec => OnlyExpiredPruned
<1>1. StoreInv /\ [Next]_vars =>
        [\A r \in rows \ rows' : Retention # 0 /\ r.time + Retention < now]_vars
  <2> SUFFICES ASSUME StoreInv, Next, NEW r \in rows \ rows'
               PROVE  Retention # 0 /\ r.time + Retention < now
    BY DEF vars
  <2>1. PruneOnce
    <3>1. CASE Tick \/ BeginAuditLog \/ CreateAuditLog \/ PruneFails \/ Stop \/ Sweep \/ Run
      BY <3>1 DEF Tick, BeginAuditLog, CreateAuditLog, PruneFails, Stop, Sweep, Run
    <3>2. CASE Reader
      BY <3>2 DEF Reader, FirstPage, NextPage, Summary, Daily, Models, Sources, Ask, Close
    <3> QED BY <3>1, <3>2 DEF Next, Pruner
  <2>2. PICK batch \in SUBSET rows : pruner.at = "sweeping" /\ DeleteAuditLogsBefore(batch)
    BY <2>1 DEF PruneOnce
  <2>3. r \in batch BY <2>2 DEF DeleteAuditLogsBefore
  <2>4. r.time < pruner.cutoff BY <2>2, <2>3, BatchExpired
  <2>5. Retention # 0 /\ pruner.cutoff <= now - Retention BY <2>2 DEF StoreInv, PrunerSound
  <2>6. now \in Nat /\ pruner.cutoff \in Int /\ Retention \in Nat
    BY SizesAssumption DEF StoreInv, TypeOK
  <2>7. r.time \in Nat BY <2>6, RowTypes DEF StoreInv, TypeOK
  <2> QED BY <2>4, <2>5, <2>6, <2>7
<1> QED BY <1>1, StoreInvariant, PTL DEF Spec, OnlyExpiredPruned

-----------------------------------------------------------------------------
(* Sums over finite sets. *)

\* Of finite sets, one is smallest.
LEMMA Smallest ==
  ASSUME NEW U, U # {}, \A s \in U : IsFiniteSet(s)
  PROVE  \E s \in U : \A t \in U : Cardinality(s) <= Cardinality(t)
<1> DEFINE N == {Cardinality(s) : s \in U}
           R == OpToRel(<, Nat)
<1>1. \A s \in U : Cardinality(s) \in Nat BY FS_CardinalityType
<1>2. N \in SUBSET Nat /\ N # {} BY <1>1
<1>3. IsWellFoundedOn(R, Nat) BY NatLessThanWellFounded
<1>4. PICK x \in N : \A y \in N : ~(<<y, x>> \in R)
  <2> HIDE DEF N, R
  <2> QED BY <1>2, <1>3, WFMin
<1>5. \A y \in N : ~(y < x) BY <1>2, <1>4 DEF OpToRel
<1>6. PICK s \in U : Cardinality(s) = x OBVIOUS
<1>7. ASSUME NEW t \in U PROVE Cardinality(s) <= Cardinality(t)
  <2>1. ~(Cardinality(t) < Cardinality(s)) BY <1>5, <1>6
  <2> QED BY <1>1, <2>1
<1> QED BY <1>7

LEMMA LessOne ==
  ASSUME NEW s, IsFiniteSet(s), NEW x \in s
  PROVE  /\ IsFiniteSet(s \ {x}) /\ Cardinality(s \ {x}) = Cardinality(s) - 1
         /\ Cardinality(s) \in Nat /\ Cardinality(s \ {x}) \in Nat
         /\ ~(Cardinality(s) <= Cardinality(s \ {x}))
<1>1. IsFiniteSet(s \ {x}) /\ Cardinality(s \ {x}) = Cardinality(s) - 1
  BY FS_RemoveElement
<1>2. Cardinality(s) \in Nat /\ Cardinality(s \ {x}) \in Nat BY <1>1, FS_CardinalityType
<1> QED BY <1>1, <1>2

\* The fold behind a sum: one element of a set, then the others.
First(s) == CHOOSE x \in s : TRUE
Folded(v, f, s) == IF s = {} THEN 0 ELSE v[First(s)] + f[s \ {First(s)}]
Fold(v, S, f) == f = [s \in SUBSET S |-> Folded(v, f, s)]

LEMMA FoldExists ==
  ASSUME NEW S, IsFiniteSet(S), NEW v, \A x \in S : v[x] \in Nat
  PROVE  \E f : Fold(v, S, f)
<1> DEFINE UpTo(n) == {s \in SUBSET S : Cardinality(s) <= n}
           FoldedTo(n) == \E f \in [UpTo(n) -> Nat] : \A s \in UpTo(n) : f[s] = Folded(v, f, s)
           N == {n \in Nat : ~FoldedTo(n)}
<1>0. \A s \in SUBSET S : IsFiniteSet(s) /\ Cardinality(s) \in Nat /\ Cardinality(s) <= Cardinality(S)
  BY FS_Subset, FS_CardinalityType
<1>1. ASSUME NEW n \in Nat, \A m \in N : n <= m PROVE FoldedTo(n)
  <2>1. CASE n = 0
    <3> DEFINE f == [s \in UpTo(n) |-> 0]
    <3>1. \A s \in UpTo(n) : s = {}
      <4> TAKE s \in UpTo(n)
      <4>1. s \in SUBSET S /\ Cardinality(s) <= n OBVIOUS
      <4>2. IsFiniteSet(s) /\ Cardinality(s) = 0 BY <4>1, <1>0, <2>1
      <4> QED BY <4>2, FS_EmptySet
    <3>2. f \in [UpTo(n) -> Nat] /\ \A s \in UpTo(n) : f[s] = Folded(v, f, s) BY <3>1 DEF Folded
    <3> QED BY <3>2
  <2>2. CASE n # 0
    <3>1. n - 1 \in Nat /\ ~(n <= n - 1) BY <2>2
    <3>2. FoldedTo(n - 1)
      <4> HIDE DEF FoldedTo
      <4> QED BY <1>1, <3>1
    <3>3. PICK f \in [UpTo(n - 1) -> Nat] : \A s \in UpTo(n - 1) : f[s] = Folded(v, f, s) BY <3>2
    <3> DEFINE g == [s \in UpTo(n) |-> Folded(v, f, s)]
    <3>4. ASSUME NEW s \in UpTo(n), s # {}
          PROVE  s \ {First(s)} \in UpTo(n - 1) /\ s \ {First(s)} \in UpTo(n) /\ First(s) \in S
      <4>1. s \in SUBSET S /\ Cardinality(s) <= n OBVIOUS
      <4>2. First(s) \in s BY <3>4 DEF First
      <4>3. IsFiniteSet(s) BY <4>1, <1>0
      <4>4. Cardinality(s \ {First(s)}) = Cardinality(s) - 1 /\ Cardinality(s) \in Nat
        BY <4>2, <4>3, LessOne
      <4>5. Cardinality(s \ {First(s)}) <= n - 1 /\ Cardinality(s \ {First(s)}) <= n BY <4>1, <4>4
      <4> QED BY <4>1, <4>2, <4>5
    <3>5. \A s \in UpTo(n) : Folded(v, f, s) \in Nat
      <4> TAKE s \in UpTo(n)
      <4>1. CASE s = {} BY <4>1 DEF Folded
      <4>2. CASE s # {}
        <5>1. v[First(s)] \in Nat /\ f[s \ {First(s)}] \in Nat BY <3>4, <4>2
        <5> QED BY <4>2, <5>1 DEF Folded
      <4> QED BY <4>1, <4>2
    <3>6. g \in [UpTo(n) -> Nat] BY <3>5
    <3>7. ASSUME NEW s \in UpTo(n) PROVE g[s] = Folded(v, g, s)
      <4>1. CASE s = {} BY <4>1 DEF Folded
      <4>2. CASE s # {}
        <5>1. PICK r : r = s \ {First(s)} OBVIOUS
        <5>2. r \in UpTo(n - 1) /\ r \in UpTo(n) BY <3>4, <4>2, <5>1
        <5>3. g[r] = f[r] BY <3>3, <5>2
        <5>4. g[s] = Folded(v, f, s) OBVIOUS
        <5> HIDE DEF g
        <5> QED BY <4>2, <5>1, <5>3, <5>4 DEF Folded
      <4> QED BY <4>1, <4>2
    <3> HIDE DEF g
    <3> QED BY <3>6, <3>7
  <2> QED BY <2>1, <2>2
<1>2. N = {}
  <2> DEFINE R == OpToRel(<, Nat)
  <2>1. IsWellFoundedOn(R, Nat) BY NatLessThanWellFounded
  <2>2. N \in SUBSET Nat OBVIOUS
  <2>3. ASSUME N # {} PROVE FALSE
    <3>1. PICK n \in N : \A m \in N : ~(<<m, n>> \in R)
      <4> HIDE DEF N, R
      <4> QED BY <2>1, <2>2, <2>3, WFMin
    <3>2. n \in Nat /\ ~FoldedTo(n) OBVIOUS
    <3>3. \A m \in N : ~(m < n) BY <3>1, <3>2 DEF OpToRel
    <3>4. \A m \in N : m \in Nat OBVIOUS
    <3> HIDE DEF N, FoldedTo
    <3>5. \A m \in N : n <= m BY <3>2, <3>3, <3>4
    <3> QED BY <1>1, <3>2, <3>5
  <2> QED BY <2>3
<1>3. PICK n \in Nat : n = Cardinality(S) BY FS_CardinalityType
<1>4. UpTo(n) = SUBSET S BY <1>0, <1>3
<1>5. FoldedTo(n)
  <2> HIDE DEF FoldedTo
  <2> QED BY <1>2
<1>6. PICK f \in [SUBSET S -> Nat] : \A s \in SUBSET S : f[s] = Folded(v, f, s) BY <1>4, <1>5
<1>7. f = [s \in SUBSET S |-> Folded(v, f, s)] BY <1>6
<1> QED BY <1>7 DEF Fold

\* A sum is a fold.
LEMMA SumFolds ==
  ASSUME NEW S, IsFiniteSet(S), NEW v, \A x \in S : v[x] \in Nat
  PROVE  \E f : Fold(v, S, f) /\ SumFunctionOnSet(v, S) = f[S]
<1> DEFINE f == CHOOSE f : f = [s \in SUBSET S |-> IF s = {} THEN 0
                                  ELSE v[CHOOSE x \in s : TRUE] + f[s \ {CHOOSE x \in s : TRUE}]]
<1>1. SumFunctionOnSet(v, S) = f[S] BY DEF SumFunctionOnSet, FoldFunctionOnSet, MapThenFoldSet
<1>2. PICK g : Fold(v, S, g) BY FoldExists
<1>3. g = [s \in SUBSET S |-> IF s = {} THEN 0
             ELSE v[CHOOSE x \in s : TRUE] + g[s \ {CHOOSE x \in s : TRUE}]]
  BY <1>2 DEF Fold, Folded, First
<1>4. f = [s \in SUBSET S |-> IF s = {} THEN 0
             ELSE v[CHOOSE x \in s : TRUE] + f[s \ {CHOOSE x \in s : TRUE}]]
  BY <1>3
<1>5. Fold(v, S, f)
  <2> HIDE DEF f
  <2> QED BY <1>4 DEF Fold, Folded, First
<1> QED BY <1>1, <1>5

\* In whatever order the elements are taken.
LEMMA FoldOrder ==
  ASSUME NEW S, IsFiniteSet(S), NEW v, \A x \in S : v[x] \in Nat, NEW f, Fold(v, S, f)
  PROVE  /\ f[{}] = 0
         /\ \A s \in SUBSET S : f[s] \in Nat /\ \A x \in s : f[s] = v[x] + f[s \ {x}]
<1> DEFINE Ordered(s) == f[s] \in Nat /\ \A x \in s : f[s] = v[x] + f[s \ {x}]
           U == {s \in SUBSET S : ~Ordered(s)}
<1>1. \A s \in SUBSET S : f[s] = Folded(v, f, s) BY DEF Fold
<1>2. \A s \in SUBSET S : IsFiniteSet(s) BY FS_Subset
<1>3. f[{}] = 0 BY <1>1 DEF Folded
<1>4. ASSUME NEW s \in SUBSET S, \A t \in U : Cardinality(s) <= Cardinality(t) PROVE Ordered(s)
  <2>1. CASE s = {} BY <1>3, <2>1
  <2>2. CASE s # {}
    <3>1. PICK p \in s : p = First(s) BY <2>2 DEF First
    <3>2. f[s] = v[p] + f[s \ {p}] BY <1>1, <2>2, <3>1 DEF Folded
    <3>3. \A x \in s : Ordered(s \ {x})
      <4> TAKE x \in s
      <4>1. ~(Cardinality(s) <= Cardinality(s \ {x})) BY <1>2, LessOne
      <4>2. s \ {x} \in SUBSET S /\ s \ {x} \notin U
        <5> HIDE DEF U
        <5> QED BY <1>4, <4>1
      <4> HIDE DEF Ordered
      <4> QED BY <4>2
    <3>4. \A x \in s : f[s \ {x}] \in Nat /\ v[x] \in Nat BY <3>3
    <3>5. ASSUME NEW x \in s PROVE f[s] = v[x] + f[s \ {x}]
      <4>1. CASE x = p BY <3>2, <4>1
      <4>2. CASE x # p
        <5>1. PICK r : r = (s \ {p}) \ {x} OBVIOUS
        <5>2. r = (s \ {x}) \ {p} BY <5>1
        <5>3. f[s \ {p}] = v[x] + f[r] BY <3>3, <4>2, <5>1
        <5>4. f[s \ {x}] = v[p] + f[r] BY <3>3, <4>2, <5>2
        <5>5. f[r] \in Nat
          <6>1. r \in SUBSET S BY <5>1
          <6>2. IsFiniteSet(s \ {p}) /\ IsFiniteSet(s) BY <1>2
          <6>3. x \in s \ {p} BY <4>2
          <6>4. ~(Cardinality(s \ {p}) <= Cardinality(r))
            BY <5>1, <6>2, <6>3, LessOne
          <6>5. ~(Cardinality(s) <= Cardinality(s \ {p})) BY <6>2, LessOne
          <6>6. Cardinality(r) \in Nat /\ Cardinality(s \ {p}) \in Nat /\ Cardinality(s) \in Nat
            BY <1>2, <6>1, FS_CardinalityType
          <6>7. ~(Cardinality(s) <= Cardinality(r)) BY <6>4, <6>5, <6>6
          <6>8. r \notin U
            <7> HIDE DEF U
            <7> QED BY <1>4, <6>7
          <6> QED BY <6>1, <6>8
        <5>6. v[x] \in Nat /\ v[p] \in Nat BY <3>4
        <5> QED BY ONLY <3>2, <5>3, <5>4, <5>5, <5>6
      <4> QED BY <4>1, <4>2
    <3>6. f[s] \in Nat BY <3>2, <3>4
    <3> QED BY <3>5, <3>6
  <2> QED BY <2>1, <2>2
<1>5. U = {}
  <2>1. ASSUME U # {} PROVE FALSE
    <3>1. \A s \in U : IsFiniteSet(s) BY <1>2
    <3>2. PICK s \in U : \A t \in U : Cardinality(s) <= Cardinality(t)
      <4> HIDE DEF U
      <4> QED BY <2>1, <3>1, Smallest
    <3>3. s \in SUBSET S /\ ~Ordered(s) OBVIOUS
    <3> HIDE DEF U, Ordered
    <3> QED BY <1>4, <3>2, <3>3
  <2> QED BY <2>1
<1> QED BY <1>3, <1>5

\* A fold over a subset has the same value.
LEMMA FoldsAgree ==
  ASSUME NEW S, IsFiniteSet(S), NEW T \in SUBSET S, NEW v,
         NEW f, Fold(v, S, f), NEW g, Fold(v, T, g)
  PROVE  f[T] = g[T]
<1> DEFINE U == {s \in SUBSET T : f[s] # g[s]}
<1>1. \A s \in SUBSET T : IsFiniteSet(s) BY FS_Subset
<1>2. \A s \in SUBSET T : f[s] = Folded(v, f, s) /\ g[s] = Folded(v, g, s) BY DEF Fold
<1>3. ASSUME U # {} PROVE FALSE
  <2>1. \A s \in U : IsFiniteSet(s) BY <1>1
  <2>2. PICK s \in U : \A t \in U : Cardinality(s) <= Cardinality(t)
    <3> HIDE DEF U
    <3> QED BY <1>3, <2>1, Smallest
  <2>3. s \in SUBSET T /\ f[s] # g[s] OBVIOUS
  <2>4. s # {} BY <1>2, <2>3 DEF Folded
  <2>5. PICK p \in s : p = First(s) BY <2>4 DEF First
  <2>6. ~(Cardinality(s) <= Cardinality(s \ {p})) BY <1>1, <2>3, LessOne
  <2>7. s \ {p} \in SUBSET T /\ s \ {p} \notin U
    <3> HIDE DEF U
    <3> QED BY <2>2, <2>3, <2>6
  <2>8. f[s \ {p}] = g[s \ {p}] BY <2>7
  <2> HIDE DEF U
  <2> QED BY <1>2, <2>3, <2>4, <2>5, <2>8 DEF Folded
<1> QED BY <1>3

\* A sum is a number, and any element of the set can be taken out of it.
LEMMA SumType ==
  ASSUME NEW S, IsFiniteSet(S), NEW v, \A x \in S : v[x] \in Nat
  PROVE  SumFunctionOnSet(v, S) \in Nat /\ (S = {} => SumFunctionOnSet(v, S) = 0)
<1>1. PICK f : Fold(v, S, f) /\ SumFunctionOnSet(v, S) = f[S] BY SumFolds
<1>2. S \in SUBSET S OBVIOUS
<1>3. f[S] \in Nat /\ f[{}] = 0 BY <1>1, <1>2, FoldOrder
<1> QED BY <1>1, <1>3

LEMMA SumWithout ==
  ASSUME NEW S, IsFiniteSet(S), NEW v, \A x \in S : v[x] \in Nat, NEW x \in S
  PROVE  /\ IsFiniteSet(S \ {x}) /\ v[x] \in Nat
         /\ SumFunctionOnSet(v, S \ {x}) \in Nat
         /\ SumFunctionOnSet(v, S) = v[x] + SumFunctionOnSet(v, S \ {x})
<1>1. PICK T \in SUBSET S : T = S \ {x} OBVIOUS
<1>2. IsFiniteSet(T) BY FS_Subset
<1>3. PICK f : Fold(v, S, f) /\ SumFunctionOnSet(v, S) = f[S] BY SumFolds
<1>4. PICK g : Fold(v, T, g) /\ SumFunctionOnSet(v, T) = g[T] BY <1>2, SumFolds
<1>5. f[T] = g[T] BY <1>3, <1>4, FoldsAgree
<1>6. f[S] = v[x] + f[T] BY <1>1, <1>3, FoldOrder
<1>7. SumFunctionOnSet(v, T) \in Nat BY <1>2, SumType
<1> QED BY <1>1, <1>2, <1>3, <1>4, <1>5, <1>6, <1>7

\* No smallest set for which something fails: s fails, and without any element it holds.
Fails(U, s) == s \in U /\ \A x \in s : s \ {x} \notin U

LEMMA LeastFailure ==
  ASSUME NEW S, IsFiniteSet(S), NEW U \in SUBSET SUBSET S, U # {}
  PROVE  \E s \in SUBSET S : Fails(U, s) /\ IsFiniteSet(s)
<1>1. \A s \in U : IsFiniteSet(s) BY FS_Subset
<1>2. PICK s \in U : \A t \in U : Cardinality(s) <= Cardinality(t) BY <1>1, Smallest
<1>3. \A x \in s : ~(Cardinality(s) <= Cardinality(s \ {x})) BY <1>1, LessOne
<1>4. \A x \in s : s \ {x} \notin U BY <1>2, <1>3
<1> QED BY <1>1, <1>4 DEF Fails

\* Larger summands, a larger sum.
LEMMA SumLess ==
  ASSUME NEW S, IsFiniteSet(S), NEW v, NEW w,
         \A x \in S : v[x] \in Nat /\ w[x] \in Nat /\ v[x] <= w[x]
  PROVE  SumFunctionOnSet(v, S) <= SumFunctionOnSet(w, S)
<1> DEFINE U == {s \in SUBSET S : ~(SumFunctionOnSet(v, s) <= SumFunctionOnSet(w, s))}
<1>1. ASSUME NEW s \in SUBSET S, Fails(U, s), IsFiniteSet(s) PROVE FALSE
  <2>1. \A x \in s : v[x] \in Nat /\ w[x] \in Nat /\ v[x] <= w[x] OBVIOUS
  <2>2. ~(SumFunctionOnSet(v, s) <= SumFunctionOnSet(w, s)) BY <1>1 DEF Fails
  <2>3. s # {} BY <2>1, <2>2, <1>1, SumType
  <2>4. PICK x \in s : TRUE BY <2>3
  <2>5. SumFunctionOnSet(v, s \ {x}) <= SumFunctionOnSet(w, s \ {x})
    BY <1>1 DEF Fails
  <2>6. /\ SumFunctionOnSet(v, s) = v[x] + SumFunctionOnSet(v, s \ {x})
        /\ SumFunctionOnSet(v, s \ {x}) \in Nat
    BY <1>1, <2>1, SumWithout
  <2>7. /\ SumFunctionOnSet(w, s) = w[x] + SumFunctionOnSet(w, s \ {x})
        /\ SumFunctionOnSet(w, s \ {x}) \in Nat
    BY <1>1, <2>1, SumWithout
  <2>8. v[x] \in Nat /\ w[x] \in Nat /\ v[x] <= w[x] BY <2>1
  <2> QED BY ONLY <2>2, <2>5, <2>6, <2>7, <2>8
<1>2. U = {}
  <2>1. U \in SUBSET SUBSET S OBVIOUS
  <2> HIDE DEF U
  <2> QED BY <1>1, <2>1, LeastFailure
<1> QED BY <1>2

\* The same summands, the same sum.
LEMMA SumSame ==
  ASSUME NEW S, IsFiniteSet(S), NEW v, NEW w, \A x \in S : v[x] \in Nat /\ w[x] = v[x]
  PROVE  SumFunctionOnSet(w, S) = SumFunctionOnSet(v, S)
<1>1. \A x \in S : v[x] \in Nat /\ w[x] \in Nat /\ v[x] <= w[x] /\ w[x] <= v[x] OBVIOUS
<1>2. SumFunctionOnSet(v, S) \in Nat BY <1>1, SumType
<1>3. SumFunctionOnSet(w, S) \in Nat BY <1>1, SumType
<1>4. SumFunctionOnSet(v, S) <= SumFunctionOnSet(w, S) BY <1>1, SumLess
<1>5. SumFunctionOnSet(w, S) <= SumFunctionOnSet(v, S) BY <1>1, SumLess
<1> QED BY ONLY <1>2, <1>3, <1>4, <1>5

\* The sum over a part is no larger.
LEMMA SumPart ==
  ASSUME NEW S, IsFiniteSet(S), NEW T \in SUBSET S, NEW v, \A x \in S : v[x] \in Nat
  PROVE  SumFunctionOnSet(v, T) <= SumFunctionOnSet(v, S)
<1> DEFINE U == {s \in SUBSET S : T \subseteq s /\
                                  ~(SumFunctionOnSet(v, T) <= SumFunctionOnSet(v, s))}
<1>0. SumFunctionOnSet(v, T) \in Nat
  <2>1. IsFiniteSet(T) /\ \A x \in T : v[x] \in Nat BY FS_Subset
  <2> QED BY <2>1, SumType
<1>1. ASSUME NEW s \in SUBSET S, Fails(U, s), IsFiniteSet(s) PROVE FALSE
  <2>1. \A x \in s : v[x] \in Nat OBVIOUS
  <2>2. T \subseteq s /\ ~(SumFunctionOnSet(v, T) <= SumFunctionOnSet(v, s)) BY <1>1 DEF Fails
  <2>3. s # T BY <1>0, <2>2
  <2>4. PICK x \in s : x \notin T BY <2>2, <2>3
  <2>5. SumFunctionOnSet(v, T) <= SumFunctionOnSet(v, s \ {x}) BY <1>1, <2>2, <2>4 DEF Fails
  <2>6. /\ SumFunctionOnSet(v, s) = v[x] + SumFunctionOnSet(v, s \ {x})
        /\ SumFunctionOnSet(v, s \ {x}) \in Nat
    BY <1>1, <2>1, SumWithout
  <2>7. v[x] \in Nat BY <2>1
  <2> QED BY ONLY <1>0, <2>2, <2>5, <2>6, <2>7
<1>2. U = {}
  <2>1. U \in SUBSET SUBSET S OBVIOUS
  <2> HIDE DEF U
  <2> QED BY <1>1, <2>1, LeastFailure
<1>3. S \in SUBSET S /\ S \notin U BY <1>2
<1> QED BY <1>3

\* To count is to sum ones.
LEMMA SumOnes ==
  ASSUME NEW S, IsFiniteSet(S), NEW v, \A x \in S : v[x] = 1
  PROVE  SumFunctionOnSet(v, S) = Cardinality(S)
<1> DEFINE U == {s \in SUBSET S : SumFunctionOnSet(v, s) # Cardinality(s)}
<1>1. ASSUME NEW s \in SUBSET S, Fails(U, s), IsFiniteSet(s) PROVE FALSE
  <2>1. \A x \in s : v[x] \in Nat /\ v[x] = 1 OBVIOUS
  <2>2. SumFunctionOnSet(v, s) # Cardinality(s) BY <1>1 DEF Fails
  <2>3. s # {}
    <3>1. CASE s = {}
      <4>1. SumFunctionOnSet(v, s) = 0 BY <2>1, <1>1, <3>1, SumType
      <4>2. Cardinality(s) = 0 BY <3>1, FS_EmptySet
      <4> QED BY <2>2, <4>1, <4>2
    <3> QED BY <3>1
  <2>4. PICK x \in s : TRUE BY <2>3
  <2>5. SumFunctionOnSet(v, s \ {x}) = Cardinality(s \ {x}) BY <1>1 DEF Fails
  <2>6. SumFunctionOnSet(v, s) = v[x] + SumFunctionOnSet(v, s \ {x}) BY <1>1, <2>1, SumWithout
  <2>7. Cardinality(s \ {x}) = Cardinality(s) - 1 /\ Cardinality(s) \in Nat BY <1>1, LessOne
  <2>8. v[x] = 1 BY <2>1
  <2> QED BY ONLY <2>2, <2>5, <2>6, <2>7, <2>8
<1>2. U = {}
  <2>1. U \in SUBSET SUBSET S OBVIOUS
  <2> HIDE DEF U
  <2> QED BY <1>1, <2>1, LeastFailure
<1> QED BY <1>2

LEMMA SumZeros ==
  ASSUME NEW S, IsFiniteSet(S), NEW v, \A x \in S : v[x] = 0
  PROVE  SumFunctionOnSet(v, S) = 0
<1> DEFINE U == {s \in SUBSET S : SumFunctionOnSet(v, s) # 0}
<1>1. ASSUME NEW s \in SUBSET S, Fails(U, s), IsFiniteSet(s) PROVE FALSE
  <2>1. \A x \in s : v[x] \in Nat /\ v[x] = 0 OBVIOUS
  <2>2. SumFunctionOnSet(v, s) # 0 BY <1>1 DEF Fails
  <2>3. s # {} BY <2>1, <2>2, <1>1, SumType
  <2>4. PICK x \in s : TRUE BY <2>3
  <2>5. SumFunctionOnSet(v, s \ {x}) = 0 BY <1>1 DEF Fails
  <2>6. SumFunctionOnSet(v, s) = v[x] + SumFunctionOnSet(v, s \ {x}) BY <1>1, <2>1, SumWithout
  <2>7. v[x] = 0 BY <2>1
  <2> QED BY ONLY <2>2, <2>5, <2>6, <2>7
<1>2. U = {}
  <2>1. U \in SUBSET SUBSET S OBVIOUS
  <2> HIDE DEF U
  <2> QED BY <1>1, <2>1, LeastFailure
<1> QED BY <1>2

\* The sums of the parts of a set, by a key of its elements, add up to its sum.
Part(S, k, d) == {x \in S : k[x] = d}
PartSums(v, S, k, K) == [d \in K |-> SumFunctionOnSet(v, Part(S, k, d))]

LEMMA SumParts ==
  ASSUME NEW S, IsFiniteSet(S), NEW v, \A x \in S : v[x] \in Nat,
         NEW k, NEW K, IsFiniteSet(K), \A x \in S : k[x] \in K
  PROVE  SumFunctionOnSet(PartSums(v, S, k, K), K) = SumFunctionOnSet(v, S)
<1> DEFINE P(s) == PartSums(v, s, k, K)
           U == {s \in SUBSET S : SumFunctionOnSet(P(s), K) # SumFunctionOnSet(v, s)}
<1>1. ASSUME NEW s \in SUBSET S, Fails(U, s), IsFiniteSet(s) PROVE FALSE
  <2>1. \A x \in s : v[x] \in Nat OBVIOUS
  <2>2. SumFunctionOnSet(P(s), K) # SumFunctionOnSet(v, s) BY <1>1 DEF Fails
  <2>3. \A r \in SUBSET s : \A d \in K :
          P(r)[d] = SumFunctionOnSet(v, Part(r, k, d)) /\ P(r)[d] \in Nat
    <3> TAKE r \in SUBSET s
    <3> TAKE d \in K
    <3>1. PICK T \in SUBSET s : T = Part(r, k, d) BY DEF Part
    <3>2. IsFiniteSet(T) /\ \A x \in T : v[x] \in Nat BY <1>1, <2>1, FS_Subset
    <3>3. SumFunctionOnSet(v, T) \in Nat BY <3>2, SumType
    <3>4. P(r)[d] = SumFunctionOnSet(v, Part(r, k, d)) BY DEF PartSums
    <3> QED BY <3>1, <3>3, <3>4
  <2>4. CASE s = {}
    <3>1. \A d \in K : P(s)[d] = 0
      <4> TAKE d \in K
      <4>1. Part(s, k, d) = {} BY <2>4 DEF Part
      <4>2. SumFunctionOnSet(v, {}) = 0 BY SumType, FS_EmptySet
      <4> HIDE DEF P
      <4> QED BY <2>3, <4>1, <4>2
    <3> HIDE DEF P
    <3>2. SumFunctionOnSet(P(s), K) = 0 BY <3>1, SumZeros
    <3>3. SumFunctionOnSet(v, s) = 0 BY <1>1, <2>1, <2>4, SumType
    <3> QED BY <2>2, <3>2, <3>3
  <2>5. CASE s # {}
    <3>1. PICK x \in s : TRUE BY <2>5
    <3>2. PICK r \in SUBSET s : r = s \ {x} OBVIOUS
    <3>3. SumFunctionOnSet(P(r), K) = SumFunctionOnSet(v, r)
      <4>1. r \in SUBSET S /\ r \notin U BY <1>1, <3>2 DEF Fails
      <4> HIDE DEF P
      <4> QED BY <4>1
    <3>4. SumFunctionOnSet(v, s) = v[x] + SumFunctionOnSet(v, r) /\ SumFunctionOnSet(v, r) \in Nat
      BY <1>1, <2>1, <3>2, SumWithout
    <3>5. PICK e \in K : e = k[x] OBVIOUS
    <3>6. P(s)[e] = v[x] + P(r)[e]
      <4>1. PICK T \in SUBSET s : T = Part(s, k, e) BY DEF Part
      <4>2. x \in T /\ Part(r, k, e) = T \ {x} BY <3>2, <3>5, <4>1 DEF Part
      <4>3. IsFiniteSet(T) /\ \A y \in T : v[y] \in Nat BY <1>1, <2>1, FS_Subset
      <4>4. SumFunctionOnSet(v, T) = v[x] + SumFunctionOnSet(v, T \ {x})
        BY <4>2, <4>3, SumWithout
      <4>5. P(s)[e] = SumFunctionOnSet(v, Part(s, k, e)) BY <2>3
      <4>6. P(r)[e] = SumFunctionOnSet(v, Part(r, k, e)) BY <2>3
      <4> HIDE DEF P
      <4> QED BY <4>1, <4>2, <4>4, <4>5, <4>6
    <3>7. \A d \in K \ {e} : P(s)[d] = P(r)[d]
      <4> TAKE d \in K \ {e}
      <4>1. Part(s, k, d) = Part(r, k, d) BY <3>2, <3>5 DEF Part
      <4>2. P(s)[d] = SumFunctionOnSet(v, Part(s, k, d)) BY <2>3
      <4>3. P(r)[d] = SumFunctionOnSet(v, Part(r, k, d)) BY <2>3
      <4> HIDE DEF P
      <4> QED BY <4>1, <4>2, <4>3
    <3> HIDE DEF P, U
    <3>8. s \in SUBSET s OBVIOUS
    <3>9. \A d \in K : P(s)[d] \in Nat /\ P(r)[d] \in Nat BY <2>3, <3>8
    <3>10. /\ SumFunctionOnSet(P(s), K) = P(s)[e] + SumFunctionOnSet(P(s), K \ {e})
           /\ SumFunctionOnSet(P(s), K \ {e}) \in Nat
      BY <3>9, SumWithout
    <3>11. /\ SumFunctionOnSet(P(r), K) = P(r)[e] + SumFunctionOnSet(P(r), K \ {e})
           /\ SumFunctionOnSet(P(r), K \ {e}) \in Nat
      BY <3>9, SumWithout
    <3>12. SumFunctionOnSet(P(s), K \ {e}) = SumFunctionOnSet(P(r), K \ {e})
      <4>1. PICK L : L = K \ {e} OBVIOUS
      <4>2. IsFiniteSet(L) /\ \A d \in L : P(r)[d] \in Nat /\ P(s)[d] = P(r)[d]
        BY <3>7, <3>9, <4>1, FS_RemoveElement
      <4> QED BY <4>1, <4>2, SumSame
    <3>13. v[x] \in Nat /\ P(r)[e] \in Nat BY <2>1, <3>9
    <3> QED BY ONLY <2>2, <3>3, <3>4, <3>6, <3>10, <3>11, <3>12, <3>13
  <2> QED BY <2>4, <2>5
<1>2. U = {}
  <2>1. U \in SUBSET SUBSET S OBVIOUS
  <2> HIDE DEF U
  <2> QED BY <1>1, <2>1, LeastFailure
<1> QED BY <1>2

-----------------------------------------------------------------------------
(* The figures of a report. *)

\* What the queries need of the rows in a window.
Counted(S) == IsFiniteSet(S) /\ \A r \in S : r.entry.tokens \in Nat

LEMMA CountedPart ==
  ASSUME NEW S, Counted(S), NEW T \in SUBSET S
  PROVE  Counted(T)
<1>1. IsFiniteSet(T) BY FS_Subset DEF Counted
<1> QED BY <1>1 DEF Counted

Tokens(S) == [r \in S |-> r.entry.tokens]

LEMMA TokensSum ==
  ASSUME NEW S, Counted(S), NEW T \in SUBSET S
  PROVE  TokensOf(T) = SumFunctionOnSet(Tokens(S), T) /\ TokensOf(T) \in Nat
<1>1. IsFiniteSet(T) /\ \A r \in T : r.entry.tokens \in Nat BY CountedPart DEF Counted
<1>2. TokensOf(T) = SumFunctionOnSet(Tokens(T), T) BY DEF TokensOf, SumFunction, Tokens
<1>3. \A r \in T : Tokens(S)[r] \in Nat /\ Tokens(T)[r] = Tokens(S)[r] BY <1>1 DEF Tokens
<1>4. SumFunctionOnSet(Tokens(T), T) = SumFunctionOnSet(Tokens(S), T) BY <1>1, <1>3, SumSame
<1>5. SumFunctionOnSet(Tokens(S), T) \in Nat BY <1>1, <1>3, SumType
<1> QED BY <1>2, <1>4, <1>5

\* Fewer rows, no larger figures.
LEMMA TokensLess ==
  ASSUME NEW S, Counted(S), NEW T \in SUBSET S
  PROVE  TokensOf(T) <= TokensOf(S)
<1>1. IsFiniteSet(S) /\ \A r \in S : Tokens(S)[r] \in Nat BY DEF Counted, Tokens
<1>2. SumFunctionOnSet(Tokens(S), T) <= SumFunctionOnSet(Tokens(S), S) BY <1>1, SumPart
<1>3. S \in SUBSET S OBVIOUS
<1> QED BY <1>2, <1>3, TokensSum

\* What the lines of a table, one for each key, add up to.
LEMMA LinesCount ==
  ASSUME NEW S, IsFiniteSet(S), NEW k, NEW K, IsFiniteSet(K), \A r \in S : k[r] \in K,
         NEW p, DOMAIN p = K, \A d \in K : p[d] = Cardinality(Part(S, k, d))
  PROVE  SumFunction(p) = Cardinality(S)
<1> DEFINE ones == [r \in S |-> 1]
<1>1. \A r \in S : ones[r] = 1 /\ ones[r] \in Nat OBVIOUS
<1> HIDE DEF ones
<1>2. SumFunctionOnSet(PartSums(ones, S, k, K), K) = SumFunctionOnSet(ones, S)
  BY <1>1, SumParts
<1>3. SumFunctionOnSet(ones, S) = Cardinality(S) BY <1>1, SumOnes
<1>4. ASSUME NEW d \in K
      PROVE  PartSums(ones, S, k, K)[d] = p[d] /\ p[d] \in Nat
  <2>1. PICK T \in SUBSET S : T = Part(S, k, d) BY DEF Part
  <2>2. IsFiniteSet(T) /\ \A r \in T : ones[r] = 1 BY <1>1, FS_Subset
  <2>3. SumFunctionOnSet(ones, T) = Cardinality(T) BY <2>2, SumOnes
  <2>4. Cardinality(T) \in Nat BY <2>2, FS_CardinalityType
  <2>5. PartSums(ones, S, k, K)[d] = SumFunctionOnSet(ones, T) BY <2>1 DEF PartSums
  <2> QED BY <2>1, <2>3, <2>4, <2>5
<1>5. SumFunctionOnSet(PartSums(ones, S, k, K), K) = SumFunctionOnSet(p, K) BY <1>4, SumSame
<1> QED BY <1>2, <1>3, <1>5 DEF SumFunction

LEMMA LinesTokens ==
  ASSUME NEW S, Counted(S), NEW k, NEW K, IsFiniteSet(K), \A r \in S : k[r] \in K,
         NEW p, DOMAIN p = K, \A d \in K : p[d] = TokensOf(Part(S, k, d))
  PROVE  SumFunction(p) = TokensOf(S)
<1>1. IsFiniteSet(S) /\ \A r \in S : Tokens(S)[r] \in Nat BY DEF Counted, Tokens
<1>2. SumFunctionOnSet(PartSums(Tokens(S), S, k, K), K) = SumFunctionOnSet(Tokens(S), S)
  BY <1>1, SumParts
<1>3. S \in SUBSET S OBVIOUS
<1>4. SumFunctionOnSet(Tokens(S), S) = TokensOf(S) BY <1>3, TokensSum
<1>5. ASSUME NEW d \in K
      PROVE  PartSums(Tokens(S), S, k, K)[d] = p[d] /\ p[d] \in Nat
  <2>1. PICK T \in SUBSET S : T = Part(S, k, d) BY DEF Part
  <2>2. TokensOf(T) = SumFunctionOnSet(Tokens(S), T) /\ TokensOf(T) \in Nat BY TokensSum
  <2>3. PartSums(Tokens(S), S, k, K)[d] = SumFunctionOnSet(Tokens(S), T) BY <2>1 DEF PartSums
  <2> QED BY <2>1, <2>2, <2>3
<1>6. SumFunctionOnSet(PartSums(Tokens(S), S, k, K), K) = SumFunctionOnSet(p, K)
  BY <1>5, SumSame
<1> QED BY <1>2, <1>4, <1>6 DEF SumFunction

\* The keys of finitely many rows are finitely many.
LEMMA KeysFinite ==
  ASSUME NEW S, IsFiniteSet(S), NEW k, NEW K, K = {k[r] : r \in S}
  PROVE  IsFiniteSet(K)
<1> DEFINE f == [r \in S |-> k[r]]
<1>1. f \in Surjection(S, K) BY DEF Surjection
<1> QED BY <1>1, FS_Surjection

LEMMA SummaryFigures ==
  ASSUME NEW S, Counted(S)
  PROVE  /\ AuditSummary(S).total.requests = Requests(S)
         /\ AuditSummary(S).total.tokens = TokensOf(S)
         /\ AuditSummary(S).total.requests - AuditSummary(S).passed = Rejected(S)
<1>1. PICK P \in SUBSET S : P = Passed(S) BY DEF Passed
<1>2. PICK Q \in SUBSET S : Q = S \ P OBVIOUS
<1>3. IsFiniteSet(S) /\ IsFiniteSet(P) /\ IsFiniteSet(Q) BY FS_Subset DEF Counted
<1>4. Cardinality(S) \in Nat /\ Cardinality(P) \in Nat /\ Cardinality(Q) \in Nat
  BY <1>3, FS_CardinalityType
<1>5. P \cup Q = S /\ P \cap Q = {} BY <1>2
<1>6. Cardinality(S) = Cardinality(P) + Cardinality(Q) - 0
  <2>1. Cardinality(P \cup Q) = Cardinality(P) + Cardinality(Q) - Cardinality(P \cap Q)
    BY <1>3, FS_Union
  <2> QED BY <1>5, <2>1, FS_EmptySet
<1>7. /\ AuditSummary(S).total.requests = Cardinality(S)
      /\ AuditSummary(S).total.tokens = TokensOf(S)
      /\ AuditSummary(S).passed = Cardinality(P)
  BY <1>1 DEF AuditSummary, Totals
<1>8. Rejected(S) = Cardinality(Q) BY <1>1, <1>2 DEF Rejected
<1>9. Cardinality(S) - Cardinality(P) = Cardinality(Q) BY ONLY <1>4, <1>6
<1> QED BY <1>7, <1>8, <1>9 DEF Requests

LEMMA DailyFigures ==
  ASSUME NEW S, Counted(S), NEW daily, daily = AuditDailySeries(S)
  PROVE  /\ SumOf(daily, LAMBDA x : x.requests) = Requests(S)
         /\ SumOf(daily, LAMBDA x : x.tokens) = TokensOf(S)
<1> DEFINE k == [r \in S |-> r.time \div DayLength]
           K == {k[r] : r \in S}
           p == [d \in K |-> daily[d].requests]
           q == [d \in K |-> daily[d].tokens]
<1>0. IsFiniteSet(S) BY DEF Counted
<1>1. {r.time \div DayLength : r \in S} = K OBVIOUS
<1>2. ASSUME NEW d \in K
      PROVE  /\ daily[d].requests = Cardinality(Part(S, k, d))
             /\ daily[d].tokens = TokensOf(Part(S, k, d))
  <2>1. PICK T : T = {r \in S : r.time \div DayLength = d} OBVIOUS
  <2>2. T = Part(S, k, d) BY <2>1 DEF Part
  <2>3. daily[d] = Totals(T) BY <2>1 DEF AuditDailySeries
  <2> HIDE DEF k
  <2> QED BY <2>2, <2>3 DEF Totals
<1>3. DOMAIN daily = K BY <1>1 DEF AuditDailySeries
<1>4. /\ SumOf(daily, LAMBDA x : x.requests) = SumFunction(p)
      /\ SumOf(daily, LAMBDA x : x.tokens) = SumFunction(q)
  BY <1>3 DEF SumOf
<1> HIDE DEF k
<1>5. IsFiniteSet(K) /\ \A r \in S : k[r] \in K BY <1>0, KeysFinite
<1>6. DOMAIN p = K /\ \A d \in K : p[d] = Cardinality(Part(S, k, d)) BY <1>2
<1>7. DOMAIN q = K /\ \A d \in K : q[d] = TokensOf(Part(S, k, d)) BY <1>2
<1> HIDE DEF K, p, q
<1>8. SumFunction(p) = Cardinality(S) BY <1>0, <1>5, <1>6, LinesCount
<1>9. SumFunction(q) = TokensOf(S) BY <1>5, <1>7, LinesTokens
<1> QED BY <1>4, <1>8, <1>9 DEF Requests

LEMMA SourceFigures ==
  ASSUME NEW S, Counted(S), NEW sources, sources = AuditBySource(S)
  PROVE  /\ SumOf(sources, LAMBDA x : x.totals.requests) = Requests(S)
         /\ SumOf(sources, LAMBDA x : x.rejected) = Rejected(S)
<1> DEFINE k == [r \in S |-> r.entry.source]
           K == {k[r] : r \in S}
           p == [d \in K |-> sources[d].totals.requests]
           q == [d \in K |-> sources[d].rejected]
<1>0. IsFiniteSet(S) BY DEF Counted
<1>1. {r.entry.source : r \in S} = K OBVIOUS
<1>2. PICK R \in SUBSET S : R = S \ Passed(S) BY DEF Passed
<1>3. IsFiniteSet(R) BY <1>0, FS_Subset
<1>4. ASSUME NEW d \in K
      PROVE  /\ sources[d].totals.requests = Cardinality(Part(S, k, d))
             /\ sources[d].rejected = Cardinality(Part(R, k, d))
  <2>1. PICK T : T = {r \in S : r.entry.source = d} OBVIOUS
  <2>2. T = Part(S, k, d) BY <2>1 DEF Part
  <2>3. T \ Passed(T) = Part(R, k, d) BY <1>2, <2>1 DEF Part, Passed
  <2>4. sources[d] = [totals |-> Totals(T), rejected |-> Cardinality(T \ Passed(T))]
    BY <2>1 DEF AuditBySource
  <2> HIDE DEF k
  <2> QED BY <2>2, <2>3, <2>4 DEF Totals
<1>5. DOMAIN sources = K BY <1>1 DEF AuditBySource
<1>6. /\ SumOf(sources, LAMBDA x : x.totals.requests) = SumFunction(p)
      /\ SumOf(sources, LAMBDA x : x.rejected) = SumFunction(q)
  BY <1>5 DEF SumOf
<1> HIDE DEF k
<1>7. IsFiniteSet(K) /\ \A r \in S : k[r] \in K BY <1>0, KeysFinite
<1>8. \A r \in R : k[r] \in K BY <1>7
<1>9. DOMAIN p = K /\ \A d \in K : p[d] = Cardinality(Part(S, k, d)) BY <1>4
<1>10. DOMAIN q = K /\ \A d \in K : q[d] = Cardinality(Part(R, k, d)) BY <1>4
<1> HIDE DEF K, p, q
<1>11. SumFunction(p) = Cardinality(S) BY <1>0, <1>7, <1>9, LinesCount
<1>12. SumFunction(q) = Cardinality(R) BY <1>3, <1>7, <1>8, <1>10, LinesCount
<1> QED BY <1>2, <1>6, <1>11, <1>12 DEF Requests, Rejected

\* Rows without a model are in no line; a model is priced or not.
LEMMA ModelFigures ==
  ASSUME NEW S, Counted(S), NEW models, models = AuditByModel(S)
  PROVE  /\ EstimatedCost(models) = CostOf(S)
         /\ UnpricedRequests(models) = UnpricedOf(S)
<1> DEFINE known == {r \in S : r.entry.model # NoModel}
           k == [r \in S |-> r.entry.model]
           K == {k[r] : r \in known}
           A == {r \in S : r.entry.model \in Priced}
           B == {r \in S : r.entry.model \notin Priced \cup {NoModel}}
           p == [m \in DOMAIN models \cap Priced |-> models[m].tokens]
           q == [m \in DOMAIN models \ Priced |-> models[m].requests]
<1>1. IsFiniteSet(known) /\ IsFiniteSet(B) /\ Counted(A)
  <2>1. known \in SUBSET S /\ A \in SUBSET S /\ B \in SUBSET S OBVIOUS
  <2> HIDE DEF known, A, B
  <2>2. IsFiniteSet(S) BY DEF Counted
  <2>3. IsFiniteSet(known) /\ IsFiniteSet(B) BY <2>1, <2>2, FS_Subset
  <2>4. Counted(A) BY <2>1, CountedPart
  <2> QED BY <2>3, <2>4
<1>2. A \subseteq known /\ B \subseteq known BY EntryAssumption
<1>3. {r.entry.model : r \in known} = K OBVIOUS
<1>4. DOMAIN models = K /\ \A m \in K : models[m] = Totals({r \in known : r.entry.model = m})
  BY <1>3 DEF AuditByModel
<1>5. ASSUME NEW m \in K \cap Priced PROVE models[m].tokens = TokensOf(Part(A, k, m))
  <2>1. PICK T : T = {r \in known : r.entry.model = m} OBVIOUS
  <2>2. T = Part(A, k, m) BY <1>2, <2>1 DEF Part
  <2>3. models[m] = Totals(T) BY <1>4, <2>1
  <2> HIDE DEF k, A
  <2> QED BY <2>2, <2>3 DEF Totals
<1>6. ASSUME NEW m \in K \ Priced PROVE models[m].requests = Cardinality(Part(B, k, m))
  <2>1. PICK T : T = {r \in known : r.entry.model = m} OBVIOUS
  <2>2. T = Part(B, k, m) BY <1>2, <2>1 DEF Part
  <2>3. models[m] = Totals(T) BY <1>4, <2>1
  <2> HIDE DEF k, B
  <2> QED BY <2>2, <2>3 DEF Totals
<1>7. \A r \in A : k[r] \in K \cap Priced BY <1>2
<1>8. \A r \in B : k[r] \in K \ Priced BY <1>2
<1>9. IsFiniteSet(K \cap Priced) /\ IsFiniteSet(K \ Priced)
  <2>1. IsFiniteSet(K)
    <3> HIDE DEF known, k
    <3> QED BY <1>1, KeysFinite
  <2>2. K \cap Priced \in SUBSET K /\ K \ Priced \in SUBSET K OBVIOUS
  <2> HIDE DEF K
  <2> QED BY <2>1, <2>2, FS_Subset
<1>10. DOMAIN p = K \cap Priced /\ \A m \in K \cap Priced : p[m] = TokensOf(Part(A, k, m))
  <2> HIDE DEF K, k, A
  <2> QED BY <1>4, <1>5
<1>11. DOMAIN q = K \ Priced /\ \A m \in K \ Priced : q[m] = Cardinality(Part(B, k, m))
  <2> HIDE DEF K, k, B
  <2> QED BY <1>4, <1>6
<1>12. EstimatedCost(models) = SumFunction(p) /\ UnpricedRequests(models) = SumFunction(q)
  BY DEF EstimatedCost, UnpricedRequests
<1>13. CostOf(S) = TokensOf(A) /\ UnpricedOf(S) = Cardinality(B) BY DEF CostOf, UnpricedOf
<1> HIDE DEF known, k, K, A, B, p, q
<1>14. SumFunction(p) = TokensOf(A)
  <2>1. PICK L : L = K \cap Priced OBVIOUS
  <2> QED BY <1>1, <1>7, <1>9, <1>10, <2>1, LinesTokens
<1>15. SumFunction(q) = Cardinality(B)
  <2>1. PICK L : L = K \ Priced OBVIOUS
  <2> QED BY <1>1, <1>8, <1>9, <1>11, <2>1, LinesCount
<1> QED BY <1>12, <1>13, <1>14, <1>15

\* Each figure grows with the rows.
LEMMA FiguresGrow ==
  ASSUME NEW S, Counted(S), NEW T \in SUBSET S
  PROVE  /\ Requests(T) <= Requests(S) /\ TokensOf(T) <= TokensOf(S)
         /\ Rejected(T) <= Rejected(S) /\ CostOf(T) <= CostOf(S)
         /\ UnpricedOf(T) <= UnpricedOf(S)
<1>1. IsFiniteSet(S) BY DEF Counted
<1>2. Requests(T) <= Requests(S) BY <1>1, FS_Subset DEF Requests
<1>3. TokensOf(T) <= TokensOf(S) BY TokensLess
<1>4. Rejected(T) <= Rejected(S)
  <2>1. PICK A : A = S \ Passed(S) OBVIOUS
  <2>2. PICK B : B = T \ Passed(T) OBVIOUS
  <2>3. A \in SUBSET S /\ B \in SUBSET A BY <2>1, <2>2 DEF Passed
  <2>4. Cardinality(B) <= Cardinality(A) BY <1>1, <2>3, FS_Subset
  <2> QED BY <2>1, <2>2, <2>4 DEF Rejected
<1>5. CostOf(T) <= CostOf(S)
  <2>1. PICK A : A = {r \in S : r.entry.model \in Priced} OBVIOUS
  <2>2. PICK B : B = {r \in T : r.entry.model \in Priced} OBVIOUS
  <2>3. A \in SUBSET S /\ B \in SUBSET A BY <2>1, <2>2
  <2>4. TokensOf(B) <= TokensOf(A) BY <2>3, CountedPart, TokensLess
  <2> QED BY <2>1, <2>2, <2>4 DEF CostOf
<1>6. UnpricedOf(T) <= UnpricedOf(S)
  <2>1. PICK A : A = {r \in S : r.entry.model \notin Priced \cup {NoModel}} OBVIOUS
  <2>2. PICK B : B = {r \in T : r.entry.model \notin Priced \cup {NoModel}} OBVIOUS
  <2>3. A \in SUBSET S /\ B \in SUBSET A BY <2>1, <2>2
  <2>4. Cardinality(B) <= Cardinality(A) BY <1>1, <2>3, FS_Subset
  <2> QED BY <2>1, <2>2, <2>4 DEF UnpricedOf
<1> QED BY <1>2, <1>3, <1>4, <1>5, <1>6

-----------------------------------------------------------------------------
(* What a report has seen. *)

\* The figures of any rows that were in the window are between the two bounds.
LEMMA MomentBracketed ==
  ASSUME TypeOK, NEW t, NEW S \in SUBSET InWindow(ever, t), InWindow(base, t) \subseteq S
  PROVE  /\ Counted(S)
         /\ Between(Requests(S), Requests, t) /\ Between(TokensOf(S), TokensOf, t)
         /\ Between(Rejected(S), Rejected, t) /\ Between(CostOf(S), CostOf, t)
         /\ Between(UnpricedOf(S), UnpricedOf, t)
<1>1. PICK E : E = InWindow(ever, t) OBVIOUS
<1>2. PICK B : B = InWindow(base, t) OBVIOUS
<1>3. S \in SUBSET E /\ B \in SUBSET S BY <1>1, <1>2
<1>4. Counted(E)
  <2>1. now \in Nat BY SizesAssumption DEF TypeOK
  <2>2. E \in SUBSET RowsAt(0..now) BY <1>1 DEF InWindow, TypeOK
  <2>3. IsFiniteSet(E) BY <2>1, <2>2, RowsFinite, FS_Subset
  <2>4. \A r \in RowsAt(0..now) : r.entry.tokens \in Nat BY EntryAssumption DEF RowsAt
  <2> QED BY <2>2, <2>3, <2>4 DEF Counted
<1>5. Counted(S) BY <1>3, <1>4, CountedPart
<1>6. /\ Requests(S) <= Requests(E) /\ TokensOf(S) <= TokensOf(E)
      /\ Rejected(S) <= Rejected(E) /\ CostOf(S) <= CostOf(E)
      /\ UnpricedOf(S) <= UnpricedOf(E)
  BY <1>3, <1>4, FiguresGrow
<1>7. /\ Requests(B) <= Requests(S) /\ TokensOf(B) <= TokensOf(S)
      /\ Rejected(B) <= Rejected(S) /\ CostOf(B) <= CostOf(S)
      /\ UnpricedOf(B) <= UnpricedOf(S)
  BY <1>3, <1>5, FiguresGrow
<1> QED BY <1>1, <1>2, <1>5, <1>6, <1>7 DEF Between

LEMMA SoundBrackets == TypeOK /\ AnswersSound => AnalyticsBracketed
<1> SUFFICES ASSUME TypeOK, AnswersSound, reader.at = "answered" PROVE AnalyticsBracketed
  BY DEF AnalyticsBracketed
<1>1. PICK t : t = reader.since OBVIOUS
<1>2. PICK S \in Moments, T \in Moments, M \in Moments, U \in Moments :
        reader.answers = <<AuditSummary(S), AuditDailySeries(T), AuditByModel(M), AuditBySource(U)>>
  BY DEF AnswersSound
<1>3. PICK summary, daily, models, sources :
        /\ summary = AuditSummary(S) /\ daily = AuditDailySeries(T)
        /\ models = AuditByModel(M) /\ sources = AuditBySource(U)
  OBVIOUS
<1>4. /\ reader.answers[1] = summary /\ reader.answers[2] = daily
      /\ reader.answers[3] = models /\ reader.answers[4] = sources
  BY <1>2, <1>3
<1>5. \A X \in Moments : X \in SUBSET InWindow(ever, t) /\ InWindow(base, t) \subseteq X
  BY <1>1 DEF Moments
<1>6. /\ Between(summary.total.requests, Requests, t)
      /\ Between(summary.total.tokens, TokensOf, t)
      /\ Between(summary.total.requests - summary.passed, Rejected, t)
  <2>1. /\ Counted(S) /\ Between(Requests(S), Requests, t) /\ Between(TokensOf(S), TokensOf, t)
        /\ Between(Rejected(S), Rejected, t)
    BY <1>5, MomentBracketed
  <2>2. /\ summary.total.requests = Requests(S) /\ summary.total.tokens = TokensOf(S)
        /\ summary.total.requests - summary.passed = Rejected(S)
    BY <1>3, <2>1, SummaryFigures
  <2> QED BY <2>1, <2>2
<1>7. /\ Between(SumOf(daily, LAMBDA x : x.requests), Requests, t)
      /\ Between(SumOf(daily, LAMBDA x : x.tokens), TokensOf, t)
  <2>1. /\ Counted(T) /\ Between(Requests(T), Requests, t) /\ Between(TokensOf(T), TokensOf, t)
    BY <1>5, MomentBracketed
  <2>2. /\ SumOf(daily, LAMBDA x : x.requests) = Requests(T)
        /\ SumOf(daily, LAMBDA x : x.tokens) = TokensOf(T)
    BY <1>3, <2>1, DailyFigures
  <2> QED BY <2>1, <2>2
<1>8. /\ Between(SumOf(sources, LAMBDA x : x.totals.requests), Requests, t)
      /\ Between(SumOf(sources, LAMBDA x : x.rejected), Rejected, t)
  <2>1. /\ Counted(U) /\ Between(Requests(U), Requests, t) /\ Between(Rejected(U), Rejected, t)
    BY <1>5, MomentBracketed
  <2>2. /\ SumOf(sources, LAMBDA x : x.totals.requests) = Requests(U)
        /\ SumOf(sources, LAMBDA x : x.rejected) = Rejected(U)
    BY <1>3, <2>1, SourceFigures
  <2> QED BY <2>1, <2>2
<1>9. /\ Between(EstimatedCost(models), CostOf, t)
      /\ Between(UnpricedRequests(models), UnpricedOf, t)
  <2>1. /\ Counted(M) /\ Between(CostOf(M), CostOf, t) /\ Between(UnpricedOf(M), UnpricedOf, t)
    BY <1>5, MomentBracketed
  <2>2. EstimatedCost(models) = CostOf(M) /\ UnpricedRequests(models) = UnpricedOf(M)
    BY <1>3, <2>1, ModelFigures
  <2> QED BY <2>1, <2>2
<1> QED BY <1>1, <1>4, <1>6, <1>7, <1>8, <1>9 DEF AnalyticsBracketed

\* A step that leaves the report alone: no more rows stayed, no fewer were seen.
LEMMA SoundStays ==
  ASSUME AnswersSound, reader' = reader, base' \subseteq base, ever \subseteq ever',
         reader.at # "idle" => rows' \subseteq ever'
  PROVE  AnswersSound'
<1>1. \A S \in Moments : S \in Moments' BY DEF Moments, InWindow
<1>2. CASE reader.at = "summary"
  <2>1. PICK S \in Moments : reader.answers = <<AuditSummary(S)>> BY <1>2 DEF AnswersSound
  <2> QED BY <1>1, <1>2, <2>1 DEF AnswersSound
<1>3. CASE reader.at = "daily"
  <2>1. PICK S \in Moments, T \in Moments :
          reader.answers = <<AuditSummary(S), AuditDailySeries(T)>>
    BY <1>3 DEF AnswersSound
  <2> QED BY <1>1, <1>3, <2>1 DEF AnswersSound
<1>4. CASE reader.at = "models"
  <2>1. PICK S \in Moments, T \in Moments, M \in Moments :
          reader.answers = <<AuditSummary(S), AuditDailySeries(T), AuditByModel(M)>>
    BY <1>4 DEF AnswersSound
  <2> QED BY <1>1, <1>4, <2>1 DEF AnswersSound
<1>5. CASE reader.at = "answered"
  <2>1. PICK S \in Moments, T \in Moments, M \in Moments, U \in Moments :
          reader.answers =
            <<AuditSummary(S), AuditDailySeries(T), AuditByModel(M), AuditBySource(U)>>
    BY <1>5 DEF AnswersSound
  <2> QED BY <1>1, <1>5, <2>1 DEF AnswersSound
<1>6. CASE reader.at \notin {"summary", "daily", "models", "answered"}
  BY <1>6 DEF AnswersSound
<1> QED BY <1>2, <1>3, <1>4, <1>5, <1>6

\* What a query of the report sees is one of its moments.
LEMMA AskedMoment ==
  ASSUME base \subseteq rows, AnswersSound, reader.at # "idle"
  PROVE  Since(Asked) \in Moments
BY DEF AnswersSound, Since, Asked, Moments, InWindow

\* One more answer.
LEMMA SecondAnswer == ASSUME NEW a, NEW b PROVE Append(<<a>>, b) = <<a, b>>
<1>1. <<a>> \in Seq({a, b}) OBVIOUS
<1>2. Append(<<a>>, b) \in Seq({a, b}) /\ <<a, b>> \in Seq({a, b}) BY <1>1
<1>3. Len(Append(<<a>>, b)) = 2 /\ Len(<<a, b>>) = 2 BY <1>1
<1>4. \A i \in 1..2 : Append(<<a>>, b)[i] = <<a, b>>[i]
  <2>1. Append(<<a>>, b)[1] = a /\ Append(<<a>>, b)[2] = b
    BY <1>1
  <2> QED BY <2>1
<1> QED BY <1>2, <1>3, <1>4, SeqEqual

LEMMA ThirdAnswer == ASSUME NEW a, NEW b, NEW c PROVE Append(<<a, b>>, c) = <<a, b, c>>
<1>1. <<a, b>> \in Seq({a, b, c}) OBVIOUS
<1>2. Append(<<a, b>>, c) \in Seq({a, b, c}) /\ <<a, b, c>> \in Seq({a, b, c}) BY <1>1
<1>3. Len(Append(<<a, b>>, c)) = 3 /\ Len(<<a, b, c>>) = 3 BY <1>1
<1>4. \A i \in 1..3 : Append(<<a, b>>, c)[i] = <<a, b, c>>[i]
  <2>1. /\ Append(<<a, b>>, c)[1] = a
         /\ Append(<<a, b>>, c)[2] = b
         /\ Append(<<a, b>>, c)[3] = c
    BY <1>1
  <2> QED BY <2>1
<1> QED BY <1>2, <1>3, <1>4, SeqEqual

LEMMA FourthAnswer == ASSUME NEW a, NEW b, NEW c, NEW d PROVE Append(<<a, b, c>>, d) = <<a, b, c, d>>
<1>1. <<a, b, c>> \in Seq({a, b, c, d}) OBVIOUS
<1>2. Append(<<a, b, c>>, d) \in Seq({a, b, c, d}) /\ <<a, b, c, d>> \in Seq({a, b, c, d}) BY <1>1
<1>3. Len(Append(<<a, b, c>>, d)) = 4 /\ Len(<<a, b, c, d>>) = 4 BY <1>1
<1>4. \A i \in 1..4 : Append(<<a, b, c>>, d)[i] = <<a, b, c, d>>[i]
  <2>1. /\ Append(<<a, b, c>>, d)[1] = a
         /\ Append(<<a, b, c>>, d)[2] = b
         /\ Append(<<a, b, c>>, d)[3] = c
         /\ Append(<<a, b, c>>, d)[4] = d
    BY <1>1
  <2> QED BY <2>1
<1> QED BY <1>2, <1>3, <1>4, SeqEqual

LEMMA ReportKeeps ==
  ASSUME base \subseteq rows, AnswersSound, Daily \/ Models \/ Sources
  PROVE  AnswersSound'
<1>1. PICK X \in Moments : X = Since(Asked)
  <2>1. reader.at # "idle" BY DEF Daily, Models, Sources, Ask
  <2> QED BY <2>1, AskedMoment
<1>2. /\ rows' = rows /\ ever' = ever /\ base' = base /\ reader'.since = reader.since
      /\ rows \subseteq ever
  BY DEF Daily, Models, Sources, Ask, AnswersSound
<1>3. \A S \in Moments : S \in Moments' BY <1>2 DEF Moments
<1>4. CASE Daily
  <2>1. PICK S \in Moments : reader.answers = <<AuditSummary(S)>>
    BY <1>4 DEF Daily, Ask, AnswersSound
  <2>2. /\ reader'.at = "daily"
        /\ reader'.answers = Append(reader.answers, AuditDailySeries(X))
    BY <1>1, <1>4 DEF Daily, Ask
  <2>3. reader'.answers = <<AuditSummary(S), AuditDailySeries(X)>>
    <3>1. PICK a, b : a = AuditSummary(S) /\ b = AuditDailySeries(X) OBVIOUS
    <3>2. Append(<<a>>, b) = <<a, b>> BY SecondAnswer
    <3> QED BY <2>1, <2>2, <3>1, <3>2
  <2> QED BY <1>2, <1>3, <2>2, <2>3 DEF AnswersSound
<1>5. CASE Models
  <2>1. PICK S \in Moments, T \in Moments :
          reader.answers = <<AuditSummary(S), AuditDailySeries(T)>>
    BY <1>5 DEF Models, Ask, AnswersSound
  <2>2. /\ reader'.at = "models"
        /\ reader'.answers = Append(reader.answers, AuditByModel(X))
    BY <1>1, <1>5 DEF Models, Ask
  <2>3. reader'.answers = <<AuditSummary(S), AuditDailySeries(T), AuditByModel(X)>>
    <3>1. PICK a, b, c : a = AuditSummary(S) /\ b = AuditDailySeries(T) /\ c = AuditByModel(X)
      OBVIOUS
    <3>2. Append(<<a, b>>, c) = <<a, b, c>> BY ThirdAnswer
    <3> QED BY <2>1, <2>2, <3>1, <3>2
  <2> QED BY <1>2, <1>3, <2>2, <2>3 DEF AnswersSound
<1>6. CASE Sources
  <2>1. PICK S \in Moments, T \in Moments, M \in Moments :
          reader.answers = <<AuditSummary(S), AuditDailySeries(T), AuditByModel(M)>>
    BY <1>6 DEF Sources, Ask, AnswersSound
  <2>2. /\ reader'.at = "answered"
        /\ reader'.answers = Append(reader.answers, AuditBySource(X))
    BY <1>1, <1>6 DEF Sources, Ask
  <2>3. reader'.answers =
          <<AuditSummary(S), AuditDailySeries(T), AuditByModel(M), AuditBySource(X)>>
    <3>1. PICK a, b, c, d : /\ a = AuditSummary(S) /\ b = AuditDailySeries(T)
                            /\ c = AuditByModel(M) /\ d = AuditBySource(X)
      OBVIOUS
    <3>2. Append(<<a, b, c>>, d) = <<a, b, c, d>> BY FourthAnswer
    <3> QED BY <2>1, <2>2, <3>1, <3>2
  <2> QED BY <1>2, <1>3, <2>2, <2>3 DEF AnswersSound
<1> QED BY <1>4, <1>5, <1>6

LEMMA AnswersKeep == StoreInv /\ AnswersSound /\ [Next]_vars => AnswersSound'
<1> SUFFICES ASSUME StoreInv, AnswersSound, [Next]_vars PROVE AnswersSound' OBVIOUS
<1>0. base \subseteq rows BY DEF StoreInv
<1>1. CASE Daily \/ Models \/ Sources BY <1>0, <1>1, ReportKeeps
<1>2. CASE Summary
  <2>1. PICK S : S = Since(now - Window) OBVIOUS
  <2>2. /\ reader'.at = "summary" /\ reader'.since = now - Window
        /\ reader'.answers = <<AuditSummary(S)>>
        /\ base' = rows /\ ever' = rows /\ rows' = rows
    BY <1>2, <2>1 DEF Summary
  <2>3. S \in Moments' BY <2>1, <2>2 DEF Moments, InWindow, Since
  <2> QED BY <2>2, <2>3 DEF AnswersSound
<1>3. CASE FirstPage \/ NextPage
  <2>1. reader'.at \in {"listed", "paging"}
    <3>1. ASSUME NEW f, NEW after, NEW n, NEW sent, List(f, after, n, sent)
          PROVE  reader'.at \in {"listed", "paging"}
      <4>1. PICK page, at : /\ at = IF Len(page) < Limit(n) THEN "listed" ELSE "paging"
                            /\ reader' = [at |-> at, filter |-> f, limit |-> n, pages |-> sent \o page]
        BY <3>1 DEF List
      <4> QED BY <4>1
    <3> QED BY <1>3, <3>1 DEF FirstPage, NextPage
  <2>2. rows' \subseteq ever' BY <1>3 DEF FirstPage, NextPage, AnswersSound
  <2> QED BY <2>1, <2>2 DEF AnswersSound
<1>4. CASE Close BY <1>4 DEF Close, NoReader, AnswersSound
<1>5. CASE Tick \/ BeginAuditLog \/ PruneFails \/ Stop \/ Sweep \/ Run
  <2>1. reader' = reader /\ base' = base /\ ever' = ever /\ rows' = rows
    BY <1>5 DEF Tick, BeginAuditLog, PruneFails, Stop, Sweep, Run
  <2> QED BY <2>1, SoundStays DEF AnswersSound
<1>6. CASE CreateAuditLog
  <2>1. PICK r \in pending :
          /\ rows' = rows \cup {r}
          /\ ever' = IF reader.at = "idle" THEN ever ELSE ever \cup {r}
    BY <1>6 DEF CreateAuditLog
  <2>2. reader' = reader /\ base' = base BY <1>6 DEF CreateAuditLog
  <2>3. ever \subseteq ever' /\ (reader.at # "idle" => rows' \subseteq ever')
    BY <2>1 DEF AnswersSound
  <2> QED BY <2>2, <2>3, SoundStays
<1>7. CASE PruneOnce
  <2>1. reader' = reader /\ base' \subseteq base /\ ever' = ever /\ rows' \subseteq rows
    BY <1>7 DEF PruneOnce, DeleteAuditLogsBefore
  <2>2. ever \subseteq ever' /\ (reader.at # "idle" => rows' \subseteq ever')
    BY <2>1 DEF AnswersSound
  <2> QED BY <2>1, <2>2, SoundStays
<1>8. CASE UNCHANGED vars
  <2>1. reader' = reader /\ base' = base /\ ever' = ever /\ rows' = rows BY <1>8 DEF vars
  <2> QED BY <2>1, SoundStays DEF AnswersSound
<1> QED BY <1>1, <1>2, <1>3, <1>4, <1>5, <1>6, <1>7, <1>8 DEF Next, Pruner, Reader

\* Every figure of a report lies between what was in its window all along and what was
\* in it at some time, for any rows, although its four queries see different moments
\* (analytics.go:72).
THEOREM ReportsBracketed == Spec => []AnalyticsBracketed
<1>1. Init => AnswersSound BY DEF Init, NoReader, AnswersSound
<1>2. StoreInv /\ AnswersSound => AnalyticsBracketed BY SoundBrackets DEF StoreInv
<1>3. Spec => []AnswersSound BY <1>1, AnswersKeep, StoreInvariant, PTL DEF Spec
<1> QED BY <1>2, <1>3, StoreInvariant, PTL
=============================================================================
