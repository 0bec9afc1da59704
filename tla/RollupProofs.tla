---------------------------- MODULE RollupProofs ----------------------------
(***************************************************************************)
(* What the rows of the fact table count: for any repositories, workers,    *)
(* kinds, times, sizes, window, threshold and share, and any number of      *)
(* records.                                                                 *)
(***************************************************************************)
EXTENDS Rollup, FiniteSetTheorems, WellFoundedInduction, TLAPS

-----------------------------------------------------------------------------
(* Numbers and finite sets.                                                 *)

(* Every nonempty set of numbers has a least element, which Min returns.    *)
LEMMA NatMin ==
    ASSUME NEW T, T \subseteq Nat, T # {}
    PROVE  \E m \in T : \A t \in T : m <= t
<1> DEFINE R == OpToRel(<, Nat)
<1>1. IsWellFoundedOn(R, Nat)
  BY NatLessThanWellFounded
<1>2. PICK m \in T : \A t \in T : ~ (<<t, m>> \in R)
  <2> HIDE DEF R
  <2> QED BY <1>1, WFMin
<1>3. ASSUME NEW t \in T PROVE m <= t
  <2>1. ~ (<<t, m>> \in {ss \in Nat \X Nat : ss[1] < ss[2]})
    BY <1>2 DEF OpToRel
  <2> QED BY <2>1
<1> QED BY <1>3

LEMMA MinIsLeast ==
    ASSUME NEW T, T \subseteq Nat, T # {}
    PROVE  Min(T) \in T /\ \A t \in T : Min(T) <= t
<1>1. \E m \in T : \A t \in T : m <= t
  BY NatMin
<1> QED BY <1>1 DEF Min

(* Finitely many finite sets have a finite union.                           *)
LEMMA FiniteParts ==
    ASSUME NEW K, IsFiniteSet(K), NEW P, \A k \in K : IsFiniteSet(P[k])
    PROVE  IsFiniteSet(UNION {P[k] : k \in K})
<1> DEFINE f == [k \in K |-> P[k]]
           T == {P[k] : k \in K}
<1>1. f \in Surjection(K, T)
  BY DEF Surjection
<1>2. IsFiniteSet(T)
  <2> HIDE DEF f, T
  <2> QED BY <1>1, FS_Surjection
<1>3. \A U \in T : IsFiniteSet(U)
  OBVIOUS
<1> HIDE DEF T
<1>4. IsFiniteSet(UNION T)
  BY <1>2, <1>3, FS_UNION
<1> QED BY <1>4 DEF T

(* A disjoint union counts what one of its parts and the rest count.        *)
LEMMA OnePart ==
    ASSUME NEW K, IsFiniteSet(K), NEW P, \A k \in K : IsFiniteSet(P[k]),
           \A j, k \in K : j # k => P[j] \cap P[k] = {}, NEW x \in K
    PROVE  Cardinality(UNION {P[k] : k \in K})
               = Cardinality(P[x]) + Cardinality(UNION {P[k] : k \in K \ {x}})
<1> DEFINE rest == UNION {P[k] : k \in K \ {x}}
<1>1. UNION {P[k] : k \in K} = P[x] \cup rest /\ P[x] \cap rest = {}
  OBVIOUS
<1>2. IsFiniteSet(rest) /\ IsFiniteSet(P[x])
  <2>1. IsFiniteSet(K \ {x}) /\ \A k \in K \ {x} : IsFiniteSet(P[k])
    BY FS_RemoveElement
  <2> QED BY <2>1, FiniteParts
<1> HIDE DEF rest
<1>3. /\ Cardinality(P[x] \cup rest)
            = Cardinality(P[x]) + Cardinality(rest) - Cardinality(P[x] \cap rest)
      /\ Cardinality(P[x]) \in Nat /\ Cardinality(rest) \in Nat
  BY <1>2, FS_Union, FS_CardinalityType
<1>4. Cardinality(P[x] \cup rest) = Cardinality(P[x]) + Cardinality(rest)
  <2>1. Cardinality(P[x] \cap rest) = 0
    BY <1>1, FS_EmptySet
  <2> QED BY <1>3, <2>1
<1> QED BY <1>1, <1>4 DEF rest

(* The sum of a column over some rows of a table.                           *)
ColumnSum(t, c, K) == MapThenSumSet(LAMBDA k : t[k][c], K)

(* It is the size of what those rows count, if no two of them count the     *)
(* same.                                                                    *)
LEMMA SumOfParts ==
    ASSUME NEW t, NEW c, NEW K, IsFiniteSet(K), NEW P, \A k \in K : IsFiniteSet(P[k]),
           \A j, k \in K : j # k => P[j] \cap P[k] = {},
           \A k \in K : t[k][c] = Cardinality(P[k])
    PROVE  ColumnSum(t, c, K) = Cardinality(UNION {P[k] : k \in K})
<1> DEFINE pick(s) == CHOOSE x \in s : TRUE
           whole(s) == UNION {P[k] : k \in s}
           size == [s \in SUBSET K |-> Cardinality(whole(s))]
           IsSum(f) == f = [s \in SUBSET K |->
                               IF s = {} THEN 0 ELSE t[pick(s)][c] + f[s \ {pick(s)}]]
           sum == CHOOSE f : IsSum(f)
<1>1. ColumnSum(t, c, K) = sum[K]
  BY Zenon DEF ColumnSum, MapThenSumSet, MapThenFoldSet
<1>2. ASSUME NEW s \in SUBSET K, s # {}
      PROVE  /\ pick(s) \in s
             /\ size[s] = t[pick(s)][c] + size[s \ {pick(s)}]
  <2>1. pick(s) \in s
    BY <1>2
  <2>2. IsFiniteSet(s)
    BY FS_Subset
  <2> HIDE DEF pick
  <2>3. Cardinality(whole(s)) = Cardinality(P[pick(s)]) + Cardinality(whole(s \ {pick(s)}))
    BY <2>1, <2>2, OnePart
  <2>4. t[pick(s)][c] = Cardinality(P[pick(s)])
    BY <2>1
  <2>5. size[s] = Cardinality(whole(s)) /\ size[s \ {pick(s)}] = Cardinality(whole(s \ {pick(s)}))
    OBVIOUS
  <2> QED BY <2>1, <2>3, <2>4, <2>5
<1>3. size[{}] = 0
  <2>1. whole({}) = {}
    OBVIOUS
  <2> QED BY <2>1, FS_EmptySet
<1>4. IsSum(size)
  <2> DEFINE rhs == [s \in SUBSET K |->
                        IF s = {} THEN 0 ELSE t[pick(s)][c] + size[s \ {pick(s)}]]
  <2>1. \A s \in SUBSET K : size[s] = rhs[s]
    <3> HIDE DEF pick, size
    <3> QED BY <1>2, <1>3
  <2>2. size = [s \in SUBSET K |-> size[s]] /\ rhs = [s \in SUBSET K |-> rhs[s]]
    OBVIOUS
  <2>3. size = rhs
    <3> HIDE DEF rhs, size
    <3> QED BY <2>1, <2>2
  <2> QED BY <2>3
<1>5. IsSum(sum)
  <2> HIDE DEF IsSum, size
  <2> QED BY <1>4
<1>6. \A s \in SUBSET K : sum[s] = size[s]
  <2> DEFINE bad == {s \in SUBSET K : sum[s] # size[s]}
             sizes == {Cardinality(s) : s \in bad}
  <2> SUFFICES ASSUME bad # {} PROVE FALSE
    BY DEF bad
  <2>1. \A s \in SUBSET K : IsFiniteSet(s) /\ Cardinality(s) \in Nat
    BY FS_Subset, FS_CardinalityType
  <2>2. PICK s \in bad : \A u \in bad : Cardinality(s) <= Cardinality(u)
    <3> HIDE DEF sum, size
    <3>1. sizes \subseteq Nat /\ sizes # {}
      BY <2>1
    <3>2. PICK m \in sizes : \A n \in sizes : m <= n
      <4> HIDE DEF sizes
      <4> QED BY <3>1, NatMin
    <3> QED BY <3>2
  <2>3. sum[{}] = 0
    <3>1. sum = [u \in SUBSET K |-> IF u = {} THEN 0 ELSE t[pick(u)][c] + sum[u \ {pick(u)}]]
      BY <1>5
    <3> HIDE DEF sum
    <3> QED BY <3>1
  <2>4. s # {} /\ s \in SUBSET K
    BY <1>3, <2>2, <2>3
  <2>5. pick(s) \in s /\ s \ {pick(s)} \in SUBSET K
    BY <2>4
  <2>6. Cardinality(s \ {pick(s)}) = Cardinality(s) - 1
    <3> HIDE DEF pick
    <3> QED BY <2>1, <2>4, <2>5, FS_RemoveElement
  <2>7. sum[s \ {pick(s)}] = size[s \ {pick(s)}]
    <3>1. s \ {pick(s)} \notin bad
      <4> HIDE DEF pick, bad
      <4> QED BY <2>1, <2>2, <2>4, <2>5, <2>6
    <3> QED BY <2>5, <3>1
  <2>8. sum[s] = t[pick(s)][c] + sum[s \ {pick(s)}]
    <3>1. sum = [u \in SUBSET K |-> IF u = {} THEN 0 ELSE t[pick(u)][c] + sum[u \ {pick(u)}]]
      BY <1>5
    <3> HIDE DEF sum, pick
    <3> QED BY <2>4, <3>1
  <2>9. sum[s] = size[s]
    <3> HIDE DEF sum, size, pick
    <3> QED BY <1>2, <2>4, <2>7, <2>8
  <2> QED BY <2>2, <2>9
<1> HIDE DEF sum
<1> QED BY <1>1, <1>6

-----------------------------------------------------------------------------
(* The invariant.                                                           *)

(* A repository is being scanned.                                           *)
Reading == pc \in {"log", "forensic"}

(* The cycle has what was read of the repositories whose scan is over and   *)
(* did not fail, and lies in the window; the running scan has its own.      *)
Over(r) == r \notin failed /\ ~ (Reading /\ r = cur)

ScanInv ==
    /\ IsFiniteSet(lines) /\ IsFiniteSet(history) /\ Total <= MaxRecords
    /\ \A x \in lines \cup history : x.repo \notin todo
    /\ events = {e \in lines : Over(e.repo) /\ Contains(e.ts)}
    /\ commits = {c \in history : Over(c.repo) /\ Contains(c.ts)}
    /\ Reading => /\ cur \in Repos \ (todo \cup failed)
                  /\ parsed = {e \in lines : e.repo = cur /\ Contains(e.ts)}
                  /\ found = {c \in history : c.repo = cur /\ Contains(c.ts)}

(* The marks are made once, from all events, and before any row.            *)
Epochs == [r \in {x \in Repos : NamedCloses(x) # {}} |-> FirstClose(r)]

MarkInv ==
    IF pc \in {"roll", "done"}
    THEN todo = {} /\ bulk = BulkCells /\ epochs = Epochs
    ELSE /\ cells = <<>> /\ workerCells = <<>> /\ claimers = {} /\ workerClaimers = {}
         /\ rolled = {}

(* What has been counted so far, and what of it a row counts in a column.   *)
RolledCommits == {c \in commits : c \in rolled}
RolledEvents == {e \in events : e \in rolled /\ e.kind \in COUNTED_KINDS}
RolledClaims == {e \in events : e \in rolled /\ e.kind = "claimed" /\ e.actor # Nobody}

CommitsIn(k) == {c \in RolledCommits : CellOf(c) = k}
EventsIn(k, c) == {e \in RolledEvents : CellOf(e) = k /\ ColumnOf(e) = c}
WorkerEventsIn(k, c) == {e \in RolledEvents : WorkerCellOf(e) = k /\ ColumnOf(e) = c}

(* Each row counts what has been rolled up into it, each once, and no row   *)
(* is there for nothing.                                                    *)
CellsInv ==
    /\ \A k \in DOMAIN cells :
           \E x \in RolledEvents \cup RolledCommits : CellOf(x) = k
    /\ \A x \in RolledEvents \cup RolledCommits : CellOf(x) \in DOMAIN cells
    /\ \A k \in DOMAIN cells :
           /\ \A c \in EventColumns : cells[k][c] = Cardinality(EventsIn(k, c))
           /\ cells[k]["commits"] = Cardinality(CommitsIn(k))
           /\ cells[k]["bulk_commits"] = Cardinality({c \in CommitsIn(k) : IsBulk(c)})

WorkerCellsInv ==
    /\ \A k \in DOMAIN workerCells : \E e \in RolledEvents : WorkerCellOf(e) = k
    /\ \A e \in RolledEvents : WorkerCellOf(e) \in DOMAIN workerCells
    /\ \A k \in DOMAIN workerCells :
           /\ \A c \in EventColumns : workerCells[k][c] = Cardinality(WorkerEventsIn(k, c))
           /\ \A c \in Columns \ EventColumns : workerCells[k][c] = 0

ClaimersInv ==
    /\ claimers = {<<CellOf(e), e.actor>> : e \in RolledClaims}
    /\ workerClaimers = {<<e.repo, Hour(e), e.actor>> : e \in {x \in RolledClaims : ClaimsAsWorker(x)}}

DoneInv == pc = "done" => rolled = commits \cup events

RollupInv ==
    /\ TypeOK /\ ScanInv /\ MarkInv
    /\ CellsInv /\ WorkerCellsInv /\ ClaimersInv /\ DoneInv

-----------------------------------------------------------------------------
(* Types.                                                                   *)

(* No event is a commit.                                                    *)
LEMMA Apart == Event \cap Commit = {}
BY DEF Event, Commit

(* A record lies in a cell of its repository and of its hour.               *)
LEMMA CellTyped ==
    ASSUME NEW x, x \in Event \/ x \in Commit
    PROVE  /\ x.ts \in Nat /\ Hour(x) \in Hours
           /\ x.repo \in Repos /\ CellOf(x) \in Repos \X Hours
BY RollupAssumption DEF Event, Commit, CellOf, Hour, Hours

(* Within the cap there is a copy number left.                              *)
LEMMA CopyTyped ==
    ASSUME NEW S, IsFiniteSet(S), Cardinality(S) < MaxRecords, NEW T, T \subseteq S
    PROVE  Cardinality(T) + 1 \in Copies
<1>1. Cardinality(S) \in Nat /\ Cardinality(T) \in Nat /\ Cardinality(T) <= Cardinality(S)
  BY FS_Subset, FS_CardinalityType
<1> QED BY <1>1, RollupAssumption DEF Copies

LEMMA CountsTyped ==
    ASSUME ScanInv
    PROVE  Cardinality(lines) \in Nat /\ Cardinality(history) \in Nat
BY FS_CardinalityType DEF ScanInv

(* What is added to a row is a row.                                         *)
LEMMA DeltaTyped ==
    /\ EmptyRow \in [Columns -> Nat]
    /\ \A c \in Commit : CommitDelta(c) \in [Columns -> Nat]
    /\ \A e \in Event : EventDelta(e) \in [Columns -> Nat]
<1>1. EmptyRow \in [Columns -> Nat]
  BY DEF EmptyRow
<1>2. ASSUME NEW c \in Commit PROVE CommitDelta(c) \in [Columns -> Nat]
  <2>1. c.size \in Nat
    BY RollupAssumption DEF Commit
  <2> DEFINE raw == c.size + 1
             d1 == [EmptyRow EXCEPT !["commits"] = 1]
             d2 == [d1 EXCEPT !["lines_raw"] = raw]
             d3 == [d2 EXCEPT !["bulk_commits"] = IF IsBulk(c) THEN 1 ELSE 0]
             d4 == [d3 EXCEPT !["lines"] = IF IsBulk(c) THEN 0 ELSE c.size]
  <2>2. d4 \in [Columns -> Nat]
    <3>1. d1 \in [Columns -> Nat]
      BY <1>1
    <3>2. raw \in Nat
      BY <2>1
    <3> HIDE DEF d1, raw
    <3>3. d2 \in [Columns -> Nat]
      BY <3>1, <3>2
    <3> HIDE DEF d2
    <3>4. d3 \in [Columns -> Nat]
      BY <3>3
    <3> HIDE DEF d3
    <3> QED BY <2>1, <3>4
  <2>3. CommitDelta(c) = d4
    BY DEF CommitDelta
  <2> QED BY <2>2, <2>3
<1>3. ASSUME NEW e \in Event PROVE EventDelta(e) \in [Columns -> Nat]
  BY <1>1 DEF EventDelta
<1> QED BY <1>1, <1>2, <1>3

(* Bump adds to one row, which it makes if it is not there.                 *)
LEMMA BumpKeys ==
    ASSUME NEW t, NEW key, NEW delta
    PROVE  DOMAIN Bump(t, key, delta) = DOMAIN t \cup {key}
BY DEF Bump

LEMMA BumpOthers ==
    ASSUME NEW t, NEW key, NEW delta
    PROVE  \A k \in DOMAIN t \ {key} : Bump(t, key, delta)[k] = t[k]
BY DEF Bump

LEMMA BumpRow ==
    ASSUME NEW t, NEW key, NEW delta, NEW c \in Columns
    PROVE  Bump(t, key, delta)[key][c]
               = (IF key \in DOMAIN t THEN t[key][c] ELSE 0) + delta[c]
BY DEF Bump, EmptyRow

LEMMA BumpTyped ==
    ASSUME NEW t, NEW D, DOMAIN t \subseteq D, \A k \in DOMAIN t : t[k] \in [Columns -> Nat],
           NEW key \in D, NEW delta \in [Columns -> Nat]
    PROVE  /\ DOMAIN Bump(t, key, delta) \subseteq D
           /\ \A k \in DOMAIN Bump(t, key, delta) :
                  Bump(t, key, delta)[k] \in [Columns -> Nat]
BY DEF Bump, EmptyRow

(* The label of an event is a worker, or the one that stands for no known   *)
(* worker.                                                                  *)
LEMMA LabelTyped ==
    ASSUME NEW e \in Event
    PROVE  /\ WorkerCellOf(e) \in Repos \X Hours \X (Workers \cup {Inferential})
           /\ ClaimsAsWorker(e) => e.actor \in Workers
BY CellTyped DEF WorkerCellOf, WorkerLabel, ClaimsAsWorker, Named

(* The epoch of a repository lies in the window.                            *)
LEMMA EpochTyped ==
    ASSUME TypeOK, ScanInv, NEW r \in Repos, NamedCloses(r) # {}
    PROVE  /\ FirstClose(r) \in Start..(End - 1)
           /\ \E e \in NamedCloses(r) : FirstClose(r) = e.ts
           /\ \A e \in NamedCloses(r) : FirstClose(r) <= e.ts
<1> DEFINE T == {e.ts : e \in NamedCloses(r)}
<1>1. \A e \in NamedCloses(r) : e.ts \in Nat /\ Contains(e.ts)
  BY CellTyped DEF NamedCloses, TypeOK, ScanInv
<1>2. T \subseteq Nat /\ T # {}
  BY <1>1
<1>3. Min(T) \in T /\ \A t \in T : Min(T) <= t
  <2> HIDE DEF T
  <2> QED BY <1>2, MinIsLeast
<1>4. PICK e \in NamedCloses(r) : Min(T) = e.ts
  BY <1>3
<1> QED BY <1>1, <1>3, <1>4, RollupAssumption DEF FirstClose, Contains

LEMMA RollupTypes ==
    ASSUME TypeOK, ScanInv, MarkInv, [Next]_vars
    PROVE  TypeOK'
<1> USE DEF scanVars, markVars, cellVars
<1>1. ASSUME NEW r \in Repos, ScanRepo(r) PROVE TypeOK'
  BY <1>1 DEF ScanRepo, TypeOK
<1>2. ASSUME NEW ts \in Times, NEW size \in Sizes, ReadCommit(ts, size) PROVE TypeOK'
  <2> DEFINE same == {c \in history : c.repo = cur /\ c.ts = ts /\ c.size = size}
             c == [repo |-> cur, ts |-> ts, size |-> size, copy |-> Cardinality(same) + 1]
  <2>1. Cardinality(history) < MaxRecords /\ cur \in Repos
    BY <1>2, CountsTyped, RollupAssumption DEF ReadCommit, Total, ScanInv,
       Reading
  <2>2. Cardinality(same) + 1 \in Copies
    BY <2>1, CopyTyped DEF ScanInv
  <2>3. c \in Commit
    BY <2>1, <2>2 DEF Commit
  <2>4. /\ history' = history \cup {c} /\ found' = found \cup Kept(c)
        /\ UNCHANGED <<pc, todo, cur, lines, parsed, failed, commits, events,
                       markVars, cellVars>>
    BY <1>2 DEF ReadCommit
  <2> HIDE DEF c
  <2> QED BY <2>3, <2>4 DEF TypeOK, Kept
<1>3. ASSUME NEW kind \in Kinds, NEW ts \in Times, NEW actor \in Actors,
             ReadEvent(kind, ts, actor)
      PROVE  TypeOK'
  <2> DEFINE same == {e \in lines : e.repo = cur /\ e.kind = kind /\ e.ts = ts
                                    /\ e.actor = actor}
             e == [repo |-> cur, kind |-> kind, ts |-> ts, actor |-> actor,
                   copy |-> Cardinality(same) + 1]
  <2>1. Cardinality(lines) < MaxRecords /\ cur \in Repos
    BY <1>3, CountsTyped, RollupAssumption DEF ReadEvent, Total, ScanInv,
       Reading
  <2>2. Cardinality(same) + 1 \in Copies
    BY <2>1, CopyTyped DEF ScanInv
  <2>3. e \in Event
    BY <2>1, <2>2 DEF Event
  <2>4. /\ lines' = lines \cup {e} /\ parsed' = parsed \cup Kept(e)
        /\ UNCHANGED <<pc, todo, cur, history, found, failed, commits, events,
                       markVars, cellVars>>
    BY <1>3 DEF ReadEvent
  <2> HIDE DEF e
  <2> QED BY <2>3, <2>4 DEF TypeOK, Kept
<1>4. CASE LogEnds
  BY <1>4 DEF LogEnds, Spared, TypeOK
<1>5. CASE ScanFails
  BY <1>5 DEF ScanFails, TypeOK, ScanInv, Reading
<1>6. CASE ScanEnds
  BY <1>6 DEF ScanEnds, TypeOK
<1>7. CASE Mark
  <2>1. bulk' \subseteq Repos \X Hours
    BY <1>7 DEF Mark, BulkCells, Dense, Contaminated
  <2>2. DOMAIN epochs' \subseteq Repos /\ \A r \in DOMAIN epochs' : epochs'[r] \in Start..(End - 1)
    BY <1>7, EpochTyped DEF Mark
  <2> QED BY <1>7, <2>1, <2>2 DEF Mark, TypeOK
<1>8. ASSUME NEW c \in commits, RollCommit(c) PROVE TypeOK'
  <2>1. c \in Commit
    BY DEF TypeOK
  <2>2. /\ DOMAIN cells' \subseteq Repos \X Hours
        /\ \A k \in DOMAIN cells' : cells'[k] \in [Columns -> Nat]
    <3> DEFINE D == Repos \X Hours
               key == CellOf(c)
               delta == CommitDelta(c)
    <3>1. key \in D /\ delta \in [Columns -> Nat]
      BY <2>1, CellTyped, DeltaTyped
    <3>2. DOMAIN cells \subseteq D /\ \A k \in DOMAIN cells : cells[k] \in [Columns -> Nat]
      BY DEF TypeOK
    <3>3. cells' = Bump(cells, key, delta)
      BY <1>8 DEF RollCommit
    <3> HIDE DEF D, key, delta
    <3>4. /\ DOMAIN cells' \subseteq D
          /\ \A k \in DOMAIN cells' : cells'[k] \in [Columns -> Nat]
      BY <3>1, <3>2, <3>3, BumpTyped
    <3> QED BY <3>4 DEF D
  <2> QED BY <1>8, <2>2 DEF RollCommit, TypeOK
<1>9. ASSUME NEW e \in events, RollEvent(e) PROVE TypeOK'
  <2>1. e \in Event
    BY DEF TypeOK
  <2>2. EventDelta(e) \in [Columns -> Nat]
    BY <2>1, DeltaTyped
  <2>3. /\ DOMAIN cells' \subseteq Repos \X Hours
        /\ \A k \in DOMAIN cells' : cells'[k] \in [Columns -> Nat]
    <3>1. CellOf(e) \in Repos \X Hours
      BY <2>1, CellTyped
    <3>2. CASE cells' = Bump(cells, CellOf(e), EventDelta(e))
      <4> DEFINE D == Repos \X Hours
      <4>1. /\ CellOf(e) \in D /\ DOMAIN cells \subseteq D
            /\ \A k \in DOMAIN cells : cells[k] \in [Columns -> Nat]
        BY <3>1 DEF TypeOK
      <4> HIDE DEF D
      <4>2. /\ DOMAIN cells' \subseteq D
            /\ \A k \in DOMAIN cells' : cells'[k] \in [Columns -> Nat]
        BY <2>2, <3>2, <4>1, BumpTyped
      <4> QED BY <4>2 DEF D
    <3> QED BY <1>9, <3>2 DEF RollEvent, TypeOK
  <2>4. /\ DOMAIN workerCells' \subseteq Repos \X Hours \X (Workers \cup {Inferential})
        /\ \A k \in DOMAIN workerCells' : workerCells'[k] \in [Columns -> Nat]
    <3>1. CASE workerCells' = Bump(workerCells, WorkerCellOf(e), EventDelta(e))
      <4> DEFINE keys == Repos \X Hours \X (Workers \cup {Inferential})
      <4>1. /\ WorkerCellOf(e) \in keys /\ DOMAIN workerCells \subseteq keys
            /\ \A k \in DOMAIN workerCells : workerCells[k] \in [Columns -> Nat]
        BY <2>1, LabelTyped DEF TypeOK
      <4> HIDE DEF keys
      <4>2. /\ DOMAIN workerCells' \subseteq keys
            /\ \A k \in DOMAIN workerCells' : workerCells'[k] \in [Columns -> Nat]
        BY <2>2, <3>1, <4>1, BumpTyped
      <4> QED BY <4>2 DEF keys
    <3> QED BY <1>9, <3>1 DEF RollEvent, WorkerDelta, TypeOK
  <2>5. claimers' \subseteq (Repos \X Hours) \X (Workers \cup {System})
    BY <1>9, <2>1, CellTyped DEF RollEvent, TypeOK, Event, Actors
  <2>6. workerClaimers' \subseteq Repos \X Hours \X Workers
    BY <1>9, <2>1, CellTyped, LabelTyped DEF RollEvent, TypeOK
  <2> QED BY <1>9, <2>3, <2>4, <2>5, <2>6 DEF RollEvent, TypeOK
<1>10. CASE RollEnds
  BY <1>10 DEF RollEnds, TypeOK
<1>11. CASE UNCHANGED vars
  BY <1>11 DEF vars, TypeOK
<1> QED
  BY <1>1, <1>2, <1>3, <1>4, <1>5, <1>6, <1>7, <1>8, <1>9, <1>10, <1>11
     DEF Next, Scanning, Rolling, Done

-----------------------------------------------------------------------------
(* The scan.                                                                *)

(* One record more is one more at most.                                     *)
LEMMA OneMore ==
    ASSUME NEW S, NEW x, IsFiniteSet(S)
    PROVE  /\ IsFiniteSet(S \cup {x})
           /\ Cardinality(S) \in Nat /\ Cardinality(S \cup {x}) \in Nat
           /\ Cardinality(S \cup {x}) <= Cardinality(S) + 1
BY FS_AddElement, FS_CardinalityType

LEMMA ScanStep ==
    ASSUME TypeOK, ScanInv, [Next]_vars
    PROVE  ScanInv'
<1> USE DEF ScanInv, Over, Reading, Contains, scanVars, markVars, cellVars
<1>1. ASSUME NEW r \in Repos, ScanRepo(r) PROVE ScanInv'
  BY <1>1 DEF ScanRepo, TypeOK, Total
<1>2. ASSUME NEW ts \in Times, NEW size \in Sizes, ReadCommit(ts, size) PROVE ScanInv'
  <2> DEFINE c == [repo |-> cur, ts |-> ts, size |-> size,
                   copy |-> Cardinality({d \in history : d.repo = cur /\ d.ts = ts
                                                         /\ d.size = size}) + 1]
  <2>1. /\ pc = "log" /\ Total < MaxRecords
        /\ history' = history \cup {c} /\ found' = found \cup Kept(c)
        /\ UNCHANGED <<pc, todo, cur, lines, parsed, failed, commits, events,
                       markVars, cellVars>>
    BY <1>2 DEF ReadCommit
  <2>2. c.repo = cur
    OBVIOUS
  <2> HIDE DEF c
  <2>3. IsFiniteSet(history') /\ Total' <= MaxRecords
    <3>1. /\ IsFiniteSet(history') /\ Cardinality(history') \in Nat
          /\ Cardinality(history') <= Cardinality(history) + 1
      BY <2>1, OneMore
    <3>2. Total' = Cardinality(lines') + Cardinality(history') /\ lines' = lines
      BY <2>1 DEF Total
    <3>3. Cardinality(lines) + Cardinality(history) < MaxRecords
      BY <2>1 DEF Total
    <3> QED BY <3>1, <3>2, <3>3, CountsTyped, RollupAssumption
  <2> QED BY <2>1, <2>2, <2>3 DEF Kept
<1>3. ASSUME NEW kind \in Kinds, NEW ts \in Times, NEW actor \in Actors,
             ReadEvent(kind, ts, actor)
      PROVE  ScanInv'
  <2> DEFINE e == [repo |-> cur, kind |-> kind, ts |-> ts, actor |-> actor,
                   copy |-> Cardinality({d \in lines : d.repo = cur /\ d.kind = kind
                                            /\ d.ts = ts /\ d.actor = actor}) + 1]
  <2>1. /\ pc = "forensic" /\ Total < MaxRecords
        /\ lines' = lines \cup {e} /\ parsed' = parsed \cup Kept(e)
        /\ UNCHANGED <<pc, todo, cur, history, found, failed, commits, events,
                       markVars, cellVars>>
    BY <1>3 DEF ReadEvent
  <2>2. e.repo = cur
    OBVIOUS
  <2> HIDE DEF e
  <2>3. IsFiniteSet(lines') /\ Total' <= MaxRecords
    <3>1. /\ IsFiniteSet(lines') /\ Cardinality(lines') \in Nat
          /\ Cardinality(lines') <= Cardinality(lines) + 1
      BY <2>1, OneMore
    <3>2. Total' = Cardinality(lines') + Cardinality(history') /\ history' = history
      BY <2>1 DEF Total
    <3>3. Cardinality(lines) + Cardinality(history) < MaxRecords
      BY <2>1 DEF Total
    <3> QED BY <3>1, <3>2, <3>3, CountsTyped, RollupAssumption
  <2> QED BY <2>1, <2>2, <2>3 DEF Kept
<1>4. CASE LogEnds
  BY <1>4 DEF LogEnds, Spared, Total
<1>5. CASE ScanFails
  BY <1>5 DEF ScanFails, Total
<1>6. CASE ScanEnds
  BY <1>6 DEF ScanEnds, Total
<1>7. CASE Mark
  BY <1>7 DEF Mark, Total
<1>8. ASSUME NEW c \in commits, RollCommit(c) PROVE ScanInv'
  BY <1>8 DEF RollCommit, Total
<1>9. ASSUME NEW e \in events, RollEvent(e) PROVE ScanInv'
  BY <1>9 DEF RollEvent, Total
<1>10. CASE RollEnds
  BY <1>10 DEF RollEnds, Total
<1>11. CASE UNCHANGED vars
  BY <1>11 DEF vars, Total
<1> QED
  BY <1>1, <1>2, <1>3, <1>4, <1>5, <1>6, <1>7, <1>8, <1>9, <1>10, <1>11
     DEF Next, Scanning, Rolling, Done

-----------------------------------------------------------------------------
(* The marks.                                                               *)

LEMMA MarkStep ==
    ASSUME TypeOK, MarkInv, [Next]_vars
    PROVE  MarkInv'
<1> DEFINE Marked == todo = {} /\ bulk = BulkCells /\ epochs = Epochs
           Empty == /\ cells = <<>> /\ workerCells = <<>> /\ claimers = {}
                    /\ workerClaimers = {} /\ rolled = {}
<1>1. ASSUME UNCHANGED <<scanVars, markVars>> PROVE Marked => Marked'
  BY <1>1 DEF scanVars, markVars, BulkCells, Dense, Contaminated, Closes,
     ClosesIn, Epochs, NamedCloses, FirstClose
<1>2. ASSUME UNCHANGED cellVars PROVE Empty => Empty'
  BY <1>2 DEF cellVars
<1>3. CASE Scanning
  <2>1. pc \in {"next", "log", "forensic"} /\ pc' \in {"next", "log", "forensic"}
    BY <1>3 DEF Scanning, ScanRepo, ReadCommit, ReadEvent, LogEnds, ScanFails,
       ScanEnds
  <2>2. UNCHANGED cellVars
    BY <1>3 DEF Scanning, ScanRepo, ReadCommit, ReadEvent, LogEnds, ScanFails,
       ScanEnds
  <2> QED BY <1>2, <2>1, <2>2 DEF MarkInv
<1>4. CASE Mark
  <2>1. pc' = "roll" /\ todo' = {} /\ UNCHANGED scanVars
    BY <1>4 DEF Mark, scanVars
  <2>2. bulk' = BulkCells /\ epochs' = Epochs
    BY <1>4 DEF Mark, Epochs
  <2>3. BulkCells' = BulkCells /\ Epochs' = Epochs
    BY <2>1 DEF scanVars, BulkCells, Dense, Contaminated, Closes, ClosesIn,
       Epochs, NamedCloses, FirstClose
  <2> QED BY <2>1, <2>2, <2>3 DEF MarkInv
<1>5. CASE Rolling
  <2>1. /\ pc = "roll" /\ pc' \in {"roll", "done"}
        /\ UNCHANGED <<scanVars, markVars>>
    BY <1>5 DEF Rolling, RollCommit, RollEvent, RollEnds
  <2> QED BY <1>1, <2>1 DEF MarkInv
<1>6. CASE UNCHANGED vars
  BY <1>1, <1>2, <1>6 DEF vars, MarkInv
<1> QED BY <1>3, <1>4, <1>5, <1>6 DEF Next, Done

-----------------------------------------------------------------------------
(* The rows.                                                                *)

LEMMA ColumnsTyped ==
    /\ EventColumns \subseteq Columns /\ "commits" \in Columns /\ "bulk_commits" \in Columns
    /\ "commits" \notin EventColumns /\ "bulk_commits" \notin EventColumns
    /\ \A e : e.kind \in COUNTED_KINDS => ColumnOf(e) \in EventColumns
BY DEF EventColumns, Columns, COUNTED_KINDS, ColumnOf

LEMMA CommitAdds ==
    ASSUME NEW c \in Commit
    PROVE  /\ \A k \in EventColumns : CommitDelta(c)[k] = 0
           /\ CommitDelta(c)["commits"] = 1
           /\ CommitDelta(c)["bulk_commits"] = IF IsBulk(c) THEN 1 ELSE 0
BY DEF CommitDelta, EmptyRow, EventColumns, Columns

LEMMA EventAdds ==
    ASSUME NEW e, e.kind \in COUNTED_KINDS
    PROVE  /\ \A k \in Columns : EventDelta(e)[k] = IF k = ColumnOf(e) THEN 1 ELSE 0
           /\ ColumnOf(e) \in EventColumns
BY ColumnsTyped DEF EventDelta, EmptyRow

(* What has been counted is finite, and what a row that is not there would  *)
(* count is nothing.                                                        *)
LEMMA RolledFinite ==
    ASSUME TypeOK, ScanInv
    PROVE  /\ IsFiniteSet(RolledEvents) /\ IsFiniteSet(RolledCommits)
           /\ \A k, c : IsFiniteSet(EventsIn(k, c)) /\ IsFiniteSet(WorkerEventsIn(k, c))
           /\ \A k : IsFiniteSet(CommitsIn(k)) /\ IsFiniteSet({c \in CommitsIn(k) : IsBulk(c)})
<1>1. IsFiniteSet(RolledEvents) /\ IsFiniteSet(RolledCommits)
  <2>1. RolledEvents \subseteq lines /\ RolledCommits \subseteq history
    BY DEF RolledEvents, RolledCommits, TypeOK
  <2> QED BY <2>1, FS_Subset DEF ScanInv
<1>2. ASSUME NEW k, NEW c
      PROVE  IsFiniteSet(EventsIn(k, c)) /\ IsFiniteSet(WorkerEventsIn(k, c))
  BY <1>1, FS_Subset DEF EventsIn, WorkerEventsIn
<1>3. ASSUME NEW k
      PROVE  IsFiniteSet(CommitsIn(k)) /\ IsFiniteSet({c \in CommitsIn(k) : IsBulk(c)})
  BY <1>1, FS_Subset DEF CommitsIn
<1> QED BY <1>1, <1>2, <1>3

LEMMA CellValues ==
    ASSUME CellsInv, NEW k
    PROVE  /\ \A c \in EventColumns : (IF k \in DOMAIN cells THEN cells[k][c] ELSE 0)
                                          = Cardinality(EventsIn(k, c))
           /\ (IF k \in DOMAIN cells THEN cells[k]["commits"] ELSE 0)
                  = Cardinality(CommitsIn(k))
           /\ (IF k \in DOMAIN cells THEN cells[k]["bulk_commits"] ELSE 0)
                  = Cardinality({c \in CommitsIn(k) : IsBulk(c)})
<1>1. CASE k \in DOMAIN cells
  BY <1>1 DEF CellsInv
<1>2. CASE k \notin DOMAIN cells
  <2>1. \A c : EventsIn(k, c) = {}
    BY <1>2 DEF CellsInv, EventsIn
  <2>2. CommitsIn(k) = {}
    BY <1>2 DEF CellsInv, CommitsIn
  <2> QED BY <1>2, <2>1, <2>2, FS_EmptySet
<1> QED BY <1>1, <1>2

LEMMA WorkerCellValues ==
    ASSUME WorkerCellsInv, NEW k
    PROVE  /\ \A c \in EventColumns : (IF k \in DOMAIN workerCells THEN workerCells[k][c] ELSE 0)
                                          = Cardinality(WorkerEventsIn(k, c))
           /\ \A c \in Columns \ EventColumns :
                  (IF k \in DOMAIN workerCells THEN workerCells[k][c] ELSE 0) = 0
<1>1. CASE k \in DOMAIN workerCells
  BY <1>1 DEF WorkerCellsInv
<1>2. CASE k \notin DOMAIN workerCells
  <2>1. \A c : WorkerEventsIn(k, c) = {}
    BY <1>2 DEF WorkerCellsInv, WorkerEventsIn
  <2> QED BY <1>2, <2>1, FS_EmptySet
<1> QED BY <1>1, <1>2

(* One more element counts one more.                                        *)
LEMMA CountOne ==
    ASSUME NEW S, IsFiniteSet(S), NEW x, x \notin S
    PROVE  /\ Cardinality(S) \in Nat
           /\ Cardinality(S \cup {x}) = Cardinality(S) + 1
BY FS_AddElement, FS_CardinalityType

LEMMA CommitCounted ==
    ASSUME TypeOK, ScanInv, CellsInv, NEW c \in commits, RollCommit(c)
    PROVE  CellsInv'
<1> DEFINE key == CellOf(c)
           delta == CommitDelta(c)
<1>0. /\ c \in Commit /\ c \notin rolled /\ c \notin events
      /\ cells' = Bump(cells, key, delta) /\ rolled' = rolled \cup {c}
      /\ UNCHANGED <<commits, events, bulk>>
  BY Apart DEF RollCommit, TypeOK, scanVars, markVars
<1>1. /\ RolledCommits' = RolledCommits \cup {c} /\ c \notin RolledCommits
      /\ RolledEvents' = RolledEvents
  BY <1>0 DEF RolledCommits, RolledEvents
<1>2. /\ \A k, d : EventsIn(k, d)' = EventsIn(k, d)
      /\ \A k : k # key => CommitsIn(k)' = CommitsIn(k)
      /\ CommitsIn(key)' = CommitsIn(key) \cup {c} /\ c \notin CommitsIn(key)
  BY <1>0, <1>1 DEF EventsIn, ColumnOf, CommitsIn
<1>3. /\ DOMAIN cells' = DOMAIN cells \cup {key}
      /\ \A k \in DOMAIN cells \ {key} : cells'[k] = cells[k]
      /\ \A d \in Columns : cells'[key][d]
             = (IF key \in DOMAIN cells THEN cells[key][d] ELSE 0) + delta[d]
  <2>1. DOMAIN cells' = DOMAIN cells \cup {key}
    BY <1>0, BumpKeys
  <2>2. \A k \in DOMAIN cells \ {key} : cells'[k] = cells[k]
    BY <1>0, BumpOthers
  <2>3. ASSUME NEW d \in Columns
        PROVE  cells'[key][d]
                   = (IF key \in DOMAIN cells THEN cells[key][d] ELSE 0) + delta[d]
    BY <1>0, BumpRow
  <2> QED BY <2>1, <2>2, <2>3
<1>4. ASSUME NEW k \in DOMAIN cells'
      PROVE  \E x \in RolledEvents' \cup RolledCommits' : CellOf(x) = k
  BY <1>1, <1>3 DEF CellsInv
<1>5. ASSUME NEW x \in RolledEvents' \cup RolledCommits'
      PROVE  CellOf(x) \in DOMAIN cells'
  BY <1>1, <1>3 DEF CellsInv
<1>6. ASSUME NEW k \in DOMAIN cells', k # key
      PROVE  /\ \A d \in EventColumns : cells'[k][d] = Cardinality(EventsIn(k, d)')
             /\ cells'[k]["commits"] = Cardinality(CommitsIn(k)')
             /\ cells'[k]["bulk_commits"] = Cardinality({x \in CommitsIn(k)' : IsBulk(x)})
  BY <1>2, <1>3, <1>6 DEF CellsInv
<1>7. \A d \in EventColumns : cells'[key][d] = Cardinality(EventsIn(key, d)')
  <2> SUFFICES ASSUME NEW d \in EventColumns
               PROVE  cells'[key][d] = Cardinality(EventsIn(key, d))
    BY <1>2
  <2>1. cells'[key][d] = Cardinality(EventsIn(key, d)) + 0
    BY <1>0, <1>3, CellValues, CommitAdds, ColumnsTyped
  <2>2. Cardinality(EventsIn(key, d)) \in Nat
    BY RolledFinite, FS_CardinalityType
  <2> QED BY <2>1, <2>2
<1>8. cells'[key]["commits"] = Cardinality(CommitsIn(key)')
  <2>1. cells'[key]["commits"] = Cardinality(CommitsIn(key)) + 1
    BY <1>0, <1>3, CellValues, CommitAdds, ColumnsTyped
  <2> QED BY <1>2, <2>1, RolledFinite, CountOne
<1>9. cells'[key]["bulk_commits"] = Cardinality({x \in CommitsIn(key)' : IsBulk(x)})
  <2> DEFINE before == {x \in CommitsIn(key) : IsBulk(x)}
             after == {x \in CommitsIn(key)' : IsBulk(x)}
  <2>1. cells'[key]["bulk_commits"] = Cardinality(before) + (IF IsBulk(c) THEN 1 ELSE 0)
    BY <1>0, <1>3, CellValues, CommitAdds, ColumnsTyped
  <2>2. after = (IF IsBulk(c) THEN before \cup {c} ELSE before) /\ c \notin before
    BY <1>2
  <2>3. IsFiniteSet(before) /\ Cardinality(before) \in Nat
    BY RolledFinite, FS_CardinalityType
  <2> HIDE DEF before, after
  <2>4. cells'[key]["bulk_commits"] = Cardinality(after)
    BY <2>1, <2>2, <2>3, CountOne
  <2> QED BY <2>4 DEF after
<1>10. ASSUME NEW k \in DOMAIN cells'
       PROVE  /\ \A d \in EventColumns : cells'[k][d] = Cardinality(EventsIn(k, d)')
              /\ cells'[k]["commits"] = Cardinality(CommitsIn(k)')
              /\ cells'[k]["bulk_commits"] = Cardinality({x \in CommitsIn(k)' : IsBulk(x)})
  <2> HIDE DEF key
  <2> QED BY <1>6, <1>7, <1>8, <1>9
<1> QED BY <1>4, <1>5, <1>10 DEF CellsInv, IsBulk

(* What rolling one counted event up changes.                               *)
Counts(e) ==
    /\ e \in Event /\ e.kind \in COUNTED_KINDS
    /\ RolledEvents' = RolledEvents \cup {e} /\ e \notin RolledEvents
    /\ RolledCommits' = RolledCommits
    /\ UNCHANGED <<bulk, epochs>>

LEMMA EventCounted ==
    ASSUME TypeOK, ScanInv, CellsInv, NEW e, Counts(e),
           NEW key, key = CellOf(e), NEW col, col = ColumnOf(e),
           NEW delta, delta = EventDelta(e),
           cells' = Bump(cells, key, delta)
    PROVE  CellsInv'
<1>1. /\ \A k : CommitsIn(k)' = CommitsIn(k)
      /\ \A k, d : k # key \/ d # col => EventsIn(k, d)' = EventsIn(k, d)
      /\ EventsIn(key, col)' = EventsIn(key, col) \cup {e} /\ e \notin EventsIn(key, col)
  BY DEF Counts, EventsIn, ColumnOf, CommitsIn
<1>2. col \in EventColumns /\ \A d \in Columns : delta[d] = IF d = col THEN 1 ELSE 0
  BY EventAdds DEF Counts
<1>3. /\ DOMAIN cells' = DOMAIN cells \cup {key}
      /\ \A k \in DOMAIN cells \ {key} : cells'[k] = cells[k]
      /\ \A d \in Columns : cells'[key][d]
             = (IF key \in DOMAIN cells THEN cells[key][d] ELSE 0) + delta[d]
  <2>1. DOMAIN cells' = DOMAIN cells \cup {key}
    BY BumpKeys
  <2>2. \A k \in DOMAIN cells \ {key} : cells'[k] = cells[k]
    BY BumpOthers
  <2>3. ASSUME NEW d \in Columns
        PROVE  cells'[key][d]
                   = (IF key \in DOMAIN cells THEN cells[key][d] ELSE 0) + delta[d]
    BY BumpRow
  <2> QED BY <2>1, <2>2, <2>3
<1>4. /\ \A k \in DOMAIN cells' :
             \E x \in RolledEvents' \cup RolledCommits' : CellOf(x) = k
      /\ \A x \in RolledEvents' \cup RolledCommits' : CellOf(x) \in DOMAIN cells'
  BY <1>3 DEF CellsInv, Counts
<1>5. /\ \A k, d : Cardinality(EventsIn(k, d)) \in Nat
      /\ \A k : Cardinality(CommitsIn(k)) \in Nat
                /\ Cardinality({x \in CommitsIn(k) : IsBulk(x)}) \in Nat
  BY RolledFinite, FS_CardinalityType
<1>6. ASSUME NEW k \in DOMAIN cells', k # key
      PROVE  /\ \A d \in EventColumns : cells'[k][d] = Cardinality(EventsIn(k, d)')
             /\ cells'[k]["commits"] = Cardinality(CommitsIn(k)')
             /\ cells'[k]["bulk_commits"] = Cardinality({x \in CommitsIn(k)' : IsBulk(x)})
  BY <1>1, <1>3, <1>6 DEF CellsInv
<1>7. ASSUME NEW d \in EventColumns PROVE cells'[key][d] = Cardinality(EventsIn(key, d)')
  <2>1. cells'[key][d] = Cardinality(EventsIn(key, d)) + (IF d = col THEN 1 ELSE 0)
    <3>1. cells'[key][d] = (IF key \in DOMAIN cells THEN cells[key][d] ELSE 0) + delta[d]
      BY <1>3, ColumnsTyped
    <3>2. (IF key \in DOMAIN cells THEN cells[key][d] ELSE 0) = Cardinality(EventsIn(key, d))
      BY CellValues
    <3>3. delta[d] = IF d = col THEN 1 ELSE 0
      BY <1>2, ColumnsTyped
    <3> QED BY <3>1, <3>2, <3>3
  <2>2. CASE d = col
    BY <1>1, <2>1, <2>2, RolledFinite, CountOne
  <2>3. CASE d # col
    BY <1>1, <1>5, <2>1, <2>3
  <2> QED BY <2>2, <2>3
<1>8. /\ cells'[key]["commits"] = Cardinality(CommitsIn(key)')
      /\ cells'[key]["bulk_commits"] = Cardinality({x \in CommitsIn(key)' : IsBulk(x)})
  <2>1. /\ cells'[key]["commits"] = Cardinality(CommitsIn(key)) + 0
        /\ cells'[key]["bulk_commits"]
               = Cardinality({x \in CommitsIn(key) : IsBulk(x)}) + 0
    BY <1>2, <1>3, CellValues, ColumnsTyped
  <2> QED BY <1>1, <1>5, <2>1
<1> QED BY <1>4, <1>6, <1>7, <1>8 DEF CellsInv, IsBulk

LEMMA WorkerEventCounted ==
    ASSUME TypeOK, ScanInv, WorkerCellsInv, NEW e, Counts(e),
           NEW key, key = WorkerCellOf(e), NEW col, col = ColumnOf(e),
           NEW delta, delta = EventDelta(e),
           workerCells' = Bump(workerCells, key, delta)
    PROVE  WorkerCellsInv'
<1>1. \A x : WorkerCellOf(x)' = WorkerCellOf(x) /\ ColumnOf(x)' = ColumnOf(x)
  BY DEF Counts, WorkerCellOf, WorkerLabel, FromEpoch, ColumnOf
<1>2. /\ \A k, d : k # key \/ d # col => WorkerEventsIn(k, d)' = WorkerEventsIn(k, d)
      /\ WorkerEventsIn(key, col)' = WorkerEventsIn(key, col) \cup {e}
      /\ e \notin WorkerEventsIn(key, col)
  BY <1>1 DEF Counts, WorkerEventsIn
<1>3. col \in EventColumns /\ \A d \in Columns : delta[d] = IF d = col THEN 1 ELSE 0
  BY EventAdds DEF Counts
<1>4. /\ DOMAIN workerCells' = DOMAIN workerCells \cup {key}
      /\ \A k \in DOMAIN workerCells \ {key} : workerCells'[k] = workerCells[k]
      /\ \A d \in Columns : workerCells'[key][d]
             = (IF key \in DOMAIN workerCells THEN workerCells[key][d] ELSE 0) + delta[d]
  <2>1. DOMAIN workerCells' = DOMAIN workerCells \cup {key}
    BY BumpKeys
  <2>2. \A k \in DOMAIN workerCells \ {key} : workerCells'[k] = workerCells[k]
    BY BumpOthers
  <2>3. ASSUME NEW d \in Columns
        PROVE  workerCells'[key][d]
                   = (IF key \in DOMAIN workerCells THEN workerCells[key][d] ELSE 0) + delta[d]
    BY BumpRow
  <2> QED BY <2>1, <2>2, <2>3
<1>5. /\ \A k \in DOMAIN workerCells' : \E x \in RolledEvents' : WorkerCellOf(x)' = k
      /\ \A x \in RolledEvents' : WorkerCellOf(x)' \in DOMAIN workerCells'
  BY <1>1, <1>4 DEF WorkerCellsInv, Counts
<1>6. ASSUME NEW k \in DOMAIN workerCells', k # key
      PROVE  /\ \A d \in EventColumns : workerCells'[k][d] = Cardinality(WorkerEventsIn(k, d)')
             /\ \A d \in Columns \ EventColumns : workerCells'[k][d] = 0
  BY <1>2, <1>4, <1>6 DEF WorkerCellsInv
<1>7. ASSUME NEW d \in EventColumns
      PROVE  workerCells'[key][d] = Cardinality(WorkerEventsIn(key, d)')
  <2>1. workerCells'[key][d]
            = Cardinality(WorkerEventsIn(key, d)) + (IF d = col THEN 1 ELSE 0)
    BY <1>3, <1>4, WorkerCellValues, ColumnsTyped
  <2>2. CASE d = col
    BY <1>2, <2>1, <2>2, RolledFinite, CountOne
  <2>3. CASE d # col
    BY <1>2, <2>1, <2>3, RolledFinite, FS_CardinalityType
  <2> QED BY <2>2, <2>3
<1>8. ASSUME NEW d \in Columns \ EventColumns PROVE workerCells'[key][d] = 0
  <2>1. workerCells'[key][d] = 0 + 0
    BY <1>3, <1>4, WorkerCellValues, ColumnsTyped
  <2> QED BY <2>1
<1> QED BY <1>5, <1>6, <1>7, <1>8 DEF WorkerCellsInv

LEMMA ClaimCounted ==
    ASSUME TypeOK, ClaimersInv, NEW e \in events, RollEvent(e)
    PROVE  ClaimersInv'
<1>0. /\ rolled' = rolled \cup {e} /\ UNCHANGED <<events, epochs>>
      /\ \A x : ClaimsAsWorker(x)' = ClaimsAsWorker(x)
  BY DEF RollEvent, scanVars, markVars, ClaimsAsWorker, WorkerLabel, FromEpoch
<1>1. CASE e.kind = "claimed" /\ e.actor # Nobody
  <2>1. RolledClaims' = RolledClaims \cup {e}
    BY <1>0, <1>1 DEF RolledClaims
  <2>2. claimers' = claimers \cup {<<CellOf(e), e.actor>>}
    BY <1>1 DEF RollEvent
  <2>3. workerClaimers' = workerClaimers \cup
            (IF ClaimsAsWorker(e) THEN {<<e.repo, Hour(e), e.actor>>} ELSE {})
    BY <1>1 DEF RollEvent
  <2>4. claimers' = {<<CellOf(x), x.actor>> : x \in RolledClaims'}
    BY <2>1, <2>2 DEF ClaimersInv
  <2>5. workerClaimers' = {<<x.repo, Hour(x), x.actor>> :
                               x \in {y \in RolledClaims' : ClaimsAsWorker(y)'}}
    BY <1>0, <2>1, <2>3 DEF ClaimersInv
  <2> QED BY <2>4, <2>5 DEF ClaimersInv
<1>2. CASE ~ (e.kind = "claimed" /\ e.actor # Nobody)
  <2>1. RolledClaims' = RolledClaims
    BY <1>0, <1>2 DEF RolledClaims
  <2>2. UNCHANGED <<claimers, workerClaimers>>
    BY <1>2 DEF RollEvent
  <2>3. workerClaimers' = {<<x.repo, Hour(x), x.actor>> :
                               x \in {y \in RolledClaims' : ClaimsAsWorker(y)'}}
    BY <1>0, <2>1, <2>2 DEF ClaimersInv
  <2>4. claimers' = {<<CellOf(x), x.actor>> : x \in RolledClaims'}
    BY <2>1, <2>2 DEF ClaimersInv
  <2> QED BY <2>3, <2>4 DEF ClaimersInv
<1> QED BY <1>1, <1>2

(* The tables are empty until the events are marked, and follow the records *)
(* that are rolled up then.                                                 *)
Tables == CellsInv /\ WorkerCellsInv /\ ClaimersInv

NoRows ==
    /\ cells = <<>> /\ workerCells = <<>> /\ claimers = {} /\ workerClaimers = {}
    /\ rolled = {}

LEMMA TablesStart == NoRows => Tables
<1> SUFFICES ASSUME NoRows PROVE Tables
  OBVIOUS
<1> USE DEF NoRows
<1>1. RolledEvents = {} /\ RolledCommits = {} /\ RolledClaims = {}
  BY DEF RolledEvents, RolledCommits, RolledClaims
<1>2. DOMAIN cells = {} /\ DOMAIN workerCells = {}
  OBVIOUS
<1> QED BY <1>1, <1>2 DEF Tables, CellsInv, WorkerCellsInv, ClaimersInv

LEMMA TablesStand ==
    ASSUME Tables, UNCHANGED <<commits, events, bulk, epochs, cellVars>>
    PROVE  Tables'
<1> USE DEF cellVars
<1>1. /\ RolledEvents' = RolledEvents /\ RolledCommits' = RolledCommits
      /\ RolledClaims' = RolledClaims
  BY DEF RolledEvents, RolledCommits, RolledClaims
<1>2. \A x : /\ WorkerCellOf(x)' = WorkerCellOf(x) /\ ColumnOf(x)' = ColumnOf(x)
             /\ ClaimsAsWorker(x)' = ClaimsAsWorker(x)
  BY DEF WorkerCellOf, WorkerLabel, FromEpoch, ColumnOf, ClaimsAsWorker
<1>3. CellsInv'
  BY <1>1, <1>2 DEF Tables, CellsInv, EventsIn, CommitsIn
<1>4. WorkerCellsInv'
  BY <1>1, <1>2 DEF Tables, WorkerCellsInv, WorkerEventsIn
<1>5. ClaimersInv'
  BY <1>1, <1>2 DEF Tables, ClaimersInv
<1> QED BY <1>3, <1>4, <1>5 DEF Tables

LEMMA EventRolled ==
    ASSUME TypeOK, ScanInv, Tables, NEW e \in events, RollEvent(e)
    PROVE  Tables'
<1>0. /\ e \in Event /\ e \notin commits /\ e \notin rolled
      /\ rolled' = rolled \cup {e} /\ UNCHANGED <<commits, events, bulk, epochs>>
  BY Apart DEF RollEvent, TypeOK, scanVars, markVars
<1>1. RolledCommits' = RolledCommits
  BY <1>0 DEF RolledCommits
<1>2. ClaimersInv'
  BY ClaimCounted DEF Tables
<1>3. CASE e.kind \in COUNTED_KINDS
  <2>1. Counts(e)
    BY <1>0, <1>1, <1>3 DEF Counts, RolledEvents
  <2>2. /\ cells' = Bump(cells, CellOf(e), EventDelta(e))
        /\ workerCells' = Bump(workerCells, WorkerCellOf(e), EventDelta(e))
    BY <1>3 DEF RollEvent, WorkerDelta
  <2>3. CellsInv'
    BY <2>1, <2>2, EventCounted DEF Tables
  <2>4. WorkerCellsInv'
    BY <2>1, <2>2, WorkerEventCounted DEF Tables
  <2> QED BY <1>2, <2>3, <2>4 DEF Tables
<1>4. CASE e.kind \notin COUNTED_KINDS
  <2>1. UNCHANGED <<cells, workerCells>>
    BY <1>4 DEF RollEvent
  <2>2. RolledEvents' = RolledEvents
    BY <1>0, <1>4 DEF RolledEvents
  <2>3. \A x : WorkerCellOf(x)' = WorkerCellOf(x) /\ ColumnOf(x)' = ColumnOf(x)
    BY <1>0 DEF WorkerCellOf, WorkerLabel, FromEpoch, ColumnOf
  <2>4. CellsInv'
    BY <1>1, <2>1, <2>2, <2>3 DEF Tables, CellsInv, EventsIn, CommitsIn
  <2>5. WorkerCellsInv'
    BY <2>1, <2>2, <2>3 DEF Tables, WorkerCellsInv, WorkerEventsIn
  <2> QED BY <1>2, <2>4, <2>5 DEF Tables
<1> QED BY <1>3, <1>4

LEMMA CommitRolled ==
    ASSUME TypeOK, ScanInv, Tables, NEW c \in commits, RollCommit(c)
    PROVE  Tables'
<1>0. /\ c \notin events /\ rolled' = rolled \cup {c}
      /\ UNCHANGED <<events, bulk, epochs, workerCells, claimers, workerClaimers>>
  BY Apart DEF RollCommit, TypeOK, scanVars, markVars
<1>1. RolledEvents' = RolledEvents /\ RolledClaims' = RolledClaims
  BY <1>0 DEF RolledEvents, RolledClaims
<1>2. \A x : /\ WorkerCellOf(x)' = WorkerCellOf(x) /\ ColumnOf(x)' = ColumnOf(x)
             /\ ClaimsAsWorker(x)' = ClaimsAsWorker(x)
  BY <1>0 DEF WorkerCellOf, WorkerLabel, FromEpoch, ColumnOf, ClaimsAsWorker
<1>3. CellsInv'
  BY CommitCounted DEF Tables
<1>4. WorkerCellsInv'
  BY <1>0, <1>1, <1>2 DEF Tables, WorkerCellsInv, WorkerEventsIn
<1>5. ClaimersInv'
  BY <1>0, <1>1, <1>2 DEF Tables, ClaimersInv
<1> QED BY <1>3, <1>4, <1>5 DEF Tables

LEMMA TablesStep ==
    ASSUME TypeOK, ScanInv, MarkInv, Tables, [Next]_vars
    PROVE  Tables'
<1>1. CASE Scanning \/ Mark
  <2>1. pc \notin {"roll", "done"} /\ UNCHANGED cellVars
    BY <1>1 DEF Scanning, ScanRepo, ReadCommit, ReadEvent, LogEnds, ScanFails,
       ScanEnds, Mark
  <2>2. NoRows'
    BY <2>1 DEF MarkInv, NoRows, cellVars
  <2> QED BY <2>2, TablesStart, PTL
<1>2. CASE RollEnds \/ UNCHANGED vars
  BY <1>2, TablesStand DEF RollEnds, vars, scanVars, markVars
<1> QED BY <1>1, <1>2, EventRolled, CommitRolled DEF Next, Rolling, Done

LEMMA DoneStep ==
    ASSUME TypeOK, DoneInv, [Next]_vars
    PROVE  DoneInv'
<1> USE DEF DoneInv
<1>1. CASE Scanning \/ Mark
  BY <1>1 DEF Scanning, ScanRepo, ReadCommit, ReadEvent, LogEnds, ScanFails,
     ScanEnds, Mark
<1>2. CASE Rolling
  BY <1>2 DEF Rolling, RollCommit, RollEvent, RollEnds, scanVars, cellVars
<1>3. CASE UNCHANGED vars
  BY <1>3 DEF vars, scanVars, cellVars
<1> QED BY <1>1, <1>2, <1>3 DEF Next, Done

LEMMA RollupInit == Init => RollupInv
<1> SUFFICES ASSUME Init PROVE RollupInv
  OBVIOUS
<1>1. DOMAIN cells = {} /\ DOMAIN workerCells = {} /\ DOMAIN epochs = {}
  BY DEF Init
<1>2. TypeOK
  BY <1>1 DEF Init, TypeOK
<1>3. ScanInv
  BY FS_EmptySet, RollupAssumption DEF Init, ScanInv, Total, Reading
<1>4. MarkInv /\ DoneInv
  BY DEF Init, MarkInv, DoneInv
<1>5. Tables
  BY TablesStart DEF Init, NoRows
<1> QED BY <1>2, <1>3, <1>4, <1>5 DEF RollupInv, Tables

(* Every reachable state has tables that count what has been rolled up,     *)
(* from marks that were made of all events, from scans that kept what lies  *)
(* in the window.                                                           *)
THEOREM RollupInvariance == Spec => []RollupInv
<1>1. RollupInv /\ [Next]_vars => RollupInv'
  BY RollupTypes, ScanStep, MarkStep, TablesStep, DoneStep DEF RollupInv,
     Tables
<1> QED BY <1>1, RollupInit, PTL DEF Spec

(* Every variable keeps its type: no record without a copy number, no epoch *)
(* outside the window, no negative count.                                   *)
THEOREM RollupTypeCorrect == Spec => []TypeOK
<1>1. RollupInv => TypeOK
  BY DEF RollupInv
<1> QED BY <1>1, RollupInvariance, PTL


-----------------------------------------------------------------------------
(* The finished table.                                                      *)

(* At the end everything that was read of the repositories that did not     *)
(* fail, and lies in the window, has been rolled up.                        *)
LEMMA Finished ==
    ASSUME RollupInv, pc = "done"
    PROVE  /\ events = {e \in lines : Counted(e.repo) /\ InWindow(e)}
           /\ RolledCommits = {c \in history : Counted(c.repo) /\ InWindow(c)}
           /\ RolledEvents = {e \in events : e.kind \in COUNTED_KINDS}
           /\ RolledClaims = {e \in events : e.kind = "claimed" /\ e.actor # Nobody}
           /\ bulk = BulkCells /\ epochs = Epochs
           /\ lines \subseteq Event /\ history \subseteq Commit
           /\ IsFiniteSet(lines) /\ IsFiniteSet(history) /\ IsFiniteSet(events)
           /\ IsFiniteSet(RolledCommits) /\ IsFiniteSet(RolledEvents)
<1>1. TypeOK /\ ScanInv /\ MarkInv /\ DoneInv
  BY DEF RollupInv
<1>2. lines \subseteq Event /\ history \subseteq Commit /\ IsFiniteSet(lines)
      /\ IsFiniteSet(history) /\ rolled = commits \cup events
  BY <1>1 DEF TypeOK, ScanInv, DoneInv
<1>3. \A x \in lines \cup history : Contains(x.ts) <=> InWindow(x)
  BY <1>2, CellTyped, RollupAssumption DEF Contains, InWindow
<1>4. /\ events = {e \in lines : Counted(e.repo) /\ InWindow(e)}
      /\ commits = {c \in history : Counted(c.repo) /\ InWindow(c)}
  BY <1>1, <1>3 DEF ScanInv, Over, Reading, Counted
<1>5. RolledCommits = commits
  BY <1>2 DEF RolledCommits
<1>6. /\ RolledEvents = {e \in events : e.kind \in COUNTED_KINDS}
      /\ RolledClaims = {e \in events : e.kind = "claimed" /\ e.actor # Nobody}
  BY <1>2 DEF RolledEvents, RolledClaims
<1>7. bulk = BulkCells /\ epochs = Epochs
  BY <1>1 DEF MarkInv
<1>8. IsFiniteSet(events) /\ IsFiniteSet(RolledCommits) /\ IsFiniteSet(RolledEvents)
  <2>1. events \subseteq lines /\ RolledCommits \subseteq history /\ RolledEvents \subseteq lines
    BY <1>4, <1>5, <1>6
  <2> QED BY <1>2, <2>1, FS_Subset
<1> QED BY <1>2, <1>4, <1>5, <1>6, <1>7, <1>8

(* The row of a cell counts the lines of its hour.                          *)
LEMMA RowLines ==
    ASSUME RollupInv, pc = "done", NEW r \in Repos, NEW h \in Hours
    PROVE  /\ EventsIn(<<r, h>>, "closed") \cup EventsIn(<<r, h>>, "closed_bulk")
                  = (IF Counted(r) THEN Lines(r, h, "closed") ELSE {})
           /\ EventsIn(<<r, h>>, "closed") \cap EventsIn(<<r, h>>, "closed_bulk") = {}
           /\ \A k \in COUNTED_KINDS \ {"closed"} :
                  EventsIn(<<r, h>>, k) = (IF Counted(r) THEN Lines(r, h, k) ELSE {})
           /\ CommitsIn(<<r, h>>) = (IF Counted(r) THEN Log(r, h) ELSE {})
<1>1. \A e : e \in RolledEvents /\ CellOf(e) = <<r, h>>
             <=> /\ Counted(r) /\ e \in lines /\ e.repo = r /\ Hour(e) = h /\ InWindow(e)
                 /\ e.kind \in COUNTED_KINDS
  BY Finished DEF CellOf
<1>2. \A c : c \in RolledCommits /\ CellOf(c) = <<r, h>>
             <=> Counted(r) /\ c \in history /\ c.repo = r /\ Hour(c) = h /\ InWindow(c)
  BY Finished DEF CellOf
<1>3. EventsIn(<<r, h>>, "closed") \cup EventsIn(<<r, h>>, "closed_bulk")
          = (IF Counted(r) THEN Lines(r, h, "closed") ELSE {})
  BY <1>1 DEF EventsIn, Lines, ColumnOf, COUNTED_KINDS
<1>4. EventsIn(<<r, h>>, "closed") \cap EventsIn(<<r, h>>, "closed_bulk") = {}
  BY DEF EventsIn
<1>5. ASSUME NEW k \in COUNTED_KINDS \ {"closed"}
      PROVE  EventsIn(<<r, h>>, k) = (IF Counted(r) THEN Lines(r, h, k) ELSE {})
  BY <1>1 DEF EventsIn, Lines, ColumnOf, COUNTED_KINDS
<1>6. CommitsIn(<<r, h>>) = (IF Counted(r) THEN Log(r, h) ELSE {})
  BY <1>2 DEF CommitsIn, Log
<1> QED BY <1>3, <1>4, <1>5, <1>6

(* Two disjoint finite sets count what they count together.                 *)
LEMMA TwoParts ==
    ASSUME NEW S, IsFiniteSet(S), NEW T, IsFiniteSet(T), S \cap T = {}
    PROVE  Cardinality(S) + Cardinality(T) = Cardinality(S \cup T)
<1>1. Cardinality(S \cap T) = 0
  BY FS_EmptySet
<1>2. Cardinality(S \cup T) = Cardinality(S) + Cardinality(T) - Cardinality(S \cap T)
  BY FS_Union
<1> QED BY <1>1, <1>2, FS_CardinalityType

(* A set with an element counts at least one.                               *)
LEMMA Positive ==
    ASSUME NEW S, IsFiniteSet(S), S # {}
    PROVE  Cardinality(S) \in Nat /\ Cardinality(S) > 0
BY FS_EmptySet, FS_CardinalityType

LEMMA RowIsComplete == RollupInv => RepositoryIsComplete
<1> SUFFICES ASSUME RollupInv, pc = "done", NEW r \in Repos, NEW h \in Hours
    PROVE  LET row == IF <<r, h>> \in DOMAIN cells THEN cells[<<r, h>>] ELSE EmptyRow
               n(S) == IF Counted(r) THEN Cardinality(S) ELSE 0
           IN  /\ row["closed"] + row["closed_bulk"] = n(Lines(r, h, "closed"))
               /\ \A k \in COUNTED_KINDS \ {"closed"} : row[k] = n(Lines(r, h, k))
               /\ row["commits"] = n(Log(r, h))
               /\ row["bulk_commits"] = n({c \in Log(r, h) : c.size > TrimMax})
               /\ <<r, h>> \in DOMAIN cells => row # EmptyRow
  BY DEF RepositoryIsComplete
<1> DEFINE key == <<r, h>>
           row == IF key \in DOMAIN cells THEN cells[key] ELSE EmptyRow
           n(S) == IF Counted(r) THEN Cardinality(S) ELSE 0
<1>1. CellsInv
  BY DEF RollupInv
<1>2. /\ \A c \in EventColumns : row[c] = Cardinality(EventsIn(key, c))
      /\ row["commits"] = Cardinality(CommitsIn(key))
      /\ row["bulk_commits"] = Cardinality({c \in CommitsIn(key) : IsBulk(c)})
  <2>1. \A c \in Columns : EmptyRow[c] = 0
    BY DEF EmptyRow
  <2>2. \A c \in Columns : row[c] = IF key \in DOMAIN cells THEN cells[key][c] ELSE 0
    BY <2>1
  <2> HIDE DEF row, key
  <2>3. EventColumns \subseteq Columns /\ "commits" \in Columns /\ "bulk_commits" \in Columns
    BY DEF EventColumns, Columns
  <2> QED BY <1>1, <2>2, <2>3, CellValues
<1>3. /\ \A c : IsFiniteSet(EventsIn(key, c))
      /\ IsFiniteSet(CommitsIn(key))
  <2>1. /\ \A c : EventsIn(key, c) \subseteq RolledEvents
        /\ CommitsIn(key) \subseteq RolledCommits
    BY DEF EventsIn, CommitsIn
  <2> QED BY <2>1, Finished, FS_Subset
<1>4. Cardinality({}) = 0
  BY FS_EmptySet
<1>5. row["closed"] + row["closed_bulk"] = n(Lines(r, h, "closed"))
  <2>1. Cardinality(EventsIn(key, "closed")) + Cardinality(EventsIn(key, "closed_bulk"))
            = Cardinality(EventsIn(key, "closed") \cup EventsIn(key, "closed_bulk"))
    BY <1>3, RowLines, TwoParts
  <2>2. row["closed"] = Cardinality(EventsIn(key, "closed"))
        /\ row["closed_bulk"] = Cardinality(EventsIn(key, "closed_bulk"))
    <3> HIDE DEF row, key
    <3> QED BY <1>2 DEF EventColumns
  <2>3. Cardinality(EventsIn(key, "closed") \cup EventsIn(key, "closed_bulk"))
            = n(Lines(r, h, "closed"))
    BY <1>4, RowLines
  <2> HIDE DEF row, key, n
  <2> QED BY <2>1, <2>2, <2>3
<1>6. ASSUME NEW k \in COUNTED_KINDS \ {"closed"} PROVE row[k] = n(Lines(r, h, k))
  <2>1. row[k] = Cardinality(EventsIn(key, k))
    <3> HIDE DEF row, key
    <3> QED BY <1>2 DEF EventColumns, COUNTED_KINDS
  <2>2. Cardinality(EventsIn(key, k)) = n(Lines(r, h, k))
    BY <1>4, RowLines
  <2> HIDE DEF row, key, n
  <2> QED BY <2>1, <2>2
<1>7. row["commits"] = n(Log(r, h))
  <2>1. Cardinality(CommitsIn(key)) = n(Log(r, h))
    BY <1>4, RowLines
  <2> HIDE DEF row, key, n
  <2> QED BY <1>2, <2>1
<1>8. row["bulk_commits"] = n({c \in Log(r, h) : c.size > TrimMax})
  <2>1. {c \in CommitsIn(key) : IsBulk(c)}
            = (IF Counted(r) THEN {c \in Log(r, h) : c.size > TrimMax} ELSE {})
    BY RowLines DEF IsBulk
  <2>2. Cardinality({c \in CommitsIn(key) : IsBulk(c)})
            = n({c \in Log(r, h) : c.size > TrimMax})
    BY <1>4, <2>1
  <2> HIDE DEF row, key, n
  <2> QED BY <1>2, <2>2
<1>9. ASSUME key \in DOMAIN cells PROVE row # EmptyRow
  <2>1. PICK x \in RolledEvents \cup RolledCommits : CellOf(x) = key
    BY <1>1, <1>9 DEF CellsInv
  <2>2. \A c \in Columns : EmptyRow[c] = 0
    BY DEF EmptyRow
  <2>3. CASE x \in RolledEvents
    <3>1. ColumnOf(x) \in EventColumns /\ x \in EventsIn(key, ColumnOf(x))
      BY <2>1, <2>3 DEF EventsIn, ColumnOf, RolledEvents, COUNTED_KINDS,
         EventColumns
    <3>2. Cardinality(EventsIn(key, ColumnOf(x))) # 0
      BY <1>3, <3>1, Positive
    <3>3. row[ColumnOf(x)] # 0
      <4> HIDE DEF row, key
      <4> QED BY <1>2, <3>1, <3>2
    <3>4. ColumnOf(x) \in Columns
      BY <3>1 DEF EventColumns, Columns
    <3> HIDE DEF row, key
    <3> QED BY <2>2, <3>3, <3>4
  <2>4. CASE x \in RolledCommits
    <3>1. x \in CommitsIn(key)
      BY <2>1, <2>4 DEF CommitsIn
    <3>2. Cardinality(CommitsIn(key)) # 0
      BY <1>3, <3>1, Positive
    <3>3. row["commits"] # 0
      <4> HIDE DEF row, key
      <4> QED BY <1>2, <3>2
    <3> HIDE DEF row, key
    <3> QED BY <2>2, <3>3 DEF Columns
  <2> QED BY <2>1, <2>3, <2>4
<1> QED BY <1>5, <1>6, <1>7, <1>8, <1>9

(* The repository row of an hour counts every commit and every counted      *)
(* event of the window once, in its hour, whatever the order in which the   *)
(* repositories are scanned and the records are rolled up, and nothing of a *)
(* repository whose scan failed.                                            *)
THEOREM RepositoryCompleteness == Spec => []RepositoryIsComplete
BY RowIsComplete, RollupInvariance, PTL

(* There are finitely many rows, of the cells and of the workers.           *)
LEMMA FiniteRows ==
    ASSUME RollupInv, pc = "done"
    PROVE  IsFiniteSet(DOMAIN cells) /\ IsFiniteSet(DOMAIN workerCells)
<1>1. IsFiniteSet(RolledEvents \cup RolledCommits) /\ IsFiniteSet(RolledEvents)
  BY Finished, FS_Union
<1>2. IsFiniteSet(DOMAIN cells)
  <2> DEFINE f == [x \in RolledEvents \cup RolledCommits |-> CellOf(x)]
  <2>1. f \in Surjection(RolledEvents \cup RolledCommits, DOMAIN cells)
    BY DEF RollupInv, CellsInv, Surjection
  <2> HIDE DEF f
  <2> QED BY <1>1, <2>1, FS_Surjection
<1>3. IsFiniteSet(DOMAIN workerCells)
  <2> DEFINE f == [e \in RolledEvents |-> WorkerCellOf(e)]
  <2>1. f \in Surjection(RolledEvents, DOMAIN workerCells)
    BY DEF RollupInv, WorkerCellsInv, Surjection
  <2> HIDE DEF f
  <2> QED BY <1>1, <2>1, FS_Surjection
<1> QED BY <1>2, <1>3

(* The rows of the workers in a cell count disjoint parts of what the row   *)
(* of the cell counts, which together are all of it.                        *)
LEMMA WorkerParts ==
    ASSUME RollupInv, pc = "done", NEW cell \in Repos \X Hours, NEW c
    PROVE  LET parts == {k \in DOMAIN workerCells : <<k[1], k[2]>> = cell}
           IN  /\ UNION {WorkerEventsIn(k, c) : k \in parts} = EventsIn(cell, c)
               /\ \A j, k \in parts : j # k => WorkerEventsIn(j, c) \cap WorkerEventsIn(k, c) = {}
               /\ \A k \in parts : IsFiniteSet(WorkerEventsIn(k, c))
<1> DEFINE parts == {k \in DOMAIN workerCells : <<k[1], k[2]>> = cell}
<1>1. ASSUME NEW e \in EventsIn(cell, c)
      PROVE  WorkerCellOf(e) \in parts /\ e \in WorkerEventsIn(WorkerCellOf(e), c)
  <2>1. WorkerCellOf(e) \in DOMAIN workerCells
    BY DEF RollupInv, WorkerCellsInv, EventsIn
  <2>2. <<WorkerCellOf(e)[1], WorkerCellOf(e)[2]>> = cell
    BY DEF WorkerCellOf, CellOf, EventsIn
  <2> QED BY <2>1, <2>2 DEF WorkerEventsIn, EventsIn
<1>2. ASSUME NEW k \in parts, NEW e \in WorkerEventsIn(k, c)
      PROVE  e \in EventsIn(cell, c)
  <2>1. WorkerCellOf(e) = k /\ <<k[1], k[2]>> = cell /\ e \in RolledEvents /\ ColumnOf(e) = c
    BY DEF WorkerEventsIn
  <2>2. CellOf(e) = cell
    BY <2>1 DEF WorkerCellOf, CellOf
  <2> QED BY <2>1, <2>2 DEF EventsIn
<1>3. \A j, k \in parts : j # k => WorkerEventsIn(j, c) \cap WorkerEventsIn(k, c) = {}
  BY DEF WorkerEventsIn
<1>4. ASSUME NEW k \in parts PROVE IsFiniteSet(WorkerEventsIn(k, c))
  BY RolledFinite DEF RollupInv
<1> HIDE DEF parts
<1>5. UNION {WorkerEventsIn(k, c) : k \in parts} = EventsIn(cell, c)
  BY <1>1, <1>2
<1> QED BY <1>3, <1>4, <1>5 DEF parts

LEMMA RowsPartition == RollupInv => WorkersPartition
<1> SUFFICES ASSUME RollupInv, pc = "done", NEW cell \in Repos \X Hours, NEW c \in Columns
    PROVE  LET parts == {k \in DOMAIN workerCells : <<k[1], k[2]>> = cell}
               sum == MapThenSumSet(LAMBDA k : workerCells[k][c], parts)
           IN  IF c \in EventColumns
               THEN sum = (IF cell \in DOMAIN cells THEN cells[cell][c] ELSE 0)
               ELSE sum = 0
  BY DEF WorkersPartition
<1> DEFINE parts == {k \in DOMAIN workerCells : <<k[1], k[2]>> = cell}
           P == [k \in parts |-> IF c \in EventColumns THEN WorkerEventsIn(k, c) ELSE {}]
<1>1. IsFiniteSet(parts)
  BY FiniteRows, FS_Subset
<1>2. /\ \A k \in parts : IsFiniteSet(P[k])
      /\ \A j, k \in parts : j # k => P[j] \cap P[k] = {}
  BY WorkerParts, FS_EmptySet
<1>3. ASSUME NEW k \in parts PROVE workerCells[k][c] = Cardinality(P[k])
  BY FS_EmptySet DEF RollupInv, WorkerCellsInv
<1>4. UNION {P[k] : k \in parts} = IF c \in EventColumns THEN EventsIn(cell, c) ELSE {}
  <2>1. CASE c \in EventColumns
    <3>1. {P[k] : k \in parts} = {WorkerEventsIn(k, c) : k \in parts}
      BY <2>1
    <3> QED BY <2>1, <3>1, WorkerParts
  <2>2. CASE c \notin EventColumns
    BY <2>2
  <2> QED BY <2>1, <2>2
<1>5. MapThenSumSet(LAMBDA k : workerCells[k][c], parts) = Cardinality(UNION {P[k] : k \in parts})
  <2> HIDE DEF parts, P
  <2>1. ColumnSum(workerCells, c, parts) = Cardinality(UNION {P[k] : k \in parts})
    BY <1>1, <1>2, <1>3, SumOfParts
  <2> QED BY <2>1, Zenon DEF ColumnSum
<1>6. CASE c \in EventColumns
  <2>1. (IF cell \in DOMAIN cells THEN cells[cell][c] ELSE 0) = Cardinality(EventsIn(cell, c))
    BY <1>6, CellValues DEF RollupInv
  <2> QED BY <1>4, <1>5, <1>6, <2>1
<1>7. CASE c \notin EventColumns
  BY <1>4, <1>5, <1>7, FS_EmptySet
<1> QED BY <1>6, <1>7

(* The rows of the named and inferential workers add up to the repository   *)
(* row in every column of events; commits have no worker.                   *)
THEOREM WorkersAddUp == Spec => []WorkersPartition
BY RowsPartition, RollupInvariance, PTL

(* A worker's row counts the worker's lines since the epoch.                *)
LEMMA WorkerRowLines ==
    ASSUME RollupInv, pc = "done", NEW r \in Repos \ failed, NEW h \in Hours, NEW w \in Workers,
           NEW attributed,
           \A e \in lines : e \in attributed <=>
               e.actor = w /\ \E f \in lines :
                   f.repo = r /\ InWindow(f) /\ f.kind = "closed"
                   /\ f.actor \in Workers /\ f.ts <= e.ts
    PROVE  /\ WorkerEventsIn(<<r, h, w>>, "closed") \cup WorkerEventsIn(<<r, h, w>>, "closed_bulk")
                  = {e \in Lines(r, h, "closed") : e \in attributed}
           /\ WorkerEventsIn(<<r, h, w>>, "closed") \cap WorkerEventsIn(<<r, h, w>>, "closed_bulk") = {}
           /\ \A k \in COUNTED_KINDS \ {"closed"} :
                  WorkerEventsIn(<<r, h, w>>, k) = {e \in Lines(r, h, k) : e \in attributed}
<1>1. Counted(r) /\ w # Inferential
  BY ActorsAssumption DEF Counted
<1>2. NamedCloses(r) = {f \in lines : f.repo = r /\ InWindow(f) /\ f.kind = "closed"
                                      /\ f.actor \in Workers}
  BY <1>1, Finished DEF NamedCloses, Named
<1>3. ASSUME NEW e \in events, e.repo = r
      PROVE  WorkerLabel(e) = w <=> e \in attributed
  <2>1. FromEpoch(e) <=> \E f \in NamedCloses(r) : f.ts <= e.ts
    <3>1. CASE NamedCloses(r) = {}
      BY <1>3, <3>1, Finished DEF FromEpoch, Epochs
    <3>2. CASE NamedCloses(r) # {}
      <4>1. r \in DOMAIN epochs /\ epochs[r] = FirstClose(r)
        BY <3>2, Finished DEF Epochs
      <4>2. /\ FirstClose(r) \in Nat
            /\ \E f \in NamedCloses(r) : FirstClose(r) = f.ts
            /\ \A f \in NamedCloses(r) : FirstClose(r) <= f.ts
        BY <3>2, EpochTyped, RollupAssumption DEF RollupInv
      <4>3. e.ts \in Nat /\ \A f \in NamedCloses(r) : f.ts \in Nat
        BY <1>2, Finished, CellTyped
      <4>4. FromEpoch(e) <=> FirstClose(r) <= e.ts
        BY <1>3, <4>1, <4>2, <4>3 DEF FromEpoch
      <4> QED BY <4>2, <4>3, <4>4
    <3> QED BY <3>1, <3>2
  <2>2. WorkerLabel(e) = w <=> FromEpoch(e) /\ e.actor = w
    BY <1>1 DEF WorkerLabel, Named
  <2>3. e \in lines
    BY Finished
  <2> QED BY <1>2, <2>1, <2>2, <2>3
<1>4. \A e : e \in RolledEvents /\ WorkerCellOf(e) = <<r, h, w>>
             <=> /\ e \in lines /\ e.repo = r /\ Hour(e) = h /\ InWindow(e)
                 /\ e.kind \in COUNTED_KINDS /\ e \in attributed
  BY <1>1, <1>3, Finished DEF WorkerCellOf
<1>5. WorkerEventsIn(<<r, h, w>>, "closed") \cup WorkerEventsIn(<<r, h, w>>, "closed_bulk")
          = {e \in Lines(r, h, "closed") : e \in attributed}
  BY <1>4 DEF WorkerEventsIn, Lines, ColumnOf, COUNTED_KINDS
<1>6. WorkerEventsIn(<<r, h, w>>, "closed") \cap WorkerEventsIn(<<r, h, w>>, "closed_bulk") = {}
  BY DEF WorkerEventsIn
<1>7. ASSUME NEW k \in COUNTED_KINDS \ {"closed"}
      PROVE  WorkerEventsIn(<<r, h, w>>, k) = {e \in Lines(r, h, k) : e \in attributed}
  BY <1>4 DEF WorkerEventsIn, Lines, ColumnOf, COUNTED_KINDS
<1> QED BY <1>5, <1>6, <1>7

LEMMA RowIsAttributed == RollupInv => AttributionBoundary
<1> SUFFICES ASSUME RollupInv, pc = "done", NEW r \in Repos \ failed, NEW h \in Hours,
                    NEW w \in Workers
    PROVE  LET key == <<r, h, w>>
               row == IF key \in DOMAIN workerCells THEN workerCells[key] ELSE EmptyRow
               attributed(e) ==
                   e.actor = w /\ \E f \in lines :
                       f.repo = r /\ InWindow(f) /\ f.kind = "closed"
                       /\ f.actor \in Workers /\ f.ts <= e.ts
           IN  /\ row["closed"] + row["closed_bulk"]
                      = Cardinality({e \in Lines(r, h, "closed") : attributed(e)})
               /\ \A k \in COUNTED_KINDS \ {"closed"} :
                      row[k] = Cardinality({e \in Lines(r, h, k) : attributed(e)})
  BY DEF AttributionBoundary
<1> DEFINE key == <<r, h, w>>
           row == IF key \in DOMAIN workerCells THEN workerCells[key] ELSE EmptyRow
           attributed(e) ==
               e.actor = w /\ \E f \in lines :
                   f.repo = r /\ InWindow(f) /\ f.kind = "closed"
                   /\ f.actor \in Workers /\ f.ts <= e.ts
           A == {e \in lines : attributed(e)}
<1>1. /\ WorkerEventsIn(key, "closed") \cup WorkerEventsIn(key, "closed_bulk")
             = {e \in Lines(r, h, "closed") : e \in A}
      /\ WorkerEventsIn(key, "closed") \cap WorkerEventsIn(key, "closed_bulk") = {}
      /\ \A k \in COUNTED_KINDS \ {"closed"} :
             WorkerEventsIn(key, k) = {e \in Lines(r, h, k) : e \in A}
  <2>1. \A e \in lines : e \in A <=>
            e.actor = w /\ \E f \in lines :
                f.repo = r /\ InWindow(f) /\ f.kind = "closed"
                /\ f.actor \in Workers /\ f.ts <= e.ts
    OBVIOUS
  <2> HIDE DEF A
  <2> QED BY <2>1, WorkerRowLines
<1>2. \A k : {e \in Lines(r, h, k) : e \in A} = {e \in Lines(r, h, k) : attributed(e)}
  BY DEF Lines
<1>3. \A c \in EventColumns : row[c] = Cardinality(WorkerEventsIn(key, c))
  <2>1. \A c \in Columns : EmptyRow[c] = 0
    BY DEF EmptyRow
  <2>2. \A c \in Columns : row[c] = IF key \in DOMAIN workerCells THEN workerCells[key][c] ELSE 0
    BY <2>1
  <2> HIDE DEF row, key
  <2> QED BY <2>2, WorkerCellValues, ColumnsTyped DEF RollupInv
<1>4. \A c : IsFiniteSet(WorkerEventsIn(key, c))
  BY RolledFinite DEF RollupInv
<1>5. row["closed"] + row["closed_bulk"]
          = Cardinality({e \in Lines(r, h, "closed") : attributed(e)})
  <2>1. Cardinality(WorkerEventsIn(key, "closed"))
            + Cardinality(WorkerEventsIn(key, "closed_bulk"))
            = Cardinality(WorkerEventsIn(key, "closed") \cup WorkerEventsIn(key, "closed_bulk"))
    BY <1>1, <1>4, TwoParts
  <2> HIDE DEF row, key, A, attributed
  <2>2. row["closed"] = Cardinality(WorkerEventsIn(key, "closed"))
        /\ row["closed_bulk"] = Cardinality(WorkerEventsIn(key, "closed_bulk"))
    BY <1>3 DEF EventColumns
  <2> QED BY <1>1, <1>2, <2>1, <2>2
<1>6. ASSUME NEW k \in COUNTED_KINDS \ {"closed"}
      PROVE  row[k] = Cardinality({e \in Lines(r, h, k) : attributed(e)})
  <2> HIDE DEF row, key, A, attributed
  <2>1. row[k] = Cardinality(WorkerEventsIn(key, k))
    BY <1>3 DEF EventColumns, COUNTED_KINDS
  <2> QED BY <1>1, <1>2, <2>1
<1> QED BY <1>5, <1>6

(* A worker's row holds exactly its events from the repository's first      *)
(* close by a worker on, that close included.                               *)
THEOREM AttributionIsExact == Spec => []AttributionBoundary
BY RowIsAttributed, RollupInvariance, PTL

(* The closures of an hour, and those of them in flagged cells.             *)
HourCloses(h) == {e \in events : e.kind = "closed" /\ Hour(e) = h}
HourBulk(h) == {e \in HourCloses(h) : CellOf(e) \in bulk}

(* The two columns of closures of an hour add up to what the hour's         *)
(* closures are, in unflagged and in flagged cells.                         *)
LEMMA HourSums ==
    ASSUME RollupInv, pc = "done", NEW h \in Hours
    PROVE  LET K == {k \in DOMAIN cells : k[2] = h}
           IN  /\ ColumnSum(cells, "closed", K) = Cardinality(HourCloses(h) \ HourBulk(h))
               /\ ColumnSum(cells, "closed_bulk", K) = Cardinality(HourBulk(h))
<1> DEFINE K == {k \in DOMAIN cells : k[2] = h}
<1>1. IsFiniteSet(K)
  BY FiniteRows, FS_Subset
<1>2. ASSUME NEW c \in {"closed", "closed_bulk"}
      PROVE  ColumnSum(cells, c, K) = Cardinality(UNION {EventsIn(k, c) : k \in K})
  <2> DEFINE P == [k \in K |-> EventsIn(k, c)]
  <2>1. ASSUME NEW k \in K PROVE IsFiniteSet(P[k]) /\ cells[k][c] = Cardinality(P[k])
    BY RolledFinite DEF RollupInv, CellsInv, EventColumns
  <2>2. \A j, k \in K : j # k => P[j] \cap P[k] = {}
    BY DEF EventsIn
  <2>3. {P[k] : k \in K} = {EventsIn(k, c) : k \in K}
    OBVIOUS
  <2> HIDE DEF K, P
  <2>4. ColumnSum(cells, c, K) = Cardinality(UNION {P[k] : k \in K})
    BY <1>1, <2>1, <2>2, SumOfParts
  <2> QED BY <2>3, <2>4
<1>3. ASSUME NEW e \in HourCloses(h)
      PROVE  CellOf(e) \in K /\ e \in RolledEvents
  <2>1. e \in RolledEvents
    BY Finished DEF HourCloses, COUNTED_KINDS
  <2>2. CellOf(e) \in DOMAIN cells /\ CellOf(e)[2] = h
    BY <2>1 DEF RollupInv, CellsInv, HourCloses, CellOf
  <2> QED BY <2>1, <2>2
<1>4. ASSUME NEW k \in K, NEW c \in {"closed", "closed_bulk"}, NEW e \in EventsIn(k, c)
      PROVE  e \in HourCloses(h) /\ (e \in HourBulk(h) <=> c = "closed_bulk")
  <2>1. e \in events /\ e.kind \in COUNTED_KINDS /\ CellOf(e) = k /\ k[2] = h /\ ColumnOf(e) = c
    BY DEF EventsIn, RolledEvents
  <2>2. e.kind = "closed" /\ (CellOf(e) \in bulk <=> c = "closed_bulk")
    BY <2>1 DEF ColumnOf, COUNTED_KINDS
  <2>3. Hour(e) = h
    BY <2>1 DEF CellOf
  <2> QED BY <2>1, <2>2, <2>3 DEF HourCloses, HourBulk
<1>5. UNION {EventsIn(k, "closed") : k \in K} = HourCloses(h) \ HourBulk(h)
  <2>1. ASSUME NEW e \in HourCloses(h) \ HourBulk(h)
        PROVE  e \in EventsIn(CellOf(e), "closed")
    BY <1>3 DEF EventsIn, ColumnOf, HourCloses, HourBulk
  <2> HIDE DEF K
  <2> QED BY <1>3, <1>4, <2>1
<1>6. UNION {EventsIn(k, "closed_bulk") : k \in K} = HourBulk(h)
  <2>1. HourBulk(h) \subseteq HourCloses(h)
    BY DEF HourBulk
  <2>2. ASSUME NEW e \in HourBulk(h)
        PROVE  e \in EventsIn(CellOf(e), "closed_bulk")
    BY <1>3, <2>1 DEF EventsIn, ColumnOf, HourCloses, HourBulk
  <2> HIDE DEF K
  <2> QED BY <1>3, <1>4, <2>1, <2>2
<1> HIDE DEF K
<1>7. ColumnSum(cells, "closed", K) = Cardinality(HourCloses(h) \ HourBulk(h))
  BY <1>2, <1>5
<1>8. ColumnSum(cells, "closed_bulk", K) = Cardinality(HourBulk(h))
  BY <1>2, <1>6
<1> QED BY <1>7, <1>8 DEF K

(* Whole hours are flagged when their share is reached; the other hours     *)
(* have their dense cells flagged, and these stay below the share.          *)
LEMMA HourFlags ==
    ASSUME RollupInv, pc = "done", NEW h \in Hours
    PROVE  /\ ClosesIn(h, Repos \X {h}) = HourCloses(h)
           /\ h \in Contaminated => HourBulk(h) = HourCloses(h)
           /\ h \notin Contaminated => HourBulk(h) = ClosesIn(h, Dense)
<1>1. \A e \in events : CellOf(e) \in Repos \X Hours /\ CellOf(e) = <<e.repo, Hour(e)>>
                        /\ e.repo \in Repos
  BY Finished, CellTyped DEF CellOf
<1>2. ClosesIn(h, Repos \X {h}) = HourCloses(h)
  BY <1>1 DEF ClosesIn, HourCloses
<1>3. ASSUME NEW e \in HourCloses(h)
      PROVE  CellOf(e) \in bulk <=> CellOf(e) \in Dense \/ h \in Contaminated
  <2>1. e \in events /\ e.kind = "closed" /\ Hour(e) = h /\ CellOf(e) = <<e.repo, h>> /\ e.repo \in Repos
    BY <1>1 DEF HourCloses
  <2>2. Closes(CellOf(e)) # {}
    BY <2>1 DEF Closes
  <2>3. bulk = Dense \cup {cell \in Repos \X Contaminated : Closes(cell) # {}}
    BY Finished DEF BulkCells
  <2> QED BY <2>1, <2>2, <2>3
<1>4. h \in Contaminated => HourBulk(h) = HourCloses(h)
  BY <1>3 DEF HourBulk
<1>5. ASSUME h \notin Contaminated PROVE HourBulk(h) = ClosesIn(h, Dense)
  BY <1>3, <1>5 DEF HourBulk, HourCloses, ClosesIn
<1> QED BY <1>2, <1>4, <1>5

LEMMA HoursAreSplit == RollupInv => BulkClosure
<1> SUFFICES ASSUME RollupInv, pc = "done", NEW h \in Hours
    PROVE  LET sum(c) == MapThenSumSet(LAMBDA k : cells[k][c], {k \in DOMAIN cells : k[2] = h})
           IN  /\ sum("closed") = 0
                  \/ sum("closed_bulk") * ShareDen
                         < ShareNum * (sum("closed") + sum("closed_bulk"))
               /\ ShareNum > 0 /\ sum("closed_bulk") > 0 =>
                      \E r \in Repos : Cardinality(Lines(r, h, "closed")) > Threshold
  BY DEF BulkClosure
<1> DEFINE K == {k \in DOMAIN cells : k[2] = h}
           single == Cardinality(HourCloses(h) \ HourBulk(h))
           flagged == Cardinality(HourBulk(h))
           part == Cardinality(ClosesIn(h, Dense))
           total == Cardinality(HourCloses(h))
<1>1. /\ MapThenSumSet(LAMBDA k : cells[k]["closed"], K) = single
      /\ MapThenSumSet(LAMBDA k : cells[k]["closed_bulk"], K) = flagged
  <2>1. ColumnSum(cells, "closed", K) = single /\ ColumnSum(cells, "closed_bulk", K) = flagged
    BY HourSums
  <2> HIDE DEF K, single, flagged
  <2>2. MapThenSumSet(LAMBDA k : cells[k]["closed"], K) = ColumnSum(cells, "closed", K)
    BY Zenon DEF ColumnSum
  <2>3. MapThenSumSet(LAMBDA k : cells[k]["closed_bulk"], K) = ColumnSum(cells, "closed_bulk", K)
    BY Zenon DEF ColumnSum
  <2> QED BY <2>1, <2>2, <2>3
<1>2. /\ IsFiniteSet(HourCloses(h)) /\ IsFiniteSet(HourBulk(h))
      /\ IsFiniteSet(HourCloses(h) \ HourBulk(h)) /\ IsFiniteSet(ClosesIn(h, Dense))
  <2>1. /\ HourCloses(h) \subseteq events /\ HourBulk(h) \subseteq events
        /\ HourCloses(h) \ HourBulk(h) \subseteq events /\ ClosesIn(h, Dense) \subseteq events
    BY DEF HourCloses, HourBulk, ClosesIn
  <2> QED BY <2>1, Finished, FS_Subset
<1>3. single \in Nat /\ flagged \in Nat /\ part \in Nat /\ total \in Nat
  BY <1>2, FS_CardinalityType
<1>4. single + flagged = total
  <2>1. (HourCloses(h) \ HourBulk(h)) \cup HourBulk(h) = HourCloses(h)
    BY DEF HourBulk
  <2> QED BY <1>2, <2>1, TwoParts
<1>5. h \in Contaminated <=> total > 0 /\ part * ShareDen >= ShareNum * total
  BY HourFlags DEF Contaminated, AtShare
<1>6. ShareNum \in Nat /\ ShareDen \in Nat /\ ShareDen > 0
  BY RollupAssumption
<1>7. single = 0 \/ flagged * ShareDen < ShareNum * (single + flagged)
  <2>1. CASE h \in Contaminated
    <3>1. HourCloses(h) \ HourBulk(h) = {}
      BY <2>1, HourFlags
    <3> QED BY <3>1, FS_EmptySet
  <2>2. CASE h \notin Contaminated
    <3>1. flagged = part
      BY <2>2, HourFlags
    <3> HIDE DEF single, flagged, part, total
    <3>2. CASE total = 0
      BY <1>3, <1>4, <3>2
    <3>3. CASE total > 0
      <4> DEFINE a == part * ShareDen
                 b == ShareNum * total
      <4>1. a \in Nat /\ b \in Nat
        BY <1>3, <1>6
      <4>2. ~ (a >= b)
        BY <1>5, <2>2, <3>3
      <4> HIDE DEF a, b
      <4>3. a < b
        BY <4>1, <4>2
      <4> QED BY <1>4, <3>1, <4>3 DEF a, b
    <3> QED BY <1>3, <3>2, <3>3
  <2> QED BY <2>1, <2>2
<1>8. ASSUME ShareNum > 0, flagged > 0
      PROVE  \E r \in Repos : Cardinality(Lines(r, h, "closed")) > Threshold
  <2>1. ClosesIn(h, Dense) # {}
    <3>1. CASE h \notin Contaminated
      <4>1. HourBulk(h) # {}
        BY <1>8, FS_EmptySet
      <4> QED BY <3>1, <4>1, HourFlags
    <3>2. CASE h \in Contaminated
      <4> SUFFICES ASSUME part = 0 PROVE FALSE
        BY FS_EmptySet
      <4> HIDE DEF single, flagged, part, total
      <4> DEFINE b == ShareNum * total
      <4>1. part * ShareDen = 0
        BY <1>6
      <4>2. b \in Nat /\ b > 0
        BY <1>3, <1>5, <1>6, <1>8, <3>2
      <4>3. 0 >= b
        BY <1>5, <3>2, <4>1
      <4> HIDE DEF b
      <4> QED BY <4>2, <4>3
    <3> QED BY <3>1, <3>2
  <2>2. PICK e \in events : e.kind = "closed" /\ Hour(e) = h /\ CellOf(e) \in Dense
    BY <2>1 DEF ClosesIn
  <2>3. e.repo \in Repos /\ CellOf(e) = <<e.repo, h>>
    BY <2>2, Finished, CellTyped DEF CellOf
  <2>4. Cardinality(Closes(CellOf(e))) > Threshold
    BY <2>2 DEF Dense
  <2>5. Closes(CellOf(e)) \subseteq Lines(e.repo, h, "closed")
    BY <2>3, Finished DEF Closes, Lines, CellOf
  <2>6. /\ IsFiniteSet(Lines(e.repo, h, "closed"))
        /\ IsFiniteSet(Closes(CellOf(e)))
    <3>1. Lines(e.repo, h, "closed") \subseteq lines
      BY DEF Lines
    <3> QED BY <2>5, <3>1, Finished, FS_Subset
  <2>7. Cardinality(Closes(CellOf(e))) <= Cardinality(Lines(e.repo, h, "closed"))
    BY <2>5, <2>6, FS_Subset
  <2>8. /\ Cardinality(Closes(CellOf(e))) \in Nat /\ Threshold \in Nat
        /\ Cardinality(Lines(e.repo, h, "closed")) \in Nat
    BY <2>6, FS_CardinalityType, RollupAssumption
  <2>9. Cardinality(Lines(e.repo, h, "closed")) > Threshold
    BY <2>4, <2>7, <2>8
  <2> QED BY <2>3, <2>9
<1> HIDE DEF single, flagged, part, total
<1> QED BY <1>1, <1>7, <1>8

(* An hour is bulk as a whole or keeps its bulk closures below the share,   *)
(* and, for a share above 0, has some only if one repository is over the    *)
(* threshold; for every number of repositories, threshold and share.        *)
THEOREM BulkIsClosed == Spec => []BulkClosure
BY HoursAreSplit, RollupInvariance, PTL

LEMMA WorkersAreActive == RollupInv => ActiveWorkers
<1> SUFFICES ASSUME RollupInv, pc = "done", NEW r \in Repos, NEW h \in Hours
    PROVE  LET named == {w \in Workers \cup {Inferential} : ActiveAs(<<r, h, w>>) = 1}
           IN  /\ Cardinality(named) <= ActiveIn(<<r, h>>)
               /\ Inferential \notin named
               /\ \A w \in named :
                      /\ <<r, h, w>> \in DOMAIN workerCells
                      /\ workerCells[<<r, h, w>>]["claimed"] > 0
               /\ Counted(r) => ActiveIn(<<r, h>>)
                      = Cardinality({e.actor : e \in Lines(r, h, "claimed")} \ {Nobody})
  BY DEF ActiveWorkers
<1> DEFINE named == {w \in Workers \cup {Inferential} : ActiveAs(<<r, h, w>>) = 1}
           active == {c \in claimers : c[1] = <<r, h>>}
           actors == {e.actor : e \in Lines(r, h, "claimed")} \ {Nobody}
<1>1. ClaimersInv /\ RolledClaims = {e \in events : e.kind = "claimed" /\ e.actor # Nobody}
  BY Finished DEF RollupInv
<1>2. IsFiniteSet(active)
  <2> DEFINE f == [e \in RolledClaims |-> <<CellOf(e), e.actor>>]
  <2>1. f \in Surjection(RolledClaims, claimers)
    BY <1>1 DEF ClaimersInv, Surjection
  <2>2. IsFiniteSet(RolledClaims)
    BY <1>1, Finished, FS_Subset
  <2> HIDE DEF f
  <2>3. IsFiniteSet(claimers)
    BY <2>1, <2>2, FS_Surjection
  <2> QED BY <2>3, FS_Subset
<1>3. ASSUME NEW w \in named
      PROVE  \E e \in RolledClaims : /\ e.repo = r /\ Hour(e) = h /\ e.actor = w
                                     /\ ClaimsAsWorker(e)
  <2>1. <<r, h, w>> \in workerClaimers
    BY DEF ActiveAs
  <2> QED BY <1>1, <2>1 DEF ClaimersInv
<1>4. named \subseteq Workers
  <2>1. \A e \in RolledClaims : e \in Event
    BY <1>1, Finished
  <2> HIDE DEF named
  <2> QED BY <1>3, <2>1, LabelTyped
<1>5. Inferential \notin named
  <2> HIDE DEF named
  <2> QED BY <1>4, ActorsAssumption
<1>6. Cardinality(named) <= Cardinality(active)
  <2> DEFINE f == [w \in named |-> <<<<r, h>>, w>>]
  <2>1. ASSUME NEW w \in named PROVE <<<<r, h>>, w>> \in active
    <3> HIDE DEF named
    <3>1. PICK e \in RolledClaims : e.repo = r /\ Hour(e) = h /\ e.actor = w
      BY <1>3
    <3> QED BY <1>1, <3>1 DEF ClaimersInv, CellOf
  <2>2. f \in Injection(named, active)
    <3> HIDE DEF named, active
    <3> QED BY <2>1 DEF Injection, IsInjective
  <2> HIDE DEF f, named, active
  <2> QED BY <1>2, <2>2, FS_Injection
<1>7. ASSUME NEW w \in named
      PROVE  /\ <<r, h, w>> \in DOMAIN workerCells
             /\ workerCells[<<r, h, w>>]["claimed"] > 0
  <2> HIDE DEF named
  <2>1. PICK e \in RolledClaims : /\ e.repo = r /\ Hour(e) = h /\ e.actor = w
                                  /\ ClaimsAsWorker(e)
    BY <1>3
  <2>2. e \in RolledEvents /\ ColumnOf(e) = "claimed"
    BY <1>1, Finished DEF ColumnOf, COUNTED_KINDS
  <2>3. WorkerCellOf(e) = <<r, h, w>>
    BY <2>1 DEF WorkerCellOf, WorkerLabel, ClaimsAsWorker
  <2>4. <<r, h, w>> \in DOMAIN workerCells /\ e \in WorkerEventsIn(<<r, h, w>>, "claimed")
    BY <2>2, <2>3 DEF RollupInv, WorkerCellsInv, WorkerEventsIn
  <2>5. Cardinality(WorkerEventsIn(<<r, h, w>>, "claimed")) > 0
    BY <2>4, RolledFinite, Positive DEF RollupInv
  <2>6. workerCells[<<r, h, w>>]["claimed"] = Cardinality(WorkerEventsIn(<<r, h, w>>, "claimed"))
    BY <2>4 DEF RollupInv, WorkerCellsInv, EventColumns
  <2> QED BY <2>4, <2>5, <2>6
<1>8. ASSUME Counted(r) PROVE Cardinality(active) = Cardinality(actors)
  <2> DEFINE f == [c \in active |-> c[2]]
  <2>1. \A e : e \in RolledClaims /\ CellOf(e) = <<r, h>>
               <=> e \in Lines(r, h, "claimed") /\ e.actor # Nobody
    BY <1>1, <1>8, Finished DEF CellOf, Lines
  <2>2. \A c : c \in active <=> \E e \in RolledClaims : /\ CellOf(e) = <<r, h>>
                                                        /\ c = <<<<r, h>>, e.actor>>
    BY <1>1 DEF ClaimersInv
  <2>3. \A c \in active : c = <<<<r, h>>, c[2]>> /\ c[2] \in actors
    <3> HIDE DEF active
    <3> QED BY <2>1, <2>2
  <2>4. \A a \in actors : <<<<r, h>>, a>> \in active
    <3> HIDE DEF active
    <3> QED BY <2>1, <2>2
  <2> HIDE DEF active, actors
  <2>5. f \in Injection(active, actors)
    BY <2>3 DEF Injection, IsInjective
  <2>6. f \in Surjection(active, actors)
    BY <2>3, <2>4 DEF Surjection
  <2> HIDE DEF f
  <2> QED BY <1>2, <2>5, <2>6, FS_Surjection
<1> HIDE DEF named, actors
<1> QED BY <1>5, <1>6, <1>7, <1>8 DEF ActiveIn, named, actors

(* A repository row counts every claimer once; a named row counts one only  *)
(* for a claimer of the same cell, who has a row with a claim.              *)
THEOREM ActiveWorkersAgree == Spec => []ActiveWorkers
BY WorkersAreActive, RollupInvariance, PTL
=============================================================================
