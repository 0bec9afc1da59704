# A TLA+ model of git-activity-exporter

The exporter polls a Forgejo instance, mirrors every repository to a volume,
counts commits and bead events per hour, and publishes four objects
(`hourly.parquet`, `commits.parquet`, `bead_events.parquet`, `meta.json`) and a
pointer (`current.json`) to an S3 prefix, where dashboards read them.  S3 has no
transaction over several objects, and the pod may die at any point, so the part
of the program that is hardest to get right is the publication protocol of
`src/src/publish.py`.  The model starts there and works outwards: to the adapter
below it and the consumers beside it, to the poll loop around it, to the mirrors
and the enumeration that feed it, and to the rollup that makes what is published.

All paths below are relative to the repository root (`src/`); the program's own
Python package is `src/src/`.

## Inventory

| Component | State | Operations | Talks to | Status |
|---|---|---|---|---|
| Publication protocol, `publish.py` | the bucket (pointer, cycle prefixes, fixed keys); in memory: recovery result, bootstrap snapshot, prune health, a reentrant lock | reconcile, bootstrap snapshot, collision check, stage, mirror, commit, resolve an ambiguous commit, roll back, prune | called by the poll loop; calls the S3 adapter | modelled, but for the lock |
| Dataset consumers, in the form `tests/test_publish.py` gives them | what they have fetched so far | read by pointer, read the fixed keys and check them | the bucket, beside the publisher | modelled |
| S3 adapter, `s3io.py` | none between calls | GET, PUT, DELETE, immutable upload, listings, permission preflight | S3, the retry policy | single-key calls and the preflight modelled |
| Retry policy, `retry.py` | the attempt count | `call` | forge, git and S3 requests | modelled, without delays |
| Poll loop and process state, `main.py` | outcome counters, freshness timestamp, readiness flag, preflight flag, stop flag | one cycle, record its outcome, wait; health, readiness and metrics endpoints on other threads | everything | modelled |
| Repository mirrors, `gitscan.py` | directories `<repo>.git` and `<repo>.git.tmp` on the volume | fetch, deepen, re-clone and rename, prune orphans, scan | forge (git), the poll loop | modelled |
| Forge enumeration, `forge.py` | pages collected so far | list pages, validate, reject duplicates | forge (HTTP), mirrors (its result decides what is pruned) | modelled |
| Clone policy, `clone_policy.py` | none | check a URL | enumeration, mirrors | not modelled: a grammar of URLs |
| Bead events, `beads.py` | none | parse, attribute, mark bulk hours | the rollup | modelled, but for the grammar of a line and the status |
| Rollup, `aggregate.py`, `families.py`, `window.py` | none | hourly aggregation, reporting window | bead events, commits | modelled, but for families and the row-wise tables |
| Parquet output, configuration, scripts, self-hosting example | none, or read once | | | not modelled: library conversion, start-up reading, operator tools, stand-ins |

**Interactions that matter.** The poll loop reconciles the bucket, collects,
judges the result (publish guard), mints a cycle ID, and calls `publish_cycle`,
which reconciles again before it writes.  The enumeration's result is used twice:
to prune mirrors at once, and to scan.  Consumers share nothing with the exporter
but the bucket.  The health threads share the outcome counters with the loop.

**What is hard.** Everything in the publication that lies between two S3 calls: a
crash there, a call that fails, a call whose write took effect although it failed,
failures that accumulate over several cycles, a clock that steps back, consumers that
read while the publisher writes.  Retries nested in retries.  On the volume: crashes
between removing a mirror and renaming its successor; errors that must, and must not,
cost a mirror.  In the enumeration: a fleet that changes between two pages, or answers
that are valid and wrong.  In the rollup: boundaries of windows, shares and
thresholds.

**What makes each component correct.**

- *Publication*: a consumer that follows the pointer sees one whole dataset at
  any time, and only later ones in its place; a published cycle is in the mirror
  too; a rollback restores exactly what was there; the marker `meta.json` never
  announces data that is not there; the prune deletes neither what is live nor
  what is inside the retention; the mirror converges; no leftover of earlier
  failures keeps a later cycle from publishing.
- *Consumers*: what is accepted comes from one cycle of one run, on either path;
  a slow reader keeps its objects for the documented grace.
- *Adapter and retries*: a call is one effect and one answer for its caller, ends,
  and never replaces an immutable object.
- *Poll loop*: readiness only after a publication; counters, freshness and outcome
  agree; a failed preflight keeps the cycle from running.
- *Mirrors*: only corruption costs a mirror; what a crash leaves is cleared;
  nothing live is pruned.
- *Enumeration*: a repository that exists throughout is found, as far as the answers
  of the forge are complete.
- *Rollup*: every event inside the window is counted once, in its hour.

The hazards of this code, each at its line, are listed in `PROJECT.json` with the
properties that cover them.

## Modules

`S3Call` <- `S3Adapter` (refinement), `AtomicDataset` <- `Publication`
(refinement), `Publication` <- `PublicationReaders` (composition),
`Enumeration` <- `Mirrors` (composition), `PollLoop`, `Rollup`;
`Publication` <- `PublicationProofs` <- `DatasetProofs`, `PublicationReaders` <-
`ReaderProofs`, `S3Adapter` <- `S3AdapterProofs`, `Enumeration` <-
`EnumerationProofs`, `Mirrors` <- `MirrorsProofs`, `PollLoop` <- `PollLoopProofs`,
`Rollup` <- `RollupProofs` (theorems); `ReaderProofs` also cites `DatasetProofs`.
The three models of a cycle meet at their ends: a cycle of `Mirrors` ends in
publishing what it scanned, `Rollup` makes the payload of that, `Publication`
publishes a payload, and `PollLoop` records how all of it ended.

### Publication

One process, one destination prefix.  The bucket is three variables: `pointer`
(what `current.json` names), `staged` (the objects below `cycles/<id>/`) and
`fixed` (the objects at the root of the prefix).  The other variables are the
process's: `pc` is the place in `_publish_cycle` or `_reconcile_publication`,
`ctx` the caller of a running reconciliation (start of the cycle, inside
`publish_cycle`, rollback), `trusted` is `recovery.prune_allowed`, `snapshot` is
`bootstrap_snapshot`, `todo` the names a loop has left, `doomed` the cycles a
prune has left.  `restored`, `swept`, `run`, `clock` and `faults` are history and
bounds.

| Code | Actions |
|---|---|
| `main`, start of `_run_cycle` | `BeginCycle` |
| `_reconcile_publication` (all three call sites) | `RecoverReads`, `RecoverRepairs`, `RepairPut`, `RecoverFails` |
| collection, guard, generation of the payloads | `CollectEnds`, `Mint` |
| `_snapshot_fixed_keys`, collision check | `TakeSnapshot`, `CollisionCheck`, `BeforeMirrorFails` |
| stage and mirror loops | `StagePut`, `MirrorPut`, `MirrorFails` |
| commit and its ambiguous outcome | `CommitPut`, `CommitFails`, `Resolve`, `ResolveFails` |
| `_recover_after_failure`, `_restore_fixed_snapshot` | `RestoreKey`, `RestoreFails`, and the recovery actions with `ctx = "rollback"` |
| `_prune` | `PruneList`, `PruneListFails`, `PruneDelete`, `PruneDeleteFails`, `PruneEnds` |
| exception handlers of `main` | `Raise` |
| pod termination | `Crash` |

Abstractions, and why they lose nothing the properties tell apart:

- A payload is the pair of the cycle ID in its dataset and the run that generated
  it.  Bytes and content types are compared in the code only for equality.
- Names other than `meta.json` take part symmetrically, so they are a set; every
  loop that ends in `meta.json` is a loop over `MetaLast(todo)`, and the stage
  loop, whose order is the caller's, is a loop over `todo`.
- The order of cycle IDs as strings is the order of the model's numbers.  An ID may
  be minted at or below an earlier one when `ClockStepsBack`: the stamp comes from
  the wall clock.  Two equal IDs (the collision check is for them) are included here,
  and left out beside a consumer, see `PublicationReaders`.
- Reads that are followed by a decision are one step with it: the process is the
  only writer of the prefix (`docs/notes/output-schema.md`, "Single-writer
  deployment rule"), so nothing changes between them.
- `Bad` stands for every `current.json` that `validate_pointer_document` rejects.
  A pointer whose objects are missing or whose `meta.json` is another's is a
  pointer in `CycleIds` that is not `PointerUsable`.
- A failed write has taken effect or has not by the time the call returns.  This is
  an assumption on S3 and the network, not something the repository states; the code
  rests on it when it resolves an ambiguous PUT by a read (`s3io.py:401`, which names
  read-after-write consistency).  A PUT that lands later is not modelled.

`Init` is every bucket the exporter may be started on: no pointer or an
unreadable one, over nothing or over the fixed keys of a release without
pointers; or the pointer of an earlier process whose mirror or whose cycle prefix
is in any state of damage.

### AtomicDataset

The promise to a pointer-first consumer: one variable, `live`, that is replaced as
a whole by the dataset of a later run.  `Publication` implements it with `live`
mapped to what `current.json` leads to if it is usable.

### PublicationReaders

Adds one consumer, whose every GET is a step, interleaved with the publisher's
steps.  Each attempt takes the pointer path (`read_via_pointer`) or the legacy path
(`read_legacy_fixed_snapshot`).  `meta.json` is checked against the pointer on both,
as `docs/notes/output-schema.md:216-219` asks of every reader; `read_via_pointer`
in the test leaves that check to its caller.  The history variables record whether
the cycle was complete when it was resolved, the commits since then, the cycles under
way or begun since then, and all IDs begun.

The publisher's clock may step back here too, so that a cycle may be committed under
an ID below the one a consumer is reading.  What is excluded is that an ID is minted
twice (`NewId`): `new_cycle_id` puts eight random digits behind the stamp.  Without
that a consumer could read on under an ID that was pruned and minted again, and mix
two runs.

### S3Call and S3Adapter

`S3Adapter` makes one call of the adapter request by request: each request may fail
transiently or for good, before or after its effect, and `retry.call` decides what
follows.  An immutable upload nests GETs, themselves retried, inside a retried
operation.  `S3Call` says what the caller may count on, and is what `Publication`
assumes of every call: an effect at most once, before the answer.

### Enumeration and Mirrors

`Enumeration` is `forge.list_repos`: `fleet` is the forge's listing, cut into pages
anew for every request, while repositories are created anywhere in it or deleted
(a rename is both).  An answer may also be valid and show less of a page than there is
(`ListingFault`, a fault): a short or empty page ends the walk, and the code takes
what it has for the fleet.  History variables record what was on the forge throughout
the walk (`steady`, which no answer of the forge changes), whether something was
deleted during it (`disturbed`) and whether an answer was incomplete (`lied`).
`Mirrors` extends it with `main._collect`: the volume is `disk`
(what `<repo>.git` is like) and `tmp` (which `<repo>.git.tmp` exist), and outlives
the process; the rest is the running cycle.

| Code | Actions |
|---|---|
| `list_repos` | `BeginWalk`, `FullPage`, `LastPage`, `ListingFault`, `ListingFails` |
| `prune_orphans` | `BeginPrune`, `SweepLitter`, `SweepMirror`, `EndPrune` |
| `ensure_mirror`, fetch and deepening | `NextRepo`, `Fetch`, `TooShort`, `Deepen`, `Deepened`, `FetchRejected`, `FetchTimesOut`, `FetchBroken` |
| `ensure_mirror`, re-clone | `Discard`, `BeginClone`, `Cloned`, `CloneFails`, `Install`, `Rename`, `RenameFails` |
| scan, per-repository failures, full volume | `Scan`, `ScanFails`, `VolumeFull` |
| publish guard, publication | `Withhold`, `PassGuard`, `Publish`, `CycleFails` |
| pod termination | `Crash` |

A mirror is "full", "short" (the shallow boundary is newer than the cutoff),
"damaged", "headless" or absent; commits and packs are left out.  Assumed of git and
of the volume: a fetch that git completes leaves a whole mirror, healing a damaged one
or reporting it; `rmtree(..., ignore_errors=True)` of a mirror may stop half-way, of
clone litter not.  A new clone is bounded by a date, or at depth 1 for a dormant
repository, and not deepened, so it may be short.  `mirror_history_complete` answers
no also when it cannot read the boundary, so a full mirror may be deepened.  The scan
order is arbitrary, the publication one step. `validate_clone_root` and malformed
pages are among the ways in which a listing, a cycle or a repository fails.

### PollLoop

`main.main` and what it keeps for the operator: the counters, outcome and freshness
under `_cycle_state_lock`, the prune health under its own lock, `_published`, the
preflight flag and the stop event.  `_run_cycle` is reduced to how it can end.  Each
locked section is one step, so a publication failure is recorded in two, and a
published cycle in one more for `_published.set()`.  A health thread asks `/ready` and
then `/health` or `/metrics` between any two steps; the second answer is made in two,
since the prune health is read under its own lock (`GetState`, `GetPrune`).  The
preflight is modelled request by request, with a PUT whose answer is lost and a
deletion that fails. `Restart` is a new process after a crash or an exit: all state in
memory starts anew, the bucket stays.

### Rollup

From the lines of the logs to the fact table: a scan reads commits and then event
lines one at a time and keeps those in the window (`ReadCommit`, `ReadEvent`), may
fail at any point (`ScanFails`: git, the manifest, a malformed or duplicate line),
and extends the cycle's lists only at its end (`ScanEnds`).  `Mark` is
`mark_bulk_hours` and `attribution_epochs`; `RollCommit` and `RollEvent` are the two
loops of `build_hourly`, in any order of the records, so that the table is also shown
not to depend on that order.  The history variables `lines` and `history` hold
everything that was read, and the properties state the table over them, with counts
of sets instead of the code's accumulation.  Records of the same content are told
apart by number; sha, bead ID, author and status are left out; an actor called
"inferential", which would share the row of unattributed work, is excluded
(`ActorsAssumption`).

### The modules of proofs

`PublicationProofs`, `DatasetProofs`, `ReaderProofs`, `S3AdapterProofs`,
`EnumerationProofs`, `MirrorsProofs`, `PollLoopProofs` and `RollupProofs` hold
theorems for every value of the constants; see "Proofs".

## Runs

The longest are the safety run (2.6 million states), the passing run with a consumer
(3.9 million), the liveness run, `mirrors` and `rollup`; each takes one to two minutes
on two workers, the others less than half a minute.

| Run | Question | Bounds |
|---|---|---|
| `publication_safety` | Do the protocol's invariants and action properties hold? | 3 names, 3 IDs minted in any order, 3 runs, 2 faults, retention 2 |
| `publication_liveness` | Is the bucket, seen through the pointer, one atomic dataset?  Does the mirror converge, and does a fresh attempt succeed? | 2 names, 3 IDs minted in any order, 3 runs, 2 faults, retention 1 |
| `publication_readers` | What may a concurrent consumer accept, and for how long? | 2 names, 3 IDs, minted in any order and once, 2 runs, 2 faults, retention 2 |
| `s3_adapter` | Is a retried, nested call one call? Does it end? | 3 attempts, as in the code; unbounded failures |
| `mirrors` | What may a cycle lose, what does it report, and does coverage recover? | 3 repositories, 1 hidden, pages of 2, 1 change of the fleet, 1 fault, any volume at the start |
| `poll_loop` | Is what the operator is told true at any moment?  Does a stop end the process? | 4 attempts over all processes, 3 failures or crashes, 1 signal |
| `rollup` | Does the fact table count every record of the window once, in the right rows? | 2 repositories, 4 records, at most 1 commit, 2 hours of 2 instants, a window of 2 instants across them, threshold 1, share 2/3 |
| `failed_cycle_not_live` | (violated, finding 1) | 2 names, 2 runs, 2 faults |
| `grace_in_commits` | (violated, finding 2) | retention 3, as in the code |
| `three_timeouts` | (violated, finding 3) | 3 attempts, as in the code |
| `prunes_audited` | (violated, finding 4) | 2 repositories, 1 hidden, 2 faults |
| `live_mirrors_pruned` | (violated, finding 5) | 2 repositories, pages of 1, 1 change |

What the properties say:

- `AuthorityKept`: once the pointer is usable it is usable for ever.
- `ImplementsAtomicDataset`: refinement of `AtomicDataset`.
- `PublishedMeansMirrored`: an outcome "published" means that pointer, cycle prefix
  and fixed keys agree, however the commit was resolved.
- `ProtocolInv`: the inductive strengthening used by the proofs, checked here too.
- `RollbackRestores`: a rollback that ran to its end leaves the pointed-to cycle or,
  in a bootstrap, the fixed keys exactly as they were found, absences included.
- `MarkerFollowsData`: outside the rollback of a bootstrap, `meta.json` changes only
  to the marker of what the data keys already hold.
- `OnlySurplusDeleted`, `PruneBounds`: the prune deletes only beyond the retention,
  and a prune without a failure leaves at most `Retention` prefixes, orphans of
  failed attempts included.
- `MirrorConverges`, `AttemptSucceeds`: under a fair loop and finitely many faults,
  a usable pointer's cycle reaches the fixed keys, and a cycle under an unused ID
  becomes live.
- `AcceptedIsWhole`, `GraceInAttempts`: what a consumer accepts is one dataset of
  one run; a complete cycle it resolved stays whole while fewer than `Retention`
  others can be ranked before it by a prune (`Rivals`): those begun under newer IDs,
  committed or not, and all that were under way when it was resolved or have begun
  since, whatever their IDs.  Counting only the newer ones would not do: a clock that
  steps back commits under an older ID, and that commit counts against the retention
  as well.
- `ImplementsCall`, `NeverReplaced`, `CallEnds`, `FailureBound`: the adapter.
- `Complete`: a repository the forge shows from the first request of a walk to the
  last is in its result, whatever is created meanwhile, unless one is deleted or an
  answer shows less than there is.
- `OwedKept`: a usable mirror of a listed repository outlives the cycle unless git
  calls its fetch broken, also under a listing that is falsely empty (one that is
  falsely cut short does cost mirrors); `RefreshedIsWhole`: what is reported as
  refreshed was scanned from a whole mirror; `StatsPartition`: scanned, failed and still to come
  partition the listing, and stale and partial ones are among the scanned.
- `PublishedCovers`: a cycle that publishes misses no more of what it listed than the
  failure rate allows; and, unless something was deleted or an answer incomplete, no
  more of what was there throughout its enumeration.  The exception is real: the guard
  judges a listing by nothing but itself, and not at all when it is empty
  (`main.py:419`), so a cycle that was falsely shown an empty fleet publishes an empty
  dataset, and one that was shown a part publishes the part.
- `Converges`, `FullCoverage`: once calls succeed and the fleet stands still, every
  repository gets a usable mirror, orphans and litter go, and cycles publish the
  whole fleet, none of it stale, again and again.
- `CountsAgree`, `FreshIsCommitted`, `ReadyIsEarned`, `ProbesAccounted`, `StopEnds`:
  the operator's view is consistent at any moment and in any answer; the freshness
  names a committed cycle; readiness is earned by this process; probes are cleaned
  up; a stop ends the process.
- `RepositoryIsComplete`, `WorkersPartition`, `AttributionBoundary`, `BulkClosure`,
  `ActiveWorkers`: the fact table against the logs.  Under a share of 0, which
  `config.py:145` accepts, every hour with a closure is bulk, whatever the threshold;
  the second part of `BulkClosure` is about the others.

**Why the bounds are enough.**  Two faults reach every pair of failures the code
treats differently: a failed write and then a failed rollback, a lost commit
response and then a failed resolving read, a crash during the repair of an earlier
crash, a failed attempt after a failed attempt.  Three runs over three IDs reach
reuse of an ID, orphans on both sides of the live cycle and a prune with more than
one candidate.  Two data names are the fewest for which "some data" differs from
"all data" and from "meta"; runs with one data name check properties that do not
depend on it or for which the safety run has checked the order already.  The IDs
that order cycles are not symmetric; data names are, and symmetry is used only for
the safety run.

In `mirrors` the volume starts in every combination of short, damaged and headless
mirrors, with or without litter, which is what several earlier faults leave, so that
one fault more reaches every pair that meets on one mirror; full mirrors and absent
ones arise within the run.  Pages of two over three repositories give a full page, a
short page, and an insertion before and after the cut.  In `poll_loop` four attempts
with three failures reach runs of failures, a success after them and a failure after
that, across a restart.  In `rollup` four records are the fewest with which one
repository is over the threshold, the share of 2/3 is met exactly by a second
repository, and another record lies elsewhere; the window begins and ends inside an
hour, and the instants just outside it are among the times.  Event kinds without a
column and commits at the bulk limit are outside its instance.

**Fairness.**  `WF_vars(Next)`: `main` is one sequential loop without a wait on
another thread, and every S3 request is answered or times out, so while a step is
possible some step is taken.  Nothing is assumed about which step, in particular
not that a request succeeds; the liveness properties get their finiteness from
the bound on faults, which says that calls stop failing at some time.  For the
adapter likewise `WF(Next)`, with no bound on failures.  `Mirrors` assumes
`WF_vars(Next)` for the same reasons: its loop is sequential, and every git and HTTP
call has a timeout.  `PollLoop` assumes `WF_vars(Loop)`: the loop's thread is
scheduled and its wait is timed; nothing is assumed of signals, restarts or health
requests.

## Findings

1. **A failed publication may be live** (`failed_cycle_not_live`).  `publish.py:113`
   and `docs/notes/data-sources.md:386` say that the previous cycle remains live
   after a `PublicationError`.  If the PUT of `current.json` takes effect, its
   response is lost and the GET that should resolve it fails, the code rolls back
   and raises, with the pointer at the new cycle.  In a bootstrap it even restores
   the fixed keys to what preceded it.  The next cycle's reconciliation repairs the
   mirror; the data is whole throughout (`AuthorityKept`).
2. **Orphans shorten the grace** (`grace_in_commits`).  `publish.py:88` promises
   "Committed cycle prefixes kept behind the pointer's cycle".  `_prune` ranks all
   prefixes, committed or not, so two publications that fail after staging began
   take both places and the next commit deletes the previous live cycle at once.
   What does hold is `GraceInAttempts`.
3. **More than three timeouts** (`three_timeouts`).  `docs/notes/data-sources.md:200`
   bounds an operation by three attempts.  `upload_immutable_bytes` retries an
   operation whose GETs are retried on their own: up to eighteen requests may fail
   (`FailureBound`).

4. **A prune may go unrecorded** (`prunes_audited`).  `docs/notes/data-sources.md:354`
   and `gitscan.py:466` say that pruned names are recorded in `meta.json`.  The prune
   runs first in the cycle; when the cycle is then withheld or fails, its list is
   dropped, and no later cycle lists these mirrors.
5. **A repository on the forge may be pruned** (`live_mirrors_pruned`).  Pages are
   numbered, so a deletion on an earlier page moves the first repository of the next
   page past the walk.  It is not listed, its mirror is pruned and
   `mirrors_pruned` names it, although `docs/notes/output-schema.md:589` gives only
   deletion, renaming, denylisting and emptying as reasons.  The next cycle clones it
   again.  `Complete` is what does hold.

Smaller observations, not recorded as findings: in the rollback of a bootstrap the
keys that existed are written before the others are deleted, each pass with
`meta.json` last, so the old marker can be back while a key that did not exist is
still there; the second loop of `_reconcile_publication`, which deletes fixed keys,
cannot delete anything, since `_pointer_snapshot` returns no absent object and
rejects another name set; `check_permissions` makes its requests without the retry
policy.  A removal that stops half-way leaves a directory without `HEAD`, which the
prune takes for no mirror of ours, so that of a repository that is gone it stays for
ever.  A timed-out fetch serves the mirror as it is, also when it is damaged; the scan
then fails or reports what it could read as stale.  A fetch that fails for a reason
other than a timeout, a credential or a full volume costs the mirror even if the
clone after it then meets a full volume (`docs/notes/data-sources.md:254` says that a
failed refresh never deletes the existing mirror, and makes exception for
corruption, which is what the code takes such an error for).  An empty listing prunes
nothing, since `prune_orphans` takes it for a fault, but it skips the publish guard and
is published as the fleet, as `docs/notes/data-sources.md:345` says; the comment above
the guard (`main.py:405`), that an infrastructure fault is not a quiet fleet, does not
hold of it.  The attribution epoch is
computed over the events of the window, so that it moves as the window slides past a
repository's first close.

## Proofs

`PublicationProofs` proves, for any payload names, set of cycle IDs, retention,
number of runs and number of faults, and clocks that step back or not:

- `TypeCorrect`: `Spec => []TypeOK`;
- `Invariance`: `Spec => [](TypeOK /\ ProtocolInv)`;
- `PublishedIsMirrored`: `Spec => []PublishedMeansMirrored`;
- `AuthorityIsKept`: `Spec => AuthorityKept`.

`PublishedMeansMirrored` is not inductive: it speaks of the state after the commit,
and holds because of what staging and mirroring left before it.  `ProtocolInv` adds
exactly that: while staging, the names done are staged; from the mirror on, all are;
while mirroring, the names done are mirrored; from the commit on, all are; while
listing and pruning the pointer names the cycle being published, and it is not among
the doomed.  `ReadyToCommit` turns this into "the cycle is whole, carries its own ID
and equals the fixed keys".  `TypeOK` and `ProtocolInv` need one another (a repair
writes what a usable pointer names, which is typed because it is there), so they are
proved together, with one step per action.  `AuthorityKept` follows step by step:
only a commit changes the pointer, to a cycle that is ready; only a prune removes
objects, never of the pointed-to cycle; a stage fills only absent keys.

`DatasetProofs` builds on that, for the same constants:

- `RollbackIsExact`: `Spec => []RollbackRestores`;
- `MarkerIsFollowed`: `Spec => MarkerFollowsData`;
- `DatasetIsAtomic`: `Spec => ImplementsAtomicDataset`, the refinement;
- `OnlySurplusIsDeleted`: `Spec => OnlySurplusDeleted`;
- `PruneIsBounded`: `Spec => []PruneBounds`.

`DatasetInv` adds three parts.  A trusted pointer is usable and only such a one is
rolled back to (`TrustInv`, which needs `AuthorityKept`: trust outlives many steps).
A loop over the fixed keys has already made those it has done what they should be
(`RollbackInv`).  What lies under an ID and is announced by its own marker comes from
one run, and all but what the running attempt has staged comes from an earlier one
(`CycleInv`).  The refinement then has three kinds of steps: a commit replaces what
is live by the dataset of this run, later than all others; the last payload under a
pointer that already named this ID, and was unusable, makes a first dataset live; all
others stutter.  Steps are classified once (`StagedStep`, `PointerStep`,
`AttemptStep`), so that the argument is not repeated for every action.

The prune ranks IDs, of which there may be infinitely many.  `ReachedInv` makes the
cycles in the bucket finitely many: the clock has reached every one of them.
`PruneInv` then keeps, while a prune runs, that it began from a trusted pointer, that
every doomed cycle has `Retention - 1` newer ones among those the prune spares, and
that it spares no more than that as long as no deletion has failed.  A listing
establishes it (`SurplusIsOldest`, `RestIsSmall`): the oldest and the newest of a set
of cycles exist because sets of numbers have a least element and bounded ones a
greatest (`NatMin`, `NatMax`, by well-foundedness).  A deletion keeps it because what
is deleted is doomed, never spared.

`ReaderProofs` proves, for any names, IDs, retention, runs and faults,
`ReaderTypeCorrect`, `AcceptedIsOneDataset` and `GraceIsGranted`, whether the clock
steps back or not.  `BegunInv` says that all that lies in the bucket lies under an ID
that has begun; a new ID is none of these, so an attempt under way never has the ID a
consumer has resolved, and `Shrinks` turns this into "a resolved cycle only loses
objects".  `GotInv` then keeps all that was fetched, and all that is left under the ID,
to one payload, or notes that the marker is not that of the cycle and the attempt must
fail.  For the grace, `GraceInv` keeps that the cycle under way is the resolved one or
among its rivals; so when the resolved cycle is surplus, `Retention - 1` newer ones and
the one just committed are rivals of it (`SurplusIsOld`, by the cardinalities of finite
sets), and rivals only gain in number while it is read (`RivalsGrow`).

`S3AdapterProofs` proves, for any number of attempts, `AdapterTypeCorrect`,
`FailuresAreBounded`, `ImmutableIsKept` and the refinement `AdapterImplementsCall`.
The bound is a product, so the invariant counts per attempt: the failures so far are
at most the share of the attempts used up (`Spent`) and what the current one shows by
its place and its tries.  An upload replaces nothing because its PUT is only reached
from a GET that found nothing, and nobody else writes under its key in between.

`EnumerationProofs` and `MirrorsProofs` prove the six invariants of `mirrors`, for any
finite set of repositories, page size, first state of the volume, failure rate and
numbers of changes and of faults: `MirrorsTypeCorrect`, `ListingIsComplete`,
`OwedMirrorsAreKept`, `RefreshedMirrorsAreWhole`, `StatsArePartitioned` and
`PublishedCyclesCover`.  `WalkInv` says that, while nothing was deleted, what was on
the forge since the walk began still is, and that its part in front of the next page
has been seen; an answer that shows less ends the walk and is remembered as such
(`Truthful`, `FaultKeeps`); a creation only moves it forward, behind a name the walk
does not need (`Insertion`, `CreationKeeps`).  `MirrorInv` adds the partition of the
listing, with what is being refreshed in a part of its own; that nothing touches a
mirror between its fetch and its scan; that the listing stands still while the prune
runs; and that a mirror which was usable is, unless its fetch was broken.
`PublishedCovers` then follows from the partition, and its second part from
completeness: what is missing is among the failed, whose number the guard has judged.

`PollLoopProofs` proves, for any number of attempts, failures and signals, the five
invariants of `poll_loop`: `LoopTypeCorrect`, `CountsAlwaysAgree`,
`FreshnessIsCommitted`, `ReadinessIsEarned` and `ProbesAreAccounted`, from one
inductive invariant (`LoopInvariance`).  The strengthening relates the place of the
loop to what it has done: a cycle about to be recorded as published has been
committed; a failure about to be counted has been recorded, and is the only failed
attempt not yet counted; the probe is here only between its PUT and its deletion.
Typing is part of the argument: the count of probes stays a natural number only
because a probe that is here is one of those counted.

`RollupProofs` proves, for any repositories, workers, kinds of events, times, sizes,
window, threshold and share, and any number of records, the six invariants of
`rollup`: `RollupTypeCorrect`, `RepositoryCompleteness`, `WorkersAddUp`,
`AttributionIsExact`, `BulkIsClosed` and `ActiveWorkersAgree`.  All but the first
speak of the finished table only; the inductive invariant (`RollupInvariance`) says
what leads there:

- `ScanInv`: the cycle's lists are, at every moment, the records in the window of
  the repositories whose scan is over and did not fail; the running scan has its own;
- `MarkInv`: from the marks on, the flags and epochs are those of all events, and
  before them there is no row;
- `CellsInv`, `WorkerCellsInv`, `ClaimersInv`: a row counts, in each column, exactly
  the records already rolled up that belong there, and no row is there for nothing;
- `DoneInv`: the rows are finished when everything has been rolled up.

A step of the rollup adds one to one row and one record to one of the sets it counts
(`CommitCounted`, `EventCounted`, `WorkerEventCounted`).  At the end the sets are
those the properties name (`Finished`, `RowLines`, `WorkerRowLines`).  Two properties
add up rows.  `SumOfParts` turns the sum of a column over any finite set of rows into
the size of the union of what these rows count, if they count disjoint sets; the sum
is a recursive function on sets, so the lemma takes a smallest set of rows for which
it would fail, instead of an induction.  The workers' rows of a cell count disjoint
parts of the cell's records (`WorkerParts`), the cells of an hour disjoint parts of
the hour's closures (`HourSums`); what the flags make of these is `HourFlags`.  The
sums of changed lines (`lines`, `lines_raw`) are typed, and no property is about them.

The assumptions are those named in `Publication`: `meta.json` is not a data name,
IDs are naturals, retention is at least one, and the markers `None` and `Bad` are
not IDs or payloads; and, in `PollLoop`, that the bounds are naturals and `Never` is
no time and no outcome; in `S3Adapter`, that there is at least one attempt and that
the objects differ; those of `Enumeration` and `Mirrors` on their page size,
bounds and markers; and in `Rollup` that times, sizes and bounds are naturals, the
window is not empty, the share is a fraction of at most one, and the two
special actors and the label of unattributed work are not workers and not one another.
TLC evaluates the assumptions in every run.

Every invariant and every action property that the passing runs check, and both
refinements, are stated by a theorem.  Model-checked only: the liveness properties
`MirrorConverges`, `AttemptSucceeds`, `CallEnds`, `StopEnds`, `Converges` and
`FullCoverage` (temporal proof under fairness is out of the prover's reach), and the
statements of the findings, which the code contradicts.

## Not modelled

Writes that land after their call has given up (assumed not to happen, see
`Publication`); two processes on one prefix
(documented as unsupported) and the reentrant lock, which only the loop's thread
takes; delays and their lengths; the listing of more than one page of cycle
prefixes; the grammar of names, IDs, URLs, log lines and events; families; the
row-wise tables and their Parquet encoding; configuration; scripts; the stand-ins of
the self-hosting example.

## Plan

What could be added: listings of several pages in `S3Adapter`; the row-wise tables
beside `Rollup`; the sums of changed lines in the rows; the safety part of the
convergence of the mirrors (once settled, only a fault or a change of the fleet
unsettles them) as an action property with a proof.
