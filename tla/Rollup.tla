------------------------------- MODULE Rollup -------------------------------
(* From the logs of the repositories to the fact table: the scan keeps what  *)
(* lies in the reporting window (window.py, gitscan.scan_commits,            *)
(* beads.parse_events), bulk hours are flagged (beads.mark_bulk_hours), and  *)
(* commits and events are rolled up one by one (aggregate.build_hourly).     *)
EXTENDS Integers, FiniteSets, FiniteSetsExt

CONSTANTS
    Repos, Workers,
    System, Nobody,       \* the actor "system"; an absent or empty actor
    Inferential,          \* aggregate.INFERENTIAL_WORKER
    Kinds,                \* the kinds of events in the logs
    HourLen,              \* 3600, in the model's units of time
    Times, Start, End,    \* bound: the times there are; the reporting window
    Sizes, TrimMax,       \* bound: the sizes of commits; cfg.trim_max_lines
    Threshold,            \* cfg.bead_bulk_close_threshold
    ShareNum, ShareDen,   \* cfg.bead_bulk_hour_share, as a fraction
    MaxCommits,           \* bound: commits in all logs
    MaxRecords            \* bound: commits and events in all logs

COUNTED_KINDS == {"closed", "claimed", "released", "reopened"}

ASSUME RollupAssumption ==
    /\ Times \subseteq Nat /\ Start \in Nat /\ End \in Nat /\ Start < End
    /\ HourLen \in Nat \ {0} /\ Threshold \in Nat
    /\ ShareNum \in Nat /\ ShareDen \in Nat \ {0} /\ ShareNum <= ShareDen
    /\ Sizes \subseteq Nat /\ TrimMax \in Nat
    /\ MaxCommits \in Nat /\ MaxRecords \in Nat
    /\ {"closed", "claimed"} \subseteq Kinds

(* The three special actors are told apart from the workers and each other. *)
ASSUME ActorsAssumption ==
    /\ System # Nobody /\ Inferential \notin {System, Nobody}
    /\ Workers \cap {System, Nobody, Inferential} = {}

VARIABLES
    pc, todo, cur,
    lines,               \* history: every event line that was read
    history,             \* history: every commit that was read
    found, parsed,       \* the commits and events of the running scan
    failed,
    commits, events,     \* all_commits and all_events
    bulk, epochs,        \* the flagged cells; attribution_epochs
    cells, workerCells,
    claimers, workerClaimers,
    rolled               \* the commits and events already in a cell

scanVars == <<todo, cur, lines, history, found, parsed, failed, commits, events>>
markVars == <<bulk, epochs>>
cellVars == <<cells, workerCells, claimers, workerClaimers, rolled>>
vars == <<pc, scanVars, markVars, cellVars>>

Actors == Workers \cup {System, Nobody}
Copies == 1..MaxRecords

(* Events and commits are told apart by their identities; here the copies of *)
(* a content are numbered.                                                   *)
Event == [repo : Repos, kind : Kinds, ts : Times, actor : Actors, copy : Copies]
Commit == [repo : Repos, ts : Times, size : Sizes, copy : Copies]

Hours == {t \div HourLen : t \in Times}
Hour(x) == x.ts \div HourLen
CellOf(x) == <<x.repo, Hour(x)>>

Columns == {"commits", "bulk_commits", "lines", "lines_raw",
            "closed", "closed_bulk", "claimed", "released", "reopened"}
EventColumns == {"closed", "closed_bulk", "claimed", "released", "reopened"}
EmptyRow == [c \in Columns |-> 0]

TypeOK ==
    /\ pc \in {"next", "log", "forensic", "roll", "done"}
    /\ todo \subseteq Repos /\ failed \subseteq Repos \ todo
    /\ lines \subseteq Event /\ events \subseteq lines /\ parsed \subseteq lines
    /\ history \subseteq Commit /\ commits \subseteq history /\ found \subseteq history
    /\ bulk \subseteq Repos \X Hours
    /\ DOMAIN epochs \subseteq Repos /\ \A r \in DOMAIN epochs : epochs[r] \in Start..(End - 1)
    /\ DOMAIN cells \subseteq Repos \X Hours
    /\ DOMAIN workerCells \subseteq Repos \X Hours \X (Workers \cup {Inferential})
    /\ \A k \in DOMAIN cells : cells[k] \in [Columns -> Nat]
    /\ \A k \in DOMAIN workerCells : workerCells[k] \in [Columns -> Nat]
    /\ claimers \subseteq (Repos \X Hours) \X (Workers \cup {System})
    /\ workerClaimers \subseteq Repos \X Hours \X Workers
    /\ rolled \subseteq commits \cup events

Init ==
    /\ pc = "next" /\ todo = Repos /\ cur = Nobody
    /\ lines = {} /\ history = {} /\ found = {} /\ parsed = {} /\ failed = {}
    /\ commits = {} /\ events = {}
    /\ bulk = {} /\ epochs = <<>>
    /\ cells = <<>> /\ workerCells = <<>> /\ claimers = {} /\ workerClaimers = {}
    /\ rolled = {}

-----------------------------------------------------------------------------
(* ReportingWindow.contains.  (ContainsEnd: a mutant, a closed interval.)    *)
ContainsEnd(ts) == Start <= ts /\ ts <= End
Contains(ts) == Start <= ts /\ ts < End

Kept(x) == IF Contains(x.ts) THEN {x} ELSE {}

Total == Cardinality(lines) + Cardinality(history)

(* The lists of the cycle are extended when the repository's scan is         *)
(* complete.  (Carried: a mutant, as soon as its log was read.)              *)
Carried(all, more) == all \cup more
Spared(all, more) == all

ScanRepo(r) ==
    /\ pc = "next" /\ r \in todo
    /\ cur' = r /\ todo' = todo \ {r}
    /\ found' = {} /\ parsed' = {}
    /\ pc' = "log"
    /\ UNCHANGED <<lines, history, failed, commits, events, markVars, cellVars>>

ReadCommit(ts, size) ==
    LET same == {c \in history : c.repo = cur /\ c.ts = ts /\ c.size = size}
        c == [repo |-> cur, ts |-> ts, size |-> size, copy |-> Cardinality(same) + 1]
    IN  /\ pc = "log" /\ Total < MaxRecords /\ Cardinality(history) < MaxCommits
        /\ history' = history \cup {c}
        /\ found' = found \cup Kept(c)
        /\ UNCHANGED <<pc, todo, cur, lines, parsed, failed, commits, events, markVars, cellVars>>

LogEnds ==
    /\ pc = "log"
    /\ pc' = "forensic"
    /\ commits' = Spared(commits, found)
    /\ UNCHANGED <<todo, cur, lines, history, found, parsed, failed, events, markVars, cellVars>>

ReadEvent(kind, ts, actor) ==
    LET same == {e \in lines : e.repo = cur /\ e.kind = kind /\ e.ts = ts /\ e.actor = actor}
        e == [repo |-> cur, kind |-> kind, ts |-> ts, actor |-> actor,
              copy |-> Cardinality(same) + 1]
    IN  /\ pc = "forensic" /\ Total < MaxRecords
        /\ lines' = lines \cup {e}
        /\ parsed' = parsed \cup Kept(e)
        /\ UNCHANGED <<pc, todo, cur, history, found, failed, commits, events, markVars, cellVars>>

(* git fails; the manifest does not match; a line is malformed or repeats an *)
(* identity.                                                                 *)
ScanFails ==
    /\ pc \in {"log", "forensic"}
    /\ failed' = failed \cup {cur}
    /\ pc' = "next" /\ cur' = Nobody /\ found' = {} /\ parsed' = {}
    /\ UNCHANGED <<todo, lines, history, commits, events, markVars, cellVars>>

ScanEnds ==
    /\ pc = "forensic"
    /\ commits' = commits \cup found /\ events' = events \cup parsed
    /\ pc' = "next" /\ cur' = Nobody /\ found' = {} /\ parsed' = {}
    /\ UNCHANGED <<todo, lines, history, failed, markVars, cellVars>>

-----------------------------------------------------------------------------
(* mark_bulk_hours and attribution_epochs.                                   *)

Closes(cell) == {e \in events : e.kind = "closed" /\ CellOf(e) = cell}
Dense == {cell \in Repos \X Hours : Cardinality(Closes(cell)) > Threshold}

ClosesIn(hour, which) == {e \in events : e.kind = "closed" /\ Hour(e) = hour /\ CellOf(e) \in which}

(* OverShare: a mutant, the share itself does not contaminate.               *)
OverShare(part, whole) == part * ShareDen > ShareNum * whole
AtShare(part, whole) == part * ShareDen >= ShareNum * whole

Contaminated ==
    {h \in Hours :
        LET total == Cardinality(ClosesIn(h, Repos \X {h}))
        IN  total > 0 /\ AtShare(Cardinality(ClosesIn(h, Dense)), total)}

BulkCells ==
    Dense \cup {cell \in Repos \X Contaminated : Closes(cell) # {}}

Named(actor) == actor \in Workers
NamedCloses(r) == {e \in events : e.repo = r /\ e.kind = "closed" /\ Named(e.actor)}
FirstClose(r) == Min({e.ts : e \in NamedCloses(r)})

Mark ==
    /\ pc = "next" /\ todo = {}
    /\ bulk' = BulkCells
    /\ epochs' = [r \in {x \in Repos : NamedCloses(x) # {}} |-> FirstClose(r)]
    /\ pc' = "roll"
    /\ UNCHANGED <<scanVars, cellVars>>

-----------------------------------------------------------------------------
(* build_hourly.                                                             *)

Bump(table, key, delta) ==
    LET row == IF key \in DOMAIN table THEN table[key] ELSE EmptyRow
    IN  [k \in DOMAIN table \cup {key} |->
            IF k = key THEN [c \in Columns |-> row[c] + delta[c]] ELSE table[k]]

(* gitscan.mark_bulk; the paths the raw totals do not filter add one line.   *)
IsBulk(c) == c.size > TrimMax
CommitDelta(c) ==
    [EmptyRow EXCEPT !["commits"] = 1,
                     !["lines_raw"] = c.size + 1,
                     !["bulk_commits"] = IF IsBulk(c) THEN 1 ELSE 0,
                     !["lines"] = IF IsBulk(c) THEN 0 ELSE c.size]

ColumnOf(e) ==
    IF e.kind = "closed" /\ CellOf(e) \in bulk THEN "closed_bulk" ELSE e.kind
EventDelta(e) == [EmptyRow EXCEPT ![ColumnOf(e)] = 1]

(* EveryClose: a mutant, a worker row knows no bulk hours.                   *)
EveryClose(e) == [EmptyRow EXCEPT ![e.kind] = 1]
WorkerDelta(e) == EventDelta(e)

(* AfterEpoch: a mutant, the close that sets the epoch is not attributed.    *)
AfterEpoch(e) == e.repo \in DOMAIN epochs /\ e.ts > epochs[e.repo]
FromEpoch(e) == e.repo \in DOMAIN epochs /\ e.ts >= epochs[e.repo]

WorkerLabel(e) == IF FromEpoch(e) /\ Named(e.actor) THEN e.actor ELSE Inferential
WorkerCellOf(e) == <<e.repo, Hour(e), WorkerLabel(e)>>

(* AnyNamed: a mutant, whoever claims counts for a worker row.               *)
AnyNamed(e) == e.actor # Nobody
ClaimsAsWorker(e) == WorkerLabel(e) # Inferential

RollCommit(c) ==
    /\ pc = "roll" /\ c \in commits \ rolled
    /\ cells' = Bump(cells, CellOf(c), CommitDelta(c))
    /\ rolled' = rolled \cup {c}
    /\ UNCHANGED <<pc, scanVars, markVars, workerCells, claimers, workerClaimers>>

RollEvent(e) ==
    /\ pc = "roll" /\ commits \subseteq rolled /\ e \in events \ rolled
    /\ rolled' = rolled \cup {e}
    /\ IF e.kind \in COUNTED_KINDS
       THEN /\ cells' = Bump(cells, CellOf(e), EventDelta(e))
            /\ workerCells' = Bump(workerCells, WorkerCellOf(e), WorkerDelta(e))
       ELSE UNCHANGED <<cells, workerCells>>
    /\ IF e.kind = "claimed" /\ e.actor # Nobody
       THEN /\ claimers' = claimers \cup {<<CellOf(e), e.actor>>}
            /\ workerClaimers' = workerClaimers \cup
                   (IF ClaimsAsWorker(e) THEN {<<e.repo, Hour(e), e.actor>>} ELSE {})
       ELSE UNCHANGED <<claimers, workerClaimers>>
    /\ UNCHANGED <<pc, scanVars, markVars>>

(* The rows: one of each cell, with its active workers.                      *)
RollEnds ==
    /\ pc = "roll" /\ rolled = commits \cup events
    /\ pc' = "done"
    /\ UNCHANGED <<scanVars, markVars, cellVars>>

ActiveIn(cell) == Cardinality({c \in claimers : c[1] = cell})
ActiveAs(key) == IF key \in workerClaimers THEN 1 ELSE 0

-----------------------------------------------------------------------------

Scanning ==
    \/ \E r \in Repos : ScanRepo(r)
    \/ \E ts \in Times, size \in Sizes : ReadCommit(ts, size)
    \/ \E kind \in Kinds, ts \in Times, actor \in Actors : ReadEvent(kind, ts, actor)
    \/ LogEnds \/ ScanFails \/ ScanEnds
Rolling ==
    \/ \E c \in commits : RollCommit(c)
    \/ \E e \in events : RollEvent(e)
    \/ RollEnds
Done == pc = "done" /\ UNCHANGED vars

Next == Scanning \/ Mark \/ Rolling \/ Done

Spec == Init /\ [][Next]_vars

-----------------------------------------------------------------------------
(* Properties of the finished table, stated over the lines of the logs.      *)

Counted(r) == r \notin failed
InWindow(x) == x.ts \in Start..(End - 1)
Lines(r, h, k) == {e \in lines : e.repo = r /\ Hour(e) = h /\ e.kind = k /\ InWindow(e)}
Log(r, h) == {c \in history : c.repo = r /\ Hour(c) = h /\ InWindow(c)}

(* The repository row of an hour counts every commit and every counted event *)
(* of the window once, in its hour, and nothing of a repository whose scan   *)
(* failed at any point; there is no row without activity (output-schema.md:  *)
(* "the sum over hourly rows with worker IS NULL always equals the count").  *)
RepositoryIsComplete ==
    pc = "done" => \A r \in Repos, h \in Hours :
        LET row == IF <<r, h>> \in DOMAIN cells THEN cells[<<r, h>>] ELSE EmptyRow
            n(S) == IF Counted(r) THEN Cardinality(S) ELSE 0
        IN  /\ row["closed"] + row["closed_bulk"] = n(Lines(r, h, "closed"))
            /\ \A k \in COUNTED_KINDS \ {"closed"} : row[k] = n(Lines(r, h, k))
            /\ row["commits"] = n(Log(r, h))
            /\ row["bulk_commits"] = n({c \in Log(r, h) : c.size > TrimMax})
            /\ <<r, h>> \in DOMAIN cells => row # EmptyRow

(* The rows of the named and inferential workers add up to the repository    *)
(* row, column by column; commits have no worker.                            *)
WorkersPartition ==
    pc = "done" => \A cell \in Repos \X Hours, c \in Columns :
        LET parts == {k \in DOMAIN workerCells : <<k[1], k[2]>> = cell}
            sum == MapThenSumSet(LAMBDA k : workerCells[k][c], parts)
        IN  IF c \in EventColumns
            THEN sum = (IF cell \in DOMAIN cells THEN cells[cell][c] ELSE 0)
            ELSE sum = 0

(* A worker's row holds exactly its events from the repository's first close *)
(* by a worker on, that close included.                                      *)
AttributionBoundary ==
    pc = "done" => \A r \in Repos \ failed, h \in Hours, w \in Workers :
        LET key == <<r, h, w>>
            row == IF key \in DOMAIN workerCells THEN workerCells[key] ELSE EmptyRow
            attributed(e) ==
                e.actor = w /\ \E f \in lines :
                    f.repo = r /\ InWindow(f) /\ f.kind = "closed"
                    /\ f.actor \in Workers /\ f.ts <= e.ts
        IN  /\ row["closed"] + row["closed_bulk"]
                   = Cardinality({e \in Lines(r, h, "closed") : attributed(e)})
            /\ \A k \in COUNTED_KINDS \ {"closed"} :
                   row[k] = Cardinality({e \in Lines(r, h, k) : attributed(e)})

(* An hour is either bulk as a whole, or its bulk closures stay below the    *)
(* share that would contaminate it, however its repositories are split; and  *)
(* only an hour with a repository over the threshold has bulk closures,      *)
(* unless the configured share is 0, which every hour with a closure meets.  *)
BulkClosure ==
    pc = "done" => \A h \in Hours :
        LET sum(c) == MapThenSumSet(LAMBDA k : cells[k][c], {k \in DOMAIN cells : k[2] = h})
        IN  /\ sum("closed") = 0
               \/ sum("closed_bulk") * ShareDen < ShareNum * (sum("closed") + sum("closed_bulk"))
            /\ ShareNum > 0 /\ sum("closed_bulk") > 0 =>
                   \E r \in Repos : Cardinality(Lines(r, h, "closed")) > Threshold

(* workers_active: a repository row counts every claimer once; the named     *)
(* rows count one each, only for claimers of the same cell with a row.       *)
ActiveWorkers ==
    pc = "done" => \A r \in Repos, h \in Hours :
        LET named == {w \in Workers \cup {Inferential} : ActiveAs(<<r, h, w>>) = 1}
        IN  /\ Cardinality(named) <= ActiveIn(<<r, h>>)
            /\ Inferential \notin named
            /\ \A w \in named :
                   /\ <<r, h, w>> \in DOMAIN workerCells
                   /\ workerCells[<<r, h, w>>]["claimed"] > 0
            /\ Counted(r) => ActiveIn(<<r, h>>)
                   = Cardinality({e.actor : e \in Lines(r, h, "claimed")} \ {Nobody})
=============================================================================
