-------------------------- MODULE ReportStatusCache --------------------------
(***************************************************************************)
(* The answer to GET on the conversations reports of one project.  It is   *)
(* kept in the cache for a while; every save of a report deletes it, after *)
(* the save and outside of any transaction.  A reader that misses queries  *)
(* the table and then writes the cache, so a save and its deletion may     *)
(* fall between the two.                                                   *)
(***************************************************************************)
EXTENDS Integers

CONSTANTS
    Readers,      \* processes serving GET
    Writers,      \* processes that save reports: POST, tasks, shutdown handlers
    MaxSaved,   \* bound: reports of the project, numbered by created_on
    TTL,          \* CONVERSATIONS_REPORT_STATUS_CACHE_TTL, in ticks
    MaxLatency,   \* longest time a GET takes from its query to its cache write
    MaxFailures   \* bound: deletions that fail, or whose process dies first

ASSUME CacheAssumption ==
    /\ MaxSaved \in Nat /\ TTL \in Nat \ {0}
    /\ MaxLatency \in Nat /\ MaxFailures \in Nat

VARIABLES
    savedStatus,    \* of each report
    entry,     \* the cached answer, with the ticks it has to live: {} or a singleton
    step,      \* of each reader: idle, query, or set
    seen,      \* what each reader has found in the table
    waiting,   \* ticks since it did
    deleting,  \* writers that have saved and not deleted the entry yet
    failures,
    ago        \* ticks since each answer was last true of the table

cacheVars == <<savedStatus, entry, step, seen, waiting, deleting, failures, ago>>

SavedReports == 1..MaxSaved
SavedStatuses == {"NONE", "PENDING", "IN_PROGRESS", "READY", "FAILED"}
ActiveStatuses == {"PENDING", "IN_PROGRESS"}

\* The answers: the report found, or READY when there is none.
NoView == [report |-> 0, status |-> "READY"]
Views == {NoView} \cup [report: SavedReports, status: ActiveStatuses]

\* get_current_report_for_project on the given column: the oldest active report.
TrueOf(col, v) ==
    IF v = NoView THEN \A r \in SavedReports : col[r] \notin ActiveStatuses
    ELSE /\ col[v.report] = v.status
         /\ \A r \in SavedReports : r < v.report => col[r] \notin ActiveStatuses

Longest == TTL + MaxLatency + 1

CacheTypeOK ==
    /\ savedStatus \in [SavedReports -> SavedStatuses]
    /\ entry \subseteq [view: Views, life: 1..TTL]
    /\ \A e, f \in entry : e = f
    /\ step \in [Readers -> {"idle", "query", "set"}]
    /\ seen \in [Readers -> Views]
    /\ waiting \in [Readers -> 0..MaxLatency]
    /\ deleting \subseteq Writers
    /\ failures \in 0..MaxFailures
    /\ ago \in [Views -> 0..Longest]

CacheInit ==
    /\ savedStatus = [r \in SavedReports |-> "NONE"]
    /\ entry = {}
    /\ step = [p \in Readers |-> "idle"]
    /\ seen = [p \in Readers |-> NoView]
    /\ waiting = [p \in Readers |-> 0]
    /\ deleting = {}
    /\ failures = 0
    /\ ago = [v \in Views |-> IF v = NoView THEN 0 ELSE Longest]

-----------------------------------------------------------------------------
(* GET                                                                     *)

\* Mutant of Lookup: a hit renews the entry.
LookupRenews(p) ==
    /\ step[p] = "idle"
    /\ \/ /\ entry = {} /\ step' = [step EXCEPT ![p] = "query"] /\ UNCHANGED entry
       \/ /\ entry # {} /\ entry' = {[e EXCEPT !.life = TTL] : e \in entry}
          /\ UNCHANGED step
    /\ UNCHANGED <<savedStatus, seen, waiting, deleting, failures, ago>>

\* A miss; a hit answers at once and changes nothing.
Lookup(p) ==
    /\ step[p] = "idle" /\ entry = {}
    /\ step' = [step EXCEPT ![p] = "query"]
    /\ UNCHANGED <<savedStatus, entry, seen, waiting, deleting, failures, ago>>

QueryReport(p) ==
    /\ step[p] = "query"
    /\ \E v \in Views : TrueOf(savedStatus, v) /\ seen' = [seen EXCEPT ![p] = v]
    /\ waiting' = [waiting EXCEPT ![p] = 0]
    /\ step' = [step EXCEPT ![p] = "set"]
    /\ UNCHANGED <<savedStatus, entry, deleting, failures, ago>>

\* The request is over.
EndGet(p) ==
    /\ step' = [step EXCEPT ![p] = "idle"]
    /\ seen' = [seen EXCEPT ![p] = NoView]
    /\ waiting' = [waiting EXCEPT ![p] = 0]

Store(p) ==
    /\ step[p] = "set"
    /\ entry' = {[view |-> seen[p], life |-> TTL]}
    /\ EndGet(p)
    /\ UNCHANGED <<savedStatus, deleting, failures, ago>>

\* The request dies before it writes the cache.
Abandon(p) ==
    /\ step[p] # "idle"
    /\ EndGet(p)
    /\ UNCHANGED <<savedStatus, entry, deleting, failures, ago>>

-----------------------------------------------------------------------------
(* The saves of a report, each followed by the post_save receiver.         *)

\* A report is created when no older one is missing, and then started and ended,
\* or started and ended again (ReportGeneration has the runs that do); a save of
\* another column leaves its status.
MayBecome(r, s) ==
    \/ savedStatus[r] = "NONE" /\ s = "PENDING" /\ \A q \in SavedReports : q < r => savedStatus[q] # "NONE"
    \/ savedStatus[r] = "PENDING" /\ s \in {"PENDING", "IN_PROGRESS"}
    \/ /\ savedStatus[r] \in {"IN_PROGRESS", "READY", "FAILED"}
       /\ s \in {"IN_PROGRESS", "READY", "FAILED"}

Save(w, r, s) ==
    /\ w \notin deleting
    /\ MayBecome(r, s)
    /\ savedStatus' = [savedStatus EXCEPT ![r] = s]
    /\ deleting' = deleting \cup {w}
    /\ ago' = [v \in Views |-> IF TrueOf(savedStatus', v) THEN 0 ELSE ago[v]]
    /\ UNCHANGED <<entry, step, seen, waiting, failures>>

Invalidate(w) ==
    /\ w \in deleting
    /\ entry' = {}
    /\ deleting' = deleting \ {w}
    /\ UNCHANGED <<savedStatus, step, seen, waiting, failures, ago>>

\* Redis refuses the deletion, which raises in the saving task, or the process
\* dies before it.
FailToInvalidate(w) ==
    /\ w \in deleting /\ failures < MaxFailures
    /\ failures' = failures + 1
    /\ deleting' = deleting \ {w}
    /\ UNCHANGED <<savedStatus, entry, step, seen, waiting, ago>>

-----------------------------------------------------------------------------

\* Mutant of TickCache: the entries are set without a timeout.
TickWithoutExpiry ==
    /\ \A p \in Readers : step[p] = "set" => waiting[p] < MaxLatency
    /\ waiting' = [p \in Readers |-> IF step[p] = "set" THEN waiting[p] + 1 ELSE waiting[p]]
    /\ ago' = [v \in Views |-> IF TrueOf(savedStatus, v) \/ ago[v] = Longest THEN ago[v]
                               ELSE ago[v] + 1]
    /\ UNCHANGED <<savedStatus, entry, step, seen, deleting, failures>>

\* Time passes: an entry that has no tick left is dropped by redis.
TickCache ==
    /\ \A p \in Readers : step[p] = "set" => waiting[p] < MaxLatency
    /\ waiting' = [p \in Readers |-> IF step[p] = "set" THEN waiting[p] + 1 ELSE waiting[p]]
    /\ entry' = {[e EXCEPT !.life = @ - 1] : e \in {e \in entry : e.life > 1}}
    /\ ago' = [v \in Views |-> IF TrueOf(savedStatus, v) \/ ago[v] = Longest THEN ago[v]
                               ELSE ago[v] + 1]
    /\ UNCHANGED <<savedStatus, step, seen, deleting, failures>>

Get(p) == Lookup(p) \/ QueryReport(p) \/ Store(p) \/ Abandon(p)

Write(w) ==
    \/ \E r \in SavedReports, s \in SavedStatuses : Save(w, r, s)
    \/ Invalidate(w) \/ FailToInvalidate(w)

CacheNext == (\E p \in Readers : Get(p)) \/ (\E w \in Writers : Write(w)) \/ TickCache

CacheSpec == CacheInit /\ [][CacheNext]_cacheVars

\* A request that has queried writes the cache or dies, and time passes.
CacheFairness ==
    /\ WF_cacheVars(TickCache)
    /\ \A p \in Readers : WF_cacheVars(QueryReport(p) \/ Store(p))

CacheLiveSpec == CacheSpec /\ CacheFairness

-----------------------------------------------------------------------------
(* Properties.                                                             *)

\* An answer served from the cache was true at most TTL and one request ago,
\* whatever the order of the saves, the deletions and the cache writes, and
\* whichever deletion failed.
BoundedStaleness == \A e \in entry : ago[e.view] <= TTL + MaxLatency

\* A wrong answer does not stay, even if no report is saved any more.
RecoversFreshness == []<>(\A e \in entry : TrueOf(savedStatus, e.view))
=============================================================================
