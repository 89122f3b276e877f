---------------------------- MODULE DatalakePages ----------------------------
(***************************************************************************)
(* How a report reads the events of one section from the datalake:         *)
(* get_datalake_events.  The pages that a count announces are fetched by a *)
(* pool of threads, all at once or, in streaming mode, a batch at a time;  *)
(* when the count fails they are fetched one by one until one is empty.    *)
(*                                                                         *)
(* The events of the section are numbered in the datalake's order; new     *)
(* ones may be recorded at the end while the report reads.  The report may *)
(* be timed out by another process, and the run may be lost and the report *)
(* taken again, which finds what an earlier run has cached.                *)
(***************************************************************************)
EXTENDS Integers, Sequences, FiniteSets

CONSTANTS
    PageSize,    \* events_limit_per_page
    PageLimit,   \* page_limit
    MaxWorkers,  \* REPORT_PARALLEL_FETCH_MAX_WORKERS
    MaxEvents,   \* bound: events recorded in the datalake
    MaxLost      \* bound: runs lost

ASSUME PagesAssumption ==
    /\ PageSize \in Nat \ {0} /\ PageLimit \in Nat \ {0} /\ MaxWorkers \in Nat \ {0}
    /\ MaxEvents \in Nat /\ MaxLost \in Nat

VARIABLES
    table,       \* number of events of the section in the datalake
    inProgress,  \* whether the report's row is IN_PROGRESS
    cache,       \* the cached events: {} or a singleton
    phase,       \* what the run is doing
    streaming,   \* the run's mode (_use_streaming_events)
    total,       \* the count; 0 when it failed
    next, last,  \* pages next..last-1 of the batch are to be given out
    queued,      \* pages of the batch not fetched yet
    results,     \* what was fetched of each page
    failing,     \* whether a thread raised
    out,         \* events given to the caller
    why,         \* the reason of a failure
    since,       \* the events there were when the report was first read
    lost         \* runs lost so far

envVars == <<table, inProgress, lost>>
batchVars == <<next, last, queued, results, failing>>
pagesVars == <<envVars, cache, phase, streaming, total, batchVars, out, why, since>>

Events == 1..MaxEvents
Phases == {"idle", "count", "batch", "give", "sequential", "done", "failed"}
NotRead == -1

-----------------------------------------------------------------------------
(* The datalake.                                                           *)

Offset(page) == page * PageSize

\* Mutant of GetEvents: the offset is counted from one.
GetEventsFromOne(page) ==
    LET first == Offset(page) + 1
        end == IF table < first + PageSize THEN table ELSE first + PageSize
    IN [i \in 1..(IF end < first THEN 0 ELSE end - first) |-> first + i]

\* get_events(limit=PageSize, offset=Offset(page)), on the events there are now.
GetEvents(page) ==
    LET first == Offset(page)
        end == IF table < first + PageSize THEN table ELSE first + PageSize
    IN [i \in 1..(IF end < first THEN 0 ELSE end - first) |-> first + i]

\* math.ceil(total_count / limit)
TotalPages(count) == (count + PageSize - 1) \div PageSize

-----------------------------------------------------------------------------

PagesInit ==
    /\ table \in 0..MaxEvents /\ inProgress = TRUE /\ lost = 0
    /\ cache = {} /\ phase = "idle" /\ streaming = FALSE /\ total = 0
    /\ next = 0 /\ last = 0 /\ queued = {} /\ results = <<>> /\ failing = FALSE
    /\ out = <<>> /\ why = "none" /\ since = NotRead

\* A run reaches the section; only the standard mode looks in the cache.
Begin(mode) ==
    /\ phase = "idle"
    /\ streaming' = mode
    /\ since' = IF since = NotRead THEN table ELSE since
    /\ \/ /\ mode \/ cache = {}
          /\ phase' = "count"
          /\ UNCHANGED out
       \/ /\ ~mode /\ out' \in cache
          /\ phase' = "done"
    /\ UNCHANGED <<envVars, cache, total, batchVars, why>>

Fail(reason) ==
    /\ phase' = "failed"
    /\ why' = reason
    /\ UNCHANGED <<envVars, cache, streaming, total, batchVars, out, since>>

\* The whole list is cached, by the standard mode.
Finish ==
    /\ phase' = "done"
    /\ cache' = IF streaming THEN cache ELSE {out}

\* The pages from first on are handed to the threads: all of them, or as many
\* as there are workers.
Submit(first, count) ==
    LET pages == TotalPages(count)
        end == IF streaming /\ first + MaxWorkers < pages THEN first + MaxWorkers
               ELSE pages
    IN /\ next' = first /\ last' = end
       /\ queued' = first..(end - 1)
       /\ results' = [p \in first..(end - 1) |-> <<>>]
       /\ failing' = FALSE
       /\ phase' = "batch"

\* get_events_count, the page limit and the report's status.
CountEvents ==
    /\ phase = "count"
    /\ \/ /\ table = 0
          /\ phase' = "done"
          /\ UNCHANGED <<envVars, cache, streaming, total, batchVars, out, why, since>>
       \/ /\ TotalPages(table) >= PageLimit
          /\ Fail("limit")
       \/ /\ table # 0 /\ TotalPages(table) < PageLimit /\ ~inProgress
          /\ Fail("status")
       \/ /\ table # 0 /\ TotalPages(table) < PageLimit /\ inProgress
          /\ total' = table
          /\ Submit(0, table)
          /\ UNCHANGED <<envVars, cache, streaming, out, why, since>>

\* The count raised: the pages are fetched one by one.
CountFails ==
    /\ phase = "count"
    /\ phase' = "sequential"
    /\ next' = 0
    /\ UNCHANGED <<envVars, cache, streaming, total, last, queued, results, failing,
                   out, why, since>>

-----------------------------------------------------------------------------
(* _fetch_page_indices                                                     *)

\* The threads take the pages in order: those being fetched are the first of
\* the pages not fetched yet, and may end in any order.
InFlight(page) ==
    page \in queued /\ Cardinality({p \in queued : p < page}) < MaxWorkers

\* Mutant of FetchPage: results in the order of completion, not of the pages.
FetchPageAppended(page) ==
    /\ phase = "batch" /\ InFlight(page)
    /\ queued' = queued \ {page}
    /\ results' = [results EXCEPT ![last - Cardinality(queued)] = GetEvents(page)]
    /\ UNCHANGED <<envVars, cache, phase, streaming, total, next, last, failing, out,
                   why, since>>

FetchPage(page) ==
    /\ phase = "batch" /\ InFlight(page)
    /\ queued' = queued \ {page}
    /\ results' = [results EXCEPT ![page] = GetEvents(page)]
    /\ UNCHANGED <<envVars, cache, phase, streaming, total, next, last, failing, out,
                   why, since>>

FetchFails(page) ==
    /\ phase = "batch" /\ InFlight(page)
    /\ queued' = queued \ {page}
    /\ failing' = TRUE
    /\ UNCHANGED <<envVars, cache, phase, streaming, total, next, last, results, out,
                   why, since>>

\* The pool is left when every page has ended, with the error of one of them if
\* any; streaming reads the status again before it gives out the batch.
EndBatch ==
    /\ phase = "batch" /\ queued = {}
    /\ \/ failing /\ Fail("request")
       \/ ~failing /\ streaming /\ ~inProgress /\ Fail("status")
       \/ /\ ~failing /\ (~streaming \/ inProgress)
          /\ phase' = "give"
          /\ UNCHANGED <<envVars, cache, streaming, total, batchVars, out, why, since>>

\* Mutant of GivePage: the run ends with its first batch.
GivePageOfOneBatch ==
    /\ phase = "give"
    /\ \/ /\ next < last
          /\ out' = out \o results[next]
          /\ next' = next + 1
          /\ UNCHANGED <<envVars, cache, phase, streaming, total, last, queued, results,
                         failing, why, since>>
       \/ /\ next = last
          /\ Finish
          /\ UNCHANGED <<envVars, streaming, total, batchVars, out, why, since>>

\* The pages of the batch are given out in order; then the next batch, or the end.
GivePage ==
    /\ phase = "give"
    /\ \/ /\ next < last
          /\ out' = out \o results[next]
          /\ next' = next + 1
          /\ UNCHANGED <<envVars, cache, phase, streaming, total, last, queued, results,
                         failing, why, since>>
       \/ /\ next = last /\ last < TotalPages(total)
          /\ Submit(last, total)
          /\ UNCHANGED <<envVars, cache, streaming, total, out, why, since>>
       \/ /\ next = last /\ last >= TotalPages(total)
          /\ Finish
          /\ UNCHANGED <<envVars, streaming, total, batchVars, out, why, since>>

-----------------------------------------------------------------------------
(* The fallback, page next + 1 being current_page.                         *)

\* Mutant of Sequential: no limit on the pages.
SequentialUnlimited ==
    /\ phase = "sequential"
    /\ \/ ~inProgress /\ Fail("status")
       \/ /\ inProgress
          /\ GetEvents(next) = <<>>
          /\ Finish
          /\ UNCHANGED <<envVars, streaming, total, batchVars, out, why, since>>
       \/ /\ inProgress
          /\ GetEvents(next) # <<>>
          /\ out' = out \o GetEvents(next)
          /\ next' = next + 1
          /\ UNCHANGED <<envVars, cache, phase, streaming, total, last, queued, results,
                         failing, why, since>>

Sequential ==
    /\ phase = "sequential"
    /\ \/ next + 1 >= PageLimit /\ Fail("limit")
       \/ next + 1 < PageLimit /\ ~inProgress /\ Fail("status")
       \/ next + 1 < PageLimit /\ inProgress /\ Fail("request")
       \/ /\ next + 1 < PageLimit /\ inProgress
          /\ GetEvents(next) = <<>>
          /\ Finish
          /\ UNCHANGED <<envVars, streaming, total, batchVars, out, why, since>>
       \/ /\ next + 1 < PageLimit /\ inProgress
          /\ GetEvents(next) # <<>>
          /\ out' = out \o GetEvents(next)
          /\ next' = next + 1
          /\ UNCHANGED <<envVars, cache, phase, streaming, total, last, queued, results,
                         failing, why, since>>

-----------------------------------------------------------------------------
(* The environment.                                                        *)

Record ==
    /\ table < MaxEvents
    /\ table' = table + 1
    /\ UNCHANGED <<inProgress, lost, cache, phase, streaming, total, batchVars, out,
                   why, since>>

RunTimedOut ==
    /\ inProgress /\ inProgress' = FALSE
    /\ UNCHANGED <<table, lost, cache, phase, streaming, total, batchVars, out, why, since>>

\* The process is killed or its pod stopped; another run begins from nothing.
LoseRun ==
    /\ phase \notin {"idle", "failed"}
    /\ lost < MaxLost
    /\ lost' = lost + 1
    /\ phase' = "idle" /\ out' = <<>> /\ total' = 0
    /\ next' = 0 /\ last' = 0 /\ queued' = {} /\ results' = <<>> /\ failing' = FALSE
    /\ UNCHANGED <<table, inProgress, cache, streaming, why, since>>

ExpireCache ==
    /\ cache # {} /\ cache' = {}
    /\ UNCHANGED <<envVars, phase, streaming, total, batchVars, out, why, since>>

PagesNext ==
    \/ \E mode \in BOOLEAN : Begin(mode)
    \/ CountEvents \/ CountFails
    \/ \E page \in queued : FetchPage(page) \/ FetchFails(page)
    \/ EndBatch \/ GivePage \/ Sequential
    \/ Record \/ RunTimedOut \/ LoseRun \/ ExpireCache

PagesSpec == PagesInit /\ [][PagesNext]_pagesVars

-----------------------------------------------------------------------------
(* Properties.                                                             *)

PagesTypeOK ==
    /\ table \in 0..MaxEvents /\ inProgress \in BOOLEAN /\ lost \in 0..MaxLost
    /\ cache \subseteq Seq(Events) /\ phase \in Phases /\ streaming \in BOOLEAN
    /\ total \in 0..MaxEvents /\ next \in Nat /\ last \in Nat
    /\ queued \subseteq next..(last - 1)
    /\ failing \in BOOLEAN /\ out \in Seq(Events)
    /\ why \in {"none", "limit", "status", "request"}
    /\ since \in NotRead..MaxEvents

\* The caller gets the events in the datalake's order and none of them twice,
\* whatever the order in which the threads end (services.py:463, "preserving
\* order"), and whatever is recorded meanwhile.
Ordered == \A i, j \in 1..Len(out) : i < j => out[i] < out[j]

\* A retrieval that ends without an error has every event there was when the
\* report was first read: no page is skipped, lost by a thread, or left out of
\* what a later run finds in the cache.
Complete ==
    phase = "done" => \A e \in 1..since : \E i \in 1..Len(out) : out[i] = e

\* Of the events recorded while the report reads, a counted retrieval takes the
\* first ones; the fallback may miss events recorded behind a short page.
NoGapWhenCounted == total > 0 => \A i \in 1..Len(out) : out[i] = i

\* No mode gives the caller PageLimit pages of events.
WithinPageLimit == Len(out) <= (PageLimit - 1) * PageSize
=============================================================================
