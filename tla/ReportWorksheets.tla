--------------------------- MODULE ReportWorksheets ---------------------------
(***************************************************************************)
(* What one run of ConversationsReportService.generate puts in a report:   *)
(* the worksheets of the sections and widgets asked for, read from the     *)
(* data lake, from Elasticsearch or from the metrics service while events  *)
(* are being recorded, kept in memory or in temporary files, and mailed.   *)
(* A run may be interrupted or lost and the report run again.              *)
(*                                                                         *)
(* An event stands for the rows it gives: labels, dates and translations   *)
(* are left out.  A retrieval of events is one step (DatalakePages has its *)
(* pages); the status of the report over its runs is in ReportGeneration.  *)
(* A name is its first 27 characters, the next four, or "", and the        *)
(* counter that may take the place of these, or 0.                         *)
(***************************************************************************)
EXTENDS Integers, Sequences, FiniteSets, FiniteSetsExt

CONSTANTS
    Contacts,     \* numbered in the order of their last answers to a survey
    Own, Other,   \* the agent the report asks about and another one
    Plans,        \* what is asked for: sections, and widgets with a kind and a name
    FactSets,     \* FactSets[p]: sets of facts of which some may be recorded for plan p
    PageSize,     \* elastic_page_size
    PageLimit,    \* elastic_page_limit
    MaxRecorded,  \* bound: events recorded
    MaxMoves,     \* bound: flow runs that contacts do again
    MaxRuns,      \* bound: runs of the report
    MaxFaults     \* bound: services that raise, runs lost, reports swept

\* worksheets_mapping, in its order.
SectionOrder ==
    <<"RESOLUTIONS", "TOPICS_AI", "TOPICS_HUMAN", "CSAT_AI", "NPS_AI", "CSAT_HUMAN", "NPS_HUMAN",
      "TOOL_RESULT", "AGENT_INVOCATION", "CONTACTS", "ADDED_TO_CART", "SEARCH_TERMS">>

Sections == {SectionOrder[i] : i \in DOMAIN SectionOrder}
Surveys == {"CSAT_HUMAN", "NPS_HUMAN"}
Topics == {"TOPICS_AI", "TOPICS_HUMAN"}
Invoked == {"TOOL_RESULT", "AGENT_INVOCATION"}
Classified == {"RESOLUTIONS", "CONTACTS"}

EventKeys == {"conversation_classification", "topics", "flow1", "flow2", "custom", "crosstab"}
             \cup Sections

\* An event: "odd" ones are those some rows leave out, because their metadata is no
\* JSON, their rating is off the scale or their topic has no name.  In a survey,
\* "plain" is an answer from one to five, "odd" another one, "blank" none.
Fact == [key: EventKeys, urn: Contacts, agent: {Own, Other},
         kind: {"plain", "human", "odd", "blank"}]

ASSUME PlansAssumption ==
    \A p \in Plans :
        /\ Len(p.widgets) \in Nat
        /\ \A w \in 1..Len(p.widgets) :
              /\ p.widgets[w].kind \in {"custom", "crosstab"}
              /\ p.widgets[w].name = <<p.widgets[w].name[1], p.widgets[w].name[2], 0>>
        /\ \A s \in FactSets[p] : s \subseteq Fact
ASSUME BoundsAssumption ==
    /\ IsFiniteSet(Contacts) /\ Contacts = 1..Cardinality(Contacts)
    /\ PageSize \in Nat \ {0} /\ PageLimit \in Nat /\ Own # Other
    /\ MaxRecorded \in Nat /\ MaxMoves \in Nat /\ MaxRuns \in Nat /\ MaxFaults \in Nat

VARIABLES
    plan, format, flow,   \* the request, and the flow of each survey
    facts, lake,          \* the facts of this behaviour and how often each is recorded
    docs,                 \* Elasticsearch: when each contact last ran a flow, and its answer
    live,                 \* widgets that still exist
    status, interrupted, runs, faults,
    run,                  \* the run at work
    disk,                 \* temporary files
    redis,                \* what standard runs cache under the report's keys
    report,               \* the worksheets of the report that was mailed
    floor, unmoved, excused  \* ghosts: recorded before the first run; flow runs not done
                             \* again since; files of runs that were cut short

world == <<plan, format, flow, facts>>
data == <<lake, docs, live, unmoved>>
ghosts == <<floor, excused>>
vars == <<world, data, ghosts, status, interrupted, runs, faults, run, disk, redis, report>>

\* The next four characters of a name that has none.
NoRest == ""

\* No events and no results, of no key.
NoRows == [f \in {} |-> 0]

Item(s, w) == [section |-> s, widget |-> w]
Sheet(item, kind, name) ==
    [item |-> item, kind |-> kind, name |-> name, read |-> FALSE, rows |-> NoRows, urns |-> {}]

NoWalk == [page |-> 1, after |-> 0, rows |-> NoRows]

NoRun == [step |-> "idle", streaming |-> FALSE, flags |-> {}, todo |-> {}, sheets |-> <<>>,
          written |-> 0, names |-> {}, shared |-> NoRows, walk |-> NoWalk, keys |-> {}]

-----------------------------------------------------------------------------
(* What each worksheet asks for, and the rows it keeps.                    *)

\* Conversations classified, which Resolutions and Contacts list.
ClassificationQuery == [key |-> "conversation_classification", filter |-> "none"]

\* Those of the AI only, or of human support only.
TopicsQuery(s) == [key |-> "topics", filter |-> IF s = "TOPICS_AI" THEN "ai" ELSE "human"]

\* Scores given to the agent that was configured when the report was asked for.
ScoreQuery(s) == [key |-> s, filter |-> "agent"]

\* Answers to a question of a flow.
SurveyQuery(s) == [key |-> flow[s], filter |-> "op_field"]

\* Events of the agent that Nexus has for the project.
CommerceQuery(s) == [key |-> s, filter |-> "agent"]

\* Events of every agent.
ToolQuery == [key |-> "TOOL_RESULT", filter |-> "none"]
InvocationQuery == [key |-> "AGENT_INVOCATION", filter |-> "none"]

\* Events of the key and the agent of a widget.
WidgetQuery(s) == [key |-> s, filter |-> "agent"]

Query(s) ==
    CASE s \in Classified -> ClassificationQuery
      [] s \in Topics -> TopicsQuery(s)
      [] s \in {"CSAT_AI", "NPS_AI"} -> ScoreQuery(s)
      [] s \in Surveys -> SurveyQuery(s)
      [] s = "TOOL_RESULT" -> ToolQuery
      [] s = "AGENT_INVOCATION" -> InvocationQuery
      [] s \in {"ADDED_TO_CART", "SEARCH_TERMS"} -> CommerceQuery(s)
      [] s \in {"custom", "crosstab"} -> WidgetQuery(s)

\* Mutant of Key: the filter is not part of it.
KeyWithoutFilter(s) == [Query(s) EXCEPT !.filter = "none"]

\* The key in redis, of events or of a survey's results.  That of a survey has no
\* include_values.
Key(s) == Query(s)

Answers(q, f) ==
    /\ f.key = q.key
    /\ q.filter = "agent" => f.agent = Own
    /\ q.filter \in {"ai", "human"} => (f.kind = "human") = (q.filter = "human")

\* The data lake's answer.
Events(q) == [f \in {g \in facts : Answers(q, g)} |-> lake[f]]

Empty(rows) == \A f \in DOMAIN rows : rows[f] = 0

\* The _iter_*_rows generators.
DropsOdd == {"RESOLUTIONS", "CSAT_AI", "NPS_AI"} \cup Topics \cup Invoked
KeptRows(s, rows) ==
    [f \in {g \in DOMAIN rows : s \in DropsOdd => g.kind # "odd"} |-> rows[f]]

\* The contacts of an event at least, or of two.
Urns(rows, least) ==
    {f.urn : f \in {g \in DOMAIN rows :
        rows[g] >= least \/ \E h \in DOMAIN rows \ {g} : h.urn = g.urn /\ rows[g] + rows[h] >= least}}

\* Sections whose counts come from the metrics service instead of a list of events.
Summary(s) == \/ s = "crosstab"
              \/ s = "CONTACTS" /\ "contacts" \notin run.flags
              \/ s \in Invoked /\ "urns" \notin run.flags

Doc(c, key) == [key |-> key, urn |-> c, agent |-> Own, kind |-> docs[c].answer]

-----------------------------------------------------------------------------
(* Names.                                                                  *)

NameOf(item) == IF item.widget = 0 THEN <<item.section, NoRest, 0>> ELSE plan.widgets[item.widget].name

\* _ensure_unique_worksheet_name: the loop looks for the name with its counter as it
\* is before it is cut again, and so never finds the counter a cut name was given.
Counters(name, used) == {c \in 1..20 : <<name[1], name[2], c>> \notin used}
UniqueName(name, used) ==
    IF name \notin used THEN name ELSE <<name[1], NoRest, Min(Counters(name, used))>>

-----------------------------------------------------------------------------
\* RequestConversationsReportGenerationSerializer.
Accepted(p) == p.sections \subseteq Sections /\ (p.sections # {} \/ p.widgets # <<>>)

Init ==
    /\ plan \in Plans /\ Accepted(plan) /\ format \in {"XLSX", "CSV"}
    /\ flow \in [Surveys -> {"flow1", "flow2"}] /\ flow["CSAT_HUMAN"] = "flow1"
    /\ flow["NPS_HUMAN"] = "flow1" => plan.sections = Surveys
    /\ facts \in FactSets[plan] /\ lake = [f \in facts |-> 0]
    /\ \E last \in 0..Cardinality(Contacts) :
          /\ last > 0 <=> plan.sections \cap Surveys # {}
          /\ \E answers \in [1..last -> {"plain", "odd", "blank"}] :
                docs = [c \in 1..last |-> [at |-> c, answer |-> answers[c]]]
    /\ live = 1..Len(plan.widgets) /\ unmoved = DOMAIN docs
    /\ status = "PENDING" /\ interrupted = FALSE /\ runs = 0 /\ faults = 0
    /\ run = NoRun /\ disk = {} /\ redis = NoRows /\ report = <<>>
    /\ floor = lake /\ excused = {}

-----------------------------------------------------------------------------
(* What happens meanwhile.                                                 *)

Ended == run.step = "idle" /\ status \in {"READY", "FAILED"}
Open == ~Ended

Recorded == MapThenSumSet(LAMBDA f : lake[f], facts)

Record(f) ==
    /\ Open /\ Recorded < MaxRecorded
    /\ lake' = [lake EXCEPT ![f] = @ + 1]
    /\ UNCHANGED <<world, docs, live, unmoved, ghosts, status, interrupted, runs, faults, run, disk,
                   redis, report>>

\* A contact runs the flow again: its document moves to the top.
RunFlow(c) ==
    LET last == Max({docs[d].at : d \in DOMAIN docs})
    IN /\ Open /\ last < Cardinality(Contacts) + MaxMoves
       /\ \E a \in {"plain", "odd"} : docs' = [docs EXCEPT ![c] = [at |-> last + 1, answer |-> a]]
       /\ unmoved' = unmoved \ {c}
       /\ UNCHANGED <<world, lake, live, ghosts, status, interrupted, runs, faults, run, disk, redis,
                      report>>

DeleteWidget(w) ==
    /\ Open
    /\ live' = live \ {w}
    /\ UNCHANGED <<world, lake, docs, unmoved, ghosts, status, interrupted, runs, faults, run, disk,
                   redis, report>>

\* The shutdown handler of the pod.
Interrupt ==
    /\ run.step # "idle" /\ ~interrupted /\ runs < MaxRuns
    /\ interrupted' = TRUE
    /\ UNCHANGED <<world, data, ghosts, status, runs, faults, run, disk, redis, report>>

Fault == faults < MaxFaults /\ faults' = faults + 1

\* timeout_reports.
Sweep ==
    /\ status = "IN_PROGRESS" /\ Fault
    /\ status' = "FAILED"
    /\ UNCHANGED <<world, data, ghosts, interrupted, runs, run, disk, redis, report>>

\* The process is killed.
Die ==
    /\ run.step # "idle" /\ Fault
    /\ run' = NoRun /\ excused' = excused \cup disk
    /\ UNCHANGED <<world, data, floor, status, interrupted, runs, disk, redis, report>>

\* The time to live of a key.
Expire(k) ==
    /\ Open /\ k \in DOMAIN redis
    /\ redis' = [q \in DOMAIN redis \ {k} |-> redis[q]]
    /\ UNCHANGED <<world, data, ghosts, status, interrupted, runs, faults, run, disk, report>>

-----------------------------------------------------------------------------
(* The run.                                                                *)

\* The first run, or another after an interruption; the feature flags of each are read anew.
Begin ==
    /\ run.step = "idle" /\ runs < MaxRuns
    /\ status = "PENDING" \/ (interrupted /\ status = "IN_PROGRESS")
    /\ \E streaming \in BOOLEAN, flags \in SUBSET {"contacts", "urns"} :
        /\ "contacts" \in flags => "CONTACTS" \in plan.sections
        /\ "urns" \in flags => plan.sections \cap Invoked # {}
        /\ run' = [NoRun EXCEPT !.step = IF plan.sections \cap Classified = {} THEN "build" ELSE "share",
                               !.streaming = streaming, !.flags = flags,
                               !.todo = {Item(s, 0) : s \in plan.sections}]
    /\ status' = "IN_PROGRESS" /\ interrupted' = FALSE /\ runs' = runs + 1
    /\ floor' = IF runs = 0 THEN lake ELSE floor
    /\ unmoved' = IF runs = 0 THEN DOMAIN docs ELSE unmoved
    /\ UNCHANGED <<world, lake, docs, live, excused, faults, disk, redis, report>>

\* A retrieval reads the status of the report, unless there is nothing to retrieve.
Allowed(q) == status = "IN_PROGRESS" \/ Empty(Events(q))

\* A standard run reads redis, or else the data lake and keeps what it has read.
StandardRows(s) == IF Key(s) \in DOMAIN redis THEN redis[Key(s)] ELSE Events(Query(s))
ReadStandard(s) ==
    /\ Key(s) \in DOMAIN redis \/ Allowed(Query(s))
    /\ redis' = IF Empty(StandardRows(s)) THEN redis ELSE [k \in DOMAIN redis \cup {Key(s)} |->
                      IF k = Key(s) THEN StandardRows(s) ELSE redis[k]]

\* Mutant of Used: results found in redis are not noted for deletion.
UsedOnMiss(r, s) == IF Key(s) \in DOMAIN redis THEN r ELSE [r EXCEPT !.keys = @ \cup {Key(s)}]

\* _add_cache_key
Used(r, s) == [r EXCEPT !.keys = @ \cup {Key(s)}]

\* Mutant of Spooled: each worksheet of a streaming run reads for itself.
SpooledNever == FALSE

Spooled == run.streaming /\ Classified \subseteq plan.sections

\* The classification events are read once for Resolutions and Contacts, into a list
\* or a spool on disk; a streaming run with one of the two reads them later.
Share ==
    /\ run.step = "share"
    /\ IF run.streaming
       THEN /\ Spooled => Allowed(Query("RESOLUTIONS"))
            /\ run' = [run EXCEPT !.step = "build",
                           !.shared = IF Spooled THEN Events(Query("RESOLUTIONS")) ELSE NoRows]
            /\ disk' = IF Spooled THEN disk \cup {<<"spool", runs, 0>>} ELSE disk
            /\ UNCHANGED redis
       ELSE /\ ReadStandard("RESOLUTIONS")
            /\ run' = [Used(run, "RESOLUTIONS") EXCEPT !.step = "build",
                           !.shared = StandardRows("RESOLUTIONS")]
            /\ UNCHANGED disk
    /\ UNCHANGED <<world, data, ghosts, status, interrupted, runs, faults, report>>

\* The order in which the worksheets are built: sections, custom widgets, crosstabs.
Place(item) ==
    IF item.widget = 0 THEN CHOOSE i \in DOMAIN SectionOrder : SectionOrder[i] = item.section
    ELSE item.widget + (IF item.section = "crosstab" THEN Len(plan.widgets) ELSE 0)

Building(item) ==
    /\ run.step \in {"build", "widgets"} /\ item \in run.todo
    /\ \A other \in run.todo : Place(item) <= Place(other)
Add(r, item, sheets) == [r EXCEPT !.todo = @ \ {item}, !.sheets = @ \o sheets]
Filled(sheet, rows) == [sheet EXCEPT !.read = TRUE, !.rows = rows]

\* Unique contacts and returning contacts.
Counted(sheet, urns) == [sheet EXCEPT !.read = TRUE, !.urns = urns]
ContactSheets(item, rows) ==
    <<Counted(Sheet(item, "unique", <<"unique", NoRest, 0>>), Urns(rows, 1)),
      Counted(Sheet(item, "returning", <<"returning", NoRest, 0>>), Urns(rows, 2))>>

IsList(s) == s \notin Surveys /\ ~Summary(s)

\* A streaming run leaves the worksheet to be read when it is written, except that
\* it counts contacts at once.
BuildLazy(item) ==
    /\ Building(item) /\ IsList(item.section) /\ run.streaming
    /\ IF item.section # "CONTACTS" THEN run' = Add(run, item, <<Sheet(item, "events", NameOf(item))>>)
       ELSE /\ Spooled \/ Allowed(Query("CONTACTS"))
            /\ run' = Add(run, item, ContactSheets(item, IF Spooled THEN run.shared
                                                   ELSE Events(Query("CONTACTS"))))
    /\ UNCHANGED <<world, data, ghosts, status, interrupted, runs, faults, disk, redis, report>>

\* A standard run reads it now.  (Resolutions without any event is left out.)
BuildList(item) ==
    /\ Building(item) /\ IsList(item.section) /\ ~run.streaming
    /\ LET sheet(rows) == Filled(Sheet(item, "events", NameOf(item)), KeptRows(item.section, rows))
       IN CASE item.section = "CONTACTS" ->
                 run' = Add(run, item, ContactSheets(item, run.shared)) /\ UNCHANGED redis
            [] item.section = "RESOLUTIONS" ->
                 /\ run' = Add(run, item, IF Empty(run.shared) THEN <<>> ELSE <<sheet(run.shared)>>)
                 /\ UNCHANGED redis
            [] OTHER ->
                 /\ ReadStandard(item.section)
                 /\ run' = Add(Used(run, item.section), item, <<sheet(StandardRows(item.section))>>)
    /\ UNCHANGED <<world, data, ghosts, status, interrupted, runs, faults, disk, report>>

\* The metrics service answers with what there is, or with what it cached earlier.
BuildSummary(item) ==
    /\ Building(item) /\ Summary(item.section)
    /\ LET now == Events(Query(item.section))
       IN \E rows \in {now, [f \in DOMAIN now |-> 0]} :
             run' = Add(run, item, <<Filled(Sheet(item, "summary", NameOf(item)), rows)>>)
    /\ UNCHANGED <<world, data, ghosts, status, interrupted, runs, faults, disk, redis, report>>

-----------------------------------------------------------------------------
(* Surveys: a walk over the contacts of a flow, the last to answer first.  *)

Included(s, answer) == s = "CSAT_HUMAN" => answer = "plain"

\* search_after.
PageOf(s) ==
    LET left == {c \in DOMAIN docs : /\ Included(s, docs[c].answer)
                                     /\ run.walk.page = 1 \/ docs[c].at < run.walk.after}
    IN {c \in left : Cardinality({d \in left : docs[d].at > docs[c].at}) < PageSize}

SurveySheet(item, rows) ==
    Filled(Sheet(item, "survey", NameOf(item)),
           [f \in {g \in DOMAIN rows : g.kind # "blank"} |-> rows[f]])

AddRows(rows, s, page) ==
    LET new == {Doc(c, Query(s).key) : c \in page}
        of(f) == IF f \in DOMAIN rows THEN rows[f] ELSE 0
    IN [f \in DOMAIN rows \cup new |-> of(f) + (IF f \in new THEN 1 ELSE 0)]

\* A page of the walk; the status of the report is read before each.
WalkPage(item) ==
    /\ Building(item) /\ item.section \in Surveys /\ Key(item.section) \notin DOMAIN redis
    /\ run.walk.page < PageLimit /\ status = "IN_PROGRESS"
    /\ LET page == PageOf(item.section)
       IN /\ page # {}
          /\ run' = [run EXCEPT !.walk = [page |-> @.page + 1,
                                          after |-> Min({docs[c].at : c \in page}),
                                          rows |-> AddRows(@.rows, item.section, page)]]
    /\ UNCHANGED <<world, data, ghosts, status, interrupted, runs, faults, disk, redis, report>>

\* An empty page ends the walk, or redis has its results.
EndWalk(item) ==
    /\ Building(item) /\ item.section \in Surveys
    /\ LET k == Key(item.section)
           rows == IF k \in DOMAIN redis THEN redis[k] ELSE run.walk.rows
       IN /\ \/ k \in DOMAIN redis
             \/ /\ run.walk.page < PageLimit /\ status = "IN_PROGRESS"
                /\ PageOf(item.section) = {}
          /\ redis' = [q \in DOMAIN redis \cup {k} |-> IF q = k THEN rows ELSE redis[q]]
          /\ run' = [Add(Used(run, item.section), item, <<SurveySheet(item, rows)>>) EXCEPT !.walk = NoWalk]
    /\ UNCHANGED <<world, data, ghosts, status, interrupted, runs, faults, disk, report>>

-----------------------------------------------------------------------------
(* Widgets and files.                                                      *)

\* The custom widgets that still exist, and then the crosstabs.
ListWidgets ==
    /\ run.step = "build" /\ run.todo = {}
    /\ run' = [run EXCEPT !.step = "widgets", !.todo = {Item(plan.widgets[w].kind, w) : w \in live}]
    /\ UNCHANGED <<world, data, ghosts, status, interrupted, runs, faults, disk, redis, report>>

\* A streaming XLSX is a temporary file from the start.
StartWriting ==
    /\ run.step = "widgets" /\ run.todo = {}
    /\ run' = [run EXCEPT !.step = "write"]
    /\ disk' = IF run.streaming /\ format = "XLSX" THEN disk \cup {<<"xlsx", runs, 0>>} ELSE disk
    /\ UNCHANGED <<world, data, ghosts, status, interrupted, runs, faults, redis, report>>

Writing(i) == run.step = "write" /\ i = run.written + 1 /\ i <= Len(run.sheets)

\* No counter is left, or the workbook has a worksheet of the name that was made.
NameTaken(i) ==
    LET name == run.sheets[i].name
    IN /\ format = "XLSX" /\ name \in run.names
       /\ \/ Counters(name, run.names) = {}
          \/ UniqueName(name, run.names) \in run.names

FromSpool(i) == Spooled /\ run.sheets[i].item.section = "RESOLUTIONS"

Written(i, sheet) ==
    [run EXCEPT !.written = i, !.sheets[i] = sheet,
                !.names = IF format = "XLSX" THEN @ \cup {UniqueName(sheet.name, @)} ELSE @]

\* A standard run has read its rows and writes them in memory.
WriteInMemory(i) ==
    /\ Writing(i) /\ ~run.streaming /\ ~NameTaken(i)
    /\ run' = Written(i, run.sheets[i])
    /\ UNCHANGED <<world, data, ghosts, status, interrupted, runs, faults, disk, redis, report>>

\* The rows of a generator are read as they are written.
WriteSheet(i) ==
    /\ Writing(i) /\ run.streaming /\ ~NameTaken(i)
    /\ LET sheet == run.sheets[i]
           s == sheet.item.section
           rows == IF FromSpool(i) THEN run.shared ELSE Events(Query(s))
       IN /\ sheet.read \/ FromSpool(i) \/ Allowed(Query(s))
          /\ run' = Written(i, IF sheet.read THEN sheet ELSE Filled(sheet, KeptRows(s, rows)))
    /\ disk' = IF format = "CSV" THEN disk \cup {<<"csv", runs, i>>} ELSE disk
    /\ UNCHANGED <<world, data, ghosts, status, interrupted, runs, faults, redis, report>>

Files == {f \in disk : f[2] = runs}
Spools == {f \in Files : f[1] = "spool"}
Forgotten == [k \in DOMAIN redis \ run.keys |-> redis[k]]

\* Mutant of Fail: spools are removed only after a run without an exception.
FailKeepingSpools(left) ==
    /\ status' = "FAILED" /\ run' = NoRun /\ redis' = Forgotten
    /\ disk' = (disk \ (Files \ Spools)) \cup left
    /\ excused' = excused \cup left
    /\ UNCHANGED <<world, data, floor, interrupted, runs, report>>

\* Whatever is raised ends the run.  A CSV whose rows raise is not yet in temp_paths
\* and is left on disk.
Fail(left) ==
    /\ status' = "FAILED" /\ run' = NoRun /\ redis' = Forgotten
    /\ disk' = (disk \ Files) \cup left
    /\ excused' = excused \cup left
    /\ UNCHANGED <<world, data, floor, interrupted, runs, report>>

\* A service fails, no agent is found, a widget has lost its configuration, or a
\* retrieval finds the report not in progress.
Raise ==
    /\ Fault \/ (status # "IN_PROGRESS" /\ UNCHANGED faults)
    /\ \/ run.step = "share" /\ (Spooled \/ ~run.streaming) /\ Fail({})
       \/ (\E item \in run.todo : Building(item) /\ item.section # "RESOLUTIONS") /\ Fail({})
       \/ \E i \in 1..Len(run.sheets) :
             /\ Writing(i) /\ ~run.sheets[i].read /\ ~FromSpool(i) /\ ~NameTaken(i)
             /\ Fail(IF format = "CSV" THEN {<<"csv", runs, i>>} ELSE {})

\* The page limit of a survey is reached.
WalkTooLong(item) ==
    /\ Building(item) /\ item.section \in Surveys /\ Key(item.section) \notin DOMAIN redis
    /\ run.walk.page >= PageLimit
    /\ Fail({}) /\ UNCHANGED faults

\* add_worksheet raises.
NameRefused(i) ==
    Writing(i) /\ NameTaken(i) /\ Fail({}) /\ UNCHANGED faults

\* The files are complete.  The mark of an interruption is looked at before the mail.
Conclude ==
    /\ run.step = "write" /\ run.written = Len(run.sheets)
    /\ IF interrupted
       THEN run' = NoRun /\ excused' = excused \cup (Files \ Spools)
       ELSE run' = [run EXCEPT !.step = "mail"] /\ UNCHANGED excused
    /\ disk' = disk \ Spools
    /\ UNCHANGED <<world, data, floor, status, interrupted, runs, faults, redis, report>>

\* zip_files and upload_file_to_s3 remove what they have read; send_email raises nothing.
Mail ==
    /\ run.step = "mail"
    /\ disk' = disk \ Files
    /\ status' = "READY" /\ report' = run.sheets
    /\ run' = NoRun /\ redis' = Forgotten
    /\ UNCHANGED <<world, data, ghosts, interrupted, runs, faults>>

-----------------------------------------------------------------------------
BuildStep(item) ==
    \/ BuildLazy(item) \/ BuildList(item) \/ BuildSummary(item)
    \/ WalkPage(item) \/ EndWalk(item) \/ WalkTooLong(item)

Next ==
    \/ \E f \in facts : Record(f)
    \/ \E c \in DOMAIN docs : RunFlow(c)
    \/ \E w \in live : DeleteWidget(w)
    \/ Interrupt \/ Sweep \/ Die \/ Raise
    \/ \E k \in DOMAIN redis : Expire(k)
    \/ Begin \/ Share
    \/ \E item \in run.todo : BuildStep(item)
    \/ ListWidgets \/ StartWriting
    \/ \E i \in 1..Len(run.sheets) : WriteInMemory(i) \/ WriteSheet(i) \/ NameRefused(i)
    \/ Conclude \/ Mail

Spec == Init /\ [][Next]_vars

-----------------------------------------------------------------------------
(* Properties.                                                             *)

TypeOK ==
    /\ plan \in Plans /\ format \in {"XLSX", "CSV"} /\ facts \in FactSets[plan]
    /\ lake \in [facts -> Nat] /\ floor \in [facts -> Nat]
    /\ live \subseteq 1..Len(plan.widgets) /\ unmoved \subseteq DOMAIN docs
    /\ status \in {"PENDING", "IN_PROGRESS", "READY", "FAILED"} /\ interrupted \in BOOLEAN
    /\ runs \in 0..MaxRuns /\ faults \in 0..MaxFaults
    /\ run.step \in {"idle", "share", "build", "widgets", "write", "mail"}
    /\ run.written \in 0..Len(run.sheets)
    /\ \A i \in 1..run.written : run.sheets[i].read
    /\ format = "XLSX" => Cardinality(run.names) = run.written
    /\ disk \subseteq {"spool", "xlsx", "csv"} \X (1..MaxRuns) \X Nat

Sheets(kind, s) == {i \in 1..Len(report) : report[i].kind = kind /\ report[i].item.section = s}

\* The worksheets made of the classification events agree, although events are
\* recorded while they are written: the contacts of Resolutions, and those only but
\* for events whose metadata is no JSON, are in Unique contacts, and those with two
\* events are in Returning contacts (_ReplayableDatalakeEventsSpool).
SheetsAgree ==
    \A i \in Sheets("events", "RESOLUTIONS"), j \in Sheets("unique", "CONTACTS"),
      k \in Sheets("returning", "CONTACTS") :
        /\ Urns(report[i].rows, 1) \subseteq report[j].urns
        /\ Urns(report[i].rows, 2) \subseteq report[k].urns
        /\ report[j].urns \ Urns(report[i].rows, 1) \subseteq {f.urn : f \in {g \in facts : g.kind = "odd"}}
        /\ report[k].urns \subseteq report[j].urns

\* A list has every event there was when the report was first run, and none of
\* another agent, type or kind.
ListComplete(s, rows) ==
    /\ DOMAIN rows = {f \in facts : Answers(Query(s), f) /\ (s \in DropsOdd => f.kind # "odd")}
    /\ \A f \in DOMAIN rows : floor[f] <= rows[f] /\ rows[f] <= lake[f]

\* A survey has the last answer of each contact once, of those who have not answered
\* again meanwhile, and nobody twice.
SurveyComplete(s, rows) ==
    /\ \A f \in DOMAIN rows : rows[f] = 1 /\ Included(s, f.kind)
    /\ \A f, g \in DOMAIN rows : f.urn = g.urn => f = g
    /\ \A c \in unmoved : Included(s, docs[c].answer) /\ docs[c].answer # "blank" =>
                             Doc(c, Query(s).key) \in DOMAIN rows

\* The contacts have every one who had the events, and none who has not.
ContactsComplete(least, urns) ==
    LET classified(rows) == [f \in {g \in facts : Answers(ClassificationQuery, g)} |-> rows[f]]
    IN Urns(classified(floor), least) \subseteq urns /\ urns \subseteq Urns(classified(lake), least)

Answered(s) ==
    \/ \E i \in Sheets("events", s) : ListComplete(s, report[i].rows)
    \/ \E i \in Sheets("survey", s) : SurveyComplete(s, report[i].rows)
    \/ \E i \in Sheets("summary", s) : TRUE
    \/ \E i \in Sheets("unique", s), j \in Sheets("returning", s) :
          ContactsComplete(1, report[i].urns) /\ ContactsComplete(2, report[j].urns)

\* Both surveys ask the same flow: one takes the results that the other has cached,
\* with the answers off its scale or without those off the other's.
OneFlow == flow["CSAT_HUMAN"] = flow["NPS_HUMAN"]

\* Of the widgets whose names begin alike, two repeat a name, and one of the two a name
\* of more than 27 characters; or more than twenty widgets have one name.
Titles == {<<s, NoRest, 0>> : s \in plan.sections \cup {"unique", "returning"}}
NamesClash ==
    LET name(w) == plan.widgets[w].name
        named(n) == {w \in 1..Len(plan.widgets) : name(w) = n}
    IN \/ \E i, j \in 1..Len(plan.widgets) :
             /\ i # j /\ name(i)[1] = name(j)[1] /\ name(i)[2] # NoRest /\ named(name(i)) # {i}
             /\ name(j) \in Titles \/ named(name(j)) \ {i, j} # {}
       \/ \E w \in 1..Len(plan.widgets) : Cardinality(named(name(w))) > 20

\* The answers of a survey, and the page that must be empty, are on pages before the limit.
TooManyAnswers ==
    Cardinality(DOMAIN docs) > (PageLimit - 2) * PageSize

\* A report fails by itself only when a survey is longer than its page limit or when
\* names clash once they are cut (ensure_unique_worksheet_name).
FailsForACause ==
    (Ended /\ faults = 0 /\ ~NamesClash /\ ~TooManyAnswers) => status = "READY"

\* A ready report has a worksheet for each section asked for and each widget that still
\* exists, with what it should have.
EachAnswered ==
    status = "READY" =>
        /\ \A s \in plan.sections :
              \/ Answered(s) \/ (s \in Surveys /\ OneFlow)
              \/ s = "RESOLUTIONS" /\ \A f \in facts : Answers(Query(s), f) => floor[f] = 0
        /\ \A w \in live : \E i \in 1..Len(report) :
              /\ report[i].item = Item(plan.widgets[w].kind, w)
              /\ report[i].kind = "events" => ListComplete("custom", report[i].rows)

\* A report that ended without any fault is ready, and a ready one answers what was asked.
SectionsAnswered == FailsForACause /\ EachAnswered

\* No spool and no file stays on the disk of a worker, except those of a run that was
\* interrupted or killed, and a CSV whose rows raised while it was written.
DiskIsClean == run.step = "idle" => disk \subseteq excused

\* A ready report leaves nothing in redis if it was run once; the results of its
\* surveys, which both modes keep, not even if an earlier run that was cut short had
\* kept them (_add_cache_key, _clear_cache_keys).
ResultsDropped ==
    status = "READY" =>
        /\ runs = 1 => redis = NoRows
        /\ \A s \in plan.sections \cap Surveys : Key(s) \notin DOMAIN redis
=============================================================================
