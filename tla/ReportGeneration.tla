-------------------------- MODULE ReportGeneration --------------------------
(***************************************************************************)
(* The life of the conversations reports: the rows of the Report table,   *)
(* the HTTP handler that queues them, the celery pool processes ("slots")  *)
(* that run generate_conversations_report and timeout_reports, and the     *)
(* shutdown handler that a pod runs when it is told to stop.               *)
(*                                                                         *)
(* Every query and every save is a step of its own, so a slot works on the *)
(* copy of the row it read (mem) while other processes change the row.     *)
(* Time passes in ticks; a task older than TaskTimeLimit is killed by      *)
(* celery, a report in progress for more than ReportTimeout is timed out.  *)
(***************************************************************************)
EXTENDS Integers, FiniteSets

CONSTANTS
    Hosts,          \* pods, named by settings.HOSTNAME
    Slots,          \* pool processes of all the pods
    HostOf,         \* the pod of each slot
    NoHost,         \* the JSON null of config.interrupted_on_host
    Projects,
    NoProject,      \* the project of a row not inserted yet
    Web,            \* web processes serving POST
    MaxReports,     \* bound: rows of the table, numbered by created_on
    Orphans,        \* reports whose requested_by was deleted (SET_NULL)
    MaxConcurrent,  \* REPORT_GENERATION_MAX_CONCURRENT_REPORTS
    TaskTimeLimit,  \* CELERY_TASK_TIME_LIMIT, in ticks
    ReportTimeout,  \* REPORT_GENERATION_TIMEOUT, in ticks
    MaxStops,       \* bound: pods stopped or lost in a behaviour
    MailCap         \* bound: the e-mail counters stop counting here

Reports == 1..MaxReports

ASSUME HostsAssumption == HostOf \in [Slots -> Hosts] /\ NoHost \notin Hosts
ASSUME ProjectsAssumption == NoProject \notin Projects
ASSUME BoundsAssumption ==
    /\ MaxReports \in Nat /\ MaxStops \in Nat
    /\ MailCap \in Nat \ {0} /\ MaxConcurrent \in Nat \ {0}
ASSUME OrphansAssumption == Orphans \subseteq Reports
ASSUME TimeAssumption ==
    /\ TaskTimeLimit \in Nat \ {0} /\ ReportTimeout \in Nat
    /\ TaskTimeLimit < ReportTimeout

VARIABLES
    \* the Report table
    status, started, age, config, project, created,
    \* the celery slots
    pc, held, mem, taskAge, expiring, notifying,
    \* the pods and their shutdown handlers
    host, marks, stops,
    \* the web processes
    web,
    \* e-mails delivered
    readyMails, failMails

rowVars   == <<status, started, age, config>>
tableVars == <<rowVars, project, created>>
slotVars  == <<pc, held, mem, taskAge, expiring, notifying>>
hostVars  == <<host, marks, stops>>
mailVars  == <<readyMails, failMails>>
vars == <<tableVars, slotVars, hostVars, web, mailVars>>

-----------------------------------------------------------------------------
(* The Report row.                                                         *)

Statuses == {"NONE", "PENDING", "IN_PROGRESS", "READY", "FAILED"}

\* config.interrupted: the key is absent until the first shutdown.
Configs == [taskHost: Hosts \cup {NoHost},
            interrupted: {"absent", "true", "false"},
            interruptedOn: Hosts \cup {NoHost}]

\* The column is NULL until generate_conversations_report writes task_host.
NullConfig == [taskHost |-> NoHost, interrupted |-> "absent",
               interruptedOn |-> NoHost]

NoReport == 0
Rows == [status: Statuses, started: BOOLEAN, config: Configs]
NoRow == [status |-> "NONE", started |-> FALSE, config |-> NullConfig]
Row(r) == [status |-> status[r], started |-> started[r], config |-> config[r]]

Oldest(S) == CHOOSE r \in S : \A q \in S : r <= q
Newest(S) == CHOOSE r \in S : \A q \in S : q <= r

Active(r) == status[r] \in {"PENDING", "IN_PROGRESS"}
Terminal(r) == status[r] \in {"READY", "FAILED"}

\* Q(status=IN_PROGRESS) & ~Q(config__interrupted=True).  In SQL the negated
\* comparison with a missing JSON key is NULL, so a row whose config has no
\* "interrupted" key is not selected; a row whose config is NULL is.
Counted == {r \in Reports : /\ status[r] = "IN_PROGRESS"
                            /\ \/ config[r] = NullConfig
                               \/ config[r].interrupted = "false"}

\* Mutant of InterruptedElsewhere: a host resumes its own reports as well.
InterruptedAnywhere(h) == {r \in Reports : config[r].interrupted = "true"}

InterruptedElsewhere(h) ==
    {r \in Reports : /\ config[r].interrupted = "true"
                     /\ config[r].interruptedOn # h}

\* Mutant of Pending: a report that was claimed is not taken again.
PendingUnclaimed == {r \in Reports : status[r] = "PENDING" /\ config[r] = NullConfig}

Pending == {r \in Reports : status[r] = "PENDING"}

\* Mutant of TimedOut: the query forgets the status.
TimedOutAnyStatus == {r \in Reports : started[r] /\ age[r] > ReportTimeout}

TimedOut == {r \in Reports : /\ status[r] = "IN_PROGRESS"
                             /\ started[r]
                             /\ age[r] > ReportTimeout}

-----------------------------------------------------------------------------
(* The slots.                                                              *)

Steps == {"idle",                                   \* no task
          "interrupted", "pending", "claim",        \* generate_conversations_report
          "start", "fetch", "files",                \* generate, up to the files
          "settle", "mail", "ready",                \* generate, success
          "fail", "failMail",                       \* generate, except branch
          "expire", "notify"}                       \* timeout_reports

Running == {"fetch", "files", "settle", "mail", "ready", "fail", "failMail"}

Goto(w, step) == pc' = [pc EXCEPT ![w] = step]

\* The task of slot w is over, or killed: its memory is gone.
EndTask(W) ==
    /\ pc' = [w \in Slots |-> IF w \in W THEN "idle" ELSE pc[w]]
    /\ held' = [w \in Slots |-> IF w \in W THEN NoReport ELSE held[w]]
    /\ mem' = [w \in Slots |-> IF w \in W THEN NoRow ELSE mem[w]]
    /\ taskAge' = [w \in Slots |-> IF w \in W THEN 0 ELSE taskAge[w]]
    /\ expiring' = [w \in Slots |-> IF w \in W THEN {} ELSE expiring[w]]
    /\ notifying' = [w \in Slots |-> IF w \in W THEN {} ELSE notifying[w]]

\* A warm shutdown lets a slot finish its task and gives it no other.
CanTakeTask(w) == pc[w] = "idle" /\ host[HostOf[w]] = "up"

TypeOK ==
    /\ status \in [Reports -> Statuses]
    /\ started \in [Reports -> BOOLEAN]
    /\ age \in [Reports -> 0..(ReportTimeout + 1)]
    /\ config \in [Reports -> Configs]
    /\ project \in [Reports -> Projects \cup {NoProject}]
    /\ created \in 0..MaxReports
    /\ pc \in [Slots -> Steps]
    /\ held \in [Slots -> Reports \cup {NoReport}]
    /\ mem \in [Slots -> Rows]
    /\ taskAge \in [Slots -> 0..TaskTimeLimit]
    /\ expiring \in [Slots -> SUBSET Reports]
    /\ notifying \in [Slots -> SUBSET Reports]
    /\ host \in [Hosts -> {"up", "stopping", "down"}]
    /\ marks \in [Hosts -> SUBSET [report: Reports, config: Configs]]
    /\ stops \in 0..MaxStops
    /\ web \in [Web -> Projects \cup {NoProject}]
    /\ readyMails \in [Reports -> 0..MailCap]
    /\ failMails \in [Reports -> 0..MailCap]

Init ==
    /\ status = [r \in Reports |-> "NONE"]
    /\ started = [r \in Reports |-> FALSE]
    /\ age = [r \in Reports |-> 0]
    /\ config = [r \in Reports |-> NullConfig]
    /\ project = [r \in Reports |-> NoProject]
    /\ created = 0
    /\ pc = [w \in Slots |-> "idle"]
    /\ held = [w \in Slots |-> NoReport]
    /\ mem = [w \in Slots |-> NoRow]
    /\ taskAge = [w \in Slots |-> 0]
    /\ expiring = [w \in Slots |-> {}]
    /\ notifying = [w \in Slots |-> {}]
    /\ host = [h \in Hosts |-> "up"]
    /\ marks = [h \in Hosts |-> {}]
    /\ stops = 0
    /\ web = [p \in Web |-> NoProject]
    /\ readyMails = [r \in Reports |-> 0]
    /\ failMails = [r \in Reports |-> 0]

-----------------------------------------------------------------------------
(* POST: look for an active report of the project, then create one.        *)

ActiveReports(j) == {r \in Reports : project[r] = j /\ Active(r)}

\* Mutant of PostCheck: only the report being generated blocks a new one.
PostCheckRunningOnly(p, j) ==
    /\ web[p] = NoProject
    /\ \A r \in ActiveReports(j) : status[r] = "PENDING"
    /\ created < MaxReports
    /\ web' = [web EXCEPT ![p] = j]
    /\ UNCHANGED <<tableVars, slotVars, hostVars, mailVars>>

PostCheck(p, j) ==
    /\ web[p] = NoProject
    /\ ActiveReports(j) = {}
    /\ created < MaxReports
    /\ web' = [web EXCEPT ![p] = j]
    /\ UNCHANGED <<tableVars, slotVars, hostVars, mailVars>>

\* request_generation; created_on is taken just before the insert.
PostCreate(p) ==
    /\ web[p] # NoProject
    /\ created < MaxReports
    /\ created' = created + 1
    /\ status' = [status EXCEPT ![created + 1] = "PENDING"]
    /\ project' = [project EXCEPT ![created + 1] = web[p]]
    /\ web' = [web EXCEPT ![p] = NoProject]
    /\ UNCHANGED <<started, age, config, slotVars, hostVars, mailVars>>

-----------------------------------------------------------------------------
(* generate_conversations_report                                           *)

\* The count of the reports in progress.  A task that finds the limit reached
\* returns having changed nothing.
CheckConcurrency(w) ==
    /\ CanTakeTask(w)
    /\ Cardinality(Counted) < MaxConcurrent
    /\ Goto(w, "interrupted")
    /\ UNCHANGED <<tableVars, held, mem, taskAge, expiring, notifying,
                   hostVars, web, mailVars>>

Take(w, S) ==
    /\ held' = [held EXCEPT ![w] = Oldest(S)]
    /\ mem' = [mem EXCEPT ![w] = Row(Oldest(S))]
    /\ Goto(w, "claim")
    /\ UNCHANGED <<tableVars, taskAge, expiring, notifying, hostVars, web, mailVars>>

SelectInterrupted(w) ==
    /\ pc[w] = "interrupted"
    /\ LET found == InterruptedElsewhere(HostOf[w]) IN
       \/ found # {} /\ Take(w, found)
       \/ /\ found = {}
          /\ Goto(w, "pending")
          /\ UNCHANGED <<tableVars, held, mem, taskAge, expiring, notifying,
                         hostVars, web, mailVars>>

\* Mutant of SelectPending: without order_by, the model's order is newest first.
SelectPendingNewest(w) ==
    /\ pc[w] = "pending"
    /\ \/ Pending # {} /\ Take(w, {Newest(Pending)})
       \/ /\ Pending = {}
          /\ EndTask({w})
          /\ UNCHANGED <<tableVars, hostVars, web, mailVars>>

SelectPending(w) ==
    /\ pc[w] = "pending"
    /\ \/ Pending # {} /\ Take(w, Pending)
       \/ /\ Pending = {}
          /\ EndTask({w})
          /\ UNCHANGED <<tableVars, hostVars, web, mailVars>>

\* Mutants of ClaimedConfig: the host is not recorded; the mark is kept; the
\* host of the interruption is emptied instead of nulled.
ClaimedWithoutHost(c, h) ==
    IF c.interrupted = "true"
    THEN [c EXCEPT !.interrupted = "false", !.interruptedOn = NoHost] ELSE c
ClaimedKeepsMark(c, h) == [c EXCEPT !.taskHost = h]
\* config["task_host"] = host on the copy of the config the task read.
ClaimedConfig(c, h) ==
    IF c.interrupted = "true"
    THEN [taskHost |-> h, interrupted |-> "false", interruptedOn |-> NoHost]
    ELSE [c EXCEPT !.taskHost = h]

Claim(w) ==
    /\ pc[w] = "claim"
    /\ config' = [config EXCEPT ![held[w]] = ClaimedConfig(mem[w].config, HostOf[w])]
    /\ Goto(w, "start")
    /\ UNCHANGED <<status, started, age, project, created, held, mem, taskAge,
                   expiring, notifying, hostVars, web, mailVars>>

-----------------------------------------------------------------------------
(* ConversationsReportService.generate                                     *)

\* Mutant of StartRun: started_at is left for the end of the run.
StartRunWithoutTime(w) ==
    /\ pc[w] = "start"
    /\ status' = IF mem[w].status = "PENDING"
                 THEN [status EXCEPT ![held[w]] = "IN_PROGRESS"] ELSE status
    /\ Goto(w, "fetch")
    /\ UNCHANGED <<started, age, config, project, created, held, mem, taskAge,
                   expiring, notifying, hostVars, web, mailVars>>

\* _update_report_status, on the status and started_at the task read.
StartRun(w) ==
    /\ pc[w] = "start"
    /\ LET r == held[w] IN
       /\ status' = IF mem[w].status = "PENDING"
                    THEN [status EXCEPT ![r] = "IN_PROGRESS"] ELSE status
       /\ IF mem[w].started
          THEN UNCHANGED <<started, age>>
          ELSE /\ started' = [started EXCEPT ![r] = TRUE]
               /\ age' = [age EXCEPT ![r] = 0]
    /\ Goto(w, "fetch")
    /\ UNCHANGED <<config, project, created, held, mem, taskAge, expiring,
                   notifying, hostVars, web, mailVars>>

\* A step of the task that writes nothing.
Move(w, from, to) ==
    /\ pc[w] = from
    /\ Goto(w, to)
    /\ UNCHANGED <<tableVars, held, mem, taskAge, expiring, notifying,
                   hostVars, web, mailVars>>

\* The paging loops read the status again before a page and raise unless it is
\* IN_PROGRESS.
FetchPages(w) ==
    Move(w, "fetch", IF status[held[w]] = "IN_PROGRESS" THEN "files" ELSE "fail")

\* Events cached by an earlier run of the report, a count of zero, sections
\* without events: no page is fetched and the status is not read.
FetchNothing(w) == Move(w, "fetch", "files")

\* The dates, a client, the page limit or a file processor raised.
BuildFails(w) == \E from \in {"fetch", "files"} : Move(w, from, "fail")

ProcessFiles(w) == Move(w, "files", "settle")

\* The except branch saves the failure, then sends the error e-mail.
SaveFailed(w) ==
    /\ pc[w] = "fail"
    /\ status' = [status EXCEPT ![held[w]] = "FAILED"]
    /\ Goto(w, "failMail")
    /\ UNCHANGED <<started, age, config, project, created, held, mem, taskAge,
                   expiring, notifying, hostVars, web, mailVars>>

Count(mails, r) == [mails EXCEPT ![r] = IF @ < MailCap THEN @ + 1 ELSE @]

\* send_email delivers, or logs the exception and returns.  Without a
\* requester the logging itself raises: nothing is delivered either.
DeliverError(r) ==
    \/ r \notin Orphans /\ failMails' = Count(failMails, r)
    \/ UNCHANGED failMails

SendError(w) ==
    /\ pc[w] = "failMail"
    /\ DeliverError(held[w])
    /\ EndTask({w})
    /\ UNCHANGED <<tableVars, hostVars, web, readyMails>>

\* refresh_from_db(fields=["config"]): an interrupted run stops here.  Without
\* a requester the log line before the e-mail raises.
SettleInterruption(w) ==
    /\ pc[w] = "settle"
    /\ IF config[held[w]].interrupted = "true" \/ held[w] \in Orphans
       THEN EndTask({w})
       ELSE /\ Goto(w, "mail")
            /\ UNCHANGED <<held, mem, taskAge, expiring, notifying>>
    /\ UNCHANGED <<tableVars, hostVars, web, mailVars>>

SendReady(w) ==
    /\ pc[w] = "mail"
    /\ \/ readyMails' = Count(readyMails, held[w])
       \/ UNCHANGED readyMails
    /\ Goto(w, "ready")
    /\ UNCHANGED <<tableVars, held, mem, taskAge, expiring, notifying,
                   hostVars, web, failMails>>

SaveReady(w) ==
    /\ pc[w] = "ready"
    /\ status' = [status EXCEPT ![held[w]] = "READY"]
    /\ EndTask({w})
    /\ UNCHANGED <<started, age, config, project, created, hostVars, web, mailVars>>

-----------------------------------------------------------------------------
(* timeout_reports                                                         *)

ListTimedOut(w) ==
    /\ CanTakeTask(w)
    /\ TimedOut # {}
    /\ expiring' = [expiring EXCEPT ![w] = TimedOut]
    /\ notifying' = [notifying EXCEPT ![w] = TimedOut]
    /\ Goto(w, "expire")
    /\ UNCHANGED <<tableVars, held, mem, taskAge, hostVars, web, mailVars>>

\* The list keeps the order of the model: newest first.
Expire(w) ==
    /\ pc[w] = "expire"
    /\ LET r == Newest(expiring[w]) IN
       /\ status' = [status EXCEPT ![r] = "FAILED"]
       /\ expiring' = [expiring EXCEPT ![w] = @ \ {r}]
       /\ Goto(w, IF expiring[w] = {r} THEN "notify" ELSE "expire")
    /\ UNCHANGED <<started, age, config, project, created, held, mem, taskAge,
                   notifying, hostVars, web, mailVars>>

\* A report without requester makes send_email raise, which ends the task.
NotifyTimeout(w) ==
    /\ pc[w] = "notify"
    /\ LET r == Newest(notifying[w]) IN
       /\ DeliverError(r)
       /\ IF r \in Orphans \/ notifying[w] = {r}
          THEN EndTask({w})
          ELSE /\ notifying' = [notifying EXCEPT ![w] = @ \ {r}]
               /\ UNCHANGED <<pc, held, mem, taskAge, expiring>>
    /\ UNCHANGED <<tableVars, hostVars, web, readyMails>>

-----------------------------------------------------------------------------
(* Time, and celery's hard limit on a task.                                *)

\* Mutant of Tick: no hard limit, a task may run on for ever.
TickWithoutLimit ==
    /\ taskAge' = [w \in Slots |-> IF pc[w] = "idle" \/ taskAge[w] = TaskTimeLimit
                                   THEN taskAge[w] ELSE taskAge[w] + 1]
    /\ age' = [r \in Reports |-> IF started[r] /\ age[r] <= ReportTimeout
                                 THEN age[r] + 1 ELSE age[r]]
    /\ UNCHANGED <<status, started, config, project, created, pc, held, mem,
                   expiring, notifying, hostVars, web, mailVars>>

Tick ==
    /\ \A w \in Slots : pc[w] # "idle" => taskAge[w] < TaskTimeLimit
    /\ \/ \E w \in Slots : pc[w] # "idle"
       \/ \E r \in Reports : started[r] /\ age[r] <= ReportTimeout
    /\ taskAge' = [w \in Slots |-> IF pc[w] = "idle" THEN taskAge[w] ELSE taskAge[w] + 1]
    /\ age' = [r \in Reports |-> IF started[r] /\ age[r] <= ReportTimeout
                                 THEN age[r] + 1 ELSE age[r]]
    /\ UNCHANGED <<status, started, config, project, created, pc, held, mem,
                   expiring, notifying, hostVars, web, mailVars>>

KillTask(w) ==
    /\ pc[w] # "idle"
    /\ taskAge[w] = TaskTimeLimit
    /\ EndTask({w})
    /\ UNCHANGED <<tableVars, hostVars, web, mailVars>>

-----------------------------------------------------------------------------
(* Pods.                                                                   *)

SlotsOf(h) == {w \in Slots : HostOf[w] = h}

\* graceful_shutdown_handler: the rows in progress that name this host, with
\* the copy of their config; it saves them one by one.
BeginShutdown(h) ==
    /\ host[h] = "up"
    /\ stops < MaxStops
    /\ stops' = stops + 1
    /\ host' = [host EXCEPT ![h] = "stopping"]
    /\ LET mine == {r \in Reports : /\ status[r] = "IN_PROGRESS"
                                    /\ config[r].taskHost = h} IN
       marks' = [marks EXCEPT ![h] = {[report |-> r, config |-> config[r]] : r \in mine}]
    /\ UNCHANGED <<tableVars, slotVars, web, mailVars>>

InterruptedConfig(c, h) == [c EXCEPT !.interrupted = "true", !.interruptedOn = h]

MarkInterrupted(h) ==
    \E m \in marks[h] :
        /\ \A n \in marks[h] : n.report <= m.report
        /\ config' = [config EXCEPT ![m.report] = InterruptedConfig(m.config, h)]
        /\ marks' = [marks EXCEPT ![h] = @ \ {m}]
        /\ UNCHANGED <<status, started, age, project, created, slotVars, host,
                       stops, web, mailVars>>

\* The pod is gone, with its tasks and its handler wherever they were.
StopPod(h) ==
    /\ host' = [host EXCEPT ![h] = "down"]
    /\ marks' = [marks EXCEPT ![h] = {}]
    /\ EndTask(SlotsOf(h))
    /\ UNCHANGED <<tableVars, web, mailVars>>

EndShutdown(h) == host[h] = "stopping" /\ StopPod(h) /\ UNCHANGED stops

Crash(h) == host[h] = "up" /\ stops < MaxStops /\ stops' = stops + 1 /\ StopPod(h)

Restart(h) ==
    /\ host[h] = "down"
    /\ host' = [host EXCEPT ![h] = "up"]
    /\ UNCHANGED <<tableVars, slotVars, marks, stops, web, mailVars>>

-----------------------------------------------------------------------------

\* Steps that last as long as a database round trip.
Query(w) == SelectInterrupted(w) \/ SelectPending(w) \/ Claim(w) \/ StartRun(w)

\* Steps that wait for other services.
Build(w) == FetchPages(w) \/ FetchNothing(w) \/ ProcessFiles(w) \/ BuildFails(w)

Conclude(w) ==
    \/ SettleInterruption(w) \/ SendReady(w) \/ SaveReady(w)
    \/ SaveFailed(w) \/ SendError(w)

TimeOut(w) == Expire(w) \/ NotifyTimeout(w)

TaskStep(w) ==
    \/ CheckConcurrency(w) \/ Query(w) \/ Build(w) \/ Conclude(w)
    \/ ListTimedOut(w) \/ TimeOut(w)

PodStep(h) ==
    BeginShutdown(h) \/ MarkInterrupted(h) \/ EndShutdown(h) \/ Crash(h) \/ Restart(h)

WebStep(p) == PostCreate(p) \/ \E j \in Projects : PostCheck(p, j)

Next ==
    \/ \E w \in Slots : TaskStep(w) \/ KillTask(w)
    \/ \E h \in Hosts : PodStep(h)
    \/ \E p \in Web : WebStep(p)
    \/ Tick

Spec == Init /\ [][Next]_vars

=============================================================================
