-------------------------- MODULE ProjectOnboarding --------------------------
(***************************************************************************)
(* How a project enters insights: the message that creates it, the celery  *)
(* tasks that give it its conversations dashboard and put it in the queue  *)
(* of the indexer, the hourly task that works through that queue, and the  *)
(* requests that list dashboards or release a project by hand.             *)
(*                                                                         *)
(* Every query, save, enqueuing and call of another service is a step.     *)
(* The settings are those of a deployment that uses the indexer:           *)
(* CONVERSATIONS_DASHBOARD_REQUIRES_INDEXER_ACTIVATION and                 *)
(* INDEXER_AUTOMATIC_ACTIVATION are on, PROJECT_ALLOW_LIST is empty.       *)
(***************************************************************************)
EXTENDS Integers, Sequences, FiniteSets

CONSTANTS
    Projects,
    NoProject,
    Multi,        \* projects for which Nexus answers that multi agents are active
    Consumers,    \* processes that read a queue of creation messages
    Workers,      \* celery slots
    Releasers,    \* web processes serving release_flows_dashboard
    Limit,        \* INDEXER_AUTOMATIC_ACTIVATION_LIMIT
    Retries,      \* INDEXER_AUTOMATIC_ACTIVATION_RETRIES
    MaxRows,      \* bound: unfinished activations of one project
    QueueCap,     \* bound: copies of a task in the celery queue
    MaxReleases,  \* bound: releases begun
    MaxFaults,    \* bound: steps that raise, processes that die
    MaxTroubles   \* bound: releases and faults together, a release that dies counting once

ASSUME ProjectsAssumption ==
    NoProject \notin Projects /\ Multi \subseteq Projects
ASSUME BoundsAssumption ==
    /\ Limit \in Nat \ {0} /\ Retries \in Nat \ {0}
    /\ MaxRows \in Nat \ {0} /\ QueueCap \in Nat \ {0}
    /\ MaxReleases \in Nat /\ MaxFaults \in Nat /\ MaxTroubles \in Nat

VARIABLES
    \* the database
    row,        \* columns of each Project
    human,      \* projects with their human support dashboard
    conv,       \* number of conversations dashboards of each project
    granted,    \* projects with the authorizations of their message
    queue,      \* the unfinished activations, by created_on
    \* the broker and the consumers
    switched,   \* projects whose message has the inline agent switch on
    inbox,      \* messages not acknowledged, of each consumer's queue
    step, at,   \* of each consumer: what it does, for which project
    acked,      \* projects whose message was acknowledged
    \* celery
    tasks,      \* copies of each task in the queue
    job,        \* the task of each slot
    run,        \* the activate_indexer task
    \* web processes
    release,    \* the release each is serving
    releases,   \* releases begun so far
    abandoned,  \* projects of releases that died half way
    \* others
    cache,      \* the answer of Nexus in redis
    accepted,   \* projects the indexer's webhook has accepted
    faults

projectVars  == <<row, human, conv, granted>>
consumerVars == <<switched, inbox, step, at, acked>>
releaseVars  == <<release, releases, abandoned>>
vars == <<projectVars, queue, consumerVars, tasks, job, run, releaseVars, cache,
          accepted, faults>>

Kinds == {"conversations", "switch", "nexus"}
Rows == [exists: BOOLEAN, active: BOOLEAN, allowed: BOOLEAN]
NoRow == [exists |-> FALSE, active |-> FALSE, allowed |-> FALSE]
Activations == [project: Projects, status: {"PENDING", "FAILED"}]

NoJob == [kind |-> "none", project |-> NoProject, step |-> "idle", allowed |-> FALSE]
NoRun == [step |-> "idle", cursor |-> 1, left |-> 0, attempts |-> 0]
NoRelease == [step |-> "idle", project |-> NoProject, row |-> NoRow]

TypeOK ==
    /\ row \in [Projects -> Rows]
    /\ human \subseteq Projects /\ granted \subseteq Projects /\ acked \subseteq Projects
    /\ conv \in [Projects -> 0..2]
    /\ queue \in Seq(Activations)
    /\ switched \subseteq Projects
    /\ inbox \in [Consumers -> SUBSET Projects]
    /\ step \in [Consumers -> {"idle", "row", "human", "conversations", "switch", "auths", "ack"}]
    /\ at \in [Consumers -> Projects \cup {NoProject}]
    /\ tasks \in [Kinds \X Projects -> 0..QueueCap]
    /\ job \in [Workers -> [kind: Kinds \cup {"none"}, project: Projects \cup {NoProject},
                            step: {"idle", "read", "ask", "activate", "check", "create",
                                   "look", "get", "insert"},
                            allowed: BOOLEAN]]
    /\ run \in [step: {"idle", "post", "allow", "finish"}, cursor: Nat, left: 0..Limit,
                attempts: 0..Retries]
    /\ release \in [Releasers -> [step: {"idle", "save", "post", "restore"},
                                  project: Projects \cup {NoProject}, row: Rows]]
    /\ releases \in 0..MaxReleases /\ faults \in 0..MaxFaults
    /\ abandoned \subseteq Projects /\ accepted \subseteq Projects
    /\ cache \in [Projects -> {"none", "True", "False"}]

Init ==
    /\ row = [p \in Projects |-> NoRow]
    /\ human = {} /\ granted = {} /\ acked = {}
    /\ conv = [p \in Projects |-> 0]
    /\ queue = <<>>
    /\ switched \in SUBSET Projects
    /\ inbox = [c \in Consumers |-> Projects]
    /\ step = [c \in Consumers |-> "idle"]
    /\ at = [c \in Consumers |-> NoProject]
    /\ tasks = [t \in Kinds \X Projects |-> 0]
    /\ job = [w \in Workers |-> NoJob]
    /\ run = NoRun
    /\ release = [r \in Releasers |-> NoRelease]
    /\ releases = 0 /\ abandoned = {} /\ accepted = {} /\ faults = 0
    /\ cache = [p \in Projects |-> "none"]

\* task.delay(project.uuid)
Delay(kind, p) ==
    tasks' = [tasks EXCEPT ![<<kind, p>>] = IF @ < QueueCap THEN @ + 1 ELSE @]

Fault ==
    /\ faults < MaxFaults /\ releases + faults < MaxTroubles
    /\ faults' = faults + 1

-----------------------------------------------------------------------------
(* The creation message.                                                   *)

Deliver(c) ==
    /\ step[c] = "idle"
    /\ \E p \in inbox[c] : at' = [at EXCEPT ![c] = p]
    /\ step' = [step EXCEPT ![c] = "row"]
    /\ UNCHANGED <<switched, projectVars, queue, inbox, acked, tasks, job, run, releaseVars, cache,
                   accepted, faults>>

\* The message leaves the queue, acknowledged or rejected without requeue.
Settle(c) ==
    /\ inbox' = [inbox EXCEPT ![c] = @ \ {at[c]}]
    /\ at' = [at EXCEPT ![c] = NoProject]
    /\ step' = [step EXCEPT ![c] = "idle"]

Goto(c, from, to) == step[c] = from /\ step' = [step EXCEPT ![c] = to]

\* A second message for the same project meets a duplicate key.
CreateProject(c) ==
    /\ step[c] = "row"
    /\ \/ /\ ~row[at[c]].exists
          /\ Goto(c, "row", "human")
          /\ row' = [row EXCEPT ![at[c]] = [exists |-> TRUE, active |-> at[c] \in switched,
                                            allowed |-> FALSE]]
          /\ UNCHANGED <<inbox, at>>
       \/ /\ row[at[c]].exists
          /\ Settle(c)
          /\ UNCHANGED row
    /\ UNCHANGED <<switched, human, conv, granted, queue, acked, tasks, job, run, releaseVars, cache,
                   accepted, faults>>

CreateHuman(c) ==
    /\ Goto(c, "human", "conversations")
    /\ human' = human \cup {at[c]}
    /\ UNCHANGED <<switched, row, conv, granted, queue, inbox, at, acked, tasks, job, run, releaseVars,
                   cache, accepted, faults>>

DelayConversations(c) ==
    /\ Goto(c, "conversations", IF at[c] \in switched THEN "switch" ELSE "auths")
    /\ Delay("conversations", at[c])
    /\ UNCHANGED <<switched, projectVars, queue, inbox, at, acked, job, run, releaseVars, cache,
                   accepted, faults>>

DelaySwitch(c) ==
    /\ Goto(c, "switch", "auths")
    /\ Delay("switch", at[c])
    /\ UNCHANGED <<switched, projectVars, queue, inbox, at, acked, job, run, releaseVars, cache,
                   accepted, faults>>

\* bulk_create(ignore_conflicts=True)
CreateAuths(c) ==
    /\ Goto(c, "auths", "ack")
    /\ granted' = granted \cup {at[c]}
    /\ UNCHANGED <<switched, row, human, conv, queue, inbox, at, acked, tasks, job, run, releaseVars,
                   cache, accepted, faults>>

Ack(c) ==
    /\ step[c] = "ack"
    /\ acked' = acked \cup {at[c]}
    /\ Settle(c)
    /\ UNCHANGED <<switched, projectVars, queue, tasks, job, run, releaseVars, cache, accepted, faults>>

\* Mutant of StepRaises: the message is acknowledged whatever happened.
StepRaisesAcked(c) ==
    /\ step[c] \notin {"idle", "ack"} /\ Fault
    /\ acked' = acked \cup {at[c]}
    /\ Settle(c)
    /\ UNCHANGED <<switched, projectVars, queue, tasks, job, run, releaseVars, cache, accepted>>

\* Any step may raise, which rejects the message and leaves what was done.
StepRaises(c) ==
    /\ step[c] \notin {"idle", "ack"} /\ Fault
    /\ Settle(c)
    /\ UNCHANGED <<switched, projectVars, queue, acked, tasks, job, run, releaseVars, cache, accepted>>

\* The connection or the process dies: the broker delivers the message again.
CrashConsumer(c) ==
    /\ step[c] # "idle" /\ Fault
    /\ step' = [step EXCEPT ![c] = "idle"]
    /\ at' = [at EXCEPT ![c] = NoProject]
    /\ UNCHANGED <<switched, projectVars, queue, inbox, acked, tasks, job, run, releaseVars, cache,
                   accepted>>

-----------------------------------------------------------------------------
(* GET of the dashboards of a project, which only enqueues.                *)

\* Mutant of List: only Nexus is asked.
ListAsksNexusOnly(p) ==
    /\ row[p].exists /\ ~row[p].active
    /\ Delay("nexus", p)
    /\ UNCHANGED <<projectVars, queue, consumerVars, job, run, releaseVars, cache, accepted,
                   faults>>

List(p) ==
    /\ row[p].exists
    /\ \/ ~row[p].active /\ Delay("nexus", p)
       \/ row[p].active /\ ~row[p].allowed /\ Delay("switch", p)
    /\ UNCHANGED <<projectVars, queue, consumerVars, job, run, releaseVars, cache, accepted,
                   faults>>

-----------------------------------------------------------------------------
(* The celery tasks of a project.                                          *)

StartTask(w, kind, p) ==
    /\ job[w] = NoJob
    /\ tasks[<<kind, p>>] > 0
    /\ tasks' = [tasks EXCEPT ![<<kind, p>>] = @ - 1]
    /\ job' = [job EXCEPT ![w] = [kind |-> kind, project |-> p, allowed |-> FALSE,
                                  step |-> IF kind = "conversations" THEN "get" ELSE "read"]]
    /\ UNCHANGED <<projectVars, queue, consumerVars, run, releaseVars, cache, accepted, faults>>

Advance(w, to) == job' = [job EXCEPT ![w].step = to]
EndJob(w) == job' = [job EXCEPT ![w] = NoJob]

\* Project.objects.get: the task of the switch wants multi agents active, that
\* of Nexus wants them inactive.
ReadProject(w) ==
    /\ job[w].step = "read"
    /\ LET r == row[job[w].project] IN
       IF r.active = (job[w].kind = "switch")
       THEN job' = [job EXCEPT ![w].allowed = r.allowed,
                              ![w].step = IF r.active THEN "check" ELSE "ask"]
       ELSE EndJob(w)
    /\ UNCHANGED <<projectVars, queue, consumerVars, tasks, run, releaseVars, cache, accepted,
                   faults>>

\* bool(cached_response): redis gives bytes back, and b"False" is true.
Truthy(cached) == cached # "none"

Text(answer) == IF answer THEN "True" ELSE "False"

\* UpdateNexusMultiAgentsStatusService.update, up to the saves.
AskNexus(w) ==
    /\ job[w].step = "ask"
    /\ LET p == job[w].project
           answer == Truthy(cache[p]) \/ p \in Multi
       IN /\ cache' = [cache EXCEPT ![p] = Text(answer)]
          /\ IF answer THEN Advance(w, "activate") ELSE EndJob(w)
    /\ UNCHANGED <<projectVars, queue, consumerVars, tasks, run, releaseVars, accepted, faults>>

\* The answer is an error.
NexusFails(w) ==
    /\ job[w].step = "ask"
    /\ cache[job[w].project] = "none"
    /\ EndJob(w)
    /\ UNCHANGED <<projectVars, queue, consumerVars, tasks, run, releaseVars, cache, accepted,
                   faults>>

SaveActive(w) ==
    /\ job[w].step = "activate"
    /\ row' = [row EXCEPT ![job[w].project].active = TRUE]
    /\ Advance(w, "check")
    /\ UNCHANGED <<human, conv, granted, queue, consumerVars, tasks, run, releaseVars, cache,
                   accepted, faults>>

\* is_project_queued
Queued(p) == \E i \in 1..Len(queue) : queue[i] = [project |-> p, status |-> "PENDING"]

RowsOf(p) == {i \in 1..Len(queue) : queue[i].project = p}

\* add_project_to_indexer_queue, on the is_allowed read before.
CheckQueue(w) ==
    /\ job[w].step = "check"
    /\ Advance(w, IF job[w].allowed \/ Queued(job[w].project) THEN "look" ELSE "create")
    /\ UNCHANGED <<projectVars, queue, consumerVars, tasks, run, releaseVars, cache, accepted,
                   faults>>

\* A row more than MaxRows would stand behind the others of its project and is
\* left out.
CreateActivation(w) ==
    /\ job[w].step = "create"
    /\ LET p == job[w].project IN
       queue' = IF Cardinality(RowsOf(p)) = MaxRows THEN queue
                ELSE Append(queue, [project |-> p, status |-> "PENDING"])
    /\ Advance(w, "look")
    /\ UNCHANGED <<projectVars, consumerVars, tasks, run, releaseVars, cache, accepted, faults>>

LookForDashboard(w) ==
    /\ job[w].step = "look"
    /\ LET p == job[w].project IN
       IF conv[p] = 0 THEN Delay("conversations", p) ELSE UNCHANGED tasks
    /\ EndJob(w)
    /\ UNCHANGED <<projectVars, queue, consumerVars, run, releaseVars, cache, accepted, faults>>

\* The look-ups of get_or_create and, since it found none, of Dashboard.save.
GetDashboard(w) ==
    /\ job[w].step = "get"
    /\ IF conv[job[w].project] = 0 THEN Advance(w, "insert") ELSE EndJob(w)
    /\ UNCHANGED <<projectVars, queue, consumerVars, tasks, run, releaseVars, cache, accepted,
                   faults>>

InsertDashboard(w) ==
    /\ job[w].step = "insert"
    /\ conv' = [conv EXCEPT ![job[w].project] = IF @ < 2 THEN @ + 1 ELSE @]
    /\ EndJob(w)
    /\ UNCHANGED <<row, human, granted, queue, consumerVars, tasks, run, releaseVars, cache,
                   accepted, faults>>

\* The task raises, is killed or its pod is lost: celery has acknowledged it.
LoseTask(w) ==
    /\ job[w] # NoJob /\ Fault
    /\ EndJob(w)
    /\ UNCHANGED <<projectVars, queue, consumerVars, tasks, run, releaseVars, cache, accepted>>

-----------------------------------------------------------------------------
(* activate_indexer, which beat queues once an hour and celery kills after *)
(* half an hour: one at a time.                                            *)

\* The Limit oldest activations; the cursor is the place of the current one.
StartRun ==
    /\ run = NoRun /\ queue # <<>>
    /\ run' = [step |-> "post", cursor |-> 1, attempts |-> 0,
               left |-> IF Len(queue) < Limit THEN Len(queue) ELSE Limit]
    /\ UNCHANGED <<projectVars, queue, consumerVars, tasks, job, releaseVars, cache, accepted,
                   faults>>

Current == queue[run.cursor].project

\* On to the next activation, if any.
NextActivation(cursor) ==
    run' = IF run.left = 1 THEN NoRun
           ELSE [step |-> "post", cursor |-> cursor, left |-> run.left - 1, attempts |-> 0]

MarkFailed == queue' = [queue EXCEPT ![run.cursor].status = "FAILED"]

PostAccepted ==
    /\ run.step = "post"
    /\ accepted' = accepted \cup {Current}
    /\ run' = [run EXCEPT !.step = "allow"]
    /\ UNCHANGED <<projectVars, queue, consumerVars, tasks, job, releaseVars, cache, faults>>

PostRefused ==
    /\ run.step = "post"
    /\ MarkFailed
    /\ IF run.attempts + 1 < Retries THEN run' = [run EXCEPT !.attempts = @ + 1]
       ELSE NextActivation(run.cursor + 1)
    /\ UNCHANGED <<projectVars, consumerVars, tasks, job, releaseVars, cache, accepted, faults>>

\* update_fields=["is_allowed"]
SaveAllowed ==
    /\ run.step = "allow"
    /\ row' = [row EXCEPT ![Current].allowed = TRUE]
    /\ run' = [run EXCEPT !.step = "finish"]
    /\ UNCHANGED <<human, conv, granted, queue, consumerVars, tasks, job, releaseVars, cache,
                   accepted, faults>>

\* The activation becomes SUCCESS: no query selects it any more.
SaveSuccess ==
    /\ run.step = "finish"
    /\ queue' = SubSeq(queue, 1, run.cursor - 1) \o SubSeq(queue, run.cursor + 1, Len(queue))
    /\ NextActivation(run.cursor)
    /\ UNCHANGED <<projectVars, consumerVars, tasks, job, releaseVars, cache, accepted, faults>>

\* The except branch of activate_indexer.
ActivationRaises ==
    /\ run # NoRun /\ Fault
    /\ MarkFailed
    /\ NextActivation(run.cursor + 1)
    /\ UNCHANGED <<projectVars, consumerVars, tasks, job, releaseVars, cache, accepted>>

LoseRun ==
    /\ run # NoRun /\ Fault
    /\ run' = NoRun
    /\ UNCHANGED <<projectVars, queue, consumerVars, tasks, job, releaseVars, cache, accepted>>

-----------------------------------------------------------------------------
(* release_flows_dashboard                                                 *)

BeginRelease(r) ==
    /\ release[r] = NoRelease
    /\ releases < MaxReleases /\ releases + faults < MaxTroubles
    /\ releases' = releases + 1
    /\ \E p \in Projects :
        /\ row[p].exists
        /\ release' = [release EXCEPT ![r] = [step |-> "save", project |-> p, row |-> row[p]]]
    /\ UNCHANGED <<projectVars, queue, consumerVars, tasks, job, run, abandoned, cache, accepted,
                   faults>>

\* project.save() writes every column, as they were read but for is_allowed.
SaveReleased(r) ==
    /\ release[r].step = "save"
    /\ row' = [row EXCEPT ![release[r].project] = [release[r].row EXCEPT !.allowed = TRUE]]
    /\ release' = [release EXCEPT ![r].step = "post"]
    /\ UNCHANGED <<human, conv, granted, queue, consumerVars, tasks, job, run, releases,
                   abandoned, cache, accepted, faults>>

ReleaseAccepted(r) ==
    /\ release[r].step = "post"
    /\ accepted' = accepted \cup {release[r].project}
    /\ release' = [release EXCEPT ![r] = NoRelease]
    /\ UNCHANGED <<projectVars, queue, consumerVars, tasks, job, run, releases, abandoned, cache,
                   faults>>

\* Mutant of ReleaseRefused: the request answers 500 and restores nothing.
ReleaseRefusedKept(r) ==
    /\ release[r].step = "post"
    /\ release' = [release EXCEPT ![r] = NoRelease]
    /\ UNCHANGED <<projectVars, queue, consumerVars, tasks, job, run, releases, abandoned, cache,
                   accepted, faults>>

ReleaseRefused(r) ==
    /\ release[r].step = "post"
    /\ release' = [release EXCEPT ![r].step = "restore"]
    /\ UNCHANGED <<projectVars, queue, consumerVars, tasks, job, run, releases, abandoned, cache,
                   accepted, faults>>

RestoreReleased(r) ==
    /\ release[r].step = "restore"
    /\ row' = [row EXCEPT ![release[r].project] = release[r].row]
    /\ release' = [release EXCEPT ![r] = NoRelease]
    /\ UNCHANGED <<human, conv, granted, queue, consumerVars, tasks, job, run, releases,
                   abandoned, cache, accepted, faults>>

\* The process dies, or the request never gets an answer: the post has no timeout.
AbandonRelease(r) ==
    /\ release[r] # NoRelease
    /\ faults < MaxFaults /\ faults' = faults + 1
    /\ abandoned' = abandoned \cup {release[r].project}
    /\ release' = [release EXCEPT ![r] = NoRelease]
    /\ UNCHANGED <<projectVars, queue, consumerVars, tasks, job, run, releases, cache, accepted>>

-----------------------------------------------------------------------------

\* nexus_multi_agents_status has a time to live of ten seconds.
ExpireCache(p) ==
    /\ cache[p] # "none"
    /\ cache' = [cache EXCEPT ![p] = "none"]
    /\ UNCHANGED <<projectVars, queue, consumerVars, tasks, job, run, releaseVars, accepted,
                   faults>>

Consume(c) ==
    \/ Deliver(c) \/ CreateProject(c) \/ CreateHuman(c) \/ DelayConversations(c)
    \/ DelaySwitch(c) \/ CreateAuths(c) \/ Ack(c)

TaskStep(w) ==
    \/ ReadProject(w) \/ AskNexus(w) \/ NexusFails(w) \/ SaveActive(w) \/ CheckQueue(w)
    \/ CreateActivation(w) \/ LookForDashboard(w) \/ GetDashboard(w) \/ InsertDashboard(w)

RunStep == PostAccepted \/ PostRefused \/ SaveAllowed \/ SaveSuccess

ReleaseStep(r) == SaveReleased(r) \/ ReleaseAccepted(r) \/ ReleaseRefused(r) \/ RestoreReleased(r)

Next ==
    \/ \E c \in Consumers : Consume(c) \/ StepRaises(c) \/ CrashConsumer(c)
    \/ \E w \in Workers : TaskStep(w) \/ LoseTask(w)
    \/ \E w \in Workers, kind \in Kinds, p \in Projects : StartTask(w, kind, p)
    \/ StartRun \/ RunStep \/ ActivationRaises \/ LoseRun
    \/ \E r \in Releasers : BeginRelease(r) \/ ReleaseStep(r) \/ AbandonRelease(r)
    \/ \E p \in Projects : List(p) \/ ExpireCache(p)

Spec == Init /\ [][Next]_vars

\* Consumers, tasks and requests go on; every task in the queue gets a slot;
\* beat queues activate_indexer for ever; the dashboards of every project are
\* listed again and again; and neither Nexus nor the webhook refuses a project
\* for ever.
Fairness ==
    /\ \A c \in Consumers : WF_vars(Consume(c))
    /\ \A w \in Workers : WF_vars(TaskStep(w))
    /\ \A kind \in {"switch", "nexus"}, p \in Projects :
        SF_vars(\E w \in Workers : StartTask(w, kind, p))
    /\ WF_vars(StartRun) /\ WF_vars(RunStep)
    /\ \A p \in Projects :
        /\ SF_vars(PostAccepted /\ Current = p) /\ WF_vars(List(p))
        /\ SF_vars(\E w \in Workers : AskNexus(w) /\ job[w].project = p)
    /\ \A r \in Releasers : WF_vars(ReleaseStep(r))

LiveSpec == Spec /\ Fairness

-----------------------------------------------------------------------------
(* Properties.                                                             *)

\* A creation message is acknowledged only when the project has its row, its
\* default dashboard and its authorizations, also when two queues carry the
\* message, when it is delivered again, and when a step raised.
AckedMeansComplete ==
    \A p \in acked : row[p].exists /\ p \in human /\ p \in granted

\* A project is allowed only if the indexer's webhook accepted it, or while a
\* release of it has not been answered: a release that the webhook refuses
\* leaves no trace, whatever activate_indexer did meanwhile.
AllowedMeansAccepted ==
    \A p \in Projects : row[p].allowed =>
        \/ p \in accepted \/ p \in abandoned
        \/ \E r \in Releasers : release[r].project = p

\* A project waits in the queue of the indexer once (is_project_queued).
WaitsOnce ==
    \A i, j \in 1..Len(queue) : (i # j /\ queue[i] = queue[j]) => queue[i].status # "PENDING"

\* Every project with multi agents is allowed in the end, and stays so, although
\* a task is lost, activations fail and a release writes old columns back.
IndexedInTheEnd ==
    \A p \in Projects :
        <>[]((row[p].exists /\ p \in Multi \cup switched) => row[p].allowed)
=============================================================================
