-------------------------- MODULE ReportProperties --------------------------
(***************************************************************************)
(* What must be true of ReportGeneration, and the fairness under which the *)
(* liveness properties hold.                                               *)
(***************************************************************************)
EXTENDS ReportGeneration

\* A report in progress names the pod that took it and the time it started,
\* although the two are saved by different steps (tasks.py:114-123, then
\* _update_report_status).  The shutdown handler finds its reports by the first
\* (and reads config without a null check); timeout_reports by the second.
OwnedWhileInProgress ==
    \A r \in Reports : status[r] = "IN_PROGRESS" =>
        config[r].taskHost \in Hosts /\ started[r]

\* A run that took its report as PENDING still holds it.
FreshRun(w) == pc[w] # "idle" /\ mem[w].status = "PENDING"

\* timeout_reports never lists, nor fails, a report that a first run is still
\* generating, however long the run took, because celery's hard limit on a task
\* is shorter than the report timeout.  (A resumed run has no such guarantee:
\* started_at is not reset.)
TimeoutSparesFreshRuns ==
    \A w \in Slots : FreshRun(w) =>
        /\ held[w] \notin TimedOut
        /\ \A v \in Slots : held[w] \notin expiring[v]

\* Reports are started in the order they were requested (order_by created_on),
\* whatever the number of slots that select and start them.
OldestFirst ==
    [][\A r \in Reports : (status[r] = "PENDING" /\ status'[r] = "IN_PROGRESS") =>
           \A q \in Reports : q < r => status[q] # "PENDING"]_vars

\* A project never has two reports waiting or in progress (views.py:103-113).
OneActivePerProject ==
    \A j \in Projects : Cardinality(ActiveReports(j)) <= 1

\* A report that ended READY or FAILED keeps that status: no later run, resume
\* or timeout changes it.
TerminalIsFinal ==
    [][\A r \in Reports : Terminal(r) => status'[r] = status[r]]_vars

\* The requester's view of a deployment with a single slot: the phase of a
\* request is the status of its row, and the e-mails are those delivered.
Lifecycle == INSTANCE ReportLifecycle
    WITH phase <- status, filesSent <- readyMails, noticesSent <- failMails

LifecycleSpec == Lifecycle!Spec

\* The limit on concurrent reports: a task goes past the check only if fewer
\* than MaxConcurrent reports are in progress and not interrupted.
ConcurrencyLimit ==
    [][\A w \in Slots : (pc[w] = "idle" /\ pc'[w] = "interrupted") =>
           Cardinality({r \in Reports : /\ status[r] = "IN_PROGRESS"
                                        /\ config[r].interrupted # "true"})
               < MaxConcurrent]_vars

-----------------------------------------------------------------------------
(* Liveness.                                                               *)

\* The hard limit of half an hour does not strike a task during one of its
\* first database round trips; a crash of the pod may.
KillLate(w) ==
    /\ pc[w] \notin {"interrupted", "pending", "claim", "start", "expire"}
    /\ KillTask(w)

TimelyNext ==
    \/ \E w \in Slots : TaskStep(w) \/ KillLate(w)
    \/ \E h \in Hosts : PodStep(h)
    \/ \E p \in Web : WebStep(p)
    \/ Tick

\* celery beat queues both tasks for ever, so a pool process that is idle again
\* and again runs each of them; a task goes through its database and mail steps;
\* only the hard limit is sure to end its requests to other services.  A pod
\* that was told to stop is ended, and started again, by the cluster.
Fairness ==
    /\ WF_vars(Tick)
    /\ \A w \in Slots :
        /\ SF_vars(CheckConcurrency(w)) /\ SF_vars(ListTimedOut(w))
        /\ WF_vars(Query(w)) /\ WF_vars(Conclude(w)) /\ WF_vars(KillLate(w))
        /\ WF_vars(TimeOut(w))
    /\ \A h \in Hosts : WF_vars(EndShutdown(h)) /\ WF_vars(Restart(h))

LiveSpec == Init /\ [][TimelyNext]_vars /\ Fairness

\* No report stays in progress for ever (the docstring of timeout_reports).
NeverStuck ==
    \A r \in Reports : status[r] = "IN_PROGRESS" ~> status[r] # "IN_PROGRESS"

\* Every report requested is started some day, whatever is lost on the way.
PendingIsStarted ==
    \A r \in Reports : status[r] = "PENDING" ~> status[r] # "PENDING"

\* While another pod exists, the mark of an interrupted report does not stay.
InterruptionIsResumed ==
    \A r \in Reports :
        config[r].interrupted = "true" ~> config[r].interrupted # "true"
=============================================================================
