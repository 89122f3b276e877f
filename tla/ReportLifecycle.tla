--------------------------- MODULE ReportLifecycle ---------------------------
(***************************************************************************)
(* What the requester of conversations reports is promised: a report is    *)
(* queued, started in the order of the requests, and ends once, READY or   *)
(* FAILED; each kind of e-mail is sent at most once, the one with the      *)
(* files while the report is in progress and the one about the failure     *)
(* once it has failed.  A report that fails after its files were mailed    *)
(* is possible: the process may die before it saves READY.                 *)
(***************************************************************************)
EXTENDS Integers

CONSTANT MaxReports

VARIABLES phase, filesSent, noticesSent

lifecycleVars == <<phase, filesSent, noticesSent>>

Requests == 1..MaxReports

LifecycleTypeOK ==
    /\ phase \in [Requests -> {"NONE", "PENDING", "IN_PROGRESS", "READY", "FAILED"}]
    /\ filesSent \in [Requests -> 0..1]
    /\ noticesSent \in [Requests -> 0..1]

Init ==
    /\ phase = [r \in Requests |-> "NONE"]
    /\ filesSent = [r \in Requests |-> 0]
    /\ noticesSent = [r \in Requests |-> 0]

Step(r, from, to) ==
    /\ phase[r] = from
    /\ phase' = [phase EXCEPT ![r] = to]
    /\ UNCHANGED <<filesSent, noticesSent>>

Queue(r) ==
    /\ \A q \in Requests : q < r => phase[q] # "NONE"
    /\ Step(r, "NONE", "PENDING")

Start(r) ==
    /\ \A q \in Requests : q < r => phase[q] # "PENDING"
    /\ Step(r, "PENDING", "IN_PROGRESS")

MailFiles(r) ==
    /\ phase[r] = "IN_PROGRESS"
    /\ filesSent[r] = 0
    /\ filesSent' = [filesSent EXCEPT ![r] = 1]
    /\ UNCHANGED <<phase, noticesSent>>

Complete(r) == Step(r, "IN_PROGRESS", "READY")

Fail(r) == Step(r, "IN_PROGRESS", "FAILED")

MailFailure(r) ==
    /\ phase[r] = "FAILED"
    /\ noticesSent[r] = 0
    /\ noticesSent' = [noticesSent EXCEPT ![r] = 1]
    /\ UNCHANGED <<phase, filesSent>>

Next == \E r \in Requests :
    \/ Queue(r) \/ Start(r) \/ MailFiles(r)
    \/ Complete(r) \/ Fail(r) \/ MailFailure(r)

Spec == Init /\ [][Next]_lifecycleVars
=============================================================================
