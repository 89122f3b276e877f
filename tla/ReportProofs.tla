---------------------------- MODULE ReportProofs ----------------------------
(***************************************************************************)
(* For every number of pods, slots, reports and web processes: the types   *)
(* of ReportGeneration, the two guarantees its shutdown handler and its    *)
(* timeout rest on, and the order in which reports are started.  With one  *)
(* slot: the refinement of ReportLifecycle, and that an ended report stays *)
(* ended; with one web process too, one active report per project.         *)
(*                                                                         *)
(* The inductive invariant says what a task may rely on while it holds a   *)
(* copy of a row that other processes change.                              *)
(*                                                                         *)
(* Then, of the two components the reports of a project lean on: what a    *)
(* report is given of the events of a section (DatalakePages) is in order, *)
(* complete and within the page limit, for every size of page, page limit, *)
(* number of threads and datalake; and what the web is answered of a       *)
(* report's status (ReportStatusCache) was true at most TTL and one        *)
(* request ago, for any number of readers, writers and reports.            *)
(***************************************************************************)
EXTENDS ReportProperties, DatalakePages, ReportStatusCache, TLAPS, WellFoundedInduction, NaturalsInduction, FiniteSetTheorems

Holding == {"claim", "start"} \cup Running

\* A row leaves NONE once, and PENDING for ever when it is started.
Begun(r) == status[r] \notin {"NONE", "PENDING"}

\* Rows are numbered as they are created.
NumberedInv == \A r \in Reports : status[r] = "NONE" <=> r > created

\* What a slot holds: a report from its selection to the end of the task, a
\* begun one if it was not taken as PENDING or once the run has started.
HeldOK(w) ==
    /\ pc[w] \in Holding <=> held[w] # NoReport
    /\ pc[w] \notin Holding => mem[w] = NoRow
    /\ pc[w] = "expire" <=> expiring[w] # {}
    /\ pc[w] \in Holding => /\ status[held[w]] # "NONE"
                            /\ mem[w].status # "NONE"
                            /\ mem[w].started => mem[w].status # "PENDING"
    /\ (pc[w] \in Running \/ (pc[w] \in Holding /\ mem[w].status # "PENDING"))
           => Begun(held[w])
    /\ \A r \in expiring[w] : Begun(r)

HeldInv == \A w \in Slots : HeldOK(w)

\* started_at, the mark of an interruption and the shutdown handler's copies
\* belong to begun reports only.
BegunInv ==
    /\ \A r \in Reports : started[r] => Begun(r)
    /\ \A r \in Reports : config[r].interrupted = "true" => Begun(r)
    /\ \A h \in Hosts : \A m \in marks[h] : Begun(m.report)

\* The owner is written before the status, and no save of a config removes it.
OwnerInv ==
    /\ \A w \in Slots : pc[w] \in {"start"} \cup Running =>
           config[held[w]].taskHost \in Hosts
    /\ \A w \in Slots : pc[w] \in Holding /\ mem[w].started => started[held[w]]
    /\ \A h \in Hosts : \A m \in marks[h] : m.config.taskHost \in Hosts

\* A first run is at least as old as the report it generates.
AgeInv ==
    \A w \in Slots : FreshRun(w) =>
        /\ Begun(held[w]) => started[held[w]] /\ age[held[w]] <= taskAge[w]
        /\ \A v \in Slots : held[w] \notin expiring[v]

\* The reports older than one taken as PENDING have been started.
OrderInv ==
    \A w \in Slots : FreshRun(w) =>
        \A q \in Reports : q < held[w] => status[q] # "PENDING"

IndInv ==
    /\ TypeOK /\ NumberedInv /\ HeldInv /\ BegunInv
    /\ OwnerInv /\ OwnedWhileInProgress /\ AgeInv /\ OrderInv

-----------------------------------------------------------------------------
(* The oldest and the newest of a set of reports.                          *)

LessThan == {p \in Nat \X Nat : p[1] < p[2]}

LEMMA NonemptyHasLeast ==
    ASSUME NEW S \in SUBSET Nat, S # {}
    PROVE  \E x \in S : \A y \in S : x <= y
<1>1. OpToRel(<, Nat) = LessThan
  BY DEF OpToRel, LessThan
<1>2. IsWellFoundedOn(LessThan, Nat)
  BY <1>1, NatLessThanWellFounded
<1>3. PICK x \in S : \A y \in S : ~(<<y, x>> \in LessThan)
  BY <1>2, WFMin
<1>4. \A y \in Nat : y < x => <<y, x>> \in LessThan
  BY DEF LessThan
<1>5. \A y \in S : x <= y
  <2> TAKE y \in S
  <2>1. ~(y < x)
    BY <1>3, <1>4, Zenon
  <2> QED BY <2>1
<1> QED BY <1>5

\* order_by("created_on").first() of a query with rows is one of them, and no
\* row of the query is older.
LEMMA OldestIsLeast ==
    ASSUME NEW S \in SUBSET Reports, S # {}
    PROVE  Oldest(S) \in S /\ \A q \in S : Oldest(S) <= q
<1>1. S \subseteq Nat
  BY BoundsAssumption DEF Reports
<1> QED BY <1>1, NonemptyHasLeast DEF Oldest

\* The first row in the model's order is one of the rows.
LEMMA NewestIsMember ==
    ASSUME NEW S \in SUBSET Reports, S # {}
    PROVE  Newest(S) \in S
<1> DEFINE Mirror == {n \in Nat : MaxReports - n \in S}
<1>1. \A r \in S : r \in Nat /\ MaxReports - r \in Nat
                   /\ MaxReports - (MaxReports - r) = r
  BY BoundsAssumption DEF Reports
<1>2. \A r \in S : MaxReports - r \in Mirror
  BY <1>1
<1>3. Mirror \in SUBSET Nat /\ Mirror # {}
  BY <1>2
<1>4. PICK x \in Mirror : \A y \in Mirror : x <= y
  <2> HIDE DEF Mirror
  <2> QED BY <1>3, NonemptyHasLeast
<1>5. \A q \in S : q <= MaxReports - x
  BY <1>1, <1>2, <1>4, BoundsAssumption
<1> QED BY <1>4, <1>5 DEF Newest

-----------------------------------------------------------------------------
(* Types.                                                                   *)

LEMMA InitTypeOK == Init => TypeOK
BY BoundsAssumption, TimeAssumption
   DEF Init, TypeOK, Statuses, Steps, Configs, NullConfig, Rows, NoRow, Reports, NoReport

\* A task that ends leaves its slot typed as an idle one.
LEMMA EndTaskTypes ==
    ASSUME TypeOK, NEW W, EndTask(W)
    PROVE  /\ pc' \in [Slots -> Steps]
           /\ held' \in [Slots -> Reports \cup {NoReport}]
           /\ mem' \in [Slots -> Rows]
           /\ taskAge' \in [Slots -> 0..TaskTimeLimit]
           /\ expiring' \in [Slots -> SUBSET Reports]
           /\ notifying' \in [Slots -> SUBSET Reports]
<1>1. NoRow \in Rows /\ "idle" \in Steps /\ 0 \in 0..TaskTimeLimit
  BY TimeAssumption DEF NoRow, Rows, Statuses, Configs, NullConfig, Steps
<1> QED BY <1>1 DEF EndTask, TypeOK

\* The copy of a row is typed.
LEMMA TakeTypes ==
    ASSUME TypeOK, NEW w \in Slots, NEW S \in SUBSET Reports, S # {}, Take(w, S)
    PROVE  /\ pc' \in [Slots -> Steps]
           /\ held' \in [Slots -> Reports \cup {NoReport}]
           /\ mem' \in [Slots -> Rows]
<1>1. Oldest(S) \in Reports
  BY OldestIsLeast
<1>2. Row(Oldest(S)) \in Rows
  BY <1>1 DEF Row, Rows, TypeOK
<1> QED BY <1>1, <1>2 DEF Take, TypeOK, Goto, Steps

LEMMA CountTypes ==
    ASSUME NEW mails \in [Reports -> 0..MailCap], NEW r
    PROVE  Count(mails, r) \in [Reports -> 0..MailCap]
<1>1. \A x \in 0..MailCap : (IF x < MailCap THEN x + 1 ELSE x) \in 0..MailCap
  BY BoundsAssumption
<1> QED BY <1>1 DEF Count

LEMMA StepTypeOK == TypeOK /\ [Next]_vars => TypeOK'
<1> SUFFICES ASSUME TypeOK, [Next]_vars PROVE TypeOK'
  OBVIOUS
<1> USE BoundsAssumption, HostsAssumption, TimeAssumption
<1> USE DEF TypeOK, Statuses, Steps, Configs, Rows, Goto, rowVars, tableVars, slotVars,
            hostVars, mailVars, NoRow, NullConfig
<1>1. ASSUME NEW w \in Slots, CheckConcurrency(w) PROVE TypeOK'
  BY <1>1 DEF CheckConcurrency
<1>2. ASSUME NEW w \in Slots, SelectInterrupted(w) PROVE TypeOK'
  <2>1. CASE Take(w, InterruptedElsewhere(HostOf[w])) /\ InterruptedElsewhere(HostOf[w]) # {}
    <3>1. InterruptedElsewhere(HostOf[w]) \in SUBSET Reports
      BY DEF InterruptedElsewhere
    <3> QED BY <2>1, <3>1, TakeTypes DEF Take
  <2>2. CASE InterruptedElsewhere(HostOf[w]) = {}
    BY <1>2, <2>2 DEF SelectInterrupted
  <2> QED BY <1>2, <2>1, <2>2 DEF SelectInterrupted
<1>3. ASSUME NEW w \in Slots, SelectPending(w) PROVE TypeOK'
  <2>1. CASE Take(w, Pending) /\ Pending # {}
    <3>1. Pending \in SUBSET Reports
      BY DEF Pending
    <3> QED BY <2>1, <3>1, TakeTypes DEF Take
  <2>2. CASE Pending = {}
    BY <1>3, <2>2, EndTaskTypes DEF SelectPending
  <2> QED BY <1>3, <2>1, <2>2 DEF SelectPending
<1>4. ASSUME NEW w \in Slots, Claim(w) PROVE TypeOK'
  <2>1. ClaimedConfig(mem[w].config, HostOf[w]) \in Configs
    <3>1. mem[w].config \in Configs /\ HostOf[w] \in Hosts
      OBVIOUS
    <3> QED BY <3>1 DEF ClaimedConfig
  <2> QED BY <1>4, <2>1 DEF Claim
<1>5. ASSUME NEW w \in Slots, StartRun(w) PROVE TypeOK'
  <2>1. status' \in [Reports -> Statuses] /\ started' \in [Reports -> BOOLEAN]
    BY <1>5 DEF StartRun
  <2>2. age' \in [Reports -> 0..(ReportTimeout + 1)]
    BY <1>5 DEF StartRun
  <2> QED BY <1>5, <2>1, <2>2 DEF StartRun
<1>6. ASSUME NEW w \in Slots, FetchPages(w) PROVE TypeOK'
  BY <1>6 DEF FetchPages, Move
<1>7. ASSUME NEW w \in Slots, FetchNothing(w) PROVE TypeOK'
  BY <1>7 DEF FetchNothing, Move
<1>8. ASSUME NEW w \in Slots, BuildFails(w) PROVE TypeOK'
  BY <1>8 DEF BuildFails, Move
<1>9. ASSUME NEW w \in Slots, ProcessFiles(w) PROVE TypeOK'
  BY <1>9 DEF ProcessFiles, Move
<1>10. ASSUME NEW w \in Slots, SaveFailed(w) PROVE TypeOK'
  BY <1>10 DEF SaveFailed
<1>11. ASSUME NEW w \in Slots, SendError(w) PROVE TypeOK'
  <2>1. failMails' \in [Reports -> 0..MailCap]
    BY <1>11, CountTypes DEF SendError, DeliverError
  <2> QED BY <1>11, <2>1, EndTaskTypes DEF SendError
<1>12. ASSUME NEW w \in Slots, SettleInterruption(w) PROVE TypeOK'
  BY <1>12, EndTaskTypes DEF SettleInterruption
<1>13. ASSUME NEW w \in Slots, SendReady(w) PROVE TypeOK'
  <2>1. readyMails' \in [Reports -> 0..MailCap]
    <3>1. Count(readyMails, held[w]) \in [Reports -> 0..MailCap]
      BY CountTypes
    <3> QED BY <1>13, <3>1 DEF SendReady
  <2> QED BY <1>13, <2>1 DEF SendReady
<1>14. ASSUME NEW w \in Slots, SaveReady(w) PROVE TypeOK'
  BY <1>14, EndTaskTypes DEF SaveReady
<1>15. ASSUME NEW w \in Slots, ListTimedOut(w) PROVE TypeOK'
  BY <1>15 DEF ListTimedOut, TimedOut
<1>16. ASSUME NEW w \in Slots, Expire(w) PROVE TypeOK'
  BY <1>16 DEF Expire
<1>17. ASSUME NEW w \in Slots, NotifyTimeout(w) PROVE TypeOK'
  <2>1. failMails' \in [Reports -> 0..MailCap]
    BY <1>17, CountTypes DEF NotifyTimeout, DeliverError
  <2>2. CASE EndTask({w})
    BY <1>17, <2>1, <2>2, EndTaskTypes DEF NotifyTimeout
  <2>3. CASE UNCHANGED <<pc, held, mem, taskAge, expiring>>
             /\ notifying' = [notifying EXCEPT ![w] = @ \ {Newest(notifying[w])}]
    BY <1>17, <2>1, <2>3 DEF NotifyTimeout
  <2> QED BY <1>17, <2>2, <2>3 DEF NotifyTimeout
<1>18. ASSUME NEW w \in Slots, KillTask(w) PROVE TypeOK'
  BY <1>18, EndTaskTypes DEF KillTask
<1>19. ASSUME NEW h \in Hosts, BeginShutdown(h) PROVE TypeOK'
  BY <1>19 DEF BeginShutdown
<1>20. ASSUME NEW h \in Hosts, MarkInterrupted(h) PROVE TypeOK'
  <2>1. PICK m \in marks[h] :
          /\ config' = [config EXCEPT ![m.report] = InterruptedConfig(m.config, h)]
          /\ marks' = [marks EXCEPT ![h] = @ \ {m}]
    BY <1>20 DEF MarkInterrupted
  <2>2. InterruptedConfig(m.config, h) \in Configs
    <3>1. m.config \in Configs
      OBVIOUS
    <3> QED BY <3>1 DEF InterruptedConfig
  <2> QED BY <1>20, <2>1, <2>2 DEF MarkInterrupted
<1>21. ASSUME NEW h \in Hosts, EndShutdown(h) PROVE TypeOK'
  BY <1>21, EndTaskTypes DEF EndShutdown, StopPod
<1>22. ASSUME NEW h \in Hosts, Crash(h) PROVE TypeOK'
  BY <1>22, EndTaskTypes DEF Crash, StopPod
<1>23. ASSUME NEW h \in Hosts, Restart(h) PROVE TypeOK'
  BY <1>23 DEF Restart
<1>24. ASSUME NEW p \in Web, NEW j \in Projects, PostCheck(p, j) PROVE TypeOK'
  BY <1>24 DEF PostCheck
<1>25. ASSUME NEW p \in Web, PostCreate(p) PROVE TypeOK'
  <2>1. created' \in 0..MaxReports
    BY <1>25 DEF PostCreate
  <2> QED BY <1>25, <2>1 DEF PostCreate
<1>26. ASSUME Tick PROVE TypeOK'
  BY <1>26 DEF Tick
<1>27. ASSUME UNCHANGED vars PROVE TypeOK'
  BY <1>27 DEF vars
<1> QED
  BY <1>1, <1>2, <1>3, <1>4, <1>5, <1>6, <1>7, <1>8, <1>9, <1>10, <1>11, <1>12, <1>13, <1>14, <1>15, <1>16, <1>17, <1>18, <1>19, <1>20, <1>21, <1>22, <1>23, <1>24, <1>25, <1>26, <1>27
     DEF Next, TaskStep, Query, Build, Conclude, TimeOut, PodStep, WebStep

-----------------------------------------------------------------------------
(* What a step does to a row, to the copies of a shutdown handler and to a  *)
(* slot.  The steps that touch none of them are covered by the last cases.  *)

\* Rows only go forward, and an active row that comes forward is complete.
RowAdvances(r) ==
    /\ status[r] # "NONE" => status'[r] # "NONE"
    /\ Begun(r) => Begun(r)'
    /\ started[r] => started'[r]
    /\ config[r].taskHost \in Hosts => config'[r].taskHost \in Hosts
    /\ status'[r] = "PENDING" => status[r] = "PENDING" \/ r = created + 1
    /\ Begun(r)' /\ ~Begun(r) => started'[r] /\ age'[r] = 0
    /\ started'[r] => Begun(r)'
    /\ config'[r].interrupted = "true" => Begun(r)
    /\ status'[r] = "IN_PROGRESS" => config'[r].taskHost \in Hosts /\ started'[r]

SameRows == UNCHANGED <<status, started, age, config>>

\* Kept, ended, moved on, took a row, listed the late reports, failed one.
Kept(w) == UNCHANGED <<pc[w], held[w], mem[w], expiring[w]>>
Ended(w) == /\ pc'[w] = "idle" /\ held'[w] = NoReport
            /\ mem'[w] = NoRow /\ expiring'[w] = {}
Moved(w) ==
    /\ UNCHANGED <<held[w], mem[w], expiring[w]>>
    /\ \/ pc[w] \in {"idle", "interrupted"} /\ pc'[w] \in {"interrupted", "pending"}
       \/ pc[w] = "claim" /\ pc'[w] = "start" /\ config'[held[w]].taskHost \in Hosts
       \/ pc[w] = "start" /\ pc'[w] = "fetch" /\ Begun(held[w])'
       \/ pc[w] \in Running /\ pc'[w] \in Running
Took(w) ==
    /\ pc[w] \in {"interrupted", "pending"} /\ pc'[w] = "claim"
    /\ held'[w] \in Reports /\ mem'[w] = Row(held'[w])
    /\ UNCHANGED expiring[w] /\ SameRows
    /\ \/ config[held'[w]].interrupted = "true"
       \/ /\ status[held'[w]] = "PENDING"
          /\ \A q \in Reports : q < held'[w] => status[q] # "PENDING"
Listed(w) ==
    /\ pc[w] = "idle" /\ pc'[w] = "expire"
    /\ UNCHANGED <<held[w], mem[w]>> /\ SameRows
    /\ TimedOut # {} /\ expiring'[w] = TimedOut
Expired(w) ==
    /\ pc[w] = "expire" /\ UNCHANGED <<held[w], mem[w]>>
    /\ expiring'[w] \subseteq expiring[w]
    /\ pc'[w] = IF expiring'[w] = {} THEN "notify" ELSE "expire"

LEMMA SameRowsAdvance ==
    ASSUME IndInv, UNCHANGED <<status, started, config>>, NEW r \in Reports
    PROVE  RowAdvances(r)
BY DEF RowAdvances, IndInv, BegunInv, Begun, OwnedWhileInProgress

\* A save of the final status of a begun report.
LEMMA SavedStatusAdvances ==
    ASSUME IndInv, NEW q \in Reports, Begun(q), NEW s \in {"READY", "FAILED"},
           status' = [status EXCEPT ![q] = s], UNCHANGED <<started, config>>,
           NEW r \in Reports
    PROVE  RowAdvances(r)
<1>1. CASE r = q
  BY <1>1 DEF RowAdvances, IndInv, TypeOK, BegunInv, Begun
<1>2. CASE r # q
  BY <1>2 DEF RowAdvances, IndInv, TypeOK, BegunInv, Begun, OwnedWhileInProgress
<1> QED BY <1>1, <1>2

\* A save of a config that names a host, whose mark is true only if the report
\* has begun.
LEMMA SavedConfigAdvances ==
    ASSUME IndInv, NEW q \in Reports, NEW c \in Configs, c.taskHost \in Hosts,
           c.interrupted = "true" => Begun(q),
           config' = [config EXCEPT ![q] = c], UNCHANGED <<status, started>>,
           NEW r \in Reports
    PROVE  RowAdvances(r)
<1>1. CASE r = q
  BY <1>1 DEF RowAdvances, IndInv, TypeOK, BegunInv, Begun, OwnedWhileInProgress
<1>2. CASE r # q
  BY <1>2 DEF RowAdvances, IndInv, TypeOK, BegunInv, Begun, OwnedWhileInProgress
<1> QED BY <1>1, <1>2

\* What a slot at a given step holds.
LEMMA HeldFacts ==
    ASSUME IndInv, NEW w \in Slots
    PROVE  /\ pc[w] \in Holding => held[w] \in Reports /\ mem[w] \in Rows
           /\ pc[w] \in Running => Begun(held[w])
           /\ pc[w] = "expire" => /\ expiring[w] \in SUBSET Reports
                                  /\ Newest(expiring[w]) \in expiring[w]
                                  /\ Begun(Newest(expiring[w]))
<1>1. expiring[w] \in SUBSET Reports
  BY DEF IndInv, TypeOK
<1>2. pc[w] = "expire" => Newest(expiring[w]) \in expiring[w]
  BY <1>1, NewestIsMember DEF IndInv, HeldInv, HeldOK
<1> QED BY <1>1, <1>2 DEF IndInv, HeldInv, HeldOK, TypeOK, Holding, NoReport

LEMMA ClaimedConfigFacts ==
    ASSUME NEW c \in Configs, NEW h \in Hosts
    PROVE  /\ ClaimedConfig(c, h) \in Configs
           /\ ClaimedConfig(c, h).taskHost = h
           /\ ClaimedConfig(c, h).interrupted # "true"
BY DEF ClaimedConfig, Configs

LEMMA EachRowAdvances ==
    ASSUME IndInv, Next, NEW r \in Reports
    PROVE  RowAdvances(r)
<1>1. ASSUME NEW w \in Slots, Claim(w) PROVE RowAdvances(r)
  <2>1. held[w] \in Reports /\ mem[w].config \in Configs /\ HostOf[w] \in Hosts
    BY <1>1, HeldFacts, HostsAssumption DEF Claim, Holding, Rows
  <2> QED BY <1>1, <2>1, ClaimedConfigFacts, SavedConfigAdvances DEF Claim
<1>2. ASSUME NEW w \in Slots, StartRun(w) PROVE RowAdvances(r)
  <2>1. pc[w] \in Holding /\ held[w] \in Reports
    BY <1>2, HeldFacts DEF StartRun, Holding
  <2>2. /\ mem[w].status # "PENDING" => Begun(held[w])
        /\ mem[w].started => mem[w].status # "PENDING"
    BY <2>1 DEF IndInv, HeldInv, HeldOK
  <2>3. config[held[w]].taskHost \in Hosts
    BY <1>2 DEF IndInv, OwnerInv, StartRun
  <2>4. CASE r = held[w]
    BY <1>2, <2>1, <2>2, <2>3, <2>4
       DEF StartRun, RowAdvances, IndInv, TypeOK, BegunInv, Begun, OwnedWhileInProgress
  <2>5. CASE r # held[w]
    BY <1>2, <2>1, <2>5
       DEF StartRun, RowAdvances, IndInv, TypeOK, BegunInv, Begun, OwnedWhileInProgress
  <2> QED BY <2>4, <2>5
<1>3. ASSUME NEW w \in Slots, SaveFailed(w) \/ SaveReady(w) PROVE RowAdvances(r)
  <2>1. held[w] \in Reports /\ Begun(held[w])
    BY <1>3, HeldFacts DEF SaveFailed, SaveReady, Holding, Running
  <2> QED BY <1>3, <2>1, SavedStatusAdvances DEF SaveFailed, SaveReady
<1>4. ASSUME NEW w \in Slots, Expire(w) PROVE RowAdvances(r)
  BY <1>4, HeldFacts, SavedStatusAdvances DEF Expire
<1>5. ASSUME NEW h \in Hosts, MarkInterrupted(h) PROVE RowAdvances(r)
  <2>1. PICK m \in marks[h] :
          config' = [config EXCEPT ![m.report] = InterruptedConfig(m.config, h)]
    BY <1>5 DEF MarkInterrupted
  <2>2. m.report \in Reports /\ m.config \in Configs
    BY DEF IndInv, TypeOK
  <2>3. m.config.taskHost \in Hosts /\ Begun(m.report)
    BY DEF IndInv, OwnerInv, BegunInv
  <2>4. InterruptedConfig(m.config, h) \in Configs
        /\ InterruptedConfig(m.config, h).taskHost \in Hosts
    BY <2>2, <2>3 DEF InterruptedConfig, Configs
  <2> QED BY <1>5, <2>1, <2>2, <2>3, <2>4, SavedConfigAdvances DEF MarkInterrupted
<1>6. ASSUME NEW p \in Web, PostCreate(p) PROVE RowAdvances(r)
  <2>1. created + 1 \in Reports /\ status[created + 1] = "NONE"
    BY <1>6, BoundsAssumption DEF PostCreate, IndInv, TypeOK, NumberedInv, Reports
  <2>2. CASE r = created + 1
    BY <1>6, <2>1, <2>2
       DEF PostCreate, RowAdvances, IndInv, TypeOK, BegunInv, Begun, OwnedWhileInProgress
  <2>3. CASE r # created + 1
    BY <1>6, <2>1, <2>3
       DEF PostCreate, RowAdvances, IndInv, TypeOK, BegunInv, Begun, OwnedWhileInProgress
  <2> QED BY <2>2, <2>3
<1>7. CASE UNCHANGED <<status, started, config>>
  BY <1>7, SameRowsAdvance
<1>8. ASSUME NEW w \in Slots, TaskStep(w) \/ KillTask(w) PROVE RowAdvances(r)
  <2>1. CASE Claim(w) \/ StartRun(w) \/ SaveFailed(w) \/ SaveReady(w) \/ Expire(w)
    BY <2>1, <1>1, <1>2, <1>3, <1>4
  <2>2. CASE \/ CheckConcurrency(w) \/ SelectInterrupted(w) \/ SelectPending(w)
             \/ Build(w) \/ SettleInterruption(w) \/ SendReady(w) \/ SendError(w)
             \/ ListTimedOut(w) \/ NotifyTimeout(w) \/ KillTask(w)
    BY <2>2, <1>7 DEF CheckConcurrency, SelectInterrupted, SelectPending, Take, Build,
         FetchPages, FetchNothing, BuildFails, ProcessFiles, Move, SettleInterruption,
         SendReady, SendError, ListTimedOut, NotifyTimeout, KillTask, tableVars, rowVars
  <2> QED BY <1>8, <2>1, <2>2 DEF TaskStep, Query, Conclude, TimeOut
<1>9. ASSUME NEW h \in Hosts, PodStep(h) PROVE RowAdvances(r)
  BY <1>9, <1>5, <1>7 DEF PodStep, BeginShutdown, EndShutdown, Crash, StopPod, Restart,
       tableVars, rowVars
<1>10. ASSUME NEW p \in Web, WebStep(p) PROVE RowAdvances(r)
  BY <1>10, <1>6, <1>7 DEF WebStep, PostCheck, tableVars, rowVars
<1>11. CASE Tick
  BY <1>11, <1>7 DEF Tick
<1> QED BY <1>8, <1>9, <1>10, <1>11 DEF Next

LEMMA EndTaskSteps ==
    ASSUME NEW W, EndTask(W), NEW v \in Slots
    PROVE  Ended(v) \/ Kept(v)
BY DEF EndTask, Ended, Kept

\* A step of one slot that changes only its program counter.
LEMMA GotoSteps ==
    ASSUME IndInv, NEW w \in Slots, NEW point, Goto(w, point),
           UNCHANGED <<held, mem, expiring>>, NEW v \in Slots
    PROVE  /\ v # w => Kept(v)
           /\ pc'[w] = point /\ UNCHANGED <<held[w], mem[w], expiring[w]>>
BY DEF IndInv, TypeOK, Goto, Kept

LEMMA TakeSteps ==
    ASSUME IndInv, NEW w \in Slots, pc[w] \in {"interrupted", "pending"},
           NEW S \in SUBSET Reports, S # {}, Take(w, S),
           \/ \A r \in S : config[r].interrupted = "true"
           \/ S = Pending,
           NEW v \in Slots
    PROVE  Took(v) \/ Kept(v)
<1>1. Oldest(S) \in S /\ \A q \in S : Oldest(S) <= q
  BY OldestIsLeast
<1>2. \A q \in Reports : q < Oldest(S) => q \notin S
  <2> SUFFICES ASSUME NEW q \in S, q < Oldest(S), Oldest(S) <= q,
                      q \in Reports, Oldest(S) \in Reports
               PROVE  FALSE
    BY <1>1
  <2> HIDE DEF Oldest
  <2> QED BY BoundsAssumption DEF Reports
<1>3. CASE v = w
  BY <1>1, <1>2, <1>3 DEF Take, Took, Goto, IndInv, TypeOK, Pending, SameRows,
                          tableVars, rowVars
<1>4. CASE v # w
  BY <1>4 DEF Take, Kept, Goto, IndInv, TypeOK
<1> QED BY <1>3, <1>4

SlotSteps(v) ==
    Kept(v) \/ Ended(v) \/ Moved(v) \/ Took(v) \/ Listed(v) \/ Expired(v)

LEMMA EachSlotSteps ==
    ASSUME IndInv, Next, NEW v \in Slots
    PROVE  SlotSteps(v)
<1>1. ASSUME NEW w \in Slots,
             \/ CheckConcurrency(w) \/ Claim(w) \/ StartRun(w)
             \/ Build(w) \/ SendReady(w) \/ SaveFailed(w)
      PROVE  Kept(v) \/ Moved(v)
  <2>1. PICK point \in Steps :
          /\ Goto(w, point) /\ UNCHANGED <<held, mem, expiring>>
          /\ \/ pc[w] = "idle" /\ point = "interrupted"
             \/ pc[w] = "claim" /\ point = "start" /\ Claim(w)
             \/ pc[w] = "start" /\ point = "fetch" /\ StartRun(w)
             \/ pc[w] \in Running /\ point \in Running
    BY <1>1 DEF CheckConcurrency, CanTakeTask, Claim, StartRun, Build, FetchPages,
         FetchNothing, ProcessFiles, BuildFails, Move, SendReady, SaveFailed,
         Steps, Running
  <2>2. ASSUME Claim(w) PROVE config'[held[w]].taskHost \in Hosts
    <3>1. held[w] \in Reports /\ mem[w].config \in Configs /\ HostOf[w] \in Hosts
      BY <2>2, HeldFacts, HostsAssumption DEF Claim, Holding, Rows
    <3> QED BY <2>2, <3>1, ClaimedConfigFacts DEF Claim, IndInv, TypeOK
  <2>3. ASSUME StartRun(w) PROVE Begun(held[w])'
    <3>1. held[w] \in Reports /\ (mem[w].status # "PENDING" => Begun(held[w]))
      BY <2>3, HeldFacts DEF StartRun, IndInv, HeldInv, HeldOK, Holding
    <3> QED BY <2>3, <3>1 DEF StartRun, Begun, IndInv, TypeOK
  <2>4. v = w => Moved(v)
    BY <2>1, <2>2, <2>3, GotoSteps DEF Moved
  <2> QED BY <2>1, <2>4, GotoSteps
<1>2. ASSUME NEW w \in Slots, SelectInterrupted(w) PROVE SlotSteps(v)
  <2>1. CASE InterruptedElsewhere(HostOf[w]) = {}
    BY <1>2, <2>1, GotoSteps DEF SelectInterrupted, SlotSteps, Moved
  <2>2. CASE InterruptedElsewhere(HostOf[w]) # {}
    <3>1. /\ InterruptedElsewhere(HostOf[w]) \in SUBSET Reports
          /\ \A r \in InterruptedElsewhere(HostOf[w]) : config[r].interrupted = "true"
      BY DEF InterruptedElsewhere
    <3> QED BY <1>2, <2>2, <3>1, TakeSteps DEF SelectInterrupted, SlotSteps
  <2> QED BY <2>1, <2>2
<1>3. ASSUME NEW w \in Slots, SelectPending(w) PROVE SlotSteps(v)
  <2>1. Pending \in SUBSET Reports
    BY DEF Pending
  <2> QED BY <1>3, <2>1, EndTaskSteps, TakeSteps DEF SelectPending, SlotSteps
<1>4. ASSUME NEW w \in Slots,
             SettleInterruption(w) \/ SaveReady(w) \/ SendError(w) \/ KillTask(w)
      PROVE  SlotSteps(v)
  <2>1. CASE EndTask({w})
    BY <2>1, EndTaskSteps DEF SlotSteps
  <2>2. CASE pc[w] = "settle" /\ Goto(w, "mail") /\ UNCHANGED <<held, mem, expiring>>
    <3>1. v = w => Moved(v)
      BY <2>2, GotoSteps DEF Moved, Running
    <3> QED BY <2>2, <3>1, GotoSteps DEF SlotSteps
  <2> QED BY <1>4, <2>1, <2>2 DEF SettleInterruption, SaveReady, SendError, KillTask
<1>5. ASSUME NEW w \in Slots, ListTimedOut(w) PROVE SlotSteps(v)
  BY <1>5 DEF ListTimedOut, CanTakeTask, Goto, SlotSteps, Kept, Listed, SameRows,
              tableVars, rowVars, IndInv, TypeOK
<1>6. ASSUME NEW w \in Slots, Expire(w) PROVE SlotSteps(v)
  <2>1. CASE v = w
    BY <1>6, <2>1, HeldFacts DEF Expire, Goto, SlotSteps, Expired, IndInv, TypeOK
  <2>2. CASE v # w
    BY <1>6, <2>2 DEF Expire, Goto, SlotSteps, Kept, IndInv, TypeOK
  <2> QED BY <2>1, <2>2
<1>7. ASSUME NEW w \in Slots, NotifyTimeout(w) PROVE SlotSteps(v)
  BY <1>7, EndTaskSteps DEF NotifyTimeout, SlotSteps, Kept
<1>8. ASSUME NEW w \in Slots, TaskStep(w) \/ KillTask(w) PROVE SlotSteps(v)
  BY <1>8, <1>1, <1>2, <1>3, <1>4, <1>5, <1>6, <1>7
     DEF TaskStep, Query, Conclude, TimeOut, SlotSteps
<1>9. ASSUME NEW h \in Hosts, PodStep(h) PROVE SlotSteps(v)
  BY <1>9, EndTaskSteps DEF PodStep, BeginShutdown, MarkInterrupted, EndShutdown, Crash,
       StopPod, Restart, slotVars, SlotSteps, Kept
<1>10. ASSUME NEW p \in Web, WebStep(p) PROVE SlotSteps(v)
  BY <1>10 DEF WebStep, PostCheck, PostCreate, slotVars, SlotSteps, Kept
<1>11. CASE Tick
  BY <1>11 DEF Tick, SlotSteps, Kept
<1> QED BY <1>8, <1>9, <1>10, <1>11 DEF Next

-----------------------------------------------------------------------------
(* The inductive step.                                                     *)

\* An age grows no faster than that of the tasks.
LEMMA AgesAdvance ==
    ASSUME IndInv, Next, NEW w \in Slots, NEW r \in Reports,
           pc[w] # "idle", pc'[w] # "idle"
    PROVE  age'[r] + taskAge[w] <= age[r] + taskAge'[w]
<1>1. age[r] \in Nat /\ taskAge[w] \in Nat
  BY TimeAssumption DEF IndInv, TypeOK
<1>2. ASSUME NEW v \in Slots, StartRun(v)
      PROVE  age'[r] + taskAge[w] <= age[r] + taskAge'[w]
  BY <1>1, <1>2 DEF StartRun, IndInv, TypeOK
<1>3. CASE Tick
  BY <1>1, <1>3 DEF Tick, IndInv, TypeOK
<1>4. CASE UNCHANGED <<age, taskAge>>
  BY <1>1, <1>4
<1>5. ASSUME NEW W, EndTask(W), UNCHANGED age
      PROVE  age'[r] + taskAge[w] <= age[r] + taskAge'[w]
  BY <1>1, <1>5 DEF EndTask
<1>6. ASSUME NEW v \in Slots, TaskStep(v) \/ KillTask(v)
      PROVE  age'[r] + taskAge[w] <= age[r] + taskAge'[w]
  <2>1. CASE StartRun(v)
    BY <2>1, <1>2
  <2>2. CASE UNCHANGED <<age, taskAge>>
    BY <2>2, <1>4
  <2>3. CASE EndTask({v}) /\ UNCHANGED age
    BY <2>3, <1>5
  <2> QED BY <1>6, <2>1, <2>2, <2>3
      DEF TaskStep, CheckConcurrency, Query, SelectInterrupted, SelectPending, Take, Claim,
          Build, FetchPages, FetchNothing, BuildFails, ProcessFiles, Move, Conclude,
          SettleInterruption, SendReady, SaveReady, SaveFailed, SendError, ListTimedOut,
          TimeOut, Expire, NotifyTimeout, KillTask, tableVars, rowVars
<1>7. ASSUME NEW h \in Hosts, PodStep(h)
      PROVE  age'[r] + taskAge[w] <= age[r] + taskAge'[w]
  BY <1>7, <1>4, <1>5 DEF PodStep, BeginShutdown, MarkInterrupted, EndShutdown, Crash,
       StopPod, Restart, slotVars, tableVars, rowVars
<1>8. ASSUME NEW p \in Web, WebStep(p)
      PROVE  age'[r] + taskAge[w] <= age[r] + taskAge'[w]
  BY <1>8, <1>4 DEF WebStep, PostCheck, PostCreate, slotVars, tableVars, rowVars
<1> QED BY <1>3, <1>6, <1>7, <1>8 DEF Next

\* A copy held by a shutdown handler was taken from a begun report of its host.
LEMMA MarksAdvance ==
    ASSUME IndInv, Next, NEW h \in Hosts, NEW m \in marks'[h]
    PROVE  m \in marks[h] \/ (m.report \in Reports /\ Begun(m.report) /\ m.config.taskHost \in Hosts)
<1>1. ASSUME NEW g \in Hosts, PodStep(g)
      PROVE  m \in marks[h] \/ (m.report \in Reports /\ Begun(m.report) /\ m.config.taskHost \in Hosts)
  <2>1. CASE BeginShutdown(g)
    BY <2>1 DEF BeginShutdown, IndInv, TypeOK, Begun
  <2>2. CASE marks'[h] \subseteq marks[h]
    BY <2>2
  <2> QED BY <1>1, <2>1, <2>2 DEF PodStep, MarkInterrupted, EndShutdown, Crash, StopPod,
                                  Restart, IndInv, TypeOK
<1>2. CASE UNCHANGED marks
  BY <1>2
<1>3. ASSUME NEW w \in Slots, TaskStep(w) \/ KillTask(w) PROVE UNCHANGED marks
  BY <1>3 DEF TaskStep, CheckConcurrency, Query, SelectInterrupted, SelectPending, Take,
      Claim, StartRun, Build, FetchPages, FetchNothing, BuildFails, ProcessFiles, Move,
      Conclude, SettleInterruption, SendReady, SaveReady, SaveFailed, SendError,
      ListTimedOut, TimeOut, Expire, NotifyTimeout, KillTask, hostVars
<1> QED BY <1>1, <1>2, <1>3 DEF Next, WebStep, PostCheck, PostCreate, Tick, hostVars

LEMMA InitIndInv == Init => IndInv
<1> SUFFICES ASSUME Init PROVE IndInv
  OBVIOUS
<1>1. TypeOK
  BY InitTypeOK
<1>2. NumberedInv /\ OwnedWhileInProgress
  BY BoundsAssumption DEF Init, NumberedInv, OwnedWhileInProgress, Reports
<1>3. HeldInv /\ BegunInv /\ OwnerInv
  BY DEF Init, HeldInv, HeldOK, BegunInv, OwnerInv, Holding, Running, NullConfig
<1>4. AgeInv /\ OrderInv
  BY DEF Init, AgeInv, OrderInv, FreshRun
<1> QED BY <1>1, <1>2, <1>3, <1>4 DEF IndInv

LEMMA StepNumbered == IndInv /\ Next => NumberedInv'
<1> SUFFICES ASSUME IndInv, Next, NEW r \in Reports
             PROVE  (status'[r] = "NONE" <=> r > created')
  BY DEF NumberedInv
<1>1. ASSUME NEW p \in Web, PostCreate(p) PROVE status'[r] = "NONE" <=> r > created'
  BY <1>1, BoundsAssumption DEF PostCreate, IndInv, TypeOK, NumberedInv, Reports
<1>2. ASSUME UNCHANGED created,
             status[r] # "NONE" => status'[r] # "NONE",
             status[r] = "NONE" => status'[r] = "NONE"
      PROVE  status'[r] = "NONE" <=> r > created'
  BY <1>2 DEF IndInv, NumberedInv
<1>3. status[r] # "NONE" => status'[r] # "NONE"
  BY EachRowAdvances DEF RowAdvances
<1>4. ASSUME NEW w \in Slots, TaskStep(w) \/ KillTask(w)
      PROVE  UNCHANGED created /\ (status[r] = "NONE" => status'[r] = "NONE")
  <2>1. /\ pc[w] \in Holding => status[held[w]] # "NONE" /\ held[w] \in Reports
        /\ pc[w] = "expire" => status[Newest(expiring[w])] # "NONE"
                               /\ Newest(expiring[w]) \in Reports
    BY HeldFacts DEF IndInv, HeldInv, HeldOK, Begun
  <2>2. CASE UNCHANGED <<status, created>>
    BY <2>2
  <2>3. CASE StartRun(w) \/ SaveFailed(w) \/ SaveReady(w)
    BY <2>1, <2>3 DEF StartRun, SaveFailed, SaveReady, Holding, Running, IndInv, TypeOK
  <2>4. CASE Expire(w)
    BY <2>1, <2>4 DEF Expire, IndInv, TypeOK
  <2> QED BY <1>4, <2>2, <2>3, <2>4
      DEF TaskStep, CheckConcurrency, Query, SelectInterrupted, SelectPending, Take, Claim,
          Build, FetchPages, FetchNothing, BuildFails, ProcessFiles, Move, Conclude,
          SettleInterruption, SendReady, SendError, ListTimedOut, TimeOut, NotifyTimeout,
          KillTask, tableVars, rowVars
<1>5. CASE UNCHANGED <<status, created>>
  BY <1>5, <1>2
<1> QED BY <1>1, <1>2, <1>3, <1>4, <1>5
    DEF Next, PodStep, BeginShutdown, MarkInterrupted, EndShutdown, Crash, StopPod, Restart,
        WebStep, PostCheck, Tick, tableVars, rowVars

LEMMA StepHeld == IndInv /\ Next /\ TypeOK' => HeldInv'
<1> SUFFICES ASSUME IndInv, Next, TypeOK', NEW w \in Slots
             PROVE  HeldOK(w)'
  BY DEF HeldInv
<1>1. HeldOK(w) /\ expiring[w] \in SUBSET Reports
  BY DEF IndInv, HeldInv, TypeOK
<1>2. \A r \in Reports : /\ status[r] # "NONE" => status'[r] # "NONE"
                         /\ Begun(r) => Begun(r)'
  BY EachRowAdvances DEF RowAdvances
<1>3. pc[w] \in Holding => held[w] \in Reports
  BY HeldFacts
<1>4. CASE Kept(w)
  BY <1>1, <1>2, <1>3, <1>4 DEF Kept, HeldOK, Holding, Running, Begun
<1>5. CASE Ended(w)
  BY <1>5 DEF Ended, HeldOK, Holding, Running
<1>6. CASE Moved(w)
  BY <1>1, <1>2, <1>3, <1>6 DEF Moved, HeldOK, Holding, Running, Begun
<1>7. CASE Took(w)
  <2>1. UNCHANGED status /\ held'[w] # NoReport
    BY <1>7, BoundsAssumption DEF Took, SameRows, NoReport, Reports
  <2>2. /\ status[held'[w]] # "NONE"
        /\ started[held'[w]] => Begun(held'[w])
        /\ status[held'[w]] # "PENDING" => Begun(held'[w])
    BY <1>7 DEF Took, IndInv, BegunInv, Begun
  <2> QED BY <1>1, <1>7, <2>1, <2>2 DEF Took, HeldOK, Row, Holding, Running, Begun
<1>8. CASE Listed(w)
  BY <1>1, <1>8 DEF Listed, SameRows, HeldOK, TimedOut, Holding, Running, Begun
<1>9. CASE Expired(w)
  BY <1>1, <1>2, <1>9 DEF Expired, HeldOK, Holding, Running, Begun
<1> QED BY <1>4, <1>5, <1>6, <1>7, <1>8, <1>9, EachSlotSteps DEF SlotSteps

LEMMA StepBegun == IndInv /\ Next => BegunInv'
<1> SUFFICES ASSUME IndInv, Next PROVE BegunInv'
  OBVIOUS
<1>1. ASSUME NEW r \in Reports
      PROVE  /\ started'[r] => Begun(r)'
             /\ config'[r].interrupted = "true" => Begun(r)'
             /\ Begun(r) => Begun(r)'
  BY <1>1, EachRowAdvances DEF RowAdvances
<1>2. ASSUME NEW h \in Hosts, NEW m \in marks'[h] PROVE Begun(m.report)'
  <2>1. m.report \in Reports /\ Begun(m.report)
    BY <1>2, MarksAdvance DEF IndInv, BegunInv, TypeOK
  <2> QED BY <1>1, <2>1
<1> QED BY <1>1, <1>2 DEF BegunInv

LEMMA StepOwner == IndInv /\ Next => OwnerInv' /\ OwnedWhileInProgress'
<1> SUFFICES ASSUME IndInv, Next PROVE OwnerInv' /\ OwnedWhileInProgress'
  OBVIOUS
<1>1. ASSUME NEW r \in Reports
      PROVE  /\ started[r] => started'[r]
             /\ config[r].taskHost \in Hosts => config'[r].taskHost \in Hosts
             /\ status'[r] = "IN_PROGRESS" =>
                    config'[r].taskHost \in Hosts /\ started'[r]
  BY <1>1, EachRowAdvances DEF RowAdvances
<1>2. ASSUME NEW w \in Slots
      PROVE  /\ pc'[w] \in {"start"} \cup Running => config'[held'[w]].taskHost \in Hosts
             /\ pc'[w] \in Holding /\ mem'[w].started => started'[held'[w]]
  <2>1. /\ pc[w] \in {"start"} \cup Running => config[held[w]].taskHost \in Hosts
        /\ pc[w] \in Holding /\ mem[w].started => started[held[w]]
        /\ pc[w] \in Holding => held[w] \in Reports
    BY HeldFacts DEF IndInv, OwnerInv
  <2>2. CASE Kept(w) \/ Ended(w)
    BY <1>1, <2>1, <2>2 DEF Kept, Ended, Holding, Running
  <2>3. CASE Moved(w)
    BY <1>1, <2>1, <2>3 DEF Moved, Holding, Running
  <2>4. CASE Took(w)
    BY <2>4 DEF Took, SameRows, Row, Running
  <2>5. CASE Listed(w) \/ Expired(w)
    BY <2>5 DEF Listed, Expired, Holding, Running
  <2> QED BY <2>2, <2>3, <2>4, <2>5, EachSlotSteps DEF SlotSteps
<1>3. ASSUME NEW h \in Hosts, NEW m \in marks'[h] PROVE m.config.taskHost \in Hosts
  BY <1>3, MarksAdvance DEF IndInv, OwnerInv
<1> QED BY <1>1, <1>2, <1>3 DEF OwnerInv, OwnedWhileInProgress

\* A fresh run is at a step that holds a report.
LEMMA FreshFacts ==
    ASSUME IndInv, NEW w \in Slots, FreshRun(w)
    PROVE  /\ pc[w] \in Holding /\ held[w] \in Reports
           /\ status[held[w]] # "NONE"
<1>1. HeldOK(w)
  BY DEF IndInv, HeldInv
<1>2. pc[w] \in Holding
  BY <1>1 DEF FreshRun, HeldOK, NoRow
<1>3. held[w] \in Reports
  BY <1>2, HeldFacts
<1> QED BY <1>1, <1>2, <1>3 DEF HeldOK

LEMMA StepOrder == IndInv /\ Next => OrderInv'
<1> SUFFICES ASSUME IndInv, Next, NEW w \in Slots, FreshRun(w)',
                    NEW q \in Reports, q < held'[w], status'[q] = "PENDING"
             PROVE  FALSE
  BY DEF OrderInv
<1>1. status[q] = "PENDING" \/ q = created + 1
  BY EachRowAdvances DEF RowAdvances
<1>2. CASE UNCHANGED <<held[w], mem[w]>> /\ pc[w] # "idle"
  <2>1. FreshRun(w) /\ held[w] \in Reports /\ status[held[w]] # "NONE"
    <3>1. FreshRun(w)
      BY <1>2 DEF FreshRun
    <3> QED BY <3>1, FreshFacts
  <2>2. held[w] <= created
    BY <2>1, BoundsAssumption DEF IndInv, NumberedInv, TypeOK, Reports
  <2>3. q # created + 1
    BY <1>2, <2>1, <2>2, BoundsAssumption DEF IndInv, TypeOK, Reports
  <2> QED BY <1>1, <1>2, <2>1, <2>3 DEF IndInv, OrderInv
<1>3. CASE Took(w)
  BY <1>3 DEF Took, SameRows, Row, FreshRun, IndInv, BegunInv, Begun
<1>4. CASE Ended(w) \/ (UNCHANGED <<held[w], mem[w]>> /\ pc[w] = "idle")
  BY <1>4 DEF Ended, FreshRun, IndInv, HeldInv, HeldOK, NoRow, Holding, Running
<1> QED BY <1>2, <1>3, <1>4, EachSlotSteps
    DEF SlotSteps, Kept, Moved, Listed, Expired

\* What timeout_reports lists is not the report of a fresh run.
LEMMA FreshIsNotTimedOut ==
    ASSUME IndInv, NEW w \in Slots, FreshRun(w)
    PROVE  held[w] \notin TimedOut
<1> SUFFICES ASSUME held[w] \in TimedOut PROVE FALSE
  OBVIOUS
<1>1. Begun(held[w]) /\ age[held[w]] > ReportTimeout /\ held[w] \in Reports
  BY DEF TimedOut, Begun
<1>2. age[held[w]] <= taskAge[w]
  BY <1>1 DEF IndInv, AgeInv
<1>3. taskAge[w] \in 0..TaskTimeLimit /\ age[held[w]] \in 0..(ReportTimeout + 1)
  BY <1>1 DEF IndInv, TypeOK
<1> QED BY <1>1, <1>2, <1>3, TimeAssumption

LEMMA StepAge == IndInv /\ Next /\ TypeOK' => AgeInv'
<1> SUFFICES ASSUME IndInv, Next, TypeOK', NEW w \in Slots, FreshRun(w)'
             PROVE  /\ Begun(held[w])' => started'[held'[w]] /\ age'[held'[w]] <= taskAge'[w]
                    /\ \A v \in Slots : held'[w] \notin expiring'[v]
  BY DEF AgeInv
<1>1. CASE UNCHANGED <<held[w], mem[w]>> /\ pc[w] # "idle"
  <2>1. FreshRun(w) /\ pc'[w] # "idle" /\ held'[w] = held[w]
    BY <1>1 DEF FreshRun
  <2>2. held[w] \in Reports
    BY <2>1, FreshFacts
  <2>3. RowAdvances(held[w])
    BY <2>2, EachRowAdvances
  <2>4. /\ taskAge[w] \in Nat /\ age[held[w]] \in Nat
        /\ taskAge'[w] \in Nat /\ age'[held[w]] \in Nat
    <3>1. /\ taskAge[w] \in 0..TaskTimeLimit /\ age[held[w]] \in 0..(ReportTimeout + 1)
          /\ taskAge'[w] \in 0..TaskTimeLimit /\ age'[held[w]] \in 0..(ReportTimeout + 1)
      BY <2>2 DEF IndInv, TypeOK
    <3> QED BY <3>1
  <2>5. CASE Begun(held[w])
    <3>1. started[held[w]] /\ age[held[w]] <= taskAge[w]
      BY <2>1, <2>5 DEF IndInv, AgeInv
    <3>2. age'[held[w]] + taskAge[w] <= age[held[w]] + taskAge'[w]
      BY <1>1, <2>1, <2>2, AgesAdvance
    <3>3. age'[held[w]] <= taskAge'[w]
      BY <2>4, <3>1, <3>2
    <3>4. started'[held[w]]
      BY <2>3, <3>1 DEF RowAdvances
    <3>5. \A v \in Slots : held[w] \notin expiring'[v]
      <4> SUFFICES ASSUME NEW v \in Slots PROVE held[w] \notin expiring'[v]
        OBVIOUS
      <4>1. held[w] \notin expiring[v] /\ held[w] \notin TimedOut
        BY <2>1, FreshIsNotTimedOut DEF IndInv, AgeInv
      <4> QED BY <4>1, EachSlotSteps
          DEF SlotSteps, Kept, Ended, Moved, Took, Listed, Expired
    <3> QED BY <2>1, <3>3, <3>4, <3>5
  <2>6. CASE ~Begun(held[w])
    <3>1. Begun(held[w])' => started'[held[w]] /\ age'[held[w]] = 0
      BY <2>1, <2>3, <2>6 DEF RowAdvances, Begun
    <3>2. \A v \in Slots : held[w] \notin expiring'[v]
      <4> SUFFICES ASSUME NEW v \in Slots PROVE held[w] \notin expiring'[v]
        OBVIOUS
      <4>1. held[w] \notin expiring[v] /\ held[w] \notin TimedOut
        BY <2>1, FreshIsNotTimedOut DEF IndInv, AgeInv
      <4> QED BY <4>1, EachSlotSteps
          DEF SlotSteps, Kept, Ended, Moved, Took, Listed, Expired
    <3> QED BY <2>1, <2>4, <3>1, <3>2
  <2> QED BY <2>5, <2>6
<1>2. CASE Took(w)
  <2>1. held'[w] \in Reports /\ status[held'[w]] = "PENDING" /\ UNCHANGED status
    BY <1>2 DEF Took, SameRows, Row, FreshRun
  <2>2. \A v \in Slots : held'[w] \notin expiring'[v]
    <3> SUFFICES ASSUME NEW v \in Slots PROVE held'[w] \notin expiring'[v]
      OBVIOUS
    <3>1. held'[w] \notin expiring[v] /\ held'[w] \notin TimedOut
      BY <2>1 DEF IndInv, HeldInv, HeldOK, Begun, TimedOut
    <3> QED BY <3>1, EachSlotSteps
        DEF SlotSteps, Kept, Ended, Moved, Took, Listed, Expired
  <2> QED BY <2>1, <2>2 DEF Begun
<1>3. CASE Ended(w) \/ (UNCHANGED <<held[w], mem[w]>> /\ pc[w] = "idle")
  BY <1>3 DEF Ended, FreshRun, IndInv, HeldInv, HeldOK, NoRow, Holding, Running
<1> QED BY <1>1, <1>2, <1>3, EachSlotSteps
    DEF SlotSteps, Kept, Moved, Listed, Expired

-----------------------------------------------------------------------------
(* The theorems.                                                           *)

\* The inductive invariant is kept by every step.
LEMMA StepIndInv == IndInv /\ [Next]_vars => IndInv'
<1> SUFFICES ASSUME IndInv, [Next]_vars PROVE IndInv'
  OBVIOUS
<1>1. TypeOK'
  BY StepTypeOK DEF IndInv
<1>2. CASE Next
  BY <1>1, <1>2, StepNumbered, StepHeld, StepBegun, StepOwner, StepAge, StepOrder DEF IndInv
<1>3. CASE UNCHANGED vars
  <2>1. /\ UNCHANGED <<status, started, age, config, created, pc, held, mem, taskAge,
                       expiring, marks>>
    BY <1>3 DEF vars, tableVars, rowVars, slotVars, hostVars
  <2>2. NumberedInv' /\ BegunInv' /\ OwnedWhileInProgress'
    BY <2>1 DEF IndInv, NumberedInv, BegunInv, Begun, OwnedWhileInProgress
  <2>3. HeldInv' /\ OwnerInv' /\ AgeInv' /\ OrderInv'
    BY <2>1 DEF IndInv, HeldInv, HeldOK, OwnerInv, AgeInv, OrderInv, FreshRun, Begun
  <2> QED BY <1>1, <2>2, <2>3 DEF IndInv
<1> QED BY <1>2, <1>3

\* Only a fresh run starts a report that waits.
LEMMA OnlyFreshRunsStart ==
    ASSUME IndInv, Next, NEW r \in Reports,
           status[r] = "PENDING", status'[r] = "IN_PROGRESS"
    PROVE  \E w \in Slots : FreshRun(w) /\ held[w] = r
<1>1. ASSUME NEW w \in Slots, StartRun(w) PROVE FreshRun(w) /\ held[w] = r
  BY <1>1 DEF StartRun, FreshRun, IndInv, TypeOK
<1>2. ASSUME NEW w \in Slots, SaveFailed(w) \/ SaveReady(w) \/ Expire(w) PROVE FALSE
  BY <1>2 DEF SaveFailed, SaveReady, Expire, IndInv, TypeOK
<1>3. ASSUME NEW p \in Web, PostCreate(p) PROVE FALSE
  BY <1>3 DEF PostCreate, IndInv, TypeOK
<1>4. ~UNCHANGED status
  OBVIOUS
<1>5. ASSUME NEW w \in Slots, TaskStep(w) \/ KillTask(w)
      PROVE  FreshRun(w) /\ held[w] = r
  BY <1>1, <1>2, <1>4, <1>5
     DEF TaskStep, CheckConcurrency, Query, SelectInterrupted, SelectPending, Take, Claim,
         Build, FetchPages, FetchNothing, BuildFails, ProcessFiles, Move, Conclude,
         SettleInterruption, SendReady, SendError, ListTimedOut, TimeOut, NotifyTimeout,
         KillTask, tableVars, rowVars
<1> QED BY <1>3, <1>4, <1>5
    DEF Next, PodStep, BeginShutdown, MarkInterrupted, EndShutdown, Crash, StopPod, Restart,
        WebStep, PostCheck, Tick, tableVars, rowVars

\* Every variable keeps its type.
THEOREM TypeCorrect == Spec => []TypeOK
<1>1. Init => TypeOK
  BY InitTypeOK
<1>2. TypeOK /\ [Next]_vars => TypeOK'
  BY StepTypeOK
<1> QED BY <1>1, <1>2, PTL DEF Spec

\* What a task may rely on holds in every reachable state.
THEOREM Invariance == Spec => []IndInv
BY InitIndInv, StepIndInv, PTL DEF Spec

\* A report in progress has an owner and a start time (tasks.py:113-123,
\* _update_report_status).
THEOREM OwnerIsKnown == Spec => []OwnedWhileInProgress
<1>1. IndInv => OwnedWhileInProgress
  BY DEF IndInv
<1> QED BY <1>1, Invariance, PTL

\* timeout_reports never fails the report of a first run, whatever the number
\* of slots, because the task limit is below the report timeout.
THEOREM FirstRunsAreSafe == Spec => []TimeoutSparesFreshRuns
<1>1. IndInv => TimeoutSparesFreshRuns
  BY FreshIsNotTimedOut DEF IndInv, AgeInv, TimeoutSparesFreshRuns
<1> QED BY <1>1, Invariance, PTL

\* Reports are started oldest first, whatever the number of slots and pods.
THEOREM StartedInOrder == Spec => OldestFirst
<1>1. ASSUME IndInv, [Next]_vars, NEW r \in Reports, NEW q \in Reports,
             status[r] = "PENDING", status'[r] = "IN_PROGRESS", q < r
      PROVE  status[q] # "PENDING"
  <2>1. Next
    BY <1>1 DEF vars, tableVars, rowVars
  <2> QED BY <1>1, <2>1, OnlyFreshRunsStart DEF IndInv, OrderInv
<1>2. IndInv /\ [Next]_vars =>
        [\A r \in Reports : (status[r] = "PENDING" /\ status'[r] = "IN_PROGRESS") =>
           \A q \in Reports : q < r => status[q] # "PENDING"]_vars
  BY <1>1
<1> QED BY <1>2, Invariance, PTL DEF Spec, OldestFirst

-----------------------------------------------------------------------------
(* A deployment with a single slot: what its requesters see.               *)
(*                                                                         *)
(* With one slot the copy of a row that a run works on is never stale: no  *)
(* other run holds the report, and a report is not resumed, because the    *)
(* only pod that claims one is the pod that would have to be another.      *)

OneSlot == \A v, w \in Slots : v = w
OneWeb == \A p, q \in Web : p = q

\* A claim, a mark and the copies of a shutdown handler name the pod of the slot.
OwnPodInv ==
    \A w \in Slots :
        /\ \A r \in Reports :
              /\ config[r].taskHost \in {NoHost, HostOf[w]}
              /\ config[r].interrupted = "true" => config[r].interruptedOn = HostOf[w]
        /\ \A h \in Hosts : \A m \in marks[h] : m.config.taskHost = h /\ h = HostOf[w]

\* The status of the report a run holds is known from the step of the run, and so
\* are the reports that timeout_reports has yet to fail and to tell about.
StageOK(w) ==
    /\ pc[w] \in {"claim", "start"} =>
          status[held[w]] = "PENDING" /\ mem[w].status = "PENDING"
    /\ pc[w] \in Running \ {"failMail"} => status[held[w]] = "IN_PROGRESS"
    /\ pc[w] = "failMail" => status[held[w]] = "FAILED" /\ failMails[held[w]] = 0
    /\ pc[w] \in {"fetch", "files", "settle", "mail"} => readyMails[held[w]] = 0
    /\ pc[w] \in {"expire", "notify"} <=> notifying[w] # {}
    /\ expiring[w] \subseteq notifying[w]
    /\ \A r \in notifying[w] :
          /\ failMails[r] = 0
          /\ status[r] = IF r \in expiring[w] THEN "IN_PROGRESS" ELSE "FAILED"

StageInv == \A w \in Slots : StageOK(w)

\* An e-mail is not sent twice, nor before the status it tells about.
MailsInv ==
    \A r \in Reports :
        /\ readyMails[r] \in {0, 1} /\ failMails[r] \in {0, 1}
        /\ readyMails[r] = 1 => Begun(r)
        /\ failMails[r] = 1 => status[r] = "FAILED"

SingleInv == IndInv /\ OwnPodInv /\ StageInv /\ MailsInv

LEMMA InitSingleInv == Init => SingleInv
<1> SUFFICES ASSUME Init PROVE OwnPodInv /\ StageInv /\ MailsInv
  BY InitIndInv DEF SingleInv
<1>1. OwnPodInv
  BY DEF Init, OwnPodInv, NullConfig
<1>2. StageInv
  BY DEF Init, StageInv, StageOK, Running
<1>3. MailsInv
  BY DEF Init, MailsInv
<1> QED BY <1>1, <1>2, <1>3

\* No report is interrupted elsewhere.
LEMMA NothingToResume ==
    ASSUME OwnPodInv, NEW w \in Slots
    PROVE  InterruptedElsewhere(HostOf[w]) = {}
BY DEF OwnPodInv, InterruptedElsewhere

LEMMA StepOwnPod ==
    ASSUME OneSlot, SingleInv, Next
    PROVE  OwnPodInv'
<1> SUFFICES ASSUME NEW w \in Slots
             PROVE  /\ \A r \in Reports :
                          /\ config'[r].taskHost \in {NoHost, HostOf[w]}
                          /\ config'[r].interrupted = "true" => config'[r].interruptedOn = HostOf[w]
                    /\ \A h \in Hosts : \A m \in marks'[h] : m.config.taskHost = h /\ h = HostOf[w]
  BY DEF OwnPodInv
<1>0. /\ \A r \in Reports :
            /\ config[r].taskHost \in {NoHost, HostOf[w]}
            /\ config[r].interrupted = "true" => config[r].interruptedOn = HostOf[w]
      /\ \A h \in Hosts : \A m \in marks[h] : m.config.taskHost = h /\ h = HostOf[w]
  BY DEF SingleInv, OwnPodInv
<1>1. CASE UNCHANGED <<config, marks>>
  BY <1>0, <1>1
<1>2. ASSUME NEW v \in Slots, Claim(v) PROVE UNCHANGED marks /\ \E r \in Reports, c \in Configs :
             /\ config' = [config EXCEPT ![r] = c]
             /\ c.taskHost = HostOf[w] /\ c.interrupted # "true"
  <2>1. v = w /\ held[w] \in Reports /\ mem[w].config \in Configs /\ HostOf[w] \in Hosts
    BY <1>2, HeldFacts, HostsAssumption DEF OneSlot, SingleInv, Claim, Holding, Rows
  <2> QED BY <1>2, <2>1, ClaimedConfigFacts DEF Claim, hostVars
<1>3. ASSUME NEW h \in Hosts, MarkInterrupted(h)
      PROVE  \E m \in marks[h], c \in Configs :
                /\ m.report \in Reports
                /\ config' = [config EXCEPT ![m.report] = c]
                /\ c.taskHost = HostOf[w] /\ c.interruptedOn = HostOf[w]
                /\ marks' = [marks EXCEPT ![h] = @ \ {m}]
  <2>1. PICK m \in marks[h] :
          /\ config' = [config EXCEPT ![m.report] = InterruptedConfig(m.config, h)]
          /\ marks' = [marks EXCEPT ![h] = @ \ {m}]
    BY <1>3 DEF MarkInterrupted
  <2>2. m.report \in Reports /\ m.config \in Configs
    BY DEF SingleInv, IndInv, TypeOK
  <2>3. m.config.taskHost = HostOf[w] /\ h = HostOf[w]
    BY <1>0
  <2>4. /\ InterruptedConfig(m.config, h) \in Configs
        /\ InterruptedConfig(m.config, h).taskHost = HostOf[w]
        /\ InterruptedConfig(m.config, h).interruptedOn = HostOf[w]
    BY <2>2, <2>3 DEF InterruptedConfig, Configs
  <2> QED BY <2>1, <2>2, <2>4
<1>4. /\ marks \in [Hosts -> SUBSET [report: Reports, config: Configs]]
      /\ config \in [Reports -> Configs]
  BY DEF SingleInv, IndInv, TypeOK
<1>5. CASE \E v \in Slots : Claim(v)
  BY <1>0, <1>2, <1>4, <1>5
<1>6. CASE \E h \in Hosts : MarkInterrupted(h)
  BY <1>0, <1>3, <1>4, <1>6
<1>7. ASSUME NEW h \in Hosts, BeginShutdown(h)
      PROVE  /\ UNCHANGED config
             /\ \A g \in Hosts : \A m \in marks'[g] : m.config.taskHost = g /\ g = HostOf[w]
  <2>1. h # NoHost
    BY HostsAssumption
  <2>2. \A m \in marks'[h] : m.config.taskHost = h /\ h = HostOf[w]
    BY <1>0, <1>4, <1>7, <2>1 DEF BeginShutdown
  <2>3. \A g \in Hosts \ {h} : marks'[g] = marks[g]
    BY <1>4, <1>7 DEF BeginShutdown
  <2> QED BY <1>0, <1>7, <2>2, <2>3 DEF BeginShutdown, tableVars, rowVars
<1>8. ASSUME NEW h \in Hosts, EndShutdown(h) \/ Crash(h)
      PROVE  UNCHANGED config /\ \A g \in Hosts : marks'[g] \subseteq marks[g]
  BY <1>4, <1>8 DEF EndShutdown, Crash, StopPod, tableVars, rowVars
<1>9. ASSUME NEW h \in Hosts, PodStep(h)
      PROVE  Restart(h) \/ MarkInterrupted(h) \/ BeginShutdown(h) \/ EndShutdown(h) \/ Crash(h)
  BY <1>9 DEF PodStep
<1>10. CASE \E h \in Hosts : PodStep(h)
  <2> PICK h \in Hosts : PodStep(h)
    BY <1>10
  <2>1. CASE Restart(h)
    BY <2>1, <1>1 DEF Restart, tableVars, rowVars
  <2>2. CASE BeginShutdown(h)
    BY <2>2, <1>7, <1>0
  <2>3. CASE EndShutdown(h) \/ Crash(h)
    BY <2>3, <1>8, <1>0
  <2> QED BY <1>6, <1>9, <2>1, <2>2, <2>3
<1>11. ASSUME NEW v \in Slots, TaskStep(v) \/ KillTask(v)
       PROVE  UNCHANGED <<config, marks>> \/ Claim(v)
  BY <1>11 DEF TaskStep, CheckConcurrency, Query, SelectInterrupted, SelectPending, Take,
      StartRun, Build, FetchPages, FetchNothing, BuildFails, ProcessFiles, Move,
      Conclude, SettleInterruption, SendReady, SaveReady, SaveFailed, SendError,
      ListTimedOut, TimeOut, Expire, NotifyTimeout, KillTask, hostVars, tableVars, rowVars
<1> QED BY <1>1, <1>5, <1>10, <1>11
    DEF Next, WebStep, PostCheck, PostCreate, Tick, hostVars, tableVars, rowVars

\* The files, the statuses and the e-mails of the requests.
NoNews == UNCHANGED <<status, readyMails, failMails>>

\* What a step of the slot does to its stage.
LEMMA SlotStages ==
    ASSUME OneSlot, SingleInv, NEW w \in Slots, TaskStep(w) \/ KillTask(w)
    PROVE  StageOK(w)'
<1>1. /\ StageOK(w) /\ HeldOK(w) /\ held[w] \in Reports \cup {NoReport}
      /\ pc[w] \in Holding => held[w] \in Reports
      /\ \A r \in Reports : /\ readyMails[r] \in {0, 1} /\ failMails[r] \in {0, 1}
                            /\ readyMails[r] = 1 => Begun(r)
                            /\ failMails[r] = 1 => status[r] = "FAILED"
  BY HeldFacts DEF SingleInv, StageInv, MailsInv, IndInv, HeldInv, TypeOK
<1>2. /\ pc \in [Slots -> Steps] /\ held \in [Slots -> Reports \cup {NoReport}]
      /\ mem \in [Slots -> Rows] /\ status \in [Reports -> Statuses]
      /\ expiring \in [Slots -> SUBSET Reports] /\ notifying \in [Slots -> SUBSET Reports]
      /\ readyMails \in [Reports -> 0..MailCap] /\ failMails \in [Reports -> 0..MailCap]
  BY DEF SingleInv, IndInv, TypeOK
<1>3. CASE EndTask({w})
  BY <1>2, <1>3 DEF EndTask, StageOK, Running
<1>4. CASE CheckConcurrency(w)
  BY <1>1, <1>2, <1>4 DEF CheckConcurrency, CanTakeTask, Goto, StageOK, Running, tableVars, rowVars, mailVars
<1>5. CASE SelectInterrupted(w)
  BY <1>1, <1>2, <1>5, NothingToResume
     DEF SelectInterrupted, Goto, StageOK, Running, tableVars, rowVars, mailVars, SingleInv
<1>6. CASE SelectPending(w)
  <2>1. CASE Pending # {} /\ Take(w, Pending)
    <3>1. Oldest(Pending) \in Pending
      <4>1. Pending \in SUBSET Reports
        BY DEF Pending
      <4> QED BY <2>1, <4>1, OldestIsLeast
    <3>2. /\ held' = [held EXCEPT ![w] = Oldest(Pending)] /\ Oldest(Pending) \in Reports
          /\ mem' = [mem EXCEPT ![w] = Row(Oldest(Pending))]
          /\ pc' = [pc EXCEPT ![w] = "claim"] /\ UNCHANGED <<status, expiring, notifying, failMails>>
          /\ status[Oldest(Pending)] = "PENDING"
      BY <2>1, <3>1 DEF Take, Goto, Pending, tableVars, rowVars, mailVars
    <3>3. pc'[w] = "claim" /\ held'[w] = Oldest(Pending) /\ mem'[w] = Row(Oldest(Pending))
      <4> HIDE DEF Oldest, Row
      <4> QED BY <1>2, <3>2
    <3>4. mem'[w].status = "PENDING"
      BY <3>2, <3>3 DEF Row
    <3>5. notifying[w] = {}
      BY <1>1, <1>6 DEF StageOK, SelectPending
    <3> QED BY <3>2, <3>3, <3>4, <3>5, <1>1 DEF StageOK, Running
  <2> QED BY <1>3, <1>6, <2>1 DEF SelectPending
<1>7. CASE Claim(w)
  BY <1>1, <1>2, <1>7 DEF Claim, Goto, StageOK, Running, mailVars
<1>8. CASE StartRun(w)
  BY <1>1, <1>2, <1>8 DEF StartRun, Goto, StageOK, Running, Holding, mailVars, Begun
<1>9. CASE Build(w)
  <2>1. PICK point \in {"files", "fail", "settle"} :
           /\ pc[w] \in {"fetch", "files"} /\ pc' = [pc EXCEPT ![w] = point]
           /\ UNCHANGED <<status, held, mem, expiring, notifying, readyMails, failMails>>
    BY <1>9 DEF Build, FetchPages, FetchNothing, BuildFails, ProcessFiles, Move, Goto,
                tableVars, rowVars, mailVars
  <2> QED BY <1>1, <1>2, <2>1 DEF StageOK, Running
<1>10. CASE SaveFailed(w)
  BY <1>1, <1>2, <1>10 DEF SaveFailed, Goto, StageOK, Running, Holding, mailVars
<1>11. CASE SendError(w) \/ SaveReady(w) \/ KillTask(w)
  BY <1>3, <1>11 DEF SendError, SaveReady, KillTask
<1>12. CASE SettleInterruption(w)
  <2>1. CASE /\ pc[w] = "settle" /\ pc' = [pc EXCEPT ![w] = "mail"]
             /\ UNCHANGED <<status, held, mem, expiring, notifying, readyMails, failMails>>
    BY <1>1, <1>2, <2>1 DEF StageOK, Running
  <2> QED BY <1>3, <1>12, <2>1 DEF SettleInterruption, Goto, tableVars, rowVars, mailVars
<1>13. CASE SendReady(w)
  <2>1. /\ pc[w] = "mail" /\ pc' = [pc EXCEPT ![w] = "ready"]
        /\ UNCHANGED <<status, held, mem, expiring, notifying, failMails>>
    BY <1>13 DEF SendReady, Goto, tableVars, rowVars, mailVars
  <2> QED BY <1>1, <1>2, <2>1 DEF StageOK, Running
<1>14. CASE ListTimedOut(w)
  <2>1. /\ pc[w] = "idle" /\ pc' = [pc EXCEPT ![w] = "expire"] /\ TimedOut # {}
        /\ expiring'[w] = TimedOut /\ notifying'[w] = TimedOut
        /\ UNCHANGED <<status, held, mem, readyMails, failMails>>
    BY <1>2, <1>14 DEF ListTimedOut, CanTakeTask, Goto, tableVars, rowVars, mailVars
  <2>2. \A r \in TimedOut : r \in Reports /\ status[r] = "IN_PROGRESS" /\ failMails[r] = 0
    BY <1>1 DEF TimedOut
  <2> QED BY <1>1, <1>2, <2>1, <2>2 DEF StageOK, Running
<1>15. CASE Expire(w)
  <2>1. PICK r : r = Newest(expiring[w])
    OBVIOUS
  <2>2. pc[w] = "expire" /\ r \in expiring[w]
    BY <1>15, <2>1, HeldFacts DEF Expire, SingleInv
  <2>3. /\ status' = [status EXCEPT ![r] = "FAILED"]
        /\ expiring' = [expiring EXCEPT ![w] = expiring[w] \ {r}]
        /\ pc' = [pc EXCEPT ![w] = IF expiring[w] = {r} THEN "notify" ELSE "expire"]
        /\ UNCHANGED <<held, mem, notifying, readyMails, failMails>>
    BY <1>15, <2>1 DEF Expire, Goto, mailVars
  <2> QED BY <1>1, <1>2, <2>2, <2>3 DEF StageOK, Running
<1>16. CASE NotifyTimeout(w)
  <2>1. PICK r : r = Newest(notifying[w])
    OBVIOUS
  <2>2. pc[w] = "notify" /\ r \in notifying[w] /\ r \in Reports
    <3>1. notifying[w] # {} /\ notifying[w] \in SUBSET Reports /\ pc[w] = "notify"
      BY <1>1, <1>2, <1>16 DEF NotifyTimeout, StageOK
    <3> QED BY <2>1, <3>1, NewestIsMember
  <2>3. CASE /\ notifying[w] # {r}
             /\ notifying' = [notifying EXCEPT ![w] = notifying[w] \ {r}]
             /\ failMails' = Count(failMails, r) \/ UNCHANGED failMails
             /\ UNCHANGED <<status, pc, held, mem, expiring, readyMails>>
    <3>1. \A q \in Reports \ {r} : failMails'[q] = failMails[q]
      BY <1>2, <2>3 DEF Count
    <3>2. notifying'[w] = notifying[w] \ {r}
      BY <1>2, <2>3
    <3>3. expiring[w] = {} /\ notifying'[w] # {}
      BY <1>1, <2>2, <2>3, <3>2 DEF HeldOK
    <3>4. \A q \in notifying'[w] : q \in Reports \ {r} /\ q \in notifying[w]
      BY <1>2, <3>2
    <3> QED BY <1>1, <2>2, <2>3, <3>1, <3>2, <3>3, <3>4 DEF StageOK, Running
  <2> QED BY <1>3, <1>16, <2>1, <2>3 DEF NotifyTimeout, DeliverError, tableVars, rowVars
<1> QED BY <1>4, <1>5, <1>6, <1>7, <1>8, <1>9, <1>10, <1>11, <1>12, <1>13, <1>14, <1>15, <1>16
    DEF TaskStep, Query, Conclude, TimeOut

\* Every step is one the requesters were promised, or one they do not see.
LEMMA StepLifecycle ==
    ASSUME OneSlot, SingleInv, Next
    PROVE  NoNews \/ Lifecycle!Next
<1>0. /\ status \in [Reports -> Statuses] /\ Reports = Lifecycle!Requests
      /\ readyMails \in [Reports -> 0..MailCap] /\ failMails \in [Reports -> 0..MailCap]
      /\ \A r \in Reports : /\ readyMails[r] \in {0, 1} /\ failMails[r] \in {0, 1}
                            /\ readyMails[r] = 1 => Begun(r)
                            /\ failMails[r] = 1 => status[r] = "FAILED"
      /\ 0 < MailCap
  BY BoundsAssumption DEF SingleInv, MailsInv, IndInv, TypeOK, Reports, Lifecycle!Requests
<1>1. ASSUME NEW w \in Slots, StartRun(w) PROVE Lifecycle!Next
  <2>1. /\ pc[w] = "start" /\ status[held[w]] = "PENDING" /\ mem[w].status = "PENDING"
        /\ held[w] \in Reports /\ FreshRun(w)
    BY <1>1, HeldFacts DEF StartRun, SingleInv, StageInv, StageOK, Holding, FreshRun
  <2>2. \A q \in Reports : q < held[w] => status[q] # "PENDING"
    BY <2>1 DEF SingleInv, IndInv, OrderInv
  <2>3. status' = [status EXCEPT ![held[w]] = "IN_PROGRESS"] /\ UNCHANGED <<readyMails, failMails>>
    BY <1>1, <2>1 DEF StartRun, mailVars
  <2> QED BY <1>0, <2>1, <2>2, <2>3 DEF Lifecycle!Next, Lifecycle!Start, Lifecycle!Step
<1>2. ASSUME NEW w \in Slots, SaveFailed(w) PROVE Lifecycle!Next
  <2>1. /\ held[w] \in Reports /\ status[held[w]] = "IN_PROGRESS"
        /\ status' = [status EXCEPT ![held[w]] = "FAILED"] /\ UNCHANGED <<readyMails, failMails>>
    BY <1>2, HeldFacts DEF SaveFailed, SingleInv, StageInv, StageOK, Holding, Running, mailVars
  <2> QED BY <1>0, <2>1 DEF Lifecycle!Next, Lifecycle!Fail, Lifecycle!Step
<1>3. ASSUME NEW w \in Slots, SaveReady(w) PROVE Lifecycle!Next
  <2>1. /\ held[w] \in Reports /\ status[held[w]] = "IN_PROGRESS"
        /\ status' = [status EXCEPT ![held[w]] = "READY"] /\ UNCHANGED <<readyMails, failMails>>
    BY <1>3, HeldFacts DEF SaveReady, SingleInv, StageInv, StageOK, Holding, Running, mailVars
  <2> QED BY <1>0, <2>1 DEF Lifecycle!Next, Lifecycle!Complete, Lifecycle!Step
<1>4. ASSUME NEW w \in Slots, Expire(w) PROVE Lifecycle!Next
  <2>1. PICK r : r = Newest(expiring[w])
    OBVIOUS
  <2>2. r \in expiring[w] /\ r \in Reports
    BY <1>4, <2>1, HeldFacts DEF Expire, SingleInv
  <2>3. r \in notifying[w] /\ status[r] = "IN_PROGRESS"
    BY <2>2 DEF SingleInv, StageInv, StageOK
  <2>4. status' = [status EXCEPT ![r] = "FAILED"] /\ UNCHANGED <<readyMails, failMails>>
    BY <1>4, <2>1 DEF Expire, mailVars
  <2> QED BY <1>0, <2>2, <2>3, <2>4 DEF Lifecycle!Next, Lifecycle!Fail, Lifecycle!Step
<1>5. ASSUME NEW r \in Reports, status[r] = "FAILED", failMails[r] = 0, DeliverError(r),
             UNCHANGED <<status, readyMails>>
      PROVE  NoNews \/ Lifecycle!Next
  <2>1. CASE failMails' = Count(failMails, r)
    <3>1. failMails' = [failMails EXCEPT ![r] = 1]
      BY <1>0, <1>5, <2>1 DEF Count
    <3> QED BY <1>0, <1>5, <3>1 DEF Lifecycle!Next, Lifecycle!MailFailure
  <2> QED BY <1>5, <2>1 DEF DeliverError, NoNews
<1>6. ASSUME NEW w \in Slots, SendError(w) PROVE NoNews \/ Lifecycle!Next
  <2>1. held[w] \in Reports /\ status[held[w]] = "FAILED" /\ failMails[held[w]] = 0
    BY <1>6, HeldFacts DEF SendError, SingleInv, StageInv, StageOK, Holding, Running
  <2> QED BY <1>5, <1>6, <2>1 DEF SendError, tableVars, rowVars
<1>7. ASSUME NEW w \in Slots, NotifyTimeout(w) PROVE NoNews \/ Lifecycle!Next
  <2>1. PICK r : r = Newest(notifying[w])
    OBVIOUS
  <2>2. notifying[w] \in SUBSET Reports /\ notifying[w] # {} /\ expiring[w] = {}
    BY <1>7 DEF NotifyTimeout, SingleInv, StageInv, StageOK, IndInv, TypeOK, HeldInv, HeldOK
  <2>3. r \in notifying[w] /\ r \in Reports
    BY <2>1, <2>2, NewestIsMember
  <2>4. status[r] = "FAILED" /\ failMails[r] = 0
    BY <2>2, <2>3 DEF SingleInv, StageInv, StageOK
  <2> QED BY <1>5, <1>7, <2>1, <2>3, <2>4 DEF NotifyTimeout, tableVars, rowVars
<1>8. ASSUME NEW w \in Slots, SendReady(w) PROVE NoNews \/ Lifecycle!Next
  <2>1. held[w] \in Reports /\ status[held[w]] = "IN_PROGRESS" /\ readyMails[held[w]] = 0
    BY <1>8, HeldFacts DEF SendReady, SingleInv, StageInv, StageOK, Holding, Running
  <2>2. CASE readyMails' = Count(readyMails, held[w])
    <3>1. readyMails' = [readyMails EXCEPT ![held[w]] = 1]
      BY <1>0, <2>1, <2>2 DEF Count
    <3>2. UNCHANGED <<status, failMails>>
      BY <1>8 DEF SendReady, tableVars, rowVars
    <3> QED BY <1>0, <2>1, <3>1, <3>2 DEF Lifecycle!Next, Lifecycle!MailFiles
  <2> QED BY <1>8, <2>2 DEF SendReady, NoNews, tableVars, rowVars
<1>9. ASSUME NEW p \in Web, PostCreate(p) PROVE Lifecycle!Next
  <2>1. created + 1 \in Reports /\ status[created + 1] = "NONE"
    BY <1>9, BoundsAssumption
       DEF PostCreate, SingleInv, IndInv, TypeOK, NumberedInv, Reports
  <2>2. \A q \in Reports : q < created + 1 => status[q] # "NONE"
    BY BoundsAssumption DEF SingleInv, IndInv, TypeOK, NumberedInv, Reports
  <2>3. status' = [status EXCEPT ![created + 1] = "PENDING"] /\ UNCHANGED <<readyMails, failMails>>
    BY <1>9 DEF PostCreate, mailVars
  <2> QED BY <1>0, <2>1, <2>2, <2>3 DEF Lifecycle!Next, Lifecycle!Queue, Lifecycle!Step
<1>10. ASSUME NEW w \in Slots, TaskStep(w) \/ KillTask(w)
       PROVE  \/ NoNews \/ StartRun(w) \/ SaveFailed(w) \/ SaveReady(w) \/ Expire(w)
              \/ SendError(w) \/ NotifyTimeout(w) \/ SendReady(w)
  BY <1>10 DEF TaskStep, CheckConcurrency, Query, SelectInterrupted, SelectPending, Take,
      Claim, Build, FetchPages, FetchNothing, BuildFails, ProcessFiles, Move, Conclude,
      SettleInterruption, ListTimedOut, TimeOut, KillTask, tableVars, rowVars, mailVars, NoNews
<1> QED BY <1>1, <1>2, <1>3, <1>4, <1>6, <1>7, <1>8, <1>9, <1>10
    DEF Next, PodStep, BeginShutdown, MarkInterrupted, EndShutdown, Crash, StopPod, Restart,
        WebStep, PostCheck, Tick, tableVars, rowVars, mailVars, NoNews

LEMMA StepMails ==
    ASSUME OneSlot, SingleInv, Next
    PROVE  MailsInv'
<1>1. /\ status \in [Reports -> Statuses] /\ Reports = Lifecycle!Requests
      /\ readyMails \in [Reports -> 0..MailCap] /\ failMails \in [Reports -> 0..MailCap]
      /\ \A r \in Reports : /\ readyMails[r] \in {0, 1} /\ failMails[r] \in {0, 1}
                            /\ readyMails[r] = 1 => Begun(r)
                            /\ failMails[r] = 1 => status[r] = "FAILED"
  BY DEF SingleInv, MailsInv, IndInv, TypeOK, Reports, Lifecycle!Requests
<1>2. CASE NoNews
  BY <1>1, <1>2 DEF NoNews, MailsInv, Begun
<1>3. CASE Lifecycle!Next
  <2>1. PICK q \in Reports :
          \/ Lifecycle!Queue(q) \/ Lifecycle!Start(q) \/ Lifecycle!MailFiles(q)
          \/ Lifecycle!Complete(q) \/ Lifecycle!Fail(q) \/ Lifecycle!MailFailure(q)
    BY <1>1, <1>3 DEF Lifecycle!Next
  <2>2. CASE Lifecycle!Queue(q) \/ Lifecycle!Start(q) \/ Lifecycle!Complete(q) \/ Lifecycle!Fail(q)
    BY <1>1, <2>2 DEF Lifecycle!Queue, Lifecycle!Start, Lifecycle!Complete, Lifecycle!Fail,
                      Lifecycle!Step, MailsInv, Begun
  <2>3. CASE Lifecycle!MailFiles(q) \/ Lifecycle!MailFailure(q)
    BY <1>1, <2>3 DEF Lifecycle!MailFiles, Lifecycle!MailFailure, MailsInv, Begun
  <2> QED BY <2>1, <2>2, <2>3
<1> QED BY <1>2, <1>3, StepLifecycle

LEMMA StepStages ==
    ASSUME OneSlot, SingleInv, Next
    PROVE  StageInv'
<1> SUFFICES ASSUME NEW w \in Slots PROVE StageOK(w)'
  BY DEF StageInv
<1>1. /\ StageOK(w) /\ HeldOK(w) /\ held[w] \in Reports \cup {NoReport}
      /\ pc[w] \in Holding => held[w] \in Reports
  BY HeldFacts DEF SingleInv, StageInv, IndInv, HeldInv, TypeOK
<1>2. ASSUME NEW v \in Slots, TaskStep(v) \/ KillTask(v) PROVE StageOK(w)'
  <2>1. v = w
    BY DEF OneSlot
  <2> QED BY <1>2, <2>1, SlotStages
<1>3. CASE UNCHANGED slotVars /\ NoNews
  BY <1>1, <1>3 DEF slotVars, NoNews, StageOK, Running
<1>4. ASSUME NEW p \in Web, PostCreate(p) PROVE StageOK(w)'
  <2>1. status[created + 1] = "NONE" /\ status \in [Reports -> Statuses]
    BY <1>4, BoundsAssumption
       DEF PostCreate, SingleInv, IndInv, TypeOK, NumberedInv, Reports
  <2>2. \A r : status[r] \in {"PENDING", "IN_PROGRESS", "FAILED"} /\ r \in Reports => status'[r] = status[r]
    BY <1>4, <2>1 DEF PostCreate
  <2>3. notifying[w] \subseteq Reports
    BY DEF SingleInv, IndInv, TypeOK
  <2> QED BY <1>1, <1>4, <2>2, <2>3 DEF PostCreate, slotVars, mailVars, StageOK, Running, Holding
<1>5. ASSUME NEW h \in Hosts, PodStep(h) PROVE StageOK(w)'
  <2>1. CASE UNCHANGED slotVars
    <3>1. NoNews
      BY <1>5 DEF PodStep, BeginShutdown, MarkInterrupted, EndShutdown, Crash, StopPod, Restart,
                  NoNews, tableVars, rowVars, mailVars
    <3> QED BY <1>3, <2>1, <3>1
  <2>2. CASE StopPod(h) /\ w \in SlotsOf(h)
    BY <2>2 DEF StopPod, EndTask, StageOK, Running
  <2>3. CASE StopPod(h) /\ w \notin SlotsOf(h)
    BY <1>1, <2>3 DEF StopPod, EndTask, StageOK, Running, tableVars, rowVars, mailVars
  <2> QED BY <1>5, <2>1, <2>2, <2>3
      DEF PodStep, BeginShutdown, MarkInterrupted, EndShutdown, Crash, Restart
<1>6. CASE Tick
  BY <1>1, <1>6 DEF Tick, mailVars, StageOK, Running
<1> QED BY <1>2, <1>3, <1>4, <1>5, <1>6
    DEF Next, WebStep, PostCheck, NoNews, tableVars, rowVars, mailVars

LEMMA StepSingleInv == ASSUME OneSlot PROVE SingleInv /\ [Next]_vars => SingleInv'
<1> SUFFICES ASSUME SingleInv, [Next]_vars PROVE SingleInv'
  OBVIOUS
<1>1. IndInv'
  BY StepIndInv DEF SingleInv
<1>2. CASE Next
  BY <1>1, <1>2, StepOwnPod, StepStages, StepMails DEF SingleInv
<1>3. CASE UNCHANGED vars
  <2>1. /\ UNCHANGED <<status, config, pc, held, mem, expiring, notifying, marks>>
        /\ UNCHANGED <<readyMails, failMails>>
    BY <1>3 DEF vars, tableVars, rowVars, slotVars, hostVars, mailVars
  <2>2. OwnPodInv' /\ StageInv'
    BY <2>1 DEF SingleInv, OwnPodInv, StageInv, StageOK
  <2>3. MailsInv'
    BY <2>1 DEF SingleInv, MailsInv, Begun
  <2> QED BY <1>1, <2>2, <2>3 DEF SingleInv
<1> QED BY <1>2, <1>3

\* A report that ended does not change, and one that waits or runs has been created.
LEMMA TerminalStays ==
    ASSUME OneSlot, SingleInv, [Next]_vars, NEW r \in Reports, Terminal(r)
    PROVE  status'[r] = status[r]
<1>1. status \in [Reports -> Statuses] /\ Reports = Lifecycle!Requests
  BY DEF SingleInv, IndInv, TypeOK, Reports, Lifecycle!Requests
<1>2. CASE Lifecycle!Next
  <2>1. PICK q \in Reports :
          \/ Lifecycle!Queue(q) \/ Lifecycle!Start(q) \/ Lifecycle!MailFiles(q)
          \/ Lifecycle!Complete(q) \/ Lifecycle!Fail(q) \/ Lifecycle!MailFailure(q)
    BY <1>1, <1>2 DEF Lifecycle!Next
  <2> QED BY <1>1, <2>1
      DEF Lifecycle!Queue, Lifecycle!Start, Lifecycle!Complete, Lifecycle!Fail,
          Lifecycle!MailFiles, Lifecycle!MailFailure, Lifecycle!Step, Terminal
<1>3. CASE UNCHANGED vars
  BY <1>3 DEF vars, tableVars, rowVars
<1> QED BY <1>2, <1>3, StepLifecycle DEF NoNews

\* The project that the web process has checked has no active report, and the
\* active reports of a project are one.
FreeInv ==
    /\ \A p \in Web : web[p] # NoProject => ActiveReports(web[p]) = {}
    /\ \A r, q \in Reports : Active(r) /\ Active(q) /\ project[r] = project[q] => r = q

LEMMA StepFree ==
    ASSUME OneSlot, OneWeb
    PROVE  SingleInv /\ FreeInv /\ [Next]_vars => FreeInv'
<1> SUFFICES ASSUME SingleInv, FreeInv, [Next]_vars PROVE FreeInv'
  OBVIOUS
<1>1. /\ status \in [Reports -> Statuses] /\ project \in [Reports -> Projects \cup {NoProject}]
      /\ web \in [Web -> Projects \cup {NoProject}] /\ created \in 0..MaxReports
      /\ NumberedInv
  BY DEF SingleInv, IndInv, TypeOK
<1>2. ASSUME NEW p \in Web, PostCreate(p) PROVE FreeInv'
  <2>1. created + 1 \in Reports /\ status[created + 1] = "NONE" /\ ActiveReports(web[p]) = {}
    BY <1>1, <1>2, BoundsAssumption DEF PostCreate, NumberedInv, Reports, FreeInv
  <2>2. /\ status' = [status EXCEPT ![created + 1] = "PENDING"]
        /\ project' = [project EXCEPT ![created + 1] = web[p]]
        /\ \A q \in Web : q = p /\ web'[q] = NoProject
    BY <1>1, <1>2 DEF PostCreate, OneWeb
  <2>3. \A r \in Reports \ {created + 1} :
           /\ Active(r)' <=> Active(r)
           /\ project'[r] = project[r]
           /\ Active(r) => project[r] # web[p]
    BY <1>1, <2>1, <2>2 DEF Active, ActiveReports
  <2>4. project'[created + 1] = web[p]
    BY <1>1, <2>1, <2>2
  <2> QED BY <2>2, <2>3, <2>4 DEF FreeInv
<1>3. CASE UNCHANGED <<created, project>>
  <2>1. \A r \in Reports : Active(r)' => Active(r)
    <3> SUFFICES ASSUME NEW r \in Reports, Active(r)' PROVE Active(r)
      OBVIOUS
    <3>1. status[r] # "NONE"
      <4>1. NumberedInv'
        BY StepIndInv DEF SingleInv, IndInv
      <4> QED BY <1>1, <1>3, <4>1 DEF NumberedInv, Active
    <3>2. ~Terminal(r)
      BY TerminalStays DEF Active, Terminal
    <3> QED BY <1>1, <3>1, <3>2 DEF Active, Terminal, Statuses
  <2>2. \A j : ActiveReports(j) = {} => ActiveReports(j)' = {}
    BY <1>3, <2>1 DEF ActiveReports
  <2>3. ASSUME NEW p \in Web, NEW j \in Projects, PostCheck(p, j) PROVE FreeInv'
    BY <1>1, <1>3, <2>1, <2>2, <2>3 DEF PostCheck, FreeInv
  <2>4. CASE UNCHANGED web
    BY <1>3, <2>1, <2>2, <2>4 DEF FreeInv
  <2>5. ASSUME NEW w \in Slots, TaskStep(w) \/ KillTask(w) PROVE UNCHANGED web
    BY <2>5 DEF TaskStep, CheckConcurrency, Query, SelectInterrupted, SelectPending, Take,
      Claim, StartRun, Build, FetchPages, FetchNothing, BuildFails, ProcessFiles, Move,
      Conclude, SettleInterruption, SendReady, SaveReady, SaveFailed, SendError,
      ListTimedOut, TimeOut, Expire, NotifyTimeout, KillTask
  <2> QED BY <1>2, <2>3, <2>4, <2>5
      DEF Next, PodStep, BeginShutdown, MarkInterrupted, EndShutdown, Crash, StopPod, Restart,
          WebStep, Tick, vars
<1>4. ASSUME NEW w \in Slots, TaskStep(w) \/ KillTask(w) PROVE UNCHANGED <<created, project>>
  BY <1>4 DEF TaskStep, CheckConcurrency, Query, SelectInterrupted, SelectPending, Take,
      Claim, StartRun, Build, FetchPages, FetchNothing, BuildFails, ProcessFiles, Move,
      Conclude, SettleInterruption, SendReady, SaveReady, SaveFailed, SendError,
      ListTimedOut, TimeOut, Expire, NotifyTimeout, KillTask, tableVars
<1> QED BY <1>2, <1>3, <1>4
    DEF Next, PodStep, BeginShutdown, MarkInterrupted, EndShutdown, Crash, StopPod, Restart,
        WebStep, PostCheck, Tick, vars, tableVars

LEMMA FreeMeansOne ==
    ASSUME FreeInv, NEW j \in Projects
    PROVE  Cardinality(ActiveReports(j)) <= 1
<1>1. PICK active : active = ActiveReports(j)
  OBVIOUS
<1>2. CASE active = {}
  <2>1. Cardinality(active) = 0
    BY <1>2, FS_EmptySet
  <2> QED BY <1>1, <2>1
<1>3. CASE active # {}
  <2>1. PICK r : r \in active
    BY <1>3
  <2>2. active = {r}
    BY <1>1, <2>1 DEF FreeInv, ActiveReports
  <2>3. Cardinality(active) = 1
    BY <2>2, FS_Singleton
  <2> QED BY <1>1, <2>3
<1> QED BY <1>2, <1>3

\* With one slot the requester's view is kept: a report is queued, started in turn
\* and ends once, and no e-mail is sent twice (generate, timeout_reports, the
\* shutdown handler, whatever they are interrupted by).
THEOREM SingleSlotLifecycle == ASSUME OneSlot PROVE Spec => LifecycleSpec
<1>1. Init => Lifecycle!Init
  BY DEF Init, Lifecycle!Init, Reports, Lifecycle!Requests
<1>2. SingleInv /\ [Next]_vars => [Lifecycle!Next]_Lifecycle!lifecycleVars
  <2>1. CASE UNCHANGED vars
    BY <2>1 DEF vars, tableVars, rowVars, mailVars, Lifecycle!lifecycleVars
  <2> QED BY <2>1, StepLifecycle DEF NoNews, Lifecycle!lifecycleVars
<1>3. SingleInv /\ [Next]_vars => SingleInv'
  BY StepSingleInv
<1> QED BY <1>1, <1>2, <1>3, InitSingleInv, PTL DEF Spec, LifecycleSpec, Lifecycle!Spec

\* With one slot no later run and no timeout changes how a report ended.
THEOREM EndingIsFinal == ASSUME OneSlot PROVE Spec => TerminalIsFinal
<1>1. SingleInv /\ [Next]_vars =>
        [\A r \in Reports : Terminal(r) => status'[r] = status[r]]_vars
  BY TerminalStays
<1>2. SingleInv /\ [Next]_vars => SingleInv'
  BY StepSingleInv
<1> QED BY <1>1, <1>2, InitSingleInv, PTL DEF Spec, TerminalIsFinal

\* With one slot and one web process a project has one report waiting or in
\* progress at most (views.py:103-113).
THEOREM OneAtATime == ASSUME OneSlot, OneWeb PROVE Spec => []OneActivePerProject
<1>1. Init => FreeInv
  BY DEF Init, FreeInv, ActiveReports, Active
<1>2. SingleInv /\ FreeInv /\ [Next]_vars => SingleInv' /\ FreeInv'
  BY StepSingleInv, StepFree
<1>3. FreeInv => OneActivePerProject
  BY FreeMeansOne DEF OneActivePerProject
<1> QED BY <1>1, <1>2, <1>3, InitSingleInv, PTL DEF Spec

-----------------------------------------------------------------------------
(* DatalakePages: the pages of the events of a section.                    *)

Sorted(s) == \A i, j \in 1..Len(s) : i < j => s[i] < s[j]

HasAll(s, n) == \A e \in 1..n : \E i \in 1..Len(s) : s[i] = e

\* The first events of the datalake, and nothing else.
IsPrefix(s) == \A i \in 1..Len(s) : s[i] = i

Limit == (PageLimit - 1) * PageSize

-----------------------------------------------------------------------------
(* Arithmetic of the pages.                                                 *)

LEMMA OffsetFacts ==
    ASSUME NEW p \in Nat
    PROVE  Offset(p) \in Nat /\ Offset(0) = 0 /\ Offset(p + 1) = Offset(p) + PageSize
BY PagesAssumption DEF Offset

LEMMA OffsetMonotone ==
    ASSUME NEW p \in Nat, NEW q \in Nat, p <= q
    PROVE  Offset(p) <= Offset(q)
BY PagesAssumption DEF Offset

\* The pages of a count cover it, and each of them holds some of it.
LEMMA TotalPagesFacts ==
    ASSUME NEW count \in Nat
    PROVE  /\ TotalPages(count) \in Nat
           /\ count <= Offset(TotalPages(count))
           /\ \A p \in Nat : p < TotalPages(count) => Offset(p) < count
<1> DEFINE n == (count + PageSize - 1) \div PageSize
           r == (count + PageSize - 1) % PageSize
<1>1. n \in Nat /\ r \in 0..(PageSize - 1) /\ count + PageSize - 1 = n * PageSize + r
  BY PagesAssumption
<1>2. count <= n * PageSize
  BY <1>1, PagesAssumption
<1>3. ASSUME NEW p \in Nat, p < n PROVE p * PageSize < count
  <2>1. (p + 1) * PageSize <= n * PageSize
    BY <1>1, <1>3, PagesAssumption, OffsetMonotone DEF Offset
  <2>2. (p + 1) * PageSize = p * PageSize + PageSize
    BY PagesAssumption
  <2> HIDE DEF n, r
  <2> QED BY <1>1, <2>1, <2>2, PagesAssumption
<1> QED BY <1>1, <1>2, <1>3 DEF TotalPages, Offset

\* What one page of the datalake is: the events behind its offset, as many as
\* fit or all of the first reached ones.
IsPage(s, page, reached) ==
    /\ s \in Seq(Events)
    /\ Len(s) <= PageSize
    /\ \A i \in 1..Len(s) : s[i] = Offset(page) + i
    /\ Len(s) = PageSize \/ reached <= Offset(page) + Len(s)

LEMMA GetEventsIsPage ==
    ASSUME table \in 0..MaxEvents, NEW page \in Nat
    PROVE  IsPage(GetEvents(page), page, table)
<1> DEFINE first == Offset(page)
           end == IF table < first + PageSize THEN table ELSE first + PageSize
           n == IF end < first THEN 0 ELSE end - first
<1>1. first \in Nat /\ end \in Nat /\ n \in Nat /\ n <= PageSize
      /\ (n = PageSize \/ table <= first + n)
      /\ \A i \in 1..n : first + i \in Events
  <2>1. first \in Nat
    BY OffsetFacts
  <2> HIDE DEF first
  <2> QED BY <2>1, PagesAssumption DEF Events
<1>2. GetEvents(page) = [i \in 1..n |-> first + i]
  BY DEF GetEvents
<1>3. [i \in 1..n |-> first + i] \in Seq(Events) /\ Len([i \in 1..n |-> first + i]) = n
  <2> HIDE DEF n, first
  <2> QED BY <1>1
<1> HIDE DEF n, first
<1>4. IsPage([i \in 1..n |-> first + i], page, table)
  BY <1>1, <1>3 DEF IsPage, first
<1> QED BY <1>2, <1>4

\* A page behind the first events gives more of the first events.
LEMMA PrefixGrows ==
    ASSUME NEW s \in Seq(Events), NEW t, NEW page \in Nat, NEW reached \in Nat,
           IsPrefix(s), Len(s) = Offset(page), IsPage(t, page, reached)
    PROVE  /\ s \o t \in Seq(Events) /\ IsPrefix(s \o t)
           /\ Len(s \o t) <= Offset(page + 1)
           /\ Len(s \o t) = Offset(page + 1) \/ reached <= Len(s \o t)
<1>1. t \in Seq(Events) /\ Len(t) \in Nat /\ Len(s) \in Nat
  BY DEF IsPage
<1>2. s \o t \in Seq(Events) /\ Len(s \o t) = Len(s) + Len(t)
  BY <1>1
<1>3. \A i \in 1..Len(s \o t) : (s \o t)[i] = i
  <2> SUFFICES ASSUME NEW i \in 1..Len(s \o t) PROVE (s \o t)[i] = i
    OBVIOUS
  <2>1. CASE i <= Len(s)
    BY <1>1, <1>2, <2>1 DEF IsPrefix
  <2>2. CASE i > Len(s)
    <3>1. (s \o t)[i] = t[i - Len(s)] /\ i - Len(s) \in 1..Len(t)
      BY <1>1, <1>2, <2>2
    <3> QED BY <1>1, <2>2, <3>1 DEF IsPage
  <2> QED BY <1>1, <1>2, <2>1, <2>2
<1>4. /\ Len(t) <= PageSize
      /\ Len(t) = PageSize \/ reached <= Offset(page) + Len(t)
  BY DEF IsPage
<1>5. Offset(page) \in Nat /\ Offset(page + 1) = Offset(page) + PageSize
  BY OffsetFacts
<1>6. /\ Len(s \o t) <= Offset(page + 1)
      /\ Len(s \o t) = Offset(page + 1) \/ reached <= Len(s \o t)
  BY <1>1, <1>2, <1>4, <1>5, PagesAssumption
<1> QED BY <1>2, <1>3, <1>6 DEF IsPrefix

\* The same when the events so far are only known to be sorted.
LEMMA SortedGrows ==
    ASSUME NEW s \in Seq(Events), NEW t, NEW page \in Nat, NEW reached \in Nat,
           NEW n \in Int, n <= reached,
           Sorted(s), \A i \in 1..Len(s) : s[i] <= Offset(page),
           \A e \in 1..n : e <= Offset(page) => \E i \in 1..Len(s) : s[i] = e,
           Len(s) <= Offset(page), IsPage(t, page, reached)
    PROVE  /\ s \o t \in Seq(Events) /\ Sorted(s \o t)
           /\ \A i \in 1..Len(s \o t) : (s \o t)[i] <= Offset(page + 1)
           /\ \A e \in 1..n : e <= Offset(page + 1) =>
                  \E i \in 1..Len(s \o t) : (s \o t)[i] = e
           /\ Len(s \o t) <= Offset(page + 1)
<1>1. t \in Seq(Events) /\ Len(t) \in Nat /\ Len(s) \in Nat
  BY DEF IsPage
<1>2. s \o t \in Seq(Events) /\ Len(s \o t) = Len(s) + Len(t)
  BY <1>1
<1>3. \A i \in 1..Len(s) : i \in 1..Len(s \o t) /\ (s \o t)[i] = s[i]
  BY <1>1, <1>2
<1>4. \A i \in 1..Len(t) : /\ Len(s) + i \in 1..Len(s \o t)
                           /\ (s \o t)[Len(s) + i] = Offset(page) + i
  BY <1>1, <1>2 DEF IsPage
<1>5. \A i \in 1..Len(s \o t) :
         \/ i \in 1..Len(s) /\ (s \o t)[i] = s[i]
         \/ i > Len(s) /\ i - Len(s) \in 1..Len(t)
            /\ (s \o t)[i] = Offset(page) + (i - Len(s))
  <2> SUFFICES ASSUME NEW i \in 1..Len(s \o t), i > Len(s)
               PROVE  i - Len(s) \in 1..Len(t)
                      /\ (s \o t)[i] = Offset(page) + (i - Len(s))
    BY <1>1, <1>2, <1>3
  <2>1. i - Len(s) \in 1..Len(t) /\ Len(s) + (i - Len(s)) = i
    BY <1>1, <1>2
  <2> QED BY <1>4, <2>1
<1>6. \A i \in 1..Len(s) : s[i] \in Nat
  <2>1. \A i \in 1..Len(s) : s[i] \in Events
    BY <1>1
  <2> QED BY <2>1, PagesAssumption DEF Events
<1>7. Offset(page) \in Nat /\ Offset(page + 1) = Offset(page) + PageSize
      /\ Len(t) <= PageSize
  BY OffsetFacts DEF IsPage
<1>8. Sorted(s \o t)
  <2> SUFFICES ASSUME NEW i \in 1..Len(s \o t), NEW j \in 1..Len(s \o t), i < j
               PROVE  (s \o t)[i] < (s \o t)[j]
    BY DEF Sorted
  <2>1. CASE j \in 1..Len(s)
    BY <1>1, <1>3, <2>1 DEF Sorted
  <2>2. CASE i \in 1..Len(s) /\ j > Len(s)
    BY <1>1, <1>3, <1>5, <1>6, <1>7, <2>2
  <2>3. CASE i > Len(s) /\ j > Len(s)
    BY <1>1, <1>2, <1>5, <1>7, <2>3
  <2> QED BY <1>1, <1>2, <2>1, <2>2, <2>3
<1>9. \A i \in 1..Len(s \o t) : (s \o t)[i] <= Offset(page + 1)
  BY <1>1, <1>2, <1>5, <1>6, <1>7, PagesAssumption
<1>10. ASSUME NEW e \in 1..n, e <= Offset(page + 1)
       PROVE  \E i \in 1..Len(s \o t) : (s \o t)[i] = e
  <2>1. CASE e <= Offset(page)
    BY <1>3, <2>1
  <2>2. CASE e > Offset(page)
    <3>1. e - Offset(page) \in 1..Len(t)
      BY <1>1, <1>7, <1>10, <2>2, PagesAssumption DEF IsPage
    <3>2. Offset(page) + (e - Offset(page)) = e
      BY <1>7
    <3> QED BY <1>4, <3>1, <3>2
  <2> QED BY <1>7, <2>1, <2>2
<1> QED BY <1>1, <1>2, <1>7, <1>8, <1>9, <1>10, PagesAssumption

LEMMA PrefixIsSorted ==
    ASSUME NEW s \in Seq(Events), IsPrefix(s)
    PROVE  Sorted(s) /\ HasAll(s, Len(s))
BY DEF IsPrefix, Sorted, HasAll

-----------------------------------------------------------------------------
(* The inductive invariant.                                                 *)

\* The first reading of the report is fixed once it is begun, and the count
\* of a run is between it and what there is now.
CountInv ==
    /\ since <= table /\ total <= table
    /\ phase # "idle" \/ cache # {} => since # NotRead
    /\ phase \in {"idle", "count", "sequential"} => total = 0
    /\ total > 0 => since <= total /\ TotalPages(total) < PageLimit

\* What is given out is in order, within the limit and, once counted, a prefix.
OutInv ==
    /\ phase \in {"idle", "count"} => out = <<>>
    /\ Sorted(out) /\ Len(out) <= Limit
    /\ total > 0 => IsPrefix(out)
    /\ phase = "done" => HasAll(out, since)

\* A cached list is one that was complete.
CacheInv == \A c \in cache : Sorted(c) /\ HasAll(c, since) /\ Len(c) <= Limit

\* Every page of the batch that has landed is a whole page, as of the count;
\* the pages before the batch have been given out whole.
BatchInv ==
    phase \in {"batch", "give"} =>
        /\ total > 0 /\ next <= last /\ last <= TotalPages(total)
        /\ \A p \in next..(last - 1) :
              /\ p \in DOMAIN results
              /\ p \notin queued /\ ~failing => IsPage(results[p], p, total)
        /\ Len(out) <= Offset(next)
        /\ Len(out) = Offset(next) \/ (next = TotalPages(total) /\ total <= Len(out))
        /\ phase = "give" => queued = {} /\ ~failing

\* Nothing is queued outside of a batch.
IdleInv == phase \in {"idle", "count", "sequential"} => queued = {}

\* The pages fetched one by one hold the events first read.
SequentialInv ==
    phase = "sequential" =>
        /\ next < PageLimit
        /\ \A i \in 1..Len(out) : out[i] <= Offset(next)
        /\ \A e \in 1..since : e <= Offset(next) => \E i \in 1..Len(out) : out[i] = e
        /\ Len(out) <= Offset(next)

PagesInv ==
    /\ PagesTypeOK /\ CountInv /\ OutInv /\ CacheInv /\ BatchInv /\ SequentialInv
    /\ IdleInv

-----------------------------------------------------------------------------
(* The inductive step.                                                      *)

LEMMA FailKeeps ==
    ASSUME PagesInv, phase # "idle", NEW reason \in {"limit", "status", "request"},
           Fail(reason)
    PROVE  PagesInv'
BY DEF Fail, PagesInv, PagesTypeOK, CountInv, OutInv, CacheInv, BatchInv, SequentialInv, IdleInv, Phases,
       Sorted, HasAll, IsPrefix, envVars, batchVars

LEMMA FinishKeeps ==
    ASSUME PagesInv, phase # "idle", HasAll(out, since), Finish,
           UNCHANGED <<envVars, streaming, total, batchVars, out, why, since>>
    PROVE  PagesInv'
<1>1. UNCHANGED <<table, inProgress, lost, next, last, queued, results, failing>>
  BY DEF envVars, batchVars
<1>2. PagesTypeOK'
  BY <1>1 DEF Finish, PagesInv, PagesTypeOK, Phases
<1>3. CountInv' /\ OutInv'
  BY <1>1 DEF Finish, PagesInv, CountInv, OutInv, Sorted, HasAll, IsPrefix
<1>4. CacheInv'
  BY <1>1 DEF Finish, PagesInv, OutInv, CacheInv, Sorted, HasAll
<1>5. BatchInv' /\ SequentialInv' /\ IdleInv'
  BY DEF Finish, BatchInv, SequentialInv, IdleInv
<1> QED BY <1>2, <1>3, <1>4, <1>5 DEF PagesInv

LEMMA SubmitKeeps ==
    ASSUME PagesInv, NEW first \in Nat, NEW count \in 1..MaxEvents,
           count <= table, since <= count, since # NotRead, TotalPages(count) < PageLimit,
           first < TotalPages(count), Len(out) = Offset(first), IsPrefix(out),
           Submit(first, count), total' = count,
           UNCHANGED <<envVars, cache, streaming, out, why, since>>
    PROVE  PagesInv'
<1> DEFINE end == IF streaming /\ first + MaxWorkers < TotalPages(count)
                  THEN first + MaxWorkers ELSE TotalPages(count)
<1>1. UNCHANGED <<table, inProgress, lost>>
  BY DEF envVars
<1>2. TotalPages(count) \in Nat
  BY TotalPagesFacts, PagesAssumption
<1>3. end \in Nat /\ first < end /\ end <= TotalPages(count)
  BY <1>2, PagesAssumption
<1>4. /\ next' = first /\ last' = end /\ queued' = first..(end - 1)
      /\ results' = [p \in first..(end - 1) |-> <<>>]
      /\ failing' = FALSE /\ phase' = "batch"
  BY DEF Submit
<1> HIDE DEF end
<1>5. PagesTypeOK'
  <2>1. total' \in 0..MaxEvents /\ next' \in Nat /\ last' \in Nat
    BY <1>3, <1>4
  <2>2. queued' \subseteq next'..(last' - 1) /\ failing' \in BOOLEAN /\ phase' \in Phases
    BY <1>4 DEF Phases
  <2> QED BY <1>1, <2>1, <2>2 DEF PagesInv, PagesTypeOK
<1>6. CountInv'
  BY <1>1, <1>4 DEF PagesInv, CountInv
<1>7. OutInv' /\ CacheInv'
  BY <1>4 DEF PagesInv, OutInv, CacheInv, Sorted, HasAll, IsPrefix
<1>8. BatchInv'
  <2>1. \A p \in next'..(last' - 1) : p \in DOMAIN results' /\ p \in queued'
    BY <1>4
  <2>2. total' > 0 /\ next' <= last' /\ last' <= TotalPages(total)'
    BY <1>2, <1>3, <1>4
  <2>3. Len(out') = Offset(next') /\ Len(out') <= Offset(next')
    BY <1>4, OffsetFacts
  <2> QED BY <1>4, <2>1, <2>2, <2>3 DEF BatchInv
<1>9. SequentialInv' /\ IdleInv'
  BY <1>4 DEF SequentialInv, IdleInv
<1> QED BY <1>5, <1>6, <1>7, <1>8, <1>9 DEF PagesInv

LEMMA PagesInvAtFirst == PagesInit => PagesInv
<1> SUFFICES ASSUME PagesInit PROVE PagesInv
  OBVIOUS
<1>1. PagesTypeOK
  <2>1. <<>> \in Seq(Events) /\ NotRead \in NotRead..MaxEvents /\ 0 \in 0..MaxLost
        /\ 0 \in 0..MaxEvents
    BY PagesAssumption DEF NotRead
  <2> QED BY <2>1 DEF PagesInit, PagesTypeOK, Phases
<1>2. 0 <= Limit
  BY PagesAssumption, OffsetFacts DEF Limit, Offset
<1>3. CountInv /\ OutInv /\ CacheInv /\ BatchInv /\ SequentialInv /\ IdleInv
  BY <1>2 DEF PagesInit, IdleInv, CountInv, OutInv, CacheInv, BatchInv, SequentialInv, IdleInv, Sorted, NotRead
<1> QED BY <1>1, <1>3 DEF PagesInv

LEMMA BeginKeeps == ASSUME PagesInv, NEW mode \in BOOLEAN, Begin(mode) PROVE PagesInv'
<1>1. UNCHANGED <<table, inProgress, lost, cache, total, next, last, queued, results,
                  failing, why>> /\ phase = "idle" /\ total = 0
  BY DEF Begin, envVars, batchVars, PagesInv, CountInv
<1>2. since' \in 0..MaxEvents /\ since' <= table
  BY DEF Begin, PagesInv, PagesTypeOK, CountInv, NotRead
<1>3. CASE phase' = "count" /\ UNCHANGED out /\ (cache = {} \/ since' = since)
  BY <1>1, <1>2, <1>3
     DEF Begin, PagesInv, PagesTypeOK, Phases, CountInv, OutInv, CacheInv, BatchInv, SequentialInv, IdleInv,
         Sorted, NotRead, HasAll
<1>4. CASE phase' = "done" /\ out' \in cache
  <2>1. since # NotRead /\ since' = since
    BY <1>4 DEF Begin, PagesInv, CountInv
  <2>2. out' \in Seq(Events) /\ Sorted(out') /\ HasAll(out', since) /\ Len(out') <= Limit
    BY <1>4 DEF PagesInv, PagesTypeOK, CacheInv
  <2>3. PagesTypeOK' /\ CountInv'
    BY <1>1, <1>4, <2>1, <2>2 DEF Begin, PagesInv, PagesTypeOK, Phases, CountInv
  <2>4. OutInv' /\ CacheInv'
    BY <1>1, <1>4, <2>1, <2>2 DEF PagesInv, OutInv, CacheInv, Sorted, HasAll
  <2>5. BatchInv' /\ SequentialInv' /\ IdleInv'
    BY <1>4 DEF BatchInv, SequentialInv, IdleInv
  <2> QED BY <2>3, <2>4, <2>5 DEF PagesInv
<1>5. cache = {} \/ since' = since
  BY DEF Begin, PagesInv, CountInv
<1> QED BY <1>3, <1>4, <1>5 DEF Begin

LEMMA CountKeeps == ASSUME PagesInv, CountEvents PROVE PagesInv'
<1>1. phase = "count" /\ out = <<>> /\ total = 0 /\ since # NotRead /\ since <= table
      /\ table \in 0..MaxEvents /\ since \in NotRead..MaxEvents
  BY DEF CountEvents, PagesInv, OutInv, CountInv, PagesTypeOK
<1>2. CASE table = 0 /\ phase' = "done"
           /\ UNCHANGED <<envVars, cache, streaming, total, batchVars, out, why, since>>
  <2>1. UNCHANGED <<table, inProgress, lost, next, last, queued, results, failing>>
    BY <1>2 DEF envVars, batchVars
  <2>2. HasAll(out, since)
    BY <1>1, <1>2 DEF HasAll, NotRead
  <2> QED BY <1>1, <1>2, <2>1, <2>2
      DEF PagesInv, PagesTypeOK, Phases, CountInv, OutInv, CacheInv, BatchInv, SequentialInv, IdleInv,
          Sorted, HasAll
<1>3. CASE Fail("limit") \/ Fail("status")
  BY <1>1, <1>3, FailKeeps
<1>4. CASE /\ table # 0 /\ TotalPages(table) < PageLimit
           /\ total' = table /\ Submit(0, table)
           /\ UNCHANGED <<envVars, cache, streaming, out, why, since>>
  <2>1. table \in 1..MaxEvents /\ table <= table
    BY <1>1, <1>4
  <2>2. TotalPages(table) \in Nat /\ table <= Offset(TotalPages(table))
    BY <1>1, TotalPagesFacts
  <2>3. 0 < TotalPages(table)
    BY <2>1, <2>2, OffsetFacts
  <2>4. Len(out) = Offset(0) /\ IsPrefix(out)
    BY <1>1, OffsetFacts DEF IsPrefix
  <2> QED BY <1>1, <1>4, <2>1, <2>3, <2>4, SubmitKeeps
<1> QED BY <1>2, <1>3, <1>4 DEF CountEvents

LEMMA CountFailsKeeps == ASSUME PagesInv, CountFails PROVE PagesInv'
<1>1. phase = "count" /\ out = <<>> /\ total = 0
  BY DEF CountFails, PagesInv, OutInv, CountInv
<1>2. UNCHANGED <<table, inProgress, lost, cache, streaming, total, last, queued, results,
                  failing, out, why, since>> /\ phase' = "sequential" /\ next' = 0
  BY DEF CountFails, envVars
<1>3. PagesTypeOK'
  BY <1>1, <1>2 DEF PagesInv, IdleInv, PagesTypeOK, Phases
<1>4. CountInv' /\ OutInv' /\ CacheInv' /\ BatchInv'
  BY <1>1, <1>2 DEF PagesInv, CountInv, OutInv, CacheInv, BatchInv, Sorted, HasAll
<1>5. SequentialInv'
  BY <1>1, <1>2, OffsetFacts, PagesAssumption DEF SequentialInv
<1>6. IdleInv'
  BY <1>1, <1>2 DEF PagesInv, IdleInv
<1> QED BY <1>6, <1>3, <1>4, <1>5 DEF PagesInv

\* A page that lands is a page of the events there are at that time, hence of
\* at least those that were counted.
LEMMA FetchPageKeeps ==
    ASSUME PagesInv, NEW page \in queued, FetchPage(page) \/ FetchFails(page)
    PROVE  PagesInv'
<1>1. /\ phase = "batch" /\ queued' = queued \ {page}
      /\ UNCHANGED <<table, inProgress, lost, cache, phase, streaming, total, next, last,
                     out, why, since>>
      /\ \/ results' = [results EXCEPT ![page] = GetEvents(page)] /\ UNCHANGED failing
         \/ UNCHANGED results /\ failing' = TRUE
  BY DEF FetchPage, FetchFails, envVars
<1>2. page \in Nat /\ page \in next..(last - 1)
  BY DEF PagesInv, PagesTypeOK
<1>3. IsPage(GetEvents(page), page, total)
  <2>1. IsPage(GetEvents(page), page, table)
    BY <1>2, GetEventsIsPage DEF PagesInv, PagesTypeOK
  <2>2. total <= table /\ total \in Nat /\ table \in Nat /\ Offset(page) \in Nat
    BY <1>2, OffsetFacts DEF PagesInv, PagesTypeOK, CountInv
  <2> QED BY <2>1, <2>2 DEF IsPage
<1>4. PagesTypeOK'
  BY <1>1 DEF PagesInv, PagesTypeOK
<1>5. CountInv' /\ OutInv' /\ CacheInv' /\ SequentialInv' /\ IdleInv'
  BY <1>1 DEF PagesInv, CountInv, OutInv, CacheInv, SequentialInv, IdleInv, Sorted, HasAll,
       IsPrefix
<1>6. ASSUME NEW p \in next..(last - 1)
      PROVE  /\ p \in DOMAIN results'
             /\ p \notin queued' /\ ~failing' => IsPage(results'[p], p, total)
  <2>1. /\ p \in DOMAIN results
        /\ p \notin queued /\ ~failing => IsPage(results[p], p, total)
    BY <1>1 DEF PagesInv, BatchInv
  <2>2. CASE p = page
    BY <1>1, <1>3, <2>1, <2>2
  <2>3. CASE p # page
    BY <1>1, <2>1, <2>3
  <2> QED BY <2>2, <2>3
<1>7. BatchInv'
  BY <1>1, <1>6 DEF PagesInv, BatchInv, IsPage
<1> QED BY <1>4, <1>5, <1>7 DEF PagesInv

LEMMA EndBatchKeeps == ASSUME PagesInv, EndBatch PROVE PagesInv'
<1>1. CASE Fail("request") \/ Fail("status")
  BY <1>1, FailKeeps DEF EndBatch
<1>2. CASE /\ ~failing /\ phase' = "give"
           /\ UNCHANGED <<envVars, cache, streaming, total, batchVars, out, why, since>>
  <2>1. UNCHANGED <<table, inProgress, lost, next, last, queued, results, failing>>
        /\ phase = "batch" /\ queued = {}
    BY <1>2 DEF EndBatch, envVars, batchVars
  <2>2. BatchInv'
    BY <1>2, <2>1 DEF PagesInv, BatchInv, IsPage
  <2> QED BY <1>2, <2>1, <2>2
      DEF PagesInv, PagesTypeOK, Phases, CountInv, OutInv, CacheInv, SequentialInv, IdleInv,
          Sorted, HasAll, IsPrefix
<1> QED BY <1>1, <1>2 DEF EndBatch

LEMMA GivePageKeeps == ASSUME PagesInv, GivePage PROVE PagesInv'
<1>1. /\ phase = "give" /\ queued = {} /\ ~failing /\ total > 0 /\ total \in 1..MaxEvents
      /\ next \in Nat /\ last \in Nat /\ next <= last /\ last <= TotalPages(total)
      /\ TotalPages(total) \in Nat /\ TotalPages(total) < PageLimit
      /\ out \in Seq(Events) /\ IsPrefix(out) /\ Len(out) \in Nat
      /\ since <= total /\ total <= table
      /\ Len(out) <= Offset(next)
      /\ Len(out) = Offset(next) \/ (next = TotalPages(total) /\ total <= Len(out))
  <2>1. phase = "give" /\ total \in 0..MaxEvents /\ next \in Nat /\ last \in Nat
        /\ out \in Seq(Events) /\ Len(out) \in Nat
    BY DEF GivePage, PagesInv, PagesTypeOK
  <2>2. /\ queued = {} /\ ~failing /\ total > 0 /\ next <= last
        /\ last <= TotalPages(total) /\ Len(out) <= Offset(next)
        /\ Len(out) = Offset(next) \/ (next = TotalPages(total) /\ total <= Len(out))
    BY <2>1 DEF PagesInv, BatchInv
  <2>3. since <= total /\ total <= table /\ TotalPages(total) < PageLimit /\ IsPrefix(out)
    BY <2>2 DEF PagesInv, CountInv, OutInv
  <2>4. TotalPages(total) \in Nat /\ total \in 1..MaxEvents
    BY <2>1, <2>2, TotalPagesFacts
  <2> QED BY <2>1, <2>2, <2>3, <2>4
<1>2. CASE /\ next < last /\ out' = out \o results[next] /\ next' = next + 1
           /\ UNCHANGED <<envVars, cache, phase, streaming, total, last, queued, results,
                          failing, why, since>>
  <2>1. UNCHANGED <<table, inProgress, lost>>
    BY <1>2 DEF envVars
  <2>2. IsPage(results[next], next, total) /\ next \in next..(last - 1)
    BY <1>1, <1>2 DEF PagesInv, BatchInv
  <2>3. Len(out) = Offset(next)
    BY <1>1, <1>2
  <2>4. /\ out' \in Seq(Events) /\ IsPrefix(out') /\ Len(out') <= Offset(next')
        /\ Len(out') = Offset(next') \/ total <= Len(out')
    BY <1>1, <1>2, <2>2, <2>3, PrefixGrows
  <2>5. Offset(next') <= Limit /\ next' \in Nat
    <3>1. next' \in Nat /\ PageLimit - 1 \in Nat /\ next' <= PageLimit - 1
      BY <1>1, <1>2, PagesAssumption
    <3>2. Offset(next') <= Offset(PageLimit - 1)
      BY <3>1, OffsetMonotone
    <3> QED BY <3>1, <3>2 DEF Limit, Offset
  <2>6. Len(out') = Offset(next') \/ (next' = TotalPages(total) /\ total <= Len(out'))
    <3>1. CASE next' < TotalPages(total)
      <4>1. Offset(next') < total
        BY <1>1, <2>5, <3>1, TotalPagesFacts
      <4> HIDE DEF IsPrefix
      <4>2. Len(out') \in Nat /\ Offset(next') \in Nat
        BY <2>4, <2>5, OffsetFacts
      <4> QED BY <1>1, <2>4, <4>1, <4>2
    <3>2. CASE next' = TotalPages(total)
      BY <2>4, <3>2
    <3> QED BY <1>1, <1>2, <3>1, <3>2
  <2>7. PagesTypeOK'
    BY <1>1, <1>2, <2>1, <2>4, <2>5 DEF PagesInv, PagesTypeOK
  <2>8. Sorted(out') /\ Len(out') <= Limit
    <3>1. Len(out') \in Nat /\ Offset(next') \in Nat /\ Limit \in Int
      BY <2>4, <2>5, OffsetFacts, PagesAssumption DEF Limit
    <3> QED BY <2>4, <2>5, <3>1, PrefixIsSorted
  <2>9. CountInv' /\ OutInv' /\ CacheInv'
    BY <1>1, <1>2, <2>1, <2>4, <2>8 DEF PagesInv, CountInv, OutInv, CacheInv, Sorted, HasAll
  <2>10. BatchInv'
    BY <1>1, <1>2, <2>4, <2>5, <2>6 DEF PagesInv, BatchInv, IsPage
  <2>11. SequentialInv' /\ IdleInv'
    BY <1>1, <1>2 DEF SequentialInv, IdleInv
  <2> QED BY <2>7, <2>9, <2>10, <2>11 DEF PagesInv
<1>3. CASE /\ next = last /\ last < TotalPages(total) /\ Submit(last, total)
           /\ UNCHANGED <<envVars, cache, streaming, total, out, why, since>>
  <2>1. Len(out) = Offset(last) /\ since # NotRead
    BY <1>1, <1>3 DEF PagesInv, CountInv
  <2> QED BY <1>1, <1>3, <2>1, SubmitKeeps
<1>4. CASE /\ next = last /\ last >= TotalPages(total) /\ Finish
           /\ UNCHANGED <<envVars, streaming, total, batchVars, out, why, since>>
  <2>1. total <= Len(out)
    BY <1>1, <1>4, TotalPagesFacts
  <2>2. HasAll(out, since)
    <3>1. since \in Int /\ since <= Len(out)
      BY <1>1, <2>1, PagesAssumption DEF PagesInv, PagesTypeOK, NotRead
    <3>2. HasAll(out, Len(out))
      BY <1>1, PrefixIsSorted
    <3>3. \A e \in 1..since : e \in 1..Len(out)
      BY <1>1, <3>1
    <3> QED BY <3>2, <3>3 DEF HasAll
  <2> QED BY <1>1, <1>4, <2>2, FinishKeeps
<1> QED BY <1>2, <1>3, <1>4 DEF GivePage

LEMMA SequentialKeeps == ASSUME PagesInv, Sequential PROVE PagesInv'
<1>1. /\ phase = "sequential" /\ total = 0 /\ next \in Nat /\ queued = {}
      /\ out \in Seq(Events) /\ Len(out) \in Nat /\ table \in 0..MaxEvents
      /\ since \in Int /\ since <= table /\ Sorted(out) /\ Len(out) <= Offset(next)
      /\ \A i \in 1..Len(out) : out[i] <= Offset(next)
      /\ \A e \in 1..since : e <= Offset(next) => \E i \in 1..Len(out) : out[i] = e
  <2>1. phase = "sequential" /\ next \in Nat /\ out \in Seq(Events) /\ Len(out) \in Nat
        /\ table \in 0..MaxEvents /\ since \in Int
    BY PagesAssumption DEF Sequential, PagesInv, PagesTypeOK, NotRead
  <2> QED BY <2>1 DEF PagesInv, CountInv, OutInv, SequentialInv, IdleInv
<1>2. IsPage(GetEvents(next), next, table)
  BY <1>1, GetEventsIsPage
<1>3. CASE Fail("limit") \/ Fail("status") \/ Fail("request")
  BY <1>1, <1>3, FailKeeps
<1>4. CASE /\ GetEvents(next) = <<>> /\ Finish
           /\ UNCHANGED <<envVars, streaming, total, batchVars, out, why, since>>
  <2>1. table <= Offset(next)
    BY <1>1, <1>2, <1>4, OffsetFacts, PagesAssumption DEF IsPage
  <2>2. \A e \in 1..since : e <= Offset(next)
    BY <1>1, <2>1, OffsetFacts
  <2>3. HasAll(out, since)
    BY <1>1, <2>2 DEF HasAll
  <2> QED BY <1>1, <1>4, <2>3, FinishKeeps
<1>5. CASE /\ next + 1 < PageLimit
           /\ out' = out \o GetEvents(next) /\ next' = next + 1
           /\ UNCHANGED <<envVars, cache, phase, streaming, total, last, queued, results,
                          failing, why, since>>
  <2>1. UNCHANGED <<table, inProgress, lost>>
    BY <1>5 DEF envVars
  <2>2. /\ out' \in Seq(Events) /\ Sorted(out')
        /\ \A i \in 1..Len(out') : out'[i] <= Offset(next')
        /\ \A e \in 1..since : e <= Offset(next') => \E i \in 1..Len(out') : out'[i] = e
        /\ Len(out') <= Offset(next')
    <3>1. table \in Nat
      BY <1>1
    <3> DEFINE longer == out \o GetEvents(next)
    <3>2. /\ longer \in Seq(Events) /\ Sorted(longer)
          /\ \A i \in 1..Len(longer) : longer[i] <= Offset(next + 1)
          /\ \A e \in 1..since : e <= Offset(next + 1) =>
                 \E i \in 1..Len(longer) : longer[i] = e
          /\ Len(longer) <= Offset(next + 1)
      BY <1>1, <1>2, <3>1, SortedGrows
    <3>3. out' = longer /\ next' = next + 1
      BY <1>5
    <3> HIDE DEF longer
    <3> QED BY <3>2, <3>3
  <2>3. Len(out') <= Limit /\ next' \in Nat
    <3>1. next' \in Nat /\ PageLimit - 1 \in Nat /\ next' <= PageLimit - 1
      BY <1>1, <1>5, PagesAssumption
    <3>2. Offset(next') <= Offset(PageLimit - 1)
      BY <3>1, OffsetMonotone
    <3>3. Offset(next') \in Nat /\ Offset(PageLimit - 1) \in Nat /\ Len(out') \in Nat
      BY <2>2, <3>1, OffsetFacts
    <3> QED BY <2>2, <3>1, <3>2, <3>3 DEF Limit, Offset
  <2>4. PagesTypeOK'
    BY <1>1, <1>5, <2>1, <2>2, <2>3 DEF PagesInv, PagesTypeOK
  <2>5. CountInv' /\ OutInv' /\ CacheInv'
    BY <1>1, <1>5, <2>1, <2>2, <2>3 DEF PagesInv, CountInv, OutInv, CacheInv, Sorted, HasAll
  <2>6. BatchInv' /\ IdleInv'
    BY <1>1, <1>5 DEF BatchInv, IdleInv
  <2>7. SequentialInv'
    BY <1>5, <2>2 DEF SequentialInv
  <2> QED BY <2>4, <2>5, <2>6, <2>7 DEF PagesInv
<1> QED BY <1>3, <1>4, <1>5 DEF Sequential

\* The other processes, the datalake and the loss of the run.
LEMMA EnvironmentKeeps ==
    ASSUME PagesInv, Record \/ RunTimedOut \/ LoseRun \/ ExpireCache \/ UNCHANGED pagesVars
    PROVE  PagesInv'
<1>1. CASE Record \/ RunTimedOut \/ UNCHANGED pagesVars
  <2>1. /\ UNCHANGED <<cache, phase, streaming, total, next, last, queued, results, failing,
                       out, why, since, lost>>
        /\ table' \in 0..MaxEvents /\ table <= table' /\ inProgress' \in BOOLEAN
    <3>1. table \in 0..MaxEvents /\ inProgress \in BOOLEAN
      BY DEF PagesInv, PagesTypeOK
    <3>2. CASE Record
      BY <3>1, <3>2, PagesAssumption DEF Record, batchVars
    <3>3. CASE RunTimedOut
      <4>1. inProgress' \in BOOLEAN
        BY <3>3, Zenon DEF RunTimedOut
      <4>2. UNCHANGED <<table, lost, cache, phase, streaming, total, batchVars, out, why,
                        since>>
        BY <3>3, Zenon DEF RunTimedOut
      <4> QED BY <3>1, <4>1, <4>2, PagesAssumption DEF batchVars
    <3>4. CASE UNCHANGED pagesVars
      BY <3>1, <3>4, PagesAssumption DEF pagesVars, envVars, batchVars
    <3> QED BY <1>1, <3>2, <3>3, <3>4
  <2>2. CountInv'
    BY <2>1, PagesAssumption DEF PagesInv, CountInv, PagesTypeOK, NotRead
  <2>3. BatchInv'
    BY <2>1 DEF PagesInv, BatchInv, IsPage
  <2> QED BY <2>1, <2>2, <2>3
      DEF PagesInv, PagesTypeOK, OutInv, CacheInv, SequentialInv, IdleInv, Sorted, HasAll, IsPrefix
<1>2. CASE LoseRun
  <2>1. 0 <= Limit
    BY PagesAssumption, OffsetFacts DEF Limit, Offset
  <2>2. PagesTypeOK'
    <3>1. lost' \in 0..MaxLost
      BY <1>2, PagesAssumption DEF LoseRun, PagesInv, PagesTypeOK
    <3>2. /\ out' \in Seq(Events) /\ total' \in 0..MaxEvents /\ phase' \in Phases
          /\ next' \in Nat /\ last' \in Nat /\ failing' \in BOOLEAN
          /\ queued' \subseteq next'..(last' - 1)
      <4>1. /\ out' = <<>> /\ total' = 0 /\ phase' = "idle" /\ next' = 0 /\ last' = 0
            /\ failing' = FALSE /\ queued' = {}
        BY <1>2 DEF LoseRun
      <4>2. <<>> \in Seq(Events) /\ 0 \in 0..MaxEvents
        BY PagesAssumption
      <4> QED BY <4>1, <4>2 DEF Phases
    <3> QED BY <1>2, <3>1, <3>2 DEF LoseRun, PagesInv, PagesTypeOK
  <2>3. CountInv' /\ OutInv' /\ CacheInv'
    BY <1>2, <2>1, PagesAssumption
       DEF LoseRun, PagesInv, PagesTypeOK, CountInv, OutInv, CacheInv, Sorted, HasAll
  <2>4. BatchInv' /\ SequentialInv' /\ IdleInv'
    BY <1>2 DEF LoseRun, BatchInv, SequentialInv, IdleInv
  <2> QED BY <2>2, <2>3, <2>4 DEF PagesInv
<1>3. CASE ExpireCache
  <2>1. UNCHANGED <<table, inProgress, lost, phase, streaming, total, next, last, queued,
                    results, failing, out, why, since>> /\ cache' = {}
    BY <1>3 DEF ExpireCache, envVars, batchVars
  <2>2. PagesTypeOK' /\ CountInv'
    BY <2>1 DEF PagesInv, PagesTypeOK, CountInv
  <2>3. BatchInv'
    BY <2>1 DEF PagesInv, BatchInv, IsPage
  <2> QED BY <2>1, <2>2, <2>3
      DEF PagesInv, OutInv, CacheInv, SequentialInv, IdleInv, Sorted, HasAll, IsPrefix
<1> QED BY <1>1, <1>2, <1>3

-----------------------------------------------------------------------------
(* The theorems.                                                           *)

\* The inductive invariant holds in every reachable state.
THEOREM PagesInvariance == PagesSpec => []PagesInv
<1>1. PagesInv /\ [PagesNext]_pagesVars => PagesInv'
  BY BeginKeeps, CountKeeps, CountFailsKeeps, FetchPageKeeps, EndBatchKeeps, GivePageKeeps,
     SequentialKeeps, EnvironmentKeeps DEF PagesNext
<1> QED BY <1>1, PagesInvAtFirst, PTL DEF PagesSpec

\* Every variable keeps its type.
THEOREM PagesTypeCorrect == PagesSpec => []PagesTypeOK
<1>1. PagesInv => PagesTypeOK
  BY DEF PagesInv
<1> QED BY <1>1, PagesInvariance, PTL

\* The order in which the threads of _fetch_page_indices end does not matter.
THEOREM InOrder == PagesSpec => []Ordered
<1>1. PagesInv => Ordered
  BY DEF PagesInv, OutInv, Sorted, Ordered
<1> QED BY <1>1, PagesInvariance, PTL

\* A retrieval that ends has every event there was when the report was first
\* read, in each mode and after any loss of a run.
THEOREM NothingMissed == PagesSpec => []Complete
<1>1. PagesInv => Complete
  BY DEF PagesInv, OutInv, HasAll, Complete
<1> QED BY <1>1, PagesInvariance, PTL

\* A counted retrieval gives a prefix of the section.
THEOREM NoGap == PagesSpec => []NoGapWhenCounted
<1>1. PagesInv => NoGapWhenCounted
  BY DEF PagesInv, OutInv, IsPrefix, NoGapWhenCounted
<1> QED BY <1>1, PagesInvariance, PTL

\* The page limit bounds what is held in memory or spooled.
THEOREM Bounded == PagesSpec => []WithinPageLimit
<1>1. PagesInv => WithinPageLimit
  BY DEF PagesInv, OutInv, Limit, WithinPageLimit
<1> QED BY <1>1, PagesInvariance, PTL

-----------------------------------------------------------------------------
(* ReportStatusCache: the status the web is answered.                      *)

\* What a reader carries has been false for no longer than the reader waits;
\* what is cached, for no longer than one request and the life it has spent.
ReaderInv == \A p \in Readers : step[p] = "set" => ago[seen[p]] <= waiting[p]
EntryInv == \A e \in entry : ago[e.view] <= MaxLatency + TTL - e.life
TrueInv == \A v \in Views : TrueOf(savedStatus, v) => ago[v] = 0

StalenessInv == CacheTypeOK /\ ReaderInv /\ EntryInv /\ TrueInv

LEMMA StalenessInvAtFirst == CacheInit => StalenessInv
<1> SUFFICES ASSUME CacheInit PROVE StalenessInv
  OBVIOUS
<1>1. NoView \in Views /\ Longest \in Nat /\ 0 \in 0..Longest /\ Longest \in 0..Longest
      /\ 0 \in 0..MaxLatency /\ 0 \in 0..MaxFailures
  BY CacheAssumption DEF Views, Longest
<1>2. CacheTypeOK
  BY <1>1 DEF CacheInit, CacheTypeOK, SavedStatuses
<1>3. TrueInv
  <2> SUFFICES ASSUME NEW v \in Views, v # NoView, TrueOf(savedStatus, v) PROVE FALSE
    BY DEF TrueInv, CacheInit
  <2>1. v.report \in SavedReports /\ v.status \in ActiveStatuses /\ savedStatus[v.report] = v.status
    BY DEF Views, TrueOf
  <2> QED BY <2>1 DEF CacheInit, ActiveStatuses
<1> QED BY <1>2, <1>3 DEF CacheInit, StalenessInv, ReaderInv, EntryInv

\* A step of a reader.
LEMMA GetKeeps == ASSUME StalenessInv, NEW p \in Readers, Get(p) PROVE StalenessInv'
<1> USE DEF StalenessInv, CacheTypeOK
<1>1. CASE Lookup(p)
  BY <1>1 DEF Lookup, ReaderInv, EntryInv, TrueInv
<1>2. CASE QueryReport(p)
  <2>1. PICK v \in Views : TrueOf(savedStatus, v) /\ seen' = [seen EXCEPT ![p] = v]
    BY <1>2 DEF QueryReport
  <2>2. ago[v] = 0 /\ 0 \in 0..MaxLatency
    BY <2>1, CacheAssumption DEF TrueInv
  <2>3. CacheTypeOK' /\ ReaderInv'
    BY <1>2, <2>1, <2>2 DEF QueryReport, ReaderInv
  <2> QED BY <1>2, <2>3 DEF QueryReport, EntryInv, TrueInv
<1>3. ASSUME EndGet(p), UNCHANGED <<savedStatus, deleting, failures, ago>>,
             \/ entry' = {[view |-> seen[p], life |-> TTL]} /\ step[p] = "set"
             \/ UNCHANGED entry
      PROVE  StalenessInv'
  <2>1. NoView \in Views /\ 0 \in 0..MaxLatency /\ TTL \in 1..TTL
    BY CacheAssumption DEF Views
  <2>2. CacheTypeOK'
    BY <1>3, <2>1 DEF EndGet
  <2>3. ReaderInv' /\ TrueInv'
    BY <1>3 DEF EndGet, ReaderInv, TrueInv
  <2>4. EntryInv'
    BY <1>3, CacheAssumption DEF EntryInv, ReaderInv, Longest
  <2> QED BY <2>2, <2>3, <2>4
<1> QED BY <1>1, <1>2, <1>3 DEF Get, Store, Abandon

\* A step of a writer: a save makes an answer true, and none false for longer.
LEMMA WriteKeeps == ASSUME StalenessInv, NEW w \in Writers, Write(w) PROVE StalenessInv'
<1> USE DEF StalenessInv, CacheTypeOK
<1>1. ASSUME NEW r \in SavedReports, NEW s \in SavedStatuses, Save(w, r, s) PROVE StalenessInv'
  <2>1. \A v \in Views : /\ ago'[v] = 0 \/ ago'[v] = ago[v]
                         /\ TrueOf(savedStatus', v) => ago'[v] = 0
    BY <1>1 DEF Save
  <2>2. CacheTypeOK'
    <3>1. ago' \in [Views -> 0..Longest]
      BY <1>1, CacheAssumption DEF Save, Longest
    <3> QED BY <1>1, <3>1 DEF Save
  <2>3. TrueInv'
    BY <2>1 DEF TrueInv
  <2>4. \A v \in Views : ago'[v] \in Nat /\ ago[v] \in Nat /\ ago'[v] <= ago[v]
    BY <2>1, CacheAssumption DEF Longest
  <2>5. ReaderInv'
    BY <1>1, <2>4, CacheAssumption DEF Save, ReaderInv
  <2>6. EntryInv'
    BY <1>1, <2>4, CacheAssumption DEF Save, EntryInv
  <2> QED BY <2>2, <2>3, <2>5, <2>6
<1>2. CASE Invalidate(w)
  BY <1>2 DEF Invalidate, ReaderInv, EntryInv, TrueInv
<1>3. CASE FailToInvalidate(w)
  BY <1>3, CacheAssumption DEF FailToInvalidate, ReaderInv, EntryInv, TrueInv
<1> QED BY <1>1, <1>2, <1>3 DEF Write

\* Time: what a reader and an entry are allowed grows as fast as the ages.
LEMMA TickKeeps == ASSUME StalenessInv, TickCache PROVE StalenessInv'
<1> USE DEF StalenessInv, CacheTypeOK
<1>1. \A v \in Views : /\ ago'[v] \in 0..Longest /\ ago[v] \in 0..Longest
                       /\ ago'[v] <= ago[v] + 1
                       /\ TrueOf(savedStatus, v) => ago'[v] = ago[v]
  BY CacheAssumption DEF TickCache, Longest
<1>2. \A e \in entry' : /\ e.view \in Views /\ e.life \in 1..TTL
                        /\ \E f \in entry : f.view = e.view /\ f.life = e.life + 1
  BY CacheAssumption DEF TickCache
<1>3. CacheTypeOK'
  <2>1. ago' \in [Views -> 0..Longest]
    BY <1>1 DEF TickCache
  <2>2. waiting' \in [Readers -> 0..MaxLatency]
    BY CacheAssumption DEF TickCache
  <2>3. entry' \subseteq [view: Views, life: 1..TTL]
    BY CacheAssumption DEF TickCache
  <2>4. \A e, f \in entry' : e = f
    BY DEF TickCache
  <2> QED BY <2>1, <2>2, <2>3, <2>4 DEF TickCache
<1>4. ReaderInv'
  BY <1>1, CacheAssumption DEF TickCache, ReaderInv, Longest
<1>5. EntryInv'
  <2> SUFFICES ASSUME NEW e \in entry' PROVE ago'[e.view] <= MaxLatency + TTL - e.life
    BY DEF EntryInv, TickCache
  <2>1. PICK f \in entry : f.view = e.view /\ f.life = e.life + 1
    BY <1>2
  <2>2. ago[e.view] <= MaxLatency + TTL - f.life
    BY <2>1 DEF EntryInv
  <2> QED BY <1>1, <1>2, <2>1, <2>2, CacheAssumption DEF Longest
<1>6. TrueInv'
  BY <1>1 DEF TickCache, TrueInv
<1> QED BY <1>3, <1>4, <1>5, <1>6

\* The inductive invariant holds in every reachable state.
THEOREM StalenessInvariance == CacheSpec => []StalenessInv
<1>1. ASSUME StalenessInv, UNCHANGED cacheVars PROVE StalenessInv'
  BY <1>1 DEF cacheVars, StalenessInv, CacheTypeOK, ReaderInv, EntryInv, TrueInv
<1>2. StalenessInv /\ [CacheNext]_cacheVars => StalenessInv'
  BY <1>1, GetKeeps, WriteKeeps, TickKeeps DEF CacheNext
<1> QED BY <1>2, StalenessInvAtFirst, PTL DEF CacheSpec

\* Every variable keeps its type: the project never has two entries.
THEOREM CacheTypeCorrect == CacheSpec => []CacheTypeOK
<1>1. StalenessInv => CacheTypeOK
  BY DEF StalenessInv
<1> QED BY <1>1, StalenessInvariance, PTL

\* A stale answer is served for at most the time to live of the cache and the
\* time of one request.
THEOREM StalenessIsBounded == CacheSpec => []BoundedStaleness
<1>1. ASSUME StalenessInv, NEW e \in entry PROVE ago[e.view] <= TTL + MaxLatency
  <2>1. e.view \in Views /\ e.life \in 1..TTL
    BY <1>1 DEF StalenessInv, CacheTypeOK
  <2>2. ago[e.view] \in 0..Longest /\ ago[e.view] <= MaxLatency + TTL - e.life
    BY <1>1, <2>1 DEF StalenessInv, CacheTypeOK, EntryInv
  <2> QED BY <2>1, <2>2, CacheAssumption DEF Longest
<1>2. StalenessInv => BoundedStaleness
  BY <1>1 DEF BoundedStaleness
<1> QED BY <1>2, StalenessInvariance, PTL
=============================================================================
