-------------------------- MODULE OnboardingProofs --------------------------
(***************************************************************************)
(* For any number of projects, consumers, slots and bounds: the types of   *)
(* ProjectOnboarding, and that an acknowledged message means a complete    *)
(* project.  With one release at a time, that a project is allowed only    *)
(* after the webhook accepted it; with one slot, that it waits once.       *)
(*                                                                         *)
(* The inductive invariant says what a process that has read something may *)
(* still rely on: that rows are never deleted, and that nobody else takes  *)
(* an activation out of the queue of the hourly task.                      *)
(***************************************************************************)
EXTENDS ProjectOnboarding, TLAPS, SequenceTheorems

\* What is done by the time a consumer reaches a step.
ConsumerOK(c) ==
    LET p == at[c] IN
    /\ step[c] # "idle" => p \in Projects
    /\ step[c] \in {"human", "conversations", "switch", "auths", "ack"} => row[p].exists
    /\ step[c] \in {"conversations", "switch", "auths", "ack"} => p \in human
    /\ step[c] = "ack" => p \in granted

ConsumerInv == \A c \in Consumers : ConsumerOK(c)

JobInv == \A w \in Workers : job[w].step # "idle" => job[w].project \in Projects

\* The activations left to the run are those from its cursor on.
RunInv ==
    /\ run.step # "idle" => /\ run.left >= 1 /\ run.cursor >= 1
                            /\ run.cursor + run.left <= Len(queue) + 1
    /\ run.step = "idle" => run = NoRun

\* A release has read a row that exists.
ReleaseInv ==
    \A r \in Releasers : /\ release[r].step # "idle" => /\ release[r].project \in Projects
                                                        /\ release[r].row.exists
                         /\ release[r].step = "idle" => release[r] = NoRelease

IndInv == TypeOK /\ ConsumerInv /\ JobInv /\ RunInv /\ ReleaseInv

\* The run has been told that the webhook accepts its activation.
AcceptedInv == run.step \in {"allow", "finish"} => Current \in accepted

\* A release that read an allowed row found one the webhook had accepted.
RestoreInv ==
    \A r \in Releasers : release[r].row.allowed =>
        release[r].project \in accepted \cup abandoned

AllowedInv == AcceptedInv /\ RestoreInv /\ AllowedMeansAccepted

\* A task that is about to add its project has found it not waiting.
AddInv == \A w \in Workers : job[w].step = "create" => ~Queued(job[w].project)

WaitInv == AddInv /\ WaitsOnce

AtMostOne(S) == \A x, y \in S : x = y

-----------------------------------------------------------------------------
(* The queue of the indexer.                                               *)

LEMMA RemoveOne ==
    ASSUME NEW S, NEW q \in Seq(S), NEW i \in 1..Len(q)
    PROVE  LET s == SubSeq(q, 1, i - 1) \o SubSeq(q, i + 1, Len(q)) IN
           /\ s \in Seq(S)
           /\ Len(s) = Len(q) - 1
           /\ \A k \in 1..Len(s) : s[k] = IF k < i THEN q[k] ELSE q[k + 1]
<1> DEFINE a == SubSeq(q, 1, i - 1)
           b == SubSeq(q, i + 1, Len(q))
<1>1. a \in Seq(S) /\ Len(a) = i - 1 /\ \A k \in 1..Len(a) : a[k] = q[k]
  OBVIOUS
<1>2. b \in Seq(S) /\ Len(b) = Len(q) - i /\ \A k \in 1..Len(b) : b[k] = q[i + k]
  OBVIOUS
<1> HIDE DEF a, b
<1>3. a \o b \in Seq(S) /\ Len(a \o b) = Len(q) - 1
  <2>1. a \o b \in Seq(S)
    BY <1>1, <1>2, ConcatProperties
  <2>2. Len(a \o b) = Len(a) + Len(b)
    BY <1>1, <1>2, ConcatProperties
  <2> QED
    BY <2>1, <2>2, <1>1, <1>2
<1>4. ASSUME NEW k \in 1..Len(a \o b)
      PROVE  (a \o b)[k] = IF k < i THEN q[k] ELSE q[k + 1]
  <2>1. CASE k < i
    <3>1. k \in 1..Len(a) /\ (a \o b)[k] = a[k]
      BY <2>1, <1>1, <1>2, <1>3
    <3> QED
      BY <2>1, <3>1, <1>1
  <2>2. CASE k >= i
    <3>1. (a \o b)[k] = b[k - Len(a)]
      BY <2>2, <1>1, <1>2, <1>3
    <3>2. k - Len(a) \in 1..Len(b) /\ i + (k - Len(a)) = k + 1
      BY <2>2, <1>1, <1>2, <1>3
    <3>3. b[k - Len(a)] = q[k + 1]
      BY <3>2, <1>2
    <3>4. ~(k < i)
      BY <2>2, <1>3
    <3> QED
      BY <3>1, <3>3, <3>4
  <2> QED
    BY <2>1, <2>2
<1> QED
  BY <1>3, <1>4 DEF a, b

-----------------------------------------------------------------------------
(* Types, and what a process relies on.                                    *)

LEMMA InitIndInv == Init => IndInv
<1> SUFFICES ASSUME Init PROVE IndInv
  OBVIOUS
<1> USE BoundsAssumption DEF Init, NoJob, NoRun, NoRelease, NoRow
<1>1. TypeOK
  BY DEF TypeOK, Rows, Kinds
<1>2. ConsumerInv
  BY DEF ConsumerInv, ConsumerOK
<1>3. JobInv /\ RunInv /\ ReleaseInv
  BY DEF JobInv, RunInv, ReleaseInv
<1> QED
  BY <1>1, <1>2, <1>3 DEF IndInv

LEMMA DelayTypes ==
    ASSUME TypeOK, NEW kind \in Kinds, NEW p \in Projects, Delay(kind, p)
    PROVE  tasks' \in [Kinds \X Projects -> 0..QueueCap]
  BY BoundsAssumption DEF TypeOK, Delay

LEMMA NextActivationTypes ==
    ASSUME IndInv, run.step # "idle", NEW cursor \in {run.cursor, run.cursor + 1},
           NextActivation(cursor), cursor + run.left <= Len(queue') + 2,
           Len(queue') \in Nat
    PROVE  /\ run' \in [step: {"idle", "post", "allow", "finish"}, cursor: Nat,
                        left: 0..Limit, attempts: 0..Retries]
           /\ RunInv'
           /\ run'.step \in {"idle", "post"}
<1>1. /\ run \in [step: {"idle", "post", "allow", "finish"}, cursor: Nat, left: 0..Limit,
                  attempts: 0..Retries]
      /\ run.left >= 1 /\ run.cursor >= 1
  BY DEF IndInv, TypeOK, RunInv
<1>2. CASE run.left = 1
  BY <1>1, <1>2, BoundsAssumption DEF RunInv, NextActivation, NoRun
<1>3. CASE run.left # 1
  <2>1. run' = [step |-> "post", cursor |-> cursor, left |-> run.left - 1, attempts |-> 0]
    BY <1>3 DEF NextActivation
  <2>2. cursor \in Nat /\ cursor >= 1 /\ run.left - 1 \in 0..Limit /\ run.left - 1 >= 1
    BY <1>1, <1>3, BoundsAssumption
  <2>3. RunInv'
    BY <2>1, <2>2, <1>1 DEF RunInv
  <2>4. run' \in [step: {"idle", "post", "allow", "finish"}, cursor: Nat, left: 0..Limit,
                  attempts: 0..Retries]
    BY <2>1, <2>2, BoundsAssumption
  <2> QED
    BY <2>1, <2>3, <2>4
<1> QED
  BY <1>2, <1>3

LEMMA MarkTypes ==
    ASSUME IndInv, run.step # "idle", MarkFailed
    PROVE  /\ queue' \in Seq(Activations) /\ Len(queue') = Len(queue)
           /\ \A i \in 1..Len(queue) : queue'[i].project = queue[i].project
           /\ \A i \in 1..Len(queue) : queue'[i].status = "PENDING" => queue'[i] = queue[i]
<1>1. run.cursor \in 1..Len(queue)
  BY DEF IndInv, TypeOK, RunInv
<1>2. queue[run.cursor] \in Activations
  BY <1>1 DEF IndInv, TypeOK
<1>3. [queue[run.cursor] EXCEPT !.status = "FAILED"] \in Activations
  BY <1>2 DEF Activations
<1>4. queue \in Seq(Activations)
  BY DEF IndInv, TypeOK
<1>5. queue' = [queue EXCEPT ![run.cursor] = [queue[run.cursor] EXCEPT !.status = "FAILED"]]
  BY DEF MarkFailed
<1>6. queue' \in Seq(Activations) /\ Len(queue') = Len(queue)
  BY <1>1, <1>3, <1>4, <1>5
<1>7. \A i \in 1..Len(queue) :
        queue'[i] = IF i = run.cursor THEN [queue[i] EXCEPT !.status = "FAILED"] ELSE queue[i]
  BY <1>1, <1>4, <1>5
<1>8. \A i \in 1..Len(queue) : queue[i] \in Activations
  BY <1>4
<1> QED
  BY <1>6, <1>7, <1>8 DEF Activations

\* Rows are never deleted, so what others rely on stays.
LEMMA ConsumersUndisturbed ==
    ASSUME IndInv, \A p \in Projects : row[p].exists => row'[p].exists,
           UNCHANGED <<step, at, human, granted>>
    PROVE  ConsumerInv'
  BY DEF IndInv, ConsumerInv, ConsumerOK

LEMMA ConsumerStep ==
    ASSUME IndInv, NEW c \in Consumers,
           Consume(c) \/ StepRaises(c) \/ CrashConsumer(c)
    PROVE  IndInv'
<1> USE DEF IndInv
<1>1. /\ step \in [Consumers -> {"idle", "row", "human", "conversations", "switch", "auths", "ack"}]
      /\ at \in [Consumers -> Projects \cup {NoProject}]
      /\ inbox \in [Consumers -> SUBSET Projects]
      /\ row \in [Projects -> Rows]
  BY DEF TypeOK
<1>2. JobInv' /\ RunInv' /\ ReleaseInv'
  BY DEF JobInv, RunInv, ReleaseInv, Consume, Deliver, CreateProject, CreateHuman,
         DelayConversations, DelaySwitch, CreateAuths, Ack, StepRaises, CrashConsumer,
         releaseVars
<1> USE ProjectsAssumption
<1>3. TypeOK'
  <2>1. CASE Deliver(c)
    BY <2>1, <1>1 DEF Deliver, TypeOK, projectVars, releaseVars
  <2>2. CASE CreateProject(c)
    <3>1. row' \in [Projects -> Rows]
      <4>1. [exists |-> TRUE, active |-> at[c] \in switched, allowed |-> FALSE] \in Rows
        BY DEF Rows
      <4> QED
        BY <2>2, <1>1, <4>1 DEF CreateProject
    <3>2. step' \in [Consumers -> {"idle", "row", "human", "conversations", "switch", "auths",
                                   "ack"}]
      BY <2>2, <1>1 DEF CreateProject, Settle, Goto
    <3>3. /\ inbox' \in [Consumers -> SUBSET Projects]
          /\ at' \in [Consumers -> Projects \cup {NoProject}]
      BY <2>2, <1>1 DEF CreateProject, Settle
    <3> QED
      BY <2>2, <3>1, <3>2, <3>3 DEF CreateProject, TypeOK, releaseVars
  <2>3. CASE CreateHuman(c)
    BY <2>3, <1>1 DEF CreateHuman, TypeOK, Goto, releaseVars, ConsumerInv, ConsumerOK
  <2>4. CASE DelayConversations(c)
    BY <2>4, <1>1, DelayTypes DEF DelayConversations, TypeOK, Goto, releaseVars, projectVars,
                                  Kinds, ConsumerInv, ConsumerOK
  <2>5. CASE DelaySwitch(c)
    BY <2>5, <1>1, DelayTypes DEF DelaySwitch, TypeOK, Goto, releaseVars, projectVars, Kinds,
                                  ConsumerInv, ConsumerOK
  <2>6. CASE CreateAuths(c)
    BY <2>6, <1>1 DEF CreateAuths, TypeOK, Goto, releaseVars, ConsumerInv, ConsumerOK
  <2>7. CASE Ack(c)
    BY <2>7, <1>1 DEF Ack, TypeOK, Settle, releaseVars, projectVars, ConsumerInv, ConsumerOK
  <2>8. CASE StepRaises(c)
    BY <2>8, <1>1, BoundsAssumption DEF StepRaises, Fault, TypeOK, Settle, releaseVars, projectVars
  <2>9. CASE CrashConsumer(c)
    BY <2>9, <1>1, BoundsAssumption DEF CrashConsumer, Fault, TypeOK, releaseVars, projectVars
  <2> QED
    BY <2>1, <2>2, <2>3, <2>4, <2>5, <2>6, <2>7, <2>8, <2>9 DEF Consume
<1>4. ConsumerInv'
  <2> SUFFICES ASSUME NEW d \in Consumers PROVE ConsumerOK(d)'
    BY DEF ConsumerInv
  <2>0. ConsumerOK(c) /\ ConsumerOK(d)
    BY DEF ConsumerInv
  <2>1. CASE Deliver(c)
    BY <2>0, <2>1, <1>1 DEF Deliver, ConsumerOK, projectVars
  <2>2. CASE CreateProject(c)
    BY <2>0, <2>2, <1>1 DEF CreateProject, ConsumerOK, Settle, Goto, Rows
  <2>3. CASE CreateHuman(c)
    BY <2>0, <2>3, <1>1 DEF CreateHuman, ConsumerOK, Goto
  <2>4. CASE DelayConversations(c)
    BY <2>0, <2>4, <1>1 DEF DelayConversations, ConsumerOK, Goto, projectVars
  <2>5. CASE DelaySwitch(c)
    BY <2>0, <2>5, <1>1 DEF DelaySwitch, ConsumerOK, Goto, projectVars
  <2>6. CASE CreateAuths(c)
    BY <2>0, <2>6, <1>1 DEF CreateAuths, ConsumerOK, Goto
  <2>7. CASE Ack(c)
    BY <2>0, <2>7, <1>1 DEF Ack, Settle, ConsumerOK, projectVars
  <2>8. CASE StepRaises(c)
    BY <2>0, <2>8, <1>1 DEF StepRaises, Settle, ConsumerOK, projectVars
  <2>9. CASE CrashConsumer(c)
    BY <2>0, <2>9, <1>1 DEF CrashConsumer, ConsumerOK, projectVars
  <2> QED
    BY <2>1, <2>2, <2>3, <2>4, <2>5, <2>6, <2>7, <2>8, <2>9 DEF Consume
<1> QED
  BY <1>2, <1>3, <1>4

LEMMA TaskStepInv ==
    ASSUME IndInv, NEW w \in Workers, TaskStep(w) \/ LoseTask(w)
    PROVE  IndInv'
<1> USE DEF IndInv
<1> DEFINE Jobs == [kind: Kinds \cup {"none"}, project: Projects \cup {NoProject},
                    step: {"idle", "read", "ask", "activate", "check", "create",
                           "look", "get", "insert"},
                    allowed: BOOLEAN]
<1>1. /\ job \in [Workers -> Jobs] /\ row \in [Projects -> Rows]
      /\ job[w].step # "idle" => job[w].project \in Projects
  BY DEF TypeOK, JobInv
<1>2. ASSUME NEW to \in {"activate", "check", "create", "look", "insert"},
             Advance(w, to), job[w].step # "idle"
      PROVE  job' \in [Workers -> Jobs] /\ JobInv'
  BY <1>1, <1>2 DEF Advance, JobInv
<1>3. ASSUME EndJob(w)
      PROVE  job' \in [Workers -> Jobs] /\ JobInv'
  BY <1>1, <1>3 DEF EndJob, NoJob, JobInv
<1>4. CASE ReadProject(w)
  <2>1. row[job[w].project] \in Rows
    BY <1>1, <1>4 DEF ReadProject
  <2>2. job' \in [Workers -> Jobs] /\ JobInv'
    BY <1>1, <1>3, <1>4, <2>1 DEF ReadProject, JobInv, Rows
  <2> QED
    BY <1>4, <2>2 DEF ReadProject, TypeOK, RunInv, ReleaseInv, ConsumerInv, ConsumerOK,
                      projectVars, consumerVars, releaseVars
<1>5. CASE AskNexus(w)
  <2>1. job' \in [Workers -> Jobs] /\ JobInv'
    BY <1>2, <1>3, <1>5 DEF AskNexus
  <2>2. cache' \in [Projects -> {"none", "True", "False"}]
    BY <1>1, <1>5 DEF AskNexus, TypeOK, Text
  <2> QED
    BY <1>5, <2>1, <2>2 DEF AskNexus, TypeOK, RunInv, ReleaseInv, ConsumerInv, ConsumerOK,
                            projectVars, consumerVars, releaseVars
<1>6. CASE NexusFails(w)
  BY <1>3, <1>6 DEF NexusFails, TypeOK, RunInv, ReleaseInv, ConsumerInv, ConsumerOK,
                    projectVars, consumerVars, releaseVars
<1>7. CASE SaveActive(w)
  <2>1. job' \in [Workers -> Jobs] /\ JobInv'
    BY <1>2, <1>7 DEF SaveActive
  <2>2. row' \in [Projects -> Rows] /\ \A p \in Projects : row[p].exists => row'[p].exists
    BY <1>1, <1>7 DEF SaveActive, Rows
  <2>3. ConsumerInv'
    BY <1>7, <2>2, ConsumersUndisturbed DEF SaveActive, consumerVars
  <2> QED
    BY <1>7, <2>1, <2>2, <2>3 DEF SaveActive, TypeOK, RunInv, ReleaseInv, consumerVars, releaseVars
<1>8. CASE CheckQueue(w)
  <2>1. job' \in [Workers -> Jobs] /\ JobInv'
    BY <1>2, <1>8 DEF CheckQueue
  <2> QED
    BY <1>8, <2>1 DEF CheckQueue, TypeOK, RunInv, ReleaseInv, ConsumerInv, ConsumerOK,
                      projectVars, consumerVars, releaseVars
<1>9. CASE CreateActivation(w)
  <2>1. job' \in [Workers -> Jobs] /\ JobInv'
    BY <1>2, <1>9 DEF CreateActivation
  <2>2. [project |-> job[w].project, status |-> "PENDING"] \in Activations
    BY <1>1, <1>9 DEF CreateActivation, Activations
  <2>3. queue' \in Seq(Activations) /\ Len(queue') >= Len(queue)
    BY <1>9, <2>2 DEF CreateActivation, TypeOK
  <2>4. RunInv'
    BY <1>9, <2>3 DEF CreateActivation, RunInv, TypeOK
  <2> QED
    BY <1>9, <2>1, <2>3, <2>4 DEF CreateActivation, TypeOK, ReleaseInv, ConsumerInv, ConsumerOK,
                                  projectVars, consumerVars, releaseVars
<1>10. CASE LookForDashboard(w)
  <2>1. tasks' \in [Kinds \X Projects -> 0..QueueCap]
    BY <1>1, <1>10, DelayTypes DEF LookForDashboard, TypeOK, Kinds
  <2> QED
    BY <1>3, <1>10, <2>1 DEF LookForDashboard, TypeOK, RunInv, ReleaseInv, ConsumerInv, ConsumerOK,
                             projectVars, consumerVars, releaseVars
<1>11. CASE GetDashboard(w)
  <2>1. job' \in [Workers -> Jobs] /\ JobInv'
    BY <1>2, <1>3, <1>11 DEF GetDashboard
  <2> QED
    BY <1>11, <2>1 DEF GetDashboard, TypeOK, RunInv, ReleaseInv, ConsumerInv, ConsumerOK,
                       projectVars, consumerVars, releaseVars
<1>12. CASE InsertDashboard(w)
  <2>1. conv' \in [Projects -> 0..2]
    BY <1>1, <1>12 DEF InsertDashboard, TypeOK
  <2> QED
    BY <1>3, <1>12, <2>1 DEF InsertDashboard, TypeOK, RunInv, ReleaseInv, ConsumerInv, ConsumerOK,
                             consumerVars, releaseVars
<1>13. CASE LoseTask(w)
  <2>1. faults' \in 0..MaxFaults
    BY <1>13, BoundsAssumption DEF LoseTask, Fault, TypeOK
  <2> QED
    BY <1>3, <1>13, <2>1 DEF LoseTask, TypeOK, RunInv, ReleaseInv, ConsumerInv, ConsumerOK,
                             projectVars, consumerVars, releaseVars
<1> QED
  BY <1>4, <1>5, <1>6, <1>7, <1>8, <1>9, <1>10, <1>11, <1>12, <1>13 DEF TaskStep

LEMMA QueueingInv ==
    ASSUME IndInv, NEW p \in Projects,
           \/ List(p) \/ ExpireCache(p)
           \/ \E w \in Workers, kind \in Kinds : StartTask(w, kind, p)
    PROVE  IndInv'
<1> USE DEF IndInv
<1>1. CASE List(p)
  <2>1. tasks' \in [Kinds \X Projects -> 0..QueueCap]
    BY <1>1, DelayTypes DEF List, Kinds
  <2> QED
    BY <1>1, <2>1 DEF List, TypeOK, JobInv, RunInv, ReleaseInv, ConsumerInv, ConsumerOK,
                      projectVars, consumerVars, releaseVars
<1>2. CASE ExpireCache(p)
  BY <1>2 DEF ExpireCache, TypeOK, JobInv, RunInv, ReleaseInv, ConsumerInv, ConsumerOK,
              projectVars, consumerVars, releaseVars
<1>3. ASSUME NEW w \in Workers, NEW kind \in Kinds, StartTask(w, kind, p)
      PROVE  IndInv'
  <2>1. tasks' \in [Kinds \X Projects -> 0..QueueCap]
    BY <1>3, BoundsAssumption DEF StartTask, TypeOK
  <2>2. [kind |-> kind, project |-> p, allowed |-> FALSE,
         step |-> IF kind = "conversations" THEN "get" ELSE "read"]
           \in [kind: Kinds \cup {"none"}, project: Projects \cup {NoProject},
                step: {"idle", "read", "ask", "activate", "check", "create",
                       "look", "get", "insert"},
                allowed: BOOLEAN]
    OBVIOUS
  <2>3. JobInv'
    BY <1>3 DEF StartTask, JobInv, TypeOK
  <2> QED
    BY <1>3, <2>1, <2>2, <2>3 DEF StartTask, TypeOK, RunInv, ReleaseInv, ConsumerInv, ConsumerOK,
                                  projectVars, consumerVars, releaseVars
<1> QED
  BY <1>1, <1>2, <1>3

LEMMA RunStepInv ==
    ASSUME IndInv, StartRun \/ RunStep \/ ActivationRaises \/ LoseRun
    PROVE  IndInv'
<1> USE DEF IndInv
<1> DEFINE Runs == [step: {"idle", "post", "allow", "finish"}, cursor: Nat, left: 0..Limit,
                    attempts: 0..Retries]
<1>1. /\ run \in Runs /\ queue \in Seq(Activations) /\ row \in [Projects -> Rows]
      /\ run.step # "idle" => run.cursor \in 1..Len(queue)
      /\ run.step # "idle" => Current \in Projects
  <2>1. run.step # "idle" => run.cursor \in 1..Len(queue)
    BY DEF TypeOK, RunInv
  <2>2. run.step # "idle" => queue[run.cursor] \in Activations
    BY <2>1 DEF TypeOK
  <2>3. run.step # "idle" => Current \in Projects
    BY <2>2 DEF Current, Activations
  <2> QED
    BY <2>1, <2>3 DEF TypeOK
<1>2. (UNCHANGED job => JobInv') /\ (UNCHANGED release => ReleaseInv')
  BY DEF JobInv, ReleaseInv
<1>3. CASE StartRun
  <2>1. Len(queue) \in Nat /\ Len(queue) >= 1
    BY <1>1, <1>3 DEF StartRun
  <2>2. run' \in Runs /\ RunInv'
    BY <1>1, <1>3, <2>1, BoundsAssumption DEF StartRun, RunInv
  <2>3. ConsumerInv'
    BY <1>3 DEF StartRun, ConsumerInv, ConsumerOK, projectVars, consumerVars
  <2> QED
    BY <1>2, <1>3, <2>2, <2>3 DEF StartRun, TypeOK, projectVars, consumerVars, releaseVars
<1>4. CASE PostAccepted
  <2>1. run' \in Runs /\ RunInv' /\ accepted' \subseteq Projects
    BY <1>1, <1>4 DEF PostAccepted, RunInv, TypeOK
  <2>3. ConsumerInv'
    BY <1>4 DEF PostAccepted, ConsumerInv, ConsumerOK, projectVars, consumerVars
  <2> QED
    BY <1>2, <1>4, <2>1, <2>3 DEF PostAccepted, TypeOK, projectVars, consumerVars, releaseVars
<1>5. CASE PostRefused
  <2>1. queue' \in Seq(Activations) /\ Len(queue') = Len(queue)
    BY <1>5, MarkTypes DEF PostRefused
  <2>2. run' \in Runs /\ RunInv'
    <3>1. CASE run.attempts + 1 < Retries
      <4>1. run' = [run EXCEPT !.attempts = @ + 1] /\ run.step = "post"
        BY <1>5, <3>1 DEF PostRefused
      <4>2. run.attempts + 1 \in 0..Retries
        BY <1>1, <3>1, BoundsAssumption
      <4>3. run' \in Runs
        BY <1>1, <4>1, <4>2
      <4> QED
        BY <1>1, <2>1, <4>1, <4>3 DEF RunInv
    <3>2. CASE ~(run.attempts + 1 < Retries)
      <4>1. NextActivation(run.cursor + 1) /\ run.step # "idle"
        BY <1>5, <3>2 DEF PostRefused
      <4>2. (run.cursor + 1) + run.left <= Len(queue') + 2 /\ Len(queue') \in Nat
        BY <1>1, <2>1, <4>1 DEF RunInv
      <4> QED
        BY <4>1, <4>2, NextActivationTypes
    <3> QED
      BY <3>1, <3>2
  <2>3. ConsumerInv'
    BY <1>5 DEF PostRefused, ConsumerInv, ConsumerOK, projectVars, consumerVars
  <2> QED
    BY <1>2, <1>5, <2>1, <2>2, <2>3 DEF PostRefused, TypeOK, projectVars, consumerVars, releaseVars
<1>6. CASE SaveAllowed
  <2>1. run' \in Runs /\ RunInv'
    BY <1>1, <1>6 DEF SaveAllowed, RunInv
  <2>2. row' \in [Projects -> Rows] /\ \A p \in Projects : row[p].exists => row'[p].exists
    BY <1>1, <1>6 DEF SaveAllowed, Rows
  <2>3. ConsumerInv'
    BY <1>6, <2>2, ConsumersUndisturbed DEF SaveAllowed, consumerVars
  <2> QED
    BY <1>2, <1>6, <2>1, <2>2, <2>3 DEF SaveAllowed, TypeOK, consumerVars, releaseVars
<1>7. CASE SaveSuccess
  <2>1. queue' \in Seq(Activations) /\ Len(queue') = Len(queue) - 1
    BY <1>1, <1>7, RemoveOne DEF SaveSuccess
  <2>2. NextActivation(run.cursor) /\ run.step # "idle"
    BY <1>7 DEF SaveSuccess
  <2>3. run.cursor + run.left <= Len(queue') + 2 /\ Len(queue') \in Nat
    BY <1>1, <2>1, <2>2 DEF RunInv
  <2>4. run' \in Runs /\ RunInv'
    BY <2>2, <2>3, NextActivationTypes
  <2>5. ConsumerInv'
    BY <1>7 DEF SaveSuccess, ConsumerInv, ConsumerOK, projectVars, consumerVars
  <2> QED
    BY <1>2, <1>7, <2>1, <2>4, <2>5 DEF SaveSuccess, TypeOK, projectVars, consumerVars, releaseVars
<1>8. CASE ActivationRaises
  <2>0. run.step # "idle"
    BY <1>8 DEF ActivationRaises, RunInv
  <2>1. queue' \in Seq(Activations) /\ Len(queue') = Len(queue)
    BY <1>8, <2>0, MarkTypes DEF ActivationRaises
  <2>3. (run.cursor + 1) + run.left <= Len(queue') + 2 /\ Len(queue') \in Nat
    BY <1>1, <2>1, <2>0 DEF RunInv
  <2>4. run' \in Runs /\ RunInv'
    BY <1>8, <2>0, <2>3, NextActivationTypes DEF ActivationRaises
  <2>5. ConsumerInv' /\ faults' \in 0..MaxFaults
    BY <1>8, BoundsAssumption DEF ActivationRaises, ConsumerInv, ConsumerOK, projectVars,
                                  consumerVars, Fault, TypeOK
  <2> QED
    BY <1>2, <1>8, <2>1, <2>4, <2>5 DEF ActivationRaises, TypeOK, projectVars, consumerVars,
                                        releaseVars
<1>9. CASE LoseRun
  <2>1. run' \in Runs /\ RunInv' /\ faults' \in 0..MaxFaults
    BY <1>9, BoundsAssumption DEF LoseRun, RunInv, NoRun, Fault, TypeOK
  <2>2. ConsumerInv'
    BY <1>9 DEF LoseRun, ConsumerInv, ConsumerOK, projectVars, consumerVars
  <2> QED
    BY <1>2, <1>9, <2>1, <2>2 DEF LoseRun, TypeOK, projectVars, consumerVars, releaseVars
<1> QED
  BY <1>3, <1>4, <1>5, <1>6, <1>7, <1>8, <1>9 DEF RunStep

LEMMA ReleaseStepInv ==
    ASSUME IndInv, NEW r \in Releasers, BeginRelease(r) \/ ReleaseStep(r) \/ AbandonRelease(r)
    PROVE  IndInv'
<1> USE DEF IndInv
<1> DEFINE Releases == [step: {"idle", "save", "post", "restore"},
                        project: Projects \cup {NoProject}, row: Rows]
<1>1. /\ release \in [Releasers -> Releases] /\ row \in [Projects -> Rows]
      /\ release[r].step # "idle" => release[r].project \in Projects /\ release[r].row.exists
      /\ release[r].row \in Rows
      /\ release[r] # NoRelease => release[r].step # "idle"
  BY DEF TypeOK, ReleaseInv
<1>2. NoRelease \in Releases
  BY DEF NoRelease, NoRow, Rows
<1>3. (UNCHANGED job => JobInv') /\ (UNCHANGED <<run, queue>> => RunInv')
  BY DEF JobInv, RunInv
<1>4. CASE BeginRelease(r)
  <2>1. PICK p \in Projects : /\ row[p].exists
                              /\ release' = [release EXCEPT ![r] =
                                   [step |-> "save", project |-> p, row |-> row[p]]]
    BY <1>4 DEF BeginRelease
  <2>2. release' \in [Releasers -> Releases] /\ ReleaseInv'
    BY <1>1, <2>1 DEF ReleaseInv
  <2>3. releases' \in 0..MaxReleases
    BY <1>4, BoundsAssumption DEF BeginRelease, TypeOK
  <2>4. ConsumerInv'
    BY <1>4 DEF BeginRelease, ConsumerInv, ConsumerOK, projectVars, consumerVars
  <2> QED
    BY <1>3, <1>4, <2>2, <2>3, <2>4 DEF BeginRelease, TypeOK, projectVars, consumerVars
<1>5. ASSUME NEW value \in Rows, value.exists, release[r].step # "idle",
             row' = [row EXCEPT ![release[r].project] = value],
             UNCHANGED <<step, at, human, granted>>
      PROVE  row' \in [Projects -> Rows] /\ ConsumerInv'
  <2>1. row' \in [Projects -> Rows] /\ \A p \in Projects : row[p].exists => row'[p].exists
    BY <1>1, <1>5
  <2> QED
    BY <1>5, <2>1, ConsumersUndisturbed
<1>6. CASE SaveReleased(r)
  <2>1. [release[r].row EXCEPT !.allowed = TRUE] \in Rows
        /\ [release[r].row EXCEPT !.allowed = TRUE].exists
    BY <1>1, <1>6 DEF Rows, SaveReleased
  <2>2. row' \in [Projects -> Rows] /\ ConsumerInv'
    BY <1>5, <1>6, <2>1 DEF SaveReleased, consumerVars
  <2>3. release' \in [Releasers -> Releases] /\ ReleaseInv'
    BY <1>1, <1>6 DEF SaveReleased, ReleaseInv
  <2> QED
    BY <1>3, <1>6, <2>2, <2>3 DEF SaveReleased, TypeOK, consumerVars
<1>7. CASE ReleaseAccepted(r)
  <2>1. release' \in [Releasers -> Releases] /\ ReleaseInv' /\ accepted' \subseteq Projects
    BY <1>1, <1>2, <1>7 DEF ReleaseAccepted, ReleaseInv, NoRelease, TypeOK
  <2>2. ConsumerInv'
    BY <1>7 DEF ReleaseAccepted, ConsumerInv, ConsumerOK, projectVars, consumerVars
  <2> QED
    BY <1>3, <1>7, <2>1, <2>2 DEF ReleaseAccepted, TypeOK, projectVars, consumerVars
<1>8. CASE ReleaseRefused(r)
  <2>1. release' \in [Releasers -> Releases] /\ ReleaseInv'
    BY <1>1, <1>8 DEF ReleaseRefused, ReleaseInv
  <2>2. ConsumerInv'
    BY <1>8 DEF ReleaseRefused, ConsumerInv, ConsumerOK, projectVars, consumerVars
  <2> QED
    BY <1>3, <1>8, <2>1, <2>2 DEF ReleaseRefused, TypeOK, projectVars, consumerVars
<1>9. CASE RestoreReleased(r)
  <2>1. row' \in [Projects -> Rows] /\ ConsumerInv'
    BY <1>1, <1>5, <1>9 DEF RestoreReleased, consumerVars
  <2>2. release' \in [Releasers -> Releases] /\ ReleaseInv'
    BY <1>1, <1>2, <1>9 DEF RestoreReleased, ReleaseInv, NoRelease
  <2> QED
    BY <1>3, <1>9, <2>1, <2>2 DEF RestoreReleased, TypeOK, consumerVars
<1>10. CASE AbandonRelease(r)
  <2>1. release' \in [Releasers -> Releases] /\ ReleaseInv'
    BY <1>1, <1>2, <1>10 DEF AbandonRelease, ReleaseInv, NoRelease
  <2>2. abandoned' \subseteq Projects /\ faults' \in 0..MaxFaults
    BY <1>1, <1>10, BoundsAssumption DEF AbandonRelease, TypeOK
  <2>3. ConsumerInv'
    BY <1>10 DEF AbandonRelease, ConsumerInv, ConsumerOK, projectVars, consumerVars
  <2> QED
    BY <1>3, <1>10, <2>1, <2>2, <2>3 DEF AbandonRelease, TypeOK, projectVars, consumerVars
<1> QED
  BY <1>4, <1>6, <1>7, <1>8, <1>9, <1>10 DEF ReleaseStep

LEMMA NextIndInv ==
    ASSUME IndInv, [Next]_vars
    PROVE  IndInv'
<1>1. CASE UNCHANGED vars
  BY <1>1 DEF IndInv, TypeOK, ConsumerInv, ConsumerOK, JobInv, RunInv, ReleaseInv, vars,
              projectVars, consumerVars, releaseVars
<1>2. CASE Next
  BY <1>2, ConsumerStep, TaskStepInv, QueueingInv, RunStepInv, ReleaseStepInv DEF Next
<1> QED
  BY <1>1, <1>2

\* The types of ProjectOnboarding, and its inductive invariant, hold always.
THEOREM IndInvHolds == Spec => []IndInv
  BY InitIndInv, NextIndInv, PTL DEF Spec

\* The variables of projects, consumers, celery, the run, releases and the cache
\* keep their types (TypeOK), for any number of processes.
THEOREM TypeCorrect == Spec => []TypeOK
  BY IndInvHolds, PTL DEF IndInv

-----------------------------------------------------------------------------
(* Acknowledged messages.                                                  *)

LEMMA AckedStep ==
    ASSUME IndInv, AckedMeansComplete, [Next]_vars
    PROVE  AckedMeansComplete'
<1> USE DEF IndInv
<1>0. /\ row \in [Projects -> Rows] /\ acked \subseteq Projects
      /\ release \in [Releasers -> [step: {"idle", "save", "post", "restore"},
                                    project: Projects \cup {NoProject}, row: Rows]]
  BY DEF TypeOK
<1>1. ASSUME \A p \in Projects : row[p].exists => row'[p].exists,
             UNCHANGED <<human, granted, acked>>
      PROVE  AckedMeansComplete'
  BY <1>0, <1>1 DEF AckedMeansComplete
<1>2. CASE UNCHANGED vars
  BY <1>2 DEF vars, projectVars, consumerVars, AckedMeansComplete
<1>3. ASSUME NEW c \in Consumers, Consume(c) \/ StepRaises(c) \/ CrashConsumer(c)
      PROVE  AckedMeansComplete'
  <2>1. CASE CreateProject(c)
    <3>1. \A p \in Projects : row[p].exists => row'[p].exists
      BY <1>0, <2>1 DEF CreateProject
    <3> QED
      BY <1>1, <2>1, <3>1 DEF CreateProject
  <2>2. CASE CreateHuman(c) \/ CreateAuths(c)
    BY <2>2 DEF CreateHuman, CreateAuths, AckedMeansComplete
  <2>3. CASE Ack(c)
    BY <2>3 DEF Ack, AckedMeansComplete, ConsumerInv, ConsumerOK, projectVars
  <2>4. CASE \/ Deliver(c) \/ DelayConversations(c) \/ DelaySwitch(c) \/ StepRaises(c)
             \/ CrashConsumer(c)
    BY <1>1, <2>4 DEF Deliver, DelayConversations, DelaySwitch, StepRaises, CrashConsumer,
                      projectVars
  <2> QED
    BY <1>3, <2>1, <2>2, <2>3, <2>4 DEF Consume
<1>4. ASSUME NEW w \in Workers, TaskStep(w) \/ LoseTask(w)
      PROVE  AckedMeansComplete'
  <2>1. \A p \in Projects : row[p].exists => row'[p].exists
    <3>1. CASE SaveActive(w)
      BY <1>0, <3>1 DEF SaveActive, Rows
    <3>2. CASE ~SaveActive(w)
      BY <1>4, <3>2 DEF TaskStep, ReadProject, AskNexus, NexusFails, CheckQueue,
                        CreateActivation, LookForDashboard, GetDashboard, InsertDashboard,
                        LoseTask, projectVars
    <3> QED
      BY <3>1, <3>2
  <2>2. UNCHANGED <<human, granted, acked>>
    BY <1>4 DEF TaskStep, ReadProject, AskNexus, NexusFails, SaveActive, CheckQueue,
                CreateActivation, LookForDashboard, GetDashboard, InsertDashboard,
                LoseTask, projectVars, consumerVars
  <2> QED
    BY <1>1, <2>1, <2>2
<1>5. ASSUME NEW p \in Projects,
             \/ List(p) \/ ExpireCache(p)
             \/ \E w \in Workers, kind \in Kinds : StartTask(w, kind, p)
      PROVE  AckedMeansComplete'
  BY <1>1, <1>5 DEF List, ExpireCache, StartTask, projectVars, consumerVars
<1>6. CASE StartRun \/ RunStep \/ ActivationRaises \/ LoseRun
  <2>1. \A p \in Projects : row[p].exists => row'[p].exists
    <3>1. CASE SaveAllowed
      BY <1>0, <3>1 DEF SaveAllowed, Rows
    <3>2. CASE ~SaveAllowed
      BY <1>6, <3>2 DEF StartRun, RunStep, PostAccepted, PostRefused, SaveSuccess,
                        ActivationRaises, LoseRun, projectVars
    <3> QED
      BY <3>1, <3>2
  <2>2. UNCHANGED <<human, granted, acked>>
    BY <1>6 DEF StartRun, RunStep, PostAccepted, PostRefused, SaveAllowed, SaveSuccess,
                ActivationRaises, LoseRun, projectVars, consumerVars
  <2> QED
    BY <1>1, <2>1, <2>2
<1>7. ASSUME NEW r \in Releasers, BeginRelease(r) \/ ReleaseStep(r) \/ AbandonRelease(r)
      PROVE  AckedMeansComplete'
  <2>1. \A p \in Projects : row[p].exists => row'[p].exists
    <3>1. CASE SaveReleased(r) \/ RestoreReleased(r)
      BY <1>0, <3>1 DEF SaveReleased, RestoreReleased, ReleaseInv, Rows
    <3>2. CASE ~(SaveReleased(r) \/ RestoreReleased(r))
      BY <1>7, <3>2 DEF BeginRelease, ReleaseStep, ReleaseAccepted, ReleaseRefused,
                        AbandonRelease, projectVars
    <3> QED
      BY <3>1, <3>2
  <2>2. UNCHANGED <<human, granted, acked>>
    BY <1>7 DEF BeginRelease, ReleaseStep, SaveReleased, ReleaseAccepted, ReleaseRefused,
                RestoreReleased, AbandonRelease, projectVars, consumerVars
  <2> QED
    BY <1>1, <2>1, <2>2
<1> QED
  BY <1>2, <1>3, <1>4, <1>5, <1>6, <1>7 DEF Next

\* AckedMeansComplete: a creation message is acknowledged only for a project that
\* has its row, its default dashboard and its authorizations, with any number of
\* consumers, redeliveries and steps that raise (ProjectsUseCase.create_project).
THEOREM AcknowledgedIsComplete == Spec => []AckedMeansComplete
<1>1. Init => AckedMeansComplete
  BY DEF Init, AckedMeansComplete
<1> QED
  BY <1>1, IndInvHolds, AckedStep, PTL DEF Spec

-----------------------------------------------------------------------------
(* Allowed projects.                                                       *)

\* Nothing but the run itself moves the activation it is at.
LEMMA CurrentStays ==
    ASSUME IndInv, AcceptedInv, UNCHANGED run, accepted \subseteq accepted',
           queue' = queue \/ \E a \in Activations : queue' = Append(queue, a)
    PROVE  AcceptedInv'
<1>1. queue \in Seq(Activations) /\ (run.step # "idle" => run.cursor \in 1..Len(queue))
  BY DEF IndInv, TypeOK, RunInv
<1>2. run.step # "idle" => Current' = Current
  BY <1>1 DEF Current
<1> QED
  BY <1>2 DEF AcceptedInv

LEMMA AllowedUndisturbed ==
    ASSUME RestoreInv, AllowedMeansAccepted, UNCHANGED <<release, abandoned>>,
           accepted \subseteq accepted',
           \A p \in Projects : row'[p].allowed => row[p].allowed \/ p \in accepted'
    PROVE  RestoreInv' /\ AllowedMeansAccepted'
  BY DEF RestoreInv, AllowedMeansAccepted

LEMMA AllowedConsumerStep ==
    ASSUME IndInv, AllowedInv, NEW c \in Consumers,
           Consume(c) \/ StepRaises(c) \/ CrashConsumer(c)
    PROVE  AllowedInv'
<1> USE DEF IndInv, AllowedInv
<1>1. UNCHANGED <<run, queue, release, abandoned, accepted>>
  BY DEF Consume, Deliver, CreateProject, CreateHuman, DelayConversations, DelaySwitch,
         CreateAuths, Ack, StepRaises, CrashConsumer, releaseVars
<1>2. \A p \in Projects : row'[p].allowed => row[p].allowed
  <2>1. CASE CreateProject(c)
    <3> DEFINE new == [exists |-> TRUE, active |-> at[c] \in switched, allowed |-> FALSE]
    <3>1. UNCHANGED row \/ row' = [row EXCEPT ![at[c]] = new]
      BY <2>1 DEF CreateProject
    <3>2. ~new.allowed
      OBVIOUS
    <3> HIDE DEF new
    <3> QED
      BY <3>1, <3>2 DEF TypeOK
  <2>2. CASE ~CreateProject(c)
    BY <2>2 DEF Consume, Deliver, CreateHuman, DelayConversations, DelaySwitch, CreateAuths,
                Ack, StepRaises, CrashConsumer, projectVars
  <2> QED
    BY <2>1, <2>2
<1> QED
  BY <1>1, <1>2, CurrentStays, AllowedUndisturbed

LEMMA AllowedTaskStep ==
    ASSUME IndInv, AllowedInv, NEW w \in Workers, TaskStep(w) \/ LoseTask(w)
    PROVE  AllowedInv'
<1> USE DEF IndInv, AllowedInv
<1>1. UNCHANGED <<run, release, abandoned, accepted>>
  BY DEF TaskStep, ReadProject, AskNexus, NexusFails, SaveActive, CheckQueue, CreateActivation,
         LookForDashboard, GetDashboard, InsertDashboard, LoseTask, releaseVars
<1>2. queue' = queue \/ \E a \in Activations : queue' = Append(queue, a)
  <2>1. CASE CreateActivation(w)
    <3>1. [project |-> job[w].project, status |-> "PENDING"] \in Activations
      BY <2>1 DEF CreateActivation, JobInv, Activations
    <3> QED
      BY <2>1, <3>1 DEF CreateActivation
  <2>2. CASE ~CreateActivation(w)
    BY <2>2 DEF TaskStep, ReadProject, AskNexus, NexusFails, SaveActive, CheckQueue,
                LookForDashboard, GetDashboard, InsertDashboard, LoseTask
  <2> QED
    BY <2>1, <2>2
<1>3. \A p \in Projects : row'[p].allowed => row[p].allowed
  <2>1. CASE SaveActive(w)
    BY <2>1 DEF SaveActive, TypeOK, Rows
  <2>2. CASE ~SaveActive(w)
    BY <2>2 DEF TaskStep, ReadProject, AskNexus, NexusFails, CheckQueue, CreateActivation,
                LookForDashboard, GetDashboard, InsertDashboard, LoseTask, projectVars
  <2> QED
    BY <2>1, <2>2
<1> QED
  BY <1>1, <1>2, <1>3, CurrentStays, AllowedUndisturbed

LEMMA AllowedRunStep ==
    ASSUME IndInv, AllowedInv, StartRun \/ RunStep \/ ActivationRaises \/ LoseRun
    PROVE  AllowedInv'
<1> USE DEF IndInv, AllowedInv
<1>0. /\ queue \in Seq(Activations) /\ row \in [Projects -> Rows]
      /\ run.step # "idle" => run.cursor \in 1..Len(queue)
  BY DEF TypeOK, RunInv
<1>1. UNCHANGED <<release, abandoned>> /\ accepted \subseteq accepted'
  BY DEF StartRun, RunStep, PostAccepted, PostRefused, SaveAllowed, SaveSuccess,
         ActivationRaises, LoseRun, releaseVars
<1>2. CASE SaveAllowed
  <2>1. AcceptedInv'
    BY <1>2 DEF SaveAllowed, AcceptedInv, Current, TypeOK
  <2>2. \A p \in Projects : row'[p].allowed => row[p].allowed \/ p \in accepted'
    BY <1>0, <1>2 DEF SaveAllowed, AcceptedInv, Rows
  <2> QED
    BY <1>1, <2>1, <2>2, AllowedUndisturbed
<1>3. CASE ~SaveAllowed
  <2>1. UNCHANGED row
    BY <1>3 DEF StartRun, RunStep, PostAccepted, PostRefused, SaveSuccess, ActivationRaises,
                LoseRun, projectVars
  <2>2. AcceptedInv'
    <3>1. CASE StartRun \/ LoseRun
      BY <3>1 DEF StartRun, LoseRun, NoRun, AcceptedInv
    <3>2. CASE PostAccepted
      BY <3>2 DEF PostAccepted, AcceptedInv, Current, TypeOK
    <3>3. CASE PostRefused
      <4>1. run \in [step: {"idle", "post", "allow", "finish"}, cursor: Nat, left: 0..Limit,
                     attempts: 0..Retries]
            /\ run.step = "post"
        BY <3>3 DEF PostRefused, TypeOK
      <4>2. run'.step \in {"idle", "post"}
        BY <3>3, <4>1 DEF PostRefused, NextActivation, NoRun
      <4> QED
        BY <4>2 DEF AcceptedInv
    <3>4. CASE SaveSuccess \/ ActivationRaises
      BY <3>4 DEF SaveSuccess, ActivationRaises, NextActivation, NoRun, AcceptedInv
    <3> QED
      BY <1>3, <3>1, <3>2, <3>3, <3>4 DEF RunStep
  <2> QED
    BY <1>1, <2>1, <2>2, AllowedUndisturbed
<1> QED
  BY <1>2, <1>3

LEMMA AllowedReleaseStep ==
    ASSUME IndInv, AllowedInv, AtMostOne(Releasers), NEW r \in Releasers,
           BeginRelease(r) \/ ReleaseStep(r) \/ AbandonRelease(r)
    PROVE  AllowedInv'
<1> USE DEF IndInv, AllowedInv
<1>1. /\ release \in [Releasers -> [step: {"idle", "save", "post", "restore"},
                                    project: Projects \cup {NoProject}, row: Rows]]
      /\ row \in [Projects -> Rows]
      /\ release[r].step # "idle" => release[r].project \in Projects
      /\ release[r].step = "idle" => release[r] = NoRelease
      /\ \A s \in Releasers : s = r
  BY DEF TypeOK, ReleaseInv, AtMostOne
<1>2. AcceptedInv'
  <2>1. UNCHANGED <<run, queue>> /\ accepted \subseteq accepted'
    BY DEF BeginRelease, ReleaseStep, SaveReleased, ReleaseAccepted, ReleaseRefused,
           RestoreReleased, AbandonRelease
  <2> QED
    BY <2>1, CurrentStays
<1>3. CASE BeginRelease(r)
  <2>1. PICK p \in Projects : release' = [release EXCEPT ![r] =
                                [step |-> "save", project |-> p, row |-> row[p]]]
    BY <1>3 DEF BeginRelease
  <2>2. release[r].project = NoProject
    BY <1>3 DEF BeginRelease, NoRelease
  <2>3. \A q \in Projects : row[q].allowed => q \in accepted \cup abandoned
    BY <1>1, <2>2, ProjectsAssumption DEF AllowedMeansAccepted
  <2>4. RestoreInv' /\ AllowedMeansAccepted'
    BY <1>1, <1>3, <2>1, <2>3 DEF BeginRelease, RestoreInv, AllowedMeansAccepted, projectVars
  <2> QED
    BY <1>2, <2>4
<1>4. CASE SaveReleased(r)
  <2>1. RestoreInv'
    BY <1>1, <1>4 DEF SaveReleased, RestoreInv
  <2>2. AllowedMeansAccepted'
    BY <1>1, <1>4 DEF SaveReleased, AllowedMeansAccepted
  <2> QED
    BY <1>2, <2>1, <2>2
<1>5. CASE ReleaseAccepted(r)
  <2>1. RestoreInv'
    BY <1>1, <1>5 DEF ReleaseAccepted, RestoreInv, NoRelease, NoRow
  <2>2. AllowedMeansAccepted'
    BY <1>1, <1>5 DEF ReleaseAccepted, AllowedMeansAccepted, projectVars
  <2> QED
    BY <1>2, <2>1, <2>2
<1>6. CASE ReleaseRefused(r)
  <2>1. RestoreInv' /\ AllowedMeansAccepted'
    BY <1>1, <1>6 DEF ReleaseRefused, RestoreInv, AllowedMeansAccepted, projectVars
  <2> QED
    BY <1>2, <2>1
<1>7. CASE RestoreReleased(r)
  <2>1. RestoreInv'
    BY <1>1, <1>7 DEF RestoreReleased, RestoreInv, NoRelease, NoRow
  <2>2. AllowedMeansAccepted'
    BY <1>1, <1>7 DEF RestoreReleased, RestoreInv, AllowedMeansAccepted
  <2> QED
    BY <1>2, <2>1, <2>2
<1>8. CASE AbandonRelease(r)
  <2>1. RestoreInv'
    BY <1>1, <1>8 DEF AbandonRelease, RestoreInv, NoRelease, NoRow
  <2>2. AllowedMeansAccepted'
    BY <1>1, <1>8 DEF AbandonRelease, AllowedMeansAccepted, projectVars
  <2> QED
    BY <1>2, <2>1, <2>2
<1> QED
  BY <1>3, <1>4, <1>5, <1>6, <1>7, <1>8 DEF ReleaseStep

LEMMA AllowedStep ==
    ASSUME IndInv, AllowedInv, AtMostOne(Releasers), [Next]_vars
    PROVE  AllowedInv'
<1> USE DEF AllowedInv
<1>1. CASE UNCHANGED vars
  BY <1>1 DEF vars, projectVars, releaseVars, AcceptedInv, Current, RestoreInv,
              AllowedMeansAccepted
<1>2. ASSUME NEW p \in Projects,
             \/ List(p) \/ ExpireCache(p)
             \/ \E w \in Workers, kind \in Kinds : StartTask(w, kind, p)
      PROVE  AllowedInv'
  BY <1>2, CurrentStays, AllowedUndisturbed DEF List, ExpireCache, StartTask, projectVars,
                                                releaseVars
<1> QED
  BY <1>1, <1>2, AllowedConsumerStep, AllowedTaskStep, AllowedRunStep, AllowedReleaseStep
     DEF Next

\* AllowedMeansAccepted: with one release by hand at a time, a project is allowed
\* only after the webhook of the indexer has accepted it, or while its release is
\* not answered, whatever activate_indexer and the tasks do in between
\* (release_flows_dashboard restores what it read).
THEOREM AllowedIsAccepted ==
    ASSUME AtMostOne(Releasers)
    PROVE  Spec => []AllowedMeansAccepted
<1>1. Init => AllowedInv
  BY DEF Init, AllowedInv, AcceptedInv, RestoreInv, AllowedMeansAccepted, NoRun, NoRow, NoRelease
<1>2. IndInv /\ AllowedInv /\ [Next]_vars => AllowedInv'
  BY AllowedStep
<1>3. AllowedInv => AllowedMeansAccepted
  BY DEF AllowedInv
<1> QED
  BY <1>1, <1>2, <1>3, IndInvHolds, PTL DEF Spec

-----------------------------------------------------------------------------
(* Waiting once.                                                           *)

\* A queue that keeps its order, and whose waiting entries were waiting before.
LEMMA WaitShrinks ==
    ASSUME WaitsOnce, NEW f \in [1..Len(queue') -> 1..Len(queue)],
           \A i, j \in 1..Len(queue') : f[i] = f[j] => i = j,
           \A i \in 1..Len(queue') : queue'[i].status = "PENDING" => queue'[i] = queue[f[i]]
    PROVE  WaitsOnce' /\ \A p \in Projects : Queued(p)' => Queued(p)
<1>1. WaitsOnce'
  BY DEF WaitsOnce
<1>2. ASSUME NEW p \in Projects, Queued(p)' PROVE Queued(p)
  <2>1. PICK i \in 1..Len(queue') : queue'[i] = [project |-> p, status |-> "PENDING"]
    BY <1>2 DEF Queued
  <2>2. queue[f[i]] = [project |-> p, status |-> "PENDING"] /\ f[i] \in 1..Len(queue)
    BY <2>1
  <2> QED
    BY <2>2 DEF Queued
<1> QED
  BY <1>1, <1>2

LEMMA WaitMark ==
    ASSUME IndInv, WaitsOnce, run.step # "idle", MarkFailed
    PROVE  WaitsOnce' /\ \A p \in Projects : Queued(p)' => Queued(p)
<1> DEFINE f == [i \in 1..Len(queue) |-> i]
<1>1. /\ Len(queue') = Len(queue)
      /\ \A i \in 1..Len(queue) : queue'[i].status = "PENDING" => queue'[i] = queue[i]
  BY MarkTypes
<1>2. f \in [1..Len(queue') -> 1..Len(queue)] /\ \A i \in 1..Len(queue') : f[i] = i
  BY <1>1
<1> HIDE DEF f
<1> QED
  BY <1>1, <1>2, WaitShrinks

LEMMA WaitRemove ==
    ASSUME IndInv, WaitsOnce, SaveSuccess
    PROVE  WaitsOnce' /\ \A p \in Projects : Queued(p)' => Queued(p)
<1> DEFINE f == [i \in 1..Len(queue') |-> IF i < run.cursor THEN i ELSE i + 1]
<1>0. queue \in Seq(Activations) /\ run.cursor \in 1..Len(queue)
  BY DEF IndInv, TypeOK, RunInv, SaveSuccess
<1>1. /\ Len(queue') = Len(queue) - 1
      /\ \A i \in 1..Len(queue') : queue'[i] = IF i < run.cursor THEN queue[i] ELSE queue[i + 1]
  BY <1>0, RemoveOne DEF SaveSuccess
<1>2. /\ f \in [1..Len(queue') -> 1..Len(queue)]
      /\ \A i \in 1..Len(queue') : f[i] = IF i < run.cursor THEN i ELSE i + 1
  BY <1>0, <1>1
<1> HIDE DEF f
<1>3. \A i, j \in 1..Len(queue') : f[i] = f[j] => i = j
  BY <1>0, <1>1, <1>2
<1>4. \A i \in 1..Len(queue') : queue'[i] = queue[f[i]]
  BY <1>1, <1>2
<1> QED
  BY <1>2, <1>3, <1>4, WaitShrinks

LEMMA WaitTaskStep ==
    ASSUME IndInv, WaitInv, AtMostOne(Workers), NEW w \in Workers, TaskStep(w) \/ LoseTask(w)
    PROVE  WaitInv'
<1> USE DEF IndInv, WaitInv
<1>0. /\ queue \in Seq(Activations) /\ \A v \in Workers : v = w
      /\ job[w].step # "idle" => job[w].project \in Projects
      /\ DOMAIN job = Workers
  BY DEF TypeOK, AtMostOne, JobInv
<1>1. CASE CheckQueue(w)
  <2>1. AddInv'
    <3>1. /\ UNCHANGED queue
          /\ job' = [job EXCEPT ![w].step =
                       IF job[w].allowed \/ Queued(job[w].project) THEN "look" ELSE "create"]
      BY <1>1 DEF CheckQueue, Advance
    <3>2. job'[w].step = "create" => ~Queued(job'[w].project)
      BY <1>0, <3>1 DEF TypeOK
    <3> QED
      BY <1>0, <3>1, <3>2 DEF AddInv, Queued
  <2> QED
    BY <1>1, <2>1 DEF CheckQueue, WaitsOnce
<1>2. CASE CreateActivation(w)
  <2> DEFINE new == [project |-> job[w].project, status |-> "PENDING"]
  <2>1. AddInv'
    BY <1>0, <1>2 DEF CreateActivation, Advance, AddInv, TypeOK
  <2>2. \A i \in 1..Len(queue) : queue[i] # new
    BY <1>0, <1>2 DEF CreateActivation, AddInv, Queued
  <2>3. new \in Activations
    BY <1>0, <1>2 DEF CreateActivation, Activations
  <2>4. CASE queue' = queue
    BY <2>1, <2>4 DEF WaitsOnce
  <2>5. CASE queue' = Append(queue, new)
    <3> HIDE DEF new
    <3>1. /\ Len(queue') = Len(queue) + 1 /\ queue'[Len(queue) + 1] = new
          /\ \A i \in 1..Len(queue) : queue'[i] = queue[i]
      BY <1>0, <2>3, <2>5
    <3>2. ASSUME NEW i \in 1..Len(queue'), NEW j \in 1..Len(queue'), i # j, queue'[i] = queue'[j]
          PROVE  queue'[i].status # "PENDING"
      <4>1. i \in 1..Len(queue) /\ j \in 1..Len(queue)
        BY <1>0, <2>2, <3>1, <3>2
      <4> QED
        BY <3>1, <3>2, <4>1 DEF WaitsOnce
    <3> QED
      BY <2>1, <3>2 DEF WaitsOnce
  <2> QED
    BY <1>2, <2>4, <2>5 DEF CreateActivation
<1>3. CASE ~CheckQueue(w) /\ ~CreateActivation(w)
  <2>1. /\ UNCHANGED queue
        /\ job'[w].step # "create"
    BY <1>0, <1>3 DEF TaskStep, ReadProject, AskNexus, NexusFails, SaveActive, LookForDashboard,
                 GetDashboard, InsertDashboard, LoseTask, Advance, EndJob, NoJob, TypeOK
  <2> QED
    BY <1>0, <2>1 DEF AddInv, WaitsOnce
<1> QED
  BY <1>1, <1>2, <1>3

LEMMA WaitStep ==
    ASSUME IndInv, WaitInv, AtMostOne(Workers), [Next]_vars
    PROVE  WaitInv'
<1> USE DEF IndInv, WaitInv
<1>1. ASSUME UNCHANGED <<queue, job>> PROVE WaitInv'
  BY <1>1 DEF AddInv, Queued, WaitsOnce
<1>2. CASE UNCHANGED vars
  BY <1>1, <1>2 DEF vars
<1>3. ASSUME NEW c \in Consumers, Consume(c) \/ StepRaises(c) \/ CrashConsumer(c)
      PROVE  WaitInv'
  BY <1>1, <1>3 DEF Consume, Deliver, CreateProject, CreateHuman, DelayConversations,
                    DelaySwitch, CreateAuths, Ack, StepRaises, CrashConsumer
<1>4. ASSUME NEW w \in Workers, NEW kind \in Kinds, NEW p \in Projects, StartTask(w, kind, p)
      PROVE  WaitInv'
  <2>1. UNCHANGED queue /\ job'[w].step # "create" /\ \A v \in Workers : v = w
    BY <1>4 DEF StartTask, TypeOK, AtMostOne
  <2> QED
    BY <2>1 DEF AddInv, WaitsOnce
<1>5. ASSUME NEW p \in Projects, List(p) \/ ExpireCache(p) PROVE WaitInv'
  BY <1>1, <1>5 DEF List, ExpireCache
<1>6. ASSUME UNCHANGED job, WaitsOnce', \A p \in Projects : Queued(p)' => Queued(p)
      PROVE  WaitInv'
  BY <1>6 DEF AddInv, JobInv
<1>7. CASE StartRun \/ RunStep \/ ActivationRaises \/ LoseRun
  <2>1. CASE PostRefused \/ ActivationRaises
    BY <1>6, <2>1, WaitMark DEF PostRefused, ActivationRaises, RunInv
  <2>2. CASE SaveSuccess
    BY <1>6, <2>2, WaitRemove DEF SaveSuccess
  <2>3. CASE StartRun \/ PostAccepted \/ SaveAllowed \/ LoseRun
    BY <1>1, <2>3 DEF StartRun, PostAccepted, SaveAllowed, LoseRun
  <2> QED
    BY <1>7, <2>1, <2>2, <2>3 DEF RunStep
<1>8. ASSUME NEW r \in Releasers, BeginRelease(r) \/ ReleaseStep(r) \/ AbandonRelease(r)
      PROVE  WaitInv'
  BY <1>1, <1>8 DEF BeginRelease, ReleaseStep, SaveReleased, ReleaseAccepted, ReleaseRefused,
                    RestoreReleased, AbandonRelease
<1> QED
  BY <1>2, <1>3, <1>4, <1>5, <1>7, <1>8, WaitTaskStep DEF Next

\* WaitsOnce: with one slot, no project waits twice in the queue of the indexer,
\* whatever is enqueued, retried, lost or killed (add_project_to_indexer_queue
\* looks and then creates).
THEOREM WaitingIsUnique ==
    ASSUME AtMostOne(Workers)
    PROVE  Spec => []WaitsOnce
<1>1. Init => WaitInv
  BY DEF Init, WaitInv, AddInv, WaitsOnce, NoJob
<1>2. IndInv /\ WaitInv /\ [Next]_vars => WaitInv'
  BY WaitStep
<1>3. WaitInv => WaitsOnce
  BY DEF WaitInv
<1> QED
  BY <1>1, <1>2, <1>3, IndInvHolds, PTL DEF Spec

=============================================================================
