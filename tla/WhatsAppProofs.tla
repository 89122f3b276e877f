---------------------------- MODULE WhatsAppProofs ----------------------------
(***************************************************************************)
(* For any projects, numbers, WABAs and templates.  With any number of     *)
(* processes, a dashboard exceeds the limit of favourites by less than     *)
(* what can be added to it at once.  With one process for webhooks, no     *)
(* number is dropped or doubled, and a migration leaves none behind.       *)
(***************************************************************************)
EXTENDS WhatsAppIntegration, FiniteSetTheorems, TLAPS

-----------------------------------------------------------------------------
(* The inductive invariants.                                               *)

\* A dashboard and its favourites are created together.
FavsInv == favs \in Seq(SUBSET Templates) /\ Len(favs) = Len(dash)

\* What a webhook at work knows.
HookWorks(r, ids) ==
    /\ r.step \in {"find", "delete", "create"}
    /\ r.project \in Callers /\ r.waba \in Wabas /\ r.old # r.waba
    /\ r.mode = "remove" => r.step = "delete" /\ r.old = None
    /\ r.mode # "remove" =>
         /\ r.target \in Projects /\ r.phone \in Phones /\ r.item \in Phones
         /\ r.target = r.project \/ (r.target = Main /\ HasMain(r.project))
         /\ r.step = "delete" => r.source \in ids
    /\ r.mode = "number" => r.todo = {}
    /\ r.mode = "waba" => r.old \in Wabas
    /\ r.mode = "copies" => r.old \in Wabas /\ r.target # r.project
HookInv == \A h \in Hooks : hook[h] = NoHook \/ (hook[h].mode # "none" /\ HookWorks(hook[h], Ids))

\* What an addition and a task at work know.
AddingInv == \A u \in Users : adding[u] = NoAddition \/ (adding[u].to \in Ids
                                                         /\ adding[u].template \in Templates)
SlotInv == \A s \in Slots :
    slot[s] = NoMove \/ /\ slot[s].step # "idle" /\ slot[s].from \in Ids /\ slot[s].to \in Ids
                        /\ slot[s].step = "create" => slot[s].template \in Templates

TypeInv == TypeOK /\ FavsInv /\ HookInv /\ AddingInv /\ SlotInv

\* Those who are about to add to a dashboard.
Adders(i) == {u \in Users : adding[u].to = i}
Movers(i) == {s \in Slots : slot[s].step = "create" /\ slot[s].to = i}

\* The favourites of a dashboard, and those that users and tasks are about to add.
Room(f, us, ss) == Cardinality(f) + Cardinality(us) + Cardinality(ss)
                     < Limit + Cardinality(Users) + Cardinality(Slots)
PendingInv == \A i \in Ids : Room(favs[i], Adders(i), Movers(i))

\* A number has a live dashboard at most.
SingleInv == \A i, j \in Ids :
    (dash[i].live /\ dash[j].live /\ NumberOf(i) = NumberOf(j)) => i = j

\* A number has one, or the webhook at work or a ghost knows why not.
KeptInv == \A i \in Ids : \/ LiveFor(dash[i].project, dash[i].phone) # {}
                          \/ NumberOf(i) \in lost
                          \/ Serving(dash[i].project, dash[i].phone)

\* The dashboard a webhook replaces is live until it is deleted; none takes its
\* place before it is created; the ones to do are live and of other numbers.
Replaces(r) ==
    /\ r.step = "delete" /\ r.mode # "remove" => r.source \in LiveFor(r.target, r.item)
    /\ r.step = "create" => LiveFor(r.target, r.item) = {}
    /\ r.mode = "waba" /\ r.step \in {"delete", "create"} =>
         \A j \in r.todo : dash[j].live /\ dash[j].project = r.target /\ dash[j].phone # r.item
ReplaceInv == \A h \in Hooks : Replaces(hook[h])

\* How far a migration has come: what is left on the old WABA is still to be done.
LeftOn(r, p) == IF r.mode # "waba" \/ (p = r.project /\ r.target # r.project) THEN {}
                ELSE IF p = r.target /\ r.step = "delete" THEN r.todo \cup {r.source}
                ELSE IF p = r.target /\ r.step = "create" THEN r.todo
                ELSE LiveOn(p, r.old)
Migrates(r) == r.old # None =>
    /\ LiveOn(r.project, r.old) \subseteq LeftOn(r, r.project)
    /\ HasMain(r.project) => LiveOn(Main, r.old) \subseteq LeftOn(r, Main)
MigrationInv == \A h \in Hooks : Migrates(hook[h])

NumbersInv == SingleInv /\ KeptInv /\ ReplaceInv /\ MigrationInv

-----------------------------------------------------------------------------
(* How a webhook goes on.                                                  *)

HookRecords(ids) ==
    [mode: {"none", "number", "waba", "copies", "remove"},
     step: {"idle", "find", "delete", "create"},
     project: Callers \cup {None}, waba: Wabas \cup {None}, phone: Phones \cup {None},
     old: Wabas \cup {None}, target: Projects \cup {None}, item: Phones \cup {None},
     todo: SUBSET ids, source: ids \cup {0}, made: SUBSET ids]

\* Saving the number in a project.
NumberIn(r, p) == [r EXCEPT !.mode = "number", !.step = "find", !.target = p, !.item = r.phone]

Saves == {"number", "waba", "copies"}

\* What may follow when nothing is left to do.
LEMMA NextPhaseIs ==
  ASSUME NEW r, r.mode \in Saves
  PROVE  \/ /\ NextPhase(r) = NoHook
            /\ r.mode # "copies" => ~(r.target = r.project /\ HasMain(r.project))
         \/ /\ NextPhase(r) = NumberIn(r, Main)
            /\ r.mode = "number" /\ r.target = r.project /\ HasMain(r.project)
         \/ /\ NextPhase(r) = [r EXCEPT !.step = "find", !.target = Main]
            /\ r.mode = "waba" /\ r.target = r.project /\ HasMain(r.project)
         \/ /\ NextPhase(r) = NumberIn(r, r.project)
            /\ r.mode # "number" /\ (r.mode = "waba" => ~(r.target = r.project /\ HasMain(r.project)))
<1>1. CASE r.mode = "number"
  BY <1>1 DEF NextPhase, NumberIn
<1>2. CASE r.mode = "waba"
  BY <1>2 DEF NextPhase, NumberIn
<1>3. CASE r.mode = "copies"
  BY <1>3 DEF NextPhase, NumberIn
<1> QED BY <1>1, <1>2, <1>3 DEF Saves

\* The next dashboard of the list.
NextOf(r, i) == [r EXCEPT !.item = dash[i].phone, !.todo = @ \ {i}, !.source = i,
                          !.step = IF r.mode = "waba" THEN "delete" ELSE "find"]

\* What a webhook that has r to do may be next.
Follows(r, q) == \/ r.todo = {} /\ q = NextPhase(r)
                 \/ \E i \in r.todo : q = NextOf(r, i)

LEMMA ProceedFollows ==
  ASSUME NEW h \in Hooks, NEW r, Proceed(h, r)
  PROVE  \E q : hook' = [hook EXCEPT ![h] = q] /\ Follows(r, q)
<1>1. CASE r.todo = {}
  BY <1>1 DEF Proceed, Follows
<1>2. CASE r.todo # {}
  BY <1>2 DEF Proceed, Follows, NextOf
<1> QED BY <1>1, <1>2

LEMMA NoHookType == ASSUME NEW ids PROVE NoHook \in HookRecords(ids)
BY DEF NoHook, HookRecords

\* It keeps its type and knows what it needs to know.
LEMMA FollowsTypes ==
  ASSUME dash \in Seq(Dashboards), NEW ids, ids \subseteq Nat \ {0}, NEW r \in HookRecords(ids),
         r.mode \in Saves, HookWorks(r, ids), r.todo \subseteq Ids, NEW q, Follows(r, q)
  PROVE  q \in HookRecords(ids) /\ (q = NoHook \/ (q.mode # "none" /\ HookWorks(q, ids)))
<1>a. Main \in Projects \cup {None} /\ Callers \subseteq Projects
  BY NamesAssumption
<1>b. r.project \in Projects /\ r.phone \in Phones /\ r.target \in Projects
  BY <1>a DEF HookWorks, Saves
<1>1. ASSUME NEW p \in Projects, q = NumberIn(r, p), r.todo = {},
             p = r.project \/ (p = Main /\ HasMain(r.project))
      PROVE  q \in HookRecords(ids) /\ q.mode # "none" /\ HookWorks(q, ids)
  BY <1>1, <1>a, <1>b DEF NumberIn, HookRecords, HookWorks
<1>2. ASSUME q = [r EXCEPT !.step = "find", !.target = Main], r.mode = "waba", HasMain(r.project)
      PROVE  q \in HookRecords(ids) /\ q.mode # "none" /\ HookWorks(q, ids)
  BY <1>2, <1>a, <1>b DEF HookRecords, HookWorks, HasMain
<1>3. ASSUME NEW i \in r.todo, q = NextOf(r, i)
      PROVE  q \in HookRecords(ids) /\ q.mode # "none" /\ HookWorks(q, ids)
  <2>1. i \in ids /\ dash[i].phone \in Phones /\ r.todo \ {i} \in SUBSET ids /\ i \in Ids
    <3>1. r.todo \subseteq ids
      BY DEF HookRecords
    <3>2. dash[i] \in Dashboards
      BY <1>3 DEF Ids
    <3> QED BY <1>3, <3>1, <3>2 DEF Dashboards
  <2>2. r.mode # "number"
    BY <1>3 DEF HookWorks
  <2>3. q \in HookRecords(ids) /\ q.mode = r.mode
    <3> DEFINE step == IF r.mode = "waba" THEN "delete" ELSE "find"
               todo == r.todo \ {i}
               item == dash[i].phone
    <3>1. q = [r EXCEPT !.item = item, !.todo = todo, !.source = i, !.step = step]
      BY <1>3 DEF NextOf
    <3>2. step \in {"delete", "find"} /\ todo \in SUBSET ids /\ item \in Phones /\ i \in ids
      BY <2>1
    <3> HIDE DEF step, todo, item
    <3> QED BY <3>1, <3>2 DEF HookRecords
  <2>4. /\ q.step = IF r.mode = "waba" THEN "delete" ELSE "find"
        /\ q.project = r.project /\ q.waba = r.waba /\ q.old = r.old /\ q.target = r.target
        /\ q.phone = r.phone /\ q.item = dash[i].phone /\ q.source = i
    BY <1>3 DEF HookRecords, NextOf
  <2>5. HookWorks(q, ids)
    BY <2>1, <2>2, <2>3, <2>4, <1>b DEF HookWorks, Saves
  <2> QED BY <2>3, <2>5 DEF Saves
<1>4. CASE r.todo = {} /\ q = NextPhase(r)
  <2>1. Main \in Projects \/ ~HasMain(r.project)
    BY <1>a DEF HasMain
  <2> QED BY <1>1, <1>2, <1>4, <1>b, <2>1, NextPhaseIs, NoHookType
<1> QED BY <1>3, <1>4 DEF Follows

-----------------------------------------------------------------------------
(* Every step keeps the types.                                             *)

LEMMA IdsFacts ==
  ASSUME TypeInv
  PROVE  /\ Len(dash) \in Nat /\ Ids \subseteq Nat \ {0} /\ DOMAIN dash = Ids
         /\ \A i \in Ids : dash[i] \in Dashboards /\ favs[i] \in SUBSET Templates
         /\ DOMAIN favs = Ids
         /\ hook \in [Hooks -> HookRecords(Ids)]
<1>1. dash \in Seq(Dashboards) /\ favs \in Seq(SUBSET Templates) /\ Len(favs) = Len(dash)
  BY DEF TypeInv, TypeOK, FavsInv
<1>2. hook \in [Hooks -> HookRecords(Ids)]
  BY DEF TypeInv, TypeOK, HookRecords
<1> QED BY <1>1, <1>2 DEF Ids

\* A webhook at work.
LEMMA HookAt ==
  ASSUME TypeInv, NEW h \in Hooks, hook[h].step # "idle"
  PROVE  /\ hook[h] \in HookRecords(Ids) /\ hook[h].mode # "none" /\ HookWorks(hook[h], Ids)
         /\ hook[h].mode # "remove" => hook[h].mode \in Saves
         /\ hook[h].todo \subseteq Ids
<1>1. hook[h] \in HookRecords(Ids)
  BY IdsFacts
<1>2. hook[h] # NoHook
  BY DEF NoHook
<1>3. hook[h].mode # "none" /\ HookWorks(hook[h], Ids)
  BY <1>2 DEF TypeInv, HookInv
<1> QED BY <1>1, <1>3 DEF HookRecords, Saves

LEMMA HookChanges ==
  ASSUME TypeInv, Ids \subseteq Ids', NEW h \in Hooks, NEW q \in HookRecords(Ids'),
         hook' = [hook EXCEPT ![h] = q], q = NoHook \/ (q.mode # "none" /\ HookWorks(q, Ids'))
  PROVE  hook' \in [Hooks -> HookRecords(Ids')] /\ HookInv'
<1>1. HookRecords(Ids) \subseteq HookRecords(Ids')
  BY DEF HookRecords
<1>2. ASSUME NEW r, HookWorks(r, Ids) PROVE HookWorks(r, Ids')
  BY <1>2 DEF HookWorks
<1>3. hook \in [Hooks -> HookRecords(Ids)]
  BY IdsFacts
<1>4. hook' \in [Hooks -> HookRecords(Ids')]
  BY <1>1, <1>3
<1>5. ASSUME NEW g \in Hooks
      PROVE  hook'[g] = NoHook \/ (hook'[g].mode # "none" /\ HookWorks(hook'[g], Ids'))
  <2>1. CASE g = h
    BY <1>2, <1>3, <2>1
  <2>2. CASE g # h
    BY <1>2, <1>3, <2>2 DEF TypeInv, HookInv
  <2> QED BY <2>1, <2>2
<1> QED BY <1>4, <1>5 DEF HookInv

\* A step of a webhook that creates no dashboard keeps the rest.
LEMMA HookKeepsTypes ==
  ASSUME TypeInv, NEW h \in Hooks, NEW q \in HookRecords(Ids),
         hook' = [hook EXCEPT ![h] = q], q = NoHook \/ (q.mode # "none" /\ HookWorks(q, Ids)),
         dash' \in Seq(Dashboards), Len(dash') = Len(dash), webhooks' \in 0..MaxWebhooks,
         UNCHANGED <<favs, userVars, taskVars, spoiled>>, faults' \in 0..MaxFaults,
         lost' \subseteq Numbers, unsure' \subseteq Phones
  PROVE  TypeInv'
<1>1. Ids' = Ids
  BY DEF Ids
<1>2. hook' \in [Hooks -> HookRecords(Ids')] /\ HookInv'
  BY <1>1, HookChanges
<1>3. TypeOK' /\ FavsInv'
  BY <1>1, <1>2 DEF TypeInv, TypeOK, FavsInv, HookRecords, userVars, taskVars
<1>4. AddingInv' /\ SlotInv'
  BY <1>1 DEF TypeInv, AddingInv, SlotInv, userVars, taskVars
<1> QED BY <1>2, <1>3, <1>4 DEF TypeInv

LEMMA BeginKeepsTypes ==
  ASSUME TypeInv, NEW h \in Hooks, BeginSave(h) \/ BeginRemove(h)
  PROVE  TypeInv'
<1>1. webhooks' \in 0..MaxWebhooks /\ Callers \subseteq Projects
  <2>1. webhooks < MaxWebhooks /\ webhooks' = webhooks + 1
    BY DEF BeginSave, BeginRemove
  <2> QED BY <2>1, BoundsAssumption, NamesAssumption DEF TypeInv, TypeOK
<1>2. UNCHANGED <<dash, favs, userVars, taskVars, ghosts, faults>>
  BY DEF BeginSave, BeginRemove
<1>3. \E q \in HookRecords(Ids) : /\ hook' = [hook EXCEPT ![h] = q]
                                  /\ q = NoHook \/ (q.mode # "none" /\ HookWorks(q, Ids))
  <2>1. CASE BeginSave(h)
    <3>1. PICK p \in Callers, w \in Wabas, f \in Phones, old \in Wabas \cup {None} :
            /\ old # w
            /\ hook' = [hook EXCEPT ![h] =
                 [NoHook EXCEPT !.mode = IF old = None THEN "number" ELSE "waba",
                                !.step = "find", !.project = p, !.waba = w, !.phone = f,
                                !.old = old, !.target = p, !.item = f]]
      BY <2>1 DEF BeginSave
    <3> DEFINE mode == IF old = None THEN "number" ELSE "waba"
               q == [NoHook EXCEPT !.mode = mode, !.step = "find", !.project = p, !.waba = w,
                                   !.phone = f, !.old = old, !.target = p, !.item = f]
    <3>2. hook' = [hook EXCEPT ![h] = q]
      BY <3>1
    <3>3. mode \in {"number", "waba"} /\ (mode = "waba" => old \in Wabas)
      OBVIOUS
    <3> HIDE DEF mode
    <3>4. q \in HookRecords(Ids) /\ q.mode # "none" /\ HookWorks(q, Ids)
      BY <1>1, <3>1, <3>3, NamesAssumption DEF HookRecords, HookWorks, NoHook
    <3> QED BY <3>2, <3>4
  <2>2. CASE BeginRemove(h)
    <3>0. \A p, w : LiveOn(p, w) \subseteq Ids
      BY DEF LiveOn
    <3>1. PICK p \in Callers, w \in Wabas, found \in SUBSET Ids :
            hook' = [hook EXCEPT ![h] =
              IF found = {} THEN NoHook
              ELSE [NoHook EXCEPT !.mode = "remove", !.step = "delete", !.project = p,
                                  !.waba = w, !.todo = found]]
      <4>1. PICK p \in Callers, w \in Wabas :
              LET found == LiveOn(p, w) \cup (IF HasMain(p) THEN LiveOn(Main, w) ELSE {})
              IN hook' = [hook EXCEPT ![h] =
                   IF found = {} THEN NoHook
                   ELSE [NoHook EXCEPT !.mode = "remove", !.step = "delete", !.project = p,
                                       !.waba = w, !.todo = found]]
        BY <2>2 DEF BeginRemove
      <4> DEFINE found == LiveOn(p, w) \cup (IF HasMain(p) THEN LiveOn(Main, w) ELSE {})
      <4>2. found \in SUBSET Ids
        BY <3>0
      <4> QED BY <4>1, <4>2
    <3> DEFINE q == [NoHook EXCEPT !.mode = "remove", !.step = "delete", !.project = p,
                                   !.waba = w, !.todo = found]
    <3>2. q \in HookRecords(Ids) /\ q.mode # "none" /\ HookWorks(q, Ids)
      BY <1>1, <3>1, NamesAssumption DEF HookRecords, HookWorks, NoHook
    <3> QED BY <3>1, <3>2, NoHookType
  <2> QED BY <2>1, <2>2
<1> QED BY <1>1, <1>2, <1>3, HookKeepsTypes DEF ghosts, TypeInv, TypeOK

LEMMA FindKeepsTypes ==
  ASSUME TypeInv, NEW h \in Hooks, FindNumber(h) \/ FindWaba(h)
  PROVE  TypeInv'
<1>1. hook[h].step = "find" /\ UNCHANGED <<dash, favs, webhooks, userVars, taskVars, ghosts, faults>>
  BY DEF FindNumber, FindWaba
<1>2. hook[h] \in HookRecords(Ids) /\ hook[h].mode # "none" /\ HookWorks(hook[h], Ids)
  BY <1>1, HookAt
<1>3. \E q \in HookRecords(Ids) : /\ hook' = [hook EXCEPT ![h] = q]
                                  /\ q = NoHook \/ (q.mode # "none" /\ HookWorks(q, Ids))
  <2>1. CASE FindNumber(h)
    <3>1. PICK step \in {"create", "delete"}, source \in Ids \cup {0} :
            /\ hook' = [hook EXCEPT ![h].step = step, ![h].source = source]
            /\ step = "delete" => source \in Ids
      BY <2>1 DEF FindNumber, LiveFor
    <3> DEFINE q == [hook[h] EXCEPT !.step = step, !.source = source]
    <3>2. hook' = [hook EXCEPT ![h] = q]
      BY <3>1, IdsFacts DEF HookRecords
    <3>3. hook[h].mode \in {"number", "copies"}
      BY <2>1 DEF FindNumber
    <3>4. q \in HookRecords(Ids) /\ q.mode # "none" /\ HookWorks(q, Ids)
      BY <1>2, <3>1, <3>3 DEF HookRecords, HookWorks
    <3> QED BY <3>2, <3>4
  <2>2. CASE FindWaba(h)
    <3> DEFINE found == LiveOn(hook[h].target, hook[h].old)
               copies == [hook[h] EXCEPT !.mode = "copies", !.todo = hook[h].made]
               own == [hook[h] EXCEPT !.todo = found]
    <3>1. hook[h].mode = "waba"
      BY <2>2 DEF FindWaba
    <3>2. Proceed(h, own) \/ (hook[h].target # hook[h].project /\ Proceed(h, copies))
      BY <2>2 DEF FindWaba
    <3>3. found \subseteq Ids /\ hook[h].made \subseteq Ids
      BY <1>2 DEF LiveOn, HookRecords
    <3>4. own \in HookRecords(Ids) /\ own.mode \in Saves /\ own.todo \subseteq Ids /\ HookWorks(own, Ids)
      BY <1>2, <3>1, <3>3 DEF HookRecords, HookWorks, Saves
    <3>5. hook[h].target # hook[h].project =>
            /\ copies \in HookRecords(Ids) /\ copies.mode \in Saves /\ copies.todo \subseteq Ids
            /\ HookWorks(copies, Ids)
      BY <1>2, <3>1, <3>3 DEF HookRecords, HookWorks, Saves
    <3>6. PICK r, q : /\ r = own \/ (r = copies /\ hook[h].target # hook[h].project)
                      /\ hook' = [hook EXCEPT ![h] = q] /\ Follows(r, q)
      BY <3>2, ProceedFollows
    <3> HIDE DEF own, copies
    <3>7. r \in HookRecords(Ids) /\ r.mode \in Saves /\ r.todo \subseteq Ids /\ HookWorks(r, Ids)
      BY <3>4, <3>5, <3>6
    <3>8. dash \in Seq(Dashboards) /\ Ids \subseteq Nat \ {0}
      BY IdsFacts DEF TypeInv, TypeOK
    <3>9. q \in HookRecords(Ids) /\ (q = NoHook \/ (q.mode # "none" /\ HookWorks(q, Ids)))
      BY <3>6, <3>7, <3>8, FollowsTypes
    <3> QED BY <3>6, <3>9
  <2> QED BY <2>1, <2>2
<1> QED BY <1>1, <1>3, HookKeepsTypes DEF ghosts, TypeInv, TypeOK

\* A soft deletion.
LEMMA DeletedBoard ==
  ASSUME TypeInv, NEW i \in Ids, dash' = [dash EXCEPT ![i].live = FALSE]
  PROVE  /\ dash' \in Seq(Dashboards) /\ Len(dash') = Len(dash) /\ Ids' = Ids
         /\ \A j \in Ids : /\ dash'[j].project = dash[j].project /\ dash'[j].phone = dash[j].phone
                           /\ dash'[j].waba = dash[j].waba
                           /\ dash'[j].live <=> (dash[j].live /\ j # i)
<1> DEFINE board == [dash[i] EXCEPT !.live = FALSE]
<1>1. dash' = [dash EXCEPT ![i] = board] /\ board \in Dashboards
      /\ board.project = dash[i].project /\ board.phone = dash[i].phone
      /\ board.waba = dash[i].waba /\ board.live = FALSE
  BY IdsFacts DEF Dashboards
<1> HIDE DEF board
<1>2. dash \in Seq(Dashboards) /\ Len(dash) \in Nat /\ i \in 1..Len(dash)
  BY IdsFacts DEF TypeInv, TypeOK, Ids
<1>3. /\ [dash EXCEPT ![i] = board] \in Seq(Dashboards)
      /\ Len([dash EXCEPT ![i] = board]) = Len(dash)
      /\ \A j \in 1..Len(dash) : [dash EXCEPT ![i] = board][j] = IF j = i THEN board ELSE dash[j]
  BY <1>1, <1>2
<1>4. \A j \in Ids : dash'[j] = IF j = i THEN board ELSE dash[j]
  BY <1>1, <1>3 DEF Ids
<1>5. \A j \in Ids : dash[j].live \in BOOLEAN
  BY IdsFacts DEF Dashboards
<1> QED BY <1>1, <1>3, <1>4, <1>5 DEF Ids

LEMMA DeleteKeepsTypes ==
  ASSUME TypeInv, NEW h \in Hooks, DeleteDashboard(h)
  PROVE  TypeInv'
<1> DEFINE q == [hook[h] EXCEPT !.step = "create"]
<1>1. /\ hook[h].step = "delete" /\ hook[h].mode # "remove"
      /\ UNCHANGED <<favs, webhooks, userVars, taskVars, ghosts, faults>>
      /\ dash' = [dash EXCEPT ![hook[h].source].live = FALSE]
      /\ hook' = [hook EXCEPT ![h] = q]
  BY DEF DeleteDashboard
<1>2. hook[h] \in HookRecords(Ids) /\ hook[h].mode # "none" /\ HookWorks(hook[h], Ids)
  BY <1>1, HookAt
<1>3. q \in HookRecords(Ids) /\ q.mode # "none" /\ HookWorks(q, Ids)
  BY <1>1, <1>2 DEF HookRecords, HookWorks
<1>4. hook[h].source \in Ids
  BY <1>1, <1>2 DEF HookWorks
<1> QED BY <1>1, <1>3, <1>4, DeletedBoard, HookKeepsTypes DEF ghosts, TypeInv, TypeOK

LEMMA RemoveKeepsTypes ==
  ASSUME TypeInv, NEW h \in Hooks, RemoveDashboard(h)
  PROVE  TypeInv'
<1>1. /\ hook[h].step = "delete" /\ hook[h].mode = "remove"
      /\ UNCHANGED <<favs, webhooks, userVars, taskVars, unsure, spoiled, faults>>
  BY DEF RemoveDashboard
<1>2. PICK i \in hook[h].todo :
        /\ dash' = [dash EXCEPT ![i].live = FALSE] /\ lost' = lost \cup {NumberOf(i)}
        /\ hook' = [hook EXCEPT ![h] = IF hook[h].todo = {i} THEN NoHook
                                       ELSE [hook[h] EXCEPT !.todo = hook[h].todo \ {i}]]
  BY DEF RemoveDashboard
<1>3. /\ hook[h] \in HookRecords(Ids) /\ hook[h].mode # "none" /\ HookWorks(hook[h], Ids)
      /\ hook[h].todo \subseteq Ids
  BY <1>1, HookAt
<1> DEFINE left == [hook[h] EXCEPT !.todo = hook[h].todo \ {i}]
           q == IF hook[h].todo = {i} THEN NoHook ELSE left
<1>4. hook' = [hook EXCEPT ![h] = q]
  <2>1. CASE hook[h].todo = {i}
    BY <1>2, <2>1
  <2>2. CASE hook[h].todo # {i}
    BY <1>2, <2>2
  <2> QED BY <2>1, <2>2
<1>5. left \in HookRecords(Ids) /\ left.mode # "none" /\ HookWorks(left, Ids)
  BY <1>1, <1>3 DEF HookRecords, HookWorks
<1>6. q \in HookRecords(Ids) /\ (q = NoHook \/ (q.mode # "none" /\ HookWorks(q, Ids)))
  BY <1>5, NoHookType
<1>7. lost' \subseteq Numbers
  BY <1>2, <1>3, IdsFacts DEF TypeInv, TypeOK, Numbers, NumberOf, Dashboards
<1> HIDE DEF q
<1> QED BY <1>1, <1>2, <1>3, <1>4, <1>6, <1>7, DeletedBoard, HookKeepsTypes DEF TypeInv, TypeOK

LEMMA FaultType ==
  ASSUME TypeInv, Fault
  PROVE  faults' \in 0..MaxFaults
BY BoundsAssumption DEF TypeInv, TypeOK, Fault

LEMMA DieKeepsTypes ==
  ASSUME TypeInv, NEW h \in Hooks, HookDies(h)
  PROVE  TypeInv'
<1>1. /\ hook[h] # NoHook /\ Fault /\ hook' = [hook EXCEPT ![h] = NoHook]
      /\ UNCHANGED <<dash, favs, webhooks, userVars, taskVars, spoiled>>
      /\ lost' = IF hook[h].step = "create" /\ hook[h].source # 0
                 THEN lost \cup {<<hook[h].target, hook[h].item>>} ELSE lost
      /\ unsure' = unsure \cup {dash[i].phone : i \in hook[h].todo \cup hook[h].made}
                          \cup ({hook[h].item} \ {None})
  BY DEF HookDies
<1>2. hook[h] \in HookRecords(Ids) /\ HookWorks(hook[h], Ids)
  BY <1>1, IdsFacts DEF TypeInv, HookInv
<1>3. lost' \subseteq Numbers
  BY <1>1, <1>2 DEF HookWorks, TypeInv, TypeOK, Numbers
<1>4. unsure' \subseteq Phones
  <2>1. \A i \in Ids : dash[i].phone \in Phones
    BY IdsFacts DEF Dashboards
  <2>2. hook[h].todo \subseteq Ids /\ hook[h].made \subseteq Ids /\ hook[h].item \in Phones \cup {None}
    BY <1>2 DEF HookRecords
  <2> QED BY <1>1, <2>1, <2>2 DEF TypeInv, TypeOK
<1> QED BY <1>1, <1>3, <1>4, FaultType, NoHookType, HookKeepsTypes DEF TypeInv, TypeOK

\* A creation.
LEMMA CreatedBoard ==
  ASSUME TypeInv, NEW h \in Hooks, CreateDashboard(h)
  PROVE  /\ Len(dash) + 1 \in Nat \ {0} /\ Len(dash) + 1 \notin Ids
         /\ Ids' = Ids \cup {Len(dash) + 1} /\ dash' \in Seq(Dashboards)
         /\ \A i \in Ids : dash'[i] = dash[i]
         /\ dash'[Len(dash) + 1] = [project |-> hook[h].target, phone |-> hook[h].item,
                                    waba |-> hook[h].waba, live |-> TRUE]
         /\ hook[h].target \in Projects /\ hook[h].item \in Phones /\ hook[h].waba \in Wabas
         /\ hook[h] \in HookRecords(Ids) /\ hook[h].mode \in Saves /\ HookWorks(hook[h], Ids)
         /\ hook[h].todo \subseteq Ids /\ hook[h].step = "create"
<1> DEFINE board == [project |-> hook[h].target, phone |-> hook[h].item,
                     waba |-> hook[h].waba, live |-> TRUE]
<1>1. hook[h].step = "create" /\ dash' = Append(dash, board)
  BY DEF CreateDashboard
<1>2. hook[h] \in HookRecords(Ids) /\ hook[h].mode # "none" /\ HookWorks(hook[h], Ids)
      /\ hook[h].todo \subseteq Ids /\ hook[h].mode \in Saves
  BY <1>1, HookAt DEF HookWorks
<1>3. hook[h].target \in Projects /\ hook[h].item \in Phones /\ hook[h].waba \in Wabas
  BY <1>1, <1>2 DEF HookWorks, Saves
<1>4. board \in Dashboards
  BY <1>3 DEF Dashboards
<1> HIDE DEF board
<1>5. dash \in Seq(Dashboards) /\ Len(dash) \in Nat
  BY IdsFacts DEF TypeInv, TypeOK
<1>6. dash' \in Seq(Dashboards) /\ Len(dash') = Len(dash) + 1 /\ dash'[Len(dash) + 1] = board
      /\ \A i \in 1..Len(dash) : dash'[i] = dash[i]
  BY <1>1, <1>4, <1>5
<1> QED BY <1>1, <1>2, <1>3, <1>5, <1>6 DEF Ids, board

\* What the webhook does next.
LEMMA CreateFollows ==
  ASSUME TypeInv, NEW h \in Hooks, CreateDashboard(h)
  PROVE  \E r \in HookRecords(Ids'), q \in HookRecords(Ids') :
           /\ hook' = [hook EXCEPT ![h] = q] /\ Follows(r, q)
           /\ q = NoHook \/ (q.mode # "none" /\ HookWorks(q, Ids'))
           /\ HookWorks(r, Ids')
           /\ \E made : /\ r = [hook[h] EXCEPT !.made = made]
                        /\ IF hook[h].mode = "waba" /\ hook[h].target = hook[h].project
                           THEN made = hook[h].made \cup {Len(dash) + 1} ELSE made = hook[h].made
<1>1. /\ Ids' = Ids \cup {Len(dash) + 1} /\ hook[h] \in HookRecords(Ids) /\ hook[h].mode \in Saves
      /\ HookWorks(hook[h], Ids) /\ hook[h].todo \subseteq Ids
  BY CreatedBoard
<1>2. PICK r : /\ Proceed(h, r)
               /\ IF hook[h].mode = "waba" /\ hook[h].target = hook[h].project
                  THEN r = [hook[h] EXCEPT !.made = @ \cup {Len(dash) + 1}] ELSE r = hook[h]
  BY DEF CreateDashboard
<1>3. PICK made \in SUBSET Ids' :
        /\ r = [hook[h] EXCEPT !.made = made]
        /\ IF hook[h].mode = "waba" /\ hook[h].target = hook[h].project
           THEN made = hook[h].made \cup {Len(dash) + 1} ELSE made = hook[h].made
  <2>1. hook[h] = [hook[h] EXCEPT !.made = hook[h].made] /\ hook[h].made \in SUBSET Ids'
    BY <1>1 DEF HookRecords
  <2>2. hook[h].made \cup {Len(dash) + 1} \in SUBSET Ids'
    BY <1>1, <2>1
  <2>3. CASE hook[h].mode = "waba" /\ hook[h].target = hook[h].project
    BY <1>2, <2>2, <2>3
  <2>4. CASE ~(hook[h].mode = "waba" /\ hook[h].target = hook[h].project)
    BY <1>2, <2>1, <2>4
  <2> QED BY <2>3, <2>4
<1>4. r \in HookRecords(Ids')
  BY <1>1, <1>3 DEF HookRecords
<1>5. r.mode = hook[h].mode /\ r.todo = hook[h].todo /\ HookWorks(r, Ids')
  BY <1>1, <1>3 DEF HookRecords, HookWorks
<1>6. PICK q : hook' = [hook EXCEPT ![h] = q] /\ Follows(r, q)
  BY <1>2, ProceedFollows
<1>7. dash \in Seq(Dashboards) /\ Ids' \subseteq Nat \ {0}
  BY CreatedBoard, IdsFacts DEF TypeInv, TypeOK
<1>8. q \in HookRecords(Ids') /\ (q = NoHook \/ (q.mode # "none" /\ HookWorks(q, Ids')))
  BY <1>1, <1>4, <1>5, <1>6, <1>7, FollowsTypes
<1> QED BY <1>3, <1>4, <1>5, <1>6, <1>8

LEMMA CreateKeepsTypes ==
  ASSUME TypeInv, NEW h \in Hooks, CreateDashboard(h)
  PROVE  TypeInv'
<1> DEFINE new == Len(dash) + 1
<1>1. Ids' = Ids \cup {new} /\ new \notin Ids /\ Len(dash) \in Nat
  BY CreatedBoard, IdsFacts
<1>2. /\ UNCHANGED <<webhooks, userVars, slot, spoiled, faults>> /\ favs' = Append(favs, {})
      /\ moves' = IF hook[h].source # 0 /\ hook[h].old # None
                  THEN moves \cup {[from |-> hook[h].source, to |-> new, tries |-> 1]} ELSE moves
      /\ lost' \subseteq lost /\ unsure' \subseteq unsure
  BY DEF CreateDashboard
<1>3. hook' \in [Hooks -> HookRecords(Ids')] /\ HookInv'
  <2>1. PICK q \in HookRecords(Ids') : /\ hook' = [hook EXCEPT ![h] = q]
                                       /\ q = NoHook \/ (q.mode # "none" /\ HookWorks(q, Ids'))
    BY CreateFollows
  <2> QED BY <1>1, <2>1, HookChanges
<1>4. FavsInv'
  <2>1. Len(dash') = Len(dash) + 1 /\ favs \in Seq(SUBSET Templates) /\ Len(favs) = Len(dash)
    BY DEF CreateDashboard, TypeInv, FavsInv, TypeOK
  <2>2. {} \in SUBSET Templates
    OBVIOUS
  <2> QED BY <1>2, <2>1, <2>2 DEF FavsInv
<1>5. favs' \in [Ids' -> SUBSET Templates]
  <2>1. Ids' = 1..Len(favs')
    BY <1>4 DEF FavsInv, Ids
  <2> QED BY <1>4, <2>1 DEF FavsInv
<1>6. moves' \subseteq [from: Ids', to: Ids', tries: 1..MaxTries]
  <2>1. hook[h].source \in Ids \cup {0} /\ 1 \in 1..MaxTries
    <3>1. hook[h] \in HookRecords(Ids)
      BY IdsFacts
    <3> QED BY <3>1, BoundsAssumption DEF HookRecords
  <2>2. moves \subseteq [from: Ids, to: Ids, tries: 1..MaxTries]
    BY DEF TypeInv, TypeOK
  <2> QED BY <1>1, <1>2, <2>1, <2>2
<1>7. TypeOK'
  <2>1. dash' \in Seq(Dashboards)
    BY CreatedBoard
  <2>2. adding' \in [Users -> [to: Ids' \cup {0}, template: Templates \cup {None}]]
    BY <1>1, <1>2 DEF userVars, TypeInv, TypeOK
  <2>3. slot' \in [Slots ->
         [step: {"idle", "read", "count", "create"}, from: Ids' \cup {0}, to: Ids' \cup {0},
          tries: 1..MaxTries, todo: SUBSET Templates, template: Templates \cup {None}]]
    BY <1>1, <1>2 DEF TypeInv, TypeOK
  <2> QED BY <1>1, <1>2, <1>3, <1>5, <1>6, <2>1, <2>2, <2>3 DEF TypeInv, TypeOK, HookRecords, userVars
<1>8. AddingInv' /\ SlotInv'
  BY <1>1, <1>2 DEF TypeInv, AddingInv, SlotInv, userVars
<1> QED BY <1>3, <1>4, <1>7, <1>8 DEF TypeInv

\* The favourites change, and no dashboard does.
LEMMA FavsChange ==
  ASSUME TypeInv, NEW i \in Ids, NEW new \in SUBSET Templates, favs' = [favs EXCEPT ![i] = new],
         UNCHANGED dash
  PROVE  /\ FavsInv' /\ favs' \in [Ids' -> SUBSET Templates] /\ Ids' = Ids
         /\ favs'[i] = new /\ \A j \in Ids \ {i} : favs'[j] = favs[j]
<1>1. favs \in Seq(SUBSET Templates) /\ Len(favs) = Len(dash) /\ Len(favs) \in Nat
  BY IdsFacts DEF TypeInv, FavsInv
<1>2. i \in 1..Len(favs)
  BY <1>1 DEF Ids
<1>3. [favs EXCEPT ![i] = new] \in Seq(SUBSET Templates) /\ Len([favs EXCEPT ![i] = new]) = Len(favs)
  BY <1>1, <1>2
<1>4. favs \in [Ids -> SUBSET Templates]
  BY DEF TypeInv, TypeOK
<1> QED BY <1>1, <1>3, <1>4 DEF FavsInv, Ids

\* A step of a user or of a task keeps what the webhooks have.
LEMMA OthersKeepTypes ==
  ASSUME TypeInv, UNCHANGED <<dash, hookVars, lost, unsure>>, FavsInv', AddingInv', SlotInv',
         favs' \in [Ids' -> SUBSET Templates], additions' \in 0..MaxAdditions,
         faults' \in 0..MaxFaults,
         adding' \in [Users -> [to: Ids \cup {0}, template: Templates \cup {None}]],
         moves' \subseteq [from: Ids, to: Ids, tries: 1..MaxTries],
         slot' \in [Slots ->
           [step: {"idle", "read", "count", "create"}, from: Ids \cup {0}, to: Ids \cup {0},
            tries: 1..MaxTries, todo: SUBSET Templates, template: Templates \cup {None}]],
         spoiled' \subseteq Ids
  PROVE  TypeInv'
<1>1. Ids' = Ids
  BY DEF Ids
<1> QED BY <1>1 DEF TypeInv, TypeOK, HookInv, hookVars

\* What is added to which dashboard.
LEMMA CheckAdds ==
  ASSUME TypeInv, NEW u \in Users, CheckAddition(u)
  PROVE  \E i \in Ids, t \in Templates :
           Cardinality(favs[i]) < Limit /\ adding' = [adding EXCEPT ![u] = [to |-> i, template |-> t]]
<1>1. PICK i \in Ids : \E t \in OnWaba[dash[i].waba] \ favs[i] :
        Cardinality(favs[i]) < Limit /\ adding' = [adding EXCEPT ![u] = [to |-> i, template |-> t]]
  BY DEF CheckAddition
<1>2. OnWaba[dash[i].waba] \subseteq Templates
  BY <1>1, IdsFacts, NamesAssumption DEF Dashboards
<1> QED BY <1>1, <1>2

LEMMA UserKeepsTypes ==
  ASSUME TypeInv, NEW u \in Users, CheckAddition(u) \/ CreateAddition(u) \/ AdditionFails(u)
  PROVE  TypeInv'
<1>1. adding \in [Users -> [to: Ids \cup {0}, template: Templates \cup {None}]]
  BY DEF TypeInv, TypeOK
<1>2. NoAddition \in [to: Ids \cup {0}, template: Templates \cup {None}]
  BY DEF NoAddition
<1>3. CASE CheckAddition(u)
  <2>1. PICK i \in Ids, t \in Templates : adding' = [adding EXCEPT ![u] = [to |-> i, template |-> t]]
    BY <1>3, CheckAdds
  <2>2. /\ UNCHANGED <<dash, favs, hookVars, taskVars, ghosts, faults>>
        /\ additions < MaxAdditions /\ additions' = additions + 1
    BY <1>3 DEF CheckAddition
  <2>3. adding' \in [Users -> [to: Ids \cup {0}, template: Templates \cup {None}]] /\ AddingInv'
    BY <1>1, <2>1, <2>2 DEF TypeInv, AddingInv, Ids
  <2>4. additions' \in 0..MaxAdditions
    BY <2>2, BoundsAssumption DEF TypeInv, TypeOK
  <2> QED BY <2>2, <2>3, <2>4, OthersKeepTypes DEF TypeInv, TypeOK, FavsInv, SlotInv, taskVars, ghosts, Ids
<1>4. CASE CreateAddition(u)
  <2>1. /\ UNCHANGED <<dash, hookVars, additions, taskVars, ghosts, faults>>
        /\ adding[u] # NoAddition /\ adding' = [adding EXCEPT ![u] = NoAddition]
        /\ favs' = [favs EXCEPT ![adding[u].to] = favs[adding[u].to] \cup {adding[u].template}]
    BY <1>4 DEF CreateAddition
  <2>2. adding[u].to \in Ids /\ favs[adding[u].to] \cup {adding[u].template} \in SUBSET Templates
    BY <2>1, IdsFacts DEF TypeInv, AddingInv
  <2>3. FavsInv' /\ favs' \in [Ids' -> SUBSET Templates] /\ Ids' = Ids
    BY <2>1, <2>2, FavsChange
  <2>4. adding' \in [Users -> [to: Ids \cup {0}, template: Templates \cup {None}]] /\ AddingInv'
    BY <1>1, <1>2, <2>1, <2>3 DEF TypeInv, AddingInv
  <2> QED BY <2>1, <2>3, <2>4, OthersKeepTypes DEF TypeInv, TypeOK, SlotInv, taskVars, ghosts
<1>5. CASE AdditionFails(u)
  <2>1. /\ UNCHANGED <<dash, favs, hookVars, additions, taskVars, ghosts, faults>>
        /\ adding' = [adding EXCEPT ![u] = NoAddition]
    BY <1>5 DEF AdditionFails
  <2>2. adding' \in [Users -> [to: Ids \cup {0}, template: Templates \cup {None}]] /\ AddingInv'
    BY <1>1, <1>2, <2>1 DEF TypeInv, AddingInv, Ids
  <2> QED BY <2>1, <2>2, OthersKeepTypes DEF TypeInv, TypeOK, FavsInv, SlotInv, taskVars, ghosts, Ids
<1> QED BY <1>3, <1>4, <1>5

LEMMA RemovalKeepsTypes ==
  ASSUME TypeInv, NEW i \in Ids, NEW t \in Templates, RemoveFavourite(i, t)
  PROVE  TypeInv'
<1>1. /\ favs' = [favs EXCEPT ![i] = favs[i] \ {t}]
      /\ UNCHANGED <<dash, hookVars, userVars, taskVars, ghosts, faults>>
  BY DEF RemoveFavourite
<1>2. favs[i] \ {t} \in SUBSET Templates
  BY IdsFacts
<1>3. FavsInv' /\ favs' \in [Ids' -> SUBSET Templates] /\ Ids' = Ids
  BY <1>1, <1>2, FavsChange
<1> QED BY <1>1, <1>3, OthersKeepTypes DEF TypeInv, TypeOK, AddingInv, SlotInv, userVars, taskVars, ghosts

Moves == [step: {"idle", "read", "count", "create"}, from: Ids \cup {0}, to: Ids \cup {0},
          tries: 1..MaxTries, todo: SUBSET Templates, template: Templates \cup {None}]

\* A task, where it is after a step.
LEMMA SlotChange ==
  ASSUME TypeInv, NEW s \in Slots, NEW m \in Moves, slot' = [slot EXCEPT ![s] = m], UNCHANGED dash,
         m = NoMove \/ /\ m.step # "idle" /\ m.from \in Ids /\ m.to \in Ids
                       /\ m.step = "create" => m.template \in Templates
  PROVE  SlotInv' /\ slot' \in [Slots -> Moves]
<1>1. slot \in [Slots -> Moves]
  BY DEF TypeInv, TypeOK, Moves
<1> QED BY <1>1 DEF TypeInv, SlotInv, Ids

LEMMA NoMoveType == NoMove \in Moves
BY BoundsAssumption DEF NoMove, Moves

\* A task at work.
LEMMA SlotAt ==
  ASSUME TypeInv, NEW s \in Slots, slot[s] # NoMove
  PROVE  /\ slot[s] \in Moves /\ slot[s].step # "idle" /\ slot[s].from \in Ids /\ slot[s].to \in Ids
         /\ slot[s].step = "create" => slot[s].template \in Templates
BY DEF TypeInv, TypeOK, Moves, SlotInv

LEMMA StepKeepsTypes ==
  ASSUME TypeInv, NEW s \in Slots, MoveStep(s)
  PROVE  TypeInv'
<1>1. slot[s] # NoMove /\ UNCHANGED <<dash, hookVars, userVars, moves, ghosts, faults>>
  <2>1. slot[s].step \in {"read", "count", "create"}
        /\ UNCHANGED <<dash, hookVars, userVars, moves, ghosts, faults>>
    <3>1. CASE ReadFavourites(s)
      BY <3>1 DEF ReadFavourites
    <3>2. CASE CountFavourites(s)
      BY <3>2 DEF CountFavourites
    <3>3. CASE CreateFavourite(s)
      BY <3>3 DEF CreateFavourite
    <3> QED BY <3>1, <3>2, <3>3 DEF MoveStep
  <2> QED BY <2>1 DEF NoMove
<1>2. /\ slot[s] \in Moves /\ slot[s].from \in Ids /\ slot[s].to \in Ids
      /\ slot[s].step = "create" => slot[s].template \in Templates
  BY <1>1, SlotAt
<1>3. SlotInv' /\ slot' \in [Slots -> Moves]
  <2>1. CASE ReadFavourites(s)
    <3> DEFINE m == [slot[s] EXCEPT !.step = "count", !.todo = favs[slot[s].from]]
    <3>1. slot' = [slot EXCEPT ![s] = m] \/ slot' = [slot EXCEPT ![s] = NoMove]
      BY <2>1 DEF ReadFavourites
    <3>2. m \in Moves /\ m.step # "idle" /\ m.step # "create" /\ m.from \in Ids /\ m.to \in Ids
      BY <1>2, IdsFacts DEF Moves
    <3> HIDE DEF m
    <3> QED BY <1>1, <3>1, <3>2, NoMoveType, SlotChange
  <2>2. CASE CountFavourites(s)
    <3>1. CASE slot' = [slot EXCEPT ![s] = NoMove]
      BY <1>1, <3>1, NoMoveType, SlotChange
    <3>2. CASE \E t \in slot[s].todo :
            LET m == [slot[s] EXCEPT !.todo = @ \ {t}] IN
            slot' = [slot EXCEPT ![s] = IF t \in OnWaba[dash[m.to].waba]
                                        THEN [m EXCEPT !.step = "create", !.template = t] ELSE m]
      <4>1. PICK t \in slot[s].todo :
              LET m == [slot[s] EXCEPT !.todo = @ \ {t}] IN
              slot' = [slot EXCEPT ![s] = IF t \in OnWaba[dash[m.to].waba]
                                          THEN [m EXCEPT !.step = "create", !.template = t] ELSE m]
        BY <3>2
      <4> DEFINE m == [slot[s] EXCEPT !.todo = @ \ {t}]
                 n == [m EXCEPT !.step = "create", !.template = t]
      <4>2. slot' = [slot EXCEPT ![s] = m] \/ slot' = [slot EXCEPT ![s] = n]
        BY <4>1
      <4>3. t \in Templates /\ slot[s].step = "count"
        BY <1>2, <2>2 DEF Moves, CountFavourites
      <4>4. m \in Moves /\ m.step = "count" /\ m.from \in Ids /\ m.to \in Ids
        BY <1>2, <4>3 DEF Moves
      <4>5. n \in Moves /\ n.step = "create" /\ n.from \in Ids /\ n.to \in Ids
            /\ n.template \in Templates
        <5> HIDE DEF m
        <5> QED BY <4>3, <4>4 DEF Moves
      <4> HIDE DEF m, n
      <4> QED BY <1>1, <4>2, <4>4, <4>5, SlotChange
    <3> QED BY <2>2, <3>1, <3>2 DEF CountFavourites
  <2>3. CASE CreateFavourite(s)
    <3> DEFINE m == [slot[s] EXCEPT !.step = "count", !.template = None]
    <3>1. slot' = [slot EXCEPT ![s] = m]
      BY <2>3 DEF CreateFavourite, TypeInv, TypeOK
    <3>2. m \in Moves /\ m.step = "count" /\ m.from \in Ids /\ m.to \in Ids
      BY <1>2 DEF Moves
    <3> HIDE DEF m
    <3> QED BY <1>1, <3>1, <3>2, SlotChange
  <2> QED BY <2>1, <2>2, <2>3 DEF MoveStep
<1>4. FavsInv' /\ favs' \in [Ids' -> SUBSET Templates]
  <2>1. CASE UNCHANGED favs
    BY <1>1, <2>1 DEF TypeInv, TypeOK, FavsInv, Ids
  <2>2. CASE CreateFavourite(s)
    <3>1. /\ favs' = [favs EXCEPT ![slot[s].to] = favs[slot[s].to] \cup {slot[s].template}]
          /\ slot[s].step = "create"
      BY <2>2 DEF CreateFavourite
    <3>2. favs[slot[s].to] \cup {slot[s].template} \in SUBSET Templates
      BY <1>2, <3>1, IdsFacts
    <3> QED BY <1>1, <1>2, <3>1, <3>2, FavsChange
  <2> QED BY <2>1, <2>2 DEF MoveStep, ReadFavourites, CountFavourites
<1> QED BY <1>1, <1>3, <1>4, OthersKeepTypes DEF TypeInv, TypeOK, AddingInv, userVars, ghosts, Ids, Moves

LEMMA TaskKeepsTypes ==
  ASSUME TypeInv, NEW s \in Slots,
         MoveRaises(s) \/ MoveDies(s) \/ \E m \in moves : StartMove(s, m)
  PROVE  TypeInv'
<1>1. UNCHANGED <<dash, favs, hookVars, userVars, lost, unsure>>
  BY DEF MoveRaises, MoveDies, StartMove, ghosts
<1>2. FavsInv' /\ favs' \in [Ids' -> SUBSET Templates] /\ AddingInv'
  BY <1>1 DEF TypeInv, TypeOK, FavsInv, AddingInv, userVars, Ids
<1>3. ASSUME SlotInv', slot' \in [Slots -> Moves], faults' \in 0..MaxFaults, spoiled' \subseteq Ids,
             moves' \subseteq [from: Ids, to: Ids, tries: 1..MaxTries]
      PROVE  TypeInv'
  BY <1>1, <1>2, <1>3, OthersKeepTypes DEF TypeInv, TypeOK, userVars, Moves
<1>4. moves \subseteq [from: Ids, to: Ids, tries: 1..MaxTries] /\ spoiled \subseteq Ids
      /\ faults \in 0..MaxFaults
  BY DEF TypeInv, TypeOK
<1>5. CASE MoveRaises(s) \/ MoveDies(s)
  <2>1. slot[s] # NoMove /\ Fault /\ slot' = [slot EXCEPT ![s] = NoMove]
    BY <1>5 DEF MoveRaises, MoveDies
  <2>2. slot[s].from \in Ids /\ slot[s].to \in Ids /\ slot[s].tries \in 1..MaxTries
    BY <2>1, SlotAt DEF Moves
  <2>3. SlotInv' /\ slot' \in [Slots -> Moves]
    BY <1>1, <2>1, NoMoveType, SlotChange
  <2>4. spoiled' \subseteq Ids
    BY <1>4, <1>5, <2>2 DEF MoveRaises, MoveDies
  <2>5. moves' \subseteq [from: Ids, to: Ids, tries: 1..MaxTries]
    BY <1>4, <1>5, <2>2, BoundsAssumption DEF MoveRaises, MoveDies
  <2> QED BY <1>3, <2>1, <2>3, <2>4, <2>5, FaultType
<1>6. ASSUME NEW m \in moves, StartMove(s, m) PROVE TypeInv'
  <2> DEFINE n == [NoMove EXCEPT !.step = "read", !.from = m.from, !.to = m.to, !.tries = m.tries]
  <2>1. slot' = [slot EXCEPT ![s] = n] /\ moves' = moves \ {m} /\ UNCHANGED <<ghosts, faults>>
    BY <1>6 DEF StartMove
  <2>2. n \in Moves /\ n.step = "read" /\ n.from \in Ids /\ n.to \in Ids
    BY <1>4, NoMoveType DEF Moves, NoMove
  <2> HIDE DEF n
  <2>3. SlotInv' /\ slot' \in [Slots -> Moves]
    BY <1>1, <2>1, <2>2, SlotChange
  <2> QED BY <1>3, <1>4, <2>1, <2>3 DEF ghosts
<1> QED BY <1>5, <1>6

LEMMA InitTypes == Init => TypeInv
<1> SUFFICES ASSUME Init PROVE TypeInv
  OBVIOUS
<1>1. Ids = {} /\ dash \in Seq(Dashboards) /\ favs \in Seq(SUBSET Templates) /\ Len(favs) = Len(dash)
  BY DEF Init, Ids
<1>2. favs \in [Ids -> SUBSET Templates]
  BY <1>1 DEF Ids
<1>3. hook \in [Hooks -> HookRecords(Ids)] /\ slot \in [Slots -> Moves]
  BY NoHookType, NoMoveType DEF Init
<1>4. adding \in [Users -> [to: Ids \cup {0}, template: Templates \cup {None}]]
  BY DEF Init, NoAddition
<1>5. 0 \in 0..MaxWebhooks /\ 0 \in 0..MaxAdditions /\ 0 \in 0..MaxFaults
  BY BoundsAssumption
<1> QED BY <1>1, <1>2, <1>3, <1>4, <1>5
        DEF Init, TypeInv, TypeOK, FavsInv, HookInv, AddingInv, SlotInv, HookRecords, Moves

LEMMA NextKeepsTypes == ASSUME TypeInv, [Next]_vars PROVE TypeInv'
<1>1. CASE Next
  BY <1>1, BeginKeepsTypes, FindKeepsTypes, DeleteKeepsTypes, CreateKeepsTypes, RemoveKeepsTypes,
     DieKeepsTypes, UserKeepsTypes, RemovalKeepsTypes, StepKeepsTypes, TaskKeepsTypes
     DEF Next, HookStep
<1>2. CASE UNCHANGED vars
  BY <1>2 DEF vars, hookVars, userVars, taskVars, ghosts, TypeInv, TypeOK, FavsInv, HookInv, AddingInv,
     SlotInv, Ids
<1> QED BY <1>1, <1>2

\* Every dashboard, webhook, addition and task stays of its type, and each
\* refers to dashboards that exist.
THEOREM TypeCorrect == Spec => []TypeOK
<1>1. TypeInv => TypeOK
  BY DEF TypeInv
<1>2. TypeInv /\ [Next]_vars => TypeInv'
  BY NextKeepsTypes
<1> QED BY <1>1, <1>2, InitTypes, PTL DEF Spec

-----------------------------------------------------------------------------
(* The limit of favourites.                                                *)

\* There is room below the limit, whoever else is about to add.
LEMMA RoomBelowLimit ==
  ASSUME NEW f \in SUBSET Templates, NEW us \in SUBSET Users, NEW ss \in SUBSET Slots,
         Cardinality(f) < Limit
  PROVE  Room(f, us, ss)
<1>1. Cardinality(us) <= Cardinality(Users) /\ Cardinality(ss) <= Cardinality(Slots)
      /\ IsFiniteSet(us) /\ IsFiniteSet(ss) /\ IsFiniteSet(f)
  BY FS_Subset, NamesAssumption
<1>2. /\ Cardinality(us) \in Nat /\ Cardinality(ss) \in Nat /\ Cardinality(f) \in Nat
      /\ Cardinality(Users) \in Nat /\ Cardinality(Slots) \in Nat
  BY <1>1, FS_CardinalityType, NamesAssumption
<1> QED BY <1>1, <1>2, BoundsAssumption DEF Room

\* There is more when somebody gives up or a favourite is removed.
LEMMA RoomGrows ==
  ASSUME NEW f \in SUBSET Templates, NEW us \in SUBSET Users, NEW ss \in SUBSET Slots, Room(f, us, ss),
         NEW f1 \in SUBSET f, NEW us1 \in SUBSET us, NEW ss1 \in SUBSET ss
  PROVE  Room(f1, us1, ss1)
<1>1. IsFiniteSet(f) /\ IsFiniteSet(us) /\ IsFiniteSet(ss)
  BY FS_Subset, NamesAssumption
<1>2. /\ Cardinality(f1) <= Cardinality(f) /\ Cardinality(us1) <= Cardinality(us)
      /\ Cardinality(ss1) <= Cardinality(ss)
      /\ IsFiniteSet(f1) /\ IsFiniteSet(us1) /\ IsFiniteSet(ss1)
  BY <1>1, FS_Subset
<1>3. /\ Cardinality(f) \in Nat /\ Cardinality(us) \in Nat /\ Cardinality(ss) \in Nat
      /\ Cardinality(f1) \in Nat /\ Cardinality(us1) \in Nat /\ Cardinality(ss1) \in Nat
      /\ Cardinality(Users) \in Nat /\ Cardinality(Slots) \in Nat
  BY <1>1, <1>2, FS_CardinalityType, NamesAssumption
<1> QED BY <1>2, <1>3, BoundsAssumption DEF Room

\* Whoever was about to add a favourite has made room for it.
LEMMA RoomForOne ==
  ASSUME NEW f \in SUBSET Templates, NEW us \in SUBSET Users, NEW ss \in SUBSET Slots, Room(f, us, ss),
         NEW t \in Templates, NEW us1, NEW ss1,
         \/ ss1 = ss /\ \E u \in us : us1 = us \ {u}
         \/ us1 = us /\ \E s \in ss : ss1 = ss \ {s}
  PROVE  Room(f \cup {t}, us1, ss1)
<1>1. IsFiniteSet(f) /\ IsFiniteSet(us) /\ IsFiniteSet(ss)
  BY FS_Subset, NamesAssumption
<1>2. /\ Cardinality(f) \in Nat /\ Cardinality(us) \in Nat /\ Cardinality(ss) \in Nat
      /\ Cardinality(Users) \in Nat /\ Cardinality(Slots) \in Nat
  BY <1>1, FS_CardinalityType, NamesAssumption
<1>3. Cardinality(f \cup {t}) = IF t \in f THEN Cardinality(f) ELSE Cardinality(f) + 1
  BY <1>1, FS_AddElement
<1>4. CASE ss1 = ss /\ \E u \in us : us1 = us \ {u}
  <2>1. PICK u \in us : us1 = us \ {u}
    BY <1>4
  <2>2. Cardinality(us1) = Cardinality(us) - 1
    BY <1>1, <2>1, FS_RemoveElement
  <2> QED BY <1>2, <1>3, <1>4, <2>2, BoundsAssumption DEF Room
<1>5. CASE us1 = us /\ \E s \in ss : ss1 = ss \ {s}
  <2>1. PICK s \in ss : ss1 = ss \ {s}
    BY <1>5
  <2>2. Cardinality(ss1) = Cardinality(ss) - 1
    BY <1>1, <2>1, FS_RemoveElement
  <2> QED BY <1>2, <1>3, <1>5, <2>2, BoundsAssumption DEF Room
<1> QED BY <1>4, <1>5

\* A user that has checked the limit, has added or has failed to.
LEMMA UserKeepsRoom ==
  ASSUME TypeInv, PendingInv, NEW u \in Users,
         CheckAddition(u) \/ CreateAddition(u) \/ AdditionFails(u)
  PROVE  PendingInv'
<1>1. UNCHANGED <<dash, slot>> /\ Ids' = Ids
  BY DEF CheckAddition, CreateAddition, AdditionFails, taskVars, Ids
<1>2. adding \in [Users -> [to: Ids \cup {0}, template: Templates \cup {None}]] /\ 0 \notin Ids
  BY DEF TypeInv, TypeOK, Ids
<1> SUFFICES ASSUME NEW i \in Ids PROVE Room(favs'[i], Adders(i)', Movers(i)')
  BY <1>1 DEF PendingInv
<1>3. Movers(i)' = Movers(i) /\ Adders(i) \subseteq Users /\ Movers(i) \subseteq Slots
  BY <1>1 DEF Movers, Adders
<1>4. Room(favs[i], Adders(i), Movers(i)) /\ favs[i] \in SUBSET Templates
  BY IdsFacts DEF PendingInv
<1>5. CASE CheckAddition(u)
  <2>1. favs' = favs
    BY <1>5 DEF CheckAddition
  <2>2. PICK j \in Ids, t \in Templates :
          Cardinality(favs[j]) < Limit /\ adding' = [adding EXCEPT ![u] = [to |-> j, template |-> t]]
    BY <1>5, CheckAdds
  <2>3. CASE i = j
    <3>1. Adders(i)' \subseteq Users
      BY DEF Adders
    <3> QED BY <1>3, <1>4, <2>1, <2>2, <2>3, <3>1, RoomBelowLimit
  <2>4. CASE i # j
    <3>1. Adders(i)' \subseteq Adders(i)
      BY <1>2, <2>2, <2>4 DEF Adders
    <3> QED BY <1>3, <1>4, <2>1, <3>1, RoomGrows
  <2> QED BY <2>3, <2>4
<1>6. CASE AdditionFails(u)
  <2>1. favs' = favs /\ adding' = [adding EXCEPT ![u] = NoAddition]
    BY <1>6 DEF AdditionFails
  <2>2. Adders(i)' \subseteq Adders(i)
    BY <1>2, <2>1 DEF Adders, NoAddition
  <2> QED BY <1>3, <1>4, <2>1, <2>2, RoomGrows
<1>7. CASE CreateAddition(u)
  <2> DEFINE j == adding[u].to
             t == adding[u].template
  <2>1. /\ adding[u] # NoAddition /\ favs' = [favs EXCEPT ![j] = favs[j] \cup {t}]
        /\ adding' = [adding EXCEPT ![u] = NoAddition]
    BY <1>7 DEF CreateAddition
  <2>2. j \in Ids /\ t \in Templates
    BY <2>1 DEF TypeInv, AddingInv
  <2>3. Adders(i)' = Adders(i) \ {u}
    BY <1>2, <2>1 DEF Adders, NoAddition
  <2>4. CASE i = j
    <3>1. u \in Adders(i) /\ favs'[i] = favs[i] \cup {t}
      BY <2>1, <2>2, <2>4, IdsFacts DEF Adders
    <3> QED BY <1>3, <1>4, <2>2, <2>3, <3>1, RoomForOne
  <2>5. CASE i # j
    <3>1. favs'[i] = favs[i]
      BY <2>1, <2>5, IdsFacts
    <3> QED BY <1>3, <1>4, <2>3, <3>1, RoomGrows
  <2> QED BY <2>4, <2>5
<1> QED BY <1>5, <1>6, <1>7

\* A task that is about to add, has added or has stopped.
LEMMA TaskKeepsRoom ==
  ASSUME TypeInv, PendingInv, NEW s \in Slots,
         \/ MoveStep(s) \/ MoveRaises(s) \/ MoveDies(s)
         \/ \E m \in moves : StartMove(s, m)
  PROVE  PendingInv'
<1>1. UNCHANGED <<dash, adding>> /\ Ids' = Ids
  <2>1. CASE MoveStep(s)
    BY <2>1 DEF MoveStep, ReadFavourites, CountFavourites, CreateFavourite, userVars, Ids
  <2>2. CASE ~MoveStep(s)
    BY <2>2 DEF MoveRaises, MoveDies, StartMove, userVars, Ids
  <2> QED BY <2>1, <2>2
<1>2. slot \in [Slots -> Moves]
  BY DEF TypeInv, TypeOK, Moves
<1> SUFFICES ASSUME NEW i \in Ids PROVE Room(favs'[i], Adders(i)', Movers(i)')
  BY <1>1 DEF PendingInv
<1>3. Adders(i)' = Adders(i) /\ Adders(i) \subseteq Users /\ Movers(i) \subseteq Slots
  BY <1>1 DEF Movers, Adders
<1>4. Room(favs[i], Adders(i), Movers(i)) /\ favs[i] \in SUBSET Templates
  BY IdsFacts DEF PendingInv
<1>5. ASSUME favs' = favs, NEW n \in Moves, slot' = [slot EXCEPT ![s] = n],
             (n.step = "create" /\ n.to = i) => Cardinality(favs[i]) < Limit
      PROVE  Room(favs'[i], Adders(i)', Movers(i)')
  <2>1. CASE n.step = "create" /\ n.to = i
    <3>1. Movers(i)' \subseteq Slots
      BY DEF Movers
    <3> QED BY <1>3, <1>4, <1>5, <2>1, <3>1, RoomBelowLimit
  <2>2. CASE ~(n.step = "create" /\ n.to = i)
    <3>1. Movers(i)' \subseteq Movers(i)
      BY <1>2, <1>5, <2>2 DEF Movers
    <3> QED BY <1>3, <1>4, <1>5, <3>1, RoomGrows
  <2> QED BY <2>1, <2>2
<1>6. NoMove \in Moves /\ NoMove.step = "idle"
  BY NoMoveType DEF NoMove
<1>7. CASE CreateFavourite(s)
  <2> DEFINE j == slot[s].to
             t == slot[s].template
             n == [slot[s] EXCEPT !.step = "count", !.template = None]
  <2>1. /\ slot[s].step = "create" /\ favs' = [favs EXCEPT ![j] = favs[j] \cup {t}]
        /\ slot' = [slot EXCEPT ![s] = n]
    BY <1>2, <1>7 DEF CreateFavourite
  <2>2. slot[s] # NoMove
    BY <1>6, <2>1
  <2>3. j \in Ids /\ t \in Templates /\ n.step = "count"
    BY <2>1, <2>2, SlotAt DEF Moves
  <2> HIDE DEF n
  <2>4. Movers(i)' = Movers(i) \ {s}
    BY <1>2, <2>1, <2>3 DEF Movers
  <2>5. CASE i = j
    <3>1. s \in Movers(i) /\ favs'[i] = favs[i] \cup {t}
      BY <2>1, <2>3, <2>5, IdsFacts DEF Movers
    <3> QED BY <1>3, <1>4, <2>3, <2>4, <3>1, RoomForOne
  <2>6. CASE i # j
    <3>1. favs'[i] = favs[i]
      BY <2>1, <2>6, IdsFacts
    <3> QED BY <1>3, <1>4, <2>4, <3>1, RoomGrows
  <2> QED BY <2>5, <2>6
<1>8. CASE CountFavourites(s)
  <2>1. favs' = favs /\ slot[s].step = "count"
    BY <1>8 DEF CountFavourites
  <2>2. slot[s] \in Moves /\ slot[s].to \in Ids /\ slot[s].todo \subseteq Templates
    BY <1>6, <2>1, SlotAt DEF Moves
  <2>3. CASE slot' = [slot EXCEPT ![s] = NoMove]
    BY <1>5, <1>6, <2>1, <2>3
  <2>4. CASE slot' # [slot EXCEPT ![s] = NoMove]
    <3>1. Cardinality(favs[slot[s].to]) < Limit
      <4>1. ~(Cardinality(favs[slot[s].to]) >= Limit)
        BY <1>8, <2>4 DEF CountFavourites
      <4>2. IsFiniteSet(favs[slot[s].to])
        BY <2>2, IdsFacts, FS_Subset, NamesAssumption
      <4> QED BY <4>1, <4>2, FS_CardinalityType, BoundsAssumption
    <3>2. PICK t \in slot[s].todo :
            LET m == [slot[s] EXCEPT !.todo = @ \ {t}] IN
            slot' = [slot EXCEPT ![s] = IF t \in OnWaba[dash[m.to].waba]
                                        THEN [m EXCEPT !.step = "create", !.template = t] ELSE m]
      BY <1>8, <2>4 DEF CountFavourites
    <3> DEFINE m == [slot[s] EXCEPT !.todo = @ \ {t}]
               n == [m EXCEPT !.step = "create", !.template = t]
    <3>3. slot' = [slot EXCEPT ![s] = m] \/ slot' = [slot EXCEPT ![s] = n]
      BY <3>2
    <3>4. m \in Moves /\ m.to = slot[s].to
      BY <2>2 DEF Moves
    <3>5. n \in Moves /\ n.to = slot[s].to
      <4> HIDE DEF m
      <4>1. t \in Templates
        BY <2>2
      <4> QED BY <3>4, <4>1 DEF Moves
    <3> HIDE DEF m, n
    <3> QED BY <1>5, <2>1, <3>1, <3>3, <3>4, <3>5
  <2> QED BY <2>3, <2>4
<1>9. CASE ReadFavourites(s)
  <2> DEFINE n == [slot[s] EXCEPT !.step = "count", !.todo = favs[slot[s].from]]
  <2>1. favs' = favs /\ slot[s].step = "read"
        /\ (slot' = [slot EXCEPT ![s] = n] \/ slot' = [slot EXCEPT ![s] = NoMove])
    BY <1>9 DEF ReadFavourites
  <2>2. slot[s] \in Moves /\ slot[s].from \in Ids
    BY <1>6, <2>1, SlotAt
  <2>3. n \in Moves /\ n.step = "count"
    BY <2>2, IdsFacts DEF Moves
  <2> HIDE DEF n
  <2> QED BY <1>5, <1>6, <2>1, <2>3
<1>10. CASE MoveRaises(s) \/ MoveDies(s)
  <2>1. favs' = favs /\ slot' = [slot EXCEPT ![s] = NoMove]
    BY <1>10 DEF MoveRaises, MoveDies
  <2> QED BY <1>5, <1>6, <2>1
<1>11. ASSUME NEW m \in moves, StartMove(s, m) PROVE Room(favs'[i], Adders(i)', Movers(i)')
  <2> DEFINE n == [NoMove EXCEPT !.step = "read", !.from = m.from, !.to = m.to, !.tries = m.tries]
  <2>1. favs' = favs /\ slot' = [slot EXCEPT ![s] = n]
    BY <1>11 DEF StartMove
  <2>2. n \in Moves /\ n.step = "read"
    <3>1. m \in [from: Ids, to: Ids, tries: 1..MaxTries]
      BY DEF TypeInv, TypeOK
    <3> QED BY <3>1, NoMoveType DEF Moves, NoMove
  <2> HIDE DEF n
  <2> QED BY <1>5, <2>1, <2>2
<1> QED BY <1>7, <1>8, <1>9, <1>10, <1>11 DEF MoveStep

\* A new dashboard has no favourites; the other steps of a webhook change none.
LEMMA HookKeepsRoom ==
  ASSUME TypeInv, PendingInv, NEW h \in Hooks,
         BeginSave(h) \/ BeginRemove(h) \/ HookStep(h) \/ HookDies(h)
  PROVE  PendingInv'
<1>1. CASE CreateDashboard(h)
  <2>1. favs' = Append(favs, {}) /\ UNCHANGED <<adding, slot>>
    BY <1>1 DEF CreateDashboard, userVars
  <2>2. favs \in Seq(SUBSET Templates) /\ Len(favs) = Len(dash) /\ Len(dash) \in Nat
    BY IdsFacts DEF TypeInv, FavsInv
  <2>3. Ids' = Ids \cup {Len(dash) + 1}
    BY <1>1, CreatedBoard
  <2>4. (\A i \in Ids : favs'[i] = favs[i]) /\ favs'[Len(dash) + 1] = {}
    BY <2>1, <2>2 DEF Ids
  <2>5. \A i : Adders(i)' = Adders(i) /\ Movers(i)' = Movers(i)
               /\ Adders(i) \subseteq Users /\ Movers(i) \subseteq Slots
    BY <2>1 DEF Adders, Movers
  <2>6. Room({}, Adders(Len(dash) + 1), Movers(Len(dash) + 1))
    <3>1. Cardinality({}) < Limit
      BY FS_EmptySet, BoundsAssumption
    <3> QED BY <2>5, <3>1, RoomBelowLimit
  <2> QED BY <2>3, <2>4, <2>5, <2>6 DEF PendingInv
<1>2. CASE ~CreateDashboard(h)
  <2>1. UNCHANGED <<favs, adding, slot>>
    BY <1>2 DEF BeginSave, BeginRemove, HookStep, FindNumber, FindWaba, DeleteDashboard, RemoveDashboard,
                HookDies, userVars, taskVars
  <2>2. Ids' = Ids
    <3>1. CASE DeleteDashboard(h)
      <4>1. hook[h].source \in Ids
        BY <3>1, HookAt DEF DeleteDashboard, HookWorks
      <4> QED BY <3>1, <4>1, DeletedBoard DEF DeleteDashboard
    <3>2. CASE RemoveDashboard(h)
      <4>1. hook[h].todo \subseteq Ids
        BY <3>2, HookAt DEF RemoveDashboard
      <4> QED BY <3>2, <4>1, DeletedBoard DEF RemoveDashboard
    <3>3. CASE ~DeleteDashboard(h) /\ ~RemoveDashboard(h)
      BY <1>2, <3>3 DEF BeginSave, BeginRemove, HookStep, FindNumber, FindWaba, HookDies, Ids
    <3> QED BY <3>1, <3>2, <3>3
  <2> QED BY <2>1, <2>2 DEF PendingInv, Adders, Movers
<1> QED BY <1>1, <1>2

LEMMA RemovalKeepsRoom ==
  ASSUME TypeInv, PendingInv, NEW j \in Ids, NEW t \in Templates, RemoveFavourite(j, t)
  PROVE  PendingInv'
<1>1. favs' = [favs EXCEPT ![j] = favs[j] \ {t}] /\ UNCHANGED <<dash, adding, slot>> /\ Ids' = Ids
  BY DEF RemoveFavourite, userVars, taskVars, Ids
<1> SUFFICES ASSUME NEW i \in Ids PROVE Room(favs'[i], Adders(i)', Movers(i)')
  BY <1>1 DEF PendingInv
<1>2. Adders(i)' = Adders(i) /\ Movers(i)' = Movers(i) /\ Adders(i) \subseteq Users /\ Movers(i) \subseteq Slots
  BY <1>1 DEF Adders, Movers
<1>3. favs'[i] \subseteq favs[i] /\ favs[i] \in SUBSET Templates
  BY <1>1, IdsFacts
<1> QED BY <1>2, <1>3, RoomGrows DEF PendingInv

LEMMA NextKeepsRoom == ASSUME TypeInv, PendingInv, [Next]_vars PROVE PendingInv'
<1>1. CASE Next
  BY <1>1, HookKeepsRoom, UserKeepsRoom, TaskKeepsRoom, RemovalKeepsRoom DEF Next
<1>2. CASE UNCHANGED vars
  BY <1>2 DEF vars, userVars, taskVars, PendingInv, Adders, Movers, Ids
<1> QED BY <1>1, <1>2

\* Checks of the limit and additions of any number of users and tasks interleave;
\* a dashboard exceeds the limit by less than those that can add to it at once.
THEOREM LimitIsNearlyKept == Spec => []FavouritesBounded
<1>1. TypeInv /\ PendingInv => FavouritesBounded
  <2> SUFFICES ASSUME TypeInv, PendingInv, NEW i \in Ids
               PROVE  Cardinality(favs[i]) < Limit + Cardinality(Users) + Cardinality(Slots)
    BY DEF FavouritesBounded
  <2>1. Room(favs[i], {}, {})
    <3>1. favs[i] \in SUBSET Templates /\ Adders(i) \in SUBSET Users /\ Movers(i) \in SUBSET Slots
      BY IdsFacts DEF Adders, Movers
    <3>2. Room(favs[i], Adders(i), Movers(i))
      BY DEF PendingInv
    <3>3. favs[i] \in SUBSET favs[i] /\ {} \in SUBSET Adders(i) /\ {} \in SUBSET Movers(i)
      OBVIOUS
    <3> QED BY <3>1, <3>2, <3>3, RoomGrows
  <2>2. Cardinality(favs[i]) \in Nat /\ Cardinality(Users) \in Nat /\ Cardinality(Slots) \in Nat
    BY IdsFacts, FS_Subset, FS_CardinalityType, NamesAssumption
  <2> QED BY <2>1, <2>2, FS_EmptySet, BoundsAssumption DEF Room
<1>2. Init => PendingInv
  BY DEF Init, PendingInv, Ids
<1>3. TypeInv /\ PendingInv /\ [Next]_vars => TypeInv' /\ PendingInv'
  BY NextKeepsTypes, NextKeepsRoom
<1> QED BY <1>1, <1>2, <1>3, InitTypes, PTL DEF Spec

-----------------------------------------------------------------------------
(* The numbers, with one process for webhooks.                             *)

OneProcess == \A g, h \in Hooks : g = h

\* The invariant looks at the webhook of the only process.
LEMMA OneHook ==
  ASSUME OneProcess, TypeInv, NEW h \in Hooks, NEW q, hook' = [hook EXCEPT ![h] = q],
         Replaces(q)', Migrates(q)'
  PROVE  ReplaceInv' /\ MigrationInv'
<1>1. \A g \in Hooks : hook'[g] = q
  BY IdsFacts DEF OneProcess
<1> QED BY <1>1 DEF ReplaceInv, MigrationInv

LEMMA Serves ==
  ASSUME OneProcess, NEW h \in Hooks, NEW p, NEW f
  PROVE  Serving(p, f) <=> /\ hook[h].step = "create" /\ hook[h].source # 0
                           /\ hook[h].target = p /\ hook[h].item = f
BY DEF OneProcess, Serving

\* What a list that is left to do says of a migration.
Onward(r) ==
    /\ r.mode = "waba" => \A j \in r.todo : dash[j].live /\ dash[j].project = r.target
    /\ r.old # None =>
         /\ LiveOn(r.project, r.old) \subseteq
              (IF r.mode = "waba" /\ r.target = r.project THEN r.todo ELSE {})
         /\ HasMain(r.project) /\ ~(r.mode = "waba" /\ r.target = r.project) =>
              LiveOn(Main, r.old) \subseteq (IF r.mode = "waba" THEN r.todo ELSE {})

\* Nothing of the projects of a webhook is left on the WABA it abandons.
Abandoned(r) == \A p \in Projects : p \in {r.project, Main} => LiveOn(p, r.old) = {}

\* The next dashboard of the list is a live one of a number of its own, and a
\* migration goes on to another phase, or ends, when the list is done.
LEMMA FollowsNumbers ==
  ASSUME TypeInv, SingleInv', Ids \subseteq Ids', \A i \in Ids : dash'[i] = dash[i],
         NEW r \in HookRecords(Ids'), r.mode \in Saves, HookWorks(r, Ids'), r.todo \subseteq Ids,
         Onward(r)', NEW q, Follows(r, q)
  PROVE  /\ Replaces(q)' /\ Migrates(q)' /\ q.step # "create"
         /\ (q = NoHook /\ r.old # None) => Abandoned(r)'
<1>1. r.target = r.project \/ (r.target = Main /\ HasMain(r.project))
  BY DEF HookWorks, Saves
<1>2. r.old # None => r.old \in Wabas
  BY DEF HookRecords
<1>3. CASE r.todo = {} /\ q = NoHook /\ (r.mode # "copies" => ~(r.target = r.project /\ HasMain(r.project)))
  <2>1. Replaces(q)' /\ Migrates(q)' /\ q.step # "create"
    BY <1>3 DEF NoHook, Replaces, Migrates
  <2>2. ASSUME r.old # None PROVE Abandoned(r)'
    <3>1. LiveOn(r.project, r.old)' = {}
      BY <1>3, <2>2 DEF Onward
    <3>2. ASSUME HasMain(r.project) PROVE LiveOn(Main, r.old)' = {}
      BY <1>1, <1>3, <2>2, <3>2 DEF Onward, HookWorks, Saves
    <3>3. Main \in Projects => Main = r.project \/ HasMain(r.project)
      BY NamesAssumption DEF HasMain
    <3> QED BY <3>1, <3>2, <3>3 DEF Abandoned
  <2> QED BY <2>1, <2>2
<1>4. ASSUME NEW p, r.todo = {}, q = NumberIn(r, p),
             ~(r.mode = "waba" /\ r.target = r.project /\ HasMain(r.project))
      PROVE  Replaces(q)' /\ Migrates(q)' /\ q.step # "create" /\ q # NoHook
  <2>1. q.mode = "number" /\ q.step = "find" /\ q.old = r.old /\ q.project = r.project
    BY <1>4 DEF NumberIn, HookRecords
  <2>2. Replaces(q)'
    BY <2>1 DEF Replaces
  <2>3. ASSUME r.old # None
        PROVE  LiveOn(r.project, r.old)' = {} /\ (HasMain(r.project) => LiveOn(Main, r.old)' = {})
    BY <1>1, <1>4, <2>3 DEF Onward
  <2> QED BY <2>1, <2>2, <2>3 DEF Migrates, LeftOn, NoHook
<1>5. CASE /\ r.todo = {} /\ q = [r EXCEPT !.step = "find", !.target = Main]
           /\ r.mode = "waba" /\ r.target = r.project /\ HasMain(r.project)
  <2>1. /\ q.mode = "waba" /\ q.step = "find" /\ q.old = r.old /\ q.project = r.project
        /\ q.target = Main /\ Main # r.project
    BY <1>5 DEF HookRecords, HasMain
  <2>2. Replaces(q)'
    BY <2>1 DEF Replaces
  <2>3. r.old # None => LiveOn(r.project, r.old)' = {}
    BY <1>5 DEF Onward
  <2> QED BY <2>1, <2>2, <2>3 DEF Migrates, LeftOn, NoHook
<1>6. ASSUME NEW i \in r.todo, q = NextOf(r, i)
      PROVE  Replaces(q)' /\ Migrates(q)' /\ q.step # "create" /\ q # NoHook
  <2>1. /\ q.step = IF r.mode = "waba" THEN "delete" ELSE "find"
        /\ q.mode = r.mode /\ q.project = r.project /\ q.old = r.old /\ q.target = r.target
        /\ q.item = dash[i].phone /\ q.source = i /\ q.todo = r.todo \ {i}
    BY <1>6 DEF HookRecords, NextOf
  <2>2. CASE r.mode # "waba"
    <3>1. r.mode = "copies"
      BY <1>6, <2>2 DEF HookWorks, Saves
    <3> QED BY <2>1, <3>1 DEF Replaces, Migrates, LeftOn, Onward, NoHook
  <2>3. CASE r.mode = "waba"
    <3>1. \A j \in r.todo : j \in Ids /\ j \in Ids' /\ dash'[j] = dash[j] /\ dash'[j].live
                             /\ dash'[j].project = r.target
      BY <2>3 DEF Onward
    <3>2. q.source \in LiveFor(q.target, q.item)'
      BY <1>6, <2>1, <3>1 DEF LiveFor
    <3>3. \A j \in q.todo : dash'[j].live /\ dash'[j].project = q.target /\ dash'[j].phone # q.item
      BY <1>6, <2>1, <3>1 DEF SingleInv, NumberOf
    <3>4. Replaces(q)'
      BY <2>1, <2>3, <3>2, <3>3 DEF Replaces
    <3>5. q.todo \cup {q.source} = r.todo
      BY <1>6, <2>1
    <3>6. Migrates(q)'
      BY <1>1, <2>1, <2>3, <3>5 DEF Migrates, LeftOn, Onward, HasMain
    <3> QED BY <2>1, <2>3, <3>4, <3>6 DEF NoHook
  <2> QED BY <2>2, <2>3
<1>7. CASE r.todo = {} /\ q = NextPhase(r)
  BY <1>3, <1>4, <1>5, <1>7, NextPhaseIs
<1> QED BY <1>6, <1>7 DEF Follows

\* A webhook that starts, or dies.
LEMMA BeginNumbers ==
  ASSUME OneProcess, TypeInv, NumbersInv, NEW h \in Hooks, BeginSave(h) \/ BeginRemove(h) \/ HookDies(h)
  PROVE  NumbersInv'
<1>1. UNCHANGED dash /\ Ids' = Ids /\ lost \subseteq lost'
  BY DEF BeginSave, BeginRemove, HookDies, ghosts, Ids
<1>2. SingleInv'
  BY <1>1 DEF NumbersInv, SingleInv, NumberOf
<1>3. PICK q : /\ hook' = [hook EXCEPT ![h] = q] /\ q.step # "create"
               /\ q.mode # "waba" \/ (q.step = "find" /\ q.target = q.project)
               /\ q.step = "delete" => q.mode = "remove"
               /\ q.old = None \/ q.mode = "waba"
  <2>0. NoHook.step = "idle" /\ NoHook.mode = "none" /\ NoHook.old = None
    BY DEF NoHook
  <2>1. CASE HookDies(h)
    <3>1. hook' = [hook EXCEPT ![h] = NoHook]
      BY <2>1 DEF HookDies
    <3> QED BY <2>0, <3>1
  <2>2. CASE BeginSave(h)
    <3>1. PICK p \in Callers, w \in Wabas, f \in Phones, old \in Wabas \cup {None} :
            /\ old # w
            /\ hook' = [hook EXCEPT ![h] =
                 [NoHook EXCEPT !.mode = IF old = None THEN "number" ELSE "waba",
                                !.step = "find", !.project = p, !.waba = w, !.phone = f,
                                !.old = old, !.target = p, !.item = f]]
      BY <2>2 DEF BeginSave
    <3> DEFINE q == [NoHook EXCEPT !.mode = IF old = None THEN "number" ELSE "waba",
                                   !.step = "find", !.project = p, !.waba = w, !.phone = f,
                                   !.old = old, !.target = p, !.item = f]
    <3>2. /\ q.step = "find" /\ q.target = q.project /\ q.old = old
          /\ old = None \/ q.mode = "waba"
      BY DEF NoHook
    <3> HIDE DEF q
    <3>3. hook' = [hook EXCEPT ![h] = q]
      BY <3>1 DEF q
    <3> QED BY <3>2, <3>3
  <2>3. CASE BeginRemove(h)
    <3>1. PICK p \in Callers, w \in Wabas :
            LET found == LiveOn(p, w) \cup (IF HasMain(p) THEN LiveOn(Main, w) ELSE {})
            IN hook' = [hook EXCEPT ![h] =
                 IF found = {} THEN NoHook
                 ELSE [NoHook EXCEPT !.mode = "remove", !.step = "delete", !.project = p,
                                     !.waba = w, !.todo = found]]
      BY <2>3 DEF BeginRemove
    <3> DEFINE found == LiveOn(p, w) \cup (IF HasMain(p) THEN LiveOn(Main, w) ELSE {})
    <3> DEFINE q == [NoHook EXCEPT !.mode = "remove", !.step = "delete", !.project = p,
                                   !.waba = w, !.todo = found]
    <3>2. q.step = "delete" /\ q.mode = "remove" /\ q.old = None
      BY DEF NoHook
    <3>3. hook' = [hook EXCEPT ![h] = q] \/ hook' = [hook EXCEPT ![h] = NoHook]
      BY <3>1
    <3> HIDE DEF q
    <3> QED BY <2>0, <3>2, <3>3
  <2> QED BY <2>1, <2>2, <2>3
<1>4. KeptInv'
  <2>1. hook'[h].step # "create"
    BY <1>3, IdsFacts
  <2>2. hook[h].step = "create" /\ hook[h].source # 0 => <<hook[h].target, hook[h].item>> \in lost'
    <3>1. CASE HookDies(h)
      <4>1. lost' = IF hook[h].step = "create" /\ hook[h].source # 0
                    THEN lost \cup {<<hook[h].target, hook[h].item>>} ELSE lost
        BY <3>1 DEF HookDies
      <4> QED BY <4>1
    <3>2. CASE BeginSave(h) \/ BeginRemove(h)
      <4>1. hook[h] = NoHook
        BY <3>2 DEF BeginSave, BeginRemove
      <4> QED BY <4>1 DEF NoHook
    <3> QED BY <3>1, <3>2
  <2>3. ASSUME NEW i \in Ids
        PROVE  LiveFor(dash[i].project, dash[i].phone) # {} \/ NumberOf(i) \in lost'
    BY <1>1, <2>2, Serves DEF NumbersInv, KeptInv, NumberOf
  <2> QED BY <1>1, <2>3 DEF KeptInv, LiveFor, NumberOf
<1>5. Replaces(q)' /\ Migrates(q)'
  BY <1>3 DEF Replaces, Migrates, LeftOn, HasMain
<1> QED BY <1>2, <1>3, <1>4, <1>5, OneHook DEF NumbersInv

LEMMA FindNumberKeeps ==
  ASSUME OneProcess, TypeInv, NumbersInv, NEW h \in Hooks, FindNumber(h)
  PROVE  NumbersInv' /\ hook'[h] # NoHook
<1>1. /\ UNCHANGED <<dash, lost>> /\ Ids' = Ids
      /\ hook[h].step = "find" /\ hook[h].mode \in {"number", "copies"}
  BY DEF FindNumber, ghosts, Ids
<1>2. SingleInv'
  BY <1>1 DEF NumbersInv, SingleInv, NumberOf
<1>3. PICK step, source :
         /\ step \in {"create", "delete"}
         /\ hook' = [hook EXCEPT ![h].step = step, ![h].source = source]
         /\ step = "create" => LiveFor(hook[h].target, hook[h].item) = {}
         /\ step = "delete" => source \in LiveFor(hook[h].target, hook[h].item)
  BY DEF FindNumber
<1>4. PICK q : q = [hook[h] EXCEPT !.step = step, !.source = source]
  OBVIOUS
<1>5. hook' = [hook EXCEPT ![h] = q] /\ hook[h] \in HookRecords(Ids)
  BY <1>3, <1>4, IdsFacts DEF HookRecords
<1>6. /\ q.step = step /\ q.source = source /\ q.mode = hook[h].mode /\ q.target = hook[h].target
      /\ q.item = hook[h].item /\ q.project = hook[h].project /\ q.old = hook[h].old
  BY <1>4, <1>5 DEF HookRecords
<1>7. KeptInv'
  <2>1. \A p, f : ~Serving(p, f)
    BY <1>1, Serves
  <2> QED BY <1>1, <2>1 DEF NumbersInv, KeptInv, LiveFor, NumberOf
<1>8. Replaces(q)'
  <2>1. LiveFor(q.target, q.item)' = LiveFor(hook[h].target, hook[h].item)
    BY <1>1, <1>6 DEF LiveFor
  <2> QED BY <1>1, <1>3, <1>6, <2>1 DEF Replaces
<1>9. Migrates(q)'
  <2>1. Migrates(hook[h])
    BY DEF NumbersInv, MigrationInv
  <2>2. \A p, w : LiveOn(p, w)' = LiveOn(p, w)
    BY <1>1 DEF LiveOn
  <2> QED BY <1>1, <1>6, <2>1, <2>2 DEF Migrates, LeftOn
<1>10. hook'[h] # NoHook
  <2>1. hook'[h] = q /\ q.step # "idle"
    BY <1>3, <1>5, <1>6, IdsFacts
  <2> QED BY <2>1 DEF NoHook
<1> QED BY <1>2, <1>5, <1>7, <1>8, <1>9, <1>10, OneHook DEF NumbersInv

LEMMA FindWabaKeeps ==
  ASSUME OneProcess, TypeInv, NumbersInv, NEW h \in Hooks, FindWaba(h)
  PROVE  NumbersInv' /\ (hook'[h] = NoHook => Abandoned(hook[h]))
<1>1. /\ UNCHANGED <<dash, lost>> /\ Ids' = Ids
      /\ hook[h].step = "find" /\ hook[h].mode = "waba"
  BY DEF FindWaba, ghosts, Ids
<1>2. SingleInv'
  BY <1>1 DEF NumbersInv, SingleInv, NumberOf
<1>3. hook[h] \in HookRecords(Ids) /\ HookWorks(hook[h], Ids) /\ Migrates(hook[h])
  BY <1>1, HookAt DEF NumbersInv, MigrationInv
<1> DEFINE found == LiveOn(hook[h].target, hook[h].old)
           copies == [hook[h] EXCEPT !.mode = "copies", !.todo = hook[h].made]
           own == [hook[h] EXCEPT !.todo = found]
<1>4. Proceed(h, own) \/ (hook[h].target # hook[h].project /\ found = {} /\ Proceed(h, copies))
  BY DEF FindWaba
<1>5. /\ hook[h].target \in Projects /\ hook[h].old \in Wabas /\ hook[h].old # None
      /\ hook[h].target = hook[h].project \/ (hook[h].target = Main /\ HasMain(hook[h].project))
  BY <1>1, <1>3, NamesAssumption DEF HookWorks
<1>6. found \subseteq Ids /\ hook[h].made \subseteq Ids
  BY <1>3 DEF LiveOn, HookRecords
<1>7. own \in HookRecords(Ids) /\ own.mode = "waba" /\ own.todo = found /\ own.old = hook[h].old
      /\ own.project = hook[h].project /\ own.target = hook[h].target
  BY <1>1, <1>3, <1>6 DEF HookRecords
<1>8. HookWorks(own, Ids)
  BY <1>1, <1>3 DEF HookWorks, HookRecords
<1>9. Onward(own)
  <2>1. \A j \in found : dash[j].live /\ dash[j].project = hook[h].target
    BY DEF LiveOn
  <2>2. LiveOn(hook[h].project, hook[h].old) \subseteq
          (IF hook[h].target = hook[h].project THEN found ELSE {})
    BY <1>1, <1>3, <1>5 DEF Migrates, LeftOn
  <2> HIDE DEF own, found
  <2>3. HasMain(hook[h].project) /\ hook[h].target # hook[h].project =>
          LiveOn(Main, hook[h].old) \subseteq found
    BY <1>5 DEF found
  <2> QED BY <1>7, <2>1, <2>2, <2>3 DEF Onward
<1>10. ASSUME hook[h].target # hook[h].project, found = {}
       PROVE  /\ copies \in HookRecords(Ids) /\ copies.mode = "copies" /\ copies.old = hook[h].old
              /\ copies.project = hook[h].project /\ copies.todo \subseteq Ids
              /\ HookWorks(copies, Ids) /\ Onward(copies)
  <2>1. /\ copies \in HookRecords(Ids) /\ copies.mode = "copies" /\ copies.old = hook[h].old
        /\ copies.project = hook[h].project /\ copies.todo = hook[h].made
        /\ copies.target = hook[h].target
    BY <1>1, <1>3, <1>6 DEF HookRecords
  <2>2. HookWorks(copies, Ids)
    BY <1>1, <1>3, <1>10 DEF HookWorks, HookRecords
  <2>3. LiveOn(hook[h].project, hook[h].old) = {} /\ LiveOn(Main, hook[h].old) = {}
    BY <1>1, <1>3, <1>5, <1>10 DEF Migrates, LeftOn
  <2> HIDE DEF copies
  <2>4. Onward(copies)
    BY <2>1, <2>3 DEF Onward
  <2> QED BY <1>6, <2>1, <2>2, <2>4
<1> HIDE DEF own, copies, found
<1>11. PICK r, q : /\ r = own \/ (r = copies /\ hook[h].target # hook[h].project /\ found = {})
                   /\ hook' = [hook EXCEPT ![h] = q] /\ Follows(r, q)
  BY <1>4, ProceedFollows
<1>12. /\ r \in HookRecords(Ids) /\ r.mode \in Saves /\ r.todo \subseteq Ids /\ HookWorks(r, Ids)
       /\ Onward(r) /\ r.old = hook[h].old /\ r.project = hook[h].project
  BY <1>6, <1>7, <1>8, <1>9, <1>10, <1>11 DEF Saves
<1>13. Onward(r)' /\ (Abandoned(r)' => Abandoned(hook[h]))
  BY <1>1, <1>12 DEF Onward, LiveOn, Abandoned
<1>14. /\ Replaces(q)' /\ Migrates(q)' /\ q.step # "create"
       /\ (q = NoHook /\ r.old # None) => Abandoned(r)'
  BY <1>1, <1>2, <1>11, <1>12, <1>13, FollowsNumbers
<1>15. KeptInv'
  <2>1. \A p, f : ~Serving(p, f)
    BY <1>1, Serves
  <2> QED BY <1>1, <2>1 DEF NumbersInv, KeptInv, LiveFor, NumberOf
<1>16. hook'[h] = q
  BY <1>11, IdsFacts
<1> QED BY <1>2, <1>5, <1>11, <1>12, <1>13, <1>14, <1>15, <1>16, OneHook DEF NumbersInv

LEMMA DeleteNumbers ==
  ASSUME OneProcess, TypeInv, NumbersInv, NEW h \in Hooks, DeleteDashboard(h)
  PROVE  NumbersInv' /\ hook'[h] # NoHook
<1>1. PICK r, i : r = hook[h] /\ i = r.source
  OBVIOUS
<1>2. PICK q : q = [r EXCEPT !.step = "create"]
  OBVIOUS
<1>3. /\ r.step = "delete" /\ r.mode # "remove" /\ lost' = lost
      /\ dash' = [dash EXCEPT ![i].live = FALSE] /\ hook' = [hook EXCEPT ![h] = q]
  BY <1>1, <1>2 DEF DeleteDashboard, ghosts
<1>4. r \in HookRecords(Ids) /\ HookWorks(r, Ids) /\ Replaces(r) /\ Migrates(r)
  BY <1>1, <1>3, HookAt DEF NumbersInv, ReplaceInv, MigrationInv
<1>5. i \in Ids /\ dash[i].live /\ dash[i].project = r.target /\ dash[i].phone = r.item /\ i # 0
  BY <1>1, <1>3, <1>4, IdsFacts DEF Replaces, LiveFor
<1>6. /\ Ids' = Ids
      /\ \A j \in Ids : /\ dash'[j].project = dash[j].project /\ dash'[j].phone = dash[j].phone
                        /\ dash'[j].waba = dash[j].waba /\ (dash'[j].live <=> (dash[j].live /\ j # i))
  BY <1>3, <1>5, DeletedBoard
<1>7. /\ q.step = "create" /\ q.mode = r.mode /\ q.target = r.target /\ q.item = r.item
      /\ q.project = r.project /\ q.old = r.old /\ q.todo = r.todo /\ q.source = i
  BY <1>1, <1>2, <1>4 DEF HookRecords
<1>8. hook'[h] = q /\ q # NoHook
  BY <1>3, <1>7, IdsFacts DEF NoHook
<1>9. SingleInv'
  BY <1>6 DEF NumbersInv, SingleInv, NumberOf
<1>10. KeptInv'
  <2> SUFFICES ASSUME NEW j \in Ids, NumberOf(j) \notin lost
               PROVE  \/ LiveFor(dash[j].project, dash[j].phone)' # {}
                      \/ Serving(dash[j].project, dash[j].phone)'
    BY <1>3, <1>6 DEF KeptInv, NumberOf
  <2>1. PICK k \in LiveFor(dash[j].project, dash[j].phone) : TRUE
    BY <1>1, <1>3, Serves DEF NumbersInv, KeptInv
  <2>2. CASE k = i
    BY <1>5, <1>6, <1>7, <1>8, <2>1, <2>2 DEF Serving, LiveFor
  <2>3. CASE k # i
    BY <1>6, <2>1, <2>3 DEF LiveFor
  <2> QED BY <2>2, <2>3
<1>11. Replaces(q)'
  <2>1. LiveFor(q.target, q.item)' = {}
    BY <1>5, <1>6, <1>7 DEF LiveFor, NumbersInv, SingleInv, NumberOf
  <2>2. ASSUME q.mode = "waba", NEW j \in q.todo
        PROVE  dash'[j].live /\ dash'[j].project = q.target /\ dash'[j].phone # q.item
    <3>1. dash[j].live /\ dash[j].project = r.target /\ dash[j].phone # r.item /\ j \in Ids
      BY <1>3, <1>4, <1>7, <2>2 DEF Replaces, HookRecords
    <3> QED BY <1>5, <1>6, <1>7, <3>1
  <2> QED BY <1>7, <2>1, <2>2 DEF Replaces
<1>12. Migrates(q)'
  <2>1. \A p, w : LiveOn(p, w)' \subseteq LiveOn(p, w) \ {i}
    BY <1>6 DEF LiveOn
  <2>2. ASSUME r.old # None, NEW p, LiveOn(p, r.old) \subseteq LeftOn(r, p)
        PROVE  LiveOn(p, r.old)' \subseteq LeftOn(q, p)'
    <3>1. CASE r.mode # "waba" \/ (p = r.project /\ r.target # r.project)
      BY <1>7, <2>1, <2>2, <3>1 DEF LeftOn
    <3>2. CASE ~(r.mode # "waba" \/ (p = r.project /\ r.target # r.project)) /\ p = r.target
      BY <1>1, <1>3, <1>7, <2>1, <2>2, <3>2 DEF LeftOn
    <3>3. CASE ~(r.mode # "waba" \/ (p = r.project /\ r.target # r.project)) /\ p # r.target
      BY <1>7, <3>3 DEF LeftOn
    <3> QED BY <3>1, <3>2, <3>3
  <2> QED BY <1>4, <1>7, <2>2 DEF Migrates
<1> QED BY <1>3, <1>8, <1>9, <1>10, <1>11, <1>12, OneHook DEF NumbersInv

LEMMA RemoveNumbers ==
  ASSUME OneProcess, TypeInv, NumbersInv, NEW h \in Hooks, RemoveDashboard(h)
  PROVE  NumbersInv' /\ hook[h].old = None
<1>1. hook[h].step = "delete" /\ hook[h].mode = "remove"
  BY DEF RemoveDashboard
<1>2. hook[h] \in HookRecords(Ids) /\ HookWorks(hook[h], Ids)
  BY <1>1, HookAt
<1>3. PICK i, q :
        /\ i \in hook[h].todo
        /\ dash' = [dash EXCEPT ![i].live = FALSE] /\ lost' = lost \cup {NumberOf(i)}
        /\ hook' = [hook EXCEPT ![h] = q]
        /\ q = NoHook \/ q = [hook[h] EXCEPT !.todo = hook[h].todo \ {i}]
  <2>1. PICK i \in hook[h].todo :
        /\ dash' = [dash EXCEPT ![i].live = FALSE] /\ lost' = lost \cup {NumberOf(i)}
        /\ hook' = [hook EXCEPT ![h] = IF hook[h].todo = {i} THEN NoHook
                                       ELSE [hook[h] EXCEPT !.todo = hook[h].todo \ {i}]]
    BY DEF RemoveDashboard
  <2>2. CASE hook[h].todo = {i}
    BY <2>1, <2>2
  <2>3. CASE hook[h].todo # {i}
    BY <2>1, <2>3
  <2> QED BY <2>2, <2>3
<1>4. i \in Ids
  BY <1>2, <1>3 DEF HookRecords
<1>5. /\ Ids' = Ids
      /\ \A j \in Ids : /\ dash'[j].project = dash[j].project /\ dash'[j].phone = dash[j].phone
                        /\ dash'[j].live <=> (dash[j].live /\ j # i)
  BY <1>3, <1>4, DeletedBoard
<1>6. hook[h].old = None
  BY <1>1, <1>2 DEF HookWorks
<1>7. q.old = None /\ (q.step = "delete" => q.mode = "remove") /\ q.step # "create"
      /\ q.mode # "waba"
  <2>1. CASE q = NoHook
    BY <2>1 DEF NoHook
  <2>2. CASE q = [hook[h] EXCEPT !.todo = hook[h].todo \ {i}]
    BY <1>1, <1>2, <1>6, <2>2 DEF HookRecords
  <2> QED BY <1>3, <2>1, <2>2
<1>8. Replaces(q)' /\ Migrates(q)'
  BY <1>7 DEF Replaces, Migrates
<1>9. SingleInv'
  BY <1>5 DEF NumbersInv, SingleInv, NumberOf
<1>10. KeptInv'
  <2> SUFFICES ASSUME NEW j \in Ids, NumberOf(j) \notin lost'
               PROVE  LiveFor(dash[j].project, dash[j].phone)' # {}
    BY <1>5 DEF KeptInv, NumberOf
  <2>1. NumberOf(j) \notin lost /\ NumberOf(j) # NumberOf(i)
    BY <1>3
  <2>2. PICK k \in LiveFor(dash[j].project, dash[j].phone) : TRUE
    BY <1>1, <2>1, Serves DEF NumbersInv, KeptInv
  <2>3. k # i
    BY <2>1, <2>2 DEF LiveFor, NumberOf
  <2> QED BY <1>5, <2>2, <2>3 DEF LiveFor
<1> QED BY <1>3, <1>6, <1>8, <1>9, <1>10, OneHook DEF NumbersInv

LEMMA CreateNumbers ==
  ASSUME OneProcess, TypeInv, NumbersInv, NEW h \in Hooks, CreateDashboard(h),
         NEW r, r = hook[h]
  PROVE  NumbersInv' /\ (hook'[h] = NoHook /\ r.old # None => Abandoned(r)')
<1>a. PICK new : new = Len(dash) + 1
  OBVIOUS
<1>1. /\ Ids' = Ids \cup {new} /\ new \notin Ids /\ \A i \in Ids : dash'[i] = dash[i]
      /\ dash'[new] = [project |-> r.target, phone |-> r.item, waba |-> r.waba, live |-> TRUE]
      /\ r \in HookRecords(Ids) /\ r.mode \in Saves /\ HookWorks(r, Ids) /\ r.todo \subseteq Ids
      /\ r.step = "create"
  BY <1>a, CreatedBoard
<1>2. lost' = lost \ {<<r.target, r.item>>}
  BY DEF CreateDashboard
<1>3. Replaces(r) /\ Migrates(r)
  BY DEF NumbersInv, ReplaceInv, MigrationInv
<1>4. LiveFor(r.target, r.item) = {}
  BY <1>1, <1>3 DEF Replaces
<1>5. SingleInv'
  <2>1. ASSUME NEW i \in Ids, dash'[i].live PROVE NumberOf(i)' # NumberOf(new)'
    BY <1>1, <1>4, <2>1 DEF LiveFor, NumberOf
  <2>2. ASSUME NEW i \in Ids, NEW j \in Ids, dash'[i].live, dash'[j].live, NumberOf(i)' = NumberOf(j)'
        PROVE  i = j
    BY <1>1, <2>2 DEF NumbersInv, SingleInv, NumberOf
  <2> QED BY <1>1, <2>1, <2>2 DEF SingleInv
<1>6. KeptInv'
  <2>1. new \in LiveFor(r.target, r.item)'
    BY <1>1 DEF LiveFor
  <2>2. \A p, f : LiveFor(p, f) \subseteq LiveFor(p, f)'
    BY <1>1 DEF LiveFor
  <2>3. ASSUME NEW i \in Ids
        PROVE  LiveFor(dash[i].project, dash[i].phone)' # {} \/ NumberOf(i)' \in lost'
    <3>1. CASE dash[i].project = r.target /\ dash[i].phone = r.item
      BY <1>1, <2>1, <3>1 DEF LiveFor
    <3>2. CASE ~(dash[i].project = r.target /\ dash[i].phone = r.item)
      <4>1. ~Serving(dash[i].project, dash[i].phone)
        BY <3>2, Serves
      <4>2. NumberOf(i)' = NumberOf(i) /\ (NumberOf(i) \in lost => NumberOf(i) \in lost')
        BY <1>1, <1>2, <3>2 DEF NumberOf
      <4>3. CASE NumberOf(i) \in lost
        BY <4>2, <4>3
      <4>4. CASE LiveFor(dash[i].project, dash[i].phone) # {}
        BY <1>1, <4>4 DEF LiveFor
      <4> QED BY <4>1, <4>3, <4>4 DEF NumbersInv, KeptInv
    <3> QED BY <3>1, <3>2
  <2>4. LiveFor(dash[new].project, dash[new].phone)' # {}
    BY <1>1 DEF LiveFor
  <2>5. ASSUME NEW i \in Ids'
        PROVE  LiveFor(dash[i].project, dash[i].phone)' # {} \/ NumberOf(i)' \in lost'
    BY <1>1, <2>3, <2>4, <2>5
  <2> QED BY <2>5 DEF KeptInv
<1>7. PICK s \in HookRecords(Ids'), q \in HookRecords(Ids') :
        /\ hook' = [hook EXCEPT ![h] = q] /\ Follows(s, q) /\ HookWorks(s, Ids')
        /\ \E made : s = [r EXCEPT !.made = made]
  BY CreateFollows
<1>8. /\ s.mode = r.mode /\ s.todo = r.todo /\ s.target = r.target /\ s.project = r.project
      /\ s.old = r.old
  BY <1>1, <1>7 DEF HookRecords
<1>9. Onward(s)'
  <2>1. ASSUME r.mode = "waba", NEW j \in r.todo PROVE dash'[j].live /\ dash'[j].project = r.target
    BY <1>1, <1>3, <2>1 DEF Replaces
  <2>2. ASSUME r.old # None, NEW p PROVE LiveOn(p, r.old)' = LiveOn(p, r.old)
    <3>1. r.waba # r.old
      BY <1>1 DEF HookWorks
    <3> QED BY <1>1, <3>1 DEF LiveOn
  <2>3. r.target = r.project \/ (r.target = Main /\ HasMain(r.project))
    BY <1>1 DEF HookWorks, Saves
  <2>4. ASSUME r.old # None
        PROVE  LiveOn(r.project, r.old) \subseteq
                 (IF r.mode = "waba" /\ r.target = r.project THEN r.todo ELSE {})
    BY <1>1, <1>3, <2>3, <2>4 DEF Migrates, LeftOn
  <2>5. ASSUME r.old # None, HasMain(r.project), ~(r.mode = "waba" /\ r.target = r.project)
        PROVE  LiveOn(Main, r.old) \subseteq (IF r.mode = "waba" THEN r.todo ELSE {})
    BY <1>1, <1>3, <2>3, <2>5 DEF Migrates, LeftOn, HasMain
  <2> QED BY <1>8, <2>1, <2>2, <2>4, <2>5 DEF Onward
<1>10. /\ Replaces(q)' /\ Migrates(q)'
       /\ (q = NoHook /\ s.old # None) => Abandoned(s)'
  BY <1>1, <1>5, <1>7, <1>8, <1>9, FollowsNumbers
<1>11. Abandoned(s)' => Abandoned(r)'
  BY <1>8 DEF Abandoned
<1>12. hook'[h] = q
  BY <1>7, IdsFacts
<1> QED BY <1>5, <1>6, <1>7, <1>8, <1>10, <1>11, <1>12, OneHook DEF NumbersInv

\* No other step touches a dashboard or a webhook.
LEMMA OtherNumbers ==
  ASSUME NumbersInv, UNCHANGED <<dash, hook, lost>>
  PROVE  NumbersInv'
BY DEF NumbersInv, SingleInv, KeptInv, ReplaceInv, MigrationInv, Replaces, Migrates, LeftOn, Abandoned,
       LiveOn, LiveFor, NumberOf, Serving, Ids

LEMMA OthersLeaveNumbers ==
  ASSUME \/ \E u \in Users : CheckAddition(u) \/ CreateAddition(u) \/ AdditionFails(u)
         \/ \E i \in Ids, t \in Templates : RemoveFavourite(i, t)
         \/ \E s \in Slots : MoveStep(s) \/ MoveRaises(s) \/ MoveDies(s)
         \/ \E s \in Slots, m \in moves : StartMove(s, m)
         \/ UNCHANGED vars
  PROVE  UNCHANGED <<dash, hook, lost, unsure>>
<1>1. CASE \E u \in Users : CheckAddition(u) \/ CreateAddition(u) \/ AdditionFails(u)
  BY <1>1 DEF CheckAddition, CreateAddition, AdditionFails, hookVars, ghosts
<1>2. CASE \E i \in Ids, t \in Templates : RemoveFavourite(i, t)
  BY <1>2 DEF RemoveFavourite, hookVars, ghosts
<1>3. CASE \E s \in Slots : MoveStep(s) \/ MoveRaises(s) \/ MoveDies(s)
  BY <1>3 DEF MoveStep, ReadFavourites, CountFavourites, CreateFavourite, MoveRaises, MoveDies, hookVars,
              ghosts
<1>4. CASE \E s \in Slots, m \in moves : StartMove(s, m)
  BY <1>4 DEF StartMove, hookVars, ghosts
<1>5. CASE UNCHANGED vars
  BY <1>5 DEF vars, hookVars, ghosts
<1> QED BY <1>1, <1>2, <1>3, <1>4, <1>5

LEMMA NextKeepsNumbers ==
  ASSUME OneProcess, TypeInv, NumbersInv, [Next]_vars
  PROVE  NumbersInv'
<1>1. CASE \E h \in Hooks : BeginSave(h) \/ BeginRemove(h) \/ HookStep(h) \/ HookDies(h)
  BY <1>1, BeginNumbers, FindNumberKeeps, FindWabaKeeps, DeleteNumbers, CreateNumbers, RemoveNumbers
     DEF HookStep
<1>2. CASE ~\E h \in Hooks : BeginSave(h) \/ BeginRemove(h) \/ HookStep(h) \/ HookDies(h)
  BY <1>2, OthersLeaveNumbers, OtherNumbers DEF Next
<1> QED BY <1>1, <1>2

LEMMA InitNumbers == Init => NumbersInv
BY DEF Init, NumbersInv, SingleInv, KeptInv, ReplaceInv, MigrationInv, Replaces, Migrates, Ids, NoHook

\* With one process that serves webhooks, a number has one live dashboard in its
\* project and never two, unless a removal or a webhook that died took it away or
\* it is being replaced, whatever webhooks come and wherever they stop.
THEOREM NumbersAreKept ==
  ASSUME OneProcess
  PROVE  Spec => []NumbersKept
<1>1. NumbersInv => NumbersKept
  <2> SUFFICES ASSUME NumbersInv PROVE NumbersKept
    OBVIOUS
  <2>1. ASSUME NEW p \in Projects, NEW f \in Phones PROVE Cardinality(LiveFor(p, f)) <= 1
    <3>1. CASE LiveFor(p, f) = {}
      BY <3>1, FS_EmptySet
    <3>2. CASE LiveFor(p, f) # {}
      <4>1. PICK i : i \in LiveFor(p, f)
        BY <3>2
      <4>2. LiveFor(p, f) = {i}
        BY <4>1 DEF LiveFor, NumbersInv, SingleInv, NumberOf
      <4> QED BY <4>2, FS_Singleton
    <3> QED BY <3>1, <3>2
  <2> QED BY <2>1 DEF NumbersKept, NumbersInv, KeptInv
<1>2. TypeInv /\ NumbersInv /\ [Next]_vars => NumbersInv'
  BY NextKeepsNumbers
<1>3. TypeInv /\ [Next]_vars => TypeInv'
  BY NextKeepsTypes
<1> QED BY <1>1, <1>2, <1>3, InitTypes, InitNumbers, PTL DEF Spec

\* With one process that serves webhooks, a migration that ends has left no
\* dashboard of its project, nor of the main project, on the WABA it abandons,
\* by whichever phase it ends.
THEOREM MigrationsAreWhole ==
  ASSUME OneProcess
  PROVE  Spec => MigrationIsWhole
<1> DEFINE Whole == \A h \in Hooks, w \in Wabas :
             (hook[h].old = w /\ hook'[h] = NoHook /\ faults' = faults) =>
                 \A p \in Projects : p \in {hook[h].project, Main} => LiveOn(p, w)' = {}
<1>1. TypeInv /\ NumbersInv /\ [Next]_vars => Whole
  <2> SUFFICES ASSUME TypeInv, NumbersInv, [Next]_vars, NEW h \in Hooks, NEW w \in Wabas,
                      hook[h].old = w, hook'[h] = NoHook, faults' = faults,
                      NEW p \in Projects, p \in {hook[h].project, Main}
               PROVE  LiveOn(p, w)' = {}
    OBVIOUS
  <2>1. PICK r : r = hook[h]
    OBVIOUS
  <2>2. hook'[h] # hook[h] /\ r.old # None /\ r # NoHook
    BY <2>1, NamesAssumption DEF NoHook
  <2>3. BeginSave(h) \/ BeginRemove(h) \/ HookStep(h) \/ HookDies(h)
    <3>1. CASE \E g \in Hooks : BeginSave(g) \/ BeginRemove(g) \/ HookStep(g) \/ HookDies(g)
      BY <3>1 DEF OneProcess
    <3>2. CASE ~\E g \in Hooks : BeginSave(g) \/ BeginRemove(g) \/ HookStep(g) \/ HookDies(g)
      BY <2>2, <3>2, OthersLeaveNumbers DEF Next
    <3> QED BY <3>1, <3>2
  <2>4. ~(BeginSave(h) \/ BeginRemove(h) \/ HookDies(h))
    <3>1. ~(BeginSave(h) \/ BeginRemove(h))
      BY <2>1, <2>2 DEF BeginSave, BeginRemove
    <3>2. faults' # faults + 1
      BY DEF TypeInv, TypeOK
    <3> QED BY <3>1, <3>2 DEF HookDies, Fault
  <2>5. Abandoned(r)'
    <3>1. CASE FindWaba(h)
      <4>1. Abandoned(hook[h]) /\ UNCHANGED dash
        BY <3>1, FindWabaKeeps DEF FindWaba
      <4> QED BY <2>1, <4>1 DEF Abandoned, LiveOn, Ids
    <3>2. CASE ~FindWaba(h)
      BY <2>1, <2>2, <2>3, <2>4, <3>2, FindNumberKeeps, DeleteNumbers, CreateNumbers, RemoveNumbers
         DEF HookStep
    <3> QED BY <3>1, <3>2
  <2>6. \A x : x = r.old => LiveOn(p, x)' = {}
    BY <2>1, <2>5 DEF Abandoned
  <2> QED BY <2>1, <2>6
<1>2. TypeInv /\ [Next]_vars => TypeInv'
  BY NextKeepsTypes
<1>3. TypeInv /\ NumbersInv /\ [Next]_vars => NumbersInv'
  BY NextKeepsNumbers
<1>4. TypeInv /\ NumbersInv /\ [Next]_vars => [Whole]_vars
  BY <1>1
<1> HIDE DEF Whole
<1>5. Spec => [][Whole]_vars
  BY <1>2, <1>3, <1>4, InitTypes, InitNumbers, PTL DEF Spec
<1> QED BY <1>5 DEF Whole, MigrationIsWhole

-----------------------------------------------------------------------------
(* The copies of the main project, when one other project has the numbers. *)

OneCaller == (\A p, q \in Callers : p = q) /\ Main \notin Callers

\* Every dashboard is of the project webhooks name or of the main project.
BoardsInv == \A i \in Ids : dash[i].project \in Callers \cup {Main}

\* A number that was lost has no live dashboard until it is saved again.
LostInv == \A n \in lost : LiveFor(n[1], n[2]) = {}

\* The main project is known to lack a copy of the number.
Exempt(f) == <<Main, f>> \in lost \/ f \in unsure

\* The main project has a dashboard of the number on the WABA.
CopyOn(f, w) == \E j \in LiveFor(Main, f) : dash[j].waba = w

\* What a webhook knows of the dashboards it has made, or has still to replace.
Copying(r) ==
    /\ r.mode = "remove" => \A j \in r.todo : j \in Ids /\ dash[j].live
    /\ r.mode = "number" => r.item = r.phone
    /\ r.mode = "number" /\ r.target # r.project =>
         \A i \in LiveFor(r.project, r.phone) : dash[i].waba = r.waba
    /\ r.mode \in {"waba", "copies"} =>
         \A k \in r.made : dash[k].live /\ dash[k].project = r.project /\ dash[k].waba = r.waba
    /\ r.mode = "copies" => r.todo \subseteq r.made /\ \E k \in r.made : dash[k].phone = r.item
    /\ r.mode = "waba" /\ r.step \in {"delete", "create"} =>
         r.source # 0 /\ \A j \in r.todo \cup {r.source} : dash[j].waba = r.old
    /\ r.mode = "waba" /\ r.step = "create" =>
         /\ <<r.target, r.item>> \notin lost
         /\ r.target = r.project /\ HasMain(r.project) => Exempt(r.item) \/ CopyOn(r.item, r.old)

\* The webhook is about to give the main project its copy of the dashboard.
Awaits(r, i) ==
    \/ r.mode = "number" /\ r.target = Main /\ dash[i].phone = r.phone
    \/ /\ r.mode \in {"waba", "copies"} /\ r.target = Main /\ r.step = "create"
       /\ dash[i].phone = r.item /\ dash[i].waba = r.waba
    \/ r.mode = "waba" /\ i \in r.made /\ CopyOn(dash[i].phone, r.old)

CopiedInv == \A i \in Ids : (dash[i].live /\ HasMain(dash[i].project)) =>
    \/ CopyOn(dash[i].phone, dash[i].waba) \/ Exempt(dash[i].phone)
    \/ \E h \in Hooks : Awaits(hook[h], i)

CopyInv == BoardsInv /\ LostInv /\ (\A h \in Hooks : Copying(hook[h])) /\ CopiedInv

\* A dashboard that needs a copy is of the project of the webhook.
LEMMA CallerOf ==
  ASSUME OneCaller, NEW p \in Callers \cup {Main}, HasMain(p), NEW c \in Callers
  PROVE  p = c
BY DEF OneCaller, HasMain

\* The invariant looks at the webhook of the only process.
LEMMA OneCopies ==
  ASSUME OneProcess, TypeInv, NEW h \in Hooks, NEW q, hook' = [hook EXCEPT ![h] = q],
         BoardsInv', LostInv', Copying(q)',
         ASSUME NEW i \in Ids', dash'[i].live, HasMain(dash'[i].project),
                ~CopyOn(dash[i].phone, dash[i].waba)', ~Exempt(dash[i].phone)'
         PROVE  Awaits(q, i)'
  PROVE  CopyInv'
<1>1. hook'[h] = q /\ \A g \in Hooks : hook'[g] = q
  BY IdsFacts DEF OneProcess
<1> QED BY <1>1 DEF CopyInv, CopiedInv

LEMMA CopiesOf ==
  ASSUME OneProcess, CopyInv, NEW h \in Hooks
  PROVE  /\ BoardsInv /\ LostInv /\ Copying(hook[h])
         /\ \A i \in Ids : (dash[i].live /\ HasMain(dash[i].project)) =>
               \/ CopyOn(dash[i].phone, dash[i].waba) \/ Exempt(dash[i].phone)
               \/ Awaits(hook[h], i)
<1>1. \A g \in Hooks : hook[g] = hook[h]
  BY DEF OneProcess
<1> QED BY <1>1 DEF CopyInv, CopiedInv

\* A copy that is still due when a list is left to do, is so when it is done.
Due(r, i) == \/ r.mode = "number" /\ r.target = r.project /\ dash[i].phone = r.phone
             \/ r.mode = "waba" /\ i \in r.made /\ CopyOn(dash[i].phone, r.old)

LEMMA FollowsCopies ==
  ASSUME TypeInv, Ids \subseteq Ids', \A i \in Ids : dash'[i] = dash[i],
         NEW r \in HookRecords(Ids'), r.mode \in Saves, HookWorks(r, Ids'), r.todo \subseteq Ids,
         Onward(r)', NEW q, Follows(r, q),
         r.mode = "number" => \A i \in LiveFor(r.project, r.phone)' : dash'[i].waba = r.waba,
         r.mode \in {"waba", "copies"} =>
           \A k \in r.made : dash'[k].live /\ dash'[k].project = r.project /\ dash'[k].waba = r.waba,
         r.mode = "waba" => \A j \in r.todo : dash'[j].waba = r.old,
         r.mode = "copies" => r.todo \subseteq r.made
  PROVE  /\ Copying(q)'
         /\ HasMain(r.project) => \A i : Due(r, i)' => Awaits(q, i)'
<1>1. r.target = r.project \/ (r.target = Main /\ HasMain(r.project))
  BY DEF HookWorks, Saves
<1>2. r.mode = "waba" => r.old \in Wabas /\ r.old # None
  BY NamesAssumption DEF HookWorks
<1>3. ASSUME r.mode # "number", ~(r.target = r.project /\ HasMain(r.project)) \/ r.mode # "waba",
             HasMain(r.project), r.todo = {}, NEW i
      PROVE  ~Due(r, i)'
  <2>1. CASE r.mode = "waba"
    <3>1. LiveOn(Main, r.old)' = {}
      BY <1>1, <1>2, <1>3, <2>1 DEF Onward
    <3> QED BY <2>1, <3>1 DEF Due, CopyOn, LiveOn, LiveFor
  <2>2. CASE r.mode # "waba"
    BY <1>3, <2>2 DEF Due
  <2> QED BY <2>1, <2>2
<1>4. CASE r.todo = {} /\ q = NoHook /\ (r.mode # "copies" => ~(r.target = r.project /\ HasMain(r.project)))
  <2>1. Copying(q)'
    BY <1>4 DEF NoHook, Copying
  <2>2. ASSUME HasMain(r.project), NEW i PROVE ~Due(r, i)'
    <3>1. CASE r.mode = "number"
      BY <1>4, <2>2, <3>1 DEF Due
    <3>2. CASE r.mode # "number"
      BY <1>3, <1>4, <2>2, <3>2 DEF Saves
    <3> QED BY <3>1, <3>2
  <2> QED BY <2>1, <2>2
<1>5. CASE q = NumberIn(r, Main) /\ r.mode = "number" /\ r.target = r.project /\ HasMain(r.project)
  <2>1. /\ q.mode = "number" /\ q.item = r.phone /\ q.phone = r.phone /\ q.target = Main
        /\ q.project = r.project /\ q.waba = r.waba
    BY <1>5 DEF NumberIn, HookRecords
  <2>2. Copying(q)'
    BY <1>5, <2>1 DEF Copying, LiveFor
  <2>3. \A i : Due(r, i)' => Awaits(q, i)'
    BY <1>5, <2>1 DEF Due, Awaits
  <2> QED BY <2>2, <2>3
<1>6. CASE /\ q = [r EXCEPT !.step = "find", !.target = Main]
           /\ r.mode = "waba" /\ r.target = r.project /\ HasMain(r.project)
  <2>1. /\ q.mode = "waba" /\ q.step = "find" /\ q.made = r.made /\ q.old = r.old
        /\ q.project = r.project /\ q.waba = r.waba
    BY <1>6 DEF HookRecords
  <2>2. Copying(q)'
    BY <1>6, <2>1 DEF Copying
  <2>3. \A i : Due(r, i)' => Awaits(q, i)'
    BY <1>6, <2>1 DEF Due, Awaits, CopyOn, LiveFor
  <2> QED BY <2>2, <2>3
<1>7. CASE /\ q = NumberIn(r, r.project) /\ r.todo = {} /\ r.mode # "number"
           /\ r.mode = "waba" => ~(r.target = r.project /\ HasMain(r.project))
  <2>1. q.mode = "number" /\ q.item = q.phone /\ q.target = q.project
    BY <1>7 DEF NumberIn, HookRecords
  <2>2. Copying(q)'
    BY <2>1 DEF Copying
  <2> QED BY <1>3, <1>7, <2>2
<1>8. ASSUME NEW i \in r.todo, q = NextOf(r, i)
      PROVE  Copying(q)' /\ \A k : Due(r, k)' => Awaits(q, k)'
  <2>1. /\ q.step = IF r.mode = "waba" THEN "delete" ELSE "find"
        /\ q.mode = r.mode /\ q.project = r.project /\ q.old = r.old /\ q.target = r.target
        /\ q.item = dash[i].phone /\ q.source = i /\ q.todo = r.todo \ {i} /\ q.made = r.made
        /\ q.waba = r.waba
    BY <1>8 DEF HookRecords, NextOf
  <2>2. r.mode \in {"waba", "copies"} /\ i \in Ids /\ i # 0 /\ dash'[i] = dash[i]
    BY <1>8, IdsFacts DEF HookWorks, Saves
  <2>3. CASE r.mode = "copies"
    BY <1>8, <2>1, <2>2, <2>3 DEF Copying, Due
  <2>4. CASE r.mode = "waba"
    <3>1. Copying(q)'
      BY <1>8, <2>1, <2>2, <2>4 DEF Copying
    <3>2. \A k : Due(r, k)' => Awaits(q, k)'
      BY <2>1, <2>4 DEF Due, Awaits, CopyOn, LiveFor
    <3> QED BY <3>1, <3>2
  <2> QED BY <2>2, <2>3, <2>4
<1>9. CASE r.todo = {} /\ q = NextPhase(r)
  BY <1>4, <1>5, <1>6, <1>7, <1>9, NextPhaseIs
<1> QED BY <1>8, <1>9 DEF Follows

LEMMA BeginCopies ==
  ASSUME OneProcess, OneCaller, TypeInv, NumbersInv, CopyInv, NEW h \in Hooks,
         BeginSave(h) \/ BeginRemove(h) \/ HookDies(h)
  PROVE  CopyInv'
<1>1. PICK r : r = hook[h]
  OBVIOUS
<1>2. /\ UNCHANGED dash /\ Ids' = Ids /\ lost \subseteq lost' /\ unsure \subseteq unsure'
  BY DEF BeginSave, BeginRemove, HookDies, ghosts, Ids
<1>3. (\A p, f : LiveFor(p, f)' = LiveFor(p, f)) /\ BoardsInv'
  BY <1>2, CopiesOf DEF LiveFor, BoardsInv
<1>4. PICK q : /\ hook' = [hook EXCEPT ![h] = q] /\ q.made = {}
               /\ q.mode \in {"none", "number", "waba", "remove"}
               /\ q.mode \in {"number", "waba"} => q.step = "find" /\ q.item = q.phone /\ q.target = q.project
               /\ q.mode = "remove" => \A j \in q.todo : j \in Ids /\ dash[j].live
  <2>0. NoHook.mode = "none" /\ NoHook.made = {}
    BY DEF NoHook
  <2>1. CASE HookDies(h)
    <3>1. hook' = [hook EXCEPT ![h] = NoHook]
      BY <2>1 DEF HookDies
    <3> QED BY <2>0, <3>1
  <2>2. CASE BeginSave(h)
    <3>1. PICK p \in Callers, w \in Wabas, f \in Phones, old \in Wabas \cup {None} :
            /\ old # w
            /\ hook' = [hook EXCEPT ![h] =
                 [NoHook EXCEPT !.mode = IF old = None THEN "number" ELSE "waba",
                                !.step = "find", !.project = p, !.waba = w, !.phone = f,
                                !.old = old, !.target = p, !.item = f]]
      BY <2>2 DEF BeginSave
    <3> DEFINE q == [NoHook EXCEPT !.mode = IF old = None THEN "number" ELSE "waba",
                                   !.step = "find", !.project = p, !.waba = w, !.phone = f,
                                   !.old = old, !.target = p, !.item = f]
    <3>2. /\ q.step = "find" /\ q.target = q.project /\ q.item = q.phone /\ q.made = {}
          /\ q.mode \in {"number", "waba"}
      BY DEF NoHook
    <3> HIDE DEF q
    <3>3. hook' = [hook EXCEPT ![h] = q]
      BY <3>1 DEF q
    <3> QED BY <3>2, <3>3
  <2>3. CASE BeginRemove(h)
    <3>1. PICK p \in Callers, w \in Wabas :
            LET found == LiveOn(p, w) \cup (IF HasMain(p) THEN LiveOn(Main, w) ELSE {})
            IN hook' = [hook EXCEPT ![h] =
                 IF found = {} THEN NoHook
                 ELSE [NoHook EXCEPT !.mode = "remove", !.step = "delete", !.project = p,
                                     !.waba = w, !.todo = found]]
      BY <2>3 DEF BeginRemove
    <3> DEFINE found == LiveOn(p, w) \cup (IF HasMain(p) THEN LiveOn(Main, w) ELSE {})
               q == [NoHook EXCEPT !.mode = "remove", !.step = "delete", !.project = p,
                                   !.waba = w, !.todo = found]
    <3>2. q.mode = "remove" /\ q.made = {} /\ \A j \in q.todo : j \in Ids /\ dash[j].live
      BY DEF NoHook, LiveOn
    <3>3. hook' = [hook EXCEPT ![h] = q] \/ hook' = [hook EXCEPT ![h] = NoHook]
      BY <3>1
    <3> HIDE DEF q
    <3> QED BY <2>0, <3>2, <3>3
  <2> QED BY <2>1, <2>2, <2>3
<1>5. Copying(q)'
  BY <1>2, <1>4 DEF Copying
<1>6. LostInv'
  <2>1. CASE HookDies(h)
    <3>1. lost' = IF r.step = "create" /\ r.source # 0 THEN lost \cup {<<r.target, r.item>>} ELSE lost
      BY <1>1, <2>1 DEF HookDies
    <3>2. r.step = "create" => LiveFor(r.target, r.item) = {}
      BY <1>1 DEF NumbersInv, ReplaceInv, Replaces
    <3>3. \A n \in lost' : n \in lost \/ (n[1] = r.target /\ n[2] = r.item /\ r.step = "create")
      BY <3>1
    <3> QED BY <1>3, <3>2, <3>3, CopiesOf DEF LostInv
  <2>2. CASE ~HookDies(h)
    <3>1. lost' = lost
      BY <2>2 DEF BeginSave, BeginRemove, ghosts
    <3> QED BY <1>3, <3>1, CopiesOf DEF LostInv
  <2> QED BY <2>1, <2>2
<1>7. ASSUME NEW i \in Ids, dash[i].live, HasMain(dash[i].project),
             ~CopyOn(dash[i].phone, dash[i].waba)', ~Exempt(dash[i].phone)'
      PROVE  FALSE
  <2>1. ~CopyOn(dash[i].phone, dash[i].waba) /\ ~Exempt(dash[i].phone)
    BY <1>2, <1>3, <1>7 DEF CopyOn, Exempt, LiveFor
  <2>2. Awaits(r, i) /\ Copying(r)
    BY <1>1, <1>7, <2>1, CopiesOf
  <2>3. r # NoHook
    BY <2>2 DEF Awaits, NoHook
  <2>4. unsure' = unsure \cup {dash[k].phone : k \in r.todo \cup r.made} \cup ({r.item} \ {None})
    BY <1>1, <2>3 DEF BeginSave, BeginRemove, HookDies
  <2>5. dash[i].phone # None /\ dash[i].phone \notin unsure'
    BY <1>2, <1>7, IdsFacts, NamesAssumption DEF Dashboards, Exempt
  <2>6. r.mode # "number"
    BY <2>2, <2>4, <2>5 DEF Copying, Awaits
  <2>7. dash[i].phone # r.item /\ i \notin r.made
    BY <2>4, <2>5
  <2> QED BY <2>2, <2>6, <2>7 DEF Awaits
<1> QED BY <1>2, <1>3, <1>4, <1>5, <1>6, <1>7, OneCopies

LEMMA FindNumberCopies ==
  ASSUME OneProcess, OneCaller, TypeInv, NumbersInv, CopyInv, NEW h \in Hooks, FindNumber(h)
  PROVE  CopyInv'
<1>1. PICK r : r = hook[h]
  OBVIOUS
<1>2. /\ UNCHANGED <<dash, lost, unsure>> /\ Ids' = Ids
      /\ r.step = "find" /\ r.mode \in {"number", "copies"}
  BY <1>1 DEF FindNumber, ghosts, Ids
<1>3. PICK step, source :
         /\ step \in {"create", "delete"}
         /\ hook' = [hook EXCEPT ![h].step = step, ![h].source = source]
  BY DEF FindNumber
<1>4. PICK q : q = [r EXCEPT !.step = step, !.source = source]
  OBVIOUS
<1>5. hook' = [hook EXCEPT ![h] = q] /\ r \in HookRecords(Ids)
  BY <1>1, <1>3, <1>4, IdsFacts DEF HookRecords
<1>6. /\ q.step = step /\ q.mode = r.mode /\ q.target = r.target /\ q.item = r.item /\ q.phone = r.phone
      /\ q.project = r.project /\ q.old = r.old /\ q.waba = r.waba /\ q.made = r.made /\ q.todo = r.todo
  BY <1>4, <1>5 DEF HookRecords
<1>7. /\ \A p, f : LiveFor(p, f)' = LiveFor(p, f)
      /\ \A f, w : CopyOn(f, w)' = CopyOn(f, w)
      /\ \A f : Exempt(f)' = Exempt(f)
  BY <1>2 DEF LiveFor, CopyOn, Exempt
<1>8. BoardsInv' /\ LostInv'
  BY <1>2, <1>7, CopiesOf DEF BoardsInv, LostInv
<1>9. Copying(r)
  BY <1>1, CopiesOf
<1>10. Copying(q)'
  BY <1>2, <1>6, <1>7, <1>9 DEF Copying
<1>11. ASSUME NEW i \in Ids, dash[i].live, HasMain(dash[i].project),
              ~CopyOn(dash[i].phone, dash[i].waba)', ~Exempt(dash[i].phone)'
       PROVE  Awaits(q, i)'
  <2>1. ~CopyOn(dash[i].phone, dash[i].waba) /\ ~Exempt(dash[i].phone)
    BY <1>2, <1>11 DEF CopyOn, Exempt, LiveFor
  <2>2. Awaits(r, i)
    BY <1>1, <1>11, <2>1, CopiesOf
  <2> QED BY <1>2, <1>6, <2>2 DEF Awaits
<1> QED BY <1>2, <1>5, <1>8, <1>10, <1>11, OneCopies

LEMMA FindWabaCopies ==
  ASSUME OneProcess, OneCaller, TypeInv, NumbersInv, CopyInv, NEW h \in Hooks, FindWaba(h)
  PROVE  CopyInv'
<1>1. PICK r : r = hook[h]
  OBVIOUS
<1>2. /\ UNCHANGED <<dash, lost, unsure>> /\ Ids' = Ids /\ r.step = "find" /\ r.mode = "waba"
  BY <1>1 DEF FindWaba, ghosts, Ids
<1>3. /\ r \in HookRecords(Ids) /\ HookWorks(r, Ids) /\ Migrates(r) /\ Copying(r)
  BY <1>1, <1>2, HookAt, CopiesOf DEF NumbersInv, MigrationInv
<1>4. /\ \A p, f : LiveFor(p, f)' = LiveFor(p, f)
      /\ \A p, w : LiveOn(p, w)' = LiveOn(p, w)
      /\ \A f, w : CopyOn(f, w)' = CopyOn(f, w)
  BY <1>2 DEF LiveFor, LiveOn, CopyOn
<1>5. BoardsInv' /\ LostInv' /\ SingleInv'
  BY <1>2, <1>4, CopiesOf DEF BoardsInv, LostInv, NumbersInv, SingleInv, NumberOf
<1> DEFINE found == LiveOn(r.target, r.old)
           copies == [r EXCEPT !.mode = "copies", !.todo = r.made]
           own == [r EXCEPT !.todo = found]
<1>6. Proceed(h, own) \/ (r.target # r.project /\ found = {} /\ Proceed(h, copies))
  BY <1>1 DEF FindWaba
<1>7. /\ r.target \in Projects /\ r.old \in Wabas /\ r.old # None
      /\ r.target = r.project \/ (r.target = Main /\ HasMain(r.project))
  BY <1>2, <1>3, NamesAssumption DEF HookWorks
<1>8. found \subseteq Ids /\ r.made \subseteq Ids
  BY <1>3 DEF LiveOn, HookRecords
<1>9. /\ \A j \in found : dash[j].live /\ dash[j].project = r.target /\ dash[j].waba = r.old
      /\ LiveOn(r.project, r.old) \subseteq (IF r.target = r.project THEN found ELSE {})
      /\ HasMain(r.project) /\ r.target # r.project => LiveOn(Main, r.old) = found
  BY <1>2, <1>3, <1>7 DEF Migrates, LeftOn, LiveOn
<1>10. /\ own \in HookRecords(Ids) /\ own.mode = "waba" /\ own.todo = found /\ own.old = r.old
       /\ own.project = r.project /\ own.target = r.target /\ own.made = r.made /\ own.waba = r.waba
       /\ HookWorks(own, Ids)
  BY <1>2, <1>3, <1>8 DEF HookRecords, HookWorks
<1>11. /\ copies \in HookRecords(Ids) /\ copies.mode = "copies" /\ copies.old = r.old
       /\ copies.project = r.project /\ copies.todo = r.made /\ copies.target = r.target
       /\ copies.made = r.made /\ copies.waba = r.waba
       /\ (r.target # r.project => HookWorks(copies, Ids))
  BY <1>2, <1>3, <1>8 DEF HookRecords, HookWorks
<1> HIDE DEF own, copies, found
<1>12. PICK s, q : /\ s = own \/ (s = copies /\ r.target # r.project /\ found = {})
                   /\ hook' = [hook EXCEPT ![h] = q] /\ Follows(s, q)
  BY <1>6, ProceedFollows
<1>13. /\ s \in HookRecords(Ids) /\ s.mode \in {"waba", "copies"} /\ s.todo \subseteq Ids /\ HookWorks(s, Ids)
       /\ s.old = r.old /\ s.project = r.project /\ s.made = r.made /\ s.waba = r.waba /\ s.target = r.target
  BY <1>8, <1>10, <1>11, <1>12
<1>14. Onward(s)
  <2>1. CASE s = own
    BY <1>9, <1>10, <2>1 DEF Onward
  <2>2. CASE s = copies /\ r.target # r.project /\ found = {}
    BY <1>9, <1>11, <2>2 DEF Onward
  <2> QED BY <1>12, <2>1, <2>2
<1>15. Onward(s)'
  BY <1>2, <1>4, <1>14 DEF Onward
<1>16. /\ \A k \in s.made : dash'[k].live /\ dash'[k].project = s.project /\ dash'[k].waba = s.waba
       /\ s.mode = "waba" => \A j \in s.todo : dash'[j].waba = s.old
       /\ s.mode = "copies" => s.todo \subseteq s.made
       /\ s.mode # "number" /\ s.mode \in Saves
  <2>1. \A k \in r.made : dash[k].live /\ dash[k].project = r.project /\ dash[k].waba = r.waba
    BY <1>2, <1>3 DEF Copying
  <2> QED BY <1>2, <1>9, <1>10, <1>11, <1>12, <1>13, <2>1 DEF Saves
<1>17. /\ Copying(q)'
       /\ HasMain(s.project) => \A i : Due(s, i)' => Awaits(q, i)'
  BY <1>2, <1>12, <1>13, <1>15, <1>16, FollowsCopies
<1>18. ASSUME NEW i \in Ids, dash[i].live, HasMain(dash[i].project),
              ~CopyOn(dash[i].phone, dash[i].waba)', ~Exempt(dash[i].phone)'
       PROVE  Awaits(q, i)'
  <2>1. ~CopyOn(dash[i].phone, dash[i].waba) /\ ~Exempt(dash[i].phone)
    BY <1>2, <1>18 DEF CopyOn, Exempt, LiveFor
  <2>2. Awaits(r, i)
    BY <1>1, <1>18, <2>1, CopiesOf
  <2>3. i \in r.made /\ CopyOn(dash[i].phone, r.old)
    BY <1>2, <2>2 DEF Awaits
  <2>4. HasMain(r.project)
    BY <1>3, <1>18, <2>3, CallerOf, CopiesOf DEF BoardsInv, HookWorks
  <2>5. s.mode = "waba"
    <3>1. CASE s = copies /\ r.target # r.project /\ found = {}
      <4>1. LiveOn(Main, r.old) = {}
        BY <1>9, <2>4, <3>1
      <4> QED BY <2>3, <4>1 DEF CopyOn, LiveOn, LiveFor
    <3>2. CASE s = own
      BY <1>10, <3>2
    <3> QED BY <1>12, <3>1, <3>2
  <2>6. Due(s, i)
    BY <1>13, <2>3, <2>5 DEF Due
  <2>7. Due(s, i)'
    BY <1>2, <1>4, <2>6 DEF Due
  <2> QED BY <1>13, <1>17, <2>4, <2>7
<1> QED BY <1>2, <1>5, <1>12, <1>17, <1>18, OneCopies

LEMMA DeleteCopies ==
  ASSUME OneProcess, OneCaller, TypeInv, NumbersInv, CopyInv, NEW h \in Hooks, DeleteDashboard(h)
  PROVE  CopyInv'
<1>1. PICK r, d : r = hook[h] /\ d = r.source
  OBVIOUS
<1>2. PICK q : q = [r EXCEPT !.step = "create"]
  OBVIOUS
<1>3. /\ r.step = "delete" /\ r.mode # "remove" /\ lost' = lost /\ unsure' = unsure
      /\ dash' = [dash EXCEPT ![d].live = FALSE] /\ hook' = [hook EXCEPT ![h] = q]
  BY <1>1, <1>2 DEF DeleteDashboard, ghosts
<1>4. /\ r \in HookRecords(Ids) /\ r.mode \in Saves /\ HookWorks(r, Ids) /\ Replaces(r) /\ Migrates(r)
      /\ Copying(r)
  BY <1>1, <1>3, HookAt, CopiesOf DEF NumbersInv, ReplaceInv, MigrationInv
<1>5. d \in Ids /\ dash[d].live /\ dash[d].project = r.target /\ dash[d].phone = r.item /\ d # 0
  BY <1>1, <1>3, <1>4, IdsFacts DEF Replaces, LiveFor
<1>6. /\ Ids' = Ids
      /\ \A j \in Ids : /\ dash'[j].project = dash[j].project /\ dash'[j].phone = dash[j].phone
                        /\ dash'[j].waba = dash[j].waba /\ (dash'[j].live <=> (dash[j].live /\ j # d))
  BY <1>3, <1>5, DeletedBoard
<1>7. /\ q.step = "create" /\ q.mode = r.mode /\ q.target = r.target /\ q.item = r.item
      /\ q.project = r.project /\ q.old = r.old /\ q.todo = r.todo /\ q.source = d
      /\ q.made = r.made /\ q.phone = r.phone /\ q.waba = r.waba
  BY <1>1, <1>2, <1>4 DEF HookRecords
<1>8. /\ \A p, f : LiveFor(p, f)' \subseteq LiveFor(p, f)
      /\ \A p, f : (p # r.target \/ f # r.item) => LiveFor(p, f)' = LiveFor(p, f)
  BY <1>5, <1>6 DEF LiveFor
<1>9. /\ \A f, w : CopyOn(f, w)' => CopyOn(f, w)
      /\ \A f, w : (Main # r.target \/ f # r.item) => CopyOn(f, w)' = CopyOn(f, w)
      /\ \A f : Exempt(f)' = Exempt(f)
  <2>1. \A p, f : \A j \in LiveFor(p, f) : j \in Ids
    BY DEF LiveFor
  <2> QED BY <1>3, <1>6, <1>8, <2>1 DEF CopyOn, Exempt
<1>10. BoardsInv' /\ LostInv'
  BY <1>3, <1>6, <1>8, CopiesOf DEF BoardsInv, LostInv
<1>11. r.target = r.project \/ (r.target = Main /\ HasMain(r.project))
  BY <1>4 DEF HookWorks, Saves
<1>12. ASSUME NEW i \in Ids, dash[i].live, HasMain(dash[i].project), dash[i].phone = r.item, i # d
       PROVE  dash[i].project = r.project /\ r.target = Main
  <2>1. dash[i].project = r.project
    BY <1>4, <1>12, CallerOf, CopiesOf DEF BoardsInv, HookWorks
  <2>2. r.target # r.project
    BY <1>5, <1>12, <2>1 DEF NumbersInv, SingleInv, NumberOf
  <2> QED BY <1>11, <2>1, <2>2
<1>13. Copying(q)'
  <2>1. r.mode \in {"waba", "copies"} =>
           \A k \in r.made : dash'[k].live /\ dash'[k].project = r.project /\ dash'[k].waba = r.waba
    <3> SUFFICES ASSUME r.mode \in {"waba", "copies"}, NEW k \in r.made
                 PROVE  dash'[k].live /\ dash'[k].project = r.project /\ dash'[k].waba = r.waba
      OBVIOUS
    <3>1. dash[k].live /\ dash[k].project = r.project /\ dash[k].waba = r.waba /\ k \in Ids
      BY <1>4 DEF Copying, HookRecords
    <3>2. k # d
      <4>1. CASE r.mode = "waba"
        BY <1>1, <1>3, <1>4, <3>1, <4>1 DEF Copying, HookWorks
      <4>2. CASE r.mode = "copies"
        BY <1>4, <1>5, <3>1, <4>2 DEF HookWorks
      <4> QED BY <4>1, <4>2
    <3> QED BY <1>6, <3>1, <3>2
  <2>2. r.mode = "copies" => r.todo \subseteq r.made /\ \E k \in r.made : dash'[k].phone = r.item
    <3>1. r.made \subseteq Ids
      BY <1>4 DEF HookRecords
    <3> QED BY <1>4, <1>6, <3>1 DEF Copying
  <2>3. r.mode = "waba" => \A j \in r.todo \cup {d} : dash'[j].waba = r.old
    <3>1. r.todo \subseteq Ids
      BY <1>4 DEF HookRecords
    <3> QED BY <1>1, <1>3, <1>4, <1>5, <1>6, <3>1 DEF Copying
  <2>4. r.mode = "number" /\ r.target # r.project =>
          \A i \in LiveFor(r.project, r.phone)' : dash'[i].waba = r.waba
    <3>1. \A i \in LiveFor(r.project, r.phone) : i \in Ids
      BY DEF LiveFor
    <3> QED BY <1>4, <1>6, <1>8, <3>1 DEF Copying
  <2>5. r.mode = "waba" => <<r.target, r.item>> \notin lost
    <3>1. d \in LiveFor(r.target, r.item)
      BY <1>5 DEF LiveFor
    <3>2. \A p, f : <<p, f>> \in lost => LiveFor(p, f) = {}
      BY CopiesOf DEF LostInv
    <3> QED BY <3>1, <3>2
  <2>6. ASSUME r.mode = "waba", r.target = r.project
        PROVE  HasMain(r.project) => Exempt(r.item) \/ CopyOn(r.item, r.old)'
    <3> SUFFICES ASSUME HasMain(r.project), ~Exempt(r.item) PROVE CopyOn(r.item, r.old)'
      OBVIOUS
    <3>1. dash[d].waba = r.old /\ r.old # r.waba
      BY <1>1, <1>3, <1>4, <2>6 DEF Copying, HookWorks
    <3>2. d \notin r.made
      BY <1>4, <2>6, <3>1 DEF Copying
    <3>3. CopyOn(r.item, r.old) \/ Awaits(r, d)
      BY <1>1, <1>5, <2>6, <3>1, CopiesOf
    <3>4. ~Awaits(r, d)
      BY <1>3, <2>6, <3>2 DEF Awaits
    <3>5. Main # r.target
      BY <2>6 DEF HasMain
    <3> QED BY <1>9, <3>3, <3>4, <3>5
  <2> QED BY <1>4, <1>5, <1>7, <1>9, <2>1, <2>2, <2>3, <2>4, <2>5, <2>6, <1>3 DEF Copying
<1>14. ASSUME NEW i \in Ids, dash'[i].live, HasMain(dash'[i].project),
              ~CopyOn(dash[i].phone, dash[i].waba)', ~Exempt(dash[i].phone)'
       PROVE  Awaits(q, i)'
  <2>1. PICK f, w : f = dash[i].phone /\ w = dash[i].waba
    OBVIOUS
  <2>2. /\ dash[i].live /\ i # d /\ HasMain(dash[i].project) /\ dash'[i].phone = f /\ dash'[i].waba = w
        /\ ~CopyOn(f, w)' /\ ~Exempt(f)
    BY <1>6, <1>9, <1>14, <2>1 DEF CopyOn, LiveFor, Exempt
  <2>3. CopyOn(f, w) \/ Awaits(r, i)
    BY <1>1, <2>1, <2>2, CopiesOf
  <2>4. CASE f # r.item
    <3>1. Awaits(r, i)
      BY <1>9, <2>2, <2>3, <2>4
    <3> QED BY <1>3, <1>7, <1>9, <2>1, <2>2, <2>4, <3>1 DEF Awaits
  <2>5. CASE f = r.item
    <3>1. dash[i].project = r.project /\ r.target = Main
      BY <1>12, <2>1, <2>2, <2>5
    <3>2. CASE r.mode = "number"
      BY <1>4, <1>7, <2>2, <2>5, <3>1, <3>2 DEF Awaits, Copying
    <3>3. CASE r.mode = "copies"
      <4>1. PICK k \in r.made : dash[k].phone = r.item /\ dash[k].live /\ dash[k].project = r.project
                                /\ dash[k].waba = r.waba /\ k \in Ids
        BY <1>4, <3>3 DEF Copying, HookRecords
      <4>2. k = i
        BY <2>1, <2>2, <2>5, <3>1, <4>1 DEF NumbersInv, SingleInv, NumberOf
      <4> QED BY <1>7, <2>1, <2>2, <2>5, <3>1, <3>3, <4>1, <4>2 DEF Awaits
    <3>4. CASE r.mode = "waba"
      <4>1. CASE CopyOn(f, w)
        <5>1. PICK j \in LiveFor(Main, f) : dash[j].waba = w
          BY <4>1 DEF CopyOn
        <5>2. j = d /\ dash[d].waba = r.old
          BY <1>1, <1>3, <1>4, <1>5, <2>5, <3>1, <3>4, <5>1
             DEF LiveFor, NumbersInv, SingleInv, NumberOf, Copying
        <5>3. i \in LiveOn(r.project, r.old)
          BY <2>1, <2>2, <3>1, <5>1, <5>2 DEF LiveOn
        <5>4. r.target # r.project /\ r.old # None
          BY <1>4, <2>2, <3>1, <3>4, NamesAssumption DEF HasMain, HookWorks
        <5> QED BY <1>4, <5>3, <5>4 DEF Migrates, LeftOn
      <4>2. CASE Awaits(r, i)
        <5>1. i \in r.made /\ dash[i].waba = r.waba
          BY <1>3, <1>4, <3>4, <4>2 DEF Awaits, Copying
        <5> QED BY <1>7, <2>1, <2>2, <2>5, <3>1, <3>4, <5>1 DEF Awaits
      <4> QED BY <2>3, <4>1, <4>2
    <3> QED BY <1>4, <3>2, <3>3, <3>4 DEF Saves
  <2> QED BY <2>4, <2>5
<1> QED BY <1>3, <1>6, <1>10, <1>13, <1>14, OneCopies

LEMMA CreateCopies ==
  ASSUME OneProcess, OneCaller, TypeInv, NumbersInv, CopyInv, NumbersInv', NEW h \in Hooks,
         CreateDashboard(h)
  PROVE  CopyInv'
<1>1. PICK r, new : r = hook[h] /\ new = Len(dash) + 1
  OBVIOUS
<1>2. /\ Ids' = Ids \cup {new} /\ new \notin Ids /\ \A i \in Ids : dash'[i] = dash[i]
      /\ dash'[new] = [project |-> r.target, phone |-> r.item, waba |-> r.waba, live |-> TRUE]
      /\ r \in HookRecords(Ids) /\ r.mode \in Saves /\ HookWorks(r, Ids) /\ r.todo \subseteq Ids
      /\ r.step = "create"
  BY <1>1, CreatedBoard
<1>3. /\ lost' = lost \ {<<r.target, r.item>>}
      /\ unsure' = IF r.mode = "number" /\ r.target # r.project THEN unsure \ {r.phone} ELSE unsure
  BY <1>1 DEF CreateDashboard
<1>4. /\ Replaces(r) /\ Migrates(r) /\ Copying(r) /\ LiveFor(r.target, r.item) = {}
  BY <1>1, <1>2, CopiesOf DEF NumbersInv, ReplaceInv, MigrationInv, Replaces
<1>5. /\ \A p, f : LiveFor(p, f) \subseteq LiveFor(p, f)'
      /\ \A p, f : (p # r.target \/ f # r.item) => LiveFor(p, f)' = LiveFor(p, f)
      /\ LiveFor(r.target, r.item)' = {new}
      /\ \A p, f : LiveFor(p, f) \subseteq Ids
  BY <1>2, <1>4 DEF LiveFor
<1>6. (\A f, w : CopyOn(f, w) => CopyOn(f, w)') /\ (r.target = Main => CopyOn(r.item, r.waba)')
  BY <1>2, <1>5 DEF CopyOn
<1>7. r.target = r.project \/ (r.target = Main /\ HasMain(r.project))
  BY <1>2 DEF HookWorks, Saves
<1>8. BoardsInv'
  BY <1>2, <1>7, CopiesOf DEF BoardsInv, HookWorks
<1>9. LostInv'
  <2>1. lost \subseteq Projects \X Phones
    BY DEF TypeInv, TypeOK, Numbers
  <2>2. \A n \in lost' : LiveFor(n[1], n[2]) = {} /\ (n[1] # r.target \/ n[2] # r.item)
    BY <1>3, <2>1, CopiesOf DEF LostInv
  <2> QED BY <1>5, <2>2 DEF LostInv
<1>10. PICK s \in HookRecords(Ids'), q \in HookRecords(Ids') :
        /\ hook' = [hook EXCEPT ![h] = q] /\ Follows(s, q) /\ HookWorks(s, Ids')
        /\ \E made : /\ s = [r EXCEPT !.made = made]
                     /\ IF r.mode = "waba" /\ r.target = r.project
                        THEN made = r.made \cup {new} ELSE made = r.made
  BY <1>1, CreateFollows
<1>11. /\ s.mode = r.mode /\ s.todo = r.todo /\ s.target = r.target /\ s.project = r.project
       /\ s.old = r.old /\ s.waba = r.waba /\ s.phone = r.phone /\ s.item = r.item
       /\ IF r.mode = "waba" /\ r.target = r.project THEN s.made = r.made \cup {new} ELSE s.made = r.made
  BY <1>2, <1>10 DEF HookRecords
<1>12. Onward(s)'
  <2>1. ASSUME r.mode = "waba", NEW j \in r.todo PROVE dash'[j].live /\ dash'[j].project = r.target
    BY <1>2, <1>4, <2>1 DEF Replaces
  <2>2. ASSUME r.old # None, NEW p PROVE LiveOn(p, r.old)' = LiveOn(p, r.old)
    <3>1. r.waba # r.old
      BY <1>2 DEF HookWorks
    <3> QED BY <1>2, <3>1 DEF LiveOn
  <2>3. ASSUME r.old # None
        PROVE  LiveOn(r.project, r.old) \subseteq
                 (IF r.mode = "waba" /\ r.target = r.project THEN r.todo ELSE {})
    BY <1>2, <1>4, <1>7, <2>3 DEF Migrates, LeftOn
  <2>4. ASSUME r.old # None, HasMain(r.project), ~(r.mode = "waba" /\ r.target = r.project)
        PROVE  LiveOn(Main, r.old) \subseteq (IF r.mode = "waba" THEN r.todo ELSE {})
    BY <1>2, <1>4, <1>7, <2>4 DEF Migrates, LeftOn, HasMain
  <2> QED BY <1>11, <2>1, <2>2, <2>3, <2>4 DEF Onward
<1>13. /\ s.mode = "number" => \A i \in LiveFor(s.project, s.phone)' : dash'[i].waba = s.waba
       /\ s.mode \in {"waba", "copies"} =>
            \A k \in s.made : dash'[k].live /\ dash'[k].project = s.project /\ dash'[k].waba = s.waba
       /\ s.mode = "waba" => \A j \in s.todo : dash'[j].waba = s.old
       /\ s.mode = "copies" => s.todo \subseteq s.made
  <2>1. ASSUME r.mode = "number", NEW i \in LiveFor(r.project, r.phone)' PROVE dash'[i].waba = r.waba
    <3>1. r.item = r.phone
      BY <1>4, <2>1 DEF Copying
    <3>2. CASE r.target = r.project
      BY <1>2, <1>5, <2>1, <3>1, <3>2
    <3>3. CASE r.target # r.project
      BY <1>2, <1>4, <1>5, <2>1, <3>3 DEF Copying
    <3> QED BY <3>2, <3>3
  <2>2. ASSUME r.mode \in {"waba", "copies"}, NEW k \in s.made
        PROVE  dash'[k].live /\ dash'[k].project = r.project /\ dash'[k].waba = r.waba
    <3>1. CASE k \in r.made
      <4>1. k \in Ids
        BY <1>2, <3>1 DEF HookRecords
      <4> QED BY <1>2, <1>4, <2>2, <3>1, <4>1 DEF Copying
    <3>2. CASE k \notin r.made
      BY <1>2, <1>11, <2>2, <3>2
    <3> QED BY <3>1, <3>2
  <2>3. r.mode = "waba" => \A j \in r.todo : dash'[j].waba = r.old
    BY <1>2, <1>4 DEF Copying
  <2>4. r.mode = "copies" => s.todo \subseteq s.made
    BY <1>4, <1>11 DEF Copying
  <2> QED BY <1>11, <2>1, <2>2, <2>3, <2>4
<1>14. /\ Copying(q)'
       /\ HasMain(s.project) => \A i : Due(s, i)' => Awaits(q, i)'
  BY <1>2, <1>10, <1>11, <1>12, <1>13, FollowsCopies
<1>15. ASSUME NEW i \in Ids', dash'[i].live, HasMain(dash'[i].project),
              ~CopyOn(dash[i].phone, dash[i].waba)', ~Exempt(dash[i].phone)'
       PROVE  Due(s, i)'
  <2>1. PICK f, w : f = dash'[i].phone /\ w = dash'[i].waba
    OBVIOUS
  <2>2. ~CopyOn(f, w)' /\ ~CopyOn(f, w)
    BY <1>6, <1>15, <2>1 DEF CopyOn, LiveFor
  <2>3. <<Main, f>> \notin lost' /\ f \notin unsure'
    BY <1>15, <2>1 DEF Exempt
  <2>4. CASE i = new
    <3>1. r.target = r.project /\ f = r.item /\ HasMain(r.project)
      BY <1>2, <1>7, <1>15, <2>1, <2>4 DEF HasMain
    <3>2. r.mode = "waba" \/ r.mode = "number"
      BY <1>2, <3>1 DEF HookWorks, Saves
    <3>3. CASE r.mode = "number"
      BY <1>4, <1>11, <2>1, <3>1, <3>3 DEF Due, Copying
    <3>4. CASE r.mode = "waba"
      <4>1. Exempt(f) \/ CopyOn(f, r.old)
        BY <1>2, <1>4, <3>1, <3>4 DEF Copying
      <4>2. ~Exempt(f)
        BY <1>3, <2>3, <3>1 DEF Exempt, HasMain
      <4> QED BY <1>6, <1>11, <2>1, <2>4, <3>1, <3>4, <4>1, <4>2 DEF Due
    <3> QED BY <3>2, <3>3, <3>4
  <2>5. CASE i \in Ids
    <3>1. dash'[i] = dash[i] /\ dash[i].live /\ HasMain(dash[i].project)
      BY <1>2, <1>15, <2>5
    <3>2. dash[i].project = r.project /\ HasMain(r.project)
      BY <1>2, <2>5, <3>1, CallerOf, CopiesOf DEF BoardsInv, HookWorks
    <3>3. CASE r.target = Main /\ f = r.item
      <4>1. w # r.waba
        BY <1>6, <2>2, <3>3
      <4>2. CASE r.mode = "number"
        BY <1>2, <1>4, <2>1, <2>5, <3>1, <3>2, <3>3, <4>1, <4>2 DEF Copying, LiveFor, HasMain
      <4>3. CASE r.mode = "copies"
        <5>1. PICK k \in r.made : dash[k].phone = r.item /\ dash[k].live /\ dash[k].project = r.project
                                  /\ dash[k].waba = r.waba /\ k \in Ids
          BY <1>2, <1>4, <4>3 DEF Copying, HookRecords
        <5>2. k = i
          BY <2>1, <2>5, <3>1, <3>2, <3>3, <5>1 DEF NumbersInv, SingleInv, NumberOf
        <5> QED BY <2>1, <3>1, <4>1, <5>1, <5>2
      <4>4. CASE r.mode = "waba"
        <5>1. ~Exempt(f)
          BY <1>2, <1>3, <1>4, <2>3, <3>3, <4>4 DEF Exempt, Copying
        <5>2. Awaits(r, i)
          BY <1>1, <2>1, <2>2, <2>5, <3>1, <5>1, CopiesOf
        <5>3. i \in r.made
          BY <2>1, <3>1, <4>1, <4>4, <5>2 DEF Awaits
        <5> QED BY <1>4, <2>1, <3>1, <4>1, <4>4, <5>3 DEF Copying
      <4> QED BY <1>2, <4>2, <4>3, <4>4 DEF Saves
    <3>4. CASE ~(r.target = Main /\ f = r.item)
      <4>1. ~Exempt(f)
        <5>1. <<Main, f>> \notin lost
          BY <1>3, <2>3, <3>4
        <5>2. f \notin unsure
          BY <1>3, <1>4, <1>7, <2>3, <3>4 DEF Copying
        <5> QED BY <5>1, <5>2 DEF Exempt
      <4>2. Awaits(r, i)
        BY <1>1, <2>1, <2>2, <2>5, <3>1, <4>1, CopiesOf
      <4>3. r.mode = "waba" /\ i \in r.made /\ CopyOn(f, r.old)
        BY <1>4, <2>1, <3>1, <3>4, <4>2 DEF Awaits, Copying
      <4> QED BY <1>6, <1>11, <2>1, <4>3 DEF Due
    <3> QED BY <3>3, <3>4
  <2> QED BY <1>2, <2>4, <2>5
<1>16. ASSUME NEW i \in Ids', dash'[i].live, HasMain(dash'[i].project),
              ~CopyOn(dash[i].phone, dash[i].waba)', ~Exempt(dash[i].phone)'
       PROVE  Awaits(q, i)'
  <2>1. HasMain(r.project)
    <3>1. r.project \in Callers /\ dash'[i].project \in Callers \cup {Main}
      BY <1>2, <1>8, <1>16 DEF HookWorks, BoardsInv
    <3> QED BY <1>16, <3>1, CallerOf
  <2> QED BY <1>11, <1>14, <1>15, <1>16, <2>1
<1> QED BY <1>8, <1>9, <1>10, <1>14, <1>16, OneCopies

LEMMA RemoveCopies ==
  ASSUME OneProcess, OneCaller, TypeInv, NumbersInv, CopyInv, NEW h \in Hooks, RemoveDashboard(h)
  PROVE  CopyInv'
<1>1. hook[h].step = "delete" /\ hook[h].mode = "remove" /\ unsure' = unsure
  BY DEF RemoveDashboard
<1>2. hook[h] \in HookRecords(Ids) /\ HookWorks(hook[h], Ids)
  BY <1>1, HookAt
<1>3. PICK d, q :
        /\ d \in hook[h].todo
        /\ dash' = [dash EXCEPT ![d].live = FALSE] /\ lost' = lost \cup {NumberOf(d)}
        /\ hook' = [hook EXCEPT ![h] = q]
        /\ q = NoHook \/ q = [hook[h] EXCEPT !.todo = hook[h].todo \ {d}]
  <2>1. PICK i \in hook[h].todo :
        /\ dash' = [dash EXCEPT ![i].live = FALSE] /\ lost' = lost \cup {NumberOf(i)}
        /\ hook' = [hook EXCEPT ![h] = IF hook[h].todo = {i} THEN NoHook
                                       ELSE [hook[h] EXCEPT !.todo = hook[h].todo \ {i}]]
    BY DEF RemoveDashboard
  <2>2. CASE hook[h].todo = {i}
    BY <2>1, <2>2
  <2>3. CASE hook[h].todo # {i}
    BY <2>1, <2>3
  <2> QED BY <2>2, <2>3
<1>4. d \in Ids
  BY <1>2, <1>3 DEF HookRecords
<1>5. /\ Ids' = Ids
      /\ \A j \in Ids : /\ dash'[j].project = dash[j].project /\ dash'[j].phone = dash[j].phone
                        /\ dash'[j].waba = dash[j].waba /\ (dash'[j].live <=> (dash[j].live /\ j # d))
  BY <1>3, <1>4, DeletedBoard
<1>6. q.mode = "none" \/ q.mode = "remove"
  <2>1. CASE q = NoHook
    BY <2>1 DEF NoHook
  <2>2. CASE q = [hook[h] EXCEPT !.todo = hook[h].todo \ {d}]
    BY <1>1, <1>2, <2>2 DEF HookRecords
  <2> QED BY <1>3, <2>1, <2>2
<1>7. hook[h].todo \subseteq Ids /\ \A j \in hook[h].todo : dash[j].live
  BY <1>1, CopiesOf DEF Copying
<1>8. Copying(q)'
  <2>1. q.mode = "remove" => q.todo = hook[h].todo \ {d}
    <3>1. CASE q = NoHook
      BY <3>1 DEF NoHook
    <3>2. CASE q = [hook[h] EXCEPT !.todo = hook[h].todo \ {d}]
      BY <1>2, <3>2 DEF HookRecords
    <3> QED BY <1>3, <3>1, <3>2
  <2>2. q.mode = "remove" => \A j \in q.todo : j \in Ids' /\ dash'[j].live
    BY <1>5, <1>7, <2>1
  <2> QED BY <1>6, <2>2 DEF Copying
<1>9. BoardsInv'
  BY <1>5, CopiesOf DEF BoardsInv
<1>10. LostInv'
  <2>1. ASSUME NEW n \in lost, NEW j \in LiveFor(n[1], n[2])' PROVE FALSE
    <3>1. j \in LiveFor(n[1], n[2])
      BY <1>5, <2>1 DEF LiveFor
    <3> QED BY <3>1, CopiesOf DEF LostInv
  <2>2. ASSUME NEW n, n = NumberOf(d), NEW j \in LiveFor(n[1], n[2])' PROVE FALSE
    <3>1. j \in Ids /\ dash[j].live /\ j # d /\ dash[j].project = dash[d].project /\ dash[j].phone = dash[d].phone
      BY <1>4, <1>5, <2>2 DEF LiveFor, NumberOf
    <3> QED BY <1>3, <1>4, <1>7, <3>1 DEF NumbersInv, SingleInv, NumberOf
  <2> QED BY <1>3, <2>1, <2>2 DEF LostInv
<1>11. ASSUME NEW i \in Ids', dash'[i].live, HasMain(dash'[i].project),
              ~CopyOn(dash[i].phone, dash[i].waba)', ~Exempt(dash[i].phone)'
       PROVE  FALSE
  <2>1. PICK f, w : f = dash[i].phone /\ w = dash[i].waba
    OBVIOUS
  <2>2. /\ dash[i].live /\ i # d /\ HasMain(dash[i].project) /\ dash'[i].phone = f /\ dash'[i].waba = w
        /\ <<Main, f>> \notin lost' /\ f \notin unsure' /\ i \in Ids
    BY <1>5, <1>11, <2>1 DEF Exempt
  <2>3. CopyOn(f, w)
    <3>1. ~Exempt(f)
      BY <1>1, <1>3, <2>2 DEF Exempt
    <3>2. ~Awaits(hook[h], i)
      BY <1>1 DEF Awaits
    <3> QED BY <2>1, <2>2, <3>1, <3>2, CopiesOf
  <2>4. PICK j \in LiveFor(Main, f) : dash[j].waba = w
    BY <2>3 DEF CopyOn
  <2>5. j # d
    BY <1>3, <2>2, <2>4 DEF LiveFor, NumberOf
  <2>6. j \in LiveFor(Main, f)' /\ dash'[j].waba = w
    BY <1>5, <2>4, <2>5 DEF LiveFor
  <2>7. CopyOn(dash[i].phone, dash[i].waba)'
    BY <2>2, <2>6 DEF CopyOn, LiveFor
  <2> QED BY <1>11, <2>7
<1> QED BY <1>3, <1>5, <1>8, <1>9, <1>10, <1>11, OneCopies

LEMMA NextKeepsCopies ==
  ASSUME OneProcess, OneCaller, TypeInv, NumbersInv, CopyInv, NumbersInv', [Next]_vars
  PROVE  CopyInv'
<1>1. CASE \E h \in Hooks : BeginSave(h) \/ BeginRemove(h) \/ HookStep(h) \/ HookDies(h)
  BY <1>1, BeginCopies, FindNumberCopies, FindWabaCopies, DeleteCopies, CreateCopies, RemoveCopies
     DEF HookStep
<1>2. CASE ~\E h \in Hooks : BeginSave(h) \/ BeginRemove(h) \/ HookStep(h) \/ HookDies(h)
  <2>1. UNCHANGED <<dash, hook, lost, unsure>>
    BY <1>2, OthersLeaveNumbers DEF Next
  <2>2. Ids' = Ids /\ \A p, f : LiveFor(p, f)' = LiveFor(p, f)
    BY <2>1 DEF Ids, LiveFor
  <2>3. (\A f, w : CopyOn(f, w)' = CopyOn(f, w)) /\ \A f : Exempt(f)' = Exempt(f)
    BY <2>1, <2>2 DEF CopyOn, Exempt
  <2>4. BoardsInv' /\ LostInv'
    BY <2>1, <2>2 DEF CopyInv, BoardsInv, LostInv
  <2>5. ASSUME NEW g \in Hooks PROVE Copying(hook[g])'
    <3>1. Copying(hook[g])
      BY DEF CopyInv
    <3> QED BY <2>1, <2>2, <2>3, <3>1 DEF Copying
  <2>6. ASSUME NEW g \in Hooks, NEW i PROVE Awaits(hook[g], i)' = Awaits(hook[g], i)
    BY <2>1, <2>3 DEF Awaits
  <2>7. CopiedInv'
    BY <2>1, <2>2, <2>3, <2>6 DEF CopyInv, CopiedInv
  <2> QED BY <2>4, <2>5, <2>7 DEF CopyInv
<1> QED BY <1>1, <1>2

LEMMA InitCopies == Init => CopyInv
BY DEF Init, CopyInv, BoardsInv, LostInv, Copying, CopiedInv, Ids, NoHook

\* When the webhooks of one project save the numbers, and one process serves them,
\* the main project has, between webhooks, a copy of each number on its WABA, but
\* for numbers removed and those of webhooks that died and were not repeated.
THEOREM CopiesAreKept ==
  ASSUME OneProcess, OneCaller
  PROVE  Spec => []MainHasCopies
<1>1. CopyInv => MainHasCopies
  BY DEF CopyInv, CopiedInv, MainHasCopies, CopyOn, Exempt, Awaits, NoHook
<1>2. TypeInv /\ [Next]_vars => TypeInv'
  BY NextKeepsTypes
<1>3. TypeInv /\ NumbersInv /\ [Next]_vars => NumbersInv'
  BY NextKeepsNumbers
<1>4. TypeInv /\ NumbersInv /\ CopyInv /\ NumbersInv' /\ [Next]_vars => CopyInv'
  BY NextKeepsCopies
<1> QED BY <1>1, <1>2, <1>3, <1>4, InitTypes, InitNumbers, InitCopies, PTL DEF Spec
=============================================================================
