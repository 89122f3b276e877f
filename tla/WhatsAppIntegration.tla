------------------------- MODULE WhatsAppIntegration -------------------------
(***************************************************************************)
(* The dashboards that stand for the WhatsApp numbers of an organization.  *)
(* A webhook saves a number, migrates the numbers of one WABA to another   *)
(* or removes those of a WABA; the main project of the organization has a  *)
(* copy of each.  A dashboard is never changed: it is soft-deleted and     *)
(* another is created.  The favourite templates of a migrated dashboard    *)
(* follow in a celery task, while users add and remove favourites.         *)
(*                                                                         *)
(* Every query and save of a webhook or of a task is a step of its own:    *)
(* none runs in a transaction.  Of a dashboard's config the number and its *)
(* WABA are kept; a favourite is the name of its template, which stands    *)
(* for the template's id on the WABA.                                      *)
(***************************************************************************)
EXTENDS Integers, Sequences, FiniteSets

CONSTANTS
    Projects,
    Main,          \* the main project of the organization, or None
    Callers,       \* projects the webhooks name
    Phones, Wabas, Templates,
    None,
    OnWaba,        \* the templates each WABA has
    Hooks,         \* web processes that serve webhooks
    Users,         \* web processes that serve the addition of a favourite
    Slots,         \* celery slots
    Limit,         \* FAVORITE_TEMPLATE_LIMIT_PER_DASHBOARD
    MaxTries,      \* runs of move_favorite_templates, the first and its retries
    MaxWebhooks,   \* bound: webhooks received
    MaxAdditions,  \* bound: favourites users ask for
    MaxFaults      \* bound: requests and tasks that raise or die

ASSUME NamesAssumption ==
    /\ None \notin Projects \cup Wabas \cup Phones \cup Templates
    /\ Main \in Projects \cup {None} /\ Callers \subseteq Projects
    /\ OnWaba \in [Wabas -> SUBSET Templates]
    /\ IsFiniteSet(Users) /\ IsFiniteSet(Slots) /\ IsFiniteSet(Templates)
ASSUME BoundsAssumption ==
    /\ Limit \in Nat \ {0} /\ MaxTries \in Nat \ {0}
    /\ MaxWebhooks \in Nat /\ MaxAdditions \in Nat /\ MaxFaults \in Nat

VARIABLES
    dash,      \* the dashboards, live and deleted, in the order of creation
    favs,      \* the favourites of each
    hook,      \* the webhook each process serves
    webhooks,  \* webhooks received
    adding,    \* the favourite each user process is about to create
    additions, \* favourites asked for
    moves,     \* move_favorite_templates tasks in the queue
    slot,      \* the task of each slot
    lost,      \* numbers removed, or whose dashboard a dead webhook deleted
    unsure,    \* numbers a dead webhook may have left apart from their copies
    spoiled,   \* dashboards whose task was lost or ran out of retries
    faults

hookVars == <<hook, webhooks>>
userVars == <<adding, additions>>
taskVars == <<moves, slot>>
ghosts   == <<lost, unsure, spoiled>>
vars == <<dash, favs, hookVars, userVars, taskVars, ghosts, faults>>

Ids == 1..Len(dash)
MaxIds == (MaxWebhooks + 1) * 2 * Cardinality(Phones)
Numbers == Projects \X Phones

Dashboards == [project: Projects, phone: Phones, waba: Wabas, live: BOOLEAN]

NoHook == [mode |-> "none", step |-> "idle", project |-> None, waba |-> None, phone |-> None,
           old |-> None, target |-> None, item |-> None, todo |-> {}, source |-> 0, made |-> {}]
NoAddition == [to |-> 0, template |-> None]
NoMove == [step |-> "idle", from |-> 0, to |-> 0, tries |-> 1, todo |-> {}, template |-> None]

TypeOK ==
    /\ dash \in Seq(Dashboards)
    /\ favs \in [Ids -> SUBSET Templates]
    /\ hook \in [Hooks ->
         [mode: {"none", "number", "waba", "copies", "remove"},
          step: {"idle", "find", "delete", "create"},
          project: Callers \cup {None}, waba: Wabas \cup {None}, phone: Phones \cup {None},
          old: Wabas \cup {None}, target: Projects \cup {None}, item: Phones \cup {None},
          todo: SUBSET Ids, source: Ids \cup {0}, made: SUBSET Ids]]
    /\ webhooks \in 0..MaxWebhooks /\ additions \in 0..MaxAdditions /\ faults \in 0..MaxFaults
    /\ adding \in [Users -> [to: Ids \cup {0}, template: Templates \cup {None}]]
    /\ moves \subseteq [from: Ids, to: Ids, tries: 1..MaxTries]
    /\ slot \in [Slots ->
         [step: {"idle", "read", "count", "create"}, from: Ids \cup {0}, to: Ids \cup {0},
          tries: 1..MaxTries, todo: SUBSET Templates, template: Templates \cup {None}]]
    /\ lost \subseteq Numbers /\ unsure \subseteq Phones /\ spoiled \subseteq Ids

Init ==
    /\ dash = <<>> /\ favs = <<>>
    /\ hook = [h \in Hooks |-> NoHook] /\ webhooks = 0
    /\ adding = [u \in Users |-> NoAddition] /\ additions = 0
    /\ moves = {} /\ slot = [s \in Slots |-> NoMove]
    /\ lost = {} /\ unsure = {} /\ spoiled = {} /\ faults = 0

Fault == faults < MaxFaults /\ faults' = faults + 1

LiveOn(p, w) == {i \in Ids : dash[i].live /\ dash[i].project = p /\ dash[i].waba = w}
LiveFor(p, f) == {i \in Ids : dash[i].live /\ dash[i].project = p /\ dash[i].phone = f}
NumberOf(i) == <<dash[i].project, dash[i].phone>>

\* The project has a main project other than itself.
HasMain(p) == Main \notin {None, p}

-----------------------------------------------------------------------------
(* SaveWhatsappIntegrationUseCase                                          *)

\* Without an old WABA the dashboard is looked for by its number.
BeginSave(h) ==
    /\ hook[h] = NoHook /\ webhooks < MaxWebhooks
    /\ webhooks' = webhooks + 1
    /\ \E p \in Callers, w \in Wabas, f \in Phones, old \in Wabas \cup {None} :
        /\ old # w
        /\ hook' = [hook EXCEPT ![h] =
             [NoHook EXCEPT !.mode = IF old = None THEN "number" ELSE "waba",
                            !.step = "find", !.project = p, !.waba = w, !.phone = f,
                            !.old = old, !.target = p, !.item = f]]
    /\ UNCHANGED <<dash, favs, userVars, taskVars, ghosts, faults>>

\* What follows when every dashboard of the target is done: a migration goes on
\* to the main project and, when it has created nothing, saves the number.
NextPhase(r) ==
    LET number(p) == [r EXCEPT !.mode = "number", !.step = "find", !.target = p, !.item = r.phone]
        end == IF r.made = {} THEN number(r.project) ELSE NoHook
    IN CASE r.mode = "number" ->
              IF r.target = r.project /\ HasMain(r.project) THEN number(Main) ELSE NoHook
         [] r.mode = "waba" ->
              IF r.target = r.project /\ HasMain(r.project)
              THEN [r EXCEPT !.step = "find", !.target = Main] ELSE end
         [] r.mode = "copies" -> end

\* On to a dashboard of the list, or to the next phase.
Proceed(h, r) ==
    IF r.todo = {} THEN hook' = [hook EXCEPT ![h] = NextPhase(r)]
    ELSE \E i \in r.todo :
        hook' = [hook EXCEPT ![h] =
          [r EXCEPT !.item = dash[i].phone, !.todo = @ \ {i}, !.source = i,
                    !.step = IF r.mode = "waba" THEN "delete" ELSE "find"]]

\* Mutant of FindNumber: the WABA is enough to replace a dashboard.
FindNumberByWaba(h) ==
    /\ hook[h].step = "find" /\ hook[h].mode \in {"number", "copies"}
    /\ LET found == LiveOn(hook[h].target, hook[h].waba) IN
       \/ /\ found = {}
          /\ hook' = [hook EXCEPT ![h].step = "create", ![h].source = 0]
       \/ \E i \in found : hook' = [hook EXCEPT ![h].step = "delete", ![h].source = i]
    /\ UNCHANGED <<dash, favs, webhooks, userVars, taskVars, ghosts, faults>>

\* _upsert_by_phone, and a copy the main project lacks on the old WABA.
FindNumber(h) ==
    /\ hook[h].step = "find" /\ hook[h].mode \in {"number", "copies"}
    /\ LET found == LiveFor(hook[h].target, hook[h].item) IN
       \/ /\ found = {}
          /\ hook' = [hook EXCEPT ![h].step = "create", ![h].source = 0]
       \/ \E i \in found : hook' = [hook EXCEPT ![h].step = "delete", ![h].source = i]
    /\ UNCHANGED <<dash, favs, webhooks, userVars, taskVars, ghosts, faults>>

\* Mutant of FindWaba: the copies of the main project are left as they are.
FindWabaOwnOnly(h) ==
    /\ hook[h].step = "find" /\ hook[h].mode = "waba"
    /\ LET r == hook[h] IN
       IF r.target = r.project THEN Proceed(h, [r EXCEPT !.todo = LiveOn(r.target, r.old)])
       ELSE hook' = [hook EXCEPT ![h] = NextPhase([r EXCEPT !.mode = "copies"])]
    /\ UNCHANGED <<dash, favs, webhooks, userVars, taskVars, ghosts, faults>>

\* Mutant of FindWaba: the first dashboard on the old WABA stands for all.
FindWabaFirst(h) ==
    /\ hook[h].step = "find" /\ hook[h].mode = "waba"
    /\ LET r == hook[h]
           found == LiveOn(r.target, r.old)
       IN IF found = {} /\ r.target # r.project
          THEN Proceed(h, [r EXCEPT !.mode = "copies", !.todo = r.made])
          ELSE Proceed(h, [r EXCEPT !.todo = {i \in found : \A j \in found : i <= j}])
    /\ UNCHANGED <<dash, favs, webhooks, userVars, taskVars, ghosts, faults>>

\* The dashboards of the target on the old WABA.  A main project that has none
\* gets a copy of each dashboard the migration has created.
FindWaba(h) ==
    /\ hook[h].step = "find" /\ hook[h].mode = "waba"
    /\ LET r == hook[h]
           found == LiveOn(r.target, r.old)
       IN IF found = {} /\ r.target # r.project
          THEN Proceed(h, [r EXCEPT !.mode = "copies", !.todo = r.made])
          ELSE Proceed(h, [r EXCEPT !.todo = found])
    /\ UNCHANGED <<dash, favs, webhooks, userVars, taskVars, ghosts, faults>>

DeleteDashboard(h) ==
    /\ hook[h].step = "delete" /\ hook[h].mode # "remove"
    /\ dash' = [dash EXCEPT ![hook[h].source].live = FALSE]
    /\ hook' = [hook EXCEPT ![h].step = "create"]
    /\ UNCHANGED <<favs, webhooks, userVars, taskVars, ghosts, faults>>

\* A migrated dashboard keeps its own number.
CreateDashboard(h) ==
    /\ hook[h].step = "create"
    /\ LET r == hook[h]
           new == Len(dash) + 1
       IN /\ dash' = Append(dash, [project |-> r.target, phone |-> r.item, waba |-> r.waba,
                                   live |-> TRUE])
          /\ favs' = Append(favs, {})
          /\ moves' = IF r.source # 0 /\ r.old # None
                      THEN moves \cup {[from |-> r.source, to |-> new, tries |-> 1]} ELSE moves
          /\ lost' = lost \ {<<r.target, r.item>>}
          /\ unsure' = IF r.mode = "number" /\ r.target # r.project THEN unsure \ {r.phone}
                       ELSE unsure
          /\ IF r.mode = "waba" /\ r.target = r.project
             THEN Proceed(h, [r EXCEPT !.made = @ \cup {new}])
             ELSE Proceed(h, r)
    /\ UNCHANGED <<webhooks, userVars, slot, spoiled, faults>>

-----------------------------------------------------------------------------
(* RemoveWhatsappIntegrationUseCase                                        *)

BeginRemove(h) ==
    /\ hook[h] = NoHook /\ webhooks < MaxWebhooks
    /\ webhooks' = webhooks + 1
    /\ \E p \in Callers, w \in Wabas :
         LET found == LiveOn(p, w) \cup (IF HasMain(p) THEN LiveOn(Main, w) ELSE {})
         IN hook' = [hook EXCEPT ![h] =
              IF found = {} THEN NoHook
              ELSE [NoHook EXCEPT !.mode = "remove", !.step = "delete", !.project = p,
                                  !.waba = w, !.todo = found]]
    /\ UNCHANGED <<dash, favs, userVars, taskVars, ghosts, faults>>

RemoveDashboard(h) ==
    /\ hook[h].step = "delete" /\ hook[h].mode = "remove"
    /\ \E i \in hook[h].todo :
        /\ dash' = [dash EXCEPT ![i].live = FALSE]
        /\ lost' = lost \cup {NumberOf(i)}
        /\ hook' = [hook EXCEPT ![h] = IF hook[h].todo = {i} THEN NoHook
                                       ELSE [hook[h] EXCEPT !.todo = @ \ {i}]]
    /\ UNCHANGED <<favs, webhooks, userVars, taskVars, unsure, spoiled, faults>>

\* A query raises, which the view answers with 500, or the process dies.
HookDies(h) ==
    /\ hook[h] # NoHook /\ Fault
    /\ LET r == hook[h] IN
       /\ lost' = IF r.step = "create" /\ r.source # 0
                  THEN lost \cup {<<r.target, r.item>>} ELSE lost
       /\ unsure' = unsure \cup {dash[i].phone : i \in r.todo \cup r.made}
                           \cup ({r.item} \ {None})
    /\ hook' = [hook EXCEPT ![h] = NoHook]
    /\ UNCHANGED <<dash, favs, webhooks, userVars, taskVars, spoiled>>

-----------------------------------------------------------------------------
(* The favourites users add and remove.                                    *)

\* Mutant of CheckAddition: the serializer checks no limit.
CheckAdditionUnlimited(u) ==
    /\ adding[u] = NoAddition /\ additions < MaxAdditions
    /\ additions' = additions + 1
    /\ \E i \in Ids : \E t \in OnWaba[dash[i].waba] \ favs[i] :
        /\ dash[i].live
        /\ adding' = [adding EXCEPT ![u] = [to |-> i, template |-> t]]
    /\ UNCHANGED <<dash, favs, hookVars, taskVars, ghosts, faults>>

\* The serializer checks the limit; then Meta is asked for the template's name.
CheckAddition(u) ==
    /\ adding[u] = NoAddition /\ additions < MaxAdditions
    /\ additions' = additions + 1
    /\ \E i \in Ids : \E t \in OnWaba[dash[i].waba] \ favs[i] :
        /\ dash[i].live /\ Cardinality(favs[i]) < Limit
        /\ adding' = [adding EXCEPT ![u] = [to |-> i, template |-> t]]
    /\ UNCHANGED <<dash, favs, hookVars, taskVars, ghosts, faults>>

\* The row is created, unless a task has done so; the dashboard may be deleted.
CreateAddition(u) ==
    /\ adding[u] # NoAddition
    /\ favs' = [favs EXCEPT ![adding[u].to] = @ \cup {adding[u].template}]
    /\ adding' = [adding EXCEPT ![u] = NoAddition]
    /\ UNCHANGED <<dash, hookVars, additions, taskVars, ghosts, faults>>

AdditionFails(u) ==
    /\ adding[u] # NoAddition
    /\ adding' = [adding EXCEPT ![u] = NoAddition]
    /\ UNCHANGED <<dash, favs, hookVars, additions, taskVars, ghosts, faults>>

RemoveFavourite(i, t) ==
    /\ dash[i].live /\ t \in favs[i]
    /\ favs' = [favs EXCEPT ![i] = @ \ {t}]
    /\ UNCHANGED <<dash, hookVars, userVars, taskVars, ghosts, faults>>

-----------------------------------------------------------------------------
(* move_favorite_templates                                                 *)

StartMove(s, m) ==
    /\ slot[s] = NoMove /\ m \in moves
    /\ moves' = moves \ {m}
    /\ slot' = [slot EXCEPT ![s] = [NoMove EXCEPT !.step = "read", !.from = m.from, !.to = m.to,
                                                  !.tries = m.tries]]
    /\ UNCHANGED <<dash, favs, hookVars, userVars, ghosts, faults>>

\* The old dashboard is read deleted or not, the new one only if it is live.
ReadFavourites(s) ==
    /\ slot[s].step = "read"
    /\ LET m == slot[s] IN
       slot' = [slot EXCEPT ![s] = IF dash[m.to].live
                                   THEN [m EXCEPT !.step = "count", !.todo = favs[m.from]]
                                   ELSE NoMove]
    /\ UNCHANGED <<dash, favs, hookVars, userVars, moves, ghosts, faults>>

\* At the limit the rest is left; otherwise the template is looked for by name.
CountFavourites(s) ==
    /\ slot[s].step = "count"
    /\ IF slot[s].todo = {} \/ Cardinality(favs[slot[s].to]) >= Limit
       THEN slot' = [slot EXCEPT ![s] = NoMove]
       ELSE \E t \in slot[s].todo :
              LET m == [slot[s] EXCEPT !.todo = @ \ {t}] IN
              slot' = [slot EXCEPT ![s] = IF t \in OnWaba[dash[m.to].waba]
                                          THEN [m EXCEPT !.step = "create", !.template = t]
                                          ELSE m]
    /\ UNCHANGED <<dash, favs, hookVars, userVars, moves, ghosts, faults>>

\* get_or_create
CreateFavourite(s) ==
    /\ slot[s].step = "create"
    /\ favs' = [favs EXCEPT ![slot[s].to] = @ \cup {slot[s].template}]
    /\ slot' = [slot EXCEPT ![s].step = "count", ![s].template = None]
    /\ UNCHANGED <<dash, hookVars, userVars, moves, ghosts, faults>>

\* Mutant of MoveRaises: the task is not retried.
MoveRaisesOnce(s) ==
    /\ slot[s] # NoMove /\ Fault
    /\ slot' = [slot EXCEPT ![s] = NoMove]
    /\ UNCHANGED <<dash, favs, hookVars, userVars, moves, ghosts>>

\* autoretry_for: a task that raises starts again, MaxTries times in all.
MoveRaises(s) ==
    /\ slot[s] # NoMove /\ Fault
    /\ LET m == slot[s] IN
       IF m.tries < MaxTries
       THEN /\ moves' = moves \cup {[from |-> m.from, to |-> m.to, tries |-> m.tries + 1]}
            /\ UNCHANGED spoiled
       ELSE /\ spoiled' = spoiled \cup {m.to}
            /\ UNCHANGED moves
    /\ slot' = [slot EXCEPT ![s] = NoMove]
    /\ UNCHANGED <<dash, favs, hookVars, userVars, lost, unsure>>

\* The worker dies: celery has acknowledged the task.
MoveDies(s) ==
    /\ slot[s] # NoMove /\ Fault
    /\ spoiled' = spoiled \cup {slot[s].to}
    /\ slot' = [slot EXCEPT ![s] = NoMove]
    /\ UNCHANGED <<dash, favs, hookVars, userVars, moves, lost, unsure>>

-----------------------------------------------------------------------------

HookStep(h) == FindNumber(h) \/ FindWaba(h) \/ DeleteDashboard(h) \/ CreateDashboard(h)
               \/ RemoveDashboard(h)
MoveStep(s) == ReadFavourites(s) \/ CountFavourites(s) \/ CreateFavourite(s)

Next ==
    \/ \E h \in Hooks : BeginSave(h) \/ BeginRemove(h) \/ HookStep(h) \/ HookDies(h)
    \/ \E u \in Users : CheckAddition(u) \/ CreateAddition(u) \/ AdditionFails(u)
    \/ \E i \in Ids, t \in Templates : RemoveFavourite(i, t)
    \/ \E s \in Slots : MoveStep(s) \/ MoveRaises(s) \/ MoveDies(s)
    \/ \E s \in Slots, m \in moves : StartMove(s, m)

Spec == Init /\ [][Next]_vars

\* Every task in the queue is started, and a started one goes on.
Fairness ==
    /\ \A s \in Slots : WF_vars(MoveStep(s))
    /\ SF_vars(\E s \in Slots, m \in moves : StartMove(s, m))

LiveSpec == Spec /\ Fairness

-----------------------------------------------------------------------------
(* Properties.                                                             *)

Serving(p, f) == \E h \in Hooks : hook[h].step = "create" /\ hook[h].source # 0
                                 /\ hook[h].target = p /\ hook[h].item = f

\* A number that has ever had a dashboard has one live dashboard in its project,
\* and never two, unless it was removed, is being replaced, or was dropped by a
\* webhook that died: neither a migration nor another number on the same WABA
\* takes it away.
NumbersKept ==
    /\ \A i \in Ids : \/ LiveFor(dash[i].project, dash[i].phone) # {}
                      \/ NumberOf(i) \in lost
                      \/ Serving(dash[i].project, dash[i].phone)
    /\ \A p \in Projects, f \in Phones : Cardinality(LiveFor(p, f)) <= 1

\* A migration that ends leaves nothing of its project, nor of the main project, on
\* the WABA that was abandoned, by whichever phase it ends: its own dashboards, the
\* main project's, the copies this one lacked, or the number alone.
MigrationIsWhole ==
    [][\A h \in Hooks, w \in Wabas :
         (hook[h].old = w /\ hook'[h] = NoHook /\ faults' = faults) =>
             \A p \in Projects : p \in {hook[h].project, Main} => LiveOn(p, w)' = {}]_vars

\* Between webhooks, the main project has a copy of each number, on its WABA,
\* but for numbers removed and those of webhooks that died and were not repeated.
MainHasCopies ==
    (\A h \in Hooks : hook[h] = NoHook) =>
        \A i \in Ids : (dash[i].live /\ HasMain(dash[i].project)) =>
            \/ \E j \in LiveFor(Main, dash[i].phone) : dash[j].waba = dash[i].waba
            \/ <<Main, dash[i].phone>> \in lost \/ dash[i].phone \in unsure

\* Checks of the limit and creations interleave, so a dashboard may get over the
\* limit, but by less than the processes that can add to it at once.
FavouritesBounded ==
    \A i \in Ids : Cardinality(favs[i]) < Limit + Cardinality(Users) + Cardinality(Slots)

\* The favourites of a migrated dashboard arrive at the new one, although tasks
\* raise and are retried, unless the new one is full, deleted meanwhile or its
\* task was lost for good.
FavouritesArrive ==
    \A j \in 1..MaxIds, t \in Templates :
        (\E m \in moves : m.to = j /\ t \in favs[m.from] \cap OnWaba[dash[j].waba]) ~>
            /\ j \in Ids
            /\ \/ t \in favs[j] \/ Cardinality(favs[j]) >= Limit
               \/ ~dash[j].live \/ j \in spoiled
=============================================================================
