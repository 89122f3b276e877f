------------------------- MODULE TemplatesAndOrders -------------------------
(***************************************************************************)
(* The pages that show what the messages of a template have sold: the      *)
(* analytics of the template from Meta (MetaAnalytics) and the orders of a *)
(* utm_source from VTEX (VtexOrders), one after the other.                 *)
(*                                                                         *)
(*   view         templates-and-orders                                     *)
(*   skill        the abandoned cart, whose page is kept in redis          *)
(*   utm          orders/from_utm_source, without the templates            *)
(*   conversions  a template and its WABA, orders of one period            *)
(***************************************************************************)
EXTENDS MetaAnalytics, VtexOrders

CONSTANT
    Spans   \* bound: ranges pages are asked for

ASSUME SameProcesses == Web = Requests
ASSUME PagesAssumption == Spans \subseteq Ranges

VARIABLES
    page,   \* the page each process makes
    kept,   \* pages of the abandoned cart in redis, by range
    open    \* bound: pages that may still be asked for, and whether templates alone may

pageVars == <<page, kept, open>>
allVars == <<vars, ordersVars, pageVars>>

NoPage == [step |-> "idle", entry |-> "view", range |-> [start |-> 1, end |-> 1],
           templates |-> 0, zeroed |-> FALSE, current |-> {}, past |-> {}]

PagesTypeOK ==
    /\ \A a \in Requests :
        /\ page[a].step \in {"idle", "templates", "current", "past", "done", "failed"}
        /\ page[a].entry \in {"view", "skill", "utm", "conversions"}
        /\ page[a].range \in Ranges /\ page[a].templates \in Nat /\ page[a].zeroed \in BOOLEAN
        /\ page[a].current \subseteq Orders /\ page[a].past \subseteq Orders
    /\ DOMAIN kept \subseteq Spans /\ open \in [alone: BOOLEAN, pages: Nat]

\* The past period has the length in whole days: N days are moved by N - 1, since
\* the last one ends a second early.
Past(range) ==
    LET period == range.end - range.start
    IN [start |-> range.start - period, end |-> range.end - period]

Idle(a) == ask[a].step # "fetch" /\ page[a].step \notin {"templates", "current", "past"}

\* The last page asked for is the last request.
Asked(a) ==
    /\ Idle(a) /\ open.pages > 0
    /\ open' = [alone |-> open.alone /\ open.pages > 1, pages |-> open.pages - 1]

\* A request of the analytics of a template alone.
BeginAlone(a) ==
    /\ Idle(a) /\ open.alone
    /\ \E entry \in {"public", "internal"}, range \in Ranges : Begin(a, entry, range)
    /\ page' = [page EXCEPT ![a] = NoPage] /\ list' = [list EXCEPT ![a] = NoListing]
    /\ UNCHANGED <<date, invoiced, listed, kept, open>>

-----------------------------------------------------------------------------
(* GetTemplatesAndOrdersMetrics, AbandonedCartSkillService, OrdersService  *)
(* and VTEXOrdersConversionsService.                                       *)

FindPage(a) ==
    /\ Asked(a)
    /\ \E range \in DOMAIN kept : page' = [page EXCEPT ![a] = kept[range]]
    /\ ask' = [ask EXCEPT ![a] = NoAsk] /\ list' = [list EXCEPT ![a] = NoListing]
    /\ UNCHANGED <<today, migrated, cloned, sent, cache, date, invoiced, listed, kept>>

BeginTemplates(a) ==
    /\ Asked(a)
    /\ \E entry \in {"view", "skill"}, range \in Spans :
        /\ entry = "skill" => range \notin DOMAIN kept
        /\ Begin(a, "multi", range)
        /\ page' = [page EXCEPT ![a] = [NoPage EXCEPT !.step = "templates", !.entry = entry,
                                                      !.range = range]]
    /\ list' = [list EXCEPT ![a] = NoListing]
    /\ UNCHANGED <<date, invoiced, listed, kept>>

\* The WABA named is that of a dashboard of the project.
BeginConversions(a) ==
    /\ Asked(a)
    /\ \E range \in Spans :
        /\ Begin(a, "client", range)
        /\ page' = [page EXCEPT ![a] = [NoPage EXCEPT !.step = "templates",
                                                      !.entry = "conversions", !.range = range]]
    /\ list' = [list EXCEPT ![a] = NoListing]
    /\ UNCHANGED <<date, invoiced, listed, kept>>

\* Without templates of that prefix the skill has no page, and the view no messages.
BeginOrders(a) ==
    /\ Asked(a)
    /\ \E entry \in {"view", "skill", "utm"}, range \in Spans :
        LET new == [NoPage EXCEPT !.entry = entry, !.range = range, !.zeroed = TRUE] IN
        IF entry = "skill"
        THEN /\ range \notin DOMAIN kept
             /\ page' = [page EXCEPT ![a] = [new EXCEPT !.step = "failed"]]
             /\ list' = [list EXCEPT ![a] = NoListing]
        ELSE /\ page' = [page EXCEPT ![a] = [new EXCEPT !.step = "current"]]
             /\ BeginListing(a, range)
    /\ ask' = [ask EXCEPT ![a] = NoAsk]
    /\ UNCHANGED <<today, migrated, cloned, sent, cache, date, invoiced, listed, kept>>

TemplatesDone(a) ==
    /\ page[a].step = "templates" /\ ask[a].step = "done"
    /\ page' = [page EXCEPT ![a].step = "current", ![a].templates = ask[a].answer.total]
    /\ BeginListing(a, page[a].range)
    /\ ask' = [ask EXCEPT ![a] = NoAsk]
    /\ UNCHANGED <<today, migrated, cloned, sent, cache, date, invoiced, listed, kept, open>>

\* An error of Meta is answered; after any other the view and the skill go on
\* with no messages.
TemplatesFail(a) ==
    /\ page[a].step = "templates" /\ ask[a].step = "failed"
    /\ \/ /\ page' = [page EXCEPT ![a].step = "failed"]
          /\ UNCHANGED list
       \/ /\ page[a].entry # "conversions"
          /\ page' = [page EXCEPT ![a].step = "current", ![a].zeroed = TRUE]
          /\ BeginListing(a, page[a].range)
    /\ ask' = [ask EXCEPT ![a] = NoAsk]
    /\ UNCHANGED <<today, migrated, cloned, sent, cache, date, invoiced, listed, kept, open>>

\* Mutant of CurrentDone: the filters keep the end the listing has narrowed.
CurrentDoneKeepsEnd(a) ==
    /\ page[a].step = "current" /\ list[a].step = "done" /\ page[a].entry # "conversions"
    /\ page' = [page EXCEPT ![a].step = "past", ![a].current = list[a].seen]
    /\ BeginListing(a, [Past(page[a].range) EXCEPT !.end = list[a].until])
    /\ UNCHANGED <<vars, date, invoiced, listed, kept, open>>

CurrentDone(a) ==
    /\ page[a].step = "current" /\ list[a].step = "done" /\ page[a].entry # "conversions"
    /\ page' = [page EXCEPT ![a].step = "past", ![a].current = list[a].seen]
    /\ BeginListing(a, Past(page[a].range))
    /\ UNCHANGED <<vars, date, invoiced, listed, kept, open>>

ConversionsDone(a) ==
    /\ page[a].step = "current" /\ list[a].step = "done" /\ page[a].entry = "conversions"
    /\ page' = [page EXCEPT ![a].step = "done", ![a].current = list[a].seen]
    /\ UNCHANGED <<vars, ordersVars, kept, open>>

\* The skill keeps its page, also one without messages.
PastDone(a) ==
    /\ page[a].step = "past" /\ list[a].step = "done"
    /\ LET made == [page[a] EXCEPT !.step = "done", !.past = list[a].seen] IN
       /\ page' = [page EXCEPT ![a] = made]
       /\ kept' = IF made.entry # "skill" THEN kept
                  ELSE [r \in DOMAIN kept \cup {made.range} |->
                          IF r = made.range THEN made ELSE kept[r]]
    /\ UNCHANGED <<vars, ordersVars, open>>

OrdersFail(a) ==
    /\ page[a].step \in {"current", "past"} /\ list[a].step = "failed"
    /\ page' = [page EXCEPT ![a].step = "failed"]
    /\ UNCHANGED <<vars, ordersVars, kept, open>>

\* The hour a page is kept.
ForgetPage(range) ==
    /\ range \in DOMAIN kept
    /\ kept' = Restrict(kept, DOMAIN kept \ {range})
    /\ UNCHANGED <<vars, ordersVars, page, open>>

-----------------------------------------------------------------------------

\* A page of the abandoned cart made before, of messages and orders of those days.
MadeBefore(p, range) ==
    /\ p = [NoPage EXCEPT !.step = "done", !.entry = "skill", !.range = range,
                          !.templates = p.templates, !.zeroed = p.zeroed,
                          !.current = p.current, !.past = p.past]
    /\ p.templates \in 0..Truth("multi", "new", range) /\ p.zeroed \in BOOLEAN
    /\ p.current \subseteq InRange(range) /\ p.past \subseteq InRange(Past(range))

\* Any day: messages were sent, on the new WABA since the migration, the shop has
\* its orders, and redis may have pages.
InitPages ==
    /\ today \in Days /\ migrated \in {Never} \cup 1..today /\ cloned \in BOOLEAN
    /\ sent \in [Wabas -> [Days -> 0..MaxSent]]
    /\ \A d \in Days :
        /\ d > today => sent["old"][d] = 0 /\ sent["new"][d] = 0
        /\ migrated = Never \/ d < migrated => sent["new"][d] = 0
        /\ ~cloned => sent["old"][d] = 0
    /\ cache = <<>> /\ ask = [a \in Requests |-> NoAsk]
    /\ date \in Layouts /\ invoiced \subseteq Orders
    /\ list = [a \in Web |-> NoListing] /\ listed = <<>>
    /\ page = [a \in Requests |-> NoPage]
    /\ DOMAIN kept \subseteq Spans /\ kept = [r \in DOMAIN kept |-> kept[r]]
    /\ \A r \in DOMAIN kept : MadeBefore(kept[r], r)
    /\ open \in [alone: BOOLEAN, pages: Nat]

PageStep(a) ==
    \/ TemplatesDone(a) \/ TemplatesFail(a)
    \/ CurrentDone(a) \/ ConversionsDone(a) \/ PastDone(a) \/ OrdersFail(a)

MetaMoves ==
    /\ NewDay \/ Migrate \/ (\E w \in Wabas : Send(w)) \/ (\E key \in Keys : Expire(key))
    /\ UNCHANGED <<ordersVars, pageVars>>

PagesMove ==
    \/ \E o \in Orders : Invoice(o) /\ UNCHANGED <<vars, pageVars>>
    \/ \E range \in DOMAIN listed : ForgetListing(range) /\ UNCHANGED <<vars, pageVars>>
    \/ \E range \in DOMAIN kept : ForgetPage(range)
    \/ \E a \in Requests :
        \/ AskStep(a) /\ UNCHANGED <<ordersVars, pageVars>>
        \/ ListingStep(a) /\ UNCHANGED <<vars, pageVars>>
        \/ BeginAlone(a) \/ FindPage(a) \/ BeginTemplates(a) \/ BeginConversions(a)
        \/ BeginOrders(a) \/ PageStep(a)

NextPages == MetaMoves \/ PagesMove

PagesSpec == InitPages /\ [][NextPages]_allVars

-----------------------------------------------------------------------------
(* Properties.                                                             *)

\* A page, made now or kept, is about one range: its messages are of that range,
\* its orders of that range and of the period before, although the listing of the
\* first narrows the filters from which the second is made.
PageIsOfOneRange ==
    \A p \in {page[a] : a \in {b \in Requests : page[b].step = "done"}} \cup
             {kept[r] : r \in DOMAIN kept} :
        /\ p.templates <= Truth("multi", "new", p.range)
        /\ p.current \subseteq InRange(p.range) /\ p.past \subseteq InRange(Past(p.range))
=============================================================================
